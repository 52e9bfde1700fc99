-------------------------- MODULE NetworkInvariants --------------------------
(***************************************************************************)
(* The inductive invariant of NetworkController, in named parts.  It says  *)
(* how far the copies of the object (the informer's, the one a reconcile   *)
(* works on) may be from the object, and what each step of a reconcile has *)
(* established.  NetworkProofs proves it.                                  *)
(***************************************************************************)
EXTENDS NetworkController

\* A reconcile in progress has an object.
WorkExists == pc # "idle" => Exists(work)

\* Only the last object created can exist, and everything else stems from it
\* or from earlier ones.
UidsInOrder ==
    /\ Exists(net) => net.uid = lastUid
    /\ netCache.uid <= lastUid

OwnersInOrder ==
    \A k \in ConfigMapKinds : cms[k].owner <= lastUid /\ cmCache[k].owner <= lastUid

\* A copy whose resourceVersion is current is a copy of the current object.
FreshIsCurrent ==
    /\ netFresh => netCache = net
    /\ \A k \in ConfigMapKinds : cmFresh[k] => cmCache[k] = cms[k]

\* o is an earlier state of the object p.
Precedes(o, p) ==
    /\ o.generation <= p.generation
    /\ o.generation = p.generation => o.spec = p.spec /\ o.deleting = p.deleting
    /\ o.deleting => p.deleting
    /\ o.finalizer => p.finalizer

\* The informer's copy is an earlier state of the object, or of an earlier
\* object that is on its way out or was never finalized.  Nothing is ever
\* observed that the informer has not shown.
CacheIsPast ==
    /\ Exists(netCache) => netCache.status.observed <= netCache.generation
    /\ Exists(net) /\ netCache.uid = net.uid =>
         /\ Precedes(netCache, net)
         /\ net.status.observed <= netCache.generation
    /\ Exists(net) /\ netCache.uid # net.uid =>
         net.status = EmptyStatus /\ ~net.finalizer
    /\ Exists(netCache) /\ netCache.uid # net.uid /\ netCache.finalizer =>
         netCache.deleting

\* An object without the finalizer was never reported on.
ReportedIsFinalized ==
    Exists(net) /\ ~net.finalizer => net.status.phase = "Unset"

\* The object a reconcile works on is a state of the object the informer has
\* shown, and no report has been written since that it does not know of.
WorkIsPast ==
    pc # "idle" =>
        /\ Exists(net)
        /\ work.uid = net.uid
        /\ netCache.uid = net.uid
        /\ net.finalizer
        /\ work.generation <= netCache.generation
        /\ work.generation = netCache.generation => work.spec = netCache.spec
        /\ net.status.observed <= work.generation
        /\ work.status.observed <= work.generation

\* What the steps up to now have established of the object worked on.
Checked(o) ==
    /\ ValidConfiguration(o.spec)
    /\ o.status.conditions["ConfigurationValid"] = "True"
Connected(o) ==
    /\ L1ChainAt[o.spec.l1RpcUrl] = o.spec.l1ChainID
    /\ o.status.conditions["L1Connected"] = "True"
Discovered(o) ==
    /\ o.status.conditions["ContractsDiscovered"] = "True"
    /\ o.status.contracts # NoAddresses
Generated(maps, k, o) ==
    AutoDiscovered(k, o.spec) =>
        \/ Present(maps[k]) /\ DescribesChain(k, maps[k].data, o.spec)
        \/ ~Present(maps[k]) /\ o.uid > 1

Completed(maps, o) ==
    /\ Checked(o)
    /\ Connected(o)
    /\ Discovered(o)
    /\ \A k \in ConfigMapKinds : Generated(maps, k, o)

Progress ==
    /\ pc \in {"l1", "discover", "rollup", "genesis"} => Checked(work)
    /\ pc \in {"discover", "rollup", "genesis"} => Connected(work)
    /\ pc \in {"rollup", "genesis"} => Discovered(work)
    /\ pc = "genesis" => Generated(cms, "rollup", work)
    /\ pc = "status" => work.status.phase # "Unset"
    /\ pc = "status" /\ work.status.phase = "Ready" =>
         work.status.observed = work.generation /\ Completed(cms, work)

ReadyIsCompleted == ReadyAtCurrentGeneration => Completed(cms, net)

\* The parts that hold unless users meddle: those about the copies of the
\* object, and those about what the reconcile has established.
CopiesInOrder ==
    /\ UidsInOrder
    /\ CacheIsPast
    /\ ReportedIsFinalized
    /\ WorkIsPast

Established ==
    /\ OwnersInOrder
    /\ Progress
    /\ ReadyIsCompleted

Inv ==
    /\ TypeOK
    /\ WorkExists
    /\ FreshIsCurrent
    /\ ~Meddling => CopiesInOrder /\ Established
=============================================================================
