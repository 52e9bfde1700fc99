--------------------------- MODULE OpNodeInvariants ---------------------------
(***************************************************************************)
(* The inductive invariant of OpNodeController, in named parts: how far    *)
(* the copies of the node may be from the node, and what each step of a    *)
(* reconcile has established of the objects it makes.  OpNodeProofs and    *)
(* OpNodeSafetyProofs prove it.                                            *)
(***************************************************************************)
EXTENDS OpNodeController

\* A reconcile in progress has a node.
WorkExists == pc # "idle" => Exists(work)

\* Only the last node created can exist, and everything else stems from it or
\* from earlier ones.
UidsInOrder ==
    /\ Exists(node) => node.uid = lastUid
    /\ nodeCache.uid <= lastUid

OwnersInOrder ==
    \A k \in Kinds : owned[k].owner <= lastUid /\ ownedCache[k].owner <= lastUid

\* A copy whose resourceVersion is current is a copy of the current object.
FreshIsCurrent ==
    /\ nodeFresh => nodeCache = node
    /\ \A k \in Kinds : ownedFresh[k] => ownedCache[k] = owned[k]

\* o is an earlier state of the node p.
Precedes(o, p) ==
    /\ o.generation <= p.generation
    /\ o.generation = p.generation => o.spec = p.spec /\ o.deleting = p.deleting
    /\ o.deleting => p.deleting
    /\ o.finalizer => p.finalizer

\* The informer's copy is an earlier state of the node, or of an earlier node
\* that is on its way out or was never finalized.  Nothing is ever observed
\* that the informer has not shown.
CacheIsPast ==
    /\ Exists(nodeCache) => nodeCache.status.observed <= nodeCache.generation
    /\ Exists(node) /\ nodeCache.uid = node.uid =>
         /\ Precedes(nodeCache, node)
         /\ node.status.observed <= nodeCache.generation
    /\ Exists(node) /\ nodeCache.uid # node.uid =>
         node.status = EmptyStatus /\ ~node.finalizer
    /\ Exists(nodeCache) /\ nodeCache.uid # node.uid /\ nodeCache.finalizer =>
         nodeCache.deleting

\* A node without the finalizer was never reported on.
ReportedIsFinalized ==
    Exists(node) /\ ~node.finalizer => node.status.phase = "Unset"

\* The node a reconcile works on is a state of the node the informer has shown,
\* and no report has been written since that it does not know of.
WorkIsPast ==
    pc # "idle" =>
        /\ Exists(node)
        /\ work.uid = node.uid
        /\ nodeCache.uid = node.uid
        /\ node.finalizer
        /\ work.generation <= nodeCache.generation
        /\ work.generation = nodeCache.generation => work.spec = nodeCache.spec
        /\ node.status.observed <= work.generation
        /\ work.status.observed <= work.generation

CopiesInOrder ==
    /\ UidsInOrder
    /\ CacheIsPast
    /\ ReportedIsFinalized
    /\ WorkIsPast

\* A reconcile that has begun to deploy has a network, and reports only
\* what it has come to.
Reporting ==
    /\ pc = "idle" => target = {}
    /\ pc \in Kinds =>
         /\ \E n \in NetworkSpecs : target = {n}
         /\ work.status.phase = "Initializing"
         /\ Deployable(work.spec)
    /\ pc = "status" =>
         /\ work.status.phase \in {"Pending", "Error", "Running"}
         /\ work.status.observed = work.generation
         /\ work.status.phase = "Running" => Deployable(work.spec) /\ target # {}

\* What the steps up to now have established: the object of kind k is as
\* expected, unless it was an earlier node's and went with that.
Made(k, ok) ==
    \/ Present(owned[k]) /\ ok
    \/ ~Present(owned[k]) /\ node.uid # 1
StatefulSetMade ==
    \A n \in target : Made("statefulset", owned["statefulset"].data = StatefulSet(work.spec, n))
ServiceMade == Made("service", owned["service"].data.ports = Ports(work.spec))

Conditions(types) == \A c \in types : work.status.conditions[c] = "True"

Progress ==
    /\ pc \in Kinds => Conditions({"ConfigurationValid", "NetworkReference", "NetworkReady"})
    /\ pc \in {"p2p", "statefulset", "service"} => Made("jwt", TRUE)
    /\ pc \in {"statefulset", "service"} =>
         /\ work.spec.p2pKey = "generate" => Made("p2p", TRUE)
         /\ Conditions({"SecretsReady"})
    /\ pc = "service" => StatefulSetMade /\ Conditions({"StatefulSetReady"})
    /\ pc = "status" /\ work.status.phase = "Running" =>
         /\ Conditions(ConditionTypes)
         /\ Made("jwt", TRUE)
         /\ StatefulSetMade
         /\ ServiceMade

\* While the first node is there, nothing made for it goes, and the objects
\* that depend on another are made after it.
FirstKeeps ==
    node.uid = 1 =>
        /\ \A k \in Kinds : Present(ownedCache[k]) => Present(owned[k])
        /\ Present(owned["service"]) => Present(owned["statefulset"])

Established ==
    /\ Reporting
    /\ Progress
    /\ FirstKeeps
    /\ MountsExist
    /\ ServiceSelectsPods
    /\ RunningIsEarned

Inv ==
    /\ TypeOK
    /\ WorkExists
    /\ OwnersInOrder
    /\ FreshIsCurrent
    /\ CopiesInOrder
    /\ Established
=============================================================================
