-------------------------- MODULE OpNodeController --------------------------
(***************************************************************************)
(* The OpNode controller (src/internal/controller/opnode_controller.go)    *)
(* reconciling one node, beside an OptimismNetwork that lives as           *)
(* NetworkLifecycle allows, which is what NetworkController is proved to   *)
(* implement.                                                              *)
(*                                                                         *)
(* Granularity, versions and faults are as in NetworkController: a step    *)
(* for every call that leaves the process, an update accepted iff the copy *)
(* it was made from is current.  The informer of networks feeds the reads  *)
(* of this controller but queues nothing: only the node and what it owns   *)
(* are watched.                                                            *)
(***************************************************************************)
EXTENDS OpNodeRules

CONSTANTS
    Specs,                  \* the specifications users give to the node
    NodeNamespace,          \* the namespace of the node
    NetworkName,            \* the name of the network
    NetworkNamespace,       \* and its namespace
    NetworkSpecs,           \* the specifications users give to the network
    SoundNetworks,          \* those its controller may call Ready
    Tokens,                 \* values of generated secrets
    MaxGeneration,          \* bound: edits of the node stop here
    MaxUid,                 \* bound: how often the node is created
    MaxNetworkGeneration,   \* bound: edits of the network stop here
    MaxAttempts,            \* attempts of retry.DefaultRetry (5 in client-go)
    MaxFaults               \* bound: crashes, failed or unanswered writes, and
                            \* writes to the StatefulSet by its own controller

ASSUME SpecsAssumption ==
    /\ Specs \subseteq NodeSpec
    /\ NetworkSpecs \subseteq NetworkData
    /\ SoundNetworks \subseteq NetworkSpecs
ASSUME BoundsAssumption ==
    /\ MaxGeneration \in Nat \ {0}
    /\ MaxUid \in Nat \ {0}
    /\ MaxNetworkGeneration \in Nat \ {0}
    /\ MaxAttempts \in Nat \ {0}
    /\ MaxFaults \in Nat

VARIABLES
    node,           \* the node in the API server
    nodeCache,      \* the informer's copy of it
    nodeFresh,      \* whether that copy has the current resourceVersion
    owned,          \* the secrets, StatefulSet and Service in the API server
    ownedCache,     \* the informers' copies
    ownedFresh,     \* whether each has the current resourceVersion
    network,        \* the network in the API server, as clients see it
    networkCache,   \* what the informer's copy of it tells this controller
    queued,         \* the node's key is in the work queue
    timer,          \* a RequeueAfter delay is running
    pc,             \* the step the reconcile in progress has reached
    work,           \* the node it read and has been modifying
    target,         \* the specification of the network it read
    attempts,       \* failed attempts of its status write
    lastUid,        \* the uid of the last node created
    faults          \* faults so far

nodeVars == <<node, nodeCache, nodeFresh>>
ownedVars == <<owned, ownedCache, ownedFresh>>
networkVars == <<network, networkCache>>
queueVars == <<queued, timer>>
workerVars == <<pc, work, target, attempts>>
vars == <<nodeVars, ownedVars, networkVars, queueVars, workerVars, lastUid, faults>>

-----------------------------------------------------------------------------
\* Objects.

ConditionTypes ==
    {"ConfigurationValid", "NetworkReference", "NetworkReady", "SecretsReady",
     "StatefulSetReady", "ServiceReady"}

\* The information about the running node is made of constants and left out.
Status ==
    [phase: {"Unset", "Pending", "Initializing", "Running", "Error"},
     observed: Nat,
     conditions: [ConditionTypes -> {"Unset", "True", "False"}]]
EmptyStatus ==
    [phase |-> "Unset", observed |-> 0, conditions |-> [c \in ConditionTypes |-> "Unset"]]

Node ==
    [uid: Nat \ {0}, generation: Nat \ {0}, spec: Specs,
     finalizer: BOOLEAN, deleting: BOOLEAN, status: Status]
NoNode == [uid |-> 0]
Exists(o) == o.uid # 0

\* The objects a node owns, by the suffix of their name.  The update of a
\* Service keeps the selector of one specification and takes the ports of
\* another.
StatefulSets == {StatefulSet(s, n) : s \in Specs, n \in NetworkSpecs}
Services ==
    [selector: {Labels(s, n) : s \in Specs, n \in NetworkSpecs},
     ports: {Ports(s) : s \in Specs}]
Kinds == {"jwt", "p2p", "statefulset", "service"}
Owned(k) ==
    [owner: Nat \ {0},
     data: IF k = "statefulset" THEN StatefulSets
           ELSE IF k = "service" THEN Services ELSE Tokens]
Nothing == [owner |-> 0]
Present(o) == o.owner # 0

\* The network as its clients see it.
Sound(s) == s \in SoundNetworks
Networks == INSTANCE NetworkLifecycle WITH
    Uids <- {1}, Specs <- NetworkSpecs, Valid <- Sound, obj <- network

\* What this controller reads of it, as the set of it alone.
Seen(n) == IF Exists(n) THEN {[ready |-> n.phase = "Ready", spec |-> n.spec]} ELSE {}
Sights == {{}} \cup {{n} : n \in [ready: BOOLEAN, spec: NetworkSpecs]}

TypeOK ==
    /\ node \in Node \cup {NoNode}
    /\ nodeCache \in Node \cup {NoNode}
    /\ nodeFresh \in BOOLEAN
    /\ DOMAIN owned = Kinds /\ \A k \in Kinds : owned[k] \in Owned(k) \cup {Nothing}
    /\ DOMAIN ownedCache = Kinds /\ \A k \in Kinds : ownedCache[k] \in Owned(k) \cup {Nothing}
    /\ ownedFresh \in [Kinds -> BOOLEAN]
    /\ network \in Networks!Object \cup {NoNode}
    /\ networkCache \in Sights
    /\ queued \in BOOLEAN
    /\ timer \in BOOLEAN
    /\ pc \in {"idle", "status"} \cup Kinds
    /\ work \in Node \cup {NoNode}
    /\ target \in SUBSET NetworkSpecs
    /\ attempts \in 0 .. MaxAttempts - 1
    /\ lastUid \in 0 .. MaxUid
    /\ faults \in 0 .. MaxFaults

Init ==
    /\ node = NoNode
    /\ nodeCache = NoNode
    /\ nodeFresh = TRUE
    /\ owned = [k \in Kinds |-> Nothing]
    /\ ownedCache = [k \in Kinds |-> Nothing]
    /\ ownedFresh = [k \in Kinds |-> TRUE]
    /\ Networks!Init
    /\ networkCache = {}
    /\ queued = FALSE
    /\ timer = FALSE
    /\ pc = "idle"
    /\ work = NoNode
    /\ target = {}
    /\ attempts = 0
    /\ lastUid = 0
    /\ faults = 0

-----------------------------------------------------------------------------
\* Calls to the API server.

\* A write that the server would accept iff ok: whether it is applied and
\* whether the controller sees an error.
Call(ok, applied, error) ==
    \/ applied = ok /\ error = ~ok /\ UNCHANGED faults
    \/ /\ faults < MaxFaults
       /\ applied \in {FALSE, ok}
       /\ error = TRUE
       /\ faults' = faults + 1

\* The server has stored o.
StoreNode(o) == node' = o /\ nodeFresh' = FALSE

SetCondition(o, type, value) == [o EXCEPT !.status.conditions[type] = value]
SetPhase(o, phase) == [o EXCEPT !.status.phase = phase]

\* A condition that fails decides the phase.
Fail(o, type, phase) == SetPhase(SetCondition(o, type, "False"), phase)

-----------------------------------------------------------------------------
\* The worker takes the key from the queue and reads the node from the cache.

Begin == pc = "idle" /\ queued

FetchNothing ==
    /\ Begin
    /\ ~Exists(nodeCache)
    /\ queued' = FALSE
    /\ UNCHANGED <<nodeVars, ownedVars, networkVars, timer, workerVars, lastUid, faults>>

\* A mutant: the error of the update is not returned.
HandleDeletionOnce ==
    /\ Begin
    /\ Exists(nodeCache)
    /\ nodeCache.deleting
    /\ \E applied, error \in BOOLEAN :
         /\ Call(nodeFresh, applied, error)
         /\ IF applied THEN StoreNode(NoNode) ELSE UNCHANGED <<node, nodeFresh>>
         /\ queued' = FALSE
    /\ UNCHANGED <<nodeCache, ownedVars, networkVars, timer, workerVars, lastUid>>

\* handleDeletion: the finalizer is removed, and with it, as it is the last,
\* the node.
HandleDeletion ==
    /\ Begin
    /\ Exists(nodeCache)
    /\ nodeCache.deleting
    /\ \E applied, error \in BOOLEAN :
         /\ Call(nodeFresh, applied, error)
         /\ IF applied THEN StoreNode(NoNode) ELSE UNCHANGED <<node, nodeFresh>>
         /\ queued' = error
    /\ UNCHANGED <<nodeCache, ownedVars, networkVars, timer, workerVars, lastUid>>

AddFinalizer ==
    /\ Begin
    /\ Exists(nodeCache)
    /\ ~nodeCache.deleting
    /\ ~nodeCache.finalizer
    /\ \E applied, error \in BOOLEAN :
         /\ Call(nodeFresh, applied, error)
         /\ IF applied THEN StoreNode([nodeCache EXCEPT !.finalizer = TRUE])
                       ELSE UNCHANGED <<node, nodeFresh>>
    /\ UNCHANGED <<nodeCache, ownedVars, networkVars, queueVars, workerVars, lastUid>>

\* What a reconcile reports that stops before it touches an owned object.
StopWith(o) ==
    /\ work' = [o EXCEPT !.status.observed = o.generation]
    /\ target' = {}
    /\ pc' = "status"

\* The network there is, is the one the specification refers to.
Refers(spec) ==
    NetworkKey(spec, NodeNamespace) = [name |-> NetworkName, namespace |-> NetworkNamespace]

\* fetchOptimismNetwork, and whether the network is ready.  Nothing is asked
\* of the generation its readiness was reported for.
FetchNetwork(o) ==
    LET found == {n \in networkCache : Refers(o.spec)}
        referred == SetCondition(o, "NetworkReference", "True")
    IN  \/ found = {} /\ StopWith(Fail(o, "NetworkReference", "Error"))
        \/ \E n \in found :
             /\ ~n.ready
             /\ StopWith(Fail(referred, "NetworkReady", "Pending"))
        \/ \E n \in found :
             /\ n.ready
             /\ work' = SetPhase(SetCondition(referred, "NetworkReady", "True"), "Initializing")
             /\ target' = {n.spec}
             /\ pc' = "jwt"

\* A mutant: the reconcile goes on whether or not the finalizer is there.
ValidateUnfinalized ==
    /\ Begin
    /\ Exists(nodeCache)
    /\ ~nodeCache.deleting
    /\ queued' = FALSE
    /\ \/ ~ValidNode(nodeCache.spec) /\ StopWith(Fail(nodeCache, "ConfigurationValid", "Error"))
       \/ ValidNode(nodeCache.spec) /\ FetchNetwork(SetCondition(nodeCache, "ConfigurationValid", "True"))
    /\ UNCHANGED <<nodeVars, ownedVars, networkVars, timer, attempts, lastUid, faults>>

Validate ==
    /\ Begin
    /\ Exists(nodeCache)
    /\ ~nodeCache.deleting
    /\ nodeCache.finalizer
    /\ queued' = FALSE
    /\ \/ ~ValidNode(nodeCache.spec) /\ StopWith(Fail(nodeCache, "ConfigurationValid", "Error"))
       \/ ValidNode(nodeCache.spec) /\ FetchNetwork(SetCondition(nodeCache, "ConfigurationValid", "True"))
    /\ UNCHANGED <<nodeVars, ownedVars, networkVars, timer, attempts, lastUid, faults>>

-----------------------------------------------------------------------------
\* The owned objects.

\* The step after k has been reconciled: both secrets make one condition, and
\* after the service the node is Running.
Step(k) == IF k \in {"jwt", "p2p"} THEN "SecretsReady"
           ELSE IF k = "statefulset" THEN "StatefulSetReady" ELSE "ServiceReady"

Report(o) == [o EXCEPT !.status.observed = o.generation]

Succeed(k) ==
    \/ /\ k = "jwt"
       /\ work.spec.p2pKey = "generate"
       /\ pc' = "p2p" /\ work' = work
    \/ /\ \/ k = "p2p"
          \/ k = "jwt" /\ work.spec.p2pKey # "generate"
       /\ pc' = "statefulset" /\ work' = SetCondition(work, "SecretsReady", "True")
    \/ /\ k = "statefulset"
       /\ pc' = "service" /\ work' = SetCondition(work, "StatefulSetReady", "True")
    \/ /\ k = "service"
       /\ pc' = "status"
       /\ work' = Report(SetPhase(SetCondition(work, "ServiceReady", "True"), "Running"))

\* Mutant: an error is reported but does not stop the reconcile.
GoOnAfter(k, error) ==
    \/ ~error /\ Succeed(k)
    \/ /\ error
       /\ work' = IF k = "service" THEN Report(Fail(work, "ServiceReady", "Error"))
                  ELSE SetCondition(work, Step(k), "False")
       /\ pc' = IF k = "service" THEN "status"
                ELSE IF k = "statefulset" THEN "service" ELSE "statefulset"

After(k, error) ==
    \/ ~error /\ Succeed(k)
    \/ error /\ pc' = "status" /\ work' = Report(Fail(work, Step(k), "Error"))

\* The server stores o as the object of kind k; what is there already is not
\* a change.
StoreOwned(k, o) ==
    IF o = owned[k] THEN UNCHANGED <<owned, ownedFresh>>
    ELSE /\ owned' = [owned EXCEPT ![k] = o]
         /\ ownedFresh' = [ownedFresh EXCEPT ![k] = FALSE]

\* A create or an update of the object of kind k.
Write(k, ok, o) ==
    \E applied, error \in BOOLEAN :
        /\ Call(ok, applied, error)
        /\ IF applied THEN StoreOwned(k, o) ELSE UNCHANGED <<owned, ownedFresh>>
        /\ After(k, error)

New(data) == [owner |-> work.uid, data |-> data]

\* reconcileJWTSecret and reconcileP2PSecret: a secret the cache has is left
\* alone, else one with a random value is created.  The mutant replaces what
\* the server may have.
ReplaceSecret(k) ==
    \/ Present(ownedCache[k]) /\ After(k, FALSE) /\ UNCHANGED <<owned, ownedFresh, faults>>
    \/ ~Present(ownedCache[k]) /\ \E t \in Tokens : Write(k, TRUE, New(t))
ReconcileSecret(k) ==
    \/ Present(ownedCache[k]) /\ After(k, FALSE) /\ UNCHANGED <<owned, ownedFresh, faults>>
    \/ ~Present(ownedCache[k]) /\ \E t \in Tokens : Write(k, ~Present(owned[k]), New(t))

\* reconcileStatefulSet: an update replaces the whole specification, which
\* the server refuses if an immutable part differs.
ReconcileStatefulSet(data) ==
    LET current == ownedCache["statefulset"] IN
      \/ ~Present(current) /\ Write("statefulset", ~Present(owned["statefulset"]), New(data))
      \/ /\ Present(current)
         /\ Write("statefulset",
                  ownedFresh["statefulset"] /\ SameImmutable(current.data, data),
                  [current EXCEPT !.data = data])

\* reconcileService: an update replaces the ports and keeps the selector.
ReconcileService(data) ==
    LET current == ownedCache["service"] IN
      \/ ~Present(current) /\ Write("service", ~Present(owned["service"]), New(data))
      \/ /\ Present(current)
         /\ Write("service", ownedFresh["service"], [current EXCEPT !.data.ports = data.ports])

ReconcileOwned ==
    /\ \/ pc \in {"jwt", "p2p"} /\ ReconcileSecret(pc)
       \/ pc = "statefulset" /\ \E n \in target : ReconcileStatefulSet(StatefulSet(work.spec, n))
       \/ pc = "service" /\ \E n \in target : ReconcileService(Service(work.spec, n))
    /\ UNCHANGED <<nodeVars, ownedCache, networkVars, queueVars, target, attempts, lastUid>>

-----------------------------------------------------------------------------
\* The write of the status, whose error is ignored; every reconcile that gets
\* here ends with a delayed requeue.

\* A mutant: a reconcile that found the network not ready waits for an event.
ReturnToWait ==
    /\ pc' = "idle"
    /\ work' = NoNode
    /\ target' = {}
    /\ attempts' = 0
    /\ timer' = (timer \/ work.status.phase # "Pending")
    /\ UNCHANGED queued

Return ==
    /\ pc' = "idle"
    /\ work' = NoNode
    /\ target' = {}
    /\ attempts' = 0
    /\ timer' = TRUE
    /\ UNCHANGED queued

\* One attempt of updateStatusWithRetry.  The conditions carry times in
\* seconds, so a write that changes nothing else is a change or not.
StoreStatus ==
    LET o == [nodeCache EXCEPT !.status = work.status] IN
      \/ StoreNode(o)
      \/ o = node /\ UNCHANGED <<node, nodeFresh>>

StatusStored ==
    /\ nodeFresh
    /\ StoreStatus
    /\ Return
    /\ UNCHANGED faults

\* A mutant: one attempt too many.
StatusConflictOnceMore ==
    /\ ~nodeFresh
    /\ Exists(node)
    /\ IF attempts < MaxAttempts
       THEN attempts' = attempts + 1 /\ UNCHANGED <<pc, work, target, queueVars>>
       ELSE Return
    /\ UNCHANGED <<node, nodeFresh, faults>>

StatusConflict ==
    /\ ~nodeFresh
    /\ Exists(node)
    /\ IF attempts < MaxAttempts - 1
       THEN attempts' = attempts + 1 /\ UNCHANGED <<pc, work, target, queueVars>>
       ELSE Return
    /\ UNCHANGED <<node, nodeFresh, faults>>

StatusNotFound ==
    /\ ~Exists(nodeCache) \/ ~Exists(node)
    /\ Return
    /\ UNCHANGED <<node, nodeFresh, faults>>

StatusFault ==
    /\ faults < MaxFaults
    /\ faults' = faults + 1
    /\ Exists(nodeCache)
    /\ (nodeFresh /\ StoreStatus) \/ UNCHANGED <<node, nodeFresh>>
    /\ Return

WriteStatus ==
    /\ pc = "status"
    /\ \/ Exists(nodeCache) /\ (StatusStored \/ StatusConflict)
       \/ StatusNotFound
       \/ StatusFault
    /\ UNCHANGED <<nodeCache, ownedVars, networkVars, lastUid>>

Reconcile ==
    \/ FetchNothing
    \/ HandleDeletion
    \/ AddFinalizer
    \/ Validate
    \/ ReconcileOwned
    \/ WriteStatus

-----------------------------------------------------------------------------
\* What happens around the controller.

UserCreate(s) ==
    /\ ~Exists(node)
    /\ lastUid < MaxUid
    /\ StoreNode([uid |-> lastUid + 1, generation |-> 1, spec |-> s,
                  finalizer |-> FALSE, deleting |-> FALSE, status |-> EmptyStatus])
    /\ lastUid' = lastUid + 1
    /\ UNCHANGED <<nodeCache, ownedVars, networkVars, queueVars, workerVars, faults>>

UserEdit(s) ==
    /\ Exists(node)
    /\ s # node.spec
    /\ node.generation < MaxGeneration
    /\ StoreNode([node EXCEPT !.spec = s, !.generation = @ + 1])
    /\ UNCHANGED <<nodeCache, ownedVars, networkVars, queueVars, workerVars, lastUid, faults>>

UserDelete ==
    /\ Exists(node)
    /\ ~node.deleting
    /\ StoreNode(IF node.finalizer
                 THEN [node EXCEPT !.deleting = TRUE, !.generation = @ + 1]
                 ELSE NoNode)
    /\ UNCHANGED <<nodeCache, ownedVars, networkVars, queueVars, workerVars, lastUid, faults>>

\* The garbage collector removes what a vanished node owned.
CollectOwned(k) ==
    /\ Present(owned[k])
    /\ owned[k].owner # node.uid
    /\ owned' = [owned EXCEPT ![k] = Nothing]
    /\ ownedFresh' = [ownedFresh EXCEPT ![k] = FALSE]
    /\ UNCHANGED <<nodeVars, ownedCache, networkVars, queueVars, workerVars, lastUid, faults>>

\* The StatefulSet's own controller writes its status.
RunStatefulSet ==
    /\ faults < MaxFaults
    /\ faults' = faults + 1
    /\ Present(owned["statefulset"])
    /\ ownedFresh' = [ownedFresh EXCEPT !["statefulset"] = FALSE]
    /\ UNCHANGED <<nodeVars, owned, ownedCache, networkVars, queueVars, workerVars, lastUid>>

\* The network lives its life.  Nobody here reads the generation a report
\* names: one that allows every report stands for all.
NetworkStep ==
    /\ Networks!Next
    /\ Exists(network') =>
         /\ network'.generation <= MaxNetworkGeneration
         /\ network'.observed = IF network'.phase = "Ready" THEN 1 ELSE 0
    /\ UNCHANGED <<nodeVars, ownedVars, networkCache, queueVars, workerVars, lastUid, faults>>

SyncNode ==
    /\ ~nodeFresh
    /\ nodeCache' = node
    /\ nodeFresh' = TRUE
    /\ queued' = TRUE
    /\ UNCHANGED <<node, ownedVars, networkVars, timer, workerVars, lastUid, faults>>

SyncOwned(k) ==
    /\ ~ownedFresh[k]
    /\ ownedCache' = [ownedCache EXCEPT ![k] = owned[k]]
    /\ ownedFresh' = [ownedFresh EXCEPT ![k] = TRUE]
    /\ queued' = TRUE
    /\ UNCHANGED <<nodeVars, owned, networkVars, timer, workerVars, lastUid, faults>>

\* A network's event queues nothing here.
SyncNetwork ==
    /\ networkCache # Seen(network)
    /\ networkCache' = Seen(network)
    /\ UNCHANGED <<nodeVars, ownedVars, network, queueVars, workerVars, lastUid, faults>>

TimerFires ==
    /\ timer
    /\ timer' = FALSE
    /\ queued' = TRUE
    /\ UNCHANGED <<nodeVars, ownedVars, networkVars, workerVars, lastUid, faults>>

Restart ==
    /\ faults < MaxFaults
    /\ faults' = faults + 1
    /\ pc' = "idle"
    /\ work' = NoNode
    /\ target' = {}
    /\ attempts' = 0
    /\ nodeCache' = node
    /\ nodeFresh' = TRUE
    /\ ownedCache' = owned
    /\ ownedFresh' = [k \in Kinds |-> TRUE]
    /\ networkCache' = Seen(network)
    /\ queued' = (Exists(node) \/ \E k \in Kinds : Present(owned[k]))
    /\ timer' = FALSE
    /\ UNCHANGED <<node, owned, network, lastUid>>

Environment ==
    \/ \E s \in Specs : UserCreate(s) \/ UserEdit(s)
    \/ UserDelete
    \/ \E k \in Kinds : CollectOwned(k) \/ SyncOwned(k)
    \/ RunStatefulSet
    \/ NetworkStep
    \/ SyncNode
    \/ SyncNetwork
    \/ TimerFires
    \/ Restart

Next == Reconcile \/ Environment

\* The worker runs, informers catch up, delays elapse and the collector runs.
\* Nothing is assumed of users, of the network or of faults.
Fairness ==
    /\ WF_vars(Reconcile)
    /\ WF_vars(SyncNode)
    /\ WF_vars(SyncNetwork)
    /\ \A k \in Kinds : WF_vars(SyncOwned(k)) /\ WF_vars(CollectOwned(k))
    /\ WF_vars(TimerFires)

Spec == Init /\ [][Next]_vars
FairSpec == Spec /\ Fairness

-----------------------------------------------------------------------------
\* Properties.

\* What is created or changed by name is created or changed for a node that
\* exists, is finalized, and is the one the reconcile was started for.
ReconcileHoldsLiveNode ==
    pc # "idle" =>
        /\ Exists(node)
        /\ work.uid = node.uid
        /\ node.finalizer
        /\ work.generation <= node.generation
        /\ work.generation = node.generation => work.spec = node.spec

\* A generated secret, once it is the node's own, is never replaced: the two
\* processes of a node and its peers go on agreeing on it through late reads,
\* lost answers and restarts.
SecretsAreStable ==
    [][\A k \in {"jwt", "p2p"} :
         Exists(node) /\ node'.uid = node.uid /\ owned[k].owner = node.uid
           => owned'[k] = owned[k]]_vars

\* The selector of a node's Service, never updated, and the labels of its pods,
\* never updatable, agree, although each is made in its own call from what
\* was then known of the network and from what the node then was.  A node
\* created again may find a StatefulSet of the earlier one, make a Service to
\* match what it was not going to keep, and then be edited.
ServiceSelectsPods ==
    /\ node.uid = 1
    /\ Present(owned["statefulset"])
    /\ Present(owned["service"])
    => owned["service"].data.selector = owned["statefulset"].data.labels

\* A StatefulSet mounts no secret that is not there.  One may be missing if it
\* was taken over from an earlier node of the same name.
MountsExist ==
    Exists(node) /\ node.uid = 1 /\ Present(owned["statefulset"]) =>
        \A k \in owned["statefulset"].data.template.mounts : Present(owned[k])

\* Running at the current generation is earned by that generation: the
\* workload is the one its specification asks for, on a network that exists.
RunningAtCurrentGeneration ==
    Exists(node) /\ node.status.phase = "Running" /\ node.status.observed = node.generation

MadeFor(s) ==
    \E n \in NetworkSpecs :
        /\ owned["statefulset"].data = StatefulSet(s, n)
        /\ owned["service"].data.ports = Ports(s)

RunningIsEarned ==
    RunningAtCurrentGeneration /\ node.uid = 1 =>
        /\ ValidNode(node.spec)
        /\ \A c \in ConditionTypes : node.status.conditions[c] = "True"
        /\ \A k \in {"jwt", "statefulset", "service"} : Present(owned[k])
        /\ MadeFor(node.spec)

\* Two builders, called at different times, derive from the specification where
\* a process listens and where the Service sends its clients; the update of the
\* StatefulSet and that of the Service are two writes.  A Running node is
\* reached where it listens, at whatever ports it was last given, unless its
\* users chose the ports of the Service.
Listens(t) == t.geth.http \cup t.geth.ws \cup t.node.rpc \cup t.node.p2p
ServiceReachesPods ==
    RunningAtCurrentGeneration /\ node.uid = 1 /\ node.spec.ports = {} =>
        {p.target : p \in {q \in owned["service"].data.ports :
                              q.name \notin {"gethP2p", "metrics"}}}
          = Listens(owned["statefulset"].data.template)

\* The two processes of a pod are configured apart, and by edits of one part of
\* the specification: the op-node finds the engine API where its geth serves
\* it, with the secret both have, if the specification configures it.
EngineIsReached ==
    Present(owned["statefulset"]) =>
        LET t == owned["statefulset"].data.template IN
        t.geth.authrpc # {} => t.node.l2 \in t.geth.authrpc /\ t.geth.jwt

\* The life of the node and of its workload is the one users may rely on: a
\* workload is only made for a node that stays while it is, of a specification
\* it has had, on a network last seen Ready; and Running says it is there.
ClientView(o) ==
    IF Exists(o)
    THEN [uid |-> o.uid, generation |-> o.generation, spec |-> o.spec,
          deleting |-> o.deleting, phase |-> o.status.phase,
          observed |-> o.status.observed]
    ELSE NoNode
Deployable(s) == ValidNode(s) /\ Refers(s)

SeenReady == {n.spec : n \in {m \in networkCache : m.ready}}
Deployment ==
    {[generation |-> work.generation, spec |-> work.spec, network |-> n] : n \in target}

Lifecycle == INSTANCE NodeLifecycle WITH
    Uids <- 1 .. MaxUid, NetworkData <- NetworkSpecs, Workload <- StatefulSet,
    Compatible <- SameImmutable, obj <- ClientView(node),
    workload <- owned["statefulset"], sight <- SeenReady, target <- Deployment

ImplementsNodeLifecycle == Lifecycle!Spec

-----------------------------------------------------------------------------
\* Liveness, under FairSpec.

NetworkReadyAs(n) == Exists(network) /\ network.phase = "Ready" /\ network.spec = n
LeftAlone(s) == Exists(node) /\ ~node.deleting /\ node.spec = s
WorkloadOf(s, n) ==
    /\ Present(owned["statefulset"]) /\ owned["statefulset"].data = StatefulSet(s, n)
    /\ Present(owned["service"]) /\ owned["service"].data = Service(s, n)

\* A valid node that is left alone, on a network that stays Ready, becomes and
\* stays Running with the workload of its specification, although nobody
\* tells the controller of the network, and whatever came before that did not
\* change an immutable part of the StatefulSet.
Immutable(s, n) == [labels |-> Labels(s, n), storage |-> Storage(s)]
ValidNodeRuns ==
    \A s \in {t \in Specs : Deployable(t)}, n \in NetworkSpecs :
        (\A t \in Specs, m \in NetworkSpecs : Immutable(t, m) = Immutable(s, n)) =>
        (<>[](LeftAlone(s) /\ NetworkReadyAs(n)) =>
            <>[](RunningAtCurrentGeneration /\ WorkloadOf(s, n)))

\* A node marked for deletion goes.
DeletionCompletes ==
    \A u \in 1 .. MaxUid : (node.uid = u /\ node.deleting) ~> node.uid # u

-----------------------------------------------------------------------------
\* A statement of the source that the code does not keep.

\* opnode_controller.go:386: "Update existing StatefulSet if needed".  Then a
\* valid node left alone on a Ready network gets the workload it asks for,
\* whatever it asked for before.
NodeFollowsItsSpec ==
    \A s \in {t \in Specs : Deployable(t)}, n \in NetworkSpecs :
        <>[](LeftAlone(s) /\ NetworkReadyAs(n)) =>
            <>(Present(owned["statefulset"]) /\ owned["statefulset"].data = StatefulSet(s, n))
=============================================================================
