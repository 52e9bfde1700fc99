-------------------------- MODULE OpNodeSafetyProofs --------------------------
(***************************************************************************)
(* Proof that Inv (module OpNodeInvariants) is an invariant of             *)
(* OpNodeController, of the safety properties that follow from it, and     *)
(* that OpNodeController implements NodeLifecycle.                         *)
(***************************************************************************)
EXTENDS OpNodeProofs

-----------------------------------------------------------------------------
\* How the owned objects change.

LEMMA PresentFields ==
    ASSUME TypeOK, NEW k \in Kinds
    PROVE  /\ owned[k].owner \in Nat /\ ownedCache[k].owner \in Nat
           /\ Present(owned[k]) => owned[k] \in Owned(k)
           /\ ~Present(Nothing)
  BY OwnedFields DEF TypeOK, Present, Nothing

\* Outside the controller only the collector removes an object, and nothing
\* that the first node owns while it is there.
LEMMA CollectEffect ==
    ASSUME Typed, UidsInOrder, OwnersInOrder, NEW k \in Kinds, CollectOwned(k)
    PROVE  /\ UNCHANGED <<nodeVars, ownedCache, networkVars, queueVars, workerVars, lastUid>>
           /\ owned'[k] = Nothing
           /\ \A j \in Kinds : j # k => owned'[j] = owned[j]
           /\ node.uid # 1
<1>1. /\ UNCHANGED <<nodeVars, ownedCache, networkVars, queueVars, workerVars, lastUid>>
      /\ owned'[k] = Nothing
      /\ \A j \in Kinds : j # k => owned'[j] = owned[j]
      /\ owned[k].owner # 0 /\ owned[k].owner # node.uid
  BY DEF CollectOwned, Typed, TypeOK, Present
<1>2. owned[k].owner \in Nat /\ owned[k].owner <= lastUid /\ lastUid \in Nat
  BY PresentFields, LastUidIsNat DEF Typed, OwnersInOrder
<1>3. node.uid # 0 => node.uid = lastUid
  BY DEF UidsInOrder, Exists
<1>4. QED
  BY <1>1, <1>2, <1>3

LEMMA OwnedChange ==
    ASSUME [Next]_vars
    PROVE  \/ UNCHANGED owned
           \/ ReconcileOwned
           \/ \E k \in Kinds : CollectOwned(k)
  BY DEF Next, Reconcile, Environment, FetchNothing, HandleDeletion, AddFinalizer, Validate,
     WriteStatus, UserCreate, UserEdit, UserDelete, SyncOwned, RunStatefulSet, NetworkStep,
     SyncNode, SyncNetwork, TimerFires, Restart, vars, ownedVars

LEMMA OwnedCacheChange ==
    ASSUME Typed, [Next]_vars
    PROVE  \A k \in Kinds : ownedCache'[k] \in {ownedCache[k], owned[k]}
<1>1. \/ UNCHANGED ownedCache
      \/ \E k \in Kinds : SyncOwned(k)
      \/ ownedCache' = owned
  BY DEF Next, Reconcile, Environment, FetchNothing, HandleDeletion, AddFinalizer, Validate,
     ReconcileOwned, WriteStatus, UserCreate, UserEdit, UserDelete, CollectOwned,
     RunStatefulSet, NetworkStep, SyncNode, SyncNetwork, TimerFires, Restart, vars, ownedVars
<1>2. QED
  BY <1>1 DEF SyncOwned, Typed, TypeOK

\* An object that a reconcile writes keeps its owner or gets the node worked on
\* as its owner.
LEMMA WrittenOwner ==
    ASSUME Typed, ReconcileOwned
    PROVE  /\ \A k \in Kinds : owned'[k].owner \in {owned[k].owner, work.uid}
           /\ \A k \in Kinds : Present(owned[k]) => Present(owned'[k])
           /\ \A k \in Kinds : k # pc => owned'[k] = owned[k]
           /\ UNCHANGED <<nodeVars, ownedCache, target, lastUid>>
<1>1. pc \in Kinds /\ work \in Node /\ UNCHANGED <<nodeVars, ownedCache, target, lastUid>>
  BY ReconcileOwnedEffect DEF Typed
<1>2. work.uid # 0
  BY <1>1, NodeFields
<1>3. CASE NotWritten
  BY <1>1, <1>3 DEF NotWritten
<1>4. ASSUME NEW o, Yields(pc, o), Written(pc, o)
      PROVE  /\ \A k \in Kinds : owned'[k].owner \in {owned[k].owner, work.uid}
             /\ \A k \in Kinds : Present(owned[k]) => Present(owned'[k])
             /\ \A k \in Kinds : k # pc => owned'[k] = owned[k]
  <2>1. o.owner \in {owned[pc].owner, work.uid} /\ o \in Owned(pc)
    BY <1>1, <1>4 DEF Yields, Kinds
  <2>2. Present(o)
    BY <2>1 DEF Owned, Present
  <2>3. QED
    BY <1>4, <2>1, <2>2 DEF Written
<1>5. QED
  BY <1>1, <1>3, <1>4, ReconcileOwnedEffect DEF Typed

-----------------------------------------------------------------------------
\* OwnersInOrder.

LEMMA OwnersInit == Init => OwnersInOrder
  BY DEF Init, OwnersInOrder, Nothing

LEMMA OwnersNext ==
    ASSUME Typed, CopiesInOrder, OwnersInOrder, [Next]_vars
    PROVE  OwnersInOrder'
<1>1. lastUid \in Nat
  BY LastUidIsNat DEF Typed
<1>2. lastUid' \in {lastUid, lastUid + 1}
  BY DEF Next, Reconcile, Environment, FetchNothing, HandleDeletion, AddFinalizer, Validate,
     ReconcileOwned, WriteStatus, UserCreate, UserEdit, UserDelete, CollectOwned, SyncOwned,
     RunStatefulSet, NetworkStep, SyncNode, SyncNetwork, TimerFires, Restart, vars
<1>3. \A k \in Kinds : owned'[k].owner <= lastUid
  <2>1. CASE UNCHANGED owned
    BY <2>1 DEF OwnersInOrder
  <2>2. CASE ReconcileOwned
    <3>1. work.uid = lastUid
      <4>1. pc # "idle"
        BY <2>2 DEF ReconcileOwned
      <4>2. QED
        BY <4>1 DEF CopiesInOrder, WorkIsPast, UidsInOrder
    <3>2. QED
      BY <1>1, <2>2, <3>1, WrittenOwner DEF OwnersInOrder
  <2>3. ASSUME NEW k \in Kinds, CollectOwned(k)
        PROVE  \A j \in Kinds : owned'[j].owner <= lastUid
    <3>1. Nothing.owner <= lastUid
      BY <1>1 DEF Nothing
    <3>2. QED
      BY <2>3, <3>1, CollectEffect DEF CopiesInOrder, OwnersInOrder
  <2>4. QED
    BY <2>1, <2>2, <2>3, OwnedChange
<1>4. \A k \in Kinds : ownedCache'[k].owner <= lastUid
  BY OwnedCacheChange DEF OwnersInOrder
<1>5. \A k \in Kinds : owned'[k].owner \in Nat /\ ownedCache'[k].owner \in Nat
  <2>1. Typed'
    BY TypedNext
  <2>2. QED
    BY <2>1, OwnedFields DEF Typed, TypeOK
<1>6. QED
  BY <1>1, <1>2, <1>3, <1>4, <1>5 DEF OwnersInOrder

-----------------------------------------------------------------------------
\* How the node changes.

\* The node is created, or goes, or stays and stays the same one.
LEMMA NodeChange ==
    ASSUME Typed, [Next]_vars
    PROVE  \/ UNCHANGED node
           \/ \E s \in Specs : UserCreate(s)
           \/ node' = NoNode /\ (HandleDeletion \/ UserDelete)
           \/ node'.uid = node.uid
<1>1. TypeOK /\ WorkExists /\ FreshIsCurrent
  BY DEF Typed
<1>2. Exists(node) => node \in Node
  BY <1>1, ExistingIsNode DEF TypeOK
<1>3. HandleDeletion => UNCHANGED node \/ node' = NoNode
  BY <1>1, HandleDeletionEffect
<1>4. AddFinalizer => node'.uid = node.uid
  BY <1>1, AddFinalizerEffect, FinalizerFields
<1>5. WriteStatus => node'.uid = node.uid
  BY <1>1, WriteStatusEffect DEF SameMetadata
<1>6. ASSUME NEW s \in Specs, UserEdit(s)
      PROVE  node'.uid = node.uid
  BY <1>2, <1>6, EditFields DEF UserEdit, StoreNode
<1>7. UserDelete => node' = NoNode \/ node'.uid = node.uid
  BY <1>2, DeletionFields DEF UserDelete, StoreNode
<1>8. CASE UNCHANGED vars
  BY <1>8 DEF vars, nodeVars
<1>9. CASE Reconcile
  BY <1>3, <1>4, <1>5, <1>9 DEF Reconcile, FetchNothing, Validate, ReconcileOwned, nodeVars
<1>10. CASE Environment
  BY <1>6, <1>7, <1>10 DEF Environment, CollectOwned, SyncOwned, RunStatefulSet,
     NetworkStep, SyncNode, SyncNetwork, TimerFires, Restart, nodeVars
<1>11. QED
  BY <1>8, <1>9, <1>10 DEF Next

\* The node that is first is so from the start, when nothing is owned yet.
LEMMA FirstStays ==
    ASSUME Typed, CopiesInOrder, OwnersInOrder, [Next]_vars, node'.uid = 1
    PROVE  \/ node.uid = 1
           \/ /\ \A k \in Kinds : ~Present(owned[k]) /\ ~Present(ownedCache[k])
              /\ UNCHANGED <<owned, ownedCache>>
              /\ node'.status = EmptyStatus
<1>1. TypeOK
  BY DEF Typed
<1>2. CASE \E s \in Specs : UserCreate(s)
  <2>1. node'.uid = lastUid + 1 /\ node'.status = EmptyStatus /\ UNCHANGED <<owned, ownedCache>>
    BY <1>2 DEF UserCreate, StoreNode, ownedVars
  <2>2. lastUid \in Nat
    BY <1>1, LastUidIsNat
  <2>3. lastUid = 0
    BY <2>1, <2>2
  <2>4. ASSUME NEW k \in Kinds
        PROVE  ~Present(owned[k]) /\ ~Present(ownedCache[k])
    <3>1. owned[k].owner \in Nat /\ ownedCache[k].owner \in Nat
      BY <1>1, PresentFields
    <3>2. owned[k].owner <= 0 /\ ownedCache[k].owner <= 0
      BY <2>3 DEF OwnersInOrder
    <3>3. QED
      BY <3>1, <3>2 DEF Present
  <2>5. QED
    BY <2>1, <2>4
<1>3. node' # NoNode
  BY DEF NoNode
<1>4. QED
  BY <1>2, <1>3, NodeChange

\* While a reconcile is in progress the node stays, and stays the same one.
LEMMA NodeStays ==
    ASSUME Typed, CopiesInOrder, [Next]_vars, pc # "idle"
    PROVE  node'.uid = node.uid
<1>1. Exists(node) /\ node.finalizer /\ node \in Node
  BY ExistingIsNode DEF Typed, CopiesInOrder, WorkIsPast, TypeOK
<1>2. UserDelete => node'.uid = node.uid
  BY <1>1, DeletionFields DEF UserDelete, StoreNode
<1>3. ~HandleDeletion
  BY DEF HandleDeletion, Begin
<1>4. ASSUME NEW s \in Specs
      PROVE  ~UserCreate(s)
  BY <1>1 DEF UserCreate
<1>5. QED
  BY <1>2, <1>3, <1>4, NodeChange

-----------------------------------------------------------------------------
\* How the worker changes.

LEMMA WorkerChange ==
    ASSUME Typed, [Next]_vars
    PROVE  \/ UNCHANGED <<pc, work, target>>
           \/ pc' = "idle" /\ target' = {}
           \/ Validate
           \/ ReconcileOwned
<1>1. WriteStatus => UNCHANGED <<pc, work, target>> \/ (pc' = "idle" /\ target' = {})
  BY WriteStatusEffect DEF Typed
<1>2. CASE Reconcile
  BY <1>1, <1>2 DEF Reconcile, FetchNothing, HandleDeletion, AddFinalizer, workerVars
<1>3. CASE Environment
  BY <1>3 DEF Environment, UserCreate, UserEdit, UserDelete, CollectOwned, SyncOwned,
     RunStatefulSet, NetworkStep, SyncNode, SyncNetwork, TimerFires, Restart, workerVars
<1>4. QED
  BY <1>2, <1>3 DEF Next, vars, workerVars

\* An object that is there stays as it is in every step but that of the
\* reconcile, unless it was an earlier node's.
LEMMA OwnedKept ==
    ASSUME Typed, CopiesInOrder, OwnersInOrder, [Next]_vars, ~ReconcileOwned
    PROVE  \A k \in Kinds : \/ owned'[k] = owned[k]
                            \/ owned'[k] = Nothing /\ node.uid # 1
<1>1. ASSUME NEW k \in Kinds, CollectOwned(k)
      PROVE  \A j \in Kinds : \/ owned'[j] = owned[j]
                              \/ owned'[j] = Nothing /\ node.uid # 1
  BY <1>1, CollectEffect DEF CopiesInOrder
<1>2. QED
  BY <1>1, OwnedChange

\* The network a reconcile deploys for is one that was given to it.
LEMMA SightSpec ==
    ASSUME TypeOK, NEW n \in networkCache
    PROVE  n.spec \in NetworkSpecs
  BY DEF TypeOK, Sights

-----------------------------------------------------------------------------
\* Reporting.

LEMMA EstablishedInit == Init => Established
  BY DEF Init, Established, Reporting, Progress, FirstKeeps, MountsExist,
     ServiceSelectsPods, RunningIsEarned, RunningAtCurrentGeneration, Exists, NoNode, Kinds

LEMMA ReportingNext ==
    ASSUME Typed, Reporting, [Next]_vars
    PROVE  Reporting'
<1>1. CASE UNCHANGED <<pc, work, target>>
  BY <1>1 DEF Reporting
<1>2. CASE pc' = "idle" /\ target' = {}
  BY <1>2 DEF Reporting, Kinds
<1>3. CASE Validate
  <2>1. /\ SameMetadata(work', nodeCache)
        /\ \/ /\ pc' = "status" /\ target' = {}
              /\ work'.status.observed = nodeCache.generation
              /\ work'.status.phase \in {"Pending", "Error"}
           \/ /\ pc' = "jwt"
              /\ Deployable(nodeCache.spec)
              /\ \E n \in networkCache : n.ready /\ target' = {n.spec}
              /\ work'.status.phase = "Initializing"
    BY <1>3, ValidateEffect DEF Typed
  <2>2. pc' = "jwt" => \E n \in NetworkSpecs : target' = {n}
    BY <2>1, SightSpec DEF Typed
  <2>3. QED
    BY <2>1, <2>2 DEF Reporting, SameMetadata, Kinds
<1>4. CASE ReconcileOwned
  <2>1. pc \in Kinds /\ work \in Node /\ UNCHANGED target
        /\ \E error \in BOOLEAN : After(pc, error)
    BY <1>4, ReconcileOwnedEffect DEF Typed
  <2>2. PICK error \in BOOLEAN : After(pc, error)
    BY <2>1
  <2>3. /\ SameMetadata(work', work)
        /\ \/ pc' \in Kinds /\ work'.status.phase = work.status.phase
           \/ /\ pc' = "status" /\ work'.status.phase \in {"Running", "Error"}
              /\ work'.status.observed = work.generation
    BY <2>1, <2>2, AfterFields DEF Kinds
  <2>4. QED
    BY <2>1, <2>3 DEF Reporting, SameMetadata, Kinds
<1>5. QED
  BY <1>1, <1>2, <1>3, <1>4, WorkerChange

-----------------------------------------------------------------------------
\* FirstKeeps.

\* The Service is made when the StatefulSet is.
LEMMA ServiceStepHasStatefulSet ==
    ASSUME Reporting, Progress, pc = "service", node.uid = 1
    PROVE  \E n \in NetworkSpecs :
             /\ target = {n}
             /\ Present(owned["statefulset"])
             /\ owned["statefulset"].data = StatefulSet(work.spec, n)
  BY DEF Reporting, Progress, StatefulSetMade, Made, Kinds

LEMMA FirstKeepsNext ==
    ASSUME Typed, CopiesInOrder, OwnersInOrder, Reporting, Progress, FirstKeeps, [Next]_vars
    PROVE  FirstKeeps'
<1> SUFFICES ASSUME node'.uid = 1
             PROVE  /\ \A k \in Kinds : Present(ownedCache'[k]) => Present(owned'[k])
                    /\ Present(owned'["service"]) => Present(owned'["statefulset"])
  BY DEF FirstKeeps, Present
<1>1. CASE node.uid # 1
  BY <1>1, FirstStays DEF Kinds
<1>2. CASE node.uid = 1
  <2>1. /\ \A k \in Kinds : Present(ownedCache'[k]) => Present(owned[k])
        /\ Present(owned["service"]) => Present(owned["statefulset"])
    BY <1>2, OwnedCacheChange DEF FirstKeeps
  <2>2. CASE ~ReconcileOwned
    BY <1>2, <2>1, <2>2, OwnedKept DEF Kinds
  <2>3. CASE ReconcileOwned
    <3>1. /\ \A k \in Kinds : Present(owned[k]) => Present(owned'[k])
          /\ \A k \in Kinds : k # pc => owned'[k] = owned[k]
      BY <2>3, WrittenOwner
    <3>2. pc = "service" => Present(owned["statefulset"])
      BY <1>2, ServiceStepHasStatefulSet
    <3>3. QED
      BY <2>1, <3>1, <3>2 DEF Kinds
  <2>4. QED
    BY <2>2, <2>3
<1>3. QED
  BY <1>1, <1>2

-----------------------------------------------------------------------------
\* Progress.

\* What was made stays made while the reconcile goes on.
LEMMA ProgressKept ==
    ASSUME Typed, CopiesInOrder, OwnersInOrder, Progress, [Next]_vars, ~ReconcileOwned,
           UNCHANGED <<pc, work, target>>, pc # "idle"
    PROVE  Progress'
<1>1. node'.uid = node.uid
  BY NodeStays
<1>2. \A k \in Kinds : \/ owned'[k] = owned[k]
                       \/ ~Present(owned'[k]) /\ node'.uid # 1
  BY <1>1, OwnedKept, OwnedFields DEF Present
<1>3. /\ Made("jwt", TRUE) => Made("jwt", TRUE)'
      /\ Made("p2p", TRUE) => Made("p2p", TRUE)'
      /\ StatefulSetMade => StatefulSetMade'
      /\ ServiceMade => ServiceMade'
  BY <1>1, <1>2 DEF Made, StatefulSetMade, ServiceMade, Kinds
<1>4. \A types : Conditions(types) => Conditions(types)'
  BY DEF Conditions
<1>5. QED
  BY <1>3, <1>4 DEF Progress

LEMMA ProgressValidate ==
    ASSUME Typed, Validate
    PROVE  Progress'
<1>1. \/ pc' = "status" /\ work'.status.phase \in {"Pending", "Error"}
      \/ /\ pc' = "jwt"
         /\ \A c \in {"ConfigurationValid", "NetworkReference", "NetworkReady"} :
              work'.status.conditions[c] = "True"
  BY ValidateEffect DEF Typed
<1>2. QED
  BY <1>1 DEF Progress, Conditions, Kinds

\* The step of a secret has made it.
LEMMA SecretIsMade ==
    ASSUME Typed, FirstKeeps, ReconcileOwned, NEW k \in {"jwt", "p2p"}, pc = k,
           pc' # "status"
    PROVE  Made(k, TRUE)'
<1>1. UNCHANGED nodeVars /\ k \in Kinds
  BY ReconcileOwnedEffect DEF Typed
<1>2. ASSUME NEW o, Yields(k, o), Written(k, o)
      PROVE  Made(k, TRUE)'
  BY <1>1, <1>2 DEF Yields, Written, Owned, Present, Made
<1>3. CASE NotWritten /\ Present(ownedCache[k])
  BY <1>1, <1>3 DEF NotWritten, FirstKeeps, Made, nodeVars
<1>4. ~After(k, TRUE)
  BY DEF After
<1>5. QED
  BY <1>2, <1>3, <1>4, ReconcileOwnedEffect DEF Typed

\* The step of the StatefulSet or of the Service has made it as it should be.
LEMMA WorkloadIsMade ==
    ASSUME Typed, ReconcileOwned, pc \in {"statefulset", "service"},
           pc' # "status" \/ work'.status.phase = "Running"
    PROVE  \E o : Yields(pc, o) /\ Written(pc, o)
<1>1. ~After(pc, TRUE)
  <2> SUFFICES ASSUME After(pc, TRUE)
               PROVE  FALSE
    OBVIOUS
  <2>1. work \in Node /\ pc \in Kinds
    BY ReconcileOwnedEffect DEF Typed
  <2>2. pc' = "status" /\ work'.status.phase = "Error"
    BY <2>1, AfterFields
  <2>3. QED
    BY <2>2
<1>2. QED
  BY <1>1, ReconcileOwnedEffect DEF Typed

LEMMA ProgressReconcile ==
    ASSUME Typed, CopiesInOrder, Reporting, Progress, FirstKeeps, ReconcileOwned
    PROVE  Progress'
<1>1. /\ pc \in Kinds /\ work \in Node /\ UNCHANGED <<node, target>>
      /\ \E error \in BOOLEAN : After(pc, error)
  BY ReconcileOwnedEffect DEF Typed, nodeVars
<1>2. PICK error \in BOOLEAN : After(pc, error)
  BY <1>1
<1>3. SameMetadata(work', work)
  BY <1>1, <1>2, AfterFields
<1>4. work.status.conditions \in [ConditionTypes -> {"Unset", "True", "False"}]
  BY <1>1, NodeFields
<1>5. \A k \in Kinds \ {pc} : Made(k, TRUE) => Made(k, TRUE)'
  BY <1>1, WrittenOwner DEF Made
<1>6. CASE pc = "jwt" /\ pc' = "p2p" /\ work' = work
  <2>1. Made("jwt", TRUE)'
    BY <1>6, SecretIsMade
  <2>2. QED
    BY <1>6, <2>1 DEF Progress, Conditions, Kinds
<1>7. CASE /\ pc = "p2p" \/ (pc = "jwt" /\ work.spec.p2pKey # "generate")
           /\ pc' = "statefulset"
           /\ work'.status.conditions =
                [work.status.conditions EXCEPT !["SecretsReady"] = "True"]
  <2>1. Made("jwt", TRUE)'
    BY <1>5, <1>7, SecretIsMade DEF Progress, Kinds
  <2>2. work'.spec.p2pKey = "generate" => Made("p2p", TRUE)'
    BY <1>3, <1>7, SecretIsMade DEF SameMetadata
  <2>3. \A c \in {"ConfigurationValid", "NetworkReference", "NetworkReady", "SecretsReady"} :
          work'.status.conditions[c] = "True"
    BY <1>1, <1>4, <1>7 DEF Progress, Conditions, ConditionTypes
  <2>4. QED
    BY <1>7, <2>1, <2>2, <2>3 DEF Progress, Conditions, Kinds
<1>8. CASE /\ pc = "statefulset" /\ pc' = "service"
           /\ work'.status.conditions =
                [work.status.conditions EXCEPT !["StatefulSetReady"] = "True"]
  <2>1. Made("jwt", TRUE)' /\ (work'.spec.p2pKey = "generate" => Made("p2p", TRUE)')
    BY <1>3, <1>5, <1>8 DEF Progress, Kinds, SameMetadata
  <2>2. PICK o : Yields("statefulset", o) /\ Written("statefulset", o)
    BY <1>8, WorkloadIsMade
  <2>3. StatefulSetMade'
    <3>1. PICK n \in NetworkSpecs : target = {n}
      BY <1>8 DEF Reporting, Kinds
    <3>2. Present(o) /\ o.data = StatefulSet(work.spec, n) /\ owned'["statefulset"] = o
      BY <2>2, <3>1 DEF Yields, Written, Owned, Present
    <3>3. work'.spec = work.spec
      BY <1>3 DEF SameMetadata
    <3>4. QED
      BY <1>1, <3>1, <3>2, <3>3 DEF StatefulSetMade, Made, Present
  <2>4. \A c \in {"ConfigurationValid", "NetworkReference", "NetworkReady", "SecretsReady",
                  "StatefulSetReady"} :
          work'.status.conditions[c] = "True"
    BY <1>4, <1>8 DEF Progress, Conditions, ConditionTypes, Kinds
  <2>5. QED
    BY <1>8, <2>1, <2>3, <2>4 DEF Progress, Conditions, Kinds
<1>9. CASE /\ pc = "service" /\ pc' = "status"
           /\ work'.status.phase = "Running"
           /\ work'.status.conditions =
                [work.status.conditions EXCEPT !["ServiceReady"] = "True"]
  <2>1. Made("jwt", TRUE)' /\ work'.spec = work.spec
    BY <1>3, <1>5, <1>9 DEF Progress, Kinds, SameMetadata
  <2>2. PICK o : Yields("service", o) /\ Written("service", o)
    BY <1>9, WorkloadIsMade
  <2>3. StatefulSetMade'
    <3>1. StatefulSetMade /\ owned'["statefulset"] = owned["statefulset"]
      BY <1>9, <2>2 DEF Progress, Written, Kinds
    <3>2. QED
      BY <1>1, <2>1, <3>1 DEF StatefulSetMade, Made
  <2>4. ServiceMade'
    <3>1. Present(o) /\ o.data.ports = Ports(work.spec) /\ owned'["service"] = o
      BY <2>2 DEF Yields, Written, Owned, Present
    <3>2. QED
      BY <2>1, <3>1 DEF ServiceMade, Made, Present
  <2>5. \A c \in ConditionTypes : work'.status.conditions[c] = "True"
    BY <1>4, <1>9 DEF Progress, Conditions, ConditionTypes, Kinds
  <2>6. QED
    BY <1>9, <2>1, <2>3, <2>4, <2>5 DEF Progress, Conditions, Kinds
<1>10. CASE pc' = "status" /\ work'.status.phase = "Error"
  BY <1>10 DEF Progress, Kinds
<1>11. QED
  BY <1>1, <1>2, <1>6, <1>7, <1>8, <1>9, <1>10, AfterFields

LEMMA ProgressNext ==
    ASSUME Typed, CopiesInOrder, OwnersInOrder, Reporting, Progress, FirstKeeps, [Next]_vars
    PROVE  Progress'
<1>1. CASE pc' = "idle"
  BY <1>1 DEF Progress, Kinds
<1>2. CASE UNCHANGED <<pc, work, target>> /\ pc # "idle" /\ ~ReconcileOwned
  BY <1>2, ProgressKept
<1>3. QED
  BY <1>1, <1>2, ProgressValidate, ProgressReconcile, WorkerChange

-----------------------------------------------------------------------------
\* MountsExist, ServiceSelectsPods and RunningIsEarned.

\* The step that changes an object of a first node is its own.
LEMMA FirstObjects ==
    ASSUME Typed, CopiesInOrder, OwnersInOrder, [Next]_vars, node'.uid = 1
    PROVE  \/ UNCHANGED owned
           \/ node.uid # 1 /\ \A k \in Kinds : ~Present(owned'[k])
           \/ /\ node.uid = 1 /\ ReconcileOwned /\ UNCHANGED node
              /\ \E o : Yields(pc, o) /\ Written(pc, o)
<1>1. CASE node.uid # 1
  BY <1>1, FirstStays
<1>2. CASE node.uid = 1
  <2>1. ASSUME NEW k \in Kinds
        PROVE  ~CollectOwned(k)
    BY <1>2, CollectEffect DEF CopiesInOrder
  <2>2. CASE ReconcileOwned
    BY <1>2, <2>2, ReconcileOwnedEffect DEF Typed, NotWritten, nodeVars
  <2>3. QED
    BY <2>1, <2>2, OwnedChange
<1>3. QED
  BY <1>1, <1>2

LEMMA StatefulSetParts ==
    ASSUME NEW s, NEW n
    PROVE  /\ StatefulSet(s, n).labels = Labels(s, n)
           /\ StatefulSet(s, n).template.mounts = {"jwt"} \cup {k \in {"p2p"} : s.p2pKey = "generate"}
  BY DEF StatefulSet, Template, Mounts

LEMMA MountsNext ==
    ASSUME Typed, CopiesInOrder, OwnersInOrder, Reporting, Progress, MountsExist, [Next]_vars
    PROVE  MountsExist'
<1> SUFFICES ASSUME node'.uid = 1, Present(owned'["statefulset"]),
                    NEW k \in owned'["statefulset"].data.template.mounts
             PROVE  Present(owned'[k])
  BY DEF MountsExist, Present
<1>1. CASE UNCHANGED owned
  <2>1. node.uid = 1
    BY <1>1, FirstStays DEF Kinds
  <2>2. QED
    BY <1>1, <2>1 DEF MountsExist, Exists
<1>2. ASSUME node.uid = 1, ReconcileOwned, NEW o, Yields(pc, o), Written(pc, o)
      PROVE  Present(owned'[k])
  <2>1. \A j \in Kinds : Present(owned[j]) => Present(owned'[j])
    BY <1>2, WrittenOwner
  <2>2. CASE pc # "statefulset"
    <3>1. owned'["statefulset"] = owned["statefulset"]
      BY <1>2, <2>2 DEF Written, Kinds
    <3>2. Present(owned[k])
      BY <1>2, <3>1 DEF MountsExist, Exists
    <3>3. k \in Kinds
      <4>1. owned["statefulset"] \in Owned("statefulset")
        BY <3>1, PresentFields DEF Typed, Kinds
      <4>2. owned["statefulset"].data \in StatefulSets
        BY <4>1 DEF Owned
      <4>3. QED
        BY <3>1, <4>2, StatefulSetParts DEF StatefulSets, Kinds
    <3>4. QED
      BY <2>1, <3>2, <3>3
  <2>3. CASE pc = "statefulset"
    <3>1. PICK n \in target : owned'["statefulset"].data = StatefulSet(work.spec, n)
      BY <1>2, <2>3 DEF Yields, Written
    <3>2. k = "jwt" \/ (k = "p2p" /\ work.spec.p2pKey = "generate")
      BY <3>1, StatefulSetParts
    <3>3. Present(owned[k])
      BY <1>2, <2>3, <3>2 DEF Progress, Made
    <3>4. QED
      BY <2>1, <3>2, <3>3 DEF Kinds
  <2>4. QED
    BY <2>2, <2>3
<1>3. QED
  BY <1>1, <1>2, FirstObjects DEF Kinds

LEMMA ServiceSelectsNext ==
    ASSUME Typed, CopiesInOrder, OwnersInOrder, Reporting, Progress, FirstKeeps,
           ServiceSelectsPods, [Next]_vars
    PROVE  ServiceSelectsPods'
<1> SUFFICES ASSUME node'.uid = 1, Present(owned'["statefulset"]), Present(owned'["service"])
             PROVE  owned'["service"].data.selector = owned'["statefulset"].data.labels
  BY DEF ServiceSelectsPods, Present
<1>1. CASE UNCHANGED owned
  <2>1. node.uid = 1
    BY <1>1, FirstStays DEF Kinds
  <2>2. QED
    BY <1>1, <2>1 DEF ServiceSelectsPods
<1>2. ASSUME node.uid = 1, ReconcileOwned, NEW o, Yields(pc, o), Written(pc, o)
      PROVE  owned'["service"].data.selector = owned'["statefulset"].data.labels
  <2>1. pc \in Kinds /\ \A k \in Kinds : k # pc => owned'[k] = owned[k]
    BY <1>2, WrittenOwner DEF ReconcileOwned, Kinds
  <2>2. CASE pc \in {"jwt", "p2p"}
    BY <1>2, <2>1, <2>2 DEF ServiceSelectsPods, Kinds
  <2>3. CASE pc = "statefulset"
    <3>1. owned'["service"] = owned["service"] /\ owned'["statefulset"] = o
      BY <1>2, <2>1, <2>3 DEF Kinds, Written
    <3>2. Present(owned["statefulset"])
      BY <1>2, <3>1 DEF FirstKeeps
    <3>3. o.data.labels = owned["statefulset"].data.labels
      BY <1>2, <2>3, <3>2 DEF Yields, SameImmutable
    <3>4. QED
      BY <1>2, <3>1, <3>2, <3>3 DEF ServiceSelectsPods
  <2>4. CASE pc = "service"
    <3>1. owned'["statefulset"] = owned["statefulset"] /\ owned'["service"] = o
      BY <1>2, <2>1, <2>4 DEF Kinds, Written
    <3>2. PICK n \in NetworkSpecs : target = {n} /\ owned["statefulset"].data = StatefulSet(work.spec, n)
      BY <1>2, <2>4, ServiceStepHasStatefulSet
    <3>3. CASE Present(owned["service"])
      <4>1. o.data.selector = owned["service"].data.selector
        BY <1>2, <2>4, <3>3 DEF Yields
      <4>2. QED
        BY <1>2, <3>1, <3>3, <4>1 DEF ServiceSelectsPods
    <3>4. CASE ~Present(owned["service"])
      <4>1. o.data.selector = Labels(work.spec, n)
        BY <1>2, <2>4, <3>2, <3>4 DEF Yields
      <4>2. QED
        BY <3>1, <3>2, <4>1, StatefulSetParts
    <3>5. QED
      BY <3>3, <3>4
  <2>5. QED
    BY <2>1, <2>2, <2>3, <2>4 DEF Kinds
<1>3. QED
  BY <1>1, <1>2, FirstObjects DEF Kinds

\* A report written for a generation that is still current is about the current
\* specification.
LEMMA CurrentWork ==
    ASSUME Typed, CopiesInOrder, pc # "idle", work.generation = node.generation
    PROVE  work.spec = node.spec
<1>1. /\ Exists(node) /\ nodeCache.uid = node.uid
      /\ work.generation <= nodeCache.generation
      /\ work.generation = nodeCache.generation => work.spec = nodeCache.spec
  BY DEF CopiesInOrder, WorkIsPast
<1>2. Precedes(nodeCache, node)
  BY <1>1 DEF CopiesInOrder, CacheIsPast
<1>3. nodeCache.generation \in Nat /\ node.generation \in Nat
  BY <1>1, ExistingIsNode, NodeFields DEF Typed, TypeOK, Exists
<1>4. QED
  BY <1>1, <1>2, <1>3 DEF Precedes

\* A node is Running at its current generation because it was, or because a
\* report about its current specification says so.
LEMMA RunningNode ==
    ASSUME Typed, CopiesInOrder, Reporting, [Next]_vars, RunningAtCurrentGeneration'
    PROVE  \/ UNCHANGED node
           \/ /\ WriteStatus /\ pc = "status" /\ SameMetadata(node', node)
              /\ node'.status = work.status
              /\ work.status.phase = "Running" /\ work.spec = node.spec
<1> SUFFICES ASSUME ~UNCHANGED node
             PROVE  /\ WriteStatus /\ pc = "status" /\ SameMetadata(node', node)
                    /\ node'.status = work.status
                    /\ work.status.phase = "Running" /\ work.spec = node.spec
  OBVIOUS
<1>1. /\ Exists(node') /\ node'.status.phase = "Running"
      /\ node'.status.observed = node'.generation
  BY DEF RunningAtCurrentGeneration, Exists
<1>2. TypeOK /\ WorkExists /\ FreshIsCurrent
  BY DEF Typed
<1>3. Exists(node) => /\ node \in Node /\ node.generation \in Nat
                      /\ node.status.observed \in Nat
                      /\ node.status.observed <= node.generation
  BY <1>2, ExistingIsNode, NodeFields, ObservedIsPast DEF TypeOK
<1>4. ~HandleDeletion
  <2>1. HandleDeletion => node' = NoNode
    BY <1>2, HandleDeletionEffect
  <2>2. QED
    BY <1>1, <2>1 DEF NoNode, Exists
<1>5. ~AddFinalizer
  <2> SUFFICES ASSUME AddFinalizer
               PROVE  FALSE
    OBVIOUS
  <2>1. node \in Node /\ nodeCache = node /\ node' = [node EXCEPT !.finalizer = TRUE]
    BY <1>2, AddFinalizerEffect
  <2>2. ~node.finalizer /\ node'.status = node.status /\ Exists(node)
    BY <2>1, FinalizerFields, NodeExists DEF AddFinalizer
  <2>3. QED
    BY <1>1, <2>2 DEF CopiesInOrder, ReportedIsFinalized
<1>6. ASSUME NEW s \in Specs
      PROVE  ~UserCreate(s)
  BY <1>1, EmptyStatusType DEF UserCreate, StoreNode
<1>7. ASSUME NEW s \in Specs, UserEdit(s)
      PROVE  FALSE
  <2>1. node' = [node EXCEPT !.spec = s, !.generation = @ + 1] /\ Exists(node)
    BY <1>7 DEF UserEdit, StoreNode
  <2>2. node'.generation = node.generation + 1 /\ node'.status = node.status
    BY <1>3, <2>1, EditFields
  <2>3. QED
    BY <1>1, <1>3, <2>1, <2>2
<1>8. ~UserDelete
  <2> SUFFICES ASSUME UserDelete
               PROVE  FALSE
    OBVIOUS
  <2>1. node' = [node EXCEPT !.deleting = TRUE, !.generation = @ + 1] /\ Exists(node)
    BY <1>1 DEF UserDelete, StoreNode, NoNode, Exists
  <2>2. node'.generation = node.generation + 1 /\ node'.status = node.status
    BY <1>3, <2>1, DeletionFields
  <2>3. QED
    BY <1>1, <1>3, <2>1, <2>2
<1>9. WriteStatus
  BY <1>4, <1>5, <1>6, <1>7, <1>8 DEF Next, Reconcile, Environment, FetchNothing,
     Validate, ReconcileOwned, CollectOwned, SyncOwned, RunStatefulSet, NetworkStep,
     SyncNode, SyncNetwork, TimerFires, Restart, vars, nodeVars
<1>10. /\ pc = "status" /\ SameMetadata(node', node) /\ node'.status = work.status
  BY <1>2, <1>9, WriteStatusEffect
<1>11. work.generation = node.generation /\ work.status.phase = "Running"
  BY <1>1, <1>10 DEF Reporting, SameMetadata
<1>12. QED
  BY <1>9, <1>10, <1>11, CurrentWork

LEMMA EarnedNext ==
    ASSUME Typed, CopiesInOrder, OwnersInOrder, Reporting, Progress, FirstKeeps,
           RunningIsEarned, [Next]_vars
    PROVE  RunningIsEarned'
<1> SUFFICES ASSUME RunningAtCurrentGeneration', node'.uid = 1
             PROVE  /\ ValidNode(node'.spec)
                    /\ \A c \in ConditionTypes : node'.status.conditions[c] = "True"
                    /\ \A k \in {"jwt", "statefulset", "service"} : Present(owned'[k])
                    /\ \E n \in NetworkSpecs :
                         /\ owned'["statefulset"].data = StatefulSet(node'.spec, n)
                         /\ owned'["service"].data.ports = Ports(node'.spec)
  BY DEF RunningIsEarned, MadeFor, Present
<1>1. CASE UNCHANGED node
  <2>1. /\ ValidNode(node.spec)
        /\ \A c \in ConditionTypes : node.status.conditions[c] = "True"
        /\ \A k \in {"jwt", "statefulset", "service"} : Present(owned[k])
        /\ \E n \in NetworkSpecs :
             /\ owned["statefulset"].data = StatefulSet(node.spec, n)
             /\ owned["service"].data.ports = Ports(node.spec)
    BY <1>1 DEF RunningIsEarned, RunningAtCurrentGeneration, MadeFor
  <2>2. CASE UNCHANGED owned
    BY <1>1, <2>1, <2>2
  <2>3. ASSUME ReconcileOwned, NEW o, Yields(pc, o), Written(pc, o)
        PROVE  /\ \A k \in {"jwt", "statefulset", "service"} : Present(owned'[k])
               /\ \E n \in NetworkSpecs :
                    /\ owned'["statefulset"].data = StatefulSet(node.spec, n)
                    /\ owned'["service"].data.ports = Ports(node.spec)
    <3>1. /\ pc \in Kinds /\ \A k \in Kinds : Present(owned[k]) => Present(owned'[k])
          /\ \A k \in Kinds : k # pc => owned'[k] = owned[k]
      BY <2>3, WrittenOwner DEF ReconcileOwned, Kinds
    <3>2. work.spec = node.spec
      <4>1. /\ Exists(node) /\ nodeCache.uid = node.uid /\ Exists(work)
            /\ node.status.observed <= work.generation
            /\ work.generation <= nodeCache.generation
        BY <3>1 DEF CopiesInOrder, WorkIsPast, Kinds, Exists
      <4>2. Precedes(nodeCache, node)
        BY <4>1 DEF CopiesInOrder, CacheIsPast
      <4>3. nodeCache.generation \in Nat /\ node.generation \in Nat /\ work.generation \in Nat
        BY <4>1, ExistingIsNode, NodeFields DEF Typed, TypeOK, Exists
      <4>4. node.status.observed = node.generation
        BY <1>1 DEF RunningAtCurrentGeneration
      <4>5. work.generation = node.generation
        BY <4>1, <4>2, <4>3, <4>4 DEF Precedes
      <4>6. QED
        BY <3>1, <4>5, CurrentWork DEF Kinds
    <3>3. target \subseteq NetworkSpecs
      BY DEF Typed, TypeOK
    <3>4. CASE pc \in {"jwt", "p2p"}
      BY <2>1, <3>1, <3>4 DEF Kinds
    <3>5. CASE pc = "statefulset"
      <4>1. owned'["service"] = owned["service"] /\ owned'["statefulset"] = o
        BY <2>3, <3>1, <3>5 DEF Kinds, Written
      <4>2. \E n \in NetworkSpecs : o.data = StatefulSet(node.spec, n)
        BY <2>3, <3>2, <3>3, <3>5 DEF Yields
      <4>3. QED
        BY <2>1, <3>1, <4>1, <4>2 DEF Kinds
    <3>6. CASE pc = "service"
      <4>1. owned'["statefulset"] = owned["statefulset"] /\ owned'["service"] = o
        BY <2>3, <3>1, <3>6 DEF Kinds, Written
      <4>2. o.data.ports = Ports(node.spec)
        BY <2>3, <3>2, <3>6 DEF Yields
      <4>3. QED
        BY <2>1, <3>1, <4>1, <4>2 DEF Kinds
    <3>7. QED
      BY <3>1, <3>4, <3>5, <3>6 DEF Kinds
  <2>4. QED
    BY <1>1, <2>1, <2>2, <2>3, FirstObjects DEF Kinds
<1>2. CASE /\ WriteStatus /\ pc = "status" /\ SameMetadata(node', node)
           /\ node'.status = work.status
           /\ work.status.phase = "Running" /\ work.spec = node.spec
  <2>1. UNCHANGED owned /\ node.uid = 1 /\ node'.spec = node.spec
    BY <1>2 DEF WriteStatus, ownedVars, SameMetadata
  <2>2. /\ Deployable(node.spec) /\ target # {} /\ target \subseteq NetworkSpecs
        /\ \A c \in ConditionTypes : work.status.conditions[c] = "True"
        /\ Present(owned["jwt"])
        /\ \A n \in target : /\ Present(owned["statefulset"])
                             /\ owned["statefulset"].data = StatefulSet(node.spec, n)
        /\ Present(owned["service"]) /\ owned["service"].data.ports = Ports(node.spec)
    BY <1>2, <2>1 DEF Reporting, Progress, Conditions, StatefulSetMade, ServiceMade, Made,
       Typed, TypeOK
  <2>3. ValidNode(node.spec)
    BY <2>2 DEF Deployable
  <2>4. QED
    BY <1>2, <2>1, <2>2, <2>3
<1>3. QED
  BY <1>1, <1>2, RunningNode

-----------------------------------------------------------------------------
\* The invariant, and what follows from it.

LEMMA InvInit == Init => Inv
  BY TypedInit, OwnersInit, CopiesInit, EstablishedInit DEF Typed, Inv

LEMMA InvNext ==
    ASSUME Inv, [Next]_vars
    PROVE  Inv'
<1>1. /\ Typed /\ OwnersInOrder /\ CopiesInOrder
      /\ Reporting /\ Progress /\ FirstKeeps /\ MountsExist
      /\ ServiceSelectsPods /\ RunningIsEarned
  BY DEF Inv, Typed, Established
<1>2. Typed' /\ OwnersInOrder' /\ CopiesInOrder'
  BY <1>1, TypedNext, OwnersNext, CopiesNext
<1>3. Reporting' /\ Progress' /\ FirstKeeps'
  BY <1>1, ReportingNext, ProgressNext, FirstKeepsNext
<1>4. MountsExist' /\ ServiceSelectsPods' /\ RunningIsEarned'
  BY <1>1, MountsNext, ServiceSelectsNext, EarnedNext
<1>5. QED
  BY <1>2, <1>3, <1>4 DEF Inv, Typed, Established

\* Every part of Inv holds in every state.
THEOREM Invariance == Spec => []Inv
  BY InvInit, InvNext, PTL DEF Spec

\* The StatefulSet of a first node mounts no secret that is not there, in
\* whatever order its objects were written, lost, read late or collected.
THEOREM MountsAreThere == Spec => []MountsExist
<1>1. Inv => MountsExist
  BY DEF Inv, Established
<1>2. QED
  BY <1>1, Invariance, PTL

\* The selector of the Service of a first node agrees with the labels of its
\* pods, although neither can be changed and each is made in its own call.
THEOREM SelectorsAgree == Spec => []ServiceSelectsPods
<1>1. Inv => ServiceSelectsPods
  BY DEF Inv, Established
<1>2. QED
  BY <1>1, Invariance, PTL

\* A first node that is Running at its current generation has the workload its
\* specification asks for, whatever its reconciles were interrupted by.
THEOREM RunningEarned == Spec => []RunningIsEarned
<1>1. Inv => RunningIsEarned
  BY DEF Inv, Established
<1>2. QED
  BY <1>1, Invariance, PTL

-----------------------------------------------------------------------------
\* What the builders agree on.

LEMMA ListenersAre ==
    Listeners = {"gethHttp", "gethWs", "gethP2p", "authrpc", "nodeRpc", "nodeP2p"}
  BY DEF Listeners, DefaultPort

\* The engine API, if it is configured, is where the op-node looks for it.
LEMMA EnginePort ==
    ASSUME NEW s \in Specs, NEW n, StatefulSet(s, n).template.geth.authrpc # {}
    PROVE  /\ StatefulSet(s, n).template.node.l2 \in StatefulSet(s, n).template.geth.authrpc
           /\ StatefulSet(s, n).template.geth.jwt
<1>1. /\ StatefulSet(s, n).template.geth.authrpc = Served(s, "authrpc")
      /\ StatefulSet(s, n).template.geth.jwt = s.listeners["authrpc"].on
      /\ StatefulSet(s, n).template.node.l2 = AuthRPCPort(s)
  BY DEF StatefulSet, Template, GethArgs, NodeArgs
<1>2. s.listeners["authrpc"].on
  BY <1>1 DEF Served
<1>3. Served(s, "authrpc") = {PortOf(s, "authrpc")} /\ AuthRPCPort(s) = PortOf(s, "authrpc")
  BY <1>2 DEF Served, AuthRPCPort
<1>4. QED
  BY <1>1, <1>2, <1>3

\* The two containers of a pod, configured apart, find each other.
THEOREM EngineFound == Spec => []EngineIsReached
<1>1. TypeOK => EngineIsReached
  <2> SUFFICES ASSUME TypeOK, Present(owned["statefulset"]),
                      owned["statefulset"].data.template.geth.authrpc # {}
               PROVE  LET t == owned["statefulset"].data.template IN
                      t.node.l2 \in t.geth.authrpc /\ t.geth.jwt
    BY DEF EngineIsReached
  <2>1. owned["statefulset"].data \in StatefulSets
    BY PresentFields DEF Owned, Kinds
  <2>2. QED
    BY <2>1, EnginePort DEF StatefulSets
<1>2. QED
  BY <1>1, TypeCorrect, PTL

\* The ports a Service without ports of its own sends its clients to, but for
\* those of no container argument, are those its pods listen on.
LEMMA PortsReachListeners ==
    ASSUME NEW s, NEW n, s.ports = {}
    PROVE  {p.target : p \in {q \in Ports(s) : q.name \notin {"gethP2p", "metrics"}}}
             = Listens(StatefulSet(s, n).template)
<1> DEFINE reached == {"gethHttp", "gethWs", "nodeRpc", "nodeP2p"}
<1>1. Listens(StatefulSet(s, n).template)
        = UNION {Served(s, l) : l \in reached}
  <2>1. /\ StatefulSet(s, n).template.geth.http = Served(s, "gethHttp")
        /\ StatefulSet(s, n).template.geth.ws = Served(s, "gethWs")
        /\ StatefulSet(s, n).template.node.rpc = Served(s, "nodeRpc")
        /\ StatefulSet(s, n).template.node.p2p = Served(s, "nodeP2p")
    BY DEF StatefulSet, Template, GethArgs, NodeArgs
  <2>2. UNION {Served(s, l) : l \in reached}
          = Served(s, "gethHttp") \cup Served(s, "gethWs")
              \cup Served(s, "nodeRpc") \cup Served(s, "nodeP2p")
    OBVIOUS
  <2>3. QED
    BY <2>1, <2>2 DEF Listens
<1> DEFINE Entry(l) == [name |-> l, port |-> PortOf(s, l), target |-> PortOf(s, l)]
<1>2. Ports(s) = {Entry(l) : l \in {e \in ExposedListeners : s.listeners[e].on}} \cup {MetricsPort}
  BY DEF Ports, DefaultServicePorts
<1>3. MetricsPort.name = "metrics"
  BY DEF MetricsPort
<1>4. \A l \in ExposedListeners : l \notin {"gethP2p", "metrics"} <=> l \in reached
  BY ListenersAre DEF ExposedListeners
<1>5. reached \subseteq ExposedListeners
  BY ListenersAre DEF ExposedListeners
<1>6. {q \in Ports(s) : q.name \notin {"gethP2p", "metrics"}}
        = {Entry(l) : l \in {e \in reached : s.listeners[e].on}}
  BY <1>2, <1>3, <1>4, <1>5
<1>7. \A l : Served(s, l) = IF s.listeners[l].on THEN {PortOf(s, l)} ELSE {}
  BY DEF Served
<1>8. {p.target : p \in {Entry(l) : l \in {e \in reached : s.listeners[e].on}}}
        = UNION {Served(s, l) : l \in reached}
  <2> DEFINE on == {e \in reached : s.listeners[e].on}
  <2>1. {p.target : p \in {Entry(l) : l \in on}} = {PortOf(s, l) : l \in on}
    <3>1. \A l : Entry(l).target = PortOf(s, l)
      OBVIOUS
    <3> HIDE DEF Entry, on
    <3>2. QED
      BY <3>1
  <2>2. {PortOf(s, l) : l \in on} = UNION {Served(s, l) : l \in reached}
    <3> HIDE DEF reached
    <3>1. QED
      BY <1>7
  <2>3. QED
    BY <2>1, <2>2
<1>9. QED
  BY <1>1, <1>6, <1>8

\* A first node that is Running and left the ports of its Service to the
\* operator is reached exactly where it listens.
THEOREM PodsAreReached == Spec => []ServiceReachesPods
<1>1. RunningIsEarned => ServiceReachesPods
  <2> SUFFICES ASSUME RunningIsEarned, RunningAtCurrentGeneration, node.uid = 1,
                      node.spec.ports = {}
               PROVE  {p.target : p \in {q \in owned["service"].data.ports :
                                            q.name \notin {"gethP2p", "metrics"}}}
                        = Listens(owned["statefulset"].data.template)
    BY DEF ServiceReachesPods
  <2>1. PICK n \in NetworkSpecs :
          /\ owned["statefulset"].data = StatefulSet(node.spec, n)
          /\ owned["service"].data.ports = Ports(node.spec)
    BY DEF RunningIsEarned, MadeFor
  <2>2. QED
    BY <2>1, PortsReachListeners
<1>2. QED
  BY <1>1, RunningEarned, PTL

-----------------------------------------------------------------------------
\* A secret that is the node's own is never replaced.
THEOREM SecretsStable == Spec => SecretsAreStable
<1>1. ASSUME Typed, [Next]_vars, NEW k \in {"jwt", "p2p"},
             Exists(node), node'.uid = node.uid, owned[k].owner = node.uid
      PROVE  owned'[k] = owned[k]
  <2>1. k \in Kinds /\ Present(owned[k])
    BY <1>1 DEF Exists, Present, Kinds
  <2>2. ASSUME ReconcileOwned, NEW o, Yields(pc, o), Written(pc, o)
        PROVE  owned'[k] = owned[k]
    BY <2>1, <2>2 DEF Yields, Written
  <2>3. ASSUME NEW j \in Kinds, CollectOwned(j)
        PROVE  owned'[k] = owned[k]
    BY <1>1, <2>1, <2>3 DEF CollectOwned, Typed, TypeOK
  <2>4. QED
    BY <1>1, <2>2, <2>3, OwnedChange, ReconcileOwnedEffect DEF Typed, NotWritten
<1>2. Typed /\ [Next]_vars =>
        [\A k \in {"jwt", "p2p"} :
           Exists(node) /\ node'.uid = node.uid /\ owned[k].owner = node.uid
             => owned'[k] = owned[k]]_vars
  BY <1>1
<1>3. QED
  BY <1>2, CopiesInvariance, PTL DEF Spec, SecretsAreStable

-----------------------------------------------------------------------------
\* What a client sees of a node, and how that changes when the node does.

Phases == {"Unset", "Pending", "Initializing", "Running", "Error"}
View == [uid: Nat, generation: Nat, spec: Specs, deleting: BOOLEAN, phase: Phases, observed: Nat]

LEMMA ViewFields ==
    ASSUME NEW o \in Node
    PROVE  LET v == ClientView(o) IN
           /\ v \in View
           /\ v.uid = o.uid /\ v.generation = o.generation /\ v.spec = o.spec
           /\ v.deleting = o.deleting
           /\ v.phase = o.status.phase /\ v.observed = o.status.observed
<1>1. ClientView(o) =
        [uid |-> o.uid, generation |-> o.generation, spec |-> o.spec,
         deleting |-> o.deleting, phase |-> o.status.phase,
         observed |-> o.status.observed]
  BY NodeExists DEF ClientView
<1>2. QED
  BY <1>1, NodeFields DEF View, Phases

LEMMA ViewUid ==
    ASSUME NEW o \in Node \cup {NoNode}
    PROVE  ClientView(o).uid = o.uid
  BY ViewFields DEF ClientView, NoNode, Exists

LEMMA ViewOfNothing == ClientView(NoNode) = Lifecycle!Nothing
  BY DEF ClientView, Exists, NoNode, Lifecycle!Nothing

LEMMA ViewEdited ==
    ASSUME NEW o \in Node, NEW p \in Node, NEW s \in Specs,
           p.uid = o.uid, p.generation = o.generation + 1, p.spec = s,
           p.deleting = o.deleting, p.status = o.status
    PROVE  ClientView(p) = [ClientView(o) EXCEPT !.spec = s, !.generation = @ + 1]
<1> DEFINE v == ClientView(o)
           w == ClientView(p)
<1>1. /\ v \in View /\ w \in View
      /\ w.uid = v.uid /\ w.generation = v.generation + 1 /\ w.spec = s
      /\ w.deleting = v.deleting /\ w.phase = v.phase /\ w.observed = v.observed
  BY ViewFields
<1> HIDE DEF v, w
<1>2. w = [v EXCEPT !.spec = s, !.generation = @ + 1]
  BY <1>1 DEF View
<1>3. QED
  BY <1>2 DEF v, w

LEMMA ViewMarked ==
    ASSUME NEW o \in Node, NEW p \in Node,
           p.uid = o.uid, p.generation = o.generation + 1, p.spec = o.spec,
           p.deleting = TRUE, p.status = o.status
    PROVE  ClientView(p) = [ClientView(o) EXCEPT !.deleting = TRUE, !.generation = @ + 1]
<1> DEFINE v == ClientView(o)
           w == ClientView(p)
<1>1. /\ v \in View /\ w \in View
      /\ w.uid = v.uid /\ w.generation = v.generation + 1 /\ w.spec = v.spec
      /\ w.deleting = TRUE /\ w.phase = v.phase /\ w.observed = v.observed
  BY ViewFields
<1> HIDE DEF v, w
<1>2. w = [v EXCEPT !.deleting = TRUE, !.generation = @ + 1]
  BY <1>1 DEF View
<1>3. QED
  BY <1>2 DEF v, w

LEMMA ViewReported ==
    ASSUME NEW o \in Node, NEW p \in Node, SameMetadata(p, o)
    PROVE  ClientView(p) = [ClientView(o) EXCEPT !.phase = p.status.phase,
                                                 !.observed = p.status.observed]
<1> DEFINE v == ClientView(o)
           w == ClientView(p)
           ph == p.status.phase
           ob == p.status.observed
<1>1. /\ v \in View /\ w \in View
      /\ w.uid = v.uid /\ w.generation = v.generation /\ w.spec = v.spec
      /\ w.deleting = v.deleting /\ w.phase = ph /\ w.observed = ob
  BY ViewFields DEF SameMetadata
<1> HIDE DEF v, w, ph, ob
<1>2. w = [v EXCEPT !.phase = ph, !.observed = ob]
  BY <1>1 DEF View
<1>3. QED
  BY <1>2 DEF v, w, ph, ob

LEMMA ViewSame ==
    ASSUME NEW o \in Node, NEW p \in Node,
           p.uid = o.uid, p.generation = o.generation, p.spec = o.spec,
           p.deleting = o.deleting, p.status = o.status
    PROVE  ClientView(p) = ClientView(o)
  BY ViewFields DEF View

-----------------------------------------------------------------------------
\* What is seen of the workload and of the reconcile.

LEMMA DeploymentKept ==
    ASSUME UNCHANGED target, SameMetadata(work', work)
    PROVE  UNCHANGED Deployment
  BY DEF Deployment, SameMetadata

LEMMA NoDeployment ==
    /\ target = {} => Deployment = {}
    /\ target' = {} => Deployment' = {}
  BY DEF Deployment

LEMMA SightType == TypeOK => SeenReady \in Lifecycle!Sights
<1> SUFFICES ASSUME TypeOK
             PROVE  SeenReady \in Lifecycle!Sights
  OBVIOUS
<1>1. networkCache = {} \/ \E n \in [ready: BOOLEAN, spec: NetworkSpecs] : networkCache = {n}
  BY DEF TypeOK, Sights
<1>2. CASE networkCache = {}
  BY <1>2 DEF SeenReady, Lifecycle!Sights
<1>3. ASSUME NEW n \in [ready: BOOLEAN, spec: NetworkSpecs], networkCache = {n}
      PROVE  SeenReady \in Lifecycle!Sights
  <2>1. SeenReady = {n.spec} \/ SeenReady = {}
    BY <1>3 DEF SeenReady
  <2>2. QED
    BY <1>3, <2>1 DEF Lifecycle!Sights
<1>4. QED
  BY <1>1, <1>2, <1>3

\* Steps that touch nothing but the node.
LEMMA RestUnseen ==
    ASSUME UNCHANGED <<ownedVars, networkVars, workerVars>>
    PROVE  UNCHANGED <<owned["statefulset"], SeenReady, Deployment>>
  BY DEF ownedVars, networkVars, workerVars, SeenReady, Deployment

-----------------------------------------------------------------------------
\* One lemma for each kind of step that can be seen.

LEMMA InitImplements == Init => Lifecycle!Init
  BY ViewOfNothing DEF Init, Lifecycle!Init, Lifecycle!NoWorkload, Nothing, SeenReady,
     Deployment, Kinds

LEMMA CreateImplements ==
    ASSUME TypeOK, NEW s \in Specs, UserCreate(s)
    PROVE  Lifecycle!Create
<1> DEFINE o == [uid |-> lastUid + 1, generation |-> 1, spec |-> s,
                 finalizer |-> FALSE, deleting |-> FALSE, status |-> EmptyStatus]
<1>1. node = NoNode /\ node' = o /\ UNCHANGED <<ownedVars, networkVars, workerVars>>
  BY NodeExists DEF UserCreate, StoreNode, TypeOK
<1>2. ClientView(node).uid = 0
  BY <1>1, ViewOfNothing DEF Lifecycle!Nothing
<1>3. lastUid \in Nat /\ lastUid + 1 \in 1 .. MaxUid
  BY LastUidIsNat, BoundsAssumption DEF UserCreate, TypeOK
<1>4. o \in Node
  BY <1>3, CreatedType
<1>5. ClientView(node') = [uid |-> lastUid + 1, generation |-> 1, spec |-> s, deleting |-> FALSE,
                           phase |-> "Unset", observed |-> 0]
  BY <1>1, <1>4, NodeExists DEF ClientView, EmptyStatus
<1>6. QED
  BY <1>1, <1>2, <1>3, <1>5, RestUnseen DEF Lifecycle!Create

LEMMA EditImplements ==
    ASSUME TypeOK, NEW s \in Specs, UserEdit(s)
    PROVE  Lifecycle!Edit
<1>1. /\ node \in Node /\ node' = [node EXCEPT !.spec = s, !.generation = @ + 1]
      /\ UNCHANGED <<ownedVars, networkVars, workerVars>>
  BY ExistingIsNode DEF UserEdit, StoreNode, TypeOK
<1>2. /\ node' \in Node
      /\ node'.uid = node.uid /\ node'.generation = node.generation + 1 /\ node'.spec = s
      /\ node'.deleting = node.deleting /\ node'.status = node.status
  BY <1>1, EditFields
<1>3. ClientView(node') = [ClientView(node) EXCEPT !.spec = s, !.generation = @ + 1]
  BY <1>1, <1>2, ViewEdited
<1>4. ClientView(node).uid # 0 /\ ClientView(node).spec # s
  BY <1>1, ViewFields DEF Exists, UserEdit
<1>5. QED
  BY <1>1, <1>3, <1>4, RestUnseen DEF Lifecycle!Edit

\* A node goes while it is deleted or was never reported on, and no reconcile
\* is in progress.
LEMMA VanishImplements ==
    ASSUME Typed, Reporting, node \in Node, node' = NoNode,
           node.deleting \/ node.status.phase = "Unset", pc = "idle",
           UNCHANGED <<ownedVars, networkVars, workerVars>>
    PROVE  Lifecycle!Vanish
<1>1. /\ ClientView(node).uid # 0
      /\ ClientView(node).deleting \/ ClientView(node).phase = "Unset"
  BY ViewFields, NodeFields
<1>2. ClientView(node') = Lifecycle!Nothing
  BY ViewOfNothing
<1>3. Deployment = {}
  BY NoDeployment DEF Reporting
<1>4. QED
  BY <1>1, <1>2, <1>3, RestUnseen DEF Lifecycle!Vanish

LEMMA DeleteImplements ==
    ASSUME Typed, CopiesInOrder, Reporting, UserDelete
    PROVE  Lifecycle!RequestDeletion \/ Lifecycle!Vanish
<1>1. /\ node \in Node /\ ~node.deleting
      /\ UNCHANGED <<ownedVars, networkVars, workerVars>>
  BY ExistingIsNode DEF UserDelete, Typed, TypeOK
<1>2. CASE node' = [node EXCEPT !.deleting = TRUE, !.generation = @ + 1]
  <2>1. /\ node' \in Node
        /\ node'.uid = node.uid /\ node'.generation = node.generation + 1
        /\ node'.spec = node.spec /\ node'.deleting = TRUE /\ node'.status = node.status
    BY <1>1, <1>2, DeletionFields, NodeFields
  <2>2. ClientView(node') = [ClientView(node) EXCEPT !.deleting = TRUE, !.generation = @ + 1]
    BY <1>1, <2>1, ViewMarked
  <2>3. ClientView(node).uid # 0 /\ ~ClientView(node).deleting
    BY <1>1, ViewFields, NodeFields
  <2>4. QED
    BY <1>1, <2>2, <2>3, RestUnseen DEF Lifecycle!RequestDeletion
<1>3. CASE node' = NoNode /\ ~node.finalizer
  <2>1. pc = "idle" /\ node.status.phase = "Unset"
    BY <1>1, <1>3, NodeExists DEF CopiesInOrder, WorkIsPast, ReportedIsFinalized
  <2>2. QED
    BY <1>1, <1>3, <2>1, VanishImplements
<1>4. QED
  BY <1>2, <1>3 DEF UserDelete, StoreNode

\* The finalizer is removed only from the current node, so only from one that
\* is marked for deletion.
LEMMA HandleDeletionImplements ==
    ASSUME Typed, Reporting, HandleDeletion
    PROVE  Lifecycle!Vanish \/ UNCHANGED Lifecycle!vars
<1>1. /\ UNCHANGED <<ownedVars, networkVars, workerVars>> /\ pc = "idle"
      /\ UNCHANGED node \/ (node \in Node /\ node.deleting /\ node' = NoNode)
  BY HandleDeletionEffect DEF Typed
<1>2. CASE UNCHANGED node
  BY <1>1, <1>2, RestUnseen DEF Lifecycle!vars
<1>3. CASE node \in Node /\ node.deleting /\ node' = NoNode
  BY <1>1, <1>3, VanishImplements
<1>4. QED
  BY <1>1, <1>2, <1>3

LEMMA AddFinalizerImplements ==
    ASSUME Typed, AddFinalizer
    PROVE  UNCHANGED Lifecycle!vars
<1>1. /\ UNCHANGED <<ownedVars, networkVars, workerVars>>
      /\ UNCHANGED node \/ (node \in Node /\ node' = [node EXCEPT !.finalizer = TRUE])
  BY AddFinalizerEffect DEF Typed
<1>2. UNCHANGED ClientView(node)
  <2>1. CASE UNCHANGED node
    BY <2>1
  <2>2. CASE node \in Node /\ node' = [node EXCEPT !.finalizer = TRUE]
    BY <2>2, FinalizerFields, ViewSame
  <2>3. QED
    BY <1>1, <2>1, <2>2
<1>3. QED
  BY <1>1, <1>2, RestUnseen DEF Lifecycle!vars

\* A reconcile that will deploy does so for a generation the node has had.
LEMMA ValidateImplements ==
    ASSUME Typed, CopiesInOrder, Reporting, Validate
    PROVE  Lifecycle!Begin \/ UNCHANGED Lifecycle!vars
<1>1. /\ UNCHANGED <<node, owned, networkCache>> /\ pc = "idle"
      /\ nodeCache \in Node /\ ~nodeCache.deleting /\ nodeCache.finalizer
      /\ SameMetadata(work', nodeCache)
      /\ \/ target' = {}
         \/ /\ Deployable(nodeCache.spec)
            /\ \E n \in networkCache : n.ready /\ target' = {n.spec}
  BY ValidateEffect DEF Typed, nodeVars, ownedVars, networkVars
<1>2. /\ UNCHANGED <<ClientView(node), owned["statefulset"], SeenReady>>
      /\ Deployment = {}
  BY <1>1, NoDeployment DEF SeenReady, Reporting
<1>3. CASE target' = {}
  BY <1>2, <1>3, NoDeployment DEF Lifecycle!vars
<1>4. ASSUME Deployable(nodeCache.spec), NEW n \in networkCache, n.ready, target' = {n.spec}
      PROVE  Lifecycle!Begin
  <2>1. /\ node \in Node /\ Precedes(nodeCache, node)
    BY <1>1, NodeExists, ExistingIsNode DEF CopiesInOrder, CacheIsPast, Exists, Typed, TypeOK
  <2>2. /\ ClientView(node).uid # 0 /\ ClientView(node).generation = node.generation
        /\ ClientView(node).spec = node.spec /\ ClientView(node).deleting = node.deleting
    BY <2>1, ViewFields, NodeFields
  <2>3. nodeCache.generation \in 1 .. node.generation
    BY <1>1, <2>1, NodeFields DEF Precedes
  <2>4. nodeCache.spec \in Specs
    BY <1>1, NodeFields
  <2>5. nodeCache.generation = node.generation => nodeCache.spec = node.spec /\ ~node.deleting
    BY <1>1, <2>1 DEF Precedes
  <2>6. n.spec \in SeenReady
    BY <1>4 DEF SeenReady
  <2>7. Deployment' =
          {[generation |-> nodeCache.generation, spec |-> nodeCache.spec, network |-> n.spec]}
    BY <1>1, <1>4 DEF Deployment, SameMetadata
  <2>8. QED
    BY <1>2, <1>4, <2>2, <2>3, <2>4, <2>5, <2>6, <2>7 DEF Lifecycle!Begin
<1>5. QED
  BY <1>1, <1>3, <1>4

\* Only the step of the StatefulSet is seen of those of the owned objects.
LEMMA ReconcileOwnedImplements ==
    ASSUME Typed, CopiesInOrder, ReconcileOwned
    PROVE  Lifecycle!Deploy \/ UNCHANGED Lifecycle!vars
<1>1. /\ UNCHANGED <<node, networkCache, target>> /\ pc \in Kinds /\ work \in Node
      /\ \E error \in BOOLEAN : After(pc, error)
  BY ReconcileOwnedEffect DEF Typed, nodeVars, networkVars
<1>2. SameMetadata(work', work)
  BY <1>1, AfterFields
<1>3. UNCHANGED <<ClientView(node), SeenReady, Deployment>>
  BY <1>1, <1>2, DeploymentKept DEF SeenReady
<1>4. CASE UNCHANGED owned["statefulset"]
  BY <1>3, <1>4 DEF Lifecycle!vars
<1>5. ASSUME NEW o, Yields("statefulset", o), Written("statefulset", o), pc = "statefulset"
      PROVE  Lifecycle!Deploy
  <2>1. PICK n \in target :
          /\ o.data = StatefulSet(work.spec, n)
          /\ \/ ~Present(owned["statefulset"]) /\ o.owner = work.uid
             \/ /\ Present(owned["statefulset"]) /\ o.owner = owned["statefulset"].owner
                /\ SameImmutable(owned["statefulset"].data, o.data)
    BY <1>5 DEF Yields
  <2> DEFINE t == [generation |-> work.generation, spec |-> work.spec, network |-> n]
  <2>2. t \in Deployment /\ StatefulSet(t.spec, t.network) = o.data
    BY <2>1 DEF Deployment
  <2>3. work.uid = ClientView(node).uid
    BY <1>1, ViewUid DEF CopiesInOrder, WorkIsPast, Typed, TypeOK, Kinds
  <2>4. o \in Owned("statefulset") /\ owned'["statefulset"] = o
    BY <1>5 DEF Yields, Written
  <2> HIDE DEF t
  <2>5. CASE ~Present(owned["statefulset"]) /\ o.owner = work.uid
    <3>1. o = [owner |-> ClientView(node).uid, data |-> StatefulSet(t.spec, t.network)]
      BY <2>2, <2>3, <2>4, <2>5 DEF Owned
    <3>2. QED
      BY <1>3, <2>2, <2>4, <2>5, <3>1 DEF Lifecycle!Deploy, Present
  <2>6. CASE /\ Present(owned["statefulset"]) /\ o.owner = owned["statefulset"].owner
             /\ SameImmutable(owned["statefulset"].data, o.data)
    <3>1. owned["statefulset"] \in Owned("statefulset")
      BY <2>6, PresentFields DEF Typed, Kinds
    <3>2. o = [owned["statefulset"] EXCEPT !.data = StatefulSet(t.spec, t.network)]
      BY <2>2, <2>4, <2>6, <3>1 DEF Owned
    <3>3. QED
      BY <1>3, <2>2, <2>4, <2>6, <3>2 DEF Lifecycle!Deploy, Present
  <2>7. QED
    BY <2>1, <2>5, <2>6
<1>6. QED
  BY <1>4, <1>5, ReconcileOwnedEffect DEF Typed, NotWritten, Written, Kinds

\* A report of a node that is Running is of a generation the node has had,
\* and its workload is there unless an earlier node's went meanwhile.
LEMMA ReportImplements ==
    ASSUME Typed, CopiesInOrder, Reporting, Progress, WriteStatus,
           node \in Node, node' \in Node, SameMetadata(node', node),
           node'.status = work.status, pc = "status", pc' = "idle", target' = {}
    PROVE  Lifecycle!ReportRunning \/ Lifecycle!ReportOther
<1>1. /\ UNCHANGED <<owned["statefulset"], SeenReady>> /\ Deployment' = {}
  BY NoDeployment DEF WriteStatus, ownedVars, networkVars, SeenReady
<1>2. work.status.observed = work.generation
  BY DEF Reporting
<1>3. ClientView(node') = [ClientView(node) EXCEPT !.phase = work.status.phase,
                                                   !.observed = work.generation]
  <2>1. ClientView(node') = [ClientView(node) EXCEPT !.phase = node'.status.phase,
                                                     !.observed = node'.status.observed]
    BY ViewReported
  <2>2. QED
    BY <1>2, <2>1
<1>4. work.generation \in 1 .. node.generation
  <2>1. work \in Node
    BY ExistingIsNode DEF Typed, TypeOK, WorkExists
  <2>2. nodeCache.uid = node.uid /\ work.generation <= nodeCache.generation
    BY DEF CopiesInOrder, WorkIsPast
  <2>3. nodeCache \in Node /\ nodeCache.generation <= node.generation
    BY <2>2, NodeExists, ExistingIsNode DEF CopiesInOrder, CacheIsPast, Precedes, Exists,
       Typed, TypeOK
  <2>4. QED
    BY <2>1, <2>2, <2>3, NodeFields
<1>5. /\ ClientView(node).uid = node.uid /\ node.uid # 0
      /\ ClientView(node).generation = node.generation
  BY ViewFields, NodeFields
<1>6. CASE work.status.phase = "Running"
  <2>1. target # {} /\ StatefulSetMade
    BY <1>6 DEF Reporting, Progress
  <2>2. PICK n \in target : Made("statefulset", owned["statefulset"].data = StatefulSet(work.spec, n))
    BY <2>1 DEF StatefulSetMade
  <2> DEFINE t == [generation |-> work.generation, spec |-> work.spec, network |-> n]
  <2>3. t \in Deployment /\ t.generation = work.generation
        /\ StatefulSet(t.spec, t.network) = StatefulSet(work.spec, n)
    BY <2>2 DEF Deployment
  <2> HIDE DEF t
  <2>4. QED
    BY <1>1, <1>3, <1>5, <1>6, <2>2, <2>3 DEF Lifecycle!ReportRunning, Made, Present
<1>7. CASE work.status.phase \in {"Pending", "Error"}
  BY <1>1, <1>3, <1>4, <1>5, <1>7 DEF Lifecycle!ReportOther
<1>8. QED
  BY <1>6, <1>7 DEF Reporting

LEMMA AbandonImplements ==
    ASSUME UNCHANGED <<node, owned, networkCache>>, target' = {}
    PROVE  Lifecycle!Abandon
  BY NoDeployment DEF Lifecycle!Abandon, SeenReady

LEMMA RestartImplements ==
    ASSUME Typed', UNCHANGED <<node, owned>>, target' = {}
    PROVE  Lifecycle!Restart
<1>1. TypeOK'
  BY DEF Typed
<1>2. (SeenReady \in Lifecycle!Sights)'
  BY <1>1, SightType, PTL
<1>3. QED
  BY <1>2, NoDeployment DEF Lifecycle!Restart

LEMMA WriteStatusImplements ==
    ASSUME Typed, Typed', CopiesInOrder, Reporting, Progress, WriteStatus
    PROVE  \/ Lifecycle!ReportRunning \/ Lifecycle!ReportOther
           \/ Lifecycle!Abandon \/ UNCHANGED Lifecycle!vars
<1>1. /\ UNCHANGED <<ownedVars, networkVars>> /\ pc = "status"
      /\ UNCHANGED <<pc, work, target>> \/ (pc' = "idle" /\ target' = {})
      /\ \/ UNCHANGED node
         \/ /\ pc' = "idle" /\ node \in Node /\ node' \in Node
            /\ SameMetadata(node', node) /\ node'.status = work.status
  BY WriteStatusEffect DEF Typed
<1>2. CASE UNCHANGED <<node, pc, work, target>>
  BY <1>1, <1>2 DEF Lifecycle!vars, ownedVars, networkVars, SeenReady, Deployment
<1>3. CASE UNCHANGED node /\ target' = {}
  BY <1>1, <1>3, AbandonImplements DEF ownedVars, networkVars
<1>4. CASE /\ pc' = "idle" /\ node \in Node /\ node' \in Node
           /\ SameMetadata(node', node) /\ node'.status = work.status
  <2>1. target' = {}
    BY <1>1, <1>4
  <2>2. QED
    BY <1>1, <1>4, <2>1, ReportImplements
<1>5. QED
  BY <1>1, <1>2, <1>3, <1>4

LEMMA CollectImplements ==
    ASSUME Typed, NEW k \in Kinds, CollectOwned(k)
    PROVE  Lifecycle!Collect \/ UNCHANGED Lifecycle!vars
<1>1. /\ UNCHANGED <<node, networkCache, work, target>>
      /\ owned[k].owner # node.uid
      /\ owned'[k] = Nothing /\ \A j \in Kinds : j # k => owned'[j] = owned[j]
  BY DEF CollectOwned, Typed, TypeOK, nodeVars, networkVars, workerVars
<1>2. UNCHANGED <<ClientView(node), SeenReady, Deployment>>
  BY <1>1 DEF SeenReady, Deployment
<1>3. CASE k = "statefulset"
  <2>1. ClientView(node).uid = node.uid
    BY ViewUid DEF Typed, TypeOK
  <2>2. QED
    BY <1>1, <1>2, <1>3, <2>1 DEF Lifecycle!Collect, Lifecycle!NoWorkload, Nothing
<1>4. CASE k # "statefulset"
  BY <1>1, <1>2, <1>4 DEF Lifecycle!vars, Kinds
<1>5. QED
  BY <1>3, <1>4

\* Whatever is read late, lost, retried or restarted, users of a node see
\* nothing but the life they may rely on.
LEMMA StepImplements ==
    ASSUME Inv, [Next]_vars
    PROVE  [Lifecycle!Next]_(Lifecycle!vars)
<1>1. Typed /\ CopiesInOrder /\ Reporting /\ Progress
  BY DEF Inv, Established, Typed
<1>2. Typed' /\ TypeOK
  BY <1>1, TypedNext DEF Typed
<1>3. CASE Reconcile
  <2>1. FetchNothing => UNCHANGED Lifecycle!vars
    BY RestUnseen DEF FetchNothing, nodeVars, Lifecycle!vars
  <2>2. QED
    BY <1>1, <1>2, <1>3, <2>1, HandleDeletionImplements, AddFinalizerImplements,
       ValidateImplements, ReconcileOwnedImplements, WriteStatusImplements
       DEF Reconcile, Lifecycle!Next
<1>4. CASE Environment
  <2>1. ASSUME NEW s \in Specs, UserCreate(s) \/ UserEdit(s)
        PROVE  Lifecycle!Next
    BY <1>2, <2>1, CreateImplements, EditImplements DEF Lifecycle!Next
  <2>2. UserDelete => Lifecycle!Next
    BY <1>1, DeleteImplements DEF Lifecycle!Next
  <2>3. ASSUME NEW k \in Kinds, CollectOwned(k)
        PROVE  [Lifecycle!Next]_(Lifecycle!vars)
    BY <1>1, <2>3, CollectImplements DEF Lifecycle!Next
  <2>4. Restart => Lifecycle!Next
    BY <1>2, RestartImplements DEF Restart, Lifecycle!Next
  <2>5. SyncNetwork => Lifecycle!Next
    <3>1. TypeOK'
      BY <1>2 DEF Typed
    <3>2. (SeenReady \in Lifecycle!Sights)'
      BY <3>1, SightType, PTL
    <3>3. QED
      BY <3>2 DEF SyncNetwork, nodeVars, ownedVars, workerVars, Deployment, Lifecycle!See,
         Lifecycle!Next
  <2>6. CASE UNCHANGED <<node, owned, networkCache, work, target>>
    BY <2>6 DEF SeenReady, Deployment, Lifecycle!vars
  <2>7. QED
    BY <1>4, <2>1, <2>2, <2>3, <2>4, <2>5, <2>6 DEF Environment, SyncOwned, RunStatefulSet,
       NetworkStep, SyncNode, TimerFires, nodeVars, ownedVars, networkVars, workerVars
<1>5. CASE UNCHANGED vars
  BY <1>5 DEF vars, nodeVars, ownedVars, networkVars, workerVars, SeenReady, Deployment,
     Lifecycle!vars
<1>6. QED
  BY <1>3, <1>4, <1>5 DEF Next

\* The node controller implements the life of a node that Operator composes
\* with the network.
THEOREM Implementation == Spec => ImplementsNodeLifecycle
  BY InitImplements, StepImplements, Invariance, PTL
     DEF Spec, ImplementsNodeLifecycle, Lifecycle!Spec
=============================================================================
