------------------------- MODULE NetworkSafetyProofs -------------------------
(***************************************************************************)
(* Proof that Inv (module NetworkInvariants) is an invariant of            *)
(* NetworkController, of the safety properties that follow from it, and    *)
(* that NetworkController implements NetworkLifecycle and AddressCache.    *)
(***************************************************************************)
EXTENDS NetworkProofs

-----------------------------------------------------------------------------
\* How the ConfigMaps change.

\* cm holds what the reconcile of o generates, under the owner of the copy it
\* replaces, or of o if there is none.
WrittenFor(k, cm, o) ==
    /\ Present(cm)
    /\ cm.owner \in {o.uid, cmCache[k].owner}
    /\ cm.data = GeneratedData(k, o.spec, o.status.contracts)

LEMMA WrittenDescribes ==
    ASSUME NEW k \in ConfigMapKinds, NEW cm, NEW o, WrittenFor(k, cm, o)
    PROVE  DescribesChain(k, cm.data, o.spec)
  BY DEF WrittenFor, DescribesChain, GeneratedData, ConfigMapKinds

\* A write that is answered without an error is applied.
LEMMA AnsweredIsApplied ==
    ASSUME NEW ok \in BOOLEAN, NEW applied \in BOOLEAN, NEW error \in BOOLEAN,
           Call(ok, applied, error), ~error
    PROVE  applied
<1>1. CASE ok
  BY <1>1, Zenon DEF Call
<1>2. CASE ~ok
  BY <1>2, Zenon DEF Call
<1>3. QED
  BY <1>1, <1>2

LEMMA ReconcileConfigMapEffect ==
    ASSUME TypeOK, WorkExists, NEW k \in ConfigMapKinds, ReconcileConfigMap(k)
    PROVE  /\ UNCHANGED <<net, lastUid, netCache, cmCache>>
           /\ pc = k
           /\ \A j \in ConfigMapKinds : j # k => cms'[j] = cms[j]
           /\ \/ WrittenFor(k, cms'[k], work)
              \/ cms' = cms /\ ~AutoDiscovered(k, work.spec)
              \/ cms' = cms /\ pc' = "status" /\ work'.status.phase = "Error"
<1>1. UNCHANGED <<net, lastUid, netCache, cmCache>> /\ pc = k
  BY DEF ReconcileConfigMap
<1>2. work \in Network /\ work.uid # 0
  BY <1>1, ExistingIsNetwork DEF TypeOK, WorkExists, ConfigMapKinds, Exists
<1>3. CASE ~AutoDiscovered(k, work.spec) /\ UNCHANGED cms
  BY <1>1, <1>3
<1>4. CASE CreateOrUpdateConfigMap(k)
  <2> DEFINE data == GeneratedData(k, work.spec, work.status.contracts)
             written == IF Present(cmCache[k]) THEN [cmCache[k] EXCEPT !.data = data]
                        ELSE [owner |-> work.uid, data |-> data]
             ok == IF Present(cmCache[k]) THEN cmFresh[k] ELSE ~Present(cms[k])
  <2>1. WrittenFor(k, written, work)
    <3>1. CASE Present(cmCache[k])
      <4>1. cmCache[k] \in ConfigMap
        BY <3>1 DEF TypeOK, Present, NoConfigMap
      <4>2. written.owner = cmCache[k].owner /\ written.data = data
        BY <3>1, <4>1 DEF ConfigMap
      <4>3. QED
        BY <3>1, <4>2 DEF WrittenFor, Present
    <3>2. CASE ~Present(cmCache[k])
      BY <1>2, <3>2 DEF WrittenFor, Present
    <3>3. QED
      BY <3>1, <3>2
  <2>2. PICK applied \in BOOLEAN, error \in BOOLEAN :
          /\ Call(ok, applied, error)
          /\ IF applied /\ cms[k] # written
             THEN /\ cms' = [cms EXCEPT ![k] = written]
                  /\ cmFresh' = [cmFresh EXCEPT ![k] = FALSE]
             ELSE UNCHANGED <<cms, cmFresh>>
          /\ \/ ~error /\ AfterConfigMap(k)
             \/ error /\ pc' = "status" /\ work' = SetPhase(work, "Error")
    BY <1>4 DEF CreateOrUpdateConfigMap, AfterWrite
  <2> HIDE DEF written, ok
  <2>3. error \/ applied
    <3>1. ok \in BOOLEAN
      BY DEF ok, TypeOK
    <3>2. QED
      BY <2>2, <3>1, AnsweredIsApplied
  <2>4. \A j \in ConfigMapKinds : j # k => cms'[j] = cms[j]
    BY <2>2 DEF TypeOK
  <2>5. cms'[k] = written \/ (cms' = cms /\ ~applied)
    BY <2>2 DEF TypeOK
  <2>6. error => pc' = "status" /\ work'.status.phase = "Error"
    <3>1. SetPhase(work, "Error").status.phase = "Error"
      BY <1>2, SetPhaseFields
    <3>2. QED
      BY <2>2, <3>1
  <2>7. CASE cms'[k] = written
    BY <1>1, <2>1, <2>4, <2>7
  <2>8. CASE cms' = cms /\ ~applied
    BY <1>1, <2>3, <2>6, <2>8
  <2>9. QED
    BY <2>5, <2>7, <2>8
<1>5. QED
  BY <1>3, <1>4 DEF ReconcileConfigMap

LEMMA CollectEffect ==
    ASSUME TypeOK, OwnersInOrder, UidsInOrder, Exists(net),
           NEW k \in ConfigMapKinds, CollectConfigMap(k)
    PROVE  /\ cms' = [cms EXCEPT ![k] = NoConfigMap]
           /\ net.uid > 1
<1>1. cms[k] \in ConfigMap /\ cms[k].owner # net.uid
      /\ cms' = [cms EXCEPT ![k] = NoConfigMap]
  BY DEF CollectConfigMap, TypeOK, Present, NoConfigMap
<1>2. cms[k].owner \in Nat \ {0}
  BY <1>1 DEF ConfigMap
<1>3. cms[k].owner <= lastUid /\ net.uid = lastUid /\ lastUid \in Nat
  BY LastUidIsNat DEF OwnersInOrder, UidsInOrder
<1>4. QED
  BY <1>1, <1>2, <1>3

-----------------------------------------------------------------------------
\* OwnersInOrder.

LEMMA OwnersNext ==
    ASSUME ~Meddling, TypeOK, WorkExists, CopiesInOrder, OwnersInOrder, [Next]_vars
    PROVE  OwnersInOrder'
<1>1. lastUid \in Nat /\ \A k \in ConfigMapKinds : cms[k].owner \in Nat /\ cmCache[k].owner \in Nat
  BY LastUidIsNat DEF TypeOK, ConfigMap, NoConfigMap
<1>2. ASSUME UNCHANGED <<cms, cmCache>>, lastUid' \in {lastUid, lastUid + 1}
      PROVE  OwnersInOrder'
  BY <1>1, <1>2 DEF OwnersInOrder
<1>3. ASSUME NEW k \in ConfigMapKinds, ReconcileConfigMap(k)
      PROVE  OwnersInOrder'
  <2>1. work.uid = lastUid
    BY <1>3 DEF ReconcileConfigMap, ConfigMapKinds, CopiesInOrder, WorkIsPast, UidsInOrder
  <2>2. cms'[k].owner \in {work.uid, cmCache[k].owner} \/ cms' = cms
    BY <1>3, ReconcileConfigMapEffect DEF WrittenFor
  <2>3. UNCHANGED <<lastUid, cmCache>> /\ \A j \in ConfigMapKinds : j # k => cms'[j] = cms[j]
    BY <1>3, ReconcileConfigMapEffect
  <2>4. QED
    BY <1>1, <2>1, <2>2, <2>3 DEF OwnersInOrder
<1>4. ASSUME NEW k \in ConfigMapKinds, CollectConfigMap(k)
      PROVE  OwnersInOrder'
  BY <1>1, <1>4 DEF CollectConfigMap, OwnersInOrder, NoConfigMap, TypeOK
<1>5. ASSUME NEW k \in ConfigMapKinds, SyncConfigMap(k)
      PROVE  OwnersInOrder'
  BY <1>5 DEF SyncConfigMap, apiVars, OwnersInOrder, TypeOK
<1>6. CASE Restart
  BY <1>6 DEF Restart, apiVars, OwnersInOrder, TypeOK
<1>7. CASE FetchNothing \/ HandleDeletion \/ AddFinalizer \/ Validate \/ TestL1Connectivity
           \/ DiscoverContractAddresses \/ WriteStatus
  BY <1>2, <1>7 DEF FetchNothing, HandleDeletion, AddFinalizer, Validate, TestL1Connectivity,
     DiscoverContractAddresses, WriteStatus, apiVars, informerVars
<1>8. ASSUME NEW s \in Specs, UserCreate(s) \/ UserEdit(s)
      PROVE  OwnersInOrder'
  BY <1>2, <1>8 DEF UserCreate, UserEdit
<1>9. CASE UserDelete \/ UserStripFinalizer \/ SyncNetwork \/ TimerFires \/ L1Changes
           \/ UNCHANGED vars
  BY <1>2, <1>9 DEF UserDelete, UserStripFinalizer, SyncNetwork, TimerFires, L1Changes,
     vars, apiVars, informerVars
<1>10. ASSUME NEW key \in CacheKeys, ExpireAddresses(key)
       PROVE  OwnersInOrder'
  BY <1>2, <1>10 DEF ExpireAddresses, apiVars, informerVars
<1>11. \A k \in ConfigMapKinds : ~UserDeleteConfigMap(k)
  BY DEF UserDeleteConfigMap
<1>12. QED
  BY <1>3, <1>4, <1>5, <1>6, <1>7, <1>8, <1>9, <1>10, <1>11 DEF Next, Reconcile, Environment

-----------------------------------------------------------------------------
\* What a reconcile has established stays so.

LEMMA CompletedSame ==
    ASSUME NEW maps, NEW o, NEW p, o.uid = p.uid, o.spec = p.spec,
           o.status.conditions = p.status.conditions,
           o.status.contracts = p.status.contracts,
           Completed(maps, o)
    PROVE  Completed(maps, p)
  BY DEF Completed, Checked, Connected, Discovered, Generated

\* A ConfigMap that was generated for o stays so: no step writes one for
\* another specification, and only one taken over from an earlier object is
\* collected.
LEMMA GeneratedKept ==
    ASSUME ~Meddling, TypeOK, WorkExists, CopiesInOrder, OwnersInOrder, [Next]_vars,
           NEW o, Exists(net), o.uid = net.uid,
           \A k \in ConfigMapKinds : ReconcileConfigMap(k) => o.spec = work.spec,
           NEW j \in ConfigMapKinds, Generated(cms, j, o)
    PROVE  Generated(cms', j, o)
<1>1. CASE cms' = cms
  BY <1>1
<1>2. ASSUME NEW k \in ConfigMapKinds, ReconcileConfigMap(k)
      PROVE  Generated(cms', j, o)
  <2>1. CASE j # k
    <3>1. cms'[j] = cms[j]
      BY <1>2, <2>1, ReconcileConfigMapEffect
    <3>2. QED
      BY <3>1 DEF Generated
  <2>2. CASE j = k /\ cms' # cms
    <3>1. WrittenFor(k, cms'[k], work)
      BY <1>2, <2>2, ReconcileConfigMapEffect
    <3>2. Present(cms'[k]) /\ DescribesChain(k, cms'[k].data, o.spec)
      BY <1>2, <3>1, WrittenDescribes DEF WrittenFor
    <3>3. QED
      BY <2>2, <3>2 DEF Generated
  <2>3. QED
    BY <1>1, <2>1, <2>2
<1>3. ASSUME NEW k \in ConfigMapKinds, CollectConfigMap(k)
      PROVE  Generated(cms', j, o)
  <2>1. cms' = [cms EXCEPT ![k] = NoConfigMap] /\ o.uid > 1
    BY <1>3, CollectEffect DEF CopiesInOrder
  <2>2. CASE j = k
    <3>1. ~Present(cms'[j])
      BY <2>1, <2>2 DEF TypeOK, Present, NoConfigMap
    <3>2. QED
      BY <2>1, <3>1 DEF Generated
  <2>3. CASE j # k
    <3>1. cms'[j] = cms[j]
      BY <2>1, <2>3 DEF TypeOK
    <3>2. QED
      BY <3>1 DEF Generated
  <2>4. QED
    BY <2>2, <2>3
<1>4. \A k \in ConfigMapKinds : ~UserDeleteConfigMap(k)
  BY DEF UserDeleteConfigMap
<1>5. \/ cms' = cms
      \/ \E k \in ConfigMapKinds : ReconcileConfigMap(k) \/ CollectConfigMap(k)
  BY <1>4 DEF Next, Reconcile, Environment, FetchNothing, HandleDeletion, AddFinalizer, Validate,
     TestL1Connectivity, DiscoverContractAddresses, WriteStatus, UserCreate, UserEdit,
     UserDelete, UserStripFinalizer, SyncNetwork, SyncConfigMap, TimerFires, ExpireAddresses,
     L1Changes, Restart, vars, apiVars, informerVars
<1>6. QED
  BY <1>1, <1>2, <1>3, <1>5

-----------------------------------------------------------------------------
\* Progress.

\* The steps that leave the reconcile where it is, or end it.
LEMMA ProgressKept ==
    ASSUME ~Meddling, TypeOK, WorkExists, CopiesInOrder, OwnersInOrder, [Next]_vars,
           Progress, UNCHANGED <<pc, work>> \/ pc' = "idle"
    PROVE  Progress'
<1>1. CASE pc' = "idle"
  BY <1>1 DEF Progress
<1>2. CASE UNCHANGED <<pc, work>> /\ pc # "idle"
  <2>1. Exists(net) /\ work.uid = net.uid
    BY <1>2 DEF CopiesInOrder, WorkIsPast
  <2>2. \A j \in ConfigMapKinds : Generated(cms, j, work) => Generated(cms', j, work)
    BY <2>1, GeneratedKept
  <2>3. Completed(cms, work) => Completed(cms', work)
    BY <2>2 DEF Completed
  <2>4. QED
    BY <1>2, <2>2, <2>3 DEF Progress, ConfigMapKinds
<1>3. QED
  BY <1>1, <1>2

LEMMA ProgressValidate ==
    ASSUME TypeOK, Validate
    PROVE  Progress'
<1>1. netCache \in Network
  BY ExistingIsNetwork DEF Validate, ToValidate, Accept, Reject, TypeOK
<1>2. CASE /\ ValidConfiguration(netCache.spec)
           /\ work' = SetCondition(netCache, "ConfigurationValid", "True")
           /\ pc' = "l1"
  <2>1. work'.spec = netCache.spec
    BY ValidateWork DEF SameMetadata
  <2>2. work'.status.conditions = [netCache.status.conditions
                                   EXCEPT !["ConfigurationValid"] = "True"]
    BY <1>1, <1>2, SetConditionFields DEF ConditionTypes
  <2>3. work'.status.conditions["ConfigurationValid"] = "True"
    BY <1>1, <2>2, NetworkFields DEF ConditionTypes
  <2>4. QED
    BY <1>2, <2>1, <2>3 DEF Progress, Checked
<1>3. CASE /\ work' = SetPhase(SetCondition(netCache, "ConfigurationValid", "False"), "Error")
           /\ pc' = "status"
  <2> DEFINE c == SetCondition(netCache, "ConfigurationValid", "False")
  <2>1. c \in Network
    BY <1>1, SetConditionFields DEF ConditionTypes
  <2> HIDE DEF c
  <2>2. SetPhase(c, "Error").status.phase = "Error"
    BY <2>1, SetPhaseFields
  <2>3. work'.status.phase = "Error"
    BY <1>3, <2>2 DEF c
  <2>4. QED
    BY <1>3, <2>3 DEF Progress
<1>4. QED
  BY <1>2, <1>3 DEF Validate, ToValidate, Accept, Reject

LEMMA ProgressTestL1 ==
    ASSUME TypeOK, WorkExists, Progress, TestL1Connectivity
    PROVE  Progress'
<1>1. work \in Network /\ work'.spec = work.spec
  BY TestL1Work DEF SameMetadata
<1>2. CASE /\ L1ChainAt[work.spec.l1RpcUrl] = work.spec.l1ChainID
           /\ work' = SetCondition(work, "L1Connected", "True")
           /\ pc' = "discover"
  <2>1. work'.status.conditions = [work.status.conditions EXCEPT !["L1Connected"] = "True"]
    BY <1>1, <1>2, SetConditionFields DEF ConditionTypes
  <2>2. /\ work'.status.conditions["L1Connected"] = "True"
        /\ work'.status.conditions["ConfigurationValid"]
             = work.status.conditions["ConfigurationValid"]
    BY <1>1, <2>1, NetworkFields DEF ConditionTypes
  <2>3. Checked(work)
    BY DEF TestL1Connectivity, Progress
  <2>4. Checked(work')
    BY <1>1, <2>2, <2>3 DEF Checked
  <2>5. Connected(work')
    BY <1>1, <1>2, <2>2 DEF Connected
  <2>6. QED
    BY <1>2, <2>4, <2>5 DEF Progress, Checked, Connected
<1>3. CASE /\ work' = SetPhase(SetCondition(work, "L1Connected", "False"), "Error")
           /\ pc' = "status"
  <2> DEFINE c == SetCondition(work, "L1Connected", "False")
  <2>1. c \in Network
    BY <1>1, SetConditionFields DEF ConditionTypes
  <2> HIDE DEF c
  <2>2. SetPhase(c, "Error").status.phase = "Error"
    BY <2>1, SetPhaseFields
  <2>3. work'.status.phase = "Error"
    BY <1>3, <2>2 DEF c
  <2>4. QED
    BY <1>3, <2>3 DEF Progress
<1>4. QED
  BY <1>2, <1>3 DEF TestL1Connectivity, L1Answers

LEMMA ProgressDiscover ==
    ASSUME TypeOK, WorkExists, Progress, DiscoverContractAddresses
    PROVE  Progress'
<1>1. work \in Network /\ work'.spec = work.spec
  BY DiscoverWork DEF SameMetadata
<1>2. CASE /\ pc' = "rollup"
           /\ work'.status.contracts # NoAddresses
           /\ work'.status.conditions =
                [work.status.conditions EXCEPT !["ContractsDiscovered"] = "True"]
  <2>1. /\ work'.status.conditions["ContractsDiscovered"] = "True"
        /\ work'.status.conditions["L1Connected"] = work.status.conditions["L1Connected"]
        /\ work'.status.conditions["ConfigurationValid"]
             = work.status.conditions["ConfigurationValid"]
    BY <1>1, <1>2, NetworkFields DEF ConditionTypes
  <2>2. Checked(work) /\ Connected(work)
    BY DEF DiscoverContractAddresses, Progress
  <2>3. QED
    BY <1>1, <1>2, <2>1, <2>2 DEF Progress, Checked, Connected, Discovered
<1>3. CASE pc' = "status" /\ work'.status.phase = "Error"
  BY <1>3 DEF Progress
<1>4. QED
  BY <1>2, <1>3, DiscoverWork

LEMMA ProgressConfigMap ==
    ASSUME ~Meddling, TypeOK, WorkExists, CopiesInOrder, OwnersInOrder, [Next]_vars,
           Progress, NEW k \in ConfigMapKinds, ReconcileConfigMap(k)
    PROVE  Progress'
<1>1. pc = k /\ k \in {"rollup", "genesis"} /\ Exists(net) /\ work.uid = net.uid
  BY DEF ReconcileConfigMap, ConfigMapKinds, CopiesInOrder, WorkIsPast
<1>2. Checked(work) /\ Connected(work) /\ Discovered(work)
  BY <1>1 DEF Progress
<1>3. CASE pc' = "status" /\ work'.status.phase = "Error"
  BY <1>3 DEF Progress
<1>4. CASE ~(pc' = "status" /\ work'.status.phase = "Error")
  <2>1. Generated(cms', k, work)
    <3>1. CASE WrittenFor(k, cms'[k], work)
      BY <3>1, WrittenDescribes DEF WrittenFor, Generated
    <3>2. CASE ~AutoDiscovered(k, work.spec)
      BY <3>2 DEF Generated
    <3>3. QED
      BY <1>4, <3>1, <3>2, ReconcileConfigMapEffect
  <2>2. CASE k = "rollup" /\ pc' = "genesis" /\ work' = work
    BY <1>2, <2>1, <2>2 DEF Progress
  <2>3. CASE /\ k = "genesis" /\ pc' = "status"
             /\ work'.status.phase = "Ready"
             /\ work'.status.observed = work.generation
             /\ work'.status.contracts = work.status.contracts
             /\ work'.status.conditions = work.status.conditions
    <3>1. Generated(cms, "rollup", work)
      BY <1>1, <2>3 DEF Progress
    <3>2. Generated(cms', "rollup", work)
      BY <1>1, <3>1, GeneratedKept DEF ConfigMapKinds
    <3>3. Completed(cms', work)
      BY <1>2, <2>1, <2>3, <3>2 DEF Completed, ConfigMapKinds
    <3>4. SameMetadata(work', work)
      BY ConfigMapWork
    <3>5. Completed(cms', work')
      BY <2>3, <3>3, <3>4, CompletedSame DEF SameMetadata
    <3>6. QED
      BY <2>3, <3>4, <3>5 DEF Progress, SameMetadata
  <2>4. QED
    BY <1>4, <2>2, <2>3, ConfigMapWork
<1>5. QED
  BY <1>3, <1>4

LEMMA ProgressNext ==
    ASSUME ~Meddling, TypeOK, WorkExists, FreshIsCurrent, CopiesInOrder, OwnersInOrder,
           Progress, [Next]_vars
    PROVE  Progress'
<1>1. CASE FetchNothing \/ HandleDeletion \/ AddFinalizer
  BY <1>1, ProgressKept DEF FetchNothing, HandleDeletion, AddFinalizer, workerVars
<1>2. CASE WriteStatus
  BY <1>2, WriteStatusEffect, ProgressKept
<1>3. ASSUME NEW k \in ConfigMapKinds, ReconcileConfigMap(k)
      PROVE  Progress'
  BY <1>3, ProgressConfigMap
<1>4. CASE Environment \/ UNCHANGED vars
  <2>1. UNCHANGED <<pc, work>> \/ pc' = "idle"
    BY <1>4 DEF Environment, UserCreate, UserEdit, UserDelete, UserStripFinalizer,
       UserDeleteConfigMap, CollectConfigMap, SyncNetwork, SyncConfigMap, TimerFires,
       ExpireAddresses, L1Changes, Restart, vars, workerVars
  <2>2. QED
    BY <2>1, ProgressKept
<1>5. QED
  BY <1>1, <1>2, <1>3, <1>4, ProgressValidate, ProgressTestL1, ProgressDiscover
     DEF Next, Reconcile

-----------------------------------------------------------------------------
\* ReadyIsCompleted.

\* A reconcile that finds the object observed at its current generation works
\* on that generation.
LEMMA WorkIsCurrent ==
    ASSUME TypeOK, WorkExists, CopiesInOrder, pc # "idle",
           net.status.observed = net.generation
    PROVE  work.generation = net.generation /\ work.spec = net.spec
<1>1. Exists(net) /\ netCache.uid = net.uid /\ Exists(work) /\ Exists(netCache)
  BY DEF CopiesInOrder, WorkIsPast, Exists
<1>2. work.generation \in Nat /\ net.generation \in Nat /\ netCache.generation \in Nat
  BY <1>1, ExistingIsNetwork, NetworkFields DEF TypeOK
<1>3. /\ net.status.observed <= work.generation
      /\ work.generation <= netCache.generation
      /\ netCache.generation <= net.generation
  BY <1>1 DEF CopiesInOrder, WorkIsPast, CacheIsPast, Precedes
<1>4. work.generation = netCache.generation /\ netCache.generation = net.generation
  BY <1>2, <1>3
<1>5. QED
  BY <1>1, <1>4 DEF CopiesInOrder, WorkIsPast, CacheIsPast, Precedes

\* Steps that leave the object as it is, or change only its finalizer.
LEMMA ReadyKept ==
    ASSUME ~Meddling, TypeOK, WorkExists, CopiesInOrder, OwnersInOrder, [Next]_vars,
           ReadyIsCompleted,
           net'.uid = net.uid, net'.generation = net.generation, net'.spec = net.spec,
           net'.status = net.status
    PROVE  ReadyIsCompleted'
<1> SUFFICES ASSUME ReadyAtCurrentGeneration'
             PROVE  Completed(cms', net')
  BY DEF ReadyIsCompleted
<1>1. ReadyAtCurrentGeneration
  BY DEF ReadyAtCurrentGeneration, Exists
<1>2. Completed(cms, net) /\ Exists(net)
  BY <1>1 DEF ReadyIsCompleted, ReadyAtCurrentGeneration
<1>3. \A k \in ConfigMapKinds : ReconcileConfigMap(k) => net.spec = work.spec
  BY <1>1, WorkIsCurrent DEF ReconcileConfigMap, ConfigMapKinds, ReadyAtCurrentGeneration
<1>4. \A j \in ConfigMapKinds : Generated(cms', j, net)
  BY <1>2, <1>3, GeneratedKept DEF Completed
<1>5. Completed(cms', net)
  BY <1>2, <1>4 DEF Completed
<1>6. QED
  BY <1>5, CompletedSame

\* The write of a status makes the object Ready at its generation only if that
\* is the generation the reconcile has completed.
LEMMA ReadyWriteStatus ==
    ASSUME ~Meddling, TypeOK, WorkExists, FreshIsCurrent, CopiesInOrder, OwnersInOrder,
           Progress, ReadyIsCompleted, WriteStatus
    PROVE  ReadyIsCompleted'
<1>1. CASE UNCHANGED net
  BY <1>1, ReadyKept DEF Next, Reconcile
<1>2. CASE /\ netCache = net
           /\ net \in Network /\ work \in Network
           /\ SameMetadata(net', net)
           /\ net'.status = work.status
  <2> SUFFICES ASSUME ReadyAtCurrentGeneration'
               PROVE  Completed(cms', net')
    BY DEF ReadyIsCompleted
  <2>1. /\ pc = "status" /\ work.status.phase = "Ready"
        /\ work.status.observed = net.generation
    BY <1>2, WriteStatusEffect DEF ReadyAtCurrentGeneration, SameMetadata
  <2>2. work.generation = net.generation /\ Completed(cms, work)
    BY <2>1 DEF Progress
  <2>3. work.spec = net.spec /\ work.uid = net.uid
    BY <1>2, <2>1, <2>2 DEF CopiesInOrder, WorkIsPast
  <2>4. Completed(cms', work)
    BY <2>2, WriteStatusEffect
  <2>5. QED
    BY <1>2, <2>3, <2>4, CompletedSame DEF SameMetadata
<1>3. QED
  BY <1>1, <1>2, WriteStatusEffect

\* What users do to the object makes it not Ready at its generation.
LEMMA ReadyUsers ==
    ASSUME TypeOK, CopiesInOrder,
           (\E s \in Specs : UserCreate(s) \/ UserEdit(s)) \/ UserDelete
    PROVE  ReadyIsCompleted'
<1>1. ASSUME NEW s \in Specs, UserCreate(s)
      PROVE  ReadyIsCompleted'
  BY <1>1 DEF UserCreate, StoreNetwork, EmptyStatus, ReadyIsCompleted,
     ReadyAtCurrentGeneration
<1>2. ASSUME Exists(net), net'.generation = net.generation + 1, net'.status = net.status
      PROVE  ReadyIsCompleted'
  <2>1. net.generation \in Nat /\ net.status.observed \in Nat
    BY <1>2, ExistingIsNetwork, NetworkFields DEF TypeOK
  <2>2. net'.status.observed # net'.generation
    BY <1>2, <2>1, ObservedIsPast
  <2>3. QED
    BY <2>2 DEF ReadyIsCompleted, ReadyAtCurrentGeneration
<1>3. ASSUME NEW s \in Specs, UserEdit(s)
      PROVE  ReadyIsCompleted'
  <2>1. net \in Network /\ Exists(net) /\ net' = [net EXCEPT !.spec = s, !.generation = @ + 1]
    BY <1>3, ExistingIsNetwork DEF UserEdit, StoreNetwork, TypeOK
  <2>2. net'.generation = net.generation + 1 /\ net'.status = net.status
    BY <2>1 DEF Network
  <2>3. QED
    BY <1>2, <2>1, <2>2
<1>4. CASE UserDelete
  <2>1. net \in Network /\ Exists(net)
    BY <1>4, ExistingIsNetwork DEF UserDelete, TypeOK
  <2>2. CASE net' = [net EXCEPT !.deleting = TRUE, !.generation = @ + 1]
    <3>1. net'.generation = net.generation + 1 /\ net'.status = net.status
      BY <2>1, <2>2 DEF Network
    <3>2. QED
      BY <1>2, <2>1, <3>1
  <2>3. CASE net' = NoNetwork
    BY <2>3 DEF ReadyIsCompleted, ReadyAtCurrentGeneration, Exists, NoNetwork
  <2>4. QED
    BY <1>4, <2>2, <2>3 DEF UserDelete, StoreNetwork
<1>5. QED
  BY <1>1, <1>3, <1>4

LEMMA ReadyNext ==
    ASSUME ~Meddling, TypeOK, WorkExists, FreshIsCurrent, CopiesInOrder, OwnersInOrder,
           Progress, ReadyIsCompleted, [Next]_vars
    PROVE  ReadyIsCompleted'
<1>1. CASE UNCHANGED net
  BY <1>1, ReadyKept
<1>2. CASE HandleDeletion
  BY <1>1, <1>2 DEF HandleDeletion, StoreNetwork, ReadyIsCompleted,
     ReadyAtCurrentGeneration, Exists, NoNetwork
<1>3. CASE AddFinalizer
  <2>1. UNCHANGED net \/ (netCache \in Network /\ netCache = net
                           /\ net' = [netCache EXCEPT !.finalizer = TRUE])
    BY <1>3, AddFinalizerEffect
  <2>2. CASE netCache \in Network /\ netCache = net
             /\ net' = [netCache EXCEPT !.finalizer = TRUE]
    <3>1. /\ net'.uid = net.uid /\ net'.generation = net.generation
          /\ net'.spec = net.spec /\ net'.status = net.status
      BY <2>2 DEF Network
    <3>2. QED
      BY <3>1, ReadyKept
  <2>3. QED
    BY <1>1, <2>1, <2>2
<1>4. CASE WriteStatus
  BY <1>4, ReadyWriteStatus
<1>5. CASE (\E s \in Specs : UserCreate(s) \/ UserEdit(s)) \/ UserDelete
  BY <1>5, ReadyUsers
<1>6. ~UserStripFinalizer
  BY DEF UserStripFinalizer
<1>7. \/ UNCHANGED net \/ HandleDeletion \/ AddFinalizer \/ WriteStatus
      \/ (\E s \in Specs : UserCreate(s) \/ UserEdit(s)) \/ UserDelete
  BY <1>6 DEF Next, Reconcile, Environment, FetchNothing, Validate, TestL1Connectivity,
     DiscoverContractAddresses, ReconcileConfigMap, UserDeleteConfigMap, CollectConfigMap,
     SyncNetwork, SyncConfigMap, TimerFires, ExpireAddresses, L1Changes, Restart, vars, apiVars
<1>8. QED
  BY <1>1, <1>2, <1>3, <1>4, <1>5, <1>7

-----------------------------------------------------------------------------
\* The invariant, and the safety properties.

LEMMA InvInit == Init => Inv
<1> SUFFICES ASSUME Init PROVE Inv
  OBVIOUS
<1>1. TypeOK /\ WorkExists
  BY TypeInit
<1>2. FreshIsCurrent
  BY FreshInit
<1>3. CopiesInOrder
  BY CopiesInit
<1>4. Established
  BY DEF Init, Established, OwnersInOrder, Progress, ReadyIsCompleted,
     ReadyAtCurrentGeneration, Exists, NoNetwork, NoConfigMap
<1>5. QED
  BY <1>1, <1>2, <1>3, <1>4 DEF Inv

LEMMA InvNext == Inv /\ [Next]_vars => Inv'
<1> SUFFICES ASSUME Inv, [Next]_vars PROVE Inv'
  OBVIOUS
<1>1. TypeOK /\ WorkExists /\ FreshIsCurrent
  BY DEF Inv
<1>2. TypeOK' /\ WorkExists'
  BY <1>1, TypeNext
<1>3. FreshIsCurrent'
  BY <1>1, FreshNext
<1>4. ASSUME ~Meddling
      PROVE  CopiesInOrder' /\ Established'
  <2>1. CopiesInOrder /\ Established
    BY <1>4 DEF Inv
  <2>2. CopiesInOrder'
    BY <1>1, <1>4, <2>1, CopiesNext
  <2>3. OwnersInOrder' /\ Progress' /\ ReadyIsCompleted'
    BY <1>1, <1>4, <2>1, OwnersNext, ProgressNext, ReadyNext DEF Established
  <2>4. QED
    BY <2>2, <2>3 DEF Established
<1>5. QED
  BY <1>2, <1>3, <1>4 DEF Inv

\* Inv is an invariant of the network controller.
THEOREM Invariance == Spec => []Inv
  BY InvInit, InvNext, PTL DEF Spec

\* A reconcile works on the object that exists, of the same creation and not
\* newer, although it read it from a cache that may lag by any amount: the
\* finalizer keeps the object, and there is one reconcile at a time.
THEOREM LiveObject == Spec => []ReconcileHoldsLiveObject
<1>1. Inv => ReconcileHoldsLiveObject
  <2> SUFFICES ASSUME Inv, ~Meddling, pc # "idle"
               PROVE  /\ Exists(net)
                      /\ work.uid = net.uid
                      /\ net.finalizer
                      /\ work.generation <= net.generation
                      /\ work.generation = net.generation => work.spec = net.spec
    BY DEF ReconcileHoldsLiveObject
  <2>1. TypeOK /\ WorkExists /\ WorkIsPast /\ CacheIsPast
    BY DEF Inv, CopiesInOrder
  <2>2. Exists(net) /\ work.uid = net.uid /\ net.finalizer /\ netCache.uid = net.uid
    BY <2>1 DEF WorkIsPast
  <2>3. Precedes(netCache, net)
    BY <2>1, <2>2 DEF CacheIsPast
  <2>4. /\ work.generation \in Nat /\ net.generation \in Nat
        /\ netCache.generation \in Nat
    BY <2>1, <2>2, ExistingIsNetwork, NetworkFields DEF TypeOK, WorkExists, Exists
  <2>5. /\ work.generation <= netCache.generation
        /\ work.generation = netCache.generation => work.spec = netCache.spec
    BY <2>1 DEF WorkIsPast
  <2>6. QED
    BY <2>2, <2>3, <2>4, <2>5 DEF Precedes
<1>2. QED
  BY <1>1, Invariance, PTL

\* The status never claims a generation the object has not had.
THEOREM ObservedWithin == Spec => []ObservedWithinGeneration
<1>1. Inv => ObservedWithinGeneration
  BY ObservedIsPast DEF Inv, ObservedWithinGeneration
<1>2. QED
  BY <1>1, Invariance, PTL

\* Ready at the current generation is earned by that generation.
THEOREM ReadyEarned == Spec => []ReadyIsEarned
<1>1. Inv => ReadyIsEarned
  <2> SUFFICES ASSUME Inv, ~Meddling, ReadyAtCurrentGeneration
               PROVE  ReadyIsEarned
    BY DEF ReadyIsEarned
  <2>1. Completed(cms, net)
    BY DEF Inv, Established, ReadyIsCompleted
  <2>2. Exists(net) /\ net \in Network /\ net.status.phase = "Ready"
    BY ExistingIsNetwork DEF Inv, TypeOK, ReadyAtCurrentGeneration
  <2>3. QED
    BY <2>1 DEF Completed, Checked, Connected, Discovered, Generated, ConditionTypes,
       ReadyIsEarned
<1>2. QED
  BY <1>1, Invariance, PTL

\* No step of the controller changes what users own, brings back an object that
\* is gone, or lets one go that they did not delete, although it writes whole
\* objects that it read earlier.  This holds whatever users remove by hand.
THEOREM UsersOwnTheSpec == Spec => SpecBelongsToUsers
<1> DEFINE Kept == Exists(net) /\ Exists(net') /\ UserFields(net') = UserFields(net)
           Gone == ~Exists(net') /\ (Exists(net) => net.deleting)
<1>1. ASSUME Inv, Reconcile
      PROVE  Kept \/ Gone
  <2>1. TypeOK /\ WorkExists /\ FreshIsCurrent
    BY <1>1 DEF Inv
  <2>2. CASE UNCHANGED net
    BY <2>2 DEF UserFields
  <2>3. CASE HandleDeletion
    <3>1. UNCHANGED net \/ (net' = NoNetwork /\ netFresh /\ netCache.deleting)
      BY <2>1, <2>3, DeletionEffect
    <3>2. QED
      BY <2>1, <2>2, <3>1 DEF FreshIsCurrent, Exists, NoNetwork
  <2>4. CASE AddFinalizer
    <3>1. CASE /\ netCache \in Network /\ netCache = net
               /\ net' = [netCache EXCEPT !.finalizer = TRUE]
      BY <3>1 DEF Network, UserFields, Exists
    <3>2. QED
      BY <2>1, <2>2, <2>4, <3>1, AddFinalizerEffect
  <2>5. CASE WriteStatus
    BY <2>1, <2>2, <2>5, WriteStatusEffect DEF SameMetadata, UserFields, Exists
  <2>6. QED
    BY <1>1, <2>2, <2>3, <2>4, <2>5 DEF Reconcile, FetchNothing, Validate,
       TestL1Connectivity, DiscoverContractAddresses, ReconcileConfigMap, apiVars
<1>2. Inv /\ [Next]_vars => [Reconcile => Kept \/ Gone]_vars
  BY <1>1
<1>3. QED
  BY <1>2, Invariance, PTL DEF Spec, SpecBelongsToUsers

-----------------------------------------------------------------------------
\* What a client sees of an object.

\* The view with these fields, as the set of it alone.
Views(u, g, s, d, p, n) ==
    [uid: {u}, generation: {g}, spec: {s}, deleting: {d}, phase: {p}, observed: {n}]

LEMMA ViewIsOne ==
    ASSUME NEW u, NEW g, NEW s, NEW d, NEW p, NEW n,
           NEW v \in Views(u, g, s, d, p, n), NEW w \in Views(u, g, s, d, p, n)
    PROVE  v = w
  BY DEF Views

LEMMA ViewFields ==
    ASSUME NEW u, NEW g, NEW s, NEW d, NEW p, NEW n, NEW v \in Views(u, g, s, d, p, n)
    PROVE  v.uid = u /\ v.generation = g /\ v.spec = s /\ v.deleting = d /\ v.phase = p
  BY DEF Views

\* The changes of a view.
Edited(v, t) == [v EXCEPT !.spec = t, !.generation = @ + 1]
Marked(v) == [v EXCEPT !.deleting = TRUE, !.generation = @ + 1]
Reported(v, q, m) == [v EXCEPT !.phase = q, !.observed = m]

LEMMA ViewEdit ==
    ASSUME NEW u, NEW g, NEW s, NEW d, NEW p, NEW n, NEW v \in Views(u, g, s, d, p, n),
           NEW t, NEW w \in Views(u, g + 1, t, d, p, n)
    PROVE  w = Edited(v, t)
<1>1. Edited(v, t) \in Views(u, g + 1, t, d, p, n)
  BY DEF Views, Edited, Marked, Reported
<1>2. QED
  BY <1>1, ViewIsOne

LEMMA ViewDeletion ==
    ASSUME NEW u, NEW g, NEW s, NEW d, NEW p, NEW n, NEW v \in Views(u, g, s, d, p, n),
           NEW w \in Views(u, g + 1, s, TRUE, p, n)
    PROVE  w = Marked(v)
<1>1. Marked(v) \in Views(u, g + 1, s, TRUE, p, n)
  BY DEF Views, Edited, Marked, Reported
<1>2. QED
  BY <1>1, ViewIsOne

LEMMA ViewReport ==
    ASSUME NEW u, NEW g, NEW s, NEW d, NEW p, NEW n, NEW v \in Views(u, g, s, d, p, n),
           NEW q, NEW m, NEW w \in Views(u, g, s, d, q, m)
    PROVE  w = Reported(v, q, m)
<1>1. Reported(v, q, m) \in Views(u, g, s, d, q, m)
  BY DEF Views, Edited, Marked, Reported
<1>2. QED
  BY <1>1, ViewIsOne

LEMMA ClientViewFields ==
    ASSUME NEW o \in Network
    PROVE  /\ Exists(o)
           /\ ClientView(o) \in Views(o.uid, o.generation, o.spec, o.deleting,
                                     o.status.phase, o.status.observed)
  BY NetworkExists DEF ClientView, Views

LEMMA ClientViewNothing == ClientView(NoNetwork) = Lifecycle!Nothing
  BY DEF ClientView, Exists, NoNetwork, Lifecycle!Nothing

-----------------------------------------------------------------------------
\* One lemma for each kind of step that a client can see.

LEMMA InitImplements == Init => Lifecycle!Init
  BY ClientViewNothing DEF Init, Lifecycle!Init

LEMMA CreateImplements ==
    ASSUME TypeOK, NEW s \in Specs, UserCreate(s)
    PROVE  Lifecycle!Create
<1> DEFINE o == [uid |-> lastUid + 1, generation |-> 1, spec |-> s,
                 finalizer |-> FALSE, deleting |-> FALSE, status |-> EmptyStatus]
<1>1. net = NoNetwork /\ net' = o
  BY NetworkExists DEF UserCreate, StoreNetwork, TypeOK
<1>2. ClientView(net).uid = 0
  BY <1>1, ClientViewNothing DEF Lifecycle!Nothing
<1>3. o \in Network /\ o.uid \in 1 .. MaxUid
  BY CreatedType, CountersType, LastUidIsNat DEF UserCreate, TypeOK
<1>4. ClientView(net') = [uid |-> o.uid, generation |-> 1, spec |-> s, deleting |-> FALSE,
                          phase |-> "Unset", observed |-> 0]
  BY <1>1, <1>3, NetworkExists DEF ClientView, EmptyStatus
<1>5. QED
  BY <1>2, <1>3, <1>4 DEF Lifecycle!Create

LEMMA EditImplements ==
    ASSUME TypeOK, NEW s \in Specs, UserEdit(s)
    PROVE  Lifecycle!Edit
<1>1. net \in Network /\ net' = [net EXCEPT !.spec = s, !.generation = @ + 1]
  BY ExistingIsNetwork DEF UserEdit, StoreNetwork, TypeOK
<1>2. net' \in Network
  BY <1>1, MetadataType
<1>3. /\ net'.uid = net.uid /\ net'.generation = net.generation + 1 /\ net'.spec = s
      /\ net'.deleting = net.deleting /\ net'.status = net.status
  BY <1>1 DEF Network
<1>4. ClientView(net') = Edited(ClientView(net), s)
  <2>1. ClientView(net) \in Views(net.uid, net.generation, net.spec, net.deleting,
                                 net.status.phase, net.status.observed)
    BY <1>1, ClientViewFields
  <2>2. ClientView(net') \in Views(net.uid, net.generation + 1, s, net.deleting,
                               net.status.phase, net.status.observed)
    BY <1>2, <1>3, ClientViewFields
  <2>3. QED
    BY <2>1, <2>2, ViewEdit
<1>5. ClientView(net).uid # 0 /\ ClientView(net).spec # s
  BY <1>1, ClientViewFields, ViewFields DEF Exists, UserEdit
<1>6. QED
  BY <1>4, <1>5 DEF Lifecycle!Edit, Edited

\* An object without the finalizer goes at once, and was never reported on.
LEMMA DeleteImplements ==
    ASSUME TypeOK, CopiesInOrder, UserDelete
    PROVE  Lifecycle!RequestDeletion \/ Lifecycle!Vanish
<1>1. net \in Network /\ ~net.deleting
  BY ExistingIsNetwork DEF UserDelete, TypeOK
<1>2. /\ ClientView(net).uid # 0 /\ ~ClientView(net).deleting
      /\ ClientView(net).phase = net.status.phase
  BY <1>1, ClientViewFields, ViewFields DEF Exists
<1>3. CASE net' = [net EXCEPT !.deleting = TRUE, !.generation = @ + 1]
  <2>1. net' \in Network
    BY <1>1, <1>3, NetworkFields, MetadataType
  <2>2. /\ net'.uid = net.uid /\ net'.generation = net.generation + 1 /\ net'.spec = net.spec
        /\ net'.deleting = TRUE /\ net'.status = net.status
    BY <1>1, <1>3 DEF Network
  <2>3. ClientView(net') = Marked(ClientView(net))
    <3>1. ClientView(net) \in Views(net.uid, net.generation, net.spec, net.deleting,
                                   net.status.phase, net.status.observed)
      BY <1>1, ClientViewFields
    <3>2. ClientView(net') \in Views(net.uid, net.generation + 1, net.spec, TRUE,
                                 net.status.phase, net.status.observed)
      BY <2>1, <2>2, ClientViewFields
    <3>3. QED
      BY <3>1, <3>2, ViewDeletion
  <2>4. QED
    BY <1>2, <2>3 DEF Lifecycle!RequestDeletion, Marked
<1>4. CASE net' = NoNetwork /\ ~net.finalizer
  <2>1. net.status.phase = "Unset"
    BY <1>1, <1>4, NetworkExists DEF CopiesInOrder, ReportedIsFinalized
  <2>2. ClientView(net') = Lifecycle!Nothing
    BY <1>4, ClientViewNothing
  <2>3. QED
    BY <1>2, <2>1, <2>2 DEF Lifecycle!Vanish
<1>5. QED
  BY <1>3, <1>4 DEF UserDelete, StoreNetwork

\* The finalizer is removed only from the current object, so only from one
\* that is marked for deletion.
LEMMA HandleDeletionImplements ==
    ASSUME TypeOK, FreshIsCurrent, HandleDeletion
    PROVE  Lifecycle!Vanish \/ UNCHANGED net
<1>1. PICK applied \in BOOLEAN, error \in BOOLEAN :
        /\ Call(netFresh, applied, error)
        /\ IF applied THEN StoreNetwork(NoNetwork) ELSE UNCHANGED <<net, netFresh>>
  BY DEF HandleDeletion
<1>2. CASE applied
  <2>1. netFresh
    BY <1>1, <1>2, AppliedIsOk DEF TypeOK
  <2>2. net \in Network /\ net.deleting
    BY <2>1, ExistingIsNetwork DEF HandleDeletion, FreshIsCurrent, TypeOK
  <2>3. net' = NoNetwork
    BY <1>1, <1>2, Zenon DEF StoreNetwork
  <2>4. ClientView(net).uid # 0 /\ ClientView(net).deleting
    BY <2>2, ClientViewFields, ViewFields DEF Exists
  <2>5. ClientView(net') = Lifecycle!Nothing
    BY <2>3, ClientViewNothing
  <2>6. QED
    BY <2>4, <2>5 DEF Lifecycle!Vanish
<1>3. CASE ~applied
  BY <1>1, <1>3
<1>4. QED
  BY <1>2, <1>3

LEMMA AddFinalizerImplements ==
    ASSUME TypeOK, FreshIsCurrent, AddFinalizer
    PROVE  ClientView(net') = ClientView(net)
<1>1. CASE /\ netCache \in Network /\ netCache = net
           /\ net' = [netCache EXCEPT !.finalizer = TRUE]
  <2>1. net \in Network /\ net' \in Network
    BY <1>1, NetworkFields, MetadataType
  <2>2. /\ net'.uid = net.uid /\ net'.generation = net.generation /\ net'.spec = net.spec
        /\ net'.deleting = net.deleting /\ net'.status = net.status
    BY <1>1 DEF Network
  <2>3. QED
    BY <2>1, <2>2, ClientViewFields, ViewIsOne
<1>2. QED
  BY <1>1, AddFinalizerEffect

\* A report is about a generation the object has had, and Ready at the current
\* one is what the reconcile has established.
LEMMA WriteStatusImplements ==
    ASSUME TypeOK, WorkExists, FreshIsCurrent, CopiesInOrder, Progress, WriteStatus
    PROVE  Lifecycle!Report \/ UNCHANGED net
<1> SUFFICES ASSUME net' # net
             PROVE  Lifecycle!Report
  OBVIOUS
<1>1. /\ pc = "status" /\ netCache = net
      /\ net \in Network /\ work \in Network /\ net' \in Network
      /\ SameMetadata(net', net)
      /\ net'.status = work.status
  BY WriteStatusEffect
<1> DEFINE p == work.status.phase
           g == work.status.observed
<1>2. p \in {"Error", "Ready"}
  BY <1>1 DEF Progress, Network, Status
<1>3. g \in 0 .. net.generation
  <2>1. g \in Nat /\ work.generation \in Nat /\ net.generation \in Nat
    BY <1>1, NetworkFields
  <2>2. g <= work.generation /\ work.generation <= net.generation
    BY <1>1 DEF CopiesInOrder, WorkIsPast
  <2>3. QED
    BY <2>1, <2>2
<1>4. p = "Ready" /\ g = net.generation => ValidConfiguration(net.spec)
  <2> SUFFICES ASSUME p = "Ready", g = net.generation
               PROVE  ValidConfiguration(net.spec)
    OBVIOUS
  <2>1. work.generation = net.generation /\ Checked(work)
    BY <1>1 DEF Progress, Completed
  <2>2. work.spec = net.spec
    BY <1>1, <2>1 DEF CopiesInOrder, WorkIsPast
  <2>3. QED
    BY <2>1, <2>2 DEF Checked
<1>5. p = "Ready" => g # 0
  BY <1>1 DEF Progress, Network
<1>6. ClientView(net') = Reported(ClientView(net), p, g)
  <2>1. ClientView(net) \in Views(net.uid, net.generation, net.spec, net.deleting,
                                 net.status.phase, net.status.observed)
    BY <1>1, ClientViewFields
  <2>2. ClientView(net') \in Views(net.uid, net.generation, net.spec, net.deleting, p, g)
    BY <1>1, ClientViewFields DEF SameMetadata
  <2>3. QED
    BY <2>1, <2>2, ViewReport
<1>7. /\ ClientView(net).uid # 0 /\ ClientView(net).spec = net.spec
      /\ ClientView(net).generation = net.generation
  BY <1>1, ClientViewFields, ViewFields DEF Exists
<1> HIDE DEF p, g
<1>8. QED
  BY <1>2, <1>3, <1>4, <1>5, <1>6, <1>7 DEF Lifecycle!Report, Reported

-----------------------------------------------------------------------------
\* Unless users meddle, the life of the object as the controller runs is the
\* one clients may rely on, whatever is read late, lost, retried or restarted.
THEOREM Implementation == ~Meddling => (Spec => ImplementsLifecycle)
<1> SUFFICES ASSUME ~Meddling
             PROVE  Spec => ImplementsLifecycle
  OBVIOUS
<1>1. ASSUME Inv, [Next]_vars
      PROVE  Lifecycle!Next \/ UNCHANGED ClientView(net)
  <2>1. /\ TypeOK /\ WorkExists /\ FreshIsCurrent /\ CopiesInOrder /\ Progress
    BY <1>1 DEF Inv, Established
  <2>2. CASE UNCHANGED net
    BY <2>2
  <2>3. CASE HandleDeletion
    BY <2>1, <2>2, <2>3, HandleDeletionImplements DEF Lifecycle!Next
  <2>4. CASE AddFinalizer
    BY <2>1, <2>4, AddFinalizerImplements
  <2>5. CASE WriteStatus
    BY <2>1, <2>2, <2>5, WriteStatusImplements DEF Lifecycle!Next
  <2>6. ASSUME NEW s \in Specs, UserCreate(s) \/ UserEdit(s)
        PROVE  Lifecycle!Next
    BY <2>1, <2>6, CreateImplements, EditImplements DEF Lifecycle!Next
  <2>7. CASE UserDelete
    BY <2>1, <2>7, DeleteImplements DEF Lifecycle!Next
  <2>8. ~UserStripFinalizer
    BY DEF UserStripFinalizer
  <2>9. \/ UNCHANGED net \/ HandleDeletion \/ AddFinalizer \/ WriteStatus
        \/ (\E s \in Specs : UserCreate(s) \/ UserEdit(s)) \/ UserDelete
    BY <1>1, <2>8 DEF Next, Reconcile, Environment, FetchNothing, Validate,
       TestL1Connectivity, DiscoverContractAddresses, ReconcileConfigMap,
       UserDeleteConfigMap, CollectConfigMap, SyncNetwork, SyncConfigMap, TimerFires,
       ExpireAddresses, L1Changes, Restart, vars, apiVars
  <2>10. QED
    BY <2>2, <2>3, <2>4, <2>5, <2>6, <2>7, <2>9
<1>2. Inv /\ [Next]_vars => [Lifecycle!Next]_(ClientView(net))
  BY <1>1
<1>3. QED
  BY <1>2, InitImplements, Invariance, PTL DEF Spec, ImplementsLifecycle, Lifecycle!Spec

-----------------------------------------------------------------------------
\* What a reconcile does to the answers of the discovery service.
LEMMA DiscoverImplements ==
    ASSUME TypeOK, WorkExists, DiscoverContractAddresses
    PROVE  \/ UNCHANGED addrCache
           \/ \E s \in Specs, dial \in BOOLEAN : Service!Resolve(s, dial)
<1>1. work.spec \in Specs
  BY ExistingIsNetwork DEF DiscoverContractAddresses, TypeOK, WorkExists, Network
<1>2. PICK dial \in BOOLEAN :
        addrCache' = [addrCache EXCEPT ![CacheKey(work.spec)] =
                        Answer(addrCache, work.spec, dial)]
  BY DEF DiscoverContractAddresses, TypeOK
<1>3. CacheKey(work.spec) \in CacheKeys /\ addrCache \in [CacheKeys -> Addresses]
  BY <1>1 DEF CacheKeys, TypeOK
<1>4. CASE addrCache[CacheKey(work.spec)] # NoAddresses
  BY <1>2, <1>3, <1>4, HitKeeps
<1>5. CASE addrCache[CacheKey(work.spec)] = NoAddresses
  BY <1>1, <1>2, <1>5 DEF Answer, Service!Resolve
<1>6. QED
  BY <1>4, <1>5

\* The controller relies on nothing of the discovery service but what
\* AddressCache promises (optimismnetwork_controller.go:251-263); Discovery
\* is proved to keep that promise.
THEOREM CacheContract == Spec => UsesAddressCache
<1>1. Service!Keys = CacheKeys
  BY DEF Service!Keys, CacheKeys
<1>2. Init => Service!Init
  BY <1>1 DEF Init, Service!Init
<1>3. ASSUME Inv, [Next]_vars
      PROVE  [Service!Next]_addrCache
  <2>1. TypeOK /\ WorkExists
    BY <1>3 DEF Inv, Established
  <2>2. CASE DiscoverContractAddresses
    BY <2>1, <2>2, DiscoverImplements DEF Service!Next
  <2>3. ASSUME NEW key \in CacheKeys, ExpireAddresses(key)
        PROVE  Service!Next
    <3>1. Service!Forget({key})
      BY <1>1, <2>1, <2>3 DEF ExpireAddresses, Service!Forget, TypeOK
    <3>2. QED
      BY <1>1, <3>1 DEF Service!Next
  <2>4. CASE Restart
    <3>1. Service!Forget(CacheKeys)
      BY <1>1, <2>4 DEF Restart, Service!Forget
    <3>2. QED
      BY <1>1, <3>1 DEF Service!Next
  <2>5. \/ UNCHANGED addrCache \/ DiscoverContractAddresses \/ Restart
        \/ \E key \in CacheKeys : ExpireAddresses(key)
    BY <1>3 DEF Next, Reconcile, Environment, FetchNothing, HandleDeletion, AddFinalizer,
       Validate, TestL1Connectivity, ReconcileConfigMap, WriteStatus, UserCreate, UserEdit,
       UserDelete, UserStripFinalizer, UserDeleteConfigMap, CollectConfigMap, SyncNetwork,
       SyncConfigMap, TimerFires, L1Changes, vars
  <2>6. QED
    BY <2>2, <2>3, <2>4, <2>5
<1>4. QED
  BY <1>2, <1>3, Invariance, PTL DEF Spec, UsesAddressCache, Service!Spec
=============================================================================
