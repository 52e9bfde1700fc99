---------------------------- MODULE NetworkProofs ----------------------------
(***************************************************************************)
(* Proofs about NetworkController, for every value of its constants: its   *)
(* types, what each step does to the objects and the working copies, and   *)
(* the parts of Inv (module NetworkInvariants) about the working copies.   *)
(***************************************************************************)
EXTENDS NetworkInvariants, DiscoveryRulesProofs, TLAPS

-----------------------------------------------------------------------------
\* Lemmas about the operators on objects.

LEMMA ExistingIsNetwork ==
    ASSUME NEW o \in Network \cup {NoNetwork}, Exists(o)
    PROVE  o \in Network
  BY DEF NoNetwork, Exists

LEMMA NetworkExists ==
    ASSUME NEW o \in Network
    PROVE  Exists(o)
  BY DEF Network, Exists

LEMMA StatusType ==
    ASSUME NEW st \in Status, NEW ty \in ConditionTypes, NEW v \in {"Unset", "True", "False"}
    PROVE  [st EXCEPT !.conditions[ty] = v] \in Status
  BY DEF Status

\* SetCondition changes one condition and nothing else.
LEMMA SetConditionType ==
    ASSUME NEW o \in Network, NEW ty \in ConditionTypes, NEW v \in {"Unset", "True", "False"}
    PROVE  SetCondition(o, ty, v) \in Network
  BY DEF SetCondition, Network, Status

LEMMA SetPhaseType ==
    ASSUME NEW o \in Network, NEW p \in {"Unset", "Error", "Ready"}
    PROVE  SetPhase(o, p) \in Network
  BY DEF SetPhase, Network, Status

LEMMA SpecFields ==
    ASSUME NEW s \in Specs
    PROVE  /\ s \in NetworkSpec
           /\ s.contracts \in ContractConfig
  BY SpecsAssumption DEF NetworkSpec

LEMMA GeneratedDataType ==
    ASSUME NEW s \in Specs, NEW a \in Addresses, NEW k \in ConfigMapKinds
    PROVE  GeneratedData(k, s, a) \in RollupData \cup GenesisData
  BY SpecFields DEF GeneratedData, RollupData, GenesisData, Addresses, NetworkSpec

\* The other modifications of an object that occur.
LEMMA NewStatusType ==
    ASSUME NEW o \in Network, NEW st \in Status
    PROVE  [o EXCEPT !.status = st] \in Network
  BY DEF Network

LEMMA NewContractsType ==
    ASSUME NEW o \in Network, NEW a \in Addresses
    PROVE  [o EXCEPT !.status.contracts = a] \in Network
  BY DEF Network, Status

LEMMA NewObservedType ==
    ASSUME NEW o \in Network
    PROVE  [o EXCEPT !.status.observed = o.generation] \in Network
  BY DEF Network, Status

LEMMA NewGenerationType ==
    ASSUME NEW o \in Network
    PROVE  [o EXCEPT !.generation = o.generation + 1] \in Network
<1>1. o.generation + 1 \in Nat \ {0}
  BY DEF Network
<1>2. QED
  BY <1>1 DEF Network

LEMMA MetadataType ==
    ASSUME NEW o \in Network, NEW s \in Specs, NEW b \in BOOLEAN
    PROVE  /\ [o EXCEPT !.finalizer = b] \in Network
           /\ [o EXCEPT !.deleting = TRUE, !.generation = @ + 1] \in Network
           /\ [o EXCEPT !.spec = s, !.generation = @ + 1] \in Network
<1>1. [o EXCEPT !.finalizer = b] \in Network
  BY DEF Network
<1>2. [o EXCEPT !.deleting = TRUE, !.generation = @ + 1] \in Network
  <2>1. [o EXCEPT !.deleting = TRUE] \in Network
    BY DEF Network
  <2>2. [o EXCEPT !.deleting = TRUE].generation = o.generation
    BY DEF Network
  <2>3. [o EXCEPT !.deleting = TRUE, !.generation = @ + 1]
          = [[o EXCEPT !.deleting = TRUE] EXCEPT !.generation = o.generation + 1]
    BY DEF Network
  <2>4. QED
    BY <2>1, <2>2, <2>3, NewGenerationType
<1>3. [o EXCEPT !.spec = s, !.generation = @ + 1] \in Network
  <2>1. [o EXCEPT !.spec = s] \in Network
    BY DEF Network
  <2>2. [o EXCEPT !.spec = s].generation = o.generation
    BY DEF Network
  <2>3. [o EXCEPT !.spec = s, !.generation = @ + 1]
          = [[o EXCEPT !.spec = s] EXCEPT !.generation = o.generation + 1]
    BY DEF Network
  <2>4. QED
    BY <2>1, <2>2, <2>3, NewGenerationType
<1>4. QED
  BY <1>1, <1>2, <1>3

LEMMA EmptyStatusType == EmptyStatus \in Status
  <1>1. NoAddresses \in Addresses
    BY DEF NoAddresses, Addresses, AddressValues
  <1>2. QED
    BY <1>1 DEF EmptyStatus, Status

LEMMA CreatedType ==
    ASSUME NEW u \in Nat, NEW s \in Specs
    PROVE  [uid |-> u + 1, generation |-> 1, spec |-> s, finalizer |-> FALSE,
            deleting |-> FALSE, status |-> EmptyStatus] \in Network
  BY EmptyStatusType DEF Network

LEMMA ConfigMapTypes ==
    ASSUME NEW cm \in ConfigMap \cup {NoConfigMap}, NEW u \in Nat \ {0},
           NEW d \in RollupData \cup GenesisData
    PROVE  /\ Present(cm) => [cm EXCEPT !.data = d] \in ConfigMap
           /\ [owner |-> u, data |-> d] \in ConfigMap
  BY DEF Present, ConfigMap, NoConfigMap

-----------------------------------------------------------------------------
\* Type correctness, with the fact that a reconcile in progress has an object.

LEMMA TypeInit == Init => TypeOK /\ WorkExists
  <1>1. NoAddresses \in Addresses
    BY DEF NoAddresses, Addresses, AddressValues
  <1>2. 0 \in 0 .. MaxAttempts - 1 /\ 0 \in 0 .. MaxUid /\ 0 \in 0 .. MaxFaults
    BY BoundsAssumption
  <1>3. QED
    BY <1>1, <1>2 DEF Init, TypeOK, WorkExists

LEMMA CountersType ==
    ASSUME faults \in 0 .. MaxFaults, lastUid \in 0 .. MaxUid,
           attempts \in 0 .. MaxAttempts - 1
    PROVE  /\ 0 \in 0 .. MaxAttempts - 1
           /\ faults < MaxFaults => faults + 1 \in 0 .. MaxFaults
           /\ lastUid < MaxUid => lastUid + 1 \in 0 .. MaxUid
           /\ attempts < MaxAttempts - 1 => attempts + 1 \in 0 .. MaxAttempts - 1
           /\ lastUid \in Nat
  BY BoundsAssumption

LEMMA CallType ==
    ASSUME faults \in 0 .. MaxFaults, lastUid \in 0 .. MaxUid,
           attempts \in 0 .. MaxAttempts - 1,
           NEW ok, NEW applied, NEW error, Call(ok, applied, error)
    PROVE  faults' \in 0 .. MaxFaults
  BY CountersType DEF Call

LEMMA TypeReconcile ==
    ASSUME TypeOK, WorkExists, Reconcile
    PROVE  TypeOK' /\ WorkExists'
<1> USE CountersType DEF TypeOK
<1>1. Exists(netCache) => netCache \in Network
  BY ExistingIsNetwork
<1>2. pc # "idle" => work \in Network
  BY ExistingIsNetwork DEF WorkExists
<1>3. NoNetwork \in Network \cup {NoNetwork}
  OBVIOUS
<1>4. CASE FetchNothing
  BY <1>4 DEF FetchNothing, Begin, WorkExists, apiVars, informerVars, workerVars
<1>5. CASE HandleDeletion
  <2>1. net' \in Network \cup {NoNetwork} /\ netFresh' \in BOOLEAN /\ queued' \in BOOLEAN
    BY <1>5 DEF HandleDeletion, StoreNetwork
  <2>2. faults' \in 0 .. MaxFaults
    BY <1>5, CallType DEF HandleDeletion
  <2>3. QED
    BY <1>5, <2>1, <2>2 DEF HandleDeletion, WorkExists, workerVars
<1>6. CASE AddFinalizer
  <2>1. [netCache EXCEPT !.finalizer = TRUE] \in Network
    BY <1>1, <1>6, MetadataType DEF AddFinalizer, Network
  <2>2. net' \in Network \cup {NoNetwork} /\ netFresh' \in BOOLEAN
    BY <1>6, <2>1 DEF AddFinalizer, StoreNetwork
  <2>3. faults' \in 0 .. MaxFaults
    BY <1>6, CallType DEF AddFinalizer
  <2>4. QED
    BY <1>6, <2>2, <2>3 DEF AddFinalizer, WorkExists, workerVars, queueVars
<1>7. CASE Validate
  <2>1. netCache \in Network
    BY <1>1, <1>7 DEF Validate, ToValidate, Accept, Reject
  <2>2. SetCondition(netCache, "ConfigurationValid", "True") \in Network
    BY <2>1, SetConditionType DEF ConditionTypes
  <2>3. SetPhase(SetCondition(netCache, "ConfigurationValid", "False"), "Error") \in Network
    <3>1. SetCondition(netCache, "ConfigurationValid", "False") \in Network
      BY <2>1, SetConditionType DEF ConditionTypes
    <3>2. QED
      BY <3>1, SetPhaseType
  <2>4. work' \in Network
    BY <1>7, <2>2, <2>3 DEF Validate, ToValidate, Accept, Reject
  <2>5. QED
    BY <1>7, <2>4, NetworkExists DEF Validate, ToValidate, Accept, Reject, WorkExists, apiVars, informerVars
<1>8. CASE TestL1Connectivity
  <2>1. work \in Network
    BY <1>2, <1>8 DEF TestL1Connectivity
  <2>2. SetCondition(work, "L1Connected", "True") \in Network
    BY <2>1, SetConditionType DEF ConditionTypes
  <2>3. SetPhase(SetCondition(work, "L1Connected", "False"), "Error") \in Network
    <3>1. SetCondition(work, "L1Connected", "False") \in Network
      BY <2>1, SetConditionType DEF ConditionTypes
    <3>2. QED
      BY <3>1, SetPhaseType
  <2>4. work' \in Network /\ pc' \in {"discover", "status"}
    BY <1>8, <2>2, <2>3 DEF TestL1Connectivity
  <2>5. QED
    BY <1>8, <2>4, NetworkExists DEF TestL1Connectivity, WorkExists, apiVars, informerVars, queueVars
<1>9. CASE DiscoverContractAddresses
  <2>1. work \in Network /\ work.spec \in Specs
    BY <1>2, <1>9 DEF DiscoverContractAddresses, Network
  <2>2. PICK dial \in {TRUE, l1Up} :
          LET addresses == Answer(addrCache, work.spec, dial)
          IN  /\ addrCache' = [addrCache EXCEPT ![CacheKey(work.spec)] = addresses]
              /\ \/ /\ addresses # NoAddresses
                    /\ work' = [SetCondition(work, "ContractsDiscovered", "True")
                                EXCEPT !.status.contracts = addresses]
                    /\ pc' = "rollup"
                 \/ /\ addresses = NoAddresses
                    /\ work' = SetPhase(SetCondition(work, "ContractsDiscovered", "False"), "Error")
                    /\ pc' = "status"
    BY <1>9 DEF DiscoverContractAddresses
  <2> DEFINE key == CacheKey(work.spec)
             addresses == Answer(addrCache, work.spec, dial)
  <2>3. key \in CacheKeys
    BY <2>1 DEF CacheKeys
  <2>4. addresses \in Addresses
    BY <2>1, <2>3, SpecFields, AnswerType DEF TypeOK
  <2> HIDE DEF key, addresses
  <2>5. addrCache' \in [CacheKeys -> Addresses]
    BY <2>2, <2>3, <2>4 DEF key, addresses
  <2>6. \A v \in {"True", "False"} : SetCondition(work, "ContractsDiscovered", v) \in Network
    BY <2>1, SetConditionType DEF ConditionTypes
  <2>7. work' \in Network /\ pc' \in {"rollup", "status"}
    <3>1. CASE addresses # NoAddresses
      <4>1. [SetCondition(work, "ContractsDiscovered", "True")
             EXCEPT !.status.contracts = addresses] \in Network
        BY <2>4, <2>6, NewContractsType
      <4>2. QED
        BY <2>2, <3>1, <4>1 DEF key, addresses
    <3>2. CASE addresses = NoAddresses
      <4>1. SetPhase(SetCondition(work, "ContractsDiscovered", "False"), "Error") \in Network
        BY <2>6, SetPhaseType
      <4>2. QED
        BY <2>2, <3>2, <4>1 DEF key, addresses
    <3>3. QED
      BY <3>1, <3>2
  <2>8. QED
    BY <1>9, <2>5, <2>7, NetworkExists DEF DiscoverContractAddresses, WorkExists, apiVars,
       informerVars, queueVars
<1>10. ASSUME NEW k \in ConfigMapKinds, ReconcileConfigMap(k)
       PROVE  TypeOK' /\ WorkExists'
  <2>1. work \in Network /\ work.spec \in Specs /\ work.uid \in Nat \ {0}
        /\ work.status.contracts \in Addresses
    BY <1>2, <1>10 DEF ReconcileConfigMap, Network, Status, ConfigMapKinds
  <2>2. [SetPhase(work, "Ready") EXCEPT !.status.observed = work.generation] \in Network
    <3>1. SetPhase(work, "Ready") \in Network /\ SetPhase(work, "Ready").generation = work.generation
      BY <2>1, SetPhaseType DEF SetPhase, Network
    <3>2. QED
      BY <3>1, NewObservedType
  <2>3. ASSUME AfterConfigMap(k)
        PROVE  work' \in Network /\ pc' \in {"genesis", "status"}
    BY <2>1, <2>2, <2>3 DEF AfterConfigMap
  <2>4. CASE AutoDiscovered(k, work.spec) /\ CreateOrUpdateConfigMap(k)
    <3> DEFINE data == GeneratedData(k, work.spec, work.status.contracts)
               written == IF Present(cmCache[k]) THEN [cmCache[k] EXCEPT !.data = data]
                          ELSE [owner |-> work.uid, data |-> data]
    <3>1. data \in RollupData \cup GenesisData
      BY <2>1, GeneratedDataType
    <3>2. written \in ConfigMap
      BY <2>1, <3>1, ConfigMapTypes
    <3>3. SetPhase(work, "Error") \in Network
      BY <2>1, SetPhaseType
    <3> HIDE DEF data
    <3> HIDE DEF written
    <3>4. cms' \in [ConfigMapKinds -> ConfigMap \cup {NoConfigMap}]
          /\ cmFresh' \in [ConfigMapKinds -> BOOLEAN]
          /\ faults' \in 0 .. MaxFaults
      <4>1. \/ /\ cms' = [cms EXCEPT ![k] = written]
               /\ cmFresh' = [cmFresh EXCEPT ![k] = FALSE]
            \/ UNCHANGED <<cms, cmFresh>>
        BY <2>4 DEF CreateOrUpdateConfigMap, written, data
      <4>2. faults' \in 0 .. MaxFaults
        BY <2>4, CallType DEF CreateOrUpdateConfigMap, AfterWrite
      <4>3. QED
        BY <3>2, <4>1, <4>2
    <3>5. work' \in Network /\ pc' \in {"genesis", "status"}
      BY <2>4, <2>3, <3>3 DEF CreateOrUpdateConfigMap, AfterWrite
    <3>6. QED
      BY <1>10, <3>4, <3>5, NetworkExists DEF ReconcileConfigMap, WorkExists, queueVars
  <2>5. CASE AfterConfigMap(k) /\ UNCHANGED <<cms, cmFresh, faults>>
    BY <1>10, <2>3, <2>5, NetworkExists DEF ReconcileConfigMap, WorkExists, queueVars
  <2>6. QED
    BY <1>10, <2>4, <2>5 DEF ReconcileConfigMap
<1>11. CASE WriteStatus
  <2>1. work \in Network /\ work.status \in Status
    BY <1>2, <1>11 DEF WriteStatus, Network
  <2>2. ASSUME NEW error, Return(error)
        PROVE  pc' = "idle" /\ work' = NoNetwork /\ attempts' = 0
               /\ queued' \in BOOLEAN /\ timer' \in BOOLEAN
               /\ attempts' \in 0 .. MaxAttempts - 1
    BY <2>2 DEF Return
  <2>3. ASSUME Exists(netCache), StoreStatus
        PROVE  net' \in Network \cup {NoNetwork} /\ netFresh' \in BOOLEAN
    BY <1>1, <2>1, <2>3, NewStatusType DEF StoreStatus, StoreNetwork
  <2>4. CASE Exists(netCache) /\ StatusStored
    <3>1. Return(FALSE) /\ StoreStatus /\ UNCHANGED faults
      BY <2>4 DEF StatusStored
    <3>2. QED
      BY <1>11, <2>2, <2>3, <2>4, <3>1 DEF WriteStatus, WorkExists
  <2>5. CASE StatusConflict
    <3>1. CASE attempts < MaxAttempts - 1
      BY <1>11, <2>5, <3>1 DEF WriteStatus, StatusConflict, WorkExists, queueVars
    <3>2. CASE ~(attempts < MaxAttempts - 1)
      <4>1. Return(TRUE) /\ UNCHANGED <<net, netFresh, faults>>
        BY <2>5, <3>2 DEF StatusConflict
      <4>2. QED
        BY <1>11, <2>2, <4>1 DEF WriteStatus, WorkExists
    <3>3. QED
      BY <3>1, <3>2
  <2>6. CASE StatusNotFound
    <3>1. Return(TRUE) /\ UNCHANGED <<net, netFresh, faults>>
      BY <2>6 DEF StatusNotFound
    <3>2. QED
      BY <1>11, <2>2, <3>1 DEF WriteStatus, WorkExists
  <2>7. CASE StatusFault
    <3>1. Return(TRUE) /\ faults' \in 0 .. MaxFaults
      BY <2>7 DEF StatusFault
    <3>2. net' \in Network \cup {NoNetwork} /\ netFresh' \in BOOLEAN
      BY <2>3, <2>7 DEF StatusFault
    <3>3. QED
      BY <1>11, <2>2, <3>1, <3>2 DEF WriteStatus, WorkExists
  <2>8. QED
    BY <1>11, <2>4, <2>5, <2>6, <2>7 DEF WriteStatus
<1>12. QED
  BY <1>4, <1>5, <1>6, <1>7, <1>8, <1>9, <1>10, <1>11 DEF Reconcile

LEMMA TypeEnvironment ==
    ASSUME TypeOK, WorkExists, Environment
    PROVE  TypeOK' /\ WorkExists'
<1> USE CountersType DEF TypeOK
<1>1. Exists(net) => net \in Network
  BY ExistingIsNetwork
<1>2. ASSUME NEW s \in Specs, UserCreate(s)
      PROVE  TypeOK' /\ WorkExists'
  <2>1. [uid |-> lastUid + 1, generation |-> 1, spec |-> s, finalizer |-> FALSE,
         deleting |-> FALSE, status |-> EmptyStatus] \in Network
    BY CreatedType
  <2>2. net' \in Network \cup {NoNetwork} /\ netFresh' \in BOOLEAN /\ lastUid' \in 0 .. MaxUid
    BY <1>2, <2>1 DEF UserCreate, StoreNetwork
  <2>3. QED
    BY <1>2, <2>2 DEF UserCreate, WorkExists, queueVars, workerVars
<1>3. ASSUME NEW s \in Specs, UserEdit(s)
      PROVE  TypeOK' /\ WorkExists'
  <2>1. [net EXCEPT !.spec = s, !.generation = @ + 1] \in Network
    BY <1>1, <1>3, MetadataType DEF UserEdit
  <2>2. QED
    BY <1>3, <2>1 DEF UserEdit, StoreNetwork, WorkExists, queueVars, workerVars
<1>4. CASE UserDelete
  <2>1. [net EXCEPT !.deleting = TRUE, !.generation = @ + 1] \in Network
    BY <1>1, <1>4, MetadataType DEF UserDelete, Network
  <2>2. QED
    BY <1>4, <2>1 DEF UserDelete, StoreNetwork, WorkExists, queueVars, workerVars
<1>5. CASE UserStripFinalizer
  <2>1. [net EXCEPT !.finalizer = FALSE] \in Network
    BY <1>1, <1>5, MetadataType DEF UserStripFinalizer, Network
  <2>2. QED
    BY <1>5, <2>1 DEF UserStripFinalizer, StoreNetwork, WorkExists, queueVars, workerVars
<1>6. ASSUME NEW k \in ConfigMapKinds, UserDeleteConfigMap(k) \/ CollectConfigMap(k)
      PROVE  TypeOK' /\ WorkExists'
  BY <1>6 DEF UserDeleteConfigMap, CollectConfigMap, WorkExists, queueVars, workerVars
<1>7. ASSUME NEW k \in ConfigMapKinds, SyncConfigMap(k)
      PROVE  TypeOK' /\ WorkExists'
  BY <1>7 DEF SyncConfigMap, WorkExists, apiVars, workerVars
<1>8. CASE SyncNetwork
  BY <1>8 DEF SyncNetwork, WorkExists, apiVars, workerVars
<1>9. CASE TimerFires
  BY <1>9 DEF TimerFires, WorkExists, apiVars, informerVars, workerVars
<1>10. ASSUME NEW key \in CacheKeys, ExpireAddresses(key)
       PROVE  TypeOK' /\ WorkExists'
  <2>1. NoAddresses \in Addresses
    BY DEF NoAddresses, Addresses, AddressValues
  <2>2. QED
    BY <1>10, <2>1 DEF ExpireAddresses, WorkExists, apiVars, informerVars, queueVars, workerVars
<1>11. CASE L1Changes
  BY <1>11 DEF L1Changes, WorkExists, apiVars, informerVars, queueVars, workerVars
<1>12. CASE Restart
  <2>1. NoAddresses \in Addresses
    BY DEF NoAddresses, Addresses, AddressValues
  <2>2. faults' \in 0 .. MaxFaults /\ attempts' \in 0 .. MaxAttempts - 1
    BY <1>12 DEF Restart
  <2>3. addrCache' \in [CacheKeys -> Addresses] /\ cmFresh' \in [ConfigMapKinds -> BOOLEAN]
        /\ queued' \in BOOLEAN
    BY <1>12, <2>1 DEF Restart
  <2>4. QED
    BY <1>12, <2>2, <2>3 DEF Restart, WorkExists, apiVars
<1>13. QED
  BY <1>2, <1>3, <1>4, <1>5, <1>6, <1>7, <1>8, <1>9, <1>10, <1>11, <1>12 DEF Environment

LEMMA TypeNext ==
    ASSUME TypeOK, WorkExists, [Next]_vars
    PROVE  TypeOK' /\ WorkExists'
<1>1. CASE UNCHANGED vars
  BY <1>1 DEF TypeOK, WorkExists, vars, apiVars, informerVars, queueVars, workerVars
<1>2. QED
  BY <1>1, TypeReconcile, TypeEnvironment DEF Next

\* Every variable keeps its type.
THEOREM TypeCorrect == Spec => []TypeOK
<1>1. TypeOK /\ WorkExists /\ [Next]_vars => TypeOK' /\ WorkExists'
  BY TypeNext
<1>2. QED
  BY <1>1, TypeInit, PTL DEF Spec

-----------------------------------------------------------------------------
\* What the modifications of an object leave alone.

\* Two copies that agree on everything but their status.
SameMetadata(o, p) ==
    /\ o.uid = p.uid
    /\ o.generation = p.generation
    /\ o.spec = p.spec
    /\ o.finalizer = p.finalizer
    /\ o.deleting = p.deleting

LEMMA NetworkFields ==
    ASSUME NEW o \in Network
    PROVE  /\ o.uid \in Nat \ {0}
           /\ o.generation \in Nat
           /\ o.spec \in Specs
           /\ o.finalizer \in BOOLEAN
           /\ o.deleting \in BOOLEAN
           /\ o.status \in Status
           /\ o.status.observed \in Nat
           /\ o.status.conditions \in [ConditionTypes -> {"Unset", "True", "False"}]
  BY DEF Network, Status

LEMMA SetConditionFields ==
    ASSUME NEW o \in Network, NEW ty \in ConditionTypes, NEW v \in {"Unset", "True", "False"}
    PROVE  LET p == SetCondition(o, ty, v) IN
           /\ p \in Network
           /\ SameMetadata(p, o)
           /\ p.status.observed = o.status.observed
           /\ p.status.contracts = o.status.contracts
           /\ p.status.conditions = [o.status.conditions EXCEPT ![ty] = v]
<1>1. SetCondition(o, ty, v) \in Network
  BY SetConditionType
<1>2. QED
  BY <1>1 DEF SetCondition, Network, Status, SameMetadata

LEMMA SetPhaseFields ==
    ASSUME NEW o \in Network, NEW ph \in {"Unset", "Error", "Ready"}
    PROVE  LET p == SetPhase(o, ph) IN
           /\ p \in Network
           /\ SameMetadata(p, o)
           /\ p.status.phase = ph
           /\ p.status.observed = o.status.observed
           /\ p.status.contracts = o.status.contracts
           /\ p.status.conditions = o.status.conditions
<1>1. SetPhase(o, ph) \in Network
  BY SetPhaseType
<1>2. QED
  BY <1>1 DEF SetPhase, Network, Status, SameMetadata

LEMMA NewContractsFields ==
    ASSUME NEW o \in Network, NEW a \in Addresses
    PROVE  LET p == [o EXCEPT !.status.contracts = a] IN
           /\ p \in Network
           /\ SameMetadata(p, o)
           /\ p.status.observed = o.status.observed
           /\ p.status.contracts = a
           /\ p.status.conditions = o.status.conditions
<1>1. [o EXCEPT !.status.contracts = a] \in Network
  BY NewContractsType
<1>2. QED
  BY <1>1 DEF Network, Status, SameMetadata

LEMMA SuccessFields ==
    ASSUME NEW o \in Network
    PROVE  LET p == [SetPhase(o, "Ready") EXCEPT !.status.observed = o.generation] IN
           /\ p \in Network
           /\ SameMetadata(p, o)
           /\ p.status.phase = "Ready"
           /\ p.status.observed = o.generation
           /\ p.status.contracts = o.status.contracts
           /\ p.status.conditions = o.status.conditions
<1> DEFINE q == SetPhase(o, "Ready")
<1>1. q \in Network /\ SameMetadata(q, o) /\ q.status.phase = "Ready"
      /\ q.status.contracts = o.status.contracts
      /\ q.status.conditions = o.status.conditions
  BY SetPhaseFields
<1>2. q.generation = o.generation
  BY <1>1 DEF SameMetadata
<1> HIDE DEF q
<1>3. [q EXCEPT !.status.observed = q.generation] \in Network
  BY <1>1, NewObservedType
<1>4. LET p == [q EXCEPT !.status.observed = o.generation] IN
        /\ p \in Network
        /\ SameMetadata(p, o)
        /\ p.status.phase = "Ready"
        /\ p.status.observed = o.generation
        /\ p.status.contracts = o.status.contracts
        /\ p.status.conditions = o.status.conditions
  BY <1>1, <1>2, <1>3 DEF Network, Status, SameMetadata
<1>5. QED
  BY <1>4 DEF q

LEMMA NewStatusFields ==
    ASSUME NEW o \in Network, NEW st \in Status
    PROVE  LET p == [o EXCEPT !.status = st] IN
           p \in Network /\ SameMetadata(p, o) /\ p.status = st
<1>1. [o EXCEPT !.status = st] \in Network
  BY NewStatusType
<1>2. QED
  BY <1>1 DEF Network, SameMetadata

-----------------------------------------------------------------------------
\* FreshIsCurrent holds whatever users do.

LEMMA FreshInit == Init => FreshIsCurrent
  BY DEF Init, FreshIsCurrent

LEMMA FreshNext ==
    ASSUME TypeOK, FreshIsCurrent, [Next]_vars
    PROVE  FreshIsCurrent'
<1> USE DEF FreshIsCurrent
<1> DEFINE SameConfigMaps == UNCHANGED <<cms, cmCache, cmFresh>>
           SameNetwork == UNCHANGED <<net, netCache, netFresh>>
<1>1. ASSUME SameConfigMaps, SameNetwork \/ (UNCHANGED netCache /\ netFresh' = FALSE)
      PROVE  FreshIsCurrent'
  BY <1>1
<1>2. ASSUME SameNetwork, NEW k \in ConfigMapKinds,
             UNCHANGED cmCache,
             \/ UNCHANGED <<cms, cmFresh>>
             \/ /\ cms' = [cms EXCEPT ![k] = cms'[k]]
                /\ cmFresh' = [cmFresh EXCEPT ![k] = FALSE]
      PROVE  FreshIsCurrent'
  BY <1>2 DEF TypeOK
<1>3. CASE FetchNothing
  BY <1>1, <1>3 DEF FetchNothing, apiVars, informerVars
<1>4. CASE HandleDeletion
  BY <1>1, <1>4 DEF HandleDeletion, StoreNetwork
<1>5. CASE AddFinalizer
  BY <1>1, <1>5 DEF AddFinalizer, StoreNetwork
<1>6. CASE Validate
  BY <1>1, <1>6 DEF Validate, apiVars, informerVars
<1>7. CASE TestL1Connectivity
  BY <1>1, <1>7 DEF TestL1Connectivity, apiVars, informerVars
<1>8. CASE DiscoverContractAddresses
  BY <1>1, <1>8 DEF DiscoverContractAddresses, apiVars, informerVars
<1>9. ASSUME NEW k \in ConfigMapKinds, ReconcileConfigMap(k)
      PROVE  FreshIsCurrent'
  <2>1. SameNetwork /\ UNCHANGED cmCache
    BY <1>9 DEF ReconcileConfigMap
  <2>2. \/ UNCHANGED <<cms, cmFresh>>
        \/ /\ cms' = [cms EXCEPT ![k] = cms'[k]]
           /\ cmFresh' = [cmFresh EXCEPT ![k] = FALSE]
    <3>1. CASE AutoDiscovered(k, work.spec) /\ CreateOrUpdateConfigMap(k)
      <4> DEFINE data == GeneratedData(k, work.spec, work.status.contracts)
                 written == IF Present(cmCache[k]) THEN [cmCache[k] EXCEPT !.data = data]
                            ELSE [owner |-> work.uid, data |-> data]
      <4>1. \/ UNCHANGED <<cms, cmFresh>>
            \/ /\ cms' = [cms EXCEPT ![k] = written]
               /\ cmFresh' = [cmFresh EXCEPT ![k] = FALSE]
        BY <3>1 DEF CreateOrUpdateConfigMap
      <4> HIDE DEF written
      <4>2. QED
        BY <4>1 DEF TypeOK
    <3>2. QED
      BY <1>9, <3>1 DEF ReconcileConfigMap
  <2>3. QED
    BY <1>2, <2>1, <2>2
<1>10. CASE WriteStatus
  <2>1. UNCHANGED <<net, netFresh>> \/ netFresh' = FALSE
    BY <1>10 DEF WriteStatus, StatusStored, StatusConflict, StatusNotFound, StatusFault,
       StoreStatus, StoreNetwork
  <2>2. QED
    BY <1>1, <1>10, <2>1 DEF WriteStatus
<1>11. ASSUME NEW s \in Specs, UserCreate(s) \/ UserEdit(s)
       PROVE  FreshIsCurrent'
  BY <1>1, <1>11 DEF UserCreate, UserEdit, StoreNetwork
<1>12. CASE UserDelete \/ UserStripFinalizer
  BY <1>1, <1>12 DEF UserDelete, UserStripFinalizer, StoreNetwork
<1>13. ASSUME NEW k \in ConfigMapKinds, UserDeleteConfigMap(k) \/ CollectConfigMap(k)
       PROVE  FreshIsCurrent'
  <2>1. /\ cms' = [cms EXCEPT ![k] = cms'[k]]
        /\ cmFresh' = [cmFresh EXCEPT ![k] = FALSE]
        /\ SameNetwork /\ UNCHANGED cmCache
    BY <1>13 DEF UserDeleteConfigMap, CollectConfigMap, TypeOK
  <2>2. QED
    BY <1>2, <2>1
<1>14. ASSUME NEW k \in ConfigMapKinds, SyncConfigMap(k)
       PROVE  FreshIsCurrent'
  BY <1>14 DEF SyncConfigMap, apiVars, TypeOK
<1>15. CASE SyncNetwork
  BY <1>15 DEF SyncNetwork, apiVars
<1>16. CASE TimerFires \/ L1Changes
  BY <1>1, <1>16 DEF TimerFires, L1Changes, apiVars, informerVars
<1>17. ASSUME NEW key \in CacheKeys, ExpireAddresses(key)
       PROVE  FreshIsCurrent'
  BY <1>1, <1>17 DEF ExpireAddresses, apiVars, informerVars
<1>18. CASE Restart
  BY <1>18 DEF Restart, apiVars
<1>19. CASE UNCHANGED vars
  BY <1>1, <1>19 DEF vars, apiVars, informerVars
<1>20. QED
  BY <1>3, <1>4, <1>5, <1>6, <1>7, <1>8, <1>9, <1>10, <1>11, <1>12, <1>13, <1>14, <1>15,
     <1>16, <1>17, <1>18, <1>19 DEF Next, Reconcile, Environment

-----------------------------------------------------------------------------
\* CopiesInOrder, one lemma per kind of step.

LEMMA CopiesInit == Init => CopiesInOrder
  BY DEF Init, CopiesInOrder, UidsInOrder, CacheIsPast, ReportedIsFinalized, WorkIsPast,
     Exists, NoNetwork

\* Steps that touch neither the object nor its copies.
LEMMA CopiesUnchanged ==
    ASSUME CopiesInOrder, UNCHANGED <<net, netCache, lastUid>>,
           UNCHANGED <<pc, work>> \/ pc' = "idle"
    PROVE  CopiesInOrder'
  BY DEF CopiesInOrder, UidsInOrder, CacheIsPast, ReportedIsFinalized, WorkIsPast,
     Precedes, Exists

\* Steps in the middle of a reconcile: the object worked on keeps its identity
\* and what it claims to have observed is at most its generation.
LEMMA CopiesWorkStep ==
    ASSUME CopiesInOrder, UNCHANGED <<net, netCache, lastUid>>,
           pc # "idle", work \in Network, work' \in Network, SameMetadata(work', work),
           work'.status.observed \in {work.status.observed, work.generation}
    PROVE  CopiesInOrder'
<1>1. work.generation \in Nat
  BY NetworkFields
<1>2. QED
  BY <1>1 DEF CopiesInOrder, UidsInOrder, CacheIsPast, ReportedIsFinalized, WorkIsPast,
     Precedes, Exists, SameMetadata

\* Only an acceptable write is applied.
LEMMA AppliedIsOk ==
    ASSUME NEW ok \in BOOLEAN, NEW applied \in BOOLEAN, NEW error \in BOOLEAN,
           Call(ok, applied, error), applied
    PROVE  ok
  BY Zenon DEF Call

LEMMA CopiesHandleDeletion ==
    ASSUME TypeOK, FreshIsCurrent, CopiesInOrder, HandleDeletion
    PROVE  CopiesInOrder'
<1>1. pc' = "idle" /\ UNCHANGED <<netCache, lastUid, pc, work>>
      /\ (UNCHANGED net \/ net' = NoNetwork)
  BY DEF HandleDeletion, Begin, StoreNetwork, workerVars
<1>2. CASE UNCHANGED net
  BY <1>1, <1>2, CopiesUnchanged
<1>3. CASE net' = NoNetwork
  BY <1>1, <1>3 DEF HandleDeletion, CopiesInOrder, UidsInOrder, CacheIsPast,
     ReportedIsFinalized, WorkIsPast, Exists, NoNetwork
<1>4. QED
  BY <1>1, <1>2, <1>3

\* Only the current object, marked for deletion, is let go.
LEMMA DeletionEffect ==
    ASSUME TypeOK, HandleDeletion
    PROVE  UNCHANGED net \/ (net' = NoNetwork /\ netFresh /\ netCache.deleting)
<1>1. PICK applied \in BOOLEAN, error \in BOOLEAN :
        /\ Call(netFresh, applied, error)
        /\ IF applied THEN StoreNetwork(NoNetwork) ELSE UNCHANGED <<net, netFresh>>
  BY DEF HandleDeletion
<1>2. CASE applied
  <2>1. netFresh
    BY <1>1, <1>2, AppliedIsOk DEF TypeOK
  <2>2. net' = NoNetwork
    BY <1>1, <1>2, Zenon DEF StoreNetwork
  <2>3. QED
    BY <2>1, <2>2 DEF HandleDeletion
<1>3. CASE ~applied
  BY <1>1, <1>3
<1>4. QED
  BY <1>2, <1>3

\* The finalizer is added to the current object or to none.
LEMMA AddFinalizerEffect ==
    ASSUME TypeOK, FreshIsCurrent, AddFinalizer
    PROVE  \/ UNCHANGED net
           \/ /\ netCache \in Network /\ netCache = net
              /\ net' = [netCache EXCEPT !.finalizer = TRUE]
<1> DEFINE o == [netCache EXCEPT !.finalizer = TRUE]
<1>1. PICK applied \in BOOLEAN, error \in BOOLEAN :
        /\ Call(netFresh, applied, error)
        /\ IF applied THEN StoreNetwork(o) ELSE UNCHANGED <<net, netFresh>>
  BY DEF AddFinalizer
<1>2. CASE applied
  <2>1. netFresh
    BY <1>1, <1>2, AppliedIsOk DEF TypeOK
  <2>2. netCache \in Network /\ netCache = net
    BY <2>1, ExistingIsNetwork DEF AddFinalizer, FreshIsCurrent, TypeOK
  <2>3. net' = o
    BY <1>1, <1>2, Zenon DEF StoreNetwork
  <2>4. QED
    BY <2>2, <2>3
<1>3. CASE ~applied
  BY <1>1, <1>3
<1>4. QED
  BY <1>2, <1>3

LEMMA CopiesAddFinalizer ==
    ASSUME TypeOK, FreshIsCurrent, CopiesInOrder, AddFinalizer
    PROVE  CopiesInOrder'
<1> DEFINE o == [netCache EXCEPT !.finalizer = TRUE]
<1>1. /\ pc = "idle" /\ UNCHANGED <<netCache, lastUid, pc, work>>
      /\ UNCHANGED net \/ (netCache \in Network /\ netCache = net /\ net' = o)
  BY AddFinalizerEffect DEF AddFinalizer, Begin, workerVars
<1>2. CASE UNCHANGED net
  BY <1>1, <1>2, CopiesUnchanged
<1>3. CASE netCache \in Network /\ netCache = net /\ net' = o
  <2>1. netCache = net /\ net \in Network /\ ~net.deleting
    BY <1>3 DEF AddFinalizer
  <2>2. /\ o.uid = net.uid /\ o.generation = net.generation /\ o.spec = net.spec
        /\ o.deleting = net.deleting /\ o.status = net.status /\ o.finalizer
    BY <2>1 DEF Network
  <2> HIDE DEF o
  <2>3. net.generation \in Nat
    BY <2>1, NetworkFields
  <2>4. QED
    BY <1>1, <1>3, <2>1, <2>2, <2>3 DEF CopiesInOrder, UidsInOrder, CacheIsPast,
       ReportedIsFinalized, WorkIsPast, Precedes, Exists
<1>4. QED
  BY <1>1, <1>2, <1>3

LEMMA ValidateWork ==
    ASSUME TypeOK, Validate
    PROVE  /\ work' \in Network
           /\ SameMetadata(work', netCache)
           /\ work'.status.observed = netCache.status.observed
<1>1. netCache \in Network
  BY ExistingIsNetwork DEF Validate, ToValidate, Accept, Reject, TypeOK
<1>2. CASE work' = SetCondition(netCache, "ConfigurationValid", "True")
  BY <1>1, <1>2, SetConditionFields DEF ConditionTypes
<1>3. CASE work' = SetPhase(SetCondition(netCache, "ConfigurationValid", "False"), "Error")
  <2> DEFINE c == SetCondition(netCache, "ConfigurationValid", "False")
  <2>1. c \in Network /\ SameMetadata(c, netCache)
        /\ c.status.observed = netCache.status.observed
    BY <1>1, SetConditionFields DEF ConditionTypes
  <2> HIDE DEF c
  <2>2. LET p == SetPhase(c, "Error") IN
          p \in Network /\ SameMetadata(p, c) /\ p.status.observed = c.status.observed
    BY <2>1, SetPhaseFields
  <2>3. QED
    BY <1>3, <2>1, <2>2 DEF SameMetadata, c
<1>4. QED
  BY <1>2, <1>3 DEF Validate, ToValidate, Accept, Reject

LEMMA CopiesValidate ==
    ASSUME ~Meddling, TypeOK, CopiesInOrder, Validate
    PROVE  CopiesInOrder'
<1>1. UNCHANGED <<net, netCache, lastUid>> /\ Exists(netCache)
      /\ ~netCache.deleting /\ netCache.finalizer
  BY DEF Validate, ToValidate, Accept, Reject, apiVars, informerVars
<1>2. netCache.uid = net.uid /\ Exists(net)
  BY <1>1 DEF CopiesInOrder, CacheIsPast, Exists
<1>3. netCache \in Network /\ net \in Network
  BY <1>1, <1>2, ExistingIsNetwork DEF TypeOK
<1>4. netCache.generation \in Nat
  BY <1>3, NetworkFields
<1>5. QED
  BY <1>1, <1>2, <1>4, ValidateWork DEF CopiesInOrder, UidsInOrder, CacheIsPast,
     ReportedIsFinalized, WorkIsPast, Precedes, Exists, SameMetadata

\* The three steps in the middle of a reconcile are work steps.
LEMMA TestL1Work ==
    ASSUME TypeOK, WorkExists, TestL1Connectivity
    PROVE  /\ work \in Network /\ work' \in Network
           /\ SameMetadata(work', work)
           /\ work'.status.observed = work.status.observed
<1>1. work \in Network
  BY ExistingIsNetwork DEF TestL1Connectivity, TypeOK, WorkExists
<1>2. CASE work' = SetCondition(work, "L1Connected", "True")
  BY <1>1, <1>2, SetConditionFields DEF ConditionTypes
<1>3. CASE work' = SetPhase(SetCondition(work, "L1Connected", "False"), "Error")
  <2> DEFINE c == SetCondition(work, "L1Connected", "False")
  <2>1. c \in Network /\ SameMetadata(c, work) /\ c.status.observed = work.status.observed
    BY <1>1, SetConditionFields DEF ConditionTypes
  <2> HIDE DEF c
  <2>2. LET p == SetPhase(c, "Error") IN
          p \in Network /\ SameMetadata(p, c) /\ p.status.observed = c.status.observed
    BY <2>1, SetPhaseFields
  <2>3. QED
    BY <1>1, <1>3, <2>1, <2>2 DEF SameMetadata, c
<1>4. QED
  BY <1>2, <1>3 DEF TestL1Connectivity

\* What discovery yields: an answer that is cached, or an error.
LEMMA DiscoverWork ==
    ASSUME TypeOK, WorkExists, DiscoverContractAddresses
    PROVE  /\ work \in Network /\ work' \in Network
           /\ SameMetadata(work', work)
           /\ work'.status.observed = work.status.observed
           /\ \/ /\ pc' = "rollup"
                 /\ work'.status.contracts # NoAddresses
                 /\ work'.status.conditions =
                      [work.status.conditions EXCEPT !["ContractsDiscovered"] = "True"]
              \/ /\ pc' = "status"
                 /\ work'.status.phase = "Error"
<1>1. work \in Network /\ work.spec \in Specs
  BY ExistingIsNetwork DEF DiscoverContractAddresses, TypeOK, WorkExists, Network
<1>2. PICK dial \in {TRUE, l1Up} :
        LET addresses == Answer(addrCache, work.spec, dial)
        IN  \/ /\ addresses # NoAddresses
               /\ work' = [SetCondition(work, "ContractsDiscovered", "True")
                           EXCEPT !.status.contracts = addresses]
               /\ pc' = "rollup"
            \/ /\ addresses = NoAddresses
               /\ work' = SetPhase(SetCondition(work, "ContractsDiscovered", "False"), "Error")
               /\ pc' = "status"
  BY DEF DiscoverContractAddresses
<1> DEFINE addresses == Answer(addrCache, work.spec, dial)
           t == SetCondition(work, "ContractsDiscovered", "True")
           f == SetCondition(work, "ContractsDiscovered", "False")
<1>3. addresses \in Addresses
  BY <1>1, SpecFields, AnswerType DEF CacheKeys, TypeOK
<1>4. /\ t \in Network /\ SameMetadata(t, work)
      /\ t.status.observed = work.status.observed
      /\ t.status.conditions = [work.status.conditions EXCEPT !["ContractsDiscovered"] = "True"]
  BY <1>1, SetConditionFields DEF ConditionTypes
<1>5. f \in Network /\ SameMetadata(f, work) /\ f.status.observed = work.status.observed
  BY <1>1, SetConditionFields DEF ConditionTypes
<1>6. \/ /\ addresses # NoAddresses
         /\ work' = [t EXCEPT !.status.contracts = addresses]
         /\ pc' = "rollup"
      \/ /\ work' = SetPhase(f, "Error")
         /\ pc' = "status"
  BY <1>2
<1> HIDE DEF addresses, t, f
<1>7. CASE /\ addresses # NoAddresses
           /\ work' = [t EXCEPT !.status.contracts = addresses]
           /\ pc' = "rollup"
  <2>1. LET p == [t EXCEPT !.status.contracts = addresses] IN
          /\ p \in Network /\ SameMetadata(p, t)
          /\ p.status.observed = t.status.observed
          /\ p.status.contracts = addresses
          /\ p.status.conditions = t.status.conditions
    BY <1>3, <1>4, NewContractsFields
  <2>2. QED
    BY <1>1, <1>4, <1>7, <2>1 DEF SameMetadata
<1>8. CASE work' = SetPhase(f, "Error") /\ pc' = "status"
  <2>1. LET p == SetPhase(f, "Error") IN
          /\ p \in Network /\ SameMetadata(p, f)
          /\ p.status.phase = "Error"
          /\ p.status.observed = f.status.observed
    BY <1>5, SetPhaseFields
  <2>2. QED
    BY <1>1, <1>5, <1>8, <2>1 DEF SameMetadata
<1>9. QED
  BY <1>6, <1>7, <1>8

\* What the step of a ConfigMap yields: the next step, the end of a successful
\* reconcile, or an error.
LEMMA ConfigMapWork ==
    ASSUME TypeOK, WorkExists, NEW k \in ConfigMapKinds, ReconcileConfigMap(k)
    PROVE  /\ work \in Network /\ work' \in Network
           /\ SameMetadata(work', work)
           /\ work'.status.observed \in {work.status.observed, work.generation}
           /\ \/ k = "rollup" /\ pc' = "genesis" /\ work' = work
              \/ /\ k = "genesis" /\ pc' = "status"
                 /\ work'.status.phase = "Ready"
                 /\ work'.status.observed = work.generation
                 /\ work'.status.contracts = work.status.contracts
                 /\ work'.status.conditions = work.status.conditions
              \/ pc' = "status" /\ work'.status.phase = "Error"
<1>1. work \in Network
  BY ExistingIsNetwork DEF ReconcileConfigMap, TypeOK, WorkExists, ConfigMapKinds
<1>2. CASE AfterConfigMap(k)
  <2>1. CASE k = "rollup"
    BY <1>1, <1>2, <2>1 DEF AfterConfigMap, SameMetadata
  <2>2. CASE k = "genesis"
    <3>1. /\ pc' = "status"
          /\ work' = [SetPhase(work, "Ready") EXCEPT !.status.observed = work.generation]
      BY <1>2, <2>2 DEF AfterConfigMap
    <3>2. LET p == [SetPhase(work, "Ready") EXCEPT !.status.observed = work.generation] IN
           /\ p \in Network
           /\ SameMetadata(p, work)
           /\ p.status.phase = "Ready"
           /\ p.status.observed = work.generation
           /\ p.status.contracts = work.status.contracts
           /\ p.status.conditions = work.status.conditions
      BY <1>1, SuccessFields
    <3>3. QED
      BY <1>1, <2>2, <3>1, <3>2
  <2>3. QED
    BY <2>1, <2>2 DEF ConfigMapKinds
<1>3. CASE pc' = "status" /\ work' = SetPhase(work, "Error")
  BY <1>1, <1>3, SetPhaseFields
<1>4. QED
  BY <1>2, <1>3 DEF ReconcileConfigMap, CreateOrUpdateConfigMap, AfterWrite

\* The end of a reconcile: the status of the object is that of the object
\* worked on, or nothing was written.
LEMMA WriteStatusEffect ==
    ASSUME TypeOK, WorkExists, FreshIsCurrent, WriteStatus
    PROVE  /\ UNCHANGED <<netCache, lastUid, cms, cmCache>>
           /\ pc = "status"
           /\ UNCHANGED <<pc, work>> \/ pc' = "idle"
           /\ \/ UNCHANGED net
              \/ /\ pc' = "idle" /\ netCache = net
                 /\ net \in Network /\ work \in Network /\ net' \in Network
                 /\ SameMetadata(net', net)
                 /\ net'.status = work.status
<1>1. work \in Network /\ work.status \in Status
  BY ExistingIsNetwork, NetworkFields DEF WriteStatus, TypeOK, WorkExists
<1>2. UNCHANGED <<netCache, lastUid, cms, cmCache>> /\ pc = "status"
  BY DEF WriteStatus
<1>3. UNCHANGED <<pc, work>> \/ pc' = "idle"
  BY DEF WriteStatus, StatusStored, StatusConflict, StatusNotFound, StatusFault, Return
<1>4. UNCHANGED net \/ (/\ Exists(netCache) /\ netFresh /\ pc' = "idle"
                        /\ net' = [netCache EXCEPT !.status = work.status])
  BY DEF WriteStatus, StatusStored, StatusConflict, StatusNotFound, StatusFault, Return,
     StoreStatus, StoreNetwork
<1>5. CASE /\ Exists(netCache) /\ netFresh /\ pc' = "idle"
           /\ net' = [netCache EXCEPT !.status = work.status]
  <2>1. netCache = net /\ net \in Network
    BY <1>5, ExistingIsNetwork DEF FreshIsCurrent, TypeOK
  <2>2. LET p == [net EXCEPT !.status = work.status] IN
          p \in Network /\ SameMetadata(p, net) /\ p.status = work.status
    BY <1>1, <2>1, NewStatusFields
  <2>3. QED
    BY <1>1, <1>2, <1>3, <1>5, <2>1, <2>2
<1>6. QED
  BY <1>2, <1>3, <1>4, <1>5

LEMMA CopiesWriteStatus ==
    ASSUME ~Meddling, TypeOK, WorkExists, FreshIsCurrent, CopiesInOrder, WriteStatus
    PROVE  CopiesInOrder'
<1>1. CASE UNCHANGED net
  BY <1>1, WriteStatusEffect, CopiesUnchanged
<1>2. CASE /\ pc' = "idle" /\ netCache = net
           /\ net \in Network /\ work \in Network
           /\ SameMetadata(net', net)
           /\ net'.status = work.status
  <2>1. /\ pc # "idle" /\ UNCHANGED <<netCache, lastUid>>
        /\ work.generation \in Nat /\ net.generation \in Nat
    BY <1>2, WriteStatusEffect, NetworkFields
  <2>2. /\ net.finalizer /\ work.status.observed <= work.generation
        /\ work.generation <= netCache.generation
        /\ work.status.observed \in Nat
    BY <1>2, <2>1, NetworkFields DEF CopiesInOrder, WorkIsPast
  <2>3. QED
    BY <1>2, <2>1, <2>2 DEF CopiesInOrder, UidsInOrder, CacheIsPast,
       ReportedIsFinalized, WorkIsPast, Precedes, Exists, SameMetadata
<1>3. QED
  BY <1>1, <1>2, WriteStatusEffect

LEMMA LastUidIsNat ==
    ASSUME TypeOK
    PROVE  lastUid \in Nat
  BY DEF TypeOK

LEMMA CopiesUserCreate ==
    ASSUME TypeOK, CopiesInOrder, NEW s \in Specs, UserCreate(s)
    PROVE  CopiesInOrder'
<1>1. /\ ~Exists(net) /\ UNCHANGED <<netCache, pc, work>>
      /\ net'.uid = lastUid + 1 /\ lastUid' = lastUid + 1
      /\ ~net'.finalizer /\ net'.status = EmptyStatus
  BY DEF UserCreate, StoreNetwork, workerVars
<1>2. lastUid \in Nat /\ netCache.uid \in Nat
  <2>1. netCache.uid \in Nat
    BY NetworkFields DEF TypeOK, NoNetwork
  <2>2. QED
    BY <2>1, LastUidIsNat
<1>3. pc = "idle"
  BY <1>1 DEF CopiesInOrder, WorkIsPast
<1>4. EmptyStatus.phase = "Unset"
  BY DEF EmptyStatus
<1>5. netCache.uid < net'.uid
  BY <1>1, <1>2 DEF CopiesInOrder, UidsInOrder
<1>6. QED
  BY <1>1, <1>2, <1>3, <1>4, <1>5 DEF CopiesInOrder, UidsInOrder, CacheIsPast,
     ReportedIsFinalized, WorkIsPast, Precedes, Exists

LEMMA CopiesUserEdit ==
    ASSUME TypeOK, CopiesInOrder, NEW s \in Specs, UserEdit(s)
    PROVE  CopiesInOrder'
<1>1. net \in Network /\ UNCHANGED <<netCache, lastUid, pc, work>>
      /\ net' = [net EXCEPT !.spec = s, !.generation = @ + 1]
  BY ExistingIsNetwork DEF UserEdit, StoreNetwork, workerVars, TypeOK
<1>2. /\ net'.uid = net.uid /\ net'.generation = net.generation + 1
      /\ net'.deleting = net.deleting /\ net'.finalizer = net.finalizer
      /\ net'.status = net.status
  BY <1>1 DEF Network
<1>3. net.generation \in Nat
  BY <1>1, NetworkFields
<1>4. Exists(netCache) => netCache.generation \in Nat
  BY ExistingIsNetwork, NetworkFields DEF TypeOK
<1>5. QED
  BY <1>1, <1>2, <1>3, <1>4 DEF CopiesInOrder, UidsInOrder, CacheIsPast,
     ReportedIsFinalized, WorkIsPast, Precedes, Exists

LEMMA CopiesUserDelete ==
    ASSUME TypeOK, CopiesInOrder, UserDelete
    PROVE  CopiesInOrder'
<1>1. net \in Network /\ UNCHANGED <<netCache, lastUid, pc, work>> /\ ~net.deleting
      /\ Exists(net)
      /\ net' = IF net.finalizer
                THEN [net EXCEPT !.deleting = TRUE, !.generation = @ + 1]
                ELSE NoNetwork
  BY ExistingIsNetwork DEF UserDelete, StoreNetwork, workerVars, TypeOK
<1>2. Exists(netCache) => netCache.generation \in Nat
  BY ExistingIsNetwork, NetworkFields DEF TypeOK
<1>3. CASE net.finalizer
  <2>1. /\ net'.uid = net.uid /\ net'.generation = net.generation + 1
        /\ net'.deleting /\ net'.finalizer
        /\ net'.status = net.status
    BY <1>1, <1>3 DEF Network
  <2>2. net.generation \in Nat
    BY <1>1, NetworkFields
  <2>3. netCache.uid = net.uid
    BY <1>1, <1>3 DEF CopiesInOrder, CacheIsPast
  <2>4. netCache.generation \in Nat /\ netCache.generation <= net.generation
    BY <1>1, <1>2, <2>3 DEF CopiesInOrder, CacheIsPast, Precedes, Exists
  <2>5. CacheIsPast'
    <3>1. Precedes(netCache, net')
      <4>1. netCache.generation < net'.generation
        BY <2>1, <2>2, <2>4
      <4>2. /\ netCache.generation <= net'.generation
            /\ netCache.generation # net'.generation
        BY <2>1, <2>2, <2>4, <4>1
      <4>3. QED
        BY <2>1, <4>2, Zenon DEF Precedes
    <3>2. /\ Exists(netCache) => netCache.status.observed <= netCache.generation
          /\ net.status.observed <= netCache.generation
      BY <1>1, <2>3 DEF CopiesInOrder, CacheIsPast
    <3>3. QED
      BY <1>1, <2>1, <2>3, <3>1, <3>2 DEF CacheIsPast, Exists
  <2>6. UidsInOrder' /\ ReportedIsFinalized' /\ WorkIsPast'
    BY <1>1, <2>1 DEF CopiesInOrder, UidsInOrder, ReportedIsFinalized, WorkIsPast, Exists
  <2>7. QED
    BY <2>5, <2>6 DEF CopiesInOrder
<1>4. CASE ~net.finalizer
  <2>1. net' = NoNetwork /\ ~Exists(net') /\ pc = "idle"
    BY <1>1, <1>4 DEF CopiesInOrder, WorkIsPast, Exists, NoNetwork
  <2>2. Exists(netCache) /\ netCache.finalizer => netCache.deleting
    BY <1>1, <1>4, Zenon DEF CopiesInOrder, CacheIsPast, Precedes
  <2>3. QED
    BY <1>1, <2>1, <2>2 DEF CopiesInOrder, UidsInOrder, CacheIsPast,
       ReportedIsFinalized, WorkIsPast, Exists
<1>5. QED
  BY <1>3, <1>4

LEMMA ObservedIsPast ==
    ASSUME TypeOK, CopiesInOrder, Exists(net)
    PROVE  net.status.observed <= net.generation
<1>1. net.generation \in Nat /\ net.status.observed \in Nat
  BY ExistingIsNetwork, NetworkFields DEF TypeOK
<1>2. CASE netCache.uid = net.uid
  <2>1. netCache.generation \in Nat
    BY <1>2, ExistingIsNetwork, NetworkFields DEF TypeOK, Exists
  <2>2. QED
    BY <1>1, <1>2, <2>1 DEF CopiesInOrder, CacheIsPast, Precedes
<1>3. CASE netCache.uid # net.uid
  <2>1. net.status = EmptyStatus
    BY <1>3 DEF CopiesInOrder, CacheIsPast
  <2>2. QED
    BY <1>1, <2>1 DEF EmptyStatus
<1>4. QED
  BY <1>2, <1>3

\* The informer's copy becomes the object itself.
LEMMA CopiesRefresh ==
    ASSUME TypeOK, CopiesInOrder, UNCHANGED <<net, lastUid>>, netCache' = net,
           UNCHANGED <<pc, work>> \/ pc' = "idle"
    PROVE  CopiesInOrder'
<1>1. lastUid \in Nat
  BY LastUidIsNat
<1>2. CASE ~Exists(net)
  BY <1>1, <1>2 DEF CopiesInOrder, UidsInOrder, CacheIsPast, ReportedIsFinalized,
     WorkIsPast, Precedes, Exists
<1>3. CASE Exists(net)
  <2>1. net.generation \in Nat /\ net.status.observed \in Nat
    BY <1>3, ExistingIsNetwork, NetworkFields DEF TypeOK
  <2>2. net.status.observed <= net.generation
    BY <1>3, ObservedIsPast
  <2>3. pc' # "idle" => /\ work.generation <= net.generation
                        /\ work.generation = net.generation => work.spec = net.spec
    <3>1. CASE pc # "idle"
      <4>1. netCache.uid = net.uid /\ work.uid = net.uid
        BY <3>1 DEF CopiesInOrder, WorkIsPast
      <4>2. netCache.generation \in Nat /\ work.generation \in Nat
        BY <1>3, <4>1, ExistingIsNetwork, NetworkFields DEF TypeOK, Exists
      <4>3. QED
        BY <1>3, <2>1, <3>1, <4>1, <4>2 DEF CopiesInOrder, WorkIsPast, CacheIsPast, Precedes
    <3>2. QED
      BY <3>1
  <2>4. UidsInOrder' /\ ReportedIsFinalized'
    BY <1>1, <1>3 DEF CopiesInOrder, UidsInOrder, ReportedIsFinalized, Exists
  <2>5. CacheIsPast'
    BY <1>3, <2>1, <2>2 DEF CacheIsPast, Precedes, Exists
  <2>6. WorkIsPast'
    BY <1>3, <2>3 DEF CopiesInOrder, WorkIsPast, Exists
  <2>7. QED
    BY <2>4, <2>5, <2>6 DEF CopiesInOrder
<1>4. QED
  BY <1>2, <1>3

LEMMA CopiesNext ==
    ASSUME ~Meddling, TypeOK, WorkExists, FreshIsCurrent, CopiesInOrder, [Next]_vars
    PROVE  CopiesInOrder'
<1>1. CASE FetchNothing
  BY <1>1, CopiesUnchanged DEF FetchNothing, apiVars, informerVars, workerVars
<1>2. CASE TestL1Connectivity
  BY <1>2, TestL1Work, CopiesWorkStep DEF TestL1Connectivity, apiVars, informerVars
<1>3. CASE DiscoverContractAddresses
  BY <1>3, DiscoverWork, CopiesWorkStep DEF DiscoverContractAddresses, apiVars, informerVars
<1>4. ASSUME NEW k \in ConfigMapKinds, ReconcileConfigMap(k)
      PROVE  CopiesInOrder'
  BY <1>4, ConfigMapWork, CopiesWorkStep DEF ReconcileConfigMap, ConfigMapKinds
<1>5. ASSUME NEW s \in Specs, UserCreate(s) \/ UserEdit(s)
      PROVE  CopiesInOrder'
  BY <1>5, CopiesUserCreate, CopiesUserEdit
<1>6. ASSUME NEW k \in ConfigMapKinds,
             UserDeleteConfigMap(k) \/ CollectConfigMap(k) \/ SyncConfigMap(k)
      PROVE  CopiesInOrder'
  BY <1>6, CopiesUnchanged DEF UserDeleteConfigMap, CollectConfigMap, SyncConfigMap,
     apiVars, workerVars
<1>7. CASE SyncNetwork
  BY <1>7, CopiesRefresh DEF SyncNetwork, apiVars, workerVars
<1>8. CASE Restart
  BY <1>8, CopiesRefresh DEF Restart, apiVars
<1>9. CASE TimerFires \/ L1Changes \/ UNCHANGED vars
  BY <1>9, CopiesUnchanged DEF TimerFires, L1Changes, vars, apiVars, informerVars, workerVars
<1>10. ASSUME NEW key \in CacheKeys, ExpireAddresses(key)
       PROVE  CopiesInOrder'
  BY <1>10, CopiesUnchanged DEF ExpireAddresses, apiVars, informerVars, workerVars
<1>11. ~UserStripFinalizer
  BY DEF UserStripFinalizer
<1>12. QED
  BY <1>1, <1>2, <1>3, <1>4, <1>5, <1>6, <1>7, <1>8, <1>9, <1>10, <1>11,
     CopiesHandleDeletion, CopiesAddFinalizer, CopiesValidate, CopiesWriteStatus,
     CopiesUserDelete DEF Next, Reconcile, Environment
=============================================================================
