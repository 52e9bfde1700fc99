---------------------------- MODULE OperatorProofs ----------------------------
(***************************************************************************)
(* Proof that the pods of a node mount a ConfigMap that is there, when the *)
(* node is in the namespace of its network and every specification of the  *)
(* network has its rollup configuration generated, for every value of the  *)
(* other constants of Operator: any number of generations, attempts,       *)
(* faults and crashes.  It rests on the invariant of the network           *)
(* controller (NetworkSafetyProofs), which takes its steps here unchanged. *)
(***************************************************************************)
EXTENDS Operator, NetworkSafetyProofs

-----------------------------------------------------------------------------
\* The invariant.

\* Nothing has come of a network yet: none seen, none deployed for.
Unaware == sight = {} /\ target = {} /\ workload.owner = 0

\* While the first network is there, its ConfigMap was generated before it was
\* Ready, and so before anything came of that.
Generates == \A s \in Specs : AutoDiscovered("rollup", s)
GeneratedFirst ==
    Generates /\ net.uid = 1 =>
        /\ net.status.phase = "Ready" => Present(cms["rollup"])
        /\ ~Unaware => Present(cms["rollup"])

MountedInv ==
    ~Meddling =>
        /\ lastUid = 0 => Unaware
        /\ GeneratedFirst

-----------------------------------------------------------------------------
\* Steps of the network and its controller.

\* A ConfigMap that is there while the first network is stays there.
LEMMA PresentKept ==
    ASSUME ~Meddling, Inv, Next, net.uid = 1, NEW k \in ConfigMapKinds, Present(cms[k])
    PROVE  Present(cms'[k])
<1>1. /\ TypeOK /\ WorkExists /\ OwnersInOrder /\ UidsInOrder /\ Exists(net)
  BY DEF Inv, CopiesInOrder, Established, Exists
<1>2. ASSUME NEW j \in ConfigMapKinds, ReconcileConfigMap(j)
      PROVE  Present(cms'[k])
  BY <1>1, <1>2, ReconcileConfigMapEffect DEF WrittenFor
<1>3. \A j \in ConfigMapKinds : ~CollectConfigMap(j)
  BY <1>1, CollectEffect
<1>4. \A j \in ConfigMapKinds : ~UserDeleteConfigMap(j)
  BY DEF UserDeleteConfigMap
<1>5. CASE UNCHANGED cms
  BY <1>5
<1>6. CASE Reconcile
  BY <1>2, <1>5, <1>6 DEF Reconcile, FetchNothing, HandleDeletion, AddFinalizer, Validate,
     TestL1Connectivity, DiscoverContractAddresses, WriteStatus, apiVars
<1>7. CASE Environment
  BY <1>3, <1>4, <1>5, <1>7 DEF Environment, UserCreate, UserEdit, UserDelete,
     UserStripFinalizer, SyncNetwork, SyncConfigMap, TimerFires, ExpireAddresses, L1Changes,
     Restart, apiVars
<1>8. QED
  BY <1>6, <1>7 DEF Next

\* The first network becomes Ready by the report of a reconcile that has
\* generated the ConfigMap.
LEMMA ReadyIsReported ==
    ASSUME ~Meddling, Inv, Generates, WriteStatus, net.uid = 1,
           net'.status.phase = "Ready"
    PROVE  net.status.phase = "Ready" \/ Present(cms["rollup"])
<1>1. TypeOK /\ WorkExists /\ FreshIsCurrent /\ Progress /\ WorkIsPast
  BY DEF Inv, CopiesInOrder, Established
<1>2. CASE UNCHANGED net
  BY <1>2
<1>3. CASE work \in Network /\ net'.status = work.status
  <2>1. pc = "status" /\ work.status.phase = "Ready"
    BY <1>1, <1>3, WriteStatusEffect
  <2>2. Completed(cms, work)
    BY <1>1, <2>1 DEF Progress
  <2>3. Generated(cms, "rollup", work)
    BY <2>2 DEF Completed, ConfigMapKinds
  <2>4. work.uid = 1 /\ work.spec \in Specs
    BY <1>1, <1>3, <2>1, NetworkFields DEF WorkIsPast
  <2>5. QED
    BY <2>3, <2>4 DEF Generated, Generates
<1>4. QED
  BY <1>1, <1>2, <1>3, WriteStatusEffect

\* Of every other step, what it does to the object.
LEMMA NetworkEffect ==
    ASSUME ~Meddling, Inv, Next, ~WriteStatus
    PROVE  \/ UNCHANGED <<net, lastUid>>
           \/ net' = NoNetwork /\ UNCHANGED lastUid
           \/ /\ net'.uid = net.uid /\ net'.status = net.status
              /\ Exists(net) /\ UNCHANGED lastUid
           \/ /\ net'.uid = lastUid + 1 /\ lastUid' = lastUid + 1
              /\ net'.status.phase = "Unset"
<1>1. TypeOK /\ FreshIsCurrent
  BY DEF Inv
<1>2. CASE AddFinalizer
  <2>1. UNCHANGED net \/ (netCache \in Network /\ netCache = net
                            /\ net' = [netCache EXCEPT !.finalizer = TRUE])
    BY <1>1, <1>2, AddFinalizerEffect
  <2>2. UNCHANGED lastUid
    BY <1>2 DEF AddFinalizer
  <2>3. QED
    BY <2>1, <2>2, NetworkExists DEF Network
<1>3. CASE HandleDeletion
  BY <1>3 DEF HandleDeletion, StoreNetwork
<1>4. CASE FetchNothing \/ Validate \/ TestL1Connectivity \/ DiscoverContractAddresses
           \/ \E k \in ConfigMapKinds : ReconcileConfigMap(k)
  BY <1>4 DEF FetchNothing, Validate, TestL1Connectivity, DiscoverContractAddresses,
     ReconcileConfigMap, apiVars
<1>5. ASSUME NEW s \in Specs, UserCreate(s)
      PROVE  /\ net'.uid = lastUid + 1 /\ lastUid' = lastUid + 1
             /\ net'.status.phase = "Unset"
  BY <1>5 DEF UserCreate, StoreNetwork, EmptyStatus
<1>6. ASSUME NEW s \in Specs, UserEdit(s)
      PROVE  /\ net'.uid = net.uid /\ net'.status = net.status
             /\ Exists(net) /\ UNCHANGED lastUid
  <2>1. net \in Network
    BY <1>1, <1>6, ExistingIsNetwork DEF UserEdit, TypeOK
  <2>2. QED
    BY <1>6, <2>1 DEF UserEdit, StoreNetwork, Network
<1>7. CASE UserDelete
  <2>1. net \in Network
    BY <1>1, <1>7, ExistingIsNetwork DEF UserDelete, TypeOK
  <2>2. CASE net' = [net EXCEPT !.deleting = TRUE, !.generation = @ + 1]
    BY <1>7, <2>1, <2>2 DEF UserDelete, Network
  <2>3. CASE net' = NoNetwork
    BY <1>7, <2>3 DEF UserDelete
  <2>4. QED
    BY <1>7, <2>2, <2>3 DEF UserDelete, StoreNetwork
<1>8. ~UserStripFinalizer
  BY DEF UserStripFinalizer
<1>9. CASE \E k \in ConfigMapKinds :
             UserDeleteConfigMap(k) \/ CollectConfigMap(k) \/ SyncConfigMap(k)
  BY <1>9 DEF UserDeleteConfigMap, CollectConfigMap, SyncConfigMap, apiVars
<1>10. CASE SyncNetwork \/ TimerFires \/ (\E key \in CacheKeys : ExpireAddresses(key))
            \/ L1Changes \/ Restart
  BY <1>10 DEF SyncNetwork, TimerFires, ExpireAddresses, L1Changes, Restart, apiVars
<1>11. CASE Reconcile
  BY <1>2, <1>3, <1>4, <1>11 DEF Reconcile
<1>12. CASE Environment
  BY <1>5, <1>6, <1>7, <1>8, <1>9, <1>10, <1>12 DEF Environment
<1>13. QED
  BY <1>11, <1>12 DEF Next

LEMMA NetworkKeeps ==
    ASSUME ~Meddling, Inv, MountedInv, NetworkStep
    PROVE  MountedInv'
<1>1. /\ Next /\ UNCHANGED <<sight, target, workload>>
      /\ Unaware' = Unaware
  BY DEF NetworkStep, nodeVars, Unaware
<1>2. TypeOK /\ WorkExists /\ FreshIsCurrent /\ lastUid \in Nat /\ UidsInOrder
  BY LastUidIsNat DEF Inv, CopiesInOrder
<1>3. ASSUME UNCHANGED lastUid, net'.uid = 1 => net.uid = 1,
             Generates /\ net.uid = 1 /\ net'.uid = 1 /\ net'.status.phase = "Ready" =>
                 net.status.phase = "Ready" \/ Present(cms["rollup"])
      PROVE  MountedInv'
  <2>1. net.uid = 1 /\ Present(cms["rollup"]) => Present(cms'["rollup"])
    BY <1>1, PresentKept DEF ConfigMapKinds
  <2>2. QED
    BY <1>1, <1>3, <2>1 DEF MountedInv, GeneratedFirst, Generates
<1>4. CASE WriteStatus
  <2>1. UNCHANGED lastUid /\ net'.uid = net.uid
    BY <1>2, <1>4, WriteStatusEffect DEF SameMetadata
  <2>2. QED
    BY <1>3, <1>4, <2>1, ReadyIsReported
<1>5. CASE UNCHANGED <<net, lastUid>>
  BY <1>3, <1>5
<1>6. CASE net' = NoNetwork /\ UNCHANGED lastUid
  BY <1>3, <1>6 DEF NoNetwork
<1>7. CASE /\ net'.uid = net.uid /\ net'.status = net.status
           /\ Exists(net) /\ UNCHANGED lastUid
  BY <1>3, <1>7
<1>8. CASE /\ net'.uid = lastUid + 1 /\ lastUid' = lastUid + 1
           /\ net'.status.phase = "Unset"
  BY <1>1, <1>2, <1>8 DEF MountedInv, GeneratedFirst
<1>9. QED
  BY <1>1, <1>4, <1>5, <1>6, <1>7, <1>8, NetworkEffect

-----------------------------------------------------------------------------
\* Steps of the node and its controller.

\* A node that becomes aware of a network has seen one that is Ready.
LEMMA NodeEffect ==
    ASSUME NodeStep
    PROVE  /\ UNCHANGED <<net, lastUid, cms>>
           /\ ~Unaware' => ~Unaware \/ (Exists(net) /\ net.status.phase = "Ready")
<1>1. /\ Node!Next /\ sight' \in {sight, NetworkInReach} /\ UNCHANGED <<net, lastUid, cms>>
  BY DEF NodeStep, vars, apiVars
<1>2. CASE Exists(net) /\ net.status.phase = "Ready"
  BY <1>1, <1>2
<1>3. CASE ~(Exists(net) /\ net.status.phase = "Ready")
  <2>1. NetworkInReach = {}
    BY <1>3 DEF NetworkInReach
  <2>2. ASSUME Unaware
        PROVE  Unaware'
    <3>1. sight = {} /\ sight' = {} /\ target = {} /\ workload.owner = 0
      BY <1>1, <2>1, <2>2 DEF Unaware
    <3>2. target' = {}
      BY <1>1, <3>1 DEF Node!Next, Node!Create, Node!Edit, Node!RequestDeletion,
         Node!Vanish, Node!See, Node!Begin, Node!Deploy, Node!ReportRunning,
         Node!ReportOther, Node!Abandon, Node!Restart, Node!Collect
    <3>3. workload' = workload \/ workload' = Node!NoWorkload
      BY <1>1, <3>1 DEF Node!Next, Node!Create, Node!Edit, Node!RequestDeletion,
         Node!Vanish, Node!See, Node!Begin, Node!Deploy, Node!ReportRunning,
         Node!ReportOther, Node!Abandon, Node!Restart, Node!Collect
    <3>4. QED
      BY <3>1, <3>2, <3>3 DEF Unaware, Node!NoWorkload
  <2>3. QED
    BY <1>1, <2>2
<1>4. QED
  BY <1>2, <1>3

LEMMA NodeKeeps ==
    ASSUME ~Meddling, Inv, MountedInv, NodeStep
    PROVE  MountedInv'
<1>1. UidsInOrder
  BY DEF Inv, CopiesInOrder
<1>2. lastUid = 0 => ~Exists(net)
  BY <1>1 DEF UidsInOrder, Exists
<1>3. QED
  BY <1>2, NodeEffect DEF MountedInv, GeneratedFirst

-----------------------------------------------------------------------------
\* Theorems.

\* The network controller takes its steps as it does alone, so that what is
\* proved of it holds here.
THEOREM NetworkUnchanged == SystemSpec => Spec
<1>1. SystemInit => Init
  BY DEF SystemInit
<1>2. [SystemNext]_<<vars, nodeVars>> => [Next]_vars
  BY DEF SystemNext, NetworkStep, NodeStep
<1>3. QED
  BY <1>1, <1>2, PTL DEF SystemSpec, Spec

LEMMA MountedNext ==
    Inv /\ MountedInv /\ [SystemNext]_<<vars, nodeVars>> => MountedInv'
<1> SUFFICES ASSUME Inv, MountedInv, [SystemNext]_<<vars, nodeVars>>, ~Meddling
             PROVE  MountedInv'
  BY DEF MountedInv
<1>1. CASE UNCHANGED <<vars, nodeVars>>
  <2>1. UNCHANGED <<net, lastUid, cms, sight, target, workload>>
    BY <1>1 DEF vars, apiVars, nodeVars
  <2>2. QED
    BY <2>1 DEF MountedInv, GeneratedFirst, Generates, Unaware
<1>2. QED
  BY <1>1, NetworkKeeps, NodeKeeps DEF SystemNext

\* The pods of a node in the namespace of its network never mount a rollup
\* ConfigMap that is not there, while there is the network they were made for
\* and it generates one (statefulset.go:424).
THEOREM Mounted == SystemSpec => []MountedConfigExists
<1>1. SystemInit => MountedInv
  BY DEF SystemInit, Init, Node!Init, MountedInv, GeneratedFirst, Unaware, NoNetwork,
     Node!NoWorkload
<1>2. MountedInv => MountedConfigExists
  BY DEF MountedInv, GeneratedFirst, Generates, Unaware, MountedConfigExists, MountedConfig,
     WorkloadOfGeneratingNetwork
<1>3. SystemSpec => []Inv
  BY NetworkUnchanged, Invariance, PTL
<1>4. QED
  BY <1>1, <1>2, <1>3, MountedNext, PTL DEF SystemSpec
=============================================================================
