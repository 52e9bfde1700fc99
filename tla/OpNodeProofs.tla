----------------------------- MODULE OpNodeProofs -----------------------------
(***************************************************************************)
(* Proofs about OpNodeController, for every value of its constants: its    *)
(* types, and the parts of Inv (module OpNodeInvariants) about the copies  *)
(* of the node, FreshIsCurrent and CopiesInOrder.                          *)
(***************************************************************************)
EXTENDS OpNodeInvariants, TLAPS

-----------------------------------------------------------------------------
\* Lemmas about the operators on nodes.

LEMMA ExistingIsNode ==
    ASSUME NEW o \in Node \cup {NoNode}, Exists(o)
    PROVE  o \in Node
  BY DEF NoNode, Exists

LEMMA NodeExists ==
    ASSUME NEW o \in Node
    PROVE  Exists(o)
  BY DEF Node, Exists

LEMMA NodeFields ==
    ASSUME NEW o \in Node
    PROVE  /\ o.uid \in Nat \ {0}
           /\ o.generation \in Nat \ {0}
           /\ o.spec \in Specs
           /\ o.finalizer \in BOOLEAN
           /\ o.deleting \in BOOLEAN
           /\ o.status \in Status
           /\ o.status.observed \in Nat
           /\ o.status.phase \in {"Unset", "Pending", "Initializing", "Running", "Error"}
           /\ o.status.conditions \in [ConditionTypes -> {"Unset", "True", "False"}]
  BY DEF Node, Status

\* Two copies that agree on everything but their status.
SameMetadata(o, p) ==
    /\ o.uid = p.uid
    /\ o.generation = p.generation
    /\ o.spec = p.spec
    /\ o.finalizer = p.finalizer
    /\ o.deleting = p.deleting

\* SetCondition changes one condition and nothing else.
LEMMA SetConditionFields ==
    ASSUME NEW o \in Node, NEW ty \in ConditionTypes, NEW v \in {"Unset", "True", "False"}
    PROVE  LET p == SetCondition(o, ty, v) IN
           /\ p \in Node
           /\ SameMetadata(p, o)
           /\ p.status.observed = o.status.observed
           /\ p.status.phase = o.status.phase
           /\ p.status.conditions = [o.status.conditions EXCEPT ![ty] = v]
<1>1. SetCondition(o, ty, v) \in Node
  BY DEF SetCondition, Node, Status
<1>2. QED
  BY <1>1 DEF SetCondition, Node, Status, SameMetadata

LEMMA SetPhaseFields ==
    ASSUME NEW o \in Node, NEW ph \in {"Unset", "Pending", "Initializing", "Running", "Error"}
    PROVE  LET p == SetPhase(o, ph) IN
           /\ p \in Node
           /\ SameMetadata(p, o)
           /\ p.status.observed = o.status.observed
           /\ p.status.phase = ph
           /\ p.status.conditions = o.status.conditions
<1>1. SetPhase(o, ph) \in Node
  BY DEF SetPhase, Node, Status
<1>2. QED
  BY <1>1 DEF SetPhase, Node, Status, SameMetadata

LEMMA FailFields ==
    ASSUME NEW o \in Node, NEW ty \in ConditionTypes,
           NEW ph \in {"Unset", "Pending", "Initializing", "Running", "Error"}
    PROVE  LET p == Fail(o, ty, ph) IN
           /\ p \in Node
           /\ SameMetadata(p, o)
           /\ p.status.observed = o.status.observed
           /\ p.status.phase = ph
<1> DEFINE c == SetCondition(o, ty, "False")
<1>1. c \in Node /\ SameMetadata(c, o) /\ c.status.observed = o.status.observed
  BY SetConditionFields
<1> HIDE DEF c
<1>2. LET p == SetPhase(c, ph) IN
        /\ p \in Node
        /\ SameMetadata(p, c)
        /\ p.status.observed = c.status.observed
        /\ p.status.phase = ph
  BY <1>1, SetPhaseFields
<1>3. QED
  BY <1>1, <1>2 DEF Fail, c, SameMetadata

LEMMA ReportFields ==
    ASSUME NEW o \in Node
    PROVE  LET p == Report(o) IN
           /\ p \in Node
           /\ SameMetadata(p, o)
           /\ p.status.observed = o.generation
           /\ p.status.phase = o.status.phase
           /\ p.status.conditions = o.status.conditions
<1>1. Report(o) \in Node
  BY DEF Report, Node, Status
<1>2. QED
  BY <1>1 DEF Report, Node, Status, SameMetadata

LEMMA NewStatusFields ==
    ASSUME NEW o \in Node, NEW st \in Status
    PROVE  LET p == [o EXCEPT !.status = st] IN
           p \in Node /\ SameMetadata(p, o) /\ p.status = st
<1>1. [o EXCEPT !.status = st] \in Node
  BY DEF Node
<1>2. QED
  BY <1>1 DEF Node, SameMetadata

LEMMA FinalizerFields ==
    ASSUME NEW o \in Node
    PROVE  LET p == [o EXCEPT !.finalizer = TRUE] IN
           /\ p \in Node
           /\ p.uid = o.uid /\ p.generation = o.generation /\ p.spec = o.spec
           /\ p.finalizer /\ p.deleting = o.deleting /\ p.status = o.status
<1>1. [o EXCEPT !.finalizer = TRUE] \in Node
  BY DEF Node
<1>2. QED
  BY <1>1 DEF Node

LEMMA DeletionFields ==
    ASSUME NEW o \in Node
    PROVE  LET p == [o EXCEPT !.deleting = TRUE, !.generation = @ + 1] IN
           /\ p \in Node
           /\ p.uid = o.uid /\ p.generation = o.generation + 1 /\ p.spec = o.spec
           /\ p.finalizer = o.finalizer /\ p.deleting /\ p.status = o.status
<1>1. o.generation + 1 \in Nat \ {0}
  BY NodeFields
<1>2. [o EXCEPT !.deleting = TRUE, !.generation = @ + 1] \in Node
  BY <1>1 DEF Node
<1>3. QED
  BY <1>2 DEF Node

LEMMA EditFields ==
    ASSUME NEW o \in Node, NEW s \in Specs
    PROVE  LET p == [o EXCEPT !.spec = s, !.generation = @ + 1] IN
           /\ p \in Node
           /\ p.uid = o.uid /\ p.generation = o.generation + 1 /\ p.spec = s
           /\ p.finalizer = o.finalizer /\ p.deleting = o.deleting /\ p.status = o.status
<1>1. o.generation + 1 \in Nat \ {0}
  BY NodeFields
<1>2. [o EXCEPT !.spec = s, !.generation = @ + 1] \in Node
  BY <1>1 DEF Node
<1>3. QED
  BY <1>2 DEF Node

LEMMA EmptyStatusType ==
    EmptyStatus \in Status /\ EmptyStatus.phase = "Unset" /\ EmptyStatus.observed = 0
  BY DEF EmptyStatus, Status

LEMMA CreatedType ==
    ASSUME NEW u \in Nat, NEW s \in Specs
    PROVE  [uid |-> u + 1, generation |-> 1, spec |-> s, finalizer |-> FALSE,
            deleting |-> FALSE, status |-> EmptyStatus] \in Node
  BY EmptyStatusType DEF Node

-----------------------------------------------------------------------------
\* Lemmas about what is made for a node.

LEMMA WorkloadTypes ==
    ASSUME NEW s \in Specs, NEW n \in NetworkSpecs
    PROVE  StatefulSet(s, n) \in StatefulSets /\ Service(s, n) \in Services
  BY DEF StatefulSets, Services, Service

LEMMA OwnedFields ==
    ASSUME NEW k \in Kinds, NEW o \in Owned(k) \cup {Nothing}
    PROVE  /\ o.owner \in Nat
           /\ Present(o) => o \in Owned(k)
           /\ Nothing.owner = 0
  BY DEF Owned, Nothing, Present

\* The data of the objects of a kind.
DataOf(k) ==
    IF k = "statefulset" THEN StatefulSets
    ELSE IF k = "service" THEN Services ELSE Tokens

LEMMA OwnedType ==
    ASSUME NEW k \in Kinds, NEW u \in Nat \ {0}, NEW d \in DataOf(k)
    PROVE  [owner |-> u, data |-> d] \in Owned(k)
  BY DEF Owned, DataOf

LEMMA NewDataFields ==
    ASSUME NEW k \in Kinds, NEW o \in Owned(k), NEW d \in DataOf(k)
    PROVE  LET p == [o EXCEPT !.data = d] IN
           p \in Owned(k) /\ p.owner = o.owner /\ p.data = d
  BY DEF Owned, DataOf

LEMMA NewPortsFields ==
    ASSUME NEW o \in Owned("service"), NEW s \in Specs
    PROVE  LET p == [o EXCEPT !.data.ports = Ports(s)] IN
           /\ p \in Owned("service") /\ p.owner = o.owner
           /\ p.data.ports = Ports(s) /\ p.data.selector = o.data.selector
<1>1. Ports(s) \in {Ports(t) : t \in Specs}
  OBVIOUS
<1>2. [o EXCEPT !.data.ports = Ports(s)] \in Owned("service")
  BY <1>1 DEF Owned, Services
<1>3. QED
  BY <1>2 DEF Owned, Services

-----------------------------------------------------------------------------
\* What the steps of a reconcile yield.

\* Only an acceptable write is applied, and one that is answered without an
\* error is applied.
LEMMA CallOutcome ==
    ASSUME NEW ok \in BOOLEAN, NEW applied \in BOOLEAN, NEW error \in BOOLEAN,
           Call(ok, applied, error)
    PROVE  (applied => ok) /\ (applied \/ error)
<1>1. CASE ok
  BY <1>1, Zenon DEF Call
<1>2. CASE ~ok
  BY <1>2, Zenon DEF Call
<1>3. QED
  BY <1>1, <1>2

\* The node worked on after the step of kind k, and the step that is next.
LEMMA AfterFields ==
    ASSUME work \in Node, NEW k \in Kinds, NEW error \in BOOLEAN, After(k, error)
    PROVE  /\ work' \in Node
           /\ SameMetadata(work', work)
           /\ work'.status.observed \in {work.status.observed, work.generation}
           /\ pc' \in Kinds \cup {"status"}
           /\ \/ /\ ~error /\ k = "jwt" /\ work.spec.p2pKey = "generate"
                 /\ pc' = "p2p" /\ work' = work
              \/ /\ ~error /\ (k = "p2p" \/ (k = "jwt" /\ work.spec.p2pKey # "generate"))
                 /\ pc' = "statefulset"
                 /\ work'.status.phase = work.status.phase
                 /\ work'.status.conditions =
                      [work.status.conditions EXCEPT !["SecretsReady"] = "True"]
              \/ /\ ~error /\ k = "statefulset" /\ pc' = "service"
                 /\ work'.status.phase = work.status.phase
                 /\ work'.status.conditions =
                      [work.status.conditions EXCEPT !["StatefulSetReady"] = "True"]
              \/ /\ ~error /\ k = "service" /\ pc' = "status"
                 /\ work'.status.phase = "Running"
                 /\ work'.status.observed = work.generation
                 /\ work'.status.conditions =
                      [work.status.conditions EXCEPT !["ServiceReady"] = "True"]
              \/ /\ error /\ pc' = "status"
                 /\ work'.status.phase = "Error"
                 /\ work'.status.observed = work.generation
<1>1. {"SecretsReady", "StatefulSetReady", "ServiceReady"} \subseteq ConditionTypes
  BY DEF ConditionTypes
<1>2. CASE ~error /\ k = "jwt" /\ work.spec.p2pKey = "generate" /\ pc' = "p2p" /\ work' = work
  BY <1>2 DEF SameMetadata, Kinds
<1>3. CASE /\ ~error /\ (k = "p2p" \/ (k = "jwt" /\ work.spec.p2pKey # "generate"))
           /\ pc' = "statefulset" /\ work' = SetCondition(work, "SecretsReady", "True")
  BY <1>1, <1>3, SetConditionFields DEF Kinds
<1>4. CASE /\ ~error /\ k = "statefulset"
           /\ pc' = "service" /\ work' = SetCondition(work, "StatefulSetReady", "True")
  BY <1>1, <1>4, SetConditionFields DEF Kinds
<1>5. CASE /\ ~error /\ k = "service" /\ pc' = "status"
           /\ work' = Report(SetPhase(SetCondition(work, "ServiceReady", "True"), "Running"))
  <2> DEFINE c == SetCondition(work, "ServiceReady", "True")
             p == SetPhase(c, "Running")
  <2>1. /\ c \in Node /\ SameMetadata(c, work)
        /\ c.status.conditions = [work.status.conditions EXCEPT !["ServiceReady"] = "True"]
    BY <1>1, SetConditionFields
  <2> HIDE DEF c
  <2>2. /\ p \in Node /\ SameMetadata(p, c) /\ p.status.phase = "Running"
        /\ p.status.conditions = c.status.conditions
    BY <2>1, SetPhaseFields
  <2> HIDE DEF p
  <2>3. LET r == Report(p) IN
        /\ r \in Node /\ SameMetadata(r, p) /\ r.status.observed = p.generation
        /\ r.status.phase = p.status.phase /\ r.status.conditions = p.status.conditions
    BY <2>2, ReportFields
  <2>4. work' = Report(p)
    BY <1>5 DEF c, p
  <2>5. QED
    BY <1>5, <2>1, <2>2, <2>3, <2>4 DEF SameMetadata
<1>6. CASE error /\ pc' = "status" /\ work' = Report(Fail(work, Step(k), "Error"))
  <2> DEFINE p == Fail(work, Step(k), "Error")
  <2>1. Step(k) \in ConditionTypes
    BY <1>1 DEF Step
  <2>2. p \in Node /\ SameMetadata(p, work) /\ p.status.phase = "Error"
    BY <2>1, FailFields
  <2> HIDE DEF p
  <2>3. LET r == Report(p) IN
        /\ r \in Node /\ SameMetadata(r, p) /\ r.status.observed = p.generation
        /\ r.status.phase = p.status.phase
    BY <2>2, ReportFields
  <2>4. work' = Report(p)
    BY <1>6 DEF p
  <2>5. QED
    BY <1>6, <2>2, <2>3, <2>4 DEF SameMetadata
<1>7. QED
  BY <1>2, <1>3, <1>4, <1>5, <1>6, Zenon DEF After, Succeed

\* The object of kind k that its step writes: a secret that was not there, a
\* StatefulSet and a Service that are new or replace the current one.
Yields(k, o) ==
    /\ o \in Owned(k)
    /\ k \in {"jwt", "p2p"} => ~Present(owned[k]) /\ o.owner = work.uid
    /\ k = "statefulset" =>
         \E n \in target :
             /\ o.data = StatefulSet(work.spec, n)
             /\ \/ ~Present(owned[k]) /\ o.owner = work.uid
                \/ /\ Present(owned[k]) /\ o.owner = owned[k].owner
                   /\ SameImmutable(owned[k].data, o.data)
    /\ k = "service" =>
         \E n \in target :
             /\ o.data.ports = Ports(work.spec)
             /\ \/ /\ ~Present(owned[k]) /\ o.owner = work.uid
                   /\ o.data.selector = Labels(work.spec, n)
                \/ /\ Present(owned[k]) /\ o.owner = owned[k].owner
                   /\ o.data.selector = owned[k].data.selector

\* How the objects change: the one of kind k is written, or none is.
Written(k, o) ==
    /\ DOMAIN owned' = Kinds
    /\ owned'[k] = o
    /\ ownedFresh' \in [Kinds -> BOOLEAN]
    /\ ownedFresh'[k] => ownedFresh[k] /\ o = owned[k]
    /\ \A j \in Kinds : j # k => owned'[j] = owned[j] /\ ownedFresh'[j] = ownedFresh[j]
NotWritten == UNCHANGED <<owned, ownedFresh>>

LEMMA WriteEffect ==
    ASSUME TypeOK, NEW k \in Kinds, NEW ok \in BOOLEAN, NEW o, Write(k, ok, o)
    PROVE  /\ \/ ok /\ Written(k, o) /\ \E error \in BOOLEAN : After(k, error)
              \/ NotWritten /\ After(k, TRUE)
           /\ faults' \in 0 .. MaxFaults
<1>1. PICK applied \in BOOLEAN, error \in BOOLEAN :
        /\ Call(ok, applied, error)
        /\ IF applied THEN StoreOwned(k, o) ELSE UNCHANGED <<owned, ownedFresh>>
        /\ After(k, error)
  BY DEF Write
<1>2. (applied => ok) /\ (applied \/ error)
  BY <1>1, CallOutcome
<1>3. faults' \in 0 .. MaxFaults
  <2>1. faults' = faults \/ (faults < MaxFaults /\ faults' = faults + 1)
    BY <1>1, Zenon DEF Call
  <2>2. QED
    BY <2>1, BoundsAssumption DEF TypeOK
<1>4. ASSUME applied
      PROVE  Written(k, o)
  <2>1. StoreOwned(k, o)
    BY <1>1, <1>4
  <2>2. CASE o = owned[k]
    <3>1. UNCHANGED <<owned, ownedFresh>>
      BY <2>1, <2>2 DEF StoreOwned
    <3>2. QED
      BY <2>2, <3>1 DEF Written, TypeOK
  <2>3. CASE o # owned[k]
    BY <2>1, <2>3 DEF StoreOwned, Written, TypeOK
  <2>4. QED
    BY <2>2, <2>3
<1>5. QED
  BY <1>1, <1>2, <1>3, <1>4 DEF NotWritten

\* The step of an owned object: it is written, or it is not and the reconcile
\* fails, or it is a secret the cache has.
LEMMA ReconcileOwnedEffect ==
    ASSUME TypeOK, WorkExists, FreshIsCurrent, ReconcileOwned
    PROVE  /\ pc \in Kinds /\ work \in Node
           /\ UNCHANGED <<nodeVars, ownedCache, networkVars, queueVars, target, attempts, lastUid>>
           /\ faults' \in 0 .. MaxFaults
           /\ \/ \E o : /\ Yields(pc, o) /\ Written(pc, o)
                        /\ \E error \in BOOLEAN : After(pc, error)
              \/ NotWritten /\ After(pc, TRUE)
              \/ /\ NotWritten /\ After(pc, FALSE)
                 /\ pc \in {"jwt", "p2p"} /\ Present(ownedCache[pc])
<1>1. /\ pc \in Kinds
      /\ UNCHANGED <<nodeVars, ownedCache, networkVars, queueVars, target, attempts, lastUid>>
  BY DEF ReconcileOwned, Kinds
<1>2. work \in Node /\ work.uid \in Nat \ {0} /\ work.spec \in Specs
  <2>1. work \in Node
    BY <1>1, ExistingIsNode DEF TypeOK, WorkExists, Kinds
  <2>2. QED
    BY <2>1, NodeFields
<1>3. ASSUME NEW ok \in BOOLEAN, NEW o, Write(pc, ok, o), ok => Yields(pc, o)
      PROVE  /\ faults' \in 0 .. MaxFaults
             /\ \/ \E p : /\ Yields(pc, p) /\ Written(pc, p)
                          /\ \E error \in BOOLEAN : After(pc, error)
                \/ NotWritten /\ After(pc, TRUE)
  BY <1>1, <1>3, WriteEffect
<1>4. CASE pc \in {"jwt", "p2p"} /\ ReconcileSecret(pc)
  <2>1. CASE Present(ownedCache[pc])
    BY <1>1, <1>2, <1>4, <2>1 DEF ReconcileSecret, NotWritten, TypeOK
  <2>2. CASE ~Present(ownedCache[pc])
    <3>1. PICK t \in Tokens : Write(pc, ~Present(owned[pc]), New(t))
      BY <1>4, <2>2 DEF ReconcileSecret
    <3>2. New(t) \in Owned(pc) /\ New(t).owner = work.uid
      BY <1>1, <1>2, <1>4, OwnedType DEF New, DataOf
    <3>3. ~Present(owned[pc]) => Yields(pc, New(t))
      BY <1>4, <3>2 DEF Yields
    <3>4. (~Present(owned[pc])) \in BOOLEAN
      OBVIOUS
    <3>5. QED
      BY <1>1, <1>2, <1>3, <3>1, <3>3, <3>4
  <2>3. QED
    BY <2>1, <2>2
<1>5. CASE pc = "statefulset" /\ \E n \in target : ReconcileStatefulSet(StatefulSet(work.spec, n))
  <2> DEFINE k == "statefulset"
             current == ownedCache[k]
  <2>1. PICK n \in target : ReconcileStatefulSet(StatefulSet(work.spec, n))
    BY <1>5
  <2> DEFINE data == StatefulSet(work.spec, n)
  <2>2. data \in DataOf(k)
    BY <1>2, WorkloadTypes DEF DataOf, TypeOK
  <2> HIDE DEF data
  <2>3. CASE ~Present(current)
    <3>1. Write(k, ~Present(owned[k]), New(data))
      BY <2>1, <2>3 DEF ReconcileStatefulSet, data
    <3>2. New(data) \in Owned(k) /\ New(data).owner = work.uid /\ New(data).data = data
      BY <1>2, <2>2, OwnedType DEF New, Kinds
    <3>3. ~Present(owned[k]) => Yields(k, New(data))
      BY <3>2 DEF Yields, data
    <3>4. (~Present(owned[k])) \in BOOLEAN
      OBVIOUS
    <3>5. QED
      BY <1>1, <1>2, <1>3, <1>5, <3>1, <3>3, <3>4
  <2>4. CASE Present(current)
    <3> DEFINE o == [current EXCEPT !.data = data]
               ok == ownedFresh[k] /\ SameImmutable(current.data, data)
    <3>1. Write(k, ok, o)
      BY <2>1, <2>4 DEF ReconcileStatefulSet, data
    <3>2. current \in Owned(k)
      BY <2>4, OwnedFields DEF TypeOK, Kinds
    <3>3. o \in Owned(k) /\ o.owner = current.owner /\ o.data = data
      BY <2>2, <3>2, NewDataFields DEF Kinds
    <3>4. ownedFresh[k] => owned[k] = current
      BY DEF FreshIsCurrent, Kinds
    <3>5. ok \in BOOLEAN
      BY Zenon DEF SameImmutable, TypeOK, Kinds
    <3> HIDE DEF o
    <3>6. ok => Yields(k, o)
      BY <2>4, <3>3, <3>4 DEF Yields, data
    <3> HIDE DEF ok
    <3>7. QED
      BY <1>1, <1>2, <1>3, <1>5, <3>1, <3>5, <3>6
  <2>5. QED
    BY <2>3, <2>4
<1>6. CASE pc = "service" /\ \E n \in target : ReconcileService(Service(work.spec, n))
  <2> DEFINE k == "service"
             current == ownedCache[k]
  <2>1. PICK n \in target : ReconcileService(Service(work.spec, n))
    BY <1>6
  <2> DEFINE data == Service(work.spec, n)
  <2>2. /\ data \in DataOf(k)
        /\ data.ports = Ports(work.spec) /\ data.selector = Labels(work.spec, n)
    BY <1>2, WorkloadTypes DEF DataOf, TypeOK, Service
  <2> HIDE DEF data
  <2>3. CASE ~Present(current)
    <3>1. Write(k, ~Present(owned[k]), New(data))
      BY <2>1, <2>3 DEF ReconcileService, data
    <3>2. New(data) \in Owned(k) /\ New(data).owner = work.uid /\ New(data).data = data
      BY <1>2, <2>2, OwnedType DEF New, Kinds
    <3>3. ~Present(owned[k]) => Yields(k, New(data))
      BY <2>2, <3>2 DEF Yields
    <3>4. (~Present(owned[k])) \in BOOLEAN
      OBVIOUS
    <3>5. QED
      BY <1>1, <1>2, <1>3, <1>6, <3>1, <3>3, <3>4
  <2>4. CASE Present(current)
    <3> DEFINE o == [current EXCEPT !.data.ports = data.ports]
    <3>1. Write(k, ownedFresh[k], o)
      BY <2>1, <2>4 DEF ReconcileService, data
    <3>2. current \in Owned(k)
      BY <2>4, OwnedFields DEF TypeOK, Kinds
    <3>3. /\ o \in Owned(k) /\ o.owner = current.owner
          /\ o.data.ports = Ports(work.spec) /\ o.data.selector = current.data.selector
      BY <1>2, <2>2, <3>2, NewPortsFields
    <3>4. ownedFresh[k] => owned[k] = current
      BY DEF FreshIsCurrent, Kinds
    <3>5. ownedFresh[k] \in BOOLEAN
      BY DEF TypeOK, Kinds
    <3> HIDE DEF o
    <3>6. ownedFresh[k] => Yields(k, o)
      BY <2>4, <3>3, <3>4 DEF Yields
    <3>7. QED
      BY <1>1, <1>2, <1>3, <1>6, <3>1, <3>5, <3>6
  <2>5. QED
    BY <2>3, <2>4
<1>7. QED
  BY <1>4, <1>5, <1>6 DEF ReconcileOwned

\* A reconcile that stops before it touches an owned object reports that on
\* the generation it read.
LEMMA StopWithFields ==
    ASSUME NEW o \in Node, StopWith(o)
    PROVE  /\ pc' = "status" /\ target' = {}
           /\ work' \in Node /\ SameMetadata(work', o)
           /\ work'.status.observed = o.generation
           /\ work'.status.phase = o.status.phase
<1>1. work' = Report(o) /\ pc' = "status" /\ target' = {}
  BY DEF StopWith, Report
<1>2. QED
  BY <1>1, ReportFields

LEMMA FetchNetworkFields ==
    ASSUME TypeOK, NEW o \in Node, FetchNetwork(o)
    PROVE  /\ work' \in Node /\ SameMetadata(work', o)
           /\ \/ /\ pc' = "status" /\ target' = {}
                 /\ work'.status.observed = o.generation
                 /\ work'.status.phase \in {"Pending", "Error"}
              \/ /\ pc' = "jwt"
                 /\ Refers(o.spec)
                 /\ \E n \in networkCache : n.ready /\ target' = {n.spec}
                 /\ work'.status.observed = o.status.observed
                 /\ work'.status.phase = "Initializing"
                 /\ work'.status.conditions =
                      [[o.status.conditions EXCEPT !["NetworkReference"] = "True"]
                       EXCEPT !["NetworkReady"] = "True"]
<1>1. {"NetworkReference", "NetworkReady"} \subseteq ConditionTypes
  BY DEF ConditionTypes
<1> DEFINE found == {n \in networkCache : Refers(o.spec)}
           referred == SetCondition(o, "NetworkReference", "True")
<1>2. /\ referred \in Node /\ SameMetadata(referred, o)
      /\ referred.status.observed = o.status.observed
      /\ referred.status.conditions = [o.status.conditions EXCEPT !["NetworkReference"] = "True"]
  BY <1>1, SetConditionFields
<1>3. \/ StopWith(Fail(o, "NetworkReference", "Error"))
      \/ StopWith(Fail(referred, "NetworkReady", "Pending"))
      \/ \E n \in found :
           /\ n.ready
           /\ work' = SetPhase(SetCondition(referred, "NetworkReady", "True"), "Initializing")
           /\ target' = {n.spec}
           /\ pc' = "jwt"
  BY DEF FetchNetwork
<1> HIDE DEF referred
<1>4. CASE StopWith(Fail(o, "NetworkReference", "Error"))
  <2> DEFINE f == Fail(o, "NetworkReference", "Error")
  <2>1. f \in Node /\ SameMetadata(f, o) /\ f.status.phase = "Error"
    BY <1>1, FailFields
  <2> HIDE DEF f
  <2>2. StopWith(f)
    BY <1>4 DEF f
  <2>3. QED
    BY <2>1, <2>2, StopWithFields DEF SameMetadata
<1>5. CASE StopWith(Fail(referred, "NetworkReady", "Pending"))
  <2> DEFINE f == Fail(referred, "NetworkReady", "Pending")
  <2>1. f \in Node /\ SameMetadata(f, referred) /\ f.status.phase = "Pending"
    BY <1>1, <1>2, FailFields
  <2> HIDE DEF f
  <2>2. StopWith(f)
    BY <1>5 DEF f
  <2>3. QED
    BY <1>2, <2>1, <2>2, StopWithFields DEF SameMetadata
<1>6. CASE \E n \in found :
             /\ n.ready
             /\ work' = SetPhase(SetCondition(referred, "NetworkReady", "True"), "Initializing")
             /\ target' = {n.spec}
             /\ pc' = "jwt"
  <2> DEFINE c == SetCondition(referred, "NetworkReady", "True")
  <2>1. /\ c \in Node /\ SameMetadata(c, referred)
        /\ c.status.observed = referred.status.observed
        /\ c.status.conditions = [referred.status.conditions EXCEPT !["NetworkReady"] = "True"]
    BY <1>1, <1>2, SetConditionFields
  <2>2. work' = SetPhase(c, "Initializing") /\ pc' = "jwt"
        /\ Refers(o.spec)
        /\ \E n \in networkCache : n.ready /\ target' = {n.spec}
    BY <1>6
  <2> HIDE DEF c
  <2>3. LET p == SetPhase(c, "Initializing") IN
        /\ p \in Node /\ SameMetadata(p, c)
        /\ p.status.observed = c.status.observed
        /\ p.status.phase = "Initializing"
        /\ p.status.conditions = c.status.conditions
    BY <2>1, SetPhaseFields
  <2>4. QED
    BY <1>2, <2>1, <2>2, <2>3 DEF SameMetadata
<1>7. QED
  BY <1>3, <1>4, <1>5, <1>6

LEMMA ValidateEffect ==
    ASSUME TypeOK, Validate
    PROVE  /\ UNCHANGED <<nodeVars, ownedVars, networkVars, timer, attempts, lastUid, faults>>
           /\ queued' = FALSE /\ pc = "idle"
           /\ nodeCache \in Node /\ ~nodeCache.deleting /\ nodeCache.finalizer
           /\ work' \in Node /\ SameMetadata(work', nodeCache)
           /\ \/ /\ pc' = "status" /\ target' = {}
                 /\ work'.status.observed = nodeCache.generation
                 /\ work'.status.phase \in {"Pending", "Error"}
              \/ /\ pc' = "jwt"
                 /\ Deployable(nodeCache.spec)
                 /\ \E n \in networkCache : n.ready /\ target' = {n.spec}
                 /\ work'.status.observed = nodeCache.status.observed
                 /\ work'.status.phase = "Initializing"
                 /\ \A c \in {"ConfigurationValid", "NetworkReference", "NetworkReady"} :
                      work'.status.conditions[c] = "True"
<1>1. /\ UNCHANGED <<nodeVars, ownedVars, networkVars, timer, attempts, lastUid, faults>>
      /\ queued' = FALSE /\ pc = "idle"
      /\ nodeCache \in Node /\ ~nodeCache.deleting /\ nodeCache.finalizer
  BY ExistingIsNode DEF Validate, Begin, TypeOK
<1>2. {"ConfigurationValid", "NetworkReference", "NetworkReady"} \subseteq ConditionTypes
  BY DEF ConditionTypes
<1>3. CASE StopWith(Fail(nodeCache, "ConfigurationValid", "Error"))
  <2> DEFINE f == Fail(nodeCache, "ConfigurationValid", "Error")
  <2>1. f \in Node /\ SameMetadata(f, nodeCache) /\ f.status.phase = "Error"
    BY <1>1, <1>2, FailFields
  <2> HIDE DEF f
  <2>2. StopWith(f)
    BY <1>3 DEF f
  <2>3. QED
    BY <1>1, <2>1, <2>2, StopWithFields DEF SameMetadata
<1>4. CASE /\ ValidNode(nodeCache.spec)
           /\ FetchNetwork(SetCondition(nodeCache, "ConfigurationValid", "True"))
  <2> DEFINE c == SetCondition(nodeCache, "ConfigurationValid", "True")
  <2>1. /\ c \in Node /\ SameMetadata(c, nodeCache)
        /\ c.status.observed = nodeCache.status.observed
        /\ c.status.conditions = [nodeCache.status.conditions EXCEPT !["ConfigurationValid"] = "True"]
    BY <1>1, <1>2, SetConditionFields
  <2> HIDE DEF c
  <2>2. FetchNetwork(c)
    BY <1>4 DEF c
  <2>3. work' \in Node /\ SameMetadata(work', nodeCache)
    BY <2>1, <2>2, FetchNetworkFields DEF SameMetadata
  <2>4. CASE /\ pc' = "status" /\ target' = {}
             /\ work'.status.observed = c.generation
             /\ work'.status.phase \in {"Pending", "Error"}
    BY <1>1, <2>1, <2>3, <2>4 DEF SameMetadata
  <2>5. CASE /\ pc' = "jwt"
             /\ Refers(c.spec)
             /\ \E n \in networkCache : n.ready /\ target' = {n.spec}
             /\ work'.status.observed = c.status.observed
             /\ work'.status.phase = "Initializing"
             /\ work'.status.conditions =
                  [[c.status.conditions EXCEPT !["NetworkReference"] = "True"]
                   EXCEPT !["NetworkReady"] = "True"]
    <3>1. nodeCache.status.conditions \in [ConditionTypes -> {"Unset", "True", "False"}]
      BY <1>1, NodeFields
    <3>2. \A t \in {"ConfigurationValid", "NetworkReference", "NetworkReady"} :
            work'.status.conditions[t] = "True"
      BY <1>2, <2>1, <2>5, <3>1
    <3>3. Deployable(nodeCache.spec)
      BY <1>4, <2>1, <2>5 DEF Deployable, SameMetadata
    <3>4. QED
      BY <1>1, <2>1, <2>3, <2>5, <3>2, <3>3
  <2>6. QED
    BY <2>1, <2>2, <2>4, <2>5, FetchNetworkFields
<1>5. QED
  BY <1>3, <1>4 DEF Validate

\* The finalizer is added to the current node or to none.
LEMMA AddFinalizerEffect ==
    ASSUME TypeOK, FreshIsCurrent, AddFinalizer
    PROVE  /\ UNCHANGED <<nodeCache, ownedVars, networkVars, queueVars, workerVars, lastUid>>
           /\ pc = "idle" /\ faults' \in 0 .. MaxFaults
           /\ \/ UNCHANGED <<node, nodeFresh>>
              \/ /\ node \in Node /\ nodeCache = node /\ ~node.deleting
                 /\ node' = [node EXCEPT !.finalizer = TRUE] /\ nodeFresh' = FALSE
<1>1. PICK applied \in BOOLEAN, error \in BOOLEAN :
        /\ Call(nodeFresh, applied, error)
        /\ IF applied THEN StoreNode([nodeCache EXCEPT !.finalizer = TRUE])
                      ELSE UNCHANGED <<node, nodeFresh>>
  BY DEF AddFinalizer
<1>2. /\ UNCHANGED <<nodeCache, ownedVars, networkVars, queueVars, workerVars, lastUid>>
      /\ pc = "idle" /\ Exists(nodeCache) /\ ~nodeCache.deleting
  BY DEF AddFinalizer, Begin
<1>3. faults' \in 0 .. MaxFaults
  <2>1. faults' = faults \/ (faults < MaxFaults /\ faults' = faults + 1)
    BY <1>1, Zenon DEF Call
  <2>2. QED
    BY <2>1, BoundsAssumption DEF TypeOK
<1>4. CASE applied
  <2>1. nodeFresh
    BY <1>1, <1>4, CallOutcome DEF TypeOK
  <2>2. node \in Node /\ nodeCache = node
    BY <1>2, <2>1, ExistingIsNode DEF FreshIsCurrent, TypeOK
  <2>3. node' = [nodeCache EXCEPT !.finalizer = TRUE] /\ nodeFresh' = FALSE
    BY <1>1, <1>4, Zenon DEF StoreNode
  <2>4. QED
    BY <1>2, <1>3, <2>2, <2>3
<1>5. CASE ~applied
  BY <1>1, <1>2, <1>3, <1>5
<1>6. QED
  BY <1>4, <1>5

\* Only a node that is marked for deletion loses its finalizer, and goes.
LEMMA HandleDeletionEffect ==
    ASSUME TypeOK, FreshIsCurrent, HandleDeletion
    PROVE  /\ UNCHANGED <<nodeCache, ownedVars, networkVars, timer, workerVars, lastUid>>
           /\ pc = "idle" /\ faults' \in 0 .. MaxFaults /\ queued' \in BOOLEAN
           /\ \/ UNCHANGED <<node, nodeFresh>>
              \/ node \in Node /\ node.deleting /\ node' = NoNode /\ nodeFresh' = FALSE
<1>1. PICK applied \in BOOLEAN, error \in BOOLEAN :
        /\ Call(nodeFresh, applied, error)
        /\ IF applied THEN StoreNode(NoNode) ELSE UNCHANGED <<node, nodeFresh>>
        /\ queued' = error
  BY DEF HandleDeletion
<1>2. /\ UNCHANGED <<nodeCache, ownedVars, networkVars, timer, workerVars, lastUid>>
      /\ pc = "idle" /\ Exists(nodeCache) /\ nodeCache.deleting
  BY DEF HandleDeletion, Begin
<1>3. faults' \in 0 .. MaxFaults
  <2>1. faults' = faults \/ (faults < MaxFaults /\ faults' = faults + 1)
    BY <1>1, Zenon DEF Call
  <2>2. QED
    BY <2>1, BoundsAssumption DEF TypeOK
<1>4. CASE applied
  <2>1. nodeFresh
    BY <1>1, <1>4, CallOutcome DEF TypeOK
  <2>2. node \in Node /\ nodeCache = node
    BY <1>2, <2>1, ExistingIsNode DEF FreshIsCurrent, TypeOK
  <2>3. node' = NoNode /\ nodeFresh' = FALSE
    BY <1>1, <1>4, Zenon DEF StoreNode
  <2>4. QED
    BY <1>1, <1>2, <1>3, <2>2, <2>3
<1>5. CASE ~applied
  BY <1>1, <1>2, <1>3, <1>5
<1>6. QED
  BY <1>4, <1>5

\* The end of a reconcile: the status of the node is that of the node worked
\* on, or nothing was written.
LEMMA WriteStatusEffect ==
    ASSUME TypeOK, WorkExists, FreshIsCurrent, WriteStatus
    PROVE  /\ UNCHANGED <<nodeCache, ownedVars, networkVars, lastUid>>
           /\ pc = "status" /\ work \in Node
           /\ faults' \in 0 .. MaxFaults /\ attempts' \in 0 .. MaxAttempts - 1
           /\ queued' = queued /\ timer' \in BOOLEAN
           /\ \/ UNCHANGED <<pc, work, target>>
              \/ pc' = "idle" /\ work' = NoNode /\ target' = {}
           /\ \/ UNCHANGED <<node, nodeFresh>>
              \/ /\ pc' = "idle" /\ nodeFresh' = FALSE
                 /\ node \in Node /\ nodeCache = node
                 /\ node' \in Node /\ SameMetadata(node', node)
                 /\ node'.status = work.status
<1>1. UNCHANGED <<nodeCache, ownedVars, networkVars, lastUid>> /\ pc = "status"
  BY DEF WriteStatus
<1>2. work \in Node /\ work.status \in Status
  <2>1. work \in Node
    BY <1>1, ExistingIsNode DEF TypeOK, WorkExists
  <2>2. QED
    BY <2>1, NodeFields
<1>3. ASSUME Return
      PROVE  /\ pc' = "idle" /\ work' = NoNode /\ target' = {}
             /\ attempts' \in 0 .. MaxAttempts - 1
             /\ queued' = queued /\ timer' \in BOOLEAN
  BY <1>3, BoundsAssumption DEF Return
<1>4. ASSUME Exists(nodeCache), nodeFresh, StoreStatus
      PROVE  \/ UNCHANGED <<node, nodeFresh>>
             \/ /\ nodeFresh' = FALSE
                /\ node \in Node /\ nodeCache = node
                /\ node' \in Node /\ SameMetadata(node', node)
                /\ node'.status = work.status
  <2>1. nodeCache = node /\ node \in Node
    BY <1>4, ExistingIsNode DEF FreshIsCurrent, TypeOK
  <2>2. LET p == [node EXCEPT !.status = work.status] IN
          p \in Node /\ SameMetadata(p, node) /\ p.status = work.status
    BY <1>2, <2>1, NewStatusFields
  <2>3. QED
    BY <1>4, <2>1, <2>2 DEF StoreStatus, StoreNode
<1>5. CASE Exists(nodeCache) /\ StatusStored
  BY <1>1, <1>2, <1>3, <1>4, <1>5 DEF StatusStored, TypeOK
<1>6. CASE StatusConflict
  <2>1. CASE attempts < MaxAttempts - 1
    BY <1>1, <1>2, <1>6, <2>1, BoundsAssumption DEF StatusConflict, TypeOK, queueVars
  <2>2. CASE ~(attempts < MaxAttempts - 1)
    BY <1>1, <1>2, <1>3, <1>6, <2>2 DEF StatusConflict, TypeOK
  <2>3. QED
    BY <2>1, <2>2
<1>7. CASE StatusNotFound
  BY <1>1, <1>2, <1>3, <1>7 DEF StatusNotFound, TypeOK
<1>8. CASE StatusFault
  <2>1. faults' \in 0 .. MaxFaults
    BY <1>8, BoundsAssumption DEF StatusFault, TypeOK
  <2>2. QED
    BY <1>1, <1>2, <1>3, <1>4, <1>8, <2>1 DEF StatusFault
<1>9. QED
  BY <1>5, <1>6, <1>7, <1>8 DEF WriteStatus

-----------------------------------------------------------------------------
\* Type correctness, with two facts it leans on: a reconcile in progress has a
\* node, and a copy whose resourceVersion is current is current.

Typed == TypeOK /\ WorkExists /\ FreshIsCurrent

LEMMA NetworkStepType ==
    ASSUME network \in Networks!Object \cup {NoNode}, Networks!Next
    PROVE  network' \in Networks!Object \cup {NoNode}
<1>1. network.uid # 0 => network \in Networks!Object
  BY DEF NoNode
<1>2. CASE Networks!Create
  BY <1>2 DEF Networks!Create, Networks!Object
<1>3. CASE Networks!Edit
  <2>1. network \in Networks!Object /\ network.generation + 1 \in Nat
    BY <1>1, <1>3 DEF Networks!Edit, Networks!Object
  <2>2. QED
    BY <1>3, <2>1 DEF Networks!Edit, Networks!Object
<1>4. CASE Networks!RequestDeletion
  <2>1. network \in Networks!Object /\ network.generation + 1 \in Nat
    BY <1>1, <1>4 DEF Networks!RequestDeletion, Networks!Object
  <2>2. QED
    BY <1>4, <2>1 DEF Networks!RequestDeletion, Networks!Object
<1>5. CASE Networks!Vanish
  BY <1>5 DEF Networks!Vanish, Networks!Nothing, NoNode
<1>6. CASE Networks!Report
  <2>1. PICK p \in {"Error", "Ready"}, g \in 0 .. network.generation :
          network' = [network EXCEPT !.phase = p, !.observed = g]
    BY <1>6 DEF Networks!Report
  <2>2. network \in Networks!Object /\ g \in Nat
    BY <1>1, <1>6 DEF Networks!Report, Networks!Object
  <2>3. QED
    BY <2>1, <2>2 DEF Networks!Object
<1>7. QED
  BY <1>2, <1>3, <1>4, <1>5, <1>6 DEF Networks!Next

LEMMA SeenType ==
    ASSUME TypeOK
    PROVE  Seen(network) \in Sights
<1>1. Exists(network) => network \in Networks!Object
  BY DEF TypeOK, Exists, NoNode
<1>2. QED
  BY <1>1 DEF Seen, Sights, Networks!Object

LEMMA TypedInit == Init => Typed
<1>1. 0 \in 0 .. MaxAttempts - 1 /\ 0 \in 0 .. MaxUid /\ 0 \in 0 .. MaxFaults
  BY BoundsAssumption
<1>2. QED
  BY <1>1 DEF Init, Typed, TypeOK, WorkExists, FreshIsCurrent, Networks!Init,
     Networks!Nothing, NoNode, Sights, Networks!Object

\* Steps that leave the owned objects and their copies alone.
LEMMA OwnedUnchanged ==
    ASSUME Typed, UNCHANGED ownedVars,
           node' \in Node \cup {NoNode}, nodeCache' \in Node \cup {NoNode},
           nodeFresh' \in BOOLEAN, nodeFresh' => nodeCache' = node',
           network' \in Networks!Object \cup {NoNode}, networkCache' \in Sights,
           queued' \in BOOLEAN, timer' \in BOOLEAN,
           pc' \in {"idle", "status"} \cup Kinds, work' \in Node \cup {NoNode},
           pc' # "idle" => Exists(work'),
           target' \in SUBSET NetworkSpecs, attempts' \in 0 .. MaxAttempts - 1,
           lastUid' \in 0 .. MaxUid, faults' \in 0 .. MaxFaults
    PROVE  Typed'
  BY DEF Typed, TypeOK, WorkExists, FreshIsCurrent, ownedVars

\* Steps that leave everything alone but them.
LEMMA OthersUnchanged ==
    ASSUME Typed, UNCHANGED <<nodeVars, network, networkCache, timer, workerVars, lastUid>>,
           queued' \in BOOLEAN, faults' \in 0 .. MaxFaults,
           DOMAIN owned' = Kinds, DOMAIN ownedCache' = Kinds,
           ownedFresh' \in [Kinds -> BOOLEAN],
           \A k \in Kinds : /\ owned'[k] \in Owned(k) \cup {Nothing}
                            /\ ownedCache'[k] \in Owned(k) \cup {Nothing}
                            /\ ownedFresh'[k] => ownedCache'[k] = owned'[k]
    PROVE  Typed'
  BY DEF Typed, TypeOK, WorkExists, FreshIsCurrent, nodeVars, workerVars

LEMMA TypedOwned ==
    ASSUME Typed, ReconcileOwned
    PROVE  Typed'
<1>1. /\ pc \in Kinds /\ work \in Node
      /\ UNCHANGED <<nodeVars, ownedCache, networkVars, queueVars, target, attempts, lastUid>>
      /\ faults' \in 0 .. MaxFaults
  BY ReconcileOwnedEffect DEF Typed
<1>2. work' \in Node /\ pc' \in Kinds \cup {"status"} /\ Exists(work')
  BY ReconcileOwnedEffect, AfterFields, NodeExists DEF Typed
<1>3. (\E o : Yields(pc, o) /\ Written(pc, o)) \/ NotWritten
  BY ReconcileOwnedEffect DEF Typed
<1>4. /\ DOMAIN owned' = Kinds /\ ownedFresh' \in [Kinds -> BOOLEAN]
      /\ \A k \in Kinds : /\ owned'[k] \in Owned(k) \cup {Nothing}
                          /\ ownedFresh'[k] => ownedCache[k] = owned'[k]
  <2>1. CASE NotWritten
    BY <2>1 DEF NotWritten, Typed, TypeOK, FreshIsCurrent
  <2>2. ASSUME NEW o, Yields(pc, o), Written(pc, o)
        PROVE  /\ DOMAIN owned' = Kinds /\ ownedFresh' \in [Kinds -> BOOLEAN]
               /\ \A k \in Kinds : /\ owned'[k] \in Owned(k) \cup {Nothing}
                                   /\ ownedFresh'[k] => ownedCache[k] = owned'[k]
    <3>1. o \in Owned(pc)
      BY <2>2 DEF Yields
    <3>2. QED
      BY <1>1, <2>2, <3>1 DEF Written, Typed, TypeOK, FreshIsCurrent
  <2>3. QED
    BY <1>3, <2>1, <2>2
<1>5. QED
  BY <1>1, <1>2, <1>4 DEF Typed, TypeOK, WorkExists, FreshIsCurrent, nodeVars, networkVars,
     queueVars

LEMMA CountersType ==
    ASSUME TypeOK
    PROVE  /\ 0 \in 0 .. MaxAttempts - 1
           /\ faults < MaxFaults => faults + 1 \in 0 .. MaxFaults
           /\ lastUid < MaxUid => lastUid + 1 \in 0 .. MaxUid
           /\ lastUid \in Nat
  BY BoundsAssumption DEF TypeOK

LEMMA NodeStoredType ==
    ASSUME TypeOK, FreshIsCurrent, nodeCache' = nodeCache,
           \/ node' = node /\ nodeFresh' = nodeFresh
           \/ node' \in Node \cup {NoNode} /\ nodeFresh' = FALSE
    PROVE  /\ node' \in Node \cup {NoNode} /\ nodeFresh' \in BOOLEAN
           /\ nodeFresh' => nodeCache' = node'
<1>1. CASE node' = node /\ nodeFresh' = nodeFresh
  BY <1>1 DEF TypeOK, FreshIsCurrent
<1>2. CASE node' \in Node \cup {NoNode} /\ nodeFresh' = FALSE
  BY <1>2
<1>3. QED
  BY <1>1, <1>2

LEMMA TypedReconcile ==
    ASSUME Typed, Reconcile
    PROVE  Typed'
<1>1. TypeOK /\ WorkExists /\ FreshIsCurrent
  BY DEF Typed
<1>2. CASE FetchNothing
  BY <1>1, <1>2, OwnedUnchanged DEF FetchNothing, nodeVars, networkVars, workerVars,
     TypeOK, WorkExists, FreshIsCurrent
<1>3. CASE HandleDeletion
  <2>1. /\ UNCHANGED <<nodeCache, ownedVars, networkVars, timer, workerVars, lastUid>>
        /\ pc = "idle" /\ faults' \in 0 .. MaxFaults /\ queued' \in BOOLEAN
        /\ \/ UNCHANGED <<node, nodeFresh>>
           \/ node' = NoNode /\ nodeFresh' = FALSE
    BY <1>1, <1>3, HandleDeletionEffect
  <2>2. /\ node' \in Node \cup {NoNode} /\ nodeFresh' \in BOOLEAN
        /\ nodeFresh' => nodeCache' = node'
    BY <1>1, <2>1, NodeStoredType
  <2>3. QED
    BY <1>1, <2>1, <2>2, OwnedUnchanged DEF networkVars, workerVars, TypeOK, WorkExists
<1>4. CASE AddFinalizer
  <2>1. /\ UNCHANGED <<nodeCache, ownedVars, networkVars, queueVars, workerVars, lastUid>>
        /\ pc = "idle" /\ faults' \in 0 .. MaxFaults
        /\ \/ UNCHANGED <<node, nodeFresh>>
           \/ node' \in Node /\ nodeFresh' = FALSE
    BY <1>1, <1>4, AddFinalizerEffect, FinalizerFields
  <2>2. /\ node' \in Node \cup {NoNode} /\ nodeFresh' \in BOOLEAN
        /\ nodeFresh' => nodeCache' = node'
    BY <1>1, <2>1, NodeStoredType
  <2>3. QED
    BY <1>1, <2>1, <2>2, OwnedUnchanged DEF networkVars, queueVars, workerVars,
       TypeOK, WorkExists
<1>5. CASE Validate
  <2>1. /\ UNCHANGED <<nodeVars, ownedVars, networkVars, timer, attempts, lastUid, faults>>
        /\ queued' = FALSE /\ work' \in Node
        /\ \/ pc' = "status" /\ target' = {}
           \/ pc' = "jwt" /\ \E n \in networkCache : target' = {n.spec}
    BY <1>1, <1>5, ValidateEffect
  <2>2. target' \in SUBSET NetworkSpecs /\ pc' \in {"status"} \cup Kinds
    BY <1>1, <2>1 DEF TypeOK, Sights, Kinds
  <2>3. QED
    BY <1>1, <2>1, <2>2, NodeExists, OwnedUnchanged DEF nodeVars, networkVars,
       TypeOK, WorkExists, FreshIsCurrent
<1>6. CASE WriteStatus
  <2>1. /\ UNCHANGED <<nodeCache, ownedVars, networkVars, lastUid>>
        /\ pc = "status" /\ work \in Node
        /\ faults' \in 0 .. MaxFaults /\ attempts' \in 0 .. MaxAttempts - 1
        /\ queued' = queued /\ timer' \in BOOLEAN
        /\ \/ UNCHANGED <<pc, work, target>>
           \/ pc' = "idle" /\ work' = NoNode /\ target' = {}
        /\ \/ UNCHANGED <<node, nodeFresh>>
           \/ node' \in Node /\ nodeFresh' = FALSE
    BY <1>1, <1>6, WriteStatusEffect
  <2>2. /\ node' \in Node \cup {NoNode} /\ nodeFresh' \in BOOLEAN
        /\ nodeFresh' => nodeCache' = node'
    BY <1>1, <2>1, NodeStoredType
  <2>3. QED
    BY <1>1, <2>1, <2>2, OwnedUnchanged DEF networkVars, TypeOK, WorkExists
<1>7. QED
  BY <1>2, <1>3, <1>4, <1>5, <1>6, TypedOwned DEF Reconcile

LEMMA TypedEnvironment ==
    ASSUME Typed, Environment
    PROVE  Typed'
<1>1. TypeOK /\ WorkExists /\ FreshIsCurrent
  BY DEF Typed
<1> USE <1>1, CountersType
<1>2. Exists(node) => node \in Node
  BY ExistingIsNode DEF TypeOK
<1>3. ASSUME UNCHANGED <<nodeCache, ownedVars, networkVars, queueVars, workerVars, faults>>,
             node' \in Node \cup {NoNode}, nodeFresh' = FALSE, lastUid' \in 0 .. MaxUid
      PROVE  Typed'
  BY <1>3, OwnedUnchanged DEF networkVars, queueVars, workerVars, TypeOK, WorkExists
<1>4. ASSUME NEW s \in Specs, UserCreate(s)
      PROVE  Typed'
  <2>1. [uid |-> lastUid + 1, generation |-> 1, spec |-> s, finalizer |-> FALSE,
         deleting |-> FALSE, status |-> EmptyStatus] \in Node
    BY CreatedType
  <2>2. QED
    BY <1>3, <1>4, <2>1 DEF UserCreate, StoreNode
<1>5. ASSUME NEW s \in Specs, UserEdit(s)
      PROVE  Typed'
  BY <1>2, <1>3, <1>5, EditFields DEF UserEdit, StoreNode, TypeOK
<1>6. CASE UserDelete
  BY <1>2, <1>3, <1>6, DeletionFields DEF UserDelete, StoreNode, TypeOK
<1>7. ASSUME NEW k \in Kinds, CollectOwned(k)
      PROVE  Typed'
  BY <1>7, OthersUnchanged DEF CollectOwned, networkVars, queueVars, TypeOK, FreshIsCurrent
<1>8. ASSUME NEW k \in Kinds, SyncOwned(k)
      PROVE  Typed'
  BY <1>8, OthersUnchanged DEF SyncOwned, networkVars, TypeOK, FreshIsCurrent
<1>9. CASE RunStatefulSet
  BY <1>9, OthersUnchanged DEF RunStatefulSet, networkVars, queueVars, TypeOK,
     FreshIsCurrent, Kinds
<1>10. CASE NetworkStep
  BY <1>10, NetworkStepType, OwnedUnchanged DEF NetworkStep, nodeVars, queueVars, workerVars,
     TypeOK, WorkExists, FreshIsCurrent
<1>11. CASE SyncNode
  BY <1>11, OwnedUnchanged DEF SyncNode, networkVars, workerVars, TypeOK, WorkExists
<1>12. CASE SyncNetwork
  BY <1>12, SeenType, OwnedUnchanged DEF SyncNetwork, nodeVars, queueVars, workerVars,
     TypeOK, WorkExists, FreshIsCurrent
<1>13. CASE TimerFires
  BY <1>13, OwnedUnchanged DEF TimerFires, nodeVars, networkVars, workerVars,
     TypeOK, WorkExists, FreshIsCurrent
<1>14. CASE Restart
  <2>1. /\ faults' \in 0 .. MaxFaults /\ attempts' \in 0 .. MaxAttempts - 1
        /\ pc' = "idle" /\ work' = NoNode /\ target' = {}
        /\ nodeCache' = node /\ nodeFresh' \in BOOLEAN /\ UNCHANGED <<node, network, lastUid>>
        /\ networkCache' \in Sights /\ timer' \in BOOLEAN /\ queued' \in BOOLEAN
    BY <1>14, SeenType DEF Restart
  <2>2. /\ UNCHANGED owned /\ ownedCache' = owned /\ ownedFresh' \in [Kinds -> BOOLEAN]
    BY <1>14 DEF Restart
  <2>3. QED
    BY <2>1, <2>2 DEF Typed, TypeOK, WorkExists, FreshIsCurrent
<1>15. QED
  BY <1>4, <1>5, <1>6, <1>7, <1>8, <1>9, <1>10, <1>11, <1>12, <1>13, <1>14 DEF Environment

LEMMA TypedNext ==
    ASSUME Typed, [Next]_vars
    PROVE  Typed'
<1>1. CASE UNCHANGED vars
  BY <1>1 DEF Typed, TypeOK, WorkExists, FreshIsCurrent, vars, nodeVars, ownedVars,
     networkVars, queueVars, workerVars
<1>2. QED
  BY <1>1, TypedReconcile, TypedEnvironment DEF Next

\* Every variable keeps its type.
THEOREM TypeCorrect == Spec => []TypeOK
<1>1. Typed /\ [Next]_vars => Typed'
  BY TypedNext
<1>2. Typed => TypeOK
  BY DEF Typed
<1>3. QED
  BY <1>1, <1>2, TypedInit, PTL DEF Spec

-----------------------------------------------------------------------------
\* CopiesInOrder, one lemma per kind of step.

LEMMA CopiesInit == Init => CopiesInOrder
  BY DEF Init, CopiesInOrder, UidsInOrder, CacheIsPast, ReportedIsFinalized, WorkIsPast,
     Exists, NoNode

\* Steps that touch neither the node nor its copies.
LEMMA CopiesUnchanged ==
    ASSUME CopiesInOrder, UNCHANGED <<node, nodeCache, lastUid>>,
           UNCHANGED <<pc, work>> \/ pc' = "idle"
    PROVE  CopiesInOrder'
  BY DEF CopiesInOrder, UidsInOrder, CacheIsPast, ReportedIsFinalized, WorkIsPast,
     Precedes, Exists

\* Steps in the middle of a reconcile: the node worked on keeps its identity
\* and what it claims to have observed is at most its generation.
LEMMA CopiesWorkStep ==
    ASSUME CopiesInOrder, UNCHANGED <<node, nodeCache, lastUid>>,
           pc # "idle", work \in Node, work' \in Node, SameMetadata(work', work),
           work'.status.observed \in {work.status.observed, work.generation}
    PROVE  CopiesInOrder'
<1>1. work.generation \in Nat
  BY NodeFields
<1>2. QED
  BY <1>1 DEF CopiesInOrder, UidsInOrder, CacheIsPast, ReportedIsFinalized, WorkIsPast,
     Precedes, Exists, SameMetadata

LEMMA CopiesHandleDeletion ==
    ASSUME Typed, CopiesInOrder, HandleDeletion
    PROVE  CopiesInOrder'
<1>1. /\ UNCHANGED <<nodeCache, lastUid, pc, work>> /\ pc = "idle"
      /\ UNCHANGED node \/ (node.deleting /\ node' = NoNode)
  BY HandleDeletionEffect DEF Typed, workerVars
<1>2. CASE UNCHANGED node
  BY <1>1, <1>2, CopiesUnchanged
<1>3. CASE node' = NoNode
  BY <1>1, <1>3 DEF HandleDeletion, CopiesInOrder, UidsInOrder, CacheIsPast,
     ReportedIsFinalized, WorkIsPast, Exists, NoNode
<1>4. QED
  BY <1>1, <1>2, <1>3

LEMMA CopiesAddFinalizer ==
    ASSUME Typed, CopiesInOrder, AddFinalizer
    PROVE  CopiesInOrder'
<1> DEFINE o == [node EXCEPT !.finalizer = TRUE]
<1>1. /\ UNCHANGED <<nodeCache, lastUid, pc, work>> /\ pc = "idle"
      /\ UNCHANGED node \/ (node \in Node /\ nodeCache = node /\ ~node.deleting /\ node' = o)
  BY AddFinalizerEffect DEF Typed, workerVars
<1>2. CASE UNCHANGED node
  BY <1>1, <1>2, CopiesUnchanged
<1>3. CASE node \in Node /\ nodeCache = node /\ ~node.deleting /\ node' = o
  <2>1. /\ o.uid = node.uid /\ o.generation = node.generation /\ o.spec = node.spec
        /\ o.deleting = node.deleting /\ o.status = node.status /\ o.finalizer
    BY <1>3, FinalizerFields
  <2> HIDE DEF o
  <2>2. node.generation \in Nat
    BY <1>3, NodeFields
  <2>3. QED
    BY <1>1, <1>3, <2>1, <2>2 DEF CopiesInOrder, UidsInOrder, CacheIsPast,
       ReportedIsFinalized, WorkIsPast, Precedes, Exists
<1>4. QED
  BY <1>1, <1>2, <1>3

LEMMA CopiesValidate ==
    ASSUME Typed, CopiesInOrder, Validate
    PROVE  CopiesInOrder'
<1>1. /\ UNCHANGED <<node, nodeCache, lastUid>>
      /\ nodeCache \in Node /\ Exists(nodeCache) /\ ~nodeCache.deleting /\ nodeCache.finalizer
      /\ SameMetadata(work', nodeCache)
      /\ work'.status.observed \in {nodeCache.generation, nodeCache.status.observed}
  BY ValidateEffect, NodeExists DEF Typed, nodeVars
<1>2. nodeCache.uid = node.uid /\ Exists(node)
  BY <1>1 DEF CopiesInOrder, CacheIsPast, Exists
<1>3. nodeCache.generation \in Nat
  BY <1>1, NodeFields
<1>4. QED
  BY <1>1, <1>2, <1>3 DEF CopiesInOrder, UidsInOrder, CacheIsPast,
     ReportedIsFinalized, WorkIsPast, Precedes, Exists, SameMetadata

LEMMA CopiesWriteStatus ==
    ASSUME Typed, CopiesInOrder, WriteStatus
    PROVE  CopiesInOrder'
<1>1. /\ UNCHANGED <<nodeCache, lastUid>> /\ pc = "status" /\ work \in Node
      /\ UNCHANGED <<pc, work>> \/ pc' = "idle"
      /\ \/ UNCHANGED node
         \/ /\ pc' = "idle" /\ node \in Node /\ nodeCache = node
            /\ SameMetadata(node', node)
            /\ node'.status = work.status
  BY WriteStatusEffect DEF Typed
<1>2. CASE UNCHANGED node
  BY <1>1, <1>2, CopiesUnchanged
<1>3. CASE /\ pc' = "idle" /\ node \in Node /\ nodeCache = node
           /\ SameMetadata(node', node)
           /\ node'.status = work.status
  <2>1. work.generation \in Nat /\ node.generation \in Nat /\ work.status.observed \in Nat
    BY <1>1, <1>3, NodeFields
  <2>2. /\ node.finalizer /\ work.status.observed <= work.generation
        /\ work.generation <= nodeCache.generation
    BY <1>1 DEF CopiesInOrder, WorkIsPast
  <2>3. QED
    BY <1>1, <1>3, <2>1, <2>2 DEF CopiesInOrder, UidsInOrder, CacheIsPast,
       ReportedIsFinalized, WorkIsPast, Precedes, Exists, SameMetadata
<1>4. QED
  BY <1>1, <1>2, <1>3

LEMMA LastUidIsNat ==
    ASSUME TypeOK
    PROVE  lastUid \in Nat
  BY DEF TypeOK

LEMMA CopiesUserCreate ==
    ASSUME TypeOK, CopiesInOrder, NEW s \in Specs, UserCreate(s)
    PROVE  CopiesInOrder'
<1>1. /\ ~Exists(node) /\ UNCHANGED <<nodeCache, pc, work>>
      /\ node'.uid = lastUid + 1 /\ lastUid' = lastUid + 1
      /\ ~node'.finalizer /\ node'.status = EmptyStatus
  BY DEF UserCreate, StoreNode, workerVars
<1>2. lastUid \in Nat /\ nodeCache.uid \in Nat
  <2>1. nodeCache.uid \in Nat
    BY NodeFields DEF TypeOK, NoNode
  <2>2. QED
    BY <2>1, LastUidIsNat
<1>3. pc = "idle"
  BY <1>1 DEF CopiesInOrder, WorkIsPast
<1>4. EmptyStatus.phase = "Unset"
  BY DEF EmptyStatus
<1>5. nodeCache.uid < node'.uid
  BY <1>1, <1>2 DEF CopiesInOrder, UidsInOrder
<1>6. QED
  BY <1>1, <1>2, <1>3, <1>4, <1>5 DEF CopiesInOrder, UidsInOrder, CacheIsPast,
     ReportedIsFinalized, WorkIsPast, Precedes, Exists

LEMMA CopiesUserEdit ==
    ASSUME TypeOK, CopiesInOrder, NEW s \in Specs, UserEdit(s)
    PROVE  CopiesInOrder'
<1>1. node \in Node /\ UNCHANGED <<nodeCache, lastUid, pc, work>>
      /\ node' = [node EXCEPT !.spec = s, !.generation = @ + 1]
  BY ExistingIsNode DEF UserEdit, StoreNode, workerVars, TypeOK
<1>2. /\ node'.uid = node.uid /\ node'.generation = node.generation + 1
      /\ node'.deleting = node.deleting /\ node'.finalizer = node.finalizer
      /\ node'.status = node.status
  BY <1>1 DEF Node
<1>3. node.generation \in Nat
  BY <1>1, NodeFields
<1>4. Exists(nodeCache) => nodeCache.generation \in Nat
  BY ExistingIsNode, NodeFields DEF TypeOK
<1>5. QED
  BY <1>1, <1>2, <1>3, <1>4 DEF CopiesInOrder, UidsInOrder, CacheIsPast,
     ReportedIsFinalized, WorkIsPast, Precedes, Exists

LEMMA CopiesUserDelete ==
    ASSUME TypeOK, CopiesInOrder, UserDelete
    PROVE  CopiesInOrder'
<1>1. node \in Node /\ UNCHANGED <<nodeCache, lastUid, pc, work>> /\ ~node.deleting
      /\ Exists(node)
      /\ node' = IF node.finalizer
                THEN [node EXCEPT !.deleting = TRUE, !.generation = @ + 1]
                ELSE NoNode
  BY ExistingIsNode DEF UserDelete, StoreNode, workerVars, TypeOK
<1>2. Exists(nodeCache) => nodeCache.generation \in Nat
  BY ExistingIsNode, NodeFields DEF TypeOK
<1>3. CASE node.finalizer
  <2>1. /\ node'.uid = node.uid /\ node'.generation = node.generation + 1
        /\ node'.deleting /\ node'.finalizer
        /\ node'.status = node.status
    BY <1>1, <1>3 DEF Node
  <2>2. node.generation \in Nat
    BY <1>1, NodeFields
  <2>3. nodeCache.uid = node.uid
    BY <1>1, <1>3 DEF CopiesInOrder, CacheIsPast
  <2>4. nodeCache.generation \in Nat /\ nodeCache.generation <= node.generation
    BY <1>1, <1>2, <2>3 DEF CopiesInOrder, CacheIsPast, Precedes, Exists
  <2>5. CacheIsPast'
    <3>1. Precedes(nodeCache, node')
      <4>1. nodeCache.generation < node'.generation
        BY <2>1, <2>2, <2>4
      <4>2. /\ nodeCache.generation <= node'.generation
            /\ nodeCache.generation # node'.generation
        BY <2>1, <2>2, <2>4, <4>1
      <4>3. QED
        BY <2>1, <4>2, Zenon DEF Precedes
    <3>2. /\ Exists(nodeCache) => nodeCache.status.observed <= nodeCache.generation
          /\ node.status.observed <= nodeCache.generation
      BY <1>1, <2>3 DEF CopiesInOrder, CacheIsPast
    <3>3. QED
      BY <1>1, <2>1, <2>3, <3>1, <3>2 DEF CacheIsPast, Exists
  <2>6. UidsInOrder' /\ ReportedIsFinalized' /\ WorkIsPast'
    BY <1>1, <2>1 DEF CopiesInOrder, UidsInOrder, ReportedIsFinalized, WorkIsPast, Exists
  <2>7. QED
    BY <2>5, <2>6 DEF CopiesInOrder
<1>4. CASE ~node.finalizer
  <2>1. node' = NoNode /\ ~Exists(node') /\ pc = "idle"
    BY <1>1, <1>4 DEF CopiesInOrder, WorkIsPast, Exists, NoNode
  <2>2. Exists(nodeCache) /\ nodeCache.finalizer => nodeCache.deleting
    BY <1>1, <1>4, Zenon DEF CopiesInOrder, CacheIsPast, Precedes
  <2>3. QED
    BY <1>1, <2>1, <2>2 DEF CopiesInOrder, UidsInOrder, CacheIsPast,
       ReportedIsFinalized, WorkIsPast, Exists
<1>5. QED
  BY <1>3, <1>4

LEMMA ObservedIsPast ==
    ASSUME TypeOK, CopiesInOrder, Exists(node)
    PROVE  node.status.observed <= node.generation
<1>1. node.generation \in Nat /\ node.status.observed \in Nat
  BY ExistingIsNode, NodeFields DEF TypeOK
<1>2. CASE nodeCache.uid = node.uid
  <2>1. nodeCache.generation \in Nat
    BY <1>2, ExistingIsNode, NodeFields DEF TypeOK, Exists
  <2>2. QED
    BY <1>1, <1>2, <2>1 DEF CopiesInOrder, CacheIsPast, Precedes
<1>3. CASE nodeCache.uid # node.uid
  <2>1. node.status = EmptyStatus
    BY <1>3 DEF CopiesInOrder, CacheIsPast
  <2>2. QED
    BY <1>1, <2>1 DEF EmptyStatus
<1>4. QED
  BY <1>2, <1>3

\* The informer's copy becomes the node itself.
LEMMA CopiesRefresh ==
    ASSUME TypeOK, CopiesInOrder, UNCHANGED <<node, lastUid>>, nodeCache' = node,
           UNCHANGED <<pc, work>> \/ pc' = "idle"
    PROVE  CopiesInOrder'
<1>1. lastUid \in Nat
  BY LastUidIsNat
<1>2. CASE ~Exists(node)
  BY <1>1, <1>2 DEF CopiesInOrder, UidsInOrder, CacheIsPast, ReportedIsFinalized,
     WorkIsPast, Precedes, Exists
<1>3. CASE Exists(node)
  <2>1. node.generation \in Nat /\ node.status.observed \in Nat
    BY <1>3, ExistingIsNode, NodeFields DEF TypeOK
  <2>2. node.status.observed <= node.generation
    BY <1>3, ObservedIsPast
  <2>3. pc' # "idle" => /\ work.generation <= node.generation
                        /\ work.generation = node.generation => work.spec = node.spec
    <3>1. CASE pc # "idle"
      <4>1. nodeCache.uid = node.uid /\ work.uid = node.uid
        BY <3>1 DEF CopiesInOrder, WorkIsPast
      <4>2. nodeCache.generation \in Nat /\ work.generation \in Nat
        BY <1>3, <4>1, ExistingIsNode, NodeFields DEF TypeOK, Exists
      <4>3. QED
        BY <1>3, <2>1, <3>1, <4>1, <4>2 DEF CopiesInOrder, WorkIsPast, CacheIsPast, Precedes
    <3>2. QED
      BY <3>1
  <2>4. UidsInOrder' /\ ReportedIsFinalized'
    BY <1>1, <1>3 DEF CopiesInOrder, UidsInOrder, ReportedIsFinalized, Exists
  <2>5. CacheIsPast'
    BY <1>3, <2>1, <2>2 DEF CacheIsPast, Precedes, Exists
  <2>6. WorkIsPast'
    BY <1>3, <2>3 DEF CopiesInOrder, WorkIsPast, Exists
  <2>7. QED
    BY <2>4, <2>5, <2>6 DEF CopiesInOrder
<1>4. QED
  BY <1>2, <1>3

LEMMA CopiesNext ==
    ASSUME Typed, CopiesInOrder, [Next]_vars
    PROVE  CopiesInOrder'
<1>1. TypeOK
  BY DEF Typed
<1>2. CASE ReconcileOwned
  <2>1. /\ UNCHANGED <<node, nodeCache, lastUid>> /\ pc # "idle"
        /\ work \in Node /\ work' \in Node /\ SameMetadata(work', work)
        /\ work'.status.observed \in {work.status.observed, work.generation}
    BY <1>2, ReconcileOwnedEffect, AfterFields DEF Typed, nodeVars, Kinds
  <2>2. QED
    BY <2>1, CopiesWorkStep
<1>3. ASSUME NEW s \in Specs, UserCreate(s) \/ UserEdit(s)
      PROVE  CopiesInOrder'
  BY <1>1, <1>3, CopiesUserCreate, CopiesUserEdit
<1>4. ASSUME NEW k \in Kinds, CollectOwned(k) \/ SyncOwned(k)
      PROVE  CopiesInOrder'
  BY <1>4, CopiesUnchanged DEF CollectOwned, SyncOwned, nodeVars, workerVars
<1>5. CASE SyncNode
  BY <1>1, <1>5, CopiesRefresh DEF SyncNode, workerVars
<1>6. CASE Restart
  BY <1>1, <1>6, CopiesRefresh DEF Restart
<1>7. CASE FetchNothing \/ RunStatefulSet \/ NetworkStep \/ SyncNetwork \/ TimerFires
           \/ UNCHANGED vars
  BY <1>7, CopiesUnchanged DEF FetchNothing, RunStatefulSet, NetworkStep, SyncNetwork,
     TimerFires, vars, nodeVars, workerVars
<1>8. QED
  BY <1>1, <1>2, <1>3, <1>4, <1>5, <1>6, <1>7, CopiesHandleDeletion, CopiesAddFinalizer,
     CopiesValidate, CopiesWriteStatus, CopiesUserDelete DEF Next, Reconcile, Environment

LEMMA CopiesInvariance == Spec => [](Typed /\ CopiesInOrder)
<1>1. Typed /\ CopiesInOrder /\ [Next]_vars => (Typed /\ CopiesInOrder)'
  BY TypedNext, CopiesNext
<1>2. QED
  BY <1>1, TypedInit, CopiesInit, PTL DEF Spec

\* What a reconcile creates or changes by name, it does for a node that exists,
\* is finalized, and is the one it was started for, whatever was read late,
\* lost, retried, restarted, deleted or created again.
THEOREM HoldsLiveNode == Spec => []ReconcileHoldsLiveNode
<1>1. Typed /\ CopiesInOrder => ReconcileHoldsLiveNode
  <2> SUFFICES ASSUME Typed, CopiesInOrder, pc # "idle"
               PROVE  /\ Exists(node)
                      /\ work.uid = node.uid
                      /\ node.finalizer
                      /\ work.generation <= node.generation
                      /\ work.generation = node.generation => work.spec = node.spec
    BY DEF ReconcileHoldsLiveNode
  <2>1. /\ Exists(node) /\ work.uid = node.uid /\ nodeCache.uid = node.uid /\ node.finalizer
        /\ work.generation <= nodeCache.generation
        /\ work.generation = nodeCache.generation => work.spec = nodeCache.spec
    BY DEF CopiesInOrder, WorkIsPast
  <2>2. Precedes(nodeCache, node)
    BY <2>1 DEF CopiesInOrder, CacheIsPast
  <2>3. /\ work.generation \in Nat /\ node.generation \in Nat /\ nodeCache.generation \in Nat
    BY <2>1, ExistingIsNode, NodeFields DEF Typed, TypeOK, Exists
  <2>4. QED
    BY <2>1, <2>2, <2>3 DEF Precedes
<1>2. QED
  BY <1>1, CopiesInvariance, PTL
=============================================================================
