-------------------------- MODULE NetworkController --------------------------
(***************************************************************************)
(* The OptimismNetwork controller                                          *)
(* (src/internal/controller/optimismnetwork_controller.go) reconciling one *)
(* object, with the parts of Kubernetes it relies on: the API server, the  *)
(* informer cache its reads come from, the work queue that serialises the  *)
(* reconciles of one key, and the garbage collector.                       *)
(*                                                                         *)
(* Granularity.  A reconcile is a sequence of steps, one for every call    *)
(* that leaves the process (an API write, the L1 probe, discovery).  A     *)
(* read of the informer cache is merged with the write that follows it:    *)
(* the cache may already lag by any amount, so no outcome is lost.         *)
(*                                                                         *)
(* Versions.  An update is accepted iff the resourceVersion it was read    *)
(* with is current.  The flags netFresh and cmFresh say just that of the   *)
(* cached copies: FALSE from any write until the informer has caught up.   *)
(***************************************************************************)
EXTENDS NetworkRules

CONSTANTS
    Specs,          \* the specifications users give to the object
    L1ChainAt,      \* the chain id served by each L1 endpoint
    MaxGeneration,  \* bound: user edits stop at this generation
    MaxUid,         \* bound: how often the object is created
    MaxAttempts,    \* attempts of retry.DefaultRetry (5 in client-go)
    MaxFaults,      \* bound: crashes, failed or unanswered API writes,
                    \* outages of L1 and meddling
    Meddling        \* whether users remove finalizers and generated ConfigMaps

ASSUME SpecsAssumption ==
    /\ Specs \subseteq NetworkSpec
    /\ \A s \in Specs : s.l1RpcUrl \in DOMAIN L1ChainAt
ASSUME BoundsAssumption ==
    /\ MaxGeneration \in Nat \ {0}
    /\ MaxUid \in Nat \ {0}
    /\ MaxAttempts \in Nat \ {0}
    /\ MaxFaults \in Nat
    /\ Meddling \in BOOLEAN

VARIABLES
    net,        \* the object in the API server
    netCache,   \* the informer's copy of it
    netFresh,   \* whether that copy has the current resourceVersion
    cms,        \* the ConfigMaps in the API server, by kind
    cmCache,    \* the informer's copies
    cmFresh,    \* whether each has the current resourceVersion
    addrCache,  \* the discovery service's answers, by cache key
    queued,     \* the object's key is in the work queue
    timer,      \* a RequeueAfter delay is running
    pc,         \* the step the reconcile in progress has reached
    work,       \* the object it read and has been modifying
    attempts,   \* failed attempts of its status write
    l1Up,       \* the L1 endpoints answer
    lastUid,    \* the uid of the last object created
    faults      \* faults so far

apiVars == <<net, cms, lastUid>>
informerVars == <<netCache, netFresh, cmCache, cmFresh>>
queueVars == <<queued, timer>>
workerVars == <<pc, work, attempts>>
vars == <<apiVars, informerVars, addrCache, queueVars, workerVars, l1Up, faults>>

-----------------------------------------------------------------------------
\* Objects.

ConditionTypes == {"ConfigurationValid", "L1Connected", "ContractsDiscovered"}

\* A condition that was never set is "Unset".
Status ==
    [phase: {"Unset", "Error", "Ready"},
     observed: Nat,
     conditions: [ConditionTypes -> {"Unset", "True", "False"}],
     contracts: Addresses]

EmptyStatus ==
    [phase |-> "Unset",
     observed |-> 0,
     conditions |-> [c \in ConditionTypes |-> "Unset"],
     contracts |-> NoAddresses]

Network ==
    [uid: Nat \ {0}, generation: Nat \ {0}, spec: Specs,
     finalizer: BOOLEAN, deleting: BOOLEAN, status: Status]
NoNetwork == [uid |-> 0]

ConfigMap == [owner: Nat \ {0}, data: RollupData \cup GenesisData]
NoConfigMap == [owner |-> 0]

Exists(o) == o.uid # 0
Present(cm) == cm.owner # 0

CacheKeys == {CacheKey(s) : s \in Specs}

TypeOK ==
    /\ net \in Network \cup {NoNetwork}
    /\ netCache \in Network \cup {NoNetwork}
    /\ netFresh \in BOOLEAN
    /\ cms \in [ConfigMapKinds -> ConfigMap \cup {NoConfigMap}]
    /\ cmCache \in [ConfigMapKinds -> ConfigMap \cup {NoConfigMap}]
    /\ cmFresh \in [ConfigMapKinds -> BOOLEAN]
    /\ addrCache \in [CacheKeys -> Addresses]
    /\ queued \in BOOLEAN
    /\ timer \in BOOLEAN
    /\ pc \in {"idle", "l1", "discover", "rollup", "genesis", "status"}
    /\ work \in Network \cup {NoNetwork}
    /\ attempts \in 0 .. MaxAttempts - 1
    /\ l1Up \in BOOLEAN
    /\ lastUid \in 0 .. MaxUid
    /\ faults \in 0 .. MaxFaults

Init ==
    /\ net = NoNetwork
    /\ netCache = NoNetwork
    /\ netFresh = TRUE
    /\ cms = [k \in ConfigMapKinds |-> NoConfigMap]
    /\ cmCache = [k \in ConfigMapKinds |-> NoConfigMap]
    /\ cmFresh = [k \in ConfigMapKinds |-> TRUE]
    /\ addrCache = [k \in CacheKeys |-> NoAddresses]
    /\ queued = FALSE
    /\ timer = FALSE
    /\ pc = "idle"
    /\ work = NoNetwork
    /\ attempts = 0
    /\ l1Up = TRUE
    /\ lastUid = 0
    /\ faults = 0

-----------------------------------------------------------------------------
\* Calls to the API server.

\* A write that the server would accept iff ok: whether it is applied and
\* whether the controller sees an error.  A fault makes a write fail for
\* another reason than its version, or loses the answer to one applied.
Call(ok, applied, error) ==
    \/ applied = ok /\ error = ~ok /\ UNCHANGED faults
    \/ /\ faults < MaxFaults
       /\ applied \in {FALSE, ok}
       /\ error = TRUE
       /\ faults' = faults + 1

\* The server has stored o.
StoreNetwork(o) == net' = o /\ netFresh' = FALSE

\* SetCondition on the copy the reconcile works on.  The time it stamps is
\* left out (see the write of the status).
SetCondition(o, type, value) ==
    [o EXCEPT !.status.conditions[type] = value]

SetPhase(o, phase) == [o EXCEPT !.status.phase = phase]

-----------------------------------------------------------------------------
\* The worker takes the key from the queue and reads the object from the cache.

Begin == pc = "idle" /\ queued

\* The object is not found.
FetchNothing ==
    /\ Begin
    /\ ~Exists(netCache)
    /\ queued' = FALSE
    /\ UNCHANGED <<apiVars, informerVars, addrCache, timer, workerVars, l1Up, faults>>

\* A mutant: the failed removal is not retried.
HandleDeletionOnce ==
    /\ Begin
    /\ Exists(netCache)
    /\ netCache.deleting
    /\ \E applied, error \in BOOLEAN :
         /\ Call(netFresh, applied, error)
         /\ IF applied THEN StoreNetwork(NoNetwork) ELSE UNCHANGED <<net, netFresh>>
    /\ queued' = FALSE
    /\ UNCHANGED <<netCache, cms, cmCache, cmFresh, addrCache, timer, workerVars,
                   l1Up, lastUid>>

\* handleDeletion: the finalizer is removed, and with it, as it is the last,
\* the object.
HandleDeletion ==
    /\ Begin
    /\ Exists(netCache)
    /\ netCache.deleting
    /\ \E applied, error \in BOOLEAN :
         /\ Call(netFresh, applied, error)
         /\ IF applied THEN StoreNetwork(NoNetwork) ELSE UNCHANGED <<net, netFresh>>
         /\ queued' = error
    /\ UNCHANGED <<netCache, cms, cmCache, cmFresh, addrCache, timer, workerVars,
                   l1Up, lastUid>>

\* A mutant: the write does not depend on the version that was read.
AddFinalizerUnversioned ==
    /\ Begin
    /\ Exists(netCache)
    /\ ~netCache.deleting
    /\ ~netCache.finalizer
    /\ StoreNetwork([netCache EXCEPT !.finalizer = TRUE])
    /\ UNCHANGED <<netCache, cms, cmCache, cmFresh, addrCache, queueVars, workerVars,
                   l1Up, lastUid, faults>>

\* The update writes the whole object as it was read, with the finalizer
\* added; the key is requeued either way.
AddFinalizer ==
    /\ Begin
    /\ Exists(netCache)
    /\ ~netCache.deleting
    /\ ~netCache.finalizer
    /\ \E applied, error \in BOOLEAN :
         /\ Call(netFresh, applied, error)
         /\ IF applied THEN StoreNetwork([netCache EXCEPT !.finalizer = TRUE])
                       ELSE UNCHANGED <<net, netFresh>>
    /\ UNCHANGED <<netCache, cms, cmCache, cmFresh, addrCache, queueVars, workerVars,
                   l1Up, lastUid>>

\* An object that is neither going nor still without the finalizer; the mutant
\* does without the finalizer.
ToValidateUnfinalized == Begin /\ Exists(netCache) /\ ~netCache.deleting
ToValidate ==
    /\ Begin
    /\ Exists(netCache)
    /\ ~netCache.deleting
    /\ netCache.finalizer

Accept ==
    /\ work' = SetCondition(netCache, "ConfigurationValid", "True")
    /\ pc' = "l1"

\* An invalid object goes straight to the write of its status.  The mutant does
\* not report it.
RejectSilently == UNCHANGED <<work, pc>>
Reject ==
    /\ work' = SetPhase(SetCondition(netCache, "ConfigurationValid", "False"), "Error")
    /\ pc' = "status"

Validate ==
    /\ ToValidate
    /\ queued' = FALSE
    /\ \/ ValidConfiguration(netCache.spec) /\ Accept
       \/ ~ValidConfiguration(netCache.spec) /\ Reject
    /\ UNCHANGED <<apiVars, informerVars, addrCache, timer, attempts, l1Up, faults>>

\* The endpoint answers with the chain id of the spec; the mutant takes any.
L1AnswersAnything(spec) == l1Up
L1Answers(spec) == l1Up /\ L1ChainAt[spec.l1RpcUrl] = spec.l1ChainID

\* testL1Connectivity
TestL1Connectivity ==
    /\ pc = "l1"
    /\ \/ /\ L1Answers(work.spec)
          /\ work' = SetCondition(work, "L1Connected", "True")
          /\ pc' = "discover"
       \/ /\ ~L1Answers(work.spec)
          /\ work' = SetPhase(SetCondition(work, "L1Connected", "False"), "Error")
          /\ pc' = "status"
    /\ UNCHANGED <<apiVars, informerVars, addrCache, queueVars, attempts, l1Up, faults>>

\* discoverContractAddresses: the cached answer for the key if there is one,
\* else a resolution, cached unless it failed.  Dialling a websocket endpoint
\* connects to it; dialling an HTTP endpoint always succeeds.
DiscoverContractAddresses ==
    /\ pc = "discover"
    /\ \E dial \in {TRUE, l1Up} :
         LET addresses == Answer(addrCache, work.spec, dial)
         IN  /\ addrCache' = [addrCache EXCEPT ![CacheKey(work.spec)] = addresses]
             /\ \/ /\ addresses # NoAddresses
                   /\ work' = [SetCondition(work, "ContractsDiscovered", "True")
                               EXCEPT !.status.contracts = addresses]
                   /\ pc' = "rollup"
                \/ /\ addresses = NoAddresses
                   /\ work' = SetPhase(SetCondition(work, "ContractsDiscovered", "False"), "Error")
                   /\ pc' = "status"
    /\ UNCHANGED <<apiVars, informerVars, queueVars, attempts, l1Up, faults>>

\* A mutant: it counts the update under way as a generation.
AfterConfigMapAhead(k) ==
    IF k = "rollup"
    THEN pc' = "genesis" /\ work' = work
    ELSE /\ pc' = "status"
         /\ work' = [SetPhase(work, "Ready") EXCEPT !.status.observed = work.generation + 1]

\* The ConfigMap of kind k is done: next comes the other one, or, after both,
\* the phase and observed generation of a successful reconcile.
AfterConfigMap(k) ==
    IF k = "rollup"
    THEN pc' = "genesis" /\ work' = work
    ELSE /\ pc' = "status"
         /\ work' = [SetPhase(work, "Ready") EXCEPT !.status.observed = work.generation]

\* What follows a write of ConfigMap k.
AfterWrite(k, error) ==
    \/ ~error /\ AfterConfigMap(k)
    \/ error /\ pc' = "status" /\ work' = SetPhase(work, "Error")

\* createOrUpdateConfigMap(k): create if the cache has none, else replace the
\* data and keep the rest of the cached copy, owner included.  Writing back
\* what is already there is not a change.
CreateOrUpdateConfigMap(k) ==
    LET data == GeneratedData(k, work.spec, work.status.contracts)
        written == IF Present(cmCache[k])
                   THEN [cmCache[k] EXCEPT !.data = data]
                   ELSE [owner |-> work.uid, data |-> data]
        ok == IF Present(cmCache[k]) THEN cmFresh[k] ELSE ~Present(cms[k])
    IN  \E applied, error \in BOOLEAN :
          /\ Call(ok, applied, error)
          /\ IF applied /\ cms[k] # written
             THEN /\ cms' = [cms EXCEPT ![k] = written]
                  /\ cmFresh' = [cmFresh EXCEPT ![k] = FALSE]
             ELSE UNCHANGED <<cms, cmFresh>>
          /\ AfterWrite(k, error)

\* reconcileConfigMaps, one kind at a time.
ReconcileConfigMap(k) ==
    /\ pc = k
    /\ \/ AutoDiscovered(k, work.spec) /\ CreateOrUpdateConfigMap(k)
       \/ ~AutoDiscovered(k, work.spec) /\ AfterConfigMap(k)
          /\ UNCHANGED <<cms, cmFresh, faults>>
    /\ UNCHANGED <<net, lastUid, netCache, netFresh, cmCache, addrCache, queueVars,
                   attempts, l1Up>>

\* A mutant: no delayed requeue.
ReturnForGood(error) ==
    /\ pc' = "idle"
    /\ work' = NoNetwork
    /\ attempts' = 0
    /\ IF error /\ work.status.phase = "Ready" THEN queued' = TRUE ELSE UNCHANGED queued
    /\ UNCHANGED timer

\* The end of a reconcile.  Only the successful path returns the error of its
\* status write; every other one logs it and asks for a delayed requeue.
Return(error) ==
    /\ pc' = "idle"
    /\ work' = NoNetwork
    /\ attempts' = 0
    /\ IF error /\ work.status.phase = "Ready"
       THEN queued' = TRUE /\ UNCHANGED timer
       ELSE timer' = TRUE /\ UNCHANGED queued

\* One attempt of updateStatusWithRetry: read the object anew, put the status
\* of the working copy into it and write it.  The conditions carry times in
\* seconds, so a write that changes nothing else is a change or not.
StoreStatus ==
    LET o == [netCache EXCEPT !.status = work.status] IN
      \/ StoreNetwork(o)
      \/ o = net /\ UNCHANGED <<net, netFresh>>

\* A mutant: the write does not depend on the version that was read.
StatusStoredUnversioned ==
    /\ StoreStatus
    /\ Return(FALSE)
    /\ UNCHANGED faults

StatusStored ==
    /\ netFresh
    /\ StoreStatus
    /\ Return(FALSE)
    /\ UNCHANGED faults

\* A mutant: one attempt too many.
StatusConflictOnceMore ==
    /\ ~netFresh
    /\ Exists(net)
    /\ IF attempts < MaxAttempts
       THEN attempts' = attempts + 1 /\ UNCHANGED <<pc, work, queueVars>>
       ELSE Return(TRUE)
    /\ UNCHANGED <<net, netFresh, faults>>

\* A conflict is retried until the attempts are used up.
StatusConflict ==
    /\ ~netFresh
    /\ Exists(net)
    /\ IF attempts < MaxAttempts - 1
       THEN attempts' = attempts + 1 /\ UNCHANGED <<pc, work, queueVars>>
       ELSE Return(TRUE)
    /\ UNCHANGED <<net, netFresh, faults>>

\* Any other error is returned at once: the object is gone, or a fault.
StatusNotFound ==
    /\ ~Exists(netCache) \/ ~Exists(net)
    /\ Return(TRUE)
    /\ UNCHANGED <<net, netFresh, faults>>

StatusFault ==
    /\ faults < MaxFaults
    /\ faults' = faults + 1
    /\ Exists(netCache)
    /\ (netFresh /\ StoreStatus) \/ UNCHANGED <<net, netFresh>>
    /\ Return(TRUE)

WriteStatus ==
    /\ pc = "status"
    /\ \/ Exists(netCache) /\ (StatusStored \/ StatusConflict)
       \/ StatusNotFound
       \/ StatusFault
    /\ UNCHANGED <<cms, lastUid, netCache, cmCache, cmFresh, addrCache, l1Up>>

Reconcile ==
    \/ FetchNothing
    \/ HandleDeletion
    \/ AddFinalizer
    \/ Validate
    \/ TestL1Connectivity
    \/ DiscoverContractAddresses
    \/ \E k \in ConfigMapKinds : ReconcileConfigMap(k)
    \/ WriteStatus

-----------------------------------------------------------------------------
\* What happens around the controller.

UserCreate(s) ==
    /\ ~Exists(net)
    /\ lastUid < MaxUid
    /\ StoreNetwork([uid |-> lastUid + 1, generation |-> 1, spec |-> s,
                     finalizer |-> FALSE, deleting |-> FALSE, status |-> EmptyStatus])
    /\ lastUid' = lastUid + 1
    /\ UNCHANGED <<cms, netCache, cmCache, cmFresh, addrCache, queueVars, workerVars,
                   l1Up, faults>>

UserEdit(s) ==
    /\ Exists(net)
    /\ s # net.spec
    /\ net.generation < MaxGeneration
    /\ StoreNetwork([net EXCEPT !.spec = s, !.generation = @ + 1])
    /\ UNCHANGED <<cms, lastUid, netCache, cmCache, cmFresh, addrCache, queueVars,
                   workerVars, l1Up, faults>>

\* A deletion only marks an object that has a finalizer, and counts as a new
\* generation; without one the object goes at once.
UserDelete ==
    /\ Exists(net)
    /\ ~net.deleting
    /\ StoreNetwork(IF net.finalizer
                    THEN [net EXCEPT !.deleting = TRUE, !.generation = @ + 1]
                    ELSE NoNetwork)
    /\ UNCHANGED <<cms, lastUid, netCache, cmCache, cmFresh, addrCache, queueVars,
                   workerVars, l1Up, faults>>

\* Removing the finalizer by hand lets a marked object go.
UserStripFinalizer ==
    /\ Meddling
    /\ faults < MaxFaults
    /\ faults' = faults + 1
    /\ Exists(net)
    /\ net.finalizer
    /\ StoreNetwork(IF net.deleting THEN NoNetwork ELSE [net EXCEPT !.finalizer = FALSE])
    /\ UNCHANGED <<cms, lastUid, netCache, cmCache, cmFresh, addrCache, queueVars,
                   workerVars, l1Up>>

UserDeleteConfigMap(k) ==
    /\ Meddling
    /\ faults < MaxFaults
    /\ faults' = faults + 1
    /\ Present(cms[k])
    /\ cms' = [cms EXCEPT ![k] = NoConfigMap]
    /\ cmFresh' = [cmFresh EXCEPT ![k] = FALSE]
    /\ UNCHANGED <<net, lastUid, netCache, netFresh, cmCache, addrCache, queueVars,
                   workerVars, l1Up>>

\* The garbage collector removes what a vanished object owned.
CollectConfigMap(k) ==
    /\ Present(cms[k])
    /\ cms[k].owner # net.uid
    /\ cms' = [cms EXCEPT ![k] = NoConfigMap]
    /\ cmFresh' = [cmFresh EXCEPT ![k] = FALSE]
    /\ UNCHANGED <<net, lastUid, netCache, netFresh, cmCache, addrCache, queueVars,
                   workerVars, l1Up, faults>>

\* The informer catches up and its event queues the object's key; an event on
\* a ConfigMap queues the key of its owner, which it finds by name.
SyncNetwork ==
    /\ ~netFresh
    /\ netCache' = net
    /\ netFresh' = TRUE
    /\ queued' = TRUE
    /\ UNCHANGED <<apiVars, cmCache, cmFresh, addrCache, timer, workerVars, l1Up, faults>>

SyncConfigMap(k) ==
    /\ ~cmFresh[k]
    /\ cmCache' = [cmCache EXCEPT ![k] = cms[k]]
    /\ cmFresh' = [cmFresh EXCEPT ![k] = TRUE]
    /\ queued' = TRUE
    /\ UNCHANGED <<apiVars, netCache, netFresh, addrCache, timer, workerVars, l1Up, faults>>

TimerFires ==
    /\ timer
    /\ timer' = FALSE
    /\ queued' = TRUE
    /\ UNCHANGED <<apiVars, informerVars, addrCache, workerVars, l1Up, faults>>

\* An answer of the discovery service expires.
ExpireAddresses(key) ==
    /\ addrCache[key] # NoAddresses
    /\ addrCache' = [addrCache EXCEPT ![key] = NoAddresses]
    /\ UNCHANGED <<apiVars, informerVars, queueVars, workerVars, l1Up, faults>>

\* The L1 endpoints go down, or come back.
L1Changes ==
    /\ l1Up' = ~l1Up
    /\ \/ l1Up /\ faults < MaxFaults /\ faults' = faults + 1
       \/ ~l1Up /\ UNCHANGED faults
    /\ UNCHANGED <<apiVars, informerVars, addrCache, queueVars, workerVars>>

\* The process dies and starts again: what it held in memory is lost, and the
\* new informers list everything there is and queue it.
Restart ==
    /\ faults < MaxFaults
    /\ faults' = faults + 1
    /\ pc' = "idle"
    /\ work' = NoNetwork
    /\ attempts' = 0
    /\ addrCache' = [k \in CacheKeys |-> NoAddresses]
    /\ netCache' = net
    /\ netFresh' = TRUE
    /\ cmCache' = cms
    /\ cmFresh' = [k \in ConfigMapKinds |-> TRUE]
    /\ queued' = (Exists(net) \/ \E k \in ConfigMapKinds : Present(cms[k]))
    /\ timer' = FALSE
    /\ UNCHANGED <<apiVars, l1Up>>

Environment ==
    \/ \E s \in Specs : UserCreate(s) \/ UserEdit(s)
    \/ UserDelete
    \/ UserStripFinalizer
    \/ \E k \in ConfigMapKinds :
         UserDeleteConfigMap(k) \/ CollectConfigMap(k) \/ SyncConfigMap(k)
    \/ SyncNetwork
    \/ TimerFires
    \/ \E key \in CacheKeys : ExpireAddresses(key)
    \/ L1Changes
    \/ Restart

Next == Reconcile \/ Environment

\* The worker runs, informers catch up, delays elapse and the collector runs.
\* Nothing is assumed of users, of L1 or of faults.
Fairness ==
    /\ WF_vars(Reconcile)
    /\ WF_vars(SyncNetwork)
    /\ \A k \in ConfigMapKinds : WF_vars(SyncConfigMap(k)) /\ WF_vars(CollectConfigMap(k))
    /\ WF_vars(TimerFires)

Spec == Init /\ [][Next]_vars
FairSpec == Spec /\ Fairness

-----------------------------------------------------------------------------
\* Properties.

\* The reconcile in progress holds a copy of the object that still exists: of
\* the same creation, finalized, not newer, and with the same specification if
\* of the same generation.  This is what the finalizer and the serialisation
\* of reconciles must give before any write by name is safe.
ReconcileHoldsLiveObject ==
    ~Meddling /\ pc # "idle" =>
        /\ Exists(net)
        /\ work.uid = net.uid
        /\ net.finalizer
        /\ work.generation <= net.generation
        /\ work.generation = net.generation => work.spec = net.spec

\* The status never claims a generation the object has not had, whatever was
\* read late, retried, lost or left behind by a crash or an earlier object of
\* the same name.
ObservedWithinGeneration ==
    ~Meddling /\ Exists(net) => net.status.observed <= net.generation

\* Ready at the current generation is earned by that generation: its spec is
\* valid, L1 was connected and contracts were discovered, and every generated
\* ConfigMap describes its chain.  A ConfigMap is missing only if it was
\* taken over from an earlier object of the same name and then collected.
ReadyAtCurrentGeneration ==
    Exists(net) /\ net.status.phase = "Ready" /\ net.status.observed = net.generation

ReadyIsEarned ==
    ~Meddling /\ ReadyAtCurrentGeneration =>
        /\ ValidConfiguration(net.spec)
        /\ L1ChainAt[net.spec.l1RpcUrl] = net.spec.l1ChainID
        /\ \A c \in ConditionTypes : net.status.conditions[c] = "True"
        /\ net.status.contracts # NoAddresses
        /\ \A k \in ConfigMapKinds : AutoDiscovered(k, net.spec) =>
             \/ Present(cms[k]) /\ DescribesChain(k, cms[k].data, net.spec)
             \/ ~Present(cms[k]) /\ net.uid > 1

\* The controller writes the whole object back to add or remove its finalizer,
\* from a copy that may be old, yet no step of it changes what users own,
\* brings an object back that is gone, or lets one go that they did not delete.
UserFields(o) == <<o.uid, o.generation, o.spec, o.deleting>>
SpecBelongsToUsers ==
    [][Reconcile =>
         \/ Exists(net) /\ Exists(net') /\ UserFields(net') = UserFields(net)
         \/ ~Exists(net') /\ (Exists(net) => net.deleting)]_vars

\* The life of the object is the one clients may rely on.
ClientView(o) ==
    IF Exists(o)
    THEN [uid |-> o.uid, generation |-> o.generation, spec |-> o.spec,
          deleting |-> o.deleting, phase |-> o.status.phase,
          observed |-> o.status.observed]
    ELSE NoNetwork

Lifecycle == INSTANCE NetworkLifecycle WITH
    obj <- ClientView(net), Uids <- 1 .. MaxUid, Valid <- ValidConfiguration

ImplementsLifecycle == Lifecycle!Spec

\* The controller sees of the discovery service what AddressCache promises,
\* which is what Discovery, the service with its clock, implements.
Service == INSTANCE AddressCache WITH
    live <- addrCache, KeyOf <- CacheKey, Resolution <- Resolve, Nothing <- NoAddresses
UsesAddressCache == Service!Spec

-----------------------------------------------------------------------------
\* Liveness, under FairSpec.

\* An object marked for deletion goes, although its finalizer can only be
\* removed with a current copy and faults may lose the removal.
DeletionCompletes ==
    \A u \in 1 .. MaxUid : (net.uid = u /\ net.deleting) ~> net.uid # u

Provisioned(s) ==
    /\ ReadyAtCurrentGeneration
    /\ \A k \in ConfigMapKinds : AutoDiscovered(k, s) =>
         Present(cms[k]) /\ DescribesChain(k, cms[k].data, s)

\* Once users leave a sound specification alone and L1 stays up, the object
\* becomes and stays Ready at its generation with all its ConfigMaps, whatever
\* conflicts, lost answers, restarts and collections came before.
Sound(s) ==
    /\ ValidConfiguration(s)
    /\ L1ChainAt[s.l1RpcUrl] = s.l1ChainID
    /\ Resolve(s, TRUE) # NoAddresses
LeftAlone(s) == Exists(net) /\ ~net.deleting /\ net.spec = s

SoundSpecBecomesReady ==
    \A s \in {t \in Specs : Sound(t)} :
        <>[](LeftAlone(s) /\ l1Up) => <>[]Provisioned(s)

\* Once users leave an invalid specification alone, the object becomes and
\* stays Error with the condition that says why.
InvalidSpecIsReported ==
    \A s \in {t \in Specs : ~ValidConfiguration(t)} :
        <>[]LeftAlone(s) =>
            <>[](/\ Exists(net)
                 /\ net.status.phase = "Error"
                 /\ net.status.conditions["ConfigurationValid"] = "False")

=============================================================================
