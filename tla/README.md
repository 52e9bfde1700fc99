# Verification of the OP Stack operator

TLA+ models of the controllers of the OP Stack operator, the TLC runs that check
them on small instances, and TLAPS proofs of what matters most for every value of
the constants. `PROJECT.json` lists the runs, the source lines behind every
definition, the hazards of the code and the theorems.

Run a check with `tlc -config <run>.cfg <module>` and a proof with
`tlapm <module>.tla`.

## 1. The system

A Kubernetes operator. Users write objects into the API server; controllers, woken by
informer events and timers, compare what they read with what there is and write
secrets, ConfigMaps, StatefulSets, Services, and the `status` of the objects.

| Component | State it keeps | Operations | What makes it correct |
|---|---|---|---|
| OptimismNetwork controller (`internal/controller/optimismnetwork_controller.go`) | none of its own but the discovery service, made on first use; the object's status, finalizer and two ConfigMaps in the API server | reconcile: fetch, finalize, validate, probe L1, discover contracts, generate ConfigMaps, report; deletion | Ready is earned by the generation it is reported for; nothing of the users' is written over; deletions complete; sound networks become Ready |
| Discovery service (`pkg/discovery/discovery.go`) | a map from network name and chain ID to addresses with an expiry | DiscoverContracts, ClearCache | answers are those of the key and no older than their timeout |
| Condition helpers (`pkg/utils/conditions.go`) | the list in a status | SetCondition and its three wrappers, GetCondition | one entry per type; setting one leaves the others alone |
| OpNode controller (`internal/controller/opnode_controller.go`) | status, finalizer, and the secrets, StatefulSet and Service it owns, in the API server | reconcile: fetch, finalize, validate, fetch network, secrets, StatefulSet, Service, report; deletion | Running is earned; secrets never change; no StatefulSet without what it mounts; Service and pods match |
| Builders (`pkg/resources`) | none | CreateOpNodeStatefulSet, CreateOpNodeService | immutable parts are stable; what one process or the Service looks for is where the other listens |
| API types (`api/v1alpha1`) | the shape of the objects | generated deep copies and CRDs | - |
| Image rules (`pkg/config/images.go`) | none | BuildImageConfig and its check; no caller yet | no combination of overrides gets past the check |
| Manager (`cmd/main.go`) | caches, queues, one worker per controller | start, leader election, signals | one active manager |
| OpBatcher, OpProposer, OpChallenger controllers | none | scaffolds whose Reconcile returns at once | - |
| Manifests, scripts, tests | - | - | - |

**Interaction.** The network controller calls the discovery service in its process
and an L1 endpoint over the network. The OpNode controller reads OptimismNetworks from
an informer cache and trusts their phase; it is *not* woken by their events and polls.
Both controllers write through the API server, which accepts an update only of the
current version. The ConfigMap with the rollup configuration is made by the network controller
and mounted by the pods of the nodes, which nobody checks. Informer caches lag behind the API server by any amount; one worker
per controller serialises the reconciles. The garbage collector removes what an object
that is gone owned. The StatefulSet's own controller writes to the same StatefulSet.

**What is hard.** Everything between a read and the write based on it: edits,
deletion and recreation under the same name, the informer's lag, a crash, an answer
that is lost although the write was applied, conflicts that use up the retries of the
status write; and several writes of one reconcile of which only some happen.
The list, with lines, is `hazards` in `PROJECT.json`.

## 2. Modules

    DiscoveryRules <- NetworkRules <- NetworkController <- MCNetwork
          ^                               |    \
          |                               |     NetworkInvariants <- NetworkProofs
      Discovery --implements--> AddressCache                <- NetworkSafetyProofs
          ^                               |  (implements)
      MCDiscovery, DiscoveryProofs   NetworkLifecycle
                                          ^  (its network lives so)
    OpNodeRules <------------------- OpNodeController <- MCOpNode
                                          |    \
                                          |     OpNodeInvariants <- OpNodeProofs
                                          |  (implements)   <- OpNodeSafetyProofs
                                     NodeLifecycle
                                          ^  (its node lives so)
    NetworkController, OpNodeRules <- Operator <- MCOperator, OperatorProofs
    Conditions, Images <- Helpers <- MCHelpers, HelpersProofs

**NetworkRules, DiscoveryRules, OpNodeRules**: the pure part: validation, generated
data, which addresses a specification resolves to, what a node's StatefulSet and
Service are made of. Each header names the abstraction of the data (an address is the
name of where it comes from, a ConfigSource the set of its alternatives).

**NetworkController**: one OptimismNetwork. `net` is the object in the API server,
`netCache` the informer's copy, `netFresh` whether that copy has the current
resourceVersion: an update is accepted iff it has. `cms`, `cmCache`, `cmFresh` are the
same for the two ConfigMaps. `work` is the object the reconcile read and has been
changing, `pc` the call it is about to make. The actions are the calls of `Reconcile`
in their order: `FetchNothing`, `HandleDeletion`, `AddFinalizer`, `Validate`,
`TestL1Connectivity`, `DiscoverContractAddresses`, `ReconcileConfigMap` (of each
kind), `WriteStatus` (one attempt of `updateStatusWithRetry`). Around it, users create,
edit, delete; the collector collects; informers sync; timers fire; answers expire; L1
goes and comes; the process restarts. `Call(ok, applied, error)` gives the three fates
of a write: answered, failed, applied with its answer lost.

**NetworkLifecycle**: what a client of a network may rely on, as a specification of
the object alone: a new specification is a new generation; a report names a generation
that has been; Ready names the current one only if it is valid; nothing vanishes that
was reported on without a request. NetworkController implements it (checked and
proved), and OpNodeController is built on it instead of on the controller.

**Discovery / AddressCache**: the service with its clock and a call in two steps (look
up, resolve), and the service its caller needs, without a clock. Discovery implements
AddressCache (checked and proved); NetworkController's use of `addrCache` is AddressCache
too, so the two fit together.

**Conditions**: the list. Its `Map` is the function from types to statuses that the
controller modules keep.

**OpNodeController**: one OpNode beside one network. `owned` are the four objects it
owns, by kind. A node refers to a network by name and, if it gives one, namespace
(`NetworkKey`); the one of the model is called `NetworkName` in `NetworkNamespace`, and a node that
refers to another finds none (`Refers`). Actions as above: `ReconcileOwned` is one write of one kind, `After`
what follows its success or error. `NetworkStep` is a step of NetworkLifecycle.

**NodeLifecycle**: what a user of a node may rely on: the node, its workload (the
StatefulSet and the node that made it), the network as its controller last saw it Ready
(`sight`), and the deployment in progress (`target`). A deployment begins for a generation the
node has had, on a network in sight; while it lasts the node does not vanish; only it changes
the workload; and only it ends in the report Running. `OpNodeController!ImplementsNodeLifecycle`
is the refinement (checked and proved): `SeenReady` and `Deployment` are what the controller's
cached network and its reconcile in progress are in the eyes of a user.

**Operator**: both controllers. It extends NetworkController with a node that takes steps of
NodeLifecycle, so that the product of the two detailed models need not be explored: what
the node can see (`NetworkInReach`) comes from the network of NetworkController, if it refers to it
(`Deployable`), and its pods mount the ConfigMap of it: `MountedConfig` is what they find in their
own namespace, which is nothing if that is not the network's.

**Images**: `BuildImageConfig`. An image is the sequence of what its colons separate.
It has no state of its own in the code; here a step is a call. **Helpers** puts it beside
Conditions, so that one run checks both; they share nothing.

**NetworkInvariants** and **OpNodeInvariants** hold the inductive invariants, **MC\*** the values for TLC, and
**\*Proofs** the theorems. Operators under a comment "A mutant" are plausible mistakes in
a definition next to them; nothing uses them but the check that each property can fail.

### Choices worth knowing

- A read of a cache is merged with the call that follows it. The cache may lag by any
  amount already, so no outcome is lost.
- Informers may skip versions in reality; here a sync always takes the current one,
  and the lag before it stands for every delay. Reads commute with what they do not see.
- Restart is a crash at any point. Memory is lost; informers list again and queue
  what exists.
- The status write stores conditions with times in seconds: writing what is there may
  or may not make a new version, and both happen.
- A finalizer of ours is the only one, so its removal lets a marked object go.
- The ports of the two processes are a record per listener: whether it is there and its port, 0
  if none is given. A Service port is a record; a list of them is a set.
- The two ConfigMaps are each reconciled by their own step; the four owned objects too.
- `RunStatefulSet`, an outage of L1, and users who strip a finalizer or delete a generated
  ConfigMap by hand (`Meddling`) count as faults, to bound how often they happen.

### Bounds

`MaxGeneration`, `MaxUid`, `MaxNetworkGeneration`, `MaxAttempts`, `MaxFaults`,
`MaxTime`, `DefaultTimeout`, `Tokens`, `MaxNodeGeneration` and `MaxNodeUid`. A second generation gives an edit during a
reconcile; a second uid a predecessor of the same name; two attempts a conflict that is
retried and one that is not; one fault an interruption anywhere. The actions
look at no more than equality of generations and identities, order of the last two,
and one retry, so larger values give longer runs of the same cases. The theorems have no
such bounds.

The network runs say `CHECK_DEADLOCK FALSE`: when the last object the bounds allow is deleted
and everything has caught up, the system does stop. The other runs never stop, and the check is on.

In `operator`, the node has one specification (it is deleted but not edited), there is one network
generation after the first, and no fault: the state of the network controller is explored in full
under the two. What crashes and further generations add is in the theorem `OperatorProofs!Mounted`.

In `network_safety`, `FaultsOrChanges` bounds the search: a history has up to two faults and one of
six specifications, or no fault and edits, a deletion and a recreation between two of them. A fault
*and* a recreation are in `network_recreate`, all of it together in the theorems.

Two constraints cut the product of the lives of a node and of its network where it is
too large: `NothingIsDeleted` and `NetworkHoldsUp` (the network does not fail once it is
there). They leave behaviours out; a run under them says nothing about behaviours
*through* a failing network. Symmetry (of secrets) is used in safety runs only.

## 3. Runs

| Run | Shows |
|---|---|
| `network_safety` | Six shapes of specification (generated or given ConfigMaps, manual, automatic and unknown contracts, invalid, wrong L1, another chain) with two faults anywhere, outages of L1 among them; and two specifications of one discovery key with two generations and two uids: `ReadyIsEarned`, `ReconcileHoldsLiveObject`, `ObservedWithinGeneration`, `SpecBelongsToUsers`, the discovery service used only as `AddressCache` allows (`UsesAddressCache`), the refinement of NetworkLifecycle (`ImplementsLifecycle`), and the module's `TypeOK`. |
| `network_recreate` | Fairness, two uids, a valid and an invalid specification, and one fault, which may be a user who removes the finalizer or deletes a ConfigMap by hand: `SoundSpecBecomesReady`, `InvalidSpecIsReported`, `DeletionCompletes`, `SpecBelongsToUsers`. |
| `discovery_cache` | Every order of calls, ticks, clearings and restarts: `TypeOK`, `AnswersAreRecent` and the refinement of AddressCache. |
| `helpers` | Every order of calls on three types of condition: `OneEntryPerType`, `SetsOneType`. Every combination of version set (none, the two of the matrix, one that is not), global version and single images (official or not, tagged, untagged, behind a registry with a port): `AcceptedImagesAgree`, `MostSpecificWins`. |
| `opnode_edits` | Edits across every validation rule, the ports of the processes and those of the Service: `RunningIsEarned`, `ServiceReachesPods`, `EngineIsReached`. |
| `opnode_faults` | One fault at each of the four owned objects, a network that is renamed: `MountsExist`, `ServiceSelectsPods`, `SecretsAreStable`. |
| `opnode_recreate` | Recreation seen late: `ReconcileHoldsLiveNode`, `SecretsAreStable`, the refinement of NodeLifecycle, and the module's `TypeOK`. |
| `opnode_liveness` | Fairness and one fault: `ValidNodeRuns`, `DeletionCompletes`, and the refinement of NodeLifecycle through the fault. |
| `operator` | Both controllers, a node in the namespace of its network, an edit that makes the network invalid, its deletion, the node's deletion: `MountedConfigExists`. |
| `discovery_manual` | *Violated*: `ManualAddressesAreHonoured` (below). |
| `opnode_follow` | *Violated*: `NodeFollowsItsSpec` (below). |
| `operator_remote` | *Violated*: `RemoteNodeHasConfig` (below). |

**Fairness.** Weak fairness of the worker (a queued key is taken: controller-runtime's
workers run until the process stops, and a restart starts new ones), of each informer's
sync, of each timer and of the garbage collector. A step of the worker stands for
whatever call it is at; its outcome is not assumed. Nothing is assumed of users, of L1
or of the network, and faults are finitely many, as a process that crashes for ever
promises nothing. Liveness properties therefore start with `<>[]`: once the users leave
the object alone and what is outside stays up.

### Three statements of the source the code does not keep

*Manual addresses* (`discovery_manual`). `DiscoverContracts` looks into the cache by
network name and chain ID before it looks at the discovery method
(`discovery.go:40`). A network with manual addresses is given the ones of an earlier
specification, or of another OptimismNetwork with the same name and chain ID, until
they expire.

*Updates of the StatefulSet* (`opnode_follow`). "Update existing StatefulSet if
needed" (`opnode_controller.go:386`) sends the whole generated specification. Selector
and volume claims cannot change, and depend on the node's type, its network's name and
its storage: after such an edit every update is refused, the node stays in Error, and
no later edit but the one back helps. The counterexample is a sequencer that is edited into
a replica; the run has the edit the other way too, and it fails in the same way.

*Nodes in another namespace* (`operator_remote`). A node may name a network in another
namespace (`opnode_controller.go:241`), and `examples/basic/sequencer-and-replica.yaml:234`
does: "Cross-namespace replica example". The network's ConfigMap is made in the network's
namespace (`optimismnetwork_controller.go:271`), and the pods look for it in their own
(`statefulset.go:424`): they are deployed and wait for it for ever. `MountedConfigExists` and the
theorem about it are for nodes in the namespace of their network.

## 4. Proofs

| Theorem | Says |
|---|---|
| `NetworkProofs!TypeCorrect` | `Spec => []TypeOK` of NetworkController |
| `NetworkSafetyProofs!Invariance` | the inductive invariant `Inv` of NetworkInvariants |
| `NetworkSafetyProofs!LiveObject`, `ObservedWithin`, `ReadyEarned`, `UsersOwnTheSpec` | the safety properties of NetworkController |
| `NetworkSafetyProofs!Implementation` | NetworkController implements NetworkLifecycle, if users do not meddle |
| `NetworkSafetyProofs!CacheContract` | NetworkController uses discovery as AddressCache |
| `OpNodeProofs!TypeCorrect`, `HoldsLiveNode` | `Spec => []TypeOK` of OpNodeController, and that a reconcile holds the node that is there |
| `OpNodeSafetyProofs!Invariance` | the inductive invariant `Inv` of OpNodeInvariants |
| `OpNodeSafetyProofs!MountsAreThere`, `SelectorsAgree`, `RunningEarned`, `SecretsStable` | the safety properties of what the node controller makes |
| `OpNodeSafetyProofs!EngineFound`, `PodsAreReached` | what the builders promise each other |
| `OpNodeSafetyProofs!Implementation` | OpNodeController implements NodeLifecycle |
| `DiscoveryProofs!TypeCorrect`, `Recent`, `Implementation` | the safety property of Discovery, and that it implements AddressCache |
| `HelpersProofs!UniqueTypes`, `OneTypeSet` | condition lists: one entry per type, and a call sets no other |
| `HelpersProofs!ImagesAgree`, `SpecificWins` | image rules: what is accepted agrees, and is what was asked for |
| `OperatorProofs!Mounted` | with both controllers and a node in the namespace of its network, `MountedConfigExists` |

They hold for every set of specifications, any bounds, and under the named assumptions
of the modules only (`SpecsAssumption`, `BoundsAssumption`, `TimesAssumption`,
`TimeAssumption`), which say what the constants are. The theorems about images assume nothing
of the names of version sets, versions and images that users write.

**The network controller.** None of the properties is inductive: `ReadyIsEarned` is about the
object in the API server, but the report was put together from an old read. The
invariant (`NetworkInvariants!Inv`) says how far the copies may be apart:
- `FreshIsCurrent`: a copy of the current version equals the object;
- `CacheIsPast`: the informer's copy is an earlier state of this object (an earlier or
  the same generation, and the same specification if the same; marked and finalized no
  more than the object is), or of a predecessor, in which case the object was never
  reported on and never finalized;
- `WorkIsPast`: the reconcile's copy is an earlier state of what the informer shows, and
  the object is finalized and so cannot vanish under it;
- `Progress`: what the steps up to `pc` have established of `work`;
- `ReadyIsCompleted`: and hence of the object, when its report names its generation.

The key is that only the controller removes the finalizer and never while it works on
the object: hence "without meddling" in those parts. `NetworkProofs` proves the types and the
parts about copies, one lemma per action, `NetworkSafetyProofs` the rest and the refinements.
The proof for Discovery carries that each entry was earned by a resolution of some
specification with its key. `UsersOwnTheSpec` is about every step of a reconcile: either the object
is there before and after, with the same identity, generation, specification and mark of deletion, or it
is gone after it, and was gone or marked before. So nothing is put back, by an edit or from the dead,
and nothing goes that users did not delete.

**The node controller.** `OpNodeInvariants!Inv` makes the same argument about the copies, and a
second one about four objects that are written one after another:
- `OwnersInOrder`: no object belongs to a node that has not been; with it, what a node finds on
  its creation is either its predecessors' or nobody's, and nobody but the first node
  (`uid = 1`) can be sure that what it finds is its own;
- `FreshIsCurrent`, `CopiesInOrder`: as above, for the node and each owned object; without them
  an update written from a late copy could go to another node of the name;
- `Reporting`: a deployment has a network and a valid specification, and a report carries the
  generation of the reconcile that makes it; without it a Running could come out of a reconcile
  that never got as far as the StatefulSet;
- `Progress`: at each `pc`, the objects of the earlier steps are there, with the content the
  specification in `work` asks for. Each is `Made`, which allows for its absence once a later
  node of the name is there: the collector may remove what that node has taken over;
- `FirstKeeps`: what the cache shows of a first node's objects is still there, and its Service
  was made after its StatefulSet; without it an update could be of an object that is gone, or a
  Service be found beside a StatefulSet made later, for other labels;
- `MountsExist`, `ServiceSelectsPods`, `RunningIsEarned`: each needs the others' parts for the step
  that updates rather than creates. The selector of a Service is never updated; it agrees because
  the update of the StatefulSet is refused unless its labels are what they were.

`EngineIsReached` and `ServiceReachesPods` then follow from lemmas about the builders alone
(`EnginePort`, `PortsReachListeners`). `SecretsAreStable` needs only the types and that a secret
is created, never updated.

`Implementation` goes step by step. The node is mapped to what a client sees of it; the workload to
the StatefulSet with its owner; the sight to the cached network if that is Ready; the deployment to the
work of the reconcile, from `FetchNetwork` (in `Validate`) to the report. The write of the
StatefulSet is the abstract `Deploy`, and the report of Running its end; a report that is never written is
`Abandon`, a restart, which also lists the network anew, is `Restart`, and what the network's informer shows is `See`; the finalizer, the secrets, the Service,
timers and refused writes are stutters. What makes each map is in `Inv`: that the reconcile's node is the one in the API
server (`WorkIsPast`), and that Running is written only when the workload is there (`Progress`).

**Both.** `Operator` takes the network controller's steps unchanged, so its `Inv` holds there too.
`OperatorProofs` adds to it that nothing comes of a network (no sight, deployment or workload)
before it was Ready, and that the ConfigMap is there from before then on: only the collector
could remove it, and it does not while its owner, the first of the name, is there. Its node is
NodeLifecycle, which `OpNodeSafetyProofs!Implementation` shows the node controller to be: the two
meet as NetworkController and NetworkLifecycle do.

**Helpers.** A list has distinct types as an invariant, and then a call appends or replaces the one
entry of its type (`AfterEffect`). For images the invariant is that `built` is
what `BuildImageConfig` gives for `overrides`; the rest is about its stages.

**Model-checked only.** Liveness, and anything with fairness or ENABLED, is out of the provers'
reach: `SoundSpecBecomesReady`, `InvalidSpecIsReported`, `DeletionCompletes` (of both
controllers) and `ValidNodeRuns`. The three statements the code does not keep have
counterexamples and no proofs. Every invariant, action property and refinement a passing run
checks is also a theorem. The inductive invariants were checked by TLC on the runs' instances before
they were proved.

## 5. Not modelled

- OpBatcher, OpProposer and OpChallenger: scaffolds.
- Fail-over between managers: leader election is taken to keep one active.
- ConfigMaps, secrets or Services of the same name made by somebody else.
- The conversion of chain IDs to strings and their truncation to 64 bits; a negative ID.
- `status.nodeInfo` (constants), condition reasons and messages, events, logging.
- Resource amounts, probes, hosts, logging, metrics and security contexts: no property tells
  them apart. Probes and container ports are constants; `hazards` says where that bites.
- Of `pkg/config/images.go`, `GetCompatibleOpGethVersion` (every way out of it but `latest` gives
  the default version) and `CacheConfig` (constants without a user). No controller calls the package.
- The sequencer a replica refers to: its controller never reads it.
- Generated code (deep copies, CRDs) and manifests.

## 6. Plan

Done: the discovery service, the conditions, the network controller and the OpNode controller with their
abstract specifications and proofs, both controllers together, the builders' ports and endpoints,
the image rules; every safety property as a theorem.

Next, in order:
1. That the two implementations compose: a system of the two detailed controllers implements
   `Operator`, so that `Mounted` is a theorem about the detailed node as well.
2. `ServiceSelectsPods` and `RunningIsEarned` for later nodes of a name, once nothing of the
   earlier ones is left.
3. Times in conditions and the events a controller's own reports give it.
