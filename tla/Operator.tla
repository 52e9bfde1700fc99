------------------------------ MODULE Operator ------------------------------
(***************************************************************************)
(* Both controllers at work: NetworkController, step by step, beside a     *)
(* node that lives as NodeLifecycle allows, which is what OpNodeController *)
(* implements.  They share the network, which the node's controller reads  *)
(* from an informer cache of its own, and the rollup ConfigMap, which the  *)
(* network's controller makes and the node's pods mount                    *)
(* (src/pkg/resources/statefulset.go) without its controller ever looking. *)
(***************************************************************************)
EXTENDS NetworkController

CONSTANTS
    NodeSpecs,          \* the specifications users give to the node
    NodeNamespace,      \* the namespace of the node and its pods
    NetworkName,        \* the name of the network
    NetworkNamespace,   \* and its namespace, where its ConfigMaps are made
    MaxNodeGeneration,  \* bound: changes of the node stop at this generation
    MaxNodeUid          \* bound: identities of nodes

Rules == INSTANCE OpNodeRules

ASSUME NodeSpecsAssumption == NodeSpecs \subseteq Rules!NodeSpec
ASSUME NodeBoundsAssumption ==
    /\ MaxNodeGeneration \in Nat \ {0}
    /\ MaxNodeUid \in Nat \ {0}

VARIABLES
    node,       \* the node, as clients see it
    workload,   \* its StatefulSet and the uid of the node that made it
    sight,      \* the network, if its controller last saw it Ready
    target      \* the deployment in progress, if there is one

nodeVars == <<node, workload, sight, target>>

NetworkDataOf(spec) ==
    [networkName |-> spec.networkName, chainID |-> spec.chainID, l1RpcUrl |-> spec.l1RpcUrl]
Deployable(spec) ==
    /\ Rules!ValidNode(spec)
    /\ Rules!NetworkKey(spec, NodeNamespace) =
         [name |-> NetworkName, namespace |-> NetworkNamespace]

Node == INSTANCE NodeLifecycle WITH
    Uids <- 1 .. MaxNodeUid, Specs <- NodeSpecs,
    NetworkData <- {NetworkDataOf(s) : s \in Specs},
    Workload <- Rules!StatefulSet, Compatible <- Rules!SameImmutable, obj <- node

SystemInit == Init /\ Node!Init

NetworkStep == Next /\ UNCHANGED nodeVars

\* A mutant: the node's controller does not look at the phase.
NetworkInReachAnyPhase == {NetworkDataOf(o.spec) : o \in {n \in {net} : Exists(n)}}

\* What the node's controller can see of the network that makes it deploy, in
\* whatever namespace that is: Deployable asks whether the node refers to it.
NetworkInReach ==
    {NetworkDataOf(o.spec) : o \in {n \in {net} : Exists(n) /\ n.status.phase = "Ready"}}

\* Nobody here reads what a report that is not Running says, nor the generation
\* it names: one of each stands for all.
NodeStep ==
    /\ Node!Next
    /\ sight' \in {sight, NetworkInReach}
    /\ node'.uid # 0 =>
         /\ node'.generation <= MaxNodeGeneration
         /\ node'.observed <= 1
         /\ node'.phase # "Pending"
    /\ UNCHANGED vars

SystemNext == NetworkStep \/ NodeStep
SystemSpec == SystemInit /\ [][SystemNext]_<<vars, nodeVars>>

-----------------------------------------------------------------------------
\* Properties.

\* createVolumes: the pods of a node mount a ConfigMap <network>-rollup-config,
\* by its name alone, which Kubernetes looks up in their own namespace.  There
\* the network's controller has made it, if the namespace is the network's.
MountedConfig == IF NodeNamespace = NetworkNamespace THEN cms["rollup"] ELSE NoConfigMap

\* A workload has been made for a network that is still there, whose
\* specifications all generate the ConfigMap.
WorkloadOfGeneratingNetwork ==
    /\ ~Meddling
    /\ \A s \in Specs : AutoDiscovered("rollup", s)
    /\ net.uid = 1
    /\ workload.owner # 0

\* Nobody who deploys the pods looks whether the ConfigMap is there.  For a node
\* in the namespace of its network it is: Ready comes after the ConfigMaps, and
\* no later specification, failure, conflict or late read removes what was
\* generated.  A network created again under the name may find the pods of the
\* earlier one waiting for it.
MountedConfigExists ==
    NodeNamespace = NetworkNamespace /\ WorkloadOfGeneratingNetwork => Present(MountedConfig)

-----------------------------------------------------------------------------
\* A statement of the source that the code does not keep.

\* examples/basic/sequencer-and-replica.yaml:234: "Cross-namespace replica
\* example".  Then a node may be in another namespace than its network, and its
\* pods have what they mount there as well.
RemoteNodeHasConfig ==
    WorkloadOfGeneratingNetwork => Present(MountedConfig)
=============================================================================
