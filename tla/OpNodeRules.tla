----------------------------- MODULE OpNodeRules -----------------------------
(***************************************************************************)
(* The pure part of the OpNode controller: validation                      *)
(* (src/internal/controller/opnode_controller.go) and the StatefulSet and  *)
(* Service generated for a node (src/pkg/resources/).                      *)
(*                                                                         *)
(* Abstraction of the data.  Of the specification of a node this keeps     *)
(* what validation looks at and what identifies, stores or connects the    *)
(* node; images, resources, probes, logging, metrics, hosts and security   *)
(* context pass through unconditionally and are left out.  An empty string *)
(* or a nil pointer is "none".  A list of ports is a set.                  *)
(***************************************************************************)
EXTENDS Integers

\* The ports of the two processes, and where each listens unless told.
DefaultPort == [gethHttp |-> 8545, gethWs |-> 8546, gethP2p |-> 30303, authrpc |-> 8551,
                nodeRpc |-> 9545, nodeP2p |-> 9003]
Listeners == DOMAIN DefaultPort

\* Whether a listener is enabled (for gethP2p and authrpc: configured at all),
\* and its port if one is given, else 0.
Setting == [on: BOOLEAN, port: Nat]

\* A port of a Service; the target is 0 if none is given.
ServicePort == [name: STRING, port: Nat, target: Nat]

NodeSpec ==
    [network: STRING,           \* optimismNetworkRef.name
     namespace: STRING,         \* optimismNetworkRef.namespace
     nodeType: {"none", "sequencer", "replica", "unknown"},
     sequencer: BOOLEAN,        \* the op-node is told to sequence
     discovery: {"none", "on", "off"},
     l2RpcUrl: {"none", "http://external", "malformed"},
     sequencerRef: STRING,
     p2pKey: {"none", "generate", "secretRef"},
     storage: STRING,           \* "none", "zero" or a size
     listeners: [Listeners -> Setting],
     ports: SUBSET ServicePort] \* service.ports

\* What the controller uses of the specification of a network.
NetworkData == [networkName: STRING, chainID: Int, l1RpcUrl: STRING]

\* validateConfiguration.  A replica may have any l2RpcUrl, and may have the
\* sequencer enabled.
ValidNode(spec) ==
    /\ spec.network # "none"
    /\ spec.nodeType \in {"sequencer", "replica"}
    /\ spec.nodeType = "sequencer" =>
         /\ spec.sequencer
         /\ spec.discovery # "on"
         /\ spec.l2RpcUrl # "malformed"
    /\ spec.storage # "zero"

\* fetchOptimismNetwork: where it looks for the network of a node in a namespace.
\* The objects of the node, and what its pods mount, are in that of the node.
NetworkKey(spec, namespace) ==
    [name |-> spec.network,
     namespace |-> IF spec.namespace = "none" THEN namespace ELSE spec.namespace]

\* The labels that depend on the specifications.  They are the labels and the
\* selector of the StatefulSet, the labels of its pods and of its volume
\* claim, and the labels and the selector of the Service.
Labels(spec, network) == [network |-> network.networkName, nodeType |-> spec.nodeType]

-----------------------------------------------------------------------------
\* The arguments of the two containers.

\* getDefaultInt32 on the port of a listener, and the ports it then has.
PortOf(spec, l) ==
    IF spec.listeners[l].port = 0 THEN DefaultPort[l] ELSE spec.listeners[l].port
Served(spec, l) == IF spec.listeners[l].on THEN {PortOf(spec, l)} ELSE {}

\* getSequencerEndpoint.  A sequencer is its own, at the HTTP port it was given
\* whether or not HTTP is enabled; the last resort is the service
\* <network>-sequencer.  An external URL has its own port.
SequencerEndpoint(spec) ==
    IF spec.sequencer THEN [host |-> "self", port |-> PortOf(spec, "gethHttp")]
    ELSE IF spec.l2RpcUrl # "none" THEN [host |-> spec.l2RpcUrl, port |-> 0]
    ELSE IF spec.sequencerRef # "none" THEN [host |-> spec.sequencerRef, port |-> 8545]
    ELSE [host |-> "convention", port |-> 8545]

\* createOpGethContainer: the secret comes with the port of the engine API.
\* Its P2P port is not passed on.
GethArgs(spec, network) ==
    [networkid |-> network.chainID, endpoint |-> SequencerEndpoint(spec),
     http |-> Served(spec, "gethHttp"), ws |-> Served(spec, "gethWs"),
     authrpc |-> Served(spec, "authrpc"), jwt |-> spec.listeners["authrpc"].on]

\* getAuthRPCPort, where the op-node looks for the engine API.  The mutant does
\* not look at the configuration.
AuthRPCPortByDefault(spec) == DefaultPort["authrpc"]
AuthRPCPort(spec) ==
    IF spec.listeners["authrpc"].on THEN PortOf(spec, "authrpc") ELSE DefaultPort["authrpc"]

\* createOpNodeContainer.  Nothing is said of P2P unless it is enabled.
NodeArgs(spec, network) ==
    [l1 |-> network.l1RpcUrl, network |-> network.networkName,
     l2 |-> AuthRPCPort(spec),
     rpc |-> Served(spec, "nodeRpc"), p2p |-> Served(spec, "nodeP2p"),
     sequencer |-> spec.sequencer,
     noDiscovery |-> spec.listeners["nodeP2p"].on /\ spec.discovery = "off",
     p2pKey |-> spec.listeners["nodeP2p"].on /\ spec.p2pKey # "none"]

\* createVolumes: the generated secrets among the volumes, by the suffix of
\* their name.  The ConfigMap <network>-rollup-config is always among them.
Mounts(spec) == {"jwt"} \cup {k \in {"p2p"} : spec.p2pKey = "generate"}

\* The pod template.
Template(spec, network) ==
    [geth |-> GethArgs(spec, network),
     node |-> NodeArgs(spec, network),
     mounts |-> Mounts(spec)]

Storage(spec) == IF spec.storage = "none" THEN "1Ti" ELSE spec.storage

\* CreateOpNodeStatefulSet
StatefulSet(spec, network) ==
    [labels |-> Labels(spec, network),
     storage |-> Storage(spec),
     template |-> Template(spec, network)]

\* What the API server refuses to change of a StatefulSet: the selector and
\* the volume claim templates.
SameImmutable(current, desired) ==
    /\ current.labels = desired.labels
    /\ current.storage = desired.storage

-----------------------------------------------------------------------------
\* The Service.

\* buildDefaultServicePorts: what is enabled, and metrics in any case.  The
\* mutant exposes what it is by default.
ExposedListeners == Listeners \ {"authrpc"}
MetricsPort == [name |-> "metrics", port |-> 7300, target |-> 7300]
StandardServicePorts(spec) ==
    {[name |-> l, port |-> DefaultPort[l], target |-> DefaultPort[l]] :
        l \in {e \in ExposedListeners : spec.listeners[e].on}} \cup {MetricsPort}
DefaultServicePorts(spec) ==
    {[name |-> l, port |-> PortOf(spec, l), target |-> PortOf(spec, l)] :
        l \in {e \in ExposedListeners : spec.listeners[e].on}} \cup {MetricsPort}

\* buildServicePorts: the ports given, if there are any.
Ports(spec) ==
    IF spec.ports = {} THEN DefaultServicePorts(spec)
    ELSE {[p EXCEPT !.target = IF @ = 0 THEN p.port ELSE @] : p \in spec.ports}

\* CreateOpNodeService
Service(spec, network) == [selector |-> Labels(spec, network), ports |-> Ports(spec)]
=============================================================================
