------------------------------ MODULE MCOpNode ------------------------------
(***************************************************************************)
(* Values of the constants of OpNodeController for TLC.                    *)
(***************************************************************************)
EXTENDS OpNodeController, TLC

Off == [on |-> FALSE, port |-> 0]
Default == [on |-> TRUE, port |-> 0]

Replica ==
    [network |-> "sepolia", namespace |-> "none", nodeType |-> "replica", sequencer |-> FALSE,
     discovery |-> "on", l2RpcUrl |-> "http://external", sequencerRef |-> "none",
     p2pKey |-> "none", storage |-> "none", ports |-> {},
     listeners |-> [gethHttp |-> Default, gethWs |-> Off, gethP2p |-> Off,
                    authrpc |-> Default, nodeRpc |-> Default, nodeP2p |-> Default]]

\* The same node with a generated P2P key, and with ports of its own.
KeyedReplica == [Replica EXCEPT !.p2pKey = "generate"]
PortsReplica == [Replica EXCEPT !.listeners.gethHttp.port = 9000,
                                !.listeners.authrpc.port = 9551,
                                !.listeners.nodeP2p = Off]

\* A sequencer that names the namespace of its network, and whose Service has the
\* port its users gave it.
Sequencer == [Replica EXCEPT !.namespace = "default", !.nodeType = "sequencer", !.sequencer = TRUE,
                             !.discovery = "off", !.l2RpcUrl = "none",
                             !.ports = {[name |-> "rpc", port |-> 80, target |-> 0]}]

\* Invalid: a sequencer that can be discovered.
OpenSequencer == [Sequencer EXCEPT !.discovery = "on"]

\* Valid, but there is no such network in the namespace it names.
LostReplica == [Replica EXCEPT !.namespace = "elsewhere"]

Sepolia == [networkName |-> "op-sepolia", chainID |-> 11155420, l1RpcUrl |-> "https://sepolia"]
RenamedSepolia == [Sepolia EXCEPT !.networkName = "sepolia-2"]

Keyed == {KeyedReplica}
Roles == {Replica, Sequencer}
Rules == {KeyedReplica, PortsReplica, Sequencer, OpenSequencer, LostReplica}
Plain == {Replica}

SomeTokens == Permutations(Tokens)

OneNetwork == {Sepolia}
TwoNames == {Sepolia, RenamedSepolia}

\* Bounds, each used where the product of the two lives is too large: neither
\* object is deleted; the network does not fail once it is there.
NothingIsDeleted ==
    /\ Exists(node) => ~node.deleting
    /\ Exists(network) => ~network.deleting
NetworkHoldsUp == Exists(network) => network.phase # "Error"
=============================================================================
