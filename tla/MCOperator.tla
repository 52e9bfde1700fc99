----------------------------- MODULE MCOperator -----------------------------
(***************************************************************************)
(* Values of the constants of Operator for TLC.                            *)
(***************************************************************************)
EXTENDS Operator, TLC

\* OP Sepolia with a generated rollup configuration, and, for an edit, the same
\* made invalid by its genesis.
SepoliaSpec ==
    [networkName |-> "op-sepolia", chainID |-> 11155420, l1ChainID |-> 11155111,
     l1RpcUrl |-> "https://sepolia",
     rollupConfig |-> {"autoDiscover"}, l2Genesis |-> {},
     contracts |-> [method |-> "none", systemConfig |-> "none", portal |-> "none",
                    cacheTimeout |-> 0]]

Default == [on |-> TRUE, port |-> 0]
Replica ==
    [network |-> "sepolia", namespace |-> "default", nodeType |-> "replica", sequencer |-> FALSE,
     discovery |-> "on", l2RpcUrl |-> "http://external", sequencerRef |-> "none",
     p2pKey |-> "none", storage |-> "none", ports |-> {},
     listeners |-> [l \in Rules!Listeners |-> Default]]

MCAddresses == {}
MCL1ChainAt == ("https://sepolia" :> 11155111)
Networks == {SepoliaSpec, [SepoliaSpec EXCEPT !.l2Genesis = {"inline", "configMapRef"}]}
Nodes == {Replica}
=============================================================================
