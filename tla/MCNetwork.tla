------------------------------ MODULE MCNetwork ------------------------------
(***************************************************************************)
(* Values of the constants of NetworkController for TLC.                   *)
(***************************************************************************)
EXTENDS NetworkController, TLC

Contracts(method, systemConfig, portal) ==
    [method |-> method, systemConfig |-> systemConfig, portal |-> portal,
     cacheTimeout |-> 0]

\* OP Sepolia, everything generated and found among the built-in addresses.
SepoliaSpec ==
    [networkName |-> "op-sepolia", chainID |-> 11155420, l1ChainID |-> 11155111,
     l1RpcUrl |-> "https://sepolia",
     rollupConfig |-> {"autoDiscover"}, l2Genesis |-> {"autoDiscover"},
     contracts |-> Contracts("none", "none", "none")]

\* The same chain with addresses given by hand and an external genesis.
ManualSpec == [SepoliaSpec EXCEPT !.l2Genesis = {"configMapRef"},
                                  !.contracts = Contracts("manual", "0xaa", "0xbb")]

\* The same chain with a SystemConfig address, nothing generated.
SystemConfigSpec == [SepoliaSpec EXCEPT !.rollupConfig = {}, !.l2Genesis = {},
                                        !.contracts = Contracts("auto", "0xcc", "none")]

\* Another chain with the same L1.
BaseSpec == [SepoliaSpec EXCEPT !.networkName = "base", !.chainID = 8453]

\* The first chain with nothing but a generated rollup configuration.
RollupSpec == [SepoliaSpec EXCEPT !.l2Genesis = {}]

\* Invalid: two sources for the rollup configuration.
TwoSourcesSpec == [SepoliaSpec EXCEPT !.rollupConfig = {"inline", "autoDiscover"}]

\* Valid, but the endpoint serves another chain.
WrongL1Spec == [SepoliaSpec EXCEPT !.l1ChainID = 1]

\* Valid, but no strategy finds its contracts.
UnknownChainSpec ==
    [SepoliaSpec EXCEPT !.networkName = "devnet", !.chainID = 901,
                        !.contracts = Contracts("superchain-registry", "none", "none")]

MCAddresses == {"0xaa", "0xbb", "0xcc"}
MCL1ChainAt == ("https://sepolia" :> 11155111)

ValidAndInvalid == {RollupSpec, TwoSourcesSpec}

AllSpecs == {BaseSpec, ManualSpec, SystemConfigSpec, TwoSourcesSpec, WrongL1Spec,
             UnknownChainSpec}

\* Two specifications with the same discovery key and other contracts, of
\* which one generates a ConfigMap.
OneKey == {ManualSpec, SystemConfigSpec}

-----------------------------------------------------------------------------
\* The object was edited or created anew, as far as anyone holds a copy of it.
Changed ==
    \/ lastUid > 1
    \/ \E o \in {net, netCache, work} : Exists(o) /\ o.generation > 1

\* A bound of the search: a history has faults and any specification, or no
\* fault and changes between the specifications of one discovery key.
FaultsOrChanges ==
    Changed =>
        /\ faults = 0
        /\ \A o \in {net, netCache, work} : Exists(o) => o.spec \in OneKey
=============================================================================
