---------------------------- MODULE NetworkRules ----------------------------
(***************************************************************************)
(* The pure part of the OptimismNetwork controller                         *)
(* (src/internal/controller/optimismnetwork_controller.go): validation of  *)
(* a specification and the content of the ConfigMaps generated from it.    *)
(*                                                                         *)
(* Abstraction of the data.  A ConfigSource is the set of the alternatives *)
(* it gives, so that a nil source is the empty set.  The generated JSON is *)
(* the record of the values interpolated into it.                          *)
(***************************************************************************)
EXTENDS Integers, FiniteSets, DiscoveryRules

ConfigSource == SUBSET {"inline", "configMapRef", "autoDiscover"}

NetworkSpec ==
    [networkName: STRING, chainID: Int, l1ChainID: Int, l1RpcUrl: STRING,
     rollupConfig: ConfigSource, l2Genesis: ConfigSource,
     contracts: ContractConfig]

ValidConfigSource(source) == Cardinality(source) <= 1

ValidConfiguration(spec) ==
    /\ spec.chainID # 0
    /\ spec.l1ChainID # 0
    /\ spec.l1RpcUrl # "none"
    /\ spec.chainID # spec.l1ChainID
    /\ ValidConfigSource(spec.rollupConfig)
    /\ ValidConfigSource(spec.l2Genesis)

\* The two ConfigMaps a network may own, <name>-rollup-config and
\* <name>-genesis, and whether the specification asks for each.
ConfigMapKinds == {"rollup", "genesis"}

AutoDiscovered(kind, spec) ==
    \/ kind = "rollup" /\ "autoDiscover" \in spec.rollupConfig
    \/ kind = "genesis" /\ "autoDiscover" \in spec.l2Genesis

\* generateRollupConfig and generateGenesisConfig.  A genesis document holds
\* nothing but the chain id.
RollupData == [l1: Int, l2: Int, portal: AddressValues, systemConfig: AddressValues]
GenesisData == [l2: Int]

GeneratedData(kind, spec, addresses) ==
    IF kind = "rollup"
    THEN [l1 |-> spec.l1ChainID, l2 |-> spec.chainID,
          portal |-> addresses.portal, systemConfig |-> addresses.systemConfig]
    ELSE [l2 |-> spec.chainID]

\* The data of a ConfigMap describes the chain of a specification.
DescribesChain(kind, data, spec) ==
    /\ data.l2 = spec.chainID
    /\ kind = "rollup" => data.l1 = spec.l1ChainID
=============================================================================
