--------------------------- MODULE DiscoveryRules ---------------------------
(***************************************************************************)
(* The pure part of the contract discovery service                         *)
(* (src/pkg/discovery/discovery.go): which addresses the specification of  *)
(* an OptimismNetwork resolves to, and under which key the answer is       *)
(* cached.                                                                 *)
(*                                                                         *)
(* Abstraction of the data.  A set of contract addresses is the triple     *)
(* (method, systemConfig, portal): the other addresses of the structure    *)
(* always come from the same place as the portal's and nothing reads them. *)
(* The addresses built into the operator for a chain are named after it.   *)
(* An empty string is "none", and a nil contractAddresses is the record    *)
(* whose fields are all empty: the code treats the two alike.              *)
(***************************************************************************)
EXTENDS Integers

CONSTANT UserAddresses      \* the addresses users write into specifications

OfficialChains == {"op-mainnet", "op-sepolia", "base-mainnet"}
AddressValues == UserAddresses \cup OfficialChains \cup {"none"}

\* ContractAddressConfig.  cacheTimeout 0 means: use the default.
ContractConfig ==
    [method: {"none", "auto", "superchain-registry", "well-known", "manual", "unknown"},
     systemConfig: UserAddresses \cup {"none"},
     portal: UserAddresses \cup {"none"},
     cacheTimeout: Nat]

\* NetworkContractAddresses, and the absence of an answer (a nil pointer or
\* an error: the callers treat them alike).
Addresses ==
    [method: {"none", "system-config", "superchain-registry", "well-known", "manual"},
     systemConfig: AddressValues,
     portal: AddressValues]
NoAddresses == [method |-> "none", systemConfig |-> "none", portal |-> "none"]

\* The key of the address cache: fmt.Sprintf("%s-%d", NetworkName, ChainID).
\* A pair is as discriminating as the string for the chain ids that exist,
\* which are not negative.
CacheKey(spec) == <<spec.networkName, spec.chainID>>

\* The chains whose addresses are built in.  The switch takes the first case
\* that matches the name OR the chain id, so the name of one official network
\* with the chain id of another yields the addresses of the earlier case.
OPMainnet == 10
OPSepolia == 11155420
BaseMainnet == 8453

IsChain(spec, name, id) == spec.networkName = name \/ spec.chainID = id

WellKnown(chain) ==
    [method |-> "well-known", systemConfig |-> chain, portal |-> chain]

WellKnownAddresses(spec) ==
    IF IsChain(spec, "op-mainnet", OPMainnet) THEN WellKnown("op-mainnet")
    ELSE IF IsChain(spec, "op-sepolia", OPSepolia) THEN WellKnown("op-sepolia")
    ELSE IF IsChain(spec, "base-mainnet", BaseMainnet) THEN WellKnown("base-mainnet")
    ELSE NoAddresses

ManualAddresses(spec) ==
    [method |-> "manual",
     systemConfig |-> spec.contracts.systemConfig,
     portal |-> spec.contracts.portal]

\* The query of the SystemConfig contract is a placeholder that fills in the
\* address it was given and leaves the others empty.
SystemConfigAddresses(spec) ==
    [method |-> "system-config",
     systemConfig |-> spec.contracts.systemConfig,
     portal |-> "none"]

\* The superchain registry is not implemented: it answers with an error.
RegistryAddresses == NoAddresses

\* Strategies in order: the SystemConfig contract if its address is given and
\* the L1 endpoint can be dialled, the registry, the built-in addresses.
AutoDiscover(spec, dial) ==
    IF spec.contracts.systemConfig # "none" /\ dial THEN SystemConfigAddresses(spec)
    ELSE IF RegistryAddresses # NoAddresses THEN RegistryAddresses
    ELSE WellKnownAddresses(spec)

DiscoveryMethod(spec) ==
    IF spec.contracts.method = "none" THEN "auto" ELSE spec.contracts.method

\* What a cache miss resolves to; an unknown method is an error.
Resolve(spec, dial) ==
    LET method == DiscoveryMethod(spec) IN
      IF method = "auto" THEN AutoDiscover(spec, dial)
      ELSE IF method = "superchain-registry" THEN RegistryAddresses
      ELSE IF method = "well-known" THEN WellKnownAddresses(spec)
      ELSE IF method = "manual" THEN ManualAddresses(spec)
      ELSE NoAddresses

\* A mutant: the cache is filled but never read.
AnswerAfresh(cache, spec, dial) == Resolve(spec, dial)

\* DiscoverContracts, given the live answers by key: the one for the key of
\* the specification if there is one, else a resolution.
Answer(cache, spec, dial) ==
    IF cache[CacheKey(spec)] # NoAddresses
    THEN cache[CacheKey(spec)] ELSE Resolve(spec, dial)
=============================================================================
