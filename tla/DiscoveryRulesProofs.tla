------------------------ MODULE DiscoveryRulesProofs ------------------------
(***************************************************************************)
(* What the functions of DiscoveryRules yield, for every specification.    *)
(***************************************************************************)
EXTENDS DiscoveryRules, TLAPS

\* A resolution is an answer or the absence of one (discovery.go:54-74).
LEMMA ResolveType ==
    ASSUME NEW s, s.contracts \in ContractConfig, NEW d \in BOOLEAN
    PROVE  Resolve(s, d) \in Addresses
<1> USE DEF AddressValues
<1>1. NoAddresses \in Addresses /\ RegistryAddresses \in Addresses
  BY DEF RegistryAddresses, NoAddresses, Addresses
<1>2. WellKnownAddresses(s) \in Addresses
  BY DEF WellKnownAddresses, WellKnown, OfficialChains, NoAddresses, Addresses
<1>3. ManualAddresses(s) \in Addresses
  BY DEF ManualAddresses, ContractConfig, Addresses
<1>4. AutoDiscover(s, d) \in Addresses
  <2>1. SystemConfigAddresses(s) \in Addresses
    BY DEF SystemConfigAddresses, ContractConfig, Addresses
  <2>2. QED
    BY <1>1, <1>2, <2>1 DEF AutoDiscover
<1>5. QED
  BY <1>1, <1>2, <1>3, <1>4 DEF Resolve

\* So is an answer from a cache of answers (discovery.go:40-43).
LEMMA AnswerType ==
    ASSUME NEW s, s.contracts \in ContractConfig, NEW d \in BOOLEAN,
           NEW cache, cache[CacheKey(s)] \in Addresses
    PROVE  Answer(cache, s, d) \in Addresses
  BY ResolveType DEF Answer

\* A call whose key is in the cache does not touch the cache.
LEMMA HitKeeps ==
    ASSUME NEW s, NEW d, NEW K, CacheKey(s) \in K, NEW cache \in [K -> Addresses],
           cache[CacheKey(s)] # NoAddresses
    PROVE  [cache EXCEPT ![CacheKey(s)] = Answer(cache, s, d)] = cache
<1>1. Answer(cache, s, d) = cache[CacheKey(s)]
  BY DEF Answer
<1> HIDE DEF CacheKey
<1>2. QED
  BY <1>1
=============================================================================
