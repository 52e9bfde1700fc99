------------------------------ MODULE Discovery ------------------------------
(***************************************************************************)
(* The contract discovery service (src/pkg/discovery/discovery.go) with    *)
(* its clock: the cache of answers and their expiry.                       *)
(*                                                                         *)
(* A call reads the clock to look into the cache, dials L1 if it has to,   *)
(* and reads the clock again to date the answer and to set its expiry; so  *)
(* it is two steps, with any amount of time between them.  The two last    *)
(* readings are taken to be equal: nothing but a store lies between them.  *)
(* There is one caller, the only worker of the network controller: the     *)
(* map has no lock.                                                        *)
(***************************************************************************)
EXTENDS DiscoveryRules

CONSTANTS
    Specs,              \* the specifications the service is called with
    DefaultTimeout,     \* the timeout it was created with (24 hours)
    MaxTime             \* bound: the clock stops here

ServiceSpec == [networkName: STRING, chainID: Int, contracts: ContractConfig]
ASSUME SpecsAssumption == Specs \subseteq ServiceSpec
ASSUME TimesAssumption == DefaultTimeout \in Nat /\ MaxTime \in Nat

VARIABLES
    now,        \* the clock
    cache,      \* the entries, by key
    calling,    \* the specification of the call that is resolving, if any
    answer      \* what the last call returned, and when

vars == <<now, cache, calling, answer>>

CacheKeys == {CacheKey(s) : s \in Specs}

\* CachedNetworkAddresses.  An entry without addresses stands for none.
Entry == [addresses: Addresses, discovered: Nat, expires: Nat]
NoEntry == [addresses |-> NoAddresses, discovered |-> 0, expires |-> 0]

Timeout(spec) ==
    IF spec.contracts.cacheTimeout > 0 THEN spec.contracts.cacheTimeout ELSE DefaultTimeout

\* isCacheExpired: strictly after.
Expired(entry) == now > entry.expires

LiveAddresses(key) ==
    IF Expired(cache[key]) THEN NoAddresses ELSE cache[key].addresses

Answers == [spec: Specs, addresses: Addresses, discovered: Nat, at: Nat]

TypeOK ==
    /\ now \in 0 .. MaxTime
    /\ cache \in [CacheKeys -> Entry]
    /\ calling \in SUBSET Specs
    /\ answer \in SUBSET Answers

Init ==
    /\ now = 0
    /\ cache = [k \in CacheKeys |-> NoEntry]
    /\ calling = {}
    /\ answer = {}

Return(spec, addresses, discovered) ==
    answer' = {[spec |-> spec, addresses |-> addresses, discovered |-> discovered, at |-> now]}

\* A mutant: an answer from the cache extends the life of its entry.
HitExtends(spec) ==
    LET entry == cache[CacheKey(spec)] IN
      /\ calling = {}
      /\ LiveAddresses(CacheKey(spec)) # NoAddresses
      /\ Return(spec, entry.addresses, entry.discovered)
      /\ cache' = [cache EXCEPT ![CacheKey(spec)].expires = now + Timeout(spec)]
      /\ UNCHANGED <<now, calling>>

\* A call that finds an entry that has not expired.
Hit(spec) ==
    LET entry == cache[CacheKey(spec)] IN
      /\ calling = {}
      /\ LiveAddresses(CacheKey(spec)) # NoAddresses
      /\ Return(spec, entry.addresses, entry.discovered)
      /\ UNCHANGED <<now, cache, calling>>

\* A call that does not.
Miss(spec) ==
    /\ calling = {}
    /\ LiveAddresses(CacheKey(spec)) = NoAddresses
    /\ calling' = {spec}
    /\ UNCHANGED <<now, cache, answer>>

\* Mutants: the timeout counts backwards, and a resolution is cached under the
\* name of the network alone.
EntryExpiredAtOnce(spec, addresses) ==
    IF addresses = NoAddresses THEN cache' = cache
    ELSE cache' = [cache EXCEPT ![CacheKey(spec)] =
                     [addresses |-> addresses, discovered |-> now,
                      expires |-> now - Timeout(spec)]]
EntryForEveryChain(spec, addresses) ==
    cache' = [k \in CacheKeys |->
                IF k[1] = spec.networkName /\ addresses # NoAddresses
                THEN [addresses |-> addresses, discovered |-> now,
                      expires |-> now + Timeout(spec)]
                ELSE cache[k]]

\* An answer is cached, a failure is not.
StoreEntry(spec, addresses) ==
    IF addresses = NoAddresses THEN cache' = cache
    ELSE cache' = [cache EXCEPT ![CacheKey(spec)] =
                     [addresses |-> addresses, discovered |-> now,
                      expires |-> now + Timeout(spec)]]

\* The resolution of a call that missed; dial says whether the L1 endpoint
\* can be dialled.
Resolution(spec, dial) ==
    LET addresses == Resolve(spec, dial) IN
      /\ calling = {spec}
      /\ calling' = {}
      /\ StoreEntry(spec, addresses)
      /\ Return(spec, addresses, now)
      /\ UNCHANGED now

ClearCache ==
    /\ calling = {}
    /\ cache' = [k \in CacheKeys |-> NoEntry]
    /\ UNCHANGED <<now, calling, answer>>

\* The process ends, with any call in progress, and starts with a new service.
Restart ==
    /\ cache' = [k \in CacheKeys |-> NoEntry]
    /\ calling' = {}
    /\ UNCHANGED <<now, answer>>

Tick ==
    /\ now < MaxTime
    /\ now' = now + 1
    /\ UNCHANGED <<cache, calling, answer>>

Next ==
    \/ \E s \in Specs : Hit(s) \/ Miss(s)
    \/ \E s \in Specs, dial \in BOOLEAN : Resolution(s, dial)
    \/ ClearCache
    \/ Restart
    \/ Tick

Spec == Init /\ [][Next]_vars

-----------------------------------------------------------------------------
\* Properties.

\* addresses are what s resolves to, with L1 in one state or another.
ResolvesTo(s, addresses) == \E dial \in BOOLEAN : addresses = Resolve(s, dial)

\* An answer is what some specification with the same name and chain id
\* resolved to, no longer ago than the timeout that specification asked for:
\* neither a change of the timeout, nor traffic, nor a slow resolution makes
\* an answer outlive the timeout it was given.
AnswersAreRecent ==
    \A a \in answer :
        \E s \in Specs :
            /\ CacheKey(s) = CacheKey(a.spec)
            /\ ResolvesTo(s, a.addresses)
            /\ a.discovered <= a.at
            /\ a.at <= a.discovered + Timeout(s)

\* Seen without its clock the service is the one its caller relies on: an
\* answer is forgotten only by expiry, ClearCache or a restart, a failure is
\* not remembered, and a call that was slow to resolve never replaces an answer.
Live == [k \in CacheKeys |-> LiveAddresses(k)]
Untimed == INSTANCE AddressCache WITH
    live <- Live, KeyOf <- CacheKey, Resolution <- Resolve, Nothing <- NoAddresses
ImplementsAddressCache == Untimed!Spec

-----------------------------------------------------------------------------
\* Statements of the source that the code does not keep.

\* discovery.go:34: DiscoverContracts "discovers contract addresses for the
\* given OptimismNetwork".  For one whose method is "manual" these are the
\* addresses its specification gives.
ManualAddressesAreHonoured ==
    \A a \in answer :
        a.spec.contracts.method = "manual" => a.addresses = ManualAddresses(a.spec)
=============================================================================
