--------------------------- MODULE DiscoveryProofs ---------------------------
(***************************************************************************)
(* Proofs about Discovery, for every value of its constants.               *)
(***************************************************************************)
EXTENDS Discovery, DiscoveryRulesProofs, TLAPS

LEMMA KeyType ==
    ASSUME NEW s \in Specs
    PROVE  CacheKey(s) \in CacheKeys
  BY DEF CacheKeys

LEMMA TimeoutType ==
    ASSUME NEW s \in Specs
    PROVE  Timeout(s) \in Nat
  BY SpecsAssumption, TimesAssumption DEF Timeout, ServiceSpec, ContractConfig

LEMMA ResolutionType ==
    ASSUME NEW s \in Specs, NEW dial \in BOOLEAN
    PROVE  Resolve(s, dial) \in Addresses
  BY ResolveType, SpecsAssumption DEF ServiceSpec

LEMMA NoEntryType == NoEntry \in Entry
  BY DEF NoEntry, Entry, NoAddresses, Addresses, AddressValues

\* What StoreEntry stores.
NewEntry(spec, addresses) ==
    [addresses |-> addresses, discovered |-> now, expires |-> now + Timeout(spec)]

LEMMA NewEntryType ==
    ASSUME TypeOK, NEW s \in Specs, NEW a \in Addresses
    PROVE  NewEntry(s, a) \in Entry
  BY TimeoutType, TimesAssumption DEF NewEntry, Entry, TypeOK

LEMMA StoreEntryEffect ==
    ASSUME NEW s \in Specs, NEW a, StoreEntry(s, a)
    PROVE  \/ a = NoAddresses /\ cache' = cache
           \/ a # NoAddresses /\ cache' = [cache EXCEPT ![CacheKey(s)] = NewEntry(s, a)]
  BY DEF StoreEntry, NewEntry

-----------------------------------------------------------------------------
\* An entry with addresses is what some specification with its key resolved
\* to, and expires when the timeout of that specification has passed.

EntryIsEarned(k) ==
    cache[k].addresses # NoAddresses =>
        \E s \in Specs :
            /\ CacheKey(s) = k
            /\ ResolvesTo(s, cache[k].addresses)
            /\ cache[k].discovered <= now
            /\ cache[k].expires = cache[k].discovered + Timeout(s)

Inv ==
    /\ TypeOK
    /\ \A k \in CacheKeys : EntryIsEarned(k)
    /\ AnswersAreRecent

LEMMA InvInit == Init => Inv
<1> SUFFICES ASSUME Init PROVE Inv
  OBVIOUS
<1>1. TypeOK
  BY NoEntryType, TimesAssumption DEF Init, TypeOK
<1>2. \A k \in CacheKeys : EntryIsEarned(k)
  BY DEF Init, EntryIsEarned, NoEntry
<1>3. AnswersAreRecent
  BY DEF Init, AnswersAreRecent
<1>4. QED
  BY <1>1, <1>2, <1>3 DEF Inv

LEMMA TypeNext == TypeOK /\ [Next]_vars => TypeOK'
<1> SUFFICES ASSUME TypeOK, [Next]_vars PROVE TypeOK'
  OBVIOUS
<1>1. ASSUME NEW s \in Specs, Hit(s) PROVE TypeOK'
  <2>1. cache[CacheKey(s)] \in Entry /\ now \in Nat
    BY KeyType, TimesAssumption DEF TypeOK
  <2>2. answer' \in SUBSET Answers
    BY <1>1, <2>1 DEF Hit, Return, Answers, Entry
  <2>3. QED
    BY <1>1, <2>2 DEF Hit, TypeOK
<1>2. ASSUME NEW s \in Specs, Miss(s) PROVE TypeOK'
  BY <1>2 DEF Miss, TypeOK
<1>3. ASSUME NEW s \in Specs, NEW dial \in BOOLEAN, Resolution(s, dial) PROVE TypeOK'
  <2>1. Resolve(s, dial) \in Addresses /\ now \in Nat
    BY ResolutionType, TimesAssumption DEF TypeOK
  <2>2. answer' \in SUBSET Answers
    BY <1>3, <2>1 DEF Resolution, Return, Answers
  <2>3. NewEntry(s, Resolve(s, dial)) \in Entry
    BY <2>1, NewEntryType
  <2>4. cache' \in [CacheKeys -> Entry]
    BY <1>3, <2>3, StoreEntryEffect, KeyType DEF Resolution, TypeOK
  <2>5. QED
    BY <1>3, <2>2, <2>4 DEF Resolution, TypeOK
<1>4. CASE ClearCache
  BY <1>4, NoEntryType DEF ClearCache, TypeOK
<1>5. CASE Restart
  BY <1>5, NoEntryType DEF Restart, TypeOK
<1>6. CASE Tick
  BY <1>6, TimesAssumption DEF Tick, TypeOK
<1>7. CASE UNCHANGED vars
  BY <1>7 DEF vars, TypeOK
<1>8. QED
  BY <1>1, <1>2, <1>3, <1>4, <1>5, <1>6, <1>7 DEF Next

\* Type correctness of the service (discovery.go:14-91).
THEOREM TypeCorrect == Spec => []TypeOK
<1>1. Init => TypeOK
  BY InvInit DEF Inv
<1>2. QED
  BY <1>1, TypeNext, PTL DEF Spec

\* The entry for a key after a resolution.
LEMMA EntryAfterResolution ==
    ASSUME TypeOK, NEW s \in Specs, NEW dial \in BOOLEAN, Resolution(s, dial),
           NEW k \in CacheKeys
    PROVE  \/ cache'[k] = cache[k]
           \/ k = CacheKey(s) /\ cache'[k] = NewEntry(s, Resolve(s, dial))
  BY StoreEntryEffect DEF Resolution, TypeOK

LEMMA EarnedNext ==
    ASSUME Inv, [Next]_vars, NEW k \in CacheKeys
    PROVE  EntryIsEarned(k)'
<1> USE DEF Inv
<1>1. ASSUME cache'[k] = cache[k], now' \in Nat, now <= now' PROVE EntryIsEarned(k)'
  <2>1. SUFFICES ASSUME cache'[k].addresses # NoAddresses
                 PROVE  EntryIsEarned(k)'
    BY DEF EntryIsEarned
  <2>2. PICK s \in Specs :
            /\ CacheKey(s) = k
            /\ ResolvesTo(s, cache[k].addresses)
            /\ cache[k].discovered <= now
            /\ cache[k].expires = cache[k].discovered + Timeout(s)
    BY <1>1, <2>1 DEF EntryIsEarned
  <2>3. cache[k].discovered <= now'
    BY <1>1, <2>2, TimesAssumption DEF TypeOK, Entry
  <2>4. QED
    BY <1>1, <2>2, <2>3 DEF EntryIsEarned, ResolvesTo, Timeout
<1>2. ASSUME cache'[k] = NoEntry PROVE EntryIsEarned(k)'
  BY <1>2 DEF EntryIsEarned, NoEntry
<1>3. now \in Nat
  BY TimesAssumption DEF TypeOK
<1>4. ASSUME NEW s \in Specs, Hit(s) \/ Miss(s) PROVE EntryIsEarned(k)'
  BY <1>1, <1>3, <1>4 DEF Hit, Miss
<1>5. ASSUME NEW s \in Specs, NEW dial \in BOOLEAN, Resolution(s, dial)
      PROVE  EntryIsEarned(k)'
  <2>1. CASE cache'[k] = cache[k]
    BY <1>1, <1>3, <1>5, <2>1 DEF Resolution
  <2>2. CASE k = CacheKey(s) /\ cache'[k] = NewEntry(s, Resolve(s, dial))
    <3>1. /\ cache'[k].addresses = Resolve(s, dial)
          /\ cache'[k].discovered = now
          /\ cache'[k].expires = now + Timeout(s)
      BY <2>2 DEF NewEntry
    <3>2. now' = now
      BY <1>5 DEF Resolution
    <3>3. ResolvesTo(s, cache'[k].addresses)
      BY <3>1 DEF ResolvesTo
    <3>4. QED
      BY <1>3, <2>2, <3>1, <3>2, <3>3 DEF EntryIsEarned, ResolvesTo, Timeout
  <2>3. QED
    BY <1>5, <2>1, <2>2, EntryAfterResolution
<1>6. CASE ClearCache \/ Restart
  BY <1>2, <1>6 DEF ClearCache, Restart
<1>7. CASE Tick
  BY <1>1, <1>3, <1>7 DEF Tick
<1>8. CASE UNCHANGED vars
  BY <1>1, <1>3, <1>8 DEF vars
<1>9. QED
  BY <1>4, <1>5, <1>6, <1>7, <1>8 DEF Next

RecentAnswer(a) ==
    \E s \in Specs :
        /\ CacheKey(s) = CacheKey(a.spec)
        /\ ResolvesTo(s, a.addresses)
        /\ a.discovered <= a.at
        /\ a.at <= a.discovered + Timeout(s)

LEMMA RecentNext == Inv /\ [Next]_vars => AnswersAreRecent'
<1> SUFFICES ASSUME Inv, [Next]_vars PROVE AnswersAreRecent'
  OBVIOUS
<1> USE DEF Inv
<1>1. ASSUME answer' = answer PROVE AnswersAreRecent'
  BY <1>1 DEF AnswersAreRecent, ResolvesTo, Timeout
<1>2. ASSUME NEW a, answer' = {a}, RecentAnswer(a) PROVE AnswersAreRecent'
  BY <1>2 DEF AnswersAreRecent, RecentAnswer, ResolvesTo, Timeout
<1>3. ASSUME NEW s \in Specs, Hit(s) PROVE AnswersAreRecent'
  <2> DEFINE k == CacheKey(s)
             a == [spec |-> s, addresses |-> cache[k].addresses,
                   discovered |-> cache[k].discovered, at |-> now]
  <2>1. k \in CacheKeys /\ answer' = {a}
    BY <1>3, KeyType DEF Hit, Return
  <2>2. cache[k].addresses # NoAddresses /\ ~ (now > cache[k].expires)
    BY <1>3 DEF Hit, LiveAddresses, Expired
  <2>3. PICK t \in Specs :
            /\ CacheKey(t) = k
            /\ ResolvesTo(t, cache[k].addresses)
            /\ cache[k].discovered <= now
            /\ cache[k].expires = cache[k].discovered + Timeout(t)
    BY <2>1, <2>2 DEF EntryIsEarned
  <2>4. cache[k] \in Entry /\ now \in Nat
    BY <2>1, TimesAssumption DEF TypeOK
  <2>5. now <= cache[k].discovered + Timeout(t)
    BY <2>2, <2>3, <2>4 DEF Entry
  <2>6. /\ a.spec = s /\ a.addresses = cache[k].addresses
        /\ a.discovered = cache[k].discovered /\ a.at = now
    OBVIOUS
  <2> HIDE DEF a, k
  <2>7. RecentAnswer(a)
    BY <2>3, <2>5, <2>6 DEF RecentAnswer, k
  <2>8. QED
    BY <1>2, <2>1, <2>7
<1>4. ASSUME NEW s \in Specs, NEW dial \in BOOLEAN, Resolution(s, dial)
      PROVE  AnswersAreRecent'
  <2> DEFINE a == [spec |-> s, addresses |-> Resolve(s, dial), discovered |-> now, at |-> now]
  <2>1. answer' = {a}
    BY <1>4 DEF Resolution, Return
  <2>2. Timeout(s) \in Nat /\ now \in Nat
    BY TimeoutType, TimesAssumption DEF TypeOK
  <2>3. now <= now /\ now <= now + Timeout(s)
    BY <2>2
  <2>4. ResolvesTo(s, Resolve(s, dial))
    BY DEF ResolvesTo
  <2>5. /\ a.spec = s /\ a.addresses = Resolve(s, dial)
        /\ a.discovered = now /\ a.at = now
    OBVIOUS
  <2> HIDE DEF a
  <2>6. RecentAnswer(a)
    BY <2>3, <2>4, <2>5 DEF RecentAnswer
  <2>7. QED
    BY <1>2, <2>1, <2>6
<1>5. CASE \/ \E s \in Specs : Miss(s)
           \/ ClearCache \/ Restart \/ Tick \/ UNCHANGED vars
  BY <1>1, <1>5 DEF Miss, ClearCache, Restart, Tick, vars
<1>6. QED
  BY <1>3, <1>4, <1>5 DEF Next

LEMMA InvNext == Inv /\ [Next]_vars => Inv'
  BY TypeNext, EarnedNext, RecentNext DEF Inv

THEOREM Invariance == Spec => []Inv
  BY InvInit, InvNext, PTL DEF Spec

\* No answer is older than the timeout it was given (discovery.go:41, 79-88,
\* 236-238), whatever the timeouts, the specifications and the speed of L1.
THEOREM Recent == Spec => []AnswersAreRecent
<1>1. Inv => AnswersAreRecent
  BY DEF Inv
<1>2. QED
  BY <1>1, Invariance, PTL

-----------------------------------------------------------------------------
\* The refinement.

\* Nothing is live under the key of a call that is resolving.
NothingLive == \A s \in calling : LiveAddresses(CacheKey(s)) = NoAddresses

LEMMA StaysExpired ==
    ASSUME TypeOK, NEW k \in CacheKeys, LiveAddresses(k) = NoAddresses,
           cache'[k] = cache[k] \/ cache'[k] = NoEntry, now' \in Nat, now <= now'
    PROVE  LiveAddresses(k)' = NoAddresses
<1>1. CASE cache'[k] = NoEntry
  BY <1>1 DEF LiveAddresses, NoEntry
<1>2. CASE cache'[k] = cache[k]
  <2>1. cache[k].expires \in Nat /\ now \in Nat
    BY TimesAssumption DEF TypeOK, Entry
  <2>2. Expired(cache[k]) => Expired(cache[k])'
    BY <1>2, <2>1 DEF Expired
  <2>3. QED
    BY <1>2, <2>2 DEF LiveAddresses
<1>3. QED
  BY <1>1, <1>2

LEMMA NothingLiveNext == TypeOK /\ NothingLive /\ [Next]_vars => NothingLive'
<1> SUFFICES ASSUME TypeOK, NothingLive, [Next]_vars, NEW s \in calling'
             PROVE  LiveAddresses(CacheKey(s))' = NoAddresses
  BY DEF NothingLive, CacheKey
<1>1. s \in Specs /\ CacheKey(s) \in CacheKeys
  BY TypeNext, KeyType DEF TypeOK
<1>2. now \in Nat /\ now' \in Nat
  BY TypeNext, TimesAssumption DEF TypeOK
<1>3. ASSUME NEW t \in Specs, Miss(t) PROVE LiveAddresses(CacheKey(s))' = NoAddresses
  BY <1>1, <1>2, <1>3, StaysExpired DEF Miss
<1>4. ASSUME NEW t \in Specs, Hit(t) PROVE calling' = {}
  BY <1>4 DEF Hit
<1>5. ASSUME NEW t \in Specs, NEW dial \in BOOLEAN, Resolution(t, dial) PROVE calling' = {}
  BY <1>5 DEF Resolution
<1>6. CASE ClearCache \/ Restart
  BY <1>6 DEF ClearCache, Restart
<1>7. CASE Tick \/ UNCHANGED vars
  <2>1. cache' = cache /\ calling' = calling /\ now <= now'
    BY <1>2, <1>7 DEF Tick, vars
  <2>2. LiveAddresses(CacheKey(s)) = NoAddresses
    BY <2>1 DEF NothingLive
  <2>3. QED
    BY <1>1, <1>2, <2>1, <2>2, StaysExpired
<1>8. QED
  BY <1>3, <1>4, <1>5, <1>6, <1>7 DEF Next

LEMMA AbstractStep ==
    ASSUME Inv, NothingLive, [Next]_vars
    PROVE  Untimed!Next \/ UNCHANGED Live
<1> USE DEF Inv
<1>1. Untimed!Keys = CacheKeys
  BY DEF Untimed!Keys, CacheKeys
<1>2. now \in Nat /\ now' \in Nat
  BY TypeNext, TimesAssumption DEF TypeOK
<1>3. ASSUME NEW s \in Specs, Hit(s) \/ Miss(s) PROVE UNCHANGED Live
  BY <1>3 DEF Hit, Miss, Live, LiveAddresses, Expired
<1>4. ASSUME NEW s \in Specs, NEW dial \in BOOLEAN, Resolution(s, dial)
      PROVE  Untimed!Resolve(s, dial)
  <2> DEFINE key == CacheKey(s)
             a == Resolve(s, dial)
  <2>1. key \in CacheKeys
    BY KeyType
  <2>2. Live[key] = NoAddresses
    BY <1>4, <2>1 DEF Resolution, NothingLive, Live
  <2>4. now' = now /\ cache \in [CacheKeys -> Entry]
    BY <1>4 DEF Resolution, TypeOK
  <2> HIDE DEF key, a
  <2>5. \A k \in CacheKeys : LiveAddresses(k)' = IF k = key THEN a ELSE Live[k]
    <3>1. TAKE k \in CacheKeys
    <3>2. CASE cache'[k] = cache[k] /\ k # key
      BY <2>4, <3>2 DEF LiveAddresses, Live, Expired
    <3>3. CASE cache'[k] = cache[k] /\ k = key
      <4>1. CASE a = NoAddresses
        BY <2>2, <2>4, <3>3, <4>1 DEF LiveAddresses, Live, Expired
      <4>2. CASE a # NoAddresses
        <5>1. cache' = [cache EXCEPT ![CacheKey(s)] = NewEntry(s, a)]
          BY <1>4, <4>2, StoreEntryEffect DEF Resolution, a
        <5>2. cache[k] = NewEntry(s, a)
          BY <2>1, <2>4, <3>3, <5>1 DEF key
        <5>3. cache[k].addresses = a /\ cache[k].expires = now + Timeout(s)
          BY <5>2 DEF NewEntry
        <5>4. ~Expired(cache[k])'
          BY <1>2, <2>4, <3>3, <5>3, TimeoutType DEF Expired
        <5>5. QED
          BY <3>3, <5>3, <5>4 DEF LiveAddresses
      <4>3. QED
        BY <4>1, <4>2
    <3>4. CASE k = key /\ cache'[k] = NewEntry(s, a)
      <4>1. cache'[k].addresses = a /\ cache'[k].expires = now + Timeout(s)
        BY <3>4 DEF NewEntry
      <4>2. ~Expired(cache[k])'
        BY <1>2, <2>4, <4>1, TimeoutType DEF Expired
      <4>3. QED
        BY <3>4, <4>1, <4>2 DEF LiveAddresses
    <3>5. QED
      BY <1>4, <3>2, <3>3, <3>4, EntryAfterResolution DEF key, a
  <2>6. Live' = [Live EXCEPT ![key] = a]
    BY <2>5 DEF Live
  <2>7. QED
    BY <2>2, <2>6 DEF Untimed!Resolve, key, a
<1>5. CASE ClearCache \/ Restart
  <2>1. \A k \in CacheKeys : LiveAddresses(k)' = NoAddresses
    BY <1>5 DEF ClearCache, Restart, LiveAddresses, NoEntry
  <2>2. Untimed!Forget(CacheKeys)
    BY <1>1, <2>1 DEF Untimed!Forget, Live
  <2>3. QED
    BY <1>1, <2>2 DEF Untimed!Next
<1>6. CASE Tick
  <2> DEFINE gone == {k \in CacheKeys : LiveAddresses(k)' = NoAddresses}
  <2>1. \A k \in CacheKeys : LiveAddresses(k)' = IF k \in gone THEN NoAddresses ELSE LiveAddresses(k)
    <3>1. TAKE k \in CacheKeys
    <3>2. CASE LiveAddresses(k)' # NoAddresses
      <4>1. ~Expired(cache[k])' /\ cache' = cache /\ now' = now + 1
        BY <1>6, <3>2 DEF LiveAddresses, Tick
      <4>2. ~Expired(cache[k])
        BY <1>2, <4>1 DEF Expired, TypeOK, Entry
      <4>3. QED
        BY <3>2, <4>1, <4>2 DEF LiveAddresses
    <3>3. QED
      BY <3>2
  <2>2. gone \in SUBSET Untimed!Keys
    BY <1>1
  <2>3. Untimed!Forget(gone)
    BY <1>1, <2>1 DEF Untimed!Forget, Live
  <2>4. QED
    BY <2>2, <2>3 DEF Untimed!Next
<1>7. CASE UNCHANGED vars
  BY <1>7 DEF vars, Live, LiveAddresses, Expired
<1>8. QED
  BY <1>3, <1>4, <1>5, <1>6, <1>7 DEF Next, Untimed!Next

\* The service is the cache its caller relies on (discovery.go:34-91,
\* 236-243): expiry, ClearCache and restarts are the only ways to forget an
\* answer and a resolution the only way to get one.
THEOREM Implementation == Spec => ImplementsAddressCache
<1>1. Init => NothingLive
  BY DEF Init, NothingLive
<1>2. Init => Untimed!Init
  <2>1. SUFFICES ASSUME Init PROVE Untimed!Init
    OBVIOUS
  <2>2. \A k \in CacheKeys : LiveAddresses(k) = NoAddresses
    BY <2>1 DEF Init, LiveAddresses, NoEntry
  <2>3. QED
    BY <2>2 DEF Untimed!Init, Untimed!Keys, CacheKeys, Live
<1>3. Inv /\ NothingLive /\ [Next]_vars => [Untimed!Next]_Live
  BY AbstractStep
<1>4. Inv => TypeOK
  BY DEF Inv
<1>5. Inv /\ NothingLive /\ [Next]_vars => NothingLive'
  BY <1>4, NothingLiveNext
<1>6. Spec => [](Inv /\ NothingLive)
  BY <1>1, <1>5, Invariance, InvInit, InvNext, PTL DEF Spec
<1>7. QED
  BY <1>2, <1>3, <1>6, PTL DEF Spec, ImplementsAddressCache, Untimed!Spec
=============================================================================
