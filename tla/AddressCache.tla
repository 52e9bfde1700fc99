---------------------------- MODULE AddressCache ----------------------------
(***************************************************************************)
(* What the discovery service promises its caller, without clocks: there   *)
(* is at most one answer per key, a call is answered by it or else by a    *)
(* resolution that becomes it, and it may be forgotten at any time.        *)
(* Discovery implements this, and NetworkController uses nothing more.     *)
(***************************************************************************)

CONSTANTS
    Specs,              \* the specifications the service is called with
    KeyOf(_),           \* the key of a specification
    Resolution(_, _),   \* what it resolves to, when L1 can be dialled or not
    Nothing             \* the absence of an answer

VARIABLE live           \* the answers, by key

Keys == {KeyOf(s) : s \in Specs}

Init == live = [k \in Keys |-> Nothing]

\* A call whose key has an answer leaves everything as it is.
Resolve(spec, dial) ==
    /\ live[KeyOf(spec)] = Nothing
    /\ live' = [live EXCEPT ![KeyOf(spec)] = Resolution(spec, dial)]

Forget(keys) ==
    live' = [k \in Keys |-> IF k \in keys THEN Nothing ELSE live[k]]

Next ==
    \/ \E keys \in SUBSET Keys : Forget(keys)
    \/ \E s \in Specs, dial \in BOOLEAN : Resolve(s, dial)

Spec == Init /\ [][Next]_live
=============================================================================
