----------------------------- MODULE Conditions -----------------------------
(***************************************************************************)
(* The list of status conditions (src/pkg/utils/conditions.go) that the    *)
(* controllers keep in an object, set by one reconcile after another.      *)
(*                                                                         *)
(* A condition is its type, its status and the time of its last            *)
(* transition.  Reason and message go with the status and are left out, as *)
(* is the observed generation, which is never anything but zero.           *)
(***************************************************************************)
EXTENDS Integers, Sequences

CONSTANTS
    Types,      \* condition types
    MaxTime     \* bound: the clock stops here

ASSUME TimeAssumption == MaxTime \in Nat

VARIABLES
    now,        \* the clock
    conditions  \* the list

vars == <<now, conditions>>

Statuses == {"True", "False", "Unknown"}
Condition == [type: Types, status: Statuses, lastTransitionTime: Nat]

TypeOK ==
    /\ now \in 0 .. MaxTime
    /\ conditions \in Seq(Condition)

Init == now = 0 /\ conditions = <<>>

\* The positions of the conditions of a type.
Positions(list, type) == {i \in DOMAIN list : list[i].type = type}

\* GetCondition: the first of the type, if any, as a set.
GetCondition(list, type) ==
    {list[i] : i \in {p \in Positions(list, type) :
                        \A q \in Positions(list, type) : p <= q}}

\* Mutants: an update is appended like a new condition, and it drops what
\* comes after it in the list.
AfterAppending(list, type, status) ==
    Append(list, [type |-> type, status |-> status, lastTransitionTime |-> now])
AfterTruncating(list, type, status) ==
    LET new == [type |-> type, status |-> status, lastTransitionTime |-> now]
        first == CHOOSE i \in Positions(list, type) : \A j \in Positions(list, type) : i <= j
    IN  IF Positions(list, type) = {} THEN Append(list, new)
        ELSE Append(SubSeq(list, 1, first - 1), new)

\* The first condition of the type is updated; without one it is appended.
After(list, type, status) ==
    LET new == [type |-> type, status |-> status, lastTransitionTime |-> now]
        first == CHOOSE i \in Positions(list, type) : \A j \in Positions(list, type) : i <= j
    IN  IF Positions(list, type) = {} THEN Append(list, new)
        ELSE [list EXCEPT ![first] = new]

SetCondition(type, status) ==
    /\ conditions' = After(conditions, type, status)
    /\ UNCHANGED now

Tick ==
    /\ now < MaxTime
    /\ now' = now + 1
    /\ UNCHANGED conditions

Next ==
    \/ \E type \in Types, status \in Statuses : SetCondition(type, status)
    \/ Tick

Spec == Init /\ [][Next]_vars

-----------------------------------------------------------------------------
\* Properties.

\* The status of each type, as a reader of the list sees it.
StatusOf(type) ==
    IF GetCondition(conditions, type) = {} THEN "Unset"
    ELSE (CHOOSE c \in GetCondition(conditions, type) : TRUE).status

\* No type appears twice, however often the reconciles set it: a reader who
\* takes the first entry and one who takes the last agree.
OneEntryPerType ==
    \A i, j \in DOMAIN conditions : conditions[i].type = conditions[j].type => i = j

\* Seen by type, the list is the function NetworkController keeps: a step sets
\* one type to one status and leaves the others alone.
Map == [t \in Types |-> StatusOf(t)]
SetsOneType ==
    [][\E t \in Types, s \in Statuses : Map' = [Map EXCEPT ![t] = s]]_Map
=============================================================================
