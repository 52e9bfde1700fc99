-------------------------- MODULE NetworkLifecycle --------------------------
(***************************************************************************)
(* What the clients of an OptimismNetwork (its users, and the controllers  *)
(* of the nodes that refer to it) may rely on, whatever the network        *)
(* controller does in between: the life of the object as seen in the API   *)
(* server.  NetworkController implements it.                               *)
(***************************************************************************)
EXTENDS Integers

CONSTANTS
    Uids,       \* identities of objects
    Specs,      \* the specifications users give to the object
    Valid(_)    \* those the controller may call Ready

VARIABLE obj    \* the object a client sees

Object ==
    [uid: Uids, generation: Nat, spec: Specs, deleting: BOOLEAN,
     phase: {"Unset", "Error", "Ready"}, observed: Nat]
Nothing == [uid |-> 0]

Init == obj = Nothing

\* The object appears.
Create ==
    /\ obj.uid = 0
    /\ \E u \in Uids, s \in Specs :
         obj' = [uid |-> u, generation |-> 1, spec |-> s, deleting |-> FALSE,
                 phase |-> "Unset", observed |-> 0]

\* A change of the specification is a new generation.
Edit ==
    /\ obj.uid # 0
    /\ \E s \in Specs \ {obj.spec} : obj' = [obj EXCEPT !.spec = s, !.generation = @ + 1]

\* A deletion request is recorded as a new generation.
RequestDeletion ==
    /\ obj.uid # 0
    /\ ~obj.deleting
    /\ obj' = [obj EXCEPT !.deleting = TRUE, !.generation = @ + 1]

\* The object goes, on request or if nothing was ever reported of it.
Vanish ==
    /\ obj.uid # 0
    /\ obj.deleting \/ obj.phase = "Unset"
    /\ obj' = Nothing

\* A report is about a generation the object has had.  Ready names its
\* generation, and names the current one only if that is valid.
Report ==
    /\ obj.uid # 0
    /\ \E p \in {"Error", "Ready"}, g \in 0 .. obj.generation :
         /\ p = "Ready" => g # 0
         /\ p = "Ready" /\ g = obj.generation => Valid(obj.spec)
         /\ obj' = [obj EXCEPT !.phase = p, !.observed = g]

Next == Create \/ Edit \/ RequestDeletion \/ Vanish \/ Report

Spec == Init /\ [][Next]_obj

\* An object marked for deletion does go.
DeletionFairness == WF_obj(obj.deleting /\ Vanish)
FairSpec == Spec /\ DeletionFairness
=============================================================================
