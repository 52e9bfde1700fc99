---------------------------- MODULE NodeLifecycle ----------------------------
(***************************************************************************)
(* What the users of an OpNode may rely on, whatever its controller does   *)
(* in between: the life of the node as seen in the API server, and of the  *)
(* workload (the StatefulSet) made for it.  OpNodeController implements    *)
(* it, and Operator composes it with the network.                          *)
(***************************************************************************)
EXTENDS Integers

CONSTANTS
    Uids,               \* identities of nodes; 1 is that of the first
    Specs,              \* the specifications users give to the node
    NetworkData,        \* what a node can be told of its network
    Deployable(_),      \* the specifications a workload is made for
    Workload(_, _),     \* the workload of a specification on a network
    Compatible(_, _)    \* a workload may be changed into another

VARIABLES
    obj,        \* the node a client sees
    workload,   \* its workload and the uid of the node that made it
    sight,      \* the networks last seen Ready: one or none
    target      \* the deployment in progress, if there is one

vars == <<obj, workload, sight, target>>

Nothing == [uid |-> 0]
NoWorkload == [owner |-> 0]
Sights == {{}} \cup {{n} : n \in NetworkData}

Init ==
    /\ obj = Nothing
    /\ workload = NoWorkload
    /\ sight = {}
    /\ target = {}

-----------------------------------------------------------------------------
\* The node.

Create ==
    /\ obj.uid = 0
    /\ \E u \in Uids, s \in Specs :
         obj' = [uid |-> u, generation |-> 1, spec |-> s, deleting |-> FALSE,
                 phase |-> "Unset", observed |-> 0]
    /\ UNCHANGED <<workload, sight, target>>

Edit ==
    /\ obj.uid # 0
    /\ \E s \in Specs \ {obj.spec} : obj' = [obj EXCEPT !.spec = s, !.generation = @ + 1]
    /\ UNCHANGED <<workload, sight, target>>

RequestDeletion ==
    /\ obj.uid # 0
    /\ ~obj.deleting
    /\ obj' = [obj EXCEPT !.deleting = TRUE, !.generation = @ + 1]
    /\ UNCHANGED <<workload, sight, target>>

\* The node goes, on request or if nothing was ever reported of it, and never
\* while something is deployed for it.
Vanish ==
    /\ obj.uid # 0
    /\ obj.deleting \/ obj.phase = "Unset"
    /\ target = {}
    /\ obj' = Nothing
    /\ UNCHANGED <<workload, sight, target>>

-----------------------------------------------------------------------------
\* The workload.

See ==
    /\ sight' \in Sights
    /\ UNCHANGED <<obj, workload, target>>

\* A deployment is for a generation the node has had, on a network seen Ready.
Begin ==
    /\ obj.uid # 0
    /\ target = {}
    /\ \E n \in sight, s \in Specs, g \in 1 .. obj.generation :
         /\ Deployable(s)
         /\ g = obj.generation => s = obj.spec /\ ~obj.deleting
         /\ target' = {[generation |-> g, spec |-> s, network |-> n]}
    /\ UNCHANGED <<obj, workload, sight>>

\* The workload is made for the node, or changed into what it is to be; one
\* that was there keeps its owner.
Deploy ==
    \E t \in target :
        LET made == Workload(t.spec, t.network) IN
        /\ \/ workload.owner = 0 /\ workload' = [owner |-> obj.uid, data |-> made]
           \/ /\ workload.owner # 0
              /\ Compatible(workload.data, made)
              /\ workload' = [workload EXCEPT !.data = made]
        /\ UNCHANGED <<obj, sight, target>>

\* A deployment ends in a report that the node is Running: its workload is the
\* one it was to have, unless that was taken over from an earlier node and
\* went with it.
ReportRunning ==
    \E t \in target :
        /\ \/ workload.owner # 0 /\ workload.data = Workload(t.spec, t.network)
           \/ workload.owner = 0 /\ obj.uid # 1
        /\ obj' = [obj EXCEPT !.phase = "Running", !.observed = t.generation]
        /\ target' = {}
        /\ UNCHANGED <<workload, sight>>

\* A report of anything else ends it as well, and names a generation the node
\* has had.
ReportOther ==
    /\ obj.uid # 0
    /\ \E p \in {"Pending", "Error"}, g \in 1 .. obj.generation :
         obj' = [obj EXCEPT !.phase = p, !.observed = g]
    /\ target' = {}
    /\ UNCHANGED <<workload, sight>>

\* The report is never written: its attempts run out, or the node is not found.
Abandon ==
    /\ target' = {}
    /\ UNCHANGED <<obj, workload, sight>>

\* The operator starts again, and with it the deployment.
Restart ==
    /\ target' = {}
    /\ sight' \in Sights
    /\ UNCHANGED <<obj, workload>>

\* What a node made goes after it.
Collect ==
    /\ workload.owner # obj.uid
    /\ workload' = NoWorkload
    /\ UNCHANGED <<obj, sight, target>>

Next ==
    \/ Create \/ Edit \/ RequestDeletion \/ Vanish
    \/ See \/ Begin \/ Deploy \/ ReportRunning \/ ReportOther \/ Abandon \/ Restart
    \/ Collect

Spec == Init /\ [][Next]_vars
=============================================================================
