------------------------------ MODULE MCParts ------------------------------
(***************************************************************************)
(* The components beside the task path whose safety alone is in question,  *)
(* model-checked side by side: each behaviour is one of a single           *)
(* component, the one that part names, while the others have done nothing. *)
(***************************************************************************)
EXTENDS Membership, PriorityQueue, Placement

VARIABLE part
vars == <<part, memberVars, queueVars, placeVars>>

Parts == {"membership", "queue", "placement"}

Init ==
    /\ part \in Parts
    /\ MemberInit
    /\ part # "membership" => ~enforced
    /\ QueueInit
    /\ PlaceInit

Next ==
    \/ /\ part = "membership" /\ MemberNext
       /\ UNCHANGED <<part, queueVars, placeVars>>
    \/ /\ part = "queue" /\ QueueNext
       /\ UNCHANGED <<part, memberVars, placeVars>>
    \/ /\ part = "placement" /\ PlaceNext
       /\ UNCHANGED <<part, memberVars, queueVars>>

Spec == Init /\ [][Next]_vars

-----------------------------------------------------------------------------
(* Values of the constants for TLC. *)

\* Tasks of every priority, two of some, "batch", a priority no one knows, and
\* one task in the queue twice.
MCPriority == [t1 |-> "low", t2 |-> "normal", t3 |-> "batch", t4 |-> "high",
               t5 |-> "critical", t6 |-> "high", t7 |-> "low"]
MCCreated == [t1 |-> 1, t2 |-> 2, t3 |-> 3, t4 |-> 4, t5 |-> 5, t6 |-> 6,
              t7 |-> 7]
MCQueued == DOMAIN MCPriority
MCTask == [i1 |-> "t1", i2 |-> "t2", i3 |-> "t3", i4 |-> "t4", i5 |-> "t5",
           i6 |-> "t6", i7 |-> "t7", i8 |-> "t2"]
MCItems == DOMAIN MCTask

\* Two nodes alike, which only their metrics tell apart, and a small one that
\* has a GPU and reports no memory.
MCNode(i, c, m, g) == [id |-> i, cores |-> c, memory |-> m, gpus |-> g]
MCInventory == <<MCNode("a", 4, 8, 0), MCNode("b", 4, 8, 0),
                 MCNode("c", 2, 0, 1)>>

MCRequest(c, m, g, n) == [cpu |-> c, memory |-> m, gpus |-> g, target |-> n]
MCRequests == {MCRequest(1, 0, 0, Unpinned), MCRequest(2, 4, 0, Unpinned),
               MCRequest(1, 0, 1, "c"), MCRequest(2, 0, 0, "a")}
MCReports == {[cpu |-> 75, memory |-> 25, load |-> 300, running |-> 4]}
=============================================================================
