--------------------------- MODULE TaskLifecycle ---------------------------
(***************************************************************************)
(* What the task path promises of each item of work, whoever executes it   *)
(* and however requests interleave: an account of permissions.  Asking for *)
(* an item permits one attempt, a retry permits one more; an attempt is    *)
(* given to one node; a node starts only what it was given; and a result   *)
(* is recorded only for work that was started, or whose node was lost.     *)
(* Clients see the status and the node; the counts are the account.        *)
(***************************************************************************)
EXTENDS Naturals

CONSTANTS Work,     \* what nodes execute: tasks and chunks
          Divided,  \* the tasks that are executed through their chunks
          Workers,  \* nodes
          Nobody    \* no node

VARIABLES state,    \* the status a client is shown
          holder,   \* the node the item is given to
          allowed,  \* attempts permitted
          given,    \* attempts given to a node
          started   \* executions started
lifeVars == <<state, holder, allowed, given, started>>

Init ==
    /\ state = [w \in Work |-> "absent"]
    /\ holder = [w \in Work |-> Nobody]
    /\ allowed = [w \in Work |-> 1]
    /\ given = [w \in Work |-> 0]
    /\ started = [w \in Work |-> 0]

Show(w, s) == state' = [state EXCEPT ![w] = s]

Ask(w) ==
    /\ state[w] = "absent"
    /\ Show(w, "queued")
    /\ UNCHANGED <<holder, allowed, given, started>>

Give(w, n) ==
    /\ state[w] # "absent"
    /\ holder[w] = Nobody
    /\ given[w] < allowed[w]
    /\ Show(w, "scheduled")
    /\ holder' = [holder EXCEPT ![w] = n]
    /\ given' = [given EXCEPT ![w] = @ + 1]
    /\ UNCHANGED <<allowed, started>>

\* Only what was given is announced as running.
Announce(w) ==
    /\ given[w] > 0
    /\ Show(w, "running")
    /\ UNCHANGED <<holder, allowed, given, started>>

\* One answer to a node's poll starts everything in it.
Start(W) ==
    /\ \A w \in W : started[w] < given[w]
    /\ started' = [w \in Work |-> IF w \in W THEN started[w] + 1 ELSE started[w]]
    /\ UNCHANGED <<state, holder, allowed, given>>

\* Success was reported by an execution; failure also by losing the node.
Record(w) ==
    /\ \/ started[w] > 0 /\ (Show(w, "completed") \/ Show(w, "failed"))
       \/ given[w] > 0 /\ Show(w, "failed")
    /\ UNCHANGED <<holder, allowed, given, started>>

\* A divided task is never given to a node: its state follows its chunks.
Follow(w) ==
    /\ w \in Divided
    /\ given[w] = 0
    /\ state[w] # "absent"
    /\ Show(w, "splitting") \/ Show(w, "completed") \/ Show(w, "failed")
    /\ UNCHANGED <<holder, allowed, given, started>>

Cancel(w) ==
    /\ state[w] # "absent"
    /\ Show(w, "cancelled")
    /\ UNCHANGED <<holder, allowed, given, started>>

\* Permits one more attempt, and takes the item from its node.
Retry(w) ==
    /\ state[w] # "absent"
    /\ Show(w, "queued")
    /\ holder' = [holder EXCEPT ![w] = Nobody]
    /\ allowed' = [allowed EXCEPT ![w] = @ + 1]
    /\ UNCHANGED <<given, started>>

Next ==
    \/ \E w \in Work :
          \/ Ask(w) \/ Announce(w) \/ Record(w)
          \/ Follow(w) \/ Cancel(w) \/ Retry(w)
          \/ \E n \in Workers : Give(w, n)
    \/ \E W \in SUBSET Work : Start(W)

Spec == Init /\ [][Next]_lifeVars
=============================================================================
