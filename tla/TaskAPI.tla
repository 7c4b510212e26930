------------------------------ MODULE TaskAPI ------------------------------
(***************************************************************************)
(* The REST handlers for tasks (controller/api/tasks.go).  net/http runs   *)
(* each request on a goroutine of its own, and a handler is a sequence of  *)
(* store calls with nothing held in between, so each store call is a step. *)
(* A handler whose client has gone away runs on to its end.                *)
(*                                                                         *)
(* A node's agent waits for one poll before it sends the next, so a node   *)
(* has one poll handler, plus the one left behind when the connection      *)
(* broke under it (at most one such per node at a time, and it breaks      *)
(* after the handler's reads: before them the break is not noticed by      *)
(* anyone else).                                                           *)
(***************************************************************************)
EXTENDS TaskStore

VARIABLES cancelling,   \* tasks some cancel handler found not terminal
          retrying,     \* retrying[t]: retry handlers that found t failed or cancelled
          pollPhase,    \* the next thing n's poll handler does
          batch,        \* what it read, and will hand to the agent
          unmarked,     \* the part of it not yet marked running
          abandoned,    \* marks owed by the handler of a broken poll of n
          checking,     \* chunks whose result handler is about to count chunks
          completing    \* chunks whose result handler found all chunks done
apiVars == <<cancelling, retrying, pollPhase, batch, unmarked, abandoned,
             checking, completing>>
pollVars == <<pollPhase, batch, unmarked, abandoned>>
resultVars == <<checking, completing>>

PollPhases == {"none", "chunks", "update"}

APITypeOK ==
    /\ cancelling \subseteq Tasks
    /\ retrying \in [Tasks -> Nat]
    /\ pollPhase \in [Nodes -> PollPhases]
    /\ batch \in [Nodes -> SUBSET Items]
    /\ unmarked \in [Nodes -> SUBSET Items]
    /\ abandoned \in [Nodes -> SUBSET Items]
    /\ checking \subseteq Chunks
    /\ completing \subseteq Chunks

APIInit ==
    /\ cancelling = {}
    /\ retrying = [t \in Tasks |-> 0]
    /\ pollPhase = [n \in Nodes |-> "none"]
    /\ batch = [n \in Nodes |-> {}]
    /\ unmarked = [n \in Nodes |-> {}]
    /\ abandoned = [n \in Nodes |-> {}]
    /\ checking = {}
    /\ completing = {}

-----------------------------------------------------------------------------
(* Requests of clients. *)

\* A pinned task is accepted only while its node is online.  The node is read
\* and the row inserted in one step: nothing in between reads the request.
HandleSubmitTask(t) ==
    /\ status[t] = "absent"
    /\ TargetNode[t] # NoNode => nodeStatus[TargetNode[t]] = "online"
    /\ CreateTask(t)
    /\ UNCHANGED apiVars

CancelRead(t) ==
    /\ status[t] \notin Terminal \cup {"absent"}
    /\ cancelling' = cancelling \cup {t}
    /\ UNCHANGED <<retrying, pollVars, resultVars, storeVars>>

\* Any number of requests for t may have been read: others may still write.
CancelWrite(t) ==
    /\ t \in cancelling
    /\ UpdateTaskStatus(t, "cancelled")
    /\ cancelling' \in {cancelling, cancelling \ {t}}
    /\ UNCHANGED <<retrying, pollVars, resultVars>>

RetryRead(t) ==
    /\ status[t] \in {"failed", "cancelled"}
    /\ retrying' = [retrying EXCEPT ![t] = @ + 1]
    /\ UNCHANGED <<cancelling, pollVars, resultVars, storeVars>>

\* Mutant: the write without the check before it.
RetryWriteMutant(t) ==
    /\ IncrementTaskRetry(t)
    /\ retryCount[t] < 2
    /\ retrying' = [retrying EXCEPT ![t] = @ - 1]
    /\ UNCHANGED <<cancelling, pollVars, resultVars>>

RetryWrite(t) ==
    /\ retrying[t] > 0
    /\ IncrementTaskRetry(t)
    /\ retrying' = [retrying EXCEPT ![t] = @ - 1]
    /\ UNCHANGED <<cancelling, pollVars, resultVars>>

-----------------------------------------------------------------------------
(* HandleGetPendingTasks for node n. *)

PollReadTasks(n) ==
    /\ pollPhase[n] = "none"
    /\ pollPhase' = [pollPhase EXCEPT ![n] = "chunks"]
    /\ batch' = [batch EXCEPT ![n] = GetPendingTasksForNode(n)]
    /\ UNCHANGED <<cancelling, retrying, unmarked, abandoned, resultVars,
                   storeVars>>

\* An empty answer changes nothing and is not followed further.
PollReadChunks(n) ==
    /\ pollPhase[n] = "chunks"
    /\ batch' = [batch EXCEPT ![n] = @ \cup GetPendingChunksForNode(n)]
    /\ unmarked' = [unmarked EXCEPT ![n] = batch'[n]]
    /\ pollPhase' = [pollPhase EXCEPT
                        ![n] = IF batch'[n] = {} THEN "none" ELSE "update"]
    /\ UNCHANGED <<cancelling, retrying, abandoned, resultVars, storeVars>>

MarkRunning(i) ==
    IF i \in Tasks THEN UpdateTaskStatus(i, "running")
                   ELSE UpdateChunkStatus(i, "running")

\* The loop over the tasks comes before the loop over the chunks.
MayMark(i, owed) == i \in owed /\ (i \in Chunks => owed \cap Tasks = {})

PollMark(n, i) ==
    /\ pollPhase[n] = "update"
    /\ MayMark(i, unmarked[n])
    /\ MarkRunning(i)
    /\ unmarked' = [unmarked EXCEPT ![n] = @ \ {i}]
    /\ UNCHANGED <<cancelling, retrying, pollPhase, batch, abandoned,
                   resultVars>>

\* Mutant: the answer is sent before the marks are written.
PollAnsweredMutant(n) == pollPhase[n] = "update"
PollAnswered(n) == pollPhase[n] = "update" /\ unmarked[n] = {}

PollEnd(n) ==
    /\ pollPhase' = [pollPhase EXCEPT ![n] = "none"]
    /\ batch' = [batch EXCEPT ![n] = {}]

\* The connection breaks while the handler still has marks to write.
PollAbandon(n) ==
    /\ pollPhase[n] = "update"
    /\ unmarked[n] # {}
    /\ abandoned[n] = {}
    /\ abandoned' = [abandoned EXCEPT ![n] = unmarked[n]]
    /\ unmarked' = [unmarked EXCEPT ![n] = {}]
    /\ PollEnd(n)
    /\ UNCHANGED <<cancelling, retrying, resultVars, storeVars>>

AbandonedMark(n, i) ==
    /\ MayMark(i, abandoned[n])
    /\ MarkRunning(i)
    /\ abandoned' = [abandoned EXCEPT ![n] = @ \ {i}]
    /\ UNCHANGED <<cancelling, retrying, pollPhase, batch, unmarked,
                   resultVars>>

-----------------------------------------------------------------------------
(* HandleTaskResult. *)

\* A result for a task is recorded whatever the task's state.
HandleTaskResult(t, exitCode) ==
    /\ UpdateTaskResult(t, exitCode)
    /\ UNCHANGED apiVars

HandleChunkResult(c, s) ==
    /\ UpdateChunkStatus(c, s)
    /\ checking' = checking \cup {c}
    /\ UNCHANGED <<cancelling, retrying, pollVars, completing>>

CheckAllChunks(c) ==
    /\ c \in checking
    /\ checking' = checking \ {c}
    /\ completing' = IF AreAllChunksCompleted(Parent(c))
                     THEN completing \cup {c} ELSE completing
    /\ UNCHANGED <<cancelling, retrying, pollVars, storeVars>>

CompleteParent(c) ==
    /\ c \in completing
    /\ UpdateTaskResult(Parent(c), 0)
    /\ completing' = completing \ {c}
    /\ UNCHANGED <<cancelling, retrying, pollVars, checking>>
=============================================================================
