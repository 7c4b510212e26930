--------------------------- MODULE AgentExecutor ---------------------------
(***************************************************************************)
(* Executions of commands on one agent (agent/src/executor.rs): the answer *)
(* of a poll is decoded, a tokio task is spawned for each item, a shell is *)
(* started with its outputs piped to two reader tasks, its end is awaited  *)
(* with an optional timeout, the readers are awaited, and the result is    *)
(* posted once.  The command is the environment: its shell ends when it    *)
(* likes, and the pipes close when the last process that holds them does.  *)
(*                                                                         *)
(* Exec are the items polls hand over, each once.  A batch one of whose    *)
(* timeouts is negative does not decode (u64), and nothing of it starts.   *)
(***************************************************************************)
EXTENDS Integers, FiniteSets

CONSTANTS Exec,     \* items the controller hands over
          Timeouts  \* values of timeout_seconds: negative, 0 (none), positive

ASSUME ExecutorAssumptions ==
    /\ IsFiniteSet(Exec)
    /\ Timeouts \subseteq Int

Pipes == {"stdout", "stderr"}
Ended == {"zero", "nonzero", "killed"}  \* how a shell ends

VARIABLES timeout,  \* timeout_seconds of each item
          step,     \* where the handling of an item is
          shell,    \* its shell: not started, alive or how it ended
          open,     \* pipes with both ends: a reader and a process of the
                    \* command that holds it
          reading,  \* pipes whose reader task has not ended
          waited,   \* what awaiting the shell gave
          result,   \* the status to be reported
          runningTasks,  \* AgentState.running_tasks
          agentUp   \* the agent has not been stopped
execVars == <<timeout, step, shell, open, reading, waited, result, runningTasks,
              agentUp>>

Counted == {"counted", "waiting", "draining", "collected"}
Idle    == {"queued", "dropped", "reported"}

ExecTypeOK ==
    /\ timeout \in [Exec -> Timeouts]
    /\ step \in [Exec -> Counted \cup Idle \cup {"pulled", "uncounted"}]
    /\ shell \in [Exec -> {"none", "alive"} \cup Ended]
    /\ open \in [Exec -> SUBSET Pipes]
    /\ reading \in [Exec -> SUBSET Pipes]
    /\ waited \in [Exec -> {"none", "timeout", "error"} \cup Ended]
    /\ result \in [Exec -> {"none", "completed", "failed"}]
    /\ runningTasks \in Nat
    /\ agentUp \in BOOLEAN

ExecInit ==
    /\ timeout \in [Exec -> Timeouts]
    /\ step = [e \in Exec |-> "queued"]
    /\ shell = [e \in Exec |-> "none"]
    /\ open = [e \in Exec |-> {}]
    /\ reading = [e \in Exec |-> {}]
    /\ waited = [e \in Exec |-> "none"]
    /\ result = [e \in Exec |-> "none"]
    /\ runningTasks = 0
    /\ agentUp = TRUE

\* The agent's own step for e, from one place to the next.
Goes(e, from, to) ==
    /\ agentUp
    /\ step[e] = from
    /\ step' = [step EXCEPT ![e] = to]

-----------------------------------------------------------------------------
(* The agent. *)

ReceiveAnswer(batch) ==
    /\ agentUp
    /\ batch # {}
    /\ \A e \in batch : step[e] = "queued"
    /\ step' = [e \in Exec |->
                   IF e \notin batch THEN step[e]
                   ELSE IF \E b \in batch : timeout[b] < 0 THEN "dropped"
                   ELSE "pulled"]
    /\ UNCHANGED <<timeout, shell, open, reading, waited, result,
                   runningTasks, agentUp>>

\* Mutant: the lock around the count is kept during the execution.
BeginMutant(e) ==
    /\ Goes(e, "pulled", "counted")
    /\ runningTasks = 0
    /\ runningTasks' = runningTasks + 1
    /\ UNCHANGED <<timeout, shell, open, reading, waited, result, agentUp>>

Begin(e) ==
    /\ Goes(e, "pulled", "counted")
    /\ runningTasks' = runningTasks + 1
    /\ UNCHANGED <<timeout, shell, open, reading, waited, result, agentUp>>

Spawn(e) ==
    /\ Goes(e, "counted", "waiting")
    /\ shell' = [shell EXCEPT ![e] = "alive"]
    /\ open' = [open EXCEPT ![e] = Pipes]
    /\ reading' = [reading EXCEPT ![e] = Pipes]
    /\ UNCHANGED <<timeout, waited, result, runningTasks, agentUp>>

\* Mutant: the early return leaves the count.
SpawnFailsMutant(e) ==
    /\ Goes(e, "counted", "uncounted")
    /\ result' = [result EXCEPT ![e] = "failed"]
    /\ UNCHANGED <<timeout, shell, open, reading, waited, runningTasks,
                   agentUp>>

SpawnFails(e) ==
    /\ Goes(e, "counted", "collected")
    /\ result' = [result EXCEPT ![e] = "failed"]
    /\ UNCHANGED <<timeout, shell, open, reading, waited, runningTasks,
                   agentUp>>

ShellAwaited(e) ==
    /\ Goes(e, "waiting", "draining")
    /\ shell[e] \in Ended
    /\ waited' = [waited EXCEPT ![e] = shell[e]]
    /\ UNCHANGED <<timeout, shell, open, reading, result, runningTasks,
                   agentUp>>

\* Nothing kills the shell: dropping tokio's child leaves it alone.
TimesOut(e) ==
    /\ Goes(e, "waiting", "draining")
    /\ timeout[e] > 0
    /\ waited' = [waited EXCEPT ![e] = "timeout"]
    /\ UNCHANGED <<timeout, shell, open, reading, result, runningTasks,
                   agentUp>>

\* Awaiting the shell gives an error instead of its status.
AwaitFails(e) ==
    /\ Goes(e, "waiting", "draining")
    /\ waited' = [waited EXCEPT ![e] = "error"]
    /\ UNCHANGED <<timeout, shell, open, reading, result, runningTasks,
                   agentUp>>

\* The end of the output, or a line that is not UTF-8, which also ends the loop
\* and drops the reader's end of the pipe.
ReaderEnds(e, p) ==
    /\ agentUp
    /\ p \in reading[e]
    /\ reading' = [reading EXCEPT ![e] = @ \ {p}]
    /\ open' = [open EXCEPT ![e] = @ \ {p}]
    /\ UNCHANGED <<timeout, step, shell, waited, result,
                   runningTasks, agentUp>>

\* Mutant: the status is taken when the readers are done.
CollectMutant(e) ==
    /\ Goes(e, "draining", "collected")
    /\ reading[e] = {}
    /\ result' = [result EXCEPT
                     ![e] = IF shell[e] = "zero" THEN "completed" ELSE "failed"]
    /\ UNCHANGED <<timeout, shell, open, reading, waited, runningTasks,
                   agentUp>>

Collect(e) ==
    /\ Goes(e, "draining", "collected")
    /\ reading[e] = {}
    /\ result' = [result EXCEPT
                     ![e] = IF waited[e] = "zero" THEN "completed" ELSE "failed"]
    /\ UNCHANGED <<timeout, shell, open, reading, waited, runningTasks,
                   agentUp>>

Uncount(e) ==
    /\ Goes(e, "collected", "uncounted")
    /\ runningTasks' = runningTasks - 1
    /\ UNCHANGED <<timeout, shell, open, reading, waited, result, agentUp>>

\* Mutant: the count is taken down again with the report.
ReportMutant(e) ==
    /\ Goes(e, "uncounted", "reported")
    /\ runningTasks' = runningTasks - 1
    /\ UNCHANGED <<timeout, shell, open, reading, waited, result, agentUp>>

Report(e) ==
    /\ Goes(e, "uncounted", "reported")
    /\ UNCHANGED <<timeout, shell, open, reading, waited, result,
                   runningTasks, agentUp>>

\* Ctrl-C: the tasks of the runtime end with it, the commands do not.
AgentStops ==
    /\ agentUp
    /\ agentUp' = FALSE
    /\ UNCHANGED <<timeout, step, shell, open, reading, waited, result,
                   runningTasks>>

-----------------------------------------------------------------------------
(* The command. *)

ShellEnds(e, how) ==
    /\ shell[e] = "alive"
    /\ shell' = [shell EXCEPT ![e] = how]
    /\ UNCHANGED <<timeout, step, open, reading, waited, result,
                   runningTasks, agentUp>>

\* The last process that holds the pipe, the shell or one it started, lets go.
OutputEnds(e, p) ==
    /\ p \in open[e]
    /\ open' = [open EXCEPT ![e] = @ \ {p}]
    /\ UNCHANGED <<timeout, step, shell, reading, waited, result,
                   runningTasks, agentUp>>

ExecNext ==
    \/ \E batch \in SUBSET Exec : ReceiveAnswer(batch)
    \/ \E e \in Exec :
          \/ Begin(e) \/ Spawn(e) \/ SpawnFails(e)
          \/ ShellAwaited(e) \/ TimesOut(e) \/ AwaitFails(e)
          \/ Collect(e) \/ Uncount(e) \/ Report(e)
          \/ \E p \in Pipes : ReaderEnds(e, p) \/ OutputEnds(e, p)
          \/ \E how \in Ended : ShellEnds(e, how)
    \/ AgentStops

\* The next step of the tokio task of e that waits for nothing but the shell's
\* end and its readers.
Proceed(e) ==
    \/ Begin(e) \/ Spawn(e) \/ SpawnFails(e) \/ ShellAwaited(e)
    \/ Collect(e) \/ Uncount(e) \/ Report(e)

\* Each tokio task runs on; a reader ends when its pipe has.  Nothing is
\* assumed of the command, of polls or of timers.
ExecFairness ==
    \A e \in Exec :
        /\ WF_execVars(Proceed(e))
        /\ \A p \in Pipes : WF_execVars(p \notin open[e] /\ ReaderEnds(e, p))

ExecSpec == ExecInit /\ [][ExecNext]_execVars /\ ExecFairness

-----------------------------------------------------------------------------
(* Properties. *)

\* The count an agent keeps is that of the executions under way, on every path
\* through execute_task.
RunningCounts == runningTasks = Cardinality({e \in Exec : step[e] \in Counted})

\* An execution is reported completed only if its shell was seen to end with 0
\* before the timeout; one that timed out, or could not be awaited, is failed
\* though it ends well later; and one is reported failed for a reason.
ReportTellsTruth ==
    \A e \in Exec :
        /\ result[e] = "completed" => shell[e] = "zero" /\ waited[e] = "zero"
        /\ result[e] = "failed" => \/ shell[e] \in {"none", "nonzero", "killed"}
                                   \/ waited[e] \in {"timeout", "error"}

Hangs(e) == shell[e] = "alive" \/ open[e] # {}

\* A command that ends, with everything it started that holds output still
\* read, is reported, unless the agent stops first and whatever other commands do.
EndedIsReported ==
    \A e \in Exec : []<>(~agentUp \/ step[e] \in Idle \/ Hangs(e))
=============================================================================
