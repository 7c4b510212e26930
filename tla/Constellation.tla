--------------------------- MODULE Constellation ---------------------------
(***************************************************************************)
(* The whole task path: scheduler, heartbeat monitor, REST handlers and    *)
(* agents around one store.  Faults and Requests say which failures and    *)
(* which requests of operators and clients an instance allows.             *)
(***************************************************************************)
EXTENDS Scheduler, HeartbeatMonitor, NodeAgents

CONSTANTS Faults,      \* the failures that may happen
          Requests,    \* the requests, other than submissions, that are made
          MaxManual    \* bound: retry requests accepted per task

ASSUME ConstellationAssumptions ==
    /\ Faults \subseteq {"connection", "heartbeat", "agent", "controller"}
    /\ Requests \subseteq {"cancel", "retry", "delete", "status"}
    /\ MaxManual \in Nat

(***************************************************************************)
(* History: how often each item was given to a node, how often agents      *)
(* started it, and how often the monitor and the clients made it retry.    *)
(* Nothing reads these but MaxManual's guard and the properties.           *)
(***************************************************************************)
VARIABLES assigns, starts, autoRetries, manual
historyVars == <<assigns, starts, autoRetries, manual>>

vars == <<storeVars, schedulerVars, monitorVars, apiVars, agentVars,
          historyVars>>

Init ==
    /\ StoreInit /\ SchedulerInit /\ MonitorInit /\ APIInit /\ AgentInit
    /\ assigns = [i \in Items |-> 0]
    /\ starts = [i \in Items |-> 0]
    /\ autoRetries = [t \in Tasks |-> 0]
    /\ manual = [t \in Tasks |-> 0]

\* One more if the statement took effect.
Counting(f, x, effect) == [f EXCEPT ![x] = @ + (IF effect THEN 1 ELSE 0)]

SchedulerNext ==
    /\ \/ SchedulerQuietStep /\ UNCHANGED assigns
       \/ \E t \in Tasks, n \in Nodes :
             /\ AssignTask(t, n)
             /\ assigns' = Counting(assigns, t, ~Refused(n))
       \/ \E c \in Chunks, n \in Nodes :
             /\ AssignChunk(c, n)
             /\ assigns' = Counting(assigns, c, ~Refused(n))
    /\ UNCHANGED <<monitorVars, apiVars, agentVars, starts, autoRetries,
                   manual>>

MonitorNext ==
    /\ \/ MonitorQuietStep /\ UNCHANGED autoRetries
       \/ \E t \in Tasks :
             /\ RescheduleTask(t)
             /\ autoRetries' = Counting(autoRetries, t, ~Refused(NoNode))
    /\ UNCHANGED <<schedulerVars, apiVars, agentVars, assigns, starts, manual>>

Submit(t) ==
    /\ HandleSubmitTask(t)
    /\ UNCHANGED <<schedulerVars, monitorVars, agentVars, historyVars>>

\* A second request for the same task may arrive before the first has written.
Cancel(t) ==
    /\ "cancel" \in Requests
    /\ CancelRead(t)
    /\ UNCHANGED <<schedulerVars, monitorVars, agentVars, historyVars>>

Retry(t) ==
    /\ "retry" \in Requests
    /\ manual[t] < MaxManual
    /\ RetryRead(t)
    /\ manual' = [manual EXCEPT ![t] = @ + 1]
    /\ UNCHANGED <<schedulerVars, monitorVars, agentVars, assigns, starts,
                   autoRetries>>

\* The handlers' later steps: each handler runs to its end.
FinishRequest(t) ==
    /\ CancelWrite(t) \/ RetryWrite(t)
    /\ UNCHANGED <<schedulerVars, monitorVars, agentVars, historyVars>>

FinishPoll(n) ==
    /\ PollReadChunks(n) \/ \E i \in Items : PollMark(n, i)
    /\ UNCHANGED <<schedulerVars, monitorVars, agentVars, historyVars>>

FinishAbandoned(n) ==
    /\ \E i \in Items : AbandonedMark(n, i)
    /\ UNCHANGED <<schedulerVars, monitorVars, agentVars, historyVars>>

FinishResult(c) ==
    /\ CheckAllChunks(c) \/ CompleteParent(c)
    /\ UNCHANGED <<schedulerVars, monitorVars, agentVars, historyVars>>

Respond(n) ==
    /\ PollRespond(n)
    /\ starts' = [i \in Items |-> starts[i] + IF i \in batch[n] THEN 1 ELSE 0]
    /\ UNCHANGED <<schedulerVars, monitorVars, assigns, autoRetries, manual>>

Report(n, i) ==
    /\ \/ i \in Tasks /\ \E exitCode \in {0, 1} : ReportTask(n, i, exitCode)
       \/ i \in Chunks /\ \E s \in {"completed", "failed"} : ReportChunk(n, i, s)
    /\ UNCHANGED <<schedulerVars, monitorVars, historyVars>>

AgentStep(A) == A /\ UNCHANGED <<schedulerVars, monitorVars, historyVars>>

\* A dead agent's last heartbeat grows old, and its open poll is not received.
DeadAgent(n) ==
    /\ agent[n] = "dead"
    /\ Lapse(n) \/ PollUnanswered(n)
    /\ UNCHANGED <<schedulerVars, monitorVars, historyVars>>

Disconnect(n) ==
    \/ JoinUnanswered(n)
    \/ PollUnanswered(n)
    \/ PollAbandon(n) /\ UNCHANGED agentVars

FaultNext ==
    /\ \/ /\ "connection" \in Faults
          /\ \E n \in Nodes : Disconnect(n)
       \/ /\ {"connection", "controller"} \cap Faults # {}
          /\ \E n \in Nodes, i \in Items : ResultLost(n, i)
       \/ "heartbeat" \in Faults /\ \E n \in Nodes : Lapse(n)
       \/ "agent" \in Faults /\ \E n \in Nodes : Die(n)
    /\ UNCHANGED <<schedulerVars, monitorVars, historyVars>>

\* The controller stops and starts again: the tables stay, the goroutines of
\* the scheduler, the monitor and the handlers are gone.
Restart ==
    /\ "controller" \in Faults
    /\ phase' = "tasks" /\ sTasks' = {} /\ sChunks' = {} /\ sNodes' = {}
    /\ toCreate' = {} /\ splitting' = {}
    /\ mNodes' = {} /\ mNode' = {} /\ mRetry' = {} /\ mFail' = {}
    /\ cancelling' = {} /\ retrying' = [t \in Tasks |-> 0]
    /\ pollPhase' = [n \in Nodes |-> "none"]
    /\ batch' = [n \in Nodes |-> {}]
    /\ unmarked' = [n \in Nodes |-> {}]
    /\ abandoned' = [n \in Nodes |-> {}]
    /\ checking' = {} /\ completing' = {}
    /\ UNCHANGED <<storeVars, agentVars, historyVars>>

OperatorNext ==
    /\ \E n \in Nodes :
          \/ "delete" \in Requests /\ HandleDeleteNode(n)
          \/ /\ "status" \in Requests
             /\ \/ \E s \in NodeStatuses \ {"absent"} :
                      HandleUpdateNodeStatus(n, s)
                \/ HandleReserveNode(n)
                \/ HandleUnreserveNode(n)
    /\ UNCHANGED <<schedulerVars, monitorVars, historyVars>>

Next ==
    \/ SchedulerNext
    \/ MonitorNext
    \/ \E t \in Tasks : Submit(t) \/ Cancel(t) \/ Retry(t) \/ FinishRequest(t)
    \/ \E n \in Nodes : \/ FinishPoll(n) \/ FinishAbandoned(n) \/ Respond(n)
                       \/ DeadAgent(n)
                       \/ AgentStep(Join(n))
                       \/ AgentStep(Heartbeat(n))
                       \/ AgentStep(Poll(n))
    \/ \E n \in Nodes, i \in Items : Report(n, i)
    \/ \E c \in Chunks : FinishResult(c)
    \/ FaultNext
    \/ Restart
    \/ OperatorNext

Spec == Init /\ [][Next]_vars

(***************************************************************************)
(* The scheduler's and the monitor's tickers, the handlers' goroutines and *)
(* the agents' loops keep running, and every command an agent starts ends. *)
(* Faults and requests need not happen.                                    *)
(***************************************************************************)
Fairness ==
    /\ WF_vars(SchedulerNext)
    /\ WF_vars(MonitorNext)
    /\ \A t \in Tasks : WF_vars(FinishRequest(t))
    /\ \A n \in Nodes : /\ WF_vars(FinishPoll(n))
                        /\ WF_vars(FinishAbandoned(n))
                        /\ WF_vars(Respond(n))
                        /\ WF_vars(DeadAgent(n))
                        /\ WF_vars(AgentStep(Join(n)))
                        /\ WF_vars(AgentStep(Heartbeat(n)))
                        /\ WF_vars(AgentStep(Poll(n)))
                        /\ \A i \in Items : WF_vars(Report(n, i))
    /\ \A c \in Chunks : WF_vars(FinishResult(c))

FairSpec == Spec /\ Fairness

-----------------------------------------------------------------------------
(* Type invariant. *)

\* Every column, snapshot and handler state stays in its domain: what the
\* schema's CHECK on tasks.status demands, and no handler counted below zero.
TypeOK ==
    /\ StoreTypeOK /\ SchedulerTypeOK /\ MonitorTypeOK /\ APITypeOK
    /\ AgentTypeOK
    /\ assigns \in [Items -> Nat]
    /\ starts \in [Items -> Nat]
    /\ autoRetries \in [Tasks -> Nat]
    /\ manual \in [Tasks -> Nat]

-----------------------------------------------------------------------------
(* Safety. *)

\* An item is attempted once, and once more for each recorded retry; chunks
\* are not retried.
Attempts(i) == IF i \in Tasks THEN 1 + retryCount[i] ELSE 1

\* However requests and stale snapshots interleave, the scheduler gives an item
\* to a node at most once per attempt.
AssignedOncePerAttempt == \A i \in Items : assigns[i] <= Attempts(i)

\* However polls break off and are sent again, agents start an item at most
\* once per attempt; and a parent that is split again does not run its chunks
\* a second time.
StartedOncePerAttempt == \A i \in Items : starts[i] <= Attempts(i)

\* The monitor decides on a listed row and writes later, while clients retry
\* the same task; still it never spends more than retry_max retries on a task.
AutoRetryBudget == \A t \in Tasks : autoRetries[t] <= RetryMax[t]

\* Wherever an item executes, the hard constraints of the task it belongs to
\* hold and the pin is respected, retries and late polls included.
PlacementRespected ==
    \A n \in Nodes, i \in Items :
        exec[n][i] > 0 =>
            LET t == IF i \in Tasks THEN i ELSE Parent(i)
            IN  n \in Fits[t] /\ TargetNode[t] \in {n, NoNode}

\* A task listed as running runs, or is on its way to its agent, or was given
\* to an agent that has died: with whole connections and agents that survive
\* their polls no row says "running" for nothing.
RunningIsReal ==
    \A t \in Tasks \ SplitTasks :
        status[t] = "running" =>
            \/ \E n \in Nodes : exec[n][t] > 0 \/ t \in batch[n]
            \/ \E n \in Nodes : assignedNode[t] = n /\ agent[n] = "dead"

\* t has chunk rows, and all of them are done.
ChunksDone(t) ==
    /\ \E c \in Chunks : Parent(c) = t /\ chunkStatus[c] # "absent"
    /\ \A c \in Chunks :
          Parent(c) = t => chunkStatus[c] \in {"absent", "completed", "failed"}

\* A parent counts as completed only when no chunk of it is still to be done,
\* though each result handler counts the chunks some time before it writes.
ParentWaitsForChunks ==
    \A t \in SplitTasks : status[t] = "completed" => ChunksDone(t)

\* The last of several concurrent result handlers to count sees all chunks
\* done: a parent whose chunks are done always has a handler to complete it.
NoLostCompletion ==
    \A t \in SplitTasks :
        status[t] = "splitting" /\ ChunksDone(t)
            => \E c \in checking \cup completing : Parent(c) = t

\* A task leaves a node only for the queue, never straight for another node,
\* and a chunk never leaves its node.
NoNodeSwitch ==
    [][/\ \A t \in Tasks :
             assignedNode[t] # NoNode
                 => assignedNode'[t] \in {assignedNode[t], NoNode}
       /\ \A c \in Chunks : chunkNode[c] # NoNode => chunkNode'[c] = chunkNode[c]
      ]_vars

-----------------------------------------------------------------------------
(* Refinement. *)

\* The row of an item: a task's or a chunk's.
RowStatus(i) == IF i \in Tasks THEN status[i] ELSE chunkStatus[i]
RowNode(i)   == IF i \in Tasks THEN assignedNode[i] ELSE chunkNode[i]

rowStatus   == [i \in Items |-> RowStatus(i)]
rowNode     == [i \in Items |-> RowNode(i)]
rowAttempts == [i \in Items |-> Attempts(i)]

Lifecycle == INSTANCE TaskLifecycle WITH
    Work <- Items,
    Divided <- SplitTasks,
    Workers <- Nodes,
    Nobody <- NoNode,
    state <- rowStatus,
    holder <- rowNode,
    allowed <- rowAttempts,
    given <- assigns,
    started <- starts

\* Whatever is stale, lost or repeated on the task path, what clients see of a
\* task follows the account of TaskLifecycle: work is started only if it was
\* given, given only if it was asked for once more, and has a result only if
\* it was started or its node was lost.
ImplementsLifecycle == Lifecycle!Spec

-----------------------------------------------------------------------------
(* Liveness, under FairSpec. *)

\* Without faults or cancels every submitted task ends, a split one through
\* all of its chunks, even though nodes join as stale and may be marked offline.
AllTasksFinish ==
    \A t \in Tasks : status[t] # "absent" ~> status[t] \in Terminal

\* A dead agent's node leaves the schedulable nodes for good.
DeadNodeExcluded ==
    \A n \in Nodes : agent[n] = "dead" ~> [](nodeStatus[n] # "online")

-----------------------------------------------------------------------------
(* What the source says and the code does not do: see the README's findings. *)

\* tasks.go, HandleCancelTask: "cancelled" is a terminal state; only a retry
\* request (which queues the task again) leaves it.
CancelledIsFinal ==
    [][\A t \in Tasks : status[t] = "cancelled"
                           => status'[t] \in {"cancelled", "queued"}]_vars

\* scheduler.go: rescheduleNodeTasks "moves tasks from a failed node back to
\* the queue"; here, the tasks the node had not fetched yet.
ScheduledTasksRecovered ==
    \A t \in Tasks, n \in Nodes :
        status[t] = "scheduled" /\ assignedNode[t] = n /\ agent[n] = "dead"
            ~> ~(status[t] = "scheduled" /\ assignedNode[t] = n)
=============================================================================
