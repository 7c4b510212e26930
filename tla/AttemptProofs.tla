---------------------------- MODULE AttemptProofs ----------------------------
(***************************************************************************)
(* Which rows a step of Constellation writes, and why it may; and from     *)
(* that, where the attempts given to nodes are: in a row, in an open poll, *)
(* or started.  For every value of the constants.                          *)
(***************************************************************************)
EXTENDS SafetyProofs, FiniteSetTheorems

-----------------------------------------------------------------------------
(* The row a step writes. *)

\* A handler of n's polls is about to mark i as running.
ToBeMarked(i) == \E n \in Nodes : i \in unmarked[n] \/ i \in abandoned[n]
Executing(i) == \E n \in Nodes : exec[n][i] > 0

RowsKept ==
    UNCHANGED <<status, assignedNode, retryCount, chunkStatus, chunkNode,
                assigns, starts>>

\* The status of one row, and nothing else that clients or the counts show.
TaskWritten(t, s) ==
    /\ status' = [status EXCEPT ![t] = s]
    /\ UNCHANGED <<assignedNode, retryCount, chunkStatus, chunkNode, assigns,
                   starts>>

ChunkWritten(c, s) ==
    /\ chunkStatus' = [chunkStatus EXCEPT ![c] = s]
    /\ UNCHANGED <<status, assignedNode, retryCount, chunkNode, assigns, starts>>

\* Who writes s to the row of t, and what it knows of t.
TaskReason(t, s) ==
    \/ s = "queued"    /\ status[t] = "absent"
    \/ s = "cancelled" /\ t \in cancelling
    \/ s = "running"   /\ ToBeMarked(t)
    \/ s \in {"completed", "failed"} /\ Executing(t)
    \/ s = "failed"    /\ t \in mFail
    \/ s = "failed"    /\ t \in SplitTasks /\ t \in sTasks
    \/ s = "splitting" /\ t \in splitting
    \/ s = "completed" /\ \E c \in completing : Parent(c) = t

ChunkReason(c, s) ==
    \/ s = "queued"  /\ chunkStatus[c] = "absent" /\ c \in toCreate
    \/ s = "running" /\ ToBeMarked(c)
    \/ s \in {"completed", "failed"} /\ Executing(c) /\ c \in checking'

\* The answer to n's poll arrives.
Served(n) ==
    /\ starts' = [i \in Items |-> starts[i] + IF i \in batch[n] THEN 1 ELSE 0]
    /\ UNCHANGED <<status, assignedNode, retryCount, chunkStatus, chunkNode,
                   assigns>>

\* What a step does to the rows and to the counts.
RowStep ==
    \/ RowsKept
    \/ \E t \in Tasks, s \in TaskStatuses : TaskReason(t, s) /\ TaskWritten(t, s)
    \/ \E c \in Chunks, s \in ChunkStatuses :
          ChunkReason(c, s) /\ ChunkWritten(c, s)
    \/ \E t \in Tasks, n \in Nodes : AssignTaskStep(t, n) /\ UNCHANGED starts
    \/ \E c \in Chunks, n \in Nodes : AssignChunkStep(c, n) /\ UNCHANGED starts
    \/ \E t \in Tasks : RescheduleStep(t) /\ UNCHANGED starts
    \/ \E t \in Tasks : RetryStep(t)
    \/ \E n \in Nodes : Served(n)

LEMMA KeptRows ==
    ASSUME UNCHANGED <<assigns, starts>>
    PROVE  /\ UNCHANGED storeVars => RowsKept
           /\ UNCHANGED <<taskTable, chunkTable>> => RowsKept
  BY DEF RowsKept, storeVars, taskTable, chunkTable

LEMMA TaskUpdate ==
    ASSUME UNCHANGED <<assigns, starts>>, NEW t \in Tasks, NEW s \in TaskStatuses,
           UpdateTaskStatus(t, s), TaskReason(t, s)
    PROVE  RowStep
  BY DEF UpdateTaskStatus, TaskWritten, RowStep, chunkTable

LEMMA ChunkUpdate ==
    ASSUME UNCHANGED <<assigns, starts>>, NEW c \in Chunks,
           NEW s \in ChunkStatuses, UpdateChunkStatus(c, s), ChunkReason(c, s)
    PROVE  RowStep
  BY DEF UpdateChunkStatus, ChunkWritten, RowStep, taskTable

LEMMA SchedulerRows ==
    ASSUME TypeOK, SchedulerNext
    PROVE  RowStep
  <1>1. StoreTypeOK /\ UNCHANGED starts
    BY TypeParts DEF SchedulerNext
  <1>2. CASE SchedulerQuietStep /\ UNCHANGED assigns
    <2>1. UNCHANGED storeVars => RowStep
      BY <1>1, <1>2, KeptRows DEF RowStep
    <2>2. CASE ReadQueuedTasks \/ ReadQueuedChunks \/ ReadOnlineNodes
      BY <2>1, <2>2 DEF ReadQueuedTasks, ReadQueuedChunks, ReadOnlineNodes
    <2>3. ASSUME NEW t \in Tasks, FailSplit(t)
          PROVE  RowStep
      <3>1. UpdateTaskStatus(t, "failed") /\ TaskReason(t, "failed")
        BY <2>3 DEF FailSplit, AtTask, UpdateTaskResult, TaskReason
      <3> QED
        BY <1>1, <1>2, <3>1, TaskUpdate DEF TaskStatuses, Terminal
    <2>4. ASSUME NEW t \in Tasks, EndSplit(t)
          PROVE  RowStep
      <3>1. UpdateTaskStatus(t, "splitting") /\ TaskReason(t, "splitting")
        BY <2>4 DEF EndSplit, TaskReason
      <3> QED
        BY <1>1, <1>2, <3>1, TaskUpdate DEF TaskStatuses
    <2>5. ASSUME NEW c \in Chunks, CreateChunk(c)
          PROVE  RowStep
      <3>1. CASE chunkStatus[c] = "absent"
        <4>1. UpdateChunkStatus(c, "queued") /\ ChunkReason(c, "queued")
          BY <1>1, <2>5, <3>1
          DEF CreateChunk, CreateTaskChunk, UpdateChunkStatus, ChunkReason,
              StoreTypeOK
        <4> QED
          BY <1>1, <1>2, <4>1, ChunkUpdate DEF ChunkStatuses
      <3>2. CASE chunkStatus[c] # "absent"
        <4>1. UNCHANGED <<taskTable, chunkTable>>
          BY <1>1, <2>5, <3>2
          DEF CreateChunk, CreateTaskChunk, StoreTypeOK, chunkTable
        <4> QED
          BY <1>1, <1>2, <4>1, KeptRows DEF RowStep
      <3> QED
        BY <3>1, <3>2
    <2>6. ASSUME NEW t \in Tasks, LeaveTaskQueued(t)
          PROVE  RowStep
      BY <2>1, <2>6 DEF LeaveTaskQueued
    <2>7. ASSUME NEW t \in SplitTasks, NEW k \in 0..MaxChunks, BeginSplit(t, k)
          PROVE  RowStep
      BY <2>1, <2>7 DEF BeginSplit
    <2>8. ASSUME NEW c \in Chunks, LeaveChunkQueued(c)
          PROVE  RowStep
      BY <2>1, <2>8 DEF LeaveChunkQueued
    <2> QED
      BY <1>2, <2>2, <2>3, <2>4, <2>5, <2>6, <2>7, <2>8 DEF SchedulerQuietStep
  <1>3. CASE \E t \in Tasks, n \in Nodes :
                /\ AssignTask(t, n)
                /\ assigns' = Counting(assigns, t, ~Refused(n))
    BY <1>1, <1>3 DEF AssignTaskStep, SchedulerNext, RowStep
  <1>4. CASE \E c \in Chunks, n \in Nodes :
                /\ AssignChunk(c, n)
                /\ assigns' = Counting(assigns, c, ~Refused(n))
    BY <1>1, <1>4 DEF AssignChunkStep, SchedulerNext, RowStep
  <1> QED
    BY <1>2, <1>3, <1>4 DEF SchedulerNext

LEMMA MonitorRows ==
    ASSUME TypeOK, MonitorNext
    PROVE  RowStep
  <1>1. UNCHANGED <<assigns, starts, schedulerVars>>
    BY DEF MonitorNext
  <1>2. CASE CheckHeartbeats \/ \E n \in Nodes : MarkOffline(n) \/ ListNodeTasks(n)
    BY <1>1, <1>2, KeptRows
    DEF CheckHeartbeats, MarkOffline, ListNodeTasks, UpdateNodeStatus, RowStep
  <1>3. ASSUME NEW t \in Tasks, FailTask(t)
        PROVE  RowStep
    <2>1. UpdateTaskStatus(t, "failed") /\ TaskReason(t, "failed")
      BY <1>3 DEF FailTask, UpdateTaskResult, TaskReason
    <2> QED
      BY <1>1, <2>1, TaskUpdate DEF TaskStatuses, Terminal
  <1>4. CASE \E t \in Tasks :
                /\ RescheduleTask(t)
                /\ autoRetries' = Counting(autoRetries, t, ~Refused(NoNode))
    BY <1>1, <1>4 DEF RescheduleStep, RowStep
  <1> QED
    BY <1>2, <1>3, <1>4 DEF MonitorNext, MonitorQuietStep

LEMMA ClientRows ==
    ASSUME TypeOK, NEW t \in Tasks,
           Submit(t) \/ Cancel(t) \/ Retry(t) \/ FinishRequest(t)
    PROVE  RowStep
  <1>1. UNCHANGED <<assigns, starts>>
    BY DEF Submit, Cancel, Retry, FinishRequest, historyVars
  <1>2. CASE Submit(t)
    <2>1. TaskWritten(t, "queued") /\ TaskReason(t, "queued")
      BY <1>1, <1>2
      DEF Submit, HandleSubmitTask, CreateTask, TaskWritten, TaskReason,
          chunkTable
    <2> QED
      BY <2>1 DEF RowStep, TaskStatuses
  <1>3. CASE Cancel(t) \/ Retry(t)
    BY <1>1, <1>3, KeptRows DEF Cancel, CancelRead, Retry, RetryRead, RowStep
  <1>4. CASE CancelWrite(t)
    <2>1. UpdateTaskStatus(t, "cancelled") /\ TaskReason(t, "cancelled")
      BY <1>4 DEF CancelWrite, TaskReason
    <2> QED
      BY <1>1, <2>1, TaskUpdate DEF TaskStatuses, Terminal
  <1>5. CASE RetryWrite(t) /\ FinishRequest(t)
    BY <1>5 DEF FinishRequest, RetryStep, RowStep
  <1> QED
    BY <1>2, <1>3, <1>4, <1>5 DEF FinishRequest

LEMMA MarkRows ==
    ASSUME TypeOK, UNCHANGED <<assigns, starts>>, NEW i \in Items,
           MarkRunning(i), ToBeMarked(i)
    PROVE  RowStep
  <1>1. CASE i \in Tasks
    BY <1>1, TaskUpdate DEF MarkRunning, TaskReason, TaskStatuses
  <1>2. CASE i \notin Tasks
    BY <1>2, ChunkUpdate DEF MarkRunning, ChunkReason, ChunkStatuses, Items
  <1> QED
    BY <1>1, <1>2

LEMMA HandlerRows ==
    ASSUME TypeOK, NEW n \in Nodes,
           \/ FinishPoll(n) \/ FinishAbandoned(n) \/ Respond(n) \/ DeadAgent(n)
           \/ AgentStep(Join(n)) \/ AgentStep(Heartbeat(n)) \/ AgentStep(Poll(n))
    PROVE  RowStep
  <1>1. CASE FinishPoll(n) \/ FinishAbandoned(n)
    <2>1. UNCHANGED <<assigns, starts>>
      BY <1>1 DEF FinishPoll, FinishAbandoned, historyVars
    <2>2. CASE PollReadChunks(n)
      BY <2>1, <2>2, KeptRows DEF PollReadChunks, RowStep
    <2>3. ASSUME NEW i \in Items, PollMark(n, i) \/ AbandonedMark(n, i)
          PROVE  RowStep
      <3>1. MarkRunning(i) /\ ToBeMarked(i)
        BY <2>3 DEF PollMark, AbandonedMark, MayMark, ToBeMarked
      <3> QED
        BY <2>1, <3>1, MarkRows
    <2> QED
      BY <1>1, <2>2, <2>3 DEF FinishPoll, FinishAbandoned
  <1>2. CASE Respond(n)
    BY <1>2
    DEF Respond, PollRespond, Served, RowStep, storeVars, taskTable, chunkTable
  <1>3. CASE DeadAgent(n)
    BY <1>3, KeptRows
    DEF DeadAgent, Lapse, HeartbeatExpires, PollUnanswered, RowStep, historyVars
  <1>4. CASE AgentStep(Join(n)) \/ AgentStep(Heartbeat(n)) \/ AgentStep(Poll(n))
    BY <1>4, KeptRows
    DEF AgentStep, Join, HandleNodeJoin, RegisterNode, Heartbeat,
        UpdateNodeHeartbeat, Poll, PollReadTasks, RowStep, historyVars
  <1> QED
    BY <1>1, <1>2, <1>3, <1>4

LEMMA ReportRows ==
    ASSUME TypeOK, NEW n \in Nodes, NEW i \in Items, Report(n, i)
    PROVE  RowStep
  <1>1. UNCHANGED <<assigns, starts>>
    BY DEF Report, historyVars
  <1>2. ASSUME i \in Tasks, NEW exitCode \in {0, 1}, ReportTask(n, i, exitCode)
        PROVE  RowStep
    <2>1. PICK s \in {"completed", "failed"} : UpdateTaskStatus(i, s)
      BY <1>2 DEF ReportTask, HandleTaskResult, UpdateTaskResult
    <2>2. Executing(i)
      BY <1>2 DEF ReportTask, Finished, Executing
    <2> QED
      BY <1>1, <1>2, <2>1, <2>2, TaskUpdate DEF TaskReason, TaskStatuses, Terminal
  <1>3. ASSUME i \in Chunks, NEW s \in {"completed", "failed"},
               ReportChunk(n, i, s)
        PROVE  RowStep
    <2>1. UpdateChunkStatus(i, s) /\ i \in checking'
      BY <1>3 DEF ReportChunk, HandleChunkResult
    <2>2. Executing(i)
      BY <1>3 DEF ReportChunk, Finished, Executing
    <2> QED
      BY <1>1, <1>3, <2>1, <2>2, ChunkUpdate DEF ChunkReason, ChunkStatuses
  <1> QED
    BY <1>2, <1>3 DEF Report

LEMMA ResultRows ==
    ASSUME TypeOK, NEW c \in Chunks, FinishResult(c)
    PROVE  RowStep
  <1>1. UNCHANGED <<assigns, starts>>
    BY DEF FinishResult, historyVars
  <1>2. CASE CheckAllChunks(c)
    BY <1>1, <1>2, KeptRows DEF CheckAllChunks, RowStep
  <1>3. CASE CompleteParent(c)
    <2>1. /\ UpdateTaskStatus(Parent(c), "completed")
          /\ TaskReason(Parent(c), "completed")
      BY <1>3 DEF CompleteParent, UpdateTaskResult, TaskReason
    <2> QED
      BY <1>1, <2>1, ParentInTasks, TaskUpdate DEF TaskStatuses, Terminal
  <1> QED
    BY <1>2, <1>3 DEF FinishResult

LEMMA OutsideRows ==
    ASSUME FaultNext \/ Restart \/ OperatorNext \/ UNCHANGED vars
    PROVE  RowStep
  <1>1. UNCHANGED <<assigns, starts>>
    BY DEF FaultNext, Restart, OperatorNext, vars, historyVars
  <1>2. UNCHANGED <<taskTable, chunkTable>>
    <2>1. CASE FaultNext
      BY <2>1
      DEF FaultNext, Disconnect, JoinUnanswered, HandleNodeJoin, RegisterNode,
          PollUnanswered, PollAbandon, ResultLost, Lapse, HeartbeatExpires, Die,
          storeVars
    <2>2. CASE OperatorNext
      BY <2>2
      DEF OperatorNext, HandleDeleteNode, DeleteNode, HandleUpdateNodeStatus,
          HandleReserveNode, HandleUnreserveNode, UpdateNodeStatus,
          UpdateNodeHeartbeat
    <2>3. CASE Restart \/ UNCHANGED vars
      BY <2>3 DEF Restart, vars, storeVars
    <2> QED
      BY <2>1, <2>2, <2>3
  <1> QED
    BY <1>1, <1>2, KeptRows DEF RowStep

\* Every step writes at most one row, for one of these reasons.
LEMMA RowSteps ==
    ASSUME TypeOK, [Next]_vars
    PROVE  RowStep
  BY SchedulerRows, MonitorRows, ClientRows, HandlerRows, ReportRows,
     ResultRows, OutsideRows
  DEF Next

\* The ways the row of a chunk changes, ...
ChunkMove(c) ==
    \/ chunkStatus'[c] = chunkStatus[c]
    \/ /\ c \in toCreate
       /\ chunkStatus[c] = "absent" /\ chunkStatus'[c] = "queued"
    \/ /\ c \in sChunks /\ sTasks = {} /\ phase = "work"
       /\ chunkStatus'[c] = "scheduled"
    \/ ToBeMarked(c) /\ chunkStatus'[c] = "running"
    \/ /\ Executing(c) /\ c \in checking'
       /\ chunkStatus'[c] \in {"completed", "failed"}

\* ... and that of a task.
TaskMove(t) ==
    \/ status'[t] = status[t]
    \/ TaskReason(t, status'[t]) /\ UNCHANGED chunkStatus
    \/ t \in sTasks \ SplitTasks /\ status'[t] = "scheduled"
    \/ (t \in mRetry \/ retrying[t] > 0) /\ status'[t] = "queued"

LEMMA ChunkMoves ==
    ASSUME TypeOK, [Next]_vars, NEW c \in Chunks
    PROVE  ChunkMove(c)
  <1>1. StoreTypeOK
    BY TypeParts
  <1>2. ASSUME NEW d \in Chunks, NEW s \in ChunkStatuses,
               ChunkReason(d, s), ChunkWritten(d, s)
        PROVE  ChunkMove(c)
    BY <1>1, <1>2 DEF ChunkReason, ChunkWritten, ChunkMove, StoreTypeOK
  <1>3. ASSUME NEW d \in Chunks, NEW n \in Nodes, AssignChunkStep(d, n)
        PROVE  ChunkMove(c)
    BY <1>1, <1>3
    DEF AssignChunkStep, AssignChunk, AtChunk, UpdateChunkAssignment,
        chunkTable, ChunkMove, StoreTypeOK
  <1>4. ASSUME NEW u \in Tasks,
               \/ RescheduleStep(u) \/ RetryStep(u)
               \/ \E n \in Nodes : AssignTaskStep(u, n)
        PROVE  UNCHANGED chunkStatus
    BY <1>4
    DEF RescheduleStep, RescheduleTask, RetryStep, RetryWrite,
        IncrementTaskRetry, AssignTaskStep, AssignTask, UpdateTaskAssignment,
        chunkTable
  <1>5. UNCHANGED chunkStatus => ChunkMove(c)
    BY DEF ChunkMove
  <1> QED
    BY <1>2, <1>3, <1>4, <1>5, RowSteps
    DEF RowStep, RowsKept, TaskWritten, Served

LEMMA TaskMoves ==
    ASSUME TypeOK, [Next]_vars, NEW t \in Tasks
    PROVE  TaskMove(t)
  <1>1. StoreTypeOK
    BY TypeParts
  <1>2. ASSUME NEW u \in Tasks, NEW s \in TaskStatuses,
               TaskReason(u, s), TaskWritten(u, s)
        PROVE  TaskMove(t)
    <2>1. status'[u] = s /\ (u # t => status'[t] = status[t])
      BY <1>1, <1>2 DEF TaskWritten, StoreTypeOK
    <2> QED
      BY <1>2, <2>1 DEF TaskWritten, TaskMove
  <1>3. ASSUME NEW u \in Tasks, NEW n \in Nodes, AssignTaskStep(u, n)
        PROVE  TaskMove(t)
    BY <1>1, <1>3
    DEF AssignTaskStep, AssignTask, AtTask, UpdateTaskAssignment, TaskMove,
        StoreTypeOK
  <1>4. ASSUME NEW u \in Tasks, RescheduleStep(u) \/ RetryStep(u)
        PROVE  TaskMove(t)
    BY <1>1, <1>4
    DEF RescheduleStep, RescheduleTask, RetryStep, RetryWrite,
        IncrementTaskRetry, TaskMove, StoreTypeOK
  <1>5. ASSUME NEW d \in Chunks, NEW n \in Nodes, AssignChunkStep(d, n)
        PROVE  UNCHANGED status
    BY <1>5 DEF AssignChunkStep, AssignChunk, UpdateChunkAssignment, taskTable
  <1>6. UNCHANGED status => TaskMove(t)
    BY DEF TaskMove
  <1> QED
    BY <1>2, <1>3, <1>4, <1>5, <1>6, RowSteps
    DEF RowStep, RowsKept, ChunkWritten, Served

-----------------------------------------------------------------------------
(* Polls: what a node's handler does to what it holds for the agent. *)

PollsQuiet ==
    /\ UNCHANGED <<pollPhase, batch, unmarked, starts>>
    /\ \A n \in Nodes : abandoned'[n] \subseteq abandoned[n]

\* The poll is over: the agent has the batch, or never receives it.
PollClosed(n) ==
    /\ PollAnswered(n)
    /\ PollEnd(n)
    /\ UNCHANGED <<unmarked, abandoned>>
    /\ \/ UNCHANGED starts
       \/ starts' = [i \in Items |-> starts[i] + IF i \in batch[n] THEN 1 ELSE 0]

PollStep(n) ==
    \/ PollReadTasks(n) /\ UNCHANGED starts
    \/ PollReadChunks(n) /\ UNCHANGED starts
    \/ (\E i \in Items : PollMark(n, i)) /\ UNCHANGED starts
    \/ PollAbandon(n) /\ UNCHANGED starts
    \/ PollClosed(n)

LEMMA QuietPolls ==
    ASSUME UNCHANGED <<apiVars, starts>>
    PROVE  PollsQuiet
  BY DEF PollsQuiet, apiVars

\* Every step leaves the polls alone, is one of a poll, or is a restart.
LEMMA PollKinds ==
    ASSUME TypeOK, [Next]_vars
    PROVE  \/ PollsQuiet
           \/ QuietStep /\ \E n \in Nodes : PollStep(n)
           \/ QuietStep /\ Restart
  <1>1. APITypeOK
    BY TypeParts
  <1>2. CASE SchedulerNext \/ MonitorNext \/ OperatorNext \/ UNCHANGED vars
    BY <1>2, QuietPolls
    DEF SchedulerNext, MonitorNext, OperatorNext, HandleDeleteNode,
        HandleUpdateNodeStatus, HandleReserveNode, HandleUnreserveNode,
        vars, historyVars
  <1>3. ASSUME NEW t \in Tasks,
               Submit(t) \/ Cancel(t) \/ Retry(t) \/ FinishRequest(t)
        PROVE  PollsQuiet
    BY <1>3
    DEF Submit, HandleSubmitTask, Cancel, CancelRead, Retry, RetryRead,
        FinishRequest, CancelWrite, RetryWrite, PollsQuiet, apiVars, pollVars,
        historyVars
  <1>4. ASSUME NEW n \in Nodes, FinishPoll(n)
        PROVE  QuietStep /\ PollStep(n)
    BY <1>4, HandlerKinds DEF FinishPoll, PollStep, historyVars
  <1>5. ASSUME NEW n \in Nodes, FinishAbandoned(n)
        PROVE  PollsQuiet
    BY <1>1, <1>5
    DEF FinishAbandoned, AbandonedMark, PollsQuiet, APITypeOK, historyVars
  <1>6. ASSUME NEW n \in Nodes, Respond(n)
        PROVE  QuietStep /\ PollStep(n)
    BY <1>6, HandlerKinds DEF Respond, PollRespond, PollStep, PollClosed
  <1>7. ASSUME NEW n \in Nodes, DeadAgent(n)
        PROVE  PollsQuiet \/ (QuietStep /\ PollStep(n))
    BY <1>7, HandlerKinds, QuietPolls
    DEF DeadAgent, Lapse, PollUnanswered, PollStep, PollClosed, historyVars
  <1>8. ASSUME NEW n \in Nodes, AgentStep(Join(n)) \/ AgentStep(Heartbeat(n))
        PROVE  PollsQuiet
    BY <1>8, QuietPolls DEF AgentStep, Join, HandleNodeJoin, Heartbeat, historyVars
  <1>9. ASSUME NEW n \in Nodes, AgentStep(Poll(n))
        PROVE  QuietStep /\ PollStep(n)
    BY <1>9, HandlerKinds DEF AgentStep, Poll, PollStep, historyVars
  <1>10. ASSUME NEW n \in Nodes, NEW i \in Items, Report(n, i)
         PROVE  PollsQuiet
    BY <1>10
    DEF Report, ReportTask, HandleTaskResult, ReportChunk, HandleChunkResult,
        PollsQuiet, apiVars, pollVars, historyVars
  <1>11. ASSUME NEW c \in Chunks, FinishResult(c)
         PROVE  PollsQuiet
    BY <1>11
    DEF FinishResult, CheckAllChunks, CompleteParent, PollsQuiet, pollVars,
        historyVars
  <1>12. CASE FaultNext
    <2>1. QuietStep /\ UNCHANGED starts
      BY <1>12, FaultKinds DEF FaultNext, historyVars
    <2>2. ASSUME NEW n \in Nodes, Disconnect(n)
          PROVE  PollsQuiet \/ (QuietStep /\ PollStep(n))
      BY <2>1, <2>2, QuietPolls
      DEF Disconnect, JoinUnanswered, HandleNodeJoin, PollUnanswered, PollStep,
          PollClosed
    <2>3. ASSUME NEW n \in Nodes,
                 Lapse(n) \/ Die(n) \/ \E i \in Items : ResultLost(n, i)
          PROVE  PollsQuiet
      BY <2>1, <2>3, QuietPolls DEF Lapse, Die, ResultLost
    <2> QED
      BY <1>12, <2>2, <2>3 DEF FaultNext
  <1>13. CASE Restart
    BY <1>13, FaultKinds
  <1> QED
    BY <1>2, <1>3, <1>4, <1>5, <1>6, <1>7, <1>8, <1>9, <1>10, <1>11, <1>12,
       <1>13
    DEF Next

\* What a handler of n holds in each of its phases.
PollInv ==
    \A n \in Nodes :
        /\ pollPhase[n] = "none" => batch[n] = {}
        /\ pollPhase[n] = "chunks" => batch[n] \subseteq Tasks
        /\ pollPhase[n] # "update" => unmarked[n] = {}
        /\ unmarked[n] \subseteq batch[n]

LEMMA PollInvStep == TypeOK /\ PollInv /\ [Next]_vars => PollInv'
  <1> SUFFICES ASSUME TypeOK, PollInv, [Next]_vars PROVE PollInv'
    OBVIOUS
  <1>1. APITypeOK
    BY TypeParts
  <1>2. CASE PollsQuiet
    BY <1>2 DEF PollsQuiet, PollInv
  <1>3. ASSUME NEW n \in Nodes, PollStep(n)
        PROVE  PollInv'
    <2> USE DEF PollInv, APITypeOK, PollPhases
    <2>1. CASE PollReadTasks(n)
      BY <1>1, <2>1 DEF PollReadTasks, GetPendingTasksForNode
    <2>2. CASE PollReadChunks(n)
      BY <1>1, <2>2 DEF PollReadChunks
    <2>3. ASSUME NEW i \in Items, PollMark(n, i)
          PROVE  PollInv'
      BY <1>1, <2>3 DEF PollMark
    <2>4. CASE PollAbandon(n)
      BY <1>1, <2>4 DEF PollAbandon, PollEnd
    <2>5. CASE PollClosed(n)
      BY <1>1, <2>5 DEF PollClosed, PollAnswered, PollEnd
    <2> QED
      BY <1>3, <2>1, <2>2, <2>3, <2>4, <2>5 DEF PollStep
  <1>4. CASE Restart
    BY <1>4 DEF Restart, PollInv
  <1> QED
    BY <1>2, <1>3, <1>4, PollKinds

-----------------------------------------------------------------------------
(* Where an attempt may be that was given to a node and not started. *)

\* The nodes whose open polls hold i.
Hands(i) == {n \in Nodes : i \in batch[n]}

OnRow(i, n) == RowStatus(i) = "scheduled" /\ RowNode(i) = n

\* n's handler read i and is past marking it.
Marked(n, i) == pollPhase[n] = "update" /\ i \notin unmarked[n]

\* The row of i is scheduled, and the next poll of its node will add a start: the
\* node's open poll does not hold i, or marked i before the row was scheduled.
Offered(i) ==
    \E n \in Nodes : OnRow(i, n) /\ (i \in batch[n] => Marked(n, i))

\* An attempt of i is started, or in the hands of one poll, or offered once.
Accounted(i) ==
    /\ IsFiniteSet(Hands(i))
    /\ starts[i] + Cardinality(Hands(i)) + (IF Offered(i) THEN 1 ELSE 0)
           <= assigns[i]

AccountInv == \A i \in Items : Accounted(i)

LEMMA CountTypes ==
    ASSUME TypeOK
    PROVE  /\ assigns \in [Items -> Nat]
           /\ starts \in [Items -> Nat]
           /\ \A t \in Tasks : t \in Items
           /\ \A c \in Chunks : c \in Items
  BY TypeParts DEF HistoryTypeOK, Items

\* Nothing is started more often than it is given.
LEMMA StartsGiven ==
    ASSUME TypeOK, AccountInv, NEW i \in Items
    PROVE  starts[i] \in Nat /\ assigns[i] \in Nat /\ starts[i] <= assigns[i]
  <1>1. starts[i] \in Nat /\ assigns[i] \in Nat
    BY CountTypes
  <1>2. Cardinality(Hands(i)) \in Nat
    BY FS_CardinalityType DEF AccountInv, Accounted
  <1> QED
    BY <1>1, <1>2 DEF AccountInv, Accounted

\* What changes for i in the same direction on both sides.
LEMMA SameAccount ==
    ASSUME NEW i \in Items, Accounted(i),
           starts \in [Items -> Nat], assigns \in [Items -> Nat],
           Hands(i)' = Hands(i), Offered(i)' => Offered(i),
           starts'[i] = starts[i], assigns'[i] = assigns[i]
    PROVE  Accounted(i)'
  <1>1. Cardinality(Hands(i)) \in Nat
    BY FS_CardinalityType DEF Accounted
  <1> QED
    BY <1>1 DEF Accounted

\* An open poll of n lets go of i, which may be offered then, or is started.
LEMMA HandedOn ==
    ASSUME NEW i, NEW n, Accounted(i), i \in Items,
           starts \in [Items -> Nat], assigns \in [Items -> Nat],
           n \in Hands(i), Hands(i)' = Hands(i) \ {n},
           assigns'[i] = assigns[i],
           \/ starts'[i] = starts[i]
           \/ starts'[i] = starts[i] + 1 /\ (Offered(i)' => Offered(i))
    PROVE  Accounted(i)'
  <1>1. /\ IsFiniteSet(Hands(i)')
        /\ Cardinality(Hands(i)') = Cardinality(Hands(i)) - 1
    BY FS_RemoveElement DEF Accounted
  <1>2. Cardinality(Hands(i)) \in Nat
    BY FS_CardinalityType DEF Accounted
  <1> QED
    BY <1>1, <1>2 DEF Accounted

\* The other way: a poll of n takes i when it is offered.
LEMMA HandedOut ==
    ASSUME NEW i, NEW n, Accounted(i), i \in Items,
           starts \in [Items -> Nat], assigns \in [Items -> Nat],
           n \notin Hands(i), Hands(i)' = Hands(i) \cup {n},
           assigns'[i] = assigns[i], starts'[i] = starts[i],
           Offered(i), ~Offered(i)'
    PROVE  Accounted(i)'
  <1>1. /\ IsFiniteSet(Hands(i)')
        /\ Cardinality(Hands(i)') = Cardinality(Hands(i)) + 1
    BY FS_AddElement DEF Accounted
  <1>2. Cardinality(Hands(i)) \in Nat
    BY FS_CardinalityType DEF Accounted
  <1> QED
    BY <1>1, <1>2 DEF Accounted

\* No step but an assignment makes a row scheduled.
LEMMA RowsFall ==
    ASSUME QuietStep, NEW i \in Items, NEW n \in Nodes, OnRow(i, n)'
    PROVE  OnRow(i, n)
  <1>1. /\ UNCHANGED <<assignedNode, chunkNode>>
        /\ \A t \in Tasks : status'[t] = "scheduled" => status[t] = "scheduled"
        /\ \A c \in Chunks :
              chunkStatus'[c] = "scheduled" => chunkStatus[c] = "scheduled"
    BY DEF QuietStep, StoreQuiet
  <1>2. CASE i \in Tasks
    BY <1>1, <1>2 DEF OnRow, RowStatus, RowNode
  <1>3. CASE i \notin Tasks
    BY <1>1, <1>3 DEF OnRow, RowStatus, RowNode, Items
  <1> QED
    BY <1>2, <1>3

LEMMA AssignedOrFalls ==
    ASSUME TypeOK, [Next]_vars, NEW i \in Items
    PROVE  \/ assigns'[i] = assigns[i] + 1
           \/ /\ assigns'[i] = assigns[i]
              /\ \A n \in Nodes : OnRow(i, n)' => OnRow(i, n)
  <1>1. StoreTypeOK /\ assigns \in [Items -> Nat]
    BY TypeParts DEF HistoryTypeOK
  <1>2. CASE QuietStep
    BY <1>2, RowsFall DEF QuietStep
  <1>3. ASSUME NEW u \in Tasks, NEW m \in Nodes, AssignTaskStep(u, m)
        PROVE  \/ assigns'[i] = assigns[i] + 1
               \/ /\ assigns'[i] = assigns[i]
                  /\ \A n \in Nodes : OnRow(i, n)' => OnRow(i, n)
    <2>1. UNCHANGED <<chunkStatus, chunkNode>>
      BY <1>3 DEF AssignTaskStep, AssignTask, UpdateTaskAssignment, chunkTable
    <2>2. CASE Refused(m)
      <3>1. UNCHANGED <<status, assignedNode>> /\ assigns'[i] = assigns[i]
        BY <1>1, <1>3, <2>2
        DEF AssignTaskStep, AssignTask, UpdateTaskAssignment, Counting
      <3> QED
        BY <2>1, <3>1 DEF OnRow, RowStatus, RowNode
    <2>3. CASE ~Refused(m)
      <3>1. /\ assigns' = [assigns EXCEPT ![u] = @ + 1]
            /\ status' = [status EXCEPT ![u] = "scheduled"]
            /\ assignedNode' = [assignedNode EXCEPT ![u] = m]
        BY <1>1, <1>3, <2>3
        DEF AssignTaskStep, AssignTask, UpdateTaskAssignment, Counting
      <3> QED
        BY <1>1, <2>1, <3>1 DEF OnRow, RowStatus, RowNode, StoreTypeOK
    <2> QED
      BY <2>2, <2>3
  <1>4. ASSUME NEW d \in Chunks, NEW m \in Nodes, AssignChunkStep(d, m)
        PROVE  \/ assigns'[i] = assigns[i] + 1
               \/ /\ assigns'[i] = assigns[i]
                  /\ \A n \in Nodes : OnRow(i, n)' => OnRow(i, n)
    <2>1. UNCHANGED <<status, assignedNode>>
      BY <1>4 DEF AssignChunkStep, AssignChunk, UpdateChunkAssignment, taskTable
    <2>2. CASE Refused(m)
      <3>1. UNCHANGED <<chunkStatus, chunkNode>> /\ assigns'[i] = assigns[i]
        BY <1>1, <1>4, <2>2
        DEF AssignChunkStep, AssignChunk, UpdateChunkAssignment, Counting,
            chunkTable
      <3> QED
        BY <2>1, <3>1 DEF OnRow, RowStatus, RowNode
    <2>3. CASE ~Refused(m)
      <3>1. /\ assigns' = [assigns EXCEPT ![d] = @ + 1]
            /\ chunkStatus' = [chunkStatus EXCEPT ![d] = "scheduled"]
            /\ chunkNode' = [chunkNode EXCEPT ![d] = m]
        BY <1>1, <1>4, <2>3
        DEF AssignChunkStep, AssignChunk, UpdateChunkAssignment, Counting
      <3> QED
        BY <1>1, <2>1, <3>1 DEF OnRow, RowStatus, RowNode, StoreTypeOK
    <2> QED
      BY <2>2, <2>3
  <1>5. ASSUME NEW u \in Tasks, RescheduleStep(u) \/ RetryStep(u)
        PROVE  /\ assigns'[i] = assigns[i]
               /\ \A n \in Nodes : OnRow(i, n)' => OnRow(i, n)
    <2>1. /\ IncrementTaskRetry(u)
          /\ UNCHANGED <<assigns, chunkStatus, chunkNode>>
      BY <1>5
      DEF RescheduleStep, RescheduleTask, RetryStep, RetryWrite,
          IncrementTaskRetry, historyVars, chunkTable
    <2> QED
      BY <1>1, <2>1
      DEF IncrementTaskRetry, OnRow, RowStatus, RowNode, StoreTypeOK
  <1> QED
    BY <1>2, <1>3, <1>4, <1>5, StepKinds

LEMMA AccountQuiet ==
    ASSUME TypeOK, AccountInv, [Next]_vars, PollsQuiet
    PROVE  AccountInv'
  <1> SUFFICES ASSUME NEW i \in Items PROVE Accounted(i)'
    BY DEF AccountInv
  <1>1. /\ assigns \in [Items -> Nat] /\ starts \in [Items -> Nat]
        /\ Accounted(i)
    BY TypeParts DEF HistoryTypeOK, AccountInv
  <1>2. Hands(i)' = Hands(i) /\ starts'[i] = starts[i]
    BY DEF PollsQuiet, Hands
  <1>3. CASE assigns'[i] = assigns[i] + 1
    <2>1. Cardinality(Hands(i)) \in Nat
      BY <1>1, FS_CardinalityType DEF Accounted
    <2> QED
      BY <1>1, <1>2, <1>3, <2>1 DEF Accounted
  <1>4. CASE /\ assigns'[i] = assigns[i]
             /\ \A n \in Nodes : OnRow(i, n)' => OnRow(i, n)
    <2>1. Offered(i)' => Offered(i)
      BY <1>4 DEF Offered, PollsQuiet, Marked
    <2> QED
      BY <1>1, <1>2, <1>4, <2>1, SameAccount
  <1> QED
    BY <1>3, <1>4, AssignedOrFalls

\* A poll reads rows, as long as its node's earlier poll is closed.
LEMMA AccountRead ==
    ASSUME TypeOK, AccountInv, PollInv, QuietStep, NEW n \in Nodes,
           UNCHANGED starts, PollReadTasks(n) \/ PollReadChunks(n)
    PROVE  AccountInv'
  <1> SUFFICES ASSUME NEW i \in Items PROVE Accounted(i)'
    BY DEF AccountInv
  <1>1. /\ assigns \in [Items -> Nat] /\ starts \in [Items -> Nat]
        /\ assigns' = assigns
        /\ Accounted(i)
        /\ APITypeOK
    BY TypeParts DEF HistoryTypeOK, AccountInv, QuietStep
  <1>2. /\ \A m \in Nodes : OnRow(i, m)' => OnRow(i, m)
        /\ UNCHANGED <<RowStatus(i), RowNode(i)>>
    BY RowsFall
    DEF PollReadTasks, PollReadChunks, RowStatus, RowNode, storeVars, taskTable,
        chunkTable
  <1>3. \A m \in Nodes : m # n => /\ batch'[m] = batch[m]
                                  /\ Marked(m, i)' = Marked(m, i)
    BY <1>1 DEF PollReadTasks, PollReadChunks, APITypeOK, Marked
  <1>4. batch[n] \subseteq batch'[n] /\ ~Marked(n, i)
    BY <1>1
    DEF PollReadTasks, PollReadChunks, APITypeOK, PollInv, Marked
  <1>5. i \in batch'[n] => ~Marked(n, i)'
    BY <1>1 DEF PollReadTasks, PollReadChunks, APITypeOK, PollPhases, Marked
  <1>6. CASE i \in batch[n] \/ i \notin batch'[n]
    <2>1. Hands(i)' = Hands(i)
      BY <1>3, <1>4, <1>6 DEF Hands
    <2>2. Offered(i)' => Offered(i)
      BY <1>2, <1>3, <1>4, <1>5, <1>6 DEF Offered
    <2> QED
      BY <1>1, <2>1, <2>2, SameAccount
  <1>7. CASE i \notin batch[n] /\ i \in batch'[n]
    <2>1. OnRow(i, n)
      BY <1>1, <1>7, TasksAreNotChunks
      DEF PollReadTasks, PollReadChunks, GetPendingTasksForNode,
          GetPendingChunksForNode, APITypeOK, OnRow, RowStatus, RowNode
    <2>2. Offered(i) /\ ~Offered(i)'
      BY <1>2, <1>5, <1>7, <2>1 DEF Offered, OnRow
    <2>3. n \notin Hands(i) /\ Hands(i)' = Hands(i) \cup {n}
      BY <1>3, <1>7 DEF Hands
    <2> QED
      BY <1>1, <2>2, <2>3, HandedOut
  <1> QED
    BY <1>6, <1>7

LEMMA AccountMark ==
    ASSUME TypeOK, AccountInv, QuietStep, NEW n \in Nodes, NEW j \in Items,
           UNCHANGED starts, PollMark(n, j)
    PROVE  AccountInv'
  <1> SUFFICES ASSUME NEW i \in Items PROVE Accounted(i)'
    BY DEF AccountInv
  <1>1. /\ assigns \in [Items -> Nat] /\ starts \in [Items -> Nat]
        /\ assigns' = assigns
        /\ Accounted(i)
        /\ APITypeOK /\ StoreTypeOK
    BY TypeParts DEF HistoryTypeOK, AccountInv, QuietStep
  <1>2. Hands(i)' = Hands(i)
    BY DEF PollMark, Hands
  <1>3. CASE i = j
    <2>1. RowStatus(i)' = "running"
      BY <1>1, <1>3
      DEF PollMark, MarkRunning, UpdateTaskStatus, UpdateChunkStatus, RowStatus,
          StoreTypeOK, Items, taskTable
    <2> QED
      BY <1>1, <1>2, <2>1, SameAccount DEF Offered, OnRow
  <1>4. CASE i # j
    <2>1. \A m \in Nodes : Marked(m, i)' = Marked(m, i)
      BY <1>1, <1>4 DEF PollMark, Marked, APITypeOK
    <2>2. \A m \in Nodes : OnRow(i, m)' => OnRow(i, m)
      BY RowsFall
    <2>3. Offered(i)' => Offered(i)
      BY <2>1, <2>2 DEF Offered, PollMark
    <2> QED
      BY <1>1, <1>2, <2>3, SameAccount
  <1> QED
    BY <1>3, <1>4

\* A poll ends with its batch started, lost on the way, or given up.
LEMMA AccountClosed ==
    ASSUME TypeOK, AccountInv, QuietStep, NEW n \in Nodes,
           (PollAbandon(n) /\ UNCHANGED starts) \/ PollClosed(n)
    PROVE  AccountInv'
  <1> SUFFICES ASSUME NEW i \in Items PROVE Accounted(i)'
    BY DEF AccountInv
  <1>1. /\ assigns \in [Items -> Nat] /\ starts \in [Items -> Nat]
        /\ assigns' = assigns
        /\ Accounted(i)
        /\ APITypeOK
    BY TypeParts DEF HistoryTypeOK, AccountInv, QuietStep
  <1>2. batch' = [batch EXCEPT ![n] = {}]
    BY DEF PollAbandon, PollClosed, PollEnd
  <1>3. \A m \in Nodes : m # n => Marked(m, i)' = Marked(m, i)
    BY <1>1 DEF PollAbandon, PollClosed, PollEnd, Marked, APITypeOK
  <1>4. \A m \in Nodes : OnRow(i, m)' => OnRow(i, m)
    BY RowsFall
  <1>5. CASE i \notin batch[n]
    <2>1. Hands(i)' = Hands(i)
      BY <1>1, <1>2, <1>5 DEF Hands, APITypeOK
    <2>2. Offered(i)' => Offered(i)
      BY <1>1, <1>2, <1>3, <1>4, <1>5 DEF Offered, APITypeOK
    <2>3. starts'[i] = starts[i]
      BY <1>1, <1>5 DEF PollClosed
    <2> QED
      BY <1>1, <2>1, <2>2, <2>3, SameAccount
  <1>6. CASE i \in batch[n]
    <2>1. n \in Hands(i) /\ Hands(i)' = Hands(i) \ {n}
      BY <1>1, <1>2, <1>6 DEF Hands, APITypeOK
    <2>2. CASE starts' = starts
      BY <1>1, <2>1, <2>2, HandedOn
    <2>3. CASE PollClosed(n) /\ starts' # starts
      <3>1. starts'[i] = starts[i] + 1
        BY <1>6, <2>3 DEF PollClosed
      <3>2. Marked(n, i)
        BY <2>3 DEF PollClosed, PollAnswered, Marked
      <3>3. Offered(i)' => Offered(i)
        BY <1>1, <1>2, <1>3, <1>4, <3>2 DEF Offered, APITypeOK
      <3> QED
        BY <1>1, <2>1, <3>1, <3>3, HandedOn
    <2> QED
      BY <2>2, <2>3
  <1> QED
    BY <1>5, <1>6

\* A restart closes all polls at once.
LEMMA AccountRestart ==
    ASSUME TypeOK, AccountInv, QuietStep, Restart
    PROVE  AccountInv'
  <1> SUFFICES ASSUME NEW i \in Items PROVE Accounted(i)'
    BY DEF AccountInv
  <1>1. /\ assigns \in [Items -> Nat] /\ starts \in [Items -> Nat]
        /\ UNCHANGED <<assigns, starts>>
        /\ Accounted(i)
    BY TypeParts DEF HistoryTypeOK, AccountInv, Restart, historyVars
  <1>2. Hands(i)' = {}
    BY DEF Restart, Hands
  <1>3. IsFiniteSet({}) /\ Cardinality({}) = 0
    BY FS_EmptySet
  <1>4. CASE Hands(i) = {}
    <2>1. \A m \in Nodes : OnRow(i, m)' => OnRow(i, m)
      BY RowsFall
    <2>2. Offered(i)' => Offered(i)
      BY <1>4, <2>1 DEF Offered, Hands
    <2> QED
      BY <1>1, <1>2, <1>4, <2>2, SameAccount
  <1>5. CASE Hands(i) # {}
    <2>1. Cardinality(Hands(i)) \in Nat /\ Cardinality(Hands(i)) # 0
      BY <1>1, <1>5, FS_CardinalityType, FS_EmptySet DEF Accounted
    <2> QED
      BY <1>1, <1>2, <1>3, <2>1 DEF Accounted
  <1> QED
    BY <1>4, <1>5

LEMMA AccountStep ==
    TypeOK /\ PollInv /\ AccountInv /\ [Next]_vars => AccountInv'
  BY PollKinds, AccountQuiet, AccountRead, AccountMark, AccountClosed,
     AccountRestart
  DEF PollStep

LEMMA AccountInvariant == Spec => [](PollInv /\ AccountInv)
  <1>1. Init => PollInv /\ AccountInv
    <2> SUFFICES ASSUME Init PROVE PollInv /\ AccountInv
      OBVIOUS
    <2>1. PollInv
      BY DEF Init, APIInit, PollInv
    <2>2. ASSUME NEW i \in Items
          PROVE  Accounted(i)
      <3>1. Hands(i) = {}
        BY DEF Init, APIInit, Hands
      <3>2. RowStatus(i) = "absent"
        BY DEF Init, StoreInit, RowStatus, Items
      <3>3. starts[i] = 0 /\ assigns[i] = 0 /\ ~Offered(i)
        BY <3>2 DEF Init, Offered, OnRow
      <3> QED
        BY <3>1, <3>3, FS_EmptySet DEF Accounted
    <2> QED
      BY <2>1, <2>2 DEF AccountInv
  <1>2. TypeOK /\ PollInv /\ AccountInv /\ [Next]_vars => PollInv' /\ AccountInv'
    BY PollInvStep, AccountStep
  <1> QED
    BY <1>1, <1>2, TypeCorrect, PTL DEF Spec

\* Polls break off after some of their marks, are sent again and answered late,
\* tasks are retried and split again meanwhile: agents never start an item more
\* often than it has attempts.
THEOREM StartedOncePerAttemptHolds == Spec => []StartedOncePerAttempt
  <1>1. TypeOK /\ AccountInv /\ AssignedOncePerAttempt => StartedOncePerAttempt
    <2> SUFFICES ASSUME TypeOK, AccountInv, AssignedOncePerAttempt, NEW i \in Items
                 PROVE  starts[i] <= Attempts(i)
      BY DEF StartedOncePerAttempt
    <2>1. starts[i] \in Nat /\ assigns[i] \in Nat /\ starts[i] <= assigns[i]
      BY StartsGiven
    <2>2. Attempts(i) \in Nat
      BY TypeParts DEF StoreTypeOK, Attempts
    <2> QED
      BY <2>1, <2>2 DEF AssignedOncePerAttempt
  <1> QED
    BY <1>1, TypeCorrect, AccountInvariant, AssignedOncePerAttemptHolds, PTL

-----------------------------------------------------------------------------
(* What a handler, a row or a node still holds was once given or started. *)

HeldWasGiven ==
    /\ \A n \in Nodes : \A i \in abandoned[n] : assigns[i] > 0
    /\ \A t \in Tasks, n \in Nodes : assignedNode[t] = n => assigns[t] > 0
    /\ \A t \in mFail : assigns[t] > 0

DoneWasStarted ==
    /\ \A n \in Nodes, i \in Items : exec[n][i] > 0 => starts[i] > 0
    /\ \A c \in Chunks : chunkStatus[c] \in {"completed", "failed"} => starts[c] > 0

SplitNotGiven == \A t \in SplitTasks : assigns[t] = 0

WorkInv == HeldWasGiven /\ DoneWasStarted /\ SplitNotGiven

\* What an open poll holds is given once more often than it is started.
LEMMA BatchGiven ==
    ASSUME TypeOK, AccountInv, NEW n \in Nodes, NEW i \in Items, i \in batch[n]
    PROVE  starts[i] < assigns[i]
  <1>1. Accounted(i) /\ starts[i] \in Nat /\ assigns[i] \in Nat
    BY CountTypes DEF AccountInv
  <1>2. Cardinality(Hands(i)) \in Nat /\ Cardinality(Hands(i)) # 0
    BY <1>1, FS_CardinalityType, FS_EmptySet DEF Accounted, Hands
  <1> QED
    BY <1>1, <1>2 DEF Accounted

LEMMA CountsGrow ==
    ASSUME TypeOK, [Next]_vars, NEW i \in Items
    PROVE  /\ starts[i] \in Nat /\ assigns[i] \in Nat
           /\ starts'[i] \in Nat /\ assigns'[i] \in Nat
           /\ assigns'[i] >= assigns[i]
           /\ starts'[i] >= starts[i]
  <1>1. starts[i] \in Nat /\ assigns[i] \in Nat
    BY CountTypes
  <1>2. assigns'[i] \in Nat /\ assigns'[i] >= assigns[i]
    BY <1>1, AssignedOrFalls
  <1>3. starts' = starts \/ \E n \in Nodes : Served(n)
    BY RowSteps
    DEF RowStep, RowsKept, TaskWritten, ChunkWritten, RetryStep, historyVars
  <1>4. starts'[i] \in Nat /\ starts'[i] >= starts[i]
    BY <1>1, <1>3 DEF Served
  <1> QED
    BY <1>1, <1>2, <1>4

\* The reads and writes that leave nobody's attempts out.
LEMMA HeldStep ==
    ASSUME TypeOK, PollInv, AccountInv, HeldWasGiven, [Next]_vars
    PROVE  HeldWasGiven'
  <1>1. /\ \A i \in Items : assigns[i] > 0 => assigns'[i] > 0
        /\ \A t \in Tasks : t \in Items
    BY CountsGrow, CountTypes
  <1>2. APITypeOK /\ MonitorTypeOK /\ StoreTypeOK
    BY TypeParts
  <1>3. ASSUME NEW n \in Nodes, NEW i \in abandoned'[n]
        PROVE  assigns'[i] > 0
    <2>1. CASE i \in abandoned[n]
      BY <1>1, <1>2, <2>1 DEF HeldWasGiven, APITypeOK
    <2>2. CASE i \in batch[n]
      <3>1. i \in Items
        BY <1>2, <2>2 DEF APITypeOK
      <3>2. starts[i] \in Nat /\ assigns[i] \in Nat /\ assigns[i] > starts[i]
        BY <2>2, <3>1, BatchGiven, CountTypes
      <3> QED
        BY <1>1, <3>1, <3>2
    <2>3. abandoned'[n] \subseteq abandoned[n] \cup batch[n]
      <3>1. CASE PollsQuiet
        BY <3>1 DEF PollsQuiet
      <3>2. CASE Restart
        BY <3>2 DEF Restart
      <3>3. ASSUME NEW m \in Nodes, PollStep(m)
            PROVE  abandoned'[n] \subseteq abandoned[n] \cup batch[n]
        BY <1>2, <3>3
        DEF PollStep, PollReadTasks, PollReadChunks, PollMark, PollAbandon,
            PollClosed, PollInv, APITypeOK
      <3> QED
        BY <3>1, <3>2, <3>3, PollKinds
    <2> QED
      BY <1>3, <2>1, <2>2, <2>3
  <1>4. ASSUME NEW t \in Tasks, NEW n \in Nodes, assignedNode'[t] = n
        PROVE  assigns'[t] > 0
    <2>1. CASE assignedNode[t] = n
      BY <1>1, <2>1 DEF HeldWasGiven
    <2>2. CASE assigns'[t] = assigns[t] + 1
      BY <1>1, <2>2, CountTypes
    <2>3. assignedNode'[t] \in {assignedNode[t], NoNode} \/ assigns'[t] = assigns[t] + 1
      <3>1. CASE UNCHANGED assignedNode
        BY <3>1
      <3>2. ASSUME NEW u \in Tasks, NEW m \in Nodes, AssignTaskStep(u, m)
            PROVE  \/ assignedNode'[t] = assignedNode[t]
                   \/ assigns'[t] = assigns[t] + 1
        BY <1>1, <1>2, <3>2, CountTypes
        DEF AssignTaskStep, AssignTask, UpdateTaskAssignment, Counting, StoreTypeOK
      <3>3. ASSUME NEW u \in Tasks, RescheduleStep(u) \/ RetryStep(u)
            PROVE  assignedNode'[t] \in {assignedNode[t], NoNode}
        BY <1>2, <3>3
        DEF RescheduleStep, RescheduleTask, RetryStep, RetryWrite,
            IncrementTaskRetry, StoreTypeOK
      <3>4. ASSUME NEW d \in Chunks, NEW m \in Nodes, AssignChunkStep(d, m)
            PROVE  UNCHANGED assignedNode
        BY <3>4 DEF AssignChunkStep, AssignChunk, UpdateChunkAssignment, taskTable
      <3> QED
        BY <3>1, <3>2, <3>3, <3>4, StepKinds DEF QuietStep, StoreQuiet
    <2> QED
      BY <1>4, <2>1, <2>2, <2>3, StoreAssumptions
  <1>5. ASSUME NEW t \in mFail'
        PROVE  assigns'[t] > 0
    <2>1. CASE t \in mFail
      BY <1>1, <1>2, <2>1 DEF HeldWasGiven, MonitorTypeOK
    <2>2. ASSUME NEW n \in Nodes, ListNodeTasks(n)
          PROVE  assigns'[t] > 0
      BY <1>1, <1>5, <2>2 DEF ListNodeTasks, HeldWasGiven
    <2>3. mFail' \subseteq mFail \/ \E n \in Nodes : ListNodeTasks(n)
      BY StepKinds
      DEF QuietStep, AssignTaskStep, AssignChunkStep, RescheduleStep,
          RescheduleTask, RetryStep, monitorVars
    <2> QED
      BY <1>5, <2>1, <2>2, <2>3
  <1> QED
    BY <1>3, <1>4, <1>5 DEF HeldWasGiven

LEMMA StartedStep ==
    ASSUME TypeOK, DoneWasStarted, [Next]_vars
    PROVE  DoneWasStarted'
  <1>1. /\ \A i \in Items : starts[i] > 0 => starts'[i] > 0
        /\ \A c \in Chunks : c \in Items
    BY CountsGrow, CountTypes
  <1>2. ASSUME NEW n \in Nodes, NEW i \in Items, exec'[n][i] > 0
        PROVE  starts'[i] > 0
    BY <1>1, <1>2, ExecStep, CountTypes DEF ExecGrowsFromBatch, DoneWasStarted
  <1>3. ASSUME NEW c \in Chunks, chunkStatus'[c] \in {"completed", "failed"}
        PROVE  starts'[c] > 0
    <2>1. CASE chunkStatus[c] \in {"completed", "failed"}
      BY <1>1, <2>1 DEF DoneWasStarted
    <2>2. CASE Executing(c)
      BY <1>1, <2>2 DEF DoneWasStarted, Executing
    <2> QED
      BY <1>3, <2>1, <2>2, ChunkMoves DEF ChunkMove
  <1> QED
    BY <1>2, <1>3 DEF DoneWasStarted

LEMMA SplitStep ==
    ASSUME TypeOK, SplitNotGiven, [Next]_vars
    PROVE  SplitNotGiven'
  <1>1. CASE UNCHANGED assigns
    BY <1>1 DEF SplitNotGiven
  <1>2. ASSUME NEW u \in Tasks, NEW m \in Nodes, AssignTaskStep(u, m)
        PROVE  SplitNotGiven'
    BY <1>2, CountTypes
    DEF AssignTaskStep, AssignTask, Counting, SplitNotGiven
  <1>3. ASSUME NEW d \in Chunks, NEW m \in Nodes, AssignChunkStep(d, m)
        PROVE  SplitNotGiven'
    BY <1>3, CountTypes, TasksAreNotChunks, StoreAssumptions
    DEF AssignChunkStep, Counting, SplitNotGiven
  <1> QED
    BY <1>1, <1>2, <1>3, StepKinds
    DEF QuietStep, RescheduleStep, RetryStep, historyVars

LEMMA WorkStep ==
    TypeOK /\ PollInv /\ AccountInv /\ WorkInv /\ [Next]_vars => WorkInv'
  BY HeldStep, StartedStep, SplitStep DEF WorkInv

LEMMA WorkInit == Init => WorkInv
  <1> SUFFICES ASSUME Init PROVE WorkInv
    OBVIOUS
  <1>1. HeldWasGiven
    BY StoreAssumptions DEF Init, APIInit, StoreInit, MonitorInit, HeldWasGiven
  <1>2. DoneWasStarted
    BY DEF Init, AgentInit, StoreInit, DoneWasStarted
  <1>3. SplitNotGiven
    BY CountTypes, StoreAssumptions DEF Init, Items, SplitNotGiven
  <1> QED
    BY <1>1, <1>2, <1>3 DEF WorkInv

-----------------------------------------------------------------------------
(* What a row that says "running" stands for, while nothing is cut off. *)

\* The task is executed, or in a poll that its agent will receive.
OnItsWay(t) == \E n \in Nodes : exec[n][t] > 0 \/ t \in batch[n]

\* No agent is lost, and no handler marks what its agent will not receive.
NoneCutOff == \A n \in Nodes : agent[n] # "dead" /\ abandoned[n] = {}

RealInv == NoneCutOff /\ \A t \in Tasks : status[t] = "running" => OnItsWay(t)

\* What a step does to agents and polls when late heartbeats are the only fault.
PollsGrow ==
    /\ UNCHANGED <<exec, abandoned>>
    /\ \A n \in Nodes : batch[n] \subseteq batch'[n]
    /\ \A n \in Nodes : agent'[n] = agent[n] \/ agent'[n] = "up"

Reported(n, i) ==
    /\ Finished(n, i)
    /\ i \in Tasks => status'[i] # "running"
    /\ UNCHANGED <<batch, abandoned>>

LEMMA WholeSteps ==
    ASSUME TypeOK, PollInv, Faults \subseteq {"heartbeat"}, NoneCutOff, [Next]_vars
    PROVE  \/ PollsGrow
           \/ \E n \in Nodes : PollRespond(n)
           \/ \E n \in Nodes, i \in Items : Reported(n, i)
  <1>1. APITypeOK /\ AgentTypeOK /\ StoreTypeOK
    BY TypeParts
  <1>2. UNCHANGED <<agentVars, pollVars>> => PollsGrow
    BY DEF PollsGrow, agentVars, pollVars
  <1>3. CASE SchedulerNext \/ MonitorNext \/ OperatorNext \/ UNCHANGED vars
    BY <1>2, <1>3
    DEF SchedulerNext, MonitorNext, OperatorNext, HandleDeleteNode,
        HandleUpdateNodeStatus, HandleReserveNode, HandleUnreserveNode, vars,
        apiVars, pollVars
  <1>4. ASSUME NEW t \in Tasks,
               Submit(t) \/ Cancel(t) \/ Retry(t) \/ FinishRequest(t)
        PROVE  PollsGrow
    BY <1>2, <1>4
    DEF Submit, HandleSubmitTask, Cancel, CancelRead, Retry, RetryRead,
        FinishRequest, CancelWrite, RetryWrite, apiVars, pollVars
  <1>5. ASSUME NEW n \in Nodes, FinishPoll(n)
        PROVE  PollsGrow
    BY <1>1, <1>5
    DEF FinishPoll, PollReadChunks, PollMark, PollsGrow, agentVars, APITypeOK
  <1>6. ASSUME NEW n \in Nodes, FinishAbandoned(n) \/ DeadAgent(n)
        PROVE  FALSE
    BY <1>6
    DEF FinishAbandoned, AbandonedMark, MayMark, DeadAgent, NoneCutOff
  <1>7. ASSUME NEW n \in Nodes, Respond(n)
        PROVE  PollRespond(n)
    BY <1>7 DEF Respond
  <1>8. ASSUME NEW n \in Nodes, AgentStep(Join(n)) \/ AgentStep(Heartbeat(n))
        PROVE  PollsGrow
    BY <1>1, <1>8
    DEF AgentStep, Join, HandleNodeJoin, Heartbeat, PollsGrow, agentVars,
        apiVars, pollVars, AgentTypeOK
  <1>9. ASSUME NEW n \in Nodes, AgentStep(Poll(n))
        PROVE  PollsGrow
    BY <1>1, <1>9
    DEF AgentStep, Poll, PollReadTasks, PollsGrow, PollInv, agentVars, APITypeOK
  <1>10. ASSUME NEW n \in Nodes, NEW i \in Items, Report(n, i)
         PROVE  Reported(n, i)
    BY <1>1, <1>10, TasksAreNotChunks
    DEF Report, ReportTask, HandleTaskResult, UpdateTaskResult,
        UpdateTaskStatus, ReportChunk, HandleChunkResult, Reported, apiVars,
        pollVars, StoreTypeOK
  <1>11. ASSUME NEW c \in Chunks, FinishResult(c)
         PROVE  PollsGrow
    BY <1>2, <1>11 DEF FinishResult, CheckAllChunks, CompleteParent
  <1>12. CASE FaultNext
    BY <1>2, <1>12 DEF FaultNext, Lapse, apiVars, pollVars
  <1>13. CASE Restart
    BY <1>13 DEF Restart
  <1> QED
    BY <1>3, <1>4, <1>5, <1>6, <1>7, <1>8, <1>9, <1>10, <1>11, <1>12, <1>13
    DEF Next

LEMMA RealStep ==
    ASSUME TypeOK, PollInv, Faults \subseteq {"heartbeat"}, RealInv, [Next]_vars
    PROVE  RealInv'
  <1>1. APITypeOK /\ AgentTypeOK /\ StoreTypeOK
    BY TypeParts
  <1>2. NoneCutOff'
    BY <1>1, WholeSteps
    DEF RealInv, NoneCutOff, PollsGrow, PollRespond, Reported, Finished
  <1>3. ASSUME NEW t \in Tasks, status'[t] = "running"
        PROVE  OnItsWay(t)
    <2>1. status[t] = "running" \/ ToBeMarked(t)
      BY <1>3, TaskMoves DEF TaskMove, TaskReason
    <2>2. ToBeMarked(t) => OnItsWay(t)
      BY DEF ToBeMarked, OnItsWay, RealInv, NoneCutOff, PollInv
    <2> QED
      BY <2>1, <2>2 DEF RealInv
  <1>4. ASSUME NEW t \in Tasks, status'[t] = "running", OnItsWay(t)
        PROVE  OnItsWay(t)'
    <2>1. t \in Items
      BY DEF Items
    <2>2. CASE PollsGrow
      BY <1>4, <2>2 DEF PollsGrow, OnItsWay
    <2>3. ASSUME NEW n \in Nodes, PollRespond(n)
          PROVE  OnItsWay(t)'
      BY <1>1, <1>4, <2>1, <2>3
      DEF PollRespond, PollEnd, OnItsWay, APITypeOK, AgentTypeOK
    <2>4. ASSUME NEW n \in Nodes, NEW i \in Items, Reported(n, i)
          PROVE  OnItsWay(t)'
      <3>1. i # t
        BY <1>4, <2>4 DEF Reported
      <3>2. \A m \in Nodes : exec'[m][t] = exec[m][t]
        BY <1>1, <2>1, <2>4, <3>1 DEF Reported, Finished, AgentTypeOK
      <3> QED
        BY <1>4, <2>4, <3>2 DEF Reported, OnItsWay
    <2> QED
      BY <2>2, <2>3, <2>4, WholeSteps DEF RealInv
  <1> QED
    BY <1>2, <1>3, <1>4 DEF RealInv

\* As long as late heartbeats are the only fault, cancels and retries of clients
\* and of the monitor may overtake polls and results as they like: no task is
\* listed as running that is not executed or in a poll about to be answered.
THEOREM RunningIsRealHolds ==
    ASSUME Faults \subseteq {"heartbeat"}
    PROVE  Spec => []RunningIsReal
  <1>1. Init => RealInv
    BY DEF Init, StoreInit, APIInit, AgentInit, RealInv, NoneCutOff
  <1>2. TypeOK /\ PollInv /\ RealInv /\ [Next]_vars => RealInv'
    BY RealStep
  <1>3. RealInv => RunningIsReal
    BY DEF RealInv, OnItsWay, RunningIsReal
  <1> QED
    BY <1>1, <1>2, <1>3, TypeCorrect, AccountInvariant, PTL DEF Spec
=============================================================================
