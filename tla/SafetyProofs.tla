---------------------------- MODULE SafetyProofs ----------------------------
(***************************************************************************)
(* Type correctness and safety of Constellation for every value of its     *)
(* constants.  What the steps do to the rows is stated once (StepKinds);   *)
(* each invariant is then a case analysis over the five kinds of steps.    *)
(***************************************************************************)
EXTENDS Constellation, TLAPS

-----------------------------------------------------------------------------
(* Type correctness. *)

\* Chunks of the tasks that are split: the parent is one of them.
LEMMA ParentInTasks == \A c \in Chunks : Parent(c) \in SplitTasks /\ Parent(c) \in Tasks
  BY StoreAssumptions DEF Chunks, Parent

LEMMA TypeInit == Init => TypeOK
  BY StoreAssumptions
  DEF Init, TypeOK, StoreInit, StoreTypeOK, TaskStatuses, ChunkStatuses,
      NodeStatuses, SchedulerInit, SchedulerTypeOK, Phases, MonitorInit,
      MonitorTypeOK, APIInit, APITypeOK, PollPhases, AgentInit, AgentTypeOK

\* Every statement on tasks, on chunks and on nodes keeps the tables in their
\* types.
LEMMA TaskStatementTypes ==
    ASSUME StoreTypeOK, NEW t \in Tasks
    PROVE  /\ CreateTask(t) => StoreTypeOK'
           /\ \A s \in TaskStatuses : UpdateTaskStatus(t, s) => StoreTypeOK'
           /\ \A n \in Nodes : UpdateTaskAssignment(t, n) => StoreTypeOK'
           /\ \A e \in {0, 1} : UpdateTaskResult(t, e) => StoreTypeOK'
           /\ IncrementTaskRetry(t) => StoreTypeOK'
  <1> USE DEF StoreTypeOK, chunkTable, nodeTable
  <1>1. CreateTask(t) => StoreTypeOK'
    BY DEF CreateTask, TaskStatuses
  <1>2. \A s \in TaskStatuses : UpdateTaskStatus(t, s) => StoreTypeOK'
    BY DEF UpdateTaskStatus
  <1>3. \A n \in Nodes : UpdateTaskAssignment(t, n) => StoreTypeOK'
    BY DEF UpdateTaskAssignment, TaskStatuses
  <1>4. \A e \in {0, 1} : UpdateTaskResult(t, e) => StoreTypeOK'
    BY <1>2 DEF UpdateTaskResult, TaskStatuses, Terminal
  <1>5. IncrementTaskRetry(t) => StoreTypeOK'
    BY DEF IncrementTaskRetry, TaskStatuses
  <1> QED
    BY <1>1, <1>2, <1>3, <1>4, <1>5

LEMMA ChunkStatementTypes ==
    ASSUME StoreTypeOK, NEW c \in Chunks
    PROVE  /\ CreateTaskChunk(c) => StoreTypeOK'
           /\ \A s \in ChunkStatuses : UpdateChunkStatus(c, s) => StoreTypeOK'
           /\ \A n \in Nodes : UpdateChunkAssignment(c, n) => StoreTypeOK'
  <1> USE DEF StoreTypeOK, taskTable, chunkTable, nodeTable
  <1>1. CreateTaskChunk(c) => StoreTypeOK'
    BY DEF CreateTaskChunk, ChunkStatuses
  <1>2. \A s \in ChunkStatuses : UpdateChunkStatus(c, s) => StoreTypeOK'
    BY DEF UpdateChunkStatus
  <1>3. \A n \in Nodes : UpdateChunkAssignment(c, n) => StoreTypeOK'
    BY DEF UpdateChunkAssignment, ChunkStatuses
  <1> QED
    BY <1>1, <1>2, <1>3

LEMMA NodeStatementTypes ==
    ASSUME StoreTypeOK, NEW n \in Nodes
    PROVE  /\ RegisterNode(n) => StoreTypeOK'
           /\ \A s \in NodeStatuses : UpdateNodeStatus(n, s) => StoreTypeOK'
           /\ UpdateNodeHeartbeat(n) => StoreTypeOK'
           /\ DeleteNode(n) => StoreTypeOK'
           /\ HeartbeatExpires(n) => StoreTypeOK'
  <1> USE DEF StoreTypeOK, taskTable, chunkTable, nodeTable
  <1>1. RegisterNode(n) => StoreTypeOK'
    BY DEF RegisterNode, NodeStatuses
  <1>2. \A s \in NodeStatuses : UpdateNodeStatus(n, s) => StoreTypeOK'
    BY DEF UpdateNodeStatus
  <1>3. UpdateNodeHeartbeat(n) => StoreTypeOK'
    BY DEF UpdateNodeHeartbeat, NodeStatuses
  <1>4. DeleteNode(n) => StoreTypeOK'
    BY DEF DeleteNode, NodeStatuses
  <1>5. HeartbeatExpires(n) => StoreTypeOK'
    BY DEF HeartbeatExpires
  <1> QED
    BY <1>1, <1>2, <1>3, <1>4, <1>5

\* The history counters, which most steps leave alone.
HistoryTypeOK ==
    /\ assigns \in [Items -> Nat]
    /\ starts \in [Items -> Nat]
    /\ autoRetries \in [Tasks -> Nat]
    /\ manual \in [Tasks -> Nat]

\* TypeOK by component.
LEMMA TypeParts ==
    TypeOK <=> /\ StoreTypeOK /\ SchedulerTypeOK /\ MonitorTypeOK
               /\ APITypeOK /\ AgentTypeOK /\ HistoryTypeOK
  BY DEF TypeOK, HistoryTypeOK

\* The same of the next state.
LEMMA TypePartsNext ==
    /\ StoreTypeOK' /\ SchedulerTypeOK' /\ MonitorTypeOK'
    /\ APITypeOK' /\ AgentTypeOK' /\ HistoryTypeOK'
    => TypeOK'
  BY DEF TypeOK, HistoryTypeOK

\* A step of one component leaves the others' types alone.
LEMMA UnchangedTypes ==
    /\ StoreTypeOK /\ UNCHANGED storeVars => StoreTypeOK'
    /\ SchedulerTypeOK /\ UNCHANGED schedulerVars => SchedulerTypeOK'
    /\ MonitorTypeOK /\ UNCHANGED monitorVars => MonitorTypeOK'
    /\ APITypeOK /\ UNCHANGED apiVars => APITypeOK'
    /\ AgentTypeOK /\ UNCHANGED agentVars => AgentTypeOK'
    /\ HistoryTypeOK /\ UNCHANGED historyVars => HistoryTypeOK'
  BY DEF storeVars, taskTable, chunkTable, nodeTable, schedulerVars,
         monitorVars, apiVars, pollVars, resultVars, agentVars, historyVars,
         StoreTypeOK, SchedulerTypeOK, MonitorTypeOK, APITypeOK, AgentTypeOK,
         HistoryTypeOK

LEMMA SchedulerType == TypeOK /\ SchedulerNext => TypeOK'
  <1> SUFFICES ASSUME TypeOK, SchedulerNext PROVE TypeOK'
    OBVIOUS
  <1>0. /\ StoreTypeOK /\ SchedulerTypeOK /\ MonitorTypeOK
        /\ APITypeOK /\ AgentTypeOK /\ HistoryTypeOK
    BY TypeParts
  <1>1. MonitorTypeOK' /\ APITypeOK' /\ AgentTypeOK'
    BY <1>0, UnchangedTypes DEF SchedulerNext
  <1>2. UNCHANGED <<starts, autoRetries, manual>>
    BY DEF SchedulerNext
  <1>3. CASE SchedulerQuietStep /\ UNCHANGED assigns
    <2>1. HistoryTypeOK'
      BY <1>0, <1>2, <1>3 DEF HistoryTypeOK
    <2>2. ASSUME StoreTypeOK', SchedulerTypeOK'
          PROVE  TypeOK'
      BY <1>1, <2>1, <2>2, TypePartsNext
    <2>3. CASE ReadQueuedTasks
      <3>1. StoreTypeOK'
        BY <1>0, <2>3, UnchangedTypes DEF ReadQueuedTasks
      <3>2. SchedulerTypeOK'
        BY <1>0, <2>3
        DEF ReadQueuedTasks, GetQueuedTasks, SchedulerTypeOK, Phases
      <3> QED
        BY <2>2, <3>1, <3>2
    <2>4. CASE ReadQueuedChunks
      <3>1. StoreTypeOK'
        BY <1>0, <2>4, UnchangedTypes DEF ReadQueuedChunks
      <3>2. SchedulerTypeOK'
        BY <1>0, <2>4
        DEF ReadQueuedChunks, GetQueuedChunks, SchedulerTypeOK, Phases
      <3> QED
        BY <2>2, <3>1, <3>2
    <2>5. CASE ReadOnlineNodes
      <3>1. StoreTypeOK'
        BY <1>0, <2>5, UnchangedTypes DEF ReadOnlineNodes
      <3>2. SchedulerTypeOK'
        BY <1>0, <2>5
        DEF ReadOnlineNodes, Continue, GetOnlineWorkerNodes, SchedulerTypeOK,
            Phases
      <3> QED
        BY <2>2, <3>1, <3>2
    <2>6. ASSUME NEW t \in Tasks, LeaveTaskQueued(t)
          PROVE  TypeOK'
      <3>1. StoreTypeOK'
        BY <1>0, <2>6, UnchangedTypes DEF LeaveTaskQueued
      <3>2. SchedulerTypeOK'
        BY <1>0, <2>6 DEF LeaveTaskQueued, Continue, SchedulerTypeOK, Phases
      <3> QED
        BY <2>2, <3>1, <3>2
    <2>7. ASSUME NEW t \in Tasks, FailSplit(t)
          PROVE  TypeOK'
      <3>1. StoreTypeOK'
        BY <1>0, <2>7, TaskStatementTypes DEF FailSplit
      <3>2. SchedulerTypeOK'
        BY <1>0, <2>7 DEF FailSplit, Continue, SchedulerTypeOK, Phases
      <3> QED
        BY <2>2, <3>1, <3>2
    <2>8. ASSUME NEW t \in Tasks, EndSplit(t)
          PROVE  TypeOK'
      <3>1. StoreTypeOK'
        BY <1>0, <2>8, TaskStatementTypes DEF EndSplit, TaskStatuses
      <3>2. SchedulerTypeOK'
        BY <1>0, <2>8 DEF EndSplit, Continue, SchedulerTypeOK, Phases
      <3> QED
        BY <2>2, <3>1, <3>2
    <2>9. ASSUME NEW t \in SplitTasks, NEW k \in 0..MaxChunks, BeginSplit(t, k)
          PROVE  TypeOK'
      <3>1. {t} \X (1..k) \subseteq Chunks
        BY StoreAssumptions DEF Chunks
      <3>2. StoreTypeOK'
        BY <1>0, <2>9, UnchangedTypes DEF BeginSplit
      <3>3. SchedulerTypeOK'
        BY <1>0, <2>9, <3>1 DEF BeginSplit, SchedulerTypeOK
      <3> QED
        BY <2>2, <3>2, <3>3
    <2>10. ASSUME NEW c \in Chunks, CreateChunk(c)
           PROVE  TypeOK'
      <3>1. StoreTypeOK'
        BY <1>0, <2>10, ChunkStatementTypes DEF CreateChunk
      <3>2. SchedulerTypeOK'
        BY <1>0, <2>10 DEF CreateChunk, SchedulerTypeOK
      <3> QED
        BY <2>2, <3>1, <3>2
    <2>11. ASSUME NEW c \in Chunks, LeaveChunkQueued(c)
           PROVE  TypeOK'
      <3>1. StoreTypeOK'
        BY <1>0, <2>11, UnchangedTypes DEF LeaveChunkQueued
      <3>2. SchedulerTypeOK'
        BY <1>0, <2>11 DEF LeaveChunkQueued, Continue, SchedulerTypeOK, Phases
      <3> QED
        BY <2>2, <3>1, <3>2
    <2> QED
      BY <1>3, <2>3, <2>4, <2>5, <2>6, <2>7, <2>8, <2>9, <2>10, <2>11
      DEF SchedulerQuietStep
  <1>4. ASSUME NEW t \in Tasks, NEW n \in Nodes, AssignTask(t, n),
               assigns' = Counting(assigns, t, ~Refused(n))
        PROVE  TypeOK'
    <2>1. StoreTypeOK'
      BY <1>0, <1>4, TaskStatementTypes DEF AssignTask
    <2>2. SchedulerTypeOK'
      BY <1>0, <1>4 DEF AssignTask, Continue, SchedulerTypeOK, Phases
    <2>3. HistoryTypeOK'
      BY <1>0, <1>2, <1>4 DEF Counting, HistoryTypeOK, Items
    <2> QED
      BY <1>1, <2>1, <2>2, <2>3, TypePartsNext
  <1>5. ASSUME NEW c \in Chunks, NEW n \in Nodes, AssignChunk(c, n),
               assigns' = Counting(assigns, c, ~Refused(n))
        PROVE  TypeOK'
    <2>1. StoreTypeOK'
      BY <1>0, <1>5, ChunkStatementTypes DEF AssignChunk
    <2>2. SchedulerTypeOK'
      BY <1>0, <1>5 DEF AssignChunk, Continue, SchedulerTypeOK, Phases
    <2>3. HistoryTypeOK'
      BY <1>0, <1>2, <1>5 DEF Counting, HistoryTypeOK, Items
    <2> QED
      BY <1>1, <2>1, <2>2, <2>3, TypePartsNext
  <1> QED
    BY <1>3, <1>4, <1>5 DEF SchedulerNext

LEMMA MonitorType == TypeOK /\ MonitorNext => TypeOK'
  <1> SUFFICES ASSUME TypeOK, MonitorNext PROVE TypeOK'
    OBVIOUS
  <1>0. /\ StoreTypeOK /\ SchedulerTypeOK /\ MonitorTypeOK
        /\ APITypeOK /\ AgentTypeOK /\ HistoryTypeOK
    BY TypeParts
  <1>1. SchedulerTypeOK' /\ APITypeOK' /\ AgentTypeOK'
    BY <1>0, UnchangedTypes DEF MonitorNext
  <1>2. UNCHANGED <<assigns, starts, manual>>
    BY DEF MonitorNext
  <1>3. CASE MonitorQuietStep /\ UNCHANGED autoRetries
    <2>1. HistoryTypeOK'
      BY <1>0, <1>2, <1>3 DEF HistoryTypeOK
    <2>2. ASSUME StoreTypeOK', MonitorTypeOK'
          PROVE  TypeOK'
      BY <1>1, <2>1, <2>2, TypePartsNext
    <2>3. CASE CheckHeartbeats
      <3>1. StoreTypeOK'
        BY <1>0, <2>3, UnchangedTypes DEF CheckHeartbeats
      <3>2. MonitorTypeOK'
        BY <1>0, <2>3 DEF CheckHeartbeats, MonitorTypeOK
      <3> QED
        BY <2>2, <3>1, <3>2
    <2>4. ASSUME NEW n \in Nodes, MarkOffline(n)
          PROVE  TypeOK'
      <3>1. StoreTypeOK'
        BY <1>0, <2>4, NodeStatementTypes DEF MarkOffline, NodeStatuses
      <3>2. MonitorTypeOK'
        BY <1>0, <2>4 DEF MarkOffline, MonitorTypeOK
      <3> QED
        BY <2>2, <3>1, <3>2
    <2>5. ASSUME NEW n \in Nodes, ListNodeTasks(n)
          PROVE  TypeOK'
      <3>1. StoreTypeOK'
        BY <1>0, <2>5, UnchangedTypes DEF ListNodeTasks
      <3>2. MonitorTypeOK'
        BY <1>0, <2>5 DEF ListNodeTasks, MonitorTypeOK
      <3> QED
        BY <2>2, <3>1, <3>2
    <2>6. ASSUME NEW t \in Tasks, FailTask(t)
          PROVE  TypeOK'
      <3>1. StoreTypeOK'
        BY <1>0, <2>6, TaskStatementTypes DEF FailTask
      <3>2. MonitorTypeOK'
        BY <1>0, <2>6 DEF FailTask, MonitorTypeOK
      <3> QED
        BY <2>2, <3>1, <3>2
    <2> QED
      BY <1>3, <2>3, <2>4, <2>5, <2>6 DEF MonitorQuietStep
  <1>4. ASSUME NEW t \in Tasks, RescheduleTask(t),
               autoRetries' = Counting(autoRetries, t, ~Refused(NoNode))
        PROVE  TypeOK'
    <2>1. StoreTypeOK'
      BY <1>0, <1>4, TaskStatementTypes DEF RescheduleTask
    <2>2. MonitorTypeOK'
      BY <1>0, <1>4 DEF RescheduleTask, MonitorTypeOK
    <2>3. HistoryTypeOK'
      BY <1>0, <1>2, <1>4 DEF Counting, HistoryTypeOK
    <2> QED
      BY <1>1, <2>1, <2>2, <2>3, TypePartsNext
  <1> QED
    BY <1>3, <1>4 DEF MonitorNext

\* The steps of the handlers, the agents and the operators leave the
\* scheduler's and the monitor's variables alone.
LEMMA OthersType ==
    ASSUME TypeOK, UNCHANGED <<schedulerVars, monitorVars>>,
           StoreTypeOK', APITypeOK', AgentTypeOK', HistoryTypeOK'
    PROVE  TypeOK'
  <1>1. SchedulerTypeOK' /\ MonitorTypeOK'
    BY TypeParts, UnchangedTypes
  <1> QED
    BY <1>1, TypePartsNext

\* The requests of clients.
LEMMA ClientType ==
    ASSUME TypeOK, NEW t \in Tasks,
           Submit(t) \/ Cancel(t) \/ Retry(t) \/ FinishRequest(t)
    PROVE  TypeOK'
  <1>0. StoreTypeOK /\ APITypeOK /\ AgentTypeOK /\ HistoryTypeOK
    BY TypeParts
  <1>1. UNCHANGED <<schedulerVars, monitorVars>> /\ AgentTypeOK'
    BY <1>0, UnchangedTypes DEF Submit, Cancel, Retry, FinishRequest
  <1>2. CASE Submit(t)
    <2>1. StoreTypeOK'
      BY <1>0, <1>2, TaskStatementTypes DEF Submit, HandleSubmitTask
    <2>2. APITypeOK' /\ HistoryTypeOK'
      BY <1>0, <1>2, UnchangedTypes DEF Submit, HandleSubmitTask
    <2> QED
      BY <1>1, <2>1, <2>2, OthersType
  <1>3. CASE Cancel(t)
    <2>1. StoreTypeOK' /\ HistoryTypeOK'
      BY <1>0, <1>3, UnchangedTypes DEF Cancel, CancelRead
    <2>2. APITypeOK'
      BY <1>0, <1>3
      DEF Cancel, CancelRead, APITypeOK, pollVars, resultVars
    <2> QED
      BY <1>1, <2>1, <2>2, OthersType
  <1>4. CASE Retry(t)
    <2>1. StoreTypeOK'
      BY <1>0, <1>4, UnchangedTypes DEF Retry, RetryRead
    <2>2. HistoryTypeOK'
      BY <1>0, <1>4 DEF Retry, HistoryTypeOK
    <2>3. APITypeOK'
      BY <1>0, <1>4 DEF Retry, RetryRead, APITypeOK, pollVars, resultVars
    <2> QED
      BY <1>1, <2>1, <2>2, <2>3, OthersType
  <1>5. CASE FinishRequest(t)
    <2>1. HistoryTypeOK'
      BY <1>0, <1>5, UnchangedTypes DEF FinishRequest
    <2>2. StoreTypeOK'
      BY <1>0, <1>5, TaskStatementTypes
      DEF FinishRequest, CancelWrite, RetryWrite, TaskStatuses, Terminal
    <2>3. ASSUME CancelWrite(t) PROVE APITypeOK'
      BY <1>0, <2>3
      DEF CancelWrite, APITypeOK, pollVars, resultVars
    <2>4. ASSUME RetryWrite(t) PROVE APITypeOK'
      BY <1>0, <2>4
      DEF RetryWrite, APITypeOK, pollVars, resultVars
    <2>5. APITypeOK'
      BY <1>5, <2>3, <2>4 DEF FinishRequest
    <2> QED
      BY <1>1, <2>1, <2>2, <2>5, OthersType
  <1> QED
    BY <1>2, <1>3, <1>4, <1>5

\* Marking an item as running.
LEMMA MarkType ==
    ASSUME StoreTypeOK, NEW i \in Items, MarkRunning(i)
    PROVE  StoreTypeOK'
  <1>1. CASE i \in Tasks
    BY <1>1, TaskStatementTypes DEF MarkRunning, TaskStatuses
  <1>2. CASE i \notin Tasks
    BY <1>2, ChunkStatementTypes DEF MarkRunning, Items, ChunkStatuses
  <1> QED
    BY <1>1, <1>2

\* The steps of a node's poll handlers.
LEMMA PollType ==
    ASSUME TypeOK, NEW n \in Nodes, FinishPoll(n) \/ FinishAbandoned(n)
    PROVE  TypeOK'
  <1>0. StoreTypeOK /\ APITypeOK /\ AgentTypeOK /\ HistoryTypeOK
    BY TypeParts
  <1>1. /\ UNCHANGED <<schedulerVars, monitorVars>>
        /\ AgentTypeOK' /\ HistoryTypeOK'
    BY <1>0, UnchangedTypes DEF FinishPoll, FinishAbandoned
  <1>2. CASE PollReadChunks(n)
    <2>1. StoreTypeOK'
      BY <1>0, <1>2, UnchangedTypes DEF PollReadChunks
    <2>2. batch' \in [Nodes -> SUBSET Items]
      BY <1>0, <1>2
      DEF PollReadChunks, APITypeOK, GetPendingChunksForNode, Items
    <2>3. APITypeOK'
      BY <1>0, <1>2, <2>2
      DEF PollReadChunks, APITypeOK, PollPhases, resultVars
    <2> QED
      BY <1>1, <2>1, <2>3, OthersType
  <1>3. ASSUME NEW i \in Items, PollMark(n, i)
        PROVE  TypeOK'
    <2>1. StoreTypeOK'
      BY <1>0, <1>3, MarkType DEF PollMark
    <2>2. APITypeOK'
      BY <1>0, <1>3 DEF PollMark, APITypeOK, resultVars
    <2> QED
      BY <1>1, <2>1, <2>2, OthersType
  <1>4. ASSUME NEW i \in Items, AbandonedMark(n, i)
        PROVE  TypeOK'
    <2>1. StoreTypeOK'
      BY <1>0, <1>4, MarkType DEF AbandonedMark
    <2>2. APITypeOK'
      BY <1>0, <1>4 DEF AbandonedMark, APITypeOK, resultVars
    <2> QED
      BY <1>1, <2>1, <2>2, OthersType
  <1> QED
    BY <1>2, <1>3, <1>4 DEF FinishPoll, FinishAbandoned

\* The end of a poll, answered or not.
LEMMA PollEndType ==
    ASSUME APITypeOK, NEW n \in Nodes, PollEnd(n),
           UNCHANGED <<cancelling, retrying, unmarked, abandoned, resultVars>>
    PROVE  APITypeOK'
  BY DEF APITypeOK, PollEnd, PollPhases, resultVars

LEMMA UnansweredType ==
    ASSUME TypeOK, NEW n \in Nodes, PollUnanswered(n),
           UNCHANGED <<schedulerVars, monitorVars, historyVars>>
    PROVE  TypeOK'
  <1>0. StoreTypeOK /\ APITypeOK /\ AgentTypeOK /\ HistoryTypeOK
    BY TypeParts
  <1>1. StoreTypeOK' /\ AgentTypeOK' /\ HistoryTypeOK'
    BY <1>0, UnchangedTypes DEF PollUnanswered
  <1>2. APITypeOK'
    BY <1>0, PollEndType DEF PollUnanswered
  <1> QED
    BY <1>1, <1>2, OthersType

LEMMA LapseType ==
    ASSUME TypeOK, NEW n \in Nodes, Lapse(n),
           UNCHANGED <<schedulerVars, monitorVars, historyVars>>
    PROVE  TypeOK'
  <1>0. StoreTypeOK /\ APITypeOK /\ AgentTypeOK /\ HistoryTypeOK
    BY TypeParts
  <1>1. StoreTypeOK'
    BY <1>0, NodeStatementTypes DEF Lapse
  <1>2. APITypeOK' /\ AgentTypeOK' /\ HistoryTypeOK'
    BY <1>0, UnchangedTypes DEF Lapse
  <1> QED
    BY <1>1, <1>2, OthersType

\* The steps of a node's agent, dead or alive, and its reports.
LEMMA AgentsType ==
    ASSUME TypeOK, NEW n \in Nodes,
           \/ Respond(n) \/ DeadAgent(n)
           \/ AgentStep(Join(n)) \/ AgentStep(Heartbeat(n)) \/ AgentStep(Poll(n))
    PROVE  TypeOK'
  <1>0. StoreTypeOK /\ APITypeOK /\ AgentTypeOK /\ HistoryTypeOK
    BY TypeParts
  <1>1. CASE Respond(n)
    <2>1. StoreTypeOK'
      BY <1>0, <1>1, UnchangedTypes DEF Respond, PollRespond
    <2>2. APITypeOK'
      BY <1>0, <1>1, PollEndType DEF Respond, PollRespond
    <2>3. AgentTypeOK'
      BY <1>0, <1>1 DEF Respond, PollRespond, AgentTypeOK
    <2>4. HistoryTypeOK'
      BY <1>0, <1>1 DEF Respond, HistoryTypeOK
    <2> QED
      BY <1>1, <2>1, <2>2, <2>3, <2>4, OthersType DEF Respond
  <1>2. CASE DeadAgent(n)
    BY <1>2, LapseType, UnansweredType DEF DeadAgent
  <1>3. CASE AgentStep(Join(n))
    <2>1. StoreTypeOK'
      BY <1>0, <1>3, NodeStatementTypes DEF AgentStep, Join, HandleNodeJoin
    <2>2. APITypeOK' /\ HistoryTypeOK'
      BY <1>0, <1>3, UnchangedTypes DEF AgentStep, Join, HandleNodeJoin
    <2>3. AgentTypeOK'
      BY <1>0, <1>3 DEF AgentStep, Join, AgentTypeOK
    <2> QED
      BY <1>3, <2>1, <2>2, <2>3, OthersType DEF AgentStep
  <1>4. CASE AgentStep(Heartbeat(n))
    <2>1. StoreTypeOK'
      BY <1>0, <1>4, NodeStatementTypes DEF AgentStep, Heartbeat
    <2>2. APITypeOK' /\ AgentTypeOK' /\ HistoryTypeOK'
      BY <1>0, <1>4, UnchangedTypes DEF AgentStep, Heartbeat
    <2> QED
      BY <1>4, <2>1, <2>2, OthersType DEF AgentStep
  <1>5. CASE AgentStep(Poll(n))
    <2>1. StoreTypeOK' /\ AgentTypeOK' /\ HistoryTypeOK'
      BY <1>0, <1>5, UnchangedTypes DEF AgentStep, Poll, PollReadTasks
    <2>2. APITypeOK'
      BY <1>0, <1>5
      DEF AgentStep, Poll, PollReadTasks, APITypeOK, PollPhases,
          GetPendingTasksForNode, Items, resultVars
    <2> QED
      BY <1>5, <2>1, <2>2, OthersType DEF AgentStep
  <1> QED
    BY <1>1, <1>2, <1>3, <1>4, <1>5

LEMMA ReportType ==
    ASSUME TypeOK, NEW n \in Nodes, NEW i \in Items, Report(n, i)
    PROVE  TypeOK'
  <1>0. StoreTypeOK /\ APITypeOK /\ AgentTypeOK /\ HistoryTypeOK
    BY TypeParts
  <1>1. HistoryTypeOK'
    BY <1>0, UnchangedTypes DEF Report
  <1>2. ASSUME Finished(n, i)
        PROVE  AgentTypeOK'
    BY <1>0, <1>2 DEF Finished, AgentTypeOK
  <1>3. ASSUME i \in Tasks, NEW exitCode \in {0, 1}, ReportTask(n, i, exitCode)
        PROVE  TypeOK'
    <2>1. StoreTypeOK'
      BY <1>0, <1>3, TaskStatementTypes DEF ReportTask, HandleTaskResult
    <2>2. APITypeOK' /\ AgentTypeOK'
      BY <1>0, <1>2, <1>3, UnchangedTypes DEF ReportTask, HandleTaskResult
    <2> QED
      BY <1>1, <2>1, <2>2, OthersType DEF Report
  <1>4. ASSUME i \in Chunks, NEW s \in {"completed", "failed"},
               ReportChunk(n, i, s)
        PROVE  TypeOK'
    <2>1. StoreTypeOK'
      BY <1>0, <1>4, ChunkStatementTypes
      DEF ReportChunk, HandleChunkResult, ChunkStatuses
    <2>2. AgentTypeOK'
      BY <1>2, <1>4 DEF ReportChunk
    <2>3. APITypeOK'
      BY <1>0, <1>4
      DEF ReportChunk, HandleChunkResult, APITypeOK, pollVars
    <2> QED
      BY <1>1, <2>1, <2>2, <2>3, OthersType DEF Report
  <1> QED
    BY <1>3, <1>4 DEF Report

\* The later steps of a chunk's result handler.
LEMMA ResultType ==
    ASSUME TypeOK, NEW c \in Chunks, FinishResult(c)
    PROVE  TypeOK'
  <1>0. StoreTypeOK /\ APITypeOK /\ AgentTypeOK /\ HistoryTypeOK
    BY TypeParts
  <1>1. AgentTypeOK' /\ HistoryTypeOK'
    BY <1>0, UnchangedTypes DEF FinishResult
  <1>2. CASE CheckAllChunks(c)
    <2>1. StoreTypeOK'
      BY <1>0, <1>2, UnchangedTypes DEF CheckAllChunks
    <2>2. APITypeOK'
      BY <1>0, <1>2 DEF CheckAllChunks, APITypeOK, pollVars
    <2> QED
      BY <1>1, <2>1, <2>2, OthersType DEF FinishResult
  <1>3. CASE CompleteParent(c)
    <2>1. StoreTypeOK'
      BY <1>0, <1>3, ParentInTasks, TaskStatementTypes DEF CompleteParent
    <2>2. APITypeOK'
      BY <1>0, <1>3 DEF CompleteParent, APITypeOK, pollVars
    <2> QED
      BY <1>1, <2>1, <2>2, OthersType DEF FinishResult
  <1> QED
    BY <1>2, <1>3 DEF FinishResult

LEMMA FaultType == TypeOK /\ FaultNext => TypeOK'
  <1> SUFFICES ASSUME TypeOK, FaultNext PROVE TypeOK'
    OBVIOUS
  <1>0. StoreTypeOK /\ APITypeOK /\ AgentTypeOK /\ HistoryTypeOK
    BY TypeParts
  <1>1. UNCHANGED <<schedulerVars, monitorVars, historyVars>>
    BY DEF FaultNext
  <1>2. HistoryTypeOK'
    BY <1>0, <1>1, UnchangedTypes
  <1>3. ASSUME NEW n \in Nodes, JoinUnanswered(n)
        PROVE  TypeOK'
    <2>1. StoreTypeOK'
      BY <1>0, <1>3, NodeStatementTypes DEF JoinUnanswered, HandleNodeJoin
    <2>2. APITypeOK'
      BY <1>0, <1>3, UnchangedTypes DEF JoinUnanswered, HandleNodeJoin
    <2>3. AgentTypeOK'
      BY <1>0, <1>3 DEF JoinUnanswered, AgentTypeOK
    <2> QED
      BY <1>1, <1>2, <2>1, <2>2, <2>3, OthersType
  <1>4. ASSUME NEW n \in Nodes, PollAbandon(n), UNCHANGED agentVars
        PROVE  TypeOK'
    <2>1. StoreTypeOK' /\ AgentTypeOK'
      BY <1>0, <1>4, UnchangedTypes DEF PollAbandon
    <2>2. APITypeOK'
      BY <1>0, <1>4 DEF PollAbandon, PollEnd, APITypeOK, PollPhases, resultVars
    <2> QED
      BY <1>1, <1>2, <2>1, <2>2, OthersType
  <1>5. ASSUME NEW n \in Nodes, NEW i \in Items, ResultLost(n, i)
        PROVE  TypeOK'
    <2>1. StoreTypeOK' /\ APITypeOK'
      BY <1>0, <1>5, UnchangedTypes DEF ResultLost
    <2>2. AgentTypeOK'
      BY <1>0, <1>5 DEF ResultLost, Finished, AgentTypeOK
    <2> QED
      BY <1>1, <1>2, <2>1, <2>2, OthersType
  <1>6. ASSUME NEW n \in Nodes, Die(n)
        PROVE  TypeOK'
    <2>1. StoreTypeOK' /\ APITypeOK'
      BY <1>0, <1>6, UnchangedTypes DEF Die
    <2>2. AgentTypeOK'
      BY <1>0, <1>6 DEF Die, AgentTypeOK
    <2> QED
      BY <1>1, <1>2, <2>1, <2>2, OthersType
  <1> QED
    BY <1>1, <1>3, <1>4, <1>5, <1>6, LapseType, UnansweredType
    DEF FaultNext, Disconnect

LEMMA RestartType == TypeOK /\ Restart => TypeOK'
  <1> SUFFICES ASSUME TypeOK, Restart PROVE TypeOK'
    OBVIOUS
  <1>1. StoreTypeOK' /\ AgentTypeOK' /\ HistoryTypeOK'
    BY TypeParts, UnchangedTypes DEF Restart
  <1>2. SchedulerTypeOK' /\ MonitorTypeOK' /\ APITypeOK'
    BY DEF Restart, SchedulerTypeOK, Phases, MonitorTypeOK, APITypeOK, PollPhases
  <1> QED
    BY <1>1, <1>2, TypePartsNext

LEMMA OperatorType == TypeOK /\ OperatorNext => TypeOK'
  <1> SUFFICES ASSUME TypeOK, OperatorNext PROVE TypeOK'
    OBVIOUS
  <1>0. StoreTypeOK /\ APITypeOK /\ AgentTypeOK /\ HistoryTypeOK
    BY TypeParts
  <1>1. APITypeOK' /\ AgentTypeOK' /\ HistoryTypeOK'
    BY <1>0, UnchangedTypes
    DEF OperatorNext, HandleDeleteNode, HandleUpdateNodeStatus,
        HandleReserveNode, HandleUnreserveNode
  <1>2. StoreTypeOK'
    BY <1>0, NodeStatementTypes
    DEF OperatorNext, HandleDeleteNode, HandleUpdateNodeStatus,
        HandleReserveNode, HandleUnreserveNode, NodeStatuses
  <1> QED
    BY <1>1, <1>2, OthersType DEF OperatorNext

LEMMA StutterType == TypeOK /\ UNCHANGED vars => TypeOK'
  BY TypeParts, TypePartsNext, UnchangedTypes DEF vars

LEMMA TypeStep == TypeOK /\ [Next]_vars => TypeOK'
  BY SchedulerType, MonitorType, ClientType, PollType, AgentsType, ReportType,
     ResultType, FaultType, RestartType, OperatorType, StutterType
  DEF Next

\* Every execution keeps every column, snapshot and handler in its domain,
\* whatever the tasks, nodes, faults and requests.
THEOREM TypeCorrect == Spec => []TypeOK
  <1>1. Init => TypeOK
    BY TypeInit
  <1>2. TypeOK /\ [Next]_vars => TypeOK'
    BY TypeStep
  <1> QED
    BY <1>1, <1>2, PTL DEF Spec

-----------------------------------------------------------------------------
(* What a step does to the rows. *)

Untaken == {"absent", "queued"}
Unwritten == Untaken \cup {"scheduled"}  \* no plain status update writes these

\* Rows keep their node and their retries; none comes to be scheduled, none
\* goes, and none comes to be queued that was not, or was absent.
StoreQuiet ==
    /\ UNCHANGED <<assignedNode, retryCount, chunkNode>>
    /\ \A t \in Tasks :
          /\ status'[t] \in Untaken => status[t] \in Untaken
          /\ \A s \in {"absent", "scheduled"} : status'[t] = s => status[t] = s
    /\ \A c \in Chunks :
          /\ chunkStatus'[c] \in Untaken => chunkStatus[c] \in Untaken
          /\ \A s \in {"absent", "scheduled"} :
                chunkStatus'[c] = s => chunkStatus[c] = s

\* The scheduler's lists grow by queued rows only.
SnapshotsGrowQueued ==
    /\ sTasks' \subseteq sTasks \cup GetQueuedTasks
    /\ sChunks' \subseteq sChunks \cup GetQueuedChunks

QuietStep ==
    /\ StoreQuiet
    /\ SnapshotsGrowQueued
    /\ UNCHANGED <<assigns, autoRetries>>
    /\ \/ mRetry' \subseteq mRetry /\ mFail' \subseteq mFail
       \/ \E n \in Nodes : ListNodeTasks(n)

AssignTaskStep(t, n) ==
    /\ AssignTask(t, n)
    /\ assigns' = Counting(assigns, t, ~Refused(n))
    /\ UNCHANGED <<monitorVars, autoRetries>>

AssignChunkStep(c, n) ==
    /\ AssignChunk(c, n)
    /\ assigns' = Counting(assigns, c, ~Refused(n))
    /\ UNCHANGED <<monitorVars, autoRetries>>

RescheduleStep(t) ==
    /\ RescheduleTask(t)
    /\ autoRetries' = Counting(autoRetries, t, ~Refused(NoNode))
    /\ UNCHANGED <<schedulerVars, assigns>>

RetryStep(t) ==
    /\ RetryWrite(t)
    /\ UNCHANGED <<schedulerVars, monitorVars, historyVars>>

-----------------------------------------------------------------------------
(* The kinds of steps. *)

\* The statements that give no node and count no retry.
LEMMA QuietTaskStatements ==
    ASSUME StoreTypeOK, NEW t \in Tasks
    PROVE  /\ CreateTask(t) /\ status[t] = "absent" => StoreQuiet
           /\ \A s \in TaskStatuses \ Unwritten :
                 UpdateTaskStatus(t, s) => StoreQuiet
           /\ \A e \in {0, 1} : UpdateTaskResult(t, e) => StoreQuiet
  <1> USE DEF StoreQuiet, StoreTypeOK, Untaken, Unwritten, chunkTable
  <1>1. CreateTask(t) /\ status[t] = "absent" => StoreQuiet
    BY DEF CreateTask
  <1>2. \A s \in TaskStatuses \ Unwritten : UpdateTaskStatus(t, s) => StoreQuiet
    BY DEF UpdateTaskStatus
  <1>3. \A e \in {0, 1} : UpdateTaskResult(t, e) => StoreQuiet
    BY DEF UpdateTaskResult, UpdateTaskStatus
  <1> QED
    BY <1>1, <1>2, <1>3

LEMMA QuietChunkStatements ==
    ASSUME StoreTypeOK, NEW c \in Chunks
    PROVE  /\ CreateTaskChunk(c) => StoreQuiet
           /\ \A s \in ChunkStatuses \ Unwritten :
                 UpdateChunkStatus(c, s) => StoreQuiet
  BY DEF CreateTaskChunk, UpdateChunkStatus, StoreQuiet, StoreTypeOK, Untaken,
         Unwritten, taskTable

LEMMA QuietNodeStatements ==
    ASSUME NEW n
    PROVE  /\ RegisterNode(n) => StoreQuiet
           /\ \A s \in NodeStatuses : UpdateNodeStatus(n, s) => StoreQuiet
           /\ UpdateNodeHeartbeat(n) => StoreQuiet
           /\ DeleteNode(n) => StoreQuiet
           /\ HeartbeatExpires(n) => StoreQuiet
           /\ UNCHANGED storeVars => StoreQuiet
  BY DEF RegisterNode, UpdateNodeStatus, UpdateNodeHeartbeat, DeleteNode,
         HeartbeatExpires, StoreQuiet, storeVars, taskTable, chunkTable

\* Steps that leave the scheduler, the monitor and the counts alone.
LEMMA QuietOthers ==
    ASSUME StoreQuiet, UNCHANGED <<schedulerVars, monitorVars>>,
           UNCHANGED <<assigns, autoRetries>>
    PROVE  QuietStep
  BY DEF QuietStep, SnapshotsGrowQueued, schedulerVars, monitorVars

LEMMA SchedulerKinds ==
    ASSUME TypeOK, SchedulerNext
    PROVE  \/ QuietStep
           \/ \E t \in Tasks, n \in Nodes : AssignTaskStep(t, n)
           \/ \E c \in Chunks, n \in Nodes : AssignChunkStep(c, n)
  <1>1. CASE SchedulerQuietStep /\ UNCHANGED assigns
    <2>1. StoreTypeOK
      BY TypeParts
    <2>2. UNCHANGED <<mRetry, mFail, autoRetries>>
      BY DEF SchedulerNext, monitorVars
    <2>3. ASSUME NEW ts \in SUBSET sTasks, NEW cs \in SUBSET sChunks,
                 Continue(ts, cs)
          PROVE  SnapshotsGrowQueued
      BY <2>3 DEF Continue, SnapshotsGrowQueued
    <2>4. ASSUME StoreQuiet, SnapshotsGrowQueued
          PROVE  QuietStep
      BY <1>1, <2>2, <2>4 DEF QuietStep
    <2>5. CASE ReadQueuedTasks \/ ReadQueuedChunks
      <3>1. StoreQuiet
        BY <2>5, QuietNodeStatements DEF ReadQueuedTasks, ReadQueuedChunks
      <3>2. SnapshotsGrowQueued
        BY <2>5 DEF ReadQueuedTasks, ReadQueuedChunks, SnapshotsGrowQueued
      <3> QED
        BY <2>4, <3>1, <3>2
    <2>6. CASE ReadOnlineNodes
      <3>1. StoreQuiet
        BY <2>6, QuietNodeStatements DEF ReadOnlineNodes
      <3>2. SnapshotsGrowQueued
        BY <2>6 DEF ReadOnlineNodes, Continue, SnapshotsGrowQueued
      <3> QED
        BY <2>4, <3>1, <3>2
    <2>7. ASSUME NEW t \in Tasks, LeaveTaskQueued(t) \/ FailSplit(t) \/ EndSplit(t)
          PROVE  QuietStep
      <3>1. StoreQuiet
        BY <2>1, <2>7, QuietNodeStatements, QuietTaskStatements
        DEF LeaveTaskQueued, FailSplit, EndSplit, TaskStatuses, Untaken, Unwritten
      <3>2. SnapshotsGrowQueued
        BY <2>7
        DEF LeaveTaskQueued, FailSplit, EndSplit, Continue, SnapshotsGrowQueued
      <3> QED
        BY <2>4, <3>1, <3>2
    <2>8. ASSUME NEW t \in SplitTasks, NEW k \in 0..MaxChunks, BeginSplit(t, k)
          PROVE  QuietStep
      <3>1. StoreQuiet
        BY <2>8, QuietNodeStatements DEF BeginSplit
      <3>2. SnapshotsGrowQueued
        BY <2>8 DEF BeginSplit, SnapshotsGrowQueued
      <3> QED
        BY <2>4, <3>1, <3>2
    <2>9. ASSUME NEW c \in Chunks, CreateChunk(c) \/ LeaveChunkQueued(c)
          PROVE  QuietStep
      <3>1. StoreQuiet
        BY <2>1, <2>9, QuietNodeStatements, QuietChunkStatements
        DEF CreateChunk, LeaveChunkQueued
      <3>2. SnapshotsGrowQueued
        BY <2>9
        DEF CreateChunk, LeaveChunkQueued, AtChunk, Continue, SnapshotsGrowQueued
      <3> QED
        BY <2>4, <3>1, <3>2
    <2> QED
      BY <1>1, <2>5, <2>6, <2>7, <2>8, <2>9 DEF SchedulerQuietStep
  <1>2. CASE \E t \in Tasks, n \in Nodes :
                /\ AssignTask(t, n)
                /\ assigns' = Counting(assigns, t, ~Refused(n))
    BY <1>2 DEF AssignTaskStep, SchedulerNext
  <1>3. CASE \E c \in Chunks, n \in Nodes :
                /\ AssignChunk(c, n)
                /\ assigns' = Counting(assigns, c, ~Refused(n))
    BY <1>3 DEF AssignChunkStep, SchedulerNext
  <1> QED
    BY <1>1, <1>2, <1>3 DEF SchedulerNext

LEMMA MonitorKinds ==
    ASSUME TypeOK, MonitorNext
    PROVE  QuietStep \/ \E t \in Tasks : RescheduleStep(t)
  <1>1. UNCHANGED <<schedulerVars, assigns>>
    BY DEF MonitorNext
  <1>2. CASE MonitorQuietStep /\ UNCHANGED autoRetries
    <2>1. StoreTypeOK
      BY TypeParts
    <2>2. ASSUME StoreQuiet,
                 \/ mRetry' \subseteq mRetry /\ mFail' \subseteq mFail
                 \/ \E n \in Nodes : ListNodeTasks(n)
          PROVE  QuietStep
      BY <1>1, <1>2, <2>2 DEF QuietStep, SnapshotsGrowQueued, schedulerVars
    <2>3. CASE CheckHeartbeats
      <3>1. StoreQuiet
        BY <2>3, QuietNodeStatements DEF CheckHeartbeats
      <3> QED
        BY <2>2, <2>3, <3>1 DEF CheckHeartbeats
    <2>4. ASSUME NEW n \in Nodes, MarkOffline(n)
          PROVE  QuietStep
      <3>1. StoreQuiet
        BY <2>4, QuietNodeStatements DEF MarkOffline, NodeStatuses
      <3> QED
        BY <2>2, <2>4, <3>1 DEF MarkOffline
    <2>5. ASSUME NEW n \in Nodes, ListNodeTasks(n)
          PROVE  QuietStep
      <3>1. StoreQuiet
        BY <2>5, QuietNodeStatements DEF ListNodeTasks
      <3> QED
        BY <2>2, <2>5, <3>1
    <2>6. ASSUME NEW t \in Tasks, FailTask(t)
          PROVE  QuietStep
      <3>1. StoreQuiet
        BY <2>1, <2>6, QuietTaskStatements DEF FailTask
      <3> QED
        BY <2>2, <2>6, <3>1 DEF FailTask
    <2> QED
      BY <1>2, <2>3, <2>4, <2>5, <2>6 DEF MonitorQuietStep
  <1>3. CASE \E t \in Tasks :
                /\ RescheduleTask(t)
                /\ autoRetries' = Counting(autoRetries, t, ~Refused(NoNode))
    BY <1>1, <1>3 DEF RescheduleStep
  <1> QED
    BY <1>2, <1>3 DEF MonitorNext

LEMMA ClientKinds ==
    ASSUME TypeOK, NEW t \in Tasks,
           Submit(t) \/ Cancel(t) \/ Retry(t) \/ FinishRequest(t)
    PROVE  QuietStep \/ RetryStep(t)
  <1>1. StoreTypeOK
    BY TypeParts
  <1>2. CASE Submit(t) \/ Cancel(t) \/ Retry(t)
    <2>1. StoreQuiet
      BY <1>1, <1>2, QuietTaskStatements, QuietNodeStatements
      DEF Submit, HandleSubmitTask, Cancel, CancelRead, Retry, RetryRead
    <2> QED
      BY <1>2, <2>1, QuietOthers DEF Submit, Cancel, Retry, historyVars
  <1>3. CASE FinishRequest(t)
    <2>1. CASE CancelWrite(t)
      <3>1. StoreQuiet
        BY <1>1, <2>1, QuietTaskStatements
        DEF CancelWrite, TaskStatuses, Terminal, Untaken, Unwritten
      <3> QED
        BY <1>3, <3>1, QuietOthers DEF FinishRequest, historyVars
    <2>2. CASE RetryWrite(t)
      BY <1>3, <2>2 DEF FinishRequest, RetryStep
    <2> QED
      BY <1>3, <2>1, <2>2 DEF FinishRequest
  <1> QED
    BY <1>2, <1>3

LEMMA QuietMark ==
    ASSUME StoreTypeOK, NEW i \in Items, MarkRunning(i)
    PROVE  StoreQuiet
  <1>1. CASE i \in Tasks
    BY <1>1, QuietTaskStatements DEF MarkRunning, TaskStatuses, Untaken, Unwritten
  <1>2. CASE i \notin Tasks
    BY <1>2, QuietChunkStatements
    DEF MarkRunning, Items, ChunkStatuses, Untaken, Unwritten
  <1> QED
    BY <1>1, <1>2

LEMMA HandlerKinds ==
    ASSUME TypeOK, NEW n \in Nodes,
           \/ FinishPoll(n) \/ FinishAbandoned(n) \/ Respond(n) \/ DeadAgent(n)
           \/ AgentStep(Join(n)) \/ AgentStep(Heartbeat(n)) \/ AgentStep(Poll(n))
    PROVE  QuietStep
  <1>1. StoreTypeOK
    BY TypeParts
  <1>2. StoreQuiet
    <2>1. CASE FinishPoll(n) \/ FinishAbandoned(n)
      BY <1>1, <2>1, QuietMark, QuietNodeStatements
      DEF FinishPoll, FinishAbandoned, PollReadChunks, PollMark, AbandonedMark
    <2>2. CASE Respond(n) \/ DeadAgent(n)
      BY <2>2, QuietNodeStatements
      DEF Respond, DeadAgent, PollRespond, PollUnanswered, Lapse
    <2>3. CASE AgentStep(Join(n)) \/ AgentStep(Heartbeat(n)) \/ AgentStep(Poll(n))
      BY <2>3, QuietNodeStatements
      DEF AgentStep, Join, HandleNodeJoin, Heartbeat, Poll, PollReadTasks
    <2> QED
      BY <2>1, <2>2, <2>3
  <1>3. UNCHANGED <<schedulerVars, monitorVars, assigns, autoRetries>>
    BY DEF FinishPoll, FinishAbandoned, Respond, DeadAgent, AgentStep, historyVars
  <1> QED
    BY <1>2, <1>3, QuietOthers

LEMMA ReportKinds ==
    ASSUME TypeOK, NEW n \in Nodes, NEW i \in Items, Report(n, i)
    PROVE  QuietStep
  <1>1. StoreTypeOK
    BY TypeParts
  <1>2. ASSUME i \in Tasks, NEW exitCode \in {0, 1}, ReportTask(n, i, exitCode)
        PROVE  StoreQuiet
    BY <1>1, <1>2, QuietTaskStatements DEF ReportTask, HandleTaskResult
  <1>3. ASSUME i \in Chunks, NEW s \in {"completed", "failed"},
               ReportChunk(n, i, s)
        PROVE  StoreQuiet
    BY <1>1, <1>3, QuietChunkStatements
    DEF ReportChunk, HandleChunkResult, ChunkStatuses, Untaken, Unwritten
  <1> QED
    BY <1>2, <1>3, QuietOthers DEF Report, historyVars

LEMMA ResultKinds ==
    ASSUME TypeOK, NEW c \in Chunks, FinishResult(c)
    PROVE  QuietStep
  <1>1. StoreTypeOK
    BY TypeParts
  <1>2. StoreQuiet
    BY <1>1, ParentInTasks, QuietNodeStatements, QuietTaskStatements
    DEF FinishResult, CheckAllChunks, CompleteParent
  <1> QED
    BY <1>2, QuietOthers DEF FinishResult, historyVars

LEMMA FaultKinds ==
    ASSUME TypeOK, FaultNext \/ Restart \/ OperatorNext
    PROVE  QuietStep
  <1>1. CASE FaultNext
    <2>1. StoreQuiet
      BY <1>1, QuietNodeStatements
      DEF FaultNext, Disconnect, JoinUnanswered, HandleNodeJoin, PollUnanswered,
          PollAbandon, ResultLost, Lapse, Die
    <2> QED
      BY <1>1, <2>1, QuietOthers DEF FaultNext, historyVars
  <1>2. CASE Restart
    <2>1. StoreQuiet
      BY <1>2, QuietNodeStatements DEF Restart
    <2> QED
      BY <1>2, <2>1 DEF Restart, QuietStep, SnapshotsGrowQueued, historyVars
  <1>3. CASE OperatorNext
    <2>1. StoreQuiet
      BY <1>3, QuietNodeStatements
      DEF OperatorNext, HandleDeleteNode, HandleUpdateNodeStatus,
          HandleReserveNode, HandleUnreserveNode, NodeStatuses
    <2> QED
      BY <1>3, <2>1, QuietOthers DEF OperatorNext, historyVars
  <1> QED
    BY <1>1, <1>2, <1>3

\* Every step of the system is of one of five kinds.
LEMMA StepKinds ==
    ASSUME TypeOK, [Next]_vars
    PROVE  \/ QuietStep
           \/ \E t \in Tasks, n \in Nodes : AssignTaskStep(t, n)
           \/ \E c \in Chunks, n \in Nodes : AssignChunkStep(c, n)
           \/ \E t \in Tasks : RescheduleStep(t)
           \/ \E t \in Tasks : RetryStep(t)
  <1>1. CASE UNCHANGED vars
    <2>1. /\ UNCHANGED <<storeVars, schedulerVars, monitorVars>>
          /\ UNCHANGED <<assigns, autoRetries>>
      BY <1>1 DEF vars, historyVars
    <2>2. StoreQuiet
      BY <2>1, QuietNodeStatements
    <2> QED
      BY <2>1, <2>2, QuietOthers
  <1>2. CASE Next
    BY <1>2, SchedulerKinds, MonitorKinds, ClientKinds, HandlerKinds,
       ReportKinds, ResultKinds, FaultKinds
    DEF Next
  <1> QED
    BY <1>1, <1>2

-----------------------------------------------------------------------------
(* The monitor's retries. *)

\* What a listed task had counted then bounds what the monitor spends on it:
\* the clients' retries only add to retry_count.
BudgetInv ==
    \A t \in Tasks :
        /\ autoRetries[t] <= RetryMax[t]
        /\ autoRetries[t] <= retryCount[t]
        /\ t \in mRetry => autoRetries[t] < RetryMax[t]

LEMMA BudgetStep == TypeOK /\ BudgetInv /\ [Next]_vars => BudgetInv'
  <1> SUFFICES ASSUME TypeOK, BudgetInv, [Next]_vars PROVE BudgetInv'
    OBVIOUS
  <1>1. /\ StoreTypeOK
        /\ autoRetries \in [Tasks -> Nat]
        /\ RetryMax \in [Tasks -> Nat]
    BY TypeParts, StoreAssumptions DEF HistoryTypeOK
  <1>2. CASE QuietStep
    <2>1. UNCHANGED <<retryCount, autoRetries>>
      BY <1>2 DEF QuietStep, StoreQuiet
    <2>2. CASE mRetry' \subseteq mRetry
      BY <2>1, <2>2 DEF BudgetInv
    <2>3. ASSUME NEW n \in Nodes, ListNodeTasks(n)
          PROVE  BudgetInv'
      <3>1. \A t \in mRetry' : t \in Tasks /\ retryCount[t] < RetryMax[t]
        BY <2>3 DEF ListNodeTasks
      <3> QED
        BY <1>1, <2>1, <3>1 DEF BudgetInv, StoreTypeOK
    <2> QED
      BY <1>2, <2>2, <2>3 DEF QuietStep
  <1>3. ASSUME NEW u \in Tasks,
               \/ \E n \in Nodes : AssignTaskStep(u, n)
               \/ RetryStep(u)
        PROVE  BudgetInv'
    <2>1. UNCHANGED <<mRetry, autoRetries>>
      BY <1>3 DEF AssignTaskStep, RetryStep, monitorVars, historyVars
    <2>2. \A t \in Tasks : retryCount'[t] \in Nat /\ retryCount'[t] >= retryCount[t]
      BY <1>1, <1>3
      DEF AssignTaskStep, AssignTask, UpdateTaskAssignment, RetryStep,
          RetryWrite, IncrementTaskRetry, StoreTypeOK
    <2> QED
      BY <1>1, <2>1, <2>2 DEF BudgetInv, StoreTypeOK
  <1>4. ASSUME NEW c \in Chunks, NEW n \in Nodes, AssignChunkStep(c, n)
        PROVE  BudgetInv'
    <2>1. UNCHANGED <<mRetry, autoRetries, retryCount>>
      BY <1>4
      DEF AssignChunkStep, AssignChunk, UpdateChunkAssignment, taskTable,
          monitorVars
    <2> QED
      BY <2>1 DEF BudgetInv
  <1>5. ASSUME NEW u \in Tasks, RescheduleStep(u)
        PROVE  BudgetInv'
    <2>1. u \in mRetry /\ mRetry' = mRetry \ {u}
      BY <1>5 DEF RescheduleStep, RescheduleTask
    <2>2. CASE Refused(NoNode)
      <3>1. UNCHANGED <<retryCount, autoRetries>>
        BY <1>1, <1>5, <2>2
        DEF RescheduleStep, RescheduleTask, IncrementTaskRetry, Counting
      <3> QED
        BY <2>1, <3>1 DEF BudgetInv
    <2>3. CASE ~Refused(NoNode)
      <3>1. /\ retryCount' = [retryCount EXCEPT ![u] = @ + 1]
            /\ autoRetries' = [autoRetries EXCEPT ![u] = @ + 1]
        BY <1>5, <2>3
        DEF RescheduleStep, RescheduleTask, IncrementTaskRetry, Counting
      <3> QED
        BY <1>1, <2>1, <3>1 DEF BudgetInv, StoreTypeOK
    <2> QED
      BY <2>2, <2>3
  <1> QED
    BY <1>2, <1>3, <1>4, <1>5, StepKinds

\* The monitor never spends more than retry_max retries on a task, although
\* it decides on a listed row while clients retry the same task.
THEOREM AutoRetryBudgetHolds == Spec => []AutoRetryBudget
  <1>1. Init => BudgetInv
    <2> SUFFICES ASSUME Init, NEW t \in Tasks
                 PROVE  /\ autoRetries[t] <= RetryMax[t]
                        /\ autoRetries[t] <= retryCount[t]
                        /\ t \notin mRetry
      BY DEF BudgetInv
    <2>1. RetryMax[t] \in Nat
      BY StoreAssumptions
    <2>2. autoRetries[t] = 0 /\ retryCount[t] = 0 /\ mRetry = {}
      BY DEF Init, StoreInit, MonitorInit
    <2> QED
      BY <2>1, <2>2
  <1>2. TypeOK /\ BudgetInv /\ [Next]_vars => BudgetInv'
    BY BudgetStep
  <1>3. BudgetInv => AutoRetryBudget
    BY DEF BudgetInv, AutoRetryBudget
  <1> QED
    BY <1>1, <1>2, <1>3, TypeCorrect, PTL DEF Spec

-----------------------------------------------------------------------------
(* Assignments. *)

\* Whatever is queued, or on the scheduler's lists though it may have been
\* cancelled since, is on no node and has an attempt left.
WaitingTask(t) == status[t] \in Untaken \/ t \in sTasks
WaitingChunk(c) == chunkStatus[c] \in Untaken \/ c \in sChunks

TaskAssignInv(t) ==
    /\ assigns[t] <= 1 + retryCount[t]
    /\ WaitingTask(t) => assignedNode[t] = NoNode /\ assigns[t] <= retryCount[t]

ChunkAssignInv(c) ==
    /\ assigns[c] <= 1
    /\ WaitingChunk(c) => chunkNode[c] = NoNode /\ assigns[c] = 0

AssignInv ==
    /\ \A t \in Tasks : TaskAssignInv(t)
    /\ \A c \in Chunks : ChunkAssignInv(c)

\* What NoNodeSwitch says of one step.
NodesKept ==
    /\ \A t \in Tasks :
          assignedNode[t] # NoNode => assignedNode'[t] \in {assignedNode[t], NoNode}
    /\ \A c \in Chunks : chunkNode[c] # NoNode => chunkNode'[c] = chunkNode[c]

\* A task whose row and count no step touches stays as it is.
LEMMA TaskUntouched ==
    ASSUME NEW t, TaskAssignInv(t),
           assigns'[t] = assigns[t], retryCount'[t] = retryCount[t],
           assignedNode'[t] = assignedNode[t], WaitingTask(t)' => WaitingTask(t)
    PROVE  TaskAssignInv(t)'
  BY DEF TaskAssignInv

LEMMA ChunkUntouched ==
    ASSUME NEW c, ChunkAssignInv(c),
           assigns'[c] = assigns[c], chunkNode'[c] = chunkNode[c],
           WaitingChunk(c)' => WaitingChunk(c)
    PROVE  ChunkAssignInv(c)'
  BY DEF ChunkAssignInv

LEMMA TasksAreNotChunks == \A t \in Tasks, c \in Chunks : t # c
  BY StoreAssumptions

LEMMA AssignQuiet ==
    ASSUME AssignInv, QuietStep
    PROVE  AssignInv' /\ NodesKept
  <1>1. UNCHANGED <<assignedNode, retryCount, chunkNode, assigns>>
    BY DEF QuietStep, StoreQuiet
  <1>2. \A t \in Tasks : WaitingTask(t)' => WaitingTask(t)
    BY DEF QuietStep, StoreQuiet, SnapshotsGrowQueued, GetQueuedTasks,
           WaitingTask, Untaken
  <1>3. \A c \in Chunks : WaitingChunk(c)' => WaitingChunk(c)
    BY DEF QuietStep, StoreQuiet, SnapshotsGrowQueued, GetQueuedChunks,
           WaitingChunk, Untaken
  <1>4. AssignInv'
    BY <1>1, <1>2, <1>3, TaskUntouched, ChunkUntouched DEF AssignInv
  <1>5. NodesKept
    BY <1>1 DEF NodesKept
  <1> QED
    BY <1>4, <1>5

LEMMA AssignTaskKeeps ==
    ASSUME TypeOK, AssignInv, NEW u \in Tasks, NEW n \in Nodes,
           AssignTaskStep(u, n)
    PROVE  AssignInv' /\ NodesKept
  <1>1. /\ StoreTypeOK
        /\ assigns \in [Items -> Nat]
    BY TypeParts DEF HistoryTypeOK
  <1>2. /\ u \in sTasks
        /\ sTasks' = sTasks \ {u}
        /\ sChunks' = sChunks
        /\ UNCHANGED <<retryCount, chunkStatus, chunkNode>>
    BY DEF AssignTaskStep, AssignTask, AtTask, Continue, UpdateTaskAssignment,
           chunkTable
  <1>3. assignedNode[u] = NoNode /\ assigns[u] <= retryCount[u]
    BY <1>2 DEF AssignInv, TaskAssignInv, WaitingTask
  <1>4. \A i \in Items : i # u => assigns'[i] = assigns[i]
    BY <1>1 DEF AssignTaskStep, Counting
  <1>5. ASSUME NEW c \in Chunks
        PROVE  ChunkAssignInv(c)'
    <2>1. assigns'[c] = assigns[c]
      BY <1>4, TasksAreNotChunks DEF Items
    <2> QED
      BY <1>2, <2>1, ChunkUntouched DEF AssignInv, WaitingChunk
  <1>6. ASSUME NEW t \in Tasks, t # u
        PROVE  TaskAssignInv(t)' /\ assignedNode'[t] = assignedNode[t]
    <2>1. assignedNode'[t] = assignedNode[t] /\ status'[t] = status[t]
      BY <1>1, <1>6
      DEF AssignTaskStep, AssignTask, UpdateTaskAssignment, StoreTypeOK
    <2>2. assigns'[t] = assigns[t]
      BY <1>4, <1>6 DEF Items
    <2>3. WaitingTask(t)' => WaitingTask(t)
      BY <1>2, <2>1 DEF WaitingTask
    <2> QED
      BY <1>2, <2>1, <2>2, <2>3, TaskUntouched DEF AssignInv
  <1>7. TaskAssignInv(u)'
    <2>1. CASE Refused(n)
      <3>1. UNCHANGED <<status, assignedNode>> /\ assigns'[u] = assigns[u]
        BY <1>1, <2>1
        DEF AssignTaskStep, AssignTask, UpdateTaskAssignment, Counting, Items
      <3> QED
        BY <1>2, <3>1, TaskUntouched DEF AssignInv, WaitingTask
    <2>2. CASE ~Refused(n)
      <3>1. status'[u] = "scheduled" /\ assigns'[u] = assigns[u] + 1
        BY <1>1, <2>2
        DEF AssignTaskStep, AssignTask, UpdateTaskAssignment, Counting, Items,
            StoreTypeOK
      <3>2. ~WaitingTask(u)'
        BY <1>2, <3>1 DEF WaitingTask, Untaken
      <3>3. assigns[u] \in Nat /\ retryCount[u] \in Nat
        BY <1>1 DEF Items, StoreTypeOK
      <3> QED
        BY <1>2, <1>3, <3>1, <3>2, <3>3 DEF TaskAssignInv
    <2> QED
      BY <2>1, <2>2
  <1> QED
    BY <1>2, <1>3, <1>5, <1>6, <1>7 DEF AssignInv, NodesKept

LEMMA AssignChunkKeeps ==
    ASSUME TypeOK, AssignInv, NEW d \in Chunks, NEW n \in Nodes,
           AssignChunkStep(d, n)
    PROVE  AssignInv' /\ NodesKept
  <1>1. /\ StoreTypeOK
        /\ assigns \in [Items -> Nat]
    BY TypeParts DEF HistoryTypeOK
  <1>2. /\ d \in sChunks
        /\ sTasks' = {} /\ sTasks = {}
        /\ sChunks' = sChunks \ {d}
        /\ UNCHANGED <<status, assignedNode, retryCount>>
    BY DEF AssignChunkStep, AssignChunk, AtChunk, Continue,
           UpdateChunkAssignment, taskTable
  <1>3. chunkNode[d] = NoNode /\ assigns[d] = 0
    BY <1>2 DEF AssignInv, ChunkAssignInv, WaitingChunk
  <1>4. \A i \in Items : i # d => assigns'[i] = assigns[i]
    BY <1>1 DEF AssignChunkStep, Counting
  <1>5. ASSUME NEW t \in Tasks
        PROVE  TaskAssignInv(t)'
    <2>1. assigns'[t] = assigns[t]
      BY <1>4, TasksAreNotChunks DEF Items
    <2>2. WaitingTask(t)' => WaitingTask(t)
      BY <1>2 DEF WaitingTask
    <2> QED
      BY <1>2, <2>1, <2>2, TaskUntouched DEF AssignInv
  <1>6. ASSUME NEW c \in Chunks, c # d
        PROVE  ChunkAssignInv(c)' /\ chunkNode'[c] = chunkNode[c]
    <2>1. chunkNode'[c] = chunkNode[c] /\ chunkStatus'[c] = chunkStatus[c]
      BY <1>1, <1>6
      DEF AssignChunkStep, AssignChunk, UpdateChunkAssignment, chunkTable,
          StoreTypeOK
    <2>2. assigns'[c] = assigns[c]
      BY <1>4, <1>6 DEF Items
    <2>3. WaitingChunk(c)' => WaitingChunk(c)
      BY <1>2, <2>1 DEF WaitingChunk
    <2> QED
      BY <2>1, <2>2, <2>3, ChunkUntouched DEF AssignInv
  <1>7. ChunkAssignInv(d)'
    <2>1. CASE Refused(n)
      <3>1. UNCHANGED <<chunkStatus, chunkNode>> /\ assigns'[d] = assigns[d]
        BY <1>1, <2>1
        DEF AssignChunkStep, AssignChunk, UpdateChunkAssignment, Counting,
            Items, chunkTable
      <3> QED
        BY <1>2, <3>1, ChunkUntouched DEF AssignInv, WaitingChunk
    <2>2. CASE ~Refused(n)
      <3>1. chunkStatus'[d] = "scheduled" /\ assigns'[d] = assigns[d] + 1
        BY <1>1, <2>2
        DEF AssignChunkStep, AssignChunk, UpdateChunkAssignment, Counting,
            Items, StoreTypeOK
      <3>2. ~WaitingChunk(d)'
        BY <1>2, <3>1 DEF WaitingChunk, Untaken
      <3> QED
        BY <1>3, <3>1, <3>2 DEF ChunkAssignInv
    <2> QED
      BY <2>1, <2>2
  <1> QED
    BY <1>2, <1>3, <1>5, <1>6, <1>7 DEF AssignInv, NodesKept

\* A retry, the monitor's or a client's, gives the attempt it counts.
LEMMA RetryKeeps ==
    ASSUME TypeOK, AssignInv, NEW u \in Tasks,
           RescheduleStep(u) \/ RetryStep(u)
    PROVE  AssignInv' /\ NodesKept
  <1>1. /\ StoreTypeOK
        /\ assigns \in [Items -> Nat]
    BY TypeParts DEF HistoryTypeOK
  <1>2. /\ IncrementTaskRetry(u)
        /\ UNCHANGED <<sTasks, sChunks, assigns, chunkStatus, chunkNode>>
    BY DEF RescheduleStep, RescheduleTask, RetryStep, RetryWrite,
           IncrementTaskRetry, schedulerVars, historyVars, chunkTable
  <1>3. ASSUME NEW c \in Chunks
        PROVE  ChunkAssignInv(c)'
    BY <1>2, ChunkUntouched DEF AssignInv, WaitingChunk
  <1>4. ASSUME NEW t \in Tasks, t # u \/ Refused(NoNode)
        PROVE  TaskAssignInv(t)' /\ assignedNode'[t] = assignedNode[t]
    <2>1. /\ assignedNode'[t] = assignedNode[t]
          /\ status'[t] = status[t]
          /\ retryCount'[t] = retryCount[t]
      BY <1>1, <1>2, <1>4 DEF IncrementTaskRetry, StoreTypeOK
    <2>2. WaitingTask(t)' => WaitingTask(t)
      BY <1>2, <2>1 DEF WaitingTask
    <2> QED
      BY <1>2, <2>1, <2>2, TaskUntouched DEF AssignInv
  <1>5. ASSUME ~Refused(NoNode)
        PROVE  TaskAssignInv(u)' /\ assignedNode'[u] = NoNode
    <2>1. retryCount'[u] = retryCount[u] + 1 /\ assignedNode'[u] = NoNode
      BY <1>1, <1>2, <1>5 DEF IncrementTaskRetry, StoreTypeOK
    <2>2. assigns[u] \in Nat /\ retryCount[u] \in Nat
      BY <1>1 DEF Items, StoreTypeOK
    <2>3. assigns[u] <= 1 + retryCount[u]
      BY DEF AssignInv, TaskAssignInv
    <2> QED
      BY <1>2, <2>1, <2>2, <2>3 DEF TaskAssignInv
  <1> QED
    BY <1>2, <1>3, <1>4, <1>5 DEF AssignInv, NodesKept

LEMMA AssignStep == TypeOK /\ AssignInv /\ [Next]_vars => AssignInv' /\ NodesKept
  BY StepKinds, AssignQuiet, AssignTaskKeeps, AssignChunkKeeps, RetryKeeps

LEMMA AssignInit == Init => AssignInv
  <1> SUFFICES ASSUME Init PROVE AssignInv
    OBVIOUS
  <1>1. ASSUME NEW t \in Tasks
        PROVE  TaskAssignInv(t)
    <2>1. assigns[t] = 0 /\ retryCount[t] = 0 /\ assignedNode[t] = NoNode
      BY DEF Init, StoreInit, Items
    <2> QED
      BY <2>1 DEF TaskAssignInv
  <1>2. ASSUME NEW c \in Chunks
        PROVE  ChunkAssignInv(c)
    <2>1. assigns[c] = 0 /\ chunkNode[c] = NoNode
      BY DEF Init, StoreInit, Items
    <2> QED
      BY <2>1 DEF ChunkAssignInv
  <1> QED
    BY <1>1, <1>2 DEF AssignInv

LEMMA AssignInvariant == Spec => []AssignInv
  <1>1. Init => AssignInv
    BY AssignInit
  <1>2. TypeOK /\ AssignInv /\ [Next]_vars => AssignInv'
    BY AssignStep
  <1> QED
    BY <1>1, <1>2, TypeCorrect, PTL DEF Spec

\* However stale the scheduler's lists are, it gives no task and no chunk to
\* a node more than once per attempt.
THEOREM AssignedOncePerAttemptHolds == Spec => []AssignedOncePerAttempt
  <1>1. AssignInv => AssignedOncePerAttempt
    BY TasksAreNotChunks
    DEF AssignInv, TaskAssignInv, ChunkAssignInv, AssignedOncePerAttempt,
        Attempts, Items
  <1> QED
    BY <1>1, AssignInvariant, PTL

\* No task goes from one node to another without being queued in between, and
\* no chunk ever leaves its node.
THEOREM NoNodeSwitchHolds == Spec => NoNodeSwitch
  <1>1. TypeOK /\ AssignInv /\ [Next]_vars => [NodesKept]_vars
    BY AssignStep
  <1>2. Spec => [][NodesKept]_vars
    BY <1>1, TypeCorrect, AssignInvariant, PTL DEF Spec
  <1> QED
    BY <1>2 DEF NoNodeSwitch, NodesKept

-----------------------------------------------------------------------------
(* Placement. *)

Suits(n, i) ==
    LET t == IF i \in Tasks THEN i ELSE Parent(i)
    IN  n \in Fits[t] /\ TargetNode[t] \in {n, NoNode}

\* Rows, polls and executions are all on suitable nodes.  The polls matter:
\* what a handler read stays in its batch when the row moves on.
RowsSuit ==
    /\ \A t \in Tasks, n \in Nodes : assignedNode[t] = n => Suits(n, t)
    /\ \A c \in Chunks, n \in Nodes : chunkNode[c] = n => Suits(n, c)
BatchesSuit == \A n \in Nodes : \A i \in batch[n] : Suits(n, i)
ExecutionsSuit == \A n \in Nodes, i \in Items : exec[n][i] > 0 => Suits(n, i)
PlacementInv == RowsSuit /\ BatchesSuit /\ ExecutionsSuit

LEMMA RowsSuitStep ==
    ASSUME TypeOK, RowsSuit, [Next]_vars
    PROVE  RowsSuit'
  <1>1. StoreTypeOK
    BY TypeParts
  <1>2. CASE QuietStep
    BY <1>2 DEF QuietStep, StoreQuiet, RowsSuit, Suits
  <1>3. ASSUME NEW u \in Tasks, NEW m \in Nodes, AssignTaskStep(u, m)
        PROVE  RowsSuit'
    <2>1. Suits(m, u)
      BY <1>3 DEF AssignTaskStep, AssignTask, Candidates, Suits
    <2>2. chunkNode' = chunkNode
      BY <1>3 DEF AssignTaskStep, AssignTask, UpdateTaskAssignment, chunkTable
    <2>3. \A t \in Tasks :
             t # u => assignedNode'[t] = assignedNode[t]
      BY <1>1, <1>3
      DEF AssignTaskStep, AssignTask, UpdateTaskAssignment, StoreTypeOK
    <2>4. assignedNode'[u] \in {assignedNode[u], m}
      BY <1>1, <1>3
      DEF AssignTaskStep, AssignTask, UpdateTaskAssignment, StoreTypeOK
    <2> QED
      BY <2>1, <2>2, <2>3, <2>4 DEF RowsSuit, Suits
  <1>4. ASSUME NEW d \in Chunks, NEW m \in Nodes, AssignChunkStep(d, m)
        PROVE  RowsSuit'
    <2>1. Suits(m, d)
      BY <1>4, TasksAreNotChunks
      DEF AssignChunkStep, AssignChunk, Candidates, Suits
    <2>2. assignedNode' = assignedNode
      BY <1>4 DEF AssignChunkStep, AssignChunk, UpdateChunkAssignment, taskTable
    <2>3. \A c \in Chunks :
             c # d => chunkNode'[c] = chunkNode[c]
      BY <1>1, <1>4
      DEF AssignChunkStep, AssignChunk, UpdateChunkAssignment, chunkTable,
          StoreTypeOK
    <2>4. chunkNode'[d] \in {chunkNode[d], m}
      BY <1>1, <1>4
      DEF AssignChunkStep, AssignChunk, UpdateChunkAssignment, chunkTable,
          StoreTypeOK
    <2> QED
      BY <2>1, <2>2, <2>3, <2>4 DEF RowsSuit, Suits
  <1>5. ASSUME NEW u \in Tasks, RescheduleStep(u) \/ RetryStep(u)
        PROVE  RowsSuit'
    <2>1. IncrementTaskRetry(u)
      BY <1>5 DEF RescheduleStep, RescheduleTask, RetryStep, RetryWrite
    <2>2. chunkNode' = chunkNode
      BY <2>1 DEF IncrementTaskRetry, chunkTable
    <2>3. \A t \in Tasks :
             assignedNode'[t] = assignedNode[t] \/ assignedNode'[t] = NoNode
      BY <1>1, <2>1 DEF IncrementTaskRetry, StoreTypeOK
    <2> QED
      BY <2>2, <2>3, StoreAssumptions DEF RowsSuit, Suits
  <1> QED
    BY <1>2, <1>3, <1>4, <1>5, StepKinds

\* A handler's batch grows only by rows of its own node.
BatchGrowsOwn ==
    \A n \in Nodes : \A i \in batch'[n] :
        \/ i \in batch[n]
        \/ i \in Tasks /\ assignedNode[i] = n
        \/ i \in Chunks /\ chunkNode[i] = n

\* A node executes what it executed before or what it was handed, and that is
\* counted as started.
ExecGrowsFromBatch ==
    \A n \in Nodes, i \in Items :
        exec'[n][i] > 0 =>
            \/ exec[n][i] > 0
            \/ i \in batch[n] /\ starts'[i] = starts[i] + 1

LEMMA PollEndShrinks ==
    ASSUME APITypeOK, NEW n \in Nodes, PollEnd(n)
    PROVE  BatchGrowsOwn
  BY DEF PollEnd, BatchGrowsOwn, APITypeOK

LEMMA BatchStep ==
    ASSUME TypeOK, [Next]_vars
    PROVE  BatchGrowsOwn
  <1>1. APITypeOK
    BY TypeParts
  <1>2. CASE UNCHANGED batch
    BY <1>2 DEF BatchGrowsOwn
  <1>3. UNCHANGED vars => UNCHANGED batch
    BY DEF vars, apiVars
  <1>4. SchedulerNext \/ MonitorNext \/ OperatorNext => UNCHANGED batch
    BY DEF SchedulerNext, MonitorNext, OperatorNext, apiVars, HandleDeleteNode,
           HandleUpdateNodeStatus, HandleReserveNode, HandleUnreserveNode
  <1>5. \A t \in Tasks :
           Submit(t) \/ Cancel(t) \/ Retry(t) \/ FinishRequest(t)
               => UNCHANGED batch
    BY DEF Submit, HandleSubmitTask, Cancel, CancelRead, Retry, RetryRead,
           FinishRequest, CancelWrite, RetryWrite, apiVars, pollVars
  <1>6. ASSUME NEW n \in Nodes, FinishPoll(n) \/ FinishAbandoned(n)
        PROVE  BatchGrowsOwn
    <2>1. CASE PollReadChunks(n)
      BY <1>1, <2>1
      DEF PollReadChunks, GetPendingChunksForNode, BatchGrowsOwn, APITypeOK
    <2>2. CASE UNCHANGED batch
      BY <1>2, <2>2
    <2> QED
      BY <1>6, <2>1, <2>2
      DEF FinishPoll, FinishAbandoned, PollMark, AbandonedMark
  <1>7. ASSUME NEW n \in Nodes, Respond(n) \/ DeadAgent(n)
        PROVE  BatchGrowsOwn
    BY <1>1, <1>2, <1>7, PollEndShrinks
    DEF Respond, PollRespond, DeadAgent, Lapse, PollUnanswered, apiVars
  <1>8. ASSUME NEW n \in Nodes,
               \/ AgentStep(Join(n)) \/ AgentStep(Heartbeat(n))
               \/ AgentStep(Poll(n))
        PROVE  BatchGrowsOwn
    <2>1. CASE AgentStep(Poll(n))
      BY <1>1, <2>1
      DEF AgentStep, Poll, PollReadTasks, GetPendingTasksForNode,
          BatchGrowsOwn, APITypeOK
    <2> QED
      BY <1>2, <1>8, <2>1
      DEF AgentStep, Join, HandleNodeJoin, Heartbeat, apiVars
  <1>9. \A n \in Nodes, i \in Items : Report(n, i) => UNCHANGED batch
    BY DEF Report, ReportTask, HandleTaskResult, ReportChunk,
           HandleChunkResult, apiVars, pollVars
  <1>10. \A c \in Chunks : FinishResult(c) => UNCHANGED batch
    BY DEF FinishResult, CheckAllChunks, CompleteParent, pollVars
  <1>11. FaultNext => BatchGrowsOwn
    BY <1>1, <1>2, PollEndShrinks
    DEF FaultNext, Disconnect, JoinUnanswered, HandleNodeJoin, PollUnanswered,
        PollAbandon, ResultLost, Lapse, Die, apiVars
  <1>12. Restart => BatchGrowsOwn
    BY DEF Restart, BatchGrowsOwn
  <1> QED
    BY <1>2, <1>3, <1>4, <1>5, <1>6, <1>7, <1>8, <1>9, <1>10, <1>11, <1>12
    DEF Next

LEMMA ExecStep ==
    ASSUME TypeOK, [Next]_vars
    PROVE  ExecGrowsFromBatch
  <1>1. AgentTypeOK
    BY TypeParts
  <1>2. CASE UNCHANGED exec
    BY <1>2 DEF ExecGrowsFromBatch
  <1>3. UNCHANGED vars => UNCHANGED exec
    BY DEF vars, agentVars
  <1>4. SchedulerNext \/ MonitorNext \/ OperatorNext \/ Restart => UNCHANGED exec
    BY DEF SchedulerNext, MonitorNext, OperatorNext, Restart, agentVars,
           HandleDeleteNode, HandleUpdateNodeStatus, HandleReserveNode,
           HandleUnreserveNode
  <1>5. \A t \in Tasks :
           Submit(t) \/ Cancel(t) \/ Retry(t) \/ FinishRequest(t)
               => UNCHANGED exec
    BY DEF Submit, Cancel, Retry, FinishRequest, agentVars
  <1>6. \A n \in Nodes :
           FinishPoll(n) \/ FinishAbandoned(n) \/ DeadAgent(n) => UNCHANGED exec
    BY DEF FinishPoll, FinishAbandoned, DeadAgent, Lapse, PollUnanswered,
           agentVars
  <1>7. ASSUME NEW n \in Nodes, Respond(n)
        PROVE  ExecGrowsFromBatch
    BY <1>1, <1>7
    DEF Respond, PollRespond, ExecGrowsFromBatch, AgentTypeOK
  <1>8. \A n \in Nodes :
           \/ AgentStep(Join(n)) \/ AgentStep(Heartbeat(n)) \/ AgentStep(Poll(n))
               => UNCHANGED exec
    BY DEF AgentStep, Join, Heartbeat, Poll, agentVars
  <1>9. ASSUME NEW n \in Nodes, NEW i \in Items, Finished(n, i)
        PROVE  ExecGrowsFromBatch
    BY <1>1, <1>9 DEF Finished, ExecGrowsFromBatch, AgentTypeOK
  <1>10. \A n \in Nodes, i \in Items : Report(n, i) => ExecGrowsFromBatch
    BY <1>9 DEF Report, ReportTask, ReportChunk
  <1>11. \A c \in Chunks : FinishResult(c) => UNCHANGED exec
    BY DEF FinishResult, agentVars
  <1>12. ASSUME NEW n \in Nodes, Die(n)
         PROVE  ExecGrowsFromBatch
    BY <1>1, <1>12 DEF Die, ExecGrowsFromBatch, AgentTypeOK
  <1>13. FaultNext => ExecGrowsFromBatch
    BY <1>2, <1>9, <1>12
    DEF FaultNext, Disconnect, JoinUnanswered, PollUnanswered, ResultLost, Lapse,
        agentVars
  <1> QED
    BY <1>2, <1>3, <1>4, <1>5, <1>6, <1>7, <1>8, <1>10, <1>11, <1>13
    DEF Next

LEMMA PlacementStep == TypeOK /\ PlacementInv /\ [Next]_vars => PlacementInv'
  <1> SUFFICES ASSUME TypeOK, PlacementInv, [Next]_vars PROVE PlacementInv'
    OBVIOUS
  <1>1. RowsSuit'
    BY RowsSuitStep DEF PlacementInv
  <1>2. BatchesSuit'
    BY BatchStep DEF BatchGrowsOwn, PlacementInv, BatchesSuit, RowsSuit, Suits
  <1>3. ExecutionsSuit'
    BY ExecStep
    DEF ExecGrowsFromBatch, PlacementInv, ExecutionsSuit, BatchesSuit, Suits
  <1> QED
    BY <1>1, <1>2, <1>3 DEF PlacementInv

\* Every item a node executes is on a node with the hardware for it, the one
\* it is pinned to if it is, after any retries, splits and late polls.
THEOREM PlacementRespectedHolds == Spec => []PlacementRespected
  <1>1. Init => PlacementInv
    <2> SUFFICES ASSUME Init PROVE PlacementInv
      OBVIOUS
    <2>1. RowsSuit
      BY StoreAssumptions DEF Init, StoreInit, RowsSuit
    <2>2. BatchesSuit
      BY DEF Init, APIInit, BatchesSuit
    <2>3. ExecutionsSuit
      BY DEF Init, AgentInit, ExecutionsSuit
    <2> QED
      BY <2>1, <2>2, <2>3 DEF PlacementInv
  <1>2. TypeOK /\ PlacementInv /\ [Next]_vars => PlacementInv'
    BY PlacementStep
  <1>3. PlacementInv => PlacementRespected
    BY DEF PlacementInv, ExecutionsSuit, Suits, PlacementRespected
  <1> QED
    BY <1>1, <1>2, <1>3, TypeCorrect, PTL DEF Spec

=============================================================================
