--------------------------- MODULE LifecycleProofs ---------------------------
(***************************************************************************)
(* Constellation implements TaskLifecycle, for every value of its          *)
(* constants: whatever snapshot a step acts on, what it writes is backed   *)
(* by the account of attempts.                                             *)
(***************************************************************************)
EXTENDS AttemptProofs

-----------------------------------------------------------------------------
(* The scheduler's split, the requests and the results under way. *)

\* A split is under way only while the cycle works, at a task still listed.
SplittingInv ==
    /\ splitting # {} => phase = "work"
    /\ splitting \subseteq sTasks
    /\ \A t, u \in splitting : t = u
    /\ \A c \in toCreate : Parent(c) \in splitting

LEMMA SchedulerSteps ==
    ASSUME [Next]_vars
    PROVE  SchedulerNext \/ Restart \/ UNCHANGED schedulerVars
  BY DEF Next, vars, MonitorNext, Submit, Cancel, Retry, FinishRequest,
         FinishPoll, FinishAbandoned, Respond, DeadAgent, AgentStep, Report,
         FinishResult, FaultNext, OperatorNext

LEMMA SplittingStep ==
    ASSUME SplittingInv, [Next]_vars
    PROVE  SplittingInv'
  <1>1. CASE UNCHANGED schedulerVars
    BY <1>1 DEF schedulerVars, SplittingInv
  <1>2. CASE Restart
    BY <1>2 DEF Restart, SplittingInv
  <1>3. CASE SchedulerNext
    <2>1. CASE splitting = {} /\ UNCHANGED <<splitting, toCreate>>
      BY <2>1 DEF SplittingInv
    <2>2. CASE ReadQueuedTasks \/ ReadQueuedChunks \/ ReadOnlineNodes
      BY <2>1, <2>2
      DEF ReadQueuedTasks, ReadQueuedChunks, ReadOnlineNodes, SplittingInv
    <2>3. ASSUME NEW t \in Tasks,
                 \/ LeaveTaskQueued(t) \/ FailSplit(t)
                 \/ \E n \in Nodes : AssignTask(t, n)
          PROVE  SplittingInv'
      BY <2>1, <2>3 DEF LeaveTaskQueued, FailSplit, AssignTask, AtTask
    <2>4. ASSUME NEW c \in Chunks,
                 LeaveChunkQueued(c) \/ \E n \in Nodes : AssignChunk(c, n)
          PROVE  SplittingInv'
      BY <2>1, <2>4 DEF LeaveChunkQueued, AssignChunk, AtChunk, SplittingInv
    <2>5. ASSUME NEW t \in SplitTasks, NEW k \in 0..MaxChunks, BeginSplit(t, k)
          PROVE  SplittingInv'
      BY <2>5 DEF BeginSplit, AtTask, SplittingInv, Parent
    <2>6. ASSUME NEW c \in Chunks, CreateChunk(c)
          PROVE  SplittingInv'
      BY <2>6 DEF CreateChunk, SplittingInv
    <2>7. ASSUME NEW t \in Tasks, EndSplit(t)
          PROVE  SplittingInv'
      BY <2>7 DEF EndSplit, SplittingInv
    <2> QED
      BY <1>3, <2>2, <2>3, <2>4, <2>5, <2>6, <2>7
      DEF SchedulerNext, SchedulerQuietStep
  <1> QED
    BY <1>1, <1>2, <1>3, SchedulerSteps

\* A handler of a request has seen the row it is about to write.
RequestsGrow ==
    \A t \in Tasks :
        /\ t \in cancelling' => t \in cancelling \/ status[t] # "absent"
        /\ retrying'[t] > 0 =>
              retrying[t] > 0 \/ ("retry" \in Requests /\ status[t] # "absent")

\* A result's handler has written the chunk before it counts, and has counted
\* before it completes the parent.
ResultsGrow ==
    /\ \A c \in checking' :
          c \in checking \/ chunkStatus'[c] \in {"completed", "failed"}
    /\ \A c \in completing' :
          \/ c \in completing
          \/ /\ c \in checking
             /\ AreAllChunksCompleted(Parent(c))
             /\ UNCHANGED storeVars

LEMMA RequestSteps ==
    ASSUME TypeOK, [Next]_vars
    PROVE  RequestsGrow
  <1>1. APITypeOK /\ StoreTypeOK
    BY TypeParts
  <1>2. CASE UNCHANGED <<cancelling, retrying>>
    BY <1>2 DEF RequestsGrow
  <1>3. ASSUME NEW t \in Tasks, Cancel(t) \/ Retry(t)
        PROVE  RequestsGrow
    BY <1>1, <1>3
    DEF Cancel, CancelRead, Retry, RetryRead, RequestsGrow, APITypeOK, Terminal
  <1>4. ASSUME NEW t \in Tasks, FinishRequest(t)
        PROVE  RequestsGrow
    BY <1>1, <1>4
    DEF FinishRequest, CancelWrite, RetryWrite, RequestsGrow, APITypeOK
  <1>5. CASE Restart
    BY <1>5 DEF Restart, RequestsGrow
  <1>6. CASE SchedulerNext \/ MonitorNext \/ OperatorNext \/ UNCHANGED vars
    BY <1>2, <1>6
    DEF SchedulerNext, MonitorNext, OperatorNext, HandleDeleteNode,
        HandleUpdateNodeStatus, HandleReserveNode, HandleUnreserveNode, vars,
        apiVars
  <1>7. ASSUME NEW t \in Tasks, Submit(t)
        PROVE  RequestsGrow
    BY <1>2, <1>7 DEF Submit, HandleSubmitTask, apiVars
  <1>8. ASSUME NEW n \in Nodes,
               \/ FinishPoll(n) \/ FinishAbandoned(n) \/ Respond(n)
               \/ DeadAgent(n) \/ AgentStep(Join(n))
               \/ AgentStep(Heartbeat(n)) \/ AgentStep(Poll(n))
        PROVE  RequestsGrow
    BY <1>2, <1>8
    DEF FinishPoll, PollReadChunks, PollMark, FinishAbandoned, AbandonedMark,
        Respond, PollRespond, DeadAgent, Lapse, PollUnanswered, AgentStep,
        Join, HandleNodeJoin, Heartbeat, Poll, PollReadTasks, apiVars
  <1>9. ASSUME NEW n \in Nodes, NEW i \in Items, Report(n, i)
        PROVE  RequestsGrow
    BY <1>2, <1>9
    DEF Report, ReportTask, HandleTaskResult, ReportChunk, HandleChunkResult,
        apiVars
  <1>10. ASSUME NEW c \in Chunks, FinishResult(c)
         PROVE  RequestsGrow
    BY <1>2, <1>10 DEF FinishResult, CheckAllChunks, CompleteParent
  <1>11. CASE FaultNext
    BY <1>2, <1>11
    DEF FaultNext, Disconnect, JoinUnanswered, HandleNodeJoin, PollUnanswered,
        PollAbandon, ResultLost, Lapse, Die, apiVars
  <1> QED
    BY <1>3, <1>4, <1>5, <1>6, <1>7, <1>8, <1>9, <1>10, <1>11 DEF Next

LEMMA ResultSteps ==
    ASSUME TypeOK, [Next]_vars
    PROVE  ResultsGrow
  <1>1. APITypeOK /\ StoreTypeOK
    BY TypeParts
  <1>2. CASE UNCHANGED <<checking, completing>>
    BY <1>2 DEF ResultsGrow
  <1>3. ASSUME NEW n \in Nodes, NEW i \in Items, Report(n, i)
        PROVE  ResultsGrow
    <2>1. CASE i \in Chunks /\ \E s \in {"completed", "failed"} :
                                  ReportChunk(n, i, s)
      BY <1>1, <2>1
      DEF ReportChunk, HandleChunkResult, UpdateChunkStatus, ResultsGrow,
          StoreTypeOK
    <2>2. CASE \E e \in {0, 1} : ReportTask(n, i, e)
      BY <1>2, <2>2 DEF ReportTask, HandleTaskResult, apiVars, resultVars
    <2> QED
      BY <1>3, <2>1, <2>2 DEF Report
  <1>4. ASSUME NEW c \in Chunks, FinishResult(c)
        PROVE  ResultsGrow
    BY <1>4 DEF FinishResult, CheckAllChunks, CompleteParent, ResultsGrow
  <1>5. CASE Restart
    BY <1>5 DEF Restart, ResultsGrow
  <1>6. CASE SchedulerNext \/ MonitorNext \/ OperatorNext \/ UNCHANGED vars
    BY <1>2, <1>6
    DEF SchedulerNext, MonitorNext, OperatorNext, HandleDeleteNode,
        HandleUpdateNodeStatus, HandleReserveNode, HandleUnreserveNode, vars,
        apiVars, resultVars
  <1>7. ASSUME NEW t \in Tasks,
               Submit(t) \/ Cancel(t) \/ Retry(t) \/ FinishRequest(t)
        PROVE  ResultsGrow
    BY <1>2, <1>7
    DEF Submit, HandleSubmitTask, Cancel, CancelRead, Retry, RetryRead,
        FinishRequest, CancelWrite, RetryWrite, apiVars, resultVars
  <1>8. ASSUME NEW n \in Nodes,
               \/ FinishPoll(n) \/ FinishAbandoned(n) \/ Respond(n)
               \/ DeadAgent(n) \/ AgentStep(Join(n))
               \/ AgentStep(Heartbeat(n)) \/ AgentStep(Poll(n))
        PROVE  ResultsGrow
    BY <1>2, <1>8
    DEF FinishPoll, PollReadChunks, PollMark, FinishAbandoned, AbandonedMark,
        Respond, PollRespond, DeadAgent, Lapse, PollUnanswered, AgentStep,
        Join, HandleNodeJoin, Heartbeat, Poll, PollReadTasks, apiVars, resultVars
  <1>9. CASE FaultNext
    BY <1>2, <1>9
    DEF FaultNext, Disconnect, JoinUnanswered, HandleNodeJoin, PollUnanswered,
        PollAbandon, ResultLost, Lapse, Die, apiVars, resultVars
  <1> QED
    BY <1>3, <1>4, <1>5, <1>6, <1>7, <1>8, <1>9 DEF Next

-----------------------------------------------------------------------------
(* Whatever is acted on exists. *)

\* The lists and the handlers hold tasks that were submitted, ...
TasksKnown ==
    /\ \A t \in sTasks \cup cancelling \cup mRetry : status[t] # "absent"
    /\ \A t \in Tasks : retrying[t] > 0 => status[t] # "absent"

\* ... chunks that were created, ...
ChunksKnown ==
    \A c \in sChunks \cup checking \cup completing : chunkStatus[c] # "absent"

\* ... of tasks that were submitted; and only what exists is given away.
ParentsKnown ==
    \A c \in Chunks : chunkStatus[c] # "absent" => status[Parent(c)] # "absent"

GivenKnown == \A i \in Items : assigns[i] > 0 => RowStatus(i) # "absent"

KnownInv == TasksKnown /\ ChunksKnown /\ ParentsKnown /\ GivenKnown

\* Rows are not removed.
LEMMA RowsStay ==
    ASSUME TypeOK, [Next]_vars
    PROVE  /\ \A t \in Tasks : status'[t] = "absent" => status[t] = "absent"
           /\ \A c \in Chunks :
                 chunkStatus'[c] = "absent" => chunkStatus[c] = "absent"
  <1>1. StoreTypeOK
    BY TypeParts
  <1>2. CASE QuietStep
    BY <1>2 DEF QuietStep, StoreQuiet
  <1>3. ASSUME NEW u \in Tasks, NEW n \in Nodes, AssignTaskStep(u, n)
        PROVE  /\ \A t \in Tasks : status'[t] = "absent" => status[t] = "absent"
               /\ UNCHANGED chunkStatus
    BY <1>1, <1>3
    DEF AssignTaskStep, AssignTask, UpdateTaskAssignment, chunkTable, StoreTypeOK
  <1>4. ASSUME NEW d \in Chunks, NEW n \in Nodes, AssignChunkStep(d, n)
        PROVE  /\ \A c \in Chunks :
                     chunkStatus'[c] = "absent" => chunkStatus[c] = "absent"
               /\ UNCHANGED status
    BY <1>1, <1>4
    DEF AssignChunkStep, AssignChunk, UpdateChunkAssignment, taskTable,
        chunkTable, StoreTypeOK
  <1>5. ASSUME NEW u \in Tasks, RescheduleStep(u) \/ RetryStep(u)
        PROVE  /\ \A t \in Tasks : status'[t] = "absent" => status[t] = "absent"
               /\ UNCHANGED chunkStatus
    BY <1>1, <1>5
    DEF RescheduleStep, RescheduleTask, RetryStep, RetryWrite,
        IncrementTaskRetry, chunkTable, StoreTypeOK
  <1> QED
    BY <1>2, <1>3, <1>4, <1>5, StepKinds

\* The lists of the scheduler and the monitor grow by rows that exist.
LEMMA ListsGrow ==
    ASSUME [Next]_vars, TypeOK
    PROVE  /\ \A t \in sTasks' : t \in sTasks \/ t \in GetQueuedTasks
           /\ \A c \in sChunks' : c \in sChunks \/ c \in GetQueuedChunks
           /\ \A t \in mRetry' :
                 \/ t \in mRetry
                 \/ /\ t \in Tasks /\ status[t] = "running"
                    /\ assignedNode[t] \in Nodes
  <1>1. CASE QuietStep
    BY <1>1 DEF QuietStep, SnapshotsGrowQueued, ListNodeTasks
  <1>2. ASSUME NEW t \in Tasks, NEW n \in Nodes, AssignTaskStep(t, n)
        PROVE  UNCHANGED mRetry /\ sTasks' \subseteq sTasks /\ UNCHANGED sChunks
    BY <1>2 DEF AssignTaskStep, AssignTask, Continue, monitorVars
  <1>3. ASSUME NEW c \in Chunks, NEW n \in Nodes, AssignChunkStep(c, n)
        PROVE  UNCHANGED mRetry /\ sTasks' = {} /\ sChunks' \subseteq sChunks
    BY <1>3 DEF AssignChunkStep, AssignChunk, Continue, monitorVars
  <1>4. ASSUME NEW t \in Tasks, RescheduleStep(t) \/ RetryStep(t)
        PROVE  UNCHANGED <<sTasks, sChunks>> /\ mRetry' \subseteq mRetry
    BY <1>4
    DEF RescheduleStep, RescheduleTask, RetryStep, schedulerVars, monitorVars
  <1> QED
    BY <1>1, <1>2, <1>3, <1>4, StepKinds

LEMMA TasksKnownStep ==
    ASSUME TypeOK, TasksKnown, [Next]_vars
    PROVE  TasksKnown'
  <1>1. /\ sTasks \cup cancelling \cup mRetry \subseteq Tasks
        /\ cancelling' \subseteq Tasks
    BY TypeStep, TypeParts
    DEF TypeOK, SchedulerTypeOK, APITypeOK, MonitorTypeOK
  <1>2. \A t \in sTasks' \cup cancelling' \cup mRetry' :
           t \in Tasks /\ status[t] # "absent"
    BY <1>1, ListsGrow, RequestSteps
    DEF TasksKnown, GetQueuedTasks, RequestsGrow
  <1> QED
    BY <1>2, RowsStay, RequestSteps DEF TasksKnown, RequestsGrow

LEMMA ChunksKnownStep ==
    ASSUME TypeOK, ChunksKnown, [Next]_vars
    PROVE  ChunksKnown'
  <1>1. /\ sChunks \cup checking \cup completing \subseteq Chunks
        /\ checking' \subseteq Chunks
    BY TypeStep, TypeParts DEF TypeOK, SchedulerTypeOK, APITypeOK
  <1>2. ASSUME NEW c \in sChunks' \cup completing'
        PROVE  c \in Chunks /\ chunkStatus[c] # "absent"
    BY <1>1, <1>2, ListsGrow, ResultSteps
    DEF ChunksKnown, GetQueuedChunks, ResultsGrow
  <1>3. ASSUME NEW c \in checking'
        PROVE  chunkStatus'[c] # "absent"
    BY <1>1, <1>3, ResultSteps, RowsStay DEF ChunksKnown, ResultsGrow
  <1> QED
    BY <1>2, <1>3, RowsStay DEF ChunksKnown

\* What was never given is in no handler and executes nowhere.
LEMMA NotGiven ==
    ASSUME TypeOK, PollInv, AccountInv, WorkInv, NEW i \in Items, assigns[i] = 0
    PROVE  ~ToBeMarked(i) /\ ~Executing(i)
  <1>1. starts[i] = 0
    BY StartsGiven
  <1>2. ~Executing(i)
    BY <1>1 DEF WorkInv, DoneWasStarted, Executing
  <1>3. \A n \in Nodes : i \notin batch[n] /\ i \notin abandoned[n]
    BY <1>1, BatchGiven DEF WorkInv, HeldWasGiven
  <1> QED
    BY <1>2, <1>3 DEF PollInv, ToBeMarked

LEMMA ParentsKnownStep ==
    ASSUME TypeOK, PollInv, AccountInv, WorkInv, SplittingInv, KnownInv,
           [Next]_vars
    PROVE  ParentsKnown'
  <1> SUFFICES ASSUME NEW c \in Chunks, chunkStatus'[c] # "absent",
                      chunkStatus[c] = "absent"
               PROVE  status[Parent(c)] # "absent"
    BY RowsStay, ParentInTasks DEF ParentsKnown, KnownInv
  <1>1. StoreTypeOK /\ c \in Items /\ c \notin Tasks
    BY TypeParts, CountTypes, TasksAreNotChunks
  <1>2. assigns[c] \in Nat
    BY <1>1, CountTypes
  <1>3. assigns[c] = 0
    BY <1>1, <1>2 DEF KnownInv, GivenKnown, RowStatus
  <1>4. CASE c \in toCreate
    BY <1>4 DEF SplittingInv, KnownInv, TasksKnown
  <1>5. CASE c \in sChunks
    BY <1>5 DEF KnownInv, ChunksKnown
  <1>6. ~ToBeMarked(c) /\ ~Executing(c)
    BY <1>1, <1>3, NotGiven
  <1> QED
    BY <1>4, <1>5, <1>6, ChunkMoves DEF ChunkMove

LEMMA GivenKnownStep ==
    ASSUME TypeOK, GivenKnown, [Next]_vars
    PROVE  GivenKnown'
  <1> SUFFICES ASSUME NEW i \in Items, assigns'[i] > 0
               PROVE  RowStatus(i)' # "absent"
    BY DEF GivenKnown
  <1>1. StoreTypeOK /\ assigns \in [Items -> Nat]
    BY TypeParts, CountTypes
  <1>2. CASE assigns'[i] = assigns[i]
    <2>1. RowStatus(i) # "absent"
      BY <1>2 DEF GivenKnown
    <2> QED
      BY <2>1, RowsStay DEF RowStatus, Items
  <1>3. ASSUME NEW u \in Tasks, NEW n \in Nodes, AssignTaskStep(u, n),
               assigns'[i] # assigns[i]
        PROVE  RowStatus(i)' = "scheduled"
    BY <1>1, <1>3
    DEF AssignTaskStep, AssignTask, UpdateTaskAssignment, Counting, RowStatus,
        StoreTypeOK
  <1>4. ASSUME NEW d \in Chunks, NEW n \in Nodes, AssignChunkStep(d, n),
               assigns'[i] # assigns[i]
        PROVE  RowStatus(i)' = "scheduled"
    <2>1. i = d /\ ~Refused(n)
      BY <1>1, <1>4 DEF AssignChunkStep, Counting
    <2> QED
      BY <1>1, <1>4, <2>1, TasksAreNotChunks
      DEF AssignChunkStep, AssignChunk, UpdateChunkAssignment, RowStatus,
          chunkTable, StoreTypeOK
  <1> QED
    BY <1>2, <1>3, <1>4, StepKinds
    DEF QuietStep, RescheduleStep, RetryStep, historyVars

\* The strengthening the refinement rests on.
LifeInv ==
    AssignInv /\ PollInv /\ AccountInv /\ WorkInv /\ SplittingInv /\ KnownInv

LEMMA LifeStep == TypeOK /\ LifeInv /\ [Next]_vars => LifeInv'
  BY AssignStep, PollInvStep, AccountStep, WorkStep, SplittingStep,
     TasksKnownStep, ChunksKnownStep, ParentsKnownStep, GivenKnownStep
  DEF LifeInv, KnownInv

LEMMA LifeInvariant == Spec => []LifeInv
  <1>1. Init => WorkInv /\ SplittingInv /\ KnownInv
    <2> SUFFICES ASSUME Init PROVE WorkInv /\ SplittingInv /\ KnownInv
      OBVIOUS
    <2>1. WorkInv
      BY WorkInit
    <2>2. SplittingInv
      BY DEF Init, SchedulerInit, SplittingInv
    <2>3. TasksKnown /\ ChunksKnown /\ ParentsKnown /\ GivenKnown
      BY DEF Init, SchedulerInit, MonitorInit, APIInit, StoreInit, TasksKnown,
             ChunksKnown, ParentsKnown, GivenKnown
    <2> QED
      BY <2>1, <2>2, <2>3 DEF KnownInv
  <1>2. /\ TypeOK /\ AssignInv /\ PollInv /\ AccountInv
        /\ WorkInv /\ SplittingInv /\ KnownInv /\ [Next]_vars
        => WorkInv' /\ SplittingInv' /\ KnownInv'
    BY LifeStep DEF LifeInv
  <1>3. LifeInv <=> /\ AssignInv /\ PollInv /\ AccountInv
                    /\ WorkInv /\ SplittingInv /\ KnownInv
    BY DEF LifeInv
  <1> QED
    BY <1>1, <1>2, <1>3, TypeCorrect, AssignInvariant, AccountInvariant, PTL
    DEF Spec

-----------------------------------------------------------------------------
(* Each kind of step is one of TaskLifecycle, or a stutter. *)

LEMMA ShowTask ==
    ASSUME TypeOK, NEW t \in Tasks, NEW s, TaskWritten(t, s)
    PROVE  /\ Lifecycle!Show(t, s)
           /\ UNCHANGED <<rowNode, rowAttempts, assigns, starts>>
           /\ t \in Items
           /\ rowStatus[t] = status[t]
  <1>1. StoreTypeOK /\ t \in Items
    BY TypeParts, CountTypes
  <1> QED
    BY <1>1
    DEF TaskWritten, Lifecycle!Show, rowStatus, rowNode, rowAttempts, RowStatus,
        RowNode, Attempts, StoreTypeOK

LEMMA ShowChunk ==
    ASSUME TypeOK, NEW c \in Chunks, NEW s, ChunkWritten(c, s)
    PROVE  /\ Lifecycle!Show(c, s)
           /\ UNCHANGED <<rowNode, rowAttempts, assigns, starts>>
           /\ c \in Items
           /\ rowStatus[c] = chunkStatus[c]
  <1>1. StoreTypeOK /\ c \in Items /\ c \notin Tasks
    BY TypeParts, CountTypes, TasksAreNotChunks
  <1>2. \A i \in Items : RowStatus(i)' = IF i = c THEN s ELSE RowStatus(i)
    BY <1>1 DEF ChunkWritten, RowStatus, StoreTypeOK, Items
  <1>3. rowStatus' = [rowStatus EXCEPT ![c] = s]
    BY <1>1, <1>2 DEF rowStatus
  <1>4. UNCHANGED <<rowNode, rowAttempts, assigns, starts>>
    BY DEF ChunkWritten, rowNode, rowAttempts, RowNode, Attempts
  <1> QED
    BY <1>1, <1>3, <1>4 DEF Lifecycle!Show, rowStatus, RowStatus

\* What a handler marks as running was given to a node, what executes was
\* started, and nothing is either without a row.
LEMMA Backed ==
    ASSUME TypeOK, LifeInv, NEW i \in Items
    PROVE  /\ ToBeMarked(i) => assigns[i] > 0
           /\ Executing(i) => starts[i] > 0
  <1>1. starts[i] \in Nat /\ assigns[i] \in Nat
    BY CountTypes
  <1>2. \A n \in Nodes : i \in batch[n] => assigns[i] > 0
    BY <1>1, BatchGiven DEF LifeInv
  <1> QED
    BY <1>2
    DEF LifeInv, PollInv, WorkInv, HeldWasGiven, DoneWasStarted, ToBeMarked,
        Executing

LEMMA TaskWriteLife ==
    ASSUME TypeOK, LifeInv, NEW t \in Tasks, NEW s \in TaskStatuses,
           TaskReason(t, s), TaskWritten(t, s)
    PROVE  Lifecycle!Next
  <1>1. /\ Lifecycle!Show(t, s)
        /\ UNCHANGED <<rowNode, rowAttempts, assigns, starts>>
        /\ t \in Items
        /\ rowStatus[t] = status[t]
    BY ShowTask
  <1>2. CASE s = "queued" /\ status[t] = "absent"
    BY <1>1, <1>2 DEF Lifecycle!Next, Lifecycle!Ask
  <1>3. CASE s = "cancelled" /\ t \in cancelling
    BY <1>1, <1>3
    DEF Lifecycle!Next, Lifecycle!Cancel, LifeInv, KnownInv, TasksKnown
  <1>4. CASE s = "running" /\ ToBeMarked(t)
    BY <1>1, <1>4, Backed DEF Lifecycle!Next, Lifecycle!Announce
  <1>5. CASE s \in {"completed", "failed"} /\ Executing(t)
    BY <1>1, <1>5, Backed DEF Lifecycle!Next, Lifecycle!Record
  <1>6. CASE s = "failed" /\ t \in mFail
    BY <1>1, <1>6
    DEF Lifecycle!Next, Lifecycle!Record, LifeInv, WorkInv, HeldWasGiven
  <1>7. ASSUME t \in SplitTasks, status[t] # "absent",
               s \in {"splitting", "completed", "failed"}
        PROVE  Lifecycle!Next
    BY <1>1, <1>7
    DEF Lifecycle!Next, Lifecycle!Follow, LifeInv, WorkInv, SplitNotGiven
  <1>8. CASE s = "failed" /\ t \in SplitTasks /\ t \in sTasks
    BY <1>7, <1>8 DEF LifeInv, KnownInv, TasksKnown
  <1>9. CASE s = "splitting" /\ t \in splitting
    <2>1. t \in SplitTasks
      BY <1>9, TypeParts DEF SchedulerTypeOK
    <2> QED
      BY <1>7, <1>9, <2>1 DEF LifeInv, SplittingInv, KnownInv, TasksKnown
  <1>10. CASE s = "completed" /\ \E c \in completing : Parent(c) = t
    <2>1. PICK c \in completing : Parent(c) = t
      BY <1>10
    <2>2. c \in Chunks /\ chunkStatus[c] # "absent"
      BY <2>1, TypeParts DEF APITypeOK, LifeInv, KnownInv, ChunksKnown
    <2>3. t \in SplitTasks /\ status[t] # "absent"
      BY <2>1, <2>2, ParentInTasks DEF LifeInv, KnownInv, ParentsKnown
    <2> QED
      BY <1>7, <1>10, <2>3
  <1> QED
    BY <1>2, <1>3, <1>4, <1>5, <1>6, <1>8, <1>9, <1>10 DEF TaskReason

LEMMA ChunkWriteLife ==
    ASSUME TypeOK, LifeInv, NEW c \in Chunks, NEW s \in ChunkStatuses,
           ChunkReason(c, s), ChunkWritten(c, s)
    PROVE  Lifecycle!Next
  <1>1. /\ Lifecycle!Show(c, s)
        /\ UNCHANGED <<rowNode, rowAttempts, assigns, starts>>
        /\ c \in Items
        /\ rowStatus[c] = chunkStatus[c]
    BY ShowChunk
  <1>2. CASE s = "queued" /\ chunkStatus[c] = "absent"
    BY <1>1, <1>2 DEF Lifecycle!Next, Lifecycle!Ask
  <1>3. CASE s = "running" /\ ToBeMarked(c)
    BY <1>1, <1>3, Backed DEF Lifecycle!Next, Lifecycle!Announce
  <1>4. CASE s \in {"completed", "failed"} /\ Executing(c)
    BY <1>1, <1>4, Backed DEF Lifecycle!Next, Lifecycle!Record
  <1> QED
    BY <1>2, <1>3, <1>4 DEF ChunkReason

\* What is on the scheduler's lists exists, is on no node, and has an attempt
\* left; so the row, if the database takes the write, was given once more.
LEMMA AssignLife ==
    ASSUME TypeOK, LifeInv, NEW i \in Items, NEW n \in Nodes,
           \/ i \in Tasks /\ AssignTaskStep(i, n) /\ UNCHANGED starts
           \/ i \in Chunks /\ AssignChunkStep(i, n) /\ UNCHANGED starts
    PROVE  Lifecycle!Next \/ UNCHANGED Lifecycle!lifeVars
  <1>1. StoreTypeOK /\ assigns \in [Items -> Nat]
    BY TypeParts, CountTypes
  <1>2. UNCHANGED rowAttempts
    BY DEF AssignTaskStep, AssignTask, UpdateTaskAssignment, AssignChunkStep,
           AssignChunk, UpdateChunkAssignment, taskTable, rowAttempts, Attempts
  <1>3. CASE Refused(n)
    <2>1. UNCHANGED <<status, assignedNode, chunkStatus, chunkNode, assigns>>
      BY <1>1, <1>3
      DEF AssignTaskStep, AssignTask, UpdateTaskAssignment, AssignChunkStep,
          AssignChunk, UpdateChunkAssignment, Counting, taskTable, chunkTable
    <2> QED
      BY <1>2, <2>1
      DEF Lifecycle!lifeVars, rowStatus, rowNode, RowStatus, RowNode
  <1>4. CASE ~Refused(n)
    <2>1. /\ rowStatus[i] # "absent"
          /\ rowNode[i] = NoNode
          /\ assigns[i] < rowAttempts[i]
      <3>1. CASE i \in Tasks
        <4>1. i \in sTasks
          BY <3>1, TasksAreNotChunks DEF AssignTaskStep, AssignTask, AtTask
        <4>2. assigns[i] \in Nat /\ retryCount[i] \in Nat
          BY <1>1, <3>1 DEF StoreTypeOK
        <4> QED
          BY <3>1, <4>1, <4>2
          DEF LifeInv, KnownInv, TasksKnown, AssignInv, TaskAssignInv,
              WaitingTask, rowStatus, rowNode, rowAttempts, RowStatus, RowNode,
              Attempts
      <3>2. CASE i \in Chunks
        <4>1. i \in sChunks /\ i \notin Tasks
          BY <3>2, TasksAreNotChunks DEF AssignChunkStep, AssignChunk, AtChunk
        <4> QED
          BY <3>2, <4>1
          DEF LifeInv, KnownInv, ChunksKnown, AssignInv, ChunkAssignInv,
              WaitingChunk, rowStatus, rowNode, rowAttempts, RowStatus, RowNode,
              Attempts
      <3> QED
        BY <3>1, <3>2 DEF Items
    <2>2. assigns' = [assigns EXCEPT ![i] = @ + 1]
      BY <1>1, <1>4 DEF AssignTaskStep, AssignChunkStep, Counting
    <2>3. /\ rowStatus' = [rowStatus EXCEPT ![i] = "scheduled"]
          /\ rowNode' = [rowNode EXCEPT ![i] = n]
      <3>1. CASE i \in Tasks
        <4>1. /\ status' = [status EXCEPT ![i] = "scheduled"]
              /\ assignedNode' = [assignedNode EXCEPT ![i] = n]
              /\ UNCHANGED <<chunkStatus, chunkNode>>
          BY <1>4, <3>1, TasksAreNotChunks
          DEF AssignTaskStep, AssignTask, UpdateTaskAssignment, chunkTable
        <4> QED
          BY <1>1, <3>1, <4>1
          DEF StoreTypeOK, rowStatus, rowNode, RowStatus, RowNode
      <3>2. CASE i \in Chunks
        <4>1. /\ chunkStatus' = [chunkStatus EXCEPT ![i] = "scheduled"]
              /\ chunkNode' = [chunkNode EXCEPT ![i] = n]
              /\ UNCHANGED <<status, assignedNode>>
              /\ i \notin Tasks
          BY <1>4, <3>2, TasksAreNotChunks
          DEF AssignChunkStep, AssignChunk, UpdateChunkAssignment, taskTable
        <4> QED
          BY <1>1, <3>2, <4>1
          DEF StoreTypeOK, rowStatus, rowNode, RowStatus, RowNode, Items
      <3> QED
        BY <3>1, <3>2 DEF Items
    <2>4. starts' = starts
      OBVIOUS
    <2>5. Lifecycle!Give(i, n)
      BY <1>2, <2>1, <2>2, <2>3, <2>4 DEF Lifecycle!Give, Lifecycle!Show
    <2> QED
      BY <2>5 DEF Lifecycle!Next
  <1> QED
    BY <1>3, <1>4

\* The monitor's retries and the clients': only tasks that exist get them.
LEMMA RetryLife ==
    ASSUME TypeOK, LifeInv, NEW t \in Tasks,
           (RescheduleStep(t) /\ UNCHANGED starts) \/ RetryStep(t)
    PROVE  Lifecycle!Next \/ UNCHANGED Lifecycle!lifeVars
  <1>1. /\ StoreTypeOK
        /\ t \in Items
        /\ IncrementTaskRetry(t)
        /\ UNCHANGED <<assigns, starts, chunkStatus, chunkNode>>
    BY TypeParts, CountTypes
    DEF RescheduleStep, RescheduleTask, RetryStep, RetryWrite, historyVars,
        IncrementTaskRetry, chunkTable
  <1>2. status[t] # "absent"
    BY DEF RescheduleStep, RescheduleTask, RetryStep, RetryWrite, LifeInv,
           KnownInv, TasksKnown
  <1>3. CASE Refused(NoNode)
    <2>1. UNCHANGED <<status, assignedNode, retryCount>>
      BY <1>1, <1>3 DEF IncrementTaskRetry
    <2> QED
      BY <1>1, <2>1
      DEF Lifecycle!lifeVars, rowStatus, rowNode, rowAttempts, RowStatus,
          RowNode, Attempts
  <1>4. CASE ~Refused(NoNode)
    <2>1. /\ status' = [status EXCEPT ![t] = "queued"]
          /\ assignedNode' = [assignedNode EXCEPT ![t] = NoNode]
          /\ retryCount' = [retryCount EXCEPT ![t] = @ + 1]
      BY <1>1, <1>4 DEF IncrementTaskRetry
    <2>2. rowStatus' = [rowStatus EXCEPT ![t] = "queued"]
      BY <1>1, <2>1 DEF StoreTypeOK, rowStatus, RowStatus
    <2>3. rowNode' = [rowNode EXCEPT ![t] = NoNode]
      BY <1>1, <2>1 DEF StoreTypeOK, rowNode, RowNode
    <2>4. rowAttempts' = [rowAttempts EXCEPT ![t] = @ + 1]
      <3>1. retryCount'[t] = retryCount[t] + 1 /\ retryCount[t] \in Nat
        BY <1>1, <2>1 DEF StoreTypeOK
      <3>2. \A i \in Items :
               Attempts(i)' = IF i = t THEN Attempts(i) + 1 ELSE Attempts(i)
        BY <1>1, <2>1, <3>1 DEF StoreTypeOK, Attempts
      <3> QED
        BY <1>1, <3>2 DEF rowAttempts
    <2>5. rowStatus[t] # "absent"
      BY <1>1, <1>2 DEF rowStatus, RowStatus
    <2> QED
      BY <1>1, <2>2, <2>3, <2>4, <2>5
      DEF Lifecycle!Next, Lifecycle!Retry, Lifecycle!Show
  <1> QED
    BY <1>3, <1>4

LEMMA ServedLife ==
    ASSUME TypeOK, LifeInv, NEW n \in Nodes, Served(n)
    PROVE  Lifecycle!Next
  <1>1. /\ starts \in [Items -> Nat]
        /\ batch[n] \in SUBSET Items
    BY CountTypes, TypeParts DEF APITypeOK
  <1>2. \A i \in batch[n] : starts[i] < assigns[i]
    BY <1>1, BatchGiven DEF LifeInv
  <1>3. UNCHANGED <<rowStatus, rowNode, rowAttempts, assigns>>
    BY DEF Served, rowStatus, rowNode, rowAttempts, RowStatus, RowNode, Attempts
  <1>4. starts' = [i \in Items |->
                      IF i \in batch[n] THEN starts[i] + 1 ELSE starts[i]]
    BY <1>1 DEF Served
  <1>5. Lifecycle!Start(batch[n])
    BY <1>2, <1>3, <1>4 DEF Lifecycle!Start
  <1> QED
    BY <1>1, <1>5 DEF Lifecycle!Next

LEMMA LifecycleStep ==
    ASSUME TypeOK, LifeInv, [Next]_vars
    PROVE  [Lifecycle!Next]_(Lifecycle!lifeVars)
  <1>1. CASE RowsKept
    BY <1>1
    DEF RowsKept, Lifecycle!lifeVars, rowStatus, rowNode, rowAttempts,
        RowStatus, RowNode, Attempts
  <1> QED
    BY <1>1, RowSteps, TaskWriteLife, ChunkWriteLife, AssignLife, RetryLife,
       ServedLife
    DEF RowStep, Items

\* Whatever is stale, lost, repeated or restarted: what clients see of tasks
\* and chunks follows the account of attempts of TaskLifecycle.
THEOREM ImplementsLifecycleHolds == Spec => ImplementsLifecycle
  <1>1. Init => Lifecycle!Init
    <2> SUFFICES ASSUME Init PROVE Lifecycle!Init
      OBVIOUS
    <2>1. \A t \in Tasks : t \in Items
      BY DEF Items
    <2>2. /\ rowStatus = [i \in Items |-> "absent"]
          /\ rowNode = [i \in Items |-> NoNode]
          /\ rowAttempts = [i \in Items |-> 1]
      BY DEF Init, StoreInit, rowStatus, rowNode, rowAttempts, RowStatus,
             RowNode, Attempts, Items
    <2> QED
      BY <2>2 DEF Init, Lifecycle!Init
  <1>2. TypeOK /\ LifeInv /\ [Next]_vars => [Lifecycle!Next]_(Lifecycle!lifeVars)
    BY LifecycleStep
  <1> QED
    BY <1>1, <1>2, TypeCorrect, LifeInvariant, PTL
    DEF Spec, ImplementsLifecycle, Lifecycle!Spec

-----------------------------------------------------------------------------
(* Parents and their chunks, when no client retries a parent: a restart may *)
(* make the scheduler begin a split again, but not once a chunk was given.  *)

NoRetries == "retry" \notin Requests

\* No retry of a parent is under way.
NoParentRetry == \A t \in SplitTasks : t \notin mRetry /\ retrying[t] = 0

\* As long as a parent is to be split, its chunks wait; and when a restart left
\* some behind, the parent is on the list before them.
ChunksFollow ==
    \A c \in Chunks :
        /\ WaitingTask(Parent(c)) => chunkStatus[c] \in Untaken
        /\ /\ chunkStatus[c] # "absent" /\ status[Parent(c)] \in Untaken
           /\ phase # "tasks"
           => Parent(c) \in sTasks

OnceInv == NoParentRetry /\ ChunksFollow

\* A parent leaves the list only by being split, or at the end of a cycle.
LEMMA ListKept ==
    ASSUME TypeOK, [Next]_vars, NEW t \in SplitTasks,
           t \in sTasks \/ (phase = "tasks" /\ status[t] = "queued"),
           status[t] = "queued", status'[t] = "queued", phase' # "tasks"
    PROVE  t \in sTasks'
  <1>1. StoreTypeOK /\ t \in Tasks
    BY TypeParts, StoreAssumptions
  <1>2. CASE UNCHANGED schedulerVars \/ Restart
    BY <1>2 DEF schedulerVars, Restart
  <1>3. CASE ReadQueuedTasks
    BY <1>1, <1>3 DEF ReadQueuedTasks, GetQueuedTasks
  <1>4. CASE ReadQueuedChunks \/ ReadOnlineNodes
    BY <1>4 DEF ReadQueuedChunks, ReadOnlineNodes, Continue
  <1>5. ASSUME NEW u \in Tasks,
               LeaveTaskQueued(u) \/ \E n \in Nodes : AssignTask(u, n)
        PROVE  t \in sTasks'
    BY <1>5 DEF LeaveTaskQueued, AssignTask, AtTask, Continue
  <1>6. ASSUME NEW u \in Tasks, FailSplit(u) \/ EndSplit(u)
        PROVE  t \in sTasks'
    <2>1. u # t
      BY <1>1, <1>6
      DEF FailSplit, EndSplit, UpdateTaskResult, UpdateTaskStatus, StoreTypeOK
    <2> QED
      BY <1>6, <2>1 DEF FailSplit, EndSplit, AtTask, Continue
  <1>7. ASSUME NEW u \in SplitTasks, NEW k \in 0..MaxChunks, BeginSplit(u, k)
        PROVE  t \in sTasks'
    BY <1>7 DEF BeginSplit
  <1>8. ASSUME NEW c \in Chunks,
               \/ CreateChunk(c) \/ LeaveChunkQueued(c)
               \/ \E n \in Nodes : AssignChunk(c, n)
        PROVE  t \in sTasks'
    BY <1>8 DEF CreateChunk, LeaveChunkQueued, AssignChunk, AtChunk
  <1> QED
    BY <1>2, <1>3, <1>4, <1>5, <1>6, <1>7, <1>8, SchedulerSteps
    DEF SchedulerNext, SchedulerQuietStep

LEMMA NoParentRetryStep ==
    ASSUME NoRetries, TypeOK, LifeInv, NoParentRetry, [Next]_vars
    PROVE  NoParentRetry'
  <1> SUFFICES ASSUME NEW t \in SplitTasks
               PROVE  t \notin mRetry' /\ retrying'[t] = 0
    BY DEF NoParentRetry
  <1>1. t \in Tasks /\ t \in Items /\ assigns[t] = 0
    BY StoreAssumptions, CountTypes DEF LifeInv, WorkInv, SplitNotGiven
  <1>2. assignedNode[t] \notin Nodes
    BY <1>1 DEF LifeInv, WorkInv, HeldWasGiven
  <1>3. retrying'[t] \in Nat
    BY <1>1, TypeStep DEF TypeOK, APITypeOK
  <1> QED
    BY <1>1, <1>2, <1>3, ListsGrow, RequestSteps
    DEF NoParentRetry, RequestsGrow, NoRetries

\* A parent is not executed: its row follows its split and its chunks.
ParentMove(t) ==
    \/ status'[t] = status[t]
    \/ status'[t] = "queued" /\ status[t] = "absent"
    \/ status'[t] = "splitting" /\ t \in splitting
    \/ status'[t] \in {"cancelled", "failed"}
    \/ status'[t] = "completed" /\ \E c \in completing : Parent(c) = t

LEMMA ParentMoves ==
    ASSUME TypeOK, LifeInv, NoParentRetry, [Next]_vars, NEW t \in SplitTasks
    PROVE  ParentMove(t)
  <1>1. t \in Tasks /\ t \in Items /\ assigns[t] = 0
    BY StoreAssumptions, CountTypes DEF LifeInv, WorkInv, SplitNotGiven
  <1>2. ~ToBeMarked(t) /\ ~Executing(t)
    BY <1>1, NotGiven DEF LifeInv
  <1>3. t \notin mRetry /\ ~(retrying[t] > 0)
    BY DEF NoParentRetry
  <1>4. TaskMove(t)
    BY <1>1, TaskMoves
  <1> QED
    BY <1>2, <1>3, <1>4 DEF TaskMove, TaskReason, ParentMove

\* A chunk that no node was given moves only by being created or assigned.
LEMMA NewChunkMoves ==
    ASSUME TypeOK, LifeInv, [Next]_vars, NEW c \in Chunks,
           chunkStatus[c] \in Untaken
    PROVE  \/ chunkStatus'[c] = chunkStatus[c]
           \/ /\ c \in toCreate
              /\ chunkStatus[c] = "absent" /\ chunkStatus'[c] = "queued"
           \/ c \in sChunks /\ sTasks = {} /\ phase = "work"
  <1>1. assigns[c] = 0 /\ c \in Items
    BY CountTypes DEF LifeInv, AssignInv, ChunkAssignInv, WaitingChunk
  <1>2. ~ToBeMarked(c) /\ ~Executing(c)
    BY <1>1, NotGiven DEF LifeInv
  <1> QED
    BY <1>2, ChunkMoves DEF ChunkMove

LEMMA AbsentChunkMoves ==
    ASSUME TypeOK, LifeInv, [Next]_vars, NEW c \in Chunks,
           chunkStatus[c] = "absent", chunkStatus'[c] # "absent"
    PROVE  Parent(c) \in splitting
  BY NewChunkMoves
  DEF Untaken, LifeInv, KnownInv, ChunksKnown, SplittingInv

LEMMA ChunksFollowStep ==
    ASSUME TypeOK, LifeInv, OnceInv, [Next]_vars
    PROVE  ChunksFollow'
  <1> SUFFICES ASSUME NEW c \in Chunks
               PROVE  /\ WaitingTask(Parent(c))' => chunkStatus'[c] \in Untaken
                      /\ /\ chunkStatus'[c] # "absent"
                         /\ status'[Parent(c)] \in Untaken
                         /\ phase' # "tasks"
                         => Parent(c) \in sTasks'
    BY DEF ChunksFollow
  <1> DEFINE t == Parent(c)
  <1>1. t \in SplitTasks /\ t \in Tasks
    BY ParentInTasks
  <1>2. status'[t] \in Untaken => status[t] \in Untaken
    BY <1>1, ParentMoves DEF ParentMove, OnceInv, Untaken
  <1>3. ASSUME WaitingTask(t)'
        PROVE  chunkStatus'[c] \in Untaken
    <2>1. t \in sTasks' => t \in sTasks \/ status[t] \in Untaken
      BY <1>1, ListsGrow DEF GetQueuedTasks, Untaken
    <2>2. WaitingTask(t) /\ chunkStatus[c] \in Untaken
      BY <1>2, <1>3, <2>1 DEF WaitingTask, OnceInv, ChunksFollow
    <2>3. ~(c \in sChunks /\ sTasks = {} /\ phase = "work")
      BY <2>2
      DEF WaitingTask, OnceInv, ChunksFollow, LifeInv, KnownInv, ChunksKnown
    <2> QED
      BY <2>2, <2>3, NewChunkMoves DEF Untaken
  <1>4. ASSUME chunkStatus'[c] # "absent", status'[t] \in Untaken,
               phase' # "tasks"
        PROVE  t \in sTasks'
    <2>1. status[t] = "queued" /\ status'[t] = "queued"
      <3>1. status'[t] # "absent"
        BY <1>4, LifeStep DEF LifeInv, KnownInv, ParentsKnown
      <3>2. chunkStatus[c] = "absent" => t \in sTasks
        BY <1>4, AbsentChunkMoves DEF LifeInv, SplittingInv
      <3>3. status[t] # "absent"
        BY <3>2 DEF LifeInv, KnownInv, ParentsKnown, TasksKnown
      <3> QED
        BY <1>2, <1>4, <3>1, <3>3 DEF Untaken
    <2>2. t \in sTasks \/ phase = "tasks"
      BY <1>4, <2>1, AbsentChunkMoves
      DEF OnceInv, ChunksFollow, LifeInv, SplittingInv, Untaken
    <2> QED
      BY <1>1, <1>4, <2>1, <2>2, ListKept
  <1> QED
    BY <1>3, <1>4

LEMMA OnceInvariant ==
    ASSUME NoRetries
    PROVE  Spec => []OnceInv
  <1>1. Init => OnceInv
    BY StoreAssumptions
    DEF Init, MonitorInit, SchedulerInit, APIInit, StoreInit, OnceInv,
        NoParentRetry, ChunksFollow, Untaken
  <1>2. TypeOK /\ LifeInv /\ OnceInv /\ [Next]_vars => OnceInv'
    BY NoParentRetryStep, ChunksFollowStep DEF OnceInv
  <1> QED
    BY <1>1, <1>2, TypeCorrect, LifeInvariant, PTL DEF Spec

\* What the handlers count is what the properties mean.
LEMMA CountedIsDone ==
    ASSUME NEW t
    PROVE  AreAllChunksCompleted(t) <=> ChunksDone(t)
  BY DEF AreAllChunksCompleted, ChunkRows, ChunksDone

\* A handler that counted all chunks done goes on to complete the parent, and
\* one that completes the parent writes its row.
HandlersFinish ==
    /\ \A c \in checking :
          c \in checking' \cup completing' \/ ~ChunksDone(Parent(c))
    /\ \A c \in completing :
          c \in completing' \/ status'[Parent(c)] = "completed"

LEMMA ResultsFinish ==
    ASSUME "controller" \notin Faults, TypeOK, [Next]_vars
    PROVE  HandlersFinish
  <1>1. APITypeOK /\ StoreTypeOK
    BY TypeParts
  <1>2. CASE checking \subseteq checking' /\ completing \subseteq completing'
    BY <1>2 DEF HandlersFinish
  <1>3. ASSUME NEW n \in Nodes, NEW i \in Items, Report(n, i)
        PROVE  HandlersFinish
    BY <1>2, <1>3
    DEF Report, ReportChunk, HandleChunkResult, ReportTask, HandleTaskResult,
        apiVars, resultVars
  <1>4. ASSUME NEW c \in Chunks, CheckAllChunks(c)
        PROVE  HandlersFinish
    BY <1>4, CountedIsDone DEF CheckAllChunks, HandlersFinish
  <1>5. ASSUME NEW c \in Chunks, CompleteParent(c)
        PROVE  HandlersFinish
    BY <1>1, <1>5, ParentInTasks
    DEF CompleteParent, UpdateTaskResult, UpdateTaskStatus, HandlersFinish,
        StoreTypeOK
  <1>6. CASE SchedulerNext \/ MonitorNext \/ OperatorNext \/ UNCHANGED vars
    BY <1>2, <1>6
    DEF SchedulerNext, MonitorNext, OperatorNext, HandleDeleteNode,
        HandleUpdateNodeStatus, HandleReserveNode, HandleUnreserveNode, vars,
        apiVars, resultVars
  <1>7. ASSUME NEW t \in Tasks,
               Submit(t) \/ Cancel(t) \/ Retry(t) \/ FinishRequest(t)
        PROVE  HandlersFinish
    BY <1>2, <1>7
    DEF Submit, HandleSubmitTask, Cancel, CancelRead, Retry, RetryRead,
        FinishRequest, CancelWrite, RetryWrite, apiVars, resultVars
  <1>8. ASSUME NEW n \in Nodes,
               \/ FinishPoll(n) \/ FinishAbandoned(n) \/ Respond(n)
               \/ DeadAgent(n) \/ AgentStep(Join(n))
               \/ AgentStep(Heartbeat(n)) \/ AgentStep(Poll(n))
        PROVE  HandlersFinish
    BY <1>2, <1>8
    DEF FinishPoll, PollReadChunks, PollMark, FinishAbandoned, AbandonedMark,
        Respond, PollRespond, DeadAgent, Lapse, PollUnanswered, AgentStep,
        Join, HandleNodeJoin, Heartbeat, Poll, PollReadTasks, apiVars, resultVars
  <1>9. CASE FaultNext
    BY <1>2, <1>9
    DEF FaultNext, Disconnect, JoinUnanswered, HandleNodeJoin, PollUnanswered,
        PollAbandon, ResultLost, Lapse, Die, apiVars, resultVars
  <1>10. ~Restart
    BY DEF Restart
  <1> QED
    BY <1>3, <1>4, <1>5, <1>6, <1>7, <1>8, <1>9, <1>10 DEF Next, FinishResult

\* The write that makes the chunks done is that of a result, whose handler
\* counts after it.
LEMMA LastChunkChecked ==
    ASSUME TypeOK, [Next]_vars, NEW t \in SplitTasks,
           ChunksDone(t)', ~ChunksDone(t)
    PROVE  \E c \in checking' : Parent(c) = t
  <1>1. PICK c \in Chunks : /\ Parent(c) = t
                            /\ chunkStatus'[c] # chunkStatus[c]
                            /\ chunkStatus'[c] \in {"completed", "failed"}
    <2>1. PICK d \in Chunks : Parent(d) = t /\ chunkStatus'[d] # "absent"
      BY DEF ChunksDone
    <2>2. CASE chunkStatus[d] = "absent"
      BY <2>1, <2>2 DEF ChunksDone
    <2>3. CASE chunkStatus[d] # "absent"
      <3>1. PICK c \in Chunks :
                 /\ Parent(c) = t
                 /\ chunkStatus[c] \notin {"absent", "completed", "failed"}
        BY <2>1, <2>3 DEF ChunksDone
      <3> QED
        BY <3>1, RowsStay DEF ChunksDone
    <2> QED
      BY <2>2, <2>3
  <1> QED
    BY <1>1, ChunkMoves DEF ChunkMove

\* While a parent is being split its chunks wait, so they are not done.
LEMMA NotDoneWhileSplitting ==
    ASSUME LifeInv, OnceInv, NEW t \in splitting
    PROVE  ~ChunksDone(t)
  BY DEF LifeInv, SplittingInv, OnceInv, ChunksFollow, WaitingTask, ChunksDone,
         Untaken

LEMMA NoLostStep ==
    ASSUME "controller" \notin Faults, TypeOK, LifeInv, OnceInv,
           NoLostCompletion, [Next]_vars
    PROVE  NoLostCompletion'
  <1> SUFFICES ASSUME NEW t \in SplitTasks, status'[t] = "splitting",
                      ChunksDone(t)'
               PROVE  \E c \in (checking \cup completing)' : Parent(c) = t
    BY DEF NoLostCompletion
  <1>1. CASE ~ChunksDone(t)
    BY <1>1, LastChunkChecked
  <1>2. CASE ChunksDone(t)
    <2>1. status[t] = "splitting"
      BY <1>2, ParentMoves, NotDoneWhileSplitting DEF ParentMove, OnceInv
    <2>2. PICK c \in checking \cup completing : Parent(c) = t
      BY <1>2, <2>1 DEF NoLostCompletion
    <2> QED
      BY <1>2, <2>2, ResultsFinish DEF HandlersFinish
  <1> QED
    BY <1>1, <1>2

\* Result handlers write a chunk, count, and complete the parent in three steps,
\* several at a time.  However their steps mix, a parent that waits for chunks
\* which are all done has a handler that is still to count, or to complete it.
THEOREM NoLostCompletionHolds ==
    ASSUME NoRetries, "controller" \notin Faults
    PROVE  Spec => []NoLostCompletion
  <1>1. Init => NoLostCompletion
    BY StoreAssumptions DEF Init, StoreInit, NoLostCompletion
  <1>2. /\ TypeOK /\ LifeInv /\ OnceInv /\ NoLostCompletion /\ [Next]_vars
        => NoLostCompletion'
    BY NoLostStep
  <1> QED
    BY <1>1, <1>2, TypeCorrect, LifeInvariant, OnceInvariant, PTL DEF Spec

-----------------------------------------------------------------------------
(* A parent is completed after its chunks, if no poll breaks off under its  *)
(* handler either: a mark written late makes a finished chunk "running".    *)

\* No handler owes the marks of a broken poll.
NothingOwed == \A n \in Nodes : abandoned[n] = {}

\* The handlers that go on to complete a parent counted right.
CountedRight == \A c \in completing : ChunksDone(Parent(c))

WaitInv == NothingOwed /\ CountedRight /\ ParentWaitsForChunks

LEMMA NothingOwedStep ==
    ASSUME "connection" \notin Faults, TypeOK, NothingOwed, [Next]_vars
    PROVE  NothingOwed'
  <1>1. CASE UNCHANGED abandoned
    BY <1>1 DEF NothingOwed
  <1>2. ASSUME NEW n \in Nodes,
               \/ FinishPoll(n) \/ Respond(n) \/ DeadAgent(n)
               \/ AgentStep(Join(n)) \/ AgentStep(Heartbeat(n))
               \/ AgentStep(Poll(n))
        PROVE  UNCHANGED abandoned
    BY <1>2
    DEF FinishPoll, PollReadChunks, PollMark, Respond, PollRespond, DeadAgent,
        Lapse, PollUnanswered, AgentStep, Join, HandleNodeJoin, Heartbeat, Poll,
        PollReadTasks, apiVars, pollVars
  <1>3. ASSUME NEW n \in Nodes
        PROVE  ~FinishAbandoned(n)
    BY DEF NothingOwed, FinishAbandoned, AbandonedMark, MayMark
  <1>4. CASE Restart
    BY <1>4 DEF Restart, NothingOwed
  <1>5. CASE FaultNext
    BY <1>1, <1>5 DEF FaultNext, ResultLost, Lapse, Die, apiVars, pollVars
  <1>6. CASE SchedulerNext \/ MonitorNext \/ OperatorNext \/ UNCHANGED vars
    BY <1>1, <1>6
    DEF SchedulerNext, MonitorNext, OperatorNext, HandleDeleteNode,
        HandleUpdateNodeStatus, HandleReserveNode, HandleUnreserveNode, vars,
        apiVars, pollVars
  <1>7. ASSUME NEW t \in Tasks,
               Submit(t) \/ Cancel(t) \/ Retry(t) \/ FinishRequest(t)
        PROVE  UNCHANGED abandoned
    BY <1>7
    DEF Submit, HandleSubmitTask, Cancel, CancelRead, Retry, RetryRead,
        FinishRequest, CancelWrite, RetryWrite, apiVars, pollVars
  <1>8. ASSUME NEW n \in Nodes, NEW i \in Items, Report(n, i)
        PROVE  UNCHANGED abandoned
    BY <1>8
    DEF Report, ReportTask, HandleTaskResult, ReportChunk, HandleChunkResult,
        apiVars, pollVars
  <1>9. ASSUME NEW c \in Chunks, FinishResult(c)
        PROVE  UNCHANGED abandoned
    BY <1>9 DEF FinishResult, CheckAllChunks, CompleteParent, pollVars
  <1> QED
    BY <1>1, <1>2, <1>3, <1>4, <1>5, <1>6, <1>7, <1>8, <1>9 DEF Next

\* A chunk that is done was started, so it is in no poll and on no list.
LEMMA ChunkStaysDone ==
    ASSUME TypeOK, LifeInv, NothingOwed, [Next]_vars, NEW c \in Chunks,
           chunkStatus[c] \in {"completed", "failed"}
    PROVE  chunkStatus'[c] \in {"completed", "failed"}
  <1>1. /\ c \in Items
        /\ starts[c] \in Nat /\ assigns[c] \in Nat
        /\ assigns[c] <= 1 /\ starts[c] > 0
    BY CountTypes DEF LifeInv, AssignInv, ChunkAssignInv, WorkInv, DoneWasStarted
  <1>2. \A n \in Nodes : c \notin batch[n]
    BY <1>1, BatchGiven DEF LifeInv
  <1>3. ~ToBeMarked(c)
    BY <1>2 DEF ToBeMarked, NothingOwed, LifeInv, PollInv
  <1>4. c \notin sChunks
    BY <1>1, StartsGiven
    DEF LifeInv, AssignInv, ChunkAssignInv, WaitingChunk
  <1> QED
    BY <1>3, <1>4, ChunkMoves DEF ChunkMove

LEMMA ChunksStayDone ==
    ASSUME TypeOK, LifeInv, OnceInv, NothingOwed, [Next]_vars,
           NEW t \in SplitTasks, ChunksDone(t)
    PROVE  ChunksDone(t)'
  <1>1. t \notin splitting
    BY NotDoneWhileSplitting
  <1>2. \A c \in Chunks :
           Parent(c) = t /\ chunkStatus[c] = "absent"
              => chunkStatus'[c] = "absent"
    BY <1>1, AbsentChunkMoves
  <1>3. \A c \in Chunks :
           chunkStatus[c] \in {"completed", "failed"}
              => chunkStatus'[c] \in {"completed", "failed"}
    BY ChunkStaysDone
  <1> QED
    BY <1>2, <1>3 DEF ChunksDone

LEMMA WaitStep ==
    ASSUME "connection" \notin Faults, TypeOK, LifeInv, OnceInv, WaitInv,
           [Next]_vars
    PROVE  WaitInv'
  <1>1. NothingOwed'
    BY NothingOwedStep DEF WaitInv
  <1>2. ASSUME NEW c \in completing'
        PROVE  ChunksDone(Parent(c))'
    <2>1. Parent(c) \in SplitTasks
      BY TypeStep, ParentInTasks DEF TypeOK, APITypeOK
    <2>2. ChunksDone(Parent(c))
      BY <1>2, ResultSteps, CountedIsDone DEF WaitInv, CountedRight, ResultsGrow
    <2> QED
      BY <2>1, <2>2, ChunksStayDone DEF WaitInv
  <1>3. ASSUME NEW t \in SplitTasks, status'[t] = "completed"
        PROVE  ChunksDone(t)'
    <2>1. ChunksDone(t)
      BY <1>3, ParentMoves
      DEF ParentMove, OnceInv, WaitInv, CountedRight, ParentWaitsForChunks
    <2> QED
      BY <2>1, ChunksStayDone DEF WaitInv
  <1> QED
    BY <1>1, <1>2, <1>3 DEF WaitInv, CountedRight, ParentWaitsForChunks

\* A handler counts the chunks some time before it completes the parent.  Still,
\* where no client retries and no poll breaks off, and however often the
\* controller restarts in the middle of it: a parent listed as completed has
\* chunks, and all of them are done.
THEOREM ParentWaitsForChunksHolds ==
    ASSUME NoRetries, "connection" \notin Faults
    PROVE  Spec => []ParentWaitsForChunks
  <1>1. Init => WaitInv
    BY StoreAssumptions
    DEF Init, StoreInit, APIInit, WaitInv, NothingOwed, CountedRight,
        ParentWaitsForChunks
  <1>2. TypeOK /\ LifeInv /\ OnceInv /\ WaitInv /\ [Next]_vars => WaitInv'
    BY WaitStep
  <1>3. WaitInv => ParentWaitsForChunks
    BY DEF WaitInv
  <1> QED
    BY <1>1, <1>2, <1>3, TypeCorrect, LifeInvariant, OnceInvariant, PTL DEF Spec
=============================================================================
