--------------------------- MODULE ExecutorProofs ---------------------------
(***************************************************************************)
(* Safety of AgentExecutor for any number of executions and any timeouts.  *)
(***************************************************************************)
EXTENDS AgentExecutor, FiniteSetTheorems, TLAPS

NotStarted == {"queued", "dropped", "pulled", "counted"}
NotWaited  == NotStarted \cup {"waiting"}
NotCollected == NotWaited \cup {"draining"}

\* What is known of an execution at each place of its handling.
Progress(e) ==
    /\ step[e] \in NotStarted => shell[e] = "none"
    /\ step[e] \in NotWaited => waited[e] = "none"
    /\ step[e] = "draining" => waited[e] # "none"
    /\ step[e] \in NotCollected => result[e] = "none"
    /\ waited[e] \in Ended => shell[e] = waited[e]

Truth(e) ==
    /\ result[e] = "completed" => shell[e] = "zero" /\ waited[e] = "zero"
    /\ result[e] = "failed" => \/ shell[e] \in {"none", "nonzero", "killed"}
                               \/ waited[e] \in {"timeout", "error"}

TruthInv ==
    /\ step \in [Exec -> Counted \cup Idle \cup {"pulled", "uncounted"}]
    /\ shell \in [Exec -> {"none", "alive"} \cup Ended]
    /\ waited \in [Exec -> {"none", "timeout", "error"} \cup Ended]
    /\ result \in [Exec -> {"none", "completed", "failed"}]
    /\ \A e \in Exec : Progress(e) /\ Truth(e)

Underway == {e \in Exec : step[e] \in Counted}

USE DEF execVars

-----------------------------------------------------------------------------
(* The count. *)

CountInv ==
    /\ step \in [Exec -> Counted \cup Idle \cup {"pulled", "uncounted"}]
    /\ RunningCounts

LEMMA UnderwayFinite == IsFiniteSet(Underway) /\ Cardinality(Underway) \in Nat
  <1>1. Underway \subseteq Exec
    BY DEF Underway
  <1> QED
    BY <1>1, ExecutorAssumptions, FS_Subset, FS_CardinalityType

LEMMA CountStep == CountInv /\ [ExecNext]_execVars => CountInv'
  <1> SUFFICES ASSUME CountInv, [ExecNext]_execVars PROVE CountInv'
    OBVIOUS
  <1>0. /\ step \in [Exec -> Counted \cup Idle \cup {"pulled", "uncounted"}]
        /\ runningTasks = Cardinality(Underway)
    BY DEF CountInv, RunningCounts, Underway
  <1>1. ASSUME NEW e \in Exec, Begin(e)
        PROVE  CountInv'
    <2>1. Underway' = Underway \cup {e} /\ e \notin Underway
      BY <1>0, <1>1 DEF Begin, Goes, Underway, Counted
    <2>2. Cardinality(Underway') = Cardinality(Underway) + 1
      BY <2>1, UnderwayFinite, FS_AddElement
    <2> QED
      BY <1>0, <1>1, <2>2 DEF CountInv, RunningCounts, Underway, Begin, Goes, Counted
  <1>2. ASSUME NEW e \in Exec, Uncount(e)
        PROVE  CountInv'
    <2>1. Underway' = Underway \ {e} /\ e \in Underway
      BY <1>0, <1>2 DEF Uncount, Goes, Underway, Counted
    <2>2. Cardinality(Underway') = Cardinality(Underway) - 1
      BY <2>1, UnderwayFinite, FS_RemoveElement
    <2> QED
      BY <1>0, <1>2, <2>2 DEF CountInv, RunningCounts, Underway, Uncount, Goes
  <1>3. ASSUME runningTasks' = runningTasks, Underway' = Underway,
               step' \in [Exec -> Counted \cup Idle \cup {"pulled", "uncounted"}]
        PROVE  CountInv'
    BY <1>0, <1>3 DEF CountInv, RunningCounts, Underway
  <1>4. ASSUME NEW batch \in SUBSET Exec, ReceiveAnswer(batch)
        PROVE  CountInv'
    BY <1>0, <1>3, <1>4 DEF ReceiveAnswer, Underway, Counted, Idle
  <1>5. ASSUME NEW e \in Exec,
               \/ Spawn(e) \/ SpawnFails(e) \/ ShellAwaited(e) \/ TimesOut(e)
               \/ AwaitFails(e) \/ Collect(e) \/ Report(e)
        PROVE  CountInv'
    BY <1>0, <1>3, <1>5
    DEF Spawn, SpawnFails, ShellAwaited, TimesOut, AwaitFails, Collect, Report, Goes,
        Underway, Counted, Idle
  <1>6. CASE UNCHANGED <<step, runningTasks>>
    BY <1>0, <1>3, <1>6 DEF Underway
  <1> QED
    BY <1>1, <1>2, <1>4, <1>5, <1>6
    DEF ExecNext, ReaderEnds, OutputEnds, ShellEnds, AgentStops

\* Through failed spawns, timeouts and commands that hang, the agent's count is
\* the number of its executions under way.
THEOREM RunningCountsHolds == ExecSpec => []RunningCounts
  <1>1. ExecInit => CountInv
    <2> SUFFICES ASSUME ExecInit PROVE CountInv
      OBVIOUS
    <2>1. Underway = {}
      BY DEF ExecInit, Underway, Counted
    <2> QED
      BY <2>1, FS_EmptySet DEF ExecInit, CountInv, RunningCounts, Underway, Idle
  <1>2. CountInv => RunningCounts
    BY DEF CountInv
  <1> QED
    BY <1>1, <1>2, CountStep, PTL DEF ExecSpec

-----------------------------------------------------------------------------
(* The report. *)

LEMMA AgentTruth ==
    ASSUME TruthInv, NEW e \in Exec,
           \/ Begin(e) \/ Spawn(e) \/ SpawnFails(e) \/ ShellAwaited(e) \/ TimesOut(e)
           \/ AwaitFails(e) \/ Collect(e) \/ Uncount(e) \/ Report(e)
    PROVE  TruthInv'
  <1> USE DEF TruthInv, Progress, Truth, NotStarted, NotWaited, NotCollected,
              Counted, Idle, Ended, Goes
  <1>1. CASE Begin(e)
    BY <1>1 DEF Begin
  <1>2. CASE Spawn(e)
    BY <1>2 DEF Spawn
  <1>3. CASE SpawnFails(e)
    BY <1>3 DEF SpawnFails
  <1>4. CASE ShellAwaited(e)
    BY <1>4 DEF ShellAwaited
  <1>5. CASE TimesOut(e)
    BY <1>5 DEF TimesOut
  <1>6. CASE Collect(e)
    BY <1>6 DEF Collect
  <1>7. CASE Uncount(e)
    BY <1>7 DEF Uncount
  <1>8. CASE Report(e)
    BY <1>8 DEF Report
  <1>9. CASE AwaitFails(e)
    BY <1>9 DEF AwaitFails
  <1> QED
    BY <1>1, <1>2, <1>3, <1>4, <1>5, <1>6, <1>7, <1>8, <1>9

LEMMA TruthStep == TruthInv /\ [ExecNext]_execVars => TruthInv'
  <1> SUFFICES ASSUME TruthInv, [ExecNext]_execVars PROVE TruthInv'
    OBVIOUS
  <1>1. ASSUME NEW batch \in SUBSET Exec, ReceiveAnswer(batch)
        PROVE  TruthInv'
    BY <1>1
    DEF ReceiveAnswer, TruthInv, Progress, Truth, NotStarted, NotWaited,
        NotCollected, Counted, Idle
  <1>2. ASSUME NEW e \in Exec, NEW how \in Ended, ShellEnds(e, how)
        PROVE  TruthInv'
    BY <1>2
    DEF ShellEnds, TruthInv, Progress, Truth, NotStarted, NotWaited,
        NotCollected, Ended
  <1>3. CASE UNCHANGED <<step, shell, waited, result>>
    BY <1>3 DEF TruthInv, Progress, Truth
  <1> QED
    BY <1>1, <1>2, <1>3, AgentTruth DEF ExecNext, ReaderEnds, OutputEnds, AgentStops

\* Though the shell's end is awaited before the readers', and it may end while
\* they are drained after a timeout, the status reported is the one awaited.
THEOREM ReportTellsTruthHolds == ExecSpec => []ReportTellsTruth
  <1>1. ExecInit => TruthInv
    BY DEF ExecInit, TruthInv, Progress, Truth, NotStarted, NotWaited, NotCollected,
       Counted, Idle, Ended
  <1>2. TruthInv => ReportTellsTruth
    BY DEF TruthInv, Truth, ReportTellsTruth
  <1> QED
    BY <1>1, <1>2, TruthStep, PTL DEF ExecSpec

-----------------------------------------------------------------------------
(* Types: those of the columns the invariants above say nothing of. *)

PipesInv ==
    /\ timeout \in [Exec -> Timeouts]
    /\ open \in [Exec -> SUBSET Pipes]
    /\ reading \in [Exec -> SUBSET Pipes]
    /\ agentUp \in BOOLEAN

LEMMA PipesStep == PipesInv /\ [ExecNext]_execVars => PipesInv'
  <1> SUFFICES ASSUME PipesInv, [ExecNext]_execVars PROVE PipesInv'
    OBVIOUS
  <1> USE DEF PipesInv
  <1>1. CASE UNCHANGED <<timeout, open, reading, agentUp>>
    BY <1>1
  <1>2. ASSUME NEW e \in Exec, Spawn(e)
        PROVE  PipesInv'
    BY <1>2 DEF Spawn, Goes
  <1>3. ASSUME NEW e \in Exec, NEW p \in Pipes, ReaderEnds(e, p) \/ OutputEnds(e, p)
        PROVE  PipesInv'
    BY <1>3 DEF ReaderEnds, OutputEnds
  <1>4. CASE AgentStops
    BY <1>4 DEF AgentStops
  <1>5. ASSUME NEW e \in Exec,
               \/ Begin(e) \/ SpawnFails(e) \/ ShellAwaited(e) \/ TimesOut(e)
               \/ AwaitFails(e) \/ Collect(e) \/ Uncount(e) \/ Report(e)
               \/ \E how \in Ended : ShellEnds(e, how)
        PROVE  PipesInv'
    BY <1>1, <1>5
    DEF Begin, SpawnFails, ShellAwaited, TimesOut, AwaitFails, Collect, Uncount,
        Report, ShellEnds
  <1>6. ASSUME NEW batch \in SUBSET Exec, ReceiveAnswer(batch)
        PROVE  PipesInv'
    BY <1>1, <1>6 DEF ReceiveAnswer
  <1> QED
    BY <1>1, <1>2, <1>3, <1>4, <1>5, <1>6 DEF ExecNext

\* Every execution is at a place of its handling, with what is kept of it there,
\* and the count of the agent never goes below zero.
THEOREM ExecTypeCorrect == ExecSpec => []ExecTypeOK
  <1>1. ExecInit => PipesInv /\ TruthInv
    BY DEF ExecInit, PipesInv, TruthInv, Progress, Truth, Idle, NotStarted,
           NotWaited, NotCollected, Ended
  <1>2. PipesInv /\ TruthInv /\ RunningCounts => ExecTypeOK
    BY UnderwayFinite DEF PipesInv, TruthInv, RunningCounts, Underway, ExecTypeOK
  <1> QED
    BY <1>1, <1>2, PipesStep, TruthStep, RunningCountsHolds, PTL DEF ExecSpec
=============================================================================
