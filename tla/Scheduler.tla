----------------------------- MODULE Scheduler -----------------------------
(***************************************************************************)
(* The scheduling loop (controller/scheduler/scheduler.go).  One goroutine *)
(* runs scheduleCycle every 500 ms: it reads the queued tasks, the queued  *)
(* chunks and the online workers in three separate queries, then works     *)
(* through what it read, a store call at a time, never reading a task      *)
(* again before it writes it.  Everything it holds is a snapshot.          *)
(*                                                                         *)
(* The weighted score only ranks the candidate nodes, so the choice among  *)
(* them is left open.  What the hard constraints compare is fixed by the   *)
(* node's registration and the task's request, as no agent reports load:   *)
(* Fits says which nodes have the hardware for a task.                     *)
(***************************************************************************)
EXTENDS TaskStore

CONSTANTS Fits,         \* Fits[t]: nodes that satisfy t's hard constraints
          SplitCounts,  \* SplitCounts[t]: numbers of chunks a split may yield
          SplitMayFail  \* can SplitTask return an error (missing input ...)?

ASSUME SchedulerAssumptions ==
    /\ Fits \in [Tasks -> SUBSET Nodes]
    /\ SplitCounts \in [SplitTasks -> SUBSET (0..MaxChunks)]
    /\ SplitMayFail \in BOOLEAN

VARIABLES phase,      \* the next thing scheduleCycle does
          sTasks,     \* tasks it read and has not come to yet
          sChunks,    \* chunks it read and has not come to yet
          sNodes,     \* nodes it read
          toCreate,   \* chunks of the split under way not yet inserted
          splitting   \* {t} while the split of t is under way
schedulerVars == <<phase, sTasks, sChunks, sNodes, toCreate, splitting>>

Phases == {"tasks", "chunks", "nodes", "work"}

SchedulerTypeOK ==
    /\ phase \in Phases
    /\ sTasks \subseteq Tasks
    /\ sChunks \subseteq Chunks
    /\ sNodes \subseteq Nodes
    /\ toCreate \subseteq Chunks
    /\ splitting \subseteq SplitTasks

SchedulerInit ==
    /\ phase = "tasks"
    /\ sTasks = {} /\ sChunks = {} /\ sNodes = {}
    /\ toCreate = {} /\ splitting = {}

\* Work with the task list ts and the chunk list cs left; the cycle ends, and
\* forgets its snapshot, when both are empty.
Continue(ts, cs) ==
    /\ sTasks' = ts
    /\ sChunks' = cs
    /\ IF ts \cup cs = {} THEN phase' = "tasks" /\ sNodes' = {}
                          ELSE UNCHANGED <<phase, sNodes>>

ReadQueuedTasks ==
    /\ phase = "tasks"
    /\ phase' = "chunks"
    /\ sTasks' = GetQueuedTasks
    /\ UNCHANGED <<sChunks, sNodes, toCreate, splitting, storeVars>>

ReadQueuedChunks ==
    /\ phase = "chunks"
    /\ sChunks' = GetQueuedChunks
    /\ phase' = IF sTasks = {} /\ sChunks' = {} THEN "tasks" ELSE "nodes"
    /\ UNCHANGED <<sTasks, sNodes, toCreate, splitting, storeVars>>

\* Without an online worker the whole cycle is given up, splits included.
ReadOnlineNodes ==
    /\ phase = "nodes"
    /\ IF GetOnlineWorkerNodes = {}
       THEN Continue({}, {})
       ELSE /\ phase' = "work"
            /\ sNodes' = GetOnlineWorkerNodes
            /\ UNCHANGED <<sTasks, sChunks>>
    /\ UNCHANGED <<toCreate, splitting, storeVars>>

\* Mutant: the pin is not looked at.
CandidatesMutant(t) == {n \in sNodes : n \in Fits[t]}

\* findBestNode returns one of these, and nil only if there is none.
Candidates(t) ==
    {n \in sNodes : n \in Fits[t] /\ TargetNode[t] \in {n, NoNode}}

\* The loop over the tasks is at t.
AtTask(t) ==
    /\ phase = "work"
    /\ splitting = {}
    /\ t \in sTasks
    /\ \A u \in sTasks : ~Precedes(u, t)

AssignTask(t, n) ==
    /\ AtTask(t)
    /\ t \notin SplitTasks
    /\ n \in Candidates(t)
    /\ UpdateTaskAssignment(t, n)
    /\ Continue(sTasks \ {t}, sChunks)
    /\ UNCHANGED <<toCreate, splitting>>

LeaveTaskQueued(t) ==
    /\ AtTask(t)
    /\ t \notin SplitTasks
    /\ Candidates(t) = {}
    /\ Continue(sTasks \ {t}, sChunks)
    /\ UNCHANGED <<toCreate, splitting, storeVars>>

\* SplitTask returns an error: the task fails with exit code 1.
FailSplit(t) ==
    /\ AtTask(t)
    /\ t \in SplitTasks
    /\ SplitMayFail
    /\ UpdateTaskResult(t, 1)
    /\ Continue(sTasks \ {t}, sChunks)
    /\ UNCHANGED <<toCreate, splitting>>

\* SplitTask returns k chunks; their rows are inserted in the steps that follow.
BeginSplit(t, k) ==
    /\ AtTask(t)
    /\ t \in SplitTasks
    /\ k \in SplitCounts[t]
    /\ toCreate' = {t} \X (1..k)
    /\ splitting' = {t}
    /\ UNCHANGED <<phase, sTasks, sChunks, sNodes, storeVars>>

CreateChunk(c) ==
    /\ c \in toCreate
    /\ \A d \in toCreate : c[2] <= d[2]
    /\ CreateTaskChunk(c)
    /\ toCreate' = toCreate \ {c}
    /\ UNCHANGED <<phase, sTasks, sChunks, sNodes, splitting>>

EndSplit(t) ==
    /\ t \in splitting
    /\ toCreate = {}
    /\ UpdateTaskStatus(t, "splitting")
    /\ splitting' = {}
    /\ Continue(sTasks \ {t}, sChunks)
    /\ UNCHANGED toCreate

\* The chunks come after the tasks, in no promised order.
AtChunk(c) ==
    /\ phase = "work"
    /\ sTasks = {}
    /\ c \in sChunks

AssignChunk(c, n) ==
    /\ AtChunk(c)
    /\ n \in Candidates(Parent(c))
    /\ UpdateChunkAssignment(c, n)
    /\ Continue({}, sChunks \ {c})
    /\ UNCHANGED <<toCreate, splitting>>

LeaveChunkQueued(c) ==
    /\ AtChunk(c)
    /\ Candidates(Parent(c)) = {}
    /\ Continue({}, sChunks \ {c})
    /\ UNCHANGED <<toCreate, splitting, storeVars>>

\* The steps of this component other than AssignTask, AssignChunk.
SchedulerQuietStep ==
    \/ ReadQueuedTasks
    \/ ReadQueuedChunks
    \/ ReadOnlineNodes
    \/ \E t \in Tasks : \/ LeaveTaskQueued(t) \/ FailSplit(t) \/ EndSplit(t)
    \/ \E t \in SplitTasks, k \in 0..MaxChunks : BeginSplit(t, k)
    \/ \E c \in Chunks : CreateChunk(c) \/ LeaveChunkQueued(c)
=============================================================================
