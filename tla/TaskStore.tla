----------------------------- MODULE TaskStore -----------------------------
(***************************************************************************)
(* The controller's tables (controller/state/store.go): tasks, task_chunks *)
(* and nodes.  Every Store method holds the store's RWMutex around one SQL *)
(* statement, so each is one operator here and one step wherever it is     *)
(* used; what happens between two calls of a caller is up to the others.   *)
(*                                                                         *)
(* Rows that do not exist have the status "absent".  NULL and the empty    *)
(* string in assigned_node are both NoNode.  A task that is split owns the *)
(* chunks <<t, 1>>, <<t, 2>>, ...: chunk ids are built from the parent's   *)
(* id and the chunk's index (splitter.go), so a task split twice names the *)
(* same rows again.                                                        *)
(***************************************************************************)
EXTENDS Naturals

CONSTANTS Tasks,        \* ids of the tasks clients may submit
          SplitTasks,   \* those with type "split" and a split_strategy
          MaxChunks,    \* no task is split into more chunks than this
          Nodes,        \* ids worker agents may be registered under
          NoNode,       \* assigned_node is NULL or ''
          TargetNode,   \* tasks.target_node, NoNode if the task is not pinned
          RetryMax,     \* tasks.retry_max
          Priority,     \* tasks.priority, 0 = critical .. 3 = low
          ForeignKeys   \* does the database enforce the REFERENCES clauses?

Chunks == SplitTasks \X (1..MaxChunks)
Items  == Tasks \cup Chunks             \* what a node is asked to execute
Parent(c) == c[1]

ASSUME StoreAssumptions ==
    /\ SplitTasks \subseteq Tasks
    /\ MaxChunks \in Nat
    /\ Tasks \cap Chunks = {}
    /\ NoNode \notin Nodes
    /\ TargetNode \in [Tasks -> Nodes \cup {NoNode}]
    /\ RetryMax \in [Tasks -> Nat]
    /\ Priority \in [Tasks -> 0..3]
    /\ ForeignKeys \in BOOLEAN

Terminal     == {"completed", "failed", "cancelled"}
TaskStatuses == {"absent", "queued", "splitting", "scheduled", "running"}
                    \cup Terminal
ChunkStatuses == {"absent", "queued", "scheduled", "running",
                  "completed", "failed"}
NodeStatuses == {"absent", "online", "offline", "draining", "maintenance"}

VARIABLES status,        \* tasks.status
          assignedNode,  \* tasks.assigned_node
          retryCount,    \* tasks.retry_count
          createdAt,     \* tasks.created_at
          clock,         \* the time created_at is read from; ticks on inserts
          chunkStatus,   \* task_chunks.status
          chunkNode,     \* task_chunks.assigned_node
          nodeStatus,    \* nodes.status
          fresh          \* nodes whose last_heartbeat is at most 30 s old

taskTable  == <<status, assignedNode, retryCount, createdAt, clock>>
chunkTable == <<chunkStatus, chunkNode>>
nodeTable  == <<nodeStatus, fresh>>
storeVars  == <<taskTable, chunkTable, nodeTable>>

StoreTypeOK ==
    /\ status \in [Tasks -> TaskStatuses]
    /\ assignedNode \in [Tasks -> Nodes \cup {NoNode}]
    /\ retryCount \in [Tasks -> Nat]
    /\ createdAt \in [Tasks -> Nat]
    /\ clock \in Nat
    /\ chunkStatus \in [Chunks -> ChunkStatuses]
    /\ chunkNode \in [Chunks -> Nodes \cup {NoNode}]
    /\ nodeStatus \in [Nodes -> NodeStatuses]
    /\ fresh \subseteq Nodes

StoreInit ==
    /\ status = [t \in Tasks |-> "absent"]
    /\ assignedNode = [t \in Tasks |-> NoNode]
    /\ retryCount = [t \in Tasks |-> 0]
    /\ createdAt = [t \in Tasks |-> 0]
    /\ clock = 0
    /\ chunkStatus = [c \in Chunks |-> "absent"]
    /\ chunkNode = [c \in Chunks |-> NoNode]
    /\ nodeStatus = [n \in Nodes |-> "absent"]
    /\ fresh = {}

-----------------------------------------------------------------------------
(* Queries.  The operators whose names end in Mutant, here and in the other *)
(* modules, are deliberate mistakes: each is put in the place of the        *)
(* definition after it to see that a property notices.                      *)

\* Mutant: rows already given to a node are read again.
GetQueuedTasksMutant == {t \in Tasks : status[t] \in {"queued", "scheduled"}}

GetQueuedTasks == {t \in Tasks : status[t] = "queued"}
GetQueuedChunks == {c \in Chunks : chunkStatus[c] = "queued"}
GetOnlineWorkerNodes == {n \in Nodes : nodeStatus[n] = "online"}
GetPendingTasksForNode(n) ==
    {t \in Tasks : assignedNode[t] = n /\ status[t] = "scheduled"}
\* Mutant: any node's chunks.
GetPendingChunksForNodeMutant(n) ==
    {c \in Chunks : chunkStatus[c] = "scheduled"}
GetPendingChunksForNode(n) ==
    {c \in Chunks : chunkNode[c] = n /\ chunkStatus[c] = "scheduled"}
ChunkRows(t) == {c \in Chunks : Parent(c) = t /\ chunkStatus[c] # "absent"}
\* Mutant: the second count is compared with zero, not with the total.
AnyChunkCompletedMutant(t) ==
    \E c \in ChunkRows(t) : chunkStatus[c] \in {"completed", "failed"}
\* Mutant: failed chunks are not counted as done.
AllChunksSucceededMutant(t) ==
    /\ ChunkRows(t) # {}
    /\ \A c \in ChunkRows(t) : chunkStatus[c] = "completed"
AreAllChunksCompleted(t) ==
    /\ ChunkRows(t) # {}
    /\ \A c \in ChunkRows(t) : chunkStatus[c] \in {"completed", "failed"}

\* The ORDER BY of GetQueuedTasks: priority first, then created_at.
Precedes(t, u) ==
    \/ Priority[t] < Priority[u]
    \/ Priority[t] = Priority[u] /\ createdAt[t] < createdAt[u]

\* A statement that would leave a reference to a missing node is rolled back.
Refused(n) == ForeignKeys /\ (n = NoNode \/ nodeStatus[n] = "absent")

-----------------------------------------------------------------------------
(* Statements on tasks.  Each constrains every table. *)

CreateTask(t) ==
    /\ status' = [status EXCEPT ![t] = "queued"]
    /\ clock' = clock + 1
    /\ createdAt' = [createdAt EXCEPT ![t] = clock']
    /\ UNCHANGED <<assignedNode, retryCount, chunkTable, nodeTable>>

UpdateTaskStatus(t, s) ==
    /\ status' = [status EXCEPT ![t] = s]
    /\ UNCHANGED <<assignedNode, retryCount, createdAt, clock,
                   chunkTable, nodeTable>>

\* Mutant: the task counts as running as soon as it is given to a node.
UpdateTaskAssignmentMutant(t, n) ==
    /\ assignedNode' = [assignedNode EXCEPT ![t] = n]
    /\ status' = [status EXCEPT ![t] = "running"]
    /\ UNCHANGED <<retryCount, createdAt, clock, chunkTable, nodeTable>>

UpdateTaskAssignment(t, n) ==
    /\ IF Refused(n) THEN UNCHANGED <<status, assignedNode>>
       ELSE /\ assignedNode' = [assignedNode EXCEPT ![t] = n]
            /\ status' = [status EXCEPT ![t] = "scheduled"]
    /\ UNCHANGED <<retryCount, createdAt, clock, chunkTable, nodeTable>>

UpdateTaskResult(t, exitCode) ==
    UpdateTaskStatus(t, IF exitCode = 0 THEN "completed" ELSE "failed")

\* Mutant: the row keeps its node.
IncrementTaskRetryMutant(t) ==
    /\ retryCount' = [retryCount EXCEPT ![t] = @ + 1]
    /\ status' = [status EXCEPT ![t] = "queued"]
    /\ UNCHANGED <<assignedNode, createdAt, clock, chunkTable, nodeTable>>

\* Sets assigned_node to '', which references no node.
IncrementTaskRetry(t) ==
    /\ IF Refused(NoNode) THEN UNCHANGED <<status, assignedNode, retryCount>>
       ELSE /\ retryCount' = [retryCount EXCEPT ![t] = @ + 1]
            /\ status' = [status EXCEPT ![t] = "queued"]
            /\ assignedNode' = [assignedNode EXCEPT ![t] = NoNode]
    /\ UNCHANGED <<createdAt, clock, chunkTable, nodeTable>>

-----------------------------------------------------------------------------
(* Statements on chunks. *)

\* Mutant: INSERT OR REPLACE.
CreateTaskChunkMutant(c) ==
    /\ chunkStatus' = [chunkStatus EXCEPT ![c] = "queued"]
    /\ chunkNode' = [chunkNode EXCEPT ![c] = NoNode]
    /\ UNCHANGED <<taskTable, nodeTable>>

\* A chunk whose id exists already violates the primary key: nothing changes.
CreateTaskChunk(c) ==
    /\ chunkStatus' = [chunkStatus EXCEPT
                          ![c] = IF @ = "absent" THEN "queued" ELSE @]
    /\ UNCHANGED <<chunkNode, taskTable, nodeTable>>

UpdateChunkStatus(c, s) ==
    /\ chunkStatus' = [chunkStatus EXCEPT ![c] = s]
    /\ UNCHANGED <<chunkNode, taskTable, nodeTable>>

UpdateChunkAssignment(c, n) ==
    /\ IF Refused(n) THEN UNCHANGED chunkTable
       ELSE /\ chunkNode' = [chunkNode EXCEPT ![c] = n]
            /\ chunkStatus' = [chunkStatus EXCEPT ![c] = "scheduled"]
    /\ UNCHANGED <<taskTable, nodeTable>>

-----------------------------------------------------------------------------
(* Statements on nodes. *)

\* The row is inserted with last_heartbeat at the zero time: it is stale.
RegisterNode(n) ==
    /\ nodeStatus' = [nodeStatus EXCEPT ![n] = "online"]
    /\ UNCHANGED <<fresh, taskTable, chunkTable>>

\* An UPDATE of a row that is gone touches nothing.
UpdateNodeStatus(n, s) ==
    /\ nodeStatus' = [nodeStatus EXCEPT ![n] = IF @ = "absent" THEN @ ELSE s]
    /\ UNCHANGED <<fresh, taskTable, chunkTable>>

UpdateNodeHeartbeat(n) ==
    /\ nodeStatus' = [nodeStatus EXCEPT
                         ![n] = IF @ = "absent" THEN @ ELSE "online"]
    /\ fresh' = IF nodeStatus[n] = "absent" THEN fresh ELSE fresh \cup {n}
    /\ UNCHANGED <<taskTable, chunkTable>>

Referenced(n) == \/ \E t \in Tasks : assignedNode[t] = n
                 \/ \E c \in Chunks : chunkNode[c] = n

DeleteNode(n) ==
    /\ IF ForeignKeys /\ Referenced(n) THEN UNCHANGED nodeTable
       ELSE /\ nodeStatus' = [nodeStatus EXCEPT ![n] = "absent"]
            /\ fresh' = fresh \ {n}
    /\ UNCHANGED <<taskTable, chunkTable>>

\* 30 seconds have gone by since the last heartbeat of n was recorded.
HeartbeatExpires(n) ==
    /\ fresh' = fresh \ {n}
    /\ UNCHANGED <<nodeStatus, taskTable, chunkTable>>
=============================================================================
