# Constellation: TLA+ specifications and proofs

Constellation runs shell commands on a cluster of machines. A *controller* (Go) keeps
tasks and nodes in a SQL database, a scheduler in it assigns tasks to nodes, and an
*agent* (Rust) on every worker asks for its tasks, runs them and reports the results.
These modules model that path with every interleaving of its goroutines, handlers and
agents that the code allows; TLC checks it on small instances, and TLAPS proves its
safety properties for any number of tasks and nodes. `TaskLifecycle` says what
that path promises, and the detailed model is proved to implement it. Further modules
model the parts that share no state with it: the event hub and the browser tabs behind
it, cluster membership and accounts, the splitter, the choice of a node, the priority
queue, and the execution of a command on the agent.

## The system

| part | state | operations | hard behaviour | what makes it correct |
|---|---|---|---|---|
| store (`controller/state/store.go`) | tables tasks, task_chunks, nodes, cluster, users, audit_log; live metrics | one SQL statement per method, under the store's RWMutex | nothing is held between two methods; references that may or may not be enforced; primary keys of chunks | a refused statement changes nothing |
| scheduling loop (`controller/scheduler/scheduler.go`) | lists read at the start of a cycle | every 500 ms: read queued tasks, queued chunks, online nodes; assign or split each | all it holds is stale while requests, polls and deletions go on | one assignment per attempt; constraints and pins |
| heartbeat monitor (same file) | listed nodes and tasks | every 10 s: mark silent nodes offline, retry or fail their tasks | decides on a row, writes later | retry_max is kept; nobody loses a task |
| splitter (`controller/splitter/splitter.go`) | files | divide a task into chunks | a second split of the same task; empty inputs; a file that changes while it is copied | chunks made once; the parent ends with them |
| task handlers (`controller/api/tasks.go`) | none between requests | submit, cancel, retry, poll, result | each is check, then write; handlers outlive their clients | a terminal state is one; what is marked running runs |
| node and cluster handlers (`controller/api/cluster.go`) | none | init, destroy, join, status, reserve, delete | check-then-create; ignored errors | an init finds the cluster that is there; the administrator's account exists |
| agent (`agent/src`) | id, token, count of executions | register, heartbeat, poll, execute, report | no memory across restarts, nothing sent twice, nothing told of cancels | an attempt runs at most once |
| WebSocket hub (`controller/api/websocket.go`) | clients and their channels | register, unregister, broadcast, welcome, read and write pumps | full and closed channels, a welcome nobody reads yet, a hub that starts late | no event skipped, no channel closed twice, publishers never held up |
| dashboard (`dashboard/src/hooks/useConstellation.ts`) | a socket, what was fetched last | open, connect, message, close, fetch | events lost while disconnected; fetches that overlap or fail | the status catches up |
| placement, scoring (`controller/scheduler/`) | live metrics, the listed nodes | list, choose, write back | a list of any age, written back over newer reports | the same choice by both copies of the algorithm; spreading |
| priority queue (`controller/scheduler/queue.go`) | heap | used by nothing | removal in the middle | order, nothing lost |
| command execution (`agent/src/executor.rs`) | one task per item, a count | decode, spawn, wait, drain, report | timeouts, commands that hang or leave children behind | the report is true; what ended is reported |
| CLI, gRPC heartbeat, mDNS, audit, analytics | | single requests, sums | | |

The parts meet in the store. A client's request puts a row in `tasks` as *queued*. A
scheduler cycle reads it and writes a node and *scheduled*, or inserts chunk rows and
writes *splitting*. The node's agent polls; the poll handler reads the node's scheduled
rows, writes *running* to each and answers. The agent starts all of them and posts each
result; the result handler writes *completed* or *failed* and, for a chunk, counts the
chunks of the parent and completes it. The monitor turns silence of an agent into
*offline* and puts the node's running tasks back to *queued*.

## Modules

| module | models | state |
|---|---|---|
| `TaskStore` | the three tables, one operator per query and statement | `status`, `assignedNode`, `retryCount`, `createdAt`, `clock`; `chunkStatus`, `chunkNode`; `nodeStatus`, `fresh` |
| `Scheduler` | `scheduleCycle`, one action per store call | `phase`, the lists `sTasks`, `sChunks`, `sNodes`, the split under way |
| `HeartbeatMonitor` | `checkHeartbeats`, `rescheduleNodeTasks` | listed nodes `mNodes`, `mNode`, decisions `mRetry`, `mFail` |
| `TaskAPI` | the task handlers, one action per store call | requests between check and write (`cancelling`, `retrying`), polls (`pollPhase`, `batch`, `unmarked`, `abandoned`), results (`checking`, `completing`) |
| `NodeAgents` | the agents, and the node handlers they and operators call | `agent`, `exec` |
| `Constellation` | all of them around one store, with faults, restarts and fairness; the properties | history: `assigns`, `starts`, `autoRetries`, `manual` |
| `TaskLifecycle` | what the path promises of each item of work: an account of attempts permitted, given and started, and the states a client may see | `state`, `holder`, `allowed`, `given`, `started` |
| `MCConstellation` | values of the constants for TLC | |
| `WebSocketHub` | publishers, the hub's goroutine, `HandleWebSocket`, the pumps | `clients`, `broadcast`; per client `handler`, `conn`, `send`, `closes`, `reader`, `writer`; history `since`, `got`, `handled` |
| `Dashboard` | browser tabs around the hub, with the fetches they have under way | `socket`, `heard`, `fetches`, `seen`; history `late`, `shown` |
| `Membership` | cluster init, destroy, join, node deletion, accounts, restarts | `rows`, `controller`, `member`, `accounts`; requests between their calls |
| `Splitter` | `SplitTask` with its four strategies | the request, the file's `length`, `measured`, `offset`, `pieces`, `filling`, `chunks`, `error`; history `shortest` |
| `Placement` | constraints, scores, `findBestNode`, `PlaceTask`, live metrics within a cycle | `metrics`, `listed`, `placing` |
| `PriorityQueue` | every method of the queue, on container/heap | `heap` of items, each for a task; history `enqueued` |
| `AgentExecutor` | executions on one agent, their commands as environment | `step`, `shell`, `open`, `reading`, `waited`, `result`, `runningTasks` |
| `MCParts` | membership, queue and placement side by side, values of the constants | `part` |
| `MCProgress` | hub, tabs, splitter and executor side by side | `part` |
| `SafetyProofs` | the task path: type correctness, assignments, placement, retries | |
| `AttemptProofs` | the task path: what becomes of an attempt that was given | |
| `LifecycleProofs` | the task path: `TaskLifecycle` is implemented; parents and chunks | |
| `HubProofs` | channels, types and feeds of the hub | |
| `MembershipProofs`, `ExecutorProofs` | types and safety of membership and the executor | |
| `SchedulingProofs` | the heap and the choice of a node, at any size | |
| `SplitterProofs` | the splitter, for files of any length | |

`TaskAPI` and `Scheduler` extend `TaskStore`; `NodeAgents` extends `TaskAPI`;
`Constellation` extends all of them and `HeartbeatMonitor`, and instantiates
`TaskLifecycle`; `Dashboard` extends `WebSocketHub`. The parts of `MCParts` share no
variable, and neither do those of `MCProgress` but for the hub that the tabs are around; a
behaviour of either is one of a single part, chosen at the start. A definition has the name
of the function it models wherever there is one, and `PROJECT.json` gives its lines. An
action is one store call together with the local computation up to the next one. That is the
grain at which others can interfere, since the store's mutex covers one method and nothing
else in the controller is locked across two. Where a handler's first call cannot be observed
by others (the check of the pinned node in a submit) it is part of the next step.

What the model abstracts:

- *Data.* Commands, logs, names, results other than an exit code of zero or not.
- *Scores.* The weighted score only ranks nodes that satisfy the hard constraints, so the
  choice among these is open. `Fits` says which nodes satisfy the constraints of a task.
  It is fixed because the agents report no load: `health.rs` prepares the numbers and
  sends a status without them, and the running count the scheduler writes back is not
  among what `satisfiesConstraints` compares.
- *Time.* The 30 s of the monitor are the set `fresh`: a heartbeat adds a node,
  `Lapse` removes it. `Lapse` of a live agent is a fault (`"heartbeat"`), of a dead one it
  is only time passing. `clock` numbers the inserts, which is all `created_at` is read for.
- *Splits.* A split is an error or a number of chunks out of `SplitCounts`. The ids of the
  chunks depend on the task and the index only, so a second split names the same rows.
- *Enforcement of references.* The schema declares them; whether the database enforces
  them depends on a setting of the connection the repository does not make. `ForeignKeys`
  is therefore a constant, and both values are checked. With it, a retry's
  `assigned_node = ''` is refused like a deletion of a node in use.
- *Polls.* An agent waits for each poll, so a node has one handler, plus the one a broken
  connection leaves behind, at most one at a time. A connection that breaks before the
  handler's reads is not distinguishable from a poll sent later.
- *Results.* A result post may be lost (`ResultLost`) where connections or the controller
  may fail.
- *Database errors* other than refused references and duplicate keys do not happen.
- *Events.* The hub's events are numbers. A publisher changes a table (`Change`) and then
  publishes; which table it was matters to nobody but the tab, which fetches on any message.
  Some changes have no event (`ChangeQuietly`): a node reserved or given back
  (`cluster.go:394`), the marks of a poll (`tasks.go:397`), a split and a failed one
  (`scheduler.go:115`). `StatusCatchesUp` is about those that have one, with the others in
  between.
  The hub's pass over its clients is one step, since what it does to one client does not
  depend on the others; so is each write of a pump. A connection is *up*, *broken* (the
  peer left; writes may still succeed) or *closed*.
- *Fetches.* A tab's fetches overlap. Each is served at some time and its answer arrives at
  some later time, in any order, or it fails; the last answer to arrive is shown. `late` and
  `shown` record whether what is shown is the answer of the newest fetch that has ended.
- *Files.* A file is its present length, and its lines or bytes are their positions; a
  chunk's file is the sequence of positions copied to it. It may be cut and appended to
  before every read, and copying goes on from the offset of the open file. The scanner of
  `splitByLines` reads many lines at once; these are the ones scanned with no change in
  between, and the file changes by whole lines then.
- *Files of chunks.* The names of the chunks' files are left out: the agent hands them to no
  command.
- *Order of rows.* The query for online nodes asks for no order, so a cycle's list is any
  order of them; ties between equal scores go to the first.
- *Loops.* The splitter's loops are steps, as the file may change between two turns. A loop of
  container/heap or of the choice of a node is a function of the number of turns made, and a
  turn of it an operator (`Rise`, `Sink`, `Considered`, `Better`, ...). A loop whose number of
  turns is not known beforehand has a bound that suffices, and a turn after its end changes
  nothing.
- *Numbers in scores.* Usage is in percent, load in hundredths, scores are scaled to
  integers: `Scale` stands for 1.0 and is a multiple of all that is divided by, so the model's
  scores are exact for any hardware. Usages are multiples of 25, so that what is left of cores
  and memory is exact in the code's floating point as well; its rounding of scores may only
  part or join nodes whose exact scores are next to equal.
- *Commands.* A shell ends when and as it likes, and each of its output pipes closes when
  the last process holding it ends, or when the agent's reader gives up on it. Awaiting the
  shell may give an error at any time. Nothing the agent does ends a shell, as in the code.
- *Requests of membership.* Any number of inits, destroys and creations of accounts overlap;
  a destroy reads the cluster in one step and the list of its nodes in another. What tasks
  refer to a worker is fixed (`busy`).
- *Items of the queue.* `Enqueue` makes an item for a task, and a task may have several; they
  are told apart as the pointers in the code are.

`retry_max` is taken to be non-negative, as the command line's default and help suggest;
with a negative one the monitor fails tasks at once. Nothing deletes a task. A restarted
agent registers under a new id, so the ids in `Nodes` live once.

## Runs

Ten runs are of `MCConstellation`, `progress` is of `MCProgress` and `parts` of `MCParts`. In
those of `MCConstellation`, `Faults` and `Requests` say what may go wrong and what
may be asked for. Two bounds cut the state space: `MaxManual`, the retry requests accepted
per task (every other counter is bounded through it and `RETRY_MAX = 1`), and `MaxChunks`.
A task that can be retried twice in all, once by the monitor and once by a client, has
the two retries that can race with each other and with results of either attempt; two
nodes are enough for a task to be on a wrong one, and two chunks for a first and a last.
With `MaxManual = 2`, in `dead_nodes` and `split_again`, two clients' retries can both find a
task failed; the other runs have one, and what they check is proved for any number.
Nodes are a symmetry set where the constants treat them alike and no liveness is checked.

| run | instance | properties | shows |
|---|---|---|---|
| `lost_connections` | 1 task, 2 nodes, broken and lost polls, lost results, cancel, retry | `AssignedOncePerAttempt`, `StartedOncePerAttempt` | polls broken off after some of their marks, sent again and answered late start nothing twice |
| `requests` | 1 task, 2 nodes that fall silent, cancel, retry | `TypeOK`, `RunningIsReal`, `AutoRetryBudget`, `NoNodeSwitch` | check-then-write requests against the monitor and the stale lists |
| `split` | 1 task in 2 chunks, 2 nodes that fall silent, cancel | `ParentWaitsForChunks`, `NoLostCompletion`, `ImplementsLifecycle` | the count of one result handler against the writes of the others; divided tasks and their chunks under the abstract specification |
| `split_again` | 1 task in 0 to 2 chunks, 1 node, splits that fail, controller restarts at every step, 2 retries | `StartedOncePerAttempt` | the second split of a task half split, or split into another number |
| `placement` | 2 tasks, one pinned, 2 nodes, references enforced, delete, status, reserve | `PlacementRespected` | deletions and status changes between the scheduler's reading and writing, and during polls |
| `finish` | a simple task and a task in 2 chunks, 1 node, fair | `AllTasksFinish` | a node joins stale and may be marked offline before its first heartbeat; all tasks end |
| `dead_nodes` | 1 task, 1 node, dying agents, lost registrations, broken and lost polls, cancel, 2 retries, fair | `ImplementsLifecycle`, `DeadNodeExcluded` | no step brings a dead agent's node back; what clients see of the task follows its abstract specification through all of that |
| `progress`: hub | 2 connections, 1 publisher, channels of capacity 1, 2 changes, 1 broken connection, fair | `PartTypeOK`, `NoGapWhileRegistered`, `ClosedOnce`, `PublishersProceed`, `LostClientsLeave` | slow and broken clients, a welcome that waits or panics, a hub that starts late |
| `progress`: tabs | the same hub with 1 tab, 2 fetches at once, connections that only the hub ends, fair | `StatusCatchesUp` and the above | a tab that is dropped and reconnects, fetches that fail or overtake one another |
| `progress`: splitter | files of up to 5 lines or bytes, chunk sizes -1 to 5, read buffer 2, 3 stages, 3 workers, fair | `PiecesMakeTheFile`, `CopyEnds` | every strategy, on a file that grows or is cut before every read and every line |
| `progress`: executor | 2 items, timeouts negative and positive, fair | `RunningCounts`, `ReportTellsTruth`, `EndedIsReported` | commands that hang, outlive their shell, fail to start or to be awaited, or time out; an agent that stops |
| `parts`: membership | 2 overlapping inits, 1 destroy, 1 worker, 2 accounts with 2 overlapping creations each, restarts, references enforced or not | `ClustersBounded`, `AdminOnceAnswered` | requests made of several statements, interleaved and left half done |
| `parts`: queue | 8 items of 7 tasks, of all priorities and one unknown | `PeekIsBest`, `QueueKeepsTasks` | every sequence of enqueues, dequeues and removals, with a task that is queued twice |
| `parts`: placement | 3 nodes, 4 kinds of task, counts up to 5 | `SameChoice`, `SpreadsTasks` | every list a cycle may hold, reports arriving during it |
| `cancel_overwritten`, `scheduled_stranded`, `late_mark` | small | one each | violations, see below |

In `finish` and `dead_nodes` fairness is `Fairness` of `Constellation`: weak fairness of the
scheduler, the monitor, each step of a handler that is under way, each agent's join,
heartbeat, poll and receipt, and each report. The first two are tickers in goroutines that
end only with the process; a handler is a goroutine without locks held across calls; the
agent's loops end only with it. A report assumes that commands end, which the code does not
guarantee: it is the environment's part. Nothing is assumed of requests and faults. `DeadAgent` has
weak fairness because it is time.

In `progress` the hub's goroutine, its start, publishers that have something to publish, and
each connection's goroutines are weakly fair: they wait for nothing but what their guards
say. The goroutines of one connection share a fairness condition, which suffices as none of
them can go on for ever. A tab's message and close handlers are weakly fair, and so are its
reconnect timer and its oldest fetch: requests are served, and every fetch ends, well or
not. Nothing makes a connection break or a tab open. The splitter, which the scheduler's
goroutine runs, goes on. The agent's tokio task for an item is weakly fair in what waits for
nothing but the shell's end and the readers, and an output reader is once its pipe has
ended; nothing is assumed of the command, of further polls, or of the timeout. The parts
that a behaviour is not of are in a state in which none of this is enabled: no fairness
condition asks for a step that the other parts' behaviour does not make.

Why the bounds of these two runs are enough. With channels of capacity 1 every full channel
is reached with a single event; two events are needed for one that fills a channel and one
that finds it full, and two connections for a tab that comes back while the hub still holds
its old client. (Capacity 256 only makes these states rarer.) Two fetches overtake one
another. Five bytes against a buffer of two make reads that are cut short by the buffer, by
the chunk and by the end of the file. An item without a timeout behaves as one whose timeout
never comes, so two kinds of timeout are enough. `HeapDown` needs six items for a removal
whose replacement comes from the other branch and has to go up. Two inits are the least that
overlap, and a third cluster lets an init that should have been refused exceed them. Counts up
to five reach the penalty that grows no more; beyond them, and for any list, heap and file,
there are the theorems of `SchedulingProofs` and `SplitterProofs`.

### What the task path promises

`TaskLifecycle` is an account: asking for an item permits one attempt, a retry one more; an
attempt is given to one node; a node starts only what was given; a result is recorded only
for something that was started or whose node was lost. `Constellation` maps a row's status
to `state`, its node to `holder`, `1 + retryCount` to `allowed`, and the history counts
`assigns` and `starts` to `given` and `started`. Everything else it has (lists, batches,
handlers between two calls, heartbeats) is invisible there. `ImplementsLifecycle` thus
relates the columns clients read with what agents really did, across steps: a retry that
forgets to take the node away, or a poll that hands out a chunk that is already running,
breaks it. What the abstract specification does *not* promise is as telling: a cancelled
item may be announced as running, and a result may follow any state, since the code
writes both without looking.

Operators whose names end in `Mutant` are deliberate mistakes (a dropped guard, a missing
column in an UPDATE, an off-by-one, a swapped order). `PROJECT.json` pairs each with the
run and the property that must fail when it replaces the definition after it; for
instance, answering a poll before its marks are written breaks `StartedOncePerAttempt`.

## Where the code departs from what it says

Each is a run whose property states a line of the repository and is violated.

- `cancel_overwritten`: *cancelled* is among the `terminalStatuses` (`tasks.go:218`), yet a
  cancelled task goes on to scheduled (the scheduler's list was read before), to running
  (the poll's was) and to completed (its result comes), without any retry.
- `scheduled_stranded`: `rescheduleNodeTasks` "moves tasks from a failed node back to the
  queue" (`scheduler.go:343`), but it lists running tasks only. A task assigned and not yet
  fetched when its agent dies stays scheduled for ever, and so does every chunk.
- `late_mark`: the handler of a broken poll marks a chunk running after the chunk's result
  arrived by way of the next poll: the parent is completed with a running chunk.

Seen while modelling, without a run. On the task path: the result handler completes a parent
with exit code 0 also when chunks failed, while `AggregateResults` (`splitter.go:346`),
which nothing calls, reports that as an error; deactivating a node is to "stop scheduling"
(`cli/cmd/nodes.go:121`), and the agent's next heartbeat sets it online; with references
enforced the retry of `store.go:693` is refused while the event `task_rescheduled` is
broadcast; a retried split task whose chunks are all done stays splitting (`tasks.go:258`),
as does one split into no chunks (`splitter.go:176`) or one whose controller stops between
the last chunk's result and the parent's (`tasks.go:477`); a failed command is never
retried, though the command line's `--retry` is the "Number of retries on failure"
(`cli/cmd/run.go:249`), as only the monitor spends retries; a lost poll answer leaves tasks
running for ever (`tasks.go:397`); a task that is cancelled and retried between a poll's
read and its mark is *running* on no node, and stays so for ever if the agent that executes
it dies, as the monitor looks for the tasks of a node (`scheduler.go:343`); `is_distributed`
is sent by the command line and read by no handler (`cli/cmd/run.go:51`). Around it: every
stage of a pipeline is handed the whole command of its parent (`tasks.go:408`), where
`splitter.go:277` says the stage's index "determines which part", and the agent gives the
files of a chunk to no command; all tasks of a cycle are placed from the same listed
metrics, so equal tasks go to one node, chunks are not counted at all, and as agents send no
metrics and nothing takes a count down, the spreading stops for good once nodes count five.
In the hub: a welcome may wait for ever in a channel that is full before anyone reads it
(`websocket.go:131`), or panic if the hub closed it; the model has both, and
`StatusCatchesUp` excepts the first. In the tab: the cleanup closes a socket whose `onclose`
opens another (`useConstellation.ts:92`); `fetchStatus(); // Always update dashboard
metrics` (`useConstellation.ts:88`) shows whichever answer arrives last, be it the older
one, and keeps the old status when a fetch fails (`useConstellation.ts:42`); and some
changes are announced to no tab, as said above under *Events*. In membership: a controller
that stops between creating a cluster and its administrator leaves one that refuses init
(`cluster.go:46`); two inits at once may create two clusters (`cluster.go:43`); "Remove all
nodes first" (`cluster.go:171`) leaves a node that joins after the list was read, or whose
deletion fails, while the cluster is deleted if references are not enforced. On the agent:
"the child process is already dropped at this point, which kills it on Unix"
(`executor.rs:166`), but nothing kills it, and the report waits for its output to end;
`setup_cgroup` is passed a memory limit of 1024 (`executor.rs:73`).

## Proofs

`tlapm` checks all proofs of the eight proof modules. Those of the task path assume what its
modules assume of the constants (`StoreAssumptions`, `SchedulerAssumptions`,
`ConstellationAssumptions`): that the sets do not overlap, that the functions have their
domains, and nothing of their size. So a theorem holds for any number of tasks, chunks and
nodes. Unless its hypothesis says otherwise it also holds for every value of `Faults`,
`Requests` and `ForeignKeys`, that is, under all faults and requests together. Those of the
other parts assume `HubAssumptions` and `TabAssumptions`; `MembershipAssumptions` and
`ExecutorAssumptions`: of the sets of overlapping init requests and of executions, that they
are finite, as both are counted; `QueueAssumptions`: that times of creation are numbers;
`SplitterAssumptions`: that the default chunk size and the read buffer are not zero and the
bounds are numbers; and `PlacementAssumptions`: that ids differ, amounts are natural
numbers, and `Scale` is a multiple of those that are divided by, which any finite inventory
has. Nothing bounds the number of tasks queued, the length of a file, the number of nodes or
what the nodes count, beyond the finite sets a count needs.

Why each property holds is said by the invariant its proof adds to it. Types are part of
all of them.

### Task path: tables and assignments

- `TypeCorrect`: `Spec => []TypeOK`. Inductive as it stands. A lemma for every group of
  store statements says they keep the tables' types; then one lemma per group of actions.
- `StepKinds` (lemma): every step is one of five kinds. It gives a task to a node,
  gives a chunk to a node, is a retry of the monitor, is a retry of a client, or is
  *quiet*: it gives no node, counts no retry, makes no row queued that was not queued or
  absent, and adds only queued rows to the scheduler's lists. The next four theorems
  are case analyses over these kinds.
- `AssignedOncePerAttemptHolds` and `NoNodeSwitchHolds`, from `AssignInv`. Neither property
  is inductive: the scheduler writes without reading, so what matters is what is true of
  everything on its lists, however old. `AssignInv` says that a task that is queued, not yet
  submitted *or on the scheduler's list* has no node and an attempt that was not assigned,
  and the same of chunks. A cancel changes the row and leaves the list, so the list has to
  be in the invariant.
- `AutoRetryBudgetHolds`, from `BudgetInv`: the monitor's retries are among the counted
  ones, and a task it has listed for a retry had fewer counted than `retry_max`. Clients'
  retries between the listing and the write only raise the count.
- `PlacementRespectedHolds`, from `PlacementInv`: rows, the batches of open polls and
  executions are on suitable nodes. The batches are needed because a poll hands over what it
  read even when the row has been retried and given to another node since.

### Task path: attempts

- `RowSteps` (lemma): every step leaves the rows and the counts as they are, writes one status
  to one row *for a reason* (a handler is about to mark it, a node executes it, the monitor
  listed it, ...), assigns, retries, or answers a poll. It is what `StepKinds` is for nodes
  and retries, for statuses and starts.
- `StartedOncePerAttemptHolds`, from `AccountInv`. An attempt that was given is in one of
  several places: started, in the batch of one of the polls that may still be answered
  (`Hands`), or scheduled and waiting for the next poll of its node (`Offered`). `AccountInv`
  says that these together are never more than the assignments. A scheduled row that is in
  the batch of its node's open poll is not counted twice, unless that poll has marked it
  already and the row was assigned again since, in which case it must be: this difference
  is why a poll that comes again starts nothing twice. What the assignments are bounded by
  is the previous theorem.
- `RunningIsRealHolds`, with `Faults \subseteq {"heartbeat"}`, from `RealInv`: while no agent
  is lost and no poll cut off, a mark is followed by the batch it belongs to, and a retry that
  takes a task away from a node does not leave *running* behind. TLC
  finds it violated under each other fault: a broken poll or a restart loses a batch whose
  rows are marked; and a task retried between a poll's read and its mark runs with
  no node in its row, so that nothing finds it when its agent dies.
- `ImplementsLifecycleHolds`: `Spec => ImplementsLifecycle`, step by step. Every kind of
  `RowSteps` maps to an action of `TaskLifecycle` or to a stutter. The reasons are not
  enough, because most of them are snapshots: `LifeInv` adds that what a handler holds, and
  what a node executes, was given or started (`WorkInv`), that a split is of a task on the
  list and of chunks not handed out (`SplittingInv`), and that what lists and handlers name is
  in the tables (`KnownInv`).

### Task path: parents and chunks

Both theorems assume that clients retry nothing (`NoRetries`), as a task that is split a
second time has chunks of the first time that are done already. `OnceInv` then says
that nobody retries a parent, and that the chunks of a parent that is still to be split have
not been taken by anyone; a restart in the middle of a split leaves chunks behind, and
those wait because the next cycle lists their parent before it comes to them.

- `NoLostCompletionHolds`, with `"controller" \notin Faults`: a parent that waits for chunks
  which are all done has a handler about to count or to complete it. The handler that
  writes the last chunk counts after it, whatever the others counted. A restart between
  the two loses the handler, and nothing else counts: this is the hazard at
  `tasks.go:477`.
- `ParentWaitsForChunksHolds`, with `"connection" \notin Faults`, from `WaitInv`: what a handler
  counted as done stays done until it completes the parent. That a chunk which is done
  stays done holds only where no handler of a broken poll still owes it a mark; the run
  `late_mark` is the counterexample where one does. Restarts of the controller are allowed.

TLC shows that each of these hypotheses is needed: on the instance of `split`, adding
`"retry"` or `"controller"` breaks `NoLostCompletion`, and adding `"connection"`, or `"retry"`
with splits into different numbers of chunks, breaks `ParentWaitsForChunks`.

### Other parts

- `ClosedOnceHolds`, from `HubInv`: that registered clients have open channels is not
  inductive, since a registration takes whatever channel the client has. `HubInv` adds that
  a client that is not registered *yet* has an open one, which `Forget` establishes when the
  client's value is used again.
- `HubTypeCorrect`, from `HubTypeInv`, which adds the count of events: what was handled and what
  is in the hub's channel is what was published, and each publisher between its change
  and its event accounts for one write. Without it events could be numbers never published.
- `NoGapWhileRegisteredHolds`, from `FeedsInv`. A client's feed is what its peer has received
  followed by what is in its channel, so that the writer's steps do not change it. The place of
  the welcome in it is fixed when the handler sends it; until then it is the place after
  the last message, and moves with every event. A client that was dropped keeps an initial
  part.
- `MemberTypeCorrect`, with `CreatedFirst`: a request past the creation knows its cluster,
  without which not even the domains are kept.
- `AdminOnceAnsweredHolds`, from `AdminInv`: a name has no row or one.
- `ClustersBoundedHolds`, from `ClustersInv`: a request that has checked and not yet created
  counts as a cluster. New ones come in only while there is no cluster, and then the
  requests themselves bound them.
- `RunningCountsHolds`: each step changes the count and the set of executions under way
  together, or neither.
- `ReportTellsTruthHolds`, from `TruthInv`, which says at each place of `execute_task` what
  has not happened yet; in particular, no result is there before the readers are done, and
  what was awaited, if it was an end, is how the shell ended.
- `ExecTypeCorrect`. That the agent's count is never below zero is not a matter of types: it
  is because it counts a set (`RunningCounts`).
- `SplitTypeCorrect`, `QueueTypeCorrect`, `PlaceTypeCorrect`: the same of the modules below.

### Algorithms: queue, splitter, placement

These theorems are about loops. The library's induction theorems take an operator as a
parameter and cannot be used, but one that does not can: `<` is well founded on the natural
numbers. From it follow that sets of numbers have a least element (`Least`), induction over
a *set* of numbers (`Induction`), that a recursive function on `0..n` exists and satisfies its
equation when a turn of it is given as a *function* (`LoopExists`), and that what each turn
keeps holds at the end (`LoopKeeps`). Every loop of the model has a lemma that states its
equation so.

- `PeekIsBestHolds` and `QueueKeepsTasksHolds`, from `QueueInv`: the heap is in order and has the
  items put in and not taken out, each once. What `up` keeps is `OrderedBut`: every item but the
  moving one is in order with its parent, and the moving one's children with its parent. What
  `down` keeps is `Falling`, the same about the children of the moving item, and that an item
  which has moved is in order with its parent. `heap.Remove` runs `down` and then, only
  if nothing moved, `up`: the item from the end may belong above the place it is put in,
  as that place may be in another branch, and `Falling` at the position it started from is
  `OrderedBut` there. That the first item is the best is once more an induction, up the
  positions' halves (`FirstIsBest`).
- `PiecesMakeTheFileHolds`, from `SplitInv`. Of the copying, `PiecesInv` says that the positions
  written so far are those up to the offset of the open file, in order, which needs nothing
  of the file's length; and of each chunk, that it is full, or the last, or that the file was
  cut below the measured length. For the last disjunct it keeps the offset next to `UpTo`,
  how far the copying would be if every file but the last were full: the two differ only
  after a read that found nothing, and then all that was there all the time is copied.
  `ProgressInv` says what each place of `SplitTask` knows, of the number of chunks and of the
  file's length. Copying is steps here, so no loop is needed.
- `SameChoiceHolds`: `findBestNode` is one loop and `PlaceTask` three, so the induction is over
  initial parts of the list (`SameNode`): one more node changes both choices alike, because
  a node that does not satisfy the constraints changes neither, and a pinned node once found
  is kept. `ChosenNode` says that a choice is suitable, and that there is one if any node is.
- `SpreadsTasksHolds`: what is chosen scores at least as much as every suitable node
  (`ChosenNode`), and of two nodes alike but for their counts the one that counts fewer, up
  to five, scores *strictly* more (`BetterIsLessBusy`), as no score is zero before the
  penalty (`FitnessPositive`: the affinity share never is).

The strengthened invariants were checked with TLC before they were proved: `AssignInv`,
`BudgetInv` and `PlacementInv` on the instances of `requests`, `split_again` and `placement`;
`LifeInv`, of which `PollInv`, `AccountInv`, `WorkInv`, `SplittingInv` and `KnownInv` are parts,
on all five small instances of the task path; `RealInv` on `requests`; `OnceInv` and `WaitInv`
on `split`, also with restarts of the controller; `HubTypeInv`, `HubInv`, `FeedsInv` and
`SplitInv` on `progress`; `QueueInv` on `parts`.

### Only model-checked

- The liveness properties `AllTasksFinish`, `DeadNodeExcluded`, `PublishersProceed`,
  `LostClientsLeave`, `StatusCatchesUp`, `CopyEnds` and `EndedIsReported`, which are beyond
  this prover.
- `ParentWaitsForChunks` and `NoLostCompletion` where a client retries a parent: neither holds
  in general then, and no run claims it.

## Not modelled

- Distributed tasks: `is_distributed` is a column no request can set, so the scheduler's
  branch for them and `findGangNodes` are not reached.
- Several controllers on one replicated database. Each would run a scheduler and a monitor
  of its own over the same tables; the model has one.
- `AggregateResults`, `GenerateReduceTask`, `cancel_task`: called by nothing.
- Login, tokens and roles, the audit log, analytics and the compute pool, mDNS, hardware
  discovery, cgroups, the metrics loop, the command line: single requests, read-only sums
  or operating-system I/O without state that others depend on.
- Floating-point rounding in constraints and scores; file-system errors and overlong lines
  in the splitter; the names of chunk files; a tab's lists of nodes and tasks, and tabs that
  are unmounted.
- Generated code: `controller/proto` and `controller/github.com/constellation/proto` hold
  two copies of the code generated from `proto/`. They are the larger part of the source's
  lines and have no behaviour of this system's own.

## Plan

1. (done) Task path, `TaskLifecycle` and its implementation, hub and tabs, membership,
   splitter, placement, queue, executor.
2. (done) Proofs: type correctness and safety of the task path, the implementation of
   `TaskLifecycle`, the hub, membership, the executor, and the algorithms: queue, splitter,
   placement. Every invariant a run checks is a theorem, those of `progress` and `parts` each
   for its component.
3. Proofs: safety consequences of the two theorems on parents for tasks that are retried,
   stated per split; what holds of rows marked running under more faults than late
   heartbeats (as `RunningIsReal`, with the node's silence as an alternative).
4. Two controllers: `Scheduler` and `HeartbeatMonitor` over one `TaskStore`, to find which of the
   promises of `TaskLifecycle` are left.
