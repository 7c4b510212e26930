--------------------------- MODULE PriorityQueue ---------------------------
(***************************************************************************)
(* The scheduler's priority queue (controller/scheduler/queue.go): a mutex *)
(* around a binary heap of container/heap.  Each method is one step.  The  *)
(* heap is a sequence whose positions i have the children 2i and 2i + 1.   *)
(* A task may be put in any number of times, each time in a queueItem of   *)
(* its own; the field queueItem.index is written and read by nobody, so it *)
(* is left out.                                                            *)
(***************************************************************************)
EXTENDS Naturals, Sequences, SequencesExt

CONSTANTS QTasks,     \* tasks to be queued
          QItems,     \* the queueItems
          QTask,      \* QTask[i]: the task an item is made for
          QPriority,  \* QPriority[t]: tasks.priority, any string
          QCreated    \* QCreated[t]: tasks.created_at

ASSUME QueueAssumptions ==
    /\ QTask \in [QItems -> QTasks]
    /\ QCreated \in [QTasks -> Nat]

VARIABLES heap,      \* PriorityQueue.items
          enqueued   \* history: items put in and not taken out again
queueVars == <<heap, enqueued>>

QueueTypeOK == heap \in Seq(QItems) /\ enqueued \subseteq QItems

QueueInit == heap = <<>> /\ enqueued = {}

priorityToInt(p) == CASE p = "critical" -> 4
                      [] p = "high"     -> 3
                      [] p = "low"      -> 1
                      [] OTHER          -> 2

priority(i)  == priorityToInt(QPriority[QTask[i]])
createdAt(i) == QCreated[QTask[i]]

\* Mutant: tasks of one priority in no order.
LessMutant(i, j) == priority(i) > priority(j)

Less(i, j) == \/ priority(i) > priority(j)
              \/ priority(i) = priority(j) /\ createdAt(i) < createdAt(j)

Swap(h, i, j) == [h EXCEPT ![i] = h[j], ![j] = h[i]]

-----------------------------------------------------------------------------
(* container/heap.  The state of a loop of up or down is the items and the *)
(* position of the one that moves.  A turn of a loop that has stopped      *)
(* changes nothing, and each that goes on at least halves or doubles the   *)
(* position, so that there are turns enough.                               *)

At(h, i) == [items |-> h, at |-> i]

Rise(s) ==
    LET j == s.at
        i == j \div 2
    IN  IF j = 1 \/ ~Less(s.items[j], s.items[i]) THEN s
        ELSE At(Swap(s.items, i, j), i)

HeapUp(h, k) ==
    LET up[m \in 0..k] == IF m = 0 THEN At(h, k) ELSE Rise(up[m - 1])
    IN  up[k]

\* Among the first n positions.
Sink(s, n) ==
    LET i == s.at
        left == 2 * i
        j == IF left < n /\ Less(s.items[left + 1], s.items[left])
             THEN left + 1 ELSE left
    IN  IF left > n \/ ~Less(s.items[j], s.items[i]) THEN s
        ELSE At(Swap(s.items, i, j), j)

HeapDown(h, k, n) ==
    LET down[m \in 0..n] == IF m = 0 THEN At(h, k) ELSE Sink(down[m - 1], n)
    IN  down[n]

HeapPush(h, item) == HeapUp(Append(h, item), Len(h) + 1).items

\* heap.Remove(i); heap.Pop is heap.Remove of the first position.
HeapRemove(h, i) ==
    LET n == Len(h) - 1
        swapped == Swap(h, i, n + 1)
        lowered == HeapDown(swapped, i, n)
    IN  Front(IF i > n THEN h
              ELSE IF lowered.at # i THEN lowered.items
              ELSE HeapUp(swapped, i).items)

-----------------------------------------------------------------------------
(* The methods. *)

\* In an item that is not in the queue: a new one.
Enqueue(t) ==
    \E i \in QItems \ enqueued :
        /\ QTask[i] = t
        /\ heap' = HeapPush(heap, i)
        /\ enqueued' = enqueued \cup {i}

Peek == QTask[heap[1]]

\* Mutant: the last item, where heap.Pop leaves the first.
DequeueMutant ==
    /\ heap # <<>>
    /\ heap' = HeapRemove(heap, Len(heap))
    /\ enqueued' = enqueued \ {heap[1]}

Dequeue ==
    /\ heap # <<>>
    /\ heap' = HeapRemove(heap, 1)
    /\ enqueued' = enqueued \ {heap[1]}

Positions(t) == {k \in DOMAIN heap : QTask[heap[k]] = t}

\* The first item with the task's id; without one nothing changes.
RemoveTask(t) ==
    /\ Positions(t) # {}
    /\ LET k == Min(Positions(t))
       IN  /\ heap' = HeapRemove(heap, k)
           /\ enqueued' = enqueued \ {heap[k]}

QueueNext == (\E t \in QTasks : Enqueue(t) \/ RemoveTask(t)) \/ Dequeue

QueueSpec == QueueInit /\ [][QueueNext]_queueVars

-----------------------------------------------------------------------------
(* Properties. *)

\* Whatever was removed from the middle before, the next task to be taken has
\* the highest priority of all and is the oldest of its priority ("Within same
\* priority, FIFO by creation time").
PeekIsBest ==
    heap # <<>> =>
        \A i \in enqueued :
            \/ priority(heap[1]) > priority(i)
            \/ priority(heap[1]) = priority(i) /\ createdAt(heap[1]) <= createdAt(i)

\* The queue holds the items put in and not taken out, each once, and so a task
\* as often as it was put in and not taken out: moving items about loses and
\* duplicates none.
QueueKeepsTasks == ToSet(heap) = enqueued /\ IsInjective(heap)
=============================================================================
