-------------------------- MODULE HeartbeatMonitor --------------------------
(***************************************************************************)
(* The second goroutine of the scheduler (controller/scheduler).  Every 10 *)
(* seconds checkHeartbeats lists the nodes, marks those that are online    *)
(* and have been silent for 30 s offline, and for each of them             *)
(* rescheduleNodeTasks lists the running tasks and puts the node's own     *)
(* back in the queue, or fails them when their retries are used up.  The   *)
(* decision is taken on the listed row; the write does not look again.     *)
(*                                                                         *)
(* The age of a heartbeat is taken when the nodes are listed.  The code    *)
(* takes it in the loop, from the listed row, so a node can only cross the *)
(* 30 s between the two; that execution is also one of this module's, with *)
(* the expiry moved before the listing, since nothing else reads it.       *)
(***************************************************************************)
EXTENDS TaskStore

VARIABLES mNodes,    \* silent nodes of the listing still to be handled
          mNode,     \* {n} while n is marked offline and its tasks unlisted
          mRetry,    \* listed tasks still to be put back in the queue
          mFail      \* listed tasks still to be failed
monitorVars == <<mNodes, mNode, mRetry, mFail>>

MonitorTypeOK ==
    /\ mNodes \subseteq Nodes
    /\ mNode \subseteq Nodes
    /\ mRetry \subseteq Tasks
    /\ mFail \subseteq Tasks

MonitorInit == mNodes = {} /\ mNode = {} /\ mRetry = {} /\ mFail = {}

HandlingNode == mNode # {} \/ mRetry # {} \/ mFail # {}

CheckHeartbeats ==
    /\ mNodes = {} /\ ~HandlingNode
    /\ mNodes' = {n \in Nodes : nodeStatus[n] = "online" /\ n \notin fresh}
    /\ mNodes' # {}
    /\ UNCHANGED <<mNode, mRetry, mFail, storeVars>>

\* Mutant: the node's tasks are rescheduled, its row is not written.
MarkOfflineMutant(n) ==
    /\ n \in mNodes
    /\ ~HandlingNode
    /\ mNodes' = mNodes \ {n}
    /\ mNode' = {n}
    /\ UNCHANGED <<mRetry, mFail, storeVars>>

MarkOffline(n) ==
    /\ n \in mNodes
    /\ ~HandlingNode
    /\ UpdateNodeStatus(n, "offline")
    /\ mNodes' = mNodes \ {n}
    /\ mNode' = {n}
    /\ UNCHANGED <<mRetry, mFail>>

\* Mutant: off by one at the last retry.
ListNodeTasksMutant(n) ==
    /\ n \in mNode
    /\ mRetry' = {t \in Tasks : /\ status[t] = "running"
                                /\ assignedNode[t] = n
                                /\ retryCount[t] <= RetryMax[t]}
    /\ mNode' = {}
    /\ UNCHANGED <<mNodes, mFail, storeVars>>

\* Only tasks that are "running" are listed; the chunks are not.
ListNodeTasks(n) ==
    /\ n \in mNode
    /\ LET lost == {t \in Tasks : status[t] = "running" /\ assignedNode[t] = n}
       IN  /\ mRetry' = {t \in lost : retryCount[t] < RetryMax[t]}
           /\ mFail' = lost \ mRetry'
    /\ mNode' = {}
    /\ UNCHANGED <<mNodes, storeVars>>

RescheduleTask(t) ==
    /\ t \in mRetry
    /\ IncrementTaskRetry(t)
    /\ mRetry' = mRetry \ {t}
    /\ UNCHANGED <<mNodes, mNode, mFail>>

FailTask(t) ==
    /\ t \in mFail
    /\ UpdateTaskResult(t, 1)
    /\ mFail' = mFail \ {t}
    /\ UNCHANGED <<mNodes, mNode, mRetry>>

MonitorQuietStep ==
    \/ CheckHeartbeats
    \/ \E n \in Nodes : MarkOffline(n) \/ ListNodeTasks(n)
    \/ \E t \in Tasks : FailTask(t)
=============================================================================
