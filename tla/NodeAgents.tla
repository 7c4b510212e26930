----------------------------- MODULE NodeAgents -----------------------------
(***************************************************************************)
(* The worker agents (agent/src) and the controller's node handlers        *)
(* (controller/api/cluster.go).  An agent registers once at startup, sends *)
(* the status "online" every few seconds, polls for work, runs everything  *)
(* a poll hands it at once, and posts each result once, without looking at *)
(* the answer.  It keeps no record of what it runs, and nothing tells it   *)
(* that a task was cancelled or given to another node.  A restarted agent  *)
(* registers under a new id, so a node id lives once.                      *)
(***************************************************************************)
EXTENDS TaskAPI

VARIABLES agent,   \* agent[n]: "new" before it registers, then "up", "dead"
          exec     \* exec[n][i]: executions of item i now running on n
agentVars == <<agent, exec>>

AgentTypeOK ==
    /\ agent \in [Nodes -> {"new", "up", "dead"}]
    /\ exec \in [Nodes -> [Items -> Nat]]

AgentInit ==
    /\ agent = [n \in Nodes |-> "new"]
    /\ exec = [n \in Nodes |-> [i \in Items |-> 0]]

-----------------------------------------------------------------------------
(* Registration and heartbeats. *)

HandleNodeJoin(n) ==
    /\ agent[n] = "new"
    /\ RegisterNode(n)
    /\ UNCHANGED apiVars

Join(n) ==
    /\ HandleNodeJoin(n)
    /\ agent' = [agent EXCEPT ![n] = "up"]
    /\ UNCHANGED exec

\* The answer is lost: the node exists, but the agent never learns its id and,
\* not being registered, sends nothing.
JoinUnanswered(n) ==
    /\ HandleNodeJoin(n)
    /\ agent' = [agent EXCEPT ![n] = "dead"]
    /\ UNCHANGED exec

Heartbeat(n) ==
    /\ agent[n] = "up"
    /\ UpdateNodeHeartbeat(n)
    /\ UNCHANGED <<apiVars, agentVars>>

\* No heartbeat of n was recorded for 30 s.
Lapse(n) ==
    /\ n \in fresh
    /\ HeartbeatExpires(n)
    /\ UNCHANGED <<apiVars, agentVars>>

\* The agent's process ends, and its executions with it.
Die(n) ==
    /\ agent[n] = "up"
    /\ agent' = [agent EXCEPT ![n] = "dead"]
    /\ exec' = [exec EXCEPT ![n] = [i \in Items |-> 0]]
    /\ UNCHANGED <<apiVars, storeVars>>

-----------------------------------------------------------------------------
(* Polling, executing, reporting. *)

\* PollReadTasks is the arrival of the agent's request.
Poll(n) ==
    /\ agent[n] = "up"
    /\ PollReadTasks(n)
    /\ UNCHANGED agentVars

\* The agent receives the batch and spawns an execution of each item.
PollRespond(n) ==
    /\ agent[n] = "up"
    /\ PollAnswered(n)
    /\ exec' = [exec EXCEPT ![n] =
                   [i \in Items |-> @[i] + (IF i \in batch[n] THEN 1 ELSE 0)]]
    /\ PollEnd(n)
    /\ UNCHANGED <<agent, cancelling, retrying, unmarked, abandoned,
                   resultVars, storeVars>>

\* The answer does not arrive.
PollUnanswered(n) ==
    /\ PollAnswered(n)
    /\ PollEnd(n)
    /\ UNCHANGED <<agentVars, cancelling, retrying, unmarked, abandoned,
                   resultVars, storeVars>>

Finished(n, i) ==
    /\ exec[n][i] > 0
    /\ exec' = [exec EXCEPT ![n][i] = @ - 1]
    /\ UNCHANGED agent

ReportTask(n, t, exitCode) == Finished(n, t) /\ HandleTaskResult(t, exitCode)
ReportChunk(n, c, s)       == Finished(n, c) /\ HandleChunkResult(c, s)

\* The POST fails; it is not sent again.
ResultLost(n, i) ==
    /\ Finished(n, i)
    /\ UNCHANGED <<apiVars, storeVars>>

-----------------------------------------------------------------------------
(* Requests of operators. *)

HandleDeleteNode(n) ==
    /\ nodeStatus[n] # "absent"
    /\ DeleteNode(n)
    /\ UNCHANGED <<apiVars, agentVars>>

\* "online" goes through the handler's heartbeat branch.
HandleUpdateNodeStatus(n, s) ==
    /\ IF s = "online" THEN UpdateNodeHeartbeat(n) ELSE UpdateNodeStatus(n, s)
    /\ UNCHANGED <<apiVars, agentVars>>

HandleReserveNode(n) ==
    /\ UpdateNodeStatus(n, "maintenance")
    /\ UNCHANGED <<apiVars, agentVars>>

HandleUnreserveNode(n) ==
    /\ UpdateNodeStatus(n, "online")
    /\ UNCHANGED <<apiVars, agentVars>>
=============================================================================
