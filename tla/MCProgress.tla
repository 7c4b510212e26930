----------------------------- MODULE MCProgress -----------------------------
(***************************************************************************)
(* The components beside the task path that must get on with their work,   *)
(* model-checked side by side: each behaviour is one of a single component, *)
(* the one that part names.  The others have nothing to do that fairness   *)
(* would ask of them: the hub runs and nobody has connected, no tab is     *)
(* open, and the splitter has refused a task.                              *)
(***************************************************************************)
EXTENDS Dashboard, Splitter, AgentExecutor

VARIABLE part
partVars == <<part, allVars, splitVars, execVars>>

\* "hub" is the hub with connections that anyone opens, "tabs" that with
\* browser tabs on connections that only the hub ends.
Parts == {"hub", "tabs", "splitter", "executor"}

AnyRequest == CHOOSE r \in OtherRequests : r.strategy = "other"

PartInit ==
    /\ part \in Parts
    /\ NothingYet
    /\ running = (part \notin {"hub", "tabs"})
    /\ TabInit
    /\ Unopened
    /\ IF part = "splitter" THEN error = "not split"
       ELSE /\ request = AnyRequest /\ online = 0
            /\ error = "unknown split strategy"
    /\ ExecInit
    /\ part # "executor" => timeout = [e \in Exec |-> 1]

PartNext ==
    \/ /\ part = "hub" /\ (HubNext \/ \E c \in Clients : Upgrade(c))
       /\ UNCHANGED <<part, tabVars, splitVars, execVars>>
    \/ /\ part = "tabs" /\ Next /\ (breaks' = breaks)
       /\ UNCHANGED <<part, splitVars, execVars>>
    \/ /\ part = "splitter" /\ SplitNext
       /\ UNCHANGED <<part, allVars, execVars>>
    \/ /\ part = "executor" /\ ExecNext
       /\ UNCHANGED <<part, allVars, splitVars>>

PartSpec ==
    /\ PartInit /\ [][PartNext]_partVars
    /\ HubFairness
    /\ TabFairness
    /\ WF_splitVars(SplitTask)
    /\ ExecFairness

\* Every component's variables stay in their domains; in particular no count
\* goes below zero, no channel over its capacity, and no list names what is not
\* there.
PartTypeOK ==
    /\ part \in Parts
    /\ TypeOK
    /\ SplitTypeOK
    /\ ExecTypeOK

\* Values of the constants for TLC.  An execution without a timeout behaves as
\* one whose timeout never comes.
MCTimeouts == {-1, 1}
=============================================================================
