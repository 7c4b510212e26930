----------------------------- MODULE Placement -----------------------------
(***************************************************************************)
(* The choice of a node and the live metrics it reads (scheduler.go,       *)
(* scoring.go, placement.go, the liveMetrics map of store.go).  A cycle    *)
(* lists the online workers with their metrics once and places every task  *)
(* from that list; after each it writes the listed metrics back with one   *)
(* task more, over whatever a node has reported since.                     *)
(*                                                                         *)
(* Usage is in percent and load in hundredths, as integers; scores are     *)
(* integers, Scale times those of the code.  Scale is a multiple of every  *)
(* total that is divided by, so that the divisions are exact whatever the  *)
(* hardware; what is left of cores and memory is exact in the code's       *)
(* floating point too for usages that are multiples of 25.  A report may   *)
(* carry any numbers; those here are usages of 0 to 100 percent.           *)
(***************************************************************************)
EXTENDS Integers, Sequences, SequencesExt, FiniteSetsExt

CONSTANTS Inventory,      \* the rows of nodes: id, cores, memory, gpus
          PlaceRequests,  \* what is read of tasks: cpu, memory, gpus, target
          Reports,        \* metrics that may be reported: cpu, memory, load,
                          \* running
          MaxRunning,     \* bound on the count of running tasks
          Scale           \* what the score 1.0 is here

Unpinned == ""
Usages == {0, 25, 50, 75, 100}

ASSUME PlacementAssumptions ==
    /\ IsFiniteSet(DOMAIN Inventory)
    /\ IsInjective([i \in DOMAIN Inventory |-> Inventory[i].id])
    /\ \A i \in DOMAIN Inventory :
          /\ {Inventory[i].cores, Inventory[i].memory, Inventory[i].gpus}
                \subseteq Nat
          /\ \A total \in {Inventory[i].cores, Inventory[i].memory} \ {0} :
                Scale % (100 * total) = 0
    /\ \A q \in PlaceRequests : {q.cpu, q.memory, q.gpus} \subseteq Nat
    /\ Reports \subseteq [cpu : Usages, memory : Usages, load : Nat,
                         running : 0..MaxRunning]
    /\ MaxRunning \in Nat
    /\ Scale \in Nat \ {0} /\ Scale % 2 = 0

PlaceNode == DOMAIN Inventory

VARIABLES metrics,  \* Store.liveMetrics, by position in Inventory
          listed,   \* the list of the cycle: nodes with the metrics it read
          placing   \* a cycle is under way
placeVars == <<metrics, listed, placing>>

NoMetrics == [cpu |-> 0, memory |-> 0, load |-> 0, running |-> 0]

PlaceTypeOK ==
    /\ metrics \in [PlaceNode -> [cpu : Usages, memory : Usages, load : Nat,
                                  running : 0..MaxRunning]]
    /\ listed \in Seq([node : PlaceNode, cpu : Usages, memory : Usages,
                       load : Nat, running : 0..MaxRunning])
    /\ placing \in BOOLEAN

PlaceInit == /\ metrics = [n \in PlaceNode |-> NoMetrics]
             /\ listed = <<>>
             /\ placing = FALSE

-----------------------------------------------------------------------------
(* Constraints and scores of a listed node n for a request q. *)

id(n) == Inventory[n.node].id
cores(n) == Inventory[n.node].cores
memory(n) == Inventory[n.node].memory

\* In hundredths of cores, and of bytes.
availableCores(n) == cores(n) * (100 - n.cpu)
availableMemory(n) == memory(n) * (100 - n.memory)

satisfiesConstraints(q, n) ==
    /\ availableCores(n) \div 100 >= q.cpu
    /\ q.memory > 0 => availableMemory(n) \div 100 >= q.memory
    /\ q.gpus > 0 => Inventory[n.node].gpus >= q.gpus

\* What is left of an amount after the task, as a share of the total.
Share(available, required, total) ==
    Max({0, (Scale * (available - 100 * required)) \div (100 * total)})

scoreCPU(q, n) ==
    IF cores(n) = 0 THEN 0 ELSE Share(availableCores(n), q.cpu, cores(n))

scoreMemory(q, n) ==
    IF memory(n) = 0 THEN Scale \div 2
    ELSE Share(availableMemory(n), q.memory, memory(n))

scoreLoad(n) ==
    IF cores(n) = 0 THEN Scale \div 2
    ELSE Scale - Min({(Scale * n.load) \div (100 * cores(n)), Scale})

\* Mutant: the penalty keeps the half it should take away at most.
taskPenaltyMutant(n) == 10 - Max({n.running, 5})

\* In tenths.
taskPenalty(n) == 10 - Min({n.running, 5})

ScoreNode(q, n) ==
    taskPenalty(n) * (35 * scoreCPU(q, n) + 30 * scoreMemory(q, n)
                        + 25 * scoreLoad(n) + 10 * (Scale \div 2))

-----------------------------------------------------------------------------
(* The two loops that choose: <<>> is nil, <<n>> the node n. *)

Better(q, best, n) ==
    IF best = <<>> \/ ScoreNode(q, n) > ScoreNode(q, best[1]) THEN <<n>>
                                                              ELSE best

\* A turn of the loop of findBestNode, which returns at the pinned node.
Considered(q, best, n) ==
    IF ~satisfiesConstraints(q, n) THEN best
    ELSE IF q.target = Unpinned THEN Better(q, best, n)
    ELSE IF best = <<>> /\ id(n) = q.target THEN <<n>> ELSE best

findBestNode(q, ns) ==
    LET best[k \in 0..Len(ns)] ==
            IF k = 0 THEN <<>> ELSE Considered(q, best[k - 1], ns[k])
    IN  best[Len(ns)]

\* The three phases of PlaceTask: filter, take the pinned node, or score.
Filtered(q, kept, n) ==
    IF satisfiesConstraints(q, n) THEN Append(kept, n) ELSE kept

candidates(q, ns) ==
    LET kept[k \in 0..Len(ns)] ==
            IF k = 0 THEN <<>> ELSE Filtered(q, kept[k - 1], ns[k])
    IN  kept[Len(ns)]

Matched(q, found, n) ==
    IF found = <<>> /\ id(n) = q.target THEN <<n>> ELSE found

pinnedNode(q, ns) ==
    LET found[k \in 0..Len(ns)] ==
            IF k = 0 THEN <<>> ELSE Matched(q, found[k - 1], ns[k])
    IN  found[Len(ns)]

bestScored(q, ns) ==
    LET best[k \in 0..Len(ns)] ==
            IF k = 0 THEN <<>> ELSE Better(q, best[k - 1], ns[k])
    IN  best[Len(ns)]

\* Mutant: without the filter the pinned node is taken whatever it has left.
PlaceTaskMutant(q, ns) ==
    IF q.target # Unpinned THEN pinnedNode(q, ns)
                           ELSE bestScored(q, candidates(q, ns))

PlaceTask(q, ns) ==
    IF q.target # Unpinned THEN pinnedNode(q, candidates(q, ns))
                           ELSE bestScored(q, candidates(q, ns))

-----------------------------------------------------------------------------

\* HandleUpdateNodeStatus, of a request with metrics.
ReportMetrics(n, m) ==
    /\ metrics' = [metrics EXCEPT ![n] = m]
    /\ UNCHANGED <<listed, placing>>

\* GetOnlineWorkerNodes, when the nodes of S are online.  The query asks for no
\* order, so the rows come in any.
ListOnline(S) ==
    /\ ~placing
    /\ S # {}
    /\ placing' = TRUE
    /\ \E row \in [1..Cardinality(S) -> S] :
          /\ IsInjective(row)
          /\ listed' = [i \in DOMAIN row |->
                           LET m == metrics[row[i]]
                           IN  [node |-> row[i], cpu |-> m.cpu,
                                memory |-> m.memory, load |-> m.load,
                                running |-> m.running]]
    /\ UNCHANGED metrics

\* A task of the cycle is placed; without a node it stays queued.
PlaceOne(q) ==
    /\ placing
    /\ LET best == findBestNode(q, listed)
       IN  IF best = <<>> THEN UNCHANGED metrics
           ELSE LET n == best[1] IN
                /\ n.running < MaxRunning
                /\ metrics' = [metrics EXCEPT ![n.node] =
                                  [cpu |-> n.cpu, memory |-> n.memory,
                                   load |-> n.load, running |-> n.running + 1]]
    /\ UNCHANGED <<listed, placing>>

EndCycle ==
    /\ placing
    /\ placing' = FALSE
    /\ listed' = <<>>
    /\ UNCHANGED metrics

PlaceNext ==
    \/ \E n \in PlaceNode, m \in Reports : ReportMetrics(n, m)
    \/ \E S \in SUBSET PlaceNode : ListOnline(S)
    \/ \E q \in PlaceRequests : PlaceOne(q)
    \/ EndCycle

PlaceSpec == PlaceInit /\ [][PlaceNext]_placeVars

-----------------------------------------------------------------------------
(* Properties. *)

\* The candidates among the listed nodes.
Suitable(q) == {i \in DOMAIN listed : /\ satisfiesConstraints(q, listed[i])
                                      /\ q.target \in {id(listed[i]), Unpinned}}

\* PlaceTask, the pipeline nothing calls, and the loop the scheduler uses take
\* the same node: a suitable one, and none only when none is suitable.
SameChoice ==
    \A q \in PlaceRequests :
        LET best == findBestNode(q, listed)
        IN  /\ best = PlaceTask(q, listed)
            /\ Range(best) \subseteq {listed[i] : i \in Suitable(q)}
            /\ best = <<>> <=> Suitable(q) = {}

\* "Spread scheduling": a node is taken only when no suitable one with as many
\* cores, as much memory, usage and load is counted to run fewer tasks, up to
\* the five beyond which the penalty no longer grows.
SpreadsTasks ==
    \A q \in PlaceRequests : \A i \in Suitable(q) :
        LET best == findBestNode(q, listed)[1]
            n == listed[i]
        IN  (/\ q.target = Unpinned
             /\ cores(n) = cores(best) /\ memory(n) = memory(best)
             /\ \A f \in {"cpu", "memory", "load"} : n[f] = best[f])
               => Min({best.running, 5}) <= Min({n.running, 5})
=============================================================================
