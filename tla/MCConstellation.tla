-------------------------- MODULE MCConstellation --------------------------
(***************************************************************************)
(* Values for the constants of Constellation that a .cfg cannot spell.     *)
(***************************************************************************)
EXTENDS Constellation, TLC

CONSTANTS t1, t2, n1, n2

\* Only with constants that treat the nodes alike (MCFits, MCTarget).
NodeSymmetry == Permutations(Nodes)

MCRetryMax == [t \in Tasks |-> 1]

MCPriority == [t \in Tasks |-> 2]
MCPriorities == [t \in Tasks |-> IF t = t1 THEN 3 ELSE 0]

MCFits == [t \in Tasks |-> Nodes]
MCFirstFits == [t \in Tasks |-> {n1}]
MCFitsApart == [t \in Tasks |-> IF t = t1 THEN Nodes ELSE {n2}]

MCTarget == [t \in Tasks |-> NoNode]
MCPinned == [t \in Tasks |-> IF t = t1 THEN n1 ELSE NoNode]

MCSplitCounts == [t \in SplitTasks |-> {MaxChunks}]
MCAnyCount == [t \in SplitTasks |-> 0..MaxChunks]
=============================================================================
