SPECIFICATION Spec
CONSTANTS
  t1 = t1
  t2 = t2
  n1 = n1
  n2 = n2
  NoNode = NoNode
  Tasks = {t1}
  SplitTasks = {t1}
  MaxChunks = 2
  Nodes = {n1, n2}
  RetryMax <- MCRetryMax
  Priority <- MCPriority
  TargetNode <- MCTarget
  Fits <- MCFits
  SplitCounts <- MCSplitCounts
  SplitMayFail = FALSE
  ForeignKeys = FALSE
  MaxManual = 1
  Faults = {"heartbeat"}
  Requests = {"cancel"}
INVARIANTS ParentWaitsForChunks NoLostCompletion
PROPERTIES ImplementsLifecycle
SYMMETRY NodeSymmetry
