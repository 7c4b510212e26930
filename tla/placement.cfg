SPECIFICATION Spec
CONSTANTS
  t1 = t1
  t2 = t2
  n1 = n1
  n2 = n2
  NoNode = NoNode
  Tasks = {t1, t2}
  SplitTasks = {}
  MaxChunks = 0
  Nodes = {n1, n2}
  RetryMax <- MCRetryMax
  Priority <- MCPriorities
  TargetNode <- MCPinned
  Fits <- MCFitsApart
  SplitCounts <- MCSplitCounts
  SplitMayFail = FALSE
  ForeignKeys = TRUE
  MaxManual = 0
  Faults = {}
  Requests = {"delete", "status"}
INVARIANTS PlacementRespected
