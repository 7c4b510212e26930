SPECIFICATION FairSpec
CONSTANTS
  t1 = t1
  t2 = t2
  n1 = n1
  n2 = n2
  NoNode = NoNode
  Tasks = {t1}
  SplitTasks = {}
  MaxChunks = 0
  Nodes = {n1}
  RetryMax <- MCRetryMax
  Priority <- MCPriority
  TargetNode <- MCTarget
  Fits <- MCFits
  SplitCounts <- MCSplitCounts
  SplitMayFail = FALSE
  ForeignKeys = FALSE
  MaxManual = 2
  Faults = {"agent", "connection"}
  Requests = {"cancel", "retry"}
PROPERTIES ImplementsLifecycle DeadNodeExcluded
