SPECIFICATION Spec
CONSTANTS
  t1 = t1
  t2 = t2
  n1 = n1
  n2 = n2
  NoNode = NoNode
  Tasks = {t1}
  SplitTasks = {t1}
  MaxChunks = 2
  Nodes = {n1}
  RetryMax <- MCRetryMax
  Priority <- MCPriority
  TargetNode <- MCTarget
  Fits <- MCFirstFits
  SplitCounts <- MCAnyCount
  SplitMayFail = TRUE
  ForeignKeys = FALSE
  MaxManual = 2
  Faults = {"controller"}
  Requests = {"retry"}
INVARIANTS StartedOncePerAttempt
