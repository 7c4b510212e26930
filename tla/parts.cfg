SPECIFICATION Spec
CONSTANTS
    InitRequests = {r1, r2}
    DestroyRequests = {d1}
    Workers = {w1}
    Users = {admin, u1}
    Admin = admin
    MaxClusters = 3
    MaxCreates = 2
    QTasks <- MCQueued
    QItems <- MCItems
    QTask <- MCTask
    QPriority <- MCPriority
    QCreated <- MCCreated
    Inventory <- MCInventory
    PlaceRequests <- MCRequests
    Reports <- MCReports
    MaxRunning = 5
    Scale = 800
INVARIANTS ClustersBounded AdminOnceAnswered PeekIsBest QueueKeepsTasks SameChoice SpreadsTasks
CHECK_DEADLOCK FALSE
