SPECIFICATION PartSpec
CONSTANTS
    Clients = {c1, c2}
    Publishers = {p1}
    Tabs = {b1}
    NotOpen = NotOpen
    NoClient = NoClient
    BroadcastCap = 1
    SendCap = 1
    MaxChanges = 2
    MaxBreaks = 1
    MaxFetches = 2
    DefaultSize = 3
    BufferSize = 2
    MaxLength = 5
    MaxStages = 3
    MaxOnline = 3
    Exec = {e1, e2}
    Timeouts <- MCTimeouts
INVARIANTS PartTypeOK NoGapWhileRegistered ClosedOnce PiecesMakeTheFile RunningCounts ReportTellsTruth
PROPERTIES PublishersProceed LostClientsLeave StatusCatchesUp CopyEnds EndedIsReported
CHECK_DEADLOCK FALSE
