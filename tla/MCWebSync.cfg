SPECIFICATION FairSpec
CONSTANTS
    Users = {u1}
    Views = {"v", "w"}
    MostEvents = 1
    Broken = "broken"
    MaxChanges = 3
    MaxAsks = 1
    MaxDrops = 1
    MaxLosses = 2
CHECK_DEADLOCK FALSE
INVARIANTS
    StaleHasReason
    NewsIsComing
PROPERTIES
    EventuallyFresh
