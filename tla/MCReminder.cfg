SPECIFICATION Spec
CONSTANTS
    Tabs = {t1, t2}
    Requests = {r1, r2}
    t1 = t1
    t2 = t2
    r1 = r1
    r2 = r2
    Hour = 2
    Day = 5
    Start = 8
    End = 13
    MaxLoads = 2
    MaxClicks = 2
    MaxFaults = 1
    MaxPosts = 4
SYMMETRY Symmetry
CHECK_DEADLOCK FALSE
INVARIANTS
    RemindersApart
    RemindersPerDay
PROPERTY
    TabsAskHourly
