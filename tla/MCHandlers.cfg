SPECIFICATION Spec
CONSTANTS
    Users = {u1, u2, u3}
    Requests = {r1, r2}
    Texts = {t1, t2}
    Threads = {p1}
    u1 = u1
    u2 = u2
    u3 = u3
    r1 = r1
    r2 = r2
    t1 = t1
    t2 = t2
    p1 = p1
    NoUser = NoUser
    NoThread = NoThread
    MaxIds = 4
    MaxCalls = 3
    MaxDeaths = 1
    MaxFaults = 1
SYMMETRY Symmetry
CHECK_DEADLOCK FALSE
INVARIANTS
    RequestsCanBeAnswered
    ChangesAreExplained
PROPERTIES
    NobodyIsForgotten
