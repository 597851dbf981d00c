SPECIFICATION Spec
CONSTANTS
    Users = {u1, u2, u3}
    Requests = {r1}
    Texts = {t1}
    Threads = {p1}
    u1 = u1
    u2 = u2
    u3 = u3
    r1 = r1
    t1 = t1
    p1 = p1
    NoUser = NoUser
    NoThread = NoThread
    MaxIds = 4
    MaxCalls = 3
    MaxDeaths = 0
    MaxFaults = 0
SYMMETRY Symmetry
CHECK_DEADLOCK FALSE
INVARIANT
    ThreadIsKept
