SPECIFICATION WebSpec
CONSTANTS
    Users = {u1, u2, u3}
    Requests = {r1}
    Texts = {t1}
    NoUser = NoUser
    Gone = Gone
    MaxIssues = 4
    MaxFaults = 2
    MaxCrashes = 1
    Troubled = {"Edit", "Assign", "Bump"}
INVARIANTS NothingDangles OneReceiver
SYMMETRY Symmetry
