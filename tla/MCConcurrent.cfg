SPECIFICATION MixedSpec
CONSTANTS
    Users = {u1, u2, u3}
    Requests = {r1, r2}
    Texts = {t1}
    NoUser = NoUser
    Gone = Gone
    MaxIssues = 4
    MaxFaults = 0
    MaxCrashes = 0
    Troubled = {}
INVARIANTS RecordsMatchLists Linked ListingMissesNothing OwnersOnly
SYMMETRY Symmetry
