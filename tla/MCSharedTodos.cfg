SPECIFICATION SeenSpec
CONSTANTS
    Users = {u1, u2, u3}
    Requests = {r1}
    Texts = {t1, t2}
    NoUser = NoUser
    Gone = Gone
    MaxIssues = 4
    MaxFaults = 1
    MaxCrashes = 0
    Troubled = {"Add", "Send", "Accept"}
INVARIANTS TypeOK RecordsMatchLists CopiesAgree EndedTodoIsReturned
PROPERTY ImplementsSharedTodos
SYMMETRY Symmetry
