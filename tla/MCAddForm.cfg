SPECIFICATION FormSpec
CONSTANTS
    p1 = p1
    p2 = p2
    p3 = p3
    a = a
    b = b
    Posts = {p1, p2, p3}
    Messages = {a, b}
    Empty = Empty
    PostText <- Says
    Assignees = {u1, u2}
    Todos = {t1, t2}
    None = None
INVARIANTS
    AssigneeIsOfThisForm
    FormFitsPost
    ModalIsForItsOpener
PROPERTIES
    DraftIsKept
