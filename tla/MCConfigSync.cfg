SPECIFICATION ConfigSpec
CONSTANTS
    Hooks = {h1, h2}
    Clients = {c1}
    h1 = h1
    h2 = h2
    c1 = c1
    MaxChanges = 4
    MaxDrops = 3
SYMMETRY Symmetry
CHECK_DEADLOCK FALSE
INVARIANTS
    ShownUnlessRaced
