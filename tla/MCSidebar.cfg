SPECIFICATION SidebarSpec
CONSTANTS
    Todos = {t1, t2, t3}
    Heading = Heading
    Nothing = Nothing
SYMMETRY Symmetry
INVARIANTS
    FoldedCanBeUnfolded
    ShowsWhatWasAskedFor
