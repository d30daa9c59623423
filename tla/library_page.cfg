SPECIFICATION Spec
CONSTANTS
    mine = mine
    group = group
    Libs = {mine, group}
    First = mine
    Items <- MCItems
    Home <- MCHome
    MaxForeign = 1
    MaxMoves = 3
INVARIANTS
    TypeOK
    RowsOfTheView
    ChildrenOfTheOpenItem
    QuietIsCurrent
PROPERTIES
    UndoRestores
    PageSettles
CHECK_DEADLOCK FALSE
