SPECIFICATION Spec
CONSTANTS
    Colors = {1, 2}
    Tables <- MCTables
INVARIANTS
    GroupsRight
    DeclareAgrees
CHECK_DEADLOCK FALSE
