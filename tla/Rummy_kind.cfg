SPECIFICATION Spec
CONSTANTS
    Colors = {1, 2}
    Tables <- KindTables
INVARIANT
    KindIsOfOnePoint
CHECK_DEADLOCK FALSE
