SPECIFICATION SearchSpec
CONSTANTS
    Colors = {1, 2}
    Tables <- MCTables
    Deals <- MCDeals
    Draws <- MCDraws
    Compared = 10
INVARIANTS
    DeclarationStands
    DeclarationLeast
    PostKept
CHECK_DEADLOCK FALSE
