SPECIFICATION Spec
CONSTANTS
    Members <- StringMembers
    Symbols <- AllSymbols
    MaxMembers = 1
INVARIANT
    RefusedIsNotJSON
CHECK_DEADLOCK FALSE
