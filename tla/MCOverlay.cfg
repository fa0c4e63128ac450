SPECIFICATION MCSpec
CHECK_DEADLOCK FALSE
CONSTANTS
    a = a
    b = b
    x = x
    NumLowers = 2
    MaxCalls = 3
    Name <- MCName
    Path <- MCPath
    Fresh <- MCFresh
    Tag <- MCTag
    LowerStacks <- MCLowerStacks
INVARIANTS
    ViewIsTree
    ListingMatchesLookup
    CreateShowsNothingBelow
    RenameUndone
PROPERTIES
    CallReturns
    ImplementsNamespace
