SPECIFICATION Spec
CONSTANTS
    p1 = p1
    p2 = p2
    NoPayload = NoPayload
    Magic = 1
    MagicSpan = 4
    GenerationSpan = 4
    SlotSpan = 4
    maxSlot = 3
    Payload <- MCPayload
    Foreign <- MCForeign
SYMMETRY Symmetry
INVARIANTS
    ClosedStaysClosed
    FreeListSound
    NoSlotLost
PROPERTY
    ValuesAreFresh
CHECK_DEADLOCK FALSE
