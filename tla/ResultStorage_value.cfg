SPECIFICATION Spec
CONSTANTS
    v1 = v1
    v2 = v2
    unit = unit
    e1 = e1
    e2 = e2
    Empty = Empty
    Moved = Moved
    Results = {r1, r2}
    Values = {v1, v2}
    Errors <- MCErrors
INVARIANTS
    TypeOK
    ActiveSlotIsEngaged
    OnlyReplacementsUseTheOtherSlot
PROPERTIES
    ImplementsCheckedResult
