CONSTANTS
    Capacity = 4
    WordMax = 5
    Payload <- MCPayload
    Unwritten = Unwritten
SPECIFICATION Spec
INVARIANTS TypeOK FreeChain PayloadIntact
PROPERTIES AddReturnsFreeSlot ImplementsPool
CHECK_DEADLOCK FALSE
