CONSTANTS
    Capacity = 3
    WordMax = 3
    Payload <- MCPayload
    Unwritten = Unwritten
SPECIFICATION Spec
PROPERTY AddReturnsFreeSlot
CHECK_DEADLOCK FALSE
