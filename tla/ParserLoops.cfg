CONSTANTS
    Vocabularies <- LoopVocabularies
    NodeCapacity = 7
    BuiltinFunctions <- VectorFunctions
SPECIFICATION Spec
INVARIANT NoFailedAssertion
CHECK_DEADLOCK FALSE
