CONSTANTS
    Vocabularies <- FinishedVocabularies
    NodeCapacity = 7
    BuiltinFunctions <- VectorFunctions
SPECIFICATION FairSpec
INVARIANTS TypeOK TreeComplete TreeSpellsSource NoFailedAssertion NodesHaveOneOwner
PROPERTY Terminates
CHECK_DEADLOCK FALSE
