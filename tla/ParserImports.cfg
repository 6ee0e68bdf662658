CONSTANTS
    Vocabularies <- ImportVocabularies
    NodeCapacity = 7
    BuiltinFunctions <- VectorFunctions
SPECIFICATION FairSpec
PROPERTY Terminates
CHECK_DEADLOCK FALSE
