CONSTANTS
    Vocabularies <- ExpressionVocabularies
    NodeCapacity = 7
    BuiltinFunctions <- VectorFunctions
SPECIFICATION Spec
INVARIANTS TreeWellFormed TreeSpellsSource OperatorsNest
PROPERTY NeverReparented
CHECK_DEADLOCK FALSE
