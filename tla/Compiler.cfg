CONSTANTS
    NodeCapacity = 15
    SymbolCapacity = 15
    Trees <- MCTrees
    ArchetypeNames <- MCNames
    Identifier <- MCIdentifier
    ArchetypeCapacity = 2
    Compilations = 2
SPECIFICATION FairSpec
INVARIANTS TypeOK NamesDistinct ReferencesAreLexical
PROPERTIES VerdictIsRight  CompilationReturns
CHECK_DEADLOCK FALSE
