CONSTANTS
  IdentMax = 2
  ChunkSize = 44
  WordMax = 63
  Hash <- MCHash
  PropertySets <- MCPropertySets
  ArchetypeInfos <- MCArchetypeInfos
  BlockLimit = 12
SPECIFICATION Spec
INVARIANTS
  TypeOK
  PublishedMachineIsWhole
  LookupsAreExact
  ChunksFitTheirEntries
  ChunksAreTakenOnce
PROPERTIES
  ImplementsArchetypeStore
CHECK_DEADLOCK FALSE
