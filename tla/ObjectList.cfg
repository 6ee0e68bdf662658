CONSTANT MaxObjects = 5
SPECIFICATION Spec
INVARIANTS TypeOK ListsPartition
PROPERTIES HandedOutOnce ImplementsSequence
