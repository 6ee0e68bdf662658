CONSTANTS
    Capacity = 4
    Lists = {a, b}
    NoList = NoList
SPECIFICATION Spec
INVARIANTS TypeOK LinksAgree
PROPERTY ImplementsSequences
