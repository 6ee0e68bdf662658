CONSTANTS
  Texts <- MCTexts
  Lookaheads <- MCLookaheads
  LocationBits = 2
SPECIFICATION FairSpec
INVARIANTS
  TypeOK
  SpansAreExact
  LiteralsDenoteNumbers
  ReportShowsTheLexeme
PROPERTIES
  
  EveryTextIsRead
CHECK_DEADLOCK FALSE
