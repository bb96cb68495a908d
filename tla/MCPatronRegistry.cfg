SPECIFICATION FairSpec
CONSTANTS
  Clerk = {c1, c2}
  Lowest = 3
  Highest = 4
  MaxId = 5
  AutoIncVolatile = TRUE
INVARIANTS
  TypeOK
  AnnouncedIsRegistered
  StrayRowExplained
PROPERTIES
  CardsAreKept
  ApprovalEnds
