SPECIFICATION FairSpec
CONSTANTS
  Clerk = {c1, c2}
  Card = {k1}
  ISBN = {b1}
  MaxLoans = 4
  FeesMove = TRUE
  HandRepairs = TRUE
INVARIANTS
  OneLoanPerClerk
  MissingMarkExplained
  LoansBounded
PROPERTIES
  ApprovalEnds
