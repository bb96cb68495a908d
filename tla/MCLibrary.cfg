SPECIFICATION Spec
CONSTANTS
  Clerk = {c1, c2}
  Lowest = 2
  Highest = 2
  MaxId = 2
  AutoIncVolatile = TRUE
  ISBN <- Numbers
  Title <- Titles
  Genre = {"fiction"}
  Typed = {"fiction"}
  Within <- Occurs
  GenreTables <- Tables
  ISBNIsKey = TRUE
  MaxRows = 1
  MaxLoans = 2
  FeesMove = TRUE
  HandRepairs = TRUE
SYMMETRY Symmetry
INVARIANTS
  LoansAreBacked
PROPERTIES
  ImplementsLending
