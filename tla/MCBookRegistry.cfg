SPECIFICATION Spec
CONSTANTS
  Clerk = {c1, c2}
  ISBN <- Numbers
  Title <- Titles
  Genre <- Names
  Typed <- Texts
  Within <- Occurs
  GenreTables <- Tables
  ISBNIsKey = FALSE
  MaxRows = 2
SYMMETRY Symmetry
INVARIANTS
  TypeOK
  OneRowPerClerk
  AddedIsRegistered
  ShownAsConfirmed
  UniqueMatchIsTaken
