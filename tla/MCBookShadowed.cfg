SPECIFICATION Spec
CONSTANTS
  Clerk = {c1}
  ISBN <- OneNumber
  Title <- Titles
  Genre <- Names
  Typed <- Texts
  Within <- Occurs
  GenreTables <- Tables
  ISBNIsKey = TRUE
  MaxRows = 2
INVARIANTS
  ListedGenreIsTaken
