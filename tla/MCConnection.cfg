SPECIFICATION Spec
CONSTANTS
  Short = Short
  Missing = Missing
  Value <- Values
  File <- Files
  Server <- Servers
  Patron = {"k1", "k2", "k3"}
  Book = {"b1", "b2"}
  PatronsOf <- Patrons
  BooksOf <- Books
  MaxLoans = 1
INVARIANTS
  TypeOK
  AllOrDefault
  ConnectedAsWritten
  LoansFollowTheFile
