SPECIFICATION Spec
CONSTANTS
  Clerk = {c1, c2}
  Card = {k1, k2}
  ISBN = {b1, b2}
  MaxLoans = 2
  FeesMove = FALSE
  HandRepairs = FALSE
PROPERTIES
  Implements
