--------------------------- MODULE MCPatronRegistry ---------------------------
(* A small instance of PatronRegistry: few numbers are cards, and the column *)
(* has numbers below the lowest and above the highest card.                  *)
EXTENDS PatronRegistry
=============================================================================
