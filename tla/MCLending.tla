------------------------------ MODULE MCLending ------------------------------
(* Small instances of Lending.  The sets are sets of model values, so they  *)
(* may be permuted in the runs that check safety only.                      *)
EXTENDS Lending, TLC

Symmetry == Permutations(Clerk) \cup Permutations(Card) \cup Permutations(ISBN)
=============================================================================
