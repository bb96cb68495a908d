------------------------------ MODULE MCLibrary ------------------------------
(* The smallest instance in which the functions meet: two clerks, one book,  *)
(* and one card number with numbers below and above it.                      *)
EXTENDS Library, TLC

Numbers == {<<0, 0, 8, 3, 0, 4, 0, 1, 1, 2, 2, 3, 0>>}
Titles  == {<<136>>}
Tables  == {<<"fiction">>}
Occurs  == {<<"fiction", "fiction">>}

Symmetry == Permutations(Clerk)
=============================================================================
