------------------------------- MODULE MCChrono -------------------------------
(* Chrono around the epoch and around 2000, with spans of both signs.        *)
EXTENDS Fees

EpochAndCentury == 1967..1973 \cup 1999..2001
LeapYears == 1970..1973
ThisYear == 2023..2024
BothWays == {-30, -1, 0, 1, 30, 366}
=============================================================================
