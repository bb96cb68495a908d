-------------------------------- MODULE MCMenu --------------------------------
(* Menu with the keys that matter: the digits, Esc, m and a key of no use.   *)
EXTENDS Menu

Keys == {Esc, KeyM, 120} \cup 48..57
=============================================================================
