--------------------------------- MODULE Menu ---------------------------------
(***************************************************************************)
(* class Menu and the loop of main.cpp: where the clerk is in the program. *)
(*                                                                         *)
(* The whole position is one number, nr_m: the digits of the options       *)
(* chosen since the main menu.  spis_menu dispatches on it; a menu waits   *)
(* in wybor_opcji for a key, a leaf runs a function of Library or nothing, *)
(* and the tail of spis_menu takes a leaf's digit off again.               *)
(*                                                                         *)
(* Abstractions: what a menu prints is left out, what a function of        *)
(* Library does is in the other modules: here it returns, asks whether to  *)
(* exit (6), or ends the program with an exception nobody catches.         *)
(***************************************************************************)
EXTENDS Naturals

CONSTANT Key   \* the key codes _getch may return

ASSUME MenuConstants == Key \subseteq Nat

VARIABLES
  nr_m,   \* Menu::nr_m
  nr,     \* the argument of spis_menu
  at,     \* where the program is
  wrong   \* the last key wybor_opcji has refused, 0 when none

vars == <<nr_m, nr, at, wrong>>

Esc == 27
KeyM == 109

Places == {"dispatch", "choice", "leaf", "pause", "ended"}

\* The numbers spis_menu knows: the menus, and the functions under them.
Menus == {0, 1, 11, 2, 21, 3, 34, 4, 5}

Leaves ==
  {111, 112, 113, 114, 115, 12, 13, 14, 211, 212, 22, 23, 24,
   31, 32, 33, 341, 342, 343, 35, 41, 42, 43, 51, 52, 53, 6}

\* ilosc_opcji, as each menu passes it to wybor_opcji.
Options(n) ==
  CASE n = 0          -> 6
    [] n \in {1, 2}   -> 4
    [] n \in {3, 11}  -> 5
    [] n = 21         -> 2
    [] n \in {34, 4, 5} -> 3

\* Every number the clerk can get to has a case in spis_menu: the option counts
\* of the menus and the cases of the switch agree, and its default is not met.
TypeOK ==
  /\ nr_m \in Menus \cup Leaves
  /\ nr \in Menus \cup Leaves
  /\ at \in Places
  /\ wrong \in {0} \cup Key

-----------------------------------------------------------------------------
\* Menu::Menu.
Init ==
  /\ nr_m = 0
  /\ nr = 0
  /\ at = "dispatch"
  /\ wrong = 0

\* spis_menu(nr_m), up to the function of Library or the first _getch.
SpisMenu ==
  /\ at = "dispatch"
  /\ nr' = nr_m
  /\ wrong' = 0
  /\ IF nr_m \in Menus THEN at' = "choice" /\ UNCHANGED nr_m
     ELSE IF nr_m \in Leaves THEN at' = "leaf" /\ UNCHANGED nr_m
     ELSE at' = "pause" /\ nr_m' = nr_m \div 100     \* "cofa menu o 2 poziomy"

\* Mutant: a function that is done takes two digits off.
SpisMenuEndTwo(n) ==
  IF n = nr
  THEN nr_m' = n \div 100 /\ at' = "pause"
  ELSE nr_m' = n /\ at' = "dispatch"

\* The tail of spis_menu, when nr_m has become n: a number that has not moved
\* is a function that is done.
SpisMenuEnd(n) ==
  IF n = nr
  THEN nr_m' = n \div 10 /\ at' = "pause"
  ELSE nr_m' = n /\ at' = "dispatch"

\* Mutant: one option too many.
IsOptionOneMore(k) ==
  \/ 49 <= k /\ k <= 49 + Options(nr)
  \/ k \in {Esc, KeyM} /\ nr # 0

\* The condition wybor_opcji puts on a key: '1' is 49.
IsOption(k) ==
  \/ 49 <= k /\ k < 49 + Options(nr)
  \/ k \in {Esc, KeyM} /\ nr # 0

\* Mutant: Esc leaves the number as it is.
ChosenHere(k) ==
  CASE k = Esc  -> (nr * 10) \div 10
    [] k = KeyM -> 0
    [] OTHER    -> nr * 10 + (k - 48)

\* The nr_m of an accepted key; nr * 10 / 100 is the menu before.
Chosen(k) ==
  CASE k = Esc  -> (nr * 10) \div 100
    [] k = KeyM -> 0
    [] OTHER    -> nr * 10 + (k - 48)

\* wybor_opcji.
WyborOpcji(k) ==
  /\ at = "choice"
  /\ \/ /\ IsOption(k)
        /\ SpisMenuEnd(Chosen(k))
        /\ wrong' = 0
     \/ /\ ~IsOption(k)
        /\ wrong' = k
        /\ UNCHANGED <<nr_m, at>>
  /\ UNCHANGED nr

\* A function returns, wyjscie after "n".
LeafReturns ==
  /\ at = "leaf"
  /\ SpisMenuEnd(nr_m)
  /\ UNCHANGED <<nr, wrong>>

\* wyjscie after "y"; add_book, add_patron and add_transaction when a result
\* set is lost (mysql_num_rows of NULL) or an exception leaves main.
LeafEndsProgram ==
  /\ at = "leaf"
  /\ nr \in {6, 13, 23, 31}
  /\ at' = "ended"
  /\ UNCHANGED <<nr_m, nr, wrong>>

\* Global::pause; any key.
Pause ==
  /\ at = "pause"
  /\ at' = "dispatch"
  /\ UNCHANGED <<nr_m, nr, wrong>>

\* External: the clerk starts the program again.
Start ==
  /\ at = "ended"
  /\ nr_m' = 0
  /\ nr' = 0
  /\ at' = "dispatch"
  /\ wrong' = 0

Next ==
  \/ SpisMenu
  \/ \E k \in Key : WyborOpcji(k)
  \/ LeafReturns
  \/ LeafEndsProgram
  \/ Pause
  \/ Start

Spec == Init /\ [][Next]_vars

-----------------------------------------------------------------------------
\* The program stops for a key exactly after a function is done, and then it
\* stands at the menu that function was chosen in: the tail of spis_menu, which
\* only compares two numbers, never takes a menu for a function.
PauseIsAfterFunction ==
  at = "pause" => nr \in Leaves /\ nr_m = nr \div 10

\* While a menu or a function has the floor, nr_m is the number it was called
\* with: the inductive part.
NumberIsCurrent ==
  /\ at = "choice" => nr_m = nr /\ nr \in Menus
  /\ at = "leaf" => nr_m = nr /\ nr \in Leaves

IInv == TypeOK /\ NumberIsCurrent /\ PauseIsAfterFunction

\* The digits of a number of at most three digits.
Digits(n) ==
  IF n = 0 THEN <<>>
  ELSE IF n < 10 THEN <<n>>
  ELSE IF n < 100 THEN <<n \div 10, n % 10>>
  ELSE <<n \div 100, (n \div 10) % 10, n % 10>>

Plan == INSTANCE MenuPlan WITH
  trail <- IF at = "ended" THEN <<>> ELSE Digits(nr_m),
  alive <- at # "ended"

\* The number is the trail through the menus of the plan: one option down, one
\* menu back, or home; a function always leads back to its own menu ("po jej
\* wykonaniu wroci do poprzedniego menu").
Implements == Plan!Spec
=============================================================================
