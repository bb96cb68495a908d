------------------------------- MODULE MenuPlan -------------------------------
(***************************************************************************)
(* The tree of menus as the plan above Menu::spis_menu draws it, and how   *)
(* one walks in it: a step down, a step back, all the way home, and the    *)
(* end of the program while one of its functions runs.                     *)
(***************************************************************************)
EXTENDS Naturals, SequencesExt

VARIABLES
  trail,   \* the numbers chosen from the main menu on
  alive    \* is the program running?

planVars == <<trail, alive>>

\* The menus of the plan with the number of their options.
Menus == {<<>>, <<1>>, <<2>>, <<3>>, <<4>>, <<5>>, <<1, 1>>, <<2, 1>>, <<3, 4>>}

Width(m) ==
  CASE m = <<>>                   -> 6
    [] m \in {<<1>>, <<2>>}       -> 4
    [] m \in {<<3>>, <<1, 1>>}    -> 5
    [] m \in {<<4>>, <<5>>}       -> 3
    [] m = <<2, 1>>               -> 2
    [] m = <<3, 4>>               -> 3

Init == trail = <<>> /\ alive = TRUE

Down == \E d \in 1..Width(trail) : trail' = Append(trail, d)

Back == trail # <<>> /\ trail' = Front(trail)

Home == trail \in Menus /\ trail' = <<>>

Walk == alive /\ UNCHANGED alive /\ (Back \/ Home \/ (trail \in Menus /\ Down))

\* Only a function of the program, never a menu, ends the program.
Die == alive /\ alive' = FALSE /\ trail \notin Menus /\ trail' = <<>>

Start == ~alive /\ alive' = TRUE /\ UNCHANGED trail

Spec == Init /\ [][Walk \/ Die \/ Start]_planVars
=============================================================================
