--------------------------------- MODULE Fees ---------------------------------
(***************************************************************************)
(* Patron::calculation_library_fees: a patron is charged a dime for each   *)
(* day a loan is overdue, and the due date is moved to the day of the      *)
(* charge so that no day is charged twice.  Its only caller,               *)
(* Library::calculation_all_library_fees, is commented out.                *)
(*                                                                         *)
(* An account is a patron's fees, in dimes, and the due date of his loan.  *)
(***************************************************************************)
EXTENDS Chrono

Account(fees, due) == [fees |-> fees, due |-> due]

\* Mutant: the due date stays.
ChargeAgain(account, today) ==
  LET days == DateToDays(today) - DateToDays(account.due)
  IN  IF days > 0 THEN Account(account.fees + days, account.due) ELSE account

Charge(account, today) ==
  LET days == DateToDays(today) - DateToDays(account.due)
  IN  IF days > 0 THEN Account(account.fees + days, today) ELSE account

\* However often a patron is charged for a loan, and though the clock may be put
\* back between two charges, the dimes are those of one charge on the latest of
\* the days; from 1970 on they are the days overdue, give or take the one by
\* which Chrono misplaces the end of a leap year.
FeesAddUp ==
  \A n, m \in Spans :
    LET day(k) == DaysToDate(DayNumber(Ordinal(date) + k))
        latest == IF n > m THEN n ELSE m
        twice  == Charge(Charge(Account(0, date), day(n)), day(m))
        once   == Charge(Account(0, date), day(latest))
    IN  /\ twice.fees = once.fees
        /\ date.y >= 1970 /\ latest > 0 => twice.fees - latest \in -1..1
=============================================================================
