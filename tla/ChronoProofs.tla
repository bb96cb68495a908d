----------------------------- MODULE ChronoProofs -----------------------------
(* What holds of Chrono and Fees for all years, spans and seconds.           *)
(*                                                                           *)
(* The loops of the code are recursive functions; what they return is proved *)
(* by induction (module Induction), against a calendar without loops.        *)
EXTENDS Fees, Induction, TLAPS

-----------------------------------------------------------------------------
(* The calendar: where years and months start.                                *)

\* Days before 1 January of y, and before the first of m in y.
YearStart(y) == 365 * (y - 1) + (y - 1) \div 4 - (y - 1) \div 100 + (y - 1) \div 400

DaysToEpoch == 719162

MonthStart(m, y) ==
  <<0, 31, 59, 90, 120, 151, 181, 212, 243, 273, 304, 334, 365>>[m]
    + (IF m > 2 /\ LeapYear(y) THEN 1 ELSE 0)

LEMMA YearStartType == \A y \in Int : YearStart(y) \in Int
  BY DEF YearStart

(* A year is as long as the years' starts say (operator \div and leapyear,    *)
(* Chrono.cpp:99-106).                                                        *)
LEMMA YearStep ==
  ASSUME NEW y \in Int
  PROVE  /\ DaysInYear(y) \in {365, 366}
         /\ YearStart(y + 1) = YearStart(y) + DaysInYear(y)
<1>1. y \div 4 = (y - 1) \div 4 + (IF y % 4 = 0 THEN 1 ELSE 0)
  OBVIOUS
<1>2. y \div 100 = (y - 1) \div 100 + (IF y % 100 = 0 THEN 1 ELSE 0)
  OBVIOUS
<1>3. y \div 400 = (y - 1) \div 400 + (IF y % 400 = 0 THEN 1 ELSE 0)
  OBVIOUS
<1>4. (y % 400 = 0 => y % 100 = 0) /\ (y % 100 = 0 => y % 4 = 0)
  OBVIOUS
<1>5. (y + 1) - 1 = y
  OBVIOUS
<1> QED BY <1>1, <1>2, <1>3, <1>4, <1>5 DEF YearStart, DaysInYear, LeapYear

LEMMA MonthLength == \A m, y \in Int : DaysInMonth(m, y) \in 28..31
  BY DEF DaysInMonth

(* 1970 starts after 719162 days, and is no leap year.                        *)
LEMMA Epoch == /\ DaysToEpoch \in Int
               /\ YearStart(1970) = DaysToEpoch
               /\ YearStart(1971) = DaysToEpoch + 365
  BY DEF YearStart, DaysToEpoch

(* So is a month (is_date, Chrono.cpp:85-93).                                 *)
LEMMA MonthStep ==
  ASSUME NEW y \in Int, NEW m \in 1..12
  PROVE  /\ DaysInMonth(m, y) \in Int /\ 28 <= DaysInMonth(m, y) /\ DaysInMonth(m, y) <= 31
         /\ MonthStart(m, y) \in Int /\ 0 <= MonthStart(m, y) /\ MonthStart(m, y) <= 335
         /\ MonthStart(m + 1, y) = MonthStart(m, y) + DaysInMonth(m, y)
<1>1. LeapYear(y) \in BOOLEAN
  BY DEF LeapYear
<1>2. m = 1 \/ m = 2 \/ m = 3 \/ m = 4 \/ m = 5 \/ m = 6 \/ m = 7 \/ m = 8 \/ m = 9 \/ m = 10
        \/ m = 11 \/ m = 12
  OBVIOUS
<1> QED BY <1>1, <1>2 DEF MonthStart, DaysInMonth

LEMMA MonthEnds ==
  ASSUME NEW y \in Int
  PROVE  MonthStart(1, y) = 0 /\ MonthStart(13, y) = DaysInYear(y)
  BY DEF MonthStart, DaysInYear

(* The ordinal of a date is the start of its year, that of its month, and its *)
(* day.                                                                       *)
LEMMA OrdinalOf ==
  ASSUME NEW a, a.y \in Int, a.m \in 1..12
  PROVE  Ordinal(a) = YearStart(a.y) + MonthStart(a.m, a.y) + a.d - DaysToEpoch
<1>1. <<0, 31, 59, 90, 120, 151, 181, 212, 243, 273, 304, 334>>[a.m]
        = <<0, 31, 59, 90, 120, 151, 181, 212, 243, 273, 304, 334, 365>>[a.m]
  OBVIOUS
<1> QED BY <1>1 DEF Ordinal, YearStart, MonthStart, DaysToEpoch

-----------------------------------------------------------------------------
(* One round of each loop.                                                    *)

LEMMA LoopPairs ==
  /\ \A i, n \in Int : <<i, n>> \in Loop /\ <<i, n>>[1] = i /\ <<i, n>>[2] = n
  /\ \A p \in Loop : p[1] \in Int /\ p[2] \in Int
  /\ \A p, q \in Loop : p[1] = q[1] /\ p[2] = q[2] => p = q
  BY DEF Loop

(* AddMonths(y) is the function its definition asks for: there is one, since  *)
(* the month decreases.  The same for the seven other loops.                  *)
LEMMA AddMonthsLoop ==
  ASSUME NEW y \in Int
  PROVE  /\ \A p \in Loop : p[1] < 1 => AddMonths(y)[p] = p
         /\ \A p, q \in Loop :
              /\ p[1] >= 1
              /\ q[1] = p[1] - 1
              /\ q[2] = p[2] + DaysInMonth(p[1], y)
              => AddMonths(y)[p] = AddMonths(y)[q]
<1> DEFINE B == {p \in Loop : p[1] >= 1}
           next == [p \in Loop |-> <<p[1] - 1, p[2] + DaysInMonth(p[1], y)>>]
           measure == [p \in Loop |-> IF p[1] >= 1 THEN p[1] ELSE 0]
           Body(f) == [p \in Loop |->
                        IF p[1] >= 1
                        THEN f[<<p[1] - 1, p[2] + DaysInMonth(p[1], y)>>]
                        ELSE p]
<1>1. \A p \in Loop : p[1] \in Int /\ p[2] \in Int /\ DaysInMonth(p[1], y) \in 28..31
  BY MonthLength DEF Loop
<1>2. next \in [Loop -> Loop] /\ measure \in [Loop -> Nat]
  BY <1>1 DEF Loop
<1>3. \A p \in Loop : p \in B => measure[next[p]] < measure[p]
  BY <1>1, <1>2 DEF Loop
<1>4. \A f : f = Body(f) <=> Runs(f, Loop, B, next)
  BY DEF Runs
<1>5. \A p \in Loop : p \in B <=> p[1] >= 1
  OBVIOUS
<1>6. \A p, q \in Loop : q[1] = p[1] - 1 /\ q[2] = p[2] + DaysInMonth(p[1], y) => q = next[p]
  BY DEF Loop
<1> HIDE DEF B, next, measure
<1>7. \E f : Runs(f, Loop, B, next)
  BY <1>2, <1>3, LoopIsDefined
<1>8. AddMonths(y) = CHOOSE f : f = Body(f)
  BY DEF AddMonths
<1> HIDE DEF Body
<1>9. Runs(AddMonths(y), Loop, B, next)
  BY <1>4, <1>7, <1>8
<1>10. \A p \in Loop : AddMonths(y)[p] = IF p \in B THEN AddMonths(y)[next[p]] ELSE p
  BY <1>9, LoopStep
<1> QED BY <1>1, <1>5, <1>6, <1>10

LEMMA AddYearsLoop ==
  /\ \A p \in Loop : p[1] <= 1970 => AddYears[p] = p
  /\ \A p, q \in Loop :
       /\ p[1] > 1970
       /\ q[1] = p[1] - 1
       /\ q[2] = p[2] + DaysInYear(p[1])
       => AddYears[p] = AddYears[q]
<1> DEFINE B == {p \in Loop : p[1] > 1970}
           next == [p \in Loop |-> <<p[1] - 1, p[2] + DaysInYear(p[1])>>]
           measure == [p \in Loop |-> IF p[1] > 1970 THEN p[1] - 1970 ELSE 0]
           Body(f) == [p \in Loop |->
                        IF p[1] > 1970
                        THEN f[<<p[1] - 1, p[2] + DaysInYear(p[1])>>]
                        ELSE p]
<1>1. \A p \in Loop : p[1] \in Int /\ p[2] \in Int /\ DaysInYear(p[1]) \in {365, 366}
  BY YearStep DEF Loop
<1>2. next \in [Loop -> Loop] /\ measure \in [Loop -> Nat]
  BY <1>1 DEF Loop
<1>3. \A p \in Loop : p \in B => measure[next[p]] < measure[p]
  BY <1>1, <1>2 DEF Loop
<1>4. \A f : f = Body(f) <=> Runs(f, Loop, B, next)
  BY DEF Runs
<1>5. \A p \in Loop : p \in B <=> p[1] > 1970
  OBVIOUS
<1>6. \A p, q \in Loop : q[1] = p[1] - 1 /\ q[2] = p[2] + DaysInYear(p[1]) => q = next[p]
  BY DEF Loop
<1> HIDE DEF B, next, measure
<1>7. \E f : Runs(f, Loop, B, next)
  BY <1>2, <1>3, LoopIsDefined
<1>8. AddYears = CHOOSE f : f = Body(f)
  BY DEF AddYears
<1> HIDE DEF Body
<1>9. Runs(AddYears, Loop, B, next)
  BY <1>4, <1>7, <1>8
<1>10. \A p \in Loop : AddYears[p] = IF p \in B THEN AddYears[next[p]] ELSE p
  BY <1>9, LoopStep
<1> QED BY <1>1, <1>5, <1>6, <1>10

LEMMA TakeMonthsLoop ==
  ASSUME NEW y \in Int, NEW m \in Int
  PROVE  /\ \A p \in Loop : p[1] < m => TakeMonths(y, m)[p] = p
         /\ \A p, q \in Loop :
              /\ p[1] >= m
              /\ q[1] = p[1] - 1
              /\ q[2] = p[2] - DaysInMonth(p[1], y)
              => TakeMonths(y, m)[p] = TakeMonths(y, m)[q]
<1> DEFINE B == {p \in Loop : p[1] >= m}
           next == [p \in Loop |-> <<p[1] - 1, p[2] - DaysInMonth(p[1], y)>>]
           measure == [p \in Loop |-> IF p[1] >= m THEN p[1] - m + 1 ELSE 0]
           Body(f) == [p \in Loop |->
                        IF p[1] >= m
                        THEN f[<<p[1] - 1, p[2] - DaysInMonth(p[1], y)>>]
                        ELSE p]
<1>1. \A p \in Loop : p[1] \in Int /\ p[2] \in Int /\ DaysInMonth(p[1], y) \in 28..31
  BY MonthLength DEF Loop
<1>2. next \in [Loop -> Loop] /\ measure \in [Loop -> Nat]
  BY <1>1 DEF Loop
<1>3. \A p \in Loop : p \in B => measure[next[p]] < measure[p]
  BY <1>1, <1>2 DEF Loop
<1>4. \A f : f = Body(f) <=> Runs(f, Loop, B, next)
  BY DEF Runs
<1>5. \A p \in Loop : p \in B <=> p[1] >= m
  OBVIOUS
<1>6. \A p, q \in Loop : q[1] = p[1] - 1 /\ q[2] = p[2] - DaysInMonth(p[1], y) => q = next[p]
  BY DEF Loop
<1> HIDE DEF B, next, measure
<1>7. \E f : Runs(f, Loop, B, next)
  BY <1>2, <1>3, LoopIsDefined
<1>8. TakeMonths(y, m) = CHOOSE f : f = Body(f)
  BY DEF TakeMonths
<1> HIDE DEF Body
<1>9. Runs(TakeMonths(y, m), Loop, B, next)
  BY <1>4, <1>7, <1>8
<1>10. \A p \in Loop : TakeMonths(y, m)[p] = IF p \in B THEN TakeMonths(y, m)[next[p]] ELSE p
  BY <1>9, LoopStep
<1> QED BY <1>1, <1>5, <1>6, <1>10

LEMMA TakeYearsLoop ==
  /\ \A p \in Loop : p[1] >= 1970 => TakeYears[p] = p
  /\ \A p, q \in Loop :
       /\ p[1] < 1970
       /\ q[1] = p[1] + 1
       /\ q[2] = p[2] - DaysInYear(p[1])
       => TakeYears[p] = TakeYears[q]
<1> DEFINE B == {p \in Loop : p[1] < 1970}
           next == [p \in Loop |-> <<p[1] + 1, p[2] - DaysInYear(p[1])>>]
           measure == [p \in Loop |-> IF p[1] < 1970 THEN 1970 - p[1] ELSE 0]
           Body(f) == [p \in Loop |->
                        IF p[1] < 1970
                        THEN f[<<p[1] + 1, p[2] - DaysInYear(p[1])>>]
                        ELSE p]
<1>1. \A p \in Loop : p[1] \in Int /\ p[2] \in Int /\ DaysInYear(p[1]) \in {365, 366}
  BY YearStep DEF Loop
<1>2. next \in [Loop -> Loop] /\ measure \in [Loop -> Nat]
  BY <1>1 DEF Loop
<1>3. \A p \in Loop : p \in B => measure[next[p]] < measure[p]
  BY <1>1, <1>2 DEF Loop
<1>4. \A f : f = Body(f) <=> Runs(f, Loop, B, next)
  BY DEF Runs
<1>5. \A p \in Loop : p \in B <=> p[1] < 1970
  OBVIOUS
<1>6. \A p, q \in Loop : q[1] = p[1] + 1 /\ q[2] = p[2] - DaysInYear(p[1]) => q = next[p]
  BY DEF Loop
<1> HIDE DEF B, next, measure
<1>7. \E f : Runs(f, Loop, B, next)
  BY <1>2, <1>3, LoopIsDefined
<1>8. TakeYears = CHOOSE f : f = Body(f)
  BY DEF TakeYears
<1> HIDE DEF Body
<1>9. Runs(TakeYears, Loop, B, next)
  BY <1>4, <1>7, <1>8
<1>10. \A p \in Loop : TakeYears[p] = IF p \in B THEN TakeYears[next[p]] ELSE p
  BY <1>9, LoopStep
<1> QED BY <1>1, <1>5, <1>6, <1>10

LEMMA YearUpLoop ==
  /\ \A p \in Loop : p[2] <= DaysInYear(p[1]) => YearUp[p] = p
  /\ \A p, q \in Loop :
       /\ p[2] > DaysInYear(p[1])
       /\ q[1] = p[1] + 1
       /\ q[2] = p[2] - DaysInYear(p[1])
       => YearUp[p] = YearUp[q]
<1> DEFINE B == {p \in Loop : p[2] > DaysInYear(p[1])}
           next == [p \in Loop |-> <<p[1] + 1, p[2] - DaysInYear(p[1])>>]
           measure == [p \in Loop |-> IF p[2] > 0 THEN p[2] ELSE 0]
           Body(f) == [p \in Loop |->
                        IF p[2] > DaysInYear(p[1])
                        THEN f[<<p[1] + 1, p[2] - DaysInYear(p[1])>>]
                        ELSE p]
<1>1. \A p \in Loop : p[1] \in Int /\ p[2] \in Int /\ DaysInYear(p[1]) \in {365, 366}
  BY YearStep DEF Loop
<1>2. next \in [Loop -> Loop] /\ measure \in [Loop -> Nat]
  BY <1>1 DEF Loop
<1>3. \A p \in Loop : p \in B => measure[next[p]] < measure[p]
  BY <1>1, <1>2 DEF Loop
<1>4. \A f : f = Body(f) <=> Runs(f, Loop, B, next)
  BY DEF Runs
<1>5. \A p \in Loop : p \in B <=> p[2] > DaysInYear(p[1])
  OBVIOUS
<1>6. \A p, q \in Loop : q[1] = p[1] + 1 /\ q[2] = p[2] - DaysInYear(p[1]) => q = next[p]
  BY DEF Loop
<1> HIDE DEF B, next, measure
<1>7. \E f : Runs(f, Loop, B, next)
  BY <1>2, <1>3, LoopIsDefined
<1>8. YearUp = CHOOSE f : f = Body(f)
  BY DEF YearUp
<1> HIDE DEF Body
<1>9. Runs(YearUp, Loop, B, next)
  BY <1>4, <1>7, <1>8
<1>10. \A p \in Loop : YearUp[p] = IF p \in B THEN YearUp[next[p]] ELSE p
  BY <1>9, LoopStep
<1> QED BY <1>1, <1>5, <1>6, <1>10

LEMMA YearDownLoop ==
  /\ \A p \in Loop : p[2] >= -DaysInYear(p[1]) => YearDown[p] = p
  /\ \A p, q \in Loop :
       /\ p[2] < -DaysInYear(p[1])
       /\ q[1] = p[1] - 1
       /\ q[2] = p[2] + DaysInYear(p[1])
       => YearDown[p] = YearDown[q]
<1> DEFINE B == {p \in Loop : p[2] < -DaysInYear(p[1])}
           next == [p \in Loop |-> <<p[1] - 1, p[2] + DaysInYear(p[1])>>]
           measure == [p \in Loop |-> IF p[2] < 0 THEN -p[2] ELSE 0]
           Body(f) == [p \in Loop |->
                        IF p[2] < -DaysInYear(p[1])
                        THEN f[<<p[1] - 1, p[2] + DaysInYear(p[1])>>]
                        ELSE p]
<1>1. \A p \in Loop : p[1] \in Int /\ p[2] \in Int /\ DaysInYear(p[1]) \in {365, 366}
  BY YearStep DEF Loop
<1>2. next \in [Loop -> Loop] /\ measure \in [Loop -> Nat]
  BY <1>1 DEF Loop
<1>3. \A p \in Loop : p \in B => measure[next[p]] < measure[p]
  BY <1>1, <1>2 DEF Loop
<1>4. \A f : f = Body(f) <=> Runs(f, Loop, B, next)
  BY DEF Runs
<1>5. \A p \in Loop : p \in B <=> p[2] < -DaysInYear(p[1])
  OBVIOUS
<1>6. \A p, q \in Loop : q[1] = p[1] - 1 /\ q[2] = p[2] + DaysInYear(p[1]) => q = next[p]
  BY DEF Loop
<1> HIDE DEF B, next, measure
<1>7. \E f : Runs(f, Loop, B, next)
  BY <1>2, <1>3, LoopIsDefined
<1>8. YearDown = CHOOSE f : f = Body(f)
  BY DEF YearDown
<1> HIDE DEF Body
<1>9. Runs(YearDown, Loop, B, next)
  BY <1>4, <1>7, <1>8
<1>10. \A p \in Loop : YearDown[p] = IF p \in B THEN YearDown[next[p]] ELSE p
  BY <1>9, LoopStep
<1> QED BY <1>1, <1>5, <1>6, <1>10

LEMMA MonthUpLoop ==
  ASSUME NEW y \in Int
  PROVE  /\ \A p \in Loop : p[2] <= DaysInMonth(p[1], y) => MonthUp(y)[p] = p
         /\ \A p, q \in Loop :
              /\ p[2] > DaysInMonth(p[1], y)
              /\ q[1] = p[1] + 1
              /\ q[2] = p[2] - DaysInMonth(p[1], y)
              => MonthUp(y)[p] = MonthUp(y)[q]
<1> DEFINE B == {p \in Loop : p[2] > DaysInMonth(p[1], y)}
           next == [p \in Loop |-> <<p[1] + 1, p[2] - DaysInMonth(p[1], y)>>]
           measure == [p \in Loop |-> IF p[2] > 0 THEN p[2] ELSE 0]
           Body(f) == [p \in Loop |->
                        IF p[2] > DaysInMonth(p[1], y)
                        THEN f[<<p[1] + 1, p[2] - DaysInMonth(p[1], y)>>]
                        ELSE p]
<1>1. \A p \in Loop : p[1] \in Int /\ p[2] \in Int /\ DaysInMonth(p[1], y) \in 28..31
  BY MonthLength DEF Loop
<1>2. next \in [Loop -> Loop] /\ measure \in [Loop -> Nat]
  BY <1>1 DEF Loop
<1>3. \A p \in Loop : p \in B => measure[next[p]] < measure[p]
  BY <1>1, <1>2 DEF Loop
<1>4. \A f : f = Body(f) <=> Runs(f, Loop, B, next)
  BY DEF Runs
<1>5. \A p \in Loop : p \in B <=> p[2] > DaysInMonth(p[1], y)
  OBVIOUS
<1>6. \A p, q \in Loop : q[1] = p[1] + 1 /\ q[2] = p[2] - DaysInMonth(p[1], y) => q = next[p]
  BY DEF Loop
<1> HIDE DEF B, next, measure
<1>7. \E f : Runs(f, Loop, B, next)
  BY <1>2, <1>3, LoopIsDefined
<1>8. MonthUp(y) = CHOOSE f : f = Body(f)
  BY DEF MonthUp
<1> HIDE DEF Body
<1>9. Runs(MonthUp(y), Loop, B, next)
  BY <1>4, <1>7, <1>8
<1>10. \A p \in Loop : MonthUp(y)[p] = IF p \in B THEN MonthUp(y)[next[p]] ELSE p
  BY <1>9, LoopStep
<1> QED BY <1>1, <1>5, <1>6, <1>10

LEMMA MonthDownLoop ==
  ASSUME NEW y \in Int
  PROVE  /\ \A p \in Loop : p[2] + DaysInMonth(p[1], y) >= 0 => MonthDown(y)[p] = p
         /\ \A p, q \in Loop :
              /\ p[2] + DaysInMonth(p[1], y) < 0
              /\ p[1] > 0
              /\ q[1] = p[1] - 1
              /\ q[2] = p[2] + DaysInMonth(p[1], y)
              => MonthDown(y)[p] = MonthDown(y)[q]
<1> DEFINE B == {p \in Loop : p[2] + DaysInMonth(p[1], y) < 0 /\ p[1] > 0}
           next == [p \in Loop |-> <<p[1] - 1, p[2] + DaysInMonth(p[1], y)>>]
           measure == [p \in Loop |-> IF p[1] > 0 THEN p[1] ELSE 0]
           Body(f) == [p \in Loop |->
                        IF p[2] + DaysInMonth(p[1], y) < 0 /\ p[1] > 0
                        THEN f[<<p[1] - 1, p[2] + DaysInMonth(p[1], y)>>]
                        ELSE p]
<1>1. \A p \in Loop : p[1] \in Int /\ p[2] \in Int /\ DaysInMonth(p[1], y) \in 28..31
  BY MonthLength DEF Loop
<1>2. next \in [Loop -> Loop] /\ measure \in [Loop -> Nat]
  BY <1>1 DEF Loop
<1>3. \A p \in Loop : p \in B => measure[next[p]] < measure[p]
  BY <1>1, <1>2 DEF Loop
<1>4. \A f : f = Body(f) <=> Runs(f, Loop, B, next)
  BY DEF Runs
<1>5. \A p \in Loop : p \in B <=> (p[2] + DaysInMonth(p[1], y) < 0 /\ p[1] > 0)
  OBVIOUS
<1>6. \A p, q \in Loop : q[1] = p[1] - 1 /\ q[2] = p[2] + DaysInMonth(p[1], y) => q = next[p]
  BY DEF Loop
<1> HIDE DEF B, next, measure
<1>7. \E f : Runs(f, Loop, B, next)
  BY <1>2, <1>3, LoopIsDefined
<1>8. MonthDown(y) = CHOOSE f : f = Body(f)
  BY DEF MonthDown
<1> HIDE DEF Body
<1>9. Runs(MonthDown(y), Loop, B, next)
  BY <1>4, <1>7, <1>8
<1>10. \A p \in Loop : MonthDown(y)[p] = IF p \in B THEN MonthDown(y)[next[p]] ELSE p
  BY <1>9, LoopStep
<1> QED BY <1>1, <1>5, <1>6, <1>10

-----------------------------------------------------------------------------
(* All the rounds.                                                            *)

LEMMA MonthStartType ==
  ASSUME NEW y \in Int, NEW m \in 1..13
  PROVE  MonthStart(m, y) \in Int
<1>1. CASE m = 13
  BY <1>1, MonthEnds, YearStep
<1>2. CASE m # 13
  <2>1. m \in 1..12
    BY <1>2
  <2> QED BY <2>1, MonthStep
<1> QED BY <1>1, <1>2

(* Any two numbers are the variables of a loop.                               *)
LEMMA LoopNumbers ==
  ASSUME NEW i \in Int, NEW n \in Int
  PROVE  \E p \in Loop : p = <<i, n>> /\ p[1] = i /\ p[2] = n
  BY LoopPairs, Zenon

(* What the loops of date_to_days add up to.                                  *)
LEMMA AddMonthsSum ==
  ASSUME NEW y \in Int
  PROVE  \A p \in Loop : p[1] \in 0..12 =>
           AddMonths(y)[p][2] = p[2] + MonthStart(p[1] + 1, y)
<1> DEFINE P(i) == \A p \in Loop : p[1] = i /\ i <= 12 =>
                     AddMonths(y)[p][2] = p[2] + MonthStart(i + 1, y)
           S == {i \in Nat : P(i)}
<1>1. P(0)
  <2> SUFFICES ASSUME NEW p \in Loop, p[1] = 0
               PROVE  AddMonths(y)[p][2] = p[2] + MonthStart(0 + 1, y)
    OBVIOUS
  <2>1. AddMonths(y)[p] = p
    BY AddMonthsLoop
  <2>2. 0 + 1 = 1 /\ MonthStart(1, y) = 0 /\ p[2] \in Int
    BY MonthEnds, LoopPairs
  <2> QED BY <2>1, <2>2
<1>2. ASSUME NEW i \in Nat, P(i) PROVE P(i + 1)
  <2> SUFFICES ASSUME NEW p \in Loop, p[1] = i + 1, i + 1 <= 12
               PROVE  AddMonths(y)[p][2] = p[2] + MonthStart((i + 1) + 1, y)
    OBVIOUS
  <2>1. PICK k \in 1..12 : k = i + 1
    OBVIOUS
  <2>2. PICK length \in Int : length = DaysInMonth(k, y)
    BY MonthStep
  <2>3. MonthStart(k, y) \in Int /\ MonthStart(k + 1, y) = MonthStart(k, y) + length
    BY <2>2, MonthStep
  <2>4. p[2] \in Int
    BY LoopPairs
  <2>5. PICK q \in Loop : q[1] = i /\ q[2] = p[2] + length
    BY <2>4, LoopNumbers
  <2>6. AddMonths(y)[p] = AddMonths(y)[q]
    BY <2>1, <2>2, <2>5, AddMonthsLoop
  <2>7. AddMonths(y)[q][2] = q[2] + MonthStart(k, y)
    BY <1>2, <2>1, <2>5
  <2> QED BY <2>1, <2>3, <2>4, <2>5, <2>6, <2>7
<1> HIDE DEF P
<1>3. S = Nat
  <2>1. 0 \in S /\ S \subseteq Nat /\ \A i \in S : i + 1 \in S
    BY <1>1, <1>2
  <2> HIDE DEF S
  <2> QED BY <2>1, SetInduction
<1>4. \A i \in Nat : P(i)
  BY <1>3
<1> QED BY <1>4 DEF P

(* Later years and months start later.                                        *)
LEMMA YearsGrow ==
  ASSUME NEW y \in Int, NEW z \in Int, y <= z
  PROVE  YearStart(y) <= YearStart(z)
<1> DEFINE P(i) == YearStart(y) <= YearStart(y + i)
           S == {i \in Nat : P(i)}
<1>1. P(0)
  <2>1. y + 0 = y /\ YearStart(y) \in Int
    BY YearStartType
  <2> QED BY <2>1
<1>2. ASSUME NEW i \in Nat, P(i) PROVE P(i + 1)
  <2>1. PICK x \in Int : x = y + i
    OBVIOUS
  <2>2. /\ YearStart(y) \in Int /\ YearStart(x) \in Int
        /\ YearStart(x) <= YearStart(x + 1)
    BY YearStep, YearStartType
  <2>3. y + (i + 1) = x + 1 /\ YearStart(x + 1) \in Int
    BY <2>1, YearStartType
  <2> QED BY <1>2, <2>1, <2>2, <2>3
<1> HIDE DEF P
<1>3. S = Nat
  <2>1. 0 \in S /\ S \subseteq Nat /\ \A i \in S : i + 1 \in S
    BY <1>1, <1>2
  <2> HIDE DEF S
  <2> QED BY <2>1, SetInduction
<1>4. \A i \in Nat : P(i)
  BY <1>3
<1>5. PICK i \in Nat : z = y + i
  <2>1. z - y \in Nat /\ z = y + (z - y)
    OBVIOUS
  <2> QED BY <2>1
<1> QED BY <1>4, <1>5 DEF P

LEMMA MonthsGrow ==
  ASSUME NEW y \in Int, NEW l \in 1..13, NEW m \in l..13
  PROVE  MonthStart(l, y) <= MonthStart(m, y)
<1> DEFINE P(i) == l + i <= 13 => MonthStart(l, y) <= MonthStart(l + i, y)
           S == {i \in Nat : P(i)}
<1>1. P(0)
  <2>1. MonthStart(l, y) \in Int
    BY MonthStartType
  <2>2. l + 0 = l
    OBVIOUS
  <2> QED BY <2>1, <2>2
<1>2. ASSUME NEW i \in Nat, P(i) PROVE P(i + 1)
  <2> SUFFICES ASSUME l + (i + 1) <= 13
               PROVE  MonthStart(l, y) <= MonthStart(l + (i + 1), y)
    OBVIOUS
  <2>1. PICK x \in 1..12 : x = l + i
    OBVIOUS
  <2>2. MonthStart(l, y) \in Int
    BY MonthStartType
  <2>3. /\ DaysInMonth(x, y) \in Int /\ DaysInMonth(x, y) >= 0 /\ MonthStart(x, y) \in Int
        /\ MonthStart(x + 1, y) = MonthStart(x, y) + DaysInMonth(x, y)
    BY MonthStep
  <2>4. MonthStart(x, y) <= MonthStart(x + 1, y)
    BY <2>3
  <2>5. l + (i + 1) = x + 1 /\ MonthStart(x + 1, y) \in Int
    BY <2>1, <2>3
  <2>6. MonthStart(l, y) <= MonthStart(x, y)
    BY <1>2, <2>1
  <2>7. MonthStart(l, y) <= MonthStart(x + 1, y)
    BY <2>2, <2>3, <2>4, <2>5, <2>6
  <2> QED BY <2>5, <2>7
<1> HIDE DEF P
<1>3. S = Nat
  <2>1. 0 \in S /\ S \subseteq Nat /\ \A i \in S : i + 1 \in S
    BY <1>1, <1>2
  <2> HIDE DEF S
  <2> QED BY <2>1, SetInduction
<1>4. \A i \in Nat : P(i)
  BY <1>3
<1>5. m - l \in Nat /\ l + (m - l) = m /\ m <= 13
  OBVIOUS
<1>6. P(m - l)
  BY <1>4, <1>5
<1> QED BY <1>5, <1>6 DEF P

LEMMA AddYearsSum ==
  \A p \in Loop : p[1] >= 1970 =>
    AddYears[p][2] = p[2] + YearStart(p[1] + 1) - YearStart(1971)
<1> DEFINE P(i) == \A p \in Loop : p[1] = 1970 + i =>
                     AddYears[p][2] = p[2] + YearStart(p[1] + 1) - YearStart(1971)
           S == {i \in Nat : P(i)}
<1>1. P(0)
  <2> SUFFICES ASSUME NEW p \in Loop, p[1] = 1970
               PROVE  AddYears[p][2] = p[2] + YearStart(1970 + 1) - YearStart(1971)
    OBVIOUS
  <2>1. AddYears[p] = p
    BY AddYearsLoop
  <2>2. 1970 + 1 = 1971 /\ YearStart(1971) \in Int /\ p[2] \in Int
    BY YearStartType, LoopPairs
  <2> QED BY <2>1, <2>2
<1>2. ASSUME NEW i \in Nat, P(i) PROVE P(i + 1)
  <2> SUFFICES ASSUME NEW p \in Loop, p[1] = 1970 + (i + 1)
               PROVE  AddYears[p][2] = p[2] + YearStart(p[1] + 1) - YearStart(1971)
    OBVIOUS
  <2>1. PICK y \in Int : y = p[1] /\ y = 1970 + (i + 1) /\ y > 1970 /\ p[2] \in Int
    BY LoopPairs
  <2>2. PICK length \in Int : length = DaysInYear(y)
    BY YearStep
  <2>3. /\ YearStart(y) \in Int /\ YearStart(1971) \in Int
        /\ YearStart(y + 1) = YearStart(y) + length
    BY <2>2, YearStep, YearStartType
  <2>4. PICK q \in Loop : q[1] = y - 1 /\ q[2] = p[2] + length
    BY <2>1, LoopNumbers
  <2>5. AddYears[p] = AddYears[q]
    BY <2>1, <2>2, <2>4, AddYearsLoop
  <2>6. q[1] = 1970 + i /\ q[1] + 1 = y
    BY <2>1, <2>4
  <2>7. AddYears[q][2] = q[2] + YearStart(y) - YearStart(1971)
    BY <1>2, <2>6
  <2> QED BY <2>1, <2>3, <2>4, <2>5, <2>7
<1> HIDE DEF P
<1>3. S = Nat
  <2>1. 0 \in S /\ S \subseteq Nat /\ \A i \in S : i + 1 \in S
    BY <1>1, <1>2
  <2> HIDE DEF S
  <2> QED BY <2>1, SetInduction
<1>4. \A i \in Nat : P(i)
  BY <1>3
<1>5. \A y \in Int : y >= 1970 => \E i \in Nat : y = 1970 + i
  <2>1. \A y \in Int : y >= 1970 => y - 1970 \in Nat /\ y = 1970 + (y - 1970)
    OBVIOUS
  <2> QED BY <2>1
<1> QED BY <1>4, <1>5, LoopPairs DEF P

LEMMA TakeMonthsSum ==
  ASSUME NEW y \in Int, NEW m \in 1..12
  PROVE  \A p \in Loop : p[1] \in (m - 1)..12 =>
           TakeMonths(y, m)[p][2] = p[2] - (MonthStart(p[1] + 1, y) - MonthStart(m, y))
<1> DEFINE P(i) == \A p \in Loop : p[1] = (m - 1) + i /\ p[1] <= 12 =>
                     TakeMonths(y, m)[p][2]
                       = p[2] - (MonthStart(p[1] + 1, y) - MonthStart(m, y))
           S == {i \in Nat : P(i)}
<1>1. P(0)
  <2> SUFFICES ASSUME NEW p \in Loop, p[1] = m - 1
               PROVE  TakeMonths(y, m)[p][2]
                        = p[2] - (MonthStart((m - 1) + 1, y) - MonthStart(m, y))
    OBVIOUS
  <2>1. TakeMonths(y, m)[p] = p
    BY TakeMonthsLoop
  <2>2. MonthStart(m, y) \in Int
    BY MonthStep
  <2>3. (m - 1) + 1 = m /\ p[2] \in Int
    BY LoopPairs
  <2> QED BY <2>1, <2>2, <2>3
<1>2. ASSUME NEW i \in Nat, P(i) PROVE P(i + 1)
  <2> SUFFICES ASSUME NEW p \in Loop, p[1] = (m - 1) + (i + 1), p[1] <= 12
               PROVE  TakeMonths(y, m)[p][2]
                        = p[2] - (MonthStart(p[1] + 1, y) - MonthStart(m, y))
    OBVIOUS
  <2>1. PICK k \in 1..12 : k = p[1] /\ k = (m - 1) + (i + 1) /\ k >= m /\ p[2] \in Int
    BY LoopPairs
  <2>2. PICK length \in Int : length = DaysInMonth(k, y)
    BY MonthStep
  <2>3. /\ MonthStart(k, y) \in Int /\ MonthStart(m, y) \in Int
        /\ MonthStart(k + 1, y) = MonthStart(k, y) + length
    BY <2>2, MonthStep
  <2>4. PICK q \in Loop : q[1] = k - 1 /\ q[2] = p[2] - length
    BY <2>1, LoopNumbers
  <2>5. TakeMonths(y, m)[p] = TakeMonths(y, m)[q]
    BY <2>1, <2>2, <2>4, TakeMonthsLoop
  <2>6. q[1] = (m - 1) + i /\ q[1] + 1 = k /\ q[1] <= 12
    BY <2>1, <2>4
  <2>7. TakeMonths(y, m)[q][2] = q[2] - (MonthStart(k, y) - MonthStart(m, y))
    BY <1>2, <2>6
  <2>8. p[1] + 1 = k + 1 /\ TakeMonths(y, m)[p][2] = TakeMonths(y, m)[q][2]
    BY <2>1, <2>5
  <2>9. (p[2] - length) - (MonthStart(k, y) - MonthStart(m, y))
          = p[2] - ((MonthStart(k, y) + length) - MonthStart(m, y))
    BY <2>1, <2>3
  <2> QED BY <2>3, <2>4, <2>7, <2>8, <2>9
<1> HIDE DEF P
<1>3. S = Nat
  <2>1. 0 \in S /\ S \subseteq Nat /\ \A i \in S : i + 1 \in S
    BY <1>1, <1>2
  <2> HIDE DEF S
  <2> QED BY <2>1, SetInduction
<1>4. \A i \in Nat : P(i)
  BY <1>3
<1>5. \A l \in (m - 1)..12 : \E i \in Nat : l = (m - 1) + i
  <2>1. \A l \in (m - 1)..12 : l - (m - 1) \in Nat /\ l = (m - 1) + (l - (m - 1))
    OBVIOUS
  <2> QED BY <2>1
<1>6. ASSUME NEW p \in Loop, p[1] \in (m - 1)..12
      PROVE  TakeMonths(y, m)[p][2] = p[2] - (MonthStart(p[1] + 1, y) - MonthStart(m, y))
  <2>1. PICK i \in Nat : p[1] = (m - 1) + i
    BY <1>5, <1>6
  <2>2. P(i) /\ p[1] <= 12
    BY <1>4, <1>6
  <2> QED BY <2>1, <2>2 DEF P
<1> QED BY <1>6

LEMMA TakeYearsSum ==
  \A p \in Loop : p[1] <= 1970 =>
    TakeYears[p][2] = p[2] - (YearStart(1970) - YearStart(p[1]))
<1> DEFINE P(i) == \A p \in Loop : p[1] = 1970 - i =>
                     TakeYears[p][2] = p[2] - (YearStart(1970) - YearStart(p[1]))
           S == {i \in Nat : P(i)}
<1>1. P(0)
  <2> SUFFICES ASSUME NEW p \in Loop, p[1] = 1970
               PROVE  TakeYears[p][2] = p[2] - (YearStart(1970) - YearStart(1970))
    OBVIOUS
  <2>1. TakeYears[p] = p
    BY TakeYearsLoop
  <2>2. YearStart(1970) \in Int /\ p[2] \in Int
    BY YearStartType, LoopPairs
  <2> QED BY <2>1, <2>2
<1>2. ASSUME NEW i \in Nat, P(i) PROVE P(i + 1)
  <2> SUFFICES ASSUME NEW p \in Loop, p[1] = 1970 - (i + 1)
               PROVE  TakeYears[p][2] = p[2] - (YearStart(1970) - YearStart(p[1]))
    OBVIOUS
  <2>1. PICK y \in Int : y = p[1] /\ y = 1970 - (i + 1) /\ y < 1970 /\ p[2] \in Int
    BY LoopPairs
  <2>2. PICK length \in Int : length = DaysInYear(y)
    BY YearStep
  <2>3. /\ YearStart(y) \in Int /\ YearStart(1970) \in Int
        /\ YearStart(y + 1) = YearStart(y) + length
    BY <2>2, YearStep, YearStartType
  <2>4. PICK q \in Loop : q[1] = y + 1 /\ q[2] = p[2] - length
    BY <2>1, LoopNumbers
  <2>5. TakeYears[p] = TakeYears[q]
    BY <2>1, <2>2, <2>4, TakeYearsLoop
  <2>6. q[1] = 1970 - i
    BY <2>1, <2>4
  <2>7. TakeYears[q][2] = q[2] - (YearStart(1970) - YearStart(y + 1))
    BY <1>2, <2>4, <2>6
  <2> QED BY <2>1, <2>3, <2>4, <2>5, <2>7
<1> HIDE DEF P
<1>3. S = Nat
  <2>1. 0 \in S /\ S \subseteq Nat /\ \A i \in S : i + 1 \in S
    BY <1>1, <1>2
  <2> HIDE DEF S
  <2> QED BY <2>1, SetInduction
<1>4. \A i \in Nat : P(i)
  BY <1>3
<1>5. ASSUME NEW p \in Loop, p[1] <= 1970
      PROVE  TakeYears[p][2] = p[2] - (YearStart(1970) - YearStart(p[1]))
  <2>1. PICK y \in Int : y = p[1]
    BY LoopPairs
  <2>2. 1970 - y \in Nat /\ p[1] = 1970 - (1970 - y)
    BY <1>5, <2>1
  <2>3. P(1970 - y)
    BY <1>4, <2>2
  <2> QED BY <2>2, <2>3 DEF P
<1> QED BY <1>5

(* Where the loops of days_to_date stop: in the year and in the month that    *)
(* have the day, with what is left of the days.                               *)
LEMMA YearUpFinds ==
  ASSUME NEW z \in Int, NEW r \in Int, 1 <= r, r <= DaysInYear(z),
         NEW p \in Loop, p[1] <= z, p[2] = YearStart(z) - YearStart(p[1]) + r
  PROVE  YearUp[p][1] = z /\ YearUp[p][2] = r
<1> DEFINE P(i) == \A s \in Loop :
                     s[1] = z - i /\ s[2] = YearStart(z) - YearStart(s[1]) + r =>
                       YearUp[s][1] = z /\ YearUp[s][2] = r
           S == {i \in Nat : P(i)}
<1>1. P(0)
  <2> SUFFICES ASSUME NEW s \in Loop, s[1] = z - 0,
                      s[2] = YearStart(z) - YearStart(s[1]) + r
               PROVE  YearUp[s][1] = z /\ YearUp[s][2] = r
    OBVIOUS
  <2>1. s[1] = z /\ YearStart(z) \in Int /\ DaysInYear(z) \in Int
    BY YearStep, YearStartType
  <2>2. s[2] = r
    BY <2>1
  <2>3. YearUp[s] = s
    BY <2>1, <2>2, YearUpLoop
  <2> QED BY <2>1, <2>2, <2>3
<1>2. ASSUME NEW i \in Nat, P(i) PROVE P(i + 1)
  <2> SUFFICES ASSUME NEW s \in Loop, s[1] = z - (i + 1),
                      s[2] = YearStart(z) - YearStart(s[1]) + r
               PROVE  YearUp[s][1] = z /\ YearUp[s][2] = r
    OBVIOUS
  <2>1. PICK y \in Int : y = s[1] /\ y = z - (i + 1) /\ y + 1 = z - i /\ y + 1 <= z
    OBVIOUS
  <2>2. PICK length \in Int : length = DaysInYear(y)
    BY YearStep
  <2>3. /\ YearStart(y) \in Int /\ YearStart(z) \in Int
        /\ YearStart(y + 1) = YearStart(y) + length
    BY <2>2, YearStep, YearStartType
  <2>4. YearStart(y + 1) <= YearStart(z)
    BY <2>1, YearsGrow
  <2>5. s[2] \in Int /\ s[2] > length
    BY <2>1, <2>3, <2>4
  <2>6. PICK q \in Loop : q[1] = y + 1 /\ q[2] = s[2] - length
    BY <2>5, LoopNumbers
  <2>7. YearUp[s] = YearUp[q]
    BY <2>1, <2>2, <2>5, <2>6, YearUpLoop
  <2>8. q[1] = z - i
    BY <2>1, <2>6
  <2>9. q[2] = YearStart(z) - YearStart(y + 1) + r
    BY <2>1, <2>3, <2>6
  <2>10. YearUp[q][1] = z /\ YearUp[q][2] = r
    BY <1>2, <2>6, <2>8, <2>9
  <2> QED BY <2>7, <2>10
<1> HIDE DEF P
<1>3. S = Nat
  <2>1. 0 \in S /\ S \subseteq Nat /\ \A i \in S : i + 1 \in S
    BY <1>1, <1>2
  <2> HIDE DEF S
  <2> QED BY <2>1, SetInduction
<1>4. \A i \in Nat : P(i)
  BY <1>3
<1>5. PICK y \in Int : y = p[1]
  BY LoopPairs
<1>6. z - y \in Nat /\ p[1] = z - (z - y)
  BY <1>5
<1>7. P(z - y)
  BY <1>4, <1>6
<1> QED BY <1>6, <1>7 DEF P

LEMMA YearDownFinds ==
  ASSUME NEW z \in Int, NEW t \in Int, 1 <= t, t <= DaysInYear(z),
         NEW p \in Loop, p[1] >= z,
         p[2] = -(YearStart(p[1] + 1) - YearStart(z + 1)) - t
  PROVE  YearDown[p][1] = z /\ YearDown[p][2] = -t
<1> DEFINE P(i) == \A s \in Loop :
                     /\ s[1] = z + i
                     /\ s[2] = -(YearStart(s[1] + 1) - YearStart(z + 1)) - t
                     => YearDown[s][1] = z /\ YearDown[s][2] = -t
           S == {i \in Nat : P(i)}
<1>1. P(0)
  <2> SUFFICES ASSUME NEW s \in Loop, s[1] = z + 0,
                      s[2] = -(YearStart(s[1] + 1) - YearStart(z + 1)) - t
               PROVE  YearDown[s][1] = z /\ YearDown[s][2] = -t
    OBVIOUS
  <2>1. s[1] = z /\ YearStart(z + 1) \in Int /\ DaysInYear(z) \in Int
    BY YearStep, YearStartType
  <2>2. s[2] = -t
    BY <2>1
  <2>3. YearDown[s] = s
    BY <2>1, <2>2, YearDownLoop
  <2> QED BY <2>1, <2>2, <2>3
<1>2. ASSUME NEW i \in Nat, P(i) PROVE P(i + 1)
  <2> SUFFICES ASSUME NEW s \in Loop, s[1] = z + (i + 1),
                      s[2] = -(YearStart(s[1] + 1) - YearStart(z + 1)) - t
               PROVE  YearDown[s][1] = z /\ YearDown[s][2] = -t
    OBVIOUS
  <2>1. PICK y \in Int : y = s[1] /\ y - 1 = z + i /\ z + 1 <= y
    OBVIOUS
  <2>2. PICK length \in Int : length = DaysInYear(y)
    BY YearStep
  <2>3. /\ YearStart(y) \in Int /\ YearStart(z + 1) \in Int
        /\ YearStart(y + 1) = YearStart(y) + length
    BY <2>2, YearStep, YearStartType
  <2>4. YearStart(z + 1) <= YearStart(y)
    BY <2>1, YearsGrow
  <2>5. s[2] \in Int /\ s[2] < -length
    BY <2>1, <2>3, <2>4
  <2>6. PICK q \in Loop : q[1] = y - 1 /\ q[2] = s[2] + length
    BY <2>5, LoopNumbers
  <2>7. YearDown[s] = YearDown[q]
    BY <2>1, <2>2, <2>5, <2>6, YearDownLoop
  <2>8. q[1] = z + i /\ q[1] + 1 = y
    BY <2>1, <2>6
  <2>9. q[2] = -(YearStart(y) - YearStart(z + 1)) - t
    BY <2>1, <2>3, <2>6
  <2>10. YearDown[q][1] = z /\ YearDown[q][2] = -t
    BY <1>2, <2>6, <2>8, <2>9
  <2> QED BY <2>7, <2>10
<1> HIDE DEF P
<1>3. S = Nat
  <2>1. 0 \in S /\ S \subseteq Nat /\ \A i \in S : i + 1 \in S
    BY <1>1, <1>2
  <2> HIDE DEF S
  <2> QED BY <2>1, SetInduction
<1>4. \A i \in Nat : P(i)
  BY <1>3
<1>5. PICK y \in Int : y = p[1]
  BY LoopPairs
<1>6. y - z \in Nat /\ p[1] = z + (y - z)
  BY <1>5
<1>7. P(y - z)
  BY <1>4, <1>6
<1> QED BY <1>6, <1>7 DEF P

LEMMA MonthUpFinds ==
  ASSUME NEW y \in Int, NEW m \in 1..12, NEW d \in Int,
         1 <= d, d <= DaysInMonth(m, y),
         NEW p \in Loop, p[1] \in 1..m,
         p[2] = MonthStart(m, y) - MonthStart(p[1], y) + d
  PROVE  MonthUp(y)[p][1] = m /\ MonthUp(y)[p][2] = d
<1> DEFINE P(i) == \A s \in Loop :
                     /\ 1 <= s[1] /\ s[1] = m - i
                     /\ s[2] = MonthStart(m, y) - MonthStart(s[1], y) + d
                     => MonthUp(y)[s][1] = m /\ MonthUp(y)[s][2] = d
           S == {i \in Nat : P(i)}
<1>1. P(0)
  <2> SUFFICES ASSUME NEW s \in Loop, s[1] = m - 0,
                      s[2] = MonthStart(m, y) - MonthStart(s[1], y) + d
               PROVE  MonthUp(y)[s][1] = m /\ MonthUp(y)[s][2] = d
    OBVIOUS
  <2>1. MonthStart(m, y) \in Int /\ DaysInMonth(m, y) \in Int
    BY MonthStep
  <2>2. s[1] = m
    OBVIOUS
  <2>3. s[2] = d
    BY <2>1, <2>2
  <2>4. MonthUp(y)[s] = s
    BY <2>1, <2>2, <2>3, MonthUpLoop
  <2> QED BY <2>2, <2>3, <2>4
<1>2. ASSUME NEW i \in Nat, P(i) PROVE P(i + 1)
  <2> SUFFICES ASSUME NEW s \in Loop, 1 <= s[1], s[1] = m - (i + 1),
                      s[2] = MonthStart(m, y) - MonthStart(s[1], y) + d
               PROVE  MonthUp(y)[s][1] = m /\ MonthUp(y)[s][2] = d
    OBVIOUS
  <2>1. PICK k \in 1..12 : k = s[1] /\ k + 1 = m - i /\ k + 1 \in 1..13 /\ m \in (k + 1)..13
    BY LoopPairs
  <2>2. PICK length \in Int : length = DaysInMonth(k, y)
    BY MonthStep
  <2>3. MonthStart(k, y) \in Int /\ MonthStart(k + 1, y) = MonthStart(k, y) + length
    BY <2>2, MonthStep
  <2>4. MonthStart(m, y) \in Int
    BY MonthStep
  <2>5. MonthStart(k + 1, y) <= MonthStart(m, y)
    BY <2>1, MonthsGrow
  <2>6. s[2] \in Int /\ s[2] > length
    BY <2>1, <2>3, <2>4, <2>5
  <2>7. PICK q \in Loop : q[1] = k + 1 /\ q[2] = s[2] - length
    BY <2>6, LoopNumbers
  <2>8. MonthUp(y)[s] = MonthUp(y)[q]
    BY <2>1, <2>2, <2>6, <2>7, MonthUpLoop
  <2>9. q[1] = m - i /\ 1 <= q[1]
    BY <2>1, <2>7
  <2>10. q[2] = MonthStart(m, y) - MonthStart(k + 1, y) + d
    BY <2>1, <2>3, <2>4, <2>7
  <2>11. MonthUp(y)[q][1] = m /\ MonthUp(y)[q][2] = d
    BY <1>2, <2>7, <2>9, <2>10
  <2> QED BY <2>8, <2>11
<1> HIDE DEF P
<1>3. S = Nat
  <2>1. 0 \in S /\ S \subseteq Nat /\ \A i \in S : i + 1 \in S
    BY <1>1, <1>2
  <2> HIDE DEF S
  <2> QED BY <2>1, SetInduction
<1>4. \A i \in Nat : P(i)
  BY <1>3
<1>5. PICK k \in 1..m : k = p[1]
  OBVIOUS
<1>6. m - k \in Nat /\ p[1] = m - (m - k) /\ 1 <= p[1]
  BY <1>5
<1>7. P(m - k)
  BY <1>4, <1>6
<1> QED BY <1>6, <1>7 DEF P

LEMMA MonthDownFinds ==
  ASSUME NEW y \in Int, NEW m \in 1..12, NEW d \in Int,
         1 <= d, d <= DaysInMonth(m, y),
         NEW p \in Loop, p[1] \in m..12,
         p[2] = MonthStart(m, y) + d - 1 - MonthStart(p[1] + 1, y)
  PROVE  MonthDown(y)[p][1] = m /\ MonthDown(y)[p][2] = d - 1 - DaysInMonth(m, y)
<1> DEFINE P(i) == \A s \in Loop :
                     /\ s[1] <= 12 /\ s[1] = m + i
                     /\ s[2] = MonthStart(m, y) + d - 1 - MonthStart(s[1] + 1, y)
                     => /\ MonthDown(y)[s][1] = m
                        /\ MonthDown(y)[s][2] = d - 1 - DaysInMonth(m, y)
           S == {i \in Nat : P(i)}
<1>1. P(0)
  <2> SUFFICES ASSUME NEW s \in Loop, s[1] = m + 0,
                      s[2] = MonthStart(m, y) + d - 1 - MonthStart(s[1] + 1, y)
               PROVE  /\ MonthDown(y)[s][1] = m
                      /\ MonthDown(y)[s][2] = d - 1 - DaysInMonth(m, y)
    OBVIOUS
  <2>1. /\ MonthStart(m, y) \in Int /\ DaysInMonth(m, y) \in Int
        /\ MonthStart(m + 1, y) = MonthStart(m, y) + DaysInMonth(m, y)
    BY MonthStep
  <2>2. s[1] = m
    OBVIOUS
  <2>3. s[2] = d - 1 - DaysInMonth(m, y)
    BY <2>1, <2>2
  <2>4. MonthDown(y)[s] = s
    BY <2>1, <2>2, <2>3, MonthDownLoop
  <2> QED BY <2>2, <2>3, <2>4
<1>2. ASSUME NEW i \in Nat, P(i) PROVE P(i + 1)
  <2> SUFFICES ASSUME NEW s \in Loop, s[1] <= 12, s[1] = m + (i + 1),
                      s[2] = MonthStart(m, y) + d - 1 - MonthStart(s[1] + 1, y)
               PROVE  /\ MonthDown(y)[s][1] = m
                      /\ MonthDown(y)[s][2] = d - 1 - DaysInMonth(m, y)
    OBVIOUS
  <2>1. PICK k \in 1..12 : k = s[1] /\ k - 1 = m + i /\ m + 1 \in 1..13 /\ k \in (m + 1)..13
    BY LoopPairs
  <2>2. PICK length \in Int : length = DaysInMonth(k, y)
    BY MonthStep
  <2>3. MonthStart(k, y) \in Int /\ MonthStart(k + 1, y) = MonthStart(k, y) + length
    BY <2>2, MonthStep
  <2>4. /\ MonthStart(m, y) \in Int /\ DaysInMonth(m, y) \in Int
        /\ MonthStart(m + 1, y) = MonthStart(m, y) + DaysInMonth(m, y)
    BY MonthStep
  <2>5. MonthStart(m + 1, y) <= MonthStart(k, y)
    BY <2>1, MonthsGrow
  <2>6. s[2] \in Int /\ s[2] + length < 0
    BY <2>1, <2>3, <2>4, <2>5
  <2>7. PICK q \in Loop : q[1] = k - 1 /\ q[2] = s[2] + length
    BY <2>6, LoopNumbers
  <2>8. MonthDown(y)[s] = MonthDown(y)[q]
    BY <2>1, <2>2, <2>6, <2>7, MonthDownLoop
  <2>9. q[1] = m + i /\ q[1] <= 12 /\ q[1] + 1 = k
    BY <2>1, <2>7
  <2>10. q[2] = MonthStart(m, y) + d - 1 - MonthStart(k, y)
    BY <2>1, <2>3, <2>4, <2>7
  <2>11. /\ MonthDown(y)[q][1] = m
         /\ MonthDown(y)[q][2] = d - 1 - DaysInMonth(m, y)
    BY <1>2, <2>7, <2>9, <2>10
  <2> QED BY <2>8, <2>11
<1> HIDE DEF P
<1>3. S = Nat
  <2>1. 0 \in S /\ S \subseteq Nat /\ \A i \in S : i + 1 \in S
    BY <1>1, <1>2
  <2> HIDE DEF S
  <2> QED BY <2>1, SetInduction
<1>4. \A i \in Nat : P(i)
  BY <1>3
<1>5. PICK k \in m..12 : k = p[1]
  OBVIOUS
<1>6. k - m \in Nat /\ p[1] = m + (k - m) /\ p[1] <= 12
  BY <1>5
<1>7. P(k - m)
  BY <1>4, <1>6
<1> QED BY <1>6, <1>7 DEF P

-----------------------------------------------------------------------------
(* The day numbers of dates.                                                  *)

\* The dates of all years.
AllDates == {a \in [d : Int, m : Int, y : Int] : Valid(a)}

(* A date is a day of its year.                                               *)
LEMMA DateParts ==
  ASSUME NEW a \in AllDates
  PROVE  /\ a.y \in Int /\ a.m \in 1..12 /\ a.d \in Int
         /\ 1 <= a.d /\ a.d <= DaysInMonth(a.m, a.y)
         /\ 1 <= MonthStart(a.m, a.y) + a.d
         /\ MonthStart(a.m, a.y) + a.d <= DaysInYear(a.y)
<1>1. a.y \in Int /\ a.m \in 1..12 /\ a.d \in Int /\ DaysInMonth(a.m, a.y) \in Int
  BY MonthLength DEF AllDates, Valid, IsDate
<1>2. 1 <= a.d /\ a.d <= DaysInMonth(a.m, a.y)
  BY <1>1 DEF AllDates, Valid, IsDate
<1>3. PICK y \in Int, m \in 1..12 : y = a.y /\ m = a.m
  BY <1>1
<1>4. /\ MonthStart(m, y) \in Int /\ 0 <= MonthStart(m, y)
      /\ MonthStart(m + 1, y) = MonthStart(m, y) + DaysInMonth(m, y)
  BY MonthStep
<1>5. MonthStart(m + 1, y) <= MonthStart(13, y)
  BY MonthsGrow
<1>6. MonthStart(13, y) = DaysInYear(y) /\ DaysInYear(y) \in Int
  BY MonthEnds, YearStep
<1> QED BY <1>1, <1>2, <1>3, <1>4, <1>5, <1>6

(* Ordinals are positive from 1970 on.                                        *)
LEMMA EpochDivides ==
  ASSUME NEW a \in AllDates
  PROVE  Ordinal(a) \in Int /\ (Ordinal(a) > 0 <=> a.y >= 1970)
<1>1. PICK y \in Int : y = a.y
  BY DateParts
<1>2. PICK n \in Int : n = MonthStart(a.m, y) + a.d /\ 1 <= n /\ n <= DaysInYear(y)
  <2>1. MonthStart(a.m, y) \in Int
    BY <1>1, DateParts, MonthStep
  <2> QED BY <1>1, <2>1, DateParts
<1>3. Ordinal(a) = YearStart(y) + n - DaysToEpoch
  <2>1. Ordinal(a) = YearStart(y) + MonthStart(a.m, y) + a.d - DaysToEpoch
    BY <1>1, DateParts, OrdinalOf
  <2>2. MonthStart(a.m, y) \in Int /\ YearStart(y) \in Int /\ a.d \in Int
    BY <1>1, DateParts, MonthStep, YearStartType
  <2> QED BY <1>2, <2>1, <2>2, Epoch
<1>4. /\ YearStart(y) \in Int /\ DaysInYear(y) \in Int
      /\ YearStart(y + 1) = YearStart(y) + DaysInYear(y)
  BY YearStep, YearStartType
<1>5. CASE y >= 1970
  <2>1. DaysToEpoch <= YearStart(y)
    BY <1>5, YearsGrow, Epoch
  <2> QED BY <1>1, <1>2, <1>3, <1>4, <1>5, <2>1, Epoch
<1>6. CASE y < 1970
  <2>1. YearStart(y + 1) <= DaysToEpoch
    BY <1>6, YearsGrow, Epoch
  <2> QED BY <1>1, <1>2, <1>3, <1>4, <1>6, <2>1, Epoch
<1> QED BY <1>5, <1>6

(* The loops over the months, as date_to_days enters them.                    *)
LEMMA MonthBeforeDecember ==
  ASSUME NEW y \in Int, NEW m \in Int, 1 <= m, m <= 12, NEW p \in Loop, p[1] = 12
  PROVE  \E k \in Int : k = MonthStart(m, y) /\ TakeMonths(y, m)[p][2] = p[2] - (DaysInYear(y) - k)
<1>1. p[1] + 1 = 13 /\ p[1] \in (m - 1)..12 /\ m \in 1..12
  OBVIOUS
<1>2. TakeMonths(y, m)[p][2] = p[2] - (MonthStart(p[1] + 1, y) - MonthStart(m, y))
  BY <1>1, TakeMonthsSum
<1>3. MonthStart(p[1] + 1, y) = DaysInYear(y)
  BY <1>1, MonthEnds
<1>4. MonthStart(m, y) \in Int
  BY <1>1, MonthStep
<1> QED BY <1>2, <1>3, <1>4

LEMMA MonthAfterJanuary ==
  ASSUME NEW y \in Int, NEW m \in Int, 1 <= m, m <= 12, NEW p \in Loop, p[1] = m - 1
  PROVE  MonthStart(m, y) \in Int /\ AddMonths(y)[p][2] = p[2] + MonthStart(m, y)
<1>1. p[1] + 1 = m /\ p[1] \in 0..12 /\ m \in 1..12
  OBVIOUS
<1>2. MonthStart(m, y) \in Int
  BY <1>1, MonthStep
<1> QED BY <1>1, <1>2, AddMonthsSum

(* date_to_days from 1970 on is late by a day in the leap years.              *)
LEMMA DateToDaysFromEpoch ==
  ASSUME NEW a \in AllDates, a.y >= 1970
  PROVE  DateToDays(a) = Ordinal(a) + DaysInYear(a.y) - 365
<1>1. PICK y \in Int, m \in Int, d \in Int :
        y = a.y /\ m = a.m /\ d = a.d /\ 1 <= m /\ m <= 12 /\ y >= 1970
  BY DateParts
<1>2. PICK j \in Int : j = m - 1
  OBVIOUS
<1>3. PICK p \in Loop : p = <<j, d>> /\ p[1] = j /\ p[2] = d
  BY LoopNumbers
<1>4. PICK k \in Int : k = MonthStart(m, y) /\ AddMonths(y)[p][2] = d + k
  <2>1. p[1] = m - 1
    BY <1>2, <1>3
  <2>2. MonthStart(m, y) \in Int /\ AddMonths(y)[p][2] = p[2] + MonthStart(m, y)
    BY <1>1, <2>1, MonthAfterJanuary
  <2> QED BY <1>3, <2>2
<1>5. PICK n \in Int : n = AddMonths(y)[p][2] /\ n = d + k
  BY <1>4
<1>6. PICK q \in Loop : q = <<y, n>> /\ q[1] = y /\ q[2] = n
  BY LoopNumbers
<1>7. AddYears[q][2] = n + YearStart(y + 1) - YearStart(1971)
  BY <1>1, <1>6, AddYearsSum
<1>8. DateToDays(a) = AddYears[q][2]
  BY <1>1, <1>2, <1>3, <1>5, <1>6 DEF DateToDays
<1>9. Ordinal(a) = YearStart(y) + k + d - DaysToEpoch
  BY <1>1, <1>4, DateParts, OrdinalOf
<1>10. /\ YearStart(y) \in Int /\ DaysInYear(y) \in Int
       /\ YearStart(y + 1) = YearStart(y) + DaysInYear(y)
  BY YearStep, YearStartType
<1>11. n + YearStart(y + 1) - YearStart(1971)
         = YearStart(y) + k + d - DaysToEpoch + DaysInYear(y) - 365
  BY <1>5, <1>10, Epoch
<1> QED BY <1>1, <1>7, <1>8, <1>9, <1>11

(* Before 1970 it is right.                                                   *)
LEMMA DateToDaysBeforeEpoch ==
  ASSUME NEW a \in AllDates, a.y < 1970
  PROVE  DateToDays(a) = Ordinal(a) - 1
<1>1. PICK y \in Int, m \in Int, d \in Int :
        y = a.y /\ m = a.m /\ d = a.d /\ 1 <= m /\ m <= 12 /\ y < 1970
  BY DateParts
<1>2. PICK l \in Int : l = DaysInYear(y)
  BY YearStep
<1>3. PICK j \in Int : j = d - 1
  OBVIOUS
<1>4. PICK p \in Loop : p = <<12, j>> /\ p[1] = 12 /\ p[2] = j
  BY LoopNumbers
<1>5. PICK k \in Int : k = MonthStart(m, y) /\ TakeMonths(y, m)[p][2] = j - (l - k)
  BY <1>1, <1>2, <1>4, MonthBeforeDecember
<1>6. PICK n \in Int : n = TakeMonths(y, m)[p][2] /\ n = j - (l - k)
  BY <1>5
<1>7. PICK z \in Int : z = y + 1 /\ z <= 1970
  BY <1>1
<1>8. PICK q \in Loop : q = <<z, n>> /\ q[1] = z /\ q[2] = n
  BY LoopNumbers
<1>9. TakeYears[q][2] = n - (DaysToEpoch - YearStart(z))
  BY <1>7, <1>8, TakeYearsSum, Epoch
<1>10. DateToDays(a) = TakeYears[q][2]
  BY <1>1, <1>3, <1>4, <1>6, <1>7, <1>8 DEF DateToDays
<1>11. Ordinal(a) = YearStart(y) + k + d - DaysToEpoch
  BY <1>1, <1>5, DateParts, OrdinalOf
<1>12. YearStart(y) \in Int /\ YearStart(z) = YearStart(y) + l
  BY <1>2, <1>7, YearStep, YearStartType
<1>13. n - (DaysToEpoch - YearStart(z)) = YearStart(y) + k + d - DaysToEpoch - 1
  BY <1>3, <1>6, <1>12, Epoch
<1> QED BY <1>9, <1>10, <1>11, <1>12, <1>13, Epoch

LEMMA MonthFromDecember ==
  ASSUME NEW y \in Int, NEW m \in Int, 1 <= m, m <= 12, NEW d \in Int, 1 <= d, d <= DaysInMonth(m, y),
         NEW p \in Loop, p[1] = 12, p[2] = MonthStart(m, y) + d - 1 - DaysInYear(y)
  PROVE  MonthDown(y)[p][1] = m /\ MonthDown(y)[p][2] = d - 1 - DaysInMonth(m, y)
<1>1. p[1] \in m..12 /\ p[1] + 1 = 13 /\ m \in 1..12
  OBVIOUS
<1>2. p[2] = MonthStart(m, y) + d - 1 - MonthStart(p[1] + 1, y)
  BY <1>1, MonthEnds
<1> QED BY <1>1, <1>2, MonthDownFinds

(* days_to_date gives the date whose day number it is called with, whatever   *)
(* the date (Chrono.cpp:221-273).                                             *)
LEMMA DaysToDateIsRight ==
  ASSUME NEW a \in AllDates
  PROVE  DaysToDate(DayNumber(Ordinal(a))) = a
<1>1. PICK y \in Int, m \in 1..12, d \in Int :
        y = a.y /\ m = a.m /\ d = a.d /\ 1 <= d /\ d <= DaysInMonth(m, y)
  BY DateParts
<1>2. PICK k \in Int : k = MonthStart(m, y)
  <2>1. m \in 1..13
    OBVIOUS
  <2> QED BY <2>1, MonthStartType
<1>3. PICK l \in Int : l = DaysInYear(y) /\ 1 <= k + d /\ k + d <= l
  BY <1>1, <1>2, DateParts, YearStep
<1>4. PICK s \in Int : s = YearStart(y) /\ YearStart(y + 1) = s + l
  BY <1>3, YearStartType, YearStep
<1>5. PICK e \in Int : e = DaysToEpoch /\ Ordinal(a) = s + k + d - e
  BY <1>1, <1>2, <1>4, OrdinalOf, Epoch
<1>6. NewDate(d, m, y) = a
  BY <1>1 DEF NewDate, Date, IsDate, AllDates
<1>7. CASE y >= 1970
  <2>1. PICK n \in Int : n = DayNumber(Ordinal(a)) /\ n = s + k + d - e /\ n >= 0
    <3>1. s + k + d - e > 0
      BY <1>1, <1>5, <1>7, EpochDivides
    <3> QED BY <1>5, <3>1 DEF DayNumber
  <2>2. PICK r \in Int : r = k + d /\ 1 <= r /\ r <= l /\ n = s - e + r
    BY <1>3, <2>1
  <2>3. PICK p \in Loop : p = <<1970, n>> /\ p[1] = 1970 /\ p[2] = n
    BY LoopNumbers
  <2>4. YearUp[p][1] = y /\ YearUp[p][2] = r
    BY <1>3, <1>4, <1>5, <1>7, <2>2, <2>3, YearUpFinds, Epoch
  <2>5. PICK q \in Loop : q = <<1, r>> /\ q[1] = 1 /\ q[2] = r
    BY LoopNumbers
  <2>6. MonthUp(y)[q][1] = m /\ MonthUp(y)[q][2] = d
    <3>1. q[1] \in 1..m /\ q[2] = MonthStart(m, y) - MonthStart(q[1], y) + d
      BY <1>2, <2>2, <2>5, MonthEnds
    <3> QED BY <1>1, <3>1, MonthUpFinds
  <2>7. DaysToDate(n) = NewDate(d, m, y)
    BY <2>1, <2>3, <2>4, <2>5, <2>6 DEF DaysToDate
  <2> QED BY <1>6, <2>1, <2>7
<1>8. CASE y < 1970
  <2>1. PICK n \in Int : n = DayNumber(Ordinal(a)) /\ n = s + k + d - e - 1 /\ n < 0
    <3>1. s + k + d - e <= 0
      BY <1>1, <1>5, <1>8, EpochDivides
    <3> QED BY <1>5, <3>1 DEF DayNumber
  <2>2. PICK r \in Int : r = l - k - d + 1 /\ 1 <= r /\ r <= l /\ n = (s + l) - e - r
    BY <1>3, <2>1
  <2>3. PICK p \in Loop : p = <<1969, n>> /\ p[1] = 1969 /\ p[2] = n
    BY LoopNumbers
  <2>4. YearDown[p][1] = y /\ YearDown[p][2] = -r
    <3>1. p[1] + 1 = 1970 /\ p[1] >= y
      BY <1>8, <2>3
    <3>2. p[2] = -(YearStart(p[1] + 1) - YearStart(y + 1)) - r
      BY <1>4, <1>5, <2>2, <2>3, <3>1, Epoch
    <3> QED BY <1>3, <2>2, <3>1, <3>2, YearDownFinds
  <2>5. PICK t \in Int : t = -r /\ t = k + d - 1 - l
    BY <2>2
  <2>6. PICK q \in Loop : q = <<12, t>> /\ q[1] = 12 /\ q[2] = t
    BY LoopNumbers
  <2>7. PICK c \in Int : c = DaysInMonth(m, y)
    BY MonthStep
  <2>8. MonthDown(y)[q][1] = m /\ MonthDown(y)[q][2] = d - 1 - c
    <3>1. 1 <= m /\ m <= 12
      OBVIOUS
    <3> QED BY <1>1, <3>1, <1>2, <1>3, <2>5, <2>6, <2>7, MonthFromDecember
  <2>9. (d - 1 - c) + c + 1 = d
    OBVIOUS
  <2>10. DaysToDate(n) = NewDate(d, m, y)
    BY <2>1, <2>3, <2>4, <2>5, <2>6, <2>7, <2>8, <2>9 DEF DaysToDate
  <2> QED BY <1>6, <2>1, <2>10
<1> QED BY <1>7, <1>8

(* The date of three numbers, and the numbers of a date.                      *)
LEMMA ADate ==
  ASSUME NEW y \in Int, NEW m \in Int, 1 <= m, m <= 12,
         NEW d \in Int, 1 <= d, d <= DaysInMonth(m, y)
  PROVE  /\ Date(d, m, y) \in AllDates
         /\ Ordinal(Date(d, m, y)) = YearStart(y) + MonthStart(m, y) + d - DaysToEpoch
<1> DEFINE a == Date(d, m, y)
<1>1. a.y = y /\ a.m = m /\ a.d = d /\ a \in [d : Int, m : Int, y : Int]
  BY DEF Date
<1>2. m \in 1..12
  OBVIOUS
<1> HIDE DEF a
<1>3. DaysInMonth(m, y) \in Int
  BY <1>2, MonthStep
<1>4. a \in AllDates
  BY <1>1, <1>2, <1>3 DEF AllDates, Valid, IsDate
<1>5. Ordinal(a) = YearStart(y) + MonthStart(m, y) + d - DaysToEpoch
  BY <1>1, <1>2, OrdinalOf
<1> QED BY <1>4, <1>5 DEF a

LEMMA DateNumbers ==
  ASSUME NEW a \in AllDates
  PROVE  \E y, m, d \in Int :
           /\ y = a.y /\ m = a.m /\ d = a.d /\ 1 <= m /\ m <= 12
           /\ 1 <= d /\ d <= DaysInMonth(m, y)
           /\ Ordinal(a) = YearStart(y) + MonthStart(m, y) + d - DaysToEpoch
<1>1. /\ a.y \in Int /\ a.m \in Int /\ a.d \in Int /\ a.m \in 1..12
      /\ 1 <= a.d /\ a.d <= DaysInMonth(a.m, a.y)
  BY DateParts
<1>2. Ordinal(a) = YearStart(a.y) + MonthStart(a.m, a.y) + a.d - DaysToEpoch
  BY <1>1, OrdinalOf
<1>3. 1 <= a.m /\ a.m <= 12
  BY <1>1
<1> QED BY <1>1, <1>2, <1>3

LEMMA AMonth ==
  ASSUME NEW y \in Int, NEW m \in Int, 1 <= m, m <= 12
  PROVE  /\ DaysInMonth(m, y) \in Int /\ 28 <= DaysInMonth(m, y)
         /\ MonthStart(m, y) \in Int
         /\ MonthStart(m + 1, y) = MonthStart(m, y) + DaysInMonth(m, y)
<1>1. m \in 1..12
  OBVIOUS
<1> QED BY <1>1, MonthStep

(* Every date has a next one, in its month, its year or the next year, and one*)
(* before it.                                                                 *)
LEMMA Tomorrow ==
  ASSUME NEW a \in AllDates
  PROVE  \E b \in AllDates : Ordinal(b) = Ordinal(a) + 1
<1>1. PICK y, m, d \in Int :
        /\ y = a.y /\ m = a.m /\ d = a.d /\ 1 <= m /\ m <= 12
        /\ 1 <= d /\ d <= DaysInMonth(m, y)
        /\ Ordinal(a) = YearStart(y) + MonthStart(m, y) + d - DaysToEpoch
  BY DateNumbers
<1>2. PICK s \in Int : s = YearStart(y)
  BY YearStartType
<1>3. PICK e \in Int : e = DaysToEpoch
  BY Epoch
<1>4. PICK l \in Int : l = DaysInMonth(m, y) /\ MonthStart(m + 1, y) = MonthStart(m, y) + l
  <2>1. 1 <= m /\ m <= 12
    BY <1>1
  <2>2. /\ DaysInMonth(m, y) \in Int
        /\ MonthStart(m + 1, y) = MonthStart(m, y) + DaysInMonth(m, y)
    BY <2>1, AMonth
  <2> QED BY <2>2
<1>5. PICK k \in Int : k = MonthStart(m, y)
  BY <1>1, AMonth
<1>6. CASE d < l
  <2>1. PICK x \in Int : x = d + 1 /\ 1 <= x /\ x <= l
    BY <1>1, <1>6
  <2>2. x <= DaysInMonth(m, y)
    BY <1>4, <2>1
  <2>3. /\ Date(x, m, y) \in AllDates
        /\ Ordinal(Date(x, m, y)) = YearStart(y) + MonthStart(m, y) + x - DaysToEpoch
    BY <1>1, <2>1, <2>2, ADate
  <2>4. YearStart(y) + MonthStart(m, y) + x - DaysToEpoch = Ordinal(a) + 1
    BY <1>1, <1>2, <1>3, <1>5, <2>1
  <2> QED BY <2>3, <2>4
<1>7. CASE d = l /\ m < 12
  <2>1. PICK n \in Int : n = m + 1 /\ 1 <= n /\ n <= 12
    BY <1>1, <1>7
  <2>2. 1 <= DaysInMonth(n, y)
    BY <2>1, AMonth
  <2>3. /\ Date(1, n, y) \in AllDates
        /\ Ordinal(Date(1, n, y)) = YearStart(y) + MonthStart(n, y) + 1 - DaysToEpoch
    BY <2>1, <2>2, ADate
  <2>4. YearStart(y) + MonthStart(n, y) + 1 - DaysToEpoch = Ordinal(a) + 1
    BY <1>1, <1>2, <1>3, <1>4, <1>5, <1>7, <2>1
  <2> QED BY <2>3, <2>4
<1>8. CASE d = l /\ m = 12
  <2>1. PICK z \in Int : z = y + 1
    BY <1>1
  <2>2. m + 1 = 13 /\ MonthStart(13, y) = DaysInYear(y)
    BY <1>8, MonthEnds
  <2>3. YearStart(z) = s + (k + l)
    BY <1>2, <1>4, <1>5, <2>1, <2>2, YearStep
  <2>4. PICK i \in Int : i = 1 /\ 1 <= i /\ i <= 12
    OBVIOUS
  <2>5. MonthStart(i, z) = 0 /\ 1 <= DaysInMonth(i, z)
    BY <2>4, MonthEnds, AMonth
  <2>6. /\ Date(1, i, z) \in AllDates
        /\ Ordinal(Date(1, i, z)) = YearStart(z) + MonthStart(i, z) + 1 - DaysToEpoch
    BY <2>4, <2>5, ADate
  <2>7. YearStart(z) + MonthStart(i, z) + 1 - DaysToEpoch = Ordinal(a) + 1
    <3>1. Ordinal(a) = s + k + l - e
      BY <1>1, <1>2, <1>3, <1>5, <1>8
    <3>2. YearStart(z) + MonthStart(i, z) + 1 - DaysToEpoch = (s + (k + l)) + 0 + 1 - e
      BY <1>3, <2>3, <2>5
    <3> QED BY <3>1, <3>2
  <2> QED BY <2>6, <2>7
<1> QED BY <1>1, <1>4, <1>6, <1>7, <1>8

LEMMA Yesterday ==
  ASSUME NEW a \in AllDates
  PROVE  \E b \in AllDates : Ordinal(b) = Ordinal(a) - 1
<1>1. PICK y, m, d \in Int :
        /\ y = a.y /\ m = a.m /\ d = a.d /\ 1 <= m /\ m <= 12
        /\ 1 <= d /\ d <= DaysInMonth(m, y)
        /\ Ordinal(a) = YearStart(y) + MonthStart(m, y) + d - DaysToEpoch
  BY DateNumbers
<1>2. PICK s \in Int : s = YearStart(y)
  BY YearStartType
<1>3. PICK e \in Int : e = DaysToEpoch
  BY Epoch
<1>4. PICK k \in Int : k = MonthStart(m, y)
  BY <1>1, AMonth
<1>5. CASE d > 1
  <2>1. PICK x \in Int : x = d - 1 /\ 1 <= x
    BY <1>5
  <2>2. DaysInMonth(m, y) \in Int
    BY <1>1, AMonth
  <2>3. x <= DaysInMonth(m, y)
    BY <1>1, <2>1, <2>2
  <2>4. /\ Date(x, m, y) \in AllDates
        /\ Ordinal(Date(x, m, y)) = YearStart(y) + MonthStart(m, y) + x - DaysToEpoch
    BY <1>1, <2>1, <2>3, ADate
  <2>5. YearStart(y) + MonthStart(m, y) + x - DaysToEpoch = Ordinal(a) - 1
    BY <1>1, <1>2, <1>3, <1>4, <2>1
  <2> QED BY <2>4, <2>5
<1>6. CASE d = 1 /\ m > 1
  <2>1. PICK n \in Int : n = m - 1 /\ n + 1 = m /\ 1 <= n /\ n <= 12
    BY <1>1, <1>6
  <2>2. PICK c \in Int : c = DaysInMonth(n, y) /\ 28 <= c
    BY <2>1, AMonth
  <2>3. PICK o \in Int : o = MonthStart(n, y) /\ MonthStart(n + 1, y) = o + c
    BY <2>1, <2>2, AMonth
  <2>4. 1 <= c /\ c <= DaysInMonth(n, y)
    BY <2>2
  <2>5. /\ Date(c, n, y) \in AllDates
        /\ Ordinal(Date(c, n, y)) = YearStart(y) + MonthStart(n, y) + c - DaysToEpoch
    BY <2>1, <2>4, ADate
  <2>6. YearStart(y) + MonthStart(n, y) + c - DaysToEpoch = Ordinal(a) - 1
    BY <1>1, <1>2, <1>3, <1>4, <1>6, <2>1, <2>2, <2>3
  <2> QED BY <2>5, <2>6
<1>7. CASE d = 1 /\ m = 1
  <2>1. PICK z \in Int : z = y - 1 /\ z + 1 = y
    BY <1>1
  <2>2. PICK n \in Int : n = 12 /\ 1 <= n /\ n <= 12 /\ n + 1 = 13
    OBVIOUS
  <2>3. PICK c \in Int : c = DaysInMonth(n, z) /\ 28 <= c
    BY <2>2, AMonth
  <2>4. PICK o \in Int : o = MonthStart(n, z) /\ MonthStart(n + 1, z) = o + c
    BY <2>2, <2>3, AMonth
  <2>5. PICK t \in Int : t = YearStart(z)
    BY YearStartType
  <2>6. s = t + (o + c) /\ k = 0
    BY <1>2, <1>4, <1>7, <2>1, <2>2, <2>4, <2>5, MonthEnds, YearStep
  <2>7. 1 <= c /\ c <= DaysInMonth(n, z)
    BY <2>3
  <2>8. /\ Date(c, n, z) \in AllDates
        /\ Ordinal(Date(c, n, z)) = YearStart(z) + MonthStart(n, z) + c - DaysToEpoch
    BY <2>2, <2>7, ADate
  <2>9. YearStart(z) + MonthStart(n, z) + c - DaysToEpoch = Ordinal(a) - 1
    BY <1>1, <1>2, <1>3, <1>4, <1>7, <2>4, <2>5, <2>6
  <2> QED BY <2>8, <2>9
<1> QED BY <1>1, <1>5, <1>6, <1>7

LEMMA TheEpoch == \E a \in AllDates : Ordinal(a) = 1
<1>1. PICK m \in Int : m = 1 /\ 1 <= m /\ m <= 12
  OBVIOUS
<1>2. PICK y \in Int : y = 1970
  OBVIOUS
<1>3. MonthStart(m, y) = 0 /\ 1 <= DaysInMonth(m, y)
  BY <1>1, MonthEnds, AMonth
<1>4. /\ Date(1, m, y) \in AllDates
      /\ Ordinal(Date(1, m, y)) = YearStart(y) + MonthStart(m, y) + 1 - DaysToEpoch
  BY <1>1, <1>3, ADate
<1>5. YearStart(y) + MonthStart(m, y) + 1 - DaysToEpoch = 1
  BY <1>2, <1>3, Epoch
<1> QED BY <1>4, <1>5

(* Hence every whole number is the ordinal of a date.                         *)
LEMMA EveryDayHasADate ==
  ASSUME NEW n \in Int
  PROVE  \E a \in AllDates : Ordinal(a) = n
<1> DEFINE P(i) == /\ \E a \in AllDates : Ordinal(a) = 1 + i
                   /\ \E a \in AllDates : Ordinal(a) = 1 - i
           S == {i \in Nat : P(i)}
<1>1. P(0)
  BY TheEpoch
<1>2. ASSUME NEW i \in Nat, P(i) PROVE P(i + 1)
  <2>1. PICK a \in AllDates : Ordinal(a) = 1 + i
    BY <1>2
  <2>2. PICK b \in AllDates : Ordinal(b) = (1 + i) + 1
    BY <2>1, Tomorrow
  <2>3. PICK c \in AllDates : Ordinal(c) = 1 - i
    BY <1>2
  <2>4. PICK d \in AllDates : Ordinal(d) = (1 - i) - 1
    BY <2>3, Yesterday
  <2>5. (1 + i) + 1 = 1 + (i + 1) /\ (1 - i) - 1 = 1 - (i + 1)
    OBVIOUS
  <2> QED BY <2>2, <2>4, <2>5
<1> HIDE DEF P
<1>3. S = Nat
  <2>1. 0 \in S /\ S \subseteq Nat /\ \A i \in S : i + 1 \in S
    BY <1>1, <1>2
  <2> HIDE DEF S
  <2> QED BY <2>1, SetInduction
<1>4. \A i \in Nat : P(i)
  BY <1>3
<1>5. CASE n >= 1
  <2>1. n - 1 \in Nat /\ 1 + (n - 1) = n
    BY <1>5
  <2>2. P(n - 1)
    BY <1>4, <2>1
  <2> QED BY <2>1, <2>2 DEF P
<1>6. CASE n < 1
  <2>1. 1 - n \in Nat /\ 1 - (1 - n) = n
    BY <1>6
  <2>2. P(1 - n)
    BY <1>4, <2>1
  <2> QED BY <2>1, <2>2 DEF P
<1> QED BY <1>5, <1>6

(* operator< is the order of the ordinals (Chrono.cpp:109-147).               *)
LEMMA BeforeIsLess ==
  ASSUME NEW a \in AllDates, NEW b \in AllDates, Before(a, b)
  PROVE  Ordinal(a) < Ordinal(b)
<1>1. PICK y, m, d \in Int :
        /\ y = a.y /\ m = a.m /\ d = a.d /\ 1 <= m /\ m <= 12
        /\ 1 <= d /\ d <= DaysInMonth(m, y)
        /\ Ordinal(a) = YearStart(y) + MonthStart(m, y) + d - DaysToEpoch
  BY DateNumbers
<1>2. PICK z, o, c \in Int :
        /\ z = b.y /\ o = b.m /\ c = b.d /\ 1 <= o /\ o <= 12
        /\ 1 <= c /\ c <= DaysInMonth(o, z)
        /\ Ordinal(b) = YearStart(z) + MonthStart(o, z) + c - DaysToEpoch
  BY DateNumbers
<1>3. PICK s \in Int : s = YearStart(y)
  BY YearStartType
<1>4. PICK t \in Int : t = YearStart(z)
  BY YearStartType
<1>5. PICK e \in Int : e = DaysToEpoch
  BY Epoch
<1>6. PICK k \in Int : k = MonthStart(m, y)
  BY <1>1, AMonth
<1>7. PICK j \in Int : j = MonthStart(o, z)
  BY <1>2, AMonth
<1>8. Ordinal(a) = s + k + d - e /\ Ordinal(b) = t + j + c - e
  BY <1>1, <1>2, <1>3, <1>4, <1>5, <1>6, <1>7
<1>9. CASE y < z
  <2>1. PICK x \in Int : x = y + 1 /\ x <= z
    BY <1>9
  <2>2. YearStart(x) <= t
    BY <1>4, <2>1, YearsGrow
  <2>3. PICK l \in Int : l = DaysInYear(y) /\ YearStart(x) = s + l
    BY <1>3, <2>1, YearStep
  <2>4. k + d <= l
    BY <1>1, <1>6, <2>3, DateParts
  <2>5. 1 <= j + c
    BY <1>2, <1>7, DateParts
  <2> QED BY <1>8, <2>2, <2>3, <2>4, <2>5
<1>10. CASE y = z /\ m < o
  <2>1. PICK n \in Int : n = m + 1 /\ n \in 1..13 /\ o \in n..13
    BY <1>1, <1>2, <1>10
  <2>2. MonthStart(n, y) <= MonthStart(o, y)
    BY <2>1, MonthsGrow
  <2>3. PICK x \in Int : x = DaysInMonth(m, y) /\ MonthStart(m + 1, y) = k + x
    <3>1. 1 <= m /\ m <= 12
      BY <1>1
    <3>2. /\ DaysInMonth(m, y) \in Int
          /\ MonthStart(m + 1, y) = MonthStart(m, y) + DaysInMonth(m, y)
      BY <3>1, AMonth
    <3> QED BY <1>6, <3>2
  <2>4. d <= x
    BY <1>1, <2>3
  <2>5. k + x <= j
    BY <1>7, <1>10, <2>1, <2>2, <2>3
  <2>6. s = t
    BY <1>3, <1>4, <1>10
  <2> QED BY <1>2, <1>8, <2>3, <2>4, <2>5, <2>6
<1>11. CASE y = z /\ m = o /\ d < c
  <2>1. s = t /\ k = j
    BY <1>3, <1>4, <1>6, <1>7, <1>11
  <2> QED BY <1>8, <1>11, <2>1
<1> QED BY <1>1, <1>2, <1>9, <1>10, <1>11 DEF Before

(* operator< orders the dates: of two different dates exactly one is before   *)
(* the other, and the order is transitive (Chrono.cpp:109-147).               *)
THEOREM OrderIsTotal ==
  ASSUME NEW a \in [d : Int, m : Int, y : Int],
         NEW b \in [d : Int, m : Int, y : Int],
         NEW c \in [d : Int, m : Int, y : Int]
  PROVE  /\ a = b \/ Before(a, b) \/ Before(b, a)
         /\ ~(Before(a, b) /\ Before(b, a)) /\ ~Before(a, a)
         /\ Before(a, b) /\ Before(b, c) => Before(a, c)
  BY DEF Before

(* days_to_date names a date for every day there is.                          *)
LEMMA DateOf ==
  ASSUME NEW n \in Int
  PROVE  \E a \in AllDates : Ordinal(a) = n /\ DaysToDate(DayNumber(n)) = a
  BY EveryDayHasADate, DaysToDateIsRight

LEMMA LessIsBefore ==
  ASSUME NEW a \in AllDates, NEW b \in AllDates, Ordinal(a) < Ordinal(b)
  PROVE  Before(a, b) /\ ~Before(b, a)
<1>1. Ordinal(a) \in Int /\ Ordinal(b) \in Int
  BY EpochDivides
<1>2. ~Before(b, a) /\ a # b
  BY <1>1, BeforeIsLess
<1>3. a \in [d : Int, m : Int, y : Int] /\ b \in [d : Int, m : Int, y : Int]
  BY DEF AllDates
<1>4. a = b \/ Before(a, b) \/ Before(b, a)
  BY <1>3 DEF Before
<1> QED BY <1>2, <1>4

(* date_to_days of any date.                                                  *)
LEMMA DateToDaysOf ==
  ASSUME NEW a \in AllDates
  PROVE  /\ Ordinal(a) > 0 =>
              DateToDays(a) = Ordinal(a) + (IF LeapYear(a.y) THEN 1 ELSE 0)
         /\ Ordinal(a) <= 0 => DateToDays(a) = Ordinal(a) - 1
<1>1. Ordinal(a) \in Int /\ (Ordinal(a) > 0 <=> a.y >= 1970) /\ a.y \in Int
  BY EpochDivides, DateParts
<1>2. CASE a.y >= 1970
  <2>1. DateToDays(a) = Ordinal(a) + DaysInYear(a.y) - 365
    BY <1>2, DateToDaysFromEpoch
  <2>2. DaysInYear(a.y) = 365 + (IF LeapYear(a.y) THEN 1 ELSE 0)
    BY DEF DaysInYear
  <2> QED BY <1>1, <1>2, <2>1, <2>2
<1>3. CASE a.y < 1970
  BY <1>1, <1>3, DateToDaysBeforeEpoch
<1> QED BY <1>1, <1>2, <1>3

LEMMA DateToDaysGrows ==
  ASSUME NEW a \in AllDates, NEW b \in AllDates, Ordinal(a) < Ordinal(b)
  PROVE  DateToDays(a) \in Int /\ DateToDays(b) \in Int /\ DateToDays(a) <= DateToDays(b)
<1>1. Ordinal(a) \in Int /\ Ordinal(b) \in Int
  BY EpochDivides
<1> QED BY <1>1, DateToDaysOf

-----------------------------------------------------------------------------
(* The object.                                                                *)

Inv == TypeOK /\ date \in AllDates

(* What the constructor does not throw on is a date.                          *)
LEMMA NewDateType ==
  ASSUME NEW d, NEW m, NEW y, Valid(NewDate(d, m, y)), NewDate(d, m, y).y \in Int
  PROVE  NewDate(d, m, y) \in AllDates
<1>1. CASE IsDate(d, m, y)
  <2>1. NewDate(d, m, y) = Date(d, m, y)
    BY <1>1 DEF NewDate
  <2>2. m \in 1..12 /\ d \in 1..DaysInMonth(m, y) /\ y \in Int
    BY <1>1, <2>1 DEF IsDate, Date
  <2>3. m \in Int /\ d \in Int
    BY <2>2, MonthLength
  <2> QED BY <2>1, <2>2, <2>3 DEF Date, AllDates
<1>2. CASE ~IsDate(d, m, y)
  BY <1>2 DEF NewDate, Invalid, Date, Valid, IsDate
<1> QED BY <1>1, <1>2

LEMMA DaysToDateType ==
  ASSUME NEW n, Valid(DaysToDate(n)), DaysToDate(n).y \in Int
  PROVE  DaysToDate(n) \in AllDates
  BY NewDateType DEF DaysToDate

(* The class invariant and what it stands on: the object is a date.           *)
LEMMA SpecInv == Spec => []Inv
<1>1. Init => Inv
  <2> SUFFICES ASSUME Init PROVE Inv
    OBVIOUS
  <2>1. date \in [d : 1..31, m : 1..12, y : Years] /\ Valid(date) /\ raised = FALSE
    BY DEF Init, Dates
  <2>2. date \in [d : Int, m : Int, y : Int]
    <3>1. 1..31 \subseteq Int /\ 1..12 \subseteq Int /\ Years \subseteq Int
      BY ChronoConstants
    <3>2. date = [d |-> date.d, m |-> date.m, y |-> date.y]
      BY <2>1
    <3>3. date.d \in Int /\ date.m \in Int /\ date.y \in Int
      BY <2>1, <3>1
    <3> QED BY <3>2, <3>3
  <2> QED BY <2>1, <2>2 DEF Inv, TypeOK, AllDates
<1>2. Inv /\ [Next]_vars => Inv'
  <2> SUFFICES ASSUME Inv, [Next]_vars PROVE Inv'
    OBVIOUS
  <2>0. TypeOK /\ date \in [d : Int, m : Int, y : Int] /\ Years \subseteq Int
    BY ChronoConstants DEF Inv, AllDates
  <2>1. ASSUME NEW a, Become(a), Valid(a) /\ a.y \in Int => a \in AllDates
        PROVE Inv'
    BY <2>0, <2>1 DEF Inv, Become, TypeOK, Valid
  <2>2. ASSUME NEW a \in [d : Int, m : Int, y : Int], Become(a)
        PROVE Inv'
    BY <2>1, <2>2 DEF AllDates
  <2>3. CASE UNCHANGED vars
    BY <2>3 DEF Inv, vars, TypeOK, Valid
  <2>4. CASE \E n \in 0..32 : AddDay(n)
    <3>1. \A n \in 0..32 : [date EXCEPT !.d = n] \in [d : Int, m : Int, y : Int]
      BY <2>0
    <3> QED BY <2>2, <2>4, <3>1 DEF AddDay
  <2>5. CASE \E n \in 0..13 : AddMonth(n)
    <3>1. \A n \in 0..13 : [date EXCEPT !.m = n] \in [d : Int, m : Int, y : Int]
      BY <2>0
    <3> QED BY <2>2, <2>5, <3>1 DEF AddMonth
  <2>6. CASE \E n \in Years : AddYear(n)
    <3>1. \A n \in Years : [date EXCEPT !.y = n] \in [d : Int, m : Int, y : Int]
      BY <2>0
    <3> QED BY <2>2, <2>6, <3>1 DEF AddYear
  <2>7. CASE \E n \in Spans : MoreDays(n)
    BY <2>1, <2>7, DaysToDateType DEF MoreDays
  <2> QED BY <2>3, <2>4, <2>5, <2>6, <2>7 DEF Next
<1> QED BY <1>1, <1>2, PTL DEF Spec

(* The class invariant of Date: neither the setters nor more_days leave an    *)
(* object that is_date rejects (Chrono.h:21-34).                              *)
THEOREM ClassInvariant == Spec => []TypeOK
<1>1. Inv => TypeOK
  BY DEF Inv
<1> QED BY <1>1, SpecInv, PTL

(* days_to_date names the right day, for the dates of all years on both sides *)
(* of the epoch (Chrono.cpp:221-273).                                         *)
THEOREM DaysAreRight == Spec => []DayIsRight
<1>1. Inv => DayIsRight
  BY DaysToDateIsRight DEF Inv, DayIsRight
<1> QED BY <1>1, SpecInv, PTL

(* A later date is greater, and its day number is not less, for every span    *)
(* (Chrono.cpp:109-147, 176-216).                                             *)
THEOREM OrderFollowsTime == Spec => []OrderIsTime
<1>1. Inv => OrderIsTime
  <2> SUFFICES ASSUME date \in AllDates, NEW n \in Spans, n > 0,
                      NEW later, later = DaysToDate(DayNumber(Ordinal(date) + n))
               PROVE  /\ Before(date, later) /\ ~Before(later, date)
                      /\ DateToDays(date) <= DateToDays(later)
    BY DEF Inv, OrderIsTime
  <2>1. n \in Int /\ Ordinal(date) \in Int
    BY ChronoConstants, EpochDivides
  <2>2. later \in AllDates /\ Ordinal(later) = Ordinal(date) + n
    BY <2>1, DateOf
  <2>3. Ordinal(date) < Ordinal(later)
    BY <2>1, <2>2
  <2> QED BY <2>2, <2>3, LessIsBefore, DateToDaysGrows
<1> QED BY <1>1, SpecInv, PTL

(* A date read back from MySQL has its day and its month; 29 February throws  *)
(* (Chrono.cpp:290-326).                                                      *)
THEOREM DaysAreReadBack == Spec => []DayIsReadBack
<1>1. Inv => DayIsReadBack
  <2> SUFFICES ASSUME date \in AllDates PROVE DayIsReadBack
    BY DEF Inv
  <2>1. /\ date.m \in 1..12 /\ date.d \in Int /\ 1 <= date.d
        /\ date.d <= DaysInMonth(date.m, date.y)
    BY DateParts
  <2>2. DateFromMysql(DateToMysql(date)) = NewDate(date.d, date.m, date.m)
    BY DEF DateFromMysql, DateToMysql
  <2>3. CASE date.m = 2
    <3>1. DaysInMonth(2, 2) = 28 /\ date.d <= 29
      BY <2>1, <2>3 DEF DaysInMonth, LeapYear
    <3>2. IsDate(date.d, date.m, date.m) <=> date.d <= 28
      BY <2>1, <2>3, <3>1 DEF IsDate
    <3> QED BY <2>1, <2>2, <2>3, <3>1, <3>2 DEF DayIsReadBack, NewDate, Date, Invalid
  <2>4. CASE date.m # 2
    <3>1. DaysInMonth(date.m, date.m) = DaysInMonth(date.m, date.y)
      BY <2>4 DEF DaysInMonth
    <3>2. IsDate(date.d, date.m, date.m)
      BY <2>1, <3>1, MonthLength DEF IsDate
    <3> QED BY <2>2, <2>4, <3>2 DEF DayIsReadBack, NewDate, Date
  <2> QED BY <2>3, <2>4
<1> QED BY <1>1, SpecInv, PTL

(* days_to_sec and sec_to_days are inverse on every day number there is       *)
(* (Chrono.cpp:274-287).                                                      *)
THEOREM SecondsRoundTrip ==
  ASSUME NEW n \in Int, n # 0
  PROVE  SecToDays(DaysToSec(n)) = n
<1>1. CASE n > 0
  BY <1>1 DEF SecToDays, DaysToSec, Quotient, DaySeconds
<1>2. CASE n < 0
  BY <1>2 DEF SecToDays, DaysToSec, Quotient, DaySeconds
<1> QED BY <1>1, <1>2

(* Every second s of the n-th day from the epoch on has day number n: time() *)
(* never gives yesterday or tomorrow (Chrono.cpp:283-287).                    *)
THEOREM SecondsOfADay ==
  ASSUME NEW n \in Nat \ {0}, NEW s \in 0..(DaySeconds - 1)
  PROVE  SecToDays((n - 1) * DaySeconds + s) = n
<1>1. n - 1 \in Nat /\ s \in Int /\ 0 <= s /\ s < 86400
  BY DEF DaySeconds
<1>2. (n - 1) * 86400 + s \in Int /\ (n - 1) * 86400 + s >= 0
  BY <1>1
<1>3. \A m \in Nat : (m * 86400 + s) \div 86400 = m
  BY <1>1
<1>4. ((n - 1) * 86400 + s) \div 86400 = n - 1
  BY <1>1, <1>3
<1> QED BY <1>1, <1>2, <1>4 DEF SecToDays, Quotient, DaySeconds

(* From 1970 on "today" is right at every second tried, in every year         *)
(* (Chrono.cpp:279-287).                                                      *)
THEOREM TodayIsAlwaysRight == Spec => []TodayIsRight
<1>1. Inv => TodayIsRight
  <2> SUFFICES ASSUME date \in AllDates, date.y >= 1970, NEW s \in {0, 1, DaySeconds - 1}
               PROVE  SecToDate((Ordinal(date) - 1) * DaySeconds + s) = date
    BY DEF Inv, TodayIsRight
  <2>1. Ordinal(date) \in Nat \ {0}
    BY EpochDivides
  <2>2. s \in 0..(DaySeconds - 1)
    BY DEF DaySeconds
  <2>3. SecToDays((Ordinal(date) - 1) * DaySeconds + s) = Ordinal(date)
    BY <2>1, <2>2, SecondsOfADay
  <2>4. DayNumber(Ordinal(date)) = Ordinal(date)
    BY <2>1 DEF DayNumber
  <2> QED BY <2>3, <2>4, DaysToDateIsRight DEF SecToDate
<1> QED BY <1>1, SpecInv, PTL

(* more_days is exact but for the day after a leap year's end, for all dates  *)
(* and spans on one side of the epoch (Chrono.cpp:73-77, 176-273).            *)
THEOREM MoreDaysIsNearlyExact == Spec => MoreDaysIsCloseToExact
<1> DEFINE Exact(n) ==
      /\ MoreDays(n)
      /\ (Ordinal(date) > 0) = (Ordinal(date) + n > 0)
      => LET late == IF date.y >= 1970 /\ LeapYear(date.y) THEN 1 ELSE 0
         IN  ~raised' /\ Ordinal(date') = Ordinal(date) + n + late
<1>1. ASSUME Inv, NEW n \in Spans PROVE Exact(n)
  <2> SUFFICES ASSUME MoreDays(n), (Ordinal(date) > 0) = (Ordinal(date) + n > 0),
                      NEW late, late = IF date.y >= 1970 /\ LeapYear(date.y) THEN 1 ELSE 0
               PROVE  ~raised' /\ Ordinal(date') = Ordinal(date) + n + late
    OBVIOUS
  <2>1. date \in AllDates /\ n \in Int
    BY <1>1, ChronoConstants DEF Inv
  <2>2. PICK o \in Int : o = Ordinal(date) /\ (o > 0 <=> date.y >= 1970)
    BY <2>1, EpochDivides
  <2>3. late \in {0, 1}
    OBVIOUS
  <2>4. DateToDays(date) + n = DayNumber(o + n + late)
    <3>1. CASE o > 0
      <4>1. DateToDays(date) = o + late
        BY <2>1, <2>2, <3>1, DateToDaysOf
      <4> QED BY <2>1, <2>2, <2>3, <3>1, <4>1 DEF DayNumber
    <3>2. CASE o <= 0
      <4>1. DateToDays(date) = o - 1 /\ late = 0
        BY <2>1, <2>2, <3>2, DateToDaysOf
      <4> QED BY <2>1, <2>2, <3>2, <4>1 DEF DayNumber
    <3> QED BY <2>2, <3>1, <3>2
  <2>5. PICK a \in AllDates : Ordinal(a) = o + n + late /\ DaysToDate(DayNumber(o + n + late)) = a
    BY <2>1, <2>2, <2>3, DateOf
  <2>6. Become(a) /\ Valid(a)
    BY <2>4, <2>5 DEF MoreDays, AllDates
  <2> QED BY <2>2, <2>5, <2>6 DEF Become
<1>2. Inv => [\A n \in Spans : Exact(n)]_vars
  BY <1>1
<1> HIDE DEF Inv
<1> QED BY <1>2, SpecInv, PTL DEF MoreDaysIsCloseToExact

-----------------------------------------------------------------------------
(* Fees.                                                                      *)

LEMMA SameDay ==
  ASSUME NEW a \in AllDates, NEW b \in AllDates, Ordinal(a) = Ordinal(b)
  PROVE  a = b
  BY DaysToDateIsRight

LEMMA DateToDaysNeverShrinks ==
  ASSUME NEW a \in AllDates, NEW b \in AllDates, Ordinal(a) <= Ordinal(b)
  PROVE  DateToDays(a) \in Int /\ DateToDays(b) \in Int /\ DateToDays(a) <= DateToDays(b)
<1>1. Ordinal(a) \in Int /\ Ordinal(b) \in Int
  BY EpochDivides
<1>2. DateToDays(a) \in Int /\ DateToDays(b) \in Int
  BY <1>1, DateToDaysOf
<1> QED BY <1>1, <1>2, SameDay, DateToDaysGrows

(* One charge, and two of them.                                               *)
LEMMA ChargeDays ==
  ASSUME NEW fees \in Int, NEW due, NEW today,
         DateToDays(due) \in Int, DateToDays(today) \in Int
  PROVE  /\ DateToDays(today) > DateToDays(due) =>
              Charge(Account(fees, due), today)
                = Account(fees + (DateToDays(today) - DateToDays(due)), today)
         /\ DateToDays(today) <= DateToDays(due) =>
              Charge(Account(fees, due), today) = Account(fees, due)
  BY DEF Charge, Account

LEMMA AccountFees == \A fees, due : Account(fees, due).fees = fees
  BY DEF Account

LEMMA OneCharge ==
  ASSUME NEW due, NEW today, DateToDays(due) \in Int, DateToDays(today) \in Int
  PROVE  Charge(Account(0, due), today).fees
           = IF DateToDays(today) > DateToDays(due)
             THEN DateToDays(today) - DateToDays(due) ELSE 0
<1>1. CASE DateToDays(today) > DateToDays(due)
  <2>1. Charge(Account(0, due), today)
          = Account(0 + (DateToDays(today) - DateToDays(due)), today)
    BY <1>1, ChargeDays
  <2> QED BY <1>1, <2>1, AccountFees
<1>2. CASE DateToDays(today) <= DateToDays(due)
  <2>1. Charge(Account(0, due), today) = Account(0, due)
    BY <1>2, ChargeDays
  <2> QED BY <1>2, <2>1, AccountFees
<1> QED BY <1>1, <1>2

LEMMA TwoCharges ==
  ASSUME NEW due, NEW first, NEW second, NEW latest, DateToDays(due) \in Int,
         DateToDays(first) \in Int, DateToDays(second) \in Int,
         DateToDays(latest) = IF DateToDays(first) > DateToDays(second)
                              THEN DateToDays(first) ELSE DateToDays(second)
  PROVE  Charge(Charge(Account(0, due), first), second).fees
           = Charge(Account(0, due), latest).fees
<1>1. PICK d, f, s \in Int : /\ d = DateToDays(due) /\ f = DateToDays(first)
                             /\ s = DateToDays(second)
  OBVIOUS
<1>2. Charge(Account(0, due), latest).fees
        = IF f > s THEN IF f > d THEN f - d ELSE 0
                   ELSE IF s > d THEN s - d ELSE 0
  BY <1>1, OneCharge
<1>3. CASE f > d
  <2>1. Charge(Account(0, due), first) = Account(0 + (f - d), first)
    BY <1>1, <1>3, ChargeDays
  <2>2. PICK fees \in Int : fees = 0 + (f - d)
    OBVIOUS
  <2>3. Charge(Account(fees, first), second)
          = IF s > f THEN Account(fees + (s - f), second) ELSE Account(fees, first)
    BY <1>1, ChargeDays
  <2>4. Charge(Account(fees, first), second).fees = IF s > f THEN fees + (s - f) ELSE fees
    BY <2>3, AccountFees
  <2>5. (IF s > f THEN fees + (s - f) ELSE fees)
          = IF f > s THEN IF f > d THEN f - d ELSE 0
                     ELSE IF s > d THEN s - d ELSE 0
    BY <1>3, <2>2
  <2> QED BY <1>2, <2>1, <2>2, <2>4, <2>5
<1>4. CASE f <= d
  <2>1. Charge(Account(0, due), first) = Account(0, due)
    BY <1>1, <1>4, ChargeDays
  <2>2. Charge(Account(0, due), second).fees = IF s > d THEN s - d ELSE 0
    BY <1>1, OneCharge
  <2> QED BY <1>2, <1>4, <2>1, <2>2
<1> QED BY <1>3, <1>4

(* However often a patron is charged, the fees are those of one charge on the *)
(* latest day, for all due dates and days (Patron.cpp:116-126).               *)
THEOREM FeesAlwaysAddUp == Spec => []FeesAddUp
<1>1. ASSUME date \in AllDates, NEW n \in Spans, NEW m \in Spans
      PROVE  LET day(k) == DaysToDate(DayNumber(Ordinal(date) + k))
                 latest == IF n > m THEN n ELSE m
                 twice  == Charge(Charge(Account(0, date), day(n)), day(m))
                 once   == Charge(Account(0, date), day(latest))
             IN  /\ twice.fees = once.fees
                 /\ date.y >= 1970 /\ latest > 0 => twice.fees - latest \in -1..1
  <2> DEFINE day(k) == DaysToDate(DayNumber(Ordinal(date) + k))
  <2>1. n \in Int /\ m \in Int
    BY ChronoConstants
  <2>2. PICK o \in Int : o = Ordinal(date) /\ (o > 0 <=> date.y >= 1970)
    BY <1>1, EpochDivides
  <2>3. \A k \in Int : day(k) \in AllDates /\ Ordinal(day(k)) = o + k
    BY <2>2, DateOf
  <2> HIDE DEF day
  <2>4. PICK latest \in Int : latest = IF n > m THEN n ELSE m
    BY <2>1
  <2>5. PICK a, b, c \in AllDates :
          /\ a = day(n) /\ Ordinal(a) = o + n
          /\ b = day(m) /\ Ordinal(b) = o + m
          /\ c = day(latest) /\ Ordinal(c) = o + latest
    BY <2>1, <2>3, <2>4
  <2>6. DateToDays(date) \in Int
    BY <1>1, <2>2, DateToDaysNeverShrinks
  <2>7. /\ DateToDays(a) \in Int /\ DateToDays(b) \in Int
        /\ DateToDays(c) = IF DateToDays(a) > DateToDays(b)
                           THEN DateToDays(a) ELSE DateToDays(b)
    <3>1. CASE n > m
      <4>1. c = a
        BY <2>4, <2>5, <3>1
      <4>2. Ordinal(b) <= Ordinal(a)
        BY <2>1, <2>2, <2>5, <3>1
      <4>3. DateToDays(a) \in Int /\ DateToDays(b) \in Int /\ DateToDays(b) <= DateToDays(a)
        BY <4>2, DateToDaysNeverShrinks
      <4> QED BY <4>1, <4>3
    <3>2. CASE ~(n > m)
      <4>1. c = b
        BY <2>4, <2>5, <3>2
      <4>2. Ordinal(a) <= Ordinal(b)
        BY <2>1, <2>2, <2>5, <3>2
      <4>3. DateToDays(a) \in Int /\ DateToDays(b) \in Int /\ DateToDays(a) <= DateToDays(b)
        BY <4>2, DateToDaysNeverShrinks
      <4> QED BY <4>1, <4>3
    <3> QED BY <3>1, <3>2
  <2>8. Charge(Charge(Account(0, date), a), b).fees = Charge(Account(0, date), c).fees
    BY <2>6, <2>7, TwoCharges
  <2>9. ASSUME date.y >= 1970, latest > 0
        PROVE  Charge(Account(0, date), c).fees - latest \in -1..1
    <3>1. PICK d \in Int : d = DateToDays(date) /\ (d = o \/ d = o + 1)
      <4>1. DateToDays(date) = o + (IF LeapYear(date.y) THEN 1 ELSE 0)
        BY <1>1, <2>2, <2>9, DateToDaysOf
      <4> QED BY <2>2, <4>1
    <3>2. PICK l \in Int : l = DateToDays(c) /\ (l = o + latest \/ l = (o + latest) + 1)
      <4>1. o + latest > 0
        BY <2>2, <2>9
      <4>2. DateToDays(c) = (o + latest) + (IF LeapYear(c.y) THEN 1 ELSE 0)
        BY <2>5, <4>1, DateToDaysOf
      <4> QED BY <2>2, <2>4, <4>2
    <3>3. Charge(Account(0, date), c).fees = IF l > d THEN l - d ELSE 0
      BY <3>1, <3>2, OneCharge
    <3> QED BY <2>9, <3>1, <3>2, <3>3
  <2> DEFINE twice == Charge(Charge(Account(0, date), day(n)), day(m))
             once  == Charge(Account(0, date), day(latest))
  <2>10. twice.fees = once.fees
    BY <2>5, <2>8
  <2>11. date.y >= 1970 /\ latest > 0 => twice.fees - latest \in -1..1
    BY <2>5, <2>9, <2>10
  <2> QED BY <2>4, <2>10, <2>11 DEF day
<1>2. Inv => FeesAddUp
  BY <1>1 DEF Inv, FeesAddUp
<1> QED BY <1>2, SpecInv, PTL
=============================================================================
