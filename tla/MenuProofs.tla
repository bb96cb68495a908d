------------------------------ MODULE MenuProofs ------------------------------
(* Menu's invariants, for every set of keys.  The numbers are finite, so a   *)
(* step that computes one is checked menu by menu.                           *)
EXTENDS Menu, Integers, Sequences, SequenceTheorems, TLAPS

Numbers == Menus \cup Leaves

LEMMA InitInv == Init => IInv
  BY DEF Init, IInv, TypeOK, NumberIsCurrent, PauseIsAfterFunction, Menus, Leaves, Places

(* A key a menu accepts leads to a number spis_menu knows, and to another.    *)
LEMMA ChosenIsKnown ==
  ASSUME NEW k \in Nat, nr \in Menus, IsOption(k)
  PROVE  Chosen(k) \in Numbers /\ Chosen(k) # nr
<1> USE DEF IsOption, Options, Chosen, Esc, KeyM, Numbers, Menus, Leaves
<1>1. CASE k = KeyM
  BY <1>1
<1>2. CASE k = Esc
  <2>1. (nr * 10) \div 100 \in Menus /\ (nr * 10) \div 100 # nr
    BY <1>2
  <2> QED BY <1>2, <2>1
<1>3. CASE k # KeyM /\ k # Esc
  <2>1. CASE nr = 0  BY <1>3, <2>1
  <2>2. CASE nr = 1  BY <1>3, <2>2
  <2>3. CASE nr = 2  BY <1>3, <2>3
  <2>4. CASE nr = 3  BY <1>3, <2>4
  <2>5. CASE nr = 4  BY <1>3, <2>5
  <2>6. CASE nr = 5  BY <1>3, <2>6
  <2>7. CASE nr = 11 BY <1>3, <2>7
  <2>8. CASE nr = 21 BY <1>3, <2>8
  <2>9. CASE nr = 34 BY <1>3, <2>9
  <2> QED BY <2>1, <2>2, <2>3, <2>4, <2>5, <2>6, <2>7, <2>8, <2>9
<1> QED BY <1>1, <1>2, <1>3

(* Every function stands in a menu.                                           *)
LEMMA ParentIsMenu == ASSUME NEW n \in Leaves PROVE n \div 10 \in Menus
  BY DEF Leaves, Menus

LEMMA NextInv == IInv /\ [Next]_vars => IInv'
<1> SUFFICES ASSUME IInv, [Next]_vars PROVE IInv'
  OBVIOUS
<1> USE DEF IInv, TypeOK, NumberIsCurrent, PauseIsAfterFunction, Places
<1>1. CASE SpisMenu
  BY <1>1 DEF SpisMenu
<1>2. ASSUME NEW k \in Key, WyborOpcji(k) PROVE IInv'
  <2>1. k \in Nat
    BY MenuConstants
  <2>2. CASE IsOption(k)
    <3>1. Chosen(k) \in Numbers /\ Chosen(k) # nr
      BY <1>2, <2>1, <2>2, ChosenIsKnown DEF WyborOpcji
    <3>2. nr_m' = Chosen(k) /\ at' = "dispatch" /\ wrong' = 0 /\ nr' = nr
      BY <1>2, <2>2, <3>1 DEF WyborOpcji, SpisMenuEnd
    <3> QED BY <3>1, <3>2 DEF Numbers
  <2>3. CASE ~IsOption(k)
    BY <1>2, <2>3 DEF WyborOpcji
  <2> QED BY <2>2, <2>3
<1>3. CASE LeafReturns
  BY <1>3, ParentIsMenu DEF LeafReturns, SpisMenuEnd
<1>4. CASE LeafEndsProgram
  BY <1>4 DEF LeafEndsProgram
<1>5. CASE Pause
  BY <1>5 DEF Pause
<1>6. CASE Start
  BY <1>6 DEF Start, Menus
<1>7. CASE UNCHANGED vars
  BY <1>7 DEF vars
<1> QED BY <1>1, <1>2, <1>3, <1>4, <1>5, <1>6, <1>7 DEF Next

(* spis_menu never meets a number it has no case for (Menu.cpp:71-123).       *)
THEOREM NumbersAreKnown == Spec => []TypeOK
<1>1. IInv => TypeOK
  BY DEF IInv
<1> QED BY <1>1, InitInv, NextInv, PTL DEF Spec

(* After a function the program waits for a key and is back in the menu the   *)
(* function was chosen in, and after a menu it is not (Menu.cpp:125-130).     *)
THEOREM FunctionsReturn == Spec => []PauseIsAfterFunction
<1>1. IInv => PauseIsAfterFunction
  BY DEF IInv
<1> QED BY <1>1, InitInv, NextInv, PTL DEF Spec

-----------------------------------------------------------------------------
(* The digits of the number are the trail through the plan.                   *)

LEMMA DigitsOfOne == \A a \in 1..9 : Digits(a) = <<a>>
  BY DEF Digits

LEMMA DigitsOfTwo ==
  ASSUME NEW a \in 1..9, NEW b \in 1..9
  PROVE  /\ Digits(10 * a + b) = <<a, b>>
         /\ (10 * a + b) \div 10 = a
<1>1. (10 * a + b) \div 10 = a /\ (10 * a + b) % 10 = b
  OBVIOUS
<1>2. ~(10 * a + b < 10) /\ 10 * a + b < 100 /\ 10 * a + b # 0
  OBVIOUS
<1> HIDE DEF Digits
<1> QED BY <1>1, <1>2 DEF Digits

LEMMA DigitsOfThree ==
  ASSUME NEW a \in 1..9, NEW b \in 1..9, NEW c \in 1..9
  PROVE  /\ Digits(100 * a + 10 * b + c) = <<a, b, c>>
         /\ (100 * a + 10 * b + c) \div 10 = 10 * a + b
<1> DEFINE n == 100 * a + 10 * b + c
<1>1. n \div 100 = a /\ n % 10 = c
  OBVIOUS
<1>2. n \div 10 = 10 * a + b
  OBVIOUS
<1>3. (10 * a + b) % 10 = b
  OBVIOUS
<1>4. ~(n < 10) /\ ~(n < 100) /\ n # 0
  OBVIOUS
<1> HIDE DEF n
<1>5. Digits(n) = <<a, b, c>>
  BY <1>1, <1>2, <1>3, <1>4 DEF Digits
<1> QED BY <1>2, <1>5 DEF n

LEMMA DigitsOfNone == Digits(0) = <<>>
  BY DEF Digits

LEMMA NumbersHaveDigits ==
  ASSUME NEW n \in Numbers
  PROVE  \/ n = 0
         \/ n \in 1..9
         \/ \E a, b \in 1..9 : n = 10 * a + b
         \/ \E a, b, c \in 1..9 : n = 100 * a + 10 * b + c
<1>1. CASE n < 10
  BY <1>1 DEF Numbers, Menus, Leaves
<1>2. CASE n > 10 /\ n < 100
  <2>1. n \div 10 \in 1..9 /\ n % 10 \in 1..9 /\ n = 10 * (n \div 10) + (n % 10)
    BY <1>2 DEF Numbers, Menus, Leaves
  <2> QED BY <2>1
<1>3. CASE n > 100
  <2>1. /\ n \div 100 \in 1..9 /\ (n \div 10) % 10 \in 1..9 /\ n % 10 \in 1..9
        /\ n = 100 * (n \div 100) + 10 * ((n \div 10) % 10) + (n % 10)
    BY <1>3 DEF Numbers, Menus, Leaves
  <2> QED BY <2>1
<1> QED BY <1>1, <1>2, <1>3 DEF Numbers, Menus, Leaves

LEMMA FrontOfTwo ==
  ASSUME NEW a \in Nat, NEW b \in Nat
  PROVE  Plan!Front(<<a, b>>) = <<a>>
<1> DEFINE s == <<a, b>>
           f == SubSeq(s, 1, 1)
           t == <<a>>
<1>1. Len(s) = 2 /\ s[1] = a
  OBVIOUS
<1>2. t \in Seq(Nat) /\ Len(t) = 1 /\ t[1] = a
  OBVIOUS
<1> HIDE DEF s, t
<1>3. \A i \in 1..1 : s[i] \in Nat
  BY <1>1
<1>4. f \in Seq(Nat) /\ Len(f) = 1 /\ \A i \in 1..1 : f[i] = s[1 + i - 1]
  BY <1>3, SubSeqProperties
<1>5. f[1] = a
  BY <1>1, <1>4
<1> HIDE DEF f
<1>6. f = t
  BY <1>2, <1>4, <1>5, SeqEqual
<1>7. Plan!Front(s) = f
  BY <1>1 DEF Plan!Front, f
<1> QED BY <1>6, <1>7 DEF s, t

LEMMA FrontOfThree ==
  ASSUME NEW a \in Nat, NEW b \in Nat, NEW c \in Nat
  PROVE  Plan!Front(<<a, b, c>>) = <<a, b>>
<1> DEFINE s == <<a, b, c>>
           f == SubSeq(s, 1, 2)
           t == <<a, b>>
<1>1. Len(s) = 3 /\ s[1] = a /\ s[2] = b
  OBVIOUS
<1>2. t \in Seq(Nat) /\ Len(t) = 2 /\ t[1] = a /\ t[2] = b
  OBVIOUS
<1> HIDE DEF s, t
<1>3. \A i \in 1..2 : s[i] \in Nat
  BY <1>1
<1>4. f \in Seq(Nat) /\ Len(f) = 2 /\ \A i \in 1..2 : f[i] = s[1 + i - 1]
  BY <1>3, SubSeqProperties
<1>5. f[1] = a /\ f[2] = b
  BY <1>1, <1>4
<1> HIDE DEF f
<1>6. \A i \in 1..Len(f) : f[i] = t[i]
  BY <1>2, <1>4, <1>5
<1>7. f = t
  BY <1>2, <1>4, <1>6, SeqEqual
<1>8. Plan!Front(s) = f
  BY <1>1 DEF Plan!Front, f
<1> QED BY <1>7, <1>8 DEF s, t

(* Taking a digit off is a step back.                                         *)
LEMMA BackInPlan ==
  ASSUME NEW n \in Numbers, n # 0
  PROVE  Digits(n) # <<>> /\ Digits(n \div 10) = Plan!Front(Digits(n))
<1>1. CASE n \in 1..9
  <2>1. n \div 10 = 0 /\ Digits(n) = <<n>>
    BY <1>1, DigitsOfOne
  <2>2. Plan!Front(<<n>>) = <<>>
    BY DEF Plan!Front
  <2> QED BY <2>1, <2>2, DigitsOfNone
<1>2. ASSUME NEW a \in 1..9, NEW b \in 1..9, n = 10 * a + b
      PROVE  Digits(n) # <<>> /\ Digits(n \div 10) = Plan!Front(Digits(n))
  <2>1. n \div 10 = a /\ Digits(n) = <<a, b>> /\ Digits(a) = <<a>>
    BY <1>2, DigitsOfOne, DigitsOfTwo
  <2>2. Plan!Front(<<a, b>>) = <<a>>
    BY FrontOfTwo
  <2> QED BY <2>1, <2>2
<1>3. ASSUME NEW a \in 1..9, NEW b \in 1..9, NEW c \in 1..9, n = 100 * a + 10 * b + c
      PROVE  Digits(n) # <<>> /\ Digits(n \div 10) = Plan!Front(Digits(n))
  <2>1. n \div 10 = 10 * a + b /\ Digits(n) = <<a, b, c>> /\ Digits(10 * a + b) = <<a, b>>
    BY <1>3, DigitsOfTwo, DigitsOfThree
  <2>2. Plan!Front(<<a, b, c>>) = <<a, b>>
    BY FrontOfThree
  <2> QED BY <2>1, <2>2
<1> QED BY <1>1, <1>2, <1>3, NumbersHaveDigits

(* The menus of the code are the menus of the plan, and as wide.              *)
LEMMA MenusInPlan ==
  ASSUME NEW n \in Menus
  PROVE  Digits(n) \in Plan!Menus /\ Plan!Width(Digits(n)) = Options(n)
<1>1. /\ Digits(0) = <<>> /\ Digits(1) = <<1>> /\ Digits(2) = <<2>> /\ Digits(3) = <<3>>
      /\ Digits(4) = <<4>> /\ Digits(5) = <<5>>
  BY DigitsOfNone, DigitsOfOne
<1>2. Digits(11) = <<1, 1>> /\ Digits(21) = <<2, 1>> /\ Digits(34) = <<3, 4>>
  BY DEF Digits
<1>3. Digits(n) \in Plan!Menus
  BY <1>1, <1>2 DEF Menus, Plan!Menus
<1>4. /\ Plan!Width(<<>>) = 6
      /\ Plan!Width(<<1>>) = 4 /\ Plan!Width(<<2>>) = 4 /\ Plan!Width(<<3>>) = 5
      /\ Plan!Width(<<4>>) = 3 /\ Plan!Width(<<5>>) = 3
      /\ Plan!Width(<<1, 1>>) = 5 /\ Plan!Width(<<2, 1>>) = 2 /\ Plan!Width(<<3, 4>>) = 3
  BY DEF Plan!Width
<1>5. /\ Options(0) = 6 /\ Options(1) = 4 /\ Options(2) = 4 /\ Options(3) = 5
      /\ Options(4) = 3 /\ Options(5) = 3
      /\ Options(11) = 5 /\ Options(21) = 2 /\ Options(34) = 3
  BY DEF Options
<1>6. Plan!Width(Digits(n)) = Options(n)
  BY <1>1, <1>2, <1>4, <1>5 DEF Menus
<1> QED BY <1>3, <1>6

LEMMA AppendToTwo ==
  ASSUME NEW a \in Nat, NEW b \in Nat, NEW c \in Nat
  PROVE  Append(<<a, b>>, c) = <<a, b, c>>
<1> DEFINE s == <<a, b>>
           f == Append(s, c)
           t == <<a, b, c>>
<1>1. s \in Seq(Nat) /\ Len(s) = 2 /\ s[1] = a /\ s[2] = b
  OBVIOUS
<1>2. t \in Seq(Nat) /\ Len(t) = 3 /\ t[1] = a /\ t[2] = b /\ t[3] = c
  OBVIOUS
<1> HIDE DEF s, t
<1>3. /\ Append(s, c) \in Seq(Nat) /\ Len(Append(s, c)) = Len(s) + 1
      /\ Append(s, c)[Len(s) + 1] = c
      /\ \A i \in 1..Len(s) : Append(s, c)[i] = s[i]
  <2>1. s \in Seq(Nat)
    BY <1>1
  <2>2. Append(s, c) \in Seq(Nat)
    BY <2>1, AppendProperties
  <2>3. Len(Append(s, c)) = Len(s) + 1
    BY <2>1, AppendProperties
  <2>4. Append(s, c)[Len(s) + 1] = c
    BY <2>1, AppendProperties
  <2>5. \A i \in 1..Len(s) : Append(s, c)[i] = s[i]
    BY <2>1, AppendProperties
  <2> QED BY <2>2, <2>3, <2>4, <2>5
<1>4. f \in Seq(Nat) /\ Len(f) = 3 /\ f[1] = a /\ f[2] = b /\ f[3] = c
  BY <1>1, <1>3
<1> HIDE DEF f
<1>5. f = t
  <2>1. \A i \in 1..Len(f) : f[i] = t[i]
    BY <1>2, <1>4
  <2>2. f \in Seq(Nat) /\ t \in Seq(Nat) /\ Len(f) = Len(t)
    BY <1>2, <1>4
  <2> QED BY <2>1, <2>2, SeqEqual, Zenon
<1> QED BY <1>5 DEF s, t, f

(* A digit more is a step down.                                               *)
LEMMA DownInPlan ==
  ASSUME NEW n \in Menus, NEW d \in 1..9
  PROVE  Digits(n * 10 + d) = Append(Digits(n), d)
<1>1. n = 0 \/ n \in 1..9 \/ \E a, b \in 1..9 : n = 10 * a + b
  <2>1. 11 = 10 * 1 + 1 /\ 21 = 10 * 2 + 1 /\ 34 = 10 * 3 + 4
    OBVIOUS
  <2> QED BY <2>1 DEF Menus
<1>2. CASE n = 0
  <2>1. n * 10 + d = d /\ Digits(n) = <<>>
    BY <1>2, DigitsOfNone
  <2>2. Append(<<>>, d) = <<d>>
    OBVIOUS
  <2> QED BY <2>1, <2>2, DigitsOfOne
<1>3. CASE n \in 1..9
  <2>1. Digits(n) = <<n>> /\ Digits(10 * n + d) = <<n, d>> /\ 10 * n = n * 10
    BY <1>3, DigitsOfOne, DigitsOfTwo
  <2> QED BY <2>1
<1>4. ASSUME NEW a \in 1..9, NEW b \in 1..9, n = 10 * a + b
      PROVE  Digits(n * 10 + d) = Append(Digits(n), d)
  <2>1. n * 10 + d = 100 * a + 10 * b + d
    BY <1>4
  <2>2. Digits(n) = <<a, b>>
    BY <1>4, DigitsOfTwo
  <2>3. Digits(100 * a + 10 * b + d) = <<a, b, d>>
    BY DigitsOfThree
  <2>4. Digits(n * 10 + d) = <<a, b, d>>
    BY <2>1, <2>3
  <2>5. Append(<<a, b>>, d) = <<a, b, d>>
    BY AppendToTwo
  <2> QED BY <2>2, <2>4, <2>5
<1> QED BY <1>1, <1>2, <1>3, <1>4

(* The functions that may end the program are no menus of the plan.           *)
LEMMA EndsInPlan ==
  ASSUME NEW n \in {6, 13, 23, 31}
  PROVE  Digits(n) \notin Plan!Menus
<1>1. Digits(6) = <<6>> /\ Digits(13) = <<1, 3>> /\ Digits(23) = <<2, 3>> /\ Digits(31) = <<3, 1>>
  BY DEF Digits
<1>2. /\ <<6>> # <<>> /\ <<6>> # <<1>> /\ <<6>> # <<2>> /\ <<6>> # <<3>> /\ <<6>> # <<4>>
      /\ <<6>> # <<5>> /\ <<6>> # <<1, 1>> /\ <<6>> # <<2, 1>> /\ <<6>> # <<3, 4>>
  OBVIOUS
<1>3. ASSUME NEW a \in 1..3, NEW b \in {1, 3}, <<a, b>> \in {<<1, 3>>, <<2, 3>>, <<3, 1>>}
      PROVE  <<a, b>> \notin Plan!Menus
  <2>1. \A x : <<a, b>> # <<x>> /\ <<a, b>> # <<>>
    OBVIOUS
  <2>2. <<a, b>> # <<1, 1>> /\ <<a, b>> # <<2, 1>> /\ <<a, b>> # <<3, 4>>
    BY <1>3
  <2> HIDE DEF Plan!Menus
  <2> QED BY <2>1, <2>2 DEF Plan!Menus
<1>4. <<6>> \notin Plan!Menus
  BY <1>2 DEF Plan!Menus
<1> QED BY <1>1, <1>3, <1>4

(* Every key and every return is a step of the plan, or none.                 *)
LEMMA StepInPlan ==
  ASSUME IInv, [Next]_vars
  PROVE  [Plan!Walk \/ Plan!Die \/ Plan!Start]_(Plan!planVars)
<1> USE DEF IInv, TypeOK, NumberIsCurrent
<1>1. CASE SpisMenu
  <2>1. at' # "ended" /\ at # "ended" /\ nr_m' = nr_m
    BY <1>1 DEF SpisMenu
  <2> QED BY <2>1 DEF Plan!planVars
<1>2. ASSUME NEW k \in Key, WyborOpcji(k)
      PROVE  [Plan!Walk \/ Plan!Die \/ Plan!Start]_(Plan!planVars)
  <2>1. k \in Nat /\ at = "choice" /\ nr_m = nr /\ nr \in Menus
    BY <1>2, MenuConstants DEF WyborOpcji
  <2>2. CASE ~IsOption(k)
    <3>1. nr_m' = nr_m /\ at' = at
      BY <1>2, <2>2 DEF WyborOpcji
    <3> QED BY <3>1 DEF Plan!planVars
  <2>3. CASE IsOption(k)
    <3>1. nr_m' = Chosen(k) /\ at' = "dispatch"
      BY <1>2, <2>1, <2>3, ChosenIsKnown DEF WyborOpcji, SpisMenuEnd
    <3>2. Digits(nr) \in Plan!Menus /\ Plan!Width(Digits(nr)) = Options(nr)
      BY <2>1, MenusInPlan
    <3>3. CASE k = Esc
      <4>1. nr # 0 /\ Chosen(k) = nr \div 10
        BY <2>1, <2>3, <3>3 DEF IsOption, Chosen, Esc, KeyM, Options, Menus
      <4>2. Digits(nr) # <<>> /\ Digits(nr \div 10) = Plan!Front(Digits(nr))
        BY <2>1, <4>1, BackInPlan DEF Numbers
      <4> QED BY <2>1, <3>1, <4>1, <4>2 DEF Plan!Walk, Plan!Back
    <3>4. CASE k = KeyM
      <4>1. Chosen(k) = 0
        BY <3>4 DEF Chosen, Esc, KeyM
      <4> QED BY <2>1, <3>1, <3>2, <4>1, DigitsOfNone DEF Plan!Walk, Plan!Home
    <3>5. CASE k # Esc /\ k # KeyM
      <4>1. k - 48 \in 1..Options(nr) /\ Options(nr) \in 1..9 /\ Chosen(k) = nr * 10 + (k - 48)
        BY <2>1, <2>3, <3>5 DEF IsOption, Chosen, Options, Menus
      <4>2. Digits(Chosen(k)) = Append(Digits(nr), k - 48)
        BY <2>1, <4>1, DownInPlan
      <4> QED BY <2>1, <3>1, <3>2, <4>1, <4>2 DEF Plan!Walk, Plan!Down
    <3> QED BY <3>3, <3>4, <3>5
  <2> QED BY <2>2, <2>3
<1>3. CASE LeafReturns
  <2>1. at = "leaf" /\ nr_m = nr /\ nr_m \in Leaves /\ nr_m' = nr_m \div 10 /\ at' = "pause"
    BY <1>3 DEF LeafReturns, SpisMenuEnd
  <2>2. Digits(nr_m) # <<>> /\ Digits(nr_m \div 10) = Plan!Front(Digits(nr_m))
    BY <2>1, BackInPlan DEF Numbers, Leaves
  <2> QED BY <2>1, <2>2 DEF Plan!Walk, Plan!Back
<1>4. CASE LeafEndsProgram
  <2>1. at = "leaf" /\ nr_m \in {6, 13, 23, 31} /\ at' = "ended"
    BY <1>4 DEF LeafEndsProgram
  <2> QED BY <2>1, EndsInPlan DEF Plan!Die
<1>5. CASE Pause
  BY <1>5 DEF Pause, Plan!planVars
<1>6. CASE Start
  BY <1>6, DigitsOfNone DEF Start, Plan!Start
<1>7. CASE UNCHANGED vars
  BY <1>7 DEF vars, Plan!planVars
<1> QED BY <1>1, <1>2, <1>3, <1>4, <1>5, <1>6, <1>7 DEF Next

(* Every run of the program is a walk in the planned tree of menus: nr_m, one *)
(* number without a stack, always says the way back (Menu.cpp:16-64, 66-175). *)
THEOREM PlanIsKept == Spec => Implements
<1>1. Init => Plan!Init
  BY DigitsOfNone DEF Init, Plan!Init
<1>2. IInv /\ [Next]_vars => [Plan!Walk \/ Plan!Die \/ Plan!Start]_(Plan!planVars)
  BY StepInPlan
<1> QED BY <1>1, <1>2, InitInv, NextInv, PTL DEF Spec, Implements, Plan!Spec
=============================================================================
