------------------------------ MODULE BookProofs ------------------------------
(* What Texts does to every ISBN and every line of the console, and          *)
(* BookRegistry's invariants, for every set of clerks, every table of genres *)
(* and whether or not the server keeps ISBNs unique.                         *)
EXTENDS BookRegistry, SequenceTheorems, Induction, TLAPS

-----------------------------------------------------------------------------
(* The bigint of an ISBN.                                                     *)

\* Where the first digit other than 0 of an ISBN is, the last digit at most.
LeadsAt(digits, i) ==
  /\ digits[i] # 0 \/ i = Len(digits)
  /\ \A j \in 1..(i - 1) : digits[j] = 0

LEMMA SomeDigitLeads ==
  ASSUME NEW digits \in Seq(0..9), Len(digits) = 13
  PROVE  \E i \in 1..Len(digits) : LeadsAt(digits, i)
<1> DEFINE z(n) == \A j \in 1..n : digits[j] = 0
<1>0. z(0)
  OBVIOUS
<1>1. \A n \in 0..11 : z(n) => z(n + 1) \/ LeadsAt(digits, n + 1)
  <2> SUFFICES ASSUME NEW n \in 0..11, z(n), digits[n + 1] # 0
               PROVE  LeadsAt(digits, n + 1)
    OBVIOUS
  <2>1. (n + 1) - 1 = n
    OBVIOUS
  <2> QED BY <2>1 DEF LeadsAt
<1>2. z(12) => LeadsAt(digits, 13)
  BY DEF LeadsAt
<1> HIDE DEF z
<1> QED BY <1>0, <1>1, <1>2

(* An ISBN read back from books is the one that was typed, whatever zeros it  *)
(* leads with: Book.cpp:24-32 puts back what the column of Library.cpp:538    *)
(* drops.                                                                     *)
THEOREM ISBNIsReadBack ==
  ASSUME NEW digits, is_ISBN(digits)
  PROVE  Padded(Number(digits)) = digits
<1> DEFINE first == CHOOSE i \in 1..Len(digits) : LeadsAt(digits, i)
<1> DEFINE n == SubSeq(digits, first, Len(digits))
<1>1. digits \in Seq(0..9) /\ Len(digits) = 13
  BY DEF is_ISBN
<1>2. first \in 1..13 /\ LeadsAt(digits, first)
  BY <1>1, SomeDigitLeads
<1>3. Number(digits) = n
  BY DEF Number, LeadsAt
<1> HIDE DEF first
<1>4. /\ n \in Seq(0..9) /\ Len(n) = 14 - first
      /\ \A i \in 1..(14 - first) : n[i] = digits[first + i - 1]
  <2>0. \A i \in 1..13 : digits[i] \in 0..9
    BY <1>1, ElementOfSeq
  <2>1. first \in Int /\ 13 \in Int /\ \A i \in first..13 : digits[i] \in 0..9
    BY <1>2, <2>0
  <2>2. n = SubSeq(digits, first, 13)
    BY <1>1
  <2> HIDE DEF n
  <2>3. /\ n \in Seq(0..9) /\ Len(n) = IF first <= 13 THEN 13 - first + 1 ELSE 0
        /\ \A i \in 1..(13 - first + 1) : n[i] = digits[first + i - 1]
    BY <2>1, <2>2, SubSeqProperties
  <2>4. first <= 13 /\ 13 - first + 1 = 14 - first
    BY <1>2
  <2> QED BY <2>3, <2>4
<1> HIDE DEF n
<1>5. CASE first = 1
  <2>1. Len(n) = 13 /\ \A i \in 1..13 : n[i] = digits[i]
    BY <1>4, <1>5
  <2>2. n = digits
    BY <1>1, <1>4, <2>1, SeqEqual
  <2>3. Padded(digits) = digits
    BY <1>1 DEF Padded
  <2> QED BY <1>3, <2>2, <2>3
<1>6. CASE first \in 2..13
  <2> DEFINE zeros == [i \in 1..(13 - Len(n)) |-> 0]
  <2>1. Padded(n) = zeros \o n
    BY <1>4, <1>6 DEF Padded
  <2>2. zeros \in Seq(0..9) /\ Len(zeros) = first - 1
        /\ \A i \in 1..(first - 1) : zeros[i] = 0
    BY <1>4, <1>6
  <2> HIDE DEF zeros
  <2>3. /\ zeros \o n \in Seq(0..9) /\ Len(zeros \o n) = Len(zeros) + Len(n)
        /\ \A i \in 1..Len(zeros) + Len(n) :
             (zeros \o n)[i] = IF i <= Len(zeros) THEN zeros[i] ELSE n[i - Len(zeros)]
    BY <1>4, <2>2, ConcatProperties
  <2>4. Len(zeros) + Len(n) = 13
    BY <1>4, <1>6, <2>2
  <2>5. ASSUME NEW i \in 1..13 PROVE (zeros \o n)[i] = digits[i]
    <3>1. CASE i <= first - 1
      <4>1. (zeros \o n)[i] = 0
        BY <1>6, <2>2, <2>3, <2>4, <3>1
      <4>2. digits[i] = 0
        BY <1>2, <3>1 DEF LeadsAt
      <4> QED BY <4>1, <4>2
    <3>2. CASE ~(i <= first - 1)
      <4> DEFINE k == i - (first - 1)
      <4>1. k \in 1..(14 - first) /\ first + k - 1 = i
        BY <1>6, <3>2
      <4>2. (zeros \o n)[i] = n[k]
        BY <2>2, <2>3, <2>4, <3>2
      <4> HIDE DEF k
      <4> QED BY <1>4, <4>1, <4>2
    <3> QED BY <3>1, <3>2
  <2>6. zeros \o n = digits
    BY <1>1, <2>3, <2>4, <2>5, SeqEqual
  <2> QED BY <1>3, <2>1, <2>6
<1> QED BY <1>2, <1>5, <1>6

-----------------------------------------------------------------------------
(* The code pages.                                                            *)

\* Two tables of the same letters, none of them twice in one of them.
LEMMA RecodeIsUndone ==
  ASSUME NEW a, NEW b, DOMAIN a = DOMAIN b,
         \A i, j \in DOMAIN a : a[i] = a[j] \/ b[i] = b[j] => i = j,
         NEW text, NEW S, text \in [S -> Int]
  PROVE  /\ DOMAIN Recode(Recode(text, a, b), b, a) = S
         /\ \A i \in S : (\A j \in DOMAIN b : text[i] # b[j])
                         => Recode(Recode(text, a, b), b, a)[i] = text[i]
<1> DEFINE there == Recode(text, a, b)
<1>1. DOMAIN text = S /\ DOMAIN there = S /\ DOMAIN Recode(there, b, a) = S
  BY DEF Recode, Counterpart
<1>2. ASSUME NEW i \in S, \A j \in DOMAIN b : text[i] # b[j]
      PROVE  Recode(there, b, a)[i] = text[i]
  <2>1. CASE \E j \in DOMAIN a : a[j] = text[i]
    <3>1. PICK j \in DOMAIN a : a[j] = text[i] /\ there[i] = b[j]
      BY <1>1, <2>1 DEF Recode, Counterpart
    <3>2. Recode(there, b, a)[i] = a[CHOOSE k \in DOMAIN b : b[k] = there[i]]
      BY <1>1, <3>1 DEF Recode, Counterpart
    <3>3. (CHOOSE k \in DOMAIN b : b[k] = there[i]) = j
      BY <3>1
    <3> QED BY <3>1, <3>2, <3>3
  <2>2. CASE ~\E j \in DOMAIN a : a[j] = text[i]
    <3>1. there[i] = text[i]
      BY <1>1, <2>2 DEF Recode, Counterpart
    <3>2. ~\E j \in DOMAIN b : b[j] = there[i]
      BY <1>2, <3>1
    <3> QED BY <1>1, <3>1, <3>2 DEF Recode, Counterpart
  <2> QED BY <2>1, <2>2
<1> QED BY <1>1, <1>2

\* A byte of the second table that is none of the first is recoded back only.
LEMMA OnlyRecodedBack ==
  ASSUME NEW a, NEW b, DOMAIN a = DOMAIN b,
         \A i, j \in DOMAIN a : a[i] # b[j] /\ (b[i] = b[j] => i = j),
         NEW text, NEW S, text \in [S -> Int],
         NEW i \in S, NEW j \in DOMAIN b, text[i] = b[j]
  PROVE  Recode(Recode(text, a, b), b, a)[i] = a[j]
<1> DEFINE there == Recode(text, a, b)
<1>1. DOMAIN text = S /\ DOMAIN there = S
  BY DEF Recode, Counterpart
<1>2. there[i] = b[j]
  BY <1>1 DEF Recode, Counterpart
<1>3. Recode(there, b, a)[i] = a[CHOOSE k \in DOMAIN b : b[k] = there[i]]
  BY <1>1, <1>2 DEF Recode, Counterpart
<1>4. (CHOOSE k \in DOMAIN b : b[k] = there[i]) = j
  BY <1>2
<1> QED BY <1>3, <1>4

LEMMA TablesMatch ==
  /\ DOMAIN ConsoleChar = 1..18 /\ DOMAIN MySQLChar = 1..18
  /\ \A i \in 1..18 : ConsoleChar[i] \in Int /\ MySQLChar[i] \in Int
  BY DEF ConsoleChar, MySQLChar

LEMMA LettersDiffer ==
  \A i, j \in 1..18 :
    ConsoleChar[i] = ConsoleChar[j] \/ MySQLChar[i] = MySQLChar[j] => i = j
<1>1. \A i, j \in 1..18 : ConsoleChar[i] = ConsoleChar[j] => i = j
  BY DEF ConsoleChar
<1>2. \A i, j \in 1..18 : MySQLChar[i] = MySQLChar[j] => i = j
  BY DEF MySQLChar
<1> QED BY <1>1, <1>2

\* No letter of one table is a letter of the other.
LEMMA TablesDiffer ==
  \A i, j \in 1..18 : ConsoleChar[i] # MySQLChar[j]
  BY DEF ConsoleChar, MySQLChar

(* What a line of the console comes back as from MySQL: each byte as it was,  *)
(* but for those that are Polish letters of MySQL's code page, which come     *)
(* back as those letters of the console's (Polish_characters.cpp:88-107).     *)
THEOREM TextIsReadBack ==
  ASSUME NEW S, NEW text \in [S -> Int]
  PROVE  /\ DOMAIN pl_from_mysql(pl_to_mysql(text)) = S
         /\ \A i \in S : (\A j \in 1..18 : text[i] # MySQLChar[j])
                         => pl_from_mysql(pl_to_mysql(text))[i] = text[i]
         /\ \A i \in S : \A j \in 1..18 :
              text[i] = MySQLChar[j]
                => pl_from_mysql(pl_to_mysql(text))[i] = ConsoleChar[j]
<1>1. \A i, j \in 1..18 : /\ ConsoleChar[i] = ConsoleChar[j] \/ MySQLChar[i] = MySQLChar[j] => i = j
                          /\ ConsoleChar[i] # MySQLChar[j]
  BY LettersDiffer, TablesDiffer
<1>2. DOMAIN ConsoleChar = 1..18 /\ DOMAIN MySQLChar = 1..18
  BY TablesMatch
<1>3. /\ DOMAIN pl_from_mysql(pl_to_mysql(text)) = S
      /\ \A i \in S : (\A j \in 1..18 : text[i] # MySQLChar[j])
                      => pl_from_mysql(pl_to_mysql(text))[i] = text[i]
  BY <1>1, <1>2, RecodeIsUndone DEF pl_from_mysql, pl_to_mysql
<1>4. ASSUME NEW i \in S, NEW j \in 1..18, text[i] = MySQLChar[j]
      PROVE  pl_from_mysql(pl_to_mysql(text))[i] = ConsoleChar[j]
  BY <1>1, <1>2, <1>4, OnlyRecodedBack DEF pl_from_mysql, pl_to_mysql
<1> QED BY <1>3, <1>4

-----------------------------------------------------------------------------
(* The literal of a text.                                                     *)

LEMMA Copies ==
  /\ \A p \in Copying : p[1] \in Nat /\ p[2] \in Seq(Int)
  /\ \A p, q \in Copying : p[1] = q[1] /\ p[2] = q[2] => p = q
  BY DEF Copying

(* Any position and any copy are the variables of a loop.                     *)
LEMMA CopyOf ==
  ASSUME NEW i \in Nat, NEW s \in Seq(Int)
  PROVE  \E p \in Copying : p = <<i, s>> /\ p[1] = i /\ p[2] = s
<1>1. <<i, s>> \in Copying /\ <<i, s>>[1] = i /\ <<i, s>>[2] = s
  BY DEF Copying
<1> QED BY <1>1

LEMMA EscapeIsText == \A byte \in Int : Escape(byte) \in Seq(Int)
<1> SUFFICES ASSUME NEW byte \in Int PROVE Escape(byte) \in Seq(Int)
  OBVIOUS
<1>1. CASE byte \in {Backslash, Quote, 34, 26}
  BY <1>1 DEF Escape, Backslash
<1>2. CASE byte \notin {Backslash, Quote, 34, 26}
  BY <1>2 DEF Escape
<1> QED BY <1>1, <1>2

(* Escaping(text) is the function its definition asks for: there is one, since*)
(* the rest of the text gets shorter.                                         *)
LEMMA EscapingLoop ==
  ASSUME NEW text \in Seq(Int)
  PROVE  /\ \A p \in Copying : p[1] >= Len(text) => Escaping(text)[p] = p
         /\ \A p, q \in Copying :
              /\ p[1] < Len(text)
              /\ q[1] = p[1] + 1
              /\ q[2] = p[2] \o Escape(text[p[1] + 1])
              => Escaping(text)[p] = Escaping(text)[q]
<1> DEFINE B == {p \in Copying : p[1] < Len(text)}
           more(p) == p[2] \o Escape(text[p[1] + 1])
           next == [p \in Copying |-> IF p[1] < Len(text) THEN <<p[1] + 1, more(p)>> ELSE p]
           measure == [p \in Copying |-> IF p[1] < Len(text) THEN Len(text) - p[1] ELSE 0]
           Body(f) == [p \in Copying |->
                        IF p[1] < Len(text) THEN f[<<p[1] + 1, more(p)>>] ELSE p]
<1>1. ASSUME NEW p \in Copying, p[1] < Len(text) PROVE more(p) \in Seq(Int)
  <2>1. text[p[1] + 1] \in Int /\ p[2] \in Seq(Int)
    BY <1>1, Copies
  <2>2. Escape(text[p[1] + 1]) \in Seq(Int)
    BY <2>1, EscapeIsText
  <2> QED BY <2>1, <2>2, ConcatProperties
<1>2. \A p \in Copying : p[1] \in Nat /\ Len(text) \in Nat
  BY Copies, LenProperties
<1>3. \A p \in Copying : p[1] < Len(text) => next[p] = <<p[1] + 1, more(p)>>
  OBVIOUS
<1>4. \A p, q \in Copying :
        p[1] < Len(text) /\ q[1] = p[1] + 1 /\ q[2] = more(p) => q = next[p]
  <2> HIDE DEF more
  <2> QED BY <1>3 DEF Copying
<1>5. \A p \in Copying : p[1] < Len(text) => next[p] \in Copying /\ next[p][1] = p[1] + 1
  <2> HIDE DEF more
  <2> QED BY <1>1, <1>2, <1>3 DEF Copying
<1>6. next \in [Copying -> Copying]
  <2>1. \A p \in Copying : next[p] \in Copying
    BY <1>5
  <2>2. next = [p \in Copying |-> next[p]]
    OBVIOUS
  <2> HIDE DEF next
  <2> QED BY <2>1, <2>2
<1>7. measure \in [Copying -> Nat]
  BY <1>2
<1>8. \A p \in Copying : p \in B => measure[next[p]] < measure[p]
  <2> SUFFICES ASSUME NEW p \in Copying, p[1] < Len(text)
               PROVE  measure[next[p]] < measure[p]
    OBVIOUS
  <2>1. next[p] \in Copying /\ next[p][1] = p[1] + 1
    BY <1>5
  <2> HIDE DEF next
  <2> QED BY <1>2, <2>1
<1>9. \A f : f = Body(f) <=> Runs(f, Copying, B, next)
  BY DEF Runs
<1>10. \A p \in Copying : p \in B <=> p[1] < Len(text)
  OBVIOUS
<1>11. Escaping(text) = CHOOSE f : f = Body(f)
  BY DEF Escaping
<1> HIDE DEF B, next, measure, Body
<1>12. \E f : Runs(f, Copying, B, next)
  BY <1>6, <1>7, <1>8, LoopIsDefined
<1>13. Runs(Escaping(text), Copying, B, next)
  BY <1>9, <1>11, <1>12
<1>14. \A p \in Copying : Escaping(text)[p] = IF p \in B THEN Escaping(text)[next[p]] ELSE p
  BY <1>13, LoopStep
<1>15. \A p \in Copying : p[1] >= Len(text) => Escaping(text)[p] = p
  BY <1>2, <1>10, <1>14
<1>16. \A p, q \in Copying :
         p[1] < Len(text) /\ q[1] = p[1] + 1 /\ q[2] = more(p)
         => Escaping(text)[p] = Escaping(text)[q]
  <2> HIDE DEF more
  <2> QED BY <1>4, <1>10, <1>14
<1> QED BY <1>15, <1>16

(* So is Reading(query); a round takes two bytes at an escape, else one.      *)
LEMMA ReadingLoop ==
  ASSUME NEW query \in Seq(Int)
  PROVE  /\ \A p \in Copying : AtEnd(query, p[1]) => Reading(query)[p] = p
         /\ \A p, q \in Copying :
              /\ ~AtEnd(query, p[1]) /\ AtEscape(query, p[1])
              /\ q[1] = p[1] + 2
              /\ q[2] = Append(p[2], Unescaped(query[p[1] + 2]))
              => Reading(query)[p] = Reading(query)[q]
         /\ \A p, q \in Copying :
              /\ ~AtEnd(query, p[1]) /\ ~AtEscape(query, p[1])
              /\ q[1] = p[1] + 1
              /\ q[2] = Append(p[2], query[p[1] + 1])
              => Reading(query)[p] = Reading(query)[q]
<1> DEFINE two(p) == <<p[1] + 2, Append(p[2], Unescaped(query[p[1] + 2]))>>
           one(p) == <<p[1] + 1, Append(p[2], query[p[1] + 1])>>
           next == [p \in Copying |->
                     IF AtEnd(query, p[1]) THEN p
                     ELSE IF AtEscape(query, p[1]) THEN two(p) ELSE one(p)]
           B == {p \in Copying : ~AtEnd(query, p[1])}
           measure == [p \in Copying |-> IF p[1] < Len(query) THEN Len(query) - p[1] ELSE 0]
           Body(f) == [p \in Copying |->
                        IF AtEnd(query, p[1]) THEN p
                        ELSE IF AtEscape(query, p[1]) THEN f[two(p)] ELSE f[one(p)]]
<1>1. \A p \in Copying : p[1] \in Nat /\ p[2] \in Seq(Int) /\ Len(query) \in Nat
  BY Copies, LenProperties
<1>2. \A p \in Copying : ~AtEnd(query, p[1]) =>
        p[1] < Len(query) /\ (AtEscape(query, p[1]) => p[1] + 1 < Len(query))
  BY <1>1 DEF AtEnd, AtEscape
<1>3. ASSUME NEW p \in Copying, ~AtEnd(query, p[1]), AtEscape(query, p[1])
      PROVE  two(p) \in Copying /\ two(p)[1] = p[1] + 2
  <2>1. query[p[1] + 2] \in Int
    BY <1>1, <1>2, <1>3, ElementOfSeq
  <2>2. Unescaped(query[p[1] + 2]) \in Int
    BY <2>1 DEF Unescaped
  <2>3. Append(p[2], Unescaped(query[p[1] + 2])) \in Seq(Int)
    BY <1>1, <2>2, AppendProperties
  <2>4. p[1] + 2 \in Nat
    BY <1>1
  <2> QED BY <2>3, <2>4 DEF Copying
<1>4. ASSUME NEW p \in Copying, ~AtEnd(query, p[1]), ~AtEscape(query, p[1])
      PROVE  one(p) \in Copying /\ one(p)[1] = p[1] + 1
  <2>1. query[p[1] + 1] \in Int
    BY <1>1, <1>2, <1>4, ElementOfSeq
  <2>2. Append(p[2], query[p[1] + 1]) \in Seq(Int)
    BY <1>1, <2>1, AppendProperties
  <2>3. p[1] + 1 \in Nat
    BY <1>1
  <2> QED BY <2>2, <2>3 DEF Copying
<1>5. \A p, q \in Copying :
        /\ q[1] = p[1] + 2
        /\ q[2] = Append(p[2], Unescaped(query[p[1] + 2]))
        => q = two(p)
  BY DEF Copying
<1>6. \A p, q \in Copying :
        q[1] = p[1] + 1 /\ q[2] = Append(p[2], query[p[1] + 1]) => q = one(p)
  BY DEF Copying
<1>7. measure \in [Copying -> Nat]
  BY <1>1
<1>8. \A p \in Copying : p \in B <=> ~AtEnd(query, p[1])
  OBVIOUS
<1>9. Reading(query) = CHOOSE f : f = Body(f)
  BY DEF Reading
<1> HIDE DEF two, one
<1>10. \A p \in Copying :
         next[p] = IF AtEnd(query, p[1]) THEN p
                   ELSE IF AtEscape(query, p[1]) THEN two(p) ELSE one(p)
  OBVIOUS
<1>11. next \in [Copying -> Copying]
  BY <1>3, <1>4
<1>12. ASSUME NEW p \in Copying, p \in B PROVE measure[next[p]] < measure[p]
  <2>1. ~AtEnd(query, p[1]) /\ p[1] < Len(query)
    BY <1>2, <1>8, <1>12
  <2>2. next[p] \in Copying /\ p[1] < next[p][1] /\ next[p][1] \in Nat
    BY <1>1, <1>3, <1>4, <1>10, <2>1
  <2> HIDE DEF next
  <2>3. measure[next[p]] = IF next[p][1] < Len(query) THEN Len(query) - next[p][1] ELSE 0
    BY <2>2
  <2>4. measure[p] = Len(query) - p[1]
    BY <2>1
  <2> QED BY <1>1, <2>1, <2>2, <2>3, <2>4
<1>13. \A f : f = Body(f) <=> Runs(f, Copying, B, next)
  <2>1. ASSUME NEW f
        PROVE  Body(f) = [p \in Copying |-> IF p \in B THEN f[next[p]] ELSE p]
    BY <1>8, <1>10
  <2> HIDE DEF Body, B, next
  <2> QED BY <2>1 DEF Runs
<1> HIDE DEF B, next, measure, Body
<1>14. \E f : Runs(f, Copying, B, next)
  BY <1>7, <1>11, <1>12, LoopIsDefined
<1>15. Runs(Reading(query), Copying, B, next)
  BY <1>9, <1>13, <1>14
<1>16. \A p \in Copying : Reading(query)[p] = IF p \in B THEN Reading(query)[next[p]] ELSE p
  BY <1>15, LoopStep
<1>17. \A p \in Copying : AtEnd(query, p[1]) => Reading(query)[p] = p
  BY <1>8, <1>16
<1>18. \A p, q \in Copying :
         ~AtEnd(query, p[1]) /\ AtEscape(query, p[1]) /\ q = two(p)
         => Reading(query)[p] = Reading(query)[q]
  BY <1>8, <1>10, <1>16
<1>19. \A p, q \in Copying :
         ~AtEnd(query, p[1]) /\ ~AtEscape(query, p[1]) /\ q = one(p)
         => Reading(query)[p] = Reading(query)[q]
  BY <1>8, <1>10, <1>16
<1> QED BY <1>5, <1>6, <1>17, <1>18, <1>19

\* A byte in MySQL's code page.
ToMySQL(byte) == Counterpart(byte, ConsoleChar, MySQLChar)

LEMMA Letters ==
  /\ DOMAIN ConsoleChar = 1..18 /\ DOMAIN MySQLChar = 1..18
  /\ \A i \in 1..18 : ConsoleChar[i] \in Int /\ ConsoleChar[i] > 92
  /\ \A i \in 1..18 : MySQLChar[i] \in Int /\ MySQLChar[i] > 92
  BY DEF ConsoleChar, MySQLChar

(* Quotes, backslashes and whatever else is below the letters keep their code,*)
(* and no letter becomes one of them.                                         *)
LEMMA ByteIsRecoded ==
  ASSUME NEW byte \in Int
  PROVE  /\ ToMySQL(byte) \in Int
         /\ byte <= 92 => ToMySQL(byte) = byte
         /\ byte > 92 => ToMySQL(byte) > 92
<1>1. CASE \E j \in 1..18 : ConsoleChar[j] = byte
  <2> DEFINE k == CHOOSE j \in 1..18 : ConsoleChar[j] = byte
  <2>1. k \in 1..18 /\ ConsoleChar[k] = byte
    BY <1>1
  <2>2. ToMySQL(byte) = MySQLChar[k]
    BY <1>1, Letters DEF ToMySQL, Counterpart
  <2> HIDE DEF k
  <2> QED BY <2>1, <2>2, Letters
<1>2. CASE ~\E j \in 1..18 : ConsoleChar[j] = byte
  BY <1>2, Letters DEF ToMySQL, Counterpart
<1> QED BY <1>1, <1>2

LEMMA TextIsRecoded ==
  ASSUME NEW text \in Seq(Int)
  PROVE  /\ pl_to_mysql(text) \in Seq(Int) /\ Len(pl_to_mysql(text)) = Len(text)
         /\ \A i \in 1..Len(text) : pl_to_mysql(text)[i] = ToMySQL(text[i])
<1> DEFINE recoded == [i \in 1..Len(text) |-> ToMySQL(text[i])]
<1>1. DOMAIN text = 1..Len(text) /\ Len(text) \in Nat
  BY LenProperties
<1>2. pl_to_mysql(text) = recoded
  BY <1>1 DEF pl_to_mysql, Recode, ToMySQL
<1>3. \A i \in 1..Len(text) : ToMySQL(text[i]) \in Int
  BY ElementOfSeq, ByteIsRecoded
<1>4. recoded \in Seq(Int) /\ Len(recoded) = Len(text)
  BY <1>1, <1>3
<1> QED BY <1>2, <1>4

\* The query goes on with s, recoded, and with a byte at least after it.
Starts(query, s) ==
  /\ Len(s) < Len(query)
  /\ \A i \in 1..Len(s) : query[i] = ToMySQL(s[i])

(* A byte that was escaped is read as one byte, itself; a byte that was not is*)
(* neither the end nor an escape.                                             *)
LEMMA EscapedByteIsRead ==
  ASSUME NEW s \in Seq(Int), NEW byte \in Int, byte \in {Backslash, Quote, 34, 26},
         NEW query \in Seq(Int), Starts(query, s \o Escape(byte)),
         NEW r \in Copying, r[1] = Len(s)
  PROVE  /\ Len(s \o Escape(byte)) = Len(s) + 2
         /\ ~AtEnd(query, r[1]) /\ AtEscape(query, r[1])
         /\ Unescaped(query[r[1] + 2]) = ToMySQL(byte)
<1>1. PICK e \in Int : /\ e = (IF byte = 26 THEN 90 ELSE byte) /\ e <= 92
                       /\ Escape(byte) = <<92, e>>
  BY DEF Escape, Backslash, Quote
<1>2. PICK c \in Seq(Int) : c = Escape(byte) /\ Len(c) = 2 /\ c[1] = 92 /\ c[2] = e
  <2>1. <<92, e>> \in Seq(Int) /\ Len(<<92, e>>) = 2 /\ <<92, e>>[1] = 92 /\ <<92, e>>[2] = e
    OBVIOUS
  <2> QED BY <1>1, <2>1
<1>3. PICK t \in Seq(Int) : t = s \o c /\ Len(t) = Len(s) + 2
  <2>1. s \o c \in Seq(Int) /\ Len(s \o c) = Len(s) + Len(c)
    BY ConcatProperties
  <2> QED BY <1>2, <2>1
<1>4. PICK n \in Nat : n = Len(s)
  BY LenProperties
<1>5. t[n + 1] = 92 /\ t[n + 2] = e
  <2>1. \A i \in 1..n + 2 : t[i] = IF i <= n THEN s[i] ELSE c[i - n]
    BY <1>2, <1>3, <1>4, ConcatProperties
  <2>2. t[n + 1] = c[(n + 1) - n] /\ t[n + 2] = c[(n + 2) - n]
    BY <2>1
  <2>3. (n + 1) - n = 1 /\ (n + 2) - n = 2
    OBVIOUS
  <2> QED BY <1>2, <2>2, <2>3
<1>6. n + 2 < Len(query) /\ \A i \in 1..n + 2 : query[i] = ToMySQL(t[i])
  BY <1>2, <1>3, <1>4 DEF Starts
<1>7. query[n + 1] = 92 /\ query[n + 2] = e
  <2>0. PICK x \in Int : x = 92 /\ x <= 92
    OBVIOUS
  <2>1. ToMySQL(x) = x /\ ToMySQL(e) = e
    BY <1>1, <2>0, ByteIsRecoded
  <2>2. query[n + 1] = ToMySQL(t[n + 1]) /\ query[n + 2] = ToMySQL(t[n + 2])
    BY <1>6
  <2> QED BY <1>5, <2>0, <2>1, <2>2
<1>8. Len(query) \in Nat
  BY LenProperties
<1>9. ~AtEnd(query, n) /\ AtEscape(query, n)
  BY <1>6, <1>7, <1>8 DEF AtEnd, AtEscape, Quote, Backslash
<1>10. Unescaped(e) = ToMySQL(byte)
  <2>1. byte \in Int /\ byte <= 92 /\ byte # 90
    BY DEF Backslash, Quote
  <2>2. ToMySQL(byte) = byte
    BY <2>1, ByteIsRecoded
  <2>3. CASE byte = 26
    <3>1. e = 90
      BY <1>1, <2>3
    <3> QED BY <2>2, <2>3, <3>1 DEF Unescaped
  <2>4. CASE byte \in {34, 39, 92}
    <3>1. e = byte
      BY <1>1, <2>4
    <3>2. e # 48 /\ e # 98 /\ e # 116 /\ e # 110 /\ e # 114 /\ e # 90
      BY <2>4, <3>1
    <3> QED BY <2>2, <3>1, <3>2 DEF Unescaped
  <2> QED BY <2>3, <2>4 DEF Backslash, Quote
<1> QED BY <1>2, <1>3, <1>4, <1>7, <1>9, <1>10

LEMMA PlainByteIsRead ==
  ASSUME NEW s \in Seq(Int), NEW byte \in Int, byte \notin {Backslash, Quote, 34, 26},
         NEW query \in Seq(Int), Starts(query, s \o Escape(byte)),
         NEW r \in Copying, r[1] = Len(s)
  PROVE  /\ Len(s \o Escape(byte)) = Len(s) + 1
         /\ ~AtEnd(query, r[1]) /\ ~AtEscape(query, r[1])
         /\ query[r[1] + 1] = ToMySQL(byte)
<1>1. Escape(byte) = <<byte>>
  BY DEF Escape
<1>2. PICK c \in Seq(Int) : c = Escape(byte) /\ Len(c) = 1 /\ c[1] = byte
  <2>1. <<byte>> \in Seq(Int) /\ Len(<<byte>>) = 1 /\ <<byte>>[1] = byte
    OBVIOUS
  <2> QED BY <1>1, <2>1
<1>3. PICK t \in Seq(Int) : t = s \o c /\ Len(t) = Len(s) + 1
  <2>1. s \o c \in Seq(Int) /\ Len(s \o c) = Len(s) + Len(c)
    BY ConcatProperties
  <2> QED BY <1>2, <2>1
<1>4. PICK n \in Nat : n = Len(s)
  BY LenProperties
<1>5. t[n + 1] = byte
  <2>1. \A i \in 1..n + 1 : t[i] = IF i <= n THEN s[i] ELSE c[i - n]
    BY <1>2, <1>3, <1>4, ConcatProperties
  <2>2. t[n + 1] = c[(n + 1) - n] /\ (n + 1) - n = 1
    BY <2>1
  <2> QED BY <1>2, <2>2
<1>6. n + 1 < Len(query) /\ \A i \in 1..n + 1 : query[i] = ToMySQL(t[i])
  BY <1>2, <1>3, <1>4 DEF Starts
<1>7. query[n + 1] = ToMySQL(byte)
  <2>1. query[n + 1] = ToMySQL(t[n + 1])
    BY <1>6
  <2> QED BY <1>5, <2>1
<1>8. ToMySQL(byte) # 39 /\ ToMySQL(byte) # 92
  <2>1. byte # 39 /\ byte # 92
    BY DEF Backslash, Quote
  <2>2. /\ ToMySQL(byte) \in Int
        /\ byte <= 92 => ToMySQL(byte) = byte
        /\ byte > 92 => ToMySQL(byte) > 92
    BY ByteIsRecoded
  <2> QED BY <2>1, <2>2
<1>9. Len(query) \in Nat
  BY LenProperties
<1>10. ~AtEnd(query, n) /\ ~AtEscape(query, n)
  BY <1>6, <1>7, <1>8, <1>9 DEF AtEnd, AtEscape, Quote, Backslash
<1> QED BY <1>2, <1>3, <1>4, <1>7, <1>10

\* After k bytes of the text s has been written, and the server, reading what
\* starts with s, has found them.
Copied(text, k, s) ==
  \A query \in Seq(Int) : Starts(query, s) =>
    \E r \in Copying :
      /\ r[1] = Len(s) /\ Len(r[2]) = k
      /\ \A i \in 1..k : r[2][i] = ToMySQL(text[i])
      /\ Reading(query)[<<0, <<>>>>] = Reading(query)[r]

(* By induction over the bytes of the text: the server finds what was escaped.*)
LEMMA NothingCopied ==
  ASSUME NEW text \in Seq(Int)
  PROVE  Copied(text, 0, <<>>)
<1> SUFFICES ASSUME NEW query \in Seq(Int)
             PROVE  \E r \in Copying :
                      /\ r[1] = Len(<<>>) /\ Len(r[2]) = 0
                      /\ \A i \in 1..0 : r[2][i] = ToMySQL(text[i])
                      /\ Reading(query)[<<0, <<>>>>] = Reading(query)[r]
  BY DEF Copied
<1>1. <<>> \in Seq(Int) /\ Len(<<>>) = 0
  BY EmptySeq
<1>2. PICK r \in Copying : r = <<0, <<>>>> /\ r[1] = 0 /\ r[2] = <<>>
  BY <1>1, CopyOf
<1> QED BY <1>1, <1>2

LEMMA StartsSooner ==
  ASSUME NEW s \in Seq(Int), NEW c \in Seq(Int), NEW query \in Seq(Int), Starts(query, s \o c)
  PROVE  Starts(query, s)
<1>1. Len(s) \in Nat /\ Len(c) \in Nat /\ Len(query) \in Nat
  BY LenProperties
<1>2. Len(s \o c) = Len(s) + Len(c) /\ \A i \in 1..Len(s) : (s \o c)[i] = s[i]
  BY <1>1, ConcatProperties
<1>3. Len(s) < Len(query)
  BY <1>1, <1>2 DEF Starts
<1>4. ASSUME NEW i \in 1..Len(s) PROVE query[i] = ToMySQL(s[i])
  <2>1. i \in 1..Len(s \o c)
    BY <1>1, <1>2
  <2> QED BY <1>2, <2>1 DEF Starts
<1> QED BY <1>3, <1>4 DEF Starts

LEMMA OneMoreCopied ==
  ASSUME NEW text \in Seq(Int), NEW k \in Nat, k < Len(text),
         NEW s \in Seq(Int), Copied(text, k, s)
  PROVE  Copied(text, k + 1, s \o Escape(text[k + 1]))
<1>1. PICK byte \in Int : byte = text[k + 1]
  <2>1. k + 1 \in 1..Len(text)
    BY LenProperties
  <2> QED BY <2>1, ElementOfSeq
<1>2. PICK c \in Seq(Int) : c = Escape(byte)
  BY EscapeIsText
<1> SUFFICES ASSUME NEW query \in Seq(Int), Starts(query, s \o c)
             PROVE  \E q \in Copying :
                      /\ q[1] = Len(s \o c) /\ Len(q[2]) = k + 1
                      /\ \A i \in 1..k + 1 : q[2][i] = ToMySQL(text[i])
                      /\ Reading(query)[<<0, <<>>>>] = Reading(query)[q]
  BY <1>1, <1>2 DEF Copied
<1>3. Starts(query, s)
  BY StartsSooner
<1>4. PICK r \in Copying :
        /\ r[1] = Len(s) /\ Len(r[2]) = k
        /\ \A i \in 1..k : r[2][i] = ToMySQL(text[i])
        /\ Reading(query)[<<0, <<>>>>] = Reading(query)[r]
  BY <1>3 DEF Copied
<1>5. PICK b \in Int : b = ToMySQL(byte)
  BY ByteIsRecoded
<1>6. PICK out \in Seq(Int) : /\ out = Append(r[2], b) /\ Len(out) = k + 1
                              /\ \A i \in 1..k + 1 : out[i] = ToMySQL(text[i])
  <2>1. r[2] \in Seq(Int)
    BY Copies
  <2>2. /\ Append(r[2], b) \in Seq(Int) /\ Len(Append(r[2], b)) = k + 1
        /\ \A i \in 1..k : Append(r[2], b)[i] = r[2][i]
        /\ Append(r[2], b)[k + 1] = b
    <3>1. /\ Append(r[2], b) \in Seq(Int) /\ Len(Append(r[2], b)) = Len(r[2]) + 1
          /\ \A i \in 1..Len(r[2]) : Append(r[2], b)[i] = r[2][i]
          /\ Append(r[2], b)[Len(r[2]) + 1] = b
      BY <2>1, AppendProperties
    <3> QED BY <1>4, <3>1
  <2>3. \A i \in 1..k + 1 : i \in 1..k \/ i = k + 1
    OBVIOUS
  <2>4. \A i \in 1..k + 1 : Append(r[2], b)[i] = ToMySQL(text[i])
    BY <1>1, <1>4, <1>5, <2>2, <2>3
  <2> QED BY <2>2, <2>4
<1>7. CASE byte \in {Backslash, Quote, 34, 26}
  <2>1. /\ Len(s \o c) = Len(s) + 2
        /\ ~AtEnd(query, r[1]) /\ AtEscape(query, r[1])
        /\ Unescaped(query[r[1] + 2]) = b
    <3>1. Starts(query, s \o Escape(byte)) /\ r[1] = Len(s)
      BY <1>2, <1>4
    <3>2. /\ Len(s \o Escape(byte)) = Len(s) + 2
          /\ ~AtEnd(query, r[1]) /\ AtEscape(query, r[1])
          /\ Unescaped(query[r[1] + 2]) = ToMySQL(byte)
      BY <1>7, <3>1, EscapedByteIsRead
    <3> QED BY <1>2, <1>5, <3>2
  <2>2. PICK q \in Copying : q[1] = r[1] + 2 /\ q[2] = out
    <3>1. r[1] + 2 \in Nat
      BY Copies
    <3> QED BY <3>1, CopyOf
  <2>3. Reading(query)[r] = Reading(query)[q]
    <3>1. /\ ~AtEnd(query, r[1]) /\ AtEscape(query, r[1])
          /\ q[1] = r[1] + 2 /\ q[2] = Append(r[2], Unescaped(query[r[1] + 2]))
      BY <1>6, <2>1, <2>2
    <3> QED BY <3>1, ReadingLoop
  <2> QED BY <1>4, <1>6, <2>1, <2>2, <2>3
<1>8. CASE byte \notin {Backslash, Quote, 34, 26}
  <2>1. /\ Len(s \o c) = Len(s) + 1
        /\ ~AtEnd(query, r[1]) /\ ~AtEscape(query, r[1])
        /\ query[r[1] + 1] = b
    <3>1. Starts(query, s \o Escape(byte)) /\ r[1] = Len(s)
      BY <1>2, <1>4
    <3>2. /\ Len(s \o Escape(byte)) = Len(s) + 1
          /\ ~AtEnd(query, r[1]) /\ ~AtEscape(query, r[1])
          /\ query[r[1] + 1] = ToMySQL(byte)
      BY <1>8, <3>1, PlainByteIsRead
    <3> QED BY <1>2, <1>5, <3>2
  <2>2. PICK q \in Copying : q[1] = r[1] + 1 /\ q[2] = out
    <3>1. r[1] + 1 \in Nat
      BY Copies
    <3> QED BY <3>1, CopyOf
  <2>3. Reading(query)[r] = Reading(query)[q]
    <3>1. /\ ~AtEnd(query, r[1]) /\ ~AtEscape(query, r[1])
          /\ q[1] = r[1] + 1 /\ q[2] = Append(r[2], query[r[1] + 1])
      BY <1>6, <2>1, <2>2
    <3> QED BY <3>1, ReadingLoop
  <2> QED BY <1>4, <1>6, <2>1, <2>2, <2>3
<1> QED BY <1>7, <1>8

LEMMA AllCopied ==
  ASSUME NEW text \in Seq(Int)
  PROVE  /\ mysql_code_sanitization(text) \in Seq(Int)
         /\ Copied(text, Len(text), mysql_code_sanitization(text))
<1> DEFINE P(k) == k <= Len(text) =>
                     \E p \in Copying : /\ p[1] = k /\ Copied(text, k, p[2])
                                        /\ Escaping(text)[<<0, <<>>>>] = Escaping(text)[p]
           S == {k \in Nat : P(k)}
<1>1. P(0)
  <2>1. <<>> \in Seq(Int)
    BY EmptySeq
  <2>2. PICK p \in Copying : p = <<0, <<>>>> /\ p[1] = 0 /\ p[2] = <<>>
    BY <2>1, CopyOf
  <2> QED BY <2>2, NothingCopied
<1>2. ASSUME NEW k \in Nat, P(k) PROVE P(k + 1)
  <2> SUFFICES ASSUME k + 1 <= Len(text)
               PROVE  \E q \in Copying : /\ q[1] = k + 1 /\ Copied(text, k + 1, q[2])
                                         /\ Escaping(text)[<<0, <<>>>>] = Escaping(text)[q]
    OBVIOUS
  <2>1. Len(text) \in Nat /\ k < Len(text)
    BY LenProperties
  <2>2. PICK p \in Copying : /\ p[1] = k /\ Copied(text, k, p[2])
                             /\ Escaping(text)[<<0, <<>>>>] = Escaping(text)[p]
    BY <1>2, <2>1
  <2>3. p[2] \in Seq(Int) /\ text[k + 1] \in Int
    <3>1. k + 1 \in 1..Len(text)
      BY <2>1
    <3> QED BY <3>1, Copies, ElementOfSeq
  <2>4. PICK c \in Seq(Int) : c = Escape(text[k + 1])
    BY <2>3, EscapeIsText
  <2>5. p[2] \o c \in Seq(Int)
    BY <2>3, ConcatProperties
  <2>6. PICK q \in Copying : q[1] = k + 1 /\ q[2] = p[2] \o c
    <3>1. k + 1 \in Nat
      OBVIOUS
    <3> QED BY <2>5, <3>1, CopyOf
  <2>7. Escaping(text)[p] = Escaping(text)[q]
    BY <2>1, <2>2, <2>4, <2>6, EscapingLoop
  <2>8. Copied(text, k + 1, q[2])
    BY <2>1, <2>2, <2>3, <2>4, <2>6, OneMoreCopied
  <2> QED BY <2>2, <2>6, <2>7, <2>8
<1> HIDE DEF P
<1>3. S = Nat
  <2>1. 0 \in S /\ S \subseteq Nat /\ \A k \in S : k + 1 \in S
    BY <1>1, <1>2
  <2> HIDE DEF S
  <2> QED BY <2>1, SetInduction
<1>4. Len(text) \in Nat
  BY LenProperties
<1>5. P(Len(text))
  BY <1>3, <1>4
<1>6. PICK p \in Copying : /\ p[1] = Len(text) /\ Copied(text, Len(text), p[2])
                           /\ Escaping(text)[<<0, <<>>>>] = Escaping(text)[p]
  BY <1>4, <1>5 DEF P
<1>7. Escaping(text)[p] = p
  <2>1. p[1] >= Len(text)
    BY <1>4, <1>6
  <2> QED BY <2>1, EscapingLoop
<1>8. mysql_code_sanitization(text) = p[2]
  BY <1>6, <1>7 DEF mysql_code_sanitization
<1> QED BY <1>6, <1>8, Copies

(* The server finds in the INSERT the text that was typed, in its own code page,*)
(* whatever quotes and backslashes it has, although the query is recoded after*)
(* the escaping (Book.cpp:326-334, Connection_data.cpp, mysql_code_sanitization).*)
THEOREM EscapingIsUndone ==
  ASSUME NEW text \in Seq(Int)
  PROVE  Stored(text) = pl_to_mysql(text)
<1>1. PICK s \in Seq(Int) : s = mysql_code_sanitization(text) /\ Copied(text, Len(text), s)
  BY AllCopied
<1>2. PICK n \in Nat : n = Len(s)
  BY LenProperties
<1>3. PICK t \in Seq(Int) : /\ t = s \o <<Quote>> /\ Len(t) = n + 1 /\ t[n + 1] = 39
                            /\ \A i \in 1..n : t[i] = s[i]
  <2>1. Quote \in Int /\ Quote = 39
    BY DEF Quote
  <2>2. s \o <<Quote>> = Append(s, Quote)
    BY <2>1, AppendIsConcat
  <2>3. /\ Append(s, Quote) \in Seq(Int) /\ Len(Append(s, Quote)) = Len(s) + 1
        /\ \A i \in 1..Len(s) : Append(s, Quote)[i] = s[i]
        /\ Append(s, Quote)[Len(s) + 1] = Quote
    BY <2>1, AppendProperties
  <2> QED BY <1>2, <2>1, <2>2, <2>3
<1>4. PICK query \in Seq(Int) : /\ query = pl_to_mysql(t) /\ Len(query) = n + 1
                                /\ \A i \in 1..n + 1 : query[i] = ToMySQL(t[i])
  <2>1. /\ pl_to_mysql(t) \in Seq(Int) /\ Len(pl_to_mysql(t)) = Len(t)
        /\ \A i \in 1..Len(t) : pl_to_mysql(t)[i] = ToMySQL(t[i])
    BY TextIsRecoded
  <2> QED BY <1>3, <2>1
<1>5. Starts(query, s)
  <2>1. ASSUME NEW i \in 1..n PROVE query[i] = ToMySQL(s[i])
    <3>1. i \in 1..n + 1
      OBVIOUS
    <3> QED BY <1>3, <1>4, <3>1
  <2>2. n < n + 1
    OBVIOUS
  <2> QED BY <1>2, <1>4, <2>1, <2>2 DEF Starts
<1>6. PICK r \in Copying :
        /\ r[1] = n /\ Len(r[2]) = Len(text)
        /\ \A i \in 1..Len(text) : r[2][i] = ToMySQL(text[i])
        /\ Reading(query)[<<0, <<>>>>] = Reading(query)[r]
  BY <1>1, <1>2, <1>5 DEF Copied
<1>7. query[n + 1] = Quote
  <2>1. query[n + 1] = ToMySQL(t[n + 1])
    BY <1>4
  <2>2. PICK x \in Int : x = 39 /\ x <= 92
    OBVIOUS
  <2>3. ToMySQL(x) = x
    BY <2>2, ByteIsRecoded
  <2> QED BY <1>3, <2>1, <2>2, <2>3 DEF Quote
<1>8. Reading(query)[r] = r
  <2>1. AtEnd(query, r[1])
    BY <1>2, <1>4, <1>6, <1>7 DEF AtEnd, AtEscape
  <2> QED BY <2>1, ReadingLoop
<1>9. r[2] = pl_to_mysql(text)
  <2>1. r[2] \in Seq(Int) /\ pl_to_mysql(text) \in Seq(Int)
    BY Copies, TextIsRecoded
  <2>2. /\ Len(r[2]) = Len(pl_to_mysql(text))
        /\ \A i \in 1..Len(r[2]) : r[2][i] = pl_to_mysql(text)[i]
    BY <1>6, TextIsRecoded
  <2> QED BY <2>1, <2>2, SeqEqual
<1> QED BY <1>1, <1>3, <1>4, <1>6, <1>8, <1>9 DEF Stored, Literal

-----------------------------------------------------------------------------
(* The registry.                                                              *)

USE DEF Finish, server, program, Form

Inv == IInv /\ UniqueMatchIsTaken

LEMMA InitInv == Init => Inv
  BY BookConstants DEF Init, Inv, IInv, TypeOK, FormIsFresh, OneRowPerClerk,
         AddedIsRegistered, UniqueMatchIsTaken

LEMMA Room == MaxRows \in Nat
  BY BookConstants

LEMMA ListsOfGenres == \A s \in GenreTables : s \in Seq(Genre)
  BY BookConstants

(* Steps that insert nothing: a clerk may start a form for a book that is not *)
(* in the table, go on with the form it has, or leave it without a book.      *)
LEMMA TableKept ==
  ASSUME Inv, TypeOK', UNCHANGED <<rows, inserts>>,
         \A d \in Clerk : pc'[d] \in Form =>
           /\ told'[d] = "nothing"
           /\ \/ pc[d] \in Form /\ isbn'[d] = isbn[d]
              \/ RowsOf(isbn'[d]) = {},
         \A d \in Clerk : told'[d] = "book_added" =>
           told[d] = "book_added" /\ isbn'[d] = isbn[d] /\ genre'[d] = genre[d]
  PROVE  FormIsFresh' /\ OneRowPerClerk' /\ AddedIsRegistered'
<1>1. FormIsFresh'
  BY DEF Inv, IInv, FormIsFresh, RowsOf
<1>2. OneRowPerClerk'
  BY DEF Inv, IInv, OneRowPerClerk
<1>3. AddedIsRegistered'
  BY DEF Inv, IInv, AddedIsRegistered
<1> QED BY <1>1, <1>2, <1>3

(* Steps after which no form has come to its confirmation.                    *)
LEMMA GenreKept ==
  ASSUME Inv,
         \A d \in Clerk : pc'[d] = "approve" =>
           /\ pc[d] = "approve" /\ listed'[d] = listed[d]
           /\ typed'[d] = typed[d] /\ genre'[d] = genre[d]
  PROVE  UniqueMatchIsTaken'
<1> SUFFICES ASSUME NEW d \in Clerk, pc'[d] = "approve",
                    NEW k \in 1..Len(listed'[d]),
                    \A j \in 1..Len(listed'[d]) :
                      <<typed'[d], listed'[d][j]>> \in Within <=> j = k
             PROVE  genre'[d] = listed'[d][k]
  BY DEF UniqueMatchIsTaken
<1>1. /\ pc[d] = "approve" /\ listed'[d] = listed[d]
      /\ typed'[d] = typed[d] /\ genre'[d] = genre[d]
  OBVIOUS
<1>2. \A j \in 1..Len(listed[d]) : <<typed[d], listed[d][j]>> \in Within <=> j = k
  BY <1>1
<1> QED BY <1>1, <1>2 DEF Inv, UniqueMatchIsTaken

LEMMA AddISBNInv ==
  ASSUME Inv, NEW c \in Clerk, AddISBN(c)
  PROVE  Inv'
<1>1. TypeOK'
  BY DEF AddISBN, Inv, IInv, TypeOK
<1>2. FormIsFresh' /\ OneRowPerClerk' /\ AddedIsRegistered'
  <2>1. \A d \in Clerk : pc'[d] \in Form =>
          /\ told'[d] = "nothing"
          /\ \/ pc[d] \in Form /\ isbn'[d] = isbn[d]
             \/ RowsOf(isbn'[d]) = {}
    BY DEF AddISBN, Inv, IInv, TypeOK, FormIsFresh
  <2>2. \A d \in Clerk : told'[d] = "book_added" =>
          told[d] = "book_added" /\ isbn'[d] = isbn[d] /\ genre'[d] = genre[d]
    BY DEF AddISBN, Inv, IInv, TypeOK
  <2> QED BY <1>1, <2>1, <2>2, TableKept DEF AddISBN
<1>3. UniqueMatchIsTaken'
  BY GenreKept DEF AddISBN, Inv, IInv, TypeOK
<1> QED BY <1>1, <1>2, <1>3 DEF Inv, IInv

LEMMA ListGenresInv ==
  ASSUME Inv, NEW c \in Clerk, ListGenres(c)
  PROVE  Inv'
<1>1. TypeOK'
  BY DEF ListGenres, Inv, IInv, TypeOK
<1>2. FormIsFresh' /\ OneRowPerClerk' /\ AddedIsRegistered'
  BY <1>1, TableKept DEF ListGenres, Inv, IInv, TypeOK, FormIsFresh
<1>3. UniqueMatchIsTaken'
  BY GenreKept DEF ListGenres, Inv, IInv, TypeOK
<1> QED BY <1>1, <1>2, <1>3 DEF Inv, IInv

(* The loop stops at the least index that matches: if one index only matches, *)
(* it is that one.                                                            *)
LEMMA ChooseGenreInv ==
  ASSUME Inv, NEW c \in Clerk, ChooseGenre(c)
  PROVE  Inv'
<1> PICK t \in Typed : \E i \in Matches(c, t) :
         /\ genre' = [genre EXCEPT ![c] = listed[c][i]]
         /\ typed' = [typed EXCEPT ![c] = t]
  BY DEF ChooseGenre
<1> PICK i \in Matches(c, t) :
         /\ genre' = [genre EXCEPT ![c] = listed[c][i]]
         /\ typed' = [typed EXCEPT ![c] = t]
  OBVIOUS
<1>0. i \in 1..Len(listed[c]) /\ <<t, listed[c][i]>> \in Within
  BY DEF Matches
<1>1. TypeOK'
  <2>1. listed[c] \in Seq(Genre)
    BY ListsOfGenres DEF Inv, IInv, TypeOK
  <2>2. listed[c][i] \in Genre
    BY <1>0, <2>1
  <2> QED BY <2>2 DEF ChooseGenre, Inv, IInv, TypeOK
<1>2. FormIsFresh' /\ OneRowPerClerk' /\ AddedIsRegistered'
  BY <1>1, TableKept DEF ChooseGenre, Inv, IInv, TypeOK, FormIsFresh
<1>3. UniqueMatchIsTaken'
  <2> SUFFICES ASSUME NEW d \in Clerk, pc'[d] = "approve",
                      NEW k \in 1..Len(listed[d]),
                      \A j \in 1..Len(listed[d]) :
                        <<typed'[d], listed[d][j]>> \in Within <=> j = k
               PROVE  genre'[d] = listed[d][k]
    BY DEF UniqueMatchIsTaken, ChooseGenre
  <2>1. CASE d = c
    <3>1. typed'[c] = t /\ genre'[c] = listed[c][i]
      BY DEF Inv, IInv, TypeOK
    <3> QED BY <1>0, <2>1, <3>1
  <2>2. CASE d # c
    <3>1. pc[d] = "approve" /\ typed'[d] = typed[d] /\ genre'[d] = genre[d]
      BY <2>2 DEF ChooseGenre, Inv, IInv, TypeOK
    <3>2. \A j \in 1..Len(listed[d]) : <<typed[d], listed[d][j]>> \in Within <=> j = k
      BY <3>1
    <3> QED BY <3>1, <3>2 DEF Inv, UniqueMatchIsTaken
  <2> QED BY <2>1, <2>2
<1> QED BY <1>1, <1>2, <1>3 DEF Inv, IInv

(* "n" and "y", a failed INSERT, a crash, a cleared screen: the table and the *)
(* form stay.                                                                 *)
LEMMA FormLeftInv ==
  ASSUME Inv, NEW c \in Clerk,
         Approve(c) \/ InsertFails(c) \/ Crash(c) \/ ClearScreen(c)
  PROVE  Inv'
<1>1. TypeOK'
  BY DEF Approve, InsertFails, Crash, ClearScreen, Inv, IInv, TypeOK
<1>2. FormIsFresh' /\ OneRowPerClerk' /\ AddedIsRegistered'
  BY <1>1, TableKept DEF Approve, InsertFails, Crash, ClearScreen, Inv, IInv, TypeOK, FormIsFresh
<1>3. UniqueMatchIsTaken'
  BY GenreKept DEF Approve, InsertFails, Crash, ClearScreen, Inv, IInv, TypeOK
<1> QED BY <1>1, <1>2, <1>3 DEF Inv, IInv

(* The new row is its clerk's first for the ISBN, by FormIsFresh.             *)
LEMMA InsertBookInv ==
  ASSUME Inv, NEW c \in Clerk, InsertBook(c)
  PROVE  Inv'
<1> DEFINE new == NewRow(c)
<1>0. /\ pc[c] = "insert_book" /\ inserts < MaxRows
      /\ rows' = rows \cup {new} /\ inserts' = inserts + 1
      /\ UNCHANGED <<genres, isbn, title, listed, genre, typed>>
      /\ pc' = [pc EXCEPT ![c] = "menu"]
      /\ \/ told' = [told EXCEPT ![c] = "book_added"]
         \/ told' = [told EXCEPT ![c] = "book_not_added"]
  BY DEF InsertBook
<1>a. /\ new.n = inserts /\ new.isbn = Number(isbn[c])
      /\ new.genre = genre[c] /\ new.by = c
  BY DEF NewRow
<1>b. inserts \in Nat /\ inserts + 1 \in 0..MaxRows
  <2>1. inserts \in 0..MaxRows
    BY DEF Inv, IInv, TypeOK
  <2>2. inserts < MaxRows
    BY <1>0
  <2> QED BY <2>1, <2>2, Room
<1>1. TypeOK'
  <2>1. inserts \in Nat /\ inserts + 1 \in 0..MaxRows
    BY <1>b
  <2>2. isbn[c] \in ISBN /\ title[c] \in Title /\ genre[c] \in Genre
    BY DEF Inv, IInv, TypeOK
  <2>3. new \in Row
    BY <2>1, <2>2 DEF Row, NewRow
  <2> QED BY <1>0, <2>1, <2>3 DEF Inv, IInv, TypeOK
<1> HIDE DEF new
<1>2. FormIsFresh'
  <2>1. \A r \in rows' : r.n < inserts'
    <3>1. \A r \in rows : r.n \in Nat /\ r.n < inserts
      BY DEF Inv, IInv, TypeOK, Row, FormIsFresh
    <3>2. inserts' = inserts + 1 /\ rows' = rows \cup {new}
      BY <1>0
    <3> QED BY <1>a, <1>b, <3>1, <3>2
  <2>2. \A d \in Clerk : pc'[d] \in Form => d # c /\ pc[d] \in Form /\ told'[d] = told[d]
    BY <1>0 DEF Inv, IInv, TypeOK
  <2> QED BY <1>0, <1>a, <2>1, <2>2 DEF Inv, IInv, FormIsFresh
<1>3. OneRowPerClerk'
  <2>1. \A r \in rows : r.by = c => r.isbn # new.isbn
    BY <1>0, <1>a DEF Inv, IInv, FormIsFresh
  <2> QED BY <1>0, <1>a, <2>1 DEF Inv, IInv, OneRowPerClerk
<1>4. AddedIsRegistered'
  <2>1. \A d \in Clerk : told'[d] = "book_added" => d = c \/ told[d] = "book_added"
    BY <1>0 DEF Inv, IInv, TypeOK
  <2> QED BY <1>0, <1>a, <2>1 DEF Inv, IInv, AddedIsRegistered
<1>5. UniqueMatchIsTaken'
  BY <1>0, GenreKept DEF Inv, IInv, TypeOK
<1> QED BY <1>1, <1>2, <1>3, <1>4, <1>5 DEF Inv, IInv

LEMMA EditGenresInv ==
  ASSUME Inv, EditGenres
  PROVE  Inv'
<1>1. TypeOK'
  BY DEF EditGenres, Inv, IInv, TypeOK
<1>2. FormIsFresh' /\ OneRowPerClerk' /\ AddedIsRegistered'
  BY <1>1, TableKept DEF EditGenres, Inv, IInv, FormIsFresh
<1>3. UniqueMatchIsTaken'
  BY GenreKept DEF EditGenres
<1> QED BY <1>1, <1>2, <1>3 DEF Inv, IInv

LEMMA NextInv == Inv /\ [Next]_vars => Inv'
<1> SUFFICES ASSUME Inv, [Next]_vars PROVE Inv'
  OBVIOUS
<1>1. ASSUME NEW c \in Clerk, ClerkStep(c) PROVE Inv'
  BY <1>1, AddISBNInv, ListGenresInv, ChooseGenreInv, FormLeftInv, InsertBookInv
     DEF ClerkStep
<1>2. CASE EditGenres
  BY <1>2, EditGenresInv
<1>3. CASE UNCHANGED vars
  <2>1. TypeOK'
    BY <1>3 DEF vars, Inv, IInv, TypeOK
  <2>2. FormIsFresh' /\ OneRowPerClerk' /\ AddedIsRegistered'
    BY <1>3, <2>1, TableKept DEF vars, Inv, IInv, FormIsFresh
  <2>3. UniqueMatchIsTaken'
    BY <1>3, GenreKept DEF vars
  <2> QED BY <2>1, <2>2, <2>3 DEF Inv, IInv
<1> QED BY <1>1, <1>2, <1>3 DEF Next

(* The types of the table and of the form are kept.                           *)
THEOREM TypeCorrect == Spec => []TypeOK
<1>1. Inv => TypeOK
  BY DEF Inv, IInv
<1> QED BY <1>1, InitInv, NextInv, PTL DEF Spec

(* The look at the table before the form is enough for one clerk, without a   *)
(* key on the server (Book.cpp:121-156).                                      *)
THEOREM BooksAreEnteredOnce == Spec => []OneRowPerClerk
<1>1. Inv => OneRowPerClerk
  BY DEF Inv, IInv
<1> QED BY <1>1, InitInv, NextInv, PTL DEF Spec

(* A book the clerk was told is added is in the table (Book.cpp:318-345).     *)
THEOREM AddedBooksAreThere == Spec => []AddedIsRegistered
<1>1. Inv => AddedIsRegistered
  BY DEF Inv, IInv
<1> QED BY <1>1, InitInv, NextInv, PTL DEF Spec

(* A text that fits one listed genre stands for it (Book.cpp:212-230).        *)
THEOREM ChoiceIsHonoured == Spec => []UniqueMatchIsTaken
<1>1. Inv => UniqueMatchIsTaken
  BY DEF Inv
<1> QED BY <1>1, InitInv, NextInv, PTL DEF Spec

-----------------------------------------------------------------------------
(* What a row is made of.                                                     *)
MadeOfConfirmed(r) ==
  /\ r.confirmed.isbn \in ISBN /\ r.isbn = Number(r.confirmed.isbn)
  /\ r.confirmed.title \in Title /\ r.title = Stored(r.confirmed.title)
  /\ r.confirmed = [isbn |-> r.confirmed.isbn, title |-> r.confirmed.title]

LEMMA RowsAreOld ==
  ASSUME Inv, [Next]_vars, \A c \in Clerk : ~InsertBook(c)
  PROVE  rows' = rows
  BY DEF Next, ClerkStep, AddISBN, ListGenres, ChooseGenre, Approve, InsertFails, Crash,
         ClearScreen, EditGenres, vars

LEMMA RowsInv ==
  ASSUME Inv, [Next]_vars, \A r \in rows : MadeOfConfirmed(r)
  PROVE  \A r \in rows' : MadeOfConfirmed(r)
<1>1. CASE \E c \in Clerk : InsertBook(c)
  <2> PICK c \in Clerk : InsertBook(c)
    BY <1>1
  <2>1. rows' = rows \cup {NewRow(c)}
    BY DEF InsertBook
  <2>2. isbn[c] \in ISBN /\ title[c] \in Title
    BY DEF Inv, IInv, TypeOK
  <2>3. MadeOfConfirmed(NewRow(c))
    BY <2>2 DEF MadeOfConfirmed, NewRow
  <2> QED BY <2>1, <2>3
<1>2. CASE \A c \in Clerk : ~InsertBook(c)
  BY <1>2, RowsAreOld
<1> QED BY <1>1, <1>2

LEMMA ISBNsHave13Digits == \A b \in ISBN : is_ISBN(b)
  BY BookConstants

(* What a later look at a book shows, for all titles of bytes: rows are made  *)
(* of what was confirmed only, the titles come back from their literals and   *)
(* their code page, but for the bytes that are letters to MySQL, and the ISBNs*)
(* get their zeros back (Book.cpp:20-30, 313-334).                            *)
THEOREM BooksAreReadBack ==
  ASSUME \A x \in Title : x \in Seq(Int)
  PROVE  Spec => []ShownAsConfirmed
<1> DEFINE Made == \A r \in rows : MadeOfConfirmed(r)
<1>1. Init => Made
  BY DEF Init
<1>2. Inv /\ Made /\ [Next]_vars => Made'
  BY RowsInv
<1>3. Made => ShownAsConfirmed
  <2> SUFFICES ASSUME NEW r \in rows, MadeOfConfirmed(r)
               PROVE  /\ Padded(r.isbn) = r.confirmed.isbn
                      /\ DOMAIN pl_from_mysql(r.title) = DOMAIN r.confirmed.title
                      /\ \A i \in DOMAIN r.confirmed.title :
                           /\ (\A j \in 1..18 : r.confirmed.title[i] # MySQLChar[j])
                                => pl_from_mysql(r.title)[i] = r.confirmed.title[i]
                           /\ \A j \in 1..18 :
                                r.confirmed.title[i] = MySQLChar[j]
                                  => pl_from_mysql(r.title)[i] = ConsoleChar[j]
    BY DEF ShownAsConfirmed, MySQL_row_to_book
  <2>1. is_ISBN(r.confirmed.isbn)
    BY ISBNsHave13Digits DEF MadeOfConfirmed
  <2>2. Padded(r.isbn) = r.confirmed.isbn
    BY <2>1, ISBNIsReadBack DEF MadeOfConfirmed
  <2>3. PICK x \in Title : x = r.confirmed.title /\ r.title = Stored(x)
    BY DEF MadeOfConfirmed
  <2>4. x \in Seq(Int) /\ r.title = pl_to_mysql(x)
    BY <2>3, EscapingIsUndone
  <2>5. x \in [DOMAIN x -> Int]
    BY <2>4, LenProperties
  <2>6. /\ DOMAIN pl_from_mysql(pl_to_mysql(x)) = DOMAIN x
        /\ \A i \in DOMAIN x : (\A j \in 1..18 : x[i] # MySQLChar[j])
                               => pl_from_mysql(pl_to_mysql(x))[i] = x[i]
        /\ \A i \in DOMAIN x : \A j \in 1..18 :
             x[i] = MySQLChar[j] => pl_from_mysql(pl_to_mysql(x))[i] = ConsoleChar[j]
    BY <2>5, TextIsReadBack
  <2> QED BY <2>2, <2>3, <2>4, <2>6
<1> HIDE DEF Made
<1> QED BY <1>1, <1>2, <1>3, InitInv, NextInv, PTL DEF Spec
=============================================================================
