---------------------------- MODULE LibraryProofs ----------------------------
(* Clerks who enter books and patrons do not disturb the clerks who lend:     *)
(* Library implements Lending, for all constants.                             *)
EXTENDS Library, TLAPS

(* The places and verdicts Lending knows; a clerk at another place is in one  *)
(* of the other two functions.                                                *)
Places   == {"menu", "isbn", "confirm",
             "patron", "book", "scan", "repair", "insert", "mark"}
Verdicts == {"nothing", "lent", "not lent"}

(* What the refinement needs of the types: the program's variables have a     *)
(* value for every clerk.                                                     *)
Shape ==
  /\ pc = [c \in Clerk |-> pc[c]]
  /\ told = [c \in Clerk |-> told[c]]
  /\ insertId = [c \in Clerk |-> insertId[c]]
  /\ isbn \in [Clerk -> ISBN]

Inv == Shape /\ FormsAreSilent

LEMMA InitInv == Init => Inv
  BY DEF Init, Patrons!Init, Books!Init, Inv, Shape, FormsAreSilent

-----------------------------------------------------------------------------
(* What Lending sees of a place and a verdict.                                *)
LEMMA Seen ==
  ASSUME NEW c \in Clerk
  PROVE  /\ lendingPc[c] = IF pc[c] \in Places THEN pc[c] ELSE "menu"
         /\ lendingTold[c] = IF told[c] \in Verdicts THEN told[c] ELSE "nothing"
BY DEF lendingPc, lendingTold, Lending!Busy, Lending!Queries, Places, Verdicts

LEMMA PcMoves ==
  ASSUME Shape, NEW c \in Clerk, NEW x \in Places, pc' = [pc EXCEPT ![c] = x]
  PROVE  lendingPc' = [lendingPc EXCEPT ![c] = x]
<1>1. \A d \in Clerk : pc'[d] = IF d = c THEN x ELSE pc[d]
  BY DEF Shape
<1>2. x \in Lending!Busy \/ x = "menu"
  BY DEF Lending!Busy, Lending!Queries, Places
<1> HIDE DEF Places
<1> QED BY <1>1, <1>2 DEF lendingPc

LEMMA ToldMoves ==
  ASSUME Shape, NEW c \in Clerk, NEW v \in Verdicts, told' = [told EXCEPT ![c] = v]
  PROVE  lendingTold' = [lendingTold EXCEPT ![c] = v]
<1>1. \A d \in Clerk : told'[d] = IF d = c THEN v ELSE told[d]
  BY DEF Shape
<1> QED BY <1>1 DEF lendingTold, Verdicts

(* A form that starts takes the verdict from the screen, and a form that ends  *)
(* shows one that is not Lending's.                                           *)
LEMMA FormSeen ==
  ASSUME Shape, NEW c \in Clerk, NEW x, NEW v,
         pc[c] \notin Lending!Busy, x \notin Lending!Busy,
         v \notin {"lent", "not lent"},
         pc' = [pc EXCEPT ![c] = x],
         told' = [told EXCEPT ![c] = v]
  PROVE  lendingPc' = lendingPc /\ lendingTold' = [lendingTold EXCEPT ![c] = "nothing"]
<1>1. \A d \in Clerk : pc'[d] = IF d = c THEN x ELSE pc[d]
  BY DEF Shape
<1>2. \A d \in Clerk : told'[d] = IF d = c THEN v ELSE told[d]
  BY DEF Shape
<1>3. lendingPc' = lendingPc
  BY <1>1 DEF lendingPc
<1>4. lendingTold' = [lendingTold EXCEPT ![c] = "nothing"]
  BY <1>2 DEF lendingTold
<1> QED BY <1>3, <1>4

LEMMA ToldKept == told' = told => lendingTold' = lendingTold
  BY DEF lendingTold

LEMMA PcKept == pc' = pc => lendingPc' = lendingPc
  BY DEF lendingPc

-----------------------------------------------------------------------------
(* Every step of a loan is the same step with the other functions hidden.     *)
LEMMA AddLibraryCardNumberSeen ==
  ASSUME Inv, NEW c \in Clerk, Lending!AddLibraryCardNumber(c)
  PROVE  Alone!AddLibraryCardNumber(c)
BY Seen, PcMoves, ToldMoves, ToldKept, PcKept
   DEF Inv, Places, Verdicts, Lending!AddLibraryCardNumber,
       Alone!AddLibraryCardNumber, Lending!Finish, Alone!Finish, Lending!tables,
       Alone!tables, Lending!history, Alone!history, Lending!MayBorrow,
       Alone!MayBorrow

LEMMA AddISBNSeen ==
  ASSUME Inv, NEW c \in Clerk, Lending!AddISBN(c)
  PROVE  Alone!AddISBN(c)
BY Seen, PcMoves, ToldMoves, ToldKept, PcKept
   DEF Inv, Places, Verdicts, Lending!AddISBN, Alone!AddISBN, Lending!Finish,
       Alone!Finish, Lending!tables, Alone!tables, Lending!history, Alone!history,
       Lending!MayBeLent, Alone!MayBeLent

LEMMA DeclineSeen ==
  ASSUME Inv, NEW c \in Clerk, Lending!Decline(c)
  PROVE  Alone!Decline(c)
BY Seen, PcMoves, ToldMoves, ToldKept, PcKept
   DEF Inv, Places, Verdicts, Lending!Decline, Alone!Decline, Lending!Finish,
       Alone!Finish, Lending!tables, Alone!tables, Lending!history, Alone!history

LEMMA ApproveSeen ==
  ASSUME Inv, NEW c \in Clerk, Lending!Approve(c)
  PROVE  Alone!Approve(c)
BY Seen, PcMoves, ToldMoves, ToldKept, PcKept
   DEF Inv, Places, Verdicts, Lending!Approve, Alone!Approve, Lending!Finish,
       Alone!Finish, Lending!tables, Alone!tables, Lending!history, Alone!history,
       Lending!Goto, Alone!Goto

LEMMA RecheckPatronSeen ==
  ASSUME Inv, NEW c \in Clerk, Lending!RecheckPatron(c)
  PROVE  Alone!RecheckPatron(c)
BY Seen, PcMoves, ToldMoves, ToldKept, PcKept
   DEF Inv, Places, Verdicts, Lending!RecheckPatron, Alone!RecheckPatron,
       Lending!Finish, Alone!Finish, Lending!tables, Alone!tables, Lending!history,
       Alone!history, Lending!MayBorrow, Alone!MayBorrow

LEMMA RecheckBookSeen ==
  ASSUME Inv, NEW c \in Clerk, Lending!RecheckBook(c)
  PROVE  Alone!RecheckBook(c)
BY Seen, PcMoves, ToldMoves, ToldKept, PcKept
   DEF Inv, Places, Verdicts, Lending!RecheckBook, Alone!RecheckBook,
       Lending!Finish, Alone!Finish, Lending!tables, Alone!tables, Lending!history,
       Alone!history, Lending!MayBeLent, Alone!MayBeLent

LEMMA ScanLoansSeen ==
  ASSUME Inv, NEW c \in Clerk, Lending!ScanLoans(c)
  PROVE  Alone!ScanLoans(c)
BY Seen, PcMoves, ToldMoves, ToldKept, PcKept
   DEF Inv, Places, Verdicts, Lending!ScanLoans, Alone!ScanLoans, Lending!Finish,
       Alone!Finish, Lending!tables, Alone!tables, Lending!history, Alone!history,
       Lending!LoansOf, Alone!LoansOf

LEMMA RepairSeen ==
  ASSUME Inv, NEW c \in Clerk, Lending!Repair(c)
  PROVE  Alone!Repair(c)
BY Seen, PcMoves, ToldMoves, ToldKept, PcKept
   DEF Inv, Places, Verdicts, Lending!Repair, Alone!Repair, Lending!Finish,
       Alone!Finish, Lending!tables, Alone!tables, Lending!history, Alone!history,
       Lending!SetCheckedOut, Alone!SetCheckedOut, Lending!UpdateFails,
       Alone!UpdateFails

LEMMA InsertLoanSeen ==
  ASSUME Inv, NEW c \in Clerk, Lending!InsertLoan(c)
  PROVE  Alone!InsertLoan(c)
BY Seen, PcMoves, ToldMoves, ToldKept, PcKept
   DEF Inv, Places, Verdicts, Lending!InsertLoan, Alone!InsertLoan, Lending!Finish,
       Alone!Finish, Lending!tables, Alone!tables, Lending!history, Alone!history,
       Lending!NewLoan, Alone!NewLoan

LEMMA MarkCheckedOutSeen ==
  ASSUME Inv, NEW c \in Clerk, Lending!MarkCheckedOut(c)
  PROVE  Alone!MarkCheckedOut(c)
BY Seen, PcMoves, ToldMoves, ToldKept, PcKept
   DEF Inv, Places, Verdicts, Lending!MarkCheckedOut, Alone!MarkCheckedOut,
       Lending!Finish, Alone!Finish, Lending!tables, Alone!tables, Lending!history,
       Alone!history, Lending!SetCheckedOut, Alone!SetCheckedOut,
       Lending!UpdateFails, Alone!UpdateFails

LEMMA QueryFailsSeen ==
  ASSUME Inv, NEW c \in Clerk, Lending!QueryFails(c)
  PROVE  Alone!QueryFails(c)
BY Seen, PcMoves, ToldMoves, ToldKept, PcKept
   DEF Inv, Places, Verdicts, Lending!QueryFails, Alone!QueryFails, Lending!Finish,
       Alone!Finish, Lending!tables, Alone!tables, Lending!history, Alone!history

LEMMA CrashSeen ==
  ASSUME Inv, NEW c \in Clerk, Lending!Crash(c)
  PROVE  Alone!Crash(c)
BY Seen, PcMoves, ToldMoves, ToldKept, PcKept
   DEF Inv, Places, Verdicts, Lending!Crash, Alone!Crash, Lending!Finish,
       Alone!Finish, Lending!tables, Alone!tables, Lending!history, Alone!history,
       Lending!Busy, Alone!Busy, Lending!Queries, Alone!Queries

LEMMA ClearScreenSeen ==
  ASSUME Inv, NEW c \in Clerk, Lending!ClearScreen(c)
  PROVE  Alone!ClearScreen(c)
BY Seen, PcMoves, ToldMoves, ToldKept, PcKept
   DEF Inv, Places, Verdicts, Lending!ClearScreen, Alone!ClearScreen,
       Lending!Finish, Alone!Finish, Lending!tables, Alone!tables, Lending!history,
       Alone!history, Lending!Goto, Alone!Goto

LEMMA LoanSeen ==
  ASSUME Inv, NEW c \in Clerk, Lending!ClerkStep(c)
  PROVE  Alone!ClerkStep(c)
BY AddLibraryCardNumberSeen, AddISBNSeen, DeclineSeen, ApproveSeen,
   RecheckPatronSeen, RecheckBookSeen, ScanLoansSeen, RepairSeen, InsertLoanSeen,
   MarkCheckedOutSeen, QueryFailsSeen, CrashSeen, ClearScreenSeen
   DEF Lending!ClerkStep, Lending!DatabaseStep, Alone!ClerkStep, Alone!DatabaseStep

(* A loan keeps its clerk's forms closed and shows a verdict at the menu only. *)
LEMMA LoanInv ==
  ASSUME Inv, NEW c \in Clerk, AddTransaction(c)
  PROVE  Inv'
<1>1. \E x \in Places, v \in Verdicts \cup {told[c]} :
        /\ pc' = [pc EXCEPT ![c] = x] /\ told' = [told EXCEPT ![c] = v]
        /\ x # "menu" => v = "nothing"
  <2>1. \A d \in Clerk : pc[d] # "menu" => told[d] = "nothing"
    BY DEF Inv, FormsAreSilent
  <2>2. pc = [d \in Clerk |-> pc[d]] /\ told = [d \in Clerk |-> told[d]]
    BY DEF Inv, Shape
  <2> QED BY <2>1, <2>2
      DEF Places, Verdicts, AddTransaction, Lending!ClerkStep, Lending!DatabaseStep,
          Lending!AddLibraryCardNumber, Lending!AddISBN, Lending!Decline,
             Lending!Approve, Lending!RecheckPatron, Lending!RecheckBook,
             Lending!ScanLoans, Lending!Repair, Lending!InsertLoan,
             Lending!MarkCheckedOut, Lending!QueryFails, Lending!Crash,
             Lending!ClearScreen, Lending!Finish, Lending!Goto, Lending!Busy,
             Lending!Queries
<1>2. insertId' = insertId /\ isbn' = isbn
  BY DEF AddTransaction, patronVars, bookVars
<1> QED BY <1>1, <1>2 DEF Inv, Shape, FormsAreSilent, Places, Patrons!IsCard

-----------------------------------------------------------------------------
(* A step of a form that changes no row clears, for Lending, the screen: the  *)
(* clerk comes from the menu, or had no verdict before.                       *)
LEMMA FormStep ==
  ASSUME Inv, NEW c \in Clerk, NEW x, NEW v, x \notin Places \ {"menu"},
         v \notin {"lent", "not lent"},
         pc[c] \notin Places \ {"menu"},
         pc' = [pc EXCEPT ![c] = x],
         told' = [told EXCEPT ![c] = v] \/ (told' = told /\ pc[c] # "menu"),
         UNCHANGED <<lendingVars, booksSeen, patronsSeen>>
  PROVE  Alone!ClearScreen(c)
<1>1. Lending!Busy = Places \ {"menu"}
  BY DEF Lending!Busy, Lending!Queries, Places
<1>2. pc[c] # "menu" => told[c] = "nothing"
  BY DEF Inv, FormsAreSilent
<1>3. told' = [told EXCEPT ![c] = v] \/ told' = [told EXCEPT ![c] = "nothing"]
  BY <1>2 DEF Inv, Shape
<1>4. lendingPc' = lendingPc /\ lendingTold' = [lendingTold EXCEPT ![c] = "nothing"]
  BY <1>1, <1>3, FormSeen DEF Inv
<1>5. lendingPc[c] = "menu" /\ lendingPc = [lendingPc EXCEPT ![c] = "menu"]
  BY <1>1 DEF lendingPc
<1> QED BY <1>4, <1>5 DEF Alone!ClearScreen, Alone!Goto, Alone!tables, Alone!history,
           lendingVars

(* A step of a form that adds a row shows Lending the same screen.            *)
LEMMA FormInserts ==
  ASSUME Inv, NEW c \in Clerk, NEW x, NEW v, x \notin Places \ {"menu"},
         v \notin {"lent", "not lent"},
         pc[c] \notin Places,
         pc' = [pc EXCEPT ![c] = x],
         told' = [told EXCEPT ![c] = v] \/ told' = told
  PROVE  lendingPc' = lendingPc /\ lendingTold' = lendingTold
<1>1. Lending!Busy = Places \ {"menu"}
  BY DEF Lending!Busy, Lending!Queries, Places
<1>2. told[c] = "nothing"
  BY DEF Inv, FormsAreSilent, Places
<1>3. told' = [told EXCEPT ![c] = v] \/ told' = [told EXCEPT ![c] = "nothing"]
  BY <1>2 DEF Inv, Shape
<1>4. lendingPc' = lendingPc /\ lendingTold' = [lendingTold EXCEPT ![c] = "nothing"]
  BY <1>1, <1>3, FormSeen DEF Inv, Places
<1>5. lendingTold = [lendingTold EXCEPT ![c] = "nothing"]
  BY <1>2 DEF lendingTold
<1> QED BY <1>4, <1>5

-----------------------------------------------------------------------------
(* add_patron: the INSERT may register a patron, the DELETE takes a row that  *)
(* no look-up for a loan sees.                                                *)
LEMMA PatronInsertSeen ==
  ASSUME Inv, NEW c \in Clerk, UNCHANGED <<bookVars, lendingVars>>,
         Patrons!InsertPatron(c)
  PROVE  (\E k \in Card : Alone!RegisterPatron(k)) \/ UNCHANGED Alone!vars
<1>1. /\ pc[c] = "insert_patron"
      /\ patronRows' = patronRows \cup {[card |-> autoInc, by |-> c]}
  BY DEF Patrons!InsertPatron
<1>2. PICK x \in {"delete", "menu"}, v \in {"patron_added", "patron_not_added"} :
        /\ pc' = [pc EXCEPT ![c] = x]
        /\ told' = [told EXCEPT ![c] = v] \/ told' = told
  BY DEF Patrons!InsertPatron, Patrons!Accept, Patrons!Finish
<1>3. lendingPc' = lendingPc /\ lendingTold' = lendingTold
  BY <1>1, <1>2, FormInserts DEF Places
<1>4. booksSeen' = booksSeen /\ UNCHANGED lendingVars
  BY DEF booksSeen, bookVars
<1>5. patronsSeen' = patronsSeen \cup ({autoInc} \cap Card)
  <2> DEFINE new == [card |-> autoInc, by |-> c]
  <2>1. new.card = autoInc /\ patronRows' = patronRows \cup {new}
    BY <1>1
  <2> HIDE DEF new
  <2>2. {r.card : r \in patronRows'} = {r.card : r \in patronRows} \cup {new.card}
    BY <2>1
  <2> QED BY <2>1, <2>2 DEF patronsSeen
<1>6. CASE autoInc \in Card /\ autoInc \notin patronsSeen
  BY <1>3, <1>4, <1>5, <1>6
     DEF Alone!RegisterPatron, Alone!program, Alone!history, lendingVars
<1>7. CASE ~(autoInc \in Card /\ autoInc \notin patronsSeen)
  <2>1. patronsSeen' = patronsSeen
    BY <1>5, <1>7
  <2> QED BY <1>3, <1>4, <2>1
          DEF Alone!vars, Alone!tables, Alone!program, Alone!history, lendingVars
<1> QED BY <1>6, <1>7

LEMMA PatronSeen ==
  ASSUME Inv, NEW c \in Clerk, AddPatron(c)
  PROVE  [Alone!Next]_(Alone!vars)
<1>1. CASE Patrons!InsertPatron(c)
  BY <1>1, PatronInsertSeen DEF AddPatron, Alone!Next
<1>2. CASE ~Patrons!InsertPatron(c)
  <2>1. PICK x \in {"menu", "status", "alter", "insert_patron", "delete"},
             v \in {"nothing", "patron_not_added"} :
          /\ pc' = [pc EXCEPT ![c] = x]
          /\ \/ told' = [told EXCEPT ![c] = v]
             \/ told' = told /\ pc[c] # "menu"
          /\ pc[c] \in {"menu", "status", "alter", "insert_patron", "delete"}
    BY <1>2 DEF AddPatron, Patrons!ClerkStep, Patrons!DatabaseStep, Patrons!Approve,
       Patrons!ReadStatus, Patrons!AlterTable, Patrons!DeletePatron, Patrons!QueryFails,
       Patrons!Crash, Patrons!ClearScreen, Patrons!Finish, Patrons!Queries, Inv, Shape
  <2>2. patronsSeen' = patronsSeen
    <3>1. CASE patronRows' = patronRows
      BY <3>1 DEF patronsSeen
    <3>2. CASE pc[c] = "delete" /\ patronRows' = {r \in patronRows : r.card # insertId[c]}
      <4>1. insertId[c] \notin Card
        BY <3>2 DEF Inv, FormsAreSilent, Card
      <4> QED BY <3>2, <4>1 DEF patronsSeen
    <3> QED BY <3>1, <3>2, <1>2
            DEF AddPatron, Patrons!ClerkStep, Patrons!DatabaseStep, Patrons!Approve,
            Patrons!ReadStatus, Patrons!AlterTable, Patrons!DeletePatron,
            Patrons!QueryFails, Patrons!Crash, Patrons!ClearScreen, Patrons!server
  <2>3. booksSeen' = booksSeen /\ UNCHANGED lendingVars
    BY DEF AddPatron, booksSeen, bookVars
  <2>4. Alone!ClearScreen(c)
    BY <2>1, <2>2, <2>3, FormStep DEF Places
  <2> QED BY <2>4 DEF Alone!Next, Alone!ClerkStep
<1> QED BY <1>1, <1>2

LEMMA PatronInv ==
  ASSUME Inv, NEW c \in Clerk, AddPatron(c)
  PROVE  Inv'
<1>1. \E x, v :
        /\ pc' = [pc EXCEPT ![c] = x] /\ told' = [told EXCEPT ![c] = v]
        /\ x # "menu" => v = "nothing"
        /\ x = "delete" => ~Patrons!IsCard(insertId'[c])
  <2>1. pc[c] # "menu" => told[c] = "nothing"
    BY DEF Inv, FormsAreSilent
  <2>2. /\ pc = [d \in Clerk |-> pc[d]] /\ told = [d \in Clerk |-> told[d]]
        /\ insertId = [d \in Clerk |-> insertId[d]]
    BY DEF Inv, Shape
  <2> QED BY <2>1, <2>2 DEF AddPatron, Patrons!ClerkStep, Patrons!DatabaseStep,
      Patrons!Approve, Patrons!ReadStatus, Patrons!AlterTable, Patrons!InsertPatron,
      Patrons!DeletePatron, Patrons!QueryFails, Patrons!Crash, Patrons!ClearScreen,
      Patrons!Finish,
      Patrons!Accept, Patrons!Queries
<1>2. /\ insertId' = [d \in Clerk |-> insertId'[d]] /\ isbn' = isbn
      /\ \A d \in Clerk : d # c => insertId'[d] = insertId[d]
  BY DEF Inv, Shape, AddPatron, bookVars, Patrons!ClerkStep, Patrons!DatabaseStep,
      Patrons!Approve, Patrons!ReadStatus, Patrons!AlterTable, Patrons!InsertPatron,
      Patrons!DeletePatron, Patrons!QueryFails, Patrons!Crash, Patrons!ClearScreen
<1> QED BY <1>1, <1>2 DEF Inv, Shape, FormsAreSilent, Patrons!IsCard

-----------------------------------------------------------------------------
(* add_book: the INSERT may enter a book, and nothing takes one away.         *)
LEMMA BookInsertSeen ==
  ASSUME Inv, NEW c \in Clerk, UNCHANGED <<patronVars, lendingVars>>,
         Books!InsertBook(c)
  PROVE  (\E b \in Key : Alone!EnterBook(b)) \/ UNCHANGED Alone!vars
<1> DEFINE new == Books!NewRow(c)
           key == Books!Number(isbn[c])
<1>1. pc[c] = "insert_book" /\ bookRows' = bookRows \cup {new}
  BY DEF Books!InsertBook
<1>2. new.isbn = key /\ key \in Key
  BY DEF Books!NewRow, Key, Inv, Shape
<1>3. PICK v \in {"book_added", "book_not_added"} :
        pc' = [pc EXCEPT ![c] = "menu"] /\ told' = [told EXCEPT ![c] = v]
  BY DEF Books!InsertBook, Books!Finish
<1>4. lendingPc' = lendingPc /\ lendingTold' = lendingTold
  BY <1>1, <1>3, FormInserts DEF Places
<1>5. patronsSeen' = patronsSeen /\ UNCHANGED lendingVars
  BY DEF patronsSeen, patronVars
<1> HIDE DEF new, key
<1>6. booksSeen' = booksSeen \cup {key}
  <2>1. {r.isbn : r \in bookRows'} = {r.isbn : r \in bookRows} \cup {new.isbn}
    BY <1>1
  <2> QED BY <1>2, <2>1 DEF booksSeen
<1>7. CASE key \notin booksSeen
  BY <1>2, <1>4, <1>5, <1>6, <1>7
     DEF Alone!EnterBook, Alone!program, Alone!history, lendingVars
<1>8. CASE key \in booksSeen
  <2>1. booksSeen' = booksSeen
    BY <1>6, <1>8
  <2> QED BY <1>4, <1>5, <2>1
          DEF Alone!vars, Alone!tables, Alone!program, Alone!history, lendingVars
<1> QED BY <1>7, <1>8

LEMMA BookSeen ==
  ASSUME Inv, NEW c \in Clerk, AddBook(c)
  PROVE  [Alone!Next]_(Alone!vars)
<1>1. CASE Books!InsertBook(c)
  BY <1>1, BookInsertSeen DEF AddBook, Alone!Next
<1>2. CASE ~Books!InsertBook(c)
  <2>1. PICK x \in {"menu", "list", "genre", "approve", "insert_book"},
             v \in {"nothing", "book_not_added"} :
          /\ pc' = [pc EXCEPT ![c] = x]
          /\ \/ told' = [told EXCEPT ![c] = v]
             \/ told' = told /\ pc[c] # "menu"
          /\ pc[c] \in {"menu", "list", "genre", "approve", "insert_book"}
    BY <1>2 DEF AddBook, Books!ClerkStep, Books!AddISBN, Books!ListGenres,
       Books!ChooseGenre, Books!Approve, Books!InsertFails, Books!Crash,
       Books!ClearScreen, Books!Finish, Books!Form, Inv, Shape
  <2>2. booksSeen' = booksSeen
    BY <1>2 DEF AddBook, Books!ClerkStep, Books!AddISBN, Books!ListGenres,
       Books!ChooseGenre, Books!Approve, Books!InsertFails, Books!Crash,
       Books!ClearScreen, Books!server, booksSeen
  <2>3. patronsSeen' = patronsSeen /\ UNCHANGED lendingVars
    BY DEF AddBook, patronsSeen, patronVars
  <2>4. Alone!ClearScreen(c)
    BY <2>1, <2>2, <2>3, FormStep DEF Places
  <2> QED BY <2>4 DEF Alone!Next, Alone!ClerkStep
<1> QED BY <1>1, <1>2

LEMMA BookInv ==
  ASSUME Inv, NEW c \in Clerk, AddBook(c)
  PROVE  Inv'
<1>1. \E x, v :
        /\ pc' = [pc EXCEPT ![c] = x] /\ told' = [told EXCEPT ![c] = v]
        /\ x # "menu" => v = "nothing"
        /\ x # "delete"
  <2>1. pc[c] # "menu" => told[c] = "nothing"
    BY DEF Inv, FormsAreSilent
  <2>2. pc = [d \in Clerk |-> pc[d]] /\ told = [d \in Clerk |-> told[d]]
    BY DEF Inv, Shape
  <2> QED BY <2>1, <2>2 DEF AddBook, Books!ClerkStep, Books!AddISBN, Books!ListGenres,
      Books!ChooseGenre, Books!Approve, Books!InsertBook, Books!InsertFails,
      Books!Crash, Books!ClearScreen, Books!Finish, Books!Form
<1>2. insertId' = insertId /\ isbn' \in [Clerk -> ISBN]
  BY DEF Inv, Shape, AddBook, patronVars, Books!ClerkStep, Books!AddISBN,
     Books!ListGenres, Books!ChooseGenre, Books!Approve, Books!InsertBook,
     Books!InsertFails, Books!Crash, Books!ClearScreen
<1> QED BY <1>1, <1>2 DEF Inv, Shape, FormsAreSilent, Patrons!IsCard

-----------------------------------------------------------------------------
(* What happens outside the program touches no clerk's place or verdict.      *)
LEMMA OutsideSeen ==
  ASSUME Inv, Outside
  PROVE  [Alone!Next]_(Alone!vars) /\ Inv'
<1>1. CASE \E k \in Card : UNCHANGED <<patronVars, bookVars>> /\ Lending!MoveFee(k)
  <2>1. PICK k \in Card : UNCHANGED <<patronVars, bookVars>> /\ Lending!MoveFee(k)
    BY <1>1
  <2>2. UNCHANGED <<pc, told, insertId, isbn>>
    BY <2>1 DEF Lending!MoveFee, Lending!program, patronVars, bookVars
  <2>3. Alone!MoveFee(k)
    BY <2>1, <2>2, ToldKept, PcKept
       DEF Lending!MoveFee, Alone!MoveFee, Lending!program, Alone!program
  <2> QED BY <2>2, <2>3 DEF Alone!Next, Inv, Shape, FormsAreSilent, Patrons!IsCard
<1>2. CASE \E b \in Key : UNCHANGED <<patronVars, bookVars>> /\ Lending!FollowAdvice(b)
  <2>1. PICK b \in Key : UNCHANGED <<patronVars, bookVars>> /\ Lending!FollowAdvice(b)
    BY <1>2
  <2>2. UNCHANGED <<pc, told, insertId, isbn>>
    BY <2>1 DEF Lending!FollowAdvice, Lending!program, patronVars, bookVars
  <2>3. Alone!FollowAdvice(b)
    BY <2>1, <2>2, ToldKept, PcKept
       DEF Lending!FollowAdvice, Alone!FollowAdvice, Lending!program, Alone!program,
           Lending!SetCheckedOut, Alone!SetCheckedOut, Lending!LoansOf, Alone!LoansOf
  <2> QED BY <2>2, <2>3 DEF Alone!Next, Inv, Shape, FormsAreSilent, Patrons!IsCard
<1>3. CASE UNCHANGED <<pc, told, insertId, isbn, patronRows, bookRows, lendingVars>>
  <2>1. UNCHANGED <<lendingPc, lendingTold, booksSeen, patronsSeen>>
    BY <1>3, ToldKept, PcKept DEF booksSeen, patronsSeen
  <2> QED BY <1>3, <2>1 DEF lendingVars, Alone!vars, Alone!tables, Alone!program,
          Alone!history, Inv, Shape, FormsAreSilent, Patrons!IsCard
<1> QED BY <1>1, <1>2, <1>3
        DEF Outside, Books!EditGenres, Books!program, Patrons!RestartServer,
            Patrons!program, patronVars, bookVars

LEMMA NextSeen ==
  Inv /\ [Next]_vars => [Alone!Next]_(Alone!vars) /\ Inv'
<1> SUFFICES ASSUME Inv, [Next]_vars PROVE [Alone!Next]_(Alone!vars) /\ Inv'
  OBVIOUS
<1>1. ASSUME NEW c \in Clerk, AddPatron(c) PROVE [Alone!Next]_(Alone!vars) /\ Inv'
  BY <1>1, PatronSeen, PatronInv
<1>2. ASSUME NEW c \in Clerk, AddBook(c) PROVE [Alone!Next]_(Alone!vars) /\ Inv'
  BY <1>2, BookSeen, BookInv
<1>3. ASSUME NEW c \in Clerk, AddTransaction(c) PROVE [Alone!Next]_(Alone!vars) /\ Inv'
  BY <1>3, LoanSeen, LoanInv DEF AddTransaction, Alone!Next
<1>4. CASE Outside
  BY <1>4, OutsideSeen
<1>5. CASE UNCHANGED vars
  <2>1. UNCHANGED <<lendingPc, lendingTold, booksSeen, patronsSeen>>
    BY <1>5, ToldKept, PcKept DEF vars, patronVars, bookVars, booksSeen, patronsSeen
  <2> QED BY <1>5, <2>1 DEF vars, patronVars, bookVars, lendingVars, Alone!vars,
          Alone!tables, Alone!program, Alone!history, Inv, Shape, FormsAreSilent,
          Patrons!IsCard
<1> QED BY <1>1, <1>2, <1>3, <1>4, <1>5 DEF Next

(* A clerk between two functions has no verdict left, and a patron's row that *)
(* is deleted is one no loan can name (Patron.cpp:197-209).                   *)
THEOREM Silence == Spec => []FormsAreSilent
<1>1. Inv => FormsAreSilent
  BY DEF Inv
<1> QED BY <1>1, InitInv, NextSeen, PTL DEF Spec

(* The loans go on as if nobody entered books or patrons in between:          *)
(* Library.cpp:274-317, three functions over one set of tables.               *)
THEOREM LendingIsServed == Spec => ImplementsLending
<1>1. Init => Alone!Init
  <2>1. Init => /\ lendingPc = [c \in Clerk |-> "menu"]
                /\ lendingTold = [c \in Clerk |-> "nothing"]
    BY DEF Init, Patrons!Init, lendingPc, lendingTold, Lending!Busy, Lending!Queries
  <2> QED BY <2>1 DEF Init, Lending!Init, Alone!Init
<1> QED BY <1>1, InitInv, NextSeen, PTL DEF Spec, ImplementsLending, Alone!Spec

-----------------------------------------------------------------------------
(* What is proved of Lending holds of the loans of a whole library.           *)
Proved == INSTANCE LendingProofs WITH
  Card <- Card, ISBN <- Key, books <- booksSeen, patrons <- patronsSeen,
  pc <- lendingPc, told <- lendingTold

LEMMA LendingAlone == Spec => Proved!Spec
<1>1. Alone!Init => Proved!Init
  BY DEF Alone!Init, Proved!Init
<1>2. [Alone!Next]_(Alone!vars) => [Proved!Next]_(Proved!vars)
  BY DEF Alone!AddLibraryCardNumber, Alone!AddISBN, Alone!Decline, Alone!Approve,
         Alone!RecheckPatron, Alone!RecheckBook, Alone!ScanLoans, Alone!Repair,
         Alone!InsertLoan, Alone!MarkCheckedOut, Alone!QueryFails, Alone!Crash,
         Alone!ClearScreen, Alone!MoveFee, Alone!RegisterPatron, Alone!FollowAdvice,
         Alone!EnterBook, Alone!Finish, Alone!Goto, Alone!tables, Alone!program,
         Alone!history, Alone!Busy, Alone!Queries, Alone!MayBorrow, Alone!MayBeLent,
         Alone!LoansOf, Alone!SetCheckedOut, Alone!UpdateFails, Alone!NewLoan,
         Alone!ClerkStep, Alone!DatabaseStep, Alone!Next, Alone!vars,
         Proved!AddLibraryCardNumber, Proved!AddISBN, Proved!Decline,
         Proved!Approve, Proved!RecheckPatron, Proved!RecheckBook, Proved!ScanLoans,
         Proved!Repair, Proved!InsertLoan, Proved!MarkCheckedOut, Proved!QueryFails,
         Proved!Crash, Proved!ClearScreen, Proved!MoveFee, Proved!RegisterPatron,
         Proved!FollowAdvice, Proved!EnterBook, Proved!Finish, Proved!Goto,
         Proved!tables, Proved!program, Proved!history, Proved!Busy, Proved!Queries,
         Proved!MayBorrow, Proved!MayBeLent, Proved!LoansOf, Proved!SetCheckedOut,
         Proved!UpdateFails, Proved!NewLoan, Proved!ClerkStep, Proved!DatabaseStep,
         Proved!Next, Proved!vars
<1> QED BY <1>1, <1>2, LendingIsServed, PTL
        DEF ImplementsLending, Proved!Spec, Alone!Spec

(* With clerks who enter books and register patrons at the same time, every   *)
(* loan keeps its book and its patron, no clerk lends a book twice, marks and *)
(* verdicts are justified and a debtor since the y gets no book               *)
(* (Library.cpp:169-258, Patron.cpp:197-209, Book.cpp:318-345).               *)
THEOREM LoansStandInALibrary ==
  Spec => [](/\ LoansAreBacked
             /\ Lending!OneLoanPerClerk
             /\ Lending!FlagJustified
             /\ Lending!MissingMarkExplained
             /\ Lending!LentIsRecorded
             /\ Lending!DebtRechecked)
<1>1. Proved!Spec => /\ []Proved!LoansAreBacked
                     /\ []Proved!OneLoanPerClerk
                     /\ []Proved!FlagJustified
                     /\ []Proved!MissingMarkExplained
                     /\ []Proved!LentIsRecorded
                     /\ []Proved!DebtRechecked
  BY LibraryConstants, Proved!LoansHaveRows, Proved!NoSecondLoan,
     Proved!MarksAreTrue, Proved!MarksAreExplained, Proved!VerdictsAreTrue,
     Proved!DebtorsAreRefused
<1>2. Proved!LoansAreBacked => LoansAreBacked
  BY DEF LoansAreBacked, Proved!LoansAreBacked, Lending!LoansAreBacked
<1>3. Proved!OneLoanPerClerk => Lending!OneLoanPerClerk
  BY DEF Proved!OneLoanPerClerk, Lending!OneLoanPerClerk
<1>4. Proved!FlagJustified => Lending!FlagJustified
  BY DEF Proved!FlagJustified, Lending!FlagJustified
<1>5. Proved!MissingMarkExplained => Lending!MissingMarkExplained
  BY DEF Proved!MissingMarkExplained, Lending!MissingMarkExplained, lendingPc
<1>6. Proved!LentIsRecorded => Lending!LentIsRecorded
  BY DEF Proved!LentIsRecorded, Lending!LentIsRecorded, lendingTold
<1>7. Proved!DebtRechecked => Lending!DebtRechecked
  BY DEF Proved!DebtRechecked, Lending!DebtRechecked, lendingPc, Lending!Busy,
         Lending!Queries
<1> QED BY <1>1, <1>2, <1>3, <1>4, <1>5, <1>6, <1>7, LendingAlone, PTL

(* Without changes by hand the whole library is a register of loans with a    *)
(* copy of every book per clerk: two refinements, one on the other.           *)
THEOREM LibraryIsARegister ==
  ASSUME FeesMove = FALSE, HandRepairs = FALSE
  PROVE  Spec => Lending!Implements
<1>1. Proved!Spec => Proved!Register!Spec
  BY LibraryConstants, Proved!Refinement DEF Proved!Implements
<1>2. Proved!Register!Init => Lending!Register!Init
  BY DEF Proved!Register!Init, Lending!Register!Init
<1>3. [Proved!Register!Next]_(Proved!Register!vars)
        => [Lending!Register!Next]_(Lending!Register!vars)
  BY DEF Proved!Register!Next, Lending!Register!Next, Proved!Register!Lend,
         Lending!Register!Lend, Proved!Register!Mark, Lending!Register!Mark,
         Proved!Register!LentOf, Lending!Register!LentOf, Proved!Register!vars,
         Lending!Register!vars
<1> QED BY <1>1, <1>2, <1>3, LendingAlone, PTL
        DEF Lending!Implements, Proved!Register!Spec, Lending!Register!Spec

-----------------------------------------------------------------------------
(* What PatronProofs and BookProofs see: a clerk in another form is at the    *)
(* menu, and a verdict of another form is a cleared screen.                   *)
patronPc ==
  [c \in Clerk |-> IF pc[c] \in Patrons!Queries THEN pc[c] ELSE "menu"]
patronTold ==
  [c \in Clerk |-> IF told[c] \in {"patron_added", "patron_not_added"}
                   THEN told[c] ELSE "nothing"]
bookPc ==
  [c \in Clerk |-> IF pc[c] \in Books!Form THEN pc[c] ELSE "menu"]
bookTold ==
  [c \in Clerk |-> IF told[c] \in {"book_added", "book_not_added"}
                   THEN told[c] ELSE "nothing"]

OnPatrons == INSTANCE PatronProofs WITH
  rows <- patronRows, pc <- patronPc, told <- patronTold

OnBooks == INSTANCE BookProofs WITH
  rows <- bookRows, pc <- bookPc, told <- bookTold

(* The places and verdicts of the two forms.                                  *)
PatronPlaces   == {"menu", "status", "alter", "insert_patron", "delete"}
PatronVerdicts == {"nothing", "patron_added", "patron_not_added"}
BookPlaces     == {"menu", "list", "genre", "approve", "insert_book"}
BookVerdicts   == {"nothing", "book_added", "book_not_added"}

(* A step of clerk c within a form, from one of its places to another.        *)
MovesIn(c, places, verdicts) ==
  /\ pc[c] \in places
  /\ \E x \in places, v \in verdicts :
       /\ pc' = [pc EXCEPT ![c] = x]
       /\ told' = [told EXCEPT ![c] = v] \/ told' = told

LEMMA PatronMoves ==
  ASSUME Inv, NEW c \in Clerk, AddPatron(c)
  PROVE  MovesIn(c, PatronPlaces, PatronVerdicts)
BY DEF MovesIn, PatronPlaces, PatronVerdicts, Inv, Shape, AddPatron,
       Patrons!ClerkStep, Patrons!DatabaseStep, Patrons!Approve, Patrons!ReadStatus,
       Patrons!AlterTable, Patrons!InsertPatron, Patrons!DeletePatron,
       Patrons!QueryFails, Patrons!Crash, Patrons!ClearScreen, Patrons!Finish,
       Patrons!Accept, Patrons!Queries

LEMMA BookMoves ==
  ASSUME Inv, NEW c \in Clerk, AddBook(c)
  PROVE  MovesIn(c, BookPlaces, BookVerdicts)
BY DEF MovesIn, BookPlaces, BookVerdicts, Inv, Shape, AddBook, Books!ClerkStep,
       Books!AddISBN, Books!ListGenres, Books!ChooseGenre, Books!Approve,
       Books!InsertBook, Books!InsertFails, Books!Crash, Books!ClearScreen,
       Books!Finish, Books!Form

LEMMA LoanMoves ==
  ASSUME Inv, NEW c \in Clerk, AddTransaction(c)
  PROVE  MovesIn(c, Places, Verdicts)
BY DEF MovesIn, Places, Verdicts, Inv, Shape, AddTransaction, Lending!ClerkStep,
       Lending!DatabaseStep, Lending!AddLibraryCardNumber, Lending!AddISBN,
       Lending!Decline, Lending!Approve, Lending!RecheckPatron, Lending!RecheckBook,
       Lending!ScanLoans, Lending!Repair, Lending!InsertLoan, Lending!MarkCheckedOut,
       Lending!QueryFails, Lending!Crash, Lending!ClearScreen, Lending!Finish,
       Lending!Goto, Lending!Busy, Lending!Queries

-----------------------------------------------------------------------------
(* The registration of patrons, seen alone.                                   *)
LEMMA PatronSeenAlone ==
  ASSUME NEW c \in Clerk
  PROVE  /\ patronPc[c] = IF pc[c] \in PatronPlaces THEN pc[c] ELSE "menu"
         /\ patronTold[c] = IF told[c] \in PatronVerdicts THEN told[c] ELSE "nothing"
BY DEF patronPc, patronTold, Patrons!Queries, PatronPlaces, PatronVerdicts

LEMMA PatronPcMoves ==
  ASSUME Shape, NEW c \in Clerk, NEW x \in PatronPlaces, pc' = [pc EXCEPT ![c] = x]
  PROVE  patronPc' = [patronPc EXCEPT ![c] = x]
<1>1. \A d \in Clerk : pc'[d] = IF d = c THEN x ELSE pc[d]
  BY DEF Shape
<1>2. x \in Patrons!Queries \/ x = "menu"
  BY DEF Patrons!Queries, PatronPlaces
<1> HIDE DEF PatronPlaces
<1> QED BY <1>1, <1>2 DEF patronPc

LEMMA PatronToldMoves ==
  ASSUME Shape, NEW c \in Clerk, NEW v \in PatronVerdicts, told' = [told EXCEPT ![c] = v]
  PROVE  patronTold' = [patronTold EXCEPT ![c] = v]
<1>1. \A d \in Clerk : told'[d] = IF d = c THEN v ELSE told[d]
  BY DEF Shape
<1> QED BY <1>1 DEF patronTold, PatronVerdicts

LEMMA PatronScreenKept ==
  /\ pc' = pc => patronPc' = patronPc
  /\ told' = told => patronTold' = patronTold
  BY DEF patronPc, patronTold

LEMMA PatronFormAlone ==
  ASSUME Inv, NEW c \in Clerk, Patrons!ClerkStep(c)
  PROVE  OnPatrons!ClerkStep(c)
<1> USE PatronSeenAlone, PatronPcMoves, PatronToldMoves, PatronScreenKept
    DEF Inv, PatronPlaces, PatronVerdicts, Patrons!Finish, OnPatrons!Finish,
        Patrons!server, OnPatrons!server, Patrons!history, OnPatrons!history
<1>1. Patrons!Approve(c) => OnPatrons!Approve(c)
  BY DEF Patrons!Approve, OnPatrons!Approve
<1>2. Patrons!ReadStatus(c) => OnPatrons!ReadStatus(c)
  BY DEF Patrons!ReadStatus, OnPatrons!ReadStatus, Patrons!IsCard, OnPatrons!IsCard
<1>3. Patrons!AlterTable(c) => OnPatrons!AlterTable(c)
  BY DEF Patrons!AlterTable, OnPatrons!AlterTable, Patrons!IsNextId, OnPatrons!IsNextId
<1>4. Patrons!InsertPatron(c) => OnPatrons!InsertPatron(c)
  BY DEF Patrons!InsertPatron, OnPatrons!InsertPatron, Patrons!Accept,
         OnPatrons!Accept, Patrons!IsCard, OnPatrons!IsCard
<1>5. Patrons!DeletePatron(c) => OnPatrons!DeletePatron(c)
  BY DEF Patrons!DeletePatron, OnPatrons!DeletePatron
<1>6. Patrons!QueryFails(c) => OnPatrons!QueryFails(c)
  BY DEF Patrons!QueryFails, OnPatrons!QueryFails
<1>7. Patrons!Crash(c) => OnPatrons!Crash(c)
  BY DEF Patrons!Crash, OnPatrons!Crash, Patrons!Queries, OnPatrons!Queries
<1>8. Patrons!ClearScreen(c) => OnPatrons!ClearScreen(c)
  BY DEF Patrons!ClearScreen, OnPatrons!ClearScreen
<1> QED BY <1>1, <1>2, <1>3, <1>4, <1>5, <1>6, <1>7, <1>8
        DEF Patrons!ClerkStep, OnPatrons!ClerkStep, Patrons!DatabaseStep,
            OnPatrons!DatabaseStep

(* Another form, for the registration of patrons, clears the screen.          *)
LEMMA OtherThanPatron ==
  ASSUME Inv, NEW c \in Clerk, NEW places, NEW verdicts, MovesIn(c, places, verdicts),
         places \cap Patrons!Queries = {},
         verdicts \cap {"patron_added", "patron_not_added"} = {},
         UNCHANGED patronVars
  PROVE  [OnPatrons!Next]_(OnPatrons!vars)
<1>1. PICK x \in places, v \in verdicts :
        /\ pc[c] \in places
        /\ pc' = [pc EXCEPT ![c] = x]
        /\ told' = [told EXCEPT ![c] = v] \/ told' = told
  BY DEF MovesIn
<1>2. patronPc' = patronPc /\ patronPc[c] = "menu"
  <2>1. \A d \in Clerk : pc'[d] = IF d = c THEN x ELSE pc[d]
    BY <1>1 DEF Inv, Shape
  <2> QED BY <1>1, <2>1 DEF patronPc
<1>3. patronTold' = [patronTold EXCEPT ![c] = "nothing"] \/ patronTold' = patronTold
  <2>1. CASE told' = [told EXCEPT ![c] = v]
    <3>1. \A d \in Clerk : told'[d] = IF d = c THEN v ELSE told[d]
      BY <2>1 DEF Inv, Shape
    <3> QED BY <1>1, <3>1 DEF patronTold
  <2>2. CASE told' = told
    BY <2>2, PatronScreenKept
  <2> QED BY <1>1, <2>1, <2>2
<1>4. OnPatrons!ClearScreen(c) \/ UNCHANGED OnPatrons!vars
  BY <1>2, <1>3 DEF patronVars, OnPatrons!ClearScreen, OnPatrons!vars,
     OnPatrons!server, OnPatrons!program, OnPatrons!history
<1> QED BY <1>4 DEF OnPatrons!Next, OnPatrons!ClerkStep

-----------------------------------------------------------------------------
(* The entering of books, seen alone.                                         *)
LEMMA BookSeenAlone ==
  ASSUME NEW c \in Clerk
  PROVE  /\ bookPc[c] = IF pc[c] \in BookPlaces THEN pc[c] ELSE "menu"
         /\ bookTold[c] = IF told[c] \in BookVerdicts THEN told[c] ELSE "nothing"
BY DEF bookPc, bookTold, Books!Form, BookPlaces, BookVerdicts

LEMMA BookPcMoves ==
  ASSUME Shape, NEW c \in Clerk, NEW x \in BookPlaces, pc' = [pc EXCEPT ![c] = x]
  PROVE  bookPc' = [bookPc EXCEPT ![c] = x]
<1>1. \A d \in Clerk : pc'[d] = IF d = c THEN x ELSE pc[d]
  BY DEF Shape
<1>2. x \in Books!Form \/ x = "menu"
  BY DEF Books!Form, BookPlaces
<1> HIDE DEF BookPlaces
<1> QED BY <1>1, <1>2 DEF bookPc

LEMMA BookToldMoves ==
  ASSUME Shape, NEW c \in Clerk, NEW v \in BookVerdicts, told' = [told EXCEPT ![c] = v]
  PROVE  bookTold' = [bookTold EXCEPT ![c] = v]
<1>1. \A d \in Clerk : told'[d] = IF d = c THEN v ELSE told[d]
  BY DEF Shape
<1> QED BY <1>1 DEF bookTold, BookVerdicts

LEMMA BookScreenKept ==
  /\ pc' = pc => bookPc' = bookPc
  /\ told' = told => bookTold' = bookTold
  BY DEF bookPc, bookTold

(* Both instances compute the same of a text and of an ISBN.                  *)
LEMMA SameTexts ==
  /\ \A b : Books!Number(b) = OnBooks!Number(b)
  /\ \A t : Books!Stored(t) = OnBooks!Stored(t)
<1>1. \A b : Books!Number(b) = OnBooks!Number(b)
  BY DEF Books!Number, OnBooks!Number
<1>2. \A t : Books!pl_to_mysql(t) = OnBooks!pl_to_mysql(t)
  BY DEF Books!pl_to_mysql, OnBooks!pl_to_mysql, Books!Recode, OnBooks!Recode,
         Books!Counterpart, OnBooks!Counterpart, Books!ConsoleChar,
         OnBooks!ConsoleChar, Books!MySQLChar, OnBooks!MySQLChar
<1>3. \A t : Books!Escaping(t) = OnBooks!Escaping(t)
  BY DEF Books!Escaping, OnBooks!Escaping, Books!Escape, OnBooks!Escape,
         Books!Copying, OnBooks!Copying, Books!Quote, OnBooks!Quote,
         Books!Backslash, OnBooks!Backslash
<1>4. \A byte : Books!Unescaped(byte) = OnBooks!Unescaped(byte)
  BY DEF Books!Unescaped, OnBooks!Unescaped
<1>5. \A t, i : Books!AtEscape(t, i) <=> OnBooks!AtEscape(t, i)
  BY DEF Books!AtEscape, OnBooks!AtEscape, Books!Quote, OnBooks!Quote,
         Books!Backslash, OnBooks!Backslash
<1>6. \A t, i : Books!AtEnd(t, i) <=> OnBooks!AtEnd(t, i)
  BY <1>5 DEF Books!AtEnd, OnBooks!AtEnd, Books!Quote, OnBooks!Quote
<1>7. \A t : Books!Reading(t) = OnBooks!Reading(t)
  BY <1>4, <1>5, <1>6 DEF Books!Reading, OnBooks!Reading, Books!Copying, OnBooks!Copying
<1> QED BY <1>1, <1>2, <1>3, <1>7
        DEF Books!Stored, OnBooks!Stored, Books!Literal, OnBooks!Literal,
            Books!mysql_code_sanitization, OnBooks!mysql_code_sanitization,
            Books!Quote, OnBooks!Quote

LEMMA BookFormAlone ==
  ASSUME Inv, NEW c \in Clerk, Books!ClerkStep(c)
  PROVE  OnBooks!ClerkStep(c)
<1> USE BookSeenAlone, BookPcMoves, BookToldMoves, BookScreenKept, SameTexts
    DEF Inv, BookPlaces, BookVerdicts, Books!Finish, OnBooks!Finish,
        Books!server, OnBooks!server
<1>1. Books!AddISBN(c) => OnBooks!AddISBN(c)
  BY DEF Books!AddISBN, OnBooks!AddISBN, Books!RowsOf, OnBooks!RowsOf
<1>2. Books!ListGenres(c) => OnBooks!ListGenres(c)
  BY DEF Books!ListGenres, OnBooks!ListGenres
<1>3. Books!ChooseGenre(c) => OnBooks!ChooseGenre(c)
  BY DEF Books!ChooseGenre, OnBooks!ChooseGenre, Books!Matches, OnBooks!Matches
<1>4. Books!Approve(c) => OnBooks!Approve(c)
  BY DEF Books!Approve, OnBooks!Approve
<1>5. Books!InsertBook(c) => OnBooks!InsertBook(c)
  BY DEF Books!InsertBook, OnBooks!InsertBook, Books!NewRow, OnBooks!NewRow,
         Books!RowsOf, OnBooks!RowsOf
<1>6. Books!InsertFails(c) => OnBooks!InsertFails(c)
  BY DEF Books!InsertFails, OnBooks!InsertFails
<1>7. Books!Crash(c) => OnBooks!Crash(c)
  BY DEF Books!Crash, OnBooks!Crash, Books!Form, OnBooks!Form
<1>8. Books!ClearScreen(c) => OnBooks!ClearScreen(c)
  BY DEF Books!ClearScreen, OnBooks!ClearScreen
<1> QED BY <1>1, <1>2, <1>3, <1>4, <1>5, <1>6, <1>7, <1>8
        DEF Books!ClerkStep, OnBooks!ClerkStep

(* Another form, for the entering of books, clears the screen.                *)
LEMMA OtherThanBook ==
  ASSUME Inv, NEW c \in Clerk, NEW places, NEW verdicts, MovesIn(c, places, verdicts),
         places \cap Books!Form = {},
         verdicts \cap {"book_added", "book_not_added"} = {},
         UNCHANGED bookVars
  PROVE  [OnBooks!Next]_(OnBooks!vars)
<1>1. PICK x \in places, v \in verdicts :
        /\ pc[c] \in places
        /\ pc' = [pc EXCEPT ![c] = x]
        /\ told' = [told EXCEPT ![c] = v] \/ told' = told
  BY DEF MovesIn
<1>2. bookPc' = bookPc /\ bookPc[c] = "menu"
  <2>1. \A d \in Clerk : pc'[d] = IF d = c THEN x ELSE pc[d]
    BY <1>1 DEF Inv, Shape
  <2> QED BY <1>1, <2>1 DEF bookPc
<1>3. bookTold' = [bookTold EXCEPT ![c] = "nothing"] \/ bookTold' = bookTold
  <2>1. CASE told' = [told EXCEPT ![c] = v]
    <3>1. \A d \in Clerk : told'[d] = IF d = c THEN v ELSE told[d]
      BY <2>1 DEF Inv, Shape
    <3> QED BY <1>1, <3>1 DEF bookTold
  <2>2. CASE told' = told
    BY <2>2, BookScreenKept
  <2> QED BY <1>1, <2>1, <2>2
<1>4. OnBooks!ClearScreen(c) \/ UNCHANGED OnBooks!vars
  BY <1>2, <1>3 DEF bookVars, OnBooks!ClearScreen, OnBooks!vars,
     OnBooks!server, OnBooks!program
<1> QED BY <1>4 DEF OnBooks!Next, OnBooks!ClerkStep

-----------------------------------------------------------------------------
(* Steps of people and of the server.                                         *)
LEMMA OutsideAlone ==
  ASSUME Outside
  PROVE  [OnPatrons!Next]_(OnPatrons!vars) /\ [OnBooks!Next]_(OnBooks!vars)
<1>1. UNCHANGED <<pc, told>>
  BY DEF Outside, Lending!MoveFee, Lending!FollowAdvice, Lending!program,
         Books!EditGenres, Books!program, Patrons!RestartServer, Patrons!program
<1>2. UNCHANGED <<patronPc, patronTold, bookPc, bookTold>>
  BY <1>1, PatronScreenKept, BookScreenKept
<1>3. UNCHANGED patronVars => UNCHANGED OnPatrons!vars
  BY <1>2 DEF patronVars, OnPatrons!vars, OnPatrons!server, OnPatrons!program,
     OnPatrons!history
<1>4. UNCHANGED bookVars => UNCHANGED OnBooks!vars
  BY <1>2 DEF bookVars, OnBooks!vars, OnBooks!server, OnBooks!program
<1>5. Patrons!RestartServer => OnPatrons!RestartServer
  BY <1>2 DEF Patrons!RestartServer, OnPatrons!RestartServer, Patrons!IsNextId,
     OnPatrons!IsNextId, Patrons!program, OnPatrons!program, Patrons!history,
     OnPatrons!history
<1>6. Books!EditGenres => OnBooks!EditGenres
  BY <1>2 DEF Books!EditGenres, OnBooks!EditGenres, Books!program, OnBooks!program
<1> QED BY <1>3, <1>4, <1>5, <1>6 DEF Outside, OnPatrons!Next, OnBooks!Next

LEMMA NextAlone ==
  Inv /\ [Next]_vars => [OnPatrons!Next]_(OnPatrons!vars) /\ [OnBooks!Next]_(OnBooks!vars)
<1> SUFFICES ASSUME Inv, [Next]_vars
             PROVE  [OnPatrons!Next]_(OnPatrons!vars) /\ [OnBooks!Next]_(OnBooks!vars)
  OBVIOUS
<1>1. ASSUME NEW c \in Clerk, AddPatron(c)
      PROVE  [OnPatrons!Next]_(OnPatrons!vars) /\ [OnBooks!Next]_(OnBooks!vars)
  <2>1. OnPatrons!ClerkStep(c)
    BY <1>1, PatronFormAlone DEF AddPatron
  <2>2. [OnBooks!Next]_(OnBooks!vars)
    BY <1>1, PatronMoves, OtherThanBook
       DEF AddPatron, PatronPlaces, PatronVerdicts, Books!Form
  <2> QED BY <2>1, <2>2 DEF OnPatrons!Next
<1>2. ASSUME NEW c \in Clerk, AddBook(c)
      PROVE  [OnPatrons!Next]_(OnPatrons!vars) /\ [OnBooks!Next]_(OnBooks!vars)
  <2>1. OnBooks!ClerkStep(c)
    BY <1>2, BookFormAlone DEF AddBook
  <2>2. [OnPatrons!Next]_(OnPatrons!vars)
    BY <1>2, BookMoves, OtherThanPatron
       DEF AddBook, BookPlaces, BookVerdicts, Patrons!Queries
  <2> QED BY <2>1, <2>2 DEF OnBooks!Next
<1>3. ASSUME NEW c \in Clerk, AddTransaction(c)
      PROVE  [OnPatrons!Next]_(OnPatrons!vars) /\ [OnBooks!Next]_(OnBooks!vars)
  <2>1. [OnPatrons!Next]_(OnPatrons!vars)
    BY <1>3, LoanMoves, OtherThanPatron
       DEF AddTransaction, Places, Verdicts, Patrons!Queries
  <2>2. [OnBooks!Next]_(OnBooks!vars)
    BY <1>3, LoanMoves, OtherThanBook DEF AddTransaction, Places, Verdicts, Books!Form
  <2> QED BY <2>1, <2>2
<1>4. CASE UNCHANGED vars
  BY <1>4, PatronScreenKept, BookScreenKept
     DEF vars, patronVars, bookVars, OnPatrons!vars, OnPatrons!server,
         OnPatrons!program, OnPatrons!history, OnBooks!vars, OnBooks!server,
         OnBooks!program
<1> QED BY <1>1, <1>2, <1>3, <1>4, OutsideAlone DEF Next

(* Loans and the other form are, for each of the two registries, nothing but  *)
(* cleared screens (Library.cpp:274-302).                                     *)
THEOREM RegistriesAreServed == Spec => OnPatrons!Spec /\ OnBooks!Spec
<1>1. Init => OnPatrons!Init /\ OnBooks!Init
  <2>1. Init => /\ patronPc = [c \in Clerk |-> "menu"]
                /\ patronTold = [c \in Clerk |-> "nothing"]
                /\ bookPc = [c \in Clerk |-> "menu"]
                /\ bookTold = [c \in Clerk |-> "nothing"]
    BY DEF Init, Patrons!Init, patronPc, patronTold, bookPc, bookTold,
           Patrons!Queries, Books!Form
  <2> QED BY <2>1 DEF Init, Patrons!Init, OnPatrons!Init, Books!Init, OnBooks!Init
<1> QED BY <1>1, InitInv, NextSeen, NextAlone, PTL
        DEF Spec, OnPatrons!Spec, OnBooks!Spec

(* While books are entered and lent, a card number shown to a clerk is valid, *)
(* unique and in the table, every other row is explained, and the DELETE of a *)
(* bad number takes no card (Patron.cpp:186-226).                             *)
THEOREM CardsInALibrary ==
  Spec => /\ [](Patrons!AnnouncedIsRegistered /\ Patrons!StrayRowExplained)
          /\ Patrons!CardsAreKept
<1> DEFINE Taken == \A r \in patronRows \ patronRows' :
                      ~Patrons!IsCard(r.card) /\ pc[r.by] = "delete"
           TakenAlone == \A r \in patronRows \ patronRows' :
                      ~OnPatrons!IsCard(r.card) /\ patronPc[r.by] = "delete"
<1>1. OnPatrons!Spec => /\ []OnPatrons!TypeOK
                        /\ []OnPatrons!AnnouncedIsRegistered
                        /\ []OnPatrons!StrayRowExplained
                        /\ [][TakenAlone]_(OnPatrons!vars)
  BY LibraryConstants, OnPatrons!TypeCorrect, OnPatrons!CardsAreGood,
     OnPatrons!RowsAreExplained, OnPatrons!NoCardIsLost
     DEF OnPatrons!CardsAreKept
<1>2. OnPatrons!AnnouncedIsRegistered => Patrons!AnnouncedIsRegistered
  BY DEF OnPatrons!AnnouncedIsRegistered, Patrons!AnnouncedIsRegistered,
         OnPatrons!IsCard, Patrons!IsCard
<1>3. OnPatrons!TypeOK => \A r \in patronRows : r.by \in Clerk
  BY DEF OnPatrons!TypeOK, OnPatrons!Row
<1>4. \A c \in Clerk : patronPc[c] = "delete" => pc[c] = "delete"
  BY DEF patronPc
<1>5. OnPatrons!TypeOK /\ OnPatrons!StrayRowExplained => Patrons!StrayRowExplained
  BY <1>3, <1>4 DEF OnPatrons!StrayRowExplained, Patrons!StrayRowExplained,
     OnPatrons!IsCard, Patrons!IsCard
<1>6. OnPatrons!TypeOK /\ [TakenAlone]_(OnPatrons!vars) => [Taken]_(Patrons!vars)
  <2>1. OnPatrons!TypeOK /\ TakenAlone => Taken
    BY <1>3, <1>4 DEF OnPatrons!IsCard, Patrons!IsCard
  <2>2. UNCHANGED OnPatrons!vars => Taken
    BY DEF OnPatrons!vars, OnPatrons!server
  <2> QED BY <2>1, <2>2
<1>7. []OnPatrons!TypeOK /\ [][TakenAlone]_(OnPatrons!vars) => [][Taken]_(Patrons!vars)
  BY <1>6, PTL
<1> QED BY <1>1, <1>2, <1>5, <1>7, RegistriesAreServed, PTL DEF Patrons!CardsAreKept

(* While patrons are registered and books are lent, no clerk enters a book    *)
(* twice, an added book is in the table and has the genre chosen for it       *)
(* (Book.cpp:121-156, 212-230, 318-345).                                      *)
THEOREM BooksInALibrary ==
  Spec => [](Books!OneRowPerClerk /\ Books!AddedIsRegistered /\ Books!UniqueMatchIsTaken)
<1>1. OnBooks!Spec => /\ []OnBooks!OneRowPerClerk
                      /\ []OnBooks!AddedIsRegistered
                      /\ []OnBooks!UniqueMatchIsTaken
  BY LibraryConstants, OnBooks!BooksAreEnteredOnce, OnBooks!AddedBooksAreThere,
     OnBooks!ChoiceIsHonoured DEF OnBooks!is_ISBN
<1>2. OnBooks!OneRowPerClerk => Books!OneRowPerClerk
  BY DEF OnBooks!OneRowPerClerk, Books!OneRowPerClerk
<1>3. OnBooks!AddedIsRegistered => Books!AddedIsRegistered
  BY SameTexts DEF OnBooks!AddedIsRegistered, Books!AddedIsRegistered, bookTold
<1>4. OnBooks!UniqueMatchIsTaken => Books!UniqueMatchIsTaken
  BY DEF OnBooks!UniqueMatchIsTaken, Books!UniqueMatchIsTaken, bookPc, Books!Form
<1> QED BY <1>1, <1>2, <1>3, <1>4, RegistriesAreServed, PTL
=============================================================================
