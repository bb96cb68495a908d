---------------------------- MODULE LendingProofs ----------------------------
(* Lending's invariants, and that Lending implements LoanRegister, for every *)
(* set of clerks, cards and books.                                           *)
EXTENDS Lending, FiniteSetTheorems, TLAPS

USE DEF Finish, Goto, tables, history, program, Prompts, Queries

(* Without loans, marks and clerks away from the menu the invariant holds.   *)
LEMMA InitInv == Init => IInv
  BY DEF Init, IInv, TypeOK, VerdictAtMenu, BookKnown, PatronKnown, InsertIsFirst,
         MarkIsBacked, DebtIsHeld, PatronIsClear, OneLoanPerClerk, LoansAreBacked, FlagJustified,
         MissingMarkExplained, LentIsRecorded, DebtRechecked

(* What the table transactions backs stays backed when no clerk reaches a    *)
(* mark or a verdict: Library.cpp:217, 252 and 149 are not run by the step.  *)
LEMMA RecordsKept ==
  ASSUME MarkIsBacked, LentIsRecorded, loans' = loans,
         \A d \in Clerk : pc'[d] \in {"repair", "mark"} \/ told'[d] = "lent" =>
            /\ pc'[d] = pc[d] /\ told'[d] = told[d]
            /\ patron'[d] = patron[d] /\ book'[d] = book[d]
  PROVE  MarkIsBacked' /\ LentIsRecorded'
  BY LendingConstants DEF MarkIsBacked, LentIsRecorded

(* Typing a card number moves one clerk to the ISBN prompt.                   *)
LEMMA AddLibraryCardNumberInv ==
  ASSUME IInv, NEW c \in Clerk, AddLibraryCardNumber(c)
  PROVE  IInv'
<1>1. TypeOK'
  BY DEF AddLibraryCardNumber, MayBorrow, IInv, TypeOK
<1>2. /\ UNCHANGED <<tables, book, history>>
      /\ \A d \in Clerk : d # c =>
           pc'[d] = pc[d] /\ patron'[d] = patron[d] /\ told'[d] = told[d]
      /\ pc[c] = "menu" /\ pc'[c] \in {"menu", "isbn"} /\ told'[c] # "lent"
      /\ pc'[c] = "isbn" => patron'[c] \in patrons /\ patron'[c] \notin debtors
  BY DEF AddLibraryCardNumber, MayBorrow, IInv, TypeOK
<1>3. VerdictAtMenu' /\ BookKnown' /\ PatronKnown' /\ InsertIsFirst'
  BY <1>2 DEF IInv, TypeOK, VerdictAtMenu, BookKnown, PatronKnown, InsertIsFirst
<1>4. DebtIsHeld' /\ PatronIsClear' /\ DebtRechecked'
  BY <1>2, LendingConstants DEF IInv, TypeOK, DebtIsHeld, PatronIsClear, DebtRechecked
<1>5. MarkIsBacked' /\ LentIsRecorded'
  BY <1>2, RecordsKept DEF IInv
<1>6. OneLoanPerClerk' /\ LoansAreBacked' /\ FlagJustified'
  BY <1>2 DEF IInv, OneLoanPerClerk, LoansAreBacked, FlagJustified
<1>7. MissingMarkExplained'
  BY <1>2 DEF IInv, MissingMarkExplained
<1> QED BY <1>1, <1>3, <1>4, <1>5, <1>6, <1>7 DEF IInv

(* Typing an ISBN moves one clerk to the confirmation, with a book in books.  *)
LEMMA AddISBNInv ==
  ASSUME IInv, NEW c \in Clerk, AddISBN(c)
  PROVE  IInv'
<1>1. TypeOK'
  BY DEF AddISBN, MayBeLent, IInv, TypeOK
<1>2. VerdictAtMenu' /\ BookKnown' /\ PatronKnown' /\ InsertIsFirst'
      /\ DebtIsHeld' /\ PatronIsClear' /\ DebtRechecked'
  BY LendingConstants DEF AddISBN, MayBeLent, IInv, TypeOK, VerdictAtMenu,
         BookKnown, PatronKnown, InsertIsFirst, DebtIsHeld, PatronIsClear, DebtRechecked
<1>3. MarkIsBacked' /\ LentIsRecorded'
  BY RecordsKept, <1>1 DEF AddISBN, MayBeLent, IInv, TypeOK, VerdictAtMenu
<1>4. OneLoanPerClerk' /\ LoansAreBacked' /\ FlagJustified' /\ MissingMarkExplained'
  BY DEF AddISBN, MayBeLent, IInv, TypeOK, OneLoanPerClerk, LoansAreBacked, FlagJustified,
         MissingMarkExplained
<1> QED BY <1>1, <1>2, <1>3, <1>4 DEF IInv

(* "n" ends the loan at the menu.                                             *)
LEMMA DeclineInv ==
  ASSUME IInv, NEW c \in Clerk, Decline(c)
  PROVE  IInv'
<1>1. TypeOK'
  BY DEF Decline, IInv, TypeOK
<1>2. VerdictAtMenu' /\ BookKnown' /\ PatronKnown' /\ InsertIsFirst'
      /\ DebtIsHeld' /\ PatronIsClear' /\ DebtRechecked'
  BY LendingConstants DEF Decline, IInv, TypeOK, VerdictAtMenu, BookKnown, PatronKnown,
         InsertIsFirst, DebtIsHeld, PatronIsClear, DebtRechecked
<1>3. MarkIsBacked' /\ LentIsRecorded'
  BY LendingConstants DEF Decline, IInv, TypeOK, MarkIsBacked, LentIsRecorded,
         VerdictAtMenu
<1>4. OneLoanPerClerk' /\ LoansAreBacked' /\ FlagJustified' /\ MissingMarkExplained'
  BY DEF Decline, IInv, TypeOK, OneLoanPerClerk, LoansAreBacked, FlagJustified,
         MissingMarkExplained
<1> QED BY <1>1, <1>2, <1>3, <1>4 DEF IInv

(* "y" starts the second look, and fixes whether a fee is held.               *)
LEMMA ApproveInv ==
  ASSUME IInv, NEW c \in Clerk, Approve(c)
  PROVE  IInv'
<1>1. TypeOK'
  BY DEF Approve, IInv, TypeOK
<1>2. VerdictAtMenu' /\ BookKnown' /\ PatronKnown' /\ InsertIsFirst'
      /\ DebtIsHeld' /\ PatronIsClear' /\ DebtRechecked'
  BY LendingConstants DEF Approve, IInv, TypeOK, VerdictAtMenu, BookKnown, PatronKnown,
         InsertIsFirst, DebtIsHeld, PatronIsClear, DebtRechecked
<1>3. MarkIsBacked' /\ LentIsRecorded'
  BY LendingConstants DEF Approve, IInv, TypeOK, MarkIsBacked, LentIsRecorded,
         VerdictAtMenu
<1>4. OneLoanPerClerk' /\ LoansAreBacked' /\ FlagJustified' /\ MissingMarkExplained'
  BY DEF Approve, IInv, TypeOK, OneLoanPerClerk, LoansAreBacked, FlagJustified,
         MissingMarkExplained
<1> QED BY <1>1, <1>2, <1>3, <1>4 DEF IInv

(* The second look at the patron sees a fee held since the "y".               *)
LEMMA RecheckPatronInv ==
  ASSUME IInv, NEW c \in Clerk, RecheckPatron(c)
  PROVE  IInv'
<1>1. TypeOK'
  BY DEF RecheckPatron, MayBorrow, IInv, TypeOK
<1>2. VerdictAtMenu' /\ BookKnown' /\ PatronKnown' /\ InsertIsFirst'
      /\ DebtIsHeld' /\ PatronIsClear' /\ DebtRechecked'
  BY LendingConstants DEF RecheckPatron, MayBorrow, IInv, TypeOK,
         VerdictAtMenu, BookKnown, PatronKnown, InsertIsFirst, DebtIsHeld, PatronIsClear,
         DebtRechecked
<1>3. MarkIsBacked' /\ LentIsRecorded'
  BY RecordsKept, <1>1 DEF RecheckPatron, MayBorrow, IInv, TypeOK,
         VerdictAtMenu
<1>4. OneLoanPerClerk' /\ LoansAreBacked' /\ FlagJustified' /\ MissingMarkExplained'
  BY DEF RecheckPatron, MayBorrow, IInv, TypeOK, OneLoanPerClerk, LoansAreBacked,
         FlagJustified, MissingMarkExplained
<1> QED BY <1>1, <1>2, <1>3, <1>4 DEF IInv

(* The second look at the book changes one clerk's place.                     *)
LEMMA RecheckBookInv ==
  ASSUME IInv, NEW c \in Clerk, RecheckBook(c)
  PROVE  IInv'
<1>1. TypeOK'
  BY DEF RecheckBook, MayBeLent, IInv, TypeOK
<1>2. VerdictAtMenu' /\ BookKnown' /\ PatronKnown' /\ InsertIsFirst'
      /\ DebtIsHeld' /\ PatronIsClear' /\ DebtRechecked'
  BY LendingConstants DEF RecheckBook, MayBeLent, IInv, TypeOK, VerdictAtMenu,
         BookKnown, PatronKnown, InsertIsFirst, DebtIsHeld, PatronIsClear, DebtRechecked
<1>3. MarkIsBacked' /\ LentIsRecorded'
  BY RecordsKept, <1>1 DEF RecheckBook, MayBeLent, IInv, TypeOK, VerdictAtMenu
<1>4. OneLoanPerClerk' /\ LoansAreBacked' /\ FlagJustified' /\ MissingMarkExplained'
  BY DEF RecheckBook, MayBeLent, IInv, TypeOK, OneLoanPerClerk, LoansAreBacked, FlagJustified,
         MissingMarkExplained
<1> QED BY <1>1, <1>2, <1>3, <1>4 DEF IInv

(* The scan sends a clerk to INSERT only past its own earlier loans.          *)
LEMMA ScanLoansInv ==
  ASSUME IInv, NEW c \in Clerk, ScanLoans(c)
  PROVE  IInv'
<1>1. TypeOK'
  BY DEF ScanLoans, LoansOf, IInv, TypeOK
<1>2. VerdictAtMenu' /\ BookKnown' /\ PatronKnown' /\ InsertIsFirst'
      /\ DebtIsHeld' /\ PatronIsClear' /\ DebtRechecked'
  BY LendingConstants DEF ScanLoans, LoansOf, IInv, TypeOK, VerdictAtMenu,
         BookKnown, PatronKnown, InsertIsFirst, DebtIsHeld, PatronIsClear, DebtRechecked
<1>3. MarkIsBacked' /\ LentIsRecorded'
  <2>1. /\ pc'[c] = "repair" => LoansOf(book[c]) # {}
        /\ pc'[c] \in {"repair", "insert"} /\ loans' = loans /\ book' = book
        /\ patron' = patron /\ told' = told
        /\ \A d \in Clerk : d # c => pc'[d] = pc[d]
    BY DEF ScanLoans, IInv, TypeOK
  <2>2. pc'[c] = "repair" => \E l \in loans : l.isbn = book[c]
    BY <2>1 DEF LoansOf
  <2> QED BY <2>1, <2>2, LendingConstants
          DEF IInv, MarkIsBacked, LentIsRecorded
<1>4. OneLoanPerClerk' /\ LoansAreBacked' /\ FlagJustified' /\ MissingMarkExplained'
  BY DEF ScanLoans, LoansOf, IInv, TypeOK, OneLoanPerClerk, LoansAreBacked, FlagJustified,
         MissingMarkExplained
<1> QED BY <1>1, <1>2, <1>3, <1>4 DEF IInv

(* The repair marks a book the scan found lent.                               *)
LEMMA RepairInv ==
  ASSUME IInv, NEW c \in Clerk, Repair(c)
  PROVE  IInv'
<1>1. TypeOK'
  BY DEF Repair, SetCheckedOut, UpdateFails, IInv, TypeOK
<1>2. VerdictAtMenu' /\ BookKnown' /\ PatronKnown' /\ InsertIsFirst'
      /\ DebtIsHeld' /\ PatronIsClear' /\ DebtRechecked'
  BY LendingConstants DEF Repair, SetCheckedOut, UpdateFails, IInv, TypeOK,
         VerdictAtMenu, BookKnown, PatronKnown, InsertIsFirst, DebtIsHeld, PatronIsClear,
         DebtRechecked
<1>3. MarkIsBacked' /\ LentIsRecorded'
  BY LendingConstants DEF Repair, SetCheckedOut, UpdateFails, IInv, TypeOK,
         MarkIsBacked, LentIsRecorded, VerdictAtMenu
<1>4. OneLoanPerClerk' /\ LoansAreBacked' /\ MissingMarkExplained'
  BY DEF Repair, SetCheckedOut, UpdateFails, IInv, TypeOK, OneLoanPerClerk, LoansAreBacked,
         MissingMarkExplained, BookKnown
<1>5. FlagJustified'
  <2>1. ~HandRepairs => \E l \in loans : l.isbn = book[c]
    BY LendingConstants DEF Repair, IInv, MarkIsBacked
  <2>2. checkedOut' \subseteq checkedOut \cup {book[c]} /\ loans' = loans
    BY DEF Repair, SetCheckedOut, UpdateFails
  <2> QED BY <2>1, <2>2 DEF IInv, FlagJustified
<1> QED BY <1>1, <1>2, <1>3, <1>4, <1>5 DEF IInv

(* The INSERT adds the clerk's first loan of the book.                        *)
LEMMA InsertLoanInv ==
  ASSUME IInv, NEW c \in Clerk, InsertLoan(c)
  PROVE  IInv'
<1> DEFINE new == [id |-> nextId, isbn |-> book[c], card |-> patron[c], by |-> c]
<1>1. PICK place \in {"mark", "menu"} :
      /\ pc[c] = "insert" /\ loans' = loans \cup {new} /\ nextId' = nextId + 1
      /\ pc' = [pc EXCEPT ![c] = place]
      /\ place = "menu" => book[c] \in interrupted'
      /\ told' \in {told, [told EXCEPT ![c] = "not lent"]}
      /\ interrupted \subseteq interrupted'
      /\ interrupted' \subseteq interrupted \cup {book[c]}
      /\ UNCHANGED <<books, checkedOut, patrons, debtors, patron, book, advised,
                     debtHeld>>
  BY DEF InsertLoan, NewLoan, IInv, TypeOK
<1>2. new \in Loan
  BY DEF IInv, TypeOK, Loan
<1> HIDE DEF new
<1>3. TypeOK'
  <2>1. loans \subseteq Loan /\ interrupted \subseteq ISBN
        /\ book[c] \in ISBN /\ nextId \in Nat
    BY DEF IInv, TypeOK
  <2>2. loans' = loans \cup {new} /\ nextId' = nextId + 1
    BY <1>1
  <2>4. loans' \in SUBSET Loan /\ nextId' \in Nat
    BY <1>2, <2>1, <2>2
  <2>3. interrupted' \in SUBSET ISBN
    BY <1>1, <2>1
  <2> QED BY <1>1, <2>3, <2>4 DEF IInv, TypeOK
<1>4. new.isbn = book[c] /\ new.card = patron[c] /\ new.by = c
  BY DEF new
<1>5. VerdictAtMenu' /\ BookKnown' /\ PatronKnown' /\ DebtIsHeld' /\ PatronIsClear' /\ DebtRechecked'
  BY <1>1, LendingConstants DEF IInv, TypeOK, VerdictAtMenu, BookKnown, PatronKnown, DebtIsHeld,
         PatronIsClear, DebtRechecked
<1>6. InsertIsFirst'
  BY <1>1, <1>4 DEF IInv, TypeOK, InsertIsFirst
<1>7. MarkIsBacked'
  <2>1. \A d \in Clerk : d # c => pc'[d] = pc[d]
    BY <1>1 DEF IInv, TypeOK
  <2>2. pc'[c] # "repair" /\ new \in loans' /\ loans \subseteq loans'
    BY <1>1 DEF IInv, TypeOK
  <2> QED BY <1>1, <1>4, <2>1, <2>2, LendingConstants DEF IInv, MarkIsBacked
<1>8. LentIsRecorded'
  BY <1>1, LendingConstants DEF IInv, TypeOK, LentIsRecorded, VerdictAtMenu
<1>9. OneLoanPerClerk'
  <2>1. \A l \in loans : ~(l.isbn = new.isbn /\ l.by = new.by)
    BY <1>1, <1>4 DEF IInv, InsertIsFirst
  <2> QED BY <1>1, <2>1 DEF IInv, OneLoanPerClerk
<1>10. FlagJustified' /\ LoansAreBacked'
  <2>1. FlagJustified'
    BY <1>1 DEF IInv, FlagJustified
  <2>2. new.isbn \in books /\ new.card \in patrons
    BY <1>1, <1>4 DEF IInv, BookKnown, PatronKnown
  <2> QED BY <1>1, <2>1, <2>2 DEF IInv, LoansAreBacked
<1>11. MissingMarkExplained'
  <2>1. \/ \E d \in Clerk : pc'[d] = "mark" /\ book'[d] = new.isbn
        \/ new.isbn \in interrupted'
    BY <1>1, <1>4 DEF IInv, TypeOK
  <2>2. \A d \in Clerk : pc[d] = "mark" => pc'[d] = "mark"
    BY <1>1 DEF IInv, TypeOK
  <2> QED BY <1>1, <2>1, <2>2 DEF IInv, MissingMarkExplained
<1> QED BY <1>3, <1>5, <1>6, <1>7, <1>8, <1>9, <1>10, <1>11 DEF IInv

(* The mark follows the clerk's own INSERT.                                   *)
LEMMA MarkCheckedOutInv ==
  ASSUME IInv, NEW c \in Clerk, MarkCheckedOut(c)
  PROVE  IInv'
<1>1. TypeOK'
  BY DEF MarkCheckedOut, SetCheckedOut, UpdateFails, IInv, TypeOK
<1>2. VerdictAtMenu' /\ BookKnown' /\ PatronKnown' /\ InsertIsFirst'
      /\ DebtIsHeld' /\ PatronIsClear' /\ DebtRechecked'
  BY LendingConstants DEF MarkCheckedOut, SetCheckedOut, UpdateFails, IInv,
         TypeOK, VerdictAtMenu, BookKnown, PatronKnown, InsertIsFirst, DebtIsHeld,
         PatronIsClear, DebtRechecked
<1>3. MarkIsBacked' /\ LentIsRecorded'
  BY LendingConstants DEF MarkCheckedOut, SetCheckedOut, UpdateFails, IInv,
         TypeOK, MarkIsBacked, LentIsRecorded, VerdictAtMenu
<1>4. OneLoanPerClerk' /\ LoansAreBacked' /\ MissingMarkExplained'
  BY DEF MarkCheckedOut, SetCheckedOut, UpdateFails, IInv, TypeOK,
         OneLoanPerClerk, LoansAreBacked, MissingMarkExplained, BookKnown
<1>5. FlagJustified'
  <2>1. ~HandRepairs => \E l \in loans : l.isbn = book[c]
    BY LendingConstants DEF MarkCheckedOut, IInv, MarkIsBacked
  <2>2. checkedOut' \subseteq checkedOut \cup {book[c]} /\ loans' = loans
    BY DEF MarkCheckedOut, SetCheckedOut, UpdateFails
  <2> QED BY <2>1, <2>2 DEF IInv, FlagJustified
<1> QED BY <1>1, <1>2, <1>3, <1>4, <1>5 DEF IInv

(* A statement that fails is as if it was never sent.                         *)
LEMMA QueryFailsInv ==
  ASSUME IInv, NEW c \in Clerk, QueryFails(c)
  PROVE  IInv'
<1>1. TypeOK'
  BY DEF QueryFails, IInv, TypeOK
<1>2. VerdictAtMenu' /\ BookKnown' /\ PatronKnown' /\ InsertIsFirst'
      /\ DebtIsHeld' /\ PatronIsClear' /\ DebtRechecked'
  BY LendingConstants DEF QueryFails, IInv, TypeOK, VerdictAtMenu, BookKnown, PatronKnown,
         InsertIsFirst, DebtIsHeld, PatronIsClear, DebtRechecked
<1>3. MarkIsBacked' /\ LentIsRecorded'
  BY LendingConstants DEF QueryFails, IInv, TypeOK, MarkIsBacked,
         LentIsRecorded, VerdictAtMenu
<1>4. OneLoanPerClerk' /\ LoansAreBacked' /\ FlagJustified' /\ MissingMarkExplained'
  BY DEF QueryFails, IInv, TypeOK, OneLoanPerClerk, LoansAreBacked, FlagJustified,
         MissingMarkExplained
<1> QED BY <1>1, <1>2, <1>3, <1>4 DEF IInv

(* A crash forgets the clerk's place and leaves the tables alone.             *)
LEMMA CrashInv ==
  ASSUME IInv, NEW c \in Clerk, Crash(c)
  PROVE  IInv'
<1>1. TypeOK'
  BY DEF Crash, IInv, TypeOK
<1>2. VerdictAtMenu' /\ BookKnown' /\ PatronKnown' /\ InsertIsFirst'
      /\ DebtIsHeld' /\ PatronIsClear' /\ DebtRechecked'
  BY LendingConstants DEF Crash, IInv, TypeOK, VerdictAtMenu, BookKnown, PatronKnown,
         InsertIsFirst, DebtIsHeld, PatronIsClear, DebtRechecked
<1>3. MarkIsBacked' /\ LentIsRecorded'
  BY LendingConstants DEF Crash, IInv, TypeOK, MarkIsBacked, LentIsRecorded,
         VerdictAtMenu
<1>4. OneLoanPerClerk' /\ LoansAreBacked' /\ FlagJustified' /\ MissingMarkExplained'
  BY DEF Crash, IInv, TypeOK, OneLoanPerClerk, LoansAreBacked, FlagJustified,
         MissingMarkExplained
<1> QED BY <1>1, <1>2, <1>3, <1>4 DEF IInv

(* Back in the menus the verdict leaves the screen.                           *)
LEMMA ClearScreenInv ==
  ASSUME IInv, NEW c \in Clerk, ClearScreen(c)
  PROVE  IInv'
<1>1. /\ UNCHANGED <<tables, patron, book, history>> /\ pc' = pc
      /\ \A d \in Clerk : told'[d] = "lent" => told'[d] = told[d]
      /\ told' \in [Clerk -> {"nothing", "lent", "not lent"}]
  BY DEF ClearScreen, IInv, TypeOK
<1>2. TypeOK' /\ VerdictAtMenu' /\ BookKnown' /\ PatronKnown' /\ InsertIsFirst'
  BY <1>1 DEF IInv, TypeOK, VerdictAtMenu, BookKnown, PatronKnown, InsertIsFirst
<1>3. DebtIsHeld' /\ PatronIsClear' /\ DebtRechecked'
  BY <1>1, LendingConstants DEF IInv, DebtIsHeld, PatronIsClear, DebtRechecked
<1>4. MarkIsBacked' /\ LentIsRecorded'
  BY <1>1, LendingConstants DEF IInv, MarkIsBacked, LentIsRecorded
<1>5. OneLoanPerClerk' /\ LoansAreBacked' /\ FlagJustified' /\ MissingMarkExplained'
  BY <1>1 DEF IInv, OneLoanPerClerk, LoansAreBacked, FlagJustified, MissingMarkExplained
<1> QED BY <1>2, <1>3, <1>4, <1>5 DEF IInv

(* A new row in books or in patrons takes nothing away from what is there.    *)
LEMMA EnterInv ==
  ASSUME IInv,
         \/ \E b \in ISBN : EnterBook(b)
         \/ \E k \in Card : RegisterPatron(k)
  PROVE  IInv'
<1>1. /\ UNCHANGED <<checkedOut, debtors, loans, nextId, program, history>>
      /\ books \subseteq books' /\ books' \subseteq books \cup ISBN
      /\ patrons \subseteq patrons' /\ patrons' \subseteq patrons \cup Card
  BY DEF EnterBook, RegisterPatron
<1>2. TypeOK' /\ VerdictAtMenu' /\ BookKnown' /\ PatronKnown' /\ InsertIsFirst'
  BY <1>1 DEF IInv, TypeOK, VerdictAtMenu, BookKnown, PatronKnown, InsertIsFirst
<1>3. DebtIsHeld' /\ PatronIsClear' /\ DebtRechecked'
  BY <1>1, LendingConstants DEF IInv, DebtIsHeld, PatronIsClear, DebtRechecked
<1>4. MarkIsBacked' /\ LentIsRecorded'
  BY <1>1, RecordsKept DEF IInv
<1>5. OneLoanPerClerk' /\ LoansAreBacked' /\ FlagJustified' /\ MissingMarkExplained'
  BY <1>1 DEF IInv, OneLoanPerClerk, LoansAreBacked, FlagJustified, MissingMarkExplained
<1> QED BY <1>2, <1>3, <1>4, <1>5 DEF IInv

(* A fee moved by hand: a clerk whose patron stops owing no longer holds it. *)
LEMMA MoveFeeInv ==
  ASSUME IInv, NEW k \in Card, MoveFee(k)
  PROVE  IInv'
<1>1. TypeOK' /\ VerdictAtMenu' /\ BookKnown' /\ PatronKnown' /\ InsertIsFirst'
  BY DEF MoveFee, IInv, TypeOK, VerdictAtMenu, BookKnown, PatronKnown, InsertIsFirst
<1>2. DebtIsHeld' /\ PatronIsClear' /\ DebtRechecked'
  BY LendingConstants DEF MoveFee, IInv, TypeOK, DebtIsHeld, PatronIsClear, DebtRechecked
<1>3. MarkIsBacked' /\ LentIsRecorded'
  BY RecordsKept DEF MoveFee, IInv
<1>4. OneLoanPerClerk' /\ LoansAreBacked' /\ FlagJustified' /\ MissingMarkExplained'
  BY DEF MoveFee, IInv, OneLoanPerClerk, LoansAreBacked, FlagJustified, MissingMarkExplained
<1> QED BY <1>1, <1>2, <1>3, <1>4 DEF IInv

(* Advice followed by hand marks a book or deletes its loans.                *)
LEMMA FollowAdviceInv ==
  ASSUME IInv, NEW b \in ISBN, FollowAdvice(b)
  PROVE  IInv'
<1>1. /\ HandRepairs /\ loans' \subseteq loans /\ checkedOut \subseteq checkedOut'
      /\ checkedOut' \subseteq checkedOut \cup {b} /\ advised' = advised \ {b}
      /\ UNCHANGED <<books, patrons, debtors, nextId, program, interrupted, debtHeld>>
  BY DEF FollowAdvice, SetCheckedOut
<1>2. TypeOK' /\ VerdictAtMenu' /\ BookKnown' /\ PatronKnown' /\ InsertIsFirst'
  BY <1>1 DEF IInv, TypeOK, VerdictAtMenu, BookKnown, PatronKnown, InsertIsFirst
<1>3. DebtIsHeld' /\ PatronIsClear' /\ DebtRechecked'
  BY <1>1, LendingConstants DEF IInv, DebtIsHeld, PatronIsClear, DebtRechecked
<1>4. MarkIsBacked' /\ LentIsRecorded' /\ FlagJustified'
  BY <1>1 DEF MarkIsBacked, LentIsRecorded, FlagJustified
<1>5. OneLoanPerClerk' /\ LoansAreBacked' /\ MissingMarkExplained'
  BY <1>1 DEF IInv, OneLoanPerClerk, LoansAreBacked, MissingMarkExplained
<1> QED BY <1>2, <1>3, <1>4, <1>5 DEF IInv

LEMMA StutterInv == IInv /\ UNCHANGED vars => IInv'
<1> SUFFICES ASSUME IInv, UNCHANGED vars PROVE IInv'
  OBVIOUS
<1>1. TypeOK' /\ VerdictAtMenu' /\ BookKnown' /\ PatronKnown' /\ InsertIsFirst'
      /\ DebtIsHeld' /\ PatronIsClear' /\ DebtRechecked'
  BY LendingConstants DEF vars, IInv, TypeOK, VerdictAtMenu, BookKnown, PatronKnown,
     InsertIsFirst, DebtIsHeld, PatronIsClear, DebtRechecked
<1>2. MarkIsBacked' /\ LentIsRecorded'
  BY RecordsKept DEF vars, IInv
<1>3. OneLoanPerClerk' /\ LoansAreBacked' /\ FlagJustified' /\ MissingMarkExplained'
  BY DEF vars, IInv, OneLoanPerClerk, LoansAreBacked, FlagJustified, MissingMarkExplained
<1> QED BY <1>1, <1>2, <1>3 DEF IInv

(* Every step of the program, of the server's faults and of the librarian     *)
(* keeps the invariant.                                                       *)
LEMMA NextInv == IInv /\ [Next]_vars => IInv'
<1> SUFFICES ASSUME IInv, [Next]_vars PROVE IInv'
  OBVIOUS
<1>1. CASE \E c \in Clerk : ClerkStep(c)
  BY <1>1, AddLibraryCardNumberInv, AddISBNInv, DeclineInv, ApproveInv,
     RecheckPatronInv, RecheckBookInv, ScanLoansInv, RepairInv, InsertLoanInv,
     MarkCheckedOutInv, QueryFailsInv, CrashInv, ClearScreenInv DEF ClerkStep, DatabaseStep
<1>2. CASE \E k \in Card : MoveFee(k) \/ RegisterPatron(k)
  BY <1>2, MoveFeeInv, EnterInv
<1>3. CASE \E b \in ISBN : FollowAdvice(b) \/ EnterBook(b)
  BY <1>3, FollowAdviceInv, EnterInv
<1>4. CASE UNCHANGED vars
  BY <1>4, StutterInv
<1> QED BY <1>1, <1>2, <1>3, <1>4 DEF Next

(* The invariant of add_transaction, for any number of clerks: with it hold   *)
(* all the safety properties that Lending states.                             *)
THEOREM Invariance == Spec => []IInv
  BY InitInv, NextInv, PTL DEF Spec

(* The types of the tables and of the program's locals are kept.              *)
THEOREM TypeCorrect == Spec => []TypeOK
  BY Invariance, PTL DEF IInv

(* Crashes, lost replies and retries never make one clerk lend a book twice.  *)
THEOREM NoSecondLoan == Spec => []OneLoanPerClerk
  BY Invariance, PTL DEF IInv

(* The book and the patron of every loan have their rows, without a foreign   *)
(* key: they are never deleted, and the second looks precede the INSERT.      *)
THEOREM LoansHaveRows == Spec => []LoansAreBacked
  BY Invariance, PTL DEF IInv

(* No book is taken out of circulation without a loan, by the repair of a     *)
(* mark either (Library.cpp:217-228, 252).                                    *)
THEOREM MarksAreTrue == Spec => []FlagJustified
  BY Invariance, PTL DEF IInv

(* A loan without its mark has an UPDATE that was cut short, or a hand that   *)
(* took the mark away (Library.cpp:240-258).                                  *)
THEOREM MarksAreExplained == Spec => []MissingMarkExplained
  BY Invariance, PTL DEF IInv

(* The clerk is told that a loan was added only if it is in the table         *)
(* (Library.cpp:149).                                                         *)
THEOREM VerdictsAreTrue == Spec => []LentIsRecorded
  BY Invariance, PTL DEF IInv

(* A fee held from the "y" on refuses the loan (Library.cpp:176-186).         *)
THEOREM DebtorsAreRefused == Spec => []DebtRechecked
  BY Invariance, PTL DEF IInv

-----------------------------------------------------------------------------
(* Two loans of a book are by two clerks, so there are at most as many loans  *)
(* of a book as clerks: the bound the scan of Library.cpp:204-238 gives.      *)
THEOREM LoanBound ==
  ASSUME IsFiniteSet(Clerk)
  PROVE  Spec => []LoansBounded
<1>1. IInv => LoansBounded
  <2> SUFFICES ASSUME IInv, NEW b \in ISBN
               PROVE  Cardinality(LoansOf(b)) <= Cardinality(Clerk)
    BY DEF LoansBounded
  <2> DEFINE by == [l \in LoansOf(b) |-> l.by]
  <2>1. by \in [LoansOf(b) -> Clerk]
    BY DEF LoansOf, IInv, TypeOK, Loan
  <2>2. \A l, m \in LoansOf(b) : l.by = m.by => l = m
    BY DEF LoansOf, IInv, OneLoanPerClerk
  <2>3. by \in Injection(LoansOf(b), Clerk)
    BY <2>1, <2>2 DEF Injection, IsInjective
  <2> QED BY <2>3, FS_Injection
<1> QED BY <1>1, Invariance, PTL

-----------------------------------------------------------------------------
(* Refinement.  Row is what the register sees of a row of transactions.       *)
Row(l) == [id |-> l.id, isbn |-> l.isbn, card |-> l.card, copy |-> l.by]

(* An INSERT takes the clerk's own copy of the book, which is not lent yet.   *)
LEMMA InsertLends ==
  ASSUME IInv, FeesMove = FALSE, NEW c \in Clerk, InsertLoan(c)
  PROVE  Register!Lend(book[c], patron[c])
<1> DEFINE new == [id |-> nextId, isbn |-> book[c], card |-> patron[c], by |-> c]
           row == [id |-> nextId, isbn |-> book[c], card |-> patron[c], copy |-> c]
<1>1. patron[c] \notin debtors
  BY DEF InsertLoan, IInv, PatronIsClear
<1>2. \A r \in Register!LentOf(book[c]) : r.copy # c
  <2>1. \A l \in loans : l.isbn = book[c] => l.by # c
    BY DEF InsertLoan, IInv, InsertIsFirst
  <2> QED BY <2>1 DEF Register!LentOf
<1>3. /\ loans' = loans \cup {new} /\ nextId' = nextId + 1
      /\ checkedOut' = checkedOut /\ debtors' = debtors
  BY DEF InsertLoan, NewLoan
<1>4. {Row(l) : l \in loans'} = {Row(l) : l \in loans} \cup {row}
  <2>1. Row(new) = row
    BY DEF Row
  <2> HIDE DEF new, row
  <2>2. {Row(l) : l \in loans \cup {new}} = {Row(l) : l \in loans} \cup {Row(new)}
    OBVIOUS
  <2> QED BY <1>3, <2>1, <2>2
<1> HIDE DEF new
<1> QED BY <1>1, <1>2, <1>3, <1>4 DEF Register!Lend, Row

(* A mark is the register's: the book is known and has a loan.                *)
LEMMA MarkMarks ==
  ASSUME IInv, HandRepairs = FALSE, NEW c \in Clerk, Repair(c) \/ MarkCheckedOut(c)
  PROVE  Register!Mark(book[c]) \/ UNCHANGED Register!vars
<1>1. loans' = loans /\ nextId' = nextId /\ debtors' = debtors
  BY DEF Repair, MarkCheckedOut
<1>2. book[c] \in books
  BY DEF Repair, MarkCheckedOut, IInv, BookKnown
<1>3. PICK l \in loans : l.isbn = book[c]
  BY DEF Repair, MarkCheckedOut, IInv, MarkIsBacked
<1>4. Row(l) \in Register!LentOf(book[c])
  BY <1>3 DEF Row, Register!LentOf
<1>5. checkedOut' = checkedOut \cup {book[c]} \/ checkedOut' = checkedOut
  BY <1>2 DEF Repair, MarkCheckedOut, SetCheckedOut, UpdateFails
<1> QED BY <1>1, <1>4, <1>5 DEF Register!Mark, Register!vars

(* Clerks at work are a register with a copy of every book for each of them: *)
(* what Library.cpp:204-238 guarantees without a lock.  One clerk is a       *)
(* register of single copies, which never lends a lent book.                 *)
THEOREM Refinement ==
  ASSUME FeesMove = FALSE, HandRepairs = FALSE
  PROVE  Spec => Implements
<1>1. Init => Register!Init
  BY DEF Init, Register!Init
<1>2. IInv /\ [Next]_vars => [Register!Next]_(Register!vars)
  <2> SUFFICES ASSUME IInv, [Next]_vars
               PROVE  Register!Next \/ UNCHANGED Register!vars
    OBVIOUS
  <2>1. CASE \E c \in Clerk : InsertLoan(c)
    <3>1. PICK c \in Clerk : InsertLoan(c)
      BY <2>1
    <3>2. book[c] \in ISBN /\ patron[c] \in Card
      BY DEF IInv, TypeOK
    <3>3. Register!Lend(book[c], patron[c])
      BY <3>1, InsertLends
    <3> QED BY <3>2, <3>3 DEF Register!Next, Register!Lend
  <2>2. CASE \E c \in Clerk : Repair(c) \/ MarkCheckedOut(c)
    <3>1. PICK c \in Clerk : Repair(c) \/ MarkCheckedOut(c)
      BY <2>2
    <3>2. book[c] \in ISBN
      BY DEF IInv, TypeOK
    <3> QED BY <3>1, <3>2, MarkMarks DEF Register!Next
  <2>3. CASE UNCHANGED <<loans, nextId, checkedOut, debtors>>
    BY <2>3 DEF Register!vars
  <2>4. CASE \E c \in Clerk : ClerkStep(c)
    <3>1. PICK c \in Clerk : ClerkStep(c)
      BY <2>4
    <3>2. \/ InsertLoan(c) \/ Repair(c) \/ MarkCheckedOut(c)
          \/ UNCHANGED <<loans, nextId, checkedOut, debtors>>
      BY <3>1 DEF ClerkStep, DatabaseStep, AddLibraryCardNumber, AddISBN, Decline,
         Approve, RecheckPatron, RecheckBook, ScanLoans, QueryFails, Crash, ClearScreen
    <3> QED BY <3>2, <2>1, <2>2, <2>3
  <2>5. CASE \E k \in Card : MoveFee(k) \/ RegisterPatron(k)
    BY <2>3, <2>5 DEF MoveFee, RegisterPatron
  <2>6. CASE \E b \in ISBN : FollowAdvice(b) \/ EnterBook(b)
    BY <2>3, <2>6 DEF FollowAdvice, EnterBook
  <2>7. CASE UNCHANGED vars
    BY <2>3, <2>7 DEF vars
  <2> QED BY <2>4, <2>5, <2>6, <2>7 DEF Next
<1> QED BY <1>1, <1>2, Invariance, PTL DEF Spec, Implements, Register!Spec
=============================================================================
