------------------------------- MODULE Lending -------------------------------
(***************************************************************************)
(* Library::add_transaction: a clerk lends a book to a patron.             *)
(*                                                                         *)
(* Every clerk runs its own copy of the program against one MySQL server.  *)
(* The interactive part looks the patron and the book up on connections of *)
(* their own; after the clerk's "y", add_transaction_to_MySQL_datebase     *)
(* looks both up again, scans the table transactions for the ISBN, INSERTs *)
(* a row and UPDATEs books.checked_out.  The server runs each statement    *)
(* atomically (autocommit), and nothing joins two statements: the          *)
(* statements of several clerks interleave, a statement may fail, its      *)
(* reply may be lost, and the program may die between any two of them.     *)
(*                                                                         *)
(* Abstractions: a card number and an ISBN are model values; a row of      *)
(* transactions keeps its id, ISBN and card, the dates are in no decision. *)
(* A SELECT is one step with the typing and the mysql_real_connect before  *)
(* it, since neither touches shared state.                                 *)
(***************************************************************************)
EXTENDS Naturals, FiniteSets

CONSTANTS
  Clerk,        \* running copies of the program
  Card,         \* library card numbers a clerk may type
  ISBN,         \* ISBNs a clerk may type
  MaxLoans,     \* bound: the AUTO_INCREMENT column transactions.id is exhausted after it
  FeesMove,     \* do fees change, by hand, while the program runs?
  HandRepairs   \* does the librarian follow the advice of Library.cpp:220 and 255?

ASSUME LendingConstants ==
  /\ MaxLoans \in Nat
  /\ FeesMove \in BOOLEAN
  /\ HandRepairs \in BOOLEAN

VARIABLES
  \* The tables of the MySQL server.
  books,        \* ISBNs with a row in books
  checkedOut,   \* ISBNs whose row has checked_out = 1
  patrons,      \* cards whose row exists and that MySQL_row_to_patron can convert
  debtors,      \* cards whose library_fees are at least 0.01
  loans,        \* rows of transactions
  nextId,       \* AUTO_INCREMENT of transactions
  \* The program, one copy per clerk.
  pc,           \* where the clerk's copy of the program is
  patron,       \* Transaction::patron, its card number
  book,         \* Transaction::book, its ISBN
  told,         \* the last verdict the clerk was shown
  \* History, read by properties and by the librarian only.
  advised,      \* ISBNs for which "mark it by hand or delete the loan" was printed
  interrupted,  \* ISBNs whose loan was inserted but whose mark was not confirmed
  debtHeld      \* clerks whose patron has owed a fee at every moment since the "y"

tables  == <<books, checkedOut, patrons, debtors, loans, nextId>>
program == <<pc, patron, book, told>>
history == <<advised, interrupted, debtHeld>>
vars    == <<tables, program, history>>

Prompts == {"menu", "isbn", "confirm"}
Queries == {"patron", "book", "scan", "repair", "insert", "mark"}
Busy    == {"isbn", "confirm"} \cup Queries

\* A row of transactions; "by" is a history field: the clerk whose INSERT it was.
Loan == [id : Nat, isbn : ISBN, card : Card, by : Clerk]

TypeOK ==
  /\ books \in SUBSET ISBN
  /\ checkedOut \in SUBSET ISBN
  /\ patrons \in SUBSET Card
  /\ debtors \in SUBSET Card
  /\ loans \in SUBSET Loan
  /\ nextId \in Nat
  /\ pc \in [Clerk -> Prompts \cup Queries]
  /\ patron \in [Clerk -> Card]
  /\ book \in [Clerk -> ISBN]
  /\ told \in [Clerk -> {"nothing", "lent", "not lent"}]
  /\ advised \in SUBSET ISBN
  /\ interrupted \in SUBSET ISBN
  /\ debtHeld \in SUBSET Clerk

-----------------------------------------------------------------------------
\* The tables as add_book and add_patron leave them: no book is checked out.
\* The program's locals start as the default patron and book: any value, since
\* both are overwritten before they are read.
Init ==
  /\ books \in SUBSET ISBN
  /\ checkedOut = {}
  /\ patrons \in SUBSET Card
  /\ debtors \in SUBSET patrons
  /\ loans = {}
  /\ nextId = 1
  /\ pc = [c \in Clerk |-> "menu"]
  /\ patron \in [Clerk -> Card]
  /\ book \in [Clerk -> ISBN]
  /\ told = [c \in Clerk |-> "nothing"]
  /\ advised = {}
  /\ interrupted = {}
  /\ debtHeld = {}

Goto(c, here, there) ==
  /\ pc[c] = here
  /\ pc' = [pc EXCEPT ![c] = there]

\* The clerk is back at the menu, having read the verdict v.
Finish(c, v) ==
  /\ pc' = [pc EXCEPT ![c] = "menu"]
  /\ told' = [told EXCEPT ![c] = v]

\* if_exist_patron_in_mysql_database, then Patron::is_library_fees.
MayBorrow(k) == k \in patrons /\ k \notin debtors

\* if_exist_book_in_mysql_database, then Book::schecked_out.
MayBeLent(b) == b \in books /\ b \notin checkedOut

\* SELECT * FROM transactions WHERE ISBN = b.
LoansOf(b) == {l \in loans : l.isbn = b}

\* UPDATE books SET checked_out = '1' WHERE ISBN = b; no row, no change.
SetCheckedOut(b) == checkedOut' = checkedOut \cup ({b} \cap books)

\* change_book_checked_out_in_mysql_database(b, true) reports failure, and the
\* advice is printed.  The server may have executed the UPDATE all the same.
UpdateFails(b) ==
  /\ advised' = advised \cup {b}
  /\ SetCheckedOut(b) \/ UNCHANGED checkedOut

-----------------------------------------------------------------------------
\* Transaction::add_library_card_number_interface.
AddLibraryCardNumber(c) ==
  /\ pc[c] = "menu"
  /\ \/ \E k \in Card :
          /\ MayBorrow(k)
          /\ patron' = [patron EXCEPT ![c] = k]
          /\ pc' = [pc EXCEPT ![c] = "isbn"]
          /\ told' = [told EXCEPT ![c] = "nothing"]
     \/ /\ Finish(c, "not lent")     \* not found, has a fee, or a query failed
        /\ UNCHANGED patron
  /\ UNCHANGED <<tables, book, history>>

\* Transaction::add_ISBN_interface.
AddISBN(c) ==
  /\ pc[c] = "isbn"
  /\ \/ \E b \in ISBN :
          /\ MayBeLent(b)
          /\ book' = [book EXCEPT ![c] = b]
          /\ pc' = [pc EXCEPT ![c] = "confirm"]
          /\ UNCHANGED told
     \/ /\ Finish(c, "not lent")     \* not found, lent, or a query failed
        /\ UNCHANGED book
  /\ UNCHANGED <<tables, patron, history>>

\* Transaction::approve_add_transaction_interface, answered "n".
Decline(c) ==
  /\ pc[c] = "confirm"
  /\ Finish(c, "not lent")
  /\ UNCHANGED <<tables, patron, book, history>>

\* Transaction::approve_add_transaction_interface, answered "y": from here to
\* the verdict, add_transaction_to_MySQL_datebase runs without the clerk.
Approve(c) ==
  /\ Goto(c, "confirm", "patron")
  /\ debtHeld' = IF patron[c] \in debtors THEN debtHeld \cup {c} ELSE debtHeld \ {c}
  /\ UNCHANGED <<tables, patron, book, told, advised, interrupted>>

\* Mutant: the second look forgets is_library_fees.
RecheckPatronExists(c) ==
  /\ pc[c] = "patron"
  /\ \/ /\ patron[c] \in patrons
        /\ pc' = [pc EXCEPT ![c] = "book"]
        /\ UNCHANGED told
     \/ /\ patron[c] \notin patrons
        /\ Finish(c, "not lent")
  /\ UNCHANGED <<tables, patron, book, history>>

\* The second look at the patron.
RecheckPatron(c) ==
  /\ pc[c] = "patron"
  /\ \/ /\ MayBorrow(patron[c])
        /\ pc' = [pc EXCEPT ![c] = "book"]
        /\ UNCHANGED told
     \/ /\ ~MayBorrow(patron[c])
        /\ Finish(c, "not lent")
  /\ UNCHANGED <<tables, patron, book, history>>

\* The second look at the book.
RecheckBook(c) ==
  /\ pc[c] = "book"
  /\ \/ /\ MayBeLent(book[c])
        /\ pc' = [pc EXCEPT ![c] = "scan"]
        /\ UNCHANGED told
     \/ /\ ~MayBeLent(book[c])
        /\ Finish(c, "not lent")
  /\ UNCHANGED <<tables, patron, book, history>>

\* Mutant: the result of the scan is ignored.
ScanIgnored(c) ==
  /\ Goto(c, "scan", "insert")
  /\ UNCHANGED <<tables, patron, book, told, history>>

\* Mutant: a loan in the way sends the program back to look at the book again.
ScanRetried(c) ==
  /\ pc[c] = "scan"
  /\ pc' = [pc EXCEPT ![c] = IF LoansOf(book[c]) # {} THEN "book" ELSE "insert"]
  /\ UNCHANGED <<tables, patron, book, told, history>>

\* Is there a loan of a book that is not marked as lent?
ScanLoans(c) ==
  /\ pc[c] = "scan"
  /\ pc' = [pc EXCEPT ![c] = IF LoansOf(book[c]) # {} THEN "repair" ELSE "insert"]
  /\ UNCHANGED <<tables, patron, book, told, history>>

\* There is: mark the book now, and refuse to lend it.
Repair(c) ==
  /\ pc[c] = "repair"
  /\ Finish(c, "not lent")
  /\ \/ SetCheckedOut(book[c]) /\ UNCHANGED advised
     \/ UpdateFails(book[c])
  /\ UNCHANGED <<books, patrons, debtors, loans, nextId,
                 patron, book, interrupted, debtHeld>>

\* Mutant: the two keys of the INSERT are swapped.
NewLoanSwapped(c) ==
  /\ nextId <= MaxLoans
  /\ loans' = loans \cup
       {[id |-> nextId, isbn |-> patron[c], card |-> book[c], by |-> c]}
  /\ nextId' = nextId + 1

\* The effect of the INSERT, on the server.
NewLoan(c) ==
  /\ nextId <= MaxLoans
  /\ loans' = loans \cup
       {[id |-> nextId, isbn |-> book[c], card |-> patron[c], by |-> c]}
  /\ nextId' = nextId + 1

\* Mutant: the loan is reported without a try to mark the book.
InsertUnmarked(c) ==
  /\ pc[c] = "insert"
  /\ NewLoan(c)
  /\ Finish(c, "lent")
  /\ UNCHANGED <<books, checkedOut, patrons, debtors, patron, book, history>>

\* There is none: INSERT INTO transactions, acknowledged or not.
InsertLoan(c) ==
  /\ pc[c] = "insert"
  /\ NewLoan(c)
  /\ \/ /\ pc' = [pc EXCEPT ![c] = "mark"]
        /\ UNCHANGED <<told, interrupted>>
     \/ /\ Finish(c, "not lent")               \* the reply was lost
        /\ interrupted' = interrupted \cup {book[c]}
  /\ UNCHANGED <<books, checkedOut, patrons, debtors,
                 patron, book, advised, debtHeld>>

\* Mark the lent book; the loan is reported as added whether or not this works.
MarkCheckedOut(c) ==
  /\ pc[c] = "mark"
  /\ Finish(c, "lent")
  /\ \/ /\ SetCheckedOut(book[c])
        /\ UNCHANGED <<advised, interrupted>>
     \/ /\ UpdateFails(book[c])
        /\ interrupted' = interrupted \cup {book[c]}
  /\ UNCHANGED <<books, patrons, debtors, loans, nextId, patron, book, debtHeld>>

\* Mutant: the book is marked although the INSERT failed.
QueryFailsMarks(c) ==
  /\ pc[c] \in {"patron", "book", "scan", "insert"}
  /\ pc' = [pc EXCEPT ![c] = IF pc[c] = "insert" THEN "mark" ELSE "menu"]
  /\ UNCHANGED <<tables, patron, book, told, history>>

\* Mutant: "error = true" is missing before the INSERT (Library.cpp:242).
QueryFailsLent(c) ==
  /\ pc[c] \in {"patron", "book", "scan", "insert"}
  /\ Finish(c, IF pc[c] = "insert" THEN "lent" ELSE "not lent")
  /\ UNCHANGED <<tables, patron, book, history>>

\* mysql_connect or mysql_query reports an error and nothing was executed.
QueryFails(c) ==
  /\ pc[c] \in {"patron", "book", "scan", "insert"}
  /\ Finish(c, "not lent")
  /\ UNCHANGED <<tables, patron, book, history>>

\* The program dies and is started again.  A SELECT whose result set is lost
\* ends here too: mysql_num_rows dereferences the NULL mysql_store_result gave.
Crash(c) ==
  /\ pc[c] \in Busy
  /\ Finish(c, "nothing")
  /\ interrupted' = IF pc[c] = "mark" THEN interrupted \cup {book[c]} ELSE interrupted
  /\ UNCHANGED <<tables, patron, book, advised, debtHeld>>

\* The clerk goes on in the menus: spis_menu starts by clearing the screen.
ClearScreen(c) ==
  /\ Goto(c, "menu", "menu")
  /\ told' = [told EXCEPT ![c] = "nothing"]
  /\ UNCHANGED <<tables, patron, book, history>>

-----------------------------------------------------------------------------
\* A clerk enters a book, in the form BookRegistry is about: its row is new and
\* its checked_out is 0.
EnterBook(b) ==
  /\ b \notin books
  /\ books' = books \cup {b}
  /\ UNCHANGED <<checkedOut, patrons, debtors, loans, nextId, program, history>>

\* A clerk registers a patron, in the form PatronRegistry is about: a new row
\* without fees.
RegisterPatron(k) ==
  /\ k \notin patrons
  /\ patrons' = patrons \cup {k}
  /\ UNCHANGED <<books, checkedOut, debtors, loans, nextId, program, history>>

\* External: fees are charged and paid by hand, no reachable code writes them.
MoveFee(k) ==
  /\ FeesMove
  /\ k \in patrons
  /\ \/ /\ k \notin debtors
        /\ debtors' = debtors \cup {k}
        /\ UNCHANGED debtHeld
     \/ /\ k \in debtors
        /\ debtors' = debtors \ {k}
        /\ debtHeld' = {c \in debtHeld : patron[c] # k}
  /\ UNCHANGED <<books, checkedOut, patrons, loans, nextId, program,
                 advised, interrupted>>

\* External: the librarian follows the printed advice, "mark the book as lent
\* by hand, or delete the loan and add it again" (Library.cpp:220, 255).
FollowAdvice(b) ==
  /\ HandRepairs
  /\ b \in advised
  /\ \/ /\ SetCheckedOut(b)
        /\ UNCHANGED loans
     \/ /\ b \notin checkedOut
        /\ loans' = loans \ LoansOf(b)
        /\ UNCHANGED checkedOut
  /\ advised' = advised \ {b}
  /\ UNCHANGED <<books, patrons, debtors, nextId, program, interrupted, debtHeld>>

-----------------------------------------------------------------------------
\* add_transaction_to_MySQL_datebase, from the "y" to the verdict.
DatabaseStep(c) ==
  \/ RecheckPatron(c) \/ RecheckBook(c) \/ ScanLoans(c)
  \/ Repair(c) \/ InsertLoan(c) \/ MarkCheckedOut(c) \/ QueryFails(c)

ClerkStep(c) ==
  \/ AddLibraryCardNumber(c) \/ AddISBN(c) \/ Decline(c) \/ Approve(c)
  \/ DatabaseStep(c)
  \/ Crash(c) \/ ClearScreen(c)

Next ==
  \/ \E c \in Clerk : ClerkStep(c)
  \/ \E k \in Card : MoveFee(k) \/ RegisterPatron(k)
  \/ \E b \in ISBN : FollowAdvice(b) \/ EnterBook(b)

Spec == Init /\ [][Next]_vars

\* The program runs on once the clerk has answered; the clerk may never answer.
Fairness == \A c \in Clerk : WF_vars(DatabaseStep(c))

FairSpec == Spec /\ Fairness

-----------------------------------------------------------------------------
(* Safety.  Every retry of a loan comes through the scan, which is all that   *)
(* stands between a lost reply, a crash or a failed UPDATE and a second loan. *)

\* No sequence of crashes, lost replies and retries makes one clerk lend one
\* book twice: the scan finds the clerk's own earlier row.
OneLoanPerClerk ==
  \A l, m \in loans : l.isbn = m.isbn /\ l.by = m.by => l = m

\* n clerks lend a book at most n times, and one clerk never lends a lent book.
LoansBounded ==
  \A b \in ISBN : Cardinality(LoansOf(b)) <= Cardinality(Clerk)

\* The book and the patron of every loan are in the tables, though no foreign key
\* says so and the looks at them are statements of their own.
LoansAreBacked ==
  \A l \in loans : l.isbn \in books /\ l.card \in patrons

\* A book marked as lent has a loan, unless someone deletes loans by hand:
\* no failure leaves on the shelf a book the program refuses to lend.
FlagJustified ==
  ~HandRepairs => \A b \in checkedOut : \E l \in loans : l.isbn = b

\* A loan whose book is not marked as lent is one that is about to mark it, or
\* one whose INSERT or UPDATE was cut short; nothing else loses the mark.
MissingMarkExplained ==
  \A l \in loans :
    \/ l.isbn \in checkedOut \cup interrupted
    \/ \E c \in Clerk : pc[c] = "mark" /\ book[c] = l.isbn

\* "Nowe wypozyczenie zostalo dodane!" is shown only when the loan is in the
\* table, whatever failed on the way (unless it has been deleted by hand).
LentIsRecorded ==
  ~HandRepairs =>
    \A c \in Clerk : told[c] = "lent" =>
      \E l \in loans : l.by = c /\ l.isbn = book[c] /\ l.card = patron[c]

\* A patron who owes a fee from the "y" on gets no book: the patron the clerk
\* confirmed was read before the "y", and only the second look sees the fee.
DebtRechecked ==
  \A c \in Clerk : pc[c] \in {"book", "scan", "repair", "insert", "mark"} => c \notin debtHeld

(* What the properties above rest on: the inductive invariant. *)

\* A prompt for the ISBN and everything after it has no verdict on the screen.
VerdictAtMenu ==
  \A c \in Clerk : told[c] = "lent" => pc[c] = "menu"

\* From the ISBN on, the clerk's book is one the table books has.
BookKnown ==
  \A c \in Clerk : pc[c] \notin {"menu", "isbn"} => book[c] \in books

\* From the card number on, the clerk's patron is one the table patrons has.
PatronKnown ==
  \A c \in Clerk : pc[c] # "menu" => patron[c] \in patrons

\* The program goes to INSERT only when it has no loan of the book of its own:
\* others may have lent the book since the scan, the clerk's own copy has not.
InsertIsFirst ==
  \A c \in Clerk : pc[c] = "insert" =>
    \A l \in loans : l.isbn = book[c] => l.by # c

\* What is about to be marked has been lent, or was found lent.
MarkIsBacked ==
  ~HandRepairs =>
    \A c \in Clerk :
      /\ pc[c] = "repair" => \E l \in loans : l.isbn = book[c]
      /\ pc[c] = "mark" =>
           \E l \in loans : l.by = c /\ l.isbn = book[c] /\ l.card = patron[c]

\* debtHeld means what it says while no clerk can change the patron.
DebtIsHeld ==
  \A c \in debtHeld : pc[c] \in Queries => patron[c] \in debtors

\* While no fee moves, the clerk's patron owes nothing.
PatronIsClear ==
  ~FeesMove => \A c \in Clerk : pc[c] # "menu" => patron[c] \notin debtors

IInv ==
  /\ TypeOK
  /\ VerdictAtMenu
  /\ BookKnown
  /\ PatronKnown
  /\ InsertIsFirst
  /\ MarkIsBacked
  /\ DebtIsHeld
  /\ PatronIsClear
  /\ OneLoanPerClerk
  /\ LoansAreBacked
  /\ FlagJustified
  /\ MissingMarkExplained
  /\ LentIsRecorded
  /\ DebtRechecked

(* Liveness. *)

\* Once the clerk has pressed "y" the menu comes back, whatever the other
\* clerks do and whichever statements fail.
ApprovalEnds ==
  \A c \in Clerk : pc[c] \in Queries ~> pc[c] = "menu"

(* What n clerks promise together: LoanRegister with a copy per clerk.        *)
Register == INSTANCE LoanRegister WITH
  Copy   <- Clerk,
  lent   <- {[id |-> l.id, isbn |-> l.isbn, card |-> l.card, copy |-> l.by] : l \in loans},
  marked <- checkedOut

\* Without hand-made changes, n clerks lend a book at most n times, never to a
\* debtor, and mark only lent books; one clerk never lends a lent book.
Implements == Register!Spec
=============================================================================
