------------------------------- MODULE Library -------------------------------
(***************************************************************************)
(* The three functions of Library that write to the database, side by      *)
(* side: add_patron, add_book and add_transaction.                         *)
(*                                                                         *)
(* A clerk's copy of the program runs one of them at a time, so it has one *)
(* place and one verdict, which PatronRegistry, BookRegistry and Lending   *)
(* share; the clerks' copies share the tables.  Lending reads the tables   *)
(* the other two write: its books and patrons are the rows they made.      *)
(***************************************************************************)
EXTENDS Integers, Sequences

CONSTANTS
  Clerk,                                                   \* of all three
  Lowest, Highest, MaxId, AutoIncVolatile,                 \* of PatronRegistry
  ISBN, Title, Genre, Typed, Within, GenreTables, ISBNIsKey, MaxRows,  \* of BookRegistry
  MaxLoans, FeesMove, HandRepairs                          \* of Lending

ASSUME LibraryConstants ==
  /\ Lowest \in Nat \ {0} /\ Highest \in Nat /\ MaxId \in Nat
  /\ Lowest <= Highest /\ Highest <= MaxId
  /\ \A b \in ISBN : b \in Seq(0..9) /\ Len(b) = 13
  /\ \A s \in GenreTables : s \in Seq(Genre)
  /\ Within \subseteq Typed \X Genre
  /\ \A g \in Genre : g \in Typed => <<g, g>> \in Within
  /\ MaxRows \in Nat /\ MaxLoans \in Nat
  /\ {AutoIncVolatile, ISBNIsKey, FeesMove, HandRepairs} \subseteq BOOLEAN

VARIABLES
  pc, told,                                                \* of all three
  patronRows, autoInc, insertId, announced, leftover,      \* of PatronRegistry
  bookRows, inserts, genres, isbn, title, listed, genre, typed,  \* of BookRegistry
  checkedOut, debtors, loans, nextId, patron, book,        \* of Lending
  advised, interrupted, debtHeld

patronVars  == <<patronRows, autoInc, insertId, announced, leftover>>
bookVars    == <<bookRows, inserts, genres, isbn, title, listed, genre, typed>>
lendingVars == <<checkedOut, debtors, loans, nextId, patron, book,
                 advised, interrupted, debtHeld>>
vars == <<pc, told, patronVars, bookVars, lendingVars>>

Patrons == INSTANCE PatronRegistry WITH rows <- patronRows
Books   == INSTANCE BookRegistry WITH rows <- bookRows

\* The keys a loan is made of: card numbers, and ISBNs as the tables hold them.
Card == {n \in 1..MaxId : Patrons!IsCard(n)}
Key  == {Books!Number(b) : b \in ISBN}

\* What the look-ups of a loan see of the two tables.  MySQL_row_to_patron throws
\* for a row whose number is no card number.
booksSeen   == {r.isbn : r \in bookRows}
patronsSeen == {r.card : r \in patronRows} \cap Card

Lending == INSTANCE Lending WITH
  Card <- Card, ISBN <- Key, books <- booksSeen, patrons <- patronsSeen

-----------------------------------------------------------------------------
Init ==
  /\ Patrons!Init
  /\ Books!Init
  /\ Lending!Init

AddPatron(c) ==
  /\ UNCHANGED <<bookVars, lendingVars>>
  /\ Patrons!ClerkStep(c)

AddBook(c) ==
  /\ UNCHANGED <<patronVars, lendingVars>>
  /\ Books!ClerkStep(c)

AddTransaction(c) ==
  /\ UNCHANGED <<patronVars, bookVars>>
  /\ Lending!ClerkStep(c)

\* What happens without the program: fees, advice, genres, a server restart.
Outside ==
  \/ /\ UNCHANGED <<patronVars, bookVars>>
     /\ \/ \E k \in Card : Lending!MoveFee(k)
        \/ \E b \in Key : Lending!FollowAdvice(b)
  \/ UNCHANGED <<patronVars, lendingVars>> /\ Books!EditGenres
  \/ UNCHANGED <<bookVars, lendingVars>> /\ Patrons!RestartServer

Next ==
  \/ \E c \in Clerk : AddPatron(c) \/ AddBook(c) \/ AddTransaction(c)
  \/ Outside

Spec == Init /\ [][Next]_vars

-----------------------------------------------------------------------------
\* Every loan is of a book with a row in books, to a patron with a row and a good
\* number in patrons: between the looks and the INSERT no other clerk's DELETE
\* takes the row away, though nothing locks it and no foreign key holds it.
LoansAreBacked == Lending!LoansAreBacked

(* A clerk who is elsewhere is, for Lending, at the menu without a verdict.   *)
lendingPc ==
  [c \in Clerk |-> IF pc[c] \in Lending!Busy THEN pc[c] ELSE "menu"]
lendingTold ==
  [c \in Clerk |-> IF told[c] \in {"lent", "not lent"} THEN told[c] ELSE "nothing"]

Alone == INSTANCE Lending WITH
  Card <- Card, ISBN <- Key, books <- booksSeen, patrons <- patronsSeen,
  pc <- lendingPc, told <- lendingTold

\* Seen from the loans, the other two functions only add rows: everything that
\* Lending promises alone, it promises with clerks who enter books and patrons.
ImplementsLending == Alone!Spec

(* What the refinement rests on. *)

\* A clerk away from the menu has no verdict on the screen; a DELETE of a patron
\* is of a row whose number is no card number.
FormsAreSilent ==
  \A c \in Clerk :
    /\ pc[c] # "menu" => told[c] = "nothing"
    /\ pc[c] = "delete" => ~Patrons!IsCard(insertId[c])
=============================================================================
