---------------------------- MODULE PatronRegistry ----------------------------
(***************************************************************************)
(* Library::add_patron: a clerk registers a patron and gets a card number. *)
(*                                                                         *)
(* The number is the AUTO_INCREMENT value of the table patrons.  The       *)
(* program looks at the value with SHOW TABLE STATUS, raises it to the     *)
(* lowest card number with ALTER TABLE if it is too low, INSERTs the row,  *)
(* checks the number the row got and DELETEs the row if that is no card    *)
(* number.  Every statement is atomic on the server; clerks interleave,    *)
(* statements fail, replies are lost, programs die, the server restarts.   *)
(*                                                                         *)
(* Abstractions: name, address and date of a patron decide nothing, so a   *)
(* row keeps its number and, as history, the clerk who INSERTed it.        *)
(***************************************************************************)
EXTENDS Naturals

CONSTANTS
  Clerk,              \* running copies of the program
  Lowest, Highest,    \* card numbers: 100000 and 2140000000 in the code
  MaxId,              \* largest value of the column library_card_number
  AutoIncVolatile     \* does a restart of the server reset AUTO_INCREMENT (InnoDB before 8.0)?

ASSUME PatronConstants ==
  /\ Lowest \in Nat \ {0}
  /\ Highest \in Nat
  /\ MaxId \in Nat
  /\ Lowest <= Highest /\ Highest <= MaxId
  /\ AutoIncVolatile \in BOOLEAN

VARIABLES
  \* The MySQL server.
  rows,        \* rows of patrons
  autoInc,     \* AUTO_INCREMENT of patrons
  \* The program, one copy per clerk.
  pc,          \* where the clerk's copy is
  insertId,    \* mysql_insert_id of its connection
  told,        \* the last verdict shown
  \* History.
  announced,   \* rows shown to a clerk as "the new patron's data"
  leftover     \* numbers of the rows whose clerk never learned what became of them

server  == <<rows, autoInc>>
program == <<pc, insertId, told>>
history == <<announced, leftover>>
vars    == <<server, program, history>>

Id  == 1..MaxId
Row == [card : Id, by : Clerk]

Queries == {"status", "alter", "insert_patron", "delete"}

\* is_library_card_number.
IsCard(n) == Lowest <= n /\ n <= Highest

TypeOK ==
  /\ rows \in SUBSET Row
  /\ autoInc \in 1..(MaxId + 1)
  /\ pc \in [Clerk -> {"menu"} \cup Queries]
  /\ insertId \in [Clerk -> Id]
  /\ told \in [Clerk -> {"nothing", "patron_added", "patron_not_added"}]
  /\ announced \in SUBSET Row
  /\ leftover \in SUBSET Id

-----------------------------------------------------------------------------
\* A new table; the members of insertId are not read before they are written.
Init ==
  /\ rows = {}
  /\ autoInc = 1
  /\ pc = [c \in Clerk |-> "menu"]
  /\ insertId = [c \in Clerk |-> 1]
  /\ told = [c \in Clerk |-> "nothing"]
  /\ announced = {}
  /\ leftover = {}

Finish(c, v) ==
  /\ pc' = [pc EXCEPT ![c] = "menu"]
  /\ told' = [told EXCEPT ![c] = v]

\* The least AUTO_INCREMENT that is at least low and above every row: all that
\* InnoDB lets ALTER TABLE set it to, and where a restart may put it.
IsNextId(n, low) ==
  /\ low <= n
  /\ \A r \in rows : r.card < n
  /\ n = low \/ \E r \in rows : n = r.card + 1

\* approve_add_patron_interface, answered "y"; "n" only ends the attempt.
Approve(c) ==
  /\ pc[c] = "menu"
  /\ pc' = [pc EXCEPT ![c] = "status"]
  /\ told' = [told EXCEPT ![c] = "nothing"]
  /\ UNCHANGED <<server, insertId, history>>

\* SHOW TABLE STATUS.  row[11] is read after mysql_free_result has freed it
\* (lines 238-242), so the number the program goes on with may be any.
ReadStatus(c) ==
  /\ pc[c] = "status"
  /\ \E n \in 0..(MaxId + 1) :
       \/ IsCard(n) /\ pc' = [pc EXCEPT ![c] = "insert_patron"] /\ UNCHANGED told
       \/ n < Lowest /\ pc' = [pc EXCEPT ![c] = "alter"] /\ UNCHANGED told
       \/ n > Highest /\ Finish(c, "patron_not_added")
  /\ UNCHANGED <<server, insertId, history>>

\* ALTER TABLE patrons AUTO_INCREMENT = 100000.
AlterTable(c) ==
  /\ pc[c] = "alter"
  /\ \E n \in 1..(MaxId + 1) : IsNextId(n, Lowest) /\ autoInc' = n
  /\ \/ pc' = [pc EXCEPT ![c] = "insert_patron"] /\ UNCHANGED told
     \/ Finish(c, "patron_not_added")          \* the reply was lost
  /\ UNCHANGED <<rows, insertId, history>>

\* Mutant: the number the row got is not looked at.
AcceptAny(c) ==
  /\ Finish(c, "patron_added")
  /\ announced' = announced \cup {[card |-> autoInc, by |-> c]}

\* add_library_card_number with mysql_insert_id: announce the patron, or throw.
Accept(c) ==
  IF IsCard(autoInc)
  THEN /\ Finish(c, "patron_added")
       /\ announced' = announced \cup {[card |-> autoInc, by |-> c]}
  ELSE /\ pc' = [pc EXCEPT ![c] = "delete"]
       /\ UNCHANGED <<told, announced>>

\* Mutant: no number is too large for the column.
InsertUnbounded(c) ==
  /\ pc[c] = "insert_patron"
  /\ rows' = rows \cup {[card |-> autoInc, by |-> c]}
  /\ autoInc' = autoInc + 1
  /\ insertId' = [insertId EXCEPT ![c] = autoInc]
  /\ Accept(c) /\ UNCHANGED leftover

\* INSERT INTO patrons with a NULL number, and what the reply leads to.
InsertPatron(c) ==
  /\ pc[c] = "insert_patron"
  /\ autoInc <= MaxId
  /\ rows' = rows \cup {[card |-> autoInc, by |-> c]}
  /\ autoInc' = autoInc + 1
  /\ insertId' = [insertId EXCEPT ![c] = autoInc]
  /\ \/ Accept(c) /\ UNCHANGED leftover
     \/ /\ Finish(c, "patron_not_added")       \* the reply was lost
        /\ leftover' = leftover \cup {autoInc}
        /\ UNCHANGED announced

\* Mutant: the row deleted is the last one of the table, not the clerk's.
DeleteLast(c) ==
  /\ pc[c] = "delete"
  /\ Finish(c, "patron_not_added")
  /\ rows' = {r \in rows : \E s \in rows : r.card < s.card}
  /\ leftover' = leftover \cup {insertId[c]}
  /\ UNCHANGED <<autoInc, insertId, announced>>

\* Mutant: the row with the wrong number stays.
DeleteNothing(c) ==
  /\ pc[c] = "delete"
  /\ Finish(c, "patron_not_added")
  /\ UNCHANGED <<server, insertId, history>>

\* DELETE FROM patrons WHERE library_card_number = mysql_insert_id; it works, or
\* the reply is lost, or it fails and "was not deleted" is printed.
DeletePatron(c) ==
  /\ pc[c] = "delete"
  /\ Finish(c, "patron_not_added")
  /\ \/ /\ rows' = {r \in rows : r.card # insertId[c]}
        /\ leftover' \in {leftover, leftover \cup {insertId[c]}}
     \/ /\ leftover' = leftover \cup {insertId[c]}
        /\ UNCHANGED rows
  /\ UNCHANGED <<autoInc, insertId, announced>>

\* Mutant: a statement that failed is sent again.
QueryRetried(c) ==
  /\ pc[c] \in {"status", "alter", "insert_patron"}
  /\ pc' = [pc EXCEPT ![c] = "status"]
  /\ UNCHANGED <<server, insertId, told, history>>

\* mysql_connect or mysql_query reports an error and nothing was executed.
QueryFails(c) ==
  /\ pc[c] \in {"status", "alter", "insert_patron"}
  /\ Finish(c, "patron_not_added")
  /\ UNCHANGED <<server, insertId, history>>

\* The program dies and is started again; reading the freed row may kill it too.
Crash(c) ==
  /\ pc[c] \in Queries
  /\ Finish(c, "nothing")
  /\ leftover' = IF pc[c] = "delete" THEN leftover \cup {insertId[c]} ELSE leftover
  /\ UNCHANGED <<server, insertId, announced>>

\* The clerk goes on in the menus: spis_menu starts by clearing the screen.
ClearScreen(c) ==
  /\ pc[c] = "menu"
  /\ told' = [told EXCEPT ![c] = "nothing"]
  /\ UNCHANGED <<server, pc, insertId, history>>

\* External: InnoDB before MySQL 8.0 kept AUTO_INCREMENT in memory only.
RestartServer ==
  /\ AutoIncVolatile
  /\ \E n \in 1..(MaxId + 1) : IsNextId(n, 1) /\ autoInc' = n
  /\ UNCHANGED <<rows, program, history>>

-----------------------------------------------------------------------------
\* add_patron_to_MySQL_datebase, from the "y" to the verdict.
DatabaseStep(c) ==
  \/ ReadStatus(c) \/ AlterTable(c) \/ InsertPatron(c) \/ DeletePatron(c)
  \/ QueryFails(c)

ClerkStep(c) == Approve(c) \/ DatabaseStep(c) \/ Crash(c) \/ ClearScreen(c)

Next ==
  \/ \E c \in Clerk : ClerkStep(c)
  \/ RestartServer

Spec == Init /\ [][Next]_vars

\* The program runs on once the clerk has answered; the clerk may never answer.
Fairness == \A c \in Clerk : WF_vars(DatabaseStep(c))

FairSpec == Spec /\ Fairness

-----------------------------------------------------------------------------
(* Safety. *)

\* A number announced to a clerk is a card number, is in the table in a row of
\* that clerk, and was announced once: whatever the freed row[11] said, whatever
\* the other clerks alter and delete and however often the server restarts.
AnnouncedIsRegistered ==
  /\ announced \subseteq rows
  /\ \A r \in announced : IsCard(r.card)
  /\ \A r, s \in announced : r.card = s.card => r = s

\* A row with a number that is no card number is about to be deleted by the
\* clerk who made it, or its clerk lost the reply or the DELETE.  A row with a
\* card number that was announced to nobody is one whose reply was lost.
StrayRowExplained ==
  \A r \in rows \ announced :
    \/ r.card \in leftover
    \/ pc[r.by] = "delete" /\ insertId[r.by] = r.card /\ ~IsCard(r.card)

\* The DELETE of an invalid row takes that row only, and no step takes a row
\* that a patron holds a card of.
CardsAreKept ==
  [][\A r \in rows \ rows' : ~IsCard(r.card) /\ pc[r.by] = "delete"]_vars

\* AUTO_INCREMENT never gives a number that is in use.
NextIsFree == \A r \in rows : r.card < autoInc

(* What the properties above rest on. *)

\* The clerk at the DELETE holds the number of its own row, which is no card.
DeleteIsOwn ==
  \A c \in Clerk : pc[c] = "delete" =>
    /\ [card |-> insertId[c], by |-> c] \in rows
    /\ ~IsCard(insertId[c])

NumbersAreUnique == \A r, s \in rows : r.card = s.card => r = s

IInv ==
  /\ TypeOK
  /\ NextIsFree
  /\ NumbersAreUnique
  /\ DeleteIsOwn
  /\ AnnouncedIsRegistered
  /\ StrayRowExplained

(* Liveness. *)

\* Once the clerk has pressed "y" the menu comes back.
ApprovalEnds == \A c \in Clerk : pc[c] \in Queries ~> pc[c] = "menu"
=============================================================================
