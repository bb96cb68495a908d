----------------------------- MODULE PatronProofs -----------------------------
(* PatronRegistry's invariants, for every set of clerks and every range of   *)
(* card numbers inside the column.                                           *)
EXTENDS PatronRegistry, Integers, TLAPS

USE PatronConstants DEF Finish, server, program, history, Queries, Id

LEMMA InitInv == Init => IInv
  BY DEF Init, IInv, TypeOK, NextIsFree, NumbersAreUnique, DeleteIsOwn,
         AnnouncedIsRegistered, StrayRowExplained

(* Steps that leave the table alone and send no clerk to the DELETE: the      *)
(* prompts, SHOW TABLE STATUS, ALTER TABLE, a failed statement.               *)
LEMMA TableKept ==
  ASSUME IInv, TypeOK', rows' = rows, announced' = announced, insertId' = insertId,
         autoInc' = autoInc \/ \A r \in rows : r.card < autoInc',
         leftover \subseteq leftover',
         \A d \in Clerk : pc'[d] = "delete" => pc[d] = "delete",
         \A d \in Clerk :
           pc[d] = "delete" => pc'[d] = "delete" \/ insertId[d] \in leftover'
  PROVE  IInv'
<1>1. NextIsFree' /\ NumbersAreUnique'
  BY DEF IInv, NextIsFree, NumbersAreUnique
<1>2. DeleteIsOwn'
  BY DEF IInv, DeleteIsOwn, IsCard
<1>3. AnnouncedIsRegistered'
  BY DEF IInv, AnnouncedIsRegistered, IsCard
<1>4. StrayRowExplained'
  BY DEF IInv, TypeOK, Row, StrayRowExplained, IsCard
<1> QED BY <1>1, <1>2, <1>3, <1>4 DEF IInv

LEMMA ApproveInv ==
  ASSUME IInv, NEW c \in Clerk, Approve(c)
  PROVE  IInv'
<1>1. TypeOK'
  BY DEF Approve, IInv, TypeOK
<1> QED BY <1>1, TableKept DEF Approve, IInv, TypeOK

LEMMA ClearScreenInv ==
  ASSUME IInv, NEW c \in Clerk, ClearScreen(c)
  PROVE  IInv'
<1>1. TypeOK'
  BY DEF ClearScreen, IInv, TypeOK
<1> QED BY <1>1, TableKept DEF ClearScreen, IInv, TypeOK

LEMMA ReadStatusInv ==
  ASSUME IInv, NEW c \in Clerk, ReadStatus(c)
  PROVE  IInv'
<1>1. TypeOK'
  BY DEF ReadStatus, IInv, TypeOK
<1> QED BY <1>1, TableKept DEF ReadStatus, IInv, TypeOK

LEMMA AlterTableInv ==
  ASSUME IInv, NEW c \in Clerk, AlterTable(c)
  PROVE  IInv'
<1>1. TypeOK'
  BY DEF AlterTable, IInv, TypeOK
<1> QED BY <1>1, TableKept DEF AlterTable, IsNextId, IInv, TypeOK

LEMMA QueryFailsInv ==
  ASSUME IInv, NEW c \in Clerk, QueryFails(c)
  PROVE  IInv'
<1>1. TypeOK'
  BY DEF QueryFails, IInv, TypeOK
<1> QED BY <1>1, TableKept DEF QueryFails, IInv, TypeOK

(* A crash at the DELETE leaves the row, and its number in leftover.          *)
LEMMA CrashInv ==
  ASSUME IInv, NEW c \in Clerk, Crash(c)
  PROVE  IInv'
<1>1. TypeOK'
  BY DEF Crash, IInv, TypeOK
<1> QED BY <1>1, TableKept DEF Crash, IInv, TypeOK

LEMMA RestartServerInv ==
  ASSUME IInv, RestartServer
  PROVE  IInv'
<1>1. TypeOK'
  BY DEF RestartServer, IInv, TypeOK
<1> QED BY <1>1, TableKept DEF RestartServer, IsNextId, IInv, TypeOK

(* The INSERT takes a number no row has, since AUTO_INCREMENT is above all.   *)
LEMMA InsertPatronInv ==
  ASSUME IInv, NEW c \in Clerk, InsertPatron(c)
  PROVE  IInv'
<1> DEFINE new == [card |-> autoInc, by |-> c]
<1>0. /\ pc[c] = "insert_patron" /\ autoInc <= MaxId /\ rows' = rows \cup {new}
      /\ autoInc' = autoInc + 1 /\ insertId' = [insertId EXCEPT ![c] = autoInc]
  BY DEF InsertPatron
<1>1. /\ autoInc \in Id /\ new \in Row /\ rows \subseteq Row
      /\ pc \in [Clerk -> {"menu"} \cup Queries] /\ insertId \in [Clerk -> Id]
  <2>1. autoInc \in 1..(MaxId + 1) /\ rows \in SUBSET Row
        /\ pc \in [Clerk -> {"menu"} \cup Queries] /\ insertId \in [Clerk -> Id]
    BY DEF IInv, TypeOK
  <2>2. autoInc \in Id
    BY <1>0, <2>1
  <2> QED BY <2>1, <2>2 DEF Row
(* What the reply leads to: announced, rejected, or lost.                     *)
<1>7. \/ /\ IsCard(autoInc) /\ announced' = announced \cup {new}
         /\ leftover' = leftover /\ Finish(c, "patron_added")
      \/ /\ ~IsCard(autoInc) /\ announced' = announced
         /\ leftover' = leftover /\ pc' = [pc EXCEPT ![c] = "delete"] /\ told' = told
      \/ /\ announced' = announced
         /\ leftover' = leftover \cup {autoInc} /\ Finish(c, "patron_not_added")
  BY DEF InsertPatron, Accept
<1> HIDE DEF new
<1>2. TypeOK'
  <2>1. rows' \in SUBSET Row /\ autoInc' \in 1..(MaxId + 1)
    BY <1>0, <1>1
  <2>2. announced' \in SUBSET Row /\ leftover' \in SUBSET Id
    BY <1>1, <1>7 DEF IInv, TypeOK
  <2>3. /\ insertId' \in [Clerk -> Id] /\ pc' \in [Clerk -> {"menu"} \cup Queries]
        /\ told' \in [Clerk -> {"nothing", "patron_added", "patron_not_added"}]
    BY <1>0, <1>1, <1>7 DEF IInv, TypeOK
  <2> QED BY <2>1, <2>2, <2>3 DEF TypeOK
<1>3. NextIsFree' /\ NumbersAreUnique'
  <2>1. new.card = autoInc /\ \A r \in rows : r.card \in Int /\ r.card < autoInc
    BY <1>1 DEF new, IInv, NextIsFree, Row
  <2> QED BY <1>0, <1>1, <2>1 DEF IInv, NextIsFree, NumbersAreUnique
<1>4. DeleteIsOwn'
  <2>1. \A d \in Clerk : d # c => pc'[d] = pc[d] /\ insertId'[d] = insertId[d]
    BY <1>0, <1>1, <1>7
  <2>2. insertId'[c] = autoInc /\ (pc'[c] = "delete" => ~IsCard(autoInc))
    BY <1>0, <1>1, <1>7
  <2> QED BY <1>0, <2>1, <2>2 DEF new, IInv, DeleteIsOwn, IsCard
<1>5. AnnouncedIsRegistered'
  <2>1. \A r \in announced : r.card # autoInc
    <3>1. announced \subseteq rows
      BY DEF IInv, AnnouncedIsRegistered
    <3>2. \A r \in rows : r.card \in Int /\ r.card < autoInc
      BY <1>1 DEF IInv, NextIsFree, Row
    <3> QED BY <1>1, <3>1, <3>2
  <2>2. new.card = autoInc
    BY DEF new
  <2>3. \/ announced' = announced
        \/ announced' = announced \cup {new} /\ IsCard(autoInc)
    BY <1>7
  <2> QED BY <1>0, <2>1, <2>2, <2>3 DEF IInv, AnnouncedIsRegistered, IsCard
<1>6. StrayRowExplained'
  <2>1. \/ new \in announced' \/ autoInc \in leftover'
        \/ pc'[c] = "delete" /\ insertId'[c] = autoInc /\ ~IsCard(autoInc)
    BY <1>0, <1>1, <1>7
  <2>2. announced \subseteq announced' /\ leftover \subseteq leftover'
    BY <1>7
  <2>3. \A d \in Clerk : pc[d] = "delete" => pc'[d] = "delete" /\ insertId'[d] = insertId[d]
    BY <1>0, <1>1, <1>7
  <2>4. new.card = autoInc /\ new.by = c /\ \A r \in rows : r.by \in Clerk
    BY <1>1 DEF new, Row
  <2> QED BY <1>0, <2>1, <2>2, <2>3, <2>4 DEF IInv, StrayRowExplained, IsCard
<1> QED BY <1>2, <1>3, <1>4, <1>5, <1>6 DEF IInv

(* The DELETE takes the clerk's own row: no other row has its number.         *)
LEMMA DeletePatronInv ==
  ASSUME IInv, NEW c \in Clerk, DeletePatron(c)
  PROVE  IInv' /\ \A r \in rows \ rows' : ~IsCard(r.card) /\ pc[r.by] = "delete"
<1> DEFINE own == [card |-> insertId[c], by |-> c]
<1>1. /\ pc[c] = "delete" /\ pc' = [pc EXCEPT ![c] = "menu"]
      /\ autoInc' = autoInc /\ insertId' = insertId /\ announced' = announced
      /\ leftover \subseteq leftover'
  BY DEF DeletePatron
<1>2. own \in rows /\ ~IsCard(insertId[c])
  BY <1>1 DEF IInv, DeleteIsOwn
<1>3. \/ rows' = rows \ {own}
      \/ rows' = rows /\ insertId[c] \in leftover'
  BY <1>2 DEF DeletePatron, IInv, NumbersAreUnique
<1>4. TypeOK'
  BY DEF DeletePatron, IInv, TypeOK
<1>5. NextIsFree' /\ NumbersAreUnique'
  BY <1>1, <1>3 DEF IInv, NextIsFree, NumbersAreUnique
<1>6. DeleteIsOwn'
  BY <1>1, <1>3 DEF IInv, TypeOK, DeleteIsOwn, IsCard
<1>7. AnnouncedIsRegistered'
  BY <1>1, <1>2, <1>3 DEF IInv, AnnouncedIsRegistered, IsCard
<1>8. StrayRowExplained'
  <2>1. \A r \in rows : r.by \in Clerk
    BY DEF IInv, TypeOK, Row
  <2>2. \A d \in Clerk : d # c => pc'[d] = pc[d]
    BY <1>1 DEF IInv, TypeOK
  <2>3. \A r \in rows : r.card = insertId[c] => r = own
    BY <1>2 DEF IInv, NumbersAreUnique
  <2> QED BY <1>1, <1>2, <1>3, <2>1, <2>2, <2>3 DEF IInv, StrayRowExplained, IsCard
<1>9. \A r \in rows \ rows' : ~IsCard(r.card) /\ pc[r.by] = "delete"
  BY <1>1, <1>2, <1>3
<1> QED BY <1>4, <1>5, <1>6, <1>7, <1>8, <1>9 DEF IInv

LEMMA NextInv ==
  IInv /\ [Next]_vars =>
    IInv' /\ \A r \in rows \ rows' : ~IsCard(r.card) /\ pc[r.by] = "delete"
<1> SUFFICES ASSUME IInv, [Next]_vars
             PROVE  IInv' /\ \A r \in rows \ rows' : ~IsCard(r.card) /\ pc[r.by] = "delete"
  OBVIOUS
<1>1. CASE \E c \in Clerk : DeletePatron(c)
  BY <1>1, DeletePatronInv
<1>2. CASE \E c \in Clerk : InsertPatron(c)
  BY <1>2, InsertPatronInv DEF InsertPatron
<1>3. CASE \E c \in Clerk : Approve(c) \/ ReadStatus(c) \/ AlterTable(c)
                            \/ QueryFails(c) \/ Crash(c) \/ ClearScreen(c)
  BY <1>3, ApproveInv, ReadStatusInv, AlterTableInv, QueryFailsInv, CrashInv,
     ClearScreenInv
     DEF Approve, ReadStatus, AlterTable, QueryFails, Crash, ClearScreen
<1>4. CASE RestartServer
  BY <1>4, RestartServerInv DEF RestartServer
<1>5. CASE UNCHANGED vars
  <2>1. TypeOK'
    BY <1>5 DEF vars, IInv, TypeOK
  <2> QED BY <1>5, <2>1, TableKept DEF vars
<1> QED BY <1>1, <1>2, <1>3, <1>4, <1>5 DEF Next, ClerkStep, DatabaseStep

(* The types of the table and of the program's locals are kept.               *)
THEOREM TypeCorrect == Spec => []TypeOK
  BY InitInv, NextInv, PTL DEF Spec, IInv

(* Every number a clerk was shown is a card number, in the table and given    *)
(* once (Patron.cpp:186-196).                                                 *)
THEOREM CardsAreGood == Spec => []AnnouncedIsRegistered
<1>1. IInv => AnnouncedIsRegistered
  BY DEF IInv
<1> QED BY <1>1, InitInv, NextInv, PTL DEF Spec

(* Every other row is about to be deleted, or a reply or the DELETE was lost  *)
(* (Patron.cpp:197-226).                                                      *)
THEOREM RowsAreExplained == Spec => []StrayRowExplained
<1>1. IInv => StrayRowExplained
  BY DEF IInv
<1> QED BY <1>1, InitInv, NextInv, PTL DEF Spec

(* The only rows that ever leave the table are those the program made and     *)
(* rejected itself (Patron.cpp:201-208).                                      *)
THEOREM NoCardIsLost == Spec => CardsAreKept
<1>1. IInv /\ [Next]_vars => [\A r \in rows \ rows' : ~IsCard(r.card) /\ pc[r.by] = "delete"]_vars
  BY NextInv
<1> QED BY <1>1, InitInv, NextInv, PTL DEF Spec, CardsAreKept
=============================================================================
