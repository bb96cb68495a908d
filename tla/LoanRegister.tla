----------------------------- MODULE LoanRegister -----------------------------
(***************************************************************************)
(* What the tables transactions and books.checked_out promise a librarian. *)
(* The register holds the loans and the marks on the books.  There is a    *)
(* set of copies of every book; a copy is lent to one patron at most,      *)
(* never to one who owes a fee, and only a lent book is marked as lent.    *)
(*                                                                         *)
(* The program knows one copy of a book.  Lending implements the register  *)
(* with a copy per clerk at work: that is what its check before the        *)
(* INSERT, without a lock or a transaction, is worth.                      *)
(***************************************************************************)
EXTENDS Naturals

CONSTANTS Card, ISBN, Copy

VARIABLES lent, nextId, marked, debtors

vars == <<lent, nextId, marked, debtors>>

LentOf(b) == {l \in lent : l.isbn = b}

Init ==
  /\ lent = {}
  /\ nextId = 1
  /\ marked = {}
  /\ debtors \in SUBSET Card

Lend(b, k) ==
  /\ k \notin debtors
  /\ \E x \in Copy :
       /\ \A l \in LentOf(b) : l.copy # x
       /\ lent' = lent \cup {[id |-> nextId, isbn |-> b, card |-> k, copy |-> x]}
  /\ nextId' = nextId + 1
  /\ UNCHANGED <<marked, debtors>>

Mark(b) ==
  /\ LentOf(b) # {}
  /\ marked' = marked \cup {b}
  /\ UNCHANGED <<lent, nextId, debtors>>

Next == \E b \in ISBN : Mark(b) \/ \E k \in Card : Lend(b, k)

Spec == Init /\ [][Next]_vars
=============================================================================
