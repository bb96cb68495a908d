----------------------------- MODULE MCConnection -----------------------------
(* Two servers of a library and one on the local machine, with the data that  *)
(* Connection_data has by default.  The databases of the two share a patron.  *)
EXTENDS Connection, SequencesExt

Values == {"a", "b"}
all(v) == [i \in 1..4 |-> v]
Servers == {all("a"), all("b"), Default}

\* Every file of up to five lines with at most one short line that is meant for
\* the first server; the second's file; and two that are half edited.
Files ==
  {f \in SeqOf({"a", Short}, 5) : Cardinality({i \in DOMAIN f : f[i] = Short}) <= 1} \cup
  {Missing, all("b"), <<"b", "a", "a", "a">>, <<"a", "a", "a", "b", "b">>}

Patrons == [s \in Servers |-> IF s = all("a") THEN {"k1", "k2"} ELSE {"k2", "k3"}]
Books   == [s \in Servers |-> IF s = all("b") THEN {"b1", "b2"} ELSE {"b1"}]
=============================================================================
