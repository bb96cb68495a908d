---------------------------- MODULE MCBookRegistry ----------------------------
(* Small instances of BookRegistry: one genre's name occurs in another's,    *)
(* one text occurs in both names, one in none; the title has every Polish     *)
(* letter, bytes that are letters to MySQL only, and the bytes that are       *)
(* escaped next to letters and to each other.                                 *)
EXTENDS BookRegistry, TLC

Names == {"fiction", "science fiction"}
Texts == Names \cup {"sci", "x"}
Occurs ==
  {<<g, g>> : g \in Names} \cup
  {<<"fiction", "science fiction">>, <<"sci", "science fiction">>}

\* An ISBN with leading zeros, and one without.
Numbers == {<<0, 0, 8, 3, 0, 4, 0, 1, 1, 2, 2, 3, 0>>,
            <<9, 7, 8, 8, 3, 0, 4, 0, 1, 1, 2, 2, 3>>}
OneNumber == {<<0, 0, 8, 3, 0, 4, 0, 1, 1, 2, 2, 3, 0>>}

\* The bytes 39, 34, 92 and 26 are ', ", \ and Ctrl-Z; 110, 48 and 90 are n, 0
\* and Z, which a backslash would turn into something else.  To MySQL
\* 161, 230 and 177 are letters; in code page 852 they are an acute i, an S with
\* a caron, and a shade.
Titles == {ConsoleChar \o
           <<39, 92, 110, 92, 92, 48, 161, 39, 34, 26, 230, 39, 39, 90, 92, 177, 92>>}

Symmetry == Permutations(Clerk)

\* Both orders of a table whose names overlap, and an empty table.
Tables == {<<>>, <<"fiction", "science fiction">>, <<"science fiction", "fiction">>}
=============================================================================
