----------------------------- MODULE BookRegistry -----------------------------
(***************************************************************************)
(* Library::add_book: a clerk enters a book and it is INSERTed into books. *)
(*                                                                         *)
(* The form asks for an ISBN and checks that no row of books has it, reads *)
(* the table genres and asks for one of them, shows the book and, after    *)
(* "y", INSERTs the row without a second look at the ISBN.  The schema in  *)
(* Library.cpp:538-546 makes ISBN the primary key of books; whether the    *)
(* server does is a constant, which tells what the program ensures itself. *)
(*                                                                         *)
(* Abstractions: of the texts of a book, title, author and genre, which go *)
(* the same way into the table and back, a row keeps the title, byte for   *)
(* byte; the year decides nothing.  A genre's name and what the clerk      *)
(* types for one are members of small sets related by Within, "occurs in   *)
(* the name of".                                                           *)
(***************************************************************************)
EXTENDS Texts

CONSTANTS
  Clerk,         \* running copies of the program
  ISBN,          \* numbers of 13 digits a clerk may type
  Title,         \* texts a clerk may type
  Genre,         \* names in the table genres
  Typed,         \* what a clerk may type for a genre
  Within,        \* pairs of a text and a genre whose name it occurs in
  GenreTables,   \* contents the table genres may have, in the order of a SELECT
  ISBNIsKey,     \* does the server refuse a second row with the ISBN of another?
  MaxRows        \* bound: rows books has room for

ASSUME BookConstants ==
  /\ \A b \in ISBN : is_ISBN(b)
  /\ Within \subseteq Typed \X Genre
  /\ \A g \in Genre : g \in Typed => <<g, g>> \in Within
  /\ \A s \in GenreTables : s \in Seq(Genre)
  /\ ISBNIsKey \in BOOLEAN
  /\ MaxRows \in Nat

VARIABLES
  \* The MySQL server.
  rows,      \* rows of books
  inserts,   \* how many rows have been inserted
  genres,    \* the table genres
  \* The program, one copy per clerk.
  pc,        \* where the clerk's copy is
  isbn,      \* Book::ISBN
  title,     \* Book::title
  listed,    \* the local vector genres of add_genre_interface
  genre,     \* Book::genre
  told,      \* the last verdict shown
  \* History.
  typed      \* what the clerk typed for the genre

server  == <<rows, inserts, genres>>
program == <<pc, isbn, title, listed, genre, told>>
vars    == <<server, program, typed>>

\* Where a form that has been started may be.
Form == {"list", "genre", "approve", "insert_book"}

\* The history fields of a row: the insert's number, its clerk, and the book
\* the clerk was shown and confirmed.
Row == [isbn : {Number(b) : b \in ISBN}, title : {Stored(t) : t \in Title},
        genre : Genre, n : Nat, by : Clerk,
        confirmed : [isbn : ISBN, title : Title]]

TypeOK ==
  /\ rows \in SUBSET Row
  /\ inserts \in 0..MaxRows
  /\ genres \in GenreTables
  /\ pc \in [Clerk -> {"menu"} \cup Form]
  /\ isbn \in [Clerk -> ISBN]
  /\ title \in [Clerk -> Title]
  /\ listed \in [Clerk -> GenreTables]
  /\ genre \in [Clerk -> Genre]
  /\ told \in [Clerk -> {"nothing", "book_added", "book_not_added"}]
  /\ typed \in [Clerk -> Typed]

-----------------------------------------------------------------------------
\* No book yet; the form's locals are overwritten before they are read.
Init ==
  /\ rows = {}
  /\ inserts = 0
  /\ genres \in GenreTables
  /\ pc = [c \in Clerk |-> "menu"]
  /\ \E b \in ISBN, x \in Title, g \in Genre, t \in Typed, s \in GenreTables :
       /\ isbn = [c \in Clerk |-> b]
       /\ title = [c \in Clerk |-> x]
       /\ genre = [c \in Clerk |-> g]
       /\ typed = [c \in Clerk |-> t]
       /\ listed = [c \in Clerk |-> s]
  /\ told = [c \in Clerk |-> "nothing"]

Finish(c, v) ==
  /\ pc' = [pc EXCEPT ![c] = "menu"]
  /\ told' = [told EXCEPT ![c] = v]

\* SELECT * FROM books WHERE ISBN = b, which compares numbers.
RowsOf(b) == {r \in rows : r.isbn = Number(b)}

\* A row as the program reads it.
MySQL_row_to_book(r) ==
  [isbn |-> Padded(r.isbn), title |-> pl_from_mysql(r.title)]

\* Mutant: a book that is there is shown, and the form goes on.
AddISBNShown(c) ==
  /\ pc[c] = "menu"
  /\ \E b \in ISBN : isbn' = [isbn EXCEPT ![c] = b]
  /\ \E x \in Title : title' = [title EXCEPT ![c] = x]
  /\ pc' = [pc EXCEPT ![c] = "list"]
  /\ told' = [told EXCEPT ![c] = "nothing"]
  /\ UNCHANGED <<server, listed, genre, typed>>

\* Book::add_ISBN_interface, and the prompts for title and author after it.
AddISBN(c) ==
  /\ pc[c] = "menu"
  /\ \/ \E b \in ISBN :
          /\ RowsOf(b) = {}
          /\ isbn' = [isbn EXCEPT ![c] = b]
          /\ \E x \in Title : title' = [title EXCEPT ![c] = x]
          /\ pc' = [pc EXCEPT ![c] = "list"]
          /\ told' = [told EXCEPT ![c] = "nothing"]
     \/ /\ Finish(c, "book_not_added")      \* the book exists, or the query failed
        /\ UNCHANGED <<isbn, title>>
  /\ UNCHANGED <<server, listed, genre, typed>>

\* The first half of Book::add_genre_interface: SELECT genre FROM genres.
ListGenres(c) ==
  /\ pc[c] = "list"
  /\ \/ /\ listed' = [listed EXCEPT ![c] = genres]
        /\ pc' = [pc EXCEPT ![c] = "genre"]
        /\ UNCHANGED told
     \/ /\ Finish(c, "book_not_added")      \* the query failed
        /\ UNCHANGED listed
  /\ UNCHANGED <<server, isbn, title, genre, typed>>

\* Mutant: the genre is searched for in the text.
MatchesReversed(c, t) == {i \in 1..Len(listed[c]) : <<listed[c][i], t>> \in Within}

\* The listed genres a text occurs in; the loop stops at the first.
Matches(c, t) == {i \in 1..Len(listed[c]) : <<t, listed[c][i]>> \in Within}

\* The second half, and the prompt for the year; a text that occurs in no
\* genre is asked for again.
ChooseGenre(c) ==
  /\ pc[c] = "genre"
  /\ \E t \in Typed : \E i \in Matches(c, t) :
       /\ \A j \in Matches(c, t) : i <= j
       /\ genre' = [genre EXCEPT ![c] = listed[c][i]]
       /\ typed' = [typed EXCEPT ![c] = t]
  /\ pc' = [pc EXCEPT ![c] = "approve"]
  /\ UNCHANGED <<server, isbn, title, listed, told>>

\* Book::approve_add_book_interface.
Approve(c) ==
  /\ pc[c] = "approve"
  /\ \/ pc' = [pc EXCEPT ![c] = "insert_book"] /\ UNCHANGED told
     \/ Finish(c, "book_not_added")         \* "n"
  /\ UNCHANGED <<server, isbn, title, listed, genre, typed>>

\* What the server makes of the INSERT.
NewRow(c) ==
  [isbn |-> Number(isbn[c]), title |-> Stored(title[c]), genre |-> genre[c],
   n |-> inserts, by |-> c, confirmed |-> [isbn |-> isbn[c], title |-> title[c]]]

\* Mutant: the query is not recoded.
InsertBookRaw(c) ==
  /\ pc[c] = "insert_book"
  /\ inserts < MaxRows
  /\ rows' = rows \cup {[NewRow(c) EXCEPT !.title = title[c]]}
  /\ inserts' = inserts + 1
  /\ Finish(c, "book_added") \/ Finish(c, "book_not_added")
  /\ UNCHANGED <<genres, isbn, title, listed, genre, typed>>

\* add_book_to_MySQL_datebase; the reply may be lost.
InsertBook(c) ==
  /\ pc[c] = "insert_book"
  /\ inserts < MaxRows
  /\ ISBNIsKey => RowsOf(isbn[c]) = {}
  /\ rows' = rows \cup {NewRow(c)}
  /\ inserts' = inserts + 1
  /\ Finish(c, "book_added") \/ Finish(c, "book_not_added")
  /\ UNCHANGED <<genres, isbn, title, listed, genre, typed>>

\* Mutant: "error" starts as false.
InsertFailsAdded(c) ==
  /\ pc[c] = "insert_book"
  /\ Finish(c, "book_added")
  /\ UNCHANGED <<server, isbn, title, listed, genre, typed>>

\* Mutant: a failed INSERT is cleaned up after, as add_patron does.
InsertFailsCleansUp(c) ==
  /\ pc[c] = "insert_book"
  /\ Finish(c, "book_not_added")
  /\ rows' = rows \ RowsOf(isbn[c])
  /\ UNCHANGED <<inserts, genres, isbn, title, listed, genre, typed>>

\* The connection or the INSERT fails: the network, the key, or no room.
InsertFails(c) ==
  /\ pc[c] = "insert_book"
  /\ Finish(c, "book_not_added")
  /\ UNCHANGED <<server, isbn, title, listed, genre, typed>>

\* The program dies, or its window is closed, and it is started again.
Crash(c) ==
  /\ pc[c] \in Form
  /\ Finish(c, "nothing")
  /\ UNCHANGED <<server, isbn, title, listed, genre, typed>>

\* The clerk goes on in the menus: spis_menu starts by clearing the screen.
ClearScreen(c) ==
  /\ pc[c] = "menu"
  /\ told' = [told EXCEPT ![c] = "nothing"]
  /\ UNCHANGED <<server, pc, isbn, title, listed, genre, typed>>

\* External: the table genres is edited by hand, no code writes it.
EditGenres ==
  /\ genres' \in GenreTables
  /\ UNCHANGED <<rows, inserts, program, typed>>

ClerkStep(c) ==
  \/ AddISBN(c) \/ ListGenres(c) \/ ChooseGenre(c)
  \/ Approve(c) \/ InsertBook(c) \/ InsertFails(c)
  \/ Crash(c) \/ ClearScreen(c)

Next ==
  \/ \E c \in Clerk : ClerkStep(c)
  \/ EditGenres

Spec == Init /\ [][Next]_vars

-----------------------------------------------------------------------------
\* One clerk never enters one book twice, with or without a key on the server
\* and whatever replies were lost: the form's look at the table, though taken
\* long before the INSERT, sees all the clerk's own earlier rows.
OneRowPerClerk ==
  \A r, s \in rows : r.isbn = s.isbn /\ r.by = s.by => r = s

\* "Nowa ksiazka zostala dodana!" is shown only for a book that is in the
\* table with the genre the clerk confirmed.
AddedIsRegistered ==
  \A c \in Clerk : told[c] = "book_added" =>
    \E r \in rows : r.by = c /\ r.isbn = Number(isbn[c]) /\ r.genre = genre[c]

\* A later look at a book shows the ISBN its clerk confirmed, with every zero, and
\* the texts byte by byte, whatever quotes and backslashes they have, except that
\* a typed byte which is a Polish letter of MySQL's code page comes back as that
\* letter of the console's.  Code page 852 has letters and signs of its own at
\* these places: Garcia with an acute i, which is 161, comes back with a capital
\* A with an ogonek in it.
ShownAsConfirmed ==
  \A r \in rows :
    LET shown == MySQL_row_to_book(r)
        said  == r.confirmed
    IN  /\ shown.isbn = said.isbn
        /\ DOMAIN shown.title = DOMAIN said.title
        /\ \A i \in DOMAIN said.title :
             \/ /\ \A j \in 1..18 : said.title[i] # MySQLChar[j]
                /\ shown.title[i] = said.title[i]
             \/ \E j \in 1..18 :
                  said.title[i] = MySQLChar[j] /\ shown.title[i] = ConsoleChar[j]

\* A text that occurs in one genre only of the list the clerk was shown stands for
\* that genre.  (The table may have other genres by then.)
UniqueMatchIsTaken ==
  \A c \in Clerk : pc[c] = "approve" =>
    \A i \in 1..Len(listed[c]) :
      (\A j \in 1..Len(listed[c]) : <<typed[c], listed[c][j]>> \in Within <=> j = i)
        => genre[c] = listed[c][i]

\* A genre of the list whose whole name was typed is the genre of the book:
\* "Wybierz jeden z podanych gatunkow" lets one choose each of them.
ListedGenreIsTaken ==
  \A c \in Clerk : pc[c] = "approve" =>
    \A i \in 1..Len(listed[c]) : typed[c] = listed[c][i] => genre[c] = typed[c]

(* The invariant behind OneRowPerClerk. *)

\* A form that is past the look at the table is for a book its clerk has not
\* entered, and the rows are numbered in the order of the inserts.
FormIsFresh ==
  /\ \A r \in rows : r.n < inserts
  /\ \A c \in Clerk : pc[c] \in Form =>
       /\ told[c] = "nothing"
       /\ \A r \in rows : r.by = c => r.isbn # Number(isbn[c])

IInv == TypeOK /\ FormIsFresh /\ OneRowPerClerk /\ AddedIsRegistered
=============================================================================
