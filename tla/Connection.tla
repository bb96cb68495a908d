------------------------------ MODULE Connection ------------------------------
(***************************************************************************)
(* Connection_data and mysql_connect: how a copy of the program finds its  *)
(* database, and what a loan does when the answer changes.                 *)
(*                                                                         *)
(* Every connection reads connect.txt anew, line by line.  A loan makes    *)
(* three: for the look-up of the card, for that of the ISBN, and, after    *)
(* the "y", for the second looks and the INSERT.  Someone may rewrite or   *)
(* delete the file at any time, so the three may be to different servers.  *)
(*                                                                         *)
(* Abstractions: a line is a value (after its label, which the code counts *)
(* but does not read) or Short, too short for the label.  The stream takes *)
(* the file in one read when it is opened.  The steps of a loan on one     *)
(* connection are one step here, Lending takes them apart; books and       *)
(* patrons do not change, since what the looks find stays (Library).       *)
(***************************************************************************)
EXTENDS Naturals, Sequences, FiniteSets

CONSTANTS
  Value,       \* what may stand after a label
  Short,       \* a line shorter than its label
  Missing,     \* the content of a file that is not there
  File,        \* contents connect.txt may have
  Server,      \* the four values under which a server lets the program in
  Patron, Book,
  PatronsOf,   \* the patrons in the database of each server
  BooksOf,     \* its books that are on the shelf
  MaxLoans     \* bound: loans after which no other is begun

Line == Value \cup {Short}

\* Connection_data::Connection_data(): host, db_user, db_password, db_name.
Default == <<"localhost", "root", "", "default">>

Data == [1..4 -> Value \cup {"", "localhost", "root", "default"}]

ASSUME ConnectionConstants ==
  /\ Short \notin Value
  /\ \A f \in File \ {Missing} : f \in Seq(Line)
  /\ Server \subseteq Data
  /\ PatronsOf \in [Server -> SUBSET Patron]
  /\ BooksOf \in [Server -> SUBSET Book]
  /\ MaxLoans \in Nat

VARIABLES
  file,               \* connect.txt
  pc,                 \* where the program is
  connection,         \* which of the loan's connections it makes: 1, 2 or 3
  stream,             \* the lines of the fstream still to be read
  line,               \* the local line of add_data_from_file
  data,               \* host, db_user, db_password, db_name
  is_data_from_file,
  server,             \* the server it is connected to
  patron, book,       \* of the loan
  loans,              \* the loans in all databases
  \* History, of the loan in hand but for the first.
  opened,             \* the lines the stream was opened with
  shown,              \* the servers that answered its two look-ups
  named,              \* the servers connect.txt has named since its last prompt
  edited              \* was connect.txt changed since its first?

local   == <<stream, line, data, is_data_from_file, opened>>
loan    == <<patron, book, loans>>
history == <<shown, named, edited>>
vars    == <<file, pc, connection, local, server, loan, history>>

\* The fields after book are history: the three above when the loan was made.
Loan == [server : Server, patron : Patron, book : Book,
         shown : SUBSET Server, named : SUBSET Server, edited : BOOLEAN]

TypeOK ==
  /\ file \in File
  /\ pc \in {"menu", "prompt", "read", "connect", "connected"}
  /\ connection \in 1..3
  /\ stream \in Seq(Line)
  /\ line \in 0..4
  /\ data \in Data
  /\ is_data_from_file \in BOOLEAN
  /\ server \in Server
  /\ patron \in Patron
  /\ book \in Book
  /\ loans \subseteq Loan
  /\ opened \in Seq(Line)
  /\ shown \subseteq Server
  /\ named \subseteq Server
  /\ edited \in BOOLEAN

-----------------------------------------------------------------------------
\* The first four lines of a file, when all are long enough.
Whole(lines) == Len(lines) >= 4 /\ \A i \in 1..4 : lines[i] # Short

\* The lines of a content of connect.txt, and the server they send to, if any.
Lines(f) == IF f = Missing THEN <<>> ELSE f

Named(lines) == {s \in Server : Whole(lines) /\ \A i \in 1..4 : s[i] = lines[i]}

Init ==
  /\ file \in File
  /\ pc = "menu"
  /\ connection = 1
  /\ stream = <<>> /\ opened = <<>> /\ line = 0
  /\ data = Default
  /\ is_data_from_file = FALSE
  /\ server \in Server              \* nothing reads these before they are
  /\ patron \in Patron              \* written
  /\ book \in Book
  /\ loans = {}
  /\ shown = {} /\ named = {} /\ edited = FALSE

\* The histories of a loan end with it.
Forget == shown' = {} /\ named' = {} /\ edited' = FALSE

Menu == pc' = "menu" /\ connection' = 1 /\ Forget

\* The next prompt: for the ISBN, and for the "y".
Prompt ==
  /\ pc' = "prompt"
  /\ connection' = connection + 1
  /\ shown' = shown \cup {server}
  /\ named' = Named(Lines(file))
  /\ UNCHANGED edited

\* Library::add_transaction: the first prompt.
StartLoan ==
  /\ pc = "menu"
  /\ Cardinality(loans) < MaxLoans
  /\ pc' = "prompt"
  /\ named' = Named(Lines(file))
  /\ UNCHANGED <<file, connection, local, server, loan, shown, edited>>

\* Mutant: the data of a loan's first connection serve for the other two.
OpenFileOnce ==
  /\ pc = "prompt"
  /\ \/ /\ connection = 1
        /\ pc' = "read"
        /\ stream' = Lines(file)
        /\ opened' = stream'
        /\ is_data_from_file' = (file # Missing)
        /\ line' = 0
        /\ data' = [i \in 1..4 |-> ""]
     \/ connection > 1 /\ pc' = "connect" /\ UNCHANGED local
  /\ UNCHANGED <<file, connection, server, loan, history>>

\* Connection_data("connect.txt"): the members start empty.
OpenFile ==
  /\ pc = "prompt"
  /\ pc' = "read"
  /\ stream' = Lines(file)
  /\ opened' = stream'
  /\ is_data_from_file' = (file # Missing)
  /\ line' = 0
  /\ data' = [i \in 1..4 |-> ""]
  /\ UNCHANGED <<file, connection, server, loan, history>>

\* Mutant: the count of the lines is looked at after one more.
ReadLinePast ==
  /\ pc = "read" /\ line <= 4 /\ stream # <<>>
  /\ line' = line + 1
  /\ stream' = Tail(stream)
  /\ \/ /\ Head(stream) # Short
        /\ data' = [data EXCEPT ![line + 1] = Head(stream)]
        /\ UNCHANGED is_data_from_file
     \/ /\ Head(stream) = Short
        /\ is_data_from_file' = FALSE
        /\ UNCHANGED data
  /\ UNCHANGED <<file, pc, connection, server, loan, history, opened>>

\* Mutant: a good line makes up for a bad one.
ReadLineForgives ==
  /\ pc = "read" /\ line < 4 /\ stream # <<>>
  /\ line' = line + 1
  /\ stream' = Tail(stream)
  /\ IF Head(stream) # Short
     THEN data' = [data EXCEPT ![line + 1] = Head(stream)] /\ is_data_from_file' = TRUE
     ELSE is_data_from_file' = FALSE /\ UNCHANGED data
  /\ UNCHANGED <<file, pc, connection, server, loan, history, opened>>

\* The loop of add_data_from_file.
ReadLine ==
  /\ pc = "read" /\ line < 4 /\ stream # <<>>
  /\ line' = line + 1
  /\ stream' = Tail(stream)
  /\ \/ /\ Head(stream) # Short
        /\ data' = [data EXCEPT ![line + 1] = Head(stream)]
        /\ UNCHANGED is_data_from_file
     \/ /\ Head(stream) = Short
        /\ is_data_from_file' = FALSE
        /\ UNCHANGED data
  /\ UNCHANGED <<file, pc, connection, server, loan, history, opened>>

\* What follows the loop.
EndOfData ==
  /\ pc = "read" /\ (line = 4 \/ stream = <<>>)
  /\ pc' = "connect"
  /\ \/ /\ is_data_from_file /\ line = 4
        /\ UNCHANGED <<data, is_data_from_file>>
     \/ /\ ~is_data_from_file \/ line < 4
        /\ data' = Default
        /\ is_data_from_file' = FALSE
  /\ UNCHANGED <<file, connection, stream, line, opened, server, loan, history>>

\* Mutant: mysql_real_connect is tried whatever the data.
ConnectAnyway ==
  /\ pc = "connect"
  /\ \/ /\ data \in Server
        /\ server' = data
        /\ pc' = "connected"
        /\ UNCHANGED <<connection, history>>
     \/ Menu /\ UNCHANGED server
  /\ UNCHANGED <<file, local, loan>>

\* mysql_connect; the server may be down, or not know these data.
MysqlConnect ==
  /\ pc = "connect"
  /\ \/ /\ is_data_from_file /\ data \in Server
        /\ server' = data
        /\ pc' = "connected"
        /\ UNCHANGED <<connection, history>>
     \/ Menu /\ UNCHANGED server
  /\ UNCHANGED <<file, local, loan>>

\* Transaction::add_library_card_number_interface, on the first connection.
LookUpPatron ==
  /\ pc = "connected" /\ connection = 1
  /\ \/ /\ \E k \in PatronsOf[server] : patron' = k
        /\ Prompt
     \/ Menu /\ UNCHANGED patron       \* not there, or the query failed
  /\ UNCHANGED <<file, local, server, book, loans>>

\* Transaction::add_ISBN_interface, on the second.
LookUpBook ==
  /\ pc = "connected" /\ connection = 2
  /\ \/ /\ \E b \in BooksOf[server] : book' = b
        /\ Prompt
     \/ Menu /\ UNCHANGED book
  /\ UNCHANGED <<file, local, server, patron, loans>>

\* The loan, in the database of the third connection.
NewLoan ==
  [server |-> server, patron |-> patron, book |-> book,
   shown |-> shown, named |-> named, edited |-> edited]

\* add_transaction_to_MySQL_datebase, on the third.
AddTransaction ==
  /\ pc = "connected" /\ connection = 3
  /\ \/ /\ patron \in PatronsOf[server] /\ book \in BooksOf[server]
        /\ loans' = loans \cup {NewLoan}
     \/ UNCHANGED loans                \* one is not there, or a query failed
  /\ Menu
  /\ UNCHANGED <<file, local, server, patron, book>>

\* "n", or the program is closed, or dies.
Abandon ==
  /\ pc # "menu"
  /\ Menu
  /\ UNCHANGED <<file, local, server, loan>>

\* External: connect.txt is written, moved or deleted.
ReplaceFile ==
  /\ file' \in File
  /\ \/ pc = "menu" /\ UNCHANGED history
     \/ /\ pc # "menu"
        /\ named' = named \cup Named(Lines(file'))
        /\ edited' = (edited \/ file' # file)
        /\ UNCHANGED shown
  /\ UNCHANGED <<pc, connection, local, server, loan>>

Next ==
  \/ StartLoan \/ OpenFile \/ ReadLine \/ EndOfData \/ MysqlConnect
  \/ LookUpPatron \/ LookUpBook \/ AddTransaction
  \/ Abandon \/ ReplaceFile

Spec == Init /\ [][Next]_vars

-----------------------------------------------------------------------------
\* The four data are those of one file, or all four are the defaults: a short or
\* a bad file leaves no mixture, wherever in it the bad line is.
AllOrDefault ==
  pc \in {"connect", "connected"} =>
    \/ is_data_from_file /\ Whole(opened) /\ \A i \in 1..4 : data[i] = opened[i]
    \/ ~is_data_from_file /\ ~Whole(opened) /\ data = Default

\* The program is connected only where a whole file has sent it, never by default.
ConnectedAsWritten ==
  pc = "connected" => Whole(opened) /\ \A i \in 1..4 : server[i] = opened[i]

\* A loan is put where connect.txt has sent the program since the clerk was
\* asked for the "y", never where an older content did; and its patron and its
\* book were shown from that same database, unless the file was changed between
\* the first prompt and the loan.  If it was, they may be another database's.
LoansFollowTheFile ==
  \A l \in loans : l.server \in l.named /\ (l.shown = {l.server} \/ l.edited)

(* The invariant of the loop behind AllOrDefault. *)
LinesRead ==
  pc = "read" =>
    /\ line + Len(stream) = Len(opened)
    /\ \A i \in 1..Len(stream) : stream[i] = opened[line + i]
    /\ is_data_from_file => \A i \in 1..line : data[i] = opened[i] /\ opened[i] # Short
    /\ ~is_data_from_file => opened = <<>> \/ \E i \in 1..line : opened[i] = Short

(* The invariant of a loan behind LoansFollowTheFile. *)
FileIsFollowed ==
  /\ pc = "menu" => connection = 1 /\ shown = {}
  /\ pc # "menu" =>
       /\ Named(Lines(file)) \subseteq named
       /\ ~edited => named = Named(Lines(file)) /\ shown \subseteq named
       /\ connection # 1 => shown # {}
       /\ pc # "prompt" => Named(opened) \subseteq named

IInv ==
  /\ TypeOK
  /\ LinesRead
  /\ AllOrDefault
  /\ ConnectedAsWritten
  /\ FileIsFollowed
  /\ LoansFollowTheFile
=============================================================================
