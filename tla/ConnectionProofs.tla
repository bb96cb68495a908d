--------------------------- MODULE ConnectionProofs ---------------------------
(* Connection's invariants, for any values, files, servers and tables.       *)
EXTENDS Connection, Integers, TLAPS

USE DEF local, loan, history, Menu

LEMMA FilesAreLines == \A f \in File \ {Missing} : f \in Seq(Line)
  BY ConnectionConstants

LEMMA ShortIsNoValue == Short \notin Value
  BY ConnectionConstants

LEMMA ServersHaveData == Server \subseteq Data
  BY ConnectionConstants

LEMMA FourLines ==
  ASSUME NEW S, NEW q \in Seq(S), Len(q) = 4
  PROVE  q \in [1..4 -> S]
  OBVIOUS

LEMMA DefaultIsData == Default \in Data
<1> DEFINE S == {"", "localhost", "root", "default"}
<1>1. Default \in Seq(S) /\ Len(Default) = 4
  BY DEF Default
<1> HIDE DEF S
<1>2. Default \in [1..4 -> S]
  BY <1>1, FourLines
<1>3. [1..4 -> S] \subseteq [1..4 -> Value \cup S]
  OBVIOUS
<1> QED BY <1>2, <1>3 DEF Data, S

LEMMA NoLines == <<>> \in Seq(Line) /\ Len(<<>>) = 0
  OBVIOUS

LEMMA NoServers == \A s : s = {} => s \subseteq Server
  OBVIOUS

LEMMA LocalsAreKept ==
  ASSUME TypeOK, UNCHANGED <<file, local>>
  PROVE  /\ file' \in File /\ stream' \in Seq(Line) /\ line' \in 0..4 /\ data' \in Data
         /\ is_data_from_file' \in BOOLEAN /\ opened' \in Seq(Line)
  BY DEF TypeOK

LEMMA NothingKept ==
  ASSUME Forget
  PROVE  shown' \subseteq Server /\ named' \subseteq Server /\ edited' \in BOOLEAN
<1>1. shown' = {} /\ named' = {}
  BY DEF Forget
<1>2. shown' \subseteq Server /\ named' \subseteq Server
  BY <1>1, NoServers
<1>3. edited' \in BOOLEAN
  BY DEF Forget
<1> QED BY <1>2, <1>3

LEMMA MenuKeepsTypes ==
  ASSUME TypeOK, Menu, UNCHANGED <<file, local>>, server' \in Server,
         patron' \in Patron, book' \in Book, loans' \subseteq Loan
  PROVE  TypeOK'
<1>1. /\ pc' \in {"menu", "prompt", "read", "connect", "connected"}
      /\ connection' \in 1..3 /\ edited' \in BOOLEAN
      /\ shown' \subseteq Server /\ named' \subseteq Server
  BY NothingKept
<1>2. /\ file' \in File /\ stream' \in Seq(Line) /\ line' \in 0..4 /\ data' \in Data
      /\ is_data_from_file' \in BOOLEAN /\ opened' \in Seq(Line)
  BY LocalsAreKept
<1> QED BY <1>1, <1>2 DEF TypeOK

LEMMA InitInv == Init => IInv
<1> SUFFICES ASSUME Init PROVE IInv
  OBVIOUS
<1>1. stream \in Seq(Line) /\ opened \in Seq(Line) /\ data \in Data
  BY DefaultIsData, NoLines DEF Init
<1>2. loans = {} /\ shown = {} /\ named = {} /\ edited = FALSE
  BY DEF Init
<1>3. pc = "menu" /\ connection = 1 /\ line \in 0..4
  BY DEF Init
<1>4. is_data_from_file \in BOOLEAN /\ file \in File /\ server \in Server /\ patron \in Patron /\ book \in Book
  BY DEF Init
<1>5. TypeOK
  <2>1. shown \subseteq Server /\ named \subseteq Server
    BY <1>2, NoServers
  <2>2. loans \subseteq Loan /\ edited \in BOOLEAN
    BY <1>2
  <2> QED BY <1>1, <1>3, <1>4, <2>1, <2>2 DEF TypeOK
<1> QED BY <1>2, <1>3, <1>5
        DEF IInv, LinesRead, AllOrDefault, ConnectedAsWritten, FileIsFollowed,
            LoansFollowTheFile

(* No more than one server is known by the first four lines of a file.        *)
LEMMA OneServer ==
  ASSUME NEW lines, NEW s \in Named(lines), NEW r \in Named(lines)
  PROVE  s = r
<1>1. s \in Data /\ r \in Data /\ \A i \in 1..4 : s[i] = lines[i] /\ r[i] = lines[i]
  BY ServersHaveData DEF Named
<1>2. s = [i \in 1..4 |-> s[i]] /\ r = [i \in 1..4 |-> r[i]]
  BY <1>1 DEF Data
<1>3. \A i \in 1..4 : s[i] = r[i]
  BY <1>1
<1>4. [i \in 1..4 |-> s[i]] = [i \in 1..4 |-> r[i]]
  BY <1>3
<1> QED BY <1>2, <1>4

LEMMA NamedAreServers == \A lines : Named(lines) \subseteq Server
  BY DEF Named

(* Steps outside the reading of the file and the connecting: back to the menus*)
(* or to a prompt, where the file is as it was.                               *)
LEMMA Elsewhere ==
  ASSUME IInv, TypeOK', UNCHANGED <<file, local>>,
         loans' \subseteq loans,
         \/ Menu
         \/ /\ pc' = "prompt"
            /\ named' = Named(Lines(file))
            /\ edited' = edited
            /\ ~edited => shown' \subseteq named'
            /\ connection' # 1 => shown' # {}
  PROVE  IInv'
<1>1. LinesRead' /\ AllOrDefault' /\ ConnectedAsWritten'
  BY DEF IInv, LinesRead, AllOrDefault, ConnectedAsWritten, Whole
<1>2. LoansFollowTheFile'
  BY DEF IInv, LoansFollowTheFile
<1>3. CASE Menu
  <2>1. pc' = "menu" /\ connection' = 1 /\ shown' = {}
    BY <1>3 DEF Forget
  <2>2. FileIsFollowed'
    BY <2>1 DEF FileIsFollowed
  <2> QED BY <1>1, <1>2, <2>2 DEF IInv
<1>4. CASE /\ pc' = "prompt" /\ named' = Named(Lines(file)) /\ edited' = edited
           /\ ~edited => shown' \subseteq named'
           /\ connection' # 1 => shown' # {}
  <2>1. Named(Lines(file))' = Named(Lines(file))
    BY DEF Named, Lines, Whole
  <2>2. FileIsFollowed'
    BY <1>4, <2>1 DEF FileIsFollowed
  <2> QED BY <1>1, <1>2, <2>2 DEF IInv
<1> QED BY <1>3, <1>4

(* Steps of a loan on its way to a server.                                    *)
LEMMA OnTheWay ==
  ASSUME IInv, UNCHANGED <<file, connection, opened, history>>,
         pc # "menu", pc # "prompt", pc' # "menu"
  PROVE  FileIsFollowed'
  BY DEF IInv, FileIsFollowed, Named, Lines, Whole

LEMMA OpenFileInv ==
  ASSUME IInv, OpenFile
  PROVE  IInv'
<1>1. /\ pc = "prompt" /\ pc' = "read" /\ stream' = opened' /\ line' = 0
      /\ opened' = Lines(file) /\ is_data_from_file' = (file # Missing)
      /\ UNCHANGED <<file, connection, server, patron, book, loans, history>>
  BY DEF OpenFile
<1>2. stream' \in Seq(Line) /\ (file = Missing => opened' = <<>>)
  <2>1. CASE file = Missing
    BY <2>1, <1>1, NoLines DEF Lines
  <2>2. CASE file # Missing
    <3>1. file \in Seq(Line)
      BY <2>2, FilesAreLines DEF IInv, TypeOK
    <3>2. stream' = file
      BY <1>1, <2>2 DEF Lines
    <3> QED BY <3>1, <3>2, <2>2
  <2> QED BY <2>1, <2>2
<1>3. data' \in Data
  BY DEF OpenFile, Data
<1>4. TypeOK'
  BY <1>1, <1>2, <1>3 DEF IInv, TypeOK
<1>5. LinesRead'
  <2>1. Len(stream') \in Nat
    BY <1>2
  <2>2. \A i \in 1..Len(stream') : stream'[i] = opened'[0 + i]
    BY <1>1, <2>1
  <2>3. is_data_from_file' \/ opened' = <<>>
    BY <1>1, <1>2
  <2> QED BY <1>1, <2>1, <2>2, <2>3 DEF LinesRead
<1>6. FileIsFollowed'
  BY <1>1 DEF IInv, FileIsFollowed, Named, Lines, Whole
<1> QED BY <1>1, <1>4, <1>5, <1>6
        DEF IInv, AllOrDefault, ConnectedAsWritten, LoansFollowTheFile

(* One turn of the loop.                                                      *)
LEMMA ReadLineInv ==
  ASSUME IInv, ReadLine
  PROVE  IInv'
<1>1. /\ pc = "read" /\ pc' = "read" /\ line < 4 /\ stream # <<>>
      /\ line' = line + 1 /\ stream' = Tail(stream) /\ opened' = opened
      /\ UNCHANGED <<file, connection, server, patron, book, loans, history>>
  BY DEF ReadLine
<1>2. /\ stream \in Seq(Line) /\ opened \in Seq(Line) /\ line \in 0..4
      /\ data \in Data /\ is_data_from_file \in BOOLEAN
  BY DEF IInv, TypeOK
<1>3. /\ line + Len(stream) = Len(opened)
      /\ \A i \in 1..Len(stream) : stream[i] = opened[line + i]
      /\ is_data_from_file => \A i \in 1..line : data[i] = opened[i] /\ opened[i] # Short
      /\ ~is_data_from_file => opened = <<>> \/ \E i \in 1..line : opened[i] = Short
  BY <1>1 DEF IInv, LinesRead
<1>4. /\ stream' \in Seq(Line) /\ Len(stream') = Len(stream) - 1 /\ Len(stream) \in Nat \ {0}
      /\ \A i \in 1..Len(stream') : stream'[i] = stream[i + 1]
      /\ Head(stream) = stream[1] /\ Head(stream) \in Line
  BY <1>1, <1>2
<1>5. Head(stream) = opened[line + 1] /\ line + 1 \in 1..4 /\ line' \in 1..4
  BY <1>1, <1>2, <1>3, <1>4
<1>6. \/ /\ Head(stream) # Short /\ is_data_from_file' = is_data_from_file
         /\ data' = [data EXCEPT ![line + 1] = Head(stream)]
      \/ /\ Head(stream) = Short /\ is_data_from_file' = FALSE /\ data' = data
  BY DEF ReadLine
<1>7. /\ data' \in Data /\ is_data_from_file' \in BOOLEAN
      /\ Head(stream) # Short => data'[line + 1] = opened[line + 1]
      /\ \A i \in 1..line : data'[i] = data[i]
  <2> DEFINE h == Head(stream)
  <2>1. CASE h # Short
    <3>1. h \in Value /\ line + 1 \in 1..4 /\ line \in Nat
      BY <1>2, <1>4, <1>5, <2>1 DEF Line
    <3>2. data' = [data EXCEPT ![line + 1] = h]
      BY <1>6, <2>1
    <3>3. data' \in Data
      BY <1>2, <3>1, <3>2 DEF Data
    <3>4. DOMAIN data = 1..4
      BY <1>2 DEF Data
    <3>5. data'[line + 1] = h
      BY <3>1, <3>2, <3>4
    <3>6. \A i \in 1..line : i \in 1..4 /\ i # line + 1
      BY <1>1, <3>1
    <3>7. \A i \in 1..line : data'[i] = data[i]
      BY <3>2, <3>4, <3>6
    <3> QED BY <1>2, <1>5, <1>6, <2>1, <3>3, <3>5, <3>7
  <2>2. CASE h = Short
    BY <1>2, <1>6, <2>2
  <2> QED BY <2>1, <2>2
<1>8. TypeOK'
  BY <1>1, <1>2, <1>4, <1>5, <1>7 DEF IInv, TypeOK
<1>9. LinesRead'
  <2>1. line' + Len(stream') = Len(opened')
    BY <1>1, <1>2, <1>3, <1>4
  <2>2. \A i \in 1..Len(stream') : stream'[i] = opened'[line' + i]
    <3> SUFFICES ASSUME NEW i \in 1..Len(stream') PROVE stream'[i] = opened'[line' + i]
      OBVIOUS
    <3>1. i + 1 \in 1..Len(stream) /\ line + (i + 1) = line' + i
      BY <1>1, <1>2, <1>4
    <3> QED BY <1>1, <1>3, <1>4, <3>1
  <2>3. is_data_from_file' => \A i \in 1..line' : data'[i] = opened'[i] /\ opened'[i] # Short
    <3> SUFFICES ASSUME is_data_from_file', NEW i \in 1..line'
                 PROVE  data'[i] = opened[i] /\ opened[i] # Short
      BY <1>1
    <3>1. is_data_from_file /\ Head(stream) # Short
      BY <1>6
    <3>2. i \in 1..line \/ i = line + 1
      BY <1>1, <1>2
    <3> QED BY <1>3, <1>5, <1>7, <3>1, <3>2
  <2>4. ~is_data_from_file' => opened' = <<>> \/ \E i \in 1..line' : opened'[i] = Short
    <3>1. line + 1 \in 1..line' /\ \A i \in 1..line : i \in 1..line'
      BY <1>1, <1>2
    <3> QED BY <1>1, <1>3, <1>5, <1>6, <3>1
  <2> QED BY <2>1, <2>2, <2>3, <2>4 DEF LinesRead
<1>10. FileIsFollowed'
  BY <1>1, OnTheWay
<1> QED BY <1>1, <1>8, <1>9, <1>10
        DEF IInv, AllOrDefault, ConnectedAsWritten, LoansFollowTheFile

LEMMA EndOfDataInv ==
  ASSUME IInv, EndOfData
  PROVE  IInv'
<1>1. /\ pc = "read" /\ pc' = "connect"
      /\ UNCHANGED <<file, connection, stream, line, opened, server, patron, book, loans>>
      /\ UNCHANGED history
  BY DEF EndOfData
<1>0. FileIsFollowed'
  BY <1>1, OnTheWay
<1>2. /\ stream \in Seq(Line) /\ opened \in Seq(Line) /\ line \in 0..4
      /\ is_data_from_file \in BOOLEAN
  BY DEF IInv, TypeOK
<1>3. /\ line + Len(stream) = Len(opened)
      /\ is_data_from_file => \A i \in 1..line : data[i] = opened[i] /\ opened[i] # Short
      /\ ~is_data_from_file => opened = <<>> \/ \E i \in 1..line : opened[i] = Short
  BY <1>1 DEF IInv, LinesRead, EndOfData
<1>4. CASE is_data_from_file /\ line = 4
  <2>1. data' = data /\ is_data_from_file' = is_data_from_file
    BY <1>4 DEF EndOfData
  <2>2. Len(opened) >= 4
    BY <1>2, <1>3, <1>4
  <2>3. Whole(opened) /\ \A i \in 1..4 : data[i] = opened[i]
    BY <1>3, <1>4, <2>2 DEF Whole
  <2>4. AllOrDefault'
    BY <1>1, <1>4, <2>1, <2>3 DEF AllOrDefault, Whole, EndOfData
  <2>5. TypeOK'
    BY <1>1, <2>1 DEF IInv, TypeOK, EndOfData
  <2> QED BY <1>0, <1>1, <2>4, <2>5
          DEF IInv, LinesRead, ConnectedAsWritten, LoansFollowTheFile, EndOfData
<1>5. CASE ~is_data_from_file \/ line < 4
  <2>1. data' = Default /\ is_data_from_file' = FALSE
    BY <1>2, <1>5 DEF EndOfData
  <2>2. ~Whole(opened)
    <3>1. CASE line < 4 /\ stream = <<>>
      <4>1. Len(stream) = 0 /\ Len(opened) < 4
        BY <1>2, <1>3, <3>1, NoLines
      <4> QED BY <1>2, <4>1 DEF Whole
    <3>2. CASE ~is_data_from_file
      <4>1. CASE opened = <<>>
        BY <4>1, NoLines DEF Whole
      <4>2. CASE \E i \in 1..line : opened[i] = Short
        <5>1. \A i \in 1..line : i \in 1..4
          BY <1>2
        <5> QED BY <4>2, <5>1 DEF Whole
      <4> QED BY <1>3, <3>2, <4>1, <4>2
    <3>3. line = 4 \/ stream = <<>>
      BY DEF EndOfData
    <3> QED BY <1>2, <1>5, <3>1, <3>2, <3>3
  <2>3. AllOrDefault'
    BY <2>1, <2>2 DEF AllOrDefault, Whole, EndOfData
  <2>4. TypeOK'
    BY <1>1, <2>1, DefaultIsData DEF IInv, TypeOK, EndOfData
  <2> QED BY <1>0, <2>3, <2>4
          DEF IInv, LinesRead, ConnectedAsWritten, LoansFollowTheFile, EndOfData
<1> QED BY <1>2, <1>4, <1>5

LEMMA MysqlConnectInv ==
  ASSUME IInv, MysqlConnect
  PROVE  IInv'
<1>1. /\ pc = "connect" /\ UNCHANGED <<file, stream, line, data, is_data_from_file, opened>>
      /\ UNCHANGED <<patron, book, loans>>
  BY DEF MysqlConnect
<1>2. CASE Menu /\ server' = server
  <2>1. TypeOK'
    BY <1>1, <1>2, MenuKeepsTypes DEF IInv, TypeOK
  <2>2. UNCHANGED <<file, local>> /\ loans' \subseteq loans
    BY <1>1
  <2> QED BY <1>2, <2>1, <2>2, Elsewhere
<1>3. CASE /\ is_data_from_file /\ data \in Server /\ server' = data
           /\ pc' = "connected" /\ connection' = connection /\ UNCHANGED history
  <2>1. TypeOK'
    BY <1>1, <1>3 DEF IInv, TypeOK
  <2>2. Whole(opened) /\ \A i \in 1..4 : data[i] = opened[i]
    BY <1>1, <1>3 DEF IInv, AllOrDefault
  <2>3. AllOrDefault' /\ ConnectedAsWritten'
    BY <1>1, <1>3, <2>2 DEF AllOrDefault, ConnectedAsWritten, Whole
  <2>4. FileIsFollowed'
    BY <1>1, <1>3, OnTheWay
  <2> QED BY <1>1, <1>3, <2>1, <2>3, <2>4 DEF IInv, LinesRead, LoansFollowTheFile
<1> QED BY <1>2, <1>3 DEF MysqlConnect

(* Where a loan that is connected is connected to.                            *)
LEMMA ServerIsNamed ==
  ASSUME IInv, pc = "connected"
  PROVE  /\ server \in Named(opened) /\ server \in named
         /\ ~edited => named = Named(Lines(file)) /\ shown \subseteq named
         /\ connection # 1 => shown # {}
<1>1. server \in Server /\ Whole(opened) /\ \A i \in 1..4 : server[i] = opened[i]
  BY DEF IInv, TypeOK, ConnectedAsWritten
<1> QED BY <1>1 DEF IInv, FileIsFollowed, Named

(* A look-up shows something of the server the file named.                    *)
LEMMA PromptInv ==
  ASSUME IInv, TypeOK', pc = "connected", Prompt, UNCHANGED <<file, local, loans>>
  PROVE  IInv'
<1>1. shown' = shown \cup {server} /\ named' = Named(Lines(file)) /\ edited' = edited
  BY DEF Prompt
<1>2. ~edited => shown' \subseteq named'
  BY <1>1, ServerIsNamed
<1> QED BY <1>1, <1>2, Elsewhere DEF Prompt

(* The only step that lends: a loan that no change of the file has crossed is *)
(* where its look-ups were.                                                   *)
LEMMA AddTransactionInv ==
  ASSUME IInv, AddTransaction
  PROVE  IInv'
<1>1. /\ NewLoan.server = server /\ NewLoan.shown = shown
      /\ NewLoan.named = named /\ NewLoan.edited = edited
      /\ NewLoan \in Loan
  BY DEF IInv, TypeOK, NewLoan, Loan
<1>2. /\ pc = "connected" /\ connection = 3 /\ Menu
      /\ UNCHANGED <<file, local, server, patron, book>>
      /\ loans' = loans \/ loans' = loans \cup {NewLoan}
  BY DEF AddTransaction
<1>3. server \in named /\ (shown = {server} \/ edited)
  <2>1. CASE edited
    BY <1>2, <2>1, ServerIsNamed
  <2>2. CASE ~edited
    <3>1. /\ server \in Named(Lines(file)) /\ shown \subseteq Named(Lines(file))
          /\ shown # {}
      BY <1>2, <2>2, ServerIsNamed
    <3>2. \A s \in shown : s = server
      BY <3>1, OneServer
    <3> QED BY <1>2, <3>1, <3>2, ServerIsNamed
  <2> QED BY <2>1, <2>2
<1>4. LoansFollowTheFile'
  <2>1. /\ NewLoan.server \in NewLoan.named
        /\ NewLoan.shown = {NewLoan.server} \/ NewLoan.edited
    BY <1>1, <1>3, Zenon
  <2>2. \A l \in loans' : l \in loans \/ l = NewLoan
    BY <1>2
  <2>3. \A l \in loans : l.server \in l.named /\ (l.shown = {l.server} \/ l.edited)
    BY DEF IInv, LoansFollowTheFile
  <2> QED BY <2>1, <2>2, <2>3, Zenon DEF LoansFollowTheFile
<1>5. TypeOK'
  <2>1. loans' \subseteq Loan
    BY <1>1, <1>2 DEF IInv, TypeOK
  <2> QED BY <1>2, <2>1, MenuKeepsTypes DEF IInv, TypeOK
<1>6. LinesRead' /\ AllOrDefault' /\ ConnectedAsWritten'
  BY <1>2 DEF LinesRead, AllOrDefault, ConnectedAsWritten
<1>7. FileIsFollowed'
  <2>1. pc' = "menu" /\ connection' = 1 /\ shown' = {}
    BY <1>2 DEF Forget
  <2> QED BY <2>1 DEF FileIsFollowed
<1> QED BY <1>4, <1>5, <1>6, <1>7 DEF IInv

(* A new content of connect.txt is one it has named.                          *)
LEMMA ReplaceFileInv ==
  ASSUME IInv, ReplaceFile
  PROVE  IInv'
<1>1. /\ file' \in File
      /\ UNCHANGED <<pc, connection, local, server, patron, book, loans>>
  BY DEF ReplaceFile
<1>2. TypeOK'
  BY <1>1, NamedAreServers DEF ReplaceFile, IInv, TypeOK
<1>3. LinesRead' /\ AllOrDefault' /\ ConnectedAsWritten' /\ LoansFollowTheFile'
  BY <1>1 DEF IInv, LinesRead, AllOrDefault, ConnectedAsWritten, Whole, LoansFollowTheFile
<1>4. CASE pc = "menu"
  <2>1. FileIsFollowed'
    BY <1>1, <1>4 DEF ReplaceFile, IInv, FileIsFollowed
  <2> QED BY <1>2, <1>3, <2>1 DEF IInv
<1>5. CASE pc # "menu"
  <2>1. /\ named' = named \cup Named(Lines(file'))
        /\ edited' = (edited \/ file' # file) /\ shown' = shown
    BY <1>5 DEF ReplaceFile
  <2>2. Named(opened)' = Named(opened) /\ Named(Lines(file))' = Named(Lines(file'))
    BY <1>1 DEF Named, Lines, Whole
  <2>3. /\ ~edited => named = Named(Lines(file)) /\ shown \subseteq named
        /\ connection # 1 => shown # {}
        /\ pc # "prompt" => Named(opened) \subseteq named
    BY <1>5 DEF IInv, FileIsFollowed
  <2>4. ~edited' => ~edited /\ file' = file
    BY <2>1
  <2>5. ~edited' => named' = Named(Lines(file')) /\ shown' \subseteq named'
    BY <2>1, <2>3, <2>4
  <2>6. FileIsFollowed'
    BY <1>1, <1>5, <2>1, <2>2, <2>3, <2>5 DEF FileIsFollowed
  <2> QED BY <1>2, <1>3, <2>6 DEF IInv
<1> QED BY <1>4, <1>5

LEMMA TablesAreOfServers ==
  \A s \in Server : PatronsOf[s] \subseteq Patron /\ BooksOf[s] \subseteq Book
  BY ConnectionConstants

LEMMA NextInv == IInv /\ [Next]_vars => IInv'
<1> SUFFICES ASSUME IInv, [Next]_vars PROVE IInv'
  OBVIOUS
<1> USE DEF IInv, TypeOK
<1>1. CASE StartLoan
  <2>1. TypeOK'
    BY <1>1, NamedAreServers DEF StartLoan
  <2>2. connection' = 1 /\ shown' = {}
    BY <1>1 DEF StartLoan, FileIsFollowed
  <2> QED BY <1>1, <2>1, <2>2, Elsewhere DEF StartLoan
<1>2. CASE OpenFile
  BY <1>2, OpenFileInv
<1>3. CASE ReadLine
  BY <1>3, ReadLineInv
<1>4. CASE EndOfData
  BY <1>4, EndOfDataInv
<1>5. CASE MysqlConnect
  BY <1>5, MysqlConnectInv
<1>6. CASE LookUpPatron
  <2>1. /\ pc = "connected" /\ UNCHANGED <<file, local, server, book, loans>>
        /\ patron' \in Patron /\ (Menu \/ (Prompt /\ connection # 3))
    BY <1>6, TablesAreOfServers DEF LookUpPatron
  <2>2. CASE Menu
    <3>1. TypeOK'
      BY <2>1, <2>2, MenuKeepsTypes
    <3>2. UNCHANGED <<file, local>> /\ loans' \subseteq loans
      BY <2>1
    <3> QED BY <2>2, <3>1, <3>2, Elsewhere
  <2>3. CASE Prompt /\ connection # 3
    <3>1. TypeOK'
      BY <2>1, <2>3, NamedAreServers DEF Prompt
    <3> QED BY <2>1, <2>3, <3>1, PromptInv
  <2> QED BY <2>1, <2>2, <2>3
<1>7. CASE LookUpBook
  <2>1. /\ pc = "connected" /\ UNCHANGED <<file, local, server, patron, loans>>
        /\ book' \in Book /\ (Menu \/ (Prompt /\ connection # 3))
    BY <1>7, TablesAreOfServers DEF LookUpBook
  <2>2. CASE Menu
    <3>1. TypeOK'
      BY <2>1, <2>2, MenuKeepsTypes
    <3>2. UNCHANGED <<file, local>> /\ loans' \subseteq loans
      BY <2>1
    <3> QED BY <2>2, <3>1, <3>2, Elsewhere
  <2>3. CASE Prompt /\ connection # 3
    <3>1. TypeOK'
      BY <2>1, <2>3, NamedAreServers DEF Prompt
    <3> QED BY <2>1, <2>3, <3>1, PromptInv
  <2> QED BY <2>1, <2>2, <2>3
<1>8. CASE AddTransaction
  BY <1>8, AddTransactionInv
<1>9. CASE Abandon
  <2>1. Menu /\ UNCHANGED <<file, local, server, loan>> /\ loans' \subseteq loans
    BY <1>9 DEF Abandon
  <2>2. TypeOK'
    BY <2>1, MenuKeepsTypes
  <2> QED BY <2>1, <2>2, Elsewhere
<1>10. CASE ReplaceFile
  BY <1>10, ReplaceFileInv
<1>11. CASE UNCHANGED vars
  BY <1>11 DEF vars, LinesRead, AllOrDefault, ConnectedAsWritten, Whole, FileIsFollowed,
              Named, Lines, LoansFollowTheFile
<1> QED BY <1>1, <1>2, <1>3, <1>4, <1>5, <1>6, <1>7, <1>8, <1>9, <1>10, <1>11 DEF Next

THEOREM Invariance == Spec => []IInv
  BY InitInv, NextInv, PTL DEF Spec

-----------------------------------------------------------------------------
(* The loop never stores a fifth datum, nor one that is not of the file.      *)
THEOREM TypeCorrect == Spec => []TypeOK
<1>1. IInv => TypeOK
  BY DEF IInv
<1> QED BY <1>1, Invariance, PTL

(* Whatever is in connect.txt, the four data are those of one whole file or   *)
(* the four defaults, never some of each.                                     *)
THEOREM DataAreWhole == Spec => []AllOrDefault
<1>1. IInv => AllOrDefault
  BY DEF IInv
<1> QED BY <1>1, Invariance, PTL

(* The program is connected only to the server a whole file names.            *)
THEOREM ConnectedByFile == Spec => []ConnectedAsWritten
<1>1. IInv => ConnectedAsWritten
  BY DEF IInv
<1> QED BY <1>1, Invariance, PTL

(* However the file changes during a loan, the loan is put where the file has *)
(* sent the program since the last prompt; and where its patron and book were *)
(* shown, if the file did not change (Library.cpp:174, Connection_data.cpp:63).*)
THEOREM LoansAreSentByTheFile == Spec => []LoansFollowTheFile
<1>1. IInv => LoansFollowTheFile
  BY DEF IInv
<1> QED BY <1>1, Invariance, PTL
=============================================================================
