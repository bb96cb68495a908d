-------------------------------- MODULE Texts --------------------------------
(***************************************************************************)
(* What becomes of a text on its way into the database and back: the code  *)
(* pages of the console and of MySQL, mysql_real_escape_string, and the    *)
(* zeros an ISBN loses in a column of type bigint.                         *)
(*                                                                         *)
(* A text is a sequence of bytes 0..255, an ISBN one of 13 digits.         *)
(***************************************************************************)
EXTENDS Integers, Sequences

\* The 18 Polish letters, in the two code pages: console_char and MySQL_char.
ConsoleChar == <<165, 134, 169, 136, 228, 162, 152, 190, 171,
                 164, 143, 168, 157, 227, 224, 151, 189, 141>>
MySQLChar   == <<177, 230, 234, 179, 241, 243, 182, 191, 188,
                 161, 198, 202, 163, 209, 211, 166, 175, 172>>

\* Each byte found in one table becomes its counterpart in the other.
Counterpart(byte, from, to) ==
  IF \E j \in DOMAIN from : from[j] = byte
  THEN to[CHOOSE j \in DOMAIN from : from[j] = byte]
  ELSE byte

Recode(text, from, to) == [i \in DOMAIN text |-> Counterpart(text[i], from, to)]

pl_from_mysql(text) == Recode(text, MySQLChar, ConsoleChar)
pl_to_mysql(text)   == Recode(text, ConsoleChar, MySQLChar)

Quote     == 39
Backslash == 92

\* The variables of a loop that copies a text: the bytes behind it, and the copy.
Copying == Nat \X Seq(Int)

\* mysql_real_escape_string: a backslash, and what stands for the byte after it.
\* Of NUL, \n, \r, \, ', " and Ctrl-Z a typed line may hold the last four.
Escape(byte) ==
  IF byte \in {Backslash, Quote, 34, 26}
  THEN <<Backslash, IF byte = 26 THEN 90 ELSE byte>>
  ELSE <<byte>>

Escaping(text) ==
  LET loop[p \in Copying] ==
        IF p[1] < Len(text)
        THEN loop[<<p[1] + 1, p[2] \o Escape(text[p[1] + 1])>>] ELSE p
  IN  loop

\* Mutant: the text goes into the query as it was typed.
EscapeNothing(text) == text

\* conn::mysql_code_sanitization.
mysql_code_sanitization(text) == Escaping(text)[<<0, <<>>>>][2]

\* External: how the server reads a literal, up to the quote that ends it.  A
\* backslash and a byte, or two quotes, are one byte: 0, b, t, n, r and Z after
\* a backslash stand for another, the rest for themselves.  (The server keeps
\* the backslash of \% and \_; nothing here writes them.)
Unescaped(byte) ==
  CASE byte = 48 -> 0    [] byte = 98 -> 8     [] byte = 116 -> 9
    [] byte = 110 -> 10  [] byte = 114 -> 13   [] byte = 90 -> 26
    [] OTHER -> byte

AtEscape(query, i) ==
  /\ i + 1 < Len(query)
  /\ \/ query[i + 1] = Backslash
     \/ query[i + 1] = Quote /\ query[i + 2] = Quote

AtEnd(query, i) ==
  i >= Len(query) \/ (query[i + 1] = Quote /\ ~AtEscape(query, i))

Reading(query) ==
  LET loop[p \in Copying] ==
        IF AtEnd(query, p[1]) THEN p
        ELSE IF AtEscape(query, p[1])
             THEN loop[<<p[1] + 2, Append(p[2], Unescaped(query[p[1] + 2]))>>]
             ELSE loop[<<p[1] + 1, Append(p[2], query[p[1] + 1])>>]
  IN  loop

Literal(query) == Reading(query)[<<0, <<>>>>][2]

\* What the INSERT of a typed text leaves in the column.  The whole query is
\* recoded, the text in it after the escaping.
Stored(text) == Literal(pl_to_mysql(mysql_code_sanitization(text) \o <<Quote>>))

-----------------------------------------------------------------------------
\* External: the column books.ISBN is a bigint and keeps no leading zeros.
Number(digits) ==
  LET first == CHOOSE i \in 1..Len(digits) :
                 /\ digits[i] # 0 \/ i = Len(digits)
                 /\ \A j \in 1..(i - 1) : digits[j] = 0
  IN  SubSeq(digits, first, Len(digits))

\* Mutant: a number is taken as it comes from the column.
PadNothing(digits) == digits

\* Book::Book fills a shorter number up to 13 digits.
Padded(digits) ==
  IF Len(digits) \in 1..12 THEN [i \in 1..(13 - Len(digits)) |-> 0] \o digits
                           ELSE digits

is_ISBN(digits) == digits \in Seq(0..9) /\ Len(digits) = 13
=============================================================================
