# Biblioteka: a verification of the library program

Biblioteka is a C++ console program with which clerks of a library keep books,
patrons and loans in a MySQL database. This directory models its core in TLA+,
checks the models with TLC and proves theorems about them with TLAPS. The
source is `Biblioteka/*.cpp` and `*.h` (about 2,500 lines); everything below
`Biblioteka/MySQL_libs` and `x64` is vendored or generated.

## 1. Inventory

### Components

**Lending** (`Library.cpp`: `Transaction`, `add_transaction_to_MySQL_datebase`).
State: the tables `patrons`, `books` with `checked_out`, and `transactions`; a
`Transaction` object per form. The form looks up the patron and the book on two
connections of its own, the clerk answers y or n, and a third connection looks
both up again, scans `transactions` for the ISBN, INSERTs the loan and UPDATEs
`checked_out`. There is no transaction, no lock and no retry; nothing ever
clears `checked_out` or deletes a loan. *Correct when*: no book is lent twice
by one clerk, whatever fails; n clerks lend it at most n times; marks and loans
agree except where a statement was cut short; what the clerk was told is true;
a debtor gets no book; the program comes back to the menu.

**Patron registry** (`Patron.cpp`: `add_patron_to_MySQL_datebase`,
`find_next_free_library_card_number`). State: `patrons` and its AUTO_INCREMENT.
SHOW TABLE STATUS, ALTER TABLE if the number is below 100000, INSERT with a
NULL number, check of the number got, DELETE if it is no card number.
*Correct when*: a number shown to a clerk is a valid card number, in the table,
given once; rows with bad numbers are removed or explained; the removal never
takes a patron's row.

**Book registry** (`Book.cpp`: the forms, `add_book_to_MySQL_datebase`). State:
`books`, `genres`, a `Book` per form. *Correct when*: one clerk does not enter a
book twice; a book reported as added is there; the genre stored is the genre
chosen; a later look shows what was confirmed.

**Texts** (`Polish_characters.cpp`, `mysql_code_sanitization`, the padding in
`Book.cpp:20-28`). No state. What a typed text goes through on its way into the
database and back: escaping, the console's code page and MySQL's, a `bigint`
column that drops the leading zeros of an ISBN. *Correct when*: an ISBN comes back
as it was, and so does a text, but for the bytes that MySQL's page takes for letters.

**Calendar** (`Chrono.cpp`). State: a `Date` object with three fields; pure
conversions between dates, day numbers, seconds and MySQL text. *Correct when*:
an object is always a date; conversions agree with the calendar; order agrees
with time; `more_days` adds days.

**Fees** (`Patron::calculation_library_fees`). State: a patron's fees and the due
date of his loan, which a charge moves. *Correct when*: however often it is
called, no day is charged twice and none is left out. Its only caller,
`Library::calculation_all_library_fees`, is commented out, although the
repository's README says that penalties are charged automatically.

**Connection data** (`Connection_data.cpp`, `mysql_connect`). State:
`connect.txt`, and a `Connection_data` object built anew for **every**
connection. *Correct when*: the data are those of a whole file or the defaults,
never a mixture; a loan goes only where the file has sent the program since the
last prompt, and to a patron and a book of the same database unless the file was
changed while the form ran.

**Menu and main loop** (`Menu.cpp`, `main.cpp`, `Global.cpp`). State: `nr_m`, one
number whose digits are the options chosen. *Correct when*: every number reached
has a case; the walk is the one the plan in the comment draws; a function leads
back to its menu.

**In-memory catalogue** (`Library.cpp`: `find_book_*`,
`wypisanie_wszystkich_ksiazek`, `usuwanie_ksiazki`). State: the vector `Books`,
which nothing fills; see section 5.

### How they interact

`main` calls `Menu::spis_menu`, which calls a method of `Library`; the method
runs a form, and the form talks to MySQL. Within one process everything is
sequential and blocking. The only shared state is the database: several copies
of the program, and people with a MySQL console, change it between any two
statements of a form. There are no messages and no callbacks.

### What is hard

* Check and act in separate statements (loan scan and INSERT; ISBN check and
  INSERT, with a whole form between; AUTO_INCREMENT looked at and used).
* A statement fails, or is executed and its reply lost; the program dies
  between INSERT and UPDATE, or between INSERT and DELETE; the server restarts
  and forgets AUTO_INCREMENT.
* People repair the tables by hand, as the program's messages ask them to.
* Undefined behaviour: `row[11]` is read after `mysql_free_result`
  (`Patron.cpp:238-242`), and `mysql_num_rows` of a NULL result.
* A form makes up to three connections, and each of them reads `connect.txt`
  again: the file may be half edited, or send the next one to another server.
* A text is escaped in one code page and recoded, with the query around it, to
  another; both changes must be undone by what comes later.
* A loan names rows of two other tables that nothing locks, while other clerks
  run the forms that write them and clean them up.
* The calendar: no day 0, truncating division, leap years and centuries.

`PROJECT.json` lists each hazard at its line with the properties that watch it.

## 2. Modules

| module | what it is |
| --- | --- |
| `Lending` | the lending flow of every clerk over the shared tables |
| `LoanRegister` | abstract: loans of copies of books, marks, no loan to a debtor |
| `PatronRegistry` | registration of patrons and the AUTO_INCREMENT |
| `Texts` | code pages, escaping, and the digits of an ISBN |
| `BookRegistry` | entering of books; EXTENDS `Texts` |
| `Library` | the composition of the three above over one set of tables |
| `Connection` | `connect.txt`, the connections, a loan over three of them |
| `Chrono`, `Fees` | `Date` and the conversions; the charge of a late loan |
| `Menu` | `nr_m`, `spis_menu`, `wybor_opcji` |
| `MenuPlan` | abstract: walking in the tree of menus of the plan |
| `LendingProofs`, `PatronProofs`, `LibraryProofs`, `ConnectionProofs`, `MenuProofs` | the theorems about these modules |
| `BookProofs`, `ChronoProofs` | those about `BookRegistry` and `Texts`, and about `Chrono` and `Fees` |
| `Induction` | induction over the natural numbers, and that loops are defined |
| `MC*` | the instances for TLC |

### Lending

One action is one SQL statement together with the local code up to the next
one; typing and connecting before a SELECT belong to it, since they touch
nothing shared. `pc[c]` names the prompt or the statement clerk `c` is at.

| source | action |
| --- | --- |
| `add_library_card_number_interface` | `AddLibraryCardNumber` |
| `Transaction::add_ISBN_interface` | `AddISBN` |
| `approve_add_transaction_interface` | `Approve` (y), `Decline` (n) |
| `Library.cpp:176-186` | `RecheckPatron` |
| `Library.cpp:188-202` | `RecheckBook` |
| `Library.cpp:204-238` | `ScanLoans`, then `Repair` when a loan is found |
| `Library.cpp:240-250` | `InsertLoan`, acknowledged or with its reply lost |
| `Library.cpp:252-258` | `MarkCheckedOut`, which may work, fail, or lose its reply |
| the `else` branches | `QueryFails` |

`Crash` ends the program anywhere and starts it again. It also stands for a lost
result set: in the client library shipped, `mysql_num_rows(NULL)` crashes.
`MoveFee` and `FollowAdvice` are people at the database; the constants
`FeesMove` and `HandRepairs` switch them off. Dates are left out: they decide
nothing in the flow, and `Chrono` is about them. The histories `advised`,
`interrupted`, `debtHeld` and the field `by` of a loan are read by properties
and by the librarian, never by the program.

Two clerks **can** lend one book twice: both scan, then both INSERT. The model
shows what is left of the guarantee. `Implements` maps a loan's clerk to a copy
of the book: n clerks behave like a library with n copies of every book, and one
clerk alone like a library with one.

### PatronRegistry

`ReadStatus` takes **any** number for the freed `row[11]`: the outcome of the
read is undefined, so the properties hold whatever it is. `AlterTable` and
`RestartServer` put AUTO_INCREMENT where InnoDB may: at the value asked for or
above the last row. `InsertPatron` is the INSERT and the check of
`mysql_insert_id` (no statement in between), `DeletePatron` the removal. As in the
other two forms, `ClearScreen` is the clerk who goes on in the menus.

### BookRegistry and Texts

The schema, in a comment at `Library.cpp:538-548`, makes ISBN the primary key of
`books`. `ISBNIsKey` says whether the server does: the run `books` sets it FALSE
and shows what the program ensures by itself. `Within` is the relation "the typed
text occurs in the genre's name" of `string::find`; the first listed genre that
matches is taken. Of title, author and genre, which go the same way, a row keeps
the title, byte for byte; the year changes no decision. `typed`, and `n`, `by` and
`confirmed` of a row, are histories.

`Stored` is what an INSERT leaves in the column: `mysql_code_sanitization` of the
text, `pl_to_mysql` of the whole query, and `Literal`, the server's reading of it
up to the closing quote, with MySQL's escapes and doubled quotes (`\%` and `\_`,
which no escaping writes, are left out). Escaping and reading are loops over a
position in the text and the copy made so far. `MySQL_row_to_book` goes back: `pl_from_mysql`, and zeros
in front of a short number.

### Library

The three forms in one state. A copy of the program runs one function at a time,
so `pc` and `told` are the same variables in all three instances, and so are the
clerks; each form has its own locals. The tables are shared: `Lending`'s `books`
and `patrons` are not variables here but what its look-ups see of the rows the
other two forms wrote (`booksSeen`, `patronsSeen`: a row with a bad card number
makes `MySQL_row_to_patron` throw). `ImplementsLending` maps a clerk who is in
another form to one at the menu. `Lending`'s own `EnterBook` and `RegisterPatron`
are then the INSERTs of those forms, and `ClearScreen` the start of one of them;
that nothing else happens to the two tables is what has to be shown: the DELETE
after a bad card number must take a row no loan can see.

### Connection

A line is the value after its label and after `pl`, or `Short` for a line the
label does not fit into. `OpenFile` takes the content of the file, which the
stream reads at once; `ReadLine` is the body of the loop in `add_data_from_file`,
`EndOfData` what follows it, `MysqlConnect` the function. A loan uses three
connections; what it does on one of them is one step here, since `Lending` takes
it apart. `ReplaceFile` is anybody with an editor, at any time. `opened` is a
history, and so are three of the loan in hand: `shown`, the servers that answered
its look-ups; `named`, those the file has named since the last prompt; `edited`,
whether the file was changed since the first. A loan keeps what they were.

Nothing compares the server of the third connection with those of the first two.
When the file is changed during a form, the patron's number and the ISBN, looked up
in one database, are looked up again in another, and the loan is made there if they
exist. `LoansFollowTheFile` states what is left: the loan goes where the file has
sent the program since the prompt for the "y", not where an older content did, and
what the clerk was shown came from that database unless the file was changed.

### Chrono and Fees

The state machine is one `Date` object and its setters. The loops of
`date_to_days` and `days_to_date` are recursive functions, one per loop, of the
two variables the loop changes. The reference is `Ordinal`, the usual closed formula for the days of
the calendar; it uses no loop and none of the code's day numbers. "Today" is the day
in UTC, as in the code, which divides `time(NULL)` and knows no time zone. `Fees` is an
operator on a patron's account, over the day numbers of `Chrono` with their error
in leap years; a fee is a number of dimes.

### Menu

`SpisMenuEnd` is the end of `spis_menu`, which decides by `nr_m == nr` whether a
function has been done. `MenuPlan` is the comment at `Menu.cpp:16-64`: a trail of
choices, down, back and home. The mapping takes the digits of `nr_m`.

## 3. Runs

| run | shows | bounds |
| --- | --- | --- |
| `lending_safety` | all safety of lending | 2 clerks, 2 cards, 2 books, 2 loans; fees move |
| `lending_refines` | two clerks, two copies of each book | 2 clerks, 2 cards, 2 books, 2 loans |
| `lending_live` | an approval ends; what survives repairs by hand; n clerks, n loans | 2 clerks, 1 card, 1 book, 4 loans |
| `patrons` | card numbers; a registration ends | 2 clerks, column 1..5, cards 3..4 |
| `books` | books entered once; the genre chosen; texts and ISBNs read back | 2 clerks, 2 ISBNs, 1 title, 2 rows, no key, 3 tables of genres, 4 texts |
| `library` | loans keep their rows; the three forms together implement `Lending` | 2 clerks, 1 ISBN, 1 card number, 1 row of `books`, 2 loans |
| `connection` | whole data or the defaults; where a loan over three connections goes | files of 0 to 5 lines with a short one anywhere, 4 other files, 3 servers, 1 loan |
| `calendar` | the calendar; fees charged in one or two steps | all dates of 1967-1973 and 1999-2001, spans -30 to 366 |
| `menu` | the walk through the menus | all keys that matter |
| `book_shadowed`, `chrono_leap`, `chrono_mysql` | findings | |

Why these bounds are enough. The lending properties relate at most two loans of
one book, two clerks and one patron or two; with two of each, each clerk can
crash, retry and meet the other's half-done work, and `MaxLoans` also lets the
AUTO_INCREMENT run out. The card numbers leave room below, at, and above the
range of valid cards, and one after the end of the column. The years of the
calendar have a leap year on each side of the epoch and a leap century. One of
the ISBNs has leading zeros; the title has all 18 Polish letters, the bytes
that are escaped, next to them those a backslash would turn into another, and
three bytes that are letters in MySQL's page only. In
`library` two clerks suffice for every pair of forms to meet, and one number to
be a card number leaves numbers that are none. In `connection` the files of one
server are whole, short or bad at every line, and the servers share a patron but
not their books. What the proofs cover holds for all bounds anyway. Symmetry
is used in safety runs only, over sets of model values no formula orders.

**Fairness.** `ApprovalEnds` assumes weak fairness of `DatabaseStep(c)`, the
statements after the y: that code runs without waiting for anybody, and a
connection that fails returns an error. Nothing is assumed of the clerk (who may
never answer), of crashes, of the server's restarts or of repairs by hand.

**Deadlock** is checked in every run: a clerk can always try again.

### Findings

* `chrono_leap`: `date_to_days` (`Chrono.cpp:193`) adds the years 1971 to y
  instead of 1970 to y - 1. In a leap year `more_days(30)`, the due date of a
  loan, is 31 days later. `MoreDaysIsCloseToExact` shows that this is the whole
  of the damage from 1970 on: never more than one day, never outside leap years.
  (It leaves out spans that cross the epoch: there is no day 0, so `more_days`
  from before 1970 may throw or be a day short. No caller starts there.)
* `chrono_mysql`: `date_from_mysql` (`Chrono.cpp:320`) reads the month as the
  year. A patron registered on 29 February can then never be read, and never
  borrow: `DayIsReadBack` shows that no other day is affected so.
* No run, since nothing in the repository says otherwise: a title with one of the
  letters í, ú, Ž, Č or Š (161, 163, 166, 172, 230 on the console) is shown with a Polish
  letter in its place. `pl_to_mysql` leaves these bytes alone, and
  `pl_from_mysql` (`Polish_characters.cpp:88-107`) takes them for letters of MySQL's
  page: "García" is shown as "GarcĄa". `ShownAsConfirmed` says which bytes change, and
  into what.
* `book_shadowed`: a genre whose name occurs in an earlier one's cannot be chosen.

## 4. Theorems

Everything is proved from the named assumptions on constants alone
(`LendingConstants`, `PatronConstants`, `BookConstants`, `LibraryConstants`,
`ConnectionConstants`, `ChronoConstants`, `MenuConstants`), which TLC evaluates
in the runs. Four theorems have a hypothesis of their own: `LoanBound` (finitely
many clerks), `Refinement` and `LibraryIsARegister` (no changes by hand, as in the
run `lending_refines`), and `BooksAreReadBack` (titles are sequences of integers).

* **Induction.** Lemmas the others rest on, which say nothing of the program. The provers cannot instantiate the library's induction theorems,
  whose parameter is an operator. A set will do: `SetInduction` says that a set of
  numbers with 0 and the successor of each of its members is `Nat` (a number left
  out would have a least, by `WFMin`). What holds of every number is then a set
  written down in the proof. A recursive function in TLA+ also says nothing until
  one exists: `LoopIsDefined` shows it for every loop with a measure that
  decreases, and `LoopStep` unrolls one round.

* **Lending.** `IInv` adds to the properties what they rest on: a verdict is on
  the screen at the menu only (`VerdictAtMenu`); a program that goes to INSERT
  has no loan of the book of its own (`InsertIsFirst`: true right after the
  scan, and kept since only this clerk adds its own loans); what is about to be
  marked has been lent (`MarkIsBacked`); the chosen book and patron have their
  rows (`BookKnown`, `PatronKnown`), without which the UPDATE would change
  nothing; and the two invariants about debts. None of the properties is
  inductive alone. There is one lemma per action. `LoanBound` needs a finite
  `Clerk` and maps the loans of a book injectively to clerks. `Refinement` uses
  the invariant for the one step that matters: the INSERT takes a copy that is
  free.
* **PatronRegistry.** `NextIsFree` (AUTO_INCREMENT is above every row) makes
  numbers unique; `DeleteIsOwn` (a clerk at the DELETE holds the number of its
  own, invalid row) makes the removal harmless, and every other bad row explained.
  No assumption is made on the number read from the freed row.
* **BookRegistry.** `FormIsFresh`: a form under way is for a book its clerk has
  no row of. That needs no key on the server.
* **Texts.** `ISBNIsReadBack` holds for all 10^13 ISBNs. `RecodeIsUndone`: a
  byte that is no letter of MySQL's page comes back from the two code tables as it
  was. `OnlyRecodedBack`: one that is comes back as the console's letter for it.
  `EscapingIsUndone`: for every text, whatever quotes and
  backslashes it has, the server reads in the query the text itself in its own
  code page. The escaped text is described position by position (each byte lies
  where the escapes before it have pushed it); no entry of the tables is a quote,
  a backslash or a Z, so recoding moves none of them; and the loop of the server,
  started at such a position, goes to the next one. `TextIsReadBack` puts
  the three together, and `BooksAreReadBack` carries it to the registry: in every
  behaviour every row is read back as `ShownAsConfirmed` says, whatever bytes its
  title has.
* **Library.** `LendingIsServed`: every step of the composition is a step of
  `Lending` or none. Its invariant is `FormsAreSilent`: a clerk inside a form has
  no verdict on the screen, and a DELETE is of a number that is no card number.
  `RegistriesAreServed`: for `PatronRegistry` and `BookRegistry` a step of another
  form is a cleared screen or nothing. So what is proved of each form alone,
  cited for its instance, holds of the whole (`LoansStandInALibrary`,
  `CardsInALibrary`, `BooksInALibrary`), and `LibraryIsARegister` puts one
  refinement on the other: without changes by hand the three forms of n clerks
  are a register with n copies of each book.
* **Connection.** `LinesRead` is the invariant of the loop: what has been read is
  what the stream was opened with, and the flag is lost with the first bad line.
  `FileIsFollowed` is that of a loan: what the stream was opened with names a server
  in `named`, and while the file is unchanged `named` is one server at most and
  `shown` is within it. So `LoansAreSentByTheFile`, whoever edits the file and when.
  The theorems hold for every content of the file, of any length.
* **Chrono and Fees.** Every property of the run `calendar`, for all years and
  spans. The inductive invariant is only that the object is a date of some year;
  the work is in the loops. Each one has a measure, so its function exists. Sums of
  months and years are proved by induction against the calendar without loops
  (a year later is `DaysInYear` later, a month `DaysInMonth`), which gives
  `date_to_days` in closed form, one too high in leap years. For `days_to_date`
  the loops up and down stop in the year and the month that hold the day
  (`DaysToDateIsRight`), and every whole number is the ordinal of a date
  (`EveryDayHasADate`, day by day from the epoch in both directions). So `more_days` lands
  where `MoreDaysIsCloseToExact` says, `operator<` is the order of the ordinals
  (`BeforeIsLess`), and, since day numbers never decrease along the calendar
  (`DateToDaysGrows`), two charges of a patron are one. The conversions of seconds
  hold for every day number. The theorems count with whole numbers: they say
  nothing of a date so far from 1970 that an `int` of days or a `time_t` of seconds
  overflows.
* **Menu.** `IInv`: while a menu or a function runs, `nr_m` is the number it was
  called with; the numbers chosen are checked menu by menu. `PlanIsKept` is the
  refinement: taking the last digit off is a step back, a digit more a step down,
  and the menus of the switch are the menus of the plan with their widths.

Model-checked only: `ApprovalEnds` of lending and of the patron registry, since
TLAPS has no rule here for fairness and ENABLED. Every other property of a
passing run is also a theorem. `RegistriesAreServed` and `LibraryIsARegister` are
proved only. The properties of the violation runs are false.

## 5. What is not modelled

* **The vector `Books` and the searches over it** (`find_book_*`,
  `wypisanie_wszystkich_ksiazek`, `usuwanie_ksiazki`). No code puts a book into the
  vector: it is empty in every reachable state and the functions find nothing. In
  `Menu` they are functions that return.
* **Code without a caller**: `delete_book_from_MySQL_datebase`, `operator>>` of
  dates, `re_pl`, the UTF-8 and the wide-character conversions.
  `calculation_library_fees` has none either, but is modelled as an operator
  (`Fees`), since its arithmetic could be called any day.
* **Printing**, and `pl`, which only recodes what is printed and the values of
  `connect.txt`. The checks of names and addresses in the prompts ask again and
  decide nothing else.
* **The double of a fee.** It is a number of dimes here, without its rounding.
* **The server's character set.** No code sets one; the server is taken to keep
  bytes, and the limits of the columns' lengths are left out.
* **The headers and libraries in `MySQL_libs`** are Oracle's and say nothing about
  this program; they are about 26,000 of the 28,600 lines of C and C++ in the
  repository. The models stand for more than half of the program's own lines, of
  which the rest is printing, prompts and the code named above.
* **An empty table of genres** keeps the clerk at the prompt for a genre for ever
  (`Book.cpp:212`); closing the window is the way out, which is `Crash`. There is no
  property about it, since nothing in the repository says the table has rows.

One step could follow: fees as part of `Lending`, once the call in `Library.cpp` is
no comment any more.
