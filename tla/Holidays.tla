------------------------------ MODULE Holidays ------------------------------
(***************************************************************************)
(* The holiday calendar (services/holidays.py, api/v1/holidays.py): HR     *)
(* adds, edits, removes and restores rows, in concurrent transactions that *)
(* look for a clash and then write; everybody reads the header and the     *)
(* next holiday.                                                           *)
(***************************************************************************)
EXTENDS Integers, FiniteSets

CONSTANTS
  Names,       \* names, as they are written
  Lower,       \* func.lower: the same for all the ways to write one
  Dates,       \* the dates of the calendar, as numbers
  YearLength,
  LastDay,     \* bound: the last day of the clock
  MaxHolidays, \* bound: rows
  Editors,     \* HR's threads
  Blank        \* no row, no transaction

ASSUME CalendarBounds ==
  /\ Dates \subseteq Nat /\ {LastDay, MaxHolidays} \subseteq Nat /\ YearLength \in Nat \ {0}

VARIABLES
  holidays,   \* id -> its row, or Blank
  edit,       \* thread -> its open transaction, or Blank
  overlapped, \* the pairs of rows two overlapping transactions have written
  today

holVars == <<holidays, edit, overlapped, today>>

Ids == 1..MaxHolidays
Rows == {i \in Ids : holidays[i] # Blank}
HolidayRows == [date : Dates, name : Names, active : BOOLEAN]

ASSUME BlankIsNoRow == Blank \notin HolidayRows \cup Nat

YearOf(d) == d \div YearLength

HolInit ==
  /\ holidays = [i \in Ids |-> Blank]
  /\ edit = [h \in Editors |-> Blank]
  /\ overlapped = {}
  /\ today = 0

SameName(n, m) == Lower[n] = Lower[m]

\* Mutant: the names as they are written.
ClashExact(d, n, except) ==
  \E i \in Rows \ except : holidays[i].date = d /\ holidays[i].name = n

\* find_clash: removed rows clash too.
Clash(d, n, except) ==
  \E i \in Rows \ except :
    holidays[i].date = d /\ SameName(holidays[i].name, n)

\* uq_holiday_date_name
Duplicate(d, n, except) ==
  \E i \in Rows \ except : holidays[i].date = d /\ holidays[i].name = n

Busy(h) == edit[h] # Blank

\* The transactions that are open when thread h begins one. Each is told of the
\* other, to find the rows they have both had in hand.
Begin(h, row, writes) ==
  edit' = [k \in Editors |->
             IF k = h THEN [row |-> row, writes |-> writes,
                            among |-> {edit[l].row : l \in {l \in Editors : Busy(l)}}]
             ELSE IF Busy(k) THEN [edit[k] EXCEPT !.among = @ \cup {row}]
             ELSE Blank]

\* A new row's number is taken at once; it is nobody else's.
FreeId == {i \in Ids \ Rows : \A h \in Editors : Busy(h) => edit[h].row # i}

\* create
ReadAdd(h, d, n) ==
  /\ ~ Busy(h) /\ ~ Clash(d, n, {})
  /\ \E i \in FreeId :
       /\ \A j \in FreeId : i <= j
       /\ Begin(h, i, [date |-> d, name |-> n, active |-> TRUE])
  /\ UNCHANGED <<holidays, overlapped, today>>

\* update: the fields of the payload, of which those that differ are written;
\* the clash check needs the values after the edit.
ReadUpdate(h, i, changes) ==
  LET Value(f) == IF f \in DOMAIN changes THEN changes[f] ELSE holidays[i][f]
      differing == {f \in DOMAIN changes : changes[f] # holidays[i][f]}
  IN  /\ ~ Busy(h) /\ i \in Rows /\ differing # {}
      /\ {"date", "name"} \cap DOMAIN changes # {} =>
           ~ Clash(Value("date"), Value("name"), {i})
      /\ Begin(h, i, [f \in differing |-> changes[f]])
      /\ UNCHANGED <<holidays, overlapped, today>>

\* remove: soft.
ReadRemoval(h, i) ==
  /\ ~ Busy(h) /\ i \in Rows /\ holidays[i].active
  /\ Begin(h, i, [active |-> FALSE])
  /\ UNCHANGED <<holidays, overlapped, today>>

Written(h) ==
  LET w == edit[h].writes
  IN  IF edit[h].row \in Rows
      THEN [f \in {"date", "name", "active"} |->
              IF f \in DOMAIN w THEN w[f] ELSE holidays[edit[h].row][f]]
      ELSE w

CommitHoliday(h) ==
  /\ Busy(h) /\ ~ Duplicate(Written(h).date, Written(h).name, {edit[h].row})
  /\ holidays' = [holidays EXCEPT ![edit[h].row] = Written(h)]
  /\ overlapped' = overlapped \cup {{edit[h].row, i} : i \in edit[h].among}
  /\ edit' = [edit EXCEPT ![h] = Blank]
  /\ UNCHANGED today

\* Refused by the constraint, or a crash.
AbandonHoliday(h) ==
  Busy(h) /\ edit' = [edit EXCEPT ![h] = Blank] /\ UNCHANGED <<holidays, overlapped, today>>

NextDay == today < LastDay /\ today' = today + 1 /\ UNCHANGED <<holidays, edit, overlapped>>

Payloads ==
  [date : Dates] \cup [name : Names] \cup [active : BOOLEAN] \cup [date : Dates, name : Names]

HolNext ==
  \/ \E h \in Editors, d \in Dates, n \in Names : ReadAdd(h, d, n)
  \/ \E h \in Editors, i \in Ids, c \in Payloads : ReadUpdate(h, i, c)
  \/ \E h \in Editors, i \in Ids : ReadRemoval(h, i)
  \/ \E h \in Editors : CommitHoliday(h)
  \/ \E h \in Editors : AbandonHoliday(h)
  \/ NextDay

HolSpec == HolInit /\ [][HolNext]_holVars

-----------------------------------------------------------------------------
(***************************************************************************)
(* What is read.                                                           *)
(***************************************************************************)

\* list_holidays
ListHolidays(year, includeInactive) ==
  {i \in Rows : /\ includeInactive \/ holidays[i].active
                /\ YearOf(holidays[i].date) = year}

\* to_read: no count of days once the date has passed.
DaysUntil(i) == IF holidays[i].date >= today THEN holidays[i].date - today ELSE Blank

\* year_summary: the total of a year, ...
Total(year) == Cardinality(ListHolidays(year, FALSE))

\* Mutant: removed holidays too.
UpcomingRemoved(year) ==
  Cardinality({i \in Rows : holidays[i].date >= today /\ YearOf(holidays[i].date) <= year})

\* ... and the upcoming ones, which have an end of the year and no beginning.
Upcoming(year) ==
  Cardinality({i \in Rows : /\ holidays[i].active /\ holidays[i].date >= today
                            /\ YearOf(holidays[i].date) <= year})

\* next_holiday
NextHolidays ==
  LET ahead == {i \in Rows : holidays[i].active /\ holidays[i].date >= today}
  IN  {i \in ahead : \A j \in ahead : holidays[i].date <= holidays[j].date}

-----------------------------------------------------------------------------
(***************************************************************************)
(* Properties.                                                             *)
(***************************************************************************)

\* Rows, and the constraint on them.
HolTypeOK ==
  /\ \A i \in Rows : holidays[i] \in HolidayRows
  /\ \A i, j \in Rows :
       holidays[i].date = holidays[j].date /\ holidays[i].name = holidays[j].name => i = j
  /\ \A h \in Editors : Busy(h) => DOMAIN edit[h].writes \subseteq {"date", "name", "active"}

\* "so "diwali" cannot shadow "Diwali"" (holidays.py:130): nor can it, through
\* any sequence of additions, edits, removals and restorations, unless two
\* transactions on the two rows overlapped, or two on one of them: one may move
\* it to another date while the other renames it, each after a check of its own.
\* uq_holiday_date_name is about the names as they are written.
NamesAreNotShadowed ==
  \A i, j \in Rows :
    /\ holidays[i].date = holidays[j].date
    /\ SameName(holidays[i].name, holidays[j].name)
    => i = j \/ SUBSET {i, j} \cap overlapped # {}

\* The header of the current year agrees with its list: the upcoming holidays
\* are those with days to go, and the widget's next one is the first of them,
\* or there is none in this year.
HeaderAgreesWithList ==
  LET year == YearOf(today)
      ahead == {i \in ListHolidays(year, FALSE) : DaysUntil(i) # Blank}
  IN  /\ Upcoming(year) = Cardinality(ahead) /\ Upcoming(year) <= Total(year)
      /\ ahead # {} => /\ NextHolidays # {} /\ NextHolidays \subseteq ahead
                       /\ \A i \in NextHolidays, j \in ahead : DaysUntil(i) <= DaysUntil(j)
=============================================================================
