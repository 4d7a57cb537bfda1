----------------------------- MODULE AuditTrail -----------------------------
(***************************************************************************)
(* The audit log and its readers (services/audit.py, api/v1/audit.py,      *)
(* reports/datasets.py). An entry is staged on the transaction of whoever  *)
(* acts: it carries the time the transaction began (func.now()) and is     *)
(* there when the transaction commits, so entries need not appear in the   *)
(* order of their times. A reader's statements each see the log as it is   *)
(* at that moment: an administrator turns pages, newest first, each of     *)
(* which is a count and then a query, and an export counts the entries and *)
(* then takes the newest ones.                                             *)
(***************************************************************************)
EXTENDS Integers, FiniteSets, FiniteSetsExt

CONSTANTS
  Actors,       \* transactions that may be open at once
  MaxEntries,   \* bound: entries written
  Moments,      \* bound: the clock
  PageSize,     \* page_size
  ExportLimit,  \* AUDIT_EXPORT_LIMIT
  Silent        \* no transaction, nothing read

ASSUME AuditBounds ==
  /\ {MaxEntries, Moments} \subseteq Nat /\ {PageSize, ExportLimit} \subseteq Nat \ {0}

VARIABLES
  stamp,     \* entry -> its created_at, Silent until it is committed
  open,      \* actor -> when its transaction began, or Silent
  moment,    \* the clock
  paging,    \* the reader of pages: what was there, what it saw, its page, the
             \* total counted for it, whether it is shown, and how many entries
             \* were committed between the count and the query
  export     \* the export: the total it counted, what it took of what was there,
             \* and how many entries were committed in between

auditVars == <<stamp, open, moment, paging, export>>

Entries == 1..MaxEntries
Committed == {e \in Entries : stamp[e] # Silent}

AuditInit ==
  /\ stamp = [e \in Entries |-> Silent]
  /\ open = [a \in Actors |-> Silent]
  /\ moment = 0
  /\ paging = Silent /\ export = Silent

-----------------------------------------------------------------------------
\* A transaction begins: its func.now() from then on.
BeginWork(a) ==
  /\ open[a] = Silent /\ open' = [open EXCEPT ![a] = moment]
  /\ UNCHANGED <<stamp, moment, paging, export>>

\* A reader has counted and not yet read.
PageIsPending == paging # Silent /\ ~ paging.shown
ExportIsPending == export # Silent /\ export.taken = Silent

\* record_audit stages the entry and the caller commits: a number of entries,
\* all of one created_at.
CommitWork(a) ==
  /\ open[a] # Silent
  /\ \E n \in 1..2 :
       /\ Cardinality(Committed) + n <= MaxEntries
       /\ stamp' = [e \in Entries |->
            IF e \in (Cardinality(Committed) + 1)..(Cardinality(Committed) + n)
            THEN open[a] ELSE stamp[e]]
       /\ paging' = IF PageIsPending THEN [paging EXCEPT !.late = @ + n] ELSE paging
       /\ export' = IF ExportIsPending THEN [export EXCEPT !.late = @ + n] ELSE export
  /\ open' = [open EXCEPT ![a] = Silent]
  /\ UNCHANGED moment

\* A rollback takes its entries with it.
RollbackWork(a) ==
  /\ open[a] # Silent /\ open' = [open EXCEPT ![a] = Silent]
  /\ UNCHANGED <<stamp, moment, paging, export>>

TickOn ==
  /\ moment < Moments /\ moment' = moment + 1
  /\ UNCHANGED <<stamp, open, paging, export>>

-----------------------------------------------------------------------------
(***************************************************************************)
(* ORDER BY created_at DESC: entries of one time come in any order, which  *)
(* need not be the same the next time.                                     *)
(***************************************************************************)
Before(e, f) == stamp[e] > stamp[f]

\* The sets of entries that may be the ones from the k+1st to the k+n-th.
Slices(k, n) ==
  {S \in SUBSET Committed :
     /\ Cardinality(S) = IF Cardinality(Committed) <= k THEN 0
                         ELSE Min({n, Cardinality(Committed) - k})
     /\ \E P \in SUBSET (Committed \ S) :
          /\ Cardinality(P) = Min({k, Cardinality(Committed)})
          /\ \A p \in P, s \in S : ~ Before(s, p)
          /\ \A s \in P \cup S, r \in Committed \ (P \cup S) : ~ Before(r, s)}

\* list_audit_logs counts, for page one ...
OpenLog ==
  /\ paging = Silent /\ export = Silent
  /\ paging' = [there |-> Committed, seen |-> {}, page |-> 1, shown |-> FALSE,
                total |-> Cardinality(Committed), late |-> 0]
  /\ UNCHANGED <<stamp, open, moment, export>>

\* Mutant: the offset is one page too far.
OffsetSkipping(page) == page * PageSize

Offset(page) == (page - 1) * PageSize

\* ... and then reads the page.
TakePage ==
  /\ PageIsPending
  /\ \E S \in Slices(Offset(paging.page), PageSize) :
       paging' = [paging EXCEPT !.seen = @ \cup S, !.shown = TRUE]
  /\ UNCHANGED <<stamp, open, moment, export>>

\* pages: math.ceil(total / page_size).
Pages(total) == (total + PageSize - 1) \div PageSize

\* "Next" is disabled on the last page of the count that came with it.
TurnPage ==
  /\ paging # Silent /\ paging.shown /\ paging.page < Pages(paging.total)
  /\ paging' = [paging EXCEPT !.page = @ + 1, !.shown = FALSE,
                              !.total = Cardinality(Committed), !.late = 0]
  /\ UNCHANGED <<stamp, open, moment, export>>

CloseLog == paging # Silent /\ paging' = Silent /\ UNCHANGED <<stamp, open, moment, export>>

\* audit_trail counts, ...
CountExport ==
  /\ export = Silent /\ paging = Silent
  /\ export' = [total |-> Cardinality(Committed), taken |-> Silent, of |-> {}, late |-> 0]
  /\ UNCHANGED <<stamp, open, moment, paging>>

\* ... and takes the newest.
TakeExport ==
  /\ ExportIsPending
  /\ \E S \in Slices(0, ExportLimit) : export' = [export EXCEPT !.taken = S, !.of = Committed]
  /\ UNCHANGED <<stamp, open, moment, paging>>

CloseExport ==
  /\ export # Silent /\ export.taken # Silent
  /\ export' = Silent /\ UNCHANGED <<stamp, open, moment, paging>>

\* Mutant: the notice is printed when the limit is exceeded by two.
TruncatedLate == export.total > Cardinality(export.taken) + 1

\* Bound: one reader at a time. "Truncated to the ... most recent" is printed under the title.
Truncated == export.total > Cardinality(export.taken)

AuditNext ==
  \/ \E a \in Actors : BeginWork(a)
  \/ \E a \in Actors : CommitWork(a)
  \/ \E a \in Actors : RollbackWork(a)
  \/ TickOn
  \/ OpenLog
  \/ TakePage
  \/ TurnPage
  \/ CloseLog
  \/ CountExport
  \/ TakeExport
  \/ CloseExport

AuditSpec == AuditInit /\ [][AuditNext]_auditVars

-----------------------------------------------------------------------------
(***************************************************************************)
(* Properties.                                                             *)
(***************************************************************************)

\* No two entries of one time, ...
NoTies == \A e, f \in Committed : stamp[e] = stamp[f] => e = f

\* ... and turning the pages to the last one shows every entry that was there
\* at the first: what commits meanwhile, wherever its time puts it, moves the
\* others to later pages, and shows some of them twice. Only what commits between
\* the count of the last page, which says that it is the last, and its query hides
\* an entry each. Entries of one time may be missed: created_at is no total order,
\* and nothing else is ordered by.
PagesMissNothing ==
  paging # Silent /\ paging.shown /\ paging.page >= Pages(paging.total) /\ NoTies =>
    Cardinality(paging.there \ paging.seen) <= paging.late

\* An export without the notice lacks no more entries than were committed between
\* its count and its query.
TruncationIsSaid ==
  export # Silent /\ export.taken # Silent =>
    Truncated \/ Cardinality(export.of \ export.taken) <= export.late

(***************************************************************************)
(* What the code's documentation promises and the code does not keep.      *)
(***************************************************************************)

\* "Never let a truncated export pass for a complete one" (datasets.py:390): an
\* export without the notice holds all there is when it is read. It fails: the
\* count does not have what is committed before the query.
TruncatedIsNeverComplete ==
  export # Silent /\ export.taken # Silent => Truncated \/ export.taken = export.of
=============================================================================
