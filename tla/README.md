# OfficeIQ in TLA+

Specifications of OfficeIQ (`src/backend/app`, a FastAPI service over PostgreSQL, and
the token handling of its React frontend): TLA+ modules of its components, the TLC runs that check them on small
instances, and TLAPS proofs of what matters most for every instance.

## Execution model

All modules share one reading of how the program runs.

* Endpoints are plain `def` functions, so the server runs them in a thread pool
  and several are in progress at once (`upload_document` alone is `async`).
* Each request has a session of its own (`core/database.py`, `get_db`). It loads
  rows, keeps the values it loaded (the identity map), and on `commit()` writes
  the columns it changed by primary key. PostgreSQL runs it at READ COMMITTED;
  no row is locked and no table has a version column. An exception rolls
  everything back; a broken unique constraint becomes a 409 (`core/errors.py`).
* Background tasks run in the same process after the response has been sent.
  A crash of the process loses them.

* In the browser, JavaScript runs one continuation at a time; an action is what
  happens between two `await`s.

A module is therefore either *atomic* (one action per handler, what its
transaction commits) or *transactional* (one action for the loads a decision is
taken on, one for the commit). Properties that hold of the first and not of the
second are the program's races.

## Inventory

| component | state | operations | what is hard |
|---|---|---|---|
| Requests and leave (`services/requests.py`, `services/leave.py`) | requests, leave balances | submit, approve, reject, cancel, view balance | a counter maintained beside the rows it summarises; two approvers; days frozen across years |
| Documents and extraction (`api/v1/documents.py`, `services/extraction/pipeline.py`) | document status, blob, extracted fields | upload, process (background), reprocess, correct, apply, delete | a background task against HR's decisions and deletions; a crash mid-way; blob and row are stored separately |
| Review and onboarding (`api/v1/verification.py`, `services/review.py`) | verification checks, face matches, onboarding status | approve, reject, verify, face match, recalculate, complete | a status derived from many rows by whoever wrote one of them last |
| Tasks (`services/assignment.py`, `api/v1/tasks.py`) | templates, rules, tasks | assign, sync, update, waive, delete | idempotence under concurrent and repeated assignment |
| Invitations (`services/invitation.py`, `api/v1/onboarding.py`, `api/v1/employees.py`) | employee records, invitations, accounts | create, invite, resend, revoke, expire, accept, delete | links that must die exactly once; codes computed from counts |
| Authentication and users (`api/v1/auth.py`, `core/deps.py`, `api/v1/users.py`) | sessions, lockout counters, reset links, roles | login, refresh, logout, reset, change, deactivate, demote | revocation racing issue; read-modify-write of counters; guards checked before the commit |
| Rate limiter (`core/ratelimit.py`) | sliding windows in memory | hit, reset | the clock is read outside the lock; whole seconds |
| Knowledge base (`services/knowledge.py`, `api/v1/knowledge.py`) | documents, chunks, embedder | create, edit, publish, ingest (background), delete | ingestion racing edits and other ingestions; a failure mid-way |
| Retrieval and chat (`services/chat.py`, `services/retrieval.py`, `api/v1/chat.py`) | conversations, messages | ask, delete, analytics | history read before an answer that takes long; several ways not to get one |
| Notifications (`services/notifications.py`) | notices, reminders, mails | notify, sweep, read, dismiss | staged with an event that may be rolled back; a sweep that must not repeat itself |
| Catalogue (`services/assignment.py`, `api/v1/tasks.py`) | templates, rules | edit, delete, resolve, assign | rules that overlap; deletion racing assignment |
| Holidays (`services/holidays.py`) | the calendar | add, edit, remove, restore, summary | a check in the code that is wider than the constraint in the database |
| Audit log (`services/audit.py`, `api/v1/audit.py`) | an append-only table | record, list by pages, export | entries commit out of the order of their times; count and query are two statements |
| Dashboard and reports (`api/v1/dashboard.py`, `services/reports/datasets.py`) | none | read | the same figures computed twice, in SQL and in Python |
| Browser session (`frontend/src/lib/api.js`, `context/AuthContext.jsx`) | tokens in two stores, the refresh in flight | sign in, request, refresh, sign out | a refresh that outlives the session that asked for it |
| E-mail, search, rendering, engines, configuration, seeds, pages | | read, format, send | little control of their own |

What makes each component correct, and so what its properties are about:

* *Leave*: the stored counter equals what the approved requests say; approved
  leave never exceeds the grant; decisions are attributed and final.
* *Documents*: a row always has its file; nothing revives a deleted document;
  every extraction ends; HR does not rule while an extraction is running.
* *Onboarding*: the stage follows the documents and never goes back; tasks exist
  when the stage says they do; checklist items close with an approval and only then.
* *Invitations*: an account comes of a link that was mailed, once; no two records
  share a code or an email.
* *Authentication*: a session ended by a password, a revocation or a deactivation
  stays ended; a locked account admits nobody; the last administrator stays.
* *Rate limiter*: never more than `limit` hits in any window, and nobody refused for less.
* *Notifications*: no notice of what did not happen, no pile of reminders, and in the
  end a reminder of what is overdue.
* *Knowledge base and chat*: the chunks of a ready document are of one text, whole; an
  answer is grounded in passages; a conversation's records add up.
* *Catalogue*: the strictest rule wins whatever the order; assigned tasks keep what
  they were assigned with.
* *Readers* (holidays, audit, dashboard): two views of the same data agree, and what is
  left out is said to be.
* *Browser*: the tokens are those of the user the page shows.

The components meet in these places: `recalculate_onboarding_status` is called by
whoever changes a document or records a check; the background job of an upload runs
the pipeline and then the checks (`Onboarding` composes these with `DocumentPipeline`);
assigning tasks is called by the recalculation and by HR; every handler stages notices
and audit entries on its own transaction (`Notifications` and `AuditTrail` take the
handlers as *any* transaction that commits or does not); the chat retrieves what the
knowledge base calls ready. The others share nothing but the database, so their
modules run side by side under TLC (`MCRulings`, `MCAccounts`, `MCAssistant`, `MCServices`): a
behaviour is one of one part, and the others stay in their initial states.

## Modules

| module | what it is | extends |
|---|---|---|
| `LeavePolicy` | entitlement, rounding, carry-forward and the leave payload, as operators | |
| `DaySums` | the sum of a function over `1..n`, as a recursive function | |
| `LeaveLedger` | requests and balances, one handler at a time | `LeavePolicy`, `DaySums` |
| `LeaveTxn` | the same handlers as transactions of concurrent threads; with one thread, a refinement of `LeaveLedger` | `LeaveLedger` |
| `DocumentPipeline` | documents, files and background jobs | |
| `Onboarding` | checks, face match, stage and tasks on top of the documents | `DocumentPipeline` |
| `OnboardingTxn` | the onboarding's handlers as transactions of concurrent threads | `Onboarding` |
| `Registration` | what the invitation flow promises: the abstract specification | |
| `Invitations` | records, links and accounts, as transactions; refines `Registration` | |
| `Sessions` | one account: sign-in, lockout, tokens, passwords, as transactions | |
| `Administrators` | who is an administrator, as transactions | |
| `Accounts` | the three modules of accounts side by side | `Invitations`, `Sessions`, `Administrators` |
| `Notifications` | notices, reminders and mails, as transactions | |
| `Knowledge` | policies, their index and the ingestion jobs | |
| `Chat` | conversations, retrieval, the confidence gate, analytics | |
| `RateLimiter` | the sliding windows of one process and its threads | |
| `Catalogue` | templates, rules, `resolve_templates`, assignment as a transaction | |
| `Holidays` | the calendar as transactions, and its readers | |
| `AuditTrail` | entries of transactions, pages and exports | |
| `Dashboard` | the figures of dashboard and reports, as operators over changing records | |
| `BrowserSession` | one tab's tokens; the server is external | |
| `MC…` | constants for TLC, and the parts that run side by side | |
| `…Proofs` | theorems | the module they are about |

Definitions whose comment begins with "Mutant:" are not part of the model. They
are plausible mistakes in the definition that follows them; each property of a
passing run is violated when one of them takes that definition's place. A property
of `Accounts`, `MCAssistant` or `MCServices` is a conjunction of named parts; the
modules hold a mutant for the other parts as well.

### LeavePolicy, LeaveLedger, LeaveTxn

Amounts are half days, because every amount the code writes is a multiple of 0.5.
`EntitlementFor` therefore rounds quarter days. A year has `DaysPerYear` days.

| state | code |
|---|---|
| `submitted`, `owner`, `payload`, `status`, `decidedBy` | the rows of `requests` |
| `balance` | the rows of `leave_balances`, keyed as `uq_leave_balance_period` keys them |
| `today` | `today_utc()` |
| `txn` (`LeaveTxn`) | the open session of a thread: what it read, what it will insert |

| action | code |
|---|---|
| `Submit`, `Cancel`, `ViewBalance` | `POST /my-requests`, `…/cancel`, `GET /my-leave-balance` |
| `Approve`, `Reject` | `POST /requests/{id}/approve`, `…/reject` |
| `Begin…`, `ReadBalances`, `Commit…`, `Rollback` | the same handlers, cut where the session reads and where it commits |

A balance row is made up on first use and freezes the days carried into its year.
A handler that raises leaves nothing, so it is no step of `LeaveLedger`.
`LeaveTxn` gives a handler the values it read until its commit, writes only the
columns that changed, and refuses a broken unique constraint. `SerialImplementsLedger`
says that with one transaction at a time this is `LeaveLedger` again: the transactional
module is checked to be the same program, so what is lost with two is lost to concurrency.

### DocumentPipeline

| state | code |
|---|---|
| `docs` | the rows of `documents` (type and status) |
| `blobs` | the objects in storage |
| `uploading`, `deleting` | handlers between their two writes, to storage and to the database |
| `uploads`, `removed` | history: keys handed out, documents deleted |
| `job` | the background tasks in progress: `process_document` at one of its commits, then `run_verification_for_document` |
| `crashes` | how often the process has died |
| `lost` | history: the documents a job of which has died, or went down with the process, since the last one was queued |

`JobStart`, `JobLoad`, `JobFinish`, `JobFail` and `JobVerify` are the commits of the
job. `seen` is the status the job loaded for its second transaction: SQLAlchemy
issues no UPDATE for a column set to the value it already has, so a job that loaded
`extracted` leaves the status alone. That is why the proof needs `Attended`.
Only what lies between the first commit and the recording of a failure is inside the
job's inner `try`: `JobDies` is an error of the first read or commit, or of the read or
commit that records a failure, after which the row stays as it is and no job is left.
`InsertRowOnly` is an upload whose commit succeeds and whose refresh fails, so that no job
is queued.

### Onboarding

`account`, `stage`, `task`, `checks`, `face` are the employee's `user_id` and
`onboarding_status`, the tasks, the latest check of each document and the latest
face match. Each endpoint of `verification.py` and `tasks.py` that writes is an
action; `SetStage` is `PATCH /employees/{id}`, which stores any stage and derives nothing.
`behind` is history: HR has set the stage by hand, or a document was deleted or an
invitation accepted, since the stage was last derived. The session does not flush before a
query (`autoflush=False`), and the model says for each query which documents it
sees: `Recalculate` derives the stage from the objects being changed, and `Sync`
sees the committed rows unless inserting tasks has flushed the rest.
The outcome of an identity check or of the face matcher is a free choice, except
that a match needs both files. `Templates` stands for what `resolve_templates` returns.

### OnboardingTxn

`txn` is what each thread has open: the document and ruling it loaded (`load`), then
what it will write (`Writes`): the columns that differ from what it read, the tasks it
inserts, the stage if it changes. A commit (`CommitRuling`, `CommitRecords`) is
`Refused` where an UPDATE finds its row gone or `uq_employee_template` is broken.
`ReadForPatch` is HR's `PATCH` of the stage, a transaction like the others: what it read
may be overwritten, and overwrites. `dropped`, `wasApproved`, `handSet`, `overtaken` and
`raced` are history: tasks HR deleted, documents once approved, a stage that is HR's own,
rulings that did not see another's commit, and whether one of those was committed.

### Registration, Invitations, Sessions, Administrators

`Invitations` maps to `Registration` by emails: `mailed` are the invited, `accounts` the
registered. `Read…` actions are the loads and guards of a handler, `Commit…` the writes,
`Abandon` a rollback. `Sessions` is one account with its `user` row, `session`
(`refresh_tokens`), `reset` (`password_reset_tokens`) and the access tokens issued;
`changedAt`, `idleSince` and `resetsDone` are history. A token is a row's number and its
times; hashing and signatures are abstracted.

### Notifications

`staged` is what an open handler will insert; `unread` counts the unread rows of each
notice; `mails` go out while staging. `BeginSweep` and `CommitSweep` are
`run_task_reminders`: the query for an unread reminder sees the rows committed and its own.

### Knowledge, Chat

A `job` is an ingestion between its two commits: `ReadPolicy` is the statement that reads
the row again after the first commit, `EmbedChunks` the later one that deletes the chunks
there are by then, `CommitIngest` writes the columns that differ from what was read.
`IngestFails` is an embedder or a statement that fails and is recorded; `IngestDies` an
error that nothing catches, before the first commit or while a failure is recorded.
`overtaken` and `lost` are history: ingestions before which another one of the same
document was committed after they had read the row; documents an ingestion of which died.
`edit` is an open PATCH. A chunk knows the ingestion that made it (`made`), as a row of the
table knows its identity. `mishaps` are crashes, redeployments with another embedder and
ingestions that fail or die. In `Chat` a passage is its similarity in percent; `Retrieve`,
`Confidence` and `Finalise` compute as the code does, in integers; the
history that is replayed is the set of a window's messages, each with its turn. A reply is a value of
the class a generator tells apart.

### RateLimiter, Catalogue, Holidays, AuditTrail, Dashboard, BrowserSession

Times are ticks or days. `RateLimiter` lets a thread wait up to `Lag` ticks between its
clock and its lock. `Catalogue` has one employee for each department and matches the
designation as it matches the department. `AuditTrail` counts and queries in two steps, as
`list_audit_logs` and `audit_trail` do: `late` is how many entries were committed between
the two. The reader turns pages forward, each when it is shown, up to the last one of the
count that came with it (`Pages`, `AuditLog.jsx`). Among entries of the same time the
database chooses anew at each query. In `BrowserSession`, `Uploads` are the requests that
leave the tokens alone when their refresh fails. `Dashboard` changes the records in every way
the program can and computes both sides' figures from them.

## Runs

Each run's bounds are the smallest at which what it is about can happen.

| run | question and bounds |
|---|---|
| `rulings` | What is handed in and ruled on, the ledger in one half of the behaviours and the documents in the other (`MCRulings`). Leave: do counter, grants and decisions stay in step? Two requests by an employee and by an HR user who has joined mid-year; seven payloads, among them half days, a whole sick allowance, unpaid leave, a span over new year and one that ends before it begins; two years, three days. Two annual requests of 15 days do not fit in one year, so both checks refuse. Documents: two, two jobs (of one document or of both), one crash at any point: files, deletions, and documents waiting for a job. |
| `leave_txn` | What survives two concurrent handlers, and with one at a time, is this `LeaveLedger`? Two requests against two years, one of which carries into the other. Two threads are enough for every race of a read with a commit. |
| `leave_txn_overdraw` | Does the check at approval keep a balance from being overdrawn? No. |
| `documents_crash` | Does every extraction end? Not after a crash, nor where the job dies. |
| `onboarding` | Two documents of two required types, one verifiable, an employee who has not accepted yet, a mandatory checklist item, a task of HR's own (while one document is uploaded at most), HR setting any stage by hand at any time, one job that may fail or die: the derived stage and the tasks. No crash: to these modules it is a job that dies, and `rulings` has it. |
| `onboarding_txn` | Two uploaded documents, one of each type or both of the one that closes the checklist item, the item, two threads that rule, match, assign, list, update, waive, complete or set the stage by hand: do tasks and stage survive the races? HR sets the stage once, in behaviours in which nothing is deleted, to one of five stages: the ones before `documents_submitted` are alike here, and so are the terminal ones (`MCSpec`). |
| `onboarding_txn_missed` | Do two approvals of the last two documents trigger the assignment? Not when they overlap. The specification is `TxnSpec`, without those bounds. |
| `onboarding_txn_rewind` | Does the stage only move forward? Not when a recalculation commits late. |
| `accounts` | Two emails, two records, three links of two hours, two threads; one session, one reset, two password changes, a lock after two failures; three staff accounts. Two threads suffice for a decision and what overtakes it; the third link is the one a resend adds to a race. |
| `notifications` | One HR user, one employee, one task, one event, two days, two threads that both may sweep. |
| `assistant` | One policy of three texts, three ingestions, one mishap, two embedders; three turns of one conversation asked by two threads, similarities below, between and above the thresholds, all three generators. |
| `services` | Rate limiter: a rule of two in four ticks, two threads, one tick of lag, more than two windows. Catalogue: two templates and two rules with every override, four edits. Holidays: two rows, two editors, three names of which two are spellings of one, two dates in two years. Audit: four entries by two transactions, pages and exports of two. Dashboard: two people, two papers of one kind, one duty, three days of two moments. Browser: two accounts, two requests of which one is an upload, three sign-ins. |

`CHECK_DEADLOCK FALSE` is set where the bounds end everything: once every permitted
upload, link, session, edit or entry has been made, nothing is left to do. `leave_txn`
and `notifications` check deadlock: viewing a balance and sweeping are always possible.
Threads are exchanged by symmetry in `leave_txn` and `onboarding_txn`, emails and threads
in `accounts`; none of these checks liveness.

**Fairness.** Nothing is assumed of users, of HR or of crashes.

* Background jobs: `WF(JobStep(j))` for each, in `rulings` and `assistant`: the server
  runs what is queued in its thread pool, and a job that is not dead takes its next step.
  A step may be the one by which it fails or, in `rulings`, dies; nothing is assumed of
  how often. `HandledIsRead` is the liveness that holds: an unread document none of whose
  jobs was lost gets a final status. `ExtractionEnds`, the same without the proviso, is
  what the docstring promises and a crash or a dying job breaks. `IngestionEnds` is the
  knowledge base's: unless its ingestion dies or is lost, a document that waits is
  ingested, or says that it failed.
* Reminders: the sweep is called by a scheduler "as often as it likes"
  (`notifications.py:336`). `NtfFairness` says that it is called again and again and that
  not all of the calls fail (`SF` of beginning and of committing a sweep), and that a
  handler ends (`WF`). `OverdueIsReminded` needs it.

## What is proved

TLAPS proves every property of the passing runs except the three of liveness, for any
number of employees, requests, years, documents, jobs, threads, emails, accounts, rules,
entries and crashes. The assumptions are the named ones in the modules, which TLC
evaluates on every run: bounds are naturals, the values for "no row" are not rows
(`VacantIsNoRow`, `BlankIsNoRow`, `NullIsNoRow` and their like), a year has days, at least
one document type is required, the window of the chat's history is even
(`HISTORY_TURNS` is), and the sets that are counted are finite. In short: the invariant
each proof turns on, and why it is needed.

**`LeaveLedgerProofs`.** `LedgerInv`: types; every stored request belongs to an employee and
a legal account; no account is drawn beyond its grant; the counter is the sum over the
approved requests; decisions are attributed. The counter alone is not inductive: the step
that matters is a withdrawal, whose refund is clamped at zero. That the clamp swallows
nothing holds because the counter is a *sum* of which the refunded request is one term
(`TotalAtLeast`). Hence `TypeCorrect`, `CounterNeverDrifts`, `NeverOverdrawn`,
`DecisionsAttributed`, `DecisionsAreFinal` and `DaysFollowDecisions` (a counter moves with
a decision and by that request's days, or comes with its row). `EntitlementBounds` and
`CarryForwardBounds` bound the arithmetic.

**`LeaveTxnProofs`**, for any set of threads. `TxnInv` says of every open transaction what it
`Knows`: the row it read may be stale, but rows come and stay with the days they were
granted (`GrantsKept`), so the counter it is about to write fits the grant it will find.
Hence `CounterStaysWithinGrant`, `RowsSurviveRaces` and `TxnTypeCorrect`.
`SerialRefinement` is the refinement of the atomic ledger: `SerialInv` says that, as long
as no two transactions have overlapped, the open one is alone and what it has read is
current, so its commit is the atomic handler's step and everything else a stutter. With
two transactions `leave_txn_overdraw` shows what is lost.

**`DaySumsProofs`.** Changing one term of a sum changes it by as much (`TotalChange`); a sum of
naturals is at least each of its terms, and at most the bound of the terms times their
number (`TotalAtMost`). `Total` is a recursive function; its defining equation and the
induction over its length are proved from the well-ordering of the naturals.

**`OnboardingProofs`** is about the documents, the onboarding and its transactions.

* `DocInv` is type correctness, `Files` (a document is uploading, stored, or being deleted,
  in that order and never two at once) and `Attended` (a document waiting for extraction
  has a job that *will write its status*, unless one of its jobs was lost; a job that
  loaded `extracted` does not count). Hence `DocTypeCorrect`, `RowsHaveBlobs`, `NobodyIsStranded` and `DeletionIsFinal`.
* Every step of the onboarding is a step of the documents or leaves them alone, so `DocInv`
  holds there as well (`OnboardingRowsHaveBlobs`).
  `RecordsTypeCorrect` adds that a document has at most one check and that neither checks
  nor the face match outlive their documents: a check is taken out of a sequence without
  repetition before it is put back. `NoStepRewinds`, `StageRunsEngine` and
  `RulingsReachTheStage` are about the stage, set by hand to whatever HR likes. The last
  says that, until HR sets it or a document is deleted, a ruled document implies a
  stage of review or further, and all required documents approved imply tasks assigned or
  an onboarding that is over; its invariant is proved step by step over the kinds of step
  that can produce a ruling, of which `Decide` alone recalculates.
* `EngineHasRun` speaks of a stage that is stored; `EngineInv` adds what every open
  transaction is about to write: it makes no task go away, and where it takes the stage to
  "tasks assigned" it brings, or finds, every template's task (`WritesEngine`), even though
  another thread may commit or HR delete those very tasks before it commits, or it is HR's
  own `PATCH` (`handSet`). Hence
  `AssignedStageIsTrue`; with `WritesNoOldTask` and the unique constraint,
  `AssignmentIsIdempotent`.
* `ApprovalsReachTheStage`: `NoticeInv` says that, unless a ruling was committed that had not
  seen another's commit, HR has set the stage or a document was deleted, whoever is about to
  approve the last document has seen the others approved and writes the stage.
  Other transactions may overlap with it, matches and assignments and completions: what is
  excepted is the one race that `onboarding_txn_missed` exhibits. `ClosingHasAReason`: an
  open transaction that closes an item holds its
  reason (`HoldsReason`), and approvals, once given, are remembered.

**`AccountsProofs`.** The parts are proved separately; `PartsOfAccounts` says that a behaviour
of `Accounts`, which the run checks, is one of each.

* `RegistrationIsImplemented`: every step of the flow is a step of `Registration` or a
  stutter. `MailInv` makes the acceptance map to `Register`: a link, or a thread about to
  accept one, belongs to a record whose email was mailed, if the record is still there, and
  no later record takes its number.
* `SingleUse`: a link closes once and registers one account, in its time (`FlowInv`: what
  each thread still knows at its commit). That no more links are outstanding than threads
  needs an *injection* of the links into their senders (`LinksInv`, `Senders`): a resend
  revokes all but those that others have sent since it read.
* `SessionsAreEnded`: `SesInv` ties each open request to the times it read, none later than
  the clock. `GuardsHold`: `LockHolds` and, from what each tab of an administrator knows
  (`AdmInv`), `LastAdministratorStays`. `AccountsTypeCorrect` includes the unique columns.

**`NotificationsProofs`.** `InboxStaysRight`: `RowInv` of each unread notice, and of what each
open transaction has staged. That reminders do not pile beyond the number of threads needs
the sweeps that are about to add one to be counted with the rows that are there
(`unread + Sweeping <= Handlers`).

**`AssistantProofs`.** `IndexStaysRight`: `KbInv` says that the chunks of a document are those
of one ingestion, whole (`SetsAreWhole`); what each job `Knows` of the row it read and the
chunks it deleted; and that a text not in the index is on its way (`TextIsOnItsWay`): the
one that is there is the newest, or a job that has not read the row yet will bring it, or a
job that has read more than the one that made the chunks will (`SawMore`), or the chunks
are of an overtaken job. Before the read and the delete of an ingestion were told apart, the
last case was missing, and `OldTextIsReplaced` held.
`ConversationsStayRight`: an answer never has more confidence than its
best passage, escalations add up, and a window of an even number of messages, two for each
turn, has whole turns. `AssistantIsRight` composes the two.

**`ServicesProofs`.** `PartsOfServices` as for the accounts.

* `WindowSlides`, for every limit, span and lag: the window is the end of the admissions, in
  the order of the clock, and what has left it did so a whole span ago (`WindowIsRecent`);
  who was refused finds room at the time told (`PromiseIsKept`).
* `MergeKeepsTheStrictest`: `resolve_templates` gives the earliest due date and "mandatory"
  if one rule says so, proved by induction over the rules it reads, so the result depends
  on no order. `HistoryIsNotRewritten`: a task keeps what it was assigned with.
* `ChecksHold`: without a deletion that met an assignment, nobody is about to get a task of
  the template that is being deleted (`DeletionIsAlone`); a check on the calendar still
  stands for every row that no overlapping transaction had in hand (`ChecksStand`), and of
  two open transactions each knows of the other (`EditsKnowEachOther`).
* `ReadersAlwaysAgree`: the pages read so far hold every entry before the next page
  (`PagesAreRead`, over the rank of an entry); what comes after the last page is no more
  than what was committed since its count (`PageIsCounted`, `PagesHoldAll`,
  `SliceIsComplete`), and the export lacks no more without saying so (`ExportIsCounted`); the
  calendar's header agrees with its list,
  and the sums of the dashboard, taken group by group, equal what the reports count
  (`CountByKey`).
* `ServicesTypeCorrect`; and `BrowserStaysConsistent`: `RefreshIsTheUsers` ties the refresh
  in flight to the account on the page, which makes it safe to store the answer; a sign-out
  that does not wait for it (`late`) is the one way to break it.

Proving corrected the models in places that TLC's bounds did not reach. That no holiday's
name is shadowed was claimed too widely: two overlapping updates of *one* row can do it,
which takes a third name, so the run has three now. The chunks of two ingestions of the same
text by the same embedder were equal, so that an ingestion which deletes the chunks it read
would have deleted another's too; `made` tells them apart.

**Only model-checked:** liveness (`HandledIsRead`, `IngestionEnds`, `OverdueIsReminded`),
which rests on fairness and `ENABLED` and is beyond the prover; and the violations, which
are single behaviours.

## Disagreements between the code and what it says of itself

Runs that TLC violates, each with the line it contradicts in `PROJECT.json`:
`leave_txn_overdraw`, `documents_crash`, `onboarding_txn_missed`, `onboarding_txn_rewind`.

TLC showed these as well. Where a definition is named, it is in the module and shows the
violation when it is added to the run's configuration; the others were stated for the
purpose. Lines are of `backend/app` unless the path says otherwise.

Leave:

* Days carried into a new year are frozen at the first use of the new row and can
  still be spent in the old one (`services/leave.py:105`; `:7` "Up to 10 unused days carry forward").
* Two concurrent approvals leave `used_days` different from the sum of the approved
  requests (`services/leave.py:188`; `tests/test_leave.py:416` "it cannot drift").
* Two approvers who load the same pending request both decide it (`services/requests.py:320`).

Documents and onboarding:

* HR rules on a document while a reprocessing of it is queued, which then overwrites the
  ruling (`NoRulingDuringExtraction` in `DocumentPipeline`; `api/v1/verification.py:264`).
* A job whose first commit fails, or whose recording of a failure fails, leaves its document
  unread for ever without a crash (`JobDies`; `services/extraction/pipeline.py:42` "Never
  raises").
* HR's `PATCH` sets any stage by hand, also an earlier one (`api/v1/employees.py:236`; the
  repository's `README.md:281` "derived from document state rather than set by hand").
* Accepting the invitation after HR has reviewed documents takes the stage back
  (`StageNeverBackwards` in `Onboarding`; `api/v1/onboarding.py:92`; the repository's
  `README.md:281` "never move backwards").
* With an unreviewed duplicate of a required document an onboarding completes without
  its tasks (`CompleteAfterTasks`, three documents; `api/v1/verification.py:208`; `README.md:284`).
* Rejecting a document closes the checklist item that asks for it, when nothing has
  flushed the session (`ClosedByApproval`; `services/assignment.py:244`; `:228`).
* A reprocessing takes a document out of its ruled status, and the employee may then
  delete it (`api/v1/documents.py:273`; `:272` "only HR/Admin may remove it").
* Deleting the last unapproved duplicate leaves every required document approved and
  the rule engine not run (`api/v1/documents.py:292`; `README.md:327` "Triggered automatically").
* A document approved after a failed extraction has no checks, and does not block
  completion (`api/v1/verification.py:213`; `:356` "once every check has passed").
* Completion accepts the latest face match even when a newer photo or ID was uploaded
  and its extraction failed (`api/v1/verification.py:218`; `services/review.py:380` "makes
  any previous face match stale").
* Approving a document whose checklist item had been assigned before leaves the item
  open until somebody reads the list (`services/assignment.py:244`; `README.md:336` "completes itself").
* The employee can tick a checklist item whose document is only uploaded
  (`api/v1/tasks.py:532`; `README.md:337` "uploading is not approval").
* Under races: an employee's update overwrites a waiver (`api/v1/tasks.py:533` "Only HR can
  change a waived task"), a waiver overwrites a completion, and a reopened task keeps
  its completion record (`:543`).

Notifications:

* Reminders are raised for optional tasks too (`services/notifications.py:334` "open
  mandatory tasks"; the query at `:342` has no such filter).
* Two sweeps at once make two rows of one reminder (`api/v1/notifications.py:145` "does not
  get a second one"); `RemindersDoNotPile` states the bound that holds.
* An e-mail tells of an event whose transaction is rolled back (`MailsTellWhatHappened`;
  `services/notifications.py:4`).

Knowledge base and chat:

* A job that was running when a text was edited serves the old text until the next job
  has ended (`api/v1/knowledge.py:167` "so it stops being served with old embeddings");
  `OldTextIsBeingReplaced` says when. The next job may not help: an older one that read the
  old text and deletes later (`services/knowledge.py:155`) takes the new chunks with it, puts
  its own in their place and leaves the document ready (`OldTextIsReplaced`).
* An ingestion whose first commit fails, or whose recording of a failure fails, raises
  (`services/knowledge.py:137` "Never raises").
* After a crash a document stays `ingesting` and cannot be ingested again
  (`api/v1/knowledge.py:204`).
* Where retrieval fails, a greeting is escalated to HR (`GreetingsStayHere`;
  `services/chat.py:501`, `api/v1/chat.py:116`).
* An earlier question in the same words is dropped from the history with the one just
  inserted (`HistoryHasTheQuestions`; `api/v1/chat.py:105`).
* Greetings count in the average confidence (`AverageIsOfQuestions`; `api/v1/chat.py:261`).

The small services:

* `hit` never forgets a key: the test at `core/ratelimit.py:115` follows an `append` (`:113`
  "Keys go away once their window empties"). `Rule.parse` is called for each request, not
  at startup (`:62`), and a limit of zero makes `hit` raise.
* Concurrent additions can shadow a name in another spelling (`services/holidays.py:130`);
  `NamesAreNotShadowed` excepts overlapping transactions. A removed holiday still clashes,
  and the upcoming holidays of `year_summary` have an end and no beginning: asked of a
  later year it counts what is left of this one as well (`:91`).
* A template that is updated can become a checklist item without a document type, which
  `create_template` refuses (`api/v1/tasks.py:112`). `run_assignment` names the first rule
  of each template, the preview all of them. `delete_template` asks for tasks before it
  deletes and can delete a template that is being assigned (`:189`).
* While an administrator turns the pages of the audit log, an entry committed between the
  count of the last page and its query hides another one (`api/v1/audit.py:108`), and
  entries of the same time can be missed (`:113`). The same two statements let an export lack
  entries without the notice (`TruncatedIsNeverComplete`; `services/reports/datasets.py:390`
  "Never let a truncated export pass for a complete one").
* The first day of the trends is counted from this time of day on (`api/v1/dashboard.py:266`);
  "the latest state" of a document type is the last row of a query without an order
  (`services/reports/datasets.py:239`).
* In the browser, a refresh that outlives a sign-out stores its token afterwards, and one
  that fails clears the tokens of a newer sign-in (`TokensAreTheUsers` excepts `late`;
  `frontend/src/lib/api.js:102`, `:129`).

## Plan

Done, in this order: the leave ledger and its transactions; documents; the onboarding
and its transactions; invitations, sessions and administrators; notifications; the
knowledge base and the chat; rate limiter, catalogue, holidays, audit log, dashboard and
the browser's tokens; proofs of every safety property, action property and refinement
that the runs check.

Worth doing next: a composition of `Notifications` with `OnboardingTxn`, so that the events
are those of the transactions; the extracted fields of a document; a shorter form of
the longest proofs (`KbInv`, `HolInv`), whose steps repeat what one lemma about rows could say.

## Not modelled

The rows of `PROJECT.json` with status `not_modelled` name each part and why: formatting,
reading and I/O (search, rendering, e-mail); heuristics over text and images, whose
outcomes are choices here; configuration and seeds; the pages of the frontend, each of
which shows what one request answered. Of the modelled parts these are left out: the
extracted fields of a document (`correct_field`, `apply_extraction`) and the contents of
files; the columns of an employee that nothing decides on; `client_key`'s choice of an
address; the ranking of passages; the averages, the attention queue and the filters of the
reports; the browser's first paint and several tabs of it. Leap years, and handlers that
straddle midnight, are left out too.
