--------------------------- MODULE Notifications ---------------------------
(***************************************************************************)
(* In-app notifications and task reminders (services/notifications.py,     *)
(* api/v1/notifications.py). A handler stages the rows of the event it is  *)
(* part of, and they are committed, or not, together with that event; the  *)
(* e-mails go out as the rows are staged.                                  *)
(***************************************************************************)
EXTENDS Integers, FiniteSets

CONSTANTS
  Staff,       \* the HR and Admin users
  Hires,       \* the employees, and their logins
  Duties,      \* the tasks assigned to them
  LastDay,     \* bound: the days of a behaviour are 0..LastDay
  DueSoonDays, \* TASK_DUE_SOON_DAYS
  Mailing,     \* NOTIFICATION_EMAIL_ENABLED
  MaxEvents,   \* bound: events that ever happen
  Handlers,    \* the threads serving requests
  Nothing      \* no due date; no open transaction

ASSUME NotificationBounds ==
  /\ LastDay \in Nat /\ DueSoonDays \in Nat /\ MaxEvents \in Nat
  /\ Mailing \in BOOLEAN /\ Nothing \notin Int
  /\ IsFiniteSet(Handlers)

Days == 0..LastDay

EventTypes ==
  {"document_uploaded", "document_approved", "document_rejected", "tasks_assigned",
   "onboarding_complete", "invitation_accepted", "verification_failed", "chat_escalated"}

ReminderTypes == {"task_due_soon", "task_overdue"}

Emailable == {"document_rejected", "tasks_assigned", "task_overdue", "onboarding_complete"}

\* What a row says: to whom, of which type, about which employee or task.
Notices ==
  [to : Staff \cup Hires, type : EventTypes, about : Hires] \cup
  [to : Hires, type : ReminderTypes, about : Duties]

VARIABLES
  unread,     \* notice -> the unread rows that say it; a read row has no effect
  staged,     \* thread -> the event, the rows and the mark of its transaction
  happened,   \* the events committed: type and employee
  mails,      \* the e-mails sent
  active,     \* the staff whose accounts are switched on
  registered, \* the employees with a login
  duty,       \* task -> owner, due date, and whether it is open
  day         \* today_utc

ntfVars == <<unread, staged, happened, mails, active, registered, duty, day>>

NtfInit ==
  /\ unread = [n \in Notices |-> 0]
  /\ staged = [t \in Handlers |-> Nothing]
  /\ happened = {} /\ mails = {}
  /\ active = Staff
  /\ registered \in SUBSET Hires
  /\ duty \in [Duties -> [owner : Hires, due : Days \cup {Nothing}, open : {TRUE}]]
  /\ day = 0

-----------------------------------------------------------------------------
(***************************************************************************)
(* The rows each event stages.                                             *)
(***************************************************************************)

\* hr_recipients, employee_recipient
HrRecipients == active
EmployeeRecipient(e) == {e} \cap registered

Notify(users, type, about) == {[to |-> u, type |-> type, about |-> about] : u \in users}

NotifyHr(type, e, exclude) == Notify(HrRecipients \ {exclude}, type, e)

DocumentUploaded(e, actor) == NotifyHr("document_uploaded", e, actor)

DocumentDecision(e, type) == Notify(EmployeeRecipient(e), type, e)

TasksAssigned(e) == Notify(EmployeeRecipient(e), "tasks_assigned", e)

OnboardingComplete(e, actor) ==
  Notify(EmployeeRecipient(e), "onboarding_complete", e)
    \cup NotifyHr("onboarding_complete", e, actor)

InvitationAccepted(e) == NotifyHr("invitation_accepted", e, Nothing)

VerificationFailed(e) == NotifyHr("verification_failed", e, Nothing)

ChatEscalated(e) == NotifyHr("chat_escalated", e, Nothing)

\* The event and its rows; actor is who caused it.
Rows(type, e, actor) ==
  CASE type = "document_uploaded"   -> DocumentUploaded(e, actor)
    [] type \in {"document_approved", "document_rejected"} -> DocumentDecision(e, type)
    [] type = "tasks_assigned"      -> TasksAssigned(e)
    [] type = "onboarding_complete" -> OnboardingComplete(e, actor)
    [] type = "invitation_accepted" -> InvitationAccepted(e)
    [] type = "verification_failed" -> VerificationFailed(e)
    [] type = "chat_escalated"      -> ChatEscalated(e)

\* Mutant: a task is no longer swept once it is overdue.
DueBySoon(due) == due # Nothing /\ due >= day /\ due <= day + DueSoonDays

\* run_task_reminders: the open tasks due by the horizon.
DueBy(due) == due # Nothing /\ due <= day + DueSoonDays

\* Mutant: a task is overdue on its last day.
ReminderTypeEarly(due) == IF due <= day THEN "task_overdue" ELSE "task_due_soon"

ReminderType(due) == IF due < day THEN "task_overdue" ELSE "task_due_soon"

Reminders ==
  UNION {Notify(EmployeeRecipient(duty[d].owner), ReminderType(duty[d].due), d) :
           d \in {x \in Duties : duty[x].open /\ DueBy(duty[x].due)}}

\* Mutant: notify in place of notify_once.
NotifyAlways(rows) == rows

\* notify_once
NotifyOnce(rows) == {n \in rows : unread[n] = 0}

-----------------------------------------------------------------------------
(***************************************************************************)
(* The transactions.                                                       *)
(***************************************************************************)

\* notify: the row is staged; its e-mail is sent at once.
Stage(t, mark, event, rows) ==
  /\ staged[t] = Nothing
  /\ staged' = [staged EXCEPT ![t] = [mark |-> mark, event |-> event, rows |-> rows]]
  /\ mails' = mails \cup {n \in rows : Mailing /\ n.type \in Emailable}

\* Any handler that notifies. Bound: an event that has happened does not begin
\* once more.
BeginEvent(t, type, e, actor) ==
  /\ <<type, e>> \notin happened /\ Cardinality(happened) < MaxEvents
  /\ Stage(t, "event", <<type, e>>, Rows(type, e, actor))
  /\ UNCHANGED <<unread, happened, active, registered, duty, day>>

\* POST /notifications/run-reminders
BeginSweep(t) ==
  /\ Stage(t, "sweep", Nothing, NotifyOnce(Reminders))
  /\ UNCHANGED <<unread, happened, active, registered, duty, day>>

Open(t, mark) == staged[t] # Nothing /\ staged[t].mark = mark

Insert(rows) == unread' = [n \in Notices |-> IF n \in rows THEN unread[n] + 1 ELSE unread[n]]

\* Two threads may commit the same event: they act on one document, say.
CommitEvent(t) ==
  /\ Open(t, "event") /\ Cardinality(happened \cup {staged[t].event}) <= MaxEvents
  /\ Insert(staged[t].rows)
  /\ happened' = happened \cup {staged[t].event}
  /\ staged' = [staged EXCEPT ![t] = Nothing]
  /\ UNCHANGED <<mails, active, registered, duty, day>>

CommitSweep(t) ==
  /\ Open(t, "sweep")
  /\ Insert(staged[t].rows)
  /\ staged' = [staged EXCEPT ![t] = Nothing]
  /\ UNCHANGED <<happened, mails, active, registered, duty, day>>

\* Mutant: each staged row is committed by itself.
RollbackAllKeepsRows(t) ==
  /\ staged[t] # Nothing
  /\ Insert(staged[t].rows)
  /\ staged' = [staged EXCEPT ![t] = Nothing]
  /\ UNCHANGED <<happened, mails, active, registered, duty, day>>

\* An error or a crash before the commit.
RollbackAll(t) ==
  /\ staged[t] # Nothing
  /\ staged' = [staged EXCEPT ![t] = Nothing]
  /\ UNCHANGED <<unread, happened, mails, active, registered, duty, day>>

\* POST /notifications/{id}/read; DELETE /notifications/{id} of an unread one.
ReadOne(n) ==
  /\ unread[n] > 0
  /\ unread' = [unread EXCEPT ![n] = @ - 1]
  /\ UNCHANGED <<staged, happened, mails, active, registered, duty, day>>

\* POST /notifications/read-all
MarkAllRead(u) ==
  /\ \E n \in Notices : n.to = u /\ unread[n] > 0
  /\ unread' = [n \in Notices |-> IF n.to = u THEN 0 ELSE unread[n]]
  /\ UNCHANGED <<staged, happened, mails, active, registered, duty, day>>

\* PATCH /users/{id} of a member of the staff; an invitation is accepted.
SwitchStaff(u) ==
  /\ active' = IF u \in active THEN active \ {u} ELSE active \cup {u}
  /\ UNCHANGED <<unread, staged, happened, mails, registered, duty, day>>

Register(e) ==
  /\ registered' = registered \cup {e}
  /\ UNCHANGED <<unread, staged, happened, mails, active, duty, day>>

\* A task is done, waived or reopened.
SetDuty(d) ==
  /\ duty' = [duty EXCEPT ![d].open = ~ @]
  /\ UNCHANGED <<unread, staged, happened, mails, active, registered, day>>

NextDay ==
  /\ day + 1 \in Days /\ day' = day + 1
  /\ UNCHANGED <<unread, staged, happened, mails, active, registered, duty>>

NtfNext ==
  \/ \E t \in Handlers, type \in EventTypes, e \in Hires, actor \in Staff \cup Hires :
       BeginEvent(t, type, e, actor)
  \/ \E t \in Handlers : BeginSweep(t)
  \/ \E t \in Handlers : CommitEvent(t)
  \/ \E t \in Handlers : CommitSweep(t)
  \/ \E t \in Handlers : RollbackAll(t)
  \/ \E n \in Notices : ReadOne(n)
  \/ \E u \in Staff \cup Hires : MarkAllRead(u)
  \/ \E u \in Staff : SwitchStaff(u)
  \/ \E e \in Hires : Register(e)
  \/ \E d \in Duties : SetDuty(d)
  \/ NextDay

\* The scheduler calls the sweep again and again ("may call this as often as it
\* likes", notifications.py:336), every request ends, and not every sweep fails.
NtfFairness ==
  /\ SF_ntfVars(\E t \in Handlers : BeginSweep(t))
  /\ SF_ntfVars(\E t \in Handlers : CommitSweep(t))
  /\ \A t \in Handlers : WF_ntfVars(CommitEvent(t) \/ CommitSweep(t) \/ RollbackAll(t))

NtfSpec == NtfInit /\ [][NtfNext]_ntfVars /\ NtfFairness

-----------------------------------------------------------------------------
(***************************************************************************)
(* Properties.                                                             *)
(***************************************************************************)

\* Type invariant; a task is never called overdue before the day after its due
\* date.
NtfTypeOK ==
  /\ unread \in [Notices -> Nat]
  /\ mails \subseteq Notices
  /\ happened \subseteq EventTypes \X Hires
  /\ active \subseteq Staff /\ registered \subseteq Hires
  /\ \A n \in Notices : n.type = "task_overdue" /\ unread[n] > 0 => duty[n.about].due < day

\* "A notification ... must not survive a transaction that failed"
\* (notifications.py:4): every row there is says what was committed, however the
\* threads that stage it race or fail.
NotificationsTellWhatHappened ==
  \A n \in Notices :
    n.type \in EventTypes /\ unread[n] > 0 => <<n.type, n.about>> \in happened

\* A repeated sweep does not "bury everything else in the inbox"
\* (notifications.py:133): of one reminder there are never more unread rows than
\* threads that sweep at once.
RemindersDoNotPile ==
  \A n \in Notices : n.type \in ReminderTypes => unread[n] <= Cardinality(Handlers)

\* The inbox: no row too many, none untrue, and no deadline missed that has not
\* passed.
InboxIsRight == NtfTypeOK /\ NotificationsTellWhatHappened /\ RemindersDoNotPile

\* Liveness: an employee with a login is told of a task that stays overdue.
OverdueIsReminded ==
  \A d \in Duties, e \in Hires :
    LET overdue == e \in registered /\ duty[d].owner = e /\ duty[d].open
                     /\ duty[d].due # Nothing /\ duty[d].due < day
    IN  overdue ~> (unread[[to |-> e, type |-> "task_overdue", about |-> d]] > 0 \/ ~ overdue)

\* The same of the e-mails. It fails: an e-mail is sent before the commit.
MailsTellWhatHappened ==
  \A n \in mails :
    n.type \in EventTypes =>
      \/ <<n.type, n.about>> \in happened
      \/ \E t \in Handlers : Open(t, "event") /\ staged[t].event = <<n.type, n.about>>
=============================================================================
