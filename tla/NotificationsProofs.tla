------------------------ MODULE NotificationsProofs ------------------------
(***************************************************************************)
(* Proofs about Notifications, for any staff, hires, tasks, days and       *)
(* threads.                                                                *)
(***************************************************************************)
EXTENDS Notifications, FiniteSetTheorems, TLAPS

\* A reminder that a task is overdue is of a task whose last day is over.
Overdue(n) == duty[n.about].due \in Days /\ duty[n.about].due < day

RowInv(n) == n.type = "task_overdue" => Overdue(n)

\* The rows of a transaction say its event, or what the day of the sweep has
\* made true for good.
TxnInv(t) ==
  t # Nothing =>
    /\ t.mark \in {"event", "sweep"} /\ t.rows \subseteq Notices
    /\ t.mark = "event" =>
         /\ t.event \in EventTypes \X Hires
         /\ \A n \in t.rows : n.type = t.event[1] /\ n.about = t.event[2]
    /\ t.mark = "sweep" => \A n \in t.rows : n.type \in ReminderTypes /\ RowInv(n)

\* The threads that are about to insert n once more.
Sweeping(n) == {t \in Handlers : Open(t, "sweep") /\ n \in staged[t].rows}

(***************************************************************************)
(* The invariant.  A sweep stages a reminder only when none is unread, so  *)
(* the unread rows and the sweeps that have staged one are together no     *)
(* more than the threads.                                                  *)
(***************************************************************************)
NoPile ==
  \A n \in Notices : n.type \in ReminderTypes =>
    unread[n] + Cardinality(Sweeping(n)) <= Cardinality(Handlers)

DutyOK ==
  /\ day \in Days
  /\ duty \in [Duties -> [owner : Hires, due : Days \cup {Nothing}, open : BOOLEAN]]

InboxInv ==
  /\ NtfTypeOK /\ DutyOK
  /\ \A n \in Notices : unread[n] > 0 => RowInv(n)
  /\ DOMAIN staged = Handlers /\ \A t \in Handlers : TxnInv(staged[t])
  /\ NotificationsTellWhatHappened /\ NoPile

-----------------------------------------------------------------------------
LEMMA TypesAreDisjoint == \A x \in EventTypes : x \notin ReminderTypes /\ x # "task_overdue"
BY DEF EventTypes, ReminderTypes

\* What an event stages is about the employee it concerns.
LEMMA EventRows ==
  ASSUME NtfTypeOK, NEW type \in EventTypes, NEW e \in Hires, NEW actor
  PROVE  /\ Rows(type, e, actor) \subseteq Notices
         /\ \A n \in Rows(type, e, actor) : n.type = type /\ n.about = e
<1>1. ASSUME NEW users \in SUBSET (Staff \cup Hires)
      PROVE  /\ Notify(users, type, e) \subseteq Notices
             /\ \A n \in Notify(users, type, e) : n.type = type /\ n.about = e
  BY DEF Notify, Notices
<1>2. EmployeeRecipient(e) \in SUBSET (Staff \cup Hires) /\ active \in SUBSET (Staff \cup Hires)
  BY DEF NtfTypeOK, EmployeeRecipient
<1>3. ASSUME NEW x
      PROVE  /\ NotifyHr(type, e, x) \subseteq Notices
             /\ \A n \in NotifyHr(type, e, x) : n.type = type /\ n.about = e
  <2>1. HrRecipients \ {x} \in SUBSET (Staff \cup Hires)
    BY <1>2 DEF HrRecipients
  <2> QED BY <1>1, <2>1 DEF NotifyHr
<1>4. CASE type \in {"document_approved", "document_rejected", "tasks_assigned"}
  <2>1. Rows(type, e, actor) = Notify(EmployeeRecipient(e), type, e)
    BY <1>4 DEF Rows, DocumentDecision, TasksAssigned
  <2> QED BY <1>1, <1>2, <2>1
<1>5. CASE type = "onboarding_complete"
  <2>1. Rows(type, e, actor) = Notify(EmployeeRecipient(e), type, e) \cup NotifyHr(type, e, actor)
    BY <1>5 DEF Rows, OnboardingComplete
  <2>2. /\ Notify(EmployeeRecipient(e), type, e) \subseteq Notices
        /\ \A n \in Notify(EmployeeRecipient(e), type, e) : n.type = type /\ n.about = e
    BY <1>1, <1>2
  <2> QED BY <1>3, <2>1, <2>2
<1>6. CASE type \in {"document_uploaded", "invitation_accepted", "verification_failed", "chat_escalated"}
  <2>1. \E x : Rows(type, e, actor) = NotifyHr(type, e, x)
    BY <1>6 DEF Rows, DocumentUploaded, InvitationAccepted, VerificationFailed, ChatEscalated
  <2> QED BY <1>3, <2>1
<1> QED BY <1>4, <1>5, <1>6 DEF EventTypes

\* A sweep stages reminders, and says overdue of what is.
LEMMA ReminderRows ==
  ASSUME NtfTypeOK, DutyOK, NEW n \in Reminders
  PROVE  n \in Notices /\ n.type \in ReminderTypes /\ RowInv(n)
<1>1. PICK d \in Duties : /\ DueBy(duty[d].due)
                          /\ n \in Notify(EmployeeRecipient(duty[d].owner), ReminderType(duty[d].due), d)
  BY DEF Reminders
<1>2. PICK u \in EmployeeRecipient(duty[d].owner) :
        n = [to |-> u, type |-> ReminderType(duty[d].due), about |-> d]
  BY <1>1 DEF Notify
<1>3. u \in Hires
  BY <1>2 DEF EmployeeRecipient, NtfTypeOK
<1>4. ReminderType(duty[d].due) \in ReminderTypes
  BY DEF ReminderType, ReminderTypes
<1>5. n.type = ReminderType(duty[d].due) /\ n.about = d
  BY <1>2
<1>6. n \in Notices
  BY <1>2, <1>3, <1>4 DEF Notices
<1>7. duty[d].due \in Days /\ (n.type = "task_overdue" => duty[d].due < day)
  BY <1>1, <1>5 DEF DutyOK, DueBy, ReminderType
<1> QED BY <1>4, <1>5, <1>6, <1>7 DEF RowInv, Overdue

LEMMA HandlersAreFinite ==
  \A S \in SUBSET Handlers :
    /\ IsFiniteSet(S) /\ Cardinality(S) \in Nat
    /\ Cardinality(S) <= Cardinality(Handlers) /\ Cardinality(Handlers) \in Nat
BY FS_Subset, FS_CardinalityType, NotificationBounds

\* Fewer rows, and fewer sweeps that have staged one.
LEMMA PileShrinks ==
  ASSUME InboxInv, NEW n \in Notices, n.type \in ReminderTypes,
         unread'[n] \in Nat, unread'[n] <= unread[n], Sweeping(n)' \subseteq Sweeping(n)
  PROVE  unread'[n] + Cardinality(Sweeping(n)') <= Cardinality(Handlers)
<1>1. unread[n] \in Nat /\ unread[n] + Cardinality(Sweeping(n)) <= Cardinality(Handlers)
  BY DEF InboxInv, NtfTypeOK, NoPile
<1>2. PICK S, T : S = Sweeping(n) /\ T = Sweeping(n)'
  OBVIOUS
<1>3. IsFiniteSet(S) /\ Cardinality(S) \in Nat /\ Cardinality(Handlers) \in Nat
  <2>1. S \in SUBSET Handlers
    BY <1>2 DEF Sweeping
  <2> QED BY <2>1, HandlersAreFinite
<1>4. Cardinality(T) <= Cardinality(S) /\ Cardinality(T) \in Nat
  <2>1. T \in SUBSET S
    BY <1>2
  <2> QED BY <1>3, <2>1, FS_Subset, FS_CardinalityType
<1>5. unread'[n] + Cardinality(T) <= Cardinality(Handlers)
  BY <1>1, <1>2, <1>3, <1>4
<1> QED BY <1>2, <1>5

-----------------------------------------------------------------------------
(***************************************************************************)
(* The steps.                                                              *)
(***************************************************************************)
LEMMA InboxInit == NtfInit => InboxInv
<1> SUFFICES ASSUME NtfInit PROVE InboxInv
  OBVIOUS
<1>1. /\ unread = [n \in Notices |-> 0] /\ staged = [t \in Handlers |-> Nothing]
      /\ happened = {} /\ mails = {} /\ active = Staff /\ registered \in SUBSET Hires
      /\ duty \in [Duties -> [owner : Hires, due : Days \cup {Nothing}, open : {TRUE}]]
      /\ day = 0
  BY DEF NtfInit
<1>2. DutyOK
  <2>1. day \in Days
    BY <1>1, NotificationBounds DEF Days
  <2>2. [owner : Hires, due : Days \cup {Nothing}, open : {TRUE}]
          \subseteq [owner : Hires, due : Days \cup {Nothing}, open : BOOLEAN]
    OBVIOUS
  <2> HIDE DEF Days
  <2> QED BY <1>1, <2>1, <2>2 DEF DutyOK
<1>3. NtfTypeOK /\ NotificationsTellWhatHappened
  BY <1>1 DEF NtfTypeOK, NotificationsTellWhatHappened
<1>4. NoPile
  <2> SUFFICES ASSUME NEW n \in Notices
               PROVE  unread[n] + Cardinality(Sweeping(n)) <= Cardinality(Handlers)
    BY DEF NoPile
  <2>1. Sweeping(n) \in SUBSET Handlers /\ unread[n] = 0
    BY <1>1 DEF Sweeping
  <2> QED BY <2>1, HandlersAreFinite
<1> QED BY <1>1, <1>2, <1>3, <1>4 DEF InboxInv, TxnInv

\* What a row, or a transaction, says stays true.
LEMMA RowsStayTrue ==
  ASSUME InboxInv, UNCHANGED <<duty, day>>
  PROVE  /\ \A n : RowInv(n) => RowInv(n)'
         /\ \A x : TxnInv(x) => TxnInv(x)'
BY DEF RowInv, Overdue, TxnInv

\* A handler stages rows.
LEMMA StageKeeps ==
  ASSUME InboxInv, NEW t \in Handlers, NEW x, TxnInv(x), x.rows \in SUBSET Notices,
         staged' = [staged EXCEPT ![t] = x],
         mails' \subseteq mails \cup x.rows,
         x.mark = "sweep" => \A n \in x.rows : unread[n] = 0,
         UNCHANGED <<unread, happened, active, registered, duty, day>>
  PROVE  InboxInv'
<1>1. NtfTypeOK' /\ DutyOK' /\ NotificationsTellWhatHappened'
  BY DEF InboxInv, NtfTypeOK, DutyOK, NotificationsTellWhatHappened
<1>2. \A n \in Notices : unread'[n] > 0 => RowInv(n)'
  BY RowsStayTrue DEF InboxInv
<1>3. DOMAIN staged' = Handlers /\ \A k \in Handlers : staged'[k] = IF k = t THEN x ELSE staged[k]
  BY DEF InboxInv
<1>4. \A k \in Handlers : TxnInv(staged[k])'
  <2>1. \A k \in Handlers : TxnInv(staged'[k])
    BY <1>3 DEF InboxInv
  <2> QED BY <2>1 DEF TxnInv, RowInv, Overdue
<1>5. NoPile'
  <2> SUFFICES ASSUME NEW n \in Notices, n.type \in ReminderTypes
               PROVE  unread'[n] + Cardinality(Sweeping(n)') <= Cardinality(Handlers)
    BY DEF NoPile
  <2>1. CASE x.mark = "sweep" /\ n \in x.rows
    <3>1. Sweeping(n)' \in SUBSET Handlers /\ unread'[n] = 0
      BY <2>1 DEF Sweeping
    <3> HIDE DEF Sweeping
    <3> QED BY <3>1, HandlersAreFinite
  <2>2. CASE ~ (x.mark = "sweep" /\ n \in x.rows)
    <3>1. Sweeping(n)' \subseteq Sweeping(n)
      BY <1>3, <2>2 DEF Sweeping, Open
    <3>2. unread'[n] \in Nat /\ unread'[n] <= unread[n]
      BY DEF InboxInv, NtfTypeOK
    <3> QED BY <3>1, <3>2, PileShrinks
  <2> QED BY <2>1, <2>2
<1> QED BY <1>1, <1>2, <1>3, <1>4, <1>5 DEF InboxInv

\* Transactions may end; rows may be read; the staff may change.
LEMMA FewerKeeps ==
  ASSUME InboxInv, unread' \in [Notices -> Nat], \A n \in Notices : unread'[n] <= unread[n],
         DOMAIN staged' = Handlers, \A t \in Handlers : staged'[t] \in {staged[t], Nothing},
         active' \subseteq Staff, registered' \subseteq Hires,
         UNCHANGED <<happened, mails, duty, day>>
  PROVE  InboxInv'
<1>1. \A n \in Notices : unread[n] \in Nat /\ unread'[n] \in Nat /\ (unread'[n] > 0 => unread[n] > 0)
  BY DEF InboxInv, NtfTypeOK
<1>2. NtfTypeOK' /\ DutyOK' /\ NotificationsTellWhatHappened'
  BY <1>1 DEF InboxInv, NtfTypeOK, DutyOK, NotificationsTellWhatHappened
<1>3. \A n \in Notices : unread'[n] > 0 => RowInv(n)'
  BY <1>1, RowsStayTrue DEF InboxInv
<1>4. \A t \in Handlers : TxnInv(staged[t])'
  <2>1. \A t \in Handlers : TxnInv(staged'[t])
    BY DEF InboxInv, TxnInv
  <2> QED BY <2>1 DEF TxnInv, RowInv, Overdue
<1>5. NoPile'
  <2> SUFFICES ASSUME NEW n \in Notices, n.type \in ReminderTypes
               PROVE  unread'[n] + Cardinality(Sweeping(n)') <= Cardinality(Handlers)
    BY DEF NoPile
  <2>1. Sweeping(n)' \subseteq Sweeping(n)
    BY DEF Sweeping, Open
  <2> QED BY <1>1, <2>1, PileShrinks
<1> QED BY <1>2, <1>3, <1>4, <1>5 DEF InboxInv

\* A transaction commits the rows it has staged, with its event.
LEMMA CommitKeeps ==
  ASSUME InboxInv, NEW t \in Handlers, staged[t] # Nothing, Insert(staged[t].rows),
         staged' = [staged EXCEPT ![t] = Nothing],
         happened \subseteq happened', happened' \subseteq EventTypes \X Hires,
         staged[t].mark = "event" => staged[t].event \in happened',
         UNCHANGED <<mails, active, registered, duty, day>>
  PROVE  InboxInv'
<1>1. PICK x : x = staged[t] /\ TxnInv(x) /\ x # Nothing
  BY DEF InboxInv
<1>2. /\ unread' \in [Notices -> Nat]
      /\ \A n \in Notices : unread'[n] = IF n \in x.rows THEN unread[n] + 1 ELSE unread[n]
  BY <1>1 DEF Insert, InboxInv, NtfTypeOK
<1>3. DOMAIN staged' = Handlers /\ \A k \in Handlers : staged'[k] = IF k = t THEN Nothing ELSE staged[k]
  BY DEF InboxInv
<1>4. \A n \in x.rows : RowInv(n)
  BY <1>1, TypesAreDisjoint DEF TxnInv, RowInv
<1>5. \A n \in Notices : unread'[n] > 0 => RowInv(n)'
  BY <1>2, <1>4, RowsStayTrue DEF InboxInv
<1>6. NtfTypeOK' /\ DutyOK'
  <2>1. \A n \in Notices : n.type = "task_overdue" /\ unread'[n] > 0 => duty'[n.about].due < day'
    BY <1>5 DEF RowInv, Overdue
  <2> QED BY <1>2, <2>1 DEF InboxInv, NtfTypeOK, DutyOK
<1>7. \A k \in Handlers : TxnInv(staged[k])'
  <2>1. \A k \in Handlers : TxnInv(staged'[k])
    BY <1>3 DEF InboxInv, TxnInv
  <2> QED BY <2>1 DEF TxnInv, RowInv, Overdue
<1>8. ASSUME NEW n \in Notices, n.type \in EventTypes, unread'[n] > 0
      PROVE  <<n.type, n.about>> \in happened'
  <2>1. CASE n \in x.rows
    <3>1. x.mark = "event" /\ x.event \in happened' /\ x.event \in EventTypes \X Hires
          /\ n.type = x.event[1] /\ n.about = x.event[2]
      BY <1>1, <1>8, <2>1, TypesAreDisjoint DEF TxnInv
    <3> QED BY <3>1
  <2>2. CASE n \notin x.rows
    BY <1>2, <1>8, <2>2 DEF InboxInv, NotificationsTellWhatHappened
  <2> QED BY <2>1, <2>2
<1>9. NoPile'
  <2> SUFFICES ASSUME NEW n \in Notices, n.type \in ReminderTypes
               PROVE  unread'[n] + Cardinality(Sweeping(n)') <= Cardinality(Handlers)
    BY DEF NoPile
  <2>1. CASE n \in x.rows
    <3>1. PICK S : S = Sweeping(n)
      OBVIOUS
    <3>2. t \in S
      BY <1>1, <2>1, <3>1, TypesAreDisjoint DEF TxnInv, Sweeping, Open
    <3>3. Sweeping(n)' = S \ {t}
      BY <1>3, <3>1 DEF Sweeping, Open
    <3>4. S \in SUBSET Handlers
      BY <3>1 DEF Sweeping
    <3>5. Cardinality(S \ {t}) = Cardinality(S) - 1 /\ Cardinality(S) \in Nat
          /\ Cardinality(Handlers) \in Nat
      BY <3>2, <3>4, HandlersAreFinite, FS_RemoveElement
    <3>6. unread[n] \in Nat /\ unread[n] + Cardinality(S) <= Cardinality(Handlers)
      BY <3>1 DEF InboxInv, NtfTypeOK, NoPile
    <3>7. unread'[n] = unread[n] + 1
      BY <1>2, <2>1
    <3>8. unread'[n] + Cardinality(S \ {t}) <= Cardinality(Handlers)
      BY <3>5, <3>6, <3>7
    <3> QED BY <3>3, <3>8
  <2>2. CASE n \notin x.rows
    <3>1. Sweeping(n)' \subseteq Sweeping(n)
      BY <1>3 DEF Sweeping, Open
    <3>2. unread'[n] \in Nat /\ unread'[n] <= unread[n]
      BY <1>2, <2>2 DEF InboxInv, NtfTypeOK
    <3> QED BY <3>1, <3>2, PileShrinks
  <2> QED BY <2>1, <2>2
<1> QED BY <1>3, <1>5, <1>6, <1>7, <1>8, <1>9 DEF InboxInv, NotificationsTellWhatHappened

\* Days go by, and tasks are done: what is overdue has been so since.
LEMMA DaysKeep ==
  ASSUME InboxInv, DutyOK', day <= day', \A d \in Duties : duty'[d].due = duty[d].due,
         UNCHANGED <<unread, staged, happened, mails, active, registered>>
  PROVE  InboxInv'
<1>1. ASSUME NEW n \in Notices, RowInv(n) PROVE RowInv(n)'
  <2> SUFFICES ASSUME n.type = "task_overdue" PROVE Overdue(n)'
    BY DEF RowInv
  <2>1. n.about \in Duties
    BY TypesAreDisjoint DEF Notices
  <2>2. duty[n.about].due \in Days /\ duty[n.about].due < day
    BY <1>1 DEF RowInv, Overdue
  <2>3. day \in Int /\ day' \in Int /\ duty[n.about].due \in Int
    BY <2>2, NotificationBounds DEF InboxInv, DutyOK, Days
  <2>4. duty[n.about].due < day'
    BY <2>2, <2>3
  <2> QED BY <2>1, <2>2, <2>4 DEF Overdue
<1>2. ASSUME NEW x, TxnInv(x) PROVE TxnInv(x)'
  BY <1>1, <1>2 DEF TxnInv
<1>3. \A n \in Notices : unread'[n] > 0 => RowInv(n)'
  BY <1>1 DEF InboxInv
<1>4. NtfTypeOK' /\ NotificationsTellWhatHappened'
  <2>1. \A n \in Notices : n.type = "task_overdue" /\ unread'[n] > 0 => duty'[n.about].due < day'
    BY <1>3 DEF RowInv, Overdue
  <2> QED BY <2>1 DEF InboxInv, NtfTypeOK, NotificationsTellWhatHappened
<1>5. \A t \in Handlers : TxnInv(staged[t])'
  <2> SUFFICES ASSUME NEW t \in Handlers PROVE TxnInv(staged[t])'
    OBVIOUS
  <2>1. PICK x : x = staged[t] /\ TxnInv(x)
    BY DEF InboxInv
  <2> QED BY <1>2, <2>1
<1>6. NoPile'
  BY DEF InboxInv, NoPile, Sweeping, Open
<1> QED BY <1>3, <1>4, <1>5, <1>6 DEF InboxInv

LEMMA InboxStep == InboxInv /\ [NtfNext]_ntfVars => InboxInv'
<1> SUFFICES ASSUME InboxInv, [NtfNext]_ntfVars PROVE InboxInv'
  OBVIOUS
<1>1. ASSUME NEW t \in Handlers, NEW type \in EventTypes, NEW e \in Hires, NEW actor,
             BeginEvent(t, type, e, actor)
      PROVE  InboxInv'
  <2>1. PICK rows : rows = Rows(type, e, actor)
    OBVIOUS
  <2>2. PICK x : x = [mark |-> "event", event |-> <<type, e>>, rows |-> rows]
    OBVIOUS
  <2>3. rows \subseteq Notices /\ \A n \in rows : n.type = type /\ n.about = e
    BY <2>1, EventRows DEF InboxInv
  <2>4. TxnInv(x) /\ x.rows = rows /\ x.mark = "event"
    BY <2>2, <2>3 DEF TxnInv
  <2>5. /\ staged' = [staged EXCEPT ![t] = x] /\ mails' \subseteq mails \cup rows
        /\ UNCHANGED <<unread, happened, active, registered, duty, day>>
    BY <1>1, <2>1, <2>2 DEF BeginEvent, Stage
  <2> QED BY <2>3, <2>4, <2>5, StageKeeps
<1>2. ASSUME NEW t \in Handlers, BeginSweep(t) PROVE InboxInv'
  <2>1. PICK rows : rows = NotifyOnce(Reminders)
    OBVIOUS
  <2>2. PICK x : x = [mark |-> "sweep", event |-> Nothing, rows |-> rows]
    OBVIOUS
  <2>3. \A n \in rows : n \in Notices /\ n.type \in ReminderTypes /\ RowInv(n) /\ unread[n] = 0
    BY <2>1, ReminderRows DEF NotifyOnce, InboxInv
  <2>4. TxnInv(x) /\ x.rows = rows /\ x.mark = "sweep"
    BY <2>2, <2>3 DEF TxnInv
  <2>5. /\ staged' = [staged EXCEPT ![t] = x] /\ mails' \subseteq mails \cup rows
        /\ UNCHANGED <<unread, happened, active, registered, duty, day>>
    BY <1>2, <2>1, <2>2 DEF BeginSweep, Stage
  <2> QED BY <2>3, <2>4, <2>5, StageKeeps
<1>3. ASSUME NEW t \in Handlers, CommitEvent(t) PROVE InboxInv'
  <2>1. staged[t] # Nothing /\ staged[t].mark = "event" /\ TxnInv(staged[t])
        /\ happened' = happened \cup {staged[t].event}
    BY <1>3 DEF CommitEvent, Open, InboxInv
  <2>2. happened' \subseteq EventTypes \X Hires
    BY <2>1 DEF TxnInv, InboxInv, NtfTypeOK
  <2> QED BY <1>3, <2>1, <2>2, CommitKeeps DEF CommitEvent
<1>4. ASSUME NEW t \in Handlers, CommitSweep(t) PROVE InboxInv'
  <2>1. staged[t] # Nothing /\ staged[t].mark = "sweep" /\ happened' = happened
    BY <1>4 DEF CommitSweep, Open
  <2>2. happened' \subseteq EventTypes \X Hires
    BY <2>1 DEF InboxInv, NtfTypeOK
  <2> QED BY <1>4, <2>1, <2>2, CommitKeeps DEF CommitSweep
<1>5. ASSUME NEW t \in Handlers, RollbackAll(t) PROVE InboxInv'
  BY <1>5, FewerKeeps DEF RollbackAll, InboxInv, NtfTypeOK
<1>6. ASSUME NEW n \in Notices, ReadOne(n) PROVE InboxInv'
  <2>1. /\ \A m \in Notices : unread[m] \in Nat
        /\ unread' = [unread EXCEPT ![n] = unread[n] - 1] /\ unread[n] > 0
        /\ UNCHANGED <<staged, happened, mails, active, registered, duty, day>>
    BY <1>6 DEF ReadOne, InboxInv, NtfTypeOK
  <2>2. unread' \in [Notices -> Nat] /\ \A m \in Notices : unread'[m] <= unread[m]
    BY <2>1 DEF InboxInv, NtfTypeOK
  <2> QED BY <2>1, <2>2, FewerKeeps DEF InboxInv, NtfTypeOK
<1>7. ASSUME NEW u, MarkAllRead(u) PROVE InboxInv'
  <2>1. /\ \A m \in Notices : unread[m] \in Nat
        /\ unread' = [n \in Notices |-> IF n.to = u THEN 0 ELSE unread[n]]
        /\ UNCHANGED <<staged, happened, mails, active, registered, duty, day>>
    BY <1>7 DEF MarkAllRead, InboxInv, NtfTypeOK
  <2>2. unread' \in [Notices -> Nat] /\ \A m \in Notices : unread'[m] <= unread[m]
    BY <2>1
  <2> QED BY <2>1, <2>2, FewerKeeps DEF InboxInv, NtfTypeOK
<1>8. ASSUME UNCHANGED <<unread, staged, happened, mails, duty, day>>,
             active' \subseteq Staff, registered' \subseteq Hires
      PROVE  InboxInv'
  BY <1>8, FewerKeeps DEF InboxInv, NtfTypeOK
<1>9. ASSUME NEW u \in Staff, SwitchStaff(u) PROVE InboxInv'
  BY <1>8, <1>9 DEF SwitchStaff, InboxInv, NtfTypeOK
<1>10. ASSUME NEW e \in Hires, Register(e) PROVE InboxInv'
  BY <1>8, <1>10 DEF Register, InboxInv, NtfTypeOK
<1>11. ASSUME NEW d \in Duties, SetDuty(d) PROVE InboxInv'
  <2>1. /\ duty' = [duty EXCEPT ![d].open = ~ duty[d].open]
        /\ UNCHANGED <<unread, staged, happened, mails, active, registered, day>>
    BY <1>11 DEF SetDuty
  <2>2. DutyOK
    BY DEF InboxInv
  <2>3. /\ [duty[d] EXCEPT !.open = ~ duty[d].open]
             \in [owner : Hires, due : Days \cup {Nothing}, open : BOOLEAN]
        /\ [duty[d] EXCEPT !.open = ~ duty[d].open].due = duty[d].due
    BY <2>2 DEF DutyOK
  <2>4. DutyOK' /\ \A x \in Duties : duty'[x].due = duty[x].due
    BY <2>1, <2>2, <2>3 DEF DutyOK
  <2>5. day <= day'
    BY <2>1, <2>2, NotificationBounds DEF DutyOK, Days
  <2> QED BY <2>1, <2>4, <2>5, DaysKeep
<1>12. CASE NextDay
  <2>1. /\ day' = day + 1 /\ day' \in Days
        /\ UNCHANGED <<unread, staged, happened, mails, active, registered, duty>>
    BY <1>12 DEF NextDay
  <2>2. DutyOK' /\ day <= day'
    BY <2>1, NotificationBounds DEF InboxInv, DutyOK, Days
  <2> QED BY <2>1, <2>2, DaysKeep
<1>13. CASE UNCHANGED ntfVars
  BY <1>8, <1>13 DEF ntfVars, InboxInv, NtfTypeOK
<1> QED BY <1>1, <1>2, <1>3, <1>4, <1>5, <1>6, <1>7, <1>9, <1>10, <1>11, <1>12, <1>13 DEF NtfNext

-----------------------------------------------------------------------------
\* Whatever threads stage, commit and roll back, and whatever is read or done
\* meanwhile: each unread row says what was committed, no task is called overdue
\* before it is, and of one reminder there are no more rows than threads.
THEOREM InboxStaysRight == NtfSpec => []InboxIsRight
<1>1. InboxInv => InboxIsRight
  <2> SUFFICES ASSUME InboxInv PROVE RemindersDoNotPile
    BY DEF InboxInv, InboxIsRight
  <2> SUFFICES ASSUME NEW n \in Notices, n.type \in ReminderTypes
               PROVE  unread[n] <= Cardinality(Handlers)
    BY DEF RemindersDoNotPile
  <2>1. PICK k : k = Cardinality(Sweeping(n)) /\ k \in Nat /\ Cardinality(Handlers) \in Nat
    <3>1. Sweeping(n) \in SUBSET Handlers
      BY DEF Sweeping
    <3> QED BY <3>1, HandlersAreFinite
  <2>2. unread[n] \in Nat /\ unread[n] + k <= Cardinality(Handlers)
    BY <2>1 DEF InboxInv, NtfTypeOK, NoPile
  <2> QED BY <2>1, <2>2
<1> QED BY <1>1, InboxInit, InboxStep, PTL DEF NtfSpec
=============================================================================
