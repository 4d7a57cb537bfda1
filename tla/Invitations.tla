---------------------------- MODULE Invitations ----------------------------
(***************************************************************************)
(* Employee records, their invitations and the accounts made from them     *)
(* (api/v1/employees.py, api/v1/onboarding.py, services/invitation.py), as *)
(* transactions of concurrent threads: a handler reads the rows it decides *)
(* on, and commits UPDATEs by primary key and INSERTs that a unique or a   *)
(* foreign key may refuse. An UPDATE of a deleted row fails as well.       *)
(***************************************************************************)
EXTENDS Integers, FiniteSets

CONSTANTS
  Emails,       \* the work emails HR uses
  MaxRecords,   \* bound: employee records ever created
  MaxInvites,   \* bound: invitations ever sent
  InviteTime,   \* bound: the last tick of the clock
  InviteLife,   \* INVITE_TOKEN_EXPIRE_HOURS, in ticks
  Clerks,       \* the threads serving requests
  Gone          \* no row; no time

ASSUME InvitationBounds ==
  /\ MaxRecords \in Nat /\ MaxInvites \in Nat /\ InviteTime \in Nat
  /\ InviteLife \in Nat \ {0}
  /\ IsFiniteSet(Clerks)
  /\ Gone \notin Int

Records == 1..MaxRecords
Links == 1..MaxInvites
LinkStatuses == {"pending", "accepted", "expired", "revoked"}
Times == 0..InviteTime

EmployeeRows == [email : Emails, code : Nat, linked : BOOLEAN]
LinkRows ==
  [of : Records, status : LinkStatuses, expires : Nat,
   accepted : Times \cup {Gone}, revoked : Times \cup {Gone}]

ASSUME GoneAssumption == Gone \notin EmployeeRows /\ Gone \notin LinkRows

VARIABLES
  employee,     \* record -> row or Gone
  invite,       \* link -> row or Gone
  created, sent,  \* records and links ever made
  accounts,     \* the emails of the users made from invitations
  mailed,       \* the emails a link was ever sent to
  hour,         \* the clock
  clerk         \* thread -> its open transaction

invVars == <<employee, invite, created, sent, accounts, mailed, hour, clerk>>

Free == [op |-> "free"]

Exists(r) == r \in Records /\ employee[r] # Gone

Pending(r) == {i \in Links : invite[i] # Gone /\ invite[i].of = r /\ invite[i].status = "pending"}

\* generate_employee_code: from the row count, the first code not in use.
FreshCode ==
  LET taken == {employee[r].code : r \in {s \in Records : Exists(s)}}
      count == Cardinality({r \in Records : Exists(r)})
  IN  CHOOSE c \in count + 1 .. count + 1 + MaxRecords :
        c \notin taken /\ \A b \in count + 1 .. c - 1 : b \in taken

-----------------------------------------------------------------------------
InvInit ==
  /\ employee = [r \in Records |-> Gone]
  /\ invite = [i \in Links |-> Gone]
  /\ created = 0 /\ sent = 0
  /\ accounts = {} /\ mailed = {}
  /\ hour = 0
  /\ clerk = [h \in Clerks |-> Free]

(***************************************************************************)
(* The reads: the record r or the email, the links the decision is on.     *)
(***************************************************************************)
Read(h, t) ==
  /\ clerk[h] = Free
  /\ clerk' = [clerk EXCEPT ![h] = t]
  /\ UNCHANGED <<employee, invite, created, sent, accounts, mailed, hour>>

\* POST /employees, with or without send_invite.
ReadCreate(h, email, send) ==
  /\ email \notin accounts
  /\ \A r \in Records : Exists(r) => employee[r].email # email
  /\ Read(h, [op |-> "create", email |-> email, code |-> FreshCode, send |-> send])

\* POST /employees/{id}/invite
ReadResend(h, r) ==
  /\ Exists(r) /\ ~ employee[r].linked
  /\ Read(h, [op |-> "resend", of |-> r, links |-> Pending(r)])

\* POST /employees/{id}/invite/revoke
ReadRevoke(h, r) ==
  /\ Exists(r) /\ Pending(r) # {}
  /\ Read(h, [op |-> "revoke", of |-> r, links |-> Pending(r)])

\* expire_stale_invitations, and the same check of a single link.
ReadExpired(h, r) ==
  /\ Exists(r)
  /\ \E links \in {Pending(r)} \cup {{i} : i \in Pending(r)} :
       LET late == {i \in links : invite[i].expires <= hour}
       IN  late # {} /\ Read(h, [op |-> "expire", of |-> r, links |-> late])

\* Mutant: the status of the link is not looked at.
ReadAcceptAny(h, i) ==
  /\ invite[i] # Gone
  /\ invite[i].expires > hour
  /\ LET r == invite[i].of
     IN  /\ Exists(r) /\ ~ employee[r].linked /\ employee[r].email \notin accounts
         /\ Read(h, [op |-> "accept", of |-> r, links |-> {i}])

\* POST /onboarding/accept: _resolve_invitation and the two account checks.
ReadAccept(h, i) ==
  /\ invite[i] # Gone /\ invite[i].status = "pending"
  /\ invite[i].expires > hour
  /\ LET r == invite[i].of
     IN  /\ Exists(r) /\ ~ employee[r].linked /\ employee[r].email \notin accounts
         /\ Read(h, [op |-> "accept", of |-> r, links |-> {i}])

-----------------------------------------------------------------------------
(***************************************************************************)
(* The commits.                                                            *)
(***************************************************************************)
Holds(h, op) == clerk[h].op = op

Done(h) == clerk' = [clerk EXCEPT ![h] = Free]

NewLink(r) ==
  [of |-> r, status |-> "pending", expires |-> hour + InviteLife,
   accepted |-> Gone, revoked |-> Gone]

\* The links a handler has read, with the status it gives them.
Closed(links, status) ==
  [i \in Links |->
     IF i \notin links THEN invite[i]
     ELSE CASE status = "revoked"  -> [invite[i] EXCEPT !.status = status, !.revoked = hour]
            [] status = "accepted" -> [invite[i] EXCEPT !.status = status, !.accepted = hour]
            [] OTHER               -> [invite[i] EXCEPT !.status = status]]

RowsRemain(t) == Exists(t.of) /\ \A i \in t.links : invite[i] # Gone

\* Mutant: the code is not unique.
CreateConflictEmail(t) ==
  \E r \in Records : Exists(r) /\ employee[r].email = t.email

CreateConflict(t) ==
  \E r \in Records : Exists(r) /\ (employee[r].email = t.email \/ employee[r].code = t.code)

CommitCreate(h) ==
  LET t == clerk[h]
      r == created + 1
  IN  /\ Holds(h, "create")
      /\ r \in Records /\ ~ CreateConflict(t)
      /\ created' = r
      /\ employee' = [employee EXCEPT ![r] = [email |-> t.email, code |-> t.code, linked |-> FALSE]]
      /\ IF t.send
         THEN /\ sent + 1 \in Links
              /\ sent' = sent + 1
              /\ invite' = [invite EXCEPT ![sent + 1] = NewLink(r)]
              /\ mailed' = mailed \cup {t.email}
         ELSE UNCHANGED <<sent, invite, mailed>>
      /\ Done(h)
      /\ UNCHANGED <<accounts, hour>>

\* Mutant: the earlier links stay good.
CommitResendAlone(h) ==
  /\ Holds(h, "resend")
  /\ RowsRemain(clerk[h]) /\ sent + 1 \in Links
  /\ sent' = sent + 1
  /\ invite' = [invite EXCEPT ![sent + 1] = NewLink(clerk[h].of)]
  /\ mailed' = mailed \cup {employee[clerk[h].of].email}
  /\ Done(h)
  /\ UNCHANGED <<employee, created, accounts, hour>>

CommitResend(h) ==
  LET t == clerk[h]
  IN  /\ Holds(h, "resend")
      /\ RowsRemain(t) /\ sent + 1 \in Links
      /\ sent' = sent + 1
      /\ invite' = [Closed(t.links, "revoked") EXCEPT ![sent + 1] = NewLink(t.of)]
      /\ mailed' = mailed \cup {employee[t.of].email}
      /\ Done(h)
      /\ UNCHANGED <<employee, created, accounts, hour>>

CommitClose(h) ==
  LET t == clerk[h]
  IN  /\ Holds(h, "revoke") \/ Holds(h, "expire")
      /\ RowsRemain(t)
      /\ invite' = Closed(t.links, IF Holds(h, "revoke") THEN "revoked" ELSE "expired")
      /\ Done(h)
      /\ UNCHANGED <<employee, created, sent, accounts, mailed, hour>>

\* Mutant: users.email is not unique.
CommitAcceptAgain(h) ==
  LET t == clerk[h]
  IN  /\ Holds(h, "accept")
      /\ RowsRemain(t)
      /\ accounts' = accounts \cup {employee[t.of].email}
      /\ employee' = [employee EXCEPT ![t.of].linked = TRUE]
      /\ invite' = Closed(t.links, "accepted")
      /\ Done(h)
      /\ UNCHANGED <<created, sent, mailed, hour>>

\* Mutant: the account takes the email of the form, not of the record.
CommitAcceptOrphan(h) ==
  LET t == clerk[h]
  IN  /\ Holds(h, "accept")
      /\ \E email \in Emails \ accounts : accounts' = accounts \cup {email}
      /\ UNCHANGED <<employee, invite>>
      /\ Done(h)
      /\ UNCHANGED <<created, sent, mailed, hour>>

CommitAccept(h) ==
  LET t == clerk[h]
  IN  /\ Holds(h, "accept")
      /\ RowsRemain(t) /\ employee[t.of].email \notin accounts
      /\ accounts' = accounts \cup {employee[t.of].email}
      /\ employee' = [employee EXCEPT ![t.of].linked = TRUE]
      /\ invite' = Closed(t.links, "accepted")
      /\ Done(h)
      /\ UNCHANGED <<created, sent, mailed, hour>>

\* A refused constraint, a missing row or a crash: nothing of it remains.
Abandon(h) ==
  /\ clerk[h] # Free
  /\ Done(h)
  /\ UNCHANGED <<employee, invite, created, sent, accounts, mailed, hour>>

\* Mutant: the invitations stay.
DeleteEmployeeOnly(r) ==
  /\ Exists(r)
  /\ employee' = [employee EXCEPT ![r] = Gone]
  /\ UNCHANGED <<invite, created, sent, accounts, mailed, hour, clerk>>

\* DELETE /employees/{id}. Its invitations go with it; the account stays.
DeleteEmployee(r) ==
  /\ Exists(r)
  /\ employee' = [employee EXCEPT ![r] = Gone]
  /\ invite' = [i \in Links |-> IF invite[i] # Gone /\ invite[i].of = r THEN Gone ELSE invite[i]]
  /\ UNCHANGED <<created, sent, accounts, mailed, hour, clerk>>

\* Bound: a tick of the clock is longer than any handler.
HourPasses ==
  /\ hour + 1 \in Times /\ \A h \in Clerks : clerk[h] = Free
  /\ hour' = hour + 1
  /\ UNCHANGED <<employee, invite, created, sent, accounts, mailed, clerk>>

InvNext ==
  \/ \E h \in Clerks, email \in Emails, send \in BOOLEAN : ReadCreate(h, email, send)
  \/ \E h \in Clerks, r \in Records : ReadResend(h, r)
  \/ \E h \in Clerks, r \in Records : ReadRevoke(h, r)
  \/ \E h \in Clerks, r \in Records : ReadExpired(h, r)
  \/ \E h \in Clerks, i \in Links : ReadAccept(h, i)
  \/ \E h \in Clerks : CommitCreate(h)
  \/ \E h \in Clerks : CommitResend(h)
  \/ \E h \in Clerks : CommitClose(h)
  \/ \E h \in Clerks : CommitAccept(h)
  \/ \E h \in Clerks : Abandon(h)
  \/ \E r \in Records : DeleteEmployee(r)
  \/ HourPasses

InvSpec == InvInit /\ [][InvNext]_invVars

-----------------------------------------------------------------------------
(***************************************************************************)
(* Properties.                                                             *)
(***************************************************************************)

\* Type invariant; a link is the link of a record that is there, although a
\* deletion may overtake the handler that makes it.
InvTypeOK ==
  /\ employee \in [Records -> EmployeeRows \cup {Gone}]
  /\ invite \in [Links -> LinkRows \cup {Gone}]
  /\ \A i \in Links : invite[i] # Gone => Exists(invite[i].of)
  /\ created \in 0..MaxRecords /\ sent \in 0..MaxInvites
  /\ accounts \subseteq Emails /\ mailed \subseteq Emails
  /\ hour \in Times

\* No two records share an email or a code, although both are looked up and
\* the code is counted from rows that another thread may be adding to.
RecordsDistinct ==
  \A r, s \in Records :
    Exists(r) /\ Exists(s) /\ r # s =>
      employee[r].email # employee[s].email /\ employee[r].code # employee[s].code

\* However acceptances race, a record is registered by one link at most, and
\* one that was accepted has an account.
RegisteredOnce ==
  \A i \in Links :
    invite[i] # Gone /\ invite[i].accepted # Gone =>
      /\ employee[invite[i].of].linked /\ employee[invite[i].of].email \in accounts
      /\ \A k \in Links \ {i} :
           invite[k] # Gone /\ invite[k].of = invite[i].of => invite[k].accepted = Gone

\* A link is accepted before it expires, and one that was also revoked was
\* revoked by a handler running at that very moment.
LinksCloseOnce ==
  \A i \in Links :
    invite[i] # Gone /\ invite[i].accepted # Gone =>
      /\ invite[i].accepted < invite[i].expires
      /\ invite[i].revoked \in {Gone, invite[i].accepted}

\* "Revoke any outstanding invite and issue a fresh one"
\* (services/invitation.py:49): handlers that race leave no more links
\* outstanding than there are of them.
FewLinksOutstanding ==
  \A r \in Records : Cardinality(Pending(r)) <= Cardinality(Clerks)

\* The flow implements Registration: nobody registers uninvited, or twice.
Reg == INSTANCE Registration WITH
         People <- Emails, invited <- mailed, registered <- accounts

ImplementsRegistration == Reg!RegSpec
=============================================================================
