--------------------------- MODULE AccountsProofs ---------------------------
(***************************************************************************)
(* Proofs about Invitations, Sessions and Administrators, for any emails,  *)
(* threads and bounds.                                                     *)
(***************************************************************************)
EXTENDS Accounts, FiniteSetTheorems, WellFoundedInduction, TLAPS

\* A row has its columns: an update of one keeps the others.
EmployeeColumns(x) == x = [email |-> x.email, code |-> x.code, linked |-> x.linked]

LinkColumns(x) ==
  x = [of |-> x.of, status |-> x.status, expires |-> x.expires,
       accepted |-> x.accepted, revoked |-> x.revoked]

Mailed(r) == employee[r].email \in mailed

RowsInv ==
  /\ DOMAIN employee = Records /\ DOMAIN invite = Links
  /\ created \in Nat /\ sent \in Nat
  /\ \A r \in Records : Exists(r) =>
       r <= created /\ employee[r].email \in Emails /\ EmployeeColumns(employee[r])
  /\ \A i \in Links : invite[i] # Gone => LinkColumns(invite[i])

\* The record of a transaction is one that was there: none that comes later has
\* its number, with another email.
ClerkInv(h) ==
  /\ clerk[h].op = "create" => clerk[h].email \in Emails
  /\ clerk[h].op = "accept" =>
       /\ clerk[h].of \in Records /\ clerk[h].of <= created
       /\ Exists(clerk[h].of) => Mailed(clerk[h].of)

LinkInv(i) ==
  invite[i] # Gone =>
    /\ invite[i].of \in Records /\ invite[i].of <= created
    /\ Exists(invite[i].of) => Mailed(invite[i].of)

(***************************************************************************)
(* The invariant: where there is a link, or somebody about to accept one,  *)
(* the record has been mailed, if it has not been deleted since.           *)
(***************************************************************************)
MailInv ==
  /\ RowsInv
  /\ DOMAIN clerk = Clerks /\ \A h \in Clerks : ClerkInv(h)
  /\ \A i \in Links : LinkInv(i)

-----------------------------------------------------------------------------
LEMMA MailInit == InvInit => MailInv
BY DEF InvInit, MailInv, LinkInv, RowsInv, ClerkInv, Exists, Free, Records, Links

\* A thread that reads changes nothing but its own transaction.
LEMMA ReadKeeps ==
  ASSUME MailInv, NEW h \in Clerks, NEW t, Read(h, t),
         t.op = "create" => t.email \in Emails,
         t.op = "accept" =>
           t.of \in Records /\ t.of <= created /\ (Exists(t.of) => Mailed(t.of))
  PROVE  MailInv'
<1>1. UNCHANGED <<employee, invite, created, sent, mailed>> /\ clerk' = [clerk EXCEPT ![h] = t]
  BY DEF Read
<1>2. \A k \in Clerks : ClerkInv(k)'
  BY <1>1 DEF MailInv, ClerkInv, Exists, Mailed
<1> QED BY <1>1, <1>2 DEF MailInv, LinkInv, RowsInv, Exists, Mailed

\* A commit keeps the other transactions if it makes no record that is known,
\* and takes no mail back.
LEMMA ClerksKeep ==
  ASSUME MailInv, NEW h \in Clerks, Done(h), mailed \subseteq mailed', created' >= created,
         created' \in Nat,
         \A r \in Records : r <= created /\ Exists(r)' =>
           Exists(r) /\ employee'[r].email = employee[r].email
  PROVE  DOMAIN clerk' = Clerks /\ \A k \in Clerks : ClerkInv(k)'
<1>1. DOMAIN clerk' = Clerks /\ clerk'[h].op = "free" /\ \A k \in Clerks \ {h} : clerk'[k] = clerk[k]
  BY DEF Done, Free, MailInv
<1>2. ASSUME NEW k \in Clerks, k # h PROVE ClerkInv(k)'
  <2>1. clerk'[k] = clerk[k] /\ ClerkInv(k)
    BY <1>1, <1>2 DEF MailInv
  <2>2. ASSUME clerk[k].op = "accept"
        PROVE  /\ clerk[k].of \in Records /\ clerk[k].of <= created'
               /\ Exists(clerk[k].of)' => Mailed(clerk[k].of)'
    <3>1. clerk[k].of \in Records /\ clerk[k].of <= created /\ created \in Nat
      BY <2>1, <2>2 DEF ClerkInv, MailInv, RowsInv
    <3>2. clerk[k].of <= created'
      BY <3>1, InvitationBounds DEF Records
    <3> QED BY <2>1, <2>2, <3>1, <3>2 DEF ClerkInv, Mailed
  <2> QED BY <2>1, <2>2 DEF ClerkInv
<1>3. ClerkInv(h)'
  BY <1>1 DEF ClerkInv
<1> QED BY <1>1, <1>2, <1>3

LEMMA CreateKeeps ==
  ASSUME MailInv, NEW h \in Clerks, CommitCreate(h)
  PROVE  MailInv'
<1> DEFINE r == created + 1
           row == [email |-> clerk[h].email, code |-> clerk[h].code, linked |-> FALSE]
<1>1. /\ r \in Records /\ created' = r /\ employee' = [employee EXCEPT ![r] = row]
      /\ clerk[h].op = "create" /\ Done(h)
  BY DEF CommitCreate, Holds
<1>2. row.email \in Emails /\ EmployeeColumns(row)
  BY <1>1 DEF MailInv, ClerkInv, EmployeeColumns
<1>3. \/ UNCHANGED <<sent, invite, mailed>>
      \/ /\ sent + 1 \in Links /\ sent' = sent + 1
         /\ invite' = [invite EXCEPT ![sent + 1] = NewLink(r)]
         /\ mailed' = mailed \cup {row.email}
  BY DEF CommitCreate
<1>4. created \in Nat /\ ~ (r <= created) /\ created' \in Nat /\ sent \in Nat
  BY <1>1 DEF MailInv, RowsInv
<1> HIDE DEF row
<1>5. \A s \in Records : s <= created => employee'[s] = employee[s]
  BY <1>1, <1>4 DEF MailInv, RowsInv
<1>6. LinkColumns(NewLink(r)) /\ NewLink(r).of = r
  BY DEF LinkColumns, NewLink
<1> HIDE DEF r
<1>7. RowsInv'
  BY <1>1, <1>2, <1>3, <1>4, <1>6 DEF MailInv, RowsInv, Exists
<1>8. DOMAIN clerk' = Clerks /\ \A k \in Clerks : ClerkInv(k)'
  BY <1>1, <1>3, <1>4, <1>5, ClerksKeep DEF Exists, r
<1>9. ASSUME NEW i \in Links, invite'[i] # Gone PROVE LinkInv(i)'
  <2>1. CASE invite'[i] = invite[i]
    <3>1. invite[i].of \in Records /\ invite[i].of <= created
      BY <1>9, <2>1 DEF MailInv, LinkInv
    <3>2. invite[i].of <= created'
      BY <1>1, <1>4, <3>1, InvitationBounds DEF Records, r
    <3>3. Exists(invite[i].of) => Mailed(invite[i].of)
      BY <1>9, <2>1 DEF MailInv, LinkInv
    <3>4. mailed \subseteq mailed'
      BY <1>3
    <3> QED BY <1>5, <2>1, <3>1, <3>2, <3>3, <3>4 DEF LinkInv, Exists, Mailed
  <2>2. CASE invite'[i] # invite[i]
    <3>1. invite'[i] = NewLink(r) /\ mailed' = mailed \cup {row.email}
      BY <1>3, <2>2 DEF MailInv, RowsInv
    <3>2. employee'[r] = row
      BY <1>1 DEF MailInv, RowsInv
    <3> QED BY <1>1, <1>4, <1>6, <3>1, <3>2 DEF LinkInv, Mailed, r
  <2> QED BY <2>1, <2>2
<1> QED BY <1>7, <1>8, <1>9 DEF MailInv, LinkInv

\* Closing links leaves them the links of their records.
LEMMA ClosedLinks ==
  ASSUME MailInv, NEW S, NEW status, NEW i \in Links, Closed(S, status)[i] # Gone,
         \A k \in S : invite[k] # Gone
  PROVE  /\ invite[i] # Gone /\ Closed(S, status)[i].of = invite[i].of
         /\ LinkColumns(Closed(S, status)[i])
<1>1. CASE i \notin S
  BY <1>1 DEF Closed, MailInv, RowsInv
<1>2. CASE i \in S
  <2>1. LinkColumns(invite[i])
    BY <1>2 DEF MailInv, RowsInv
  <2>2. CASE status = "revoked"
    BY <1>2, <2>1, <2>2 DEF Closed, LinkColumns
  <2>3. CASE status = "accepted"
    BY <1>2, <2>1, <2>3 DEF Closed, LinkColumns
  <2>4. CASE status \notin {"revoked", "accepted"}
    BY <1>2, <2>1, <2>4 DEF Closed, LinkColumns
  <2> QED BY <1>2, <2>2, <2>3, <2>4
<1> QED BY <1>1, <1>2

\* The commits of what is done to the links of a record that is there.
LEMMA LinksKeep ==
  ASSUME MailInv, NEW h \in Clerks, Done(h), mailed \subseteq mailed',
         UNCHANGED created, sent' \in Nat, DOMAIN invite' = Links, DOMAIN employee' = Records,
         \A r \in Records : Exists(r)' =>
           /\ Exists(r) /\ employee'[r].email = employee[r].email
           /\ EmployeeColumns(employee'[r]),
         \A i \in Links : invite'[i] # Gone =>
           /\ LinkColumns(invite'[i])
           /\ \/ invite[i] # Gone /\ invite'[i].of = invite[i].of
              \/ Exists(invite'[i].of) /\ employee[invite'[i].of].email \in mailed'
  PROVE  MailInv'
<1>1. RowsInv'
  BY DEF MailInv, RowsInv
<1>2. DOMAIN clerk' = Clerks /\ \A k \in Clerks : ClerkInv(k)'
  BY ClerksKeep DEF MailInv, RowsInv
<1>3. ASSUME NEW i \in Links, invite'[i] # Gone PROVE LinkInv(i)'
  BY <1>3 DEF MailInv, LinkInv, RowsInv, Exists, Mailed
<1> QED BY <1>1, <1>2, <1>3 DEF MailInv, LinkInv

LEMMA ResendKeeps ==
  ASSUME MailInv, NEW h \in Clerks, CommitResend(h)
  PROVE  MailInv'
<1> DEFINE t == clerk[h]
           r == clerk[h].of
<1>1. /\ Exists(r) /\ \A i \in t.links : invite[i] # Gone
      /\ sent + 1 \in Links /\ sent' = sent + 1
      /\ invite' = [Closed(t.links, "revoked") EXCEPT ![sent + 1] = NewLink(r)]
      /\ mailed' = mailed \cup {employee[r].email}
      /\ Done(h) /\ UNCHANGED <<employee, created>>
  BY DEF CommitResend, RowsRemain
<1>2. LinkColumns(NewLink(r)) /\ NewLink(r).of = r
  BY DEF LinkColumns, NewLink
<1>3. ASSUME NEW i \in Links, invite'[i] # Gone
      PROVE  /\ LinkColumns(invite'[i])
             /\ \/ invite[i] # Gone /\ invite'[i].of = invite[i].of
                \/ Exists(invite'[i].of) /\ employee[invite'[i].of].email \in mailed'
  <2>1. CASE i = sent + 1
    <3>1. invite'[i] = NewLink(r)
      BY <1>1, <2>1 DEF Closed
    <3> QED BY <1>1, <1>2, <3>1
  <2>2. CASE i # sent + 1
    <3>1. invite'[i] = Closed(t.links, "revoked")[i]
      BY <1>1, <2>2 DEF Closed
    <3> QED BY <1>1, <1>3, <3>1, ClosedLinks
  <2> QED BY <2>1, <2>2
<1>4. DOMAIN invite' = Links /\ DOMAIN employee' = Records /\ sent' \in Nat
  <2>1. DOMAIN Closed(t.links, "revoked") = Links
    BY DEF Closed
  <2> HIDE DEF t, r
  <2> QED BY <1>1, <2>1 DEF MailInv, RowsInv
<1>5. \A s \in Records : Exists(s)' =>
        Exists(s) /\ employee'[s].email = employee[s].email /\ EmployeeColumns(employee'[s])
  BY <1>1 DEF MailInv, RowsInv, Exists
<1> HIDE DEF t, r
<1> QED BY <1>1, <1>3, <1>4, <1>5, LinksKeep

LEMMA CloseKeeps ==
  ASSUME MailInv, NEW h \in Clerks, CommitClose(h) \/ CommitAccept(h)
  PROVE  MailInv'
<1>1. PICK s \in {"revoked", "expired", "accepted"} :
        /\ invite' = Closed(clerk[h].links, s)
        /\ Exists(clerk[h].of) /\ \A i \in clerk[h].links : invite[i] # Gone
        /\ Done(h) /\ UNCHANGED <<created, sent, mailed>>
        /\ employee' \in {employee, [employee EXCEPT ![clerk[h].of].linked = TRUE]}
  BY DEF CommitClose, CommitAccept, RowsRemain
<1>2. ASSUME NEW i \in Links, invite'[i] # Gone
      PROVE  LinkColumns(invite'[i]) /\ invite[i] # Gone /\ invite'[i].of = invite[i].of
  BY <1>1, <1>2, ClosedLinks
<1>3. DOMAIN invite' = Links /\ DOMAIN employee' = Records /\ sent' \in Nat
  BY <1>1 DEF Closed, MailInv, RowsInv
<1>4. ASSUME NEW r \in Records, Exists(r)'
      PROVE  /\ Exists(r) /\ employee'[r].email = employee[r].email
             /\ EmployeeColumns(employee'[r])
  <2>1. CASE employee'[r] = employee[r]
    BY <1>4, <2>1 DEF MailInv, RowsInv, Exists
  <2>2. CASE employee'[r] # employee[r]
    <3>1. r = clerk[h].of /\ employee'[r] = [employee[r] EXCEPT !.linked = TRUE]
      BY <1>1, <2>2 DEF MailInv, RowsInv
    <3>2. EmployeeColumns(employee[r]) /\ Exists(r)
      BY <1>1, <3>1 DEF MailInv, RowsInv
    <3> QED BY <3>1, <3>2 DEF EmployeeColumns
  <2> QED BY <2>1, <2>2
<1> QED BY <1>1, <1>2, <1>3, <1>4, LinksKeep

LEMMA MailStep == MailInv /\ [InvNext]_invVars => MailInv'
<1> SUFFICES ASSUME MailInv, [InvNext]_invVars PROVE MailInv'
  OBVIOUS
<1>1. ASSUME NEW h \in Clerks, NEW email \in Emails, NEW send, ReadCreate(h, email, send)
      PROVE  MailInv'
  BY <1>1, ReadKeeps DEF ReadCreate
<1>2. ASSUME NEW h \in Clerks, NEW r \in Records, ReadResend(h, r) PROVE MailInv'
  BY <1>2, ReadKeeps DEF ReadResend
<1>3. ASSUME NEW h \in Clerks, NEW r \in Records, ReadRevoke(h, r) PROVE MailInv'
  BY <1>3, ReadKeeps DEF ReadRevoke
<1>4. ASSUME NEW h \in Clerks, NEW r \in Records, ReadExpired(h, r) PROVE MailInv'
  <2>1. PICK late : Read(h, [op |-> "expire", of |-> r, links |-> late])
    BY <1>4 DEF ReadExpired
  <2> QED BY <2>1, ReadKeeps
<1>5. ASSUME NEW h \in Clerks, NEW i \in Links, ReadAccept(h, i) PROVE MailInv'
  <2>1. /\ Read(h, [op |-> "accept", of |-> invite[i].of, links |-> {i}])
        /\ invite[i] # Gone
    BY <1>5 DEF ReadAccept
  <2> QED BY <2>1, ReadKeeps DEF MailInv, LinkInv
<1>6. ASSUME NEW h \in Clerks, Abandon(h) PROVE MailInv'
  <2>1. Done(h) /\ UNCHANGED <<employee, invite, created, sent, mailed>>
    BY <1>6 DEF Abandon
  <2> QED BY <2>1, LinksKeep DEF MailInv, RowsInv, Exists
<1>7. ASSUME NEW r \in Records, DeleteEmployee(r) PROVE MailInv'
  <2>1. /\ employee' = [employee EXCEPT ![r] = Gone]
        /\ \A i \in Links : invite'[i] # Gone => invite'[i] = invite[i]
        /\ DOMAIN invite' = Links /\ UNCHANGED <<created, sent, mailed, clerk>>
    BY <1>7 DEF DeleteEmployee
  <2>2. \A s \in Records : Exists(s)' => Exists(s) /\ employee'[s] = employee[s]
    BY <2>1 DEF Exists, MailInv, RowsInv
  <2>3. RowsInv'
    BY <2>1, <2>2 DEF MailInv, RowsInv
  <2>4. \A h \in Clerks : ClerkInv(h)'
    BY <2>1, <2>2 DEF MailInv, ClerkInv, Mailed
  <2> QED BY <2>1, <2>2, <2>3, <2>4 DEF MailInv, LinkInv, Mailed
<1>8. CASE UNCHANGED <<employee, invite, created, sent, mailed, clerk>>
  BY <1>8 DEF MailInv, LinkInv, RowsInv, ClerkInv, Exists, Mailed
<1> QED BY <1>1, <1>2, <1>3, <1>4, <1>5, <1>6, <1>7, <1>8, CreateKeeps, ResendKeeps, CloseKeeps
      DEF InvNext, HourPasses, invVars

LEMMA MailInvariance == InvSpec => []MailInv
BY MailInit, MailStep, PTL DEF InvSpec

-----------------------------------------------------------------------------
\* Whatever handlers race or are abandoned, and whatever records HR deletes
\* meanwhile, an account is only ever made for somebody who was sent a link, and
\* only once.
THEOREM RegistrationIsImplemented == InvSpec => ImplementsRegistration
<1>1. InvInit => Reg!RegInit
  BY DEF InvInit, Reg!RegInit
<1>2. MailInv /\ [InvNext]_invVars => [Reg!RegNext]_<<mailed, accounts>>
  <2> SUFFICES ASSUME MailInv, [InvNext]_invVars PROVE [Reg!RegNext]_<<mailed, accounts>>
    OBVIOUS
  <2>1. ASSUME NEW h \in Clerks, CommitCreate(h)
        PROVE  Reg!RegNext \/ UNCHANGED <<mailed, accounts>>
    <3>1. clerk[h].email \in Emails
      BY <2>1 DEF CommitCreate, Holds, MailInv, ClerkInv
    <3> QED BY <2>1, <3>1 DEF CommitCreate, Reg!RegNext, Reg!Invite
  <2>2. ASSUME NEW h \in Clerks, CommitResend(h) PROVE Reg!RegNext
    <3>1. Exists(clerk[h].of)
      BY <2>2 DEF CommitResend, RowsRemain
    <3>2. employee[clerk[h].of].email \in Emails
      BY <3>1 DEF Exists, MailInv, RowsInv
    <3> QED BY <2>2, <3>2 DEF CommitResend, Reg!RegNext, Reg!Invite
  <2>3. ASSUME NEW h \in Clerks, CommitAccept(h) PROVE Reg!RegNext
    <3> DEFINE email == employee[clerk[h].of].email
    <3>1. /\ clerk[h].op = "accept" /\ Exists(clerk[h].of)
          /\ email \notin accounts /\ accounts' = accounts \cup {email} /\ UNCHANGED mailed
      BY <2>3 DEF CommitAccept, Holds, RowsRemain
    <3>2. email \in mailed /\ email \in Emails
      BY <3>1 DEF MailInv, ClerkInv, Mailed, RowsInv
    <3> QED BY <3>1, <3>2 DEF Reg!RegNext, Reg!Register
  <2>4. CASE UNCHANGED <<mailed, accounts>>
    BY <2>4
  <2> QED BY <2>1, <2>2, <2>3, <2>4 DEF InvNext, invVars, Read, ReadCreate, ReadResend,
        ReadRevoke, ReadExpired, ReadAccept, CommitClose, Abandon, DeleteEmployee, HourPasses
<1> QED BY <1>1, <1>2, MailInvariance, PTL DEF InvSpec, ImplementsRegistration, Reg!RegSpec

-----------------------------------------------------------------------------
(***************************************************************************)
(* Links are single use.                                                   *)
(***************************************************************************)

\* What a thread knows of the links it has read: they are links of its record,
\* and an acceptance or a revocation since then was made at this very hour.
Knows(t) ==
  /\ t.op = "create" => t.email \in Emails /\ t.code \in Nat
  /\ t.op \in {"resend", "revoke", "expire", "accept"} =>
       /\ t.of \in Records /\ t.of <= created
       /\ \A i \in t.links :
            /\ i \in Links /\ i <= sent
            /\ invite[i] # Gone => invite[i].of = t.of /\ invite[i].accepted \in {Gone, hour}
  /\ t.op = "accept" =>
       /\ \E i \in Links : t.links = {i}
       /\ \A i \in t.links : invite[i] # Gone =>
            invite[i].expires > hour /\ invite[i].revoked \in {Gone, hour}

LinkState(i) ==
  invite[i] # Gone =>
    /\ i <= sent
    /\ invite[i].status = "pending" => invite[i].accepted = Gone /\ invite[i].revoked = Gone

FlowInv ==
  /\ InvTypeOK /\ RecordsDistinct
  /\ \A h \in Clerks : Knows(clerk[h])
  /\ \A i \in Links : LinkState(i)

\* Each link that is outstanding was sent by a thread of its own, and a thread
\* that is about to send another has its own earlier one among those it revokes.
Senders(r) ==
  \E f \in Injection(Pending(r), Clerks) :
    \A h \in Clerks, i \in Pending(r) :
      clerk[h].op = "resend" /\ clerk[h].of = r /\ f[i] = h => i \in clerk[h].links

LinksInv ==
  /\ RegisteredOnce /\ LinksCloseOnce
  /\ \A r \in Records : Senders(r)

\* How a row that was there may differ after a step.
RowsEvolve ==
  \A i \in Links : i <= sent /\ invite'[i] # Gone =>
    /\ invite[i] # Gone
    /\ invite'[i].of = invite[i].of /\ invite'[i].expires = invite[i].expires
    /\ invite'[i].accepted \in {invite[i].accepted, hour}
    /\ invite'[i].revoked \in {invite[i].revoked, hour}

\* generate_employee_code finds a code: there are more candidates than records.
LEMMA FreshCodeIsFound == InvTypeOK => FreshCode \in Nat
<1> SUFFICES ASSUME InvTypeOK PROVE FreshCode \in Nat
  OBVIOUS
<1> DEFINE S == {s \in Records : Exists(s)}
           taken == {employee[r].code : r \in S}
           n == Cardinality({r \in Records : Exists(r)})
           I == n + 1 .. n + 1 + MaxRecords
           Fits(c) == c \notin taken /\ \A b \in n + 1 .. c - 1 : b \in taken
<1>1. IsFiniteSet(Records) /\ Cardinality(Records) = MaxRecords
  BY FS_Interval, InvitationBounds DEF Records
<1>2. IsFiniteSet(S) /\ Cardinality(S) <= MaxRecords /\ S \in SUBSET Records
  BY <1>1, FS_Subset
<1>3. n \in Nat /\ n <= MaxRecords /\ n = Cardinality(S)
  BY <1>2, FS_CardinalityType
<1>4. IsFiniteSet(taken) /\ Cardinality(taken) <= n
  <2> DEFINE f == [r \in S |-> employee[r].code]
  <2>1. f \in Surjection(S, taken)
    BY DEF Surjection
  <2> HIDE DEF f
  <2> QED BY <1>2, <1>3, <2>1, FS_Surjection
<1>5. IsFiniteSet(I) /\ Cardinality(I) = MaxRecords + 1 /\ I \subseteq Nat
  <2>1. n + 1 \in Int /\ n + 1 + MaxRecords \in Int /\ ~ (n + 1 > n + 1 + MaxRecords)
    BY <1>3, InvitationBounds
  <2>2. IsFiniteSet(I) /\ Cardinality(I) = (n + 1 + MaxRecords) - (n + 1) + 1
    BY <2>1, FS_Interval
  <2> HIDE DEF n
  <2>3. ASSUME NEW x \in I PROVE x \in Nat
    <3>1. n \in Nat /\ x \in Int /\ n + 1 <= x
      BY <1>3, <2>3, InvitationBounds
    <3> QED BY <3>1
  <2>4. (n + 1 + MaxRecords) - (n + 1) + 1 = MaxRecords + 1
    BY <1>3, InvitationBounds
  <2> HIDE DEF I
  <2> QED BY <2>2, <2>3, <2>4
<1> HIDE DEF taken, n
<1>6. I \ taken # {}
  <2> SUFFICES ASSUME I \subseteq taken PROVE FALSE
    OBVIOUS
  <2>1. Cardinality(I) <= Cardinality(taken)
    BY <1>4, FS_Subset
  <2>2. Cardinality(taken) \in Nat
    BY <1>4, FS_CardinalityType
  <2> HIDE DEF I
  <2> QED BY <1>3, <1>4, <1>5, <2>1, <2>2, InvitationBounds
<1>7. PICK m \in I \ taken : \A k \in I \ taken : m <= k
  <2>1. PICK m \in I \ taken : \A k \in I \ taken : ~ (<<k, m>> \in OpToRel(<, Nat))
    <3>1. I \ taken \subseteq Nat
      BY <1>5
    <3> HIDE DEF I
    <3> QED BY <1>6, <3>1, NatLessThanWellFounded, WFMin
  <2>2. m \in Nat /\ \A k \in I \ taken : k \in Nat /\ ~ (k < m)
    BY <1>5, <2>1 DEF OpToRel
  <2>3. \A k \in I \ taken : m <= k
    BY <2>2
  <2> QED BY <2>1, <2>3
<1>8. Fits(m)
  <2>1. ASSUME NEW b \in n + 1 .. m - 1 PROVE b \in taken
    <3>1. m \in Int /\ n + 1 <= m /\ m <= n + 1 + MaxRecords
      BY <1>3, <1>7, InvitationBounds
    <3>2. b \in I /\ b < m
      BY <1>3, <2>1, <3>1, InvitationBounds
    <3>3. b \in I \ taken => m <= b
      BY <1>7
    <3> QED BY <2>1, <3>1, <3>2, <3>3
  <2> QED BY <1>7, <2>1
<1>9. FreshCode = CHOOSE c \in I : Fits(c)
  BY DEF FreshCode, taken, n
<1>10. FreshCode \in I
  <2> HIDE DEF I, Fits
  <2> QED BY <1>7, <1>8, <1>9
<1> QED BY <1>5, <1>10

(***************************************************************************)
(* The steps of FlowInv.                                                   *)
(***************************************************************************)

\* What closing does to the row of a link that is there.
LEMMA ClosedRow ==
  ASSUME InvTypeOK, NEW S, NEW status \in {"revoked", "accepted", "expired"},
         NEW i \in Links, i \in S => invite[i] # Gone
  PROVE  LET row == Closed(S, status)[i]
         IN  /\ i \notin S => row = invite[i]
             /\ i \in S =>
                  /\ row \in LinkRows
                  /\ row.of = invite[i].of /\ row.expires = invite[i].expires
                  /\ row.status = status
                  /\ row.accepted = IF status = "accepted" THEN hour ELSE invite[i].accepted
                  /\ row.revoked = IF status = "revoked" THEN hour ELSE invite[i].revoked
<1>1. CASE i \notin S
  BY <1>1 DEF Closed
<1>2. CASE i \in S
  <2> DEFINE row == Closed(S, status)[i]
  <2>1. invite[i] \in LinkRows /\ hour \in Times
    BY <1>2 DEF InvTypeOK
  <2>2. CASE status = "revoked"
    <3>1. row = [invite[i] EXCEPT !.status = status, !.revoked = hour]
      BY <1>2, <2>2 DEF Closed
    <3> QED BY <1>2, <2>1, <2>2, <3>1 DEF LinkRows, LinkStatuses
  <2>3. CASE status = "accepted"
    <3>1. row = [invite[i] EXCEPT !.status = status, !.accepted = hour]
      BY <1>2, <2>3 DEF Closed
    <3> QED BY <1>2, <2>1, <2>3, <3>1 DEF LinkRows, LinkStatuses
  <2>4. CASE status = "expired"
    <3>1. row = [invite[i] EXCEPT !.status = status]
      BY <1>2, <2>4 DEF Closed
    <3> QED BY <1>2, <2>1, <2>4, <3>1 DEF LinkRows, LinkStatuses
  <2> QED BY <2>2, <2>3, <2>4
<1> QED BY <1>1, <1>2

LEMMA NewLinkRow ==
  ASSUME InvTypeOK, NEW r \in Records
  PROVE  /\ NewLink(r) \in LinkRows /\ NewLink(r) # Gone
         /\ NewLink(r).of = r /\ NewLink(r).status = "pending"
         /\ NewLink(r).accepted = Gone /\ NewLink(r).revoked = Gone
<1>1. hour + InviteLife \in Nat
  BY InvitationBounds DEF InvTypeOK, Times
<1> QED BY <1>1, GoneAssumption DEF NewLink, LinkRows, LinkStatuses

LEMMA FlowInit == InvInit => FlowInv
<1> SUFFICES ASSUME InvInit PROVE FlowInv
  OBVIOUS
<1>1. /\ employee = [r \in Records |-> Gone] /\ invite = [i \in Links |-> Gone]
      /\ created = 0 /\ sent = 0 /\ accounts = {} /\ mailed = {} /\ hour = 0
      /\ clerk = [h \in Clerks |-> Free]
  BY DEF InvInit
<1>2. InvTypeOK
  BY <1>1, InvitationBounds DEF InvTypeOK, Times
<1>3. RecordsDistinct /\ \A i \in Links : LinkState(i)
  BY <1>1 DEF RecordsDistinct, LinkState, Exists
<1>4. \A h \in Clerks : Knows(clerk[h])
  BY <1>1 DEF Knows, Free
<1> QED BY <1>2, <1>3, <1>4 DEF FlowInv

LEMMA KnowsKept ==
  ASSUME NEW t, Knows(t), RowsEvolve, UNCHANGED hour,
         {created, sent, created', sent'} \subseteq Nat, created <= created', sent <= sent'
  PROVE  Knows(t)'
<1>1. ASSUME t.op \in {"resend", "revoke", "expire", "accept"}
      PROVE  /\ t.of \in Records /\ t.of <= created'
             /\ \A i \in t.links :
                  /\ i \in Links /\ i <= sent'
                  /\ invite'[i] # Gone =>
                       invite'[i].of = t.of /\ invite'[i].accepted \in {Gone, hour'}
  <2>1. t.of \in Records /\ t.of <= created /\ t.of \in Nat
    BY <1>1, InvitationBounds DEF Knows, Records
  <2>2. ASSUME NEW i \in t.links
        PROVE  /\ i \in Links /\ i <= sent' /\ i <= sent
               /\ invite'[i] # Gone =>
                    invite'[i].of = t.of /\ invite'[i].accepted \in {Gone, hour'}
    <3>1. /\ i \in Links /\ i <= sent /\ i \in Nat
          /\ invite[i] # Gone => invite[i].of = t.of /\ invite[i].accepted \in {Gone, hour}
      BY <1>1, InvitationBounds DEF Knows, Links
    <3>2. i <= sent'
      BY <3>1
    <3> QED BY <3>1, <3>2 DEF RowsEvolve
  <2>3. t.of <= created'
    BY <2>1
  <2> QED BY <2>1, <2>2, <2>3
<1>2. ASSUME t.op = "accept", NEW i \in t.links, invite'[i] # Gone
      PROVE  invite'[i].expires > hour' /\ invite'[i].revoked \in {Gone, hour'}
  <2>1. i \in Links /\ i <= sent
    BY <1>2 DEF Knows
  <2>2. invite[i] # Gone => invite[i].expires > hour /\ invite[i].revoked \in {Gone, hour}
    BY <1>2 DEF Knows
  <2> QED BY <1>2, <2>1, <2>2 DEF RowsEvolve
<1> QED BY <1>1, <1>2 DEF Knows

\* The threads, after a step in which one of them ends its transaction at most.
LEMMA ThreadsKnow ==
  ASSUME MailInv, FlowInv, RowsEvolve, UNCHANGED hour,
         {created', sent'} \subseteq Nat, created <= created', sent <= sent',
         \A h \in Clerks : clerk'[h] \in {clerk[h], Free}
  PROVE  \A h \in Clerks : Knows(clerk[h])'
<1> SUFFICES ASSUME NEW h \in Clerks PROVE Knows(clerk[h])'
  OBVIOUS
<1>1. CASE clerk'[h] = Free
  BY <1>1 DEF Knows, Free
<1>2. CASE clerk'[h] = clerk[h]
  <2>1. Knows(clerk[h]) /\ created \in Nat /\ sent \in Nat
    BY DEF FlowInv, MailInv, RowsInv
  <2> DEFINE t == clerk[h]
  <2>2. Knows(t)
    BY <2>1
  <2>3. clerk'[h] = t
    BY <1>2
  <2> QED BY <1>2, <2>1, KnowsKept
<1> QED BY <1>1, <1>2

LEMMA RecordsStayDistinct ==
  ASSUME FlowInv,
         \A r \in Records : Exists(r)' =>
           /\ Exists(r) /\ employee'[r].email = employee[r].email
           /\ employee'[r].code = employee[r].code
  PROVE  RecordsDistinct'
BY DEF FlowInv, RecordsDistinct

LEMMA ReadFlows ==
  ASSUME MailInv, FlowInv, NEW h \in Clerks, NEW t, Read(h, t), Knows(t)
  PROVE  FlowInv' /\ RowsEvolve
<1>1. /\ UNCHANGED <<employee, invite, created, sent, accounts, mailed, hour>>
      /\ \A k \in Clerks : clerk'[k] = IF k = h THEN t ELSE clerk[k]
  BY DEF Read, MailInv
<1>2. InvTypeOK' /\ RecordsDistinct' /\ \A i \in Links : LinkState(i)'
  BY <1>1 DEF FlowInv, InvTypeOK, RecordsDistinct, LinkState, Exists
<1>3. RowsEvolve
  BY <1>1 DEF RowsEvolve
<1>4. ASSUME NEW k \in Clerks PROVE Knows(clerk[k])'
  <2>1. Knows(clerk'[k])
    BY <1>1 DEF FlowInv
  <2> QED BY <1>1, <2>1 DEF Knows
<1> QED BY <1>2, <1>3, <1>4 DEF FlowInv

LEMMA DoneThreads ==
  ASSUME MailInv, NEW h \in Clerks, Done(h)
  PROVE  /\ clerk'[h] = Free
         /\ \A k \in Clerks : clerk'[k] \in {clerk[k], Free} /\ (k # h => clerk'[k] = clerk[k])
BY DEF Done, MailInv

LEMMA CreateFlows ==
  ASSUME MailInv, FlowInv, NEW h \in Clerks, CommitCreate(h)
  PROVE  FlowInv' /\ RowsEvolve
<1>0. PICK t, r : t = clerk[h] /\ r = created + 1
  OBVIOUS
<1> DEFINE row == [email |-> t.email, code |-> t.code, linked |-> FALSE]
<1>1. /\ t.op = "create" /\ r \in Records /\ ~ CreateConflict(t)
      /\ created' = r /\ employee' = [employee EXCEPT ![r] = row]
      /\ Done(h) /\ UNCHANGED <<accounts, hour>>
  BY <1>0 DEF CommitCreate, Holds
<1>2. \/ UNCHANGED <<sent, invite, mailed>>
      \/ /\ sent + 1 \in Links /\ sent' = sent + 1
         /\ invite' = [invite EXCEPT ![sent + 1] = NewLink(r)]
         /\ mailed' = mailed \cup {t.email}
  BY <1>0 DEF CommitCreate
<1>3. t.email \in Emails /\ t.code \in Nat
  BY <1>0, <1>1 DEF FlowInv, Knows
<1>4. row \in EmployeeRows /\ row # Gone /\ row.email = t.email /\ row.code = t.code
  <2>1. row \in EmployeeRows
    BY <1>3 DEF EmployeeRows
  <2> QED BY <2>1, GoneAssumption
<1>5. created \in Nat /\ sent \in Nat /\ InvTypeOK
  BY DEF MailInv, RowsInv, FlowInv
<1>6. NewLink(r) \in LinkRows /\ NewLink(r) # Gone /\ NewLink(r).of = r
      /\ NewLink(r).accepted = Gone /\ NewLink(r).revoked = Gone
  BY <1>1, <1>5, NewLinkRow
<1> HIDE DEF row
<1>7. /\ \A s \in Records : employee'[s] = IF s = r THEN row ELSE employee[s]
      /\ employee' \in [Records -> EmployeeRows \cup {Gone}]
  BY <1>1, <1>4, <1>5 DEF InvTypeOK
<1>8. \A s \in Records : Exists(s) => Exists(s)'
  BY <1>4, <1>7 DEF Exists
<1>9. ASSUME NEW i \in Links, invite'[i] # invite[i]
      PROVE  i = sent + 1 /\ sent' = sent + 1 /\ invite'[i] = NewLink(r)
  BY <1>2, <1>5, <1>9 DEF InvTypeOK
<1>10. invite' \in [Links -> LinkRows \cup {Gone}]
  BY <1>2, <1>5, <1>6 DEF InvTypeOK
<1>11. created' \in 0..MaxRecords /\ sent' \in 0..MaxInvites /\ created <= created' /\ sent <= sent'
  BY <1>0, <1>1, <1>2, <1>5, InvitationBounds DEF InvTypeOK, Records, Links
<1>12. Exists(r)'
  BY <1>1, <1>4, <1>7 DEF Exists
<1>13. \A i \in Links : invite'[i] # Gone => Exists(invite[i].of)'
  <2> SUFFICES ASSUME NEW i \in Links, invite'[i] # Gone PROVE Exists(invite[i].of)'
    OBVIOUS
  <2>1. CASE invite'[i] = invite[i]
    BY <1>5, <1>8, <2>1 DEF InvTypeOK, Exists
  <2>2. CASE invite'[i] # invite[i]
    BY <1>6, <1>9, <1>12, <2>2
  <2> QED BY <2>1, <2>2
<1>14. InvTypeOK'
  BY <1>1, <1>2, <1>3, <1>5, <1>7, <1>10, <1>11, <1>13 DEF InvTypeOK
<1>15. RecordsDistinct'
  <2>1. \A s \in Records : Exists(s) => employee[s].email # t.email /\ employee[s].code # t.code
    BY <1>1 DEF CreateConflict
  <2>2. \A s \in Records : Exists(s)' /\ s # r => Exists(s) /\ employee'[s] = employee[s]
    BY <1>7 DEF Exists
  <2>3. employee'[r] = row
    BY <1>1, <1>7
  <2> SUFFICES ASSUME NEW s \in Records, NEW q \in Records, Exists(s)', Exists(q)', s # q
               PROVE  /\ employee'[s].email # employee'[q].email
                      /\ employee'[s].code # employee'[q].code
    BY DEF RecordsDistinct
  <2>4. CASE s = r
    BY <1>4, <2>1, <2>2, <2>3, <2>4
  <2>5. CASE q = r
    BY <1>4, <2>1, <2>2, <2>3, <2>5
  <2>6. CASE s # r /\ q # r
    BY <2>2, <2>6 DEF FlowInv, RecordsDistinct
  <2> QED BY <2>4, <2>5, <2>6
<1>16. RowsEvolve
  BY <1>5, <1>9 DEF RowsEvolve
<1>17. \A i \in Links : LinkState(i)'
  <2> SUFFICES ASSUME NEW i \in Links, invite'[i] # Gone PROVE LinkState(i)'
    BY DEF LinkState
  <2>1. CASE invite'[i] = invite[i]
    <3>1. i \in Nat /\ i <= sent
      BY <2>1, InvitationBounds DEF FlowInv, LinkState, Links
    <3>2. i <= sent'
      BY <1>2, <1>5, <3>1
    <3> QED BY <2>1, <3>2 DEF FlowInv, LinkState
  <2>2. CASE invite'[i] # invite[i]
    <3>1. i = sent' /\ invite'[i] = NewLink(r) /\ sent' \in Nat
      BY <1>5, <1>9, <2>2
    <3>2. i <= sent'
      BY <3>1
    <3> QED BY <1>6, <3>1, <3>2 DEF LinkState
  <2> QED BY <2>1, <2>2
<1>18. \A k \in Clerks : Knows(clerk[k])'
  <2>1. {created', sent'} \subseteq Nat
    BY <1>11, InvitationBounds
  <2> QED BY <1>1, <1>11, <1>16, <2>1, DoneThreads, ThreadsKnow
<1> QED BY <1>14, <1>15, <1>16, <1>17, <1>18 DEF FlowInv

\* The commits of what is done to the links of a record that is there; what is
\* sent, if anything, is the link that follows the last one.
LEMMA LinksFlow ==
  ASSUME MailInv, FlowInv, NEW h \in Clerks, Done(h),
         RowsRemain(clerk[h]), clerk[h].op \in {"resend", "revoke", "expire", "accept"},
         NEW status \in {"revoked", "accepted", "expired"},
         \/ UNCHANGED sent /\ invite' = Closed(clerk[h].links, status)
         \/ /\ sent + 1 \in Links /\ sent' = sent + 1
            /\ invite' = [Closed(clerk[h].links, status) EXCEPT ![sent + 1] = NewLink(clerk[h].of)],
         UNCHANGED <<created, hour>>,
         employee' \in [Records -> EmployeeRows \cup {Gone}],
         \A r \in Records :
           /\ Exists(r)' <=> Exists(r)
           /\ Exists(r) => /\ employee'[r].email = employee[r].email
                          /\ employee'[r].code = employee[r].code,
         accounts' \subseteq Emails, mailed' \subseteq Emails
  PROVE  FlowInv' /\ RowsEvolve
<1> DEFINE t == clerk[h]
           new == NewLink(t.of)
           S == t.links
<1>1. /\ t.of \in Records /\ Exists(t.of) /\ \A i \in S : invite[i] # Gone
      /\ \A i \in S : i \in Links /\ i <= sent
  BY DEF RowsRemain, FlowInv, Knows
<1>2. InvTypeOK /\ sent \in Nat /\ created \in Nat
  BY DEF FlowInv, MailInv, RowsInv
<1>3. new \in LinkRows /\ new # Gone /\ new.of = t.of /\ new.accepted = Gone /\ new.revoked = Gone
  BY <1>1, <1>2, NewLinkRow
<1>4. sent <= sent' /\ sent' \in 0..MaxInvites
  BY <1>2, InvitationBounds DEF InvTypeOK, Links
<1> HIDE DEF t, new, S
<1>5. ASSUME NEW i \in Links
      PROVE  \/ invite'[i] = Closed(S, status)[i]
             \/ i = sent + 1 /\ sent' = sent + 1 /\ invite'[i] = new
  <2>1. DOMAIN Closed(S, status) = Links
    BY DEF Closed
  <2> QED BY <2>1 DEF S, new, t
<1>6. ASSUME NEW i \in S PROVE invite'[i] = Closed(S, status)[i]
  BY <1>1, <1>2, <1>5, <1>6 DEF Links
<1>7. ASSUME NEW i \in Links, i \notin S
      PROVE  invite'[i] = invite[i] \/ (i = sent + 1 /\ sent' = sent + 1 /\ invite'[i] = new)
  BY <1>2, <1>5, <1>7, ClosedRow
<1>8. ASSUME NEW i \in S
      PROVE  /\ invite[i] # Gone /\ invite'[i] \in LinkRows
             /\ invite'[i].of = invite[i].of /\ invite'[i].expires = invite[i].expires
             /\ invite'[i].status # "pending"
             /\ invite'[i].accepted \in {invite[i].accepted, hour}
             /\ invite'[i].revoked \in {invite[i].revoked, hour}
  BY <1>1, <1>2, <1>6, <1>8, ClosedRow
<1>9. DOMAIN invite' = Links
  <2>1. DOMAIN Closed(S, status) = Links
    BY DEF Closed
  <2> QED BY <2>1 DEF S, t
<1>10. \A i \in Links : invite'[i] \in LinkRows \cup {Gone}
  BY <1>2, <1>3, <1>7, <1>8 DEF InvTypeOK
<1>11. invite' \in [Links -> LinkRows \cup {Gone}]
  <2>1. invite' = [i \in Links |-> invite'[i]]
    <3>1. CASE invite' = Closed(S, status)
      BY <3>1 DEF Closed
    <3>2. CASE invite' = [Closed(S, status) EXCEPT ![sent + 1] = new]
      BY <3>2 DEF Closed
    <3> QED BY <3>1, <3>2 DEF S, t, new
  <2> QED BY <1>10, <2>1
<1>12. \A i \in Links : invite'[i] # Gone => Exists(invite[i].of)'
  <2> SUFFICES ASSUME NEW i \in Links, invite'[i] # Gone PROVE Exists(invite[i].of)'
    OBVIOUS
  <2>1. \A k \in Links : invite[k] # Gone => Exists(invite[k].of) /\ invite[k].of \in Records
    BY <1>2 DEF InvTypeOK, Exists
  <2> QED BY <1>1, <1>3, <1>7, <1>8, <2>1
<1>13. InvTypeOK'
  BY <1>2, <1>4, <1>11, <1>12 DEF InvTypeOK
<1>14. RecordsDistinct'
  BY RecordsStayDistinct
<1>15. RowsEvolve
  <2> SUFFICES ASSUME NEW i \in Links, i <= sent, invite'[i] # Gone
               PROVE  /\ invite[i] # Gone
                      /\ invite'[i].of = invite[i].of /\ invite'[i].expires = invite[i].expires
                      /\ invite'[i].accepted \in {invite[i].accepted, hour}
                      /\ invite'[i].revoked \in {invite[i].revoked, hour}
    BY DEF RowsEvolve
  <2>1. i # sent + 1
    BY <1>2
  <2> QED BY <1>7, <1>8, <2>1
<1>16. ASSUME NEW i \in Links, invite'[i] # Gone PROVE LinkState(i)'
  <2>1. CASE i \in S
    <3>1. i \in Nat /\ i <= sent
      BY <1>1, <2>1, InvitationBounds DEF Links
    <3>2. i <= sent'
      BY <1>2, <1>4, <3>1, InvitationBounds
    <3> QED BY <1>8, <2>1, <3>2 DEF LinkState
  <2>2. CASE i \notin S /\ invite'[i] = invite[i]
    <3>1. i \in Nat /\ i <= sent
      BY <1>16, <2>2, InvitationBounds DEF FlowInv, LinkState, Links
    <3>2. i <= sent'
      BY <1>2, <1>4, <3>1, InvitationBounds
    <3> QED BY <2>2, <3>2 DEF FlowInv, LinkState
  <2>3. CASE i = sent + 1 /\ sent' = sent + 1 /\ invite'[i] = new
    <3>1. i <= sent'
      BY <1>2, <2>3
    <3> QED BY <1>3, <2>3, <3>1 DEF LinkState
  <2> QED BY <1>7, <2>1, <2>2, <2>3
<1>17. \A k \in Clerks : Knows(clerk[k])'
  <2>1. {created', sent'} \subseteq Nat /\ created <= created'
    BY <1>2, <1>4, InvitationBounds
  <2> QED BY <1>4, <1>15, <2>1, DoneThreads, ThreadsKnow
<1> QED BY <1>13, <1>14, <1>15, <1>16, <1>17 DEF FlowInv, LinkState

\* What the reads take is known to the thread that reads it.
LEMMA PendingKnown ==
  ASSUME MailInv, FlowInv, NEW r \in Records, Exists(r), NEW op \in {"resend", "revoke", "expire"},
         NEW S \in SUBSET Pending(r)
  PROVE  Knows([op |-> op, of |-> r, links |-> S])
<1>1. r <= created
  BY DEF MailInv, RowsInv
<1>2. ASSUME NEW i \in S
      PROVE  i \in Links /\ i <= sent /\ invite[i].of = r /\ invite[i].accepted = Gone
  BY DEF Pending, FlowInv, LinkState
<1> QED BY <1>1, <1>2 DEF Knows

LEMMA DeleteFlows ==
  ASSUME MailInv, FlowInv, NEW r \in Records, DeleteEmployee(r)
  PROVE  FlowInv' /\ RowsEvolve
<1>1. /\ \A s \in Records : employee'[s] = IF s = r THEN Gone ELSE employee[s]
      /\ employee' \in [Records -> EmployeeRows \cup {Gone}]
  BY DEF DeleteEmployee, FlowInv, InvTypeOK
<1>2. /\ \A i \in Links :
           invite'[i] = IF invite[i] # Gone /\ invite[i].of = r THEN Gone ELSE invite[i]
      /\ invite' \in [Links -> LinkRows \cup {Gone}]
      /\ UNCHANGED <<created, sent, accounts, mailed, hour, clerk>>
  BY DEF DeleteEmployee, FlowInv, InvTypeOK
<1>3. \A i \in Links : invite'[i] # Gone => Exists(invite[i].of)' /\ invite'[i] = invite[i]
  BY <1>1, <1>2 DEF FlowInv, InvTypeOK, Exists
<1>4. InvTypeOK'
  BY <1>1, <1>2, <1>3 DEF FlowInv, InvTypeOK
<1>5. RecordsDistinct'
  BY <1>1, RecordsStayDistinct DEF Exists
<1>6. RowsEvolve
  BY <1>3 DEF RowsEvolve
<1>7. \A i \in Links : LinkState(i)'
  BY <1>2, <1>3 DEF FlowInv, LinkState
<1>8. \A k \in Clerks : Knows(clerk[k])'
  <2>1. {created', sent'} \subseteq Nat /\ created <= created' /\ sent <= sent'
    BY <1>2 DEF MailInv, RowsInv
  <2> QED BY <1>2, <1>6, <2>1, ThreadsKnow
<1> QED BY <1>4, <1>5, <1>6, <1>7, <1>8 DEF FlowInv

\* The clock waits for the threads: what they know is of this hour.
LEMMA HourFlows ==
  ASSUME MailInv, FlowInv, HourPasses
  PROVE  FlowInv' /\ RowsEvolve
<1>1. /\ UNCHANGED <<employee, invite, created, sent, accounts, mailed, clerk>>
      /\ hour' \in Times /\ \A h \in Clerks : clerk[h] = Free
  BY DEF HourPasses
<1>2. InvTypeOK' /\ RecordsDistinct' /\ RowsEvolve /\ \A i \in Links : LinkState(i)'
  BY <1>1 DEF FlowInv, InvTypeOK, RecordsDistinct, RowsEvolve, LinkState, Exists
<1>3. \A h \in Clerks : Knows(clerk[h])'
  BY <1>1 DEF Knows, Free
<1> QED BY <1>2, <1>3 DEF FlowInv

LEMMA FlowStep == MailInv /\ FlowInv /\ [InvNext]_invVars => FlowInv' /\ RowsEvolve
<1> SUFFICES ASSUME MailInv, FlowInv, [InvNext]_invVars PROVE FlowInv' /\ RowsEvolve
  OBVIOUS
<1>1. ASSUME NEW h \in Clerks, NEW email \in Emails, NEW send \in BOOLEAN, ReadCreate(h, email, send)
      PROVE  FlowInv' /\ RowsEvolve
  <2>1. FreshCode \in Nat
    BY FreshCodeIsFound DEF FlowInv
  <2>2. Read(h, [op |-> "create", email |-> email, code |-> FreshCode, send |-> send])
    BY <1>1 DEF ReadCreate
  <2>3. Knows([op |-> "create", email |-> email, code |-> FreshCode, send |-> send])
    BY <2>1 DEF Knows
  <2> QED BY <2>2, <2>3, ReadFlows
<1>2. ASSUME NEW h \in Clerks, NEW r \in Records, ReadResend(h, r)
      PROVE  FlowInv' /\ RowsEvolve
  <2>1. Knows([op |-> "resend", of |-> r, links |-> Pending(r)])
    BY <1>2, PendingKnown DEF ReadResend
  <2> QED BY <1>2, <2>1, ReadFlows DEF ReadResend
<1>3. ASSUME NEW h \in Clerks, NEW r \in Records, ReadRevoke(h, r)
      PROVE  FlowInv' /\ RowsEvolve
  <2>1. Knows([op |-> "revoke", of |-> r, links |-> Pending(r)])
    BY <1>3, PendingKnown DEF ReadRevoke
  <2> QED BY <1>3, <2>1, ReadFlows DEF ReadRevoke
<1>4. ASSUME NEW h \in Clerks, NEW r \in Records, ReadExpired(h, r)
      PROVE  FlowInv' /\ RowsEvolve
  <2>1. PICK late \in SUBSET Pending(r) : Read(h, [op |-> "expire", of |-> r, links |-> late])
    BY <1>4 DEF ReadExpired
  <2>2. Knows([op |-> "expire", of |-> r, links |-> late])
    BY <1>4, PendingKnown DEF ReadExpired
  <2> QED BY <2>1, <2>2, ReadFlows
<1>5. ASSUME NEW h \in Clerks, NEW i \in Links, ReadAccept(h, i)
      PROVE  FlowInv' /\ RowsEvolve
  <2>1. /\ invite[i] # Gone /\ invite[i].status = "pending" /\ invite[i].expires > hour
        /\ Exists(invite[i].of)
        /\ Read(h, [op |-> "accept", of |-> invite[i].of, links |-> {i}])
    BY <1>5 DEF ReadAccept
  <2>2. i <= sent /\ invite[i].accepted = Gone /\ invite[i].revoked = Gone
    BY <2>1 DEF FlowInv, LinkState
  <2>3. invite[i].of \in Records /\ invite[i].of <= created
    BY <2>1 DEF Exists, MailInv, RowsInv
  <2>4. Knows([op |-> "accept", of |-> invite[i].of, links |-> {i}])
    BY <2>1, <2>2, <2>3 DEF Knows
  <2> QED BY <2>1, <2>4, ReadFlows
<1>6. ASSUME NEW h \in Clerks, CommitResend(h) PROVE FlowInv' /\ RowsEvolve
  <2>1. /\ Done(h) /\ RowsRemain(clerk[h]) /\ clerk[h].op = "resend"
        /\ sent + 1 \in Links /\ sent' = sent + 1
        /\ invite' = [Closed(clerk[h].links, "revoked") EXCEPT ![sent + 1] = NewLink(clerk[h].of)]
        /\ mailed' = mailed \cup {employee[clerk[h].of].email}
        /\ UNCHANGED <<employee, created, accounts, hour>>
    BY <1>6 DEF CommitResend, Holds
  <2>2. employee[clerk[h].of].email \in Emails
    BY <2>1 DEF RowsRemain, Exists, MailInv, RowsInv
  <2>3. mailed' \subseteq Emails /\ accounts' \subseteq Emails
        /\ employee' \in [Records -> EmployeeRows \cup {Gone}]
    BY <2>1, <2>2 DEF FlowInv, InvTypeOK
  <2> QED BY <2>1, <2>3, LinksFlow DEF Exists
<1>7. ASSUME NEW h \in Clerks, CommitClose(h) PROVE FlowInv' /\ RowsEvolve
  <2>1. /\ Done(h) /\ RowsRemain(clerk[h]) /\ clerk[h].op \in {"revoke", "expire"}
        /\ UNCHANGED <<employee, created, sent, accounts, mailed, hour>>
    BY <1>7 DEF CommitClose, Holds
  <2>2. PICK status \in {"revoked", "expired"} : invite' = Closed(clerk[h].links, status)
    BY <1>7 DEF CommitClose
  <2>3. mailed' \subseteq Emails /\ accounts' \subseteq Emails
        /\ employee' \in [Records -> EmployeeRows \cup {Gone}]
    BY <2>1 DEF FlowInv, InvTypeOK
  <2> QED BY <2>1, <2>2, <2>3, LinksFlow DEF Exists
<1>8. ASSUME NEW h \in Clerks, CommitAccept(h) PROVE FlowInv' /\ RowsEvolve
  <2>1. /\ Done(h) /\ RowsRemain(clerk[h]) /\ clerk[h].op = "accept"
        /\ invite' = Closed(clerk[h].links, "accepted")
        /\ accounts' = accounts \cup {employee[clerk[h].of].email}
        /\ employee' = [employee EXCEPT ![clerk[h].of].linked = TRUE]
        /\ UNCHANGED <<created, sent, mailed, hour>>
    BY <1>8 DEF CommitAccept, Holds
  <2> DEFINE r == clerk[h].of
  <2>2. r \in Records /\ employee[r] \in EmployeeRows
    BY <2>1 DEF RowsRemain, Exists, FlowInv, InvTypeOK
  <2>3. \A s \in Records : employee'[s] = IF s = r THEN [employee[s] EXCEPT !.linked = TRUE]
                                          ELSE employee[s]
    BY <2>1 DEF FlowInv, InvTypeOK
  <2>4. /\ [employee[r] EXCEPT !.linked = TRUE] \in EmployeeRows
        /\ [employee[r] EXCEPT !.linked = TRUE].email = employee[r].email
        /\ [employee[r] EXCEPT !.linked = TRUE].code = employee[r].code
    BY <2>2 DEF EmployeeRows
  <2>5. employee' \in [Records -> EmployeeRows \cup {Gone}]
    BY <2>1, <2>4 DEF FlowInv, InvTypeOK
  <2>6. mailed' \subseteq Emails /\ accounts' \subseteq Emails
    <3>1. employee[r].email \in Emails
      BY <2>2 DEF EmployeeRows
    <3> QED BY <2>1, <3>1 DEF FlowInv, InvTypeOK
  <2> HIDE DEF r
  <2>7. ASSUME NEW s \in Records
        PROVE  /\ Exists(s)' <=> Exists(s)
               /\ Exists(s) => /\ employee'[s].email = employee[s].email
                              /\ employee'[s].code = employee[s].code
    <3>1. [employee[r] EXCEPT !.linked = TRUE] # Gone /\ employee[r] # Gone
      BY <2>2, <2>4, GoneAssumption
    <3> QED BY <2>3, <2>4, <3>1 DEF Exists
  <2> QED BY <2>1, <2>5, <2>6, <2>7, LinksFlow
<1>9. ASSUME NEW h \in Clerks, Abandon(h) PROVE FlowInv' /\ RowsEvolve
  <2>1. Done(h) /\ UNCHANGED <<employee, invite, created, sent, accounts, mailed, hour>>
    BY <1>9 DEF Abandon
  <2>2. Knows(Free)
    BY DEF Knows, Free
  <2>3. InvTypeOK' /\ RecordsDistinct' /\ RowsEvolve /\ \A i \in Links : LinkState(i)'
    BY <2>1 DEF FlowInv, InvTypeOK, RecordsDistinct, RowsEvolve, LinkState, Exists
  <2>4. {created', sent'} \subseteq Nat /\ created <= created' /\ sent <= sent'
    BY <2>1 DEF MailInv, RowsInv
  <2>5. \A k \in Clerks : Knows(clerk[k])'
    BY <2>1, <2>3, <2>4, DoneThreads, ThreadsKnow
  <2> QED BY <2>3, <2>5 DEF FlowInv
<1>10. CASE UNCHANGED invVars
  <2>1. InvTypeOK' /\ RecordsDistinct' /\ RowsEvolve /\ \A i \in Links : LinkState(i)'
    BY <1>10 DEF invVars, FlowInv, InvTypeOK, RecordsDistinct, RowsEvolve, LinkState, Exists
  <2>2. \A k \in Clerks : Knows(clerk[k])'
    BY <1>10 DEF invVars, FlowInv, Knows
  <2> QED BY <2>1, <2>2 DEF FlowInv
<1> QED BY <1>1, <1>2, <1>3, <1>4, <1>5, <1>6, <1>7, <1>8, <1>9, <1>10,
           CreateFlows, DeleteFlows, HourFlows DEF InvNext

(***************************************************************************)
(* The steps of LinksInv.                                                  *)
(***************************************************************************)

\* A step that closes no link as accepted.
LEMMA NothingAccepted ==
  ASSUME RegisteredOnce, LinksCloseOnce,
         \A i \in Links : invite'[i] # Gone /\ invite'[i].accepted # Gone =>
           /\ invite[i] # Gone
           /\ invite'[i].of = invite[i].of /\ invite'[i].expires = invite[i].expires
           /\ invite'[i].accepted = invite[i].accepted
           /\ invite'[i].revoked \in {invite[i].revoked, invite[i].accepted}
           /\ employee'[invite[i].of] = employee[invite[i].of],
         accounts \subseteq accounts'
  PROVE  RegisteredOnce' /\ LinksCloseOnce'
<1>1. ASSUME NEW i \in Links, invite'[i] # Gone, invite'[i].accepted # Gone
      PROVE  /\ employee'[invite'[i].of].linked /\ employee'[invite'[i].of].email \in accounts'
             /\ invite'[i].accepted < invite'[i].expires
             /\ invite'[i].revoked \in {Gone, invite'[i].accepted}
  <2>1. /\ invite[i] # Gone /\ invite[i].accepted # Gone
        /\ invite'[i].of = invite[i].of /\ invite'[i].expires = invite[i].expires
        /\ invite'[i].accepted = invite[i].accepted
        /\ invite'[i].revoked \in {invite[i].revoked, invite[i].accepted}
        /\ employee'[invite[i].of] = employee[invite[i].of]
    BY <1>1
  <2>2. employee[invite[i].of].linked /\ employee[invite[i].of].email \in accounts
    BY <2>1 DEF RegisteredOnce
  <2>3. invite[i].accepted < invite[i].expires /\ invite[i].revoked \in {Gone, invite[i].accepted}
    BY <2>1 DEF LinksCloseOnce
  <2> QED BY <2>1, <2>2, <2>3
<1>2. ASSUME NEW i \in Links, NEW k \in Links \ {i}, invite'[i] # Gone, invite'[i].accepted # Gone,
             invite'[k] # Gone, invite'[k].of = invite'[i].of, invite'[k].accepted # Gone
      PROVE  FALSE
  <2>1. /\ invite[i] # Gone /\ invite[i].accepted # Gone /\ invite[k] # Gone
        /\ invite[k].accepted # Gone /\ invite[k].of = invite[i].of
    BY <1>2
  <2> QED BY <2>1 DEF RegisteredOnce
<1> QED BY <1>1, <1>2 DEF RegisteredOnce, LinksCloseOnce

LEMMA AcceptLinks ==
  ASSUME MailInv, FlowInv, RegisteredOnce, LinksCloseOnce, NEW h \in Clerks, CommitAccept(h)
  PROVE  RegisteredOnce' /\ LinksCloseOnce'
<1>0. PICK t, r : t = clerk[h] /\ r = t.of
  OBVIOUS
<1>1. /\ t.op = "accept" /\ Exists(r) /\ \A i \in t.links : invite[i] # Gone
      /\ employee[r].email \notin accounts
      /\ accounts' = accounts \cup {employee[r].email}
      /\ employee' = [employee EXCEPT ![r].linked = TRUE]
      /\ invite' = Closed(t.links, "accepted")
  BY <1>0 DEF CommitAccept, Holds, RowsRemain
<1>2. PICK q \in Links : t.links = {q}
  BY <1>0, <1>1 DEF FlowInv, Knows
<1>3. /\ invite[q] # Gone /\ invite[q].of = r /\ invite[q].accepted \in {Gone, hour}
      /\ invite[q].expires > hour /\ invite[q].revoked \in {Gone, hour}
  <2>1. Knows(t) /\ invite[q] # Gone
    BY <1>0, <1>1, <1>2 DEF FlowInv
  <2> QED BY <1>0, <1>1, <1>2, <2>1 DEF Knows
<1>4. InvTypeOK /\ r \in Records /\ hour \in Int /\ hour # Gone /\ invite[q].expires \in Int
  <2>1. invite[q] \in LinkRows
    BY <1>3 DEF FlowInv, InvTypeOK
  <2> QED BY <1>1, <2>1, InvitationBounds DEF FlowInv, InvTypeOK, Exists, Times, LinkRows
<1>5. /\ invite'[q].of = r /\ invite'[q].expires = invite[q].expires
      /\ invite'[q].accepted = hour /\ invite'[q].revoked = invite[q].revoked
      /\ \A i \in Links \ {q} : invite'[i] = invite[i]
  BY <1>1, <1>2, <1>3, <1>4, ClosedRow
<1>6. ASSUME NEW i \in Links, invite[i] # Gone, invite[i].accepted # Gone
      PROVE  invite[i].of # r /\ invite[i].of \in Records
  BY <1>1, <1>4, <1>6 DEF RegisteredOnce, InvTypeOK, Exists
<1>7. employee'[r].linked /\ employee'[r].email \in accounts'
  <2>1. employee[r] \in EmployeeRows /\ employee'[r] = [employee[r] EXCEPT !.linked = TRUE]
    BY <1>1, <1>4 DEF InvTypeOK, Exists
  <2>2. employee'[r].linked = TRUE /\ employee'[r].email = employee[r].email
    BY <2>1 DEF EmployeeRows
  <2> QED BY <1>1, <2>2
<1>8. \A s \in Records : s # r => employee'[s] = employee[s]
  BY <1>1, <1>4 DEF InvTypeOK
<1>9. ASSUME NEW i \in Links, invite'[i] # Gone, invite'[i].accepted # Gone
      PROVE  /\ employee'[invite'[i].of].linked /\ employee'[invite'[i].of].email \in accounts'
             /\ \A k \in Links \ {i} :
                  invite'[k] # Gone /\ invite'[k].of = invite'[i].of => invite'[k].accepted = Gone
  <2>1. CASE i = q
    BY <1>5, <1>6, <1>7, <2>1
  <2>2. CASE i # q
    <3>1. invite'[i] = invite[i] /\ invite[i].of # r /\ employee'[invite[i].of] = employee[invite[i].of]
      BY <1>5, <1>6, <1>8, <1>9, <2>2
    <3> QED BY <1>1, <1>5, <1>9, <3>1 DEF RegisteredOnce
  <2> QED BY <2>1, <2>2
<1>10. ASSUME NEW i \in Links, invite'[i] # Gone, invite'[i].accepted # Gone
       PROVE  invite'[i].accepted < invite'[i].expires /\ invite'[i].revoked \in {Gone, invite'[i].accepted}
  <2>1. CASE i = q
    BY <1>3, <1>4, <1>5, <2>1
  <2>2. CASE i # q
    BY <1>5, <1>10, <2>2 DEF LinksCloseOnce
  <2> QED BY <2>1, <2>2
<1> QED BY <1>9, <1>10 DEF RegisteredOnce, LinksCloseOnce

\* Fewer links are outstanding; a thread that has begun to resend has read them.
LEMMA SendersKeep ==
  ASSUME NEW r \in Records, Senders(r), Pending(r)' \subseteq Pending(r),
         \A h \in Clerks : clerk'[h].op = "resend" /\ clerk'[h].of = r =>
           clerk'[h] = clerk[h] \/ Pending(r)' \subseteq clerk'[h].links
  PROVE  Senders(r)'
<1>1. PICK f \in Injection(Pending(r), Clerks) :
        \A h \in Clerks, i \in Pending(r) :
          clerk[h].op = "resend" /\ clerk[h].of = r /\ f[i] = h => i \in clerk[h].links
  BY DEF Senders
<1> DEFINE P == Pending(r)'
           g == [i \in P |-> f[i]]
<1>2. P \subseteq Pending(r)
  OBVIOUS
<1>3. \A i, k \in Pending(r) : f[i] \in Clerks /\ (f[i] = f[k] => i = k)
  BY <1>1 DEF Injection, IsInjective
<1> HIDE DEF P
<1>4. g \in Injection(P, Clerks)
  BY <1>2, <1>3 DEF Injection, IsInjective
<1>5. ASSUME NEW h \in Clerks, NEW i \in P, clerk'[h].op = "resend", clerk'[h].of = r, g[i] = h
      PROVE  i \in clerk'[h].links
  BY <1>1, <1>2, <1>5 DEF P
<1> QED BY <1>4, <1>5 DEF Senders, P

\* One link more is outstanding: the thread that sent it answers for it, and for
\* none of the others.
LEMMA SenderAdded ==
  ASSUME NEW r \in Records, Senders(r), NEW h \in Clerks, NEW q,
         q \notin Pending(r), Pending(r)' \subseteq Pending(r) \cup {q},
         clerk'[h] = Free, \A k \in Clerks \ {h} : clerk'[k] = clerk[k],
         \/ Pending(r) = {}
         \/ /\ clerk[h].op = "resend" /\ clerk[h].of = r
            /\ \A i \in Pending(r)' : i \notin clerk[h].links
  PROVE  Senders(r)'
<1>1. PICK f \in Injection(Pending(r), Clerks) :
        \A k \in Clerks, i \in Pending(r) :
          clerk[k].op = "resend" /\ clerk[k].of = r /\ f[i] = k => i \in clerk[k].links
  BY DEF Senders
<1> DEFINE P == Pending(r)'
           g == [i \in P |-> IF i = q THEN h ELSE f[i]]
<1>2. P \subseteq Pending(r) \cup {q}
  OBVIOUS
<1>3. \A i, k \in Pending(r) : f[i] \in Clerks /\ (f[i] = f[k] => i = k)
  BY <1>1 DEF Injection, IsInjective
<1>4. \A i \in P : i # q => i \in Pending(r) /\ f[i] # h
  BY <1>1, <1>2
<1> HIDE DEF P
<1>5. g \in Injection(P, Clerks)
  BY <1>2, <1>3, <1>4 DEF Injection, IsInjective
<1>6. ASSUME NEW k \in Clerks, NEW i \in P, clerk'[k].op = "resend", clerk'[k].of = r, g[i] = k
      PROVE  i \in clerk'[k].links
  <2>1. k # h
    BY <1>6 DEF Free
  <2>2. i # q /\ f[i] = k /\ clerk'[k] = clerk[k]
    BY <1>6, <2>1
  <2> QED BY <1>1, <1>4, <1>6, <2>2
<1> QED BY <1>5, <1>6 DEF Senders, P

LEMMA ReadLinks ==
  ASSUME MailInv, LinksInv, NEW h \in Clerks, NEW t, Read(h, t),
         t.op = "resend" => t.links = Pending(t.of)
  PROVE  LinksInv'
<1>1. /\ UNCHANGED <<employee, invite, accounts>>
      /\ \A k \in Clerks : clerk'[k] = IF k = h THEN t ELSE clerk[k]
  BY DEF Read, MailInv
<1>2. RegisteredOnce' /\ LinksCloseOnce'
  BY <1>1 DEF LinksInv, RegisteredOnce, LinksCloseOnce
<1>3. ASSUME NEW r \in Records PROVE Senders(r)'
  <2>1. Pending(r)' = Pending(r)
    BY <1>1 DEF Pending
  <2>2. \A k \in Clerks : clerk'[k].op = "resend" /\ clerk'[k].of = r =>
          clerk'[k] = clerk[k] \/ Pending(r)' \subseteq clerk'[k].links
    BY <1>1, <2>1
  <2>3. Senders(r)
    BY DEF LinksInv
  <2> QED BY <2>1, <2>2, <2>3, SendersKeep
<1> QED BY <1>2, <1>3 DEF LinksInv

\* A commit that sends nothing and closes links, or none.
LEMMA CloseSenders ==
  ASSUME LinksInv,
         \A i \in Links : invite'[i] # Gone =>
           /\ invite[i] # Gone /\ invite'[i].of = invite[i].of
           /\ invite'[i].status = "pending" => invite[i].status = "pending",
         \A k \in Clerks : clerk'[k] \in {clerk[k], Free}
  PROVE  \A r \in Records : Senders(r)'
<1> SUFFICES ASSUME NEW r \in Records PROVE Senders(r)'
  OBVIOUS
<1>1. Pending(r)' \subseteq Pending(r)
  BY DEF Pending
<1>2. \A k \in Clerks : clerk'[k].op = "resend" => clerk'[k] = clerk[k]
  BY DEF Free
<1> QED BY <1>1, <1>2, SendersKeep DEF LinksInv

LEMMA CreateLinks ==
  ASSUME MailInv, FlowInv, LinksInv, NEW h \in Clerks, CommitCreate(h)
  PROVE  LinksInv'
<1>0. PICK r : r = created + 1
  OBVIOUS
<1>1. /\ r \in Records /\ Done(h) /\ UNCHANGED accounts
      /\ \E row : employee' = [employee EXCEPT ![r] = row]
      /\ \/ UNCHANGED invite
         \/ sent + 1 \in Links /\ invite' = [invite EXCEPT ![sent + 1] = NewLink(r)]
  BY <1>0 DEF CommitCreate
<1>2. sent \in Nat /\ created \in Nat /\ InvTypeOK
  BY DEF MailInv, RowsInv, FlowInv
<1>3. NewLink(r).of = r /\ NewLink(r).accepted = Gone
  BY <1>1, <1>2, NewLinkRow
<1>4. \A i \in Links : invite'[i] = invite[i] \/ (i = sent + 1 /\ invite'[i] = NewLink(r))
  BY <1>1, <1>2 DEF InvTypeOK
<1>5. \A i \in Links : invite[i] # Gone => invite[i].of \in Records /\ invite[i].of # r
  <2> SUFFICES ASSUME NEW i \in Links, invite[i] # Gone
               PROVE  invite[i].of \in Records /\ invite[i].of # r
    OBVIOUS
  <2>1. invite[i].of \in Records /\ invite[i].of <= created
    BY DEF MailInv, LinkInv
  <2> QED BY <1>0, <1>2, <2>1
<1>6. \A s \in Records : s # r => employee'[s] = employee[s]
  BY <1>1, <1>2 DEF InvTypeOK
<1>7. RegisteredOnce' /\ LinksCloseOnce'
  <2>1. \A i \in Links : invite'[i] # Gone /\ invite'[i].accepted # Gone =>
          /\ invite[i] # Gone /\ invite'[i] = invite[i]
          /\ employee'[invite[i].of] = employee[invite[i].of]
    BY <1>3, <1>4, <1>5, <1>6
  <2> QED BY <1>1, <2>1, NothingAccepted DEF LinksInv
<1>8. ASSUME NEW s \in Records PROVE Senders(s)'
  <2>1. Senders(s)
    BY DEF LinksInv
  <2>2. /\ clerk'[h] = Free
        /\ \A k \in Clerks : clerk'[k] \in {clerk[k], Free} /\ (k # h => clerk'[k] = clerk[k])
    BY <1>1, DoneThreads
  <2>3. CASE s = r
    <3>1. Pending(r) = {}
      BY <1>5 DEF Pending
    <3>2. Pending(r)' \subseteq Pending(r) \cup {sent + 1}
      BY <1>4 DEF Pending
    <3> QED BY <2>1, <2>2, <2>3, <3>1, <3>2, SenderAdded
  <2>4. CASE s # r
    <3>1. Pending(s)' \subseteq Pending(s)
      BY <1>3, <1>4, <2>4 DEF Pending
    <3>2. \A k \in Clerks : clerk'[k].op = "resend" => clerk'[k] = clerk[k]
      BY <2>2 DEF Free
    <3> QED BY <2>1, <3>1, <3>2, SendersKeep
  <2> QED BY <2>3, <2>4
<1> QED BY <1>7, <1>8 DEF LinksInv

LEMMA ResendLinks ==
  ASSUME MailInv, FlowInv, LinksInv, NEW h \in Clerks, CommitResend(h)
  PROVE  LinksInv'
<1>0. PICK t, r, S, new, c : /\ t = clerk[h] /\ r = t.of /\ S = t.links
                             /\ new = NewLink(r) /\ c = Closed(S, "revoked")
  OBVIOUS
<1>1. /\ t.op = "resend" /\ Exists(r) /\ \A i \in S : invite[i] # Gone
      /\ sent + 1 \in Links /\ invite' = [c EXCEPT ![sent + 1] = new]
      /\ Done(h) /\ UNCHANGED <<employee, accounts>>
  BY <1>0 DEF CommitResend, Holds, RowsRemain
<1>2. /\ InvTypeOK /\ sent \in Nat /\ r \in Records
      /\ \A i \in S : i \in Links /\ i # sent + 1 /\ invite[i].of = r /\ invite[i].accepted \in {Gone, hour}
  <2>1. InvTypeOK /\ sent \in Nat /\ r \in Records /\ Knows(t)
    BY <1>0, <1>1 DEF FlowInv, MailInv, RowsInv, Exists
  <2>2. \A i \in S : i \in Links /\ i <= sent /\ invite[i].of = r /\ invite[i].accepted \in {Gone, hour}
    BY <1>0, <1>1, <2>1 DEF Knows
  <2>3. \A i \in S : i # sent + 1
    BY <2>1, <2>2
  <2> QED BY <2>1, <2>2, <2>3
<1>3. new.of = r /\ new.accepted = Gone
  BY <1>0, <1>2, NewLinkRow
<1>4. \A i \in Links : invite'[i] = IF i = sent + 1 THEN new ELSE c[i]
  BY <1>0, <1>1 DEF Closed
<1>5. ASSUME NEW i \in S
      PROVE  /\ invite'[i].of = invite[i].of /\ invite'[i].expires = invite[i].expires
             /\ invite'[i].status = "revoked"
             /\ invite'[i].accepted = invite[i].accepted /\ invite'[i].revoked = hour
  BY <1>0, <1>1, <1>2, <1>4, <1>5, ClosedRow
<1>6. ASSUME NEW i \in Links, i \notin S PROVE i = sent + 1 \/ invite'[i] = invite[i]
  BY <1>0, <1>2, <1>4, <1>6, ClosedRow
<1>7. RegisteredOnce' /\ LinksCloseOnce'
  <2> SUFFICES ASSUME NEW i \in Links, invite'[i] # Gone, invite'[i].accepted # Gone
               PROVE  /\ invite[i] # Gone
                      /\ invite'[i].of = invite[i].of /\ invite'[i].expires = invite[i].expires
                      /\ invite'[i].accepted = invite[i].accepted
                      /\ invite'[i].revoked \in {invite[i].revoked, invite[i].accepted}
    BY <1>1, NothingAccepted DEF LinksInv
  <2>1. CASE i \in S
    BY <1>1, <1>2, <1>5, <2>1
  <2>2. CASE i \notin S
    <3>1. i # sent + 1
      BY <1>3, <1>4
    <3> QED BY <1>6, <2>2, <3>1
  <2> QED BY <2>1, <2>2
<1>8. ASSUME NEW s \in Records PROVE Senders(s)'
  <2>1. Senders(s)
    BY DEF LinksInv
  <2>2. /\ clerk'[h] = Free
        /\ \A k \in Clerks : clerk'[k] \in {clerk[k], Free} /\ (k # h => clerk'[k] = clerk[k])
    BY <1>1, DoneThreads
  <2>3. ASSUME NEW i \in Pending(s)', i # sent + 1 PROVE i \in Pending(s) /\ i \notin S
    BY <1>5, <1>6, <2>3 DEF Pending
  <2>4. CASE s = r
    <3>1. sent + 1 \notin Pending(r)
      BY <1>2 DEF Pending, FlowInv, LinkState
    <3>2. sent + 1 \notin S
      BY <1>2
    <3>3. Pending(r)' \subseteq Pending(r) \cup {sent + 1} /\ \A i \in Pending(r)' : i \notin S
      BY <2>3, <2>4, <3>2
    <3> QED BY <1>0, <1>1, <2>1, <2>2, <2>4, <3>1, <3>3, SenderAdded
  <2>5. CASE s # r
    <3>1. Pending(s)' \subseteq Pending(s)
      BY <1>3, <1>4, <2>3, <2>5 DEF Pending
    <3>2. \A k \in Clerks : clerk'[k].op = "resend" => clerk'[k] = clerk[k]
      BY <2>2 DEF Free
    <3> QED BY <2>1, <3>1, <3>2, SendersKeep
  <2> QED BY <2>4, <2>5
<1> QED BY <1>7, <1>8 DEF LinksInv

LEMMA CloseLinks ==
  ASSUME MailInv, FlowInv, LinksInv, NEW h \in Clerks, CommitClose(h) \/ CommitAccept(h)
  PROVE  LinksInv'
<1>0. PICK t, S : t = clerk[h] /\ S = t.links
  OBVIOUS
<1>1. PICK status \in {"revoked", "expired", "accepted"} :
        /\ invite' = Closed(S, status) /\ \A i \in S : invite[i] # Gone
        /\ t.op \in {"revoke", "expire", "accept"} /\ Done(h)
        /\ CommitClose(h) =>
             status # "accepted" /\ UNCHANGED <<employee, accounts>>
  BY <1>0 DEF CommitClose, CommitAccept, RowsRemain, Holds
<1>2. /\ InvTypeOK
      /\ \A i \in S : i \in Links /\ invite[i].accepted \in {Gone, hour}
  <2>1. InvTypeOK /\ Knows(t)
    BY <1>0 DEF FlowInv
  <2> QED BY <1>0, <1>1, <2>1 DEF Knows
<1>3. ASSUME NEW i \in Links
      PROVE  /\ i \notin S => invite'[i] = invite[i]
             /\ i \in S =>
                  /\ invite'[i].of = invite[i].of /\ invite'[i].expires = invite[i].expires
                  /\ invite'[i].status = status
                  /\ invite'[i].accepted = IF status = "accepted" THEN hour ELSE invite[i].accepted
                  /\ invite'[i].revoked = IF status = "revoked" THEN hour ELSE invite[i].revoked
  BY <1>1, <1>2, ClosedRow
<1>4. RegisteredOnce' /\ LinksCloseOnce'
  <2>1. CASE CommitAccept(h)
    BY <2>1, AcceptLinks DEF LinksInv
  <2>2. CASE CommitClose(h)
    <3>1. status # "accepted" /\ UNCHANGED <<employee, accounts>>
      BY <1>1, <2>2
    <3>2. ASSUME NEW i \in Links, invite'[i] # Gone, invite'[i].accepted # Gone
          PROVE  /\ invite[i] # Gone
                 /\ invite'[i].of = invite[i].of /\ invite'[i].expires = invite[i].expires
                 /\ invite'[i].accepted = invite[i].accepted
                 /\ invite'[i].revoked \in {invite[i].revoked, invite[i].accepted}
      BY <1>1, <1>2, <1>3, <3>1, <3>2
    <3> QED BY <3>1, <3>2, NothingAccepted DEF LinksInv
  <2> QED BY <2>1, <2>2
<1>5. \A r \in Records : Senders(r)'
  <2>1. \A i \in Links : invite'[i] # Gone =>
          /\ invite[i] # Gone /\ invite'[i].of = invite[i].of
          /\ invite'[i].status = "pending" => invite[i].status = "pending"
    BY <1>1, <1>3
  <2>2. \A k \in Clerks : clerk'[k] \in {clerk[k], Free}
    BY <1>1, DoneThreads
  <2> QED BY <2>1, <2>2, CloseSenders
<1> QED BY <1>4, <1>5 DEF LinksInv

LEMMA DeleteLinks ==
  ASSUME FlowInv, LinksInv, NEW r \in Records, DeleteEmployee(r)
  PROVE  LinksInv'
<1>1. /\ \A s \in Records \ {r} : employee'[s] = employee[s]
      /\ \A i \in Links : invite'[i] # Gone =>
           invite'[i] = invite[i] /\ invite[i].of # r /\ invite[i].of \in Records
      /\ UNCHANGED <<accounts, clerk>>
  BY DEF DeleteEmployee, FlowInv, InvTypeOK, Exists
<1>2. RegisteredOnce' /\ LinksCloseOnce'
  BY <1>1, NothingAccepted DEF LinksInv
<1>3. \A s \in Records : Senders(s)'
  BY <1>1, CloseSenders
<1> QED BY <1>2, <1>3 DEF LinksInv

LEMMA LinksInit == InvInit => LinksInv
<1> SUFFICES ASSUME InvInit PROVE LinksInv
  OBVIOUS
<1>1. \A i \in Links : invite[i] = Gone
  BY DEF InvInit
<1>2. RegisteredOnce /\ LinksCloseOnce
  BY <1>1 DEF RegisteredOnce, LinksCloseOnce
<1>3. ASSUME NEW r \in Records PROVE Senders(r)
  <2>1. Pending(r) = {}
    BY <1>1 DEF Pending
  <2>2. PICK f : f = [i \in {} |-> i]
    OBVIOUS
  <2>3. f \in Injection(Pending(r), Clerks)
    BY <2>1, <2>2 DEF Injection, IsInjective
  <2> QED BY <2>1, <2>3 DEF Senders
<1> QED BY <1>2, <1>3 DEF LinksInv

LEMMA LinksStep == MailInv /\ FlowInv /\ LinksInv /\ [InvNext]_invVars => LinksInv'
<1> SUFFICES ASSUME MailInv, FlowInv, LinksInv, [InvNext]_invVars PROVE LinksInv'
  OBVIOUS
<1>1. ASSUME NEW h \in Clerks, NEW email \in Emails, NEW send, ReadCreate(h, email, send)
      PROVE  LinksInv'
  BY <1>1, ReadLinks DEF ReadCreate
<1>2. ASSUME NEW h \in Clerks, NEW r \in Records, ReadResend(h, r) PROVE LinksInv'
  BY <1>2, ReadLinks DEF ReadResend
<1>3. ASSUME NEW h \in Clerks, NEW r \in Records, ReadRevoke(h, r) PROVE LinksInv'
  BY <1>3, ReadLinks DEF ReadRevoke
<1>4. ASSUME NEW h \in Clerks, NEW r \in Records, ReadExpired(h, r) PROVE LinksInv'
  <2>1. PICK late : Read(h, [op |-> "expire", of |-> r, links |-> late])
    BY <1>4 DEF ReadExpired
  <2> QED BY <2>1, ReadLinks
<1>5. ASSUME NEW h \in Clerks, NEW i \in Links, ReadAccept(h, i) PROVE LinksInv'
  <2>1. Read(h, [op |-> "accept", of |-> invite[i].of, links |-> {i}])
    BY <1>5 DEF ReadAccept
  <2> QED BY <2>1, ReadLinks
<1>6. ASSUME UNCHANGED <<employee, invite, accounts>>,
             \A k \in Clerks : clerk'[k] \in {clerk[k], Free}
      PROVE  LinksInv'
  <2>1. RegisteredOnce' /\ LinksCloseOnce'
    BY <1>6 DEF LinksInv, RegisteredOnce, LinksCloseOnce
  <2>2. \A r \in Records : Senders(r)'
    BY <1>6, CloseSenders
  <2> QED BY <2>1, <2>2 DEF LinksInv
<1>7. ASSUME NEW h \in Clerks, Abandon(h) PROVE LinksInv'
  BY <1>6, <1>7, DoneThreads DEF Abandon
<1>8. CASE HourPasses \/ UNCHANGED invVars
  BY <1>6, <1>8 DEF HourPasses, invVars
<1> QED BY <1>1, <1>2, <1>3, <1>4, <1>5, <1>7, <1>8, CreateLinks, ResendLinks, CloseLinks, DeleteLinks
      DEF InvNext

LEMMA SendersAreFew ==
  ASSUME NEW r \in Records, Senders(r)
  PROVE  Cardinality(Pending(r)) <= Cardinality(Clerks)
<1>1. \E f \in Injection(Pending(r), Clerks) : TRUE
  BY DEF Senders
<1> QED BY <1>1, FS_Injection, InvitationBounds

\* However creations, resends, revocations, expiries, acceptances and deletions
\* of any number of threads race: a record is registered by one link, in its
\* time, and there are no more links outstanding than threads.
THEOREM SingleUse == InvSpec => []LinksAreSingleUse
<1>1. FlowInv /\ LinksInv => LinksAreSingleUse
  BY SendersAreFew DEF LinksInv, LinksAreSingleUse, FewLinksOutstanding
<1> QED BY <1>1, MailInit, MailStep, FlowInit, FlowStep, LinksInit, LinksStep, PTL DEF InvSpec

LEMMA InvTypeCorrect == InvSpec => [](InvTypeOK /\ RecordsDistinct)
<1>1. FlowInv => InvTypeOK /\ RecordsDistinct
  BY DEF FlowInv
<1> QED BY <1>1, MailInit, MailStep, FlowInit, FlowStep, PTL DEF InvSpec

-----------------------------------------------------------------------------
(***************************************************************************)
(* Sessions.  What a thread has read is of this very minute, for the clock *)
(* waits: so its knowledge can differ from the rows by what other threads  *)
(* have committed since, all of it at this minute.                         *)
(***************************************************************************)

\* The sessions it has not read are revoked or as new as the clock.
EndsTheOlder(t) ==
  \A s \in Stored : session[s].opened < minute => session[s].revoked # Never \/ s \in t.ends

DeskInv(t) ==
  t # Ready =>
    /\ t.read \in UserRows /\ t.ends \subseteq Stored
    /\ t.op \in {"change", "reset"} => EndsTheOlder(t)
    /\ t.op = "reset" =>
         /\ t.link \in ResetIds /\ reset[t.link] # Never
         /\ reset[t.link].used \in {Never, minute}
    /\ t.op = "refresh" => \A s \in t.ends : session[s].revoked \in {Never, minute}
    /\ t.op = "login" =>
         user.locked = Never \/ user.locked <= minute \/ user.locked = minute + LockTime
    /\ t.op \in {"login", "refresh"} /\ ~ user.active => idleSince = minute

ResetInv(x) ==
  x[1] \in ResetIds /\ x[2] \in Minutes /\ reset[x[1]] # Never /\ reset[x[1]].used = x[2]

\* No time is later than the clock.
TimesInv ==
  /\ changedAt \in Minutes /\ changedAt <= minute
  /\ \A s \in Stored : session[s].opened <= minute
  /\ \A a \in access : a.until <= minute + AccessLife
  /\ ~ user.active => idleSince \in Minutes

DesksInv == DOMAIN desk = Desks /\ \A h \in Desks : DeskInv(desk[h])

SesInv ==
  /\ SesTypeOK /\ PasswordEndsSessions /\ RevocationBites /\ InactiveGetsNothing
  /\ TimesInv /\ DesksInv
  /\ \A x \in resetsDone : ResetInv(x)

\* What a commit may do to the rows that others have read.
RowsMove ==
  /\ UNCHANGED minute /\ changedAt' \in {changedAt, minute}
  /\ DOMAIN desk' = Desks /\ \A h \in Desks : desk'[h] \in {desk[h], Ready}
  /\ \A s \in Stored : /\ session'[s] # Never /\ session'[s].opened = session[s].opened
                       /\ session'[s].revoked \in {session[s].revoked, minute}
  /\ \A s \in SessionIds : session[s] = Never /\ session'[s] # Never => session'[s].opened = minute
  /\ \A r \in ResetIds : reset[r] # Never =>
       /\ reset'[r] # Never
       /\ \/ reset'[r].used = reset[r].used
          \/ reset[r].used \in {Never, minute} /\ reset'[r].used = minute
  /\ \A a \in access' :
       \/ a \in access
       \/ /\ a.until = minute + AccessLife /\ a.of \in Stored'
          /\ session'[a.of].revoked \in {Never, minute}
  /\ user'.locked \in {user.locked, Never, minute + LockTime}
  /\ ~ user'.active => idleSince' = minute \/ (~ user.active /\ idleSince' = idleSince)
  /\ Stored' # Stored \/ access' # access => user.active = user'.active /\ (user.active \/ idleSince = minute)

\* The columns that a transaction writes are its own, the others are the row's.
LEMMA WriteRow ==
  ASSUME user \in UserRows, NEW h, desk[h].read \in UserRows, NEW new \in UserRows, Write(h, new)
  PROVE  /\ user' \in UserRows
         /\ user'.active \in {user.active, new.active}
         /\ new.active = desk[h].read.active => user'.active = user.active
         /\ user'.locked \in {user.locked, new.locked}
<1>1. PICK read : read = desk[h].read
  OBVIOUS
<1>2. user' = [f \in {"active", "password", "failures", "locked"} |->
                 IF new[f] # read[f] THEN new[f] ELSE user[f]]
  BY <1>1 DEF Write, UserRows
<1>3. user' = [active   |-> IF new.active # read.active THEN new.active ELSE user.active,
               password |-> IF new.password # read.password THEN new.password ELSE user.password,
               failures |-> IF new.failures # read.failures THEN new.failures ELSE user.failures,
               locked   |-> IF new.locked # read.locked THEN new.locked ELSE user.locked]
  BY <1>2
<1> QED BY <1>1, <1>3 DEF UserRows

LEMMA RevokeRows ==
  ASSUME SesTypeOK, NEW S \in SUBSET Stored, Revoke(S)
  PROVE  /\ session' \in [SessionIds -> SessionRows \cup {Never}] /\ Stored' = Stored
         /\ \A s \in Stored :
              /\ session'[s].opened = session[s].opened
              /\ session'[s].revoked = IF s \in S THEN minute ELSE session[s].revoked
<1>1. ASSUME NEW s \in Stored
      PROVE  /\ [session[s] EXCEPT !.revoked = minute] \in SessionRows
             /\ [session[s] EXCEPT !.revoked = minute].opened = session[s].opened
             /\ [session[s] EXCEPT !.revoked = minute].revoked = minute
  BY DEF SesTypeOK, Stored, SessionRows
<1>2. \A s \in SessionIds :
        session'[s] = IF s \in S THEN [session[s] EXCEPT !.revoked = minute] ELSE session[s]
  BY DEF Revoke
<1>3. \A s \in SessionIds : session'[s] \in SessionRows \cup {Never}
  BY <1>1, <1>2 DEF SesTypeOK
<1>4. session' \in [SessionIds -> SessionRows \cup {Never}]
  BY <1>3 DEF Revoke
<1>5. Stored' = Stored
  BY <1>1, <1>2, NeverAssumption DEF Stored
<1> QED BY <1>1, <1>2, <1>4, <1>5 DEF Stored

LEMMA MovesKeepTimes == ASSUME SesInv, RowsMove PROVE TimesInv'
<1>1. minute \in Minutes /\ minute <= minute
  BY SessionBounds DEF SesInv, SesTypeOK, Minutes
<1>2. minute + AccessLife <= minute + AccessLife
  BY <1>1, SessionBounds DEF Minutes
<1>3. ASSUME NEW s \in Stored' PROVE session'[s].opened <= minute
  BY <1>1 DEF SesInv, TimesInv, RowsMove, Stored
<1> QED BY <1>1, <1>2, <1>3 DEF SesInv, TimesInv, RowsMove

LEMMA MovesKeepDesks == ASSUME SesInv, RowsMove PROVE DesksInv'
<1> SUFFICES ASSUME NEW h \in Desks, desk'[h] # Ready PROVE DeskInv(desk[h])'
  BY DEF RowsMove, DesksInv, DeskInv
<1>1. PICK t : t = desk[h]
  OBVIOUS
<1>2. desk'[h] = t /\ DeskInv(t) /\ t # Ready
  BY <1>1 DEF RowsMove, SesInv, DesksInv
<1>3. minute' = minute /\ minute \in Int /\ minute # Never
  BY SessionBounds DEF RowsMove, SesInv, SesTypeOK, Minutes
<1>4. Stored \subseteq Stored'
  BY DEF RowsMove, Stored
<1>5. t.op \in {"change", "reset"} => EndsTheOlder(t)'
  <2> SUFFICES ASSUME EndsTheOlder(t), NEW s \in Stored', session'[s].opened < minute
               PROVE  session'[s].revoked # Never \/ s \in t.ends
    BY <1>2, <1>3 DEF DeskInv, EndsTheOlder
  <2>1. s \in Stored
    BY <1>3 DEF RowsMove, Stored
  <2> QED BY <1>3, <2>1 DEF RowsMove, EndsTheOlder
<1>6. t.op = "refresh" => \A s \in t.ends : session'[s].revoked \in {Never, minute}
  BY <1>2 DEF RowsMove, DeskInv
<1>7. t.op = "reset" => reset'[t.link] # Never /\ reset'[t.link].used \in {Never, minute}
  BY <1>2 DEF RowsMove, DeskInv
<1>8. t.op = "login" =>
        user'.locked = Never \/ user'.locked <= minute \/ user'.locked = minute + LockTime
  BY <1>2 DEF RowsMove, DeskInv
<1>9. t.op \in {"login", "refresh"} /\ ~ user'.active => idleSince' = minute
  BY <1>2 DEF RowsMove, DeskInv
<1>10. t.read \in UserRows /\ t.ends \subseteq Stored' /\ (t.op = "reset" => t.link \in ResetIds)
  BY <1>2, <1>4 DEF DeskInv
<1> QED BY <1>2, <1>3, <1>5, <1>6, <1>7, <1>8, <1>9, <1>10 DEF DeskInv

LEMMA MovesKeepEnds ==
  ASSUME SesInv, RowsMove
  PROVE  /\ RevocationBites' /\ InactiveGetsNothing'
         /\ \A x \in resetsDone : ResetInv(x)'
         /\ changedAt' = changedAt => PasswordEndsSessions'
<1>1. /\ SesTypeOK /\ TimesInv /\ minute' = minute /\ minute \in Int /\ minute # Never
      /\ AccessLife \in Int
  BY SessionBounds DEF RowsMove, SesInv, SesTypeOK, Minutes
<1>2. RevocationBites'
  <2> SUFFICES ASSUME NEW a \in access', session'[a.of].revoked # Never
               PROVE  a.until <= session'[a.of].revoked + AccessLife
    BY DEF RevocationBites
  <2>1. CASE a \in access
    <3>1. a.of \in Stored /\ a.until <= minute + AccessLife
      BY <1>1, <2>1 DEF SesTypeOK, TimesInv
    <3>2. session'[a.of].revoked \in {session[a.of].revoked, minute}
      BY <3>1 DEF RowsMove
    <3> QED BY <2>1, <3>1, <3>2 DEF SesInv, RevocationBites
  <2>2. CASE a \notin access
    <3>1. a.until = minute + AccessLife /\ session'[a.of].revoked = minute
      BY <2>2 DEF RowsMove
    <3> QED BY <1>1, <3>1
  <2> QED BY <2>1, <2>2
<1>3. InactiveGetsNothing'
  <2> SUFFICES ASSUME ~ user'.active
               PROVE  /\ \A s \in Stored' : session'[s].opened <= idleSince'
                      /\ \A a \in access' : a.until <= idleSince' + AccessLife
    BY DEF InactiveGetsNothing
  <2>1. CASE idleSince' = minute
    <3>1. TimesInv'
      BY MovesKeepTimes
    <3> QED BY <1>1, <2>1, <3>1 DEF TimesInv
  <2>2. CASE ~ user.active /\ idleSince' = idleSince /\ idleSince # minute
    <3>1. Stored' = Stored /\ access' = access
      BY <2>2 DEF RowsMove
    <3> QED BY <2>2, <3>1 DEF RowsMove, SesInv, InactiveGetsNothing
  <2> QED BY <2>1, <2>2 DEF RowsMove
<1>4. ASSUME NEW x \in resetsDone PROVE ResetInv(x)'
  <2>1. ResetInv(x)
    BY DEF SesInv
  <2>2. x[1] \in ResetIds /\ reset[x[1]] # Never /\ reset[x[1]].used = x[2] /\ x[2] # Never
    BY <2>1, SessionBounds DEF ResetInv, Minutes
  <2>3. reset'[x[1]] # Never /\ reset'[x[1]].used = x[2]
    BY <2>2 DEF RowsMove
  <2> QED BY <2>1, <2>3 DEF ResetInv
<1>5. ASSUME changedAt' = changedAt, NEW s \in Stored', session'[s].opened < changedAt'
      PROVE  session'[s].revoked # Never
  <2>1. CASE s \in Stored
    <3>1. session'[s].opened = session[s].opened /\ session'[s].revoked \in {session[s].revoked, minute}
      BY <2>1 DEF RowsMove
    <3> QED BY <1>1, <1>5, <2>1, <3>1 DEF SesInv, PasswordEndsSessions
  <2>2. CASE s \notin Stored
    <3>1. session'[s].opened = minute /\ changedAt <= minute /\ changedAt \in Int
      BY <1>1, <2>2, SessionBounds DEF RowsMove, Stored, TimesInv, Minutes
    <3> QED BY <1>1, <1>5, <3>1
  <2> QED BY <2>1, <2>2
<1> QED BY <1>2, <1>3, <1>4, <1>5 DEF PasswordEndsSessions

LEMMA MovesKeep ==
  ASSUME SesInv, RowsMove, SesTypeOK', UNCHANGED <<changedAt, resetsDone>>
  PROVE  SesInv'
BY MovesKeepTimes, MovesKeepDesks, MovesKeepEnds DEF SesInv

\* A thread that begins reads what is true of the rows.
LEMMA OpenKeeps ==
  ASSUME SesInv, NEW h \in Desks, NEW op, NEW S \in SUBSET Stored, NEW r, Open(h, op, S, r),
         op \in {"change", "reset"} => S = Unrevoked,
         op = "reset" => r \in ResetIds /\ reset[r] # Never /\ reset[r].used = Never,
         op = "refresh" => S \subseteq Unrevoked,
         op = "login" => ~ Locked,
         op \in {"login", "refresh"} => user.active
  PROVE  SesInv'
<1> DEFINE t == [op |-> op, read |-> user, ends |-> S, link |-> r]
<1>1. /\ UNCHANGED <<user, session, reset, access, minute, changedAt, idleSince, resetsDone>>
      /\ DOMAIN desk' = Desks /\ \A k \in Desks : desk'[k] = IF k = h THEN t ELSE desk[k]
  BY DEF Open, SesInv, DesksInv
<1>2. DeskInv(t)
  <2>1. op = "login" => user.locked = Never \/ user.locked <= minute
    <3>1. user.locked \in Nat \cup {Never} /\ minute \in Int
      BY SessionBounds DEF SesInv, SesTypeOK, UserRows, Minutes
    <3> QED BY <3>1, SessionBounds DEF Locked
  <2>2. op \in {"change", "reset"} => EndsTheOlder(t)
    BY DEF EndsTheOlder, Unrevoked
  <2>3. t.read = user /\ t.ends = S /\ t.op = op /\ t.link = r /\ user \in UserRows
    BY DEF SesInv, SesTypeOK
  <2>4. op = "refresh" => \A s \in S : session[s].revoked = Never
    BY DEF Unrevoked
  <2> HIDE DEF t
  <2> QED BY <2>1, <2>2, <2>3, <2>4 DEF DeskInv
<1> HIDE DEF t
<1>3. \A k \in Desks : DeskInv(desk[k])'
  <2> SUFFICES ASSUME NEW k \in Desks PROVE DeskInv(desk[k])'
    OBVIOUS
  <2>1. DeskInv(desk'[k])
    BY <1>1, <1>2 DEF SesInv, DesksInv
  <2> QED BY <1>1, <2>1 DEF DeskInv, EndsTheOlder, Stored
<1>4. SesTypeOK' /\ PasswordEndsSessions' /\ RevocationBites' /\ InactiveGetsNothing' /\ TimesInv'
  BY <1>1 DEF SesInv, SesTypeOK, PasswordEndsSessions, RevocationBites, InactiveGetsNothing, TimesInv, Stored
<1>5. \A x \in resetsDone' : ResetInv(x)'
  BY <1>1 DEF SesInv, ResetInv
<1> QED BY <1>1, <1>3, <1>4, <1>5 DEF SesInv, DesksInv

LEMMA CloseDesks ==
  ASSUME SesInv, NEW h \in Desks, Close(h)
  PROVE  DOMAIN desk' = Desks /\ \A k \in Desks : desk'[k] \in {desk[k], Ready}
BY DEF Close, SesInv, DesksInv

\* The rows of a transaction that has begun.
LEMMA HeldRow ==
  ASSUME SesInv, NEW h \in Desks, desk[h] # Ready
  PROVE  DeskInv(desk[h]) /\ desk[h].read \in UserRows /\ user \in UserRows /\ minute \in Nat
BY SessionBounds DEF SesInv, DesksInv, DeskInv, SesTypeOK, Minutes

LEMMA UnlockedRow ==
  ASSUME NEW row \in UserRows
  PROVE  /\ Unlocked(row) \in UserRows /\ Unlocked(row).active = row.active
         /\ Unlocked(row).locked = Never
<1>1. 0 \in 0..(MaxFailures - 1)
  BY SessionBounds
<1> QED BY <1>1 DEF Unlocked, UserRows

LEMMA FailKeeps == ASSUME SesInv, NEW h \in Desks, CommitFail(h) PROVE SesInv'
<1>1. /\ desk[h] # Ready /\ Close(h)
      /\ UNCHANGED <<session, reset, access, minute, changedAt, idleSince, resetsDone>>
  BY DEF CommitFail, Holding
<1>2. PICK new, row : /\ row = desk[h].read /\ Write(h, new)
                      /\ new = IF row.failures + 1 >= MaxFailures
                               THEN [row EXCEPT !.failures = 0, !.locked = minute + LockTime]
                               ELSE [row EXCEPT !.failures = row.failures + 1]
  BY DEF CommitFail
<1>3. row \in UserRows /\ user \in UserRows /\ minute \in Nat
  BY <1>1, <1>2, HeldRow
<1>4. new \in UserRows /\ new.active = row.active /\ new.locked \in {row.locked, minute + LockTime}
  <2>1. MaxFailures \in Nat /\ MaxFailures > 0 /\ LockTime \in Nat
    BY SessionBounds
  <2>2. 0 \in 0..(MaxFailures - 1) /\ minute + LockTime \in Nat
    BY <1>3, <2>1
  <2>3. CASE row.failures + 1 >= MaxFailures
    <3>1. new = [row EXCEPT !.failures = 0, !.locked = minute + LockTime]
      BY <1>2, <2>3
    <3> QED BY <1>3, <2>2, <3>1 DEF UserRows
  <2>4. CASE ~ (row.failures + 1 >= MaxFailures)
    <3>1. new = [row EXCEPT !.failures = row.failures + 1]
      BY <1>2, <2>4
    <3>2. row.failures + 1 \in 0..(MaxFailures - 1)
      BY <1>3, <2>1, <2>4 DEF UserRows
    <3> QED BY <1>3, <3>1, <3>2 DEF UserRows
  <2> QED BY <2>3, <2>4
<1>5. user' \in UserRows /\ user'.active = user.active
  BY <1>2, <1>3, <1>4, WriteRow
<1>6. user'.locked \in {user.locked, minute + LockTime}
  <2>1. user'.locked = IF new.locked # row.locked THEN new.locked ELSE user.locked
    BY <1>2, <1>3 DEF Write, UserRows
  <2> QED BY <1>4, <2>1
<1>7. SesTypeOK'
  BY <1>1, <1>5 DEF SesInv, SesTypeOK, Stored
<1>8. RowsMove
  BY <1>1, <1>5, <1>6, CloseDesks DEF RowsMove, Stored
<1> QED BY <1>1, <1>7, <1>8, MovesKeep

LEMMA LoginKeeps == ASSUME SesInv, NEW h \in Desks, CommitLogin(h) PROVE SesInv'
<1>1. /\ desk[h] # Ready /\ desk[h].op = "login" /\ Close(h) /\ Write(h, Unlocked(desk[h].read))
      /\ UNCHANGED <<reset, minute, changedAt, idleSince, resetsDone>>
  BY DEF CommitLogin, Holding
<1> DEFINE row == [opened |-> minute, revoked |-> Never]
<1>2. PICK s \in SessionIds :
        /\ s \notin Stored /\ session' = [session EXCEPT ![s] = row]
        /\ access' = access \cup {[of |-> s, until |-> minute + AccessLife]}
  BY DEF CommitLogin, Issue
<1>3. DeskInv(desk[h]) /\ desk[h].read \in UserRows /\ user \in UserRows /\ minute \in Nat
  BY <1>1, HeldRow
<1>4. Unlocked(desk[h].read) \in UserRows /\ Unlocked(desk[h].read).active = desk[h].read.active
      /\ Unlocked(desk[h].read).locked = Never
  BY <1>3, UnlockedRow
<1>5. user' \in UserRows /\ user'.active = user.active /\ user'.locked \in {user.locked, Never}
  BY <1>1, <1>3, <1>4, WriteRow
<1>6. row \in SessionRows /\ row # Never /\ row.opened = minute /\ row.revoked = Never
  <2>1. row \in SessionRows
    BY DEF SesInv, SesTypeOK, SessionRows
  <2> QED BY <2>1, NeverAssumption
<1> HIDE DEF row
<1>7. /\ session' \in [SessionIds -> SessionRows \cup {Never}] /\ session'[s] = row
      /\ \A x \in SessionIds : x # s => session'[x] = session[x]
  BY <1>2, <1>6 DEF SesInv, SesTypeOK
<1>8. Stored' = Stored \cup {s}
  BY <1>2, <1>6, <1>7 DEF Stored
<1>9. ASSUME NEW a \in access', a \notin access
      PROVE  /\ a.of = s /\ a.until = minute + AccessLife /\ a.until \in Nat
  <2>1. a = [of |-> s, until |-> minute + AccessLife]
    BY <1>2, <1>9
  <2> QED BY <1>3, <2>1, SessionBounds
<1>10. SesTypeOK'
  BY <1>1, <1>5, <1>7, <1>8, <1>9 DEF SesInv, SesTypeOK
<1>11. \A x \in Stored : session'[x] = session[x] /\ session[x] # Never
  BY <1>2, <1>7 DEF Stored
<1>12. \A a \in access' :
         a \in access \/ (a.until = minute + AccessLife /\ a.of \in Stored' /\ session'[a.of].revoked = Never)
  BY <1>6, <1>7, <1>8, <1>9
<1>13. user.active \/ idleSince = minute
  BY <1>1, <1>3 DEF DeskInv
<1>14. RowsMove
  BY <1>1, <1>5, <1>6, <1>7, <1>11, <1>12, <1>13, CloseDesks DEF RowsMove
<1> QED BY <1>1, <1>10, <1>14, MovesKeep

LEMMA RefreshKeeps == ASSUME SesInv, NEW h \in Desks, CommitRefresh(h) PROVE SesInv'
<1>1. /\ desk[h] # Ready /\ desk[h].op = "refresh" /\ Close(h)
      /\ UNCHANGED <<user, session, reset, minute, changedAt, idleSince, resetsDone>>
  BY DEF CommitRefresh, Holding
<1>2. PICK s \in desk[h].ends : access' = access \cup {[of |-> s, until |-> minute + AccessLife]}
  BY DEF CommitRefresh, Issue
<1>3. DeskInv(desk[h]) /\ user \in UserRows /\ minute \in Nat
  BY <1>1, HeldRow
<1>4. s \in Stored /\ session[s].revoked \in {Never, minute} /\ (user.active \/ idleSince = minute)
  BY <1>1, <1>3 DEF DeskInv
<1>5. ASSUME NEW a \in access', a \notin access
      PROVE  /\ a.of = s /\ a.until = minute + AccessLife /\ a.until \in Nat
  <2>1. a = [of |-> s, until |-> minute + AccessLife]
    BY <1>2, <1>5
  <2> QED BY <1>3, <2>1, SessionBounds
<1>6. Stored' = Stored
  BY <1>1 DEF Stored
<1>7. SesTypeOK'
  BY <1>1, <1>4, <1>5, <1>6 DEF SesInv, SesTypeOK
<1>8. \A x \in Stored : session[x] # Never
  BY DEF Stored
<1>9. \A a \in access' :
        a \in access \/ (a.until = minute + AccessLife /\ a.of \in Stored'
                         /\ session'[a.of].revoked \in {Never, minute})
  BY <1>1, <1>4, <1>5, <1>6
<1>10. ~ user'.active => ~ user.active /\ idleSince' = idleSince
  BY <1>1
<1>11. RowsMove
  BY <1>1, <1>4, <1>8, <1>9, <1>10, CloseDesks DEF RowsMove
<1> QED BY <1>1, <1>7, <1>11, MovesKeep

LEMMA RevokeKeeps == ASSUME SesInv, NEW h \in Desks, CommitRevoke(h) PROVE SesInv'
<1>1. /\ desk[h] # Ready /\ Close(h) /\ Revoke(desk[h].ends)
      /\ UNCHANGED <<user, reset, access, minute, changedAt, idleSince, resetsDone>>
  BY DEF CommitRevoke, Holding
<1>2. desk[h].ends \subseteq Stored /\ SesTypeOK
  BY <1>1, HeldRow DEF DeskInv, SesInv
<1>3. /\ session' \in [SessionIds -> SessionRows \cup {Never}] /\ Stored' = Stored
      /\ \A s \in Stored : /\ session'[s].opened = session[s].opened
                           /\ session'[s].revoked \in {session[s].revoked, minute}
  BY <1>1, <1>2, RevokeRows
<1>4. SesTypeOK'
  BY <1>1, <1>2, <1>3 DEF SesTypeOK
<1>5. RowsMove
  BY <1>1, <1>3, CloseDesks DEF RowsMove, Stored
<1> QED BY <1>1, <1>4, <1>5, MovesKeep

\* A new password ends the sessions that its transaction has read.
LEMMA EndsOlder ==
  ASSUME SesInv, NEW h \in Desks, desk[h] # Ready, desk[h].op \in {"change", "reset"},
         Revoke(desk[h].ends), changedAt' = minute
  PROVE  PasswordEndsSessions'
<1>1. EndsTheOlder(desk[h]) /\ desk[h].ends \subseteq Stored /\ SesTypeOK /\ minute # Never
  BY HeldRow, SessionBounds DEF DeskInv, SesInv
<1>2. /\ Stored' = Stored
      /\ \A s \in Stored :
           /\ session'[s].opened = session[s].opened
           /\ session'[s].revoked = IF s \in desk[h].ends THEN minute ELSE session[s].revoked
  BY <1>1, RevokeRows
<1> QED BY <1>1, <1>2 DEF PasswordEndsSessions, EndsTheOlder

LEMMA ChangeKeeps == ASSUME SesInv, NEW h \in Desks, CommitChange(h) PROVE SesInv'
<1>1. /\ desk[h] # Ready /\ desk[h].op = "change" /\ Close(h) /\ Revoke(desk[h].ends)
      /\ user.password < MaxChanges /\ user' = [user EXCEPT !.password = user.password + 1]
      /\ changedAt' = minute
      /\ UNCHANGED <<reset, access, minute, idleSince, resetsDone>>
  BY DEF CommitChange, Holding
<1>2. desk[h].ends \subseteq Stored /\ SesTypeOK /\ user \in UserRows /\ minute \in Minutes
  BY <1>1, HeldRow DEF DeskInv, SesInv, SesTypeOK
<1>3. user' \in UserRows /\ user'.active = user.active /\ user'.locked = user.locked
  <2>1. user.password + 1 \in 0..MaxChanges
    BY <1>1, <1>2, SessionBounds DEF UserRows
  <2> QED BY <1>1, <1>2, <2>1 DEF UserRows
<1>4. /\ session' \in [SessionIds -> SessionRows \cup {Never}] /\ Stored' = Stored
      /\ \A s \in Stored : /\ session'[s].opened = session[s].opened
                           /\ session'[s].revoked \in {session[s].revoked, minute}
  BY <1>1, <1>2, RevokeRows
<1>5. SesTypeOK'
  BY <1>1, <1>2, <1>3, <1>4 DEF SesTypeOK
<1>6. RowsMove
  BY <1>1, <1>3, <1>4, CloseDesks DEF RowsMove, Stored
<1>7. PasswordEndsSessions'
  BY <1>1, EndsOlder
<1> QED BY <1>1, <1>5, <1>6, <1>7, MovesKeepTimes, MovesKeepDesks, MovesKeepEnds DEF SesInv

LEMMA ResetKeeps == ASSUME SesInv, NEW h \in Desks, CommitReset(h) PROVE SesInv'
<1>0. PICK t, r, new : /\ t = desk[h] /\ r = t.link
                       /\ new = [Unlocked(t.read) EXCEPT !.password = user.password + 1]
  OBVIOUS
<1>1. /\ t # Ready /\ t.op = "reset" /\ Close(h) /\ Revoke(t.ends) /\ Write(h, new)
      /\ user.password < MaxChanges /\ reset' = [reset EXCEPT ![r].used = minute]
      /\ changedAt' = minute /\ resetsDone' = resetsDone \cup {<<r, minute>>}
      /\ UNCHANGED <<access, minute, idleSince>>
  BY <1>0 DEF CommitReset, Holding
<1>2. /\ t.ends \subseteq Stored /\ SesTypeOK /\ user \in UserRows /\ minute \in Minutes
      /\ t.read \in UserRows
  BY <1>0, <1>1, HeldRow DEF DeskInv, SesInv, SesTypeOK
<1>3. r \in ResetIds /\ reset[r] # Never /\ reset[r].used \in {Never, minute}
  BY <1>0, <1>1, HeldRow DEF DeskInv
<1>4. new \in UserRows /\ new.active = t.read.active /\ new.locked = Never
  <2>1. user.password + 1 \in 0..MaxChanges
    BY <1>1, <1>2, SessionBounds DEF UserRows
  <2>2. Unlocked(t.read) \in UserRows /\ Unlocked(t.read).active = t.read.active
        /\ Unlocked(t.read).locked = Never
    BY <1>2, UnlockedRow
  <2> QED BY <1>0, <2>1, <2>2 DEF UserRows
<1>5. user' \in UserRows /\ user'.active = user.active /\ user'.locked \in {user.locked, Never}
  BY <1>0, <1>1, <1>2, <1>4, WriteRow
<1>6. /\ session' \in [SessionIds -> SessionRows \cup {Never}] /\ Stored' = Stored
      /\ \A s \in Stored : /\ session'[s].opened = session[s].opened
                           /\ session'[s].revoked \in {session[s].revoked, minute}
  BY <1>1, <1>2, RevokeRows
<1>7. /\ [reset[r] EXCEPT !.used = minute] \in ResetRows
      /\ [reset[r] EXCEPT !.used = minute].used = minute
  BY <1>2, <1>3 DEF SesTypeOK, ResetRows
<1>8. /\ reset' \in [ResetIds -> ResetRows \cup {Never}]
      /\ reset'[r] # Never /\ reset'[r].used = minute
      /\ \A q \in ResetIds : q # r => reset'[q] = reset[q]
  BY <1>1, <1>2, <1>3, <1>7, NeverAssumption DEF SesTypeOK
<1>9. SesTypeOK'
  BY <1>1, <1>2, <1>5, <1>6, <1>8 DEF SesTypeOK
<1>10. \A q \in ResetIds : reset[q] # Never =>
         /\ reset'[q] # Never
         /\ \/ reset'[q].used = reset[q].used
            \/ reset[q].used \in {Never, minute} /\ reset'[q].used = minute
  BY <1>3, <1>8
<1>11. RowsMove
  BY <1>1, <1>5, <1>6, <1>10, CloseDesks DEF RowsMove, Stored
<1>12. PasswordEndsSessions'
  BY <1>0, <1>1, EndsOlder
<1>13. \A x \in resetsDone' : ResetInv(x)'
  <2>1. ResetInv(<<r, minute>>)'
    BY <1>1, <1>2, <1>3, <1>8 DEF ResetInv
  <2> QED BY <1>1, <1>11, <2>1, MovesKeepEnds
<1> QED BY <1>9, <1>11, <1>12, <1>13, MovesKeepTimes, MovesKeepDesks, MovesKeepEnds DEF SesInv

LEMMA UpdateKeeps == ASSUME SesInv, NEW h \in Desks, CommitUpdate(h) PROVE SesInv'
<1>0. PICK read : read = desk[h].read
  OBVIOUS
<1>1. /\ desk[h] # Ready /\ Close(h)
      /\ idleSince' = IF user.active /\ ~ user'.active THEN minute ELSE idleSince
      /\ UNCHANGED <<session, reset, access, minute, changedAt, resetsDone>>
  BY DEF CommitUpdate, Holding
<1>2. PICK new : /\ Write(h, new)
                 /\ \/ new = [Unlocked(read) EXCEPT !.active = TRUE]
                    \/ new = [read EXCEPT !.active = FALSE]
  BY <1>0 DEF CommitUpdate
<1>3. read \in UserRows /\ user \in UserRows
  BY <1>0, <1>1, HeldRow
<1>4. new \in UserRows /\ new.locked \in {Never, read.locked}
  BY <1>2, <1>3, UnlockedRow DEF UserRows
<1>5. user' \in UserRows
  BY <1>0, <1>2, <1>3, <1>4, WriteRow
<1>6. user'.locked \in {user.locked, Never}
  <2>1. user'.locked = IF new.locked # read.locked THEN new.locked ELSE user.locked
    BY <1>0, <1>2, <1>3 DEF Write, UserRows
  <2> QED BY <1>4, <2>1
<1>7. SesTypeOK'
  BY <1>1, <1>5 DEF SesInv, SesTypeOK, Stored
<1>8. RowsMove
  BY <1>1, <1>6, CloseDesks DEF RowsMove, Stored
<1> QED BY <1>1, <1>7, <1>8, MovesKeep

LEMMA ForgotKeeps == ASSUME SesInv, ForgotPassword PROVE SesInv'
<1>1. UNCHANGED <<user, session, access, minute, desk, changedAt, idleSince, resetsDone>>
  BY DEF ForgotPassword
<1>2. PICK r \in ResetIds : /\ reset[r] = Never
                            /\ reset' = [reset EXCEPT ![r] = [expires |-> minute + ResetLife, used |-> Never]]
  BY DEF ForgotPassword
<1>3. [expires |-> minute + ResetLife, used |-> Never] \in ResetRows
  <2>1. minute + ResetLife \in Nat
    BY SessionBounds DEF SesInv, SesTypeOK, Minutes
  <2> QED BY <2>1 DEF ResetRows
<1>4. /\ reset' \in [ResetIds -> ResetRows \cup {Never}]
      /\ \A q \in ResetIds : reset[q] # Never => reset'[q] = reset[q]
  BY <1>2, <1>3 DEF SesInv, SesTypeOK
<1>5. SesTypeOK'
  BY <1>1, <1>4 DEF SesInv, SesTypeOK, Stored
<1>6. RowsMove
  BY <1>1, <1>4 DEF RowsMove, Stored, SesInv, DesksInv
<1> QED BY <1>1, <1>5, <1>6, MovesKeep

\* The clock finds no transaction open.
LEMMA MinuteKeeps == ASSUME SesInv, MinutePasses PROVE SesInv'
<1>1. /\ minute' = minute + 1 /\ minute' \in Minutes /\ \A h \in Desks : desk[h] = Ready
      /\ UNCHANGED <<user, session, reset, access, desk, changedAt, idleSince, resetsDone>>
  BY DEF MinutePasses
<1>2. minute \in Int /\ AccessLife \in Int
  BY SessionBounds DEF SesInv, SesTypeOK, Minutes
<1>3. SesTypeOK' /\ PasswordEndsSessions' /\ RevocationBites' /\ InactiveGetsNothing'
  BY <1>1 DEF SesInv, SesTypeOK, PasswordEndsSessions, RevocationBites, InactiveGetsNothing, Stored
<1>4. TimesInv'
  <2>1. changedAt \in Minutes /\ changedAt <= minute'
    BY <1>1, <1>2, SessionBounds DEF SesInv, TimesInv, Minutes
  <2>2. ASSUME NEW s \in Stored PROVE session[s].opened <= minute'
    <3>1. session[s].opened \in Int /\ session[s].opened <= minute
      BY SessionBounds DEF SesInv, SesTypeOK, TimesInv, Stored, SessionRows, Minutes
    <3> QED BY <1>1, <1>2, <3>1
  <2>3. ASSUME NEW a \in access PROVE a.until <= minute' + AccessLife
    <3>1. a.until \in Int /\ a.until <= minute + AccessLife
      BY DEF SesInv, SesTypeOK, TimesInv
    <3> QED BY <1>1, <1>2, <3>1
  <2> QED BY <1>1, <2>1, <2>2, <2>3 DEF SesInv, TimesInv, Stored
<1>5. DesksInv' /\ \A x \in resetsDone' : ResetInv(x)'
  BY <1>1 DEF SesInv, DesksInv, DeskInv, ResetInv
<1> QED BY <1>3, <1>4, <1>5 DEF SesInv

LEMMA SesInitInv == SesInit => SesInv
<1> SUFFICES ASSUME SesInit PROVE SesInv
  OBVIOUS
<1>1. /\ user = [active |-> TRUE, password |-> 0, failures |-> 0, locked |-> Never]
      /\ session = [s \in SessionIds |-> Never] /\ reset = [r \in ResetIds |-> Never]
      /\ access = {} /\ minute = 0 /\ desk = [h \in Desks |-> Ready]
      /\ changedAt = 0 /\ resetsDone = {}
  BY DEF SesInit
<1>2. 0 \in Minutes /\ 0 \in 0..MaxChanges /\ 0 \in 0..(MaxFailures - 1)
  BY SessionBounds DEF Minutes
<1>3. SesTypeOK
  BY <1>1, <1>2 DEF SesTypeOK, UserRows
<1>4. Stored = {}
  BY <1>1 DEF Stored
<1>5. user.active = TRUE
  BY <1>1
<1>6. PasswordEndsSessions /\ RevocationBites /\ InactiveGetsNothing /\ TimesInv
  BY <1>1, <1>2, <1>4, <1>5 DEF PasswordEndsSessions, RevocationBites, InactiveGetsNothing, TimesInv
<1>7. DesksInv /\ \A x \in resetsDone : ResetInv(x)
  BY <1>1 DEF DesksInv, DeskInv
<1> QED BY <1>3, <1>6, <1>7 DEF SesInv

LEMMA SesStep == SesInv /\ [SesNext]_sesVars => SesInv'
<1> SUFFICES ASSUME SesInv, [SesNext]_sesVars PROVE SesInv'
  OBVIOUS
<1>0. {} \subseteq Stored /\ Unrevoked \subseteq Stored
  BY DEF Unrevoked
<1>1. ASSUME NEW h \in Desks, NEW b \in BOOLEAN, ReadLogin(h, b) PROVE SesInv'
  <2>1. CASE b
    BY <1>0, <1>1, <2>1, OpenKeeps DEF ReadLogin
  <2>2. CASE ~ b
    BY <1>0, <1>1, <2>2, OpenKeeps DEF ReadLogin
  <2> QED BY <2>1, <2>2
<1>2. ASSUME NEW h \in Desks, NEW s \in SessionIds, ReadRefresh(h, s) PROVE SesInv'
  <2>1. s \in Unrevoked /\ user.active /\ Open(h, "refresh", {s}, 0)
    BY <1>2 DEF ReadRefresh
  <2>2. {s} \in SUBSET Stored /\ {s} \subseteq Unrevoked
    BY <1>0, <2>1
  <2> QED BY <2>1, <2>2, OpenKeeps
<1>3. ASSUME NEW h \in Desks, NEW s \in SessionIds, ReadRevokeOne(h, s) PROVE SesInv'
  <2>1. s \in Unrevoked /\ Open(h, "revoke", {s}, 0)
    BY <1>3 DEF ReadRevokeOne
  <2>2. {s} \in SUBSET Stored
    BY <1>0, <2>1
  <2> QED BY <2>1, <2>2, OpenKeeps
<1>4. ASSUME NEW h \in Desks, ReadRevokeAll(h) PROVE SesInv'
  <2>1. Open(h, "revoke", Unrevoked \cap Unexpired, 0)
    BY <1>4 DEF ReadRevokeAll
  <2>2. Unrevoked \cap Unexpired \in SUBSET Stored
    BY <1>0
  <2> QED BY <2>1, <2>2, OpenKeeps
<1>5. ASSUME NEW h \in Desks, ReadChange(h) PROVE SesInv'
  <2>1. Open(h, "change", Unrevoked, 0)
    BY <1>5 DEF ReadChange
  <2> QED BY <1>0, <2>1, OpenKeeps
<1>6. ASSUME NEW h \in Desks, NEW r \in ResetIds, ReadReset(h, r) PROVE SesInv'
  <2>1. reset[r] # Never /\ reset[r].used = Never /\ Open(h, "reset", Unrevoked, r)
    BY <1>6 DEF ReadReset
  <2> QED BY <1>0, <2>1, OpenKeeps
<1>7. ASSUME NEW h \in Desks, NEW b \in BOOLEAN, ReadUpdate(h, b) PROVE SesInv'
  <2>1. PICK op \in {"enable", "disable"} : Open(h, op, {}, 0)
    BY <1>7 DEF ReadUpdate
  <2> QED BY <1>0, <2>1, OpenKeeps
<1>8. ASSUME UNCHANGED <<user, session, reset, access, minute, changedAt, idleSince, resetsDone>>,
             DOMAIN desk' = Desks, \A k \in Desks : desk'[k] \in {desk[k], Ready}
      PROVE  SesInv'
  <2>1. SesTypeOK'
    BY <1>8 DEF SesInv, SesTypeOK, Stored
  <2>2. RowsMove
    BY <1>8 DEF RowsMove, Stored
  <2> QED BY <1>8, <2>1, <2>2, MovesKeep
<1>9. ASSUME NEW h \in Desks, Drop(h) PROVE SesInv'
  BY <1>8, <1>9, CloseDesks DEF Drop
<1>10. CASE UNCHANGED sesVars
  BY <1>8, <1>10 DEF sesVars, SesInv, DesksInv
<1> QED BY <1>1, <1>2, <1>3, <1>4, <1>5, <1>6, <1>7, <1>9, <1>10, FailKeeps, LoginKeeps,
           RefreshKeeps, RevokeKeeps, ChangeKeeps, ResetKeeps, UpdateKeeps, ForgotKeeps, MinuteKeeps
      DEF SesNext

\* A new password, a revocation, a deactivation end what they are to end, and a
\* reset link is used at one moment, whatever any number of threads have read
\* of sessions, links and the account before it.
THEOREM SessionsAreEnded == SesSpec => []SessionsEnd
<1>1. SesInv => SessionsEnd
  <2> SUFFICES ASSUME SesInv PROVE SessionsEnd
    OBVIOUS
  <2>1. ResetOnce
    BY DEF SesInv, ResetInv, ResetOnce
  <2> QED BY <2>1 DEF SesInv, SessionsEnd
<1> QED BY <1>1, SesInitInv, SesStep, PTL DEF SesSpec

LEMMA SesTypeCorrect == SesSpec => []SesTypeOK
<1>1. SesInv => SesTypeOK
  BY DEF SesInv
<1> QED BY <1>1, SesInitInv, SesStep, PTL DEF SesSpec

\* A session is stored by a login alone.
LEMMA LoginsStore ==
  ASSUME SesInv, [SesNext]_sesVars, NEW s \in SessionIds, session[s] = Never, session'[s] # Never
  PROVE  \E h \in Desks : desk[h] # Ready /\ desk[h].op = "login"
<1>1. ASSUME NEW h \in Desks, CommitRevoke(h) \/ CommitChange(h) \/ CommitReset(h) PROVE FALSE
  <2>1. desk[h] # Ready /\ Revoke(desk[h].ends)
    BY <1>1 DEF CommitRevoke, CommitChange, CommitReset, Holding
  <2>2. desk[h].ends \subseteq Stored
    BY <2>1, HeldRow DEF DeskInv
  <2> QED BY <2>1, <2>2 DEF Revoke, Stored
<1>2. session' # session
  OBVIOUS
<1> QED BY <1>1, <1>2 DEF SesNext, sesVars, CommitLogin, Holding, ReadLogin, ReadRefresh, ReadRevokeOne,
      ReadRevokeAll, ReadChange, ReadReset, ReadUpdate, Open, CommitFail, CommitRefresh, CommitUpdate,
      Drop, ForgotPassword, MinutePasses

LEMMA LocksHold == SesSpec => LockHolds
<1>1. ASSUME SesInv, [SesNext]_sesVars, NEW s \in SessionIds, session[s] = Never,
             session'[s] # Never, Locked
      PROVE  user.locked = minute + LockTime
  <2>1. PICK h \in Desks : desk[h] # Ready /\ desk[h].op = "login"
    BY <1>1, LoginsStore
  <2>2. user.locked = Never \/ user.locked <= minute \/ user.locked = minute + LockTime
    BY <1>1, <2>1 DEF SesInv, DesksInv, DeskInv
  <2>3. user.locked \in Nat \cup {Never} /\ minute \in Int
    BY <1>1, SessionBounds DEF SesInv, SesTypeOK, UserRows, Minutes
  <2> QED BY <1>1, <2>2, <2>3 DEF Locked
<1>2. SesInv /\ [SesNext]_sesVars =>
        [\A s \in SessionIds : session[s] = Never /\ session'[s] # Never /\ Locked
           => user.locked = minute + LockTime]_sesVars
  BY <1>1
<1> QED BY <1>2, SesInitInv, SesStep, PTL DEF SesSpec, LockHolds

-----------------------------------------------------------------------------
(***************************************************************************)
(* Administrators.  A request is checked when it begins: it leaves emails  *)
(* alone, and does not take its own actor's role.                          *)
(***************************************************************************)
TabInv(t) ==
  t # Absent =>
    /\ t.op \in {"create", "update"} /\ t.new \in StaffRows
    /\ t.op = "update" =>
         /\ t.of \in Known /\ t.read \in StaffRows /\ t.new.email = t.read.email
         /\ t.of = t.actor => t.new.role = "admin" /\ t.new.active

AdmInv == AdmTypeOK /\ DOMAIN tab = Tabs /\ \A t \in Tabs : TabInv(tab[t])

LEMMA AdmInitInv == AdmInit => AdmInv
<1> SUFFICES ASSUME AdmInit PROVE AdmInv
  OBVIOUS
<1>1. PICK email \in Addresses :
        staff = [u \in Users |-> IF u = 1 THEN [email |-> email, role |-> "admin", active |-> TRUE]
                                 ELSE Absent]
  BY DEF AdmInit
<1>2. [email |-> email, role |-> "admin", active |-> TRUE] \in StaffRows
  BY DEF StaffRows, Roles
<1>3. AdmTypeOK
  BY <1>1, <1>2 DEF AdmTypeOK, Known
<1>4. DOMAIN tab = Tabs /\ \A t \in Tabs : tab[t] = Absent
  BY DEF AdmInit
<1> QED BY <1>3, <1>4 DEF AdmInv, TabInv

\* Accounts are never taken away: what a request names stays.
LEMMA TabsKeep ==
  ASSUME AdmInv, Known \subseteq Known', NEW t \in Tabs, NEW x, TabInv(x),
         tab' = [tab EXCEPT ![t] = x]
  PROVE  DOMAIN tab' = Tabs /\ \A u \in Tabs : TabInv(tab[u])'
<1>1. \A u \in Tabs : TabInv(tab'[u])
  BY DEF AdmInv
<1> QED BY <1>1 DEF AdmInv, TabInv

LEMMA CreateUserKeeps == ASSUME AdmInv, NEW t \in Tabs, CommitCreateUser(t) PROVE AdmInv'
<1>1. PICK row : row = tab[t].new
  OBVIOUS
<1>2. PICK u \in Users \ Known : staff' = [staff EXCEPT ![u] = row]
  BY <1>1 DEF CommitCreateUser
<1>3. row \in StaffRows /\ row # Absent /\ \A v \in Known : staff[v].email # row.email
  BY <1>1, AdministratorBounds DEF CommitCreateUser, AdmInv, TabInv, EmailTaken
<1>4. \A v \in Users : staff'[v] = IF v = u THEN row ELSE staff[v]
  BY <1>2 DEF AdmInv, AdmTypeOK
<1>5. Known' = Known \cup {u}
  BY <1>2, <1>3, <1>4 DEF Known
<1>6. AdmTypeOK'
  <2>1. staff' \in [Users -> StaffRows \cup {Absent}]
    BY <1>2, <1>3 DEF AdmInv, AdmTypeOK
  <2>2. ASSUME NEW v \in Known', NEW w \in Known', staff'[v].email = staff'[w].email PROVE v = w
    BY <1>3, <1>4, <1>5, <2>2 DEF AdmInv, AdmTypeOK, Known
  <2> QED BY <2>1, <2>2 DEF AdmTypeOK
<1>7. TabInv(Absent) /\ tab' = [tab EXCEPT ![t] = Absent]
  BY DEF TabInv, CommitCreateUser
<1> QED BY <1>5, <1>6, <1>7, TabsKeep DEF AdmInv

\* The columns an update writes.
LEMMA UpdatedRow ==
  ASSUME AdmInv, NEW t \in Tabs, CommitUpdateUser(t)
  PROVE  LET x == tab[t]
         IN  /\ x.of \in Known /\ TabInv(x) /\ x.op = "update" /\ x # Absent
             /\ \A u \in Users \ {x.of} : staff'[u] = staff[u]
             /\ staff'[x.of] \in StaffRows
             /\ staff'[x.of].email = staff[x.of].email
             /\ staff'[x.of].role = IF x.new.role # x.read.role THEN x.new.role ELSE staff[x.of].role
             /\ staff'[x.of].active =
                  IF x.new.active # x.read.active THEN x.new.active ELSE staff[x.of].active
<1>1. PICK x, u : x = tab[t] /\ u = x.of
  OBVIOUS
<1>2. TabInv(x) /\ x # Absent /\ x.op = "update"
  BY <1>1 DEF AdmInv, CommitUpdateUser
<1>3. /\ u \in Known /\ u \in Users /\ x.read \in StaffRows /\ x.new \in StaffRows
      /\ x.new.email = x.read.email
  BY <1>1, <1>2 DEF TabInv, Known
<1>4. staff[u] \in StaffRows
  BY <1>3 DEF AdmInv, AdmTypeOK, Known
<1>5. staff' = [staff EXCEPT ![u] =
                  [c \in {"email", "role", "active"} |->
                     IF x.new[c] # x.read[c] THEN x.new[c] ELSE staff[u][c]]]
  BY <1>1, <1>4 DEF CommitUpdateUser, StaffRows
<1>6. staff'[u] = [email  |-> staff[u].email,
                   role   |-> IF x.new.role # x.read.role THEN x.new.role ELSE staff[u].role,
                   active |-> IF x.new.active # x.read.active THEN x.new.active ELSE staff[u].active]
  BY <1>3, <1>5 DEF AdmInv, AdmTypeOK
<1>7. staff'[u] \in StaffRows
  BY <1>3, <1>4, <1>6 DEF StaffRows
<1>8. \A v \in Users \ {u} : staff'[v] = staff[v]
  BY <1>5 DEF AdmInv, AdmTypeOK
<1> QED BY <1>1, <1>2, <1>3, <1>6, <1>7, <1>8

LEMMA UpdateUserKeeps == ASSUME AdmInv, NEW t \in Tabs, CommitUpdateUser(t) PROVE AdmInv'
<1>1. PICK u : u = tab[t].of
  OBVIOUS
<1>2. /\ u \in Known /\ \A v \in Users \ {u} : staff'[v] = staff[v]
      /\ staff'[u] \in StaffRows /\ staff'[u] # Absent /\ staff'[u].email = staff[u].email
  BY <1>1, UpdatedRow, AdministratorBounds
<1>3. Known' = Known
  BY <1>2 DEF Known
<1>4. AdmTypeOK'
  <2>1. DOMAIN staff' = Users
    BY DEF CommitUpdateUser, AdmInv, AdmTypeOK
  <2>2. staff' \in [Users -> StaffRows \cup {Absent}]
    <3>1. staff' = [v \in Users |-> staff'[v]]
      BY <2>1 DEF CommitUpdateUser, AdmInv, AdmTypeOK
    <3>2. \A v \in Users : staff'[v] \in StaffRows \cup {Absent}
      BY <1>2 DEF AdmInv, AdmTypeOK
    <3> QED BY <3>1, <3>2
  <2>3. \A v \in Known : staff'[v].email = staff[v].email
    BY <1>2 DEF Known
  <2> QED BY <1>3, <2>2, <2>3 DEF AdmInv, AdmTypeOK
<1>5. TabInv(Absent) /\ tab' = [tab EXCEPT ![t] = Absent]
  BY DEF TabInv, CommitUpdateUser
<1> QED BY <1>3, <1>4, <1>5, TabsKeep DEF AdmInv

LEMMA AdmStep == AdmInv /\ [AdmNext]_admVars => AdmInv'
<1> SUFFICES ASSUME AdmInv, [AdmNext]_admVars PROVE AdmInv'
  OBVIOUS
<1>0. ASSUME UNCHANGED staff, NEW t \in Tabs, NEW x, TabInv(x), tab' = [tab EXCEPT ![t] = x]
      PROVE  AdmInv'
  <2>1. AdmTypeOK' /\ Known \subseteq Known'
    BY <1>0 DEF AdmInv, AdmTypeOK, Known
  <2> QED BY <1>0, <2>1, TabsKeep DEF AdmInv
<1>1. ASSUME NEW t \in Tabs, NEW a \in Users, NEW email \in Addresses, NEW role \in Roles,
             BeginCreateUser(t, a, email, role)
      PROVE  AdmInv'
  <2> DEFINE x == [op |-> "create", actor |-> a,
                   new |-> [email |-> email, role |-> role, active |-> TRUE]]
  <2>1. [email |-> email, role |-> role, active |-> TRUE] \in StaffRows
    BY DEF StaffRows
  <2>2. TabInv(x)
    BY <2>1 DEF TabInv
  <2> QED BY <1>0, <1>1, <2>2 DEF BeginCreateUser
<1>2. ASSUME NEW t \in Tabs, NEW a \in Users, NEW u \in Users, NEW role \in Roles,
             NEW on \in BOOLEAN, BeginUpdateUser(t, a, u, role, on)
      PROVE  AdmInv'
  <2> DEFINE new == [staff[u] EXCEPT !.role = role, !.active = on]
             x == [op |-> "update", actor |-> a, of |-> u, read |-> staff[u], new |-> new]
  <2>1. u \in Known /\ ~ OwnAccount(a, u, role, on) /\ staff[u] \in StaffRows
    BY <1>2 DEF BeginUpdateUser, AdmInv, AdmTypeOK, Known
  <2>2. new \in StaffRows /\ new.email = staff[u].email /\ new.role = role /\ new.active = on
    BY <2>1 DEF StaffRows
  <2>3. UNCHANGED staff /\ tab' = [tab EXCEPT ![t] = x]
    BY <1>2 DEF BeginUpdateUser
  <2> HIDE DEF new
  <2>4. TabInv(x)
    BY <2>1, <2>2 DEF TabInv, OwnAccount
  <2> QED BY <1>0, <2>3, <2>4
<1>3. ASSUME NEW t \in Tabs, UndoUser(t) PROVE AdmInv'
  BY <1>0, <1>3 DEF UndoUser, TabInv
<1>4. CASE UNCHANGED admVars
  BY <1>4 DEF admVars, AdmInv, AdmTypeOK, TabInv, Known
<1> QED BY <1>1, <1>2, <1>3, <1>4, CreateUserKeeps, UpdateUserKeeps DEF AdmNext

LEMMA AdmTypeCorrect == AdmSpec => []AdmTypeOK
<1>1. AdmInv => AdmTypeOK
  BY DEF AdmInv
<1> QED BY <1>1, AdmInitInv, AdmStep, PTL DEF AdmSpec

\* Only an update takes an administrator away, and not the one who makes it.
LEMMA AdministratorsStay == AdmSpec => LastAdministratorStays
<1>1. ASSUME AdmInv, [AdmNext]_admVars, Acting # {}, Acting' = {}
      PROVE  \E t \in Tabs : tab[t] # Absent /\ tab'[t] = Absent /\ tab[t].actor \notin Acting
  <2>1. ASSUME UNCHANGED staff PROVE FALSE
    BY <1>1, <2>1 DEF Acting, Known
  <2>2. ASSUME NEW t \in Tabs, CommitCreateUser(t) PROVE FALSE
    <3>1. PICK u \in Users \ Known : staff' = [staff EXCEPT ![u] = tab[t].new]
      BY <2>2 DEF CommitCreateUser
    <3>2. \A v \in Known : staff'[v] = staff[v]
      BY <1>1, <3>1 DEF AdmInv, AdmTypeOK, Known
    <3> QED BY <1>1, <3>2 DEF Acting, Known
  <2>3. ASSUME NEW t \in Tabs, CommitUpdateUser(t)
        PROVE  tab[t] # Absent /\ tab'[t] = Absent /\ tab[t].actor \notin Acting
    <3>1. tab[t] # Absent /\ tab'[t] = Absent
      BY <1>1, <2>3 DEF CommitUpdateUser, AdmInv
    <3>2. PICK x, a : x = tab[t] /\ a = x.actor
      OBVIOUS
    <3> SUFFICES ASSUME a \in Acting PROVE a \in Acting'
      BY <1>1, <3>1, <3>2
    <3>3. a \in Users /\ staff[a] # Absent /\ staff[a].active /\ staff[a].role = "admin"
          /\ staff[a] \in StaffRows
      BY <1>1 DEF Acting, Known, AdmInv, AdmTypeOK
    <3>4. CASE x.of # a
      <4>1. staff'[a] = staff[a]
        BY <1>1, <2>3, <3>2, <3>3, <3>4, UpdatedRow
      <4> QED BY <3>3, <4>1 DEF Acting, Known
    <3>5. CASE x.of = a
      <4>1. /\ x.new.role = "admin" /\ x.new.active /\ staff'[a] \in StaffRows
            /\ staff'[a].role = IF x.new.role # x.read.role THEN x.new.role ELSE staff[a].role
            /\ staff'[a].active = IF x.new.active # x.read.active THEN x.new.active ELSE staff[a].active
        BY <1>1, <2>3, <3>2, <3>5, UpdatedRow DEF TabInv
      <4>2. staff'[a] # Absent /\ staff'[a].role = "admin" /\ staff'[a].active
        BY <3>3, <4>1, AdministratorBounds
      <4> QED BY <3>3, <4>2 DEF Acting, Known
    <3> QED BY <3>4, <3>5
  <2> QED BY <1>1, <2>1, <2>2, <2>3 DEF AdmNext, BeginCreateUser, BeginUpdateUser, UndoUser, admVars
<1>2. AdmInv /\ [AdmNext]_admVars =>
        [Acting # {} /\ Acting' = {} =>
           \E t \in Tabs : /\ tab[t] # Absent /\ tab'[t] = Absent
                           /\ tab[t].actor \notin Acting]_admVars
  BY <1>1
<1> QED BY <1>2, AdmInitInv, AdmStep, PTL DEF AdmSpec, LastAdministratorStays

-----------------------------------------------------------------------------
\* Rows keep their columns and their unique values: no two records share an
\* email or a code, no two accounts an email, however requests race.
THEOREM AccountsTypeCorrect == InvSpec /\ SesSpec /\ AdmSpec => []AccountsTypeOK
BY InvTypeCorrect, SesTypeCorrect, AdmTypeCorrect, PTL DEF AccountsTypeOK

\* No step opens a session of an account that was locked before the minute, and
\* none by an administrator in office leaves the system without one.
THEOREM GuardsHold == SesSpec /\ AdmSpec => NoStepPastTheGuards
BY LocksHold, AdministratorsStay, PTL DEF NoStepPastTheGuards

\* A behaviour of the composition is one of each of its parts: what is proved
\* of them holds of it.
THEOREM PartsOfAccounts == AccSpec => InvSpec /\ SesSpec /\ AdmSpec
<1>1. AccInit => InvInit /\ SesInit /\ AdmInit
  BY DEF AccInit
<1>2. [AccNext]_<<invVars, sesVars, admVars, part>> =>
        [InvNext]_invVars /\ [SesNext]_sesVars /\ [AdmNext]_admVars
  BY DEF AccNext
<1> QED BY <1>1, <1>2, PTL DEF AccSpec, InvSpec, SesSpec, AdmSpec
=============================================================================
