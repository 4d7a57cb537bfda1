--------------------------- MODULE LeaveTxnProofs ---------------------------
(***************************************************************************)
(* Proofs about LeaveTxn, for any set of handlers, employees, approvers,   *)
(* payloads and years.                                                     *)
(***************************************************************************)
EXTENDS MCLeaveTxn, LeaveLedgerProofs, FiniteSetTheorems

\* Rows come and stay, with the days they were granted.
GrantsKept ==
  \A a \in Accounts :
    balance[a] # NoRow =>
      /\ balance'[a] # NoRow
      /\ balance'[a].entitled = balance[a].entitled
      /\ balance'[a].carried = balance[a].carried

\* What a transaction knows of a balance may be stale, but not the grant; so the
\* figure it is about to write fits the row it will find. bal and sub stand for
\* the stored balances and the number of requests.
Knows(t, a, bal) ==
  /\ t.rows[a] \in Rows
  /\ NewUsed(t, a) \in 0..(t.rows[a].entitled + t.rows[a].carried)
  /\ a \notin t.made =>
       /\ bal[a] # NoRow
       /\ bal[a].entitled = t.rows[a].entitled
       /\ bal[a].carried = t.rows[a].carried

Columns(t) ==
  t = [op |-> t.op, by |-> t.by, req |-> t.req, pay |-> t.pay, need |-> t.need,
       rows |-> t.rows, made |-> t.made, ready |-> t.ready]

Sound(t, bal, sub) ==
  /\ Columns(t) /\ t.ready \in BOOLEAN
  /\ t.op \in Ops /\ t.by \in Staff \cup Approvers /\ t.pay \in Payloads
  /\ t.need \subseteq Accounts /\ t.made \subseteq t.need
  /\ t.op # "view" => t.pay.start <= t.pay.end
  /\ t.op = "submit" =>
       t.by \in Staff /\ (t.pay.kind \in Paid =>
                            <<t.by, t.pay.kind, YearOf(t.pay.start)>> \in Accounts)
  /\ t.op \notin {"submit", "view"} => t.req \in 1..sub
  /\ t.op = "submit" /\ t.ready => t.req \in Requests /\ t.req <= sub + 1
  /\ t.req \in 0..MaxRequests
  /\ t.ready => t.need \subseteq DOMAIN t.rows
  /\ t.ready => \A a \in t.need : Knows(t, a, bal)

\* What every stored request satisfies, whichever handler stored it.
StoredRequests ==
  \A r \in Requests : Exists(r) =>
    /\ owner[r] \in Staff
    /\ payload[r].start <= payload[r].end
    /\ payload[r].kind \in Paid => AccountOf(r) \in Accounts

TxnInv ==
  /\ TypeOK /\ RowsInv /\ StoredRequests
  /\ DOMAIN txn = Handlers
  /\ \A h \in Handlers : txn[h] # Idle => Sound(txn[h], balance, submitted)

-----------------------------------------------------------------------------
LEMMA TxnInvInit == TxnInit => TxnInv
<1> SUFFICES ASSUME TxnInit PROVE TxnInv
  OBVIOUS
<1>1. (CHOOSE p \in Payloads : TRUE) \in Payloads
  BY BoundsAssumption
<1>2. TypeOK
  BY <1>1, BoundsAssumption DEF TxnInit, Init, TypeOK, Statuses
<1> QED BY <1>2 DEF TxnInit, Init, TxnInv, RowsInv, StoredRequests, Exists, Requests

\* A step that keeps rows and grants, and takes no request away, leaves what a
\* transaction knows true.
LEMMA SoundStays ==
  ASSUME TypeOK, TypeOK', GrantsKept, submitted' >= submitted,
         NEW t, Sound(t, balance, submitted)
  PROVE  Sound(t, balance', submitted')
<1>1. submitted \in Nat /\ submitted' \in Nat /\ MaxRequests \in Nat
  BY BoundsAssumption DEF TypeOK
<1>2. ASSUME t.ready, NEW a \in t.need PROVE Knows(t, a, balance')
  <2>1. Knows(t, a, balance) /\ a \in Accounts
    BY <1>2 DEF Sound
  <2> QED BY <2>1 DEF Knows, GrantsKept
<1>3. t.op \notin {"submit", "view"} => t.req \in 1..submitted'
  BY <1>1 DEF Sound
<1>4. t.op = "submit" /\ t.ready => t.req \in Requests /\ t.req <= submitted' + 1
  BY <1>1 DEF Sound, Requests
<1> QED BY <1>2, <1>3, <1>4 DEF Sound

\* So a step of h need only be right about what h itself knows afterwards.
LEMMA OthersKnow ==
  ASSUME TxnInv, TypeOK', RowsInv', StoredRequests', GrantsKept,
         submitted' >= submitted, NEW h \in Handlers, DOMAIN txn' = Handlers,
         \A k \in Handlers : k # h => txn'[k] = txn[k],
         txn'[h] # Idle => Sound(txn'[h], balance', submitted')
  PROVE  TxnInv'
<1>1. ASSUME NEW k \in Handlers, txn'[k] # Idle
      PROVE  Sound(txn'[k], balance', submitted')
  <2>1. CASE k = h
    BY <1>1, <2>1
  <2>2. CASE k # h
    <3>1. txn'[k] = txn[k] /\ Sound(txn[k], balance, submitted)
      BY <1>1, <2>2 DEF TxnInv
    <3>2. Sound(txn[k], balance', submitted')
      BY <3>1, SoundStays DEF TxnInv
    <3> QED BY <3>1, <3>2
  <2> QED BY <2>1, <2>2
<1> QED BY <1>1 DEF TxnInv

\* A handler that opens a transaction, reads or gives up changes no row.
LEMMA ReaderSound ==
  ASSUME TxnInv, UNCHANGED vars, NEW h \in Handlers, NEW w,
         txn' = [txn EXCEPT ![h] = w],
         w # Idle => Sound(w, balance, submitted)
  PROVE  TxnInv'
<1>1. /\ today' = today /\ submitted' = submitted /\ owner' = owner
      /\ payload' = payload /\ status' = status /\ decidedBy' = decidedBy
      /\ balance' = balance
  BY DEF vars
<1>2. TypeOK' /\ RowsInv' /\ StoredRequests' /\ GrantsKept
  BY <1>1 DEF TxnInv, TypeOK, RowsInv, StoredRequests, GrantsKept, Exists, AccountOf
<1>3. submitted' >= submitted
  BY <1>1, BoundsAssumption DEF TxnInv, TypeOK
<1>4. /\ DOMAIN txn' = Handlers /\ txn'[h] = w
      /\ \A k \in Handlers : k # h => txn'[k] = txn[k]
  BY DEF TxnInv
<1>5. txn'[h] # Idle => Sound(txn'[h], balance', submitted')
  BY <1>1, <1>4
<1> QED BY <1>2, <1>3, <1>4, <1>5, OthersKnow

LEMMA BeginSound ==
  ASSUME TxnInv, NEW h \in Handlers, NEW op \in Ops, NEW by \in Staff \cup Approvers,
         NEW r, NEW p \in Payloads, NEW need \in SUBSET Accounts,
         Begin(h, op, by, r, p, need),
         op # "view" => p.start <= p.end,
         op = "submit" =>
           /\ by \in Staff
           /\ p.kind \in Paid => <<by, p.kind, YearOf(p.start)>> \in Accounts
           /\ need = {} => r \in Requests /\ r <= submitted + 1,
         op \notin {"submit", "view"} => r \in 1..submitted,
         r \in 0..MaxRequests
  PROVE  TxnInv'
<1> DEFINE w == [op |-> op, by |-> by, req |-> r, pay |-> p, need |-> need,
                 rows |-> <<>>, made |-> {}, ready |-> need = {}]
<1>1. txn' = [txn EXCEPT ![h] = w] /\ UNCHANGED vars
  BY DEF Begin
<1>2. Sound(w, balance, submitted)
  BY DEF Sound, Columns
<1> HIDE DEF w
<1> QED BY <1>1, <1>2, ReaderSound

\* What deduct, restore and the rest make of the row that was read fits it.
LEMMA NewUsedFits ==
  ASSUME NEW t, NEW a, t.rows[a] \in Rows, t.pay \in PayloadOver(Int), t.op \in Ops,
         t.rows[a].used <= t.rows[a].entitled + t.rows[a].carried,
         t.op # "view" => t.pay.start <= t.pay.end,
         t.op = "approve" => Days(t.pay) <= Available(t.rows[a])
  PROVE  NewUsed(t, a) \in 0..(t.rows[a].entitled + t.rows[a].carried)
<1>1. t.op # "view" => Days(t.pay) \in Nat
  BY DaysType
<1>2. t.rows[a].used \in Nat /\ t.rows[a].entitled \in Nat /\ t.rows[a].carried \in Nat
  BY DEF Rows
<1> DEFINE used == t.rows[a].used
           grant == t.rows[a].entitled + t.rows[a].carried
           days == Days(t.pay)
<1>3. CASE t.op = "approve"
  BY <1>1, <1>2, <1>3 DEF NewUsed, Available
<1>4. CASE t.op = "cancel"
  BY <1>1, <1>2, <1>4 DEF NewUsed, Greater
<1>5. CASE t.op \notin {"approve", "cancel"}
  BY <1>2, <1>5 DEF NewUsed
<1> QED BY <1>3, <1>4, <1>5

LEMMA ReadSound ==
  ASSUME TxnInv, NEW h \in Handlers, ReadBalances(h)
  PROVE  TxnInv'
<1> DEFINE t == txn[h]
           rows == [a \in t.need |-> RowFor(a)]
           made == {a \in t.need : balance[a] = NoRow}
           req == IF t.op = "submit" THEN submitted + 1 ELSE t.req
           w == [t EXCEPT !.rows = rows, !.made = made, !.req = req, !.ready = TRUE]
<1>1. /\ txn' = [txn EXCEPT ![h] = w] /\ UNCHANGED vars
      /\ t.op \in {"submit", "approve"} => \A a \in t.need : Covers(a, Days(t.pay))
      /\ t.op = "submit" => submitted + 1 \in Requests
      /\ Sound(t, balance, submitted)
  BY DEF ReadBalances, TxnInv
<1>2. /\ Columns(w)
      /\ w.op = t.op /\ w.by = t.by /\ w.pay = t.pay /\ w.need = t.need
      /\ w.rows = rows /\ w.made = made /\ w.req = req /\ w.ready = TRUE
  <2>1. Columns(t)
    BY <1>1 DEF Sound
  <2> HIDE DEF t, rows, made, req
  <2> DEFINE w1 == [t EXCEPT !.rows = rows]
             w2 == [w1 EXCEPT !.made = made]
             w3 == [w2 EXCEPT !.req = req]
             w4 == [w3 EXCEPT !.ready = TRUE]
  <2>2. w = w4
    OBVIOUS
  <2> HIDE DEF w
  <2>3. /\ Columns(w1) /\ w1.rows = rows
        /\ w1.op = t.op /\ w1.by = t.by /\ w1.pay = t.pay /\ w1.need = t.need
    BY <2>1 DEF Columns
  <2> HIDE DEF w1
  <2>4. /\ Columns(w2) /\ w2.rows = rows /\ w2.made = made
        /\ w2.op = t.op /\ w2.by = t.by /\ w2.pay = t.pay /\ w2.need = t.need
    BY <2>3 DEF Columns
  <2> HIDE DEF w2
  <2>5. /\ Columns(w3) /\ w3.rows = rows /\ w3.made = made /\ w3.req = req
        /\ w3.op = t.op /\ w3.by = t.by /\ w3.pay = t.pay /\ w3.need = t.need
    BY <2>4 DEF Columns
  <2> HIDE DEF w3
  <2> QED BY <2>2, <2>5 DEF Columns
<1> HIDE DEF w
<1>3. ASSUME NEW a \in t.need PROVE Knows(w, a, balance)
  <2>1. a \in Accounts /\ w.rows[a] = RowFor(a)
    BY <1>1, <1>2, <1>3 DEF Sound
  <2>2. /\ RowFor(a) \in Rows
        /\ RowFor(a).used <= RowFor(a).entitled + RowFor(a).carried
    BY <2>1, RowForType DEF TxnInv
  <2>3. /\ w.op \in Ops /\ w.pay \in PayloadOver(Int)
        /\ w.op # "view" => w.pay.start <= w.pay.end
        /\ w.op = "approve" => Days(w.pay) <= Available(w.rows[a])
    BY <1>1, <1>2, <1>3, <2>1, BoundsAssumption DEF Sound, Covers
  <2>4. NewUsed(w, a) \in 0..(w.rows[a].entitled + w.rows[a].carried)
    BY <2>1, <2>2, <2>3, NewUsedFits
  <2>5. a \notin w.made => balance[a] # NoRow /\ balance[a] = RowFor(a)
    BY <1>2, <1>3 DEF RowFor
  <2> QED BY <2>1, <2>2, <2>4, <2>5 DEF Knows
<1>4. w.made \subseteq w.need /\ w.need \subseteq DOMAIN w.rows
  BY <1>2
<1>5. w.op = "submit" => w.req \in Requests /\ w.req <= submitted + 1
  BY <1>1, <1>2, BoundsAssumption DEF TxnInv, TypeOK, Requests
<1>6. /\ w.op \notin {"submit", "view"} => w.req \in 1..submitted
      /\ w.req \in 0..MaxRequests
  BY <1>1, <1>2, BoundsAssumption DEF Sound, Requests
<1>7. Sound(w, balance, submitted)
  BY <1>1, <1>2, <1>3, <1>4, <1>5, <1>6 DEF Sound
<1> HIDE DEF t
<1> QED BY <1>1, <1>7, ReaderSound

-----------------------------------------------------------------------------
\* A commit the unique constraints let through: rows it made up were missing,
\* and the figure it writes fits the row it finds.
LEMMA WrittenBalances ==
  ASSUME TxnInv, NEW h \in Handlers, txn[h] # Idle, txn[h].ready,
         ~ UniqueViolation(txn[h]), WriteBalances(txn[h])
  PROVE  /\ balance' \in [Accounts -> Rows \cup {NoRow}]
         /\ RowsInv' /\ GrantsKept
<1> DEFINE t == txn[h]
           new(a) == IF a \in t.made THEN [t.rows[a] EXCEPT !.used = NewUsed(t, a)]
                     ELSE IF a \in t.need /\ NewUsed(t, a) # t.rows[a].used
                          THEN [balance[a] EXCEPT !.used = NewUsed(t, a)]
                     ELSE balance[a]
<1>1. Sound(t, balance, submitted) /\ t.ready
  BY DEF TxnInv
<1>2. balance' = [a \in Accounts |-> new(a)] /\ \A a \in t.made : balance[a] = NoRow
  BY DEF WriteBalances, UniqueViolation
<1>3. balance \in [Accounts -> Rows \cup {NoRow}] /\ RowsInv
  BY DEF TxnInv, TypeOK
<1> HIDE DEF t
<1>4. ASSUME NEW a \in Accounts
      PROVE  /\ new(a) \in Rows \cup {NoRow}
             /\ new(a) # NoRow => new(a).used <= new(a).entitled + new(a).carried
             /\ balance[a] # NoRow =>
                  /\ new(a) # NoRow
                  /\ new(a).entitled = balance[a].entitled
                  /\ new(a).carried = balance[a].carried
  <2>1. \A row \in Rows : row # NoRow
    BY NoRowAssumption DEF Rows
  <2>2. ASSUME NEW row \in Rows, NEW n \in 0..(row.entitled + row.carried)
        PROVE  /\ [row EXCEPT !.used = n] \in Rows
               /\ [row EXCEPT !.used = n].used = n
               /\ [row EXCEPT !.used = n].entitled = row.entitled
               /\ [row EXCEPT !.used = n].carried = row.carried
               /\ n <= row.entitled + row.carried
    BY <2>2 DEF Rows
  <2>3. CASE a \in t.made
    <3>1. Knows(t, a, balance)
      BY <1>1, <2>3 DEF Sound
    <3>2. new(a) = [t.rows[a] EXCEPT !.used = NewUsed(t, a)] /\ balance[a] = NoRow
      BY <1>2, <2>3
    <3>3. t.rows[a] \in Rows /\ NewUsed(t, a) \in 0..(t.rows[a].entitled + t.rows[a].carried)
      BY <3>1 DEF Knows
    <3> HIDE DEF new
    <3> QED BY <2>1, <2>2, <3>2, <3>3
  <2>4. CASE a \notin t.made /\ a \in t.need /\ NewUsed(t, a) # t.rows[a].used
    <3>1. Knows(t, a, balance)
      BY <1>1, <2>4 DEF Sound
    <3>2. new(a) = [balance[a] EXCEPT !.used = NewUsed(t, a)]
      BY <2>4
    <3>3. balance[a] \in Rows /\ NewUsed(t, a) \in 0..(balance[a].entitled + balance[a].carried)
      BY <1>3, <2>4, <3>1 DEF Knows
    <3> HIDE DEF new
    <3> QED BY <2>1, <2>2, <3>2, <3>3
  <2>5. CASE ~ (a \in t.made) /\ ~ (a \in t.need /\ NewUsed(t, a) # t.rows[a].used)
    <3>1. new(a) = balance[a]
      BY <2>5
    <3> QED BY <1>3, <3>1 DEF RowsInv
  <2> QED BY <2>3, <2>4, <2>5
<1> HIDE DEF new
<1>5. \A a \in Accounts : balance'[a] = new(a)
  BY <1>2
<1> QED BY <1>2, <1>4, <1>5 DEF RowsInv, GrantsKept

\* The handler that has ended knows nothing any more.
LEMMA EndedSound ==
  ASSUME TxnInv, NEW h \in Handlers, txn' = [txn EXCEPT ![h] = Idle]
  PROVE  /\ DOMAIN txn' = Handlers /\ txn'[h] = Idle
         /\ \A k \in Handlers : k # h => txn'[k] = txn[k]
BY DEF TxnInv

LEMMA SubmitSound ==
  ASSUME TxnInv, NEW h \in Handlers, CommitSubmit(h)
  PROVE  TxnInv' /\ GrantsKept /\ \A r \in 1..submitted : owner'[r] = owner[r] /\ payload'[r] = payload[r]
<1> DEFINE t == txn[h]
<1>1. /\ t # Idle /\ t.op = "submit" /\ t.ready /\ ~ UniqueViolation(t) /\ WriteBalances(t)
      /\ submitted' = t.req
      /\ owner' = [owner EXCEPT ![t.req] = t.by]
      /\ payload' = [payload EXCEPT ![t.req] = t.pay]
      /\ txn' = [txn EXCEPT ![h] = Idle]
      /\ today' = today /\ status' = status /\ decidedBy' = decidedBy
  BY DEF CommitSubmit, Ready
<1>2. Sound(t, balance, submitted)
  BY <1>1 DEF TxnInv
<1>3. /\ balance' \in [Accounts -> Rows \cup {NoRow}]
      /\ RowsInv' /\ GrantsKept
  BY <1>1, WrittenBalances
<1>4. TypeOK /\ StoredRequests
  BY DEF TxnInv
<1>5. DOMAIN txn' = Handlers /\ txn'[h] = Idle /\ \A k \in Handlers : k # h => txn'[k] = txn[k]
  BY <1>1, EndedSound
<1> HIDE DEF t
<1>6. /\ t.req \in Requests /\ t.req = submitted + 1
      /\ t.by \in Staff /\ t.pay \in Payloads /\ t.pay.start <= t.pay.end
      /\ t.pay.kind \in Paid => <<t.by, t.pay.kind, YearOf(t.pay.start)>> \in Accounts
  <2>1. t.req \notin 1..submitted /\ submitted \in Nat
    BY <1>1, <1>4, BoundsAssumption DEF UniqueViolation, Exists, TypeOK
  <2>2. t.req \in Requests /\ t.req <= submitted + 1
    BY <1>1, <1>2 DEF Sound
  <2>3. t.req = submitted + 1
    BY <2>1, <2>2, BoundsAssumption DEF Requests
  <2> QED BY <1>1, <1>2, <2>2, <2>3 DEF Sound
<1>7. TypeOK'
  BY <1>1, <1>3, <1>4, <1>6, BoundsAssumption DEF TypeOK, Requests
<1>8. \A r \in Requests : r # t.req => owner'[r] = owner[r] /\ payload'[r] = payload[r]
  BY <1>1, <1>4 DEF TypeOK
<1>9. owner'[t.req] = t.by /\ payload'[t.req] = t.pay
  BY <1>1, <1>4, <1>6 DEF TypeOK
<1>10. submitted \in Nat /\ submitted' = submitted + 1 /\ MaxRequests \in Nat /\ submitted <= MaxRequests
  BY <1>1, <1>4, <1>6, BoundsAssumption DEF TypeOK
<1>11. StoredRequests'
  <2>1. ASSUME NEW r \in Requests, r \in 1..submitted'
        PROVE  /\ owner'[r] \in Staff
               /\ payload'[r].start <= payload'[r].end
               /\ payload'[r].kind \in Paid =>
                    <<owner'[r], payload'[r].kind, YearOf(payload'[r].start)>> \in Accounts
    <3>1. CASE r = t.req
      BY <1>6, <1>9, <3>1
    <3>2. CASE r # t.req
      <4>1. Exists(r)
        BY <1>6, <1>10, <2>1, <3>2 DEF Exists, Requests
      <4> QED BY <1>4, <1>8, <2>1, <3>2, <4>1 DEF StoredRequests, AccountOf
    <3> QED BY <3>1, <3>2
  <2> QED BY <2>1 DEF StoredRequests, Exists, AccountOf
<1>12. \A r \in 1..submitted : r \in Requests /\ r # t.req
  BY <1>6, <1>10 DEF Requests
<1>13. TxnInv'
  BY <1>3, <1>5, <1>7, <1>10, <1>11, OthersKnow
<1> QED BY <1>3, <1>8, <1>12, <1>13

\* Decisions and views change no request's employee or payload.
LEMMA FrameSound ==
  ASSUME TxnInv, NEW h \in Handlers, txn' = [txn EXCEPT ![h] = Idle],
         owner' = owner, payload' = payload, submitted' = submitted, today' = today,
         status' \in [Requests -> Statuses],
         decidedBy' \in [Requests -> Staff \cup Approvers \cup {Nobody}],
         balance' \in [Accounts -> Rows \cup {NoRow}], RowsInv', GrantsKept
  PROVE  TxnInv'
<1>1. DOMAIN txn' = Handlers /\ txn'[h] = Idle /\ \A k \in Handlers : k # h => txn'[k] = txn[k]
  BY EndedSound
<1>2. TypeOK' /\ StoredRequests'
  BY DEF TxnInv, TypeOK, StoredRequests, Exists, AccountOf
<1>3. submitted' >= submitted
  BY BoundsAssumption DEF TxnInv, TypeOK
<1> QED BY <1>1, <1>2, <1>3, OthersKnow

LEMMA DecisionSound ==
  ASSUME TxnInv, NEW h \in Handlers, CommitDecision(h)
  PROVE  TxnInv' /\ GrantsKept
<1> DEFINE t == txn[h]
<1>1. /\ t # Idle /\ t.ready /\ ~ UniqueViolation(t) /\ WriteBalances(t)
      /\ t.op \in {"approve", "reject", "cancel"}
      /\ status' = [status EXCEPT ![t.req] = Decision[t.op]]
      /\ decidedBy' = [decidedBy EXCEPT ![t.req] = t.by]
      /\ txn' = [txn EXCEPT ![h] = Idle]
      /\ today' = today /\ submitted' = submitted /\ owner' = owner /\ payload' = payload
  BY DEF CommitDecision, Ready
<1>2. balance' \in [Accounts -> Rows \cup {NoRow}] /\ RowsInv' /\ GrantsKept
  BY <1>1, WrittenBalances
<1>3. Sound(t, balance, submitted) /\ TypeOK
  BY <1>1 DEF TxnInv
<1> HIDE DEF t
<1>4. t.by \in Staff \cup Approvers /\ Decision[t.op] \in Statuses
  BY <1>1, <1>3 DEF Sound, Decision, Statuses
<1>5. /\ status' \in [Requests -> Statuses]
      /\ decidedBy' \in [Requests -> Staff \cup Approvers \cup {Nobody}]
  BY <1>1, <1>3, <1>4 DEF TypeOK
<1> QED BY <1>1, <1>2, <1>5, FrameSound

LEMMA ViewSound ==
  ASSUME TxnInv, NEW h \in Handlers, CommitView(h)
  PROVE  TxnInv' /\ GrantsKept
<1>1. /\ txn[h] # Idle /\ txn[h].ready /\ ~ UniqueViolation(txn[h]) /\ WriteBalances(txn[h])
      /\ txn' = [txn EXCEPT ![h] = Idle]
      /\ today' = today /\ submitted' = submitted /\ owner' = owner /\ payload' = payload
      /\ status' = status /\ decidedBy' = decidedBy
  BY DEF CommitView, Ready
<1>2. balance' \in [Accounts -> Rows \cup {NoRow}] /\ RowsInv' /\ GrantsKept
  BY <1>1, WrittenBalances
<1> QED BY <1>1, <1>2, FrameSound DEF TxnInv, TypeOK

\* What the database keeps over a step: requests as they were submitted, and
\* rows with what they were granted.
Kept ==
  /\ \A r \in 1..submitted : owner'[r] = owner[r] /\ payload'[r] = payload[r]
  /\ GrantsKept

LEMMA QuietKept ==
  ASSUME balance' = balance, owner' = owner, payload' = payload PROVE Kept
BY DEF Kept, GrantsKept

LEMMA TxnStep == TxnInv /\ [TxnNext]_txnVars => TxnInv' /\ Kept
<1> SUFFICES ASSUME TxnInv, [TxnNext]_txnVars PROVE TxnInv' /\ Kept
  OBVIOUS
<1>a. /\ TypeOK /\ StoredRequests /\ MaxRequests \in Nat /\ submitted \in 0..MaxRequests
      /\ submitted \in Nat
  BY BoundsAssumption DEF TxnInv, TypeOK
<1>b. \A r \in Requests : Exists(r) =>
        /\ r \in 1..submitted /\ owner[r] \in Staff /\ payload[r] \in Payloads
        /\ payload[r].start <= payload[r].end
        /\ Charged(owner[r], payload[r]) \in SUBSET Accounts
  BY <1>a DEF StoredRequests, TypeOK, Exists, Charged, AccountOf
<1>c. {} \in SUBSET Accounts
  OBVIOUS
<1>d. 0 \in 0..MaxRequests /\ \A r \in Requests : r \in 0..MaxRequests
  BY <1>a DEF Requests
<1>1. ASSUME NEW h \in Handlers, NEW e \in Staff, NEW p \in Payloads, BeginSubmit(h, e, p)
      PROVE  TxnInv' /\ Kept
  <2> DEFINE r == IF p.kind \in Paid THEN 0 ELSE submitted + 1
  <2>1. Begin(h, "submit", e, r, p, Charged(e, p))
    BY <1>1 DEF BeginSubmit
  <2>2. p.start <= p.end /\ YearOf(p.start) \in Years /\ submitted + 1 \in Requests
    BY <1>1 DEF BeginSubmit, ValidPayload
  <2>3. p.kind \in Paid => <<e, p.kind, YearOf(p.start)>> \in Accounts
    BY <2>2 DEF Accounts
  <2>4. Charged(e, p) \in SUBSET Accounts
    BY <2>3 DEF Charged
  <2>5. Charged(e, p) = {} => r \in Requests /\ r <= submitted + 1
    <3>1. CASE p.kind \in Paid
      BY <3>1 DEF Charged
    <3>2. CASE p.kind \notin Paid
      BY <1>a, <2>2, <3>2
    <3> QED BY <3>1, <3>2
  <2>6. "submit" \in Ops /\ e \in Staff \cup Approvers
    BY DEF Ops
  <2>8. r \in 0..MaxRequests
    BY <1>a, <2>2 DEF Requests
  <2> HIDE DEF r
  <2>7. TxnInv'
    BY <2>1, <2>2, <2>3, <2>4, <2>5, <2>6, <2>8, BeginSound
  <2> QED BY <2>1, <2>7, QuietKept DEF Begin, vars
<1>2. ASSUME NEW h \in Handlers, NEW u \in Approvers, NEW r \in Requests, BeginApprove(h, u, r)
      PROVE  TxnInv' /\ Kept
  <2>1. Exists(r) /\ Begin(h, "approve", u, r, payload[r], Charged(owner[r], payload[r]))
    BY <1>2 DEF BeginApprove
  <2>2. "approve" \in Ops
    BY DEF Ops
  <2>3. TxnInv'
    BY <1>b, <1>d, <2>1, <2>2, BeginSound
  <2> QED BY <2>1, <2>3, QuietKept DEF Begin, vars
<1>3. ASSUME NEW h \in Handlers, NEW u \in Approvers, NEW r \in Requests, BeginReject(h, u, r)
      PROVE  TxnInv' /\ Kept
  <2>1. Exists(r) /\ Begin(h, "reject", u, r, payload[r], {})
    BY <1>3 DEF BeginReject
  <2>2. "reject" \in Ops
    BY DEF Ops
  <2>3. TxnInv'
    BY <1>b, <1>c, <1>d, <2>1, <2>2, BeginSound
  <2> QED BY <2>1, <2>3, QuietKept DEF Begin, vars
<1>4. ASSUME NEW h \in Handlers, NEW r \in Requests, BeginCancel(h, r)
      PROVE  TxnInv' /\ Kept
  <2>1. Exists(r) /\ \E need \in SUBSET Accounts : Begin(h, "cancel", owner[r], r, payload[r], need)
    BY <1>4, <1>b, <1>c DEF BeginCancel
  <2>2. "cancel" \in Ops
    BY DEF Ops
  <2>3. TxnInv'
    BY <1>b, <1>d, <2>1, <2>2, BeginSound
  <2> QED BY <2>1, <2>3, QuietKept DEF Begin, vars
<1>5. ASSUME NEW h \in Handlers, NEW e \in Staff, NEW y \in Years, BeginView(h, e, y)
      PROVE  TxnInv' /\ Kept
  <2> DEFINE p == CHOOSE q \in Payloads : TRUE
             need == {a \in Accounts : a[1] = e /\ a[3] = y}
  <2>1. Begin(h, "view", e, 0, p, need)
    BY <1>5 DEF BeginView
  <2>2. p \in Payloads /\ need \in SUBSET Accounts /\ "view" \in Ops
    BY BoundsAssumption DEF Ops
  <2> HIDE DEF p, need
  <2>3. TxnInv'
    BY <1>d, <2>1, <2>2, BeginSound
  <2> QED BY <2>1, <2>3, QuietKept DEF Begin, vars
<1>6. ASSUME NEW h \in Handlers, ReadBalances(h) PROVE TxnInv' /\ Kept
  BY <1>6, ReadSound, QuietKept DEF ReadBalances, vars
<1>7. ASSUME NEW h \in Handlers, CommitSubmit(h) PROVE TxnInv' /\ Kept
  BY <1>7, SubmitSound DEF Kept
<1>8. ASSUME NEW h \in Handlers, CommitDecision(h) PROVE TxnInv' /\ Kept
  BY <1>8, DecisionSound DEF Kept, CommitDecision
<1>9. ASSUME NEW h \in Handlers, CommitView(h) PROVE TxnInv' /\ Kept
  BY <1>9, ViewSound DEF Kept, CommitView
<1>10. ASSUME NEW h \in Handlers, Rollback(h) PROVE TxnInv' /\ Kept
  <2>1. UNCHANGED vars /\ txn' = [txn EXCEPT ![h] = Idle]
    BY <1>10 DEF Rollback
  <2>2. TxnInv'
    BY <2>1, ReaderSound
  <2> QED BY <2>1, <2>2, QuietKept DEF vars
<1>11. CASE TxnDayPasses
  <2>1. /\ today' \in Calendar /\ submitted' = submitted /\ owner' = owner /\ txn' = txn
        /\ payload' = payload /\ status' = status /\ decidedBy' = decidedBy /\ balance' = balance
    BY <1>11 DEF TxnDayPasses, DayPasses
  <2>2. TypeOK' /\ RowsInv' /\ StoredRequests'
    BY <2>1 DEF TxnInv, TypeOK, RowsInv, StoredRequests, Exists, AccountOf
  <2>3. TxnInv'
    BY <2>1, <2>2 DEF TxnInv
  <2> QED BY <2>1, <2>3, QuietKept
<1>12. CASE UNCHANGED txnVars
  <2>1. /\ today' = today /\ submitted' = submitted /\ owner' = owner /\ txn' = txn
        /\ payload' = payload /\ status' = status /\ decidedBy' = decidedBy /\ balance' = balance
    BY <1>12 DEF txnVars, vars
  <2>2. TypeOK' /\ RowsInv' /\ StoredRequests'
    BY <2>1 DEF TxnInv, TypeOK, RowsInv, StoredRequests, Exists, AccountOf
  <2>3. TxnInv'
    BY <2>1, <2>2 DEF TxnInv
  <2> QED BY <2>1, <2>3, QuietKept
<1> QED
  BY <1>1, <1>2, <1>3, <1>4, <1>5, <1>6, <1>7, <1>8, <1>9, <1>10, <1>11, <1>12 DEF TxnNext

LEMMA TxnInvariant == TxnSpec => []TxnInv
<1>1. TxnInv /\ [TxnNext]_txnVars => TxnInv'
  BY TxnStep
<1> QED BY <1>1, TxnInvInit, PTL DEF TxnSpec

-----------------------------------------------------------------------------
\* A transaction only ever holds a request code, accounts and rows of its own
\* operation (the columns a handler of api/v1/requests.py works with).
THEOREM TxnTypeCorrect == TxnSpec => []TxnTypeOK
<1>1. TxnInv => TxnTypeOK
  BY DEF TxnInv, TxnTypeOK, Sound
<1> QED BY <1>1, TxnInvariant, PTL

\* However many handlers read the same balance row and write their own figure
\* back, the stored counter never leaves what the row grants (services/leave.py
\* check_available, deduct, restore).
THEOREM CounterStaysWithinGrant == TxnSpec => []StoredCounterWithinGrant
<1>1. TxnInv => StoredCounterWithinGrant
  <2> SUFFICES ASSUME TxnInv, NEW a \in Accounts, balance[a] # NoRow
               PROVE  balance[a].used \in 0..(balance[a].entitled + balance[a].carried)
    BY DEF StoredCounterWithinGrant
  <2>1. balance[a] \in Rows /\ balance[a].used <= balance[a].entitled + balance[a].carried
    BY DEF TxnInv, TypeOK, RowsInv
  <2> QED BY <2>1 DEF Rows
<1> QED BY <1>1, TxnInvariant, PTL

\* The unique constraints keep two handlers from overwriting each other's rows:
\* a request keeps its employee and payload, a balance the days it was granted.
THEOREM RowsSurviveRaces == TxnSpec => RowsAreNotRecreated
<1> DEFINE Same ==
      /\ \A r \in 1..submitted : owner'[r] = owner[r] /\ payload'[r] = payload[r]
      /\ \A a \in Accounts :
           balance[a] # NoRow =>
             /\ balance'[a] # NoRow
             /\ balance'[a].entitled = balance[a].entitled
             /\ balance'[a].carried = balance[a].carried
<1>1. TxnInv /\ [TxnNext]_txnVars => [Same]_txnVars
  BY TxnStep DEF Kept, GrantsKept
<1> QED BY <1>1, TxnInvariant, PTL DEF TxnSpec, RowsAreNotRecreated
-----------------------------------------------------------------------------
(***************************************************************************)
(* Served one at a time, the handlers implement LeaveLedger. The mapping   *)
(* is the identity on vars; what has to be shown is that the transaction   *)
(* that commits still knows the state as it is: nothing was committed      *)
(* between its first read and its commit.                                  *)
(***************************************************************************)

\* What the handler of each operation has checked holds of the present state.
Checked(t) ==
  /\ t.op = "submit" =>
       /\ t.by \in Staff /\ t.pay \in Payloads /\ ValidPayload(t.pay)
       /\ YearOf(t.pay.start) \in Years /\ submitted + 1 \in Requests
       /\ t.need = Charged(t.by, t.pay)
       /\ t.ready => t.req = submitted + 1
  /\ t.op \in {"approve", "reject", "cancel"} =>
       t.req \in Requests /\ Exists(t.req) /\ t.pay = payload[t.req]
  /\ t.op \in {"approve", "reject"} =>
       t.by \in Approvers /\ status[t.req] = "pending" /\ CanDecide(t.by, t.req)
  /\ t.op = "approve" => t.need = Charged(owner[t.req], payload[t.req])
  /\ t.op = "reject" => t.need = {}
  /\ t.op = "cancel" =>
       /\ t.by = owner[t.req]
       /\ \/ /\ status[t.req] = "approved" /\ payload[t.req].start > today
             /\ t.need = Charged(owner[t.req], payload[t.req])
          \/ status[t.req] = "pending" /\ t.need = {}
  /\ t.op = "view" =>
       t.by \in Staff /\ \E y \in Years : t.need = {a \in Accounts : a[1] = t.by /\ a[3] = y}

\* The rows it has read are the rows as they are, and cover what it checked.
UpToDate(t) ==
  t.ready => \A a \in t.need :
    /\ t.rows[a] = RowFor(a)
    /\ a \in t.made <=> balance[a] = NoRow
    /\ t.op \in {"submit", "approve"} => Covers(a, Days(t.pay))

Current(t) == Checked(t) /\ UpToDate(t)

SerialInv ==
  /\ TxnInv /\ IsFiniteSet(OpenTxns)
  /\ serial => \A h \in Handlers : txn[h] # Idle =>
       Current(txn[h]) /\ \A k \in Handlers \ {h} : txn[k] = Idle

LEMMA SerialInit == MCInit => SerialInv
<1> SUFFICES ASSUME MCInit PROVE SerialInv
  OBVIOUS
<1>1. TxnInv
  BY TxnInvInit DEF MCInit
<1>2. \A h \in Handlers : txn[h] = Idle
  BY DEF MCInit, TxnInit
<1>3. OpenTxns = {}
  BY <1>2 DEF OpenTxns
<1> QED BY <1>1, <1>2, <1>3, FS_EmptySet DEF SerialInv

\* Of a finite set with at most one member any two members are one.
LEMMA AtMostOne ==
  ASSUME NEW S, IsFiniteSet(S), Cardinality(S) <= 1, NEW x \in S, NEW y \in S
  PROVE  x = y
<1> SUFFICES ASSUME x # y PROVE FALSE
  OBVIOUS
<1>1. IsFiniteSet({x}) /\ Cardinality({x}) = 1
  BY FS_Singleton
<1>2. IsFiniteSet({x} \cup {y}) /\ Cardinality({x} \cup {y}) = 2
  <2>1. y \notin {x}
    OBVIOUS
  <2>2. Cardinality({x} \cup {y}) = Cardinality({x}) + 1
    BY <1>1, <2>1, FS_AddElement
  <2> QED BY <1>1, <2>2, FS_AddElement
<1>3. {x} \cup {y} \subseteq S
  OBVIOUS
<1>4. Cardinality({x} \cup {y}) <= Cardinality(S)
  BY <1>3, FS_Subset
<1>5. Cardinality(S) \in Nat
  BY FS_CardinalityType
<1> QED BY <1>2, <1>4, <1>5

\* A step of handler h in a serial behaviour: it is alone before and after.
LEMMA AloneStays ==
  ASSUME SerialInv, TxnInv', serial' = serial, serial => Cardinality(OpenTxns') <= 1,
         NEW h \in Handlers,
         \A k \in Handlers \ {h} : txn'[k] = txn[k],
         txn[h] # Idle \/ txn'[h] # Idle,
         serial /\ txn'[h] # Idle => Current(txn[h])'
  PROVE  SerialInv'
<1>1. OpenTxns' \subseteq OpenTxns \cup {h}
  BY DEF OpenTxns
<1>2. IsFiniteSet(OpenTxns \cup {h})
  BY FS_AddElement DEF SerialInv
<1>3. IsFiniteSet(OpenTxns')
  BY <1>1, <1>2, FS_Subset
<1>4. ASSUME serial PROVE \A k \in Handlers \ {h} : txn'[k] = Idle
  <2> SUFFICES ASSUME NEW k \in Handlers \ {h}, txn'[k] # Idle PROVE FALSE
    OBVIOUS
  <2>1. CASE txn[h] # Idle
    BY <1>4, <2>1 DEF SerialInv
  <2>2. CASE txn'[h] # Idle
    <3>1. h \in OpenTxns' /\ k \in OpenTxns'
      BY <2>2 DEF OpenTxns
    <3> QED BY <1>3, <1>4, <3>1, AtMostOne
  <2> QED BY <2>1, <2>2
<1>5. ASSUME serial, NEW k \in Handlers, txn'[k] # Idle
      PROVE  Current(txn[k])' /\ \A j \in Handlers \ {k} : txn'[j] = Idle
  <2>1. k = h
    BY <1>4, <1>5
  <2> QED BY <1>4, <1>5, <2>1
<1> QED BY <1>3, <1>5 DEF SerialInv

\* What was true of a transaction is true while the rows stand still.
LEMMA CurrentStays ==
  ASSUME UNCHANGED vars, NEW h \in Handlers, NEW w, txn'[h] = w, Current(w)
  PROVE  Current(txn[h])'
<1>1. /\ today' = today /\ submitted' = submitted /\ owner' = owner
      /\ payload' = payload /\ status' = status /\ balance' = balance
  BY DEF vars
<1>2. Checked(txn[h])'
  BY <1>1 DEF Current, Checked, Exists, CanDecide
<1>3. UpToDate(txn[h])'
  BY <1>1 DEF Current, UpToDate, RowFor, FreshRow, CarriedInto, Covers
<1> QED BY <1>2, <1>3 DEF Current
-----------------------------------------------------------------------------
\* Opening a transaction and reading leave it up to date.
LEMMA BeginCurrent ==
  ASSUME NEW h \in Handlers, DOMAIN txn = Handlers,
         NEW op, NEW by, NEW r, NEW p, NEW need, Begin(h, op, by, r, p, need),
         Checked([op |-> op, by |-> by, req |-> r, pay |-> p, need |-> need,
                  rows |-> <<>>, made |-> {}, ready |-> need = {}])
  PROVE  Current(txn[h])'
<1> DEFINE t == [op |-> op, by |-> by, req |-> r, pay |-> p, need |-> need,
                 rows |-> <<>>, made |-> {}, ready |-> need = {}]
<1>1. UpToDate(t)
  BY DEF UpToDate
<1>2. UNCHANGED vars /\ txn'[h] = t
  BY DEF Begin
<1> HIDE DEF t
<1> QED BY <1>1, <1>2, CurrentStays DEF Current, t

LEMMA ReadCurrent ==
  ASSUME TxnInv, NEW h \in Handlers, ReadBalances(h), Checked(txn[h])
  PROVE  Current(txn[h])'
<1> DEFINE t == txn[h]
           w == [t EXCEPT !.rows = [a \in t.need |-> RowFor(a)],
                          !.made = {a \in t.need : balance[a] = NoRow},
                          !.req = IF t.op = "submit" THEN submitted + 1 ELSE @,
                          !.ready = TRUE]
<1>1. /\ UNCHANGED vars /\ txn'[h] = w
      /\ t.op \in {"submit", "approve"} => \A a \in t.need : Covers(a, Days(t.pay))
  BY DEF ReadBalances, TxnInv
<1>2. Columns(t)
  BY DEF TxnInv, Sound, ReadBalances
<1>3. /\ w.op = t.op /\ w.by = t.by /\ w.pay = t.pay /\ w.need = t.need
      /\ w.rows = [a \in t.need |-> RowFor(a)]
      /\ w.made = {a \in t.need : balance[a] = NoRow}
      /\ w.req = IF t.op = "submit" THEN submitted + 1 ELSE t.req
  <2> HIDE DEF t
  <2> QED BY <1>2 DEF Columns
<1> HIDE DEF w
<1>4. Checked(w)
  BY <1>3 DEF Checked
<1>5. UpToDate(w)
  BY <1>1, <1>3 DEF UpToDate
<1> QED BY <1>1, <1>4, <1>5, CurrentStays DEF Current

\* What a commit that is up to date writes: every row it needed, as it is or
\* made up, with the new figure.
LEMMA SerialWrite ==
  ASSUME TxnInv, NEW h \in Handlers, txn[h] # Idle, txn[h].ready,
         UpToDate(txn[h]), WriteBalances(txn[h])
  PROVE  balance' = [a \in Accounts |->
                       IF a \in txn[h].need
                       THEN [RowFor(a) EXCEPT !.used = NewUsed(txn[h], a)]
                       ELSE balance[a]]
<1> DEFINE t == txn[h]
           new(a) == IF a \in t.made THEN [t.rows[a] EXCEPT !.used = NewUsed(t, a)]
                     ELSE IF a \in t.need /\ NewUsed(t, a) # t.rows[a].used
                          THEN [balance[a] EXCEPT !.used = NewUsed(t, a)]
                     ELSE balance[a]
           right(a) == IF a \in t.need THEN [RowFor(a) EXCEPT !.used = NewUsed(t, a)]
                       ELSE balance[a]
<1>1. balance' = [a \in Accounts |-> new(a)]
  BY DEF WriteBalances
<1>2. Sound(t, balance, submitted) /\ t.ready /\ UpToDate(t)
  BY DEF TxnInv
<1>3. TypeOK /\ RowsInv
  BY DEF TxnInv
<1> HIDE DEF t
<1>4. ASSUME NEW a \in Accounts PROVE new(a) = right(a)
  <2>1. CASE a \notin t.need
    BY <1>2, <2>1 DEF Sound
  <2>2. CASE a \in t.need
    <3>1. t.rows[a] = RowFor(a) /\ (a \in t.made <=> balance[a] = NoRow)
      BY <1>2, <2>2 DEF UpToDate
    <3>2. RowFor(a) \in Rows
      BY <1>3, RowForType
    <3>3. CASE a \in t.made
      BY <2>2, <3>1, <3>3
    <3>4. CASE a \notin t.made
      <4>1. balance[a] = RowFor(a)
        BY <3>1, <3>4 DEF RowFor
      <4>2. CASE NewUsed(t, a) # t.rows[a].used
        BY <2>2, <3>4, <4>1, <4>2
      <4>3. CASE NewUsed(t, a) = t.rows[a].used
        <5>1. [RowFor(a) EXCEPT !.used = RowFor(a).used] = RowFor(a)
          BY <3>2 DEF Rows
        <5> QED BY <2>2, <3>1, <3>4, <4>1, <4>3, <5>1
      <4> QED BY <4>2, <4>3
    <3> QED BY <3>3, <3>4
  <2> QED BY <2>1, <2>2
<1> HIDE DEF new
<1> QED BY <1>1, <1>4 DEF t

\* ... which for one account is an update of its row.
LEMMA SerialWriteOne ==
  ASSUME TxnInv, NEW h \in Handlers, txn[h] # Idle, txn[h].ready,
         UpToDate(txn[h]), WriteBalances(txn[h]),
         NEW e, NEW p, txn[h].need = Charged(e, p)
  PROVE  LET a == <<e, p.kind, YearOf(p.start)>>
         IN  IF p.kind \in Paid
             THEN balance' = [balance EXCEPT ![a] =
                                [RowFor(a) EXCEPT !.used = NewUsed(txn[h], a)]]
             ELSE balance' = balance
<1> DEFINE a == <<e, p.kind, YearOf(p.start)>>
           row == [RowFor(a) EXCEPT !.used = NewUsed(txn[h], a)]
<1>1. balance' = [b \in Accounts |->
                       IF b \in txn[h].need
                       THEN [RowFor(b) EXCEPT !.used = NewUsed(txn[h], b)]
                       ELSE balance[b]]
  BY SerialWrite
<1>2. balance \in [Accounts -> Rows \cup {NoRow}]
  BY DEF TxnInv, TypeOK
<1>3. CASE p.kind \in Paid
  <2>1. txn[h].need = {a}
    BY <1>3 DEF Charged
  <2>2. balance' = [b \in Accounts |-> IF b = a THEN row ELSE balance[b]]
    BY <1>1, <2>1
  <2>3. balance' = [balance EXCEPT ![a] = row]
    <3> HIDE DEF row, a
    <3> QED BY <1>2, <2>2
  <2> QED BY <1>3, <2>3
<1>4. CASE p.kind \notin Paid
  <2>1. txn[h].need = {}
    BY <1>4 DEF Charged
  <2>2. balance' = [b \in Accounts |-> balance[b]]
    BY <1>1, <2>1
  <2> QED BY <1>2, <1>4, <2>2
<1> QED BY <1>3, <1>4
-----------------------------------------------------------------------------
(***************************************************************************)
(* Each commit of an up to date transaction is an action of LeaveLedger.   *)
(***************************************************************************)

LEMMA SubmitImplements ==
  ASSUME TxnInv, NEW h \in Handlers, CommitSubmit(h), Current(txn[h])
  PROVE  \E e \in Staff, p \in Payloads : Submit(e, p)
<1> DEFINE t == txn[h]
           a == <<t.by, t.pay.kind, YearOf(t.pay.start)>>
<1>1. /\ t # Idle /\ t.op = "submit" /\ t.ready /\ WriteBalances(t)
      /\ submitted' = t.req
      /\ owner' = [owner EXCEPT ![t.req] = t.by]
      /\ payload' = [payload EXCEPT ![t.req] = t.pay]
      /\ UNCHANGED <<today, status, decidedBy>>
  BY DEF CommitSubmit, Ready
<1>2. /\ t.by \in Staff /\ t.pay \in Payloads /\ ValidPayload(t.pay)
      /\ YearOf(t.pay.start) \in Years /\ submitted + 1 \in Requests
      /\ t.need = Charged(t.by, t.pay) /\ t.req = submitted + 1
      /\ UpToDate(t)
  BY <1>1 DEF Current, Checked
<1>3. IF t.pay.kind \in Paid
      THEN balance' = [balance EXCEPT ![a] = [RowFor(a) EXCEPT !.used = NewUsed(t, a)]]
      ELSE balance' = balance
  BY <1>1, <1>2, SerialWriteOne
<1>4. ASSUME t.pay.kind \in Paid
      PROVE  Covers(a, Days(t.pay)) /\ balance' = [balance EXCEPT ![a] = RowFor(a)]
  <2>1. a \in t.need /\ a \in Accounts
    BY <1>2, <1>4 DEF Charged, Accounts
  <2>2. t.rows[a] = RowFor(a) /\ Covers(a, Days(t.pay))
    BY <1>1, <1>2, <2>1 DEF UpToDate
  <2>3. RowFor(a) \in Rows
    BY <2>1, RowForType DEF TxnInv
  <2>4. NewUsed(t, a) = RowFor(a).used
    BY <1>1, <2>2 DEF NewUsed
  <2>5. [RowFor(a) EXCEPT !.used = NewUsed(t, a)] = RowFor(a)
    BY <2>3, <2>4 DEF Rows
  <2> QED BY <1>3, <1>4, <2>2, <2>5
<1> HIDE DEF t
<1>5. Submit(t.by, t.pay)
  BY <1>1, <1>2, <1>3, <1>4 DEF Submit
<1> QED BY <1>2, <1>5

LEMMA DecisionImplements ==
  ASSUME TxnInv, NEW h \in Handlers, CommitDecision(h), Current(txn[h])
  PROVE  \/ \E u \in Approvers, r \in Requests : Approve(u, r) \/ Reject(u, r)
         \/ \E r \in Requests : Cancel(r)
<1> DEFINE t == txn[h]
           r == t.req
           a == AccountOf(r)
<1>1. /\ t # Idle /\ t.op \in {"approve", "reject", "cancel"} /\ t.ready /\ WriteBalances(t)
      /\ status' = [status EXCEPT ![r] = Decision[t.op]]
      /\ decidedBy' = [decidedBy EXCEPT ![r] = t.by]
      /\ UNCHANGED <<today, submitted, owner, payload>>
  BY DEF CommitDecision, Ready
<1>2. /\ r \in Requests /\ Exists(r) /\ t.pay = payload[r]
      /\ Checked(t) /\ UpToDate(t)
  BY <1>1 DEF Current, Checked
<1>3. ASSUME t.need = Charged(owner[r], payload[r]), payload[r].kind \in Paid
      PROVE  /\ balance' = [balance EXCEPT ![a] = [RowFor(a) EXCEPT !.used = NewUsed(t, a)]]
             /\ t.rows[a] = RowFor(a)
             /\ t.op = "approve" => Covers(a, Days(payload[r]))
  <2>1. a \in t.need
    BY <1>3 DEF Charged, AccountOf
  <2>2. balance' = [balance EXCEPT ![a] = [RowFor(a) EXCEPT !.used = NewUsed(t, a)]]
    BY <1>1, <1>2, <1>3, SerialWriteOne DEF AccountOf
  <2> QED BY <1>1, <1>2, <2>1, <2>2 DEF UpToDate
<1>4. ASSUME t.need = Charged(owner[r], payload[r]), payload[r].kind \notin Paid
      PROVE  UNCHANGED balance
  BY <1>1, <1>2, <1>4, SerialWriteOne
<1>5. ASSUME t.need = {} PROVE UNCHANGED balance
  <2>1. balance' = [b \in Accounts |-> balance[b]]
    BY <1>1, <1>2, <1>5, SerialWrite
  <2> QED BY <2>1 DEF TxnInv, TypeOK
<1>6. CASE t.op = "approve"
  <2>1. /\ t.by \in Approvers /\ status[r] = "pending" /\ CanDecide(t.by, r)
        /\ t.need = Charged(owner[r], payload[r])
    BY <1>2, <1>6 DEF Checked
  <2>2. IF payload[r].kind \in Paid
        THEN Covers(a, Days(payload[r])) /\ Deduct(a, Days(payload[r]))
        ELSE UNCHANGED balance
    <3>1. NewUsed(t, a) = t.rows[a].used + Days(payload[r])
      BY <1>2, <1>6 DEF NewUsed
    <3>2. CASE payload[r].kind \in Paid
      <4>1. /\ t.rows[a] = RowFor(a) /\ Covers(a, Days(payload[r]))
            /\ balance' = [balance EXCEPT ![a] = [RowFor(a) EXCEPT !.used = NewUsed(t, a)]]
        BY <1>3, <1>6, <2>1, <3>2
      <4> HIDE DEF t, r, a
      <4>2. NewUsed(t, a) = RowFor(a).used + Days(payload[r])
        BY <3>1, <4>1
      <4>3. Deduct(a, Days(payload[r]))
        BY <4>1, <4>2 DEF Deduct
      <4> QED BY <3>2, <4>1, <4>3
    <3> QED BY <1>4, <2>1, <3>2
  <2> HIDE DEF t, r
  <2>3. Approve(t.by, r)
    BY <1>1, <1>2, <1>6, <2>1, <2>2 DEF Approve, Decision
  <2> QED BY <1>2, <2>1, <2>3
<1>7. CASE t.op = "reject"
  <2>1. /\ t.by \in Approvers /\ status[r] = "pending" /\ CanDecide(t.by, r)
        /\ t.need = {}
    BY <1>2, <1>7 DEF Checked
  <2> HIDE DEF t, r
  <2>2. Reject(t.by, r)
    BY <1>1, <1>2, <1>5, <1>7, <2>1 DEF Reject, Decision
  <2> QED BY <1>2, <2>1, <2>2
<1>8. CASE t.op = "cancel"
  <2>1. /\ t.by = owner[r]
        /\ \/ /\ status[r] = "approved" /\ payload[r].start > today
              /\ t.need = Charged(owner[r], payload[r])
           \/ status[r] = "pending" /\ t.need = {}
    BY <1>2, <1>8 DEF Checked
  <2>2. ASSUME t.need = Charged(owner[r], payload[r])
        PROVE  IF payload[r].kind \in Paid THEN Restore(a, Days(payload[r]))
               ELSE UNCHANGED balance
    <3>1. NewUsed(t, a) = Greater(0, t.rows[a].used - Days(payload[r]))
      BY <1>2, <1>8 DEF NewUsed
    <3>2. CASE payload[r].kind \in Paid
      <4>1. /\ t.rows[a] = RowFor(a)
            /\ balance' = [balance EXCEPT ![a] = [RowFor(a) EXCEPT !.used = NewUsed(t, a)]]
        BY <1>3, <2>2, <3>2
      <4> HIDE DEF t, r, a
      <4>2. NewUsed(t, a) = Greater(0, RowFor(a).used - Days(payload[r]))
        BY <3>1, <4>1
      <4>3. Restore(a, Days(payload[r]))
        BY <4>1, <4>2 DEF Restore
      <4> QED BY <3>2, <4>3
    <3> QED BY <1>4, <2>2, <3>2
  <2>3. status' = [status EXCEPT ![r] = "cancelled"] /\ decidedBy' = [decidedBy EXCEPT ![r] = owner[r]]
    BY <1>1, <1>8, <2>1 DEF Decision
  <2> HIDE DEF t, r
  <2>4. Cancel(r)
    BY <1>1, <1>2, <1>5, <2>1, <2>2, <2>3 DEF Cancel
  <2> QED BY <1>2, <2>4
<1> QED BY <1>1, <1>6, <1>7, <1>8

LEMMA ViewImplements ==
  ASSUME TxnInv, NEW h \in Handlers, CommitView(h), Current(txn[h])
  PROVE  \E e \in Staff, y \in Years : ViewBalance(e, y)
<1> DEFINE t == txn[h]
<1>1. /\ t # Idle /\ t.op = "view" /\ t.ready /\ WriteBalances(t)
      /\ UNCHANGED <<today, submitted, owner, payload, status, decidedBy>>
  BY DEF CommitView, Ready
<1>2. t.by \in Staff /\ UpToDate(t)
  BY <1>1 DEF Current, Checked
<1>3. PICK y \in Years : t.need = {a \in Accounts : a[1] = t.by /\ a[3] = y}
  BY <1>1 DEF Current, Checked
<1>4. balance' = [a \in Accounts |->
                    IF a \in t.need THEN [RowFor(a) EXCEPT !.used = NewUsed(t, a)]
                    ELSE balance[a]]
  BY <1>1, <1>2, SerialWrite
<1>5. TypeOK /\ RowsInv
  BY DEF TxnInv
<1> HIDE DEF t
<1>6. ASSUME NEW a \in Accounts, a \in t.need
      PROVE  [RowFor(a) EXCEPT !.used = NewUsed(t, a)] = RowFor(a)
  <2>1. RowFor(a) \in Rows
    BY <1>5, RowForType
  <2>2. NewUsed(t, a) = RowFor(a).used
    BY <1>1, <1>2, <1>6 DEF UpToDate, NewUsed
  <2> QED BY <2>1, <2>2 DEF Rows
<1>7. \A a \in Accounts : a \in t.need <=> a[1] = t.by /\ a[3] = y
  BY <1>3
<1>8. balance' = [a \in Accounts |->
                    IF a[1] = t.by /\ a[3] = y THEN RowFor(a) ELSE balance[a]]
  BY <1>4, <1>6, <1>7
<1>9. ViewBalance(t.by, y)
  BY <1>1, <1>8 DEF ViewBalance
<1> QED BY <1>2, <1>9

-----------------------------------------------------------------------------
\* Opening a transaction checks what Checked says, of the state it opens in.
LEMMA BeginsAreCurrent ==
  ASSUME TxnInv, NEW h \in Handlers,
         \/ \E e \in Staff, p \in Payloads : BeginSubmit(h, e, p)
         \/ \E u \in Approvers, r \in Requests : BeginApprove(h, u, r) \/ BeginReject(h, u, r)
         \/ \E r \in Requests : BeginCancel(h, r)
         \/ \E e \in Staff, y \in Years : BeginView(h, e, y)
  PROVE  Current(txn[h])' /\ UNCHANGED vars /\ \A k \in Handlers \ {h} : txn'[k] = txn[k]
<1> DEFINE new(op, by, r, p, need) ==
             [op |-> op, by |-> by, req |-> r, pay |-> p, need |-> need,
              rows |-> <<>>, made |-> {}, ready |-> need = {}]
<1>1. DOMAIN txn = Handlers
  BY DEF TxnInv
<1>2. ASSUME NEW op, NEW by, NEW r, NEW p, NEW need, Begin(h, op, by, r, p, need),
             Checked(new(op, by, r, p, need))
      PROVE  Current(txn[h])' /\ UNCHANGED vars /\ \A k \in Handlers \ {h} : txn'[k] = txn[k]
  <2>1. Current(txn[h])'
    BY <1>1, <1>2, BeginCurrent
  <2> QED BY <1>1, <1>2, <2>1 DEF Begin
<1>3. CASE \E e \in Staff, p \in Payloads : BeginSubmit(h, e, p)
  <2>1. PICK e \in Staff, p \in Payloads : BeginSubmit(h, e, p)
    BY <1>3
  <2>2. PICK r : r = IF p.kind \in Paid THEN 0 ELSE submitted + 1
    OBVIOUS
  <2>3. Begin(h, "submit", e, r, p, Charged(e, p))
    BY <2>1, <2>2 DEF BeginSubmit
  <2>4. Charged(e, p) = {} => p.kind \notin Paid
    BY DEF Charged
  <2>5. ValidPayload(p) /\ YearOf(p.start) \in Years /\ submitted + 1 \in Requests
    BY <2>1 DEF BeginSubmit
  <2>6. Checked(new("submit", e, r, p, Charged(e, p)))
    BY <2>2, <2>4, <2>5 DEF Checked
  <2> HIDE DEF new
  <2> QED BY <1>2, <2>3, <2>6
<1>4. CASE \E u \in Approvers, r \in Requests : BeginApprove(h, u, r)
  <2>1. PICK u \in Approvers, r \in Requests : BeginApprove(h, u, r)
    BY <1>4
  <2>2. PICK p, need : p = payload[r] /\ need = Charged(owner[r], payload[r])
    OBVIOUS
  <2>3. /\ Begin(h, "approve", u, r, p, need)
        /\ Exists(r) /\ status[r] = "pending" /\ CanDecide(u, r)
    BY <2>1, <2>2 DEF BeginApprove
  <2>4. Checked(new("approve", u, r, p, need))
    BY <2>2, <2>3 DEF Checked
  <2> HIDE DEF new
  <2> QED BY <1>2, <2>3, <2>4
<1>5. CASE \E u \in Approvers, r \in Requests : BeginReject(h, u, r)
  <2>1. PICK u \in Approvers, r \in Requests : BeginReject(h, u, r)
    BY <1>5
  <2>2. PICK p : p = payload[r]
    OBVIOUS
  <2>3. /\ Begin(h, "reject", u, r, p, {})
        /\ Exists(r) /\ status[r] = "pending" /\ CanDecide(u, r)
    BY <2>1, <2>2 DEF BeginReject
  <2>4. Checked(new("reject", u, r, p, {}))
    BY <2>2, <2>3 DEF Checked
  <2> HIDE DEF new
  <2> QED BY <1>2, <2>3, <2>4
<1>6. CASE \E r \in Requests : BeginCancel(h, r)
  <2>1. PICK r \in Requests : BeginCancel(h, r)
    BY <1>6
  <2>2. PICK by, p, need :
          /\ by = owner[r] /\ p = payload[r]
          /\ need = IF status[r] = "approved" THEN Charged(owner[r], payload[r]) ELSE {}
    OBVIOUS
  <2>3. /\ Begin(h, "cancel", by, r, p, need) /\ Exists(r)
        /\ \/ status[r] = "approved" /\ payload[r].start > today
           \/ status[r] = "pending"
    BY <2>1, <2>2 DEF BeginCancel
  <2>4. Checked(new("cancel", by, r, p, need))
    BY <2>2, <2>3 DEF Checked
  <2> HIDE DEF new
  <2> QED BY <1>2, <2>3, <2>4
<1>7. CASE \E e \in Staff, y \in Years : BeginView(h, e, y)
  <2>1. PICK e \in Staff, y \in Years : BeginView(h, e, y)
    BY <1>7
  <2>2. PICK p : p = CHOOSE q \in Payloads : TRUE
    OBVIOUS
  <2>3. PICK need : need = {a \in Accounts : a[1] = e /\ a[3] = y}
    OBVIOUS
  <2>4. Begin(h, "view", e, 0, p, need)
    BY <2>1, <2>2, <2>3 DEF BeginView
  <2>5. Checked(new("view", e, 0, p, need))
    BY <2>3 DEF Checked
  <2> HIDE DEF new
  <2> QED BY <1>2, <2>4, <2>5
<1> QED BY <1>3, <1>4, <1>5, <1>6, <1>7

LEMMA SerialStep ==
  SerialInv /\ [MCNext]_<<txnVars, serial>> => SerialInv' /\ [serial => Next]_vars
<1> SUFFICES ASSUME SerialInv, [MCNext]_<<txnVars, serial>>
             PROVE  SerialInv' /\ [serial => Next]_vars
  OBVIOUS
<1>1. CASE UNCHANGED <<txnVars, serial>>
  <2>1. UNCHANGED vars /\ txn' = txn /\ serial' = serial
    BY <1>1 DEF txnVars
  <2>2. TxnInv'
    BY <1>1, TxnStep DEF SerialInv
  <2>3. OpenTxns' = OpenTxns
    BY <2>1 DEF OpenTxns
  <2>4. \A h \in Handlers : Current(txn[h]) => Current(txn[h])'
    BY <2>1, CurrentStays
  <2> QED BY <2>1, <2>2, <2>3, <2>4 DEF SerialInv
<1>2. CASE MCNext
  <2>1. TxnNext /\ serial' = serial /\ (serial => Cardinality(OpenTxns') <= 1)
    BY <1>2 DEF MCNext
  <2>2. TxnInv'
    BY <2>1, TxnStep DEF SerialInv
  <2>3. TxnInv /\ DOMAIN txn = Handlers
    BY DEF SerialInv, TxnInv
  <2>4. ASSUME NEW h \in Handlers, UNCHANGED vars, \A k \in Handlers \ {h} : txn'[k] = txn[k],
               txn[h] # Idle \/ txn'[h] # Idle,
               serial /\ txn'[h] # Idle => Current(txn[h])'
        PROVE  SerialInv' /\ [serial => Next]_vars
    BY <2>1, <2>2, <2>4, AloneStays
  <2>5. ASSUME NEW h \in Handlers, txn[h] # Idle, txn' = [txn EXCEPT ![h] = Idle],
               serial => Next
        PROVE  SerialInv' /\ [serial => Next]_vars
    <3>1. txn'[h] = Idle /\ \A k \in Handlers \ {h} : txn'[k] = txn[k]
      BY <2>3, <2>5
    <3> QED BY <2>1, <2>2, <2>5, <3>1, AloneStays
  <2>6. ASSUME NEW h \in Handlers, serial, txn[h] # Idle PROVE Current(txn[h])
    BY <2>6 DEF SerialInv
  <2>7. ASSUME NEW h \in Handlers,
         \/ \E e \in Staff, p \in Payloads : BeginSubmit(h, e, p)
         \/ \E u \in Approvers, r \in Requests : BeginApprove(h, u, r) \/ BeginReject(h, u, r)
         \/ \E r \in Requests : BeginCancel(h, r)
         \/ \E e \in Staff, y \in Years : BeginView(h, e, y)
        PROVE  SerialInv' /\ [serial => Next]_vars
    <3>1. Current(txn[h])' /\ UNCHANGED vars /\ \A k \in Handlers \ {h} : txn'[k] = txn[k]
      BY <2>3, <2>7, BeginsAreCurrent
    <3>2. txn'[h] # Idle
      BY <2>3, <2>7 DEF BeginSubmit, BeginApprove, BeginReject, BeginCancel, BeginView, Begin, Idle
    <3> QED BY <2>4, <3>1, <3>2
  <2>8. ASSUME NEW h \in Handlers, ReadBalances(h) PROVE SerialInv' /\ [serial => Next]_vars
    <3>1. txn[h] # Idle /\ UNCHANGED vars /\ \A k \in Handlers \ {h} : txn'[k] = txn[k]
      BY <2>3, <2>8 DEF ReadBalances
    <3>2. ASSUME serial PROVE Current(txn[h])'
      <4>1. Checked(txn[h])
        BY <2>6, <3>1, <3>2 DEF Current
      <4> QED BY <2>3, <2>8, <4>1, ReadCurrent
    <3> QED BY <2>4, <3>1, <3>2
  <2>9. ASSUME NEW h \in Handlers, CommitSubmit(h) PROVE SerialInv' /\ [serial => Next]_vars
    <3>1. txn[h] # Idle /\ txn' = [txn EXCEPT ![h] = Idle]
      BY <2>9 DEF CommitSubmit, Ready
    <3>2. serial => Next
      BY <2>3, <2>6, <2>9, <3>1, SubmitImplements DEF Next
    <3> QED BY <2>5, <3>1, <3>2
  <2>10. ASSUME NEW h \in Handlers, CommitDecision(h) PROVE SerialInv' /\ [serial => Next]_vars
    <3>1. txn[h] # Idle /\ txn' = [txn EXCEPT ![h] = Idle]
      BY <2>10 DEF CommitDecision, Ready
    <3>2. serial => Next
      BY <2>3, <2>6, <2>10, <3>1, DecisionImplements DEF Next
    <3> QED BY <2>5, <3>1, <3>2
  <2>11. ASSUME NEW h \in Handlers, CommitView(h) PROVE SerialInv' /\ [serial => Next]_vars
    <3>1. txn[h] # Idle /\ txn' = [txn EXCEPT ![h] = Idle]
      BY <2>11 DEF CommitView, Ready
    <3>2. serial => Next
      BY <2>3, <2>6, <2>11, <3>1, ViewImplements DEF Next
    <3> QED BY <2>5, <3>1, <3>2
  <2>12. ASSUME NEW h \in Handlers, Rollback(h) PROVE SerialInv' /\ [serial => Next]_vars
    <3>1. txn[h] # Idle /\ UNCHANGED vars /\ txn'[h] = Idle /\ \A k \in Handlers \ {h} : txn'[k] = txn[k]
      BY <2>3, <2>12 DEF Rollback
    <3> QED BY <2>4, <3>1
  <2>13. CASE TxnDayPasses
    <3>1. (\A h \in Handlers : txn[h] = Idle) /\ txn' = txn /\ DayPasses
      BY <2>13 DEF TxnDayPasses
    <3>2. OpenTxns' = OpenTxns
      BY <3>1 DEF OpenTxns
    <3> QED BY <2>1, <2>2, <3>1, <3>2 DEF SerialInv, Next
  <2> QED BY <2>1, <2>7, <2>8, <2>9, <2>10, <2>11, <2>12, <2>13 DEF TxnNext
<1> QED BY <1>1, <1>2

LEMMA SerialInvariant == MCSpec => []SerialInv
<1>1. SerialInv /\ [MCNext]_<<txnVars, serial>> => SerialInv'
  BY SerialStep
<1> QED BY <1>1, SerialInit, PTL DEF MCSpec

\* Served one at a time, the handlers of api/v1/requests.py are the atomic
\* ledger: every commit is one of its actions, everything else a stutter.
THEOREM SerialRefinement == MCSpec => SerialImplementsLedger
<1>1. MCInit => Init
  BY DEF MCInit, TxnInit
<1>2. SerialInv /\ [MCNext]_<<txnVars, serial>> => [serial => Next]_vars
  BY SerialStep
<1> QED BY <1>1, <1>2, SerialInvariant, PTL DEF MCSpec, SerialImplementsLedger
=============================================================================
