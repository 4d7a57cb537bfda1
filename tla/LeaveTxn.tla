------------------------------ MODULE LeaveTxn ------------------------------
(***************************************************************************)
(* LeaveLedger with its handlers as transactions.                          *)
(*                                                                         *)
(* The endpoints are plain "def" functions, so the server runs them in a   *)
(* thread pool, each in a session of its own (core/database.py) at the     *)
(* database's default isolation, READ COMMITTED, with no row locks and no  *)
(* version columns. A handler therefore                                    *)
(*   - reads the request row and decides on the status it saw;             *)
(*   - reads the balance row, whose values the session keeps from then on  *)
(*     (its identity map), and makes the row up when there is none;        *)
(*   - commits UPDATEs by primary key of the columns it changed, computed  *)
(*     from the values it read, and INSERTs that a unique constraint may   *)
(*     refuse.                                                             *)
(* Handlers is the set of requests the pool serves at once.                *)
(***************************************************************************)
EXTENDS LeaveLedger

CONSTANT Handlers

ASSUME HandlersAssumption == Handlers # {}

VARIABLE
  txn           \* handler -> its open transaction

txnVars == <<vars, txn>>

Idle == [op |-> "idle"]

Ops == {"submit", "approve", "reject", "cancel", "view"}

Decision == [approve |-> "approved", reject |-> "rejected", cancel |-> "cancelled"]

(***************************************************************************)
(* A transaction: its operation, the account it acts for, the request it   *)
(* loaded (or the code it will insert), the payload, the balance accounts  *)
(* it must read (need), the rows as this session knows them, those of them *)
(* it created, and whether all its reads are done.                         *)
(***************************************************************************)
Begin(h, op, by, r, p, need) ==
  /\ txn[h] = Idle
  /\ txn' = [txn EXCEPT ![h] =
               [op |-> op, by |-> by, req |-> r, pay |-> p, need |-> need,
                rows |-> <<>>, made |-> {}, ready |-> need = {}]]
  /\ UNCHANGED vars

Charged(e, p) == IF p.kind \in Paid THEN {<<e, p.kind, YearOf(p.start)>>} ELSE {}

BeginSubmit(h, e, p) ==
  /\ submitted + 1 \in Requests
  /\ ValidPayload(p)
  /\ YearOf(p.start) \in Years
  /\ Begin(h, "submit", e, IF p.kind \in Paid THEN 0 ELSE submitted + 1, p, Charged(e, p))

\* _get_visible, then the is_open and can_decide checks of _decide.
BeginApprove(h, u, r) ==
  /\ Exists(r) /\ status[r] = "pending" /\ CanDecide(u, r)
  /\ Begin(h, "approve", u, r, payload[r], Charged(owner[r], payload[r]))

BeginReject(h, u, r) ==
  /\ Exists(r) /\ status[r] = "pending" /\ CanDecide(u, r)
  /\ Begin(h, "reject", u, r, payload[r], {})

\* Mutant: approved leave is withdrawn whether or not it has started.
BeginCancelStarted(h, r) ==
  /\ Exists(r)
  /\ status[r] \in {"approved", "pending"}
  /\ Begin(h, "cancel", owner[r], r, payload[r],
           IF status[r] = "approved" THEN Charged(owner[r], payload[r]) ELSE {})

BeginCancel(h, r) ==
  /\ Exists(r)
  /\ \/ /\ status[r] = "approved"
        /\ payload[r].start > today
        /\ Begin(h, "cancel", owner[r], r, payload[r], Charged(owner[r], payload[r]))
     \/ /\ status[r] = "pending"
        /\ Begin(h, "cancel", owner[r], r, payload[r], {})

BeginView(h, e, y) ==
  Begin(h, "view", e, 0, CHOOSE p \in Payloads : TRUE,
        {a \in Accounts : a[1] = e /\ a[3] = y})

\* Mutant: the balance is read but not checked.
ReadBalancesUnchecked(h) ==
  LET t == txn[h]
  IN  /\ t # Idle /\ ~ t.ready
      /\ t.op = "submit" => submitted + 1 \in Requests
      /\ txn' = [txn EXCEPT ![h] =
                   [t EXCEPT !.rows = [a \in t.need |-> RowFor(a)],
                             !.made = {a \in t.need : balance[a] = NoRow},
                             !.req = IF t.op = "submit" THEN submitted + 1 ELSE @,
                             !.ready = TRUE]]
      /\ UNCHANGED vars

(***************************************************************************)
(* get_or_create_balance for every account needed, and check_available. A  *)
(* submission computes its code after the check.                           *)
(***************************************************************************)
ReadBalances(h) ==
  LET t == txn[h]
  IN  /\ t # Idle /\ ~ t.ready
      /\ t.op \in {"submit", "approve"} => \A a \in t.need : Covers(a, Days(t.pay))
      /\ t.op = "submit" => submitted + 1 \in Requests
      /\ txn' = [txn EXCEPT ![h] =
                   [t EXCEPT !.rows = [a \in t.need |-> RowFor(a)],
                             !.made = {a \in t.need : balance[a] = NoRow},
                             !.req = IF t.op = "submit" THEN submitted + 1 ELSE @,
                             !.ready = TRUE]]
      /\ UNCHANGED vars

\* Mutant: restore without its clamp at zero.
NewUsedUnclamped(t, a) ==
  t.rows[a].used + (IF t.op = "approve" THEN Days(t.pay)
                    ELSE IF t.op = "cancel" THEN - Days(t.pay) ELSE 0)

\* deduct and restore, on the value this session read.
NewUsed(t, a) ==
  LET read == t.rows[a].used
  IN  IF t.op = "approve" THEN read + Days(t.pay)
      ELSE IF t.op = "cancel" THEN Greater(0, read - Days(t.pay))
      ELSE read

\* Mutant: request_code is not unique.
BalanceViolation(t) == \E a \in t.made : balance[a] # NoRow

\* uq_leave_balance_period and the unique request_code.
UniqueViolation(t) ==
  \/ \E a \in t.made : balance[a] # NoRow
  \/ t.op = "submit" /\ Exists(t.req)

WriteBalances(t) ==
  balance' = [a \in Accounts |->
    IF a \in t.made THEN [t.rows[a] EXCEPT !.used = NewUsed(t, a)]
    ELSE IF a \in t.need /\ NewUsed(t, a) # t.rows[a].used
         THEN [balance[a] EXCEPT !.used = NewUsed(t, a)]
    ELSE balance[a]]

Ready(h, ops) == txn[h] # Idle /\ txn[h].op \in ops /\ txn[h].ready

CommitSubmit(h) ==
  LET t == txn[h]
  IN  /\ Ready(h, {"submit"})
      /\ ~ UniqueViolation(t)
      /\ WriteBalances(t)
      /\ submitted' = t.req
      /\ owner' = [owner EXCEPT ![t.req] = t.by]
      /\ payload' = [payload EXCEPT ![t.req] = t.pay]
      /\ txn' = [txn EXCEPT ![h] = Idle]
      /\ UNCHANGED <<today, status, decidedBy>>

\* Mutant: a withdrawal keeps the name of whoever approved.
CommitKeepingDecider(h) ==
  LET t == txn[h]
  IN  /\ Ready(h, {"approve", "reject", "cancel"})
      /\ ~ UniqueViolation(t)
      /\ WriteBalances(t)
      /\ status' = [status EXCEPT ![t.req] = Decision[t.op]]
      /\ decidedBy' = [decidedBy EXCEPT ![t.req] = IF @ = Nobody THEN t.by ELSE @]
      /\ txn' = [txn EXCEPT ![h] = Idle]
      /\ UNCHANGED <<today, submitted, owner, payload>>

CommitDecision(h) ==
  LET t == txn[h]
  IN  /\ Ready(h, {"approve", "reject", "cancel"})
      /\ ~ UniqueViolation(t)
      /\ WriteBalances(t)
      /\ status' = [status EXCEPT ![t.req] = Decision[t.op]]
      /\ decidedBy' = [decidedBy EXCEPT ![t.req] = t.by]
      /\ txn' = [txn EXCEPT ![h] = Idle]
      /\ UNCHANGED <<today, submitted, owner, payload>>

CommitView(h) ==
  LET t == txn[h]
  IN  /\ Ready(h, {"view"})
      /\ ~ UniqueViolation(t)
      /\ WriteBalances(t)
      /\ txn' = [txn EXCEPT ![h] = Idle]
      /\ UNCHANGED <<today, submitted, owner, payload, status, decidedBy>>

\* A failed check, a constraint the database refuses, or a crash of the
\* process: the session is closed and nothing of it remains.
Rollback(h) ==
  /\ txn[h] # Idle
  /\ txn' = [txn EXCEPT ![h] = Idle]
  /\ UNCHANGED vars

\* Bound: no handler straddles midnight.
TxnDayPasses ==
  /\ \A h \in Handlers : txn[h] = Idle
  /\ DayPasses
  /\ UNCHANGED txn

TxnInit ==
  /\ Init
  /\ txn = [h \in Handlers |-> Idle]

TxnNext ==
  \/ \E h \in Handlers, e \in Staff, p \in Payloads : BeginSubmit(h, e, p)
  \/ \E h \in Handlers, u \in Approvers, r \in Requests : BeginApprove(h, u, r)
  \/ \E h \in Handlers, u \in Approvers, r \in Requests : BeginReject(h, u, r)
  \/ \E h \in Handlers, r \in Requests : BeginCancel(h, r)
  \/ \E h \in Handlers, e \in Staff, y \in Years : BeginView(h, e, y)
  \/ \E h \in Handlers : ReadBalances(h)
  \/ \E h \in Handlers : CommitSubmit(h)
  \/ \E h \in Handlers : CommitDecision(h)
  \/ \E h \in Handlers : CommitView(h)
  \/ \E h \in Handlers : Rollback(h)
  \/ TxnDayPasses

TxnSpec == TxnInit /\ [][TxnNext]_txnVars

-----------------------------------------------------------------------------
\* Type invariant of the transactions.
TxnTypeOK ==
  /\ TypeOK
  /\ \A h \in Handlers :
       txn[h] # Idle =>
         /\ txn[h].op \in Ops
         /\ txn[h].by \in Staff \cup Approvers
         /\ txn[h].req \in 0..MaxRequests
         /\ txn[h].need \subseteq Accounts
         /\ txn[h].made \subseteq txn[h].need
         /\ txn[h].ready => txn[h].need \subseteq DOMAIN txn[h].rows

\* However handlers interleave, the stored counter stays within what the row
\* grants: the value a session writes passed the check on the row it read.
StoredCounterWithinGrant ==
  \A a \in Accounts :
    balance[a] # NoRow =>
      balance[a].used \in 0..(balance[a].entitled + balance[a].carried)

\* Two handlers that make up the same row or take the same request code do
\* not overwrite each other: a request keeps its employee and payload, and a
\* balance row the days granted when it was created.
RowsAreNotRecreated ==
  [][/\ \A r \in 1..submitted : owner'[r] = owner[r] /\ payload'[r] = payload[r]
     /\ \A a \in Accounts :
          balance[a] # NoRow =>
            /\ balance'[a] # NoRow
            /\ balance'[a].entitled = balance[a].entitled
            /\ balance'[a].carried = balance[a].carried]_txnVars
=============================================================================
