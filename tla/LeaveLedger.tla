---------------------------- MODULE LeaveLedger ----------------------------
(***************************************************************************)
(* The request engine and the leave ledger, one handler at a time          *)
(* (api/v1/requests.py, services/requests.py, services/leave.py).          *)
(*                                                                         *)
(* Every endpoint is one action: what its transaction commits. A handler   *)
(* that raises rolls its session back, balance rows it created included,   *)
(* so it is no step at all. LeaveTxn splits the same handlers into their   *)
(* reads and their commit.                                                 *)
(***************************************************************************)
EXTENDS LeavePolicy, DaySums

CONSTANTS
  Staff,        \* accounts linked to an employee record: they own requests
  Approvers,    \* accounts with role HR or ADMIN
  MaxRequests,  \* bound: requests ever submitted
  Years,        \* bound: the calendar years whose balances are touched
  Calendar,     \* bound: the days on which something happens
  Payloads,     \* bound: the payloads employees submit
  Joined,       \* each employee's date_of_joining
  NoRow,        \* "no leave_balances row yet"
  Nobody        \* a NULL foreign key

ASSUME BoundsAssumption ==
  /\ MaxRequests \in Nat
  /\ Years \subseteq Nat
  /\ Calendar \subseteq Int
  /\ Payloads \subseteq PayloadOver(Int) /\ Payloads # {}
  /\ Nobody \notin Staff \cup Approvers
  /\ Joined \in [Staff -> [year : Int, month : 1..12]]
ASSUME NoRowAssumption ==
  NoRow \notin [entitled : Int, carried : Int, used : Int]

Requests == 1..MaxRequests            \* REQ-<year>-0001, -0002, ...

Statuses == {"pending", "approved", "rejected", "cancelled"}

Accounts == Staff \X Paid \X Years    \* uq_leave_balance_period

Rows == [entitled : Nat, carried : Nat, used : Nat]

VARIABLES
  today,
  submitted,    \* how many requests exist: Requests 1..submitted
  owner,        \* request -> its employee
  payload,
  status,
  decidedBy,
  balance       \* account -> leave_balances row

vars == <<today, submitted, owner, payload, status, decidedBy, balance>>

Exists(r) == r \in 1..submitted

AccountOf(r) == <<owner[r], payload[r].kind, YearOf(payload[r].start)>>

Available(row) == row.entitled + row.carried - row.used

(***************************************************************************)
(* carry_forward_for and get_or_create_balance: the row of an account,     *)
(* made up on first use. The carried days are frozen into the row.         *)
(***************************************************************************)
CarriedInto(e, kind, year) ==
  LET previous == <<e, kind, year - 1>>
  IN  IF previous \notin Accounts \/ balance[previous] = NoRow
      THEN 0
      ELSE CarryForward(kind, Available(balance[previous]))

FreshRow(a) ==
  [entitled |-> EntitlementFor(a[2], a[3], Joined[a[1]]),
   carried  |-> CarriedInto(a[1], a[2], a[3]),
   used     |-> 0]

RowFor(a) == IF balance[a] = NoRow THEN FreshRow(a) ELSE balance[a]

(***************************************************************************)
(* check_available and deduct: "days" may be drawn from account a; restore *)
(* gives them back, clamped at zero.                                       *)
(***************************************************************************)
Covers(a, days) == days <= Available(RowFor(a))

Deduct(a, days) ==
  balance' = [balance EXCEPT ![a] = [RowFor(a) EXCEPT !.used = @ + days]]

\* Mutant: reversing one request refunds everything taken from the account.
RestoreAll(a, days) ==
  balance' = [balance EXCEPT ![a] = [RowFor(a) EXCEPT !.used = 0]]

Restore(a, days) ==
  balance' = [balance EXCEPT ![a] =
                [RowFor(a) EXCEPT !.used = Greater(0, @ - days)]]

-----------------------------------------------------------------------------
Init ==
  /\ today \in Calendar
  /\ submitted = 0
  /\ owner = [r \in Requests |-> Nobody]
  /\ payload = [r \in Requests |-> CHOOSE p \in Payloads : TRUE]
  /\ status = [r \in Requests |-> "pending"]
  /\ decidedBy = [r \in Requests |-> Nobody]
  /\ balance = [a \in Accounts |-> NoRow]

(***************************************************************************)
(* POST /my-requests. Paid leave needs a covering balance, whose row is    *)
(* created when it is the first of its year.                               *)
(***************************************************************************)
Submit(e, p) ==
  LET r == submitted + 1
      a == <<e, p.kind, YearOf(p.start)>>
  IN  /\ r \in Requests
      /\ YearOf(p.start) \in Years
      /\ ValidPayload(p)
      /\ IF p.kind \in Paid
         THEN /\ Covers(a, Days(p))
              /\ balance' = [balance EXCEPT ![a] = RowFor(a)]
         ELSE UNCHANGED balance
      /\ submitted' = r
      /\ owner' = [owner EXCEPT ![r] = e]
      /\ payload' = [payload EXCEPT ![r] = p]
      /\ UNCHANGED <<today, status, decidedBy>>

(***************************************************************************)
(* can_decide: HR and admins, never the requester.                         *)
(***************************************************************************)
\* Mutant: an approver's own request is not excluded.
CanDecideOwn(u, r) == u \in Approvers

CanDecide(u, r) == u \in Approvers /\ owner[r] # u

\* Mutant: the balance is not checked again at approval.
ApproveUnchecked(u, r) ==
  /\ Exists(r)
  /\ status[r] = "pending"
  /\ CanDecide(u, r)
  /\ IF payload[r].kind \in Paid
     THEN Deduct(AccountOf(r), Days(payload[r]))
     ELSE UNCHANGED balance
  /\ status' = [status EXCEPT ![r] = "approved"]
  /\ decidedBy' = [decidedBy EXCEPT ![r] = u]
  /\ UNCHANGED <<today, submitted, owner, payload>>

Approve(u, r) ==
  /\ Exists(r)
  /\ status[r] = "pending"
  /\ CanDecide(u, r)
  /\ IF payload[r].kind \in Paid
     THEN /\ Covers(AccountOf(r), Days(payload[r]))
          /\ Deduct(AccountOf(r), Days(payload[r]))
     ELSE UNCHANGED balance
  /\ status' = [status EXCEPT ![r] = "approved"]
  /\ decidedBy' = [decidedBy EXCEPT ![r] = u]
  /\ UNCHANGED <<today, submitted, owner, payload>>

Reject(u, r) ==
  /\ Exists(r)
  /\ status[r] = "pending"
  /\ CanDecide(u, r)
  /\ status' = [status EXCEPT ![r] = "rejected"]
  /\ decidedBy' = [decidedBy EXCEPT ![r] = u]
  /\ UNCHANGED <<today, submitted, owner, payload, balance>>

\* Mutants: withdrawing gives back days of a pending request too; forgets to
\* give any back; accepts leave that has started.
Withdrawn(r, refund) ==
  /\ Exists(r)
  /\ \/ status[r] = "approved" /\ payload[r].start > today
     \/ status[r] = "pending"
  /\ IF payload[r].kind \in Paid /\ refund THEN Deduct(AccountOf(r), - Days(payload[r]))
     ELSE UNCHANGED balance
  /\ status' = [status EXCEPT ![r] = "cancelled"]
  /\ decidedBy' = [decidedBy EXCEPT ![r] = owner[r]]
  /\ UNCHANGED <<today, submitted, owner, payload>>

CancelRefundingPending(r)  == Withdrawn(r, TRUE)
CancelWithoutRefund(r)     == Withdrawn(r, FALSE)

CancelStarted(r) ==
  /\ Exists(r)
  /\ status[r] \in {"pending", "approved"}
  /\ IF status[r] = "approved" /\ payload[r].kind \in Paid
     THEN Restore(AccountOf(r), Days(payload[r]))
     ELSE UNCHANGED balance
  /\ status' = [status EXCEPT ![r] = "cancelled"]
  /\ decidedBy' = [decidedBy EXCEPT ![r] = owner[r]]
  /\ UNCHANGED <<today, submitted, owner, payload>>

(***************************************************************************)
(* POST /my-requests/{id}/cancel by the owner: a pending request, or an    *)
(* approved one that has not started, which gives its days back.           *)
(***************************************************************************)
Cancel(r) ==
  /\ Exists(r)
  /\ \/ /\ status[r] = "approved"
        /\ payload[r].start > today
        /\ IF payload[r].kind \in Paid
           THEN Restore(AccountOf(r), Days(payload[r]))
           ELSE UNCHANGED balance
     \/ /\ status[r] = "pending"
        /\ UNCHANGED balance
  /\ status' = [status EXCEPT ![r] = "cancelled"]
  /\ decidedBy' = [decidedBy EXCEPT ![r] = owner[r]]
  /\ UNCHANGED <<today, submitted, owner, payload>>

(***************************************************************************)
(* GET /my-leave-balance?year=: creates the rows of both tracked kinds.    *)
(***************************************************************************)
ViewBalance(e, y) ==
  /\ balance' = [a \in Accounts |->
                   IF a[1] = e /\ a[3] = y THEN RowFor(a) ELSE balance[a]]
  /\ UNCHANGED <<today, submitted, owner, payload, status, decidedBy>>

\* External: the calendar.
DayPasses ==
  /\ \E day \in Calendar : day > today /\ today' = day
  /\ UNCHANGED <<submitted, owner, payload, status, decidedBy, balance>>

Next ==
  \/ \E e \in Staff, p \in Payloads : Submit(e, p)
  \/ \E u \in Approvers, r \in Requests : Approve(u, r)
  \/ \E u \in Approvers, r \in Requests : Reject(u, r)
  \/ \E r \in Requests : Cancel(r)
  \/ \E e \in Staff, y \in Years : ViewBalance(e, y)
  \/ DayPasses

Spec == Init /\ [][Next]_vars

-----------------------------------------------------------------------------
(***************************************************************************)
(* Properties.                                                             *)
(***************************************************************************)

\* Type invariant.
TypeOK ==
  /\ today \in Calendar
  /\ submitted \in 0..MaxRequests
  /\ owner \in [Requests -> Staff \cup {Nobody}]
  /\ payload \in [Requests -> Payloads]
  /\ status \in [Requests -> Statuses]
  /\ decidedBy \in [Requests -> Staff \cup Approvers \cup {Nobody}]
  /\ balance \in [Accounts -> Rows \cup {NoRow}]

\* recompute_used_days: the days of the approved requests charged to a.
Charge(r, a) ==
  IF Exists(r) /\ status[r] = "approved" /\ AccountOf(r) = a
  THEN Days(payload[r]) ELSE 0

ApprovedDays(a) == Total([r \in Requests |-> Charge(r, a)], MaxRequests)

Used(a) == IF balance[a] = NoRow THEN 0 ELSE balance[a].used

\* used_days is a cached figure: in every state it is what recomputing it
\* from the approved requests would give (test_leave.py, "the proof it cannot
\* drift"; services/leave.py recompute_used_days).
UsedMatchesApproved == \A a \in Accounts : Used(a) = ApprovedDays(a)

\* Approval re-checks the balance, so the leave approved for a year never
\* exceeds what that year's row grants, however many requests were submitted
\* against the same days.
ApprovedFitsBalance ==
  \A a \in Accounts :
    ApprovedDays(a) <= IF balance[a] = NoRow THEN 0
                       ELSE balance[a].entitled + balance[a].carried

\* Nobody decides their own request, a withdrawal is the owner's, and the
\* decided_by column tells which of the two it was.
DecisionAttribution ==
  \A r \in 1..submitted :
    /\ status[r] = "pending" => decidedBy[r] = Nobody
    /\ status[r] \in {"approved", "rejected"} =>
         decidedBy[r] \in Approvers \ {owner[r]}
    /\ status[r] = "cancelled" => decidedBy[r] = owner[r]

\* Approved leave that has started stands, and so does a rejection or a
\* withdrawal: the only way out of a decision is withdrawing future leave.
DecisionsStand ==
  [][\A r \in Requests :
       (status[r] # "pending" /\ status'[r] # status[r]) =>
         /\ status[r] = "approved"
         /\ status'[r] = "cancelled"
         /\ payload[r].start > today]_vars

\* Days change hands only with a decision: a step moves the used days of an
\* account by exactly what the request it decides is worth, so the clamp in
\* restore never swallows any.
LedgerMovesWithDecisions ==
  [][\A a \in Accounts :
       LET used(b) == IF b = NoRow THEN 0 ELSE b.used
       IN  used(balance'[a]) - used(balance[a]) =
             IF \E r \in Requests : AccountOf(r) = a /\ status'[r] # status[r]
             THEN LET r == CHOOSE s \in Requests : status'[s] # status[s]
                  IN  IF status'[r] = "approved" THEN Days(payload[r])
                      ELSE IF status[r] = "approved" THEN - Days(payload[r])
                      ELSE 0
             ELSE 0]_vars
=============================================================================
