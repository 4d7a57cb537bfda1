------------------------- MODULE LeaveLedgerProofs -------------------------
(***************************************************************************)
(* Proofs about LeaveLedger, for every set of employees, approvers,        *)
(* payloads, years and days.                                               *)
(*                                                                         *)
(* UsedMatchesApproved is not inductive by itself: that the days of an     *)
(* approval land on an existing account, and that a withdrawal gives back  *)
(* no more than was taken (so that the clamp of restore is never reached), *)
(* needs the facts of LedgerInv about every request that exists.           *)
(***************************************************************************)
EXTENDS LeaveLedger, DaySumsProofs, TLAPS

\* What every stored request satisfies, and every request not yet stored.
RequestsInv ==
  \A r \in Requests :
    IF Exists(r)
    THEN /\ owner[r] \in Staff
         /\ payload[r].start <= payload[r].end
         /\ payload[r].kind \in Paid => AccountOf(r) \in Accounts
    ELSE status[r] = "pending" /\ decidedBy[r] = Nobody

\* No account is drawn beyond what its row grants.
RowsInv ==
  \A a \in Accounts :
    balance[a] # NoRow => balance[a].used <= balance[a].entitled + balance[a].carried

LedgerInv ==
  TypeOK /\ RequestsInv /\ RowsInv /\ UsedMatchesApproved /\ DecisionAttribution

-----------------------------------------------------------------------------
(***************************************************************************)
(* The arithmetic of LeavePolicy.                                          *)
(***************************************************************************)

\* A year's allowance is a whole number of half days, at most the full one.
THEOREM EntitlementBounds ==
  ASSUME NEW kind \in Paid, NEW year \in Int,
         NEW joined \in [year : Int, month : 1..12]
  PROVE  EntitlementFor(kind, year, joined) \in 0..ENTITLEMENT[kind]
BY DEF EntitlementFor, Paid, Kinds, ENTITLEMENT, Quantise, Lesser,
       ANNUAL_DAYS_PER_YEAR, SICK_DAYS_PER_YEAR

\* Carrying forward never brings in more than the cap, nor more than is left
\* of the previous year, nor a negative number of days.
THEOREM CarryForwardBounds ==
  ASSUME NEW kind \in Kinds, NEW available \in Int
  PROVE  /\ CarryForward(kind, available) \in 0..MAX_CARRY_FORWARD
         /\ available >= 0 => CarryForward(kind, available) <= available
         /\ kind # "annual" => CarryForward(kind, available) = 0
BY DEF CarryForward, Greater, Lesser, MAX_CARRY_FORWARD

\* A payload that does not end before it starts is worth a positive number
\* of half days.
LEMMA DaysType ==
  ASSUME NEW p \in PayloadOver(Int), p.start <= p.end
  PROVE  Days(p) \in Nat \ {0}
BY DEF Days, PayloadOver

\* The row of an account, found or made up, is a row; a made up one is unused
\* and grants no negative amount.
LEMMA RowForType ==
  ASSUME TypeOK, RowsInv, NEW a \in Accounts
  PROVE  /\ RowFor(a) \in Rows
         /\ RowFor(a).used <= RowFor(a).entitled + RowFor(a).carried
         /\ RowFor(a).used = Used(a)
         /\ RowFor(a) # NoRow
<1>1. a[1] \in Staff /\ a[2] \in Paid /\ a[3] \in Years /\ a[3] \in Nat
  BY BoundsAssumption DEF Accounts
<1>2. EntitlementFor(a[2], a[3], Joined[a[1]]) \in Nat
  <2>1. Joined[a[1]] \in [year : Int, month : 1..12]
    BY <1>1, BoundsAssumption
  <2>2. ENTITLEMENT[a[2]] \in Nat
    BY <1>1 DEF ENTITLEMENT, Paid, ANNUAL_DAYS_PER_YEAR, SICK_DAYS_PER_YEAR
  <2> QED BY <1>1, <2>1, <2>2, EntitlementBounds
<1>3. CarriedInto(a[1], a[2], a[3]) \in Nat
  <2> DEFINE previous == <<a[1], a[2], a[3] - 1>>
  <2>1. CASE previous \notin Accounts \/ balance[previous] = NoRow
    BY <2>1 DEF CarriedInto
  <2>2. CASE ~ (previous \notin Accounts \/ balance[previous] = NoRow)
    <3>1. balance[previous] \in Rows
      BY <2>2 DEF TypeOK
    <3>2. Available(balance[previous]) \in Int
      BY <3>1 DEF Available, Rows
    <3>3. CarryForward(a[2], Available(balance[previous])) \in Nat
      BY <1>1, <3>2, CarryForwardBounds DEF Kinds, MAX_CARRY_FORWARD
    <3> QED BY <2>2, <3>3 DEF CarriedInto
  <2> QED BY <2>1, <2>2
<1>4. FreshRow(a) \in Rows /\ FreshRow(a).used = 0
  BY <1>2, <1>3 DEF FreshRow, Rows
<1>5. CASE balance[a] = NoRow
  <2>1. RowFor(a) = FreshRow(a) /\ Used(a) = 0
    BY <1>5 DEF RowFor, Used
  <2>2. RowFor(a) # NoRow
    BY <1>4, <2>1, NoRowAssumption DEF Rows
  <2>3. 0 <= FreshRow(a).entitled + FreshRow(a).carried
    BY <1>4 DEF Rows
  <2> QED BY <1>4, <2>1, <2>2, <2>3
<1>6. CASE balance[a] # NoRow
  BY <1>6 DEF TypeOK, RowsInv, RowFor, Used
<1> QED BY <1>5, <1>6

-----------------------------------------------------------------------------
(***************************************************************************)
(* The approved days of an account.                                        *)
(***************************************************************************)

\* The days a request charges to an account are a natural number.
LEMMA ChargeType ==
  ASSUME TypeOK, RequestsInv, NEW r \in Requests, NEW a \in Accounts
  PROVE  Charge(r, a) \in Nat
<1>1. CASE Exists(r)
  <2>1. payload[r] \in PayloadOver(Int) /\ payload[r].start <= payload[r].end
    BY <1>1, BoundsAssumption DEF TypeOK, RequestsInv
  <2>2. Days(payload[r]) \in Nat
    BY <2>1, DaysType
  <2> QED BY <2>2 DEF Charge
<1>2. CASE ~ Exists(r)
  BY <1>2 DEF Charge
<1> QED BY <1>1, <1>2

\* Approved days are a natural number, and at least those of each request.
LEMMA ApprovedDaysType ==
  ASSUME TypeOK, RequestsInv, NEW a \in Accounts
  PROVE  /\ ApprovedDays(a) \in Nat
         /\ \A r \in Requests : Charge(r, a) <= ApprovedDays(a)
<1> DEFINE d == [r \in Requests |-> Charge(r, a)]
<1>1. d \in [1..MaxRequests -> Nat] /\ MaxRequests \in Nat
  BY ChargeType, BoundsAssumption DEF Requests
<1>2. \A r \in Requests : d[r] = Charge(r, a)
  OBVIOUS
<1> HIDE DEF d
<1>3. Total(d, MaxRequests) \in Nat /\ \A r \in 1..MaxRequests : d[r] <= Total(d, MaxRequests)
  BY <1>1, TotalAtLeast
<1> QED BY <1>2, <1>3 DEF ApprovedDays, Requests, d

\* A step that leaves every charge alone leaves the approved days alone.
LEMMA ApprovedDaysFrame ==
  ASSUME NEW a \in Accounts, \A r \in Requests : Charge(r, a)' = Charge(r, a)
  PROVE  ApprovedDays(a)' = ApprovedDays(a)
BY DEF ApprovedDays

\* A step that changes the charge of one request moves the approved days by
\* the difference.
LEMMA ApprovedDaysChange ==
  ASSUME TypeOK, RequestsInv, TypeOK', RequestsInv',
         NEW a \in Accounts, NEW r \in Requests,
         \A s \in Requests : s # r => Charge(s, a)' = Charge(s, a)
  PROVE  ApprovedDays(a)' = ApprovedDays(a) + Charge(r, a)' - Charge(r, a)
<1> DEFINE d == [s \in Requests |-> Charge(s, a)]
<1> DEFINE e == [s \in Requests |-> Charge(s, a)']
<1>1. \A s \in Requests : Charge(s, a) \in Nat
  BY ChargeType
<1>2. \A s \in Requests : Charge(s, a)' \in Nat
  <2> SUFFICES ASSUME NEW s \in Requests PROVE Charge(s, a)' \in Nat
    OBVIOUS
  <2>1. CASE Exists(s)'
    <3>1. payload'[s] \in PayloadOver(Int) /\ payload'[s].start <= payload'[s].end
      BY <2>1, BoundsAssumption DEF TypeOK, RequestsInv
    <3>2. Days(payload'[s]) \in Nat
      BY <3>1, DaysType
    <3> QED BY <3>2 DEF Charge
  <2>2. CASE ~ Exists(s)'
    BY <2>2 DEF Charge
  <2> QED BY <2>1, <2>2
<1>3. d \in [1..MaxRequests -> Int] /\ e \in [1..MaxRequests -> Int]
  BY <1>1, <1>2 DEF Requests
<1>4. \A s \in 1..MaxRequests : s # r => e[s] = d[s]
  BY DEF Requests
<1>5. d[r] = Charge(r, a) /\ e[r] = Charge(r, a)'
  OBVIOUS
<1>6. ApprovedDays(a) = Total(d, MaxRequests) /\ ApprovedDays(a)' = Total(e, MaxRequests)
  BY DEF ApprovedDays
<1>7. MaxRequests \in Nat /\ r \in 1..MaxRequests
  BY BoundsAssumption DEF Requests
<1> HIDE DEF d, e
<1>8. Total(e, MaxRequests) = Total(d, MaxRequests) + e[r] - d[r]
  BY <1>3, <1>4, <1>7, TotalChange
<1> QED BY <1>5, <1>6, <1>8

-----------------------------------------------------------------------------
(***************************************************************************)
(* The inductive invariant.                                                *)
(***************************************************************************)

LEMMA LedgerInit == Init => LedgerInv
<1> SUFFICES ASSUME Init PROVE LedgerInv
  OBVIOUS
<1>1. TypeOK
  <2>1. (CHOOSE p \in Payloads : TRUE) \in Payloads
    BY BoundsAssumption
  <2>2. submitted \in 0..MaxRequests
    BY BoundsAssumption DEF Init
  <2> QED BY <2>1, <2>2 DEF Init, TypeOK, Statuses
<1>2. \A r \in Requests : ~ Exists(r)
  BY DEF Init, Exists
<1>3. RequestsInv
  BY <1>2 DEF Init, RequestsInv
<1>4. RowsInv
  BY DEF Init, RowsInv
<1>5. UsedMatchesApproved
  <2> SUFFICES ASSUME NEW a \in Accounts PROVE Used(a) = ApprovedDays(a)
    BY DEF UsedMatchesApproved
  <2> DEFINE d == [r \in Requests |-> Charge(r, a)]
  <2>1. \A r \in 1..MaxRequests : d[r] = 0
    BY <1>2 DEF Charge, Requests
  <2>2. d \in [1..MaxRequests -> Int] /\ MaxRequests \in Nat
    BY <1>2, BoundsAssumption DEF Charge, Requests
  <2> HIDE DEF d
  <2>3. Total(d, MaxRequests) = 0
    BY <2>1, <2>2, TotalOfZeros
  <2>4. ApprovedDays(a) = 0
    BY <2>3 DEF ApprovedDays, d
  <2> QED BY <2>4 DEF Init, Used
<1>6. DecisionAttribution
  BY DEF Init, DecisionAttribution
<1> QED BY <1>1, <1>3, <1>4, <1>5, <1>6 DEF LedgerInv

-----------------------------------------------------------------------------
(***************************************************************************)
(* A decision: the status of one request that exists changes.              *)
(***************************************************************************)

Decided(r, s, by) ==
  /\ Exists(r)
  /\ status' = [status EXCEPT ![r] = s]
  /\ decidedBy' = [decidedBy EXCEPT ![r] = by]
  /\ UNCHANGED <<today, submitted, owner, payload>>

\* A decision keeps what is known of the stored requests, and attributes it
\* to the approver or, for a withdrawal, to the requester.
LEMMA DecisionRequests ==
  ASSUME LedgerInv, NEW r \in Requests, NEW s \in Statuses \ {"pending"}, NEW by,
         Decided(r, s, by),
         IF s = "cancelled" THEN by = owner[r] ELSE by \in Approvers \ {owner[r]}
  PROVE  /\ RequestsInv' /\ DecisionAttribution'
         /\ status' \in [Requests -> Statuses]
         /\ decidedBy' \in [Requests -> Staff \cup Approvers \cup {Nobody}]
<1> USE DEF LedgerInv, Decided
<1>1. /\ r \in 1..submitted /\ submitted \in 0..MaxRequests /\ MaxRequests \in Nat
      /\ owner[r] \in Staff
      /\ status \in [Requests -> Statuses]
      /\ decidedBy \in [Requests -> Staff \cup Approvers \cup {Nobody}]
  BY BoundsAssumption DEF Exists, TypeOK, RequestsInv
<1>2. by \in Staff \cup Approvers
  BY <1>1
<1>3. /\ status' \in [Requests -> Statuses]
      /\ decidedBy' \in [Requests -> Staff \cup Approvers \cup {Nobody}]
  BY <1>1, <1>2
<1>4. RequestsInv'
  <2> SUFFICES ASSUME NEW q \in Requests
               PROVE  IF Exists(q)
                      THEN /\ owner[q] \in Staff
                           /\ payload[q].start <= payload[q].end
                           /\ payload[q].kind \in Paid => AccountOf(q) \in Accounts
                      ELSE status'[q] = "pending" /\ decidedBy'[q] = Nobody
    BY DEF RequestsInv, Exists, AccountOf
  <2>1. CASE Exists(q)
    BY <2>1 DEF RequestsInv
  <2>2. CASE ~ Exists(q)
    <3>1. q # r
      BY <2>2
    <3> QED BY <1>1, <2>2, <3>1 DEF RequestsInv
  <2> QED BY <2>1, <2>2
<1>5. DecisionAttribution'
  <2> SUFFICES ASSUME NEW q \in 1..submitted
               PROVE  /\ status'[q] = "pending" => decidedBy'[q] = Nobody
                      /\ status'[q] \in {"approved", "rejected"} =>
                           decidedBy'[q] \in Approvers \ {owner[q]}
                      /\ status'[q] = "cancelled" => decidedBy'[q] = owner[q]
    BY DEF DecisionAttribution
  <2>1. q \in Requests /\ Requests = 1..MaxRequests
    BY <1>1 DEF Requests
  <2>2. CASE q = r
    BY <1>1, <2>1, <2>2 DEF Statuses
  <2>3. CASE q # r
    <3>1. status'[q] = status[q] /\ decidedBy'[q] = decidedBy[q]
      BY <1>1, <2>1, <2>3
    <3> QED BY <3>1 DEF DecisionAttribution
  <2> QED BY <2>2, <2>3
<1> QED BY <1>3, <1>4, <1>5

\* A decision changes no charge but that of the request it decides.
LEMMA DecisionCharges ==
  ASSUME LedgerInv, NEW r \in Requests, NEW s \in Statuses, NEW by, Decided(r, s, by),
         NEW a \in Accounts
  PROVE  /\ \A q \in Requests : q # r => Charge(q, a)' = Charge(q, a)
         /\ Charge(r, a)' = IF s = "approved" /\ AccountOf(r) = a THEN Days(payload[r]) ELSE 0
<1>1. status \in [Requests -> Statuses]
  BY DEF LedgerInv, TypeOK
<1>2. \A q \in Requests : q # r => status'[q] = status[q]
  BY <1>1 DEF Decided
<1>3. status'[r] = s
  BY <1>1 DEF Decided
<1> QED BY <1>2, <1>3 DEF Decided, Charge, Exists, AccountOf

-----------------------------------------------------------------------------
(***************************************************************************)
(* Each action preserves LedgerInv.                                        *)
(***************************************************************************)

\* Approving draws the days of the request and of no other.
LEMMA ApproveInv ==
  ASSUME LedgerInv, NEW u \in Approvers, NEW r \in Requests, Approve(u, r)
  PROVE  LedgerInv'
<1> DEFINE b == AccountOf(r)
<1> DEFINE n == Days(payload[r])
<1>1. Decided(r, "approved", u) /\ owner[r] # u
  BY DEF Approve, Decided, CanDecide
<1>2. /\ RequestsInv' /\ DecisionAttribution'
      /\ status' \in [Requests -> Statuses]
      /\ decidedBy' \in [Requests -> Staff \cup Approvers \cup {Nobody}]
  BY <1>1, DecisionRequests DEF Statuses
<1>3. /\ n \in Nat
      /\ payload[r].kind \in Paid => b \in Accounts
  <2>1. payload[r] \in PayloadOver(Int) /\ payload[r].start <= payload[r].end
    BY <1>1, BoundsAssumption DEF LedgerInv, TypeOK, RequestsInv, Decided
  <2> QED BY <1>1, <2>1, DaysType DEF LedgerInv, RequestsInv, Decided
<1>4. Charge(r, b) = 0 /\ \A a \in Accounts : Charge(r, a) = 0
  BY DEF Approve, Charge
<1>5. CASE payload[r].kind \in Paid
  <2> DEFINE row == [RowFor(b) EXCEPT !.used = @ + n]
  <2>1. b \in Accounts /\ n <= Available(RowFor(b)) /\ balance' = [balance EXCEPT ![b] = row]
    BY <1>3, <1>5 DEF Approve, Covers, Deduct
  <2>2. /\ RowFor(b) \in Rows /\ RowFor(b).used = Used(b)
    BY <2>1, RowForType DEF LedgerInv
  <2>3. /\ row \in Rows /\ row.used = Used(b) + n
        /\ row.used <= row.entitled + row.carried
    BY <1>3, <2>1, <2>2 DEF Rows, Available
  <2>4. row # NoRow
    BY <2>3, NoRowAssumption DEF Rows
  <2> HIDE DEF row, n, b
  <2>5. balance \in [Accounts -> Rows \cup {NoRow}]
    BY DEF LedgerInv, TypeOK
  <2>6. TypeOK'
    BY <1>1, <1>2, <2>1, <2>3, <2>5 DEF LedgerInv, TypeOK, Decided
  <2>7. \A a \in Accounts : balance'[a] = IF a = b THEN row ELSE balance[a]
    BY <2>1, <2>5
  <2>8. RowsInv'
    BY <2>3, <2>7 DEF LedgerInv, RowsInv
  <2>9. UsedMatchesApproved'
    <3> SUFFICES ASSUME NEW a \in Accounts PROVE Used(a)' = ApprovedDays(a)'
      BY DEF UsedMatchesApproved
    <3>1. ApprovedDays(a)' = ApprovedDays(a) + Charge(r, a)' - Charge(r, a)
      BY <1>1, <1>2, <2>6, DecisionCharges, ApprovedDaysChange DEF LedgerInv, Statuses
    <3>2. Charge(r, a)' = IF b = a THEN n ELSE 0
      BY <1>1, DecisionCharges DEF Statuses, b, n
    <3>3. ApprovedDays(a) \in Nat /\ Used(a) = ApprovedDays(a)
      BY ApprovedDaysType DEF LedgerInv, UsedMatchesApproved
    <3>4. Used(a)' = IF a = b THEN Used(a) + n ELSE Used(a)
      BY <2>3, <2>4, <2>7 DEF Used
    <3>5. n \in Nat /\ Charge(r, a) = 0
      BY <1>3, <1>4 DEF n
    <3> QED BY <3>1, <3>2, <3>3, <3>4, <3>5
  <2> QED BY <1>2, <2>6, <2>8, <2>9 DEF LedgerInv
<1>6. CASE payload[r].kind \notin Paid
  <2>1. UNCHANGED balance
    BY <1>6 DEF Approve
  <2>2. TypeOK' /\ RowsInv'
    BY <1>1, <1>2, <2>1 DEF LedgerInv, TypeOK, RowsInv, Decided
  <2>3. ASSUME NEW a \in Accounts PROVE Used(a)' = ApprovedDays(a)'
    <3>1. AccountOf(r) # a
      BY <1>6 DEF AccountOf, Accounts
    <3>2. \A q \in Requests : Charge(q, a)' = Charge(q, a)
      BY <1>1, <1>4, <3>1, DecisionCharges DEF Statuses
    <3>3. ApprovedDays(a)' = ApprovedDays(a)
      BY <3>2, ApprovedDaysFrame
    <3> QED BY <2>1, <3>3 DEF LedgerInv, UsedMatchesApproved, Used
  <2> QED BY <1>2, <2>2, <2>3 DEF LedgerInv, UsedMatchesApproved
<1> QED BY <1>5, <1>6

\* A decision that moves no day: rejecting, or withdrawing what is pending.
LEMMA UnchargedDecisionInv ==
  ASSUME LedgerInv, NEW r \in Requests, NEW s \in {"rejected", "cancelled"}, NEW by,
         Decided(r, s, by), UNCHANGED balance,
         status[r] # "approved" \/ payload[r].kind \notin Paid,
         IF s = "cancelled" THEN by = owner[r] ELSE by \in Approvers \ {owner[r]}
  PROVE  LedgerInv'
<1>1. /\ RequestsInv' /\ DecisionAttribution'
      /\ status' \in [Requests -> Statuses]
      /\ decidedBy' \in [Requests -> Staff \cup Approvers \cup {Nobody}]
  BY DecisionRequests DEF Statuses
<1>2. TypeOK' /\ RowsInv'
  BY <1>1 DEF LedgerInv, TypeOK, RowsInv, Decided
<1>3. ASSUME NEW a \in Accounts PROVE Used(a)' = ApprovedDays(a)'
  <2>1. Charge(r, a) = 0
    BY DEF Charge, AccountOf, Accounts
  <2>2. \A q \in Requests : Charge(q, a)' = Charge(q, a)
    BY <2>1, DecisionCharges DEF Statuses
  <2>3. ApprovedDays(a)' = ApprovedDays(a)
    BY <2>2, ApprovedDaysFrame
  <2> QED BY <2>3 DEF LedgerInv, UsedMatchesApproved, Used
<1> QED BY <1>1, <1>2, <1>3 DEF LedgerInv, UsedMatchesApproved

\* Withdrawing approved paid leave: the account holds at least its days, so
\* the clamp of restore has no effect.
LEMMA CancelInv ==
  ASSUME LedgerInv, NEW r \in Requests, Cancel(r)
  PROVE  LedgerInv'
<1> DEFINE b == AccountOf(r)
<1> DEFINE n == Days(payload[r])
<1>1. Decided(r, "cancelled", owner[r]) /\ status[r] \in {"approved", "pending"}
  BY DEF Cancel, Decided
<1>2. CASE status[r] = "pending" \/ payload[r].kind \notin Paid
  <2>1. UNCHANGED balance
    BY <1>2 DEF Cancel
  <2> QED BY <1>1, <1>2, <2>1, UnchargedDecisionInv
<1>3. CASE status[r] = "approved" /\ payload[r].kind \in Paid
  <2> DEFINE row == [RowFor(b) EXCEPT !.used = Greater(0, @ - n)]
  <2>1. /\ RequestsInv' /\ DecisionAttribution'
        /\ status' \in [Requests -> Statuses]
        /\ decidedBy' \in [Requests -> Staff \cup Approvers \cup {Nobody}]
    BY <1>1, DecisionRequests DEF Statuses
  <2>2. balance' = [balance EXCEPT ![b] = row]
    BY <1>3 DEF Cancel, Restore
  <2>3. b \in Accounts /\ n \in Nat
    <3>1. payload[r] \in PayloadOver(Int) /\ payload[r].start <= payload[r].end
      BY <1>1, BoundsAssumption DEF LedgerInv, TypeOK, RequestsInv, Decided
    <3> QED BY <1>1, <1>3, <3>1, DaysType DEF LedgerInv, RequestsInv, Decided
  <2>4. Charge(r, b) = n /\ \A a \in Accounts : a # b => Charge(r, a) = 0
    BY <1>1, <1>3 DEF Charge, Decided
  <2>5. n <= Used(b) /\ Used(b) \in Nat
    BY <2>3, <2>4, ApprovedDaysType DEF LedgerInv, UsedMatchesApproved
  <2>6. /\ RowFor(b) \in Rows /\ RowFor(b).used = Used(b)
        /\ RowFor(b).used <= RowFor(b).entitled + RowFor(b).carried
    BY <2>3, RowForType DEF LedgerInv
  <2>7. /\ row \in Rows /\ row.used = Used(b) - n
        /\ row.used <= row.entitled + row.carried
    BY <2>3, <2>5, <2>6 DEF Rows, Greater
  <2>8. row # NoRow
    BY <2>7, NoRowAssumption DEF Rows
  <2> HIDE DEF row, n, b
  <2>9. balance \in [Accounts -> Rows \cup {NoRow}]
    BY DEF LedgerInv, TypeOK
  <2>10. TypeOK'
    BY <1>1, <2>1, <2>2, <2>3, <2>7, <2>9 DEF LedgerInv, TypeOK, Decided
  <2>11. \A a \in Accounts : balance'[a] = IF a = b THEN row ELSE balance[a]
    BY <2>2, <2>3, <2>9
  <2>12. RowsInv'
    BY <2>7, <2>11 DEF LedgerInv, RowsInv
  <2>13. ASSUME NEW a \in Accounts PROVE Used(a)' = ApprovedDays(a)'
    <3>1. ApprovedDays(a)' = ApprovedDays(a) + Charge(r, a)' - Charge(r, a)
      BY <1>1, <2>1, <2>10, DecisionCharges, ApprovedDaysChange DEF LedgerInv, Statuses
    <3>2. Charge(r, a)' = 0
      BY <1>1, DecisionCharges DEF Statuses
    <3>3. ApprovedDays(a) \in Nat /\ Used(a) = ApprovedDays(a)
      BY ApprovedDaysType DEF LedgerInv, UsedMatchesApproved
    <3>4. Used(a)' = IF a = b THEN Used(a) - n ELSE Used(a)
      BY <2>7, <2>8, <2>11 DEF Used
    <3> QED BY <2>3, <2>4, <3>1, <3>2, <3>3, <3>4
  <2> QED BY <2>1, <2>10, <2>12, <2>13 DEF LedgerInv, UsedMatchesApproved
<1> QED BY <1>1, <1>2, <1>3

\* Creating balance rows, and nothing else, keeps the ledger: new rows are
\* unused, and every other row stays as it is.
LEMMA NewRowsInv ==
  ASSUME TypeOK, RowsInv, NEW S \in SUBSET Accounts,
         balance' = [a \in Accounts |-> IF a \in S THEN RowFor(a) ELSE balance[a]]
  PROVE  /\ balance' \in [Accounts -> Rows \cup {NoRow}]
         /\ RowsInv'
         /\ \A a \in Accounts : Used(a)' = Used(a)
<1>1. \A a \in Accounts : balance'[a] = IF a \in S THEN RowFor(a) ELSE balance[a]
  OBVIOUS
<1>2. balance' \in [Accounts -> Rows \cup {NoRow}]
  BY RowForType DEF TypeOK
<1>3. RowsInv'
  BY <1>1, RowForType DEF RowsInv
<1>4. \A a \in Accounts : Used(a)' = Used(a)
  BY <1>1, RowForType DEF Used
<1> QED BY <1>2, <1>3, <1>4

LEMMA SubmitInv ==
  ASSUME LedgerInv, NEW e \in Staff, NEW p \in Payloads, Submit(e, p)
  PROVE  LedgerInv'
<1> DEFINE r == submitted + 1
<1> DEFINE c == <<e, p.kind, YearOf(p.start)>>
<1>1. /\ submitted \in 0..MaxRequests /\ MaxRequests \in Nat
      /\ r \in Requests /\ Requests = 1..MaxRequests /\ submitted' = r
      /\ owner' = [owner EXCEPT ![r] = e] /\ owner \in [Requests -> Staff \cup {Nobody}]
      /\ payload' = [payload EXCEPT ![r] = p] /\ payload \in [Requests -> Payloads]
      /\ UNCHANGED <<today, status, decidedBy>>
  BY BoundsAssumption DEF Submit, LedgerInv, TypeOK, Requests
<1>2. p.start <= p.end /\ YearOf(p.start) \in Years
  BY DEF Submit, ValidPayload
<1>3. p.kind \in Paid => c \in Accounts
  BY <1>2 DEF Accounts
<1>4. \E S \in SUBSET Accounts :
        balance' = [a \in Accounts |-> IF a \in S THEN RowFor(a) ELSE balance[a]]
  <2>1. balance = [a \in Accounts |-> balance[a]]
    BY DEF LedgerInv, TypeOK
  <2>2. CASE p.kind \in Paid
    <3>1. balance' = [balance EXCEPT ![c] = RowFor(c)]
      BY <2>2 DEF Submit
    <3>2. balance' = [a \in Accounts |-> IF a \in {c} THEN RowFor(a) ELSE balance[a]]
      BY <2>1, <3>1
    <3> QED BY <1>3, <2>2, <3>2
  <2>3. CASE p.kind \notin Paid
    <3> DEFINE S == {}
    <3>1. balance' = [a \in Accounts |-> IF a \in S THEN RowFor(a) ELSE balance[a]]
      BY <2>1, <2>3 DEF Submit
    <3>2. S \in SUBSET Accounts
      OBVIOUS
    <3> HIDE DEF S
    <3> QED BY <3>1, <3>2
  <2> QED BY <2>2, <2>3
<1>5. /\ balance' \in [Accounts -> Rows \cup {NoRow}]
      /\ RowsInv'
      /\ \A a \in Accounts : Used(a)' = Used(a)
  BY <1>4, NewRowsInv DEF LedgerInv
<1>6. TypeOK'
  BY <1>1, <1>5 DEF LedgerInv, TypeOK
<1>7. ~ Exists(r) /\ \A q \in Requests : Exists(q)' <=> (Exists(q) \/ q = r)
  BY <1>1 DEF Exists
<1>8. status[r] = "pending" /\ decidedBy[r] = Nobody
  BY <1>1, <1>7 DEF LedgerInv, RequestsInv
<1>9. \A q \in Requests : q # r => owner'[q] = owner[q] /\ payload'[q] = payload[q]
  BY <1>1
<1>10. owner'[r] = e /\ payload'[r] = p
  BY <1>1
<1>11. RequestsInv'
  <2> SUFFICES ASSUME NEW q \in Requests
               PROVE  IF Exists(q)'
                      THEN /\ owner'[q] \in Staff
                           /\ payload'[q].start <= payload'[q].end
                           /\ payload'[q].kind \in Paid => AccountOf(q)' \in Accounts
                      ELSE status'[q] = "pending" /\ decidedBy'[q] = Nobody
    BY DEF RequestsInv
  <2>1. CASE q = r
    BY <1>2, <1>3, <1>7, <1>10, <2>1 DEF AccountOf
  <2>2. CASE q # r
    BY <1>1, <1>7, <1>9, <2>2 DEF LedgerInv, RequestsInv, AccountOf
  <2> QED BY <2>1, <2>2
<1>12. DecisionAttribution'
  <2> SUFFICES ASSUME NEW q \in 1..submitted'
               PROVE  /\ status[q] = "pending" => decidedBy[q] = Nobody
                      /\ status[q] \in {"approved", "rejected"} =>
                           decidedBy[q] \in Approvers \ {owner'[q]}
                      /\ status[q] = "cancelled" => decidedBy[q] = owner'[q]
    BY <1>1 DEF DecisionAttribution
  <2>1. CASE q = r
    BY <1>8, <2>1
  <2>2. CASE q # r
    <3>1. q \in 1..submitted /\ owner'[q] = owner[q]
      BY <1>1, <1>9, <2>2
    <3> QED BY <3>1 DEF LedgerInv, DecisionAttribution
  <2> QED BY <2>1, <2>2
<1>13. ASSUME NEW a \in Accounts PROVE Used(a)' = ApprovedDays(a)'
  <2>1. ASSUME NEW q \in Requests PROVE Charge(q, a)' = Charge(q, a)
    <3>1. CASE q = r
      BY <1>1, <1>7, <1>8, <3>1 DEF Charge
    <3>2. CASE q # r
      BY <1>1, <1>7, <1>9, <3>2 DEF Charge, AccountOf
    <3> QED BY <3>1, <3>2
  <2>2. ApprovedDays(a)' = ApprovedDays(a)
    BY <2>1, ApprovedDaysFrame
  <2> QED BY <1>5, <2>2 DEF LedgerInv, UsedMatchesApproved
<1> QED BY <1>5, <1>6, <1>11, <1>12, <1>13 DEF LedgerInv, UsedMatchesApproved

\* Viewing a balance, and the passing of days, decide nothing.
LEMMA ViewInv ==
  ASSUME LedgerInv, NEW e \in Staff, NEW y \in Years, ViewBalance(e, y)
  PROVE  LedgerInv'
<1> DEFINE S == {a \in Accounts : a[1] = e /\ a[3] = y}
<1>1. balance' = [a \in Accounts |-> IF a \in S THEN RowFor(a) ELSE balance[a]]
  BY DEF ViewBalance
<1>2. S \in SUBSET Accounts
  OBVIOUS
<1> HIDE DEF S
<1>3. /\ balance' \in [Accounts -> Rows \cup {NoRow}]
      /\ RowsInv'
      /\ \A a \in Accounts : Used(a)' = Used(a)
  BY <1>1, <1>2, NewRowsInv DEF LedgerInv
<1>4. UNCHANGED <<today, submitted, owner, payload, status, decidedBy>>
  BY DEF ViewBalance
<1>5. \A a \in Accounts, r \in Requests : Charge(r, a)' = Charge(r, a)
  BY <1>4 DEF Charge, Exists, AccountOf
<1>6. UsedMatchesApproved'
  BY <1>3, <1>5, ApprovedDaysFrame DEF LedgerInv, UsedMatchesApproved
<1> QED BY <1>3, <1>4, <1>6
        DEF LedgerInv, TypeOK, RequestsInv, DecisionAttribution, Exists, AccountOf

LEMMA UnchangedInv ==
  ASSUME LedgerInv, today' \in Calendar,
         UNCHANGED <<submitted, owner, payload, status, decidedBy, balance>>
  PROVE  LedgerInv'
<1>1. \A a \in Accounts, r \in Requests : Charge(r, a)' = Charge(r, a)
  BY DEF Charge, Exists, AccountOf
<1>2. UsedMatchesApproved'
  BY <1>1, ApprovedDaysFrame DEF LedgerInv, UsedMatchesApproved, Used
<1> QED BY <1>2 DEF LedgerInv, TypeOK, RequestsInv, RowsInv, DecisionAttribution, Exists, AccountOf

\* LedgerInv is inductive.
LEMMA LedgerStep == LedgerInv /\ [Next]_vars => LedgerInv'
<1> SUFFICES ASSUME LedgerInv, [Next]_vars PROVE LedgerInv'
  OBVIOUS
<1>1. ASSUME NEW e \in Staff, NEW p \in Payloads, Submit(e, p) PROVE LedgerInv'
  BY <1>1, SubmitInv
<1>2. ASSUME NEW u \in Approvers, NEW r \in Requests, Approve(u, r) PROVE LedgerInv'
  BY <1>2, ApproveInv
<1>3. ASSUME NEW u \in Approvers, NEW r \in Requests, Reject(u, r) PROVE LedgerInv'
  <2>1. /\ Decided(r, "rejected", u) /\ UNCHANGED balance
        /\ status[r] # "approved" /\ u \in Approvers \ {owner[r]}
    BY <1>3 DEF Reject, Decided, CanDecide
  <2> QED BY <2>1, UnchargedDecisionInv
<1>4. ASSUME NEW r \in Requests, Cancel(r) PROVE LedgerInv'
  BY <1>4, CancelInv
<1>5. ASSUME NEW e \in Staff, NEW y \in Years, ViewBalance(e, y) PROVE LedgerInv'
  BY <1>5, ViewInv
<1>6. CASE DayPasses
  BY <1>6, UnchangedInv DEF DayPasses
<1>7. CASE UNCHANGED vars
  BY <1>7, UnchangedInv DEF vars, LedgerInv, TypeOK
<1> QED BY <1>1, <1>2, <1>3, <1>4, <1>5, <1>6, <1>7 DEF Next

LEMMA LedgerInvariant == Spec => []LedgerInv
BY LedgerInit, LedgerStep, PTL DEF Spec

-----------------------------------------------------------------------------
(***************************************************************************)
(* The theorems.                                                           *)
(***************************************************************************)

\* Type correctness.
THEOREM TypeCorrect == Spec => []TypeOK
<1>1. LedgerInv => TypeOK
  BY DEF LedgerInv
<1> QED BY <1>1, LedgerInvariant, PTL

\* The stored counter never drifts from the approved requests when handlers
\* run one at a time.
THEOREM CounterNeverDrifts == Spec => []UsedMatchesApproved
<1>1. LedgerInv => UsedMatchesApproved
  BY DEF LedgerInv
<1> QED BY <1>1, LedgerInvariant, PTL

\* Leave approved against a balance never exceeds what the balance grants.
THEOREM NeverOverdrawn == Spec => []ApprovedFitsBalance
<1>1. LedgerInv => ApprovedFitsBalance
  BY NoRowAssumption
     DEF LedgerInv, RowsInv, UsedMatchesApproved, ApprovedFitsBalance, Used
<1> QED BY <1>1, LedgerInvariant, PTL

\* Every decision is attributed to somebody entitled to take it.
THEOREM DecisionsAttributed == Spec => []DecisionAttribution
<1>1. LedgerInv => DecisionAttribution
  BY DEF LedgerInv
<1> QED BY <1>1, LedgerInvariant, PTL

\* A decision stands: the one way out of a decided status is withdrawing
\* approved leave that has not started.
THEOREM DecisionsAreFinal == Spec => DecisionsStand
<1> DEFINE Stands ==
      \A r \in Requests :
        (status[r] # "pending" /\ status'[r] # status[r]) =>
          /\ status[r] = "approved"
          /\ status'[r] = "cancelled"
          /\ payload[r].start > today
<1>1. LedgerInv /\ [Next]_vars => [Stands]_vars
  <2> SUFFICES ASSUME LedgerInv, Next, NEW r \in Requests,
                      status[r] # "pending", status'[r] # status[r]
               PROVE  /\ status[r] = "approved"
                      /\ status'[r] = "cancelled"
                      /\ payload[r].start > today
    OBVIOUS
  <2>1. status \in [Requests -> Statuses]
    BY DEF LedgerInv, TypeOK
  <2>2. ASSUME NEW u \in Approvers, NEW q \in Requests, Approve(u, q) \/ Reject(u, q)
        PROVE  FALSE
    BY <2>1, <2>2 DEF Approve, Reject
  <2>3. ASSUME NEW q \in Requests, Cancel(q)
        PROVE  /\ status[r] = "approved"
               /\ status'[r] = "cancelled"
               /\ payload[r].start > today
    BY <2>1, <2>3 DEF Cancel
  <2>4. UNCHANGED status => FALSE
    OBVIOUS
  <2> QED BY <2>2, <2>3, <2>4 DEF Next, Submit, ViewBalance, DayPasses
<1> QED BY <1>1, LedgerInvariant, PTL DEF Spec, DecisionsStand
-----------------------------------------------------------------------------
(***************************************************************************)
(* The days that change hands. Both ends of a step satisfy                 *)
(* UsedMatchesApproved, so the used days of an account move as the charges *)
(* do, and only a decision moves one.                                      *)
(***************************************************************************)

\* What deciding r moves on the account it is charged to.
Worth(r) ==
  IF status'[r] = "approved" THEN Days(payload[r])
  ELSE IF status[r] = "approved" THEN - Days(payload[r])
  ELSE 0

\* Deciding r moves the used days of its account by what r is worth, and of
\* no other account.
LEMMA DecisionMoves ==
  ASSUME LedgerInv, LedgerInv', NEW r \in Requests, NEW s \in Statuses, NEW by,
         Decided(r, s, by), s # status[r], NEW a \in Accounts
  PROVE  Used(a)' - Used(a) = IF AccountOf(r) = a THEN Worth(r) ELSE 0
<1>1. /\ Used(a) = ApprovedDays(a) /\ Used(a)' = ApprovedDays(a)'
      /\ ApprovedDays(a) \in Nat
  BY ApprovedDaysType DEF LedgerInv, UsedMatchesApproved
<1>2. \A q \in Requests : q # r => Charge(q, a)' = Charge(q, a)
  BY DecisionCharges
<1>3. ApprovedDays(a)' = ApprovedDays(a) + Charge(r, a)' - Charge(r, a)
  BY <1>2, ApprovedDaysChange DEF LedgerInv
<1>4. Charge(r, a)' = IF s = "approved" /\ AccountOf(r) = a THEN Days(payload[r]) ELSE 0
  BY DecisionCharges
<1>5. Charge(r, a) = IF status[r] = "approved" /\ AccountOf(r) = a THEN Days(payload[r]) ELSE 0
  BY DEF Charge, Decided
<1>6. status'[r] = s
  BY DEF Decided, LedgerInv, TypeOK
<1>7. Days(payload[r]) \in Int
  BY DaysType, BoundsAssumption DEF Decided, LedgerInv, TypeOK, RequestsInv
<1> QED BY <1>1, <1>3, <1>4, <1>5, <1>6, <1>7 DEF Worth

\* A step that decides nothing moves nothing.
LEMMA QuietMoves ==
  ASSUME LedgerInv, LedgerInv', NEW a \in Accounts, status' = status,
         \A r \in Requests : Exists(r) =>
           Exists(r)' /\ owner'[r] = owner[r] /\ payload'[r] = payload[r]
  PROVE  Used(a)' - Used(a) = 0
<1>1. ASSUME NEW r \in Requests PROVE Charge(r, a)' = Charge(r, a)
  <2>1. CASE Exists(r)
    BY <2>1 DEF Charge, AccountOf
  <2>2. CASE ~ Exists(r)
    <3>1. status[r] = "pending"
      BY <2>2 DEF LedgerInv, RequestsInv
    <3> QED BY <3>1 DEF Charge
  <2> QED BY <2>1, <2>2
<1>2. ApprovedDays(a)' = ApprovedDays(a)
  BY <1>1, ApprovedDaysFrame
<1>3. Used(a) = ApprovedDays(a) /\ Used(a)' = ApprovedDays(a)' /\ ApprovedDays(a) \in Nat
  BY ApprovedDaysType DEF LedgerInv, UsedMatchesApproved
<1> QED BY <1>2, <1>3

\* Days change hands only with a decision, by exactly what the request it
\* decides is worth: the clamp of restore (services/leave.py) never bites.
THEOREM DaysFollowDecisions == Spec => LedgerMovesWithDecisions
<1> DEFINE used(b) == IF b = NoRow THEN 0 ELSE b.used
           worth(r) == IF status'[r] = "approved" THEN Days(payload[r])
                       ELSE IF status[r] = "approved" THEN - Days(payload[r])
                       ELSE 0
           moved(a) ==
             IF \E r \in Requests : AccountOf(r) = a /\ status'[r] # status[r]
             THEN worth(CHOOSE s \in Requests : status'[s] # status[s])
             ELSE 0
           Moves == \A a \in Accounts : used(balance'[a]) - used(balance[a]) = moved(a)
<1>1. LedgerInv /\ [Next]_vars => [Moves]_vars
  <2> SUFFICES ASSUME LedgerInv, Next, NEW a \in Accounts
               PROVE  used(balance'[a]) - used(balance[a]) = moved(a)
    OBVIOUS
  <2>1. LedgerInv'
    BY LedgerStep
  <2>2. used(balance'[a]) = Used(a)' /\ used(balance[a]) = Used(a)
    BY DEF Used
  <2>3. status \in [Requests -> Statuses]
    BY DEF LedgerInv, TypeOK
  <2>4. ASSUME NEW r \in Requests, NEW s \in Statuses, NEW by, Decided(r, s, by), s # status[r]
        PROVE  Used(a)' - Used(a) = moved(a)
    <3>1. status'[r] # status[r] /\ \A q \in Requests : q # r => status'[q] = status[q]
      BY <2>3, <2>4 DEF Decided
    <3>2. (CHOOSE q \in Requests : status'[q] # status[q]) = r
      BY <3>1
    <3>3. moved(a) = IF AccountOf(r) = a THEN worth(r) ELSE 0
      BY <3>1, <3>2
    <3>4. worth(r) = Worth(r)
      BY DEF Worth
    <3>5. Used(a)' - Used(a) = IF AccountOf(r) = a THEN Worth(r) ELSE 0
      BY <2>1, <2>4, DecisionMoves
    <3> HIDE DEF moved, worth
    <3> QED BY <3>3, <3>4, <3>5
  <2>5. ASSUME status' = status,
               \A r \in Requests : Exists(r) =>
                 Exists(r)' /\ owner'[r] = owner[r] /\ payload'[r] = payload[r]
        PROVE  Used(a)' - Used(a) = moved(a)
    <3>1. moved(a) = 0
      BY <2>5
    <3>2. Used(a)' - Used(a) = 0
      BY <2>1, <2>5, QuietMoves
    <3> QED BY <3>1, <3>2
  <2>6. ASSUME NEW e \in Staff, NEW p \in Payloads, Submit(e, p)
        PROVE  Used(a)' - Used(a) = moved(a)
    <3>1. /\ submitted \in 0..MaxRequests /\ MaxRequests \in Nat
          /\ owner \in [Requests -> Staff \cup {Nobody}] /\ payload \in [Requests -> Payloads]
      BY BoundsAssumption DEF LedgerInv, TypeOK
    <3>2. /\ status' = status /\ submitted' = submitted + 1
          /\ owner' = [owner EXCEPT ![submitted + 1] = e]
          /\ payload' = [payload EXCEPT ![submitted + 1] = p]
      BY <2>6 DEF Submit
    <3>3. ASSUME NEW r \in Requests, Exists(r)
          PROVE  Exists(r)' /\ owner'[r] = owner[r] /\ payload'[r] = payload[r]
      BY <3>1, <3>2, <3>3 DEF Exists, Requests
    <3> HIDE DEF moved
    <3> QED BY <2>5, <3>2, <3>3
  <2>7. ASSUME NEW u \in Approvers, NEW r \in Requests, Approve(u, r)
        PROVE  Used(a)' - Used(a) = moved(a)
    <3>1. Decided(r, "approved", u) /\ status[r] # "approved" /\ "approved" \in Statuses
      BY <2>7 DEF Approve, Decided, Statuses
    <3> HIDE DEF moved
    <3> QED BY <2>4, <3>1
  <2>8. ASSUME NEW u \in Approvers, NEW r \in Requests, Reject(u, r)
        PROVE  Used(a)' - Used(a) = moved(a)
    <3>1. Decided(r, "rejected", u) /\ status[r] # "rejected" /\ "rejected" \in Statuses
      BY <2>8 DEF Reject, Decided, Statuses
    <3> HIDE DEF moved
    <3> QED BY <2>4, <3>1
  <2>9. ASSUME NEW r \in Requests, Cancel(r)
        PROVE  Used(a)' - Used(a) = moved(a)
    <3>1. Decided(r, "cancelled", owner[r]) /\ status[r] # "cancelled" /\ "cancelled" \in Statuses
      BY <2>9 DEF Cancel, Decided, Statuses
    <3> HIDE DEF moved
    <3> QED BY <2>4, <3>1
  <2>10. ASSUME UNCHANGED <<submitted, owner, payload, status>>
         PROVE  Used(a)' - Used(a) = moved(a)
    <3>1. \A r \in Requests : Exists(r) =>
            Exists(r)' /\ owner'[r] = owner[r] /\ payload'[r] = payload[r]
      BY <2>10 DEF Exists
    <3> HIDE DEF moved
    <3> QED BY <2>5, <2>10, <3>1
  <2> HIDE DEF moved, used
  <2>11. Used(a)' - Used(a) = moved(a)
    BY <2>6, <2>7, <2>8, <2>9, <2>10 DEF Next, ViewBalance, DayPasses
  <2> QED BY <2>2, <2>11
<1> QED BY <1>1, LedgerInvariant, PTL DEF Spec, LedgerMovesWithDecisions
=============================================================================
