----------------------------- MODULE MCLeaveTxn -----------------------------
(***************************************************************************)
(* Small instances of LeaveTxn: one employee, two years, annual leave that *)
(* competes for one balance, and two handlers. A behaviour is concurrent,  *)
(* or serial: at most one transaction is open at a time.                   *)
(***************************************************************************)
EXTENDS LeaveTxn, FiniteSets, TLC

CONSTANTS emp, hr, admin, none, norow, h1, h2

Annual(start, end) == [kind |-> "annual", start |-> start, end |-> end, half |-> FALSE]

MCDaysPerYear == 365
MCYears == 0..1
MCCalendar == {0, 150}
MCJoined == [e \in Staff |-> NoDate]

\* 15 days, 14 days and a week of the year after; each balance holds 21 days
\* and at most 10 carried.
MCPayloads == {Annual(100, 114), Annual(200, 213), Annual(400, 406)}

MCTwoPayloads == {Annual(100, 114), Annual(400, 406)}

\* The handlers are threads of one pool.
Symmetry == Permutations({h1, h2})

VARIABLE serial

OpenTxns == {h \in Handlers : txn[h] # Idle}

MCInit == TxnInit /\ serial \in BOOLEAN

MCNext ==
  /\ TxnNext
  /\ serial => Cardinality(OpenTxns') <= 1
  /\ UNCHANGED serial

MCSpec == MCInit /\ [][MCNext]_<<txnVars, serial>>

\* Served one at a time, the handlers implement the atomic ledger: every
\* commit is one of its actions and every read a stutter.
SerialImplementsLedger == Init /\ [][serial => Next]_vars
=============================================================================
