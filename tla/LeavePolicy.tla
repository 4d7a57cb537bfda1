---------------------------- MODULE LeavePolicy ----------------------------
(***************************************************************************)
(* Leave entitlement arithmetic and the leave request's payload            *)
(* (services/leave.py, services/requests.py: LeavePayload).                *)
(*                                                                         *)
(* Amounts are counted in half days, the smallest amount a leave_balances  *)
(* row can hold (models/leave.py rounds no further than Numeric(5, 1) and  *)
(* every amount written is a multiple of a half). Dates are day numbers;   *)
(* DaysPerYear days make a year (leap years are abstracted away).          *)
(***************************************************************************)
EXTENDS Integers

CONSTANT DaysPerYear

ASSUME DaysPerYearAssumption == DaysPerYear \in Nat \ {0}

Paid  == {"annual", "sick"}           \* LeaveKind.is_paid: kinds with a balance
Kinds == Paid \cup {"unpaid"}

ANNUAL_DAYS_PER_YEAR == 42            \* 21 days
SICK_DAYS_PER_YEAR   == 24            \* 12 days
MAX_CARRY_FORWARD    == 20            \* 10 days

ENTITLEMENT == [annual |-> ANNUAL_DAYS_PER_YEAR, sick |-> SICK_DAYS_PER_YEAR]

Lesser(a, b)  == IF a <= b THEN a ELSE b
Greater(a, b) == IF a >= b THEN a ELSE b

(***************************************************************************)
(* Round an amount of quarter days to half days, a tie going up.           *)
(***************************************************************************)
Quantise(quarters) == (quarters + 1) \div 2

(***************************************************************************)
(* The allowance of a year for somebody who joined in month joined.month   *)
(* of joined.year; NoDate when the joining date is unknown. 1.75 days a    *)
(* month are 7 quarter days; a twelfth of 12 days is 4 quarter days.       *)
(***************************************************************************)
NoDate == [year |-> -1, month |-> 12]

EntitlementFor(kind, year, joined) ==
  LET months == 12 - joined.month + 1
  IN  IF kind = "unpaid" THEN 0
      ELSE IF joined.year < year THEN ENTITLEMENT[kind]
      ELSE IF joined.year > year THEN 0
      ELSE IF kind = "annual"
           THEN Quantise(Lesser(2 * ENTITLEMENT[kind], 7 * months))
           ELSE Quantise(4 * months)

(***************************************************************************)
(* What last year's balance row brings into a new year.                    *)
(***************************************************************************)
CarryForward(kind, available) ==
  IF kind = "annual" THEN Greater(0, Lesser(MAX_CARRY_FORWARD, available)) ELSE 0

(***************************************************************************)
(* A leave payload: kind, first and last day, and the half-day flag.       *)
(***************************************************************************)
YearOf(day) == day \div DaysPerYear

PayloadOver(days) ==
  [kind : Kinds, start : days, end : days, half : BOOLEAN]

Days(p) == IF p.half THEN 1 ELSE 2 * (p.end - p.start + 1)

ValidPayload(p) ==
  /\ p.start <= p.end
  /\ p.half => p.start = p.end
  /\ Days(p) <= 2 * 365
=============================================================================
