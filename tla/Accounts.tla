------------------------------ MODULE Accounts ------------------------------
(***************************************************************************)
(* The three models of accounts, one after the other: a behaviour is one   *)
(* of Invitations, of Sessions or of Administrators, and the others stay   *)
(* in their initial states.                                                *)
(***************************************************************************)
EXTENDS Invitations, Sessions, Administrators

VARIABLE part

AccInit == InvInit /\ SesInit /\ AdmInit /\ part \in {"invitations", "sessions", "staff"}

AccNext ==
  \/ part = "invitations" /\ InvNext /\ UNCHANGED <<sesVars, admVars, part>>
  \/ part = "sessions" /\ SesNext /\ UNCHANGED <<invVars, admVars, part>>
  \/ part = "staff" /\ AdmNext /\ UNCHANGED <<invVars, sesVars, part>>

AccSpec == AccInit /\ [][AccNext]_<<invVars, sesVars, admVars, part>>

-----------------------------------------------------------------------------
\* Rows, their unique columns, and how a link leaves each state it has.
AccountsTypeOK == InvTypeOK /\ SesTypeOK /\ AdmTypeOK /\ RecordsDistinct

\* An invitation makes one account, its links close once, and a resend leaves
\* no more than the clerks at work may leave.
LinksAreSingleUse == RegisteredOnce /\ LinksCloseOnce /\ FewLinksOutstanding

\* Whatever ends a session ends it: a new password, a revocation, a locked-out
\* or deactivated account, a reset that has been used.
SessionsEnd == PasswordEndsSessions /\ RevocationBites /\ InactiveGetsNothing /\ ResetOnce

\* What no step does: open a session of an account that is locked, or leave the
\* system without an administrator who can sign in.
NoStepPastTheGuards == LockHolds /\ LastAdministratorStays
=============================================================================
