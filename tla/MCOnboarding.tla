---------------------------- MODULE MCOnboarding ----------------------------
(***************************************************************************)
(* A small instance of Onboarding: two documents of two types, one         *)
(* background job at a time, one mandatory checklist template and one task *)
(* of HR's own.                                                            *)
(***************************************************************************)
EXTENDS Onboarding, TLC

CONSTANTS j1, nodoc, nojob

\* What the checklist item asks for.
WantsAadhaar == "card" :> "aadhaar"

\* Bound: HR's own task is there while one document has been uploaded at most.
MCNext == OnbNext /\ (uploads' > 1 => \A t \in Manual : task'[t] = "none")

MCSpec == OnbInit /\ [][MCNext]_onbVars
=============================================================================
