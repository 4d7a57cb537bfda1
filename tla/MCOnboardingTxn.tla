-------------------------- MODULE MCOnboardingTxn --------------------------
(***************************************************************************)
(* A small instance of OnboardingTxn: two documents of two required types, *)
(* one mandatory checklist item, two threads.                              *)
(***************************************************************************)
EXTENDS OnboardingTxn, TLC

CONSTANTS j1, nodoc, nojob, h1, h2

WantsAadhaar == "card" :> "aadhaar"

\* Bounds: HR sets the stage once, or deletes tasks and documents. The stages
\* before documents_submitted are alike here, and so are the terminal ones.
SetByHand == {"documents_pending", "documents_submitted", "under_review", "tasks_assigned",
              "complete"}

Patched ==
  \/ behind /\ removed = {}
  \/ \E h \in Handlers : Open(h, "patch")

Patches(h) == txn[h] = Kept /\ txn'[h] # Kept /\ txn'[h].op = "patch"

MCNext ==
  /\ TxnNext
  /\ (removed' = removed /\ dropped' = dropped) \/ ~ Patched
  /\ \A h \in Handlers :
       Patches(h) => ~ Patched /\ ~ behind /\ dropped = {} /\ txn'[h].stage \in SetByHand

\* A document of each type, whichever came first, or two of the type that closes
\* the checklist item.
MCInit == TxnInit /\ docs[1].type = "aadhaar"

MCSpec == MCInit /\ [][MCNext]_txnVars

\* The handlers are threads of one pool.
Symmetry == Permutations({h1, h2})
=============================================================================
