----------------------------- MODULE MCAccounts -----------------------------
(***************************************************************************)
(* A small instance of Accounts: two emails, two threads.                  *)
(***************************************************************************)
EXTENDS Accounts, TLC

CONSTANTS a, b, h1, h2

Symmetry == Permutations({a, b}) \cup Permutations({h1, h2})
=============================================================================
