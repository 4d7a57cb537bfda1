------------------------------ MODULE DaySums ------------------------------
(***************************************************************************)
(* The sum of the numbers d[1] .. d[n], as a recursive function.           *)
(***************************************************************************)
EXTENDS Integers

PartialSums(d, n) ==
  LET sum[i \in 0..n] == IF i = 0 THEN 0 ELSE sum[i - 1] + d[i]
  IN  sum

Total(d, n) == PartialSums(d, n)[n]
=============================================================================
