--------------------------- MODULE DaySumsProofs ---------------------------
(***************************************************************************)
(* What DaySums computes, for every n. The library's induction theorems    *)
(* take an operator as a parameter; the proofs below use instead that a    *)
(* non-empty set of natural numbers (the counterexamples) has a least one. *)
(***************************************************************************)
EXTENDS DaySums, WellFoundedInduction, TLAPS

\* A non-empty set of natural numbers has a least element.
LEMMA LeastNatural ==
  ASSUME NEW T, T \subseteq Nat, T # {}
  PROVE  \E m \in T : \A k \in T : m <= k
<1>1. PICK m \in T : \A k \in T : ~ (<<k, m>> \in OpToRel(<, Nat))
  BY NatLessThanWellFounded, WFMin
<1>2. \A k \in T : ~ (k < m)
  BY <1>1 DEF OpToRel
<1> QED BY <1>2

\* What holds of 0 and is inherited by successors up to n holds up to n: a
\* set version of induction, Holds being the set of numbers it holds of.
LEMMA InductionUpTo ==
  ASSUME NEW n \in Nat, NEW Holds,
         0 \in Holds,
         \A i \in 1..n : i - 1 \in Holds => i \in Holds
  PROVE  \A i \in 0..n : i \in Holds
<1> DEFINE Bad == {i \in 0..n : i \notin Holds}
<1> SUFFICES ASSUME Bad # {} PROVE FALSE
  OBVIOUS
<1>1. Bad \subseteq Nat
  OBVIOUS
<1> HIDE DEF Bad
<1>2. PICK m \in Bad : \A k \in Bad : m <= k
  BY <1>1, LeastNatural
<1>3. m \in 0..n /\ m \notin Holds
  BY DEF Bad
<1>4. m # 0
  BY <1>3
<1>5. m - 1 \in 0..n /\ m - 1 \notin Bad
  BY <1>1, <1>2, <1>3, <1>4
<1>6. m - 1 \in Holds
  BY <1>5 DEF Bad
<1> QED BY <1>3, <1>4, <1>6

IsPartialSums(d, n, f) ==
  f = [i \in 0..n |-> IF i = 0 THEN 0 ELSE f[i - 1] + d[i]]

\* The recursion that defines PartialSums has a solution.
LEMMA PartialSumsExist ==
  ASSUME NEW n \in Nat, NEW d \in [1..n -> Int]
  PROVE  \E f \in [0..n -> Int] : IsPartialSums(d, n, f)
<1> DEFINE Holds == {m \in 0..n : \E f \in [0..m -> Int] : IsPartialSums(d, m, f)}
<1>1. 0 \in Holds
  <2> DEFINE f == [i \in 0..0 |-> 0]
  <2>1. f \in [0..0 -> Int] /\ IsPartialSums(d, 0, f)
    BY DEF IsPartialSums
  <2> QED BY <2>1
<1>2. ASSUME NEW m \in 1..n, m - 1 \in Holds
      PROVE  m \in Holds
  <2>1. PICK g \in [0..(m - 1) -> Int] : IsPartialSums(d, m - 1, g)
    BY <1>2
  <2> DEFINE f == [i \in 0..m |-> IF i = m THEN g[m - 1] + d[m] ELSE g[i]]
  <2>2. f \in [0..m -> Int]
    OBVIOUS
  <2>3. ASSUME NEW i \in 0..m
        PROVE  f[i] = IF i = 0 THEN 0 ELSE f[i - 1] + d[i]
    <3>1. CASE i = m
      BY <3>1
    <3>2. CASE i # m
      <4>1. i \in 0..(m - 1)
        BY <3>2
      <4>2. g[i] = IF i = 0 THEN 0 ELSE g[i - 1] + d[i]
        BY <2>1, <4>1 DEF IsPartialSums
      <4> QED BY <4>1, <4>2
    <3> QED BY <3>1, <3>2
  <2>4. f = [i \in 0..m |-> IF i = 0 THEN 0 ELSE f[i - 1] + d[i]]
    <3> DEFINE rhs == [i \in 0..m |-> IF i = 0 THEN 0 ELSE f[i - 1] + d[i]]
    <3>1. \A i \in 0..m : f[i] = rhs[i]
      BY <2>3
    <3>2. f = [i \in 0..m |-> f[i]]
      BY <2>2
    <3> HIDE DEF f
    <3> QED BY <3>1, <3>2
  <2>5. IsPartialSums(d, m, f)
    BY <2>4, Zenon DEF IsPartialSums
  <2> QED BY <2>2, <2>5
<1>3. \A m \in 1..n : m - 1 \in Holds => m \in Holds
  BY <1>2
<1> HIDE DEF Holds
<1>4. n \in Holds
  <2>1. \A i \in 0..n : i \in Holds
    BY <1>1, <1>3, InductionUpTo, Zenon
  <2> QED BY <2>1
<1> QED BY <1>4 DEF Holds

\* PartialSums satisfies its recursion and its values are integers.
LEMMA PartialSumsEquation ==
  ASSUME NEW n \in Nat, NEW d \in [1..n -> Int]
  PROVE  /\ PartialSums(d, n) \in [0..n -> Int]
         /\ PartialSums(d, n)[0] = 0
         /\ \A i \in 1..n : PartialSums(d, n)[i] = PartialSums(d, n)[i - 1] + d[i]
<1> DEFINE s == PartialSums(d, n)
<1>1. s = CHOOSE f : IsPartialSums(d, n, f)
  BY Zenon DEF PartialSums, IsPartialSums
<1>2. IsPartialSums(d, n, s)
  BY <1>1, PartialSumsExist
<1> HIDE DEF s
<1>3. /\ s = [i \in 0..n |-> s[i]]
      /\ s[0] = 0
      /\ \A i \in 1..n : s[i] = s[i - 1] + d[i]
  <2>1. s = [i \in 0..n |-> IF i = 0 THEN 0 ELSE s[i - 1] + d[i]]
    BY <1>2, Zenon DEF IsPartialSums
  <2>2. \A i \in 0..n : s[i] = IF i = 0 THEN 0 ELSE s[i - 1] + d[i]
    BY <2>1
  <2>3. s = [i \in 0..n |-> s[i]]
    BY <2>1, Zenon
  <2>4. s[0] = 0
    BY <2>2
  <2>5. \A i \in 1..n : s[i] = s[i - 1] + d[i]
    BY <2>2
  <2> QED BY <2>3, <2>4, <2>5
<1> DEFINE Integral == {i \in 0..n : s[i] \in Int}
<1>4. \A i \in 0..n : i \in Integral
  <2>1. 0 \in Integral
    BY <1>3
  <2>2. ASSUME NEW i \in 1..n, i - 1 \in Integral
        PROVE  i \in Integral
    <3>1. s[i - 1] \in Int /\ d[i] \in Int /\ s[i] = s[i - 1] + d[i]
      BY <1>3, <2>2
    <3> QED BY <3>1
  <2>3. \A i \in 1..n : i - 1 \in Integral => i \in Integral
    BY <2>2
  <2> HIDE DEF Integral
  <2> QED BY <2>1, <2>3, InductionUpTo
<1>5. s \in [0..n -> Int]
  BY <1>3, <1>4
<1> QED BY <1>3, <1>5 DEF s

\* A total of integers is an integer.
LEMMA TotalType ==
  ASSUME NEW n \in Nat, NEW d \in [1..n -> Int]
  PROVE  Total(d, n) \in Int
BY PartialSumsEquation DEF Total

\* Changing one summand changes the total by the difference.
THEOREM TotalChange ==
  ASSUME NEW n \in Nat, NEW d \in [1..n -> Int], NEW e \in [1..n -> Int],
         NEW k \in 1..n, \A i \in 1..n : i # k => e[i] = d[i]
  PROVE  Total(e, n) = Total(d, n) + e[k] - d[k]
<1> DEFINE s == PartialSums(d, n)
<1> DEFINE t == PartialSums(e, n)
<1>1. /\ s \in [0..n -> Int] /\ s[0] = 0
      /\ \A i \in 1..n : s[i] = s[i - 1] + d[i]
  BY PartialSumsEquation
<1>2. /\ t \in [0..n -> Int] /\ t[0] = 0
      /\ \A i \in 1..n : t[i] = t[i - 1] + e[i]
  BY PartialSumsEquation
<1> HIDE DEF s, t
<1> DEFINE Shifted == {i \in 0..n : t[i] = s[i] + IF i >= k THEN e[k] - d[k] ELSE 0}
<1>3. 0 \in Shifted
  BY <1>1, <1>2
<1>4. ASSUME NEW i \in 1..n, i - 1 \in Shifted
      PROVE  i \in Shifted
  <2>1. /\ s[i] = s[i - 1] + d[i] /\ t[i] = t[i - 1] + e[i]
        /\ s[i - 1] \in Int /\ s[i] \in Int /\ t[i - 1] \in Int /\ t[i] \in Int
        /\ d[i] \in Int /\ e[i] \in Int /\ d[k] \in Int /\ e[k] \in Int
    <3>1. i - 1 \in 0..n /\ i \in 0..n
      OBVIOUS
    <3> HIDE DEF Shifted
    <3> QED BY <1>1, <1>2, <3>1
  <2>2. t[i - 1] = s[i - 1] + IF i - 1 >= k THEN e[k] - d[k] ELSE 0
    BY <1>4
  <2>3. CASE i = k
    BY <2>1, <2>2, <2>3
  <2>4. CASE i < k
    <3>1. e[i] = d[i] /\ ~ (i >= k) /\ ~ (i - 1 >= k)
      BY <2>4
    <3>2. t[i] = s[i]
      BY <2>1, <2>2, <3>1
    <3> QED BY <2>1, <3>1, <3>2
  <2>5. CASE i > k
    <3>1. e[i] = d[i] /\ i >= k /\ i - 1 >= k
      BY <2>5
    <3>2. t[i - 1] = s[i - 1] + (e[k] - d[k])
      BY <2>2, <3>1
    <3>3. t[i] = s[i] + (e[k] - d[k])
      BY <2>1, <3>1, <3>2
    <3> QED BY <3>1, <3>3
  <2> QED BY <2>3, <2>4, <2>5
<1>5. \A i \in 1..n : i - 1 \in Shifted => i \in Shifted
  BY <1>4
<1> HIDE DEF Shifted
<1>6. n \in Shifted
  <2>1. \A i \in 0..n : i \in Shifted
    BY <1>3, <1>5, InductionUpTo, Zenon
  <2> QED BY <2>1
<1>7. t[n] = s[n] + (e[k] - d[k])
  BY <1>6 DEF Shifted
<1> QED BY <1>1, <1>2, <1>7 DEF Total, s, t

\* A total of natural numbers is at least each of them.
THEOREM TotalAtLeast ==
  ASSUME NEW n \in Nat, NEW d \in [1..n -> Nat]
  PROVE  /\ Total(d, n) \in Nat
         /\ \A k \in 1..n : d[k] <= Total(d, n)
<1> DEFINE s == PartialSums(d, n)
<1>1. /\ s \in [0..n -> Int] /\ s[0] = 0
      /\ \A i \in 1..n : s[i] = s[i - 1] + d[i]
  <2>1. d \in [1..n -> Int]
    OBVIOUS
  <2> QED BY <2>1, PartialSumsEquation
<1> HIDE DEF s
<1> DEFINE Above == {i \in 0..n : s[i] >= 0 /\ \A k \in 1..i : d[k] <= s[i]}
<1>2. 0 \in Above
  BY <1>1
<1>3. ASSUME NEW i \in 1..n, i - 1 \in Above
      PROVE  i \in Above
  <2>1. s[i] = s[i - 1] + d[i] /\ s[i - 1] \in Int /\ s[i] \in Int /\ d[i] \in Nat
    BY <1>1
  <2>2. s[i - 1] >= 0 /\ \A k \in 1..(i - 1) : d[k] <= s[i - 1]
    BY <1>3
  <2>3. ASSUME NEW k \in 1..i
        PROVE  d[k] <= s[i]
    <3>1. CASE k = i
      BY <2>1, <2>2, <3>1
    <3>2. CASE k # i
      <4>1. k \in 1..(i - 1) /\ d[k] \in Nat
        BY <3>2
      <4> QED BY <2>1, <2>2, <4>1
    <3> QED BY <3>1, <3>2
  <2> QED BY <2>1, <2>2, <2>3
<1>4. \A i \in 1..n : i - 1 \in Above => i \in Above
  BY <1>3
<1> HIDE DEF Above
<1>5. n \in Above
  <2>1. \A i \in 0..n : i \in Above
    BY <1>2, <1>4, InductionUpTo, Zenon
  <2> QED BY <2>1
<1> QED BY <1>1, <1>5 DEF Total, s, Above

\* A total of zeros is zero.
THEOREM TotalOfZeros ==
  ASSUME NEW n \in Nat, NEW d \in [1..n -> Int], \A i \in 1..n : d[i] = 0
  PROVE  Total(d, n) = 0
<1> DEFINE s == PartialSums(d, n)
<1>1. /\ s \in [0..n -> Int] /\ s[0] = 0
      /\ \A i \in 1..n : s[i] = s[i - 1] + d[i]
  BY PartialSumsEquation
<1> HIDE DEF s
<1> DEFINE Zero == {i \in 0..n : s[i] = 0}
<1>2. 0 \in Zero
  BY <1>1
<1>3. \A i \in 1..n : i - 1 \in Zero => i \in Zero
  BY <1>1
<1> HIDE DEF Zero
<1>4. n \in Zero
  BY <1>2, <1>3, InductionUpTo
<1> QED BY <1>4 DEF Total, s, Zero

------------------------------------------------------------

\* A total of n numbers is at most n times a bound of them.
THEOREM TotalAtMost ==
  ASSUME NEW n \in Nat, NEW d \in [1..n -> Nat], NEW b \in Nat, \A i \in 1..n : d[i] <= b
  PROVE  Total(d, n) <= n * b
<1> DEFINE s == PartialSums(d, n)
<1>1. /\ s \in [0..n -> Int] /\ s[0] = 0
      /\ \A i \in 1..n : s[i] = s[i - 1] + d[i]
  <2>1. d \in [1..n -> Int]
    OBVIOUS
  <2> QED BY <2>1, PartialSumsEquation
<1> HIDE DEF s
<1> DEFINE Bounded == {i \in 0..n : s[i] <= i * b}
<1>2. 0 \in Bounded
  BY <1>1
<1>3. \A i \in 1..n : i - 1 \in Bounded => i \in Bounded
  <2> SUFFICES ASSUME NEW i \in 1..n, i - 1 \in Bounded
               PROVE  i \in Bounded
    OBVIOUS
  <2>1. s[i - 1] <= (i - 1) * b /\ s[i] = s[i - 1] + d[i] /\ d[i] <= b /\ i \in 0..n /\ i - 1 \in 0..n
    BY <1>1
  <2>2. s[i - 1] \in Int /\ d[i] \in Int /\ i \in Int
    BY <1>1, <2>1
  <2>3. (i - 1) * b + b = i * b
    BY <2>2
  <2>4. (i - 1) * b \in Int /\ i * b \in Int
    BY <2>2
  <2>5. s[i] <= i * b
    BY <2>1, <2>2, <2>3, <2>4
  <2> QED BY <2>1, <2>5
<1> HIDE DEF Bounded
<1>4. n \in Bounded
  <2>1. PICK H : H = Bounded
    OBVIOUS
  <2>2. \A i \in 0..n : i \in H
    BY <1>2, <1>3, <2>1, InductionUpTo
  <2> QED BY <2>1, <2>2
<1> QED BY <1>4 DEF Total, s, Bounded
=============================================================================
