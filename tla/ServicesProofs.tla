--------------------------- MODULE ServicesProofs ---------------------------
(***************************************************************************)
(* Proofs about RateLimiter, Catalogue, Holidays, AuditTrail, Dashboard    *)
(* and BrowserSession, for any keys, rows, threads, entries and accounts.  *)
(***************************************************************************)
EXTENDS MCServices, FiniteSetTheorems, SequenceTheorems, WellFoundedInduction, TLAPS

-----------------------------------------------------------------------------
(***************************************************************************)
(* The rate limiter.                                                       *)
(***************************************************************************)

\* How many of a key's admissions have left its window.
Gone(k) == Len(admitted[k]) - Len(window[k])

\* The window holds the last of the admissions, each within Lag of the time its
\* thread had read, and the admissions come in the order of the clock; those
\* that have left it did so a whole window later.
WindowIsRecent(k) ==
  /\ Len(window[k]) <= Len(admitted[k])
  /\ \A i \in DOMAIN window[k] :
       /\ window[k][i] <= admitted[k][Gone(k) + i]
       /\ admitted[k][Gone(k) + i] <= window[k][i] + Lag
  /\ \A i, j \in DOMAIN admitted[k] : i <= j => admitted[k][i] <= admitted[k][j]
  /\ \A i \in DOMAIN admitted[k] : i <= Gone(k) => admitted[k][i] <= tick - Span + Lag

\* Whoever was told to come back finds room then, if nobody came before.
PromiseIsKept(k) ==
  retryAt[k] # NotYet =>
    /\ retryAt[k] \in Int
    /\ Len(window[k]) < Limit \/ retryAt[k] > window[k][1] + Span

RateInv ==
  /\ DOMAIN window = Subjects /\ DOMAIN admitted = Subjects /\ DOMAIN retryAt = Subjects
  /\ DOMAIN call = Callers /\ tick \in Nat /\ restarts \in Nat
  /\ RateTypeOK /\ RateHolds
  /\ \A k \in Subjects : WindowIsRecent(k) /\ PromiseIsKept(k)

LEMMA LeastElement ==
  ASSUME NEW S \in SUBSET Nat, S # {}
  PROVE  \E m \in S : \A k \in S : m <= k
<1>1. PICK m \in S : \A k \in S : ~ (<<k, m>> \in OpToRel(<, Nat))
  BY NatLessThanWellFounded, WFMin
<1>2. m \in Nat /\ \A k \in S : k \in Nat /\ ~ (k < m)
  BY <1>1 DEF OpToRel
<1> QED BY <1>2

\* Expire takes the elements before the first that is late enough.
LEMMA ExpireDrops ==
  ASSUME NEW S \in SUBSET Int, NEW s \in Seq(S), NEW cutoff \in Int
  PROVE  \E d \in 0..Len(s) :
           /\ Expire(s, cutoff) \in Seq(S) /\ Len(Expire(s, cutoff)) = Len(s) - d
           /\ \A i \in 1..(Len(s) - d) : Expire(s, cutoff)[i] = s[i + d]
           /\ \A i \in 1..d : s[i] <= cutoff
           /\ d < Len(s) => s[d + 1] > cutoff
           /\ d = 0 => Expire(s, cutoff) = s
<1> DEFINE n == Len(s)
           Late(i) == i \in DOMAIN s => s[i] > cutoff
           First(i) == (\A j \in 1..(i - 1) : s[j] <= cutoff) /\ Late(i)
           L == {i \in 1..(n + 1) : Late(i)}
<1>1. n \in Nat /\ DOMAIN s = 1..n /\ \A i \in 1..n : s[i] \in S /\ s[i] \in Int
  BY LenProperties
<1> HIDE DEF n
<1>2. PICK m \in L : \A i \in L : m <= i
  <2>1. n + 1 \in L
    BY <1>1
  <2>2. L \subseteq Nat
    BY <1>1
  <2> HIDE DEF L
  <2> QED BY <2>1, <2>2, LeastElement
<1>3. First(m)
  <2>1. ASSUME NEW j \in 1..(m - 1) PROVE s[j] <= cutoff
    <3>1. j \in 1..n /\ j < m
      BY <1>1, <1>2
    <3>2. j \in L => m <= j
      BY <1>2
    <3>3. ~ Late(j)
      BY <1>1, <1>2, <3>1, <3>2
    <3> QED BY <1>1, <3>1, <3>3
  <2> QED BY <1>2, <2>1
<1>4. \E i \in 1..(n + 1) : First(i)
  BY <1>2, <1>3
<1> DEFINE first == CHOOSE i \in 1..(n + 1) : First(i)
<1>5. first \in 1..(n + 1) /\ First(first)
  BY <1>4
<1>6. Expire(s, cutoff) = SubSeq(s, first, n)
  BY DEF Expire, n
<1> HIDE DEF First, first
<1>7. PICK f \in 1..(n + 1) : f = first
  BY <1>5
<1>8. \A i \in f..n : s[i] \in S
  BY <1>1, <1>7
<1>9. /\ SubSeq(s, f, n) \in Seq(S)
      /\ Len(SubSeq(s, f, n)) = IF f <= n THEN n - f + 1 ELSE 0
      /\ \A i \in 1..(n - f + 1) : SubSeq(s, f, n)[i] = s[f + i - 1]
  BY <1>1, <1>7, <1>8, SubSeqProperties
<1>10. f = 1 => SubSeq(s, f, n) = s
  BY SubSeqFull DEF n
<1> QED
  <2> DEFINE d == f - 1
  <2>1. d \in 0..n /\ Len(SubSeq(s, f, n)) = n - d
    BY <1>1, <1>9
  <2>2. \A i \in 1..(n - d) : SubSeq(s, f, n)[i] = s[i + d]
    BY <1>1, <1>9
  <2>3. (\A i \in 1..d : s[i] <= cutoff) /\ (d < n => s[d + 1] > cutoff)
    BY <1>1, <1>5, <1>7 DEF First
  <2>4. d = 0 => SubSeq(s, f, n) = s
    BY <1>1, <1>10
  <2> QED BY <1>6, <1>7, <1>9, <2>1, <2>2, <2>3, <2>4 DEF n

\* What the thread finds under the lock.
LEMMA RecentIsASuffix ==
  ASSUME RateInv, NEW t \in Callers, call[t] # NotYet
  PROVE  LET w == window[call[t].key]
         IN  /\ call[t].key \in Subjects /\ Now(t) \in 0..tick /\ tick <= Now(t) + Lag
             /\ \E d \in 0..Len(w) :
                  /\ Recent(t) \in Seq(0..tick) /\ Len(Recent(t)) = Len(w) - d
                  /\ \A i \in 1..(Len(w) - d) : Recent(t)[i] = w[i + d]
                  /\ \A i \in 1..d : w[i] <= Now(t) - Span
                  /\ d < Len(w) => w[d + 1] > Now(t) - Span
                  /\ d = 0 => Recent(t) = w
<1> DEFINE w == window[call[t].key]
<1>1. call[t] \in [key : Subjects, now : 0..tick] /\ tick <= Now(t) + Lag
  BY DEF RateInv, RateTypeOK
<1>2. call[t].key \in Subjects /\ Now(t) \in 0..tick
  BY <1>1 DEF Now
<1>3. w \in Seq(0..tick) /\ Now(t) - Span \in Int
  BY <1>2, RateBounds DEF RateInv, RateTypeOK
<1> HIDE DEF w
<1>a. PICK S \in SUBSET Int : S = 0..tick
  OBVIOUS
<1>b. PICK cutoff \in Int : cutoff = Now(t) - Span
  BY <1>3
<1>4. PICK d \in 0..Len(w) :
        /\ Expire(w, cutoff) \in Seq(S) /\ Len(Expire(w, cutoff)) = Len(w) - d
        /\ \A i \in 1..(Len(w) - d) : Expire(w, cutoff)[i] = w[i + d]
        /\ \A i \in 1..d : w[i] <= cutoff
        /\ d < Len(w) => w[d + 1] > cutoff
        /\ d = 0 => Expire(w, cutoff) = w
  <2>1. w \in Seq(S)
    BY <1>3, <1>a
  <2> QED BY <2>1, ExpireDrops, Zenon
<1>5. Recent(t) = Expire(w, Now(t) - Span)
  BY DEF Recent, w
<1> QED BY <1>1, <1>2, <1>a, <1>b, <1>4, <1>5 DEF w

LEMMA AppendIn ==
  ASSUME NEW S, NEW s \in Seq(S), NEW x \in S
  PROVE  /\ Append(s, x) \in Seq(S) /\ Len(Append(s, x)) = Len(s) + 1
         /\ \A i \in 1..Len(s) : Append(s, x)[i] = s[i]
         /\ Append(s, x)[Len(s) + 1] = x
BY AppendProperties

\* The step that matters: what leaves the window for a new time was admitted
\* a window ago, less the lag.
LEMMA AdmitKeeps ==
  ASSUME RateInv, NEW t \in Callers, Admit(t)
  PROVE  RateInv'
<1>0. PICK k \in Subjects : k = call[t].key
  BY RecentIsASuffix DEF Admit
<1> DEFINE w == window[k]
           a == admitted[k]
           m == Len(w)
           n == Len(a)
           u == Recent(t)
           now == Now(t)
<1>1. /\ call[t] # NotYet /\ Len(u) < Limit
      /\ window' = [window EXCEPT ![k] = Append(u, now)]
      /\ admitted' = [admitted EXCEPT ![k] = Append(a, tick)]
      /\ retryAt' = [retryAt EXCEPT ![k] = NotYet]
      /\ call' = [call EXCEPT ![t] = NotYet]
      /\ tick' = tick /\ restarts' = restarts
  BY <1>0 DEF Admit, Allows
<1>2. now \in 0..tick /\ tick <= now + Lag
  BY <1>1, RecentIsASuffix
<1>3. PICK d \in 0..m :
        /\ u \in Seq(0..tick) /\ Len(u) = m - d
        /\ \A i \in 1..(m - d) : u[i] = w[i + d]
        /\ \A i \in 1..d : w[i] <= now - Span
  BY <1>0, <1>1, RecentIsASuffix
<1> HIDE DEF u, now
<1>a. WindowIsRecent(k)
  BY DEF RateInv
<1>4. /\ w \in Seq(0..tick) /\ a \in Seq(0..tick) /\ m \in Nat /\ n \in Nat /\ m <= n
      /\ DOMAIN w = 1..m /\ DOMAIN a = 1..n /\ Limit \in Nat /\ tick \in Nat
      /\ Lag \in Nat /\ Span \in Nat
  BY <1>a, RateBounds, LenProperties DEF RateInv, RateTypeOK, WindowIsRecent
<1>b. /\ \A i \in DOMAIN w : /\ w[i] <= a[n - m + i]
                              /\ a[n - m + i] <= w[i] + Lag
      /\ \A i \in DOMAIN a : i <= n - m => a[i] <= tick - Span + Lag
  BY <1>a DEF WindowIsRecent, Gone
<1>c. \A i \in 1..m : w[i] \in Int
  BY <1>4
<1>5. \A i \in 1..m : /\ w[i] \in Int /\ w[i] <= a[n - m + i]
                      /\ a[n - m + i] <= w[i] + Lag
  <2> HIDE DEF w, a, m, n
  <2> QED BY <1>4, <1>b, <1>c
<1>6. /\ \A i \in 1..n : a[i] \in 0..tick
      /\ \A i, j \in 1..n : i <= j => a[i] <= a[j]
      /\ \A i \in 1..(n - m) : a[i] <= tick - Span + Lag
      /\ \A i \in 1..n : i + Limit \in 1..n => a[i + Limit] - a[i] >= Span - Lag
  <2>1. \A i, j \in 1..n : i <= j => a[i] <= a[j]
    BY <1>4, <1>a DEF WindowIsRecent
  <2>2. \A i \in 1..(n - m) : a[i] <= tick - Span + Lag
    <3> HIDE DEF w, a, m, n
    <3> QED BY <1>4, <1>b
  <2>3. \A i \in 1..n : i + Limit \in 1..n => a[i + Limit] - a[i] >= Span - Lag
    BY <1>4 DEF RateInv, RateHolds
  <2>4. \A i \in 1..n : a[i] \in 0..tick
    BY <1>4
  <2> QED BY <2>1, <2>2, <2>3, <2>4
<1> DEFINE v == Append(u, now)
           b == Append(a, tick)
<1>7. /\ v \in Seq(0..tick) /\ Len(v) = m - d + 1 /\ DOMAIN v = 1..(m - d + 1)
      /\ \A i \in 1..(m - d) : v[i] = w[i + d]
      /\ v[m - d + 1] = now
  <2>1. /\ v \in Seq(0..tick) /\ Len(v) = Len(u) + 1
        /\ \A i \in 1..Len(u) : v[i] = u[i]
        /\ v[Len(u) + 1] = now
    BY <1>2, <1>3, AppendIn
  <2> HIDE DEF v
  <2> QED BY <1>3, <1>4, <2>1, LenProperties
<1>8. /\ b \in Seq(0..tick) /\ Len(b) = n + 1 /\ DOMAIN b = 1..(n + 1)
      /\ \A i \in 1..n : b[i] = a[i]
      /\ b[n + 1] = tick
  <2>1. tick \in 0..tick
    BY <1>4
  <2>2. /\ b \in Seq(0..tick) /\ Len(b) = Len(a) + 1
        /\ \A i \in 1..Len(a) : b[i] = a[i]
        /\ b[Len(a) + 1] = tick
    BY <1>4, <2>1, AppendIn
  <2> HIDE DEF b
  <2> QED BY <1>4, <2>2, LenProperties
<1>9. window'[k] = v /\ admitted'[k] = b /\ retryAt'[k] = NotYet
  BY <1>1 DEF RateInv
<1>10. \A l \in Subjects \ {k} : /\ window'[l] = window[l] /\ admitted'[l] = admitted[l]
                                 /\ retryAt'[l] = retryAt[l]
  BY <1>1 DEF RateInv
<1>11. \A s \in Callers : call'[s] # NotYet => call'[s] = call[s]
  BY <1>1 DEF RateInv
<1> HIDE DEF v, b, w, a, m, n
<1>12. \A i \in 1..(n - m + d) : a[i] <= tick - Span + Lag
  <2> SUFFICES ASSUME NEW i \in 1..(n - m + d) PROVE a[i] <= tick - Span + Lag
    OBVIOUS
  <2>1. CASE i <= n - m
    BY <1>4, <1>6, <2>1
  <2>2. CASE i > n - m
    <3>1. PICK j \in 1..d : i = n - m + j
      <4>1. i - (n - m) \in 1..d /\ i = n - m + (i - (n - m))
        BY <1>4, <2>2
      <4> QED BY <4>1
    <3>2. j \in 1..m /\ w[j] <= now - Span
      BY <1>3, <1>4, <3>1
    <3>3. a[i] <= w[j] + Lag /\ w[j] \in Int
      BY <1>5, <3>1, <3>2
    <3>4. a[i] \in Int /\ now \in Int
      BY <1>2, <1>4, <1>6
    <3> QED BY <1>2, <1>4, <3>2, <3>3, <3>4
  <2> QED BY <1>4, <2>1, <2>2
<1>13. WindowIsRecent(k)'
  <2>1. Gone(k)' = n - m + d /\ Len(v) <= Len(b)
    <3>1. Gone(k)' = Len(b) - Len(v)
      BY <1>9 DEF Gone
    <3> QED BY <1>3, <1>4, <1>7, <1>8, <3>1
  <2>2. ASSUME NEW i \in 1..(m - d + 1)
        PROVE  v[i] <= b[n - m + d + i] /\ b[n - m + d + i] <= v[i] + Lag
    <3>1. CASE i = m - d + 1
      <4>1. n - m + d + i = n + 1
        BY <1>4, <3>1
      <4> QED BY <1>2, <1>4, <1>7, <1>8, <3>1, <4>1
    <3>2. CASE i # m - d + 1
      <4>1. i \in 1..(m - d) /\ i + d \in 1..m /\ n - m + d + i \in 1..n
        BY <1>4, <3>2
      <4>2. n - m + d + i = n - m + (i + d)
        BY <1>4
      <4>3. v[i] = w[i + d] /\ b[n - m + d + i] = a[n - m + (i + d)]
        BY <1>7, <1>8, <4>1, <4>2
      <4> QED BY <1>5, <4>1, <4>3
    <3> QED BY <3>1, <3>2
  <2>3. ASSUME NEW i \in 1..(n + 1), NEW j \in 1..(n + 1), i <= j
        PROVE  b[i] <= b[j]
    BY <1>4, <1>6, <1>8, <2>3
  <2>4. ASSUME NEW i \in 1..(n + 1), i <= n - m + d
        PROVE  b[i] <= tick - Span + Lag
    <3>1. i \in 1..n /\ i \in 1..(n - m + d)
      BY <1>4, <2>4
    <3> QED BY <1>8, <1>12, <3>1
  <2> QED BY <1>1, <1>7, <1>8, <1>9, <2>1, <2>2, <2>3, <2>4 DEF WindowIsRecent
<1>14. \A i \in 1..(n + 1) : i + Limit \in 1..(n + 1) => b[i + Limit] - b[i] >= Span - Lag
  <2> SUFFICES ASSUME NEW i \in 1..(n + 1), i + Limit \in 1..(n + 1)
               PROVE  b[i + Limit] - b[i] >= Span - Lag
    OBVIOUS
  <2>1. i \in 1..n
    BY <1>4, RateBounds
  <2>2. CASE i + Limit \in 1..n
    BY <1>6, <1>8, <2>1, <2>2
  <2>3. CASE i + Limit = n + 1
    <3>1. i \in 1..(n - m + d)
      BY <1>1, <1>3, <1>4, <2>1, <2>3
    <3>2. b[i] = a[i] /\ a[i] <= tick - Span + Lag /\ b[i + Limit] = tick /\ a[i] \in Int
      BY <1>6, <1>8, <1>12, <2>1, <2>3, <3>1
    <3> QED BY <1>4, <3>2
  <2> QED BY <1>4, <2>2, <2>3
<1>15. Len(v) <= Limit
  BY <1>1, <1>3, <1>4, <1>7
<1>16. RateTypeOK'
  <2>1. ASSUME NEW l \in Subjects
        PROVE  /\ window'[l] \in Seq(0..tick) /\ Len(window'[l]) <= Limit
               /\ admitted'[l] \in Seq(0..tick)
    BY <1>7, <1>8, <1>9, <1>10, <1>15 DEF RateInv, RateTypeOK
  <2>2. ASSUME NEW s \in Callers, call'[s] # NotYet
        PROVE  call'[s] \in [key : Subjects, now : 0..tick] /\ tick <= call'[s].now + Lag
    BY <1>11, <2>2 DEF RateInv, RateTypeOK, Now
  <2> QED BY <1>1, <2>1, <2>2 DEF RateTypeOK, Now
<1>17. RateHolds'
  <2> SUFFICES ASSUME NEW l \in Subjects, NEW i \in DOMAIN admitted'[l],
                      i + Limit \in DOMAIN admitted'[l]
               PROVE  admitted'[l][i + Limit] - admitted'[l][i] >= Span - Lag
    BY DEF RateHolds
  <2>1. CASE l = k
    BY <1>8, <1>9, <1>14, <2>1
  <2>2. CASE l # k
    BY <1>10, <2>2 DEF RateInv, RateHolds
  <2> QED BY <2>1, <2>2
<1>18. \A l \in Subjects : (WindowIsRecent(l) /\ PromiseIsKept(l))'
  <2> SUFFICES ASSUME NEW l \in Subjects PROVE (WindowIsRecent(l) /\ PromiseIsKept(l))'
    OBVIOUS
  <2>1. CASE l = k
    BY <1>9, <1>13, <2>1 DEF PromiseIsKept
  <2>2. CASE l # k
    BY <1>1, <1>10, <2>2 DEF RateInv, WindowIsRecent, PromiseIsKept, Gone
  <2> QED BY <2>1, <2>2
<1> QED BY <1>1, <1>16, <1>17, <1>18 DEF RateInv

LEMMA WholeSecondsAreLater ==
  ASSUME NEW x \in Int, NEW s \in Nat \ {0}
  PROVE  x \div s \in Int /\ (x \div s + 1) * s \in Int /\ (x \div s + 1) * s > x
<1>1. PICK q \in Int, r \in Int : x \div s = q /\ x % s = r
  BY SMT
<1>2. x = s * q + r /\ r < s
  BY <1>1, SMT
<1>3. (q + 1) * s = s * q + s
  BY SMT
<1> QED BY <1>1, <1>2, <1>3, SMT

\* Nothing has left the window of a thread that is refused, and it is told a
\* time at which the oldest will have.
LEMMA RefuseKeeps ==
  ASSUME RateInv, NEW t \in Callers, Refuse(t)
  PROVE  RateInv'
<1>0. PICK k \in Subjects : k = call[t].key
  BY RecentIsASuffix DEF Refuse
<1> DEFINE w == window[k]
           now == Now(t)
           due == now + RetryAfter(t) * Second
<1>1. /\ call[t] # NotYet /\ ~ (Len(Recent(t)) < Limit)
      /\ window' = [window EXCEPT ![k] = Recent(t)]
      /\ retryAt' = [retryAt EXCEPT ![k] = IF @ = NotYet \/ due < @ THEN due ELSE @]
      /\ call' = [call EXCEPT ![t] = NotYet]
      /\ tick' = tick /\ admitted' = admitted /\ restarts' = restarts
  BY <1>0 DEF Refuse, Allows
<1>2. /\ w \in Seq(0..tick) /\ Len(w) <= Limit /\ Len(w) \in Nat /\ DOMAIN w = 1..Len(w)
      /\ Limit \in Nat \ {0} /\ Second \in Nat \ {0} /\ Span \in Nat
  BY RateBounds, LenProperties DEF RateInv, RateTypeOK
<1>3. Recent(t) = w /\ Len(w) >= Limit /\ now \in Int
  BY <1>0, <1>1, <1>2, RecentIsASuffix
<1>4. window' = [window EXCEPT ![k] = w] /\ \A l \in Subjects : window'[l] = window[l]
  BY <1>1, <1>3 DEF RateInv
<1>5. due \in Int /\ due > w[1] + Span
  <2>3. w[1] \in Int
    <3>1. 1 \in 1..Len(w)
      BY <1>2, <1>3
    <3> HIDE DEF w
    <3>2. w[1] \in 0..tick
      BY <1>2, <3>1, ElementOfSeq
    <3> QED BY <3>2
  <2>1. PICK x \in Int : x = w[1] + Span - now
    BY <1>2, <1>3, <2>3
  <2>2. RetryAfter(t) = x \div Second + 1
    BY <1>3, <2>1 DEF RetryAfter
  <2> HIDE DEF now, w
  <2>4. /\ (x \div Second + 1) * Second \in Int /\ (x \div Second + 1) * Second > x
    BY <1>2, WholeSecondsAreLater
  <2>5. PICK y \in Int : y = (x \div Second + 1) * Second
    BY <2>4
  <2>6. due = now + y /\ y > x
    BY <2>2, <2>4, <2>5
  <2> HIDE DEF due
  <2> QED BY <1>2, <1>3, <2>1, <2>3, <2>6
<1> HIDE DEF due, now
<1>6. \A s \in Callers : call'[s] # NotYet => call'[s] = call[s]
  BY <1>1 DEF RateInv
<1>7. ASSUME NEW l \in Subjects PROVE PromiseIsKept(l)'
  <2>1. PromiseIsKept(l) /\ window'[l] = window[l]
    BY <1>4 DEF RateInv
  <2>2. CASE l # k
    <3>1. retryAt'[l] = retryAt[l]
      BY <1>1, <2>2 DEF RateInv
    <3> QED BY <2>1, <3>1 DEF PromiseIsKept
  <2>3. CASE l = k
    <3>1. retryAt'[k] = due \/ retryAt'[k] = retryAt[k]
      BY <1>1 DEF RateInv
    <3> QED BY <1>5, <2>1, <2>3, <3>1 DEF PromiseIsKept
  <2> QED BY <2>2, <2>3
<1>8. \A l \in Subjects : WindowIsRecent(l)'
  BY <1>1, <1>4 DEF RateInv, WindowIsRecent, Gone
<1>9. RateTypeOK' /\ RateHolds'
  <2>1. \A s \in Callers : call'[s] # NotYet =>
          call'[s] \in [key : Subjects, now : 0..tick] /\ tick <= call'[s].now + Lag
    BY <1>6 DEF RateInv, RateTypeOK, Now
  <2> QED BY <1>1, <1>4, <2>1 DEF RateInv, RateTypeOK, RateHolds, Now
<1> QED BY <1>1, <1>7, <1>8, <1>9 DEF RateInv

LEMMA ForgetKeeps ==
  ASSUME RateInv, Forget
  PROVE  RateInv'
<1>1. /\ DOMAIN window' = Subjects /\ DOMAIN admitted' = Subjects /\ DOMAIN retryAt' = Subjects
      /\ DOMAIN call' = Callers /\ tick' = tick /\ restarts' \in Nat
      /\ \A k \in Subjects : window'[k] = <<>> /\ admitted'[k] = <<>> /\ retryAt'[k] = NotYet
      /\ \A t \in Callers : call'[t] = NotYet
  BY DEF Forget, RateInv
<1>2. <<>> \in Seq(0..tick) /\ Len(<<>>) = 0 /\ DOMAIN <<>> = {} /\ Limit \in Nat
  BY RateBounds
<1>3. RateTypeOK' /\ RateHolds'
  <2>1. ASSUME NEW k \in Subjects
        PROVE  /\ window'[k] \in Seq(0..tick') /\ Len(window'[k]) <= Limit
               /\ admitted'[k] \in Seq(0..tick') /\ DOMAIN admitted'[k] = {}
    <3>1. window'[k] = <<>> /\ admitted'[k] = <<>>
      BY <1>1
    <3>2. <<>> \in Seq(0..tick') /\ Len(<<>>) <= Limit
      BY <1>2
    <3> QED BY <1>2, <3>1, <3>2
  <2> QED BY <1>1, <2>1 DEF RateTypeOK, RateHolds
<1>4. \A k \in Subjects : WindowIsRecent(k)' /\ PromiseIsKept(k)'
  BY <1>1, <1>2 DEF WindowIsRecent, PromiseIsKept, Gone
<1> QED BY <1>1, <1>3, <1>4 DEF RateInv

LEMMA TickKeeps ==
  ASSUME RateInv, Tick
  PROVE  RateInv'
<1>1. /\ tick' = tick + 1 /\ tick \in Nat
      /\ \A t \in Callers : call[t] # NotYet => tick' <= Now(t) + Lag
      /\ UNCHANGED <<window, call, admitted, retryAt, restarts>>
  BY DEF Tick, RateInv
<1>2. 0..tick \subseteq 0..tick'
  BY <1>1
<1>3. RateTypeOK'
  <2>1. ASSUME NEW k \in Subjects
        PROVE  window[k] \in Seq(0..tick') /\ admitted[k] \in Seq(0..tick')
    BY <1>2, SeqMonotonic DEF RateInv, RateTypeOK
  <2>2. ASSUME NEW t \in Callers, call[t] # NotYet
        PROVE  call[t] \in [key : Subjects, now : 0..tick']
    BY <1>2, <2>2 DEF RateInv, RateTypeOK
  <2> QED BY <1>1, <2>1, <2>2 DEF RateInv, RateTypeOK, Now
<1>4. ASSUME NEW k \in Subjects PROVE WindowIsRecent(k)'
  <2>1. WindowIsRecent(k) /\ \A i \in DOMAIN admitted[k] : admitted[k][i] \in Int
    BY DEF RateInv, RateTypeOK
  <2>2. \A i \in DOMAIN admitted[k] : i <= Gone(k) => admitted[k][i] <= tick' - Span + Lag
    BY <1>1, <2>1, RateBounds DEF WindowIsRecent
  <2> QED BY <1>1, <2>1, <2>2 DEF WindowIsRecent, Gone
<1>5. \A k \in Subjects : PromiseIsKept(k)'
  BY <1>1 DEF RateInv, PromiseIsKept
<1>6. RateHolds'
  BY <1>1 DEF RateInv, RateHolds
<1> QED BY <1>1, <1>3, <1>4, <1>5, <1>6 DEF RateInv

LEMMA RateStep == RateInv /\ [RateNext]_rateVars => RateInv'
<1> SUFFICES ASSUME RateInv, [RateNext]_rateVars PROVE RateInv'
  OBVIOUS
<1>1. ASSUME NEW t \in Callers, NEW k \in Subjects, Arrive(t, k) PROVE RateInv'
  <2>1. /\ DOMAIN call' = Callers /\ call'[t] = [key |-> k, now |-> tick]
        /\ \A s \in Callers \ {t} : call'[s] = call[s]
        /\ UNCHANGED <<window, tick, admitted, retryAt, restarts>>
    BY <1>1 DEF Arrive, RateInv
  <2>2. ASSUME NEW s \in Callers, call'[s] # NotYet
        PROVE  call'[s] \in [key : Subjects, now : 0..tick] /\ tick <= call'[s].now + Lag
    <3>1. CASE s = t
      BY <2>1, <3>1, RateBounds DEF RateInv
    <3>2. CASE s # t
      BY <2>1, <2>2, <3>2 DEF RateInv, RateTypeOK, Now
    <3> QED BY <3>1, <3>2
  <2>3. RateTypeOK' /\ RateHolds'
    BY <2>1, <2>2 DEF RateInv, RateTypeOK, RateHolds, Now
  <2>4. \A l \in Subjects : WindowIsRecent(l)' /\ PromiseIsKept(l)'
    BY <2>1 DEF RateInv, WindowIsRecent, PromiseIsKept, Gone
  <2> QED BY <2>1, <2>3, <2>4 DEF RateInv
<1>2. CASE UNCHANGED rateVars
  <2>1. RateTypeOK' /\ RateHolds'
    BY <1>2 DEF RateInv, RateTypeOK, RateHolds, Now, rateVars
  <2>2. \A l \in Subjects : WindowIsRecent(l)' /\ PromiseIsKept(l)'
    BY <1>2 DEF RateInv, WindowIsRecent, PromiseIsKept, Gone, rateVars
  <2> QED BY <1>2, <2>1, <2>2 DEF RateInv, rateVars
<1> QED BY <1>1, <1>2, AdmitKeeps, RefuseKeeps, ForgetKeeps, TickKeeps DEF RateNext

\* The threads that wait find what the invariant says of the window.
LEMMA NobodyIsWronged == RateInv => RefusalsAreFair
<1> SUFFICES ASSUME RateInv, NEW t \in Callers, call[t] # NotYet
             PROVE  LET k == call[t].key
                    IN  /\ retryAt[k] # NotYet /\ Now(t) >= retryAt[k] => Allows(t)
                        /\ ~ Allows(t) =>
                             Limit <= Cardinality({i \in DOMAIN admitted[k] :
                                                     admitted[k][i] > Now(t) - Span - Lag})
  BY DEF RefusalsAreFair
<1>1. PICK k \in Subjects : k = call[t].key
  BY RecentIsASuffix
<1> DEFINE w == window[k]
           a == admitted[k]
           m == Len(w)
           n == Len(a)
           now == Now(t)
           S == {i \in DOMAIN a : a[i] > now - Span - Lag}
<1>2. PICK d \in 0..m :
        /\ Len(Recent(t)) = m - d
        /\ \A i \in 1..d : w[i] <= now - Span
        /\ d < m => w[d + 1] > now - Span
  BY <1>1, RecentIsASuffix
<1>3. /\ now \in Nat /\ now <= tick /\ tick \in Nat /\ m \in Nat /\ m <= Limit /\ n \in Nat
      /\ m <= n /\ DOMAIN w = 1..m /\ DOMAIN a = 1..n
      /\ Limit \in Nat \ {0} /\ Span \in Nat /\ Lag \in Nat
      /\ \A i \in 1..m : w[i] \in Int
      /\ \A i \in 1..n : a[i] \in Int
  <2>1. now \in 0..tick /\ tick \in Nat /\ WindowIsRecent(k)
    BY RecentIsASuffix DEF RateInv
  <2>2. w \in Seq(0..tick) /\ a \in Seq(0..tick) /\ m <= Limit
    BY DEF RateInv, RateTypeOK
  <2>3. m <= n
    BY <2>1 DEF WindowIsRecent
  <2> QED BY <2>1, <2>2, <2>3, LenProperties, RateBounds
<1>4. /\ \A i \in DOMAIN w : w[i] <= a[n - m + i]
      /\ \A i, j \in DOMAIN a : i <= j => a[i] <= a[j]
  BY DEF RateInv, WindowIsRecent, Gone
<1>5. retryAt[k] # NotYet => /\ retryAt[k] \in Int
                             /\ m < Limit \/ retryAt[k] > w[1] + Span
  BY DEF RateInv, PromiseIsKept
<1> HIDE DEF w, a, m, n, now
<1>6. ASSUME retryAt[k] # NotYet, now >= retryAt[k], ~ Allows(t) PROVE FALSE
  <2>1. d = 0 /\ m = Limit /\ w[1] \in Int
    BY <1>1, <1>2, <1>3, <1>6 DEF Allows
  <2>2. w[1] > now - Span
    BY <1>2, <1>3, <2>1
  <2> QED BY <1>3, <1>5, <1>6, <2>1, <2>2
<1>7. ASSUME ~ Allows(t) PROVE Limit <= Cardinality(S)
  <2>1. d = 0 /\ m = Limit
    BY <1>1, <1>2, <1>3, <1>7 DEF Allows
  <2>2. w[1] > now - Span /\ w[1] <= a[n - m + 1] /\ n - m + 1 \in 1..n
    BY <1>2, <1>3, <1>4, <2>1
  <2>3. ASSUME NEW i \in (n - m + 1)..n PROVE i \in S
    <3>1. i \in 1..n /\ n - m + 1 <= i
      BY <1>3, <2>2
    <3>a. 1 \in 1..m
      BY <1>3, <2>1
    <3>2. a[n - m + 1] <= a[i] /\ a[i] \in Int /\ a[n - m + 1] \in Int /\ w[1] \in Int
      <4>1. a[i] \in Int /\ a[n - m + 1] \in Int /\ w[1] \in Int
        BY <1>3, <2>2, <3>1, <3>a
      <4>2. i \in DOMAIN a /\ n - m + 1 \in DOMAIN a
        BY <1>3, <2>2, <3>1
      <4> QED BY <1>4, <3>1, <4>1, <4>2
    <3>3. a[i] > now - Span - Lag
      BY <1>3, <2>2, <3>2
    <3> QED BY <1>3, <3>1, <3>3
  <2>4. S \subseteq 1..n
    BY <1>3
  <2> HIDE DEF S
  <2>a. IsFiniteSet(1..n)
    BY <1>3, FS_Interval
  <2>5. IsFiniteSet(S) /\ Cardinality(S) \in Nat
    BY <2>4, <2>a, FS_Subset, FS_CardinalityType
  <2>6. /\ IsFiniteSet((n - m + 1)..n)
        /\ Cardinality((n - m + 1)..n) = m
    <3>1. PICK b \in Int : b = n - m + 1
      BY <1>3
    <3>2. /\ IsFiniteSet(b..n) /\ Cardinality(b..n) = IF b > n THEN 0 ELSE n - b + 1
      BY <1>3, FS_Interval
    <3> QED BY <1>3, <3>1, <3>2
  <2>7. (n - m + 1)..n \subseteq S
    BY <2>3
  <2>8. Cardinality((n - m + 1)..n) <= Cardinality(S)
    BY <2>5, <2>7, FS_Subset
  <2> QED BY <2>1, <2>6, <2>8
<1> QED BY <1>1, <1>6, <1>7 DEF a, now

LEMMA RateInvariance == RateSpec => []RateInv
<1>1. ASSUME RateInit PROVE RateInv
  <2>1. /\ DOMAIN window = Subjects /\ DOMAIN admitted = Subjects /\ DOMAIN retryAt = Subjects
        /\ DOMAIN call = Callers /\ tick = 0 /\ restarts = 0
        /\ \A k \in Subjects : window[k] = <<>> /\ admitted[k] = <<>> /\ retryAt[k] = NotYet
        /\ \A t \in Callers : call[t] = NotYet
    BY <1>1 DEF RateInit
  <2>2. <<>> \in Seq(0..tick) /\ Len(<<>>) = 0 /\ DOMAIN <<>> = {} /\ Limit \in Nat
    BY RateBounds
  <2>3. RateTypeOK /\ RateHolds
    <3>1. ASSUME NEW k \in Subjects
          PROVE  /\ window[k] \in Seq(0..tick) /\ Len(window[k]) <= Limit
                 /\ admitted[k] \in Seq(0..tick) /\ DOMAIN admitted[k] = {}
      <4>1. window[k] = <<>> /\ admitted[k] = <<>>
        BY <2>1
      <4>2. Len(<<>>) <= Limit
        BY <2>2
      <4> QED BY <2>2, <4>1, <4>2
    <3> QED BY <2>1, <3>1 DEF RateTypeOK, RateHolds
  <2>4. \A k \in Subjects : WindowIsRecent(k) /\ PromiseIsKept(k)
    BY <2>1, <2>2 DEF WindowIsRecent, PromiseIsKept, Gone
  <2> QED BY <2>1, <2>3, <2>4 DEF RateInv
<1> QED BY <1>1, RateStep, PTL DEF RateSpec

-----------------------------------------------------------------------------
(***************************************************************************)
(* The task catalogue.                                                     *)
(***************************************************************************)

IsTask(x) == DOMAIN x = {"rule", "due", "mandatory", "linked"} /\ x.linked \in BOOLEAN

\* A transaction about to insert tasks.
IsAssignment(a) ==
  /\ a.employee \in Departments
  /\ \A i \in DOMAIN a.tasks : IsTask(a.tasks[i]) /\ a.tasks[i].linked

\* Unless a deletion and an assignment met: nobody has a task of the template
\* that is about to be deleted, and nobody is about to get any.
DeletionIsAlone ==
  ~ metDeletion /\ removing # Vacant =>
    /\ \A e \in Departments : removing \notin DOMAIN given[e]
    /\ \A t \in Assigners : assigning[t] = Vacant

CatInv ==
  /\ templates \in [TemplateIds -> Optional(TemplateRows)]
  /\ rules \in [RuleIds -> Optional(RuleRows)]
  /\ templatesMade \in Nat /\ rulesMade \in Nat
  /\ DOMAIN items = RuleIds /\ DOMAIN given = Departments /\ DOMAIN assigning = Assigners
  /\ \A e \in Departments : \A i \in DOMAIN given[e] : IsTask(given[e][i])
  /\ \A t \in Assigners : assigning[t] # Vacant => IsAssignment(assigning[t])
  /\ removing \in Optional(TemplateIds) /\ metDeletion \in BOOLEAN
  /\ CatTypeOK /\ DeletionIsAlone /\ TasksKeepTheirTemplate

LEMMA CreateTemplateKeeps ==
  ASSUME CatInv, NEW c \in Codes, NEW d \in Optional(DueDays), NEW m \in BOOLEAN,
         CreateTemplate(c, d, m)
  PROVE  CatInv'
<1> DEFINE n == templatesMade + 1
           x == [code |-> c, due |-> d, mandatory |-> m, active |-> TRUE]
<1>1. /\ n \in TemplateIds /\ templatesMade' = n
      /\ templates' = [templates EXCEPT ![n] = x]
      /\ \A i \in Listed : templates[i].code # c
      /\ UNCHANGED <<rules, rulesMade, items, given, assigning, removing, metDeletion>>
  BY CatalogueBounds DEF CreateTemplate, CatInv, TemplateIds
<1>2. x \in TemplateRows /\ x.code = c
  BY DEF TemplateRows
<1> HIDE DEF x
<1>a. x # Vacant
  BY <1>2, VacantIsNoRow
<1>3. /\ templates' \in [TemplateIds -> Optional(TemplateRows)] /\ templates'[n] = x
      /\ Listed' = Listed \cup {n} /\ \A i \in Listed \ {n} : templates'[i] = templates[i]
  BY <1>1, <1>2, <1>a DEF CatInv, Listed, Optional
<1>4. CatTypeOK'
  <2>1. \A i \in Listed' : templates'[i] \in TemplateRows
    BY <1>2, <1>3 DEF CatInv, CatTypeOK
  <2>2. \A i, j \in Listed' : templates'[i].code = templates'[j].code => i = j
    BY <1>1, <1>2, <1>3 DEF CatInv, CatTypeOK
  <2> QED BY <1>1, <1>3, <2>1, <2>2 DEF CatInv, CatTypeOK, LiveRules
<1> QED BY <1>1, <1>3, <1>4 DEF CatInv, DeletionIsAlone, TasksKeepTheirTemplate

LEMMA UpdateTemplateKeeps ==
  ASSUME CatInv, NEW i \in Listed, NEW d \in Optional(DueDays), NEW m \in BOOLEAN,
         NEW a \in BOOLEAN, UpdateTemplate(i, d, m, a)
  PROVE  CatInv'
<1> DEFINE x == [templates[i] EXCEPT !.due = d, !.mandatory = m, !.active = a]
<1>1. /\ templates' = [templates EXCEPT ![i] = x] /\ i \in TemplateIds
      /\ UNCHANGED <<templatesMade, rules, rulesMade, items, given, assigning, removing,
                     metDeletion>>
  BY DEF UpdateTemplate, Listed, CatInv
<1>a. x \in TemplateRows /\ x.code = templates[i].code
  BY DEF TemplateRows, CatInv, CatTypeOK
<1> HIDE DEF x
<1>2. x \in TemplateRows /\ x # Vacant /\ x.code = templates[i].code
  BY <1>a, VacantIsNoRow
<1>3. /\ templates' \in [TemplateIds -> Optional(TemplateRows)] /\ templates'[i] = x
      /\ Listed' = Listed /\ \A j \in Listed \ {i} : templates'[j] = templates[j]
  BY <1>1, <1>2 DEF CatInv, Listed, Optional
<1>4. CatTypeOK'
  BY <1>1, <1>2, <1>3 DEF CatInv, CatTypeOK, LiveRules
<1> QED BY <1>1, <1>3, <1>4 DEF CatInv, DeletionIsAlone, TasksKeepTheirTemplate

LEMMA ReadDeletionKeeps ==
  ASSUME CatInv, NEW i \in Listed, ReadDeletion(i)
  PROVE  CatInv'
<1>1. /\ removing' = i /\ i \in TemplateIds /\ ~ HasTasks(i)
      /\ metDeletion' = (metDeletion \/ \E t \in Assigners : assigning[t] # Vacant)
      /\ UNCHANGED <<templates, templatesMade, rules, rulesMade, items, given, assigning>>
  BY DEF ReadDeletion, Listed
<1>2. metDeletion' \in BOOLEAN /\ (metDeletion => metDeletion')
  BY <1>1 DEF CatInv
<1>3. TasksKeepTheirTemplate'
  BY <1>1, <1>2 DEF CatInv, TasksKeepTheirTemplate
<1>4. DeletionIsAlone'
  BY <1>1 DEF CatInv, TasksKeepTheirTemplate, DeletionIsAlone, HasTasks
<1>5. CatTypeOK'
  <2>1. Listed' = Listed /\ LiveRules' = LiveRules
    BY <1>1 DEF Listed, LiveRules
  <2> QED BY <1>1, <2>1 DEF CatInv, CatTypeOK
<1> QED BY <1>1, <1>2, <1>3, <1>4, <1>5 DEF CatInv, Optional

\* Of the tasks that lose a link, none is there unless an assignment overlapped.
LEMMA CommitDeletionKeeps ==
  ASSUME CatInv, CommitDeletion
  PROVE  CatInv'
<1> DEFINE i == removing
<1>1. /\ i # Vacant /\ removing' = Vacant
      /\ templates' = [templates EXCEPT ![i] = Vacant]
      /\ items' = [r \in RuleIds |-> Without(items[r], {i})]
      /\ given' = UnlinkTasks(i)
      /\ UNCHANGED <<templatesMade, rules, rulesMade, assigning, metDeletion>>
  BY DEF CommitDeletion
<1>2. i \in TemplateIds
  BY <1>1 DEF CatInv, Optional
<1>3. /\ templates' \in [TemplateIds -> Optional(TemplateRows)]
      /\ Listed' = Listed \ {i} /\ \A j \in Listed \ {i} : templates'[j] = templates[j]
  BY <1>1, <1>2 DEF CatInv, Listed, Optional
<1>4. DOMAIN items' = RuleIds /\ \A r \in RuleIds : DOMAIN items'[r] = DOMAIN items[r] \ {i}
  BY <1>1 DEF Without
<1>5. /\ DOMAIN given' = Departments
      /\ \A e \in Departments : DOMAIN given'[e] = DOMAIN given[e]
  BY <1>1 DEF UnlinkTasks
<1>6. \A e \in Departments : \A j \in DOMAIN given[e] :
        /\ IsTask(given'[e][j]) /\ given'[e][j].rule = given[e][j].rule
        /\ given'[e][j].linked = (given[e][j].linked /\ j # i)
  BY <1>1, <1>5 DEF CatInv, UnlinkTasks, IsTask
<1>7. CatTypeOK'
  <2>1. /\ \A j \in Listed' : templates'[j] \in TemplateRows
        /\ \A j, k \in Listed' : templates'[j].code = templates'[k].code => j = k
    BY <1>3 DEF CatInv, CatTypeOK
  <2>2. LiveRules' = LiveRules /\ rules' = rules
    BY <1>1 DEF LiveRules
  <2>3. \A r \in RuleIds : DOMAIN items'[r] \subseteq Listed'
    BY <1>3, <1>4 DEF CatInv, CatTypeOK
  <2>4. \A r \in RuleIds \ LiveRules' : DOMAIN items'[r] = {}
    BY <1>4, <2>2 DEF CatInv, CatTypeOK
  <2>5. \A e \in Departments : \A j \in DOMAIN given'[e] :
          /\ given'[e][j].linked => j \in Listed'
          /\ given'[e][j].rule \in Optional(LiveRules')
    BY <1>3, <1>5, <1>6, <2>2 DEF CatInv, CatTypeOK
  <2>6. \A r \in LiveRules' : rules'[r] \in RuleRows
    BY <2>2 DEF CatInv, CatTypeOK
  <2> QED BY <2>1, <2>3, <2>4, <2>5, <2>6 DEF CatTypeOK
<1>8. TasksKeepTheirTemplate'
  <2> SUFFICES ASSUME ~ metDeletion, NEW e \in Departments, NEW j \in DOMAIN given[e]
               PROVE  given'[e][j].linked
    BY <1>1, <1>5 DEF TasksKeepTheirTemplate
  <2>1. j # i /\ given[e][j].linked
    BY <1>1 DEF CatInv, TasksKeepTheirTemplate, DeletionIsAlone
  <2> QED BY <1>6, <2>1
<1>9. DeletionIsAlone' /\ removing' \in Optional(TemplateIds)
  BY <1>1 DEF DeletionIsAlone, Optional
<1> QED BY <1>1, <1>3, <1>4, <1>5, <1>6, <1>7, <1>8, <1>9 DEF CatInv

LEMMA CreateRuleKeeps ==
  ASSUME CatInv, NEW d \in Optional(Departments), NEW list \in ItemLists, CreateRule(d, list)
  PROVE  CatInv'
<1> DEFINE n == rulesMade + 1
           x == [department |-> d, active |-> TRUE]
<1>1. /\ n \in RuleIds /\ rulesMade' = n /\ rules' = [rules EXCEPT ![n] = x]
      /\ items' = [items EXCEPT ![n] = list]
      /\ UNCHANGED <<templates, templatesMade, given, assigning, removing, metDeletion>>
  BY CatalogueBounds DEF CreateRule, CatInv, RuleIds
<1>2. x \in RuleRows
  BY DEF RuleRows
<1> HIDE DEF x
<1>a. x # Vacant
  BY <1>2, VacantIsNoRow
<1>3. /\ rules' \in [RuleIds -> Optional(RuleRows)] /\ rules'[n] = x
      /\ LiveRules' = LiveRules \cup {n} /\ \A r \in LiveRules \ {n} : rules'[r] = rules[r]
  BY <1>1, <1>2, <1>a DEF CatInv, LiveRules, Optional
<1>4. DOMAIN list \subseteq Listed
  BY DEF ItemLists
<1>5. CatTypeOK'
  <2>1. Listed' = Listed /\ templates' = templates /\ given' = given
    BY <1>1 DEF Listed
  <2>2. \A r \in RuleIds : r # n => items'[r] = items[r]
    BY <1>1 DEF CatInv
  <2>3. items'[n] = list
    BY <1>1 DEF CatInv
  <2> QED BY <1>2, <1>3, <1>4, <2>1, <2>2, <2>3 DEF CatInv, CatTypeOK, Optional
<1>6. DOMAIN items' = RuleIds
  BY <1>1 DEF CatInv
<1> QED BY <1>1, <1>3, <1>5, <1>6 DEF CatInv, DeletionIsAlone, TasksKeepTheirTemplate

LEMMA UpdateRuleKeeps ==
  ASSUME CatInv, NEW r \in LiveRules, NEW d \in Optional(Departments), NEW a \in BOOLEAN,
         NEW list \in ItemLists \cup {items[r]}, UpdateRule(r, d, a, list)
  PROVE  CatInv'
<1> DEFINE x == [department |-> d, active |-> a]
<1>1. /\ r \in RuleIds /\ rules' = [rules EXCEPT ![r] = x]
      /\ items' = [items EXCEPT ![r] = list]
      /\ UNCHANGED <<templates, templatesMade, rulesMade, given, assigning, removing,
                     metDeletion>>
  BY DEF UpdateRule, LiveRules
<1>2. x \in RuleRows
  BY DEF RuleRows
<1> HIDE DEF x
<1>a. x # Vacant
  BY <1>2, VacantIsNoRow
<1>3. /\ rules' \in [RuleIds -> Optional(RuleRows)] /\ rules'[r] = x
      /\ LiveRules' = LiveRules /\ \A s \in LiveRules \ {r} : rules'[s] = rules[s]
  BY <1>1, <1>2, <1>a DEF CatInv, LiveRules, Optional
<1>4. DOMAIN list \subseteq Listed
  BY <1>1 DEF ItemLists, CatInv, CatTypeOK
<1>5. CatTypeOK'
  <2>1. Listed' = Listed /\ templates' = templates /\ given' = given
    BY <1>1 DEF Listed
  <2>2. \A s \in RuleIds : s # r => items'[s] = items[s]
    BY <1>1 DEF CatInv
  <2>3. items'[r] = list
    BY <1>1 DEF CatInv
  <2> QED BY <1>2, <1>3, <1>4, <2>1, <2>2, <2>3 DEF CatInv, CatTypeOK
<1>6. DOMAIN items' = RuleIds
  BY <1>1 DEF CatInv
<1> QED BY <1>1, <1>3, <1>5, <1>6 DEF CatInv, DeletionIsAlone, TasksKeepTheirTemplate

LEMMA DeleteRuleKeeps ==
  ASSUME CatInv, NEW r \in LiveRules, DeleteRule(r)
  PROVE  CatInv'
<1>1. /\ r \in RuleIds /\ rules' = [rules EXCEPT ![r] = Vacant]
      /\ items' = [items EXCEPT ![r] = <<>>]
      /\ given' = [e \in Departments |->
                     [i \in DOMAIN given[e] |->
                        [given[e][i] EXCEPT !.rule = IF @ = r THEN Vacant ELSE @]]]
      /\ UNCHANGED <<templates, templatesMade, rulesMade, assigning, removing, metDeletion>>
  BY DEF DeleteRule, LiveRules
<1>2. /\ rules' \in [RuleIds -> Optional(RuleRows)]
      /\ LiveRules' = LiveRules \ {r} /\ \A s \in LiveRules \ {r} : rules'[s] = rules[s]
  BY <1>1 DEF CatInv, LiveRules, Optional
<1>3. /\ DOMAIN given' = Departments
      /\ \A e \in Departments : DOMAIN given'[e] = DOMAIN given[e]
  BY <1>1
<1>4. \A e \in Departments : \A i \in DOMAIN given[e] :
        /\ IsTask(given'[e][i]) /\ given'[e][i].linked = given[e][i].linked
        /\ given'[e][i].rule = IF given[e][i].rule = r THEN Vacant ELSE given[e][i].rule
  BY <1>1, <1>3 DEF CatInv, IsTask
<1>5. /\ DOMAIN items' = RuleIds /\ DOMAIN items'[r] = {}
      /\ \A s \in RuleIds \ {r} : items'[s] = items[s]
  BY <1>1 DEF CatInv
<1>6. Listed' = Listed /\ templates' = templates
  BY <1>1 DEF Listed
<1>7. CatTypeOK'
  <2>1. \A s \in LiveRules' : rules'[s] \in RuleRows
    BY <1>2 DEF CatInv, CatTypeOK
  <2>2. /\ \A s \in RuleIds : DOMAIN items'[s] \subseteq Listed
        /\ \A s \in RuleIds \ LiveRules' : DOMAIN items'[s] = {}
    BY <1>2, <1>5 DEF CatInv, CatTypeOK
  <2>3. \A e \in Departments : \A i \in DOMAIN given'[e] :
          /\ given'[e][i].linked => i \in Listed
          /\ given'[e][i].rule \in Optional(LiveRules')
    BY <1>2, <1>3, <1>4 DEF CatInv, CatTypeOK, Optional
  <2> QED BY <1>6, <2>1, <2>2, <2>3 DEF CatInv, CatTypeOK
<1>8. TasksKeepTheirTemplate' /\ DeletionIsAlone'
  BY <1>1, <1>3, <1>4 DEF CatInv, TasksKeepTheirTemplate, DeletionIsAlone
<1> QED BY <1>1, <1>2, <1>3, <1>4, <1>5, <1>7, <1>8 DEF CatInv

LEMMA ReadAssignmentKeeps ==
  ASSUME CatInv, NEW t \in Assigners, NEW e \in Departments, ReadAssignment(t, e)
  PROVE  CatInv'
<1>1. PICK new : 
        /\ assigning' = [assigning EXCEPT ![t] =
             [employee |-> e,
              tasks |-> [i \in DOMAIN new |->
                           [rule |-> new[i].rule, due |-> new[i].due,
                            mandatory |-> new[i].mandatory, linked |-> TRUE]]]]
        /\ metDeletion' = (metDeletion \/ removing # Vacant)
        /\ UNCHANGED <<templates, templatesMade, rules, rulesMade, items, given, removing>>
  BY DEF ReadAssignment
<1>2. PICK tasks : tasks = [i \in DOMAIN new |->
                              [rule |-> new[i].rule, due |-> new[i].due,
                               mandatory |-> new[i].mandatory, linked |-> TRUE]]
  OBVIOUS
<1>3. IsAssignment([employee |-> e, tasks |-> tasks])
  BY <1>2 DEF IsAssignment, IsTask
<1>4. /\ DOMAIN assigning' = Assigners
      /\ \A u \in Assigners : assigning'[u] # Vacant => IsAssignment(assigning'[u])
  BY <1>1, <1>2, <1>3 DEF CatInv
<1>5. metDeletion' \in BOOLEAN /\ TasksKeepTheirTemplate'
  BY <1>1 DEF CatInv, TasksKeepTheirTemplate
<1>6. DeletionIsAlone'
  BY <1>1 DEF DeletionIsAlone
<1>7. CatTypeOK'
  BY <1>1 DEF CatInv, CatTypeOK, Listed, LiveRules
<1> QED BY <1>1, <1>4, <1>5, <1>6, <1>7 DEF CatInv

LEMMA CommitAssignmentKeeps ==
  ASSUME CatInv, NEW t \in Assigners, CommitAssignment(t)
  PROVE  CatInv'
<1> DEFINE a == assigning[t]
<1>1. /\ a # Vacant /\ ~ InsertRefused(a)
      /\ given' = [given EXCEPT ![a.employee] = Beside(a.tasks, @)]
      /\ assigning' = [assigning EXCEPT ![t] = Vacant]
      /\ UNCHANGED <<templates, templatesMade, rules, rulesMade, items, removing,
                     metDeletion>>
  BY DEF CommitAssignment
<1>2. PICK e \in Departments : a.employee = e
  BY <1>1 DEF CatInv, IsAssignment
<1>3. \A i \in DOMAIN a.tasks : /\ IsTask(a.tasks[i]) /\ i \in Listed
                                /\ a.tasks[i].rule \in LiveRules
  BY <1>1 DEF CatInv, IsAssignment, InsertRefused
<1>4. /\ DOMAIN given' = Departments
      /\ \A f \in Departments \ {e} : given'[f] = given[f]
      /\ DOMAIN given'[e] = DOMAIN a.tasks \cup DOMAIN given[e]
      /\ \A i \in DOMAIN given'[e] :
           given'[e][i] = IF i \in DOMAIN a.tasks THEN a.tasks[i] ELSE given[e][i]
  <2>1. /\ DOMAIN given' = Departments /\ given'[e] = Beside(a.tasks, given[e])
        /\ \A f \in Departments \ {e} : given'[f] = given[f]
    BY <1>1, <1>2 DEF CatInv
  <2> QED BY <2>1 DEF Beside
<1>5. \A f \in Departments : \A i \in DOMAIN given'[f] :
        \/ i \in DOMAIN given[f] /\ given'[f][i] = given[f][i]
        \/ /\ IsTask(given'[f][i]) /\ i \in Listed
           /\ given'[f][i].rule \in LiveRules /\ f = e /\ i \in DOMAIN a.tasks
  BY <1>2, <1>3, <1>4
<1>6. /\ DOMAIN assigning' = Assigners
      /\ \A u \in Assigners : assigning'[u] # Vacant => assigning'[u] = assigning[u]
  BY <1>1 DEF CatInv
<1>7. CatTypeOK'
  <2>1. Listed' = Listed /\ LiveRules' = LiveRules
    BY <1>1 DEF Listed, LiveRules
  <2> QED BY <1>1, <1>5, <2>1 DEF CatInv, CatTypeOK, Optional
<1>8. DeletionIsAlone'
  BY <1>1 DEF CatInv, DeletionIsAlone
<1>9. TasksKeepTheirTemplate'
  <2> SUFFICES ASSUME ~ metDeletion, NEW f \in Departments, NEW i \in DOMAIN given'[f]
               PROVE  given'[f][i].linked
    BY <1>1, <1>4 DEF TasksKeepTheirTemplate
  <2>1. CASE i \in DOMAIN given[f] /\ given'[f][i] = given[f][i]
    BY <2>1 DEF CatInv, TasksKeepTheirTemplate
  <2>2. CASE f = e /\ i \in DOMAIN a.tasks
    <3>1. given'[f][i] = a.tasks[i]
      BY <1>4, <2>2
    <3>2. a.tasks[i].linked
      BY <1>1, <2>2 DEF CatInv, IsAssignment
    <3> QED BY <3>1, <3>2
  <2> QED BY <1>5, <2>1, <2>2
<1> QED BY <1>1, <1>4, <1>5, <1>6, <1>7, <1>8, <1>9 DEF CatInv

LEMMA CatStep == CatInv /\ [CatNext]_catVars => CatInv'
<1> SUFFICES ASSUME CatInv, [CatNext]_catVars PROVE CatInv'
  OBVIOUS
<1>1. CASE UNCHANGED catVars
  <2>1. Listed' = Listed /\ LiveRules' = LiveRules
    BY <1>1 DEF Listed, LiveRules, catVars
  <2>2. CatTypeOK'
    BY <1>1, <2>1 DEF CatInv, CatTypeOK, catVars
  <2> QED BY <1>1, <2>2 DEF CatInv, DeletionIsAlone, TasksKeepTheirTemplate, catVars
<1>2. ASSUME NEW t \in Assigners, AbandonAssignment(t) PROVE CatInv'
  <2>1. /\ DOMAIN assigning' = Assigners
        /\ \A u \in Assigners : assigning'[u] # Vacant => assigning'[u] = assigning[u]
        /\ UNCHANGED <<templates, templatesMade, rules, rulesMade, items, given, removing,
                       metDeletion>>
    BY <1>2 DEF AbandonAssignment, CatInv
  <2>2. Listed' = Listed /\ LiveRules' = LiveRules
    BY <2>1 DEF Listed, LiveRules
  <2>3. CatTypeOK'
    BY <2>1, <2>2 DEF CatInv, CatTypeOK
  <2> QED BY <2>1, <2>3 DEF CatInv, DeletionIsAlone, TasksKeepTheirTemplate
<1> QED BY <1>1, <1>2, CreateTemplateKeeps, UpdateTemplateKeeps, ReadDeletionKeeps,
           CommitDeletionKeeps, CreateRuleKeeps, UpdateRuleKeeps, DeleteRuleKeeps,
           ReadAssignmentKeeps, CommitAssignmentKeeps DEF CatNext

LEMMA CatInvariance == CatSpec => []CatInv
<1>1. ASSUME CatInit PROVE CatInv
  <2>1. Listed = {} /\ LiveRules = {}
    BY <1>1 DEF CatInit, Listed, LiveRules
  <2>2. /\ templates \in [TemplateIds -> Optional(TemplateRows)]
        /\ rules \in [RuleIds -> Optional(RuleRows)]
    BY <1>1 DEF CatInit, Optional
  <2>3. /\ \A r \in RuleIds : DOMAIN items[r] = {}
        /\ \A e \in Departments : DOMAIN given[e] = {}
    BY <1>1 DEF CatInit
  <2>4. CatTypeOK
    BY <2>1, <2>3 DEF CatTypeOK
  <2>5. DeletionIsAlone /\ TasksKeepTheirTemplate
    BY <1>1, <2>3 DEF CatInit, DeletionIsAlone, TasksKeepTheirTemplate
  <2> QED BY <1>1, <2>2, <2>3, <2>4, <2>5 DEF CatInit, CatInv, Optional
<1> QED BY <1>1, CatStep, PTL DEF CatSpec

\* What a task says of its due date and its duty is what it said when it was
\* assigned: deletions take its link or its rule, a commit adds others beside it.
TasksStay ==
  \A e \in Departments : \A i \in DOMAIN given[e] :
       /\ i \in DOMAIN given'[e]
       /\ given'[e][i].due = given[e][i].due
       /\ given'[e][i].mandatory = given[e][i].mandatory

LEMMA TasksStayPut == CatInv /\ [CatNext]_catVars => [TasksStay]_catVars
<1> SUFFICES ASSUME CatInv, CatNext PROVE TasksStay
  OBVIOUS
<1> SUFFICES ASSUME NEW e \in Departments, NEW i \in DOMAIN given[e]
             PROVE  /\ i \in DOMAIN given'[e]
                    /\ given'[e][i].due = given[e][i].due
                    /\ given'[e][i].mandatory = given[e][i].mandatory
  BY DEF TasksStay
<1> DEFINE Goal == /\ i \in DOMAIN given'[e]
                   /\ given'[e][i].due = given[e][i].due
                   /\ given'[e][i].mandatory = given[e][i].mandatory
<1>1. IsTask(given[e][i]) /\ DOMAIN given = Departments
  BY DEF CatInv
<1>2. CASE CommitDeletion
  <2>1. given' = UnlinkTasks(removing)
    BY <1>2 DEF CommitDeletion
  <2>2. i \in DOMAIN given'[e]
        /\ given'[e][i] = [given[e][i] EXCEPT !.linked = @ /\ i # removing]
    BY <2>1 DEF UnlinkTasks
  <2> QED BY <1>1, <2>2 DEF IsTask
<1>3. ASSUME NEW r \in LiveRules, DeleteRule(r) PROVE Goal
  <2>1. given' = [f \in Departments |->
                    [j \in DOMAIN given[f] |->
                       [given[f][j] EXCEPT !.rule = IF @ = r THEN Vacant ELSE @]]]
    BY <1>3 DEF DeleteRule
  <2>2. i \in DOMAIN given'[e]
        /\ given'[e][i] = [given[e][i] EXCEPT !.rule = IF @ = r THEN Vacant ELSE @]
    BY <2>1
  <2> QED BY <1>1, <2>2 DEF IsTask
<1>4. ASSUME NEW t \in Assigners, CommitAssignment(t) PROVE Goal
  <2> DEFINE a == assigning[t]
  <2>1. /\ given' = [given EXCEPT ![a.employee] = Beside(a.tasks, @)]
        /\ \A j \in DOMAIN a.tasks : j \notin DOMAIN given[a.employee]
    BY <1>4 DEF CommitAssignment, InsertRefused
  <2>2. CASE a.employee # e
    BY <1>1, <2>1, <2>2
  <2>3. CASE a.employee = e
    <3>1. given'[e] = Beside(a.tasks, given[e]) /\ i \notin DOMAIN a.tasks
      BY <1>1, <2>1, <2>3
    <3>2. i \in DOMAIN given'[e] /\ given'[e][i] = given[e][i]
      BY <3>1 DEF Beside
    <3> QED BY <3>2
  <2> QED BY <2>2, <2>3
<1>5. CASE UNCHANGED given
  BY <1>5
<1> QED BY <1>2, <1>3, <1>4, <1>5
      DEF CatNext, CreateTemplate, UpdateTemplate, ReadDeletion, CreateRule, UpdateRule,
          ReadAssignment, AbandonAssignment

\* A task stays as it was assigned, whatever becomes of the templates, the rules
\* and the other assignments.
THEOREM HistoryIsNotRewritten == CatSpec => AssignedIsHistory
BY CatInvariance, TasksStayPut, PTL DEF CatSpec, AssignedIsHistory, TasksStay

(***************************************************************************)
(* The merge of the rules, by induction on the rules that have been read.  *)
(***************************************************************************)

\* What holds of 0 and is inherited by successors up to n holds up to n.
LEMMA UpToInduction ==
  ASSUME NEW n \in Nat, NEW Holds,
         0 \in Holds,
         \A i \in 1..n : i - 1 \in Holds => i \in Holds
  PROVE  \A i \in 0..n : i \in Holds
<1> DEFINE Bad == {i \in 0..n : i \notin Holds}
<1> SUFFICES ASSUME Bad # {} PROVE FALSE
  OBVIOUS
<1>1. Bad \in SUBSET Nat
  OBVIOUS
<1> HIDE DEF Bad
<1>2. PICK m \in Bad : \A k \in Bad : m <= k
  BY <1>1, LeastElement
<1>3. m \in 0..n /\ m \notin Holds
  BY DEF Bad
<1>4. m - 1 \in 0..n /\ m - 1 \notin Bad
  BY <1>1, <1>2, <1>3
<1> QED BY <1>3, <1>4 DEF Bad

\* What rule n makes of what the rules before it made of template i.
After(e, i, n, kept) ==
  IF n \notin Selecting(e, i) THEN kept
  ELSE IF kept = Vacant THEN Effective(n, i)
  ELSE Stricter(kept, Effective(n, i))

IsMerging(e, i, m, f) ==
  f = [n \in 0..m |-> IF n = 0 THEN Vacant ELSE After(e, i, n, f[n - 1])]

\* The recursion that defines Merged has a solution.
LEMMA MergingExists ==
  ASSUME NEW e, NEW i, NEW m \in Nat
  PROVE  \E f : IsMerging(e, i, m, f)
<1> DEFINE Holds == {n \in 0..m : \E f : IsMerging(e, i, n, f)}
<1>1. 0 \in Holds
  <2> DEFINE f == [n \in 0..0 |-> Vacant]
  <2>1. IsMerging(e, i, 0, f)
    <3>1. \A n \in 0..0 : n = 0
      OBVIOUS
    <3> QED BY <3>1, Zenon DEF IsMerging
  <2> QED BY <2>1
<1>2. ASSUME NEW n \in 1..m, n - 1 \in Holds
      PROVE  n \in Holds
  <2>1. PICK g : IsMerging(e, i, n - 1, g)
    BY <1>2
  <2> DEFINE f == [k \in 0..n |-> IF k = n THEN After(e, i, n, g[n - 1]) ELSE g[k]]
  <2>2. ASSUME NEW k \in 0..n
        PROVE  f[k] = IF k = 0 THEN Vacant ELSE After(e, i, k, f[k - 1])
    <3>1. CASE k = n
      <4>1. n # 0 /\ n - 1 \in 0..n /\ n - 1 # n
        OBVIOUS
      <4> QED BY <3>1, <4>1
    <3>2. CASE k # n
      <4>1. k \in 0..(n - 1)
        BY <3>2
      <4>2. g[k] = IF k = 0 THEN Vacant ELSE After(e, i, k, g[k - 1])
        BY <2>1, <4>1 DEF IsMerging
      <4>3. k # 0 => k - 1 \in 0..n /\ k - 1 # n
        BY <4>1
      <4> QED BY <3>2, <4>2, <4>3
    <3> QED BY <3>1, <3>2
  <2>3. f = [k \in 0..n |-> f[k]]
    OBVIOUS
  <2> HIDE DEF f
  <2>4. f = [k \in 0..n |-> IF k = 0 THEN Vacant ELSE After(e, i, k, f[k - 1])]
    BY <2>2, <2>3, Zenon
  <2>5. IsMerging(e, i, n, f)
    BY <2>4, Zenon DEF IsMerging
  <2> QED BY <2>5
<1>3. \A n \in 1..m : n - 1 \in Holds => n \in Holds
  BY <1>2
<1> HIDE DEF Holds
<1>4. m \in Holds
  <2>1. \A n \in 0..m : n \in Holds
    BY <1>1, <1>3, UpToInduction, Zenon
  <2> QED BY <2>1
<1> QED BY <1>4 DEF Holds

\* Merged satisfies its recursion.
LEMMA MergedEquation ==
  ASSUME NEW e, NEW i
  PROVE  /\ Merged(e, i)[0] = Vacant
         /\ \A n \in RuleIds : Merged(e, i)[n] = After(e, i, n, Merged(e, i)[n - 1])
<1> DEFINE f == Merged(e, i)
<1>1. f = CHOOSE g : IsMerging(e, i, MaxRules, g)
  BY Zenon DEF Merged, IsMerging, After
<1>2. IsMerging(e, i, MaxRules, f)
  BY <1>1, MergingExists, CatalogueBounds
<1> HIDE DEF f
<1>3. \A n \in 0..MaxRules : f[n] = IF n = 0 THEN Vacant ELSE After(e, i, n, f[n - 1])
  BY <1>2 DEF IsMerging
<1>4. f[0] = Vacant /\ \A n \in RuleIds : f[n] = After(e, i, n, f[n - 1])
  BY <1>3, CatalogueBounds DEF RuleIds
<1> QED BY <1>4 DEF f

\* k is what the rules in S say of template i, in whatever order they say it.
Says(k, S, i) ==
  /\ S = {} => k = Vacant
  /\ S # {} =>
       /\ k \in ResolvedItems
       /\ \A r \in S : k.rule <= r
       /\ k.mandatory <=> \E r \in S : Effective(r, i).mandatory
       /\ k.due = Vacant => \A r \in S : Effective(r, i).due = Vacant
       /\ k.due # Vacant => /\ \E r \in S : Effective(r, i).due = k.due
                            /\ \A r \in S : Effective(r, i).due # Vacant =>
                                              k.due <= Effective(r, i).due

\* One more rule, later than the others.
LEMMA OneRuleMore ==
  ASSUME NEW i, NEW k, NEW S \in SUBSET RuleIds, NEW n \in RuleIds, Says(k, S, i),
         \A r \in S : r < n, \A r \in S \cup {n} : Effective(r, i) \in ResolvedItems
  PROVE  /\ k = Vacant => Says(Effective(n, i), S \cup {n}, i)
         /\ k # Vacant => Says(Stricter(k, Effective(n, i)), S \cup {n}, i)
<1> DEFINE x == Effective(n, i)
<1>0. x \in ResolvedItems /\ x.rule = n
  BY DEF Effective
<1>a. \A r \in S : Effective(r, i) \in ResolvedItems
  OBVIOUS
<1>1. ASSUME k = Vacant PROVE Says(x, S \cup {n}, i)
  <2>1. S = {}
    BY <1>1, VacantIsNoRow DEF Says
  <2>2. S \cup {n} = {n} /\ n <= n
    BY <2>1 DEF RuleIds
  <2>3. x.due # Vacant => x.due <= x.due
    <3>1. x.due \in Optional(DueDays)
      BY <1>0 DEF ResolvedItems
    <3>2. \A d \in DueDays : d <= d
      BY CatalogueBounds
    <3> HIDE DEF x
    <3> QED BY <3>1, <3>2 DEF Optional
  <2>4. x = Effective(n, i)
    OBVIOUS
  <2>5. x.mandatory <=> \E r \in {n} : Effective(r, i).mandatory
    OBVIOUS
  <2> HIDE DEF x
  <2> QED BY <1>0, <2>2, <2>3, <2>4, <2>5 DEF Says
<1>2. ASSUME k # Vacant PROVE Says(Stricter(k, x), S \cup {n}, i)
  <2>1. S # {} /\ k \in ResolvedItems
    BY <1>2 DEF Says
  <2> DEFINE y == Stricter(k, x)
             replaces == x.due # Vacant /\ (k.due = Vacant \/ x.due < k.due)
  <2>2. /\ y.rule = k.rule /\ y.due = (IF replaces THEN x.due ELSE k.due)
        /\ y.mandatory = (k.mandatory \/ x.mandatory) /\ y \in ResolvedItems
    BY <1>0, <2>1 DEF Stricter, ResolvedItems, Optional
  <2>3. \A r \in S \cup {n} : k.rule <= r
    <3>1. k.rule \in Int /\ \A r \in S \cup {n} : r \in Int
      BY <2>1 DEF ResolvedItems, RuleIds
    <3>2. PICK r \in S : k.rule <= r /\ r < n
      BY <2>1 DEF Says
    <3>3. k.rule <= n
      BY <3>1, <3>2
    <3> QED BY <2>1, <3>3 DEF Says
  <2>4. (k.mandatory \/ x.mandatory) <=> \E r \in S \cup {n} : Effective(r, i).mandatory
    <3>1. k.mandatory <=> \E r \in S : Effective(r, i).mandatory
      BY <2>1 DEF Says
    <3> HIDE DEF x
    <3>2. x = Effective(n, i)
      BY DEF x
    <3> QED BY <3>1, <3>2
  <2>5. /\ x.due \in Optional(DueDays) /\ k.due \in Optional(DueDays)
        /\ DueDays \subseteq Nat /\ Vacant \notin Nat
    BY <1>0, <2>1, CatalogueBounds DEF ResolvedItems
  <2>6. y.due = Vacant => \A r \in S \cup {n} : Effective(r, i).due = Vacant
    BY <2>1, <2>2 DEF Says
  <2>7. ASSUME y.due # Vacant
        PROVE  \E r \in S \cup {n} : Effective(r, i).due = y.due
    BY <2>1, <2>2, <2>7 DEF Says
  <2>8. ASSUME NEW r \in S \cup {n}, Effective(r, i).due # Vacant
        PROVE  y.due <= Effective(r, i).due
    <3> HIDE DEF y
    <3>1. CASE r = n
      <4>1. x.due # Vacant /\ x.due \in Nat
        BY <2>5, <2>8, <3>1 DEF Optional
      <4>2. k.due = Vacant \/ k.due \in Nat
        BY <2>5 DEF Optional
      <4> HIDE DEF x
      <4>3. y.due <= x.due
        BY <2>2, <4>1, <4>2
      <4> QED BY <3>1, <4>3 DEF x
    <3>2. CASE r \in S
      <4>1. k.due # Vacant /\ k.due <= Effective(r, i).due
        BY <2>1, <2>8, <3>2 DEF Says
      <4>2. PICK s \in S : Effective(s, i).due = k.due
        BY <2>1, <4>1 DEF Says
      <4>3. k.due \in Nat /\ (x.due = Vacant \/ x.due \in Nat)
        BY <2>5, <4>1 DEF Optional
      <4> DEFINE d == Effective(r, i).due
      <4>4. d \in Optional(DueDays)
        BY <3>2, <1>a DEF ResolvedItems
      <4>5. d \in Nat /\ k.due <= d
        BY <2>5, <2>8, <4>1, <4>4 DEF Optional
      <4> HIDE DEF d, x
      <4>6. y.due <= d
        BY <2>2, <4>1, <4>3, <4>5
      <4> QED BY <4>6 DEF d
    <3> QED BY <3>1, <3>2
  <2>9. y = Stricter(k, x)
    OBVIOUS
  <2> DEFINE T == S \cup {n}
  <2>a. T # {} /\ T = S \cup {n}
    OBVIOUS
  <2> HIDE DEF y, x, T
  <2>b. /\ \A r \in T : y.rule <= r
        /\ y.mandatory <=> \E r \in T : Effective(r, i).mandatory
    BY <2>2, <2>3, <2>4, <2>a
  <2>c. Says(y, T, i)
    BY <2>2, <2>6, <2>7, <2>8, <2>a, <2>b DEF Says
  <2> QED BY <2>9, <2>a, <2>c
<1> QED BY <1>1, <1>2

\* Rows and overrides have the types of their columns.
ItemsTyped ==
  \A r \in RuleIds : \A i \in DOMAIN items[r] :
    items[r][i] \in [due : Optional(DueDays), mandatory : Optional(BOOLEAN)]

LEMMA EffectiveIsResolved ==
  ASSUME CatInv, ItemsTyped, NEW e \in Departments, NEW i, NEW r \in Selecting(e, i)
  PROVE  r \in RuleIds /\ i \in Listed /\ Effective(r, i) \in ResolvedItems
<1>1. r \in LiveRules /\ r \in RuleIds /\ i \in DOMAIN items[r]
  BY DEF Selecting, Matched, LiveRules
<1>2. i \in Listed /\ templates[i] \in TemplateRows
  BY <1>1 DEF CatInv, CatTypeOK
<1>3. items[r][i] \in [due : Optional(DueDays), mandatory : Optional(BOOLEAN)]
  BY <1>1 DEF ItemsTyped
<1>4. /\ templates[i].due \in Optional(DueDays) /\ templates[i].mandatory \in BOOLEAN
      /\ items[r][i].due \in Optional(DueDays) /\ items[r][i].mandatory \in Optional(BOOLEAN)
  BY <1>2, <1>3 DEF TemplateRows
<1>5. items[r][i].mandatory # Vacant => items[r][i].mandatory \in BOOLEAN
  BY <1>4 DEF Optional
<1> QED BY <1>1, <1>2, <1>4, <1>5 DEF Effective, ResolvedItems

LEMMA MergedSays ==
  ASSUME CatInv, ItemsTyped, NEW e \in Departments, NEW i
  PROVE  Says(Merged(e, i)[MaxRules], Selecting(e, i), i)
<1> DEFINE UpTo(n) == {r \in Selecting(e, i) : r <= n}
           K == Merged(e, i)
<1>1. K[0] = Vacant /\ \A n \in RuleIds : K[n] = After(e, i, n, K[n - 1])
  BY MergedEquation
<1> HIDE DEF K
<1>2. Selecting(e, i) \subseteq RuleIds /\ \A r \in Selecting(e, i) : Effective(r, i) \in ResolvedItems
  BY EffectiveIsResolved
<1> DEFINE Holds == {n \in 0..MaxRules : Says(K[n], UpTo(n), i)}
<1>3. 0 \in Holds
  <2>1. UpTo(0) = {}
    BY <1>2 DEF RuleIds
  <2> QED BY <1>1, <2>1, CatalogueBounds DEF Says
<1>4. ASSUME NEW n \in 1..MaxRules, n - 1 \in Holds
      PROVE  n \in Holds
  <2>1. n \in RuleIds /\ K[n] = After(e, i, n, K[n - 1]) /\ Says(K[n - 1], UpTo(n - 1), i)
    BY <1>1, <1>4 DEF RuleIds
  <2>2. CASE n \notin Selecting(e, i)
    <3>1. UpTo(n) = UpTo(n - 1)
      BY <1>2, <2>2 DEF RuleIds
    <3> QED BY <2>1, <2>2, <3>1 DEF After
  <2>3. CASE n \in Selecting(e, i)
    <3>1. UpTo(n) = UpTo(n - 1) \cup {n} /\ UpTo(n - 1) \in SUBSET RuleIds
      BY <1>2, <2>3 DEF RuleIds
    <3>2. \A r \in UpTo(n - 1) : r < n
      BY <1>2 DEF RuleIds
    <3>3. \A r \in UpTo(n - 1) \cup {n} : Effective(r, i) \in ResolvedItems
      BY <1>2, <2>3
    <3> HIDE DEF UpTo
    <3>4. /\ K[n - 1] = Vacant => Says(Effective(n, i), UpTo(n), i)
          /\ K[n - 1] # Vacant => Says(Stricter(K[n - 1], Effective(n, i)), UpTo(n), i)
      BY <2>1, <3>1, <3>2, <3>3, OneRuleMore
    <3> QED BY <2>1, <2>3, <3>4 DEF After
  <2> QED BY <2>2, <2>3
<1>5. \A n \in 1..MaxRules : n - 1 \in Holds => n \in Holds
  BY <1>4
<1> HIDE DEF Holds
<1>6. MaxRules \in Holds
  <2>1. \A n \in 0..MaxRules : n \in Holds
    BY <1>3, <1>5, UpToInduction, CatalogueBounds, Zenon
  <2> QED BY <2>1, CatalogueBounds
<1>7. UpTo(MaxRules) = Selecting(e, i)
  BY <1>2, CatalogueBounds DEF RuleIds
<1> QED BY <1>6, <1>7 DEF Holds, K

\* The overrides keep the types of their columns: they come from payloads.
LEMMA ItemsKeepTypes == CatInv /\ ItemsTyped /\ [CatNext]_catVars => ItemsTyped'
<1> SUFFICES ASSUME CatInv, ItemsTyped, [CatNext]_catVars PROVE ItemsTyped'
  OBVIOUS
<1> DEFINE Overrides == [due : Optional(DueDays), mandatory : Optional(BOOLEAN)]
<1>1. \A list \in ItemLists : \A i \in DOMAIN list : list[i] \in Overrides
  BY DEF ItemLists
<1>2. DOMAIN items = RuleIds /\ \A r \in RuleIds : \A i \in DOMAIN items[r] : items[r][i] \in Overrides
  BY DEF CatInv, ItemsTyped
<1> HIDE DEF Overrides
<1>3. CASE CommitDeletion
  <2>1. items' = [r \in RuleIds |-> Without(items[r], {removing})]
    BY <1>3 DEF CommitDeletion
  <2>2. ASSUME NEW r \in RuleIds, NEW i \in DOMAIN items'[r] PROVE items'[r][i] \in Overrides
    <3>1. i \in DOMAIN items[r] /\ items'[r][i] = items[r][i]
      BY <2>1, <2>2 DEF Without
    <3> QED BY <1>2, <3>1
  <2> QED BY <2>2 DEF ItemsTyped, Overrides
<1>4. ASSUME NEW r \in RuleIds, NEW list, items' = [items EXCEPT ![r] = list],
             \A i \in DOMAIN list : list[i] \in Overrides
      PROVE  ItemsTyped'
  <2>1. ASSUME NEW s \in RuleIds, NEW i \in DOMAIN items'[s] PROVE items'[s][i] \in Overrides
    BY <1>2, <1>4, <2>1
  <2> QED BY <2>1 DEF ItemsTyped, Overrides
<1>5. ASSUME NEW d \in Optional(Departments), NEW list \in ItemLists, CreateRule(d, list)
      PROVE  ItemsTyped'
  <2>1. rulesMade' \in RuleIds /\ items' = [items EXCEPT ![rulesMade'] = list]
    BY <1>5, CatalogueBounds DEF CreateRule, RuleIds, CatInv
  <2> QED BY <1>1, <1>4, <2>1
<1>6. ASSUME NEW r \in LiveRules, NEW d \in Optional(Departments), NEW a \in BOOLEAN,
             NEW list \in ItemLists \cup {items[r]}, UpdateRule(r, d, a, list)
      PROVE  ItemsTyped'
  <2>1. r \in RuleIds /\ items' = [items EXCEPT ![r] = list]
    BY <1>6 DEF UpdateRule, LiveRules
  <2>2. \A i \in DOMAIN list : list[i] \in Overrides
    BY <1>1, <1>2, <2>1
  <2> QED BY <1>4, <2>1, <2>2
<1>7. ASSUME NEW r \in LiveRules, DeleteRule(r)
      PROVE  ItemsTyped'
  <2>1. r \in RuleIds /\ items' = [items EXCEPT ![r] = <<>>]
    BY <1>7 DEF DeleteRule, LiveRules
  <2>2. \A i \in DOMAIN <<>> : <<>>[i] \in Overrides
    OBVIOUS
  <2> QED BY <1>4, <2>1, <2>2
<1>8. CASE UNCHANGED items
  BY <1>8 DEF ItemsTyped
<1> QED BY <1>3, <1>5, <1>6, <1>7, <1>8
      DEF CatNext, CreateTemplate, UpdateTemplate, ReadDeletion, ReadAssignment,
          CommitAssignment, AbandonAssignment, catVars

LEMMA MergeIsStrictest == CatInv /\ ItemsTyped => StrictestWins
<1> SUFFICES ASSUME CatInv, ItemsTyped, NEW e \in Departments, NEW i \in TemplateIds
             PROVE  LET says == {Effective(r, i) : r \in Selecting(e, i)}
                        dues == {x.due : x \in says} \ {Vacant}
                    IN  /\ i \in DOMAIN Resolved(e) <=> says # {}
                        /\ says # {} =>
                             /\ \A x \in says : Resolved(e)[i].rule <= x.rule
                             /\ Resolved(e)[i].mandatory = (\E x \in says : x.mandatory)
                             /\ IF dues = {} THEN Resolved(e)[i].due = Vacant
                                ELSE Resolved(e)[i].due \in dues /\ \A d \in dues : Resolved(e)[i].due <= d
  BY Zenon DEF StrictestWins
<1> DEFINE S == Selecting(e, i)
           says == {Effective(r, i) : r \in S}
           dues == {x.due : x \in says} \ {Vacant}
           k == Merged(e, i)[MaxRules]
<1>1. Says(k, S, i)
  BY MergedSays
<1>2. S # {} => i \in Listed
  BY EffectiveIsResolved
<1>3. /\ i \in DOMAIN Resolved(e) <=> S # {}
      /\ S # {} => Resolved(e)[i] = k
  BY <1>2 DEF Resolved
<1> HIDE DEF S, k
<1>4. says # {} <=> S # {}
  OBVIOUS
<1>5. ASSUME S # {}
      PROVE  /\ \A x \in says : k.rule <= x.rule
             /\ k.mandatory = (\E x \in says : x.mandatory)
             /\ dues = {} => k.due = Vacant
             /\ dues # {} => k.due \in dues /\ \A d \in dues : k.due <= d
  <2>1. \A r \in S : Effective(r, i).rule = r
    BY DEF Effective
  <2>2. \A x \in says : k.rule <= x.rule
    BY <1>1, <1>5, <2>1 DEF Says
  <2>3. k.mandatory = (\E x \in says : x.mandatory)
    <3>1. k.mandatory \in BOOLEAN
      BY <1>1, <1>5 DEF Says, ResolvedItems
    <3>2. k.mandatory <=> \E x \in says : x.mandatory
      BY <1>1, <1>5 DEF Says
    <3> QED BY <3>1, <3>2
  <2>4. dues = {} => k.due = Vacant
    BY <1>1, <1>5 DEF Says
  <2>5. ASSUME NEW d \in dues
        PROVE  k.due \in dues /\ k.due <= d
    <3>1. PICK r \in S : Effective(r, i).due = d /\ d # Vacant
      OBVIOUS
    <3>2. k.due # Vacant
      BY <1>1, <1>5, <3>1 DEF Says
    <3> QED BY <1>1, <1>5, <3>1, <3>2 DEF Says
  <2> QED BY <2>2, <2>3, <2>4, <2>5
<1> HIDE DEF says, dues
<1>6. /\ i \in DOMAIN Resolved(e) <=> says # {}
      /\ says # {} =>
           /\ \A x \in says : Resolved(e)[i].rule <= x.rule
           /\ Resolved(e)[i].mandatory = (\E x \in says : x.mandatory)
           /\ IF dues = {} THEN Resolved(e)[i].due = Vacant
              ELSE Resolved(e)[i].due \in dues /\ \A d \in dues : Resolved(e)[i].due <= d
  BY <1>3, <1>4, <1>5
<1> QED BY <1>6 DEF says, dues, S

\* An employee gets the union of the matching rules: for each template the
\* earliest due date and mandatory if one rule says so, in whatever order the
\* rules are merged.
THEOREM MergeKeepsTheStrictest == CatSpec => []StrictestWins
<1>1. CatInit => ItemsTyped
  BY DEF CatInit, ItemsTyped
<1>2. CatSpec => []ItemsTyped
  BY <1>1, CatInvariance, ItemsKeepTypes, PTL DEF CatSpec
<1> QED BY <1>2, CatInvariance, MergeIsStrictest, PTL

-----------------------------------------------------------------------------
(***************************************************************************)
(* The holiday calendar.                                                   *)
(***************************************************************************)

HolFields == {"date", "name", "active"}

\* What a transaction has in hand: an edit of a row, or the whole of a new one.
EditsAreWritable ==
  \A h \in Editors : Busy(h) =>
    LET w == edit[h].writes
    IN  /\ edit[h].row \in Ids /\ DOMAIN w \subseteq HolFields
        /\ "date" \in DOMAIN w => w["date"] \in Dates
        /\ "name" \in DOMAIN w => w["name"] \in Names
        /\ "active" \in DOMAIN w => w["active"] \in BOOLEAN
        /\ edit[h].row \notin Rows => w \in HolidayRows

\* Of two open transactions each has been told of the other's row.
EditsKnowEachOther ==
  \A h, k \in Editors : Busy(h) /\ Busy(k) /\ h # k => edit[k].row \in edit[h].among

Shadows(x, y) == x.date = y.date /\ SameName(x.name, y.name)

\* The check a transaction has made still stands for every row that none of the
\* transactions it has met had in hand, unless its own row is in another's hands.
ChecksStand ==
  \A h \in Editors, j \in Rows :
    Busy(h) /\ j # edit[h].row /\ Shadows(Written(h), holidays[j]) =>
      \/ j \in edit[h].among
      \/ edit[h].row \in edit[h].among
      \/ SUBSET {edit[h].row, j} \cap overlapped # {}

HolInv ==
  /\ holidays \in [Ids -> HolidayRows \cup {Blank}] /\ DOMAIN edit = Editors
  /\ HolTypeOK /\ NamesAreNotShadowed
  /\ EditsAreWritable /\ EditsKnowEachOther /\ ChecksStand

\* What becomes of a row when a transaction writes to it.
Result(row, writes) ==
  IF row \in Rows
  THEN [f \in HolFields |-> IF f \in DOMAIN writes THEN writes[f] ELSE holidays[row][f]]
  ELSE writes

Writable(row, writes) ==
  /\ row \in Ids /\ DOMAIN writes \subseteq HolFields
  /\ "date" \in DOMAIN writes => writes["date"] \in Dates
  /\ "name" \in DOMAIN writes => writes["name"] \in Names
  /\ "active" \in DOMAIN writes => writes["active"] \in BOOLEAN
  /\ row \notin Rows => writes \in HolidayRows

LEMMA ResultIsARow ==
  ASSUME HolInv, NEW row, NEW writes, Writable(row, writes)
  PROVE  Result(row, writes) \in HolidayRows
<1>1. CASE row \notin Rows
  BY <1>1 DEF Result, Writable
<1>2. CASE row \in Rows
  <2> DEFINE x == holidays[row]
             y == [f \in HolFields |-> IF f \in DOMAIN writes THEN writes[f] ELSE x[f]]
  <2>1. x \in HolidayRows
    BY <1>2 DEF HolInv, HolTypeOK
  <2>2. x.date \in Dates /\ x.name \in Names /\ x.active \in BOOLEAN
    BY <2>1 DEF HolidayRows
  <2>3. y = [date |-> y["date"], name |-> y["name"], active |-> y["active"]]
    BY DEF HolFields
  <2>4. y["date"] \in Dates /\ y["name"] \in Names /\ y["active"] \in BOOLEAN
    BY <2>2 DEF Writable, HolFields
  <2>5. y \in HolidayRows
    BY <2>3, <2>4 DEF HolidayRows
  <2> QED BY <1>2, <2>5 DEF Result
<1> QED BY <1>1, <1>2

LEMMA WrittenIsResult ==
  ASSUME NEW h
  PROVE  Written(h) = Result(edit[h].row, edit[h].writes)
BY DEF Written, Result, HolFields

\* A transaction that begins after a check that found nothing.
LEMMA BeginKeeps ==
  ASSUME HolInv, NEW h \in Editors, NEW row, NEW writes, ~ Busy(h),
         Writable(row, writes), Begin(h, row, writes), UNCHANGED <<holidays, overlapped>>,
         \A j \in Rows \ {row} : Shadows(Result(row, writes), holidays[j]) =>
                                   SUBSET {row, j} \cap overlapped # {}
  PROVE  HolInv'
<1>1. /\ DOMAIN edit' = Editors
      /\ Busy(h)' => /\ edit'[h].row = row /\ edit'[h].writes = writes
                     /\ \A k \in Editors : Busy(k) => edit[k].row \in edit'[h].among
  BY DEF Begin, Busy
<1>2. \A k \in Editors \ {h} :
        /\ Busy(k)' => /\ Busy(k) /\ edit'[k].row = edit[k].row
                       /\ edit'[k].writes = edit[k].writes
                       /\ edit'[k].among = edit[k].among \cup {row}
  <2> SUFFICES ASSUME NEW k \in Editors \ {h}, Busy(k)'
               PROVE /\ Busy(k) /\ edit'[k].row = edit[k].row
                     /\ edit'[k].writes = edit[k].writes
                     /\ edit'[k].among = edit[k].among \cup {row}
    OBVIOUS
  <2>1. Busy(k) /\ edit'[k] = [edit[k] EXCEPT !.among = @ \cup {row}]
    BY DEF Begin, Busy
  <2> QED BY <2>1
<1>3. Rows' = Rows /\ HolTypeOK' /\ NamesAreNotShadowed' /\ holidays' = holidays
  <2>1. HolTypeOK'
    <3> SUFFICES ASSUME NEW k \in Editors, Busy(k)'
                 PROVE  DOMAIN edit'[k].writes \subseteq HolFields
      BY DEF HolInv, HolTypeOK, Rows, HolFields
    <3> QED BY <1>1, <1>2 DEF Writable, HolInv, HolTypeOK, HolFields
  <2> QED BY <2>1 DEF HolInv, NamesAreNotShadowed, Rows
<1>4. EditsAreWritable'
  <2> SUFFICES ASSUME NEW k \in Editors, Busy(k)'
               PROVE  Writable(edit'[k].row, edit'[k].writes)
    BY <1>3 DEF EditsAreWritable, Writable
  <2>1. CASE k = h
    BY <1>1, <2>1
  <2>2. CASE k # h
    BY <1>2, <2>2 DEF HolInv, EditsAreWritable, Writable
  <2> QED BY <2>1, <2>2
<1>5. EditsKnowEachOther'
  <2> SUFFICES ASSUME NEW k \in Editors, NEW l \in Editors, Busy(k)', Busy(l)', k # l
               PROVE  edit'[l].row \in edit'[k].among
    BY DEF EditsKnowEachOther
  <2>1. CASE k = h
    BY <1>1, <1>2, <2>1
  <2>2. CASE l = h
    BY <1>1, <1>2, <2>2
  <2>3. CASE k # h /\ l # h
    BY <1>2, <2>3 DEF HolInv, EditsKnowEachOther
  <2> QED BY <2>1, <2>2, <2>3
<1>6. ChecksStand'
  <2> SUFFICES ASSUME NEW k \in Editors, NEW j \in Rows, Busy(k)', j # edit'[k].row,
                      Shadows(Result(edit'[k].row, edit'[k].writes), holidays[j])
               PROVE  \/ j \in edit'[k].among
                      \/ edit'[k].row \in edit'[k].among
                      \/ SUBSET {edit'[k].row, j} \cap overlapped # {}
    BY <1>3 DEF ChecksStand, Written, Result, HolFields
  <2>1. CASE k = h
    BY <1>1, <2>1
  <2>2. CASE k # h
    <3>1. Shadows(Written(k), holidays[j]) /\ Busy(k) /\ j # edit[k].row
      BY <1>2, <2>2, WrittenIsResult
    <3> QED BY <1>2, <2>2, <3>1 DEF HolInv, ChecksStand
  <2> QED BY <2>1, <2>2
<1> QED BY <1>1, <1>3, <1>4, <1>5, <1>6 DEF HolInv

LEMMA ReadAddKeeps ==
  ASSUME HolInv, NEW h \in Editors, NEW d \in Dates, NEW n \in Names, ReadAdd(h, d, n)
  PROVE  HolInv'
<1> DEFINE w == [date |-> d, name |-> n, active |-> TRUE]
<1>1. PICK i \in FreeId : Begin(h, i, w)
  BY DEF ReadAdd
<1>2. i \in Ids /\ i \notin Rows /\ w \in HolidayRows
  BY DEF FreeId, HolidayRows
<1>3. Writable(i, w)
  BY <1>2 DEF Writable, HolFields
<1>4. ~ Busy(h) /\ ~ Clash(d, n, {}) /\ UNCHANGED <<holidays, overlapped>>
  BY DEF ReadAdd
<1>5. Result(i, w) = w
  BY <1>2 DEF Result
<1>6. \A j \in Rows \ {i} : ~ Shadows(w, holidays[j])
  BY <1>4 DEF Clash, Shadows, SameName
<1> HIDE DEF w
<1> QED BY <1>1, <1>3, <1>4, <1>5, <1>6, BeginKeeps

LEMMA ReadUpdateKeeps ==
  ASSUME HolInv, NEW h \in Editors, NEW i \in Ids, NEW c \in Payloads, ReadUpdate(h, i, c)
  PROVE  HolInv'
<1> DEFINE Value(f) == IF f \in DOMAIN c THEN c[f] ELSE holidays[i][f]
           differing == {f \in DOMAIN c : c[f] # holidays[i][f]}
           w == [f \in differing |-> c[f]]
<1>1. /\ ~ Busy(h) /\ i \in Rows /\ Begin(h, i, w)
      /\ {"date", "name"} \cap DOMAIN c # {} => ~ Clash(Value("date"), Value("name"), {i})
      /\ UNCHANGED <<holidays, overlapped>>
  BY DEF ReadUpdate
<1>2. /\ DOMAIN c \subseteq HolFields
      /\ "date" \in DOMAIN c => c["date"] \in Dates
      /\ "name" \in DOMAIN c => c["name"] \in Names
      /\ "active" \in DOMAIN c => c["active"] \in BOOLEAN
  BY DEF Payloads, HolFields
<1>3. Writable(i, w)
  BY <1>1, <1>2 DEF Writable
<1>4. /\ Result(i, w).date = Value("date") /\ Result(i, w).name = Value("name")
  BY <1>1, <1>2 DEF Result, HolFields
<1> HIDE DEF w
<1>5. ASSUME NEW j \in Rows \ {i}, Shadows(Result(i, w), holidays[j])
      PROVE  SUBSET {i, j} \cap overlapped # {}
  <2>1. CASE {"date", "name"} \cap DOMAIN c # {}
    BY <1>1, <1>4, <1>5, <2>1 DEF Clash, Shadows, SameName
  <2>2. CASE {"date", "name"} \cap DOMAIN c = {}
    <3>1. Value("date") = holidays[i].date /\ Value("name") = holidays[i].name
      BY <2>2
    <3> HIDE DEF Value
    <3> QED BY <1>1, <1>4, <1>5, <3>1 DEF Shadows, HolInv, NamesAreNotShadowed
  <2> QED BY <2>1, <2>2
<1> QED BY <1>1, <1>3, <1>5, BeginKeeps

LEMMA ReadRemovalKeeps ==
  ASSUME HolInv, NEW h \in Editors, NEW i \in Ids, ReadRemoval(h, i)
  PROVE  HolInv'
<1> DEFINE w == [active |-> FALSE]
<1>1. ~ Busy(h) /\ i \in Rows /\ Begin(h, i, w) /\ UNCHANGED <<holidays, overlapped>>
  BY DEF ReadRemoval
<1>2. Writable(i, w)
  BY <1>1 DEF Writable, HolFields
<1>3. Result(i, w).date = holidays[i].date /\ Result(i, w).name = holidays[i].name
  BY <1>1 DEF Result, HolFields
<1> HIDE DEF w
<1>4. ASSUME NEW j \in Rows \ {i}, Shadows(Result(i, w), holidays[j])
      PROVE  SUBSET {i, j} \cap overlapped # {}
  BY <1>1, <1>3, <1>4 DEF Shadows, HolInv, NamesAreNotShadowed
<1> QED BY <1>1, <1>2, <1>4, BeginKeeps

\* What the transaction was not told of, its check had seen; what it was told of
\* it now declares as overlapped.
LEMMA CommitHolidayKeeps ==
  ASSUME HolInv, NEW h \in Editors, CommitHoliday(h)
  PROVE  HolInv'
<1> DEFINE r == edit[h].row
           x == Written(h)
<1>1. /\ Busy(h) /\ ~ Duplicate(x.date, x.name, {r})
      /\ holidays' = [holidays EXCEPT ![r] = x]
      /\ overlapped' = overlapped \cup {{r, i} : i \in edit[h].among}
      /\ edit' = [edit EXCEPT ![h] = Blank]
  BY DEF CommitHoliday
<1>2. r \in Ids /\ Writable(r, edit[h].writes)
  BY <1>1 DEF HolInv, EditsAreWritable, Writable
<1>3. x \in HolidayRows /\ x # Blank
  BY <1>2, ResultIsARow, WrittenIsResult, BlankIsNoRow
<1> HIDE DEF x
<1>4. /\ Rows' = Rows \cup {r} /\ holidays'[r] = x
      /\ \A i \in Rows \ {r} : holidays'[i] = holidays[i]
  BY <1>1, <1>2, <1>3 DEF HolInv, Rows
<1>5. /\ holidays' \in [Ids -> HolidayRows \cup {Blank}] /\ DOMAIN edit' = Editors
      /\ \A k \in Editors : Busy(k)' => Busy(k) /\ k # h /\ edit'[k] = edit[k]
  BY <1>1, <1>2, <1>3 DEF HolInv, Busy
<1>6. HolTypeOK'
  <2>1. \A i \in Rows' : holidays'[i] \in HolidayRows
    BY <1>3, <1>4 DEF HolInv, HolTypeOK
  <2>2. ASSUME NEW i \in Rows', NEW j \in Rows', holidays'[i].date = holidays'[j].date,
               holidays'[i].name = holidays'[j].name, i # j
        PROVE  FALSE
    <3>1. CASE i # r /\ j # r
      BY <1>4, <2>2, <3>1 DEF HolInv, HolTypeOK
    <3>2. CASE i = r
      BY <1>1, <1>4, <2>2, <3>2 DEF Duplicate
    <3>3. CASE j = r
      BY <1>1, <1>4, <2>2, <3>3 DEF Duplicate
    <3> QED BY <3>1, <3>2, <3>3
  <2>3. \A k \in Editors : Busy(k)' => DOMAIN edit'[k].writes \subseteq HolFields
    BY <1>5 DEF HolInv, HolTypeOK, HolFields
  <2> QED BY <2>1, <2>2, <2>3 DEF HolTypeOK, HolFields
<1>7. \A j \in Rows \ {r} : Shadows(x, holidays[j]) => SUBSET {r, j} \cap overlapped' # {}
  <2> SUFFICES ASSUME NEW j \in Rows \ {r}, Shadows(x, holidays[j])
               PROVE  SUBSET {r, j} \cap overlapped' # {}
    OBVIOUS
  <2>1. CASE j \in edit[h].among
    <3>1. {r, j} \in overlapped' /\ {r, j} \in SUBSET {r, j}
      BY <1>1, <2>1
    <3> QED BY <3>1
  <2>2. CASE r \in edit[h].among
    <3>1. {r, r} \in overlapped' /\ {r, r} \in SUBSET {r, j}
      BY <1>1, <2>2
    <3> QED BY <3>1
  <2>3. CASE SUBSET {r, j} \cap overlapped # {}
    BY <1>1, <2>3
  <2> QED BY <1>1, <2>1, <2>2, <2>3 DEF HolInv, ChecksStand, x
<1>8. NamesAreNotShadowed'
  <2> SUFFICES ASSUME NEW i \in Rows', NEW j \in Rows', i # j,
                      Shadows(holidays'[i], holidays'[j])
               PROVE  SUBSET {i, j} \cap overlapped' # {}
    BY DEF NamesAreNotShadowed, Shadows
  <2>1. CASE i # r /\ j # r
    <3>1. SUBSET {i, j} \cap overlapped # {}
      BY <1>4, <2>1 DEF HolInv, NamesAreNotShadowed, Shadows
    <3> QED BY <1>1, <3>1
  <2>2. CASE i = r
    BY <1>4, <1>7, <2>2
  <2>3. CASE j = r
    <3>1. i \in Rows \ {r} /\ Shadows(x, holidays[i])
      BY <1>4, <2>3 DEF Shadows, SameName
    <3>2. {r, i} = {i, j}
      BY <2>3
    <3> QED BY <1>7, <3>1, <3>2
  <2> QED BY <2>1, <2>2, <2>3
<1>9. EditsAreWritable'
  <2> SUFFICES ASSUME NEW k \in Editors, Busy(k)'
               PROVE  Writable(edit[k].row, edit[k].writes)'
    BY DEF EditsAreWritable, Writable
  <2>1. Writable(edit[k].row, edit[k].writes) /\ edit'[k] = edit[k]
    BY <1>5 DEF HolInv, EditsAreWritable, Writable
  <2> QED BY <1>4, <2>1 DEF Writable
<1>10. EditsKnowEachOther'
  BY <1>5 DEF HolInv, EditsKnowEachOther
<1>11. ChecksStand'
  <2> SUFFICES ASSUME NEW k \in Editors, NEW j \in Rows', Busy(k)', j # edit'[k].row,
                      Shadows(Written(k)', holidays'[j])
               PROVE  \/ j \in edit'[k].among
                      \/ edit'[k].row \in edit'[k].among
                      \/ SUBSET {edit'[k].row, j} \cap overlapped' # {}
    BY DEF ChecksStand
  <2>1. Busy(k) /\ k # h /\ edit'[k] = edit[k] /\ r \in edit[k].among
    BY <1>1, <1>5 DEF HolInv, EditsKnowEachOther
  <2>2. CASE j = r \/ edit[k].row = r
    BY <2>1, <2>2
  <2>3. CASE j # r /\ edit[k].row # r
    <3>1. j \in Rows /\ holidays'[j] = holidays[j]
      BY <1>4, <2>3
    <3>2. Written(k)' = Written(k)
      BY <1>4, <2>1, <2>3 DEF Written
    <3>3. SUBSET {edit[k].row, j} \cap overlapped # {}
             => SUBSET {edit[k].row, j} \cap overlapped' # {}
      BY <1>1
    <3> QED BY <2>1, <3>1, <3>2, <3>3 DEF HolInv, ChecksStand
  <2> QED BY <2>2, <2>3
<1> QED BY <1>5, <1>6, <1>8, <1>9, <1>10, <1>11 DEF HolInv

LEMMA HolStep == HolInv /\ [HolNext]_holVars => HolInv'
<1> SUFFICES ASSUME HolInv, [HolNext]_holVars PROVE HolInv'
  OBVIOUS
<1>1. ASSUME UNCHANGED <<holidays, edit, overlapped>> PROVE HolInv'
  BY <1>1 DEF HolInv, HolTypeOK, NamesAreNotShadowed, EditsAreWritable, EditsKnowEachOther,
              ChecksStand, Written, Rows, Busy
<1>2. ASSUME NEW h \in Editors, AbandonHoliday(h) PROVE HolInv'
  <2>1. /\ DOMAIN edit' = Editors /\ UNCHANGED <<holidays, overlapped>>
        /\ \A k \in Editors : Busy(k)' => Busy(k) /\ edit'[k] = edit[k]
    BY <1>2 DEF AbandonHoliday, HolInv, Busy
  <2>2. \A k \in Editors : Busy(k)' => Written(k)' = Written(k)
    BY <2>1 DEF Written, Rows
  <2>3. HolTypeOK' /\ NamesAreNotShadowed' /\ Rows' = Rows
    BY <2>1 DEF HolInv, HolTypeOK, NamesAreNotShadowed, Rows
  <2>4. EditsAreWritable' /\ EditsKnowEachOther'
    BY <2>1, <2>3 DEF HolInv, EditsAreWritable, EditsKnowEachOther
  <2>5. ChecksStand'
    BY <2>1, <2>2, <2>3 DEF HolInv, ChecksStand
  <2> QED BY <2>1, <2>3, <2>4, <2>5 DEF HolInv
<1> QED BY <1>1, <1>2, ReadAddKeeps, ReadUpdateKeeps, ReadRemovalKeeps, CommitHolidayKeeps
      DEF HolNext, holVars, NextDay

LEMMA HolInvariance == HolSpec => []HolInv
<1>1. HolInit => HolInv
  BY DEF HolInit, HolInv, HolTypeOK, NamesAreNotShadowed, EditsAreWritable,
         EditsKnowEachOther, ChecksStand, Rows, Busy
<1> QED BY <1>1, HolStep, PTL DEF HolSpec

-----------------------------------------------------------------------------
(***************************************************************************)
(* What readers compute: the header of the calendar, ...                   *)
(***************************************************************************)

\* Whole days, whole years: division keeps the order.
LEMMA DivisionIsMonotone ==
  ASSUME NEW L \in Nat \ {0}, NEW a \in Int, NEW b \in Int, a <= b
  PROVE  a \div L <= b \div L /\ a \div L \in Int /\ b \div L \in Int
OBVIOUS

LEMMA DivisionShifts ==
  ASSUME NEW L \in Nat \ {0}, NEW a \in Int, NEW k \in Int
  PROVE  (a - k * L) \div L = (a \div L) - k
OBVIOUS

LEMMA HeaderIsOfItsList == HolInv /\ today \in Nat => HeaderAgreesWithList
<1> SUFFICES ASSUME HolInv, today \in Nat PROVE HeaderAgreesWithList
  OBVIOUS
<1> DEFINE year == YearOf(today)
           list == ListHolidays(year, FALSE)
           ahead == {i \in list : DaysUntil(i) # Blank}
           Coming == {i \in Rows : holidays[i].active /\ holidays[i].date >= today}
<1>1. \A i \in Rows : holidays[i] \in HolidayRows
  BY DEF HolInv, HolTypeOK
<1>2. \A i \in Rows : holidays[i].date \in Nat /\ YearOf(holidays[i].date) \in Int
  <2>1. \A d \in Nat : YearOf(d) \in Int
    BY CalendarBounds, DivisionIsMonotone DEF YearOf
  <2>2. \A i \in Rows : holidays[i].date \in Nat
    BY <1>1, CalendarBounds DEF HolidayRows
  <2> QED BY <2>1, <2>2
<1>3. year \in Int /\ \A i \in Coming : YearOf(holidays[i].date) >= year
  BY <1>2, CalendarBounds, DivisionIsMonotone DEF YearOf
<1>4. \A i \in Rows : DaysUntil(i) # Blank <=> holidays[i].date >= today
  BY <1>2, BlankIsNoRow DEF DaysUntil
<1> HIDE DEF year
<1>5. list \subseteq Rows /\ IsFiniteSet(Rows) /\ IsFiniteSet(list)
  <2>1. IsFiniteSet(Ids) /\ Rows \subseteq Ids
    BY FS_Interval, CalendarBounds DEF Ids, Rows
  <2> QED BY <2>1, FS_Subset DEF ListHolidays
<1>6. ahead = {i \in Coming : YearOf(holidays[i].date) <= year}
  BY <1>2, <1>3, <1>4 DEF ListHolidays
<1>7. Upcoming(year) = Cardinality(ahead) /\ Upcoming(year) <= Total(year)
  <2>1. ahead = {i \in Rows : /\ holidays[i].active /\ holidays[i].date >= today
                              /\ YearOf(holidays[i].date) <= year}
    BY <1>6
  <2>2. Upcoming(year) = Cardinality(ahead)
    BY <2>1 DEF Upcoming
  <2>3. ahead \subseteq list
    OBVIOUS
  <2> HIDE DEF ahead, list
  <2>4. Cardinality(ahead) <= Cardinality(list)
    BY <1>5, <2>3, FS_Subset
  <2> QED BY <2>2, <2>4 DEF Total, list
<1>8. ASSUME ahead # {} PROVE NextHolidays # {}
  <2> DEFINE dates == {holidays[i].date : i \in Coming}
  <2>1. dates \in SUBSET Nat /\ dates # {}
    BY <1>2, <1>6, <1>8
  <2>2. PICK d \in dates : \A c \in dates : d <= c
    BY <2>1, LeastElement
  <2>3. PICK i \in Coming : \A j \in Coming : holidays[i].date <= holidays[j].date
    BY <2>2
  <2> QED BY <2>3 DEF NextHolidays
<1>9. ASSUME NEW i \in NextHolidays, NEW j \in ahead
      PROVE  i \in ahead /\ DaysUntil(i) <= DaysUntil(j)
  <2>1. i \in Coming /\ j \in Coming /\ holidays[i].date <= holidays[j].date
    BY <1>6 DEF NextHolidays
  <2>2. YearOf(holidays[j].date) <= year
    BY <1>6
  <2>3. YearOf(holidays[i].date) <= YearOf(holidays[j].date)
    BY <1>2, <2>1, CalendarBounds, DivisionIsMonotone DEF YearOf
  <2>4. /\ i \in Rows /\ j \in Rows /\ YearOf(holidays[i].date) \in Int
        /\ YearOf(holidays[j].date) \in Int
    BY <1>2, <2>1
  <2>5. i \in ahead
    <3>1. YearOf(holidays[i].date) <= year
      BY <1>3, <2>2, <2>3, <2>4
    <3> HIDE DEF ahead
    <3> QED BY <1>6, <2>1, <3>1
  <2>6. DaysUntil(i) = holidays[i].date - today /\ DaysUntil(j) = holidays[j].date - today
    BY <2>1 DEF DaysUntil
  <2>7. DaysUntil(i) <= DaysUntil(j)
    BY <1>2, <2>1, <2>4, <2>6
  <2> QED BY <2>5, <2>7
<1> HIDE DEF ahead
<1>a. /\ Upcoming(year) = Cardinality(ahead) /\ Upcoming(year) <= Total(year)
      /\ ahead # {} => /\ NextHolidays # {} /\ NextHolidays \subseteq ahead
                       /\ \A i \in NextHolidays, j \in ahead : DaysUntil(i) <= DaysUntil(j)
  BY <1>7, <1>8, <1>9
<1> QED BY <1>a, Zenon DEF HeaderAgreesWithList, ahead, list, year

LEMMA HeaderInvariance == HolSpec => []HeaderAgreesWithList
<1>1. HolInit => today \in Nat
  BY DEF HolInit
<1>2. today \in Nat /\ [HolNext]_holVars => (today \in Nat)'
  <2> SUFFICES ASSUME today \in Nat, [HolNext]_holVars PROVE today' \in Nat
    OBVIOUS
  <2>1. today' = today \/ today' = today + 1
    BY DEF HolNext, ReadAdd, ReadUpdate, ReadRemoval, CommitHoliday, AbandonHoliday, NextDay,
           holVars
  <2> QED BY <2>1
<1> QED BY <1>1, <1>2, HolInvariance, HeaderIsOfItsList, PTL DEF HolSpec

-----------------------------------------------------------------------------
(***************************************************************************)
(* ... the pages and the export of the audit log, ...                      *)
(***************************************************************************)

\* How many entries come before e on the pages.
Rank(e) == Cardinality({f \in Committed : Before(f, e)})

LogTyped ==
  /\ stamp \in [Entries -> Nat \cup {Silent}] /\ moment \in Nat
  /\ open \in [Actors -> Nat \cup {Silent}]
  /\ Committed = 1..Cardinality(Committed)

\* How many of the first entries have been read.
ReadTo == Offset(paging.page) + (IF paging.shown THEN PageSize ELSE 0)

PagingTyped ==
  paging # Silent =>
    /\ DOMAIN paging = {"there", "seen", "page", "shown", "total", "late"}
    /\ paging.there \subseteq Committed /\ paging.page \in Nat \ {0}
    /\ paging.shown \in BOOLEAN
    /\ paging.total \in Nat /\ paging.late \in Nat

\* Before its query a page's count is that of the log but for what is late.
PageIsCounted == PageIsPending => paging.total + paging.late = Cardinality(Committed)

\* Every entry that was there and comes, by now, on a page that was read was seen.
PagesAreRead ==
  paging # Silent /\ NoTies => \A e \in paging.there : Rank(e) < ReadTo => e \in paging.seen

\* The export's count is that of the log, and then of what it was taken of, but
\* for what is late.
ExportIsCounted ==
  export # Silent =>
    /\ DOMAIN export = {"total", "taken", "of", "late"}
    /\ export.total \in Nat /\ export.late \in Nat
    /\ export.taken = Silent => export.total + export.late = Cardinality(Committed)
    /\ export.taken # Silent => /\ export.taken \subseteq export.of
                                /\ export.of \subseteq Entries
                                /\ export.total + export.late = Cardinality(export.of)

AuditInv ==
  LogTyped /\ PagingTyped /\ PageIsCounted /\ PagesAreRead /\ PagesMissNothing /\ ExportIsCounted

LEMMA LesserOfTwo ==
  ASSUME NEW a \in Int, NEW b \in Int
  PROVE  Min({a, b}) = IF a <= b THEN a ELSE b
<1> DEFINE m == IF a <= b THEN a ELSE b
<1>1. m \in {a, b} /\ \A y \in {a, b} : m <= y
  OBVIOUS
<1>2. Min({a, b}) \in {a, b} /\ \A y \in {a, b} : Min({a, b}) <= y
  BY <1>1 DEF Min
<1> QED BY <1>2

LEMMA CommittedIsFinite ==
  /\ IsFiniteSet(Entries) /\ IsFiniteSet(Committed)
  /\ \A S \in SUBSET Committed : IsFiniteSet(S) /\ Cardinality(S) \in Nat
                                 /\ Cardinality(S) <= Cardinality(Committed)
<1>1. IsFiniteSet(Entries)
  BY FS_Interval, AuditBounds DEF Entries
<1>2. Committed \in SUBSET Entries
  BY DEF Committed
<1>3. IsFiniteSet(Committed)
  BY <1>1, <1>2, FS_Subset
<1>4. \A S \in SUBSET Committed : IsFiniteSet(S) /\ Cardinality(S) \in Nat
                                  /\ Cardinality(S) <= Cardinality(Committed)
  BY <1>3, FS_Subset, FS_CardinalityType
<1> QED BY <1>1, <1>3, <1>4

LEMMA RankIsSmall ==
  ASSUME LogTyped, NEW e \in Committed
  PROVE  Rank(e) \in Nat /\ Rank(e) < Cardinality(Committed)
<1> DEFINE S == {f \in Committed : Before(f, e)}
<1>1. e \notin S
  BY DEF Before, LogTyped, Committed
<1>2. IsFiniteSet(Committed) /\ IsFiniteSet(S) /\ Cardinality(S) \in Nat
      /\ Cardinality(S) <= Cardinality(Committed) /\ Cardinality(Committed) \in Nat
  BY CommittedIsFinite, FS_CardinalityType
<1>3. Cardinality(S) # Cardinality(Committed)
  BY <1>1, <1>2, FS_Subset
<1> QED BY <1>2, <1>3 DEF Rank

\* A slice holds every entry of its range: the others come before it or are in the
\* rest that is after it.
LEMMA SliceIsComplete ==
  ASSUME LogTyped, NEW k \in Nat, NEW n \in Nat \ {0}, NEW S \in Slices(k, n)
  PROVE  /\ S \subseteq Committed
         /\ \E R \in SUBSET Committed :
              /\ Cardinality(R) = IF Cardinality(Committed) <= k + n THEN 0
                                  ELSE Cardinality(Committed) - (k + n)
              /\ \A e \in Committed : e \in S \/ e \in R \/ Rank(e) < k
         /\ NoTies => \A e \in Committed : Rank(e) < k + n => e \in S \/ Rank(e) < k
<1> DEFINE c == Cardinality(Committed)
<1>1. c \in Nat /\ IsFiniteSet(Committed)
  BY CommittedIsFinite, FS_CardinalityType
<1>2. S \subseteq Committed /\ Cardinality(S) = IF c <= k THEN 0 ELSE Min({n, c - k})
  BY DEF Slices
<1>3. PICK P \in SUBSET (Committed \ S) :
        /\ Cardinality(P) = Min({k, c})
        /\ \A p \in P, s \in S : ~ Before(s, p)
        /\ \A s \in P \cup S, r \in Committed \ (P \cup S) : ~ Before(r, s)
  BY DEF Slices
<1>4. /\ IsFiniteSet(S) /\ IsFiniteSet(P) /\ Cardinality(S) \in Nat /\ Cardinality(P) \in Nat
      /\ Cardinality(P \cup S) = Cardinality(P) + Cardinality(S)
      /\ P \cup S \in SUBSET Committed
  <2>1. IsFiniteSet(S) /\ IsFiniteSet(P) /\ Cardinality(S) \in Nat /\ Cardinality(P) \in Nat
    BY <1>2, CommittedIsFinite
  <2>2. P \cap S = {} /\ Cardinality({}) = 0
    BY FS_EmptySet
  <2>3. Cardinality(P \cup S) = Cardinality(P) + Cardinality(S)
    <3>1. Cardinality(P \cup S) = Cardinality(P) + Cardinality(S) - Cardinality(P \cap S)
      BY <2>1, FS_Union
    <3>2. Cardinality(P \cap S) = 0
      BY <2>2
    <3> QED BY <2>1, <3>1, <3>2
  <2> QED BY <1>2, <2>1, <2>3
<1> HIDE DEF c
<1>5. /\ Cardinality(S) = IF c <= k THEN 0 ELSE IF n <= c - k THEN n ELSE c - k
      /\ Cardinality(P) = IF k <= c THEN k ELSE c
  BY <1>1, <1>2, <1>3, LesserOfTwo
<1>6. Cardinality(P) <= k /\ Cardinality(P \cup S) = IF c <= k + n THEN c ELSE k + n
  BY <1>1, <1>4, <1>5
<1>7. ASSUME NEW e \in P PROVE Rank(e) < k
  <2> DEFINE B == {f \in Committed : Before(f, e)}
  <2>1. IsFiniteSet(B) /\ Cardinality(B) = Rank(e) /\ Rank(e) \in Nat
    BY CommittedIsFinite DEF Rank
  <2>2. B \subseteq P \ {e}
    <3> SUFFICES ASSUME NEW f \in B PROVE f \in P \ {e}
      OBVIOUS
    <3>1. f # e
      BY <1>3 DEF Before, LogTyped, Committed
    <3>2. f \in P \cup S
      BY <1>3, <1>7
    <3> QED BY <1>3, <1>7, <3>1, <3>2
  <2>3. IsFiniteSet(P \ {e}) /\ Cardinality(P \ {e}) = Cardinality(P) - 1
    BY <1>4, <1>7, FS_RemoveElement
  <2>4. Cardinality(B) <= Cardinality(P) - 1
    BY <2>2, <2>3, FS_Subset
  <2> QED BY <1>4, <1>6, <2>1, <2>4
<1>8. ASSUME NoTies, NEW e \in Committed, Rank(e) < k + n
      PROVE  e \in P \cup S
  <2> DEFINE B == {f \in Committed : Before(f, e)}
  <2>1. IsFiniteSet(B) /\ Cardinality(B) = Rank(e) /\ Rank(e) \in Nat
    BY CommittedIsFinite DEF Rank
  <2>2. \A f, g \in Committed : f # g => Before(f, g) \/ Before(g, f)
    BY <1>8 DEF NoTies, Before, Committed, LogTyped
  <2> SUFFICES ASSUME e \notin P \cup S PROVE FALSE
    OBVIOUS
  <2>3. P \cup S \subseteq B
    BY <1>3, <1>4, <2>2
  <2>4. Cardinality(P \cup S) <= Rank(e)
    BY <2>1, <2>3, FS_Subset
  <2>5. CASE Cardinality(P \cup S) = c
    <3>1. P \cup S = Committed
      BY <1>1, <1>4, <2>5, FS_Subset DEF c
    <3> QED BY <3>1
  <2>6. CASE Cardinality(P \cup S) = k + n
    BY <1>8, <2>1, <2>4, <2>6
  <2> QED BY <1>6, <2>5, <2>6
<1>9. \E R \in SUBSET Committed :
        /\ Cardinality(R) = IF c <= k + n THEN 0 ELSE c - (k + n)
        /\ \A e \in Committed : e \in S \/ e \in R \/ Rank(e) < k
  <2> DEFINE R == Committed \ (P \cup S)
  <2>1. Cardinality(R) = c - Cardinality(P \cup S)
    <3>1. Cardinality(R) = Cardinality(Committed) - Cardinality(Committed \cap (P \cup S))
      BY <1>1, FS_Difference
    <3>2. Committed \cap (P \cup S) = P \cup S
      BY <1>4
    <3> QED BY <3>1, <3>2 DEF c
  <2>2. Cardinality(R) = IF c <= k + n THEN 0 ELSE c - (k + n)
    BY <1>1, <1>6, <2>1
  <2>3. \A e \in Committed : e \in S \/ e \in R \/ Rank(e) < k
    BY <1>7
  <2>4. R \in SUBSET Committed
    OBVIOUS
  <2> QED BY <2>2, <2>3, <2>4
<1> QED BY <1>2, <1>7, <1>8, <1>9 DEF c

\* The last page reaches to the end of what was counted.
LEMMA PagesHoldAll ==
  ASSUME NEW total \in Nat, NEW page \in Nat \ {0}, page >= Pages(total)
  PROVE  Offset(page) \in Nat /\ total <= Offset(page) + PageSize
<1> DEFINE q == (total + PageSize - 1) \div PageSize
<1>1. PageSize \in Nat \ {0}
  BY AuditBounds
<1>2. q \in Int /\ total + PageSize - 1 < PageSize * q + PageSize
  BY <1>1
<1>3. page >= q
  BY DEF Pages
<1> HIDE DEF q
<1>4. PageSize * q <= PageSize * page
  BY <1>1, <1>2, <1>3
<1>5. Offset(page) = PageSize * page - PageSize /\ Offset(page) \in Nat
  BY <1>1 DEF Offset
<1> QED BY <1>1, <1>2, <1>4, <1>5

LEMMA NextOffset ==
  ASSUME NEW page \in Nat \ {0}
  PROVE  Offset(page) \in Nat /\ Offset(page + 1) = Offset(page) + PageSize
<1>1. PageSize \in Nat \ {0}
  BY AuditBounds
<1>2. (page - 1) * PageSize \in Nat
  BY <1>1
<1>3. ((page + 1) - 1) * PageSize = (page - 1) * PageSize + PageSize
  BY <1>1
<1> QED BY <1>2, <1>3 DEF Offset

\* A count for a page of which nothing has been read yet.
LEMMA CountPageKeeps ==
  ASSUME AuditInv, OpenLog \/ TurnPage
  PROVE  AuditInv'
<1> DEFINE c == Cardinality(Committed)
<1>1. UNCHANGED <<stamp, open, moment, export, Committed>> /\ NoTies' = NoTies
      /\ \A e : Rank(e)' = Rank(e)
  BY DEF OpenLog, TurnPage, Committed, NoTies, Rank, Before
<1>2. c \in Nat
  BY CommittedIsFinite
<1> HIDE DEF c
<1>3. CASE OpenLog
  <2>1. /\ DOMAIN paging' = {"there", "seen", "page", "shown", "total", "late"}
        /\ paging'.there = Committed /\ paging'.page = 1 /\ ~ paging'.shown
        /\ paging'.total = c /\ paging'.late = 0 /\ paging'.shown \in BOOLEAN
    BY <1>3 DEF OpenLog, c
  <2>2. ReadTo' = 0
    <3>1. Offset(1) = 0
      BY AuditBounds DEF Offset
    <3> QED BY <2>1, <3>1 DEF ReadTo, Offset
  <2>3. \A e \in Committed : Rank(e) \in Nat
    BY RankIsSmall DEF AuditInv
  <2>4. PagesAreRead'
    BY <1>1, <2>1, <2>2, <2>3 DEF PagesAreRead
  <2>5. PagingTyped' /\ PageIsCounted' /\ PagesMissNothing'
    BY <1>1, <1>2, <2>1 DEF PagingTyped, PageIsCounted, PagesMissNothing, PageIsPending, c
  <2>6. LogTyped' /\ ExportIsCounted'
    BY <1>1 DEF AuditInv, LogTyped, ExportIsCounted
  <2> QED BY <2>4, <2>5, <2>6 DEF AuditInv
<1>4. CASE TurnPage
  <2>1. /\ paging # Silent /\ paging.shown
        /\ DOMAIN paging = {"there", "seen", "page", "shown", "total", "late"}
        /\ paging.there \subseteq Committed /\ paging.page \in Nat \ {0}
    BY <1>4 DEF TurnPage, AuditInv, PagingTyped
  <2>2. /\ DOMAIN paging' = {"there", "seen", "page", "shown", "total", "late"}
        /\ paging'.there = paging.there /\ paging'.seen = paging.seen
        /\ paging'.page = paging.page + 1 /\ paging'.shown = FALSE
        /\ paging'.total = c /\ paging'.late = 0
    BY <1>4, <2>1 DEF TurnPage, c
  <2>3. ReadTo' = ReadTo
    <3>1. Offset(paging.page) \in Nat
          /\ Offset(paging.page + 1) = Offset(paging.page) + PageSize
      BY <2>1, NextOffset
    <3>2. ReadTo = Offset(paging.page) + PageSize
      BY <2>1 DEF ReadTo
    <3>3. ReadTo' = Offset(paging.page + 1) + 0
      BY <2>2 DEF ReadTo, Offset
    <3>4. PageSize \in Nat
      BY AuditBounds
    <3> QED BY <3>1, <3>2, <3>3, <3>4
  <2>4. PagesAreRead'
    BY <1>1, <2>1, <2>2, <2>3 DEF PagesAreRead, AuditInv
  <2>p. PagingTyped'
    <3>1. paging'.page \in Nat \ {0}
      <4> DEFINE p == paging.page
      <4>1. p \in Nat \ {0} /\ paging'.page = p + 1
        BY <2>1, <2>2
      <4> HIDE DEF p
      <4> QED BY <4>1
    <3>2. paging'.there \subseteq Committed'
      BY <1>1, <2>1, <2>2
    <3>3. paging'.shown \in BOOLEAN
      BY <2>2
    <3> QED BY <1>2, <2>2, <3>1, <3>2, <3>3 DEF PagingTyped
  <2>c. PageIsCounted'
    <3>1. Cardinality(Committed)' = c
      BY <1>1 DEF c
    <3> QED BY <1>2, <2>2, <3>1 DEF PageIsCounted, PageIsPending
  <2>5. PagingTyped' /\ PageIsCounted' /\ PagesMissNothing'
    BY <2>2, <2>p, <2>c DEF PagesMissNothing
  <2>6. LogTyped' /\ ExportIsCounted'
    BY <1>1 DEF AuditInv, LogTyped, ExportIsCounted
  <2> QED BY <2>4, <2>5, <2>6 DEF AuditInv
<1> QED BY <1>3, <1>4

\* The query of a page: what is on it is seen, and what comes after the last page
\* was committed since the count.
LEMMA TakePageKeeps == ASSUME AuditInv, TakePage PROVE AuditInv'
<1> DEFINE k == Offset(paging.page)
           c == Cardinality(Committed)
<1>1. PICK S \in Slices(k, PageSize) :
        paging' = [paging EXCEPT !.seen = @ \cup S, !.shown = TRUE]
  BY DEF TakePage
<1>2. /\ paging # Silent /\ ~ paging.shown
      /\ DOMAIN paging = {"there", "seen", "page", "shown", "total", "late"}
      /\ paging.page \in Nat \ {0} /\ paging.there \subseteq Committed
      /\ paging.total \in Nat /\ paging.late \in Nat
      /\ paging.total + paging.late = c
  BY DEF TakePage, AuditInv, PagingTyped, PageIsCounted, PageIsPending
<1>3. UNCHANGED <<stamp, open, moment, export, Committed>> /\ NoTies' = NoTies
      /\ \A e : Rank(e)' = Rank(e)
  BY DEF TakePage, Committed, NoTies, Rank, Before
<1>4. /\ DOMAIN paging' = {"there", "seen", "page", "shown", "total", "late"}
      /\ paging'.there = paging.there /\ paging'.seen = paging.seen \cup S
      /\ paging'.page = paging.page /\ paging'.shown = TRUE
      /\ paging'.total = paging.total /\ paging'.late = paging.late
  BY <1>1, <1>2
<1>5. k \in Nat /\ PageSize \in Nat \ {0} /\ c \in Nat
  BY <1>2, NextOffset, AuditBounds, CommittedIsFinite
<1>6. NoTies => \A e \in paging.there : Rank(e) < k => e \in paging.seen
  <2>1. ReadTo = k
    BY <1>2, <1>5 DEF ReadTo
  <2> QED BY <1>2, <2>1 DEF AuditInv, PagesAreRead
<1>7. ReadTo' = k + PageSize
  BY <1>4 DEF ReadTo, Offset
<1>8. PICK R \in SUBSET Committed :
        /\ Cardinality(R) = IF c <= k + PageSize THEN 0 ELSE c - (k + PageSize)
        /\ \A e \in Committed : e \in S \/ e \in R \/ Rank(e) < k
  BY <1>5, SliceIsComplete DEF AuditInv
<1>9. NoTies => \A e \in Committed : Rank(e) < k + PageSize => e \in S \/ Rank(e) < k
  BY <1>5, SliceIsComplete DEF AuditInv
<1>a. ASSUME NoTies, paging.page >= Pages(paging.total)
      PROVE  Cardinality(paging.there \ (paging.seen \cup S)) <= paging.late
  <2>1. paging.there \ (paging.seen \cup S) \subseteq R
    BY <1>2, <1>6, <1>8, <1>a
  <2>2. IsFiniteSet(R)
    BY CommittedIsFinite
  <2>3. Cardinality(paging.there \ (paging.seen \cup S)) <= Cardinality(R)
        /\ Cardinality(paging.there \ (paging.seen \cup S)) \in Nat
    BY <2>1, <2>2, FS_Subset, FS_CardinalityType
  <2>4. paging.total <= k + PageSize
    BY <1>2, <1>a, PagesHoldAll
  <2> HIDE DEF k, c
  <2>5. Cardinality(R) <= paging.late
    BY <1>2, <1>5, <1>8, <2>4
  <2>6. Cardinality(R) \in Nat
    BY <2>2, FS_CardinalityType
  <2> QED BY <1>2, <2>3, <2>5, <2>6
<1> HIDE DEF k, c
<1>b. PagesAreRead'
  BY <1>2, <1>3, <1>4, <1>6, <1>7, <1>9 DEF PagesAreRead
<1>c. PagingTyped' /\ PageIsCounted'
  BY <1>2, <1>3, <1>4 DEF PagingTyped, PageIsCounted, PageIsPending
<1>d. PagesMissNothing'
  BY <1>3, <1>4, <1>a DEF PagesMissNothing, Pages
<1>e. LogTyped' /\ ExportIsCounted'
  BY <1>3 DEF AuditInv, LogTyped, ExportIsCounted
<1> QED BY <1>b, <1>c, <1>d, <1>e DEF AuditInv

\* What commits comes after what was there, or before it on the pages.
LEMMA CommitWorkKeeps ==
  ASSUME AuditInv, NEW a \in Actors, CommitWork(a)
  PROVE  AuditInv'
<1> DEFINE c == Cardinality(Committed)
<1>1. PICK n \in 1..2 :
        /\ c + n <= MaxEntries
        /\ stamp' = [e \in Entries |-> IF e \in (c + 1)..(c + n) THEN open[a] ELSE stamp[e]]
        /\ paging' = IF PageIsPending THEN [paging EXCEPT !.late = @ + n] ELSE paging
        /\ export' = IF ExportIsPending THEN [export EXCEPT !.late = @ + n] ELSE export
  BY DEF CommitWork
<1>2. open[a] # Silent /\ open' = [open EXCEPT ![a] = Silent] /\ UNCHANGED moment
  BY DEF CommitWork
<1>3. c \in Nat /\ Committed = 1..c
  BY CommittedIsFinite, FS_CardinalityType DEF AuditInv, LogTyped
<1> HIDE DEF c
<1>4. open[a] \in Nat
  BY <1>2 DEF AuditInv, LogTyped
<1>5. Committed' = 1..(c + n) /\ c + n \in Nat
  <2>1. 1..(c + n) \subseteq Entries
    BY <1>1, <1>3, AuditBounds DEF Entries
  <2>2. \A e \in Entries : stamp'[e] # Silent <=> e \in (c + 1)..(c + n) \/ e \in Committed
    BY <1>1, <1>2 DEF Committed
  <2>3. Committed' = {e \in Entries : e \in (c + 1)..(c + n) \/ e \in 1..c}
    BY <1>3, <2>2 DEF Committed
  <2> QED BY <1>3, <2>1, <2>3
<1>6. Committed \subseteq Committed' /\ \A e \in Committed : stamp'[e] = stamp[e]
  BY <1>1, <1>3, <1>5 DEF Committed
<1>s. Cardinality(Committed)' = c + n
  BY <1>3, <1>5, FS_Interval
<1>7. LogTyped'
  <2>1. stamp' \in [Entries -> Nat \cup {Silent}]
    BY <1>1, <1>4 DEF AuditInv, LogTyped
  <2>2. open' \in [Actors -> Nat \cup {Silent}] /\ moment' \in Nat
    BY <1>2 DEF AuditInv, LogTyped
  <2> QED BY <1>5, <1>s, <2>1, <2>2 DEF LogTyped
<1>8. NoTies' => NoTies
  BY <1>6 DEF NoTies
<1>9. ASSUME NEW e \in Committed
      PROVE  Rank(e) <= Rank(e)' /\ Rank(e) \in Nat /\ Rank(e)' \in Nat
  <2> DEFINE B == {f \in Committed : Before(f, e)}
             C == {f \in Committed' : stamp'[f] > stamp'[e]}
  <2>1. B \subseteq C
    BY <1>6 DEF Before
  <2>2. IsFiniteSet(Committed')
    BY <1>5, FS_Interval
  <2>3. IsFiniteSet(C) /\ Cardinality(C) \in Nat
    BY <2>2, FS_Subset, FS_CardinalityType
  <2>4. Cardinality(B) <= Cardinality(C) /\ Cardinality(B) \in Nat
    BY <2>1, <2>3, FS_Subset, FS_CardinalityType
  <2> QED BY <2>3, <2>4 DEF Rank, Before
<1>a. PagingTyped' /\ PageIsCounted' /\ PagesAreRead' /\ PagesMissNothing'
  <2>1. CASE paging = Silent
    BY <1>1, <2>1 DEF PagingTyped, PageIsCounted, PagesAreRead, PagesMissNothing, PageIsPending
  <2>2. CASE paging # Silent
    <3>1. /\ DOMAIN paging = {"there", "seen", "page", "shown", "total", "late"}
          /\ paging.there \subseteq Committed /\ paging.page \in Nat \ {0}
          /\ paging.shown \in BOOLEAN /\ paging.total \in Nat /\ paging.late \in Nat
      BY <2>2 DEF AuditInv, PagingTyped
    <3>2. /\ DOMAIN paging' = DOMAIN paging
          /\ paging'.there = paging.there /\ paging'.seen = paging.seen
          /\ paging'.page = paging.page /\ paging'.shown = paging.shown
          /\ paging'.total = paging.total
          /\ paging'.late = IF paging.shown THEN paging.late ELSE paging.late + n
      BY <1>1, <2>2, <3>1 DEF PageIsPending
    <3>3. PagingTyped'
      BY <1>6, <3>1, <3>2 DEF PagingTyped
    <3>4. PageIsCounted'
      <4>1. ~ paging.shown => paging.total + paging.late = c
        BY <2>2 DEF AuditInv, PageIsCounted, PageIsPending, c
      <4> QED BY <1>3, <1>s, <3>1, <3>2, <4>1 DEF PageIsCounted, PageIsPending
    <3>5. PagesAreRead'
      <4>1. ReadTo' = ReadTo
        BY <3>2 DEF ReadTo, Offset
      <4>2. ReadTo \in Int
        <5>1. Offset(paging.page) \in Nat /\ PageSize \in Nat
          BY <3>1, NextOffset, AuditBounds
        <5> QED BY <5>1 DEF ReadTo
      <4>3. \A e \in paging.there : Rank(e)' < ReadTo => Rank(e) < ReadTo
        BY <1>9, <3>1, <4>2
      <4>4. NoTies => \A e \in paging.there : Rank(e) < ReadTo => e \in paging.seen
        BY <2>2 DEF AuditInv, PagesAreRead
      <4> QED BY <1>8, <3>2, <4>1, <4>3, <4>4 DEF PagesAreRead
    <3>6. PagesMissNothing'
      <4>1. paging.shown => paging' = paging
        BY <1>1 DEF PageIsPending
      <4> QED BY <1>8, <2>2, <3>2, <4>1 DEF AuditInv, PagesMissNothing, Pages
    <3> QED BY <3>3, <3>4, <3>5, <3>6
  <2> QED BY <2>1, <2>2
<1>b. ExportIsCounted'
  <2>1. CASE export = Silent
    BY <1>1, <2>1 DEF ExportIsCounted, ExportIsPending
  <2>2. CASE export # Silent /\ export.taken = Silent
    <3>1. /\ DOMAIN export = {"total", "taken", "of", "late"}
          /\ export.total \in Nat /\ export.late \in Nat /\ export.total + export.late = c
      BY <2>2 DEF AuditInv, ExportIsCounted, c
    <3>2. /\ DOMAIN export' = DOMAIN export
          /\ export'.total = export.total /\ export'.taken = Silent
          /\ export'.late = export.late + n
      BY <1>1, <2>2, <3>1 DEF ExportIsPending
    <3> QED BY <1>3, <1>s, <3>1, <3>2 DEF ExportIsCounted
  <2>3. CASE export # Silent /\ export.taken # Silent
    <3>1. export' = export
      BY <1>1, <2>3 DEF ExportIsPending
    <3> QED BY <2>3, <3>1 DEF AuditInv, ExportIsCounted
  <2> QED BY <2>1, <2>2, <2>3
<1> QED BY <1>7, <1>a, <1>b DEF AuditInv

LEMMA ExportKeeps ==
  ASSUME AuditInv, CountExport \/ TakeExport \/ CloseExport
  PROVE  AuditInv'
<1>1. UNCHANGED <<stamp, open, moment, paging, Committed>> /\ NoTies' = NoTies
      /\ \A e : Rank(e)' = Rank(e)
  BY DEF CountExport, TakeExport, CloseExport, Committed, NoTies, Rank, Before
<1>2. LogTyped' /\ PagingTyped' /\ PageIsCounted' /\ PagesAreRead' /\ PagesMissNothing'
  BY <1>1 DEF AuditInv, LogTyped, PagingTyped, PageIsCounted, PageIsPending, PagesAreRead,
              ReadTo, Offset, PagesMissNothing, Pages
<1>3. CASE CountExport
  <2>1. export' = [total |-> Cardinality(Committed), taken |-> Silent, of |-> {}, late |-> 0]
        /\ Cardinality(Committed) \in Nat
    BY <1>3, CommittedIsFinite DEF CountExport
  <2>2. ExportIsCounted'
    BY <1>1, <2>1 DEF ExportIsCounted
  <2> QED BY <1>2, <2>2 DEF AuditInv
<1>4. CASE TakeExport
  <2>1. PICK S \in Slices(0, ExportLimit) :
          export' = [export EXCEPT !.taken = S, !.of = Committed]
    BY <1>4 DEF TakeExport
  <2>2. /\ export # Silent /\ DOMAIN export = {"total", "taken", "of", "late"}
        /\ export.total \in Nat /\ export.late \in Nat
        /\ export.total + export.late = Cardinality(Committed)
    BY <1>4 DEF TakeExport, ExportIsPending, AuditInv, ExportIsCounted
  <2>3. /\ DOMAIN export' = {"total", "taken", "of", "late"}
        /\ export'.total = export.total /\ export'.taken = S /\ export'.of = Committed
        /\ export'.late = export.late
    BY <2>1, <2>2
  <2>4. S \subseteq Committed /\ Committed \subseteq Entries
    BY DEF Slices, Committed
  <2>5. ExportIsCounted'
    BY <1>1, <2>2, <2>3, <2>4 DEF ExportIsCounted
  <2> QED BY <1>2, <2>5 DEF AuditInv
<1>5. CASE CloseExport
  BY <1>2, <1>5 DEF CloseExport, AuditInv, ExportIsCounted
<1> QED BY <1>3, <1>4, <1>5

LEMMA AuditStep == AuditInv /\ [AuditNext]_auditVars => AuditInv'
<1> SUFFICES ASSUME AuditInv, [AuditNext]_auditVars PROVE AuditInv'
  OBVIOUS
<1>1. ASSUME UNCHANGED <<stamp, export>>, moment' \in Nat,
             open' \in [Actors -> Nat \cup {Silent}],
             paging' = paging \/ paging' = Silent
      PROVE  AuditInv'
  <2>1. Committed' = Committed /\ NoTies' = NoTies /\ \A e : Rank(e)' = Rank(e)
    BY <1>1 DEF Committed, NoTies, Rank, Before
  <2>2. LogTyped' /\ ExportIsCounted'
    BY <1>1, <2>1 DEF AuditInv, LogTyped, ExportIsCounted
  <2>3. PagingTyped' /\ PageIsCounted' /\ PagesAreRead' /\ PagesMissNothing'
    BY <1>1, <2>1 DEF AuditInv, PagingTyped, PageIsCounted, PageIsPending, PagesAreRead,
                      ReadTo, Offset, PagesMissNothing, Pages
  <2> QED BY <2>2, <2>3 DEF AuditInv
<1>2. moment \in Nat /\ open \in [Actors -> Nat \cup {Silent}]
  BY DEF AuditInv, LogTyped
<1>3. ASSUME NEW a \in Actors, BeginWork(a) PROVE AuditInv'
  BY <1>1, <1>2, <1>3 DEF BeginWork
<1>4. ASSUME NEW a \in Actors, RollbackWork(a) PROVE AuditInv'
  BY <1>1, <1>2, <1>4 DEF RollbackWork
<1>5. CASE TickOn
  BY <1>1, <1>2, <1>5 DEF TickOn
<1>6. CASE CloseLog
  BY <1>1, <1>2, <1>6 DEF CloseLog
<1>7. CASE UNCHANGED auditVars
  BY <1>1, <1>2, <1>7 DEF auditVars
<1> QED BY <1>3, <1>4, <1>5, <1>6, <1>7, CommitWorkKeeps, CountPageKeeps, TakePageKeeps,
           ExportKeeps DEF AuditNext

LEMMA AuditInvariance == AuditSpec => []AuditInv
<1>1. ASSUME AuditInit PROVE AuditInv
  <2>1. Committed = {}
    BY <1>1 DEF AuditInit, Committed
  <2>2. Committed = 1..Cardinality(Committed)
    BY <2>1, FS_EmptySet
  <2> QED BY <1>1, <2>2 DEF AuditInit, AuditInv, LogTyped, PagingTyped, PageIsCounted,
                            PageIsPending, PagesAreRead, PagesMissNothing, ExportIsCounted
<1> QED BY <1>1, AuditStep, PTL DEF AuditSpec

LEMMA ReadersMissNothing == AuditInv => PagesMissNothing /\ TruncationIsSaid
<1> SUFFICES ASSUME AuditInv, export # Silent, export.taken # Silent, ~ Truncated
             PROVE  Cardinality(export.of \ export.taken) <= export.late
  BY DEF AuditInv, TruncationIsSaid
<1>1. /\ export.taken \subseteq export.of /\ export.of \subseteq Entries
      /\ export.total + export.late = Cardinality(export.of)
      /\ export.total \in Nat /\ export.late \in Nat
  BY DEF AuditInv, ExportIsCounted
<1>2. IsFiniteSet(export.of) /\ Cardinality(export.of) \in Nat
  BY <1>1, CommittedIsFinite, FS_Subset, FS_CardinalityType
<1>3. Cardinality(export.taken) \in Nat /\ export.of \cap export.taken = export.taken
  BY <1>1, <1>2, FS_Subset, FS_CardinalityType
<1>4. Cardinality(export.of \ export.taken)
        = Cardinality(export.of) - Cardinality(export.taken)
  BY <1>2, <1>3, FS_Difference
<1>5. export.total <= Cardinality(export.taken)
  BY <1>1, <1>3 DEF Truncated
<1> QED BY <1>1, <1>2, <1>3, <1>4, <1>5

-----------------------------------------------------------------------------
(***************************************************************************)
(* ... and the figures of the dashboard and the reports. Sums over a       *)
(* finite set are taken in an order that a CHOOSE decides: the recursion   *)
(* has a solution, and where each summand counts the elements of one key,  *)
(* the sum counts those of all keys.                                       *)
(***************************************************************************)

IsSums(f, D, S, g) ==
  g = [s \in D |-> IF s = {} THEN 0
                   ELSE LET x == CHOOSE y \in s : TRUE IN f[x] + g[s \ {x}]]

UpToSize(S, n) == {s \in SUBSET S : Cardinality(s) <= n}

\* Taking an element away makes a subset smaller.
LEMMA OneLess ==
  ASSUME NEW S, IsFiniteSet(S), NEW s \in SUBSET S, s # {}
  PROVE  LET x == CHOOSE y \in s : TRUE
         IN  /\ x \in s /\ s \ {x} \in SUBSET S
             /\ Cardinality(s) \in Nat \ {0} /\ Cardinality(s \ {x}) = Cardinality(s) - 1
<1> DEFINE x == CHOOSE y \in s : TRUE
<1>1. x \in s
  OBVIOUS
<1>2. IsFiniteSet(s) /\ Cardinality(s) \in Nat
  BY FS_Subset, FS_CardinalityType
<1>3. Cardinality(s) # 0
  BY <1>2, FS_EmptySet
<1>4. Cardinality(s \ {x}) = Cardinality(s) - 1
  BY <1>1, <1>2, FS_RemoveElement
<1> QED BY <1>1, <1>2, <1>3, <1>4

LEMMA SumsExist ==
  ASSUME NEW f, NEW S, IsFiniteSet(S), NEW m \in Nat
  PROVE  \E g : IsSums(f, UpToSize(S, m), S, g)
<1> DEFINE Sums(g, n) == IsSums(f, UpToSize(S, n), S, g)
<1> DEFINE Holds == {n \in 0..m : \E g : Sums(g, n)}
<1>1. 0 \in Holds
  <2> DEFINE g == [s \in UpToSize(S, 0) |-> 0]
  <2>1. \A s \in UpToSize(S, 0) : s = {}
    <3> SUFFICES ASSUME NEW s \in UpToSize(S, 0), s # {} PROVE FALSE
      OBVIOUS
    <3>1. Cardinality(s) \in Nat \ {0} /\ Cardinality(s) <= 0
      BY OneLess DEF UpToSize
    <3> QED BY <3>1
  <2>2. g = [s \in UpToSize(S, 0) |->
               IF s = {} THEN 0 ELSE LET x == CHOOSE y \in s : TRUE IN f[x] + g[s \ {x}]]
    BY <2>1, Zenon
  <2>3. Sums(g, 0)
    BY <2>2, Zenon DEF IsSums
  <2> QED BY <2>3
<1>2. ASSUME NEW n \in 1..m, n - 1 \in Holds
      PROVE  n \in Holds
  <2>1. PICK h : Sums(h, n - 1)
    BY <1>2
  <2> DEFINE D == UpToSize(S, n)
             g == [s \in D |-> IF s = {} THEN 0
                               ELSE LET x == CHOOSE y \in s : TRUE IN f[x] + h[s \ {x}]]
  <2>2. ASSUME NEW s \in D, s # {}, NEW x, x = CHOOSE y \in s : TRUE
        PROVE  g[s \ {x}] = h[s \ {x}]
    <3>1. /\ s \ {x} \in SUBSET S /\ Cardinality(s) <= n /\ Cardinality(s) \in Nat
          /\ Cardinality(s \ {x}) = Cardinality(s) - 1
      BY <2>2, OneLess DEF UpToSize
    <3>2. s \ {x} \in UpToSize(S, n - 1) /\ s \ {x} \in D
      BY <3>1 DEF UpToSize
    <3> QED BY <2>1, <3>2 DEF IsSums
  <2>3. \A s \in D : g[s] = IF s = {} THEN 0
                            ELSE LET x == CHOOSE y \in s : TRUE IN f[x] + g[s \ {x}]
    <3> SUFFICES ASSUME NEW s \in D, s # {}
                 PROVE  LET x == CHOOSE y \in s : TRUE IN g[s] = f[x] + g[s \ {x}]
      OBVIOUS
    <3> DEFINE x == CHOOSE y \in s : TRUE
    <3>1. g[s] = f[x] + h[s \ {x}]
      OBVIOUS
    <3>2. g[s \ {x}] = h[s \ {x}]
      BY <2>2
    <3> HIDE DEF g
    <3> QED BY <3>1, <3>2
  <2>4. g = [s \in D |-> g[s]]
    OBVIOUS
  <2> HIDE DEF g
  <2>5. g = [s \in D |-> IF s = {} THEN 0
                         ELSE LET x == CHOOSE y \in s : TRUE IN f[x] + g[s \ {x}]]
    BY <2>3, <2>4, Zenon
  <2>6. Sums(g, n)
    BY <2>5, Zenon DEF IsSums
  <2> QED BY <2>6
<1>3. \A n \in 1..m : n - 1 \in Holds => n \in Holds
  BY <1>2
<1> HIDE DEF Holds
<1>4. m \in Holds
  <2>1. \A n \in 0..m : n \in Holds
    BY <1>1, <1>3, UpToInduction, Zenon
  <2> QED BY <2>1
<1> QED BY <1>4 DEF Holds

\* The sums of f over the subsets of S.
AreSums(f, S, g) ==
  /\ SumFunction(f) = g[S] /\ g[{}] = 0
  /\ \A s \in SUBSET S : s # {} => \E x \in s : g[s] = f[x] + g[s \ {x}]

LEMMA SumIsSolution ==
  ASSUME NEW f, NEW S, S = DOMAIN f, IsFiniteSet(S)
  PROVE  \E g : AreSums(f, S, g)
<1> DEFINE g == CHOOSE h : IsSums(f, SUBSET S, S, h)
<1>1. SumFunction(f) = g[S]
  BY Zenon DEF SumFunction, SumFunctionOnSet, FoldFunctionOnSet, MapThenFoldSet, IsSums
<1>2. UpToSize(S, Cardinality(S)) = SUBSET S
  <2>1. \A s \in SUBSET S : Cardinality(s) <= Cardinality(S)
    BY FS_Subset
  <2> QED BY <2>1 DEF UpToSize
<1>3. IsSums(f, SUBSET S, S, g)
  <2>1. \E h : IsSums(f, UpToSize(S, Cardinality(S)), S, h)
    BY SumsExist, FS_CardinalityType
  <2> QED BY <1>2, <2>1
<1> HIDE DEF g
<1>4. \A s \in SUBSET S :
        g[s] = IF s = {} THEN 0 ELSE LET x == CHOOSE y \in s : TRUE IN f[x] + g[s \ {x}]
  BY <1>3 DEF IsSums
<1>5. g[{}] = 0
  BY <1>4
<1>6. ASSUME NEW s \in SUBSET S, s # {}
      PROVE  \E x \in s : g[s] = f[x] + g[s \ {x}]
  <2> DEFINE x == CHOOSE y \in s : TRUE
  <2>1. x \in s
    BY <1>6
  <2>2. g[s] = f[x] + g[s \ {x}]
    BY <1>4, <1>6
  <2> QED BY <2>1, <2>2
<1> QED BY <1>1, <1>5, <1>6 DEF AreSums

\* Counting the elements of E by key, and adding up, counts each of them once.
LEMMA CountByKey ==
  ASSUME NEW E, IsFiniteSet(E), NEW key, NEW f, NEW S, S = DOMAIN f, IsFiniteSet(S),
         \A k \in S : f[k] = Cardinality({x \in E : key[x] = k})
  PROVE  SumFunction(f) = Cardinality({x \in E : key[x] \in S})
<1> DEFINE Of(s) == {x \in E : key[x] \in s}
<1>0. PICK g : AreSums(f, S, g)
  BY SumIsSolution
<1>1. /\ SumFunction(f) = g[S] /\ g[{}] = 0
      /\ \A s \in SUBSET S : s # {} => \E x \in s : g[s] = f[x] + g[s \ {x}]
  BY <1>0 DEF AreSums
<1>2. Cardinality(S) \in Nat
  BY FS_CardinalityType
<1> DEFINE Holds == {n \in 0..Cardinality(S) :
                       \A s \in SUBSET S : Cardinality(s) = n => g[s] = Cardinality(Of(s))}
<1>3. 0 \in Holds
  <2> SUFFICES ASSUME NEW s \in SUBSET S, Cardinality(s) = 0 PROVE g[s] = Cardinality(Of(s))
    BY <1>2
  <2>1. s = {}
    BY FS_Subset, FS_EmptySet
  <2>2. Of(s) = {}
    BY <2>1
  <2> HIDE DEF Of
  <2> QED BY <1>1, <2>1, <2>2, FS_EmptySet
<1>4. ASSUME NEW n \in 1..Cardinality(S), n - 1 \in Holds
      PROVE  n \in Holds
  <2> SUFFICES ASSUME NEW s \in SUBSET S, Cardinality(s) = n PROVE g[s] = Cardinality(Of(s))
    OBVIOUS
  <2>1. s # {}
    BY FS_EmptySet
  <2>2. PICK k \in s : g[s] = f[k] + g[s \ {k}]
    BY <1>1, <2>1
  <2>3. Cardinality(s \ {k}) = n - 1 /\ s \ {k} \in SUBSET S
    <3>1. IsFiniteSet(s)
      BY FS_Subset
    <3> QED BY <3>1, FS_RemoveElement
  <2>4. g[s \ {k}] = Cardinality(Of(s \ {k}))
    BY <1>4, <2>3
  <2> DEFINE A == {x \in E : key[x] = k}
             B == Of(s \ {k})
  <2>5. A \cap B = {} /\ A \cup B = Of(s)
    OBVIOUS
  <2>6. IsFiniteSet(A) /\ IsFiniteSet(B) /\ Cardinality(A) \in Nat /\ Cardinality(B) \in Nat
    BY FS_Subset, FS_CardinalityType
  <2>7. f[k] = Cardinality(A)
    OBVIOUS
  <2> HIDE DEF A, B, Of
  <2>8. Cardinality(Of(s)) = Cardinality(A) + Cardinality(B) - Cardinality(A \cap B)
    BY <2>5, <2>6, FS_Union
  <2>9. Cardinality(A \cap B) = 0
    BY <2>5, FS_EmptySet
  <2>a. Cardinality(Of(s)) = Cardinality(A) + Cardinality(B)
    BY <2>6, <2>8, <2>9
  <2> QED BY <2>2, <2>4, <2>7, <2>a DEF B
<1>5. \A n \in 1..Cardinality(S) : n - 1 \in Holds => n \in Holds
  BY <1>4
<1> HIDE DEF Holds
<1>6. Cardinality(S) \in Holds
  <2>1. \A n \in 0..Cardinality(S) : n \in Holds
    BY <1>2, <1>3, <1>5, UpToInduction, Zenon
  <2> QED BY <1>2, <2>1
<1>7. g[S] = Cardinality(Of(S))
  BY <1>6 DEF Holds
<1> QED BY <1>1, <1>7

\* A finite set of numbers has a greatest.
LEMMA GreatestElement ==
  ASSUME NEW S \in SUBSET Nat, IsFiniteSet(S), S # {}
  PROVE  Max(S) \in S
<1>1. Cardinality(S) \in Nat \ {0}
  BY FS_CardinalityType, FS_EmptySet
<1> DEFINE Holds == {n \in 0..Cardinality(S) :
                       \A s \in SUBSET S : Cardinality(s) = n /\ s # {} =>
                         \E m \in s : \A y \in s : m >= y}
<1>2. 0 \in Holds
  <2>1. \A s \in SUBSET S : Cardinality(s) = 0 => s = {}
    BY FS_Subset, FS_EmptySet
  <2>2. \A s \in SUBSET S : Cardinality(s) = 0 /\ s # {} => \E m \in s : \A y \in s : m >= y
    BY <2>1, Zenon
  <2>3. 0 \in 0..Cardinality(S)
    BY <1>1
  <2> QED BY <2>2, <2>3
<1>3. ASSUME NEW n \in 1..Cardinality(S), n - 1 \in Holds
      PROVE  n \in Holds
  <2> SUFFICES ASSUME NEW s \in SUBSET S, Cardinality(s) = n, s # {}
               PROVE  \E m \in s : \A y \in s : m >= y
    OBVIOUS
  <2>1. PICK x : x \in s
    OBVIOUS
  <2>2. Cardinality(s \ {x}) = n - 1 /\ s \ {x} \in SUBSET S
    <3>1. IsFiniteSet(s)
      BY FS_Subset
    <3> QED BY <2>1, <3>1, FS_RemoveElement
  <2>3. CASE s \ {x} = {}
    BY <2>1, <2>3
  <2>4. CASE s \ {x} # {}
    <3>1. PICK m \in s \ {x} : \A y \in s \ {x} : m >= y
      BY <1>3, <2>2, <2>4
    <3>2. CASE m >= x
      BY <3>1, <3>2
    <3>3. CASE m < x
      <4>1. \A y \in s : x >= y
        BY <2>1, <3>1, <3>3
      <4> QED BY <2>1, <4>1
    <3> QED BY <2>1, <3>1, <3>2, <3>3
  <2> QED BY <2>3, <2>4
<1>4. \A n \in 1..Cardinality(S) : n - 1 \in Holds => n \in Holds
  BY <1>3
<1> HIDE DEF Holds
<1>5. Cardinality(S) \in Holds
  <2>1. \A n \in 0..Cardinality(S) : n \in Holds
    BY <1>1, <1>2, <1>4, UpToInduction, Zenon
  <2> QED BY <1>1, <2>1
<1>6. \E m \in S : \A y \in S : m >= y
  BY <1>5 DEF Holds
<1> QED BY <1>6 DEF Max

DashInv ==
  /\ people \in [People -> PersonRows \cup {Null}]
  /\ papers \in [Papers -> PaperRows \cup {Null}]
  /\ duties \in [Duties -> DutyRows \cup {Null}]
  /\ time \in 0..EndOfTime
  /\ \A t \in Assigned : duties[t].owner \in Employees

LEMMA DashStep == DashInv /\ [DashNext]_dashVars => DashInv'
<1> SUFFICES ASSUME DashInv, [DashNext]_dashVars PROVE DashInv'
  OBVIOUS
<1>1. \A p \in Employees : p \in People /\ people[p] \in PersonRows
  BY DEF DashInv, Employees
<1>2. ASSUME NEW p \in People, NEW team \in Teams \cup {Null}, Hire(p, team)
      PROVE  DashInv'
  <2> DEFINE row == [stage |-> "invited", team |-> team, created |-> time]
  <2>1. people' = [people EXCEPT ![p] = row] /\ UNCHANGED <<papers, duties, time>>
    BY <1>2 DEF Hire
  <2>2. row \in PersonRows
    BY DashboardBounds DEF PersonRows, DashInv
  <2> HIDE DEF row
  <2>3. row # Null
    BY <2>2, NullIsNoRow
  <2>4. people' \in [People -> PersonRows \cup {Null}] /\ Employees \subseteq Employees'
    BY <2>1, <2>2, <2>3 DEF DashInv, Employees
  <2> QED BY <2>1, <2>4 DEF DashInv, Assigned
<1>3. ASSUME NEW p \in People, NEW s \in Steps \cup {"rejected"}, SetStage(p, s)
      PROVE  DashInv'
  <2> DEFINE row == [people[p] EXCEPT !.stage = s]
  <2>1. people' = [people EXCEPT ![p] = row] /\ UNCHANGED <<papers, duties, time>>
        /\ p \in Employees
    BY <1>3 DEF SetStage
  <2>2. row \in PersonRows
    BY <1>1, <2>1 DEF PersonRows
  <2> HIDE DEF row
  <2>3. row # Null
    BY <2>2, NullIsNoRow
  <2>4. people' \in [People -> PersonRows \cup {Null}] /\ Employees \subseteq Employees'
    BY <2>1, <2>2, <2>3 DEF DashInv, Employees
  <2> QED BY <2>1, <2>4 DEF DashInv, Assigned
<1>4. ASSUME NEW d \in Papers, NEW row \in PaperRows, SetPaper(d, row)
      PROVE  DashInv'
  <2>1. papers' = [papers EXCEPT ![d] = row] /\ UNCHANGED <<people, duties, time>>
    BY <1>4 DEF SetPaper
  <2>2. papers' \in [Papers -> PaperRows \cup {Null}]
    BY <2>1 DEF DashInv
  <2> QED BY <2>1, <2>2 DEF DashInv, Employees, Assigned
<1>5. ASSUME NEW t \in Duties, NEW row \in DutyRows, SetDuty(t, row)
      PROVE  DashInv'
  <2>1. duties' = [duties EXCEPT ![t] = row] /\ UNCHANGED <<people, papers, time>>
        /\ row.owner \in Employees
    BY <1>5 DEF SetDuty
  <2>2. duties' \in [Duties -> DutyRows \cup {Null}] /\ Employees' = Employees
    BY <2>1 DEF DashInv, Employees
  <2>3. \A u \in Assigned' : duties'[u].owner \in Employees
    BY <2>1 DEF DashInv, Assigned
  <2> QED BY <2>1, <2>2, <2>3 DEF DashInv
<1>6. CASE Pass
  <2>1. UNCHANGED <<people, papers, duties>> /\ time' \in 0..EndOfTime
    BY <1>6, DashboardBounds DEF Pass, DashInv
  <2> QED BY <2>1 DEF DashInv, Employees, Assigned
<1>7. CASE UNCHANGED dashVars
  BY <1>7 DEF dashVars, DashInv, Employees, Assigned
<1> QED BY <1>2, <1>3, <1>4, <1>5, <1>6, <1>7 DEF DashNext

LEMMA DashInvariance == DashSpec => []DashInv
<1>1. DashInit => DashInv
  BY DashboardBounds DEF DashInit, DashInv, Assigned
<1> QED BY <1>1, DashStep, PTL DEF DashSpec

\* Parts of the employees.
LEMMA PeopleAreFinite ==
  ASSUME NEW S \in SUBSET Employees
  PROVE  IsFiniteSet(S) /\ Cardinality(S) \in Nat
<1>1. IsFiniteSet(People) /\ S \in SUBSET People
  BY DashboardBounds DEF Employees
<1> QED BY <1>1, FS_Subset, FS_CardinalityType

LEMMA Difference ==
  ASSUME NEW S, IsFiniteSet(S), NEW T \in SUBSET S
  PROVE  /\ Cardinality(S \ T) = Cardinality(S) - Cardinality(T)
         /\ Cardinality(S) \in Nat /\ Cardinality(T) \in Nat
<1>1. IsFiniteSet(T) /\ IsFiniteSet(S \ T)
  BY FS_Subset
<1>2. Cardinality(S) \in Nat /\ Cardinality(T) \in Nat /\ Cardinality(S \ T) \in Nat
  BY <1>1, FS_CardinalityType
<1>3. (S \ T) \cup T = S /\ (S \ T) \cap T = {}
  OBVIOUS
<1>4. Cardinality(S) = Cardinality(S \ T) + Cardinality(T) - Cardinality({})
  BY <1>1, <1>3, FS_Union
<1> QED BY <1>2, <1>4, FS_EmptySet

\* Whoever counts, counts the same people.
LEMMA HeadcountsAlwaysAgree == DashInv => HeadcountsAgree
<1> SUFFICES ASSUME DashInv PROVE HeadcountsAgree
  OBVIOUS
<1> DEFINE stages == Steps \cup {"rejected"}
           done == In({"complete"})
           out == In({"rejected"})
           stage == [p \in Employees |-> people[p].stage]
           team == [p \in Employees |-> Team(p)]
<1>1. \A p \in Employees : people[p].stage \in stages
  BY DEF DashInv, Employees, PersonRows
<1>2. /\ IsFiniteSet(Employees) /\ IsFiniteSet(Steps) /\ IsFiniteSet(stages)
      /\ IsFiniteSet(DepartmentNames)
  <2>1. IsFiniteSet(Employees) /\ IsFiniteSet(Steps)
    BY PeopleAreFinite, DashboardBounds
  <2>2. IsFiniteSet(stages)
    BY <2>1, FS_AddElement
  <2>3. team \in Surjection(Employees, DepartmentNames)
    BY DEF Surjection, DepartmentNames
  <2>4. IsFiniteSet(DepartmentNames)
    BY <2>1, <2>3, FS_Surjection
  <2> QED BY <2>1, <2>2, <2>4
<1>3. FunnelTotal = Count(Employees)
  <2> DEFINE f == [s \in stages |-> Count(In({s}))]
  <2>1. \A s \in stages : f[s] = Cardinality({p \in Employees : stage[p] = s})
    <3> SUFFICES ASSUME NEW s \in stages PROVE f[s] = Cardinality({p \in Employees : stage[p] = s})
      OBVIOUS
    <3>1. In({s}) = {p \in Employees : stage[p] = s}
      BY DEF In
    <3> QED BY <3>1 DEF Count
  <2>2. {p \in Employees : stage[p] \in stages} = Employees
    BY <1>1
  <2>3. FunnelTotal = SumFunction(f) /\ stages = DOMAIN f
    BY Zenon DEF FunnelTotal
  <2> HIDE DEF f, stage, stages
  <2> QED BY <1>2, <2>1, <2>2, <2>3, CountByKey DEF Count
<1>4. FunnelStages = Count(Employees \ out)
  <2> DEFINE f == [s \in Steps |-> Count(In({s}))]
  <2>1. \A s \in Steps : f[s] = Cardinality({p \in Employees : stage[p] = s})
    <3> SUFFICES ASSUME NEW s \in Steps PROVE f[s] = Cardinality({p \in Employees : stage[p] = s})
      OBVIOUS
    <3>1. In({s}) = {p \in Employees : stage[p] = s}
      BY DEF In
    <3> QED BY <3>1 DEF Count
  <2>2. {p \in Employees : stage[p] \in Steps} = Employees \ out
    BY <1>1, DashboardBounds DEF In
  <2>3. FunnelStages = SumFunction(f) /\ Steps = DOMAIN f
    BY Zenon DEF FunnelStages
  <2> HIDE DEF f, stage, out
  <2> QED BY <1>2, <2>1, <2>2, <2>3, CountByKey DEF Count
<1>5. /\ FunnelStages + Count(out) = FunnelTotal
      /\ Count((Employees \ out) \ done) = InProgress
  <2>1. out \in SUBSET Employees /\ done \in SUBSET (Employees \ out)
    BY DEF In
  <2>2. IsFiniteSet(Employees \ out)
    BY PeopleAreFinite
  <2> HIDE DEF out, done
  <2>3. Count(Employees \ out) = Count(Employees) - Count(out) /\ Count(Employees) \in Nat
        /\ Count(out) \in Nat
    BY <1>2, <2>1, Difference DEF Count
  <2>4. Count((Employees \ out) \ done) = Count(Employees \ out) - Count(done) /\ Count(done) \in Nat
    BY <2>1, <2>2, Difference DEF Count
  <2>5. InProgress = Count(Employees) - Count(done) - Count(out)
    BY DEF InProgress, done, out
  <2> QED BY <1>3, <1>4, <2>3, <2>4, <2>5
<1>6. ASSUME NEW E \in SUBSET Employees, NEW f, DOMAIN f = DepartmentNames,
             \A n \in DepartmentNames : f[n] = Cardinality({p \in E : team[p] = n})
      PROVE  SumFunction(f) = Count(E)
  <2>1. {p \in E : team[p] \in DepartmentNames} = E
    BY DEF DepartmentNames
  <2>2. IsFiniteSet(E)
    BY PeopleAreFinite
  <2> HIDE DEF team
  <2>3. SumFunction(f) = Cardinality({p \in E : team[p] \in DepartmentNames})
    BY <1>2, <1>6, <2>2, CountByKey
  <2> QED BY <2>1, <2>3 DEF Count
<1>7. ASSUME NEW n \in DepartmentNames
      PROVE  /\ Department(n).total = Cardinality({p \in Employees : team[p] = n})
             /\ Department(n).complete = Cardinality({p \in done : team[p] = n})
             /\ Department(n).inProgress =
                  Cardinality({p \in (Employees \ out) \ done : team[p] = n})
  <2> DEFINE S == {p \in Employees : Team(p) = n}
  <2>1. S = {p \in Employees : team[p] = n}
    OBVIOUS
  <2>2. S \cap done = {p \in done : team[p] = n}
    BY DEF In
  <2>3. S \ In({"complete", "rejected"}) = {p \in (Employees \ out) \ done : team[p] = n}
    BY DEF In
  <2>4. /\ Department(n).total = Count(S) /\ Department(n).complete = Count(S \cap done)
        /\ Department(n).inProgress = Count(S \ In({"complete", "rejected"}))
    BY DEF Department
  <2> QED BY <2>1, <2>2, <2>3, <2>4 DEF Count
<1>8. SumFunction([n \in DepartmentNames |-> Department(n).total]) = Count(Employees)
  BY <1>6, <1>7
<1>9. SumFunction([n \in DepartmentNames |-> Department(n).complete]) = Count(done)
  <2>1. done \in SUBSET Employees
    BY DEF In
  <2> QED BY <1>6, <1>7, <2>1
<1>a. SumFunction([n \in DepartmentNames |-> Department(n).inProgress]) = InProgress
  BY <1>5, <1>6, <1>7
<1> QED BY <1>3, <1>5, <1>8, <1>9, <1>a DEF HeadcountsAgree

\* Open is not closed, and overdue the same in SQL and in Python.
LEMMA TasksAlwaysAgree == DashInv => TasksAgree
<1> SUFFICES ASSUME DashInv PROVE TasksAgree
  OBVIOUS
<1>1. \A t \in Assigned : /\ duties[t] \in DutyRows /\ duties[t].owner \in Employees
                          /\ duties[t].status \in {"pending", "completed", "waived"}
  BY DEF DashInv, Assigned, DutyRows
<1>2. IsFiniteSet(Assigned) /\ IsFiniteSet(Employees) /\ \A S \in SUBSET Assigned : IsFiniteSet(S)
  <2>1. IsFiniteSet(Duties) /\ Assigned \in SUBSET Duties
    BY DashboardBounds DEF Assigned
  <2>2. IsFiniteSet(Assigned)
    BY <2>1, FS_Subset
  <2> QED BY <2>2, FS_Subset, PeopleAreFinite
<1> DEFINE owner == [t \in Assigned |-> duties[t].owner]
<1>3. ASSUME NEW E \in SUBSET Assigned, NEW f, DOMAIN f = Employees,
             \A p \in Employees : f[p] = Cardinality({t \in E : owner[t] = p})
      PROVE  SumFunction(f) = Count(E)
  <2>1. {t \in E : owner[t] \in Employees} = E
    BY <1>1
  <2> HIDE DEF owner
  <2>2. SumFunction(f) = Cardinality({t \in E : owner[t] \in Employees})
    BY <1>2, <1>3, CountByKey
  <2> QED BY <2>1, <2>2 DEF Count
<1> DEFINE closed == {t \in Assigned : duties[t].status \in {"completed", "waived"}}
<1>4. ASSUME NEW p \in Employees
      PROVE  /\ TaskRow(p).open = Cardinality({t \in Assigned \ closed : owner[t] = p})
             /\ TaskRow(p).overdue = Cardinality({t \in TasksOverdue : owner[t] = p})
             /\ TaskRow(p).mandatoryOpen = MandatoryOpen(p)
  <2> DEFINE S == DutiesOf(p)
             C == {t \in S : Closed(t)}
  <2>1. /\ TaskRow(p).open = Count(S) - Count(C)
        /\ TaskRow(p).overdue = Count({t \in S : IsOverdue(t)})
        /\ TaskRow(p).mandatoryOpen = Count({t \in S : duties[t].mandatory /\ ~ Closed(t)})
    BY DEF TaskRow
  <2>2. S \subseteq Assigned /\ C \subseteq S
    BY DEF DutiesOf
  <2>3. S \ C = {t \in Assigned \ closed : owner[t] = p}
    BY DEF DutiesOf, Closed
  <2>4. {t \in S : IsOverdue(t)} = {t \in TasksOverdue : owner[t] = p}
    BY <1>1 DEF DutiesOf, IsOverdue, Closed, TasksOverdue, OpenDuties
  <2>5. {t \in S : duties[t].mandatory /\ ~ Closed(t)} =
          {t \in S : duties[t].mandatory /\ duties[t].status = "pending"}
    BY <1>1, <2>2 DEF Closed
  <2>6. MandatoryOpen(p) = Count({t \in S : duties[t].mandatory /\ duties[t].status = "pending"})
    BY DEF MandatoryOpen
  <2> HIDE DEF S, C
  <2>7. Count(S) - Count(C) = Count(S \ C)
    BY <1>2, <2>2, Difference DEF Count
  <2>8. TaskRow(p).mandatoryOpen = MandatoryOpen(p)
    BY <2>1, <2>5, <2>6
  <2> QED BY <2>1, <2>3, <2>4, <2>7, <2>8 DEF Count
<1>5. SumFunction([p \in Employees |-> TaskRow(p).open]) = TasksOpen
  <2>1. Assigned \ closed \in SUBSET Assigned
    OBVIOUS
  <2>2. SumFunction([p \in Employees |-> TaskRow(p).open]) = Count(Assigned \ closed)
    BY <1>3, <1>4, <2>1
  <2>3. Count(Assigned \ closed) = Count(Assigned) - Count(closed)
    BY <1>2, Difference DEF Count
  <2> QED BY <2>2, <2>3 DEF TasksOpen
<1>6. SumFunction([p \in Employees |-> TaskRow(p).overdue]) = Count(TasksOverdue)
  <2>1. TasksOverdue \in SUBSET Assigned
    BY DEF TasksOverdue, OpenDuties
  <2> QED BY <1>3, <1>4, <2>1
<1> QED BY <1>4, <1>5, <1>6 DEF TasksAgree

\* An approval is missing where no cell says approved.
LEMMA ComplianceAlwaysAgrees == ComplianceAgrees
<1> SUFFICES ASSUME NEW p \in Employees, NEW k \in Kinds
             PROVE  k \in MissingApprovals(p) <=> ComplianceCell(p, k) # "approved"
  BY DEF ComplianceAgrees, MissingApprovals
<1> DEFINE S == {d \in PapersOf(p) : papers[d].type = k}
<1>1. k \in MissingApprovals(p) <=> \A d \in S : papers[d].status # "approved"
  BY DEF MissingApprovals
<1>2. S \in SUBSET Nat /\ IsFiniteSet(S)
  <2>1. S \in SUBSET Papers
    BY DEF PapersOf
  <2> QED BY <2>1, DashboardBounds, FS_Subset
<1>3. S # {} => Max(S) \in S
  BY <1>2, GreatestElement
<1>4. ComplianceCell(p, k) = IF S = {} THEN "not uploaded"
                             ELSE IF \E d \in S : papers[d].status = "approved" THEN "approved"
                             ELSE papers[Max(S)].status
  BY DEF ComplianceCell
<1> HIDE DEF S
<1> QED BY <1>1, <1>3, <1>4

\* The window of the trends, in days, is the last Days of them.
LEMMA TrendsAreAlwaysDaily == DashInv => TrendsAreDaily
<1> SUFFICES ASSUME DashInv, NEW day \in 0..Today
             PROVE  /\ day > Day(WindowStart) =>
                         TrendPoint(day) = Count({p \in Employees : Day(people[p].created) = day})
                    /\ day < Day(WindowStart) => TrendPoint(day) = 0
  BY DEF TrendsAreDaily
<1> DEFINE W == WindowStart
<1>1. time \in Nat /\ DayLength \in Nat \ {0} /\ Days \in Nat \ {0}
  BY DashboardBounds DEF DashInv
<1>2. Day(W) = Today - (Days - 1) /\ W \in Int
  <2>1. W = time - (Days - 1) * DayLength /\ (Days - 1) * DayLength \in Int
    BY <1>1 DEF WindowStart
  <2>2. (time - (Days - 1) * DayLength) \div DayLength = (time \div DayLength) - (Days - 1)
    BY <1>1, DivisionShifts
  <2> QED BY <1>1, <2>1, <2>2 DEF Day, Today
<1>3. Today \in Int
  BY <1>1, DivisionIsMonotone DEF Today, Day
<1>4. \A p \in Employees : people[p].created \in Nat
  BY DashboardBounds DEF DashInv, Employees, PersonRows
<1> HIDE DEF W
<1>5. \A c \in Nat : Day(c) > Day(W) => c >= W
  <2> SUFFICES ASSUME NEW c \in Nat, c < W PROVE Day(c) <= Day(W) /\ Day(c) \in Int /\ Day(W) \in Int
    BY <1>2
  <2> QED BY <1>1, <1>2, DivisionIsMonotone DEF Day
<1>6. TrendPoint(day) = Count({p \in Employees :
                           /\ people[p].created >= W /\ Day(people[p].created) = day
                           /\ day \in Day(W)..(Day(W) + Days - 1)})
  BY DEF TrendPoint, W
<1>7. ASSUME day > Day(W)
      PROVE  TrendPoint(day) = Count({p \in Employees : Day(people[p].created) = day})
  <2>1. day \in Day(W)..(Day(W) + Days - 1)
    BY <1>1, <1>2, <1>3, <1>7
  <2>2. \A p \in Employees : Day(people[p].created) = day => people[p].created >= W
    BY <1>4, <1>5, <1>7
  <2>3. {p \in Employees : /\ people[p].created >= W /\ Day(people[p].created) = day
                           /\ day \in Day(W)..(Day(W) + Days - 1)}
          = {p \in Employees : Day(people[p].created) = day}
    BY <2>1, <2>2
  <2> QED BY <1>6, <2>3
<1>8. ASSUME day < Day(W)
      PROVE  TrendPoint(day) = 0
  <2>1. day \notin Day(W)..(Day(W) + Days - 1)
    BY <1>1, <1>2, <1>3, <1>8
  <2>2. {p \in Employees : /\ people[p].created >= W /\ Day(people[p].created) = day
                           /\ day \in Day(W)..(Day(W) + Days - 1)} = {}
    BY <2>1
  <2> QED BY <1>6, <2>2, FS_EmptySet DEF Count
<1> QED BY <1>7, <1>8 DEF W

LEMMA ViewsAlwaysAgree == DashSpec => []ViewsAgree
<1>1. DashInv => ViewsAgree
  BY HeadcountsAlwaysAgree, TasksAlwaysAgree, ComplianceAlwaysAgrees, TrendsAreAlwaysDaily
     DEF ViewsAgree
<1> QED BY <1>1, DashInvariance, PTL

-----------------------------------------------------------------------------
(***************************************************************************)
(* A browser tab.                                                          *)
(***************************************************************************)

\* The refresh in flight is that of the account on the page, and of the tokens
\* that are there: this is what makes it safe to store its answer.
RefreshIsTheUsers ==
  ~ late /\ inFlight # None =>
    user # None /\ inFlight.token.of = user /\ inFlight.token = Read(refresh)

BrowserInv == OneCopy /\ TokensAreTheUsers /\ RefreshIsTheUsers

USE DEF BrowserInv, OneCopy, TokensAreTheUsers, RefreshIsTheUsers

\* After tokens.set there is the token, and only in one store.
LEMMA SetSets ==
  ASSUME NEW f, NEW store \in Stores, NEW token
  PROVE  /\ Read(Set(f, store, token)) = token
         /\ \/ Set(f, store, token)["local"] = None
            \/ Set(f, store, token)["session"] = None
BY DEF Read, Set, Stores

\* After tokens.clear there is none.
LEMMA Cleared ==
  ASSUME NEW f, f = [s \in Stores |-> None]
  PROVE  Read(f) = None /\ f["local"] = None /\ f["session"] = None
BY DEF Read, Stores

LEMMA SignInKeeps ==
  ASSUME BrowserInv, NEW a \in Accounts, NEW store \in Stores, SignIn(a, store)
  PROVE  BrowserInv'
<1> DEFINE token == [of |-> a, nr |-> signIns']
<1>1. /\ access' = Set(access, store, token) /\ refresh' = Set(refresh, store, token)
      /\ user = None /\ user' = a /\ UNCHANGED <<inFlight, late>>
  BY DEF SignIn
<1>2. a # None /\ token.of = a
  BY BrowserBounds
<1> HIDE DEF token
<1>3. Read(access') = token /\ Read(refresh') = token
  BY <1>1, SetSets
<1>4. OneCopy'
  BY <1>1, SetSets
<1>5. TokensAreTheUsers'
  BY <1>1, <1>2, <1>3 DEF Read
<1>6. RefreshIsTheUsers'
  BY <1>1
<1> QED BY <1>4, <1>5, <1>6

LEMMA RefreshKeeps ==
  ASSUME BrowserInv, RefreshSucceeds
  PROVE  BrowserInv'
<1>1. PICK store \in Stores : access' = Set(access, store, inFlight.token)
  BY DEF RefreshSucceeds, Stores
<1>2. UNCHANGED <<refresh, user, late>> /\ inFlight # None /\ inFlight' = None
  BY DEF RefreshSucceeds
<1>3. Read(access') = inFlight.token
  BY <1>1, SetSets
<1>4. OneCopy'
  BY <1>1, <1>2, SetSets
<1>5. TokensAreTheUsers'
  BY <1>2, <1>3 DEF Read
<1> QED BY <1>2, <1>4, <1>5

LEMMA BrowserStep == BrowserInv /\ [BrowserNext]_browserVars => BrowserInv'
<1> SUFFICES ASSUME BrowserInv, [BrowserNext]_browserVars PROVE BrowserInv'
  OBVIOUS
<1>1. CASE UNCHANGED <<access, refresh, inFlight, user, late>>
  BY <1>1 DEF Read
<1>2. ASSUME NEW r \in Fetches, Unauthorised(r) PROVE BrowserInv'
  <2>1. UNCHANGED <<access, refresh, user, late>> /\ Read(refresh) # None
    BY <1>2 DEF Unauthorised
  <2>2. inFlight' = inFlight \/ inFlight'.token = Read(refresh)
    BY <1>2 DEF Unauthorised
  <2> QED BY <2>1, <2>2 DEF Read
<1>3. CASE ServerRefreshes
  <2>1. UNCHANGED <<access, refresh, user, late>> /\ inFlight # None
    BY <1>3 DEF ServerRefreshes
  <2>2. inFlight'.token = inFlight.token
    BY <1>3 DEF ServerRefreshes
  <2> QED BY <2>1, <2>2 DEF Read
<1>4. CASE RefreshFails
  <2>1. UNCHANGED <<user, late>> /\ inFlight' = None
    BY <1>4 DEF RefreshFails
  <2>2. CASE UNCHANGED <<access, refresh>>
    BY <2>1, <2>2 DEF Read
  <2>3. CASE access' = [s \in Stores |-> None] /\ refresh' = [s \in Stores |-> None]
    BY <2>1, <2>3, Cleared
  <2> QED BY <1>4, <2>2, <2>3 DEF RefreshFails
<1>5. CASE SignedOut
  <2>1. /\ access' = [s \in Stores |-> None] /\ refresh' = [s \in Stores |-> None]
        /\ late' = (late \/ inFlight # None) /\ inFlight' = inFlight
    BY <1>5 DEF SignedOut, Clear
  <2> QED BY <2>1, Cleared
<1> QED BY <1>1, <1>2, <1>3, <1>4, <1>5, SignInKeeps, RefreshKeeps
      DEF BrowserNext, RunOut, Send, Answered, SignOut, browserVars

LEMMA BrowserInvariance == BrowserSpec => []BrowserInv
<1>1. BrowserInit => BrowserInv
  BY Cleared DEF BrowserInit
<1> QED BY <1>1, BrowserStep, PTL DEF BrowserSpec

\* However sign-ins, sign-outs, requests and refreshes follow each other, no
\* token is in both stores, and until a sign-out overtakes a refresh the tokens
\* are those of the account on the page.
THEOREM BrowserStaysConsistent == BrowserSpec => []BrowserIsConsistent
BY BrowserInvariance, PTL DEF BrowserIsConsistent

-----------------------------------------------------------------------------
(***************************************************************************)
(* What is proved of the parts, and of all of them together.               *)
(***************************************************************************)

\* Among any Limit + 1 admissions the first and the last are a window apart, less
\* the lag; whoever is refused is told a time at which, if nobody came before,
\* the request is admitted; and a refusal means that the window is used up.
THEOREM WindowSlides == RateSpec => []SlidingWindow
<1>1. RateInv => SlidingWindow
  BY NobodyIsWronged DEF RateInv, SlidingWindow
<1> QED BY <1>1, RateInvariance, PTL

\* The rows of the catalogue and of the calendar, their unique columns and links,
\* and the times of the limiter.
THEOREM ServicesTypeCorrect == RateSpec /\ CatSpec /\ HolSpec => []ServicesTypeOK
<1>1. RateInv /\ CatInv /\ HolInv => ServicesTypeOK
  BY DEF RateInv, CatInv, HolInv, ServicesTypeOK
<1> QED BY <1>1, RateInvariance, CatInvariance, HolInvariance, PTL

\* A template with tasks stays and no name is shadowed, unless two transactions
\* on those rows overlapped.
THEOREM ChecksHold == CatSpec /\ HolSpec => []ChecksHoldWithoutRaces
<1>1. CatInv /\ HolInv => ChecksHoldWithoutRaces
  BY DEF CatInv, HolInv, ChecksHoldWithoutRaces
<1> QED BY <1>1, CatInvariance, HolInvariance, PTL

\* What two readers compute from the same rows agrees: the header of the calendar
\* with its list, the pages and the export of the audit log with the log, but for
\* what is committed between a count and its query, and the dashboard with the
\* reports.
THEOREM ReadersAlwaysAgree == HolSpec /\ AuditSpec /\ DashSpec => []ReadersAgree
<1>1. AuditSpec => [](PagesMissNothing /\ TruncationIsSaid)
  BY AuditInvariance, ReadersMissNothing, PTL
<1>2. ViewsAgree /\ HeaderAgreesWithList /\ (PagesMissNothing /\ TruncationIsSaid) => ReadersAgree
  BY DEF ReadersAgree
<1> QED BY <1>1, <1>2, HeaderInvariance, ViewsAlwaysAgree, PTL

\* A behaviour of the composition is one of each of its parts: what is proved
\* of them holds of it.
THEOREM PartsOfServices ==
  MCSpec => RateSpec /\ CatSpec /\ HolSpec /\ AuditSpec /\ DashSpec /\ BrowserSpec
<1>1. MCInit => RateInit /\ CatInit /\ HolInit /\ AuditInit /\ DashInit /\ BrowserInit
  BY DEF MCInit
<1>2. [MCNext]_<<rateVars, catVars, holVars, auditVars, dashVars, browserVars, part>> =>
        /\ [RateNext]_rateVars /\ [CatNext]_catVars /\ [HolNext]_holVars
        /\ [AuditNext]_auditVars /\ [DashNext]_dashVars /\ [BrowserNext]_browserVars
  BY DEF MCNext
<1> QED BY <1>1, <1>2, PTL
      DEF MCSpec, RateSpec, CatSpec, HolSpec, AuditSpec, DashSpec, BrowserSpec
=============================================================================
