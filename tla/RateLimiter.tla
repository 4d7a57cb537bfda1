---------------------------- MODULE RateLimiter ----------------------------
(***************************************************************************)
(* The in-memory rate limiter (core/ratelimit.py): a sliding window of the *)
(* times of the requests admitted, per key, shared by the threads of one   *)
(* process. A thread takes the time before it takes the lock, so the times *)
(* of a window need not be in order.                                       *)
(***************************************************************************)
EXTENDS Integers, Sequences, FiniteSets

CONSTANTS
  Subjects,    \* the keys: a bucket and a user or an address
  Callers,     \* the threads serving requests
  Limit,       \* the rule: so many requests in ...
  Span,        \* ... window_seconds, in ticks
  Second,      \* the ticks of a second
  Lag,         \* bound: ticks from a thread's reading the clock to its lock
  LastTick,    \* bound: the last tick of the clock
  MaxRestarts, \* bound: restarts of the process
  NotYet       \* a thread without a request; a key nobody was refused

ASSUME RateBounds ==
  /\ {Lag, LastTick, MaxRestarts} \subseteq Nat
  /\ {Limit, Span, Second} \subseteq Nat \ {0} /\ Lag < Span
  /\ NotYet \notin Int

VARIABLES
  window,    \* key -> the times in its deque
  call,      \* thread -> its key and the time it read, or NotYet
  tick,      \* time.monotonic
  admitted,  \* key -> when its requests were admitted since the restart
  retryAt,   \* key -> the earliest time a caller refused since the last
             \* admission was told to come back, or NotYet
  restarts

rateVars == <<window, call, tick, admitted, retryAt, restarts>>

Now(t) == call[t].now

RateInit ==
  /\ window = [k \in Subjects |-> <<>>]
  /\ call = [t \in Callers |-> NotYet]
  /\ tick = 0
  /\ admitted = [k \in Subjects |-> <<>>]
  /\ retryAt = [k \in Subjects |-> NotYet]
  /\ restarts = 0

\* popleft while the oldest is out of the window: what is behind a later time
\* stays.
Expire(s, cutoff) ==
  LET first == CHOOSE i \in 1..(Len(s) + 1) :
                 /\ \A j \in 1..(i - 1) : s[j] <= cutoff
                 /\ i \in DOMAIN s => s[i] > cutoff
  IN  SubSeq(s, first, Len(s))

\* client_key and the reading of the clock.
Arrive(t, k) ==
  /\ call[t] = NotYet
  /\ call' = [call EXCEPT ![t] = [key |-> k, now |-> tick]]
  /\ UNCHANGED <<window, tick, admitted, retryAt, restarts>>

\* The window of a key as the thread finds it, under the lock.
Recent(t) == Expire(window[call[t].key], Now(t) - Span)

\* Mutant: one too many.
AllowsOneMore(t) == Len(Recent(t)) <= Limit

Allows(t) == Len(Recent(t)) < Limit

\* Mutant: whole seconds, rounded down.
RetryAfterFloor(t) == (Recent(t)[1] + Span - Now(t)) \div Second

\* max(1, int(...) + 1), in whole seconds; the window's oldest is not expired.
RetryAfter(t) == (Recent(t)[1] + Span - Now(t)) \div Second + 1

\* hit: admitted.
Admit(t) ==
  LET k == call[t].key
  IN  /\ call[t] # NotYet /\ Allows(t)
      /\ window' = [window EXCEPT ![k] = Append(Recent(t), Now(t))]
      /\ admitted' = [admitted EXCEPT ![k] = Append(@, tick)]
      /\ retryAt' = [retryAt EXCEPT ![k] = NotYet]
      /\ call' = [call EXCEPT ![t] = NotYet]
      /\ UNCHANGED <<tick, restarts>>

\* hit refused it: enforce answers 429 with the seconds to wait.
Refuse(t) ==
  LET k == call[t].key
      due == Now(t) + RetryAfter(t) * Second
  IN  /\ call[t] # NotYet /\ ~ Allows(t)
      /\ window' = [window EXCEPT ![k] = Recent(t)]
      /\ retryAt' = [retryAt EXCEPT ![k] = IF @ = NotYet \/ due < @ THEN due ELSE @]
      /\ call' = [call EXCEPT ![t] = NotYet]
      /\ UNCHANGED <<tick, admitted, restarts>>

\* A restart forgets everything.
Forget ==
  /\ restarts < MaxRestarts /\ restarts' = restarts + 1
  /\ window' = [k \in Subjects |-> <<>>]
  /\ call' = [t \in Callers |-> NotYet]
  /\ admitted' = [k \in Subjects |-> <<>>]
  /\ retryAt' = [k \in Subjects |-> NotYet]
  /\ UNCHANGED tick

Tick ==
  /\ tick < LastTick /\ tick' = tick + 1
  /\ \A t \in Callers : call[t] # NotYet => tick' <= Now(t) + Lag
  /\ UNCHANGED <<window, call, admitted, retryAt, restarts>>

RateNext ==
  \/ \E t \in Callers, k \in Subjects : Arrive(t, k)
  \/ \E t \in Callers : Admit(t)
  \/ \E t \in Callers : Refuse(t)
  \/ Forget
  \/ Tick

RateSpec == RateInit /\ [][RateNext]_rateVars

-----------------------------------------------------------------------------
(***************************************************************************)
(* Properties.                                                             *)
(***************************************************************************)

\* The times read are not after the clock, and a deque never outgrows the rule.
RateTypeOK ==
  /\ \A k \in Subjects : /\ window[k] \in Seq(0..tick)
                         /\ Len(window[k]) <= Limit
                         /\ admitted[k] \in Seq(0..tick)
  /\ \A t \in Callers : call[t] # NotYet =>
       /\ call[t] \in [key : Subjects, now : 0..tick]
       /\ tick <= Now(t) + Lag

\* Sliding rather than fixed buckets (ratelimit.py:87-89): among any Limit + 1
\* admissions of a key the first and the last are a window apart, less what a
\* thread waited for the lock.
RateHolds ==
  \A k \in Subjects : \A i \in DOMAIN admitted[k] :
    i + Limit \in DOMAIN admitted[k] =>
      admitted[k][i + Limit] - admitted[k][i] >= Span - Lag

\* A caller that comes back when a 429 told it to, and before anybody else was
\* admitted, is admitted; and nobody is refused that the admissions of about
\* one window do not use up.
RefusalsAreFair ==
  \A t \in Callers : call[t] # NotYet =>
    LET k == call[t].key
    IN  /\ retryAt[k] # NotYet /\ Now(t) >= retryAt[k] => Allows(t)
        /\ ~ Allows(t) =>
             Limit <= Cardinality({i \in DOMAIN admitted[k] :
                                     admitted[k][i] > Now(t) - Span - Lag})
=============================================================================
