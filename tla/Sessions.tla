------------------------------ MODULE Sessions ------------------------------
(***************************************************************************)
(* One account: signing in, the lockout, refresh tokens, password changes  *)
(* and resets, and an administrator switching it off and on                *)
(* (api/v1/auth.py, api/v1/users.py, core/deps.py, core/security.py), as   *)
(* transactions of concurrent threads.                                     *)
(***************************************************************************)
EXTENDS Integers

CONSTANTS
  Desks,        \* the threads serving requests
  MaxSessions,  \* bound: refresh tokens ever stored
  MaxResets,    \* bound: reset links ever mailed
  MaxChanges,   \* bound: password changes
  LastMinute,   \* bound: the last tick of the clock
  MaxFailures,  \* MAX_FAILED_LOGIN_ATTEMPTS
  LockTime,     \* ACCOUNT_LOCKOUT_MINUTES, in ticks; the lives of the tokens:
  AccessLife, RefreshLife, ResetLife,
  Never         \* a NULL time; no row

ASSUME SessionBounds ==
  /\ {MaxSessions, MaxResets, MaxChanges, LastMinute} \subseteq Nat
  /\ {MaxFailures, LockTime, AccessLife, RefreshLife, ResetLife} \subseteq Nat \ {0}
  /\ Never \notin Int

SessionIds == 1..MaxSessions
ResetIds == 1..MaxResets
Minutes == 0..LastMinute

UserRows ==
  [active : BOOLEAN, password : 0..MaxChanges,   \* the hash: how often it was changed
   failures : 0..(MaxFailures - 1), locked : Nat \cup {Never}]

SessionRows == [opened : Minutes, revoked : Minutes \cup {Never}]
ResetRows == [expires : Nat, used : Minutes \cup {Never}]

ASSUME NeverAssumption == Never \notin SessionRows /\ Never \notin ResetRows

VARIABLES
  user,         \* the account's row
  session,      \* refresh token -> row or Never
  reset,        \* reset link -> row or Never
  access,       \* the access tokens issued: for a session, until a minute
  minute,       \* the clock
  desk,         \* thread -> its open transaction
  changedAt,    \* when the password last changed
  idleSince,    \* when the account was last switched off
  resetsDone    \* the resets made: link and time

sesVars == <<user, session, reset, access, minute, desk, changedAt, idleSince, resetsDone>>

Ready == [op |-> "ready"]

Stored == {s \in SessionIds : session[s] # Never}
Unrevoked == {s \in Stored : session[s].revoked = Never}
Unexpired == {s \in Stored : session[s].opened + RefreshLife > minute}

Locked == user.locked # Never /\ user.locked > minute

\* get_current_user: a good access token of an account that is switched on.
SignedIn == user.active /\ \E a \in access : a.until > minute

SesInit ==
  /\ user = [active |-> TRUE, password |-> 0, failures |-> 0, locked |-> Never]
  /\ session = [s \in SessionIds |-> Never]
  /\ reset = [r \in ResetIds |-> Never]
  /\ access = {} /\ minute = 0
  /\ desk = [h \in Desks |-> Ready]
  /\ changedAt = 0 /\ idleSince = Never /\ resetsDone = {}

-----------------------------------------------------------------------------
(***************************************************************************)
(* The reads. A transaction keeps the account's row as it was (read), the  *)
(* sessions it will revoke, and the link it uses.                          *)
(***************************************************************************)
Open(h, op, S, r) ==
  /\ desk[h] = Ready
  /\ desk' = [desk EXCEPT ![h] = [op |-> op, read |-> user, ends |-> S, link |-> r]]
  /\ UNCHANGED <<user, session, reset, access, minute, changedAt, idleSince, resetsDone>>

\* Mutant: the lock is not looked at.
ReadLoginLocked(h, right) ==
  /\ right => user.active
  /\ Open(h, IF right THEN "login" ELSE "fail", {}, 0)

\* POST /auth/login of a known address.
ReadLogin(h, right) ==
  /\ ~ Locked
  /\ right => user.active
  /\ Open(h, IF right THEN "login" ELSE "fail", {}, 0)

\* Mutants: a revoked session, an account switched off.
ReadRefreshRevoked(h, s) ==
  s \in Stored \cap Unexpired /\ user.active /\ Open(h, "refresh", {s}, 0)

ReadRefreshInactive(h, s) == s \in Unrevoked \cap Unexpired /\ Open(h, "refresh", {s}, 0)

\* POST /auth/refresh
ReadRefresh(h, s) ==
  s \in Unrevoked \cap Unexpired /\ user.active /\ Open(h, "refresh", {s}, 0)

\* POST /auth/logout, DELETE /profile/sessions/{id}
ReadRevokeOne(h, s) == SignedIn /\ s \in Unrevoked /\ Open(h, "revoke", {s}, 0)

\* POST /profile/sessions/revoke-all
ReadRevokeAll(h) == SignedIn /\ Open(h, "revoke", Unrevoked \cap Unexpired, 0)

\* POST /profile/password, with the current password.
ReadChange(h) == SignedIn /\ Open(h, "change", Unrevoked, 0)

\* Mutant: a link that was used is good until it expires.
ReadResetUsed(h, r) ==
  /\ reset[r] # Never /\ reset[r].expires > minute
  /\ user.active
  /\ Open(h, "reset", Unrevoked, r)

\* POST /auth/reset-password
ReadReset(h, r) ==
  /\ reset[r] # Never /\ reset[r].used = Never /\ reset[r].expires > minute
  /\ user.active
  /\ Open(h, "reset", Unrevoked, r)

\* PATCH /users/{id}
ReadUpdate(h, on) == Open(h, IF on THEN "enable" ELSE "disable", {}, 0)

-----------------------------------------------------------------------------
(***************************************************************************)
(* The commits. Of the account's row a session writes the columns whose    *)
(* value differs from the one it read.                                     *)
(***************************************************************************)
Holding(h, op) == desk[h] # Ready /\ desk[h].op = op

Close(h) == desk' = [desk EXCEPT ![h] = Ready]

Write(h, new) ==
  user' = [f \in DOMAIN user |-> IF new[f] # desk[h].read[f] THEN new[f] ELSE user[f]]

Revoke(S) ==
  session' = [s \in SessionIds |->
                IF s \in S THEN [session[s] EXCEPT !.revoked = minute] ELSE session[s]]

Issue(s) == access' = access \cup {[of |-> s, until |-> minute + AccessLife]}

Unlocked(row) == [row EXCEPT !.failures = 0, !.locked = Never]

\* Mutant: the counter goes on from where it was when the lock was set.
CommitFailCounting(h) ==
  /\ Holding(h, "fail")
  /\ LET row == desk[h].read
         failures == row.failures + 1
     IN  Write(h, [row EXCEPT !.failures = failures,
                              !.locked = IF failures >= MaxFailures THEN minute + LockTime ELSE @])
  /\ Close(h)
  /\ UNCHANGED <<session, reset, access, minute, changedAt, idleSince, resetsDone>>

CommitFail(h) ==
  /\ Holding(h, "fail")
  /\ LET row == desk[h].read
         failures == row.failures + 1
     IN  Write(h, IF failures >= MaxFailures
                  THEN [row EXCEPT !.failures = 0, !.locked = minute + LockTime]
                  ELSE [row EXCEPT !.failures = failures])
  /\ Close(h)
  /\ UNCHANGED <<session, reset, access, minute, changedAt, idleSince, resetsDone>>

\* _issue_token_pair
CommitLogin(h) ==
  /\ Holding(h, "login")
  /\ \E s \in SessionIds :
       /\ s \notin Stored /\ 1..(s - 1) \subseteq Stored
       /\ session' = [session EXCEPT ![s] = [opened |-> minute, revoked |-> Never]]
       /\ Issue(s)
  /\ Write(h, Unlocked(desk[h].read))
  /\ Close(h)
  /\ UNCHANGED <<reset, minute, changedAt, idleSince, resetsDone>>

CommitRefresh(h) ==
  /\ Holding(h, "refresh")
  /\ \E s \in desk[h].ends : Issue(s)
  /\ Close(h)
  /\ UNCHANGED <<user, session, reset, minute, changedAt, idleSince, resetsDone>>

CommitRevoke(h) ==
  /\ Holding(h, "revoke")
  /\ Revoke(desk[h].ends)
  /\ Close(h)
  /\ UNCHANGED <<user, reset, access, minute, changedAt, idleSince, resetsDone>>

\* Mutant: only the password changes.
CommitChangeOnly(h) ==
  /\ Holding(h, "change") /\ user.password < MaxChanges
  /\ user' = [user EXCEPT !.password = @ + 1]
  /\ changedAt' = minute
  /\ Close(h)
  /\ UNCHANGED <<session, reset, access, minute, idleSince, resetsDone>>

CommitChange(h) ==
  /\ Holding(h, "change") /\ user.password < MaxChanges
  /\ user' = [user EXCEPT !.password = @ + 1]
  /\ Revoke(desk[h].ends)
  /\ changedAt' = minute
  /\ Close(h)
  /\ UNCHANGED <<reset, access, minute, idleSince, resetsDone>>

CommitReset(h) ==
  /\ Holding(h, "reset") /\ user.password < MaxChanges
  /\ Write(h, [Unlocked(desk[h].read) EXCEPT !.password = user.password + 1])
  /\ Revoke(desk[h].ends)
  /\ reset' = [reset EXCEPT ![desk[h].link].used = minute]
  /\ changedAt' = minute
  /\ resetsDone' = resetsDone \cup {<<desk[h].link, minute>>}
  /\ Close(h)
  /\ UNCHANGED <<access, minute, idleSince>>

CommitUpdate(h) ==
  /\ \/ Holding(h, "enable") /\ Write(h, [Unlocked(desk[h].read) EXCEPT !.active = TRUE])
     \/ Holding(h, "disable") /\ Write(h, [desk[h].read EXCEPT !.active = FALSE])
  /\ idleSince' = IF user.active /\ ~ user'.active THEN minute ELSE idleSince
  /\ Close(h)
  /\ UNCHANGED <<session, reset, access, minute, changedAt, resetsDone>>

\* POST /auth/forgot-password. It changes nothing it has read.
ForgotPassword ==
  /\ user.active
  /\ \E r \in ResetIds :
       /\ reset[r] = Never /\ \A q \in 1..(r - 1) : reset[q] # Never
       /\ reset' = [reset EXCEPT ![r] = [expires |-> minute + ResetLife, used |-> Never]]
  /\ UNCHANGED <<user, session, access, minute, desk, changedAt, idleSince, resetsDone>>

\* An error or a crash before the commit.
Drop(h) ==
  /\ desk[h] # Ready /\ Close(h)
  /\ UNCHANGED <<user, session, reset, access, minute, changedAt, idleSince, resetsDone>>

\* Bound: a tick of the clock is longer than any handler.
MinutePasses ==
  /\ minute + 1 \in Minutes /\ \A h \in Desks : desk[h] = Ready
  /\ minute' = minute + 1
  /\ UNCHANGED <<user, session, reset, access, desk, changedAt, idleSince, resetsDone>>

SesNext ==
  \/ \E h \in Desks, b \in BOOLEAN : ReadLogin(h, b)
  \/ \E h \in Desks, s \in SessionIds : ReadRefresh(h, s)
  \/ \E h \in Desks, s \in SessionIds : ReadRevokeOne(h, s)
  \/ \E h \in Desks : ReadRevokeAll(h)
  \/ \E h \in Desks : ReadChange(h)
  \/ \E h \in Desks, r \in ResetIds : ReadReset(h, r)
  \/ \E h \in Desks, b \in BOOLEAN : ReadUpdate(h, b)
  \/ \E h \in Desks : CommitFail(h)
  \/ \E h \in Desks : CommitLogin(h)
  \/ \E h \in Desks : CommitRefresh(h)
  \/ \E h \in Desks : CommitRevoke(h)
  \/ \E h \in Desks : CommitChange(h)
  \/ \E h \in Desks : CommitReset(h)
  \/ \E h \in Desks : CommitUpdate(h)
  \/ \E h \in Desks : Drop(h)
  \/ ForgotPassword
  \/ MinutePasses

SesSpec == SesInit /\ [][SesNext]_sesVars

-----------------------------------------------------------------------------
(***************************************************************************)
(* Properties.                                                             *)
(***************************************************************************)

\* Type invariant; the count of failures starts afresh with every lock.
SesTypeOK ==
  /\ user \in UserRows
  /\ session \in [SessionIds -> SessionRows \cup {Never}]
  /\ reset \in [ResetIds -> ResetRows \cup {Never}]
  /\ \A a \in access : a.of \in Stored /\ a.until \in Nat
  /\ minute \in Minutes

\* "Force every existing session to re-authenticate" (auth.py:277): every
\* session opened before the minute of the last password change is revoked.
PasswordEndsSessions ==
  \A s \in Stored : session[s].opened < changedAt => session[s].revoked # Never

\* "Any access token already issued stops working within
\* ACCESS_TOKEN_EXPIRE_MINUTES" (users.py:180), also one that a refresh issues
\* while its session is being revoked.
RevocationBites ==
  \A a \in access :
    session[a.of].revoked # Never => a.until <= session[a.of].revoked + AccessLife

\* While an account is locked nobody signs in, but for a thread that had read it
\* unlocked and was running when the lock was set.
LockHolds ==
  [][\A s \in SessionIds :
       session[s] = Never /\ session'[s] # Never /\ Locked => user.locked = minute + LockTime]_sesVars

\* Since the minute an account was switched off it has been given nothing.
InactiveGetsNothing ==
  ~ user.active =>
    /\ \A s \in Stored : session[s].opened <= idleSince
    /\ \A a \in access : a.until <= idleSince + AccessLife

\* A reset link works at one moment only.
ResetOnce ==
  \A x, y \in resetsDone : x[1] = y[1] => x[2] = y[2]
=============================================================================
