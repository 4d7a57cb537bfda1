--------------------------- MODULE BrowserSession ---------------------------
(***************************************************************************)
(* The tokens in one tab of the browser (frontend/src/lib/api.js,          *)
(* context/AuthContext.jsx). Requests that are answered 401 share one      *)
(* refresh; signing out and in goes on meanwhile. JavaScript runs one      *)
(* continuation at a time, so an action is what happens between awaits.    *)
(*                                                                         *)
(* The server is external: a refresh token works until its session is      *)
(* revoked, an access token until it has run out (Sessions).               *)
(***************************************************************************)
EXTENDS Naturals

CONSTANTS
  Accounts,    \* the people who share the browser
  Fetches,     \* requests of the page that may be in flight at once
  Uploads,     \* those that send a file, with their progress
  MaxSignIns,  \* bound: sign-ins
  None         \* no token, nobody, nothing in flight

ASSUME BrowserBounds == MaxSignIns \in Nat /\ None \notin Accounts /\ Uploads \subseteq Fetches

Stores == {"local", "session"}

VARIABLES
  access,     \* store -> whose access token it has, and the sign-in it is from, or None
  refresh,    \* store -> likewise the refresh token
  good,       \* the sign-ins whose present access token is not expired
  live,       \* the sign-ins whose session the server has not revoked
  fetch,      \* request -> "idle", "sent", "waiting" for the refresh or "resent"
  inFlight,   \* refreshInFlight: the token it sent, and the server's answer
  user,       \* who the page says is signed in, or None
  leaving,    \* logout awaits the server
  signIns,    \* sign-ins so far
  late        \* a sign-out did not wait for a refresh in flight

browserVars == <<access, refresh, good, live, fetch, inFlight, user, leaving, signIns, late>>

\* localStorage ?? sessionStorage
Read(f) == IF f["local"] # None THEN f["local"] ELSE f["session"]

BrowserInit ==
  /\ access = [s \in Stores |-> None] /\ refresh = [s \in Stores |-> None]
  /\ good = {} /\ live = {}
  /\ fetch = [r \in Fetches |-> "idle"]
  /\ inFlight = None
  /\ user = None /\ leaving = FALSE /\ signIns = 0 /\ late = FALSE

\* Mutant: a token is set and the other store is left as it is.
SetBeside(f, store, token) == [f EXCEPT ![store] = token]

\* tokens.set, of one token: the other store's copy is dropped.
Set(f, store, token) == [s \in Stores |-> IF s = store THEN token ELSE None]

\* login: the page's user and both tokens.
SignIn(a, store) ==
  /\ user = None /\ ~ leaving
  /\ signIns < MaxSignIns /\ signIns' = signIns + 1
  /\ LET token == [of |-> a, nr |-> signIns']
     IN  /\ access' = Set(access, store, token)
         /\ refresh' = Set(refresh, store, token)
         /\ good' = good \cup {token} /\ live' = live \cup {token}
  /\ user' = a
  /\ UNCHANGED <<fetch, inFlight, leaving, late>>

\* The access token of a sign-in runs out.
RunOut(t) ==
  /\ t \in good /\ good' = good \ {t}
  /\ UNCHANGED <<access, refresh, live, fetch, inFlight, user, leaving, signIns, late>>

Send(r) ==
  /\ fetch[r] = "idle" /\ Read(access) # None
  /\ fetch' = [fetch EXCEPT ![r] = "sent"]
  /\ UNCHANGED <<access, refresh, good, live, inFlight, user, leaving, signIns, late>>

\* An answer that is not 401, or a 401 with nothing to refresh, or the second.
Answered(r) ==
  /\ fetch[r] \in {"sent", "resent"}
  /\ fetch' = [fetch EXCEPT ![r] = "idle"]
  /\ UNCHANGED <<access, refresh, good, live, inFlight, user, leaving, signIns, late>>

\* 401: join the refresh in flight, or start one.
Unauthorised(r) ==
  /\ fetch[r] = "sent" /\ Read(refresh) # None
  /\ fetch' = [fetch EXCEPT ![r] = "waiting"]
  /\ inFlight' = IF inFlight # None THEN inFlight
                 ELSE [token |-> Read(refresh), answer |-> None]
  /\ UNCHANGED <<access, refresh, good, live, user, leaving, signIns, late>>

\* The server answers the refresh.
ServerRefreshes ==
  /\ inFlight # None /\ inFlight.answer = None
  /\ inFlight' = [inFlight EXCEPT !.answer = IF inFlight.token \in live THEN "ok" ELSE "refused"]
  /\ good' = IF inFlight.token \in live THEN good \cup {inFlight.token} ELSE good
  /\ UNCHANGED <<access, refresh, live, fetch, user, leaving, signIns, late>>

Waiting == {r \in Fetches : fetch[r] = "waiting"}

\* The new access token goes to the store that has the refresh token, or to the
\* session's, and all that wait are sent again.
RefreshSucceeds ==
  /\ inFlight # None /\ inFlight.answer = "ok"
  /\ access' = Set(access, IF refresh["local"] # None THEN "local" ELSE "session",
                   inFlight.token)
  /\ fetch' = [r \in Fetches |-> IF r \in Waiting THEN "resent" ELSE fetch[r]]
  /\ inFlight' = None
  /\ UNCHANGED <<refresh, good, live, user, leaving, signIns, late>>

\* Refused, or the network failed: whoever waits clears the tokens, but for an upload.
RefreshFails ==
  /\ inFlight # None /\ inFlight.answer # "ok"
  /\ IF Waiting \subseteq Uploads THEN UNCHANGED <<access, refresh>>
     ELSE access' = [s \in Stores |-> None] /\ refresh' = [s \in Stores |-> None]
  /\ fetch' = [r \in Fetches |-> IF r \in Waiting THEN "idle" ELSE fetch[r]]
  /\ inFlight' = None
  /\ UNCHANGED <<good, live, user, leaving, signIns, late>>

\* logout tells the server, ...
SignOut ==
  /\ user # None /\ ~ leaving /\ leaving' = TRUE
  /\ live' = live \ {Read(refresh)}
  /\ UNCHANGED <<access, refresh, good, fetch, inFlight, user, signIns, late>>

\* Mutant: one store is cleared.
ClearLocal == [s \in Stores |-> IF s = "local" THEN None ELSE access[s]]

\* tokens.clear
Clear == [s \in Stores |-> None]

\* ... and, whatever it says, clears the tokens and the user.
SignedOut ==
  /\ leaving /\ leaving' = FALSE
  /\ access' = Clear /\ refresh' = [s \in Stores |-> None]
  /\ user' = None
  /\ late' = (late \/ inFlight # None)
  /\ UNCHANGED <<good, live, fetch, inFlight, signIns>>

BrowserNext ==
  \/ \E a \in Accounts, s \in Stores : SignIn(a, s)
  \/ \E t \in good : RunOut(t)
  \/ \E r \in Fetches : Send(r)
  \/ \E r \in Fetches : Answered(r)
  \/ \E r \in Fetches : Unauthorised(r)
  \/ ServerRefreshes
  \/ RefreshSucceeds
  \/ RefreshFails
  \/ SignOut
  \/ SignedOut

BrowserSpec == BrowserInit /\ [][BrowserNext]_browserVars

-----------------------------------------------------------------------------
(***************************************************************************)
(* Properties.                                                             *)
(***************************************************************************)

\* "Drop any copy in the other store, or a stale token there would win on the
\* next read" (api.js:33): a token is never in both stores, whichever of them
\* was chosen, cleared or refreshed before.
OneCopy ==
  \A tokens \in {access, refresh} : tokens["local"] = None \/ tokens["session"] = None

\* The page's requests are those of the account it shows, and signing out
\* leaves no token ("signing out never leaves one behind", api.js:20), unless a
\* refresh was in flight at a sign-out: its answer is stored when it comes,
\* whoever is signed in by then, or nobody.
TokensAreTheUsers ==
  late \/ /\ Read(access) # None => user # None /\ Read(access).of = user
          /\ Read(refresh) # None => user # None /\ Read(access) = Read(refresh)

BrowserIsConsistent == OneCopy /\ TokensAreTheUsers
=============================================================================
