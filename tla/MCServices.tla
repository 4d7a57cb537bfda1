----------------------------- MODULE MCServices -----------------------------
(***************************************************************************)
(* Six parts that share nothing: a behaviour is one of the rate limiter,   *)
(* of the task catalogue, of the holiday calendar, of the audit log, of    *)
(* the dashboard or of a browser tab, and the others stay in their initial *)
(* states.                                                                 *)
(***************************************************************************)
EXTENDS RateLimiter, Catalogue, Holidays, AuditTrail, Dashboard, BrowserSession

\* Three names, of which two are ways to write one.
LowerCase == [n \in {"diwali", "Diwali", "holi"} |-> IF n = "Diwali" THEN "diwali" ELSE n]

VARIABLE part

Parts == {"rate limiter", "catalogue", "holidays", "audit log", "dashboard", "browser"}

MCInit ==
  /\ part \in Parts
  /\ RateInit /\ CatInit /\ HolInit /\ AuditInit /\ DashInit /\ BrowserInit

MCNext ==
  /\ \/ part = "rate limiter" /\ RateNext
        /\ UNCHANGED <<catVars, holVars, auditVars, dashVars, browserVars>>
     \/ part = "catalogue" /\ CatNext
        /\ UNCHANGED <<rateVars, holVars, auditVars, dashVars, browserVars>>
     \/ part = "holidays" /\ HolNext
        /\ UNCHANGED <<rateVars, catVars, auditVars, dashVars, browserVars>>
     \/ part = "audit log" /\ AuditNext
        /\ UNCHANGED <<rateVars, catVars, holVars, dashVars, browserVars>>
     \/ part = "dashboard" /\ DashNext
        /\ UNCHANGED <<rateVars, catVars, holVars, auditVars, browserVars>>
     \/ part = "browser" /\ BrowserNext
        /\ UNCHANGED <<rateVars, catVars, holVars, auditVars, dashVars>>
  /\ UNCHANGED part

MCSpec ==
  /\ MCInit
  /\ [][MCNext]_<<rateVars, catVars, holVars, auditVars, dashVars, browserVars, part>>

-----------------------------------------------------------------------------
\* The types of the three with rows that transactions write.
ServicesTypeOK == RateTypeOK /\ CatTypeOK /\ HolTypeOK

\* The limit holds, and whoever is refused has been told when to come back.
SlidingWindow == RateHolds /\ RefusalsAreFair

\* Two checks that are made before a write and not repeated with it hold as long
\* as no two transactions on the same rows overlap, whatever else happens.
ChecksHoldWithoutRaces == TasksKeepTheirTemplate /\ NamesAreNotShadowed

\* What two readers compute from the same rows agrees: the dashboard with the
\* reports, the header of the calendar with its list, the pages and the export
\* of the audit log with the log.
ReadersAgree == ViewsAgree /\ HeaderAgreesWithList /\ PagesMissNothing /\ TruncationIsSaid
=============================================================================
