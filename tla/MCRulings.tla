----------------------------- MODULE MCRulings -----------------------------
(***************************************************************************)
(* The two things that employees hand in and HR rules on, one handler at a *)
(* time: a behaviour is one of LeaveLedger or one of DocumentPipeline, and *)
(* the other stays in its initial state.                                   *)
(*                                                                         *)
(* The ledger has two years of 365 days, an employee and, where            *)
(* attribution matters, an HR user who also asks for leave. Two annual     *)
(* requests of 15 days do not fit in one year's 21. The type of a document *)
(* plays no part in the pipeline, so one is enough.                        *)
(***************************************************************************)
EXTENDS LeaveLedger, DocumentPipeline

CONSTANTS emp, hr, admin, none, norow

Leave(kind, start, end) == [kind |-> kind, start |-> start, end |-> end, half |-> FALSE]
HalfDay(kind, day) == [kind |-> kind, start |-> day, end |-> day, half |-> TRUE]

MCDaysPerYear == 365
MCYears == 0..1

\* 15 days in year 0, 8 days over new year, half a day, all of a sick year,
\* unpaid leave, a week next year, and a span that ends before it starts.
MCPayloads ==
  {Leave("annual", 100, 114), Leave("annual", 361, 368), HalfDay("annual", 200),
   Leave("sick", 50, 61), Leave("unpaid", 100, 130), Leave("annual", 400, 406),
   Leave("annual", 30, 10)}

MCCalendar == {0, 150, 390}

\* emp joined years ago, hr in October of year 0.
MCJoined == [e \in Staff |-> IF e = emp THEN NoDate ELSE [year |-> 0, month |-> 10]]
-----------------------------------------------------------------------------
VARIABLE part

OfLeave(A) == part = "leave" /\ A /\ UNCHANGED <<docVars, part>>
OfDocuments(A) == part = "documents" /\ A /\ UNCHANGED <<vars, part>>

\* Of the initial states of the ledger, one is enough for the documents.
MCInit ==
  /\ Init /\ DocInit /\ part \in {"leave", "documents"}
  /\ part = "documents" => today = 0

MCNext == OfLeave(Next) \/ OfDocuments(DocNext)

\* Spec and FairDocSpec, each of its part.
MCSpec ==
  /\ MCInit /\ [][MCNext]_<<vars, docVars, part>>
  /\ \A j \in Jobs : WF_docVars(OfDocuments(JobStep(j)))
=============================================================================
