----------------------------- MODULE Onboarding -----------------------------
(***************************************************************************)
(* The onboarding of one employee: the documents of DocumentPipeline, and  *)
(* what is derived from them: identity checks, the face match, the stage   *)
(* of the onboarding and the tasks (services/review.py,                    *)
(* services/assignment.py, api/v1/verification.py, api/v1/tasks.py).       *)
(*                                                                         *)
(* Every handler here is atomic. The session does not flush before a query *)
(* (core/database.py), so a query for a column of another row's table sees *)
(* what is committed, and not what the same transaction is about to write: *)
(* Recalculate and Sync say which of the two each decision is taken on.    *)
(***************************************************************************)
EXTENDS DocumentPipeline, SequencesExt

CONSTANTS
  Required,     \* REQUIRED_DOCUMENT_TYPES
  Verifiable,   \* VERIFIABLE_TYPES
  Templates,    \* the templates resolve_templates selects for the employee
  Manual,       \* bound: one-off tasks HR may add
  Mandatory,    \* the tasks that are mandatory
  Wanted,       \* checklist template -> its required document type
  Registered    \* whether the employee starts with an account

Tasks == Templates \cup Manual

ASSUME OnboardingConstants ==
  /\ Required \subseteq DocTypes /\ Verifiable \subseteq DocTypes
  /\ Required # {}                        \* a literal of review.py
  /\ Mandatory \subseteq Tasks
  /\ DOMAIN Wanted \subseteq Templates /\ \A t \in DOMAIN Wanted : Wanted[t] \in DocTypes
  /\ Registered \in BOOLEAN

\* The place of a stage in _STAGE_ORDER; a rejected onboarding has none, and
\* ranks below all.
Rank ==
  [rejected |-> 0, invited |-> 1, registered |-> 2, documents_pending |-> 3,
   documents_submitted |-> 4, under_review |-> 5, tasks_assigned |-> 6, complete |-> 7]

Stages   == DOMAIN Rank
Terminal == {"complete", "rejected"}

VARIABLES
  account,      \* the employee has accepted the invitation (user_id is set)
  stage,        \* onboarding_status
  task,         \* task -> "none", "open" (pending, in progress), "completed", "waived"
  checks,       \* the latest identity check of each document, oldest first
  face,         \* the latest face match; of: the documents it compared
  behind        \* history: since the stage was last derived from the documents it
                \* was set, by HR or by an acceptance, or a document was deleted

recordVars == <<account, stage, task, checks, face, behind>>
onbVars == <<docVars, recordVars>>

-----------------------------------------------------------------------------
(***************************************************************************)
(* What is read off the documents D: the committed ones, or those the      *)
(* transaction is about to commit.                                         *)
(***************************************************************************)
Stored(D) == {d \in Documents : D[d] # NoDoc}

TypesIn(D, statuses) == {D[d].type : d \in {e \in Stored(D) : D[e].status \in statuses}}

Approved(D) == TypesIn(D, {"approved"})

AllRequiredApproved(D) ==
  /\ Required \subseteq Approved(D)
  /\ \A d \in Stored(D) : D[d].type \in Required => D[d].status \in Ruled

Target(D) ==
  CASE AllRequiredApproved(D) -> "tasks_assigned"
    [] /\ ~ AllRequiredApproved(D)
       /\ TypesIn(D, Ruled) # {} \/ Required \subseteq TypesIn(D, DocStatuses \ {"rejected"})
         -> "under_review"
    [] OTHER -> "documents_submitted"

\* Mutant: terminal stages are recalculated as well.
NewStageFromAny(D) == IF Rank[Target(D)] > Rank[stage] THEN Target(D) ELSE stage

\* Without documents the stage waits for them; it only ever moves forward.
NewStage(D) ==
  CASE stage \in Terminal -> stage
    [] stage \notin Terminal /\ Stored(D) = {} ->
         IF account /\ stage \in {"invited", "registered"} THEN "documents_pending" ELSE stage
    [] OTHER -> IF Rank[Target(D)] > Rank[stage] THEN Target(D) ELSE stage

(***************************************************************************)
(* sync_document_checklist on the tasks T and the documents D it can see.  *)
(***************************************************************************)
\* Mutant: a document counts as soon as it is there.
SyncPresent(T, D) ==
  [t \in Tasks |->
     IF t \in DOMAIN Wanted /\ T[t] = "open" /\ Wanted[t] \in TypesIn(D, DocStatuses)
     THEN "completed" ELSE T[t]]

Sync(T, D) ==
  [t \in Tasks |->
     IF t \in DOMAIN Wanted /\ T[t] = "open" /\ Wanted[t] \in Approved(D)
     THEN "completed" ELSE T[t]]

Unassigned == {t \in Templates : task[t] = "none"}

\* assign_tasks: new tasks are flushed, and with them the pending changes of
\* the documents, before the checklist is synchronised.
Assign(D) == Sync([t \in Tasks |-> IF t \in Unassigned THEN "open" ELSE task[t]], D)

\* Mutant: the stage is derived, the rule engine left to HR.
RecalculateStageOnly(D) ==
  stage' = NewStage(D) /\ task' = Sync(task, docs) /\ behind' = FALSE

\* Mutant: the rule engine is left to HR.
TasksAfterSync(D) == IF stage \in Terminal THEN task ELSE Sync(task, docs)

\* The tasks after a recalculation. Where the required documents are approved
\* the rule engine runs; the second synchronisation sees D only if assigning has
\* flushed it.
TasksAfter(D) ==
  CASE stage \in Terminal \/ ~ AllRequiredApproved(D) \/ Stored(D) = {} -> task
    [] Unassigned # {} -> Assign(D)
    [] OTHER -> Sync(task, docs)

\* recalculate_onboarding_status, D being the documents as changed so far.
Recalculate(D) == stage' = NewStage(D) /\ task' = TasksAfter(D) /\ behind' = FALSE

-----------------------------------------------------------------------------
(***************************************************************************)
(* run_id_verification and run_face_match. The outcomes are the engines'.  *)
(***************************************************************************)
CheckOf(d) == {i \in DOMAIN checks : checks[i].doc = d}

ChecksWithout(d) ==
  IF CheckOf(d) = {} THEN checks ELSE RemoveAt(checks, CHOOSE i \in CheckOf(d) : TRUE)

RecordCheck(d) ==
  \E passed \in BOOLEAN :
    checks' = Append(ChecksWithout(d), [doc |-> d, passed |-> passed])

LatestOf(type) ==
  LET candidates == {d \in Stored(docs) : docs[d].type = type /\ docs[d].status # "rejected"}
  IN  {d \in candidates : \A e \in candidates : e <= d}

Photo == LatestOf("photo")
IdDocument == IF LatestOf("aadhaar") # {} THEN LatestOf("aadhaar") ELSE LatestOf("pan")

CanCompare == Photo # {} /\ IdDocument # {}

RecordFaceMatch ==
  \E outcome \in {"matched", "unmatched"} :
    /\ outcome = "matched" => Photo \cup IdDocument \subseteq blobs
    /\ face' = [outcome |-> outcome, of |-> Photo \cup IdDocument]

-----------------------------------------------------------------------------
OnbInit ==
  /\ DocInit
  /\ account = Registered
  /\ stage = IF Registered THEN "registered" ELSE "invited"
  /\ task = [t \in Tasks |-> "none"]
  /\ checks = <<>>
  /\ face = [outcome |-> "none", of |-> {}]
  /\ behind = FALSE

(***************************************************************************)
(* Steps of the documents that no record is derived from.                  *)
(***************************************************************************)
DocumentStep ==
  /\ \/ StoreBlob
     \/ \E d \in Documents, type \in DocTypes : InsertRow(d, type) \/ InsertRowOnly(d, type)
     \/ \E d \in Documents : UploadFails(d) \/ Reprocess(d) \/ DeleteBlob(d)
     \/ \E j \in Jobs : JobStart(j) \/ JobLoad(j) \/ JobFinish(j) \/ JobFail(j) \/ JobDies(j)
     \/ Crash
  /\ UNCHANGED recordVars

\* Mutant: the ruling is recorded, the stage left for the next check.
DecideOnly(d, verdict) == Rule(d, verdict) /\ UNCHANGED recordVars

\* approve_document, reject_document.
Decide(d, verdict) ==
  /\ Rule(d, verdict)
  /\ Recalculate(docs')
  /\ UNCHANGED <<account, checks, face>>

\* Mutant: the checks of the document are kept.
DeleteKeepingChecks(d, by) ==
  /\ DeleteRow(d, by)
  /\ by = "employee" => account
  /\ face' = [face EXCEPT !.of = @ \ {d}]
  /\ behind' = TRUE
  /\ UNCHANGED <<account, stage, task, checks>>

\* delete_document: its checks go with it, a face match forgets it. The stage
\* and the tasks are not looked at.
DeleteDocument(d, by) ==
  /\ DeleteRow(d, by)
  /\ by = "employee" => account
  /\ checks' = ChecksWithout(d)
  /\ face' = [face EXCEPT !.of = @ \ {d}]
  /\ behind' = TRUE
  /\ UNCHANGED <<account, stage, task>>

\* run_verification_for_document, after extraction. An exception rolls it back.
JobVerifies(j) ==
  LET d == job[j].doc
  IN  /\ JobVerify(j)
      /\ HasRow(d) /\ docs[d].status = "extracted"
      /\ IF docs[d].type \in Verifiable THEN RecordCheck(d) ELSE UNCHANGED checks
      /\ IF docs[d].type \in {"photo", "aadhaar", "pan"} /\ CanCompare
         THEN RecordFaceMatch ELSE UNCHANGED face
      /\ Recalculate(docs)
      /\ UNCHANGED account

JobVerifiesNothing(j) == JobVerify(j) /\ UNCHANGED recordVars

\* POST /documents/{id}/verify
VerifyDocument(d) ==
  /\ HasRow(d) /\ docs[d].type \in Verifiable /\ docs[d].status \notin Unread
  /\ RecordCheck(d)
  /\ Recalculate(docs)
  /\ UNCHANGED <<docVars, account, face>>

\* POST /employees/{id}/face-match
RunFaceMatch ==
  /\ CanCompare
  /\ RecordFaceMatch
  /\ Recalculate(docs)
  /\ UNCHANGED <<docVars, account, checks>>

(***************************************************************************)
(* Tasks.                                                                  *)
(***************************************************************************)
TaskStep(T) ==
  /\ task' = T
  /\ UNCHANGED <<docVars, account, stage, checks, face, behind>>

\* POST /employees/{id}/assign-tasks
RunAssignment == Unassigned # {} /\ TaskStep(Assign(docs))

\* Every listing of tasks, progress or verification synchronises first.
ReadTasks == TaskStep(Sync(task, docs))

AddManualTask(t) == task[t] = "none" /\ TaskStep([task EXCEPT ![t] = "open"])

UpdateTask(t, by, status) ==
  /\ task[t] # "none"
  /\ by = "employee" => account /\ task[t] # "waived"
  /\ TaskStep([task EXCEPT ![t] = status])

WaiveTask(t) == task[t] \in {"open", "waived"} /\ TaskStep([task EXCEPT ![t] = "waived"])

DeleteTask(t) == task[t] # "none" /\ TaskStep([task EXCEPT ![t] = "none"])

(***************************************************************************)
(* The stage.                                                              *)
(***************************************************************************)

\* POST /onboarding/accept
AcceptInvitation ==
  /\ ~ account
  /\ account' = TRUE
  /\ stage' = "registered"
  /\ behind' = TRUE
  /\ UNCHANGED <<docVars, task, checks, face>>

\* verification_summary: nothing blocks completion.
Ready(T) ==
  /\ Required \subseteq Approved(docs)
  /\ \A i \in DOMAIN checks :
       \/ checks[i].passed
       \/ \E k \in DOMAIN checks : k > i /\ docs[checks[k].doc].type = docs[checks[i].doc].type
  /\ face.outcome = "matched"
  /\ \A t \in Mandatory : T[t] # "open"

\* POST /employees/{id}/complete-onboarding, when it is not refused.
CompleteOnboarding ==
  LET synced == Sync(task, docs)
  IN  /\ Ready(synced)
      /\ task' = synced
      /\ stage' = "complete"
      /\ UNCHANGED <<docVars, account, checks, face, behind>>

\* PATCH /employees/{id}: HR sets the stage to any other, from any.
SetStage ==
  /\ stage' \in Stages \ {stage}
  /\ behind' = TRUE
  /\ UNCHANGED <<docVars, account, task, checks, face>>

OnbNext ==
  \/ DocumentStep
  \/ \E d \in Documents, verdict \in Ruled : Decide(d, verdict)
  \/ \E d \in Documents, by \in {"employee", "hr"} : DeleteDocument(d, by)
  \/ \E j \in Jobs : JobVerifies(j) \/ JobVerifiesNothing(j)
  \/ \E d \in Documents : VerifyDocument(d)
  \/ RunFaceMatch
  \/ RunAssignment
  \/ ReadTasks
  \/ \E t \in Manual : AddManualTask(t)
  \/ \E t \in Tasks, by \in {"employee", "hr"}, status \in {"open", "completed"} :
       UpdateTask(t, by, status)
  \/ \E t \in Tasks : WaiveTask(t) \/ DeleteTask(t)
  \/ AcceptInvitation
  \/ CompleteOnboarding
  \/ SetStage

OnbSpec == OnbInit /\ [][OnbNext]_onbVars

-----------------------------------------------------------------------------
(***************************************************************************)
(* Properties.                                                             *)
(***************************************************************************)

\* Type invariant; a check never outlives its document.
OnbTypeOK ==
  /\ account \in BOOLEAN
  /\ stage \in Stages
  /\ task \in [Tasks -> {"none", "open", "completed", "waived"}]
  /\ \A i \in DOMAIN checks :
       /\ checks[i].doc \in Stored(docs) /\ checks[i].passed \in BOOLEAN
       /\ \A k \in DOMAIN checks : checks[k].doc = checks[i].doc => k = i
  /\ face.outcome \in {"none", "matched", "unmatched"} /\ face.of \subseteq Stored(docs)
  /\ behind \in BOOLEAN

\* Unless the stage was set by hand or by an acceptance, or a document deleted,
\* since it was last derived: an onboarding with a document that HR has ruled on
\* is under review or further, and one whose required documents are approved has
\* its tasks assigned or is over. No upload, reprocessing or failure in between
\* makes it wrong: whatever makes a ruling derives the stage as well.
StageFollowsRulings ==
  ~ behind =>
    /\ TypesIn(docs, Ruled) # {} => stage \in {"under_review", "tasks_assigned"} \cup Terminal
    /\ AllRequiredApproved(docs) => stage \in {"tasks_assigned"} \cup Terminal

\* No background job, ruling or check takes the stage back, or out of a
\* terminal one: only a PATCH or an acceptance does, which `behind` records.
StagesAdvance ==
  [][ \/ stage' = stage \/ behind' \/ stage' = "complete"
      \/ stage \notin Terminal /\ Rank[stage'] > Rank[stage] ]_onbVars

\* Wherever the code and not HR's PATCH stores "tasks assigned", every template
\* that applies has become a task, whichever step gets there.
AssignedStageHasTasks ==
  [][ (stage' = "tasks_assigned" /\ stage' # stage /\ ~ behind') =>
        \A t \in Templates : task'[t] # "none" ]_onbVars

(***************************************************************************)
(* What the code's documentation promises and the code does not keep.      *)
(***************************************************************************)

\* "Stages are derived from document state rather than set by hand, and never
\* move backwards" (README.md:281).
StageNeverBackwards ==
  [][stage' = stage \/ Rank[stage'] > Rank[stage]]_onbVars

\* "... under_review -> tasks_assigned -> complete" (README.md:284): tasks are
\* assigned before the onboarding is complete.
CompleteAfterTasks ==
  [][stage' = "complete" /\ stage # "complete" => stage = "tasks_assigned"]_onbVars

\* "Close checklist items whose required document has been approved"
\* (assignment.py:228), and no others: an item HR has not touched closes only
\* when, after the step, a document of its type is approved.
ClosedByApproval ==
  [][ \A t \in DOMAIN Wanted :
        (task[t] = "open" /\ task'[t] = "completed" /\ docs' # docs) =>
          Wanted[t] \in Approved(docs') ]_onbVars
=============================================================================
