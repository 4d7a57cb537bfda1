--------------------------- MODULE OnboardingTxn ---------------------------
(***************************************************************************)
(* The records of Onboarding with its handlers as transactions of          *)
(* concurrent threads. A handler reads at one moment (READ COMMITTED, no   *)
(* row locks), computes what Onboarding says, and commits the columns that *)
(* differ from what it read: UPDATEs by primary key, which fail when the   *)
(* row is gone, and INSERTs that uq_employee_template may refuse.          *)
(*                                                                         *)
(* The documents are all uploaded and read; what their jobs do is in       *)
(* Onboarding. They can still be ruled on, checked and deleted.            *)
(***************************************************************************)
EXTENDS Onboarding, FiniteSets

CONSTANTS
  Handlers,     \* the threads serving requests
  Kept          \* a column that a transaction does not write; no transaction

ASSUME KeptAssumption == Kept \notin Stages \cup DocStatuses /\ Handlers # {}

VARIABLES
  txn,          \* thread -> its open transaction, or Kept
  dropped,      \* the tasks HR has deleted
  wasApproved,  \* the document types of which a document was ever approved
  handSet,      \* the stage there is one that HR's PATCH stored
  overtaken,    \* the threads whose ruling has read the documents before another
                \* thread's ruling on another document was committed
  raced         \* such a thread has committed: neither ruling saw the other

auxVars == <<dropped, wasApproved, handSet, overtaken, raced>>
txnVars == <<onbVars, txn, auxVars>>

Open(h, op) == txn[h] # Kept /\ txn[h].op = op

(***************************************************************************)
(* What a transaction writes: of the tasks T it wants, those that differ   *)
(* from the ones there, as INSERTs or as UPDATEs; the stage s likewise.    *)
(***************************************************************************)
TaskWrites(T) == [t \in {u \in Tasks : T[u] # task[u]} |-> T[t]]

NewTasks(T) == {t \in Tasks : task[t] = "none" /\ T[t] # "none"}

StageWrite(s) == IF s = stage THEN Kept ELSE s

Writes(op, s, T) ==
  [op |-> op, doc |-> 0, ruling |-> Kept, stage |-> StageWrite(s),
   tasks |-> TaskWrites(T), inserts |-> NewTasks(T), face |-> Kept]

Begin(h, t) == txn[h] = Kept /\ txn' = [txn EXCEPT ![h] = t]

-----------------------------------------------------------------------------
(***************************************************************************)
(* The reads.                                                              *)
(***************************************************************************)

\* _get_document_or_404: HR's ruling loads its document first, ...
LoadDocument(h, d, verdict) ==
  /\ HasRow(d) /\ docs[d].status \notin Unread
  /\ Begin(h, [op |-> "load", doc |-> d, verdict |-> verdict, seen |-> docs[d].status])
  /\ UNCHANGED <<onbVars, auxVars>>

\* Mutant: the stage is left for the next check.
ReadForRulingOnly(h) ==
  LET t == txn[h]
  IN  /\ Open(h, "load")
      /\ txn' = [txn EXCEPT ![h] =
           [Writes("decide", stage, task) EXCEPT
              !.doc = t.doc, !.ruling = IF t.verdict # t.seen THEN t.verdict ELSE Kept]]
      /\ UNCHANGED <<onbVars, auxVars>>

\* ... and recalculates from the others as they are now.
ReadForRuling(h) ==
  LET t == txn[h]
      D == [d \in Documents |->
              IF d = t.doc /\ HasRow(d) THEN [docs[d] EXCEPT !.status = t.verdict] ELSE docs[d]]
  IN  /\ Open(h, "load")
      /\ txn' = [txn EXCEPT ![h] =
           [Writes("decide", NewStage(D), TasksAfter(D)) EXCEPT
              !.doc = t.doc, !.ruling = IF t.verdict # t.seen THEN t.verdict ELSE Kept]]
      /\ UNCHANGED <<onbVars, auxVars>>

\* A face match is run, by HR or after an extraction. Bound: one at a time.
ReadForMatch(h) ==
  /\ CanCompare /\ \A k \in Handlers : ~ Open(k, "match")
  /\ \E outcome \in {"matched", "unmatched"} :
       Begin(h, [Writes("match", NewStage(docs), TasksAfter(docs)) EXCEPT
                   !.face = [outcome |-> outcome, of |-> Photo \cup IdDocument]])
  /\ UNCHANGED <<onbVars, auxVars>>

ReadForAssignment(h) ==
  /\ Unassigned # {}
  /\ Begin(h, Writes("assign", stage, Assign(docs)))
  /\ UNCHANGED <<onbVars, auxVars>>

ReadForListing(h) ==
  /\ Sync(task, docs) # task
  /\ Begin(h, Writes("sync", stage, Sync(task, docs)))
  /\ UNCHANGED <<onbVars, auxVars>>

ReadForUpdate(h, t, by, status) ==
  /\ task[t] # "none"
  /\ by = "employee" => task[t] # "waived"
  /\ Begin(h, Writes("update", stage, [task EXCEPT ![t] = status]))
  /\ UNCHANGED <<onbVars, auxVars>>

ReadForWaiver(h, t) ==
  /\ task[t] = "open"
  /\ Begin(h, Writes("waive", stage, [task EXCEPT ![t] = "waived"]))
  /\ UNCHANGED <<onbVars, auxVars>>

\* update_employee: HR sets the stage; nothing is derived and no engine runs.
ReadForPatch(h, s) ==
  /\ s # stage
  /\ Begin(h, Writes("patch", s, task))
  /\ UNCHANGED <<onbVars, auxVars>>

\* verification_summary commits what it closes, and finds nothing that blocks.
ReadForCompletion(h) ==
  LET synced == Sync(task, docs)
  IN  /\ Ready(synced)
      /\ task' = synced
      /\ txn[h] = Kept
      /\ txn' = [txn EXCEPT ![h] =
           [op |-> "complete", doc |-> 0, ruling |-> Kept, stage |-> StageWrite("complete"),
            tasks |-> <<>>, inserts |-> {}, face |-> Kept]]
      /\ UNCHANGED <<docVars, account, stage, checks, face, behind, auxVars>>

-----------------------------------------------------------------------------
(***************************************************************************)
(* The commits.                                                            *)
(***************************************************************************)

\* Mutant: there is no uq_employee_template, and the task is made once more.
RefusedIfGone(t) ==
  \/ \E u \in DOMAIN t.tasks \ t.inserts : task[u] = "none"
  \/ t.doc # 0 /\ ~ HasRow(t.doc)

\* uq_employee_template; UPDATEs of rows that are gone, and a match of such.
Refused(t) ==
  \/ t.face # Kept /\ ~ t.face.of \subseteq Stored(docs)
  \/ \E u \in t.inserts : task[u] # "none"
  \/ \E u \in DOMAIN t.tasks \ t.inserts : task[u] = "none"
  \/ t.doc # 0 /\ ~ HasRow(t.doc)

WriteTasks(t) ==
  task' = [u \in Tasks |-> IF u \in DOMAIN t.tasks THEN t.tasks[u] ELSE task[u]]

\* Of an unchanged stage nothing is written.
WriteStage(t) ==
  /\ stage' = IF t.stage = Kept THEN stage ELSE t.stage
  /\ handSet' = IF t.stage = Kept THEN handSet ELSE t.op = "patch"

End(h) == txn' = [txn EXCEPT ![h] = Kept]

\* The rulings in progress that have not seen the one thread h commits.
Overtaken(h) ==
  IF txn[h].ruling = Kept THEN {}
  ELSE {k \in Handlers \ {h} : Open(k, "decide") /\ txn[k].doc # txn[h].doc}

CommitRuling(h) ==
  LET t == txn[h]
  IN  /\ Open(h, "decide") /\ ~ Refused(t)
      /\ docs' = [docs EXCEPT ![t.doc].status = IF t.ruling = Kept THEN @ ELSE t.ruling]
      /\ wasApproved' = wasApproved \cup Approved(docs')
      /\ WriteTasks(t) /\ WriteStage(t)
      /\ overtaken' = (overtaken \ {h}) \cup Overtaken(h)
      /\ raced' = (raced \/ (h \in overtaken /\ t.ruling # Kept))
      /\ End(h)
      /\ UNCHANGED <<blobs, uploads, uploading, deleting, removed, job, crashes, lost,
                     account, checks, face, behind, dropped>>

CommitRecords(h) ==
  LET t == txn[h]
  IN  /\ t # Kept
      /\ t.op \in {"match", "assign", "sync", "update", "waive", "patch", "complete"}
      /\ ~ Refused(t)
      /\ WriteTasks(t) /\ WriteStage(t)
      /\ face' = IF t.face = Kept THEN face ELSE t.face
      /\ behind' = (behind \/ t.op = "patch")
      /\ End(h)
      /\ UNCHANGED <<docVars, account, checks, dropped, wasApproved, overtaken, raced>>

\* Refused by the database, or a crash.
Rollback(h) ==
  /\ txn[h] # Kept /\ End(h)
  /\ overtaken' = overtaken \ {h}
  /\ UNCHANGED <<onbVars, dropped, wasApproved, handSet, raced>>

\* Handlers of one statement that matters.
RemoveDocument(d) ==
  /\ DeleteDocument(d, "hr")
  /\ UNCHANGED <<txn, auxVars>>

RemoveTask(t) ==
  /\ DeleteTask(t)
  /\ dropped' = dropped \cup {t}
  /\ UNCHANGED <<txn, wasApproved, handSet, overtaken, raced>>

-----------------------------------------------------------------------------
\* Every document has been uploaded and read, and the stage recalculated.
TxnInit ==
  /\ \E type \in [Documents -> DocTypes] :
       docs = [d \in Documents |-> [type |-> type[d], status |-> "extracted"]]
  /\ blobs = Documents /\ uploads = MaxDocs
  /\ uploading = {} /\ deleting = {} /\ removed = {}
  /\ job = [j \in Jobs |-> NoJob] /\ crashes = 0 /\ lost = {}
  /\ account = Registered
  /\ stage = IF Required \subseteq {docs[d].type : d \in Documents}
             THEN "under_review" ELSE "documents_submitted"
  /\ task = [t \in Tasks |-> "none"]
  /\ checks = <<>>
  /\ face = [outcome |-> "none", of |-> {}]
  /\ behind = FALSE
  /\ txn = [h \in Handlers |-> Kept]
  /\ dropped = {} /\ wasApproved = {}
  /\ handSet = FALSE /\ overtaken = {} /\ raced = FALSE

TxnNext ==
  \/ \E h \in Handlers, d \in Documents, verdict \in Ruled : LoadDocument(h, d, verdict)
  \/ \E h \in Handlers : ReadForRuling(h)
  \/ \E h \in Handlers : ReadForMatch(h)
  \/ \E h \in Handlers : ReadForAssignment(h)
  \/ \E h \in Handlers : ReadForListing(h)
  \/ \E h \in Handlers, t \in Tasks, by \in {"employee", "hr"}, s \in {"open", "completed"} :
       ReadForUpdate(h, t, by, s)
  \/ \E h \in Handlers, t \in Tasks : ReadForWaiver(h, t)
  \/ \E h \in Handlers, s \in Stages : ReadForPatch(h, s)
  \/ \E h \in Handlers : ReadForCompletion(h)
  \/ \E h \in Handlers : CommitRuling(h)
  \/ \E h \in Handlers : CommitRecords(h)
  \/ \E h \in Handlers : Rollback(h)
  \/ \E d \in Documents : RemoveDocument(d)
  \/ \E t \in Tasks : RemoveTask(t)

TxnSpec == TxnInit /\ [][TxnNext]_txnVars

-----------------------------------------------------------------------------
(***************************************************************************)
(* Properties.                                                             *)
(***************************************************************************)

\* However handlers race, the stage says "tasks assigned" only where the rule
\* engine has run, or HR's PATCH stored it: a template without a task is one
\* whose task HR deleted.
EngineHasRun ==
  stage = "tasks_assigned" /\ ~ handSet =>
    \A t \in Templates : task[t] # "none" \/ t \in dropped

\* Two assignments at once do not make a task anew: one that is completed or
\* waived is open again only because somebody reopened it.
TasksAreNotRemade ==
  [][\A t \in Tasks :
       task[t] \in {"completed", "waived"} /\ task'[t] = "open" =>
         \E h \in Handlers : Open(h, "update") /\ txn'[h] = Kept]_txnVars

\* A checklist item that nobody ticked is closed because a document of its type
\* was approved, although queries and commits of several threads lie between.
ItemsCloseForAReason ==
  [][\A t \in DOMAIN Wanted :
       task[t] # "completed" /\ task'[t] = "completed" =>
         \/ Wanted[t] \in wasApproved'
         \/ \E h \in Handlers : Open(h, "update") /\ txn'[h] = Kept]_txnVars

\* Where the required documents are approved the stage says so, whatever
\* rulings, matches and completions overlap, but for the one overlap that
\* ApprovalsTriggerAssignment reports, and unless HR set the stage by hand or
\* deleted a document.
ApprovalsAreNoticed ==
  AllRequiredApproved(docs) /\ ~ raced /\ ~ behind =>
    Rank[stage] >= Rank["tasks_assigned"]

(***************************************************************************)
(* What the code's documentation promises and the code does not keep.      *)
(***************************************************************************)

\* "Triggered automatically when all required documents are approved"
\* (README.md:327), nothing being set by hand or deleted. It fails: two rulings
\* that overlap do not see each other's document.
ApprovalsTriggerAssignment ==
  AllRequiredApproved(docs) /\ ~ behind => Rank[stage] >= Rank["tasks_assigned"]

\* "Only ever move forward through the pipeline" (review.py:350), where HR has
\* set and deleted nothing. It fails: the stage is compared with the one that was
\* read, not with the one there.
StageOnlyMovesForward ==
  [][stage' = stage \/ Rank[stage'] > Rank[stage] \/ behind']_txnVars
=============================================================================
