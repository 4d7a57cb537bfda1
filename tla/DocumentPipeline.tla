-------------------------- MODULE DocumentPipeline --------------------------
(***************************************************************************)
(* The documents of one employee: upload, background extraction, HR's      *)
(* ruling, reprocessing and deletion (api/v1/documents.py,                 *)
(* api/v1/verification.py, services/extraction/pipeline.py).               *)
(*                                                                         *)
(* Endpoints are atomic but for the two that also touch object storage:    *)
(* the upload stores the blob before it commits the row, the deletion      *)
(* commits before it removes the blob. A background job is one             *)
(* process_document, which commits twice, followed by one                  *)
(* run_verification_for_document. A job may die of an exception at any of  *)
(* its statements, and then takes the rest of its work with it.            *)
(***************************************************************************)
EXTENDS Integers

CONSTANTS
  DocTypes,     \* the document types the employee uploads
  MaxDocs,      \* bound: documents ever uploaded
  Jobs,         \* bound: background jobs in progress at once
  MaxCrashes,   \* bound: crashes of the server process
  NoDoc,        \* no row
  NoJob         \* a free slot

ASSUME DocumentBounds ==
  /\ MaxDocs \in Nat /\ MaxCrashes \in Nat
  /\ DocTypes # {} /\ Jobs # {}

Documents == 1..MaxDocs               \* in created_at order

Unread == {"uploaded", "processing"}  \* extraction has not finished
Ruled  == {"approved", "rejected"}    \* HR has ruled
DocStatuses == Unread \cup Ruled \cup {"extracted", "failed"}

DocRows == [type : DocTypes, status : DocStatuses]

JobRows ==
  [doc : Documents, at : {"queued", "started", "loaded", "verify"},
   seen : DocStatuses \cup {"none"}]   \* the status the job loaded

ASSUME NoDocAssumption == NoDoc \notin DocRows
ASSUME NoJobAssumption == NoJob \notin JobRows

VARIABLES
  docs,         \* document -> row or NoDoc
  blobs,        \* the documents whose file is in object storage
  uploads,      \* storage keys handed out so far
  uploading,    \* blob stored, row not yet committed
  deleting,     \* row gone, blob not yet removed
  removed,      \* the documents deleted so far
  job,          \* slot -> background job
  crashes,
  lost          \* history: the documents of which a job was lost, to an exception
                \* or to a crash, since the last time one was queued

docVars == <<docs, blobs, uploads, uploading, deleting, removed, job, crashes, lost>>

HasRow(d) == docs[d] # NoDoc

SetStatus(d, s) == docs' = [docs EXCEPT ![d].status = s]

(***************************************************************************)
(* _schedule_processing.                                                   *)
(***************************************************************************)
Queued(d) == [doc |-> d, at |-> "queued", seen |-> "none"]

Schedule(d) ==
  /\ \E j \in Jobs : job[j] = NoJob /\ job' = [job EXCEPT ![j] = Queued(d)]
  /\ lost' = lost \ {d}

\* A job is still to read the document.
InHand(d) == \E j \in Jobs : job[j] # NoJob /\ job[j].doc = d /\ job[j].at # "verify"

-----------------------------------------------------------------------------
DocInit ==
  /\ docs = [d \in Documents |-> NoDoc]
  /\ blobs = {}
  /\ uploads = 0
  /\ uploading = {} /\ deleting = {}
  /\ removed = {}
  /\ job = [j \in Jobs |-> NoJob]
  /\ crashes = 0
  /\ lost = {}

(***************************************************************************)
(* POST /employees/{id}/documents. The endpoint runs on the event loop,    *)
(* one upload at a time.                                                   *)
(***************************************************************************)
StoreBlob ==
  LET d == uploads + 1
  IN  /\ d \in Documents /\ uploading = {}
      /\ uploads' = d
      /\ blobs' = blobs \cup {d}
      /\ uploading' = {d}
      /\ UNCHANGED <<docs, deleting, removed, job, crashes, lost>>

InsertRow(d, type) ==
  /\ d \in uploading
  /\ uploading' = uploading \ {d}
  /\ docs' = [docs EXCEPT ![d] = [type |-> type, status |-> "uploaded"]]
  /\ Schedule(d)
  /\ UNCHANGED <<blobs, uploads, deleting, removed, crashes>>

\* The row is committed, and the refresh after it fails: a request that ends in
\* an exception runs no background tasks.
InsertRowOnly(d, type) ==
  /\ d \in uploading
  /\ uploading' = uploading \ {d}
  /\ docs' = [docs EXCEPT ![d] = [type |-> type, status |-> "uploaded"]]
  /\ lost' = lost \cup {d}
  /\ UNCHANGED <<blobs, uploads, deleting, removed, job, crashes>>

\* The commit fails: the blob stays behind without a row.
UploadFails(d) ==
  /\ d \in uploading
  /\ uploading' = uploading \ {d}
  /\ UNCHANGED <<docs, blobs, uploads, deleting, removed, job, crashes, lost>>

\* Mutant: the document is marked first, and no job is queued if one is there.
ReprocessOnce(d) ==
  /\ HasRow(d) /\ docs[d].status # "processing"
  /\ SetStatus(d, "uploaded")
  /\ IF \E j \in Jobs : job[j] # NoJob /\ job[j].doc = d THEN UNCHANGED <<job, lost>> ELSE Schedule(d)
  /\ UNCHANGED <<blobs, uploads, uploading, deleting, removed, crashes>>

(***************************************************************************)
(* POST /documents/{id}/reprocess. The status does not change until the    *)
(* job starts.                                                             *)
(***************************************************************************)
Reprocess(d) ==
  /\ HasRow(d) /\ docs[d].status # "processing"
  /\ Schedule(d)
  /\ UNCHANGED <<docs, blobs, uploads, uploading, deleting, removed, crashes>>

(***************************************************************************)
(* _decide: HR approves or rejects.                                        *)
(***************************************************************************)
Rule(d, verdict) ==
  /\ HasRow(d) /\ docs[d].status \notin Unread
  /\ SetStatus(d, verdict)
  /\ UNCHANGED <<blobs, uploads, uploading, deleting, removed, job, crashes, lost>>

\* Mutant: the file goes first, the row in a later step.
DeleteBlobFirst(d, by) ==
  /\ HasRow(d)
  /\ by = "employee" => docs[d].status \notin Ruled
  /\ blobs' = blobs \ {d}
  /\ deleting' = deleting \cup {d}
  /\ UNCHANGED <<docs, uploads, uploading, removed, job, crashes, lost>>

(***************************************************************************)
(* DELETE /documents/{id}, by HR or by the employee.                       *)
(***************************************************************************)
DeleteRow(d, by) ==
  /\ HasRow(d)
  /\ by = "employee" => docs[d].status \notin Ruled
  /\ docs' = [docs EXCEPT ![d] = NoDoc]
  /\ removed' = removed \cup {d}
  /\ deleting' = deleting \cup {d}
  /\ UNCHANGED <<blobs, uploads, uploading, job, crashes, lost>>

\* Removing the blob; a storage error is swallowed.
DeleteBlob(d) ==
  /\ d \in deleting
  /\ deleting' = deleting \ {d}
  /\ blobs' \in {blobs, blobs \ {d}}
  /\ UNCHANGED <<docs, uploads, uploading, removed, job, crashes, lost>>

(***************************************************************************)
(* process_document: the commit of PROCESSING; the reload of the row and   *)
(* of the blob; the commit of EXTRACTED, which writes the status unless it *)
(* equals the one reloaded; or the commit of FAILED after any exception.   *)
(* Every commit is of a row that may have been deleted meanwhile.          *)
(***************************************************************************)
At(j, phase) == job[j] # NoJob /\ job[j].at = phase

Goto(j, phase) == job' = [job EXCEPT ![j].at = phase]

JobUnchanged == UNCHANGED <<blobs, uploads, uploading, deleting, removed, crashes, lost>>

JobStart(j) ==
  LET d == job[j].doc
  IN  /\ At(j, "queued")
      /\ IF HasRow(d) THEN SetStatus(d, "processing") /\ Goto(j, "started")
         ELSE UNCHANGED docs /\ Goto(j, "verify")
      /\ JobUnchanged

JobLoad(j) ==
  LET d == job[j].doc
  IN  /\ At(j, "started")
      /\ HasRow(d) /\ d \in blobs
      /\ job' = [job EXCEPT ![j].at = "loaded", ![j].seen = docs[d].status]
      /\ UNCHANGED docs /\ JobUnchanged

JobFinish(j) ==
  LET d == job[j].doc
  IN  /\ At(j, "loaded") /\ HasRow(d)
      /\ IF job[j].seen = "extracted" THEN UNCHANGED docs ELSE SetStatus(d, "extracted")
      /\ Goto(j, "verify")
      /\ JobUnchanged

\* Mutant: the failure puts back the status the job had seen.
JobFailRestoring(j) ==
  LET d == job[j].doc
  IN  /\ At(j, "started") \/ At(j, "loaded")
      /\ IF HasRow(d) THEN SetStatus(d, job[j].seen) ELSE UNCHANGED docs
      /\ Goto(j, "verify")
      /\ JobUnchanged

\* Mutant: the failure is written as a whole row, whether or not one is there.
JobFailUpserting(j) ==
  LET d == job[j].doc
  IN  /\ At(j, "started") \/ At(j, "loaded")
      /\ \E type \in DocTypes :
           docs' = [docs EXCEPT ![d] = [type |-> type, status |-> "failed"]]
      /\ Goto(j, "verify")
      /\ JobUnchanged

\* Mutant: the failure is only rolled back.
JobFailSilently(j) ==
  /\ At(j, "started") \/ At(j, "loaded")
  /\ Goto(j, "verify")
  /\ UNCHANGED docs /\ JobUnchanged

JobFail(j) ==
  LET d == job[j].doc
  IN  /\ At(j, "started") \/ At(j, "loaded")
      /\ IF HasRow(d) THEN SetStatus(d, "failed") ELSE UNCHANGED docs
      /\ Goto(j, "verify")
      /\ JobUnchanged

\* An exception outside the inner try: of the first read or commit, or of the
\* read or the commit that records a failure. It ends the background tasks of
\* its request, the verification with them, and the row stays as it is.
JobDies(j) ==
  /\ At(j, "queued") \/ At(j, "started") \/ At(j, "loaded")
  /\ job' = [job EXCEPT ![j] = NoJob]
  /\ lost' = lost \cup {job[j].doc}
  /\ UNCHANGED <<docs, blobs, uploads, uploading, deleting, removed, crashes>>

(***************************************************************************)
(* run_verification_for_document leaves the documents alone; Onboarding    *)
(* adds what it records.                                                   *)
(***************************************************************************)
JobVerify(j) ==
  /\ At(j, "verify")
  /\ job' = [job EXCEPT ![j] = NoJob]
  /\ UNCHANGED docs /\ JobUnchanged

JobStep(j) ==
  \/ JobStart(j) \/ JobLoad(j) \/ JobFinish(j) \/ JobFail(j)
  \/ JobDies(j) \/ JobVerify(j)

\* The process dies: background jobs and handlers in progress are gone.
Crash ==
  /\ crashes < MaxCrashes
  /\ crashes' = crashes + 1
  /\ job' = [j \in Jobs |-> NoJob]
  /\ uploading' = {} /\ deleting' = {}
  /\ lost' = lost \cup {d \in Documents : InHand(d)}
  /\ UNCHANGED <<docs, blobs, uploads, removed>>

DocNext ==
  \/ StoreBlob
  \/ \E d \in Documents, type \in DocTypes : InsertRow(d, type) \/ InsertRowOnly(d, type)
  \/ \E d \in Documents : UploadFails(d)
  \/ \E d \in Documents : Reprocess(d)
  \/ \E d \in Documents, verdict \in Ruled : Rule(d, verdict)
  \/ \E d \in Documents, by \in {"employee", "hr"} : DeleteRow(d, by)
  \/ \E d \in Documents : DeleteBlob(d)
  \/ \E j \in Jobs : JobStep(j)
  \/ Crash

DocSpec == DocInit /\ [][DocNext]_docVars

\* The thread pool runs every background job to its end, good or bad.
FairDocSpec == DocSpec /\ \A j \in Jobs : WF_docVars(JobStep(j))

-----------------------------------------------------------------------------
(***************************************************************************)
(* Properties.                                                             *)
(***************************************************************************)

\* Type invariant.
DocTypeOK ==
  /\ docs \in [Documents -> DocRows \cup {NoDoc}]
  /\ blobs \subseteq Documents
  /\ uploads \in 0..MaxDocs
  /\ uploading \subseteq Documents /\ deleting \subseteq Documents
  /\ removed \subseteq Documents
  /\ job \in [Jobs -> JobRows \cup {NoJob}]
  /\ crashes \in 0..MaxCrashes
  /\ lost \subseteq Documents

\* "a storage error can never leave a database row pointing at a deleted
\* object" (documents.py:295), nor can a crash between the two stores.
RowHasBlob == \A d \in Documents : HasRow(d) => d \in blobs

\* A background job never brings back a document deleted under it, and a
\* storage key is used for one document only.
DeletedStaysDeleted ==
  [][\A d \in Documents : d \in removed => docs'[d] = NoDoc]_docVars

\* A document that waits for its extraction has a job that will get to it,
\* unless a job of it was lost since the last was queued: no order of jobs,
\* failures, rulings, deletions and crashes strands another.
UnreadIsInHand ==
  \A d \in Documents :
    HasRow(d) /\ docs[d].status \in Unread => InHand(d) \/ d \in lost

\* Unless a job of it is lost, a document that waits is read in the end, with
\* success or failure, or deleted first.
HandledIsRead ==
  \A d \in Documents :
    (HasRow(d) /\ docs[d].status \in Unread /\ d \notin lost)
      ~> (~ HasRow(d) \/ docs[d].status \notin Unread \/ d \in lost)

(***************************************************************************)
(* What the code's documentation promises and the code does not keep.      *)
(***************************************************************************)

\* "failures are recorded on the document so HR sees a clear status instead
\* of a silently stuck row" (pipeline.py:43): extraction ends, one way or the
\* other, for every document that is not deleted first.
ExtractionEnds ==
  \A d \in Documents :
    (HasRow(d) /\ docs[d].status \in Unread)
      ~> (~ HasRow(d) \/ docs[d].status \notin Unread)

\* "Extraction is still running for this document. Review it once it
\* completes." (verification.py:264): HR never rules on a document whose
\* extraction is still to finish.
NoRulingDuringExtraction ==
  [][\A d \in Documents :
       (HasRow(d) /\ docs'[d] # NoDoc /\ docs'[d] # docs[d] /\ docs'[d].status \in Ruled) =>
         \A j \in Jobs : job[j] # NoJob /\ job[j].doc = d => job[j].at = "verify"]_docVars
=============================================================================
