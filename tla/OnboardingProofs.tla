-------------------------- MODULE OnboardingProofs --------------------------
(***************************************************************************)
(* Proofs about DocumentPipeline, Onboarding and OnboardingTxn, for any    *)
(* number of documents, background jobs, crashes, threads, document types  *)
(* and templates.                                                          *)
(***************************************************************************)
EXTENDS OnboardingTxn, TLAPS

(***************************************************************************)
(* The invariant. Files: where the blob and the row of a document stand    *)
(* relative to each other. Attended strengthens UnreadIsInHand: a job that *)
(* loaded the document as extracted will not write its status again, so it *)
(* cannot be the one an unread document waits for.                         *)
(***************************************************************************)
Files ==
  /\ RowHasBlob
  /\ uploading \subseteq blobs
  /\ \A d \in Documents :
       /\ HasRow(d) => d <= uploads /\ d \notin uploading /\ d \notin deleting
       /\ d \in uploading \cup deleting => d <= uploads
       /\ d \in deleting => d \in removed
       /\ d \in removed => ~ HasRow(d) /\ d <= uploads /\ d \notin uploading

WillWrite(j, d) ==
  /\ job[j] # NoJob /\ job[j].doc = d
  /\ \/ job[j].at \in {"queued", "started"}
     \/ job[j].at = "loaded" /\ job[j].seen # "extracted"

Attended ==
  \A d \in Documents :
    HasRow(d) /\ docs[d].status \in Unread => d \in lost \/ \E j \in Jobs : WillWrite(j, d)

DocInv == DocTypeOK /\ Files /\ Attended

USE DocumentBounds, NoDocAssumption, NoJobAssumption DEF Documents

-----------------------------------------------------------------------------
\* Before the first upload there is no row, no blob and no job.
LEMMA InitInv == DocInit => DocInv
  BY SMT DEF DocInit, DocInv, DocTypeOK, Files, RowHasBlob, Attended, HasRow

\* Every write of a status keeps the rows well formed.
LEMMA StatusKeepsType ==
  ASSUME DocTypeOK, NEW d \in Documents, HasRow(d), NEW s \in DocStatuses, SetStatus(d, s)
  PROVE  /\ docs' \in [Documents -> DocRows \cup {NoDoc}]
         /\ \A e \in Documents : HasRow(e)' <=> HasRow(e)
         /\ docs'[d].status = s /\ docs'[d].type = docs[d].type
         /\ \A e \in Documents : e # d => docs'[e] = docs[e]
<1>1. docs[d] \in DocRows
  BY DEF DocTypeOK, HasRow
<1>2. [docs[d] EXCEPT !.status = s] \in DocRows
  BY <1>1 DEF DocRows
<1>3. docs' = [docs EXCEPT ![d] = [docs[d] EXCEPT !.status = s]]
  BY DEF SetStatus
<1>4. /\ [docs[d] EXCEPT !.status = s].status = s
      /\ [docs[d] EXCEPT !.status = s].type = docs[d].type
  BY <1>1 DEF DocRows
<1> QED BY <1>2, <1>3, <1>4 DEF DocTypeOK, HasRow

\* A new job attends to its document and takes nothing from the others.
LEMMA ScheduleAttends ==
  ASSUME DocTypeOK, NEW d \in Documents, Schedule(d)
  PROVE  /\ job' \in [Jobs -> JobRows \cup {NoJob}]
         /\ \E j \in Jobs : WillWrite(j, d)'
         /\ \A k \in Jobs, e \in Documents : WillWrite(k, e) => WillWrite(k, e)'
         /\ lost' = lost \ {d}
<1>1. PICK j \in Jobs : job[j] = NoJob /\ job' = [job EXCEPT ![j] = Queued(d)]
  BY DEF Schedule
<1>2. Queued(d) \in JobRows /\ Queued(d) # NoJob /\ Queued(d).doc = d /\ Queued(d).at = "queued"
  BY DEF Queued, JobRows
<1>3. job' \in [Jobs -> JobRows \cup {NoJob}] /\ job'[j] = Queued(d)
  BY <1>1, <1>2 DEF DocTypeOK
<1>4. WillWrite(j, d)'
  BY <1>2, <1>3 DEF WillWrite
<1>5. \A k \in Jobs, e \in Documents : WillWrite(k, e) => WillWrite(k, e)'
  BY <1>1, <1>3 DEF WillWrite, DocTypeOK
<1>6. lost' = lost \ {d}
  BY DEF Schedule
<1> QED BY <1>3, <1>4, <1>5, <1>6

\* A job moves on, in its own slot and for the same document.
LEMMA GotoMoves ==
  ASSUME DocTypeOK, NEW j \in Jobs, job[j] # NoJob,
         NEW at \in {"queued", "started", "loaded", "verify"}, Goto(j, at)
  PROVE  /\ job[j] \in JobRows
         /\ job' \in [Jobs -> JobRows \cup {NoJob}]
         /\ job'[j] \in JobRows /\ job'[j].doc = job[j].doc /\ job'[j].at = at
         /\ \A k \in Jobs : k # j => job'[k] = job[k]
<1>1. job[j] \in JobRows
  BY DEF DocTypeOK
<1>2. [job[j] EXCEPT !.at = at] \in JobRows
  BY <1>1 DEF JobRows
<1>3. job' = [job EXCEPT ![j] = [job[j] EXCEPT !.at = at]]
  BY DEF Goto
<1>4. [job[j] EXCEPT !.at = at].doc = job[j].doc /\ [job[j] EXCEPT !.at = at].at = at
  BY <1>1 DEF JobRows
<1> QED BY <1>1, <1>2, <1>3, <1>4 DEF DocTypeOK

-----------------------------------------------------------------------------
(***************************************************************************)
(* What an action that leaves the jobs alone has to show: rows that were   *)
(* not waiting for extraction do not start to.                             *)
(***************************************************************************)
LEMMA AttendedKept ==
  ASSUME Attended, UNCHANGED <<job, lost>>,
         \A d \in Documents : HasRow(d)' /\ docs'[d].status \in Unread =>
                                HasRow(d) /\ docs[d].status \in Unread
  PROVE  Attended'
  BY DEF Attended, WillWrite

\* The uploading handler.
LEMMA StoreBlobInv == ASSUME DocInv, StoreBlob PROVE DocInv'
<1> USE DEF StoreBlob, DocInv
<1>1. DocTypeOK'
  BY DEF DocTypeOK
<1>2. Files'
  BY DEF DocTypeOK, Files, RowHasBlob, HasRow
<1>3. Attended'
  BY AttendedKept DEF HasRow
<1> QED BY <1>1, <1>2, <1>3

LEMMA InsertRowInv ==
  ASSUME DocInv, NEW d \in Documents, NEW type \in DocTypes, InsertRow(d, type)
  PROVE  DocInv'
<1> DEFINE row == [type |-> type, status |-> "uploaded"]
<1> USE DEF InsertRow, DocInv
<1>1. row \in DocRows /\ row # NoDoc
<2>1. row \in DocRows
  BY DEF DocRows, DocStatuses, Unread
<2> QED BY <2>1
<1>2. /\ job' \in [Jobs -> JobRows \cup {NoJob}]
      /\ \E j \in Jobs : WillWrite(j, d)'
      /\ \A k \in Jobs, e \in Documents : WillWrite(k, e) => WillWrite(k, e)'
      /\ lost' = lost \ {d}
  BY ScheduleAttends
<1>3. DocTypeOK'
  BY <1>1, <1>2 DEF DocTypeOK
<1>4. docs' = [docs EXCEPT ![d] = row]
  OBVIOUS
<1>5. Files'
  BY <1>1, <1>4 DEF DocTypeOK, Files, RowHasBlob, HasRow
<1>6. Attended'
  BY <1>2, <1>4 DEF Attended, HasRow, DocTypeOK
<1> QED BY <1>3, <1>5, <1>6

LEMMA InsertRowOnlyInv ==
  ASSUME DocInv, NEW d \in Documents, NEW type \in DocTypes, InsertRowOnly(d, type)
  PROVE  DocInv'
<1> DEFINE row == [type |-> type, status |-> "uploaded"]
<1> USE DEF InsertRowOnly, DocInv
<1>1. row \in DocRows /\ row # NoDoc
<2>1. row \in DocRows
  BY DEF DocRows, DocStatuses, Unread
<2> QED BY <2>1
<1>2. docs' = [docs EXCEPT ![d] = row]
  OBVIOUS
<1>3. DocTypeOK'
  BY <1>1, <1>2 DEF DocTypeOK
<1>4. Files'
  BY <1>1, <1>2 DEF DocTypeOK, Files, RowHasBlob, HasRow
<1>5. Attended'
  BY <1>2 DEF Attended, HasRow, DocTypeOK, WillWrite
<1> QED BY <1>3, <1>4, <1>5

LEMMA UploadFailsInv ==
  ASSUME DocInv, NEW d \in Documents, UploadFails(d)
  PROVE  DocInv'
<1> USE DEF UploadFails, DocInv
<1>1. DocTypeOK'
  BY DEF DocTypeOK
<1>2. Files'
  BY DEF Files, RowHasBlob, HasRow
<1>3. Attended'
  BY AttendedKept DEF HasRow
<1> QED BY <1>1, <1>2, <1>3

\* HR's handlers.
LEMMA ReprocessInv ==
  ASSUME DocInv, NEW d \in Documents, Reprocess(d)
  PROVE  DocInv'
<1> USE DEF Reprocess, DocInv
<1>1. /\ job' \in [Jobs -> JobRows \cup {NoJob}]
      /\ \E j \in Jobs : WillWrite(j, d)'
      /\ \A k \in Jobs, e \in Documents : WillWrite(k, e) => WillWrite(k, e)'
      /\ lost' = lost \ {d}
  BY ScheduleAttends
<1>2. DocTypeOK'
  BY <1>1 DEF DocTypeOK
<1>3. Files'
  BY DEF Files, RowHasBlob, HasRow
<1>4. Attended'
  BY <1>1 DEF Attended, HasRow
<1> QED BY <1>2, <1>3, <1>4

LEMMA RuleInv ==
  ASSUME DocInv, NEW d \in Documents, NEW verdict \in Ruled, Rule(d, verdict)
  PROVE  DocInv'
<1> USE DEF Rule, DocInv
<1>1. /\ docs' \in [Documents -> DocRows \cup {NoDoc}]
      /\ \A e \in Documents : HasRow(e)' <=> HasRow(e)
      /\ docs'[d].status = verdict
      /\ \A e \in Documents : e # d => docs'[e] = docs[e]
  BY StatusKeepsType DEF DocStatuses
<1>2. DocTypeOK'
  BY <1>1 DEF DocTypeOK
<1>3. Files'
  BY <1>1 DEF Files, RowHasBlob
<1>4. Attended'
  BY <1>1, AttendedKept DEF Ruled, Unread
<1> QED BY <1>2, <1>3, <1>4

\* The deleting handler.
LEMMA DeleteRowInv ==
  ASSUME DocInv, NEW d \in Documents, NEW by \in {"employee", "hr"}, DeleteRow(d, by)
  PROVE  DocInv'
<1> USE DEF DeleteRow, DocInv
<1>1. DocTypeOK'
  BY DEF DocTypeOK
<1>2. Files'
  BY DEF DocTypeOK, Files, RowHasBlob, HasRow
<1>3. Attended'
  BY AttendedKept DEF HasRow, DocTypeOK
<1> QED BY <1>1, <1>2, <1>3

LEMMA DeleteBlobInv ==
  ASSUME DocInv, NEW d \in Documents, DeleteBlob(d)
  PROVE  DocInv'
<1> USE DEF DeleteBlob, DocInv
<1>1. DocTypeOK'
  BY DEF DocTypeOK
<1>2. Files'
  BY DEF DocTypeOK, Files, RowHasBlob, HasRow
<1>3. Attended'
  BY AttendedKept DEF HasRow
<1> QED BY <1>1, <1>2, <1>3

LEMMA CrashInv == ASSUME DocInv, Crash PROVE DocInv'
<1> USE DEF Crash, DocInv
<1>1. DocTypeOK'
  <2>1. lost' \subseteq Documents
    BY DEF DocTypeOK
  <2>2. /\ docs' = docs /\ blobs' = blobs /\ uploads' = uploads /\ removed' = removed
        /\ uploading' = {} /\ deleting' = {} /\ job' = [j \in Jobs |-> NoJob]
        /\ crashes' = crashes + 1 /\ crashes < MaxCrashes
    OBVIOUS
  <2> HIDE DEF Crash
  <2> QED BY <2>1, <2>2, DocumentBounds DEF DocTypeOK
<1>2. Files'
  BY DEF DocTypeOK, Files, RowHasBlob, HasRow
<1>3. Attended'
  BY DEF Attended, DocTypeOK, HasRow, InHand, WillWrite
<1> QED BY <1>1, <1>2, <1>3

-----------------------------------------------------------------------------
(***************************************************************************)
(* The background job. Each step moves its own job, and of the documents   *)
(* touches at most its own.                                                *)
(***************************************************************************)
LEMMA JobFiles ==
  ASSUME Files, JobUnchanged, \A e \in Documents : HasRow(e)' <=> HasRow(e)
  PROVE  Files'
  BY DEF Files, RowHasBlob, JobUnchanged

LEMMA JobStartInv == ASSUME DocInv, NEW j \in Jobs, JobStart(j) PROVE DocInv'
<1> USE DEF DocInv
<1>1. job[j] # NoJob /\ job[j].at = "queued" /\ JobUnchanged
  BY DEF JobStart, At
<1>2. PICK d \in Documents : d = job[j].doc
  BY <1>1 DEF DocTypeOK, JobRows
<1>3. CASE HasRow(d)
  <2>1. SetStatus(d, "processing") /\ Goto(j, "started")
    BY <1>2, <1>3 DEF JobStart
  <2>2. /\ docs' \in [Documents -> DocRows \cup {NoDoc}]
        /\ \A e \in Documents : HasRow(e)' <=> HasRow(e)
        /\ \A e \in Documents : e # d => docs'[e] = docs[e]
    BY <1>2, <1>3, <2>1, StatusKeepsType DEF DocStatuses, Unread
  <2>3. /\ job' \in [Jobs -> JobRows \cup {NoJob}]
        /\ job'[j] \in JobRows /\ job'[j].doc = d /\ job'[j].at = "started"
        /\ \A k \in Jobs : k # j => job'[k] = job[k]
    BY <1>1, <1>2, <2>1, GotoMoves
  <2>4. DocTypeOK'
    BY <1>1, <2>2, <2>3 DEF DocTypeOK, JobUnchanged
  <2>5. WillWrite(j, d)'
    BY <1>1, <2>3 DEF WillWrite
  <2>6. \A k \in Jobs, e \in Documents : e # d /\ WillWrite(k, e) => WillWrite(k, e)'
    BY <1>2, <2>3 DEF WillWrite
  <2>7. Attended'
    BY <1>1, <2>2, <2>5, <2>6 DEF Attended, JobUnchanged
  <2> QED BY <1>1, <2>2, <2>4, <2>7, JobFiles
<1>4. CASE ~ HasRow(d)
  <2>1. UNCHANGED docs /\ Goto(j, "verify")
    BY <1>2, <1>4 DEF JobStart
  <2>2. /\ job' \in [Jobs -> JobRows \cup {NoJob}]
        /\ \A k \in Jobs : k # j => job'[k] = job[k]
    BY <1>1, <1>2, <2>1, GotoMoves
  <2>3. DocTypeOK'
    BY <1>1, <2>1, <2>2 DEF DocTypeOK, JobUnchanged
  <2>4. \A e \in Documents : HasRow(e)' <=> HasRow(e)
    BY <2>1 DEF HasRow
  <2>5. \A k \in Jobs, e \in Documents : e # d /\ WillWrite(k, e) => WillWrite(k, e)'
    BY <1>2, <2>2 DEF WillWrite
  <2>6. Attended'
    BY <1>1, <1>4, <2>1, <2>4, <2>5 DEF Attended, JobUnchanged
  <2> QED BY <1>1, <2>3, <2>4, <2>6, JobFiles
<1> QED BY <1>3, <1>4

\* A job that finds the document unread will write its status.
LEMMA JobLoadInv == ASSUME DocInv, NEW j \in Jobs, JobLoad(j) PROVE DocInv'
<1> DEFINE d == job[j].doc
<1> DEFINE row == [job[j] EXCEPT !.at = "loaded", !.seen = docs[d].status]
<1> USE DEF DocInv
<1>1. job[j] # NoJob /\ JobUnchanged /\ UNCHANGED docs /\ HasRow(d)
  BY DEF JobLoad, At
<1>2. job[j] \in JobRows /\ d \in Documents
  BY <1>1 DEF DocTypeOK, JobRows
<1>3. docs[d].status \in DocStatuses
  BY <1>1, <1>2 DEF DocTypeOK, HasRow, DocRows
<1>4. row \in JobRows /\ row.doc = d /\ row.at = "loaded" /\ row.seen = docs[d].status
  BY <1>2, <1>3 DEF JobRows
<1>5. job' = [job EXCEPT ![j] = row]
  BY DEF JobLoad
<1> HIDE DEF row
<1>6. job' \in [Jobs -> JobRows \cup {NoJob}] /\ job'[j] = row
      /\ \A k \in Jobs : k # j => job'[k] = job[k]
  BY <1>4, <1>5 DEF DocTypeOK
<1>7. DocTypeOK'
  BY <1>1, <1>6 DEF DocTypeOK, JobUnchanged
<1>8. \A e \in Documents : HasRow(e)' <=> HasRow(e)
  BY <1>1 DEF HasRow
<1>9. \A k \in Jobs, e \in Documents :
        WillWrite(k, e) /\ docs[e].status \in Unread => WillWrite(k, e)'
  <2> SUFFICES ASSUME NEW k \in Jobs, NEW e \in Documents,
                      WillWrite(k, e), docs[e].status \in Unread
               PROVE  WillWrite(k, e)'
    OBVIOUS
  <2>1. CASE k = j
    <3>1. e = d /\ docs[d].status # "extracted"
      BY <2>1 DEF WillWrite, Unread
    <3> QED BY <1>4, <1>6, <2>1, <3>1 DEF WillWrite
  <2>2. CASE k # j
    BY <1>6, <2>2 DEF WillWrite
  <2> QED BY <2>1, <2>2
<1>10. Attended'
  BY <1>1, <1>8, <1>9 DEF Attended, JobUnchanged
<1> QED BY <1>1, <1>7, <1>8, <1>10, JobFiles

\* A job that has written its result leaves its document read.
LEMMA JobWritesInv ==
  ASSUME DocInv, NEW j \in Jobs, job[j] # NoJob, HasRow(job[j].doc),
         NEW s \in {"extracted", "failed"}, SetStatus(job[j].doc, s),
         Goto(j, "verify"), JobUnchanged
  PROVE  DocInv'
<1> DEFINE d == job[j].doc
<1> USE DEF DocInv
<1>1. d \in Documents
  BY DEF DocTypeOK, JobRows
<1>2. /\ docs' \in [Documents -> DocRows \cup {NoDoc}]
      /\ \A e \in Documents : HasRow(e)' <=> HasRow(e)
      /\ docs'[d].status = s
      /\ \A e \in Documents : e # d => docs'[e] = docs[e]
  BY <1>1, StatusKeepsType DEF DocStatuses
<1>3. /\ job' \in [Jobs -> JobRows \cup {NoJob}]
      /\ \A k \in Jobs : k # j => job'[k] = job[k]
  BY GotoMoves
<1>4. DocTypeOK'
  BY <1>2, <1>3 DEF DocTypeOK, JobUnchanged
<1>5. \A k \in Jobs, e \in Documents : e # d /\ WillWrite(k, e) => WillWrite(k, e)'
  BY <1>3 DEF WillWrite
<1>6. docs'[d].status \notin Unread
  BY <1>2 DEF Unread
<1>7. Attended'
  BY <1>2, <1>5, <1>6 DEF Attended, JobUnchanged
<1> QED BY <1>2, <1>4, <1>7, JobFiles

\* A job that was not going to write is missed by no document.
LEMMA JobLeavesInv ==
  ASSUME DocInv, NEW j \in Jobs, job[j] # NoJob, UNCHANGED docs, JobUnchanged,
         job' \in [Jobs -> JobRows \cup {NoJob}],
         \A k \in Jobs : k # j => job'[k] = job[k],
         HasRow(job[j].doc) => ~ WillWrite(j, job[j].doc)
  PROVE  DocInv'
<1> USE DEF DocInv
<1>1. DocTypeOK'
  BY DEF DocTypeOK, JobUnchanged
<1>2. \A e \in Documents : HasRow(e)' <=> HasRow(e)
  BY DEF HasRow
<1>3. \A k \in Jobs, e \in Documents : HasRow(e) /\ WillWrite(k, e) => WillWrite(k, e)'
  BY DEF WillWrite
<1>4. Attended'
  BY <1>2, <1>3 DEF Attended, JobUnchanged
<1> QED BY <1>1, <1>2, <1>4, JobFiles

LEMMA JobFinishInv == ASSUME DocInv, NEW j \in Jobs, JobFinish(j) PROVE DocInv'
<1>1. /\ job[j] # NoJob /\ job[j].at = "loaded" /\ HasRow(job[j].doc)
      /\ Goto(j, "verify") /\ JobUnchanged
  BY DEF JobFinish, At
<1>2. CASE job[j].seen = "extracted"
  <2>1. UNCHANGED docs /\ ~ WillWrite(j, job[j].doc)
    BY <1>1, <1>2 DEF JobFinish, WillWrite
  <2>2. /\ job' \in [Jobs -> JobRows \cup {NoJob}]
        /\ \A k \in Jobs : k # j => job'[k] = job[k]
    BY <1>1, GotoMoves DEF DocInv
  <2> QED BY <1>1, <2>1, <2>2, JobLeavesInv
<1>3. CASE job[j].seen # "extracted"
  <2>1. SetStatus(job[j].doc, "extracted")
    BY <1>3 DEF JobFinish
  <2> QED BY <1>1, <2>1, JobWritesInv
<1> QED BY <1>2, <1>3

LEMMA JobFailInv == ASSUME DocInv, NEW j \in Jobs, JobFail(j) PROVE DocInv'
<1>1. job[j] # NoJob /\ Goto(j, "verify") /\ JobUnchanged
  BY DEF JobFail, At
<1>2. CASE HasRow(job[j].doc)
  <2>1. SetStatus(job[j].doc, "failed")
    BY <1>2 DEF JobFail
  <2> QED BY <1>1, <1>2, <2>1, JobWritesInv
<1>3. CASE ~ HasRow(job[j].doc)
  <2>1. UNCHANGED docs
    BY <1>3 DEF JobFail
  <2>2. /\ job' \in [Jobs -> JobRows \cup {NoJob}]
        /\ \A k \in Jobs : k # j => job'[k] = job[k]
    BY <1>1, GotoMoves DEF DocInv
  <2> QED BY <1>1, <1>3, <2>1, <2>2, JobLeavesInv
<1> QED BY <1>2, <1>3

\* A job that dies takes its own document's hope with it, and says so.
LEMMA JobDiesInv == ASSUME DocInv, NEW j \in Jobs, JobDies(j) PROVE DocInv'
<1> USE DEF DocInv
<1>1. /\ job[j] # NoJob /\ job' = [job EXCEPT ![j] = NoJob]
      /\ lost' = lost \cup {job[j].doc}
      /\ UNCHANGED <<docs, blobs, uploads, uploading, deleting, removed, crashes>>
  BY DEF JobDies, At
<1>2. job[j].doc \in Documents
  BY <1>1 DEF DocTypeOK, JobRows
<1>3. DocTypeOK'
  BY <1>1, <1>2 DEF DocTypeOK
<1>4. Files'
  BY <1>1 DEF Files, RowHasBlob, HasRow
<1>5. \A k \in Jobs, e \in Documents : e # job[j].doc /\ WillWrite(k, e) => WillWrite(k, e)'
  BY <1>1 DEF WillWrite, DocTypeOK
<1>6. Attended'
  BY <1>1, <1>5 DEF Attended, HasRow
<1> QED BY <1>3, <1>4, <1>6

LEMMA JobVerifyInv == ASSUME DocInv, NEW j \in Jobs, JobVerify(j) PROVE DocInv'
<1>1. /\ job[j] # NoJob /\ job[j].at = "verify"
      /\ job' = [job EXCEPT ![j] = NoJob] /\ UNCHANGED docs /\ JobUnchanged
  BY DEF JobVerify, At
<1>2. /\ job' \in [Jobs -> JobRows \cup {NoJob}]
      /\ \A k \in Jobs : k # j => job'[k] = job[k]
  BY <1>1 DEF DocInv, DocTypeOK
<1>3. ~ WillWrite(j, job[j].doc)
  BY <1>1 DEF WillWrite
<1> QED BY <1>1, <1>2, <1>3, JobLeavesInv

-----------------------------------------------------------------------------
LEMMA StepInv == ASSUME DocInv, [DocNext]_docVars PROVE DocInv'
<1>1. CASE StoreBlob
  BY <1>1, StoreBlobInv
<1>2. CASE \E d \in Documents, type \in DocTypes : InsertRow(d, type) \/ InsertRowOnly(d, type)
  BY <1>2, InsertRowInv, InsertRowOnlyInv
<1>3. CASE \E d \in Documents : UploadFails(d)
  BY <1>3, UploadFailsInv
<1>4. CASE \E d \in Documents : Reprocess(d)
  BY <1>4, ReprocessInv
<1>5. CASE \E d \in Documents, verdict \in Ruled : Rule(d, verdict)
  BY <1>5, RuleInv
<1>6. CASE \E d \in Documents, by \in {"employee", "hr"} : DeleteRow(d, by)
  BY <1>6, DeleteRowInv
<1>7. CASE \E d \in Documents : DeleteBlob(d)
  BY <1>7, DeleteBlobInv
<1>8. CASE \E j \in Jobs : JobStep(j)
  BY <1>8, JobStartInv, JobLoadInv, JobFinishInv, JobFailInv, JobDiesInv, JobVerifyInv
     DEF JobStep
<1>9. CASE Crash
  BY <1>9, CrashInv
<1>10. CASE UNCHANGED docVars
  BY <1>10 DEF docVars, DocInv, DocTypeOK, Files, RowHasBlob, Attended, HasRow, WillWrite
<1> QED BY <1>1, <1>2, <1>3, <1>4, <1>5, <1>6, <1>7, <1>8, <1>9, <1>10 DEF DocNext

LEMMA DocInvariance == DocSpec => []DocInv
<1>1. DocInit => DocInv
  BY InitInv
<1>2. DocInv /\ [DocNext]_docVars => DocInv'
  BY StepInv
<1> QED BY <1>1, <1>2, PTL DEF DocSpec

\* The documents, blobs and jobs always have the types the code gives them.
THEOREM DocTypeCorrect == DocSpec => []DocTypeOK
<1>1. DocInv => DocTypeOK
  BY DEF DocInv
<1> QED BY <1>1, DocInvariance, PTL

\* upload_document and delete_document order their two writes so that a row
\* never points at a missing file, whatever fails or crashes in between.
THEOREM RowsHaveBlobs == DocSpec => []RowHasBlob
<1>1. DocInv => RowHasBlob
  BY DEF DocInv, Files
<1> QED BY <1>1, DocInvariance, PTL

\* No interleaving of process_document runs with rulings, reprocessing,
\* deletions, failures and crashes leaves a document waiting for an extraction
\* that nobody will perform, but for those of which a job was lost.
THEOREM NobodyIsStranded == DocSpec => []UnreadIsInHand
<1>1. DocInv => UnreadIsInHand
  BY DEF DocInv, Attended, UnreadIsInHand, WillWrite, InHand
<1> QED BY <1>1, DocInvariance, PTL

\* Neither a late commit of process_document nor a new upload brings back the
\* row of a deleted document.
THEOREM DeletionIsFinal == DocSpec => DeletedStaysDeleted
<1> DEFINE Final == \A d \in Documents : d \in removed => docs'[d] = NoDoc
<1>1. DocInv /\ DocInv' /\ [DocNext]_docVars => [Final]_docVars
  <2> SUFFICES ASSUME DocInv, DocInv', [DocNext]_docVars, NEW d \in Documents,
                      d \in removed
               PROVE  d \in removed'
    BY DEF DocInv, Files, HasRow
  <2>1. CASE UNCHANGED removed
    BY <2>1
  <2>2. CASE \E e \in Documents, by \in {"employee", "hr"} : DeleteRow(e, by)
    BY <2>2 DEF DeleteRow, DocInv, DocTypeOK
  <2> QED BY <2>1, <2>2 DEF DocNext, docVars, StoreBlob, InsertRow, UploadFails, Reprocess,
             InsertRowOnly, Rule, DeleteBlob, JobStep, JobStart, JobLoad, JobFinish, JobFail,
             JobDies, JobVerify, JobUnchanged, Crash
<1> QED BY <1>1, DocInvariance, PTL DEF DocSpec, DeletedStaysDeleted
-----------------------------------------------------------------------------
(***************************************************************************)
(* Whatever onboarding derives from the documents, what happens to the     *)
(* documents is what DocumentPipeline allows.                              *)
(***************************************************************************)
LEMMA StepOfPipeline == [OnbNext]_onbVars => [DocNext]_docVars
<1> SUFFICES ASSUME [OnbNext]_onbVars PROVE [DocNext]_docVars
  OBVIOUS
<1>1. CASE DocumentStep
  BY <1>1 DEF DocumentStep, DocNext, JobStep
<1>2. CASE \E d \in Documents, verdict \in Ruled : Decide(d, verdict)
  BY <1>2 DEF Decide, DocNext
<1>3. CASE \E d \in Documents, by \in {"employee", "hr"} : DeleteDocument(d, by)
  BY <1>3 DEF DeleteDocument, DocNext
<1>4. CASE \E j \in Jobs : JobVerifies(j) \/ JobVerifiesNothing(j)
  BY <1>4 DEF JobVerifies, JobVerifiesNothing, DocNext, JobStep
<1>5. CASE UNCHANGED docVars
  BY <1>5
<1> QED BY <1>1, <1>2, <1>3, <1>4, <1>5 DEF OnbNext, VerifyDocument, RunFaceMatch,
      RunAssignment, ReadTasks, AddManualTask, UpdateTask, WaiveTask, DeleteTask, TaskStep,
      AcceptInvitation, CompleteOnboarding, SetStage, onbVars

\* The documents of the onboarding are those of the pipeline.
LEMMA OnboardingOfPipeline == OnbSpec => DocSpec
<1>1. OnbInit => DocInit
  BY DEF OnbInit
<1> QED BY <1>1, StepOfPipeline, PTL DEF OnbSpec, DocSpec

\* So what is proved of the pipeline holds of the whole: no row of the
\* onboarding's documents points at a missing file.
THEOREM OnboardingRowsHaveBlobs == OnbSpec => []RowHasBlob
BY OnboardingOfPipeline, RowsHaveBlobs, PTL

-----------------------------------------------------------------------------
(***************************************************************************)
(* The records derived from the documents. That a check or a face match    *)
(* never outlives its document needs that each document has one check at   *)
(* most: a deletion takes one away.                                        *)
(***************************************************************************)
TaskStates == {"none", "open", "completed", "waived"}

CheckRows == [doc : Documents, passed : BOOLEAN]

OneEach(s) == \A i, k \in DOMAIN s : s[i].doc = s[k].doc => i = k

ChecksRight ==
  checks \in Seq(CheckRows) /\ OneEach(checks) /\ \A i \in DOMAIN checks : checks[i].doc \in Stored(docs)

FaceRight ==
  /\ face \in [outcome : {"none", "matched", "unmatched"}, of : SUBSET Documents]
  /\ face.of \subseteq Stored(docs)

RecordsInv ==
  /\ DocInv
  /\ account \in BOOLEAN /\ stage \in Stages /\ task \in [Tasks -> TaskStates]
  /\ behind \in BOOLEAN
  /\ ChecksRight /\ FaceRight

\* Taking one element out of a sequence.
LEMMA RemoveOne ==
  ASSUME NEW S, NEW s \in Seq(S), NEW i \in DOMAIN s
  PROVE  /\ RemoveAt(s, i) \in Seq(S)
         /\ DOMAIN RemoveAt(s, i) = 1..(Len(s) - 1)
         /\ \A k \in 1..(Len(s) - 1) :
              RemoveAt(s, i)[k] = IF k < i THEN s[k] ELSE s[k + 1]
<1>1. i \in 1..Len(s) /\ Len(s) \in Nat
  OBVIOUS
<1> DEFINE a == SubSeq(s, 1, i - 1)
           b == SubSeq(s, i + 1, Len(s))
<1>2. /\ a \in Seq(S) /\ Len(a) = i - 1
      /\ \A k \in 1..(i - 1) : a[k] = s[k]
  BY <1>1
<1>3. /\ b \in Seq(S) /\ Len(b) = Len(s) - i
      /\ \A k \in 1..(Len(s) - i) : b[k] = s[k + i]
  BY <1>1
<1>4. RemoveAt(s, i) = a \o b
  BY DEF RemoveAt
<1> HIDE DEF a, b
<1>5. a \o b \in Seq(S) /\ Len(a \o b) = Len(s) - 1
  BY <1>1, <1>2, <1>3
<1>6. ASSUME NEW k \in 1..(Len(s) - 1)
      PROVE  (a \o b)[k] = IF k < i THEN s[k] ELSE s[k + 1]
  <2>1. CASE k < i
    BY <1>1, <1>2, <1>3, <2>1
  <2>2. CASE ~ (k < i)
    <3>1. (a \o b)[k] = b[k - (i - 1)]
      BY <1>1, <1>2, <1>3, <2>2
    <3>2. k - (i - 1) \in 1..(Len(s) - i) /\ (k - (i - 1)) + i = k + 1
      BY <1>1, <2>2
    <3> QED BY <1>3, <2>2, <3>1, <3>2
  <2> QED BY <2>1, <2>2
<1> QED BY <1>1, <1>4, <1>5, <1>6

\* Without the check of d: the others, each once, and none of d.
LEMMA WithoutOne ==
  ASSUME ChecksRight, NEW d
  PROVE  /\ ChecksWithout(d) \in Seq(CheckRows) /\ OneEach(ChecksWithout(d))
         /\ \A k \in DOMAIN ChecksWithout(d) :
              ChecksWithout(d)[k].doc # d /\ ChecksWithout(d)[k].doc \in Stored(docs)
<1> USE DEF ChecksRight
<1>1. CASE CheckOf(d) = {}
  BY <1>1 DEF CheckOf, ChecksWithout
<1>2. CASE CheckOf(d) # {}
  <2>1. PICK i : i = CHOOSE n \in CheckOf(d) : TRUE
    OBVIOUS
  <2>2. i \in DOMAIN checks /\ checks[i].doc = d
    BY <1>2, <2>1 DEF CheckOf
  <2>3. ChecksWithout(d) = RemoveAt(checks, i)
    BY <1>2, <2>1 DEF ChecksWithout
  <2>4. PICK s : s = RemoveAt(checks, i)
    OBVIOUS
  <2>5. /\ s \in Seq(CheckRows) /\ DOMAIN s = 1..(Len(checks) - 1)
        /\ \A k \in 1..(Len(checks) - 1) : s[k] = IF k < i THEN checks[k] ELSE checks[k + 1]
    BY <2>2, <2>4, RemoveOne
  <2> DEFINE at(k) == IF k < i THEN k ELSE k + 1
  <2>6. ASSUME NEW k \in DOMAIN s
        PROVE  k \in Int /\ at(k) \in DOMAIN checks /\ at(k) # i /\ s[k] = checks[at(k)]
    BY <2>2, <2>5
  <2>7. ASSUME NEW k \in DOMAIN s, NEW m \in DOMAIN s, at(k) = at(m) PROVE k = m
    BY <2>2, <2>5, <2>7
  <2> HIDE DEF at
  <2>8. OneEach(s)
    <3> SUFFICES ASSUME NEW k \in DOMAIN s, NEW m \in DOMAIN s, s[k].doc = s[m].doc
                 PROVE  k = m
      BY DEF OneEach
    <3>1. at(k) = at(m)
      BY <2>6 DEF OneEach
    <3> QED BY <2>7, <3>1
  <2>9. \A k \in DOMAIN s : s[k].doc # d /\ s[k].doc \in Stored(docs)
    BY <2>2, <2>6 DEF OneEach
  <2> QED BY <2>3, <2>4, <2>5, <2>8, <2>9
<1> QED BY <1>1, <1>2

\* A new check of a document that is there replaces the one it had.
LEMMA CheckRecorded ==
  ASSUME ChecksRight, NEW d \in Documents, HasRow(d), RecordCheck(d), docs' = docs
  PROVE  ChecksRight'
<1>1. PICK passed \in BOOLEAN : checks' = Append(ChecksWithout(d), [doc |-> d, passed |-> passed])
  BY DEF RecordCheck
<1>2. PICK s : s = ChecksWithout(d)
  OBVIOUS
<1>3. PICK c : c = [doc |-> d, passed |-> passed]
  OBVIOUS
<1>4. /\ s \in Seq(CheckRows) /\ OneEach(s)
      /\ \A k \in DOMAIN s : s[k].doc # d /\ s[k].doc \in Stored(docs)
  BY <1>2, WithoutOne
<1>5. c \in CheckRows /\ c.doc = d /\ d \in Stored(docs)
  BY <1>3 DEF CheckRows, Stored, HasRow
<1>6. /\ checks' \in Seq(CheckRows) /\ DOMAIN checks' = 1..(Len(s) + 1)
      /\ \A k \in DOMAIN s : checks'[k] = s[k]
      /\ checks'[Len(s) + 1] = c
  BY <1>1, <1>2, <1>3, <1>4, <1>5
<1>7. \A k \in DOMAIN checks' : k \in DOMAIN s \/ k = Len(s) + 1
  BY <1>4, <1>6
<1>8. \A k \in DOMAIN checks' : checks'[k].doc \in Stored(docs)
  BY <1>4, <1>5, <1>6, <1>7
<1>9. OneEach(checks')
  BY <1>4, <1>5, <1>6, <1>7 DEF OneEach
<1> QED BY <1>6, <1>8, <1>9 DEF ChecksRight, Stored, OneEach

LEMMA MatchRecorded ==
  ASSUME RecordFaceMatch, docs' = docs
  PROVE  FaceRight'
<1>1. Photo \cup IdDocument \subseteq Stored(docs) /\ Stored(docs) \subseteq Documents
  BY DEF Photo, IdDocument, LatestOf, Stored
<1> QED BY <1>1 DEF RecordFaceMatch, FaceRight, Stored

\* Whatever is derived from the documents, a stage is one and a task has a state.
LEMMA DerivedType ==
  ASSUME stage \in Stages, task \in [Tasks -> TaskStates], NEW D
  PROVE  /\ NewStage(D) \in Stages
         /\ Sync(task, D) \in [Tasks -> TaskStates]
         /\ Assign(D) \in [Tasks -> TaskStates]
         /\ TasksAfter(D) \in [Tasks -> TaskStates]
<1>1. NewStage(D) \in Stages
  BY DEF NewStage, Target, Stages, Rank
<1>2. ASSUME NEW T \in [Tasks -> TaskStates], NEW E PROVE Sync(T, E) \in [Tasks -> TaskStates]
  BY <1>2 DEF Sync, TaskStates
<1>3. [t \in Tasks |-> IF t \in Unassigned THEN "open" ELSE task[t]] \in [Tasks -> TaskStates]
  BY DEF TaskStates
<1>4. Assign(D) \in [Tasks -> TaskStates]
  BY <1>2, <1>3 DEF Assign
<1> QED BY <1>1, <1>2, <1>4 DEF TasksAfter

\* A step takes a document away only by deleting it.
LEMMA RowsStay ==
  ASSUME DocInv, [OnbNext]_onbVars
  PROVE  \/ \E d \in Documents, by \in {"employee", "hr"} : DeleteDocument(d, by)
         \/ Stored(docs) \subseteq Stored(docs')
<1>1. ASSUME NEW d \in Documents, NEW s \in DocStatuses, HasRow(d), SetStatus(d, s)
      PROVE  Stored(docs) \subseteq Stored(docs')
  <2>1. \A e \in Documents : HasRow(e)' <=> HasRow(e)
    BY <1>1, StatusKeepsType DEF DocInv
  <2> QED BY <2>1 DEF Stored, HasRow
<1>2. ASSUME NEW d \in Documents, NEW type \in DocTypes,
             InsertRow(d, type) \/ InsertRowOnly(d, type)
      PROVE  Stored(docs) \subseteq Stored(docs')
  <2>1. [type |-> type, status |-> "uploaded"] \in DocRows
    BY DEF DocRows, DocStatuses, Unread
  <2> QED BY <1>2, <2>1 DEF InsertRow, InsertRowOnly, Stored, DocInv, DocTypeOK
<1>3. ASSUME NEW j \in Jobs, JobStart(j) \/ JobFinish(j) \/ JobFail(j)
      PROVE  Stored(docs) \subseteq Stored(docs')
  <2>1. job[j].doc \in Documents
    BY <1>3 DEF JobStart, JobFinish, JobFail, At, DocInv, DocTypeOK, JobRows
  <2>2. \/ docs' = docs
        \/ \E s \in {"processing", "extracted", "failed"} :
             HasRow(job[j].doc) /\ SetStatus(job[j].doc, s)
    BY <1>3 DEF JobStart, JobFinish, JobFail
  <2> QED BY <1>1, <2>1, <2>2 DEF DocStatuses, Unread
<1>4. ASSUME NEW d \in Documents, NEW verdict \in Ruled, Decide(d, verdict)
      PROVE  Stored(docs) \subseteq Stored(docs')
  BY <1>1, <1>4 DEF Decide, Rule, DocStatuses
<1>5. CASE UNCHANGED docs
  BY <1>5
<1>6. CASE DocumentStep
  BY <1>2, <1>3, <1>5, <1>6 DEF DocumentStep, StoreBlob, UploadFails, Reprocess, DeleteBlob,
     JobLoad, JobDies, Crash
<1> QED BY <1>4, <1>5, <1>6 DEF OnbNext, onbVars, docVars, JobVerifies, JobVerifiesNothing,
      JobVerify, VerifyDocument, RunFaceMatch, RunAssignment, ReadTasks, AddManualTask,
      UpdateTask, WaiveTask, DeleteTask, TaskStep, AcceptInvitation, CompleteOnboarding, SetStage

LEMMA RecordsInit == OnbInit => RecordsInv
<1> SUFFICES ASSUME OnbInit PROVE RecordsInv
  OBVIOUS
<1>1. DocInv
  BY InitInv DEF OnbInit
<1>2. account \in BOOLEAN /\ stage \in Stages /\ task \in [Tasks -> TaskStates]
  BY OnboardingConstants DEF OnbInit, Stages, Rank, TaskStates
<1>3. ChecksRight
  BY DEF OnbInit, ChecksRight, OneEach
<1>4. FaceRight /\ behind \in BOOLEAN
  BY DEF OnbInit, FaceRight
<1> QED BY <1>1, <1>2, <1>3, <1>4 DEF RecordsInv

\* A step that takes no document away keeps the checks and the match it finds.
LEMMA RecordsStay ==
  ASSUME Stored(docs) \subseteq Stored(docs')
  PROVE  /\ ChecksRight /\ checks' = checks => ChecksRight'
         /\ FaceRight /\ face' = face => FaceRight'
BY DEF ChecksRight, OneEach, FaceRight

\* What a step does to the stage: nothing, unless it is a recalculation, a
\* completion, HR's PATCH or an acceptance.
LEMMA StageStep ==
  ASSUME [OnbNext]_onbVars
  PROVE  \/ UNCHANGED <<stage, behind>>
         \/ UNCHANGED stage /\ behind' = TRUE
         \/ Recalculate(docs')
         \/ UNCHANGED <<docs, behind>> /\ stage' = "complete"
         \/ behind' = TRUE /\ stage' \in Stages
<1>1. CASE \E d \in Documents, verdict \in Ruled : Decide(d, verdict)
  BY <1>1 DEF Decide
<1>2. CASE \E j \in Jobs : JobVerifies(j)
  <2>1. PICK j \in Jobs : JobVerifies(j)
    BY <1>2
  <2>2. UNCHANGED docs /\ Recalculate(docs)
    BY <2>1 DEF JobVerifies, JobVerify
  <2> QED BY <2>2 DEF Recalculate, TasksAfter, NewStage, Target, Assign, Sync, AllRequiredApproved,
             Approved, TypesIn, Stored
<1>3. CASE RunFaceMatch \/ \E d \in Documents : VerifyDocument(d)
  <2>1. UNCHANGED docs /\ Recalculate(docs)
    BY <1>3 DEF RunFaceMatch, VerifyDocument, docVars
  <2> QED BY <2>1 DEF Recalculate, TasksAfter, NewStage, Target, Assign, Sync, AllRequiredApproved,
             Approved, TypesIn, Stored
<1>4. CASE AcceptInvitation \/ SetStage
  BY <1>4 DEF AcceptInvitation, SetStage, Stages, Rank
<1>5. CASE CompleteOnboarding
  BY <1>5 DEF CompleteOnboarding, docVars
<1>6. CASE \E d \in Documents, by \in {"employee", "hr"} : DeleteDocument(d, by)
  BY <1>6 DEF DeleteDocument
<1> QED BY <1>1, <1>2, <1>3, <1>4, <1>5, <1>6 DEF OnbNext, onbVars, recordVars, DocumentStep,
      JobVerifiesNothing, RunAssignment, ReadTasks, AddManualTask, UpdateTask, WaiveTask,
      DeleteTask, TaskStep

\* The stage and the tasks after a step.
LEMMA ProgressType ==
  ASSUME RecordsInv, [OnbNext]_onbVars
  PROVE  account' \in BOOLEAN /\ stage' \in Stages /\ task' \in [Tasks -> TaskStates]
<1>1. /\ account \in BOOLEAN /\ stage \in Stages /\ task \in [Tasks -> TaskStates]
  BY DEF RecordsInv
<1>2. ASSUME NEW D, Recalculate(D), UNCHANGED account
      PROVE  account' \in BOOLEAN /\ stage' \in Stages /\ task' \in [Tasks -> TaskStates]
  BY <1>1, <1>2, DerivedType DEF Recalculate
<1>3. ASSUME NEW d \in Documents, NEW verdict \in Ruled, Decide(d, verdict)
      PROVE  account' \in BOOLEAN /\ stage' \in Stages /\ task' \in [Tasks -> TaskStates]
  <2>1. PICK D : D = docs'
    OBVIOUS
  <2>2. Recalculate(D) /\ UNCHANGED account
    BY <1>3, <2>1 DEF Decide, Recalculate
  <2> QED BY <1>2, <2>2
<1>4. CASE RunFaceMatch \/ (\E d \in Documents : VerifyDocument(d)) \/ \E j \in Jobs : JobVerifies(j)
  <2>1. PICK D : D = docs
    OBVIOUS
  <2>2. Recalculate(D) /\ UNCHANGED account
    BY <1>4, <2>1 DEF RunFaceMatch, VerifyDocument, JobVerifies
  <2> QED BY <1>2, <2>2
<1>5. ASSUME UNCHANGED <<account, stage>>, NEW T \in [Tasks -> TaskStates], task' = T
      PROVE  account' \in BOOLEAN /\ stage' \in Stages /\ task' \in [Tasks -> TaskStates]
  BY <1>1, <1>5
<1>6. CASE RunAssignment \/ ReadTasks
  BY <1>1, <1>6, DerivedType DEF RunAssignment, ReadTasks, TaskStep
<1>7. ASSUME NEW t \in Tasks, NEW s \in TaskStates, TaskStep([task EXCEPT ![t] = s])
      PROVE  account' \in BOOLEAN /\ stage' \in Stages /\ task' \in [Tasks -> TaskStates]
  BY <1>1, <1>7 DEF TaskStep
<1>8. CASE \/ \E t \in Manual : AddManualTask(t)
           \/ \E t \in Tasks, by \in {"employee", "hr"}, status \in {"open", "completed"} :
                UpdateTask(t, by, status)
           \/ \E t \in Tasks : WaiveTask(t) \/ DeleteTask(t)
  <2>1. Manual \subseteq Tasks /\ {"none", "open", "completed", "waived"} = TaskStates
    BY DEF Tasks, TaskStates
  <2> QED BY <1>7, <1>8, <2>1 DEF AddManualTask, UpdateTask, WaiveTask, DeleteTask
<1>9. CASE AcceptInvitation \/ CompleteOnboarding \/ SetStage
  <2>1. {"registered", "complete"} \subseteq Stages
    BY DEF Stages, Rank
  <2> QED BY <1>1, <1>9, <2>1, DerivedType DEF AcceptInvitation, CompleteOnboarding, SetStage
<1>10. CASE UNCHANGED <<account, stage, task>>
  BY <1>1, <1>10
<1> QED BY <1>3, <1>4, <1>6, <1>8, <1>9, <1>10 DEF OnbNext, onbVars, recordVars, DocumentStep,
      DeleteDocument, JobVerifiesNothing

LEMMA RecordsStep == RecordsInv /\ [OnbNext]_onbVars => RecordsInv'
<1> SUFFICES ASSUME RecordsInv, [OnbNext]_onbVars PROVE RecordsInv'
  OBVIOUS
<1>1. DocInv'
  BY StepOfPipeline, StepInv DEF RecordsInv
<1>2. account' \in BOOLEAN /\ stage' \in Stages /\ task' \in [Tasks -> TaskStates]
  BY ProgressType
<1>3. DocInv /\ ChecksRight /\ FaceRight
  BY DEF RecordsInv
<1>6. behind' \in BOOLEAN
  BY StageStep DEF RecordsInv, Recalculate
<1>4. CASE \E d \in Documents, by \in {"employee", "hr"} : DeleteDocument(d, by)
  <2>1. PICK d \in Documents, by \in {"employee", "hr"} : DeleteDocument(d, by)
    BY <1>4
  <2>2. /\ checks' = ChecksWithout(d) /\ face' = [face EXCEPT !.of = @ \ {d}]
        /\ docs' = [docs EXCEPT ![d] = NoDoc]
    BY <2>1 DEF DeleteDocument, DeleteRow
  <2>3. Stored(docs') = Stored(docs) \ {d}
    BY <1>3, <2>2 DEF Stored, DocInv, DocTypeOK
  <2>4. ChecksRight'
    <3>1. PICK s : s = ChecksWithout(d)
      OBVIOUS
    <3>2. /\ s \in Seq(CheckRows) /\ OneEach(s)
          /\ \A k \in DOMAIN s : s[k].doc # d /\ s[k].doc \in Stored(docs)
      BY <1>3, <3>1, WithoutOne
    <3>3. checks' = s
      BY <2>2, <3>1
    <3> QED BY <2>3, <3>2, <3>3 DEF ChecksRight, OneEach
  <2>5. FaceRight'
    BY <1>3, <2>2, <2>3 DEF FaceRight
  <2> QED BY <1>1, <1>2, <1>6, <2>4, <2>5 DEF RecordsInv
<1>5. CASE Stored(docs) \subseteq Stored(docs')
  <2>1. ChecksRight'
    <3>1. ASSUME NEW d \in Documents, HasRow(d), RecordCheck(d), docs' = docs PROVE ChecksRight'
      BY <1>3, <3>1, CheckRecorded
    <3>2. CASE UNCHANGED checks
      BY <1>3, <1>5, <3>2, RecordsStay
    <3>3. ASSUME NEW j \in Jobs, JobVerifies(j) PROVE ChecksRight'
      <4>1. job[j].doc \in Documents
        BY <1>3, <3>3 DEF JobVerifies, JobVerify, At, DocInv, DocTypeOK, JobRows
      <4> QED BY <3>1, <3>2, <3>3, <4>1 DEF JobVerifies, JobVerify
    <3>4. ASSUME NEW d \in Documents, VerifyDocument(d) PROVE ChecksRight'
      BY <3>1, <3>4 DEF VerifyDocument, docVars
    <3>5. ASSUME NEW d \in Documents, NEW by \in {"employee", "hr"}, DeleteDocument(d, by)
          PROVE  FALSE
      BY <1>3, <1>5, <3>5 DEF DeleteDocument, DeleteRow, Stored, DocInv, DocTypeOK, HasRow
    <3> QED BY <3>2, <3>3, <3>4, <3>5 DEF OnbNext, onbVars, recordVars, DocumentStep, Decide,
          JobVerifiesNothing, RunFaceMatch, RunAssignment, ReadTasks, AddManualTask, UpdateTask,
          WaiveTask, DeleteTask, TaskStep, AcceptInvitation, CompleteOnboarding, SetStage
  <2>2. FaceRight'
    <3>1. CASE RecordFaceMatch /\ docs' = docs
      BY <3>1, MatchRecorded
    <3>2. CASE UNCHANGED face
      BY <1>3, <1>5, <3>2, RecordsStay
    <3>3. ASSUME NEW j \in Jobs, JobVerifies(j) PROVE FaceRight'
      BY <3>1, <3>2, <3>3 DEF JobVerifies, JobVerify
    <3>4. CASE RunFaceMatch
      BY <3>1, <3>4 DEF RunFaceMatch, docVars
    <3>5. ASSUME NEW d \in Documents, NEW by \in {"employee", "hr"}, DeleteDocument(d, by)
          PROVE  FALSE
      BY <1>3, <1>5, <3>5 DEF DeleteDocument, DeleteRow, Stored, DocInv, DocTypeOK, HasRow
    <3> QED BY <3>2, <3>3, <3>4, <3>5 DEF OnbNext, onbVars, recordVars, DocumentStep, Decide,
          JobVerifiesNothing, VerifyDocument, RunAssignment, ReadTasks, AddManualTask, UpdateTask,
          WaiveTask, DeleteTask, TaskStep, AcceptInvitation, CompleteOnboarding, SetStage
  <2> QED BY <1>1, <1>2, <1>6, <2>1, <2>2 DEF RecordsInv
<1> QED BY <1>3, <1>4, <1>5, RowsStay

\* The records are well formed, and none is left of a document that is gone:
\* not its identity check, nor its part in a face match (documents.py
\* delete_document and the foreign keys of models/verification.py).
THEOREM RecordsTypeCorrect == OnbSpec => []OnbTypeOK
<1>1. RecordsInv => OnbTypeOK
  <2> SUFFICES ASSUME RecordsInv PROVE OnbTypeOK
    OBVIOUS
  <2>1. ASSUME NEW i \in DOMAIN checks
        PROVE  /\ checks[i].doc \in Stored(docs) /\ checks[i].passed \in BOOLEAN
               /\ \A k \in DOMAIN checks : checks[k].doc = checks[i].doc => k = i
    <3>1. checks[i] \in CheckRows
      BY <2>1 DEF RecordsInv, ChecksRight
    <3> QED BY <2>1, <3>1 DEF RecordsInv, ChecksRight, OneEach, CheckRows
  <2>2. /\ face.outcome \in {"none", "matched", "unmatched"} /\ face.of \subseteq Stored(docs)
    BY DEF RecordsInv, FaceRight
  <2> QED BY <2>1, <2>2 DEF RecordsInv, TaskStates, OnbTypeOK
<1>2. RecordsInv /\ [OnbNext]_onbVars => RecordsInv'
  BY RecordsStep
<1> QED BY <1>1, <1>2, RecordsInit, PTL DEF OnbSpec

-----------------------------------------------------------------------------
(***************************************************************************)
(* The stage.                                                              *)
(***************************************************************************)
Reviewed == {"under_review", "tasks_assigned"} \cup Terminal

\* A recalculation that finds a ruling moves the stage to review or further.
LEMMA RecalculationSeesRulings ==
  ASSUME stage \in Stages, NEW D, TypesIn(D, Ruled) # {}
  PROVE  NewStage(D) \in Reviewed
<1>1. Stored(D) # {}
  BY DEF TypesIn
<1>2. Target(D) \in {"under_review", "tasks_assigned"}
  BY DEF Target
<1> QED BY <1>1, <1>2 DEF NewStage, Reviewed, Terminal, Stages, Rank

\* A recalculation keeps the stage, moves it forward, or leaves a terminal one.
LEMMA RecalculationAdvances ==
  ASSUME NEW D
  PROVE  NewStage(D) = stage \/ (stage \notin Terminal /\ Rank[NewStage(D)] > Rank[stage])
BY DEF NewStage, Terminal, Rank

\* recalculate_onboarding_status "only ever moves forward" and "never silently
\* rewinds" a terminal stage, whatever mixture of documents it finds.
THEOREM NoStepRewinds == OnbSpec => StagesAdvance
<1>1. [OnbNext]_onbVars =>
        [ \/ stage' = stage \/ behind' \/ stage' = "complete"
          \/ stage \notin Terminal /\ Rank[stage'] > Rank[stage] ]_onbVars
  <2> SUFFICES ASSUME [OnbNext]_onbVars
               PROVE  \/ stage' = stage \/ behind' \/ stage' = "complete"
                      \/ stage \notin Terminal /\ Rank[stage'] > Rank[stage]
    OBVIOUS
  <2>1. CASE Recalculate(docs')
    BY <2>1, RecalculationAdvances DEF Recalculate
  <2> QED BY <2>1, StageStep
<1> QED BY <1>1, PTL DEF OnbSpec, StagesAdvance

-----------------------------------------------------------------------------
(***************************************************************************)
(* Rulings and the stage.                                                  *)
(***************************************************************************)

\* A recalculation that finds the required documents approved finds, or brings
\* about, the assignment of the tasks.
LEMMA RecalculationSeesApprovals ==
  ASSUME stage \in Stages, NEW D, AllRequiredApproved(D)
  PROVE  NewStage(D) \in {"tasks_assigned"} \cup Terminal
<1>1. Stored(D) # {}
  BY OnboardingConstants DEF AllRequiredApproved, Approved, TypesIn
<1>2. Target(D) = "tasks_assigned"
  BY DEF Target
<1> QED BY <1>1, <1>2 DEF NewStage, Terminal, Stages, Rank

\* Only a ruling makes a document ruled, and only a deletion takes one away.
LEMMA ChangesUnruled ==
  ASSUME DocInv, [OnbNext]_onbVars, ~ behind', NEW e \in Documents, docs'[e] # docs[e],
         ~ \E d \in Documents, verdict \in Ruled : Decide(d, verdict)
  PROVE  /\ docs'[e] # NoDoc /\ docs'[e].status \notin Ruled
         /\ docs[e] # NoDoc => docs'[e].type = docs[e].type
<1>1. PICK d \in Documents, type \in DocTypes, j \in Jobs :
        \/ InsertRow(d, type) \/ InsertRowOnly(d, type)
        \/ JobStart(j) \/ JobFinish(j) \/ JobFail(j)
  BY DocumentBounds DEF OnbNext, onbVars, docVars, DocumentStep, StoreBlob, UploadFails,
     Reprocess, DeleteBlob, JobLoad, JobDies, JobVerify, Crash, DeleteDocument, JobVerifies,
     JobVerifiesNothing, VerifyDocument, RunFaceMatch, RunAssignment, ReadTasks, AddManualTask,
     UpdateTask, WaiveTask, DeleteTask, TaskStep, AcceptInvitation, CompleteOnboarding, SetStage
<1>2. CASE InsertRow(d, type) \/ InsertRowOnly(d, type)
  <2>1. docs[d] = NoDoc
    BY <1>2 DEF InsertRow, InsertRowOnly, DocInv, Files, HasRow
  <2>2. docs' = [docs EXCEPT ![d] = [type |-> type, status |-> "uploaded"]]
    BY <1>2 DEF InsertRow, InsertRowOnly
  <2>3. [type |-> type, status |-> "uploaded"] \in DocRows
    BY DEF DocRows, DocStatuses, Unread
  <2> QED BY <2>1, <2>2, <2>3 DEF Ruled, DocInv, DocTypeOK
<1>4. CASE JobStart(j) \/ JobFinish(j) \/ JobFail(j)
  <2>1. job[j].doc \in Documents
    BY <1>4 DEF JobStart, JobFinish, JobFail, At, DocInv, DocTypeOK, JobRows
  <2>2. PICK s \in {"processing", "extracted", "failed"} :
          HasRow(job[j].doc) /\ SetStatus(job[j].doc, s)
    BY <1>4 DEF JobStart, JobFinish, JobFail
  <2>3. /\ docs'[job[j].doc].status = s /\ docs'[job[j].doc].type = docs[job[j].doc].type
        /\ \A f \in Documents : HasRow(f)' <=> HasRow(f)
        /\ \A f \in Documents : f # job[j].doc => docs'[f] = docs[f]
    BY <2>1, <2>2, StatusKeepsType DEF DocInv, DocStatuses, Unread
  <2> QED BY <2>1, <2>2, <2>3 DEF Ruled, HasRow
<1> QED BY <1>1, <1>2, <1>4

\* So what is ruled on, and what is approved, was so before the step.
LEMMA NoNewRuling ==
  ASSUME DocInv, [OnbNext]_onbVars, ~ behind',
         ~ \E d \in Documents, verdict \in Ruled : Decide(d, verdict)
  PROVE  /\ TypesIn(docs', Ruled) # {} => TypesIn(docs, Ruled) # {}
         /\ AllRequiredApproved(docs') => AllRequiredApproved(docs)
<1>1. \A e \in Documents : docs'[e] # docs[e] =>
        /\ docs'[e] # NoDoc /\ docs'[e].status \notin Ruled
        /\ docs[e] # NoDoc => docs'[e].type = docs[e].type
  BY ChangesUnruled
<1>2. ASSUME NEW S \in SUBSET Ruled PROVE TypesIn(docs', S) \subseteq TypesIn(docs, S)
  BY <1>1 DEF TypesIn, Stored
<1>3. "approved" \in Ruled
  BY DEF Ruled
<1>4. Approved(docs') \subseteq Approved(docs)
  BY <1>2, <1>3 DEF Approved
<1>5. ASSUME AllRequiredApproved(docs'), NEW d \in Stored(docs), docs[d].type \in Required
      PROVE  docs[d].status \in Ruled
  BY <1>1, <1>5 DEF AllRequiredApproved, Stored
<1> QED BY <1>2, <1>4, <1>5 DEF AllRequiredApproved

StageInv ==
  /\ DocInv
  /\ stage \in Stages
  /\ StageFollowsRulings

\* Nothing that HR rules on is lost to the stage: every ruling leaves the
\* onboarding under review or further, and the approval of the last required
\* document with its tasks assigned, and no later upload, job, task or failure
\* takes it back: only HR's PATCH, an acceptance or a deletion does.
THEOREM RulingsReachTheStage == OnbSpec => []StageFollowsRulings
<1>1. OnbInit => StageInv
  <2> SUFFICES ASSUME OnbInit PROVE StageInv
    OBVIOUS
  <2>1. DocInv
    BY InitInv DEF OnbInit
  <2>2. TypesIn(docs, Ruled) = {} /\ Approved(docs) = {}
    BY DEF OnbInit, DocInit, TypesIn, Stored, Approved
  <2>3. ~ AllRequiredApproved(docs)
    BY <2>2, OnboardingConstants DEF AllRequiredApproved
  <2>4. stage \in Stages
    BY DEF OnbInit, Stages, Rank
  <2> QED BY <2>1, <2>2, <2>3, <2>4 DEF StageInv, StageFollowsRulings
<1>2. StageInv /\ [OnbNext]_onbVars => StageInv'
  <2> SUFFICES ASSUME StageInv, [OnbNext]_onbVars PROVE StageInv'
    OBVIOUS
  <2> USE DEF StageInv
  <2>1. DocInv'
    BY StepOfPipeline, StepInv
  <2>2. "complete" \in Stages /\ Terminal = {"complete", "rejected"}
    BY DEF Terminal, Stages, Rank
  <2>3. stage' \in Stages
    <3>1. CASE Recalculate(docs')
      BY <3>1 DEF Recalculate, NewStage, Target, Stages, Rank
    <3> QED BY <2>2, <3>1, StageStep
  <2>4. ASSUME ~ behind'
        PROVE  /\ TypesIn(docs', Ruled) # {} => stage' \in Reviewed
               /\ AllRequiredApproved(docs') => stage' \in {"tasks_assigned"} \cup Terminal
    <3>1. CASE Recalculate(docs')
      BY <3>1, RecalculationSeesRulings, RecalculationSeesApprovals DEF Recalculate
    <3>2. CASE stage' = "complete"
      BY <2>2, <3>2 DEF Reviewed
    <3>3. CASE UNCHANGED <<stage, behind>> /\ ~ Recalculate(docs')
      <4>1. /\ TypesIn(docs', Ruled) # {} => TypesIn(docs, Ruled) # {}
            /\ AllRequiredApproved(docs') => AllRequiredApproved(docs)
        BY <2>4, <3>3, NoNewRuling DEF Decide
      <4> QED BY <2>4, <3>3, <4>1 DEF StageFollowsRulings, Reviewed
    <3> QED BY <2>4, <3>1, <3>2, <3>3, StageStep
  <2>5. StageFollowsRulings'
    BY <2>4 DEF StageFollowsRulings, Reviewed, Terminal
  <2> QED BY <2>1, <2>3, <2>5
<1>3. StageInv => StageFollowsRulings
  BY DEF StageInv
<1> QED BY <1>1, <1>2, <1>3, PTL DEF OnbSpec

\* Reaching the stage "tasks assigned" is what runs the rule engine: unless it
\* is set by hand, it is never reached with a template left unassigned.
THEOREM StageRunsEngine == OnbSpec => AssignedStageHasTasks
<1> DEFINE Assigned ==
      (stage' = "tasks_assigned" /\ stage' # stage /\ ~ behind') =>
        \A t \in Templates : task'[t] # "none"
<1>1. [OnbNext]_onbVars => [Assigned]_onbVars
  <2> SUFFICES ASSUME [OnbNext]_onbVars,
                      stage' = "tasks_assigned", stage' # stage, ~ behind',
                      NEW t \in Templates
               PROVE  task'[t] # "none"
    OBVIOUS
  <2>1. Recalculate(docs')
    BY StageStep
  <2>2. stage \notin Terminal /\ Stored(docs') # {} /\ AllRequiredApproved(docs')
    BY <2>1 DEF Recalculate, NewStage, Target
  <2>3. task' = IF Unassigned # {} THEN Assign(docs') ELSE Sync(task, docs)
    BY <2>1, <2>2 DEF Recalculate, TasksAfter
  <2>4. t \in Tasks
    BY DEF Tasks
  <2>5. CASE Unassigned # {}
    BY <2>3, <2>4, <2>5 DEF Assign, Sync, Unassigned
  <2>6. CASE Unassigned = {}
    BY <2>3, <2>4, <2>6 DEF Sync, Unassigned
  <2> QED BY <2>5, <2>6
<1> QED BY <1>1, PTL DEF OnbSpec, AssignedStageHasTasks

-----------------------------------------------------------------------------
(***************************************************************************)
(* The transactions: the requests of OnboardingTxn, each read, decided and *)
(* committed in steps of its own.                                          *)
(***************************************************************************)
Made(t) == task[t] # "none" \/ t \in dropped

Writing(h) == txn[h] # Kept /\ txn[h].op # "load"

\* What a transaction is about to write. It makes no task go away, and where it
\* takes the stage to "tasks assigned" it brings the tasks that are missing,
\* unless HR sets the stage by hand.
WritesEngine(h) ==
  /\ \A t \in DOMAIN txn[h].tasks : txn[h].tasks[t] # "none"
  /\ txn[h].stage = "tasks_assigned" /\ txn[h].op # "patch" =>
       \A t \in Templates : Made(t) \/ t \in DOMAIN txn[h].tasks

\* Unless it is somebody's reopening a task, it opens those only that it inserts.
WritesNoOldTask(h) ==
  txn[h].op # "update" =>
    \A t \in DOMAIN txn[h].tasks : txn[h].tasks[t] = "open" => t \in txn[h].inserts

(***************************************************************************)
(* The invariant. EngineHasRun says nothing of a stage that is decided and *)
(* not yet committed; in between, another thread may commit or HR delete   *)
(* the very tasks that the decision was taken on.                          *)
(***************************************************************************)
EngineInv ==
  /\ DOMAIN task = Tasks /\ DOMAIN txn = Handlers
  /\ EngineHasRun
  /\ \A h \in Handlers : Writing(h) => WritesEngine(h) /\ WritesNoOldTask(h)

-----------------------------------------------------------------------------
(***************************************************************************)
(* What the helpers of Onboarding change of the tasks.                     *)
(***************************************************************************)

\* A synchronisation only ever completes tasks.
LEMMA SyncCompletes ==
  ASSUME NEW T, NEW D, NEW t \in Tasks
  PROVE  Sync(T, D)[t] = T[t] \/ (T[t] = "open" /\ Sync(T, D)[t] = "completed")
BY DEF Sync

\* A recalculation keeps a task, completes it, or makes one that was missing.
LEMMA RecalculatedTasks ==
  ASSUME NEW D, NEW t \in Tasks
  PROVE  \A T \in {TasksAfter(D), Assign(D)} :
           \/ T[t] = task[t]
           \/ T[t] = "completed"
           \/ task[t] = "none" /\ T[t] = "open"
BY SyncCompletes DEF TasksAfter, Assign, Sync, Unassigned

\* Where it takes the stage to "tasks assigned" no template is left out.
LEMMA RecalculatedStage ==
  ASSUME NEW D, NewStage(D) = "tasks_assigned", stage # "tasks_assigned", NEW t \in Templates
  PROVE  TasksAfter(D)[t] # "none"
<1>1. stage \notin Terminal /\ Stored(D) # {} /\ AllRequiredApproved(D)
  BY DEF NewStage, Target
<1>2. t \in Tasks
  BY DEF Tasks
<1>3. CASE Unassigned # {}
  BY <1>1, <1>2, <1>3 DEF TasksAfter, Assign, Sync, Unassigned
<1>4. CASE Unassigned = {}
  BY <1>1, <1>2, <1>4 DEF TasksAfter, Sync, Unassigned
<1> QED BY <1>3, <1>4

-----------------------------------------------------------------------------
(***************************************************************************)
(* The steps.                                                              *)
(***************************************************************************)
LEMMA EngineInit == TxnInit => EngineInv
BY DEF TxnInit, EngineInv, EngineHasRun, Writing

\* A step of one thread, or of none, after which no task is missing that was
\* not missing before, keeps what the other threads rely on.
LEMMA OthersKeep ==
  ASSUME EngineInv, NEW h \in Handlers, NEW w, txn' = [txn EXCEPT ![h] = w],
         DOMAIN task' = Tasks, \A t \in Templates : Made(t) => Made(t)',
         EngineHasRun',
         Writing(h)' => WritesEngine(h)' /\ WritesNoOldTask(h)'
  PROVE  EngineInv'
<1>1. DOMAIN txn' = Handlers
  BY DEF EngineInv
<1>2. ASSUME NEW k \in Handlers, k # h, Writing(k)'
      PROVE  WritesEngine(k)' /\ WritesNoOldTask(k)'
  <2>1. txn'[k] = txn[k]
    BY <1>2 DEF EngineInv
  <2>2. WritesEngine(k) /\ WritesNoOldTask(k)
    BY <1>2, <2>1 DEF EngineInv, Writing
  <2> QED BY <2>1, <2>2 DEF WritesEngine, WritesNoOldTask
<1> QED BY <1>1, <1>2 DEF EngineInv

\* A thread that reads, and writes what a recalculation or an edit makes.
LEMMA ReaderKeeps ==
  ASSUME EngineInv, NEW h \in Handlers, NEW w, txn' = [txn EXCEPT ![h] = w],
         UNCHANGED <<task, stage, dropped, handSet>>,
         NEW s, NEW T, w.op \notin {"load"}, w.stage = StageWrite(s),
         w.tasks = TaskWrites(T), w.inserts = NewTasks(T),
         \A t \in Tasks : T[t] = "none" => task[t] = "none",
         w.op # "update" => \A t \in Tasks : T[t] = "open" => task[t] \in {"none", "open"},
         w.op # "patch" /\ s = "tasks_assigned" /\ s # stage =>
           \A t \in Templates : T[t] # "none"
  PROVE  EngineInv'
<1>1. w = txn'[h]
  BY DEF EngineInv
<1>2. EngineHasRun' /\ DOMAIN task' = Tasks /\ \A t \in Templates : Made(t) => Made(t)'
  BY DEF EngineInv, EngineHasRun, Made
<1>3. WritesEngine(h)'
  <2>1. ASSUME NEW t \in DOMAIN w.tasks PROVE w.tasks[t] # "none"
    BY <2>1 DEF TaskWrites
  <2>2. ASSUME w.stage = "tasks_assigned", w.op # "patch", NEW t \in Templates
        PROVE  Made(t)' \/ t \in DOMAIN w.tasks
    <3>1. s = "tasks_assigned" /\ s # stage
      BY <2>2, KeptAssumption DEF StageWrite, Stages, Rank
    <3>2. t \in Tasks /\ T[t] # "none"
      BY <2>2, <3>1 DEF Tasks
    <3>3. CASE T[t] = task[t]
      BY <3>2, <3>3 DEF Made
    <3>4. CASE T[t] # task[t]
      BY <3>2, <3>4 DEF TaskWrites
    <3> QED BY <3>3, <3>4
  <2> QED BY <1>1, <2>1, <2>2 DEF WritesEngine
<1>4. WritesNoOldTask(h)'
  BY <1>1 DEF WritesNoOldTask, TaskWrites, NewTasks
<1> QED BY <1>2, <1>3, <1>4, OthersKeep

\* A thread that commits: what it brings is there, and what it wrote the stage
\* on is there still.
LEMMA WriterKeeps ==
  ASSUME EngineInv, NEW h \in Handlers, Writing(h), txn' = [txn EXCEPT ![h] = Kept],
         WriteTasks(txn[h]), WriteStage(txn[h]), UNCHANGED dropped
  PROVE  EngineInv'
<1>1. WritesEngine(h)
  BY DEF EngineInv
<1>2. DOMAIN task' = Tasks /\ ~ Writing(h)'
  BY DEF WriteTasks, Writing, EngineInv
<1>3. ASSUME NEW t \in Templates PROVE Made(t) => Made(t)'
  BY <1>1 DEF Tasks, WriteTasks, WritesEngine, Made
<1>4. EngineHasRun'
  <2> SUFFICES ASSUME stage' = "tasks_assigned", ~ handSet', NEW t \in Templates
               PROVE  Made(t)'
    BY DEF EngineHasRun, Made
  <2>1. CASE stage = "tasks_assigned" /\ ~ handSet
    BY <1>3, <2>1 DEF EngineInv, EngineHasRun, Made
  <2>2. CASE txn[h].stage = "tasks_assigned" /\ txn[h].op # "patch"
    <3>1. Made(t) \/ t \in DOMAIN txn[h].tasks
      BY <1>1, <2>2 DEF WritesEngine
    <3>2. CASE t \in DOMAIN txn[h].tasks
      BY <1>1, <3>2 DEF WriteTasks, WritesEngine, Made, Tasks
    <3> QED BY <1>3, <3>1, <3>2
  <2> QED BY <2>1, <2>2 DEF WriteStage
<1> QED BY <1>2, <1>3, <1>4, OthersKeep

LEMMA EngineStep == EngineInv /\ [TxnNext]_txnVars => EngineInv'
<1> SUFFICES ASSUME EngineInv, [TxnNext]_txnVars PROVE EngineInv'
  OBVIOUS
<1>1. ASSUME NEW h \in Handlers, NEW d \in Documents, NEW verdict \in Ruled,
             LoadDocument(h, d, verdict)
      PROVE  EngineInv'
  <2> DEFINE w == [op |-> "load", doc |-> d, verdict |-> verdict, seen |-> docs[d].status]
  <2>1. txn' = [txn EXCEPT ![h] = w] /\ w.op = "load"
    BY <1>1 DEF LoadDocument, Begin
  <2>2. UNCHANGED <<task, stage, dropped, handSet>>
    BY <1>1 DEF LoadDocument, onbVars, recordVars, auxVars
  <2> QED BY <2>1, <2>2, OthersKeep DEF EngineInv, EngineHasRun, Made, Writing
<1>2. ASSUME NEW h \in Handlers, ReadForRuling(h) PROVE EngineInv'
  <2> DEFINE D == [d \in Documents |->
                     IF d = txn[h].doc /\ HasRow(d)
                     THEN [docs[d] EXCEPT !.status = txn[h].verdict] ELSE docs[d]]
  <2> HIDE DEF D
  <2> DEFINE w == [Writes("decide", NewStage(D), TasksAfter(D)) EXCEPT
                     !.doc = txn[h].doc,
                     !.ruling = IF txn[h].verdict # txn[h].seen THEN txn[h].verdict ELSE Kept]
  <2>1. /\ txn' = [txn EXCEPT ![h] = w]
        /\ w.op = "decide" /\ w.stage = StageWrite(NewStage(D))
        /\ w.tasks = TaskWrites(TasksAfter(D)) /\ w.inserts = NewTasks(TasksAfter(D))
    BY <1>2 DEF ReadForRuling, Writes, D
  <2>2. UNCHANGED <<task, stage, dropped, handSet>>
    BY <1>2 DEF ReadForRuling, onbVars, recordVars, auxVars
  <2>3. \A t \in Tasks : /\ TasksAfter(D)[t] = "none" => task[t] = "none"
                         /\ TasksAfter(D)[t] = "open" => task[t] \in {"none", "open"}
    BY RecalculatedTasks
  <2>4. NewStage(D) = "tasks_assigned" /\ NewStage(D) # stage =>
          \A t \in Templates : TasksAfter(D)[t] # "none"
    BY RecalculatedStage
  <2> HIDE DEF w
  <2> QED BY <2>1, <2>2, <2>3, <2>4, ReaderKeeps
<1>3. ASSUME NEW h \in Handlers, ReadForMatch(h) PROVE EngineInv'
  <2>0. PICK outcome \in {"matched", "unmatched"} :
          txn' = [txn EXCEPT ![h] =
                    [Writes("match", NewStage(docs), TasksAfter(docs)) EXCEPT
                       !.face = [outcome |-> outcome, of |-> Photo \cup IdDocument]]]
    BY <1>3 DEF ReadForMatch, Begin
  <2> DEFINE w == [Writes("match", NewStage(docs), TasksAfter(docs)) EXCEPT
                     !.face = [outcome |-> outcome, of |-> Photo \cup IdDocument]]
  <2>1. /\ txn' = [txn EXCEPT ![h] = w]
        /\ w.op = "match" /\ w.stage = StageWrite(NewStage(docs))
        /\ w.tasks = TaskWrites(TasksAfter(docs)) /\ w.inserts = NewTasks(TasksAfter(docs))
    BY <2>0 DEF Writes
  <2>2. UNCHANGED <<task, stage, dropped, handSet>>
    BY <1>3 DEF ReadForMatch, onbVars, recordVars, auxVars
  <2>3. \A t \in Tasks : /\ TasksAfter(docs)[t] = "none" => task[t] = "none"
                         /\ TasksAfter(docs)[t] = "open" => task[t] \in {"none", "open"}
    BY RecalculatedTasks
  <2>4. w.op # "patch" /\ NewStage(docs) = "tasks_assigned" /\ NewStage(docs) # stage =>
          \A t \in Templates : TasksAfter(docs)[t] # "none"
    BY RecalculatedStage
  <2>5. w.op # "update" => \A t \in Tasks :
          TasksAfter(docs)[t] = "open" => task[t] \in {"none", "open"}
    BY <2>3
  <2>6. w.op \notin {"load"} /\ \A t \in Tasks : TasksAfter(docs)[t] = "none" => task[t] = "none"
    BY <2>1, <2>3
  <2> HIDE DEF w
  <2> QED BY <2>1, <2>2, <2>4, <2>5, <2>6, ReaderKeeps
<1>4. ASSUME NEW h \in Handlers, NEW op \in {"assign", "sync", "update", "waive"}, NEW T,
             txn' = [txn EXCEPT ![h] = Writes(op, stage, T)],
             UNCHANGED <<onbVars, auxVars>>,
             \A t \in Tasks : T[t] = "none" => task[t] = "none",
             op # "update" => \A t \in Tasks : T[t] = "open" => task[t] \in {"none", "open"}
      PROVE  EngineInv'
  <2>1. UNCHANGED <<task, stage, dropped, handSet>>
    BY <1>4 DEF onbVars, recordVars, auxVars
  <2>2. /\ Writes(op, stage, T).op = op
        /\ Writes(op, stage, T).stage = StageWrite(stage)
        /\ Writes(op, stage, T).tasks = TaskWrites(T)
        /\ Writes(op, stage, T).inserts = NewTasks(T)
    BY DEF Writes
  <2> QED BY <1>4, <2>1, <2>2, ReaderKeeps
<1>5. ASSUME NEW h \in Handlers, ReadForAssignment(h) \/ ReadForListing(h) PROVE EngineInv'
  <2>1. CASE ReadForAssignment(h)
    <3>1. txn' = [txn EXCEPT ![h] = Writes("assign", stage, Assign(docs))]
      BY <2>1 DEF ReadForAssignment, Begin
    <3>2. \A t \in Tasks : /\ Assign(docs)[t] = "none" => task[t] = "none"
                           /\ Assign(docs)[t] = "open" => task[t] \in {"none", "open"}
      BY RecalculatedTasks
    <3> QED BY <1>4, <2>1, <3>1, <3>2 DEF ReadForAssignment
  <2>2. CASE ReadForListing(h)
    <3>1. txn' = [txn EXCEPT ![h] = Writes("sync", stage, Sync(task, docs))]
      BY <2>2 DEF ReadForListing, Begin
    <3>2. \A t \in Tasks : /\ Sync(task, docs)[t] = "none" => task[t] = "none"
                           /\ Sync(task, docs)[t] = "open" => task[t] \in {"none", "open"}
      BY SyncCompletes
    <3> QED BY <1>4, <2>2, <3>1, <3>2 DEF ReadForListing
  <2> QED BY <1>5, <2>1, <2>2
<1>6. ASSUME NEW h \in Handlers, NEW t \in Tasks, NEW by, NEW s \in {"open", "completed"},
             ReadForUpdate(h, t, by, s) \/ ReadForWaiver(h, t)
      PROVE  EngineInv'
  <2>1. CASE ReadForUpdate(h, t, by, s)
    <3> DEFINE T == [task EXCEPT ![t] = s]
    <3>1. \A u \in Tasks : T[u] = "none" => task[u] = "none"
      BY DEF EngineInv
    <3>2. txn' = [txn EXCEPT ![h] = Writes("update", stage, T)]
      BY <2>1 DEF ReadForUpdate, Begin
    <3> HIDE DEF T
    <3> QED BY <1>4, <2>1, <3>1, <3>2 DEF ReadForUpdate
  <2>2. CASE ReadForWaiver(h, t)
    <3> DEFINE T == [task EXCEPT ![t] = "waived"]
    <3>1. \A u \in Tasks : /\ T[u] = "none" => task[u] = "none"
                           /\ T[u] = "open" => task[u] \in {"none", "open"}
      BY DEF EngineInv
    <3>2. txn' = [txn EXCEPT ![h] = Writes("waive", stage, T)]
      BY <2>2 DEF ReadForWaiver, Begin
    <3> HIDE DEF T
    <3> QED BY <1>4, <2>2, <3>1, <3>2 DEF ReadForWaiver
  <2> QED BY <1>6, <2>1, <2>2
<1>7. ASSUME NEW h \in Handlers, ReadForCompletion(h) PROVE EngineInv'
  <2> DEFINE w == [op |-> "complete", doc |-> 0, ruling |-> Kept,
                   stage |-> StageWrite("complete"), tasks |-> <<>>, inserts |-> {},
                   face |-> Kept]
  <2>1. /\ txn' = [txn EXCEPT ![h] = w]
        /\ w.op = "complete" /\ w.stage = StageWrite("complete") /\ w.tasks = <<>>
    BY <1>7 DEF ReadForCompletion
  <2>2. task' = Sync(task, docs) /\ UNCHANGED <<stage, dropped, handSet>>
    BY <1>7 DEF ReadForCompletion, auxVars
  <2>3. DOMAIN task' = Tasks
    BY <2>2 DEF Sync
  <2>4. \A t \in Templates : Made(t) => Made(t)'
    BY <2>2, SyncCompletes DEF Made, Tasks
  <2>5. EngineHasRun'
    BY <2>2, <2>4 DEF EngineInv, EngineHasRun, Made
  <2>6. w.stage # "tasks_assigned" /\ DOMAIN w.tasks = {} /\ w = txn'[h]
    BY <2>1, KeptAssumption DEF StageWrite, Stages, Rank, EngineInv
  <2>7. WritesEngine(h)' /\ WritesNoOldTask(h)'
    BY <2>6 DEF WritesEngine, WritesNoOldTask
  <2> QED BY <2>1, <2>3, <2>4, <2>5, <2>7, OthersKeep
<1>8. ASSUME NEW h \in Handlers, CommitRuling(h) \/ CommitRecords(h) PROVE EngineInv'
  <2>1. Writing(h)
    BY <1>8 DEF CommitRuling, CommitRecords, Open, Writing
  <2>2. WriteTasks(txn[h]) /\ WriteStage(txn[h]) /\ txn' = [txn EXCEPT ![h] = Kept]
        /\ UNCHANGED dropped
    BY <1>8 DEF CommitRuling, CommitRecords, End
  <2> QED BY <2>1, <2>2, WriterKeeps
<1>9. ASSUME NEW h \in Handlers, Rollback(h) PROVE EngineInv'
  <2>1. txn' = [txn EXCEPT ![h] = Kept] /\ UNCHANGED <<task, stage, dropped, handSet>>
    BY <1>9 DEF Rollback, End, onbVars, recordVars
  <2>2. ~ Writing(h)'
    BY <2>1 DEF Writing, EngineInv
  <2> QED BY <2>1, <2>2, OthersKeep DEF EngineInv, EngineHasRun, Made
<1>10. ASSUME UNCHANGED <<txn, stage, handSet>>, DOMAIN task' = Tasks,
              \A t \in Templates : Made(t) => Made(t)'
       PROVE  EngineInv'
  <2>1. EngineHasRun'
    BY <1>10 DEF EngineInv, EngineHasRun, Made
  <2>2. ASSUME NEW h \in Handlers, Writing(h)'
        PROVE  WritesEngine(h)' /\ WritesNoOldTask(h)'
    <3>1. WritesEngine(h) /\ WritesNoOldTask(h)
      BY <1>10, <2>2 DEF EngineInv, Writing
    <3> QED BY <1>10, <3>1 DEF WritesEngine, WritesNoOldTask
  <2> QED BY <1>10, <2>1, <2>2 DEF EngineInv
<1>11. ASSUME NEW d \in Documents, RemoveDocument(d) PROVE EngineInv'
  BY <1>10, <1>11 DEF RemoveDocument, DeleteDocument, auxVars, EngineInv, Made
<1>12. ASSUME NEW t \in Tasks, RemoveTask(t) PROVE EngineInv'
  <2>1. /\ task' = [task EXCEPT ![t] = "none"] /\ dropped' = dropped \cup {t}
        /\ UNCHANGED <<txn, stage, handSet>>
    BY <1>12 DEF RemoveTask, DeleteTask, TaskStep
  <2> QED BY <1>10, <2>1 DEF EngineInv, Made, Tasks
<1>13. ASSUME NEW h \in Handlers, NEW s \in Stages, ReadForPatch(h, s) PROVE EngineInv'
  <2>1. txn' = [txn EXCEPT ![h] = Writes("patch", s, task)]
    BY <1>13 DEF ReadForPatch, Begin
  <2>2. UNCHANGED <<task, stage, dropped, handSet>>
    BY <1>13 DEF ReadForPatch, onbVars, recordVars, auxVars
  <2>3. /\ Writes("patch", s, task).op = "patch"
        /\ Writes("patch", s, task).stage = StageWrite(s)
        /\ Writes("patch", s, task).tasks = TaskWrites(task)
        /\ Writes("patch", s, task).inserts = NewTasks(task)
    BY DEF Writes
  <2> QED BY <2>1, <2>2, <2>3, ReaderKeeps
<1>14. CASE UNCHANGED txnVars
  BY <1>10, <1>14 DEF txnVars, onbVars, recordVars, auxVars, EngineInv, Made
<1> QED BY <1>1, <1>2, <1>3, <1>5, <1>6, <1>7, <1>8, <1>9, <1>11, <1>12, <1>13, <1>14
      DEF TxnNext

LEMMA EngineInvariance == TxnSpec => []EngineInv
BY EngineInit, EngineStep, PTL DEF TxnSpec

\* Whatever threads race, fail or are rolled back, and whatever HR deletes and
\* sets meanwhile: where the stage says "tasks assigned" and it is not HR's PATCH
\* that stored it, the rule engine has run.
THEOREM AssignedStageIsTrue == TxnSpec => []EngineHasRun
BY EngineInvariance, PTL DEF EngineInv

\* Two threads that assign tasks at once do not undo what the employee has done
\* with them: uq_employee_template refuses the second.
THEOREM AssignmentIsIdempotent == TxnSpec => TasksAreNotRemade
<1> DEFINE NotRemade ==
      \A t \in Tasks :
        task[t] \in {"completed", "waived"} /\ task'[t] = "open" =>
          \E h \in Handlers : Open(h, "update") /\ txn'[h] = Kept
<1>1. EngineInv /\ [TxnNext]_txnVars => [NotRemade]_txnVars
  <2> SUFFICES ASSUME EngineInv, TxnNext, NEW t \in Tasks,
                      task[t] \in {"completed", "waived"}, task'[t] = "open"
               PROVE  \E h \in Handlers : Open(h, "update") /\ txn'[h] = Kept
    OBVIOUS
  <2>1. ASSUME NEW h \in Handlers, CommitRuling(h) \/ CommitRecords(h)
        PROVE  Open(h, "update") /\ txn'[h] = Kept
    <3>1. /\ Writing(h) /\ WriteTasks(txn[h]) /\ ~ Refused(txn[h])
          /\ txn' = [txn EXCEPT ![h] = Kept]
      BY <2>1 DEF CommitRuling, CommitRecords, Open, Writing, End
    <3>2. t \in DOMAIN txn[h].tasks /\ txn[h].tasks[t] = "open"
      BY <3>1 DEF WriteTasks
    <3>3. t \notin txn[h].inserts
      BY <3>1 DEF Refused
    <3>4. WritesNoOldTask(h)
      BY <3>1 DEF EngineInv
    <3>5. txn[h].op = "update"
      BY <3>2, <3>3, <3>4 DEF WritesNoOldTask
    <3> QED BY <3>1, <3>5 DEF Open, Writing, EngineInv
  <2>2. ASSUME NEW h \in Handlers, ReadForCompletion(h) PROVE FALSE
    BY <2>2, SyncCompletes DEF ReadForCompletion
  <2>3. ASSUME NEW u \in Tasks, RemoveTask(u) PROVE FALSE
    BY <2>3 DEF RemoveTask, DeleteTask, TaskStep, EngineInv
  <2>4. task' # task
    OBVIOUS
  <2> QED BY <2>1, <2>2, <2>3, <2>4 DEF TxnNext, LoadDocument, ReadForRuling, ReadForMatch,
        ReadForAssignment, ReadForListing, ReadForUpdate, ReadForWaiver, ReadForPatch,
        Rollback, RemoveDocument, DeleteDocument, onbVars, recordVars
<1> QED BY <1>1, EngineInvariance, PTL DEF TxnSpec, TasksAreNotRemade

-----------------------------------------------------------------------------
(***************************************************************************)
(* What the threads hold is typed.                                         *)
(***************************************************************************)

\* The documents as they will be when the ruling t is committed.
RuledDocs(t) ==
  [d \in Documents |->
     IF d = t.doc /\ t.ruling # Kept THEN [docs[d] EXCEPT !.status = t.ruling] ELSE docs[d]]

ThreadTyped(t) ==
  /\ t.op = "load" => t.doc \in Documents /\ t.verdict \in Ruled
  /\ t.op = "decide" => t.doc \in Documents /\ t.ruling \in Ruled \cup {Kept}

TxnTyped ==
  /\ docs \in [Documents -> DocRows \cup {NoDoc}]
  /\ DOMAIN txn = Handlers
  /\ \A h \in Handlers : txn[h] # Kept => ThreadTyped(txn[h])

LEMMA KeptIsNoStage == Kept \notin Stages /\ Kept \notin DocStatuses /\ Kept \notin Ruled
BY KeptAssumption DEF Stages, Rank, DocStatuses, Ruled

LEMMA InitTyped == TxnInit => TxnTyped
<1> SUFFICES ASSUME TxnInit PROVE TxnTyped
  OBVIOUS
<1>1. PICK type \in [Documents -> DocTypes] :
        docs = [d \in Documents |-> [type |-> type[d], status |-> "extracted"]]
  BY DEF TxnInit
<1>2. docs \in [Documents -> DocRows]
  BY <1>1 DEF DocRows, DocStatuses
<1> QED BY <1>2 DEF TxnInit, TxnTyped

\* A step of one thread.
LEMMA ThreadStaysTyped ==
  ASSUME TxnTyped, NEW h \in Handlers, NEW w, txn' = [txn EXCEPT ![h] = w],
         docs' \in [Documents -> DocRows \cup {NoDoc}],
         w # Kept => ThreadTyped(w)
  PROVE  TxnTyped'
<1>1. DOMAIN txn' = Handlers /\ \A k \in Handlers : txn'[k] = IF k = h THEN w ELSE txn[k]
  BY DEF TxnTyped
<1> QED BY <1>1 DEF TxnTyped, ThreadTyped

\* The commit of a ruling leaves the documents as it said.
LEMMA RulingIsCommitted ==
  ASSUME TxnTyped, NEW h \in Handlers, CommitRuling(h)
  PROVE  /\ txn[h] # Kept /\ txn[h].op = "decide" /\ ThreadTyped(txn[h])
         /\ HasRow(txn[h].doc)
         /\ docs' = RuledDocs(txn[h])
         /\ docs' \in [Documents -> DocRows \cup {NoDoc}]
         /\ \A d \in Documents : /\ HasRow(d)' <=> HasRow(d)
                                 /\ HasRow(d) => docs'[d].type = docs[d].type
<1> DEFINE t == txn[h]
<1>1. /\ t # Kept /\ t.op = "decide" /\ ~ Refused(t)
      /\ docs' = [docs EXCEPT ![t.doc].status = IF t.ruling = Kept THEN @ ELSE t.ruling]
  BY DEF CommitRuling, Open
<1>2. ThreadTyped(t) /\ t.doc \in Documents /\ t.ruling \in Ruled \cup {Kept}
  BY <1>1 DEF TxnTyped, ThreadTyped
<1>3. HasRow(t.doc) /\ docs[t.doc] \in DocRows
  BY <1>1, <1>2 DEF Refused, Documents, HasRow, TxnTyped
<1>4. docs' = RuledDocs(t)
  <2>1. docs[t.doc] = [docs[t.doc] EXCEPT !.status = docs[t.doc].status]
    BY <1>3 DEF DocRows
  <2>2. DOMAIN docs = Documents
    BY DEF TxnTyped
  <2> QED BY <1>1, <1>2, <2>1, <2>2 DEF RuledDocs
<1>5. t.ruling # Kept => /\ [docs[t.doc] EXCEPT !.status = t.ruling] \in DocRows
                         /\ [docs[t.doc] EXCEPT !.status = t.ruling].type = docs[t.doc].type
  BY <1>2, <1>3 DEF DocRows, DocStatuses, Ruled
<1>6. \A d \in Documents : docs[d] \in DocRows \cup {NoDoc}
  BY DEF TxnTyped
<1>7. docs' \in [Documents -> DocRows \cup {NoDoc}]
  BY <1>4, <1>5, <1>6 DEF RuledDocs
<1>8. \A d \in Documents : /\ HasRow(d)' <=> HasRow(d)
                           /\ HasRow(d) => docs'[d].type = docs[d].type
  BY <1>3, <1>4, <1>5, NoDocAssumption DEF RuledDocs, HasRow
<1> HIDE DEF t
<1> QED BY <1>1, <1>2, <1>3, <1>4, <1>7, <1>8 DEF t

LEMMA TypedStep == TxnTyped /\ [TxnNext]_txnVars => TxnTyped'
<1> SUFFICES ASSUME TxnTyped, [TxnNext]_txnVars PROVE TxnTyped'
  OBVIOUS
<1>1. ASSUME NEW h \in Handlers, NEW d \in Documents, NEW verdict \in Ruled,
             LoadDocument(h, d, verdict)
      PROVE  TxnTyped'
  <2> DEFINE w == [op |-> "load", doc |-> d, verdict |-> verdict, seen |-> docs[d].status]
  <2>1. txn' = [txn EXCEPT ![h] = w] /\ docs' = docs
    BY <1>1 DEF LoadDocument, Begin, onbVars, docVars
  <2>2. ThreadTyped(w)
    BY DEF ThreadTyped
  <2> HIDE DEF w
  <2> QED BY <2>1, <2>2, ThreadStaysTyped DEF TxnTyped
<1>2. ASSUME NEW h \in Handlers, ReadForRuling(h) PROVE TxnTyped'
  <2> DEFINE t == txn[h]
             D == [d \in Documents |->
                     IF d = t.doc /\ HasRow(d)
                     THEN [docs[d] EXCEPT !.status = t.verdict] ELSE docs[d]]
             w == [Writes("decide", NewStage(D), TasksAfter(D)) EXCEPT
                     !.doc = t.doc,
                     !.ruling = IF t.verdict # t.seen THEN t.verdict ELSE Kept]
  <2>1. txn' = [txn EXCEPT ![h] = w] /\ t # Kept /\ t.op = "load" /\ docs' = docs
    BY <1>2 DEF ReadForRuling, Open, onbVars, docVars
  <2>2. /\ w.op = "decide" /\ w.doc = t.doc
        /\ w.ruling = IF t.verdict # t.seen THEN t.verdict ELSE Kept
    BY DEF Writes
  <2>3. t.doc \in Documents /\ t.verdict \in Ruled
    BY <2>1 DEF TxnTyped, ThreadTyped
  <2> HIDE DEF w
  <2>4. ThreadTyped(w)
    BY <2>2, <2>3 DEF ThreadTyped
  <2> HIDE DEF t
  <2> QED BY <2>1, <2>4, ThreadStaysTyped DEF TxnTyped
<1>3. ASSUME NEW h \in Handlers, NEW w, txn' = [txn EXCEPT ![h] = w], docs' = docs,
             w # Kept => w.op \notin {"load", "decide"}
      PROVE  TxnTyped'
  <2>1. w # Kept => ThreadTyped(w)
    BY <1>3 DEF ThreadTyped
  <2> QED BY <1>3, <2>1, ThreadStaysTyped DEF TxnTyped
<1>4. ASSUME NEW h \in Handlers, ReadForMatch(h) PROVE TxnTyped'
  <2>1. PICK outcome \in {"matched", "unmatched"} :
          txn' = [txn EXCEPT ![h] =
                    [Writes("match", NewStage(docs), TasksAfter(docs)) EXCEPT
                       !.face = [outcome |-> outcome, of |-> Photo \cup IdDocument]]]
    BY <1>4 DEF ReadForMatch, Begin
  <2> DEFINE w == [Writes("match", NewStage(docs), TasksAfter(docs)) EXCEPT
                     !.face = [outcome |-> outcome, of |-> Photo \cup IdDocument]]
  <2>2. w.op = "match"
    BY DEF Writes
  <2>3. docs' = docs
    BY <1>4 DEF ReadForMatch, onbVars, docVars
  <2> HIDE DEF w
  <2> QED BY <1>3, <2>1, <2>2, <2>3 DEF w
<1>5. ASSUME NEW h \in Handlers, NEW op \in {"assign", "sync", "update", "waive", "patch"},
             NEW s, NEW T, txn' = [txn EXCEPT ![h] = Writes(op, s, T)], docs' = docs
      PROVE  TxnTyped'
  <2>1. Writes(op, s, T).op = op
    BY DEF Writes
  <2> QED BY <1>3, <1>5, <2>1
<1>6. ASSUME NEW h \in Handlers,
             \/ ReadForAssignment(h) \/ ReadForListing(h)
             \/ \E t \in Tasks, by \in {"employee", "hr"}, s \in {"open", "completed"} :
                  ReadForUpdate(h, t, by, s)
             \/ \E t \in Tasks : ReadForWaiver(h, t)
             \/ \E s \in Stages : ReadForPatch(h, s)
      PROVE  TxnTyped'
  <2>1. /\ docs' = docs
        /\ \E op \in {"assign", "sync", "update", "waive", "patch"} : \E s, T :
             txn' = [txn EXCEPT ![h] = Writes(op, s, T)]
    BY <1>6 DEF ReadForAssignment, ReadForListing, ReadForUpdate, ReadForWaiver, ReadForPatch,
                Begin, onbVars, docVars
  <2> QED BY <1>5, <2>1
<1>7. ASSUME NEW h \in Handlers, ReadForCompletion(h) PROVE TxnTyped'
  <2> DEFINE w == [op |-> "complete", doc |-> 0, ruling |-> Kept,
                   stage |-> StageWrite("complete"), tasks |-> <<>>, inserts |-> {},
                   face |-> Kept]
  <2>1. txn' = [txn EXCEPT ![h] = w] /\ docs' = docs /\ w.op = "complete"
    BY <1>7 DEF ReadForCompletion, docVars
  <2> HIDE DEF w
  <2> QED BY <1>3, <2>1
<1>8. ASSUME NEW h \in Handlers, CommitRuling(h) PROVE TxnTyped'
  <2>1. txn' = [txn EXCEPT ![h] = Kept]
    BY <1>8 DEF CommitRuling, End
  <2> QED BY <1>8, <2>1, RulingIsCommitted, ThreadStaysTyped
<1>9. ASSUME NEW h \in Handlers, CommitRecords(h) \/ Rollback(h) PROVE TxnTyped'
  <2>1. txn' = [txn EXCEPT ![h] = Kept] /\ docs' = docs
    BY <1>9 DEF CommitRecords, Rollback, End, onbVars, docVars
  <2> QED BY <1>3, <2>1
<1>10. ASSUME NEW d \in Documents, RemoveDocument(d) PROVE TxnTyped'
  <2>1. docs' = [docs EXCEPT ![d] = NoDoc] /\ txn' = txn
    BY <1>10 DEF RemoveDocument, DeleteDocument, DeleteRow
  <2> QED BY <2>1 DEF TxnTyped, ThreadTyped
<1>11. ASSUME UNCHANGED <<docs, txn>> PROVE TxnTyped'
  BY <1>11 DEF TxnTyped, ThreadTyped
<1>12. ASSUME NEW t \in Tasks, RemoveTask(t) PROVE TxnTyped'
  BY <1>11, <1>12 DEF RemoveTask, DeleteTask, TaskStep, docVars
<1>13. CASE UNCHANGED txnVars
  BY <1>11, <1>13 DEF txnVars, onbVars, docVars
<1> QED BY <1>1, <1>2, <1>4, <1>6, <1>7, <1>8, <1>9, <1>10, <1>12, <1>13 DEF TxnNext

LEMMA TypedInvariance == TxnSpec => []TxnTyped
BY InitTyped, TypedStep, PTL DEF TxnSpec

-----------------------------------------------------------------------------
(***************************************************************************)
(* Approvals reach the stage.                                              *)
(***************************************************************************)
Assigned == {"tasks_assigned", "complete"}

\* All the required documents are there, ruled on or not.
AllThere == Required \subseteq {docs[d].type : d \in Documents}

\* Where they are, a thread keeps the stage it found or writes a last one: a
\* stale decision never takes the stage below "tasks assigned".
WritesLateStage(t) == AllThere => t.stage \in Assigned \cup {Kept}

\* A ruling that nobody overlapped has seen what its commit will leave.
SeesApprovals(t) ==
  AllRequiredApproved(RuledDocs(t)) => stage \in Assigned \/ t.stage \in Assigned

Noticed == AllRequiredApproved(docs) => stage \in Assigned

NoticeInv ==
  ~ behind =>
    /\ \A d \in Documents : HasRow(d)
    /\ AllThere => stage \in Assigned \cup {"under_review"}
    /\ \A h \in Handlers : Writing(h) /\ txn[h].op # "patch" => WritesLateStage(txn[h])
    /\ ~ raced =>
         /\ Noticed
         /\ \A h \in Handlers \ overtaken : Open(h, "decide") => SeesApprovals(txn[h])

-----------------------------------------------------------------------------
(***************************************************************************)
(* Lemmas about the stage.                                                 *)
(***************************************************************************)

\* Documents all of whose required types are approved are there.
LEMMA ApprovedAreThere ==
  ASSUME NEW D, AllRequiredApproved(D), \A d \in Stored(D) : D[d].type = docs[d].type
  PROVE  AllThere
BY DEF AllRequiredApproved, Approved, TypesIn, AllThere, Stored

\* A recalculation of a stage that is under review or later takes it to a last
\* one, and does so where the required documents are approved.
LEMMA LateStage ==
  ASSUME stage \in Assigned \cup {"under_review"}, NEW D
  PROVE  /\ NewStage(D) \in Assigned \/ NewStage(D) = stage
         /\ AllRequiredApproved(D) /\ Stored(D) # {} => NewStage(D) \in Assigned
<1>1. Target(D) \in {"tasks_assigned", "under_review", "documents_submitted"}
  BY DEF Target
<1>2. AllRequiredApproved(D) => Target(D) = "tasks_assigned"
  BY DEF Target
<1>3. CASE stage = "complete"
  BY <1>3 DEF NewStage, Terminal, Assigned
<1>4. CASE stage \in {"tasks_assigned", "under_review"}
  <2>1. stage \notin Terminal /\ stage \notin {"invited", "registered"}
    BY <1>4 DEF Terminal
  <2>2. NewStage(D) = IF Stored(D) = {} THEN stage
                      ELSE IF Rank[Target(D)] > Rank[stage] THEN Target(D) ELSE stage
    BY <2>1 DEF NewStage
  <2> QED BY <1>1, <1>2, <1>4, <2>2 DEF Rank, Assigned
<1> QED BY <1>3, <1>4 DEF Assigned

\* What such a recalculation writes.
LEMMA LateWrite ==
  ASSUME stage \in Assigned \cup {"under_review"}, NEW D
  PROVE  /\ StageWrite(NewStage(D)) \in Assigned \cup {Kept}
         /\ AllRequiredApproved(D) /\ Stored(D) # {} =>
              stage \in Assigned \/ StageWrite(NewStage(D)) \in Assigned
BY LateStage DEF StageWrite

-----------------------------------------------------------------------------
(***************************************************************************)
(* The steps of NoticeInv.                                                 *)
(***************************************************************************)
LEMMA NoticeInit == TxnInit => NoticeInv
<1> SUFFICES ASSUME TxnInit PROVE NoticeInv
  OBVIOUS
<1>1. PICK type \in [Documents -> DocTypes] :
        docs = [d \in Documents |-> [type |-> type[d], status |-> "extracted"]]
  BY DEF TxnInit
<1>2. /\ docs \in [Documents -> DocRows]
      /\ \A d \in Documents : docs[d].status = "extracted"
  BY <1>1 DEF DocRows, DocStatuses
<1>3. \A d \in Documents : HasRow(d)
  BY <1>2, NoDocAssumption DEF HasRow
<1>4. Approved(docs) = {}
  BY <1>2 DEF Approved, TypesIn, Stored
<1>5. ~ AllRequiredApproved(docs)
  BY <1>4, OnboardingConstants DEF AllRequiredApproved
<1>6. AllThere => stage = "under_review"
  BY DEF TxnInit, AllThere
<1>7. txn = [h \in Handlers |-> Kept]
  BY DEF TxnInit
<1> QED BY <1>3, <1>5, <1>6, <1>7 DEF NoticeInv, Noticed, Writing, Open

\* A thread that takes one more step of its transaction, or ends it, while the
\* documents and the stage stay as they are.
LEMMA ThreadStepNotices ==
  ASSUME TxnTyped, NoticeInv, NEW h \in Handlers, NEW w, txn' = [txn EXCEPT ![h] = w],
         UNCHANGED <<docs, stage, behind, raced>>,
         overtaken \subseteq overtaken' \cup {h},
         w # Kept /\ w.op \notin {"load", "patch"} /\ ~ behind => WritesLateStage(w),
         w # Kept /\ w.op = "decide" /\ ~ behind /\ ~ raced => SeesApprovals(w)
  PROVE  NoticeInv'
<1>1. \A k \in Handlers : txn'[k] = IF k = h THEN w ELSE txn[k]
  BY DEF TxnTyped
<1>2. /\ \A d \in Documents : HasRow(d)' = HasRow(d)
      /\ AllThere' = AllThere /\ Noticed' = Noticed
      /\ \A t : WritesLateStage(t) => (AllThere' => t.stage \in Assigned \cup {Kept})
  BY DEF HasRow, AllThere, Noticed, WritesLateStage
<1>3. ASSUME ~ behind, NEW k \in Handlers, Writing(k)', txn'[k].op # "patch"
      PROVE  WritesLateStage(txn[k])'
  <2>1. WritesLateStage(txn'[k])
    BY <1>1, <1>3 DEF NoticeInv, Writing
  <2> QED BY <1>2, <2>1 DEF WritesLateStage
<1>4. ASSUME ~ behind, ~ raced, NEW k \in Handlers, k \notin overtaken', Open(k, "decide")'
      PROVE  SeesApprovals(txn[k])'
  <2>1. SeesApprovals(txn'[k])
    BY <1>1, <1>4 DEF NoticeInv, Open
  <2>2. RuledDocs(txn[k])' = RuledDocs(txn'[k])
    BY DEF RuledDocs
  <2> QED BY <2>1, <2>2 DEF SeesApprovals
<1> QED BY <1>2, <1>3, <1>4 DEF NoticeInv

\* What a commit makes of the stage, unless it is HR's setting it.
LEMMA CommitKeepsStage ==
  ASSUME NoticeInv, ~ behind, NEW h \in Handlers, Writing(h), txn[h].op # "patch",
         WriteStage(txn[h]), AllThere
  PROVE  /\ stage' \in Assigned \cup {"under_review"}
         /\ stage \in Assigned => stage' \in Assigned
         /\ txn[h].stage \in Assigned => stage' \in Assigned
<1>1. WritesLateStage(txn[h])
  BY DEF NoticeInv
<1> QED BY <1>1, KeptAssumption DEF WritesLateStage, WriteStage, NoticeInv, Assigned, Stages, Rank

\* A commit that does not touch the documents.
LEMMA RecordsNotice ==
  ASSUME TxnTyped, NoticeInv, NEW h \in Handlers, CommitRecords(h)
  PROVE  NoticeInv'
<1> SUFFICES ASSUME ~ behind' PROVE NoticeInv'
  BY DEF NoticeInv
<1>1. /\ Writing(h) /\ txn[h].op \notin {"load", "decide", "patch"} /\ ~ behind
      /\ WriteStage(txn[h]) /\ txn' = [txn EXCEPT ![h] = Kept]
      /\ UNCHANGED <<docs, overtaken, raced>>
  BY DEF CommitRecords, End, docVars, Writing
<1>2. \A k \in Handlers : txn'[k] = IF k = h THEN Kept ELSE txn[k]
  BY <1>1 DEF TxnTyped
<1>3. /\ \A d \in Documents : HasRow(d)' = HasRow(d)
      /\ AllThere' = AllThere
  BY <1>1 DEF HasRow, AllThere
<1>4. AllThere => /\ stage' \in Assigned \cup {"under_review"}
                  /\ stage \in Assigned => stage' \in Assigned
  BY <1>1, CommitKeepsStage
<1>5. ASSUME NEW k \in Handlers, Writing(k)', txn'[k].op # "patch"
      PROVE  WritesLateStage(txn[k])'
  <2>1. txn'[k] = txn[k] /\ WritesLateStage(txn[k])
    BY <1>1, <1>2, <1>5 DEF NoticeInv, Writing
  <2> QED BY <1>3, <2>1 DEF WritesLateStage
<1>6. ASSUME AllRequiredApproved(docs) PROVE AllThere
  BY <1>6, ApprovedAreThere
<1>7. ~ raced' => Noticed'
  BY <1>1, <1>4, <1>6 DEF NoticeInv, Noticed
<1>8. ASSUME ~ raced', NEW k \in Handlers, k \notin overtaken', Open(k, "decide")'
      PROVE  SeesApprovals(txn[k])'
  <2>1. txn'[k] = txn[k] /\ SeesApprovals(txn[k]) /\ ThreadTyped(txn[k])
    BY <1>1, <1>2, <1>8 DEF NoticeInv, Open, TxnTyped
  <2>2. RuledDocs(txn[k])' = RuledDocs(txn[k])
    BY <1>1, <2>1 DEF RuledDocs
  <2>3. ASSUME AllRequiredApproved(RuledDocs(txn[k])) PROVE AllThere
    <3>1. \A d \in Stored(RuledDocs(txn[k])) : RuledDocs(txn[k])[d].type = docs[d].type
      <4>1. \A d \in Documents : docs[d] \in DocRows
        BY <1>1 DEF NoticeInv, TxnTyped, HasRow
      <4> QED BY <4>1 DEF Stored, RuledDocs, DocRows
    <3> QED BY <2>3, <3>1, ApprovedAreThere
  <2> QED BY <1>4, <2>1, <2>2, <2>3 DEF SeesApprovals
<1> QED BY <1>1, <1>3, <1>4, <1>5, <1>7, <1>8 DEF NoticeInv

\* A ruling that is committed. One that another ruling had overtaken races; of
\* the others, one on the same document is as good as before.
LEMMA RulingNotices ==
  ASSUME TxnTyped, NoticeInv, NEW h \in Handlers, CommitRuling(h)
  PROVE  NoticeInv'
<1> SUFFICES ASSUME ~ behind' PROVE NoticeInv'
  BY DEF NoticeInv
<1> DEFINE t == txn[h]
<1>1. /\ t # Kept /\ t.op = "decide" /\ ThreadTyped(t) /\ HasRow(t.doc)
      /\ docs' = RuledDocs(t)
      /\ \A d \in Documents : /\ HasRow(d)' <=> HasRow(d)
                              /\ HasRow(d) => docs'[d].type = docs[d].type
  BY RulingIsCommitted
<1>2. /\ ~ behind /\ Writing(h) /\ WriteStage(t)
      /\ txn' = [txn EXCEPT ![h] = Kept]
      /\ overtaken' = (overtaken \ {h}) \cup Overtaken(h)
      /\ raced' = (raced \/ (h \in overtaken /\ t.ruling # Kept))
  BY <1>1 DEF CommitRuling, End, Writing
<1>3. \A k \in Handlers : txn'[k] = IF k = h THEN Kept ELSE txn[k]
  BY <1>2 DEF TxnTyped
<1>4. (\A d \in Documents : HasRow(d)') /\ AllThere' = AllThere
  BY <1>1, <1>2 DEF NoticeInv, AllThere
<1>5. AllThere => /\ stage' \in Assigned \cup {"under_review"}
                  /\ stage \in Assigned => stage' \in Assigned
                  /\ t.stage \in Assigned => stage' \in Assigned
  BY <1>1, <1>2, CommitKeepsStage
<1>6. ASSUME NEW k \in Handlers, Writing(k)', txn'[k].op # "patch"
      PROVE  WritesLateStage(txn[k])'
  <2>1. txn'[k] = txn[k] /\ WritesLateStage(txn[k])
    BY <1>2, <1>3, <1>6 DEF NoticeInv, Writing
  <2> QED BY <1>4, <2>1 DEF WritesLateStage
<1>7. ASSUME AllRequiredApproved(docs') PROVE AllThere
  BY <1>1, <1>4, <1>7, ApprovedAreThere DEF NoticeInv, Stored, HasRow
<1>8. Noticed' <=> (AllRequiredApproved(docs') => stage' \in Assigned)
  BY DEF Noticed, AllRequiredApproved, Approved, TypesIn, Stored
<1>9. ASSUME ~ raced' PROVE Noticed'
  <2> SUFFICES ASSUME AllRequiredApproved(docs') PROVE stage' \in Assigned
    BY <1>8
  <2>1. CASE t.ruling = Kept
    <3>1. docs' = docs
      BY <1>1, <2>1 DEF RuledDocs, TxnTyped
    <3> QED BY <1>2, <1>5, <1>7, <1>9, <3>1 DEF NoticeInv, Noticed
  <2>2. CASE t.ruling # Kept
    <3>1. SeesApprovals(t)
      BY <1>1, <1>2, <1>9, <2>2 DEF NoticeInv, Open
    <3> QED BY <1>1, <1>5, <1>7, <3>1 DEF SeesApprovals
  <2> QED BY <2>1, <2>2
<1>10. ASSUME ~ raced', NEW k \in Handlers, k \notin overtaken', Open(k, "decide")'
      PROVE  SeesApprovals(txn[k])'
  <2>1. /\ txn'[k] = txn[k] /\ k # h /\ Open(k, "decide") /\ k \notin overtaken
        /\ k \notin Overtaken(h) /\ ThreadTyped(txn[k]) /\ SeesApprovals(txn[k])
    BY <1>2, <1>3, <1>10 DEF NoticeInv, Open, TxnTyped
  <2> DEFINE u == txn[k]
             E == [d \in Documents |-> IF d = u.doc /\ u.ruling # Kept
                                       THEN [docs'[d] EXCEPT !.status = u.ruling]
                                       ELSE docs'[d]]
  <2>2. RuledDocs(txn[k])' = E
    BY <2>1 DEF RuledDocs
  <2> SUFFICES ASSUME AllRequiredApproved(E) PROVE stage' \in Assigned \/ u.stage \in Assigned
    BY <2>1, <2>2 DEF SeesApprovals
  <2>3. CASE E = docs'
    <3>1. AllRequiredApproved(docs')
      <4> HIDE DEF E
      <4> QED BY <2>3
    <3> QED BY <1>9, <1>10, <1>8, <3>1
  <2>4. CASE u.ruling = Kept
    <3>1. E = docs'
      BY <1>1, <2>4 DEF RuledDocs
    <3> QED BY <2>3, <3>1
  <2>5. CASE u.ruling # Kept /\ (t.ruling = Kept \/ u.doc = t.doc)
    <3>1. \A d \in Documents : docs[d] \in DocRows
      BY <1>2 DEF NoticeInv, TxnTyped, HasRow
    <3>2. E = RuledDocs(u)
      BY <1>1, <2>5, <3>1 DEF RuledDocs, DocRows
    <3>3. \A d \in Stored(E) : E[d].type = docs[d].type
      <4>1. \A d \in Documents : RuledDocs(u)[d].type = docs[d].type
        BY <3>1 DEF RuledDocs, DocRows
      <4> QED BY <3>2, <4>1 DEF Stored
    <3>4. AllThere
      <4> HIDE DEF E
      <4> QED BY <3>3, ApprovedAreThere
    <3> QED BY <1>5, <2>1, <3>2, <3>4 DEF SeesApprovals
  <2>6. u.ruling # Kept => t.ruling = Kept \/ u.doc = t.doc
    BY <2>1 DEF Overtaken
  <2> QED BY <2>4, <2>5, <2>6
<1> HIDE DEF t
<1> QED BY <1>2, <1>4, <1>5, <1>6, <1>9, <1>10 DEF NoticeInv

LEMMA NoticeStep == TxnTyped /\ NoticeInv /\ [TxnNext]_txnVars => NoticeInv'
<1> SUFFICES ASSUME TxnTyped, NoticeInv, [TxnNext]_txnVars PROVE NoticeInv'
  OBVIOUS
<1>1. ASSUME NEW h \in Handlers, NEW w, txn' = [txn EXCEPT ![h] = w],
             UNCHANGED <<docs, stage, behind, raced, overtaken>>,
             w = Kept \/ (w.op # "decide" /\ w.stage \in Assigned \cup {Kept})
      PROVE  NoticeInv'
  BY <1>1, ThreadStepNotices DEF WritesLateStage
<1>2. ASSUME NEW h \in Handlers, NEW d \in Documents, NEW verdict \in Ruled,
             LoadDocument(h, d, verdict)
      PROVE  NoticeInv'
  <2> DEFINE w == [op |-> "load", doc |-> d, verdict |-> verdict, seen |-> docs[d].status]
  <2>1. txn' = [txn EXCEPT ![h] = w] /\ w.op = "load"
        /\ UNCHANGED <<docs, stage, behind, raced, overtaken>>
    BY <1>2 DEF LoadDocument, Begin, onbVars, recordVars, docVars, auxVars
  <2> HIDE DEF w
  <2> QED BY <2>1, ThreadStepNotices
<1>3. ASSUME NEW h \in Handlers, ReadForRuling(h) PROVE NoticeInv'
  <2> DEFINE t == txn[h]
             D == [d \in Documents |->
                     IF d = t.doc /\ HasRow(d)
                     THEN [docs[d] EXCEPT !.status = t.verdict] ELSE docs[d]]
             w == [Writes("decide", NewStage(D), TasksAfter(D)) EXCEPT
                     !.doc = t.doc,
                     !.ruling = IF t.verdict # t.seen THEN t.verdict ELSE Kept]
  <2>1. /\ txn' = [txn EXCEPT ![h] = w] /\ t # Kept /\ t.op = "load"
        /\ UNCHANGED <<docs, stage, behind, raced, overtaken>>
    BY <1>3 DEF ReadForRuling, Open, onbVars, recordVars, docVars, auxVars
  <2>2. /\ w.op = "decide" /\ w.doc = t.doc /\ w.stage = StageWrite(NewStage(D))
        /\ w.ruling = IF t.verdict # t.seen THEN t.verdict ELSE Kept
    BY DEF Writes
  <2> HIDE DEF w
  <2>3. t.doc \in Documents /\ t.verdict \in Ruled
    BY <2>1 DEF TxnTyped, ThreadTyped
  <2>4. ASSUME ~ behind PROVE WritesLateStage(w)
    <3> HIDE DEF D
    <3> QED BY <2>2, <2>4, LateWrite DEF NoticeInv, WritesLateStage
  <2>5. ASSUME ~ behind, ~ raced PROVE SeesApprovals(w)
    <3>1. \A d \in Documents : docs[d] \in DocRows /\ HasRow(d)
      BY <2>5 DEF NoticeInv, TxnTyped, HasRow
    <3>2. CASE w.ruling = Kept
      <4>1. RuledDocs(w) = docs
        BY <3>2 DEF RuledDocs, TxnTyped
      <4> QED BY <2>5, <4>1 DEF SeesApprovals, NoticeInv, Noticed
    <3>3. CASE w.ruling # Kept
      <4>1. RuledDocs(w) = D
        BY <2>2, <3>1, <3>3 DEF RuledDocs
      <4>2. \A d \in Documents : D[d] \in DocRows /\ D[d].type = docs[d].type
        BY <2>3, <3>1 DEF DocRows, DocStatuses, Ruled
      <4> HIDE DEF D
      <4>3. ASSUME AllRequiredApproved(D) PROVE AllThere
        BY <4>2, <4>3, ApprovedAreThere DEF Stored
      <4>4. Stored(D) # {}
        BY <2>3, <4>2, NoDocAssumption DEF Stored
      <4> QED BY <2>2, <2>5, <4>1, <4>3, <4>4, LateWrite DEF NoticeInv, SeesApprovals
    <3> QED BY <3>2, <3>3
  <2> HIDE DEF t
  <2> QED BY <2>1, <2>2, <2>4, <2>5, ThreadStepNotices
<1>4. ASSUME NEW h \in Handlers, ReadForMatch(h) PROVE NoticeInv'
  <2>1. PICK outcome \in {"matched", "unmatched"} :
          txn' = [txn EXCEPT ![h] =
                    [Writes("match", NewStage(docs), TasksAfter(docs)) EXCEPT
                       !.face = [outcome |-> outcome, of |-> Photo \cup IdDocument]]]
    BY <1>4 DEF ReadForMatch, Begin
  <2> DEFINE w == [Writes("match", NewStage(docs), TasksAfter(docs)) EXCEPT
                     !.face = [outcome |-> outcome, of |-> Photo \cup IdDocument]]
  <2>2. w.op = "match" /\ w.stage = StageWrite(NewStage(docs))
    BY DEF Writes
  <2>3. UNCHANGED <<docs, stage, behind, raced, overtaken>>
    BY <1>4 DEF ReadForMatch, onbVars, recordVars, docVars, auxVars
  <2> HIDE DEF w
  <2>4. ~ behind => WritesLateStage(w)
    BY <2>2, LateWrite DEF NoticeInv, WritesLateStage
  <2> QED BY <2>1, <2>2, <2>3, <2>4, ThreadStepNotices DEF w
<1>5. ASSUME NEW h \in Handlers, NEW op \in {"assign", "sync", "update", "waive"}, NEW T,
             txn' = [txn EXCEPT ![h] = Writes(op, stage, T)],
             UNCHANGED <<onbVars, auxVars>>
      PROVE  NoticeInv'
  <2>1. UNCHANGED <<docs, stage, behind, raced, overtaken>>
    BY <1>5 DEF onbVars, recordVars, docVars, auxVars
  <2>2. Writes(op, stage, T).op = op /\ Writes(op, stage, T).stage = Kept
    BY DEF Writes, StageWrite
  <2> QED BY <1>1, <1>5, <2>1, <2>2
<1>6. ASSUME NEW h \in Handlers,
             \/ ReadForAssignment(h) \/ ReadForListing(h)
             \/ \E t \in Tasks, by \in {"employee", "hr"}, s \in {"open", "completed"} :
                  ReadForUpdate(h, t, by, s)
             \/ \E t \in Tasks : ReadForWaiver(h, t)
      PROVE  NoticeInv'
  <2>1. /\ UNCHANGED <<onbVars, auxVars>>
        /\ \E op \in {"assign", "sync", "update", "waive"} : \E T :
             txn' = [txn EXCEPT ![h] = Writes(op, stage, T)]
    BY <1>6 DEF ReadForAssignment, ReadForListing, ReadForUpdate, ReadForWaiver, Begin
  <2> QED BY <1>5, <2>1
<1>7. ASSUME NEW h \in Handlers, NEW s \in Stages, ReadForPatch(h, s) PROVE NoticeInv'
  <2>1. txn' = [txn EXCEPT ![h] = Writes("patch", s, task)]
        /\ UNCHANGED <<docs, stage, behind, raced, overtaken>>
    BY <1>7 DEF ReadForPatch, Begin, onbVars, recordVars, docVars, auxVars
  <2>2. Writes("patch", s, task).op = "patch"
    BY DEF Writes
  <2> QED BY <2>1, <2>2, ThreadStepNotices
<1>8. ASSUME NEW h \in Handlers, ReadForCompletion(h) PROVE NoticeInv'
  <2> DEFINE w == [op |-> "complete", doc |-> 0, ruling |-> Kept,
                   stage |-> StageWrite("complete"), tasks |-> <<>>, inserts |-> {},
                   face |-> Kept]
  <2>1. /\ txn' = [txn EXCEPT ![h] = w]
        /\ UNCHANGED <<docs, stage, behind, raced, overtaken>>
    BY <1>8 DEF ReadForCompletion, docVars, auxVars
  <2>2. w.op = "complete" /\ w.stage \in Assigned \cup {Kept}
    BY DEF StageWrite, Assigned
  <2> HIDE DEF w
  <2> QED BY <1>1, <2>1, <2>2
<1>9. ASSUME NEW h \in Handlers, Rollback(h) PROVE NoticeInv'
  <2>1. /\ txn' = [txn EXCEPT ![h] = Kept] /\ overtaken' = overtaken \ {h}
        /\ UNCHANGED <<docs, stage, behind, raced>>
    BY <1>9 DEF Rollback, End, onbVars, recordVars, docVars
  <2> QED BY <2>1, ThreadStepNotices
<1>10. ASSUME NEW d \in Documents, RemoveDocument(d) PROVE NoticeInv'
  BY <1>10 DEF RemoveDocument, DeleteDocument, NoticeInv
<1>11. ASSUME UNCHANGED <<docs, stage, behind, txn, raced, overtaken>> PROVE NoticeInv'
  <2>1. \A h \in Handlers : /\ WritesLateStage(txn[h])' = WritesLateStage(txn[h])
                            /\ SeesApprovals(txn[h])' = SeesApprovals(txn[h])
                            /\ Writing(h)' = Writing(h) /\ Open(h, "decide")' = Open(h, "decide")
    BY <1>11 DEF WritesLateStage, SeesApprovals, RuledDocs, AllThere, Writing, Open
  <2>2. AllThere' = AllThere /\ Noticed' = Noticed /\ \A d \in Documents : HasRow(d)' = HasRow(d)
    BY <1>11 DEF AllThere, Noticed, HasRow
  <2> QED BY <1>11, <2>1, <2>2 DEF NoticeInv
<1>12. ASSUME NEW t \in Tasks, RemoveTask(t) PROVE NoticeInv'
  BY <1>11, <1>12 DEF RemoveTask, DeleteTask, TaskStep, docVars
<1>13. CASE UNCHANGED txnVars
  BY <1>11, <1>13 DEF txnVars, onbVars, recordVars, docVars, auxVars
<1> QED BY <1>2, <1>3, <1>4, <1>6, <1>7, <1>8, <1>9, <1>10, <1>12, <1>13,
      RecordsNotice, RulingNotices DEF TxnNext

LEMMA NoticeInvariance == TxnSpec => []NoticeInv
BY NoticeInit, NoticeStep, TypedInvariance, PTL DEF TxnSpec

\* An onboarding whose required documents are all approved has reached "tasks
\* assigned", whatever rulings, matches, edits, completions, crashes and refusals
\* came between: unless a ruling was committed that another one had overtaken,
\* HR set the stage by hand, or a document was deleted.
THEOREM ApprovalsReachTheStage == TxnSpec => []ApprovalsAreNoticed
<1>1. NoticeInv => ApprovalsAreNoticed
  <2> SUFFICES ASSUME NoticeInv, AllRequiredApproved(docs), ~ raced, ~ behind
               PROVE  Rank[stage] >= Rank["tasks_assigned"]
    BY DEF ApprovalsAreNoticed
  <2> QED BY DEF NoticeInv, Noticed, Assigned, Rank
<1> QED BY <1>1, NoticeInvariance, PTL

-----------------------------------------------------------------------------
(***************************************************************************)
(* Items close for a reason. A transaction may hold a completion for long: *)
(* wasApproved remembers the approval it rests on.                         *)
(***************************************************************************)

\* What a transaction closes asks for a type that was approved, or that it is
\* about to approve; what it has seen approved was.
HoldsReason(t) ==
  /\ t.op = "load" /\ t.seen = "approved" /\ HasRow(t.doc) => docs[t.doc].type \in wasApproved
  /\ t.op \notin {"load", "update"} =>
       \A u \in DOMAIN Wanted : u \in DOMAIN t.tasks /\ t.tasks[u] = "completed" =>
         \/ Wanted[u] \in wasApproved
         \/ /\ t.op = "decide" /\ t.ruling = "approved"
            /\ HasRow(t.doc) => docs[t.doc].type = Wanted[u]

ItemsInv ==
  /\ Approved(docs) \subseteq wasApproved
  /\ \A h \in Handlers : txn[h] # Kept => HoldsReason(txn[h])

\* An item that a recalculation closes asks for a type that is approved, in the
\* documents as changed or as they are.
LEMMA ClosedItems ==
  ASSUME NEW D, NEW T \in {TasksAfter(D), Assign(D), Sync(task, D)},
         NEW u \in DOMAIN Wanted, T[u] = "completed", T[u] # task[u]
  PROVE  Wanted[u] \in Approved(D) \cup Approved(docs)
<1>1. u \in Tasks
  BY OnboardingConstants DEF Tasks
<1>2. \A V, E : Sync(V, E)[u] = "completed" => V[u] = "completed" \/ Wanted[u] \in Approved(E)
  BY <1>1 DEF Sync
<1>3. CASE T = Sync(task, D)
  BY <1>2, <1>3
<1>4. CASE T = Assign(D)
  <2> DEFINE V == [t \in Tasks |-> IF t \in Unassigned THEN "open" ELSE task[t]]
  <2>1. V[u] # "completed"
    BY <1>1
  <2>2. T = Sync(V, D)
    BY <1>4 DEF Assign
  <2> HIDE DEF V
  <2> QED BY <1>2, <2>1, <2>2
<1>5. CASE T = TasksAfter(D) /\ T # Assign(D)
  <2>1. T = Sync(task, docs)
    BY <1>5 DEF TasksAfter
  <2> QED BY <1>2, <2>1
<1> QED BY <1>3, <1>4, <1>5

LEMMA ItemsInit == TxnInit => ItemsInv
<1> SUFFICES ASSUME TxnInit PROVE ItemsInv
  OBVIOUS
<1>1. PICK type \in [Documents -> DocTypes] :
        docs = [d \in Documents |-> [type |-> type[d], status |-> "extracted"]]
  BY DEF TxnInit
<1>2. Approved(docs) = {}
  BY <1>1 DEF Approved, TypesIn, Stored
<1> QED BY <1>2 DEF TxnInit, ItemsInv

\* A step of one thread, or of none, that forgets no approval and changes no
\* document's type.
LEMMA ReasonsKept ==
  ASSUME TxnTyped, ItemsInv, NEW h \in Handlers, NEW w, txn' = [txn EXCEPT ![h] = w],
         Approved(docs)' \subseteq wasApproved', wasApproved \subseteq wasApproved',
         \A d \in Documents : HasRow(d)' => HasRow(d) /\ docs'[d].type = docs[d].type,
         w # Kept => HoldsReason(txn[h])'
  PROVE  ItemsInv'
<1>1. \A k \in Handlers : txn'[k] = IF k = h THEN w ELSE txn[k]
  BY DEF TxnTyped
<1>2. ASSUME NEW k \in Handlers, txn'[k] # Kept PROVE HoldsReason(txn[k])'
  <2>1. CASE k = h
    BY <1>1, <1>2, <2>1
  <2>2. CASE k # h
    <3>1. txn'[k] = txn[k] /\ ThreadTyped(txn[k]) /\ HoldsReason(txn[k])
      BY <1>1, <1>2, <2>2 DEF TxnTyped, ItemsInv
    <3> QED BY <3>1 DEF HoldsReason, ThreadTyped
  <2> QED BY <2>1, <2>2
<1> QED BY <1>2 DEF ItemsInv

\* A reader that is not the employee's or HR's edit of a task.
LEMMA ReaderHasReason ==
  ASSUME TxnTyped, ItemsInv, NEW h \in Handlers, NEW w, txn' = [txn EXCEPT ![h] = w],
         UNCHANGED <<docs, wasApproved>>, w.op # "load",
         w.op # "update" => \A u \in DOMAIN Wanted :
           u \in DOMAIN w.tasks /\ w.tasks[u] = "completed" =>
             \/ Wanted[u] \in wasApproved
             \/ /\ w.op = "decide" /\ w.ruling = "approved"
                /\ HasRow(w.doc) => docs[w.doc].type = Wanted[u]
  PROVE  ItemsInv'
<1>1. txn'[h] = w
  BY DEF TxnTyped
<1>2. HoldsReason(txn[h])'
  BY <1>1 DEF HoldsReason, HasRow
<1>3. Approved(docs)' = Approved(docs)
  BY DEF Approved, TypesIn, Stored
<1> QED BY <1>2, <1>3, ReasonsKept DEF ItemsInv, HasRow

LEMMA ItemsStep == TxnTyped /\ ItemsInv /\ [TxnNext]_txnVars => ItemsInv'
<1> SUFFICES ASSUME TxnTyped, ItemsInv, [TxnNext]_txnVars PROVE ItemsInv'
  OBVIOUS
<1>1. ASSUME NEW h \in Handlers, NEW d \in Documents, NEW verdict \in Ruled,
             LoadDocument(h, d, verdict)
      PROVE  ItemsInv'
  <2> DEFINE w == [op |-> "load", doc |-> d, verdict |-> verdict, seen |-> docs[d].status]
  <2>1. /\ HasRow(d) /\ txn' = [txn EXCEPT ![h] = w]
        /\ UNCHANGED <<docs, wasApproved>>
    BY <1>1 DEF LoadDocument, Begin, onbVars, recordVars, docVars, auxVars
  <2>2. txn'[h] = w
    BY <2>1 DEF TxnTyped
  <2>3. w.seen = "approved" => docs[d].type \in Approved(docs)
    BY <2>1 DEF Approved, TypesIn, Stored, HasRow
  <2>4. HoldsReason(txn[h])'
    BY <2>1, <2>2, <2>3 DEF HoldsReason, ItemsInv
  <2>5. Approved(docs)' = Approved(docs)
    BY <2>1 DEF Approved, TypesIn, Stored
  <2> HIDE DEF w
  <2> QED BY <2>1, <2>4, <2>5, ReasonsKept DEF ItemsInv, HasRow
<1>2. ASSUME NEW h \in Handlers, ReadForRuling(h) PROVE ItemsInv'
  <2> DEFINE t == txn[h]
             D == [d \in Documents |->
                     IF d = t.doc /\ HasRow(d)
                     THEN [docs[d] EXCEPT !.status = t.verdict] ELSE docs[d]]
             w == [Writes("decide", NewStage(D), TasksAfter(D)) EXCEPT
                     !.doc = t.doc,
                     !.ruling = IF t.verdict # t.seen THEN t.verdict ELSE Kept]
  <2>1. /\ txn' = [txn EXCEPT ![h] = w] /\ t # Kept /\ t.op = "load"
        /\ UNCHANGED <<docs, wasApproved>>
    BY <1>2 DEF ReadForRuling, Open, onbVars, recordVars, docVars, auxVars
  <2>2. /\ w.op = "decide" /\ w.doc = t.doc /\ w.tasks = TaskWrites(TasksAfter(D))
        /\ w.ruling = IF t.verdict # t.seen THEN t.verdict ELSE Kept
    BY DEF Writes
  <2>3. t.doc \in Documents
    BY <2>1 DEF TxnTyped, ThreadTyped
  <2>4. ASSUME NEW u \in DOMAIN Wanted, u \in DOMAIN w.tasks, w.tasks[u] = "completed"
        PROVE  \/ Wanted[u] \in wasApproved
               \/ w.ruling = "approved" /\ (HasRow(t.doc) => docs[t.doc].type = Wanted[u])
    <3>1. Wanted[u] \in Approved(D) \cup Approved(docs)
      <4> HIDE DEF D, w
      <4> QED BY <2>2, <2>4, ClosedItems DEF TaskWrites
    <3>2. CASE Wanted[u] \in Approved(docs)
      BY <3>2 DEF ItemsInv
    <3>3. CASE Wanted[u] \in Approved(D)
      <4>1. PICK e \in Documents :
              D[e] # NoDoc /\ D[e].status = "approved" /\ D[e].type = Wanted[u]
        BY <3>3 DEF Approved, TypesIn, Stored
      <4>2. CASE e = t.doc /\ HasRow(e)
        <5>1. docs[e] \in DocRows /\ D[e] = [docs[e] EXCEPT !.status = t.verdict]
          BY <4>2 DEF TxnTyped, HasRow
        <5>2. t.verdict = "approved" /\ docs[e].type = Wanted[u]
          BY <4>1, <5>1 DEF DocRows
        <5>3. CASE t.verdict # t.seen
          BY <2>2, <4>2, <5>2, <5>3
        <5>4. CASE t.verdict = t.seen
          BY <2>1, <4>2, <5>2, <5>4 DEF ItemsInv, HoldsReason
        <5> QED BY <5>3, <5>4
      <4>3. CASE ~ (e = t.doc /\ HasRow(e))
        <5>1. D[e] = docs[e]
          BY <4>3
        <5>2. Wanted[u] \in Approved(docs)
          BY <4>1, <5>1 DEF Approved, TypesIn, Stored
        <5> QED BY <5>2, <3>2
      <4> QED BY <4>2, <4>3
    <3> QED BY <3>1, <3>2, <3>3
  <2> HIDE DEF w, t
  <2> QED BY <2>1, <2>2, <2>4, ReaderHasReason
<1>3. ASSUME NEW h \in Handlers, NEW T, NEW w,
             w.op \notin {"load", "update"}, w.tasks = TaskWrites(T),
             txn' = [txn EXCEPT ![h] = w], UNCHANGED <<onbVars, auxVars>>,
             \A u \in DOMAIN Wanted :
               T[u] = "completed" /\ T[u] # task[u] => Wanted[u] \in Approved(docs)
      PROVE  ItemsInv'
  <2>1. UNCHANGED <<docs, wasApproved>>
    BY <1>3 DEF onbVars, recordVars, docVars, auxVars
  <2>2. \A u \in DOMAIN Wanted :
          u \in DOMAIN w.tasks /\ w.tasks[u] = "completed" => Wanted[u] \in wasApproved
    BY <1>3 DEF TaskWrites, ItemsInv
  <2> QED BY <1>3, <2>1, <2>2, ReaderHasReason
<1>4. ASSUME NEW h \in Handlers, ReadForMatch(h) PROVE ItemsInv'
  <2>1. PICK outcome \in {"matched", "unmatched"} :
          txn' = [txn EXCEPT ![h] =
                    [Writes("match", NewStage(docs), TasksAfter(docs)) EXCEPT
                       !.face = [outcome |-> outcome, of |-> Photo \cup IdDocument]]]
    BY <1>4 DEF ReadForMatch, Begin
  <2> DEFINE w == [Writes("match", NewStage(docs), TasksAfter(docs)) EXCEPT
                     !.face = [outcome |-> outcome, of |-> Photo \cup IdDocument]]
  <2>2. w.op = "match" /\ w.tasks = TaskWrites(TasksAfter(docs))
    BY DEF Writes
  <2>3. UNCHANGED <<onbVars, auxVars>>
    BY <1>4 DEF ReadForMatch
  <2>4. txn' = [txn EXCEPT ![h] = w]
    BY <2>1
  <2> HIDE DEF w
  <2> QED BY <1>3, <2>2, <2>3, <2>4, ClosedItems
<1>5. ASSUME NEW h \in Handlers,
             \/ ReadForAssignment(h) \/ ReadForListing(h)
             \/ \E t \in Tasks : ReadForWaiver(h, t)
             \/ \E s \in Stages : ReadForPatch(h, s)
      PROVE  ItemsInv'
  <2>1. ASSUME NEW op \in {"assign", "sync", "waive", "patch"}, NEW s, NEW T,
               txn' = [txn EXCEPT ![h] = Writes(op, s, T)], UNCHANGED <<onbVars, auxVars>>,
               \A u \in DOMAIN Wanted :
                 T[u] = "completed" /\ T[u] # task[u] => Wanted[u] \in Approved(docs)
        PROVE  ItemsInv'
    <3> DEFINE w == Writes(op, s, T)
    <3>1. w.op \notin {"load", "update"} /\ w.tasks = TaskWrites(T)
      BY DEF Writes
    <3>2. txn' = [txn EXCEPT ![h] = w] /\ UNCHANGED <<onbVars, auxVars>>
      BY <2>1
    <3> HIDE DEF w
    <3> QED BY <1>3, <2>1, <3>1, <3>2
  <2>2. CASE ReadForAssignment(h)
    <3>1. txn' = [txn EXCEPT ![h] = Writes("assign", stage, Assign(docs))]
          /\ UNCHANGED <<onbVars, auxVars>>
      BY <2>2 DEF ReadForAssignment, Begin
    <3> QED BY <2>1, <3>1, ClosedItems
  <2>3. CASE ReadForListing(h)
    <3>1. txn' = [txn EXCEPT ![h] = Writes("sync", stage, Sync(task, docs))]
          /\ UNCHANGED <<onbVars, auxVars>>
      BY <2>3 DEF ReadForListing, Begin
    <3> QED BY <2>1, <3>1, ClosedItems
  <2>4. ASSUME NEW t \in Tasks, ReadForWaiver(h, t) PROVE ItemsInv'
    <3> DEFINE T == [task EXCEPT ![t] = "waived"]
    <3>1. \A u \in DOMAIN Wanted : T[u] # "completed" \/ T[u] = task[u]
      OBVIOUS
    <3>2. txn' = [txn EXCEPT ![h] = Writes("waive", stage, T)] /\ UNCHANGED <<onbVars, auxVars>>
      BY <2>4 DEF ReadForWaiver, Begin
    <3> HIDE DEF T
    <3> QED BY <2>1, <3>1, <3>2
  <2>5. ASSUME NEW s \in Stages, ReadForPatch(h, s) PROVE ItemsInv'
    <3>1. txn' = [txn EXCEPT ![h] = Writes("patch", s, task)] /\ UNCHANGED <<onbVars, auxVars>>
      BY <2>5 DEF ReadForPatch, Begin
    <3> QED BY <2>1, <3>1
  <2> QED BY <1>5, <2>2, <2>3, <2>4, <2>5
<1>6. ASSUME NEW h \in Handlers,
             \E t \in Tasks, by \in {"employee", "hr"}, s \in {"open", "completed"} :
               ReadForUpdate(h, t, by, s)
      PROVE  ItemsInv'
  <2>1. /\ UNCHANGED <<docs, wasApproved>>
        /\ \E T : txn' = [txn EXCEPT ![h] = Writes("update", stage, T)]
    BY <1>6 DEF ReadForUpdate, Begin, onbVars, recordVars, docVars, auxVars
  <2>2. \A T : Writes("update", stage, T).op = "update"
    BY DEF Writes
  <2> QED BY <2>1, <2>2, ReaderHasReason
<1>7. ASSUME NEW h \in Handlers, ReadForCompletion(h) PROVE ItemsInv'
  <2> DEFINE w == [op |-> "complete", doc |-> 0, ruling |-> Kept,
                   stage |-> StageWrite("complete"), tasks |-> <<>>, inserts |-> {},
                   face |-> Kept]
  <2>1. /\ txn' = [txn EXCEPT ![h] = w]
        /\ UNCHANGED <<docs, wasApproved>>
    BY <1>7 DEF ReadForCompletion, docVars, auxVars
  <2>2. w.op = "complete" /\ DOMAIN w.tasks = {}
    OBVIOUS
  <2> HIDE DEF w
  <2> QED BY <2>1, <2>2, ReaderHasReason
<1>8. ASSUME NEW h \in Handlers, NEW w, w = Kept, txn' = [txn EXCEPT ![h] = w],
             Approved(docs)' \subseteq wasApproved', wasApproved \subseteq wasApproved',
             \A d \in Documents : HasRow(d)' => HasRow(d) /\ docs'[d].type = docs[d].type
      PROVE  ItemsInv'
  BY <1>8, ReasonsKept
<1>9. ASSUME NEW h \in Handlers, CommitRecords(h) \/ Rollback(h) PROVE ItemsInv'
  <2>1. txn' = [txn EXCEPT ![h] = Kept] /\ UNCHANGED <<docs, wasApproved>>
    BY <1>9 DEF CommitRecords, Rollback, End, onbVars, recordVars, docVars
  <2>2. Approved(docs)' = Approved(docs)
    BY <2>1 DEF Approved, TypesIn, Stored
  <2> QED BY <1>8, <2>1, <2>2 DEF ItemsInv, HasRow
<1>10. ASSUME NEW h \in Handlers, CommitRuling(h) PROVE ItemsInv'
  <2>1. /\ txn' = [txn EXCEPT ![h] = Kept]
        /\ wasApproved' = wasApproved \cup Approved(docs')
    BY <1>10 DEF CommitRuling, End
  <2>2. \A d \in Documents : HasRow(d)' => HasRow(d) /\ docs'[d].type = docs[d].type
    BY <1>10, RulingIsCommitted
  <2>3. Approved(docs)' = Approved(docs')
    BY DEF Approved, TypesIn, Stored
  <2> QED BY <1>8, <2>1, <2>2, <2>3
<1>11. ASSUME UNCHANGED <<txn, wasApproved>>,
              \A d \in Documents : HasRow(d)' => HasRow(d) /\ docs'[d] = docs[d]
       PROVE  ItemsInv'
  <2>1. Approved(docs)' \subseteq Approved(docs)
    BY <1>11 DEF Approved, TypesIn, Stored, HasRow
  <2>2. ASSUME NEW h \in Handlers, txn[h] # Kept PROVE HoldsReason(txn[h])'
    <3>1. HoldsReason(txn[h]) /\ ThreadTyped(txn[h])
      BY <2>2 DEF ItemsInv, TxnTyped
    <3> QED BY <1>11, <3>1 DEF HoldsReason, ThreadTyped
  <2> QED BY <1>11, <2>1, <2>2 DEF ItemsInv
<1>12. ASSUME NEW d \in Documents, RemoveDocument(d) PROVE ItemsInv'
  <2>1. docs' = [docs EXCEPT ![d] = NoDoc] /\ UNCHANGED <<txn, wasApproved>>
    BY <1>12 DEF RemoveDocument, DeleteDocument, DeleteRow, auxVars
  <2> QED BY <1>11, <2>1 DEF HasRow, TxnTyped
<1>13. ASSUME NEW t \in Tasks, RemoveTask(t) PROVE ItemsInv'
  BY <1>11, <1>13 DEF RemoveTask, DeleteTask, TaskStep, docVars, HasRow
<1>14. CASE UNCHANGED txnVars
  BY <1>11, <1>14 DEF txnVars, onbVars, recordVars, docVars, auxVars, HasRow
<1> QED BY <1>1, <1>2, <1>4, <1>5, <1>6, <1>7, <1>9, <1>10, <1>12, <1>13, <1>14 DEF TxnNext

LEMMA ItemsInvariance == TxnSpec => []ItemsInv
BY ItemsInit, ItemsStep, TypedInvariance, PTL DEF TxnSpec

\* A checklist item that nobody ticked closes on an approval, however long the
\* transaction that closes it has held what it read.
THEOREM ClosingHasAReason == TxnSpec => ItemsCloseForAReason
<1> DEFINE Reason ==
      \A t \in DOMAIN Wanted :
        task[t] # "completed" /\ task'[t] = "completed" =>
          \/ Wanted[t] \in wasApproved'
          \/ \E h \in Handlers : Open(h, "update") /\ txn'[h] = Kept
<1>1. TxnTyped /\ ItemsInv /\ [TxnNext]_txnVars => [Reason]_txnVars
  <2> SUFFICES ASSUME TxnTyped, ItemsInv, TxnNext, NEW u \in DOMAIN Wanted,
                      task[u] # "completed", task'[u] = "completed",
                      \A h \in Handlers : ~ (Open(h, "update") /\ txn'[h] = Kept)
               PROVE  Wanted[u] \in wasApproved'
    OBVIOUS
  <2>1. u \in Tasks
    BY OnboardingConstants DEF Tasks
  <2>2. ASSUME NEW h \in Handlers, WriteTasks(txn[h]), txn' = [txn EXCEPT ![h] = Kept],
               txn[h] # Kept, txn[h].op # "load"
        PROVE  /\ \/ Wanted[u] \in wasApproved
                  \/ /\ txn[h].op = "decide" /\ txn[h].ruling = "approved"
                     /\ HasRow(txn[h].doc) => docs[txn[h].doc].type = Wanted[u]
    <3>1. u \in DOMAIN txn[h].tasks /\ txn[h].tasks[u] = "completed"
      BY <2>1, <2>2 DEF WriteTasks
    <3>2. txn[h].op # "update"
      BY <2>2 DEF Open, TxnTyped
    <3>3. HoldsReason(txn[h])
      BY <2>2 DEF ItemsInv
    <3> QED BY <2>2, <3>1, <3>2, <3>3 DEF HoldsReason
  <2>3. ASSUME NEW h \in Handlers, CommitRecords(h) PROVE Wanted[u] \in wasApproved'
    <3>1. /\ WriteTasks(txn[h]) /\ txn' = [txn EXCEPT ![h] = Kept] /\ txn[h] # Kept
          /\ txn[h].op \notin {"load", "decide"} /\ UNCHANGED wasApproved
      BY <2>3 DEF CommitRecords, End
    <3> QED BY <2>2, <3>1
  <2>4. ASSUME NEW h \in Handlers, CommitRuling(h) PROVE Wanted[u] \in wasApproved'
    <3>1. /\ WriteTasks(txn[h]) /\ txn' = [txn EXCEPT ![h] = Kept] /\ txn[h] # Kept
          /\ txn[h].op = "decide" /\ ~ Refused(txn[h])
          /\ wasApproved' = wasApproved \cup Approved(docs')
          /\ docs' = [docs EXCEPT ![txn[h].doc].status =
                        IF txn[h].ruling = Kept THEN @ ELSE txn[h].ruling]
      BY <2>4 DEF CommitRuling, End, Open
    <3>2. txn[h].doc \in Documents /\ HasRow(txn[h].doc) /\ docs[txn[h].doc] \in DocRows
      BY <3>1 DEF TxnTyped, ThreadTyped, Refused, Documents, HasRow
    <3>3. CASE Wanted[u] \in wasApproved
      BY <3>1, <3>3
    <3>4. CASE txn[h].ruling = "approved" /\ docs[txn[h].doc].type = Wanted[u]
      <4>1. Kept # "approved"
        BY KeptIsNoStage DEF DocStatuses, Ruled
      <4>2. docs'[txn[h].doc] = [docs[txn[h].doc] EXCEPT !.status = "approved"]
        BY <3>1, <3>2, <3>4, <4>1 DEF TxnTyped
      <4>3. /\ docs'[txn[h].doc].status = "approved" /\ docs'[txn[h].doc].type = Wanted[u]
            /\ docs'[txn[h].doc] \in DocRows
        BY <3>2, <3>4, <4>2 DEF DocRows, DocStatuses, Ruled
      <4>4. Wanted[u] \in Approved(docs')
        BY <3>2, <4>3, NoDocAssumption DEF Approved, TypesIn, Stored
      <4> QED BY <3>1, <4>4
    <3> QED BY <2>2, <3>1, <3>2, <3>3, <3>4
  <2>5. ASSUME NEW h \in Handlers, ReadForCompletion(h) PROVE Wanted[u] \in wasApproved'
    <3>1. task' = Sync(task, docs) /\ UNCHANGED wasApproved
      BY <2>5 DEF ReadForCompletion, auxVars
    <3>2. Wanted[u] \in Approved(docs)
      BY <2>1, <3>1 DEF Sync
    <3> QED BY <3>1, <3>2 DEF ItemsInv
  <2>6. ASSUME NEW t \in Tasks, RemoveTask(t) PROVE FALSE
    BY <2>1, <2>6 DEF RemoveTask, DeleteTask, TaskStep
  <2>7. task' # task
    OBVIOUS
  <2> QED BY <2>3, <2>4, <2>5, <2>6, <2>7 DEF TxnNext, LoadDocument, ReadForRuling,
        ReadForMatch, ReadForAssignment, ReadForListing, ReadForUpdate, ReadForWaiver,
        ReadForPatch, Rollback, RemoveDocument, DeleteDocument, onbVars, recordVars
<1> QED BY <1>1, ItemsInvariance, TypedInvariance, PTL DEF TxnSpec, ItemsCloseForAReason
=============================================================================
