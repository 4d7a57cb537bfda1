----------------------------- MODULE Knowledge -----------------------------
(***************************************************************************)
(* The knowledge base: policy documents, their edits, and the background   *)
(* jobs that cut them into embedded chunks (api/v1/knowledge.py,           *)
(* services/knowledge.py, services/retrieval.py). A job runs in its own    *)
(* session beside the requests; a crash loses the jobs, never a commit.    *)
(***************************************************************************)
EXTENDS Integers, FiniteSets

CONSTANTS
  Policies,    \* the documents
  Providers,   \* the embedders the service may be deployed with
  MaxEdits,    \* bound: edits of a document's text, title or category
  MaxJobs,     \* bound: ingestions ever scheduled
  MaxMishaps,  \* bound: crashes, redeployments, ingestions that fail or die
  Missing      \* no document; a job that has ended or is not yet made

ASSUME KnowledgeBounds ==
  {MaxEdits, MaxJobs, MaxMishaps} \subseteq Nat /\ IsFiniteSet(Policies)

Jobs == 1..MaxJobs
Texts == 0..MaxEdits   \* what is embedded: content, title, category
IngestStatuses == {"pending", "ingesting", "ready", "failed"}

\* chunk_document: how many chunks a text gives differs from text to text.
Pieces(text) == 1..(1 + (text % 2))

\* A chunk's row is the one its ingestion inserted, and no other's.
Chunks == [index : 1..2, text : Texts, by : Providers, made : Jobs]
PolicyRows ==
  [text : Texts, status : IngestStatuses, published : BOOLEAN,
   count : 0..2, by : Providers \cup {Missing}]

\* What an ingestion knows: which document; later the row as it has read it,
\* then the chunks it has deleted and the embedder it has used.
JobRows ==
  [of : Policies, phase : {"queued", "started", "failing"}] \cup
  [of : Policies, phase : {"loaded"}, row : PolicyRows] \cup
  [of : Policies, phase : {"embedded"}, row : PolicyRows, deleted : SUBSET Chunks,
   by : Providers]

ASSUME MissingAssumption == Missing \notin PolicyRows \cup JobRows \cup Providers

VARIABLES
  policy,    \* document -> row or Missing
  chunks,    \* document -> its chunks
  job,       \* ingestion -> what it has read and done, or Missing
  scheduled, \* how many were ever made
  edit,      \* the open PATCH of each document, or Missing
  provider,  \* the embedder in use
  mishaps,   \* how many there were
  overtaken, \* history: the ingestions that another one of the same document
             \* was committed before, after they had read the row
  lost       \* history: the documents an ingestion of which died or was lost since
             \* the last one was scheduled

kbVars == <<policy, chunks, job, scheduled, edit, provider, mishaps, overtaken, lost>>

Kept(d) == policy[d] # Missing
Working(d) == {j \in Jobs : job[j] # Missing /\ job[j].of = d}

KbInit ==
  /\ policy = [d \in Policies |-> Missing]
  /\ chunks = [d \in Policies |-> {}]
  /\ job = [j \in Jobs |-> Missing]
  /\ scheduled = 0
  /\ edit = [d \in Policies |-> Missing]
  /\ provider \in Providers
  /\ mishaps = 0 /\ overtaken = {} /\ lost = {}

-----------------------------------------------------------------------------
(***************************************************************************)
(* The requests.                                                           *)
(***************************************************************************)

\* _schedule_ingest
Schedule(d) ==
  /\ scheduled + 1 \in Jobs
  /\ scheduled' = scheduled + 1
  /\ job' = [job EXCEPT ![scheduled + 1] = [of |-> d, phase |-> "queued"]]
  /\ lost' = lost \ {d}

\* POST /knowledge/documents. No id is used twice: nobody works on the new one.
CreatePolicy(d, published) ==
  /\ ~ Kept(d) /\ Working(d) = {} /\ edit[d] = Missing
  /\ policy' = [policy EXCEPT ![d] = [text |-> 0, status |-> "pending", published |-> published,
                                      count |-> 0, by |-> Missing]]
  /\ Schedule(d)
  /\ UNCHANGED <<chunks, edit, provider, mishaps, overtaken>>

\* PATCH /knowledge/documents/{id} reads the row ...
BeginEdit(d) ==
  /\ Kept(d) /\ edit[d] = Missing
  /\ edit' = [edit EXCEPT ![d] = policy[d]]
  /\ UNCHANGED <<policy, chunks, job, scheduled, provider, mishaps, overtaken, lost>>

\* Mutant: the new text is only stored.
CommitEditStoring(d) ==
  /\ edit[d] # Missing /\ Kept(d) /\ policy[d].text < MaxEdits
  /\ policy' = [policy EXCEPT ![d].text = @ + 1]
  /\ edit' = [edit EXCEPT ![d] = Missing]
  /\ UNCHANGED <<chunks, job, scheduled, provider, mishaps, overtaken, lost>>

\* ... and writes the columns that differ from what it read.
CommitEdit(d) ==
  /\ edit[d] # Missing /\ Kept(d) /\ policy[d].text < MaxEdits
  /\ policy' = [policy EXCEPT ![d].text = @ + 1,
                  ![d].status = IF edit[d].status # "pending" THEN "pending" ELSE @]
  /\ edit' = [edit EXCEPT ![d] = Missing]
  /\ Schedule(d)
  /\ UNCHANGED <<chunks, provider, mishaps, overtaken>>

CommitPublish(d) ==
  /\ edit[d] # Missing /\ Kept(d)
  /\ policy' = [policy EXCEPT ![d].published = ~ edit[d].published]
  /\ edit' = [edit EXCEPT ![d] = Missing]
  /\ UNCHANGED <<chunks, job, scheduled, provider, mishaps, overtaken, lost>>

\* The row is gone, or the request fails.
AbandonEdit(d) ==
  /\ edit[d] # Missing
  /\ edit' = [edit EXCEPT ![d] = Missing]
  /\ UNCHANGED <<policy, chunks, job, scheduled, provider, mishaps, overtaken, lost>>

\* POST /knowledge/documents/{id}/reingest
Reingest(d) ==
  /\ Kept(d) /\ policy[d].status # "ingesting"
  /\ Schedule(d)
  /\ UNCHANGED <<policy, chunks, edit, provider, mishaps, overtaken>>

\* DELETE /knowledge/documents/{id}; the chunks go with it.
DeletePolicy(d) ==
  /\ Kept(d)
  /\ policy' = [policy EXCEPT ![d] = Missing]
  /\ chunks' = [chunks EXCEPT ![d] = {}]
  /\ UNCHANGED <<job, scheduled, edit, provider, mishaps, overtaken, lost>>

-----------------------------------------------------------------------------
(***************************************************************************)
(* ingest_document.                                                        *)
(***************************************************************************)
In(j, phase) == job[j] # Missing /\ job[j].phase = phase

End(j) == job' = [job EXCEPT ![j] = Missing]

\* The first commit.
StartIngest(j) ==
  /\ In(j, "queued")
  /\ IF Kept(job[j].of)
     THEN /\ policy' = [policy EXCEPT ![job[j].of].status = "ingesting"]
          /\ job' = [job EXCEPT ![j].phase = "started"]
     ELSE End(j) /\ UNCHANGED policy
  /\ UNCHANGED <<chunks, scheduled, edit, provider, mishaps, overtaken, lost>>

\* The commit expired the row: it is read again, ...
ReadPolicy(j) ==
  LET d == job[j].of
  IN  /\ In(j, "started")
      /\ IF Kept(d)
         THEN job' = [job EXCEPT ![j] = [of |-> d, phase |-> "loaded", row |-> policy[d]]]
         ELSE End(j)
      /\ UNCHANGED <<policy, chunks, scheduled, edit, provider, mishaps, overtaken, lost>>

\* ... and then the chunks there are deleted, a statement of its own, and the
\* text that was read is cut and embedded; nothing of it can be seen yet.
EmbedChunks(j) ==
  LET d == job[j].of
  IN  /\ In(j, "loaded")
      /\ job' = [job EXCEPT ![j] =
                   [of |-> d, phase |-> "embedded", row |-> job[j].row,
                    deleted |-> chunks[d], by |-> provider]]
      /\ UNCHANGED <<policy, chunks, scheduled, edit, provider, mishaps, overtaken, lost>>

NewChunks(j) ==
  {[index |-> i, text |-> job[j].row.text, by |-> job[j].by, made |-> j] :
     i \in Pieces(job[j].row.text)}

\* Mutant: there is no uq_chunk_per_document.
IndexTakenNever(j) == FALSE

\* uq_chunk_per_document: another job has inserted chunks since.
IndexTaken(j) ==
  \E c \in chunks[job[j].of] \ job[j].deleted, n \in NewChunks(j) : c.index = n.index

Reading(d) == {j \in Working(d) : job[j].phase = "loaded"}

\* Of a column that has the value it was read with nothing is written.
Written(now, read, new) == IF new # read THEN new ELSE now

\* Mutant: the embedder is recorded at the first ingestion only.
CommitIngestNaming(j) ==
  LET d == job[j].of
      r == job[j].row
  IN  /\ In(j, "embedded") /\ Kept(d) /\ ~ IndexTaken(j)
      /\ chunks' = [chunks EXCEPT ![d] = (@ \ job[j].deleted) \cup NewChunks(j)]
      /\ policy' = [policy EXCEPT
                      ![d].status = Written(@, r.status, "ready"),
                      ![d].count = Written(@, r.count, Cardinality(NewChunks(j))),
                      ![d].by = IF @ = Missing THEN job[j].by ELSE @]
      /\ overtaken' = overtaken \cup Reading(d)
      /\ End(j)
      /\ UNCHANGED <<scheduled, edit, provider, mishaps, lost>>

\* The second commit.
CommitIngest(j) ==
  LET d == job[j].of
      r == job[j].row
  IN  /\ In(j, "embedded") /\ Kept(d) /\ ~ IndexTaken(j)
      /\ chunks' = [chunks EXCEPT ![d] = (@ \ job[j].deleted) \cup NewChunks(j)]
      /\ policy' = [policy EXCEPT
                      ![d].status = Written(@, r.status, "ready"),
                      ![d].count = Written(@, r.count, Cardinality(NewChunks(j))),
                      ![d].by = Written(@, r.by, job[j].by)]
      /\ overtaken' = overtaken \cup Reading(d)
      /\ End(j)
      /\ UNCHANGED <<scheduled, edit, provider, mishaps, lost>>

\* It is refused, or the row is gone: everything since the first commit is
\* rolled back.
RefuseIngest(j) ==
  /\ In(j, "embedded") /\ (Kept(job[j].of) => IndexTaken(j))
  /\ job' = [job EXCEPT ![j] = [of |-> job[j].of, phase |-> "failing"]]
  /\ UNCHANGED <<policy, chunks, scheduled, edit, provider, mishaps, overtaken, lost>>

\* Mutant: what fails is not recorded.
IngestFailsSilently(j) ==
  /\ In(j, "loaded") \/ In(j, "embedded")
  /\ mishaps < MaxMishaps
  /\ mishaps' = mishaps + 1
  /\ End(j)
  /\ UNCHANGED <<policy, chunks, scheduled, edit, provider, overtaken, lost>>

\* The embedder fails, or a statement: what it did is rolled back.
IngestFails(j) ==
  /\ In(j, "loaded") \/ In(j, "embedded")
  /\ mishaps < MaxMishaps
  /\ mishaps' = mishaps + 1
  /\ job' = [job EXCEPT ![j] = [of |-> job[j].of, phase |-> "failing"]]
  /\ UNCHANGED <<policy, chunks, scheduled, edit, provider, overtaken, lost>>

\* Nothing catches what fails before the first commit, or in recording a failure.
IngestDies(j) ==
  /\ In(j, "queued") \/ In(j, "failing")
  /\ mishaps < MaxMishaps
  /\ mishaps' = mishaps + 1
  /\ End(j)
  /\ lost' = lost \cup {job[j].of}
  /\ UNCHANGED <<policy, chunks, scheduled, edit, provider, overtaken>>

RecordFailure(j) ==
  /\ In(j, "failing")
  /\ policy' = [d \in Policies |-> IF d = job[j].of /\ Kept(d)
                                   THEN [policy[d] EXCEPT !.status = "failed"] ELSE policy[d]]
  /\ End(j)
  /\ UNCHANGED <<chunks, scheduled, edit, provider, mishaps, overtaken, lost>>

\* A crash, or a deployment with another EMBEDDING_PROVIDER.
Restart(p) ==
  /\ mishaps < MaxMishaps
  /\ mishaps' = mishaps + 1
  /\ job' = [j \in Jobs |-> Missing]
  /\ edit' = [d \in Policies |-> Missing]
  /\ provider' = p
  /\ lost' = lost \cup {d \in Policies : Working(d) # {}}
  /\ UNCHANGED <<policy, chunks, scheduled, overtaken>>

KbNext ==
  \/ \E d \in Policies, b \in BOOLEAN : CreatePolicy(d, b)
  \/ \E d \in Policies : BeginEdit(d)
  \/ \E d \in Policies : CommitEdit(d)
  \/ \E d \in Policies : CommitPublish(d)
  \/ \E d \in Policies : AbandonEdit(d)
  \/ \E d \in Policies : Reingest(d)
  \/ \E d \in Policies : DeletePolicy(d)
  \/ \E j \in Jobs : StartIngest(j)
  \/ \E j \in Jobs : ReadPolicy(j)
  \/ \E j \in Jobs : EmbedChunks(j)
  \/ \E j \in Jobs : CommitIngest(j)
  \/ \E j \in Jobs : RefuseIngest(j)
  \/ \E j \in Jobs : IngestFails(j)
  \/ \E j \in Jobs : IngestDies(j)
  \/ \E j \in Jobs : RecordFailure(j)
  \/ \E p \in Providers : Restart(p)

\* The worker threads run what is queued.
JobStep(j) ==
  \/ StartIngest(j) \/ ReadPolicy(j) \/ EmbedChunks(j)
  \/ CommitIngest(j) \/ RefuseIngest(j) \/ RecordFailure(j)

KbSpec == KbInit /\ [][KbNext]_kbVars /\ \A j \in Jobs : WF_kbVars(JobStep(j))

-----------------------------------------------------------------------------
(***************************************************************************)
(* What the rest of the system sees.                                       *)
(***************************************************************************)

\* _searchable_filters: the documents retrieve() looks at.
Searchable == {d \in Policies : Kept(d) /\ policy[d].published /\ policy[d].status = "ready"}

\* index_mismatches: those embedded by something else than the active embedder.
Mismatched == {d \in Searchable : policy[d].by # provider}

\* knowledge_base_stats: chunks_total, the sum of the counts.
ChunksTotal(S) == Cardinality(UNION {{d} \X (1..policy[d].count) : d \in S})

\* The documents whose chunks an ingestion made that was not overtaken.
InOrder == {d \in Policies : \A c \in chunks[d] : c.made \notin overtaken}

Ready == {d \in Policies : Kept(d) /\ policy[d].status = "ready"}

(***************************************************************************)
(* Properties.                                                             *)
(***************************************************************************)

\* Type invariant; and the chunks of a document are always those of one
\* ingestion, whole: never the half of one text and the half of another,
\* however jobs race, fail or are lost.
KbTypeOK ==
  /\ policy \in [Policies -> PolicyRows \cup {Missing}]
  /\ chunks \in [Policies -> SUBSET Chunks]
  /\ job \in [Jobs -> JobRows \cup {Missing}]
  /\ edit \in [Policies -> PolicyRows \cup {Missing}]
  /\ scheduled \in 0..MaxJobs /\ mishaps \in 0..MaxMishaps /\ provider \in Providers
  /\ overtaken \subseteq Jobs
  /\ \A d \in Policies : \A c, e \in chunks[d] : [c EXCEPT !.index = e.index] = e
  /\ \A d \in Policies : \A c \in chunks[d] : {e.index : e \in chunks[d]} = Pieces(c.text)

\* The figures HR sees are those of the index: the embedder a row names, which
\* index_mismatches compares, made its vectors, and the counts add up where
\* ingestions of one document were in order.
StatsDescribeTheIndex ==
  /\ \A d \in Searchable :
       chunks[d] # {} /\ \A c \in chunks[d] : (c.by = provider) <=> d \notin Mismatched
  /\ ChunksTotal(Ready \cap InOrder) =
       Cardinality(UNION {{<<d, c>> : c \in chunks[d]} : d \in Ready \cap InOrder})

\* An old text can be served again by a job that was running when the new one
\* came, but only while the job for the new one is on its way, or after a mishap,
\* or if the job was overtaken: see OldTextIsReplaced.
OldTextIsBeingReplaced ==
  \A d \in Searchable \cap InOrder :
    (\E c \in chunks[d] : c.text # policy[d].text) => Working(d) # {} \/ mishaps > 0

\* Liveness: unless its ingestion dies or is lost, a document that waits is
\* ingested, or says that it failed: whatever the embedder or a statement does.
IngestionEnds ==
  \A d \in Policies :
    LET waiting == Kept(d) /\ policy[d].status \in {"pending", "ingesting"} /\ d \notin lost
    IN  waiting ~> ~ waiting

(***************************************************************************)
(* What the code's documentation promises and the code does not keep.      *)
(***************************************************************************)

\* A document whose text was edited "stops being served with old embeddings"
\* (api/v1/knowledge.py:167), where nothing fails, once its jobs have run. It
\* fails: a job that read the old text deletes the chunks of the new one, and
\* puts its own in their place.
OldTextIsReplaced ==
  \A d \in Searchable :
    (\E c \in chunks[d] : c.text # policy[d].text) => Working(d) # {} \/ mishaps > 0
=============================================================================
