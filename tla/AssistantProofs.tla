-------------------------- MODULE AssistantProofs --------------------------
(***************************************************************************)
(* What is proved about the assistant: the index HR sees and employees ask *)
(* is the work of one ingestion per document, whatever jobs race, and it   *)
(* is that of the document's text or is about to be, unless a job that had *)
(* read an old text was overtaken and then committed.                      *)
(***************************************************************************)
EXTENDS MCAssistant, DaySumsProofs, FiniteSetTheorems, SequenceTheorems, TLAPS

-----------------------------------------------------------------------------
(***************************************************************************)
(* The inductive invariant of the knowledge base.                          *)
(***************************************************************************)

\* The chunks ingestion i gives of a text t.
Cut(i, t, p) == {[index |-> n, text |-> t, by |-> p, made |-> i] : n \in Pieces(t)}

\* All the chunks of one ingestion, or none.
Whole(S) == S = {} \/ \E i \in Jobs, t \in Texts, p \in Providers : S = Cut(i, t, p)

Embedded(j) == job[j] # Missing /\ job[j].phase = "embedded"

\* An ingestion that has read the row.
Holds(j) == job[j] # Missing /\ job[j].phase \in {"loaded", "embedded"}

KbTypes ==
  /\ policy \in [Policies -> PolicyRows \cup {Missing}]
  /\ chunks \in [Policies -> SUBSET Chunks]
  /\ job \in [Jobs -> JobRows \cup {Missing}]
  /\ edit \in [Policies -> PolicyRows \cup {Missing}]
  /\ scheduled \in 0..MaxJobs /\ mishaps \in 0..MaxMishaps /\ provider \in Providers
  /\ overtaken \subseteq Jobs

\* A chunk was made by an ingestion that is over.
Over(S) == \A c \in S : c.made <= scheduled /\ job[c.made] = Missing

SetsAreWhole ==
  /\ \A d \in Policies : Whole(chunks[d]) /\ Over(chunks[d])
  /\ \A j \in Jobs : Embedded(j) => Whole(job[j].deleted) /\ Over(job[j].deleted)

JobsAreScheduled == \A j \in Jobs : job[j] # Missing => j <= scheduled

\* The row describes its chunks.
RowDescribes(d) ==
  IF Kept(d)
  THEN /\ policy[d].status = "ready" => chunks[d] # {}
       /\ chunks[d] # {} /\ d \in InOrder => policy[d].count = Cardinality(chunks[d])
       /\ \A c \in chunks[d] : c.by = policy[d].by /\ c.text <= policy[d].text
  ELSE chunks[d] = {}

\* The chunks a job has deleted, or would delete now.
Seen(j) == IF job[j].phase = "loaded" THEN chunks[job[j].of] ELSE job[j].deleted

\* uq_chunk_per_document will refuse it.
Refused(j) == chunks[job[j].of] # {} /\ Seen(j) # chunks[job[j].of]

\* The row has moved on since a job read it in text alone: the embedder is what
\* it read, or the one that is used. Of a job that was not overtaken, what it
\* deletes is not later than what it read, and the count is what it read unless
\* it will be refused.
Knows(j) ==
  Holds(j) =>
    LET d == job[j].of
        r == job[j].row
    IN  /\ Kept(d) => r.text <= policy[d].text /\ policy[d].by \in {r.by, provider}
        /\ Embedded(j) => job[j].by = provider
        /\ j \notin overtaken =>
             /\ \A c \in Seen(j) : c.text <= r.text
             /\ Kept(d) => Refused(j) \/ policy[d].count = r.count

\* Who has read the later text has seen the chunks at least as late, unless the
\* reader of the older one was overtaken.
SawMore(j, k) ==
  (/\ Holds(j) /\ Holds(k) /\ job[j].of = job[k].of /\ j \notin overtaken
   /\ job[j].row.text < job[k].row.text) =>
    (Refused(k) => Refused(j))

Fresh(d) == chunks[d] # {} /\ \A c \in chunks[d] : c.text = policy[d].text

ComesBy(j, d) ==
  /\ job[j] # Missing /\ job[j].of = d
  /\ \/ job[j].phase \in {"queued", "started"}
     \/ Holds(j) /\ job[j].row.text = policy[d].text

Coming(d) == \E j \in Jobs : ComesBy(j, d)

\* The text was refused for the chunks of an older one, or an overtaken job has
\* put older ones in its place. Only jobs that were overtaken can still commit,
\* and the document is not served or soon not, or is what one of those made.
Behind(d) ==
  /\ \A j \in Jobs : Holds(j) /\ job[j].of = d => Refused(j) \/ j \in overtaken
  /\ \/ d \notin InOrder \/ policy[d].status # "ready"
     \/ \E j \in Jobs : job[j] # Missing /\ job[j].of = d /\ job[j].phase = "failing"

OnItsWay(d) == Fresh(d) \/ Coming(d) \/ Behind(d)

TextIsOnItsWay == mishaps = 0 => \A d \in Policies : Kept(d) => OnItsWay(d)

KbInv ==
  /\ KbTypes /\ SetsAreWhole /\ JobsAreScheduled
  /\ \A d \in Policies : RowDescribes(d)
  /\ \A j \in Jobs : Knows(j)
  /\ \A j, k \in Jobs : SawMore(j, k)
  /\ TextIsOnItsWay

LEMMA BoundsAreNat == MaxEdits \in Nat /\ MaxJobs \in Nat /\ MaxMishaps \in Nat
<1>1. MaxEdits \in {MaxEdits, MaxJobs, MaxMishaps} /\ MaxJobs \in {MaxEdits, MaxJobs, MaxMishaps}
      /\ MaxMishaps \in {MaxEdits, MaxJobs, MaxMishaps}
  OBVIOUS
<1>2. {MaxEdits, MaxJobs, MaxMishaps} \subseteq Nat
  BY KnowledgeBounds
<1> QED BY <1>1, <1>2

LEMMA PiecesAre ==
  ASSUME NEW t \in Texts
  PROVE  Pieces(t) \in {{1}, {1, 2}}
<1>1. t \in Nat
  BY BoundsAreNat DEF Texts
<1>2. t % 2 = 0 \/ t % 2 = 1
  BY <1>1
<1>3. CASE t % 2 = 0
  <2>1. Pieces(t) = 1..1
    BY <1>3 DEF Pieces
  <2>2. Pieces(t) = {1}
    BY <2>1
  <2> QED BY <2>2
<1>4. CASE t % 2 = 1
  <2>1. Pieces(t) = 1..2
    BY <1>4 DEF Pieces
  <2>2. Pieces(t) = {1, 2}
    BY <2>1
  <2> QED BY <2>2
<1> QED BY <1>2, <1>3, <1>4

LEMMA CutIs ==
  ASSUME NEW i \in Jobs, NEW t \in Texts, NEW p \in Providers
  PROVE  /\ Cut(i, t, p) \subseteq Chunks /\ Cut(i, t, p) # {}
         /\ \A c \in Cut(i, t, p) : c.text = t /\ c.by = p /\ c.made = i
         /\ {c.index : c \in Cut(i, t, p)} = Pieces(t)
         /\ 1 \in Pieces(t)
         /\ \A c, e \in Cut(i, t, p) : [c EXCEPT !.index = e.index] = e
<1>1. Pieces(t) \in {{1}, {1, 2}}
  BY PiecesAre
<1>2. 1 \in Pieces(t) /\ Pieces(t) \subseteq 1..2
  BY <1>1
<1>3. Cut(i, t, p) \subseteq Chunks
  BY <1>2 DEF Cut, Chunks
<1>4. \A c \in Cut(i, t, p) : c.text = t /\ c.by = p /\ c.made = i
  BY DEF Cut
<1>5. {c.index : c \in Cut(i, t, p)} = Pieces(t)
  <2>1. \A n \in Pieces(t) : [index |-> n, text |-> t, by |-> p, made |-> i] \in Cut(i, t, p)
    BY DEF Cut
  <2>2. \A c \in Cut(i, t, p) : c.index \in Pieces(t)
    BY DEF Cut
  <2>3. \A n \in Pieces(t) : [index |-> n, text |-> t, by |-> p, made |-> i].index = n
    OBVIOUS
  <2> HIDE DEF Cut
  <2> QED BY <2>1, <2>2, <2>3
<1>6. ASSUME NEW c \in Cut(i, t, p), NEW e \in Cut(i, t, p)
      PROVE  [c EXCEPT !.index = e.index] = e
  <2>1. PICK n \in Pieces(t) : c = [index |-> n, text |-> t, by |-> p, made |-> i]
    BY DEF Cut
  <2>2. PICK m \in Pieces(t) : e = [index |-> m, text |-> t, by |-> p, made |-> i]
    BY DEF Cut
  <2> QED BY <2>1, <2>2
<1>7. Cut(i, t, p) # {}
  BY <1>2 DEF Cut
<1> QED BY <1>2, <1>3, <1>4, <1>5, <1>6, <1>7

\* One shared chunk is enough.
LEMMA SharersAreEqual ==
  ASSUME NEW S, NEW R, Whole(S), Whole(R), NEW c, c \in S, c \in R
  PROVE  S = R
<1>1. PICK i \in Jobs, t \in Texts, p \in Providers : S = Cut(i, t, p)
  BY DEF Whole
<1>2. PICK k \in Jobs, u \in Texts, q \in Providers : R = Cut(k, u, q)
  BY DEF Whole
<1>3. c.text = t /\ c.by = p /\ c.made = i
  BY <1>1, CutIs
<1>4. c.text = u /\ c.by = q /\ c.made = k
  BY <1>2, CutIs
<1> QED BY <1>1, <1>2, <1>3, <1>4

\* A chunk of the first position is in every whole set but the empty one.
LEMMA WholeHasFirst ==
  ASSUME NEW S, Whole(S), S # {}
  PROVE  /\ \E c \in S : c.index = 1
         /\ IsFiniteSet(S) /\ S \subseteq Chunks
         /\ \A c, e \in S : [c EXCEPT !.index = e.index] = e
         /\ \A c \in S : {e.index : e \in S} = Pieces(c.text)
         /\ Cardinality(S) \in 1..2 /\ {e.index : e \in S} = 1..Cardinality(S)
<1>1. PICK i \in Jobs, t \in Texts, p \in Providers : S = Cut(i, t, p)
  BY DEF Whole
<1>2. 1 \in {c.index : c \in S} /\ S \subseteq Chunks /\ \A c, e \in S : [c EXCEPT !.index = e.index] = e
  BY <1>1, CutIs
<1>3. \A c \in S : {e.index : e \in S} = Pieces(c.text)
  BY <1>1, CutIs
<1>4. IsFiniteSet(S) /\ Cardinality(S) \in 1..2 /\ Pieces(t) = 1..Cardinality(S)
  <2>1. CASE Pieces(t) = {1}
    <3> DEFINE a == [index |-> 1, text |-> t, by |-> p, made |-> i]
    <3>1. S = {a}
      BY <1>1, <2>1 DEF Cut
    <3>2. IsFiniteSet(S) /\ Cardinality(S) = 1
      BY <3>1, FS_Singleton
    <3>3. 1..1 = {1}
      OBVIOUS
    <3> QED BY <2>1, <3>2, <3>3
  <2>2. CASE Pieces(t) = {1, 2}
    <3> DEFINE a == [index |-> 1, text |-> t, by |-> p, made |-> i]
               b == [index |-> 2, text |-> t, by |-> p, made |-> i]
    <3>1. S = {a} \cup {b}
      BY <1>1, <2>2 DEF Cut
    <3>2. a # b
      <4>1. a.index # b.index
        OBVIOUS
      <4> QED BY <4>1
    <3>3. b \notin {a} /\ IsFiniteSet({a}) /\ Cardinality({a}) = 1
      BY <3>2, FS_Singleton
    <3> HIDE DEF a, b
    <3>4. IsFiniteSet(S) /\ Cardinality(S) = 2
      <4>1. IsFiniteSet({a} \cup {b}) /\ Cardinality({a} \cup {b}) = Cardinality({a}) + 1
        BY <3>3, FS_AddElement
      <4> QED BY <3>1, <3>3, <4>1
    <3>5. 1..2 = {1, 2}
      OBVIOUS
    <3> QED BY <2>2, <3>4, <3>5
  <2> QED BY <2>1, <2>2, PiecesAre
<1>5. {e.index : e \in S} = Pieces(t)
  BY <1>1, CutIs
<1> QED BY <1>2, <1>3, <1>4, <1>5

LEMMA WholeMade ==
  ASSUME NEW S, Whole(S), NEW c \in S
  PROVE  c.made \in Jobs
<1>1. S # {}
  OBVIOUS
<1> QED BY <1>1, WholeHasFirst DEF Chunks

-----------------------------------------------------------------------------
(***************************************************************************)
(* What the invariant says to those who look.                              *)
(***************************************************************************)

LEMMA CountsAddUp ==
  ASSUME KbInv
  PROVE  ChunksTotal(Ready \cap InOrder) =
           Cardinality(UNION {{<<d, c>> : c \in chunks[d]} : d \in Ready \cap InOrder})
<1> DEFINE R == Ready \cap InOrder
           A == UNION {{<<d, c>> : c \in chunks[d]} : d \in R}
           B == UNION {{d} \X (1..policy[d].count) : d \in R}
           f == [x \in A |-> <<x[1], x[2].index>>]
<1>1. \A x : x \in A <=> \E d \in R : \E c \in chunks[d] : x = <<d, c>>
  OBVIOUS
<1>2. \A x : x \in B <=> \E d \in R : \E n \in 1..policy[d].count : x = <<d, n>>
  OBVIOUS
<1>3. ASSUME NEW d \in R
      PROVE  /\ policy[d].count \in 1..2
             /\ {e.index : e \in chunks[d]} = 1..policy[d].count
             /\ \A c, e \in chunks[d] : c.index = e.index => c = e
  <2>1. d \in Policies /\ Kept(d) /\ policy[d].status = "ready" /\ d \in InOrder
    BY DEF Ready
  <2>2. Whole(chunks[d]) /\ chunks[d] # {} /\ policy[d].count = Cardinality(chunks[d])
    BY <2>1 DEF KbInv, SetsAreWhole, RowDescribes
  <2>3. \A c, e \in chunks[d] : [c EXCEPT !.index = e.index] = e
    BY <2>2, WholeHasFirst
  <2>4. \A c \in chunks[d] : c \in Chunks
    BY <2>2, WholeHasFirst
  <2>5. \A c \in chunks[d] : [c EXCEPT !.index = c.index] = c
    BY <2>4 DEF Chunks
  <2>6. \A c, e \in chunks[d] : c.index = e.index => c = e
    BY <2>3, <2>5
  <2> QED BY <2>2, <2>6, WholeHasFirst
<1>4. R \subseteq Policies
  BY DEF Ready
<1> HIDE DEF R, A, B
<1>5. IsFiniteSet(B)
  <2>1. R \in SUBSET Policies /\ IsFiniteSet(Policies)
    BY <1>4, KnowledgeBounds
  <2>2. IsFiniteSet(R) /\ IsFiniteSet(1..2)
    BY <2>1, FS_Subset, FS_Interval
  <2>3. IsFiniteSet(R \X (1..2))
    BY <2>2, FS_Product
  <2>4. B \in SUBSET (R \X (1..2))
    BY <1>2, <1>3
  <2> QED BY <2>3, <2>4, FS_Subset
<1>6. f \in [A -> B]
  <2>1. ASSUME NEW x \in A
        PROVE  <<x[1], x[2].index>> \in B
    <3>1. PICK d \in R : \E c \in chunks[d] : x = <<d, c>>
      BY <1>1
    <3>2. PICK c \in chunks[d] : x = <<d, c>>
      BY <3>1
    <3>3. c.index \in 1..policy[d].count
      BY <1>3
    <3> QED BY <1>2, <3>2, <3>3
  <2> QED BY <2>1
<1>7. \A x, y \in A : f[x] = f[y] => x = y
  <2>1. SUFFICES ASSUME NEW x \in A, NEW y \in A, f[x] = f[y]
                 PROVE  x = y
    OBVIOUS
  <2>2. PICK d \in R : \E c \in chunks[d] : x = <<d, c>>
    BY <1>1
  <2>3. PICK c \in chunks[d] : x = <<d, c>>
    BY <2>2
  <2>4. PICK g \in R : \E e \in chunks[g] : y = <<g, e>>
    BY <1>1
  <2>5. PICK e \in chunks[g] : y = <<g, e>>
    BY <2>4
  <2>6. <<d, c.index>> = <<g, e.index>>
    BY <2>1, <2>3, <2>5
  <2>7. d = g /\ c.index = e.index
    BY <2>6
  <2> QED BY <1>3, <2>3, <2>5, <2>7
<1>8. \A y \in B : \E x \in A : f[x] = y
  <2>1. SUFFICES ASSUME NEW y \in B
                 PROVE  \E x \in A : f[x] = y
    OBVIOUS
  <2>2. PICK d \in R : \E n \in 1..policy[d].count : y = <<d, n>>
    BY <1>2
  <2>3. PICK n \in 1..policy[d].count : y = <<d, n>>
    BY <2>2
  <2>4. PICK c \in chunks[d] : c.index = n
    BY <1>3
  <2>5. <<d, c>> \in A
    BY <1>1
  <2> QED BY <2>3, <2>4, <2>5
<1>9. f \in Injection(A, B) /\ f \in Surjection(A, B)
  BY <1>6, <1>7, <1>8 DEF Injection, IsInjective, Surjection
<1>10. Cardinality(A) = Cardinality(B)
  BY <1>5, <1>9, FS_Injection
<1> QED BY <1>10 DEF ChunksTotal, A, B, R

LEMMA InvariantShows ==
  ASSUME KbInv
  PROVE  KbTypeOK /\ IndexDescribesText
<1>1. KbTypeOK
  <2>1. \A d \in Policies : \A c, e \in chunks[d] : [c EXCEPT !.index = e.index] = e
    BY WholeHasFirst DEF KbInv, SetsAreWhole
  <2>2. \A d \in Policies : \A c \in chunks[d] : {e.index : e \in chunks[d]} = Pieces(c.text)
    BY WholeHasFirst DEF KbInv, SetsAreWhole
  <2> QED BY <2>1, <2>2 DEF KbTypeOK, KbInv, KbTypes
<1>2. ASSUME NEW d \in Searchable
      PROVE  chunks[d] # {} /\ \A c \in chunks[d] : (c.by = provider) <=> d \notin Mismatched
  BY DEF Searchable, Mismatched, KbInv, RowDescribes
<1>3. StatsDescribeTheIndex
  BY <1>2, CountsAddUp DEF StatsDescribeTheIndex
<1>4. OldTextIsBeingReplaced
  <2>1. SUFFICES ASSUME NEW d \in Searchable \cap InOrder, NEW c \in chunks[d],
                        c.text # policy[d].text, mishaps = 0
                 PROVE  Working(d) # {}
    BY DEF OldTextIsBeingReplaced, KbInv, KbTypes
  <2>2. d \in Policies /\ Kept(d) /\ policy[d].status = "ready" /\ d \in InOrder
    BY DEF Searchable
  <2>3. Coming(d) \/ Behind(d)
    BY <2>1, <2>2 DEF KbInv, TextIsOnItsWay, OnItsWay, Fresh
  <2> QED BY <2>2, <2>3 DEF Coming, ComesBy, Behind, Working
<1> QED BY <1>1, <1>3, <1>4 DEF IndexDescribesText

LEMMA RowsAre ==
  ASSUME KbInv
  PROVE  /\ Missing \notin PolicyRows /\ Missing \notin JobRows
         /\ \A d \in Policies : Kept(d) => policy[d] \in PolicyRows
         /\ \A j \in Jobs : job[j] # Missing =>
              /\ job[j] \in JobRows /\ job[j].of \in Policies
              /\ job[j].phase \in {"queued", "started", "failing", "loaded", "embedded"}
         /\ \A j \in Jobs : Holds(j) => job[j].row \in PolicyRows /\ job[j].row.text \in Nat
         /\ scheduled \in Nat /\ mishaps \in Nat /\ Jobs \subseteq Nat /\ 0 \in Texts
         /\ Texts \subseteq Nat /\ Jobs = 1..MaxJobs
<1>1. Missing \notin PolicyRows /\ Missing \notin JobRows
  BY MissingAssumption
<1>2. \A j \in Jobs : job[j] # Missing =>
        /\ job[j] \in JobRows /\ job[j].of \in Policies
        /\ job[j].phase \in {"queued", "started", "failing", "loaded", "embedded"}
  BY DEF KbInv, KbTypes, JobRows
<1>3. \A d \in Policies : Kept(d) => policy[d] \in PolicyRows
  BY DEF KbInv, KbTypes, Kept
<1>4. scheduled \in Nat /\ mishaps \in Nat /\ Jobs \subseteq Nat /\ 0 \in Texts /\ Texts \subseteq Nat
  BY BoundsAreNat DEF KbInv, KbTypes, Jobs, Texts
<1>5. \A j \in Jobs : Holds(j) => job[j].row \in PolicyRows
  BY <1>2 DEF JobRows, Holds
<1>6. \A r \in PolicyRows : r.text \in Nat
  BY <1>4 DEF PolicyRows
<1> QED BY <1>1, <1>2, <1>3, <1>4, <1>5, <1>6 DEF Jobs

\* What was embedded is refused by the unique index exactly when there are
\* chunks and they are not those it deletes.
LEMMA RefusedIsTaken ==
  ASSUME KbInv, NEW j \in Jobs, Embedded(j)
  PROVE  /\ IndexTaken(j) <=> Refused(j)
         /\ Holds(j) /\ Seen(j) = job[j].deleted
         /\ job[j].of \in Policies /\ job[j].row \in PolicyRows /\ job[j].row.text \in Texts
         /\ job[j].by \in Providers
         /\ NewChunks(j) = Cut(j, job[j].row.text, job[j].by)
<1> DEFINE d == job[j].of
<1>1. job[j] \in JobRows
  BY DEF Embedded, KbInv, KbTypes
<1>2. d \in Policies /\ job[j].row \in PolicyRows /\ job[j].by \in Providers
  BY <1>1 DEF Embedded, JobRows
<1>3. job[j].row.text \in Texts
  BY <1>2 DEF PolicyRows
<1>4. NewChunks(j) = Cut(j, job[j].row.text, job[j].by)
  BY DEF NewChunks, Cut
<1>5. Whole(chunks[d]) /\ Whole(job[j].deleted)
  BY <1>2 DEF KbInv, SetsAreWhole
<1>6. PICK n \in NewChunks(j) : n.index = 1
  BY <1>2, <1>3, <1>4, CutIs
<1>7. Holds(j) /\ Seen(j) = job[j].deleted
  BY DEF Holds, Seen, Embedded
<1>8. ASSUME Refused(j)
      PROVE  IndexTaken(j)
  <2>1. PICK c \in chunks[d] : c.index = 1
    BY <1>5, <1>8, WholeHasFirst DEF Refused
  <2>2. c \notin job[j].deleted
    BY <1>5, <1>7, <1>8, SharersAreEqual DEF Refused
  <2> QED BY <1>6, <2>1, <2>2 DEF IndexTaken
<1>9. IndexTaken(j) => Refused(j)
  BY <1>7 DEF IndexTaken, Refused
<1> QED BY <1>2, <1>3, <1>4, <1>7, <1>8, <1>9

(***************************************************************************)
(* A step that inserts no chunks leaves what is known of every job but     *)
(* those of S as it was.                                                   *)
(***************************************************************************)
LEMMA OthersStay ==
  ASSUME KbInv, NEW S,
         \A d \in Policies : chunks'[d] = chunks[d] \/ (chunks'[d] = {} /\ policy'[d] = Missing),
         \A j \in Jobs \ S : Holds(j)' => Holds(j) /\ job'[j] = job[j] /\ provider' = provider,
         \A j \in Jobs \ S :
           Holds(j)' /\ policy'[job[j].of] # Missing =>
             /\ Kept(job[j].of) /\ policy[job[j].of].text <= policy'[job[j].of].text
             /\ policy'[job[j].of].text \in Nat
             /\ policy'[job[j].of].by = policy[job[j].of].by
             /\ policy'[job[j].of].count = policy[job[j].of].count,
         overtaken' = overtaken, scheduled' \in Nat, scheduled <= scheduled',
         \A j \in Jobs : j <= scheduled /\ job[j] = Missing => job'[j] = Missing
  PROVE  /\ \A d \in Policies : (Whole(chunks[d]) /\ Over(chunks[d]))'
         /\ \A j \in Jobs \ S :
              Embedded(j)' => Whole(job'[j].deleted) /\ Over(job[j].deleted)'
         /\ \A j \in Jobs \ S : Knows(j)'
         /\ \A j, k \in Jobs \ S : SawMore(j, k)'
         /\ \A R : Whole(R) /\ Over(R) =>
              \A c \in R : c.made <= scheduled' /\ job'[c.made] = Missing
<1>1. ASSUME NEW R, Whole(R), Over(R)
      PROVE  \A c \in R : c.made <= scheduled' /\ job'[c.made] = Missing
  <2>1. \A c \in R : c.made \in Jobs
    BY <1>1, WholeMade
  <2>2. scheduled \in Nat /\ \A i \in Jobs : i \in Nat
    BY RowsAre
  <2> QED BY <1>1, <2>1, <2>2 DEF Over
<1>2. ASSUME NEW d \in Policies
      PROVE  (Whole(chunks[d]) /\ Over(chunks[d]))'
  <2>1. Whole(chunks[d]) /\ Over(chunks[d])
    BY DEF KbInv, SetsAreWhole
  <2>2. CASE chunks'[d] = chunks[d]
    BY <1>1, <2>1, <2>2 DEF Whole, Over
  <2>3. CASE chunks'[d] = {}
    BY <2>3 DEF Whole, Over
  <2> QED BY <2>2, <2>3
<1>3. ASSUME NEW j \in Jobs \ S, Embedded(j)'
      PROVE  Whole(job'[j].deleted) /\ Over(job[j].deleted)'
  <2>1. Embedded(j) /\ job'[j] = job[j]
    BY <1>3 DEF Embedded, Holds
  <2>2. Whole(job[j].deleted) /\ Over(job[j].deleted)
    BY <2>1 DEF KbInv, SetsAreWhole
  <2> QED BY <1>1, <2>1, <2>2 DEF Over
<1>4. ASSUME NEW j \in Jobs \ S, Holds(j)', policy'[job[j].of] # Missing
      PROVE  Seen(j)' = Seen(j) /\ (Refused(j)' <=> Refused(j))
  <2>1. Holds(j) /\ job'[j] = job[j] /\ job[j].of \in Policies
    BY <1>4, RowsAre DEF Holds
  <2>2. chunks'[job[j].of] = chunks[job[j].of]
    BY <1>4, <2>1
  <2> QED BY <2>1, <2>2 DEF Seen, Refused
<1>5. ASSUME NEW j \in Jobs \ S
      PROVE  Knows(j)'
  <2>1. SUFFICES ASSUME Holds(j)' PROVE Knows(j)'
    BY DEF Knows
  <2>2. Holds(j) /\ job'[j] = job[j] /\ job[j].of \in Policies /\ provider' = provider
        /\ job[j].row.text \in Nat
    BY <2>1, RowsAre DEF Holds
  <2>3. PICK d, r : d = job[j].of /\ r = job[j].row
    OBVIOUS
  <2>4. /\ Kept(d) => r.text <= policy[d].text /\ policy[d].by \in {r.by, provider}
        /\ Embedded(j) => job[j].by = provider
        /\ j \notin overtaken =>
             /\ \A c \in Seen(j) : c.text <= r.text
             /\ Kept(d) => Refused(j) \/ policy[d].count = r.count
    BY <2>2, <2>3 DEF KbInv, Knows
  <2>5. Embedded(j)' => Embedded(j)
    BY <2>2 DEF Embedded
  <2>6. CASE policy'[d] # Missing
    <3>1. /\ Kept(d) /\ policy[d].text <= policy'[d].text /\ policy'[d].text \in Nat
          /\ policy'[d].by = policy[d].by /\ policy'[d].count = policy[d].count
      BY <2>1, <2>3, <2>6
    <3>2. policy[d].text \in Nat
      BY <2>2, <2>3, <3>1, RowsAre DEF PolicyRows
    <3>3. r.text <= policy'[d].text
      BY <2>2, <2>3, <2>4, <3>1, <3>2
    <3>4. Seen(j)' = Seen(j) /\ (Refused(j)' <=> Refused(j))
      BY <1>4, <2>1, <2>3, <2>6
    <3> QED BY <2>2, <2>3, <2>4, <2>5, <2>6, <3>1, <3>3, <3>4 DEF Knows, Kept
  <2>7. CASE policy'[d] = Missing
    <3>1. Seen(j)' = Seen(j) \/ Seen(j)' = {}
      BY <2>2, <2>3, <2>7 DEF Seen
    <3> QED BY <2>2, <2>3, <2>4, <2>5, <2>7, <3>1 DEF Knows, Kept
  <2> QED BY <2>6, <2>7
<1>6. ASSUME NEW j \in Jobs \ S, NEW k \in Jobs \ S
      PROVE  SawMore(j, k)'
  <2>1. SUFFICES ASSUME Holds(j)', Holds(k)', job'[j].of = job'[k].of, j \notin overtaken,
                        job'[j].row.text < job'[k].row.text, Refused(k)'
                 PROVE  Refused(j)'
    BY DEF SawMore
  <2>2. Holds(j) /\ job'[j] = job[j] /\ Holds(k) /\ job'[k] = job[k] /\ job[k].of \in Policies
    BY <2>1, RowsAre DEF Holds
  <2>3. chunks'[job[k].of] # {}
    BY <2>1, <2>2 DEF Refused
  <2>4. policy'[job[k].of] # Missing \/ chunks'[job[k].of] = chunks[job[k].of]
    BY <2>2, <2>3
  <2>5. (Refused(j)' <=> Refused(j)) /\ (Refused(k)' <=> Refused(k))
    BY <2>1, <2>2, <2>3 DEF Refused, Seen
  <2> QED BY <2>1, <2>2, <2>5 DEF KbInv, SawMore
<1> QED BY <1>1, <1>2, <1>3, <1>5, <1>6

\* A document nobody works on in this step is as much on its way as it was.
LEMMA OnItsWayStays ==
  ASSUME NEW e \in Policies, OnItsWay(e), chunks'[e] = chunks[e],
         overtaken \subseteq overtaken', policy'[e].text = policy[e].text,
         policy'[e].status = policy[e].status \/ policy'[e].status # "ready",
         \A k \in Jobs : job[k] # Missing /\ job[k].of = e => job'[k] = job[k],
         \A k \in Jobs : Holds(k)' /\ job'[k].of = e => job'[k] = job[k]
  PROVE  OnItsWay(e)'
<1>1. Fresh(e) => Fresh(e)'
  BY DEF Fresh
<1>2. Coming(e) => Coming(e)'
  BY DEF Coming, ComesBy, Holds
<1>3. ASSUME Behind(e)
      PROVE  Behind(e)'
  <2>1. ASSUME NEW k \in Jobs, Holds(k)', job'[k].of = e
        PROVE  Refused(k)' \/ k \in overtaken'
    <3>1. Holds(k) /\ job'[k] = job[k]
      BY <2>1 DEF Holds
    <3>2. Refused(k) \/ k \in overtaken
      BY <1>3, <2>1, <3>1 DEF Behind
    <3> QED BY <2>1, <3>1, <3>2 DEF Refused, Seen
  <2>2. (e \notin InOrder)' \/ policy'[e].status # "ready"
        \/ \E j \in Jobs : job'[j] # Missing /\ job'[j].of = e /\ job'[j].phase = "failing"
    BY <1>3 DEF Behind, InOrder
  <2> QED BY <2>1, <2>2 DEF Behind
<1> QED BY <1>1, <1>2, <1>3 DEF OnItsWay

-----------------------------------------------------------------------------
(***************************************************************************)
(* The steps.                                                              *)
(***************************************************************************)

LEMMA EditStep ==
  ASSUME KbInv, edit' \in [Policies -> PolicyRows \cup {Missing}],
         UNCHANGED <<policy, chunks, job, scheduled, provider, mishaps, overtaken>>
  PROVE  KbInv'
<1>1. KbTypes'
  BY DEF KbInv, KbTypes
<1>2. SetsAreWhole'
  BY DEF KbInv, SetsAreWhole, Whole, Over, Embedded
<1>3. JobsAreScheduled' /\ \A d \in Policies : RowDescribes(d)'
  BY DEF KbInv, JobsAreScheduled, RowDescribes, Kept, InOrder
<1>4. \A j \in Jobs : Knows(j)'
  BY DEF KbInv, Knows, Embedded, Holds, Kept, Seen, Refused
<1>5. \A j, k \in Jobs : SawMore(j, k)'
  BY DEF KbInv, SawMore, Holds, Seen, Refused
<1>6. TextIsOnItsWay'
  BY OnItsWayStays DEF KbInv, TextIsOnItsWay, Kept
<1> QED BY <1>1, <1>2, <1>3, <1>4, <1>5, <1>6 DEF KbInv

\* What a request does to the rows and the schedule: no chunk is inserted, no
\* job goes on.
LEMMA RequestStep ==
  ASSUME KbInv, NEW d \in Policies,
         policy' \in [Policies -> PolicyRows \cup {Missing}],
         \A e \in Policies : e # d => policy'[e] = policy[e] /\ chunks'[e] = chunks[e],
         chunks' \in [Policies -> SUBSET Chunks],
         chunks'[d] = chunks[d] \/ (chunks'[d] = {} /\ policy'[d] = Missing),
         edit' \in [Policies -> PolicyRows \cup {Missing}],
         UNCHANGED <<provider, mishaps, overtaken>>,
         job' \in [Jobs -> JobRows \cup {Missing}], scheduled' \in 0..MaxJobs,
         scheduled <= scheduled', JobsAreScheduled',
         \A j \in Jobs : Holds(j)' => Holds(j) /\ job'[j] = job[j],
         \A j \in Jobs : j <= scheduled /\ job[j] = Missing => job'[j] = Missing,
         \A j \in Jobs : job[j] # Missing => job'[j] = job[j],
         \A j \in Jobs : Holds(j) /\ job[j].of = d /\ policy'[d] # Missing =>
           /\ Kept(d) /\ policy[d].text <= policy'[d].text
           /\ policy'[d].by = policy[d].by /\ policy'[d].count = policy[d].count,
         RowDescribes(d)', Kept(d)' => mishaps # 0 \/ OnItsWay(d)'
  PROVE  KbInv'
<1>1. KbTypes'
  BY DEF KbInv, KbTypes
<1>2. scheduled' \in Nat
  BY BoundsAreNat
<1>3. \A e \in Policies : policy'[e] # Missing => policy'[e].text \in Nat
  BY RowsAre DEF PolicyRows
<1>4. \A j \in Jobs \ {} : Holds(j)' => Holds(j) /\ job'[j] = job[j] /\ provider' = provider
  OBVIOUS
<1>5. ASSUME NEW j \in Jobs \ {}, Holds(j)', policy'[job[j].of] # Missing
      PROVE  /\ Kept(job[j].of) /\ policy[job[j].of].text <= policy'[job[j].of].text
             /\ policy'[job[j].of].text \in Nat
             /\ policy'[job[j].of].by = policy[job[j].of].by
             /\ policy'[job[j].of].count = policy[job[j].of].count
  <2>1. Holds(j) /\ job[j].of \in Policies
    BY <1>5, RowsAre DEF Holds
  <2>2. CASE job[j].of = d
    BY <1>3, <1>5, <2>1, <2>2
  <2>3. CASE job[j].of # d
    <3>1. policy'[job[j].of] = policy[job[j].of]
      BY <2>1, <2>3
    <3> QED BY <1>3, <1>5, <2>1, <3>1 DEF Kept
  <2> QED BY <2>2, <2>3
<1>6. \A e \in Policies : chunks'[e] = chunks[e] \/ (chunks'[e] = {} /\ policy'[e] = Missing)
  OBVIOUS
<1>7. /\ \A e \in Policies : (Whole(chunks[e]) /\ Over(chunks[e]))'
      /\ \A j \in Jobs \ {} : Embedded(j)' => Whole(job'[j].deleted) /\ Over(job[j].deleted)'
      /\ \A j \in Jobs \ {} : Knows(j)'
      /\ \A j, k \in Jobs \ {} : SawMore(j, k)'
  <2>1. \A j \in Jobs \ {} :
           Holds(j)' /\ policy'[job[j].of] # Missing =>
             /\ Kept(job[j].of) /\ policy[job[j].of].text <= policy'[job[j].of].text
             /\ policy'[job[j].of].text \in Nat
             /\ policy'[job[j].of].by = policy[job[j].of].by
             /\ policy'[job[j].of].count = policy[job[j].of].count
    BY <1>5
  <2> QED BY <1>2, <1>4, <1>6, <2>1, OthersStay
<1>8. SetsAreWhole'
  BY <1>7 DEF SetsAreWhole, Whole
<1>9. \A e \in Policies : RowDescribes(e)'
  <2>1. ASSUME NEW e \in Policies, e # d
        PROVE  RowDescribes(e)'
    <3>1. RowDescribes(e) /\ policy'[e] = policy[e] /\ chunks'[e] = chunks[e]
      BY <2>1 DEF KbInv
    <3>2. (e \in InOrder)' <=> e \in InOrder
      BY <3>1 DEF InOrder
    <3> QED BY <3>1, <3>2 DEF RowDescribes, Kept
  <2> QED BY <2>1
<1>10. TextIsOnItsWay'
  <2>1. SUFFICES ASSUME mishaps = 0, NEW e \in Policies, e # d, Kept(e)
                 PROVE  OnItsWay(e)'
    BY DEF TextIsOnItsWay, Kept
  <2>2. OnItsWay(e) /\ policy'[e] = policy[e] /\ chunks'[e] = chunks[e]
    BY <2>1 DEF KbInv, TextIsOnItsWay
  <2> QED BY <2>1, <2>2, OnItsWayStays
<1> QED BY <1>1, <1>7, <1>8, <1>9, <1>10 DEF KbInv

\* Nothing is scheduled.
LEMMA RowStep ==
  ASSUME KbInv, NEW d \in Policies,
         policy' \in [Policies -> PolicyRows \cup {Missing}],
         \A e \in Policies : e # d => policy'[e] = policy[e] /\ chunks'[e] = chunks[e],
         chunks' \in [Policies -> SUBSET Chunks],
         chunks'[d] = chunks[d] \/ (chunks'[d] = {} /\ policy'[d] = Missing),
         edit' \in [Policies -> PolicyRows \cup {Missing}],
         UNCHANGED <<job, scheduled, provider, mishaps, overtaken>>,
         policy'[d] # Missing =>
           /\ Kept(d) /\ policy[d].text <= policy'[d].text
           /\ policy'[d].by = policy[d].by /\ policy'[d].count = policy[d].count,
         RowDescribes(d)', Kept(d)' => mishaps # 0 \/ OnItsWay(d)'
  PROVE  KbInv'
<1>1. job' \in [Jobs -> JobRows \cup {Missing}] /\ scheduled' \in 0..MaxJobs /\ JobsAreScheduled'
  BY DEF KbInv, KbTypes, JobsAreScheduled
<1>2. scheduled <= scheduled' /\ \A j \in Jobs : Holds(j)' => Holds(j) /\ job'[j] = job[j]
  BY RowsAre DEF Holds
<1>3. \A j \in Jobs : job[j] # Missing => job'[j] = job[j]
  OBVIOUS
<1>4. \A j \in Jobs : j <= scheduled /\ job[j] = Missing => job'[j] = Missing
  OBVIOUS
<1>5. UNCHANGED <<provider, mishaps, overtaken>>
  OBVIOUS
<1>6. \A j \in Jobs : Holds(j) /\ job[j].of = d /\ policy'[d] # Missing =>
        /\ Kept(d) /\ policy[d].text <= policy'[d].text
        /\ policy'[d].by = policy[d].by /\ policy'[d].count = policy[d].count
  OBVIOUS
<1> QED BY <1>1, <1>2, <1>3, <1>4, <1>5, <1>6, RequestStep

LEMMA PublishStep ==
  ASSUME KbInv, NEW d \in Policies, CommitPublish(d)
  PROVE  KbInv'
<1> DEFINE row == [policy[d] EXCEPT !.published = ~ edit[d].published]
<1>1. policy[d] \in PolicyRows /\ edit[d] \in PolicyRows
  BY RowsAre DEF CommitPublish, KbInv, KbTypes
<1>2. /\ row \in PolicyRows /\ row.text = policy[d].text /\ row.status = policy[d].status
      /\ row.count = policy[d].count /\ row.by = policy[d].by
  BY <1>1 DEF PolicyRows
<1>3. /\ policy' = [policy EXCEPT ![d] = row] /\ edit' = [edit EXCEPT ![d] = Missing]
      /\ Kept(d) /\ UNCHANGED <<chunks, job, scheduled, provider, mishaps, overtaken>>
  BY DEF CommitPublish, KbInv, KbTypes
<1> HIDE DEF row
<1>4. /\ policy' \in [Policies -> PolicyRows \cup {Missing}] /\ policy'[d] = row
      /\ \A e \in Policies : e # d => policy'[e] = policy[e]
      /\ edit' \in [Policies -> PolicyRows \cup {Missing}] /\ chunks' \in [Policies -> SUBSET Chunks]
  BY <1>2, <1>3 DEF KbInv, KbTypes
<1>5. policy[d].text <= policy'[d].text
  <2>1. policy[d].text \in Nat
    BY <1>1, RowsAre DEF PolicyRows
  <2> QED BY <1>2, <1>4, <2>1
<1>6. RowDescribes(d)'
  <2>1. RowDescribes(d) /\ ((d \in InOrder)' <=> d \in InOrder) /\ Kept(d)'
    BY <1>2, <1>3, <1>4, RowsAre DEF KbInv, InOrder, Kept
  <2> QED BY <1>2, <1>3, <1>4, <2>1 DEF RowDescribes
<1>7. mishaps # 0 \/ OnItsWay(d)'
  <2>1. mishaps = 0 => OnItsWay(d)
    BY <1>3 DEF KbInv, TextIsOnItsWay
  <2> QED BY <1>2, <1>3, <1>4, <2>1, OnItsWayStays
<1>8. /\ policy'[d].by = policy[d].by /\ policy'[d].count = policy[d].count
      /\ \A e \in Policies : e # d => policy'[e] = policy[e] /\ chunks'[e] = chunks[e]
  BY <1>2, <1>3, <1>4
<1>9. UNCHANGED <<job, scheduled, provider, mishaps, overtaken>> /\ chunks'[d] = chunks[d]
  BY <1>3
<1> QED BY <1>3, <1>4, <1>5, <1>6, <1>7, <1>8, <1>9, RowStep

LEMMA DeleteStep ==
  ASSUME KbInv, NEW d \in Policies, DeletePolicy(d)
  PROVE  KbInv'
<1>1. /\ policy' = [policy EXCEPT ![d] = Missing] /\ chunks' = [chunks EXCEPT ![d] = {}]
      /\ UNCHANGED <<job, scheduled, edit, provider, mishaps, overtaken>>
  BY DEF DeletePolicy
<1>2. /\ policy' \in [Policies -> PolicyRows \cup {Missing}] /\ chunks' \in [Policies -> SUBSET Chunks]
      /\ policy'[d] = Missing /\ chunks'[d] = {}
      /\ \A e \in Policies : e # d => policy'[e] = policy[e] /\ chunks'[e] = chunks[e]
      /\ edit' \in [Policies -> PolicyRows \cup {Missing}]
  BY <1>1 DEF KbInv, KbTypes
<1>3. RowDescribes(d)' /\ ~ Kept(d)'
  BY <1>2 DEF RowDescribes, Kept
<1>4. UNCHANGED <<job, scheduled, provider, mishaps, overtaken>>
  BY <1>1
<1> QED BY <1>2, <1>3, <1>4, RowStep

LEMMA ScheduleStep ==
  ASSUME KbInv, NEW d \in Policies, Schedule(d)
  PROVE  /\ job' \in [Jobs -> JobRows \cup {Missing}] /\ scheduled' \in 0..MaxJobs
         /\ scheduled <= scheduled' /\ JobsAreScheduled'
         /\ \A j \in Jobs : Holds(j)' => Holds(j) /\ job'[j] = job[j]
         /\ \A j \in Jobs : j <= scheduled /\ job[j] = Missing => job'[j] = Missing
         /\ \A j \in Jobs : job[j] # Missing => job'[j] = job[j]
         /\ OnItsWay(d)'
<1> DEFINE n == scheduled + 1
           new == [of |-> d, phase |-> "queued"]
<1>1. n \in Jobs /\ scheduled' = n /\ job' = [job EXCEPT ![n] = new]
  BY DEF Schedule
<1>2. new \in JobRows /\ new # Missing
  <2>1. new \in JobRows
    BY DEF JobRows
  <2> QED BY <2>1, RowsAre
<1>3. scheduled \in Nat /\ Jobs = 1..MaxJobs /\ MaxJobs \in Nat
  BY RowsAre, BoundsAreNat
<1>4. job[n] = Missing
  BY <1>1, <1>3 DEF KbInv, JobsAreScheduled
<1>5. job' \in [Jobs -> JobRows \cup {Missing}] /\ job'[n] = new /\ \A j \in Jobs : j # n => job'[j] = job[j]
  BY <1>1, <1>2 DEF KbInv, KbTypes
<1>6. JobsAreScheduled'
  BY <1>1, <1>3, <1>5 DEF KbInv, JobsAreScheduled
<1>7. \A j \in Jobs : Holds(j)' => Holds(j) /\ job'[j] = job[j]
  BY <1>5 DEF Holds
<1>8. \A j \in Jobs : j <= scheduled => j # n
  BY <1>3
<1>9. OnItsWay(d)'
  BY <1>1, <1>2, <1>5 DEF OnItsWay, Coming, ComesBy
<1> QED BY <1>1, <1>2, <1>3, <1>4, <1>5, <1>6, <1>7, <1>8, <1>9

LEMMA CreateStep ==
  ASSUME KbInv, NEW d \in Policies, NEW published \in BOOLEAN, CreatePolicy(d, published)
  PROVE  KbInv'
<1> DEFINE row == [text |-> 0, status |-> "pending", published |-> published,
                   count |-> 0, by |-> Missing]
<1>1. /\ ~ Kept(d) /\ Working(d) = {} /\ policy' = [policy EXCEPT ![d] = row] /\ Schedule(d)
      /\ UNCHANGED <<chunks, edit, provider, mishaps, overtaken>>
  BY DEF CreatePolicy
<1>2. row \in PolicyRows
  BY RowsAre DEF PolicyRows, IngestStatuses
<1>3. /\ policy' \in [Policies -> PolicyRows \cup {Missing}]
      /\ policy'[d] = row /\ \A e \in Policies : e # d => policy'[e] = policy[e]
      /\ edit' \in [Policies -> PolicyRows \cup {Missing}] /\ chunks' \in [Policies -> SUBSET Chunks]
  BY <1>1, <1>2 DEF KbInv, KbTypes
<1>4. chunks[d] = {}
  BY <1>1 DEF KbInv, RowDescribes
<1>5. RowDescribes(d)'
  BY <1>1, <1>3, <1>4 DEF RowDescribes
<1>6. \A j \in Jobs : ~ (Holds(j) /\ job[j].of = d)
  BY <1>1 DEF Working, Holds
<1>7. /\ job' \in [Jobs -> JobRows \cup {Missing}] /\ scheduled' \in 0..MaxJobs
      /\ scheduled <= scheduled' /\ JobsAreScheduled'
      /\ \A j \in Jobs : Holds(j)' => Holds(j) /\ job'[j] = job[j]
      /\ \A j \in Jobs : j <= scheduled /\ job[j] = Missing => job'[j] = Missing
      /\ \A j \in Jobs : job[j] # Missing => job'[j] = job[j]
      /\ OnItsWay(d)'
  BY <1>1, ScheduleStep
<1>8. /\ \A e \in Policies : e # d => policy'[e] = policy[e] /\ chunks'[e] = chunks[e]
      /\ chunks'[d] = chunks[d]
  BY <1>1, <1>3
<1>9. UNCHANGED <<provider, mishaps, overtaken>>
  BY <1>1
<1>10. \A j \in Jobs : Holds(j) /\ job[j].of = d /\ policy'[d] # Missing =>
         /\ Kept(d) /\ policy[d].text <= policy'[d].text
         /\ policy'[d].by = policy[d].by /\ policy'[d].count = policy[d].count
  BY <1>6
<1> QED BY <1>3, <1>5, <1>7, <1>8, <1>9, <1>10, RequestStep

LEMMA CommitEditStep ==
  ASSUME KbInv, NEW d \in Policies, CommitEdit(d)
  PROVE  KbInv'
<1> DEFINE row == [policy[d] EXCEPT !.text = @ + 1,
                     !.status = IF edit[d].status # "pending" THEN "pending" ELSE @]
<1>1. /\ Kept(d) /\ policy[d].text < MaxEdits /\ policy' = [policy EXCEPT ![d] = row] /\ Schedule(d)
      /\ UNCHANGED <<chunks, provider, mishaps, overtaken>>
      /\ edit' = [edit EXCEPT ![d] = Missing]
  BY DEF CommitEdit, KbInv, KbTypes
<1>2. policy[d] \in PolicyRows
  BY <1>1, RowsAre
<1>3. /\ row \in PolicyRows /\ row.text = policy[d].text + 1 /\ row.count = policy[d].count
      /\ row.by = policy[d].by /\ row.status \in {"pending", policy[d].status}
  <2>1. policy[d].text + 1 \in Texts /\ policy[d].status \in IngestStatuses
    BY <1>1, <1>2, BoundsAreNat DEF PolicyRows, Texts
  <2> QED BY <1>2, <2>1 DEF PolicyRows, IngestStatuses
<1> HIDE DEF row
<1>4. /\ policy' \in [Policies -> PolicyRows \cup {Missing}]
      /\ policy'[d] = row /\ \A e \in Policies : e # d => policy'[e] = policy[e]
      /\ edit' \in [Policies -> PolicyRows \cup {Missing}] /\ chunks' \in [Policies -> SUBSET Chunks]
  BY <1>1, <1>3 DEF KbInv, KbTypes
<1>5. policy[d].text \in Nat /\ policy[d].text <= policy'[d].text
  <2>1. policy[d].text \in Nat
    BY <1>2, RowsAre DEF PolicyRows
  <2> QED BY <1>3, <1>4, <2>1
<1>6. RowDescribes(d)'
  <2>1. RowDescribes(d) /\ ((d \in InOrder)' <=> d \in InOrder) /\ Kept(d)'
    BY <1>1, <1>3, <1>4, RowsAre DEF KbInv, InOrder, Kept
  <2>2. \A c \in chunks[d] : c.text \in Nat
    BY RowsAre DEF KbInv, KbTypes, Chunks
  <2>3. \A c \in chunks[d] : c.by = policy'[d].by /\ c.text <= policy'[d].text
    BY <1>1, <1>3, <1>4, <1>5, <2>1, <2>2 DEF RowDescribes
  <2> QED BY <1>1, <1>3, <1>4, <2>1, <2>3 DEF RowDescribes
<1>7. /\ job' \in [Jobs -> JobRows \cup {Missing}] /\ scheduled' \in 0..MaxJobs
      /\ scheduled <= scheduled' /\ JobsAreScheduled'
      /\ \A j \in Jobs : Holds(j)' => Holds(j) /\ job'[j] = job[j]
      /\ \A j \in Jobs : j <= scheduled /\ job[j] = Missing => job'[j] = Missing
      /\ \A j \in Jobs : job[j] # Missing => job'[j] = job[j]
      /\ OnItsWay(d)'
  BY <1>1, ScheduleStep
<1>8. /\ \A e \in Policies : e # d => policy'[e] = policy[e] /\ chunks'[e] = chunks[e]
      /\ chunks'[d] = chunks[d]
  BY <1>1, <1>4
<1>9. UNCHANGED <<provider, mishaps, overtaken>>
  BY <1>1
<1>10. \A j \in Jobs : Holds(j) /\ job[j].of = d /\ policy'[d] # Missing =>
         /\ Kept(d) /\ policy[d].text <= policy'[d].text
         /\ policy'[d].by = policy[d].by /\ policy'[d].count = policy[d].count
  BY <1>1, <1>3, <1>4, <1>5
<1> QED BY <1>4, <1>6, <1>7, <1>8, <1>9, <1>10, RequestStep

LEMMA ReingestStep ==
  ASSUME KbInv, NEW d \in Policies, Reingest(d)
  PROVE  KbInv'
<1>1. /\ Kept(d) /\ Schedule(d) /\ policy' = policy /\ chunks' = chunks /\ edit' = edit
      /\ UNCHANGED <<provider, mishaps, overtaken>>
  BY DEF Reingest
<1>2. /\ policy' \in [Policies -> PolicyRows \cup {Missing}]
      /\ edit' \in [Policies -> PolicyRows \cup {Missing}] /\ chunks' \in [Policies -> SUBSET Chunks]
  BY <1>1 DEF KbInv, KbTypes
<1>3. policy[d].text \in Nat
  BY <1>1, RowsAre DEF PolicyRows
<1>4. RowDescribes(d)'
  BY <1>1 DEF KbInv, RowDescribes, InOrder, Kept
<1>5. /\ job' \in [Jobs -> JobRows \cup {Missing}] /\ scheduled' \in 0..MaxJobs
      /\ scheduled <= scheduled' /\ JobsAreScheduled'
      /\ \A j \in Jobs : Holds(j)' => Holds(j) /\ job'[j] = job[j]
      /\ \A j \in Jobs : j <= scheduled /\ job[j] = Missing => job'[j] = Missing
      /\ \A j \in Jobs : job[j] # Missing => job'[j] = job[j]
      /\ OnItsWay(d)'
  BY <1>1, ScheduleStep
<1>6. /\ \A e \in Policies : e # d => policy'[e] = policy[e] /\ chunks'[e] = chunks[e]
      /\ chunks'[d] = chunks[d]
  BY <1>1
<1>7. UNCHANGED <<provider, mishaps, overtaken>>
  BY <1>1
<1>8. \A j \in Jobs : Holds(j) /\ job[j].of = d /\ policy'[d] # Missing =>
         /\ Kept(d) /\ policy[d].text <= policy'[d].text
         /\ policy'[d].by = policy[d].by /\ policy'[d].count = policy[d].count
  BY <1>1, <1>3
<1> QED BY <1>2, <1>4, <1>5, <1>6, <1>7, <1>8, RequestStep

(***************************************************************************)
(* A step of one job that reads and inserts nothing: the job goes on,      *)
(* fails or ends, and of the rows at most the status of its document       *)
(* changes, never to "ready".                                              *)
(***************************************************************************)
LEMMA JobGoesOn ==
  ASSUME KbInv, NEW j \in Jobs, NEW d \in Policies, job[j] # Missing, job[j].of = d,
         job' \in [Jobs -> JobRows \cup {Missing}],
         \A k \in Jobs : k # j => job'[k] = job[k],
         job'[j] # Missing => job'[j].of = d /\ job'[j].phase \notin {"loaded", "embedded"},
         policy' \in [Policies -> PolicyRows \cup {Missing}],
         \A e \in Policies : /\ policy'[e] = policy[e] \/ e = d
                             /\ Kept(e)' <=> Kept(e)
                             /\ Kept(e) => /\ policy'[e].text = policy[e].text
                                           /\ policy'[e].count = policy[e].count
                                           /\ policy'[e].by = policy[e].by
                                           /\ \/ policy'[e].status = policy[e].status
                                              \/ policy'[e].status # "ready",
         UNCHANGED <<chunks, scheduled, edit, provider, overtaken>>,
         mishaps' \in mishaps..MaxMishaps,
         mishaps' = 0 /\ Kept(d) => OnItsWay(d)'
  PROVE  KbInv'
<1>1. KbTypes'
  <2>1. mishaps' \in 0..MaxMishaps
    BY BoundsAreNat, RowsAre
  <2> QED BY <2>1 DEF KbInv, KbTypes
<1>2. \A k \in Jobs \ {} : Holds(k)' => Holds(k) /\ job'[k] = job[k] /\ provider' = provider
  BY DEF Holds
<1>3. \A k \in Jobs \ {} :
        Holds(k)' /\ policy'[job[k].of] # Missing =>
          /\ Kept(job[k].of) /\ policy[job[k].of].text <= policy'[job[k].of].text
          /\ policy'[job[k].of].text \in Nat
          /\ policy'[job[k].of].by = policy[job[k].of].by
          /\ policy'[job[k].of].count = policy[job[k].of].count
  <2>1. SUFFICES ASSUME NEW k \in Jobs, Holds(k)', policy'[job[k].of] # Missing
                 PROVE  /\ Kept(job[k].of) /\ policy[job[k].of].text <= policy'[job[k].of].text
                        /\ policy'[job[k].of].text \in Nat
                        /\ policy'[job[k].of].by = policy[job[k].of].by
                        /\ policy'[job[k].of].count = policy[job[k].of].count
    OBVIOUS
  <2>2. PICK e \in Policies : e = job[k].of
    BY <1>2, <2>1, RowsAre DEF Holds
  <2>3. Kept(e)
    BY <2>1, <2>2 DEF Kept
  <2>4. policy[e].text \in Nat
    BY <2>3, RowsAre DEF PolicyRows
  <2> QED BY <2>2, <2>3, <2>4
<1>4. \A e \in Policies : chunks'[e] = chunks[e] \/ (chunks'[e] = {} /\ policy'[e] = Missing)
  OBVIOUS
<1>5. scheduled' \in Nat /\ scheduled <= scheduled' /\ overtaken' = overtaken
  BY RowsAre
<1>6. \A k \in Jobs : k <= scheduled /\ job[k] = Missing => job'[k] = Missing
  OBVIOUS
<1>7. /\ \A e \in Policies : (Whole(chunks[e]) /\ Over(chunks[e]))'
      /\ \A k \in Jobs \ {} : Embedded(k)' => Whole(job'[k].deleted) /\ Over(job[k].deleted)'
      /\ \A k \in Jobs \ {} : Knows(k)'
      /\ \A i, k \in Jobs \ {} : SawMore(i, k)'
  BY <1>2, <1>3, <1>4, <1>5, <1>6, OthersStay
<1>8. SetsAreWhole'
  BY <1>7 DEF SetsAreWhole, Whole
<1>9. JobsAreScheduled'
  BY DEF KbInv, JobsAreScheduled
<1>10. \A e \in Policies : RowDescribes(e)'
  BY DEF KbInv, RowDescribes, InOrder
<1>11. TextIsOnItsWay'
  <2>1. SUFFICES ASSUME mishaps' = 0, NEW e \in Policies, Kept(e), e # d
                 PROVE  OnItsWay(e)'
    BY DEF TextIsOnItsWay
  <2>2. mishaps = 0
    BY <2>1, RowsAre
  <2>3. OnItsWay(e) /\ chunks'[e] = chunks[e] /\ overtaken \subseteq overtaken'
    BY <2>1, <2>2 DEF KbInv, TextIsOnItsWay
  <2>4. policy'[e] = policy[e]
    BY <2>1
  <2>5. \A k \in Jobs : job[k] # Missing /\ job[k].of = e => job'[k] = job[k]
    BY <2>1
  <2>6. \A k \in Jobs : Holds(k)' /\ job'[k].of = e => job'[k] = job[k]
    BY <1>2
  <2> QED BY <2>3, <2>4, <2>5, <2>6, OnItsWayStays
<1> QED BY <1>1, <1>7, <1>8, <1>9, <1>10, <1>11 DEF KbInv

\* Where the row is gone, the job ends.
LEMMA JobEnds ==
  ASSUME KbInv, NEW j \in Jobs, job[j] # Missing, End(j), ~ Kept(job[j].of),
         UNCHANGED <<policy, chunks, scheduled, edit, provider, mishaps, overtaken>>
  PROVE  KbInv'
<1>1. PICK d \in Policies : d = job[j].of
  BY RowsAre
<1>2. /\ job' \in [Jobs -> JobRows \cup {Missing}] /\ job'[j] = Missing
      /\ \A k \in Jobs : k # j => job'[k] = job[k]
  BY DEF End, KbInv, KbTypes
<1>3. policy' \in [Policies -> PolicyRows \cup {Missing}] /\ \A e \in Policies : Kept(e)' <=> Kept(e)
  BY DEF KbInv, KbTypes, Kept
<1>4. mishaps' \in mishaps..MaxMishaps
  BY RowsAre, BoundsAreNat DEF KbInv, KbTypes
<1>5. UNCHANGED <<chunks, scheduled, edit, provider, overtaken>>
  OBVIOUS
<1> QED BY <1>1, <1>2, <1>3, <1>4, <1>5, JobGoesOn

LEMMA StartStep ==
  ASSUME KbInv, NEW j \in Jobs, StartIngest(j)
  PROVE  KbInv'
<1>1. /\ job[j] # Missing /\ job[j].phase = "queued"
      /\ UNCHANGED <<chunks, scheduled, edit, provider, mishaps, overtaken>>
  BY DEF StartIngest, In
<1>2. PICK d \in Policies : d = job[j].of
  BY <1>1, RowsAre
<1>3. job[j] \in JobRows /\ mishaps' \in mishaps..MaxMishaps
  BY <1>1, RowsAre, BoundsAreNat DEF KbInv, KbTypes
<1>4. CASE Kept(d)
  <2>1. policy' = [policy EXCEPT ![d].status = "ingesting"] /\ job' = [job EXCEPT ![j].phase = "started"]
    BY <1>2, <1>4 DEF StartIngest
  <2> DEFINE row == [policy[d] EXCEPT !.status = "ingesting"]
             new == [job[j] EXCEPT !.phase = "started"]
  <2>2. policy[d] \in PolicyRows
    BY <1>4, RowsAre
  <2>3. /\ row \in PolicyRows /\ row.text = policy[d].text /\ row.count = policy[d].count
        /\ row.by = policy[d].by /\ row.status = "ingesting"
    BY <2>2 DEF PolicyRows, IngestStatuses
  <2>4. new \in JobRows /\ new.of = d /\ new.phase = "started"
    BY <1>1, <1>2, <1>3 DEF JobRows
  <2>5. policy' = [policy EXCEPT ![d] = row] /\ job' = [job EXCEPT ![j] = new]
    BY <2>1 DEF KbInv, KbTypes
  <2> HIDE DEF row, new
  <2>6. /\ policy' \in [Policies -> PolicyRows \cup {Missing}] /\ policy'[d] = row
        /\ \A e \in Policies : e # d => policy'[e] = policy[e]
    BY <2>3, <2>5 DEF KbInv, KbTypes
  <2>7. /\ job' \in [Jobs -> JobRows \cup {Missing}] /\ job'[j] = new
        /\ \A k \in Jobs : k # j => job'[k] = job[k]
    BY <2>4, <2>5 DEF KbInv, KbTypes
  <2>8. row # Missing /\ new # Missing
    BY <2>3, <2>4, RowsAre
  <2>9. \A e \in Policies : Kept(e)' <=> Kept(e)
    BY <1>4, <2>6, <2>8 DEF Kept
  <2>10. OnItsWay(d)'
    BY <2>4, <2>7, <2>8 DEF OnItsWay, Coming, ComesBy
  <2>11. \A e \in Policies : /\ policy'[e] = policy[e] \/ e = d
                             /\ Kept(e)' <=> Kept(e)
                             /\ Kept(e) => /\ policy'[e].text = policy[e].text
                                           /\ policy'[e].count = policy[e].count
                                           /\ policy'[e].by = policy[e].by
                                           /\ \/ policy'[e].status = policy[e].status
                                              \/ policy'[e].status # "ready"
    BY <2>3, <2>6, <2>9
  <2>12. UNCHANGED <<chunks, scheduled, edit, provider, overtaken>>
    BY <1>1
  <2>13. job'[j] # Missing => job'[j].of = d /\ job'[j].phase \notin {"loaded", "embedded"}
    BY <2>4, <2>7
  <2> QED BY <1>1, <1>2, <1>3, <2>6, <2>7, <2>10, <2>11, <2>12, <2>13, JobGoesOn
<1>5. CASE ~ Kept(d)
  <2>1. End(j) /\ policy' = policy
    BY <1>2, <1>5 DEF StartIngest
  <2>2. UNCHANGED <<policy, chunks, scheduled, edit, provider, mishaps, overtaken>>
    BY <1>1, <2>1
  <2> QED BY <1>1, <1>2, <1>5, <2>1, <2>2, JobEnds
<1> QED BY <1>4, <1>5

\* A step that fails is a mishap.
LEMMA FailsStep ==
  ASSUME KbInv, NEW j \in Jobs, IngestFails(j) \/ IngestDies(j)
  PROVE  KbInv'
<1>1. /\ job[j] # Missing /\ mishaps < MaxMishaps /\ mishaps' = mishaps + 1
      /\ UNCHANGED <<policy, chunks, scheduled, edit, provider, overtaken>>
  BY DEF IngestFails, IngestDies, In
<1>2. PICK d \in Policies : d = job[j].of
  BY <1>1, RowsAre
<1> DEFINE failing == [of |-> d, phase |-> "failing"]
<1>3. failing \in JobRows /\ failing.of = d /\ failing.phase = "failing"
  BY DEF JobRows
<1> HIDE DEF failing
<1>4. job' = [job EXCEPT ![j] = failing] \/ job' = [job EXCEPT ![j] = Missing]
  BY <1>2 DEF IngestFails, IngestDies, End, failing
<1>5. mishaps' \in mishaps..MaxMishaps /\ mishaps' # 0
  BY <1>1, RowsAre, BoundsAreNat DEF KbInv, KbTypes
<1>6. /\ job' \in [Jobs -> JobRows \cup {Missing}] /\ job'[j] \in {failing, Missing}
      /\ \A k \in Jobs : k # j => job'[k] = job[k]
  BY <1>3, <1>4 DEF KbInv, KbTypes
<1>7. job'[j] # Missing => job'[j].of = d /\ job'[j].phase \notin {"loaded", "embedded"}
  BY <1>3, <1>6
<1>8. policy' \in [Policies -> PolicyRows \cup {Missing}] /\ \A e \in Policies : Kept(e)' <=> Kept(e)
  BY <1>1 DEF KbInv, KbTypes, Kept
<1>9. UNCHANGED <<chunks, scheduled, edit, provider, overtaken>> /\ policy' = policy
  BY <1>1
<1> QED BY <1>1, <1>2, <1>5, <1>6, <1>7, <1>8, <1>9, JobGoesOn

\* The text that comes is refused only for chunks its readers before it have
\* not seen either, unless they were overtaken: they will be refused too.
LEMMA RefuseStep ==
  ASSUME KbInv, NEW j \in Jobs, RefuseIngest(j)
  PROVE  KbInv'
<1>1. Embedded(j)
  BY DEF RefuseIngest, In, Embedded
<1>2. PICK d \in Policies : d = job[j].of
  BY <1>1, RowsAre DEF Embedded
<1> DEFINE new == [of |-> d, phase |-> "failing"]
<1>3. /\ job' = [job EXCEPT ![j] = new] /\ (Kept(d) => IndexTaken(j))
      /\ UNCHANGED <<policy, chunks, scheduled, edit, provider, mishaps, overtaken>>
  BY <1>2 DEF RefuseIngest
<1>4. (Kept(d) => Refused(j)) /\ Holds(j) /\ job[j] # Missing
  BY <1>1, <1>3, RefusedIsTaken DEF Embedded
<1>5. new \in JobRows /\ new # Missing /\ new.of = d /\ new.phase = "failing"
  <2>1. new \in JobRows
    BY DEF JobRows
  <2> QED BY <2>1, RowsAre
<1> HIDE DEF new
<1>6. mishaps' \in mishaps..MaxMishaps
  BY <1>3, RowsAre, BoundsAreNat DEF KbInv, KbTypes
<1>7. /\ job' \in [Jobs -> JobRows \cup {Missing}] /\ job'[j] = new
      /\ \A k \in Jobs : k # j => job'[k] = job[k]
  BY <1>3, <1>5 DEF KbInv, KbTypes
<1>8. policy' \in [Policies -> PolicyRows \cup {Missing}] /\ \A e \in Policies : Kept(e)' <=> Kept(e)
  BY <1>3 DEF KbInv, KbTypes, Kept
<1>9. ASSUME mishaps' = 0, Kept(d)
      PROVE  OnItsWay(d)'
  <2>1. OnItsWay(d)
    BY <1>3, <1>9 DEF KbInv, TextIsOnItsWay
  <2>2. CASE Fresh(d)
    BY <1>3, <2>2 DEF Fresh, OnItsWay
  <2>3. CASE \E k \in Jobs : k # j /\ ComesBy(k, d)
    <3>1. PICK k \in Jobs : k # j /\ ComesBy(k, d)
      BY <2>3
    <3>2. ComesBy(k, d)'
      BY <1>3, <1>7, <3>1 DEF ComesBy, Holds
    <3> QED BY <3>2 DEF OnItsWay, Coming
  <2>4. CASE ~ Fresh(d) /\ \A k \in Jobs : ComesBy(k, d) => k = j
    <3>1. \E k \in Jobs : job'[k] # Missing /\ job'[k].of = d /\ job'[k].phase = "failing"
      BY <1>5, <1>7
    <3>2. ASSUME NEW k \in Jobs, Holds(k)', job'[k].of = d
          PROVE  Refused(k)' \/ k \in overtaken'
      <4>1. k # j /\ Holds(k) /\ job'[k] = job[k] /\ job[k].of = d
        BY <1>5, <1>7, <3>2 DEF Holds
      <4>2. Refused(k) \/ k \in overtaken
        <5>1. CASE ComesBy(j, d)
          <6>1. job[j].row.text = policy[d].text
            BY <1>1, <5>1 DEF ComesBy, Embedded
          <6>2. job[k].row.text # policy[d].text
            BY <2>4, <4>1 DEF ComesBy, Holds
          <6>3. job[k].row.text <= policy[d].text
            BY <1>9, <4>1 DEF KbInv, Knows
          <6>4. job[k].row.text \in Nat /\ policy[d].text \in Nat
            BY <1>9, <4>1, RowsAre DEF PolicyRows
          <6>5. job[k].row.text < job[j].row.text
            BY <6>1, <6>2, <6>3, <6>4
          <6>6. SawMore(k, j) /\ Refused(j)
            BY <1>4, <1>9 DEF KbInv
          <6> QED BY <1>2, <1>4, <4>1, <6>5, <6>6 DEF SawMore
        <5>2. CASE ~ ComesBy(j, d)
          <6>1. Behind(d)
            BY <2>1, <2>4, <5>2 DEF OnItsWay, Coming
          <6> QED BY <4>1, <6>1 DEF Behind
        <5> QED BY <5>1, <5>2
      <4> QED BY <1>3, <4>1, <4>2 DEF Refused, Seen
    <3>3. Behind(d)'
      BY <3>1, <3>2 DEF Behind
    <3> QED BY <3>3 DEF OnItsWay
  <2> QED BY <2>2, <2>3, <2>4
<1>10. job'[j] # Missing => job'[j].of = d /\ job'[j].phase \notin {"loaded", "embedded"}
  BY <1>5, <1>7
<1>11. UNCHANGED <<chunks, scheduled, edit, provider, overtaken>> /\ policy' = policy
  BY <1>3
<1> QED BY <1>2, <1>4, <1>6, <1>7, <1>8, <1>9, <1>10, <1>11, JobGoesOn

LEMMA RecordFailureStep ==
  ASSUME KbInv, NEW j \in Jobs, RecordFailure(j)
  PROVE  KbInv'
<1>1. job[j] # Missing /\ job[j].phase = "failing"
  BY DEF RecordFailure, In
<1>2. PICK d \in Policies : d = job[j].of
  BY <1>1, RowsAre
<1>3. /\ job' = [job EXCEPT ![j] = Missing]
      /\ UNCHANGED <<chunks, scheduled, edit, provider, mishaps, overtaken>>
      /\ policy' = [e \in Policies |-> IF e = d /\ Kept(e)
                                       THEN [policy[e] EXCEPT !.status = "failed"] ELSE policy[e]]
  BY <1>2 DEF RecordFailure, End
<1>4. ASSUME Kept(d)
      PROVE  /\ policy'[d] \in PolicyRows /\ policy'[d] # Missing
             /\ policy'[d].text = policy[d].text /\ policy'[d].count = policy[d].count
             /\ policy'[d].by = policy[d].by /\ policy'[d].status = "failed"
  <2>1. policy[d] \in PolicyRows
    BY <1>4, RowsAre
  <2>2. policy'[d] = [policy[d] EXCEPT !.status = "failed"]
    BY <1>3, <1>4
  <2>3. policy'[d] \in PolicyRows
    BY <2>1, <2>2 DEF PolicyRows, IngestStatuses
  <2>4. /\ policy'[d].text = policy[d].text /\ policy'[d].count = policy[d].count
        /\ policy'[d].by = policy[d].by /\ policy'[d].status = "failed"
    BY <2>1, <2>2 DEF PolicyRows
  <2> QED BY <2>3, <2>4, RowsAre
<1>5. \A e \in Policies : ~ (e = d /\ Kept(e)) => policy'[e] = policy[e]
  BY <1>3
<1>6. policy' \in [Policies -> PolicyRows \cup {Missing}]
  BY <1>3, <1>4, <1>5 DEF KbInv, KbTypes
<1>7. \A e \in Policies : Kept(e)' <=> Kept(e)
  BY <1>4, <1>5 DEF Kept
<1>8. /\ job' \in [Jobs -> JobRows \cup {Missing}] /\ job'[j] = Missing
      /\ \A k \in Jobs : k # j => job'[k] = job[k]
  BY <1>3 DEF KbInv, KbTypes
<1>9. mishaps' \in mishaps..MaxMishaps
  BY <1>3, RowsAre, BoundsAreNat DEF KbInv, KbTypes
<1>10. ASSUME mishaps' = 0, Kept(d)
       PROVE  OnItsWay(d)'
  <2>1. OnItsWay(d)
    BY <1>3, <1>10 DEF KbInv, TextIsOnItsWay
  <2>2. CASE Fresh(d)
    BY <1>3, <1>4, <1>10, <2>2 DEF Fresh, OnItsWay
  <2>3. CASE Coming(d)
    <3>1. PICK k \in Jobs : ComesBy(k, d)
      BY <2>3 DEF Coming
    <3>2. k # j
      BY <1>1, <3>1 DEF ComesBy, Holds
    <3>3. ComesBy(k, d)'
      BY <1>4, <1>8, <1>10, <3>1, <3>2 DEF ComesBy, Holds
    <3> QED BY <3>3 DEF OnItsWay, Coming
  <2>4. CASE Behind(d)
    <3>1. \A k \in Jobs : Holds(k)' => Holds(k) /\ job'[k] = job[k]
      BY <1>8 DEF Holds
    <3>2. \A k \in Jobs : Holds(k)' /\ job'[k].of = d => Refused(k)' \/ k \in overtaken'
      BY <1>3, <2>4, <3>1 DEF Behind, Refused, Seen
    <3> QED BY <1>4, <1>10, <3>2 DEF Behind, OnItsWay
  <2> QED BY <2>1, <2>2, <2>3, <2>4 DEF OnItsWay
<1>11. UNCHANGED <<chunks, scheduled, edit, provider, overtaken>>
  BY <1>3
<1>12. \A e \in Policies : /\ policy'[e] = policy[e] \/ e = d
                           /\ Kept(e)' <=> Kept(e)
                           /\ Kept(e) => /\ policy'[e].text = policy[e].text
                                         /\ policy'[e].count = policy[e].count
                                         /\ policy'[e].by = policy[e].by
                                         /\ \/ policy'[e].status = policy[e].status
                                            \/ policy'[e].status # "ready"
  BY <1>4, <1>5, <1>7
<1> QED BY <1>1, <1>2, <1>6, <1>8, <1>9, <1>10, <1>11, <1>12, JobGoesOn

(***************************************************************************)
(* A job that reads the row, or deletes the chunks there are.              *)
(***************************************************************************)
LEMMA ReaderStep ==
  ASSUME KbInv, NEW j \in Jobs, NEW d \in Policies, job[j] # Missing, job[j].of = d,
         UNCHANGED <<policy, chunks, scheduled, edit, provider, mishaps, overtaken>>,
         job' \in [Jobs -> JobRows \cup {Missing}],
         \A k \in Jobs : k # j => job'[k] = job[k],
         Holds(j)', job'[j].of = d, Knows(j)', Seen(j)' = chunks[d],
         Embedded(j)' => job'[j].deleted = chunks[d],
         \A k \in Jobs :
           Holds(k) /\ k # j /\ job[k].of = d /\ j \notin overtaken /\ Refused(k) =>
             ~ (job'[j].row.text < job[k].row.text),
         mishaps = 0 /\ Kept(d) => OnItsWay(d)'
  PROVE  KbInv'
<1>1. KbTypes'
  BY DEF KbInv, KbTypes
<1>2. \A k \in Jobs \ {j} : Holds(k)' => Holds(k) /\ job'[k] = job[k] /\ provider' = provider
  BY DEF Holds
<1>3. \A k \in Jobs \ {j} :
        Holds(k)' /\ policy'[job[k].of] # Missing =>
          /\ Kept(job[k].of) /\ policy[job[k].of].text <= policy'[job[k].of].text
          /\ policy'[job[k].of].text \in Nat
          /\ policy'[job[k].of].by = policy[job[k].of].by
          /\ policy'[job[k].of].count = policy[job[k].of].count
  <2>1. SUFFICES ASSUME NEW k \in Jobs \ {j}, Holds(k)', policy'[job[k].of] # Missing
                 PROVE  /\ Kept(job[k].of) /\ policy[job[k].of].text <= policy'[job[k].of].text
                        /\ policy'[job[k].of].text \in Nat
                        /\ policy'[job[k].of].by = policy[job[k].of].by
                        /\ policy'[job[k].of].count = policy[job[k].of].count
    OBVIOUS
  <2>2. PICK e \in Policies : e = job[k].of
    BY <1>2, <2>1, RowsAre DEF Holds
  <2>3. Kept(e)
    BY <2>1, <2>2 DEF Kept
  <2>4. policy[e].text \in Nat
    BY <2>3, RowsAre DEF PolicyRows
  <2> QED BY <2>2, <2>3, <2>4
<1>4. \A e \in Policies : chunks'[e] = chunks[e] \/ (chunks'[e] = {} /\ policy'[e] = Missing)
  OBVIOUS
<1>5. scheduled' \in Nat /\ scheduled <= scheduled' /\ overtaken' = overtaken
  BY RowsAre
<1>6. \A k \in Jobs : k <= scheduled /\ job[k] = Missing => job'[k] = Missing
  OBVIOUS
<1>7. /\ \A e \in Policies : (Whole(chunks[e]) /\ Over(chunks[e]))'
      /\ \A k \in Jobs \ {j} : Embedded(k)' => Whole(job'[k].deleted) /\ Over(job[k].deleted)'
      /\ \A k \in Jobs \ {j} : Knows(k)'
      /\ \A i, k \in Jobs \ {j} : SawMore(i, k)'
      /\ \A R : Whole(R) /\ Over(R) =>
           \A c \in R : c.made <= scheduled' /\ job'[c.made] = Missing
  BY <1>2, <1>3, <1>4, <1>5, <1>6, OthersStay
<1>8. SetsAreWhole'
  <2>1. Embedded(j)' => Whole(job'[j].deleted) /\ Over(job[j].deleted)'
    <3>1. SUFFICES ASSUME Embedded(j)'
                   PROVE  Whole(job'[j].deleted) /\ Over(job[j].deleted)'
      OBVIOUS
    <3>2. job'[j].deleted = chunks[d] /\ Whole(chunks[d]) /\ Over(chunks[d])
      BY <3>1 DEF KbInv, SetsAreWhole
    <3>3. \A c \in chunks[d] : c.made <= scheduled' /\ job'[c.made] = Missing
      BY <1>7, <3>2
    <3> QED BY <3>2, <3>3 DEF Over
  <2> QED BY <1>7, <2>1 DEF SetsAreWhole, Whole
<1>9. JobsAreScheduled'
  BY DEF KbInv, JobsAreScheduled
<1>10. \A e \in Policies : RowDescribes(e)'
  BY DEF KbInv, RowDescribes, InOrder, Kept
<1>11. \A k \in Jobs : Knows(k)'
  BY <1>7
<1>12. \A i, k \in Jobs : SawMore(i, k)'
  <2>1. ~ Refused(j)'
    BY DEF Refused
  <2>2. ASSUME NEW k \in Jobs, k # j
        PROVE  SawMore(j, k)'
    <3>1. SUFFICES ASSUME Holds(k)', job'[k].of = d, j \notin overtaken,
                          job'[j].row.text < job'[k].row.text, Refused(k)'
                   PROVE  FALSE
      BY <2>1 DEF SawMore
    <3>2. Holds(k) /\ job'[k] = job[k] /\ job[k].of = d
      BY <1>2, <2>2, <3>1
    <3>3. Refused(k)
      BY <3>1, <3>2 DEF Refused, Seen
    <3> QED BY <2>2, <3>1, <3>2, <3>3
  <2>3. \A i \in Jobs : SawMore(i, j)'
    BY <2>1 DEF SawMore
  <2> QED BY <1>7, <2>2, <2>3
<1>13. TextIsOnItsWay'
  <2>1. SUFFICES ASSUME mishaps = 0, NEW e \in Policies, Kept(e), e # d
                 PROVE  OnItsWay(e)'
    BY DEF TextIsOnItsWay, Kept
  <2>2. OnItsWay(e) /\ chunks'[e] = chunks[e] /\ policy'[e] = policy[e]
        /\ overtaken \subseteq overtaken'
    BY <2>1 DEF KbInv, TextIsOnItsWay
  <2>3. \A k \in Jobs : job[k] # Missing /\ job[k].of = e => job'[k] = job[k]
    BY <2>1
  <2>4. \A k \in Jobs : Holds(k)' /\ job'[k].of = e => job'[k] = job[k]
    BY <2>1
  <2> QED BY <2>2, <2>3, <2>4, OnItsWayStays
<1> QED BY <1>1, <1>8, <1>9, <1>10, <1>11, <1>12, <1>13 DEF KbInv

LEMMA ReadStep ==
  ASSUME KbInv, NEW j \in Jobs, ReadPolicy(j)
  PROVE  KbInv'
<1>1. /\ job[j] # Missing /\ job[j].phase = "started"
      /\ UNCHANGED <<policy, chunks, scheduled, edit, provider, mishaps, overtaken>>
  BY DEF ReadPolicy, In
<1>2. PICK d \in Policies : d = job[j].of
  BY <1>1, RowsAre
<1>3. CASE ~ Kept(d)
  <2>1. End(j)
    BY <1>2, <1>3 DEF ReadPolicy
  <2> QED BY <1>1, <1>2, <1>3, <2>1, JobEnds
<1>4. CASE Kept(d)
  <2> DEFINE new == [of |-> d, phase |-> "loaded", row |-> policy[d]]
  <2>1. job' = [job EXCEPT ![j] = new]
    BY <1>2, <1>4 DEF ReadPolicy
  <2>2. policy[d] \in PolicyRows
    BY <1>4, RowsAre
  <2>3. new \in JobRows
    BY <2>2 DEF JobRows
  <2>4. new # Missing /\ new.of = d /\ new.phase = "loaded" /\ new.row = policy[d]
    BY <2>3, RowsAre
  <2> HIDE DEF new
  <2>5. /\ job' \in [Jobs -> JobRows \cup {Missing}] /\ job'[j] = new
        /\ \A k \in Jobs : k # j => job'[k] = job[k]
    BY <2>1, <2>3 DEF KbInv, KbTypes
  <2>6. Holds(j)' /\ job'[j].of = d /\ Seen(j)' = chunks[d] /\ ~ Embedded(j)' /\ job'[j].row = policy[d]
    BY <1>1, <2>4, <2>5 DEF Holds, Seen, Embedded
  <2>7. policy[d].text \in Nat
    BY <2>2, RowsAre DEF PolicyRows
  <2>8. \A c \in chunks[d] : c.text <= policy[d].text
    BY <1>4 DEF KbInv, RowDescribes
  <2>9. Knows(j)'
    BY <1>1, <2>6, <2>7, <2>8 DEF Knows, Kept
  <2>10. \A k \in Jobs :
           Holds(k) /\ k # j /\ job[k].of = d /\ j \notin overtaken /\ Refused(k) =>
             ~ (job'[j].row.text < job[k].row.text)
    <3>1. SUFFICES ASSUME NEW k \in Jobs, Holds(k), job[k].of = d
                   PROVE  ~ (policy[d].text < job[k].row.text)
      BY <2>6
    <3>2. job[k].row.text <= policy[d].text /\ job[k].row.text \in Nat
      BY <1>4, <3>1, RowsAre DEF KbInv, Knows
    <3> QED BY <2>7, <3>2
  <2>11. OnItsWay(d)'
    BY <1>1, <2>4, <2>5, <2>6 DEF OnItsWay, Coming, ComesBy
  <2> QED BY <1>1, <1>2, <2>5, <2>6, <2>9, <2>10, <2>11, ReaderStep
<1> QED BY <1>3, <1>4

LEMMA EmbedStep ==
  ASSUME KbInv, NEW j \in Jobs, EmbedChunks(j)
  PROVE  KbInv'
<1>1. /\ job[j] # Missing /\ job[j].phase = "loaded"
      /\ UNCHANGED <<policy, chunks, scheduled, edit, provider, mishaps, overtaken>>
  BY DEF EmbedChunks, In
<1>2. PICK d \in Policies : d = job[j].of
  BY <1>1, RowsAre
<1>3. PICK r : r = job[j].row
  OBVIOUS
<1> DEFINE new == [of |-> d, phase |-> "embedded", row |-> r, deleted |-> chunks[d], by |-> provider]
<1>4. Holds(j) /\ r \in PolicyRows /\ Seen(j) = chunks[d] /\ ~ Refused(j)
  BY <1>1, <1>2, <1>3, RowsAre DEF Holds, Seen, Refused
<1>5. new \in JobRows
  <2>1. chunks[d] \in SUBSET Chunks /\ provider \in Providers
    BY DEF KbInv, KbTypes
  <2> QED BY <1>4, <2>1 DEF JobRows
<1>6. /\ new # Missing /\ new.of = d /\ new.phase = "embedded" /\ new.row = r
      /\ new.deleted = chunks[d] /\ new.by = provider
  BY <1>5, RowsAre
<1>7. job' = [job EXCEPT ![j] = new]
  BY <1>2, <1>3 DEF EmbedChunks
<1> HIDE DEF new
<1>8. /\ job' \in [Jobs -> JobRows \cup {Missing}] /\ job'[j] = new
      /\ \A k \in Jobs : k # j => job'[k] = job[k]
  BY <1>5, <1>7 DEF KbInv, KbTypes
<1>9. /\ Holds(j)' /\ job'[j].of = d /\ Seen(j)' = chunks[d] /\ job'[j].row = r
      /\ job'[j].deleted = chunks[d] /\ job'[j].by = provider
  BY <1>6, <1>8 DEF Holds, Seen
<1>10. Knows(j)'
  <2>1. /\ Kept(d) => r.text <= policy[d].text /\ policy[d].by \in {r.by, provider}
        /\ j \notin overtaken =>
             /\ \A c \in chunks[d] : c.text <= r.text
             /\ Kept(d) => policy[d].count = r.count
    BY <1>2, <1>3, <1>4 DEF KbInv, Knows
  <2> QED BY <1>1, <1>9, <2>1 DEF Knows, Kept
<1>11. \A k \in Jobs :
         Holds(k) /\ k # j /\ job[k].of = d /\ j \notin overtaken /\ Refused(k) =>
           ~ (job'[j].row.text < job[k].row.text)
  <2>1. \A k \in Jobs : SawMore(j, k)
    BY DEF KbInv
  <2> QED BY <1>2, <1>3, <1>4, <1>9, <2>1 DEF SawMore
<1>12. ASSUME mishaps = 0, Kept(d)
       PROVE  OnItsWay(d)'
  <2>1. OnItsWay(d)
    BY <1>12 DEF KbInv, TextIsOnItsWay
  <2>2. CASE Fresh(d)
    BY <1>1, <2>2 DEF Fresh, OnItsWay
  <2>3. CASE Coming(d)
    <3>1. PICK k \in Jobs : ComesBy(k, d)
      BY <2>3 DEF Coming
    <3>2. CASE k # j
      <4>1. ComesBy(k, d)'
        BY <1>1, <1>8, <3>1, <3>2 DEF ComesBy, Holds
      <4> QED BY <4>1 DEF OnItsWay, Coming
    <3>3. CASE k = j
      <4>1. r.text = policy[d].text
        BY <1>1, <1>3, <3>1, <3>3 DEF ComesBy
      <4>2. ComesBy(j, d)'
        BY <1>1, <1>6, <1>8, <1>9, <4>1 DEF ComesBy
      <4> QED BY <4>2 DEF OnItsWay, Coming
    <3> QED BY <3>2, <3>3
  <2>4. CASE Behind(d)
    <3>1. j \in overtaken
      BY <1>2, <1>4, <2>4 DEF Behind
    <3>2. ASSUME NEW k \in Jobs, Holds(k)', job'[k].of = d
          PROVE  Refused(k)' \/ k \in overtaken'
      <4>1. CASE k = j
        BY <1>1, <3>1, <4>1
      <4>2. CASE k # j
        <5>1. Holds(k) /\ job'[k] = job[k]
          BY <1>8, <3>2, <4>2 DEF Holds
        <5> QED BY <1>1, <2>4, <3>2, <5>1 DEF Behind, Refused, Seen
      <4> QED BY <4>1, <4>2
    <3>3. \A k \in Jobs : job[k] # Missing /\ job[k].phase = "failing" => job'[k] = job[k]
      BY <1>1, <1>8
    <3> QED BY <1>1, <2>4, <3>2, <3>3 DEF Behind, OnItsWay, InOrder
  <2> QED BY <2>1, <2>2, <2>3, <2>4 DEF OnItsWay
<1> QED BY <1>1, <1>2, <1>8, <1>9, <1>10, <1>11, <1>12, ReaderStep

\* Nothing is there but what the job deletes, so its chunks are all there is
\* afterwards. Whoever has deleted chunks has not seen these; whoever has only
\* read is overtaken. A late job for an old text that was not overtaken commits
\* only while the one for the new text is still on its way.
LEMMA CommitStep ==
  ASSUME KbInv, NEW j \in Jobs, CommitIngest(j)
  PROVE  KbInv'
<1>1. Embedded(j) /\ Kept(job[j].of) /\ ~ IndexTaken(j)
  BY DEF CommitIngest, In, Embedded
<1>2. PICK d \in Policies, r \in PolicyRows, t \in Texts, p \in Providers :
        d = job[j].of /\ r = job[j].row /\ t = r.text /\ p = job[j].by
  BY <1>1, RefusedIsTaken
<1>3. PICK N : N = Cut(j, t, p)
  OBVIOUS
<1>4. /\ ~ Refused(j) /\ Holds(j) /\ Seen(j) = job[j].deleted /\ NewChunks(j) = N /\ job[j] # Missing
  BY <1>1, <1>2, <1>3, RefusedIsTaken DEF Embedded
<1>5. chunks[d] \ job[j].deleted = {}
  BY <1>2, <1>4 DEF Refused
<1>6. /\ N \subseteq Chunks /\ N # {} /\ Whole(N) /\ Cardinality(N) \in 1..2
      /\ \A c \in N : c.text = t /\ c.by = p /\ c.made = j
  <2>1. N \subseteq Chunks /\ N # {} /\ \A c \in N : c.text = t /\ c.by = p /\ c.made = j
    BY <1>3, CutIs
  <2>2. Whole(N)
    BY <1>3 DEF Whole
  <2> QED BY <2>1, <2>2, WholeHasFirst
<1> DEFINE row == [policy[d] EXCEPT !.status = Written(@, r.status, "ready"),
                                    !.count = Written(@, r.count, Cardinality(N)),
                                    !.by = Written(@, r.by, p)]
<1>7. /\ chunks' = [chunks EXCEPT ![d] = N] /\ policy' = [policy EXCEPT ![d] = row]
      /\ job' = [job EXCEPT ![j] = Missing] /\ overtaken' = overtaken \cup Reading(d)
      /\ UNCHANGED <<scheduled, edit, provider, mishaps>>
  <2>1. chunks' = [chunks EXCEPT ![d] = (chunks[d] \ job[j].deleted) \cup N]
    BY <1>2, <1>4 DEF CommitIngest, KbInv, KbTypes
  <2>2. policy' = [policy EXCEPT ![d] = row]
    BY <1>2, <1>4 DEF CommitIngest, KbInv, KbTypes
  <2>3. (chunks[d] \ job[j].deleted) \cup N = N
    BY <1>5
  <2> QED BY <1>2, <2>1, <2>2, <2>3 DEF CommitIngest, End
<1>8. policy[d] \in PolicyRows
  BY <1>1, <1>2, RowsAre
<1>9. /\ t <= policy[d].text /\ p = provider /\ policy[d].by \in {r.by, provider}
      /\ j \notin overtaken =>
           policy[d].count = r.count /\ \A c \in job[j].deleted : c.text <= t
  BY <1>1, <1>2, <1>4 DEF KbInv, Knows
<1>10. /\ row \in PolicyRows /\ row.text = policy[d].text /\ row.by = p
       /\ j \notin overtaken => row.count = Cardinality(N)
  <2>1. /\ Written(policy[d].status, r.status, "ready") \in IngestStatuses
        /\ Written(policy[d].count, r.count, Cardinality(N)) \in 0..2
    BY <1>6, <1>8 DEF Written, PolicyRows, IngestStatuses
  <2>2. Written(policy[d].by, r.by, p) = p
    BY <1>9 DEF Written
  <2>3. j \notin overtaken => Written(policy[d].count, r.count, Cardinality(N)) = Cardinality(N)
    BY <1>9 DEF Written
  <2> QED BY <1>8, <2>1, <2>2, <2>3 DEF PolicyRows
<1> HIDE DEF row
<1>11. /\ policy' \in [Policies -> PolicyRows \cup {Missing}] /\ policy'[d] = row
       /\ chunks' \in [Policies -> SUBSET Chunks] /\ chunks'[d] = N
       /\ \A e \in Policies : e # d => policy'[e] = policy[e] /\ chunks'[e] = chunks[e]
  BY <1>6, <1>7, <1>10 DEF KbInv, KbTypes
<1>12. /\ job' \in [Jobs -> JobRows \cup {Missing}] /\ job'[j] = Missing
       /\ \A k \in Jobs : k # j => job'[k] = job[k]
  BY <1>7 DEF KbInv, KbTypes
<1>13. \A e \in Policies : Kept(e)' <=> Kept(e)
  BY <1>1, <1>2, <1>10, <1>11, RowsAre DEF Kept
<1>14. \A k \in Jobs : Holds(k)' => k # j /\ Holds(k) /\ job'[k] = job[k] /\ job[k].of \in Policies
  BY <1>12, RowsAre DEF Holds
<1>15. t \in Nat /\ policy[d].text \in Nat
  BY <1>8, RowsAre DEF PolicyRows
<1>16. overtaken \subseteq overtaken' /\ overtaken' \subseteq Jobs
  BY <1>7 DEF KbInv, KbTypes, Reading, Working
<1>17. KbTypes'
  BY <1>7, <1>11, <1>12, <1>16 DEF KbInv, KbTypes
<1>18. ASSUME NEW S, Whole(S), Over(S)
       PROVE  \A c \in S : c.made <= scheduled' /\ job'[c.made] = Missing
  BY <1>7, <1>12, <1>18, WholeMade DEF Over
<1>19. SetsAreWhole'
  <2>1. ASSUME NEW e \in Policies
        PROVE  Whole(chunks'[e]) /\ Over(chunks[e])'
    <3>1. CASE e = d
      <4>1. j <= scheduled
        BY <1>4 DEF KbInv, JobsAreScheduled
      <4> QED BY <1>6, <1>7, <1>11, <1>12, <3>1, <4>1 DEF Over
    <3>2. CASE e # d
      <4>1. chunks'[e] = chunks[e] /\ Whole(chunks[e]) /\ Over(chunks[e])
        BY <1>11, <3>2 DEF KbInv, SetsAreWhole
      <4> QED BY <1>18, <4>1 DEF Over
    <3> QED BY <3>1, <3>2
  <2>2. ASSUME NEW k \in Jobs, Embedded(k)'
        PROVE  Whole(job'[k].deleted) /\ Over(job[k].deleted)'
    <3>1. Embedded(k) /\ job'[k] = job[k]
      BY <1>12, <2>2 DEF Embedded
    <3>2. Whole(job[k].deleted) /\ Over(job[k].deleted)
      BY <3>1 DEF KbInv, SetsAreWhole
    <3> QED BY <1>18, <3>1, <3>2 DEF Over
  <2> QED BY <2>1, <2>2 DEF SetsAreWhole, Whole
<1>20. JobsAreScheduled'
  BY <1>7, <1>12 DEF KbInv, JobsAreScheduled
<1>21. \A e \in Policies : RowDescribes(e)'
  <2>1. ASSUME NEW e \in Policies, e # d
        PROVE  RowDescribes(e)'
    <3>1. RowDescribes(e) /\ policy'[e] = policy[e] /\ chunks'[e] = chunks[e]
      BY <1>11, <2>1 DEF KbInv
    <3>2. (e \in InOrder)' => e \in InOrder
      BY <1>16, <3>1 DEF InOrder
    <3> QED BY <3>1, <3>2 DEF RowDescribes, Kept
  <2>2. (d \in InOrder)' => j \notin overtaken
    BY <1>6, <1>11, <1>16 DEF InOrder
  <2>3. RowDescribes(d)'
    BY <1>1, <1>2, <1>6, <1>9, <1>10, <1>11, <1>13, <2>2 DEF RowDescribes
  <2> QED BY <2>1, <2>3
<1>22. ASSUME NEW k \in Jobs, Holds(k)', job[k].of = d
       PROVE  Refused(k)' \/ k \in overtaken'
  <2>1. Holds(k) /\ job'[k] = job[k]
    BY <1>14, <1>22
  <2>2. CASE job[k].phase = "loaded"
    BY <1>7, <1>22, <2>1, <2>2 DEF Reading, Working, Holds
  <2>3. CASE job[k].phase = "embedded"
    <3>1. PICK c \in N : c.made = j
      BY <1>6
    <3>2. Over(job[k].deleted)
      BY <2>1, <2>3 DEF Holds, Embedded, KbInv, SetsAreWhole
    <3>3. c \notin job[k].deleted
      BY <1>4, <3>1, <3>2 DEF Over
    <3> QED BY <1>6, <1>11, <1>22, <2>1, <2>3, <3>1, <3>3 DEF Refused, Seen
  <2> QED BY <2>1, <2>2, <2>3 DEF Holds
<1>23. ASSUME NEW k \in Jobs, Holds(k)', job[k].of # d
       PROVE  (Refused(k)' <=> Refused(k)) /\ Seen(k)' = Seen(k)
  BY <1>11, <1>14, <1>23 DEF Refused, Seen
<1>24. ASSUME NEW k \in Jobs
       PROVE  Knows(k)'
  <2>1. SUFFICES ASSUME Holds(k)' PROVE Knows(k)'
    BY DEF Knows
  <2>2. k # j /\ Holds(k) /\ job'[k] = job[k] /\ job[k].of \in Policies
    BY <1>14, <2>1
  <2>3. Embedded(k)' => Embedded(k)
    BY <2>2 DEF Embedded
  <2>4. CASE job[k].of # d
    <3>1. policy'[job[k].of] = policy[job[k].of]
      BY <1>11, <2>2, <2>4
    <3>2. k \notin overtaken' => k \notin overtaken
      BY <1>16
    <3>3. provider' = provider
      BY <1>7
    <3>4. Knows(k) /\ (Refused(k)' <=> Refused(k)) /\ Seen(k)' = Seen(k)
      BY <1>23, <2>1, <2>4 DEF KbInv
    <3> QED BY <2>2, <2>3, <3>1, <3>2, <3>3, <3>4 DEF Knows, Kept
  <2>5. CASE job[k].of = d
    <3>1. /\ job[k].row.text <= policy[d].text
          /\ Embedded(k) => job[k].by = provider
          /\ k \notin overtaken => \A c \in Seen(k) : c.text <= job[k].row.text
      BY <1>1, <1>2, <2>2, <2>5 DEF KbInv, Knows
    <3>2. policy'[d].text = policy[d].text /\ policy'[d].by = provider' /\ provider' = provider
      BY <1>7, <1>9, <1>10, <1>11
    <3>3. Refused(k)' \/ k \in overtaken'
      BY <1>22, <2>1, <2>5
    <3>4. job[k].phase = "loaded" => k \in overtaken'
      BY <1>7, <2>2, <2>5 DEF Reading, Working, Holds
    <3>5. job[k].phase # "loaded" => Seen(k)' = Seen(k)
      BY <2>2 DEF Seen
    <3>6. k \notin overtaken' => \A c \in Seen(k)' : c.text <= job[k].row.text
      BY <1>16, <3>1, <3>4, <3>5
    <3> QED BY <2>2, <2>3, <2>5, <3>1, <3>2, <3>3, <3>6 DEF Knows
  <2> QED BY <2>4, <2>5
<1>25. ASSUME NEW i \in Jobs, NEW k \in Jobs
       PROVE  SawMore(i, k)'
  <2>1. SUFFICES ASSUME Holds(i)', Holds(k)', job'[i].of = job'[k].of, i \notin overtaken',
                        job'[i].row.text < job'[k].row.text, Refused(k)'
                 PROVE  Refused(i)'
    BY DEF SawMore
  <2>2. Holds(i) /\ Holds(k) /\ job'[i] = job[i] /\ job'[k] = job[k] /\ i \notin overtaken
    BY <1>14, <1>16, <2>1
  <2>3. CASE job[i].of = d
    BY <1>22, <2>1, <2>3
  <2>4. CASE job[i].of # d
    <3>1. Refused(k) /\ SawMore(i, k)
      BY <1>23, <2>1, <2>2, <2>4 DEF KbInv
    <3>2. Refused(i)
      BY <2>1, <2>2, <3>1 DEF SawMore
    <3> QED BY <1>23, <2>1, <2>4, <3>2
  <2> QED BY <2>3, <2>4
<1>26. TextIsOnItsWay'
  <2>1. SUFFICES ASSUME mishaps = 0, NEW e \in Policies, Kept(e)
                 PROVE  OnItsWay(e)'
    BY <1>7, <1>13 DEF TextIsOnItsWay
  <2>2. OnItsWay(e)
    BY <2>1 DEF KbInv, TextIsOnItsWay
  <2>3. CASE e # d
    <3>1. policy'[e] = policy[e] /\ chunks'[e] = chunks[e]
      BY <1>11, <2>3
    <3>2. \A k \in Jobs : job[k] # Missing /\ job[k].of = e => job'[k] = job[k]
      BY <1>2, <1>12, <2>3
    <3>3. \A k \in Jobs : Holds(k)' /\ job'[k].of = e => job'[k] = job[k]
      BY <1>14
    <3> QED BY <1>16, <2>2, <3>1, <3>2, <3>3, OnItsWayStays
  <2>4. CASE e = d /\ t = policy[d].text
    BY <1>6, <1>10, <1>11, <2>4 DEF Fresh, OnItsWay
  <2>5. CASE e = d /\ t # policy[d].text /\ j \in overtaken
    <3>1. (d \notin InOrder)'
      BY <1>6, <1>11, <1>16, <2>5 DEF InOrder
    <3>2. \A k \in Jobs : Holds(k)' /\ job'[k].of = d => Refused(k)' \/ k \in overtaken'
      BY <1>14, <1>22
    <3> QED BY <2>5, <3>1, <3>2 DEF Behind, OnItsWay
  <2>6. CASE e = d /\ t # policy[d].text /\ j \notin overtaken
    <3>1. ~ Behind(d)
      BY <1>2, <1>4, <2>6 DEF Behind
    <3>2. ~ Fresh(d)
      <4>1. SUFFICES ASSUME Fresh(d) PROVE FALSE
        OBVIOUS
      <4>2. PICK c \in chunks[d] : c.text = policy[d].text
        BY <4>1 DEF Fresh
      <4>3. c \in job[j].deleted
        BY <1>5, <4>2
      <4>4. c.text <= t
        BY <1>9, <2>6, <4>3
      <4> QED BY <1>9, <1>15, <2>6, <4>2, <4>4
    <3>3. PICK k \in Jobs : ComesBy(k, d)
      BY <2>2, <2>6, <3>1, <3>2 DEF OnItsWay, Coming
    <3>4. k # j
      BY <1>1, <1>2, <2>6, <3>3 DEF ComesBy, Embedded
    <3>5. ComesBy(k, d)'
      BY <1>10, <1>11, <1>12, <3>3, <3>4 DEF ComesBy, Holds
    <3> QED BY <2>6, <3>5 DEF Coming, OnItsWay
  <2> QED BY <2>3, <2>4, <2>5, <2>6
<1> QED BY <1>17, <1>19, <1>20, <1>21, <1>24, <1>25, <1>26 DEF KbInv

LEMMA RestartStep ==
  ASSUME KbInv, NEW p \in Providers, Restart(p)
  PROVE  KbInv'
<1>1. /\ job' = [j \in Jobs |-> Missing] /\ edit' = [d \in Policies |-> Missing] /\ provider' = p
      /\ mishaps' = mishaps + 1 /\ mishaps < MaxMishaps
      /\ UNCHANGED <<policy, chunks, scheduled, overtaken>>
  BY DEF Restart
<1>2. mishaps' \in 0..MaxMishaps /\ mishaps' # 0
  BY <1>1, RowsAre, BoundsAreNat
<1>3. KbTypes'
  BY <1>1, <1>2 DEF KbInv, KbTypes
<1>4. \A j \in Jobs : job'[j] = Missing
  BY <1>1
<1>5. SetsAreWhole'
  <2>1. ASSUME NEW d \in Policies
        PROVE  (Whole(chunks[d]) /\ Over(chunks[d]))'
    <3>1. Whole(chunks[d]) /\ Over(chunks[d])
      BY DEF KbInv, SetsAreWhole
    <3>2. \A c \in chunks[d] : c.made \in Jobs
      BY <3>1, WholeMade
    <3> QED BY <1>1, <1>4, <3>1, <3>2 DEF Whole, Over
  <2> QED BY <1>4, <2>1 DEF SetsAreWhole, Embedded
<1>6. JobsAreScheduled' /\ (\A d \in Policies : RowDescribes(d)') /\ TextIsOnItsWay'
  BY <1>1, <1>2, <1>4
     DEF KbInv, JobsAreScheduled, RowDescribes, TextIsOnItsWay, InOrder, Kept
<1>7. (\A j \in Jobs : Knows(j)') /\ \A j, k \in Jobs : SawMore(j, k)'
  BY <1>4 DEF Knows, SawMore, Holds
<1> QED BY <1>3, <1>5, <1>6, <1>7 DEF KbInv

LEMMA KbStarts == KbInit => KbInv
<1> SUFFICES ASSUME KbInit PROVE KbInv
  OBVIOUS
<1>1. KbTypes
  BY BoundsAreNat DEF KbInit, KbTypes
<1>2. SetsAreWhole /\ JobsAreScheduled
  BY DEF KbInit, SetsAreWhole, JobsAreScheduled, Whole, Over, Embedded
<1>3. (\A d \in Policies : RowDescribes(d)) /\ TextIsOnItsWay
  BY DEF KbInit, RowDescribes, TextIsOnItsWay, Kept
<1>4. (\A j \in Jobs : Knows(j)) /\ \A j, k \in Jobs : SawMore(j, k)
  BY DEF KbInit, Knows, SawMore, Holds
<1> QED BY <1>1, <1>2, <1>3, <1>4 DEF KbInv

LEMMA KbSteps == KbInv /\ [KbNext]_kbVars => KbInv'
<1> SUFFICES ASSUME KbInv, [KbNext]_kbVars PROVE KbInv'
  OBVIOUS
<1>1. CASE UNCHANGED kbVars
  <2>1. edit' \in [Policies -> PolicyRows \cup {Missing}]
    BY <1>1 DEF kbVars, KbInv, KbTypes
  <2>2. UNCHANGED <<policy, chunks, job, scheduled, provider, mishaps, overtaken>>
    BY <1>1 DEF kbVars
  <2> QED BY <2>1, <2>2, EditStep
<1>2. ASSUME NEW d \in Policies, BeginEdit(d) \/ AbandonEdit(d)
      PROVE  KbInv'
  <2>1. edit' \in [Policies -> PolicyRows \cup {Missing}]
    BY <1>2 DEF BeginEdit, AbandonEdit, KbInv, KbTypes
  <2>2. UNCHANGED <<policy, chunks, job, scheduled, provider, mishaps, overtaken>>
    BY <1>2 DEF BeginEdit, AbandonEdit
  <2> QED BY <2>1, <2>2, EditStep
<1> QED BY <1>1, <1>2, CreateStep, CommitEditStep, PublishStep, ReingestStep, DeleteStep,
           StartStep, ReadStep, EmbedStep, CommitStep, RefuseStep, FailsStep, RecordFailureStep,
           RestartStep
        DEF KbNext

-----------------------------------------------------------------------------
(***************************************************************************)
(* Answers.                                                                *)
(***************************************************************************)

\* What is known of every answer that is given.
ResultRight(r) ==
  /\ r.outcome \in Outcomes
  /\ (r.cited # <<>>) <=> (r.outcome \in {"answered", "escalated_low_confidence"})
  /\ r.escalated <=> r.outcome \notin {"answered", "small_talk"}
  /\ r.outcome = "answered" => Len(r.cited) \in 1..TopK /\ r.cited[1] >= EscalationThreshold

LEMMA ChatBoundsAre ==
  /\ MaxTurns \in Nat /\ Window \in Nat /\ TopK \in Nat /\ MinSimilarity \in Nat
  /\ EscalationThreshold \in Nat /\ Window % 2 = 0
<1> DEFINE S == {MaxTurns, Window, TopK, MinSimilarity, EscalationThreshold}
<1>1. S \subseteq Nat
  BY ChatBounds
<1>2. MaxTurns \in S /\ Window \in S /\ TopK \in S /\ MinSimilarity \in S /\ EscalationThreshold \in S
  OBVIOUS
<1> HIDE DEF S
<1> QED BY <1>1, <1>2, ChatBounds

LEMMA QuotientBelow ==
  ASSUME NEW x \in Nat, NEW y \in Nat \ {0}
  PROVE  x \div y \in Nat /\ (x \div y) * y <= x
OBVIOUS

LEMMA ProductGrows ==
  ASSUME NEW a \in Nat, NEW b \in Nat, NEW c \in Nat, a <= b
  PROVE  a * c <= b * c
OBVIOUS

\* The blend of the best and the mean never exceeds the best.
LEMMA ConfidenceIsBelowBest ==
  ASSUME NEW n \in Nat \ {0}, NEW found \in [1..n -> Nat], Len(found) = n,
         \A i \in 1..n : found[i] <= found[1],
         NEW least \in Nat, Confidence(found) >= 100 * least
  PROVE  found[1] >= least
<1> DEFINE b == found[1]
           T == Total(found, n)
           x == 2 * (70 * b * n + 30 * T) + n
<1>1. b \in Nat /\ T \in Nat /\ T <= n * b
  <2>1. 1 \in 1..n
    OBVIOUS
  <2> QED BY <2>1, TotalAtMost, TotalAtLeast
<1>2. PICK m \in Nat : m = n * b
  BY <1>1
<1>3. PICK q : q = Confidence(found)
  OBVIOUS
<1>4. q = x \div (2 * n)
  BY <1>3 DEF Confidence
<1>5. 70 * b * n = 70 * m
  BY <1>1, <1>2
<1> HIDE DEF b, T
<1>6. x \in Nat /\ x <= 200 * m + n
  BY <1>1, <1>2, <1>5
<1>7. 2 * n \in Nat \ {0}
  OBVIOUS
<1> HIDE DEF x
<1>8. q \in Nat /\ q * (2 * n) <= x
  BY <1>4, <1>6, <1>7, QuotientBelow
<1>9. SUFFICES ASSUME b < least PROVE FALSE
  BY <1>1 DEF b
<1>10. 100 * b + 100 \in Nat /\ 100 * b + 100 <= q
  BY <1>1, <1>3, <1>8, <1>9
<1>11. (100 * b + 100) * (2 * n) <= q * (2 * n)
  BY <1>7, <1>8, <1>10, ProductGrows
<1>12. (100 * b + 100) * (2 * n) = 200 * m + 200 * n
  BY <1>1, <1>2
<1>13. q * (2 * n) \in Nat
  BY <1>8
<1> QED BY <1>6, <1>8, <1>11, <1>12, <1>13

\* What retrieve returns is best first, and at most TopK long.
LEMMA RetrieveGives ==
  ASSUME NEW scored \in BestFirst
  PROVE  /\ Len(Retrieve(scored)) \in 0..TopK
         /\ Retrieve(scored) \in [1..Len(Retrieve(scored)) -> Nat]
         /\ Len(Retrieve(scored)) = 0 => Retrieve(scored) = <<>>
         /\ Len(Retrieve(scored)) # 0 => Retrieve(scored) # <<>>
         /\ \A i \in 1..Len(Retrieve(scored)) : Retrieve(scored)[i] <= Retrieve(scored)[1]
<1> DEFINE G == {i \in DOMAIN scored : scored[i] >= MinSimilarity}
           good == Cardinality(G)
           k == IF good < TopK THEN good ELSE TopK
<1>1. PICK m \in 0..(TopK + 1) : scored \in [1..m -> Similarities]
  BY ChatBoundsAre DEF BestFirst, BoundedSeq, SeqOf
<1>2. good \in 0..m
  <2>1. G \in SUBSET (1..m) /\ m \in Nat
    BY <1>1, ChatBoundsAre
  <2>2. IsFiniteSet(1..m) /\ Cardinality(1..m) = m
    BY <2>1, FS_Interval
  <2>3. IsFiniteSet(G) /\ Cardinality(G) <= m
    BY <2>1, <2>2, FS_Subset
  <2>4. Cardinality(G) \in Nat
    BY <2>3, FS_CardinalityType
  <2> HIDE DEF G
  <2> QED BY <2>1, <2>3, <2>4
<1>3. k \in 0..TopK /\ k <= m /\ k \in Int
  BY <1>1, <1>2, ChatBoundsAre
<1>4. PICK r : r = Retrieve(scored)
  OBVIOUS
<1>5. r = SubSeq(scored, 1, k)
  BY <1>4 DEF Retrieve
<1> HIDE DEF k
<1>6. \A i \in 1..k : scored[i] \in Similarities
  BY <1>1, <1>3
<1>7. /\ r \in Seq(Similarities) /\ Len(r) = (IF 1 <= k THEN k - 1 + 1 ELSE 0)
      /\ \A i \in 1..(k - 1 + 1) : r[i] = scored[1 + i - 1]
  BY <1>3, <1>5, <1>6, SubSeqProperties
<1>8. Len(r) = k /\ \A i \in 1..k : r[i] = scored[i]
  BY <1>3, <1>7
<1>9. r \in [1..k -> Nat]
  <2>1. \A x \in Similarities : x \in Nat
    BY ChatBounds
  <2> QED BY <1>7, <1>8, <2>1
<1>10. k = 0 => r = <<>>
  BY <1>7, <1>8
<1>11. k # 0 => r # <<>>
  BY <1>3, <1>7, <1>8
<1>12. \A i \in 1..k : r[i] <= r[1]
  <2>1. ASSUME NEW i \in 1..k
        PROVE  scored[i] <= scored[1]
    <3>1. 1 \in DOMAIN scored /\ i \in DOMAIN scored /\ 1 <= i
      BY <1>1, <1>3
    <3> QED BY <3>1 DEF BestFirst
  <2>2. \A i \in 1..k : 1 \in 1..k
    BY <1>3
  <2> QED BY <1>8, <2>1, <2>2
<1> QED BY <1>3, <1>4, <1>8, <1>9, <1>10, <1>11, <1>12

LEMMA AnswersAreRight ==
  ASSUME NEW scored \in BestFirst, NEW text, NEW reply
  PROVE  ResultRight(AnswerQuestion(text, Retrieve(scored), reply))
<1>1. PICK found : found = Retrieve(scored)
  OBVIOUS
<1>2. /\ Len(found) \in 0..TopK /\ found \in [1..Len(found) -> Nat] /\ TopK \in Nat
      /\ Len(found) = 0 => found = <<>>
      /\ \A i \in 1..Len(found) : found[i] <= found[1]
  BY <1>1, RetrieveGives, ChatBoundsAre
<1>3. \A o \in {"small_talk", "escalated_no_context", "error"} : ResultRight(Result(o, 0, <<>>))
  BY DEF ResultRight, Result, Outcomes
<1>4. ASSUME found # <<>>
      PROVE  ResultRight(Result("escalated_low_confidence", Confidence(found), found))
  BY <1>4 DEF ResultRight, Result, Outcomes
<1>5. ASSUME found # <<>>, ~ (Confidence(found) < 100 * EscalationThreshold)
      PROVE  ResultRight(Result("answered", Confidence(found), found))
  <2>1. PICK n \in Nat \ {0} : n = Len(found)
    <3>1. Len(found) # 0
      BY <1>2, <1>5
    <3>2. Len(found) \in Nat
      BY <1>2
    <3> QED BY <3>1, <3>2
  <2>2. Total(found, n) \in Nat /\ found[1] \in Nat
    BY <1>2, <2>1, TotalAtLeast
  <2>3. Confidence(found) \in Nat
    <3>1. 70 * found[1] * n \in Nat
      BY <2>2
    <3>2. 2 * (70 * found[1] * n + 30 * Total(found, n)) + n \in Nat /\ 2 * n \in Nat \ {0}
      BY <2>2, <3>1
    <3>3. (2 * (70 * found[1] * n + 30 * Total(found, n)) + n) \div (2 * n) \in Nat
      BY <3>2, QuotientBelow
    <3> QED BY <2>1, <3>3 DEF Confidence
  <2>4. Confidence(found) >= 100 * EscalationThreshold
    BY <1>5, <2>3, ChatBoundsAre
  <2>5. found[1] >= EscalationThreshold
    BY <1>2, <2>1, <2>4, ConfidenceIsBelowBest, ChatBoundsAre
  <2>6. Len(found) \in 1..TopK
    BY <1>2, <2>1
  <2> QED BY <1>5, <2>5, <2>6 DEF ResultRight, Result, Outcomes
<1>6. ResultRight(AnswerQuestion(text, found, reply))
  <2>1. CASE text \in Greetings
    BY <1>3, <2>1 DEF AnswerQuestion
  <2>2. CASE text \notin Greetings /\ found = <<>>
    BY <1>3, <2>2 DEF AnswerQuestion
  <2>3. CASE text \notin Greetings /\ found # <<>>
    <3>1. ResultRight(Finalise(found, reply))
      BY <1>3, <1>4, <1>5, <2>3 DEF Finalise
    <3>2. ResultRight(Generate(found, reply))
      BY <1>3, <3>1 DEF Generate
    <3> QED BY <2>3, <3>2 DEF AnswerQuestion
  <2> QED BY <2>1, <2>2, <2>3
<1> QED BY <1>1, <1>6

-----------------------------------------------------------------------------
(***************************************************************************)
(* The history.                                                            *)
(***************************************************************************)

Roles == {"user", "assistant"}

\* Finitely many messages, no two of one role at a time.
IsMessages(M) ==
  /\ IsFiniteSet(M)
  /\ \A x \in M : x.at \in Nat /\ x.role \in Roles
  /\ \A x, y \in M : x.at = y.at /\ x.role = y.role => x = y

Before(m, M, swapped) == {x \in M : Later(x, m, swapped)}

LEMMA LaterIsAnOrder ==
  ASSUME NEW M, IsMessages(M), NEW swapped
  PROVE  /\ \A x \in M : ~ Later(x, x, swapped)
         /\ \A x, y \in M : x # y => Later(x, y, swapped) \/ Later(y, x, swapped)
         /\ \A x, y, z \in M :
              Later(x, y, swapped) /\ Later(y, z, swapped) => Later(x, z, swapped)
<1>1. \A x \in M : ~ Later(x, x, swapped)
  BY DEF IsMessages, Later
<1>2. ASSUME NEW x \in M, NEW y \in M, x # y
      PROVE  Later(x, y, swapped) \/ Later(y, x, swapped)
  <2>1. x.at \in Nat /\ y.at \in Nat /\ x.role \in Roles /\ y.role \in Roles
    BY DEF IsMessages
  <2>2. x.at = y.at => x.role # y.role
    BY <1>2 DEF IsMessages
  <2> QED BY <1>2, <2>1, <2>2 DEF Later, Roles
<1>3. ASSUME NEW x \in M, NEW y \in M, NEW z \in M, Later(x, y, swapped), Later(y, z, swapped)
      PROVE  Later(x, z, swapped)
  <2>1. /\ x.at \in Nat /\ y.at \in Nat /\ z.at \in Nat
        /\ x.role \in Roles /\ y.role \in Roles /\ z.role \in Roles
    BY DEF IsMessages
  <2>2. CASE x.at = y.at /\ y.at = z.at
    <3>1. x.role = y.role
      BY <1>3, <2>1, <2>2 DEF Later, Roles
    <3>2. x = y
      BY <2>2, <3>1 DEF IsMessages
    <3> QED BY <1>1, <1>3, <3>2
  <2>3. CASE x.at # y.at \/ y.at # z.at
    <3>1. x.at >= y.at /\ y.at >= z.at
      BY <1>3, <2>1 DEF Later
    <3>2. x.at > z.at
      BY <2>1, <2>3, <3>1
    <3> QED BY <3>2 DEF Later
  <2> QED BY <2>2, <2>3
<1> QED BY <1>1, <1>2, <1>3

\* The newest n are at most n: each has a number of newer ones of its own.
LEMMA NewestAreFew ==
  ASSUME NEW M, IsMessages(M), NEW swapped, NEW n \in Nat
  PROVE  IsFiniteSet(Newest(M, n, swapped)) /\ Cardinality(Newest(M, n, swapped)) <= n
<1> DEFINE N == Newest(M, n, swapped)
           B(m) == Before(m, M, swapped)
           f == [m \in N |-> Cardinality(B(m))]
<1>1. N \subseteq M /\ \A m \in N : Cardinality(B(m)) < n
  BY DEF Newest, Before
<1>2. \A m \in M : IsFiniteSet(B(m)) /\ Cardinality(B(m)) \in Nat
  <2> SUFFICES ASSUME NEW m \in M
               PROVE  IsFiniteSet(B(m)) /\ Cardinality(B(m)) \in Nat
    OBVIOUS
  <2>1. B(m) \in SUBSET M /\ IsFiniteSet(M)
    BY DEF Before, IsMessages
  <2>2. IsFiniteSet(B(m))
    BY <2>1, FS_Subset
  <2> QED BY <2>2, FS_CardinalityType
<1>3. ASSUME NEW x \in M, NEW y \in M, Later(x, y, swapped)
      PROVE  Cardinality(B(x)) < Cardinality(B(y))
  <2>1. B(x) \in SUBSET B(y)
    BY <1>3, LaterIsAnOrder DEF Before
  <2>2. x \in B(y) /\ x \notin B(x)
    BY <1>3, LaterIsAnOrder DEF Before
  <2>3. Cardinality(B(x)) <= Cardinality(B(y)) /\ (Cardinality(B(y)) = Cardinality(B(x)) => B(y) = B(x))
    BY <1>2, <2>1, FS_Subset
  <2>4. Cardinality(B(x)) # Cardinality(B(y))
    BY <2>2, <2>3
  <2> HIDE DEF B
  <2> QED BY <1>2, <2>3, <2>4
<1> HIDE DEF B
<1>4. f \in [N -> 0..(n - 1)]
  BY <1>1, <1>2 DEF N
<1>5. \A x, y \in N : f[x] = f[y] => x = y
  <2> SUFFICES ASSUME NEW x \in N, NEW y \in N, f[x] = f[y], x # y
               PROVE  FALSE
    OBVIOUS
  <2>1. Later(x, y, swapped) \/ Later(y, x, swapped)
    BY <1>1, LaterIsAnOrder
  <2>2. f[x] = Cardinality(B(x)) /\ f[y] = Cardinality(B(y)) /\ f[x] \in Nat /\ f[y] \in Nat
    BY <1>1, <1>2
  <2> QED BY <1>1, <1>3, <2>1, <2>2
<1>6. f \in Injection(N, 0..(n - 1))
  BY <1>4, <1>5 DEF Injection, IsInjective
<1>7. IsFiniteSet(0..(n - 1)) /\ Cardinality(0..(n - 1)) = n
  <2>1. 0 \in Int /\ n - 1 \in Int
    OBVIOUS
  <2>2. IsFiniteSet(0..(n - 1)) /\ Cardinality(0..(n - 1)) = IF 0 > n - 1 THEN 0 ELSE n - 1 - 0 + 1
    BY <2>1, FS_Interval
  <2> QED BY <2>2
<1> HIDE DEF f, N
<1> QED BY <1>6, <1>7, FS_Injection DEF N

\* Turns before the one that would be the n-th, each at a time of its own.
IsTurns(T, n) == (\A u \in T : u.at \in 1..n) /\ \A u, v \in T : u.at = v.at => u = v

MessagesOf(T) == {[at |-> u.at, role |-> role, text |-> u.text] : u \in T, role \in Roles}

LEMMA TurnsAreFinite ==
  ASSUME NEW n \in Nat, NEW T, IsTurns(T, n)
  PROVE  IsFiniteSet(T)
<1> DEFINE f == [u \in T |-> u.at]
<1>1. f \in Injection(T, 1..n)
  BY DEF IsTurns, Injection, IsInjective
<1>2. IsFiniteSet(1..n)
  BY FS_Interval
<1> QED BY <1>1, <1>2, FS_Injection

LEMMA TwoRoles == IsFiniteSet(Roles) /\ Cardinality(Roles) = 2
<1>1. IsFiniteSet({"user"}) /\ Cardinality({"user"}) = 1
  BY FS_Singleton
<1>2. "assistant" \notin {"user"}
  OBVIOUS
<1>3. IsFiniteSet({"user"} \cup {"assistant"})
      /\ Cardinality({"user"} \cup {"assistant"}) = Cardinality({"user"}) + 1
  BY <1>1, <1>2, FS_AddElement
<1>4. Roles = {"user"} \cup {"assistant"}
  BY DEF Roles
<1> QED BY <1>1, <1>3, <1>4

\* Every turn is two messages.
LEMMA MessagesArePairs ==
  ASSUME NEW n \in Nat, NEW T, IsTurns(T, n)
  PROVE  /\ IsMessages(MessagesOf(T))
         /\ Cardinality(T) \in Nat /\ Cardinality(MessagesOf(T)) = 2 * Cardinality(T)
<1> DEFINE P == T \X Roles
           M == MessagesOf(T)
           g == [x \in P |-> [at |-> x[1].at, role |-> x[2], text |-> x[1].text]]
<1>1. IsFiniteSet(T) /\ Cardinality(T) \in Nat
  BY TurnsAreFinite, FS_CardinalityType
<1>2. IsFiniteSet(P) /\ Cardinality(P) = Cardinality(T) * 2
  BY <1>1, TwoRoles, FS_Product
<1>3. \A m \in M : \E u \in T, role \in Roles : m = [at |-> u.at, role |-> role, text |-> u.text]
  BY DEF MessagesOf
<1>4. \A u \in T, role \in Roles : [at |-> u.at, role |-> role, text |-> u.text] \in M
  BY DEF MessagesOf
<1> HIDE DEF M
<1>5. g \in [P -> M]
  BY <1>4
<1>6. \A x, y \in P : g[x] = g[y] => x = y
  <2> SUFFICES ASSUME NEW x \in P, NEW y \in P, g[x] = g[y]
               PROVE  x = y
    OBVIOUS
  <2>1. g[x].at = x[1].at /\ g[x].role = x[2] /\ g[y].at = y[1].at /\ g[y].role = y[2]
    OBVIOUS
  <2>2. x[1] = y[1] /\ x[2] = y[2]
    BY <2>1 DEF IsTurns
  <2> QED BY <2>2
<1>7. \A m \in M : \E x \in P : g[x] = m
  <2> SUFFICES ASSUME NEW m \in M
               PROVE  \E x \in P : g[x] = m
    OBVIOUS
  <2>1. PICK u \in T, role \in Roles : m = [at |-> u.at, role |-> role, text |-> u.text]
    BY <1>3
  <2>2. <<u, role>> \in P /\ g[<<u, role>>] = m
    BY <2>1
  <2> QED BY <2>2
<1>8. g \in Bijection(P, M)
  BY <1>5, <1>6, <1>7 DEF Bijection, Injection, IsInjective, Surjection
<1>9. IsFiniteSet(M) /\ Cardinality(M) = Cardinality(P)
  <2>1. ExistsBijection(P, M)
    BY <1>8 DEF ExistsBijection
  <2> HIDE DEF P
  <2> QED BY <1>2, <2>1, FS_Bijection
<1>10. \A m \in M : m.at \in Nat /\ m.role \in Roles
  <2> SUFFICES ASSUME NEW m \in M
               PROVE  m.at \in Nat /\ m.role \in Roles
    OBVIOUS
  <2>1. PICK u \in T, role \in Roles : m = [at |-> u.at, role |-> role, text |-> u.text]
    BY <1>3
  <2>2. u.at \in 1..n
    BY DEF IsTurns
  <2> QED BY <2>1, <2>2
<1>11. \A x, y \in M : x.at = y.at /\ x.role = y.role => x = y
  <2> SUFFICES ASSUME NEW x \in M, NEW y \in M, x.at = y.at, x.role = y.role
               PROVE  x = y
    OBVIOUS
  <2>1. PICK u \in T, p \in Roles : x = [at |-> u.at, role |-> p, text |-> u.text]
    BY <1>3
  <2>2. PICK v \in T, q \in Roles : y = [at |-> v.at, role |-> q, text |-> v.text]
    BY <1>3
  <2>3. u.at = v.at /\ p = q
    BY <2>1, <2>2
  <2>4. u = v
    BY <2>3 DEF IsTurns
  <2> QED BY <2>1, <2>2, <2>3, <2>4
<1>12. Cardinality(T) * 2 = 2 * Cardinality(T)
  BY <1>1
<1> QED BY <1>1, <1>2, <1>9, <1>10, <1>11, <1>12 DEF IsMessages, M

LEMMA SubsetIsMessages ==
  ASSUME NEW M, IsMessages(M), NEW K \in SUBSET M
  PROVE  IsMessages(K)
<1>1. IsFiniteSet(K)
  BY FS_Subset DEF IsMessages
<1> QED BY <1>1 DEF IsMessages

HasWholeTurns(H, text) ==
  \A m \in H : m.text # text => Cardinality({x \in H : x.at = m.at}) = 2

(***************************************************************************)
(* The window is even and the question itself takes one place: where one   *)
(* message of a turn is in it, so is the other, whichever comes first.     *)
(***************************************************************************)
LEMMA HistoryIsWhole ==
  ASSUME NEW c, NEW n \in Nat, IsTurns(talk[c], n), NEW text, NEW swapped
  PROVE  /\ IsFiniteSet(History(c, n + 1, text, swapped))
         /\ Cardinality(History(c, n + 1, text, swapped)) <= Window
         /\ HasWholeTurns(History(c, n + 1, text, swapped), text)
<1>1. PICK T, M, own : /\ T = talk[c] /\ M = MessagesOf(T)
                       /\ own = [at |-> n + 1, role |-> "user", text |-> text]
  OBVIOUS
<1>2. PICK A : A = M \cup {own}
  OBVIOUS
<1>3. PICK R : R = Newest(A, Window + 1, swapped)
  OBVIOUS
<1>4. PICK K : K = {m \in R : ~ (m.role = "user" /\ m.text = text)}
  OBVIOUS
<1>5. PICK H : H = Newest(K, Window, swapped)
  OBVIOUS
<1>6. H = History(c, n + 1, text, swapped)
  <2>1. Messages(c) = M
    BY <1>1 DEF Messages, MessagesOf, Roles
  <2> QED BY <1>1, <1>2, <1>3, <1>4, <1>5, <2>1 DEF History
<1>7. IsMessages(M) /\ \A m \in M : m.at \in 1..n
  <2>1. IsMessages(M)
    BY <1>1, MessagesArePairs
  <2>2. ASSUME NEW m \in M
        PROVE  m.at \in 1..n
    <3>1. PICK u \in T, role \in Roles : m = [at |-> u.at, role |-> role, text |-> u.text]
      BY <1>1 DEF MessagesOf
    <3> QED BY <1>1, <3>1 DEF IsTurns
  <2> QED BY <2>1, <2>2
<1>8. own.at = n + 1 /\ own.role = "user" /\ own.text = text /\ own \notin M
  BY <1>1, <1>7
<1>9. IsMessages(A)
  <2>1. IsFiniteSet(A)
    BY <1>2, <1>7, FS_AddElement DEF IsMessages
  <2>2. \A x \in A : x.at \in Nat /\ x.role \in Roles
    BY <1>2, <1>7, <1>8 DEF IsMessages, Roles
  <2>3. \A x, y \in A : x.at = y.at /\ x.role = y.role => x = y
    BY <1>2, <1>7, <1>8 DEF IsMessages
  <2> QED BY <2>1, <2>2, <2>3 DEF IsMessages
<1>10. R \in SUBSET A /\ K \in SUBSET R /\ H \in SUBSET K /\ own \notin K /\ K \in SUBSET M
  BY <1>2, <1>3, <1>4, <1>5, <1>8 DEF Newest
<1>11. IsMessages(K)
  BY <1>7, <1>10, SubsetIsMessages
<1>12. IsFiniteSet(H) /\ Cardinality(H) <= Window
  BY <1>5, <1>11, NewestAreFew, ChatBoundsAre
<1>13. ASSUME NEW m \in H, m.text # text
       PROVE  Cardinality({x \in H : x.at = m.at}) = 2
  <2>1. m \in K /\ m \in R /\ m \in A /\ m \in M /\ Cardinality(Before(m, A, swapped)) < Window + 1
    BY <1>3, <1>10 DEF Newest, Before
  <2>2. PICK u \in T, role \in Roles : m = [at |-> u.at, role |-> role, text |-> u.text]
    BY <1>1, <2>1 DEF MessagesOf
  <2>3. PICK other \in Roles : other # role /\ \A r \in Roles : r \in {role, other}
    BY <2>2 DEF Roles
  <2>4. PICK p : p = [at |-> u.at, role |-> other, text |-> u.text]
    OBVIOUS
  <2>5. p \in M /\ p \in A /\ p.at = m.at /\ p.role # m.role /\ p # m /\ p.text = m.text
    <3>1. p \in M
      BY <1>1, <2>4 DEF MessagesOf
    <3>2. p.at = m.at /\ p.role # m.role /\ p.text = m.text
      BY <2>2, <2>3, <2>4
    <3> QED BY <1>2, <3>1, <3>2
  <2>6. \A x \in M : x.at = m.at => x \in {m, p}
    <3> SUFFICES ASSUME NEW x \in M, x.at = m.at
                 PROVE  x \in {m, p}
      OBVIOUS
    <3>1. x.role \in {m.role, p.role}
      BY <1>7, <2>2, <2>3, <2>4 DEF IsMessages
    <3> QED BY <1>7, <2>1, <2>5, <3>1 DEF IsMessages
  <2> DEFINE L == {v \in T : v.at > u.at}
             N == MessagesOf(L)
  <2>7. Cardinality(L) \in Nat /\ Cardinality(N) = 2 * Cardinality(L) /\ IsFiniteSet(N)
    <3>1. IsTurns(L, n)
      BY <1>1 DEF IsTurns
    <3> HIDE DEF L
    <3> QED BY <3>1, MessagesArePairs DEF IsMessages
  <2>8. \A x : x \in N <=> x \in M /\ x.at > m.at
    <3>1. \A x \in N : x \in M /\ x.at > m.at
      <4> SUFFICES ASSUME NEW x \in N
                   PROVE  x \in M /\ x.at > m.at
        OBVIOUS
      <4>1. PICK v \in L, q \in Roles : x = [at |-> v.at, role |-> q, text |-> v.text]
        BY DEF MessagesOf
      <4>2. v \in T /\ v.at > u.at
        BY <4>1
      <4> QED BY <1>1, <2>2, <4>1, <4>2 DEF MessagesOf
    <3>2. ASSUME NEW x \in M, x.at > m.at
          PROVE  x \in N
      <4>1. PICK v \in T, q \in Roles : x = [at |-> v.at, role |-> q, text |-> v.text]
        BY <1>1 DEF MessagesOf
      <4>2. v \in L
        BY <2>2, <3>2, <4>1
      <4> HIDE DEF L
      <4> QED BY <4>1, <4>2 DEF MessagesOf
    <3> HIDE DEF N
    <3> QED BY <3>1, <3>2
  <2> HIDE DEF L, N
  <2>9. PICK k \in Nat : k = Cardinality(L)
    BY <2>7
  <2>10. PICK Up : Up = N \cup {own}
    OBVIOUS
  <2>11. IsFiniteSet(Up) /\ Cardinality(Up) = 2 * k + 1 /\ m \notin Up /\ p \notin Up
    <3>1. own \notin N
      BY <1>8, <2>8
    <3>2. m \notin N /\ p \notin N
      <4>1. m.at \in Nat
        BY <1>7, <2>1 DEF IsMessages
      <4> QED BY <2>5, <2>8, <4>1
    <3>3. m # own /\ p # own
      BY <1>8, <2>1, <2>5
    <3>4. IsFiniteSet(Up) /\ Cardinality(Up) = Cardinality(N) + 1
      BY <2>7, <2>10, <3>1, FS_AddElement
    <3> QED BY <2>7, <2>9, <2>10, <3>2, <3>3, <3>4
  <2>12. \A x \in {m, p}, y \in A :
           Later(y, x, swapped) <=> y \in Up \/ (y \in {m, p} /\ y # x /\ Later(y, x, swapped))
    <3> SUFFICES ASSUME NEW x \in {m, p}, NEW y \in A
                 PROVE  Later(y, x, swapped) <=>
                          y \in Up \/ (y \in {m, p} /\ y # x /\ Later(y, x, swapped))
      OBVIOUS
    <3>1. x.at = m.at /\ x.at \in 1..n /\ x \in M
      BY <1>7, <2>1, <2>5
    <3>2. CASE y = own
      BY <1>8, <2>10, <3>1, <3>2 DEF Later
    <3>3. CASE y # own
      <4>1. y \in M /\ y.at \in Nat
        BY <1>2, <1>7, <3>3 DEF IsMessages
      <4>2. y \in Up <=> y.at > m.at
        BY <2>8, <2>10, <3>3, <4>1
      <4>3. Later(y, x, swapped) => y.at > m.at \/ (y.at = m.at /\ y # x)
        BY <3>1 DEF Later
      <4>4. y.at > m.at => Later(y, x, swapped)
        BY <3>1 DEF Later
      <4> QED BY <2>6, <4>1, <4>2, <4>3, <4>4
    <3> QED BY <3>2, <3>3
  <2>13. Later(m, p, swapped) \/ Later(p, m, swapped)
    BY <1>9, <2>1, <2>5, LaterIsAnOrder
  <2>14. Cardinality(Before(p, A, swapped)) <= Window /\ IsFiniteSet(Before(p, A, swapped))
    <3>1. IsFiniteSet(Before(m, A, swapped)) /\ IsFiniteSet(Before(p, A, swapped))
      <4>1. Before(m, A, swapped) \in SUBSET A /\ Before(p, A, swapped) \in SUBSET A
        BY DEF Before
      <4> QED BY <1>9, <4>1, FS_Subset DEF IsMessages
    <3>2. Cardinality(Before(m, A, swapped)) \in Nat /\ Cardinality(Before(p, A, swapped)) \in Nat
      BY <3>1, FS_CardinalityType
    <3>3. CASE Later(p, m, swapped)
      <4>1. Before(p, A, swapped) \in SUBSET Before(m, A, swapped)
        BY <1>9, <2>1, <2>5, <3>3, LaterIsAnOrder DEF Before
      <4>2. Cardinality(Before(p, A, swapped)) <= Cardinality(Before(m, A, swapped))
        BY <3>1, <4>1, FS_Subset
      <4> QED BY <2>1, <3>1, <3>2, <4>2, ChatBoundsAre
    <3>4. CASE Later(m, p, swapped) /\ ~ Later(p, m, swapped)
      <4>1. \A y \in Up : y \in A
        BY <1>2, <2>8, <2>10
      <4>2. Before(m, A, swapped) = Up
        BY <2>12, <3>4, <4>1 DEF Before
      <4>3. Before(p, A, swapped) = Up \cup {m}
        BY <2>1, <2>5, <2>12, <3>4, <4>1 DEF Before
      <4>4. Cardinality(Up \cup {m}) = 2 * k + 2
        <5>1. Cardinality(Up \cup {m}) = Cardinality(Up) + 1
          BY <2>11, FS_AddElement
        <5> QED BY <2>11, <5>1
      <4>5. 2 * k + 1 < Window + 1
        BY <2>1, <2>11, <4>2
      <4>6. PICK w \in Nat : Window = 2 * w
        <5>1. Window = 2 * (Window \div 2) /\ Window \div 2 \in Nat
          BY ChatBoundsAre
        <5> QED BY <5>1
      <4>7. 2 * k + 2 <= Window
        BY <4>5, <4>6
      <4> QED BY <3>1, <4>3, <4>4, <4>7
    <3> QED BY <2>13, <3>3, <3>4
  <2>15. p \in R /\ p \in K
    <3>1. Cardinality(Before(p, A, swapped)) \in Nat
      BY <2>14, FS_CardinalityType
    <3>2. p \in R
      BY <1>3, <2>5, <2>14, <3>1, ChatBoundsAre DEF Newest, Before
    <3> QED BY <1>4, <1>13, <2>5, <3>2
  <2>16. p \in H
    <3>1. own \in Before(p, A, swapped)
      BY <1>2, <1>7, <1>8, <2>5 DEF Before, Later
    <3>2. Before(p, K, swapped) \in SUBSET (Before(p, A, swapped) \ {own})
      BY <1>2, <1>10 DEF Before
    <3>3. IsFiniteSet(Before(p, A, swapped) \ {own})
          /\ Cardinality(Before(p, A, swapped) \ {own}) = Cardinality(Before(p, A, swapped)) - 1
      BY <2>14, <3>1, FS_RemoveElement
    <3>4. Cardinality(Before(p, K, swapped)) <= Cardinality(Before(p, A, swapped)) - 1
          /\ IsFiniteSet(Before(p, K, swapped))
      BY <3>2, <3>3, FS_Subset
    <3>5. Cardinality(Before(p, K, swapped)) \in Nat /\ Cardinality(Before(p, A, swapped)) \in Nat
      BY <2>14, <3>4, FS_CardinalityType
    <3>6. Cardinality(Before(p, K, swapped)) < Window
      BY <2>14, <3>4, <3>5, ChatBoundsAre
    <3> QED BY <1>5, <2>15, <3>6 DEF Newest, Before
  <2>17. {x \in H : x.at = m.at} = {m} \cup {p}
    BY <1>10, <2>5, <2>6, <2>16
  <2>18. IsFiniteSet({m}) /\ Cardinality({m}) = 1 /\ p \notin {m}
    BY <2>5, FS_Singleton
  <2>19. Cardinality({m} \cup {p}) = Cardinality({m}) + 1
    BY <2>18, FS_AddElement
  <2> QED BY <2>17, <2>18, <2>19
<1>14. HasWholeTurns(H, text)
  BY <1>13 DEF HasWholeTurns
<1> QED BY <1>6, <1>12, <1>14

-----------------------------------------------------------------------------
(***************************************************************************)
(* The conversations.                                                      *)
(***************************************************************************)

AskRight(a) ==
  /\ a.of \in Threads /\ a.at \in 1..turns /\ a.text \in Questions
  /\ Cardinality(a.history) <= Window /\ HasWholeTurns(a.history, a.text)
  /\ \A u \in Turns : u.at # a.at

ChatInv ==
  /\ DOMAIN talk = Threads /\ DOMAIN ask = Asks /\ turns \in 0..MaxTurns
  /\ \A u \in Turns : u.at \in 1..turns /\ u.text \in Questions /\ ResultRight(u.result)
  /\ \A u, v \in Turns : u.at = v.at => u = v
  /\ \A t \in Asks : ask[t] # Waiting => AskRight(ask[t])
  /\ \A s, t \in Asks : ask[s] # Waiting /\ ask[t] # Waiting /\ s # t => ask[s].at # ask[t].at

LEMMA EscalationsAreCounted ==
  ASSUME ChatInv
  PROVE  EscalationsAddUp
<1> DEFINE Q == Turns \ With("small_talk")
           A == With("answered")
           E == {u \in Turns : u.result.escalated}
<1>1. IsFiniteSet(Turns)
  <2>1. IsTurns(Turns, turns) /\ turns \in Nat
    BY ChatBoundsAre DEF IsTurns, ChatInv
  <2> QED BY <2>1, TurnsAreFinite
<1>2. \A u \in Turns : u.result.escalated <=> u.result.outcome \notin {"answered", "small_talk"}
  BY DEF ChatInv, ResultRight
<1>3. A \in SUBSET Q /\ Q \ A = E /\ Q \in SUBSET Turns /\ Q \cap A = A
  BY <1>2 DEF With
<1>4. QuestionsTotal = Cardinality(Q) /\ Answered = Cardinality(A)
  BY DEF QuestionsTotal, Answered
<1> HIDE DEF Q, A
<1>5. IsFiniteSet(Q)
  BY <1>1, <1>3, FS_Subset
<1>6. Cardinality(Q \ A) = Cardinality(Q) - Cardinality(Q \cap A)
  BY <1>5, FS_Difference
<1> QED BY <1>3, <1>4, <1>6 DEF EscalationsAddUp, Escalated

LEMMA ChatShows ==
  ASSUME ChatInv
  PROVE  ChatTypeOK /\ ConversationIsRight
<1>1. ChatTypeOK
  BY DEF ChatInv, ChatTypeOK, ResultRight, AskRight
<1>2. AnswersAreGrounded
  BY DEF ChatInv, AnswersAreGrounded, With, ResultRight
<1>3. HistoryHasWholeTurns
  BY DEF ChatInv, HistoryHasWholeTurns, AskRight, HasWholeTurns
<1> QED BY <1>1, <1>2, <1>3, EscalationsAreCounted DEF ConversationIsRight

\* Time goes on, turns go away: what holds of those that stay still does.
LEMMA TurnsLess ==
  ASSUME ChatInv, Turns' \subseteq Turns, turns' = turns,
         DOMAIN talk' = Threads, DOMAIN ask' = Asks,
         \A t \in Asks : ask'[t] # Waiting => ask'[t] = ask[t]
  PROVE  ChatInv'
<1>1. \A u \in Turns' : u.at \in 1..turns' /\ u.text \in Questions /\ ResultRight(u.result)
  BY DEF ChatInv
<1>2. \A u, v \in Turns' : u.at = v.at => u = v
  BY DEF ChatInv
<1>3. ASSUME NEW t \in Asks, ask'[t] # Waiting
      PROVE  AskRight(ask[t])'
  <2>1. AskRight(ask[t]) /\ ask'[t] = ask[t]
    BY <1>3 DEF ChatInv
  <2> QED BY <2>1 DEF AskRight
<1>4. \A s, t \in Asks : ask'[s] # Waiting /\ ask'[t] # Waiting /\ s # t => ask'[s].at # ask'[t].at
  BY DEF ChatInv
<1>5. turns' \in 0..MaxTurns
  BY DEF ChatInv
<1> QED BY <1>1, <1>2, <1>3, <1>4, <1>5 DEF ChatInv, Waiting, ResultRight

LEMMA BeginAskStep ==
  ASSUME ChatInv, NEW t \in Asks, NEW c \in Threads, NEW text \in Questions, BeginAsk(t, c, text)
  PROVE  ChatInv'
<1>1. /\ turns < MaxTurns /\ turns' = turns + 1 /\ talk' = talk
      /\ turns \in Nat /\ turns' \in 0..MaxTurns
  BY ChatBoundsAre DEF BeginAsk, ChatInv
<1> DEFINE new == talk[c] = NoThread
<1>2. PICK swapped, a : /\ ask' = [ask EXCEPT ![t] = a]
                        /\ a = [of |-> c, new |-> new, at |-> turns + 1, text |-> text,
                                history |-> IF new THEN {} ELSE History(c, turns + 1, text, swapped)]
  BY DEF BeginAsk
<1>3. Turns' = Turns
  BY <1>1 DEF Turns
<1>4. Cardinality(a.history) <= Window /\ HasWholeTurns(a.history, text)
  <2>1. CASE new
    <3>1. a.history = {}
      BY <1>2, <2>1
    <3> QED BY <3>1, FS_EmptySet, ChatBoundsAre DEF HasWholeTurns
  <2>2. CASE ~ new
    <3>1. \A u \in talk[c] : u \in Turns
      BY <2>2 DEF Turns
    <3>2. IsTurns(talk[c], turns)
      BY <3>1 DEF IsTurns, ChatInv
    <3>3. a.history = History(c, turns + 1, text, swapped)
      BY <1>2, <2>2
    <3>4. turns \in Nat
      BY <1>1
    <3>5. /\ Cardinality(History(c, turns + 1, text, swapped)) <= Window
          /\ HasWholeTurns(History(c, turns + 1, text, swapped), text)
      BY <3>2, <3>4, HistoryIsWhole
    <3> QED BY <3>3, <3>5
  <2> QED BY <2>1, <2>2
<1>5. a.of = c /\ a.at = turns + 1 /\ a.text = text
  BY <1>2
<1>6. ask'[t] = a /\ DOMAIN ask' = Asks /\ \A s \in Asks : s # t => ask'[s] = ask[s]
  BY <1>2 DEF ChatInv
<1>7. \A u \in Turns : u.at \in 1..turns
  BY DEF ChatInv
<1>8. ASSUME NEW s \in Asks, ask'[s] # Waiting
      PROVE  AskRight(ask[s])'
  <2>1. CASE s = t
    BY <1>1, <1>3, <1>4, <1>5, <1>6, <1>7, <2>1 DEF AskRight
  <2>2. CASE s # t
    <3>1. AskRight(ask[s]) /\ ask'[s] = ask[s]
      BY <1>6, <1>8, <2>2 DEF ChatInv
    <3> QED BY <1>1, <1>3, <3>1 DEF AskRight
  <2> QED BY <2>1, <2>2
<1>9. \A s \in Asks : s # t /\ ask'[s] # Waiting => ask'[s].at \in 1..turns
  BY <1>6 DEF ChatInv, AskRight
<1>10. \A s, r \in Asks : ask'[s] # Waiting /\ ask'[r] # Waiting /\ s # r => ask'[s].at # ask'[r].at
  BY <1>1, <1>5, <1>6, <1>9 DEF ChatInv
<1>11. \A u \in Turns' : u.at \in 1..turns' /\ u.text \in Questions /\ ResultRight(u.result)
  BY <1>1, <1>3 DEF ChatInv
<1>12. \A u, v \in Turns' : u.at = v.at => u = v
  BY <1>3 DEF ChatInv
<1> QED BY <1>1, <1>6, <1>8, <1>10, <1>11, <1>12 DEF ChatInv, Waiting, ResultRight

LEMMA CommitAskStep ==
  ASSUME ChatInv, NEW t \in Asks, NEW result, ResultRight(result), CommitAsk(t, result)
  PROVE  ChatInv'
<1>1. PICK a, new : a = ask[t] /\ new = [at |-> a.at, text |-> a.text, result |-> result]
  OBVIOUS
<1>2. /\ a # Waiting /\ ask' = [ask EXCEPT ![t] = Waiting] /\ turns' = turns
      /\ talk' = [talk EXCEPT ![a.of] = (IF a.new THEN {} ELSE talk[a.of]) \cup {new}]
      /\ a.new \/ talk[a.of] # NoThread
  BY <1>1 DEF CommitAsk, ChatInv
<1>3. AskRight(a)
  BY <1>1, <1>2 DEF ChatInv
<1>4. DOMAIN talk' = Threads /\ DOMAIN ask' = Asks
  BY <1>2 DEF ChatInv
<1>5. Turns' \subseteq Turns \cup {new}
  <2>1. a.of \in Threads
    BY <1>3 DEF AskRight
  <2>2. \A c \in Threads : c # a.of => talk'[c] = talk[c]
    BY <1>2 DEF ChatInv
  <2>3. talk'[a.of] = (IF a.new THEN {} ELSE talk[a.of]) \cup {new}
    BY <1>2, <2>1 DEF ChatInv
  <2>4. ASSUME NEW c \in Threads, talk'[c] # NoThread, NEW u \in talk'[c]
        PROVE  u \in Turns \cup {new}
    <3>1. CASE c = a.of
      <4>1. u = new \/ (~ a.new /\ u \in talk[a.of])
        BY <2>3, <2>4, <3>1
      <4> QED BY <1>2, <2>1, <4>1 DEF Turns
    <3>2. CASE c # a.of
      BY <2>2, <2>4, <3>2 DEF Turns
    <3> QED BY <3>1, <3>2
  <2> QED BY <2>4 DEF Turns
<1>6. \A s \in Asks : s # t => ask'[s] = ask[s]
  BY <1>2 DEF ChatInv
<1>7. ask'[t] = Waiting
  BY <1>2 DEF ChatInv
<1>8. new.at = a.at /\ new.text = a.text /\ new.result = result
  BY <1>1
<1>9. \A u \in Turns' : u.at \in 1..turns' /\ u.text \in Questions /\ ResultRight(u.result)
  BY <1>2, <1>3, <1>5, <1>8 DEF ChatInv, AskRight
<1>10. \A u, v \in Turns' : u.at = v.at => u = v
  BY <1>3, <1>5, <1>8 DEF ChatInv, AskRight
<1>11. ASSUME NEW s \in Asks, ask'[s] # Waiting
       PROVE  AskRight(ask[s])'
  <2>1. s # t /\ ask'[s] = ask[s] /\ AskRight(ask[s]) /\ ask[s].at # a.at
    BY <1>1, <1>2, <1>6, <1>7, <1>11 DEF ChatInv
  <2>2. \A u \in Turns' : u.at # ask[s].at
    BY <1>5, <1>8, <2>1 DEF AskRight
  <2> QED BY <1>2, <2>1, <2>2 DEF AskRight
<1>12. \A s, r \in Asks : ask'[s] # Waiting /\ ask'[r] # Waiting /\ s # r => ask'[s].at # ask'[r].at
  BY <1>6, <1>7 DEF ChatInv
<1>13. turns' \in 0..MaxTurns
  BY <1>2 DEF ChatInv
<1> QED BY <1>4, <1>9, <1>10, <1>11, <1>12, <1>13 DEF ChatInv, Waiting, ResultRight

LEMMA ChatStarts == ChatInit => ChatInv
<1> SUFFICES ASSUME ChatInit PROVE ChatInv
  OBVIOUS
<1>1. Turns = {}
  BY DEF ChatInit, Turns
<1>2. \A t \in Asks : ask[t] = Waiting
  BY DEF ChatInit
<1> QED BY <1>1, <1>2, ChatBoundsAre DEF ChatInit, ChatInv

LEMMA ChatSteps == ChatInv /\ [ChatNext]_chatVars => ChatInv'
<1> SUFFICES ASSUME ChatInv, [ChatNext]_chatVars PROVE ChatInv'
  OBVIOUS
<1>1. CASE UNCHANGED chatVars
  <2>1. Turns' = Turns
    BY <1>1 DEF chatVars, Turns
  <2> QED BY <1>1, <2>1, TurnsLess DEF chatVars, ChatInv
<1>2. ASSUME NEW t \in Asks, AnswerAsk(t)
      PROVE  ChatInv'
  <2>1. ResultRight(Result("error", 0, <<>>))
    BY DEF ResultRight, Result, Outcomes
  <2> QED BY <1>2, <2>1, AnswersAreRight, CommitAskStep DEF AnswerAsk
<1>3. ASSUME NEW t \in Asks, AbandonAsk(t)
      PROVE  ChatInv'
  <2>1. Turns' = Turns
    BY <1>3 DEF AbandonAsk, Turns
  <2>2. DOMAIN ask' = Asks /\ \A s \in Asks : ask'[s] # Waiting => ask'[s] = ask[s]
    BY <1>3 DEF AbandonAsk, ChatInv
  <2> QED BY <1>3, <2>1, <2>2, TurnsLess DEF AbandonAsk, ChatInv
<1>4. ASSUME NEW c \in Threads, DeleteConversation(c)
      PROVE  ChatInv'
  <2>1. DOMAIN talk' = Threads /\ talk'[c] = NoThread /\ \A d \in Threads : d # c => talk'[d] = talk[d]
    BY <1>4 DEF DeleteConversation, ChatInv
  <2>2. Turns' \subseteq Turns
    BY <2>1 DEF Turns
  <2> QED BY <1>4, <2>1, <2>2, TurnsLess DEF DeleteConversation, ChatInv
<1> QED BY <1>1, <1>2, <1>3, <1>4, BeginAskStep DEF ChatNext

-----------------------------------------------------------------------------
(***************************************************************************)
(* The theorems.                                                           *)
(***************************************************************************)

\* The documents and their index, on their own: the figures HR sees are those of
\* the index, a document's chunks are those of one ingestion, and an old text is
\* served only while its successor is on the way, or after a mishap. The counts
\* and the texts are those of documents whose ingestions were not overtaken.
THEOREM IndexStaysRight == KbSpec => [](KbTypeOK /\ IndexDescribesText)
<1>1. KbInv => KbTypeOK /\ IndexDescribesText
  BY InvariantShows
<1> QED BY <1>1, KbStarts, KbSteps, PTL DEF KbSpec

\* The conversations on their own: answers are grounded, escalations add up and
\* the history replayed has whole turns.
THEOREM ConversationsStayRight == ChatSpec => [](ChatTypeOK /\ ConversationIsRight)
<1>1. ChatInv => ChatTypeOK /\ ConversationIsRight
  BY ChatShows
<1> QED BY <1>1, ChatStarts, ChatSteps, PTL DEF ChatSpec

\* The three invariants of the runs, of the two halves together.
THEOREM AssistantIsRight == MCSpec => [](AssistantTypeOK /\ IndexDescribesText /\ ConversationIsRight)
<1>1. MCInit => KbInv /\ ChatInv
  BY KbStarts, ChatStarts DEF MCInit
<1>2. KbInv /\ ChatInv /\ [MCNext]_<<kbVars, chatVars, half>> => KbInv' /\ ChatInv'
  <2>1. [MCNext]_<<kbVars, chatVars, half>> => [KbNext]_kbVars /\ [ChatNext]_chatVars
    BY DEF MCNext
  <2> QED BY <2>1, KbSteps, ChatSteps
<1>3. KbInv /\ ChatInv => AssistantTypeOK /\ IndexDescribesText /\ ConversationIsRight
  BY InvariantShows, ChatShows DEF AssistantTypeOK
<1> QED BY <1>1, <1>2, <1>3, PTL DEF MCSpec
=============================================================================
