-------------------------------- MODULE Chat --------------------------------
(***************************************************************************)
(* The assistant: conversations, the passages retrieved for a question,    *)
(* the confidence gate before an answer, and the analytics HR sees         *)
(* (api/v1/chat.py, services/chat.py, services/retrieval.py). Similarities *)
(* and thresholds are in percent, confidences in hundredths of a percent.  *)
(***************************************************************************)
EXTENDS Integers, FiniteSets, SequencesExt, DaySums

CONSTANTS
  Threads,      \* the conversations' ids
  Questions,    \* what is asked; Greetings are the small talk among them
  Greetings,
  ChatProviders,  \* the CHAT_PROVIDERs deployed
  Asks,         \* the threads serving requests
  MaxTurns,     \* bound: questions ever asked
  Window,       \* HISTORY_TURNS
  TopK, MinSimilarity, EscalationThreshold,  \* the settings of those names
  Similarities, \* the similarities passages have
  NoThread      \* no conversation; an idle thread

ASSUME ChatBounds ==
  /\ {MaxTurns, Window, TopK, MinSimilarity, EscalationThreshold} \subseteq Nat
  /\ Window % 2 = 0
  /\ Greetings \subseteq Questions /\ Similarities \subseteq 0..100

\* What comes back from a provider, as its class tells it apart: the text, no
\* text, INSUFFICIENT_CONTEXT in the text, and the ways to get none at all.
ClaudeReplies == {"text", "marker", "empty", "status error", "failure", "refusal"}
GroqReplies == {"text", "marker", "empty", "no choice", "status error", "failure", "content filter"}
StubReplies == {"text"}

\* get_generator: the one CHAT_PROVIDER names.
RepliesOf(provider) ==
  CASE provider = "stub" -> StubReplies
    [] provider = "groq" -> GroqReplies
    [] OTHER             -> ClaudeReplies

Outcomes == {"answered", "escalated_no_context", "escalated_low_confidence", "error", "small_talk"}

VARIABLES
  talk,   \* conversation -> its turns, each a question and an answer, or NoThread
  ask,    \* thread -> the question it is answering
  turns   \* transactions begun: the order of their created_at

chatVars == <<talk, ask, turns>>

-----------------------------------------------------------------------------
(***************************************************************************)
(* Retrieval and the answer.                                               *)
(***************************************************************************)

\* retrieve: of the passages, best first, those good enough, TopK of them.
Retrieve(scored) ==
  LET good == Cardinality({i \in DOMAIN scored : scored[i] >= MinSimilarity})
  IN  SubSeq(scored, 1, IF good < TopK THEN good ELSE TopK)

BestFirst == {s \in BoundedSeq(Similarities, TopK + 1) : \A i, j \in DOMAIN s : i <= j => s[j] <= s[i]}

\* Mutant: the sum in place of the mean.
ConfidenceOfSum(found) == 70 * found[1] + 30 * Total(found, Len(found))

\* _confidence_from: 0.7 * best + 0.3 * mean, rounded, of an answer that was given.
Confidence(found) ==
  LET n == Len(found)
  IN  (2 * (70 * found[1] * n + 30 * Total(found, n)) + n) \div (2 * n)

Result(outcome, confidence, cited) ==
  [outcome |-> outcome, confidence |-> confidence, cited |-> cited,
   escalated |-> outcome \notin {"answered", "small_talk"}]

\* Mutant: the passages are listed with the message that nothing was found.
FinaliseCiting(found, reply) ==
  IF reply # "text" THEN Result("escalated_no_context", 0, found)
  ELSE IF Confidence(found) < 100 * EscalationThreshold
       THEN Result("escalated_low_confidence", Confidence(found), found)
       ELSE Result("answered", Confidence(found), found)

\* _finalise: the marker, then the confidence gate.
Finalise(found, reply) ==
  IF reply # "text" THEN Result("escalated_no_context", 0, <<>>)
  ELSE IF Confidence(found) < 100 * EscalationThreshold
       THEN Result("escalated_low_confidence", Confidence(found), found)
       ELSE Result("answered", Confidence(found), found)

\* generate: no answer at all is an error, whatever came back is looked at.
Generate(found, reply) ==
  IF reply \in {"status error", "failure", "refusal", "content filter"}
  THEN Result("error", 0, <<>>)
  ELSE Finalise(found, reply)

\* answer_question
AnswerQuestion(text, found, reply) ==
  IF text \in Greetings THEN Result("small_talk", 0, <<>>)
  ELSE IF found = <<>> THEN Result("escalated_no_context", 0, <<>>)
  ELSE Generate(found, reply)

-----------------------------------------------------------------------------
(***************************************************************************)
(* The history replayed with a question. created_at is the time a          *)
(* transaction began, the same for a question and its answer: the order of *)
(* the two is the database's choice.                                       *)
(***************************************************************************)
Messages(c) ==
  {[at |-> u.at, role |-> role, text |-> u.text] : u \in talk[c], role \in {"user", "assistant"}}

\* created_at DESC. swapped are the turns whose answer the database gives as the
\* older of the two.
Later(x, y, swapped) ==
  x.at > y.at \/ (x.at = y.at /\ x # y /\ ((x.role = "assistant") <=> (x.at \notin swapped)))

\* The newest n of a set of messages.
Newest(M, n, swapped) == {m \in M : Cardinality({x \in M : Later(x, m, swapped)}) < n}

\* Mutant: there is no room for the question itself.
HistoryShort(c, at, text, swapped) ==
  LET rows == Newest(Messages(c) \cup {[at |-> at, role |-> "user", text |-> text]}, Window, swapped)
  IN  Newest({m \in rows : ~ (m.role = "user" /\ m.text = text)}, Window, swapped)

\* "Drop the question just inserted": and all that read the same. The
\* reading follows the beginning of the transaction at once; the order in which
\* the messages are replayed is left out.
History(c, at, text, swapped) ==
  LET rows == Newest(Messages(c) \cup {[at |-> at, role |-> "user", text |-> text]},
                     Window + 1, swapped)
  IN  Newest({m \in rows : ~ (m.role = "user" /\ m.text = text)}, Window, swapped)

-----------------------------------------------------------------------------
Waiting == [of |-> NoThread]

ChatInit ==
  /\ talk = [c \in Threads |-> NoThread]
  /\ ask = [t \in Asks |-> Waiting]
  /\ turns = 0

\* POST /chat/ask up to the call of the model, in a conversation or a new one.
BeginAsk(t, c, text) ==
  /\ ask[t] = Waiting /\ turns < MaxTurns
  /\ talk[c] = NoThread => \A u \in Asks : ask[u].of # c
  /\ turns' = turns + 1
  /\ LET new == talk[c] = NoThread
     IN  \E swapped \in SUBSET (IF new THEN {} ELSE {u.at : u \in talk[c]}) :
           ask' = [ask EXCEPT ![t] =
                     [of |-> c, new |-> new, at |-> turns + 1, text |-> text,
                      history |-> IF new THEN {} ELSE History(c, turns + 1, text, swapped)]]
  /\ UNCHANGED talk

\* The answer: question, answer, escalation and audit in one commit, unless the
\* conversation is gone.
CommitAsk(t, result) ==
  LET a == ask[t]
  IN  /\ a # Waiting
      /\ a.new \/ talk[a.of] # NoThread
      /\ talk' = [talk EXCEPT ![a.of] =
                    (IF a.new THEN {} ELSE @) \cup
                      {[at |-> a.at, text |-> a.text, result |-> result]}]
      /\ ask' = [ask EXCEPT ![t] = Waiting]
      /\ UNCHANGED turns

\* Retrieval and model answer, or retrieval fails (EmbeddingError).
AnswerAsk(t) ==
  \/ \E scored \in BestFirst, p \in ChatProviders : \E reply \in RepliesOf(p) :
       CommitAsk(t, AnswerQuestion(ask[t].text, Retrieve(scored), reply))
  \/ CommitAsk(t, Result("error", 0, <<>>))

AbandonAsk(t) == ask[t] # Waiting /\ ask' = [ask EXCEPT ![t] = Waiting] /\ UNCHANGED <<talk, turns>>

\* DELETE /chat/conversations/{id}
DeleteConversation(c) ==
  /\ talk[c] # NoThread
  /\ talk' = [talk EXCEPT ![c] = NoThread]
  /\ UNCHANGED <<ask, turns>>

ChatNext ==
  \/ \E t \in Asks, c \in Threads, q \in Questions : BeginAsk(t, c, q)
  \/ \E t \in Asks : ask[t] # Waiting /\ AnswerAsk(t)
  \/ \E t \in Asks : AbandonAsk(t)
  \/ \E c \in Threads : DeleteConversation(c)

ChatSpec == ChatInit /\ [][ChatNext]_chatVars

-----------------------------------------------------------------------------
(***************************************************************************)
(* The analytics of HR: answers by outcome, greetings left out.            *)
(***************************************************************************)
Turns == UNION {talk[c] : c \in {d \in Threads : talk[d] # NoThread}}
With(outcome) == {u \in Turns : u.result.outcome = outcome}

\* Mutant: greetings are counted.
QuestionsTotalAll == Cardinality(Turns)

QuestionsTotal == Cardinality(Turns \ With("small_talk"))
Answered == Cardinality(With("answered"))
Escalated == QuestionsTotal - Answered

SumOfConfidence(S) == FoldFunction(+, 0, [u \in S |-> u.result.confidence])

\* average_confidence, as a sum and a count; it has not left the greetings out.
AverageConfidence == <<SumOfConfidence(Turns), Cardinality(Turns)>>

(***************************************************************************)
(* Properties.                                                             *)
(***************************************************************************)

\* Type invariant; the turns have times of their own, and only an answer, or one
\* that was too weak to show, cites passages.
ChatTypeOK ==
  /\ turns \in 0..MaxTurns
  /\ \A u \in Turns : u.at \in 1..turns /\ u.text \in Questions /\ u.result.outcome \in Outcomes
  /\ \A u \in Turns :
       (u.result.cited # <<>>) <=> (u.result.outcome \in {"answered", "escalated_low_confidence"})
  /\ \A u, v \in Turns : u.at = v.at => u = v
  /\ \A t \in Asks : ask[t] # Waiting => Cardinality(ask[t].history) <= Window

\* "Keeps the bot from inventing policy" (services/chat.py:9): whatever was
\* retrieved and whatever the model said, what is shown as an answer cites
\* passages, and the best of them alone reaches the threshold.
AnswersAreGrounded ==
  \A u \in With("answered") :
    Len(u.result.cited) \in 1..TopK /\ u.result.cited[1] >= EscalationThreshold

\* The escalations HR counts, as questions less answers, are the messages that
\* were marked escalated and sent to HR, one for one.
EscalationsAddUp == Escalated = Cardinality({u \in Turns : u.result.escalated})

\* The window holds whole turns, whichever way the database breaks the ties: of
\* a question that is not asked again, it has both the question and the answer.
HistoryHasWholeTurns ==
  \A t \in Asks : ask[t] # Waiting =>
    \A m \in ask[t].history :
      m.text # ask[t].text =>
        Cardinality({x \in ask[t].history : x.at = m.at}) = 2

\* "Sending "hi" to HR was ... the worst" first impression (services/chat.py:501):
\* a greeting is not escalated. It fails: retrieval comes before the greeting is
\* recognised, and where retrieval fails the greeting goes to HR.
GreetingsStayHere == \A u \in Turns : u.text \in Greetings => ~ u.result.escalated

\* "Drop the question just inserted" (api/v1/chat.py:105), and only that. It
\* fails: an earlier question in the same words is dropped too.
HistoryHasTheQuestions ==
  \A t \in Asks : ask[t] # Waiting =>
    \A m \in ask[t].history :
      \E x \in ask[t].history : x.at = m.at /\ x.role = "user"

\* Greetings "leave the denominator entirely" (api/v1/chat.py:261). They stay in
\* that of the average.
AverageIsOfQuestions == AverageConfidence[2] = QuestionsTotal
=============================================================================
