----------------------------- MODULE MCAssistant -----------------------------
(***************************************************************************)
(* The two halves of the assistant: a behaviour is one of Knowledge or one *)
(* of Chat, and the other stays in its initial state.                      *)
(***************************************************************************)
EXTENDS Knowledge, Chat

VARIABLE half

MCInit == KbInit /\ ChatInit /\ half \in {"knowledge", "chat"}

MCNext ==
  \/ half = "knowledge" /\ KbNext /\ UNCHANGED <<chatVars, half>>
  \/ half = "chat" /\ ChatNext /\ UNCHANGED <<kbVars, half>>

MCSpec ==
  /\ MCInit /\ [][MCNext]_<<kbVars, chatVars, half>>
  /\ \A j \in Jobs : WF_kbVars(half = "knowledge" /\ JobStep(j) /\ UNCHANGED <<chatVars, half>>)
-----------------------------------------------------------------------------
\* Rows, and the chunks of a document as those of one ingestion; messages, and
\* what they cite.
AssistantTypeOK == KbTypeOK /\ ChatTypeOK

\* The figures HR sees are those of the index, and what the index holds is the
\* text of the document or is about to be replaced by it, unless it was made by an
\* ingestion that another was committed before, after it had read the row.
IndexDescribesText == StatsDescribeTheIndex /\ OldTextIsBeingReplaced

\* What the bot shows is grounded in passages, what it does not show is with HR,
\* and what it is told of the conversation is whole turns.
ConversationIsRight == AnswersAreGrounded /\ EscalationsAddUp /\ HistoryHasWholeTurns
=============================================================================
