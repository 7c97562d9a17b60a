---------------------------- MODULE MCAssistant ----------------------------
(* Two questions, each asked at either door, one emergency stop and one     *)
(* restart of the orchestrator.  Answers that overlap have one delta each;  *)
(* an answer alone has up to two.                                           *)
EXTENDS Assistant, FiniteSets

\* The questions asked and not yet done with by both reader and handler.
Underway == {q \in Prompts : asked[q] # "no" /\ (Live(q) \/ q \notin settled)}

MCBound == Cardinality(Underway) <= 1 \/ \A q \in Underway : said[q] <= 1

MCSpec ==
    AssistantInit /\ [][AssistantNext /\ MCBound']_chatVars /\ AssistantFairness
=============================================================================
