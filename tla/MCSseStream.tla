---------------------------- MODULE MCSseStream -----------------------------
(* SseStream with two Anthropic blocks, and one OpenAI choice.             *)
EXTENDS SseStream

MCTurns ==
  {[provider |-> p, sigils |-> s, receipts |-> ~s] :
     p \in {"openai", "anthropic"}, s \in BOOLEAN}
MCSlots == {0, 1}
OneChoice == {0}
============================================================================
