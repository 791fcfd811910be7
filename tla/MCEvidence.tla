----------------------------- MODULE MCEvidence -----------------------------
(* Evidence on a small instance.                                           *)
EXTENDS Evidence, TLC

CONSTANTS sys, u1, u2, a1

Body1(protocol, form, blocks, messages, marks) ==
  [protocol |-> protocol, instructions |-> [form |-> form, blocks |-> blocks],
   messages |-> messages, marks |-> marks, advised |-> FALSE]

(* A system prompt of two blocks, of which the agent has marked the last.  *)
Prompt == <<Plain(sys), [Plain(sys) EXCEPT !.cached = TRUE]>>

(* A conversation, with one slot left for a cache control, and its next    *)
(* turn, with none; one whose text has no block to append to; Codex, with  *)
(* a place for the constraints and without.                                *)
MCAsked ==
  {Body1("anthropic", "blocks", Prompt, <<u1>>, 2),
   Body1("anthropic", "blocks", Prompt, <<u1, a1, u2>>, 3),
   Body1("openai", "blocks", <<>>, <<sys, u2>>, 0),
   Body1("codex", "string", <<Plain(sys)>>, <<>>, 0),
   Body1("codex", "absent", <<>>, <<>>, 0)}

(* Every answer asks and has its usage: that one is not recorded is a lost *)
(* append.                                                                 *)
MCAnswers == {[state |-> "decision", usage |-> TRUE]}

MCReadinessOf ==
  (u1 :> ("raw" :> {"task", "unknowns"} @@ "prose" :> {"task"})) @@
  (u2 :> ("raw" :> {"task", "target"} @@ "prose" :> {}))

MCConfig(constraints, injecting) ==
  [constraints |-> constraints, calibrated |-> TRUE, selected |-> TRUE,
   enabled |-> injecting, randomized |-> injecting]

(* The first run has constraints and advisories, the second neither, and   *)
(* another version of the skill.                                           *)
MCSetups ==
  (0 :> [version |-> "1", config |-> MCConfig(TRUE, TRUE)]) @@
  (1 :> [version |-> "2", config |-> MCConfig(FALSE, FALSE)])

(* The second version was in use before the first, and the session's id    *)
(* in a transcript that did not have turns, for a text and a question.     *)
Row(role, readiness, state) ==
  [id |-> [seed |-> <<u1>>, n |-> 1], turn |-> NoTurn, role |-> role,
   readiness |-> readiness, start |-> FALSE, arm |-> None, state |-> state]

MCOld ==
  [transcript |-> <<Row("user", "raw" :> {"task"}, None),
                    Row("assistant", [v \in {} |-> {}], "decision")>>,
   costs |-> <<>>,
   health |-> <<[model |-> "anthropic", version |-> "2"]>>]

MCDrawsInject(id) == id.n = 1
============================================================================
