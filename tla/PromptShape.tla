---------------------------- MODULE PromptShape ----------------------------
(***************************************************************************)
(* What the proxy puts around a client's request before it goes upstream:  *)
(* the owner's protected constraints, on Anthropic requests a cache        *)
(* breakpoint, and on a conversation's first turn an advisory              *)
(* (src/src/operations.rs, and the callers and append_* in                 *)
(* src/src/proxy.rs).                                                      *)
(*                                                                         *)
(* A body is its protocol, its instructions, its messages and marks, the   *)
(* number of cache controls outside the instructions.  The instructions    *)
(* are Anthropic's "system" and Codex's "instructions"; in an OpenAI body  *)
(* they are messages, and of the field only whether it has an array of     *)
(* them is kept.  A string stands as one block, which cannot be marked.    *)
(***************************************************************************)
EXTENDS Integers, Sequences, FiniteSets

CONSTANTS
  Text,         \* texts of instructions
  Message,      \* serialised chat messages
  User,         \* the messages with role "user"
  Appendable,   \* those with a text an advisory can be appended to
  Protected     \* the constraints under their marker, as a message or a text

Form == {"absent", "string", "blocks", "odd"}

Block == [text : Text \cup {Protected}, type : {"text", "other"}, cached : BOOLEAN]

Plain(text) == [text |-> text, type |-> "text", cached |-> FALSE]

Instructions == [form : Form, blocks : Seq(Block)]

Body ==
  [protocol : {"openai", "anthropic", "codex"}, instructions : Instructions,
   messages : Seq(Message \cup {Protected}), marks : Nat, advised : BOOLEAN]

(* The gates of LocalConfig: whether there are constraints, whether the    *)
(* calibration has seen enough, how advisories are set up.                 *)
Config ==
  [constraints : BOOLEAN, calibrated : BOOLEAN, selected : BOOLEAN,
   enabled : BOOLEAN, randomized : BOOLEAN]

(* AdvisoryConfig::injection_enabled; "enabled" stands for the flag, the   *)
(* template version and the evidence together.                             *)
InjectionEnabled(config) ==
  config.enabled /\ config.randomized /\ config.selected

----------------------------------------------------------------------------
(* Constraints *)

(* Where a protocol has no place for the constraints the request is        *)
(* refused.                                                                *)
HasPlace(body) ==
  CASE body.protocol = "openai" -> body.instructions.form = "blocks"
    [] body.protocol = "anthropic" -> body.instructions.form # "odd"
    [] body.protocol = "codex" -> body.instructions.form = "string"

(* inject_and_verify_constraints, inject_and_verify_codex_constraints.     *)
Constrained(body) ==
  CASE body.protocol = "openai" ->
         [body EXCEPT !.messages = <<Protected>> \o @]
    [] body.protocol = "anthropic" ->
         [body EXCEPT !.instructions.form = "blocks",
                      !.instructions.blocks = <<Plain(Protected)>> \o @]
    [] body.protocol = "codex" ->
         [body EXCEPT !.instructions.blocks = @ \o <<Plain(Protected)>>]

(* What is verified before the request is forwarded.                       *)
Verified(after, before) ==
  CASE after.protocol = "openai" ->
         \E i \in DOMAIN after.messages : after.messages[i] = Protected
    [] after.protocol = "anthropic" ->
         /\ after.instructions.form = "blocks"
         /\ after.instructions.blocks # <<>>
         /\ Head(after.instructions.blocks).type = "text"
         /\ Head(after.instructions.blocks).text = Protected
         /\ Tail(after.instructions.blocks) = before.instructions.blocks
    [] after.protocol = "codex" ->
         \E i \in DOMAIN after.instructions.blocks :
           after.instructions.blocks[i].text = Protected

Refused(body, config) ==
  config.constraints /\ ~(HasPlace(body) /\ Verified(Constrained(body), body))

----------------------------------------------------------------------------
(* The cache breakpoint *)

Limit == 4      \* ANTHROPIC_CACHE_BREAKPOINT_LIMIT

Cached(blocks) == {i \in DOMAIN blocks : blocks[i].cached}

(* anthropic_cache_breakpoint_count                                        *)
Breakpoints(body) == Cardinality(Cached(body.instructions.blocks)) + body.marks

(* Mutation: a breakpoint is added when all slots are taken.               *)
MayMarkFifth(body, config) ==
  /\ body.protocol = "anthropic"
  /\ config.calibrated
  /\ Breakpoints(body) <= Limit
  /\ body.instructions.form \in {"string", "blocks"}
  /\ body.instructions.blocks # <<>>
  /\ Head(body.instructions.blocks).type = "text"
  /\ ~Head(body.instructions.blocks).cached

(* place_anthropic_cache_breakpoint, with the gate of cache_breakpoint_gate. *)
MayMark(body, config) ==
  /\ body.protocol = "anthropic"
  /\ config.calibrated
  /\ Breakpoints(body) < Limit
  /\ body.instructions.form \in {"string", "blocks"}
  /\ body.instructions.blocks # <<>>
  /\ Head(body.instructions.blocks).type = "text"
  /\ ~Head(body.instructions.blocks).cached

Marked(body, config) ==
  IF MayMark(body, config)
    THEN [body EXCEPT !.instructions.form = "blocks",
                      !.instructions.blocks[1].cached = TRUE]
    ELSE body

(* What a handler makes of a body before it looks at advisories.           *)
Shaped(body, config) ==
  Marked(IF config.constraints THEN Constrained(body) ELSE body, config)

----------------------------------------------------------------------------
(* The advisory *)

Latest(body) == body.messages[Len(body.messages)]

(* append_openai_advisory, append_anthropic_advisory: the last message must *)
(* be the user's, with a text to append to.                                *)
CanAdvise(body) ==
  body.messages # <<>> /\ Latest(body) \in User \cap Appendable

Advised(body) == [body EXCEPT !.advised = TRUE]

----------------------------------------------------------------------------
(* What must hold of a body on its way upstream *)

Texts(body) == [i \in DOMAIN body.instructions.blocks |-> body.instructions.blocks[i].text]

(* The constraints are where the protocol looks for them, once, and what   *)
(* the client asked stands behind them (before them, in Codex) unchanged,  *)
(* with the cache controls it set and at most one more, within the limit.  *)
Intact(sent, asked, config) ==
  LET own == IF config.constraints THEN <<Protected>> ELSE <<>>
  IN  /\ CASE asked.protocol = "openai" ->
                sent.messages = own \o asked.messages /\ Texts(sent) = Texts(asked)
           [] asked.protocol = "anthropic" ->
                sent.messages = asked.messages /\ Texts(sent) = own \o Texts(asked)
           [] asked.protocol = "codex" ->
                sent.messages = asked.messages /\ Texts(sent) = Texts(asked) \o own
      /\ sent.marks = asked.marks
      /\ LET offset == Len(Texts(sent)) - Len(Texts(asked))
         IN  asked.protocol = "anthropic" =>
               \A i \in Cached(asked.instructions.blocks) :
                 sent.instructions.blocks[i + offset].cached
      /\ \/ Breakpoints(sent) = Breakpoints(asked)
         \/ Breakpoints(sent) = Breakpoints(asked) + 1 /\ Breakpoints(sent) <= Limit
============================================================================
