-------------------------- MODULE RequestPipeline ---------------------------
(***************************************************************************)
(* A request from its arrival to its answer: handle_chat and               *)
(* handle_anthropic of src/src/proxy.rs, for the requests of one           *)
(* conversation.  The client keeps the history it was shown and sends it   *)
(* whole; it may send it again, go on from any answer it has, and have     *)
(* several requests under way.                                             *)
(*                                                                         *)
(* A message is its role and its blocks, text, calls and results.  The id  *)
(* of a block tells who made it: <<r, k>> is the k-th text or call of the  *)
(* answer to r, <<r, 0>> what the user typed for r.                        *)
(***************************************************************************)
EXTENDS Repeats

CONSTANTS
  Requests,     \* numbered in the order the client sends them
  Protocols,    \* the APIs looked at, "openai" and "anthropic"
  UserText,     \* what the user types for each
  Answers,      \* what the model may answer: [texts, calls]
  ToolResults,  \* of each call, what may come back: [value, failed]
  Normal,       \* normalize_with_detect of each text typed
  Rendering,    \* sigil::decode of each text the model writes
  KeyOf,        \* normalized_markdown_hash of each text
  Size,         \* bytes of texts, calls and results
  Price,        \* of an input byte
  BreakCost,    \* of a byte the provider's cache loses, in the same unit
  MaxMessages,  \* bound: messages of a history
  MaxForgets,   \* bound: sessions evicted or lost in a restart
  MaxFaults     \* bound: calls that fail

(* No text is kept under a key, or nothing has been answered.              *)
None == "none"
NoAnswer == [texts |-> <<>>, calls |-> <<>>]

Answer == [texts : Seq(DOMAIN Rendering), calls : Seq(DOMAIN Calls)]

ASSUME PipelineAssumption ==
  /\ Requests \subseteq Nat
  /\ Protocols \subseteq {"openai", "anthropic"}
  /\ DOMAIN Rendering \subseteq DOMAIN KeyOf /\ Range(Rendering) \subseteq DOMAIN KeyOf
  /\ Answers \subseteq Answer
  /\ DOMAIN UserText = Requests /\ Range(UserText) \subseteq DOMAIN Normal
  /\ \A c \in DOMAIN ToolResults : \A result \in ToolResults[c] : result.failed \in BOOLEAN
  /\ None \notin (DOMAIN Rendering) \union Range(UserText)
  /\ {Price, BreakCost, MaxMessages, MaxForgets, MaxFaults} \subseteq Nat

VARIABLES
  protocol,
  originals,    \* sigil/ of the store: from keys to what the model wrote
  normals,      \* normalization/: from texts to what the user typed
  session,      \* the conversation's sessions so far
  entry,        \* what the present one knows of its tool calls
  op,           \* where each request is
  faults

vars == <<protocol, originals, normals, session, entry, op, faults>>

Text(text, id) == [type |-> "text", value |-> text, id |-> id, failed |-> FALSE]

(* Places in a history                                                     *)
Place(messages, role, type) ==
  {p \in UNION {{m} \X DOMAIN messages[m].blocks : m \in DOMAIN messages} :
     /\ messages[p[1]].role = role
     /\ messages[p[1]].blocks[p[2]].type = type}

AnswerTexts(messages) == Place(messages, "assistant", "text")
UserTextsAt(messages) == Place(messages, "user", "text")

At(messages, place) == messages[place[1]].blocks[place[2]].value

(* The messages with other texts at some places                            *)
Replaced(messages, texts) ==
  [m \in DOMAIN messages |->
     [role |-> messages[m].role,
      blocks |-> [b \in DOMAIN messages[m].blocks |->
                    IF <<m, b>> \in DOMAIN texts
                    THEN Text(texts[<<m, b>>], messages[m].blocks[b].id)
                    ELSE messages[m].blocks[b]]]]

Before(p, q) == p[1] < q[1] \/ (p[1] = q[1] /\ p[2] < q[2])

First(places) == CHOOSE p \in places : \A q \in places \ {p} : Before(p, q)

(* What is sent in the place of a block, and what came from the client.    *)
Sent(r, place) == At(op[r].payload, place)
Echoed(r, place) == At(op[r].history, place)

(* What the model wrote for a block of a history.                          *)
Written(messages, place) ==
  LET id == messages[place[1]].blocks[place[2]].id
  IN  op[id[1]].answer.texts[id[2]]

TypeOK ==
  /\ protocol \in Protocols
  /\ \A k \in DOMAIN originals : originals[k] \in (DOMAIN Rendering) \union {None}
  /\ \A k \in DOMAIN normals : normals[k] \in Range(UserText) \union {None}
  /\ session \in 0..MaxForgets
  /\ Len(entry.calls) <= CallCap
  /\ entry.pending => entry.edits # {}
  /\ \A r \in Requests :
       /\ op[r].pc \in {"new", "substitute", "prepare", "sent", "done", "failed"}
       /\ op[r].left \subseteq AnswerTexts(op[r].history)
       /\ op[r].session \in 0..session
       /\ op[r].counts \in Counts
       /\ op[r].unread \subseteq AnswerTexts(op[r].history)
       /\ op[r].unkept \subseteq UserTextsAt(op[r].history)
       /\ Len(op[r].payload) = Len(op[r].history)
       /\ op[r].pc # "done" => op[r].answer = NoAnswer
  /\ faults \in 0..MaxFaults

Init ==
  /\ protocol \in Protocols
  /\ originals = [k \in {KeyOf[t] : t \in DOMAIN KeyOf} |-> None]
  /\ normals = [t \in Range(Normal) |-> None]
  /\ session = 0
  /\ entry = NewEntry
  /\ op = [r \in Requests |->
             [pc |-> "new", history |-> <<>>, payload |-> <<>>, left |-> {},
              session |-> 0, counts |-> NoCounts, gate |-> FALSE,
              unread |-> {}, unkept |-> {}, answer |-> NoAnswer, shown |-> <<>>]]
  /\ faults = 0

Fault == faults < MaxFaults /\ faults' = faults + 1

----------------------------------------------------------------------------
(* The client *)

Typed(r) == [role |-> "user", blocks |-> <<Text(UserText[r], <<r, 0>>)>>]

(* A text comes back as it was shown, but for white space an agent trims.  *)
Echoes(text) == {t \in DOMAIN KeyOf : KeyOf[t] = KeyOf[text]}

AnswerMessage(q, texts) ==
  [role |-> "assistant",
   blocks |-> [k \in 1..Len(texts) |-> Text(texts[k], <<q, k>>)] \o
              [k \in 1..Len(op[q].answer.calls) |->
                 [type |-> "call", value |-> op[q].answer.calls[k], id |-> <<q, k>>,
                  failed |-> FALSE]]]

ResultBlock(q, k, result) ==
  [type |-> "result", value |-> result.value, id |-> <<q, k>>, failed |-> result.failed]

(* The results of the calls of an answer: messages or blocks of one.       *)
ResultMessages(q, results) ==
  LET blocks == [k \in 1..Len(results) |-> ResultBlock(q, k, results[k])]
  IN  IF protocol = "openai"
      THEN [k \in 1..Len(results) |-> [role |-> "tool", blocks |-> <<blocks[k]>>]]
      ELSE << [role |-> "user", blocks |-> blocks] >>

(* What can follow the answer to q in the history of r.                    *)
Continuations(r, q) ==
  LET calls == op[q].answer.calls
      next == IF calls = <<>> THEN {<<Typed(r)>>}
              ELSE {ResultMessages(q, results) :
                      results \in {f \in [1..Len(calls) -> UNION Range(ToolResults)] :
                                    \A k \in DOMAIN f : f[k] \in ToolResults[calls[k]]}}
      texts == {t \in [1..Len(op[q].shown) -> DOMAIN KeyOf] :
                  \A k \in DOMAIN t : t[k] \in Echoes(op[q].shown[k])}
  IN  {op[q].history \o <<AnswerMessage(q, t)>> \o m : t \in texts, m \in next}

Histories(r) ==
  {<<Typed(r)>>}
  \union {op[q].history : q \in {q \in Requests : op[q].pc \in {"sent", "failed", "done"}}}
  \union UNION {Continuations(r, q) :
                  q \in {q \in Requests : op[q].pc = "done" /\ op[q].answer # NoAnswer}}

Begin(r) ==
  /\ op[r].pc = "new"
  /\ \A q \in Requests : q < r => op[q].pc # "new"
  /\ \E history \in Histories(r) :
       /\ Len(history) <= MaxMessages
       /\ op' = [op EXCEPT ![r].pc = "substitute", ![r].history = history,
                           ![r].payload = history, ![r].left = AnswerTexts(history)]
  /\ UNCHANGED <<protocol, originals, normals, session, entry, faults>>

----------------------------------------------------------------------------
(* handle_chat, handle_anthropic *)

(* get_sigil_original: what the store has for a text                       *)
OriginalOf(text) == originals[KeyOf[text]]

(* substitute_*_originals: the next text of the assistant is looked up in  *)
(* the store; one that is not there, or cannot be read, is left.           *)
Substitute(r) ==
  LET place == First(op[r].left)
      found == IF OriginalOf(Sent(r, place)) = None THEN {} ELSE {place}
  IN  /\ op[r].pc = "substitute" /\ op[r].left # {}
      /\ \/ /\ op' = [op EXCEPT
                   ![r].left = @ \ {place},
                   ![r].payload = Replaced(@, [p \in found |-> OriginalOf(At(@, p))])]
            /\ UNCHANGED faults
         \/ /\ op' = [op EXCEPT ![r].left = @ \ {place},
                                ![r].unread = @ \union {place}]
            /\ Fault
      /\ UNCHANGED <<protocol, originals, normals, session, entry>>

(* open_*_session, the part that observes repeats.                         *)
OpenWith(r, events) ==
  LET seen == Observe(entry, events)
  IN  /\ op[r].pc = "substitute" /\ op[r].left = {}
      /\ entry' = seen.entry
      /\ op' = [op EXCEPT ![r].pc = "prepare", ![r].session = session,
                          ![r].counts = seen.counts]
      /\ UNCHANGED <<protocol, originals, normals, session, faults>>

OpenOpenai(r) == protocol = "openai" /\ OpenWith(r, OpenaiEvents(op[r].payload))

OpenAnthropic(r) == protocol = "anthropic" /\ OpenWith(r, AnthropicEvents(op[r].payload))

(* normalization_savings and normalization_cache_invalidation: the bytes   *)
(* taken from what the user typed, and those from the first such place on. *)
Saved(messages) ==
  FoldFunctionOnSet(+, 0,
                    [p \in UserTextsAt(messages) |->
                       Max({0, Size[At(messages, p)] - Size[Normal[At(messages, p)]]})],
                    UserTextsAt(messages))

Changed(messages) ==
  {p \in UserTextsAt(messages) : Normal[At(messages, p)] # At(messages, p)}

Bytes(message) ==
  FoldLeft(LAMBDA n, block : n + Size[block.value], 0, message.blocks)

Invalidated(messages) ==
  LET after == {m \in 1..Len(messages) : \E p \in Changed(messages) : p[1] <= m}
  IN  FoldFunctionOnSet(+, 0, [m \in after |-> Bytes(messages[m])], after)

(* compression_gate of a calibrated proxy.                                 *)
Gate(messages) == Price * Saved(messages) > BreakCost * Invalidated(messages)

Rivals(messages, places, key) == {p \in places : Normal[At(messages, p)] = key}

(* Mutation: the latest text replaces the one under its key.               *)
KeptOver(messages, places) ==
  [key \in DOMAIN normals |->
     LET rivals == Rivals(messages, places, key)
     IN  IF rivals = {} THEN normals[key]
         ELSE At(messages, CHOOSE p \in rivals : \A q \in rivals \ {p} : Before(q, p))]

(* put_normalization_original at one place after the other: a text is      *)
(* refused when another has its key.                                       *)
Kept(messages, places) ==
  [key \in DOMAIN normals |->
     LET rivals == Rivals(messages, places, key)
     IN  IF normals[key] # None \/ rivals = {} THEN normals[key]
         ELSE At(messages, First(rivals))]

(* apply_openai_normalizations: what the user typed gives way to its       *)
(* normal form if the gate is open and it is kept.  Without a gate, and on *)
(* the other protocol, nothing is changed.                                 *)
Prepare(r) ==
  LET messages == op[r].payload
      gate == protocol = "openai" /\ Gate(messages)
      places == IF gate THEN Changed(messages) ELSE {}
  IN  /\ op[r].pc = "prepare"
      /\ \E unkept \in SUBSET places :
           LET kept == Kept(messages, places \ unkept)
               done == {p \in places \ unkept :
                          kept[Normal[At(messages, p)]] = At(messages, p)}
           IN  /\ IF unkept = {} THEN UNCHANGED faults
                  ELSE Cardinality(unkept) = 1 /\ Fault
               /\ normals' = kept
               /\ op' = [op EXCEPT
                    ![r].pc = "sent", ![r].gate = gate, ![r].unkept = unkept,
                    ![r].payload =
                      Replaced(@, [p \in done |-> Normal[At(messages, p)]])]
      /\ UNCHANGED <<protocol, originals, session, entry>>

(* decode_openai_response, decode_anthropic_response: a text the model     *)
(* wrote is rendered if its original is in the store.                      *)
Rendered(texts) == {k \in DOMAIN texts : Rendering[texts[k]] # texts[k]}

(* Mutation: the latest original replaces the one under its key.           *)
StoredOver(texts, stored) ==
  [key \in DOMAIN originals |->
     LET rivals == {k \in stored : KeyOf[Rendering[texts[k]]] = key}
     IN  IF rivals = {} THEN originals[key] ELSE texts[Max(rivals)]]

(* put_sigil_original for one text after the other: the first original     *)
(* under a key stays.                                                      *)
Stored(texts, stored) ==
  [key \in DOMAIN originals |->
     LET rivals == {k \in stored : KeyOf[Rendering[texts[k]]] = key}
     IN  IF originals[key] # None \/ rivals = {} THEN originals[key]
         ELSE texts[Min(rivals)]]

Shown(texts, stored) ==
  [k \in DOMAIN texts |-> IF k \in stored THEN Rendering[texts[k]] ELSE texts[k]]

(* An answer comes, or an error, which has no texts.                       *)
Reply(r) ==
  /\ op[r].pc = "sent"
  /\ \E answer \in Answers \union {NoAnswer} :
       \E unstored \in SUBSET Rendered(answer.texts) :
         LET stored == Rendered(answer.texts) \ unstored
         IN  /\ protocol = "openai" => Len(answer.texts) <= 1
             /\ IF unstored = {} THEN UNCHANGED faults
                ELSE Cardinality(unstored) = 1 /\ Fault
             /\ originals' = Stored(answer.texts, stored)
             /\ op' = [op EXCEPT ![r].pc = "done", ![r].answer = answer,
                                 ![r].shown = Shown(answer.texts, stored)]
  /\ UNCHANGED <<protocol, normals, session, entry>>

(* The constraints have no place in the payload, the provider cannot be    *)
(* reached, does not answer in time or stops in the middle, or the client  *)
(* leaves: nothing is recorded, and nothing undone.                        *)
Fail(r) ==
  /\ op[r].pc = "sent"
  /\ op' = [op EXCEPT ![r].pc = "failed"]
  /\ Fault
  /\ UNCHANGED <<protocol, originals, normals, session, entry>>

(* The session is evicted, or the process restarted: the next request      *)
(* opens another.                                                          *)
Forget ==
  /\ session < MaxForgets
  /\ session' = session + 1
  /\ entry' = NewEntry
  /\ UNCHANGED <<protocol, originals, normals, op, faults>>

Next ==
  \/ \E r \in Requests :
       \/ Begin(r) \/ Substitute(r) \/ OpenOpenai(r) \/ OpenAnthropic(r)
       \/ Prepare(r) \/ Reply(r) \/ Fail(r)
  \/ Forget

Spec == Init /\ [][Next]_vars

----------------------------------------------------------------------------
(* Properties *)

Forwarded == {r \in Requests : op[r].pc \in {"sent", "done", "failed"}}

(* The text came to the client as the model wrote it.                      *)
ShownRaw(r, place) ==
  LET id == op[r].history[place[1]].blocks[place[2]].id
  IN  op[id[1]].shown[id[2]] = op[id[1]].answer.texts[id[2]]

(* What goes to the provider in its place is the original of a rendering   *)
(* that reads the same: the model wrote it, here or in another answer.     *)
Borrowed(r, place) ==
  /\ Rendering[Sent(r, place)] # Sent(r, place)
  /\ KeyOf[Rendering[Sent(r, place)]] = KeyOf[Echoed(r, place)]
  /\ \E q \in Requests : \E k \in 1..Len(op[q].answer.texts) :
       op[q].answer.texts[k] = Sent(r, place)

(* What goes to the provider leads back to what was written (invariants I1 *)
(* and I8 of design.md): of what the user typed, the text or a normal form *)
(* whose original is in the store; of what the model wrote, its own words, *)
(* or what the client has if the store cannot be read or it got them raw,  *)
(* or those of an answer that reads the same.                              *)
NothingLost ==
  \A r \in Forwarded :
    /\ \A p \in UserTextsAt(op[r].history) :
         Sent(r, p) # Echoed(r, p) =>
           /\ Sent(r, p) = Normal[Echoed(r, p)]
           /\ normals[Sent(r, p)] = Echoed(r, p)
    /\ \A p \in AnswerTexts(op[r].history) :
         \/ Sent(r, p) = Written(op[r].history, p)
         \/ Sent(r, p) = Echoed(r, p) /\ (p \in op[r].unread \/ ShownRaw(r, p))
         \/ Borrowed(r, p)

(* The bytes the provider has cached stay (I6): where the histories of two *)
(* requests agree, so does what is sent, unless the store failed one of    *)
(* them, the gate opened for one and not the other, or an answer the model *)
(* gave in plain text got an original from another between the two.        *)
PrefixStable ==
  \A q, r \in Forwarded :
    IsPrefix(op[q].history, op[r].history) =>
      /\ \A p \in UserTextsAt(op[q].history) :
           \/ Sent(q, p) = Sent(r, p)
           \/ op[q].gate # op[r].gate
           \/ p \in op[q].unkept \union op[r].unkept
      /\ \A p \in AnswerTexts(op[q].history) :
           \/ Sent(q, p) = Sent(r, p)
           \/ p \in op[q].unread \union op[r].unread
           \/ /\ ShownRaw(q, p)
              /\ \/ Sent(q, p) = Echoed(q, p) /\ Borrowed(r, p)
                 \/ Borrowed(q, p) /\ Sent(r, p) = Echoed(r, p)

Events(r) ==
  IF protocol = "openai" THEN OpenaiEvents(op[r].history) ELSE AnthropicEvents(op[r].history)

Opened(s) ==
  {r \in Requests : op[r].session = s /\ op[r].pc \in {"prepare", "sent", "done", "failed"}}

(* "Replayed request history is ignored by event key" (session.rs): what   *)
(* the requests of a session report together are the repeats of its        *)
(* longest history, whatever their order and however often it is sent, as  *)
(* long as each history continues the others.                              *)
RepeatsCountedOnce ==
  \A s \in 0..session :
    \A longest \in Opened(s) :
      (\A r \in Opened(s) : IsPrefix(Events(r), Events(longest))) =>
        MapThenFoldSet(Plus, NoCounts, LAMBDA r : op[r].counts,
                       LAMBDA S : CHOOSE r \in S : TRUE, Opened(s))
          = Repeats(Events(longest))
----------------------------------------------------------------------------
(* What makes NothingLost and PrefixStable inductive *)

Value == (DOMAIN KeyOf) \union Range(UserText) \union Range(Normal) \union
         (DOMAIN Calls) \union {result.value : result \in UNION Range(ToolResults)}

Block == [type : {"text", "call", "result"}, value : Value, id : Requests \X Nat,
          failed : BOOLEAN]

Message == [role : {"user", "assistant", "tool"}, blocks : Seq(Block)]

Formed ==
  /\ originals \in [{KeyOf[t] : t \in DOMAIN KeyOf} -> (DOMAIN Rendering) \union {None}]
  /\ normals \in [Range(Normal) -> Range(UserText) \union {None}]
  /\ session \in Nat
  /\ DOMAIN op = Requests
  /\ \A r \in Requests :
       op[r] \in [pc : {"new", "substitute", "prepare", "sent", "done", "failed"},
                 history : Seq(Message), payload : Seq(Message),
                 left : SUBSET (Nat \X Nat), session : Nat, counts : {op[r].counts},
                 gate : BOOLEAN, unread : SUBSET (Nat \X Nat),
                 unkept : SUBSET (Nat \X Nat), answer : Answer,
                 shown : Seq(DOMAIN KeyOf)]

(* Under a key is what an answer wrote, and its rendering has that key.    *)
Genuine ==
  \A key \in DOMAIN originals : originals[key] # None =>
    /\ KeyOf[Rendering[originals[key]]] = key
    /\ Rendering[originals[key]] # originals[key]
    /\ \E q \in Requests : /\ op[q].pc = "done"
                           /\ \E k \in DOMAIN op[q].answer.texts :
                                op[q].answer.texts[k] = originals[key]

(* Only what has an original was rendered.                                 *)
Backed ==
  \A q \in Requests :
    /\ DOMAIN op[q].shown = DOMAIN op[q].answer.texts
    /\ \A k \in DOMAIN op[q].shown :
         \/ op[q].shown[k] = op[q].answer.texts[k]
         \/ originals[KeyOf[op[q].shown[k]]] # None

(* The blocks of a history are from answers that were shown, or typed.     *)
Told(history) ==
  /\ \A p \in AnswerTexts(history) :
       LET id == history[p[1]].blocks[p[2]].id
       IN  /\ op[id[1]].pc = "done" /\ id[2] \in DOMAIN op[id[1]].shown
           /\ At(history, p) \in Echoes(op[id[1]].shown[id[2]])
  /\ \A p \in UserTextsAt(history) : At(history, p) \in Range(UserText)

(* The messages are the same but for their texts.                          *)
Alike(a, b) ==
  /\ DOMAIN a = DOMAIN b
  /\ \A m \in DOMAIN a :
       /\ a[m].role = b[m].role
       /\ DOMAIN a[m].blocks = DOMAIN b[m].blocks
       /\ \A k \in DOMAIN a[m].blocks : a[m].blocks[k].type = b[m].blocks[k].type

(* A text of the assistant goes out as it came until it is looked up, and  *)
(* then if it cannot be read or was shown raw; else its original does.     *)
Restored(r) ==
  \A p \in AnswerTexts(op[r].history) :
    \/ Sent(r, p) = Echoed(r, p) /\ p \in op[r].left \union op[r].unread
    \/ p \notin op[r].left /\ Sent(r, p) = Echoed(r, p) /\ ShownRaw(r, p)
    \/ p \notin op[r].left /\ Sent(r, p) = OriginalOf(Echoed(r, p)) /\ Sent(r, p) # None

(* What the user typed goes out as the store has it, if the gate is open.  *)
Normalized(r) ==
  \A p \in UserTextsAt(op[r].history) :
    LET text == Echoed(r, p)
        normal == Normal[text]
    IN  IF r \in Forwarded /\ op[r].gate /\ p \notin op[r].unkept /\ normal # text
        THEN /\ normals[normal] # None
             /\ Sent(r, p) = IF normals[normal] = text THEN normal ELSE text
        ELSE Sent(r, p) = text

PassInv ==
  /\ Formed /\ Genuine /\ Backed
  /\ \A r \in Requests :
       /\ Told(op[r].history) /\ Alike(op[r].history, op[r].payload)
       /\ Restored(r) /\ Normalized(r)
       /\ op[r].left \subseteq AnswerTexts(op[r].history)
       /\ op[r].pc # "substitute" => op[r].left = {}
============================================================================
