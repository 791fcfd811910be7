----------------------------- MODULE SseStream ------------------------------
(***************************************************************************)
(* One streamed response through the proxy: SseStreamDecoder and its       *)
(* driver streaming_response in src/src/proxy.rs.  Chunks of upstream      *)
(* events are transformed record by record, the store is written off the   *)
(* reactor, and only then does the client get what the chunk became.       *)
(*                                                                         *)
(* A piece of text is a sequence of tokens, and a decoder is what HoldBack *)
(* says of it: it shows any prefix of what it was given, and the rest when *)
(* it is finished.  Bytes of a record that is not complete only wait in    *)
(* the decoder's buffer, so a chunk is the events it completes.            *)
(***************************************************************************)
EXTENDS Integers, SequencesExt

CONSTANTS
  Turns,        \* the requests streamed
  Slots,        \* Anthropic's content blocks
  ChoiceSlots,  \* OpenAI's choices
  MaxEvents,    \* bound: events of the upstream
  MaxFaults     \* bound: store writes that fail

ASSUME SseAssumption ==
  /\ Turns \subseteq
       [provider : {"openai", "anthropic"}, sigils : BOOLEAN, receipts : BOOLEAN]
  /\ IsFiniteSet(Slots) /\ Slots \subseteq Nat
  /\ 0 \in ChoiceSlots /\ ChoiceSlots \subseteq Slots
  /\ MaxEvents \in Nat /\ MaxFaults \in Nat

VARIABLES
  turn,         \* the provider, and whether the model writes sigils and the
                \* request left receipts
  sent,         \* history: the events of the upstream
  buffer,       \* complete records not transformed yet
  block,        \* the TextBlocks
  usage,        \* whether a usage was reported
  output,       \* what the chunk became
  jobs,         \* io: queued writes
  phase,        \* where the driver is
  last,         \* how the body ended: not yet, whole, or cut in a record
  client,       \* what the client was given
  stored,       \* texts whose original is in the store
  recorded,     \* the ledgers
  lost          \* history: writes that failed

stream == <<turn, sent, buffer, block, usage, output>>
driver == <<jobs, phase, last, client, stored, recorded, lost>>
vars == <<stream, driver>>

(* The upstream's events: text, which at OpenAI may carry a finish_reason, *)
(* the end of a slot, usage, and message_stop or [DONE].  "from" is the    *)
(* event's place in the stream, 0 for one the proxy makes.                 *)
Event(kind, slot, text, ends, from) ==
  [kind |-> kind, slot |-> slot, text |-> text, ends |-> ends, from |-> from]

IsEvent(event) ==
  /\ event.kind \in {"text", "stop", "usage", "done"}
  /\ event.slot \in Slots
  /\ event.from \in 0..MaxEvents
  /\ event.ends \in BOOLEAN

Job(kind, text) == [kind |-> kind, text |-> text]

TypeOK ==
  /\ turn \in Turns
  /\ \A events \in {sent, buffer, output, client} :
       \A i \in 1..Len(events) : IsEvent(events[i])
  /\ \A b \in Slots :
       /\ block[b].flushed \in BOOLEAN
       /\ block[b].shown \in 0..Len(block[b].given)
       /\ turn.provider = "openai" /\ b # 0 => block[b].given = <<>>
  /\ phase \in {"await", "transform", "io", "done", "aborted", "cancelled"}
  /\ buffer # <<>> => phase = "transform"
  /\ output # <<>> => phase \in {"transform", "io"}
  /\ jobs # <<>> => phase \in {"transform", "io", "cancelled"}
  /\ usage \in BOOLEAN
  /\ last \in {"no", "whole", "cut"}

Init ==
  /\ turn \in Turns
  /\ sent = <<>>
  /\ buffer = <<>>
  /\ block = [b \in Slots |-> [given |-> <<>>, shown |-> 0, flushed |-> FALSE]]
  /\ usage = FALSE
  /\ output = <<>>
  /\ jobs = <<>>
  /\ phase = "await"
  /\ last = "no"
  /\ client = <<>>
  /\ stored = {}
  /\ recorded = <<>>
  /\ lost = {}

----------------------------------------------------------------------------
(* The upstream *)

TextOf(events, slot) ==
  FlattenSeq([i \in 1..Len(events) |->
                IF events[i].slot = slot THEN events[i].text ELSE <<>>])

Ended(events, slot) ==
  \E i \in 1..Len(events) :
    \/ events[i].kind = "done"
    \/ events[i].slot = slot /\ (events[i].kind = "stop" \/ events[i].ends)

KindsOf(events) == {events[i].kind : i \in 1..Len(events)}

(* What the protocols let an upstream send after the events before.  More  *)
(* than one report of usage would be merged.                               *)
Upcoming(events) ==
  LET open == {s \in IF turn.provider = "openai" THEN ChoiceSlots ELSE Slots :
                 ~Ended(events, s)}
      from == Len(events) + 1
      token(slot) == [slot |-> slot, n |-> Len(TextOf(events, slot)) + 1]
  IN  IF "done" \in KindsOf(events) THEN {} ELSE
      {Event("text", part.slot, <<token(part.slot)>>, part.ends, from) :
         part \in [slot : open,
                   ends : IF turn.provider = "openai" THEN BOOLEAN ELSE {FALSE}]}
      \union {Event("stop", slot, <<>>, FALSE, from) : slot \in open}
      \union {Event(kind, 0, <<>>, FALSE, from) :
                kind \in {"usage", "done"} \ KindsOf(events)}

(* One chunk of the body.                                                  *)
Receive ==
  /\ phase = "await"
  /\ Len(sent) < MaxEvents
  /\ phase' = "transform"
  /\ \/ \E event \in Upcoming(sent) : buffer' = <<event>>
     \/ /\ Len(sent) + 1 < MaxEvents
        /\ \E event \in Upcoming(sent) :
             \E next \in Upcoming(Append(sent, event)) : buffer' = <<event, next>>
  /\ sent' = sent \o buffer'
  /\ UNCHANGED <<turn, block, usage, output, jobs, last, client, stored, recorded, lost>>

----------------------------------------------------------------------------
(* The blocks *)

(* OpenAI's text goes through one block whatever its choice.               *)
BlockOf(slot) == IF turn.provider = "openai" THEN 0 ELSE slot

Held(b) ==
  IF block[b].flushed THEN <<>>
  ELSE SubSeq(block[b].given, block[b].shown + 1, Len(block[b].given))

Flushed(textBlock) ==
  IF textBlock.flushed THEN textBlock
  ELSE [textBlock EXCEPT !.flushed = TRUE, !.shown = Len(textBlock.given)]

(* store_block_original: only what the decoding changed.                   *)
Originals(textBlock) ==
  IF ~textBlock.flushed /\ turn.sigils /\ textBlock.given # <<>>
  THEN <<Job("original", textBlock.given)>> ELSE <<>>

(* The i-th of the blocks.                                                 *)
Nth(blocks, i) == CHOOSE b \in blocks : Cardinality({c \in blocks : c <= b}) = i

TailOf(b) ==
  IF Held(b) = <<>> THEN <<>> ELSE <<Event("text", b, Held(b), FALSE, 0)>>

(* flush_openai_event, flush_block and flush_all_blocks: a synthetic event *)
(* for every tail there is, in the order of the blocks.                    *)
TailEvents(blocks) ==
  FlattenSeq([i \in 1..Cardinality(blocks) |-> TailOf(Nth(blocks, i))])

FlushedOriginals(blocks) ==
  FlattenSeq([i \in 1..Cardinality(blocks) |-> Originals(block[Nth(blocks, i)])])

Flush(blocks) ==
  block' = [b \in Slots |-> IF b \in blocks THEN Flushed(block[b]) ELSE block[b]]

AllBlocks == IF turn.provider = "openai" THEN {0} ELSE Slots

----------------------------------------------------------------------------
(* transform_record, one turn of push_chunk's loop                         *)

(* Text is given to the decoder, and replaced by what comes out.           *)
Text(event) ==
  LET b == BlockOf(event.slot)
      given == block[b].given \o event.text
  IN  /\ event.kind = "text"
      /\ ~event.ends
      /\ \E n \in block[b].shown..Len(given) :
           /\ block' = [block EXCEPT ![b] = [@ EXCEPT !.given = given, !.shown = n]]
           /\ output' = Append(output,
                [event EXCEPT !.text = SubSeq(given, block[b].shown + 1, n)])
      /\ UNCHANGED <<jobs, usage>>

(* Mutation: the decoder is drained before the last text is pushed.        *)
FinalTextAfter(event) ==
  LET b == BlockOf(event.slot)
      given == block[b].given \o event.text
  IN  /\ event.kind = "text"
      /\ event.ends
      /\ \E n \in Len(block[b].given)..Len(given) :
           /\ block' = [block EXCEPT ![b] =
                [given |-> given, shown |-> n, flushed |-> TRUE]]
           /\ output' = Append(output,
                [event EXCEPT !.text = SubSeq(given, block[b].shown + 1, n)])
           /\ jobs' = jobs \o Originals(block[b])
      /\ UNCHANGED usage

(* Text with a finish_reason takes the tail with it.                       *)
FinalText(event) ==
  LET b == BlockOf(event.slot)
      given == block[b].given \o event.text
  IN  /\ event.kind = "text"
      /\ event.ends
      /\ \E n \in block[b].shown..Len(given) :
           LET pushed == [block[b] EXCEPT !.given = given, !.shown = n]
           IN  /\ block' = [block EXCEPT ![b] = Flushed(pushed)]
               /\ output' = Append(output,
                    [event EXCEPT !.text =
                       SubSeq(given, block[b].shown + 1, Flushed(pushed).shown)])
               /\ jobs' = jobs \o Originals(pushed)
      /\ UNCHANGED usage

(* The end of a block or of the stream comes after the tails it closes.    *)
Closed(event) ==
  IF event.kind = "done" THEN AllBlocks ELSE {BlockOf(event.slot)}

End(event) ==
  /\ event.kind \in {"stop", "done"}
  /\ Flush(Closed(event))
  /\ output' = output \o TailEvents(Closed(event)) \o <<event>>
  /\ jobs' = jobs \o FlushedOriginals(Closed(event))
  /\ UNCHANGED usage

(* Anything else passes through; merge_usage.                              *)
Usage(event) ==
  /\ event.kind = "usage"
  /\ usage' = TRUE
  /\ output' = Append(output, event)
  /\ UNCHANGED <<block, jobs>>

(* Mutation: one record of a chunk is transformed, the others wait for the *)
(* next chunk.                                                             *)
TransformOne ==
  /\ phase = "transform"
  /\ LET event == Head(buffer)
     IN  Text(event) \/ FinalText(event) \/ End(event) \/ Usage(event)
  /\ buffer' = Tail(buffer)
  /\ phase' = "io"
  /\ UNCHANGED <<turn, sent, last, client, stored, recorded, lost>>

Transform ==
  /\ phase = "transform"
  /\ LET event == Head(buffer)
     IN  Text(event) \/ FinalText(event) \/ End(event) \/ Usage(event)
  /\ buffer' = Tail(buffer)
  /\ phase' = IF buffer' = <<>> THEN "io" ELSE "transform"
  /\ UNCHANGED <<turn, sent, last, client, stored, recorded, lost>>

----------------------------------------------------------------------------
(* The driver *)

(* Mutation: the transcript takes what was shown, before the tail.         *)
ShownText == [b \in Slots |-> SubSeq(block[b].given, 1, block[b].shown)]

AssistantText == [b \in Slots |-> block[b].given]

Silent == \A b \in Slots : block[b].given = <<>>

(* Mutation: finish flushes the tails, for the store only.                 *)
FinishSilently ==
  /\ phase = "await"
  /\ phase' = "io"
  /\ last' \in {"whole", "cut"}
  /\ Flush(AllBlocks)
  /\ output' = <<>>
  /\ jobs' = FlushedOriginals(AllBlocks) \o <<Job("health", AssistantText)>>
  /\ UNCHANGED <<turn, sent, buffer, usage, client, stored, recorded, lost>>

(* finish: the body ended without an error.  The bytes of a cut record go  *)
(* out first, and make one broken record with the first tail.              *)
Finish ==
  /\ phase = "await"
  /\ phase' = "io"
  /\ last' \in {"whole", "cut"}
  /\ Flush(AllBlocks)
  /\ output' = IF last' = "whole" THEN TailEvents(AllBlocks)
               ELSE SubSeq(TailEvents(AllBlocks), 2, Len(TailEvents(AllBlocks)))
  /\ jobs' = FlushedOriginals(AllBlocks)
       \o (IF usage THEN <<Job("cost", <<>>)>> ELSE <<>>)
       \o <<Job("health", AssistantText)>>
       \o (IF Silent /\ ~turn.receipts THEN <<>>
           ELSE <<Job("transcript", AssistantText)>>)
  /\ UNCHANGED <<turn, sent, buffer, usage, client, stored, recorded, lost>>

(* run_io, off the reactor: it goes on when the client has hung up.        *)
RunJob ==
  /\ phase \in {"io", "cancelled"}
  /\ jobs # <<>>
  /\ IF Head(jobs).kind = "original"
       THEN stored' = stored \union {Head(jobs).text} /\ UNCHANGED recorded
       ELSE recorded' = Append(recorded, Head(jobs)) /\ UNCHANGED stored
  /\ jobs' = Tail(jobs)
  /\ UNCHANGED <<stream, phase, last, client, lost>>

(* A write fails, and is only logged; a panic loses those after it too.    *)
LoseJob ==
  /\ phase \in {"io", "cancelled"}
  /\ jobs # <<>>
  /\ Cardinality(lost) < MaxFaults
  /\ \E n \in {1, Len(jobs)} :
       /\ lost' = lost \union {jobs[i] : i \in 1..n}
       /\ jobs' = SubSeq(jobs, n + 1, Len(jobs))
  /\ UNCHANGED <<stream, phase, last, client, stored, recorded>>

(* Mutation: the item does not wait for the writes.                        *)
YieldFirst ==
  /\ phase = "io"
  /\ client' = client \o output
  /\ output' = <<>>
  /\ phase' = IF last = "no" THEN "await" ELSE "done"
  /\ UNCHANGED <<turn, sent, buffer, block, usage, jobs, last, stored, recorded, lost>>

(* Mutation: an item whose writes failed is withheld.                      *)
YieldIfWritten ==
  /\ phase = "io"
  /\ jobs = <<>>
  /\ lost = {}
  /\ client' = client \o output
  /\ output' = <<>>
  /\ phase' = IF last = "no" THEN "await" ELSE "done"
  /\ UNCHANGED <<turn, sent, buffer, block, usage, jobs, last, stored, recorded, lost>>

(* The writes are done: the client gets the item.                          *)
Yield ==
  /\ phase = "io"
  /\ jobs = <<>>
  /\ client' = client \o output
  /\ output' = <<>>
  /\ phase' = IF last = "no" THEN "await" ELSE "done"
  /\ UNCHANGED <<turn, sent, buffer, block, usage, jobs, last, stored, recorded, lost>>

(* The body fails: what is held back is dropped.                           *)
Abort ==
  /\ phase = "await"
  /\ phase' = "aborted"
  /\ UNCHANGED <<stream, jobs, last, client, stored, recorded, lost>>

(* The client hangs up while the driver waits, and the stream is dropped.  *)
Cancel ==
  /\ phase \in {"await", "io"}
  /\ phase' = "cancelled"
  /\ output' = <<>>
  /\ UNCHANGED <<turn, sent, buffer, block, usage, jobs, last, client, stored, recorded, lost>>

Next ==
  \/ Receive \/ Finish \/ Abort
  \/ Transform \/ RunJob \/ LoseJob \/ Yield
  \/ Cancel

Spec == Init /\ [][Next]_vars

(* The runtime polls the stream while the client reads, and spawn_blocking *)
(* runs what it was given; nothing obliges the upstream.                   *)
FairSpec ==
  Spec /\ WF_vars(Transform) /\ WF_vars(RunJob) /\ WF_vars(Yield)

----------------------------------------------------------------------------
(* Properties *)

(* Those of the events that are the upstream's.                            *)
Original(events) ==
  FlattenSeq([i \in 1..Len(events) |->
                IF events[i].from = 0 THEN <<>> ELSE <<events[i]>>])

Forwarded == Original(client)

(* Events reach the client in arrival order, each once, whatever became of *)
(* their text, and none waits once its chunk is done with; what the proxy  *)
(* adds is text only, never an end.                                        *)
ArrivalOrder ==
  /\ Len(Forwarded) <= Len(sent)
  /\ phase \in {"await", "done", "aborted"} => Len(Forwarded) = Len(sent)
  /\ \A i \in 1..Len(Forwarded) :
       [Forwarded[i] EXCEPT !.text = <<>>] = [sent[i] EXCEPT !.text = <<>>]
  /\ \A i \in 1..Len(client) :
       client[i].from = 0 => client[i].kind = "text" /\ ~client[i].ends

(* What a client reads of one block is what HoldBack allows: a prefix of   *)
(* the model's text, and all of it when the client sees the block's end,   *)
(* so that the tail comes before the end and nothing after it.             *)
Client(slot) == INSTANCE HoldBack WITH
  given <- TextOf(sent, slot),
  shown <- TextOf(client, slot),
  finished <- Ended(client, slot)

StreamHoldsBack ==
  /\ \A slot \in Slots : Client(slot)!Init
  /\ [][\A slot \in Slots :
          Client(slot)!Next \/ UNCHANGED Client(slot)!vars]_vars

(* A body that ends without its terminal event still delivers the tails.   *)
TailDelivered ==
  phase = "done" /\ last = "whole" =>
    \A slot \in Slots : TextOf(client, slot) = TextOf(sent, slot)

(* Every event of the upstream, and every text held back, is delivered.    *)
Delivered == ArrivalOrder /\ TailDelivered

LostTexts == {job.text : job \in {j \in lost : j.kind = "original"}}

(* When the client has seen the end of a rewritten block, the original of  *)
(* just what it read is in the store (unless writing it failed): its next  *)
(* request can be substituted.                                             *)
StoredBeforeEnd ==
  \A slot \in Slots :
    LET text == TextOf(client, slot)
    IN  Ended(client, slot) /\ turn.sigils /\ text # <<>> =>
          text \in stored \union LostTexts

(* Cost, health and transcript are recorded once, of the whole response,   *)
(* by the time the client sees the end of the body, and only for bodies    *)
(* that end.                                                               *)
RecordedOnce ==
  LET Written == {recorded[i] : i \in 1..Len(recorded)}
                   \union {job \in lost : job.kind # "original"}
      whole == [slot \in Slots |-> TextOf(sent, slot)]
  IN  /\ \A i, j \in 1..Len(recorded) :
           recorded[i].kind = recorded[j].kind => i = j
      /\ recorded # <<>> => last # "no"
      /\ phase = "done" =>
           Written =
             {Job("health", whole)}
             \union {Job("cost", <<>>) : kind \in KindsOf(sent) \intersect {"usage"}}
             \union (IF turn.receipts \/ \E slot \in Slots : whole[slot] # <<>>
                     THEN {Job("transcript", whole)} ELSE {})

(* A chunk that arrived is passed on, or the whole body recorded, whatever *)
(* becomes of the writes, unless the client hangs up first.                *)
ChunksPassOn ==
  phase \in {"transform", "io"} ~> phase \in {"await", "done", "cancelled"}
============================================================================
