------------------------------ MODULE Repeats -------------------------------
(***************************************************************************)
(* observe_thrash of src/src/session.rs and the tool events of proxy.rs:   *)
(* the repeats among the tool calls and tool results of a session, found   *)
(* from what each request adds to the history it replays.                  *)
(*                                                                         *)
(* An event has a key, its place in the history; a call's id links a       *)
(* result to it.  A call is its tool, its argument tokens and whether it   *)
(* edits, under a name in Calls.                                           *)
(***************************************************************************)
EXTENDS Integers, SequencesExt

CONSTANTS
  Calls,       \* from a name to [tool, tokens, edit]
  CallCap      \* the calls remembered, 128 in the code

ASSUME RepeatsAssumption ==
  /\ CallCap \in Nat \ {0}
  /\ \A c \in DOMAIN Calls : IsFiniteSet(Calls[c].tokens) /\ Calls[c].edit \in BOOLEAN

----------------------------------------------------------------------------
(* The events of a history *)

Call(key, block) ==
  [type |-> "call", key |-> key, value |-> block.value, id |-> block.id, failed |-> FALSE]

Result(key, block) ==
  [type |-> "result", key |-> key, value |-> block.value, id |-> block.id,
   failed |-> block.failed]

(* The calls of a message up to a block                                    *)
CallNumber(blocks, b) == Cardinality({k \in 1..b : blocks[k].type = "call"})

(* openai_thrash_events: calls by their place among the message's calls,   *)
(* a result is a message.                                                  *)
OpenaiMessage(message, m) ==
  LET blocks == message.blocks
  IN  CASE message.role = "assistant" ->
             FlattenSeq(
               [b \in 1..Len(blocks) |->
                  IF blocks[b].type = "call"
                  THEN <<Call(<<"call", m, CallNumber(blocks, b)>>, blocks[b])>>
                  ELSE <<>>])
        [] message.role = "tool" -> <<Result(<<"result", m>>, blocks[1])>>
        [] OTHER -> <<>>

OpenaiEvents(messages) ==
  FlattenSeq([m \in 1..Len(messages) |-> OpenaiMessage(messages[m], m)])

(* anthropic_thrash_events: calls and results by their block.              *)
AnthropicMessage(message, m) ==
  LET blocks == message.blocks
  IN  FlattenSeq(
        [b \in 1..Len(blocks) |->
           CASE blocks[b].type = "call" -> <<Call(<<"call", m, b>>, blocks[b])>>
             [] blocks[b].type = "result" -> <<Result(<<"result", m, b>>, blocks[b])>>
             [] OTHER -> <<>>])

AnthropicEvents(messages) ==
  FlattenSeq([m \in 1..Len(messages) |-> AnthropicMessage(messages[m], m)])

----------------------------------------------------------------------------
(* observe_thrash *)

Counts == [exact : Nat, near : Nat, cycles : Nat]
NoCounts == [exact |-> 0, near |-> 0, cycles |-> 0]

Plus(a, b) ==
  [exact |-> a.exact + b.exact, near |-> a.near + b.near, cycles |-> a.cycles + b.cycles]

(* What a session's entry keeps for it.                                    *)
NewEntry ==
  [keys |-> {}, digests |-> {}, calls |-> <<>>, edits |-> {}, pending |-> FALSE]

(* token_similarity >= 0.60, of different tokens                           *)
Similar(a, b) ==
  LET s == Calls[a].tokens
      t == Calls[b].tokens
  IN  /\ Calls[a].tool = Calls[b].tool
      /\ s # t
      /\ 5 * Cardinality(s \intersect t) >= 3 * Cardinality(s \union t)

One(condition) == IF condition THEN 1 ELSE 0

(* Mutation: one call more is remembered.                                  *)
CappedLate(calls) == IF Len(calls) > CallCap + 1 THEN Tail(calls) ELSE calls

Capped(calls) == IF Len(calls) > CallCap THEN Tail(calls) ELSE calls

ObserveCall(seen, event) ==
  LET entry == seen.entry
      edit == Calls[event.value].edit
      near == \E k \in 1..Len(entry.calls) : Similar(entry.calls[k], event.value)
      cycle == edit /\ entry.pending
  IN  [entry |-> [entry EXCEPT !.pending = @ /\ ~cycle,
                               !.edits = IF edit THEN @ \union {event.id} ELSE @,
                               !.calls = Capped(Append(@, event.value))],
       counts |-> [seen.counts EXCEPT !.near = @ + One(near), !.cycles = @ + One(cycle)]]

ObserveResult(seen, event) ==
  LET entry == seen.entry
  IN  [entry |-> [entry EXCEPT !.digests = @ \union {event.value},
                               !.pending = @ \/ (event.failed /\ event.id \in entry.edits)],
       counts |-> [seen.counts EXCEPT !.exact = @ + One(event.value \in entry.digests)]]

(* Mutation: a call is observed however often its message is replayed.     *)
ObserveAgain(seen, event) ==
  LET fresh == [seen EXCEPT !.entry.keys = @ \union {event.key}]
  IN  IF event.type = "call" THEN ObserveCall(fresh, event)
      ELSE IF event.key \in seen.entry.keys THEN seen
      ELSE ObserveResult(fresh, event)

(* An event already seen at its place is passed over.                      *)
ObserveOne(seen, event) ==
  LET fresh == [seen EXCEPT !.entry.keys = @ \union {event.key}]
  IN  IF event.key \in seen.entry.keys THEN seen
      ELSE IF event.type = "call" THEN ObserveCall(fresh, event)
      ELSE ObserveResult(fresh, event)

Observe(entry, events) ==
  FoldLeft(ObserveOne, [entry |-> entry, counts |-> NoCounts], events)

----------------------------------------------------------------------------
(* The same without an entry: the repeats among the events of a history.   *)

CallsAt(events) == {i \in DOMAIN events : events[i].type = "call"}
EditsAt(events) == {i \in CallsAt(events) : Calls[events[i].value].edit}
ResultsAt(events) == {i \in DOMAIN events : events[i].type = "result"}

ExactRepeats(events) ==
  {i \in ResultsAt(events) :
     \E j \in ResultsAt(events) : j < i /\ events[j].value = events[i].value}

NearRepeats(events) ==
  {i \in CallsAt(events) :
     \E j \in CallsAt(events) :
       /\ j < i /\ Similar(events[j].value, events[i].value)
       /\ Cardinality({k \in CallsAt(events) : j <= k /\ k < i}) <= CallCap}

(* An edit, after a failed edit with no edit between that failure and it.  *)
EditCycles(events) ==
  {i \in EditsAt(events) :
     \E j \in ResultsAt(events) :
       /\ j < i /\ events[j].failed
       /\ \E e \in EditsAt(events) : e < j /\ events[e].id = events[j].id
       /\ ~ \E e \in EditsAt(events) : j < e /\ e < i}

Repeats(events) ==
  [exact |-> Cardinality(ExactRepeats(events)),
   near |-> Cardinality(NearRepeats(events)),
   cycles |-> Cardinality(EditCycles(events))]
============================================================================
