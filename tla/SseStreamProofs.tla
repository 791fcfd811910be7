--------------------------- MODULE SseStreamProofs --------------------------
(***************************************************************************)
(* TLAPS proofs about SseStream, for every set of requests, blocks and     *)
(* choices and any number of events and failed writes: type correctness    *)
(* and the order of the events, whatever the choices; and, for a stream of *)
(* one choice, the text, its originals and the records.                    *)
(***************************************************************************)
EXTENDS SseStream, SequenceTheorems, FiniteSetTheorems, WellFoundedInduction, TLAPS

----------------------------------------------------------------------------
(* The inductive invariant *)

(* An event the proxy makes is text and no more.                           *)
Token == [slot : Slots, n : Nat]

EventType ==
  {event \in [kind : {"text", "stop", "usage", "done"}, slot : Slots,
              text : Seq(Token), ends : BOOLEAN, from : 0..MaxEvents] :
     event.from = 0 => event.kind = "text" /\ ~event.ends}

JobType ==
  [kind : {"original", "cost", "health", "transcript"},
   text : Seq(Token) \union [Slots -> Seq(Token)]]

BlockType == [given : Seq(Token), shown : Nat, flushed : BOOLEAN]

(* The records and sequences are what they should be.                      *)
Formed ==
  /\ turn \in Turns
  /\ sent \in Seq(EventType) /\ buffer \in Seq(EventType)
  /\ output \in Seq(EventType) /\ client \in Seq(EventType)
  /\ \A i \in 1..Len(buffer) : buffer[i].from # 0
  /\ block \in [Slots -> BlockType]
  /\ \A b \in Slots :
       /\ block[b].shown <= Len(block[b].given)
       /\ turn.provider = "openai" /\ b # 0 => block[b].given = <<>>
  /\ jobs \in Seq(JobType) /\ recorded \in Seq(JobType) /\ lost \subseteq JobType
  /\ usage \in BOOLEAN /\ last \in {"no", "whole", "cut"}

(* What waits where in which phase                                         *)
Phased ==
  /\ phase \in {"await", "transform", "io", "done", "aborted", "cancelled"}
  /\ buffer # <<>> <=> phase = "transform"
  /\ output # <<>> => phase \in {"transform", "io"}
  /\ jobs # <<>> => phase \in {"transform", "io", "cancelled"}
  /\ last # "no" => phase \in {"io", "done", "cancelled"}
  /\ phase = "done" => last # "no"

(* The events transformed so far, and what became of them                  *)
Transformed == SubSeq(sent, 1, Len(sent) - Len(buffer))
Emitted == client \o output

IsJoin(s, t, u) == s = t \o u

Splits(front) == IsJoin(sent, front, buffer)

Bare(event) == [event EXCEPT !.text = <<>>]

Same(events, others) ==
  /\ Len(events) = Len(others)
  /\ \A i \in 1..Len(events) : Bare(events[i]) = Bare(others[i])

(* What was transformed came out, for as long as the client is there.      *)
Ordered ==
  /\ Len(buffer) <= Len(sent) /\ Splits(Transformed)
  /\ \A j \in 1..Len(sent) : sent[j].from = j
  /\ phase # "cancelled" => Same(Original(Emitted), Transformed)

(* No two choices share a block: OpenAI's n is 1.  The decoder of a second *)
(* choice would be the first one's, which SseStreamDecoder does not tell   *)
(* apart; Anthropic's blocks have one each.                                *)
OneChoice == ChoiceSlots = {0}

Closes(event, slot) ==
  event.kind = "done" \/ (event.slot = slot /\ (event.kind = "stop" \/ event.ends))

(* The upstream keeps to the protocol.                                     *)
Lawful(events) ==
  \A j \in 1..Len(events) :
    /\ events[j].slot \in AllBlocks
    /\ events[j].kind # "text" => events[j].text = <<>>
    /\ events[j].ends => events[j].kind = "text"
    /\ \A i \in 1..(j - 1) :
         events[j].kind \in {"text", "stop"} => ~Closes(events[i], events[j].slot)

(* A block has the text transformed so far, and is flushed with its end.   *)
Given ==
  /\ Lawful(sent)
  /\ usage <=> "usage" \in KindsOf(Transformed)
  /\ \A b \in Slots :
       /\ block[b].given = TextOf(Transformed, b)
       /\ block[b].flushed => block[b].shown = Len(block[b].given)
  /\ \A b \in AllBlocks :
       block[b].flushed <=> Ended(Transformed, b) \/ last # "no"

Shown(b) == SubSeq(block[b].given, 1, block[b].shown)

(* What came out of a block                                                *)
ShowsBlock(slot) ==
  /\ Ended(Emitted, slot) <=> Ended(Transformed, slot)
  /\ IsPrefix(TextOf(Emitted, slot), block[slot].given)
  /\ last # "cut" \/ Ended(Transformed, slot) => TextOf(Emitted, slot) = Shown(slot)

AllAtEnd == \A slot \in Slots :
  Ended(client, slot) => TextOf(client, slot) = TextOf(sent, slot)

(* ... came out while the client was there, and all of it with its end.    *)
Passed ==
  /\ phase # "cancelled" => \A slot \in Slots : ShowsBlock(slot)
  /\ AllAtEnd

StreamInv == Formed /\ Phased /\ Ordered /\ ArrivalOrder /\ Given /\ Passed

(* The original of a flushed block is stored, or will be.                  *)
HasOriginal(b) ==
  block[b].flushed /\ turn.sigils /\ block[b].given # <<>> =>
    \/ block[b].given \in stored \union LostTexts
    \/ Job("original", block[b].given) \in Range(jobs)

Kept == \A b \in AllBlocks : HasOriginal(b)

IsRecord(job) == job.kind # "original"

Made == {job \in Range(recorded) \union lost \union Range(jobs) : IsRecord(job)}

Whole == [slot \in Slots |-> TextOf(sent, slot)]

(* The records of a response that ended                                    *)
Records ==
  {Job("health", Whole)}
    \union {Job("cost", <<>>) : kind \in KindsOf(sent) \intersect {"usage"}}
    \union (IF turn.receipts \/ \E slot \in Slots : Whole[slot] # <<>>
            THEN {Job("transcript", Whole)} ELSE {})

(* They are made at the end, and each is written, lost or queued.          *)
Accounted == Made = IF last = "no" THEN {} ELSE Records

Single(queue) ==
  \A i, j \in 1..Len(queue) :
    IsRecord(queue[i]) /\ queue[i].kind = queue[j].kind => i = j

(* None is queued or written twice.                                        *)
Once ==
  /\ \A i \in 1..Len(recorded) : IsRecord(recorded[i])
  /\ Single(recorded) /\ Single(jobs)
  /\ \A i \in 1..Len(recorded), j \in 1..Len(jobs) : recorded[i].kind # jobs[j].kind

----------------------------------------------------------------------------
(* Induction over the natural numbers, for a set of them: what FlattenSeq, *)
(* which is defined by a recursive function, does to a sequence.           *)

(* A set of natural numbers has a least one.                               *)
LEMMA LeastNatural ==
  ASSUME NEW T, T \subseteq Nat, T # {}
  PROVE  \E m \in T : \A k \in T : m <= k
<1> DEFINE R == OpToRel(<, Nat)
<1>1. IsWellFoundedOn(R, Nat)
  BY NatLessThanWellFounded
<1>2. \A x, y \in Nat : x < y => <<x, y>> \in R
  BY DEF OpToRel
<1> HIDE DEF R
<1>3. PICK m \in T : \A k \in T : ~(<<k, m>> \in R)
  BY <1>1, WFMin
<1>4. \A k \in T : ~(k < m)
  BY <1>2, <1>3
<1>5. QED
  BY <1>4

(* A set of them with 0 and every successor has them all.                  *)
LEMMA Inductive ==
  ASSUME NEW T, 0 \in T, \A n \in Nat : n \in T => n + 1 \in T
  PROVE  Nat \subseteq T
<1> SUFFICES ASSUME NEW k \in Nat, k \notin T PROVE FALSE
  OBVIOUS
<1> DEFINE U == Nat \ T
<1>1. PICK m \in U : \A j \in U : m <= j
  BY LeastNatural
<1>2. m # 0 /\ m - 1 \in Nat /\ m - 1 \notin U
  BY <1>1
<1>3. QED
  BY <1>1, <1>2

(* The function in the definition of FlattenSeq                            *)
Flattens(f, seqs) ==
  f = [i \in 1..Len(seqs) |-> IF i = 1 THEN seqs[i] ELSE f[i-1] \o seqs[i]]

LEMMA FlattenIs ==
  ASSUME NEW seqs, Len(seqs) # 0
  PROVE  FlattenSeq(seqs) = (CHOOSE f : Flattens(f, seqs))[Len(seqs)]
BY DEF FlattenSeq, Flattens

Agree(s, t, n) == \A i \in 1..n : s[i] = t[i]

(* It is the same for two sequences as far as they agree.                  *)
LEMMA FlattensSame ==
  ASSUME NEW S, NEW s \in Seq(Seq(S)), NEW t \in Seq(Seq(S)), NEW n \in Nat,
         n <= Len(s), n <= Len(t), Agree(s, t, n)
  PROVE  \A f, g : Flattens(f, s) /\ Flattens(g, t) => Agree(f, g, n)
<1> SUFFICES ASSUME NEW f, NEW g, Flattens(f, s), Flattens(g, t)
             PROVE  \A i \in 1..n : f[i] = g[i]
  BY DEF Agree
<1> DEFINE T == {k \in Nat : k \in 1..n => f[k] = g[k]}
<1>1. 0 \in T
  OBVIOUS
<1>2. ASSUME NEW k \in Nat, k \in T PROVE k + 1 \in T
  <2>1. SUFFICES ASSUME k + 1 \in 1..n PROVE f[k+1] = g[k+1]
    OBVIOUS
  <2>2. /\ f[k+1] = IF k + 1 = 1 THEN s[k+1] ELSE f[(k+1)-1] \o s[k+1]
        /\ g[k+1] = IF k + 1 = 1 THEN t[k+1] ELSE g[(k+1)-1] \o t[k+1]
    <3>1. k + 1 \in 1..Len(s) /\ k + 1 \in 1..Len(t)
      BY <2>1
    <3>2. f[k+1] = [i \in 1..Len(s) |-> IF i = 1 THEN s[i] ELSE f[i-1] \o s[i]][k+1]
      BY Zenon DEF Flattens
    <3>3. g[k+1] = [i \in 1..Len(t) |-> IF i = 1 THEN t[i] ELSE g[i-1] \o t[i]][k+1]
      BY Zenon DEF Flattens
    <3>4. QED
      BY <3>1, <3>2, <3>3
  <2>3. s[k+1] = t[k+1] /\ (k + 1) - 1 = k
    BY <2>1 DEF Agree
  <2>4. k # 0 => f[k] = g[k]
    BY <1>2, <2>1
  <2>5. QED
    BY <2>2, <2>3, <2>4
<1> HIDE DEF T
<1>3. Nat \subseteq T
  BY <1>1, <1>2, Inductive
<1>4. QED
  BY <1>3 DEF T

(* There is one, whose values are sequences over the same set.             *)
LEMMA FlattensExists ==
  ASSUME NEW S
  PROVE  \A seqs \in Seq(Seq(S)) :
           \E f \in [1..Len(seqs) -> Seq(S)] : Flattens(f, seqs)
<1> DEFINE T == {n \in Nat : \A seqs \in Seq(Seq(S)) : Len(seqs) = n =>
                    \E f \in [1..n -> Seq(S)] : Flattens(f, seqs)}
<1>1. 0 \in T
  <2>1. ASSUME NEW seqs \in Seq(Seq(S)), Len(seqs) = 0
        PROVE  \E f \in [1..0 -> Seq(S)] : Flattens(f, seqs)
    <3> DEFINE f == [i \in 1..0 |-> <<>>]
    <3>1. f \in [1..0 -> Seq(S)]
      OBVIOUS
    <3>2. f = [i \in 1..0 |-> IF i = 1 THEN seqs[i] ELSE f[i-1] \o seqs[i]]
      OBVIOUS
    <3>3. QED
      BY <2>1, <3>1, <3>2 DEF Flattens
  <2>2. QED
    BY <2>1
<1>2. ASSUME NEW n \in Nat, n \in T PROVE n + 1 \in T
  <2>1. SUFFICES ASSUME NEW seqs \in Seq(Seq(S)), Len(seqs) = n + 1
                 PROVE  \E g \in [1..(n+1) -> Seq(S)] : Flattens(g, seqs)
    OBVIOUS
  <2> DEFINE front == SubSeq(seqs, 1, n)
  <2>2. front \in Seq(Seq(S)) /\ Len(front) = n /\ \A i \in 1..n : front[i] = seqs[i]
    BY <2>1
  <2> HIDE DEF front
  <2>3. PICK f \in [1..n -> Seq(S)] : Flattens(f, front)
    BY <1>2, <2>2
  <2> DEFINE g == [i \in 1..(n+1) |->
                    IF i = 1 THEN seqs[i]
                    ELSE IF i <= n THEN f[i] ELSE f[n] \o seqs[i]]
  <2>4. \A i \in 1..(n+1) : seqs[i] \in Seq(S)
    BY <2>1
  <2>5. g \in [1..(n+1) -> Seq(S)]
    BY <2>3, <2>4
  <2>11. \A i \in 1..(n+1) :
           g[i] = IF i = 1 THEN seqs[i] ELSE IF i <= n THEN f[i] ELSE f[n] \o seqs[i]
    OBVIOUS
  <2> HIDE DEF g
  <2>6. \A i \in 1..n : f[i] = IF i = 1 THEN seqs[i] ELSE f[i-1] \o seqs[i]
    <3>1. TAKE i \in 1..n
    <3>2. f[i] = [j \in 1..Len(front) |-> IF j = 1 THEN front[j] ELSE f[j-1] \o front[j]][i]
      BY <2>3, Zenon DEF Flattens
    <3>3. f[i] = IF i = 1 THEN front[i] ELSE f[i-1] \o front[i]
      BY <2>2, <3>2
    <3>4. QED
      BY <2>2, <3>3
  <2>12. \A i \in 1..n : g[i] = f[i]
    <3>1. TAKE i \in 1..n
    <3>2. i \in 1..(n+1) /\ i <= n
      OBVIOUS
    <3>3. g[i] = IF i = 1 THEN seqs[i] ELSE f[i]
      BY <2>11, <3>2
    <3>4. i = 1 => f[i] = seqs[i]
      BY <2>6
    <3>5. QED
      BY <3>3, <3>4
  <2>7. \A i \in 1..(n+1) : g[i] = IF i = 1 THEN seqs[i] ELSE g[i-1] \o seqs[i]
    <3>1. TAKE i \in 1..(n+1)
    <3>2. CASE i = 1
      BY <2>11, <3>2
    <3>3. CASE i # 1 /\ i <= n
      <4>0. i \in 1..n /\ i - 1 \in 1..n
        BY <3>3
      <4>1. g[i] = f[i] /\ f[i] = f[i-1] \o seqs[i]
        BY <2>6, <2>12, <3>3, <4>0
      <4>2. g[i-1] = f[i-1]
        BY <2>12, <4>0
      <4>3. QED
        BY <3>3, <4>1, <4>2
    <3>4. CASE i # 1 /\ ~(i <= n)
      <4>1. i = n + 1 /\ i - 1 = n /\ n \in 1..n
        BY <3>4
      <4>2. g[n] = f[n]
        BY <2>12, <4>1
      <4>3. g[i] = f[n] \o seqs[i]
        BY <2>11, <3>4
      <4>4. QED
        BY <3>4, <4>1, <4>2, <4>3
    <3>5. QED
      BY <3>2, <3>3, <3>4
  <2>8. g = [i \in 1..Len(seqs) |-> IF i = 1 THEN seqs[i] ELSE g[i-1] \o seqs[i]]
    <3> DEFINE h == [i \in 1..Len(seqs) |-> IF i = 1 THEN seqs[i] ELSE g[i-1] \o seqs[i]]
    <3>1. DOMAIN g = 1..(n+1) /\ DOMAIN h = 1..(n+1)
      BY <2>1, <2>5
    <3>2. \A i \in 1..(n+1) : h[i] = g[i]
      BY <2>1, <2>7
    <3>3. g \in [1..(n+1) -> Seq(S)]
      BY <2>5
    <3>4. h = [i \in 1..(n+1) |-> g[i]]
      BY <2>1, <2>7
    <3>5. g = [i \in 1..(n+1) |-> g[i]]
      BY <3>3
    <3>6. QED
      BY <3>4, <3>5
  <2>9. QED
    BY <2>5, <2>8 DEF Flattens
<1> HIDE DEF T
<1>3. Nat \subseteq T
  BY <1>1, <1>2, Inductive
<1>4. ASSUME NEW seqs \in Seq(Seq(S))
      PROVE  \E f \in [1..Len(seqs) -> Seq(S)] : Flattens(f, seqs)
  <2>1. Len(seqs) \in Nat
    OBVIOUS
  <2>2. Len(seqs) \in T
    BY <1>3, <2>1
  <2>3. QED
    BY <2>2 DEF T
<1>5. QED
  BY <1>4

LEMMA FlattenEmpty == FlattenSeq(<<>>) = <<>>
BY DEF FlattenSeq

LEMMA FlattenValue ==
  ASSUME NEW S, NEW seqs \in Seq(Seq(S)), seqs # <<>>
  PROVE  \E f \in [1..Len(seqs) -> Seq(S)] :
           Flattens(f, seqs) /\ FlattenSeq(seqs) = f[Len(seqs)]
<1>1. PICK g \in [1..Len(seqs) -> Seq(S)] : Flattens(g, seqs)
  BY FlattensExists
<1> DEFINE f == CHOOSE h : Flattens(h, seqs)
<1>2. Flattens(f, seqs)
  BY <1>1
<1>3. Len(seqs) \in Nat \ {0}
  BY EmptySeq
<1>4. FlattenSeq(seqs) = f[Len(seqs)]
  BY <1>3, FlattenIs
<1> HIDE DEF f
<1>5. \A i \in 1..Len(seqs) : f[i] = g[i]
  <2>1. Agree(seqs, seqs, Len(seqs)) /\ Len(seqs) \in Nat /\ Len(seqs) <= Len(seqs)
    BY DEF Agree
  <2>2. Agree(f, g, Len(seqs))
    BY <1>1, <1>2, <2>1, FlattensSame, Zenon
  <2>3. QED
    BY <2>2 DEF Agree
<1>6. Len(seqs) \in 1..Len(seqs)
  BY <1>3
<1>7. FlattenSeq(seqs) = g[Len(seqs)]
  BY <1>4, <1>5, <1>6
<1>8. QED
  BY <1>1, <1>7

LEMMA FlattenType ==
  ASSUME NEW S, NEW seqs \in Seq(Seq(S))
  PROVE  FlattenSeq(seqs) \in Seq(S)
<1>1. CASE seqs = <<>>
  <2>1. FlattenSeq(seqs) = <<>>
    BY <1>1, FlattenEmpty
  <2>2. QED
    BY <2>1
<1>2. CASE seqs # <<>>
  <2>1. Len(seqs) \in 1..Len(seqs)
    BY <1>2, EmptySeq
  <2>2. PICK f \in [1..Len(seqs) -> Seq(S)] : FlattenSeq(seqs) = f[Len(seqs)]
    BY <1>2, FlattenValue
  <2>3. QED
    BY <2>1, <2>2
<1>3. QED
  BY <1>1, <1>2

(* FlattenSeq takes the elements of a sequence in order.                   *)
LEMMA FlattenAppend ==
  ASSUME NEW S, NEW seqs \in Seq(Seq(S)), NEW s \in Seq(S)
  PROVE  FlattenSeq(Append(seqs, s)) = FlattenSeq(seqs) \o s
<1> DEFINE more == Append(seqs, s)
           n == Len(seqs)
<1>1. /\ more \in Seq(Seq(S)) /\ more # <<>> /\ Len(more) = n + 1
      /\ n \in Nat /\ more[n + 1] = s
      /\ \A i \in 1..n : more[i] = seqs[i]
  BY AppendProperties
<1> HIDE DEF more
<1>2. PICK f : /\ f \in [1..Len(more) -> Seq(S)]
               /\ Flattens(f, more) /\ FlattenSeq(more) = f[Len(more)]
  BY <1>1, FlattenValue
<1>3. f[n + 1] = IF n + 1 = 1 THEN s ELSE f[n] \o s
  <2>1. f[n + 1] =
          [j \in 1..Len(more) |-> IF j = 1 THEN more[j] ELSE f[j-1] \o more[j]][n + 1]
    BY <1>2, Zenon DEF Flattens
  <2>2. (n + 1) - 1 = n /\ n + 1 \in 1..Len(more)
    BY <1>1
  <2>3. QED
    BY <1>1, <2>1, <2>2
<1>4. CASE seqs = <<>>
  <2>1. n = 0
    BY <1>4
  <2>2. <<>> \o s = s
    BY ConcatEmptySeq
  <2>3. QED
    BY <1>1, <1>2, <1>3, <1>4, <2>1, <2>2, FlattenEmpty DEF more
<1>5. CASE seqs # <<>>
  <2>1. n # 0
    BY <1>5, EmptySeq
  <2>2. PICK g : Flattens(g, seqs) /\ FlattenSeq(seqs) = g[n]
    BY <1>5, FlattenValue
  <2>3. f[n] = g[n]
    <3>1. n <= Len(more) /\ n <= Len(seqs) /\ n \in 1..n /\ Len(more) \in Nat
      BY <1>1, <2>1
    <3>2. Agree(more, seqs, n) /\ more \in Seq(Seq(S)) /\ n <= Len(more) /\ n <= Len(seqs)
      BY <1>1 DEF Agree
    <3> HIDE DEF n
    <3>3. Agree(f, g, n)
      BY <1>1, <1>2, <2>2, <3>2, FlattensSame
    <3>4. QED
      BY <3>1, <3>3 DEF Agree
  <2>4. QED
    BY <1>1, <1>2, <1>3, <2>1, <2>2, <2>3 DEF more
<1>6. QED
  BY <1>4, <1>5

LEMMA FlattenOne ==
  ASSUME NEW S, NEW s \in Seq(S)
  PROVE  FlattenSeq(<<s>>) = s
<1>1. FlattenSeq(Append(<<>>, s)) = FlattenSeq(<<>>) \o s
  <2>1. <<>> \in Seq(Seq(S))
    BY EmptySeq
  <2>2. QED
    BY <2>1, FlattenAppend
<1>2. Append(<<>>, s) = <<s>>
  OBVIOUS
<1>3. QED
  BY <1>1, <1>2, FlattenEmpty, ConcatEmptySeq

(* It distributes over concatenation.                                      *)
LEMMA FlattenJoin ==
  ASSUME NEW S, NEW a \in Seq(Seq(S)), NEW b \in Seq(Seq(S))
  PROVE  FlattenSeq(a \o b) = FlattenSeq(a) \o FlattenSeq(b)
<1> DEFINE T == {n \in Nat : \A c \in Seq(Seq(S)) : Len(c) = n =>
                    FlattenSeq(a \o c) = FlattenSeq(a) \o FlattenSeq(c)}
<1>1. 0 \in T
  <2>1. ASSUME NEW c \in Seq(Seq(S)), Len(c) = 0
        PROVE  FlattenSeq(a \o c) = FlattenSeq(a) \o FlattenSeq(c)
    <3>1. c = <<>> /\ a \o c = a
      BY <2>1, ConcatEmptySeq
    <3>2. FlattenSeq(a) \in Seq(S)
      BY FlattenType
    <3>3. QED
      BY <3>1, <3>2, FlattenEmpty, ConcatEmptySeq
  <2>2. QED
    BY <2>1
<1>2. ASSUME NEW n \in Nat, n \in T PROVE n + 1 \in T
  <2>1. SUFFICES ASSUME NEW c \in Seq(Seq(S)), Len(c) = n + 1
                 PROVE  FlattenSeq(a \o c) = FlattenSeq(a) \o FlattenSeq(c)
    OBVIOUS
  <2>2. c # <<>>
    BY <2>1
  <2>3. PICK d \in Seq(Seq(S)), e \in Seq(S) : c = Append(d, e)
    BY <2>2, SequenceEmptyOrAppend
  <2>4. Len(d) = n
    BY <2>1, <2>3, AppendProperties
  <2>5. FlattenSeq(a \o d) = FlattenSeq(a) \o FlattenSeq(d)
    BY <1>2, <2>4
  <2>6. a \o d \in Seq(Seq(S)) /\ a \o c = Append(a \o d, e)
    BY <2>3
  <2>7. FlattenSeq(a \o c) = (FlattenSeq(a) \o FlattenSeq(d)) \o e
    BY <2>5, <2>6, FlattenAppend
  <2>8. FlattenSeq(c) = FlattenSeq(d) \o e
    BY <2>3, FlattenAppend
  <2>9. FlattenSeq(a) \in Seq(S) /\ FlattenSeq(d) \in Seq(S)
    BY FlattenType
  <2>10. (FlattenSeq(a) \o FlattenSeq(d)) \o e = FlattenSeq(a) \o (FlattenSeq(d) \o e)
    BY <2>9
  <2>11. QED
    BY <2>7, <2>8, <2>10
<1> HIDE DEF T
<1>3. Nat \subseteq T
  BY <1>1, <1>2, Inductive
<1>4. Len(b) \in T
  BY <1>3, LenProperties
<1>5. QED
  BY <1>4 DEF T

(* A sequence of empty ones                                                *)
LEMMA FlattenNothing ==
  ASSUME NEW S, NEW a \in Seq(Seq(S)), \A i \in 1..Len(a) : a[i] = <<>>
  PROVE  FlattenSeq(a) = <<>>
<1> DEFINE T == {n \in Nat : \A c \in Seq(Seq(S)) :
                    Len(c) = n /\ (\A i \in 1..n : c[i] = <<>>) => FlattenSeq(c) = <<>>}
<1>1. 0 \in T
  BY FlattenEmpty
<1>2. ASSUME NEW n \in Nat, n \in T PROVE n + 1 \in T
  <2>1. SUFFICES ASSUME NEW c \in Seq(Seq(S)), Len(c) = n + 1,
                        \A i \in 1..(n + 1) : c[i] = <<>>
                 PROVE  FlattenSeq(c) = <<>>
    OBVIOUS
  <2>2. c # <<>>
    BY <2>1
  <2>3. PICK d \in Seq(Seq(S)), e \in Seq(S) : c = Append(d, e)
    BY <2>2, SequenceEmptyOrAppend
  <2>4. Len(d) = n /\ (\A i \in 1..n : d[i] = c[i]) /\ e = c[n + 1]
    BY <2>1, <2>3, AppendProperties
  <2>5. FlattenSeq(d) = <<>> /\ e = <<>>
    BY <1>2, <2>1, <2>4
  <2>6. FlattenSeq(c) = <<>> \o <<>>
    BY <2>3, <2>5, FlattenAppend
  <2>7. QED
    BY <2>6
<1> HIDE DEF T
<1>3. Nat \subseteq T
  BY <1>1, <1>2, Inductive
<1>4. Len(a) \in T
  BY <1>3, LenProperties
<1>5. QED
  BY <1>4 DEF T

(* What lies in one of the sequences lies in the whole.                    *)
LEMMA FlattenMember ==
  ASSUME NEW S, NEW a \in Seq(Seq(S)), NEW i \in 1..Len(a)
  PROVE  Range(a[i]) \subseteq Range(FlattenSeq(a))
<1> DEFINE T == {n \in Nat : \A c \in Seq(Seq(S)) : Len(c) = n =>
                   \A k \in 1..n : Range(c[k]) \subseteq Range(FlattenSeq(c))}
<1>1. 0 \in T
  OBVIOUS
<1>2. ASSUME NEW n \in Nat, n \in T PROVE n + 1 \in T
  <2>1. SUFFICES ASSUME NEW c \in Seq(Seq(S)), Len(c) = n + 1, NEW k \in 1..(n + 1)
                 PROVE  Range(c[k]) \subseteq Range(FlattenSeq(c))
    OBVIOUS
  <2>2. c # <<>>
    BY <2>1
  <2>3. PICK d \in Seq(Seq(S)), e \in Seq(S) : c = Append(d, e)
    BY <2>2, SequenceEmptyOrAppend
  <2>4. Len(d) = n /\ (\A j \in 1..n : d[j] = c[j]) /\ e = c[n + 1]
    BY <2>1, <2>3, AppendProperties
  <2>5. FlattenSeq(c) = FlattenSeq(d) \o e
    BY <2>3, FlattenAppend
  <2>6. FlattenSeq(d) \in Seq(S)
    BY FlattenType
  <2>7. Range(FlattenSeq(c)) = Range(FlattenSeq(d)) \union Range(e)
    BY <2>5, <2>6, RangeConcatenation
  <2>8. CASE k \in 1..n
    <3>1. Range(d[k]) \subseteq Range(FlattenSeq(d))
      BY <1>2, <2>4, <2>8
    <3>2. QED
      BY <2>4, <2>7, <2>8, <3>1
  <2>9. CASE k = n + 1
    BY <2>4, <2>7, <2>9
  <2>10. QED
    BY <2>8, <2>9
<1> HIDE DEF T
<1>3. Nat \subseteq T
  BY <1>1, <1>2, Inductive
<1>4. Len(a) \in T
  BY <1>3, LenProperties
<1>5. QED
  BY <1>4 DEF T

(* A concatenation, by its length and its elements                         *)
LEMMA Joined ==
  ASSUME NEW S, NEW a \in Seq(S), NEW b \in Seq(S)
  PROVE  /\ a \o b \in Seq(S) /\ Len(a \o b) = Len(a) + Len(b)
         /\ Len(a) \in Nat /\ Len(b) \in Nat
         /\ \A i \in 1..Len(a) : (a \o b)[i] = a[i]
         /\ \A i \in 1..Len(b) : Len(a) + i \in 1..Len(a \o b) /\ (a \o b)[Len(a) + i] = b[i]
         /\ \A i \in 1..Len(a \o b) :
              i \notin 1..Len(a) => i - Len(a) \in 1..Len(b) /\ (a \o b)[i] = b[i - Len(a)]
BY ConcatProperties

LEMMA JoinIs ==
  ASSUME NEW S, NEW x \in Seq(S), NEW y \in Seq(S), NEW z \in Seq(S),
         Len(z) = Len(x) + Len(y),
         \A i \in 1..Len(x) : z[i] = x[i],
         \A i \in 1..Len(y) : z[Len(x) + i] = y[i]
  PROVE  z = x \o y
<1>1. x \o y \in Seq(S) /\ Len(x \o y) = Len(z)
  BY Joined
<1>2. ASSUME NEW i \in 1..Len(z) PROVE z[i] = (x \o y)[i]
  <2>1. CASE i \in 1..Len(x)
    BY <2>1, Joined
  <2>2. CASE i \notin 1..Len(x)
    <3>1. i - Len(x) \in 1..Len(y) /\ (x \o y)[i] = y[i - Len(x)]
      BY <1>1, <2>2, Joined
    <3>2. Len(x) + (i - Len(x)) = i
      BY Joined
    <3>3. QED
      BY <3>1, <3>2
  <2>3. QED
    BY <2>1, <2>2
<1>3. QED
  BY <1>1, <1>2, SeqEqual

----------------------------------------------------------------------------
(* Texts, originals and ends of a sequence of events                       *)
LEMMA EventParts ==
  ASSUME NEW event \in EventType
  PROVE  /\ event.kind \in {"text", "stop", "usage", "done"} /\ event.slot \in Slots
         /\ event.text \in Seq(Token) /\ event.ends \in BOOLEAN
         /\ event.from \in 0..MaxEvents
         /\ event.from = 0 => event.kind = "text" /\ ~event.ends
BY DEF EventType

Texts(events, slot) ==
  [i \in 1..Len(events) |-> IF events[i].slot = slot THEN events[i].text ELSE <<>>]

LEMMA TextsType ==
  ASSUME NEW events \in Seq(EventType), NEW slot
  PROVE  Texts(events, slot) \in Seq(Seq(Token)) /\ Len(Texts(events, slot)) = Len(events)
<1>1. \A i \in 1..Len(events) : events[i].text \in Seq(Token)
  BY EventParts
<1>2. <<>> \in Seq(Token)
  BY EmptySeq
<1>3. QED
  BY <1>1, <1>2 DEF Texts

LEMMA TextsJoin ==
  ASSUME NEW a \in Seq(EventType), NEW b \in Seq(EventType), NEW slot
  PROVE  Texts(a \o b, slot) = Texts(a, slot) \o Texts(b, slot)
<1> DEFINE c == a \o b
<1>1. /\ c \in Seq(EventType) /\ Len(c) = Len(a) + Len(b)
      /\ Len(a) \in Nat /\ Len(b) \in Nat
      /\ \A i \in 1..Len(a) : c[i] = a[i]
      /\ \A i \in 1..Len(b) : Len(a) + i \in 1..Len(c) /\ c[Len(a) + i] = b[i]
  BY Joined
<1> HIDE DEF c
<1>2. /\ Texts(c, slot) \in Seq(Seq(Token)) /\ Len(Texts(c, slot)) = Len(c)
      /\ Texts(a, slot) \in Seq(Seq(Token)) /\ Len(Texts(a, slot)) = Len(a)
      /\ Texts(b, slot) \in Seq(Seq(Token)) /\ Len(Texts(b, slot)) = Len(b)
  BY <1>1, TextsType
<1>3. ASSUME NEW i \in 1..Len(a) PROVE Texts(c, slot)[i] = Texts(a, slot)[i]
  BY <1>1 DEF Texts
<1>4. ASSUME NEW i \in 1..Len(b) PROVE Texts(c, slot)[Len(a) + i] = Texts(b, slot)[i]
  BY <1>1 DEF Texts
<1> DEFINE x == Texts(a, slot)
           y == Texts(b, slot)
           z == Texts(c, slot)
<1>5. /\ Len(z) = Len(x) + Len(y)
      /\ \A i \in 1..Len(x) : z[i] = x[i]
      /\ \A i \in 1..Len(y) : z[Len(x) + i] = y[i]
  BY <1>1, <1>2, <1>3, <1>4
<1> HIDE DEF x, y, z
<1>6. z = x \o y
  BY <1>2, <1>5, JoinIs, Zenon DEF x, y, z
<1>7. QED
  BY <1>6 DEF c, x, y, z

LEMMA TextOfType ==
  ASSUME NEW events \in Seq(EventType), NEW slot
  PROVE  TextOf(events, slot) \in Seq(Token)
<1>1. TextOf(events, slot) = FlattenSeq(Texts(events, slot))
  BY DEF TextOf, Texts
<1>2. QED
  BY <1>1, TextsType, FlattenType

(* The text of a slot in one stretch of a stream after another             *)
LEMMA TextOfJoin ==
  ASSUME NEW a \in Seq(EventType), NEW b \in Seq(EventType), NEW slot
  PROVE  TextOf(a \o b, slot) = TextOf(a, slot) \o TextOf(b, slot)
<1>1. /\ TextOf(a, slot) = FlattenSeq(Texts(a, slot))
      /\ TextOf(b, slot) = FlattenSeq(Texts(b, slot))
      /\ TextOf(a \o b, slot) = FlattenSeq(Texts(a \o b, slot))
  BY DEF TextOf, Texts
<1>2. FlattenSeq(Texts(a, slot) \o Texts(b, slot)) =
        FlattenSeq(Texts(a, slot)) \o FlattenSeq(Texts(b, slot))
  BY TextsType, FlattenJoin
<1>3. QED
  BY <1>1, <1>2, TextsJoin

LEMMA TextOfOne ==
  ASSUME NEW event \in EventType, NEW slot
  PROVE  TextOf(<<event>>, slot) = IF event.slot = slot THEN event.text ELSE <<>>
<1> DEFINE t == IF event.slot = slot THEN event.text ELSE <<>>
<1>1. t \in Seq(Token)
  BY EventParts, EmptySeq
<1>2. Texts(<<event>>, slot) = <<t>>
  BY DEF Texts
<1>3. TextOf(<<event>>, slot) = FlattenSeq(<<t>>)
  BY <1>2 DEF TextOf, Texts
<1> HIDE DEF t
<1>4. TextOf(<<event>>, slot) = t
  BY <1>1, <1>3, FlattenOne
<1>5. QED
  BY <1>4 DEF t

LEMMA TextOfEmpty ==
  ASSUME NEW slot
  PROVE  TextOf(<<>>, slot) = <<>>
<1>1. Texts(<<>>, slot) = <<>>
  BY DEF Texts
<1>2. QED
  BY <1>1, FlattenEmpty DEF TextOf, Texts

Originally(events) ==
  [i \in 1..Len(events) |-> IF events[i].from = 0 THEN <<>> ELSE <<events[i]>>]

LEMMA OriginallyType ==
  ASSUME NEW events \in Seq(EventType)
  PROVE  Originally(events) \in Seq(Seq(EventType)) /\ Len(Originally(events)) = Len(events)
<1>1. \A i \in 1..Len(events) : <<events[i]>> \in Seq(EventType)
  OBVIOUS
<1>2. <<>> \in Seq(EventType)
  BY EmptySeq
<1>3. QED
  BY <1>1, <1>2 DEF Originally

LEMMA OriginallyJoin ==
  ASSUME NEW a \in Seq(EventType), NEW b \in Seq(EventType)
  PROVE  Originally(a \o b) = Originally(a) \o Originally(b)
<1> DEFINE c == a \o b
<1>1. /\ c \in Seq(EventType) /\ Len(c) = Len(a) + Len(b)
      /\ Len(a) \in Nat /\ Len(b) \in Nat
      /\ \A i \in 1..Len(a) : c[i] = a[i]
      /\ \A i \in 1..Len(b) : Len(a) + i \in 1..Len(c) /\ c[Len(a) + i] = b[i]
  BY Joined
<1> HIDE DEF c
<1>2. /\ Originally(c) \in Seq(Seq(EventType)) /\ Len(Originally(c)) = Len(c)
      /\ Originally(a) \in Seq(Seq(EventType)) /\ Len(Originally(a)) = Len(a)
      /\ Originally(b) \in Seq(Seq(EventType)) /\ Len(Originally(b)) = Len(b)
  BY <1>1, OriginallyType
<1>3. ASSUME NEW i \in 1..Len(a) PROVE Originally(c)[i] = Originally(a)[i]
  BY <1>1 DEF Originally
<1>4. ASSUME NEW i \in 1..Len(b) PROVE Originally(c)[Len(a) + i] = Originally(b)[i]
  BY <1>1 DEF Originally
<1> DEFINE x == Originally(a)
           y == Originally(b)
           z == Originally(c)
<1>5. /\ Len(z) = Len(x) + Len(y)
      /\ \A i \in 1..Len(x) : z[i] = x[i]
      /\ \A i \in 1..Len(y) : z[Len(x) + i] = y[i]
  BY <1>1, <1>2, <1>3, <1>4
<1> HIDE DEF x, y, z
<1>6. z = x \o y
  BY <1>2, <1>5, JoinIs, Zenon DEF x, y, z
<1>7. QED
  BY <1>6 DEF c, x, y, z

LEMMA OriginalType ==
  ASSUME NEW events \in Seq(EventType)
  PROVE  Original(events) \in Seq(EventType)
<1>1. Original(events) = FlattenSeq(Originally(events))
  BY DEF Original, Originally
<1>2. QED
  BY <1>1, OriginallyType, FlattenType

(* ... and the upstream's events there                                     *)
LEMMA OriginalJoin ==
  ASSUME NEW a \in Seq(EventType), NEW b \in Seq(EventType)
  PROVE  Original(a \o b) = Original(a) \o Original(b)
<1>1. /\ Original(a) = FlattenSeq(Originally(a))
      /\ Original(b) = FlattenSeq(Originally(b))
      /\ Original(a \o b) = FlattenSeq(Originally(a \o b))
  BY DEF Original, Originally
<1>2. FlattenSeq(Originally(a) \o Originally(b)) =
        FlattenSeq(Originally(a)) \o FlattenSeq(Originally(b))
  BY OriginallyType, FlattenJoin
<1>3. QED
  BY <1>1, <1>2, OriginallyJoin

LEMMA OriginalOne ==
  ASSUME NEW event \in EventType
  PROVE  Original(<<event>>) = IF event.from = 0 THEN <<>> ELSE <<event>>
<1> DEFINE t == IF event.from = 0 THEN <<>> ELSE <<event>>
<1>1. t \in Seq(EventType)
  BY EmptySeq
<1>2. Originally(<<event>>) = <<t>>
  BY DEF Originally
<1>3. Original(<<event>>) = FlattenSeq(<<t>>)
  BY <1>2 DEF Original, Originally
<1> HIDE DEF t
<1>4. Original(<<event>>) = t
  BY <1>1, <1>3, FlattenOne
<1>5. QED
  BY <1>4 DEF t

LEMMA OriginalEmpty == Original(<<>>) = <<>>
<1>1. Originally(<<>>) = <<>>
  BY DEF Originally
<1>2. QED
  BY <1>1, FlattenEmpty DEF Original, Originally

LEMMA OriginalNone ==
  ASSUME NEW events \in Seq(EventType), \A i \in 1..Len(events) : events[i].from = 0
  PROVE  Original(events) = <<>>
<1>1. \A i \in 1..Len(events) : Originally(events)[i] = <<>>
  BY DEF Originally
<1>2. FlattenSeq(Originally(events)) = <<>>
  BY <1>1, OriginallyType, FlattenNothing
<1>3. QED
  BY <1>2 DEF Original, Originally

LEMMA EndedJoin ==
  ASSUME NEW a \in Seq(EventType), NEW b \in Seq(EventType), NEW slot
  PROVE  Ended(a \o b, slot) <=> Ended(a, slot) \/ Ended(b, slot)
<1> DEFINE c == a \o b
<1>1. /\ Len(c) = Len(a) + Len(b) /\ Len(a) \in Nat /\ Len(b) \in Nat
      /\ \A i \in 1..Len(a) : c[i] = a[i]
      /\ \A i \in 1..Len(b) : c[Len(a) + i] = b[i]
  BY ConcatProperties
<1> HIDE DEF c
<1>2. ASSUME Ended(c, slot) PROVE Ended(a, slot) \/ Ended(b, slot)
  <2>1. PICK i \in 1..Len(c) : Closes(c[i], slot)
    BY <1>2 DEF Ended, Closes
  <2>2. CASE i \in 1..Len(a)
    BY <1>1, <2>1, <2>2 DEF Ended, Closes
  <2>3. CASE i \notin 1..Len(a)
    <3>1. i - Len(a) \in 1..Len(b) /\ Len(a) + (i - Len(a)) = i
      BY <1>1, <2>3
    <3>2. Closes(b[i - Len(a)], slot)
      BY <1>1, <2>1, <3>1
    <3>3. QED
      BY <3>1, <3>2 DEF Ended, Closes
  <2>4. QED
    BY <2>2, <2>3
<1>3. ASSUME Ended(a, slot) PROVE Ended(c, slot)
  BY <1>1, <1>3 DEF Ended
<1>4. ASSUME Ended(b, slot) PROVE Ended(c, slot)
  <2>1. PICK i \in 1..Len(b) : Closes(b[i], slot)
    BY <1>4 DEF Ended, Closes
  <2>2. Len(a) + i \in 1..Len(c) /\ Closes(c[Len(a) + i], slot)
    BY <1>1, <2>1
  <2>3. QED
    BY <2>2 DEF Ended, Closes
<1>5. QED
  BY <1>2, <1>3, <1>4 DEF c

LEMMA EndedOne ==
  ASSUME NEW event, NEW slot
  PROVE  Ended(<<event>>, slot) <=> Closes(event, slot)
BY DEF Ended, Closes

LEMMA EndedEmpty ==
  ASSUME NEW slot
  PROVE  ~Ended(<<>>, slot)
BY DEF Ended

LEMMA EndedIs ==
  ASSUME NEW events, NEW slot
  PROVE  Ended(events, slot) <=> \E i \in 1..Len(events) : Closes(events[i], slot)
BY DEF Ended, Closes

LEMMA KindsJoin ==
  ASSUME NEW a \in Seq(EventType), NEW b \in Seq(EventType)
  PROVE  KindsOf(a \o b) = KindsOf(a) \union KindsOf(b)
<1> DEFINE c == a \o b
<1>1. /\ Len(c) = Len(a) + Len(b) /\ Len(a) \in Nat /\ Len(b) \in Nat
      /\ \A i \in 1..Len(a) : c[i] = a[i]
      /\ \A i \in 1..Len(b) : Len(a) + i \in 1..Len(c) /\ c[Len(a) + i] = b[i]
      /\ \A i \in 1..Len(c) :
           i \notin 1..Len(a) => i - Len(a) \in 1..Len(b) /\ c[i] = b[i - Len(a)]
  BY Joined
<1> HIDE DEF c
<1>2. ASSUME NEW k \in KindsOf(c) PROVE k \in KindsOf(a) \union KindsOf(b)
  <2>1. PICK i \in 1..Len(c) : k = c[i].kind
    BY DEF KindsOf
  <2>2. CASE i \in 1..Len(a)
    BY <1>1, <2>1, <2>2 DEF KindsOf
  <2>3. CASE i \notin 1..Len(a)
    BY <1>1, <2>1, <2>3 DEF KindsOf
  <2>4. QED
    BY <2>2, <2>3
<1>3. ASSUME NEW k \in KindsOf(a) PROVE k \in KindsOf(c)
  BY <1>1 DEF KindsOf
<1>4. ASSUME NEW k \in KindsOf(b) PROVE k \in KindsOf(c)
  <2>1. PICK i \in 1..Len(b) : k = b[i].kind
    BY DEF KindsOf
  <2>2. Len(a) + i \in 1..Len(c) /\ c[Len(a) + i].kind = k
    BY <1>1, <2>1
  <2>3. QED
    BY <2>2 DEF KindsOf
<1>5. QED
  BY <1>2, <1>3, <1>4 DEF c

LEMMA KindsOne ==
  ASSUME NEW event
  PROVE  KindsOf(<<event>>) = {event.kind}
BY DEF KindsOf

(* A proper subset of a finite set has fewer elements.                     *)
LEMMA FewerElements ==
  ASSUME NEW S, IsFiniteSet(S), NEW T, T \subseteq S, NEW d \in S, d \notin T
  PROVE  Cardinality(T) # Cardinality(S)
<1>1. T \in SUBSET S
  OBVIOUS
<1>2. Cardinality(S) = Cardinality(T) => S = T
  BY <1>1, FS_Subset, Zenon
<1>3. QED
  BY <1>2

(* The blocks in order: each of them is the i-th for one i.                *)
LEMMA NthIs ==
  ASSUME NEW blocks, blocks \subseteq Nat, IsFiniteSet(blocks)
  PROVE  /\ Cardinality(blocks) \in Nat
         /\ \A i \in 1..Cardinality(blocks) : Nth(blocks, i) \in blocks
         /\ \A i, j \in 1..Cardinality(blocks) : Nth(blocks, i) = Nth(blocks, j) => i = j
         /\ \A b \in blocks : \E i \in 1..Cardinality(blocks) : Nth(blocks, i) = b
<1> DEFINE n == Cardinality(blocks)
           upto(b) == {c \in blocks : c <= b}
           rank == [b \in blocks |-> Cardinality(upto(b))]
<1>1. n \in Nat
  BY FS_CardinalityType
<1>2. ASSUME NEW b \in blocks
      PROVE  IsFiniteSet(upto(b)) /\ Cardinality(upto(b)) \in 1..n
  <2>1. upto(b) \in SUBSET blocks /\ b \in upto(b)
    OBVIOUS
  <2>2. IsFiniteSet(upto(b)) /\ Cardinality(upto(b)) <= n
    BY <2>1, FS_Subset
  <2>3. Cardinality(upto(b)) # 0 /\ Cardinality(upto(b)) \in Nat
    BY <2>1, <2>2, FS_EmptySet, FS_CardinalityType
  <2>4. QED
    BY <1>1, <2>2, <2>3
<1>3. ASSUME NEW b \in blocks, NEW d \in blocks, b < d
      PROVE  Cardinality(upto(b)) # Cardinality(upto(d))
  <2>1. upto(b) \subseteq upto(d) /\ d \in upto(d) /\ d \notin upto(b)
    <3>1. b \in Int /\ d \in Int /\ \A c \in blocks : c \in Int
      OBVIOUS
    <3>2. \A c \in blocks : c <= b => c <= d
      BY <1>3, <3>1
    <3>3. d <= d /\ ~(d <= b)
      BY <1>3, <3>1
    <3>4. QED
      BY <3>2, <3>3
  <2>2. IsFiniteSet(upto(d))
    BY <1>2
  <2> HIDE DEF upto
  <2>3. QED
    BY <2>1, <2>2, FewerElements, Zenon
<1>4. \A b \in blocks : rank[b] \in 1..n /\ rank[b] = Cardinality(upto(b))
  BY <1>2
<1>5. \A b, d \in blocks : rank[b] = rank[d] => b = d
  BY <1>3, <1>4
<1>6. rank \in [blocks -> 1..n]
  BY <1>2
<1> HIDE DEF rank, upto
<1>7. rank \in Injection(blocks, 1..n)
  BY <1>5, <1>6 DEF Injection, IsInjective
<1>8. IsFiniteSet(1..n) /\ Cardinality(1..n) = n
  BY <1>1, FS_Interval
<1>9. rank \in Surjection(blocks, 1..n)
  BY <1>7, <1>8, FS_Injection
<1>10. \A i \in 1..n : \E b \in blocks : rank[b] = i
  BY <1>9 DEF Surjection
<1>11. ASSUME NEW i \in 1..n PROVE Nth(blocks, i) \in blocks /\ rank[Nth(blocks, i)] = i
  <2>1. \E b \in blocks : Cardinality(upto(b)) = i
    BY <1>4, <1>10
  <2>2. Nth(blocks, i) \in blocks /\ Cardinality(upto(Nth(blocks, i))) = i
    BY <2>1 DEF Nth, upto
  <2>3. QED
    BY <1>4, <2>2
<1>12. ASSUME NEW b \in blocks PROVE \E i \in 1..n : Nth(blocks, i) = b
  <2>1. rank[b] \in 1..n
    BY <1>4
  <2>2. rank[Nth(blocks, rank[b])] = rank[b] /\ Nth(blocks, rank[b]) \in blocks
    BY <1>11, <2>1
  <2>3. QED
    BY <1>5, <2>1, <2>2
<1>13. QED
  BY <1>1, <1>11, <1>12

LEMMA BlocksFinite ==
  ASSUME NEW blocks, blocks \subseteq Slots
  PROVE  blocks \subseteq Nat /\ IsFiniteSet(blocks)
BY SseAssumption, FS_Subset

LEMMA AllBlocksAre == AllBlocks \subseteq Slots /\ 0 \in AllBlocks
BY SseAssumption DEF AllBlocks

(* The text of a slot, when one of the pieces has it                       *)
LEMMA FlattenText ==
  ASSUME NEW pieces \in Seq(Seq(EventType)), NEW slot, NEW k \in Nat,
         \A i \in 1..Len(pieces) : i # k => TextOf(pieces[i], slot) = <<>>
  PROVE  TextOf(FlattenSeq(pieces), slot) =
           IF k \in 1..Len(pieces) THEN TextOf(pieces[k], slot) ELSE <<>>
<1> DEFINE T == {n \in Nat : \A c \in Seq(Seq(EventType)) :
                   /\ Len(c) = n
                   /\ \A i \in 1..n : i # k => TextOf(c[i], slot) = <<>>
                   => TextOf(FlattenSeq(c), slot) =
                        IF k \in 1..n THEN TextOf(c[k], slot) ELSE <<>>}
<1>1. 0 \in T
  <2>1. ASSUME NEW c \in Seq(Seq(EventType)), Len(c) = 0
        PROVE  TextOf(FlattenSeq(c), slot) = <<>>
    BY <2>1, FlattenEmpty, TextOfEmpty
  <2>2. QED
    BY <2>1
<1>2. ASSUME NEW n \in Nat, n \in T PROVE n + 1 \in T
  <2>1. SUFFICES ASSUME NEW c \in Seq(Seq(EventType)), Len(c) = n + 1,
                        \A i \in 1..(n + 1) : i # k => TextOf(c[i], slot) = <<>>
                 PROVE  TextOf(FlattenSeq(c), slot) =
                          IF k \in 1..(n + 1) THEN TextOf(c[k], slot) ELSE <<>>
    OBVIOUS
  <2>2. c # <<>>
    BY <2>1
  <2>3. PICK d \in Seq(Seq(EventType)), e \in Seq(EventType) : c = Append(d, e)
    BY <2>2, SequenceEmptyOrAppend
  <2>4. Len(d) = n /\ (\A j \in 1..n : d[j] = c[j]) /\ e = c[n + 1]
    BY <2>1, <2>3, AppendProperties
  <2>5. FlattenSeq(c) = FlattenSeq(d) \o e
    BY <2>3, FlattenAppend
  <2>6. FlattenSeq(d) \in Seq(EventType)
    BY FlattenType
  <2>7. TextOf(FlattenSeq(c), slot) = TextOf(FlattenSeq(d), slot) \o TextOf(e, slot)
    BY <2>5, <2>6, TextOfJoin
  <2>8. \A i \in 1..n : i # k => TextOf(d[i], slot) = <<>>
    BY <2>1, <2>4
  <2>9. TextOf(FlattenSeq(d), slot) =
          IF k \in 1..n THEN TextOf(d[k], slot) ELSE <<>>
    BY <1>2, <2>4, <2>8
  <2>10. TextOf(e, slot) \in Seq(Token) /\ TextOf(FlattenSeq(d), slot) \in Seq(Token)
    BY <2>6, TextOfType
  <2>11. CASE k = n + 1
    <3>1. TextOf(FlattenSeq(d), slot) = <<>>
      BY <2>9, <2>11
    <3>2. <<>> \o TextOf(e, slot) = TextOf(e, slot)
      BY <2>10, ConcatEmptySeq
    <3>3. QED
      BY <2>4, <2>7, <2>11, <3>1, <3>2
  <2>12. CASE k # n + 1
    <3>1. TextOf(e, slot) = <<>>
      BY <2>1, <2>4, <2>12
    <3>2. TextOf(FlattenSeq(c), slot) = TextOf(FlattenSeq(d), slot)
      BY <2>7, <2>10, <3>1, ConcatEmptySeq
    <3>3. k \in 1..(n + 1) <=> k \in 1..n
      BY <2>12
    <3>4. k \in 1..n => d[k] = c[k]
      BY <2>4
    <3>5. QED
      BY <2>9, <3>2, <3>3, <3>4
  <2>13. QED
    BY <2>11, <2>12
<1> HIDE DEF T
<1>3. Nat \subseteq T
  BY <1>1, <1>2, Inductive
<1>4. Len(pieces) \in T
  BY <1>3, LenProperties
<1>5. QED
  BY <1>4 DEF T

----------------------------------------------------------------------------
(* What a flush gives                                                      *)
LEMMA BlockParts ==
  ASSUME Formed, NEW b \in Slots
  PROVE  /\ block[b].given \in Seq(Token) /\ block[b].shown \in 0..Len(block[b].given)
         /\ block[b].flushed \in BOOLEAN
         /\ Held(b) \in Seq(Token) /\ Shown(b) \in Seq(Token)
         /\ ~block[b].flushed => Shown(b) \o Held(b) = block[b].given
         /\ block[b].shown = Len(block[b].given) => Held(b) = <<>>
         /\ block[b].flushed => Held(b) = <<>>
<1>1. /\ block[b].given \in Seq(Token) /\ block[b].shown \in 0..Len(block[b].given)
      /\ block[b].flushed \in BOOLEAN
  BY DEF Formed, BlockType
<1> DEFINE g == block[b].given
           n == block[b].shown
<1> HIDE DEF g, n
<1>2. g \in Seq(Token) /\ n \in 0..Len(g)
  BY <1>1 DEF g, n
<1>3. SubSeq(g, 1, n) \in Seq(Token) /\ SubSeq(g, n + 1, Len(g)) \in Seq(Token)
  BY <1>2
<1>4. SubSeq(g, 1, n) \o SubSeq(g, n + 1, Len(g)) = g
  <2>1. SubSeq(g, 1, n) \o SubSeq(g, n + 1, Len(g)) = SubSeq(g, 1, Len(g))
    <3>1. Len(g) \in Nat
      BY <1>2
    <3>2. 1 \in 1..(Len(g) + 1) /\ n \in (1 - 1)..Len(g) /\ Len(g) \in n..Len(g)
      BY <1>2, <3>1
    <3>3. QED
      BY <1>2, <3>2, ConcatAdjacentSubSeq, Zenon
  <2>2. QED
    BY <1>2, <2>1, SubSeqFull
<1>5. n = Len(g) => SubSeq(g, n + 1, Len(g)) = <<>>
  BY <1>2
<1>6. Shown(b) = SubSeq(g, 1, n) /\ Held(b) = IF block[b].flushed THEN <<>> ELSE SubSeq(g, n + 1, Len(g))
  BY DEF Shown, Held, g, n
<1>7. <<>> \in Seq(Token)
  BY EmptySeq
<1>8. QED
  BY <1>1, <1>3, <1>4, <1>5, <1>6, <1>7 DEF g, n

TailEvent(b) == Event("text", b, Held(b), FALSE, 0)

HeldTails(blocks) == {TailEvent(b) : b \in {c \in blocks : Held(c) # <<>>}}

Tails(blocks) == [i \in 1..Cardinality(blocks) |-> TailOf(Nth(blocks, i))]

LEMMA TailEventType ==
  ASSUME Formed, NEW b \in Slots
  PROVE  /\ TailEvent(b) \in EventType
         /\ TailEvent(b).kind = "text" /\ ~TailEvent(b).ends /\ TailEvent(b).from = 0
         /\ TailEvent(b).slot = b /\ TailEvent(b).text = Held(b)
<1>1. Held(b) \in Seq(Token)
  BY BlockParts
<1>2. 0 \in 0..MaxEvents
  BY SseAssumption
<1>3. QED
  BY <1>1, <1>2 DEF TailEvent, Event, EventType

LEMMA TailsAre ==
  ASSUME Formed, NEW blocks, blocks \subseteq Slots
  PROVE  /\ HeldTails(blocks) \subseteq EventType
         /\ Tails(blocks) \in Seq(Seq(HeldTails(blocks)))
         /\ Tails(blocks) \in Seq(Seq(EventType))
         /\ TailEvents(blocks) \in Seq(HeldTails(blocks))
         /\ TailEvents(blocks) \in Seq(EventType)
<1>1. HeldTails(blocks) \subseteq EventType
  BY TailEventType DEF HeldTails
<1>2. /\ Cardinality(blocks) \in Nat
      /\ \A i \in 1..Cardinality(blocks) : Nth(blocks, i) \in blocks
  BY BlocksFinite, NthIs
<1>3. \A b \in blocks : TailOf(b) \in Seq(HeldTails(blocks))
  <2>1. TAKE b \in blocks
  <2>2. CASE Held(b) = <<>>
    BY <2>2, EmptySeq DEF TailOf
  <2>3. CASE Held(b) # <<>>
    <3>1. TailEvent(b) \in HeldTails(blocks)
      BY <2>3 DEF HeldTails
    <3>2. TailOf(b) = <<TailEvent(b)>>
      BY <2>3 DEF TailOf, TailEvent
    <3>3. QED
      BY <3>1, <3>2
  <2>4. QED
    BY <2>2, <2>3
<1>4. Tails(blocks) \in Seq(Seq(HeldTails(blocks)))
  BY <1>2, <1>3 DEF Tails
<1>5. TailEvents(blocks) \in Seq(HeldTails(blocks))
  <2>1. TailEvents(blocks) = FlattenSeq(Tails(blocks))
    BY DEF TailEvents, Tails
  <2>2. QED
    BY <1>4, <2>1, FlattenType
<1>6. Seq(HeldTails(blocks)) \subseteq Seq(EventType)
  BY <1>1, SeqMonotonic
<1>7. Tails(blocks) \in Seq(Seq(EventType))
  BY <1>4, <1>6, SeqMonotonic
<1>8. QED
  BY <1>1, <1>4, <1>5, <1>6, <1>7

(* The tails of some blocks give each of them what it held back.           *)
LEMMA TailEventsText ==
  ASSUME Formed, NEW blocks, blocks \subseteq Slots, NEW b \in Slots
  PROVE  TextOf(TailEvents(blocks), b) = IF b \in blocks THEN Held(b) ELSE <<>>
<1> DEFINE n == Cardinality(blocks)
<1>1. /\ n \in Nat
      /\ \A i \in 1..n : Nth(blocks, i) \in blocks
      /\ \A i, j \in 1..n : Nth(blocks, i) = Nth(blocks, j) => i = j
      /\ \A c \in blocks : \E i \in 1..n : Nth(blocks, i) = c
  BY BlocksFinite, NthIs
<1>2. \A c \in blocks : TextOf(TailOf(c), b) = IF c = b THEN Held(b) ELSE <<>>
  <2>1. TAKE c \in blocks
  <2>2. CASE Held(c) = <<>>
    BY <2>2, TextOfEmpty DEF TailOf
  <2>3. CASE Held(c) # <<>>
    <3>1. TailOf(c) = <<TailEvent(c)>>
      BY <2>3 DEF TailOf, TailEvent
    <3>2. TextOf(<<TailEvent(c)>>, b) = IF TailEvent(c).slot = b THEN TailEvent(c).text ELSE <<>>
      BY TailEventType, TextOfOne
    <3>3. QED
      BY <3>1, <3>2, TailEventType
  <2>4. QED
    BY <2>2, <2>3
<1>3. Tails(blocks) \in Seq(Seq(EventType))
  BY TailsAre
<1>4. Len(Tails(blocks)) = n /\ \A i \in 1..n : Tails(blocks)[i] = TailOf(Nth(blocks, i))
  BY <1>1 DEF Tails
<1>5. TailEvents(blocks) = FlattenSeq(Tails(blocks))
  BY DEF TailEvents, Tails
<1> HIDE DEF n
<1>6. CASE b \in blocks
  <2>1. PICK k \in 1..n : Nth(blocks, k) = b
    BY <1>1, <1>6
  <2>2. \A i \in 1..n : i # k => Nth(blocks, i) # b
    BY <1>1, <2>1
  <2>3. \A i \in 1..n : i # k => TextOf(Tails(blocks)[i], b) = <<>>
    BY <1>1, <1>2, <1>4, <2>2
  <2>4. TextOf(Tails(blocks)[k], b) = Held(b)
    BY <1>2, <1>4, <1>6, <2>1
  <2>5. k \in Nat /\ k \in 1..Len(Tails(blocks))
    BY <1>4, <2>1
  <2>6. TextOf(FlattenSeq(Tails(blocks)), b) = TextOf(Tails(blocks)[k], b)
    BY <1>3, <1>4, <2>3, <2>5, FlattenText
  <2>7. QED
    BY <1>5, <1>6, <2>4, <2>6
<1>7. CASE b \notin blocks
  <2>1. \A i \in 1..Len(Tails(blocks)) : i # 0 => TextOf(Tails(blocks)[i], b) = <<>>
    BY <1>1, <1>2, <1>4, <1>7
  <2>2. 0 \in Nat /\ 0 \notin 1..Len(Tails(blocks))
    BY <1>1, <1>4
  <2>3. TextOf(FlattenSeq(Tails(blocks)), b) = <<>>
    BY <1>3, <2>1, <2>2, FlattenText
  <2>4. QED
    BY <1>5, <1>7, <2>3
<1>8. QED
  BY <1>6, <1>7

(* Tails end nothing and are nobody's originals.                           *)
LEMMA TailsPlain ==
  ASSUME Formed, NEW blocks, blocks \subseteq Slots, NEW tails \in Seq(HeldTails(blocks))
  PROVE  /\ tails \in Seq(EventType)
         /\ Original(tails) = <<>>
         /\ \A slot : ~Ended(tails, slot)
<1>1. tails \in Seq(EventType)
  BY TailsAre, SeqMonotonic
<1>2. \A tail \in HeldTails(blocks) :
        tail.kind = "text" /\ ~tail.ends /\ tail.from = 0
  BY TailEventType DEF HeldTails
<1>3. \A i \in 1..Len(tails) : tails[i] \in HeldTails(blocks)
  OBVIOUS
<1>4. Original(tails) = <<>>
  BY <1>1, <1>2, <1>3, OriginalNone
<1>5. \A slot : ~Ended(tails, slot)
  BY <1>2, <1>3 DEF Ended
<1>6. QED
  BY <1>1, <1>4, <1>5

(* When the first of the tails is lost, each slot has its tail or nothing. *)
LEMMA CutTails ==
  ASSUME Formed, NEW blocks, blocks \subseteq Slots, NEW b \in Slots
  PROVE  LET cut == SubSeq(TailEvents(blocks), 2, Len(TailEvents(blocks)))
         IN  /\ cut \in Seq(HeldTails(blocks))
             /\ \/ TextOf(cut, b) = <<>>
                \/ b \in blocks /\ TextOf(cut, b) = Held(b)
<1> DEFINE tails == TailEvents(blocks)
           cut == SubSeq(tails, 2, Len(tails))
<1>1. tails \in Seq(HeldTails(blocks)) /\ tails \in Seq(EventType)
  BY TailsAre
<1>2. TextOf(tails, b) = IF b \in blocks THEN Held(b) ELSE <<>>
  BY TailEventsText
<1> HIDE DEF tails
<1>3. CASE tails = <<>>
  <2>1. cut = <<>>
    BY <1>3
  <2>2. QED
    BY <2>1, TextOfEmpty, EmptySeq DEF tails
<1>4. CASE tails # <<>>
  <2>1. 1 \in 1..Len(tails) /\ Len(tails) \in 1..Len(tails)
    BY <1>1, <1>4, EmptySeq
  <2>2. SubSeq(tails, 1, Len(tails)) = <<tails[1]>> \o SubSeq(tails, 1 + 1, Len(tails))
    BY <1>1, <2>1, SubSeqRecursiveFirst
  <2>3. tails = <<tails[1]>> \o cut
    BY <1>1, <2>2, SubSeqFull
  <2>4. cut \in Seq(HeldTails(blocks)) /\ cut \in Seq(EventType)
    BY <1>1
  <2>5. tails[1] \in HeldTails(blocks) /\ tails[1] \in EventType
    BY <1>1, <2>1
  <2> HIDE DEF cut
  <2>6. TextOf(tails, b) = TextOf(<<tails[1]>>, b) \o TextOf(cut, b)
    <3> DEFINE first == <<tails[1]>>
    <3>1. first \in Seq(EventType)
      BY <2>5
    <3> HIDE DEF first
    <3>2. TextOf(first \o cut, b) = TextOf(first, b) \o TextOf(cut, b)
      BY <2>4, <3>1, TextOfJoin, Zenon
    <3>3. first \o cut = tails
      BY <2>3 DEF first
    <3>4. QED
      BY <3>2, <3>3 DEF first
  <2>7. TextOf(cut, b) \in Seq(Token)
    BY <2>4, TextOfType
  <2>8. TextOf(<<tails[1]>>, b) = IF tails[1].slot = b THEN tails[1].text ELSE <<>>
    BY <2>5, TextOfOne
  <2>9. PICK c \in blocks : tails[1] = TailEvent(c)
    BY <2>5 DEF HeldTails
  <2>10. tails[1].slot = c /\ tails[1].text = Held(c) /\ Held(c) \in Seq(Token)
    BY <2>9, TailEventType, BlockParts
  <2>11. CASE c = b
    <3>1. Held(b) = Held(b) \o TextOf(cut, b)
      BY <1>2, <2>6, <2>8, <2>10, <2>11
    <3>2. TextOf(cut, b) = <<>>
      <4>1. Len(Held(b)) = Len(Held(b)) + Len(TextOf(cut, b)) /\ Held(b) \in Seq(Token)
        BY <2>7, <2>10, <2>11, <3>1, ConcatProperties
      <4>2. Len(TextOf(cut, b)) = 0
        BY <2>7, <4>1
      <4>3. QED
        BY <2>7, <4>2
    <3>3. QED
      BY <2>4, <3>2 DEF cut, tails
  <2>12. CASE c # b
    <3>1. TextOf(tails, b) = TextOf(cut, b)
      BY <2>6, <2>7, <2>8, <2>10, <2>12, ConcatEmptySeq
    <3>2. QED
      BY <1>2, <2>4, <3>1 DEF cut, tails
  <2>13. QED
    BY <2>11, <2>12
<1>5. QED
  BY <1>3, <1>4

OriginalJobs == {Job("original", block[b].given) : b \in Slots}

LEMMA OriginalJobsType ==
  ASSUME Formed
  PROVE  OriginalJobs \subseteq JobType /\ \A job \in OriginalJobs : job.kind = "original"
<1>1. \A b \in Slots : block[b].given \in Seq(Token)
  BY BlockParts
<1>2. \A b \in Slots : Job("original", block[b].given) \in JobType
  BY <1>1 DEF Job, JobType
<1>3. QED
  BY <1>2 DEF OriginalJobs, Job

(* A flush queues the original of every block it changes.                  *)
LEMMA FlushedOriginalsAre ==
  ASSUME Formed, NEW blocks, blocks \subseteq Slots
  PROVE  /\ FlushedOriginals(blocks) \in Seq(OriginalJobs)
         /\ \A b \in blocks :
              ~block[b].flushed /\ turn.sigils /\ block[b].given # <<>> =>
                Job("original", block[b].given) \in Range(FlushedOriginals(blocks))
<1> DEFINE n == Cardinality(blocks)
           pieces == [i \in 1..n |-> Originals(block[Nth(blocks, i)])]
<1>1. /\ n \in Nat
      /\ \A i \in 1..n : Nth(blocks, i) \in blocks
      /\ \A b \in blocks : \E i \in 1..n : Nth(blocks, i) = b
  BY BlocksFinite, NthIs
<1>2. \A b \in blocks : Originals(block[b]) \in Seq(OriginalJobs)
  <2>1. TAKE b \in blocks
  <2>2. Job("original", block[b].given) \in OriginalJobs
    BY DEF OriginalJobs
  <2>3. <<Job("original", block[b].given)>> \in Seq(OriginalJobs) /\ <<>> \in Seq(OriginalJobs)
    BY <2>2
  <2>4. QED
    BY <2>3 DEF Originals
<1>3. pieces \in Seq(Seq(OriginalJobs)) /\ Len(pieces) = n
  BY <1>1, <1>2
<1>4. FlushedOriginals(blocks) = FlattenSeq(pieces)
  BY DEF FlushedOriginals
<1>5. FlushedOriginals(blocks) \in Seq(OriginalJobs)
  BY <1>3, <1>4, FlattenType
<1>6. ASSUME NEW b \in blocks, ~block[b].flushed, turn.sigils, block[b].given # <<>>
      PROVE  Job("original", block[b].given) \in Range(FlushedOriginals(blocks))
  <2> DEFINE job == Job("original", block[b].given)
  <2>1. PICK i \in 1..n : Nth(blocks, i) = b
    BY <1>1
  <2>2. pieces[i] = <<job>>
    BY <1>6, <2>1 DEF Originals
  <2> HIDE DEF pieces, job
  <2>3. Range(pieces[i]) \subseteq Range(FlattenSeq(pieces))
    BY <1>3, FlattenMember
  <2>4. job \in Range(<<job>>)
    BY DEF Range
  <2>5. QED
    BY <1>4, <2>2, <2>3, <2>4 DEF job
<1>7. QED
  BY <1>5, <1>6

(* A flush gives nothing to a block, and shows what it held back.          *)
LEMMA FlushIs ==
  ASSUME Formed, NEW blocks, blocks \subseteq Slots, Flush(blocks)
  PROVE  /\ block' \in [Slots -> BlockType]
         /\ \A b \in Slots :
              /\ block'[b].given = block[b].given
              /\ block'[b].shown = IF b \in blocks /\ ~block[b].flushed
                                   THEN Len(block[b].given) ELSE block[b].shown
              /\ block'[b].shown <= Len(block[b].given)
              /\ block'[b].flushed <=> block[b].flushed \/ b \in blocks
              /\ SubSeq(block'[b].given, 1, block'[b].shown) =
                   Shown(b) \o (IF b \in blocks THEN Held(b) ELSE <<>>)
<1>1. block \in [Slots -> BlockType]
  BY DEF Formed
<1>2. ASSUME NEW b \in Slots
      PROVE  /\ block'[b] \in BlockType
             /\ block'[b].given = block[b].given
             /\ block'[b].shown = IF b \in blocks /\ ~block[b].flushed
                                  THEN Len(block[b].given) ELSE block[b].shown
             /\ block'[b].flushed <=> block[b].flushed \/ b \in blocks
  <2>1. block[b] \in BlockType /\ block[b].given \in Seq(Token)
    BY <1>1, BlockParts
  <2>2. block'[b] = IF b \in blocks THEN Flushed(block[b]) ELSE block[b]
    BY DEF Flush
  <2>3. Len(block[b].given) \in Nat
    BY <2>1
  <2>4. CASE b \in blocks /\ ~block[b].flushed
    BY <2>1, <2>2, <2>3, <2>4 DEF Flushed, BlockType
  <2>5. CASE ~(b \in blocks /\ ~block[b].flushed)
    BY <2>1, <2>2, <2>5 DEF Flushed, BlockType
  <2>6. QED
    BY <2>4, <2>5
<1>3. block' \in [Slots -> BlockType]
  BY <1>2 DEF Flush
<1>4. ASSUME NEW b \in Slots
      PROVE  /\ block'[b].shown <= Len(block[b].given)
             /\ SubSeq(block'[b].given, 1, block'[b].shown) =
                  Shown(b) \o (IF b \in blocks THEN Held(b) ELSE <<>>)
  <2>1. /\ block[b].given \in Seq(Token) /\ block[b].shown \in 0..Len(block[b].given)
        /\ Held(b) \in Seq(Token) /\ Shown(b) \in Seq(Token)
        /\ ~block[b].flushed => Shown(b) \o Held(b) = block[b].given
        /\ block[b].flushed => Held(b) = <<>>
    BY BlockParts
  <2>2. CASE b \in blocks /\ ~block[b].flushed
    <3>1. SubSeq(block[b].given, 1, Len(block[b].given)) = block[b].given
      BY <2>1, SubSeqFull
    <3>2. block'[b].given = block[b].given /\ block'[b].shown = Len(block[b].given)
      BY <1>2, <2>2
    <3>3. SubSeq(block'[b].given, 1, block'[b].shown) = block[b].given
      BY <3>1, <3>2
    <3>4. Len(block[b].given) \in Nat
      BY <2>1
    <3>5. block'[b].shown <= Len(block[b].given)
      BY <3>2, <3>4
    <3>6. Shown(b) \o (IF b \in blocks THEN Held(b) ELSE <<>>) = block[b].given
      BY <2>1, <2>2
    <3>7. QED
      BY <3>3, <3>5, <3>6
  <2>3. CASE ~(b \in blocks /\ ~block[b].flushed)
    <3>1. Shown(b) \o (IF b \in blocks THEN Held(b) ELSE <<>>) = Shown(b)
      BY <2>1, <2>3, ConcatEmptySeq
    <3>2. SubSeq(block'[b].given, 1, block'[b].shown) = Shown(b)
      BY <1>2, <2>3 DEF Shown
    <3>3. QED
      BY <1>2, <2>1, <2>3, <3>1, <3>2
  <2>4. QED
    BY <2>2, <2>3
<1>5. QED
  BY <1>2, <1>3, <1>4

----------------------------------------------------------------------------
(* The upstream                                                            *)
Open(events) ==
  {s \in IF turn.provider = "openai" THEN ChoiceSlots ELSE Slots : ~Ended(events, s)}

(* An event the upstream may send next                                     *)
LEMMA UpcomingIs ==
  ASSUME Formed, NEW events \in Seq(EventType), Len(events) < MaxEvents,
         NEW event \in Upcoming(events)
  PROVE  /\ event \in EventType /\ event.from = Len(events) + 1
         /\ "done" \notin KindsOf(events)
         /\ event.slot \in {0} \union (IF turn.provider = "openai" THEN ChoiceSlots ELSE Slots)
         /\ event.kind \in {"text", "stop"} => ~Ended(events, event.slot)
         /\ event.kind # "text" => event.text = <<>>
         /\ event.ends => event.kind = "text"
<1> DEFINE from == Len(events) + 1
           token(slot) == [slot |-> slot, n |-> Len(TextOf(events, slot)) + 1]
<1>1. "done" \notin KindsOf(events)
  BY DEF Upcoming
<1>2. \/ \E slot \in Open(events), ends \in BOOLEAN :
           event = Event("text", slot, <<token(slot)>>, ends, from)
      \/ \E slot \in Open(events) : event = Event("stop", slot, <<>>, FALSE, from)
      \/ \E kind \in {"usage", "done"} : event = Event(kind, 0, <<>>, FALSE, from)
  BY DEF Upcoming, Open
<1>3. from \in 1..MaxEvents
  <2>1. Len(events) \in Nat /\ MaxEvents \in Nat
    BY SseAssumption, LenProperties
  <2>2. QED
    BY <2>1
<1>4. Open(events) \subseteq Slots /\ 0 \in Slots
  BY SseAssumption DEF Open
<1>5. \A slot \in Slots : <<token(slot)>> \in Seq(Token)
  <2>1. TAKE slot \in Slots
  <2>2. Len(TextOf(events, slot)) + 1 \in Nat
    BY TextOfType
  <2>3. token(slot) \in Token
    BY <2>2 DEF Token
  <2>4. QED
    BY <2>3
<1>6. <<>> \in Seq(Token)
  BY EmptySeq
<1> HIDE DEF from, token
<1>7. CASE \E slot \in Open(events), ends \in BOOLEAN :
             event = Event("text", slot, <<token(slot)>>, ends, from)
  <2>1. PICK slot \in Open(events), ends \in BOOLEAN :
               event = Event("text", slot, <<token(slot)>>, ends, from)
    BY <1>7
  <2>2. /\ event.kind = "text" /\ event.slot = slot /\ event.from = from
        /\ event.text = <<token(slot)>> /\ event.ends = ends
    BY <2>1 DEF Event
  <2>3. event \in EventType
    BY <1>3, <1>4, <1>5, <2>1 DEF Event, EventType
  <2>4. QED
    BY <1>1, <1>4, <2>2, <2>3 DEF Open, from
<1>8. CASE \E slot \in Open(events) : event = Event("stop", slot, <<>>, FALSE, from)
  <2>1. PICK slot \in Open(events) : event = Event("stop", slot, <<>>, FALSE, from)
    BY <1>8
  <2>2. /\ event.kind = "stop" /\ event.slot = slot /\ event.from = from
        /\ event.text = <<>> /\ event.ends = FALSE
    BY <2>1 DEF Event
  <2>3. event \in EventType
    BY <1>3, <1>4, <1>6, <2>1 DEF Event, EventType
  <2>4. QED
    BY <1>1, <1>4, <2>2, <2>3 DEF Open, from
<1>9. CASE \E kind \in {"usage", "done"} : event = Event(kind, 0, <<>>, FALSE, from)
  <2>1. PICK kind \in {"usage", "done"} : event = Event(kind, 0, <<>>, FALSE, from)
    BY <1>9
  <2>2. /\ event.kind = kind /\ event.slot = 0 /\ event.from = from
        /\ event.text = <<>> /\ event.ends = FALSE
    BY <2>1 DEF Event
  <2>3. event \in EventType
    BY <1>3, <1>4, <1>6, <2>1 DEF Event, EventType
  <2>4. QED
    BY <1>1, <2>1, <2>2, <2>3 DEF from
<1>10. QED
  BY <1>2, <1>7, <1>8, <1>9

----------------------------------------------------------------------------
(* One record: what becomes of it, whatever the choices                    *)
Effect(event, added, more) ==
  /\ added \in Seq(EventType) /\ output' = output \o added
  /\ more \in Seq(JobType) /\ jobs' = jobs \o more
  /\ \A i \in 1..Len(more) : more[i].kind = "original"
  /\ block' \in [Slots -> BlockType]
  /\ \A b \in Slots :
       /\ block'[b].shown <= Len(block'[b].given)
       /\ turn.provider = "openai" /\ b # 0 => block'[b].given = <<>>
  /\ Same(Original(added), <<event>>)
  /\ \A slot \in Slots : Ended(added, slot) <=> Closes(event, slot)
  /\ usage' \in BOOLEAN /\ (usage' <=> usage \/ event.kind = "usage")

(* ... and when its slot has a block of its own, which is open             *)
Orderly(event) ==
  /\ event.slot \in AllBlocks
  /\ event.kind # "text" => event.text = <<>>
  /\ event.ends => event.kind = "text"
  /\ event.kind = "text" => ~block[event.slot].flushed
  /\ \A b \in Slots : block[b].flushed => block[b].shown = Len(block[b].given)

Flow(event, added, more) ==
  /\ \A b \in Slots :
       /\ block'[b].given = block[b].given \o TextOf(<<event>>, b)
       /\ SubSeq(block'[b].given, 1, block'[b].shown) = Shown(b) \o TextOf(added, b)
       /\ block'[b].flushed => block'[b].shown = Len(block'[b].given)
  /\ \A b \in AllBlocks :
       /\ block'[b].flushed <=> block[b].flushed \/ Closes(event, b)
       /\ block'[b].flushed /\ ~block[b].flushed /\ turn.sigils /\ block'[b].given # <<>> =>
            Job("original", block'[b].given) \in Range(more)

(* From the first m of g to the first n of c                               *)
Advances(g, m, c, n) == SubSeq(c, 1, n) = SubSeq(g, 1, m) \o SubSeq(c, m + 1, n)

(* The first n of what was given are the first m and those since.          *)
LEMMA Advance ==
  ASSUME NEW S, NEW g \in Seq(S), NEW t \in Seq(S),
         NEW m \in 0..Len(g), NEW n \in m..Len(g \o t)
  PROVE  Advances(g, m, g \o t, n)
<1> DEFINE c == g \o t
<1>1. /\ c \in Seq(S) /\ Len(c) = Len(g) + Len(t) /\ Len(g) \in Nat /\ Len(t) \in Nat
      /\ \A i \in 1..Len(g) : c[i] = g[i]
  BY Joined
<1>2. n \in m..Len(c)
  OBVIOUS
<1> HIDE DEF c
<1>3. SubSeq(c, 1, n) \in Seq(S) /\ Len(SubSeq(c, 1, n)) = n
  BY <1>1, <1>2
<1>4. SubSeq(g, 1, m) \in Seq(S) /\ Len(SubSeq(g, 1, m)) = m
  BY <1>1
<1>5. SubSeq(c, m + 1, n) \in Seq(S) /\ Len(SubSeq(c, m + 1, n)) = n - m
  BY <1>1, <1>2
<1> DEFINE x == SubSeq(g, 1, m)
           y == SubSeq(c, m + 1, n)
           z == SubSeq(c, 1, n)
<1>6. \A i \in 1..m : z[i] = x[i]
  BY <1>1, <1>2
<1>7. \A i \in 1..(n - m) : z[m + i] = y[i]
  BY <1>1, <1>2
<1> HIDE DEF x, y, z
<1>8. /\ x \in Seq(S) /\ y \in Seq(S) /\ z \in Seq(S) /\ Len(z) = Len(x) + Len(y)
      /\ \A i \in 1..Len(x) : z[i] = x[i]
      /\ \A i \in 1..Len(y) : z[Len(x) + i] = y[i]
  BY <1>2, <1>3, <1>4, <1>5, <1>6, <1>7 DEF x, y, z
<1>9. z = x \o y
  BY <1>8, JoinIs, Zenon
<1>10. QED
  BY <1>9 DEF Advances, c, x, y, z

LEMMA Span ==
  ASSUME NEW S, NEW g \in Seq(S), NEW t \in Seq(S), NEW m \in 0..Len(g),
         NEW c, c = g \o t, NEW n \in m..Len(c)
  PROVE  /\ c \in Seq(S) /\ Len(c) \in Nat /\ n \in 0..Len(c) /\ n <= Len(c)
         /\ SubSeq(c, m + 1, n) \in Seq(S)
         /\ Advances(g, m, c, n)
<1>1. c \in Seq(S) /\ Len(c) \in Nat
  <2>1. g \o t \in Seq(S) /\ Len(g \o t) \in Nat
    BY ConcatProperties
  <2>2. QED
    BY <2>1
<1>2. n \in 0..Len(c) /\ m + 1 \in Int /\ n \in Int /\ m + 1 >= 1
  BY <1>1
<1>3. SubSeq(c, m + 1, n) \in Seq(S)
  BY <1>1, <1>2
<1>4. n \in m..Len(g \o t)
  OBVIOUS
<1>5. Advances(g, m, g \o t, n)
  BY <1>4, Advance
<1>6. QED
  BY <1>1, <1>2, <1>3, <1>5

LEMMA SameOne ==
  ASSUME NEW event \in EventType, NEW other \in EventType, Bare(event) = Bare(other)
  PROVE  Same(<<event>>, <<other>>)
BY DEF Same

(* Text that is pushed, and what it shows up to.                           *)
LEMMA PushedEffect ==
  ASSUME Formed, NEW event \in EventType, event.kind = "text", event.from # 0,
         NEW b, b = BlockOf(event.slot),
         NEW given, given = block[b].given \o event.text,
         NEW n \in block[b].shown..Len(given), NEW flushed \in BOOLEAN,
         block' = [block EXCEPT ![b] = [given |-> given, shown |-> n, flushed |-> flushed]],
         NEW out, out = [event EXCEPT !.text = SubSeq(given, block[b].shown + 1, n)],
         output' = Append(output, out),
         NEW more \in Seq(OriginalJobs \union {Job("original", given)}), jobs' = jobs \o more,
         UNCHANGED usage
  PROVE  Effect(event, <<out>>, more)
<1>1. /\ event.slot \in Slots /\ event.text \in Seq(Token) /\ event.ends \in BOOLEAN
      /\ event.from \in 0..MaxEvents
  BY EventParts
<1>2. b \in Slots /\ (turn.provider = "openai" => b = 0)
  BY <1>1, SseAssumption DEF BlockOf
<1>3. block[b].given \in Seq(Token) /\ block[b].shown \in 0..Len(block[b].given)
  BY <1>2, BlockParts
<1>4. /\ given \in Seq(Token) /\ Len(given) \in Nat /\ n \in 0..Len(given) /\ n <= Len(given)
      /\ SubSeq(given, block[b].shown + 1, n) \in Seq(Token)
      /\ Advances(block[b].given, block[b].shown, given, n)
  <2> DEFINE g == block[b].given
             m == block[b].shown
  <2>1. /\ g \in Seq(Token) /\ event.text \in Seq(Token) /\ m \in 0..Len(g)
        /\ given = g \o event.text /\ n \in m..Len(given)
    BY <1>1, <1>3
  <2> HIDE DEF g, m
  <2>2. /\ given \in Seq(Token) /\ Len(given) \in Nat /\ n \in 0..Len(given) /\ n <= Len(given)
        /\ SubSeq(given, m + 1, n) \in Seq(Token)
        /\ Advances(g, m, given, n)
    BY <2>1, Span
  <2>3. QED
    BY <2>2 DEF g, m
<1>5. SubSeq(given, block[b].shown + 1, n) \in Seq(Token)
  BY <1>4
<1>6. /\ out \in EventType /\ out.from # 0 /\ out.kind = "text" /\ out.ends = event.ends
      /\ out.slot = event.slot /\ Bare(out) = Bare(event)
  BY <1>5 DEF EventType, Bare
<1>7. <<out>> \in Seq(EventType) /\ output' = output \o <<out>>
  <2>1. output \in Seq(EventType) /\ out \in EventType
    BY <1>6 DEF Formed
  <2>2. Append(output, out) = output \o <<out>>
    BY <2>1, AppendIsConcat, Zenon
  <2>3. <<out>> \in Seq(EventType)
    BY <2>1
  <2>4. output' = output \o <<out>>
    BY <2>2, Zenon
  <2>5. QED
    BY <2>3, <2>4
<1>8. more \in Seq(JobType) /\ \A i \in 1..Len(more) : more[i].kind = "original"
  <2>1. Job("original", given) \in JobType /\ Job("original", given).kind = "original"
    BY <1>4 DEF Job, JobType
  <2>2. /\ OriginalJobs \union {Job("original", given)} \subseteq JobType
        /\ \A job \in OriginalJobs \union {Job("original", given)} : job.kind = "original"
    BY <2>1, OriginalJobsType
  <2> DEFINE J == OriginalJobs \union {Job("original", given)}
  <2> HIDE DEF J
  <2>3. more \in Seq(J) /\ J \subseteq JobType /\ \A job \in J : job.kind = "original"
    BY <2>2 DEF J
  <2>4. more \in Seq(JobType)
    BY <2>3, SeqMonotonic
  <2>5. \A i \in 1..Len(more) : more[i] \in J
    BY <2>3
  <2>6. QED
    BY <2>3, <2>4, <2>5
<1>9. block' \in [Slots -> BlockType]
  <2>1. [given |-> given, shown |-> n, flushed |-> flushed] \in BlockType
    BY <1>4 DEF BlockType
  <2>2. QED
    BY <1>2, <2>1 DEF Formed
<1>10. \A c \in Slots :
         /\ block'[c].shown <= Len(block'[c].given)
         /\ turn.provider = "openai" /\ c # 0 => block'[c].given = <<>>
  <2>1. /\ block'[b].given = given /\ block'[b].shown = n
        /\ \A c \in Slots \ {b} : block'[c] = block[c]
    BY <1>2 DEF Formed
  <2>2. n <= Len(given)
    BY <1>4, Zenon
  <2>3. QED
    BY <1>2, <2>1, <2>2 DEF Formed
<1>11. Same(Original(<<out>>), <<event>>)
  BY <1>6, OriginalOne, SameOne
<1>12. \A slot \in Slots : Ended(<<out>>, slot) <=> Closes(event, slot)
  BY <1>6, EndedOne DEF Closes
<1>13. usage' \in BOOLEAN /\ (usage' <=> usage \/ event.kind = "usage")
  BY DEF Formed
<1>14. QED
  BY <1>7, <1>8, <1>9, <1>10, <1>11, <1>12, <1>13 DEF Effect

(* ... whose block is as far as the client will be                         *)
LEMMA PushedFlow ==
  ASSUME Formed, NEW event \in EventType, event.kind = "text", Orderly(event),
         NEW b, b = BlockOf(event.slot),
         NEW given, given = block[b].given \o event.text,
         NEW n \in block[b].shown..Len(given), NEW flushed \in BOOLEAN,
         flushed <=> event.ends, flushed => n = Len(given),
         block' = [block EXCEPT ![b] = [given |-> given, shown |-> n, flushed |-> flushed]],
         NEW out, out = [event EXCEPT !.text = SubSeq(given, block[b].shown + 1, n)],
         NEW more,
         flushed /\ turn.sigils /\ given # <<>> => Job("original", given) \in Range(more)
  PROVE  Flow(event, <<out>>, more)
<1>1. /\ event.slot \in Slots /\ event.text \in Seq(Token) /\ event.ends \in BOOLEAN
  BY EventParts
<1>2. b = event.slot /\ b \in AllBlocks /\ b \in Slots /\ ~block[b].flushed
  BY <1>1 DEF BlockOf, AllBlocks, Orderly
<1>3. block[b].given \in Seq(Token) /\ block[b].shown \in 0..Len(block[b].given)
  BY <1>2, BlockParts
<1>4. /\ given \in Seq(Token) /\ Len(given) \in Nat /\ n \in 0..Len(given) /\ n <= Len(given)
      /\ SubSeq(given, block[b].shown + 1, n) \in Seq(Token)
      /\ Advances(block[b].given, block[b].shown, given, n)
  <2> DEFINE g == block[b].given
             m == block[b].shown
  <2>1. /\ g \in Seq(Token) /\ event.text \in Seq(Token) /\ m \in 0..Len(g)
        /\ given = g \o event.text /\ n \in m..Len(given)
    BY <1>1, <1>3
  <2> HIDE DEF g, m
  <2>2. /\ given \in Seq(Token) /\ Len(given) \in Nat /\ n \in 0..Len(given) /\ n <= Len(given)
        /\ SubSeq(given, m + 1, n) \in Seq(Token)
        /\ Advances(g, m, given, n)
    BY <2>1, Span
  <2>3. QED
    BY <2>2 DEF g, m
<1>5. SubSeq(given, block[b].shown + 1, n) \in Seq(Token)
  BY <1>4
<1>6. /\ out \in EventType /\ out.slot = event.slot
      /\ out.text = SubSeq(given, block[b].shown + 1, n)
  BY <1>5 DEF EventType
<1>7. /\ block'[b].given = given /\ block'[b].shown = n /\ block'[b].flushed = flushed
      /\ \A c \in Slots \ {b} : block'[c] = block[c]
  BY <1>2 DEF Formed
<1>8. ASSUME NEW c \in Slots
      PROVE  /\ block'[c].given = block[c].given \o TextOf(<<event>>, c)
             /\ SubSeq(block'[c].given, 1, block'[c].shown) = Shown(c) \o TextOf(<<out>>, c)
             /\ block'[c].flushed => block'[c].shown = Len(block'[c].given)
  <2>1. /\ TextOf(<<event>>, c) = IF event.slot = c THEN event.text ELSE <<>>
        /\ TextOf(<<out>>, c) = IF out.slot = c THEN out.text ELSE <<>>
    BY <1>6, TextOfOne
  <2>2. CASE c = b
    <3>1. QED
      BY <1>2, <1>4, <1>6, <1>7, <2>1, <2>2 DEF Advances, Shown
  <2>3. CASE c # b
    <3>1. block[c].given \in Seq(Token) /\ Shown(c) \in Seq(Token)
      BY BlockParts
    <3>2. block[c].given \o <<>> = block[c].given /\ Shown(c) \o <<>> = Shown(c)
      BY <3>1, ConcatEmptySeq
    <3>3. block'[c] = block[c] /\ TextOf(<<event>>, c) = <<>> /\ TextOf(<<out>>, c) = <<>>
      BY <1>2, <1>6, <1>7, <2>1, <2>3
    <3>4. QED
      BY <3>2, <3>3 DEF Shown, Orderly
  <2>4. QED
    BY <2>2, <2>3
<1>9. ASSUME NEW c \in AllBlocks
      PROVE  /\ block'[c].flushed <=> block[c].flushed \/ Closes(event, c)
             /\ block'[c].flushed /\ ~block[c].flushed /\ turn.sigils /\ block'[c].given # <<>> =>
                  Job("original", block'[c].given) \in Range(more)
  <2>1. c \in Slots
    BY AllBlocksAre
  <2>2. CASE c = b
    BY <1>2, <1>7, <2>2 DEF Closes
  <2>3. CASE c # b
    BY <1>2, <1>7, <2>1, <2>3 DEF Closes
  <2>4. QED
    BY <2>2, <2>3
<1>10. QED
  BY <1>8, <1>9 DEF Flow

(* A push leaves the flag alone.                                           *)
LEMMA BlockExcept ==
  ASSUME NEW textBlock \in BlockType, NEW given, NEW n
  PROVE  [textBlock EXCEPT !.given = given, !.shown = n] =
           [given |-> given, shown |-> n, flushed |-> textBlock.flushed]
<1> DEFINE r == [textBlock EXCEPT !.given = given, !.shown = n]
<1>1. DOMAIN textBlock = {"given", "shown", "flushed"}
  BY DEF BlockType
<1>2. DOMAIN r = {"given", "shown", "flushed"}
  BY <1>1
<1>3. r.given = given /\ r.shown = n /\ r.flushed = textBlock.flushed
  BY <1>1
<1>4. r = [x \in {"given", "shown", "flushed"} |-> r[x]]
  BY <1>2
<1> HIDE DEF r
<1>5. r = [given |-> given, shown |-> n, flushed |-> textBlock.flushed]
  BY <1>3, <1>4
<1>6. QED
  BY <1>5, Zenon DEF r

LEMMA TextEffect ==
  ASSUME Formed, NEW event \in EventType, event.from # 0, Text(event)
  PROVE  \E added, more : Effect(event, added, more) /\ (Orderly(event) => Flow(event, added, more))
<1> DEFINE b == BlockOf(event.slot)
           given == block[b].given \o event.text
<1>1. /\ event.slot \in Slots /\ event.text \in Seq(Token)
  BY EventParts
<1>2. b \in Slots
  BY <1>1, SseAssumption DEF BlockOf
<1>3. event.kind = "text" /\ ~event.ends /\ jobs' = jobs /\ UNCHANGED usage
  BY DEF Text
<1>4. PICK n \in block[b].shown..Len(given) :
        /\ block' = [block EXCEPT ![b] = [@ EXCEPT !.given = given, !.shown = n]]
        /\ output' = Append(output,
             [event EXCEPT !.text = SubSeq(given, block[b].shown + 1, n)])
  BY DEF Text
<1> DEFINE out == [event EXCEPT !.text = SubSeq(given, block[b].shown + 1, n)]
           flushed == block[b].flushed
<1>5. flushed \in BOOLEAN /\ block[b] \in BlockType
  BY <1>2, BlockParts DEF Formed
<1>6. [block[b] EXCEPT !.given = given, !.shown = n] =
        [given |-> given, shown |-> n, flushed |-> flushed]
  BY <1>5, BlockExcept, Zenon
<1>7. block' = [block EXCEPT ![b] = [given |-> given, shown |-> n, flushed |-> flushed]]
  BY <1>4, <1>6
<1>8. <<>> \in Seq(OriginalJobs \union {Job("original", given)}) /\ jobs' = jobs \o <<>>
  BY <1>3, ConcatEmptySeq DEF Formed
<1>9. output' = Append(output, out)
  BY <1>4
<1>10. Orderly(event) => ~flushed
  BY <1>3 DEF Orderly, BlockOf, AllBlocks
<1> HIDE DEF b, given, out, flushed
<1>11. Effect(event, <<out>>, <<>>)
  BY <1>3, <1>5, <1>7, <1>8, <1>9, PushedEffect DEF b, given, out
<1>12. ASSUME Orderly(event) PROVE Flow(event, <<out>>, <<>>)
  BY <1>3, <1>5, <1>7, <1>10, <1>12, PushedFlow DEF b, given, out
<1>13. QED
  BY <1>11, <1>12

LEMMA FlushedIs ==
  ASSUME NEW given, NEW n
  PROVE  Flushed([given |-> given, shown |-> n, flushed |-> FALSE]) =
           [given |-> given, shown |-> Len(given), flushed |-> TRUE]
<1> DEFINE p == [given |-> given, shown |-> n, flushed |-> FALSE]
           r == [p EXCEPT !.flushed = TRUE, !.shown = Len(given)]
<1>1. Flushed(p) = r
  BY DEF Flushed
<1>2. DOMAIN r = {"given", "shown", "flushed"}
  OBVIOUS
<1>3. r.given = given /\ r.shown = Len(given) /\ r.flushed = TRUE
  OBVIOUS
<1>4. r = [x \in {"given", "shown", "flushed"} |-> r[x]]
  BY <1>2
<1> HIDE DEF r
<1>5. r = [given |-> given, shown |-> Len(given), flushed |-> TRUE]
  BY <1>3, <1>4
<1>6. QED
  BY <1>1, <1>5

LEMMA FinalTextEffect ==
  ASSUME Formed, NEW event \in EventType, event.from # 0, FinalText(event)
  PROVE  \E added, more : Effect(event, added, more) /\ (Orderly(event) => Flow(event, added, more))
<1> DEFINE b == BlockOf(event.slot)
           given == block[b].given \o event.text
           pushed(n) == [block[b] EXCEPT !.given = given, !.shown = n]
           was == block[b].flushed
<1>1. /\ event.slot \in Slots /\ event.text \in Seq(Token)
  BY EventParts
<1>2. b \in Slots
  BY <1>1, SseAssumption DEF BlockOf
<1>3. event.kind = "text" /\ event.ends /\ UNCHANGED usage
  BY DEF FinalText
<1>4. PICK n \in block[b].shown..Len(given) :
        /\ block' = [block EXCEPT ![b] = Flushed(pushed(n))]
        /\ output' = Append(output,
             [event EXCEPT !.text = SubSeq(given, block[b].shown + 1, Flushed(pushed(n)).shown)])
        /\ jobs' = jobs \o Originals(pushed(n))
  BY DEF FinalText
<1>5. was \in BOOLEAN /\ block[b] \in BlockType
  BY <1>2, BlockParts DEF Formed
<1>6. pushed(n) = [given |-> given, shown |-> n, flushed |-> was]
  BY <1>5, BlockExcept, Zenon
<1> DEFINE m == IF was THEN n ELSE Len(given)
           more == Originals(pushed(n))
           out == [event EXCEPT !.text = SubSeq(given, block[b].shown + 1, m)]
<1>7. Flushed(pushed(n)) = [given |-> given, shown |-> m, flushed |-> TRUE]
  <2> DEFINE p == pushed(n)
  <2> HIDE DEF pushed, given, was
  <2>1. CASE was
    BY <1>6, <2>1 DEF Flushed
  <2>2. CASE ~was
    <3>1. was = FALSE
      BY <1>5, <2>2
    <3>2. p = [given |-> given, shown |-> n, flushed |-> FALSE]
      BY <1>6, <3>1
    <3>3. QED
      BY <2>2, <3>2, FlushedIs
  <2>3. QED
    BY <1>5, <2>1, <2>2
<1>8. given \in Seq(Token) /\ Len(given) \in Nat /\ block[b].shown \in Nat
  <2>1. block[b].given \in Seq(Token) /\ block[b].shown \in 0..Len(block[b].given)
    BY <1>2, BlockParts
  <2>2. given \in Seq(Token)
    BY <1>1, <2>1, ConcatProperties
  <2>3. Len(given) \in Nat
    BY <2>2, LenProperties
  <2>4. Len(block[b].given) \in Nat
    BY <2>1, LenProperties
  <2>5. block[b].shown \in Nat
    BY <2>1, <2>4
  <2>6. QED
    BY <2>2, <2>3, <2>5
<1> HIDE DEF given
<1>9. m \in block[b].shown..Len(given)
  BY <1>8
<1>10. /\ more \in Seq(OriginalJobs \union {Job("original", given)})
       /\ ~was /\ turn.sigils /\ given # <<>> => more = <<Job("original", given)>>
  <2> DEFINE J == OriginalJobs \union {Job("original", given)}
             q == [given |-> given, shown |-> n, flushed |-> was]
  <2>1. Job("original", given) \in J
    OBVIOUS
  <2>2. <<Job("original", given)>> \in Seq(J) /\ <<>> \in Seq(J)
    BY <2>1
  <2>3. Originals(q) = IF ~was /\ turn.sigils /\ given # <<>>
                       THEN <<Job("original", given)>> ELSE <<>>
    BY DEF Originals
  <2>4. more = Originals(q)
    BY <1>6
  <2> HIDE DEF J, q, more
  <2>5. more \in Seq(J)
    BY <2>2, <2>3, <2>4
  <2>6. QED
    BY <2>3, <2>4, <2>5 DEF J
<1>11. block' = [block EXCEPT ![b] = [given |-> given, shown |-> m, flushed |-> TRUE]]
  BY <1>4, <1>7
<1>12. output' = Append(output, out) /\ jobs' = jobs \o more
  <2>1. Flushed(pushed(n)).shown = m
    BY <1>7
  <2>2. QED
    BY <1>4, <2>1
<1>13. given = block[b].given \o event.text
  BY DEF given
<1>14. Orderly(event) => ~was
  BY <1>3 DEF Orderly, BlockOf, AllBlocks
<1>15. b = BlockOf(event.slot)
  OBVIOUS
<1>16. ASSUME Orderly(event)
       PROVE  /\ m = Len(given)
              /\ turn.sigils /\ given # <<>> => Job("original", given) \in Range(more)
  <2>1. m = Len(given) /\ (turn.sigils /\ given # <<>> => more = <<Job("original", given)>>)
    BY <1>10, <1>14, <1>16
  <2>2. Job("original", given) \in Range(<<Job("original", given)>>)
    BY DEF Range
  <2>3. QED
    BY <2>1, <2>2
<1>17. out = [event EXCEPT !.text = SubSeq(given, block[b].shown + 1, m)]
  OBVIOUS
<1> HIDE DEF b, m, more, out, was, pushed
<1>18. Effect(event, <<out>>, more)
  BY <1>3, <1>9, <1>10, <1>11, <1>12, <1>13, <1>15, <1>17, PushedEffect
<1>19. ASSUME Orderly(event) PROVE Flow(event, <<out>>, more)
  BY <1>3, <1>9, <1>11, <1>13, <1>15, <1>16, <1>17, <1>19, PushedFlow
<1>20. QED
  BY <1>18, <1>19

LEMMA EndEffect ==
  ASSUME Formed, NEW event \in EventType, event.from # 0, End(event)
  PROVE  \E added, more : Effect(event, added, more) /\ (Orderly(event) => Flow(event, added, more))
<1> DEFINE blocks == Closed(event)
           tails == TailEvents(blocks)
           added == tails \o <<event>>
           more == FlushedOriginals(blocks)
<1>1. /\ event.slot \in Slots /\ event.text \in Seq(Token) /\ event.ends \in BOOLEAN
      /\ event.kind \in {"stop", "done"}
  BY EventParts DEF End
<1>2. blocks \subseteq Slots
  BY <1>1, AllBlocksAre, SseAssumption DEF Closed, BlockOf
<1>3. /\ Flush(blocks) /\ output' = (output \o tails) \o <<event>>
      /\ jobs' = jobs \o more /\ UNCHANGED usage
  BY DEF End
<1> HIDE DEF blocks
<1>4. /\ tails \in Seq(HeldTails(blocks)) /\ tails \in Seq(EventType)
  BY <1>2, TailsAre
<1>5. Original(tails) = <<>> /\ \A slot : ~Ended(tails, slot)
  BY <1>2, <1>4, TailsPlain
<1>6. \A b \in Slots : TextOf(tails, b) = IF b \in blocks THEN Held(b) ELSE <<>>
  BY <1>2, TailEventsText
<1> HIDE DEF tails
<1>7. <<event>> \in Seq(EventType)
  OBVIOUS
<1>8. added \in Seq(EventType) /\ output' = output \o added
  <2>1. output \in Seq(EventType)
    BY DEF Formed
  <2>2. (output \o tails) \o <<event>> = output \o (tails \o <<event>>)
    BY <1>4, <1>7, <2>1
  <2>3. added \in Seq(EventType)
    BY <1>4, <1>7, ConcatProperties
  <2>4. QED
    BY <1>3, <2>2, <2>3, Zenon
<1>9. Same(Original(added), <<event>>)
  <2>1. Original(added) = Original(tails) \o Original(<<event>>)
    BY <1>4, <1>7, OriginalJoin, Zenon
  <2>2. Original(<<event>>) = <<event>>
    BY OriginalOne
  <2>3. <<>> \o <<event>> = <<event>>
    BY <1>7, ConcatEmptySeq, Zenon
  <2>4. Original(added) = <<event>>
    BY <1>5, <2>1, <2>2, <2>3
  <2>5. QED
    BY <2>4 DEF Same
<1>10. \A slot \in Slots : Ended(added, slot) <=> Closes(event, slot)
  <2>1. TAKE slot \in Slots
  <2>2. Ended(added, slot) <=> Ended(tails, slot) \/ Ended(<<event>>, slot)
    BY <1>4, <1>7, EndedJoin
  <2>3. QED
    BY <1>5, <2>2, EndedOne
<1>11. /\ more \in Seq(OriginalJobs)
       /\ \A b \in blocks :
            ~block[b].flushed /\ turn.sigils /\ block[b].given # <<>> =>
              Job("original", block[b].given) \in Range(more)
  BY <1>2, FlushedOriginalsAre
<1> HIDE DEF more
<1>12. more \in Seq(JobType) /\ \A i \in 1..Len(more) : more[i].kind = "original"
  <2>1. more \in Seq(JobType)
    BY <1>11, OriginalJobsType, SeqMonotonic
  <2>2. \A i \in 1..Len(more) : more[i] \in OriginalJobs
    BY <1>11
  <2>3. QED
    BY <2>1, <2>2, OriginalJobsType
<1>13. /\ block' \in [Slots -> BlockType]
       /\ \A b \in Slots :
            /\ block'[b].given = block[b].given
            /\ block'[b].shown = IF b \in blocks /\ ~block[b].flushed
                                 THEN Len(block[b].given) ELSE block[b].shown
            /\ block'[b].shown <= Len(block[b].given)
            /\ block'[b].flushed <=> block[b].flushed \/ b \in blocks
            /\ SubSeq(block'[b].given, 1, block'[b].shown) =
                 Shown(b) \o (IF b \in blocks THEN Held(b) ELSE <<>>)
  BY <1>2, <1>3, FlushIs
<1>14. usage' \in BOOLEAN /\ (usage' <=> usage \/ event.kind = "usage")
  BY <1>1, <1>3 DEF Formed
<1> HIDE DEF added
<1>15. \A b \in Slots : /\ block'[b].shown <= Len(block'[b].given)
                        /\ turn.provider = "openai" /\ b # 0 => block'[b].given = <<>>
  BY <1>13 DEF Formed
<1>16. Effect(event, added, more)
  BY <1>3, <1>8, <1>9, <1>10, <1>12, <1>13, <1>14, <1>15 DEF Effect
<1>17. ASSUME Orderly(event) PROVE Flow(event, added, more)
  <2>1. event.text = <<>> /\ ~event.ends /\ event.slot \in AllBlocks
    BY <1>1, <1>17 DEF Orderly
  <2>2. \A b \in AllBlocks : b \in blocks <=> Closes(event, b)
    BY <1>1, <2>1 DEF blocks, Closed, BlockOf, AllBlocks, Closes
  <2>3. ASSUME NEW b \in Slots
        PROVE  /\ block'[b].given = block[b].given \o TextOf(<<event>>, b)
               /\ SubSeq(block'[b].given, 1, block'[b].shown) = Shown(b) \o TextOf(added, b)
               /\ block'[b].flushed => block'[b].shown = Len(block'[b].given)
    <3>1. TextOf(<<event>>, b) = <<>>
      BY <2>1, TextOfOne
    <3>2. block[b].given \in Seq(Token)
      BY BlockParts
    <3>3. block[b].given \o <<>> = block[b].given
      BY <3>2, ConcatEmptySeq, Zenon
    <3>4. TextOf(added, b) = TextOf(tails, b) \o TextOf(<<event>>, b)
      BY <1>4, <1>7, TextOfJoin, Zenon DEF added
    <3>5. TextOf(tails, b) \in Seq(Token)
      BY <1>4, TextOfType
    <3>6. TextOf(added, b) = TextOf(tails, b)
      BY <3>1, <3>4, <3>5, ConcatEmptySeq
    <3>7. block'[b].given = block[b].given \o TextOf(<<event>>, b)
      BY <1>13, <3>1, <3>3
    <3>8. SubSeq(block'[b].given, 1, block'[b].shown) = Shown(b) \o TextOf(added, b)
      BY <1>6, <1>13, <3>6, Zenon
    <3>9. block'[b].flushed => block'[b].shown = Len(block'[b].given)
      BY <1>13, <1>17 DEF Orderly
    <3>10. QED
      BY <3>7, <3>8, <3>9
  <2>4. ASSUME NEW b \in AllBlocks
        PROVE  /\ block'[b].flushed <=> block[b].flushed \/ Closes(event, b)
               /\ block'[b].flushed /\ ~block[b].flushed /\ turn.sigils /\ block'[b].given # <<>> =>
                    Job("original", block'[b].given) \in Range(more)
    <3>1. b \in Slots
      BY AllBlocksAre
    <3>2. QED
      BY <1>11, <1>13, <2>2, <3>1
  <2>5. QED
    BY <2>3, <2>4 DEF Flow
<1>18. QED
  BY <1>16, <1>17

LEMMA UsageEffect ==
  ASSUME Formed, NEW event \in EventType, event.from # 0, Usage(event)
  PROVE  \E added, more : Effect(event, added, more) /\ (Orderly(event) => Flow(event, added, more))
<1>1. /\ event.kind = "usage" /\ usage' = TRUE /\ output' = Append(output, event)
      /\ block' = block /\ jobs' = jobs
  BY DEF Usage
<1>2. <<event>> \in Seq(EventType) /\ <<>> \in Seq(JobType)
  BY EmptySeq
<1>3. output' = output \o <<event>> /\ jobs' = jobs \o <<>>
  <2>1. output \in Seq(EventType) /\ jobs \in Seq(JobType)
    BY DEF Formed
  <2>2. Append(output, event) = output \o <<event>>
    BY <2>1, AppendIsConcat, Zenon
  <2>3. jobs \o <<>> = jobs
    BY <2>1, ConcatEmptySeq, Zenon
  <2>4. QED
    BY <1>1, <2>2, <2>3, Zenon
<1>4. Same(Original(<<event>>), <<event>>)
  BY OriginalOne DEF Same
<1>5. \A slot \in Slots : Ended(<<event>>, slot) <=> Closes(event, slot)
  BY EndedOne
<1>6. /\ block' \in [Slots -> BlockType]
      /\ \A b \in Slots : /\ block'[b].shown <= Len(block'[b].given)
                          /\ turn.provider = "openai" /\ b # 0 => block'[b].given = <<>>
  BY <1>1 DEF Formed
<1>7. usage' \in BOOLEAN /\ (usage' <=> usage \/ event.kind = "usage")
  BY <1>1
<1>8. \A i \in 1..Len(<<>>) : <<>>[i].kind = "original"
  OBVIOUS
<1>9. Effect(event, <<event>>, <<>>)
  BY <1>2, <1>3, <1>4, <1>5, <1>6, <1>7, <1>8 DEF Effect
<1>10. ASSUME Orderly(event) PROVE Flow(event, <<event>>, <<>>)
  <2>1. event.text = <<>> /\ ~event.ends
    BY <1>1, <1>10, EventParts DEF Orderly
  <2>2. ASSUME NEW b \in Slots
        PROVE  /\ block'[b].given = block[b].given \o TextOf(<<event>>, b)
               /\ SubSeq(block'[b].given, 1, block'[b].shown) = Shown(b) \o TextOf(<<event>>, b)
               /\ block'[b].flushed => block'[b].shown = Len(block'[b].given)
    <3>1. TextOf(<<event>>, b) = <<>>
      BY <2>1, TextOfOne
    <3>2. block[b].given \in Seq(Token) /\ Shown(b) \in Seq(Token)
      BY BlockParts
    <3>3. block[b].given \o <<>> = block[b].given /\ Shown(b) \o <<>> = Shown(b)
      BY <3>2, ConcatEmptySeq
    <3>4. SubSeq(block'[b].given, 1, block'[b].shown) = Shown(b)
      BY <1>1 DEF Shown
    <3>5. QED
      BY <1>1, <1>10, <3>1, <3>3, <3>4 DEF Orderly
  <2>3. \A b \in AllBlocks : ~Closes(event, b)
    BY <1>1, <2>1 DEF Closes
  <2>4. QED
    BY <1>1, <2>2, <2>3 DEF Flow
<1>11. QED
  BY <1>9, <1>10

(* Every kind of record has its effect.                                    *)
LEMMA RecordEffect ==
  ASSUME Formed, NEW event \in EventType, event.from # 0,
         Text(event) \/ FinalText(event) \/ End(event) \/ Usage(event)
  PROVE  \E added, more : Effect(event, added, more) /\ (Orderly(event) => Flow(event, added, more))
BY TextEffect, FinalTextEffect, EndEffect, UsageEffect

----------------------------------------------------------------------------
(* Type correctness *)

LEMMA InitFormed == Init => Formed /\ Phased
<1> SUFFICES ASSUME Init PROVE Formed /\ Phased
  OBVIOUS
<1>1. <<>> \in Seq(EventType) /\ <<>> \in Seq(JobType) /\ <<>> \in Seq(Token)
  BY EmptySeq
<1>2. [given |-> <<>>, shown |-> 0, flushed |-> FALSE] \in BlockType
  BY <1>1 DEF BlockType
<1>3. block \in [Slots -> BlockType]
  BY <1>2 DEF Init
<1>4. \A b \in Slots :
        /\ block[b].shown <= Len(block[b].given)
        /\ turn.provider = "openai" /\ b # 0 => block[b].given = <<>>
  BY DEF Init
<1>5. Formed
  <2>1. \A i \in 1..Len(buffer) : buffer[i].from # 0
    BY DEF Init
  <2>2. /\ turn \in Turns /\ sent = <<>> /\ buffer = <<>> /\ output = <<>> /\ client = <<>>
        /\ jobs = <<>> /\ recorded = <<>> /\ lost = {} /\ usage = FALSE /\ last = "no"
    BY DEF Init
  <2>3. QED
    BY <1>1, <1>3, <1>4, <2>1, <2>2 DEF Formed
<1>6. Phased
  BY DEF Init, Phased
<1>7. QED
  BY <1>5, <1>6

(* What a chunk is made of                                                 *)
LEMMA ReceiveIs ==
  ASSUME Formed, Receive
  PROVE  /\ phase = "await" /\ phase' = "transform"
         /\ sent' = sent \o buffer'
         /\ buffer' \in Seq(EventType) /\ buffer' # <<>>
         /\ \/ \E event \in Upcoming(sent) :
                 Len(sent) < MaxEvents /\ buffer' = <<event>>
            \/ \E event \in Upcoming(sent) : \E next \in Upcoming(sent \o <<event>>) :
                 /\ Len(sent) + 1 < MaxEvents /\ sent \o <<event>> \in Seq(EventType)
                 /\ Len(sent \o <<event>>) = Len(sent) + 1
                 /\ buffer' = <<event>> \o <<next>>
         /\ \A i \in 1..Len(buffer') : buffer'[i].from = Len(sent) + i
         /\ UNCHANGED <<turn, block, usage, output, jobs, last, client, stored, recorded, lost>>
<1>1. /\ phase = "await" /\ phase' = "transform" /\ Len(sent) < MaxEvents
      /\ sent' = sent \o buffer'
      /\ UNCHANGED <<turn, block, usage, output, jobs, last, client, stored, recorded, lost>>
  BY DEF Receive
<1>2. sent \in Seq(EventType) /\ Len(sent) \in Nat
  BY DEF Formed
<1>3. CASE \E event \in Upcoming(sent) : buffer' = <<event>>
  <2>1. PICK event \in Upcoming(sent) : buffer' = <<event>>
    BY <1>3
  <2>2. event \in EventType /\ event.from = Len(sent) + 1
    BY <1>1, <1>2, UpcomingIs
  <2>3. /\ buffer' \in Seq(EventType) /\ buffer' # <<>>
        /\ \A i \in 1..Len(buffer') : buffer'[i].from = Len(sent) + i
    BY <2>1, <2>2
  <2>4. QED
    BY <1>1, <1>3, <2>3
<1>4. CASE Len(sent) + 1 < MaxEvents /\ \E event \in Upcoming(sent) :
             \E next \in Upcoming(Append(sent, event)) : buffer' = <<event, next>>
  <2>1. PICK event \in Upcoming(sent) :
               \E next \in Upcoming(Append(sent, event)) : buffer' = <<event, next>>
    BY <1>4
  <2>2. PICK next \in Upcoming(Append(sent, event)) : buffer' = <<event, next>>
    BY <2>1
  <2>3. event \in EventType /\ event.from = Len(sent) + 1
    BY <1>1, <1>2, UpcomingIs
  <2>4. /\ Append(sent, event) = sent \o <<event>> /\ Append(sent, event) \in Seq(EventType)
        /\ Len(Append(sent, event)) = Len(sent) + 1
    <3>1. Append(sent, event) = sent \o <<event>>
      BY <1>2, <2>3, AppendIsConcat, Zenon
    <3>2. QED
      BY <1>2, <2>3, <3>1, AppendProperties
  <2> DEFINE more == Append(sent, event)
  <2> HIDE DEF more
  <2>5. more = sent \o <<event>> /\ more \in Seq(EventType) /\ Len(more) = Len(sent) + 1
    BY <2>4 DEF more
  <2>6. next \in Upcoming(more) /\ Len(more) < MaxEvents
    BY <1>4, <2>5 DEF more
  <2>7. next \in EventType /\ next.from = Len(sent) + 2
    <3>1. next \in EventType /\ next.from = Len(more) + 1
      BY <2>5, <2>6, UpcomingIs
    <3>2. QED
      BY <1>2, <2>5, <3>1
  <2>8. /\ buffer' \in Seq(EventType) /\ buffer' # <<>>
        /\ \A i \in 1..Len(buffer') : buffer'[i].from = Len(sent) + i
    BY <2>2, <2>3, <2>7
  <2>9. buffer' = <<event>> \o <<next>>
    BY <2>2
  <2>10. \E e \in Upcoming(sent) : \E f \in Upcoming(sent \o <<e>>) :
                 /\ Len(sent) + 1 < MaxEvents /\ sent \o <<e>> \in Seq(EventType)
                 /\ Len(sent \o <<e>>) = Len(sent) + 1
                 /\ buffer' = <<e>> \o <<f>>
    BY <1>4, <2>5, <2>6, <2>9, Zenon
  <2>11. QED
    BY <1>1, <2>8, <2>10
<1>5. QED
  BY <1>3, <1>4 DEF Receive

LEMMA ReceiveFormed ==
  ASSUME Formed, Phased, Receive
  PROVE  Formed' /\ Phased'
<1>1. /\ phase = "await" /\ phase' = "transform"
      /\ sent' = sent \o buffer' /\ buffer' \in Seq(EventType) /\ buffer' # <<>>
      /\ \A i \in 1..Len(buffer') : buffer'[i].from = Len(sent) + i
      /\ UNCHANGED <<turn, block, usage, output, jobs, last, client, stored, recorded, lost>>
  BY ReceiveIs
<1>2. sent' \in Seq(EventType) /\ Len(sent) \in Nat
  <2>1. sent \in Seq(EventType)
    BY DEF Formed
  <2>2. QED
    BY <1>1, <2>1, ConcatProperties
<1>3. \A i \in 1..Len(buffer') : buffer'[i].from # 0
  BY <1>1, <1>2
<1>4. Formed'
  BY <1>1, <1>2, <1>3 DEF Formed
<1>5. Phased'
  BY <1>1 DEF Phased
<1>6. QED
  BY <1>4, <1>5

(* The record transformed, and what it becomes                             *)
LEMMA TransformIs ==
  ASSUME Formed, Phased, Transform
  PROVE  /\ phase = "transform" /\ phase' = (IF buffer' = <<>> THEN "io" ELSE "transform")
         /\ Head(buffer) \in EventType /\ Head(buffer).from # 0
         /\ buffer' \in Seq(EventType) /\ buffer = <<Head(buffer)>> \o buffer'
         /\ \A i \in 1..Len(buffer') : buffer'[i].from # 0
         /\ \E added, more :
              /\ Effect(Head(buffer), added, more)
              /\ Orderly(Head(buffer)) => Flow(Head(buffer), added, more)
         /\ UNCHANGED <<turn, sent, last, client, stored, recorded, lost>>
<1>1. /\ phase = "transform" /\ phase' = (IF buffer' = <<>> THEN "io" ELSE "transform")
      /\ buffer' = Tail(buffer)
      /\ UNCHANGED <<turn, sent, last, client, stored, recorded, lost>>
      /\ \/ Text(Head(buffer)) \/ FinalText(Head(buffer))
         \/ End(Head(buffer)) \/ Usage(Head(buffer))
  BY DEF Transform
<1>2. buffer # <<>> /\ buffer \in Seq(EventType)
  BY <1>1 DEF Phased, Formed
<1>3. /\ Head(buffer) \in EventType /\ Head(buffer) = buffer[1] /\ 1 \in 1..Len(buffer)
      /\ Tail(buffer) \in Seq(EventType) /\ Len(Tail(buffer)) = Len(buffer) - 1
      /\ \A i \in 1..Len(Tail(buffer)) : Tail(buffer)[i] = buffer[i + 1] /\ i + 1 \in 1..Len(buffer)
  BY <1>2, HeadTailProperties
<1>4. /\ Head(buffer).from # 0
      /\ \A i \in 1..Len(buffer') : buffer'[i].from # 0
  BY <1>1, <1>3 DEF Formed
<1>5. buffer = <<Head(buffer)>> \o buffer'
  <2> DEFINE x == <<Head(buffer)>>
             y == Tail(buffer)
             z == buffer
  <2>1. /\ x \in Seq(EventType) /\ y \in Seq(EventType) /\ z \in Seq(EventType)
        /\ Len(z) = Len(x) + Len(y)
        /\ \A i \in 1..Len(x) : z[i] = x[i]
        /\ \A i \in 1..Len(y) : z[Len(x) + i] = y[i]
    BY <1>2, <1>3
  <2> HIDE DEF x, y, z
  <2>2. z = x \o y
    BY <2>1, JoinIs, Zenon
  <2>3. QED
    BY <1>1, <2>2, Zenon DEF x, y, z
<1>6. \E added, more :
        /\ Effect(Head(buffer), added, more)
        /\ Orderly(Head(buffer)) => Flow(Head(buffer), added, more)
  BY <1>1, <1>3, <1>4, RecordEffect
<1>7. QED
  BY <1>1, <1>3, <1>4, <1>5, <1>6

LEMMA TransformFormed ==
  ASSUME Formed, Phased, Transform
  PROVE  Formed' /\ Phased'
<1>1. /\ phase = "transform" /\ phase' = (IF buffer' = <<>> THEN "io" ELSE "transform")
      /\ buffer' \in Seq(EventType)
      /\ \A i \in 1..Len(buffer') : buffer'[i].from # 0
      /\ UNCHANGED <<turn, sent, last, client, stored, recorded, lost>>
  BY TransformIs
<1>2. PICK added, more : Effect(Head(buffer), added, more)
  BY TransformIs
<1>3. output' \in Seq(EventType)
  <2>1. output \in Seq(EventType) /\ added \in Seq(EventType) /\ output' = output \o added
    BY <1>2 DEF Formed, Effect
  <2>2. QED
    BY <2>1, ConcatProperties
<1>4. jobs' \in Seq(JobType)
  <2>1. jobs \in Seq(JobType) /\ more \in Seq(JobType) /\ jobs' = jobs \o more
    BY <1>2 DEF Formed, Effect
  <2>2. QED
    BY <2>1, ConcatProperties
<1>5. /\ block' \in [Slots -> BlockType] /\ usage' \in BOOLEAN
      /\ \A b \in Slots :
           /\ block'[b].shown <= Len(block'[b].given)
           /\ turn.provider = "openai" /\ b # 0 => block'[b].given = <<>>
  BY <1>2 DEF Effect
<1>6. Formed'
  BY <1>1, <1>3, <1>4, <1>5 DEF Formed
<1>7. Phased'
  BY <1>1 DEF Phased
<1>8. QED
  BY <1>6, <1>7

----------------------------------------------------------------------------
(* The records of a body that ended                                        *)
EndJobs ==
  (IF usage THEN <<Job("cost", <<>>)>> ELSE <<>>)
    \o <<Job("health", AssistantText)>>
    \o (IF Silent /\ ~turn.receipts THEN <<>> ELSE <<Job("transcript", AssistantText)>>)

LEMMA EndJobsType ==
  ASSUME Formed
  PROVE  /\ EndJobs \in Seq(JobType)
         /\ AssistantText \in [Slots -> Seq(Token)]
<1>1. AssistantText \in [Slots -> Seq(Token)]
  BY BlockParts DEF AssistantText
<1>2. <<>> \in Seq(Token)
  BY EmptySeq
<1>3. /\ Job("cost", <<>>) \in JobType /\ Job("health", AssistantText) \in JobType
      /\ Job("transcript", AssistantText) \in JobType
  BY <1>1, <1>2 DEF Job, JobType
<1>4. /\ <<Job("cost", <<>>)>> \in Seq(JobType) /\ <<Job("health", AssistantText)>> \in Seq(JobType)
      /\ <<Job("transcript", AssistantText)>> \in Seq(JobType) /\ <<>> \in Seq(JobType)
  BY <1>3
<1>5. EndJobs \in Seq(JobType)
  <2> DEFINE x == IF usage THEN <<Job("cost", <<>>)>> ELSE <<>>
             y == <<Job("health", AssistantText)>>
             z == IF Silent /\ ~turn.receipts THEN <<>> ELSE <<Job("transcript", AssistantText)>>
  <2>1. x \in Seq(JobType) /\ y \in Seq(JobType) /\ z \in Seq(JobType)
    BY <1>4
  <2>2. EndJobs = x \o y \o z
    BY DEF EndJobs
  <2> HIDE DEF x, y, z
  <2>3. QED
    BY <2>1, <2>2, ConcatProperties
<1>6. QED
  BY <1>1, <1>5

LEMMA FinishIs ==
  ASSUME Formed, Phased, Finish
  PROVE  /\ phase = "await" /\ phase' = "io" /\ last' \in {"whole", "cut"}
         /\ output' \in Seq(HeldTails(AllBlocks)) /\ output' \in Seq(EventType)
         /\ last' = "whole" => output' = TailEvents(AllBlocks)
         /\ last' = "cut" =>
              output' = SubSeq(TailEvents(AllBlocks), 2, Len(TailEvents(AllBlocks)))
         /\ jobs' = FlushedOriginals(AllBlocks) \o EndJobs
         /\ FlushedOriginals(AllBlocks) \in Seq(JobType)
         /\ \A i \in 1..Len(FlushedOriginals(AllBlocks)) :
              FlushedOriginals(AllBlocks)[i].kind = "original"
         /\ EndJobs \in Seq(JobType) /\ jobs' \in Seq(JobType)
         /\ Flush(AllBlocks)
         /\ UNCHANGED <<turn, sent, buffer, usage, client, stored, recorded, lost>>
<1> DEFINE tails == TailEvents(AllBlocks)
           originals == FlushedOriginals(AllBlocks)
<1>1. /\ phase = "await" /\ phase' = "io" /\ last' \in {"whole", "cut"} /\ Flush(AllBlocks)
      /\ output' = IF last' = "whole" THEN tails ELSE SubSeq(tails, 2, Len(tails))
      /\ UNCHANGED <<turn, sent, buffer, usage, client, stored, recorded, lost>>
  BY DEF Finish
<1>2. AllBlocks \subseteq Slots
  BY AllBlocksAre
<1>3. tails \in Seq(HeldTails(AllBlocks)) /\ HeldTails(AllBlocks) \subseteq EventType
  BY <1>2, TailsAre
<1>4. originals \in Seq(OriginalJobs)
  BY <1>2, FlushedOriginalsAre
<1> HIDE DEF tails
<1>5. output' \in Seq(HeldTails(AllBlocks))
  <2>1. SubSeq(tails, 2, Len(tails)) \in Seq(HeldTails(AllBlocks))
    BY <1>3
  <2>2. QED
    BY <1>1, <1>3, <2>1
<1>6. output' \in Seq(EventType)
  BY <1>3, <1>5, SeqMonotonic
<1>7. originals \in Seq(JobType) /\ \A i \in 1..Len(originals) : originals[i].kind = "original"
  <2> HIDE DEF originals
  <2>1. originals \in Seq(JobType)
    BY <1>4, OriginalJobsType, SeqMonotonic
  <2>2. \A i \in 1..Len(originals) : originals[i] \in OriginalJobs
    BY <1>4
  <2>3. QED
    BY <2>1, <2>2, OriginalJobsType
<1>8. EndJobs \in Seq(JobType)
  BY EndJobsType
<1>9. jobs' = originals \o EndJobs
  <2> DEFINE x == IF usage THEN <<Job("cost", <<>>)>> ELSE <<>>
             y == <<Job("health", AssistantText)>>
             z == IF Silent /\ ~turn.receipts THEN <<>> ELSE <<Job("transcript", AssistantText)>>
  <2>1. jobs' = originals \o x \o y \o z
    BY DEF Finish
  <2>2. EndJobs = x \o y \o z
    BY DEF EndJobs
  <2>3. x \in Seq(JobType) /\ y \in Seq(JobType) /\ z \in Seq(JobType)
    <3>1. AssistantText \in [Slots -> Seq(Token)] /\ <<>> \in Seq(Token)
      BY EndJobsType, EmptySeq
    <3>2. /\ Job("cost", <<>>) \in JobType /\ Job("health", AssistantText) \in JobType
          /\ Job("transcript", AssistantText) \in JobType
      BY <3>1 DEF Job, JobType
    <3>3. /\ <<Job("cost", <<>>)>> \in Seq(JobType) /\ <<Job("health", AssistantText)>> \in Seq(JobType)
          /\ <<Job("transcript", AssistantText)>> \in Seq(JobType) /\ <<>> \in Seq(JobType)
      BY <3>2
    <3>4. QED
      BY <3>3
  <2> HIDE DEF originals, x, y, z
  <2>4. originals \o x \o y \o z = originals \o (x \o y \o z)
    BY <1>7, <2>3
  <2>5. QED
    BY <2>1, <2>2, <2>4
<1>10. jobs' \in Seq(JobType)
  <2> HIDE DEF originals
  <2>1. QED
    BY <1>7, <1>8, <1>9, ConcatProperties
<1>11. QED
  BY <1>1, <1>5, <1>6, <1>7, <1>8, <1>9, <1>10 DEF tails

LEMMA FinishFormed ==
  ASSUME Formed, Phased, Finish
  PROVE  Formed' /\ Phased'
<1>1. /\ phase = "await" /\ phase' = "io" /\ last' \in {"whole", "cut"}
      /\ output' \in Seq(EventType) /\ jobs' \in Seq(JobType) /\ Flush(AllBlocks)
      /\ UNCHANGED <<turn, sent, buffer, usage, client, stored, recorded, lost>>
  BY FinishIs
<1>2. /\ block' \in [Slots -> BlockType]
      /\ \A b \in Slots : /\ block'[b].given = block[b].given
                          /\ block'[b].shown <= Len(block[b].given)
  BY <1>1, AllBlocksAre, FlushIs
<1>3. Formed'
  BY <1>1, <1>2 DEF Formed
<1>4. Phased'
  BY <1>1 DEF Phased
<1>5. QED
  BY <1>3, <1>4

LEMMA RunJobIs ==
  ASSUME Formed, RunJob
  PROVE  /\ phase \in {"io", "cancelled"} /\ jobs # <<>>
         /\ Head(jobs) \in JobType /\ Tail(jobs) \in Seq(JobType) /\ jobs' = Tail(jobs)
         /\ jobs = <<Head(jobs)>> \o Tail(jobs)
         /\ \/ /\ Head(jobs).kind = "original" /\ recorded' = recorded
               /\ stored' = stored \union {Head(jobs).text}
            \/ /\ Head(jobs).kind # "original" /\ stored' = stored
               /\ recorded' = recorded \o <<Head(jobs)>>
         /\ recorded' \in Seq(JobType)
         /\ UNCHANGED <<stream, phase, last, client, lost>>
<1>1. /\ phase \in {"io", "cancelled"} /\ jobs # <<>> /\ jobs' = Tail(jobs)
      /\ IF Head(jobs).kind = "original"
           THEN stored' = stored \union {Head(jobs).text} /\ UNCHANGED recorded
           ELSE recorded' = Append(recorded, Head(jobs)) /\ UNCHANGED stored
      /\ UNCHANGED <<stream, phase, last, client, lost>>
  BY DEF RunJob
<1>2. jobs \in Seq(JobType) /\ recorded \in Seq(JobType)
  BY DEF Formed
<1>3. /\ Head(jobs) \in JobType /\ Head(jobs) = jobs[1] /\ 1 \in 1..Len(jobs)
      /\ Tail(jobs) \in Seq(JobType) /\ Len(Tail(jobs)) = Len(jobs) - 1
      /\ \A i \in 1..Len(Tail(jobs)) : Tail(jobs)[i] = jobs[i + 1] /\ i + 1 \in 1..Len(jobs)
  BY <1>1, <1>2, HeadTailProperties
<1>4. Append(recorded, Head(jobs)) = recorded \o <<Head(jobs)>>
  BY <1>2, <1>3, AppendIsConcat, Zenon
<1>5. jobs = <<Head(jobs)>> \o Tail(jobs)
  <2> DEFINE x == <<Head(jobs)>>
             y == Tail(jobs)
             z == jobs
  <2>1. /\ x \in Seq(JobType) /\ y \in Seq(JobType) /\ z \in Seq(JobType)
        /\ Len(z) = Len(x) + Len(y)
        /\ \A i \in 1..Len(x) : z[i] = x[i]
        /\ \A i \in 1..Len(y) : z[Len(x) + i] = y[i]
    BY <1>2, <1>3
  <2> HIDE DEF x, y, z
  <2>2. z = x \o y
    BY <2>1, JoinIs, Zenon
  <2>3. QED
    BY <2>2, Zenon DEF x, y, z
<1>6. Append(recorded, Head(jobs)) \in Seq(JobType)
  BY <1>2, <1>3, AppendProperties
<1>7. recorded' \in Seq(JobType)
  BY <1>1, <1>2, <1>6
<1>8. \/ /\ Head(jobs).kind = "original" /\ recorded' = recorded
         /\ stored' = stored \union {Head(jobs).text}
      \/ /\ Head(jobs).kind # "original" /\ stored' = stored
         /\ recorded' = recorded \o <<Head(jobs)>>
  BY <1>1, <1>4, Zenon
<1>9. QED
  BY <1>1, <1>3, <1>5, <1>7, <1>8

(* The jobs split where a write was lost.                                  *)
LEMMA LoseJobIs ==
  ASSUME Formed, LoseJob
  PROVE  /\ phase \in {"io", "cancelled"}
         /\ jobs' \in Seq(JobType)
         /\ \E gone \in Seq(JobType) : jobs = gone \o jobs' /\ lost' = lost \union Range(gone)
         /\ lost' \subseteq JobType
         /\ UNCHANGED <<stream, phase, last, client, stored, recorded>>
<1>1. /\ phase \in {"io", "cancelled"} /\ jobs # <<>>
      /\ UNCHANGED <<stream, phase, last, client, stored, recorded>>
  BY DEF LoseJob
<1>2. PICK n \in {1, Len(jobs)} :
        /\ lost' = lost \union {jobs[i] : i \in 1..n}
        /\ jobs' = SubSeq(jobs, n + 1, Len(jobs))
  BY DEF LoseJob
<1>3. jobs \in Seq(JobType) /\ lost \subseteq JobType
  BY DEF Formed
<1>4. Len(jobs) \in Nat /\ n \in 1..Len(jobs)
  BY <1>1, <1>3, EmptySeq
<1> DEFINE gone == SubSeq(jobs, 1, n)
           rest == SubSeq(jobs, n + 1, Len(jobs))
<1>5. /\ gone \in Seq(JobType) /\ Len(gone) = n /\ \A i \in 1..n : gone[i] = jobs[i]
      /\ rest \in Seq(JobType) /\ Len(rest) = Len(jobs) - n
      /\ \A i \in 1..(Len(jobs) - n) : rest[i] = jobs[n + i]
  BY <1>3, <1>4
<1> HIDE DEF gone, rest
<1>6. jobs = gone \o rest
  <2> DEFINE z == jobs
  <2>1. /\ z \in Seq(JobType) /\ Len(z) = Len(gone) + Len(rest)
        /\ \A i \in 1..Len(gone) : z[i] = gone[i]
        /\ \A i \in 1..Len(rest) : z[Len(gone) + i] = rest[i]
    <3>1. Len(jobs) \in Nat /\ n \in Nat /\ n + (Len(jobs) - n) = Len(jobs)
      BY <1>4
    <3>2. Len(z) = Len(gone) + Len(rest)
      BY <1>5, <3>1
    <3>3. \A i \in 1..Len(rest) : z[Len(gone) + i] = rest[i]
      BY <1>5
    <3>4. QED
      BY <1>3, <1>5, <3>2, <3>3
  <2> HIDE DEF z
  <2>2. z = gone \o rest
    BY <1>5, <2>1, JoinIs, Zenon
  <2>3. QED
    BY <2>2, Zenon DEF z
<1>7. Range(gone) = {gone[i] : i \in 1..Len(gone)}
  BY <1>5, RangeEquality
<1>8. Range(gone) = {jobs[i] : i \in 1..n}
  BY <1>5, <1>7
<1>9. jobs' = rest
  BY <1>2 DEF rest
<1>10. lost' = lost \union Range(gone)
  BY <1>2, <1>8
<1>11. Range(gone) \subseteq JobType
  BY <1>5, RangeOfSeq
<1>12. QED
  BY <1>1, <1>3, <1>5, <1>6, <1>9, <1>10, <1>11

LEMMA IoFormed ==
  ASSUME Formed, Phased, RunJob \/ LoseJob \/ Yield \/ Abort \/ Cancel \/ UNCHANGED vars
  PROVE  Formed' /\ Phased'
<1>1. CASE RunJob
  <2>1. /\ phase \in {"io", "cancelled"} /\ jobs' \in Seq(JobType) /\ recorded' \in Seq(JobType)
        /\ UNCHANGED <<stream, phase, last, client, lost>>
    BY <1>1, RunJobIs
  <2>2. QED
    BY <2>1 DEF Formed, Phased, stream
<1>2. CASE LoseJob
  <2>1. /\ phase \in {"io", "cancelled"} /\ jobs' \in Seq(JobType) /\ lost' \subseteq JobType
        /\ UNCHANGED <<stream, phase, last, client, stored, recorded>>
    BY <1>2, LoseJobIs
  <2>2. QED
    BY <2>1 DEF Formed, Phased, stream
<1>3. CASE Yield
  <2>1. client' \in Seq(EventType)
    <3>1. client \in Seq(EventType) /\ output \in Seq(EventType) /\ client' = client \o output
      BY <1>3 DEF Formed, Yield
    <3>2. QED
      BY <3>1, ConcatProperties
  <2>2. output' \in Seq(EventType) /\ output' = <<>>
    BY <1>3, EmptySeq DEF Yield
  <2>3. Formed'
    BY <1>3, <2>1, <2>2 DEF Formed, Yield
  <2>4. Phased'
    BY <1>3, <2>2 DEF Phased, Yield, Formed
  <2>5. QED
    BY <2>3, <2>4
<1>4. CASE Abort
  BY <1>4 DEF Formed, Phased, Abort, stream
<1>5. CASE Cancel
  <2>1. output' \in Seq(EventType) /\ output' = <<>>
    BY <1>5, EmptySeq DEF Cancel
  <2>2. QED
    BY <1>5, <2>1 DEF Formed, Phased, Cancel
<1>6. CASE UNCHANGED vars
  BY <1>6 DEF Formed, Phased, vars, stream, driver
<1>7. QED
  BY <1>1, <1>2, <1>3, <1>4, <1>5, <1>6

(* The first two parts are inductive by themselves.                        *)
LEMMA StepFormed ==
  ASSUME Formed, Phased, [Next]_vars
  PROVE  Formed' /\ Phased'
BY ReceiveFormed, TransformFormed, FinishFormed, IoFormed DEF Next

LEMMA FormedTypeOK ==
  ASSUME Formed, Phased
  PROVE  TypeOK
<1>1. \A event \in EventType : IsEvent(event)
  BY DEF EventType, IsEvent
<1>2. \A events \in {sent, buffer, output, client} :
        \A i \in 1..Len(events) : IsEvent(events[i])
  BY <1>1 DEF Formed
<1>3. \A b \in Slots :
        /\ block[b].flushed \in BOOLEAN
        /\ block[b].shown \in 0..Len(block[b].given)
        /\ turn.provider = "openai" /\ b # 0 => block[b].given = <<>>
  BY BlockParts DEF Formed
<1>4. QED
  BY <1>2, <1>3 DEF TypeOK, Formed, Phased

(* Every event, block, job and record is of its type, and nothing waits in *)
(* the decoder's buffer, its output or the queue of writes in a phase of   *)
(* streaming_response that does not expect it.                             *)
THEOREM TypeCorrect == Spec => []TypeOK
<1>1. Init => Formed /\ Phased
  BY InitFormed
<1>2. Formed /\ Phased /\ [Next]_vars => Formed' /\ Phased'
  BY StepFormed
<1>3. Formed /\ Phased => TypeOK
  BY FormedTypeOK
<1>4. QED
  BY <1>1, <1>2, <1>3, PTL DEF Spec

----------------------------------------------------------------------------
(* The order of events *)

FrontOf(s, u) == SubSeq(s, 1, Len(s) - Len(u))

(* What is left of a sequence without its end                              *)
LEMMA FrontIs ==
  ASSUME NEW S, NEW t \in Seq(S), NEW u \in Seq(S), NEW s, IsJoin(s, t, u)
  PROVE  /\ FrontOf(s, u) = t
         /\ Len(u) <= Len(s) /\ s \in Seq(S)
<1>1. /\ s \in Seq(S) /\ Len(s) = Len(t) + Len(u) /\ Len(t) \in Nat /\ Len(u) \in Nat
      /\ \A i \in 1..Len(t) : s[i] = t[i]
  BY Joined DEF IsJoin
<1>2. Len(s) - Len(u) = Len(t) /\ Len(u) <= Len(s)
  BY <1>1
<1>3. SubSeq(s, 1, Len(t)) = t
  BY <1>1
<1>4. QED
  BY <1>1, <1>2, <1>3 DEF FrontOf

LEMMA TransformedIs ==
  ASSUME Formed, NEW front \in Seq(EventType), Splits(front)
  PROVE  Transformed = front /\ Len(buffer) <= Len(sent)
<1>1. buffer \in Seq(EventType)
  BY DEF Formed
<1>2. QED
  BY <1>1, FrontIs DEF Splits, Transformed, FrontOf

LEMMA TransformedType ==
  ASSUME Formed, Ordered
  PROVE  /\ Transformed \in Seq(EventType) /\ Emitted \in Seq(EventType)
         /\ Original(Emitted) \in Seq(EventType)
         /\ buffer = <<>> => Transformed = sent
<1>1. sent \in Seq(EventType) /\ buffer \in Seq(EventType)
      /\ client \in Seq(EventType) /\ output \in Seq(EventType)
  BY DEF Formed
<1>2. Len(sent) - Len(buffer) \in 0..Len(sent)
  <2>1. Len(sent) \in Nat /\ Len(buffer) \in Nat
    BY <1>1
  <2>2. Len(buffer) <= Len(sent)
    BY DEF Ordered
  <2>3. QED
    BY <2>1, <2>2
<1>3. Transformed \in Seq(EventType)
  BY <1>1, <1>2 DEF Transformed
<1>4. Emitted \in Seq(EventType)
  BY <1>1, ConcatProperties DEF Emitted
<1>5. ASSUME buffer = <<>> PROVE Transformed = sent
  <2>1. Len(sent) \in Nat /\ Len(buffer) = 0
    BY <1>1, <1>5
  <2>2. SubSeq(sent, 1, Len(sent)) = sent
    BY <1>1, SubSeqFull
  <2>3. Len(sent) - Len(buffer) = Len(sent)
    BY <2>1
  <2>4. QED
    BY <2>2, <2>3 DEF Transformed
<1>6. QED
  BY <1>3, <1>4, <1>5, OriginalType

(* Streams of the same events, one after the other                         *)
LEMMA SameJoin ==
  ASSUME NEW a \in Seq(EventType), NEW b \in Seq(EventType),
         NEW c \in Seq(EventType), NEW d \in Seq(EventType), Same(a, b), Same(c, d)
  PROVE  Same(a \o c, b \o d)
<1> DEFINE x == a \o c
           y == b \o d
<1>1. /\ Len(x) = Len(a) + Len(c) /\ Len(a) \in Nat /\ Len(c) \in Nat
      /\ \A i \in 1..Len(a) : x[i] = a[i]
      /\ \A i \in 1..Len(x) : i \notin 1..Len(a) => i - Len(a) \in 1..Len(c) /\ x[i] = c[i - Len(a)]
  BY Joined
<1>2. /\ Len(y) = Len(b) + Len(d)
      /\ \A i \in 1..Len(b) : y[i] = b[i]
      /\ \A i \in 1..Len(y) : i \notin 1..Len(b) => y[i] = d[i - Len(b)]
  BY Joined
<1>3. Len(a) = Len(b) /\ Len(c) = Len(d)
  BY DEF Same
<1> HIDE DEF x, y
<1>4. ASSUME NEW i \in 1..Len(x) PROVE Bare(x[i]) = Bare(y[i])
  <2>1. CASE i \in 1..Len(a)
    BY <1>1, <1>2, <1>3, <2>1 DEF Same
  <2>2. CASE i \notin 1..Len(a)
    <3> DEFINE k == i - Len(a)
    <3>1. k \in 1..Len(c) /\ x[i] = c[k] /\ y[i] = d[k]
      BY <1>1, <1>2, <1>3, <2>2
    <3> HIDE DEF k
    <3>2. QED
      BY <3>1 DEF Same
  <2>3. QED
    BY <2>1, <2>2
<1>5. QED
  BY <1>1, <1>2, <1>3, <1>4 DEF Same, x, y

(* When nothing waits, what the client has is what was sent.               *)
LEMMA AllArrived ==
  ASSUME Formed, Ordered, buffer = <<>>, output = <<>>, phase # "cancelled"
  PROVE  ArrivalOrder
<1>1. /\ Transformed = sent /\ client \in Seq(EventType) /\ sent \in Seq(EventType)
  BY TransformedType DEF Formed
<1>2. Emitted = client
  BY <1>1, ConcatEmptySeq DEF Emitted
<1>3. Same(Forwarded, sent)
  BY <1>1, <1>2 DEF Ordered, Forwarded
<1>4. \A i \in 1..Len(client) : client[i].from = 0 => client[i].kind = "text" /\ ~client[i].ends
  BY <1>1 DEF EventType
<1>5. Len(sent) \in Nat
  BY <1>1
<1>6. QED
  BY <1>3, <1>4, <1>5 DEF ArrivalOrder, Same, Bare

LEMMA InitOrdered ==
  ASSUME Init, Formed
  PROVE  Ordered /\ ArrivalOrder
<1>1. /\ sent = <<>> /\ buffer = <<>> /\ client = <<>> /\ output = <<>> /\ phase = "await"
  BY DEF Init
<1>2. <<>> \in Seq(EventType) /\ <<>> \o <<>> = <<>>
  BY EmptySeq, ConcatEmptySeq
<1>3. Splits(<<>>)
  BY <1>1, <1>2 DEF Splits, IsJoin
<1>4. Transformed = <<>> /\ Len(buffer) <= Len(sent)
  BY <1>2, <1>3, TransformedIs
<1>5. Original(Emitted) = <<>>
  BY <1>1, <1>2, OriginalEmpty DEF Emitted
<1>6. Ordered
  BY <1>1, <1>3, <1>4, <1>5 DEF Ordered, Same
<1>7. QED
  BY <1>1, <1>6, AllArrived

LEMMA ReceiveOrdered ==
  ASSUME Formed, Phased, Ordered, ArrivalOrder, Receive
  PROVE  Ordered' /\ ArrivalOrder' /\ Transformed' = sent /\ Transformed = sent
<1>1. /\ phase = "await" /\ phase' = "transform" /\ sent' = sent \o buffer'
      /\ buffer' \in Seq(EventType)
      /\ \A i \in 1..Len(buffer') : buffer'[i].from = Len(sent) + i
      /\ UNCHANGED <<turn, block, usage, output, jobs, last, client, stored, recorded, lost>>
  BY ReceiveIs
<1>2. Formed'
  BY ReceiveFormed
<1>3. buffer = <<>> /\ sent \in Seq(EventType)
  BY <1>1 DEF Phased, Formed
<1>4. Transformed = sent
  BY <1>3, TransformedType
<1>6. Transformed' = sent /\ (Len(buffer) <= Len(sent))'
  <2>1. buffer' \in Seq(EventType) /\ sent' = sent \o buffer'
    BY <1>1
  <2>2. IsJoin(sent', sent, buffer')
    BY <2>1 DEF IsJoin
  <2>3. FrontOf(sent', buffer') = sent /\ Len(buffer') <= Len(sent')
    BY <1>3, <2>1, <2>2, FrontIs
  <2>4. QED
    BY <2>3 DEF Transformed, FrontOf
<1>7. Splits(Transformed)'
  BY <1>1, <1>6 DEF Splits, IsJoin
<1>8. Emitted' = Emitted
  BY <1>1 DEF Emitted
<1>9. /\ Len(sent') = Len(sent) + Len(buffer') /\ Len(sent) \in Nat /\ Len(buffer') \in Nat
      /\ \A i \in 1..Len(sent) : sent'[i] = sent[i]
      /\ \A i \in 1..Len(sent') :
           i \notin 1..Len(sent) => i - Len(sent) \in 1..Len(buffer') /\ sent'[i] = buffer'[i - Len(sent)]
  BY <1>1, <1>3, Joined
<1>10. \A j \in 1..Len(sent') : sent'[j].from = j
  <2>1. TAKE j \in 1..Len(sent')
  <2>2. CASE j \in 1..Len(sent)
    BY <1>9, <2>2 DEF Ordered
  <2>3. CASE j \notin 1..Len(sent)
    <3> DEFINE k == j - Len(sent)
    <3>1. k \in 1..Len(buffer') /\ sent'[j] = buffer'[k] /\ Len(sent) + k = j
      BY <1>9, <2>3
    <3>2. QED
      BY <1>1, <3>1
  <2>4. QED
    BY <2>2, <2>3
<1>11. Ordered'
  <2>1. Same(Original(Emitted), Transformed)'
    BY <1>1, <1>4, <1>6, <1>8 DEF Ordered
  <2>2. QED
    BY <1>6, <1>7, <1>10, <2>1 DEF Ordered
<1>12. ArrivalOrder'
  <2>1. Forwarded' = Forwarded
    BY <1>1 DEF Forwarded
  <2>2. Len(Forwarded) <= Len(sent) /\ Len(Forwarded) \in Nat
    <3>1. client \in Seq(EventType)
      BY DEF Formed
    <3>2. Forwarded \in Seq(EventType)
      BY <3>1, OriginalType DEF Forwarded
    <3>3. QED
      BY <3>2 DEF ArrivalOrder
  <2>3. Len(Forwarded') <= Len(sent')
    BY <1>9, <2>1, <2>2
  <2>4. \A i \in 1..Len(Forwarded') :
          [Forwarded'[i] EXCEPT !.text = <<>>] = [sent'[i] EXCEPT !.text = <<>>]
    <3>1. \A i \in 1..Len(Forwarded) : i \in 1..Len(sent)
      BY <1>9, <2>2
    <3>2. QED
      BY <1>9, <2>1, <3>1 DEF ArrivalOrder
  <2>5. QED
    BY <1>1, <2>3, <2>4 DEF ArrivalOrder
<1>13. QED
  BY <1>4, <1>6, <1>11, <1>12

(* A record comes out as itself, whatever the proxy adds.                  *)
LEMMA TransformOrdered ==
  ASSUME Formed, Phased, Ordered, ArrivalOrder, Transform
  PROVE  /\ Ordered' /\ ArrivalOrder'
         /\ Transformed' = Transformed \o <<Head(buffer)>>
<1> DEFINE event == Head(buffer)
<1>1. /\ phase = "transform" /\ phase' = (IF buffer' = <<>> THEN "io" ELSE "transform")
      /\ event \in EventType /\ buffer' \in Seq(EventType)
      /\ buffer = <<event>> \o buffer'
      /\ UNCHANGED <<turn, sent, last, client, stored, recorded, lost>>
  BY TransformIs
<1>2. PICK added, more : Effect(event, added, more)
  BY TransformIs
<1>3. Formed'
  BY TransformFormed
<1>4. /\ Transformed \in Seq(EventType) /\ client \in Seq(EventType) /\ output \in Seq(EventType)
      /\ Emitted \in Seq(EventType) /\ Original(Emitted) \in Seq(EventType)
  BY TransformedType DEF Formed
<1> HIDE DEF event
<1>5. <<event>> \in Seq(EventType)
  BY <1>1
<1> DEFINE front == Transformed \o <<event>>
<1>6. front \in Seq(EventType)
  BY <1>4, <1>5, ConcatProperties
<1>7. sent' = front \o buffer'
  <2> DEFINE t == Transformed
             u == <<event>>
             v == buffer'
  <2>1. t \in Seq(EventType) /\ u \in Seq(EventType) /\ v \in Seq(EventType)
    BY <1>1, <1>4, <1>5
  <2>2. sent' = t \o (u \o v)
    BY <1>1, Zenon DEF Ordered, Splits, IsJoin
  <2> HIDE DEF t, u, v
  <2>3. t \o (u \o v) = (t \o u) \o v
    BY <2>1
  <2>4. QED
    BY <2>2, <2>3, Zenon DEF t, u, v
<1> HIDE DEF front
<1>8. Transformed' = front /\ (Len(buffer) <= Len(sent))'
  <2>1. IsJoin(sent', front, buffer')
    BY <1>7 DEF IsJoin
  <2>2. FrontOf(sent', buffer') = front /\ Len(buffer') <= Len(sent')
    BY <1>1, <1>6, <2>1, FrontIs
  <2>3. QED
    BY <2>2 DEF Transformed, FrontOf
<1>9. Splits(Transformed)'
  BY <1>7, <1>8, Zenon DEF Splits, IsJoin
<1>10. /\ added \in Seq(EventType) /\ output' = output \o added /\ Same(Original(added), <<event>>)
  BY <1>2 DEF Effect
<1>11. Emitted' = Emitted \o added
  <2>1. Emitted' = client \o (output \o added)
    BY <1>1, <1>10, Zenon DEF Emitted
  <2>2. client \o (output \o added) = (client \o output) \o added
    BY <1>4, <1>10
  <2>3. QED
    BY <2>1, <2>2, Zenon DEF Emitted
<1>12. Original(Emitted') = Original(Emitted) \o Original(added)
  BY <1>4, <1>10, <1>11, OriginalJoin
<1>13. Same(Original(Emitted), Transformed)'
  <2>1. Same(Original(Emitted), Transformed)
    BY <1>1 DEF Ordered
  <2>2. Original(added) \in Seq(EventType)
    BY <1>10, OriginalType
  <2>3. Same(Original(Emitted) \o Original(added), Transformed \o <<event>>)
    BY <1>4, <1>5, <1>10, <2>1, <2>2, SameJoin
  <2>4. QED
    BY <1>8, <1>12, <2>3 DEF front
<1>14. Ordered'
  BY <1>1, <1>8, <1>9, <1>13 DEF Ordered
<1>15. ArrivalOrder'
  BY <1>1 DEF ArrivalOrder, Forwarded
<1>16. QED
  BY <1>8, <1>14, <1>15, Zenon DEF event, front

LEMMA FinishOrdered ==
  ASSUME Formed, Phased, Ordered, ArrivalOrder, Finish
  PROVE  /\ Ordered' /\ ArrivalOrder' /\ Transformed' = sent /\ Transformed = sent
         /\ Emitted' = Emitted \o output'
<1>1. /\ phase = "await" /\ phase' = "io" /\ output' \in Seq(HeldTails(AllBlocks))
      /\ UNCHANGED <<turn, sent, buffer, usage, client, stored, recorded, lost>>
  BY FinishIs
<1>2. buffer = <<>> /\ output = <<>>
  BY <1>1 DEF Phased
<1>3. /\ Transformed = sent /\ client \in Seq(EventType) /\ Transformed \in Seq(EventType)
  BY <1>2, TransformedType DEF Formed
<1>4. Emitted = client
  BY <1>2, <1>3, ConcatEmptySeq DEF Emitted
<1>5. output' \in Seq(EventType) /\ Original(output') = <<>>
  BY <1>1, AllBlocksAre, TailsPlain
<1>6. Emitted' = client \o output'
  BY <1>1 DEF Emitted
<1>7. Original(Emitted') = Original(Emitted)
  <2>1. Original(Emitted') = Original(client) \o Original(output')
    BY <1>3, <1>5, <1>6, OriginalJoin
  <2>2. Original(client) \in Seq(EventType)
    BY <1>3, OriginalType
  <2>3. QED
    BY <1>4, <1>5, <2>1, <2>2, ConcatEmptySeq
<1>8. Transformed' = Transformed
  BY <1>1 DEF Transformed
<1>9. Ordered'
  BY <1>1, <1>7, <1>8 DEF Ordered, Splits
<1>10. ArrivalOrder'
  BY <1>1 DEF ArrivalOrder, Forwarded
<1>11. QED
  BY <1>3, <1>4, <1>6, <1>8, <1>9, <1>10

LEMMA YieldOrdered ==
  ASSUME Formed, Phased, Ordered, ArrivalOrder, Yield
  PROVE  /\ Ordered' /\ ArrivalOrder' /\ Transformed' = sent /\ Transformed = sent
         /\ Emitted' = Emitted /\ client' = Emitted
<1>1. /\ phase = "io" /\ jobs = <<>> /\ client' = client \o output /\ output' = <<>>
      /\ phase' = IF last = "no" THEN "await" ELSE "done"
      /\ UNCHANGED <<turn, sent, buffer, block, usage, jobs, last, stored, recorded, lost>>
  BY DEF Yield
<1>2. Formed' /\ buffer = <<>>
  BY <1>1, IoFormed DEF Phased
<1>3. Transformed = sent /\ Emitted \in Seq(EventType)
  BY <1>2, TransformedType
<1>4. client' = Emitted
  BY <1>1 DEF Emitted
<1>5. Emitted' = Emitted
  BY <1>1, <1>3, <1>4, ConcatEmptySeq DEF Emitted
<1>6. Transformed' = Transformed
  BY <1>1 DEF Transformed
<1>7. Ordered'
  BY <1>1, <1>5, <1>6 DEF Ordered, Splits
<1>8. (buffer = <<>> /\ output = <<>> /\ phase # "cancelled")'
  BY <1>1, <1>2
<1>9. ArrivalOrder'
  <2>1. (Formed /\ Ordered /\ buffer = <<>> /\ output = <<>> /\ phase # "cancelled" => ArrivalOrder)'
    BY AllArrived, PTL
  <2>2. QED
    BY <1>2, <1>7, <1>8, <2>1
<1>10. QED
  BY <1>3, <1>4, <1>5, <1>6, <1>7, <1>9

(* Ordered and ArrivalOrder are inductive, given the first two.            *)
LEMMA StepOrdered ==
  ASSUME Formed, Phased, Ordered, ArrivalOrder, [Next]_vars
  PROVE  Ordered' /\ ArrivalOrder'
<1>1. CASE Receive
  BY <1>1, ReceiveOrdered
<1>2. CASE Transform
  BY <1>2, TransformOrdered
<1>3. CASE Finish
  BY <1>3, FinishOrdered
<1>4. CASE Yield
  BY <1>4, YieldOrdered
<1>5. CASE Cancel
  <2>1. phase \in {"await", "io"} /\ phase' = "cancelled" /\ UNCHANGED <<sent, buffer, client>>
    BY <1>5 DEF Cancel
  <2>2. QED
    BY <2>1 DEF Ordered, ArrivalOrder, Forwarded, Splits, Transformed
<1>6. CASE RunJob \/ LoseJob \/ UNCHANGED vars
  <2>1. UNCHANGED <<sent, buffer, output, client, phase>>
    BY <1>6 DEF RunJob, LoseJob, vars, stream, driver
  <2>2. QED
    BY <2>1 DEF Ordered, ArrivalOrder, Forwarded, Splits, Transformed, Emitted
<1>7. CASE Abort
  <2>1. phase = "await" /\ phase' = "aborted" /\ UNCHANGED <<sent, buffer, output, client>>
    BY <1>7 DEF Abort, stream
  <2>2. QED
    BY <2>1 DEF Ordered, ArrivalOrder, Forwarded, Splits, Transformed, Emitted
<1>8. QED
  BY <1>1, <1>2, <1>3, <1>4, <1>5, <1>6, <1>7 DEF Next

(* Events reach the client in arrival order, each once, and none waits     *)
(* once its chunk is done with, whatever transform_record makes of their   *)
(* text and however many choices share a decoder; what the proxy adds is   *)
(* text only.                                                              *)
THEOREM KeepsOrder == Spec => []ArrivalOrder
<1>1. Init => Formed /\ Phased /\ Ordered /\ ArrivalOrder
  BY InitFormed, InitOrdered
<1>2. Formed /\ Phased /\ Ordered /\ ArrivalOrder /\ [Next]_vars =>
        Formed' /\ Phased' /\ Ordered' /\ ArrivalOrder'
  BY StepFormed, StepOrdered
<1>3. QED
  BY <1>1, <1>2, PTL DEF Spec

----------------------------------------------------------------------------
(* What the blocks are given, when the choice is one *)

(* What an upstream that keeps to the protocol sends next                  *)
Follows(events, event) ==
  /\ event.slot \in AllBlocks
  /\ event.kind # "text" => event.text = <<>>
  /\ event.ends => event.kind = "text"
  /\ event.kind \in {"text", "stop"} => ~Ended(events, event.slot)

(* An upstream that kept to the protocol keeps to it.                      *)
LEMMA LawfulOne ==
  ASSUME NEW events \in Seq(EventType), Lawful(events),
         NEW event \in EventType, Follows(events, event)
  PROVE  Lawful(events \o <<event>>)
<1> DEFINE more == events \o <<event>>
           n == Len(events)
<1>1. <<event>> \in Seq(EventType)
  OBVIOUS
<1>2. /\ Len(more) = n + 1 /\ n \in Nat /\ more[n + 1] = event
      /\ \A i \in 1..n : more[i] = events[i]
  BY <1>1
<1>3. \A i \in 1..n : event.kind \in {"text", "stop"} => ~Closes(events[i], event.slot)
  BY EndedIs DEF Follows
<1> HIDE DEF more
<1>4. ASSUME NEW j \in 1..Len(more)
      PROVE  /\ more[j].slot \in AllBlocks
             /\ more[j].kind # "text" => more[j].text = <<>>
             /\ more[j].ends => more[j].kind = "text"
             /\ \A i \in 1..(j - 1) :
                  more[j].kind \in {"text", "stop"} => ~Closes(more[i], more[j].slot)
  <2>1. CASE j = n + 1
    BY <1>2, <1>3, <2>1 DEF Follows
  <2>2. CASE j \in 1..n
    <3>1. \A i \in 1..(j - 1) : i \in 1..n
      BY <1>2, <2>2
    <3>2. QED
      BY <1>2, <2>2, <3>1 DEF Lawful
  <2>3. QED
    BY <1>2, <2>1, <2>2
<1>5. QED
  BY <1>4 DEF Lawful, more

LEMMA UpcomingFollows ==
  ASSUME Formed, OneChoice, NEW events \in Seq(EventType), Len(events) < MaxEvents,
         NEW event \in Upcoming(events)
  PROVE  event \in EventType /\ Follows(events, event)
<1>1. /\ event \in EventType
      /\ event.slot \in {0} \union (IF turn.provider = "openai" THEN ChoiceSlots ELSE Slots)
      /\ event.kind \in {"text", "stop"} => ~Ended(events, event.slot)
      /\ event.kind # "text" => event.text = <<>>
      /\ event.ends => event.kind = "text"
  BY UpcomingIs
<1>2. event.slot \in AllBlocks
  BY <1>1, SseAssumption DEF OneChoice, AllBlocks
<1>3. QED
  BY <1>1, <1>2 DEF Follows

LEMMA ReceiveLawful ==
  ASSUME Formed, OneChoice, Lawful(sent), Receive
  PROVE  Lawful(sent')
<1>1. /\ sent' = sent \o buffer' /\ sent \in Seq(EventType)
      /\ \/ \E event \in Upcoming(sent) :
                 Len(sent) < MaxEvents /\ buffer' = <<event>>
         \/ \E event \in Upcoming(sent) : \E next \in Upcoming(sent \o <<event>>) :
                 /\ Len(sent) + 1 < MaxEvents /\ sent \o <<event>> \in Seq(EventType)
                 /\ Len(sent \o <<event>>) = Len(sent) + 1
                 /\ buffer' = <<event>> \o <<next>>
  BY ReceiveIs DEF Formed
<1>2. CASE \E event \in Upcoming(sent) : Len(sent) < MaxEvents /\ buffer' = <<event>>
  <2>1. PICK event \in Upcoming(sent) : Len(sent) < MaxEvents /\ buffer' = <<event>>
    BY <1>2
  <2>2. event \in EventType /\ Follows(sent, event)
    BY <1>1, <2>1, UpcomingFollows
  <2>3. Lawful(sent \o <<event>>)
    BY <1>1, <2>2, LawfulOne
  <2>4. QED
    BY <1>1, <2>1, <2>3
<1>3. CASE \E event \in Upcoming(sent) : \E next \in Upcoming(sent \o <<event>>) :
             /\ Len(sent) + 1 < MaxEvents /\ sent \o <<event>> \in Seq(EventType)
             /\ Len(sent \o <<event>>) = Len(sent) + 1
             /\ buffer' = <<event>> \o <<next>>
  <2>1. PICK event \in Upcoming(sent) : \E next \in Upcoming(sent \o <<event>>) :
             /\ Len(sent) + 1 < MaxEvents /\ sent \o <<event>> \in Seq(EventType)
             /\ Len(sent \o <<event>>) = Len(sent) + 1
             /\ buffer' = <<event>> \o <<next>>
    BY <1>3
  <2>2. PICK next \in Upcoming(sent \o <<event>>) :
             /\ Len(sent) + 1 < MaxEvents /\ sent \o <<event>> \in Seq(EventType)
             /\ Len(sent \o <<event>>) = Len(sent) + 1
             /\ buffer' = <<event>> \o <<next>>
    BY <2>1
  <2>3. Len(sent) < MaxEvents
    BY <1>1, <2>2, SseAssumption
  <2>4. event \in EventType /\ Follows(sent, event)
    BY <1>1, <2>3, UpcomingFollows
  <2> DEFINE more == sent \o <<event>>
  <2>5. Lawful(more)
    BY <1>1, <2>4, LawfulOne
  <2>6. more \in Seq(EventType) /\ Len(more) < MaxEvents /\ next \in Upcoming(more)
    BY <2>2
  <2>7. sent' = more \o <<next>>
    <3>1. next \in EventType
      BY <2>6, UpcomingFollows
    <3> DEFINE u == <<event>>
               v == <<next>>
    <3>2. u \in Seq(EventType) /\ v \in Seq(EventType) /\ sent' = sent \o (u \o v)
      BY <1>1, <2>2, <2>4, <3>1
    <3> HIDE DEF u, v
    <3>3. sent \o (u \o v) = (sent \o u) \o v
      BY <1>1, <3>2
    <3>4. QED
      BY <3>2, <3>3, Zenon DEF u, v
  <2> HIDE DEF more
  <2>8. next \in EventType /\ Follows(more, next)
    BY <2>6, UpcomingFollows
  <2>9. Lawful(more \o <<next>>)
    BY <2>5, <2>6, <2>8, LawfulOne
  <2>10. QED
    BY <2>7, <2>9
<1>4. QED
  BY <1>1, <1>2, <1>3

LEMMA AllBlocksKept ==
  ASSUME UNCHANGED turn
  PROVE  /\ AllBlocks' = AllBlocks
         /\ \A events : Lawful(events)' <=> Lawful(events)
BY DEF AllBlocks, Lawful

LEMMA InitGiven ==
  ASSUME Init
  PROVE  Given
<1>1. /\ sent = <<>> /\ buffer = <<>> /\ usage = FALSE /\ last = "no"
      /\ \A b \in Slots : block[b].given = <<>> /\ block[b].flushed = FALSE
  BY DEF Init
<1>2. Transformed = <<>>
  BY <1>1 DEF Transformed
<1>3. Lawful(sent)
  BY <1>1 DEF Lawful
<1>4. KindsOf(Transformed) = {}
  BY <1>2 DEF KindsOf
<1>5. QED
  BY <1>1, <1>2, <1>3, <1>4, TextOfEmpty, EndedEmpty, AllBlocksAre DEF Given

LEMMA ReceiveGiven ==
  ASSUME Formed, Phased, Ordered, ArrivalOrder, OneChoice, Given, Receive
  PROVE  Given'
<1>1. UNCHANGED <<turn, block, usage, last>> /\ Transformed' = Transformed
  BY ReceiveIs, ReceiveOrdered
<1>2. Lawful(sent)'
  <2>1. Lawful(sent')
    BY ReceiveLawful DEF Given
  <2>2. QED
    BY <1>1, <2>1 DEF Lawful, AllBlocks
<1>3. AllBlocks' = AllBlocks
  BY <1>1 DEF AllBlocks
<1>4. QED
  BY <1>1, <1>2, <1>3 DEF Given

(* A text record never comes to a block that is flushed.                   *)
LEMMA NextOrderly ==
  ASSUME Formed, Phased, Ordered, Given, Transform
  PROVE  Orderly(Head(buffer))
<1> DEFINE event == Head(buffer)
           k == Len(Transformed) + 1
<1>1. /\ phase = "transform" /\ event \in EventType /\ buffer' \in Seq(EventType)
      /\ buffer = <<event>> \o buffer'
  BY TransformIs
<1>2. Transformed \in Seq(EventType) /\ sent = Transformed \o buffer
  BY TransformedType DEF Ordered, Splits, IsJoin
<1> HIDE DEF event
<1>3. <<event>> \in Seq(EventType)
  BY <1>1
<1>4. buffer[1] = event /\ 1 \in 1..Len(buffer) /\ buffer \in Seq(EventType)
  <2>1. 1 \in 1..Len(<<event>>) /\ <<event>>[1] = event
    OBVIOUS
  <2>2. /\ Len(buffer) = Len(<<event>>) + Len(buffer') /\ Len(buffer') \in Nat
        /\ buffer[1] = <<event>>[1] /\ buffer \in Seq(EventType)
    BY <1>1, <1>3, <2>1, Joined
  <2>3. QED
    BY <2>1, <2>2
<1>5. /\ sent[k] = event /\ k \in 1..Len(sent)
      /\ \A i \in 1..Len(Transformed) : sent[i] = Transformed[i] /\ i \in 1..(k - 1)
  <2>1. /\ Len(Transformed) \in Nat
        /\ \A i \in 1..Len(Transformed) : (Transformed \o buffer)[i] = Transformed[i]
        /\ \A i \in 1..Len(buffer) :
             /\ Len(Transformed) + i \in 1..Len(Transformed \o buffer)
             /\ (Transformed \o buffer)[Len(Transformed) + i] = buffer[i]
    BY <1>2, <1>4, Joined
  <2>2. QED
    BY <1>2, <1>4, <2>1
<1>6. /\ event.slot \in AllBlocks /\ event.slot \in Slots
      /\ event.kind # "text" => event.text = <<>>
      /\ event.ends => event.kind = "text"
      /\ event.kind \in {"text", "stop"} =>
           \A i \in 1..(k - 1) : ~Closes(sent[i], event.slot)
  BY <1>5, AllBlocksAre DEF Given, Lawful
<1>7. ASSUME event.kind = "text" PROVE ~block[event.slot].flushed
  <2>1. ~Ended(Transformed, event.slot)
    BY <1>5, <1>6, <1>7, EndedIs
  <2>2. last = "no"
    BY <1>1 DEF Phased
  <2>3. QED
    BY <1>6, <2>1, <2>2 DEF Given
<1>8. QED
  BY <1>6, <1>7 DEF Orderly, Given, event

LEMMA TransformGiven ==
  ASSUME Formed, Phased, Ordered, ArrivalOrder, Given, Transform
  PROVE  Given'
<1> DEFINE event == Head(buffer)
<1>1. event \in EventType /\ UNCHANGED <<turn, sent, last>>
  BY TransformIs
<1>2. PICK added, more : Effect(event, added, more) /\ Flow(event, added, more)
  BY TransformIs, NextOrderly
<1>3. Transformed' = Transformed \o <<event>> /\ Transformed \in Seq(EventType)
  BY TransformOrdered, TransformedType
<1> HIDE DEF event
<1>4. <<event>> \in Seq(EventType)
  BY <1>1
<1>5. Lawful(sent)' /\ AllBlocks' = AllBlocks
  BY <1>1 DEF Given, Lawful, AllBlocks
<1>6. usage' <=> "usage" \in KindsOf(Transformed')
  <2>1. KindsOf(Transformed') = KindsOf(Transformed) \union {event.kind}
    BY <1>3, <1>4, KindsJoin, KindsOne
  <2>2. usage' <=> usage \/ event.kind = "usage"
    BY <1>2 DEF Effect
  <2>3. QED
    BY <2>1, <2>2 DEF Given
<1>7. ASSUME NEW b \in Slots
      PROVE  /\ block'[b].given = TextOf(Transformed', b)
             /\ block'[b].flushed => block'[b].shown = Len(block'[b].given)
  <2>1. TextOf(Transformed', b) = TextOf(Transformed, b) \o TextOf(<<event>>, b)
    BY <1>3, <1>4, TextOfJoin
  <2>2. block'[b].given = block[b].given \o TextOf(<<event>>, b)
    BY <1>2 DEF Flow
  <2>3. block[b].given = TextOf(Transformed, b)
    BY DEF Given
  <2>4. block'[b].given = TextOf(Transformed', b)
    BY <2>1, <2>2, <2>3, Zenon
  <2>5. QED
    BY <1>2, <2>4 DEF Flow
<1>8. \A b \in AllBlocks :
        block'[b].flushed <=> Ended(Transformed', b) \/ last' # "no"
  <2>1. TAKE b \in AllBlocks
  <2>2. Ended(Transformed', b) <=> Ended(Transformed, b) \/ Closes(event, b)
    BY <1>3, <1>4, EndedJoin, EndedOne
  <2>3. block'[b].flushed <=> block[b].flushed \/ Closes(event, b)
    BY <1>2 DEF Flow
  <2>4. QED
    BY <1>1, <2>2, <2>3 DEF Given
<1>9. QED
  BY <1>5, <1>6, <1>7, <1>8 DEF Given

LEMMA FinishGiven ==
  ASSUME Formed, Phased, Ordered, ArrivalOrder, Given, Finish
  PROVE  Given'
<1>1. /\ UNCHANGED <<turn, sent, buffer, usage>> /\ Flush(AllBlocks) /\ last' # "no"
  BY FinishIs
<1>2. \A b \in Slots :
        /\ block'[b].given = block[b].given
        /\ block'[b].shown = IF b \in AllBlocks /\ ~block[b].flushed
                             THEN Len(block[b].given) ELSE block[b].shown
        /\ block'[b].flushed <=> block[b].flushed \/ b \in AllBlocks
  BY <1>1, AllBlocksAre, FlushIs
<1>3. Transformed' = Transformed /\ AllBlocks' = AllBlocks /\ Lawful(sent)'
  BY <1>1 DEF Transformed, AllBlocks, Lawful, Given
<1>4. \A b \in Slots :
        /\ block'[b].given = TextOf(Transformed', b)
        /\ block'[b].flushed => block'[b].shown = Len(block'[b].given)
  BY <1>2, <1>3 DEF Given
<1>5. QED
  BY <1>1, <1>2, <1>3, <1>4, AllBlocksAre DEF Given

(* Given is inductive, given the parts before it.                          *)
LEMMA StepGiven ==
  ASSUME Formed, Phased, Ordered, ArrivalOrder, OneChoice, Given, [Next]_vars
  PROVE  Given'
<1>1. CASE Receive
  BY <1>1, ReceiveGiven
<1>2. CASE Transform
  BY <1>2, TransformGiven
<1>3. CASE Finish
  BY <1>3, FinishGiven
<1>4. CASE RunJob \/ LoseJob \/ Yield \/ Abort \/ Cancel \/ UNCHANGED vars
  <2>1. UNCHANGED <<turn, sent, buffer, block, usage, last>>
    BY <1>4 DEF RunJob, LoseJob, Yield, Abort, Cancel, vars, stream, driver
  <2>2. QED
    BY <2>1 DEF Given, Lawful, AllBlocks, Transformed
<1>5. QED
  BY <1>1, <1>2, <1>3, <1>4 DEF Next

----------------------------------------------------------------------------
(* What comes out of them *)

LEMMA PrefixPart ==
  ASSUME NEW S, NEW g \in Seq(S), NEW n \in 0..Len(g)
  PROVE  IsPrefix(SubSeq(g, 1, n), g)
<1>1. SubSeq(g, 1, n) \in Seq(S) /\ Len(SubSeq(g, 1, n)) = n /\ n \in Nat /\ Len(g) \in Nat
  OBVIOUS
<1>2. SubSeq(SubSeq(g, 1, n), 1, n) = SubSeq(g, 1, n)
  BY <1>1, SubSeqFull
<1>3. QED
  BY <1>1, <1>2 DEF IsPrefix

LEMMA PrefixJoin ==
  ASSUME NEW S, NEW a \in Seq(S), NEW b \in Seq(S), NEW c, IsJoin(c, a, b)
  PROVE  IsPrefix(a, c)
<1>1. /\ c \in Seq(S) /\ Len(c) = Len(a) + Len(b) /\ Len(a) \in Nat /\ Len(b) \in Nat
      /\ \A i \in 1..Len(a) : c[i] = a[i]
  BY Joined DEF IsJoin
<1>2. SubSeq(c, 1, Len(a)) = SubSeq(a, 1, Len(a))
  BY <1>1
<1>3. QED
  BY <1>1, <1>2 DEF IsPrefix

LEMMA PrefixOfPrefix ==
  ASSUME NEW S, NEW a \in Seq(S), NEW b \in Seq(S), NEW c \in Seq(S),
         IsPrefix(a, b), IsPrefix(b, c)
  PROVE  IsPrefix(a, c)
<1>1. /\ Len(a) \in Nat /\ Len(b) \in Nat /\ Len(c) \in Nat
      /\ Len(a) <= Len(b) /\ Len(b) <= Len(c)
      /\ SubSeq(a, 1, Len(a)) = SubSeq(b, 1, Len(a))
      /\ SubSeq(b, 1, Len(b)) = SubSeq(c, 1, Len(b))
  BY DEF IsPrefix
<1>2. \A i \in 1..Len(b) : b[i] = c[i]
  <2> DEFINE x == SubSeq(b, 1, Len(b))
             y == SubSeq(c, 1, Len(b))
  <2>1. x = y
    BY <1>1
  <2>2. \A i \in 1..Len(b) : x[i] = b[i]
    BY <1>1
  <2>3. \A i \in 1..Len(b) : y[i] = c[i]
    BY <1>1
  <2> HIDE DEF x, y
  <2>4. QED
    BY <2>1, <2>2, <2>3
<1>3. SubSeq(b, 1, Len(a)) = SubSeq(c, 1, Len(a))
  BY <1>1, <1>2
<1>4. QED
  BY <1>1, <1>3 DEF IsPrefix

LEMMA PassedIs ==
  Passed <=> (phase # "cancelled" => \A slot \in Slots : ShowsBlock(slot)) /\ AllAtEnd
BY DEF Passed

(* A slot without a block of its own has no text.                          *)
LEMMA SlotsText ==
  ASSUME Formed, Ordered, Given, NEW slot \in Slots
  PROVE  /\ TextOf(Transformed, slot) = block[slot].given
         /\ slot \notin AllBlocks => block[slot].given = <<>> /\ Shown(slot) = <<>>
         /\ Ended(Transformed, slot) \/ last # "no" => Shown(slot) = block[slot].given
         /\ IsPrefix(Shown(slot), block[slot].given)
<1>1. /\ block[slot].given \in Seq(Token) /\ block[slot].shown \in 0..Len(block[slot].given)
  BY BlockParts
<1>2. TextOf(Transformed, slot) = block[slot].given
  BY DEF Given
<1>3. IsPrefix(Shown(slot), block[slot].given)
  BY <1>1, PrefixPart DEF Shown
<1>4. ASSUME slot \notin AllBlocks
      PROVE  block[slot].given = <<>> /\ Shown(slot) = <<>>
  <2>1. turn.provider = "openai" /\ slot # 0
    BY <1>4 DEF AllBlocks
  <2>2. block[slot].given = <<>>
    BY <2>1 DEF Formed
  <2>3. Shown(slot) = <<>>
    <3>1. Shown(slot) = SubSeq(<<>>, 1, block[slot].shown) /\ block[slot].shown = 0
      BY <1>1, <2>2 DEF Shown
    <3>2. QED
      BY <3>1
  <2>4. QED
    BY <2>2, <2>3
<1>5. ASSUME Ended(Transformed, slot) \/ last # "no", slot \in AllBlocks
      PROVE  Shown(slot) = block[slot].given
  <2>1. block[slot].shown = Len(block[slot].given)
    BY <1>5 DEF Given
  <2>2. SubSeq(block[slot].given, 1, Len(block[slot].given)) = block[slot].given
    BY <1>1, SubSeqFull
  <2>3. QED
    BY <2>1, <2>2 DEF Shown
<1>6. QED
  BY <1>2, <1>3, <1>4, <1>5

LEMMA InitPassed ==
  ASSUME Init
  PROVE  Passed
<1>1. /\ sent = <<>> /\ buffer = <<>> /\ client = <<>> /\ output = <<>>
      /\ \A b \in Slots : block[b].given = <<>> /\ block[b].shown = 0
  BY DEF Init
<1>2. Transformed = <<>> /\ Emitted = <<>>
  BY <1>1, ConcatEmptySeq, EmptySeq DEF Transformed, Emitted
<1>3. \A slot \in Slots : Shown(slot) = <<>>
  BY <1>1 DEF Shown
<1>4. IsPrefix(<<>>, <<>>)
  BY DEF IsPrefix
<1>5. \A slot \in Slots : ShowsBlock(slot)
  BY <1>1, <1>2, <1>3, <1>4, TextOfEmpty, EndedEmpty DEF ShowsBlock
<1>6. AllAtEnd
  BY <1>1, EndedEmpty DEF AllAtEnd
<1>7. QED
  BY <1>5, <1>6, PassedIs

(* Nothing of a slot follows its end.                                      *)
LEMMA NothingFollows ==
  ASSUME NEW events \in Seq(EventType), NEW rest \in Seq(EventType),
         Lawful(events \o rest), NEW slot, Ended(events, slot)
  PROVE  TextOf(events \o rest, slot) = TextOf(events, slot)
<1> DEFINE all == events \o rest
           n == Len(events)
<1>1. /\ n \in Nat /\ all \in Seq(EventType) /\ \A i \in 1..n : all[i] = events[i]
      /\ \A i \in 1..Len(rest) : n + i \in 1..Len(all) /\ all[n + i] = rest[i]
  BY Joined
<1>2. PICK e \in 1..n : Closes(events[e], slot)
  BY EndedIs
<1>3. Lawful(all)
  OBVIOUS
<1> HIDE DEF all
<1>4. ASSUME NEW i \in 1..Len(rest) PROVE Texts(rest, slot)[i] = <<>>
  <2>1. /\ rest[i].kind # "text" => rest[i].text = <<>>
        /\ rest[i].kind \in {"text", "stop"} => ~Closes(all[e], rest[i].slot)
    <3>1. n + i \in 1..Len(all) /\ all[n + i] = rest[i] /\ e \in 1..((n + i) - 1)
      BY <1>1, <1>2
    <3>2. QED
      BY <1>3, <3>1 DEF Lawful
  <2>2. all[e] = events[e]
    BY <1>1, <1>2
  <2>3. CASE rest[i].slot = slot
    BY <1>2, <2>1, <2>2, <2>3 DEF Texts
  <2>4. CASE rest[i].slot # slot
    BY <2>4 DEF Texts
  <2>5. QED
    BY <2>3, <2>4
<1>5. TextOf(rest, slot) = <<>>
  <2>1. Texts(rest, slot) \in Seq(Seq(Token)) /\ Len(Texts(rest, slot)) = Len(rest)
    BY TextsType
  <2>2. FlattenSeq(Texts(rest, slot)) = <<>>
    BY <1>4, <2>1, FlattenNothing
  <2>3. QED
    BY <2>2 DEF TextOf, Texts
<1>6. TextOf(all, slot) = TextOf(events, slot) \o TextOf(rest, slot)
  BY TextOfJoin DEF all
<1>7. TextOf(events, slot) \in Seq(Token)
  BY TextOfType
<1>8. QED
  BY <1>5, <1>6, <1>7, ConcatEmptySeq DEF all

(* What the client has while nothing is on its way                         *)
LEMMA Quiet ==
  ASSUME Formed, Phased, Ordered, Given, Passed, phase \in {"await", "done", "aborted"},
         NEW slot \in Slots
  PROVE  /\ Emitted = client /\ Transformed = sent /\ ShowsBlock(slot)
         /\ Ended(client, slot) <=> Ended(sent, slot)
         /\ IsPrefix(TextOf(client, slot), TextOf(sent, slot))
<1>1. buffer = <<>> /\ output = <<>> /\ client \in Seq(EventType)
  BY DEF Phased, Formed
<1>2. Transformed = sent /\ Emitted = client
  BY <1>1, TransformedType, ConcatEmptySeq DEF Emitted
<1>3. ShowsBlock(slot)
  BY PassedIs
<1>4. block[slot].given = TextOf(sent, slot)
  BY <1>2, SlotsText
<1>5. QED
  BY <1>2, <1>3, <1>4 DEF ShowsBlock

LEMMA ReceivePassed ==
  ASSUME Formed, Phased, Ordered, ArrivalOrder, OneChoice, Given, Passed, Receive
  PROVE  Passed'
<1>1. /\ UNCHANGED <<turn, block, usage, last, client, output>> /\ Transformed' = Transformed
      /\ phase = "await" /\ phase' = "transform" /\ Emitted' = Emitted
      /\ sent' = sent \o buffer' /\ buffer' \in Seq(EventType) /\ sent \in Seq(EventType)
  BY ReceiveIs, ReceiveOrdered DEF Emitted, Formed
<1>2. \A slot \in Slots : ShowsBlock(slot)'
  BY <1>1, PassedIs DEF ShowsBlock, Shown
<1>3. Lawful(sent \o buffer')
  BY <1>1, ReceiveLawful DEF Given
<1>4. ASSUME NEW slot \in Slots, Ended(client, slot)
      PROVE  TextOf(client, slot) = TextOf(sent', slot)
  <2>1. Ended(sent, slot)
    BY <1>1, <1>4, Quiet
  <2>2. TextOf(sent', slot) = TextOf(sent, slot)
    BY <1>1, <1>3, <2>1, NothingFollows
  <2>3. QED
    BY <1>4, <2>2, PassedIs DEF AllAtEnd
<1>5. AllAtEnd'
  BY <1>1, <1>4 DEF AllAtEnd
<1>6. QED
  BY <1>2, <1>5 DEF Passed

LEMMA TransformPassed ==
  ASSUME Formed, Phased, Ordered, ArrivalOrder, Given, Passed, Transform
  PROVE  Passed'
<1> DEFINE event == Head(buffer)
<1>1. /\ event \in EventType /\ phase = "transform" /\ UNCHANGED <<turn, sent, last, client>>
  BY TransformIs
<1>2. PICK added, more : Effect(event, added, more) /\ Flow(event, added, more)
  BY TransformIs, NextOrderly
<1>3. Transformed' = Transformed \o <<event>> /\ Transformed \in Seq(EventType)
  BY TransformOrdered, TransformedType
<1> HIDE DEF event
<1>4. <<event>> \in Seq(EventType)
  BY <1>1
<1>5. added \in Seq(EventType) /\ output' = output \o added
  BY <1>2 DEF Effect
<1>6. /\ Emitted \in Seq(EventType) /\ client \in Seq(EventType) /\ output \in Seq(EventType)
  BY TransformedType DEF Formed
<1>7. Emitted' = Emitted \o added
  <2>1. Emitted' = client \o (output \o added)
    BY <1>1, <1>5, Zenon DEF Emitted
  <2>2. client \o (output \o added) = (client \o output) \o added
    BY <1>5, <1>6
  <2>3. QED
    BY <2>1, <2>2, Zenon DEF Emitted
<1>8. last = "no"
  BY <1>1 DEF Phased
<1>9. ASSUME NEW slot \in Slots PROVE ShowsBlock(slot)'
  <2>1. ShowsBlock(slot)
    BY <1>1, PassedIs
  <2>2. Ended(Emitted', slot) <=> Ended(Transformed', slot)
    <3>1. Ended(Emitted', slot) <=> Ended(Emitted, slot) \/ Ended(added, slot)
      BY <1>5, <1>6, <1>7, EndedJoin
    <3>2. Ended(Transformed', slot) <=> Ended(Transformed, slot) \/ Closes(event, slot)
      BY <1>3, <1>4, EndedJoin, EndedOne
    <3>3. Ended(added, slot) <=> Closes(event, slot)
      BY <1>2 DEF Effect
    <3>4. QED
      BY <2>1, <3>1, <3>2, <3>3 DEF ShowsBlock
  <2>3. TextOf(Emitted', slot) = Shown(slot)'
    <3>1. TextOf(Emitted', slot) = TextOf(Emitted, slot) \o TextOf(added, slot)
      <4>1. added \in Seq(EventType) /\ Emitted \in Seq(EventType)
        BY <1>5, <1>6
      <4>2. TextOf(Emitted \o added, slot) = TextOf(Emitted, slot) \o TextOf(added, slot)
        BY <4>1, TextOfJoin
      <4>3. QED
        BY <1>7, <4>2, Zenon
    <3>2. TextOf(Emitted, slot) = Shown(slot)
      BY <1>8, <2>1 DEF ShowsBlock
    <3>3. SubSeq(block'[slot].given, 1, block'[slot].shown) = Shown(slot) \o TextOf(added, slot)
      BY <1>2 DEF Flow
    <3>4. TextOf(Emitted', slot) = SubSeq(block'[slot].given, 1, block'[slot].shown)
      BY <3>1, <3>2, <3>3, Zenon
    <3>5. QED
      BY <3>4 DEF Shown
  <2>4. IsPrefix(Shown(slot), block[slot].given)'
    <3>1. Formed' /\ Ordered' /\ Given'
      BY TransformFormed, TransformOrdered, TransformGiven
    <3>2. block' \in [Slots -> BlockType] /\ block'[slot].shown <= Len(block'[slot].given)
      BY <1>2 DEF Effect
    <3>3. block'[slot].given \in Seq(Token) /\ block'[slot].shown \in Nat
      BY <3>2 DEF BlockType
    <3>4. block'[slot].shown \in 0..Len(block'[slot].given)
      BY <3>2, <3>3
    <3>5. QED
      BY <3>3, <3>4, PrefixPart DEF Shown
  <2>5. QED
    BY <2>2, <2>3, <2>4 DEF ShowsBlock
<1>10. AllAtEnd'
  BY <1>1, PassedIs DEF AllAtEnd
<1>11. QED
  BY <1>9, <1>10 DEF Passed

LEMMA FinishPassed ==
  ASSUME Formed, Phased, Ordered, ArrivalOrder, Given, Passed, Finish
  PROVE  Passed'
<1>1. /\ phase = "await" /\ last' \in {"whole", "cut"}
      /\ output' \in Seq(HeldTails(AllBlocks)) /\ output' \in Seq(EventType)
      /\ last' = "whole" => output' = TailEvents(AllBlocks)
      /\ last' = "cut" =>
           output' = SubSeq(TailEvents(AllBlocks), 2, Len(TailEvents(AllBlocks)))
      /\ Flush(AllBlocks) /\ UNCHANGED <<turn, sent, client>>
  BY FinishIs
<1>2. /\ Transformed' = Transformed /\ Emitted' = Emitted \o output'
      /\ Emitted \in Seq(EventType) /\ AllBlocks \subseteq Slots
  BY FinishOrdered, TransformedType, AllBlocksAre
<1>3. last = "no"
  BY <1>1 DEF Phased
<1>4. ASSUME NEW slot \in Slots PROVE ShowsBlock(slot)'
  <2>1. ShowsBlock(slot)
    BY <1>1, PassedIs
  <2>2. /\ block'[slot].given = block[slot].given
        /\ SubSeq(block'[slot].given, 1, block'[slot].shown) =
             Shown(slot) \o (IF slot \in AllBlocks THEN Held(slot) ELSE <<>>)
    BY <1>1, <1>2, FlushIs
  <2>3. Ended(Emitted', slot) <=> Ended(Transformed', slot)
    <3>1. ~Ended(output', slot)
      BY <1>1, <1>2, TailsPlain
    <3>2. QED
      BY <1>1, <1>2, <2>1, <3>1, EndedJoin DEF ShowsBlock
  <2>4. TextOf(Emitted', slot) = Shown(slot) \o TextOf(output', slot)
    <3>1. TextOf(Emitted', slot) = TextOf(Emitted, slot) \o TextOf(output', slot)
      BY <1>1, <1>2, TextOfJoin
    <3>2. TextOf(Emitted, slot) = Shown(slot)
      BY <1>3, <2>1 DEF ShowsBlock
    <3>3. QED
      BY <3>1, <3>2, Zenon
  <2>5. /\ Shown(slot) \in Seq(Token) /\ Held(slot) \in Seq(Token)
        /\ block[slot].given \in Seq(Token)
        /\ block[slot].flushed => Held(slot) = <<>>
        /\ IsPrefix(Shown(slot), block[slot].given)
    BY BlockParts, SlotsText
  <2>6. IsPrefix(SubSeq(block'[slot].given, 1, block'[slot].shown), block'[slot].given)
    <3>1. block' \in [Slots -> BlockType] /\ block'[slot].shown <= Len(block'[slot].given)
      BY <1>1, <1>2, <2>2, FlushIs
    <3>2. block'[slot].given \in Seq(Token) /\ block'[slot].shown \in Nat
      BY <3>1 DEF BlockType
    <3>3. block'[slot].shown \in 0..Len(block'[slot].given)
      BY <3>1, <3>2
    <3>4. QED
      BY <3>2, <3>3, PrefixPart
  <2>7. CASE TextOf(output', slot) = IF slot \in AllBlocks THEN Held(slot) ELSE <<>>
    <3>1. TextOf(Emitted', slot) = SubSeq(block'[slot].given, 1, block'[slot].shown)
      BY <2>2, <2>4, <2>7, Zenon
    <3>2. TextOf(Emitted', slot) = Shown(slot)'
      BY <3>1 DEF Shown
    <3>3. IsPrefix(TextOf(Emitted', slot), block'[slot].given)
      BY <2>6, <3>1
    <3>4. QED
      BY <2>3, <3>2, <3>3 DEF ShowsBlock
  <2>8. CASE /\ last' = "cut" /\ TextOf(output', slot) = <<>>
             /\ TextOf(output', slot) # IF slot \in AllBlocks THEN Held(slot) ELSE <<>>
    <3>1. TextOf(Emitted', slot) = Shown(slot)
      BY <2>4, <2>5, <2>8, ConcatEmptySeq
    <3>2. IsPrefix(TextOf(Emitted', slot), block'[slot].given)
      BY <2>2, <2>5, <3>1
    <3>3. slot \in AllBlocks /\ ~block[slot].flushed
      BY <2>5, <2>8
    <3>4. ~Ended(Transformed, slot)
      BY <3>3 DEF Given
    <3>5. QED
      BY <1>2, <2>3, <2>8, <3>2, <3>4 DEF ShowsBlock
  <2>9. \/ TextOf(output', slot) = IF slot \in AllBlocks THEN Held(slot) ELSE <<>>
        \/ last' = "cut" /\ TextOf(output', slot) = <<>>
    <3>1. CASE last' = "whole"
      BY <1>1, <1>2, <3>1, TailEventsText
    <3>2. CASE last' = "cut"
      <4>1. output' = SubSeq(TailEvents(AllBlocks), 2, Len(TailEvents(AllBlocks)))
        BY <1>1, <3>2
      <4>2. \/ TextOf(output', slot) = <<>>
            \/ slot \in AllBlocks /\ TextOf(output', slot) = Held(slot)
        BY <1>2, <4>1, CutTails
      <4>3. QED
        BY <3>2, <4>2
    <3>3. QED
      BY <1>1, <3>1, <3>2
  <2>10. QED
    BY <2>7, <2>8, <2>9
<1>5. AllAtEnd'
  BY <1>1, PassedIs DEF AllAtEnd
<1>6. QED
  BY <1>4, <1>5 DEF Passed

LEMMA YieldPassed ==
  ASSUME Formed, Phased, Ordered, ArrivalOrder, Given, Passed, Yield
  PROVE  Passed'
<1>1. /\ phase = "io" /\ UNCHANGED <<turn, sent, buffer, block, last>>
      /\ Transformed' = sent /\ Transformed = sent /\ Emitted' = Emitted /\ client' = Emitted
  BY YieldOrdered DEF Yield
<1>2. \A slot \in Slots : ShowsBlock(slot)
  BY <1>1, PassedIs
<1>3. \A slot \in Slots : ShowsBlock(slot)'
  BY <1>1, <1>2 DEF ShowsBlock, Shown
<1>4. ASSUME NEW slot \in Slots, Ended(Emitted, slot)
      PROVE  TextOf(Emitted, slot) = TextOf(sent, slot)
  <2>1. Ended(Transformed, slot) /\ TextOf(Emitted, slot) = Shown(slot)
    BY <1>2, <1>4 DEF ShowsBlock
  <2>2. QED
    BY <1>1, <2>1, SlotsText
<1>5. AllAtEnd'
  BY <1>1, <1>4 DEF AllAtEnd
<1>6. QED
  BY <1>3, <1>5 DEF Passed

(* Passed is inductive, given the parts before it.                         *)
LEMMA StepPassed ==
  ASSUME Formed, Phased, Ordered, ArrivalOrder, OneChoice, Given, Passed, [Next]_vars
  PROVE  Passed'
<1>1. CASE Receive
  BY <1>1, ReceivePassed
<1>2. CASE Transform
  BY <1>2, TransformPassed
<1>3. CASE Finish
  BY <1>3, FinishPassed
<1>4. CASE Yield
  BY <1>4, YieldPassed
<1>5. CASE Cancel
  BY <1>5 DEF Cancel, Passed, AllAtEnd
<1>6. CASE RunJob \/ LoseJob \/ UNCHANGED vars
  <2>1. UNCHANGED <<turn, sent, buffer, block, output, client, last, phase>>
    BY <1>6 DEF RunJob, LoseJob, vars, stream, driver
  <2>2. QED
    BY <2>1 DEF ShowsBlock, AllAtEnd, Passed, Transformed, Emitted, Shown
<1>7. CASE Abort
  <2>1. UNCHANGED <<turn, sent, buffer, block, output, client, last>> /\ phase = "await"
    BY <1>7 DEF Abort, stream
  <2>2. QED
    BY <2>1 DEF ShowsBlock, AllAtEnd, Passed, Transformed, Emitted, Shown
<1>8. QED
  BY <1>1, <1>2, <1>3, <1>4, <1>5, <1>6, <1>7 DEF Next

(* A body that ended has delivered every tail.                             *)
LEMMA DeliversTail ==
  ASSUME Formed, Phased, Ordered, Given, Passed
  PROVE  TailDelivered
<1> SUFFICES ASSUME phase = "done", last = "whole", NEW slot \in Slots
             PROVE  TextOf(client, slot) = TextOf(sent, slot)
  BY DEF TailDelivered
<1>1. Emitted = client /\ Transformed = sent /\ ShowsBlock(slot)
  BY Quiet
<1>2. TextOf(client, slot) = Shown(slot)
  BY <1>1 DEF ShowsBlock
<1>3. QED
  BY <1>1, <1>2, SlotsText

----------------------------------------------------------------------------
(* The client of a slot *)

LEMMA ClientPrefix ==
  ASSUME NEW slot, NEW S, NEW s \in Seq(S), NEW t \in Seq(S), IsPrefix(s, t)
  PROVE  Client(slot)!Prefix(s, t)
<1>1. SubSeq(s, 1, Len(s)) = s
  BY SubSeqFull
<1>2. QED
  BY <1>1 DEF IsPrefix, Client!Prefix

LEMMA ClientPrefixSame ==
  ASSUME NEW slot, NEW S, NEW s \in Seq(S)
  PROVE  Client(slot)!Prefix(s, s)
<1>1. SubSeq(s, 1, Len(s)) = s /\ Len(s) \in Nat
  BY SubSeqFull
<1>2. QED
  BY <1>1 DEF Client!Prefix

(* A step in which neither end of the stream moves                         *)
LEMMA ClientStays ==
  ASSUME UNCHANGED <<sent, client>>, NEW slot
  PROVE  UNCHANGED Client(slot)!vars
BY DEF Client!vars

(* The text of a slot grows, unless the client has seen its end.           *)
LEMMA ReceiveHolds ==
  ASSUME Formed, Phased, Ordered, ArrivalOrder, OneChoice, Given, Passed, Receive,
         NEW slot \in Slots
  PROVE  Client(slot)!Next \/ UNCHANGED Client(slot)!vars
<1>1. /\ UNCHANGED client /\ phase = "await" /\ sent' = sent \o buffer'
      /\ buffer' \in Seq(EventType) /\ sent \in Seq(EventType) /\ client \in Seq(EventType)
  BY ReceiveIs DEF Formed
<1>2. /\ TextOf(client, slot) \in Seq(Token) /\ TextOf(sent, slot) \in Seq(Token)
      /\ TextOf(buffer', slot) \in Seq(Token)
  BY <1>1, TextOfType
<1>3. IsJoin(TextOf(sent', slot), TextOf(sent, slot), TextOf(buffer', slot))
  BY <1>1, TextOfJoin DEF IsJoin
<1>4. TextOf(sent', slot) \in Seq(Token)
  BY <1>2, <1>3, FrontIs
<1>5. Ended(client', slot) <=> Ended(client, slot)
  BY <1>1
<1>6. CASE Ended(client, slot)
  <2>1. Lawful(sent \o buffer')
    BY <1>1, ReceiveLawful DEF Given
  <2>2. Ended(sent, slot)
    BY <1>1, <1>6, Quiet
  <2>3. TextOf(sent', slot) = TextOf(sent, slot)
    BY <1>1, <2>1, <2>2, NothingFollows
  <2>4. QED
    BY <1>1, <1>5, <2>3 DEF Client!vars
<1>7. CASE ~Ended(client, slot)
  <2>1. IsPrefix(TextOf(sent, slot), TextOf(sent', slot))
    BY <1>2, <1>3, PrefixJoin
  <2>2. IsPrefix(TextOf(client, slot), TextOf(sent', slot))
    <3>1. IsPrefix(TextOf(client, slot), TextOf(sent, slot))
      BY <1>1, Quiet
    <3>2. QED
      BY <1>2, <1>4, <2>1, <3>1, PrefixOfPrefix
  <2>3. /\ Client(slot)!Prefix(TextOf(sent, slot), TextOf(sent', slot))
        /\ Client(slot)!Prefix(TextOf(client, slot), TextOf(client, slot))
        /\ Client(slot)!Prefix(TextOf(client, slot), TextOf(sent', slot))
    BY <1>2, <1>4, <2>1, <2>2, ClientPrefix, ClientPrefixSame
  <2>4. Client(slot)!Push
    BY <1>1, <1>5, <1>7, <2>3 DEF Client!Push
  <2>5. QED
    BY <2>4 DEF Client!Next
<1>8. QED
  BY <1>6, <1>7

(* An item gives the client more of the text, or the rest and the end.     *)
LEMMA YieldHolds ==
  ASSUME Formed, Phased, Ordered, ArrivalOrder, Given, Passed, Yield, NEW slot \in Slots
  PROVE  Client(slot)!Next \/ UNCHANGED Client(slot)!vars
<1>1. /\ phase = "io" /\ UNCHANGED sent /\ client' = Emitted /\ Transformed = sent
      /\ client' = client \o output
      /\ client \in Seq(EventType) /\ output \in Seq(EventType) /\ sent \in Seq(EventType)
  BY YieldOrdered DEF Yield, Formed
<1>2. client' \in Seq(EventType)
  BY <1>1, TransformedType
<1>3. /\ TextOf(client, slot) \in Seq(Token) /\ TextOf(sent, slot) \in Seq(Token)
      /\ TextOf(output, slot) \in Seq(Token) /\ TextOf(client', slot) \in Seq(Token)
  BY <1>1, <1>2, TextOfType
<1>4. IsJoin(TextOf(client', slot), TextOf(client, slot), TextOf(output, slot))
  BY <1>1, TextOfJoin DEF IsJoin
<1>5. AllAtEnd /\ AllAtEnd'
  BY YieldPassed DEF Passed
<1>6. Ended(client, slot) => Ended(client', slot)
  BY <1>1, EndedJoin
<1>7. CASE Ended(client, slot)
  <2>1. Ended(client', slot) /\ TextOf(client', slot) = TextOf(client, slot)
    BY <1>1, <1>5, <1>6, <1>7 DEF AllAtEnd
  <2>2. QED
    BY <1>1, <1>7, <2>1 DEF Client!vars
<1>8. CASE ~Ended(client, slot) /\ Ended(client', slot)
  <2>1. TextOf(client', slot) = TextOf(sent, slot)
    BY <1>1, <1>5, <1>8 DEF AllAtEnd
  <2>2. Client(slot)!Finish
    BY <1>1, <1>8, <2>1 DEF Client!Finish
  <2>3. QED
    BY <2>2 DEF Client!Next
<1>9. CASE ~Ended(client, slot) /\ ~Ended(client', slot)
  <2>1. IsPrefix(TextOf(client, slot), TextOf(client', slot))
    BY <1>3, <1>4, PrefixJoin
  <2>2. IsPrefix(TextOf(client', slot), TextOf(sent, slot))
    <3>1. ShowsBlock(slot)
      BY <1>1, PassedIs
    <3>2. TextOf(sent, slot) = block[slot].given
      BY <1>1, SlotsText
    <3>3. QED
      BY <1>1, <3>1, <3>2 DEF ShowsBlock
  <2>3. /\ Client(slot)!Prefix(TextOf(sent, slot), TextOf(sent, slot))
        /\ Client(slot)!Prefix(TextOf(client, slot), TextOf(client', slot))
        /\ Client(slot)!Prefix(TextOf(client', slot), TextOf(sent, slot))
    BY <1>3, <2>1, <2>2, ClientPrefix, ClientPrefixSame
  <2>4. sent' = sent
    BY <1>1
  <2>5. UNCHANGED Ended(client, slot)
    BY <1>9 DEF Ended
  <2>6. Client(slot)!Push
    BY <1>9, <2>3, <2>4, <2>5 DEF Client!Push
  <2>7. QED
    BY <2>6 DEF Client!Next
<1>10. QED
  BY <1>6, <1>7, <1>8, <1>9

LEMMA StepHolds ==
  ASSUME Formed, Phased, Ordered, ArrivalOrder, OneChoice, Given, Passed, [Next]_vars
  PROVE  \A slot \in Slots : Client(slot)!Next \/ UNCHANGED Client(slot)!vars
<1>1. CASE Receive
  BY <1>1, ReceiveHolds
<1>2. CASE Yield
  BY <1>2, YieldHolds
<1>3. CASE Transform \/ Finish \/ Abort \/ RunJob \/ LoseJob \/ Cancel \/ UNCHANGED vars
  <2>1. UNCHANGED <<sent, client>>
    BY <1>3 DEF Transform, Finish, Abort, RunJob, LoseJob, Cancel, vars, stream, driver
  <2>2. QED
    BY <2>1, ClientStays
<1>4. QED
  BY <1>1, <1>2, <1>3 DEF Next

LEMMA InitHolds ==
  ASSUME Init
  PROVE  \A slot \in Slots : Client(slot)!Init
<1>1. sent = <<>> /\ client = <<>>
  BY DEF Init
<1>2. QED
  BY <1>1, TextOfEmpty, EndedEmpty DEF Client!Init

LEMMA StepStream ==
  ASSUME OneChoice, StreamInv, [Next]_vars
  PROVE  StreamInv'
BY StepFormed, StepOrdered, StepGiven, StepPassed DEF StreamInv

LEMMA InitStream == Init => StreamInv
BY InitFormed, InitOrdered, InitGiven, InitPassed DEF StreamInv

(* Every event of the upstream reaches the client in order, and a body     *)
(* that ends without its terminal event still delivers what finish         *)
(* flushed: no text of a block is dropped in the decoder.                  *)
THEOREM Delivers ==
  ASSUME OneChoice
  PROVE  Spec => []Delivered
<1>1. Init => StreamInv
  BY InitStream
<1>2. StreamInv /\ [Next]_vars => StreamInv'
  BY StepStream
<1>3. StreamInv => Delivered
  BY DeliversTail DEF StreamInv, Delivered
<1>4. QED
  BY <1>1, <1>2, <1>3, PTL DEF Spec

(* What the client reads of a block implements HoldBack: a prefix of the   *)
(* text so far, in which no text is repeated, skipped or put after the     *)
(* end, and with the end all of it. So the tail that flush_block made      *)
(* always goes before the event that closes its block.                     *)
THEOREM HoldsBack ==
  ASSUME OneChoice
  PROVE  Spec => StreamHoldsBack
<1>1. Init => StreamInv /\ \A slot \in Slots : Client(slot)!Init
  BY InitStream, InitHolds
<1>2. StreamInv /\ [Next]_vars => StreamInv'
  BY StepStream
<1>3. StreamInv /\ [Next]_vars =>
        [\A slot \in Slots : Client(slot)!Next \/ UNCHANGED Client(slot)!vars]_vars
  BY StepHolds DEF StreamInv
<1>4. QED
  BY <1>1, <1>2, <1>3, PTL DEF Spec, StreamHoldsBack

----------------------------------------------------------------------------
(* The originals *)

LEMMA RangeJoin ==
  ASSUME NEW S, NEW a \in Seq(S), NEW b \in Seq(S), NEW c, IsJoin(c, a, b)
  PROVE  Range(c) = Range(a) \union Range(b)
<1>1. /\ c \in Seq(S) /\ Len(c) = Len(a) + Len(b) /\ Len(a) \in Nat /\ Len(b) \in Nat
      /\ \A i \in 1..Len(a) : c[i] = a[i]
      /\ \A i \in 1..Len(b) : Len(a) + i \in 1..Len(c) /\ c[Len(a) + i] = b[i]
      /\ \A i \in 1..Len(c) :
           i \notin 1..Len(a) => i - Len(a) \in 1..Len(b) /\ c[i] = b[i - Len(a)]
  BY Joined DEF IsJoin
<1>2. /\ Range(a) = {a[i] : i \in 1..Len(a)} /\ Range(b) = {b[i] : i \in 1..Len(b)}
      /\ Range(c) = {c[i] : i \in 1..Len(c)}
  BY <1>1, RangeEquality
<1>3. \A i \in 1..Len(a) : i \in 1..Len(c)
  BY <1>1
<1>4. QED
  BY <1>1, <1>2, <1>3

LEMMA RangeEmpty == Range(<<>>) = {}
BY DEF Range

LEMMA RangeOne ==
  ASSUME NEW x
  PROVE  Range(<<x>>) = {x}
BY DEF Range

LEMMA TransformStored ==
  ASSUME Formed, Phased, Ordered, ArrivalOrder, Given, Kept, Transform
  PROVE  Kept'
<1> DEFINE event == Head(buffer)
<1>1. event \in EventType /\ UNCHANGED <<turn, stored, lost>>
  BY TransformIs
<1>2. PICK added, more : Effect(event, added, more) /\ Flow(event, added, more)
  BY TransformIs, NextOrderly
<1>3. Orderly(event)
  BY NextOrderly
<1> HIDE DEF event
<1>4. AllBlocks' = AllBlocks /\ LostTexts' = LostTexts /\ AllBlocks \subseteq Slots
  BY <1>1, AllBlocksAre DEF AllBlocks, LostTexts
<1>5. Range(jobs') = Range(jobs) \union Range(more)
  <2>1. jobs \in Seq(JobType) /\ more \in Seq(JobType) /\ IsJoin(jobs', jobs, more)
    BY <1>2 DEF Formed, Effect, IsJoin
  <2>2. QED
    BY <2>1, RangeJoin
<1>6. ASSUME NEW b \in AllBlocks PROVE HasOriginal(b)'
  <2>1. SUFFICES ASSUME block'[b].flushed, turn.sigils, block'[b].given # <<>>
                 PROVE  \/ block'[b].given \in stored \union LostTexts
                        \/ Job("original", block'[b].given) \in Range(jobs')
    BY <1>1, <1>4 DEF HasOriginal
  <2>2. CASE ~block[b].flushed
    <3>1. Job("original", block'[b].given) \in Range(more)
      BY <1>2, <2>1, <2>2 DEF Flow
    <3>2. QED
      BY <1>5, <3>1
  <2>3. CASE block[b].flushed
    <3>1. TextOf(<<event>>, b) = <<>>
      BY <1>1, <1>3, <2>3, TextOfOne DEF Orderly
    <3>2. block'[b].given = block[b].given
      <4>1. block'[b].given = block[b].given \o TextOf(<<event>>, b)
        BY <1>2, <1>4 DEF Flow
      <4>2. block[b].given \in Seq(Token)
        BY <1>4, BlockParts
      <4>3. QED
        BY <3>1, <4>1, <4>2, ConcatEmptySeq
    <3>3. HasOriginal(b)
      BY DEF Kept
    <3>4. QED
      BY <1>5, <2>1, <2>3, <3>2, <3>3 DEF HasOriginal
  <2>4. QED
    BY <2>2, <2>3
<1>7. QED
  BY <1>4, <1>6 DEF Kept

LEMMA FinishStored ==
  ASSUME Formed, Phased, Kept, Finish
  PROVE  Kept'
<1>1. /\ phase = "await" /\ Flush(AllBlocks)
      /\ jobs' = FlushedOriginals(AllBlocks) \o EndJobs
      /\ FlushedOriginals(AllBlocks) \in Seq(JobType) /\ EndJobs \in Seq(JobType)
      /\ UNCHANGED <<turn, stored, lost>>
  BY FinishIs
<1>2. AllBlocks' = AllBlocks /\ LostTexts' = LostTexts /\ AllBlocks \subseteq Slots
  BY <1>1, AllBlocksAre DEF AllBlocks, LostTexts
<1>3. Range(jobs') = Range(FlushedOriginals(AllBlocks)) \union Range(EndJobs)
  <2>1. IsJoin(jobs', FlushedOriginals(AllBlocks), EndJobs)
    BY <1>1, Zenon DEF IsJoin
  <2>2. FlushedOriginals(AllBlocks) \in Seq(JobType) /\ EndJobs \in Seq(JobType)
    BY <1>1
  <2>3. QED
    BY <2>1, <2>2, RangeJoin
<1>4. jobs = <<>>
  BY <1>1 DEF Phased
<1>5. ASSUME NEW b \in AllBlocks PROVE HasOriginal(b)'
  <2>1. block'[b].given = block[b].given
    BY <1>1, <1>2, FlushIs
  <2>2. SUFFICES ASSUME turn.sigils, block[b].given # <<>>
                 PROVE  \/ block[b].given \in stored \union LostTexts
                        \/ Job("original", block[b].given) \in Range(jobs')
    BY <1>1, <1>2, <2>1 DEF HasOriginal
  <2>3. CASE ~block[b].flushed
    <3>1. Job("original", block[b].given) \in Range(FlushedOriginals(AllBlocks))
      BY <1>2, <2>2, <2>3, FlushedOriginalsAre
    <3>2. QED
      BY <1>3, <3>1
  <2>4. CASE block[b].flushed
    BY <1>4, <2>2, <2>4, RangeEmpty DEF Kept, HasOriginal
  <2>5. QED
    BY <2>3, <2>4
<1>6. QED
  BY <1>2, <1>5 DEF Kept

LEMMA RunStored ==
  ASSUME Formed, RunJob
  PROVE  /\ Kept => Kept'
         /\ stored \union LostTexts \subseteq (stored \union LostTexts)'
         /\ UNCHANGED client
<1>1. /\ Tail(jobs) \in Seq(JobType) /\ jobs' = Tail(jobs) /\ Head(jobs) \in JobType
      /\ jobs = <<Head(jobs)>> \o Tail(jobs)
      /\ \/ /\ Head(jobs).kind = "original"
            /\ stored' = stored \union {Head(jobs).text}
         \/ Head(jobs).kind # "original" /\ stored' = stored
      /\ UNCHANGED <<stream, client, lost>>
  BY RunJobIs
<1>2. Range(jobs) = {Head(jobs)} \union Range(jobs')
  <2> DEFINE x == <<Head(jobs)>>
             y == Tail(jobs)
  <2>1. x \in Seq(JobType) /\ Range(x) = {Head(jobs)}
    BY <1>1, RangeOne
  <2>2. IsJoin(jobs, x, y)
    BY <1>1, Zenon DEF IsJoin
  <2>3. y \in Seq(JobType) /\ jobs' = y
    BY <1>1
  <2> HIDE DEF x, y
  <2>4. Range(jobs) = Range(x) \union Range(y)
    BY <2>1, <2>2, <2>3, RangeJoin
  <2>5. QED
    BY <2>1, <2>3, <2>4
<1> DEFINE first == Head(jobs)
<1>3. /\ Range(jobs) = {first} \union Range(jobs')
      /\ \/ first.kind = "original" /\ stored' = stored \union {first.text}
         \/ first.kind # "original" /\ stored' = stored
      /\ UNCHANGED <<turn, block, client, lost>>
  BY <1>1, <1>2 DEF stream
<1> HIDE DEF first
<1>4. LostTexts' = LostTexts /\ AllBlocks' = AllBlocks
  BY <1>3 DEF LostTexts, AllBlocks
<1>5. ASSUME NEW b \in AllBlocks, HasOriginal(b) PROVE HasOriginal(b)'
  BY <1>3, <1>4, <1>5 DEF HasOriginal, Job
<1>6. QED
  BY <1>3, <1>4, <1>5 DEF Kept

LEMMA LoseStored ==
  ASSUME Formed, LoseJob
  PROVE  /\ Kept => Kept'
         /\ stored \union LostTexts \subseteq (stored \union LostTexts)'
         /\ UNCHANGED client
<1>1. /\ jobs' \in Seq(JobType) /\ UNCHANGED <<stream, client, stored>>
  BY LoseJobIs
<1>2. PICK gone \in Seq(JobType) : jobs = gone \o jobs' /\ lost' = lost \union Range(gone)
  BY LoseJobIs
<1>3. Range(jobs) = Range(gone) \union Range(jobs')
  <2>1. IsJoin(jobs, gone, jobs')
    BY <1>2, Zenon DEF IsJoin
  <2>2. QED
    BY <1>1, <2>1, RangeJoin
<1>4. /\ lost' = lost \union Range(gone) /\ UNCHANGED <<turn, block, client, stored>>
  BY <1>1, <1>2 DEF stream
<1>5. /\ LostTexts \subseteq LostTexts' /\ AllBlocks' = AllBlocks
      /\ \A job \in Range(gone) : job.kind = "original" => job.text \in LostTexts'
  BY <1>4 DEF LostTexts, AllBlocks
<1>6. ASSUME NEW b \in AllBlocks, HasOriginal(b) PROVE HasOriginal(b)'
  <2>1. SUFFICES ASSUME block[b].flushed, turn.sigils, block[b].given # <<>>
                 PROVE  \/ block[b].given \in stored \union LostTexts'
                        \/ Job("original", block[b].given) \in Range(jobs')
    BY <1>4 DEF HasOriginal
  <2>2. CASE block[b].given \in stored \union LostTexts
    BY <1>5, <2>2
  <2>3. CASE Job("original", block[b].given) \in Range(jobs)
    BY <1>3, <1>5, <2>3 DEF Job
  <2>4. QED
    BY <1>6, <2>1, <2>2, <2>3 DEF HasOriginal
<1>7. QED
  BY <1>4, <1>5, <1>6 DEF Kept

(* Kept is inductive, given the parts before it.                           *)
LEMMA StepKept ==
  ASSUME Formed, Phased, Ordered, ArrivalOrder, Given, Kept, [Next]_vars
  PROVE  Kept'
<1>1. CASE Transform
  BY <1>1, TransformStored
<1>2. CASE Finish
  BY <1>2, FinishStored
<1>3. CASE RunJob \/ LoseJob
  BY <1>3, RunStored, LoseStored
<1>4. CASE Receive \/ Yield \/ Abort \/ Cancel \/ UNCHANGED vars
  <2>1. UNCHANGED <<turn, block, jobs, stored, lost>>
    BY <1>4 DEF Receive, Yield, Abort, Cancel, vars, stream, driver
  <2>2. QED
    BY <2>1 DEF Kept, HasOriginal, LostTexts, AllBlocks
<1>5. QED
  BY <1>1, <1>2, <1>3, <1>4 DEF Next

(* The item with the end of a block waits for its original.                *)
LEMMA YieldStored ==
  ASSUME StreamInv, Kept, Yield
  PROVE  StoredBeforeEnd'
<1>1. /\ phase = "io" /\ jobs = <<>> /\ Transformed = sent
      /\ UNCHANGED <<turn, sent, block, stored, lost>>
  BY YieldOrdered DEF Yield, StreamInv
<1>2. AllAtEnd' /\ LostTexts' = LostTexts
  BY <1>1, YieldPassed DEF StreamInv, Passed, AllAtEnd, LostTexts
<1>3. ASSUME NEW slot \in Slots, Ended(client', slot), turn.sigils, TextOf(client', slot) # <<>>
      PROVE  TextOf(client', slot) \in stored \union LostTexts
  <2>1. TextOf(client', slot) = TextOf(sent, slot)
    BY <1>1, <1>2, <1>3 DEF AllAtEnd
  <2>2. TextOf(client', slot) = block[slot].given
    BY <1>1, <2>1, SlotsText DEF StreamInv
  <2>3. slot \in AllBlocks
    BY <1>3, <2>2, SlotsText DEF StreamInv
  <2>4. Ended(Transformed, slot)
    <3>1. client' = Emitted
      BY YieldOrdered DEF StreamInv
    <3>2. ShowsBlock(slot)
      BY <1>1, PassedIs DEF StreamInv
    <3>3. QED
      BY <1>3, <3>1, <3>2 DEF ShowsBlock
  <2>5. block[slot].flushed
    BY <2>3, <2>4 DEF StreamInv, Given
  <2>6. QED
    BY <1>1, <1>3, <2>2, <2>3, <2>5, RangeEmpty DEF Kept, HasOriginal
<1>4. QED
  BY <1>1, <1>2, <1>3 DEF StoredBeforeEnd

LEMMA StepStored ==
  ASSUME StreamInv, Kept, StoredBeforeEnd, [Next]_vars
  PROVE  StoredBeforeEnd'
<1>1. CASE Yield
  BY <1>1, YieldStored
<1>2. CASE RunJob \/ LoseJob
  <2>1. /\ stored \union LostTexts \subseteq (stored \union LostTexts)'
        /\ UNCHANGED client /\ UNCHANGED stream
    BY <1>2, RunStored, LoseStored, RunJobIs, LoseJobIs DEF StreamInv
  <2>2. turn' = turn
    BY <2>1 DEF stream
  <2>3. QED
    BY <2>1, <2>2 DEF StoredBeforeEnd
<1>3. CASE Receive \/ Transform \/ Finish \/ Abort \/ Cancel \/ UNCHANGED vars
  <2>1. UNCHANGED <<turn, client, stored, lost>>
    BY <1>3 DEF Receive, Transform, Finish, Abort, Cancel, vars, stream, driver
  <2>2. QED
    BY <2>1 DEF StoredBeforeEnd, LostTexts
<1>4. QED
  BY <1>1, <1>2, <1>3 DEF Next

LEMMA InitStored == Init => Kept /\ StoredBeforeEnd
<1> SUFFICES ASSUME Init PROVE Kept /\ StoredBeforeEnd
  OBVIOUS
<1>1. client = <<>> /\ \A b \in Slots : block[b].given = <<>>
  BY DEF Init
<1>2. Kept
  BY <1>1, AllBlocksAre DEF Kept, HasOriginal
<1>3. StoredBeforeEnd
  BY <1>1, EndedEmpty DEF StoredBeforeEnd
<1>4. QED
  BY <1>2, <1>3

(* When the client has seen the end of a rewritten block, run_io has       *)
(* stored the original of just what it read, unless the write failed: its  *)
(* next request can be substituted.                                        *)
THEOREM StoresBeforeEnd ==
  ASSUME OneChoice
  PROVE  Spec => []StoredBeforeEnd
<1>1. Init => StreamInv /\ Kept /\ StoredBeforeEnd
  BY InitStream, InitStored
<1>2. StreamInv /\ Kept /\ StoredBeforeEnd /\ [Next]_vars =>
        (StreamInv /\ Kept /\ StoredBeforeEnd)'
  BY StepStream, StepKept, StepStored DEF StreamInv
<1>3. QED
  BY <1>1, <1>2, PTL DEF Spec

----------------------------------------------------------------------------
(* The records *)

LEMMA InRange ==
  ASSUME NEW S, NEW s \in Seq(S), NEW i \in 1..Len(s)
  PROVE  s[i] \in Range(s)
BY RangeEquality

(* Before the end of the body there are no records.                        *)
LEMMA NoneYet ==
  ASSUME Formed, Once, Made = {}
  PROVE  /\ recorded = <<>>
         /\ \A i \in 1..Len(jobs) : ~IsRecord(jobs[i])
         /\ \A job \in lost : ~IsRecord(job)
<1>1. jobs \in Seq(JobType) /\ recorded \in Seq(JobType)
  BY DEF Formed
<1>2. \A i \in 1..Len(jobs) : ~IsRecord(jobs[i])
  BY <1>1, InRange DEF Made
<1>3. \A i \in 1..Len(recorded) : ~IsRecord(recorded[i])
  BY <1>1, InRange DEF Made
<1>4. recorded = <<>>
  <2>1. Len(recorded) = 0
    <3>1. Len(recorded) \in Nat
      BY <1>1
    <3>2. QED
      BY <1>3, <3>1 DEF Once
  <2>2. QED
    BY <1>1, <2>1, EmptySeq
<1>5. QED
  BY <1>2, <1>4 DEF Made

LEMMA OriginalsOnce ==
  ASSUME NEW queue, \A i \in 1..Len(queue) : ~IsRecord(queue[i])
  PROVE  Single(queue)
BY DEF Single

LEMMA TransformRecords ==
  ASSUME Formed, Phased, Once, Accounted, Transform
  PROVE  Once' /\ Accounted'
<1>1. phase = "transform" /\ UNCHANGED <<last, recorded, lost>>
  BY TransformIs
<1>2. PICK added, more : Effect(Head(buffer), added, more)
  BY TransformIs
<1>3. last = "no" /\ Made = {}
  BY <1>1 DEF Phased, Accounted
<1>4. /\ recorded = <<>>
      /\ \A i \in 1..Len(jobs) : ~IsRecord(jobs[i])
      /\ \A job \in lost : ~IsRecord(job)
  BY <1>3, NoneYet
<1>5. /\ jobs \in Seq(JobType) /\ more \in Seq(JobType) /\ jobs' = jobs \o more
      /\ \A i \in 1..Len(more) : ~IsRecord(more[i])
  BY <1>2 DEF Formed, Effect, IsRecord
<1>6. jobs' \in Seq(JobType) /\ \A i \in 1..Len(jobs') : ~IsRecord(jobs'[i])
  <2> DEFINE all == jobs \o more
  <2>1. /\ all \in Seq(JobType) /\ Len(jobs) \in Nat
        /\ \A i \in 1..Len(jobs) : all[i] = jobs[i]
        /\ \A i \in 1..Len(all) :
             i \notin 1..Len(jobs) => i - Len(jobs) \in 1..Len(more) /\ all[i] = more[i - Len(jobs)]
    BY <1>5, Joined
  <2>2. jobs' = all
    BY <1>5
  <2> HIDE DEF all
  <2>3. \A i \in 1..Len(all) : ~IsRecord(all[i])
    BY <1>4, <1>5, <2>1
  <2>4. QED
    BY <2>1, <2>2, <2>3
<1>7. Made' = {}
  <2>1. \A job \in Range(jobs') : ~IsRecord(job)
    BY <1>6, RangeEquality
  <2>2. QED
    BY <1>1, <1>4, <2>1, RangeEmpty DEF Made
<1>8. Single(jobs') /\ Single(<<>>)
  BY <1>6, OriginalsOnce DEF Single
<1>9. QED
  BY <1>1, <1>3, <1>4, <1>7, <1>8 DEF Once, Accounted

----------------------------------------------------------------------------
LEMMA Tuples ==
  ASSUME NEW a, NEW b, NEW c
  PROVE  /\ <<a>> \o <<b>> = <<a, b>> /\ <<a, b>> \o <<c>> = <<a, b, c>>
         /\ <<>> \o <<b>> = <<b>>
         /\ <<a>> \o <<>> = <<a>> /\ <<a, b>> \o <<>> = <<a, b>>
<1> DEFINE S == {a, b, c}
<1>1. /\ <<a>> \in Seq(S) /\ <<b>> \in Seq(S) /\ <<c>> \in Seq(S)
      /\ <<a, b>> \in Seq(S) /\ <<a, b, c>> \in Seq(S)
  OBVIOUS
<1>2. <<a>> \o <<b>> = <<a, b>>
  <2> DEFINE x == <<a>>
             y == <<b>>
             z == <<a, b>>
  <2>1. /\ x \in Seq(S) /\ y \in Seq(S) /\ z \in Seq(S) /\ Len(z) = Len(x) + Len(y)
        /\ \A i \in 1..Len(x) : z[i] = x[i]
        /\ \A i \in 1..Len(y) : z[Len(x) + i] = y[i]
    <3>1. Len(x) = 1 /\ Len(y) = 1 /\ Len(z) = 2
      OBVIOUS
    <3>2. x[1] = a /\ y[1] = b /\ z[1] = a /\ z[2] = b
      OBVIOUS
    <3>3. x \in Seq(S) /\ y \in Seq(S) /\ z \in Seq(S)
      BY <1>1
    <3> HIDE DEF x, y, z
    <3>4. QED
      BY <3>1, <3>2, <3>3
  <2> HIDE DEF x, y, z, S
  <2>2. z = x \o y
    BY <2>1, JoinIs, Zenon
  <2>3. QED
    BY <2>2, Zenon DEF x, y, z
<1>3. <<a, b>> \o <<c>> = <<a, b, c>>
  <2> DEFINE x == <<a, b>>
             y == <<c>>
             z == <<a, b, c>>
  <2>1. /\ x \in Seq(S) /\ y \in Seq(S) /\ z \in Seq(S) /\ Len(z) = Len(x) + Len(y)
        /\ \A i \in 1..Len(x) : z[i] = x[i]
        /\ \A i \in 1..Len(y) : z[Len(x) + i] = y[i]
    BY <1>1
  <2> HIDE DEF x, y, z, S
  <2>2. z = x \o y
    BY <2>1, JoinIs, Zenon
  <2>3. QED
    BY <2>2, Zenon DEF x, y, z
<1>4. QED
  BY <1>1, <1>2, <1>3, ConcatEmptySeq, Zenon

(* What finish queues after the originals                                  *)
LEMMA EndJobsAre ==
  ASSUME Formed
  PROVE  /\ Range(EndJobs) =
              {Job("health", AssistantText)}
                \union (IF usage THEN {Job("cost", <<>>)} ELSE {})
                \union (IF Silent /\ ~turn.receipts THEN {} ELSE {Job("transcript", AssistantText)})
         /\ Single(EndJobs)
         /\ \A i \in 1..Len(EndJobs) : IsRecord(EndJobs[i])
<1> DEFINE c == Job("cost", <<>>)
           h == Job("health", AssistantText)
           t == Job("transcript", AssistantText)
<1>1. c.kind = "cost" /\ h.kind = "health" /\ t.kind = "transcript"
  BY DEF Job
<1>2. EndJobs = (IF usage THEN <<c>> ELSE <<>>) \o <<h>>
                  \o (IF Silent /\ ~turn.receipts THEN <<>> ELSE <<t>>)
  BY DEF EndJobs
<1> HIDE DEF c, h, t
<1>3. CASE usage /\ ~(Silent /\ ~turn.receipts)
  <2>1. EndJobs = <<c, h, t>>
    <3>1. EndJobs = (<<c>> \o <<h>>) \o <<t>>
      BY <1>2, <1>3
    <3>2. <<c>> \o <<h>> = <<c, h>> /\ <<c, h>> \o <<t>> = <<c, h, t>>
      BY Tuples
    <3>3. QED
      BY <3>1, <3>2, Zenon
  <2>2. /\ Range(<<c, h, t>>) = {c, h, t}
        /\ Single(<<c, h, t>>) /\ \A i \in 1..3 : IsRecord(<<c, h, t>>[i])
    BY <1>1 DEF Range, Single, IsRecord
  <2>3. QED
    BY <1>3, <2>1, <2>2 DEF c, h, t
<1>4. CASE usage /\ Silent /\ ~turn.receipts
  <2>1. EndJobs = <<c, h>>
    BY <1>2, <1>4, Tuples, Zenon
  <2>2. /\ Range(<<c, h>>) = {c, h}
        /\ Single(<<c, h>>) /\ \A i \in 1..2 : IsRecord(<<c, h>>[i])
    BY <1>1 DEF Range, Single, IsRecord
  <2>3. QED
    BY <1>4, <2>1, <2>2 DEF c, h
<1>5. CASE ~usage /\ ~(Silent /\ ~turn.receipts)
  <2>1. EndJobs = <<h, t>>
    BY <1>2, <1>5, Tuples, Zenon
  <2>2. /\ Range(<<h, t>>) = {h, t}
        /\ Single(<<h, t>>) /\ \A i \in 1..2 : IsRecord(<<h, t>>[i])
    BY <1>1 DEF Range, Single, IsRecord
  <2>3. QED
    BY <1>5, <2>1, <2>2 DEF h, t
<1>6. CASE ~usage /\ Silent /\ ~turn.receipts
  <2>1. EndJobs = <<h>>
    BY <1>2, <1>6
  <2>2. /\ Range(<<h>>) = {h}
        /\ Single(<<h>>) /\ \A i \in 1..1 : IsRecord(<<h>>[i])
    BY <1>1 DEF Range, Single, IsRecord
  <2>3. QED
    BY <1>6, <2>1, <2>2 DEF h
<1>7. QED
  BY <1>3, <1>4, <1>5, <1>6

(* They are the records of what was sent.                                  *)
LEMMA EndRecords ==
  ASSUME Formed, Ordered, Given, buffer = <<>>
  PROVE  Range(EndJobs) = Records
<1>1. Transformed = sent
  BY TransformedType
<1>2. \A slot \in Slots : block[slot].given = TextOf(sent, slot)
  BY <1>1 DEF Given
<1>3. AssistantText = Whole
  BY <1>2 DEF AssistantText, Whole
<1>4. Silent <=> ~ \E slot \in Slots : Whole[slot] # <<>>
  BY <1>2 DEF Silent, Whole
<1>5. (IF usage THEN {Job("cost", <<>>)} ELSE {}) =
        {Job("cost", <<>>) : kind \in KindsOf(sent) \intersect {"usage"}}
  BY <1>1 DEF Given
<1>6. turn.receipts \in BOOLEAN
  BY SseAssumption DEF Formed
<1>7. (IF Silent /\ ~turn.receipts THEN {} ELSE {Job("transcript", AssistantText)}) =
        (IF turn.receipts \/ \E slot \in Slots : Whole[slot] # <<>>
         THEN {Job("transcript", Whole)} ELSE {})
  BY <1>3, <1>4, <1>6
<1>8. Range(EndJobs) =
              {Job("health", AssistantText)}
                \union (IF usage THEN {Job("cost", <<>>)} ELSE {})
                \union (IF Silent /\ ~turn.receipts THEN {} ELSE {Job("transcript", AssistantText)})
  BY EndJobsAre
<1>9. QED
  BY <1>3, <1>5, <1>7, <1>8 DEF Records

LEMMA FinishRecords ==
  ASSUME Formed, Phased, Ordered, Given, Once, Accounted, Finish
  PROVE  Once' /\ Accounted'
<1> DEFINE originals == FlushedOriginals(AllBlocks)
<1>1. /\ phase = "await" /\ last' # "no" /\ jobs' = originals \o EndJobs
      /\ originals \in Seq(JobType) /\ EndJobs \in Seq(JobType) /\ jobs' \in Seq(JobType)
      /\ \A i \in 1..Len(originals) : originals[i].kind = "original"
      /\ UNCHANGED <<turn, sent, recorded, lost>>
  BY FinishIs
<1> HIDE DEF originals
<1>2. last = "no" /\ buffer = <<>> /\ Made = {}
  BY <1>1 DEF Phased, Accounted
<1>3. recorded = <<>> /\ \A job \in lost : ~IsRecord(job)
  BY <1>2, NoneYet
<1>4. Range(jobs') = Range(originals) \union Range(EndJobs)
  <2>1. IsJoin(jobs', originals, EndJobs)
    BY <1>1, Zenon DEF IsJoin
  <2>2. originals \in Seq(JobType) /\ EndJobs \in Seq(JobType)
    BY <1>1
  <2>3. QED
    BY <2>1, <2>2, RangeJoin
<1>5. \A job \in Range(originals) : ~IsRecord(job)
  BY <1>1, RangeEquality DEF IsRecord
<1>6. \A job \in Range(EndJobs) : IsRecord(job)
  <2>1. \A i \in 1..Len(EndJobs) : IsRecord(EndJobs[i])
    BY EndJobsAre
  <2>2. Range(EndJobs) = {EndJobs[i] : i \in 1..Len(EndJobs)}
    BY <1>1, RangeEquality
  <2>3. QED
    BY <2>1, <2>2
<1>7. Range(EndJobs) = Records /\ Records' = Records
  <2>1. Range(EndJobs) = Records
    BY <1>2, EndRecords
  <2>2. Records' = Records
    BY <1>1 DEF Records, Whole
  <2>3. QED
    BY <2>1, <2>2
<1>8. Accounted'
  <2>1. Made' = Range(EndJobs)
    BY <1>1, <1>3, <1>4, <1>5, <1>6, RangeEmpty DEF Made
  <2>2. QED
    BY <1>1, <1>7, <2>1 DEF Accounted
<1>9. Single(jobs')
  <2> DEFINE all == originals \o EndJobs
             n == Len(originals)
  <2>1. /\ all \in Seq(JobType) /\ n \in Nat
        /\ \A i \in 1..n : all[i] = originals[i]
        /\ \A i \in 1..Len(all) :
             i \notin 1..n => i - n \in 1..Len(EndJobs) /\ all[i] = EndJobs[i - n]
    BY <1>1, Joined
  <2>2. jobs' = all
    BY <1>1
  <2> HIDE DEF all, n
  <2>3. \A i \in 1..n : originals[i].kind = "original"
    BY <1>1 DEF n
  <2>4. Single(EndJobs)
    BY EndJobsAre
  <2>5. ASSUME NEW i \in 1..Len(all), NEW j \in 1..Len(all),
               IsRecord(all[i]), all[i].kind = all[j].kind
        PROVE  i = j
    <3>1. i \notin 1..n /\ j \notin 1..n
      BY <2>1, <2>3, <2>5 DEF IsRecord
    <3>2. /\ i - n \in 1..Len(EndJobs) /\ all[i] = EndJobs[i - n]
          /\ j - n \in 1..Len(EndJobs) /\ all[j] = EndJobs[j - n]
      BY <2>1, <3>1
    <3>3. i - n = j - n
      BY <2>4, <2>5, <3>2 DEF Single
    <3>4. QED
      BY <2>1, <3>3
  <2>6. QED
    BY <2>2, <2>5 DEF Single
<1>10. Once'
  BY <1>1, <1>3, <1>9 DEF Once, Single
<1>11. QED
  BY <1>8, <1>10

LEMMA RunRecords ==
  ASSUME Formed, Once, Accounted, RunJob
  PROVE  Once' /\ Accounted'
<1> DEFINE first == Head(jobs)
           n == Len(recorded)
<1>1. /\ jobs # <<>> /\ jobs \in Seq(JobType) /\ recorded \in Seq(JobType)
      /\ jobs' \in Seq(JobType) /\ recorded' \in Seq(JobType)
      /\ UNCHANGED <<stream, last, lost>>
  BY RunJobIs DEF Formed
<1>2. \/ first.kind = "original" /\ recorded' = recorded
      \/ first.kind # "original" /\ recorded' = Append(recorded, first)
  BY DEF RunJob
<1>3. /\ first \in JobType /\ first = jobs[1] /\ 1 \in 1..Len(jobs)
      /\ Len(jobs') = Len(jobs) - 1 /\ Len(jobs) \in Nat
      /\ \A i \in 1..Len(jobs') : jobs'[i] = jobs[i + 1] /\ i + 1 \in 1..Len(jobs)
  <2>1. jobs' = Tail(jobs)
    BY RunJobIs
  <2>2. QED
    BY <1>1, <2>1, HeadTailProperties
<1> HIDE DEF first
<1>4. /\ n \in Nat
      /\ Len(Append(recorded, first)) = n + 1 /\ Append(recorded, first)[n + 1] = first
      /\ \A i \in 1..n : Append(recorded, first)[i] = recorded[i]
  BY <1>1, <1>3, AppendProperties
<1>5. Single(jobs')
  BY <1>3 DEF Once, Single
<1>6. \A j \in 1..Len(jobs') : IsRecord(first) => first.kind # jobs'[j].kind
  <2>1. TAKE j \in 1..Len(jobs')
  <2>2. j + 1 \in 1..Len(jobs) /\ jobs'[j] = jobs[j + 1] /\ j + 1 # 1
    BY <1>3
  <2>3. QED
    BY <1>3, <2>2 DEF Once, Single
<1>7. Range(jobs) = {first} \union Range(jobs')
  <2>1. Range(jobs) = {jobs[i] : i \in 1..Len(jobs)} /\ Range(jobs') = {jobs'[i] : i \in 1..Len(jobs')}
    BY <1>1, RangeEquality
  <2>2. \A i \in 1..Len(jobs) : i = 1 \/ (i - 1 \in 1..Len(jobs') /\ jobs'[i - 1] = jobs[i])
    <3>1. TAKE i \in 1..Len(jobs)
    <3>2. CASE i # 1
      <4>1. i - 1 \in 1..Len(jobs') /\ (i - 1) + 1 = i
        BY <1>3, <3>2
      <4>2. QED
        BY <1>3, <4>1
    <3>3. QED
      BY <3>2
  <2>3. Range(jobs) \subseteq {first} \union Range(jobs')
    BY <1>3, <2>1, <2>2
  <2>4. {first} \union Range(jobs') \subseteq Range(jobs)
    BY <1>3, <2>1
  <2>5. QED
    BY <2>3, <2>4
<1>8. last' = last /\ lost' = lost /\ turn' = turn /\ sent' = sent
  BY <1>1 DEF stream
<1>9. Records' = Records
  BY <1>8 DEF Records, Whole
<1>10. CASE first.kind = "original" /\ recorded' = recorded
  <2>1. \A i \in 1..Len(recorded), j \in 1..Len(jobs') : recorded[i].kind # jobs'[j].kind
    BY <1>3 DEF Once
  <2>2. Once'
    BY <1>5, <1>10, <2>1 DEF Once
  <2>3. Made' = Made
    BY <1>7, <1>8, <1>10 DEF Made, IsRecord
  <2>4. QED
    BY <1>8, <1>9, <2>2, <2>3 DEF Accounted
<1>11. CASE first.kind # "original" /\ recorded' = Append(recorded, first)
  <2>1. /\ Len(recorded') = n + 1 /\ recorded'[n + 1] = first
        /\ \A i \in 1..n : recorded'[i] = recorded[i]
    BY <1>4, <1>11
  <2>2. IsRecord(first)
    BY <1>11 DEF IsRecord
  <2>3. \A i \in 1..n : recorded[i].kind # first.kind
    BY <1>3 DEF Once
  <2>4. \A i \in 1..(n + 1) : i \in 1..n \/ i = n + 1
    BY <1>4
  <2>5. \A i \in 1..Len(recorded') : IsRecord(recorded'[i])
    BY <2>1, <2>2, <2>4 DEF Once
  <2>6. Single(recorded')
    BY <2>1, <2>3, <2>4 DEF Once, Single
  <2>7. \A i \in 1..Len(recorded'), j \in 1..Len(jobs') : recorded'[i].kind # jobs'[j].kind
    BY <1>3, <1>6, <2>1, <2>2, <2>4 DEF Once
  <2>8. Once'
    BY <1>5, <2>5, <2>6, <2>7 DEF Once
  <2>9. Range(recorded') = Range(recorded) \union {first}
    <3>1. /\ Range(recorded) = {recorded[i] : i \in 1..n}
          /\ Range(recorded') = {recorded'[i] : i \in 1..(n + 1)}
      BY <1>1, <2>1, RangeEquality
    <3>2. \A i \in 1..n : i \in 1..(n + 1)
      BY <1>4
    <3>3. n + 1 \in 1..(n + 1)
      BY <1>4
    <3>4. QED
      BY <2>1, <2>4, <3>1, <3>2, <3>3
  <2>10. Made' = Made
    BY <1>7, <1>8, <2>9 DEF Made
  <2>11. QED
    BY <1>8, <1>9, <2>8, <2>10 DEF Accounted
<1>12. QED
  BY <1>2, <1>10, <1>11

LEMMA LoseRecords ==
  ASSUME Formed, Once, Accounted, LoseJob
  PROVE  Once' /\ Accounted'
<1>1. /\ jobs' \in Seq(JobType) /\ UNCHANGED <<stream, last, recorded>>
  BY LoseJobIs
<1>2. PICK gone \in Seq(JobType) : jobs = gone \o jobs' /\ lost' = lost \union Range(gone)
  BY LoseJobIs
<1> DEFINE n == Len(gone)
<1>3. IsJoin(jobs, gone, jobs')
  BY <1>2, Zenon DEF IsJoin
<1>4. Range(jobs) = Range(gone) \union Range(jobs')
  BY <1>1, <1>3, RangeJoin
<1>5. n \in Nat /\ \A i \in 1..Len(jobs') : n + i \in 1..Len(jobs) /\ jobs[n + i] = jobs'[i]
  BY <1>1, <1>2, Joined
<1> HIDE DEF n
<1>6. Single(jobs')
  <2>1. SUFFICES ASSUME NEW i \in 1..Len(jobs'), NEW j \in 1..Len(jobs'),
                        IsRecord(jobs'[i]), jobs'[i].kind = jobs'[j].kind
                 PROVE  i = j
    BY DEF Single
  <2>2. n + i = n + j
    BY <1>5, <2>1 DEF Once, Single
  <2>3. QED
    BY <1>5, <2>2
<1>7. \A i \in 1..Len(recorded), j \in 1..Len(jobs') : recorded[i].kind # jobs'[j].kind
  BY <1>5 DEF Once
<1>8. recorded' = recorded /\ last' = last /\ turn' = turn /\ sent' = sent
      /\ lost' = lost \union Range(gone)
  BY <1>1, <1>2 DEF stream
<1>9. Once'
  BY <1>6, <1>7, <1>8 DEF Once
<1>10. Made' = Made
  BY <1>4, <1>8 DEF Made
<1>11. Records' = Records
  BY <1>8 DEF Records, Whole
<1>12. QED
  BY <1>8, <1>9, <1>10, <1>11 DEF Accounted

(* Once and Accounted are inductive, given the parts before them.          *)
LEMMA StepRecords ==
  ASSUME Formed, Phased, Ordered, Given, Once, Accounted, [Next]_vars
  PROVE  Once' /\ Accounted'
<1>1. CASE Transform
  BY <1>1, TransformRecords
<1>2. CASE Finish
  BY <1>2, FinishRecords
<1>3. CASE RunJob \/ LoseJob
  BY <1>3, RunRecords, LoseRecords
<1>4. CASE Receive
  <2>1. phase = "await" /\ UNCHANGED <<jobs, last, recorded, lost>>
    BY <1>4 DEF Receive
  <2>2. last = "no"
    BY <2>1 DEF Phased
  <2>3. QED
    BY <2>1, <2>2 DEF Once, Accounted, Made
<1>5. CASE Yield \/ Abort \/ Cancel \/ UNCHANGED vars
  <2>1. UNCHANGED <<turn, sent, jobs, last, recorded, lost>>
    BY <1>5 DEF Yield, Abort, Cancel, vars, stream, driver
  <2>2. QED
    BY <2>1 DEF Once, Accounted, Made, Records, Whole
<1>6. QED
  BY <1>1, <1>2, <1>3, <1>4, <1>5 DEF Next

LEMMA InitRecords == Init => Once /\ Accounted
<1> SUFFICES ASSUME Init PROVE Once /\ Accounted
  OBVIOUS
<1>1. recorded = <<>> /\ jobs = <<>> /\ lost = {} /\ last = "no"
  BY DEF Init
<1>2. QED
  BY <1>1, RangeEmpty DEF Once, Single, Accounted, Made

LEMMA RecordsOnce ==
  ASSUME Formed, Phased, Once, Accounted
  PROVE  RecordedOnce
<1>1. recorded \in Seq(JobType) /\ jobs \in Seq(JobType)
  BY DEF Formed
<1>2. \A i, j \in 1..Len(recorded) : recorded[i].kind = recorded[j].kind => i = j
  BY DEF Once, Single
<1>3. ASSUME recorded # <<>> PROVE last # "no"
  BY <1>3, NoneYet DEF Accounted
<1>4. ASSUME phase = "done"
      PROVE  {recorded[i] : i \in 1..Len(recorded)}
               \union {job \in lost : job.kind # "original"} = Records
  <2>1. jobs = <<>> /\ last # "no"
    BY <1>4 DEF Phased
  <2>2. Made = Records
    BY <2>1 DEF Accounted
  <2>3. Range(recorded) = {recorded[i] : i \in 1..Len(recorded)}
    BY <1>1, RangeEquality
  <2>4. \A job \in Range(recorded) : IsRecord(job)
    BY <2>3 DEF Once
  <2>5. Made = Range(recorded) \union {job \in lost : job.kind # "original"}
    BY <2>1, <2>4, RangeEmpty DEF Made, IsRecord
  <2>6. QED
    BY <2>2, <2>3, <2>5
<1>5. QED
  BY <1>2, <1>3, <1>4 DEF RecordedOnce, Records, Whole

(* Cost, health and transcript are recorded once each, of the whole        *)
(* response, by the time the client sees the end of the body, and only for *)
(* bodies that end: record_response gets the text given to the decoder,    *)
(* not what was shown.                                                     *)
THEOREM RecordsWhole ==
  ASSUME OneChoice
  PROVE  Spec => []RecordedOnce
<1>1. Init => StreamInv /\ Once /\ Accounted
  BY InitStream, InitRecords
<1>2. StreamInv /\ Once /\ Accounted /\ [Next]_vars => (StreamInv /\ Once /\ Accounted)'
  BY StepStream, StepRecords DEF StreamInv
<1>3. StreamInv /\ Once /\ Accounted => RecordedOnce
  BY RecordsOnce DEF StreamInv
<1>4. QED
  BY <1>1, <1>2, <1>3, PTL DEF Spec
============================================================================
