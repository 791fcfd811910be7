----------------------- MODULE RequestPipelineProofs ------------------------
(***************************************************************************)
(* TLAPS proofs about RequestPipeline: that nothing said or typed is lost  *)
(* on the way, that what the provider has cached stays, and that what the  *)
(* requests of a session report of its tool calls are the repeats of its   *)
(* longest history, for any number of requests and any texts, answers,     *)
(* tool results and faults.                                                *)
(***************************************************************************)
EXTENDS RequestPipeline, SequenceTheorems, FiniteSetTheorems, WellFoundedInduction, TLAPS

----------------------------------------------------------------------------
(* Places and texts *)

LEMMA MessageIs ==
  ASSUME NEW messages \in Seq(Message), NEW m \in DOMAIN messages
  PROVE  /\ messages[m].role \in {"user", "assistant", "tool"}
         /\ messages[m].blocks \in Seq(Block)
         /\ messages[m] = [role |-> messages[m].role, blocks |-> messages[m].blocks]
<1>1. messages[m] \in Message
  OBVIOUS
<1>2. QED
  BY <1>1 DEF Message

LEMMA MessageMade ==
  ASSUME NEW role \in {"user", "assistant", "tool"}, NEW blocks \in Seq(Block)
  PROVE  [role |-> role, blocks |-> blocks] \in Message
BY DEF Message

LEMMA PlaceIs ==
  ASSUME NEW messages, NEW role, NEW type, NEW p \in Place(messages, role, type)
  PROVE  /\ p = <<p[1], p[2]>>
         /\ p[1] \in DOMAIN messages /\ p[2] \in DOMAIN messages[p[1]].blocks
         /\ messages[p[1]].role = role
         /\ messages[p[1]].blocks[p[2]].type = type
BY DEF Place

LEMMA PlaceHas ==
  ASSUME NEW messages, NEW role, NEW type,
         NEW m \in DOMAIN messages, NEW b \in DOMAIN messages[m].blocks,
         messages[m].role = role, messages[m].blocks[b].type = type
  PROVE  <<m, b>> \in Place(messages, role, type)
<1>1. <<m, b>> \in {m} \X DOMAIN messages[m].blocks
  OBVIOUS
<1>2. <<m, b>> \in UNION {{k} \X DOMAIN messages[k].blocks : k \in DOMAIN messages}
  BY <1>1
<1>3. <<m, b>>[1] = m /\ <<m, b>>[2] = b
  OBVIOUS
<1>4. QED
  BY <1>2, <1>3 DEF Place

LEMMA PlaceType ==
  ASSUME NEW messages \in Seq(Message), NEW role, NEW type
  PROVE  Place(messages, role, type) \subseteq Nat \X Nat
<1>1. ASSUME NEW p \in Place(messages, role, type)
      PROVE  p \in Nat \X Nat
  <2>1. /\ p = <<p[1], p[2]>>
        /\ p[1] \in DOMAIN messages /\ p[2] \in DOMAIN messages[p[1]].blocks
    BY PlaceIs
  <2>3. messages[p[1]].blocks \in Seq(Block)
    BY <2>1, MessageIs
  <2>4. p[1] \in Nat /\ p[2] \in Nat
    BY <2>1, <2>3
  <2>5. QED
    BY <2>1, <2>4
<1>2. QED
  BY <1>1

LEMMA AlikePlaces ==
  ASSUME NEW a, NEW b, Alike(a, b), NEW role, NEW type
  PROVE  Place(a, role, type) = Place(b, role, type)
<1>1. ASSUME NEW p \in Place(a, role, type)
      PROVE  p \in Place(b, role, type)
  <2>1. /\ p = <<p[1], p[2]>>
        /\ p[1] \in DOMAIN a /\ p[2] \in DOMAIN a[p[1]].blocks
        /\ a[p[1]].role = role /\ a[p[1]].blocks[p[2]].type = type
    BY PlaceIs
  <2>2. /\ p[1] \in DOMAIN b /\ p[2] \in DOMAIN b[p[1]].blocks
        /\ b[p[1]].role = role /\ b[p[1]].blocks[p[2]].type = type
    BY <2>1 DEF Alike
  <2>3. <<p[1], p[2]>> \in Place(b, role, type)
    BY <2>2, PlaceHas
  <2>4. QED
    BY <2>1, <2>3
<1>2. ASSUME NEW p \in Place(b, role, type)
      PROVE  p \in Place(a, role, type)
  <2>1. /\ p = <<p[1], p[2]>>
        /\ p[1] \in DOMAIN b /\ p[2] \in DOMAIN b[p[1]].blocks
        /\ b[p[1]].role = role /\ b[p[1]].blocks[p[2]].type = type
    BY PlaceIs
  <2>2. /\ p[1] \in DOMAIN a /\ p[2] \in DOMAIN a[p[1]].blocks
        /\ a[p[1]].role = role /\ a[p[1]].blocks[p[2]].type = type
    BY <2>1 DEF Alike
  <2>3. <<p[1], p[2]>> \in Place(a, role, type)
    BY <2>2, PlaceHas
  <2>4. QED
    BY <2>1, <2>3
<1>3. QED
  BY <1>1, <1>2

(* A text replaced is there, and nothing else has changed.                 *)
LEMMA ReplacedIs ==
  ASSUME NEW messages \in Seq(Message), NEW texts,
         \A p \in DOMAIN texts : texts[p] \in Value,
         NEW role, DOMAIN texts \subseteq Place(messages, role, "text")
  PROVE  /\ Replaced(messages, texts) \in Seq(Message)
         /\ Alike(messages, Replaced(messages, texts))
         /\ \A other : \A p \in Place(messages, other, "text") :
              At(Replaced(messages, texts), p)
                = IF p \in DOMAIN texts THEN texts[p] ELSE At(messages, p)
<1> DEFINE new == Replaced(messages, texts)
           Blocks(m) == [b \in DOMAIN messages[m].blocks |->
                           IF <<m, b>> \in DOMAIN texts
                           THEN Text(texts[<<m, b>>], messages[m].blocks[b].id)
                           ELSE messages[m].blocks[b]]
<1>1. /\ DOMAIN new = DOMAIN messages
      /\ \A m \in DOMAIN messages :
           new[m] = [role |-> messages[m].role, blocks |-> Blocks(m)]
  BY DEF Replaced
<1>2. ASSUME NEW m \in DOMAIN messages
      PROVE  /\ messages[m].role \in {"user", "assistant", "tool"}
             /\ messages[m].blocks \in Seq(Block)
  BY MessageIs
<1>3. ASSUME NEW m \in DOMAIN messages, NEW b \in DOMAIN messages[m].blocks
      PROVE  messages[m].blocks[b] \in Block
  BY <1>2
<1>4. ASSUME NEW m \in DOMAIN messages, NEW b \in DOMAIN messages[m].blocks
      PROVE  /\ Blocks(m)[b] \in Block
             /\ Blocks(m)[b].type = messages[m].blocks[b].type
             /\ Blocks(m)[b].value = IF <<m, b>> \in DOMAIN texts THEN texts[<<m, b>>]
                                     ELSE messages[m].blocks[b].value
  <2>0. Blocks(m)[b] = IF <<m, b>> \in DOMAIN texts
                       THEN Text(texts[<<m, b>>], messages[m].blocks[b].id)
                       ELSE messages[m].blocks[b]
    OBVIOUS
  <2> HIDE DEF Blocks
  <2>1. CASE <<m, b>> \in DOMAIN texts
    <3>1. Blocks(m)[b] = Text(texts[<<m, b>>], messages[m].blocks[b].id)
      BY <2>0, <2>1
    <3>2. <<m, b>> \in Place(messages, role, "text")
      BY <2>1
    <3>3. messages[m].blocks[b].type = "text"
      BY <3>2, PlaceIs
    <3>4. messages[m].blocks[b].id \in Requests \X Nat
      BY <1>3 DEF Block
    <3>5. QED
      BY <2>1, <3>1, <3>3, <3>4 DEF Text, Block
  <2>2. CASE <<m, b>> \notin DOMAIN texts
    BY <1>3, <2>0, <2>2
  <2>3. QED
    BY <2>1, <2>2
<1>5. ASSUME NEW m \in DOMAIN messages
      PROVE  Blocks(m) \in Seq(Block)
  <2>1. DOMAIN messages[m].blocks = 1..Len(messages[m].blocks)
        /\ Len(messages[m].blocks) \in Nat
    BY <1>2
  <2>2. Blocks(m) \in [1..Len(messages[m].blocks) -> Block]
    BY <1>4, <2>1
  <2>3. QED
    BY <2>1, <2>2
<1> HIDE DEF Blocks
<1>6. ASSUME NEW m \in DOMAIN messages
      PROVE  new[m] \in Message
  <2> DEFINE blocks == Blocks(m)
  <2>1. blocks \in Seq(Block) /\ new[m] = [role |-> messages[m].role, blocks |-> blocks]
    BY <1>1, <1>5
  <2> HIDE DEF blocks, new
  <2>2. QED
    BY <2>1, <1>2, MessageMade
<1>7. new \in Seq(Message)
  <2>1. DOMAIN messages = 1..Len(messages) /\ Len(messages) \in Nat
    OBVIOUS
  <2>2. new = [m \in DOMAIN messages |-> new[m]]
    <3>1. new = [m \in DOMAIN messages |-> [role |-> messages[m].role, blocks |-> Blocks(m)]]
      BY DEF Replaced, Blocks
    <3> HIDE DEF new
    <3>2. QED
      BY <3>1
  <2> HIDE DEF new
  <2>3. new \in [1..Len(messages) -> Message]
    BY <2>1, <2>2, <1>6
  <2>4. QED
    BY <2>1, <2>3
<1>8. \A m \in DOMAIN messages : DOMAIN Blocks(m) = DOMAIN messages[m].blocks
  BY DEF Blocks
<1> HIDE DEF new
<1>9. \A m \in DOMAIN messages : new[m].role = messages[m].role /\ new[m].blocks = Blocks(m)
  BY <1>1
<1>10. Alike(messages, new)
  BY <1>1, <1>4, <1>8, <1>9 DEF Alike
<1>11. ASSUME NEW other, NEW p \in Place(messages, other, "text")
       PROVE  At(new, p) = IF p \in DOMAIN texts THEN texts[p] ELSE At(messages, p)
  <2>1. /\ p = <<p[1], p[2]>>
        /\ p[1] \in DOMAIN messages /\ p[2] \in DOMAIN messages[p[1]].blocks
    BY PlaceIs
  <2>2. At(new, p) = Blocks(p[1])[p[2]].value
    BY <2>1, <1>9 DEF At
  <2>3. Blocks(p[1])[p[2]].value = IF <<p[1], p[2]>> \in DOMAIN texts THEN texts[<<p[1], p[2]>>]
                                     ELSE messages[p[1]].blocks[p[2]].value
    BY <2>1, <1>4
  <2>4. QED
    BY <2>1, <2>2, <2>3 DEF At
<1>12. QED
  BY <1>7, <1>10, <1>11 DEF new

(* A set of places has a first one.                                        *)
LEMMA LeastNatural ==
  ASSUME NEW T, T \subseteq Nat, T # {}
  PROVE  \E m \in T : \A k \in T : m <= k
<1> DEFINE R == OpToRel(<, Nat)
<1>1. IsWellFoundedOn(R, Nat)
  BY NatLessThanWellFounded
<1>2. \A x, y \in Nat : x < y => <<x, y>> \in R
  BY DEF OpToRel
<1> HIDE DEF R
<1>3. PICK m \in T : \A k \in T : ~(<<k, m>> \in R)
  BY <1>1, WFMin
<1>4. \A k \in T : ~(k < m)
  BY <1>2, <1>3
<1>5. QED
  BY <1>4

LEMMA FirstIn ==
  ASSUME NEW places, places \subseteq Nat \X Nat, places # {}
  PROVE  First(places) \in places
<1> DEFINE M == {p[1] : p \in places}
<1>1. M \subseteq Nat /\ M # {}
  OBVIOUS
<1>2. PICK m \in M : \A k \in M : m <= k
  BY <1>1, LeastNatural
<1> DEFINE N == {p[2] : p \in {p \in places : p[1] = m}}
<1>3. N \subseteq Nat /\ N # {}
  BY <1>2
<1>4. PICK n \in N : \A k \in N : n <= k
  BY <1>3, LeastNatural
<1>5. PICK first \in places : first[1] = m /\ first[2] = n
  BY <1>4
<1>6. ASSUME NEW q \in places \ {first}
      PROVE  Before(first, q)
  <2>1. /\ q = <<q[1], q[2]>> /\ first = <<first[1], first[2]>>
        /\ q[1] \in Nat /\ q[2] \in Nat /\ m \in Nat /\ n \in Nat
    BY <1>1, <1>3
  <2>2. m <= q[1]
    BY <1>2
  <2>3. q[1] = m => n <= q[2] /\ q[2] # n
    BY <1>4, <1>5, <2>1
  <2>4. QED
    BY <1>5, <2>1, <2>2, <2>3 DEF Before
<1>7. QED
  BY <1>6 DEF First

(* Of messages one after the other, a place is in these or in those.       *)
Joined(a, b, c) ==
  /\ DOMAIN c = 1..(Len(a) + Len(b))
  /\ \A m \in 1..Len(a) : c[m] = a[m]
  /\ \A m \in 1..Len(b) : c[Len(a) + m] = b[m]

LEMMA JoinPlaces ==
  ASSUME NEW a \in Seq(Message), NEW b \in Seq(Message), NEW c, Joined(a, b, c),
         NEW role, NEW type, NEW p \in Place(c, role, type)
  PROVE  \/ p \in Place(a, role, type) /\ c[p[1]] = a[p[1]]
         \/ \E q \in Place(b, role, type) : q[2] = p[2] /\ c[p[1]] = b[q[1]]
<1>1. /\ p = <<p[1], p[2]>>
      /\ p[1] \in DOMAIN c /\ p[2] \in DOMAIN c[p[1]].blocks
      /\ c[p[1]].role = role /\ c[p[1]].blocks[p[2]].type = type
  BY PlaceIs
<1>2. CASE p[1] <= Len(a)
  <2>1. p[1] \in DOMAIN a /\ c[p[1]] = a[p[1]]
    BY <1>1, <1>2 DEF Joined
  <2>2. <<p[1], p[2]>> \in Place(a, role, type)
    BY <1>1, <2>1, PlaceHas
  <2>3. QED
    BY <1>1, <2>1, <2>2
<1>3. CASE ~(p[1] <= Len(a))
  <2> DEFINE m == p[1] - Len(a)
  <2>1. m \in DOMAIN b /\ c[p[1]] = b[m]
    <3>1. m \in 1..Len(b) /\ p[1] = Len(a) + m
      BY <1>1, <1>3 DEF Joined
    <3> HIDE DEF m
    <3>2. QED
      BY <3>1 DEF Joined
  <2>2. <<m, p[2]>> \in Place(b, role, type)
    BY <1>1, <2>1, PlaceHas
  <2>3. <<m, p[2]>>[1] = m /\ <<m, p[2]>>[2] = p[2]
    OBVIOUS
  <2> HIDE DEF m
  <2>4. QED
    BY <2>1, <2>2, <2>3
<1>4. QED
  BY <1>2, <1>3

(* What a history begins with is at the same places.                       *)
LEMMA PrefixPlaces ==
  ASSUME NEW a \in Seq(Message), NEW b \in Seq(Message), IsPrefix(a, b),
         NEW role, NEW type, NEW p \in Place(a, role, type)
  PROVE  p \in Place(b, role, type) /\ b[p[1]] = a[p[1]]
<1>1. /\ p = <<p[1], p[2]>>
      /\ p[1] \in DOMAIN a /\ p[2] \in DOMAIN a[p[1]].blocks
      /\ a[p[1]].role = role /\ a[p[1]].blocks[p[2]].type = type
  BY PlaceIs
<1>2. Len(a) <= Len(b) /\ SubSeq(a, 1, Len(a)) = SubSeq(b, 1, Len(a))
  BY DEF IsPrefix
<1>3. p[1] \in 1..Len(a) /\ p[1] \in 1..Len(b) /\ Len(a) \in Nat
  BY <1>1, <1>2
<1>4. SubSeq(a, 1, Len(a))[p[1]] = a[p[1]] /\ SubSeq(b, 1, Len(a))[p[1]] = b[p[1]]
  BY <1>2, <1>3
<1>5. b[p[1]] = a[p[1]] /\ p[1] \in DOMAIN b
  BY <1>2, <1>3, <1>4
<1>6. <<p[1], p[2]>> \in Place(b, role, type)
  BY <1>1, <1>5, PlaceHas
<1>7. QED
  BY <1>1, <1>5, <1>6

----------------------------------------------------------------------------
(* What is known of a request *)

Spot == Nat \X Nat

Stage == {"new", "substitute", "prepare", "sent", "done", "failed"}

OpOf(counts) ==
  [pc : Stage, history : Seq(Message), payload : Seq(Message), left : SUBSET Spot,
   session : Nat, counts : {counts}, gate : BOOLEAN, unread : SUBSET Spot,
   unkept : SUBSET Spot, answer : Answer, shown : Seq(DOMAIN KeyOf)]

LEMMA OpIs ==
  ASSUME Formed, NEW r \in Requests
  PROVE  op[r] \in OpOf(op[r].counts)
BY DEF Formed, OpOf, Spot, Stage

LEMMA OpParts ==
  ASSUME NEW counts, NEW o \in OpOf(counts)
  PROVE  /\ o.pc \in Stage /\ o.history \in Seq(Message) /\ o.payload \in Seq(Message)
         /\ o.left \in SUBSET Spot /\ o.session \in Nat /\ o.counts = counts
         /\ o.gate \in BOOLEAN /\ o.unread \in SUBSET Spot /\ o.unkept \in SUBSET Spot
         /\ o.answer \in Answer /\ o.shown \in Seq(DOMAIN KeyOf)
BY DEF OpOf

LEMMA Parts ==
  ASSUME Formed, NEW r \in Requests
  PROVE  /\ op[r].pc \in Stage
         /\ op[r].history \in Seq(Message) /\ op[r].payload \in Seq(Message)
         /\ op[r].left \in SUBSET Spot /\ op[r].session \in Nat
         /\ op[r].gate \in BOOLEAN /\ op[r].unread \in SUBSET Spot
         /\ op[r].unkept \in SUBSET Spot /\ op[r].answer \in Answer
         /\ op[r].shown \in Seq(DOMAIN KeyOf)
BY OpIs, OpParts

----------------------------------------------------------------------------
(* The parts of the invariant that speak of one request, as they depend on *)
(* the requests o, the originals k, the normal forms n and its record x.   *)

Key == {KeyOf[t] : t \in DOMAIN KeyOf}

ToldIn(o, history) ==
  /\ \A p \in AnswerTexts(history) :
       LET id == history[p[1]].blocks[p[2]].id
       IN  /\ o[id[1]].pc = "done" /\ id[2] \in DOMAIN o[id[1]].shown
           /\ At(history, p) \in Echoes(o[id[1]].shown[id[2]])
  /\ \A p \in UserTextsAt(history) : At(history, p) \in Range(UserText)

RestoredAt(o, k, x, p) ==
  LET id == x.history[p[1]].blocks[p[2]].id
      sent == At(x.payload, p)
      echoed == At(x.history, p)
  IN  \/ sent = echoed /\ p \in x.left \union x.unread
      \/ /\ p \notin x.left /\ sent = echoed
         /\ o[id[1]].shown[id[2]] = o[id[1]].answer.texts[id[2]]
      \/ p \notin x.left /\ sent = k[KeyOf[echoed]] /\ sent # None

RestoredIn(o, k, x) ==
  \A p \in AnswerTexts(x.history) : RestoredAt(o, k, x, p)

NormalizedIn(n, x) ==
  \A p \in UserTextsAt(x.history) :
    LET text == At(x.history, p)
        normal == Normal[text]
    IN  IF /\ x.pc \in {"sent", "done", "failed"} /\ x.gate
           /\ p \notin x.unkept /\ normal # text
        THEN /\ n[normal] # None
             /\ At(x.payload, p) = IF n[normal] = text THEN normal ELSE text
        ELSE At(x.payload, p) = text

Carried(o, k, n, x) ==
  /\ ToldIn(o, x.history) /\ Alike(x.history, x.payload)
  /\ RestoredIn(o, k, x) /\ NormalizedIn(n, x)
  /\ x.left \subseteq AnswerTexts(x.history)
  /\ x.pc # "substitute" => x.left = {}

LEMMA InvIs ==
  PassInv <=> /\ Formed /\ Genuine /\ Backed
              /\ \A r \in Requests : Carried(op, originals, normals, op[r])
<1>1. ASSUME NEW r \in Requests
      PROVE  Told(op[r].history) <=> ToldIn(op, op[r].history)
  BY DEF Told, ToldIn
<1>2. ASSUME NEW r \in Requests
      PROVE  Restored(r) <=> RestoredIn(op, originals, op[r])
  BY DEF Restored, RestoredIn, RestoredAt, Sent, Echoed, ShownRaw, OriginalOf
<1>3. ASSUME NEW r \in Requests
      PROVE  Normalized(r) <=> NormalizedIn(normals, op[r])
  BY DEF Normalized, NormalizedIn, Sent, Echoed, Forwarded
<1>4. QED
  BY <1>1, <1>2, <1>3 DEF PassInv, Carried

LEMMA InvNext ==
  PassInv' <=> /\ Formed' /\ Genuine' /\ Backed'
               /\ \A r \in Requests : Carried(op', originals', normals', op'[r])
<1>1. ASSUME NEW r \in Requests
      PROVE  Told(op[r].history)' <=> ToldIn(op', op'[r].history)
  BY DEF Told, ToldIn
<1>2. ASSUME NEW r \in Requests
      PROVE  Restored(r)' <=> RestoredIn(op', originals', op'[r])
  BY DEF Restored, RestoredIn, RestoredAt, Sent, Echoed, ShownRaw, OriginalOf
<1>3. ASSUME NEW r \in Requests
      PROVE  Normalized(r)' <=> NormalizedIn(normals', op'[r])
  BY DEF Normalized, NormalizedIn, Sent, Echoed, Forwarded
<1>4. QED
  BY <1>1, <1>2, <1>3 DEF PassInv, Carried

(* A block tells the request it is from.                                   *)
LEMMA PlaceId ==
  ASSUME NEW messages \in Seq(Message), NEW role, NEW type,
         NEW p \in Place(messages, role, type)
  PROVE  /\ messages[p[1]].blocks[p[2]] \in Block
         /\ messages[p[1]].blocks[p[2]].id \in Requests \X Nat
         /\ messages[p[1]].blocks[p[2]].id[1] \in Requests
         /\ messages[p[1]].blocks[p[2]].id[2] \in Nat
         /\ At(messages, p) \in Value
<1>1. p[1] \in DOMAIN messages /\ p[2] \in DOMAIN messages[p[1]].blocks
  BY PlaceIs
<1>2. messages[p[1]].blocks \in Seq(Block)
  BY <1>1, MessageIs
<1> DEFINE block == messages[p[1]].blocks[p[2]]
<1>3. block \in Block
  BY <1>1, <1>2
<1>4. block.id \in Requests \X Nat /\ block.value \in Value
  <2> HIDE DEF block
  <2>1. QED
    BY <1>3 DEF Block
<1>5. QED
  BY <1>3, <1>4 DEF At

LEMMA ToldStays ==
  ASSUME NEW o1, NEW o2, NEW history \in Seq(Message), ToldIn(o1, history),
         \A q \in Requests : o1[q].pc = "done" => o2[q] = o1[q]
  PROVE  ToldIn(o2, history)
<1>1. ASSUME NEW p \in AnswerTexts(history), NEW id,
             id = history[p[1]].blocks[p[2]].id
      PROVE  /\ o2[id[1]].pc = "done" /\ id[2] \in DOMAIN o2[id[1]].shown
             /\ At(history, p) \in Echoes(o2[id[1]].shown[id[2]])
  <2>1. id[1] \in Requests
    BY <1>1, PlaceId DEF AnswerTexts
  <2>2. /\ o1[id[1]].pc = "done" /\ id[2] \in DOMAIN o1[id[1]].shown
        /\ At(history, p) \in Echoes(o1[id[1]].shown[id[2]])
    BY <1>1 DEF ToldIn
  <2>3. QED
    BY <2>1, <2>2
<1>2. QED
  BY <1>1 DEF ToldIn

LEMMA ToldJoins ==
  ASSUME NEW o, NEW a \in Seq(Message), NEW b \in Seq(Message),
         ToldIn(o, a), ToldIn(o, b)
  PROVE  ToldIn(o, a \o b)
<1> DEFINE c == a \o b
<1>0. Joined(a, b, c)
  BY DEF Joined
<1> HIDE DEF c
<1>1. ASSUME NEW role, NEW type, NEW p \in Place(c, role, type)
      PROVE  \/ p \in Place(a, role, type) /\ c[p[1]] = a[p[1]]
             \/ \E q \in Place(b, role, type) : q[2] = p[2] /\ c[p[1]] = b[q[1]]
  BY <1>0, JoinPlaces
<1>2. ASSUME NEW p \in AnswerTexts(c), NEW id, id = c[p[1]].blocks[p[2]].id
      PROVE  /\ o[id[1]].pc = "done" /\ id[2] \in DOMAIN o[id[1]].shown
             /\ At(c, p) \in Echoes(o[id[1]].shown[id[2]])
  <2>1. CASE p \in AnswerTexts(a) /\ c[p[1]] = a[p[1]]
    BY <1>2, <2>1 DEF ToldIn, At
  <2>2. CASE \E q \in AnswerTexts(b) : q[2] = p[2] /\ c[p[1]] = b[q[1]]
    BY <1>2, <2>2 DEF ToldIn, At
  <2>3. QED
    BY <1>1, <2>1, <2>2 DEF AnswerTexts
<1>3. ASSUME NEW p \in UserTextsAt(c)
      PROVE  At(c, p) \in Range(UserText)
  <2>1. CASE p \in UserTextsAt(a) /\ c[p[1]] = a[p[1]]
    BY <2>1 DEF ToldIn, At
  <2>2. CASE \E q \in UserTextsAt(b) : q[2] = p[2] /\ c[p[1]] = b[q[1]]
    BY <2>2 DEF ToldIn, At
  <2>3. QED
    BY <1>1, <2>1, <2>2 DEF UserTextsAt
<1>4. ToldIn(o, c)
  BY <1>2, <1>3 DEF ToldIn
<1>5. QED
  BY <1>4 DEF c

(* What requests and store have settled stays settled.                     *)
LEMMA CarriedStays ==
  ASSUME NEW o1, NEW o2, NEW k1, NEW k2, NEW n1, NEW n2, NEW x,
         x.history \in Seq(Message),
         \A q \in Requests : o1[q].pc = "done" => o2[q] = o1[q],
         \A key \in Key : k1[key] # None => k2[key] = k1[key],
         \A normal \in Range(Normal) : n1[normal] # None => n2[normal] = n1[normal],
         Carried(o1, k1, n1, x)
  PROVE  Carried(o2, k2, n2, x)
<1>1. ToldIn(o1, x.history) /\ RestoredIn(o1, k1, x) /\ NormalizedIn(n1, x)
  BY DEF Carried
<1>2. ToldIn(o2, x.history)
  BY <1>1, ToldStays
<1>3. ASSUME NEW p \in AnswerTexts(x.history)
      PROVE  RestoredAt(o2, k2, x, p)
  <2> DEFINE id == x.history[p[1]].blocks[p[2]].id
             sent == At(x.payload, p)
             echoed == At(x.history, p)
  <2>1. id[1] \in Requests
    BY <1>3, PlaceId DEF AnswerTexts
  <2>2. o1[id[1]].pc = "done" /\ echoed \in DOMAIN KeyOf
    BY <1>1, <1>3 DEF ToldIn, Echoes
  <2>3. o2[id[1]] = o1[id[1]]
    BY <2>1, <2>2
  <2>4. KeyOf[echoed] \in Key
    BY <2>2 DEF Key
  <2>5. k1[KeyOf[echoed]] # None => k2[KeyOf[echoed]] = k1[KeyOf[echoed]]
    BY <2>4
  <2>6. \/ sent = echoed /\ p \in x.left \union x.unread
        \/ /\ p \notin x.left /\ sent = echoed
           /\ o1[id[1]].shown[id[2]] = o1[id[1]].answer.texts[id[2]]
        \/ p \notin x.left /\ sent = k1[KeyOf[echoed]] /\ sent # None
    BY <1>1, <1>3 DEF RestoredIn, RestoredAt
  <2>7. QED
    BY <2>3, <2>5, <2>6 DEF RestoredAt
<1>4. RestoredIn(o2, k2, x)
  BY <1>3 DEF RestoredIn
<1>5. ASSUME NEW p \in UserTextsAt(x.history)
      PROVE  LET text == At(x.history, p)
                 normal == Normal[text]
             IN
             IF /\ x.pc \in {"sent", "done", "failed"} /\ x.gate
                /\ p \notin x.unkept /\ normal # text
             THEN /\ n2[normal] # None
                  /\ At(x.payload, p) = IF n2[normal] = text THEN normal ELSE text
             ELSE At(x.payload, p) = text
  <2> DEFINE text == At(x.history, p)
             normal == Normal[text]
  <2>1. text \in Range(UserText)
    BY <1>1, <1>5 DEF ToldIn
  <2>2. normal \in Range(Normal)
    BY <1>5, <2>1, PipelineAssumption DEF Range
  <2>3. n1[normal] # None => n2[normal] = n1[normal]
    BY <2>2
  <2>4. QED
    BY <1>1, <1>5, <2>3 DEF NormalizedIn
<1>6. NormalizedIn(n2, x)
  BY <1>5 DEF NormalizedIn
<1>7. QED
  BY <1>2, <1>4, <1>6 DEF Carried

----------------------------------------------------------------------------
(* The steps *)

Originals == [Key -> (DOMAIN Rendering) \union {None}]
Normals == [Range(Normal) -> Range(UserText) \union {None}]

LEMMA FormedStep ==
  ASSUME Formed, NEW r \in Requests, NEW counts,
         DOMAIN op' = Requests, \A q \in Requests \ {r} : op'[q] = op[q],
         op'[r] \in OpOf(counts), originals' \in Originals, normals' \in Normals,
         session' \in Nat
  PROVE  Formed'
<1>1. ASSUME NEW q \in Requests
      PROVE  op'[q] \in OpOf(op'[q].counts)
  <2>1. CASE q = r
    <3>1. op'[r].counts = counts
      BY OpParts
    <3>2. QED
      BY <2>1, <3>1
  <2>2. CASE q # r
    BY <2>2, OpIs
  <2>3. QED
    BY <2>1, <2>2
<1>2. QED
  BY <1>1 DEF Formed, OpOf, Spot, Stage, Originals, Normals, Key

LEMMA FormedStore ==
  Formed => originals \in Originals /\ normals \in Normals /\ session \in Nat
BY DEF Formed, Originals, Normals, Key

LEMMA SameAnswers ==
  ASSUME Genuine, Backed, originals' = originals,
         \A q \in Requests : op'[q].answer = op[q].answer /\ op'[q].shown = op[q].shown,
         \A q \in Requests : op[q].pc = "done" => op'[q].pc = "done"
  PROVE  Genuine' /\ Backed'
BY DEF Genuine, Backed

LEMMA StepInv ==
  ASSUME PassInv, NEW r \in Requests, NEW counts, op[r].pc # "done",
         DOMAIN op' = Requests, \A q \in Requests \ {r} : op'[q] = op[q],
         op'[r] \in OpOf(counts), originals' \in Originals, normals' \in Normals,
         session' \in Nat,
         \A key \in Key : originals[key] # None => originals'[key] = originals[key],
         \A normal \in Range(Normal) :
           normals[normal] # None => normals'[normal] = normals[normal],
         Genuine', Backed', Carried(op, originals, normals', op'[r])
  PROVE  PassInv'
<1>1. Formed /\ \A q \in Requests : Carried(op, originals, normals, op[q])
  BY InvIs
<1>2. Formed'
  BY <1>1, FormedStep
<1>3. \A q \in Requests : op[q].pc = "done" => op'[q] = op[q]
  OBVIOUS
<1>4. ASSUME NEW q \in Requests
      PROVE  Carried(op', originals', normals', op'[q])
  <2>1. CASE q = r
    <3>1. op'[r].history \in Seq(Message)
      BY OpParts
    <3>2. QED
      BY <1>3, <2>1, <3>1, CarriedStays
  <2>2. CASE q # r
    <3>1. op[q].history \in Seq(Message)
      BY <1>1, Parts
    <3>2. Carried(op', originals', normals', op[q])
      BY <1>1, <1>3, <3>1, CarriedStays
    <3>3. QED
      BY <2>2, <3>2
  <2>3. QED
    BY <2>1, <2>2
<1>5. QED
  BY <1>2, <1>4, InvNext

LEMMA InitPass == Init => PassInv
<1> SUFFICES ASSUME Init PROVE PassInv
  OBVIOUS
<1> DEFINE x == [pc |-> "new", history |-> <<>>, payload |-> <<>>, left |-> {},
                 session |-> 0, counts |-> NoCounts, gate |-> FALSE,
                 unread |-> {}, unkept |-> {}, answer |-> NoAnswer, shown |-> <<>>]
<1>1. /\ op = [r \in Requests |-> x]
      /\ originals = [k \in Key |-> None] /\ normals = [t \in Range(Normal) |-> None]
      /\ session = 0
  BY DEF Init, Key
<1>2. NoAnswer \in Answer
  BY DEF NoAnswer, Answer
<1>3. x \in OpOf(NoCounts)
  BY <1>2 DEF OpOf, Stage
<1>4. x.counts = NoCounts
  OBVIOUS
<1> HIDE DEF x
<1>5. Formed
  <2>1. \A r \in Requests : op[r] \in OpOf(op[r].counts)
    BY <1>1, <1>3, <1>4
  <2>2. originals \in Originals /\ normals \in Normals
    BY <1>1 DEF Originals, Normals
  <2>3. DOMAIN op = Requests /\ session \in Nat
    BY <1>1
  <2>4. QED
    BY <2>1, <2>2, <2>3 DEF Formed, OpOf, Spot, Stage, Originals, Normals, Key
<1>6. Genuine
  BY <1>1 DEF Genuine
<1>7. /\ x.history = <<>> /\ x.payload = <<>> /\ x.left = {} /\ x.shown = <<>>
      /\ x.answer.texts = <<>>
  BY DEF x, NoAnswer
<1>8. Backed
  BY <1>1, <1>7 DEF Backed
<1>9. \A role, type : Place(<<>>, role, type) = {}
  BY DEF Place
<1>10. Carried(op, originals, normals, x)
  <2>1. AnswerTexts(x.history) = {} /\ UserTextsAt(x.history) = {}
    BY <1>7, <1>9 DEF AnswerTexts, UserTextsAt
  <2>2. Alike(x.history, x.payload)
    BY <1>7 DEF Alike
  <2>3. QED
    BY <1>7, <2>1, <2>2 DEF Carried, ToldIn, RestoredIn, NormalizedIn
<1>11. QED
  BY <1>1, <1>5, <1>6, <1>8, <1>10, InvIs

(* A step that leaves the store, and of its request, what is carried.      *)
LEMMA MovesOn ==
  ASSUME PassInv, NEW r \in Requests, NEW counts, op[r].pc # "done",
         DOMAIN op' = Requests, \A q \in Requests \ {r} : op'[q] = op[q],
         op'[r] \in OpOf(counts), UNCHANGED <<originals, normals, session>>,
         op'[r].answer = op[r].answer, op'[r].shown = op[r].shown,
         Carried(op, originals, normals, op'[r])
  PROVE  PassInv'
<1>1. Formed /\ Genuine /\ Backed
  BY InvIs
<1>2. originals \in Originals /\ normals \in Normals /\ session \in Nat
  BY <1>1, FormedStore
<1>3. \A q \in Requests : op'[q].answer = op[q].answer /\ op'[q].shown = op[q].shown
  OBVIOUS
<1>4. Genuine' /\ Backed'
  <2>1. \A q \in Requests : op[q].pc = "done" => op'[q].pc = "done"
    OBVIOUS
  <2>2. QED
    BY <1>1, <1>3, <2>1, SameAnswers
<1>5. QED
  BY <1>2, <1>4, StepInv

(* The record of a request that goes on with what it has.                  *)
LEMMA SameCarried ==
  ASSUME NEW o, NEW k, NEW n, NEW x, NEW y, Carried(o, k, n, x),
         y.history = x.history, y.payload = x.payload, y.left = x.left,
         y.unread = x.unread, y.unkept = x.unkept, y.gate = x.gate,
         (y.pc \in {"sent", "done", "failed"}) <=> (x.pc \in {"sent", "done", "failed"}),
         y.pc # "substitute" => y.left = {}
  PROVE  Carried(o, k, n, y)
<1>1. ToldIn(o, y.history) /\ Alike(y.history, y.payload)
  BY DEF Carried
<1>2. RestoredIn(o, k, y)
  <2>1. RestoredIn(o, k, x)
    BY DEF Carried
  <2>2. ASSUME NEW p \in AnswerTexts(y.history)
        PROVE  RestoredAt(o, k, y, p)
    <3> DEFINE id == x.history[p[1]].blocks[p[2]].id
               sent == At(x.payload, p)
               echoed == At(x.history, p)
    <3>1. p \in AnswerTexts(x.history)
      OBVIOUS
    <3>2. \/ sent = echoed /\ p \in x.left \union x.unread
          \/ /\ p \notin x.left /\ sent = echoed
             /\ o[id[1]].shown[id[2]] = o[id[1]].answer.texts[id[2]]
          \/ p \notin x.left /\ sent = k[KeyOf[echoed]] /\ sent # None
      BY <2>1, <3>1 DEF RestoredIn, RestoredAt
    <3>3. /\ sent = At(y.payload, p) /\ echoed = At(y.history, p)
          /\ id = y.history[p[1]].blocks[p[2]].id
      OBVIOUS
    <3>4. p \in x.left \union x.unread <=> p \in y.left \union y.unread
      OBVIOUS
    <3> HIDE DEF id, sent, echoed
    <3>5. QED
      BY <3>2, <3>3, <3>4 DEF RestoredAt
  <2>3. QED
    BY <2>2 DEF RestoredIn
<1>3. NormalizedIn(n, y)
  BY DEF Carried, NormalizedIn
<1>4. QED
  BY <1>1, <1>2, <1>3 DEF Carried

LEMMA FailParts ==
  ASSUME NEW counts, NEW o \in OpOf(counts), NEW x, x = [o EXCEPT !.pc = "failed"]
  PROVE  /\ x \in OpOf(counts) /\ x.pc = "failed"
         /\ x.history = o.history /\ x.payload = o.payload /\ x.left = o.left
         /\ x.unread = o.unread /\ x.unkept = o.unkept /\ x.gate = o.gate
         /\ x.answer = o.answer /\ x.shown = o.shown
BY DEF OpOf, Stage

LEMMA FailInv ==
  ASSUME PassInv, NEW r \in Requests, Fail(r)
  PROVE  PassInv'
<1>1. /\ op[r].pc = "sent" /\ op' = [op EXCEPT ![r].pc = "failed"]
      /\ UNCHANGED <<originals, normals, session>>
  BY DEF Fail
<1>2. Formed /\ Carried(op, originals, normals, op[r])
  BY InvIs
<1>3. /\ DOMAIN op' = Requests /\ \A q \in Requests \ {r} : op'[q] = op[q]
      /\ op'[r] = [op[r] EXCEPT !.pc = "failed"]
  BY <1>1, <1>2 DEF Formed
<1>4. op[r] \in OpOf(op[r].counts)
  BY <1>2, OpIs
<1>5. /\ op'[r] \in OpOf(op[r].counts) /\ op'[r].pc = "failed"
      /\ op'[r].history = op[r].history /\ op'[r].payload = op[r].payload
      /\ op'[r].left = op[r].left /\ op'[r].unread = op[r].unread
      /\ op'[r].unkept = op[r].unkept /\ op'[r].gate = op[r].gate
      /\ op'[r].answer = op[r].answer /\ op'[r].shown = op[r].shown
  BY <1>3, <1>4, FailParts
<1>6. op[r].left = {}
  BY <1>1, <1>2 DEF Carried
<1>7. Carried(op, originals, normals, op'[r])
  BY <1>1, <1>2, <1>5, <1>6, SameCarried
<1>8. QED
  BY <1>1, <1>3, <1>5, <1>7, MovesOn

LEMMA OpenInv ==
  ASSUME PassInv, NEW r \in Requests, NEW events, OpenWith(r, events)
  PROVE  PassInv'
<1> DEFINE seen == Observe(entry, events).counts
<1>1. /\ op[r].pc = "substitute" /\ op[r].left = {}
      /\ op' = [op EXCEPT ![r].pc = "prepare", ![r].session = session,
                          ![r].counts = seen]
      /\ UNCHANGED <<originals, normals, session>>
  BY DEF OpenWith
<1> HIDE DEF seen
<1>2. Formed /\ Carried(op, originals, normals, op[r])
  BY InvIs
<1>3. /\ DOMAIN op' = Requests /\ \A q \in Requests \ {r} : op'[q] = op[q]
      /\ op'[r] = [op[r] EXCEPT !.pc = "prepare", !.session = session, !.counts = seen]
  BY <1>1, <1>2 DEF Formed
<1>4. op[r] \in OpOf(op[r].counts) /\ session \in Nat
  BY <1>2, OpIs, FormedStore
<1>5. /\ op'[r] \in OpOf(seen) /\ op'[r].pc = "prepare"
      /\ op'[r].history = op[r].history /\ op'[r].payload = op[r].payload
      /\ op'[r].left = op[r].left /\ op'[r].unread = op[r].unread
      /\ op'[r].unkept = op[r].unkept /\ op'[r].gate = op[r].gate
      /\ op'[r].answer = op[r].answer /\ op'[r].shown = op[r].shown
  <2> DEFINE o == op[r]
             x == op'[r]
  <2>1. /\ o \in OpOf(op[r].counts) /\ session \in Nat
        /\ x = [o EXCEPT !.pc = "prepare", !.session = session, !.counts = seen]
    BY <1>3, <1>4
  <2> DEFINE s == session
  <2>a. s \in Nat /\ x = [o EXCEPT !.pc = "prepare", !.session = s, !.counts = seen]
    BY <2>1
  <2> HIDE DEF o, x, s
  <2>2. /\ x \in OpOf(seen) /\ x.pc = "prepare"
        /\ x.history = o.history /\ x.payload = o.payload /\ x.left = o.left
        /\ x.unread = o.unread /\ x.unkept = o.unkept /\ x.gate = o.gate
        /\ x.answer = o.answer /\ x.shown = o.shown
    BY <2>1, <2>a DEF OpOf, Stage
  <2>3. QED
    BY <2>2 DEF o, x
<1>6. Carried(op, originals, normals, op'[r])
  BY <1>1, <1>2, <1>5, SameCarried
<1>7. QED
  BY <1>1, <1>3, <1>5, <1>6, MovesOn

LEMMA ForgetInv ==
  ASSUME PassInv, Forget
  PROVE  PassInv'
<1>1. UNCHANGED <<originals, normals, op>> /\ session' = session + 1
  BY DEF Forget
<1>2. Formed /\ Genuine /\ Backed
      /\ \A r \in Requests : Carried(op, originals, normals, op[r])
  BY InvIs
<1>3. Formed'
  BY <1>1, <1>2 DEF Formed
<1>4. Genuine' /\ Backed'
  BY <1>1, <1>2 DEF Genuine, Backed
<1>5. QED
  BY <1>1, <1>2, <1>3, <1>4, InvNext

LEMMA StutterInv ==
  ASSUME PassInv, UNCHANGED vars
  PROVE  PassInv'
<1>1. UNCHANGED <<originals, normals, op, session>>
  BY DEF vars
<1>2. Formed /\ Genuine /\ Backed
      /\ \A r \in Requests : Carried(op, originals, normals, op[r])
  BY InvIs
<1>3. Formed'
  BY <1>1, <1>2 DEF Formed
<1>4. Genuine' /\ Backed'
  BY <1>1, <1>2 DEF Genuine, Backed
<1>5. QED
  BY <1>1, <1>2, <1>3, <1>4, InvNext

----------------------------------------------------------------------------
(* What the client may send *)

LEMMA TextType ==
  ASSUME NEW text \in Value, NEW id \in Requests \X Nat
  PROVE  Text(text, id) \in Block
BY DEF Text, Block

LEMMA TypedTold ==
  ASSUME NEW r \in Requests
  PROVE  <<Typed(r)>> \in Seq(Message) /\ ToldIn(op, <<Typed(r)>>)
<1> DEFINE text == Text(UserText[r], <<r, 0>>)
<1>1. UserText[r] \in Range(UserText) /\ UserText[r] \in Value
  BY PipelineAssumption DEF Range, Value
<1>2. text \in Block /\ text.value = UserText[r] /\ text.type = "text"
  <2>1. <<r, 0>> \in Requests \X Nat
    OBVIOUS
  <2>2. text \in Block
    BY <1>1, <2>1, TextType
  <2>3. QED
    BY <2>2 DEF Text
<1> HIDE DEF text
<1> DEFINE blocks == <<text>>
<1>3. blocks \in Seq(Block) /\ DOMAIN blocks = {1} /\ blocks[1] = text
  BY <1>2
<1> HIDE DEF blocks
<1>4. Typed(r) = [role |-> "user", blocks |-> blocks]
  BY DEF Typed, blocks, text
<1> DEFINE message == Typed(r)
<1>5. message \in Message /\ message.role = "user" /\ message.blocks = blocks
  BY <1>3, <1>4, MessageMade
<1> HIDE DEF message
<1> DEFINE history == <<message>>
<1>6. history \in Seq(Message) /\ DOMAIN history = {1} /\ history[1] = message
  BY <1>5
<1> HIDE DEF history
<1>7. AnswerTexts(history) = {}
  <2>1. ASSUME NEW p \in AnswerTexts(history) PROVE FALSE
    <3>1. p[1] \in DOMAIN history /\ history[p[1]].role = "assistant"
      BY PlaceIs DEF AnswerTexts
    <3>2. QED
      BY <3>1, <1>5, <1>6
  <2>2. QED
    BY <2>1
<1>8. ASSUME NEW p \in UserTextsAt(history)
      PROVE  At(history, p) \in Range(UserText)
  <2>1. p[1] \in DOMAIN history /\ p[2] \in DOMAIN history[p[1]].blocks
    BY PlaceIs DEF UserTextsAt
  <2>2. p[1] = 1 /\ p[2] = 1
    BY <2>1, <1>3, <1>5, <1>6
  <2>3. QED
    BY <2>2, <1>1, <1>2, <1>3, <1>5, <1>6 DEF At
<1>9. ToldIn(op, history)
  BY <1>7, <1>8 DEF ToldIn
<1>10. QED
  BY <1>6, <1>9 DEF history, message

(* Blocks of texts and calls, one after the other.                         *)
LEMMA AnswerTold ==
  ASSUME PassInv, NEW q \in Requests, op[q].pc = "done",
         NEW t \in [1..Len(op[q].shown) -> DOMAIN KeyOf],
         \A k \in DOMAIN t : t[k] \in Echoes(op[q].shown[k])
  PROVE  /\ <<AnswerMessage(q, t)>> \in Seq(Message)
         /\ ToldIn(op, <<AnswerMessage(q, t)>>)
<1>1. /\ op[q].answer \in Answer /\ op[q].shown \in Seq(DOMAIN KeyOf)
  BY InvIs, Parts
<1> DEFINE calls == op[q].answer.calls
           n == Len(op[q].shown)
           texts == [k \in 1..Len(t) |-> Text(t[k], <<q, k>>)]
           others == [k \in 1..Len(calls) |->
                        [type |-> "call", value |-> calls[k], id |-> <<q, k>>,
                         failed |-> FALSE]]
<1>2. n \in Nat /\ DOMAIN t = 1..n /\ DOMAIN op[q].shown = 1..n
  BY <1>1
<1>3. t \in Seq(DOMAIN KeyOf) /\ Len(t) = n
  BY <1>2
<1>4. calls \in Seq(DOMAIN Calls)
  BY <1>1 DEF Answer
<1> HIDE DEF n, calls
<1>5. ASSUME NEW k \in 1..n
      PROVE  /\ texts[k] \in Block /\ texts[k].value = t[k] /\ texts[k].id = <<q, k>>
  <2>1. t[k] \in Value /\ <<q, k>> \in Requests \X Nat
    BY <1>2, <1>3 DEF Value
  <2>2. Text(t[k], <<q, k>>) \in Block
    BY <2>1, TextType
  <2>3. texts[k] = Text(t[k], <<q, k>>)
    BY <1>3
  <2>4. Text(t[k], <<q, k>>).value = t[k] /\ Text(t[k], <<q, k>>).id = <<q, k>>
    BY DEF Text
  <2> HIDE DEF texts
  <2>5. QED
    BY <2>2, <2>3, <2>4
<1>6. ASSUME NEW k \in 1..Len(calls)
      PROVE  others[k] \in Block /\ others[k].type = "call"
  <2>1. calls[k] \in Value /\ <<q, k>> \in Requests \X Nat
    BY <1>4 DEF Value
  <2> DEFINE id == <<q, k>>
             call == calls[k]
  <2>2. others[k] = [type |-> "call", value |-> call, id |-> id, failed |-> FALSE]
    OBVIOUS
  <2>3. call \in Value /\ id \in Requests \X Nat
    BY <2>1
  <2> HIDE DEF others, id, call
  <2>4. QED
    BY <2>2, <2>3 DEF Block
<1>7. texts \in Seq(Block) /\ Len(texts) = n
  <2>1. texts \in [1..n -> Block]
    BY <1>3, <1>5
  <2> HIDE DEF texts
  <2>2. QED
    BY <2>1, <1>2
<1>8. others \in Seq(Block) /\ Len(others) = Len(calls)
  <2>1. others \in [1..Len(calls) -> Block]
    BY <1>6
  <2> HIDE DEF others
  <2>2. QED
    BY <2>1, <1>4
<1> DEFINE blocks == texts \o others
<1> HIDE DEF texts, others
<1>9. /\ blocks \in Seq(Block)
      /\ \A k \in 1..n : blocks[k] = texts[k]
      /\ \A k \in DOMAIN blocks : k \in 1..n \/ (\E j \in 1..Len(calls) : blocks[k] = others[j])
  <2>1. blocks \in Seq(Block) /\ \A k \in 1..n : blocks[k] = texts[k]
    BY <1>2, <1>7, <1>8
  <2>2. ASSUME NEW k \in DOMAIN blocks, k \notin 1..n
        PROVE  \E j \in 1..Len(calls) : blocks[k] = others[j]
    <3>1. k - n \in 1..Len(calls) /\ blocks[k] = others[k - n]
      BY <2>2, <1>2, <1>4, <1>7, <1>8
    <3>2. QED
      BY <3>1
  <2>3. QED
    BY <2>1, <2>2
<1>10. AnswerMessage(q, t) = [role |-> "assistant", blocks |-> blocks]
  BY DEF AnswerMessage, blocks, texts, others, calls
<1> DEFINE message == AnswerMessage(q, t)
<1> HIDE DEF blocks
<1>11. message \in Message /\ message.role = "assistant" /\ message.blocks = blocks
  <2>1. blocks \in Seq(Block)
    BY <1>9
  <2>2. QED
    BY <2>1, <1>10, MessageMade
<1> HIDE DEF message
<1> DEFINE history == <<message>>
<1>12. history \in Seq(Message) /\ DOMAIN history = {1} /\ history[1] = message
  BY <1>11
<1> HIDE DEF history
<1>13. UserTextsAt(history) = {}
  <2>1. ASSUME NEW p \in UserTextsAt(history) PROVE FALSE
    <3>1. p[1] \in DOMAIN history /\ history[p[1]].role = "user"
      BY PlaceIs DEF UserTextsAt
    <3>2. QED
      BY <3>1, <1>11, <1>12
  <2>2. QED
    BY <2>1
<1>14. ASSUME NEW p \in AnswerTexts(history), NEW id, id = history[p[1]].blocks[p[2]].id
       PROVE  /\ op[id[1]].pc = "done" /\ id[2] \in DOMAIN op[id[1]].shown
              /\ At(history, p) \in Echoes(op[id[1]].shown[id[2]])
  <2>1. /\ p[1] \in DOMAIN history /\ p[2] \in DOMAIN history[p[1]].blocks
        /\ history[p[1]].blocks[p[2]].type = "text"
    BY PlaceIs DEF AnswerTexts
  <2> DEFINE k == p[2]
  <2>2. p[1] = 1 /\ k \in DOMAIN blocks /\ history[p[1]].blocks[p[2]] = blocks[k]
    BY <2>1, <1>11, <1>12
  <2>3. k \in 1..n
    BY <2>1, <2>2, <1>6, <1>9
  <2>4. blocks[k] = texts[k] /\ texts[k].value = t[k] /\ texts[k].id = <<q, k>>
    BY <2>3, <1>5, <1>9 DEF texts
  <2>5. id[1] = q /\ id[2] = k /\ At(history, p) = t[k]
    BY <1>14, <2>2, <2>4 DEF At
  <2>6. QED
    BY <2>3, <2>5, <1>2
<1>15. ToldIn(op, history)
  BY <1>13, <1>14 DEF ToldIn
<1>16. QED
  BY <1>12, <1>15 DEF history, message

LEMMA ResultType ==
  ASSUME NEW q \in Requests, NEW k \in Nat, NEW result \in UNION Range(ToolResults)
  PROVE  ResultBlock(q, k, result) \in Block /\ ResultBlock(q, k, result).type = "result"
<1>1. result.failed \in BOOLEAN
  BY PipelineAssumption DEF Range
<1>2. result.value \in Value
  BY DEF Value
<1> DEFINE id == <<q, k>>
           value == result.value
           failed == result.failed
<1>3. /\ id \in Requests \X Nat /\ value \in Value /\ failed \in BOOLEAN
      /\ ResultBlock(q, k, result) = [type |-> "result", value |-> value, id |-> id,
                                      failed |-> failed]
  BY <1>1, <1>2 DEF ResultBlock
<1> HIDE DEF id, value, failed
<1>4. QED
  BY <1>3 DEF Block

(* Results are told of no text.                                            *)
LEMMA ResultsTold ==
  ASSUME NEW q \in Requests, NEW n \in Nat,
         NEW results \in [1..n -> UNION Range(ToolResults)]
  PROVE  /\ ResultMessages(q, results) \in Seq(Message)
         /\ ToldIn(op, ResultMessages(q, results))
<1> DEFINE blocks == [k \in 1..Len(results) |-> ResultBlock(q, k, results[k])]
           new == ResultMessages(q, results)
<1>1. results \in Seq(UNION Range(ToolResults)) /\ Len(results) = n
  OBVIOUS
<1>2. ASSUME NEW k \in 1..n
      PROVE  blocks[k] \in Block /\ blocks[k].type = "result"
  <2>1. results[k] \in UNION Range(ToolResults)
    OBVIOUS
  <2>2. blocks[k] = ResultBlock(q, k, results[k])
    BY <1>1
  <2> HIDE DEF blocks
  <2>3. QED
    BY <2>1, <2>2, ResultType
<1>3. blocks \in Seq(Block) /\ DOMAIN blocks = 1..n
  <2>1. blocks \in [1..n -> Block]
    BY <1>1, <1>2
  <2> HIDE DEF blocks
  <2>2. QED
    BY <2>1
<1>4. new = IF protocol = "openai"
            THEN [k \in 1..n |-> [role |-> "tool", blocks |-> <<blocks[k]>>]]
            ELSE << [role |-> "user", blocks |-> blocks] >>
  BY <1>1 DEF ResultMessages
<1> HIDE DEF new, blocks
<1>5. /\ new \in Seq(Message)
      /\ \A m \in DOMAIN new : \A b \in DOMAIN new[m].blocks :
           new[m].blocks[b].type = "result"
  <2>1. CASE protocol = "openai"
    <3>1. ASSUME NEW k \in 1..n
          PROVE  /\ new[k] \in Message /\ DOMAIN new[k].blocks = {1}
                 /\ new[k].blocks[1].type = "result"
      <4> DEFINE single == <<blocks[k]>>
      <4>1. /\ single \in Seq(Block) /\ DOMAIN single = {1}
            /\ single[1].type = "result"
        BY <1>2
      <4>2. new[k] = [role |-> "tool", blocks |-> single]
        BY <1>4, <2>1
      <4> HIDE DEF single
      <4>3. QED
        BY <4>1, <4>2, MessageMade
    <3>2. new = [k \in 1..n |-> new[k]]
      <4>1. new = [k \in 1..n |-> [role |-> "tool", blocks |-> <<blocks[k]>>]]
        BY <1>4, <2>1
      <4>2. QED
        BY <4>1
    <3>3. new \in [1..n -> Message]
      BY <3>1, <3>2
    <3>4. new \in Seq(Message) /\ DOMAIN new = 1..n
      BY <3>3
    <3>5. QED
      BY <3>1, <3>4
  <2>2. CASE protocol # "openai"
    <3> DEFINE message == [role |-> "user", blocks |-> blocks]
    <3>1. message \in Message /\ message.blocks = blocks
      BY <1>3, MessageMade
    <3>2. new = <<message>>
      BY <1>4, <2>2
    <3> HIDE DEF message
    <3>3. new \in Seq(Message) /\ DOMAIN new = {1} /\ new[1] = message
      BY <3>1, <3>2
    <3>4. QED
      BY <3>1, <3>3, <1>2, <1>3
  <2>3. QED
    BY <2>1, <2>2
<1>6. \A role : Place(new, role, "text") = {}
  <2>1. ASSUME NEW role, NEW p \in Place(new, role, "text") PROVE FALSE
    <3>1. /\ p[1] \in DOMAIN new /\ p[2] \in DOMAIN new[p[1]].blocks
          /\ new[p[1]].blocks[p[2]].type = "text"
      BY PlaceIs
    <3>2. QED
      BY <3>1, <1>5
  <2>2. QED
    BY <2>1
<1>7. ToldIn(op, new)
  BY <1>6 DEF ToldIn, AnswerTexts, UserTextsAt
<1>8. QED
  BY <1>5, <1>7 DEF new

LEMMA HistoryTold ==
  ASSUME PassInv, NEW r \in Requests, NEW history \in Histories(r)
  PROVE  history \in Seq(Message) /\ ToldIn(op, history)
<1>1. /\ Formed
      /\ \A q \in Requests : Carried(op, originals, normals, op[q])
  BY InvIs
<1>2. CASE history = <<Typed(r)>>
  BY <1>2, TypedTold
<1>3. ASSUME NEW q \in Requests
      PROVE  op[q].history \in Seq(Message) /\ ToldIn(op, op[q].history)
  BY <1>1, Parts DEF Carried
<1>4. ASSUME NEW q \in Requests, op[q].pc = "done", history \in Continuations(r, q)
      PROVE  history \in Seq(Message) /\ ToldIn(op, history)
  <2> DEFINE calls == op[q].answer.calls
             next == IF calls = <<>> THEN {<<Typed(r)>>}
                     ELSE {ResultMessages(q, results) :
                             results \in {f \in [1..Len(calls) -> UNION Range(ToolResults)] :
                                           \A k \in DOMAIN f : f[k] \in ToolResults[calls[k]]}}
             said == {t \in [1..Len(op[q].shown) -> DOMAIN KeyOf] :
                        \A k \in DOMAIN t : t[k] \in Echoes(op[q].shown[k])}
  <2>1. PICK t \in said, m \in next :
          history = op[q].history \o <<AnswerMessage(q, t)>> \o m
    <3>1. Continuations(r, q) =
            {op[q].history \o <<AnswerMessage(q, t)>> \o m : t \in said, m \in next}
      BY DEF Continuations
    <3> HIDE DEF said, next, calls
    <3>2. QED
      BY <1>4, <3>1
  <2>2. Len(calls) \in Nat
    <3>1. op[q].answer \in Answer
      BY <1>1, Parts
    <3>2. QED
      BY <3>1 DEF Answer
  <2>3. m \in Seq(Message) /\ ToldIn(op, m)
    <3>1. CASE calls = <<>>
      BY <2>1, <3>1, TypedTold
    <3>2. CASE calls # <<>>
      <4>1. PICK results \in [1..Len(calls) -> UNION Range(ToolResults)] :
              m = ResultMessages(q, results)
        BY <2>1, <3>2
      <4>2. QED
        BY <4>1, <2>2, ResultsTold
    <3>3. QED
      BY <3>1, <3>2
  <2>4. <<AnswerMessage(q, t)>> \in Seq(Message) /\ ToldIn(op, <<AnswerMessage(q, t)>>)
    BY <2>1, <1>4, AnswerTold
  <2> DEFINE a == op[q].history
             b == <<AnswerMessage(q, t)>>
             c == a \o b
  <2>5. a \in Seq(Message) /\ b \in Seq(Message) /\ ToldIn(op, a) /\ ToldIn(op, b)
    BY <1>3, <2>4
  <2> HIDE DEF a, b
  <2>6. c \in Seq(Message) /\ ToldIn(op, c)
    BY <2>5, ToldJoins
  <2>7. history = c \o m
    BY <2>1 DEF a, b
  <2> HIDE DEF c
  <2>8. c \o m \in Seq(Message) /\ ToldIn(op, c \o m)
    BY <2>3, <2>6, ToldJoins
  <2>9. QED
    BY <2>7, <2>8
<1>5. QED
  BY <1>2, <1>3, <1>4 DEF Histories

LEMMA AlikeSelf == \A a : Alike(a, a)
BY DEF Alike

LEMMA BeginInv ==
  ASSUME PassInv, NEW r \in Requests, Begin(r)
  PROVE  PassInv'
<1>1. PICK h \in Histories(r) :
        op' = [op EXCEPT ![r].pc = "substitute", ![r].history = h,
                         ![r].payload = h, ![r].left = AnswerTexts(h)]
  BY DEF Begin
<1>2. op[r].pc = "new" /\ UNCHANGED <<originals, normals, session>>
  BY DEF Begin
<1> DEFINE left == AnswerTexts(h)
<1>3. h \in Seq(Message) /\ ToldIn(op, h) /\ left \in SUBSET Spot
  BY HistoryTold, PlaceType DEF AnswerTexts, Spot
<1>4. Formed /\ op[r] \in OpOf(op[r].counts)
  BY InvIs, OpIs
<1>5. op' = [op EXCEPT ![r].pc = "substitute", ![r].history = h,
                       ![r].payload = h, ![r].left = left]
  BY <1>1
<1> HIDE DEF left
<1>6. /\ DOMAIN op' = Requests /\ \A q \in Requests \ {r} : op'[q] = op[q]
      /\ op'[r] = [op[r] EXCEPT !.pc = "substitute", !.history = h,
                                !.payload = h, !.left = left]
  BY <1>4, <1>5 DEF Formed
<1>7. /\ op'[r] \in OpOf(op[r].counts) /\ op'[r].pc = "substitute"
      /\ op'[r].history = h /\ op'[r].payload = h /\ op'[r].left = left
      /\ op'[r].answer = op[r].answer /\ op'[r].shown = op[r].shown
  <2> DEFINE o == op[r]
             x == op'[r]
  <2>1. /\ o \in OpOf(op[r].counts) /\ h \in Seq(Message) /\ left \in SUBSET Spot
        /\ x = [o EXCEPT !.pc = "substitute", !.history = h, !.payload = h, !.left = left]
    BY <1>3, <1>4, <1>6
  <2> HIDE DEF o, x
  <2>2. /\ x \in OpOf(op[r].counts) /\ x.pc = "substitute"
        /\ x.history = h /\ x.payload = h /\ x.left = left
        /\ x.answer = o.answer /\ x.shown = o.shown
    BY <2>1 DEF OpOf, Stage
  <2>3. QED
    BY <2>2 DEF o, x
<1> DEFINE x == op'[r]
<1>8. Carried(op, originals, normals, x)
  <2>1. /\ x.pc = "substitute" /\ x.history = h /\ x.payload = h
        /\ x.left = AnswerTexts(h)
    BY <1>7 DEF left
  <2> HIDE DEF x
  <2>2. RestoredIn(op, originals, x)
    BY <2>1 DEF RestoredIn, RestoredAt
  <2>3. NormalizedIn(normals, x)
    BY <2>1 DEF NormalizedIn
  <2>4. QED
    BY <2>1, <2>2, <2>3, <1>3, AlikeSelf DEF Carried
<1>9. QED
  BY <1>2, <1>6, <1>7, <1>8, MovesOn

----------------------------------------------------------------------------
(* What the assistant said *)

LEMMA SubstituteInv ==
  ASSUME PassInv, NEW r \in Requests, Substitute(r)
  PROVE  PassInv'
<1> DEFINE o == op[r]
           place == First(o.left)
           original == OriginalOf(Sent(r, place))
           found == IF original = None THEN {} ELSE {place}
           texts == [p \in found |-> OriginalOf(At(o.payload, p))]
           payload == Replaced(o.payload, texts)
           left == o.left \ {place}
           unread == o.unread \union {place}
<1>1. /\ o.pc = "substitute" /\ o.left # {}
      /\ UNCHANGED <<originals, normals, session>>
  BY DEF Substitute
<1>2. \/ op' = [op EXCEPT ![r].left = left, ![r].payload = payload]
      \/ op' = [op EXCEPT ![r].left = left, ![r].unread = unread]
  BY DEF Substitute
<1>3. Formed /\ Backed /\ Carried(op, originals, normals, o) /\ o \in OpOf(o.counts)
  BY InvIs, OpIs
<1>4. /\ o.history \in Seq(Message) /\ o.payload \in Seq(Message)
      /\ o.left \in SUBSET Spot /\ o.unread \in SUBSET Spot
  BY <1>3, OpParts
<1>5. /\ ToldIn(op, o.history) /\ Alike(o.history, o.payload)
      /\ RestoredIn(op, originals, o) /\ NormalizedIn(normals, o)
      /\ o.left \subseteq AnswerTexts(o.history)
  BY <1>3 DEF Carried
<1>6. place \in o.left /\ place \in AnswerTexts(o.history) /\ place \in Spot
  <2>1. place \in o.left
    BY <1>1, <1>4, FirstIn DEF Spot
  <2>2. QED
    BY <2>1, <1>4, <1>5
<1>7. /\ AnswerTexts(o.payload) = AnswerTexts(o.history)
      /\ UserTextsAt(o.payload) = UserTextsAt(o.history)
  BY <1>5, AlikePlaces DEF AnswerTexts, UserTextsAt
<1> DEFINE came == At(o.history, place)
           from == o.history[place[1]].blocks[place[2]].id
<1>8. At(o.payload, place) = came
  BY <1>5, <1>6 DEF RestoredIn, RestoredAt
<1>9. /\ came \in DOMAIN KeyOf /\ op[from[1]].pc = "done"
      /\ from[2] \in DOMAIN op[from[1]].shown
      /\ KeyOf[came] = KeyOf[op[from[1]].shown[from[2]]]
  BY <1>5, <1>6 DEF ToldIn, Echoes
<1>10. from[1] \in Requests
  BY <1>4, <1>6, PlaceId DEF AnswerTexts
<1>11. original = originals[KeyOf[came]]
  BY <1>8 DEF OriginalOf, Sent
<1>12. original = None => op[from[1]].shown[from[2]] = op[from[1]].answer.texts[from[2]]
  BY <1>3, <1>9, <1>10, <1>11 DEF Backed
<1>13. original # None => original \in Value
  <2>1. KeyOf[came] \in Key /\ originals \in Originals
    BY <1>3, <1>9, FormedStore DEF Key
  <2>2. original \in (DOMAIN Rendering) \union {None}
    BY <2>1, <1>11 DEF Originals
  <2>3. QED
    BY <2>2, PipelineAssumption DEF Value
<1>14. /\ payload \in Seq(Message) /\ Alike(o.payload, payload)
       /\ \A other : \A p \in Place(o.payload, other, "text") :
            At(payload, p) = IF p \in DOMAIN texts THEN texts[p] ELSE At(o.payload, p)
  <2>1. DOMAIN texts = found /\ found \subseteq {place}
    OBVIOUS
  <2>2. \A p \in DOMAIN texts : texts[p] = original /\ original # None
    BY DEF Sent
  <2>3. found \subseteq Place(o.payload, "assistant", "text")
    BY <2>1, <1>6, <1>7 DEF AnswerTexts
  <2>4. \A p \in DOMAIN texts : texts[p] \in Value
    BY <2>2, <1>13
  <2> HIDE DEF texts, found
  <2>5. QED
    BY <2>1, <2>3, <2>4, <1>4, ReplacedIs
<1>15. ASSUME NEW p \in AnswerTexts(o.history)
       PROVE  At(payload, p) = IF p = place /\ original # None THEN original
                               ELSE At(o.payload, p)
  <2>1. p \in Place(o.payload, "assistant", "text")
    BY <1>7 DEF AnswerTexts
  <2>2. At(payload, p) = IF p \in DOMAIN texts THEN texts[p] ELSE At(o.payload, p)
    BY <1>14, <2>1
  <2>3. p \in DOMAIN texts <=> p = place /\ original # None
    OBVIOUS
  <2>4. p \in DOMAIN texts => texts[p] = original
    BY DEF Sent
  <2> HIDE DEF texts, original
  <2>5. QED
    BY <2>2, <2>3, <2>4
<1>16. ASSUME NEW p \in UserTextsAt(o.history)
       PROVE  At(payload, p) = At(o.payload, p)
  <2>1. p \in Place(o.payload, "user", "text")
    BY <1>7 DEF UserTextsAt
  <2>2. At(payload, p) = IF p \in DOMAIN texts THEN texts[p] ELSE At(o.payload, p)
    BY <1>14, <2>1
  <2>3. p # place
    <3>1. o.history[place[1]].role = "assistant" /\ o.history[p[1]].role = "user"
      BY <1>6, PlaceIs DEF AnswerTexts, UserTextsAt
    <3>2. QED
      BY <3>1
  <2>4. p \notin DOMAIN texts
    BY <2>3
  <2> HIDE DEF texts
  <2>5. QED
    BY <2>2, <2>4
<1>17. left \in SUBSET Spot /\ unread \in SUBSET Spot
  BY <1>4, <1>6
<1>18. left \subseteq AnswerTexts(o.history)
  BY <1>5
<1>19. \A p \in AnswerTexts(o.history) : (p \in left <=> p \in o.left /\ p # place)
  OBVIOUS
<1>20. \A p \in AnswerTexts(o.history) : (p \in unread <=> p \in o.unread \/ p = place)
  OBVIOUS
<1> DEFINE x == op'[r]
<1> HIDE DEF original, found, texts, payload, left, unread, place
<1>21. CASE op' = [op EXCEPT ![r].left = left, ![r].payload = payload]
  <2>1. /\ DOMAIN op' = Requests /\ \A q \in Requests \ {r} : op'[q] = op[q]
        /\ x = [o EXCEPT !.left = left, !.payload = payload]
    BY <1>3, <1>21 DEF Formed
  <2>2. /\ x \in OpOf(o.counts) /\ x.pc = o.pc /\ x.history = o.history
        /\ x.payload = payload /\ x.left = left /\ x.unread = o.unread
        /\ x.answer = o.answer /\ x.shown = o.shown
    <3> HIDE DEF o, x
    <3>1. QED
      BY <2>1, <1>3, <1>14, <1>17 DEF OpOf
  <2>3. Carried(op, originals, normals, x)
    <3> HIDE DEF x, o
    <3>1. ToldIn(op, x.history)
      BY <2>2, <1>5
    <3>2. Alike(x.history, x.payload)
      BY <2>2, <1>5, <1>14 DEF Alike
    <3>3. ASSUME NEW p \in AnswerTexts(x.history)
          PROVE  RestoredAt(op, originals, x, p)
      <4>1. p \in AnswerTexts(o.history)
        BY <2>2
      <4>2. CASE p = place /\ original = None
        <5>1. At(payload, p) = came
          BY <4>1, <4>2, <1>8, <1>15
        <5>2. p \notin left
          BY <4>1, <4>2, <1>19
        <5>3. QED
          BY <4>2, <5>1, <5>2, <2>2, <1>12 DEF RestoredAt
      <4>3. CASE p = place /\ original # None
        <5>1. At(payload, p) = originals[KeyOf[came]] /\ At(payload, p) # None
          BY <4>1, <4>3, <1>11, <1>15
        <5>2. p \notin left
          BY <4>1, <4>3, <1>19
        <5>3. QED
          BY <4>3, <5>1, <5>2, <2>2 DEF RestoredAt
      <4>4. CASE p # place
        <5>1. At(payload, p) = At(o.payload, p) /\ (p \in left <=> p \in o.left)
          BY <4>1, <4>4, <1>15, <1>19
        <5> DEFINE i == o.history[p[1]].blocks[p[2]].id
                   s == At(o.payload, p)
                   e == At(o.history, p)
        <5>2. \/ s = e /\ p \in o.left \union o.unread
              \/ /\ p \notin o.left /\ s = e
                 /\ op[i[1]].shown[i[2]] = op[i[1]].answer.texts[i[2]]
              \/ p \notin o.left /\ s = originals[KeyOf[e]] /\ s # None
          BY <4>1, <1>5 DEF RestoredIn, RestoredAt
        <5>3. /\ i = x.history[p[1]].blocks[p[2]].id
              /\ s = At(x.payload, p) /\ e = At(x.history, p)
          BY <5>1, <2>2
        <5>4. /\ p \in o.left \union o.unread <=> p \in x.left \union x.unread
              /\ p \in o.left <=> p \in x.left
          BY <5>1, <2>2
        <5> HIDE DEF i, s, e
        <5>5. QED
          BY <5>2, <5>3, <5>4 DEF RestoredAt
      <4>5. QED
        BY <4>2, <4>3, <4>4
    <3>4. RestoredIn(op, originals, x)
      BY <3>3 DEF RestoredIn
    <3>5. NormalizedIn(normals, x)
      BY <2>2, <1>1, <1>5, <1>16 DEF NormalizedIn
    <3>6. QED
      BY <3>1, <3>2, <3>4, <3>5, <2>2, <1>1, <1>18 DEF Carried
  <2>4. QED
    BY <1>1, <2>1, <2>2, <2>3, MovesOn
<1>22. CASE op' = [op EXCEPT ![r].left = left, ![r].unread = unread]
  <2>1. /\ DOMAIN op' = Requests /\ \A q \in Requests \ {r} : op'[q] = op[q]
        /\ x = [o EXCEPT !.left = left, !.unread = unread]
    BY <1>3, <1>22 DEF Formed
  <2>2. /\ x \in OpOf(o.counts) /\ x.pc = o.pc /\ x.history = o.history
        /\ x.payload = o.payload /\ x.left = left /\ x.unread = unread
        /\ x.answer = o.answer /\ x.shown = o.shown
    <3> HIDE DEF o, x
    <3>1. QED
      BY <2>1, <1>3, <1>17 DEF OpOf
  <2>3. Carried(op, originals, normals, x)
    <3> HIDE DEF x, o
    <3>3. ASSUME NEW p \in AnswerTexts(x.history)
          PROVE  RestoredAt(op, originals, x, p)
      <4>1. p \in AnswerTexts(o.history)
        BY <2>2
      <4>2. CASE p = place
        BY <4>1, <4>2, <2>2, <1>8, <1>20 DEF RestoredAt
      <4>3. CASE p # place
        <5>1. (p \in left <=> p \in o.left) /\ (p \in unread <=> p \in o.unread)
          BY <4>1, <4>3, <1>19, <1>20
        <5> DEFINE i == o.history[p[1]].blocks[p[2]].id
                   s == At(o.payload, p)
                   e == At(o.history, p)
        <5>2. \/ s = e /\ p \in o.left \union o.unread
              \/ /\ p \notin o.left /\ s = e
                 /\ op[i[1]].shown[i[2]] = op[i[1]].answer.texts[i[2]]
              \/ p \notin o.left /\ s = originals[KeyOf[e]] /\ s # None
          BY <4>1, <1>5 DEF RestoredIn, RestoredAt
        <5>3. /\ i = x.history[p[1]].blocks[p[2]].id
              /\ s = At(x.payload, p) /\ e = At(x.history, p)
          BY <2>2
        <5>4. /\ p \in o.left \union o.unread <=> p \in x.left \union x.unread
              /\ p \in o.left <=> p \in x.left
          BY <5>1, <2>2
        <5> HIDE DEF i, s, e
        <5>5. QED
          BY <5>2, <5>3, <5>4 DEF RestoredAt
      <4>4. QED
        BY <4>2, <4>3
    <3>4. RestoredIn(op, originals, x)
      BY <3>3 DEF RestoredIn
    <3>5. NormalizedIn(normals, x)
      BY <2>2, <1>1, <1>5 DEF NormalizedIn
    <3>6. QED
      BY <3>4, <3>5, <2>2, <1>1, <1>5, <1>18 DEF Carried
  <2>4. QED
    BY <1>1, <2>1, <2>2, <2>3, MovesOn
<1>23. QED
  BY <1>2, <1>21, <1>22

----------------------------------------------------------------------------
(* What the model answers *)

LEMMA StoredIs ==
  ASSUME Formed, NEW texts \in Seq(DOMAIN Rendering), NEW stored,
         stored \subseteq Rendered(texts)
  PROVE  /\ Stored(texts, stored) \in Originals
         /\ \A key \in Key : originals[key] # None =>
              Stored(texts, stored)[key] = originals[key]
         /\ \A key \in Key : originals[key] = None /\ Stored(texts, stored)[key] # None =>
              \E k \in stored : /\ Stored(texts, stored)[key] = texts[k]
                                /\ KeyOf[Rendering[texts[k]]] = key
         /\ \A k \in stored : Stored(texts, stored)[KeyOf[Rendering[texts[k]]]] # None
<1> DEFINE new == Stored(texts, stored)
           Rivals2(key) == {k \in stored : KeyOf[Rendering[texts[k]]] = key}
<1>1. originals \in Originals /\ DOMAIN originals = Key
  BY FormedStore DEF Originals
<1>2. stored \subseteq DOMAIN texts /\ stored \subseteq Nat
  BY DEF Rendered
<1>3. \A k \in stored : texts[k] \in DOMAIN Rendering /\ texts[k] # None
  BY <1>2, PipelineAssumption
<1>4. \A k \in stored : KeyOf[Rendering[texts[k]]] \in Key
  <2>1. \A k \in stored : Rendering[texts[k]] \in DOMAIN KeyOf
    BY <1>3, PipelineAssumption DEF Range
  <2>2. QED
    BY <2>1 DEF Key
<1>5. /\ DOMAIN new = Key
      /\ \A key \in Key :
           new[key] = IF originals[key] # None \/ Rivals2(key) = {} THEN originals[key]
                      ELSE texts[Min(Rivals2(key))]
  BY <1>1 DEF Stored
<1>6. ASSUME NEW key, Rivals2(key) # {}
      PROVE  Min(Rivals2(key)) \in Rivals2(key)
  <2> DEFINE S == Rivals2(key)
  <2>1. S \subseteq Nat /\ S # {}
    BY <1>2, <1>6
  <2> HIDE DEF S
  <2>2. \E m \in S : \A k \in S : m <= k
    BY <2>1, LeastNatural
  <2>3. Min(S) \in S
    BY <2>2 DEF Min
  <2>4. QED
    BY <2>3 DEF S
<1>7. \A key : \A k \in Rivals2(key) : k \in stored /\ KeyOf[Rendering[texts[k]]] = key
  OBVIOUS
<1>8. \A k \in stored : Rivals2(KeyOf[Rendering[texts[k]]]) # {}
  OBVIOUS
<1> HIDE DEF Rivals2, new
<1>9. ASSUME NEW key \in Key
      PROVE  new[key] \in (DOMAIN Rendering) \union {None}
  <2>1. originals[key] \in (DOMAIN Rendering) \union {None}
    BY <1>1 DEF Originals
  <2>2. QED
    BY <2>1, <1>3, <1>5, <1>6, <1>7
<1>10. new \in Originals
  <2>1. new = [key \in Key |-> new[key]]
    <3>1. new = [key \in DOMAIN originals |-> new[key]]
      BY DEF new, Stored
    <3>2. QED
      BY <3>1, <1>1
  <2>2. QED
    BY <2>1, <1>9 DEF Originals
<1>11. \A key \in Key : originals[key] # None => new[key] = originals[key]
  BY <1>5
<1>12. \A key \in Key : originals[key] = None /\ new[key] # None =>
         \E k \in stored : new[key] = texts[k] /\ KeyOf[Rendering[texts[k]]] = key
  BY <1>5, <1>6, <1>7
<1>13. ASSUME NEW k \in stored
       PROVE  new[KeyOf[Rendering[texts[k]]]] # None
  <2> DEFINE key == KeyOf[Rendering[texts[k]]]
  <2>1. key \in Key /\ Rivals2(key) # {}
    BY <1>4, <1>8
  <2> HIDE DEF key
  <2>2. new[key] # None
    BY <2>1, <1>3, <1>5, <1>6, <1>7
  <2>3. QED
    BY <2>2 DEF key
<1>14. QED
  BY <1>10, <1>11, <1>12, <1>13 DEF new

LEMMA ReplyInv ==
  ASSUME PassInv, NEW r \in Requests, Reply(r)
  PROVE  PassInv'
<1>1. PICK answer \in Answers \union {NoAnswer} :
        \E unstored \in SUBSET Rendered(answer.texts) :
          LET stored == Rendered(answer.texts) \ unstored
          IN  /\ originals' = Stored(answer.texts, stored)
              /\ op' = [op EXCEPT ![r].pc = "done", ![r].answer = answer,
                                  ![r].shown = Shown(answer.texts, stored)]
  BY DEF Reply
<1>2. PICK unstored \in SUBSET Rendered(answer.texts) :
        LET stored == Rendered(answer.texts) \ unstored
        IN  /\ originals' = Stored(answer.texts, stored)
            /\ op' = [op EXCEPT ![r].pc = "done", ![r].answer = answer,
                                ![r].shown = Shown(answer.texts, stored)]
  BY <1>1
<1> DEFINE texts == answer.texts
           stored == Rendered(texts) \ unstored
           shown == Shown(texts, stored)
<1>3. /\ originals' = Stored(texts, stored)
      /\ op' = [op EXCEPT ![r].pc = "done", ![r].answer = answer, ![r].shown = shown]
  BY <1>2
<1>4. op[r].pc = "sent" /\ UNCHANGED <<normals, session>>
  BY DEF Reply
<1>5. /\ Formed /\ Genuine /\ Backed
      /\ Carried(op, originals, normals, op[r])
      /\ op[r] \in OpOf(op[r].counts) /\ normals \in Normals /\ session \in Nat
  BY InvIs, OpIs, FormedStore
<1>6. answer \in Answer
  <2>1. NoAnswer \in Answer
    BY DEF NoAnswer, Answer
  <2>2. QED
    BY <2>1, PipelineAssumption
<1>7. texts \in Seq(DOMAIN Rendering)
  BY <1>6 DEF Answer
<1>8. stored \subseteq Rendered(texts) /\ stored \subseteq DOMAIN texts
  BY DEF Rendered
<1> HIDE DEF stored
<1>9. /\ DOMAIN shown = DOMAIN texts
      /\ \A k \in DOMAIN texts :
           shown[k] = IF k \in stored THEN Rendering[texts[k]] ELSE texts[k]
  BY DEF Shown
<1>10. shown \in Seq(DOMAIN KeyOf)
  <2>1. \A k \in DOMAIN texts : shown[k] \in DOMAIN KeyOf
    <3>1. ASSUME NEW k \in DOMAIN texts PROVE shown[k] \in DOMAIN KeyOf
      <4>1. texts[k] \in DOMAIN Rendering
        BY <1>7
      <4>2. Rendering[texts[k]] \in DOMAIN KeyOf /\ texts[k] \in DOMAIN KeyOf
        BY <4>1, PipelineAssumption DEF Range
      <4>3. QED
        BY <4>2, <1>9
    <3>2. QED
      BY <3>1
  <2>2. shown = [k \in 1..Len(texts) |-> shown[k]]
    BY <1>7 DEF Shown
  <2>3. DOMAIN texts = 1..Len(texts) /\ Len(texts) \in Nat
    BY <1>7
  <2> HIDE DEF shown
  <2>4. QED
    BY <2>1, <2>2, <2>3
<1> HIDE DEF shown
<1>11. /\ originals' \in Originals
       /\ \A key \in Key : originals[key] # None => originals'[key] = originals[key]
       /\ \A key \in Key : originals[key] = None /\ originals'[key] # None =>
            \E k \in stored : originals'[key] = texts[k] /\ KeyOf[Rendering[texts[k]]] = key
       /\ \A k \in stored : originals'[KeyOf[Rendering[texts[k]]]] # None
  <2>1. texts \in Seq(DOMAIN Rendering) /\ stored \subseteq Rendered(texts)
        /\ originals' = Stored(texts, stored)
    BY <1>3, <1>7, <1>8
  <2> HIDE DEF texts
  <2> DEFINE new == Stored(texts, stored)
  <2>2. /\ new \in Originals
        /\ \A key \in Key : originals[key] # None => new[key] = originals[key]
        /\ \A key \in Key : originals[key] = None /\ new[key] # None =>
             \E k \in stored : new[key] = texts[k] /\ KeyOf[Rendering[texts[k]]] = key
        /\ \A k \in stored : new[KeyOf[Rendering[texts[k]]]] # None
    BY <2>1, <1>5, StoredIs
  <2>3. new = originals'
    BY <2>1
  <2> HIDE DEF new
  <2>4. QED
    BY <2>2, <2>3
<1> DEFINE o == op[r]
           x == op'[r]
<1>12. /\ DOMAIN op' = Requests /\ \A q \in Requests \ {r} : op'[q] = op[q]
       /\ x = [o EXCEPT !.pc = "done", !.answer = answer, !.shown = shown]
  BY <1>3, <1>5 DEF Formed
<1>13. /\ x \in OpOf(o.counts) /\ x.pc = "done" /\ x.history = o.history
       /\ x.payload = o.payload /\ x.left = o.left /\ x.unread = o.unread
       /\ x.unkept = o.unkept /\ x.gate = o.gate
       /\ x.answer = answer /\ x.shown = shown
  <2>1. o \in OpOf(o.counts)
    BY <1>5
  <2> HIDE DEF o, x
  <2>2. QED
    BY <2>1, <1>6, <1>10, <1>12 DEF OpOf, Stage
<1>14. Carried(op, originals, normals, x)
  <2>1. o.left = {} /\ Carried(op, originals, normals, o) /\ o.pc = "sent"
    BY <1>4, <1>5 DEF Carried
  <2> HIDE DEF o, x
  <2>2. QED
    BY <2>1, <1>13, SameCarried
<1>15. \A q \in Requests : op[q].pc = "done" => op'[q] = op[q]
  BY <1>4, <1>12
<1>16. Genuine'
  <2>1. ASSUME NEW key \in Key, originals'[key] # None
        PROVE  /\ KeyOf[Rendering[originals'[key]]] = key
               /\ Rendering[originals'[key]] # originals'[key]
               /\ \E q \in Requests : /\ op'[q].pc = "done"
                                      /\ \E k \in DOMAIN op'[q].answer.texts :
                                           op'[q].answer.texts[k] = originals'[key]
    <3>1. DOMAIN originals = Key
      BY <1>5, FormedStore DEF Originals
    <3>2. CASE originals[key] # None
      BY <3>1, <3>2, <1>5, <1>11, <1>15 DEF Genuine
    <3>3. CASE originals[key] = None
      <4>1. PICK k \in stored : /\ originals'[key] = texts[k]
                                /\ KeyOf[Rendering[texts[k]]] = key
        BY <2>1, <3>3, <1>11
      <4>2. k \in DOMAIN texts /\ Rendering[texts[k]] # texts[k]
        BY <1>8 DEF Rendered
      <4>3. x.pc = "done" /\ x.answer.texts = texts
        BY <1>13
      <4>4. QED
        BY <4>1, <4>2, <4>3
    <3>4. QED
      BY <3>2, <3>3
  <2>2. DOMAIN originals' = Key
    BY <1>11 DEF Originals
  <2>3. QED
    BY <2>1, <2>2 DEF Genuine
<1>17. Backed'
  <2>1. ASSUME NEW q \in Requests, q # r
        PROVE  /\ DOMAIN op'[q].shown = DOMAIN op'[q].answer.texts
               /\ \A k \in DOMAIN op'[q].shown :
                    \/ op'[q].shown[k] = op'[q].answer.texts[k]
                    \/ originals'[KeyOf[op'[q].shown[k]]] # None
    <3>1. op'[q] = op[q]
      BY <2>1, <1>12
    <3>2. /\ DOMAIN op[q].shown = DOMAIN op[q].answer.texts
          /\ \A k \in DOMAIN op[q].shown :
               \/ op[q].shown[k] = op[q].answer.texts[k]
               \/ originals[KeyOf[op[q].shown[k]]] # None
      BY <1>5 DEF Backed
    <3>3. op[q].shown \in Seq(DOMAIN KeyOf)
      BY <1>5, Parts
    <3>4. \A k \in DOMAIN op[q].shown : KeyOf[op[q].shown[k]] \in Key
      BY <3>3 DEF Key
    <3>5. QED
      BY <3>1, <3>2, <3>4, <1>11
  <2>2. /\ DOMAIN x.shown = DOMAIN x.answer.texts
        /\ \A k \in DOMAIN x.shown :
             \/ x.shown[k] = x.answer.texts[k]
             \/ originals'[KeyOf[x.shown[k]]] # None
    <3>1. x.shown = shown /\ x.answer.texts = texts
      BY <1>13
    <3> HIDE DEF x, texts
    <3>2. QED
      BY <3>1, <1>9, <1>11
  <2>3. QED
    BY <2>1, <2>2 DEF Backed
<1>18. \A normal \in Range(Normal) :
         normals[normal] # None => normals'[normal] = normals[normal]
  BY <1>4
<1>19. Carried(op, originals, normals', op'[r])
  BY <1>4, <1>14
<1>20. QED
  <2>1. op'[r] \in OpOf(op[r].counts) /\ op[r].pc # "done"
    BY <1>4, <1>13
  <2>2. normals' \in Normals /\ session' \in Nat
    BY <1>4, <1>5
  <2> HIDE DEF o, x
  <2>3. QED
    BY <1>11, <1>12, <1>16, <1>17, <1>18, <1>19, <2>1, <2>2, StepInv

----------------------------------------------------------------------------
(* What the user typed *)

LEMMA KeptIs ==
  ASSUME Formed, NEW messages \in Seq(Message), NEW places,
         places \subseteq UserTextsAt(messages),
         \A p \in places : At(messages, p) \in Range(UserText)
  PROVE  /\ Kept(messages, places) \in Normals
         /\ \A normal \in Range(Normal) : normals[normal] # None =>
              Kept(messages, places)[normal] = normals[normal]
         /\ \A p \in places : Kept(messages, places)[Normal[At(messages, p)]] # None
<1> DEFINE new == Kept(messages, places)
           Those(key) == Rivals(messages, places, key)
<1>1. normals \in Normals /\ DOMAIN normals = Range(Normal)
  BY FormedStore DEF Normals
<1>2. places \subseteq Nat \X Nat
  BY PlaceType DEF UserTextsAt
<1>3. /\ DOMAIN new = Range(Normal)
      /\ \A key \in Range(Normal) :
           new[key] = IF normals[key] # None \/ Those(key) = {} THEN normals[key]
                      ELSE At(messages, First(Those(key)))
  BY <1>1 DEF Kept
<1>4. \A key : Those(key) \subseteq places
  BY DEF Rivals
<1>5. \A p \in places : p \in Those(Normal[At(messages, p)])
  BY DEF Rivals
<1> HIDE DEF Those
<1>6. ASSUME NEW key, Those(key) # {}
      PROVE  At(messages, First(Those(key))) \in Range(UserText)
  <2>1. Those(key) \subseteq Nat \X Nat
    BY <1>2, <1>4
  <2>2. First(Those(key)) \in Those(key)
    BY <2>1, <1>6, FirstIn
  <2>3. QED
    BY <2>2, <1>4
<1>7. None \notin Range(UserText)
  BY PipelineAssumption
<1>8. \A p \in places : Normal[At(messages, p)] \in Range(Normal)
  BY PipelineAssumption DEF Range
<1> HIDE DEF new
<1>9. ASSUME NEW key \in Range(Normal)
      PROVE  new[key] \in Range(UserText) \union {None}
  <2>1. normals[key] \in Range(UserText) \union {None}
    BY <1>1 DEF Normals
  <2>2. QED
    BY <2>1, <1>3, <1>6
<1>10. new \in Normals
  <2>1. new = [key \in Range(Normal) |-> new[key]]
    <3>1. new = [key \in DOMAIN normals |-> new[key]]
      BY DEF new, Kept
    <3>2. QED
      BY <3>1, <1>1
  <2>2. QED
    BY <2>1, <1>9 DEF Normals
<1>11. \A key \in Range(Normal) : normals[key] # None => new[key] = normals[key]
  BY <1>3
<1>12. ASSUME NEW p \in places
       PROVE  new[Normal[At(messages, p)]] # None
  <2> DEFINE key == Normal[At(messages, p)]
  <2>1. key \in Range(Normal) /\ Those(key) # {}
    BY <1>5, <1>8
  <2> HIDE DEF key
  <2>2. new[key] # None
    BY <2>1, <1>3, <1>6, <1>7
  <2>3. QED
    BY <2>2 DEF key
<1>13. QED
  BY <1>10, <1>11, <1>12 DEF new

LEMMA PrepareInv ==
  ASSUME PassInv, NEW r \in Requests, Prepare(r)
  PROVE  PassInv'
<1> DEFINE o == op[r]
           messages == o.payload
           gate == protocol = "openai" /\ Gate(messages)
           places == IF gate THEN Changed(messages) ELSE {}
<1>1. PICK unkept \in SUBSET places :
        LET kept == Kept(messages, places \ unkept)
            done == {p \in places \ unkept :
                       kept[Normal[At(messages, p)]] = At(messages, p)}
        IN  /\ normals' = kept
            /\ op' = [op EXCEPT
                 ![r].pc = "sent", ![r].gate = gate, ![r].unkept = unkept,
                 ![r].payload = Replaced(@, [p \in done |-> Normal[At(messages, p)]])]
  BY DEF Prepare
<1> DEFINE tried == places \ unkept
           kept == Kept(messages, tried)
           done == {p \in tried : kept[Normal[At(messages, p)]] = At(messages, p)}
           texts == [p \in done |-> Normal[At(messages, p)]]
           payload == Replaced(messages, texts)
<1>2. /\ normals' = kept
      /\ op' = [op EXCEPT ![r].pc = "sent", ![r].gate = gate, ![r].unkept = unkept,
                          ![r].payload = payload]
  BY <1>1
<1>3. o.pc = "prepare" /\ UNCHANGED <<originals, session>>
  BY DEF Prepare
<1>4. /\ Formed /\ Genuine /\ Backed /\ Carried(op, originals, normals, o)
      /\ o \in OpOf(o.counts) /\ originals \in Originals /\ session \in Nat
  BY InvIs, OpIs, FormedStore
<1>5. o.history \in Seq(Message) /\ messages \in Seq(Message)
  BY <1>4, OpParts
<1>6. /\ ToldIn(op, o.history) /\ Alike(o.history, messages)
      /\ RestoredIn(op, originals, o) /\ NormalizedIn(normals, o) /\ o.left = {}
  BY <1>3, <1>4 DEF Carried
<1>7. /\ AnswerTexts(messages) = AnswerTexts(o.history)
      /\ UserTextsAt(messages) = UserTextsAt(o.history)
  BY <1>6, AlikePlaces DEF AnswerTexts, UserTextsAt
<1>8. ASSUME NEW p \in UserTextsAt(o.history)
      PROVE  /\ At(messages, p) = At(o.history, p)
             /\ At(messages, p) \in Range(UserText)
             /\ Normal[At(messages, p)] \in Value
             /\ p \in places <=> gate /\ Normal[At(messages, p)] # At(messages, p)
  <2>1. At(messages, p) = At(o.history, p)
    BY <1>3, <1>6 DEF NormalizedIn
  <2>2. At(messages, p) \in Range(UserText)
    BY <2>1, <1>6 DEF ToldIn
  <2>3. Normal[At(messages, p)] \in Value
    BY <2>2, PipelineAssumption DEF Range, Value
  <2>4. p \in Changed(messages) <=> Normal[At(messages, p)] # At(messages, p)
    BY <1>7 DEF Changed
  <2> HIDE DEF messages, gate
  <2>5. QED
    BY <2>1, <2>2, <2>3, <2>4
<1>9. gate \in BOOLEAN
  OBVIOUS
<1>10. places \subseteq UserTextsAt(messages)
  BY DEF Changed
<1>11. unkept \subseteq places /\ tried \subseteq places
  OBVIOUS
<1>12. unkept \in SUBSET Spot
  BY <1>5, <1>10, <1>11, PlaceType DEF UserTextsAt, Spot
<1> HIDE DEF messages, gate, places
<1>13. /\ \A p \in tried : At(messages, p) \in Range(UserText)
       /\ tried \subseteq UserTextsAt(messages)
  BY <1>7, <1>8, <1>10, <1>11
<1> HIDE DEF tried
<1>14. /\ kept \in Normals
       /\ \A normal \in Range(Normal) : normals[normal] # None =>
            kept[normal] = normals[normal]
       /\ \A p \in tried : kept[Normal[At(messages, p)]] # None
  BY <1>4, <1>5, <1>13, KeptIs
<1>15. \A p : p \in done <=> p \in tried /\ kept[Normal[At(messages, p)]] = At(messages, p)
  OBVIOUS
<1> HIDE DEF kept, done
<1>16. DOMAIN texts = done /\ \A p \in done : texts[p] = Normal[At(messages, p)]
  OBVIOUS
<1> HIDE DEF texts
<1>17. /\ payload \in Seq(Message) /\ Alike(messages, payload)
       /\ \A other : \A p \in Place(messages, other, "text") :
            At(payload, p) = IF p \in DOMAIN texts THEN texts[p] ELSE At(messages, p)
  <2>1. DOMAIN texts \subseteq Place(messages, "user", "text")
    BY <1>13, <1>15, <1>16 DEF UserTextsAt
  <2>2. \A p \in DOMAIN texts : texts[p] \in Value
    BY <1>7, <1>8, <1>13, <1>15, <1>16
  <2>3. QED
    BY <2>1, <2>2, <1>5, ReplacedIs
<1>18. ASSUME NEW p \in UserTextsAt(o.history)
       PROVE  At(payload, p) = IF p \in done THEN Normal[At(messages, p)]
                               ELSE At(messages, p)
  <2>1. p \in Place(messages, "user", "text")
    BY <1>7 DEF UserTextsAt
  <2>2. QED
    BY <2>1, <1>16, <1>17
<1>19. ASSUME NEW p \in AnswerTexts(o.history)
       PROVE  At(payload, p) = At(messages, p)
  <2>1. p \in Place(messages, "assistant", "text")
    BY <1>7 DEF AnswerTexts
  <2>2. messages[p[1]].role = "assistant"
    BY <2>1, PlaceIs
  <2>3. p \notin done
    <3>1. ASSUME p \in done PROVE FALSE
      <4>1. p \in Place(messages, "user", "text")
        BY <3>1, <1>13, <1>15 DEF UserTextsAt
      <4>2. messages[p[1]].role = "user"
        BY <4>1, PlaceIs
      <4>3. QED
        BY <2>2, <4>2
    <3>2. QED
      BY <3>1
  <2>4. QED
    BY <2>1, <2>3, <1>16, <1>17
<1>20. \A p \in UserTextsAt(o.history) :
         p \in done <=> /\ gate /\ Normal[At(messages, p)] # At(messages, p)
                        /\ p \notin unkept
                        /\ kept[Normal[At(messages, p)]] = At(messages, p)
  <2>1. \A p : p \in tried <=> p \in places /\ p \notin unkept
    BY DEF tried
  <2>2. QED
    BY <2>1, <1>8, <1>15
<1>21. \A p \in UserTextsAt(o.history) :
         gate /\ Normal[At(messages, p)] # At(messages, p) /\ p \notin unkept
           => kept[Normal[At(messages, p)]] # None
  <2>1. \A p : p \in tried <=> p \in places /\ p \notin unkept
    BY DEF tried
  <2>2. QED
    BY <2>1, <1>8, <1>14
<1> DEFINE x == op'[r]
<1> HIDE DEF payload
<1>22. /\ DOMAIN op' = Requests /\ \A q \in Requests \ {r} : op'[q] = op[q]
       /\ x = [o EXCEPT !.pc = "sent", !.gate = gate, !.unkept = unkept,
                        !.payload = payload]
  BY <1>2, <1>4 DEF Formed
<1>23. /\ x \in OpOf(o.counts) /\ x.pc = "sent" /\ x.history = o.history
       /\ x.payload = payload /\ x.left = o.left /\ x.unread = o.unread
       /\ x.unkept = unkept /\ x.gate = gate
       /\ x.answer = o.answer /\ x.shown = o.shown
  <2> HIDE DEF o, x
  <2>1. QED
    BY <1>4, <1>9, <1>12, <1>17, <1>22 DEF OpOf, Stage
<1>24. Carried(op, originals, kept, x)
  <2>0. messages = o.payload
    BY DEF messages
  <2> HIDE DEF o, x
  <2>1. ToldIn(op, x.history) /\ Alike(x.history, x.payload)
    BY <1>6, <1>17, <1>23 DEF Alike
  <2>2. ASSUME NEW p \in AnswerTexts(x.history)
        PROVE  RestoredAt(op, originals, x, p)
    <3>1. p \in AnswerTexts(o.history)
      BY <1>23
    <3> DEFINE i == o.history[p[1]].blocks[p[2]].id
               s == At(o.payload, p)
               e == At(o.history, p)
    <3>2. \/ s = e /\ p \in o.left \union o.unread
          \/ p \notin o.left /\ s = e /\ op[i[1]].shown[i[2]] = op[i[1]].answer.texts[i[2]]
          \/ p \notin o.left /\ s = originals[KeyOf[e]] /\ s # None
      BY <3>1, <1>6 DEF RestoredIn, RestoredAt
    <3>3. /\ i = x.history[p[1]].blocks[p[2]].id
          /\ s = At(x.payload, p) /\ e = At(x.history, p)
      BY <3>1, <2>0, <1>19, <1>23
    <3>4. /\ p \in o.left \union o.unread <=> p \in x.left \union x.unread
          /\ p \in o.left <=> p \in x.left
      BY <1>23
    <3> HIDE DEF i, s, e
    <3>5. QED
      BY <3>2, <3>3, <3>4 DEF RestoredAt
  <2>3. ASSUME NEW p \in UserTextsAt(x.history)
        PROVE  LET text == At(x.history, p)
                   normal == Normal[text]
               IN  IF /\ x.pc \in {"sent", "done", "failed"} /\ x.gate
                      /\ p \notin x.unkept /\ normal # text
                   THEN /\ kept[normal] # None
                        /\ At(x.payload, p) = IF kept[normal] = text THEN normal ELSE text
                   ELSE At(x.payload, p) = text
    <3>1. p \in UserTextsAt(o.history)
      BY <1>23
    <3>2. /\ At(messages, p) = At(x.history, p)
          /\ At(x.payload, p) = IF p \in done THEN Normal[At(messages, p)]
                                ELSE At(messages, p)
      BY <3>1, <1>8, <1>18, <1>23
    <3>3. QED
      BY <3>1, <3>2, <1>20, <1>21, <1>23
  <2>4. RestoredIn(op, originals, x) /\ NormalizedIn(kept, x)
    BY <2>2, <2>3 DEF RestoredIn, NormalizedIn
  <2>5. QED
    BY <2>1, <2>4, <1>6, <1>23 DEF Carried
<1>25. Genuine' /\ Backed'
  <2>1. \A q \in Requests : op'[q].answer = op[q].answer /\ op'[q].shown = op[q].shown
    BY <1>22, <1>23
  <2>2. \A q \in Requests : op[q].pc = "done" => op'[q].pc = "done"
    BY <1>3, <1>22
  <2>3. QED
    BY <2>1, <2>2, <1>3, <1>4, SameAnswers
<1>26. QED
  <2>1. /\ op[r].pc # "done" /\ op'[r] \in OpOf(op[r].counts)
        /\ Carried(op, originals, normals', op'[r])
    BY <1>2, <1>3, <1>23, <1>24
  <2>2. originals' \in Originals /\ normals' \in Normals /\ session' \in Nat
    BY <1>2, <1>3, <1>4, <1>14
  <2>3. /\ \A key \in Key : originals[key] # None => originals'[key] = originals[key]
        /\ \A normal \in Range(Normal) :
             normals[normal] # None => normals'[normal] = normals[normal]
    BY <1>2, <1>3, <1>14
  <2> HIDE DEF o, x
  <2>4. QED
    BY <2>1, <2>2, <2>3, <1>22, <1>25, StepInv

LEMMA NextPass ==
  ASSUME PassInv, [Next]_vars
  PROVE  PassInv'
<1>1. ASSUME NEW r \in Requests, Begin(r) PROVE PassInv'
  BY <1>1, BeginInv
<1>2. ASSUME NEW r \in Requests, Substitute(r) PROVE PassInv'
  BY <1>2, SubstituteInv
<1>3. ASSUME NEW r \in Requests, OpenOpenai(r) PROVE PassInv'
  BY <1>3, OpenInv DEF OpenOpenai
<1>4. ASSUME NEW r \in Requests, OpenAnthropic(r) PROVE PassInv'
  BY <1>4, OpenInv DEF OpenAnthropic
<1>5. ASSUME NEW r \in Requests, Prepare(r) PROVE PassInv'
  BY <1>5, PrepareInv
<1>6. ASSUME NEW r \in Requests, Reply(r) PROVE PassInv'
  BY <1>6, ReplyInv
<1>7. ASSUME NEW r \in Requests, Fail(r) PROVE PassInv'
  BY <1>7, FailInv
<1>8. QED
  BY <1>1, <1>2, <1>3, <1>4, <1>5, <1>6, <1>7, ForgetInv, StutterInv DEF Next

----------------------------------------------------------------------------
(* Nothing is lost, and prefixes stay *)

LEMMA PassAlways == Spec => []PassInv
<1>1. PassInv /\ [Next]_vars => PassInv'
  BY NextPass
<1>2. QED
  BY InitPass, <1>1, PTL DEF Spec

(* What an original leads back to.                                         *)
LEMMA OriginalBorrowed ==
  ASSUME PassInv, NEW r \in Requests, NEW p \in AnswerTexts(op[r].history),
         Sent(r, p) = OriginalOf(Echoed(r, p)), Sent(r, p) # None
  PROVE  Borrowed(r, p)
<1>1. Formed /\ Genuine /\ Carried(op, originals, normals, op[r])
  BY InvIs
<1> DEFINE key == KeyOf[Echoed(r, p)]
<1>2. Echoed(r, p) \in DOMAIN KeyOf
  BY <1>1 DEF Carried, ToldIn, Echoes, Echoed
<1>3. key \in Key /\ DOMAIN originals = Key
  BY <1>1, <1>2, FormedStore DEF Key, Originals
<1>4. Sent(r, p) = originals[key] /\ originals[key] # None
  BY DEF OriginalOf
<1> HIDE DEF key
<1>5. /\ KeyOf[Rendering[Sent(r, p)]] = key
      /\ Rendering[Sent(r, p)] # Sent(r, p)
      /\ \E q \in Requests : \E k \in DOMAIN op[q].answer.texts :
           op[q].answer.texts[k] = Sent(r, p)
  BY <1>1, <1>3, <1>4 DEF Genuine
<1>6. \A q \in Requests : DOMAIN op[q].answer.texts = 1..Len(op[q].answer.texts)
  <2>1. ASSUME NEW q \in Requests
        PROVE  DOMAIN op[q].answer.texts = 1..Len(op[q].answer.texts)
    <3>1. op[q].answer \in Answer
      BY <1>1, Parts
    <3>2. op[q].answer.texts \in Seq(DOMAIN Rendering)
      BY <3>1 DEF Answer
    <3>3. QED
      BY <3>2
  <2>2. QED
    BY <2>1
<1>7. QED
  BY <1>5, <1>6 DEF Borrowed, key

LEMMA LostFollows == PassInv => NothingLost
<1> SUFFICES ASSUME PassInv, NEW r \in Forwarded PROVE
      /\ \A p \in UserTextsAt(op[r].history) :
           Sent(r, p) # Echoed(r, p) =>
             /\ Sent(r, p) = Normal[Echoed(r, p)]
             /\ normals[Sent(r, p)] = Echoed(r, p)
      /\ \A p \in AnswerTexts(op[r].history) :
           \/ Sent(r, p) = Written(op[r].history, p)
           \/ Sent(r, p) = Echoed(r, p) /\ (p \in op[r].unread \/ ShownRaw(r, p))
           \/ Borrowed(r, p)
  BY DEF NothingLost
<1>1. r \in Requests /\ op[r].pc # "substitute"
  BY DEF Forwarded
<1>2. op[r].left = {} /\ Restored(r) /\ Normalized(r)
  BY <1>1 DEF PassInv
<1>3. ASSUME NEW p \in UserTextsAt(op[r].history), Sent(r, p) # Echoed(r, p)
      PROVE  /\ Sent(r, p) = Normal[Echoed(r, p)]
             /\ normals[Sent(r, p)] = Echoed(r, p)
  BY <1>2, <1>3 DEF Normalized
<1>4. ASSUME NEW p \in AnswerTexts(op[r].history)
      PROVE  \/ Sent(r, p) = Echoed(r, p) /\ (p \in op[r].unread \/ ShownRaw(r, p))
             \/ Borrowed(r, p)
  <2>1. CASE Sent(r, p) = Echoed(r, p) /\ p \in op[r].left \union op[r].unread
    BY <1>2, <2>1
  <2>2. CASE Sent(r, p) = Echoed(r, p) /\ ShownRaw(r, p)
    BY <2>2
  <2>3. CASE Sent(r, p) = OriginalOf(Echoed(r, p)) /\ Sent(r, p) # None
    BY <1>1, <2>3, OriginalBorrowed
  <2>4. QED
    BY <1>2, <2>1, <2>2, <2>3 DEF Restored
<1>5. QED
  BY <1>3, <1>4

LEMMA StableFollows == PassInv => PrefixStable
<1> SUFFICES ASSUME PassInv, NEW q \in Forwarded, NEW r \in Forwarded,
                    IsPrefix(op[q].history, op[r].history)
             PROVE
      /\ \A p \in UserTextsAt(op[q].history) :
           \/ Sent(q, p) = Sent(r, p)
           \/ op[q].gate # op[r].gate
           \/ p \in op[q].unkept \union op[r].unkept
      /\ \A p \in AnswerTexts(op[q].history) :
           \/ Sent(q, p) = Sent(r, p)
           \/ p \in op[q].unread \union op[r].unread
           \/ /\ ShownRaw(q, p)
              /\ \/ Sent(q, p) = Echoed(q, p) /\ Borrowed(r, p)
                 \/ Borrowed(q, p) /\ Sent(r, p) = Echoed(r, p)
  BY DEF PrefixStable
<1>1. /\ q \in Requests /\ r \in Requests
      /\ op[q].pc # "substitute" /\ op[r].pc # "substitute"
  BY DEF Forwarded
<1>2. /\ op[q].left = {} /\ Restored(q) /\ Normalized(q)
      /\ op[r].left = {} /\ Restored(r) /\ Normalized(r)
  BY <1>1 DEF PassInv
<1>3. op[q].history \in Seq(Message) /\ op[r].history \in Seq(Message)
  BY <1>1, InvIs, Parts
<1>4. ASSUME NEW role, NEW type, NEW p \in Place(op[q].history, role, type)
      PROVE  /\ p \in Place(op[r].history, role, type)
             /\ Echoed(q, p) = Echoed(r, p)
             /\ op[q].history[p[1]].blocks[p[2]].id = op[r].history[p[1]].blocks[p[2]].id
  <2> DEFINE a == op[q].history
             b == op[r].history
  <2>1. a \in Seq(Message) /\ b \in Seq(Message) /\ IsPrefix(a, b)
        /\ p \in Place(a, role, type)
    BY <1>3
  <2> HIDE DEF a, b
  <2>2. p \in Place(b, role, type) /\ b[p[1]] = a[p[1]]
    BY <2>1, PrefixPlaces
  <2>3. QED
    BY <2>2 DEF a, b, Echoed, At
<1>5. ASSUME NEW p \in UserTextsAt(op[q].history)
      PROVE  \/ Sent(q, p) = Sent(r, p)
             \/ op[q].gate # op[r].gate
             \/ p \in op[q].unkept \union op[r].unkept
  <2>1. p \in UserTextsAt(op[r].history) /\ Echoed(q, p) = Echoed(r, p)
    BY <1>4 DEF UserTextsAt
  <2> DEFINE text == Echoed(q, p)
             normal == Normal[text]
  <2>2. Sent(q, p) = IF op[q].gate /\ p \notin op[q].unkept /\ normal # text
                     THEN IF normals[normal] = text THEN normal ELSE text
                     ELSE text
    BY <1>2 DEF Normalized
  <2>3. Sent(r, p) = IF op[r].gate /\ p \notin op[r].unkept /\ normal # text
                     THEN IF normals[normal] = text THEN normal ELSE text
                     ELSE text
    BY <1>2, <2>1 DEF Normalized
  <2>4. QED
    BY <2>2, <2>3
<1>6. ASSUME NEW p \in AnswerTexts(op[q].history)
      PROVE  \/ Sent(q, p) = Sent(r, p)
             \/ p \in op[q].unread \union op[r].unread
             \/ /\ ShownRaw(q, p)
                /\ \/ Sent(q, p) = Echoed(q, p) /\ Borrowed(r, p)
                   \/ Borrowed(q, p) /\ Sent(r, p) = Echoed(r, p)
  <2>1. /\ p \in AnswerTexts(op[r].history) /\ Echoed(q, p) = Echoed(r, p)
        /\ op[q].history[p[1]].blocks[p[2]].id = op[r].history[p[1]].blocks[p[2]].id
    BY <1>4 DEF AnswerTexts
  <2>2. ShownRaw(q, p) <=> ShownRaw(r, p)
    BY <2>1 DEF ShownRaw
  <2>3. \/ p \in op[q].unread
        \/ Sent(q, p) = Echoed(q, p) /\ ShownRaw(q, p)
        \/ Sent(q, p) = OriginalOf(Echoed(q, p)) /\ Sent(q, p) # None
    BY <1>2 DEF Restored
  <2>4. \/ p \in op[r].unread
        \/ Sent(r, p) = Echoed(r, p) /\ ShownRaw(r, p)
        \/ Sent(r, p) = OriginalOf(Echoed(r, p)) /\ Sent(r, p) # None
    BY <1>2, <2>1 DEF Restored
  <2>5. Sent(q, p) = OriginalOf(Echoed(q, p)) /\ Sent(q, p) # None => Borrowed(q, p)
    BY <1>1, OriginalBorrowed
  <2>6. Sent(r, p) = OriginalOf(Echoed(r, p)) /\ Sent(r, p) # None => Borrowed(r, p)
    BY <1>1, <2>1, OriginalBorrowed
  <2>7. OriginalOf(Echoed(q, p)) = OriginalOf(Echoed(r, p))
    BY <2>1
  <2>8. QED
    BY <2>1, <2>2, <2>3, <2>4, <2>5, <2>6, <2>7
<1>7. QED
  BY <1>5, <1>6

----------------------------------------------------------------------------
(* Induction over the naturals *)

(* A set of naturals with 0 and every successor has them all.              *)
LEMMA Inductive ==
  ASSUME NEW T, 0 \in T, \A n \in Nat : n \in T => n + 1 \in T
  PROVE  Nat \subseteq T
<1> SUFFICES ASSUME NEW k \in Nat, k \notin T PROVE FALSE
  OBVIOUS
<1> DEFINE U == Nat \ T
<1>1. PICK m \in U : \A j \in U : m <= j
  BY LeastNatural
<1>2. m # 0 /\ m - 1 \in Nat /\ m - 1 \notin U
  BY <1>1
<1>3. QED
  BY <1>1, <1>2

----------------------------------------------------------------------------
(* observe_thrash: one event after the other *)

Seen(base, events) == FoldLeft(ObserveOne, base, events)

At1(f, base, events, s) ==
  IF s = {} THEN base ELSE ObserveOne(f[s \ {Max(s)}], events[Max(s)])

FoldsOn(f, base, events, n) == f = [s \in SUBSET (1..n) |-> At1(f, base, events, s)]

(* The function in the definition of FoldLeft                              *)
Folds(f, base, events) ==
  f = [s \in SUBSET DOMAIN events |->
         IF s = {} THEN base ELSE ObserveOne(f[s \ {Max(s)}], events[Max(s)])]

LEMMA FoldIs ==
  ASSUME NEW base, NEW events
  PROVE  Seen(base, events) = (CHOOSE f : Folds(f, base, events))[DOMAIN events]
BY DEF Seen, FoldLeft, MapThenFoldSet, Folds

LEMMA MaxOf ==
  ASSUME NEW n \in Nat, NEW s \in SUBSET (1..(n + 1)), n + 1 \in s
  PROVE  Max(s) = n + 1
<1>1. \A y \in s : n + 1 >= y
  OBVIOUS
<1>2. \A x \in s : (\A y \in s : x >= y) => x = n + 1
  OBVIOUS
<1>3. QED
  BY <1>1, <1>2 DEF Max

LEMMA FoldsAt ==
  ASSUME NEW f, NEW base, NEW events, NEW n, FoldsOn(f, base, events, n),
         NEW s \in SUBSET (1..n)
  PROVE  f[s] = At1(f, base, events, s)
<1>1. f[s] = [t \in SUBSET (1..n) |-> At1(f, base, events, t)][s]
  BY Zenon DEF FoldsOn
<1>2. QED
  BY <1>1, Zenon

LEMMA FoldsExist ==
  ASSUME NEW base, NEW events
  PROVE  \A n \in Nat : \E f : FoldsOn(f, base, events, n)
<1> DEFINE T == {n \in Nat : \E f : FoldsOn(f, base, events, n)}
<1>1. 0 \in T
  <2> DEFINE f == [s \in SUBSET (1..0) |-> base]
  <2>1. \A s \in SUBSET (1..0) : s = {}
    OBVIOUS
  <2>2. f = [s \in SUBSET (1..0) |-> At1(f, base, events, s)]
    BY <2>1, Zenon DEF At1
  <2> HIDE DEF f
  <2>3. FoldsOn(f, base, events, 0)
    BY <2>2, Zenon DEF FoldsOn
  <2>4. QED
    BY <2>3
<1>2. ASSUME NEW n \in Nat, n \in T PROVE n + 1 \in T
  <2>1. PICK f : FoldsOn(f, base, events, n)
    BY <1>2
  <2> DEFINE g == [s \in SUBSET (1..(n + 1)) |->
                     IF n + 1 \in s THEN ObserveOne(f[s \ {n + 1}], events[n + 1]) ELSE f[s]]
  <2>2. ASSUME NEW s \in SUBSET (1..(n + 1))
        PROVE  g[s] = At1(g, base, events, s)
    <3>0. g[s] = IF n + 1 \in s THEN ObserveOne(f[s \ {n + 1}], events[n + 1]) ELSE f[s]
      OBVIOUS
    <3>1. CASE n + 1 \in s
      <4>1. Max(s) = n + 1
        BY <3>1, MaxOf
      <4>2. s \ {n + 1} \in SUBSET (1..(n + 1)) /\ n + 1 \notin s \ {n + 1}
        OBVIOUS
      <4>3. g[s \ {n + 1}] = f[s \ {n + 1}]
        BY <4>2, Zenon
      <4> HIDE DEF g
      <4>4. s # {}
        BY <3>1
      <4>5. QED
        BY <3>0, <3>1, <4>1, <4>3, <4>4, Zenon DEF At1
    <3>2. CASE n + 1 \notin s
      <4>1. s \in SUBSET (1..n)
        BY <3>2
      <4>2. f[s] = At1(f, base, events, s)
        BY <2>1, <4>1, FoldsAt
      <4>3. s \ {Max(s)} \in SUBSET (1..(n + 1)) /\ n + 1 \notin s \ {Max(s)}
        BY <3>2
      <4>4. g[s \ {Max(s)}] = f[s \ {Max(s)}]
        BY <4>3, Zenon
      <4> HIDE DEF g
      <4>5. QED
        BY <3>0, <3>2, <4>2, <4>4, Zenon DEF At1
    <3>3. QED
      BY <3>1, <3>2
  <2>4. g = [s \in SUBSET (1..(n + 1)) |-> g[s]]
    OBVIOUS
  <2> HIDE DEF g
  <2>5. g = [s \in SUBSET (1..(n + 1)) |-> At1(g, base, events, s)]
    BY <2>2, <2>4, Zenon
  <2>6. FoldsOn(g, base, events, n + 1)
    BY <2>5, Zenon DEF FoldsOn
  <2>7. QED
    BY <2>6
<1> HIDE DEF T
<1>3. Nat \subseteq T
  BY <1>1, <1>2, Inductive
<1>4. QED
  BY <1>3 DEF T

(* It takes the same values as far as the events are the same.             *)
LEMMA FoldsSame ==
  ASSUME NEW base, NEW d, NEW e, NEW f, NEW g, NEW m \in Nat, NEW n \in Nat,
         FoldsOn(f, base, d, m), FoldsOn(g, base, e, n),
         NEW k \in Nat, k <= m, k <= n, \A i \in 1..k : d[i] = e[i]
  PROVE  f[1..k] = g[1..k]
<1> DEFINE T == {j \in Nat : j <= k => f[1..j] = g[1..j]}
<1>1. 0 \in T
  <2>1. 1..0 = {} /\ 1..0 \in SUBSET (1..m) /\ 1..0 \in SUBSET (1..n)
    OBVIOUS
  <2>2. f[1..0] = At1(f, base, d, 1..0) /\ g[1..0] = At1(g, base, e, 1..0)
    BY <2>1, FoldsAt
  <2>3. QED
    BY <2>1, <2>2 DEF At1
<1>2. ASSUME NEW j \in Nat, j \in T PROVE j + 1 \in T
  <2>1. SUFFICES ASSUME j + 1 <= k PROVE f[1..(j + 1)] = g[1..(j + 1)]
    OBVIOUS
  <2>2. /\ 1..(j + 1) \in SUBSET (1..m) /\ 1..(j + 1) \in SUBSET (1..n)
        /\ 1..(j + 1) # {} /\ j + 1 \in 1..(j + 1)
        /\ (1..(j + 1)) \ {j + 1} = 1..j
    BY <2>1
  <2>3. Max(1..(j + 1)) = j + 1
    BY <2>2, MaxOf
  <2>4. /\ f[1..(j + 1)] = At1(f, base, d, 1..(j + 1))
        /\ g[1..(j + 1)] = At1(g, base, e, 1..(j + 1))
    BY <2>2, FoldsAt
  <2>5. d[j + 1] = e[j + 1] /\ f[1..j] = g[1..j]
    BY <1>2, <2>1
  <2>6. QED
    BY <2>2, <2>3, <2>4, <2>5, Zenon DEF At1
<1> HIDE DEF T
<1>3. Nat \subseteq T
  BY <1>1, <1>2, Inductive
<1>4. k \in T
  BY <1>3
<1>5. QED
  BY <1>4 DEF T

LEMMA SeenIs ==
  ASSUME NEW S, NEW base, NEW events \in Seq(S)
  PROVE  \E f : FoldsOn(f, base, events, Len(events)) /\ Seen(base, events) = f[1..Len(events)]
<1> DEFINE f == CHOOSE h : Folds(h, base, events)
<1>1. DOMAIN events = 1..Len(events) /\ Len(events) \in Nat
  OBVIOUS
<1>2. \A h : Folds(h, base, events) <=> FoldsOn(h, base, events, Len(events))
  BY <1>1, Zenon DEF Folds, FoldsOn, At1
<1>3. PICK h : FoldsOn(h, base, events, Len(events))
  BY <1>1, FoldsExist
<1>4. Folds(f, base, events)
  BY <1>2, <1>3, Zenon
<1>5. Seen(base, events) = f[1..Len(events)]
  BY <1>1, FoldIs, Zenon
<1> HIDE DEF f
<1>6. QED
  BY <1>2, <1>4, <1>5

(* Nothing happens, and one event after the other.                         *)
LEMMA SeenEmpty ==
  ASSUME NEW base
  PROVE  Seen(base, <<>>) = base
<1>1. PICK f : FoldsOn(f, base, <<>>, Len(<<>>)) /\ Seen(base, <<>>) = f[1..Len(<<>>)]
  <2>1. <<>> \in Seq(Nat)
    OBVIOUS
  <2>2. QED
    BY <2>1, SeenIs
<1>2. Len(<<>>) = 0 /\ 1..0 = {} /\ 1..0 \in SUBSET (1..0)
  OBVIOUS
<1>3. FoldsOn(f, base, <<>>, 0) /\ 0 \in Nat
  BY <1>1, <1>2
<1>5. f[1..0] = At1(f, base, <<>>, 1..0)
  BY <1>2, <1>3, FoldsAt
<1>6. f[1..0] = base
  BY <1>2, <1>5, Zenon DEF At1
<1>4. QED
  BY <1>1, <1>2, <1>6

LEMMA SeenAppend ==
  ASSUME NEW S, NEW base, NEW events \in Seq(S), NEW event \in S
  PROVE  Seen(base, Append(events, event)) = ObserveOne(Seen(base, events), event)
<1> DEFINE more == Append(events, event)
           n == Len(events)
<1>1. /\ more \in Seq(S) /\ Len(more) = n + 1 /\ n \in Nat /\ more[n + 1] = event
      /\ \A i \in 1..n : more[i] = events[i]
  BY AppendProperties
<1> HIDE DEF more
<1>2. PICK f : FoldsOn(f, base, events, n) /\ Seen(base, events) = f[1..n]
  BY SeenIs
<1>3. PICK g : FoldsOn(g, base, more, n + 1) /\ Seen(base, more) = g[1..(n + 1)]
  <2>1. \E g : FoldsOn(g, base, more, Len(more)) /\ Seen(base, more) = g[1..Len(more)]
    BY <1>1, SeenIs
  <2>2. QED
    BY <1>1, <2>1
<1> HIDE DEF n
<1>4. f[1..n] = g[1..n]
  <2>1. n <= n /\ n <= n + 1 /\ n + 1 \in Nat /\ \A i \in 1..n : events[i] = more[i]
    BY <1>1
  <2>2. QED
    BY <1>1, <1>2, <1>3, <2>1, FoldsSame
<1>5. /\ 1..(n + 1) \in SUBSET (1..(n + 1)) /\ 1..(n + 1) # {} /\ n + 1 \in 1..(n + 1)
      /\ (1..(n + 1)) \ {n + 1} = 1..n
  <2>1. n \in Nat
    BY <1>1
  <2>2. QED
    BY <2>1
<1>6. Max(1..(n + 1)) = n + 1
  BY <1>1, <1>5, MaxOf
<1>7. g[1..(n + 1)] = At1(g, base, more, 1..(n + 1))
  BY <1>3, <1>5, FoldsAt
<1>8. g[1..(n + 1)] = ObserveOne(g[1..n], event)
  BY <1>1, <1>5, <1>6, <1>7, Zenon DEF At1
<1>9. Seen(base, more) = ObserveOne(Seen(base, events), event)
  BY <1>2, <1>3, <1>4, <1>8, Zenon
<1>10. QED
  BY <1>9 DEF more

----------------------------------------------------------------------------
(* What one event does to an entry *)

Ev(K, V, I) ==
  [type : {"call", "result"}, key : K, value : V, id : I, failed : BOOLEAN]

EntryType(K, V, I) ==
  [keys : SUBSET K, digests : SUBSET V, calls : Seq(V), edits : SUBSET I,
   pending : BOOLEAN]

(* What an entry is, after whatever requests                               *)
Kempt(known, K, V, I) ==
  /\ known \in EntryType(K, V, I)
  /\ Len(known.calls) <= CallCap
  /\ known.pending => known.edits # {}

SeenType(K, V, I) == [entry : EntryType(K, V, I), counts : Counts]

Nears(calls, value) == \E k \in 1..Len(calls) : Similar(calls[k], value)

AfterCall(seen, event) ==
  LET known == seen.entry
      edit == Calls[event.value].edit
  IN  [entry |-> [keys |-> known.keys \union {event.key}, digests |-> known.digests,
                  calls |-> Capped(Append(known.calls, event.value)),
                  edits |-> IF edit THEN known.edits \union {event.id} ELSE known.edits,
                  pending |-> known.pending /\ ~(edit /\ known.pending)],
       counts |-> [exact |-> seen.counts.exact,
                   near |-> seen.counts.near + One(Nears(known.calls, event.value)),
                   cycles |-> seen.counts.cycles + One(edit /\ known.pending)]]

AfterResult(seen, event) ==
  LET known == seen.entry
  IN  [entry |-> [keys |-> known.keys \union {event.key},
                  digests |-> known.digests \union {event.value},
                  calls |-> known.calls, edits |-> known.edits,
                  pending |-> known.pending \/ (event.failed /\ event.id \in known.edits)],
       counts |-> [exact |-> seen.counts.exact + One(event.value \in known.digests),
                   near |-> seen.counts.near, cycles |-> seen.counts.cycles]]

LEMMA ObserveKnown ==
  ASSUME NEW seen, NEW event, event.key \in seen.entry.keys
  PROVE  ObserveOne(seen, event) = seen
BY DEF ObserveOne

LEMMA SeenParts ==
  ASSUME NEW K, NEW V, NEW I, NEW seen \in SeenType(K, V, I)
  PROVE  /\ seen.entry \in EntryType(K, V, I) /\ seen.counts \in Counts
         /\ seen.entry.keys \in SUBSET K /\ seen.entry.digests \in SUBSET V
         /\ seen.entry.calls \in Seq(V) /\ seen.entry.edits \in SUBSET I
         /\ seen.entry.pending \in BOOLEAN
         /\ seen.counts.exact \in Nat /\ seen.counts.near \in Nat
         /\ seen.counts.cycles \in Nat
<1>1. seen.entry \in EntryType(K, V, I) /\ seen.counts \in Counts
  BY DEF SeenType
<1>2. QED
  BY <1>1 DEF EntryType, Counts

(* The records with some fields changed                                    *)
CallCounts(x, near, cycles) == [x EXCEPT !.near = near, !.cycles = cycles]
CallEntry(x, pending, edits, calls) ==
  [x EXCEPT !.pending = pending, !.edits = edits, !.calls = calls]
ResultEntry(x, digests, pending) == [x EXCEPT !.digests = digests, !.pending = pending]

LEMMA CountsWith ==
  ASSUME NEW a, NEW b, NEW c, NEW near, NEW cycles,
         NEW x, x = [exact |-> a, near |-> b, cycles |-> c]
  PROVE  CallCounts(x, near, cycles)
           = [exact |-> a, near |-> near, cycles |-> cycles]
<1>1. [x EXCEPT !.near = near, !.cycles = cycles]
        = [[x EXCEPT !.near = near] EXCEPT !.cycles = cycles]
  OBVIOUS
<1>2. [x EXCEPT !.near = near] = [exact |-> a, near |-> near, cycles |-> c]
  OBVIOUS
<1>3. [[exact |-> a, near |-> near, cycles |-> c] EXCEPT !.cycles = cycles]
        = [exact |-> a, near |-> near, cycles |-> cycles]
  OBVIOUS
<1>4. QED
  BY <1>1, <1>2, <1>3 DEF CallCounts

LEMMA EntryWithCall ==
  ASSUME NEW a, NEW b, NEW c, NEW d, NEW e, NEW pending, NEW edits, NEW calls,
         NEW x, x = [keys |-> a, digests |-> b, calls |-> c, edits |-> d, pending |-> e]
  PROVE  CallEntry(x, pending, edits, calls)
           = [keys |-> a, digests |-> b, calls |-> calls, edits |-> edits,
              pending |-> pending]
<1>1. [x EXCEPT !.pending = pending, !.edits = edits, !.calls = calls]
        = [[[x EXCEPT !.pending = pending] EXCEPT !.edits = edits] EXCEPT !.calls = calls]
  OBVIOUS
<1>2. [x EXCEPT !.pending = pending]
        = [keys |-> a, digests |-> b, calls |-> c, edits |-> d, pending |-> pending]
  OBVIOUS
<1>3. [[keys |-> a, digests |-> b, calls |-> c, edits |-> d, pending |-> pending]
         EXCEPT !.edits = edits]
        = [keys |-> a, digests |-> b, calls |-> c, edits |-> edits, pending |-> pending]
  OBVIOUS
<1>4. [[keys |-> a, digests |-> b, calls |-> c, edits |-> edits, pending |-> pending]
         EXCEPT !.calls = calls]
        = [keys |-> a, digests |-> b, calls |-> calls, edits |-> edits, pending |-> pending]
  OBVIOUS
<1>5. QED
  BY <1>1, <1>2, <1>3, <1>4 DEF CallEntry

LEMMA EntryWithResult ==
  ASSUME NEW a, NEW b, NEW c, NEW d, NEW e, NEW pending, NEW digests,
         NEW x, x = [keys |-> a, digests |-> b, calls |-> c, edits |-> d, pending |-> e]
  PROVE  ResultEntry(x, digests, pending)
           = [keys |-> a, digests |-> digests, calls |-> c, edits |-> d, pending |-> pending]
<1>1. [x EXCEPT !.digests = digests, !.pending = pending]
        = [[x EXCEPT !.digests = digests] EXCEPT !.pending = pending]
  OBVIOUS
<1>2. [x EXCEPT !.digests = digests]
        = [keys |-> a, digests |-> digests, calls |-> c, edits |-> d, pending |-> e]
  OBVIOUS
<1>3. [[keys |-> a, digests |-> digests, calls |-> c, edits |-> d, pending |-> e]
         EXCEPT !.pending = pending]
        = [keys |-> a, digests |-> digests, calls |-> c, edits |-> d, pending |-> pending]
  OBVIOUS
<1>4. QED
  BY <1>1, <1>2, <1>3 DEF ResultEntry

LEMMA CountsIs ==
  ASSUME NEW c \in Counts
  PROVE  c = [exact |-> c.exact, near |-> c.near, cycles |-> c.cycles]
BY DEF Counts

LEMMA EntryIs ==
  ASSUME NEW K, NEW V, NEW I, NEW known \in EntryType(K, V, I)
  PROVE  known = [keys |-> known.keys, digests |-> known.digests, calls |-> known.calls,
                  edits |-> known.edits, pending |-> known.pending]
BY DEF EntryType

LEMMA FreshKey ==
  ASSUME NEW K, NEW V, NEW I, NEW seen \in SeenType(K, V, I), NEW key \in K
  PROVE  LET fresh == [seen EXCEPT !.entry.keys = @ \union {key}]
         IN  /\ fresh.counts = seen.counts
             /\ fresh.entry = [keys |-> seen.entry.keys \union {key},
                               digests |-> seen.entry.digests, calls |-> seen.entry.calls,
                               edits |-> seen.entry.edits, pending |-> seen.entry.pending]
<1> DEFINE fresh == [seen EXCEPT !.entry.keys = @ \union {key}]
<1>1. fresh.counts = seen.counts /\ fresh.entry = [seen.entry EXCEPT !.keys = @ \union {key}]
  BY DEF SeenType
<1>2. seen.entry \in EntryType(K, V, I)
  BY SeenParts
<1>3. [seen.entry EXCEPT !.keys = @ \union {key}]
        = [keys |-> seen.entry.keys \union {key},
           digests |-> seen.entry.digests, calls |-> seen.entry.calls,
           edits |-> seen.entry.edits, pending |-> seen.entry.pending]
  <2> DEFINE x == seen.entry
  <2>1. x = [keys |-> x.keys, digests |-> x.digests, calls |-> x.calls,
             edits |-> x.edits, pending |-> x.pending]
    BY <1>2, EntryIs
  <2> HIDE DEF x
  <2>2. [[keys |-> x.keys, digests |-> x.digests, calls |-> x.calls,
          edits |-> x.edits, pending |-> x.pending] EXCEPT !.keys = x.keys \union {key}]
          = [keys |-> x.keys \union {key}, digests |-> x.digests, calls |-> x.calls,
             edits |-> x.edits, pending |-> x.pending]
    OBVIOUS
  <2>3. QED
    BY <2>1, <2>2 DEF x
<1>4. QED
  BY <1>1, <1>3

LEMMA ObserveCallIs ==
  ASSUME NEW K, NEW V, NEW I, NEW seen \in SeenType(K, V, I), NEW event \in Ev(K, V, I),
         event.key \notin seen.entry.keys, event.type = "call"
  PROVE  ObserveOne(seen, event) = AfterCall(seen, event)
<1> DEFINE fresh == [seen EXCEPT !.entry.keys = @ \union {event.key}]
<1>0. event.key \in K
  BY DEF Ev
<1>1. /\ fresh.counts = seen.counts
      /\ fresh.entry = [keys |-> seen.entry.keys \union {event.key},
                        digests |-> seen.entry.digests, calls |-> seen.entry.calls,
                        edits |-> seen.entry.edits, pending |-> seen.entry.pending]
  BY <1>0, FreshKey
<1>2. ObserveOne(seen, event) = ObserveCall(fresh, event)
  BY DEF ObserveOne
<1> HIDE DEF fresh
<1>3. seen.counts \in Counts
  BY SeenParts
<1> DEFINE edit == Calls[event.value].edit
           near == One(Nears(seen.entry.calls, event.value))
           cycle == edit /\ seen.entry.pending
<1>4. ObserveCall(fresh, event) =
        [entry |-> [fresh.entry EXCEPT !.pending = @ /\ ~cycle,
                      !.edits = IF edit THEN @ \union {event.id} ELSE @,
                      !.calls = Capped(Append(@, event.value))],
         counts |-> [seen.counts EXCEPT !.near = @ + near, !.cycles = @ + One(cycle)]]
  <2>1. fresh.entry.calls = seen.entry.calls /\ fresh.entry.pending = seen.entry.pending
    BY <1>1
  <2>2. QED
    BY <1>1, <2>1, Zenon DEF ObserveCall, Nears
<1> HIDE DEF near, edit, cycle
<1>5. [seen.counts EXCEPT !.near = @ + near, !.cycles = @ + One(cycle)]
        = [exact |-> seen.counts.exact, near |-> seen.counts.near + near,
           cycles |-> seen.counts.cycles + One(cycle)]
  <2> DEFINE c == seen.counts
             new == One(cycle)
  <2>1. c = [exact |-> c.exact, near |-> c.near, cycles |-> c.cycles]
    BY <1>3, CountsIs
  <2> HIDE DEF c, new
  <2>3. CallCounts(c, c.near + near, c.cycles + new)
          = [exact |-> c.exact, near |-> c.near + near, cycles |-> c.cycles + new]
    BY <2>1, CountsWith
  <2>4. QED
    BY <2>3, Zenon DEF c, new, CallCounts
<1>6. [fresh.entry EXCEPT !.pending = @ /\ ~cycle,
                      !.edits = IF edit THEN @ \union {event.id} ELSE @,
                      !.calls = Capped(Append(@, event.value))]
        = [keys |-> seen.entry.keys \union {event.key}, digests |-> seen.entry.digests,
           calls |-> Capped(Append(seen.entry.calls, event.value)),
           edits |-> IF edit THEN seen.entry.edits \union {event.id} ELSE seen.entry.edits,
           pending |-> seen.entry.pending /\ ~cycle]
  <2>1. /\ fresh.entry.pending = seen.entry.pending
        /\ fresh.entry.edits = seen.entry.edits /\ fresh.entry.calls = seen.entry.calls
    BY <1>1
  <2> DEFINE pending == seen.entry.pending /\ ~cycle
             edits == IF edit THEN seen.entry.edits \union {event.id} ELSE seen.entry.edits
             calls == Capped(Append(seen.entry.calls, event.value))
  <2>2. [fresh.entry EXCEPT !.pending = @ /\ ~cycle,
                      !.edits = IF edit THEN @ \union {event.id} ELSE @,
                      !.calls = Capped(Append(@, event.value))]
          = CallEntry(fresh.entry, pending, edits, calls)
    BY <2>1, Zenon DEF CallEntry
  <2> HIDE DEF pending, edits, calls
  <2>3. CallEntry(fresh.entry, pending, edits, calls)
          = [keys |-> seen.entry.keys \union {event.key}, digests |-> seen.entry.digests,
             calls |-> calls, edits |-> edits, pending |-> pending]
    BY <1>1, EntryWithCall
  <2>4. QED
    BY <2>2, <2>3, Zenon DEF pending, edits, calls
<1>7. QED
  BY <1>2, <1>4, <1>5, <1>6, Zenon DEF AfterCall, near, edit, cycle

LEMMA ObserveResultIs ==
  ASSUME NEW K, NEW V, NEW I, NEW seen \in SeenType(K, V, I), NEW event \in Ev(K, V, I),
         event.key \notin seen.entry.keys, event.type = "result"
  PROVE  ObserveOne(seen, event) = AfterResult(seen, event)
<1> DEFINE fresh == [seen EXCEPT !.entry.keys = @ \union {event.key}]
<1>0. event.key \in K
  BY DEF Ev
<1>1. /\ fresh.counts = seen.counts
      /\ fresh.entry = [keys |-> seen.entry.keys \union {event.key},
                        digests |-> seen.entry.digests, calls |-> seen.entry.calls,
                        edits |-> seen.entry.edits, pending |-> seen.entry.pending]
  BY <1>0, FreshKey
<1>2. ObserveOne(seen, event) = ObserveResult(fresh, event)
  BY DEF ObserveOne
<1> HIDE DEF fresh
<1>3. seen.counts \in Counts
  BY SeenParts
<1>4. ObserveResult(fresh, event) =
        [entry |-> [fresh.entry EXCEPT !.digests = @ \union {event.value},
                      !.pending = @ \/ (event.failed /\ event.id \in seen.entry.edits)],
         counts |-> [seen.counts EXCEPT !.exact = @ + One(event.value \in seen.entry.digests)]]
  <2>1. fresh.entry.edits = seen.entry.edits /\ fresh.entry.digests = seen.entry.digests
    BY <1>1
  <2>2. QED
    BY <1>1, <2>1, Zenon DEF ObserveResult
<1>5. [seen.counts EXCEPT !.exact = @ + One(event.value \in seen.entry.digests)]
        = [exact |-> seen.counts.exact + One(event.value \in seen.entry.digests),
           near |-> seen.counts.near, cycles |-> seen.counts.cycles]
  BY <1>3 DEF Counts
<1>6. [fresh.entry EXCEPT !.digests = @ \union {event.value},
                      !.pending = @ \/ (event.failed /\ event.id \in seen.entry.edits)]
        = [keys |-> seen.entry.keys \union {event.key},
           digests |-> seen.entry.digests \union {event.value},
           calls |-> seen.entry.calls, edits |-> seen.entry.edits,
           pending |-> seen.entry.pending \/ (event.failed /\ event.id \in seen.entry.edits)]
  <2>1. /\ fresh.entry.pending = seen.entry.pending
        /\ fresh.entry.digests = seen.entry.digests
    BY <1>1
  <2> DEFINE pending == seen.entry.pending \/ (event.failed /\ event.id \in seen.entry.edits)
             digests == seen.entry.digests \union {event.value}
  <2>2. [fresh.entry EXCEPT !.digests = @ \union {event.value},
                      !.pending = @ \/ (event.failed /\ event.id \in seen.entry.edits)]
          = ResultEntry(fresh.entry, digests, pending)
    BY <2>1, Zenon DEF ResultEntry
  <2> HIDE DEF pending, digests
  <2>3. ResultEntry(fresh.entry, digests, pending)
          = [keys |-> seen.entry.keys \union {event.key}, digests |-> digests,
             calls |-> seen.entry.calls, edits |-> seen.entry.edits, pending |-> pending]
    BY <1>1, EntryWithResult
  <2>4. QED
    BY <2>2, <2>3, Zenon DEF pending, digests
<1>7. QED
  BY <1>2, <1>4, <1>5, <1>6, Zenon DEF AfterResult

LEMMA OneType == \A c : One(c) \in {0, 1}
BY DEF One

LEMMA CappedIs ==
  ASSUME NEW V, NEW calls \in Seq(V), NEW value \in V, Len(calls) <= CallCap
  PROVE  LET new == Capped(Append(calls, value))
         IN  /\ new \in Seq(V)
             /\ Len(new) = IF Len(calls) < CallCap THEN Len(calls) + 1 ELSE CallCap
             /\ Len(new) <= CallCap /\ Len(new) # 0
             /\ new[Len(new)] = value
             /\ \A n \in 1..Len(calls) : n < Len(new) =>
                  new[Len(new) - n] = calls[Len(calls) + 1 - n]
<1>1. CallCap \in Nat \ {0} /\ Len(calls) \in Nat
  BY RepeatsAssumption
<1> DEFINE all == Append(calls, value)
<1>2. /\ all \in Seq(V) /\ Len(all) = Len(calls) + 1 /\ all[Len(calls) + 1] = value
      /\ \A i \in 1..Len(calls) : all[i] = calls[i]
  BY AppendProperties
<1> HIDE DEF all
<1>3. CASE Len(calls) < CallCap
  <2>1. Capped(all) = all
    BY <1>1, <1>2, <1>3 DEF Capped
  <2>2. QED
    BY <1>1, <1>2, <1>3, <2>1 DEF all
<1>4. CASE ~(Len(calls) < CallCap)
  <2>1. Capped(all) = Tail(all) /\ Len(calls) = CallCap
    BY <1>1, <1>2, <1>4 DEF Capped
  <2>2. /\ Tail(all) \in Seq(V) /\ Len(Tail(all)) = Len(calls)
        /\ \A i \in 1..Len(calls) : Tail(all)[i] = all[i + 1]
    BY <1>1, <1>2, HeadTailProperties
  <2> DEFINE new == Tail(all)
  <2>3. new \in Seq(V) /\ Len(new) = Len(calls)
        /\ \A i \in 1..Len(calls) : new[i] = all[i + 1]
    BY <2>2
  <2> HIDE DEF new
  <2>4. new[Len(new)] = value
    BY <1>1, <1>2, <2>1, <2>3
  <2>5. ASSUME NEW n \in 1..Len(calls), n < Len(new)
        PROVE  new[Len(new) - n] = calls[Len(calls) + 1 - n]
    <3>1. Len(new) - n \in 1..Len(calls) /\ (Len(new) - n) + 1 \in 1..Len(calls)
      BY <1>1, <2>3, <2>5
    <3>2. new[Len(new) - n] = all[(Len(new) - n) + 1]
      BY <2>3, <3>1
    <3>3. (Len(new) - n) + 1 = Len(calls) + 1 - n
      BY <1>1, <2>3
    <3>4. QED
      BY <1>2, <3>1, <3>2, <3>3
  <2>6. Capped(Append(calls, value)) = new
    BY <2>1 DEF new, all
  <2>7. QED
    BY <1>1, <1>4, <2>1, <2>3, <2>4, <2>5, <2>6
<1>5. QED
  BY <1>3, <1>4

LEMMA ObserveTyped ==
  ASSUME NEW K, NEW V, NEW I, NEW seen \in SeenType(K, V, I), Kempt(seen.entry, K, V, I),
         NEW event \in Ev(K, V, I)
  PROVE  /\ ObserveOne(seen, event) \in SeenType(K, V, I)
         /\ Kempt(ObserveOne(seen, event).entry, K, V, I)
<1>1. /\ event.key \in K /\ event.value \in V /\ event.id \in I
      /\ event.type \in {"call", "result"}
  BY DEF Ev
<1>2. /\ seen.entry \in EntryType(K, V, I) /\ seen.counts \in Counts
      /\ seen.entry.keys \in SUBSET K /\ seen.entry.digests \in SUBSET V
      /\ seen.entry.calls \in Seq(V) /\ seen.entry.edits \in SUBSET I
      /\ seen.entry.pending \in BOOLEAN
      /\ seen.counts.exact \in Nat /\ seen.counts.near \in Nat
      /\ seen.counts.cycles \in Nat
  BY SeenParts
<1>3. Len(seen.entry.calls) <= CallCap /\ (seen.entry.pending => seen.entry.edits # {})
  BY DEF Kempt
<1>4. CASE event.key \in seen.entry.keys
  BY <1>4, ObserveKnown
<1>5. CASE event.key \notin seen.entry.keys /\ event.type = "call"
  <2>1. ObserveOne(seen, event) = AfterCall(seen, event)
    BY <1>5, ObserveCallIs
  <2> DEFINE calls == Capped(Append(seen.entry.calls, event.value))
             edit == Calls[event.value].edit
             edits == IF edit THEN seen.entry.edits \union {event.id} ELSE seen.entry.edits
             pending == seen.entry.pending /\ ~(edit /\ seen.entry.pending)
             known == AfterCall(seen, event).entry
             counts == AfterCall(seen, event).counts
  <2>2. calls \in Seq(V) /\ Len(calls) <= CallCap
    BY <1>1, <1>2, <1>3, CappedIs
  <2>3. edits \in SUBSET I /\ seen.entry.edits \subseteq edits /\ pending \in BOOLEAN
        /\ (pending => seen.entry.pending)
    BY <1>1, <1>2
  <2>4. /\ AfterCall(seen, event) = [entry |-> known, counts |-> counts]
        /\ known = [keys |-> seen.entry.keys \union {event.key},
                    digests |-> seen.entry.digests, calls |-> calls, edits |-> edits,
                    pending |-> pending]
        /\ counts = [exact |-> seen.counts.exact,
                     near |-> seen.counts.near + One(Nears(seen.entry.calls, event.value)),
                     cycles |-> seen.counts.cycles + One(edit /\ seen.entry.pending)]
    BY DEF AfterCall
  <2> HIDE DEF calls, edits, pending, known, counts, edit
  <2>5. seen.entry.keys \union {event.key} \in SUBSET K
    BY <1>1, <1>2
  <2>6. known \in EntryType(K, V, I) /\ known.calls = calls /\ known.edits = edits
        /\ known.pending = pending
    BY <1>2, <2>2, <2>3, <2>4, <2>5 DEF EntryType
  <2>7. counts \in Counts
    <3>1. /\ One(Nears(seen.entry.calls, event.value)) \in Nat
          /\ One(edit /\ seen.entry.pending) \in Nat
      BY OneType
    <3>2. QED
      BY <1>2, <2>4, <3>1 DEF Counts
  <2>8. Kempt(known, K, V, I)
    BY <1>3, <2>2, <2>3, <2>6 DEF Kempt
  <2>9. AfterCall(seen, event) \in SeenType(K, V, I)
    BY <2>4, <2>6, <2>7 DEF SeenType
  <2>10. QED
    BY <2>1, <2>8, <2>9 DEF known
<1>6. CASE event.key \notin seen.entry.keys /\ event.type = "result"
  <2>1. ObserveOne(seen, event) = AfterResult(seen, event)
    BY <1>6, ObserveResultIs
  <2> DEFINE pending == seen.entry.pending \/ (event.failed /\ event.id \in seen.entry.edits)
             known == AfterResult(seen, event).entry
             counts == AfterResult(seen, event).counts
  <2>3. pending \in BOOLEAN /\ (pending => seen.entry.edits # {})
    BY <1>2, <1>3
  <2>4. /\ AfterResult(seen, event) = [entry |-> known, counts |-> counts]
        /\ known = [keys |-> seen.entry.keys \union {event.key},
                    digests |-> seen.entry.digests \union {event.value},
                    calls |-> seen.entry.calls, edits |-> seen.entry.edits,
                    pending |-> pending]
        /\ counts = [exact |-> seen.counts.exact + One(event.value \in seen.entry.digests),
                     near |-> seen.counts.near, cycles |-> seen.counts.cycles]
    BY DEF AfterResult
  <2> HIDE DEF pending, known, counts
  <2>5. /\ seen.entry.keys \union {event.key} \in SUBSET K
        /\ seen.entry.digests \union {event.value} \in SUBSET V
    BY <1>1, <1>2
  <2>6. known \in EntryType(K, V, I) /\ known.calls = seen.entry.calls
        /\ known.edits = seen.entry.edits /\ known.pending = pending
    BY <1>2, <2>3, <2>4, <2>5 DEF EntryType
  <2>7. counts \in Counts
    <3>1. One(event.value \in seen.entry.digests) \in Nat
      BY OneType
    <3>2. QED
      BY <1>2, <2>4, <3>1 DEF Counts
  <2>8. Kempt(known, K, V, I)
    BY <1>3, <2>3, <2>6 DEF Kempt
  <2>9. AfterResult(seen, event) \in SeenType(K, V, I)
    BY <2>4, <2>6, <2>7 DEF SeenType
  <2>10. QED
    BY <2>1, <2>8, <2>9 DEF known
<1>7. QED
  BY <1>1, <1>4, <1>5, <1>6

----------------------------------------------------------------------------
(* What an entry knows of a history's events *)

(* The calls from one on                                                   *)
Since(events, j) == {k \in CallsAt(events) : j <= k}

(* A failed edit was not followed by another.                              *)
Unmended(events) ==
  \E j \in ResultsAt(events) :
    /\ events[j].failed
    /\ \E e \in EditsAt(events) : e < j /\ events[e].id = events[j].id
    /\ ~ \E e \in EditsAt(events) : j < e

(* The calls remembered are the last.                                      *)
Remembers(calls, events) ==
  /\ \A j \in CallsAt(events) : Cardinality(Since(events, j)) <= CallCap =>
       /\ Cardinality(Since(events, j)) <= Len(calls)
       /\ calls[Len(calls) + 1 - Cardinality(Since(events, j))] = events[j].value
  /\ \A k \in 1..Len(calls) : \E j \in CallsAt(events) :
       Cardinality(Since(events, j)) = Len(calls) + 1 - k

(* An entry knows of the events of a history what it needs.                *)
Reflects(known, events) ==
  /\ known.keys = {events[i].key : i \in DOMAIN events}
  /\ known.digests = {events[i].value : i \in ResultsAt(events)}
  /\ known.edits = {events[i].id : i \in EditsAt(events)}
  /\ known.pending <=> Unmended(events)
  /\ Remembers(known.calls, events)

LEMMA NothingSeen ==
  /\ \A K, V, I : Kempt(NewEntry, K, V, I)
  /\ Reflects(NewEntry, <<>>)
  /\ Repeats(<<>>) = NoCounts
<1>1. /\ CallsAt(<<>>) = {} /\ ResultsAt(<<>>) = {} /\ EditsAt(<<>>) = {}
  BY DEF CallsAt, ResultsAt, EditsAt
<1>2. /\ NewEntry.keys = {} /\ NewEntry.digests = {} /\ NewEntry.edits = {}
      /\ NewEntry.calls = <<>> /\ NewEntry.pending = FALSE
  BY DEF NewEntry
<1>3. ASSUME NEW K, NEW V, NEW I PROVE Kempt(NewEntry, K, V, I)
  <2>1. NewEntry \in EntryType(K, V, I)
    BY DEF NewEntry, EntryType
  <2>2. Len(NewEntry.calls) <= CallCap
    BY <1>2, RepeatsAssumption
  <2>3. QED
    BY <1>2, <2>1, <2>2 DEF Kempt
<1>4. Reflects(NewEntry, <<>>)
  <2>1. Remembers(<<>>, <<>>)
    BY <1>1 DEF Remembers
  <2>2. ~Unmended(<<>>)
    BY <1>1 DEF Unmended
  <2>3. QED
    BY <1>1, <1>2, <2>1, <2>2 DEF Reflects
<1>5. Repeats(<<>>) = NoCounts
  <2>1. ExactRepeats(<<>>) = {} /\ NearRepeats(<<>>) = {} /\ EditCycles(<<>>) = {}
    BY <1>1 DEF ExactRepeats, NearRepeats, EditCycles
  <2>2. QED
    BY <2>1, FS_EmptySet DEF Repeats, NoCounts
<1>6. QED
  BY <1>3, <1>4, <1>5

(* What one event more makes of a history                                  *)
More(set, condition, n) == IF condition THEN set \union {n} ELSE set

(* N is the events M and one more, the n-th.                               *)
Grown(M, event, N, n) ==
  /\ n \in Nat \ {0} /\ DOMAIN N = 1..n /\ DOMAIN M = 1..(n - 1)
  /\ N[n] = event /\ \A i \in 1..(n - 1) : N[i] = M[i]
  /\ CallsAt(M) \subseteq 1..(n - 1) /\ ResultsAt(M) \subseteq 1..(n - 1)
  /\ EditsAt(M) \subseteq CallsAt(M)
  /\ CallsAt(N) = More(CallsAt(M), event.type = "call", n)
  /\ ResultsAt(N) = More(ResultsAt(M), event.type = "result", n)
  /\ EditsAt(N) = More(EditsAt(M), event.type = "call" /\ Calls[event.value].edit, n)

LEMMA OneMore ==
  ASSUME NEW K, NEW V, NEW I, NEW M \in Seq(Ev(K, V, I)), NEW event \in Ev(K, V, I),
         NEW N, N = Append(M, event), NEW n, n = Len(M) + 1
  PROVE  Grown(M, event, N, n)
<1>1. /\ N \in Seq(Ev(K, V, I)) /\ n \in Nat \ {0} /\ DOMAIN N = 1..n /\ DOMAIN M = 1..(n - 1)
      /\ N[n] = event /\ \A i \in 1..(n - 1) : N[i] = M[i]
  BY AppendProperties
<1>2. /\ CallsAt(M) \subseteq 1..(n - 1) /\ ResultsAt(M) \subseteq 1..(n - 1)
      /\ EditsAt(M) \subseteq CallsAt(M)
  BY <1>1 DEF CallsAt, ResultsAt, EditsAt
<1>3. \A i : i \in 1..n <=> i \in 1..(n - 1) \/ i = n
  BY <1>1
<1>4. CallsAt(N) = More(CallsAt(M), event.type = "call", n)
  BY <1>1, <1>3 DEF CallsAt, More
<1>5. ResultsAt(N) = More(ResultsAt(M), event.type = "result", n)
  BY <1>1, <1>3 DEF ResultsAt, More
<1>6. EditsAt(N) = More(EditsAt(M), event.type = "call" /\ Calls[event.value].edit, n)
  <2>1. ASSUME NEW i
        PROVE  i \in EditsAt(N) <=> i \in EditsAt(M) \/
                 (i = n /\ event.type = "call" /\ Calls[event.value].edit)
    <3>1. CASE i = n
      <4>1. n \notin EditsAt(M)
        BY <1>1, <1>2
      <4>2. QED
        BY <1>1, <1>4, <3>1, <4>1, <1>2 DEF EditsAt, More
    <3>2. CASE i # n
      <4>1. i \in CallsAt(N) <=> i \in CallsAt(M)
        BY <1>4, <3>2 DEF More
      <4>2. i \in CallsAt(M) => N[i] = M[i]
        BY <1>1, <1>2
      <4>3. QED
        BY <3>2, <4>1, <4>2 DEF EditsAt
    <3>3. QED
      BY <3>1, <3>2
  <2>2. QED
    BY <2>1 DEF More
<1>7. QED
  BY <1>1, <1>2, <1>4, <1>5, <1>6 DEF Grown

LEMMA CountMore ==
  ASSUME NEW n \in Nat, NEW S \in SUBSET (1..(n - 1)), NEW condition
  PROVE  /\ Cardinality(More(S, condition, n)) = Cardinality(S) + One(condition)
         /\ Cardinality(S) \in Nat
<1>1. IsFiniteSet(S) /\ n \notin S
  <2>1. IsFiniteSet(1..(n - 1)) /\ n \notin S
    BY FS_Interval
  <2>2. IsFiniteSet(S)
    BY <2>1, FS_Subset, Zenon
  <2>3. QED
    BY <2>1, <2>2
<1>2. Cardinality(S) \in Nat
  BY <1>1, FS_CardinalityType
<1>3. Cardinality(S \union {n}) = Cardinality(S) + 1
  BY <1>1, FS_AddElement
<1>4. QED
  BY <1>2, <1>3 DEF More, One

(* What the entry says of the event                                        *)
LEMMA ExactMore ==
  ASSUME NEW M, NEW event, NEW N, NEW n, Grown(M, event, N, n)
  PROVE  ExactRepeats(N) =
           More(ExactRepeats(M),
                event.type = "result" /\ event.value \in {M[i].value : i \in ResultsAt(M)}, n)
<1>1. /\ n \in Nat /\ N[n] = event /\ \A i \in 1..(n - 1) : N[i] = M[i]
      /\ ResultsAt(M) \subseteq 1..(n - 1)
      /\ ResultsAt(N) = More(ResultsAt(M), event.type = "result", n)
  BY DEF Grown
<1>2. ASSUME NEW i
      PROVE  i \in ExactRepeats(N) <=> i \in ExactRepeats(M) \/
               (i = n /\ event.type = "result" /\ event.value \in {M[j].value : j \in ResultsAt(M)})
  <2>1. CASE i = n
    <3>1. n \notin ExactRepeats(M)
      BY <1>1 DEF ExactRepeats
    <3>2. i \in ResultsAt(N) <=> event.type = "result"
      BY <1>1, <2>1 DEF More
    <3>3. (\E j \in ResultsAt(N) : j < n /\ N[j].value = N[n].value)
            <=> (\E j \in ResultsAt(M) : M[j].value = event.value)
      <4>1. \A j : j \in ResultsAt(N) /\ j < n <=> j \in ResultsAt(M)
        BY <1>1 DEF More
      <4>2. \A j \in ResultsAt(M) : N[j] = M[j]
        BY <1>1
      <4>3. QED
        BY <1>1, <4>1, <4>2
    <3>4. QED
      BY <2>1, <3>1, <3>2, <3>3 DEF ExactRepeats
  <2>2. CASE i # n
    <3>1. i \in ResultsAt(N) <=> i \in ResultsAt(M)
      BY <1>1, <2>2 DEF More
    <3>2. ASSUME i \in ResultsAt(M)
          PROVE  (\E j \in ResultsAt(N) : j < i /\ N[j].value = N[i].value)
                   <=> (\E j \in ResultsAt(M) : j < i /\ M[j].value = M[i].value)
      <4>1. i \in Nat /\ i < n /\ N[i] = M[i]
        BY <1>1, <3>2
      <4>2. \A j : j \in ResultsAt(N) /\ j < i <=> j \in ResultsAt(M) /\ j < i
        BY <1>1, <4>1 DEF More
      <4>3. \A j \in ResultsAt(M) : N[j] = M[j]
        BY <1>1
      <4>4. QED
        BY <4>1, <4>2, <4>3
    <3>3. QED
      BY <2>2, <3>1, <3>2 DEF ExactRepeats
  <2>3. QED
    BY <2>1, <2>2
<1>3. QED
  BY <1>2 DEF More

LEMMA SinceMore ==
  ASSUME NEW M, NEW event, NEW N, NEW n, Grown(M, event, N, n)
  PROVE  /\ \A j \in CallsAt(M) : Since(N, j) = More(Since(M, j), event.type = "call", n)
         /\ event.type = "call" => Since(N, n) = {n}
         /\ \A j \in CallsAt(M) : {k \in CallsAt(N) : j <= k /\ k < n} = Since(M, j)
         /\ \A i, j \in CallsAt(M) :
              {k \in CallsAt(N) : j <= k /\ k < i} = {k \in CallsAt(M) : j <= k /\ k < i}
         /\ \A j : Since(M, j) \in SUBSET (1..(n - 1))
<1>1. /\ n \in Nat /\ CallsAt(M) \subseteq 1..(n - 1)
      /\ CallsAt(N) = More(CallsAt(M), event.type = "call", n)
  BY DEF Grown
<1>2. \A j \in CallsAt(M) : j \in Nat /\ j < n
  BY <1>1
<1>3. \A j \in CallsAt(M) : Since(N, j) = More(Since(M, j), event.type = "call", n)
  BY <1>1, <1>2 DEF Since, More
<1>4. event.type = "call" => Since(N, n) = {n}
  BY <1>1, <1>2 DEF Since, More
<1>5. \A j \in CallsAt(M) : {k \in CallsAt(N) : j <= k /\ k < n} = Since(M, j)
  BY <1>1, <1>2 DEF Since, More
<1>6. \A i, j \in CallsAt(M) :
        {k \in CallsAt(N) : j <= k /\ k < i} = {k \in CallsAt(M) : j <= k /\ k < i}
  BY <1>1, <1>2 DEF More
<1>7. \A j : Since(M, j) \in SUBSET (1..(n - 1))
  BY <1>1 DEF Since
<1>8. QED
  BY <1>3, <1>4, <1>5, <1>6, <1>7

LEMMA NearMore ==
  ASSUME NEW M, NEW event, NEW N, NEW n, Grown(M, event, N, n)
  PROVE  NearRepeats(N) =
           More(NearRepeats(M),
                /\ event.type = "call"
                /\ \E j \in CallsAt(M) : /\ Similar(M[j].value, event.value)
                                         /\ Cardinality(Since(M, j)) <= CallCap, n)
<1>1. /\ n \in Nat /\ N[n] = event /\ \A i \in 1..(n - 1) : N[i] = M[i]
      /\ CallsAt(M) \subseteq 1..(n - 1)
      /\ CallsAt(N) = More(CallsAt(M), event.type = "call", n)
  BY DEF Grown
<1>2. /\ \A j \in CallsAt(M) : {k \in CallsAt(N) : j <= k /\ k < n} = Since(M, j)
      /\ \A i, j \in CallsAt(M) :
           {k \in CallsAt(N) : j <= k /\ k < i} = {k \in CallsAt(M) : j <= k /\ k < i}
  BY SinceMore
<1> DEFINE near == \E j \in CallsAt(M) : /\ Similar(M[j].value, event.value)
                                         /\ Cardinality(Since(M, j)) <= CallCap
<1>4. \A j \in CallsAt(M) : N[j] = M[j]
  BY <1>1
<1>3. ASSUME NEW i
      PROVE  i \in NearRepeats(N) <=> i \in NearRepeats(M) \/ (i = n /\ event.type = "call" /\ near)
  <2>1. CASE i = n
    <3>1. n \notin NearRepeats(M)
      BY <1>1 DEF NearRepeats
    <3>2. i \in CallsAt(N) <=> event.type = "call"
      BY <1>1, <2>1 DEF More
    <3>3. (\E j \in CallsAt(N) :
             /\ j < n /\ Similar(N[j].value, N[n].value)
             /\ Cardinality({k \in CallsAt(N) : j <= k /\ k < n}) <= CallCap) <=> near
      <4>1. \A j : j \in CallsAt(N) /\ j < n <=> j \in CallsAt(M)
        BY <1>1 DEF More
      <4>3. QED
        BY <1>1, <1>2, <1>4, <4>1
    <3>4. QED
      BY <2>1, <3>1, <3>2, <3>3 DEF NearRepeats
  <2>2. CASE i # n
    <3>1. i \in CallsAt(N) <=> i \in CallsAt(M)
      BY <1>1, <2>2 DEF More
    <3>2. ASSUME i \in CallsAt(M)
          PROVE  (\E j \in CallsAt(N) :
                    /\ j < i /\ Similar(N[j].value, N[i].value)
                    /\ Cardinality({k \in CallsAt(N) : j <= k /\ k < i}) <= CallCap)
                 <=> (\E j \in CallsAt(M) :
                    /\ j < i /\ Similar(M[j].value, M[i].value)
                    /\ Cardinality({k \in CallsAt(M) : j <= k /\ k < i}) <= CallCap)
      <4>1. i \in Nat /\ i < n /\ N[i] = M[i]
        BY <1>1, <3>2
      <4>2. \A j : j \in CallsAt(N) /\ j < i <=> j \in CallsAt(M) /\ j < i
        BY <1>1, <4>1 DEF More
      <4>3. \A j \in CallsAt(M) :
              {k \in CallsAt(N) : j <= k /\ k < i} = {k \in CallsAt(M) : j <= k /\ k < i}
        BY <1>2, <3>2
      <4>4. QED
        BY <1>4, <4>1, <4>2, <4>3
    <3>3. QED
      BY <2>2, <3>1, <3>2 DEF NearRepeats
  <2>3. QED
    BY <2>1, <2>2
<1>5. QED
  BY <1>3 DEF More

LEMMA CyclesMore ==
  ASSUME NEW M, NEW event, NEW N, NEW n, Grown(M, event, N, n)
  PROVE  EditCycles(N) =
           More(EditCycles(M),
                event.type = "call" /\ Calls[event.value].edit /\ Unmended(M), n)
<1>1. /\ n \in Nat /\ N[n] = event /\ \A i \in 1..(n - 1) : N[i] = M[i]
      /\ ResultsAt(M) \subseteq 1..(n - 1) /\ EditsAt(M) \subseteq 1..(n - 1)
      /\ ResultsAt(N) = More(ResultsAt(M), event.type = "result", n)
      /\ EditsAt(N) = More(EditsAt(M), event.type = "call" /\ Calls[event.value].edit, n)
  <2>1. EditsAt(M) \subseteq CallsAt(M) /\ CallsAt(M) \subseteq 1..(n - 1)
    BY DEF Grown
  <2>2. QED
    BY <2>1 DEF Grown
<1>2. /\ \A i \in ResultsAt(M) : N[i] = M[i] /\ i < n /\ i \in Nat
      /\ \A i \in EditsAt(M) : N[i] = M[i] /\ i < n /\ i \in Nat
  BY <1>1
<1>3. ASSUME NEW i
      PROVE  i \in EditCycles(N) <=> i \in EditCycles(M) \/
               (i = n /\ event.type = "call" /\ Calls[event.value].edit /\ Unmended(M))
  <2>1. CASE i = n
    <3>1. n \notin EditCycles(M)
      BY <1>1 DEF EditCycles
    <3>2. i \in EditsAt(N) <=> event.type = "call" /\ Calls[event.value].edit
      BY <1>1, <2>1 DEF More
    <3>3. (\E j \in ResultsAt(N) :
             /\ j < n /\ N[j].failed
             /\ \E e \in EditsAt(N) : e < j /\ N[e].id = N[j].id
             /\ ~ \E e \in EditsAt(N) : j < e /\ e < n) <=> Unmended(M)
      <4>1. \A j : j \in ResultsAt(N) /\ j < n <=> j \in ResultsAt(M)
        BY <1>1 DEF More
      <4>2. \A e : e \in EditsAt(N) /\ e < n <=> e \in EditsAt(M)
        BY <1>1 DEF More
      <4>3. \A j \in ResultsAt(M) : \A e : e \in EditsAt(N) /\ e < j <=> e \in EditsAt(M) /\ e < j
        BY <1>1, <1>2 DEF More
      <4> DEFINE Cycle(j) ==
                   /\ j < n /\ N[j].failed
                   /\ \E e \in EditsAt(N) : e < j /\ N[e].id = N[j].id
                   /\ ~ \E e \in EditsAt(N) : j < e /\ e < n
                 Open(j) ==
                   /\ M[j].failed
                   /\ \E e \in EditsAt(M) : e < j /\ M[e].id = M[j].id
                   /\ ~ \E e \in EditsAt(M) : j < e
      <4>5. ASSUME NEW j \in ResultsAt(M)
            PROVE  Cycle(j) <=> Open(j)
        <5>1. N[j] = M[j] /\ j < n
          BY <1>2
        <5>2. (\E e \in EditsAt(N) : e < j /\ N[e].id = N[j].id)
                <=> (\E e \in EditsAt(M) : e < j /\ M[e].id = M[j].id)
          BY <1>2, <4>3, <5>1
        <5>3. (\E e \in EditsAt(N) : j < e /\ e < n) <=> (\E e \in EditsAt(M) : j < e)
          BY <4>2
        <5>4. QED
          BY <5>1, <5>2, <5>3, Zenon
      <4>8. \A j : Cycle(j) => j < n
        OBVIOUS
      <4>6. (\E j \in ResultsAt(N) : Cycle(j)) <=> (\E j \in ResultsAt(M) : Open(j))
        <5> HIDE DEF Cycle, Open
        <5>1. QED
          BY <4>1, <4>5, <4>8
      <4>7. QED
        BY <4>6, Zenon DEF Unmended
    <3>4. QED
      BY <2>1, <3>1, <3>2, <3>3 DEF EditCycles
  <2>2. CASE i # n
    <3>1. i \in EditsAt(N) <=> i \in EditsAt(M)
      BY <1>1, <2>2 DEF More
    <3>2. ASSUME i \in EditsAt(M)
          PROVE  (\E j \in ResultsAt(N) :
                    /\ j < i /\ N[j].failed
                    /\ \E e \in EditsAt(N) : e < j /\ N[e].id = N[j].id
                    /\ ~ \E e \in EditsAt(N) : j < e /\ e < i)
                 <=> (\E j \in ResultsAt(M) :
                    /\ j < i /\ M[j].failed
                    /\ \E e \in EditsAt(M) : e < j /\ M[e].id = M[j].id
                    /\ ~ \E e \in EditsAt(M) : j < e /\ e < i)
      <4>1. i \in Nat /\ i < n
        BY <1>2, <3>2
      <4>2. \A j : j \in ResultsAt(N) /\ j < i <=> j \in ResultsAt(M) /\ j < i
        BY <1>1, <4>1 DEF More
      <4>3. \A j \in ResultsAt(M) : \A e : e \in EditsAt(N) /\ e < j <=> e \in EditsAt(M) /\ e < j
        BY <1>1, <1>2 DEF More
      <4>4. \A e : e \in EditsAt(N) /\ e < i <=> e \in EditsAt(M) /\ e < i
        BY <1>1, <4>1 DEF More
      <4> DEFINE Cycle(L, j) ==
                   /\ j < i /\ L[j].failed
                   /\ \E e \in EditsAt(L) : e < j /\ L[e].id = L[j].id
                   /\ ~ \E e \in EditsAt(L) : j < e /\ e < i
      <4>5. ASSUME NEW j \in ResultsAt(M)
            PROVE  Cycle(N, j) <=> Cycle(M, j)
        <5>1. N[j] = M[j]
          BY <1>2
        <5>2. (\E e \in EditsAt(N) : e < j /\ N[e].id = N[j].id)
                <=> (\E e \in EditsAt(M) : e < j /\ M[e].id = M[j].id)
          BY <1>2, <4>3, <5>1
        <5>3. (\E e \in EditsAt(N) : j < e /\ e < i)
                <=> (\E e \in EditsAt(M) : j < e /\ e < i)
          BY <4>4
        <5>4. QED
          BY <5>1, <5>2, <5>3, Zenon
      <4>8. \A j : (Cycle(N, j) => j < i) /\ (Cycle(M, j) => j < i)
        OBVIOUS
      <4>6. (\E j \in ResultsAt(N) : Cycle(N, j)) <=> (\E j \in ResultsAt(M) : Cycle(M, j))
        <5> HIDE DEF Cycle
        <5>1. QED
          BY <4>2, <4>5, <4>8
      <4>7. QED
        BY <4>6, Zenon
    <3>3. QED
      BY <2>2, <3>1, <3>2 DEF EditCycles
  <2>3. QED
    BY <2>1, <2>2
<1>4. QED
  BY <1>3 DEF More

LEMMA SinceCount ==
  ASSUME NEW M, NEW event, NEW N, NEW n, Grown(M, event, N, n), NEW j \in CallsAt(M)
  PROVE  Cardinality(Since(M, j)) \in Nat \ {0}
<1>1. /\ n \in Nat /\ CallsAt(M) \subseteq 1..(n - 1)
  BY DEF Grown
<1>2. j \in Since(M, j) /\ Since(M, j) \in SUBSET (1..(n - 1))
  BY <1>1 DEF Since
<1>3. IsFiniteSet(1..(n - 1))
  BY <1>1, FS_Interval
<1>4. IsFiniteSet(Since(M, j))
  BY <1>2, <1>3, FS_Subset
<1>5. Cardinality(Since(M, j)) \in Nat /\ Cardinality(Since(M, j)) # 0
  BY <1>2, <1>4, FS_CardinalityType, FS_EmptySet
<1>6. QED
  BY <1>5

LEMMA NearsIs ==
  ASSUME NEW M, NEW event, NEW N, NEW n, Grown(M, event, N, n),
         NEW V, NEW calls \in Seq(V), Len(calls) <= CallCap, Remembers(calls, M), NEW value
  PROVE  Nears(calls, value) <=>
           \E j \in CallsAt(M) : Similar(M[j].value, value) /\ Cardinality(Since(M, j)) <= CallCap
<1>0. Len(calls) \in Nat /\ CallCap \in Nat
  BY RepeatsAssumption
<1>1. ASSUME NEW k \in 1..Len(calls), Similar(calls[k], value)
      PROVE  \E j \in CallsAt(M) :
               Similar(M[j].value, value) /\ Cardinality(Since(M, j)) <= CallCap
  <2>1. PICK j \in CallsAt(M) : Cardinality(Since(M, j)) = Len(calls) + 1 - k
    BY <1>1 DEF Remembers
  <2>2. Cardinality(Since(M, j)) <= CallCap /\ Len(calls) + 1 - Cardinality(Since(M, j)) = k
    BY <1>0, <2>1
  <2>3. calls[k] = M[j].value
    BY <2>2 DEF Remembers
  <2>4. QED
    BY <1>1, <2>2, <2>3
<1>2. ASSUME NEW j \in CallsAt(M), Similar(M[j].value, value),
             Cardinality(Since(M, j)) <= CallCap
      PROVE  Nears(calls, value)
  <2>1. /\ Cardinality(Since(M, j)) <= Len(calls)
        /\ calls[Len(calls) + 1 - Cardinality(Since(M, j))] = M[j].value
    BY <1>2 DEF Remembers
  <2>2. Cardinality(Since(M, j)) \in Nat \ {0}
    BY SinceCount
  <2>3. Len(calls) + 1 - Cardinality(Since(M, j)) \in 1..Len(calls)
    BY <1>0, <2>1, <2>2
  <2>4. QED
    BY <1>2, <2>1, <2>3 DEF Nears
<1>3. QED
  BY <1>1, <1>2 DEF Nears

LEMMA RemembersCall ==
  ASSUME NEW M, NEW event, NEW N, NEW n, Grown(M, event, N, n), event.type = "call",
         NEW V, NEW calls \in Seq(V), Len(calls) <= CallCap, Remembers(calls, M),
         event.value \in V
  PROVE  Remembers(Capped(Append(calls, event.value)), N)
<1> DEFINE new == Capped(Append(calls, event.value))
           L == Len(calls)
           C(j) == Cardinality(Since(M, j))
<1>0. L \in Nat /\ CallCap \in Nat \ {0} /\ L <= CallCap
  BY RepeatsAssumption
<1>1. /\ Len(new) = IF L < CallCap THEN L + 1 ELSE CallCap
      /\ Len(new) <= CallCap /\ Len(new) # 0
      /\ new[Len(new)] = event.value
      /\ \A k \in 1..L : k < Len(new) => new[Len(new) - k] = calls[L + 1 - k]
  BY CappedIs
<1>2. /\ n \in Nat /\ N[n] = event /\ \A i \in 1..(n - 1) : N[i] = M[i]
      /\ CallsAt(M) \subseteq 1..(n - 1)
      /\ CallsAt(N) = CallsAt(M) \union {n}
  BY DEF Grown, More
<1>3. ASSUME NEW j \in CallsAt(M)
      PROVE  Cardinality(Since(N, j)) = C(j) + 1 /\ C(j) \in Nat \ {0}
  <2>1. Since(N, j) = More(Since(M, j), TRUE, n) /\ Since(M, j) \in SUBSET (1..(n - 1))
    <3>1. /\ Since(N, j) = More(Since(M, j), event.type = "call", n)
          /\ Since(M, j) \in SUBSET (1..(n - 1))
      BY SinceMore
    <3>2. QED
      BY <3>1 DEF More
  <2>2. Cardinality(More(Since(M, j), TRUE, n)) = C(j) + One(TRUE)
    BY <1>2, <2>1, CountMore
  <2>3. C(j) \in Nat \ {0}
    BY SinceCount
  <2>4. QED
    BY <2>1, <2>2, <2>3 DEF One
<1>4. Cardinality(Since(N, n)) = 1
  <2>1. Since(N, n) = {n}
    BY SinceMore
  <2>2. QED
    BY <2>1, FS_Singleton
<1>5. ASSUME NEW j \in CallsAt(M)
      PROVE  /\ C(j) <= CallCap => C(j) <= L /\ calls[L + 1 - C(j)] = M[j].value
             /\ N[j] = M[j]
  BY <1>2 DEF Remembers
<1>6. \A k \in 1..L : \E j \in CallsAt(M) : C(j) = L + 1 - k
  BY DEF Remembers
<1> HIDE DEF new, C
<1>13. Len(new) \in Nat
  BY <1>0, <1>1
<1>7. ASSUME NEW j \in CallsAt(N), Cardinality(Since(N, j)) <= CallCap
      PROVE  /\ Cardinality(Since(N, j)) <= Len(new)
             /\ new[Len(new) + 1 - Cardinality(Since(N, j))] = N[j].value
  <2>1. CASE j = n
    <3>1. Len(new) + 1 - 1 = Len(new) /\ 1 <= Len(new)
      BY <1>1, <1>13
    <3>2. QED
      BY <1>1, <1>2, <1>4, <2>1, <3>1
  <2>2. CASE j \in CallsAt(M)
    <3>1. Cardinality(Since(N, j)) = C(j) + 1 /\ C(j) \in Nat \ {0}
      BY <1>3, <2>2
    <3>2. C(j) <= CallCap /\ C(j) < CallCap
      BY <1>0, <1>7, <3>1
    <3>3. C(j) <= L /\ calls[L + 1 - C(j)] = M[j].value /\ N[j] = M[j]
      BY <1>5, <2>2, <3>2
    <3>4. C(j) \in 1..L /\ C(j) < Len(new)
      BY <1>0, <1>1, <3>1, <3>2, <3>3
    <3>5. new[Len(new) - C(j)] = calls[L + 1 - C(j)]
      BY <1>1, <3>4
    <3>6. Len(new) + 1 - (C(j) + 1) = Len(new) - C(j) /\ C(j) + 1 <= Len(new)
      BY <1>13, <3>1, <3>4
    <3>7. QED
      BY <3>1, <3>3, <3>5, <3>6
  <2>3. QED
    BY <1>2, <2>1, <2>2
<1>8. ASSUME NEW k \in 1..Len(new)
      PROVE  \E j \in CallsAt(N) : Cardinality(Since(N, j)) = Len(new) + 1 - k
  <2>1. CASE k = Len(new)
    BY <1>2, <1>4, <1>13, <2>1
  <2>2. CASE k # Len(new)
    <3> DEFINE i == L + k + 1 - Len(new)
    <3>1. i \in 1..L /\ L + 1 - i = Len(new) - k
      BY <1>0, <1>1, <1>13, <2>2
    <3>2. PICK j \in CallsAt(M) : C(j) = L + 1 - i
      BY <1>6, <3>1
    <3> HIDE DEF i
    <3>3. Cardinality(Since(N, j)) = (Len(new) - k) + 1
      BY <1>3, <3>1, <3>2
    <3>4. j \in CallsAt(N) /\ (Len(new) - k) + 1 = Len(new) + 1 - k
      BY <1>2, <1>13
    <3>5. QED
      BY <3>3, <3>4
  <2>3. QED
    BY <2>1, <2>2
<1>9. Remembers(new, N)
  BY <1>7, <1>8 DEF Remembers
<1>10. QED
  BY <1>9 DEF new

LEMMA RemembersOther ==
  ASSUME NEW M, NEW event, NEW N, NEW n, Grown(M, event, N, n), event.type # "call",
         NEW calls, Remembers(calls, M)
  PROVE  Remembers(calls, N)
<1>1. CallsAt(N) = CallsAt(M) /\ \A j \in CallsAt(M) : N[j] = M[j]
  BY DEF Grown, More
<1>2. \A j \in CallsAt(M) : Since(N, j) = Since(M, j)
  BY <1>1 DEF Since
<1>3. QED
  BY <1>1, <1>2 DEF Remembers

LEMMA KeysMore ==
  ASSUME NEW M, NEW event, NEW N, NEW n, Grown(M, event, N, n)
  PROVE  {N[i].key : i \in DOMAIN N} = {M[i].key : i \in DOMAIN M} \union {event.key}
<1>1. N[n] = event /\ \A i \in DOMAIN M : N[i] = M[i]
  BY DEF Grown
<1>2. \A i : i \in DOMAIN N <=> i \in DOMAIN M \/ i = n
  <2>1. n \in Nat /\ DOMAIN N = 1..n /\ DOMAIN M = 1..(n - 1)
    BY DEF Grown
  <2>2. n # 0
    BY DEF Grown
  <2>3. QED
    BY <2>1, <2>2
<1>3. QED
  BY <1>1, <1>2

LEMMA ReflectsCall ==
  ASSUME NEW M, NEW event, NEW N, NEW n, Grown(M, event, N, n), event.type = "call",
         NEW K, NEW V, NEW I, event \in Ev(K, V, I), NEW seen \in SeenType(K, V, I),
         Kempt(seen.entry, K, V, I), Reflects(seen.entry, M)
  PROVE  Reflects(AfterCall(seen, event).entry, N)
<1>1. /\ n \in Nat /\ N[n] = event /\ \A i \in 1..(n - 1) : N[i] = M[i]
      /\ DOMAIN N = 1..n /\ DOMAIN M = 1..(n - 1)
      /\ CallsAt(M) \subseteq 1..(n - 1) /\ ResultsAt(M) \subseteq 1..(n - 1)
      /\ EditsAt(M) \subseteq 1..(n - 1)
      /\ ResultsAt(N) = ResultsAt(M)
      /\ EditsAt(N) = More(EditsAt(M), Calls[event.value].edit, n)
  BY DEF Grown, More
<1>2. /\ seen.entry.calls \in Seq(V) /\ Len(seen.entry.calls) <= CallCap /\ event.value \in V
      /\ seen.entry.pending \in BOOLEAN
  BY SeenParts DEF Kempt, Ev
<1>3. /\ seen.entry.keys = {M[i].key : i \in DOMAIN M}
      /\ seen.entry.digests = {M[i].value : i \in ResultsAt(M)}
      /\ seen.entry.edits = {M[i].id : i \in EditsAt(M)}
      /\ seen.entry.pending <=> Unmended(M)
      /\ Remembers(seen.entry.calls, M)
  BY DEF Reflects
<1> DEFINE known == AfterCall(seen, event).entry
           edit == Calls[event.value].edit
<1>4. /\ known.keys = seen.entry.keys \union {event.key}
      /\ known.digests = seen.entry.digests
      /\ known.calls = Capped(Append(seen.entry.calls, event.value))
      /\ known.edits = IF edit THEN seen.entry.edits \union {event.id} ELSE seen.entry.edits
      /\ known.pending = (seen.entry.pending /\ ~(edit /\ seen.entry.pending))
  BY DEF AfterCall
<1> HIDE DEF known
<1>5. known.keys = {N[i].key : i \in DOMAIN N}
  BY <1>3, <1>4, KeysMore
<1>6. known.digests = {N[i].value : i \in ResultsAt(N)}
  BY <1>1, <1>3, <1>4
<1>7. known.edits = {N[i].id : i \in EditsAt(N)}
  <2>1. \A i \in EditsAt(M) : N[i] = M[i]
    BY <1>1
  <2> HIDE DEF edit
  <2>2. CASE edit
    BY <1>1, <1>3, <1>4, <2>1, <2>2 DEF More, edit
  <2>3. CASE ~edit
    BY <1>1, <1>3, <1>4, <2>1, <2>3 DEF More, edit
  <2>4. QED
    BY <2>2, <2>3
<1>8. known.pending <=> Unmended(N)
  <2>1. \A i \in EditsAt(M) : N[i] = M[i] /\ i < n
    BY <1>1
  <2>2. \A i \in ResultsAt(M) : N[i] = M[i] /\ i < n /\ i \in Nat
    BY <1>1
  <2>3. CASE edit
    <3>1. n \in EditsAt(N)
      BY <1>1, <2>3 DEF More
    <3>2. ~Unmended(N)
      BY <1>1, <2>2, <3>1 DEF Unmended
    <3>3. QED
      BY <1>4, <2>3, <3>2
  <2>4. CASE ~edit
    <3>1. EditsAt(N) = EditsAt(M)
      BY <1>1, <2>4 DEF More
    <3>2. Unmended(N) <=> Unmended(M)
      BY <1>1, <2>1, <2>2, <3>1 DEF Unmended
    <3>3. QED
      BY <1>2, <1>3, <1>4, <2>4, <3>2
  <2>5. QED
    BY <2>3, <2>4
<1>9. Remembers(known.calls, N)
  BY <1>2, <1>3, <1>4, RemembersCall
<1>10. Reflects(known, N)
  BY <1>5, <1>6, <1>7, <1>8, <1>9 DEF Reflects
<1>11. QED
  BY <1>10 DEF known

LEMMA ReflectsResult ==
  ASSUME NEW M, NEW event, NEW N, NEW n, Grown(M, event, N, n), event.type = "result",
         NEW K, NEW V, NEW I, event \in Ev(K, V, I), NEW seen \in SeenType(K, V, I),
         Reflects(seen.entry, M)
  PROVE  Reflects(AfterResult(seen, event).entry, N)
<1>1. /\ n \in Nat /\ N[n] = event /\ \A i \in 1..(n - 1) : N[i] = M[i]
      /\ DOMAIN N = 1..n /\ DOMAIN M = 1..(n - 1)
      /\ ResultsAt(M) \subseteq 1..(n - 1) /\ EditsAt(M) \subseteq 1..(n - 1)
      /\ ResultsAt(N) = ResultsAt(M) \union {n}
      /\ EditsAt(N) = EditsAt(M)
  BY DEF Grown, More
<1>2. seen.entry.pending \in BOOLEAN /\ event.failed \in BOOLEAN
  BY SeenParts DEF Ev
<1>3. /\ seen.entry.keys = {M[i].key : i \in DOMAIN M}
      /\ seen.entry.digests = {M[i].value : i \in ResultsAt(M)}
      /\ seen.entry.edits = {M[i].id : i \in EditsAt(M)}
      /\ seen.entry.pending <=> Unmended(M)
      /\ Remembers(seen.entry.calls, M)
  BY DEF Reflects
<1> DEFINE known == AfterResult(seen, event).entry
<1>4. /\ known.keys = seen.entry.keys \union {event.key}
      /\ known.digests = seen.entry.digests \union {event.value}
      /\ known.calls = seen.entry.calls /\ known.edits = seen.entry.edits
      /\ known.pending = (seen.entry.pending \/ (event.failed /\ event.id \in seen.entry.edits))
  BY DEF AfterResult
<1> HIDE DEF known
<1>5. known.keys = {N[i].key : i \in DOMAIN N}
  BY <1>3, <1>4, KeysMore
<1>6. known.digests = {N[i].value : i \in ResultsAt(N)}
  BY <1>1, <1>3, <1>4
<1>7. known.edits = {N[i].id : i \in EditsAt(N)}
  BY <1>1, <1>3, <1>4
<1>8. known.pending <=> Unmended(N)
  <2>1. \A i \in EditsAt(M) : N[i] = M[i] /\ i < n /\ i \in Nat
    BY <1>1
  <2>2. \A i \in ResultsAt(M) : N[i] = M[i] /\ i < n /\ i \in Nat
    BY <1>1
  <2>3. ASSUME event.failed, event.id \in seen.entry.edits
        PROVE  Unmended(N)
    <3>1. PICK e \in EditsAt(M) : M[e].id = event.id
      BY <1>3, <2>3
    <3>2. \A d \in EditsAt(N) : ~(n < d)
      BY <1>1, <2>1
    <3>3. e \in EditsAt(N) /\ e < n /\ N[e].id = N[n].id /\ n \in ResultsAt(N) /\ N[n].failed
      BY <1>1, <2>1, <2>3, <3>1
    <3>4. QED
      BY <3>2, <3>3 DEF Unmended
  <2>4. ASSUME Unmended(M) PROVE Unmended(N)
    BY <1>1, <2>1, <2>2, <2>4 DEF Unmended
  <2>5. ASSUME Unmended(N), ~Unmended(M)
        PROVE  event.failed /\ event.id \in seen.entry.edits
    <3>1. PICK j \in ResultsAt(N) :
            /\ N[j].failed
            /\ \E e \in EditsAt(N) : e < j /\ N[e].id = N[j].id
            /\ ~ \E e \in EditsAt(N) : j < e
      BY <2>5 DEF Unmended
    <3>2. j \notin ResultsAt(M)
      BY <1>1, <2>1, <2>2, <2>5, <3>1 DEF Unmended
    <3>3. j = n
      BY <1>1, <3>2
    <3>4. QED
      BY <1>1, <1>3, <2>1, <3>1, <3>3
  <2>6. QED
    BY <1>2, <1>3, <1>4, <2>3, <2>4, <2>5
<1>9. Remembers(known.calls, N)
  BY <1>3, <1>4, RemembersOther
<1>10. Reflects(known, N)
  BY <1>5, <1>6, <1>7, <1>8, <1>9 DEF Reflects
<1>11. QED
  BY <1>10 DEF known

----------------------------------------------------------------------------
(* What one event adds to the repeats *)

(* Whether an event repeats another                                        *)
ExactAt(M, event) ==
  event.type = "result" /\ event.value \in {M[i].value : i \in ResultsAt(M)}
NearAt(M, event) ==
  /\ event.type = "call"
  /\ \E j \in CallsAt(M) : /\ Similar(M[j].value, event.value)
                           /\ Cardinality(Since(M, j)) <= CallCap
CycleAt(M, event) == event.type = "call" /\ Calls[event.value].edit /\ Unmended(M)

LEMMA RepeatsMore ==
  ASSUME NEW M, NEW event, NEW N, NEW n, Grown(M, event, N, n)
  PROVE  /\ Repeats(M) \in Counts
         /\ Repeats(N).exact = Repeats(M).exact + One(ExactAt(M, event))
         /\ Repeats(N).near = Repeats(M).near + One(NearAt(M, event))
         /\ Repeats(N).cycles = Repeats(M).cycles + One(CycleAt(M, event))
<1>1. n \in Nat
  BY DEF Grown
<1>2. /\ ExactRepeats(M) \in SUBSET (1..(n - 1)) /\ NearRepeats(M) \in SUBSET (1..(n - 1))
      /\ EditCycles(M) \in SUBSET (1..(n - 1))
  <2>1. /\ CallsAt(M) \subseteq 1..(n - 1) /\ ResultsAt(M) \subseteq 1..(n - 1)
        /\ EditsAt(M) \subseteq CallsAt(M)
    BY DEF Grown
  <2>2. QED
    BY <2>1 DEF ExactRepeats, NearRepeats, EditCycles
<1>3. /\ Cardinality(ExactRepeats(M)) \in Nat /\ Cardinality(NearRepeats(M)) \in Nat
      /\ Cardinality(EditCycles(M)) \in Nat
  BY <1>1, <1>2, CountMore
<1>4. Repeats(M) \in Counts
  BY <1>3 DEF Repeats, Counts
<1>5. \A c : Cardinality(More(ExactRepeats(M), c, n)) = Cardinality(ExactRepeats(M)) + One(c)
  BY <1>1, <1>2, CountMore
<1>6. \A c : Cardinality(More(NearRepeats(M), c, n)) = Cardinality(NearRepeats(M)) + One(c)
  BY <1>1, <1>2, CountMore
<1>7. \A c : Cardinality(More(EditCycles(M), c, n)) = Cardinality(EditCycles(M)) + One(c)
  BY <1>1, <1>2, CountMore
<1>8. /\ \A E : Repeats(E).exact = Cardinality(ExactRepeats(E))
      /\ \A E : Repeats(E).near = Cardinality(NearRepeats(E))
      /\ \A E : Repeats(E).cycles = Cardinality(EditCycles(E))
  BY DEF Repeats
<1>9. Repeats(N).exact = Repeats(M).exact + One(ExactAt(M, event))
  <2>1. ExactRepeats(N) = More(ExactRepeats(M), ExactAt(M, event), n)
    BY ExactMore DEF ExactAt
  <2>2. QED
    BY <1>5, <1>8, <2>1
<1>10. Repeats(N).near = Repeats(M).near + One(NearAt(M, event))
  <2>1. NearRepeats(N) = More(NearRepeats(M), NearAt(M, event), n)
    BY NearMore DEF NearAt
  <2>2. QED
    BY <1>6, <1>8, <2>1
<1>11. Repeats(N).cycles = Repeats(M).cycles + One(CycleAt(M, event))
  <2>1. EditCycles(N) = More(EditCycles(M), CycleAt(M, event), n)
    BY CyclesMore DEF CycleAt
  <2>2. QED
    BY <1>7, <1>8, <2>1
<1>12. QED
  BY <1>4, <1>9, <1>10, <1>11

LEMMA PlusIs ==
  ASSUME NEW a \in Counts, NEW b \in Counts, NEW c \in Counts
  PROVE  Plus(a, b) = c <=> /\ c.exact = a.exact + b.exact /\ c.near = a.near + b.near
                            /\ c.cycles = a.cycles + b.cycles
<1>1. c = [exact |-> c.exact, near |-> c.near, cycles |-> c.cycles]
  BY CountsIs
<1>2. QED
  BY <1>1 DEF Plus

LEMMA PlusTyped ==
  ASSUME NEW a \in Counts, NEW b \in Counts
  PROVE  /\ Plus(a, b) \in Counts /\ Plus(a, b) = Plus(b, a)
         /\ NoCounts \in Counts /\ Plus(a, NoCounts) = a
<1>1. /\ a.exact \in Nat /\ a.near \in Nat /\ a.cycles \in Nat
      /\ b.exact \in Nat /\ b.near \in Nat /\ b.cycles \in Nat
  BY DEF Counts
<1>2. Plus(a, b) \in Counts
  BY <1>1 DEF Plus, Counts
<1>3. NoCounts \in Counts
  BY DEF NoCounts, Counts
<1>4. Plus(a, NoCounts) = a
  <2>1. NoCounts.exact = 0 /\ NoCounts.near = 0 /\ NoCounts.cycles = 0
    BY DEF NoCounts
  <2>2. QED
    BY <1>1, <1>3, <2>1, PlusIs
<1>5. Plus(a, b) = Plus(b, a)
  BY <1>1 DEF Plus
<1>6. QED
  BY <1>2, <1>3, <1>4, <1>5

LEMMA PlusAssociates ==
  ASSUME NEW a \in Counts, NEW b \in Counts, NEW c \in Counts
  PROVE  Plus(Plus(a, b), c) = Plus(a, Plus(b, c))
<1>1. /\ a.exact \in Nat /\ a.near \in Nat /\ a.cycles \in Nat
      /\ b.exact \in Nat /\ b.near \in Nat /\ b.cycles \in Nat
      /\ c.exact \in Nat /\ c.near \in Nat /\ c.cycles \in Nat
  BY DEF Counts
<1>2. QED
  BY <1>1 DEF Plus

(* The counts of a step                                                    *)
Raised(c, d, exact, near, cycles) ==
  /\ d \in Counts
  /\ d.exact = c.exact + One(exact) /\ d.near = c.near + One(near)
  /\ d.cycles = c.cycles + One(cycles)

LEMMA BothRaised ==
  ASSUME NEW base \in Counts, NEW c \in Counts, NEW d, NEW u \in Counts, NEW v,
         NEW exact, NEW near, NEW cycles,
         Raised(c, d, exact, near, cycles), Raised(u, v, exact, near, cycles),
         Plus(base, c) = u
  PROVE  Plus(base, d) = v
<1>1. /\ base.exact \in Nat /\ base.near \in Nat /\ base.cycles \in Nat
      /\ c.exact \in Nat /\ c.near \in Nat /\ c.cycles \in Nat
  BY DEF Counts
<1>2. One(exact) \in Nat /\ One(near) \in Nat /\ One(cycles) \in Nat
  BY OneType
<1>3. /\ d \in Counts /\ v \in Counts
      /\ d.exact = c.exact + One(exact) /\ d.near = c.near + One(near)
      /\ d.cycles = c.cycles + One(cycles)
      /\ v.exact = u.exact + One(exact) /\ v.near = u.near + One(near)
      /\ v.cycles = u.cycles + One(cycles)
  BY DEF Raised
<1>4. /\ u.exact = base.exact + c.exact /\ u.near = base.near + c.near
      /\ u.cycles = base.cycles + c.cycles
  BY PlusIs
<1>5. /\ v.exact = base.exact + d.exact /\ v.near = base.near + d.near
      /\ v.cycles = base.cycles + d.cycles
  BY <1>1, <1>2, <1>3, <1>4
<1>6. QED
  BY <1>3, <1>5, PlusIs

(* An event seen for the first time is counted if it repeats another.      *)
LEMMA ObserveMore ==
  ASSUME NEW M, NEW event, NEW N, NEW n, Grown(M, event, N, n), Repeats(N) \in Counts,
         NEW K, NEW V, NEW I, event \in Ev(K, V, I), NEW seen \in SeenType(K, V, I),
         Kempt(seen.entry, K, V, I), Reflects(seen.entry, M),
         \A i \in DOMAIN M : M[i].key # event.key,
         NEW base \in Counts, Plus(base, seen.counts) = Repeats(M)
  PROVE  /\ Reflects(ObserveOne(seen, event).entry, N)
         /\ Plus(base, ObserveOne(seen, event).counts) = Repeats(N)
<1>1. event.key \notin seen.entry.keys
  BY DEF Reflects
<1>2. /\ ObserveOne(seen, event).counts \in Counts
      /\ seen.counts \in Counts /\ Repeats(M) \in Counts
  <2>1. ObserveOne(seen, event) \in SeenType(K, V, I)
    BY ObserveTyped
  <2>2. QED
    BY <2>1, RepeatsMore DEF SeenType
<1> DEFINE exact == ExactAt(M, event)
           near == NearAt(M, event)
           cycles == CycleAt(M, event)
<1>3. Raised(Repeats(M), Repeats(N), exact, near, cycles)
  BY RepeatsMore, Zenon DEF Raised
<1>4. seen.counts.exact \in Nat /\ seen.counts.near \in Nat /\ seen.counts.cycles \in Nat
  BY <1>2 DEF Counts
<1>5. CASE event.type = "call"
  <2>1. ObserveOne(seen, event) = AfterCall(seen, event)
    BY <1>1, <1>5, ObserveCallIs
  <2>2. Reflects(AfterCall(seen, event).entry, N)
    BY <1>5, ReflectsCall
  <2>3. Nears(seen.entry.calls, event.value) <=> near
    <3>1. /\ seen.entry.calls \in Seq(V) /\ Len(seen.entry.calls) <= CallCap
          /\ Remembers(seen.entry.calls, M)
      BY SeenParts DEF Kempt, Reflects
    <3>2. QED
      BY <1>5, <3>1, NearsIs DEF NearAt
  <2>4. (Calls[event.value].edit /\ seen.entry.pending) <=> cycles
    BY <1>5 DEF Reflects, CycleAt
  <2>5. ~exact
    BY <1>5 DEF ExactAt
  <2> DEFINE counts == AfterCall(seen, event).counts
  <2>6. /\ counts.exact = seen.counts.exact
        /\ counts.near = seen.counts.near + One(Nears(seen.entry.calls, event.value))
        /\ counts.cycles = seen.counts.cycles + One(Calls[event.value].edit /\ seen.entry.pending)
    BY DEF AfterCall
  <2> HIDE DEF counts, exact, near, cycles
  <2>7. /\ One(exact) = 0 /\ One(Nears(seen.entry.calls, event.value)) = One(near)
        /\ One(Calls[event.value].edit /\ seen.entry.pending) = One(cycles)
    BY <2>3, <2>4, <2>5 DEF One
  <2>8. Raised(seen.counts, counts, exact, near, cycles)
    BY <1>2, <1>4, <2>1, <2>6, <2>7 DEF Raised, counts
  <2>9. Plus(base, counts) = Repeats(N)
    BY <1>2, <1>3, <2>8, BothRaised
  <2>10. QED
    BY <2>1, <2>2, <2>9 DEF counts
<1>6. CASE event.type = "result"
  <2>1. ObserveOne(seen, event) = AfterResult(seen, event)
    BY <1>1, <1>6, ObserveResultIs
  <2>2. Reflects(AfterResult(seen, event).entry, N)
    BY <1>6, ReflectsResult
  <2>3. event.value \in seen.entry.digests <=> exact
    BY <1>6 DEF Reflects, ExactAt
  <2>5. ~near /\ ~cycles
    BY <1>6 DEF NearAt, CycleAt
  <2> DEFINE counts == AfterResult(seen, event).counts
  <2>6. /\ counts.exact = seen.counts.exact + One(event.value \in seen.entry.digests)
        /\ counts.near = seen.counts.near
        /\ counts.cycles = seen.counts.cycles
    BY DEF AfterResult
  <2> HIDE DEF counts, exact, near, cycles
  <2>7. One(near) = 0 /\ One(cycles) = 0
        /\ One(event.value \in seen.entry.digests) = One(exact)
    BY <2>3, <2>5 DEF One
  <2>8. Raised(seen.counts, counts, exact, near, cycles)
    BY <1>2, <1>4, <2>1, <2>6, <2>7 DEF Raised, counts
  <2>9. Plus(base, counts) = Repeats(N)
    BY <1>2, <1>3, <2>8, BothRaised
  <2>10. QED
    BY <2>1, <2>2, <2>9 DEF counts
<1>7. event.type \in {"call", "result"}
  BY DEF Ev
<1>8. QED
  BY <1>5, <1>6, <1>7

(* Repeats are counts, of whatever events.                                 *)
LEMMA RepeatsTyped ==
  ASSUME NEW S, NEW E \in Seq(S)
  PROVE  Repeats(E) \in Counts
<1>1. Len(E) \in Nat /\ DOMAIN E = 1..Len(E)
  OBVIOUS
<1>2. IsFiniteSet(1..Len(E))
  BY <1>1, FS_Interval
<1>3. /\ ExactRepeats(E) \subseteq 1..Len(E) /\ NearRepeats(E) \subseteq 1..Len(E)
      /\ EditCycles(E) \subseteq 1..Len(E)
  BY <1>1 DEF ExactRepeats, NearRepeats, EditCycles, EditsAt, ResultsAt, CallsAt
<1>4. /\ Cardinality(ExactRepeats(E)) \in Nat /\ Cardinality(NearRepeats(E)) \in Nat
      /\ Cardinality(EditCycles(E)) \in Nat
  BY <1>2, <1>3, FS_Subset, FS_CardinalityType
<1>5. QED
  BY <1>4 DEF Repeats, Counts

----------------------------------------------------------------------------
(* A history is replayed, and goes on *)

(* The first k events                                                      *)
Upto(E, k) == [i \in 1..k |-> E[i]]

LEMMA UptoIs ==
  ASSUME NEW S, NEW E \in Seq(S), NEW k \in 0..Len(E)
  PROVE  /\ Upto(E, k) \in Seq(S) /\ Len(Upto(E, k)) = k /\ DOMAIN Upto(E, k) = 1..k
         /\ \A i \in 1..k : Upto(E, k)[i] = E[i]
         /\ Upto(E, 0) = <<>> /\ Upto(E, Len(E)) = E
<1>1. k \in Nat /\ Len(E) \in Nat /\ \A i \in 1..k : E[i] \in S
  OBVIOUS
<1>2. Upto(E, k) \in Seq(S) /\ Len(Upto(E, k)) = k
  BY <1>1 DEF Upto
<1>3. Upto(E, Len(E)) = E
  <2>1. E = [i \in 1..Len(E) |-> E[i]]
    OBVIOUS
  <2>2. QED
    BY <2>1 DEF Upto
<1>4. Upto(E, 0) = <<>>
  <2>1. 1..0 = {}
    OBVIOUS
  <2>2. QED
    BY <2>1 DEF Upto
<1>5. QED
  BY <1>2, <1>3, <1>4 DEF Upto

LEMMA UptoMore ==
  ASSUME NEW S, NEW E \in Seq(S), NEW k \in Nat, k < Len(E)
  PROVE  /\ Upto(E, k + 1) = Append(Upto(E, k), E[k + 1])
         /\ Upto(E, k) \in Seq(S) /\ E[k + 1] \in S /\ Len(Upto(E, k)) = k
<1>1. k \in 0..Len(E) /\ k + 1 \in 0..Len(E) /\ k + 1 \in 1..Len(E)
  OBVIOUS
<1>2. /\ Upto(E, k) \in Seq(S) /\ Len(Upto(E, k)) = k
      /\ \A i \in 1..k : Upto(E, k)[i] = E[i]
      /\ Upto(E, k + 1) \in Seq(S) /\ Len(Upto(E, k + 1)) = k + 1
      /\ \A i \in 1..(k + 1) : Upto(E, k + 1)[i] = E[i]
  BY <1>1, UptoIs
<1> DEFINE a == Upto(E, k)
           b == Upto(E, k + 1)
<1> HIDE DEF a, b
<1>3. E[k + 1] \in S
  BY <1>1
<1>4. /\ Append(a, E[k + 1]) \in Seq(S) /\ Len(Append(a, E[k + 1])) = k + 1
      /\ \A i \in 1..k : Append(a, E[k + 1])[i] = a[i]
      /\ Append(a, E[k + 1])[k + 1] = E[k + 1]
  BY <1>2, <1>3, AppendProperties DEF a
<1>5. \A i \in 1..(k + 1) : b[i] = Append(a, E[k + 1])[i]
  BY <1>2, <1>4 DEF a, b
<1>6. b = Append(a, E[k + 1])
  <2> DEFINE c == Append(a, E[k + 1])
  <2>1. b \in Seq(S) /\ c \in Seq(S) /\ Len(b) = k + 1 /\ Len(c) = k + 1
        /\ \A i \in 1..(k + 1) : b[i] = c[i]
    BY <1>2, <1>4, <1>5 DEF b
  <2> HIDE DEF c
  <2>2. b = c
    BY <2>1, SeqEqual
  <2>3. QED
    BY <2>2 DEF c
<1>7. QED
  BY <1>2, <1>3, <1>6 DEF a, b

(* Whatever is in an event its key tells it from the others.               *)
Distinct(E) == \A i, j \in DOMAIN E : E[i].key = E[j].key => i = j

Start(known) == [entry |-> known, counts |-> NoCounts]

LEMMA StartTyped ==
  ASSUME NEW K, NEW V, NEW I, NEW known, Kempt(known, K, V, I)
  PROVE  /\ Start(known) \in SeenType(K, V, I) /\ Start(known).entry = known
         /\ Start(known).counts = NoCounts
<1>1. NoCounts \in Counts
  BY DEF NoCounts, Counts
<1>2. known \in EntryType(K, V, I)
  BY DEF Kempt
<1>3. QED
  BY <1>1, <1>2 DEF Start, SeenType

LEMMA SeenUpto ==
  ASSUME NEW S, NEW base, NEW E \in Seq(S), NEW k \in Nat, k < Len(E)
  PROVE  Seen(base, Upto(E, k + 1)) = ObserveOne(Seen(base, Upto(E, k)), E[k + 1])
<1>1. /\ Upto(E, k + 1) = Append(Upto(E, k), E[k + 1])
      /\ Upto(E, k) \in Seq(S) /\ E[k + 1] \in S
  BY UptoMore
<1>2. Seen(base, Append(Upto(E, k), E[k + 1])) = ObserveOne(Seen(base, Upto(E, k)), E[k + 1])
  BY <1>1, SeenAppend
<1>3. QED
  BY <1>1, <1>2

(* Observing keeps what is known of an entry.                              *)
LEMMA SeenTyped ==
  ASSUME NEW K, NEW V, NEW I, NEW known, Kempt(known, K, V, I),
         NEW E \in Seq(Ev(K, V, I)), NEW k \in 0..Len(E)
  PROVE  /\ Seen(Start(known), Upto(E, k)) \in SeenType(K, V, I)
         /\ Kempt(Seen(Start(known), Upto(E, k)).entry, K, V, I)
<1> DEFINE S(n) == Seen(Start(known), Upto(E, n))
           Good(n) == S(n) \in SeenType(K, V, I) /\ Kempt(S(n).entry, K, V, I)
           T == {n \in Nat : n <= Len(E) => Good(n)}
<1>0. Len(E) \in Nat
  OBVIOUS
<1>1. 0 \in T
  <2>1. S(0) = Start(known)
    BY <1>0, UptoIs, SeenEmpty
  <2>2. QED
    BY <2>1, StartTyped
<1>2. ASSUME NEW n \in Nat, n \in T PROVE n + 1 \in T
  <2>1. SUFFICES ASSUME n + 1 <= Len(E) PROVE Good(n + 1)
    OBVIOUS
  <2>2. n < Len(E) /\ n <= Len(E) /\ n + 1 \in 1..Len(E)
    BY <1>0, <2>1
  <2>3. S(n) \in SeenType(K, V, I) /\ Kempt(S(n).entry, K, V, I)
    BY <1>2, <2>2
  <2>4. S(n + 1) = ObserveOne(S(n), E[n + 1])
    BY <2>2, SeenUpto
  <2>5. E[n + 1] \in Ev(K, V, I)
    BY <2>2
  <2> HIDE DEF S
  <2>6. QED
    BY <2>3, <2>4, <2>5, ObserveTyped
<1> HIDE DEF T
<1>3. Nat \subseteq T
  BY <1>1, <1>2, Inductive
<1>4. k \in T /\ k <= Len(E)
  BY <1>0, <1>3
<1>5. Good(k)
  BY <1>4 DEF T
<1>6. QED
  BY <1>5

(* "Replayed request history is ignored by event key" (session.rs).        *)
LEMMA ReplayedUpto ==
  ASSUME NEW S, NEW known, NEW E \in Seq(S), NEW k \in 0..Len(E),
         \A i \in 1..k : E[i].key \in known.keys
  PROVE  Seen(Start(known), Upto(E, k)) = Start(known)
<1> DEFINE base == Start(known)
           T == {n \in Nat : n <= k => Seen(base, Upto(E, n)) = base}
<1>0. Len(E) \in Nat /\ k \in Nat /\ k <= Len(E) /\ base.entry = known
  BY DEF Start
<1>1. 0 \in T
  BY <1>0, UptoIs, SeenEmpty
<1>2. ASSUME NEW n \in Nat, n \in T PROVE n + 1 \in T
  <2>1. SUFFICES ASSUME n + 1 <= k PROVE Seen(base, Upto(E, n + 1)) = base
    OBVIOUS
  <2>2. n < Len(E) /\ n + 1 \in 1..k
    BY <1>0, <2>1
  <2> HIDE DEF base
  <2>3. Seen(base, Upto(E, n + 1)) = ObserveOne(Seen(base, Upto(E, n)), E[n + 1])
    BY <2>2, SeenUpto
  <2>4. Seen(base, Upto(E, n)) = base
    BY <1>0, <1>2, <2>2
  <2>5. E[n + 1].key \in base.entry.keys
    BY <1>0, <2>2
  <2>6. QED
    BY <2>3, <2>4, <2>5, ObserveKnown
<1> HIDE DEF T
<1>3. Nat \subseteq T
  BY <1>1, <1>2, Inductive
<1>4. k \in T
  BY <1>0, <1>3
<1>5. QED
  BY <1>0, <1>4 DEF T

LEMMA ObserveIs ==
  ASSUME NEW S, NEW known, NEW E \in Seq(S)
  PROVE  Observe(known, E) = Seen(Start(known), Upto(E, Len(E)))
<1>1. Upto(E, Len(E)) = E
  BY UptoIs
<1>2. QED
  BY <1>1 DEF Observe, Seen, Start

LEMMA Observed ==
  ASSUME NEW K, NEW V, NEW I, NEW known, Kempt(known, K, V, I), NEW E \in Seq(Ev(K, V, I))
  PROVE  /\ Observe(known, E) \in SeenType(K, V, I)
         /\ Kempt(Observe(known, E).entry, K, V, I)
<1>1. Len(E) \in 0..Len(E)
  OBVIOUS
<1>2. QED
  BY <1>1, SeenTyped, ObserveIs

LEMMA Replayed ==
  ASSUME NEW S, NEW known, NEW E \in Seq(S), NEW M \in Seq(S), IsPrefix(E, M),
         Reflects(known, M)
  PROVE  Observe(known, E) = [entry |-> known, counts |-> NoCounts]
<1>1. /\ Len(E) \in Nat /\ Len(M) \in Nat /\ Len(E) <= Len(M) /\ Len(E) \in 0..Len(E)
      /\ \A i \in 1..Len(E) : E[i] = M[i] /\ i \in DOMAIN M
  <2>1. Len(E) <= Len(M) /\ SubSeq(E, 1, Len(E)) = SubSeq(M, 1, Len(E))
    BY DEF IsPrefix
  <2>2. \A i \in 1..Len(E) : SubSeq(E, 1, Len(E))[i] = E[i] /\ SubSeq(M, 1, Len(E))[i] = M[i]
    BY <2>1
  <2>3. QED
    BY <2>1, <2>2
<1>2. \A i \in 1..Len(E) : E[i].key \in known.keys
  BY <1>1 DEF Reflects
<1>3. QED
  BY <1>1, <1>2, ReplayedUpto, ObserveIs DEF Start

(* The entry goes on from the events it knows.                             *)
LEMMA ContinuedUpto ==
  ASSUME NEW K, NEW V, NEW I, NEW known, Kempt(known, K, V, I),
         NEW E \in Seq(Ev(K, V, I)), Distinct(E), NEW m \in 0..Len(E),
         Reflects(known, Upto(E, m)), NEW k \in m..Len(E)
  PROVE  /\ Reflects(Seen(Start(known), Upto(E, k)).entry, Upto(E, k))
         /\ Plus(Repeats(Upto(E, m)), Seen(Start(known), Upto(E, k)).counts)
              = Repeats(Upto(E, k))
<1> DEFINE S(n) == Seen(Start(known), Upto(E, n))
           Good(n) == /\ Reflects(S(n).entry, Upto(E, n))
                      /\ Plus(Repeats(Upto(E, m)), S(n).counts) = Repeats(Upto(E, n))
           T == {n \in Nat : m + n <= Len(E) => Good(m + n)}
<1>0. Len(E) \in Nat /\ m \in Nat /\ m <= Len(E) /\ k \in Nat /\ m <= k /\ k <= Len(E)
  OBVIOUS
<1>1. \A n \in 0..Len(E) : Repeats(Upto(E, n)) \in Counts
  BY UptoIs, RepeatsTyped
<1>2. 0 \in T
  <2>1. S(m) = Start(known)
    <3>1. \A i \in 1..m : E[i].key \in known.keys
      <4>1. DOMAIN Upto(E, m) = 1..m /\ \A i \in 1..m : Upto(E, m)[i] = E[i]
        BY UptoIs
      <4>2. known.keys = {Upto(E, m)[i].key : i \in DOMAIN Upto(E, m)}
        BY DEF Reflects
      <4>3. QED
        BY <4>1, <4>2
    <3>2. QED
      BY <3>1, ReplayedUpto
  <2>2. S(m).entry = known /\ S(m).counts = NoCounts
    BY <2>1, StartTyped
  <2>3. Plus(Repeats(Upto(E, m)), NoCounts) = Repeats(Upto(E, m))
    BY <1>1, PlusTyped
  <2> HIDE DEF S
  <2>4. Good(m) /\ m + 0 = m
    BY <1>0, <2>2, <2>3
  <2> HIDE DEF Good
  <2>5. QED
    BY <2>4
<1>3. ASSUME NEW n \in Nat, n \in T PROVE n + 1 \in T
  <2> DEFINE j == m + n
  <2>1. SUFFICES ASSUME m + (n + 1) <= Len(E) PROVE Good(m + (n + 1))
    OBVIOUS
  <2>2. j \in Nat /\ j < Len(E) /\ j + 1 \in 1..Len(E) /\ j \in 0..Len(E)
        /\ j + 1 \in 0..Len(E) /\ m + (n + 1) = j + 1
    BY <1>0, <2>1
  <2>3. Good(j)
    BY <1>3, <2>2
  <2> HIDE DEF j
  <2> DEFINE M == Upto(E, j)
             N == Upto(E, j + 1)
             event == E[j + 1]
  <2>4. M \in Seq(Ev(K, V, I)) /\ event \in Ev(K, V, I) /\ Len(M) = j
        /\ N = Append(M, event) /\ DOMAIN M = 1..j /\ \A i \in 1..j : M[i] = E[i]
    BY <2>2, UptoMore, UptoIs
  <2>5. Grown(M, event, N, j + 1)
    <3> HIDE DEF M, N, event
    <3>1. \A a \in Seq(Ev(K, V, I)), e \in Ev(K, V, I) : Grown(a, e, Append(a, e), Len(a) + 1)
      BY OneMore
    <3>2. QED
      BY <2>4, <3>1
  <2>6. S(j) \in SeenType(K, V, I) /\ Kempt(S(j).entry, K, V, I)
    BY <2>2, SeenTyped
  <2>7. S(j + 1) = ObserveOne(S(j), event)
    BY <2>2, SeenUpto
  <2>8. \A i \in DOMAIN M : M[i].key # event.key
    <3>1. \A i \in 1..j : i \in DOMAIN E /\ j + 1 \in DOMAIN E /\ i # j + 1
      BY <2>2
    <3>2. QED
      BY <2>4, <3>1 DEF Distinct
  <2>9. Repeats(N) \in Counts /\ Repeats(Upto(E, m)) \in Counts
    BY <1>1, <2>2
  <2>10. Reflects(S(j).entry, M) /\ Plus(Repeats(Upto(E, m)), S(j).counts) = Repeats(M)
    BY <2>3
  <2> DEFINE seen == S(j)
             base == Repeats(Upto(E, m))
  <2>11. /\ Reflects(ObserveOne(seen, event).entry, N)
         /\ Plus(base, ObserveOne(seen, event).counts) = Repeats(N)
    <3> HIDE DEF M, N, event, seen, base
    <3>1. /\ Repeats(N) \in Counts /\ base \in Counts /\ event \in Ev(K, V, I)
          /\ seen \in SeenType(K, V, I) /\ Kempt(seen.entry, K, V, I)
          /\ Reflects(seen.entry, M) /\ Plus(base, seen.counts) = Repeats(M)
      BY <2>4, <2>6, <2>9, <2>10 DEF seen, base, M
    <3>2. QED
      BY <2>5, <2>8, <3>1, ObserveMore
  <2>12. Good(j + 1)
    BY <2>7, <2>11
  <2> HIDE DEF Good
  <2>13. QED
    BY <2>2, <2>12
<1> HIDE DEF T
<1>4. Nat \subseteq T
  BY <1>2, <1>3, Inductive
<1>5. k - m \in T /\ m + (k - m) = k
  BY <1>0, <1>4
<1>6. Good(k)
  <2> HIDE DEF Good
  <2>1. QED
    BY <1>0, <1>5 DEF T
<1>7. QED
  BY <1>6

LEMMA PrefixUpto ==
  ASSUME NEW S, NEW M \in Seq(S), NEW E \in Seq(S), IsPrefix(M, E)
  PROVE  Len(M) \in 0..Len(E) /\ M = Upto(E, Len(M))
<1>1. Len(M) <= Len(E) /\ SubSeq(M, 1, Len(M)) = SubSeq(E, 1, Len(M))
  BY DEF IsPrefix
<1>2. Len(M) \in Nat /\ Len(E) \in Nat /\ Len(M) \in 0..Len(E)
  BY <1>1
<1>3. \A i \in 1..Len(M) : SubSeq(M, 1, Len(M))[i] = M[i] /\ SubSeq(E, 1, Len(M))[i] = E[i]
  BY <1>1, <1>2
<1>4. \A i \in 1..Len(M) : M[i] = Upto(E, Len(M))[i]
  BY <1>1, <1>2, <1>3, UptoIs
<1>5. Upto(E, Len(M)) \in Seq(S) /\ Len(Upto(E, Len(M))) = Len(M)
  BY <1>2, UptoIs
<1> DEFINE b == Upto(E, Len(M))
<1> HIDE DEF b
<1>6. M = b
  BY <1>4, <1>5, SeqEqual DEF b
<1>7. QED
  BY <1>2, <1>6 DEF b

LEMMA Continued ==
  ASSUME NEW K, NEW V, NEW I, NEW known, Kempt(known, K, V, I),
         NEW M \in Seq(Ev(K, V, I)), NEW E \in Seq(Ev(K, V, I)), Distinct(E),
         IsPrefix(M, E), Reflects(known, M)
  PROVE  /\ Reflects(Observe(known, E).entry, E)
         /\ Plus(Repeats(M), Observe(known, E).counts) = Repeats(E)
<1> DEFINE m == Len(M)
           l == Len(E)
<1>1. m \in 0..l /\ M = Upto(E, m) /\ l \in m..l /\ Upto(E, l) = E
  BY PrefixUpto, UptoIs
<1>2. Observe(known, E) = Seen(Start(known), Upto(E, l))
  BY ObserveIs
<1>3. Reflects(known, Upto(E, m))
  BY <1>1
<1>4. /\ Reflects(Seen(Start(known), Upto(E, l)).entry, Upto(E, l))
      /\ Plus(Repeats(Upto(E, m)), Seen(Start(known), Upto(E, l)).counts)
           = Repeats(Upto(E, l))
  BY <1>1, <1>3, ContinuedUpto
<1>5. QED
  BY <1>1, <1>2, <1>4

----------------------------------------------------------------------------
(* FlattenSeq *)

(* The function in the definition of FlattenSeq                            *)
Flattens(f, seqs) ==
  f = [i \in 1..Len(seqs) |-> IF i = 1 THEN seqs[i] ELSE f[i-1] \o seqs[i]]

LEMMA FlattenIs ==
  ASSUME NEW seqs, Len(seqs) # 0
  PROVE  FlattenSeq(seqs) = (CHOOSE f : Flattens(f, seqs))[Len(seqs)]
BY DEF FlattenSeq, Flattens

Agree(s, t, n) == \A i \in 1..n : s[i] = t[i]

(* It is the same for two sequences as far as they agree.                  *)
LEMMA FlattensSame ==
  ASSUME NEW S, NEW s \in Seq(Seq(S)), NEW t \in Seq(Seq(S)), NEW n \in Nat,
         n <= Len(s), n <= Len(t), Agree(s, t, n)
  PROVE  \A f, g : Flattens(f, s) /\ Flattens(g, t) => Agree(f, g, n)
<1> SUFFICES ASSUME NEW f, NEW g, Flattens(f, s), Flattens(g, t)
             PROVE  \A i \in 1..n : f[i] = g[i]
  BY DEF Agree
<1> DEFINE T == {k \in Nat : k \in 1..n => f[k] = g[k]}
<1>1. 0 \in T
  OBVIOUS
<1>2. ASSUME NEW k \in Nat, k \in T PROVE k + 1 \in T
  <2>1. SUFFICES ASSUME k + 1 \in 1..n PROVE f[k+1] = g[k+1]
    OBVIOUS
  <2>2. /\ f[k+1] = IF k + 1 = 1 THEN s[k+1] ELSE f[(k+1)-1] \o s[k+1]
        /\ g[k+1] = IF k + 1 = 1 THEN t[k+1] ELSE g[(k+1)-1] \o t[k+1]
    <3>1. k + 1 \in 1..Len(s) /\ k + 1 \in 1..Len(t)
      BY <2>1
    <3>2. f[k+1] = [i \in 1..Len(s) |-> IF i = 1 THEN s[i] ELSE f[i-1] \o s[i]][k+1]
      BY Zenon DEF Flattens
    <3>3. g[k+1] = [i \in 1..Len(t) |-> IF i = 1 THEN t[i] ELSE g[i-1] \o t[i]][k+1]
      BY Zenon DEF Flattens
    <3>4. QED
      BY <3>1, <3>2, <3>3
  <2>3. s[k+1] = t[k+1] /\ (k + 1) - 1 = k
    BY <2>1 DEF Agree
  <2>4. k # 0 => f[k] = g[k]
    BY <1>2, <2>1
  <2>5. QED
    BY <2>2, <2>3, <2>4
<1> HIDE DEF T
<1>3. Nat \subseteq T
  BY <1>1, <1>2, Inductive
<1>4. QED
  BY <1>3 DEF T

(* There is one, whose values are sequences over the same set.             *)
LEMMA FlattensExists ==
  ASSUME NEW S
  PROVE  \A seqs \in Seq(Seq(S)) :
           \E f \in [1..Len(seqs) -> Seq(S)] : Flattens(f, seqs)
<1> DEFINE T == {n \in Nat : \A seqs \in Seq(Seq(S)) : Len(seqs) = n =>
                    \E f \in [1..n -> Seq(S)] : Flattens(f, seqs)}
<1>1. 0 \in T
  <2>1. ASSUME NEW seqs \in Seq(Seq(S)), Len(seqs) = 0
        PROVE  \E f \in [1..0 -> Seq(S)] : Flattens(f, seqs)
    <3> DEFINE f == [i \in 1..0 |-> <<>>]
    <3>1. f \in [1..0 -> Seq(S)]
      OBVIOUS
    <3>2. f = [i \in 1..0 |-> IF i = 1 THEN seqs[i] ELSE f[i-1] \o seqs[i]]
      OBVIOUS
    <3>3. QED
      BY <2>1, <3>1, <3>2 DEF Flattens
  <2>2. QED
    BY <2>1
<1>2. ASSUME NEW n \in Nat, n \in T PROVE n + 1 \in T
  <2>1. SUFFICES ASSUME NEW seqs \in Seq(Seq(S)), Len(seqs) = n + 1
                 PROVE  \E g \in [1..(n+1) -> Seq(S)] : Flattens(g, seqs)
    OBVIOUS
  <2> DEFINE front == SubSeq(seqs, 1, n)
  <2>2. front \in Seq(Seq(S)) /\ Len(front) = n /\ \A i \in 1..n : front[i] = seqs[i]
    BY <2>1
  <2> HIDE DEF front
  <2>3. PICK f \in [1..n -> Seq(S)] : Flattens(f, front)
    BY <1>2, <2>2
  <2> DEFINE g == [i \in 1..(n+1) |->
                    IF i = 1 THEN seqs[i]
                    ELSE IF i <= n THEN f[i] ELSE f[n] \o seqs[i]]
  <2>4. \A i \in 1..(n+1) : seqs[i] \in Seq(S)
    BY <2>1
  <2>5. g \in [1..(n+1) -> Seq(S)]
    BY <2>3, <2>4
  <2>11. \A i \in 1..(n+1) :
           g[i] = IF i = 1 THEN seqs[i] ELSE IF i <= n THEN f[i] ELSE f[n] \o seqs[i]
    OBVIOUS
  <2> HIDE DEF g
  <2>6. \A i \in 1..n : f[i] = IF i = 1 THEN seqs[i] ELSE f[i-1] \o seqs[i]
    <3>1. TAKE i \in 1..n
    <3>2. f[i] = [j \in 1..Len(front) |-> IF j = 1 THEN front[j] ELSE f[j-1] \o front[j]][i]
      BY <2>3, Zenon DEF Flattens
    <3>3. f[i] = IF i = 1 THEN front[i] ELSE f[i-1] \o front[i]
      BY <2>2, <3>2
    <3>4. QED
      BY <2>2, <3>3
  <2>12. \A i \in 1..n : g[i] = f[i]
    <3>1. TAKE i \in 1..n
    <3>2. i \in 1..(n+1) /\ i <= n
      OBVIOUS
    <3>3. g[i] = IF i = 1 THEN seqs[i] ELSE f[i]
      BY <2>11, <3>2
    <3>4. i = 1 => f[i] = seqs[i]
      BY <2>6
    <3>5. QED
      BY <3>3, <3>4
  <2>7. \A i \in 1..(n+1) : g[i] = IF i = 1 THEN seqs[i] ELSE g[i-1] \o seqs[i]
    <3>1. TAKE i \in 1..(n+1)
    <3>2. CASE i = 1
      BY <2>11, <3>2
    <3>3. CASE i # 1 /\ i <= n
      <4>0. i \in 1..n /\ i - 1 \in 1..n
        BY <3>3
      <4>1. g[i] = f[i] /\ f[i] = f[i-1] \o seqs[i]
        BY <2>6, <2>12, <3>3, <4>0
      <4>2. g[i-1] = f[i-1]
        BY <2>12, <4>0
      <4>3. QED
        BY <3>3, <4>1, <4>2
    <3>4. CASE i # 1 /\ ~(i <= n)
      <4>1. i = n + 1 /\ i - 1 = n /\ n \in 1..n
        BY <3>4
      <4>2. g[n] = f[n]
        BY <2>12, <4>1
      <4>3. g[i] = f[n] \o seqs[i]
        BY <2>11, <3>4
      <4>4. QED
        BY <3>4, <4>1, <4>2, <4>3
    <3>5. QED
      BY <3>2, <3>3, <3>4
  <2>8. g = [i \in 1..Len(seqs) |-> IF i = 1 THEN seqs[i] ELSE g[i-1] \o seqs[i]]
    <3> DEFINE h == [i \in 1..Len(seqs) |-> IF i = 1 THEN seqs[i] ELSE g[i-1] \o seqs[i]]
    <3>1. DOMAIN g = 1..(n+1) /\ DOMAIN h = 1..(n+1)
      BY <2>1, <2>5
    <3>2. \A i \in 1..(n+1) : h[i] = g[i]
      BY <2>1, <2>7
    <3>3. g \in [1..(n+1) -> Seq(S)]
      BY <2>5
    <3>4. h = [i \in 1..(n+1) |-> g[i]]
      BY <2>1, <2>7
    <3>5. g = [i \in 1..(n+1) |-> g[i]]
      BY <3>3
    <3>6. QED
      BY <3>4, <3>5
  <2>9. QED
    BY <2>5, <2>8 DEF Flattens
<1> HIDE DEF T
<1>3. Nat \subseteq T
  BY <1>1, <1>2, Inductive
<1>4. ASSUME NEW seqs \in Seq(Seq(S))
      PROVE  \E f \in [1..Len(seqs) -> Seq(S)] : Flattens(f, seqs)
  <2>1. Len(seqs) \in Nat
    OBVIOUS
  <2>2. Len(seqs) \in T
    BY <1>3, <2>1
  <2>3. QED
    BY <2>2 DEF T
<1>5. QED
  BY <1>4

LEMMA FlattenEmpty == FlattenSeq(<<>>) = <<>>
BY DEF FlattenSeq

LEMMA FlattenValue ==
  ASSUME NEW S, NEW seqs \in Seq(Seq(S)), seqs # <<>>
  PROVE  \E f \in [1..Len(seqs) -> Seq(S)] :
           Flattens(f, seqs) /\ FlattenSeq(seqs) = f[Len(seqs)]
<1>1. PICK g \in [1..Len(seqs) -> Seq(S)] : Flattens(g, seqs)
  BY FlattensExists
<1> DEFINE f == CHOOSE h : Flattens(h, seqs)
<1>2. Flattens(f, seqs)
  BY <1>1
<1>3. Len(seqs) \in Nat \ {0}
  BY EmptySeq
<1>4. FlattenSeq(seqs) = f[Len(seqs)]
  BY <1>3, FlattenIs
<1> HIDE DEF f
<1>5. \A i \in 1..Len(seqs) : f[i] = g[i]
  <2>1. Agree(seqs, seqs, Len(seqs)) /\ Len(seqs) \in Nat /\ Len(seqs) <= Len(seqs)
    BY DEF Agree
  <2>2. Agree(f, g, Len(seqs))
    BY <1>1, <1>2, <2>1, FlattensSame, Zenon
  <2>3. QED
    BY <2>2 DEF Agree
<1>6. Len(seqs) \in 1..Len(seqs)
  BY <1>3
<1>7. FlattenSeq(seqs) = g[Len(seqs)]
  BY <1>4, <1>5, <1>6
<1>8. QED
  BY <1>1, <1>7

LEMMA FlattenType ==
  ASSUME NEW S, NEW seqs \in Seq(Seq(S))
  PROVE  FlattenSeq(seqs) \in Seq(S)
<1>1. CASE seqs = <<>>
  <2>1. FlattenSeq(seqs) = <<>>
    BY <1>1, FlattenEmpty
  <2>2. QED
    BY <2>1
<1>2. CASE seqs # <<>>
  <2>1. Len(seqs) \in 1..Len(seqs)
    BY <1>2, EmptySeq
  <2>2. PICK f \in [1..Len(seqs) -> Seq(S)] : FlattenSeq(seqs) = f[Len(seqs)]
    BY <1>2, FlattenValue
  <2>3. QED
    BY <2>1, <2>2
<1>3. QED
  BY <1>1, <1>2

(* FlattenSeq takes the elements of a sequence in order.                   *)
LEMMA FlattenAppend ==
  ASSUME NEW S, NEW seqs \in Seq(Seq(S)), NEW s \in Seq(S)
  PROVE  FlattenSeq(Append(seqs, s)) = FlattenSeq(seqs) \o s
<1> DEFINE more == Append(seqs, s)
           n == Len(seqs)
<1>1. /\ more \in Seq(Seq(S)) /\ more # <<>> /\ Len(more) = n + 1
      /\ n \in Nat /\ more[n + 1] = s
      /\ \A i \in 1..n : more[i] = seqs[i]
  BY AppendProperties
<1> HIDE DEF more
<1>2. PICK f : /\ f \in [1..Len(more) -> Seq(S)]
               /\ Flattens(f, more) /\ FlattenSeq(more) = f[Len(more)]
  BY <1>1, FlattenValue
<1>3. f[n + 1] = IF n + 1 = 1 THEN s ELSE f[n] \o s
  <2>1. f[n + 1] =
          [j \in 1..Len(more) |-> IF j = 1 THEN more[j] ELSE f[j-1] \o more[j]][n + 1]
    BY <1>2, Zenon DEF Flattens
  <2>2. (n + 1) - 1 = n /\ n + 1 \in 1..Len(more)
    BY <1>1
  <2>3. QED
    BY <1>1, <2>1, <2>2
<1>4. CASE seqs = <<>>
  <2>1. n = 0
    BY <1>4
  <2>2. <<>> \o s = s
    BY ConcatEmptySeq
  <2>3. QED
    BY <1>1, <1>2, <1>3, <1>4, <2>1, <2>2, FlattenEmpty DEF more
<1>5. CASE seqs # <<>>
  <2>1. n # 0
    BY <1>5, EmptySeq
  <2>2. PICK g : Flattens(g, seqs) /\ FlattenSeq(seqs) = g[n]
    BY <1>5, FlattenValue
  <2>3. f[n] = g[n]
    <3>1. n <= Len(more) /\ n <= Len(seqs) /\ n \in 1..n /\ Len(more) \in Nat
      BY <1>1, <2>1
    <3>2. Agree(more, seqs, n) /\ more \in Seq(Seq(S)) /\ n <= Len(more) /\ n <= Len(seqs)
      BY <1>1 DEF Agree
    <3> HIDE DEF n
    <3>3. Agree(f, g, n)
      BY <1>1, <1>2, <2>2, <3>2, FlattensSame
    <3>4. QED
      BY <3>1, <3>3 DEF Agree
  <2>4. QED
    BY <1>1, <1>2, <1>3, <2>1, <2>2, <2>3 DEF more
<1>6. QED
  BY <1>4, <1>5

(* What FlattenSeq makes of a sequence is from one of its elements.        *)
From(E, seqs, n) ==
  \A i \in DOMAIN E : \E j \in 1..n : \E x \in DOMAIN seqs[j] : E[i] = seqs[j][x]

(* No two elements have an event with the same key.                        *)
Apart(seqs) ==
  \A i, j \in DOMAIN seqs : i < j =>
    \A x \in DOMAIN seqs[i], y \in DOMAIN seqs[j] : seqs[i][x].key # seqs[j][y].key

LEMMA FlattenDistinct ==
  ASSUME NEW S, NEW seqs \in Seq(Seq(S))
  PROVE  /\ From(FlattenSeq(seqs), seqs, Len(seqs))
         /\ (\A i \in DOMAIN seqs : Distinct(seqs[i])) /\ Apart(seqs) =>
              Distinct(FlattenSeq(seqs))
<1> DEFINE F(n) == FlattenSeq(Upto(seqs, n))
           Fine == (\A i \in DOMAIN seqs : Distinct(seqs[i])) /\ Apart(seqs)
           Good(n) == F(n) \in Seq(S) /\ From(F(n), seqs, n) /\ (Fine => Distinct(F(n)))
           T == {n \in Nat : n <= Len(seqs) => Good(n)}
<1>0. Len(seqs) \in Nat /\ DOMAIN seqs = 1..Len(seqs)
  OBVIOUS
<1>1. 0 \in T
  <2>1. F(0) = <<>>
    BY <1>0, UptoIs, FlattenEmpty
  <2>2. <<>> \in Seq(S) /\ DOMAIN <<>> = {}
    OBVIOUS
  <2> HIDE DEF F, Fine
  <2>3. Good(0)
    BY <2>1, <2>2 DEF From, Distinct
  <2>4. QED
    BY <2>3
<1>2. ASSUME NEW n \in Nat, n \in T PROVE n + 1 \in T
  <2>1. SUFFICES ASSUME n + 1 <= Len(seqs) PROVE Good(n + 1)
    OBVIOUS
  <2>2. n < Len(seqs) /\ n + 1 \in 1..Len(seqs) /\ n <= Len(seqs)
    BY <1>0, <2>1
  <2>3. Good(n)
    BY <1>2, <2>2
  <2>4. /\ Upto(seqs, n + 1) = Append(Upto(seqs, n), seqs[n + 1])
        /\ Upto(seqs, n) \in Seq(Seq(S)) /\ seqs[n + 1] \in Seq(S)
    BY <2>2, UptoMore
  <2> DEFINE a == F(n)
             b == seqs[n + 1]
  <2>5. F(n + 1) = a \o b
    BY <2>4, FlattenAppend
  <2>6. a \in Seq(S) /\ From(a, seqs, n) /\ (Fine => Distinct(a)) /\ b \in Seq(S)
    BY <2>3, <2>4
  <2>7. /\ Fine => Distinct(b)
        /\ Fine => \A j \in 1..n : \A x \in DOMAIN seqs[j], y \in DOMAIN b :
                     seqs[j][x].key # b[y].key
    <3>1. \A j \in 1..n : j \in DOMAIN seqs /\ n + 1 \in DOMAIN seqs /\ j < n + 1
      BY <1>0, <2>2
    <3>2. QED
      BY <1>0, <2>2, <3>1 DEF Apart
  <2> HIDE DEF F, Fine, a, b
  <2>8. /\ a \o b \in Seq(S)
        /\ \A i \in DOMAIN (a \o b) :
             \/ i \in DOMAIN a /\ (a \o b)[i] = a[i]
             \/ i - Len(a) \in DOMAIN b /\ (a \o b)[i] = b[i - Len(a)] /\ i \notin DOMAIN a
                /\ i \in Nat
        /\ Len(a) \in Nat
    BY <2>6
  <2>9. From(a \o b, seqs, n + 1)
    <3>1. SUFFICES ASSUME NEW i \in DOMAIN (a \o b)
                   PROVE  \E j \in 1..(n + 1) : \E x \in DOMAIN seqs[j] :
                            (a \o b)[i] = seqs[j][x]
      BY DEF From
    <3>2. CASE i \in DOMAIN a /\ (a \o b)[i] = a[i]
      <4>1. PICK j \in 1..n : \E x \in DOMAIN seqs[j] : a[i] = seqs[j][x]
        BY <2>6, <3>2 DEF From
      <4>2. j \in 1..(n + 1)
        OBVIOUS
      <4>3. QED
        BY <3>2, <4>1, <4>2
    <3>3. CASE i - Len(a) \in DOMAIN b /\ (a \o b)[i] = b[i - Len(a)]
      <4>1. n + 1 \in 1..(n + 1)
        OBVIOUS
      <4>2. QED
        BY <3>3, <4>1 DEF b
    <3>4. QED
      BY <2>8, <3>2, <3>3
  <2>10. ASSUME Fine PROVE Distinct(a \o b)
    <3>1. \A x \in DOMAIN a, y \in DOMAIN b : a[x].key # b[y].key
      BY <2>6, <2>7, <2>10 DEF From
    <3>2. Distinct(a) /\ Distinct(b)
      BY <2>6, <2>7, <2>10
    <3>3. SUFFICES ASSUME NEW i \in DOMAIN (a \o b), NEW j \in DOMAIN (a \o b),
                          (a \o b)[i].key = (a \o b)[j].key
                   PROVE  i = j
      BY DEF Distinct
    <3>4. CASE i \in DOMAIN a /\ (a \o b)[i] = a[i]
      BY <2>8, <3>1, <3>2, <3>3, <3>4 DEF Distinct
    <3>5. CASE i - Len(a) \in DOMAIN b /\ (a \o b)[i] = b[i - Len(a)] /\ i \in Nat
      <4>1. j - Len(a) \in DOMAIN b /\ (a \o b)[j] = b[j - Len(a)] /\ j \in Nat
        BY <2>8, <3>1, <3>3, <3>5
      <4>2. i - Len(a) = j - Len(a)
        BY <3>2, <3>3, <3>5, <4>1 DEF Distinct
      <4>3. QED
        BY <2>8, <3>5, <4>1, <4>2
    <3>6. QED
      BY <2>8, <3>4, <3>5
  <2>11. Good(n + 1)
    BY <2>5, <2>8, <2>9, <2>10
  <2> HIDE DEF Good
  <2>12. QED
    BY <2>11
<1> HIDE DEF T
<1>3. Nat \subseteq T
  BY <1>1, <1>2, Inductive
<1>4. Len(seqs) \in T
  BY <1>0, <1>3
<1>5. Good(Len(seqs))
  <2> HIDE DEF Good
  <2>1. QED
    BY <1>0, <1>4 DEF T
<1>6. Upto(seqs, Len(seqs)) = seqs
  <2>1. Len(seqs) \in 0..Len(seqs)
    BY <1>0
  <2>2. QED
    BY <2>1, UptoIs
<1>7. QED
  BY <1>5, <1>6

----------------------------------------------------------------------------
(* The events of a history *)

EventKey == ({"call", "result"} \X Nat \X Nat) \union ({"result"} \X Nat)

Event == Ev(EventKey, Value, Requests \X Nat)

(* A message of a tool is a result.                                        *)
Tooled(message) ==
  message.role = "tool" => message.blocks # <<>> /\ message.blocks[1].type = "result"

LEMMA BlockParts ==
  ASSUME NEW block \in Block
  PROVE  /\ block.type \in {"text", "call", "result"} /\ block.value \in Value
         /\ block.id \in Requests \X Nat /\ block.failed \in BOOLEAN
BY DEF Block

LEMMA CallTyped ==
  ASSUME NEW block \in Block, NEW m \in Nat, NEW b \in Nat
  PROVE  /\ Call(<<"call", m, b>>, block) \in Event
         /\ Call(<<"call", m, b>>, block).key = <<"call", m, b>>
<1>1. <<"call", m, b>> \in EventKey
  BY DEF EventKey
<1>2. /\ block.value \in Value /\ block.id \in Requests \X Nat /\ FALSE \in BOOLEAN
  BY BlockParts
<1> DEFINE k == <<"call", m, b>>
<1> HIDE DEF k
<1>3. Call(k, block) \in Event
  BY <1>1, <1>2 DEF Call, Event, Ev, k
<1>4. Call(k, block).key = k
  BY DEF Call
<1>5. QED
  BY <1>3, <1>4 DEF k

LEMMA ResultTyped ==
  ASSUME NEW block \in Block, NEW key \in EventKey
  PROVE  Result(key, block) \in Event /\ Result(key, block).key = key
<1>2. /\ block.value \in Value /\ block.id \in Requests \X Nat /\ block.failed \in BOOLEAN
  BY BlockParts
<1>3. Result(key, block) \in Event
  BY <1>2 DEF Result, Event, Ev
<1>4. QED
  BY <1>3 DEF Result

(* One block has one event at most.                                        *)
Few(events) == events = <<>> \/ \E e \in Event : events = <<e>>

LEMMA FewIs ==
  ASSUME NEW events, Few(events)
  PROVE  /\ events \in Seq(Event) /\ Distinct(events)
         /\ \A x \in DOMAIN events : x = 1
<1>1. CASE events = <<>>
  <2>1. DOMAIN <<>> = {} /\ <<>> \in Seq(Event)
    OBVIOUS
  <2>2. QED
    BY <1>1, <2>1 DEF Distinct
<1>2. ASSUME NEW e \in Event, events = <<e>>
      PROVE  /\ events \in Seq(Event) /\ Distinct(events)
             /\ \A x \in DOMAIN events : x = 1
  <2>1. DOMAIN <<e>> = 1..1 /\ <<e>> \in Seq(Event)
    OBVIOUS
  <2>2. \A x \in 1..1 : x = 1
    OBVIOUS
  <2>3. QED
    BY <1>2, <2>1, <2>2 DEF Distinct
<1>3. QED
  BY <1>1, <1>2 DEF Few

CallOf(blocks, b, m) ==
  IF blocks[b].type = "call"
  THEN <<Call(<<"call", m, CallNumber(blocks, b)>>, blocks[b])>>
  ELSE <<>>

CallsOf(blocks, m) == [b \in 1..Len(blocks) |-> CallOf(blocks, b, m)]

LEMMA CallNumberMore ==
  ASSUME NEW blocks, NEW a \in Nat, NEW b \in Nat
  PROVE  /\ CallNumber(blocks, b) \in Nat
         /\ a < b /\ blocks[b].type = "call" => CallNumber(blocks, a) < CallNumber(blocks, b)
<1> DEFINE P(n) == {k \in 1..n : blocks[k].type = "call"}
<1>1. /\ IsFiniteSet(1..a) /\ IsFiniteSet(1..b)
      /\ P(a) \subseteq 1..a /\ P(b) \subseteq 1..b
  BY FS_Interval
<1>2. IsFiniteSet(P(a)) /\ IsFiniteSet(P(b))
  <2>1. IsFiniteSet(P(a))
    BY <1>1, FS_Subset
  <2>2. IsFiniteSet(P(b))
    BY <1>1, FS_Subset
  <2>3. QED
    BY <2>1, <2>2
<1>3. Cardinality(P(a)) \in Nat /\ Cardinality(P(b)) \in Nat
  BY <1>2, FS_CardinalityType
<1>4. ASSUME a < b, blocks[b].type = "call" PROVE Cardinality(P(a)) < Cardinality(P(b))
  <2>1. P(a) \union {b} \subseteq P(b) /\ b \notin P(a)
    BY <1>4
  <2> HIDE DEF P
  <2>2. Cardinality(P(a) \union {b}) = Cardinality(P(a)) + 1
    BY <1>2, <2>1, FS_AddElement
  <2>3. Cardinality(P(a) \union {b}) <= Cardinality(P(b))
    BY <1>2, <2>1, FS_Subset
  <2>4. QED
    BY <1>3, <2>2, <2>3
<1>5. QED
  BY <1>3, <1>4 DEF CallNumber

(* The events of a message have keys of their own.                         *)
Own(events, m) ==
  /\ events \in Seq(Event) /\ Distinct(events)
  /\ \A x \in DOMAIN events : events[x].key[2] = m

LEMMA CallsOfOwn ==
  ASSUME NEW blocks \in Seq(Block), NEW m \in Nat
  PROVE  Own(FlattenSeq(CallsOf(blocks, m)), m)
<1> DEFINE seqs == CallsOf(blocks, m)
           n == Len(blocks)
           c(k) == CallNumber(blocks, k)
<1>1. /\ n \in Nat /\ DOMAIN seqs = 1..n /\ Len(seqs) = n /\ DOMAIN blocks = 1..n
      /\ \A b \in 1..n : blocks[b] \in Block /\ b \in Nat
      /\ \A b \in 1..n : seqs[b] = CallOf(blocks, b, m)
  BY DEF CallsOf
<1>2. ASSUME NEW b \in 1..n
      PROVE  /\ Few(seqs[b])
             /\ \A x \in DOMAIN seqs[b] : seqs[b][x].key = <<"call", m, c(b)>>
                                          /\ blocks[b].type = "call"
  <2> DEFINE e == Call(<<"call", m, c(b)>>, blocks[b])
  <2>1. c(b) \in Nat
    BY <1>1, CallNumberMore
  <2>2. e \in Event /\ e.key = <<"call", m, c(b)>>
    BY <1>1, <2>1, CallTyped
  <2>3. seqs[b] = IF blocks[b].type = "call" THEN <<e>> ELSE <<>>
    BY <1>1 DEF CallOf
  <2> HIDE DEF e, seqs, c
  <2>4. Few(seqs[b])
    BY <2>2, <2>3 DEF Few
  <2>5. \A x \in DOMAIN seqs[b] : x = 1
    BY <2>4, FewIs
  <2>6. blocks[b].type # "call" => DOMAIN seqs[b] = {}
    BY <2>3
  <2>7. blocks[b].type = "call" => seqs[b][1] = e
    BY <2>3
  <2>8. QED
    BY <2>2, <2>4, <2>5, <2>6, <2>7
<1>3. \A b \in 1..n : seqs[b] \in Seq(Event) /\ Distinct(seqs[b])
  BY <1>2, FewIs
<1>4. seqs \in Seq(Seq(Event))
  <2>1. seqs = [b \in 1..n |-> seqs[b]]
    BY DEF CallsOf
  <2> HIDE DEF seqs
  <2>2. QED
    BY <1>1, <1>3, <2>1
<1>5. Apart(seqs)
  <2>1. SUFFICES ASSUME NEW a \in 1..n, NEW b \in 1..n, a < b,
                        NEW x \in DOMAIN seqs[a], NEW y \in DOMAIN seqs[b],
                        seqs[a][x].key = seqs[b][y].key
                 PROVE  FALSE
    BY <1>1 DEF Apart
  <2>2. /\ seqs[a][x].key = <<"call", m, c(a)>> /\ seqs[b][y].key = <<"call", m, c(b)>>
        /\ blocks[b].type = "call"
    BY <1>2
  <2>3. c(a) < c(b) /\ c(a) \in Nat /\ c(b) \in Nat
    BY <1>1, <2>1, <2>2, CallNumberMore
  <2> HIDE DEF c, seqs
  <2>4. c(a) = c(b)
    <3>1. <<"call", m, c(a)>> = <<"call", m, c(b)>>
      BY <2>1, <2>2, Zenon
    <3>2. \A u, v : <<"call", m, u>> = <<"call", m, v>> => u = v
      OBVIOUS
    <3>3. QED
      BY <3>1, <3>2, Zenon
  <2>5. QED
    BY <2>3, <2>4
<1> HIDE DEF seqs, c
<1>6. /\ FlattenSeq(seqs) \in Seq(Event) /\ From(FlattenSeq(seqs), seqs, n)
      /\ Distinct(FlattenSeq(seqs))
  <2>1. \A b \in DOMAIN seqs : Distinct(seqs[b])
    BY <1>1, <1>3
  <2>2. QED
    BY <1>1, <1>4, <1>5, <2>1, FlattenType, FlattenDistinct
<1>7. ASSUME NEW i \in DOMAIN FlattenSeq(seqs) PROVE FlattenSeq(seqs)[i].key[2] = m
  <2>1. PICK j \in 1..n : \E x \in DOMAIN seqs[j] : FlattenSeq(seqs)[i] = seqs[j][x]
    BY <1>6 DEF From
  <2>2. PICK x \in DOMAIN seqs[j] : FlattenSeq(seqs)[i] = seqs[j][x]
    BY <2>1
  <2>3. FlattenSeq(seqs)[i].key = <<"call", m, c(j)>>
    BY <1>2, <2>2
  <2>4. QED
    BY <2>3
<1>8. Own(FlattenSeq(seqs), m)
  BY <1>6, <1>7 DEF Own
<1>9. QED
  BY <1>8 DEF seqs

LEMMA OneOwn ==
  ASSUME NEW e \in Event, NEW m, e.key[2] = m
  PROVE  Own(<<e>>, m)
<1>1. Few(<<e>>)
  BY DEF Few
<1>2. <<e>> \in Seq(Event) /\ Distinct(<<e>>) /\ \A x \in DOMAIN <<e>> : x = 1
  BY <1>1, FewIs
<1>3. <<e>>[1] = e
  OBVIOUS
<1>4. QED
  BY <1>2, <1>3 DEF Own

LEMMA NoneOwn == \A m : Own(<<>>, m)
<1>1. Few(<<>>)
  BY DEF Few
<1>2. <<>> \in Seq(Event) /\ Distinct(<<>>) /\ DOMAIN <<>> = {}
  BY <1>1, FewIs
<1>3. QED
  BY <1>2 DEF Own

LEMMA OpenaiOwn ==
  ASSUME NEW message \in Message, Tooled(message), NEW m \in Nat
  PROVE  Own(OpenaiMessage(message, m), m)
<1>1. message.role \in {"user", "assistant", "tool"} /\ message.blocks \in Seq(Block)
  BY DEF Message
<1>2. CASE message.role = "assistant"
  <2>1. OpenaiMessage(message, m) = FlattenSeq(CallsOf(message.blocks, m))
    BY <1>2 DEF OpenaiMessage, CallsOf, CallOf
  <2>2. QED
    BY <1>1, <2>1, CallsOfOwn
<1>3. CASE message.role = "tool"
  <2> DEFINE e == Result(<<"result", m>>, message.blocks[1])
  <2>1. OpenaiMessage(message, m) = <<e>>
    BY <1>3 DEF OpenaiMessage
  <2>2. message.blocks[1] \in Block
    BY <1>1, <1>3 DEF Tooled
  <2>3. <<"result", m>> \in EventKey
    BY DEF EventKey
  <2>4. e \in Event /\ e.key = <<"result", m>>
    BY <2>2, <2>3, ResultTyped
  <2> HIDE DEF e
  <2>5. e.key[2] = m
    BY <2>4
  <2>6. QED
    BY <2>1, <2>4, <2>5, OneOwn
<1>4. CASE message.role = "user"
  <2>1. OpenaiMessage(message, m) = <<>>
    BY <1>4 DEF OpenaiMessage
  <2>2. QED
    BY <2>1, NoneOwn
<1>5. QED
  BY <1>1, <1>2, <1>3, <1>4

BlockOf(blocks, b, m) ==
  CASE blocks[b].type = "call" -> <<Call(<<"call", m, b>>, blocks[b])>>
    [] blocks[b].type = "result" -> <<Result(<<"result", m, b>>, blocks[b])>>
    [] OTHER -> <<>>

BlocksOf(blocks, m) == [b \in 1..Len(blocks) |-> BlockOf(blocks, b, m)]

LEMMA BlockOfIs ==
  ASSUME NEW blocks, NEW b \in Nat, NEW m \in Nat, blocks[b] \in Block
  PROVE  /\ Few(BlockOf(blocks, b, m))
         /\ \A x \in DOMAIN BlockOf(blocks, b, m) :
              BlockOf(blocks, b, m)[x].key \in {<<"call", m, b>>, <<"result", m, b>>}
<1> DEFINE e == Call(<<"call", m, b>>, blocks[b])
           f == Result(<<"result", m, b>>, blocks[b])
           events == BlockOf(blocks, b, m)
<1>1. e \in Event /\ e.key = <<"call", m, b>>
  BY CallTyped
<1>2. f \in Event /\ f.key = <<"result", m, b>>
  <2>1. <<"result", m, b>> \in EventKey
    BY DEF EventKey
  <2>2. QED
    BY <2>1, ResultTyped
<1>3. events = <<e>> \/ events = <<f>> \/ events = <<>>
  BY DEF BlockOf
<1> HIDE DEF e, f, events
<1>4. Few(events)
  BY <1>1, <1>2, <1>3 DEF Few
<1>5. \A x \in DOMAIN events : x = 1
  BY <1>4, FewIs
<1>6. \A x \in DOMAIN events : events[x] = e \/ events[x] = f
  <2>1. DOMAIN <<>> = {} /\ <<e>>[1] = e /\ <<f>>[1] = f
    OBVIOUS
  <2>2. QED
    BY <1>3, <1>5, <2>1
<1>7. \A x \in DOMAIN events : events[x].key \in {<<"call", m, b>>, <<"result", m, b>>}
  BY <1>1, <1>2, <1>6
<1>8. QED
  BY <1>4, <1>7 DEF events

(* The events of one list are not those of another.                        *)
LEMMA KeysApart ==
  ASSUME NEW m, NEW a, NEW b, a # b
  PROVE  \A k \in {<<"call", m, a>>, <<"result", m, a>>} :
           k \notin {<<"call", m, b>>, <<"result", m, b>>} /\ k[2] = m
<1>1. \A k \in {<<"call", m, a>>, <<"result", m, a>>} : k[3] = a /\ k[2] = m
  OBVIOUS
<1>2. \A k \in {<<"call", m, b>>, <<"result", m, b>>} : k[3] = b
  OBVIOUS
<1>3. QED
  BY <1>1, <1>2

LEMMA AnthropicOwn ==
  ASSUME NEW message \in Message, NEW m \in Nat
  PROVE  Own(AnthropicMessage(message, m), m)
<1> DEFINE blocks == message.blocks
           seqs == BlocksOf(blocks, m)
           n == Len(blocks)
           Keys(b) == {<<"call", m, b>>, <<"result", m, b>>}
<1>1. /\ n \in Nat /\ DOMAIN seqs = 1..n /\ Len(seqs) = n
      /\ \A b \in 1..n : blocks[b] \in Block /\ b \in Nat
      /\ \A b \in 1..n : seqs[b] = BlockOf(blocks, b, m)
  <2>1. blocks \in Seq(Block)
    BY DEF Message
  <2> HIDE DEF blocks
  <2>2. QED
    BY <2>1 DEF BlocksOf
<1>2. ASSUME NEW b \in 1..n
      PROVE  Few(seqs[b]) /\ \A x \in DOMAIN seqs[b] : seqs[b][x].key \in Keys(b)
  <2>1. blocks[b] \in Block /\ b \in Nat /\ seqs[b] = BlockOf(blocks, b, m)
    BY <1>1
  <2> HIDE DEF seqs, blocks
  <2>2. QED
    BY <2>1, BlockOfIs
<1>3. \A b \in 1..n : seqs[b] \in Seq(Event) /\ Distinct(seqs[b])
  BY <1>2, FewIs
<1>4. seqs \in Seq(Seq(Event))
  <2>1. seqs = [b \in 1..n |-> seqs[b]]
    BY DEF BlocksOf
  <2> HIDE DEF seqs, blocks, n
  <2>2. QED
    BY <1>1, <1>3, <2>1
<1>5. Apart(seqs)
  <2>1. SUFFICES ASSUME NEW a \in 1..n, NEW b \in 1..n, a < b,
                        NEW x \in DOMAIN seqs[a], NEW y \in DOMAIN seqs[b],
                        seqs[a][x].key = seqs[b][y].key
                 PROVE  FALSE
    BY <1>1 DEF Apart
  <2>2. seqs[a][x].key \in Keys(a) /\ seqs[b][y].key \in Keys(b)
    BY <1>2
  <2>3. a # b
    BY <1>1, <2>1
  <2>4. \A k \in Keys(a) : k \notin Keys(b)
    BY <2>3, KeysApart
  <2> HIDE DEF seqs, Keys
  <2>5. QED
    BY <2>1, <2>2, <2>4
<1>10. AnthropicMessage(message, m) = FlattenSeq(seqs)
  BY DEF AnthropicMessage, BlocksOf, BlockOf
<1> HIDE DEF seqs, blocks, n
<1>6. /\ FlattenSeq(seqs) \in Seq(Event) /\ From(FlattenSeq(seqs), seqs, n)
      /\ Distinct(FlattenSeq(seqs))
  <2>1. \A b \in DOMAIN seqs : Distinct(seqs[b])
    BY <1>1, <1>3
  <2>2. QED
    BY <1>1, <1>4, <1>5, <2>1, FlattenType, FlattenDistinct
<1>7. ASSUME NEW i \in DOMAIN FlattenSeq(seqs) PROVE FlattenSeq(seqs)[i].key[2] = m
  <2>1. PICK j \in 1..n : \E x \in DOMAIN seqs[j] : FlattenSeq(seqs)[i] = seqs[j][x]
    BY <1>6 DEF From
  <2>2. PICK x \in DOMAIN seqs[j] : FlattenSeq(seqs)[i] = seqs[j][x]
    BY <2>1
  <2>3. FlattenSeq(seqs)[i].key \in Keys(j)
    BY <1>2, <2>2
  <2>4. \A k \in Keys(j) : k[2] = m
    OBVIOUS
  <2>5. QED
    BY <2>3, <2>4
<1>8. Own(FlattenSeq(seqs), m)
  BY <1>6, <1>7 DEF Own
<1>9. QED
  BY <1>8, <1>10

(* Those of the messages of a history have keys of their own together.     *)
LEMMA AllOwn ==
  ASSUME NEW seqs, NEW n \in Nat, seqs = [m \in 1..n |-> seqs[m]],
         \A m \in 1..n : Own(seqs[m], m)
  PROVE  FlattenSeq(seqs) \in Seq(Event) /\ Distinct(FlattenSeq(seqs))
<1>1. \A m \in 1..n : seqs[m] \in Seq(Event) /\ Distinct(seqs[m])
  BY DEF Own
<1>2. seqs \in Seq(Seq(Event)) /\ DOMAIN seqs = 1..n
  BY <1>1
<1>3. Apart(seqs)
  <2>1. SUFFICES ASSUME NEW a \in 1..n, NEW b \in 1..n, a < b,
                        NEW x \in DOMAIN seqs[a], NEW y \in DOMAIN seqs[b],
                        seqs[a][x].key = seqs[b][y].key
                 PROVE  FALSE
    BY <1>2 DEF Apart
  <2>2. seqs[a][x].key[2] = a /\ seqs[b][y].key[2] = b
    BY DEF Own
  <2>3. QED
    BY <2>1, <2>2
<1>4. QED
  BY <1>1, <1>2, <1>3, FlattenType, FlattenDistinct

(* What EventsOf needs of a history: what a tool says is a result.         *)
Tools(messages) == \A m \in DOMAIN messages : Tooled(messages[m])

EventsOf(api, messages) ==
  IF api = "openai" THEN OpenaiEvents(messages) ELSE AnthropicEvents(messages)

LEMMA EventsTyped ==
  ASSUME NEW api, NEW messages \in Seq(Message), Tools(messages)
  PROVE  EventsOf(api, messages) \in Seq(Event) /\ Distinct(EventsOf(api, messages))
<1> DEFINE n == Len(messages)
<1>1. n \in Nat /\ \A m \in 1..n : m \in Nat /\ messages[m] \in Message /\ Tooled(messages[m])
  BY DEF Tools
<1>2. OpenaiEvents(messages) \in Seq(Event) /\ Distinct(OpenaiEvents(messages))
  <2> DEFINE seqs == [m \in 1..n |-> OpenaiMessage(messages[m], m)]
  <2>1. \A m \in 1..n : Own(seqs[m], m)
    BY <1>1, OpenaiOwn
  <2>2. seqs = [m \in 1..n |-> seqs[m]]
    OBVIOUS
  <2>4. OpenaiEvents(messages) = FlattenSeq(seqs)
    BY DEF OpenaiEvents
  <2> HIDE DEF seqs, n
  <2>3. FlattenSeq(seqs) \in Seq(Event) /\ Distinct(FlattenSeq(seqs))
    BY <1>1, <2>1, <2>2, AllOwn
  <2>5. QED
    BY <2>3, <2>4
<1>3. AnthropicEvents(messages) \in Seq(Event) /\ Distinct(AnthropicEvents(messages))
  <2> DEFINE seqs == [m \in 1..n |-> AnthropicMessage(messages[m], m)]
  <2>1. \A m \in 1..n : Own(seqs[m], m)
    BY <1>1, AnthropicOwn
  <2>2. seqs = [m \in 1..n |-> seqs[m]]
    OBVIOUS
  <2>4. AnthropicEvents(messages) = FlattenSeq(seqs)
    BY DEF AnthropicEvents
  <2> HIDE DEF seqs, n
  <2>3. FlattenSeq(seqs) \in Seq(Event) /\ Distinct(FlattenSeq(seqs))
    BY <1>1, <2>1, <2>2, AllOwn
  <2>5. QED
    BY <2>3, <2>4
<1>4. QED
  BY <1>2, <1>3 DEF EventsOf

(* Two histories that differ in their texts only have the same events.     *)
SameBut(a, b) ==
  /\ a.role = b.role /\ DOMAIN a.blocks = DOMAIN b.blocks
  /\ \A k \in DOMAIN a.blocks :
       /\ a.blocks[k].type = b.blocks[k].type
       /\ a.blocks[k].type # "text" => a.blocks[k] = b.blocks[k]

Paired(a, b) == DOMAIN a = DOMAIN b /\ \A m \in DOMAIN a : SameBut(a[m], b[m])

LEMMA SameMessage ==
  ASSUME NEW a \in Message, NEW b \in Message, SameBut(a, b), Tooled(a), NEW m
  PROVE  /\ OpenaiMessage(a, m) = OpenaiMessage(b, m)
         /\ AnthropicMessage(a, m) = AnthropicMessage(b, m)
<1> DEFINE s == a.blocks
           t == b.blocks
           n == Len(s)
<1>1. s \in Seq(Block) /\ t \in Seq(Block) /\ Len(t) = n /\ n \in Nat /\ DOMAIN s = 1..n
      /\ a.role = b.role
  <2>1. s \in Seq(Block) /\ t \in Seq(Block) /\ DOMAIN s = DOMAIN t
    BY DEF SameBut, Message
  <2> HIDE DEF s, t
  <2>2. QED
    BY <2>1 DEF SameBut
<1>2. \A k \in 1..n : s[k].type = t[k].type /\ (s[k].type # "text" => s[k] = t[k])
  BY <1>1 DEF SameBut
<1>3. \A k \in 1..n : CallNumber(s, k) = CallNumber(t, k)
  <2>1. TAKE k \in 1..n
  <2> HIDE DEF s, t, n
  <2>2. \A j \in 1..k : j \in 1..n
    BY <1>1
  <2>3. {j \in 1..k : s[j].type = "call"} = {j \in 1..k : t[j].type = "call"}
    BY <1>2, <2>2
  <2>4. QED
    BY <2>3 DEF CallNumber
<1>8. a.role = "tool" => s[1] = t[1]
  <2>1. a.role = "tool" => s # <<>> /\ s[1].type = "result"
    BY DEF Tooled
  <2> HIDE DEF s, t
  <2>2. s # <<>> => 1 \in 1..n
    BY <1>1
  <2>3. QED
    BY <1>2, <2>1, <2>2
<1>4. CallsOf(s, m) = CallsOf(t, m)
  <2> HIDE DEF s, t, n
  <2>1. \A k \in 1..n : CallOf(s, k, m) = CallOf(t, k, m)
    BY <1>2, <1>3 DEF CallOf
  <2>2. QED
    BY <1>1, <2>1 DEF CallsOf, n
<1>5. BlocksOf(s, m) = BlocksOf(t, m)
  <2> HIDE DEF s, t, n
  <2>1. \A k \in 1..n : BlockOf(s, k, m) = BlockOf(t, k, m)
    BY <1>2 DEF BlockOf
  <2>2. QED
    BY <1>1, <2>1 DEF BlocksOf, n
<1>6. AnthropicMessage(a, m) = AnthropicMessage(b, m)
  <2>1. /\ AnthropicMessage(a, m) = FlattenSeq(BlocksOf(s, m))
        /\ AnthropicMessage(b, m) = FlattenSeq(BlocksOf(t, m))
    BY DEF AnthropicMessage, BlocksOf, BlockOf
  <2>2. QED
    BY <1>5, <2>1
<1>7. OpenaiMessage(a, m) = OpenaiMessage(b, m)
  <2>1. a.role \in {"user", "assistant", "tool"}
    BY DEF Message
  <2>2. CASE a.role = "assistant"
    <3>1. /\ OpenaiMessage(a, m) = FlattenSeq(CallsOf(s, m))
          /\ OpenaiMessage(b, m) = FlattenSeq(CallsOf(t, m))
      BY <1>1, <2>2 DEF OpenaiMessage, CallsOf, CallOf
    <3>2. QED
      BY <1>4, <3>1
  <2>3. CASE a.role = "tool"
    <3>1. /\ OpenaiMessage(a, m) = <<Result(<<"result", m>>, s[1])>>
          /\ OpenaiMessage(b, m) = <<Result(<<"result", m>>, t[1])>>
      BY <1>1, <2>3 DEF OpenaiMessage
    <3>2. QED
      BY <1>8, <2>3, <3>1
  <2>4. CASE a.role = "user"
    BY <1>1, <2>4 DEF OpenaiMessage
  <2>5. QED
    BY <2>1, <2>2, <2>3, <2>4
<1>9. QED
  BY <1>6, <1>7

LEMMA SameEvents ==
  ASSUME NEW api, NEW a \in Seq(Message), NEW b \in Seq(Message), Paired(a, b), Tools(a)
  PROVE  EventsOf(api, a) = EventsOf(api, b)
<1>1. Len(a) = Len(b)
  BY DEF Paired
<1>2. \A m \in 1..Len(a) : /\ OpenaiMessage(a[m], m) = OpenaiMessage(b[m], m)
                           /\ AnthropicMessage(a[m], m) = AnthropicMessage(b[m], m)
  <2>1. TAKE m \in 1..Len(a)
  <2>2. a[m] \in Message /\ b[m] \in Message /\ SameBut(a[m], b[m]) /\ Tooled(a[m])
    BY <1>1 DEF Paired, Tools
  <2>3. QED
    BY <2>2, SameMessage
<1>3. OpenaiEvents(a) = OpenaiEvents(b)
  BY <1>1, <1>2, Zenon DEF OpenaiEvents
<1>4. AnthropicEvents(a) = AnthropicEvents(b)
  BY <1>1, <1>2, Zenon DEF AnthropicEvents
<1>5. QED
  BY <1>3, <1>4 DEF EventsOf

----------------------------------------------------------------------------
(* The sum over the requests of a session *)

TotalOf(o, S) ==
  MapThenFoldSet(Plus, NoCounts, LAMBDA r : o[r].counts,
                 LAMBDA T : CHOOSE r \in T : TRUE, S)

Chosen(s) == CHOOSE r \in s : TRUE

SumAt(f, o, s) ==
  IF s = {} THEN NoCounts ELSE Plus(o[Chosen(s)].counts, f[s \ {Chosen(s)}])

Sums(f, o, S) == f = [s \in SUBSET S |-> SumAt(f, o, s)]

LEMMA TotalBy ==
  ASSUME NEW o, NEW S
  PROVE  TotalOf(o, S) = (CHOOSE f : Sums(f, o, S))[S]
BY DEF TotalOf, MapThenFoldSet, Sums, SumAt, Chosen

LEMMA ChosenIn ==
  ASSUME NEW s, s # {}
  PROVE  Chosen(s) \in s
BY DEF Chosen

LEMMA Fewer ==
  ASSUME NEW s, IsFiniteSet(s), NEW x \in s, NEW n \in Nat, Cardinality(s) <= n + 1
  PROVE  /\ IsFiniteSet(s \ {x}) /\ Cardinality(s \ {x}) \in Nat
         /\ Cardinality(s \ {x}) <= n /\ Cardinality(s) \in Nat
         /\ Cardinality(s \ {x}) = Cardinality(s) - 1
<1>1. IsFiniteSet(s \ {x}) /\ Cardinality(s \ {x}) = Cardinality(s) - 1
  BY FS_RemoveElement
<1>2. Cardinality(s \ {x}) \in Nat /\ Cardinality(s) \in Nat
  BY <1>1, FS_CardinalityType
<1>3. QED
  BY <1>1, <1>2

LEMMA SumsExist ==
  ASSUME NEW o, NEW S, IsFiniteSet(S)
  PROVE  \E f : Sums(f, o, S)
<1> DEFINE Good(f, n) == /\ f = [s \in SUBSET S |-> f[s]]
                         /\ \A s \in SUBSET S : Cardinality(s) <= n => f[s] = SumAt(f, o, s)
           T == {n \in Nat : \E f : Good(f, n)}
<1>0. \A s \in SUBSET S : IsFiniteSet(s) /\ Cardinality(s) \in Nat
                          /\ Cardinality(s) <= Cardinality(S)
  BY FS_Subset, FS_CardinalityType
<1>1. 0 \in T
  <2> DEFINE f == [s \in SUBSET S |-> NoCounts]
  <2>1. \A s \in SUBSET S : Cardinality(s) <= 0 => s = {}
    BY <1>0, FS_EmptySet
  <2>2. \A s \in SUBSET S : f[s] = NoCounts
    OBVIOUS
  <2>3. f = [s \in SUBSET S |-> f[s]]
    OBVIOUS
  <2> HIDE DEF f
  <2>4. Good(f, 0)
    BY <2>1, <2>2, <2>3, Zenon DEF SumAt
  <2> HIDE DEF Good
  <2>5. QED
    BY <2>4
<1>2. ASSUME NEW n \in Nat, n \in T PROVE n + 1 \in T
  <2>1. PICK f : Good(f, n)
    BY <1>2
  <2> DEFINE g == [s \in SUBSET S |-> IF Cardinality(s) <= n THEN f[s] ELSE SumAt(f, o, s)]
  <2>2. \A s \in SUBSET S :
          g[s] = IF Cardinality(s) <= n THEN f[s] ELSE SumAt(f, o, s)
    OBVIOUS
  <2>3. g = [s \in SUBSET S |-> g[s]]
    OBVIOUS
  <2> HIDE DEF g
  <2>4. \A s \in SUBSET S : g[s] = SumAt(f, o, s) 
    BY <2>1, <2>2, Zenon
  <2>5. ASSUME NEW s \in SUBSET S, Cardinality(s) <= n + 1
        PROVE  SumAt(f, o, s) = SumAt(g, o, s)
    <3>1. CASE s = {}
      BY <3>1, Zenon DEF SumAt
    <3>2. CASE s # {}
      <4> DEFINE x == Chosen(s)
      <4>1. x \in s
        BY <3>2, ChosenIn
      <4> HIDE DEF x
      <4>2. Cardinality(s \ {x}) <= n /\ s \ {x} \in SUBSET S
        BY <1>0, <2>5, <4>1, Fewer
      <4>3. g[s \ {x}] = f[s \ {x}]
        BY <2>2, <4>2, Zenon
      <4>4. QED
        BY <3>2, <4>3, Zenon DEF SumAt, x
    <3>3. QED
      BY <3>1, <3>2
  <2>6. Good(g, n + 1)
    BY <2>3, <2>4, <2>5, Zenon
  <2> HIDE DEF Good
  <2>7. QED
    BY <2>6
<1> HIDE DEF T
<1>3. Nat \subseteq T
  BY <1>1, <1>2, Inductive
<1>4. Cardinality(S) \in T
  <2>1. Cardinality(S) \in Nat
    BY FS_CardinalityType
  <2>2. QED
    BY <1>3, <2>1
<1>5. PICK f : Good(f, Cardinality(S))
  BY <1>4 DEF T
<1>6. f = [s \in SUBSET S |-> f[s]] /\ \A s \in SUBSET S : f[s] = SumAt(f, o, s)
  BY <1>0, <1>5, Zenon
<1>7. f = [s \in SUBSET S |-> SumAt(f, o, s)]
  BY <1>6, Zenon
<1>8. QED
  BY <1>7, Zenon DEF Sums

LEMMA SumsAt ==
  ASSUME NEW f, NEW o, NEW S, Sums(f, o, S), NEW s \in SUBSET S
  PROVE  f[s] = SumAt(f, o, s)
<1>1. f[s] = [t \in SUBSET S |-> SumAt(f, o, t)][s]
  BY Zenon DEF Sums
<1>2. QED
  BY <1>1, Zenon

LEMMA TotalIs ==
  ASSUME NEW o, NEW S, IsFiniteSet(S)
  PROVE  \E f : Sums(f, o, S) /\ TotalOf(o, S) = f[S]
<1> DEFINE f == CHOOSE g : Sums(g, o, S)
<1>1. Sums(f, o, S)
  BY SumsExist
<1>2. TotalOf(o, S) = f[S]
  BY TotalBy
<1>3. QED
  BY <1>1, <1>2

(* It does not depend on more than the counts.                             *)
LEMMA SumsSame ==
  ASSUME NEW o, NEW p, NEW S, NEW R, NEW f, NEW g, Sums(f, o, S), Sums(g, p, R),
         IsFiniteSet(S), S \subseteq R, \A r \in S : o[r].counts = p[r].counts
  PROVE  f[S] = g[S]
<1> DEFINE T == {n \in Nat : \A s \in SUBSET S : Cardinality(s) <= n => f[s] = g[s]}
<1>0. \A s \in SUBSET S : IsFiniteSet(s) /\ Cardinality(s) \in Nat /\ s \in SUBSET R
  BY FS_Subset, FS_CardinalityType
<1>1. 0 \in T
  <2>1. ASSUME NEW s \in SUBSET S, Cardinality(s) <= 0 PROVE f[s] = g[s]
    <3>1. s = {}
      BY <1>0, <2>1, FS_EmptySet
    <3>2. f[s] = SumAt(f, o, s) /\ g[s] = SumAt(g, p, s)
      BY <1>0, SumsAt
    <3>3. QED
      BY <3>1, <3>2, Zenon DEF SumAt
  <2>2. QED
    BY <2>1
<1>2. ASSUME NEW n \in Nat, n \in T PROVE n + 1 \in T
  <2>1. SUFFICES ASSUME NEW s \in SUBSET S, Cardinality(s) <= n + 1 PROVE f[s] = g[s]
    OBVIOUS
  <2>2. f[s] = SumAt(f, o, s) /\ g[s] = SumAt(g, p, s)
    BY <1>0, SumsAt
  <2>3. CASE s = {}
    BY <2>2, <2>3, Zenon DEF SumAt
  <2>4. CASE s # {}
    <3> DEFINE x == Chosen(s)
    <3>1. x \in s
      BY <2>4, ChosenIn
    <3>2. Cardinality(s \ {x}) <= n /\ s \ {x} \in SUBSET S
      BY <1>0, <2>1, <3>1, Fewer
    <3>3. f[s \ {x}] = g[s \ {x}] /\ o[x].counts = p[x].counts
      BY <1>2, <3>1, <3>2
    <3>4. QED
      BY <2>2, <2>4, <3>3, Zenon DEF SumAt
  <2>5. QED
    BY <2>3, <2>4
<1> HIDE DEF T
<1>3. Nat \subseteq T
  BY <1>1, <1>2, Inductive
<1>4. Cardinality(S) \in T /\ Cardinality(S) <= Cardinality(S) /\ S \in SUBSET S
  <2>1. Cardinality(S) \in Nat
    BY FS_CardinalityType
  <2>2. QED
    BY <1>3, <2>1
<1>5. QED
  BY <1>4 DEF T

LEMMA TotalSame ==
  ASSUME NEW o, NEW p, NEW S, IsFiniteSet(S), \A r \in S : o[r].counts = p[r].counts
  PROVE  TotalOf(o, S) = TotalOf(p, S)
<1>1. PICK f : Sums(f, o, S) /\ TotalOf(o, S) = f[S]
  BY TotalIs
<1>2. PICK g : Sums(g, p, S) /\ TotalOf(p, S) = g[S]
  BY TotalIs
<1>3. f[S] = g[S]
  BY <1>1, <1>2, SumsSame
<1>4. QED
  BY <1>1, <1>2, <1>3

LEMMA PlusSwaps ==
  ASSUME NEW a \in Counts, NEW b \in Counts, NEW c \in Counts
  PROVE  Plus(a, Plus(b, c)) = Plus(b, Plus(a, c))
<1>1. Plus(Plus(a, b), c) = Plus(a, Plus(b, c)) /\ Plus(Plus(b, a), c) = Plus(b, Plus(a, c))
  BY PlusAssociates
<1>2. Plus(a, b) = Plus(b, a)
  BY PlusTyped
<1>3. QED
  BY <1>1, <1>2

(* It does not matter which request is taken first.                        *)
LEMMA SumAny ==
  ASSUME NEW o, NEW S, NEW f, Sums(f, o, S), IsFiniteSet(S),
         \A r \in S : o[r].counts \in Counts
  PROVE  \A s \in SUBSET S : /\ f[s] \in Counts
                             /\ \A x \in s : f[s] = Plus(o[x].counts, f[s \ {x}])
<1> DEFINE Good(s) == f[s] \in Counts /\ \A x \in s : f[s] = Plus(o[x].counts, f[s \ {x}])
           T == {n \in Nat : \A s \in SUBSET S : Cardinality(s) <= n => Good(s)}
<1>0. \A s \in SUBSET S : IsFiniteSet(s) /\ Cardinality(s) \in Nat
                          /\ Cardinality(s) <= Cardinality(S)
  BY FS_Subset, FS_CardinalityType
<1>1. 0 \in T
  <2>1. ASSUME NEW s \in SUBSET S, Cardinality(s) <= 0 PROVE Good(s)
    <3>1. s = {}
      BY <1>0, <2>1, FS_EmptySet
    <3>2. f[s] = SumAt(f, o, s)
      BY SumsAt
    <3>3. f[s] = NoCounts
      BY <3>1, <3>2, Zenon DEF SumAt
    <3>4. NoCounts \in Counts
      BY DEF NoCounts, Counts
    <3>5. QED
      BY <3>1, <3>3, <3>4
  <2> HIDE DEF Good
  <2>2. QED
    BY <2>1
<1>2. ASSUME NEW n \in Nat, n \in T PROVE n + 1 \in T
  <2>1. SUFFICES ASSUME NEW s \in SUBSET S, Cardinality(s) <= n + 1 PROVE Good(s)
    <3> HIDE DEF Good
    <3>1. QED
      OBVIOUS
  <2>10. \A t \in SUBSET S : Cardinality(t) <= n => Good(t)
    BY <1>2
  <2>2. f[s] = SumAt(f, o, s)
    BY SumsAt
  <2>3. CASE s = {}
    <3>1. f[s] = NoCounts
      BY <2>2, <2>3, Zenon DEF SumAt
    <3>2. NoCounts \in Counts
      BY DEF NoCounts, Counts
    <3>3. QED
      BY <2>3, <3>1, <3>2
  <2>4. CASE s # {}
    <3> DEFINE y == Chosen(s)
    <3>1. y \in s /\ y \in S
      BY <2>4, ChosenIn
    <3>2. f[s] = Plus(o[y].counts, f[s \ {y}])
      BY <2>2, <2>4, Zenon DEF SumAt
    <3> HIDE DEF y
    <3>3. /\ Cardinality(s \ {y}) <= n /\ s \ {y} \in SUBSET S
      BY <1>0, <2>1, <3>1, Fewer
    <3>4. Good(s \ {y}) /\ o[y].counts \in Counts
      BY <2>10, <3>1, <3>3
    <3>5. f[s] \in Counts
      BY <3>2, <3>4, PlusTyped
    <3>6. ASSUME NEW x \in s, x # y PROVE f[s] = Plus(o[x].counts, f[s \ {x}])
      <4>1. /\ Cardinality(s \ {x}) <= n /\ s \ {x} \in SUBSET S /\ o[x].counts \in Counts
        BY <1>0, <2>1, Fewer
      <4>2. Good(s \ {x})
        BY <2>10, <4>1
      <4> DEFINE rest == (s \ {y}) \ {x}
      <4>3. (s \ {x}) \ {y} = rest /\ x \in s \ {y} /\ y \in s \ {x} /\ rest \in SUBSET S
        BY <3>1, <3>6
      <4>4. f[s \ {y}] = Plus(o[x].counts, f[rest])
        BY <3>4, <4>3
      <4>5. f[s \ {x}] = Plus(o[y].counts, f[rest])
        BY <4>2, <4>3
      <4>6. Cardinality(rest) <= n
        <5>1. Cardinality(rest) <= Cardinality(s \ {y}) /\ Cardinality(rest) \in Nat
              /\ Cardinality(s \ {y}) \in Nat
          <6>1. IsFiniteSet(s \ {y}) /\ rest \in SUBSET (s \ {y})
            BY <1>0, <3>3
          <6>2. QED
            BY <6>1, FS_Subset, FS_CardinalityType
        <5>2. QED
          BY <3>3, <5>1
      <4>7. f[rest] \in Counts
        BY <2>10, <4>3, <4>6
      <4> HIDE DEF rest
      <4>8. QED
        BY <3>2, <3>4, <4>1, <4>4, <4>5, <4>7, PlusSwaps
    <3>7. QED
      BY <3>2, <3>5, <3>6
  <2>5. QED
    BY <2>3, <2>4
<1> HIDE DEF T
<1>3. Nat \subseteq T
  BY <1>1, <1>2, Inductive
<1>4. Cardinality(S) \in T
  <2>1. Cardinality(S) \in Nat
    BY FS_CardinalityType
  <2>2. QED
    BY <1>3, <2>1
<1>5. \A s \in SUBSET S : Good(s)
  <2> HIDE DEF Good
  <2>1. QED
    BY <1>0, <1>4 DEF T
<1>6. QED
  BY <1>5

LEMMA TotalEmpty ==
  ASSUME NEW o
  PROVE  TotalOf(o, {}) = NoCounts
<1>1. PICK f : Sums(f, o, {}) /\ TotalOf(o, {}) = f[{}]
  BY TotalIs, FS_EmptySet
<1>2. f[{}] = SumAt(f, o, {})
  <2>1. {} \in SUBSET {}
    OBVIOUS
  <2>2. QED
    BY <1>1, <2>1, SumsAt
<1>3. QED
  BY <1>1, <1>2, Zenon DEF SumAt

LEMMA TotalAdd ==
  ASSUME NEW o, NEW S, IsFiniteSet(S), NEW x, x \notin S,
         \A r \in S \union {x} : o[r].counts \in Counts
  PROVE  TotalOf(o, S \union {x}) = Plus(TotalOf(o, S), o[x].counts)
<1> DEFINE R == S \union {x}
<1>1. IsFiniteSet(R) /\ S \subseteq R /\ R \in SUBSET R /\ x \in R /\ R \ {x} = S
      /\ S \in SUBSET R
  BY FS_AddElement
<1>2. \A r \in R : o[r].counts \in Counts
  OBVIOUS
<1> HIDE DEF R
<1>3. PICK f : Sums(f, o, R) /\ TotalOf(o, R) = f[R]
  BY <1>1, TotalIs
<1>4. PICK g : Sums(g, o, S) /\ TotalOf(o, S) = g[S]
  BY TotalIs
<1>5. g[S] = f[S]
  BY <1>1, <1>3, <1>4, SumsSame
<1>6. f[R] = Plus(o[x].counts, f[S]) /\ f[S] \in Counts
  BY <1>1, <1>2, <1>3, SumAny
<1>7. Plus(o[x].counts, f[S]) = Plus(f[S], o[x].counts)
  BY <1>1, <1>2, <1>6, PlusTyped
<1>8. QED
  BY <1>3, <1>4, <1>5, <1>6, <1>7 DEF R

----------------------------------------------------------------------------
(* The repeats of a session *)

(* Where a request is once it is in a session                              *)
Past == {"prepare", "sent", "done", "failed"}

OpenedIn(o, s) == {r \in Requests : o[r].session = s /\ o[r].pc \in Past}

(* The requests S are of histories that the last one's continues.          *)
Chain(api, o, S, longest) ==
  /\ longest \in S
  /\ \A r \in S : IsPrefix(EventsOf(api, o[r].history), EventsOf(api, o[longest].history))

(* What a session has reported is what its longest history has, ...        *)
Summed(api, o, s) ==
  /\ IsFiniteSet(OpenedIn(o, s))
  /\ \A longest \in Requests : Chain(api, o, OpenedIn(o, s), longest) =>
       TotalOf(o, OpenedIn(o, s)) = Repeats(EventsOf(api, o[longest].history))

(* ... and the present one's entry knows that history.                     *)
Known(api, o, s, known) ==
  /\ Kempt(known, EventKey, Value, Requests \X Nat)
  /\ \A longest \in Requests : Chain(api, o, OpenedIn(o, s), longest) =>
       Reflects(known, EventsOf(api, o[longest].history))
  /\ OpenedIn(o, s) = {} => known = NewEntry

Counted(api, o, s, known) ==
  /\ \A t \in 0..s : Summed(api, o, t)
  /\ Known(api, o, s, known)

(* What is to be known of the requests                                     *)
Recorded(o) ==
  \A r \in Requests :
    /\ o[r].history \in Seq(Message) /\ Tools(o[r].history) /\ o[r].counts \in Counts

LEMMA PrefixChain ==
  ASSUME NEW S, NEW a \in Seq(S), NEW b \in Seq(S), NEW c \in Seq(S),
         IsPrefix(a, c), IsPrefix(b, c), Len(a) <= Len(b)
  PROVE  IsPrefix(a, b)
<1>1. /\ Len(a) <= Len(c) /\ SubSeq(a, 1, Len(a)) = SubSeq(c, 1, Len(a))
      /\ Len(b) <= Len(c) /\ SubSeq(b, 1, Len(b)) = SubSeq(c, 1, Len(b))
      /\ Len(a) \in Nat /\ Len(b) \in Nat /\ Len(c) \in Nat
  BY DEF IsPrefix
<1>2. \A i \in 1..Len(b) : b[i] = c[i]
  <2>1. \A i \in 1..Len(b) : SubSeq(b, 1, Len(b))[i] = b[i] /\ SubSeq(c, 1, Len(b))[i] = c[i]
    BY <1>1
  <2>2. QED
    BY <1>1, <2>1
<1>3. SubSeq(b, 1, Len(a)) = SubSeq(c, 1, Len(a))
  BY <1>1, <1>2
<1>4. QED
  BY <1>1, <1>3 DEF IsPrefix

LEMMA PrefixNone ==
  ASSUME NEW S, NEW a \in Seq(S)
  PROVE  IsPrefix(<<>>, a) /\ <<>> \in Seq(S)
<1>1. SubSeq(<<>>, 1, 0) = <<>> /\ SubSeq(a, 1, 0) = <<>> /\ Len(<<>>) = 0 /\ Len(a) \in Nat
  OBVIOUS
<1>2. QED
  BY <1>1 DEF IsPrefix

(* Of the requests that one continues, another continues the rest.         *)
LEMMA ChainLast ==
  ASSUME NEW api, NEW o, Recorded(o), NEW S, S \subseteq Requests, S # {}, NEW r \in Requests,
         \A q \in S : IsPrefix(EventsOf(api, o[q].history), EventsOf(api, o[r].history))
  PROVE  \E q \in S : Chain(api, o, S, q)
<1> DEFINE E(q) == EventsOf(api, o[q].history)
           n == Len(E(r))
           T == {n - Len(E(q)) : q \in S}
<1>1. \A q \in Requests : E(q) \in Seq(Event)
  BY EventsTyped DEF Recorded
<1>2. \A q \in S : Len(E(q)) \in Nat /\ Len(E(q)) <= n /\ n \in Nat
  BY <1>1 DEF IsPrefix
<1>3. T \subseteq Nat /\ T # {}
  BY <1>2
<1>4. PICK m \in T : \A k \in T : m <= k
  BY <1>3, LeastNatural
<1>5. PICK q \in S : m = n - Len(E(q))
  OBVIOUS
<1>6. ASSUME NEW s \in S PROVE IsPrefix(E(s), E(q))
  <2>1. n - Len(E(q)) <= n - Len(E(s))
    BY <1>4, <1>5
  <2>2. Len(E(s)) <= Len(E(q))
    BY <1>2, <2>1
  <2>3. E(s) \in Seq(Event) /\ E(q) \in Seq(Event) /\ E(r) \in Seq(Event)
        /\ IsPrefix(E(s), E(r)) /\ IsPrefix(E(q), E(r))
    BY <1>1
  <2> HIDE DEF E
  <2>4. QED
    BY <2>2, <2>3, PrefixChain
<1>7. QED
  BY <1>6 DEF Chain

(* One request more: it continues the others, or one of them it.           *)
LEMMA CountedOpen ==
  ASSUME NEW api, NEW o, NEW x, NEW s \in Nat, NEW known, NEW r \in Requests,
         Recorded(o), Counted(api, o, s, known), o[r].pc = "substitute",
         \A q \in Requests \ {r} : x[q] = o[q],
         x[r].history = o[r].history, x[r].pc = "prepare", x[r].session = s,
         x[r].counts = Observe(known, EventsOf(api, o[r].history)).counts
  PROVE  /\ Counted(api, x, s, Observe(known, EventsOf(api, o[r].history)).entry)
         /\ x[r].counts \in Counts
<1> DEFINE E(q) == EventsOf(api, o[q].history)
           S == OpenedIn(o, s)
           seen == Observe(known, E(r))
           I == Requests \X Nat
<1>0. /\ Kempt(known, EventKey, Value, I) /\ s \in 0..s
      /\ \A longest \in Requests : Chain(api, o, S, longest) => Reflects(known, E(longest))
      /\ S = {} => known = NewEntry
      /\ \A t \in 0..s : Summed(api, o, t)
  BY DEF Counted, Known
<1>1. \A q \in Requests : E(q) \in Seq(Event) /\ Distinct(E(q))
  BY EventsTyped DEF Recorded
<1>2. \A q \in Requests : x[q].history = o[q].history
  OBVIOUS
<1>3. /\ OpenedIn(x, s) = S \union {r} /\ r \notin S
      /\ \A t : t # s => OpenedIn(x, t) = OpenedIn(o, t)
      /\ \A t : r \notin OpenedIn(o, t)
      /\ \A t : OpenedIn(o, t) \subseteq Requests
  BY DEF OpenedIn, Past
<1>4. seen \in SeenType(EventKey, Value, I) /\ Kempt(seen.entry, EventKey, Value, I)
  <2>1. E(r) \in Seq(Ev(EventKey, Value, I))
    BY <1>1 DEF Event
  <2> HIDE DEF E, I
  <2>2. QED
    BY <1>0, <2>1, Observed
<1>5. seen.counts \in Counts /\ x[r].counts = seen.counts
  BY <1>4 DEF SeenType
<1> HIDE DEF S
<1>6. \A T \in SUBSET Requests : \A longest \in Requests :
        Chain(api, x, T, longest) <=> Chain(api, o, T, longest)
  BY <1>2 DEF Chain
<1>7. ASSUME NEW t \in 0..s, t # s PROVE Summed(api, x, t)
  <2>1. Summed(api, o, t) /\ OpenedIn(x, t) = OpenedIn(o, t)
    BY <1>0, <1>3, <1>7
  <2>2. \A q \in OpenedIn(o, t) : o[q].counts = x[q].counts
    BY <1>3
  <2>3. TotalOf(o, OpenedIn(o, t)) = TotalOf(x, OpenedIn(o, t))
    BY <2>1, <2>2, TotalSame DEF Summed
  <2>4. QED
    BY <1>2, <1>3, <1>6, <2>1, <2>3 DEF Summed
<1>8. /\ IsFiniteSet(S) /\ IsFiniteSet(S \union {r})
      /\ \A longest \in Requests : Chain(api, o, S, longest) => TotalOf(o, S) = Repeats(E(longest))
  <2>1. Summed(api, o, s)
    BY <1>0
  <2>2. IsFiniteSet(S)
    BY <2>1 DEF Summed, S
  <2>3. QED
    BY <2>1, <2>2, FS_AddElement DEF Summed, S
<1>9. TotalOf(x, S \union {r}) = Plus(TotalOf(o, S), seen.counts)
  <2>1. \A q \in S : o[q].counts = x[q].counts /\ o[q].counts \in Counts
    BY <1>3 DEF Recorded, S
  <2>2. TotalOf(o, S) = TotalOf(x, S)
    BY <1>8, <2>1, TotalSame
  <2>3. \A q \in S \union {r} : x[q].counts \in Counts
    BY <1>5, <2>1
  <2>4. TotalOf(x, S \union {r}) = Plus(TotalOf(x, S), x[r].counts)
    BY <1>3, <1>8, <2>3, TotalAdd
  <2>5. QED
    BY <1>5, <2>2, <2>4
<1> HIDE DEF seen
<1>10. ASSUME NEW longest \in Requests, Chain(api, o, S \union {r}, longest)
       PROVE  /\ TotalOf(x, S \union {r}) = Repeats(E(longest))
              /\ Reflects(seen.entry, E(longest))
  <2>0. /\ longest \in S \union {r}
        /\ \A q \in S \union {r} : IsPrefix(E(q), E(longest))
    BY <1>10 DEF Chain
  <2>1. CASE longest # r
    <3>1. Chain(api, o, S, longest) /\ IsPrefix(E(r), E(longest))
      BY <2>0, <2>1 DEF Chain
    <3>2. Reflects(known, E(longest)) /\ TotalOf(o, S) = Repeats(E(longest))
      BY <1>0, <1>8, <3>1
    <3>3. seen = [entry |-> known, counts |-> NoCounts]
      <4>1. E(r) \in Seq(Event) /\ E(longest) \in Seq(Event)
        BY <1>1
      <4> HIDE DEF E
      <4>2. QED
        BY <3>1, <3>2, <4>1, Replayed DEF seen
    <3>4. seen.entry = known /\ seen.counts = NoCounts
      BY <3>3
    <3>5. Repeats(E(longest)) \in Counts
      BY <1>1, RepeatsTyped
    <3> HIDE DEF E
    <3>6. Plus(TotalOf(o, S), seen.counts) = Repeats(E(longest))
      BY <3>2, <3>4, <3>5, PlusTyped
    <3>7. QED
      BY <1>9, <3>2, <3>4, <3>6
  <2>2. ASSUME longest = r, NEW M \in Seq(Event), IsPrefix(M, E(r)), Reflects(known, M),
               TotalOf(o, S) = Repeats(M)
        PROVE  /\ TotalOf(x, S \union {r}) = Repeats(E(longest))
               /\ Reflects(seen.entry, E(longest))
    <3>1. E(r) \in Seq(Event) /\ Distinct(E(r))
      BY <1>1
    <3> DEFINE L == E(r)
    <3>2. L \in Seq(Ev(EventKey, Value, I)) /\ M \in Seq(Ev(EventKey, Value, I))
          /\ Distinct(L) /\ IsPrefix(M, L) /\ seen = Observe(known, L)
      BY <2>2, <3>1 DEF Event, seen
    <3> HIDE DEF L, I
    <3>3. Reflects(seen.entry, L) /\ Plus(Repeats(M), seen.counts) = Repeats(L)
      BY <1>0, <2>2, <3>2, Continued
    <3>4. QED
      BY <1>9, <2>2, <3>3 DEF L
  <2>3. CASE longest = r /\ S = {}
    <3>1. known = NewEntry
      BY <1>0, <2>3
    <3>2. /\ <<>> \in Seq(Event) /\ IsPrefix(<<>>, E(r))
      BY <1>1, PrefixNone
    <3>3. Reflects(known, <<>>) /\ TotalOf(o, S) = Repeats(<<>>)
      BY <2>3, <3>1, NothingSeen, TotalEmpty
    <3> HIDE DEF E
    <3>4. QED
      BY <2>2, <2>3, <3>2, <3>3
  <2>4. CASE longest = r /\ S # {}
    <3>1. PICK q \in S : Chain(api, o, S, q)
      <4>1. \A p \in S : IsPrefix(E(p), E(r))
        BY <2>0, <2>4
      <4>2. S \subseteq Requests
        BY <1>3 DEF S
      <4>3. QED
        BY <2>4, <4>1, <4>2, ChainLast
    <3>2. q \in Requests /\ E(q) \in Seq(Event) /\ IsPrefix(E(q), E(r))
      BY <1>1, <1>3, <2>0, <2>4 DEF S
    <3>3. Reflects(known, E(q)) /\ TotalOf(o, S) = Repeats(E(q))
      BY <1>0, <1>8, <3>1, <3>2
    <3> HIDE DEF E
    <3>4. QED
      BY <2>2, <2>4, <3>2, <3>3
  <2>5. QED
    BY <2>0, <2>1, <2>3, <2>4
<1>11. S \union {r} \in SUBSET Requests
  BY <1>3 DEF S
<1>12. Summed(api, x, s)
  BY <1>2, <1>3, <1>6, <1>8, <1>10, <1>11 DEF Summed
<1>13. Known(api, x, s, seen.entry)
  BY <1>2, <1>3, <1>4, <1>6, <1>10, <1>11 DEF Known
<1>14. Counted(api, x, s, seen.entry)
  BY <1>7, <1>12, <1>13 DEF Counted
<1>15. QED
  BY <1>5, <1>14 DEF seen

----------------------------------------------------------------------------
(* The types of the requests, and what they have counted *)

(* A request keeps to its history: it sends what came but for its texts,   *)
(* and failed only at places there are.                                    *)
Tidy(o) ==
  /\ o.counts \in Counts /\ Tools(o.history)
  /\ o.pc = "substitute" => Paired(o.history, o.payload)
  /\ o.unread \subseteq AnswerTexts(o.history)
  /\ o.unkept \subseteq UserTextsAt(o.history)
  /\ o.pc \in {"new", "substitute", "prepare"} => o.unkept = {}
  /\ o.pc = "new" => o.unread = {}
  /\ o.pc # "done" => o.answer = NoAnswer

(* What makes TypeOK and RepeatsCountedOnce inductive, with PassInv        *)
CountInv ==
  /\ protocol \in Protocols /\ session \in 0..MaxForgets /\ faults \in 0..MaxFaults
  /\ \A r \in Requests : Tidy(op[r]) /\ op[r].session <= session
  /\ Counted(protocol, op, session, entry)

(* A request that stays where it is in its session.                        *)
LEMMA CountedStays ==
  ASSUME NEW api, NEW o, NEW x, NEW s, NEW known, NEW r \in Requests,
         Counted(api, o, s, known), \A q \in Requests \ {r} : x[q] = o[q],
         x[r].session = o[r].session, x[r].counts = o[r].counts,
         x[r].pc \in Past <=> o[r].pc \in Past,
         x[r].pc \in Past => x[r].history = o[r].history
  PROVE  Counted(api, x, s, known)
<1>1. \A t : OpenedIn(x, t) = OpenedIn(o, t) /\ OpenedIn(o, t) \subseteq Requests
  BY DEF OpenedIn
<1>2. ASSUME NEW t, NEW q \in OpenedIn(o, t)
      PROVE  x[q].counts = o[q].counts /\ x[q].history = o[q].history
  BY DEF OpenedIn
<1>3. ASSUME NEW t, NEW longest, Chain(api, x, OpenedIn(x, t), longest)
      PROVE  /\ Chain(api, o, OpenedIn(o, t), longest)
             /\ x[longest].history = o[longest].history
  <2>1. longest \in OpenedIn(o, t)
    BY <1>1, <1>3 DEF Chain
  <2>2. x[longest].history = o[longest].history
    BY <1>2, <2>1
  <2>3. \A q \in OpenedIn(o, t) : x[q].history = o[q].history
    BY <1>2
  <2>4. QED
    BY <1>1, <1>3, <2>1, <2>2, <2>3 DEF Chain
<1>4. ASSUME NEW t \in 0..s PROVE Summed(api, x, t)
  <2>1. Summed(api, o, t)
    BY DEF Counted
  <2>2. \A q \in OpenedIn(o, t) : o[q].counts = x[q].counts
    BY <1>2
  <2>3. IsFiniteSet(OpenedIn(o, t))
    BY <2>1 DEF Summed
  <2>4. TotalOf(o, OpenedIn(o, t)) = TotalOf(x, OpenedIn(o, t))
    BY <2>2, <2>3, TotalSame
  <2>5. QED
    BY <1>1, <1>3, <2>1, <2>4 DEF Summed
<1>5. Known(api, x, s, known)
  BY <1>1, <1>3 DEF Counted, Known
<1>6. QED
  BY <1>4, <1>5 DEF Counted

LEMMA CountStep ==
  ASSUME CountInv, NEW r \in Requests, \A q \in Requests \ {r} : op'[q] = op[q],
         UNCHANGED <<protocol, session, entry>>, faults' \in 0..MaxFaults, Tidy(op'[r]),
         op'[r].session = op[r].session, op'[r].counts = op[r].counts,
         op'[r].pc \in Past <=> op[r].pc \in Past,
         op'[r].pc \in Past => op'[r].history = op[r].history
  PROVE  CountInv'
<1>1. Counted(protocol, op, session, entry)
  BY DEF CountInv
<1>2. Counted(protocol, op', session, entry)
  BY <1>1, CountedStays
<1>3. \A q \in Requests : Tidy(op'[q]) /\ op'[q].session <= session
  BY DEF CountInv
<1>4. QED
  BY <1>2, <1>3 DEF CountInv

LEMMA InitCount == Init => CountInv
<1> SUFFICES ASSUME Init PROVE CountInv
  OBVIOUS
<1> DEFINE x == [pc |-> "new", history |-> <<>>, payload |-> <<>>, left |-> {},
                 session |-> 0, counts |-> NoCounts, gate |-> FALSE,
                 unread |-> {}, unkept |-> {}, answer |-> NoAnswer, shown |-> <<>>]
<1>1. /\ op = [r \in Requests |-> x] /\ entry = NewEntry
      /\ protocol \in Protocols /\ session = 0 /\ faults = 0
  BY DEF Init
<1>2. Tidy(x) /\ x.session = 0 /\ x.pc = "new"
  BY DEF Tidy, NoCounts, Counts, Tools
<1> HIDE DEF x
<1>3. \A r \in Requests : Tidy(op[r]) /\ op[r].session = 0 /\ op[r].pc = "new"
  BY <1>1, <1>2
<1>4. \A t : OpenedIn(op, t) = {}
  BY <1>3 DEF OpenedIn, Past
<1>5. \A t : Summed(protocol, op, t)
  BY <1>4, FS_EmptySet DEF Summed, Chain
<1>6. Known(protocol, op, session, entry)
  <2>1. Kempt(NewEntry, EventKey, Value, Requests \X Nat)
    BY RepeatsAssumption DEF Kempt, NewEntry, EntryType
  <2>2. QED
    BY <1>1, <1>4, <2>1 DEF Known, Chain
<1>7. session \in 0..MaxForgets /\ faults \in 0..MaxFaults
  BY <1>1, PipelineAssumption
<1>8. QED
  BY <1>1, <1>3, <1>5, <1>6, <1>7 DEF CountInv, Counted

LEMMA ForgetCount ==
  ASSUME CountInv, Formed, Forget
  PROVE  CountInv'
<1>1. /\ session < MaxForgets /\ session' = session + 1 /\ entry' = NewEntry
      /\ UNCHANGED <<protocol, op, faults>>
  BY DEF Forget
<1>2. /\ session \in 0..MaxForgets /\ MaxForgets \in Nat
      /\ \A r \in Requests : Tidy(op[r]) /\ op[r].session <= session
      /\ Counted(protocol, op, session, entry)
  BY PipelineAssumption DEF CountInv
<1>3. \A r \in Requests : op[r].session \in Nat
  BY Parts
<1>4. OpenedIn(op, session + 1) = {}
  <2>1. ASSUME NEW r \in Requests PROVE op[r].session # session + 1
    BY <1>2, <1>3
  <2>2. QED
    BY <2>1 DEF OpenedIn
<1>5. Summed(protocol, op, session + 1)
  BY <1>4, FS_EmptySet DEF Summed, Chain
<1>6. Known(protocol, op, session + 1, NewEntry)
  <2>1. Kempt(NewEntry, EventKey, Value, Requests \X Nat)
    BY RepeatsAssumption DEF Kempt, NewEntry, EntryType
  <2>2. QED
    BY <1>4, <2>1 DEF Known, Chain
<1>7. \A t \in 0..session + 1 : t \in 0..session \/ t = session + 1
  BY <1>2
<1>8. Counted(protocol, op, session + 1, NewEntry)
  BY <1>2, <1>5, <1>6, <1>7 DEF Counted
<1>9. session + 1 \in 0..MaxForgets
  BY <1>1, <1>2
<1>10. \A r \in Requests : Tidy(op[r]) /\ op[r].session <= session + 1
  BY <1>2, <1>3
<1>11. Counted(protocol', op', session', entry')
  BY <1>1, <1>8
<1>12. QED
  BY <1>1, <1>9, <1>10, <1>11 DEF CountInv

LEMMA FaultsBounded ==
  ASSUME CountInv, UNCHANGED faults \/ Fault
  PROVE  faults' \in 0..MaxFaults
<1>1. faults \in 0..MaxFaults /\ MaxFaults \in Nat
  BY PipelineAssumption DEF CountInv
<1>2. QED
  BY <1>1 DEF Fault

LEMMA FailCount ==
  ASSUME CountInv, PassInv, NEW r \in Requests, Fail(r)
  PROVE  CountInv'
<1> DEFINE o == op[r]
           x == op'[r]
<1>1. /\ o.pc = "sent" /\ op' = [op EXCEPT ![r].pc = "failed"]
      /\ UNCHANGED <<protocol, session, entry>> /\ Fault
  BY DEF Fail
<1>2. Formed /\ o \in OpOf(o.counts) /\ Tidy(o)
  BY InvIs, OpIs DEF CountInv
<1>3. (\A q \in Requests \ {r} : op'[q] = op[q]) /\ x = [o EXCEPT !.pc = "failed"]
  BY <1>1, <1>2 DEF Formed
<1>4. /\ x.pc = "failed" /\ x.history = o.history /\ x.payload = o.payload
      /\ x.session = o.session /\ x.counts = o.counts /\ x.unread = o.unread
      /\ x.unkept = o.unkept /\ x.answer = o.answer
  <2> HIDE DEF o, x
  <2>1. QED
    BY <1>2, <1>3 DEF OpOf
<1>5. Tidy(x)
  BY <1>1, <1>2, <1>4 DEF Tidy
<1>6. x.pc \in Past /\ o.pc \in Past
  BY <1>1, <1>4 DEF Past
<1>7. faults' \in 0..MaxFaults
  BY <1>1, FaultsBounded
<1>8. QED
  BY <1>1, <1>3, <1>4, <1>5, <1>6, <1>7, CountStep

LEMMA ReplyCount ==
  ASSUME CountInv, PassInv, NEW r \in Requests, Reply(r)
  PROVE  CountInv'
<1> DEFINE o == op[r]
           x == op'[r]
<1>1. PICK answer, shown :
        op' = [op EXCEPT ![r].pc = "done", ![r].answer = answer, ![r].shown = shown]
  BY DEF Reply
<1>2. o.pc = "sent" /\ UNCHANGED <<protocol, session, entry>> /\ (UNCHANGED faults \/ Fault)
  BY DEF Reply
<1>3. Formed /\ o \in OpOf(o.counts) /\ Tidy(o)
  BY InvIs, OpIs DEF CountInv
<1>4. /\ \A q \in Requests \ {r} : op'[q] = op[q]
      /\ x = [o EXCEPT !.pc = "done", !.answer = answer, !.shown = shown]
  BY <1>1, <1>3 DEF Formed
<1>5. /\ x.pc = "done" /\ x.history = o.history /\ x.payload = o.payload
      /\ x.session = o.session /\ x.counts = o.counts /\ x.unread = o.unread
      /\ x.unkept = o.unkept
  <2> HIDE DEF o, x
  <2>1. QED
    BY <1>3, <1>4 DEF OpOf
<1>6. Tidy(x)
  BY <1>3, <1>5 DEF Tidy
<1>7. x.pc \in Past /\ o.pc \in Past
  BY <1>2, <1>5 DEF Past
<1>8. faults' \in 0..MaxFaults
  BY <1>2, FaultsBounded
<1>9. QED
  BY <1>2, <1>4, <1>5, <1>6, <1>7, <1>8, CountStep

LEMMA PrepareCount ==
  ASSUME CountInv, PassInv, NEW r \in Requests, Prepare(r)
  PROVE  CountInv'
<1> DEFINE o == op[r]
           x == op'[r]
           messages == o.payload
           gate == protocol = "openai" /\ Gate(messages)
           places == IF gate THEN Changed(messages) ELSE {}
<1>0. PICK unkept \in SUBSET places :
        LET kept == Kept(messages, places \ unkept)
            done == {p \in places \ unkept :
                       kept[Normal[At(messages, p)]] = At(messages, p)}
        IN  op' = [op EXCEPT
              ![r].pc = "sent", ![r].gate = gate, ![r].unkept = unkept,
              ![r].payload = Replaced(@, [p \in done |-> Normal[At(messages, p)]])]
  BY DEF Prepare
<1> DEFINE tried == places \ unkept
           kept == Kept(messages, tried)
           done == {p \in tried : kept[Normal[At(messages, p)]] = At(messages, p)}
           payload == Replaced(messages, [p \in done |-> Normal[At(messages, p)]])
<1>1. op' = [op EXCEPT ![r].pc = "sent", ![r].gate = gate, ![r].unkept = unkept,
                       ![r].payload = payload]
  BY <1>0
<1> HIDE DEF payload
<1>2. o.pc = "prepare" /\ UNCHANGED <<protocol, session, entry>> /\ (UNCHANGED faults \/ Fault)
  BY DEF Prepare
<1>3. Formed /\ o \in OpOf(o.counts) /\ Tidy(o) /\ Alike(o.history, o.payload)
  BY InvIs, OpIs DEF CountInv, Carried
<1>4. unkept \subseteq UserTextsAt(o.history)
  <2>1. places \subseteq UserTextsAt(o.payload)
    BY DEF Changed
  <2>2. UserTextsAt(o.payload) = UserTextsAt(o.history)
    BY <1>3, AlikePlaces DEF UserTextsAt
  <2>3. QED
    BY <2>1, <2>2
<1> HIDE DEF places, gate
<1>5. /\ \A q \in Requests \ {r} : op'[q] = op[q]
      /\ x = [o EXCEPT !.pc = "sent", !.gate = gate, !.unkept = unkept, !.payload = payload]
  BY <1>1, <1>3 DEF Formed
<1>6. /\ x.pc = "sent" /\ x.history = o.history /\ x.unkept = unkept
      /\ x.session = o.session /\ x.counts = o.counts /\ x.unread = o.unread
      /\ x.answer = o.answer
  <2> HIDE DEF o, x
  <2>1. QED
    BY <1>3, <1>5 DEF OpOf
<1>7. Tidy(x)
  BY <1>2, <1>3, <1>4, <1>6 DEF Tidy
<1>8. x.pc \in Past /\ o.pc \in Past
  BY <1>2, <1>6 DEF Past
<1>9. faults' \in 0..MaxFaults
  BY <1>2, FaultsBounded
<1>10. QED
  BY <1>2, <1>5, <1>6, <1>7, <1>8, <1>9, CountStep

LEMMA PairedSelf == \A a : Paired(a, a)
BY DEF Paired, SameBut

LEMMA PairedJoins ==
  ASSUME NEW a, NEW b, NEW c, Paired(a, b), Paired(b, c)
  PROVE  Paired(a, c)
<1>1. ASSUME NEW m \in DOMAIN a PROVE SameBut(a[m], c[m])
  <2>1. SameBut(a[m], b[m]) /\ SameBut(b[m], c[m])
    BY DEF Paired
  <2>2. QED
    BY <2>1 DEF SameBut
<1>2. QED
  BY <1>1 DEF Paired

(* Replacing texts leaves the rest.                                        *)
LEMMA ReplacedPaired ==
  ASSUME NEW messages, NEW texts, NEW role, DOMAIN texts \subseteq Place(messages, role, "text")
  PROVE  Paired(messages, Replaced(messages, texts))
<1> DEFINE new == Replaced(messages, texts)
           Blocks(m) == [b \in DOMAIN messages[m].blocks |->
                           IF <<m, b>> \in DOMAIN texts
                           THEN Text(texts[<<m, b>>], messages[m].blocks[b].id)
                           ELSE messages[m].blocks[b]]
<1>1. /\ DOMAIN new = DOMAIN messages
      /\ \A m \in DOMAIN messages :
           new[m] = [role |-> messages[m].role, blocks |-> Blocks(m)]
  BY DEF Replaced
<1>2. ASSUME NEW m \in DOMAIN messages, NEW b \in DOMAIN messages[m].blocks
      PROVE  \/ Blocks(m)[b] = messages[m].blocks[b]
             \/ messages[m].blocks[b].type = "text" /\ Blocks(m)[b].type = "text"
  <2>0. Blocks(m)[b] = IF <<m, b>> \in DOMAIN texts
                       THEN Text(texts[<<m, b>>], messages[m].blocks[b].id)
                       ELSE messages[m].blocks[b]
    OBVIOUS
  <2> HIDE DEF Blocks
  <2>1. CASE <<m, b>> \in DOMAIN texts
    <3>1. Blocks(m)[b] = Text(texts[<<m, b>>], messages[m].blocks[b].id)
      BY <2>0, <2>1
    <3>2. <<m, b>> \in Place(messages, role, "text")
      BY <2>1
    <3>3. messages[m].blocks[b].type = "text"
      BY <3>2, PlaceIs
    <3>4. Text(texts[<<m, b>>], messages[m].blocks[b].id).type = "text"
      BY DEF Text
    <3>5. QED
      BY <3>1, <3>3, <3>4
  <2>2. CASE <<m, b>> \notin DOMAIN texts
    BY <2>0, <2>2
  <2>3. QED
    BY <2>1, <2>2
<1>3. \A m \in DOMAIN messages : DOMAIN Blocks(m) = DOMAIN messages[m].blocks
  OBVIOUS
<1> HIDE DEF new, Blocks
<1>4. ASSUME NEW m \in DOMAIN messages PROVE SameBut(messages[m], new[m])
  <2>1. new[m].role = messages[m].role /\ new[m].blocks = Blocks(m)
    BY <1>1
  <2>2. QED
    BY <2>1, <1>2, <1>3 DEF SameBut
<1>5. Paired(messages, new)
  BY <1>1, <1>4 DEF Paired
<1>6. QED
  BY <1>5 DEF new

LEMMA SubstituteCount ==
  ASSUME CountInv, PassInv, NEW r \in Requests, Substitute(r)
  PROVE  CountInv'
<1> DEFINE o == op[r]
           x == op'[r]
           place == First(o.left)
           found == IF OriginalOf(Sent(r, place)) = None THEN {} ELSE {place}
           payload == Replaced(o.payload, [p \in found |-> OriginalOf(At(o.payload, p))])
           left == o.left \ {place}
           unread == o.unread \union {place}
<1>1. /\ o.pc = "substitute" /\ o.left # {} /\ UNCHANGED <<protocol, session, entry>>
      /\ UNCHANGED faults \/ Fault
  BY DEF Substitute
<1>2. \/ op' = [op EXCEPT ![r].left = left, ![r].payload = payload]
      \/ op' = [op EXCEPT ![r].left = left, ![r].unread = unread]
  BY DEF Substitute
<1>3. Formed /\ o \in OpOf(o.counts) /\ Carried(op, originals, normals, o) /\ Tidy(o)
  BY InvIs, OpIs DEF CountInv
<1>4. /\ o.left \in SUBSET Spot /\ o.left \subseteq AnswerTexts(o.history)
      /\ Alike(o.history, o.payload)
  BY <1>3, OpParts DEF Carried
<1>5. place \in o.left /\ place \in AnswerTexts(o.history)
  <2>1. place \in o.left
    BY <1>1, <1>4, FirstIn DEF Spot
  <2>2. QED
    BY <2>1, <1>4
<1>6. unread \subseteq AnswerTexts(o.history)
  BY <1>3, <1>5 DEF Tidy
<1>7. Paired(o.history, payload)
  <2>1. Paired(o.history, o.payload)
    BY <1>1, <1>3 DEF Tidy
  <2>2. AnswerTexts(o.payload) = AnswerTexts(o.history)
    BY <1>4, AlikePlaces DEF AnswerTexts
  <2>3. found \subseteq Place(o.payload, "assistant", "text")
    BY <2>2, <1>5 DEF AnswerTexts
  <2> DEFINE texts == [p \in found |-> OriginalOf(At(o.payload, p))]
  <2>4. DOMAIN texts = found
    OBVIOUS
  <2> HIDE DEF texts, found
  <2>5. Paired(o.payload, Replaced(o.payload, texts))
    BY <2>3, <2>4, ReplacedPaired
  <2>6. QED
    BY <2>1, <2>5, PairedJoins DEF texts
<1> HIDE DEF payload, left, unread, place, found
<1>8. \A q \in Requests \ {r} : op'[q] = op[q]
  BY <1>2, <1>3 DEF Formed
<1>9. /\ x.pc = o.pc /\ x.history = o.history /\ x.session = o.session
      /\ x.counts = o.counts /\ x.unkept = o.unkept /\ x.answer = o.answer
      /\ \/ x.payload = payload /\ x.unread = o.unread
         \/ x.payload = o.payload /\ x.unread = unread
  <2>1. \/ x = [o EXCEPT !.left = left, !.payload = payload]
        \/ x = [o EXCEPT !.left = left, !.unread = unread]
    BY <1>2, <1>3 DEF Formed
  <2> HIDE DEF o, x
  <2>2. QED
    BY <2>1, <1>3 DEF OpOf
<1>10. Tidy(x)
  BY <1>1, <1>3, <1>6, <1>7, <1>9 DEF Tidy
<1>11. faults' \in 0..MaxFaults
  BY <1>1, FaultsBounded
<1>12. x.pc \notin Past /\ o.pc \notin Past
  BY <1>1, <1>9 DEF Past
<1>13. QED
  BY <1>1, <1>8, <1>9, <1>10, <1>11, <1>12, CountStep

LEMMA OpenCount ==
  ASSUME CountInv, PassInv, NEW r \in Requests,
         OpenWith(r, EventsOf(protocol, op[r].payload)), UNCHANGED protocol
  PROVE  CountInv'
<1> DEFINE o == op[r]
           x == op'[r]
           events == EventsOf(protocol, o.history)
           seen == Observe(entry, events)
           counts == seen.counts
<1>1. Formed /\ o \in OpOf(o.counts) /\ Tidy(o) /\ session \in Nat
  BY InvIs, OpIs, FormedStore DEF CountInv
<1>2. o.history \in Seq(Message) /\ o.payload \in Seq(Message)
  BY <1>1, OpParts
<1>3. o.pc = "substitute" /\ UNCHANGED <<session, faults>>
  BY DEF OpenWith
<1>4. EventsOf(protocol, o.payload) = events
  <2>1. Paired(o.history, o.payload) /\ Tools(o.history)
    BY <1>1, <1>3 DEF Tidy
  <2> HIDE DEF o
  <2>2. QED
    BY <2>1, <1>2, SameEvents
<1>5. /\ entry' = seen.entry
      /\ op' = [op EXCEPT ![r].pc = "prepare", ![r].session = session, ![r].counts = counts]
  BY <1>4 DEF OpenWith
<1> HIDE DEF counts
<1>6. /\ \A q \in Requests \ {r} : op'[q] = op[q]
      /\ x = [o EXCEPT !.pc = "prepare", !.session = session, !.counts = counts]
  BY <1>1, <1>5 DEF Formed
<1>7. /\ x.pc = "prepare" /\ x.session = session /\ x.counts = counts
      /\ x.history = o.history /\ x.unread = o.unread /\ x.unkept = o.unkept
      /\ x.answer = o.answer
  <2> DEFINE s == session
  <2>1. x = [o EXCEPT !.pc = "prepare", !.session = s, !.counts = counts]
    BY <1>6
  <2> HIDE DEF o, x, s
  <2>2. /\ x.pc = "prepare" /\ x.session = s /\ x.counts = counts
        /\ x.history = o.history /\ x.unread = o.unread /\ x.unkept = o.unkept
        /\ x.answer = o.answer
    BY <2>1, <1>1 DEF OpOf
  <2>3. QED
    BY <2>2 DEF s
<1>8. Recorded(op)
  <2>1. \A q \in Requests : op[q].history \in Seq(Message)
    BY <1>1, Parts
  <2>2. QED
    BY <2>1 DEF Recorded, CountInv, Tidy
<1>9. /\ Counted(protocol, op', session, seen.entry)
      /\ counts \in Counts
  <2>1. Counted(protocol, op, session, entry)
    BY DEF CountInv
  <2>2. x.counts = Observe(entry, EventsOf(protocol, op[r].history)).counts
    BY <1>7 DEF counts
  <2>3. /\ Counted(protocol, op', session, Observe(entry, EventsOf(protocol, op[r].history)).entry)
        /\ op'[r].counts \in Counts
    BY <2>1, <2>2, <1>1, <1>3, <1>6, <1>7, <1>8, CountedOpen
  <2>4. QED
    BY <2>3, <1>7
<1>10. Tidy(x)
  BY <1>1, <1>3, <1>7, <1>9 DEF Tidy
<1>11. \A q \in Requests : Tidy(op'[q]) /\ op'[q].session <= session
  <2>1. \A q \in Requests \ {r} : Tidy(op'[q]) /\ op'[q].session <= session
    BY <1>6 DEF CountInv
  <2>2. x.session <= session
    BY <1>1, <1>7
  <2>3. QED
    BY <1>10, <2>1, <2>2
<1>12. QED
  BY <1>3, <1>5, <1>9, <1>11 DEF CountInv

LEMMA ToolsJoin ==
  ASSUME NEW a \in Seq(Message), NEW b \in Seq(Message), Tools(a), Tools(b)
  PROVE  Tools(a \o b)
<1>1. ASSUME NEW m \in DOMAIN (a \o b) PROVE Tooled((a \o b)[m])
  <2>1. /\ m \in 1..(Len(a) + Len(b)) /\ Len(a) \in Nat /\ Len(b) \in Nat
        /\ (a \o b)[m] = IF m <= Len(a) THEN a[m] ELSE b[m - Len(a)]
    OBVIOUS
  <2>2. CASE m <= Len(a)
    <3>1. m \in DOMAIN a /\ (a \o b)[m] = a[m]
      BY <2>1, <2>2
    <3>2. QED
      BY <3>1 DEF Tools
  <2>3. CASE ~(m <= Len(a))
    <3>1. m - Len(a) \in DOMAIN b /\ (a \o b)[m] = b[m - Len(a)]
      BY <2>1, <2>3
    <3>2. QED
      BY <3>1 DEF Tools
  <2>4. QED
    BY <2>2, <2>3
<1>2. QED
  BY <1>1 DEF Tools

(* A message of another role is no tool's.                                 *)
LEMMA OneMessage ==
  ASSUME NEW role, NEW blocks, role # "tool"
  PROVE  Tools(<< [role |-> role, blocks |-> blocks] >>)
<1> DEFINE message == [role |-> role, blocks |-> blocks]
<1>1. Tooled(message)
  BY DEF Tooled
<1> HIDE DEF message
<1>2. DOMAIN <<message>> = {1} /\ <<message>>[1] = message
  OBVIOUS
<1>3. Tools(<<message>>)
  BY <1>1, <1>2 DEF Tools
<1>4. QED
  BY <1>3 DEF message

LEMMA ResultsTools ==
  ASSUME NEW q \in Requests, NEW n \in Nat,
         NEW results \in [1..n -> UNION Range(ToolResults)]
  PROVE  Tools(ResultMessages(q, results))
<1> DEFINE blocks == [k \in 1..Len(results) |-> ResultBlock(q, k, results[k])]
           new == ResultMessages(q, results)
<1>1. Len(results) = n
  OBVIOUS
<1>2. new = IF protocol = "openai"
            THEN [k \in 1..n |-> [role |-> "tool", blocks |-> <<blocks[k]>>]]
            ELSE << [role |-> "user", blocks |-> blocks] >>
  BY <1>1 DEF ResultMessages
<1>3. CASE protocol = "openai"
  <2>1. ASSUME NEW k \in 1..n PROVE blocks[k].type = "result"
    BY <1>1 DEF ResultBlock
  <2> HIDE DEF blocks
  <2>2. ASSUME NEW k \in 1..n PROVE Tooled([role |-> "tool", blocks |-> <<blocks[k]>>])
    <3> DEFINE one == <<blocks[k]>>
    <3>1. one # <<>> /\ one[1].type = "result"
      BY <2>1
    <3> HIDE DEF one
    <3>2. Tooled([role |-> "tool", blocks |-> one])
      BY <3>1 DEF Tooled
    <3>3. QED
      BY <3>2 DEF one
  <2> HIDE DEF new
  <2>3. QED
    BY <1>2, <1>3, <2>2 DEF Tools, new
<1>4. CASE protocol # "openai"
  BY <1>2, <1>4, OneMessage
<1>5. QED
  BY <1>3, <1>4

LEMMA HistoryTools ==
  ASSUME CountInv, PassInv, NEW r \in Requests, NEW history \in Histories(r)
  PROVE  Tools(history)
<1>1. \A q \in Requests : op[q].history \in Seq(Message) /\ Tools(op[q].history)
  BY InvIs, Parts DEF CountInv, Tidy
<1>2. \A p : Tools(<<Typed(p)>>)
  BY OneMessage DEF Typed
<1>3. CASE history = <<Typed(r)>>
  BY <1>2, <1>3
<1>4. ASSUME NEW q \in Requests, op[q].pc = "done", history \in Continuations(r, q)
      PROVE  Tools(history)
  <2> DEFINE calls == op[q].answer.calls
             next == IF calls = <<>> THEN {<<Typed(r)>>}
                     ELSE {ResultMessages(q, results) :
                             results \in {f \in [1..Len(calls) -> UNION Range(ToolResults)] :
                                           \A k \in DOMAIN f : f[k] \in ToolResults[calls[k]]}}
             said == {t \in [1..Len(op[q].shown) -> DOMAIN KeyOf] :
                        \A k \in DOMAIN t : t[k] \in Echoes(op[q].shown[k])}
             Longer(t, m) == op[q].history \o <<AnswerMessage(q, t)>> \o m
  <2>1. PICK t \in said, m \in next : history = Longer(t, m)
    <3>1. Continuations(r, q) = {Longer(t, m) : t \in said, m \in next}
      BY DEF Continuations
    <3>2. history \in Continuations(r, q)
      BY <1>4
    <3> HIDE DEF said, next, calls, Longer
    <3>3. QED
      BY <3>1, <3>2
  <2>2. Len(calls) \in Nat
    <3>1. op[q].answer \in Answer
      BY InvIs, Parts
    <3>2. QED
      BY <3>1 DEF Answer
  <2>3. m \in Seq(Message) /\ Tools(m)
    <3>1. CASE calls = <<>>
      BY <2>1, <3>1, <1>2, TypedTold
    <3>2. CASE calls # <<>>
      <4>1. PICK results \in [1..Len(calls) -> UNION Range(ToolResults)] :
              m = ResultMessages(q, results)
        BY <2>1, <3>2
      <4>2. QED
        BY <4>1, <2>2, ResultsTold, ResultsTools
    <3>3. QED
      BY <3>1, <3>2
  <2>4. <<AnswerMessage(q, t)>> \in Seq(Message)
    BY <2>1, <1>4, AnswerTold
  <2>5. Tools(<<AnswerMessage(q, t)>>)
    BY OneMessage DEF AnswerMessage
  <2> DEFINE a == op[q].history
             b == <<AnswerMessage(q, t)>>
             c == a \o b
  <2>6. a \in Seq(Message) /\ b \in Seq(Message) /\ Tools(a) /\ Tools(b)
    BY <1>1, <2>4, <2>5
  <2> HIDE DEF a, b
  <2>7. c \in Seq(Message) /\ Tools(c)
    BY <2>6, ToolsJoin
  <2>8. history = c \o m
    BY <2>1 DEF a, b
  <2> HIDE DEF c
  <2>9. QED
    BY <2>3, <2>7, <2>8, ToolsJoin
<1>5. QED
  BY <1>1, <1>3, <1>4 DEF Histories

LEMMA BeginCount ==
  ASSUME CountInv, PassInv, NEW r \in Requests, Begin(r)
  PROVE  CountInv'
<1> DEFINE o == op[r]
           x == op'[r]
<1>1. PICK h \in Histories(r) :
        op' = [op EXCEPT ![r].pc = "substitute", ![r].history = h,
                         ![r].payload = h, ![r].left = AnswerTexts(h)]
  BY DEF Begin
<1>2. o.pc = "new" /\ UNCHANGED <<protocol, session, entry, faults>>
  BY DEF Begin
<1>3. Formed /\ o \in OpOf(o.counts) /\ Tidy(o) /\ Tools(h)
  BY InvIs, OpIs, HistoryTools DEF CountInv
<1> DEFINE left == AnswerTexts(h)
<1>4. op' = [op EXCEPT ![r].pc = "substitute", ![r].history = h,
                       ![r].payload = h, ![r].left = left]
  BY <1>1
<1> HIDE DEF left
<1>5. /\ \A q \in Requests \ {r} : op'[q] = op[q]
      /\ x = [o EXCEPT !.pc = "substitute", !.history = h, !.payload = h, !.left = left]
  BY <1>3, <1>4 DEF Formed
<1>6. /\ x.pc = "substitute" /\ x.history = h /\ x.payload = h
      /\ x.session = o.session /\ x.counts = o.counts /\ x.unread = o.unread
      /\ x.unkept = o.unkept /\ x.answer = o.answer
  <2> HIDE DEF o, x
  <2>1. QED
    BY <1>3, <1>5 DEF OpOf
<1>7. Tidy(x)
  BY <1>2, <1>3, <1>6, PairedSelf DEF Tidy
<1>8. x.pc \notin Past /\ o.pc \notin Past
  BY <1>2, <1>6 DEF Past
<1>9. faults' \in 0..MaxFaults
  BY <1>2, FaultsBounded
<1>10. QED
  BY <1>2, <1>5, <1>6, <1>7, <1>8, <1>9, CountStep

LEMMA NextCount ==
  ASSUME CountInv, PassInv, [Next]_vars
  PROVE  CountInv'
<1>1. ASSUME NEW r \in Requests, Begin(r) PROVE CountInv'
  BY <1>1, BeginCount
<1>2. ASSUME NEW r \in Requests, Substitute(r) PROVE CountInv'
  BY <1>2, SubstituteCount
<1>3. ASSUME NEW r \in Requests, OpenOpenai(r) PROVE CountInv'
  <2>1. /\ OpenWith(r, EventsOf(protocol, op[r].payload)) /\ UNCHANGED protocol
    BY <1>3 DEF OpenOpenai, OpenWith, EventsOf
  <2>2. QED
    BY <2>1, OpenCount
<1>4. ASSUME NEW r \in Requests, OpenAnthropic(r) PROVE CountInv'
  <2>1. /\ OpenWith(r, EventsOf(protocol, op[r].payload)) /\ UNCHANGED protocol
    BY <1>4 DEF OpenAnthropic, OpenWith, EventsOf
  <2>2. QED
    BY <2>1, OpenCount
<1>5. ASSUME NEW r \in Requests, Prepare(r) PROVE CountInv'
  BY <1>5, PrepareCount
<1>6. ASSUME NEW r \in Requests, Reply(r) PROVE CountInv'
  BY <1>6, ReplyCount
<1>7. ASSUME NEW r \in Requests, Fail(r) PROVE CountInv'
  BY <1>7, FailCount
<1>8. Forget => CountInv'
  BY ForgetCount, InvIs
<1>9. ASSUME UNCHANGED vars PROVE CountInv'
  BY <1>9 DEF vars, CountInv
<1>10. QED
  BY <1>1, <1>2, <1>3, <1>4, <1>5, <1>6, <1>7, <1>8, <1>9 DEF Next

LEMMA CountAlways == Spec => [](PassInv /\ CountInv)
<1>1. PassInv /\ CountInv /\ [Next]_vars => PassInv' /\ CountInv'
  BY NextPass, NextCount
<1>2. Init => PassInv /\ CountInv
  BY InitPass, InitCount
<1>3. QED
  BY <1>1, <1>2, PTL DEF Spec

LEMMA TypeFollows == PassInv /\ CountInv => TypeOK
<1> SUFFICES ASSUME PassInv, CountInv PROVE TypeOK
  OBVIOUS
<1>1. /\ Formed /\ \A r \in Requests : Carried(op, originals, normals, op[r])
      /\ protocol \in Protocols /\ session \in 0..MaxForgets /\ faults \in 0..MaxFaults
      /\ \A r \in Requests : Tidy(op[r]) /\ op[r].session <= session
  BY InvIs DEF CountInv
<1>2. /\ \A k \in DOMAIN originals : originals[k] \in (DOMAIN Rendering) \union {None}
      /\ \A k \in DOMAIN normals : normals[k] \in Range(UserText) \union {None}
  BY <1>1, FormedStore DEF Originals, Normals
<1>3. Len(entry.calls) <= CallCap /\ (entry.pending => entry.edits # {})
  BY DEF CountInv, Counted, Known, Kempt
<1>4. ASSUME NEW r \in Requests
      PROVE  /\ op[r].pc \in {"new", "substitute", "prepare", "sent", "done", "failed"}
             /\ op[r].left \subseteq AnswerTexts(op[r].history)
             /\ op[r].session \in 0..session
             /\ op[r].counts \in Counts
             /\ op[r].unread \subseteq AnswerTexts(op[r].history)
             /\ op[r].unkept \subseteq UserTextsAt(op[r].history)
             /\ Len(op[r].payload) = Len(op[r].history)
             /\ op[r].pc # "done" => op[r].answer = NoAnswer
  <2>1. op[r].pc \in {"new", "substitute", "prepare", "sent", "done", "failed"}
    BY <1>1, Parts DEF Stage
  <2>2. op[r].left \subseteq AnswerTexts(op[r].history)
    BY <1>1 DEF Carried
  <2>3. op[r].session \in 0..session
    <3>1. op[r].session \in Nat /\ session \in Nat /\ op[r].session <= session
      BY <1>1, Parts, FormedStore
    <3>2. QED
      BY <3>1
  <2>4. Len(op[r].payload) = Len(op[r].history)
    <3>1. /\ op[r].history \in Seq(Message) /\ op[r].payload \in Seq(Message)
          /\ DOMAIN op[r].history = DOMAIN op[r].payload
      BY <1>1, Parts DEF Carried, Alike
    <3> DEFINE a == op[r].history
               b == op[r].payload
    <3>2. a \in Seq(Message) /\ b \in Seq(Message) /\ DOMAIN a = DOMAIN b
      BY <3>1
    <3> HIDE DEF a, b
    <3>3. Len(a) = Len(b)
      BY <3>2
    <3>4. QED
      BY <3>3 DEF a, b
  <2>5. /\ op[r].counts \in Counts
        /\ op[r].unread \subseteq AnswerTexts(op[r].history)
        /\ op[r].unkept \subseteq UserTextsAt(op[r].history)
        /\ op[r].pc # "done" => op[r].answer = NoAnswer
    BY <1>1 DEF Tidy
  <2>6. QED
    BY <2>1, <2>2, <2>3, <2>4, <2>5
<1>5. QED
  BY <1>1, <1>2, <1>3, <1>4 DEF TypeOK

LEMMA RepeatsFollow == CountInv => RepeatsCountedOnce
<1> SUFFICES ASSUME CountInv, NEW s \in 0..session, NEW longest \in Opened(s),
                    \A r \in Opened(s) : IsPrefix(Events(r), Events(longest))
             PROVE  TotalOf(op, Opened(s)) = Repeats(Events(longest))
  BY DEF RepeatsCountedOnce, TotalOf
<1>1. Opened(s) = OpenedIn(op, s) /\ longest \in Requests
  BY DEF Opened, OpenedIn, Past
<1>2. \A r : Events(r) = EventsOf(protocol, op[r].history)
  BY DEF Events, EventsOf
<1>3. Chain(protocol, op, OpenedIn(op, s), longest)
  BY <1>1, <1>2 DEF Chain
<1>4. Summed(protocol, op, s)
  BY DEF CountInv, Counted
<1>5. QED
  BY <1>1, <1>2, <1>3, <1>4 DEF Summed

----------------------------------------------------------------------------
(* The theorems *)

(* What goes to the provider leads back to what was written: nothing the   *)
(* user typed or the model said is lost on the way upstream.               *)
THEOREM NothingIsLost == Spec => []NothingLost
BY PassAlways, LostFollows, PTL

(* The bytes the provider has cached stay, but where the store failed, the *)
(* gate differs or an answer in plain text got an original in between.     *)
THEOREM PrefixesStable == Spec => []PrefixStable
BY PassAlways, StableFollows, PTL

(* The type invariant of the pipeline's state: the texts in the stores, the *)
(* places a request has left or lost, its session, counts and answer, the  *)
(* calls an entry remembers and the failed edits it waits on.              *)
THEOREM TypeCorrect == Spec => []TypeOK
BY CountAlways, TypeFollows, PTL

(* What the requests of a session report of its tool calls adds up to the  *)
(* repeats of its longest history, in whatever order they come and however *)
(* often they are sent, as long as each history continues the others.      *)
THEOREM RepeatsOnce == Spec => []RepeatsCountedOnce
BY CountAlways, RepeatsFollow, PTL
============================================================================
