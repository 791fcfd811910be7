--------------------------- MODULE EvidenceProofs ---------------------------
(***************************************************************************)
(* TLAPS proofs about Evidence: type correctness, what is sent upstream,   *)
(* the arms of the experiment and the baselines of the health report, for  *)
(* any requests, bodies, settings, answers and restarts, and any ledgers   *)
(* earlier runs may have left.                                             *)
(***************************************************************************)
EXTENDS Evidence, FiniteSetTheorems, WellFoundedInduction, TLAPS

(* What is proved of the registry holds of this one.                       *)
Proved == INSTANCE SessionRegistryProofs WITH
  History <- {body.messages : body \in Asked},
  Clock <- {0}, Blob <- {}, Ttl <- 0, now <- 0, failed <- {}

LEMMA RegistryAssumed == Proved!RegistryAssumption /\ Proved!SessionAssumption
<1>1. {body.messages : body \in Asked} \subseteq Seq(Message)
  BY EvidenceAssumption
<1>2. QED
  BY <1>1, EvidenceAssumption DEF Proved!RegistryAssumption, Proved!SessionAssumption

LEMMA SameType ==
  /\ \A S : Registry!IsRegistry(S) = Proved!IsRegistry(S)
  /\ Registry!TypeOK = Proved!TypeOK
<1>1. Registry!SessionId = Proved!SessionId /\ Registry!Entry = Proved!Entry
  BY DEF Registry!SessionId, Proved!SessionId, Registry!Entry, Proved!Entry
<1>2. ASSUME NEW S PROVE Registry!IsRegistry(S) = Proved!IsRegistry(S)
  BY <1>1 DEF Registry!IsRegistry, Proved!IsRegistry, Registry!IsFiniteSet, Proved!IsFiniteSet
<1>3. Registry!Grant = Proved!Grant
  BY <1>1 DEF Registry!Grant, Proved!Grant
<1>4. QED
  BY <1>2, <1>3 DEF Registry!TypeOK, Proved!TypeOK

LEMMA SameInvariant == Registry!IInv <=> Proved!IInv
BY SameType
   DEF Registry!IInv, Registry!IdsIssued, Registry!TurnsCovered,
       Registry!AdvisedMarked, Registry!AdvisableNow, Registry!DistinctFirst,
       Registry!TurnsJoin, Registry!AdvisedOnce, Registry!NeverCollides,
       Proved!IInv, Proved!IdsIssued, Proved!TurnsCovered, Proved!AdvisedMarked,
       Proved!AdvisableNow, Proved!DistinctFirst, Proved!TurnsJoin,
       Proved!AdvisedOnce, Proved!NeverCollides

LEMMA SameCardinality ==
  ASSUME NEW S
  PROVE  Registry!Cardinality(S) = Proved!Cardinality(S)
BY DEF Registry!Cardinality, Proved!Cardinality

LEMMA SameEviction ==
  ASSUME NEW S, NEW t
  PROVE  Registry!Evicted(S, t) = Proved!Evicted(S, t)
BY SameCardinality
   DEF Registry!Evicted, Registry!Survivors, Registry!Active, Registry!IdleFor,
       Registry!Restrict, Proved!Evicted, Proved!Survivors, Proved!Active,
       Proved!IdleFor, Proved!Restrict

LEMMA SameSelection ==
  ASSUME NEW S, NEW h
  PROVE  /\ Registry!Related(S, h) = Proved!Related(S, h)
         /\ Registry!BestMatches(S, h) = Proved!BestMatches(S, h)
         /\ Registry!Fresh(S, h) = Proved!Fresh(S, h)
BY DEF Registry!Related, Registry!BestMatches, Registry!SharesPrefix,
       Registry!AtLeastAsClose, Registry!Fresh, Proved!Related, Proved!BestMatches,
       Proved!SharesPrefix, Proved!AtLeastAsClose, Proved!Fresh

LEMMA SameSelect ==
  ASSUME NEW S, NEW h, NEW id
  PROVE  /\ Registry!Select(S, h, id) = Proved!Select(S, h, id)
         /\ Registry!Collides(S, h) = Proved!Collides(S, h)
         /\ Registry!NewId(h, nextId) = Proved!NewId(h, nextId)
<1>1. /\ Registry!Existing(S, h, id) = Proved!Existing(S, h, id)
      /\ Registry!NewId(h, nextId) = Proved!NewId(h, nextId)
  BY SameSelection DEF Registry!Existing, Proved!Existing, Registry!NewId, Proved!NewId
<1>2. QED
  BY <1>1, SameSelection
     DEF Registry!Select, Proved!Select, Registry!Collides, Proved!Collides

LEMMA SameEntry ==
  ASSUME NEW S, NEW h, NEW id, NEW B, NEW entry
  PROVE  /\ Registry!EntryOf(S, id, 0) = Proved!EntryOf(S, id, 0)
         /\ Registry!Reserved(entry, B) = Proved!Reserved(entry, B)
         /\ Registry!Recorded(entry, h) = Proved!Recorded(entry, h)
         /\ Registry!Put(S, id, entry) = Proved!Put(S, id, entry)
BY DEF Registry!EntryOf, Registry!NewEntry, Registry!Reserved, Registry!Recorded,
       Registry!Put, Proved!EntryOf, Proved!NewEntry, Proved!Reserved,
       Proved!Recorded, Proved!Put

LEMMA SameOpen ==
  ASSUME NEW r, NEW h, NEW B, Registry!Open(r, h, B)
  PROVE  Proved!Open(r, h, B)
<1> PICK S \in Registry!Evicted(sessions, 0) :
      \E id \in DOMAIN S \cup {Registry!NewId(h, nextId)} :
        LET entry == Registry!Reserved(Registry!EntryOf(S, id, 0), B)
            grant == [req |-> r, epoch |-> epoch, id |-> id,
                      turn |-> entry.turn, history |-> h,
                      collision |-> Registry!Collides(S, h)]
        IN  /\ Registry!Select(S, h, id)
            /\ sessions' \in
                 Registry!Evicted(Registry!Put(S, id, Registry!Recorded(entry, h)), 0)
            /\ grants' = grants \cup {grant}
            /\ advisable' = advisable \cup {grant}
  BY DEF Registry!Open
<1> PICK id \in DOMAIN S \cup {Registry!NewId(h, nextId)} :
      LET entry == Registry!Reserved(Registry!EntryOf(S, id, 0), B)
          grant == [req |-> r, epoch |-> epoch, id |-> id,
                    turn |-> entry.turn, history |-> h,
                    collision |-> Registry!Collides(S, h)]
      IN  /\ Registry!Select(S, h, id)
          /\ sessions' \in
               Registry!Evicted(Registry!Put(S, id, Registry!Recorded(entry, h)), 0)
          /\ grants' = grants \cup {grant}
          /\ advisable' = advisable \cup {grant}
  OBVIOUS
<1> DEFINE entry == Proved!Reserved(Proved!EntryOf(S, id, 0), B)
<1>1. /\ S \in Proved!Evicted(sessions, 0)
      /\ id \in DOMAIN S \cup {Proved!NewId(h, nextId)}
      /\ Proved!Select(S, h, id)
      /\ Registry!Collides(S, h) = Proved!Collides(S, h)
  BY SameEviction, SameSelect
<1>2. entry = Registry!Reserved(Registry!EntryOf(S, id, 0), B)
  BY SameEntry
<1>3. sessions' \in Proved!Evicted(Proved!Put(S, id, Proved!Recorded(entry, h)), 0)
  <2>1. sessions' \in
          Registry!Evicted(Registry!Put(S, id, Registry!Recorded(entry, h)), 0)
    BY <1>2
  <2> HIDE DEF entry
  <2>2. Registry!Put(S, id, Registry!Recorded(entry, h)) =
          Proved!Put(S, id, Proved!Recorded(entry, h))
    <3>1. /\ \A e : Registry!Recorded(e, h) = Proved!Recorded(e, h)
          /\ \A e : Registry!Put(S, id, e) = Proved!Put(S, id, e)
      BY SameEntry
    <3>2. QED
      BY <3>1
  <2>3. \A T : Registry!Evicted(T, 0) = Proved!Evicted(T, 0)
    BY SameEviction
  <2>4. QED
    BY <2>1, <2>2, <2>3
<1>4. Proved!Unseen(r) /\ UNCHANGED <<0, epoch, advised, {}>>
  BY DEF Registry!Open, Registry!Unseen, Proved!Unseen
<1> DEFINE grant == [req |-> r, epoch |-> epoch, id |-> id, turn |-> entry.turn,
                     history |-> h, collision |-> Proved!Collides(S, h)]
<1>5. grants' = grants \cup {grant} /\ advisable' = advisable \cup {grant}
  BY <1>1, <1>2
<1>6. QED
  BY <1>1, <1>3, <1>4, <1>5, Zenon DEF Proved!Open

LEMMA SameAdvise ==
  ASSUME NEW g
  PROVE  Registry!Advise(g) = Proved!Advise(g)
BY SameCardinality
   DEF Registry!Advise, Registry!MayAdvise, Registry!IsConversationStart,
       Registry!Count, Proved!Advise, Proved!MayAdvise,
       Proved!IsConversationStart, Proved!Count

LEMMA SameRestart == Registry!Restart => Proved!Restart
BY DEF Registry!Restart, Proved!Restart, Registry!NoSessions, Proved!NoSessions

LEMMA SameInit == Registry!Init => Proved!Init
BY DEF Registry!Init, Proved!Init, Registry!NoSessions, Proved!NoSessions

LEMMA SameInvariantNext == Registry!IInv' <=> Proved!IInv'
BY SameInvariant, PTL

----------------------------------------------------------------------------
(* The steps of the registry *)

(* A request that opens a session gets one grant, its own, with a turn.    *)
LEMMA OpenGrants ==
  ASSUME Registry!IInv, NEW r \in Request, NEW body \in Asked,
         Registry!Open(r, body.messages, {})
  PROVE  /\ Registry!IInv'
         /\ UNCHANGED <<epoch, advised>>
         /\ \A g \in grants : g.req # r
         /\ \E g \in Registry!Grant :
              /\ grants' = grants \cup {g}
              /\ g.req = r /\ g.history = body.messages /\ g.turn # NoTurn
<1>1. Proved!Open(r, body.messages, {})
  BY SameOpen
<1>2. /\ body.messages \in {b.messages : b \in Asked}
      /\ {} \in SUBSET {}
  OBVIOUS
<1>3. Proved!IInv'
  BY <1>1, <1>2, RegistryAssumed, SameInvariant, Proved!OpenInv
<1>4. Registry!IInv'
  BY <1>3, SameInvariantNext
<1>5. UNCHANGED <<epoch, advised>> /\ \A g \in grants : g.req # r
  BY DEF Registry!Open, Registry!Unseen
<1>6. \E g \in Registry!Grant :
        /\ grants' = grants \cup {g}
        /\ g.req = r /\ g.history = body.messages /\ g.turn # NoTurn
  <2>0. PICK S \in Proved!Evicted(sessions, 0) :
          \E id \in DOMAIN S \cup {Proved!NewId(body.messages, nextId)} :
            grants' = grants \cup
              {[req |-> r, epoch |-> epoch, id |-> id,
                turn |-> Proved!Reserved(Proved!EntryOf(S, id, 0), {}).turn,
                history |-> body.messages,
                collision |-> Proved!Collides(S, body.messages)]}
    BY <1>1 DEF Proved!Open
  <2>1. PICK id \in DOMAIN S \cup {Proved!NewId(body.messages, nextId)} :
          grants' = grants \cup
            {[req |-> r, epoch |-> epoch, id |-> id,
              turn |-> Proved!Reserved(Proved!EntryOf(S, id, 0), {}).turn,
              history |-> body.messages,
              collision |-> Proved!Collides(S, body.messages)]}
    BY <2>0
  <2> DEFINE entry == Proved!EntryOf(S, id, 0)
             g == [req |-> r, epoch |-> epoch, id |-> id,
                   turn |-> Proved!Reserved(entry, {}).turn,
                   history |-> body.messages,
                   collision |-> Proved!Collides(S, body.messages)]
  <2>2. Proved!IsRegistry(sessions)
    BY SameInvariant DEF Proved!IInv, Proved!TypeOK
  <2>3. Proved!IsRegistry(S)
    BY <2>2, RegistryAssumed, Proved!EvictedKeeps
  <2>4. entry \in Proved!Entry
    BY <2>3, RegistryAssumed, Proved!EntryOfType
  <2>5. Proved!Reserved(entry, {}).turn = entry.turn + 1
    BY <2>4, RegistryAssumed, Proved!ReservedType
  <2>6. g.turn # NoTurn
    BY <2>4, <2>5 DEF Proved!Entry, NoTurn
  <2>7. g \in Registry!Grant
    BY <2>1, <1>4 DEF Registry!IInv, Registry!TypeOK
  <2>8. QED
    BY <2>1, <2>6, <2>7
<1>7. QED
  BY <1>4, <1>5, <1>6

LEMMA AdviseGrants ==
  ASSUME Registry!IInv, NEW g \in grants, Registry!Advise(g)
  PROVE  Registry!IInv' /\ UNCHANGED <<epoch, grants>> /\ advised \subseteq advised'
<1>1. Proved!IInv'
  BY SameAdvise, SameInvariant, RegistryAssumed, Proved!AdviseInv
<1>2. QED
  BY <1>1, SameInvariantNext DEF Registry!Advise

LEMMA RestartGrants ==
  ASSUME Registry!IInv, Registry!Restart
  PROVE  /\ Registry!IInv' /\ UNCHANGED <<grants, advised>>
         /\ epoch' = epoch + 1 /\ epoch < MaxEpoch
<1>1. Proved!IInv'
  BY SameRestart, SameInvariant, RegistryAssumed, Proved!RestartInv
<1>2. QED
  BY <1>1, SameInvariantNext DEF Registry!Restart

LEMMA StutterGrants ==
  ASSUME Registry!IInv, UNCHANGED registry
  PROVE  Registry!IInv'
BY DEF registry, Registry!IInv, Registry!TypeOK, Registry!IdsIssued,
       Registry!TurnsCovered, Registry!AdvisedMarked, Registry!AdvisableNow,
       Registry!DistinctFirst, Registry!TurnsJoin, Registry!AdvisedOnce,
       Registry!NeverCollides, Registry!IsRegistry, Registry!Grant

----------------------------------------------------------------------------
(* What the proxy puts around a body *)

LEMMA CachedType ==
  ASSUME NEW blocks \in Seq(Block)
  PROVE  /\ Cached(blocks) \subseteq 1..Len(blocks)
         /\ IsFiniteSet(Cached(blocks))
         /\ Cardinality(Cached(blocks)) \in Nat
<1>1. Cached(blocks) \subseteq 1..Len(blocks)
  BY DEF Cached
<1>2. IsFiniteSet(1..Len(blocks))
  BY FS_Interval
<1>3. QED
  BY <1>1, <1>2, FS_Subset, FS_CardinalityType

LEMMA BreakpointsType ==
  ASSUME NEW body \in Body
  PROVE  Breakpoints(body) \in Nat
<1>1. body.instructions.blocks \in Seq(Block) /\ body.marks \in Nat
  BY DEF Body, Instructions
<1>2. QED
  BY <1>1, CachedType DEF Breakpoints

(* A block without a mark, put before others, moves their marks by one.    *)
LEMMA CachedBehind ==
  ASSUME NEW blocks \in Seq(Block), NEW first \in Block, ~first.cached
  PROVE  /\ Cached(<<first>> \o blocks) = {i + 1 : i \in Cached(blocks)}
         /\ Cardinality(Cached(<<first>> \o blocks)) = Cardinality(Cached(blocks))
<1> DEFINE all == <<first>> \o blocks
           from == Cached(blocks)
           shift == [i \in from |-> i + 1]
<1>1. /\ all \in Seq(Block) /\ Len(all) = Len(blocks) + 1
      /\ all[1] = first /\ \A i \in 1..Len(blocks) : all[i + 1] = blocks[i]
  OBVIOUS
<1>2. from \subseteq 1..Len(blocks) /\ IsFiniteSet(from)
  BY CachedType
<1>3. Cached(all) = {i + 1 : i \in from}
  <2>1. ASSUME NEW i \in Cached(all) PROVE \E j \in from : i = j + 1
    <3>1. i \in 1..Len(blocks) + 1 /\ all[i].cached
      BY <1>1 DEF Cached
    <3>2. i # 1
      BY <1>1, <3>1
    <3>3. i - 1 \in 1..Len(blocks) /\ all[(i - 1) + 1] = blocks[i - 1] /\ (i - 1) + 1 = i
      BY <1>1, <3>1, <3>2
    <3>4. blocks[i - 1].cached
      BY <3>1, <3>3
    <3>5. i - 1 \in from
      BY <3>3, <3>4 DEF Cached
    <3>6. QED
      BY <3>3, <3>5
  <2>2. ASSUME NEW j \in from PROVE j + 1 \in Cached(all)
    <3>1. j \in 1..Len(blocks) /\ blocks[j].cached
      BY DEF Cached
    <3>2. j + 1 \in DOMAIN all /\ all[j + 1].cached
      BY <1>1, <3>1
    <3>3. QED
      BY <3>2 DEF Cached
  <2>3. QED
    BY <2>1, <2>2
<1>4. shift \in Bijection(from, Cached(all))
  BY <1>2, <1>3 DEF Bijection, Injection, Surjection, IsInjective
<1>5. Cardinality(Cached(all)) = Cardinality(from)
  BY <1>2, <1>4, FS_Bijection DEF ExistsBijection
<1>6. QED
  BY <1>3, <1>5

(* One put behind them leaves their marks where they are.                  *)
LEMMA CachedBefore ==
  ASSUME NEW blocks \in Seq(Block), NEW last \in Block, ~last.cached
  PROVE  Cached(blocks \o <<last>>) = Cached(blocks)
<1> DEFINE all == blocks \o <<last>>
<1>1. /\ all \in Seq(Block) /\ Len(all) = Len(blocks) + 1
      /\ all[Len(blocks) + 1] = last /\ \A i \in 1..Len(blocks) : all[i] = blocks[i]
  OBVIOUS
<1>2. ASSUME NEW i \in Cached(all) PROVE i \in Cached(blocks)
  BY <1>1 DEF Cached
<1>3. ASSUME NEW i \in Cached(blocks) PROVE i \in Cached(all)
  BY <1>1 DEF Cached
<1>4. QED
  BY <1>2, <1>3

LEMMA PlainType == Plain(Protected) \in Block /\ ~Plain(Protected).cached
BY DEF Plain, Block

(* The body with its constraints, if there are any.                        *)
WithOwn(body, config) == IF config.constraints THEN Constrained(body) ELSE body

(* What a body consists of.                                                *)
HasParts(body) ==
  /\ body = [protocol |-> body.protocol, instructions |-> body.instructions,
             messages |-> body.messages, marks |-> body.marks,
             advised |-> body.advised]
  /\ body.instructions = [form |-> body.instructions.form,
                          blocks |-> body.instructions.blocks]
  /\ body.instructions \in Instructions
  /\ body.instructions.form \in Form /\ body.instructions.blocks \in Seq(Block)
  /\ body.messages \in Seq(Message \cup {Protected})
  /\ body.protocol \in {"openai", "anthropic", "codex"}
  /\ body.marks \in Nat /\ body.advised \in BOOLEAN

LEMMA BodyParts == \A body \in Body : HasParts(body)
BY DEF HasParts, Body, Instructions

(* The constraints, protocol by protocol.                                  *)
OwnBehind(body) ==
  [form |-> "blocks", blocks |-> <<Plain(Protected)>> \o body.instructions.blocks]

OwnBefore(body) ==
  [form |-> body.instructions.form,
   blocks |-> body.instructions.blocks \o <<Plain(Protected)>>]

LEMMA ConstrainedParts ==
  ASSUME NEW body \in Body
  PROVE  /\ body.protocol = "openai" =>
              Constrained(body) = [body EXCEPT !.messages = <<Protected>> \o @]
         /\ body.protocol = "anthropic" =>
              Constrained(body) = [body EXCEPT !.instructions = OwnBehind(body)]
         /\ body.protocol = "codex" =>
              Constrained(body) = [body EXCEPT !.instructions = OwnBefore(body)]
<1>1. HasParts(body)
  BY BodyParts
<1>2. CASE body.protocol = "openai"
  BY <1>2 DEF Constrained
<1>3. CASE body.protocol = "anthropic"
  <2>1. Constrained(body) =
          [body EXCEPT !.instructions.form = "blocks",
                       !.instructions.blocks = <<Plain(Protected)>> \o @]
    BY <1>3 DEF Constrained
  <2>2. QED
    BY <1>1, <1>3, <2>1 DEF HasParts, OwnBehind
<1>4. CASE body.protocol = "codex"
  <2>1. Constrained(body) =
          [body EXCEPT !.instructions.blocks = @ \o <<Plain(Protected)>>]
    BY <1>4 DEF Constrained
  <2>2. QED
    BY <1>1, <1>4, <2>1 DEF HasParts, OwnBefore
<1>5. QED
  BY <1>1, <1>2, <1>3, <1>4 DEF HasParts

(* What WithOwn changes.                                                   *)
LEMMA WithOwnParts ==
  ASSUME NEW body \in Body, NEW config \in Config
  PROVE  /\ WithOwn(body, config).protocol = body.protocol
         /\ WithOwn(body, config).marks = body.marks
         /\ WithOwn(body, config).advised = body.advised
         /\ ~config.constraints => WithOwn(body, config) = body
         /\ config.constraints /\ body.protocol = "openai" =>
              /\ WithOwn(body, config).messages = <<Protected>> \o body.messages
              /\ WithOwn(body, config).instructions = body.instructions
         /\ config.constraints /\ body.protocol = "anthropic" =>
              /\ WithOwn(body, config).messages = body.messages
              /\ WithOwn(body, config).instructions = OwnBehind(body)
         /\ config.constraints /\ body.protocol = "codex" =>
              /\ WithOwn(body, config).messages = body.messages
              /\ WithOwn(body, config).instructions = OwnBefore(body)
<1>1. HasParts(body)
  BY BodyParts
<1>2. CASE ~config.constraints
  BY <1>2 DEF WithOwn
<1>3. CASE config.constraints
  <2>1. WithOwn(body, config) = Constrained(body)
    BY <1>3 DEF WithOwn
  <2>2. CASE body.protocol = "openai"
    <3>1. Constrained(body) = [body EXCEPT !.messages = <<Protected>> \o @]
      BY <2>2, ConstrainedParts
    <3>2. QED
      BY <1>1, <1>3, <2>1, <2>2, <3>1 DEF HasParts
  <2>3. CASE body.protocol = "anthropic"
    <3>1. Constrained(body) = [body EXCEPT !.instructions = OwnBehind(body)]
      BY <2>3, ConstrainedParts
    <3>2. QED
      BY <1>1, <1>3, <2>1, <2>3, <3>1 DEF HasParts
  <2>4. CASE body.protocol = "codex"
    <3>1. Constrained(body) = [body EXCEPT !.instructions = OwnBefore(body)]
      BY <2>4, ConstrainedParts
    <3>2. QED
      BY <1>1, <1>3, <2>1, <2>4, <3>1 DEF HasParts
  <2>5. QED
    BY <1>1, <2>2, <2>3, <2>4 DEF HasParts
<1>4. QED
  BY <1>2, <1>3

LEMMA WithOwnType ==
  ASSUME NEW body \in Body, NEW config \in Config
  PROVE  WithOwn(body, config) \in Body
<1>1. HasParts(body)
  BY BodyParts
<1>2. CASE ~config.constraints
  BY <1>2 DEF WithOwn
<1>3. CASE config.constraints
  <2>1. WithOwn(body, config) = Constrained(body)
    BY <1>3 DEF WithOwn
  <2>2. CASE body.protocol = "openai"
    <3>1. <<Protected>> \o body.messages \in Seq(Message \cup {Protected})
      BY <1>1 DEF HasParts
    <3>2. Constrained(body) = [body EXCEPT !.messages = <<Protected>> \o body.messages]
      BY <2>2, ConstrainedParts
    <3>3. QED
      BY <2>1, <3>1, <3>2 DEF Body
  <2>3. CASE body.protocol = "anthropic"
    <3>1. <<Plain(Protected)>> \o body.instructions.blocks \in Seq(Block)
      BY <1>1, PlainType DEF HasParts
    <3>2. OwnBehind(body) \in Instructions
      BY <3>1 DEF Instructions, Form, OwnBehind
    <3>3. Constrained(body) = [body EXCEPT !.instructions = OwnBehind(body)]
      BY <2>3, ConstrainedParts
    <3>4. QED
      BY <2>1, <3>2, <3>3 DEF Body
  <2>4. CASE body.protocol = "codex"
    <3>1. body.instructions.blocks \o <<Plain(Protected)>> \in Seq(Block)
      BY <1>1, PlainType DEF HasParts
    <3>2. OwnBefore(body) \in Instructions
      BY <1>1, <3>1 DEF HasParts, Instructions, OwnBefore
    <3>3. Constrained(body) = [body EXCEPT !.instructions = OwnBefore(body)]
      BY <2>4, ConstrainedParts
    <3>4. QED
      BY <2>1, <3>2, <3>3 DEF Body
  <2>5. QED
    BY <1>1, <2>2, <2>3, <2>4 DEF HasParts
<1>4. QED
  BY <1>2, <1>3

(* The constraints do not change the number of breakpoints.                *)
LEMMA WithOwnBreakpoints ==
  ASSUME NEW body \in Body, NEW config \in Config
  PROVE  Breakpoints(WithOwn(body, config)) = Breakpoints(body)
<1> DEFINE own == WithOwn(body, config)
           blocks == body.instructions.blocks
<1>1. HasParts(body)
  BY BodyParts
<1>2. blocks \in Seq(Block)
  BY <1>1 DEF HasParts
<1>3. own.marks = body.marks
  BY WithOwnParts
<1>4. Cardinality(Cached(own.instructions.blocks)) = Cardinality(Cached(blocks))
  <2>1. CASE ~config.constraints \/ body.protocol = "openai"
    <3>1. own.instructions = body.instructions
      BY <2>1, WithOwnParts
    <3>2. QED
      BY <3>1
  <2>2. CASE config.constraints /\ body.protocol = "anthropic"
    <3>1. own.instructions = OwnBehind(body)
      BY <2>2, WithOwnParts
    <3>2. own.instructions.blocks = <<Plain(Protected)>> \o blocks
      BY <3>1 DEF OwnBehind
    <3>3. QED
      BY <1>2, <3>2, CachedBehind, PlainType
  <2>3. CASE config.constraints /\ body.protocol = "codex"
    <3>1. own.instructions = OwnBefore(body)
      BY <2>3, WithOwnParts
    <3>2. own.instructions.blocks = blocks \o <<Plain(Protected)>>
      BY <3>1 DEF OwnBefore
    <3>3. QED
      BY <1>2, <3>2, CachedBefore, PlainType
  <2>4. QED
    BY <1>1, <2>1, <2>2, <2>3 DEF HasParts
<1>5. QED
  BY <1>3, <1>4 DEF Breakpoints

(* The instructions with their first block marked.                         *)
FirstMarked(blocks) == [blocks EXCEPT ![1] = [blocks[1] EXCEPT !.cached = TRUE]]

LEMMA FirstMarkedParts ==
  ASSUME NEW blocks \in Seq(Block), blocks # <<>>, ~blocks[1].cached
  PROVE  /\ FirstMarked(blocks) \in Seq(Block)
         /\ Len(FirstMarked(blocks)) = Len(blocks)
         /\ \A i \in 1..Len(blocks) : FirstMarked(blocks)[i].text = blocks[i].text
         /\ Cached(FirstMarked(blocks)) = Cached(blocks) \cup {1}
         /\ Cardinality(Cached(FirstMarked(blocks))) = Cardinality(Cached(blocks)) + 1
<1> DEFINE first == [blocks[1] EXCEPT !.cached = TRUE]
           marked == FirstMarked(blocks)
<1>1. 1 \in DOMAIN blocks /\ blocks[1] \in Block
  OBVIOUS
<1>2. first \in Block /\ first.cached /\ first.text = blocks[1].text
  BY <1>1 DEF Block
<1> HIDE DEF first
<1>3. marked = [blocks EXCEPT ![1] = first]
  BY DEF FirstMarked, first
<1>4. marked \in Seq(Block) /\ Len(marked) = Len(blocks)
  BY <1>1, <1>2, <1>3
<1>5. /\ DOMAIN marked = DOMAIN blocks /\ marked[1] = first
      /\ \A i \in DOMAIN blocks : i # 1 => marked[i] = blocks[i]
  BY <1>1, <1>3
<1> HIDE DEF marked
<1>6. \A i \in 1..Len(blocks) : marked[i].text = blocks[i].text
  BY <1>2, <1>5
<1>7. Cached(marked) = Cached(blocks) \cup {1} /\ 1 \notin Cached(blocks)
  BY <1>1, <1>2, <1>5 DEF Cached
<1>8. Cardinality(Cached(marked)) = Cardinality(Cached(blocks)) + 1
  BY <1>7, CachedType, FS_AddElement
<1>9. QED
  BY <1>4, <1>6, <1>7, <1>8 DEF marked

LEMMA MarkedParts ==
  ASSUME NEW body \in Body, NEW config \in Config
  PROVE  /\ Marked(body, config) \in Body
         /\ Marked(body, config).protocol = body.protocol
         /\ Marked(body, config).messages = body.messages
         /\ Marked(body, config).marks = body.marks
         /\ Marked(body, config).advised = body.advised
         /\ ~MayMark(body, config) => Marked(body, config) = body
         /\ MayMark(body, config) =>
              /\ body.protocol = "anthropic"
              /\ body.instructions.blocks # <<>>
              /\ ~body.instructions.blocks[1].cached
              /\ Marked(body, config).instructions =
                   [form |-> "blocks", blocks |-> FirstMarked(body.instructions.blocks)]
<1>1. HasParts(body)
  BY BodyParts
<1>2. CASE ~MayMark(body, config)
  BY <1>2 DEF Marked
<1>3. CASE MayMark(body, config)
  <2> DEFINE blocks == body.instructions.blocks
             marked == [form |-> "blocks", blocks |-> FirstMarked(blocks)]
  <2>1. blocks \in Seq(Block) /\ blocks # <<>> /\ body.protocol = "anthropic"
    BY <1>1, <1>3 DEF HasParts, MayMark
  <2>2. ~blocks[1].cached
    BY <1>3, <2>1 DEF MayMark
  <2>3. FirstMarked(blocks) \in Seq(Block)
    BY <2>1, <2>2, FirstMarkedParts
  <2>4. marked \in Instructions
    BY <2>3 DEF Instructions, Form
  <2>5. Marked(body, config) =
          [body EXCEPT !.instructions.form = "blocks",
                       !.instructions.blocks[1].cached = TRUE]
    BY <1>3 DEF Marked
  <2>6. Marked(body, config) = [body EXCEPT !.instructions = marked]
    <3>1. body.instructions = [form |-> body.instructions.form, blocks |-> blocks]
      BY <1>1 DEF HasParts
    <3>2. DOMAIN body = {"protocol", "instructions", "messages", "marks", "advised"}
      BY DEF Body
    <3>3. DOMAIN body.instructions = {"form", "blocks"}
      BY <3>1
    <3>4. [body.instructions EXCEPT !.form = "blocks", !.blocks[1].cached = TRUE] = marked
      <4> DEFINE form == [body.instructions EXCEPT !.form = "blocks"]
      <4>1. form = [form |-> "blocks", blocks |-> blocks]
        BY <3>1
      <4>2. [body.instructions EXCEPT !.form = "blocks", !.blocks[1].cached = TRUE] =
              [form EXCEPT !.blocks[1].cached = TRUE]
        BY <3>1
      <4> HIDE DEF form
      <4>3. [form EXCEPT !.blocks[1].cached = TRUE] =
              [form EXCEPT !.blocks = FirstMarked(form.blocks)]
        BY <4>1 DEF FirstMarked
      <4>4. QED
        BY <4>1, <4>2, <4>3
    <3>5. Marked(body, config) =
            [body EXCEPT !.instructions =
               [body.instructions EXCEPT !.form = "blocks", !.blocks[1].cached = TRUE]]
      BY <2>5, <3>2, <3>3
    <3>6. QED
      BY <3>4, <3>5
  <2> HIDE DEF marked
  <2>7. Marked(body, config) \in Body
    BY <2>4, <2>6 DEF Body
  <2>8. /\ Marked(body, config).protocol = body.protocol
        /\ Marked(body, config).messages = body.messages
        /\ Marked(body, config).marks = body.marks
        /\ Marked(body, config).advised = body.advised
        /\ Marked(body, config).instructions = marked
    BY <1>1, <2>6 DEF HasParts
  <2>9. QED
    BY <1>3, <2>1, <2>2, <2>7, <2>8 DEF marked
<1>4. QED
  BY <1>2, <1>3

LEMMA MarkedBreakpoints ==
  ASSUME NEW body \in Body, NEW config \in Config, MayMark(body, config)
  PROVE  /\ Breakpoints(Marked(body, config)) = Breakpoints(body) + 1
         /\ Breakpoints(body) + 1 <= Limit
<1> DEFINE blocks == body.instructions.blocks
<1>1. HasParts(body)
  BY BodyParts
<1>2. blocks \in Seq(Block) /\ body.marks \in Nat
  BY <1>1 DEF HasParts
<1>3. /\ blocks # <<>> /\ ~blocks[1].cached
      /\ Marked(body, config).instructions.blocks = FirstMarked(blocks)
      /\ Marked(body, config).marks = body.marks
  <2>1. /\ blocks # <<>> /\ ~blocks[1].cached
        /\ Marked(body, config).instructions =
             [form |-> "blocks", blocks |-> FirstMarked(blocks)]
        /\ Marked(body, config).marks = body.marks
    BY MarkedParts, Zenon
  <2>2. QED
    BY <2>1
<1>4. Cardinality(Cached(FirstMarked(blocks))) = Cardinality(Cached(blocks)) + 1
  BY <1>2, <1>3, FirstMarkedParts
<1>5. Cardinality(Cached(blocks)) \in Nat
  BY <1>2, CachedType
<1>6. Breakpoints(Marked(body, config)) = Breakpoints(body) + 1
  BY <1>2, <1>3, <1>4, <1>5 DEF Breakpoints
<1>7. Breakpoints(body) \in Nat /\ Breakpoints(body) < Limit
  BY BreakpointsType DEF MayMark
<1>8. QED
  BY <1>6, <1>7 DEF Limit

LEMMA ShapedParts ==
  ASSUME NEW body \in Body, NEW config \in Config
  PROVE  /\ Shaped(body, config) = Marked(WithOwn(body, config), config)
         /\ Shaped(body, config) \in Body
         /\ Shaped(body, config).protocol = body.protocol
         /\ Shaped(body, config).marks = body.marks
         /\ Shaped(body, config).advised = body.advised
<1>1. Shaped(body, config) = Marked(WithOwn(body, config), config)
  BY DEF Shaped, WithOwn
<1>2. WithOwn(body, config) \in Body
  BY WithOwnType
<1>3. /\ Marked(WithOwn(body, config), config) \in Body
      /\ Marked(WithOwn(body, config), config).protocol = WithOwn(body, config).protocol
      /\ Marked(WithOwn(body, config), config).marks = WithOwn(body, config).marks
      /\ Marked(WithOwn(body, config), config).advised = WithOwn(body, config).advised
  BY <1>2, MarkedParts
<1>4. /\ WithOwn(body, config).protocol = body.protocol
      /\ WithOwn(body, config).marks = body.marks
      /\ WithOwn(body, config).advised = body.advised
  BY WithOwnParts
<1>5. QED
  BY <1>1, <1>3, <1>4

LEMMA TextsType ==
  ASSUME NEW body \in Body
  PROVE  /\ Texts(body) \in Seq(Text \cup {Protected})
         /\ Len(Texts(body)) = Len(body.instructions.blocks)
         /\ \A i \in 1..Len(body.instructions.blocks) :
              Texts(body)[i] = body.instructions.blocks[i].text
<1> DEFINE blocks == body.instructions.blocks
<1>1. HasParts(body)
  BY BodyParts
<1>2. blocks \in Seq(Block)
  BY <1>1 DEF HasParts
<1>3. \A i \in 1..Len(blocks) : blocks[i].text \in Text \cup {Protected}
  <2>1. \A block \in Block : block.text \in Text \cup {Protected}
    BY DEF Block
  <2>2. \A i \in 1..Len(blocks) : blocks[i] \in Block
    BY <1>2
  <2>3. QED
    BY <2>1, <2>2
<1>4. Texts(body) = [i \in 1..Len(blocks) |-> blocks[i].text]
  BY <1>2 DEF Texts
<1> HIDE DEF blocks
<1>5. /\ Texts(body) \in Seq(Text \cup {Protected})
      /\ Len(Texts(body)) = Len(blocks)
      /\ \A i \in 1..Len(blocks) : Texts(body)[i] = blocks[i].text
  BY <1>2, <1>3, <1>4
<1>6. QED
  BY <1>5 DEF blocks

LEMMA MarkedTexts ==
  ASSUME NEW body \in Body, NEW config \in Config
  PROVE  Texts(Marked(body, config)) = Texts(body)
<1> DEFINE blocks == body.instructions.blocks
<1>1. blocks \in Seq(Block)
  BY BodyParts DEF HasParts
<1>2. CASE ~MayMark(body, config)
  <2>1. Marked(body, config) = body
    BY <1>2, MarkedParts, Zenon
  <2>2. QED
    BY <2>1
<1>3. CASE MayMark(body, config)
  <2>1. /\ blocks # <<>> /\ ~blocks[1].cached
        /\ Marked(body, config).instructions =
             [form |-> "blocks", blocks |-> FirstMarked(blocks)]
    BY <1>3, MarkedParts, Zenon
  <2>2. Marked(body, config).instructions.blocks = FirstMarked(blocks)
    BY <2>1
  <2>3. /\ FirstMarked(blocks) \in Seq(Block)
        /\ Len(FirstMarked(blocks)) = Len(blocks)
        /\ \A i \in 1..Len(blocks) : FirstMarked(blocks)[i].text = blocks[i].text
    BY <1>1, <2>1, FirstMarkedParts
  <2>4. DOMAIN FirstMarked(blocks) = 1..Len(blocks) /\ DOMAIN blocks = 1..Len(blocks)
    BY <1>1, <2>3
  <2>5. QED
    BY <2>2, <2>3, <2>4 DEF Texts
<1>4. QED
  BY <1>2, <1>3

(* The constraints' text stands before or behind what the client wrote.    *)
Owned(config) == IF config.constraints THEN <<Protected>> ELSE <<>>

LEMMA WithOwnTexts ==
  ASSUME NEW body \in Body, NEW config \in Config
  PROVE  /\ body.protocol = "openai" => Texts(WithOwn(body, config)) = Texts(body)
         /\ body.protocol = "anthropic" =>
              Texts(WithOwn(body, config)) = Owned(config) \o Texts(body)
         /\ body.protocol = "codex" =>
              Texts(WithOwn(body, config)) = Texts(body) \o Owned(config)
<1> DEFINE with == WithOwn(body, config)
           blocks == body.instructions.blocks
<1>1. blocks \in Seq(Block)
  BY BodyParts DEF HasParts
<1>2. with \in Body
  BY WithOwnType
<1>3. /\ Texts(body) \in Seq(Text \cup {Protected})
      /\ Len(Texts(body)) = Len(blocks)
      /\ \A i \in 1..Len(blocks) : Texts(body)[i] = blocks[i].text
  BY TextsType
<1>4. /\ Texts(with) \in Seq(Text \cup {Protected})
      /\ Len(Texts(with)) = Len(with.instructions.blocks)
      /\ \A i \in 1..Len(with.instructions.blocks) :
           Texts(with)[i] = with.instructions.blocks[i].text
  BY <1>2, TextsType
<1>5. CASE ~config.constraints
  <2>1. with = body
    BY <1>5, WithOwnParts
  <2>2. QED
    BY <1>3, <1>5, <2>1 DEF Owned
<1>6. CASE config.constraints
  <2> DEFINE own == Plain(Protected)
  <2>1. own \in Block /\ own.text = Protected
    BY PlainType DEF Plain
  <2> HIDE DEF own
  <2>2. CASE body.protocol = "openai"
    <3>1. with.instructions = body.instructions
      BY <1>6, <2>2, WithOwnParts
    <3>2. QED
      BY <2>2, <3>1 DEF Texts
  <2>3. CASE body.protocol = "anthropic"
    <3>1. with.instructions = OwnBehind(body)
      BY <1>6, <2>3, WithOwnParts
    <3>2. with.instructions.blocks = <<own>> \o blocks
      BY <3>1 DEF OwnBehind, own
    <3> HIDE DEF with, blocks
    <3>3. /\ Len(with.instructions.blocks) = Len(blocks) + 1
          /\ with.instructions.blocks[1] = own
          /\ \A i \in 1..Len(blocks) : with.instructions.blocks[i + 1] = blocks[i]
      BY <1>1, <2>1, <3>2
    <3>4. Texts(with) = <<Protected>> \o Texts(body)
      <4> DEFINE right == <<Protected>> \o Texts(body)
      <4>1. /\ right \in Seq(Text \cup {Protected}) /\ Len(right) = Len(blocks) + 1
            /\ right[1] = Protected
            /\ \A i \in 1..Len(blocks) : right[i + 1] = Texts(body)[i]
        BY <1>3
      <4>2. ASSUME NEW i \in 1..Len(blocks) + 1 PROVE Texts(with)[i] = right[i]
        <5>1. CASE i = 1
          BY <5>1, <1>1, <1>4, <2>1, <3>3, <4>1
        <5>2. CASE i # 1
          <6>1. i - 1 \in 1..Len(blocks) /\ (i - 1) + 1 = i
            BY <1>1, <5>2
          <6>2. right[i] = blocks[i - 1].text
            BY <1>3, <4>1, <6>1
          <6>3. Texts(with)[i] = blocks[i - 1].text
            BY <1>4, <3>3, <6>1
          <6>4. QED
            BY <6>2, <6>3
        <5>3. QED
          BY <5>1, <5>2
      <4> HIDE DEF right
      <4>3. Texts(with) = right
        BY <1>4, <3>3, <4>1, <4>2
      <4>4. QED
        BY <4>3 DEF right
    <3>5. QED
      BY <1>6, <2>3, <3>4 DEF Owned, with
  <2>4. CASE body.protocol = "codex"
    <3>1. with.instructions = OwnBefore(body)
      BY <1>6, <2>4, WithOwnParts
    <3>2. with.instructions.blocks = blocks \o <<own>>
      BY <3>1 DEF OwnBefore, own
    <3> HIDE DEF with, blocks
    <3>3. /\ Len(with.instructions.blocks) = Len(blocks) + 1
          /\ with.instructions.blocks[Len(blocks) + 1] = own
          /\ \A i \in 1..Len(blocks) : with.instructions.blocks[i] = blocks[i]
      BY <1>1, <2>1, <3>2
    <3>4. Texts(with) = Texts(body) \o <<Protected>>
      <4> DEFINE right == Texts(body) \o <<Protected>>
      <4>1. /\ right \in Seq(Text \cup {Protected}) /\ Len(right) = Len(blocks) + 1
            /\ right[Len(blocks) + 1] = Protected
            /\ \A i \in 1..Len(blocks) : right[i] = Texts(body)[i]
        BY <1>3
      <4>2. ASSUME NEW i \in 1..Len(blocks) + 1 PROVE Texts(with)[i] = right[i]
        <5>1. CASE i = Len(blocks) + 1
          BY <5>1, <1>1, <1>4, <2>1, <3>3, <4>1
        <5>2. CASE i # Len(blocks) + 1
          <6>1. i \in 1..Len(blocks)
            BY <1>1, <5>2
          <6>2. QED
            BY <1>3, <1>4, <3>3, <4>1, <6>1
        <5>3. QED
          BY <5>1, <5>2
      <4> HIDE DEF right
      <4>3. Texts(with) = right
        BY <1>4, <3>3, <4>1, <4>2
      <4>4. QED
        BY <4>3 DEF right
    <3>5. QED
      BY <1>6, <2>4, <3>4 DEF Owned, with
  <2>5. QED
    BY <2>2, <2>3, <2>4, BodyParts DEF HasParts
<1>7. QED
  BY <1>5, <1>6

LEMMA MarkedKeeps ==
  ASSUME NEW body \in Body, NEW config \in Config
  PROVE  Cached(body.instructions.blocks) \subseteq
           Cached(Marked(body, config).instructions.blocks)
<1> DEFINE blocks == body.instructions.blocks
<1>1. CASE ~MayMark(body, config)
  <2>1. Marked(body, config) = body
    BY <1>1, MarkedParts, Zenon
  <2>2. QED
    BY <2>1
<1>2. CASE MayMark(body, config)
  <2>1. /\ blocks # <<>> /\ ~blocks[1].cached
        /\ Marked(body, config).instructions =
             [form |-> "blocks", blocks |-> FirstMarked(blocks)]
    BY <1>2, MarkedParts, Zenon
  <2>2. Cached(FirstMarked(blocks)) = Cached(blocks) \cup {1}
    BY <2>1, FirstMarkedParts, BodyParts DEF HasParts
  <2>3. QED
    BY <2>1, <2>2
<1>3. QED
  BY <1>1, <1>2

(* The client's own marks stay where its blocks went.                      *)
LEMMA ShapedKeepsMarks ==
  ASSUME NEW body \in Body, NEW config \in Config, body.protocol = "anthropic",
         NEW i \in Cached(body.instructions.blocks)
  PROVE  Shaped(body, config).instructions.blocks[i + Len(Owned(config))].cached
<1> DEFINE with == WithOwn(body, config)
           blocks == body.instructions.blocks
<1>1. blocks \in Seq(Block) /\ i \in Nat
  <2>1. blocks \in Seq(Block)
    BY BodyParts DEF HasParts
  <2>2. QED
    BY <2>1, CachedType
<1>2. i + Len(Owned(config)) \in Cached(with.instructions.blocks)
  <2>1. CASE ~config.constraints
    <3>1. with = body /\ Len(Owned(config)) = 0
      BY <2>1, WithOwnParts DEF Owned
    <3>2. QED
      BY <1>1, <3>1
  <2>2. CASE config.constraints
    <3>1. with.instructions = OwnBehind(body)
      BY <2>2, WithOwnParts
    <3>2. with.instructions.blocks = <<Plain(Protected)>> \o blocks
      BY <3>1 DEF OwnBehind
    <3>3. Len(Owned(config)) = 1
      BY <2>2 DEF Owned
    <3>4. Cached(with.instructions.blocks) = {j + 1 : j \in Cached(blocks)}
      BY <1>1, <3>2, CachedBehind, PlainType
    <3>5. QED
      BY <3>3, <3>4
  <2>3. QED
    BY <2>1, <2>2
<1>3. Shaped(body, config) = Marked(with, config) /\ with \in Body
  BY ShapedParts, WithOwnType
<1>4. i + Len(Owned(config)) \in Cached(Shaped(body, config).instructions.blocks)
  BY <1>2, <1>3, MarkedKeeps
<1>5. QED
  BY <1>4 DEF Cached

(* What is sent says what was asked, with the constraints in their place   *)
(* and at most one more breakpoint, within the limit.                      *)
LEMMA ShapedIntact ==
  ASSUME NEW body \in Body, NEW config \in Config
  PROVE  Intact(Shaped(body, config), body, config)
<1> DEFINE sent == Shaped(body, config)
           with == WithOwn(body, config)
<1>1. sent = Marked(with, config) /\ with \in Body /\ sent.marks = body.marks
  BY ShapedParts, WithOwnType
<1>2. Texts(sent) = Texts(with) /\ sent.messages = with.messages
  <2>1. Texts(Marked(with, config)) = Texts(with)
    BY <1>1, MarkedTexts
  <2>2. Marked(with, config).messages = with.messages
    BY <1>1, MarkedParts
  <2>3. QED
    BY <1>1, <2>1, <2>2
<1>3. /\ body.protocol = "openai" => with.messages = Owned(config) \o body.messages
      /\ body.protocol # "openai" => with.messages = body.messages
  <2>1. /\ body.protocol \in {"openai", "anthropic", "codex"}
        /\ body.messages \in Seq(Message \cup {Protected})
    BY BodyParts DEF HasParts
  <2>2. CASE config.constraints
    BY <2>1, <2>2, WithOwnParts DEF Owned
  <2>3. CASE ~config.constraints
    BY <2>1, <2>3, WithOwnParts DEF Owned
  <2>4. QED
    BY <2>2, <2>3
<1>4. /\ body.protocol = "openai" => Texts(with) = Texts(body)
      /\ body.protocol = "anthropic" => Texts(with) = Owned(config) \o Texts(body)
      /\ body.protocol = "codex" => Texts(with) = Texts(body) \o Owned(config)
  BY WithOwnTexts
<1>5. body.protocol = "anthropic" =>
        \A i \in Cached(body.instructions.blocks) :
          sent.instructions.blocks[i + (Len(Texts(sent)) - Len(Texts(body)))].cached
  <2>1. SUFFICES ASSUME body.protocol = "anthropic",
                        NEW i \in Cached(body.instructions.blocks)
                 PROVE  sent.instructions.blocks
                          [i + (Len(Texts(sent)) - Len(Texts(body)))].cached
    OBVIOUS
  <2>2. Texts(sent) = Owned(config) \o Texts(body)
    BY <1>2, <1>4, <2>1
  <2>3. Texts(body) \in Seq(Text \cup {Protected})
    BY TextsType
  <2>4. Owned(config) \in Seq({Protected})
    <3>1. <<Protected>> \in Seq({Protected}) /\ <<>> \in Seq({Protected})
      OBVIOUS
    <3>2. QED
      BY <3>1 DEF Owned
  <2> DEFINE before == Texts(body)
             own == Owned(config)
  <2> HIDE DEF before, own
  <2>5. Len(Texts(sent)) - Len(Texts(body)) = Len(Owned(config))
    <3>1. own \in Seq({Protected}) /\ before \in Seq(Text \cup {Protected})
      BY <2>3, <2>4 DEF before, own
    <3>2. Len(own \o before) - Len(before) = Len(own)
      BY <3>1
    <3>3. QED
      BY <2>2, <3>2 DEF before, own
  <2>6. sent.instructions.blocks[i + Len(Owned(config))].cached
    BY <2>1, ShapedKeepsMarks
  <2>7. QED
    BY <2>5, <2>6
<1>6. \/ Breakpoints(sent) = Breakpoints(body)
      \/ Breakpoints(sent) = Breakpoints(body) + 1 /\ Breakpoints(sent) <= Limit
  <2>1. Breakpoints(with) = Breakpoints(body)
    BY WithOwnBreakpoints
  <2>2. CASE MayMark(with, config)
    <3>1. /\ Breakpoints(Marked(with, config)) = Breakpoints(with) + 1
          /\ Breakpoints(with) + 1 <= Limit
      BY <1>1, <2>2, MarkedBreakpoints
    <3>2. QED
      BY <1>1, <2>1, <3>1
  <2>3. CASE ~MayMark(with, config)
    <3>1. Marked(with, config) = with
      BY <1>1, <2>3, MarkedParts, Zenon
    <3>2. QED
      BY <1>1, <2>1, <3>1
  <2>4. QED
    BY <2>2, <2>3
<1> HIDE DEF sent, with
<1>7. QED
  <2>1. body.protocol \in {"openai", "anthropic", "codex"}
    BY BodyParts DEF HasParts
  <2>2. CASE body.protocol = "openai"
    BY <2>2, <1>1, <1>2, <1>3, <1>4, <1>6 DEF Intact, Owned, sent
  <2>3. CASE body.protocol = "anthropic"
    BY <2>3, <1>1, <1>2, <1>3, <1>4, <1>5, <1>6 DEF Intact, Owned, sent
  <2>4. CASE body.protocol = "codex"
    BY <2>4, <1>1, <1>2, <1>3, <1>4, <1>6 DEF Intact, Owned, sent
  <2>5. QED
    BY <2>1, <2>2, <2>3, <2>4

(* Bodies with the same instructions and a slot left are sent with the     *)
(* same instructions, whatever their messages.                             *)
LEMMA ShapedStable ==
  ASSUME NEW body \in Body, NEW other \in Body, NEW config \in Config,
         body.protocol = other.protocol, body.instructions = other.instructions,
         Breakpoints(body) < Limit, Breakpoints(other) < Limit
  PROVE  Shaped(body, config).instructions = Shaped(other, config).instructions
<1> DEFINE b == WithOwn(body, config)
           o == WithOwn(other, config)
<1>1. b \in Body /\ o \in Body
  BY WithOwnType
<1>2. b.protocol = o.protocol /\ b.instructions = o.instructions
  <2>1. b.protocol = body.protocol /\ o.protocol = other.protocol
    BY WithOwnParts
  <2>2. b.instructions = o.instructions
    <3>1. CASE ~config.constraints
      <4>1. b = body /\ o = other
        BY <3>1, WithOwnParts
      <4>2. QED
        BY <4>1
    <3>2. CASE config.constraints /\ body.protocol = "openai"
      <4>1. b.instructions = body.instructions /\ o.instructions = other.instructions
        BY <3>2, WithOwnParts
      <4>2. QED
        BY <4>1
    <3>3. CASE config.constraints /\ body.protocol = "anthropic"
      <4>1. b.instructions = OwnBehind(body) /\ o.instructions = OwnBehind(other)
        BY <3>3, WithOwnParts
      <4>2. QED
        BY <4>1 DEF OwnBehind
    <3>4. CASE config.constraints /\ body.protocol = "codex"
      <4>1. b.instructions = OwnBefore(body) /\ o.instructions = OwnBefore(other)
        BY <3>4, WithOwnParts
      <4>2. QED
        BY <4>1 DEF OwnBefore
    <3>5. QED
      BY <3>1, <3>2, <3>3, <3>4, BodyParts DEF HasParts
  <2>3. QED
    BY <2>1, <2>2
<1>3. Breakpoints(b) < Limit /\ Breakpoints(o) < Limit
  BY WithOwnBreakpoints
<1> HIDE DEF b, o
<1>4. MayMark(b, config) <=> MayMark(o, config)
  BY <1>2, <1>3 DEF MayMark
<1>5. Marked(b, config).instructions = Marked(o, config).instructions
  <2>1. CASE MayMark(b, config)
    <3>1. /\ Marked(b, config).instructions =
               [form |-> "blocks", blocks |-> FirstMarked(b.instructions.blocks)]
          /\ Marked(o, config).instructions =
               [form |-> "blocks", blocks |-> FirstMarked(o.instructions.blocks)]
      BY <1>1, <1>4, <2>1, MarkedParts, Zenon
    <3>2. QED
      BY <1>2, <3>1
  <2>2. CASE ~MayMark(b, config)
    <3>1. Marked(b, config) = b /\ Marked(o, config) = o
      BY <1>1, <1>4, <2>2, MarkedParts, Zenon
    <3>2. QED
      BY <1>2, <3>1
  <2>3. QED
    BY <2>1, <2>2
<1>6. QED
  BY <1>5, ShapedParts DEF b, o

----------------------------------------------------------------------------
(* What a request carries *)

(* The parts of the invariant that speak of one request.                   *)
Carried(r, x, given, reserved, config) ==
  /\ x.asked \in Asked
  /\ x.sent = [Shaped(x.asked, x.config) EXCEPT !.advised = x.sent.advised]
  /\ x.pc = "shaped" =>
       ~x.sent.advised /\ x.config = config /\ x.asked.protocol # "codex"
  /\ IF x.asked.protocol = "codex" THEN x.grant = Nowhere
     ELSE x.grant \in given /\ x.grant.req = r /\ x.grant.history = x.asked.messages
  /\ x.sent.advised =>
       /\ x.asked.protocol # "codex" /\ x.grant \in reserved
       /\ Registry!IsConversationStart(x.asked.messages)
       /\ InjectionEnabled(x.config)

Carrying ==
  /\ \A g \in grants : g.turn # NoTurn
  /\ \A r \in Request :
       op[r] # New => Carried(r, op[r], grants, advised, setup.config)

LEMMA CarryingSame == Carrying <=> SentShaped /\ GrantsOwn /\ AdvisedEarned
BY DEF Carrying, Carried, SentShaped, GrantsOwn, AdvisedEarned, GrantOf, Starts

LEMMA CarryingNext == Carrying' <=> SentShaped' /\ GrantsOwn' /\ AdvisedEarned'
BY CarryingSame, PTL

LEMMA HandlingParts ==
  ASSUME NEW x \in Handling
  PROVE  /\ x # New /\ x.pc # "new"
         /\ x.pc \in InFlight \cup {"refused", "answered", "failed"}
         /\ x.asked \in Body /\ x.sent \in Body /\ x.config \in Config
         /\ x.grant \in Identity /\ x.state \in States
         /\ x.landed \subseteq {"user", "cost", "answer", "health"}
<1>1. /\ x.pc \in InFlight \cup {"refused", "answered", "failed"}
      /\ x.asked \in Body /\ x.sent \in Body /\ x.config \in Config
      /\ x.grant \in Identity /\ x.state \in States
      /\ x.landed \subseteq {"user", "cost", "answer", "health"}
  BY DEF Handling
<1>2. x.pc # "new"
  BY <1>1 DEF InFlight
<1>3. New.pc = "new"
  BY DEF New
<1>4. QED
  BY <1>1, <1>2, <1>3

LEMMA NotNew ==
  ASSUME TypeOK, NEW r \in Request
  PROVE  /\ op[r] # New <=> op[r] \in Handling
         /\ op[r].pc # "new" => op[r] \in Handling
<1>1. op[r] = New \/ op[r] \in Handling
  BY DEF TypeOK
<1>2. New.pc = "new"
  BY DEF New
<1>3. QED
  BY <1>1, <1>2, HandlingParts

(* One request goes on with the record x, while the registry only grants.  *)
LEMMA OneRequest ==
  ASSUME TypeOK, Carrying, NEW r \in Request, NEW x \in Handling,
         op' = [op EXCEPT ![r] = x], epoch' = epoch,
         grants \subseteq grants', advised \subseteq advised',
         \A g \in grants' : g.turn # NoTurn,
         Carried(r, x, grants', advised', setup.config)
  PROVE  /\ op' \in [Request -> {New} \cup Handling]
         /\ op'[r] = x /\ \A q \in Request : q # r => op'[q] = op[q]
         /\ Carrying'
<1>1. op' \in [Request -> {New} \cup Handling]
  BY DEF TypeOK
<1>2. op'[r] = x /\ \A q \in Request : q # r => op'[q] = op[q]
  BY DEF TypeOK
<1>3. setup' = setup
  BY DEF setup
<1>4. ASSUME NEW q \in Request, op'[q] # New
      PROVE  Carried(q, op'[q], grants', advised', setup'.config)
  <2>1. CASE q = r
    BY <1>2, <1>3, <2>1
  <2>2. CASE q # r
    <3>1. op'[q] = op[q] /\ Carried(q, op[q], grants, advised, setup.config)
      BY <1>2, <1>4, <2>2 DEF Carrying
    <3>2. QED
      BY <1>3, <3>1 DEF Carried
  <2>3. QED
    BY <2>1, <2>2
<1>5. Carrying'
  BY <1>4 DEF Carrying
<1>6. QED
  BY <1>1, <1>2, <1>5

(* A ledger after an append that may have failed.                          *)
LEMMA Appended ==
  ASSUME NEW S, NEW ledger \in Seq(S), NEW name, NEW landed, NEW row,
         name \in landed => row \in S
  PROVE  /\ With(ledger, name, row, landed) \in Seq(S)
         /\ \A i \in DOMAIN ledger :
              /\ i \in DOMAIN With(ledger, name, row, landed)
              /\ With(ledger, name, row, landed)[i] = ledger[i]
         /\ \A i \in DOMAIN With(ledger, name, row, landed) \ DOMAIN ledger :
              name \in landed /\ With(ledger, name, row, landed)[i] = row
         /\ name \in landed =>
              \E i \in DOMAIN With(ledger, name, row, landed) :
                With(ledger, name, row, landed)[i] = row
<1>1. CASE name \in landed
  <2>1. With(ledger, name, row, landed) = Append(ledger, row) /\ row \in S
    BY <1>1 DEF With
  <2>2. /\ Append(ledger, row) \in Seq(S)
        /\ DOMAIN Append(ledger, row) = 1..Len(ledger) + 1
        /\ DOMAIN ledger = 1..Len(ledger) /\ Len(ledger) \in Nat
        /\ \A i \in 1..Len(ledger) : Append(ledger, row)[i] = ledger[i]
        /\ Append(ledger, row)[Len(ledger) + 1] = row
    BY <2>1
  <2>3. QED
    BY <1>1, <2>1, <2>2
<1>2. CASE name \notin landed
  <2>1. With(ledger, name, row, landed) = ledger
    BY <1>2 DEF With
  <2>2. QED
    BY <1>2, <2>1
<1>3. QED
  BY <1>1, <1>2

LEMMA LedgerGrows ==
  ASSUME NEW S, NEW ledger \in Seq(S), NEW new, NEW name, NEW landed, NEW row \in S,
         new = With(ledger, name, row, landed)
  PROVE  /\ new \in Seq(S)
         /\ \A i \in DOMAIN ledger : i \in DOMAIN new /\ new[i] = ledger[i]
         /\ \A i \in DOMAIN new \ DOMAIN ledger : new[i] = row
BY Appended

LEMMA SetupType ==
  ASSUME Registry!TypeOK, epoch <= MaxEpoch
  PROVE  setup.version \in STRING /\ setup.config \in Config
<1>1. epoch \in 0..MaxEpoch
  BY EvidenceAssumption DEF Registry!TypeOK
<1>2. setup \in [version : STRING, config : Config]
  BY <1>1, EvidenceAssumption DEF setup
<1>3. QED
  BY <1>2

(* A handler starts with what it was asked, in its shape.                  *)
LEMMA HandledCarried ==
  ASSUME Registry!TypeOK, epoch <= MaxEpoch, NEW r, NEW body \in Asked,
         NEW grant \in Identity, NEW pc \in InFlight, NEW given, NEW reserved,
         pc = "shaped" => body.protocol # "codex",
         IF body.protocol = "codex" THEN grant = Nowhere
         ELSE grant \in given /\ grant.req = r /\ grant.history = body.messages
  PROVE  /\ Handled(body, grant, pc) \in Handling
         /\ Carried(r, Handled(body, grant, pc), given, reserved, setup.config)
         /\ Handled(body, grant, pc).landed = {}
         /\ ~Handled(body, grant, pc).sent.advised
<1> DEFINE x == Handled(body, grant, pc)
           sent == Shaped(body, setup.config)
<1>1. body \in Body /\ ~body.advised /\ setup.config \in Config
  BY EvidenceAssumption, SetupType
<1>2. sent \in Body /\ sent.advised = body.advised
  BY <1>1, ShapedParts
<1>3. sent = [sent EXCEPT !.advised = sent.advised]
  BY <1>2 DEF Body
<1>4. /\ x.asked = body /\ x.sent = sent /\ x.grant = grant
      /\ x.config = setup.config /\ x.landed = {} /\ x.pc \in {"refused", pc}
      /\ x.state = None
  BY DEF Handled
<1>5. x \in Handling
  <2>1. (IF Refused(body, setup.config) THEN "refused" ELSE pc)
          \in InFlight \cup {"refused", "answered", "failed"}
    OBVIOUS
  <2>2. None \in States
    BY DEF States
  <2> HIDE DEF sent
  <2>3. QED
    BY <1>1, <1>2, <2>1, <2>2 DEF Handling, Handled, sent
<1> HIDE DEF x, sent
<1>6. ~x.sent.advised
  BY <1>1, <1>2, <1>4
<1>7. x.pc = "shaped" => body.protocol # "codex"
  BY <1>4 
<1>8. Carried(r, x, given, reserved, setup.config)
  BY <1>3, <1>4, <1>6, <1>7 DEF Carried, sent
<1>9. QED
  BY <1>4, <1>5, <1>6, <1>8 DEF x

(* What this proxy has added to the ledgers.                               *)
RowsTyped ==
  /\ \A i \in DOMAIN transcript \ DOMAIN Old.transcript :
       transcript[i] \in Rowed(Nat \ {NoTurn}) /\ transcript[i].state \in States
  /\ \A i \in DOMAIN costs \ DOMAIN Old.costs :
       costs[i] \in [id : Registry!SessionId, turn : Nat \ {NoTurn}]
  /\ \A i \in DOMAIN health \ DOMAIN Old.health :
       health[i].version \in {Setups[e].version : e \in 0..epoch}

OpTyped == op \in [Request -> {New} \cup Handling]

EpochBound == epoch <= MaxEpoch

LEMMA TypeSame == TypeOK <=> Registry!TypeOK /\ OpTyped /\ RowsTyped
BY DEF TypeOK, OpTyped, RowsTyped

(* Rows that are well typed may be appended.                               *)
LEMMA LedgersGrow ==
  ASSUME RowsTyped, LedgersKept, Registry!TypeOK, Registry!TypeOK', epoch <= epoch',
         transcript' \in Seq(Rowed(Nat)),
         costs' \in Seq(Costed),
         health' \in Seq(Measured),
         \A i \in DOMAIN transcript : i \in DOMAIN transcript' /\ transcript'[i] = transcript[i],
         \A i \in DOMAIN costs : i \in DOMAIN costs' /\ costs'[i] = costs[i],
         \A i \in DOMAIN health : i \in DOMAIN health' /\ health'[i] = health[i],
         \A i \in DOMAIN transcript' \ DOMAIN transcript :
           transcript'[i] \in Rowed(Nat \ {NoTurn}) /\ transcript'[i].state \in States,
         \A i \in DOMAIN costs' \ DOMAIN costs :
           costs'[i] \in [id : Registry!SessionId, turn : Nat \ {NoTurn}],
         \A i \in DOMAIN health' \ DOMAIN health :
           health'[i].version \in {Setups[e].version : e \in 0..epoch'}
  PROVE  RowsTyped' /\ LedgersKept'
<1>1. epoch \in Nat /\ epoch' \in Nat
  BY DEF Registry!TypeOK
<1>2. {Setups[e].version : e \in 0..epoch} \subseteq {Setups[e].version : e \in 0..epoch'}
  <2>1. \A e \in 0..epoch : e \in 0..epoch'
    BY <1>1
  <2>2. QED
    BY <2>1
<1>3. RowsTyped'
  <2>1. ASSUME NEW i \in DOMAIN transcript' \ DOMAIN Old.transcript
        PROVE  transcript'[i] \in Rowed(Nat \ {NoTurn}) /\ transcript'[i].state \in States
    BY <2>1 DEF RowsTyped
  <2>2. ASSUME NEW i \in DOMAIN costs' \ DOMAIN Old.costs
        PROVE  costs'[i] \in [id : Registry!SessionId, turn : Nat \ {NoTurn}]
    BY <2>2 DEF RowsTyped
  <2>3. ASSUME NEW i \in DOMAIN health' \ DOMAIN Old.health
        PROVE  health'[i].version \in {Setups[e].version : e \in 0..epoch'}
    BY <1>2, <2>3 DEF RowsTyped
  <2>4. QED
    BY <2>1, <2>2, <2>3 DEF RowsTyped
<1>4. LedgersKept'
  BY DEF LedgersKept
<1>5. QED
  BY <1>3, <1>4

LEMMA LedgersStay ==
  ASSUME RowsTyped, LedgersKept, Registry!TypeOK, Registry!TypeOK', epoch <= epoch',
         UNCHANGED ledgers
  PROVE  RowsTyped' /\ LedgersKept'
<1>1. transcript' = transcript /\ costs' = costs /\ health' = health
  BY DEF ledgers
<1>2. /\ transcript' \in Seq(Rowed(Nat))
      /\ costs' \in Seq(Costed)
      /\ health' \in Seq(Measured)
  BY <1>1 DEF LedgersKept
<1>3. QED
  BY <1>1, <1>2, LedgersGrow, Zenon

(* The arms stay recorded as long as no advisory goes out and no record    *)
(* with the arm "inject" is appended.                                      *)
LEMMA ArmsStay ==
  ASSUME ArmsRecorded,
         \A r \in Request : op[r] # New /\ op[r].sent.advised =>
           op'[r] # New /\ op'[r].sent.advised /\ op'[r].grant = op[r].grant,
         \A r \in Request :
           op'[r] # New /\ op'[r].sent.advised /\ "user" \in op'[r].landed =>
             /\ op[r] # New /\ op[r].sent.advised /\ "user" \in op[r].landed
             /\ op'[r].grant = op[r].grant,
         \A i \in DOMAIN transcript : i \in DOMAIN transcript' /\ transcript'[i] = transcript[i],
         \A i \in DOMAIN transcript' \ DOMAIN transcript : transcript'[i].arm # "inject"
  PROVE  ArmsRecorded'
<1>1. ASSUME NEW i \in DOMAIN transcript' \ DOMAIN Old.transcript,
             transcript'[i].arm = "inject"
      PROVE  \E r \in Request : /\ op'[r] # New /\ op'[r].sent.advised
                                /\ op'[r].grant.id = transcript'[i].id
  <2>1. i \in DOMAIN transcript \ DOMAIN Old.transcript /\ transcript'[i] = transcript[i]
    BY <1>1
  <2>2. PICK r \in Request : /\ op[r] # New /\ op[r].sent.advised
                             /\ op[r].grant.id = transcript[i].id
    BY <1>1, <2>1 DEF ArmsRecorded, GrantOf
  <2>3. QED
    BY <2>1, <2>2
<1>2. ASSUME NEW r \in Request,
             op'[r] # New /\ op'[r].sent.advised /\ "user" \in op'[r].landed
      PROVE  \E i \in DOMAIN transcript' : /\ transcript'[i].arm = "inject"
                                            /\ transcript'[i].id = op'[r].grant.id
  <2>1. /\ op[r] # New /\ op[r].sent.advised /\ "user" \in op[r].landed
        /\ op'[r].grant = op[r].grant
    BY <1>2
  <2>2. PICK i \in DOMAIN transcript : /\ transcript[i].arm = "inject"
                                       /\ transcript[i].id = op[r].grant.id
    BY <2>1 DEF ArmsRecorded, GrantOf
  <2>3. QED
    BY <2>1, <2>2
<1>3. QED
  BY <1>1, <1>2 DEF ArmsRecorded, GrantOf

(* The invariant in its parts.                                             *)
LEMMA InvParts ==
  EvidenceInv <=> /\ Registry!IInv /\ EpochBound /\ OpTyped /\ Carrying
                  /\ RowsTyped /\ LedgersKept /\ ArmsRecorded
BY TypeSame, CarryingSame DEF EvidenceInv, Registry!IInv, EpochBound

LEMMA InvNext ==
  EvidenceInv' <=> /\ Registry!IInv' /\ EpochBound' /\ OpTyped' /\ Carrying'
                   /\ RowsTyped' /\ LedgersKept' /\ ArmsRecorded'
BY InvParts, PTL

LEMMA TypedRegistry ==
  /\ Registry!IInv => Registry!TypeOK
  /\ Registry!IInv' => Registry!TypeOK'
<1>1. Registry!IInv => Registry!TypeOK
  BY DEF Registry!IInv
<1>2. QED
  BY <1>1, PTL

----------------------------------------------------------------------------
(* The invariant is inductive *)

LEMMA InitEvidence == Init => EvidenceInv
<1> SUFFICES ASSUME Init PROVE EvidenceInv
  OBVIOUS
<1>1. Registry!IInv /\ epoch <= MaxEpoch
  <2>1. Proved!IInv
    BY SameInit, RegistryAssumed, Proved!InitInv DEF Init
  <2>2. epoch = 0
    BY DEF Init, Registry!Init
  <2>3. QED
    BY <2>1, <2>2, SameInvariant, EvidenceAssumption
<1>2. op \in [Request -> {New} \cup Handling] /\ \A r \in Request : op[r] = New
  BY DEF Init
<1>3. grants = {}
  BY DEF Init, Registry!Init
<1>4. Carrying
  BY <1>2, <1>3 DEF Carrying
<1>5. RowsTyped
  BY DEF RowsTyped, Init
<1>6. LedgersKept
  BY EvidenceAssumption DEF LedgersKept, Init
<1>7. ArmsRecorded
  BY <1>2 DEF ArmsRecorded, Init
<1>8. QED
  BY <1>1, <1>2, <1>4, <1>5, <1>6, <1>7, InvParts DEF OpTyped, EpochBound

LEMMA ReceiveInv ==
  ASSUME EvidenceInv, NEW r \in Request, NEW body \in Asked, Receive(r, body)
  PROVE  EvidenceInv'
<1>1. /\ Registry!IInv /\ EpochBound /\ OpTyped /\ Carrying
      /\ RowsTyped /\ LedgersKept /\ ArmsRecorded /\ TypeOK
  BY InvParts DEF EvidenceInv
<1>2. /\ op[r].pc = "new" /\ body.protocol # "codex" /\ UNCHANGED ledgers
      /\ Registry!Open(r, body.messages, {})
  BY DEF Receive, Arrives
<1>3. /\ Registry!IInv' /\ UNCHANGED <<epoch, advised>> /\ \A g \in grants : g.req # r
  BY <1>1, <1>2, OpenGrants
<1>4. PICK g \in Registry!Grant :
        /\ grants' = grants \cup {g}
        /\ g.req = r /\ g.history = body.messages /\ g.turn # NoTurn
  BY <1>1, <1>2, OpenGrants
<1>5. op' = [op EXCEPT ![r] = Handled(body, g, "shaped")]
  <2>1. grants' \ grants = {g}
    BY <1>3, <1>4
  <2>2. QED
    BY <2>1 DEF Receive
<1> DEFINE x == Handled(body, g, "shaped")
<1>6. /\ Registry!TypeOK /\ Registry!TypeOK'
      /\ epoch \in Nat /\ epoch <= MaxEpoch /\ epoch' = epoch
  BY <1>1, <1>3, TypedRegistry DEF Registry!TypeOK, EpochBound
<1>7. /\ x \in Handling /\ Carried(r, x, grants', advised', setup.config)
      /\ x.landed = {} /\ ~x.sent.advised
  <2>1. g \in Identity /\ "shaped" \in InFlight
    BY DEF Identity, InFlight
  <2>2. g \in grants'
    BY <1>4
  <2>3. QED
    BY <1>2, <1>4, <1>6, <2>1, <2>2, HandledCarried
<1> HIDE DEF x
<1>8. \A f \in grants' : f.turn # NoTurn
  BY <1>1, <1>4 DEF Carrying
<1>9. /\ op' \in [Request -> {New} \cup Handling]
      /\ op'[r] = x /\ \A q \in Request : q # r => op'[q] = op[q]
      /\ Carrying'
  <2>1. op' = [op EXCEPT ![r] = x]
    BY <1>5 DEF x
  <2>2. grants \subseteq grants' /\ advised \subseteq advised'
    BY <1>3, <1>4
  <2>3. QED
    BY <1>1, <1>6, <1>7, <1>8, <2>1, <2>2, OneRequest
<1>10. RowsTyped' /\ LedgersKept'
  BY <1>1, <1>2, <1>6, LedgersStay
<1>11. ArmsRecorded'
  <2>1. op[r] = New
    BY <1>1, <1>2, NotNew, HandlingParts
  <2>2. ASSUME NEW q \in Request, op[q] # New /\ op[q].sent.advised
        PROVE  op'[q] # New /\ op'[q].sent.advised /\ op'[q].grant = op[q].grant
    BY <1>9, <2>1, <2>2
  <2>3. ASSUME NEW q \in Request,
               op'[q] # New /\ op'[q].sent.advised /\ "user" \in op'[q].landed
        PROVE  /\ op[q] # New /\ op[q].sent.advised /\ "user" \in op[q].landed
               /\ op'[q].grant = op[q].grant
    BY <1>7, <1>9, <2>3
  <2>4. transcript' = transcript
    BY <1>2 DEF ledgers
  <2>5. QED
    BY <1>1, <2>2, <2>3, <2>4, ArmsStay
<1>12. OpTyped' /\ EpochBound'
  BY <1>6, <1>9 DEF OpTyped, EpochBound
<1>13. QED
  BY <1>3, <1>9, <1>10, <1>11, <1>12, InvNext

LEMMA ReceiveCodexInv ==
  ASSUME EvidenceInv, NEW r \in Request, NEW body \in Asked, ReceiveCodex(r, body)
  PROVE  EvidenceInv'
<1>1. /\ Registry!IInv /\ EpochBound /\ OpTyped /\ Carrying
      /\ RowsTyped /\ LedgersKept /\ ArmsRecorded /\ TypeOK
  BY InvParts DEF EvidenceInv
<1> DEFINE x == Handled(body, Nowhere, "sent")
<1>2. /\ op[r].pc = "new" /\ body.protocol = "codex" /\ UNCHANGED <<registry, ledgers>>
      /\ op' = [op EXCEPT ![r] = x]
  BY DEF ReceiveCodex, Arrives
<1>3. /\ Registry!IInv' /\ UNCHANGED <<grants, advised>>
      /\ Registry!TypeOK /\ Registry!TypeOK'
      /\ epoch \in Nat /\ epoch <= MaxEpoch /\ epoch' = epoch
  <2>1. Registry!IInv'
    BY <1>1, <1>2, StutterGrants
  <2>2. QED
    BY <1>1, <1>2, <2>1, TypedRegistry DEF Registry!TypeOK, EpochBound, registry
<1>4. /\ x \in Handling /\ Carried(r, x, grants', advised', setup.config)
      /\ x.landed = {} /\ ~x.sent.advised
  <2>1. Nowhere \in Identity /\ "sent" \in InFlight
    BY DEF Identity, InFlight
  <2>2. QED
    BY <1>2, <1>3, <2>1, HandledCarried
<1> HIDE DEF x
<1>5. /\ op' \in [Request -> {New} \cup Handling]
      /\ op'[r] = x /\ \A q \in Request : q # r => op'[q] = op[q]
      /\ Carrying'
  <2>1. \A g \in grants' : g.turn # NoTurn
    BY <1>1, <1>3 DEF Carrying
  <2>2. QED
    BY <1>1, <1>2, <1>3, <1>4, <2>1, OneRequest
<1>6. RowsTyped' /\ LedgersKept'
  BY <1>1, <1>2, <1>3, LedgersStay
<1>7. ArmsRecorded'
  <2>1. op[r] = New
    BY <1>1, <1>2, NotNew, HandlingParts
  <2>2. ASSUME NEW q \in Request, op[q] # New /\ op[q].sent.advised
        PROVE  op'[q] # New /\ op'[q].sent.advised /\ op'[q].grant = op[q].grant
    BY <1>5, <2>1, <2>2
  <2>3. ASSUME NEW q \in Request,
               op'[q] # New /\ op'[q].sent.advised /\ "user" \in op'[q].landed
        PROVE  /\ op[q] # New /\ op[q].sent.advised /\ "user" \in op[q].landed
               /\ op'[q].grant = op[q].grant
    BY <1>4, <1>5, <2>3
  <2>4. transcript' = transcript
    BY <1>2 DEF ledgers
  <2>5. QED
    BY <1>1, <2>2, <2>3, <2>4, ArmsStay
<1>8. OpTyped' /\ EpochBound'
  BY <1>3, <1>5 DEF OpTyped, EpochBound
<1>9. QED
  BY <1>3, <1>5, <1>6, <1>7, <1>8, InvNext

(* A request that goes on with what it has sent.                           *)
LEMMA CarriedOn ==
  ASSUME NEW r, NEW x, NEW y, NEW given, NEW reserved, NEW config, NEW other,
         Carried(r, y, given, reserved, config),
         x.asked = y.asked, x.sent = y.sent, x.grant = y.grant, x.config = y.config,
         x.pc # "shaped"
  PROVE  Carried(r, x, given, reserved, other)
BY DEF Carried

(* The record of request y, gone on.                                       *)
Moved(y, pc, sent, landed, state) ==
  [pc |-> pc, asked |-> y.asked, sent |-> sent, grant |-> y.grant,
   config |-> y.config, landed |-> landed, state |-> state]

LEMMA MovedType ==
  ASSUME NEW y \in Handling, NEW pc \in {"sent", "answered", "failed"},
         NEW sent \in Body, NEW state \in States,
         NEW landed \in SUBSET {"user", "cost", "answer", "health"}
  PROVE  Moved(y, pc, sent, landed, state) \in Handling
BY DEF Handling, Moved, InFlight

LEMMA MovedPc ==
  ASSUME NEW y \in Handling, NEW pc
  PROVE  [y EXCEPT !.pc = pc] = Moved(y, pc, y.sent, y.landed, y.state)
BY DEF Moved, Handling

LEMMA MovedSent ==
  ASSUME NEW y \in Handling, NEW pc, NEW sent, NEW landed
  PROVE  [y EXCEPT !.pc = pc, !.sent = sent, !.landed = landed] =
           Moved(y, pc, sent, landed, y.state)
<1> DEFINE a == [y EXCEPT !.pc = pc]
           b == [a EXCEPT !.sent = sent]
           c == [b EXCEPT !.landed = landed]
<1>1. a = Moved(y, pc, y.sent, y.landed, y.state)
  BY MovedPc
<1>2. b = Moved(y, pc, sent, y.landed, y.state)
  <2> HIDE DEF a
  <2>1. QED
    BY <1>1 DEF Moved
<1>3. c = Moved(y, pc, sent, landed, y.state)
  <2> HIDE DEF a, b
  <2>1. QED
    BY <1>2 DEF Moved
<1>4. QED
  BY <1>3

LEMMA MovedState ==
  ASSUME NEW y \in Handling, NEW pc, NEW state, NEW landed
  PROVE  [y EXCEPT !.pc = pc, !.state = state, !.landed = landed] =
           Moved(y, pc, y.sent, landed, state)
<1> DEFINE a == [y EXCEPT !.pc = pc]
           b == [a EXCEPT !.state = state]
           c == [b EXCEPT !.landed = landed]
<1>1. a = Moved(y, pc, y.sent, y.landed, y.state)
  BY MovedPc
<1>2. b = Moved(y, pc, y.sent, y.landed, state)
  <2> HIDE DEF a
  <2>1. QED
    BY <1>1 DEF Moved
<1>3. c = Moved(y, pc, y.sent, landed, state)
  <2> HIDE DEF a, b
  <2>1. QED
    BY <1>2 DEF Moved
<1>4. QED
  BY <1>3

LEMMA PassOnInv ==
  ASSUME EvidenceInv, NEW r \in Request, PassOn(r)
  PROVE  EvidenceInv'
<1>1. /\ Registry!IInv /\ EpochBound /\ OpTyped /\ Carrying
      /\ RowsTyped /\ LedgersKept /\ ArmsRecorded /\ TypeOK
  BY InvParts DEF EvidenceInv
<1> DEFINE y == op[r]
           pc == IF y.asked.protocol = "codex" THEN "answered" ELSE "failed"
           x == [y EXCEPT !.pc = pc]
<1>2. /\ y.pc = "sent" /\ UNCHANGED <<registry, ledgers>>
      /\ op' = [op EXCEPT ![r] = x]
  BY DEF PassOn
<1>3. /\ Registry!IInv' /\ UNCHANGED <<grants, advised>>
      /\ Registry!TypeOK /\ Registry!TypeOK'
      /\ epoch \in Nat /\ epoch <= MaxEpoch /\ epoch' = epoch
  <2>1. Registry!IInv'
    BY <1>1, <1>2, StutterGrants
  <2>2. QED
    BY <1>1, <1>2, <2>1, TypedRegistry DEF Registry!TypeOK, EpochBound, registry
<1>4. y \in Handling
  <2>1. y.pc # "new"
    BY <1>2
  <2>2. QED
    BY <1>1, <2>1, NotNew
<1>5. x.pc = pc /\ x.asked = y.asked /\ x.sent = y.sent /\ x.grant = y.grant
      /\ x.config = y.config /\ x.landed = y.landed
  BY <1>4 DEF Handling
<1> HIDE DEF y
<1>6. x \in Handling
  <2>1. y.sent \in Body /\ y.state \in States
        /\ y.landed \in SUBSET {"user", "cost", "answer", "health"}
    BY <1>4, HandlingParts
  <2>2. pc \in {"sent", "answered", "failed"}
    OBVIOUS
  <2>3. Moved(y, pc, y.sent, y.landed, y.state) \in Handling
    BY <1>4, <2>1, <2>2, MovedType
  <2>4. x = Moved(y, pc, y.sent, y.landed, y.state)
    BY <1>4, MovedPc
  <2>5. QED
    BY <2>3, <2>4
<1>7. Carried(r, x, grants', advised', setup.config)
  <2>1. Carried(r, y, grants, advised, setup.config)
    BY <1>1, <1>4, HandlingParts DEF Carrying, y
  <2>2. x.pc # "shaped"
    BY <1>5
  <2> HIDE DEF x, pc
  <2>3. Carried(r, y, grants', advised', setup.config)
    BY <1>3, <2>1
  <2>4. QED
    BY <1>5, <2>2, <2>3, CarriedOn
<1> HIDE DEF x, pc
<1>8. /\ op' \in [Request -> {New} \cup Handling]
      /\ op'[r] = x /\ \A q \in Request : q # r => op'[q] = op[q]
      /\ Carrying'
  <2>1. \A g \in grants' : g.turn # NoTurn
    BY <1>1, <1>3 DEF Carrying
  <2>2. QED
    BY <1>1, <1>2, <1>3, <1>6, <1>7, <2>1, OneRequest
<1>9. RowsTyped' /\ LedgersKept'
  BY <1>1, <1>2, <1>3, LedgersStay
<1>10. ArmsRecorded'
  <2>1. op[r] # New /\ x # New
    BY <1>4, <1>6, HandlingParts DEF y
  <2>2. ASSUME NEW q \in Request, op[q] # New /\ op[q].sent.advised
        PROVE  op'[q] # New /\ op'[q].sent.advised /\ op'[q].grant = op[q].grant
    BY <1>5, <1>8, <2>1, <2>2 DEF y
  <2>3. ASSUME NEW q \in Request,
               op'[q] # New /\ op'[q].sent.advised /\ "user" \in op'[q].landed
        PROVE  /\ op[q] # New /\ op[q].sent.advised /\ "user" \in op[q].landed
               /\ op'[q].grant = op[q].grant
    BY <1>5, <1>8, <2>1, <2>3 DEF y
  <2>4. transcript' = transcript
    BY <1>2 DEF ledgers
  <2>5. QED
    BY <1>1, <2>2, <2>3, <2>4, ArmsStay
<1>11. OpTyped' /\ EpochBound'
  BY <1>3, <1>8 DEF OpTyped, EpochBound
<1>12. QED
  BY <1>3, <1>8, <1>9, <1>10, <1>11, InvNext

LEMMA RestartEvidence ==
  ASSUME EvidenceInv, Restart
  PROVE  EvidenceInv'
<1>1. /\ Registry!IInv /\ EpochBound /\ OpTyped /\ Carrying
      /\ RowsTyped /\ LedgersKept /\ ArmsRecorded /\ TypeOK
  BY InvParts DEF EvidenceInv
<1>2. /\ Registry!Restart /\ UNCHANGED ledgers
      /\ op' = [r \in Request |->
                  IF op[r].pc \in InFlight THEN [op[r] EXCEPT !.pc = "failed"] ELSE op[r]]
  BY DEF Restart
<1>3. /\ Registry!IInv' /\ UNCHANGED <<grants, advised>>
      /\ epoch' = epoch + 1 /\ epoch < MaxEpoch
  BY <1>1, <1>2, RestartGrants
<1>4. /\ Registry!TypeOK /\ Registry!TypeOK'
      /\ epoch \in Nat /\ epoch <= epoch' /\ epoch' <= MaxEpoch
  BY <1>1, <1>3, TypedRegistry, EvidenceAssumption DEF Registry!TypeOK
<1>5. ASSUME NEW r \in Request
      PROVE  /\ op'[r] \in {New} \cup Handling /\ (op'[r] = New <=> op[r] = New)
             /\ op[r] # New => /\ op'[r].sent = op[r].sent /\ op'[r].grant = op[r].grant
                               /\ op'[r].landed = op[r].landed
             /\ op'[r] # New => Carried(r, op'[r], grants', advised', setup'.config)
  <2>1. CASE op[r] = New
    <3>1. op'[r] = New
      BY <1>2, <2>1 DEF InFlight, New
    <3>2. QED
      BY <2>1, <3>1
  <2>2. CASE op[r] # New
    <3>1. op[r] \in Handling /\ Carried(r, op[r], grants, advised, setup.config)
      BY <1>1, <2>2, NotNew DEF Carrying
    <3> DEFINE y == op[r]
               x == [y EXCEPT !.pc = "failed"]
    <3>2. op'[r] = IF y.pc \in InFlight THEN x ELSE y
      BY <1>2
    <3>3. /\ x \in Handling /\ x.pc = "failed" /\ x.asked = y.asked /\ x.sent = y.sent
          /\ x.grant = y.grant /\ x.config = y.config /\ x.landed = y.landed
      BY <3>1 DEF Handling
    <3> HIDE DEF x
    <3>4. op'[r] \in Handling /\ op'[r].pc # "shaped"
      BY <3>1, <3>2, <3>3, HandlingParts DEF InFlight
    <3>5. /\ op'[r].asked = y.asked /\ op'[r].sent = y.sent /\ op'[r].grant = y.grant
          /\ op'[r].config = y.config /\ op'[r].landed = y.landed
      BY <3>2, <3>3
    <3>6. Carried(r, op'[r], grants', advised', setup'.config)
      BY <1>3, <3>1, <3>4, <3>5, CarriedOn
    <3>7. QED
      BY <2>2, <3>4, <3>5, <3>6, HandlingParts
  <2>3. QED
    BY <2>1, <2>2
<1>6. op' \in [Request -> {New} \cup Handling] /\ Carrying'
  <2>1. op' \in [Request -> {New} \cup Handling]
    <3>1. op' = [r \in Request |-> op'[r]]
      BY <1>2
    <3>2. QED
      BY <1>5, <3>1
  <2>2. \A g \in grants' : g.turn # NoTurn
    BY <1>1, <1>3 DEF Carrying
  <2>3. QED
    BY <1>5, <2>1, <2>2 DEF Carrying
<1>7. RowsTyped' /\ LedgersKept'
  BY <1>1, <1>2, <1>4, LedgersStay
<1>8. ArmsRecorded'
  <2>1. transcript' = transcript
    BY <1>2 DEF ledgers
  <2>2. QED
    BY <1>1, <1>5, <2>1, ArmsStay
<1>9. OpTyped' /\ EpochBound'
  BY <1>4, <1>6 DEF OpTyped, EpochBound
<1>10. QED
  BY <1>3, <1>6, <1>7, <1>8, <1>9, InvNext

LEMMA StutterEvidence ==
  ASSUME EvidenceInv, UNCHANGED vars
  PROVE  EvidenceInv'
<1>1. /\ Registry!IInv /\ EpochBound /\ OpTyped /\ Carrying
      /\ RowsTyped /\ LedgersKept /\ ArmsRecorded
  BY InvParts
<1>2. UNCHANGED registry /\ op' = op /\ UNCHANGED ledgers
  BY DEF vars
<1>3. UNCHANGED <<grants, advised, epoch>>
  BY <1>2 DEF registry
<1>4. Registry!IInv'
  BY <1>1, <1>2, StutterGrants
<1>5. Registry!TypeOK /\ Registry!TypeOK' /\ epoch <= epoch'
  BY <1>1, <1>3, <1>4, TypedRegistry DEF Registry!TypeOK
<1>6. RowsTyped' /\ LedgersKept'
  BY <1>1, <1>2, <1>5, LedgersStay
<1>7. OpTyped' /\ EpochBound' /\ Carrying'
  BY <1>1, <1>2, <1>3 DEF OpTyped, EpochBound, Carrying, Carried, setup
<1>8. ArmsRecorded'
  BY <1>1, <1>2 DEF ArmsRecorded, GrantOf, ledgers
<1>9. QED
  BY <1>4, <1>6, <1>7, <1>8, InvNext

(* A request of a conversation has a grant of the registry's type.         *)
LEMMA GrantTyped ==
  ASSUME Registry!TypeOK, Carrying, NEW r \in Request, op[r] # New,
         op[r].asked.protocol # "codex"
  PROVE  /\ GrantOf(r) \in grants /\ GrantOf(r).req = r
         /\ GrantOf(r).history = op[r].asked.messages
         /\ GrantOf(r).id \in Registry!SessionId
         /\ GrantOf(r).turn \in Nat \ {NoTurn}
<1>1. Carried(r, op[r], grants, advised, setup.config)
  BY DEF Carrying
<1>2. /\ GrantOf(r) \in grants /\ GrantOf(r).req = r
      /\ GrantOf(r).history = op[r].asked.messages
  BY <1>1 DEF Carried, GrantOf
<1>3. GrantOf(r).turn # NoTurn
  BY <1>2 DEF Carrying
<1>4. GrantOf(r) \in Registry!Grant
  BY <1>2 DEF Registry!TypeOK
<1>5. GrantOf(r).id \in Registry!SessionId /\ GrantOf(r).turn \in Nat
  BY <1>4 DEF Registry!Grant
<1>6. QED
  BY <1>2, <1>3, <1>5

LEMMA AnswerEvidence ==
  ASSUME EvidenceInv, NEW r \in Request, NEW answer \in Answers, Answer(r, answer)
  PROVE  EvidenceInv'
<1>1. /\ Registry!IInv /\ EpochBound /\ OpTyped /\ Carrying
      /\ RowsTyped /\ LedgersKept /\ ArmsRecorded /\ TypeOK
  BY InvParts DEF EvidenceInv
<1> DEFINE y == op[r]
<1>2. /\ y.pc = "sent" /\ y.asked.protocol # "codex" /\ UNCHANGED registry
  BY DEF Answer
<1>3. PICK landed \in SUBSET {"cost", "answer", "health"} :
        /\ costs' = With(costs, "cost", CostRow(r), landed)
        /\ transcript' = With(transcript, "answer", AnswerRow(r, answer.state), landed)
        /\ health' = With(health, "health", HealthRow(r), landed)
        /\ op' = [op EXCEPT ![r].pc = "answered", ![r].state = answer.state,
                            ![r].landed = @ \cup landed]
  BY DEF Answer
<1>4. /\ Registry!IInv' /\ UNCHANGED <<grants, advised>>
      /\ Registry!TypeOK /\ Registry!TypeOK'
      /\ epoch \in Nat /\ epoch <= MaxEpoch /\ epoch' = epoch
  <2>1. Registry!IInv'
    BY <1>1, <1>2, StutterGrants
  <2>2. QED
    BY <1>1, <1>2, <2>1, TypedRegistry DEF Registry!TypeOK, EpochBound, registry
<1>5. y \in Handling /\ y # New
  <2>1. y.pc # "new"
    BY <1>2
  <2>2. QED
    BY <1>1, <2>1, NotNew, HandlingParts
<1> DEFINE x == Moved(y, "answered", y.sent, y.landed \cup landed, answer.state)
<1>6. op' = [op EXCEPT ![r] = x]
  <2>1. op' = [op EXCEPT ![r] = [y EXCEPT !.pc = "answered", !.state = answer.state,
                                          !.landed = y.landed \cup landed]]
    BY <1>1, <1>3 DEF OpTyped
  <2> HIDE DEF y
  <2> DEFINE all == y.landed \cup landed
  <2> HIDE DEF all
  <2>2. [y EXCEPT !.pc = "answered", !.state = answer.state, !.landed = all] =
          Moved(y, "answered", y.sent, all, answer.state)
    BY <1>5, MovedState
  <2>3. QED
    BY <2>1, <2>2 DEF all
<1>7. /\ x.pc = "answered" /\ x.asked = y.asked /\ x.sent = y.sent /\ x.grant = y.grant
      /\ x.config = y.config /\ x.landed = y.landed \cup landed
  BY DEF Moved
<1>8. answer.state \in States /\ answer.state \in Terminal
  BY EvidenceAssumption DEF States
<1>9. x \in Handling
  <2>1. y.sent \in Body /\ y.landed \subseteq {"user", "cost", "answer", "health"}
    BY <1>5, HandlingParts
  <2>2. y.landed \cup landed \in SUBSET {"user", "cost", "answer", "health"}
    BY <2>1
  <2>3. QED
    BY <1>5, <1>8, <2>1, <2>2, MovedType
<1> HIDE DEF x
<1>10. Carried(r, x, grants', advised', setup.config)
  <2>1. Carried(r, y, grants, advised, setup.config)
    BY <1>1, <1>5 DEF Carrying
  <2>2. Carried(r, y, grants', advised', setup.config)
    BY <1>4, <2>1
  <2> HIDE DEF y
  <2>3. QED
    BY <1>7, <2>2, CarriedOn
<1>11. /\ op' \in [Request -> {New} \cup Handling]
       /\ op'[r] = x /\ \A q \in Request : q # r => op'[q] = op[q]
       /\ Carrying'
  <2>1. \A g \in grants' : g.turn # NoTurn
    BY <1>1, <1>4 DEF Carrying
  <2>2. QED
    BY <1>1, <1>4, <1>6, <1>9, <1>10, <2>1, OneRequest
<1>12. GrantOf(r).id \in Registry!SessionId /\ GrantOf(r).turn \in Nat \ {NoTurn}
  BY <1>1, <1>2, <1>4, <1>5, GrantTyped
<1>13. /\ AnswerRow(r, answer.state) \in Rowed(Nat \ {NoTurn}) \cap Rowed(Nat)
       /\ AnswerRow(r, answer.state).state \in States
       /\ AnswerRow(r, answer.state).arm # "inject"
  <2>1. [variant \in {} |-> {}] \in Receipts
    <3>1. {} \in SUBSET Variant /\ [variant \in {} |-> {}] \in [{} -> SUBSET Slot]
      OBVIOUS
    <3>2. QED
      BY <3>1 DEF Receipts
  <2>2. None \in {None, "inject", "record_only"} /\ None # "inject"
    BY DEF None
  <2>3. "assistant" \in Roles
    BY DEF Roles
  <2>4. QED
    BY <1>8, <1>12, <2>1, <2>2, <2>3 DEF AnswerRow, Rowed
<1>14. /\ CostRow(r) \in Costed
       /\ CostRow(r) \in [id : Registry!SessionId, turn : Nat \ {NoTurn}]
  BY <1>12 DEF CostRow, Costed
<1>15. /\ HealthRow(r) \in Measured
       /\ HealthRow(r).version \in {Setups[e].version : e \in 0..epoch'}
  <2>1. y.asked.protocol \in {"openai", "anthropic"}
    <3>1. y.asked \in Body
      BY <1>5, HandlingParts
    <3>2. y.asked.protocol \in {"openai", "anthropic", "codex"}
      BY <3>1, BodyParts DEF HasParts
    <3>3. QED
      BY <1>2, <3>2
  <2>2. setup.version \in STRING /\ epoch \in 0..epoch'
    BY <1>4, SetupType
  <2>3. QED
    BY <2>1, <2>2 DEF HealthRow, Measured, setup
<1>16. /\ transcript' \in Seq(Rowed(Nat))
       /\ \A i \in DOMAIN transcript : i \in DOMAIN transcript' /\ transcript'[i] = transcript[i]
       /\ \A i \in DOMAIN transcript' \ DOMAIN transcript :
            transcript'[i] = AnswerRow(r, answer.state)
  <2>1. transcript \in Seq(Rowed(Nat))
    BY <1>1 DEF LedgersKept
  <2>2. AnswerRow(r, answer.state) \in Rowed(Nat)
    BY <1>13
  <2>3. QED
    BY <1>3, <2>1, <2>2, LedgerGrows
<1>17. /\ costs' \in Seq(Costed)
       /\ \A i \in DOMAIN costs : i \in DOMAIN costs' /\ costs'[i] = costs[i]
       /\ \A i \in DOMAIN costs' \ DOMAIN costs : costs'[i] = CostRow(r)
  <2>1. costs \in Seq(Costed)
    BY <1>1 DEF LedgersKept
  <2>2. CostRow(r) \in Costed
    BY <1>14
  <2>3. QED
    BY <1>3, <2>1, <2>2, LedgerGrows
<1>18. /\ health' \in Seq(Measured)
       /\ \A i \in DOMAIN health : i \in DOMAIN health' /\ health'[i] = health[i]
       /\ \A i \in DOMAIN health' \ DOMAIN health : health'[i] = HealthRow(r)
  <2>1. health \in Seq(Measured)
    BY <1>1 DEF LedgersKept
  <2>2. HealthRow(r) \in Measured
    BY <1>15
  <2>3. QED
    BY <1>3, <2>1, <2>2, LedgerGrows
<1>19. RowsTyped' /\ LedgersKept'
  <2>1. \A i \in DOMAIN transcript' \ DOMAIN transcript :
          transcript'[i] \in Rowed(Nat \ {NoTurn}) /\ transcript'[i].state \in States
    BY <1>13, <1>16
  <2>2. \A i \in DOMAIN costs' \ DOMAIN costs :
          costs'[i] \in [id : Registry!SessionId, turn : Nat \ {NoTurn}]
    BY <1>14, <1>17
  <2>3. \A i \in DOMAIN health' \ DOMAIN health :
          health'[i].version \in {Setups[e].version : e \in 0..epoch'}
    BY <1>15, <1>18
  <2>4. epoch <= epoch'
    BY <1>4
  <2>5. QED
    BY <1>1, <1>4, <1>16, <1>17, <1>18, <2>1, <2>2, <2>3, <2>4, LedgersGrow, Zenon
<1>20. ArmsRecorded'
  <2>1. x # New /\ "user" \notin landed
    BY <1>9, HandlingParts
  <2>2. ASSUME NEW q \in Request, op[q] # New /\ op[q].sent.advised
        PROVE  op'[q] # New /\ op'[q].sent.advised /\ op'[q].grant = op[q].grant
    BY <1>7, <1>11, <2>1, <2>2
  <2>3. ASSUME NEW q \in Request,
               op'[q] # New /\ op'[q].sent.advised /\ "user" \in op'[q].landed
        PROVE  /\ op[q] # New /\ op[q].sent.advised /\ "user" \in op[q].landed
               /\ op'[q].grant = op[q].grant
    BY <1>5, <1>7, <1>11, <2>1, <2>3
  <2>4. \A i \in DOMAIN transcript' \ DOMAIN transcript : transcript'[i].arm # "inject"
    BY <1>13, <1>16
  <2>5. QED
    BY <1>1, <1>16, <2>2, <2>3, <2>4, ArmsStay
<1>21. OpTyped' /\ EpochBound'
  BY <1>4, <1>11 DEF OpTyped, EpochBound
<1>22. QED
  BY <1>4, <1>11, <1>19, <1>20, <1>21, InvNext

(* The requests after one was sent.                                        *)
AfterSending(r, body, landed) ==
  [op EXCEPT ![r].pc = "sent", ![r].sent = body, ![r].landed = landed]

Replaced(r, x) == [op EXCEPT ![r] = x]

LEMMA SentMoved ==
  ASSUME OpTyped, NEW r \in Request, op[r] \in Handling, NEW body, NEW landed
  PROVE  AfterSending(r, body, landed) =
           Replaced(r, Moved(op[r], "sent", body, landed, op[r].state))
<1>1. AfterSending(r, body, landed) =
        [op EXCEPT ![r] = [op[r] EXCEPT !.pc = "sent", !.sent = body,
                                        !.landed = landed]]
  BY DEF OpTyped, AfterSending
<1>2. [op[r] EXCEPT !.pc = "sent", !.sent = body, !.landed = landed] =
        Moved(op[r], "sent", body, landed, op[r].state)
  BY MovedSent
<1>3. QED
  BY <1>1, <1>2 DEF Replaced

(* A body with the advisory's text at its end, or without.                 *)
Ending(body, inject) == [body EXCEPT !.advised = inject]

(* What was shaped is sent, with the advisory or without, and what the     *)
(* user said recorded under the arm that stands for it.                    *)
LEMMA SendsEvidence ==
  ASSUME EvidenceInv, NEW r \in Request, op[r].pc = "shaped",
         Registry!IInv', epoch' = epoch, grants' = grants, advised \subseteq advised',
         UNCHANGED <<costs, health>>,
         NEW arm \in {None, "inject", "record_only"}, NEW inject \in BOOLEAN,
         NEW body, body = Ending(op[r].sent, inject),
         inject <=> arm = "inject",
         inject => /\ GrantOf(r) \in advised' /\ Starts(r)
                   /\ InjectionEnabled(op[r].config),
         Sends(r, arm, body)
  PROVE  EvidenceInv'
<1>1. /\ Registry!IInv /\ EpochBound /\ OpTyped /\ Carrying
      /\ RowsTyped /\ LedgersKept /\ ArmsRecorded /\ TypeOK
  BY InvParts DEF EvidenceInv
<1> DEFINE y == op[r]
<1>2. PICK landed \in SUBSET {"user"} :
        /\ Lands(IF Speaks(r) THEN {"user"} ELSE {}, landed)
        /\ transcript' = With(transcript, "user", UserRow(r, arm), landed)
        /\ op' = [op EXCEPT ![r].pc = "sent", ![r].sent = body, ![r].landed = landed]
  BY DEF Sends
<1>3. "user" \in landed => Speaks(r)
  BY <1>2 DEF Lands
<1>4. /\ Registry!TypeOK /\ Registry!TypeOK'
      /\ epoch \in Nat /\ epoch <= MaxEpoch /\ epoch <= epoch'
  BY <1>1, TypedRegistry DEF Registry!TypeOK, EpochBound
<1>5. y \in Handling /\ y # New /\ Carried(r, y, grants, advised, setup.config)
  <2>1. y.pc # "new"
    OBVIOUS
  <2>2. y \in Handling /\ y # New
    BY <1>1, <2>1, NotNew, HandlingParts
  <2>3. QED
    BY <1>1, <2>2 DEF Carrying
<1>6. /\ y.sent \in Body /\ ~y.sent.advised /\ y.asked.protocol # "codex"
      /\ y.asked \in Asked
      /\ y.sent = [Shaped(y.asked, y.config) EXCEPT !.advised = y.sent.advised]
  BY <1>5, HandlingParts DEF Carried
<1>7. /\ body \in Body /\ body.advised = inject
      /\ body = [Shaped(y.asked, y.config) EXCEPT !.advised = body.advised]
  <2>1. body \in Body /\ body.advised = inject
    BY <1>6 DEF Body, Ending
  <2> DEFINE shaped == Shaped(y.asked, y.config)
  <2> HIDE DEF shaped
  <2>2. y.sent = [shaped EXCEPT !.advised = y.sent.advised]
    BY <1>6 DEF shaped
  <2>3. body = [shaped EXCEPT !.advised = inject]
    BY <2>2 DEF Ending
  <2>4. QED
    BY <2>1, <2>3 DEF shaped
<1> DEFINE x == Moved(y, "sent", body, landed, y.state)
<1>8. op' = [op EXCEPT ![r] = x]
  <2>1. op[r] \in Handling
    BY <1>5
  <2>2. op' = [op EXCEPT ![r] = Moved(op[r], "sent", body, landed, op[r].state)]
    <3>1. op' = AfterSending(r, body, landed)
      BY <1>2 DEF AfterSending
    <3>2. op' = Replaced(r, Moved(op[r], "sent", body, landed, op[r].state))
      BY <1>1, <2>1, <3>1, SentMoved
    <3>3. QED
      BY <3>2 DEF Replaced
  <2>3. QED
    BY <2>2
<1>9. /\ x.pc = "sent" /\ x.asked = y.asked /\ x.sent = body /\ x.grant = y.grant
      /\ x.config = y.config /\ x.landed = landed
  BY DEF Moved
<1>10. x \in Handling /\ x # New
  <2>1. y.state \in States /\ landed \in SUBSET {"user", "cost", "answer", "health"}
    BY <1>5, HandlingParts
  <2>2. x \in Handling
    BY <1>5, <1>7, <2>1, MovedType
  <2>3. QED
    BY <2>2, HandlingParts
<1> HIDE DEF x
<1>11. Carried(r, x, grants', advised', setup.config)
  <2>1. /\ IF y.asked.protocol = "codex" THEN y.grant = Nowhere
           ELSE y.grant \in grants /\ y.grant.req = r /\ y.grant.history = y.asked.messages
    BY <1>5 DEF Carried
  <2>2. body.advised => /\ y.grant \in advised'
                        /\ Registry!IsConversationStart(y.asked.messages)
                        /\ InjectionEnabled(y.config)
    BY <1>7 DEF GrantOf, Starts
  <2> HIDE DEF y
  <2>3. QED
    BY <1>6, <1>7, <1>9, <2>1, <2>2 DEF Carried
<1>12. /\ op' \in [Request -> {New} \cup Handling]
       /\ op'[r] = x /\ \A q \in Request : q # r => op'[q] = op[q]
       /\ Carrying'
  <2>1. \A g \in grants' : g.turn # NoTurn
    BY <1>1 DEF Carrying
  <2>2. grants \subseteq grants'
    OBVIOUS
  <2>3. QED
    BY <1>1, <1>8, <1>10, <1>11, <2>1, <2>2, OneRequest
<1> DEFINE row == UserRow(r, arm)
<1>13. row.arm = arm /\ row.id = GrantOf(r).id
  BY DEF UserRow
<1>14. "user" \in landed =>
         row \in Rowed(Nat \ {NoTurn}) /\ row \in Rowed(Nat) /\ row.state \in States
  <2> SUFFICES ASSUME "user" \in landed
               PROVE  row \in Rowed(Nat \ {NoTurn}) /\ row \in Rowed(Nat)
                      /\ row.state \in States
    OBVIOUS
  <2>1. GrantOf(r).id \in Registry!SessionId /\ GrantOf(r).turn \in Nat \ {NoTurn}
    BY <1>1, <1>4, <1>5, <1>6, GrantTyped
  <2>2. ReadinessOf[Latest(op[r].asked)] \in Receipts
    BY <1>3, EvidenceAssumption DEF Speaks
  <2>3. Starts(r) \in BOOLEAN
    BY DEF Starts, Registry!IsConversationStart
  <2>4. "user" \in Roles /\ None \in States /\ None \in Terminal \cup {None}
    BY DEF Roles, States
  <2>5. QED
    BY <2>1, <2>2, <2>3, <2>4 DEF UserRow, Rowed
<1> HIDE DEF row
<1>15. /\ transcript' \in Seq(Rowed(Nat))
       /\ \A i \in DOMAIN transcript : i \in DOMAIN transcript' /\ transcript'[i] = transcript[i]
       /\ \A i \in DOMAIN transcript' \ DOMAIN transcript :
            "user" \in landed /\ transcript'[i] = row
       /\ "user" \in landed => \E i \in DOMAIN transcript' : transcript'[i] = row
  <2>1. transcript \in Seq(Rowed(Nat))
    BY <1>1 DEF LedgersKept
  <2>2. transcript' = With(transcript, "user", row, landed)
    BY <1>2 DEF row
  <2>3. QED
    BY <1>14, <2>1, <2>2, Appended
<1>16. RowsTyped' /\ LedgersKept'
  <2>1. \A i \in DOMAIN transcript' \ DOMAIN transcript :
          transcript'[i] \in Rowed(Nat \ {NoTurn}) /\ transcript'[i].state \in States
    BY <1>14, <1>15
  <2>2. costs' \in Seq(Costed) /\ health' \in Seq(Measured)
    BY <1>1 DEF LedgersKept
  <2>3. costs' = costs /\ health' = health
    OBVIOUS
  <2>4. QED
    BY <1>1, <1>4, <1>15, <2>1, <2>2, <2>3, LedgersGrow, Zenon
<1>17. ArmsRecorded'
  <2>1. ASSUME NEW i \in DOMAIN transcript' \ DOMAIN Old.transcript,
               transcript'[i].arm = "inject"
        PROVE  \E q \in Request : /\ op'[q] # New /\ op'[q].sent.advised
                                  /\ op'[q].grant.id = transcript'[i].id
    <3>1. CASE i \in DOMAIN transcript
      <4>1. transcript'[i] = transcript[i]
        BY <1>15, <3>1
      <4>2. PICK q \in Request : /\ op[q] # New /\ op[q].sent.advised
                                 /\ op[q].grant.id = transcript[i].id
        BY <1>1, <2>1, <3>1, <4>1 DEF ArmsRecorded, GrantOf
      <4>3. op'[q] = op[q]
        BY <1>6, <1>12, <4>2
      <4>4. QED
        BY <4>1, <4>2, <4>3
    <3>2. CASE i \notin DOMAIN transcript
      <4>1. transcript'[i] = row
        BY <1>15, <2>1, <3>2
      <4>2. inject /\ op'[r].sent.advised /\ op'[r].grant.id = transcript'[i].id
        BY <1>7, <1>9, <1>12, <1>13, <2>1, <4>1 DEF GrantOf
      <4>3. QED
        BY <1>10, <1>12, <4>2
    <3>3. QED
      BY <3>1, <3>2
  <2>2. ASSUME NEW q \in Request,
               op'[q] # New /\ op'[q].sent.advised /\ "user" \in op'[q].landed
        PROVE  \E i \in DOMAIN transcript' : /\ transcript'[i].arm = "inject"
                                              /\ transcript'[i].id = op'[q].grant.id
    <3>1. CASE q = r
      <4>1. inject /\ "user" \in landed
        BY <1>7, <1>9, <1>12, <2>2, <3>1
      <4>2. PICK i \in DOMAIN transcript' : transcript'[i] = row
        BY <1>15, <4>1
      <4>3. row.arm = "inject" /\ row.id = op'[q].grant.id
        BY <1>9, <1>12, <1>13, <3>1, <4>1 DEF GrantOf
      <4>4. QED
        BY <4>2, <4>3
    <3>2. CASE q # r
      <4>1. op'[q] = op[q]
        BY <1>12, <3>2
      <4>2. PICK i \in DOMAIN transcript : /\ transcript[i].arm = "inject"
                                           /\ transcript[i].id = op[q].grant.id
        BY <1>1, <2>2, <4>1 DEF ArmsRecorded, GrantOf
      <4>3. QED
        BY <1>15, <4>1, <4>2
    <3>3. QED
      BY <3>1, <3>2
  <2>3. QED
    BY <2>1, <2>2 DEF ArmsRecorded, GrantOf
<1>18. OpTyped' /\ EpochBound'
  BY <1>4, <1>12 DEF OpTyped, EpochBound
<1>19. QED
  BY <1>12, <1>16, <1>17, <1>18, InvNext

LEMMA SendInv ==
  ASSUME EvidenceInv, NEW r \in Request, Send(r)
  PROVE  EvidenceInv'
<1>1. Registry!IInv /\ OpTyped /\ Carrying /\ TypeOK
  BY InvParts DEF EvidenceInv
<1>2. op[r].pc = "shaped" /\ UNCHANGED <<costs, health>>
  BY DEF Send
<1> DEFINE y == op[r]
<1>3. y \in Handling /\ y # New
  <2>1. op[r].pc # "new"
    BY <1>2
  <2>2. QED
    BY <1>1, <2>1, NotNew, HandlingParts
<1>4. /\ y.sent \in Body /\ ~y.sent.advised /\ y.asked.protocol # "codex"
      /\ y.config = setup.config /\ y.grant \in grants
  <2>1. Carried(r, y, grants, advised, setup.config)
    BY <1>1, <1>3 DEF Carrying
  <2>2. QED
    BY <1>2, <1>3, <2>1, HandlingParts DEF Carried
<1>5. y.sent = Ending(y.sent, FALSE)
  <2>1. y.sent.advised = FALSE
    BY <1>4 DEF Body
  <2> HIDE DEF y
  <2>2. QED
    BY <1>4, <2>1 DEF Body, Ending
<1>6. None # "inject" /\ None \in {None, "inject", "record_only"}
  BY DEF None
<1>7. CASE AdviseNot(r)
  <2>1. Sends(r, None, op[r].sent) /\ UNCHANGED registry
    BY <1>7 DEF AdviseNot
  <2>2. /\ Registry!IInv' /\ epoch' = epoch /\ grants' = grants
        /\ advised \subseteq advised'
    BY <1>1, <2>1, StutterGrants DEF registry
  <2>3. QED
    BY <1>2, <1>5, <1>6, <2>1, <2>2, SendsEvidence
<1>8. CASE Advise(r)
  <2> DEFINE drawn == setup.config.randomized /\ DrawsInject(GrantOf(r).id)
             injected == /\ drawn
                         /\ InjectionEnabled(setup.config)
                         /\ CanAdvise(op[r].sent)
  <2>1. /\ Speaks(r) /\ Starts(r) /\ Registry!Advise(GrantOf(r))
        /\ IF GrantOf(r) \in advised'
             THEN Sends(r, Arm(drawn, injected),
                        IF injected THEN Advised(op[r].sent) ELSE op[r].sent)
             ELSE Sends(r, None, op[r].sent)
    BY <1>8 DEF Advise
  <2>2. /\ Registry!IInv' /\ epoch' = epoch /\ grants' = grants
        /\ advised \subseteq advised'
    <3>1. GrantOf(r) \in grants
      BY <1>4 DEF GrantOf
    <3>2. QED
      BY <1>1, <2>1, <3>1, AdviseGrants
  <2>3. injected => InjectionEnabled(y.config)
    BY <1>4
  <2> HIDE DEF drawn, injected
  <2>4. CASE GrantOf(r) \notin advised'
    BY <1>2, <1>5, <1>6, <2>1, <2>2, <2>4, SendsEvidence
  <2>5. CASE GrantOf(r) \in advised' /\ injected
    <3>1. Sends(r, "inject", Ending(op[r].sent, TRUE))
      BY <2>1, <2>5 DEF Arm, Advised, Ending
    <3>2. QED
      BY <1>2, <2>1, <2>2, <2>3, <2>5, <3>1, SendsEvidence
  <2>6. CASE GrantOf(r) \in advised' /\ ~injected
    <3>1. Sends(r, "record_only", op[r].sent)
      BY <2>1, <2>6 DEF Arm
    <3>2. QED
      BY <1>2, <1>5, <2>2, <3>1, SendsEvidence
  <2>7. QED
    BY <2>4, <2>5, <2>6
<1>9. QED
  BY <1>7, <1>8 DEF Send

LEMMA NextEvidence == EvidenceInv /\ [Next]_vars => EvidenceInv'
<1> SUFFICES ASSUME EvidenceInv, [Next]_vars PROVE EvidenceInv'
  OBVIOUS
<1>1. ASSUME NEW r \in Request, NEW body \in Asked, Receive(r, body) PROVE EvidenceInv'
  BY <1>1, ReceiveInv
<1>2. ASSUME NEW r \in Request, NEW body \in Asked, ReceiveCodex(r, body)
      PROVE  EvidenceInv'
  BY <1>2, ReceiveCodexInv
<1>3. ASSUME NEW r \in Request, Send(r) PROVE EvidenceInv'
  BY <1>3, SendInv
<1>4. ASSUME NEW r \in Request, PassOn(r) PROVE EvidenceInv'
  BY <1>4, PassOnInv
<1>5. ASSUME NEW r \in Request, NEW answer \in Answers, Answer(r, answer)
      PROVE  EvidenceInv'
  BY <1>5, AnswerEvidence
<1>6. CASE Restart
  BY <1>6, RestartEvidence
<1>7. CASE UNCHANGED vars
  BY <1>7, StutterEvidence
<1>8. QED
  BY <1>1, <1>2, <1>3, <1>4, <1>5, <1>6, <1>7 DEF Next

LEMMA EvidenceInvariant == Spec => []EvidenceInv
<1>1. Init => EvidenceInv
  BY InitEvidence
<1>2. EvidenceInv /\ [Next]_vars => EvidenceInv'
  BY NextEvidence
<1>3. QED
  BY <1>1, <1>2, PTL DEF Spec

----------------------------------------------------------------------------
(* What a request sends is said of its shape, whether or not an advisory   *)
(* was appended to its last message.                                       *)
LEMMA EndingParts ==
  ASSUME NEW body \in Body, NEW inject \in BOOLEAN
  PROVE  /\ Ending(body, inject) \in Body
         /\ Ending(body, inject).messages = body.messages
         /\ Ending(body, inject).instructions = body.instructions
         /\ Ending(body, inject).marks = body.marks
<1>1. HasParts(body)
  BY BodyParts
<1>2. Ending(body, inject) =
        [protocol |-> body.protocol, instructions |-> body.instructions,
         messages |-> body.messages, marks |-> body.marks, advised |-> inject]
  BY <1>1 DEF Ending, HasParts
<1>3. QED
  BY <1>1, <1>2 DEF HasParts, Body

LEMMA SentParts ==
  ASSUME EvidenceInv, NEW r \in Request, op[r].pc # "new"
  PROVE  /\ op[r].asked \in Body /\ op[r].config \in Config
         /\ op[r].sent.messages = Shaped(op[r].asked, op[r].config).messages
         /\ op[r].sent.instructions = Shaped(op[r].asked, op[r].config).instructions
         /\ op[r].sent.marks = Shaped(op[r].asked, op[r].config).marks
<1>1. TypeOK /\ SentShaped
  BY DEF EvidenceInv
<1>2. /\ op[r] # New
      /\ op[r].asked \in Body /\ op[r].config \in Config /\ op[r].sent \in Body
  BY <1>1, NotNew, HandlingParts
<1> DEFINE shaped == Shaped(op[r].asked, op[r].config)
<1> HIDE DEF shaped
<1>3. shaped \in Body /\ op[r].sent.advised \in BOOLEAN
  BY <1>2, ShapedParts DEF shaped, Body
<1>4. op[r].sent = Ending(shaped, op[r].sent.advised)
  BY <1>1, <1>2 DEF SentShaped, Ending, shaped
<1>5. /\ op[r].sent.messages = shaped.messages
      /\ op[r].sent.instructions = shaped.instructions
      /\ op[r].sent.marks = shaped.marks
  BY <1>3, <1>4, EndingParts
<1>6. QED
  BY <1>2, <1>5 DEF shaped

(* What a report of a body's shape does not see.                           *)
LEMMA IntactAlike ==
  ASSUME NEW sent, NEW shaped, NEW asked, NEW config,
         sent.messages = shaped.messages, sent.instructions = shaped.instructions,
         sent.marks = shaped.marks, Intact(shaped, asked, config)
  PROVE  Intact(sent, asked, config)
<1>1. Texts(sent) = Texts(shaped) /\ Breakpoints(sent) = Breakpoints(shaped)
  BY DEF Texts, Breakpoints
<1>2. QED
  BY <1>1 DEF Intact

LEMMA StablePrompt == EvidenceInv => PromptStable
<1> SUFFICES ASSUME EvidenceInv, NEW r \in Request, op[r].pc = "sent"
             PROVE  /\ Intact(op[r].sent, op[r].asked, op[r].config)
                    /\ Breakpoints(op[r].asked) < Limit =>
                         \A s \in {q \in Request :
                                     op[q].pc \in {"sent", "answered", "failed"}} :
                           /\ op[r].config = op[s].config
                           /\ op[r].asked.protocol = op[s].asked.protocol
                           /\ op[r].asked.instructions = op[s].asked.instructions
                           /\ Breakpoints(op[s].asked) < Limit
                           => op[r].sent.instructions = op[s].sent.instructions
  BY DEF PromptStable
<1>1. /\ op[r].asked \in Body /\ op[r].config \in Config
      /\ op[r].sent.messages = Shaped(op[r].asked, op[r].config).messages
      /\ op[r].sent.instructions = Shaped(op[r].asked, op[r].config).instructions
      /\ op[r].sent.marks = Shaped(op[r].asked, op[r].config).marks
  BY SentParts
<1>2. Intact(op[r].sent, op[r].asked, op[r].config)
  <2>1. Intact(Shaped(op[r].asked, op[r].config), op[r].asked, op[r].config)
    BY <1>1, ShapedIntact
  <2>2. QED
    BY <1>1, <2>1, IntactAlike
<1>3. ASSUME NEW s \in Request, op[s].pc \in {"sent", "answered", "failed"},
             op[r].config = op[s].config,
             op[r].asked.protocol = op[s].asked.protocol,
             op[r].asked.instructions = op[s].asked.instructions,
             Breakpoints(op[r].asked) < Limit, Breakpoints(op[s].asked) < Limit
      PROVE  op[r].sent.instructions = op[s].sent.instructions
  <2>1. op[s].pc # "new"
    BY <1>3
  <2>2. /\ op[s].asked \in Body
        /\ op[s].sent.instructions = Shaped(op[s].asked, op[s].config).instructions
    BY <2>1, SentParts
  <2>3. Shaped(op[r].asked, op[r].config).instructions =
          Shaped(op[s].asked, op[r].config).instructions
    BY <1>1, <1>3, <2>2, ShapedStable
  <2>4. QED
    BY <1>1, <1>3, <2>2, <2>3
<1>4. QED
  BY <1>2, <1>3

----------------------------------------------------------------------------
(* Ledgers from before the experiment leave its arms to this proxy.        *)
LEMMA TruthfulArms ==
  ASSUME \A i \in DOMAIN Old.transcript : Old.transcript[i].arm = None
  PROVE  EvidenceInv => ArmsTruthful
<1> SUFFICES ASSUME EvidenceInv PROVE ArmsTruthful
  OBVIOUS
<1>1. /\ LedgersKept /\ ArmsRecorded /\ AdvisedEarned /\ GrantsOwn
      /\ Registry!AdvisedOnce
  BY DEF EvidenceInv, Registry!IInv
<1>2. ASSUME NEW id \in InArm(transcript, "inject")
      PROVE  \E r \in Of(id) : op[r].sent.advised
  <2>1. id \in Sessions(transcript) /\ ArmsOf(transcript, id) = {"inject"}
    BY DEF InArm
  <2>2. PICK i \in DOMAIN transcript : transcript[i].id = id /\ transcript[i].arm = "inject"
    BY <2>1 DEF ArmsOf
  <2>3. i \notin DOMAIN Old.transcript
    BY <1>1, <2>2 DEF LedgersKept, None
  <2>4. PICK r \in Request : op[r].sent.advised /\ GrantOf(r).id = id
    BY <1>1, <2>2, <2>3 DEF ArmsRecorded
  <2>5. QED
    BY <2>4 DEF Of
<1>3. ASSUME NEW id \in InArm(transcript, "record_only"), NEW r \in Request,
             op[r] # New /\ GrantOf(r).id = id /\ op[r].sent.advised
      PROVE  "user" \notin op[r].landed
  <2>1. ArmsOf(transcript, id) = {"record_only"}
    BY DEF InArm
  <2>2. SUFFICES ASSUME "user" \in op[r].landed PROVE FALSE
    OBVIOUS
  <2>3. PICK i \in DOMAIN transcript : transcript[i].id = id /\ transcript[i].arm = "inject"
    BY <1>1, <1>3, <2>2 DEF ArmsRecorded
  <2>4. "inject" \in ArmsOf(transcript, id)
    BY <2>3 DEF ArmsOf, None
  <2>5. QED
    BY <2>1, <2>4
<1>4. ASSUME NEW r \in Request, NEW s \in Request,
             op[r] # New /\ op[r].sent.advised, op[s] # New /\ op[s].sent.advised
      PROVE  /\ Starts(r) /\ InjectionEnabled(op[r].config)
             /\ GrantOf(r).id = GrantOf(s).id /\ GrantOf(r).epoch = GrantOf(s).epoch
                  => r = s
  <2>1. /\ GrantOf(r) \in advised /\ Starts(r) /\ InjectionEnabled(op[r].config)
        /\ GrantOf(s) \in advised
        /\ op[r].asked.protocol # "codex" /\ op[s].asked.protocol # "codex"
    BY <1>1, <1>4 DEF AdvisedEarned
  <2>2. GrantOf(r).req = r /\ GrantOf(s).req = s
    BY <1>1, <1>4, <2>1 DEF GrantsOwn
  <2>3. GrantOf(r).id = GrantOf(s).id /\ GrantOf(r).epoch = GrantOf(s).epoch
          => GrantOf(r) = GrantOf(s)
    BY <1>1, <2>1 DEF Registry!AdvisedOnce
  <2>4. QED
    BY <2>1, <2>2, <2>3
<1>5. QED
  BY <1>2, <1>3, <1>4 DEF ArmsTruthful

----------------------------------------------------------------------------
(* The first record of a version                                           *)

LEMMA LeastNatural ==
  ASSUME NEW T, T \subseteq Nat, T # {}
  PROVE  \E m \in T : \A k \in T : m <= k
<1> DEFINE R == OpToRel(<, Nat)
<1>1. IsWellFoundedOn(R, Nat)
  BY NatLessThanWellFounded
<1>2. \A x, y \in Nat : x < y => <<x, y>> \in R
  BY DEF OpToRel
<1> HIDE DEF R
<1>3. PICK m \in T : \A k \in T : ~(<<k, m>> \in R)
  BY <1>1, WFMin
<1>4. \A k \in T : ~(k < m)
  BY <1>2, <1>3
<1>5. ASSUME NEW k \in T PROVE m <= k
  BY <1>4
<1>6. QED
  BY <1>5

(* What Min returns.                                                       *)
LEMMA MinNatural ==
  ASSUME NEW T, T \subseteq Nat, T # {}
  PROVE  /\ Min(T) \in T /\ \A k \in T : Min(T) <= k
         /\ \A m \in T : (\A k \in T : m <= k) => m = Min(T)
<1>1. \E m \in T : \A k \in T : m <= k
  BY LeastNatural
<1>2. Min(T) \in T /\ \A k \in T : Min(T) <= k
  BY <1>1 DEF Min
<1>3. ASSUME NEW m \in T, \A k \in T : m <= k PROVE m = Min(T)
  <2> DEFINE n == Min(T)
  <2> HIDE DEF n
  <2>1. n \in T /\ n <= m
    BY <1>2 DEF n
  <2>2. m <= n
    BY <1>3, <2>1
  <2>3. m \in Nat /\ n \in Nat
    BY <2>1
  <2>4. QED
    BY <2>1, <2>2, <2>3 DEF n
<1>4. QED
  BY <1>2, <1>3

(* Records appended to the ledger leave the first of its versions where it *)
(* is, and come after it.                                                  *)
LEMMA FirstStays ==
  ASSUME NEW H \in Seq(Measured), NEW K \in Seq(Measured),
         \A i \in DOMAIN H : i \in DOMAIN K /\ K[i] = H[i],
         NEW model, NEW version, Group(H, model, version) # {}
  PROVE  /\ FirstSeen(K, model, version) = FirstSeen(H, model, version)
         /\ FirstSeen(H, model, version) \in DOMAIN H
<1> DEFINE h == Group(H, model, version)
           k == Group(K, model, version)
<1>1. DOMAIN H = 1..Len(H) /\ DOMAIN K = 1..Len(K) /\ Len(H) \in Nat
  OBVIOUS
<1>2. h \subseteq DOMAIN H /\ h \subseteq Nat /\ k \subseteq Nat /\ h \subseteq k
  BY <1>1 DEF Group
<1>3. ASSUME NEW i \in k PROVE i \in h \/ i > Len(H)
  <2>1. i \in DOMAIN K /\ K[i].model = model /\ K[i].version = version
    BY DEF Group
  <2>2. CASE i \in DOMAIN H
    BY <2>1, <2>2 DEF Group
  <2>3. CASE i \notin DOMAIN H
    BY <1>1, <2>1, <2>3
  <2>4. QED
    BY <2>2, <2>3
<1> DEFINE m == Min(h)
<1> HIDE DEF h, k
<1>4. h # {} /\ k # {}
  BY <1>2 DEF h
<1>5. m \in h /\ \A i \in h : m <= i
  BY <1>2, <1>4, MinNatural
<1>6. m \in k /\ \A i \in k : m <= i
  <2>1. m \in 1..Len(H)
    BY <1>1, <1>2, <1>5
  <2>2. ASSUME NEW i \in k PROVE m <= i
    BY <1>1, <1>2, <1>3, <1>5, <2>1
  <2>3. QED
    BY <1>2, <1>5, <2>2
<1>7. m = Min(k)
  BY <1>2, <1>4, <1>6, MinNatural
<1>8. QED
  BY <1>2, <1>5, <1>7 DEF FirstSeen, h, k

LEMMA BaselineStays ==
  ASSUME NEW H \in Seq(Measured), NEW K \in Seq(Measured),
         \A i \in DOMAIN H : i \in DOMAIN K /\ K[i] = H[i], NEW n \in DOMAIN H
  PROVE  Baseline(K, H[n].model, H[n].version) = Baseline(H, H[n].model, H[n].version)
<1> DEFINE model == H[n].model
           version == H[n].version
<1> HIDE DEF model, version
<1>1. DOMAIN H = 1..Len(H) /\ DOMAIN K = 1..Len(K) /\ Len(H) \in Nat
  OBVIOUS
<1>2. ASSUME NEW v \in Versions(H, model)
      PROVE  /\ v \in Versions(K, model)
             /\ FirstSeen(K, model, v) = FirstSeen(H, model, v)
             /\ FirstSeen(H, model, v) \in DOMAIN H
  <2>1. PICK j \in DOMAIN H : H[j].model = model /\ v = H[j].version
    BY DEF Versions
  <2>2. j \in Group(H, model, v)
    BY <2>1 DEF Group
  <2>3. v \in Versions(K, model)
    BY <2>1 DEF Versions
  <2>4. QED
    BY <2>2, <2>3, FirstStays
<1>3. version \in Versions(H, model)
  BY DEF Versions, model, version
<1>4. ASSUME NEW v \in Versions(K, model), v \notin Versions(H, model)
      PROVE  FirstSeen(K, model, v) > Len(H)
  <2>1. PICK j \in DOMAIN K : K[j].model = model /\ v = K[j].version
    BY DEF Versions
  <2> DEFINE k == Group(K, model, v)
  <2>2. j \in k /\ k \subseteq Nat
    BY <1>1, <2>1 DEF Group
  <2>3. ASSUME NEW i \in k PROVE i > Len(H)
    <3>1. i \in DOMAIN K /\ K[i].model = model /\ K[i].version = v
      BY DEF Group
    <3>2. i \notin DOMAIN H
      BY <1>4, <3>1 DEF Versions
    <3>3. QED
      BY <1>1, <3>1, <3>2
  <2> HIDE DEF k
  <2>4. Min(k) \in k
    BY <2>2, MinNatural
  <2>5. QED
    BY <2>3, <2>4 DEF FirstSeen, k
<1>5. Earlier(K, model, version) = Earlier(H, model, version)
  <2>1. ASSUME NEW v \in Earlier(K, model, version)
        PROVE  v \in Earlier(H, model, version)
    <3>1. /\ v \in Versions(K, model)
          /\ FirstSeen(K, model, v) < FirstSeen(K, model, version)
      BY DEF Earlier
    <3>2. /\ FirstSeen(K, model, version) = FirstSeen(H, model, version)
          /\ FirstSeen(H, model, version) \in 1..Len(H)
      BY <1>1, <1>2, <1>3
    <3>3. v \in Versions(H, model)
      <4>1. SUFFICES ASSUME v \notin Versions(H, model) PROVE FALSE
        OBVIOUS
      <4>2. FirstSeen(K, model, v) > Len(H) /\ FirstSeen(K, model, v) \in Nat
        <5>1. FirstSeen(K, model, v) > Len(H)
          BY <1>4, <3>1, <4>1
        <5>2. Group(K, model, v) \subseteq Nat /\ Group(K, model, v) # {}
          BY <1>1, <3>1 DEF Group, Versions
        <5>3. QED
          BY <5>1, <5>2, MinNatural DEF FirstSeen
      <4>3. QED
        BY <1>1, <3>1, <3>2, <4>2
    <3>4. FirstSeen(K, model, v) = FirstSeen(H, model, v)
      BY <1>2, <3>3
    <3>5. QED
      BY <3>1, <3>2, <3>3, <3>4 DEF Earlier
  <2>2. ASSUME NEW v \in Earlier(H, model, version)
        PROVE  v \in Earlier(K, model, version)
    <3>1. /\ v \in Versions(H, model)
          /\ FirstSeen(H, model, v) < FirstSeen(H, model, version)
      BY DEF Earlier
    <3>2. /\ v \in Versions(K, model)
          /\ FirstSeen(K, model, v) = FirstSeen(H, model, v)
          /\ FirstSeen(K, model, version) = FirstSeen(H, model, version)
      BY <1>2, <1>3, <3>1
    <3>3. QED
      BY <3>1, <3>2 DEF Earlier
  <2>3. QED
    BY <2>1, <2>2
<1>6. \A v \in Earlier(H, model, version) :
        FirstSeen(K, model, v) = FirstSeen(H, model, v)
  BY <1>2 DEF Earlier
<1>7. Baseline(K, model, version) = Baseline(H, model, version)
  BY <1>5, <1>6 DEF Baseline
<1>8. QED
  BY <1>7 DEF model, version

(* Only an answer adds to the ledger of health, and only at its end.       *)
LEMMA HealthKept ==
  ASSUME EvidenceInv, [Next]_vars
  PROVE  /\ health \in Seq(Measured) /\ health' \in Seq(Measured)
         /\ \A i \in DOMAIN health : i \in DOMAIN health' /\ health'[i] = health[i]
<1>1. health \in Seq(Measured)
  BY DEF EvidenceInv, LedgersKept
<1>2. EvidenceInv'
  BY NextEvidence
<1>3. health' \in Seq(Measured)
  BY <1>2 DEF EvidenceInv, LedgersKept
<1>4. \A i \in DOMAIN health : i \in DOMAIN health' /\ health'[i] = health[i]
  <2>1. CASE health' = health
    BY <2>1
  <2>2. CASE health' # health
    <3>1. PICK r \in Request, answer \in Answers : Answer(r, answer)
      BY <2>2
         DEF Next, vars, ledgers, Receive, ReceiveCodex, Send, PassOn, Restart
    <3>2. PICK landed : health' = With(health, "health", HealthRow(r), landed)
      BY <3>1 DEF Answer
    <3>3. health' = Append(health, HealthRow(r))
      BY <2>2, <3>2 DEF With
    <3>4. QED
      BY <1>1, <3>3
  <2>3. QED
    BY <2>1, <2>2
<1>5. QED
  BY <1>1, <1>3, <1>4

----------------------------------------------------------------------------
(* Every request, grant and record is of its type, and the ledgers hold    *)
(* nothing of this proxy without the session and turn of a request.        *)
THEOREM TypeCorrect == Spec => []TypeOK
<1>1. EvidenceInv => TypeOK
  BY DEF EvidenceInv
<1>2. QED
  BY <1>1, EvidenceInvariant, PTL

(* What inject_and_verify_constraints and place_anthropic_cache_breakpoint *)
(* make of a body leaves what the client asked intact, and the same        *)
(* instructions under the same settings go upstream the same, on every     *)
(* route and through restarts.                                             *)
THEOREM PromptStays == Spec => []PromptStable
BY StablePrompt, EvidenceInvariant, PTL

(* Over ledgers from before the experiment, the arm a session's records    *)
(* have is what became of its requests: first_turn_advisory sends the      *)
(* advisory once in a run, at the start of a conversation, and records     *)
(* what it did, not what was drawn.                                        *)
THEOREM ArmsHonest ==
  ASSUME \A i \in DOMAIN Old.transcript : Old.transcript[i].arm = None
  PROVE  Spec => []ArmsTruthful
<1>1. EvidenceInv => ArmsTruthful
  BY TruthfulArms
<1>2. QED
  BY <1>1, EvidenceInvariant, PTL

(* format_health compares a version with the same one however many records *)
(* are appended, of whatever version.                                      *)
THEOREM BaselinesStay == Spec => BaselineStable
<1>1. EvidenceInv /\ [Next]_vars =>
        [\A i \in DOMAIN health :
           Baseline(health', health[i].model, health[i].version) =
             Baseline(health, health[i].model, health[i].version)]_health
  BY HealthKept, BaselineStays
<1>2. QED
  BY <1>1, EvidenceInvariant, PTL DEF Spec, BaselineStable
============================================================================
