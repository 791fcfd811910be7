----------------------- MODULE SessionRegistryProofs -----------------------
(***************************************************************************)
(* TLAPS proofs about SessionRegistry: type correctness and its invariants *)
(* for every set of messages, histories and requests, every TTL, every     *)
(* ceiling and every behaviour of the wall clock.                          *)
(***************************************************************************)
EXTENDS SessionRegistry, FiniteSetTheorems, TLAPS

----------------------------------------------------------------------------
(* The registry's operators *)

(* Eviction only drops entries: what it keeps is unchanged.                *)
LEMMA EvictedKeeps ==
  ASSUME NEW S, IsRegistry(S), NEW t \in Nat, NEW T \in Evicted(S, t)
  PROVE  /\ IsRegistry(T)
         /\ DOMAIN T \subseteq DOMAIN S
         /\ \A id \in DOMAIN T : T[id] = S[id]
<1>1. PICK kept \in Survivors(S, t) : T = Restrict(S, kept)
  BY DEF Evicted
<1>2. kept \subseteq DOMAIN S
  BY DEF Survivors, Active
<1>3. /\ DOMAIN T = kept
      /\ \A id \in kept : T[id] = S[id]
      /\ T = [id \in kept |-> S[id]]
  BY <1>1 DEF Restrict
<1>4. IsFiniteSet(kept)
  BY <1>2, FS_Subset DEF IsRegistry
<1>5. QED
  BY <1>2, <1>3, <1>4 DEF IsRegistry

(* Storing an entry under an id keeps a registry a registry.               *)
LEMMA PutType ==
  ASSUME NEW S, IsRegistry(S), NEW id \in SessionId, NEW entry \in Entry
  PROVE  /\ IsRegistry(Put(S, id, entry))
         /\ DOMAIN Put(S, id, entry) = DOMAIN S \cup {id}
         /\ Put(S, id, entry)[id] = entry
         /\ \A o \in DOMAIN S : o # id => Put(S, id, entry)[o] = S[o]
<1>1. IsFiniteSet(DOMAIN S \cup {id})
  BY FS_AddElement DEF IsRegistry
<1>2. QED
  BY <1>1 DEF Put, IsRegistry

LEMMA EntryOfType ==
  ASSUME NEW S, IsRegistry(S), NEW id, NEW t \in Nat
  PROVE  EntryOf(S, id, t) \in Entry
BY DEF EntryOf, NewEntry, Entry, IsRegistry

(* A session that select works on is the one matched, or new.              *)
LEMMA SelectedId ==
  ASSUME NEW S, IsRegistry(S), NEW h \in Seq(Message), NEW n \in Nat, NEW id,
         Existing(S, h, id) \/ id = NewId(h, n)
  PROVE  /\ id \in SessionId
         /\ Existing(S, h, id) => id \in DOMAIN S /\ id \in Related(S, h)
<1>1. Existing(S, h, id) => id \in DOMAIN S /\ id \in Related(S, h)
  BY DEF Existing, BestMatches, Related
<1>2. QED
  BY <1>1 DEF NewId, SessionId, IsRegistry

(* If the first messages of a registry's histories are distinct, a request *)
(* that matches no unique session is related to none at all.               *)
LEMMA FreshUnrelated ==
  ASSUME NEW S, IsRegistry(S), DistinctFirst(S),
         NEW h \in Seq(Message), Fresh(S, h)
  PROVE  Related(S, h) = {}
<1>1. SUFFICES ASSUME NEW id \in Related(S, h)
               PROVE  FALSE
  OBVIOUS
<1>2. ASSUME NEW o \in Related(S, h)
      PROVE  o = id
  <2>1. /\ S[id].history \in Seq(Message)
        /\ S[o].history \in Seq(Message)
    BY DEF Related, IsRegistry, Entry
  <2>2. /\ Len(S[id].history) > 0
        /\ Len(S[o].history) > 0
        /\ S[id].history[1] = S[o].history[1]
    BY <2>1 DEF Related, SharesPrefix
  <2>3. QED
    BY <2>2 DEF DistinctFirst, Related
<1>3. AtLeastAsClose(h, S[id].history, S[id].history)
  BY DEF AtLeastAsClose
<1>4. BestMatches(S, h) = {id}
  BY <1>2, <1>3 DEF BestMatches
<1>5. QED
  BY <1>4 DEF Fresh

(* Eviction leaves at most MaxSessions entries, all active, and every      *)
(* active entry if that is not more than MaxSessions; an entry it drops    *)
(* was idle or no more recently accessed than any it kept.                 *)
LEMMA EvictedBounds ==
  ASSUME NEW S, IsRegistry(S), NEW t \in Nat, NEW T \in Evicted(S, t)
  PROVE  /\ Cardinality(DOMAIN T) <= MaxSessions
         /\ \A id \in DOMAIN T : IdleFor(T[id], t) <= Ttl
         /\ Cardinality(DOMAIN S) <= MaxSessions => DOMAIN T = Active(S, t)
         /\ \A gone \in DOMAIN S \ DOMAIN T :
              \/ IdleFor(S[gone], t) > Ttl
              \/ \A id \in DOMAIN T : S[gone].access <= T[id].access
<1> DEFINE active == Active(S, t)
<1>1. PICK kept \in Survivors(S, t) : T = Restrict(S, kept)
  BY DEF Evicted
<1>2. DOMAIN T = kept /\ \A id \in kept : T[id] = S[id]
  BY <1>1 DEF Restrict
<1>3. active \subseteq DOMAIN S /\ IsFiniteSet(active)
  BY FS_Subset DEF Active, IsRegistry
<1>4. \A id \in DOMAIN S : IdleFor(S[id], t) \in Nat
  BY DEF IsRegistry, Entry, IdleFor
<1>5. /\ Cardinality(active) \in Nat
      /\ Cardinality(DOMAIN S) \in Nat
      /\ Cardinality(active) <= Cardinality(DOMAIN S)
  BY <1>3, FS_CardinalityType, FS_Subset DEF IsRegistry
<1>6. CASE Cardinality(active) <= MaxSessions
  <2>1. kept = active
    BY <1>6 DEF Survivors
  <2>2. \A id \in DOMAIN S \ active : IdleFor(S[id], t) > Ttl
    BY <1>4, RegistryAssumption DEF Active
  <2>3. \A id \in active : IdleFor(S[id], t) <= Ttl
    BY DEF Active
  <2>4. QED
    BY <1>2, <1>3, <1>6, <2>1, <2>2, <2>3
<1>7. CASE ~(Cardinality(active) <= MaxSessions)
  <2>1. /\ kept \subseteq active
        /\ Cardinality(kept) = MaxSessions
        /\ \A id \in kept, gone \in active \ kept : S[gone].access <= S[id].access
    BY <1>7 DEF Survivors
  <2>2. \A id \in DOMAIN S \ active : IdleFor(S[id], t) > Ttl
    BY <1>4, RegistryAssumption DEF Active
  <2>3. \A id \in active : IdleFor(S[id], t) <= Ttl
    BY DEF Active
  <2>4. ~(Cardinality(DOMAIN S) <= MaxSessions)
    BY <1>5, <1>7, RegistryAssumption
  <2> HIDE DEF active
  <2>5. /\ Cardinality(DOMAIN T) <= MaxSessions
        /\ \A id \in DOMAIN T : IdleFor(T[id], t) <= Ttl
    BY <1>2, <2>1, <2>3, RegistryAssumption
  <2>6. \A gone \in DOMAIN S \ DOMAIN T :
          \/ IdleFor(S[gone], t) > Ttl
          \/ \A id \in DOMAIN T : S[gone].access <= T[id].access
    BY <1>2, <2>1, <2>2
  <2>7. QED
    BY <2>4, <2>5, <2>6
<1>8. QED
  BY <1>6, <1>7

----------------------------------------------------------------------------
(* The registry of a process *)

(* The entry open_*_session leaves for the request's session.              *)
LEMMA ReservedType ==
  ASSUME now \in Nat, NEW entry \in Entry, NEW B \in SUBSET Blob
  PROVE  /\ Reserved(entry, B) \in Entry
         /\ Reserved(entry, B).turn = entry.turn + 1
         /\ Reserved(entry, B).history = entry.history
         /\ Reserved(entry, B).attempted = entry.attempted
<1>1. /\ entry.turn + 1 \in Nat
      /\ entry.seen \cup B \subseteq Blob
  BY DEF Entry
<1>2. QED
  BY <1>1 DEF Reserved, Entry

LEMMA RecordedType ==
  ASSUME now \in Nat, NEW entry \in Entry, NEW h \in Seq(Message)
  PROVE  /\ Recorded(entry, h) \in Entry
         /\ Recorded(entry, h).turn = entry.turn
         /\ Recorded(entry, h).history = h
         /\ Recorded(entry, h).attempted = entry.attempted
BY DEF Recorded, Entry

(* What selecting a session and reserving a turn in it establishes: the    *)
(* turn is new to the session, an earlier advisory is remembered, and no   *)
(* other session's history opens with the request's first message.         *)
TurnReserved(S, h, id, entry) ==
  /\ IsRegistry(S)
  /\ DOMAIN S \subseteq DOMAIN sessions
  /\ \A o \in DOMAIN S : S[o] = sessions[o]
  /\ id \in SessionId
  /\ entry \in Entry
  /\ nextId' \in Nat
  /\ nextId <= nextId'
  /\ id.n <= nextId'
  /\ \A g \in grants : g.epoch = epoch /\ g.id = id => g.turn < entry.turn
  /\ \A g \in advised : g.epoch = epoch /\ g.id = id => entry.attempted
  /\ ~Collides(S, h)
  /\ entry.history = EntryOf(S, id, now).history
  /\ \A o \in DOMAIN S :
       o # id /\ Len(h) > 0 /\ Len(S[o].history) > 0
         => S[o].history[1] # h[1]

LEMMA OpenStep ==
  ASSUME IInv, NEW h \in History, NEW B \in SUBSET Blob,
         NEW S \in Evicted(sessions, now),
         NEW id \in DOMAIN S \cup {NewId(h, nextId)},
         Select(S, h, id)
  PROVE  TurnReserved(S, h, id, Reserved(EntryOf(S, id, now), B))
<1> DEFINE entry == Reserved(EntryOf(S, id, now), B)
<1> SUFFICES TurnReserved(S, h, id, entry)
  OBVIOUS
<1> USE DEF IInv, TypeOK
<1>1. /\ IsRegistry(S)
      /\ DOMAIN S \subseteq DOMAIN sessions
      /\ \A o \in DOMAIN S : S[o] = sessions[o]
  BY EvictedKeeps
<1>2. h \in Seq(Message)
  BY SessionAssumption
<1>3. /\ EntryOf(S, id, now) \in Entry
      /\ entry \in Entry
      /\ entry.turn = EntryOf(S, id, now).turn + 1
      /\ entry.history = EntryOf(S, id, now).history
      /\ entry.attempted = EntryOf(S, id, now).attempted
  BY <1>1, EntryOfType, ReservedType
<1> HIDE DEF entry
<1>4. DistinctFirst(S)
  BY <1>1 DEF DistinctFirst
<1>5. \A g \in grants : g \in Grant /\ g.id \in SessionId /\ g.turn \in Nat
  BY DEF Grant
<1>6. CASE Existing(S, h, id) /\ nextId' = nextId
  <2>1. /\ id \in Related(S, h)
        /\ id \in DOMAIN S
    BY <1>6 DEF Existing, BestMatches, Related
  <2>2. /\ id \in SessionId
        /\ id.n <= nextId'
    BY <2>1, <1>1, <1>6 DEF IsRegistry, IdsIssued
  <2>3. EntryOf(S, id, now) = sessions[id]
    BY <2>1, <1>1 DEF EntryOf
  <2>4. \A g \in grants : g.epoch = epoch /\ g.id = id => g.turn < entry.turn
    BY <2>1, <2>3, <1>1, <1>3, <1>5 DEF TurnsCovered, IsRegistry, Entry
  <2>5. \A g \in advised : g.epoch = epoch /\ g.id = id => entry.attempted
    BY <2>1, <2>3, <1>1, <1>3 DEF AdvisedMarked
  <2>6. ~Collides(S, h)
    BY <1>6 DEF Existing, Collides, Fresh
  <2>7. ASSUME NEW o \in DOMAIN S, o # id, Len(h) > 0, Len(S[o].history) > 0
        PROVE  S[o].history[1] # h[1]
    <3>1. /\ Len(S[id].history) > 0
          /\ S[id].history[1] = h[1]
      BY <2>1, <1>1, <1>2 DEF Related, SharesPrefix, IsRegistry, Entry
    <3>2. QED
      BY <3>1, <2>1, <2>7, <1>4 DEF DistinctFirst
  <2>8. QED
    BY <1>1, <1>3, <1>6, <2>2, <2>4, <2>5, <2>6, <2>7 DEF TurnReserved
<1>7. CASE Fresh(S, h) /\ id = NewId(h, nextId) /\ nextId' = nextId + 1
  <2>1. /\ id \in SessionId
        /\ id.n = nextId + 1
    BY <1>7, <1>2 DEF NewId, SessionId
  <2>2. \A g \in grants : g.epoch = epoch => g.id # id
    BY <2>1, <1>5 DEF IdsIssued, SessionId
  <2>3. Related(S, h) = {}
    BY <1>1, <1>2, <1>4, <1>7, FreshUnrelated
  <2>4. ~Collides(S, h)
    BY <2>3 DEF Collides
  <2>5. ASSUME NEW o \in DOMAIN S, o # id, Len(h) > 0, Len(S[o].history) > 0
        PROVE  S[o].history[1] # h[1]
    <3>1. ~SharesPrefix(h, S[o].history, 1)
      BY <2>3 DEF Related
    <3>2. QED
      BY <3>1, <2>5, <1>1, <1>2 DEF SharesPrefix, IsRegistry, Entry
  <2>6. QED
    BY <1>1, <1>3, <1>7, <2>1, <2>2, <2>4, <2>5 DEF TurnReserved
<1>8. QED
  BY <1>6, <1>7 DEF Select

(* The registry that open_*_session leaves, whether it ran to its second   *)
(* eviction or panicked before: sessions' keeps a part of S with the       *)
(* session's entry put in.                                                 *)
LEMMA StoredStep ==
  ASSUME IInv, NEW S, NEW h \in Seq(Message), NEW id, NEW entry,
         TurnReserved(S, h, id, entry),
         NEW stored \in Entry,
         stored.turn = entry.turn,
         stored.attempted = entry.attempted,
         stored.history \in {h, entry.history},
         epoch' = epoch, advised' = advised,
         IsRegistry(sessions'),
         DOMAIN sessions' \subseteq DOMAIN Put(S, id, stored),
         \A o \in DOMAIN sessions' : sessions'[o] = Put(S, id, stored)[o]
  PROVE  /\ DistinctFirst(sessions)'
         /\ AdvisedMarked'
         /\ \A o \in DOMAIN sessions' : o.n <= nextId'
         /\ \A g \in grants : g.epoch = epoch /\ g.id \in DOMAIN sessions'
                             => g.turn <= sessions'[g.id].turn
         /\ id \in DOMAIN sessions' => sessions'[id] = stored
<1>1. /\ IsRegistry(S)
      /\ DOMAIN S \subseteq DOMAIN sessions
      /\ \A o \in DOMAIN S : S[o] = sessions[o]
      /\ id \in SessionId
      /\ entry \in Entry
      /\ nextId' \in Nat
      /\ nextId <= nextId'
      /\ id.n <= nextId'
      /\ \A g \in grants : g.epoch = epoch /\ g.id = id => g.turn < entry.turn
      /\ \A g \in advised : g.epoch = epoch /\ g.id = id => entry.attempted
      /\ entry.history = EntryOf(S, id, now).history
      /\ \A o \in DOMAIN S :
           o # id /\ Len(h) > 0 /\ Len(S[o].history) > 0
             => S[o].history[1] # h[1]
  BY DEF TurnReserved
<1>2. \A o \in DOMAIN sessions' :
        \/ o = id /\ sessions'[o] = stored
        \/ o # id /\ o \in DOMAIN S /\ sessions'[o] = S[o]
  BY DEF Put
<1>3. /\ DistinctFirst(sessions)
      /\ DistinctFirst(S)
  <2>1. DistinctFirst(sessions)
    BY DEF IInv
  <2>2. QED
    BY <1>1, <2>1 DEF DistinctFirst
<1>4. \A g \in grants : g.turn \in Nat
  BY DEF IInv, TypeOK, Grant
<1>5. ASSUME NEW o \in DOMAIN S, o # id, Len(S[o].history) > 0,
             Len(stored.history) > 0
      PROVE  S[o].history[1] # stored.history[1]
  <2>1. CASE stored.history = h
    BY <1>1, <1>5, <2>1
  <2>2. CASE stored.history = EntryOf(S, id, now).history /\ id \in DOMAIN S
    <3>1. stored.history = S[id].history
      BY <2>2 DEF EntryOf
    <3>2. QED
      BY <3>1, <2>2, <1>3, <1>5 DEF DistinctFirst
  <2>3. CASE stored.history = EntryOf(S, id, now).history /\ id \notin DOMAIN S
    <3>1. stored.history = << >>
      BY <2>3 DEF EntryOf, NewEntry
    <3>2. QED
      BY <3>1, <1>5
  <2>4. QED
    BY <1>1, <2>1, <2>2, <2>3
<1>6. DistinctFirst(sessions')
  <2>1. SUFFICES ASSUME NEW i \in DOMAIN sessions', NEW j \in DOMAIN sessions',
                        Len(sessions'[i].history) > 0,
                        Len(sessions'[j].history) > 0,
                        sessions'[i].history[1] = sessions'[j].history[1],
                        i # j
                 PROVE  FALSE
    BY DEF DistinctFirst
  <2>2. CASE i = id
    BY <1>2, <1>5, <2>1, <2>2
  <2>3. CASE j = id
    BY <1>2, <1>5, <2>1, <2>3
  <2>4. CASE i # id /\ j # id
    BY <1>2, <1>3, <2>1, <2>4 DEF DistinctFirst
  <2>5. QED
    BY <2>2, <2>3, <2>4
<1>7. AdvisedMarked'
  <2>1. SUFFICES ASSUME NEW g \in advised, g.epoch = epoch,
                        g.id \in DOMAIN sessions'
                 PROVE  sessions'[g.id].attempted
    BY DEF AdvisedMarked
  <2>2. CASE g.id = id
    BY <1>1, <1>2, <2>1, <2>2
  <2>3. CASE g.id # id
    BY <1>1, <1>2, <2>1, <2>3 DEF IInv, AdvisedMarked
  <2>4. QED
    BY <2>2, <2>3
<1>8. ASSUME NEW o \in DOMAIN sessions'
      PROVE  o.n <= nextId'
  <2>1. CASE o = id
    BY <1>1, <2>1
  <2>2. CASE o \in DOMAIN S
    BY <1>1, <2>2 DEF IInv, TypeOK, IsRegistry, IdsIssued, SessionId
  <2>3. QED
    BY <1>2, <2>1, <2>2
<1>9. ASSUME NEW g \in grants, g.epoch = epoch, g.id \in DOMAIN sessions'
      PROVE  g.turn <= sessions'[g.id].turn
  <2>1. CASE g.id = id
    BY <1>1, <1>2, <1>4, <1>9, <2>1 DEF Entry
  <2>2. CASE g.id # id
    BY <1>1, <1>2, <1>9, <2>2 DEF IInv, TurnsCovered
  <2>3. QED
    BY <2>1, <2>2
<1>10. QED
  BY <1>2, <1>6, <1>7, <1>8, <1>9 DEF DistinctFirst

----------------------------------------------------------------------------
(* The initial states and each action keep the inductive invariant.        *)

LEMMA InitInv == Init => IInv
<1>1. SUFFICES ASSUME Init PROVE IInv
  OBVIOUS
<1>2. IsRegistry(NoSessions)
  BY FS_EmptySet DEF IsRegistry, NoSessions
<1>3. TypeOK
  BY <1>1, <1>2, SessionAssumption DEF Init, TypeOK
<1>4. DOMAIN sessions = {}
  BY <1>1 DEF Init, NoSessions
<1>5. QED
  BY <1>1, <1>3, <1>4
  DEF Init, IInv, IdsIssued, TurnsCovered, AdvisedMarked, AdvisableNow,
      DistinctFirst, TurnsJoin, AdvisedOnce, NeverCollides

LEMMA SetClockInv ==
  ASSUME IInv, NEW t \in Clock, SetClock(t)
  PROVE  IInv'
BY SessionAssumption
DEF IInv, TypeOK, IdsIssued, TurnsCovered, AdvisedMarked, AdvisableNow,
    DistinctFirst, TurnsJoin, AdvisedOnce, NeverCollides, SetClock

LEMMA OpenInv ==
  ASSUME IInv, NEW r \in Request, NEW h \in History, NEW B \in SUBSET Blob,
         Open(r, h, B)
  PROVE  IInv'
<1> PICK S \in Evicted(sessions, now) :
      \E id \in DOMAIN S \cup {NewId(h, nextId)} :
        LET entry == Reserved(EntryOf(S, id, now), B)
            grant == [req |-> r, epoch |-> epoch, id |-> id,
                      turn |-> entry.turn, history |-> h,
                      collision |-> Collides(S, h)]
        IN  /\ Select(S, h, id)
            /\ sessions' \in Evicted(Put(S, id, Recorded(entry, h)), now)
            /\ grants' = grants \cup {grant}
            /\ advisable' = advisable \cup {grant}
  BY DEF Open
<1> PICK id \in DOMAIN S \cup {NewId(h, nextId)} :
        LET entry == Reserved(EntryOf(S, id, now), B)
            grant == [req |-> r, epoch |-> epoch, id |-> id,
                      turn |-> entry.turn, history |-> h,
                      collision |-> Collides(S, h)]
        IN  /\ Select(S, h, id)
            /\ sessions' \in Evicted(Put(S, id, Recorded(entry, h)), now)
            /\ grants' = grants \cup {grant}
            /\ advisable' = advisable \cup {grant}
  OBVIOUS
<1> DEFINE entry == Reserved(EntryOf(S, id, now), B)
           grant == [req |-> r, epoch |-> epoch, id |-> id,
                     turn |-> entry.turn, history |-> h,
                     collision |-> Collides(S, h)]
           stored == Recorded(entry, h)
<1>1. /\ Select(S, h, id)
      /\ sessions' \in Evicted(Put(S, id, stored), now)
      /\ grants' = grants \cup {grant}
      /\ advisable' = advisable \cup {grant}
      /\ UNCHANGED <<now, epoch, advised, failed>>
  BY DEF Open
<1>2. TurnReserved(S, h, id, entry)
  BY <1>1, OpenStep
<1> HIDE DEF entry
<1>3. /\ now \in Nat
      /\ h \in Seq(Message)
      /\ stored \in Entry
      /\ stored.turn = entry.turn
      /\ stored.history = h
      /\ stored.attempted = entry.attempted
  BY <1>2, RecordedType, SessionAssumption DEF IInv, TypeOK, TurnReserved
<1> HIDE DEF stored
<1>4. IsRegistry(Put(S, id, stored))
  BY <1>2, <1>3, PutType DEF TurnReserved
<1>5. /\ IsRegistry(sessions')
      /\ DOMAIN sessions' \subseteq DOMAIN Put(S, id, stored)
      /\ \A o \in DOMAIN sessions' : sessions'[o] = Put(S, id, stored)[o]
  BY <1>1, <1>3, <1>4, EvictedKeeps
<1>6. /\ DistinctFirst(sessions)'
      /\ AdvisedMarked'
      /\ \A o \in DOMAIN sessions' : o.n <= nextId'
      /\ \A g \in grants : g.epoch = epoch /\ g.id \in DOMAIN sessions'
                          => g.turn <= sessions'[g.id].turn
      /\ id \in DOMAIN sessions' => sessions'[id] = stored
  BY <1>1, <1>2, <1>3, <1>5, StoredStep
<1>7. /\ grant \in Grant
      /\ grant.req = r /\ grant.epoch = epoch /\ grant.id = id
      /\ grant.turn = entry.turn /\ ~grant.collision
  <2>1. /\ epoch \in Nat
        /\ entry.turn \in Nat
        /\ id \in SessionId
        /\ Collides(S, h) = FALSE
    BY <1>2 DEF IInv, TypeOK, Entry, TurnReserved
  <2>2. QED
    BY <1>3, <2>1 DEF Grant
<1> HIDE DEF grant
<1>8. TypeOK'
  <2>1. nextId' \in Nat
    BY <1>2 DEF TurnReserved
  <2>2. QED
    BY <1>1, <1>5, <1>7, <2>1 DEF IInv, TypeOK
<1>9. \A g \in grants : g.id.n \in Nat /\ g.turn \in Nat
  BY DEF IInv, TypeOK, Grant, SessionId
<1>10. IdsIssued'
  <2>1. /\ nextId \in Nat /\ nextId' \in Nat
        /\ nextId <= nextId'
        /\ id.n <= nextId'
    BY <1>2 DEF TurnReserved, IInv, TypeOK
  <2>2. ASSUME NEW g \in grants'
        PROVE  g.epoch <= epoch' /\ (g.epoch = epoch' => g.id.n <= nextId')
    <3>1. CASE g \in grants
      BY <3>1, <1>1, <1>9, <2>1 DEF IInv, IdsIssued
    <3>2. CASE g = grant
      BY <3>2, <1>1, <1>7, <2>1 DEF IInv, TypeOK
    <3>3. QED
      BY <3>1, <3>2, <1>1
  <2>3. QED
    BY <1>6, <2>2 DEF IdsIssued
<1>11. TurnsCovered'
  <2>1. SUFFICES ASSUME NEW g \in grants', g.epoch = epoch,
                        g.id \in DOMAIN sessions'
                 PROVE  g.turn <= sessions'[g.id].turn
    BY <1>1 DEF TurnsCovered
  <2>2. CASE g = grant
    BY <2>1, <2>2, <1>2, <1>3, <1>6, <1>7 DEF TurnReserved, Entry
  <2>3. CASE g \in grants
    BY <2>1, <2>3, <1>6
  <2>4. QED
    BY <2>2, <2>3, <1>1
<1>12. AdvisableNow'
  BY <1>1, <1>7 DEF IInv, AdvisableNow
<1>13. TurnsJoin'
  <2>1. \A g \in grants : g.epoch = epoch /\ g.id = id => g.turn < entry.turn
    BY <1>2 DEF TurnReserved
  <2>2. QED
    BY <1>1, <1>3, <1>7, <1>9, <2>1 DEF IInv, TurnsJoin, Entry
<1>14. AdvisedOnce'
  BY <1>1 DEF IInv, AdvisedOnce
<1>15. NeverCollides'
  BY <1>1, <1>7 DEF IInv, NeverCollides
<1>16. QED
  BY <1>6, <1>8, <1>10, <1>11, <1>12, <1>13, <1>14, <1>15 DEF IInv

LEMMA OpenPanicsInv ==
  ASSUME IInv, NEW r \in Request, NEW h \in History, NEW B \in SUBSET Blob,
         OpenPanics(r, h, B)
  PROVE  IInv'
<1> PICK S \in Evicted(sessions, now) :
      \E id \in DOMAIN S \cup {NewId(h, nextId)} :
        /\ Select(S, h, id)
        /\ sessions' = Put(S, id, Reserved(EntryOf(S, id, now), B))
  BY DEF OpenPanics
<1> PICK id \in DOMAIN S \cup {NewId(h, nextId)} :
        /\ Select(S, h, id)
        /\ sessions' = Put(S, id, Reserved(EntryOf(S, id, now), B))
  OBVIOUS
<1> DEFINE entry == Reserved(EntryOf(S, id, now), B)
<1>1. /\ Select(S, h, id)
      /\ sessions' = Put(S, id, entry)
      /\ failed' = failed \cup {r}
      /\ UNCHANGED <<now, epoch, grants, advisable, advised>>
  BY DEF OpenPanics
<1>2. TurnReserved(S, h, id, entry)
  BY <1>1, OpenStep
<1> HIDE DEF entry
<1>3. /\ IsRegistry(S)
      /\ id \in SessionId
      /\ entry \in Entry
      /\ nextId \in Nat /\ nextId' \in Nat
      /\ nextId <= nextId'
      /\ h \in Seq(Message)
  BY <1>2, SessionAssumption DEF TurnReserved, IInv, TypeOK
<1>4. IsRegistry(sessions')
  <2>1. IsRegistry(Put(S, id, entry))
    BY <1>3, PutType
  <2>2. QED
    BY <1>1, <2>1
<1>5. /\ DistinctFirst(sessions)'
      /\ AdvisedMarked'
      /\ \A o \in DOMAIN sessions' : o.n <= nextId'
      /\ \A g \in grants : g.epoch = epoch /\ g.id \in DOMAIN sessions'
                          => g.turn <= sessions'[g.id].turn
  BY <1>1, <1>2, <1>3, <1>4, StoredStep
<1>6. TypeOK'
  BY <1>1, <1>3, <1>4 DEF IInv, TypeOK, Grant
<1>7. \A g \in grants : g.id.n \in Nat
  BY DEF IInv, TypeOK, Grant, SessionId
<1>8. IdsIssued'
  BY <1>1, <1>3, <1>5, <1>7 DEF IInv, IdsIssued
<1>9. TurnsCovered'
  BY <1>1, <1>5 DEF TurnsCovered
<1>10. AdvisableNow' /\ TurnsJoin' /\ AdvisedOnce' /\ NeverCollides'
  BY <1>1 DEF IInv, AdvisableNow, TurnsJoin, AdvisedOnce, NeverCollides
<1>11. QED
  BY <1>5, <1>6, <1>8, <1>9, <1>10 DEF IInv

LEMMA AdviseInv ==
  ASSUME IInv, NEW g \in grants, Advise(g)
  PROVE  IInv'
<1> USE DEF IInv
<1>1. CASE ~MayAdvise(g.id)
  BY <1>1 DEF Advise, TypeOK, IdsIssued, TurnsCovered, AdvisedMarked,
              AdvisableNow, DistinctFirst, TurnsJoin, AdvisedOnce, NeverCollides
<1>2. CASE MayAdvise(g.id)
  <2>1. /\ g \in advisable
        /\ advisable' = advisable \ {g}
        /\ sessions' = [sessions EXCEPT ![g.id].attempted = TRUE]
        /\ advised' = advised \cup {g}
        /\ UNCHANGED <<nextId, now, epoch, grants, failed>>
        /\ g.id \in DOMAIN sessions
        /\ ~sessions[g.id].attempted
    BY <1>2 DEF Advise, MayAdvise
  <2>2. /\ DOMAIN sessions' = DOMAIN sessions
        /\ \A o \in DOMAIN sessions :
             /\ sessions'[o] \in Entry
             /\ sessions'[o].history = sessions[o].history
             /\ sessions'[o].turn = sessions[o].turn
             /\ sessions[o].attempted => sessions'[o].attempted
        /\ sessions'[g.id].attempted
    BY <2>1 DEF TypeOK, IsRegistry, Entry
  <2>3. TypeOK'
    <3>1. IsRegistry(sessions')
      BY <2>1, <2>2 DEF TypeOK, IsRegistry
    <3>2. QED
      BY <2>1, <3>1 DEF TypeOK
  <2>4. IdsIssued' /\ TurnsCovered'
    BY <2>1, <2>2 DEF IdsIssued, TurnsCovered
  <2>5. AdvisedMarked'
    BY <2>1, <2>2 DEF AdvisedMarked
  <2>6. DistinctFirst(sessions)'
    BY <2>2 DEF DistinctFirst
  <2>7. AdvisedOnce'
    BY <2>1 DEF AdvisedOnce, AdvisedMarked, AdvisableNow
  <2>8. AdvisableNow' /\ TurnsJoin' /\ NeverCollides'
    BY <2>1 DEF AdvisableNow, TurnsJoin, NeverCollides
  <2>9. QED
    BY <2>3, <2>4, <2>5, <2>6, <2>7, <2>8
<1>3. QED
  BY <1>1, <1>2

LEMMA RestartInv ==
  ASSUME IInv, Restart
  PROVE  IInv'
<1> USE DEF IInv
<1>1. /\ epoch \in Nat
      /\ epoch' = epoch + 1
      /\ sessions' = NoSessions
      /\ nextId' = 0
      /\ advisable' = {}
      /\ UNCHANGED <<now, grants, advised, failed>>
  BY DEF Restart, TypeOK
<1>2. /\ IsRegistry(sessions')
      /\ DOMAIN sessions' = {}
  BY <1>1, FS_EmptySet DEF IsRegistry, NoSessions
<1>3. TypeOK'
  BY <1>1, <1>2 DEF TypeOK
<1>4. \A g \in grants : g.epoch \in Nat
  BY DEF TypeOK, Grant
<1>5. IdsIssued'
  BY <1>1, <1>2, <1>4 DEF IdsIssued
<1>6. TurnsCovered' /\ AdvisedMarked' /\ DistinctFirst(sessions)'
  BY <1>1, <1>2 DEF TurnsCovered, AdvisedMarked, DistinctFirst
<1>7. AdvisableNow' /\ TurnsJoin' /\ AdvisedOnce' /\ NeverCollides'
  BY <1>1 DEF AdvisableNow, TurnsJoin, AdvisedOnce, NeverCollides
<1>8. QED
  BY <1>3, <1>5, <1>6, <1>7

(* No step breaks the inductive invariant.                                 *)
LEMMA NextInv ==
  ASSUME IInv, [Next]_vars
  PROVE  IInv'
<1>1. ASSUME NEW t \in Clock, SetClock(t)
      PROVE  IInv'
  BY <1>1, SetClockInv
<1>2. ASSUME NEW r \in Request, NEW h \in History, NEW B \in SUBSET Blob,
             Open(r, h, B)
      PROVE  IInv'
  BY <1>2, OpenInv
<1>3. ASSUME NEW r \in Request, NEW h \in History, NEW B \in SUBSET Blob,
             OpenPanics(r, h, B)
      PROVE  IInv'
  BY <1>3, OpenPanicsInv
<1>4. ASSUME NEW g \in grants, Advise(g)
      PROVE  IInv'
  BY <1>4, AdviseInv
<1>5. CASE Restart
  BY <1>5, RestartInv
<1>6. CASE UNCHANGED vars
  BY <1>6 DEF vars, IInv, TypeOK, IdsIssued, TurnsCovered, AdvisedMarked,
              AdvisableNow, DistinctFirst, TurnsJoin, AdvisedOnce, NeverCollides
<1>7. QED
  BY <1>1, <1>2, <1>3, <1>4, <1>5, <1>6 DEF Next

LEMMA Invariant == Spec => []IInv
<1>1. Init => IInv
  BY InitInv
<1>2. IInv /\ [Next]_vars => IInv'
  BY NextInv
<1>3. QED
  BY <1>1, <1>2, PTL DEF Spec

----------------------------------------------------------------------------
(* Theorems *)

(* The registry stays a registry of well-formed entries, and advisory      *)
(* receipts are only written for turns that were reserved.                 *)
THEOREM TypeCorrect == Spec => []TypeOK
<1>1. IInv => TypeOK
  BY DEF IInv
<1>2. QED
  BY <1>1, Invariant, PTL

(* Within one run of the process no two requests are given the same        *)
(* (session, turn) pair, for any TTL, any ceiling, any clock.              *)
THEOREM TurnsJoinSafe == Spec => []TurnsJoin
<1>1. IInv => TurnsJoin
  BY DEF IInv
<1>2. QED
  BY <1>1, Invariant, PTL

(* first_turn_advisory advises a session at most once.                     *)
THEOREM AdvisedOnceSafe == Spec => []AdvisedOnce
<1>1. IInv => AdvisedOnce
  BY DEF IInv
<1>2. QED
  BY <1>1, Invariant, PTL

(* The collision arm of Registry::select is unreachable: recorded          *)
(* histories never share a first message, so longest matches never tie.    *)
THEOREM CollisionsUnreachable == Spec => []NeverCollides
<1>1. IInv => NeverCollides
  BY DEF IInv
<1>2. QED
  BY <1>1, Invariant, PTL

----------------------------------------------------------------------------
(* Eviction *)

(* The entry a request leaves was accessed when it took the mutex.         *)
LEMMA LeftNow ==
  ASSUME now \in Nat, NEW entry \in Entry, NEW h \in Seq(Message), NEW B \in SUBSET Blob
  PROVE  /\ Recorded(Reserved(entry, B), h) \in Entry
         /\ Recorded(Reserved(entry, B), h).access = now
<1>1. Reserved(entry, B) \in Entry
  BY ReservedType
<1> DEFINE e == Reserved(entry, B)
<1> HIDE DEF e
<1>2. e \in Entry
  BY <1>1 DEF e
<1>3. Recorded(e, h) \in Entry /\ Recorded(e, h).access = now
  BY <1>2 DEF Recorded, Entry
<1>4. QED
  BY <1>3 DEF e

(* What open_*_session evicts before it selects, and after it recorded.    *)
LEMMA OpenEvicts ==
  ASSUME TypeOK, NEW h \in Seq(Message), NEW id \in SessionId,
         NEW S \in Evicted(sessions, now),
         NEW stored \in Entry, stored.access = now,
         NEW T \in Evicted(Put(S, id, stored), now)
  PROVE  /\ Cardinality(DOMAIN T) <= MaxSessions
         /\ \A o \in DOMAIN T : IdleFor(T[o], now) <= Ttl
         /\ \A gone \in DOMAIN sessions \ DOMAIN T :
              \/ IdleFor(sessions[gone], now) > Ttl
              \/ \A o \in DOMAIN T :
                   \/ sessions[gone].access <= T[o].access
                   \/ T[o].access = now
         /\ id \in DOMAIN T \/ \A o \in DOMAIN T : T[o].access >= now
<1> DEFINE P == Put(S, id, stored)
<1>1. /\ IsRegistry(S)
      /\ DOMAIN S \subseteq DOMAIN sessions
      /\ \A o \in DOMAIN S : S[o] = sessions[o]
      /\ now \in Nat
  BY EvictedKeeps DEF TypeOK
<1>2. /\ Cardinality(DOMAIN S) <= MaxSessions
      /\ \A gone \in DOMAIN sessions \ DOMAIN S :
           \/ IdleFor(sessions[gone], now) > Ttl
           \/ \A o \in DOMAIN S : sessions[gone].access <= S[o].access
  BY EvictedBounds DEF TypeOK
<1>3. /\ IsRegistry(P)
      /\ DOMAIN P = DOMAIN S \cup {id}
      /\ P[id] = stored
      /\ \A o \in DOMAIN S : o # id => P[o] = S[o]
  BY <1>1, PutType
<1> HIDE DEF P
<1>4. T \in Evicted(P, now)
  BY DEF P
<1>5. /\ DOMAIN T \subseteq DOMAIN P
      /\ \A o \in DOMAIN T : T[o] = P[o] /\ T[o].access \in Nat
  <2>1. /\ IsRegistry(T)
        /\ DOMAIN T \subseteq DOMAIN P
        /\ \A o \in DOMAIN T : T[o] = P[o]
    BY <1>1, <1>3, <1>4, EvictedKeeps, Zenon
  <2>2. QED
    BY <2>1 DEF IsRegistry, Entry
<1>6. /\ Cardinality(DOMAIN T) <= MaxSessions
      /\ \A o \in DOMAIN T : IdleFor(T[o], now) <= Ttl
      /\ Cardinality(DOMAIN P) <= MaxSessions => DOMAIN T = Active(P, now)
      /\ \A gone \in DOMAIN P \ DOMAIN T :
           \/ IdleFor(P[gone], now) > Ttl
           \/ \A o \in DOMAIN T : P[gone].access <= T[o].access
  BY <1>1, <1>3, <1>4, EvictedBounds
<1>7. /\ id \in Active(P, now)
      /\ ~(IdleFor(P[id], now) > Ttl)
  <2>1. IdleFor(stored, now) = 0
    BY <1>1 DEF IdleFor
  <2>2. QED
    BY <1>3, <2>1, RegistryAssumption DEF Active
<1>8. id \in DOMAIN S => id \in DOMAIN T
  <2>1. SUFFICES ASSUME id \in DOMAIN S
                 PROVE  id \in DOMAIN T
    OBVIOUS
  <2>2. DOMAIN P = DOMAIN S
    BY <1>3, <2>1
  <2>3. QED
    BY <1>2, <1>6, <1>7, <2>2
<1>9. id \in DOMAIN T \/ \A o \in DOMAIN T : T[o].access >= now
  BY <1>1, <1>3, <1>5, <1>6, <1>7
<1>10. ASSUME NEW gone \in DOMAIN sessions \ DOMAIN T
       PROVE  \/ IdleFor(sessions[gone], now) > Ttl
              \/ \A o \in DOMAIN T :
                   \/ sessions[gone].access <= T[o].access
                   \/ T[o].access = now
  <2>1. CASE gone \in DOMAIN S
    <3>1. gone # id
      BY <1>8, <1>10, <2>1
    <3>2. gone \in DOMAIN P \ DOMAIN T /\ P[gone] = sessions[gone]
      BY <1>1, <1>3, <1>10, <2>1, <3>1
    <3>3. QED
      BY <1>6, <3>2
  <2>2. CASE gone \notin DOMAIN S
    <3>1. ASSUME NEW o \in DOMAIN T
          PROVE  T[o].access = now \/ (o \in DOMAIN S /\ T[o] = S[o])
      BY <1>3, <1>5, <3>1
    <3>2. QED
      BY <1>2, <1>10, <2>2, <3>1
  <2>3. QED
    BY <2>1, <2>2
<1>11. QED
  BY <1>6, <1>9, <1>10

(* A step that grants a turn evicts only what EvictionSpares allows.       *)
LEMMA GrantEvicts ==
  ASSUME IInv, [Next]_vars
  PROVE  /\ grants' # grants =>
              /\ Cardinality(DOMAIN sessions') <= MaxSessions
              /\ \A id \in DOMAIN sessions' : IdleFor(sessions'[id], now) <= Ttl
              /\ \A gone \in DOMAIN sessions \ DOMAIN sessions' :
                   \/ IdleFor(sessions[gone], now) > Ttl
                   \/ \A id \in DOMAIN sessions' :
                        \/ sessions[gone].access <= sessions'[id].access
                        \/ sessions'[id].access = now
         /\ \A g \in grants' \ grants :
              \/ g.id \in DOMAIN sessions'
              \/ \A id \in DOMAIN sessions' : sessions'[id].access >= now
<1>1. CASE grants' = grants
  BY <1>1
<1>2. CASE grants' # grants
  <2>1. PICK r \in Request, h \in History, B \in SUBSET Blob : Open(r, h, B)
    BY <1>2 DEF Next, vars, SetClock, OpenPanics, Advise, Restart
  <2>2. PICK S \in Evicted(sessions, now) :
          \E id \in DOMAIN S \cup {NewId(h, nextId)} :
            LET entry == Reserved(EntryOf(S, id, now), B)
                grant == [req |-> r, epoch |-> epoch, id |-> id,
                          turn |-> entry.turn, history |-> h,
                          collision |-> Collides(S, h)]
            IN  /\ Select(S, h, id)
                /\ sessions' \in Evicted(Put(S, id, Recorded(entry, h)), now)
                /\ grants' = grants \cup {grant}
    BY <2>1 DEF Open
  <2>3. PICK id \in DOMAIN S \cup {NewId(h, nextId)} :
          LET entry == Reserved(EntryOf(S, id, now), B)
              grant == [req |-> r, epoch |-> epoch, id |-> id,
                        turn |-> entry.turn, history |-> h,
                        collision |-> Collides(S, h)]
          IN  /\ Select(S, h, id)
              /\ sessions' \in Evicted(Put(S, id, Recorded(entry, h)), now)
              /\ grants' = grants \cup {grant}
    BY <2>2
  <2>4. /\ TypeOK /\ IsRegistry(sessions) /\ now \in Nat /\ nextId \in Nat
        /\ h \in Seq(Message)
    BY SessionAssumption DEF IInv, TypeOK
  <2>5. IsRegistry(S)
    BY <2>4, EvictedKeeps
  <2>6. id \in SessionId
    BY <2>3, <2>4, <2>5, SelectedId DEF Select
  <2> DEFINE stored == Recorded(Reserved(EntryOf(S, id, now), B), h)
  <2>7. stored \in Entry /\ stored.access = now
    BY <2>4, <2>5, EntryOfType, LeftNow
  <2>8. sessions' \in Evicted(Put(S, id, stored), now)
    BY <2>3
  <2>9. \A g \in grants' \ grants : g.id = id
    BY <2>3
  <2> HIDE DEF stored
  <2>10. /\ Cardinality(DOMAIN sessions') <= MaxSessions
         /\ \A o \in DOMAIN sessions' : IdleFor(sessions'[o], now) <= Ttl
         /\ \A gone \in DOMAIN sessions \ DOMAIN sessions' :
              \/ IdleFor(sessions[gone], now) > Ttl
              \/ \A o \in DOMAIN sessions' :
                   \/ sessions[gone].access <= sessions'[o].access
                   \/ sessions'[o].access = now
         /\ id \in DOMAIN sessions' \/ \A o \in DOMAIN sessions' : sessions'[o].access >= now
    BY <2>4, <2>6, <2>7, <2>8, OpenEvicts
  <2>11. QED
    BY <2>9, <2>10
<1>3. QED
  BY <1>1, <1>2

(* open_*_session evicts the idle and, past the ceiling, the least recent; *)
(* the request's own session survives unless every other one is as recent. *)
THEOREM EvictionSparing == Spec => EvictionSpares
<1>1. IInv /\ [Next]_vars =>
        /\ [grants' # grants =>
              /\ Cardinality(DOMAIN sessions') <= MaxSessions
              /\ \A id \in DOMAIN sessions' : IdleFor(sessions'[id], now) <= Ttl
              /\ \A gone \in DOMAIN sessions \ DOMAIN sessions' :
                   \/ IdleFor(sessions[gone], now) > Ttl
                   \/ \A id \in DOMAIN sessions' :
                        \/ sessions[gone].access <= sessions'[id].access
                        \/ sessions'[id].access = now]_vars
        /\ [\A g \in grants' \ grants :
              \/ g.id \in DOMAIN sessions'
              \/ \A id \in DOMAIN sessions' : sessions'[id].access >= now]_vars
  BY GrantEvicts
<1>2. QED
  BY <1>1, Invariant, PTL DEF Spec, EvictionSpares, EvictionIsLru, OwnSessionKept
============================================================================
