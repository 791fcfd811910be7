--------------------------- MODULE ToolDedupProofs --------------------------
(***************************************************************************)
(* TLAPS proofs about ToolDedup, for every set of processes, requests and  *)
(* tool results, every TTL, ceiling and age.                               *)
(***************************************************************************)
EXTENDS ToolDedup, FiniteSetTheorems, TLAPS

----------------------------------------------------------------------------
(* The registry's operators, as in SessionRegistryProofs *)

(* Eviction only drops entries: what it keeps is unchanged.                *)
LEMMA EvictedKeeps ==
  ASSUME NEW S, IsRegistry(S), NEW t \in Nat, NEW T \in Evicted(S, t)
  PROVE  /\ IsRegistry(T)
         /\ DOMAIN T \subseteq DOMAIN S
         /\ \A id \in DOMAIN T : T[id] = S[id]
<1>1. PICK kept \in Survivors(S, t) : T = Restrict(S, kept)
  BY DEF Evicted
<1>2. kept \subseteq DOMAIN S
  BY DEF Survivors, Active
<1>3. /\ DOMAIN T = kept
      /\ \A id \in kept : T[id] = S[id]
      /\ T = [id \in kept |-> S[id]]
  BY <1>1 DEF Restrict
<1>4. IsFiniteSet(kept)
  BY <1>2, FS_Subset DEF IsRegistry
<1>5. QED
  BY <1>2, <1>3, <1>4 DEF IsRegistry

(* Storing an entry under an id keeps a registry a registry.               *)
LEMMA PutType ==
  ASSUME NEW S, IsRegistry(S), NEW id \in SessionId, NEW entry \in Entry
  PROVE  /\ IsRegistry(Put(S, id, entry))
         /\ DOMAIN Put(S, id, entry) = DOMAIN S \cup {id}
         /\ Put(S, id, entry)[id] = entry
         /\ \A o \in DOMAIN S : o # id => Put(S, id, entry)[o] = S[o]
<1>1. IsFiniteSet(DOMAIN S \cup {id})
  BY FS_AddElement DEF IsRegistry
<1>2. QED
  BY <1>1 DEF Put, IsRegistry

(* Of two entries stored under an id the later one stays.                  *)
LEMMA PutTwice ==
  ASSUME NEW S, NEW id, NEW e1, NEW e2
  PROVE  Put(Put(S, id, e1), id, e2) = Put(S, id, e2)
BY DEF Put

LEMMA EntryOfType ==
  ASSUME NEW S, IsRegistry(S), NEW id, NEW t \in Nat
  PROVE  EntryOf(S, id, t) \in Entry
BY DEF EntryOf, NewEntry, Entry, IsRegistry

LEMMA NoSessionsType ==
  IsRegistry(NoSessions) /\ DOMAIN NoSessions = {} /\ DistinctFirst(NoSessions)
BY FS_EmptySet DEF IsRegistry, NoSessions, DistinctFirst

(* A session that select works on is the one matched, or new.              *)
LEMMA SelectedId ==
  ASSUME NEW S, IsRegistry(S), NEW h \in Seq(Message), NEW n \in Nat, NEW id,
         Existing(S, h, id) \/ id = NewId(h, n)
  PROVE  /\ id \in SessionId
         /\ Existing(S, h, id) => id \in DOMAIN S /\ id \in Related(S, h)
<1>1. Existing(S, h, id) => id \in DOMAIN S /\ id \in Related(S, h)
  BY DEF Existing, BestMatches, Related
<1>2. QED
  BY <1>1 DEF NewId, SessionId, IsRegistry

(* If the first messages of a registry's histories are distinct, a request *)
(* that matches no unique session is related to none at all.               *)
LEMMA FreshUnrelated ==
  ASSUME NEW S, IsRegistry(S), DistinctFirst(S),
         NEW h \in Seq(Message), Fresh(S, h)
  PROVE  Related(S, h) = {}
<1>1. SUFFICES ASSUME NEW id \in Related(S, h)
               PROVE  FALSE
  OBVIOUS
<1>2. ASSUME NEW o \in Related(S, h)
      PROVE  o = id
  <2>1. /\ S[id].history \in Seq(Message)
        /\ S[o].history \in Seq(Message)
    BY DEF Related, IsRegistry, Entry
  <2>2. /\ Len(S[id].history) > 0
        /\ Len(S[o].history) > 0
        /\ S[id].history[1] = S[o].history[1]
    BY <2>1 DEF Related, SharesPrefix
  <2>3. QED
    BY <2>2 DEF DistinctFirst, Related
<1>3. AtLeastAsClose(h, S[id].history, S[id].history)
  BY DEF AtLeastAsClose
<1>4. BestMatches(S, h) = {id}
  BY <1>2, <1>3 DEF BestMatches
<1>5. QED
  BY <1>4 DEF Fresh

(* No other session's history opens with the first message of a request    *)
(* that was given session id.                                              *)
LEMMA OthersDiffer ==
  ASSUME NEW S, IsRegistry(S), DistinctFirst(S), NEW h \in Seq(Message), NEW id,
         Existing(S, h, id) \/ Fresh(S, h)
  PROVE  \A o \in DOMAIN S :
           o # id /\ Len(h) > 0 /\ Len(S[o].history) > 0
             => S[o].history[1] # h[1]
<1> SUFFICES ASSUME NEW o \in DOMAIN S, o # id, Len(h) > 0, Len(S[o].history) > 0
             PROVE  S[o].history[1] # h[1]
  OBVIOUS
<1>1. CASE Existing(S, h, id)
  <2>1. id \in DOMAIN S /\ SharesPrefix(h, S[id].history, 1)
    BY <1>1 DEF Existing, BestMatches, Related
  <2>2. Len(S[id].history) > 0 /\ S[id].history[1] = h[1]
    BY <2>1 DEF SharesPrefix, IsRegistry, Entry
  <2>3. QED
    BY <2>1, <2>2 DEF DistinctFirst
<1>2. CASE Fresh(S, h)
  <2>1. ~SharesPrefix(h, S[o].history, 1)
    BY <1>2, FreshUnrelated DEF Related
  <2>2. QED
    BY <2>1 DEF SharesPrefix, IsRegistry, Entry
<1>3. QED
  BY <1>1, <1>2

(* Recording a request's history in the session it was given, or reserving *)
(* a turn there, keeps first messages distinct; so does eviction.          *)
LEMMA PutDistinct ==
  ASSUME NEW S, IsRegistry(S), DistinctFirst(S), NEW h \in Seq(Message),
         NEW t \in Nat, NEW id \in SessionId,
         Existing(S, h, id) \/ Fresh(S, h)
  PROVE  \A stored \in Entry :
           stored.history = h \/ stored.history = EntryOf(S, id, t).history
             => DistinctFirst(Put(S, id, stored))
<1>0. \A o \in DOMAIN S :
        o # id /\ Len(h) > 0 /\ Len(S[o].history) > 0 => S[o].history[1] # h[1]
  BY OthersDiffer, Zenon
<1> SUFFICES ASSUME NEW stored \in Entry,
                    \/ stored.history = h
                    \/ stored.history = EntryOf(S, id, t).history
             PROVE  DistinctFirst(Put(S, id, stored))
  OBVIOUS
<1>1. ASSUME NEW o \in DOMAIN S, o # id, Len(S[o].history) > 0,
             Len(stored.history) > 0
      PROVE  S[o].history[1] # stored.history[1]
  <2>1. CASE stored.history = h
    BY <1>0, <1>1, <2>1
  <2>2. CASE stored.history = EntryOf(S, id, t).history /\ id \in DOMAIN S
    <3>1. stored.history = S[id].history
      BY <2>2 DEF EntryOf
    <3>2. QED
      BY <3>1, <2>2, <1>1 DEF DistinctFirst
  <2>3. CASE stored.history = EntryOf(S, id, t).history /\ id \notin DOMAIN S
    <3>1. stored.history = << >>
      BY <2>3 DEF EntryOf, NewEntry
    <3>2. QED
      BY <3>1, <1>1
  <2>4. QED
    BY <2>1, <2>2, <2>3
<1> DEFINE P == Put(S, id, stored)
<1>2. SUFFICES ASSUME NEW i \in DOMAIN P, NEW j \in DOMAIN P,
                      Len(P[i].history) > 0, Len(P[j].history) > 0,
                      P[i].history[1] = P[j].history[1], i # j
               PROVE  FALSE
  BY DEF DistinctFirst
<1>3. /\ DOMAIN P = DOMAIN S \cup {id}
      /\ P[id] = stored
      /\ \A o \in DOMAIN S : o # id => P[o] = S[o]
  BY DEF P, Put
<1> HIDE DEF P
<1>4. CASE i = id
  BY <1>1, <1>2, <1>3, <1>4
<1>5. CASE j = id
  BY <1>1, <1>2, <1>3, <1>5
<1>6. CASE i # id /\ j # id
  BY <1>2, <1>3, <1>6 DEF DistinctFirst
<1>7. QED
  BY <1>4, <1>5, <1>6

LEMMA EvictedDistinct ==
  ASSUME NEW S, IsRegistry(S), DistinctFirst(S), NEW t \in Nat,
         NEW T \in Evicted(S, t)
  PROVE  DistinctFirst(T)
BY EvictedKeeps DEF DistinctFirst

----------------------------------------------------------------------------
(* The shape of a step *)

(* The steps of process p.                                                 *)
Local(p) ==
  \/ \E r \in Request, q \in Payload : Lock(p, r, q)
  \/ \E b \in Blob : Transform(p, b) \/ Remove(p, b)
  \/ Record(p)
  \/ ReadPins(p)
  \/ Forward(p)
  \/ Panic(p)
  \/ Restart(p)

(* Those of `bbg get` and the clock, and stuttering.                       *)
Outside ==
  \/ \E b \in Blob : Fetch(b)
  \/ \E s \in serving : MarkServed(s)
  \/ Tick
  \/ UNCHANGED vars

LEMMA NextSplits == [Next]_vars => Outside \/ \E p \in Process : Local(p)
BY DEF Next, Local, Outside

(* What belongs to process q.                                              *)
SameProcess(q) ==
  /\ sessions'[q] = sessions[q]
  /\ nextId'[q] = nextId[q]
  /\ epoch'[q] = epoch[q]
  /\ job'[q] = job[q]
  /\ lockedAt'[q] = lockedAt[q]
  /\ grants'[q] = grants[q]
  /\ failed'[q] = failed[q]

Domains ==
  /\ DOMAIN sessions' = Process
  /\ DOMAIN job' = Process
  /\ DOMAIN grants' = Process

(* A step of one process leaves the others' registries and requests alone. *)
LEMMA LocalStep ==
  ASSUME TInv, NEW p \in Process, Local(p)
  PROVE  /\ Domains
         /\ \A q \in Process : q # p => SameProcess(q)
         /\ served' = served
<1> USE DEF Domains, SameProcess, TInv, TypeOK, WellFormed
<1>1. ASSUME NEW r \in Request, NEW y \in Payload, Lock(p, r, y)
      PROVE  /\ Domains
             /\ \A q \in Process : q # p => SameProcess(q)
             /\ served' = served
  BY <1>1 DEF Lock, Select
<1>2. ASSUME NEW b \in Blob, Transform(p, b)
      PROVE  /\ Domains
             /\ \A q \in Process : q # p => SameProcess(q)
             /\ served' = served
  BY <1>2 DEF Transform, PassThrough, FirstSight, Exempt, ToStore, PutBlob,
              GetBlob, RecordReceipt, Done, Remember
<1>3. ASSUME NEW b \in Blob, Remove(p, b)
      PROVE  /\ Domains
             /\ \A q \in Process : q # p => SameProcess(q)
             /\ served' = served
  BY <1>3 DEF Remove
<1>4. CASE Record(p) \/ ReadPins(p) \/ Forward(p)
  BY <1>4 DEF Record, ReadPins, Forward
<1>5. CASE Panic(p) \/ Restart(p)
  BY <1>5 DEF Panic, Restart
<1>6. QED
  BY <1>1, <1>2, <1>3, <1>4, <1>5 DEF Local

(* Steps outside the proxies touch neither registries nor blobs, and only  *)
(* add to what was served.                                                 *)
LEMMA OutsideStep ==
  ASSUME TInv, Outside
  PROVE  /\ Domains
         /\ \A q \in Process : SameProcess(q)
         /\ served \subseteq served'
         /\ UNCHANGED <<blobs, receipts, refs, raws>>
BY DEF Domains, SameProcess, TInv, TypeOK, WellFormed, Outside, Fetch,
       MarkServed, Tick, vars

----------------------------------------------------------------------------
(* The effect of a request's steps on its job and its session *)

(* What only taking the mutex sets.                                        *)
SameRequest(p) ==
  /\ job'[p].req = job[p].req
  /\ job'[p].history = job[p].history
  /\ job'[p].id = job[p].id
  /\ job'[p].existing = job[p].existing
  /\ job'[p].servedBefore = job[p].servedBefore
  /\ DOMAIN job'[p] = JobFields

SameStart(p) ==
  /\ job'[p].before = job[p].before
  /\ job'[p].beforeId = job[p].beforeId
  /\ job'[p].pins = job[p].pins

(* The steps of transform: on to the next access to the store, or to the   *)
(* next result.                                                            *)
Onward(p, step) ==
  /\ SameRequest(p) /\ SameStart(p)
  /\ job'[p].step = step
  /\ job'[p].todo = job[p].todo
  /\ job'[p].made = job[p].made

NextResult(p, made) ==
  /\ SameRequest(p) /\ SameStart(p)
  /\ job'[p].step = "results"
  /\ job'[p].todo = Tail(job[p].todo)
  /\ job'[p].made = job[p].made \cup made

(* A job with a step beyond "idle" is a request.                           *)
LEMMA BusyJob ==
  ASSUME TInv, NEW p \in Process
  PROVE  /\ p \in Busy <=> job[p].step \in Compressing \cup Collecting
         /\ p \in Busy => DOMAIN job[p] = JobFields
         /\ p \notin Busy => job[p].step = "idle"
BY DEF TInv, TypeOK, WellFormed, IsJob, Idle, Busy, Compressing, Collecting

LEMMA DoneEffect ==
  ASSUME TInv, NEW p \in Process, NEW made, p \in Busy, Done(p, made)
  PROVE  NextResult(p, made)
BY DEF Done, NextResult, SameRequest, SameStart, TInv, WellFormed, JobFields

LEMMA OnwardEffect ==
  ASSUME TInv, NEW p \in Process, NEW step, p \in Busy,
         job' = [job EXCEPT ![p].step = step]
  PROVE  Onward(p, step)
BY DEF Onward, SameRequest, SameStart, TInv, WellFormed, JobFields

(* What a step of transform does to the job.                               *)
LEMMA TransformJob ==
  ASSUME TInv, NEW p \in Process, NEW b \in Blob, Transform(p, b)
  PROVE  /\ p \in Busy
         /\ job[p].step \in Compressing
         /\ job[p].todo # <<>>
         /\ b = Head(job[p].todo)
         /\ \/ \E step \in {"put", "get", "receipt"} : Onward(p, step)
            \/ \E made \in {{}, {b}} : NextResult(p, made)
<1>1. /\ job[p].step \in Compressing
      /\ job[p].todo # <<>>
      /\ b = Head(job[p].todo)
  BY DEF Transform, PassThrough, FirstSight, Exempt, ToStore, PutBlob,
         GetBlob, RecordReceipt, Result, Compressing
<1>2. p \in Busy
  BY <1>1, BusyJob
<1>3. \/ \E made \in {{}, {b}} : Done(p, made)
      \/ \E step \in {"put", "get", "receipt"} :
           job' = [job EXCEPT ![p].step = step]
  BY DEF Transform, PassThrough, FirstSight, Exempt, ToStore, PutBlob,
         GetBlob, RecordReceipt
<1>4. QED
  BY <1>1, <1>2, <1>3, DoneEffect, OnwardEffect

(* Registry::remember adds b to what the request's session has seen, and   *)
(* changes nothing else of the registry but the time of access.            *)
LEMMA RememberEffect ==
  ASSUME TInv, NEW p \in Process, NEW b \in Blob,
         job[p].step \in Compressing, sessions' = Remember(p, b)
  PROVE  /\ job[p].id \in DOMAIN sessions[p]
         /\ IsRegistry(sessions'[p])
         /\ DOMAIN sessions'[p] = DOMAIN sessions[p]
         /\ \A id \in DOMAIN sessions[p] :
              id # job[p].id => sessions'[p][id] = sessions[p][id]
         /\ sessions'[p][job[p].id] =
              [sessions[p][job[p].id] EXCEPT !.seen = @ \cup {b},
                                             !.access = lockedAt[p]]
         /\ sessions'[p][job[p].id].seen = SeenBy(p) \cup {b}
         /\ sessions'[p] = [sessions[p] EXCEPT ![job[p].id] =
              [sessions[p][job[p].id] EXCEPT !.seen = @ \cup {b},
                                             !.access = lockedAt[p]]]
<1> DEFINE id == job[p].id
           old == sessions[p][id]
           new == [old EXCEPT !.seen = @ \cup {b}, !.access = lockedAt[p]]
<1>1. /\ id \in DOMAIN sessions[p]
      /\ IsRegistry(sessions[p])
      /\ lockedAt[p] \in Nat
      /\ DOMAIN sessions = Process
  BY DEF TInv, TypeOK, WellFormed
<1>2. old \in Entry
  BY <1>1 DEF IsRegistry
<1>3. /\ new \in Entry
      /\ new.seen = old.seen \cup {b}
  BY <1>1, <1>2 DEF Entry
<1>4. sessions'[p] = [sessions[p] EXCEPT ![id] = new]
  BY <1>1, <1>2 DEF Remember, Entry
<1> HIDE DEF new
<1>5. /\ DOMAIN sessions'[p] = DOMAIN sessions[p]
      /\ \A o \in DOMAIN sessions[p] : o # id => sessions'[p][o] = sessions[p][o]
      /\ sessions'[p][id] = new
  BY <1>1, <1>4
<1>6. IsRegistry(sessions'[p])
  BY <1>1, <1>3, <1>4 DEF IsRegistry
<1>7. QED
  BY <1>1, <1>3, <1>4, <1>5, <1>6 DEF new, SeenBy

(* What a step of transform does to the registry.                          *)
LEMMA TransformSessions ==
  ASSUME TInv, NEW p \in Process, NEW b \in Blob, Transform(p, b)
  PROVE  /\ IsRegistry(sessions'[p])
         /\ DOMAIN sessions'[p] = DOMAIN sessions[p]
         /\ job[p].id \in DOMAIN sessions[p]
         /\ sessions' = sessions \/ sessions' = Remember(p, b)
         /\ \A id \in DOMAIN sessions[p] :
              /\ sessions[p][id].seen \subseteq sessions'[p][id].seen
              /\ sessions'[p][id].seen \subseteq sessions[p][id].seen \cup {b}
<1>1. sessions' = sessions \/ sessions' = Remember(p, b)
  BY DEF Transform, PassThrough, FirstSight, Exempt, ToStore, PutBlob,
         GetBlob, RecordReceipt
<1>2. job[p].step \in Compressing
  BY TransformJob
<1>3. /\ IsRegistry(sessions[p])
      /\ job[p].id \in DOMAIN sessions[p]
  BY <1>2 DEF TInv, TypeOK
<1>4. CASE sessions' = sessions
  BY <1>3, <1>4
<1>5. CASE sessions' = Remember(p, b)
  BY <1>2, <1>5, RememberEffect DEF SeenBy
<1>6. QED
  BY <1>1, <1>3, <1>4, <1>5

(* What taking the mutex does: S is what eviction left, id the session     *)
(* selected in it.                                                         *)
Locked(p, r, y, S, id) ==
  /\ S \in Evicted(sessions[p], clock)
  /\ IsRegistry(S)
  /\ DOMAIN S \subseteq DOMAIN sessions[p]
  /\ \A o \in DOMAIN S : S[o] = sessions[p][o]
  /\ id \in SessionId
  /\ \/ /\ Existing(S, y.history, id)
        /\ id \in DOMAIN S
        /\ nextId' = nextId
     \/ /\ Fresh(S, y.history)
        /\ id = NewId(y.history, nextId[p])
        /\ nextId' = [nextId EXCEPT ![p] = @ + 1]
  /\ sessions'[p] = Put(S, id, WorkedOn(EntryOf(S, id, clock), clock, {}))
  /\ IsRegistry(sessions'[p])
  /\ DOMAIN sessions'[p] = DOMAIN S \cup {id}
  /\ \A o \in DOMAIN S : o # id => sessions'[p][o] = sessions[p][o]
  /\ sessions'[p][id].seen = EntryOf(S, id, clock).seen
  /\ lockedAt'[p] = clock
  /\ DOMAIN job'[p] = JobFields
  /\ job'[p].step = "results"
  /\ job'[p].req = r
  /\ job'[p].history = y.history
  /\ job'[p].todo = y.results
  /\ job'[p].id = id
  /\ job'[p].existing \in BOOLEAN
  /\ job'[p].before = sessions[p]
  /\ job'[p].beforeId = nextId[p]
  /\ job'[p].servedBefore = served
  /\ job'[p].made = {}
  /\ job'[p].pins = {}

LEMMA WorkedOnType ==
  ASSUME NEW entry \in Entry, NEW t \in Nat, NEW B \in SUBSET Blob
  PROVE  /\ WorkedOn(entry, t, B) \in Entry
         /\ WorkedOn(entry, t, B).seen = entry.seen \cup B
         /\ WorkedOn(entry, t, B).history = entry.history
<1>1. /\ entry.turn + 1 \in Nat
      /\ entry.seen \cup B \subseteq Blob
  BY DEF Entry
<1>2. QED
  BY <1>1 DEF WorkedOn, Entry

LEMMA LockEffect ==
  ASSUME TInv, NEW p \in Process, NEW r \in Request, NEW y \in Payload,
         Lock(p, r, y)
  PROVE  \E S, id : Locked(p, r, y, S, id)
<1> PICK S \in Evicted(sessions[p], clock) :
      \E id \in DOMAIN S \cup {NewId(y.history, nextId[p])} :
        LET entry == [EntryOf(S, id, clock) EXCEPT !.turn = @ + 1, !.access = clock]
        IN  /\ Select(p, S, y.history, id)
            /\ sessions' = [sessions EXCEPT ![p] = Put(S, id, entry)]
            /\ lockedAt' = [lockedAt EXCEPT ![p] = clock]
            /\ job' = [job EXCEPT ![p] =
                 [step |-> "results", req |-> r, history |-> y.history,
                  todo |-> y.results, id |-> id,
                  existing |-> id \in DOMAIN S,
                  before |-> sessions[p], beforeId |-> nextId[p],
                  servedBefore |-> served, made |-> {}, pins |-> {}]]
  BY DEF Lock
<1> PICK id \in DOMAIN S \cup {NewId(y.history, nextId[p])} :
        LET entry == [EntryOf(S, id, clock) EXCEPT !.turn = @ + 1, !.access = clock]
        IN  /\ Select(p, S, y.history, id)
            /\ sessions' = [sessions EXCEPT ![p] = Put(S, id, entry)]
            /\ lockedAt' = [lockedAt EXCEPT ![p] = clock]
            /\ job' = [job EXCEPT ![p] =
                 [step |-> "results", req |-> r, history |-> y.history,
                  todo |-> y.results, id |-> id,
                  existing |-> id \in DOMAIN S,
                  before |-> sessions[p], beforeId |-> nextId[p],
                  servedBefore |-> served, made |-> {}, pins |-> {}]]
  OBVIOUS
<1> DEFINE old == EntryOf(S, id, clock)
           entry == [old EXCEPT !.turn = @ + 1, !.access = clock]
<1>1. /\ Select(p, S, y.history, id)
      /\ sessions' = [sessions EXCEPT ![p] = Put(S, id, entry)]
      /\ lockedAt' = [lockedAt EXCEPT ![p] = clock]
      /\ job' = [job EXCEPT ![p] =
           [step |-> "results", req |-> r, history |-> y.history,
            todo |-> y.results, id |-> id, existing |-> id \in DOMAIN S,
            before |-> sessions[p], beforeId |-> nextId[p],
            servedBefore |-> served, made |-> {}, pins |-> {}]]
  OBVIOUS
<1>2. /\ IsRegistry(sessions[p])
      /\ clock \in Nat
      /\ nextId[p] \in Nat
      /\ lockedAt \in [Process -> Nat]
      /\ DOMAIN sessions = Process
      /\ DOMAIN job = Process
      /\ y.history \in Seq(Message)
  BY DedupAssumption DEF TInv, TypeOK, WellFormed
<1>3. /\ IsRegistry(S)
      /\ DOMAIN S \subseteq DOMAIN sessions[p]
      /\ \A o \in DOMAIN S : S[o] = sessions[p][o]
  BY <1>2, EvictedKeeps
<1>4. \/ Existing(S, y.history, id) /\ nextId' = nextId
      \/ /\ Fresh(S, y.history)
         /\ id = NewId(y.history, nextId[p])
         /\ nextId' = [nextId EXCEPT ![p] = @ + 1]
  BY <1>1 DEF Select
<1>5. /\ id \in SessionId
      /\ Existing(S, y.history, id) => id \in DOMAIN S
  BY <1>2, <1>3, <1>4, SelectedId
<1>6. old \in Entry
  BY <1>2, <1>3, EntryOfType
<1>7. entry = WorkedOn(old, clock, {})
  BY <1>2, <1>6 DEF WorkedOn, Entry
<1>8. /\ WorkedOn(old, clock, {}) \in Entry
      /\ WorkedOn(old, clock, {}).seen = old.seen
  <2> HIDE DEF old
  <2>1. old.turn + 1 \in Nat /\ old.seen \cup {} = old.seen
    BY <1>6 DEF Entry
  <2>2. QED
    BY <2>1, <1>2, <1>6 DEF WorkedOn, Entry
<1> HIDE DEF old, entry
<1>9. sessions'[p] = Put(S, id, WorkedOn(old, clock, {}))
  BY <1>1, <1>2, <1>7
<1>10. /\ IsRegistry(sessions'[p])
       /\ DOMAIN sessions'[p] = DOMAIN S \cup {id}
       /\ sessions'[p][id] = WorkedOn(old, clock, {})
       /\ \A o \in DOMAIN S : o # id => sessions'[p][o] = sessions[p][o]
  <2>1. IsRegistry(Put(S, id, WorkedOn(old, clock, {})))
    BY <1>3, <1>5, <1>8, PutType
  <2>2. QED
    BY <2>1, <1>3, <1>9 DEF Put
<1>11. PICK e \in BOOLEAN : e = (id \in DOMAIN S)
  <2>1. CASE id \in DOMAIN S
    <3>1. TRUE = (id \in DOMAIN S)
      BY <2>1, Zenon
    <3>2. QED
      BY <3>1, Zenon
  <2>2. CASE id \notin DOMAIN S
    <3>1. FALSE = (id \in DOMAIN S)
      BY <2>2, SMT
    <3>2. QED
      BY <3>1, Zenon
  <2>3. QED
    BY <2>1, <2>2, Zenon
<1> DEFINE record ==
      [step |-> "results", req |-> r, history |-> y.history,
       todo |-> y.results, id |-> id, existing |-> e,
       before |-> sessions[p], beforeId |-> nextId[p],
       servedBefore |-> served, made |-> {}, pins |-> {}]
<1>12. job' = [job EXCEPT ![p] = record]
  BY <1>1, <1>11, Zenon
<1>13. /\ lockedAt'[p] = clock
       /\ job'[p] = record
  BY <1>1, <1>2, <1>12
<1>14. /\ DOMAIN job'[p] = JobFields
       /\ job'[p].step = "results"
       /\ job'[p].req = r
       /\ job'[p].history = y.history
       /\ job'[p].todo = y.results
       /\ job'[p].id = id
       /\ job'[p].existing = e
       /\ job'[p].before = sessions[p]
       /\ job'[p].beforeId = nextId[p]
       /\ job'[p].servedBefore = served
       /\ job'[p].made = {}
       /\ job'[p].pins = {}
  BY <1>13 DEF JobFields
<1>15. Locked(p, r, y, S, id)
  BY <1>3, <1>4, <1>5, <1>8, <1>9, <1>10, <1>11, <1>13, <1>14 DEF Locked, old
<1>16. QED
  BY <1>15

(* What recording a history does: the registry keeps some of its entries,  *)
(* with what they have seen.                                               *)
LEMMA RecordEffect ==
  ASSUME TInv, NEW p \in Process, Record(p)
  PROVE  /\ p \in Busy
         /\ job[p].step = "results"
         /\ LET entry == [sessions[p][job[p].id] EXCEPT
                            !.history = job[p].history, !.access = lockedAt[p]]
            IN  sessions'[p] \in Evicted(Put(sessions[p], job[p].id, entry), lockedAt[p])
         /\ IsRegistry(sessions'[p])
         /\ DOMAIN sessions'[p] \subseteq DOMAIN sessions[p]
         /\ \A o \in DOMAIN sessions'[p] : sessions'[p][o].seen = sessions[p][o].seen
         /\ SameRequest(p)
         /\ job'[p].step = "pins"
         /\ job'[p].todo = job[p].todo
         /\ job'[p].made = job[p].made
         /\ job'[p].pins = job[p].pins
         /\ job'[p].before = NoSessions
         /\ job'[p].beforeId = 0
<1> DEFINE id == job[p].id
           old == sessions[p][id]
           entry == [old EXCEPT !.history = job[p].history, !.access = lockedAt[p]]
<1>1. /\ job[p].step = "results"
      /\ p \in Busy
      /\ DOMAIN job[p] = JobFields
      /\ DOMAIN job = Process
      /\ DOMAIN sessions = Process
      /\ IsRegistry(sessions[p])
      /\ id \in DOMAIN sessions[p]
      /\ job[p].history \in Seq(Message)
      /\ lockedAt[p] \in Nat
  <2>1. job[p].step = "results"
    BY DEF Record
  <2>2. p \in Busy /\ DOMAIN job[p] = JobFields
    BY <2>1, BusyJob DEF Compressing
  <2>3. QED
    BY <2>1, <2>2 DEF TInv, TypeOK, WellFormed, IsJob, Busy, Compressing
<1>2. PICK T \in Evicted(Put(sessions[p], id, entry), lockedAt[p]) :
        sessions' = [sessions EXCEPT ![p] = T]
  BY DEF Record, RecordedAt
<1>3. sessions'[p] = T
  BY <1>1, <1>2
<1>4. old \in Entry /\ id \in SessionId
  BY <1>1 DEF IsRegistry
<1>5. entry \in Entry /\ entry.seen = old.seen
  BY <1>1, <1>4 DEF Entry
<1> HIDE DEF entry
<1>6. IsRegistry(Put(sessions[p], id, entry))
  BY <1>1, <1>4, <1>5, PutType
<1>7. /\ IsRegistry(T)
      /\ DOMAIN T \subseteq DOMAIN Put(sessions[p], id, entry)
      /\ \A o \in DOMAIN T : T[o] = Put(sessions[p], id, entry)[o]
  BY <1>1, <1>6, EvictedKeeps
<1>8. /\ DOMAIN T \subseteq DOMAIN sessions[p]
      /\ \A o \in DOMAIN T : T[o].seen = sessions[p][o].seen
  BY <1>1, <1>5, <1>7 DEF Put
<1>9. /\ SameRequest(p)
      /\ job'[p].step = "pins"
      /\ job'[p].todo = job[p].todo
      /\ job'[p].made = job[p].made
      /\ job'[p].pins = job[p].pins
      /\ job'[p].before = NoSessions
      /\ job'[p].beforeId = 0
  BY <1>1 DEF Record, SameRequest, JobFields
<1>10. QED
  BY <1>1, <1>2, <1>3, <1>7, <1>8, <1>9 DEF entry

(* What the steps after that do to the job.                                *)
LEMMA ReadPinsEffect ==
  ASSUME TInv, NEW p \in Process, ReadPins(p)
  PROVE  /\ p \in Busy
         /\ job[p].step = "pins"
         /\ SameRequest(p)
         /\ job'[p].step = "remove"
         /\ job'[p].todo = job[p].todo
         /\ job'[p].made = job[p].made
         /\ job'[p].before = job[p].before
         /\ job'[p].beforeId = job[p].beforeId
         /\ job'[p].pins = Pins(p)
         /\ sessions'[p] = sessions[p]
<1>1. p \in Busy /\ DOMAIN job[p] = JobFields /\ DOMAIN job = Process
  BY BusyJob DEF ReadPins, Collecting, TInv, WellFormed
<1>2. QED
  BY <1>1 DEF ReadPins, SameRequest, JobFields

LEMMA LeaveEffect ==
  ASSUME TInv, NEW p \in Process, Forward(p) \/ Panic(p) \/ Restart(p)
  PROVE  /\ job'[p] = Idle
         /\ IsRegistry(sessions'[p])
         /\ sessions'[p] = sessions[p] \/ sessions'[p] = NoSessions
<1>1. job'[p] = Idle /\ (sessions'[p] = sessions[p] \/ sessions'[p] = NoSessions)
  BY DEF TInv, WellFormed, Forward, Panic, Restart
<1>2. IsRegistry(sessions[p])
  BY DEF TInv, TypeOK
<1>3. QED
  BY <1>1, <1>2, NoSessionsType

----------------------------------------------------------------------------
(* Type correctness *)

ProcessOK(q) ==
  /\ IsRegistry(sessions[q])
  /\ IsJob(job[q])
  /\ job[q] # Idle => DOMAIN job[q] = JobFields
  /\ job[q].step \in Compressing =>
       /\ job[q].id \in DOMAIN sessions[q]
       /\ job[q].step # "results" => job[q].todo # <<>>

StoreOK ==
  /\ clock \in Nat
  /\ blobs \subseteq Blob
  /\ served \subseteq Blob \X Nat
  /\ serving \subseteq Blob \X Nat
  /\ receipts \subseteq Request \X Blob
  /\ refs \subseteq Place
  /\ raws \subseteq Place

CountersOK ==
  /\ nextId \in [Process -> Nat]
  /\ epoch \in [Process -> Nat]
  /\ lockedAt \in [Process -> Nat]
  /\ failed \in [Process -> SUBSET Request]

LEMMA TInvSplits ==
  /\ TInv <=> /\ StoreOK /\ CountersOK
              /\ DOMAIN sessions = Process
              /\ DOMAIN job = Process
              /\ DOMAIN grants = Process
              /\ \A q \in Process : ProcessOK(q)
  /\ TInv' <=> /\ StoreOK' /\ CountersOK' /\ Domains
               /\ \A q \in Process : ProcessOK(q)'
BY DEF TInv, TypeOK, WellFormed, StoreOK, CountersOK, Domains, ProcessOK, Busy

LEMMA InitTInv == Init => TInv
<1> SUFFICES ASSUME Init PROVE TInv
  OBVIOUS
<1>1. \A q \in Process : ProcessOK(q)
  BY NoSessionsType DEF Init, ProcessOK, IsJob, Idle, Compressing
<1>2. StoreOK /\ CountersOK
  BY DEF Init, StoreOK, CountersOK
<1>3. /\ DOMAIN sessions = Process
      /\ DOMAIN job = Process
      /\ DOMAIN grants = Process
  BY DEF Init
<1>4. QED
  BY <1>1, <1>2, <1>3, TInvSplits

(* If only process p takes a step it is enough to look at p.               *)
LEMMA LocalTInv ==
  ASSUME TInv, NEW p \in Process, Local(p), StoreOK', CountersOK', ProcessOK(p)'
  PROVE  TInv'
<1>1. \A q \in Process : q # p => ProcessOK(q)'
  <2> SUFFICES ASSUME NEW q \in Process, q # p
               PROVE  ProcessOK(q)'
    OBVIOUS
  <2>1. sessions'[q] = sessions[q] /\ job'[q] = job[q]
    BY LocalStep DEF SameProcess
  <2>2. ProcessOK(q)
    BY TInvSplits
  <2>3. QED
    BY <2>1, <2>2 DEF ProcessOK
<1>2. Domains
  BY LocalStep
<1>3. QED
  BY <1>1, <1>2, TInvSplits

LEMMA LockTInv ==
  ASSUME TInv, NEW p \in Process, NEW r \in Request, NEW y \in Payload,
         Lock(p, r, y)
  PROVE  TInv'
<1>1. PICK S, id : Locked(p, r, y, S, id)
  BY LockEffect
<1>2. StoreOK'
  BY DEF Lock, TInv, TypeOK, StoreOK
<1>3. CountersOK'
  <2>1. nextId' \in [Process -> Nat]
    <3>1. nextId' = nextId \/ nextId' = [nextId EXCEPT ![p] = @ + 1]
      BY <1>1 DEF Locked
    <3>2. QED
      BY <3>1 DEF TInv, TypeOK
  <2>2. lockedAt' \in [Process -> Nat]
    BY DEF Lock, TInv, TypeOK
  <2>3. UNCHANGED <<epoch, failed>>
    BY DEF Lock
  <2>4. QED
    BY <2>1, <2>2, <2>3 DEF TInv, TypeOK, CountersOK
<1>4. ProcessOK(p)'
  <2>1. y.history \in Seq(Message) /\ y.results \in Seq(Blob)
    BY DedupAssumption
  <2>2. IsRegistry(sessions[p]) /\ nextId[p] \in Nat /\ served \subseteq Blob \X Nat
    BY DEF TInv, TypeOK
  <2>3. IsJob(job'[p])
    BY <1>1, <2>1, <2>2 DEF Locked, IsJob, Compressing
  <2>4. DOMAIN job'[p] = JobFields
    BY <1>1 DEF Locked
  <2>5. /\ IsRegistry(sessions'[p])
        /\ job'[p].id \in DOMAIN sessions'[p]
        /\ job'[p].step = "results"
    BY <1>1 DEF Locked
  <2>6. QED
    BY <2>3, <2>4, <2>5 DEF ProcessOK
<1>5. Local(p)
  BY DEF Local
<1>6. QED
  BY <1>2, <1>3, <1>4, <1>5, LocalTInv

LEMMA TransformTInv ==
  ASSUME TInv, NEW p \in Process, NEW b \in Blob, Transform(p, b)
  PROVE  TInv'
<1>1. StoreOK'
  <2>1. ASSUME FirstSight(p, b)
        PROVE  raws' \subseteq Place
    <3>1. /\ p \in Process /\ b \in Blob
          /\ epoch[p] \in Nat
          /\ job[p].id \in SessionId
          /\ raws \subseteq Place
      BY TransformJob DEF TInv, TypeOK, IsJob, Idle, Busy
    <3>2. QED
      BY <2>1, <3>1 DEF FirstSight, Place
  <2>2. ASSUME RecordReceipt(p, b)
        PROVE  receipts' \subseteq Request \X Blob
    <3>1. job[p].req \in Request /\ receipts \subseteq Request \X Blob
      BY TransformJob DEF TInv, TypeOK, IsJob, Idle, Busy
    <3>2. QED
      BY <2>2, <3>1 DEF RecordReceipt
  <2>3. QED
    BY <2>1, <2>2 DEF Transform, PassThrough, FirstSight, Exempt, ToStore,
         PutBlob, GetBlob, RecordReceipt, StoreOK, TInv, TypeOK
<1>2. CountersOK'
  BY DEF Transform, PassThrough, FirstSight, Exempt, ToStore, PutBlob,
         GetBlob, RecordReceipt, CountersOK, TInv, TypeOK
<1>3. ProcessOK(p)'
  <2>1. /\ p \in Busy
        /\ job[p].step \in Compressing
        /\ job[p].todo # <<>>
        /\ \/ \E step \in {"put", "get", "receipt"} : Onward(p, step)
           \/ \E made \in {{}, {b}} : NextResult(p, made)
    BY TransformJob
  <2>2. /\ IsRegistry(sessions'[p])
        /\ job[p].id \in DOMAIN sessions'[p]
    BY TransformSessions
  <2>3. /\ IsJob(job[p]) /\ job[p] # Idle
        /\ job[p].todo \in Seq(Blob)
        /\ job[p].made \subseteq Blob
    BY <2>1 DEF TInv, TypeOK, IsJob, Busy, Idle
  <2>4. CASE \E step \in {"put", "get", "receipt"} : Onward(p, step)
    BY <2>1, <2>2, <2>3, <2>4
    DEF Onward, SameRequest, SameStart, ProcessOK, IsJob, Compressing
  <2>5. CASE \E made \in {{}, {b}} : NextResult(p, made)
    <3>1. Tail(job[p].todo) \in Seq(Blob)
      BY <2>1, <2>3
    <3>2. job'[p].made \subseteq Blob
      BY <2>3, <2>5 DEF NextResult
    <3>3. IsJob(job'[p])
      BY <2>3, <2>5, <3>1, <3>2
      DEF NextResult, SameRequest, SameStart, IsJob, Compressing
    <3>4. QED
      BY <2>2, <2>5, <3>3 DEF NextResult, SameRequest, ProcessOK
  <2>6. QED
    BY <2>1, <2>4, <2>5
<1>4. Local(p)
  BY DEF Local
<1>5. QED
  BY <1>1, <1>2, <1>3, <1>4, LocalTInv

LEMMA LeavingTInv ==
  ASSUME TInv, NEW p \in Process,
         Record(p) \/ ReadPins(p) \/ Forward(p) \/ Panic(p) \/ Restart(p)
  PROVE  TInv'
<1>1. Local(p)
  BY DEF Local
<1>2. /\ blobs \subseteq Blob
      /\ served \subseteq Blob \X Nat
      /\ IsRegistry(sessions[p])
      /\ IsJob(job[p])
  BY DEF TInv, TypeOK
<1>3. CASE Record(p)
  <2>1. StoreOK' /\ CountersOK'
    BY <1>3 DEF Record, StoreOK, CountersOK, TInv, TypeOK
  <2>2. /\ p \in Busy
        /\ SameRequest(p)
        /\ job'[p].step = "pins"
        /\ job'[p].todo = job[p].todo
        /\ job'[p].made = job[p].made
        /\ job'[p].pins = job[p].pins
        /\ job'[p].before = NoSessions
        /\ job'[p].beforeId = 0
        /\ IsRegistry(sessions'[p])
    BY <1>3, RecordEffect, Zenon
  <2>3. IsJob(job'[p])
    BY <1>2, <2>2, NoSessionsType DEF SameRequest, IsJob, Collecting, Busy
  <2>4. ProcessOK(p)'
    BY <2>2, <2>3 DEF ProcessOK, SameRequest, Compressing
  <2>5. QED
    BY <1>1, <2>1, <2>4, LocalTInv
<1>4. CASE ReadPins(p)
  <2>1. StoreOK' /\ CountersOK'
    BY <1>4 DEF ReadPins, StoreOK, CountersOK, TInv, TypeOK
  <2>2. job'[p].step = "remove" /\ job'[p] # Idle
    BY <1>4, ReadPinsEffect DEF Idle
  <2>3. Pins(p) \subseteq Blob
    BY <1>2 DEF Pins, Pinned, IsRegistry, Entry
  <2>4. IsJob(job'[p])
    BY <1>2, <1>4, <2>2, <2>3, ReadPinsEffect
    DEF SameRequest, IsJob, Collecting, Busy
  <2>5. ProcessOK(p)'
    BY <1>2, <1>4, <2>2, <2>4, ReadPinsEffect DEF ProcessOK, SameRequest, Compressing
  <2>6. QED
    BY <1>1, <2>1, <2>5, LocalTInv
<1>5. CASE Forward(p)
  <2>1. StoreOK'
    <3>1. ASSUME p \in Busy
          PROVE  /\ epoch[p] \in Nat
                 /\ job[p].id \in SessionId
                 /\ job[p].made \subseteq Blob
      BY <1>2, <3>1 DEF TInv, TypeOK, IsJob, Busy
    <3>2. p \in Busy
      BY <1>5, BusyJob DEF Forward
    <3>3. refs' \subseteq Place
      BY <1>5, <3>1, <3>2 DEF Forward, Place, TInv, TypeOK
    <3>4. QED
      BY <1>5, <3>3 DEF Forward, StoreOK, TInv, TypeOK
  <2>2. CountersOK'
    BY <1>5 DEF Forward, CountersOK, TInv, TypeOK
  <2>3. ProcessOK(p)'
    BY <1>5, LeaveEffect DEF ProcessOK, IsJob, Idle, Compressing
  <2>4. QED
    BY <1>1, <2>1, <2>2, <2>3, LocalTInv
<1>6. CASE Panic(p) \/ Restart(p)
  <2>1. StoreOK'
    BY <1>6 DEF Panic, Restart, StoreOK, TInv, TypeOK
  <2>2. CountersOK'
    <3>1. CASE Panic(p)
      <4>1. p \in Busy
        BY <3>1, BusyJob DEF Panic
      <4>2. job[p].req \in Request
        BY <1>2, <4>1 DEF IsJob, Busy
      <4>3. QED
        BY <3>1, <4>2 DEF Panic, CountersOK, TInv, TypeOK
    <3>2. CASE Restart(p)
      BY <3>2 DEF Restart, CountersOK, TInv, TypeOK
    <3>3. QED
      BY <1>6, <3>1, <3>2
  <2>3. ProcessOK(p)'
    BY <1>6, LeaveEffect DEF ProcessOK, IsJob, Idle, Compressing
  <2>4. QED
    BY <1>1, <2>1, <2>2, <2>3, LocalTInv
<1>7. QED
  BY <1>3, <1>4, <1>5, <1>6

LEMMA RemoveTInv ==
  ASSUME TInv, NEW p \in Process, NEW b \in Blob, Remove(p, b)
  PROVE  TInv'
<1>1. StoreOK' /\ CountersOK'
  BY DEF Remove, StoreOK, CountersOK, TInv, TypeOK
<1>2. ProcessOK(p)'
  BY TInvSplits DEF Remove, ProcessOK
<1>3. Local(p)
  BY DEF Local
<1>4. QED
  BY <1>1, <1>2, <1>3, LocalTInv

LEMMA OutsideTInv ==
  ASSUME TInv, Outside
  PROVE  TInv'
<1>1. StoreOK'
  <2>1. ASSUME NEW b \in Blob, Fetch(b)
        PROVE  StoreOK'
    BY <2>1 DEF Fetch, StoreOK, TInv, TypeOK
  <2>2. ASSUME NEW s \in serving, MarkServed(s)
        PROVE  StoreOK'
    BY <2>2 DEF MarkServed, StoreOK, TInv, TypeOK
  <2>3. CASE Tick
    BY <2>3 DEF Tick, StoreOK, TInv, TypeOK
  <2>4. CASE UNCHANGED vars
    BY <2>4 DEF vars, StoreOK, TInv, TypeOK
  <2>5. QED
    BY <2>1, <2>2, <2>3, <2>4 DEF Outside
<1>2. UNCHANGED <<sessions, nextId, epoch, job, lockedAt, grants, failed>>
  BY DEF Outside, Fetch, MarkServed, Tick, vars
<1>3. CountersOK'
  BY <1>2 DEF CountersOK, TInv, TypeOK
<1>4. \A q \in Process : ProcessOK(q)'
  BY <1>2, TInvSplits DEF ProcessOK
<1>5. Domains
  BY OutsideStep
<1>6. QED
  BY <1>1, <1>3, <1>4, <1>5, TInvSplits

LEMMA NextTInv ==
  ASSUME TInv, [Next]_vars
  PROVE  TInv'
<1>1. ASSUME NEW p \in Process, Local(p)
      PROVE  TInv'
  BY <1>1, LockTInv, TransformTInv, RemoveTInv, LeavingTInv DEF Local
<1>2. QED
  BY <1>1, NextSplits, OutsideTInv

LEMMA Typed == Spec => []TInv
<1>1. Init => TInv
  BY InitTInv
<1>2. TInv /\ [Next]_vars => TInv'
  BY NextTInv
<1>3. QED
  BY <1>1, <1>2, PTL DEF Spec

(* However processes, `bbg get`, panics and restarts interleave, the       *)
(* registries, jobs, ledgers and references stay well formed, and a        *)
(* request at work always finds the session it selected.                   *)
THEOREM TypeCorrect == Spec => []TypeOK
<1>1. TInv => TypeOK
  BY DEF TInv
<1>2. QED
  BY <1>1, Typed, PTL

----------------------------------------------------------------------------
(* Deduplication stays within a session *)

SightedAt(p) ==
  /\ \A id \in DOMAIN sessions[p] : \A b \in sessions[p][id].seen :
       Kind[b] = "file" => PlaceOf(p, id, b) \in raws
  /\ p \in Busy => \A b \in job[p].made :
       Kind[b] = "file" => PlaceOf(p, job[p].id, b) \in raws
  /\ Storing(p) /\ Kind[Head(job[p].todo)] = "file"
       => Head(job[p].todo) \in SeenBy(p)

(* If only process p takes a step, the others' sightings still hold.       *)
LEMMA LocalSighted ==
  ASSUME TInv, Sighted, NEW p \in Process, Local(p), raws \subseteq raws',
         SightedAt(p)'
  PROVE  Sighted'
<1>1. ASSUME NEW q \in Process, q # p
      PROVE  SightedAt(q)'
  <2>1. SameProcess(q)
    BY <1>1, LocalStep
  <2>2. SightedAt(q)
    BY DEF Sighted, SightedAt
  <2>3. QED
    BY <2>1, <2>2 DEF SameProcess, SightedAt, PlaceOf, Busy, Storing, SeenBy
<1>2. \A q \in Process : SightedAt(q)'
  BY <1>1
<1>3. QED
  BY <1>2 DEF Sighted, SightedAt

(* A step of transform remembers a file only as it is passed through, or   *)
(* after it had been seen; what it stores had been seen.                   *)
LEMMA TransformSighting ==
  ASSUME TInv, NEW p \in Process, NEW b \in Blob, Transform(p, b)
  PROVE  /\ raws \subseteq raws'
         /\ UNCHANGED <<refs, epoch>>
         /\ Storing(p) => job[p].step # "results"
         /\ \/ sessions' = sessions
            \/ Storing(p)
            \/ PlaceOf(p, job[p].id, b) \in raws'
         /\ Storing(p) \/ job'[p].made = job[p].made
         /\ Storing(p)' /\ Kind[b] = "file" => Storing(p) \/ b \in SeenBy(p)
<1>1. p \in Busy /\ DOMAIN job = Process /\ DOMAIN job[p] = JobFields
  BY TransformJob DEF TInv, WellFormed
<1>2. Storing(p) => job[p].step # "results"
  BY DEF Storing
<1>3. CASE PassThrough(p, b) \/ FirstSight(p, b) \/ \E readable \in BOOLEAN : Exempt(p, b, readable)
  <2>1. Done(p, {})
    BY <1>3 DEF PassThrough, FirstSight, Exempt
  <2>2. NextResult(p, {})
    BY <1>1, <2>1, DoneEffect
  <2>3. /\ raws \subseteq raws'
        /\ UNCHANGED <<refs, epoch>>
        /\ sessions' = sessions \/ PlaceOf(p, job[p].id, b) \in raws'
    BY <1>3 DEF PassThrough, FirstSight, Exempt, PlaceOf
  <2>4. QED
    BY <1>2, <2>2, <2>3 DEF NextResult, Storing
<1>4. CASE ToStore(p, b)
  <2>1. Onward(p, "put")
    BY <1>1, <1>4, OnwardEffect DEF ToStore
  <2>2. QED
    BY <1>2, <1>4, <2>1 DEF ToStore, Onward, SeenInExisting, SeenBy
<1>5. CASE PutBlob(p, b) \/ GetBlob(p, b) \/ RecordReceipt(p, b)
  <2>1. Storing(p)
    BY <1>5 DEF PutBlob, GetBlob, RecordReceipt, Result, Storing
  <2>2. QED
    BY <1>2, <1>5, <2>1 DEF PutBlob, GetBlob, RecordReceipt
<1>6. QED
  BY <1>3, <1>4, <1>5 DEF Transform

LEMMA TransformSighted ==
  ASSUME TInv, Sighted, NEW p \in Process, NEW b \in Blob, Transform(p, b)
  PROVE  Sighted'
<1>1. /\ SightedAt(p)
      /\ Local(p)
  BY DEF Sighted, SightedAt, Local
<1>2. /\ p \in Busy
      /\ b = Head(job[p].todo)
      /\ job'[p].id = job[p].id
      /\ job'[p].made \subseteq job[p].made \cup {b}
      /\ job'[p].step \in {"put", "get", "receipt"} => job'[p].todo = job[p].todo
  BY TransformJob DEF Onward, NextResult, SameRequest
<1>3. /\ DOMAIN sessions'[p] = DOMAIN sessions[p]
      /\ job[p].id \in DOMAIN sessions[p]
      /\ \A id \in DOMAIN sessions[p] :
           /\ sessions[p][id].seen \subseteq sessions'[p][id].seen
           /\ sessions'[p][id].seen \subseteq sessions[p][id].seen \cup {b}
  BY TransformSessions
<1>4. sessions' = sessions \/
        \A id \in DOMAIN sessions[p] :
          id # job[p].id => sessions'[p][id] = sessions[p][id]
  BY TransformSessions, TransformJob, RememberEffect
<1>5. /\ raws \subseteq raws'
      /\ epoch' = epoch
      /\ sessions' = sessions \/ Storing(p) \/ PlaceOf(p, job[p].id, b) \in raws'
      /\ Storing(p) \/ job'[p].made = job[p].made
      /\ Storing(p)' /\ Kind[b] = "file" => Storing(p) \/ b \in SeenBy(p)
  BY TransformSighting
<1>6. \A id, c : PlaceOf(p, id, c)' = PlaceOf(p, id, c)
  BY <1>5 DEF PlaceOf
<1>7. Storing(p) /\ Kind[b] = "file"
        => b \in SeenBy(p) /\ PlaceOf(p, job[p].id, b) \in raws
  BY <1>1, <1>2, <1>3 DEF SightedAt, SeenBy
<1>8. ASSUME NEW id \in DOMAIN sessions'[p], NEW c \in sessions'[p][id].seen,
             Kind[c] = "file"
      PROVE  PlaceOf(p, id, c)' \in raws'
  <2>1. CASE c \in sessions[p][id].seen
    BY <1>1, <1>3, <1>5, <1>6, <1>8, <2>1 DEF SightedAt
  <2>2. CASE c \notin sessions[p][id].seen
    <3>1. c = b /\ id = job[p].id /\ sessions' # sessions
      BY <1>3, <1>4, <1>8, <2>2
    <3>2. QED
      BY <1>5, <1>6, <1>7, <1>8, <3>1
  <2>3. QED
    BY <2>1, <2>2
<1>9. ASSUME NEW c \in job'[p].made, Kind[c] = "file"
      PROVE  PlaceOf(p, job[p].id, c)' \in raws'
  <2>1. PlaceOf(p, job[p].id, c) \in raws'
    BY <1>1, <1>2, <1>5, <1>7, <1>9 DEF SightedAt
  <2>2. QED
    BY <1>2, <1>5, <2>1 DEF PlaceOf
<1>10. Storing(p)' /\ Kind[Head(job'[p].todo)] = "file"
         => Head(job'[p].todo) \in SeenBy(p)'
  <2> SUFFICES ASSUME Storing(p)', Kind[Head(job'[p].todo)] = "file"
               PROVE  Head(job'[p].todo) \in SeenBy(p)'
    OBVIOUS
  <2>1. Head(job'[p].todo) = b
    BY <1>2 DEF Storing
  <2>2. b \in SeenBy(p)
    BY <1>5, <1>7, <2>1
  <2>3. QED
    BY <1>2, <1>3, <2>1, <2>2 DEF SeenBy
<1>11. SightedAt(p)'
  BY <1>8, <1>9, <1>10 DEF SightedAt
<1>12. QED
  BY <1>1, <1>5, <1>11, LocalSighted

(* Taking the mutex shows a session nothing.                               *)
LEMMA LockSeen ==
  ASSUME TInv, NEW p \in Process, NEW r \in Request, NEW y \in Payload,
         Lock(p, r, y)
  PROVE  /\ \A o \in DOMAIN sessions'[p] :
              \/ sessions'[p][o].seen = {}
              \/ o \in DOMAIN sessions[p] /\ sessions'[p][o].seen = sessions[p][o].seen
         /\ job'[p].made = {}
         /\ job'[p].step = "results"
         /\ job'[p].servedBefore = served
         /\ job'[p].req = r
         /\ UNCHANGED <<clock, blobs, served, serving, receipts, epoch, grants,
                        failed, refs, raws>>
<1>1. PICK S, id : Locked(p, r, y, S, id)
  BY LockEffect
<1>2. \A o \in DOMAIN sessions'[p] :
        \/ sessions'[p][o].seen = {}
        \/ o \in DOMAIN sessions[p] /\ sessions'[p][o].seen = sessions[p][o].seen
  BY <1>1 DEF Locked, EntryOf, NewEntry
<1>3. QED
  BY <1>1, <1>2 DEF Locked, Lock

LEMMA LockSighted ==
  ASSUME TInv, Sighted, NEW p \in Process, NEW r \in Request, NEW y \in Payload,
         Lock(p, r, y)
  PROVE  Sighted'
<1>1. SightedAt(p)
  BY DEF Sighted, SightedAt
<1>2. /\ \A o \in DOMAIN sessions'[p] :
           \/ sessions'[p][o].seen = {}
           \/ o \in DOMAIN sessions[p] /\ sessions'[p][o].seen = sessions[p][o].seen
      /\ job'[p].made = {}
      /\ job'[p].step = "results"
      /\ epoch' = epoch
      /\ raws' = raws
  BY LockSeen
<1>3. SightedAt(p)'
  BY <1>1, <1>2 DEF SightedAt, PlaceOf, Storing
<1>4. Local(p)
  BY DEF Local
<1>5. QED
  BY <1>2, <1>3, <1>4, LocalSighted

LEMMA LeavingSighted ==
  ASSUME TInv, Sighted, NEW p \in Process,
         Record(p) \/ ReadPins(p) \/ Forward(p) \/ Panic(p) \/ Restart(p)
  PROVE  Sighted'
<1>1. SightedAt(p)
  BY DEF Sighted, SightedAt
<1>2. raws' = raws
  BY DEF Record, ReadPins, Forward, Panic, Restart
<1>3. CASE Record(p)
  <2>1. /\ DOMAIN sessions'[p] \subseteq DOMAIN sessions[p]
        /\ \A o \in DOMAIN sessions'[p] : sessions'[p][o].seen = sessions[p][o].seen
        /\ p \in Busy
        /\ SameRequest(p)
        /\ job'[p].step = "pins"
        /\ job'[p].made = job[p].made
    BY <1>3, RecordEffect, Zenon
  <2>2. epoch' = epoch
    BY <1>3 DEF Record
  <2>3. SightedAt(p)'
    BY <1>1, <1>2, <2>1, <2>2 DEF SightedAt, PlaceOf, Storing, SameRequest
  <2>4. QED
    BY <1>2, <1>3, <2>3, LocalSighted DEF Local
<1>4. CASE ReadPins(p)
  <2>1. /\ sessions'[p] = sessions[p]
        /\ p \in Busy
        /\ SameRequest(p)
        /\ job'[p].step = "remove"
        /\ job'[p].made = job[p].made
    BY <1>4, ReadPinsEffect, Zenon
  <2>2. epoch' = epoch
    BY <1>4 DEF ReadPins
  <2>3. SightedAt(p)'
    BY <1>1, <1>2, <2>1, <2>2 DEF SightedAt, PlaceOf, Storing, SameRequest
  <2>4. QED
    BY <1>2, <1>4, <2>3, LocalSighted DEF Local
<1>5. CASE Forward(p) \/ Panic(p)
  <2>1. /\ UNCHANGED <<sessions, epoch>>
        /\ job'[p] = Idle
    BY <1>5, LeaveEffect DEF Forward, Panic
  <2>2. SightedAt(p)'
    BY <1>1, <1>2, <2>1 DEF SightedAt, PlaceOf, Storing, Idle, Busy
  <2>3. QED
    BY <1>2, <1>5, <2>2, LocalSighted DEF Local
<1>6. CASE Restart(p)
  <2>1. sessions'[p] = NoSessions /\ job'[p] = Idle
    BY <1>6, LeaveEffect DEF Restart, TInv, WellFormed
  <2>2. SightedAt(p)'
    BY <2>1, NoSessionsType DEF SightedAt, Storing, Idle, Busy
  <2>3. QED
    BY <1>2, <1>6, <2>2, LocalSighted DEF Local
<1>7. QED
  BY <1>3, <1>4, <1>5, <1>6

(* References are forwarded only to what the request made them to.         *)
LEMMA RefsGrow ==
  ASSUME TInv, NEW p \in Process, Local(p)
  PROVE  /\ raws \subseteq raws'
         /\ \A f \in refs' \ refs :
              /\ Forward(p)
              /\ p \in Busy
              /\ \E b \in job[p].made : f = PlaceOf(p, job[p].id, b)
<1>1. CASE Forward(p)
  <2>1. p \in Busy
    BY <1>1, BusyJob DEF Forward
  <2>2. QED
    BY <1>1, <2>1 DEF Forward, PlaceOf
<1>2. CASE \E b \in Blob : Transform(p, b)
  BY <1>2 DEF Transform, PassThrough, FirstSight, Exempt, ToStore, PutBlob,
              GetBlob, RecordReceipt
<1>3. CASE \/ \E r \in Request, y \in Payload : Lock(p, r, y)
           \/ \E b \in Blob : Remove(p, b)
           \/ Record(p) \/ ReadPins(p) \/ Panic(p) \/ Restart(p)
  BY <1>3 DEF Lock, Remove, Record, ReadPins, Panic, Restart
<1>4. QED
  BY <1>1, <1>2, <1>3 DEF Local

LEMMA NextDedup ==
  ASSUME DedupInv, [Next]_vars
  PROVE  DedupInv'
<1>1. TInv /\ TInv'
  BY NextTInv DEF DedupInv
<1>2. ASSUME NEW p \in Process, Local(p)
      PROVE  Sighted' /\ DedupWithinSession'
  <2>1. Sighted'
    <3>1. ASSUME NEW b \in Blob, Remove(p, b)
          PROVE  Sighted'
      BY <3>1 DEF Remove, DedupInv, Sighted, PlaceOf, Busy, Storing, SeenBy
    <3>2. QED
      BY <1>1, <1>2, <3>1, LockSighted, TransformSighted, LeavingSighted
      DEF Local, DedupInv
  <2>2. ASSUME NEW f \in refs', Kind[f.blob] = "file"
        PROVE  f \in raws'
    <3>1. raws \subseteq raws'
      BY <1>1, <1>2, RefsGrow
    <3>2. CASE f \in refs
      BY <2>2, <3>1, <3>2 DEF DedupInv, DedupWithinSession
    <3>3. CASE f \notin refs
      <4>1. p \in Busy /\ \E b \in job[p].made : f = PlaceOf(p, job[p].id, b)
        BY <1>1, <1>2, <2>2, <3>3, RefsGrow
      <4>2. QED
        BY <2>2, <3>1, <4>1 DEF DedupInv, Sighted, PlaceOf
    <3>4. QED
      BY <3>2, <3>3
  <2>3. QED
    BY <2>1, <2>2 DEF DedupWithinSession
<1>3. CASE Outside
  <2>1. /\ UNCHANGED <<sessions, epoch, job>>
        /\ UNCHANGED <<refs, raws>>
    BY <1>3 DEF Outside, Fetch, MarkServed, Tick, vars
  <2>2. QED
    BY <1>1, <2>1 DEF DedupInv, DedupWithinSession, Sighted, PlaceOf, Busy,
                      Storing, SeenBy
<1>4. QED
  BY <1>1, <1>2, <1>3, NextSplits DEF DedupInv

(* A file is replaced by a reference only in a session that was sent its   *)
(* bytes before, whatever processes, restarts and evictions interleave.    *)
THEOREM DedupStays == Spec => []DedupWithinSession
<1>1. Init => DedupInv
  <2> SUFFICES ASSUME Init PROVE DedupInv
    OBVIOUS
  <2>1. TInv
    BY InitTInv
  <2>2. Sighted
    BY NoSessionsType DEF Init, Sighted, Busy, Storing, Idle
  <2>3. QED
    BY <2>1, <2>2 DEF Init, DedupInv, DedupWithinSession
<1>2. DedupInv /\ [Next]_vars => DedupInv'
  BY NextDedup
<1>3. DedupInv => DedupWithinSession
  BY DEF DedupInv
<1>4. QED
  BY <1>1, <1>2, <1>3, PTL DEF Spec

----------------------------------------------------------------------------
(* What `bbg get` served is honoured *)

(* A step of p gives p a request that was in no mutex, ends its request,   *)
(* or goes on with it.                                                     *)
LEMMA RequestStep ==
  ASSUME TInv, NEW p \in Process, Local(p)
  PROVE  \/ \E r \in Request, y \in Payload : Lock(p, r, y)
         \/ p \notin Busy'
         \/ p \in Busy /\ SameRequest(p) /\ lockedAt' = lockedAt
<1>1. ASSUME NEW b \in Blob, Transform(p, b)
      PROVE  p \in Busy /\ SameRequest(p) /\ lockedAt' = lockedAt
  <2>1. p \in Busy /\ SameRequest(p)
    BY <1>1, TransformJob DEF Onward, NextResult
  <2>2. lockedAt' = lockedAt
    BY <1>1 DEF Transform, PassThrough, FirstSight, Exempt, ToStore, PutBlob,
                GetBlob, RecordReceipt
  <2>3. QED
    BY <2>1, <2>2
<1>2. ASSUME NEW b \in Blob, Remove(p, b)
      PROVE  p \in Busy /\ SameRequest(p) /\ lockedAt' = lockedAt
  <2>1. p \in Busy /\ DOMAIN job[p] = JobFields
    BY <1>2, BusyJob DEF Remove, Collecting
  <2>2. QED
    BY <1>2, <2>1 DEF Remove, SameRequest
<1>3. CASE Record(p)
  <2>1. p \in Busy /\ SameRequest(p)
    BY <1>3, RecordEffect, Zenon
  <2>2. QED
    BY <1>3, <2>1 DEF Record
<1>4. CASE ReadPins(p)
  <2>1. p \in Busy /\ SameRequest(p)
    BY <1>4, ReadPinsEffect, Zenon
  <2>2. QED
    BY <1>4, <2>1 DEF ReadPins
<1>5. CASE Forward(p) \/ Panic(p) \/ Restart(p)
  BY <1>5, LeaveEffect DEF Busy
<1>6. QED
  BY <1>1, <1>2, <1>3, <1>4, <1>5 DEF Local

LEMMA NextInOneMutex ==
  ASSUME TInv, InOneMutex, NEW p \in Process, Local(p)
  PROVE  InOneMutex'
<1>1. \A q \in Process : q # p => (q \in Busy' <=> q \in Busy) /\ job'[q] = job[q]
  BY LocalStep DEF SameProcess, Busy
<1>2. Busy' \subseteq Process
  BY DEF Busy
<1>3. CASE \E r \in Request, y \in Payload : Lock(p, r, y)
  <2>1. PICK r \in Request, y \in Payload : Lock(p, r, y)
    BY <1>3
  <2>2. job'[p].req = r
    BY <2>1, LockSeen
  <2>3. \A q \in Busy : job[q].req # r
    BY <2>1 DEF Lock, Unseen, Busy
  <2>4. QED
    BY <1>1, <1>2, <2>2, <2>3 DEF InOneMutex
<1>4. CASE p \notin Busy'
  BY <1>1, <1>2, <1>4 DEF InOneMutex
<1>5. CASE p \in Busy /\ SameRequest(p)
  BY <1>1, <1>2, <1>5 DEF InOneMutex, SameRequest
<1>6. QED
  BY <1>3, <1>4, <1>5, RequestStep

HonouredAt(p) ==
  p \in Busy =>
    /\ job[p].servedBefore \subseteq served
    /\ Storing(p) /\ Kind[Head(job[p].todo)] = "file" =>
         \A s \in job[p].servedBefore :
           s[1] = Head(job[p].todo) => OutOfWindow(s, lockedAt[p])
    /\ job[p].step = "remove" =>
         \A s \in job[p].servedBefore :
           s[1] \in job[p].pins \/ OutOfWindow(s, lockedAt[p])

(* A blob that was not served recently has no entry in the window.         *)
LEMMA NotRecent ==
  ASSUME TInv, NEW b, NEW p \in Process, ~ServedRecent(b, lockedAt[p]),
         NEW s \in served, s[1] = b
  PROVE  OutOfWindow(s, lockedAt[p])
<1>1. s[2] \in Nat /\ lockedAt[p] \in Nat /\ MaxAge \in Nat
  BY DedupAssumption DEF TInv, TypeOK
<1>2. QED
  BY <1>1 DEF ServedRecent, OutOfWindow

LEMMA TransformHonoured ==
  ASSUME TInv, NEW p \in Process, HonouredAt(p), NEW b \in Blob, Transform(p, b)
  PROVE  HonouredAt(p)'
<1>1. /\ p \in Busy
      /\ b = Head(job[p].todo)
      /\ SameRequest(p)
      /\ job'[p].step \in {"put", "get", "receipt"} => job'[p].todo = job[p].todo
      /\ job'[p].step # "remove"
  BY TransformJob DEF Onward, NextResult
<1>2. UNCHANGED <<lockedAt, served>>
  BY DEF Transform, PassThrough, FirstSight, Exempt, ToStore, PutBlob,
         GetBlob, RecordReceipt
<1>3. ASSUME Storing(p)', Kind[b] = "file"
      PROVE  Storing(p) \/ ~ServedRecent(b, lockedAt[p])
  <2>1. CASE PassThrough(p, b) \/ FirstSight(p, b) \/ \E readable \in BOOLEAN : Exempt(p, b, readable)
    <3>1. NextResult(p, {})
      BY <1>1, <2>1, DoneEffect DEF PassThrough, FirstSight, Exempt
    <3>2. QED
      BY <1>3, <3>1 DEF NextResult, Storing
  <2>2. CASE ToStore(p, b)
    BY <1>3, <2>2 DEF ToStore
  <2>3. CASE PutBlob(p, b) \/ GetBlob(p, b) \/ RecordReceipt(p, b)
    BY <2>3 DEF PutBlob, GetBlob, RecordReceipt, Result, Storing
  <2>4. QED
    BY <2>1, <2>2, <2>3 DEF Transform
<1>4. ASSUME Storing(p)', Kind[b] = "file",
             NEW s \in job[p].servedBefore, s[1] = b
      PROVE  OutOfWindow(s, lockedAt[p])
  <2>1. CASE Storing(p)
    BY <1>1, <1>4, <2>1 DEF HonouredAt
  <2>2. CASE ~ServedRecent(b, lockedAt[p])
    <3>1. s \in served
      BY <1>1, <1>4 DEF HonouredAt
    <3>2. QED
      BY <1>4, <2>2, <3>1, NotRecent
  <2>3. QED
    BY <1>3, <1>4, <2>1, <2>2
<1>5. job'[p].servedBefore \subseteq served'
  BY <1>1, <1>2 DEF HonouredAt, SameRequest
<1>6. QED
  BY <1>1, <1>2, <1>4, <1>5 DEF HonouredAt, SameRequest, Storing

LEMMA LocalHonoured ==
  ASSUME TInv, NEW p \in Process, HonouredAt(p), Local(p)
  PROVE  HonouredAt(p)'
<1>1. CASE \E r \in Request, y \in Payload : Lock(p, r, y)
  BY <1>1, LockSeen DEF HonouredAt, Storing
<1>2. ASSUME NEW b \in Blob, Transform(p, b)
      PROVE  HonouredAt(p)'
  BY <1>2, TransformHonoured
<1>3. ASSUME NEW b \in Blob, Remove(p, b)
      PROVE  HonouredAt(p)'
  BY <1>3 DEF Remove, HonouredAt, Busy, Storing
<1>4. CASE Record(p)
  <2>1. p \in Busy /\ SameRequest(p) /\ job'[p].step = "pins"
    BY <1>4, RecordEffect, Zenon
  <2>2. UNCHANGED <<lockedAt, served>>
    BY <1>4 DEF Record
  <2>3. QED
    BY <2>1, <2>2 DEF HonouredAt, SameRequest, Storing
<1>5. CASE ReadPins(p)
  <2>1. /\ p \in Busy
        /\ SameRequest(p)
        /\ job'[p].step = "remove"
        /\ job'[p].pins = Pins(p)
    BY <1>5, ReadPinsEffect, Zenon
  <2>2. UNCHANGED <<lockedAt, served>>
    BY <1>5 DEF ReadPins
  <2>3. ASSUME NEW s \in job[p].servedBefore, s[1] \notin Pins(p)
        PROVE  OutOfWindow(s, lockedAt[p])
    <3>1. s \in served
      BY <2>1 DEF HonouredAt
    <3>2. s[1] \in Blob
      BY <3>1 DEF TInv, TypeOK
    <3>3. ~ServedRecent(s[1], lockedAt[p])
      BY <2>3, <3>2 DEF Pins
    <3>4. QED
      BY <3>1, <3>3, NotRecent
  <2>4. QED
    BY <2>1, <2>2, <2>3 DEF HonouredAt, SameRequest, Storing
<1>6. CASE Forward(p) \/ Panic(p) \/ Restart(p)
  BY <1>6, LeaveEffect DEF HonouredAt, Busy
<1>7. QED
  BY <1>1, <1>2, <1>3, <1>4, <1>5, <1>6 DEF Local

LEMMA NextServed ==
  ASSUME ServedInv, [Next]_vars
  PROVE  ServedInv'
<1>1. TInv /\ TInv'
  BY NextTInv DEF ServedInv
<1>2. ASSUME NEW p \in Process, Local(p)
      PROVE  Honoured' /\ InOneMutex'
  <2>1. InOneMutex'
    BY <1>1, <1>2, NextInOneMutex DEF ServedInv
  <2>2. HonouredAt(p)'
    <3>1. HonouredAt(p)
      BY DEF ServedInv, Honoured, HonouredAt
    <3>2. QED
      BY <1>1, <1>2, <3>1, LocalHonoured
  <2>3. ASSUME NEW q \in Process, q # p
        PROVE  HonouredAt(q)'
    <3>1. SameProcess(q) /\ served' = served
      BY <1>1, <1>2, <2>3, LocalStep
    <3>2. QED
      BY <3>1 DEF ServedInv, Honoured, HonouredAt, SameProcess, Busy, Storing
  <2>4. \A q \in Process : HonouredAt(q)'
    BY <2>2, <2>3
  <2>5. QED
    BY <2>1, <2>4 DEF Honoured, HonouredAt, Busy
<1>3. CASE Outside
  <2>1. /\ UNCHANGED <<job, lockedAt>>
        /\ served \subseteq served'
    BY <1>3 DEF Outside, Fetch, MarkServed, Tick, vars
  <2>2. QED
    BY <1>1, <2>1 DEF ServedInv, Honoured, InOneMutex, Busy, Storing
<1>4. QED
  BY <1>1, <1>2, <1>3, NextSplits DEF ServedInv

(* A file is replaced by a reference, and a blob collected, only by a      *)
(* request that no `bbg get` of it within the window had preceded.         *)
LEMMA ServedStep ==
  ASSUME ServedInv, [Next]_vars
  PROVE  /\ \A f \in receipts' \ receipts :
              \A p \in Process :
                job[p] # Idle /\ job[p].req = f[1] /\ Kind[f[2]] = "file" =>
                  \A s \in job[p].servedBefore :
                    s[1] = f[2] => OutOfWindow(s, lockedAt[p])
         /\ \A p \in Process, b \in blobs \ blobs' :
              job[p].step = "remove" /\ b \notin job[p].pins =>
                \A s \in job[p].servedBefore :
                  s[1] = b => OutOfWindow(s, lockedAt[p])
<1>1. TInv
  BY DEF ServedInv
<1>2. ASSUME NEW f \in receipts' \ receipts, NEW p \in Process,
             job[p] # Idle, job[p].req = f[1], Kind[f[2]] = "file",
             NEW s \in job[p].servedBefore, s[1] = f[2]
      PROVE  OutOfWindow(s, lockedAt[p])
  <2>1. PICK q \in Process, b \in Blob : RecordReceipt(q, b)
    <3>1. ~Outside
      BY DEF Outside, Fetch, MarkServed, Tick, vars
    <3>2. PICK q \in Process : Local(q)
      BY <3>1, NextSplits
    <3>3. QED
      BY <3>2 DEF Local, Lock, Transform, PassThrough, FirstSight, Exempt,
           ToStore, PutBlob, GetBlob, Remove, Record, ReadPins, Forward,
           Panic, Restart
  <2>2. /\ f = <<job[q].req, b>>
        /\ job[q].step = "receipt"
        /\ b = Head(job[q].todo)
    BY <2>1 DEF RecordReceipt, Result
  <2>3. q \in Busy /\ Storing(q)
    BY <1>1, <2>2, BusyJob DEF Compressing, Storing
  <2>4. p = q
    BY <1>2, <2>2, <2>3 DEF ServedInv, InOneMutex, Busy
  <2>5. QED
    BY <1>2, <2>2, <2>3, <2>4 DEF ServedInv, Honoured
<1>3. ASSUME NEW p \in Process, NEW b \in blobs \ blobs',
             job[p].step = "remove", b \notin job[p].pins,
             NEW s \in job[p].servedBefore, s[1] = b
      PROVE  OutOfWindow(s, lockedAt[p])
  <2>1. p \in Busy
    BY <1>1, <1>3, BusyJob DEF Collecting
  <2>2. QED
    BY <1>3, <2>1 DEF ServedInv, Honoured
<1>4. QED
  BY <1>2, <1>3

(* However the store accesses of several processes and `bbg get` are       *)
(* interleaved, what had been served when a request took the mutex is      *)
(* neither replaced by a reference nor collected by it within the window.  *)
THEOREM ServedHonoured == Spec => ServedProtected
<1>1. Init => ServedInv
  <2> SUFFICES ASSUME Init PROVE ServedInv
    OBVIOUS
  <2>1. TInv
    BY InitTInv
  <2>2. Busy = {}
    BY DEF Init, Busy
  <2>3. QED
    BY <2>1, <2>2 DEF ServedInv, Honoured, InOneMutex
<1>2. ServedInv /\ [Next]_vars => ServedInv'
  BY NextServed
<1>3. ServedInv /\ [Next]_vars =>
        /\ [\A f \in receipts' \ receipts :
              \A p \in Process :
                job[p] # Idle /\ job[p].req = f[1] /\ Kind[f[2]] = "file" =>
                  \A s \in job[p].servedBefore :
                    s[1] = f[2] => s[2] > lockedAt[p] \/ lockedAt[p] - s[2] > MaxAge]_vars
        /\ [\A p \in Process, b \in blobs \ blobs' :
              job[p].step = "remove" /\ b \notin job[p].pins =>
                \A s \in job[p].servedBefore :
                  s[1] = b => s[2] > lockedAt[p] \/ lockedAt[p] - s[2] > MaxAge]_vars
  BY ServedStep DEF OutOfWindow
<1>4. QED
  BY <1>1, <1>2, <1>3, PTL DEF Spec, ServedProtected, ServedExempt, ServedKept

----------------------------------------------------------------------------
(* What a retained session pins *)

(* Taking the mutex adds at most a session whose id was never issued.      *)
LEMMA LockIds ==
  ASSUME TInv, NEW p \in Process, NEW r \in Request, NEW y \in Payload,
         Lock(p, r, y)
  PROVE  /\ job'[p].id \in DOMAIN sessions'[p]
         /\ nextId'[p] = nextId[p] \/ nextId'[p] = nextId[p] + 1
         /\ \A o \in DOMAIN sessions'[p] :
              \/ /\ o \in DOMAIN sessions[p]
                 /\ sessions'[p][o].seen = sessions[p][o].seen
              \/ /\ o.n = nextId[p] + 1
                 /\ nextId'[p] = nextId[p] + 1
<1>1. PICK S, id : Locked(p, r, y, S, id)
  BY LockEffect
<1>2. \/ id \in DOMAIN S /\ nextId'[p] = nextId[p]
      \/ id = NewId(y.history, nextId[p]) /\ nextId'[p] = nextId[p] + 1
  BY <1>1 DEF Locked, TInv, TypeOK
<1>3. job'[p].id \in DOMAIN sessions'[p]
  BY <1>1 DEF Locked
<1>4. ASSUME NEW o \in DOMAIN sessions'[p]
      PROVE  \/ /\ o \in DOMAIN sessions[p]
                /\ sessions'[p][o].seen = sessions[p][o].seen
             \/ /\ o.n = nextId[p] + 1
                /\ nextId'[p] = nextId[p] + 1
  <2>1. CASE o \in DOMAIN S /\ o # id
    BY <1>1, <2>1 DEF Locked
  <2>2. CASE o = id /\ id \in DOMAIN S
    BY <1>1, <2>2 DEF Locked, EntryOf
  <2>3. CASE o = id /\ id \notin DOMAIN S
    BY <1>2, <2>3 DEF NewId
  <2>4. QED
    BY <1>1, <1>4, <2>1, <2>2, <2>3 DEF Locked
<1>5. QED
  BY <1>2, <1>3, <1>4

(* A step of transform makes a reference only to the blob whose receipt it *)
(* writes, and a receipt follows a blob that was read back and remembered. *)
LEMMA TransformMade ==
  ASSUME TInv, NEW p \in Process, NEW b \in Blob, Transform(p, b)
  PROVE  /\ blobs \subseteq blobs'
         /\ UNCHANGED <<refs, nextId, epoch>>
         /\ job'[p].made = job[p].made \/ job[p].step = "receipt"
         /\ job'[p].step = "receipt" =>
              b \in blobs' /\ b \in SeenBy(p)' /\ job'[p].todo = job[p].todo
<1>1. p \in Busy /\ job[p].step \in Compressing
  BY TransformJob
<1>2. CASE PassThrough(p, b) \/ FirstSight(p, b) \/ \E readable \in BOOLEAN : Exempt(p, b, readable)
  <2>1. NextResult(p, {})
    BY <1>1, <1>2, DoneEffect DEF PassThrough, FirstSight, Exempt
  <2>2. QED
    BY <1>2, <2>1 DEF NextResult, PassThrough, FirstSight, Exempt
<1>3. CASE ToStore(p, b)
  <2>1. Onward(p, "put")
    BY <1>1, <1>3, OnwardEffect DEF ToStore
  <2>2. QED
    BY <1>3, <2>1 DEF Onward, ToStore
<1>4. CASE PutBlob(p, b)
  <2>1. Onward(p, "get") \/ NextResult(p, {})
    BY <1>1, <1>4, DoneEffect, OnwardEffect DEF PutBlob
  <2>2. QED
    BY <1>4, <2>1 DEF Onward, NextResult, PutBlob
<1>5. CASE GetBlob(p, b)
  <2>1. \/ /\ Onward(p, "receipt")
           /\ b \in blobs
           /\ sessions' = Remember(p, b)
        \/ NextResult(p, {})
    BY <1>1, <1>5, DoneEffect, OnwardEffect DEF GetBlob, Readable
  <2>2. sessions' = Remember(p, b) /\ job'[p].id = job[p].id => b \in SeenBy(p)'
    BY <1>1, RememberEffect DEF SeenBy
  <2>3. QED
    BY <1>5, <2>1, <2>2 DEF Onward, NextResult, GetBlob, SameRequest
<1>6. CASE RecordReceipt(p, b)
  <2>1. NextResult(p, {b}) \/ NextResult(p, {})
    BY <1>1, <1>6, DoneEffect DEF RecordReceipt
  <2>2. QED
    BY <1>6, <2>1 DEF NextResult, RecordReceipt, Result
<1>7. QED
  BY <1>2, <1>3, <1>4, <1>5, <1>6 DEF Transform

(* What stays of a session between two states of its process.              *)
Grown(q, o) ==
  /\ o \in DOMAIN sessions[q]
  /\ sessions[q][o].seen \subseteq sessions'[q][o].seen

(* A session that is there after a step of p was there before it and has   *)
(* forgotten nothing, or is new, of an id never issued.                    *)
LEMMA SessionsStep ==
  ASSUME TInv, NEW p \in Process, Local(p)
  PROVE  /\ \A o \in DOMAIN sessions'[p] :
              \/ Grown(p, o)
              \/ o.n = nextId[p] + 1 /\ nextId'[p] = nextId[p] + 1
         /\ \/ epoch'[p] = epoch[p] /\ nextId'[p] \in {nextId[p], nextId[p] + 1}
            \/ epoch'[p] = epoch[p] + 1 /\ DOMAIN sessions'[p] = {} /\ p \notin Busy'
<1>1. ASSUME NEW r \in Request, NEW y \in Payload, Lock(p, r, y)
      PROVE  /\ \A o \in DOMAIN sessions'[p] :
                  \/ Grown(p, o)
                  \/ o.n = nextId[p] + 1 /\ nextId'[p] = nextId[p] + 1
             /\ epoch'[p] = epoch[p]
             /\ nextId'[p] \in {nextId[p], nextId[p] + 1}
  BY <1>1, LockIds, LockSeen DEF Grown
<1>2. ASSUME NEW b \in Blob, Transform(p, b)
      PROVE  /\ \A o \in DOMAIN sessions'[p] : Grown(p, o)
             /\ epoch'[p] = epoch[p]
             /\ nextId'[p] = nextId[p]
  BY <1>2, TransformSessions, TransformMade DEF Grown
<1>3. CASE Record(p)
  <2>1. /\ DOMAIN sessions'[p] \subseteq DOMAIN sessions[p]
        /\ \A o \in DOMAIN sessions'[p] : sessions'[p][o].seen = sessions[p][o].seen
    BY <1>3, RecordEffect, Zenon
  <2>2. UNCHANGED <<epoch, nextId>>
    BY <1>3 DEF Record
  <2>3. QED
    BY <2>1, <2>2 DEF Grown
<1>4. CASE ReadPins(p) \/ Forward(p) \/ Panic(p) \/ \E b \in Blob : Remove(p, b)
  BY <1>4 DEF ReadPins, Forward, Panic, Remove, Grown
<1>5. CASE Restart(p)
  <2>1. sessions'[p] = NoSessions /\ epoch'[p] = epoch[p] + 1 /\ p \notin Busy'
    BY <1>5 DEF Restart, TInv, WellFormed, TypeOK, Busy
  <2>2. QED
    BY <2>1, NoSessionsType
<1>6. QED
  BY <1>1, <1>2, <1>3, <1>4, <1>5 DEF Local

(* So a reference to a retained session was there before and its session   *)
(* retained, or it is forwarded now.                                       *)
LEMMA RefsRetained ==
  ASSUME TInv, IdsIssued, NEW p \in Process, Local(p),
         NEW f \in refs', f.epoch = epoch'[f.proc],
         f.id \in DOMAIN sessions'[f.proc]
  PROVE  \/ /\ f \in refs
            /\ f.epoch = epoch[f.proc]
            /\ Grown(f.proc, f.id)
         \/ /\ Forward(p)
            /\ p \in Busy
            /\ \E b \in job[p].made : f = PlaceOf(p, job[p].id, b)
<1>1. CASE f \notin refs
  BY <1>1, RefsGrow
<1>2. CASE f \in refs
  <2>1. /\ f.proc \in Process /\ f.epoch \in Nat /\ f.id \in SessionId
        /\ epoch[f.proc] \in Nat /\ nextId[f.proc] \in Nat
    BY <1>2 DEF TInv, TypeOK, Place
  <2>2. f.id.n \in Nat
    BY <2>1 DEF SessionId
  <2>3. /\ f.epoch <= epoch[f.proc]
        /\ f.epoch = epoch[f.proc] => f.id.n <= nextId[f.proc]
    BY <1>2 DEF IdsIssued
  <2>4. CASE f.proc = p
    BY <1>2, <2>1, <2>2, <2>3, <2>4, SessionsStep
  <2>5. CASE f.proc # p
    <3>1. SameProcess(f.proc)
      BY <2>1, <2>5, LocalStep
    <3>2. QED
      BY <1>2, <3>1 DEF SameProcess, Grown
  <2>6. QED
    BY <2>4, <2>5
<1>3. QED
  BY <1>1, <1>2

(* A request's references after a step of p are those before it, or one    *)
(* more that it had a receipt to write for.                                *)
LEMMA MadeStep ==
  ASSUME TInv, NEW p \in Process, Local(p), p \in Busy',
         job'[p].id \in DOMAIN sessions'[p]
  PROVE  \/ job'[p].made = {} /\ job'[p].step = "results"
         \/ /\ p \in Busy
            /\ job'[p].id = job[p].id
            /\ Grown(p, job[p].id)
            /\ \/ job'[p].made = job[p].made
               \/ /\ job[p].step = "receipt"
                  /\ job'[p].made \subseteq job[p].made \cup {Head(job[p].todo)}
            /\ job'[p].step = "receipt" =>
                 /\ Head(job'[p].todo) \in SeenBy(p)'
                 /\ Head(job'[p].todo) \in blobs'
<1>1. ASSUME NEW r \in Request, NEW y \in Payload, Lock(p, r, y)
      PROVE  job'[p].made = {} /\ job'[p].step = "results"
  BY <1>1, LockSeen
<1>2. ASSUME NEW b \in Blob, Transform(p, b)
      PROVE  /\ p \in Busy
             /\ job'[p].id = job[p].id
             /\ Grown(p, job[p].id)
             /\ \/ job'[p].made = job[p].made
                \/ /\ job[p].step = "receipt"
                   /\ job'[p].made \subseteq job[p].made \cup {Head(job[p].todo)}
             /\ job'[p].step = "receipt" =>
                  /\ Head(job'[p].todo) \in SeenBy(p)'
                  /\ Head(job'[p].todo) \in blobs'
  <2>1. /\ p \in Busy
        /\ b = Head(job[p].todo)
        /\ job'[p].id = job[p].id
        /\ job'[p].made \subseteq job[p].made \cup {b}
    BY <1>2, TransformJob DEF Onward, NextResult, SameRequest
  <2>2. Grown(p, job[p].id)
    BY <1>2, TransformSessions DEF Grown
  <2>3. QED
    BY <1>2, <2>1, <2>2, TransformMade
<1>3. CASE Record(p)
  <2>1. /\ DOMAIN sessions'[p] \subseteq DOMAIN sessions[p]
        /\ \A o \in DOMAIN sessions'[p] : sessions'[p][o].seen = sessions[p][o].seen
        /\ p \in Busy /\ SameRequest(p)
        /\ job'[p].step = "pins" /\ job'[p].made = job[p].made
    BY <1>3, RecordEffect, Zenon
  <2>2. QED
    BY <2>1 DEF Grown, SameRequest
<1>4. CASE ReadPins(p)
  <2>1. /\ sessions'[p] = sessions[p]
        /\ p \in Busy /\ SameRequest(p)
        /\ job'[p].step = "remove" /\ job'[p].made = job[p].made
    BY <1>4, ReadPinsEffect, Zenon
  <2>2. QED
    BY <2>1 DEF Grown, SameRequest
<1>5. CASE \E b \in Blob : Remove(p, b)
  BY <1>5 DEF Remove, Grown, Busy
<1>6. CASE Forward(p) \/ Panic(p) \/ Restart(p)
  BY <1>6, LeaveEffect DEF Busy
<1>7. QED
  BY <1>1, <1>2, <1>3, <1>4, <1>5, <1>6 DEF Local

LEMMA NextIds ==
  ASSUME TInv, IdsIssued, NEW p \in Process, Local(p), TInv'
  PROVE  IdsIssued'
<1>1. /\ \A q \in Process : q # p => SameProcess(q)
      /\ nextId[p] \in Nat /\ nextId'[p] \in Nat
      /\ epoch[p] \in Nat
  BY LocalStep DEF TInv, TypeOK
<1>2. /\ \A o \in DOMAIN sessions'[p] :
           \/ o \in DOMAIN sessions[p]
           \/ o.n = nextId[p] + 1 /\ nextId'[p] = nextId[p] + 1
      /\ \/ epoch'[p] = epoch[p] /\ nextId'[p] \in {nextId[p], nextId[p] + 1}
         \/ epoch'[p] = epoch[p] + 1 /\ DOMAIN sessions'[p] = {} /\ p \notin Busy'
  BY SessionsStep DEF Grown
<1>3. \A o \in DOMAIN sessions[p] : o.n \in Nat /\ o.n <= nextId[p]
  BY DEF IdsIssued, TInv, TypeOK, IsRegistry, SessionId
<1>4. \A o \in DOMAIN sessions'[p] : o.n <= nextId'[p]
  BY <1>1, <1>2, <1>3
<1>5. ASSUME p \in Busy'
      PROVE  job'[p].id.n <= nextId'[p]
  <2>1. CASE \E r \in Request, y \in Payload : Lock(p, r, y)
    BY <2>1, <1>4, LockIds
  <2>2. CASE p \in Busy /\ SameRequest(p)
    <3>1. job[p].id.n \in Nat /\ job[p].id.n <= nextId[p]
      BY <2>2 DEF IdsIssued, TInv, TypeOK, IsJob, Busy, SessionId
    <3>2. QED
      BY <1>1, <1>2, <1>5, <2>2, <3>1 DEF SameRequest
  <2>3. QED
    BY <1>5, <2>1, <2>2, RequestStep
<1>6. ASSUME NEW f \in refs'
      PROVE  /\ f.epoch <= epoch'[f.proc]
             /\ f.epoch = epoch'[f.proc] => f.id.n <= nextId'[f.proc]
  <2>1. CASE f \in refs
    <3>1. /\ f.proc \in Process /\ f.epoch \in Nat /\ f.id \in SessionId
          /\ f.epoch <= epoch[f.proc]
          /\ f.epoch = epoch[f.proc] => f.id.n <= nextId[f.proc]
      BY <2>1 DEF IdsIssued, TInv, TypeOK, Place
    <3>2. f.id.n \in Nat
      BY <3>1 DEF SessionId
    <3>3. CASE f.proc = p
      BY <1>1, <1>2, <3>1, <3>2, <3>3
    <3>4. CASE f.proc # p
      BY <1>1, <3>1, <3>4 DEF SameProcess
    <3>5. QED
      BY <3>3, <3>4
  <2>2. CASE f \notin refs
    <3>1. /\ Forward(p) /\ p \in Busy
          /\ \E b \in job[p].made : f = PlaceOf(p, job[p].id, b)
      BY <1>6, <2>2, RefsGrow
    <3>2. UNCHANGED <<epoch, nextId>>
      BY <3>1 DEF Forward
    <3>3. QED
      BY <1>1, <3>1, <3>2 DEF PlaceOf, IdsIssued
  <2>3. QED
    BY <2>1, <2>2
<1>7. ASSUME NEW q \in Process
      PROVE  /\ \A id \in DOMAIN sessions'[q] : id.n <= nextId'[q]
             /\ q \in Busy' => job'[q].id.n <= nextId'[q]
  <2>1. CASE q = p
    BY <1>4, <1>5, <2>1
  <2>2. CASE q # p
    BY <1>1, <2>2 DEF SameProcess, IdsIssued, Busy
  <2>3. QED
    BY <2>1, <2>2
<1>8. QED
  BY <1>6, <1>7 DEF IdsIssued, Busy

MadeAt(p) ==
  p \in Busy =>
    /\ job[p].id \in DOMAIN sessions[p] =>
         /\ job[p].made \subseteq SeenBy(p)
         /\ job[p].step = "receipt" => Head(job[p].todo) \in SeenBy(p)
    /\ job[p].step = "remove" => Pinned(sessions[p]) \subseteq job[p].pins

LEMMA NextMade ==
  ASSUME TInv, NEW p \in Process, MadeAt(p), Local(p)
  PROVE  MadeAt(p)'
<1>1. ASSUME p \in Busy', job'[p].id \in DOMAIN sessions'[p]
      PROVE  /\ job'[p].made \subseteq SeenBy(p)'
             /\ job'[p].step = "receipt" => Head(job'[p].todo) \in SeenBy(p)'
  <2>1. CASE job'[p].made = {} /\ job'[p].step = "results"
    BY <2>1
  <2>2. CASE /\ p \in Busy
             /\ job'[p].id = job[p].id
             /\ Grown(p, job[p].id)
             /\ \/ job'[p].made = job[p].made
                \/ /\ job[p].step = "receipt"
                   /\ job'[p].made \subseteq job[p].made \cup {Head(job[p].todo)}
             /\ job'[p].step = "receipt" => Head(job'[p].todo) \in SeenBy(p)'
    <3>1. SeenBy(p) \subseteq SeenBy(p)'
      BY <2>2 DEF SeenBy, Grown
    <3>2. QED
      BY <2>2, <3>1 DEF MadeAt, Grown
  <2>3. QED
    BY <1>1, <2>1, <2>2, MadeStep
<1>2. ASSUME p \in Busy', job'[p].step = "remove"
      PROVE  Pinned(sessions'[p]) \subseteq job'[p].pins
  <2>1. CASE ReadPins(p)
    <3>1. sessions'[p] = sessions[p] /\ job'[p].pins = Pins(p)
      BY <2>1, ReadPinsEffect, Zenon
    <3>2. QED
      BY <3>1 DEF Pins
  <2>2. CASE \E b \in Blob : Remove(p, b)
    BY <1>2, <2>2 DEF Remove, MadeAt, Busy
  <2>3. CASE \E r \in Request, y \in Payload : Lock(p, r, y)
    BY <1>2, <2>3, LockSeen
  <2>4. ASSUME NEW b \in Blob, Transform(p, b)
        PROVE  FALSE
    BY <1>2, <2>4, TransformJob DEF Onward, NextResult
  <2>5. CASE Record(p)
    <3>1. job'[p].step = "pins"
      BY <2>5, RecordEffect, Zenon
    <3>2. QED
      BY <1>2, <3>1
  <2>6. CASE Forward(p) \/ Panic(p) \/ Restart(p)
    BY <1>2, <2>6, LeaveEffect DEF Busy
  <2>7. QED
    BY <2>1, <2>2, <2>3, <2>4, <2>5, <2>6 DEF Local
<1>3. QED
  BY <1>1, <1>2 DEF MadeAt

LEMMA NextPin ==
  ASSUME PinInv, [Next]_vars
  PROVE  PinInv'
<1>1. TInv /\ TInv'
  BY NextTInv DEF PinInv
<1>2. ASSUME NEW p \in Process, Local(p)
      PROVE  IdsIssued' /\ RefsPinned' /\ MadePinned'
  <2>1. IdsIssued'
    BY <1>1, <1>2, NextIds DEF PinInv
  <2>2. ASSUME NEW f \in refs', f.epoch = epoch'[f.proc],
               f.id \in DOMAIN sessions'[f.proc]
        PROVE  f.blob \in sessions'[f.proc][f.id].seen
    <3>1. CASE f \in refs /\ f.epoch = epoch[f.proc] /\ Grown(f.proc, f.id)
      BY <3>1 DEF PinInv, RefsPinned, Grown
    <3>2. CASE /\ Forward(p)
               /\ p \in Busy
               /\ \E b \in job[p].made : f = PlaceOf(p, job[p].id, b)
      <4>1. sessions' = sessions
        BY <3>2 DEF Forward
      <4>2. /\ f.proc = p
            /\ f.id = job[p].id
            /\ f.blob \in job[p].made
        BY <3>2 DEF PlaceOf
      <4>3. QED
        BY <2>2, <3>2, <4>1, <4>2 DEF PinInv, MadePinned, SeenBy
    <3>3. QED
      BY <1>1, <1>2, <2>2, <3>1, <3>2, RefsRetained DEF PinInv
  <2>3. MadeAt(p)'
    <3>1. MadeAt(p)
      BY DEF PinInv, MadePinned, MadeAt
    <3>2. QED
      BY <1>1, <1>2, <3>1, NextMade
  <2>4. ASSUME NEW q \in Process, q # p
        PROVE  MadeAt(q)'
    <3>1. SameProcess(q)
      BY <1>1, <1>2, <2>4, LocalStep
    <3>2. QED
      BY <3>1 DEF PinInv, MadePinned, MadeAt, SameProcess, Busy, SeenBy
  <2>5. \A q \in Process : MadeAt(q)'
    BY <2>3, <2>4
  <2>6. QED
    BY <2>1, <2>2, <2>5 DEF RefsPinned, MadePinned, MadeAt, Busy
<1>3. CASE Outside
  <2>1. UNCHANGED <<sessions, nextId, epoch, job, refs>>
    BY <1>3 DEF Outside, Fetch, MarkServed, Tick, vars
  <2>2. QED
    BY <1>1, <2>1 DEF PinInv, IdsIssued, RefsPinned, MadePinned, Busy, SeenBy
<1>4. QED
  BY <1>1, <1>2, <1>3, NextSplits DEF PinInv

LEMMA InitPin == Init => PinInv
<1> SUFFICES ASSUME Init PROVE PinInv
  OBVIOUS
<1>1. TInv /\ Busy = {} /\ refs = {}
  BY InitTInv DEF Init, Busy
<1>2. \A p \in Process : DOMAIN sessions[p] = {}
  BY NoSessionsType DEF Init
<1>3. QED
  BY <1>1, <1>2 DEF PinInv, IdsIssued, RefsPinned, MadePinned

(* A session that is retained has every blob it was sent a reference to    *)
(* among its pins, with any number of processes.                           *)
THEOREM RetainedPins == Spec => []RefsPinned
<1>1. PinInv /\ [Next]_vars => PinInv'
  BY NextPin
<1>2. PinInv => RefsPinned
  BY DEF PinInv
<1>3. QED
  BY InitPin, <1>1, <1>2, PTL DEF Spec

----------------------------------------------------------------------------
(* References stay recoverable, with one process per store *)

OneProcess == \A p, q \in Process : p = q

(* Only collection takes a blob away, and only one that its process does   *)
(* not pin.                                                                *)
LEMMA BlobsStep ==
  ASSUME PinInv, NEW p \in Process, Local(p)
  PROVE  /\ sessions' = sessions \/ blobs \subseteq blobs'
         /\ \A b \in blobs \ blobs' :
              /\ b \notin Pinned(sessions[p])
              /\ job[p].step = "remove"
              /\ UNCHANGED <<sessions, job>>
<1>1. TInv
  BY DEF PinInv
<1>2. ASSUME NEW b \in Blob, Remove(p, b)
      PROVE  /\ UNCHANGED <<sessions, job>>
             /\ job[p].step = "remove"
             /\ \A c \in blobs \ blobs' : c \notin Pinned(sessions[p])
  <2>1. job[p].step = "remove" /\ p \in Busy
    BY <1>1, <1>2, BusyJob DEF Remove, Collecting
  <2>2. Pinned(sessions[p]) \subseteq job[p].pins
    BY <2>1 DEF PinInv, MadePinned
  <2>3. QED
    BY <1>2, <2>1, <2>2 DEF Remove
<1>3. ASSUME NEW b \in Blob, Transform(p, b)
      PROVE  blobs \subseteq blobs'
  BY <1>1, <1>3, TransformMade
<1>4. CASE \/ \E r \in Request, y \in Payload : Lock(p, r, y)
           \/ Record(p) \/ ReadPins(p) \/ Forward(p) \/ Panic(p) \/ Restart(p)
  BY <1>4 DEF Lock, Record, ReadPins, Forward, Panic, Restart
<1>5. QED
  BY <1>2, <1>3, <1>4 DEF Local

LEMMA NextHeld ==
  ASSUME OneProcess, HeldInv, [Next]_vars
  PROVE  HeldInv'
<1>1. /\ PinInv /\ PinInv'
      /\ TInv /\ TInv'
      /\ IdsIssued
  BY NextPin DEF HeldInv, PinInv
<1>2. ASSUME NEW p \in Process, Local(p)
      PROVE  MadeHeld' /\ ReferenceRecoverable'
  <2>1. /\ sessions' = sessions \/ blobs \subseteq blobs'
        /\ \A b \in blobs \ blobs' :
             /\ b \notin Pinned(sessions[p])
             /\ job[p].step = "remove"
             /\ UNCHANGED <<sessions, job>>
    BY <1>1, <1>2, BlobsStep
  <2>2. \A q \in Process : q = p
    BY DEF OneProcess
  <2>3. ASSUME NEW o \in DOMAIN sessions[p], NEW b \in sessions[p][o].seen
        PROVE  b \in Pinned(sessions[p])
    BY DEF Pinned
  <2>4. ASSUME NEW f \in refs', f.epoch = epoch'[f.proc],
               f.id \in DOMAIN sessions'[f.proc]
        PROVE  f.blob \in blobs'
    <3>1. CASE f \in refs /\ f.epoch = epoch[f.proc] /\ Grown(f.proc, f.id)
      <4>1. f.proc = p
        BY <2>2, <3>1, <1>1 DEF TInv, TypeOK, Place
      <4>2. f.blob \in blobs
        BY <3>1 DEF HeldInv, ReferenceRecoverable, Grown
      <4>3. f.blob \in Pinned(sessions[p])
        BY <1>1, <2>3, <3>1, <4>1 DEF PinInv, RefsPinned, Grown
      <4>4. QED
        BY <2>1, <4>2, <4>3
    <3>2. CASE /\ Forward(p)
               /\ p \in Busy
               /\ \E b \in job[p].made : f = PlaceOf(p, job[p].id, b)
      <4>1. sessions' = sessions /\ blobs' = blobs
        BY <3>2 DEF Forward
      <4>2. /\ f.proc = p
            /\ f.id = job[p].id
            /\ f.blob \in job[p].made
        BY <3>2 DEF PlaceOf
      <4>3. QED
        BY <2>4, <3>2, <4>1, <4>2 DEF HeldInv, MadeHeld
    <3>3. QED
      BY <1>1, <1>2, <2>4, <3>1, <3>2, RefsRetained
  <2>5. ASSUME p \in Busy', job'[p].id \in DOMAIN sessions'[p]
        PROVE  /\ job'[p].made \subseteq blobs'
               /\ job'[p].step = "receipt" => Head(job'[p].todo) \in blobs'
    <3>1. CASE job'[p].made = {} /\ job'[p].step = "results"
      BY <3>1
    <3>2. CASE /\ p \in Busy
               /\ job'[p].id = job[p].id
               /\ Grown(p, job[p].id)
               /\ \/ job'[p].made = job[p].made
                  \/ /\ job[p].step = "receipt"
                     /\ job'[p].made \subseteq job[p].made \cup {Head(job[p].todo)}
               /\ job'[p].step = "receipt" =>
                    /\ Head(job'[p].todo) \in SeenBy(p)'
                    /\ Head(job'[p].todo) \in blobs'
      <4>1. job'[p].made \subseteq blobs /\ job'[p].made \subseteq SeenBy(p)
        BY <3>2 DEF HeldInv, MadeHeld, PinInv, MadePinned, Grown
      <4>2. \A b \in SeenBy(p) : b \in Pinned(sessions[p])
        BY <2>3, <3>2 DEF SeenBy, Grown
      <4>3. \A b \in SeenBy(p) : b \in blobs => b \in blobs'
        BY <2>1, <4>2
      <4>4. QED
        BY <3>2, <4>1, <4>3
    <3>3. QED
      BY <1>1, <1>2, <2>5, <3>1, <3>2, MadeStep
  <2>6. QED
    BY <2>2, <2>4, <2>5 DEF MadeHeld, ReferenceRecoverable, Busy
<1>3. CASE Outside
  <2>1. UNCHANGED <<blobs, sessions, epoch, job, refs>>
    BY <1>3 DEF Outside, Fetch, MarkServed, Tick, vars
  <2>2. QED
    BY <1>1, <2>1 DEF HeldInv, MadeHeld, ReferenceRecoverable, Busy
<1>4. QED
  BY <1>1, <1>2, <1>3, NextSplits DEF HeldInv

(* While one process uses a store, no interleaving of collection, eviction, *)
(* `bbg get`, I/O errors, panics and restarts takes away the blob behind a *)
(* reference whose session is retained.                                    *)
THEOREM ReferencesHeld ==
  ASSUME OneProcess
  PROVE  Spec => []ReferenceRecoverable
<1>1. Init => HeldInv
  <2>1. Init => Busy = {} /\ refs = {}
    BY DEF Init, Busy
  <2>2. QED
    BY <2>1, InitPin DEF HeldInv, MadeHeld, ReferenceRecoverable
<1>2. HeldInv /\ [Next]_vars => HeldInv'
  BY NextHeld
<1>3. HeldInv => ReferenceRecoverable
  BY DEF HeldInv
<1>4. QED
  BY <1>1, <1>2, <1>3, PTL DEF Spec

----------------------------------------------------------------------------
(* The critical section is atomic: what holds while a request is inside    *)

AtomicAt(p) ==
  /\ job[p].step \in Compressing =>
       /\ job[p].req \notin failed[p]
       /\ \A g \in grants[p] : g.req # job[p].req
       /\ \E q \in Payload : job[p].history = q.history
       /\ \E S \in Evicted(job[p].before, lockedAt[p]), B \in SUBSET Blob :
            /\ SelectedIn(p, S)
            /\ sessions[p] =
                 Put(S, job[p].id,
                     WorkedOn(EntryOf(S, job[p].id, lockedAt[p]), lockedAt[p], B))
  /\ IsFiniteSet(failed[p])
  /\ \A g \in grants[p] : g.epoch \in Nat /\ g.epoch <= epoch[p]
  /\ DistinctFirst(Before(p))

LEMMA AtomicSplits ==
  /\ AtomicInv <=> TInv /\ clock \in 0..MaxTime /\ \A p \in Process : AtomicAt(p)
  /\ AtomicInv' <=> TInv' /\ clock' \in 0..MaxTime /\ \A p \in Process : AtomicAt(p)'
BY DEF AtomicInv, AtomicAt, Underway

(* What a request inside the mutex has made of the registry it found.      *)
WorkOf(p, S, B) ==
  /\ S \in Evicted(job[p].before, lockedAt[p])
  /\ B \in SUBSET Blob
  /\ IsRegistry(S)
  /\ DistinctFirst(S)
  /\ SelectedIn(p, S)
  /\ Existing(S, job[p].history, job[p].id) \/ Fresh(S, job[p].history)
  /\ Fresh(S, job[p].history) => Related(S, job[p].history) = {}
  /\ EntryOf(S, job[p].id, lockedAt[p]) \in Entry
  /\ sessions[p] =
       Put(S, job[p].id,
           WorkedOn(EntryOf(S, job[p].id, lockedAt[p]), lockedAt[p], B))

LEMMA WorkDone ==
  ASSUME TInv, NEW p \in Process, AtomicAt(p), job[p].step \in Compressing
  PROVE  \E S, B : WorkOf(p, S, B)
<1>1. PICK S \in Evicted(job[p].before, lockedAt[p]), B \in SUBSET Blob :
        /\ SelectedIn(p, S)
        /\ sessions[p] =
             Put(S, job[p].id,
                 WorkedOn(EntryOf(S, job[p].id, lockedAt[p]), lockedAt[p], B))
  BY DEF AtomicAt
<1>2. /\ IsRegistry(job[p].before)
      /\ lockedAt[p] \in Nat
      /\ job[p].history \in Seq(Message)
  <2>1. p \in Busy
    BY BusyJob
  <2>2. QED
    BY <2>1 DEF TInv, TypeOK, IsJob, Busy
<1>3. DistinctFirst(job[p].before)
  BY DEF AtomicAt, Before
<1>4. IsRegistry(S)
  BY <1>2, EvictedKeeps
<1>5. DistinctFirst(S)
  BY <1>2, <1>3, EvictedDistinct
<1>6. Existing(S, job[p].history, job[p].id) \/ Fresh(S, job[p].history)
  BY <1>1 DEF SelectedIn
<1>7. Fresh(S, job[p].history) => Related(S, job[p].history) = {}
  BY <1>2, <1>4, <1>5, FreshUnrelated
<1>8. EntryOf(S, job[p].id, lockedAt[p]) \in Entry
  BY <1>2, <1>4, EntryOfType
<1>9. WorkOf(p, S, B)
  BY <1>1, <1>4, <1>5, <1>6, <1>7, <1>8 DEF WorkOf
<1>10. QED
  BY <1>9

LEMMA LockAtomic ==
  ASSUME TInv, NEW p \in Process, AtomicAt(p), NEW r \in Request,
         NEW y \in Payload, Lock(p, r, y)
  PROVE  /\ AtomicAt(p)'
         /\ Before(p)' = Before(p)
<1>1. PICK S, id : Locked(p, r, y, S, id)
  BY LockEffect
<1>2. job[p] = Idle /\ job[p].step \notin Compressing /\ Unseen(r)
  BY DEF Lock, Idle, Compressing
<1>3. /\ Before(p) = sessions[p]
      /\ Before(p)' = sessions[p]
  BY <1>1, <1>2 DEF Before, Locked, Compressing
<1>4. UNCHANGED <<epoch, grants, failed>>
  BY DEF Lock
<1>5. /\ job'[p].req \notin failed'[p]
      /\ \A g \in grants'[p] : g.req # job'[p].req
  BY <1>1, <1>2, <1>4 DEF Unseen, Locked
<1>6. SelectedIn(p, S)'
  <2>1. nextId[p] \in Nat /\ nextId \in [Process -> Nat]
    BY DEF TInv, TypeOK
  <2>2. \/ Existing(S, y.history, id) /\ nextId'[p] = nextId[p]
        \/ /\ Fresh(S, y.history)
           /\ id = NewId(y.history, nextId[p])
           /\ nextId'[p] = nextId[p] + 1
    BY <1>1, <2>1 DEF Locked
  <2>3. QED
    BY <1>1, <2>2 DEF Locked, SelectedIn
<1>7. /\ S \in Evicted(job'[p].before, lockedAt'[p])
      /\ sessions'[p] =
           Put(S, job'[p].id,
               WorkedOn(EntryOf(S, job'[p].id, lockedAt'[p]), lockedAt'[p], {}))
  BY <1>1 DEF Locked
<1>8. job'[p].history = y.history
  BY <1>1 DEF Locked
<1>9. QED
  BY <1>3, <1>4, <1>5, <1>6, <1>7, <1>8 DEF AtomicAt

LEMMA TransformAtomic ==
  ASSUME TInv, NEW p \in Process, AtomicAt(p), NEW b \in Blob, Transform(p, b)
  PROVE  /\ AtomicAt(p)'
         /\ Before(p)' = Before(p)
         /\ job'[p].step \in Compressing
         /\ job'[p].beforeId = job[p].beforeId
         /\ UNCHANGED <<nextId, lockedAt, epoch, grants, failed>>
<1>1. UNCHANGED <<nextId, lockedAt, epoch, grants, failed>>
  BY DEF Transform, PassThrough, FirstSight, Exempt, ToStore, PutBlob,
         GetBlob, RecordReceipt
<1>2. /\ job[p].step \in Compressing
      /\ job'[p].step \in Compressing
      /\ SameRequest(p)
      /\ SameStart(p)
  BY TransformJob DEF Onward, NextResult, Compressing
<1>3. PICK S, B : WorkOf(p, S, B)
  BY <1>2, WorkDone
<1>4. \E C \in SUBSET Blob :
        sessions'[p] = Put(S, job[p].id,
                           WorkedOn(EntryOf(S, job[p].id, lockedAt[p]), lockedAt[p], C))
  <2>1. CASE sessions' = sessions
    BY <1>3, <2>1 DEF WorkOf
  <2>2. CASE sessions' = Remember(p, b)
    <3> DEFINE id == job[p].id
               t == lockedAt[p]
               e == EntryOf(S, id, t)
    <3>1. /\ sessions[p] = Put(S, id, WorkedOn(e, t, B))
          /\ e \in Entry /\ t \in Nat /\ B \in SUBSET Blob
      BY <1>3 DEF WorkOf, TInv, TypeOK
    <3> HIDE DEF e
    <3>2. /\ DOMAIN sessions = Process
          /\ DOMAIN sessions[p] = DOMAIN S \cup {id}
          /\ sessions[p][id] = WorkedOn(e, t, B)
      BY <3>1 DEF Put, TInv, WellFormed
    <3>3. sessions'[p] = [sessions[p] EXCEPT ![id] =
            [sessions[p][id] EXCEPT !.seen = @ \cup {b}, !.access = t]]
      <4>1. sessions'[p] = [sessions[p] EXCEPT ![job[p].id] =
              [sessions[p][job[p].id] EXCEPT !.seen = @ \cup {b}, !.access = lockedAt[p]]]
        BY <1>2, <2>2, RememberEffect
      <4>2. QED
        BY <4>1
    <3>4. [WorkedOn(e, t, B) EXCEPT !.seen = @ \cup {b}, !.access = t]
            = WorkedOn(e, t, B \cup {b})
      BY <3>1 DEF WorkedOn, Entry
    <3>5. sessions'[p] = Put(S, id, WorkedOn(e, t, B \cup {b}))
      <4> DEFINE more == WorkedOn(e, t, B \cup {b})
      <4>1. [sessions[p][id] EXCEPT !.seen = @ \cup {b}, !.access = t] = more
        BY <3>2, <3>4
      <4> HIDE DEF more
      <4>2. sessions'[p] = [sessions[p] EXCEPT ![id] = more]
        BY <3>3, <4>1
      <4>3. [sessions[p] EXCEPT ![id] = more] = Put(S, id, more)
        BY <3>1 DEF Put
      <4>4. QED
        BY <4>2, <4>3 DEF more
    <3>6. B \cup {b} \in SUBSET Blob
      BY <3>1
    <3>7. QED
      BY <3>5, <3>6 DEF e
  <2>3. QED
    BY <2>1, <2>2, TransformSessions
<1>5. S \in Evicted(job'[p].before, lockedAt'[p]) /\ SelectedIn(p, S)'
  BY <1>1, <1>2, <1>3 DEF WorkOf, SelectedIn, SameRequest, SameStart
<1>6. Before(p)' = Before(p)
  BY <1>2 DEF Before, SameStart
<1>7. /\ job'[p].req \notin failed'[p]
      /\ \A g \in grants'[p] : g.req # job'[p].req
      /\ \E q \in Payload : job'[p].history = q.history
  BY <1>1, <1>2 DEF AtomicAt, SameRequest
<1>8. AtomicAt(p)'
  BY <1>1, <1>2, <1>4, <1>5, <1>6, <1>7 DEF AtomicAt, SameRequest
<1>9. QED
  BY <1>1, <1>2, <1>6, <1>8 DEF SameStart

(* The entry a request leaves behind when it records its history.          *)
RecordedWork(p, S, B) ==
  [WorkedOn(EntryOf(S, job[p].id, lockedAt[p]), lockedAt[p], B) EXCEPT
     !.history = job[p].history, !.access = lockedAt[p]]

GrantOf(p, turn) ==
  [req |-> job[p].req, epoch |-> epoch[p], id |-> job[p].id, turn |-> turn,
   history |-> job[p].history, collision |-> FALSE]

LEMMA RecordWork ==
  ASSUME TInv, NEW p \in Process, Record(p), NEW S, NEW B, WorkOf(p, S, B)
  PROVE  /\ sessions'[p] \in Evicted(Put(S, job[p].id, RecordedWork(p, S, B)), lockedAt[p])
         /\ grants'[p] = grants[p] \cup {GrantOf(p, RecordedWork(p, S, B).turn)}
         /\ RecordedWork(p, S, B) \in Entry
         /\ RecordedWork(p, S, B).history = job[p].history
<1> DEFINE id == job[p].id
           t == lockedAt[p]
           w == WorkedOn(EntryOf(S, id, t), t, B)
<1>1. /\ p \in Busy
      /\ job[p].step = "results"
      /\ LET entry == [sessions[p][job[p].id] EXCEPT
                         !.history = job[p].history, !.access = lockedAt[p]]
         IN  sessions'[p] \in Evicted(Put(sessions[p], job[p].id, entry), lockedAt[p])
  BY RecordEffect, Zenon
<1>2. w \in Entry
  BY WorkedOnType DEF WorkOf, TInv, TypeOK
<1>3. job[p].history \in Seq(Message) /\ lockedAt[p] \in Nat
  BY <1>1 DEF TInv, TypeOK, IsJob, Busy
<1>4. sessions[p] = Put(S, id, w)
  BY DEF WorkOf
<1>5. RecordedWork(p, S, B) = [w EXCEPT !.history = job[p].history, !.access = t]
  BY DEF RecordedWork
<1> HIDE DEF w
<1>6. sessions[p][id] = w
  BY <1>4 DEF Put
<1>7. /\ RecordedWork(p, S, B) \in Entry
      /\ RecordedWork(p, S, B).history = job[p].history
  BY <1>2, <1>3, <1>5 DEF Entry
<1>8. sessions'[p] \in Evicted(Put(S, id, RecordedWork(p, S, B)), t)
  <2>1. sessions'[p] \in Evicted(Put(Put(S, id, w), id, RecordedWork(p, S, B)), t)
    BY <1>1, <1>4, <1>5, <1>6
  <2>2. Put(Put(S, id, w), id, RecordedWork(p, S, B)) = Put(S, id, RecordedWork(p, S, B))
    BY PutTwice
  <2>3. QED
    BY <2>1, <2>2
<1>9. grants'[p] = grants[p] \cup {GrantOf(p, RecordedWork(p, S, B).turn)}
  <2>1. grants' = [grants EXCEPT ![p] = @ \cup {GrantOf(p,
           [sessions[p][id] EXCEPT !.history = job[p].history, !.access = RecordedAt(p)].turn)}]
    BY DEF Record, GrantOf
  <2>2. [sessions[p][id] EXCEPT !.history = job[p].history, !.access = RecordedAt(p)]
          = RecordedWork(p, S, B)
    BY <1>5, <1>6 DEF RecordedAt
  <2>3. grants' = [grants EXCEPT ![p] = @ \cup {GrantOf(p, RecordedWork(p, S, B).turn)}]
    BY <2>1, <2>2
  <2>4. p \in DOMAIN grants
    BY DEF TInv, WellFormed
  <2>5. QED
    BY <2>3, <2>4
<1>10. QED
  BY <1>7, <1>8, <1>9

(* The abstract registry's operators are those of RegistryOps.             *)
LEMMA SameSelection ==
  ASSUME NEW p \in Process, NEW S, NEW h, NEW id, NEW n
  PROVE  /\ Abstract(p)!Existing(S, h, id) = Existing(S, h, id)
         /\ Abstract(p)!Fresh(S, h) = Fresh(S, h)
         /\ Abstract(p)!NewId(h, n) = NewId(h, n)
         /\ Abstract(p)!Related(S, h) = Related(S, h)
BY DEF Abstract!Existing, Existing, Abstract!Fresh, Fresh, Abstract!NewId, NewId,
       Abstract!BestMatches, BestMatches, Abstract!Related, Related,
       Abstract!AtLeastAsClose, AtLeastAsClose, Abstract!SharesPrefix, SharesPrefix

LEMMA SameStorage ==
  ASSUME NEW p \in Process, NEW S, NEW t, NEW id, NEW e
  PROVE  /\ Abstract(p)!Evicted(S, t) = Evicted(S, t)
         /\ Abstract(p)!Put(S, id, e) = Put(S, id, e)
         /\ Abstract(p)!EntryOf(S, id, t) = EntryOf(S, id, t)
<1>1. Abstract(p)!Active(S, t) = Active(S, t)
  BY DEF Abstract!Active, Active, Abstract!IdleFor, IdleFor
<1>2. Abstract(p)!Survivors(S, t) = Survivors(S, t)
  <2>1. \A T : Abstract(p)!Cardinality(T) = Cardinality(T)
    BY DEF Abstract!Cardinality, Cardinality
  <2>2. QED
    BY <1>1, <2>1 DEF Abstract!Survivors, Survivors
<1>3. Abstract(p)!Evicted(S, t) = Evicted(S, t)
  BY <1>2 DEF Abstract!Evicted, Evicted, Abstract!Restrict, Restrict
<1>4. QED
  BY <1>3 DEF Abstract!Put, Put, Abstract!EntryOf, EntryOf, Abstract!NewEntry, NewEntry

LEMMA RecordAtomic ==
  ASSUME TInv, NEW p \in Process, AtomicAt(p), Record(p)
  PROVE  AtomicAt(p)' /\ Abstract(p)!Next
<1>1. /\ p \in Busy
      /\ job[p].step = "results"
      /\ job[p].step \in Compressing
      /\ job'[p].step = "pins"
      /\ job'[p].step \notin Compressing
  <2>1. p \in Busy /\ job[p].step = "results" /\ job'[p].step = "pins"
    BY RecordEffect, Zenon
  <2>2. QED
    BY <2>1 DEF Compressing
<1>2. PICK S, B : WorkOf(p, S, B)
  BY <1>1, WorkDone
<1> DEFINE id == job[p].id
           h == job[p].history
           t == lockedAt[p]
           entry == WorkedOn(EntryOf(S, id, t), t, B)
           recorded == RecordedWork(p, S, B)
           grant == GrantOf(p, recorded.turn)
<1>3. /\ sessions'[p] \in Evicted(Put(S, id, recorded), t)
      /\ grants'[p] = grants[p] \cup {grant}
      /\ recorded \in Entry
      /\ recorded.history = h
  BY <1>2, RecordWork
<1>4. UNCHANGED <<nextId, lockedAt, epoch, failed>>
  BY DEF Record
<1>5. /\ job[p].req \in Request /\ id \in SessionId
      /\ h \in Seq(Message) /\ t \in Nat
  BY <1>1 DEF TInv, TypeOK, IsJob, Busy
<1>6. /\ IsRegistry(S) /\ DistinctFirst(S)
      /\ Existing(S, h, id) \/ Fresh(S, h)
      /\ S \in Evicted(job[p].before, t)
      /\ B \in SUBSET Blob
  BY <1>2 DEF WorkOf
<1>7. AtomicAt(p)'
  <2>1. DistinctFirst(Put(S, id, recorded))
    BY <1>3, <1>5, <1>6, PutDistinct, Zenon
  <2>2. IsRegistry(Put(S, id, recorded))
    BY <1>3, <1>5, <1>6, PutType
  <2>3. DistinctFirst(sessions'[p])
    BY <1>3, <1>5, <2>1, <2>2, EvictedDistinct
  <2>4. Before(p)' = sessions'[p]
    BY <1>1 DEF Before
  <2>5. \A g \in grants'[p] : g.epoch \in Nat /\ g.epoch <= epoch'[p]
    BY <1>3, <1>4 DEF AtomicAt, GrantOf, TInv, TypeOK
  <2>6. QED
    BY <1>1, <1>4, <2>3, <2>4, <2>5 DEF AtomicAt
<1>8. Abstract(p)!Open(job[p].req, h, B)
  <2>1. Abstract(p)!Unseen(job[p].req)
    BY <1>1 DEF Abstract!Unseen, AtomicAt
  <2>2. Abstract(p)!Reserved(EntryOf(S, id, t), B) = entry
    BY DEF Abstract!Reserved, WorkedOn
  <2>3. /\ Before(p) = job[p].before
        /\ Before(p)' = sessions'[p]
    BY <1>1 DEF Before
  <2>4. id \in DOMAIN S \cup {NewId(h, job[p].beforeId)}
    BY <1>2 DEF WorkOf, SelectedIn, Existing, BestMatches, Related
  <2>5. Abstract(p)!Select(S, h, id)
    BY <1>1, <1>2, <1>4, SameSelection
    DEF Abstract!Select, WorkOf, SelectedIn
  <2>6. Abstract(p)!Collides(S, h) = FALSE
    BY <1>2, SameSelection DEF Abstract!Collides, WorkOf
  <2>7. Abstract(p)!Recorded(entry, h) = recorded
    BY DEF Abstract!Recorded, RecordedWork
  <2>8. recorded.turn = entry.turn
    BY DEF RecordedWork, WorkedOn
  <2>9. {g \in grants'[p] : g.epoch = epoch'[p]}
          = {g \in grants[p] : g.epoch = epoch[p]} \cup {grant}
    BY <1>3, <1>4 DEF GrantOf
  <2>10. Abstract(p)!Reserved(Abstract(p)!EntryOf(S, id, t), B) = entry
    BY <2>2, SameStorage
  <2>11. [req |-> job[p].req, epoch |-> epoch[p], id |-> id, turn |-> entry.turn,
          history |-> h, collision |-> Abstract(p)!Collides(S, h)] = grant
    BY <2>6, <2>8, Zenon DEF GrantOf
  <2>12. S \in Abstract(p)!Evicted(Before(p), t)
    BY <1>6, <2>3, SameStorage
  <2>13. Before(p)' \in Abstract(p)!Evicted(Abstract(p)!Put(S, id, recorded), t)
    BY <1>3, <2>3, SameStorage
  <2>14. id \in DOMAIN S \cup
           {Abstract(p)!NewId(h, IF job[p].step \in Compressing
                                  THEN job[p].beforeId ELSE nextId[p])}
    BY <1>1, <2>4, SameSelection
  <2> HIDE DEF id, h, t, entry, recorded, grant
  <2>15. /\ lockedAt'[p] = lockedAt[p]
         /\ epoch'[p] = epoch[p]
         /\ failed'[p] = failed[p]
    BY <1>4
  <2> DEFINE opened ==
        /\ Abstract(p)!Select(S, h, id)
        /\ Before(p)' \in Abstract(p)!Evicted(Abstract(p)!Put(S, id, recorded), t)
        /\ grants'[p] = grants[p] \cup {grant}
        /\ {g \in grants'[p] : g.epoch = epoch'[p]}
             = {g \in grants[p] : g.epoch = epoch[p]} \cup {grant}
  <2>16. opened
    BY <1>3, <2>5, <2>9, <2>13
  <2>17. QED
    BY <2>1, <2>7, <2>10, <2>11, <2>12, <2>14, <2>15, <2>16, Zenon
    DEF Abstract!Open, id, h, t
<1>9. h \in {q.history : q \in Payload}
  BY <1>1 DEF AtomicAt
<1>10. QED
  BY <1>5, <1>6, <1>7, <1>8, <1>9 DEF Abstract!Next

LEMMA PanicAtomic ==
  ASSUME TInv, NEW p \in Process, AtomicAt(p), Panic(p)
  PROVE  AtomicAt(p)' /\ Abstract(p)!Next
<1>1. /\ job[p].step \in Compressing
      /\ p \in Busy
      /\ job'[p] = Idle
      /\ job'[p].step \notin Compressing
  <2>1. job[p].step \in Compressing /\ job'[p] = Idle
    BY LeaveEffect DEF Panic
  <2>2. p \in Busy
    BY <2>1, BusyJob
  <2>3. QED
    BY <2>1, <2>2 DEF Idle, Compressing
<1>2. UNCHANGED <<sessions, nextId, lockedAt, epoch, grants>>
  BY DEF Panic
<1>3. failed'[p] = failed[p] \cup {job[p].req}
  BY DEF Panic, TInv, TypeOK
<1>4. PICK S, B : WorkOf(p, S, B)
  BY <1>1, WorkDone
<1> DEFINE id == job[p].id
           h == job[p].history
           t == lockedAt[p]
           entry == WorkedOn(EntryOf(S, id, t), t, B)
<1>5. /\ job[p].req \in Request /\ id \in SessionId
      /\ h \in Seq(Message) /\ t \in Nat
  BY <1>1 DEF TInv, TypeOK, IsJob, Busy
<1>6. /\ IsRegistry(S) /\ DistinctFirst(S)
      /\ Existing(S, h, id) \/ Fresh(S, h)
      /\ S \in Evicted(job[p].before, t)
      /\ B \in SUBSET Blob
      /\ EntryOf(S, id, t) \in Entry
      /\ sessions[p] = Put(S, id, entry)
  BY <1>4 DEF WorkOf
<1>7. /\ Before(p) = job[p].before
      /\ Before(p)' = sessions[p]
  BY <1>1, <1>2 DEF Before
<1>8. AtomicAt(p)'
  <2>1. entry \in Entry /\ entry.history = EntryOf(S, id, t).history
    BY <1>5, <1>6, WorkedOnType
  <2> HIDE DEF entry
  <2>2. DistinctFirst(Put(S, id, entry))
    BY <1>5, <1>6, <2>1, PutDistinct, Zenon
  <2>3. IsFiniteSet(failed'[p])
    BY <1>3, FS_AddElement DEF AtomicAt
  <2>4. QED
    BY <1>1, <1>2, <1>6, <1>7, <2>2, <2>3 DEF AtomicAt
<1>9. Abstract(p)!OpenPanics(job[p].req, h, B)
  <2>1. Abstract(p)!Unseen(job[p].req)
    BY <1>1 DEF Abstract!Unseen, AtomicAt
  <2>2. Abstract(p)!Select(S, h, id)
    BY <1>1, <1>2, <1>4, SameSelection
    DEF Abstract!Select, WorkOf, SelectedIn
  <2>3. S \in Abstract(p)!Evicted(Before(p), t)
    BY <1>6, <1>7, SameStorage
  <2>4. Before(p)' = Abstract(p)!Put(S, id,
                       Abstract(p)!Reserved(Abstract(p)!EntryOf(S, id, t), B))
    <3>1. Abstract(p)!Reserved(Abstract(p)!EntryOf(S, id, t), B) = entry
      BY SameStorage DEF Abstract!Reserved, WorkedOn
    <3>2. QED
      BY <1>6, <1>7, <3>1, SameStorage
  <2>5. id \in DOMAIN S \cup
          {Abstract(p)!NewId(h, IF job[p].step \in Compressing
                                 THEN job[p].beforeId ELSE nextId[p])}
    <3>1. id \in DOMAIN S \cup {NewId(h, job[p].beforeId)}
      BY <1>4 DEF WorkOf, SelectedIn, Existing, BestMatches, Related
    <3>2. QED
      BY <1>1, <3>1, SameSelection
  <2>6. /\ lockedAt'[p] = lockedAt[p]
        /\ epoch'[p] = epoch[p]
        /\ grants'[p] = grants[p]
        /\ {g \in grants'[p] : g.epoch = epoch'[p]}
             = {g \in grants[p] : g.epoch = epoch[p]}
    BY <1>2
  <2> HIDE DEF id, h, t
  <2>7. QED
    BY <1>3, <2>1, <2>2, <2>3, <2>4, <2>5, <2>6, Zenon
    DEF Abstract!OpenPanics, id, h, t
<1>10. h \in {q.history : q \in Payload}
  BY <1>1 DEF AtomicAt
<1>11. QED
  BY <1>5, <1>6, <1>8, <1>9, <1>10 DEF Abstract!Next

LEMMA RestartAtomic ==
  ASSUME TInv, NEW p \in Process, AtomicAt(p), Restart(p)
  PROVE  AtomicAt(p)' /\ Abstract(p)!Next
<1>1. /\ job'[p] = Idle
      /\ job'[p].step \notin Compressing
      /\ sessions'[p] = NoSessions
      /\ nextId'[p] = 0
      /\ epoch'[p] = epoch[p] + 1
      /\ epoch[p] \in Nat
      /\ UNCHANGED <<lockedAt, grants, failed>>
  BY LeaveEffect DEF Restart, TInv, TypeOK, WellFormed, Idle, Compressing
<1>2. Before(p)' = NoSessions
  BY <1>1 DEF Before
<1>3. \A g \in grants[p] : g.epoch \in Nat /\ g.epoch <= epoch[p]
  BY DEF AtomicAt
<1>4. AtomicAt(p)'
  BY <1>1, <1>2, <1>3, NoSessionsType DEF AtomicAt
<1>5. epoch[p] < MaxFaults
  <2>1. Cardinality(failed[p]) \in Nat
    BY FS_CardinalityType DEF AtomicAt
  <2>2. QED
    BY <1>1, <2>1, DedupAssumption DEF Restart, Faults
<1>6. {g \in grants'[p] : g.epoch = epoch'[p]} = {}
  BY <1>1, <1>3
<1>7. Before(p)' = Abstract(p)!NoSessions
  BY <1>2 DEF Abstract!NoSessions, NoSessions
<1>8. Abstract(p)!Restart
  BY <1>1, <1>5, <1>6, <1>7 DEF Abstract!Restart
<1>9. QED
  BY <1>4, <1>8 DEF Abstract!Next

(* A process that takes no step stays as it is, seen from outside too.     *)
LEMMA Stays ==
  ASSUME NEW q \in Process, AtomicAt(q), SameProcess(q)
  PROVE  AtomicAt(q)' /\ UNCHANGED Abstract(q)!vars
<1>1. Before(q)' = Before(q)
  BY DEF SameProcess, Before
<1>2. AtomicAt(q)'
  BY <1>1 DEF SameProcess, AtomicAt, SelectedIn
<1>3. QED
  BY <1>1, <1>2 DEF Abstract!vars, SameProcess

LEMMA NextAtomic ==
  ASSUME AtomicInv, [Next]_vars
  PROVE  /\ AtomicInv'
         /\ \A p \in Process : UNCHANGED Abstract(p)!vars \/ Abstract(p)!Next
<1>1. /\ TInv /\ TInv'
      /\ clock \in 0..MaxTime
      /\ \A q \in Process : AtomicAt(q)
  BY AtomicSplits, NextTInv
<1>2. ASSUME NEW p \in Process, Local(p)
      PROVE  AtomicAt(p)' /\ (UNCHANGED Abstract(p)!vars \/ Abstract(p)!Next)
  <2>1. AtomicAt(p)
    BY <1>1
  <2>2. ASSUME NEW r \in Request, NEW y \in Payload, Lock(p, r, y)
        PROVE  AtomicAt(p)' /\ (UNCHANGED Abstract(p)!vars \/ Abstract(p)!Next)
    <3>1. AtomicAt(p)' /\ Before(p)' = Before(p)
      BY <1>1, <2>1, <2>2, LockAtomic
    <3>2. /\ job[p].step \notin Compressing
          /\ job'[p].step \in Compressing
          /\ job'[p].beforeId = nextId[p]
          /\ lockedAt'[p] = clock
      <4>1. PICK S, id : Locked(p, r, y, S, id)
        BY <1>1, <2>2, LockEffect
      <4>2. job[p] = Idle
        BY <2>2 DEF Lock
      <4>3. QED
        BY <4>1, <4>2 DEF Locked, Idle, Compressing
    <3>3. UNCHANGED <<epoch, grants, failed>>
      BY <2>2 DEF Lock
    <3>4. CASE clock = lockedAt[p]
      BY <3>1, <3>2, <3>3, <3>4 DEF Abstract!vars
    <3>5. CASE clock # lockedAt[p]
      <4>1. Abstract(p)!SetClock(clock)
        BY <3>1, <3>2, <3>3, <3>5 DEF Abstract!SetClock
      <4>2. QED
        BY <1>1, <3>1, <4>1 DEF Abstract!Next
    <3>6. QED
      BY <3>4, <3>5
  <2>3. ASSUME NEW b \in Blob, Transform(p, b)
        PROVE  AtomicAt(p)' /\ UNCHANGED Abstract(p)!vars
    <3>1. job[p].step \in Compressing
      BY <1>1, <2>3, TransformJob
    <3>2. QED
      BY <1>1, <2>1, <2>3, <3>1, TransformAtomic DEF Abstract!vars
  <2>4. CASE ReadPins(p) \/ Forward(p) \/ \E b \in Blob : Remove(p, b)
    <3>1. /\ job[p].step \notin Compressing
          /\ job'[p].step \notin Compressing
      BY <1>1, <2>4, ReadPinsEffect, LeaveEffect
      DEF ReadPins, Forward, Remove, Idle, Compressing, Collecting
    <3>2. UNCHANGED <<sessions, nextId, epoch, lockedAt, grants, failed>>
      BY <2>4 DEF ReadPins, Forward, Remove
    <3>3. Before(p)' = Before(p)
      BY <3>1, <3>2 DEF Before
    <3>4. QED
      BY <2>1, <3>1, <3>2, <3>3 DEF AtomicAt, Abstract!vars
  <2>5. QED
    BY <1>1, <1>2, <2>1, <2>2, <2>3, <2>4, RecordAtomic, PanicAtomic, RestartAtomic
    DEF Local
<1>3. ASSUME NEW p \in Process, Local(p)
      PROVE  /\ AtomicInv'
             /\ \A q \in Process : UNCHANGED Abstract(q)!vars \/ Abstract(q)!Next
  <2>1. \A q \in Process : q # p => SameProcess(q)
    BY <1>1, <1>3, LocalStep
  <2>2. \A q \in Process :
          AtomicAt(q)' /\ (UNCHANGED Abstract(q)!vars \/ Abstract(q)!Next)
    BY <1>1, <1>2, <1>3, <2>1, Stays
  <2>3. clock' = clock
    BY <1>3 DEF Local, Lock, Transform, PassThrough, FirstSight, Exempt, ToStore,
         PutBlob, GetBlob, RecordReceipt, Remove, Record, ReadPins, Forward,
         Panic, Restart
  <2>4. QED
    BY <1>1, <2>2, <2>3, AtomicSplits
<1>4. CASE Outside
  <2>1. \A q \in Process : SameProcess(q)
    BY <1>1, <1>4, OutsideStep
  <2>2. \A q \in Process : AtomicAt(q)' /\ UNCHANGED Abstract(q)!vars
    BY <1>1, <2>1, Stays
  <2>3. clock' \in 0..MaxTime
    BY <1>1, <1>4, DedupAssumption DEF Outside, Fetch, MarkServed, Tick, vars
  <2>4. QED
    BY <1>1, <2>2, <2>3, AtomicSplits
<1>5. QED
  BY <1>3, <1>4, NextSplits

LEMMA InitAtomic ==
  ASSUME Init
  PROVE  AtomicInv /\ \A p \in Process : Abstract(p)!Init
<1>1. ASSUME NEW p \in Process
      PROVE  /\ job[p].step \notin Compressing
             /\ Before(p) = NoSessions
             /\ nextId[p] = 0 /\ lockedAt[p] = 0 /\ epoch[p] = 0
             /\ grants[p] = {} /\ failed[p] = {}
  BY DEF Init, Idle, Compressing, Before
<1>2. \A p \in Process : AtomicAt(p)
  BY <1>1, NoSessionsType, FS_EmptySet DEF AtomicAt
<1>3. clock \in 0..MaxTime
  BY DedupAssumption DEF Init
<1>4. ASSUME NEW p \in Process
      PROVE  Abstract(p)!Init
  <2>1. NoSessions = Abstract(p)!NoSessions
    BY DEF NoSessions, Abstract!NoSessions
  <2>2. 0 \in 0..MaxTime
    BY DedupAssumption
  <2>3. QED
    BY <1>1, <2>1, <2>2 DEF Abstract!Init
<1>5. QED
  BY <1>2, <1>3, <1>4, InitTInv, AtomicSplits

(* Interleaved store accesses, `bbg get`, I/O errors, other processes and  *)
(* the clock do not show in a process's registry: it implements            *)
(* SessionRegistry, whose every safety property therefore holds of it.     *)
THEOREM Atomic == Spec => CriticalSectionAtomic
<1>1. Init => AtomicInv /\ \A p \in Process : Abstract(p)!Init
  BY InitAtomic
<1>2. AtomicInv /\ [Next]_vars => AtomicInv'
  BY NextAtomic
<1>3. AtomicInv /\ [Next]_vars =>
        [\A p \in Process : UNCHANGED Abstract(p)!vars \/ Abstract(p)!Next]_vars
  BY NextAtomic
<1>4. QED
  BY <1>1, <1>2, <1>3, PTL DEF Spec, CriticalSectionAtomic
============================================================================
