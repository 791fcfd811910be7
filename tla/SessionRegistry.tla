-------------------------- MODULE SessionRegistry --------------------------
(***************************************************************************)
(* The registry of one proxy process over the life of several requests and *)
(* several runs of the process (src/src/session.rs, and its callers in     *)
(* src/src/proxy.rs).                                                      *)
(*                                                                         *)
(* A request enters the registry's mutex twice: once in open_*_session,    *)
(* which selects a session, reserves a turn, remembers the tool results it *)
(* read, records the history and evicts; and, on a conversation's first    *)
(* turn, once more in first_turn_advisory.  Other requests and a change of *)
(* the wall clock may come in between.  Each critical section is one       *)
(* action.  What leaves the process - the (session, turn) pair a request's *)
(* ledger records carry, and the advisory receipts - is kept in grants and *)
(* advised, which a restart does not clear.                                *)
(***************************************************************************)
EXTENDS RegistryOps

CONSTANTS
  Request,      \* requests, each handled once
  History,      \* the message histories they carry
  Clock,        \* readings of the wall clock, in seconds
  User,         \* the messages with role "user"
  Assistant,    \* the messages with role "assistant"
  MaxEpoch      \* bound: restarts of the process

ASSUME SessionAssumption ==
  /\ History \subseteq Seq(Message)
  /\ Clock \subseteq Nat
  /\ MaxEpoch \in Nat

VARIABLES
  sessions,     \* Registry.sessions
  nextId,       \* Registry.next_id
  now,          \* the wall clock
  epoch,        \* restarts so far
  grants,       \* the turns reserved, as the ledgers record them
  advisable,    \* grants whose request has not reached first_turn_advisory
  advised,      \* the advisory receipts
  failed        \* requests that panicked inside the mutex

vars == <<sessions, nextId, now, epoch, grants, advisable, advised, failed>>

Grant ==
  [req : Request, epoch : Nat, id : SessionId, turn : Nat,
   history : Seq(Message), collision : BOOLEAN]

TypeOK ==
  /\ IsRegistry(sessions)
  /\ nextId \in Nat
  /\ now \in Nat
  /\ epoch \in Nat
  /\ grants \subseteq Grant
  /\ advisable \subseteq grants
  /\ advised \subseteq grants
  /\ failed \subseteq Request

Init ==
  /\ sessions = NoSessions
  /\ nextId = 0
  /\ now \in Clock
  /\ epoch = 0
  /\ grants = {}
  /\ advisable = {}
  /\ advised = {}
  /\ failed = {}

----------------------------------------------------------------------------
(* The wall clock: it may be set back, hence the saturating subtraction.   *)
SetClock(t) ==
  /\ t # now
  /\ now' = t
  /\ UNCHANGED <<sessions, nextId, epoch, grants, advisable, advised, failed>>

Unseen(r) == r \notin failed /\ \A g \in grants : g.req # r

(* Mutation: the counter is not advanced for a new session.                *)
SelectSameId(S, h, id) ==
  \/ /\ Existing(S, h, id)
     /\ nextId' = nextId
  \/ /\ Fresh(S, h)
     /\ id = NewId(h, nextId)
     /\ nextId' = nextId

(* Registry::select on the registry that eviction left as S: the request   *)
(* works on session id, and a new session uses up an id.                   *)
Select(S, h, id) ==
  \/ /\ Existing(S, h, id)
     /\ nextId' = nextId
  \/ /\ Fresh(S, h)
     /\ id = NewId(h, nextId)
     /\ nextId' = nextId + 1

(* New { collision: longest > 0 }                                          *)
Collides(S, h) == Fresh(S, h) /\ Related(S, h) # {}

(* Mutation: turns count down.                                             *)
ReservedDown(entry, B) ==
  [entry EXCEPT !.turn = @ - 1, !.access = now, !.seen = @ \cup B]

(* reserve_turn, then remember for the results B the request turns into    *)
(* references or reads for the first time.                                 *)
Reserved(entry, B) ==
  [entry EXCEPT !.turn = @ + 1, !.access = now, !.seen = @ \cup B]

(* Registry::record: what it writes before it evicts.                      *)
Recorded(entry, h) == [entry EXCEPT !.history = h, !.access = now]

(* open_openai_session / open_anthropic_session                            *)
Open(r, h, B) ==
  /\ Unseen(r)
  /\ \E S \in Evicted(sessions, now) :
       \E id \in DOMAIN S \cup {NewId(h, nextId)} :
         LET entry == Reserved(EntryOf(S, id, now), B)
             grant == [req |-> r, epoch |-> epoch, id |-> id,
                       turn |-> entry.turn, history |-> h,
                       collision |-> Collides(S, h)]
         IN  /\ Select(S, h, id)
             /\ sessions' \in Evicted(Put(S, id, Recorded(entry, h)), now)
             /\ grants' = grants \cup {grant}
             /\ advisable' = advisable \cup {grant}
  /\ UNCHANGED <<now, epoch, advised, failed>>

(* A panic inside open_*_session after the turn was reserved: the request  *)
(* dies and lock_sessions hands the half-updated registry to the next one. *)
OpenPanics(r, h, B) ==
  /\ Unseen(r)
  /\ \E S \in Evicted(sessions, now) :
       \E id \in DOMAIN S \cup {NewId(h, nextId)} :
         /\ Select(S, h, id)
         /\ sessions' = Put(S, id, Reserved(EntryOf(S, id, now), B))
  /\ failed' = failed \cup {r}
  /\ UNCHANGED <<now, epoch, grants, advisable, advised>>

Count(h, role) == Cardinality({i \in DOMAIN h : h[i] \in role})

(* is_conversation_start: one user message and no assistant message.       *)
IsConversationStart(h) == Count(h, User) = 1 /\ Count(h, Assistant) = 0

(* Mutation: the attempt is not remembered.                                *)
MayAdviseAgain(id) == id \in DOMAIN sessions

(* reserve_advisory_turn                                                   *)
MayAdvise(id) == id \in DOMAIN sessions /\ ~sessions[id].attempted

(* first_turn_advisory, under the mutex for the second time: the session   *)
(* may have been evicted or advised in between.                            *)
Advise(g) ==
  /\ g \in advisable
  /\ IsConversationStart(g.history)
  /\ advisable' = advisable \ {g}
  /\ \/ /\ MayAdvise(g.id)
        /\ sessions' = [sessions EXCEPT ![g.id].attempted = TRUE]
        /\ advised' = advised \cup {g}
     \/ /\ ~MayAdvise(g.id)
        /\ UNCHANGED <<sessions, advised>>
  /\ UNCHANGED <<nextId, now, epoch, grants, failed>>

(* The process stops and starts again.  The registry is in memory only;    *)
(* the requests in flight go with it.                                      *)
Restart ==
  /\ epoch < MaxEpoch
  /\ epoch' = epoch + 1
  /\ sessions' = NoSessions
  /\ nextId' = 0
  /\ advisable' = {}
  /\ UNCHANGED <<now, grants, advised, failed>>

Next ==
  \/ \E t \in Clock : SetClock(t)
  \/ \E r \in Request, h \in History, B \in SUBSET Blob :
       Open(r, h, B) \/ OpenPanics(r, h, B)
  \/ \E g \in grants : Advise(g)
  \/ Restart

Spec == Init /\ [][Next]_vars

----------------------------------------------------------------------------
(* Properties *)

(* Within one run of the process a (session, turn) pair names one request: *)
(* the transcript and cost records it joins belong to the same request,    *)
(* whatever was evicted, re-opened or abandoned by a panic in between.     *)
TurnsJoin ==
  \A g, f \in grants :
    g.epoch = f.epoch /\ g.id = f.id /\ g.turn = f.turn => g = f

(* A session receives at most one advisory, however its first-turn         *)
(* requests interleave and whether or not it was evicted before them.      *)
AdvisedOnce ==
  \A g, f \in advised : g.epoch = f.epoch /\ g.id = f.id => g = f

(* select never meets a tie: no two retained sessions share a first        *)
(* message, so the collision arm of Match::New is dead in the proxy and    *)
(* every history with a known first message continues that session.        *)
NeverCollides == \A g \in grants : ~g.collision

(* When open_*_session returns, at most max_sessions entries remain and    *)
(* every one was accessed within the TTL; what it dropped was idle past    *)
(* the TTL or no more recently used than anything it kept.                 *)
EvictionIsLru ==
  [][grants' # grants =>
       /\ Cardinality(DOMAIN sessions') <= MaxSessions
       /\ \A id \in DOMAIN sessions' : IdleFor(sessions'[id], now) <= Ttl
       /\ \A gone \in DOMAIN sessions \ DOMAIN sessions' :
            \/ IdleFor(sessions[gone], now) > Ttl
            \/ \A id \in DOMAIN sessions' :
                 \/ sessions[gone].access <= sessions'[id].access
                 \/ sessions'[id].access = now]_vars

(* A request's own session outlives the request's critical section, and    *)
(* with it the pins of what the request just read, unless every session    *)
(* kept in its place was accessed in the same second or, by a clock that   *)
(* was set back, later.                                                    *)
OwnSessionKept ==
  [][\A g \in grants' \ grants :
       \/ g.id \in DOMAIN sessions'
       \/ \A id \in DOMAIN sessions' : sessions'[id].access >= now]_vars

(* Eviction drops the idle and the least recent, and not the requester.    *)
EvictionSpares == EvictionIsLru /\ OwnSessionKept

----------------------------------------------------------------------------
(* The inductive invariant behind TurnsJoin, AdvisedOnce and NeverCollides *)

(* No id above next_id has been handed out in this run of the process, so  *)
(* a new session never takes the id of an evicted one.                     *)
IdsIssued ==
  /\ \A id \in DOMAIN sessions : id.n <= nextId
  /\ \A g \in grants :
       g.epoch <= epoch /\ (g.epoch = epoch => g.id.n <= nextId)

(* A retained entry's turn counter covers every turn it granted.           *)
TurnsCovered ==
  \A g \in grants :
    g.epoch = epoch /\ g.id \in DOMAIN sessions => g.turn <= sessions[g.id].turn

(* A retained entry remembers that it was advised.                         *)
AdvisedMarked ==
  \A g \in advised :
    g.epoch = epoch /\ g.id \in DOMAIN sessions => sessions[g.id].attempted

(* Only requests of this run of the process can still be advised.          *)
AdvisableNow == \A g \in advisable : g.epoch = epoch

IInv ==
  /\ TypeOK
  /\ IdsIssued
  /\ TurnsCovered
  /\ AdvisedMarked
  /\ AdvisableNow
  /\ DistinctFirst(sessions)
  /\ TurnsJoin
  /\ AdvisedOnce
  /\ NeverCollides
============================================================================
