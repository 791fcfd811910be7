----------------------------- MODULE ToolDedup -----------------------------
(***************************************************************************)
(* Tool-result compression over the shared store: what a proxy process     *)
(* does inside its registry's mutex (open_*_session in src/src/proxy.rs,   *)
(* transform in src/src/compress.rs), one action per access to the store,  *)
(* against `bbg get` processes and other proxy processes on the same       *)
(* store directory.  The mutex belongs to one process: job[p] is the       *)
(* request that holds it in p.                                             *)
(*                                                                         *)
(* A reference is forwarded upstream when the request leaves the mutex.    *)
(* refs, raws and grants are history variables: what the model was sent    *)
(* and the turns it was sent for.                                          *)
(***************************************************************************)
EXTENDS RegistryOps

CONSTANTS
  Process,      \* proxy processes that share the store
  Request,      \* requests, numbered in the order they enter a mutex
  Payload,      \* what a request carries: a history and its tool results
  Kind,         \* the transform the attestation of a blob selects
  Captured,     \* captured_at_secs of the attestation of a blob
  MaxAge,       \* TOOL_RESULT_MAX_AGE_SECS
  MaxTime,      \* bound: the wall clock
  MaxFaults,    \* bound: restarts and panics of a process
  MaxServing    \* bound: `bbg get` processes at a time

ASSUME DedupAssumption ==
  /\ Request \subseteq Nat
  /\ Payload \subseteq [history : Seq(Message), results : Seq(Blob)]
  /\ Kind \in [Blob -> {"file", "other", "none"}]
  /\ Captured \in [Blob -> Nat]
  /\ MaxAge \in Nat
  /\ MaxTime \in Nat
  /\ MaxFaults \in Nat
  /\ MaxServing \in Nat

VARIABLES
  clock,        \* the wall clock
  blobs,        \* blobs/: the blobs held
  served,       \* ledger/served.jsonl: blobs and times
  serving,      \* blobs read by a `bbg get` that has not marked them yet
  receipts,     \* receipts/transforms.jsonl, with the request of each
  sessions,     \* per process: Registry.sessions
  nextId,       \* per process: Registry.next_id
  epoch,        \* per process: restarts so far
  job,          \* per process: the request inside the mutex
  lockedAt,     \* per process: now_secs of the last request inside the mutex
  grants,       \* per process: the turns reserved
  failed,       \* per process: requests that panicked inside the mutex
  refs,         \* the references forwarded upstream
  raws          \* the file results remembered while they were passed through

vars == <<clock, blobs, served, serving, receipts, sessions, nextId, epoch,
          job, lockedAt, grants, failed, refs, raws>>

(* The steps of a request inside the mutex, until and after Registry::record. *)
Compressing == {"results", "put", "get", "receipt"}
Collecting == {"pins", "remove"}

Idle == [step |-> "idle"]

IsJob(j) ==
  \/ j = Idle
  \/ /\ j.step \in Compressing \cup Collecting
     /\ j.req \in Request
     /\ j.history \in Seq(Message)
     /\ j.todo \in Seq(Blob)
     /\ j.id \in SessionId
     /\ j.existing \in BOOLEAN
     /\ IsRegistry(j.before)
     /\ j.beforeId \in Nat
     /\ j.servedBefore \subseteq Blob \X Nat
     /\ j.made \subseteq Blob
     /\ j.pins \subseteq Blob

(* Where a tool result was sent: the session of one run of one process.    *)
Place == [proc : Process, epoch : Nat, id : SessionId, blob : Blob]

TypeOK ==
  /\ clock \in Nat
  /\ blobs \subseteq Blob
  /\ served \subseteq Blob \X Nat
  /\ serving \subseteq Blob \X Nat
  /\ receipts \subseteq Request \X Blob
  /\ \A p \in Process : IsRegistry(sessions[p]) /\ IsJob(job[p])
  /\ nextId \in [Process -> Nat]
  /\ epoch \in [Process -> Nat]
  /\ lockedAt \in [Process -> Nat]
  /\ failed \in [Process -> SUBSET Request]
  /\ refs \subseteq Place
  /\ raws \subseteq Place
  /\ \A p \in Process :
       job[p].step \in Compressing =>
         /\ job[p].id \in DOMAIN sessions[p]
         /\ job[p].step # "results" => job[p].todo # <<>>

Init ==
  /\ clock = 0
  /\ blobs = {}
  /\ served = {}
  /\ serving = {}
  /\ receipts = {}
  /\ sessions = [p \in Process |-> NoSessions]
  /\ nextId = [p \in Process |-> 0]
  /\ epoch = [p \in Process |-> 0]
  /\ job = [p \in Process |-> Idle]
  /\ lockedAt = [p \in Process |-> 0]
  /\ grants = [p \in Process |-> {}]
  /\ failed = [p \in Process |-> {}]
  /\ refs = {}
  /\ raws = {}

----------------------------------------------------------------------------
(* Entering the mutex *)

Unseen(r) ==
  \A p \in Process :
    /\ r \notin failed[p]
    /\ \A g \in grants[p] : g.req # r
    /\ job[p] # Idle => job[p].req # r

(* Registry::select *)
Select(p, S, h, id) ==
  \/ /\ Existing(S, h, id)
     /\ UNCHANGED nextId
  \/ /\ Fresh(S, h)
     /\ id = NewId(h, nextId[p])
     /\ nextId' = [nextId EXCEPT ![p] = @ + 1]

(* The request takes the mutex, reads the clock, selects a session and     *)
(* reserves a turn in it.                                                  *)
Lock(p, r, q) ==
  /\ job[p] = Idle
  /\ Unseen(r)
  /\ \A o \in Request : Unseen(o) => r <= o
  /\ \E S \in Evicted(sessions[p], clock) :
       \E id \in DOMAIN S \cup {NewId(q.history, nextId[p])} :
         LET entry == [EntryOf(S, id, clock) EXCEPT !.turn = @ + 1, !.access = clock]
         IN  /\ Select(p, S, q.history, id)
             /\ sessions' = [sessions EXCEPT ![p] = Put(S, id, entry)]
             /\ lockedAt' = [lockedAt EXCEPT ![p] = clock]
             /\ job' = [job EXCEPT ![p] =
                  [step |-> "results", req |-> r, history |-> q.history,
                   todo |-> q.results, id |-> id,
                   existing |-> id \in DOMAIN S,
                   before |-> sessions[p], beforeId |-> nextId[p],
                   servedBefore |-> served, made |-> {}, pins |-> {}]]
  /\ UNCHANGED <<clock, blobs, served, serving, receipts, epoch, grants,
                 failed, refs, raws>>

----------------------------------------------------------------------------
(* compress::transform, for the first of the results still to do *)

(* classify, of what the properties tell apart: a result is attested or    *)
(* not, fresh or stale.                                                    *)
Eligible(b, now) ==
  /\ Kind[b] # "none"
  /\ Captured[b] <= now
  /\ now - Captured[b] <= MaxAge

(* Mutation: the entry is consulted although its session is new.           *)
SeenInAny(p, b) == \E id \in DOMAIN sessions[p] : b \in sessions[p][id].seen

(* seen_in_existing_session                                                *)
SeenInExisting(p, b) == job[p].existing /\ b \in sessions[p][job[p].id].seen

(* Mutation: the end of the window is left out.                            *)
ServedWithin(b, now) ==
  \E s \in served : s[1] = b /\ s[2] <= now /\ now - s[2] < MaxAge

(* was_served_recent                                                       *)
ServedRecent(b, now) ==
  \E s \in served : s[1] = b /\ s[2] <= now /\ now - s[2] <= MaxAge

(* Mutation: remember forgets the blob.                                    *)
RememberNothing(p, b) ==
  [sessions EXCEPT ![p][job[p].id].access = lockedAt[p]]

(* Registry::remember                                                      *)
Remember(p, b) ==
  [sessions EXCEPT ![p][job[p].id].seen = @ \cup {b},
                   ![p][job[p].id].access = lockedAt[p]]

Result(p, step, b) == job[p].step = step /\ job[p].todo # <<>> /\ b = Head(job[p].todo)

(* Mutation: the request stays where it was in transform.                  *)
DoneInPlace(p, made) ==
  job' = [job EXCEPT ![p].todo = Tail(@),
                     ![p].made = @ \cup made]

(* The result is done with: the request keeps its bytes, unless they are   *)
(* among the references made.                                              *)
Done(p, made) ==
  job' = [job EXCEPT ![p].step = "results",
                     ![p].todo = Tail(@),
                     ![p].made = @ \cup made]

PassThrough(p, b) ==
  /\ Result(p, "results", b)
  /\ ~Eligible(b, lockedAt[p])
  /\ Done(p, {})
  /\ UNCHANGED <<clock, blobs, served, serving, receipts, sessions, nextId,
                 epoch, lockedAt, grants, failed, refs, raws>>

(* A file read the session has not seen: remembered, and passed through.   *)
FirstSight(p, b) ==
  /\ Result(p, "results", b)
  /\ Eligible(b, lockedAt[p])
  /\ Kind[b] = "file"
  /\ ~SeenInExisting(p, b)
  /\ sessions' = Remember(p, b)
  /\ raws' = raws \cup {[proc |-> p, epoch |-> epoch[p], id |-> job[p].id, blob |-> b]}
  /\ Done(p, {})
  /\ UNCHANGED <<clock, blobs, served, serving, receipts, nextId, epoch,
                 lockedAt, grants, failed, refs>>

(* `bbg get` served the file's bytes recently, or the ledger cannot be     *)
(* read, which counts as if it had.                                        *)
Exempt(p, b, readable) ==
  /\ Result(p, "results", b)
  /\ Eligible(b, lockedAt[p])
  /\ Kind[b] = "file"
  /\ SeenInExisting(p, b)
  /\ readable => ServedRecent(b, lockedAt[p])
  /\ Done(p, {})
  /\ UNCHANGED <<clock, blobs, served, serving, receipts, sessions, nextId,
                 epoch, lockedAt, grants, failed, refs, raws>>

(* Otherwise the original is to be stored.                                 *)
ToStore(p, b) ==
  /\ Result(p, "results", b)
  /\ Eligible(b, lockedAt[p])
  /\ Kind[b] = "file" => SeenInExisting(p, b) /\ ~ServedRecent(b, lockedAt[p])
  /\ job' = [job EXCEPT ![p].step = "put"]
  /\ UNCHANGED <<clock, blobs, served, serving, receipts, sessions, nextId,
                 epoch, lockedAt, grants, failed, refs, raws>>

(* Store::put: the blob is found or written, unless an I/O error, after    *)
(* the blob is in place or before, passes the result through.              *)
PutBlob(p, b) ==
  /\ Result(p, "put", b)
  /\ \/ /\ blobs' = blobs \cup {b}
        /\ job' = [job EXCEPT ![p].step = "get"]
     \/ /\ blobs' \in {blobs, blobs \cup {b}}
        /\ Done(p, {})
  /\ UNCHANGED <<clock, served, serving, receipts, sessions, nextId, epoch,
                 lockedAt, grants, failed, refs, raws>>

(* Store::get: what is there is returned if it still has its digest.       *)
Readable(b) == b \in blobs

(* Only a blob that reads back is remembered and referenced; the read may  *)
(* also fail.                                                              *)
GetBlob(p, b) ==
  /\ Result(p, "get", b)
  /\ \/ /\ Readable(b)
        /\ sessions' = Remember(p, b)
        /\ job' = [job EXCEPT ![p].step = "receipt"]
     \/ /\ sessions' = sessions
        /\ Done(p, {})
  /\ UNCHANGED <<clock, blobs, served, serving, receipts, nextId, epoch,
                 lockedAt, grants, failed, refs, raws>>

(* record_receipt: if it fails, with the line appended or not, the result  *)
(* is passed through.                                                      *)
RecordReceipt(p, b) ==
  /\ Result(p, "receipt", b)
  /\ \/ /\ receipts' = receipts \cup {<<job[p].req, b>>}
        /\ Done(p, {b})
     \/ /\ receipts' \in {receipts, receipts \cup {<<job[p].req, b>>}}
        /\ Done(p, {})
  /\ UNCHANGED <<clock, blobs, served, serving, sessions, nextId, epoch,
                 lockedAt, grants, failed, refs, raws>>

----------------------------------------------------------------------------
(* Leaving the mutex *)

(* Mutation: the clock is read again.                                      *)
RecordedLater(p) == clock

(* now_secs is read once, when the mutex is taken.                         *)
RecordedAt(p) == lockedAt[p]

(* record_session_history *)
Record(p) ==
  /\ job[p].step = "results"
  /\ job[p].todo = <<>>
  /\ LET j == job[p]
         entry == [sessions[p][j.id] EXCEPT !.history = j.history, !.access = RecordedAt(p)]
         grant == [req |-> j.req, epoch |-> epoch[p], id |-> j.id,
                   turn |-> entry.turn, history |-> j.history,
                   collision |-> FALSE]
     IN  /\ \E S \in Evicted(Put(sessions[p], j.id, entry), RecordedAt(p)) :
              sessions' = [sessions EXCEPT ![p] = S]
         /\ grants' = [grants EXCEPT ![p] = @ \cup {grant}]
         /\ job' = [job EXCEPT ![p].step = "pins",
                               ![p].before = NoSessions, ![p].beforeId = 0]
  /\ UNCHANGED <<clock, blobs, served, serving, receipts, nextId, epoch,
                 lockedAt, failed, refs, raws>>

(* What collect_unpinned_blobs keeps.                                      *)
Pins(p) == Pinned(sessions[p]) \cup {b \in Blob : ServedRecent(b, lockedAt[p])}

ReadPins(p) ==
  /\ job[p].step = "pins"
  /\ job' = [job EXCEPT ![p].step = "remove", ![p].pins = Pins(p)]
  /\ UNCHANGED <<clock, blobs, served, serving, receipts, sessions, nextId,
                 epoch, lockedAt, grants, failed, refs, raws>>

(* collect_unpinned removes one blob after the other.                      *)
Remove(p, b) ==
  /\ job[p].step = "remove"
  /\ b \in blobs \ job[p].pins
  /\ blobs' = blobs \ {b}
  /\ UNCHANGED <<clock, served, serving, receipts, sessions, nextId, epoch,
                 job, lockedAt, grants, failed, refs, raws>>

(* The mutex is released, after the collection or when an error ended it   *)
(* early, and the payload with its references goes upstream.               *)
Forward(p) ==
  /\ job[p].step \in Collecting
  /\ refs' = refs \cup {[proc |-> p, epoch |-> epoch[p], id |-> job[p].id,
                         blob |-> b] : b \in job[p].made}
  /\ job' = [job EXCEPT ![p] = Idle]
  /\ UNCHANGED <<clock, blobs, served, serving, receipts, sessions, nextId,
                 epoch, lockedAt, grants, failed, raws>>

Faults(p) == epoch[p] + Cardinality(failed[p])

(* A panic inside the mutex: lock_sessions hands the registry on as it is. *)
Panic(p) ==
  /\ job[p].step \in Compressing
  /\ Faults(p) < MaxFaults
  /\ failed' = [failed EXCEPT ![p] = @ \cup {job[p].req}]
  /\ job' = [job EXCEPT ![p] = Idle]
  /\ UNCHANGED <<clock, blobs, served, serving, receipts, sessions, nextId,
                 epoch, lockedAt, grants, refs, raws>>

----------------------------------------------------------------------------
(* The process stops, anywhere, and starts again on the same store.        *)
Restart(p) ==
  /\ Faults(p) < MaxFaults
  /\ epoch' = [epoch EXCEPT ![p] = @ + 1]
  /\ sessions' = [sessions EXCEPT ![p] = NoSessions]
  /\ nextId' = [nextId EXCEPT ![p] = 0]
  /\ job' = [job EXCEPT ![p] = Idle]
  /\ UNCHANGED <<clock, blobs, served, serving, receipts, lockedAt, grants, failed,
                 refs, raws>>

(* `bbg get` on a reference the model was sent: it reads the blob and the  *)
(* clock, writes the bytes out, and marks the blob served only then.       *)
Fetch(b) ==
  /\ Cardinality(serving) < MaxServing
  /\ \E f \in refs : f.blob = b
  /\ Readable(b)
  /\ serving' = serving \cup {<<b, clock>>}
  /\ UNCHANGED <<clock, blobs, served, receipts, sessions, nextId, epoch,
                 job, lockedAt, grants, failed, refs, raws>>

(* The write succeeds, or a broken pipe ends the process unmarked.         *)
MarkServed(s) ==
  /\ s \in serving
  /\ serving' = serving \ {s}
  /\ served' \in {served, served \cup {s}}
  /\ UNCHANGED <<clock, blobs, receipts, sessions, nextId, epoch, job,
                 lockedAt, grants, failed, refs, raws>>

Tick ==
  /\ clock < MaxTime
  /\ clock' = clock + 1
  /\ UNCHANGED <<blobs, served, serving, receipts, sessions, nextId, epoch,
                 job, lockedAt, grants, failed, refs, raws>>

Transform(p, b) ==
  \/ PassThrough(p, b)
  \/ FirstSight(p, b)
  \/ \E readable \in BOOLEAN : Exempt(p, b, readable)
  \/ ToStore(p, b)
  \/ PutBlob(p, b)
  \/ GetBlob(p, b)
  \/ RecordReceipt(p, b)

Next ==
  \/ \E p \in Process :
       \/ \E r \in Request, q \in Payload : Lock(p, r, q)
       \/ \E b \in Blob : Transform(p, b) \/ Remove(p, b)
       \/ Record(p)
       \/ ReadPins(p)
       \/ Forward(p)
       \/ Panic(p)
       \/ Restart(p)
  \/ \E b \in Blob : Fetch(b)
  \/ \E s \in serving : MarkServed(s)
  \/ Tick

Spec == Init /\ [][Next]_vars

----------------------------------------------------------------------------
(* Properties *)

(* While the session it was forwarded in is retained, `bbg get` finds what *)
(* a reference stands for: no interleaving of collection, `bbg get`, I/O   *)
(* errors and panics takes the blob away.  One process per store.          *)
ReferenceRecoverable ==
  \A f \in refs :
    /\ f.epoch = epoch[f.proc]
    /\ f.id \in DOMAIN sessions[f.proc]
    => f.blob \in blobs

(* A file is replaced by a reference only in a session that was sent its   *)
(* bytes before, or was about to be when a panic stopped the request: no   *)
(* sighting leaks from another session, an earlier run or another process. *)
DedupWithinSession ==
  \A f \in refs : Kind[f.blob] = "file" => f \in raws

(* A file whose `bbg get` had finished when the request took the mutex is  *)
(* not replaced by a reference again within the window.                    *)
ServedExempt ==
  [][\A f \in receipts' \ receipts :
       \A p \in Process :
         job[p] # Idle /\ job[p].req = f[1] /\ Kind[f[2]] = "file" =>
           \A s \in job[p].servedBefore :
             s[1] = f[2] => s[2] > lockedAt[p] \/ lockedAt[p] - s[2] > MaxAge]_vars

(* Nor is its blob collected by that request.                              *)
ServedKept ==
  [][\A p \in Process, b \in blobs \ blobs' :
       job[p].step = "remove" /\ b \notin job[p].pins =>
         \A s \in job[p].servedBefore :
           s[1] = b => s[2] > lockedAt[p] \/ lockedAt[p] - s[2] > MaxAge]_vars

(* A `bbg get` that has returned is honoured by every later request.       *)
ServedProtected == ServedExempt /\ ServedKept

----------------------------------------------------------------------------
(* The registry of p, seen from outside the mutex, is SessionRegistry's:   *)
(* a request works on it in one step, when it records its history, or when *)
(* it panics.  Until then others would find what it was before.            *)

Before(p) == IF job[p].step \in Compressing THEN job[p].before ELSE sessions[p]

Abstract(p) == INSTANCE SessionRegistry WITH
  History <- {q.history : q \in Payload},
  Clock <- 0..MaxTime,
  MaxEpoch <- MaxFaults,
  User <- {},
  Assistant <- {},
  sessions <- Before(p),
  nextId <- IF job[p].step \in Compressing THEN job[p].beforeId ELSE nextId[p],
  now <- lockedAt[p],
  epoch <- epoch[p],
  grants <- grants[p],
  advisable <- {g \in grants[p] : g.epoch = epoch[p]},
  advised <- {},
  failed <- failed[p]

(* The critical section is atomic: interleaved store accesses, `bbg get`,  *)
(* I/O errors, other processes and the clock do not show in the registry   *)
(* of a process, so that everything SessionRegistry guarantees holds of it. *)
CriticalSectionAtomic ==
  /\ \A p \in Process : Abstract(p)!Init
  /\ [][\A p \in Process :
          UNCHANGED Abstract(p)!vars \/ Abstract(p)!Next]_vars

----------------------------------------------------------------------------
(* The inductive invariants behind the properties *)

Busy == {p \in Process : job[p] # Idle}

JobFields ==
  {"step", "req", "history", "todo", "id", "existing", "before", "beforeId",
   "servedBefore", "made", "pins"}

(* The per-process variables are functions on Process, a job a record.     *)
WellFormed ==
  /\ DOMAIN sessions = Process
  /\ DOMAIN job = Process
  /\ DOMAIN grants = Process
  /\ \A p \in Busy : DOMAIN job[p] = JobFields

TInv == TypeOK /\ WellFormed

(* The blob in hand, after transform decided to store it.                  *)
Storing(p) == job[p].step \in {"put", "get", "receipt"}

SeenBy(p) == sessions[p][job[p].id].seen

PlaceOf(p, id, b) == [proc |-> p, epoch |-> epoch[p], id |-> id, blob |-> b]

(* A session has seen only files it was sent, a request makes references   *)
(* only to those, and it stores a file only on a second sight.             *)
Sighted ==
  \A p \in Process :
    /\ \A id \in DOMAIN sessions[p] : \A b \in sessions[p][id].seen :
         Kind[b] = "file" => PlaceOf(p, id, b) \in raws
    /\ p \in Busy => \A b \in job[p].made :
         Kind[b] = "file" => PlaceOf(p, job[p].id, b) \in raws
    /\ Storing(p) /\ Kind[Head(job[p].todo)] = "file"
         => Head(job[p].todo) \in SeenBy(p)

DedupInv == TInv /\ Sighted /\ DedupWithinSession

(* A `bbg get` of s does not count for a request that took the mutex then. *)
OutOfWindow(s, t) == s[2] > t \/ t - s[2] > MaxAge

(* What had been served when a request took the mutex is still in the      *)
(* ledger, and bears on what the request stores and collects.              *)
Honoured ==
  \A p \in Busy :
    /\ job[p].servedBefore \subseteq served
    /\ Storing(p) /\ Kind[Head(job[p].todo)] = "file" =>
         \A s \in job[p].servedBefore :
           s[1] = Head(job[p].todo) => OutOfWindow(s, lockedAt[p])
    /\ job[p].step = "remove" =>
         \A s \in job[p].servedBefore :
           s[1] \in job[p].pins \/ OutOfWindow(s, lockedAt[p])

(* A request is in one mutex at most.                                      *)
InOneMutex == \A p, q \in Busy : job[p].req = job[q].req => p = q

ServedInv == TInv /\ Honoured /\ InOneMutex

(* No id above next_id has been used in this run of the process.           *)
IdsIssued ==
  /\ \A p \in Process : \A id \in DOMAIN sessions[p] : id.n <= nextId[p]
  /\ \A p \in Busy : job[p].id.n <= nextId[p]
  /\ \A f \in refs :
       /\ f.epoch <= epoch[f.proc]
       /\ f.epoch = epoch[f.proc] => f.id.n <= nextId[f.proc]

(* A retained session pins what it was sent references to, and what the    *)
(* request at work on it is about to make references to.                   *)
RefsPinned ==
  \A f \in refs :
    f.epoch = epoch[f.proc] /\ f.id \in DOMAIN sessions[f.proc]
      => f.blob \in sessions[f.proc][f.id].seen

MadePinned ==
  \A p \in Busy :
    /\ job[p].id \in DOMAIN sessions[p] =>
         /\ job[p].made \subseteq SeenBy(p)
         /\ job[p].step = "receipt" => Head(job[p].todo) \in SeenBy(p)
    /\ job[p].step = "remove" => Pinned(sessions[p]) \subseteq job[p].pins

PinInv == TInv /\ IdsIssued /\ RefsPinned /\ MadePinned

(* The blobs of references about to be made are in the store.              *)
MadeHeld ==
  \A p \in Busy :
    job[p].id \in DOMAIN sessions[p] =>
      /\ job[p].made \subseteq blobs
      /\ job[p].step = "receipt" => Head(job[p].todo) \in blobs

HeldInv == PinInv /\ MadeHeld /\ ReferenceRecoverable

(* The request inside the mutex is new, selected its session in what       *)
(* eviction left, and has so far added a turn and some sightings to it.    *)
SelectedIn(p, S) ==
  LET j == job[p]
  IN  \/ Existing(S, j.history, j.id) /\ nextId[p] = j.beforeId
      \/ /\ Fresh(S, j.history)
         /\ j.id = NewId(j.history, j.beforeId)
         /\ nextId[p] = j.beforeId + 1

WorkedOn(entry, t, B) ==
  [entry EXCEPT !.turn = @ + 1, !.access = t, !.seen = @ \cup B]

Underway ==
  \A p \in Process :
    job[p].step \in Compressing =>
      /\ job[p].req \notin failed[p]
      /\ \A g \in grants[p] : g.req # job[p].req
      /\ \E q \in Payload : job[p].history = q.history
      /\ \E S \in Evicted(job[p].before, lockedAt[p]), B \in SUBSET Blob :
           /\ SelectedIn(p, S)
           /\ sessions[p] =
                Put(S, job[p].id,
                    WorkedOn(EntryOf(S, job[p].id, lockedAt[p]), lockedAt[p], B))

AtomicInv ==
  /\ TInv
  /\ Underway
  /\ clock \in 0..MaxTime
  /\ \A p \in Process :
       /\ IsFiniteSet(failed[p])
       /\ \A g \in grants[p] : g.epoch \in Nat /\ g.epoch <= epoch[p]
       /\ DistinctFirst(Before(p))
============================================================================
