---------------------------- MODULE RegistryOps ----------------------------
(***************************************************************************)
(* The session registry of src/src/session.rs as operators on its value: a *)
(* function from session ids to entries.  The modules that hold a registry *)
(* (SessionRegistry: one proxy process; ToolDedup: several processes that  *)
(* share a store) build their actions from these.                          *)
(*                                                                         *)
(* An entry's tool-activity fields (seen_tool_event_keys and the others    *)
(* observe_thrash writes) are left out: no operation modelled here reads   *)
(* them.                                                                   *)
(***************************************************************************)
EXTENDS Integers, Sequences, FiniteSets, Functions

CONSTANTS
  Message,      \* serialised chat messages
  Blob,         \* contents of tool results, standing for their SHA-256 digests
  Ttl,          \* ttl_secs: inactivity after which a session is dropped
  MaxSessions   \* max_sessions: ceiling on retained sessions

ASSUME RegistryAssumption ==
  /\ Ttl \in Nat
  /\ MaxSessions \in Nat \ {0}

(* An id is the hash of the history that opened the session and of the     *)
(* value of next_id: a record, since the hash is taken to be injective.    *)
SessionId == [seed : Seq(Message), n : Nat]

Entry ==
  [history : Seq(Message), seen : SUBSET Blob, access : Nat,
   attempted : BOOLEAN, turn : Nat]

IsRegistry(S) ==
  /\ DOMAIN S \subseteq SessionId
  /\ IsFiniteSet(DOMAIN S)
  /\ S \in [DOMAIN S -> Entry]

NoSessions == [id \in {} |-> {}]

NewEntry(now) ==
  [history |-> <<>>, seen |-> {}, access |-> now,
   attempted |-> FALSE, turn |-> 0]

(* entry(id).or_insert_with(..): what S holds for id, or a new entry.      *)
EntryOf(S, id, now) == IF id \in DOMAIN S THEN S[id] ELSE NewEntry(now)

Put(S, id, entry) ==
  [x \in DOMAIN S \cup {id} |-> IF x = id THEN entry ELSE S[x]]

----------------------------------------------------------------------------
(* Selection *)

SharesPrefix(h, g, k) ==
  /\ k <= Len(h)
  /\ k <= Len(g)
  /\ \A i \in 1..k : h[i] = g[i]

(* g1 has at least as many leading messages in common with h as g2.        *)
AtLeastAsClose(h, g1, g2) ==
  \A k \in 1..Len(h) : SharesPrefix(h, g2, k) => SharesPrefix(h, g1, k)

(* The sessions that share some leading message with h.                    *)
Related(S, h) == {id \in DOMAIN S : SharesPrefix(h, S[id].history, 1)}

(* Mutation: only a session whose whole history the request repeats counts *)
(* as a match, as a fingerprint of the full history would have it.         *)
WholeHistoryMatches(S, h) ==
  {id \in Related(S, h) : SharesPrefix(h, S[id].history, Len(S[id].history))}

(* Those that share the longest prefix with h.                             *)
BestMatches(S, h) ==
  {id \in Related(S, h) :
     \A other \in Related(S, h) :
       AtLeastAsClose(h, S[id].history, S[other].history)}

(* A unique longest match continues that session; none, or a tie, opens a  *)
(* new one whose entry does not exist yet.                                 *)
Existing(S, h, id) == BestMatches(S, h) = {id}

Fresh(S, h) == \A id \in BestMatches(S, h) : BestMatches(S, h) # {id}

NewId(h, nextId) == [seed |-> h, n |-> nextId + 1]

(* No two sessions of S recorded histories with the same first message.    *)
DistinctFirst(S) ==
  \A i, j \in DOMAIN S :
    /\ Len(S[i].history) > 0
    /\ Len(S[j].history) > 0
    /\ S[i].history[1] = S[j].history[1]
    => i = j

----------------------------------------------------------------------------
(* Eviction *)

(* now.saturating_sub(last_access): the wall clock may have moved back.    *)
IdleFor(entry, now) == IF entry.access <= now THEN now - entry.access ELSE 0

Active(S, now) == {id \in DOMAIN S : IdleFor(S[id], now) <= Ttl}

(* Mutation: sorted the wrong way round, most recent first.                *)
SurvivorsOldest(S, now) ==
  LET active == Active(S, now)
  IN  IF Cardinality(active) <= MaxSessions
        THEN {active}
        ELSE {kept \in SUBSET active :
                /\ Cardinality(kept) = MaxSessions
                /\ \A id \in kept, gone \in active \ kept :
                     S[gone].access >= S[id].access}

(* What evict may retain of S: the active sessions, and past the ceiling   *)
(* only the most recently accessed.  Entries accessed in the same second   *)
(* are ordered by their hash, which is to say in any order.                *)
Survivors(S, now) ==
  LET active == Active(S, now)
  IN  IF Cardinality(active) <= MaxSessions
        THEN {active}
        ELSE {kept \in SUBSET active :
                /\ Cardinality(kept) = MaxSessions
                /\ \A id \in kept, gone \in active \ kept :
                     S[gone].access <= S[id].access}

Evicted(S, now) == {Restrict(S, kept) : kept \in Survivors(S, now)}

(* pinned_digests: what the live sessions keep from collection.            *)
Pinned(S) == UNION {S[id].seen : id \in DOMAIN S}
============================================================================
