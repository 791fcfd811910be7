------------------------------ MODULE Reports ------------------------------
(***************************************************************************)
(* The reports `bbg benchmark` and `bbg stats` make of the ledgers, as     *)
(* operators on their records in append order: T of the transcript, C of   *)
(* the costs, H of the health ledger (src/src/benchmark.rs,                *)
(* src/src/operations.rs).  Sums, counters, correlations and wording are   *)
(* left out: what is here is which record a report takes for what.         *)
(*                                                                         *)
(* A transcript record has its session and turn, its role, and of its      *)
(* receipts the readiness per variant (the slots a text fills), whether    *)
(* the request started a conversation, the advisory arm, and the state of  *)
(* an answer's terminal.                                                   *)
(***************************************************************************)
EXTENDS Integers, Sequences, FiniteSetsExt

CONSTANTS
  Variant,      \* the readiness variants
  Slot,         \* the readiness slots a text can fill
  Unknowns      \* the slot that is filled by unresolved questions

NoTurn == 0     \* of records that predate session_turn

None == "none"

Receipts == UNION {[known -> SUBSET Slot] : known \in SUBSET Variant}

----------------------------------------------------------------------------
(* clarification_report: an answer that ends in a question, with the user  *)
(* turns before and after it.                                              *)

Rows(T, id, role) == {i \in DOMAIN T : T[i].id = id /\ T[i].role = role}

UserTurns(T, id) == {T[i].turn : i \in Rows(T, id, "user")} \ {NoTurn}

IsQuestion(row) == row.state = "decision"

QuestionTurns(T, id) ==
  {T[i].turn : i \in {j \in Rows(T, id, "assistant") : IsQuestion(T[j])}} \ {NoTurn}

UpTo(T, id, turn) == {t \in UserTurns(T, id) : t <= turn}

(* Mutation: the records are taken to be in the order of the turns.        *)
AppendedAfter(T, id, turn) ==
  LET asked == {i \in Rows(T, id, "assistant") : T[i].turn = turn}
  IN  {T[i].turn : i \in {j \in Rows(T, id, "user") : \E k \in asked : k < j}} \ {NoTurn}

After(T, id, turn) == {t \in UserTurns(T, id) : t > turn}

(* The receipt that was first in the ledger for a turn and a variant.      *)
Rated(T, id, turn, variant) ==
  {i \in Rows(T, id, "user") :
     T[i].turn = turn /\ variant \in DOMAIN T[i].readiness}

Readiness(T, id, turn, variant) ==
  T[Min(Rated(T, id, turn, variant))].readiness[variant]

(* slot_delta                                                              *)
Filled(before, after) == (after \ before) \ {Unknowns}

Resolved(before, after) == Unknowns \in before /\ Unknowns \notin after

(* ReplyCost.records                                                       *)
CostRecords(C, id, turn) ==
  Cardinality({i \in DOMAIN C : C[i].id = id /\ C[i].turn = turn})

Paired(T, id) ==
  {q \in QuestionTurns(T, id) : UpTo(T, id, q) # {} /\ After(T, id, q) # {}}

Exchanges(T) ==
  UNION {{[id |-> id, question |-> q, before |-> Max(UpTo(T, id, q)),
           reply |-> Min(After(T, id, q))] : q \in Paired(T, id)} :
         id \in {T[i].id : i \in {j \in DOMAIN T : IsQuestion(T[j])}}}

Observation(T, C, x, variant) ==
  LET before == Readiness(T, x.id, x.before, variant)
      after == Readiness(T, x.id, x.reply, variant)
  IN  [id |-> x.id, question |-> x.question, reply |-> x.reply,
       variant |-> variant, filled |-> Filled(before, after),
       resolved |-> Resolved(before, after),
       costs |-> CostRecords(C, x.id, x.reply)]

Clarifications(T, C) ==
  UNION {{Observation(T, C, x, variant) : variant \in
            {v \in Variant : Rated(T, x.id, x.before, v) # {}
                             /\ Rated(T, x.id, x.reply, v) # {}}} :
         x \in Exchanges(T)}

----------------------------------------------------------------------------
(* readiness_report: of each session, the first text of a user that is     *)
(* recorded as the start of a conversation, with the records and the cost  *)
(* records of the session.                                                 *)

Scored(T) ==
  LET rated == {i \in DOMAIN T : /\ T[i].role = "user" /\ T[i].start
                                 /\ DOMAIN T[i].readiness # {}}
  IN  {i \in rated : \A j \in rated : T[j].id = T[i].id => i <= j}

Score(T, C, i, variant) ==
  [id |-> T[i].id, variant |-> variant, slots |-> T[i].readiness[variant],
   turns |-> Cardinality({j \in DOMAIN T : T[j].id = T[i].id}),
   costs |-> Cardinality({j \in DOMAIN C : C[j].id = T[i].id})]

Scores(T, C) ==
  UNION {{Score(T, C, i, variant) : variant \in DOMAIN T[i].readiness} :
         i \in Scored(T)}

----------------------------------------------------------------------------
(* experiment_report: the sessions of an arm; a session whose records      *)
(* disagree is in none.                                                    *)

Sessions(T) == {T[i].id : i \in DOMAIN T}

ArmsOf(T, id) == {T[i].arm : i \in {j \in DOMAIN T : T[j].id = id}} \ {None}

InArm(T, arm) == {id \in Sessions(T) : ArmsOf(T, id) = {arm}}

----------------------------------------------------------------------------
(* format_health: records of one provider and model, by skill version, in  *)
(* the order in which the versions were first seen; each is compared with  *)
(* the one before.  "model" stands for provider and model.                 *)

Group(H, model, version) ==
  {i \in DOMAIN H : H[i].model = model /\ H[i].version = version}

(* Mutation: a version counts as seen when it was last seen.               *)
LastSeen(H, model, version) == Max(Group(H, model, version))

FirstSeen(H, model, version) == Min(Group(H, model, version))

Versions(H, model) == {H[i].version : i \in {j \in DOMAIN H : H[j].model = model}}

Earlier(H, model, version) ==
  {v \in Versions(H, model) :
     FirstSeen(H, model, v) < FirstSeen(H, model, version)}

Baseline(H, model, version) ==
  LET earlier == Earlier(H, model, version)
  IN  {v \in earlier :
         \A w \in earlier : FirstSeen(H, model, w) <= FirstSeen(H, model, v)}
============================================================================
