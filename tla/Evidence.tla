------------------------------ MODULE Evidence ------------------------------
(***************************************************************************)
(* From requests to reports: what handle_chat, handle_anthropic and        *)
(* handle_codex_responses send upstream and append to the ledgers          *)
(* (src/src/proxy.rs), over several runs of the proxy with other settings  *)
(* and another skill version, and what the reports then make of it.        *)
(*                                                                         *)
(* The registry is SessionRegistry's; its mutex is taken in Receive and in *)
(* Advise.  Between those, the appends and the provider's answer other     *)
(* requests take their steps.  The appends a handler makes once it has the *)
(* answer are one step: they go to three files, and no report compares the *)
(* order of two.  An append that fails is logged and passed over.          *)
(*                                                                         *)
(* What the handlers do to the texts of a history is RequestPipeline's,    *)
(* the repeats they count are Repeats'; a streamed answer is recorded as   *)
(* SseStream has it, with the same records once it ends.                   *)
(***************************************************************************)
EXTENDS PromptShape, Reports

CONSTANTS
  Request,      \* requests, numbered in the order they arrive
  Asked,        \* the bodies they carry
  Assistant,    \* the messages with role "assistant"
  Spoken,       \* those of User that last_*_user_text finds a text in
  ReadinessOf,  \* what readiness_receipts makes of each of their texts
  Answers,      \* what the provider may answer: the state of the terminal, "empty"
                \* for an answer without text, and whether usage is reported
  Setups,       \* the version and the config of each run of the proxy in turn
  DrawsInject(_), \* whether the digest of a session id draws "inject"
  Old,          \* the ledgers as earlier runs left them
  MaxSessions,
  MaxEpoch,     \* bound: restarts
  MaxLost       \* bound: appends that fail

VARIABLES
  sessions, nextId, epoch, grants, advisable, advised,  \* of SessionRegistry
  opened,       \* the requests, in the order they took the mutex
  op,           \* op[r]: how far request r has come, and what it sends
  transcript, costs, health,    \* the ledgers
  lost          \* appends that failed

registry == <<sessions, nextId, epoch, grants, advisable, advised>>
ledgers == <<transcript, costs, health, lost>>
vars == <<registry, ledgers, opened, op>>

Registry == INSTANCE SessionRegistry WITH
  History <- {body.messages : body \in Asked},
  Clock <- {0}, Blob <- {}, Ttl <- 0, now <- 0, failed <- {}

Roles == {"user", "assistant"}

Terminal == {"done", "decision", "blocked", "missing", "empty"}

States == {answer.state : answer \in Answers} \cup {None}

(* A record of the transcript, with the turns it can have.                 *)
Rowed(turns) ==
  [id : Registry!SessionId, turn : turns, role : Roles, readiness : Receipts,
   start : BOOLEAN, arm : {None, "inject", "record_only"},
   state : Terminal \cup {None}]

(* A record of the costs.                                                  *)
Costed == [id : Registry!SessionId, turn : Nat]

(* A record of health: of a conversation, by the protocol it was held in.  *)
Measured == [model : {"openai", "anthropic"}, version : STRING]

ASSUME EvidenceAssumption ==
  /\ Request \subseteq Nat
  /\ Asked \subseteq Body
  /\ \A body \in Asked : body.messages \in Seq(Message) /\ ~body.advised
  /\ ReadinessOf \in [Spoken -> Receipts]
  /\ Answers \subseteq [usage : BOOLEAN, state : Terminal]
  /\ Setups \in [0..MaxEpoch -> [version : STRING, config : Config]]
  /\ Old.transcript \in Seq(Rowed(Nat))
  /\ Old.costs \in Seq(Costed)
  /\ Old.health \in Seq(Measured)
  /\ MaxSessions \in Nat \ {0}
  /\ MaxEpoch \in Nat

----------------------------------------------------------------------------
(* A request on its way *)

setup == Setups[epoch]

Nowhere == [id |-> [seed |-> <<>>, n |-> 0], turn |-> NoTurn]

New == [pc |-> "new", grant |-> Nowhere]

InFlight == {"shaped", "sent"}

(* The grant of request r, in the record of the handler's locals.          *)
GrantOf(r) == op[r].grant

Init ==
  /\ Registry!Init
  /\ opened = <<>>
  /\ op = [r \in Request |-> New]
  /\ transcript = Old.transcript
  /\ costs = Old.costs
  /\ health = Old.health
  /\ lost = 0

Arrives(r) ==
  /\ op[r].pc = "new"
  /\ \A s \in Request : op[s].pc = "new" => r <= s

(* What a handler starts from and what it is about to send.                *)
Handled(body, grant, pc) ==
  [pc |-> IF Refused(body, setup.config) THEN "refused" ELSE pc,
   asked |-> body, sent |-> Shaped(body, setup.config), grant |-> grant,
   config |-> setup.config, landed |-> {}, state |-> None]

(* A request of a conversation: open_*_session, then the constraints and   *)
(* the breakpoint.  A request refused for want of a place for them keeps   *)
(* its turn.                                                               *)
Receive(r, body) ==
  /\ Arrives(r)
  /\ body.protocol # "codex"
  /\ Registry!Open(r, body.messages, {})
  /\ \E g \in grants' \ grants : op' = [op EXCEPT ![r] = Handled(body, g, "shaped")]
  /\ opened' = Append(opened, r)
  /\ UNCHANGED ledgers

(* A Codex request has no session, leaves nothing in the ledgers and is    *)
(* sent at once.                                                           *)
ReceiveCodex(r, body) ==
  /\ Arrives(r)
  /\ body.protocol = "codex"
  /\ op' = [op EXCEPT ![r] = Handled(body, Nowhere, "sent")]
  /\ UNCHANGED <<registry, ledgers, opened>>

Starts(r) == Registry!IsConversationStart(op[r].asked.messages)

(* Whether the last message is a user's with a text, which is then         *)
(* recorded and, at the start of a conversation, may be advised.           *)
Speaks(r) ==
  /\ op[r].asked.messages # <<>>
  /\ Latest(op[r].asked) \in Spoken

(* Mutation: the receipt has the arm that was drawn, not what became of it. *)
ArmDrawn(drawn, injected) == IF drawn THEN "inject" ELSE "record_only"

Arm(drawn, injected) == IF injected THEN "inject" ELSE "record_only"

UserRow(r, arm) ==
  [id |-> GrantOf(r).id, turn |-> GrantOf(r).turn, role |-> "user",
   readiness |-> ReadinessOf[Latest(op[r].asked)], start |-> Starts(r),
   arm |-> arm, state |-> None]

(* The ledger with row appended, if that append is among those that landed. *)
With(ledger, name, row, landed) ==
  IF name \in landed THEN Append(ledger, row) ELSE ledger

(* The appends due, of which some may fail.                                *)
Lands(due, landed) ==
  /\ landed \subseteq due
  /\ lost' = lost + Cardinality(due \ landed)
  /\ lost' <= MaxLost

(* The user's text is recorded, with the arm if one was reserved, and the  *)
(* body sent.                                                              *)
Sends(r, arm, body) ==
  \E landed \in SUBSET {"user"} :
    /\ Lands(IF Speaks(r) THEN {"user"} ELSE {}, landed)
    /\ transcript' = With(transcript, "user", UserRow(r, arm), landed)
    /\ op' = [op EXCEPT ![r].pc = "sent", ![r].sent = body,
                        ![r].landed = landed]

(* first_turn_advisory: the arm is drawn from the session's id, the text   *)
(* appended if the gate is open and there is a place for it.               *)
Advise(r) ==
  LET drawn == setup.config.randomized /\ DrawsInject(GrantOf(r).id)
      injected == /\ drawn
                  /\ InjectionEnabled(setup.config)
                  /\ CanAdvise(op[r].sent)
  IN  /\ Speaks(r) /\ Starts(r) /\ setup.config.selected
      /\ Registry!Advise(GrantOf(r))
      /\ IF GrantOf(r) \in advised'
           THEN Sends(r, Arm(drawn, injected),
                      IF injected THEN Advised(op[r].sent) ELSE op[r].sent)
           ELSE Sends(r, None, op[r].sent)

(* A request that is not first in its conversation, or has no text of the  *)
(* user's, or for which no variant is selected.                            *)
AdviseNot(r) ==
  /\ ~(Speaks(r) /\ Starts(r) /\ setup.config.selected)
  /\ Sends(r, None, op[r].sent)
  /\ UNCHANGED registry

Send(r) ==
  /\ op[r].pc = "shaped"
  /\ Advise(r) \/ AdviseNot(r)
  /\ UNCHANGED <<opened, costs, health>>

AnswerRow(r, state) ==
  [id |-> GrantOf(r).id, turn |-> GrantOf(r).turn, role |-> "assistant",
   readiness |-> [variant \in {} |-> {}], start |-> FALSE, arm |-> None,
   state |-> state]

(* Mutation: the cost record is not given the request's turn.              *)
CostRowWithoutTurn(r) == [id |-> GrantOf(r).id, turn |-> NoTurn]

CostRow(r) == [id |-> GrantOf(r).id, turn |-> GrantOf(r).turn]

HealthRow(r) == [model |-> op[r].asked.protocol, version |-> setup.version]

(* What an answer leaves in the ledgers: its cost if the provider reports  *)
(* usage, its text if it has one, and its health always.                   *)
Due(answer) ==
  {"health"} \cup (IF answer.usage THEN {"cost"} ELSE {})
             \cup (IF answer.state = "empty" THEN {} ELSE {"answer"})

Answer(r, answer) ==
  /\ op[r].pc = "sent"
  /\ op[r].asked.protocol # "codex"
  /\ \E landed \in SUBSET {"cost", "answer", "health"} :
       /\ Lands(Due(answer), landed)
       /\ costs' = With(costs, "cost", CostRow(r), landed)
       /\ transcript' = With(transcript, "answer", AnswerRow(r, answer.state), landed)
       /\ health' = With(health, "health", HealthRow(r), landed)
       /\ op' = [op EXCEPT ![r].pc = "answered", ![r].state = answer.state,
                           ![r].landed = @ \cup landed]
  /\ UNCHANGED <<registry, opened>>

(* The request cannot be sent or its answer not be read; a Codex answer is *)
(* passed on as it is.                                                     *)
PassOn(r) ==
  /\ op[r].pc = "sent"
  /\ op' = [op EXCEPT ![r].pc = IF op[r].asked.protocol = "codex"
                                  THEN "answered" ELSE "failed"]
  /\ UNCHANGED <<registry, ledgers, opened>>

(* The proxy stops and starts again, with another configuration or another *)
(* version: the registry and the requests under way are gone, the ledgers  *)
(* are not.                                                                *)
Restart ==
  /\ Registry!Restart
  /\ op' = [r \in Request |->
              IF op[r].pc \in InFlight THEN [op[r] EXCEPT !.pc = "failed"] ELSE op[r]]
  /\ UNCHANGED <<ledgers, opened>>

Next ==
  \/ \E r \in Request, body \in Asked : Receive(r, body) \/ ReceiveCodex(r, body)
  \/ \E r \in Request : Send(r) \/ PassOn(r)
  \/ \E r \in Request, answer \in Answers : Answer(r, answer)
  \/ Restart

Spec == Init /\ [][Next]_vars

----------------------------------------------------------------------------
(* Properties *)

Identity == {Nowhere} \cup Registry!Grant

Handling ==
  [pc : InFlight \cup {"refused", "answered", "failed"},
   asked : Body, sent : Body, grant : Identity, config : Config,
   landed : SUBSET {"user", "cost", "answer", "health"}, state : States]

TypeOK ==
  /\ Registry!TypeOK
  /\ op \in [Request -> {New} \cup Handling]
  /\ \A i \in DOMAIN transcript \ DOMAIN Old.transcript :
       transcript[i] \in Rowed(Nat \ {NoTurn}) /\ transcript[i].state \in States
  /\ \A i \in DOMAIN costs \ DOMAIN Old.costs :
       costs[i] \in [id : Registry!SessionId, turn : Nat \ {NoTurn}]
  /\ \A i \in DOMAIN health \ DOMAIN Old.health :
       health[i].version \in {Setups[e].version : e \in 0..epoch}

(* The sessions whose requests were all handled in one run of the proxy:   *)
(* ids and turns start again with a run, so that those of two may be the   *)
(* same.                                                                   *)
OfOneRun ==
  {g.id : g \in {h \in grants : \A f \in grants : f.id = h.id => f.epoch = h.epoch}}

(* The places in the order of opening of the requests of session id whose  *)
(* user text is in the ledger.                                             *)
Heard(id) ==
  {i \in DOMAIN opened :
     GrantOf(opened[i]).id = id /\ "user" \in op[opened[i]].landed}

(* The question that the request opened k-th was answered with, and what   *)
(* the user next said in that session.                                     *)
IsAsked(k) ==
  op[opened[k]].state = "decision" /\ "answer" \in op[opened[k]].landed

TrueObservation(k, variant) ==
  LET id == GrantOf(opened[k]).id
      asked == opened[Max({i \in Heard(id) : i <= k})]
      reply == opened[Min({i \in Heard(id) : i > k})]
      before == ReadinessOf[Latest(op[asked].asked)][variant]
      after == ReadinessOf[Latest(op[reply].asked)][variant]
  IN  [id |-> id, question |-> GrantOf(opened[k]).turn,
       reply |-> GrantOf(reply).turn, variant |-> variant,
       filled |-> Filled(before, after), resolved |-> Resolved(before, after),
       costs |-> IF "cost" \in op[reply].landed THEN 1 ELSE 0]

(* clarification_report pairs each question with the user text of the next *)
(* request that took the mutex in that session, rates it against the last  *)
(* one before, and finds its cost, in whatever order answers and records   *)
(* came in and whichever of them were lost: what the comment on it         *)
(* promises of the turn ordinal.                                           *)
PairsFollow ==
  LET single == OfOneRun
  IN  {o \in Clarifications(transcript, costs) : o.id \in single} =
        UNION {{TrueObservation(k, variant) : variant \in Variant} :
               k \in {i \in DOMAIN opened :
                       LET id == GrantOf(opened[i]).id
                           heard == Heard(id)
                       IN  /\ IsAsked(i) /\ id \in single
                           /\ \E h, j \in heard : h <= i /\ i < j}}

Of(id) == {r \in Request : GrantOf(r).id = id}

(* The records of kind name that session id has in a ledger, beside those  *)
(* of earlier runs.                                                        *)
Landed(id, name) == Cardinality({r \in Of(id) : name \in op[r].landed})

LandedStarts ==
  {r \in Request : op[r] # New /\ "user" \in op[r].landed /\ Starts(r)}

(* readiness_report scores a session by a text that opened a conversation, *)
(* once, with all the records of its requests and no others; a session     *)
(* that the registry made for the rest of a conversation, after a restart  *)
(* or an eviction, is not scored ("never a new local Registry entry", as   *)
(* the comment on is_conversation_start has it).                           *)
ScoredAtStart ==
  LET single == OfOneRun
      starts == {r \in LandedStarts : GrantOf(r).id \in single}
      scores == {s \in Scores(transcript, costs) : s.id \in single}
  IN  /\ {s.id : s \in scores} = {GrantOf(r).id : r \in starts}
      /\ \A s \in scores :
           /\ \E r \in starts :
                /\ GrantOf(r).id = s.id
                /\ s.slots = ReadinessOf[Latest(op[r].asked)][s.variant]
           /\ s.turns = Landed(s.id, "user") + Landed(s.id, "answer")
                         + Cardinality({i \in DOMAIN Old.transcript :
                                          Old.transcript[i].id = s.id})
           /\ s.costs = Landed(s.id, "cost")
           /\ \A t \in scores : t.id = s.id /\ t.variant = s.variant => t = s

(* What the reports say of a session is what its requests did.             *)
ReportsTruthful == PairsFollow /\ ScoredAtStart

(* The experiment counts a session under the arm its requests were         *)
(* handled in, whatever was drawn for it and however its first requests,   *)
(* restarts and new settings interleave: under "inject" if one of them     *)
(* went out with the advisory, under "record_only" if none of them did     *)
(* whose record is in the ledger.  None that continues a conversation did, *)
(* nor a second one of the session in the same run.                        *)
ArmsTruthful ==
  /\ \A id \in InArm(transcript, "inject") :
       \E r \in Of(id) : op[r].sent.advised
  /\ \A id \in InArm(transcript, "record_only"), r \in Request :
       op[r] # New /\ GrantOf(r).id = id /\ op[r].sent.advised =>
         "user" \notin op[r].landed
  /\ \A r, s \in {q \in Request : op[q] # New /\ op[q].sent.advised} :
       /\ Starts(r) /\ InjectionEnabled(op[r].config)
       /\ GrantOf(r).id = GrantOf(s).id /\ GrantOf(r).epoch = GrantOf(s).epoch => r = s

(* What is sent upstream, on all three routes, has the constraints in      *)
(* their place and what the client asked unchanged around them, and bbg's  *)
(* breakpoint never takes a slot the client's own leave it none of; with   *)
(* the same instructions and settings, and a slot left, two requests are   *)
(* sent with the same instructions (I6).                                   *)
PromptStable ==
  \A r \in {q \in Request : op[q].pc = "sent"} :
    /\ Intact(op[r].sent, op[r].asked, op[r].config)
    /\ Breakpoints(op[r].asked) < Limit =>
         \A s \in {q \in Request : op[q].pc \in {"sent", "answered", "failed"}} :
           /\ op[r].config = op[s].config
           /\ op[r].asked.protocol = op[s].asked.protocol
           /\ op[r].asked.instructions = op[s].asked.instructions
           /\ Breakpoints(op[s].asked) < Limit
           => op[r].sent.instructions = op[s].sent.instructions

(* The version another is compared with stays the same as records are      *)
(* added, of an earlier version too after a downgrade.                     *)
BaselineStable ==
  [][\A i \in DOMAIN health :
       Baseline(health', health[i].model, health[i].version) =
         Baseline(health, health[i].model, health[i].version)]_health
----------------------------------------------------------------------------
(* The inductive invariant behind TypeOK, PromptStable and ArmsTruthful    *)

(* What a request sends is what it asked, in the shape its settings give   *)
(* it, until first_turn_advisory and perhaps with its text afterwards.     *)
SentShaped ==
  \A r \in Request : op[r] # New =>
    /\ op[r].asked \in Asked
    /\ op[r].sent =
         [Shaped(op[r].asked, op[r].config) EXCEPT !.advised = op[r].sent.advised]
    /\ op[r].pc = "shaped" =>
         /\ ~op[r].sent.advised
         /\ op[r].config = setup.config
         /\ op[r].asked.protocol # "codex"

(* A request of a conversation carries its own grant, with a turn that     *)
(* records without one do not have.                                        *)
GrantsOwn ==
  /\ \A g \in grants : g.turn # NoTurn
  /\ \A r \in Request : op[r] # New =>
       IF op[r].asked.protocol = "codex" THEN GrantOf(r) = Nowhere
       ELSE /\ GrantOf(r) \in grants
            /\ GrantOf(r).req = r
            /\ GrantOf(r).history = op[r].asked.messages

(* An advisory was sent only with a reservation, at the start of a         *)
(* conversation, with injection enabled.                                   *)
AdvisedEarned ==
  \A r \in Request : op[r] # New /\ op[r].sent.advised =>
    /\ op[r].asked.protocol # "codex"
    /\ GrantOf(r) \in advised
    /\ Starts(r) /\ InjectionEnabled(op[r].config)

(* The records of this proxy with the arm "inject" are those of requests   *)
(* that were sent with the advisory, if their append did not fail.         *)
ArmsRecorded ==
  /\ \A i \in DOMAIN transcript \ DOMAIN Old.transcript :
       transcript[i].arm = "inject" =>
         \E r \in Request : /\ op[r] # New /\ op[r].sent.advised
                            /\ GrantOf(r).id = transcript[i].id
  /\ \A r \in Request :
       op[r] # New /\ op[r].sent.advised /\ "user" \in op[r].landed =>
         \E i \in DOMAIN transcript : /\ transcript[i].arm = "inject"
                                       /\ transcript[i].id = GrantOf(r).id

(* The ledgers go on from what earlier runs left in them.                  *)
LedgersKept ==
  /\ transcript \in Seq(Rowed(Nat))
  /\ health \in Seq(Measured)
  /\ costs \in Seq(Costed)
  /\ \A i \in DOMAIN Old.transcript :
       i \in DOMAIN transcript /\ transcript[i] = Old.transcript[i]

EvidenceInv ==
  /\ TypeOK /\ Registry!IInv /\ epoch <= MaxEpoch
  /\ SentShaped /\ GrantsOwn /\ AdvisedEarned /\ ArmsRecorded /\ LedgersKept
============================================================================
