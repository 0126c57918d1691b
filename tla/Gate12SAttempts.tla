-------------------------- MODULE Gate12SAttempts --------------------------
(***************************************************************************)
(* One protected attempt per armed latch                                   *)
(* (house_continuity_v1_2_gate12s_control.py): an operator arms a mode, a  *)
(* turn consumes the latch, is prepared, declared ready and activated,     *)
(* passes the final request boundary, is authorised once, and leaves for   *)
(* the provider (live canary) or is answered in place (rehearsal).         *)
(*                                                                         *)
(* The attempt store opens SQLite with isolation_level=None, so a block    *)
(* "with self.connection" is no transaction: every statement commits on    *)
(* its own, and what such a block read may be stale when it writes.  Only  *)
(* the operations that say BEGIN IMMEDIATE are single steps here.          *)
(*                                                                         *)
(* Gate 12 itself (the semantic root of each mode) is reduced to what this *)
(* control reads of it; ProtectedTurn models it in full.  A request body   *)
(* is either the prepared one or not recorded (FALSE); denied-transport    *)
(* counts and the Milestone 5 artifact requirement are left out.           *)
(***************************************************************************)
EXTENDS Naturals, FiniteSets

CONSTANTS
  Turns,          \* client turns, numbered in the order of the conversation
  RehearsalTurn,  \* the one turn that the rehearsal switch names
  Handlers,       \* threads of the service and operator commands
  None

ASSUME AttemptAssumption ==
  /\ Turns \subseteq Nat
  /\ RehearsalTurn \in Turns
  /\ None \notin Nat

VARIABLES
  latch,    \* mode -> [state, rev, turn]
  review,   \* how the rehearsal review was passed, or "pending"
  row,      \* turn -> its attempt
  receipt,  \* turn -> the stored receipt: a copy of the attempt
  shadow,   \* mode -> [state, turn]: the latch of the semantic root
  boot,     \* mode -> this boot of the service is registered in the root
  turn,     \* turn -> state of its Gate-12 receipt
  cap,      \* turn -> state of its capability
  memory,   \* the service's globals, lost on restart
  pc, job,  \* handlers: next step and local variables
  sent      \* turn -> requests that reached the network

control == <<latch, review, row, receipt>>
semantic == <<shadow, boot, turn, cap>>
vars == <<control, semantic, memory, pc, job, sent>>

Modes == {"rehearsal", "live_canary"}
Other(m) == IF m = "rehearsal" THEN "live_canary" ELSE "rehearsal"

States == {"absent", "accepted_pending_readiness", "readiness_failed", "ready",
           "activation_pending", "activated", "intercept_authorized", "dispatched",
           "completed"}

NoRow == [mode |-> "live_canary", state |-> "absent", ready |-> "pending",
          endpoint |-> FALSE, active |-> FALSE, final |-> FALSE, issued |-> FALSE,
          consumed |-> FALSE, authorized |-> FALSE, external |-> 0, intercepted |-> 0,
          bundle |-> FALSE, unit |-> None]

\* The receipt repeats the attempt without its state.
Receipt(r) == [r EXCEPT !.state = "absent"]

FreshLatch == [state |-> "unarmed", rev |-> 1, turn |-> None]

NoMemory == [caps |-> {}, prepared |-> {}, reserved |-> {}, bound |-> {}]

NoJob == [op |-> "none", turn |-> None, mode |-> "live_canary", next |-> "idle",
          ready |-> FALSE, latch |-> FreshLatch, copy |-> NoRow, consumed |-> FALSE,
          bundle |-> FALSE, unit |-> None]

Init ==
  /\ latch = [m \in Modes |-> FreshLatch]
  /\ review = "pending"
  /\ row = [t \in Turns |-> NoRow]
  /\ receipt = [t \in Turns |-> NoRow]
  /\ shadow = [m \in Modes |-> [state |-> "unarmed", turn |-> None]]
  /\ boot = [m \in Modes |-> FALSE]
  /\ turn = [t \in Turns |-> "absent"]
  /\ cap = [t \in Turns |-> "absent"]
  /\ memory = NoMemory
  /\ pc = [h \in Handlers |-> "idle"]
  /\ job = [h \in Handlers |-> NoJob]
  /\ sent = [t \in Turns |-> 0]

Idle(h) == pc[h] = "idle"
Goto(h, l) == pc' = [pc EXCEPT ![h] = l]
Start(h, l, j) ==
  /\ Idle(h)
  /\ Goto(h, l)
  /\ job' = [job EXCEPT ![h] = j]
Leave(h) ==
  /\ Goto(h, "idle")
  /\ job' = [job EXCEPT ![h] = NoJob]

T(h) == job[h].turn
Mode(h) == row[T(h)].mode
Attempts == {t \in Turns : row[t].state # "absent"}

(***************************************************************************)
(* The doctor that arm, authorize_transport and the reviews consult.       *)
(***************************************************************************)
\* _semantic_activation_valid.
SemanticValid(t, requireIssued) ==
  /\ turn[t] # "absent"
  /\ IF requireIssued THEN cap[t] = "issued" /\ boot[row[t].mode] ELSE cap[t] # "absent"

NoActivation(r) ==
  /\ ~r.issued /\ ~r.consumed /\ ~r.authorized /\ ~r.bundle
  /\ r.external = 0 /\ r.intercepted = 0 /\ r.unit = None

StateHealthy(t) ==
  LET r == row[t] IN
  CASE r.state = "accepted_pending_readiness" -> r.ready = "pending" /\ NoActivation(r)
    [] r.state = "readiness_failed" -> r.ready = "failed" /\ NoActivation(r)
    [] r.state \in {"ready", "activation_pending"} -> r.ready = "ready" /\ NoActivation(r)
    [] r.state = "activated" ->
         r.ready = "ready" /\ r.issued /\ ~r.consumed /\ ~r.authorized /\ SemanticValid(t, TRUE)
    [] r.state = "intercept_authorized" ->
         r.mode = "rehearsal" /\ r.authorized /\ ~r.consumed /\ SemanticValid(t, TRUE)
    [] r.state = "dispatched" ->
         r.mode = "live_canary" /\ r.authorized /\ ~r.consumed /\ SemanticValid(t, TRUE)
    [] r.state = "completed" -> r.authorized /\ SemanticValid(t, FALSE)

\* The attempt holds its mode's latch, or it is a live one of an earlier arming.
HoldsLatch(t) ==
  LET r == row[t] IN
  \/ latch[r.mode].state = "consumed" /\ latch[r.mode].turn = t
  \/ r.mode = "live_canary" /\ r.state = "completed"

\* Readiness, activation and the final request are recorded in this order, and
\* nothing of them before readiness.
PhasesRecorded(r) ==
  /\ r.ready # "ready" =>
       ~r.issued /\ ~r.authorized /\ ~r.endpoint /\ ~r.active /\ ~r.final
  /\ r.ready = "ready" => r.endpoint
  /\ r.issued = r.active
  /\ r.final => r.active
  /\ r.authorized => r.endpoint /\ r.active /\ r.final
  /\ r.consumed => r.issued

\* One transport, outside or intercepted, exactly when it was authorised; a
\* bundle only of a consumed capability, a unit only of a bundle.
TransportCounted(r) ==
  /\ r.external = (IF r.authorized /\ r.mode = "live_canary" THEN 1 ELSE 0)
  /\ r.intercepted = (IF r.authorized /\ r.mode = "rehearsal" THEN 1 ELSE 0)
  /\ r.bundle => r.consumed
  /\ r.unit # None => r.bundle

\* The receipt is the first one of the attempt or the one of its present state.
ReceiptHealthy(t) ==
  receipt[t] \in {[NoRow EXCEPT !.mode = row[t].mode], Receipt(row[t])}

RowHealthy(t) ==
  /\ HoldsLatch(t) /\ PhasesRecorded(row[t]) /\ TransportCounted(row[t])
  /\ ReceiptHealthy(t) /\ StateHealthy(t)

\* A latch names the turn that consumed it, and only then.
ModeLatchHealthy(m) == latch[m].state = "consumed" <=> latch[m].turn # None

\* The attempts of a mode and its latch: none before an arming, one per
\* rehearsal, and before a live canary is armed again all have ended.
LatchMatches(m) ==
  LET mine == {t \in Attempts : row[t].mode = m} IN
  CASE latch[m].state = "unarmed" -> mine = {}
    [] latch[m].state = "consumed" ->
         latch[m].turn \in mine /\ (m = "rehearsal" => mine = {latch[m].turn})
    [] latch[m].state = "armed" ->
         \A t \in mine : m = "live_canary" /\ row[t].state = "completed"

Rehearsed(t) ==
  LET r == row[t] IN
  /\ r.state = "completed" /\ r.consumed /\ r.bundle /\ r.unit # None
  /\ r.external = 0 /\ r.intercepted = 1

Doctor ==
  /\ \E m \in Modes : latch[m].state # "armed"
  /\ latch["live_canary"].state = "armed" => review # "pending"
  /\ \A m \in Modes : ModeLatchHealthy(m) /\ LatchMatches(m)
  /\ \A t \in Attempts : RowHealthy(t)
  /\ review = "rehearsal" => \E t \in Attempts : row[t].mode = "rehearsal" /\ Rehearsed(t)

(***************************************************************************)
(* Operator commands: arm with Gate 12's own latch inside, the review of a *)
(* rehearsal, and the attestation that replaces it on a fresh root.        *)
(***************************************************************************)
Terminal(t) ==
  \/ row[t].bundle /\ row[t].unit # None /\ turn[t] = "ready_to_apply_shadow_only"
  \/ ~row[t].bundle /\ row[t].unit = None /\ turn[t] = "explicit_solen_no_semantic_delta"

Rearmable(m) ==
  /\ m = "live_canary" /\ latch[m].state = "consumed"
  /\ LET r == row[latch[m].turn] IN
       /\ r.mode = m /\ r.state = "completed" /\ r.issued /\ r.consumed /\ r.authorized
       /\ r.external = 1 /\ r.intercepted = 0
  /\ Terminal(latch[m].turn)

\* Fault: the live mode does not ask for the review.
SeededArmable(m) ==
  /\ latch[m].state = "unarmed" \/ Rearmable(m)
  /\ latch[Other(m)].state # "armed"

Armable(m) ==
  /\ latch[m].state = "unarmed" \/ Rearmable(m)
  /\ latch[Other(m)].state # "armed"
  /\ m = "live_canary" => review # "pending"

ArmRead(h, m) ==
  /\ Doctor
  /\ Armable(m)
  /\ Start(h, "arm", [NoJob EXCEPT !.op = "arm", !.mode = m, !.latch = latch[m]])
  /\ UNCHANGED <<control, semantic, memory, sent>>

Armed(h) == [state |-> "armed", rev |-> job[h].latch.rev + 1, turn |-> None]

ArmWrite(h) ==
  /\ pc[h] = "arm"
  /\ latch' = [latch EXCEPT ![job[h].mode] = Armed(h)]
  /\ Goto(h, "arm_inner")
  /\ UNCHANGED <<review, row, receipt, semantic, memory, job, sent>>

Settled == {"ready_to_apply_shadow_only", "explicit_solen_no_semantic_delta"}

\* The command may run in the service or in a process of its own.
ArmInner(h) ==
  LET m == job[h].mode IN
  /\ pc[h] = "arm_inner"
  /\ shadow[m].state = "consumed" => turn[shadow[m].turn] \in Settled
  /\ shadow' = [shadow EXCEPT ![m] = [state |-> "armed", turn |-> None]]
  /\ \E b \in {boot[m], TRUE} : boot' = [boot EXCEPT ![m] = b]
  /\ Leave(h)
  /\ UNCHANGED <<control, turn, cap, memory, sent>>

ArmInnerFails(h) ==
  /\ pc[h] = "arm_inner"
  /\ Goto(h, "restore")
  /\ UNCHANGED <<control, semantic, memory, job, sent>>

\* restore_latch_after_failed_inner_arm.
Restore(h) ==
  LET m == job[h].mode IN
  /\ pc[h] = "restore"
  /\ latch' = [latch EXCEPT ![m] = IF @ = Armed(h) THEN job[h].latch ELSE @]
  /\ Leave(h)
  /\ UNCHANGED <<review, row, receipt, semantic, memory, sent>>

ReviewRead(h) ==
  LET t == latch["rehearsal"].turn IN
  /\ Doctor
  /\ latch["rehearsal"].state = "consumed"
  /\ Rehearsed(t) /\ row[t].issued /\ row[t].authorized
  /\ turn[t] = "ready_to_apply_shadow_only" /\ cap[t] = "prepared_consumed"
  /\ Start(h, "review", [NoJob EXCEPT !.op = "review"])
  /\ UNCHANGED <<control, semantic, memory, sent>>

ReviewWrite(h) ==
  /\ pc[h] = "review"
  /\ review' = "rehearsal"
  /\ Leave(h)
  /\ UNCHANGED <<latch, row, receipt, semantic, memory, sent>>

\* mark_predecessor_attestation_pass looks at everything first, and at all but
\* the latches again inside the transaction.
AttestRead(h) ==
  /\ Doctor
  /\ review = "pending" /\ Attempts = {}
  /\ \A m \in Modes : latch[m] = FreshLatch
  /\ Start(h, "attest", [NoJob EXCEPT !.op = "attest"])
  /\ UNCHANGED <<control, semantic, memory, sent>>

AttestWrite(h) ==
  /\ pc[h] = "attest"
  /\ review' = IF review = "pending" /\ Attempts = {} THEN "predecessor" ELSE review
  /\ Leave(h)
  /\ UNCHANGED <<latch, row, receipt, semantic, memory, sent>>

(***************************************************************************)
(* Acceptance and readiness.                                               *)
(***************************************************************************)
\* accept: one transaction, then the clear capability goes into memory.
Accept(t, m) ==
  /\ m = "rehearsal" => t = RehearsalTurn
  /\ latch[m].state = "armed"
  /\ row[t].state = "absent"
  /\ \A u \in Attempts : u < t
  /\ latch' = [latch EXCEPT ![m] = [state |-> "consumed", rev |-> @.rev + 1, turn |-> t]]
  /\ row' = [row EXCEPT ![t] = [NoRow EXCEPT !.mode = m,
                                             !.state = "accepted_pending_readiness"]]
  /\ receipt' = [receipt EXCEPT ![t] = [NoRow EXCEPT !.mode = m]]
  /\ memory' = [memory EXCEPT !.caps = @ \cup {t}, !.bound = @ \cup {t}]
  /\ UNCHANGED <<review, semantic, pc, job, sent>>

\* prepare_generation2_selection and the preflight change the globals only.
Preflight(t) ==
  /\ t \in memory.caps \ memory.prepared
  /\ row[t].state # "absent"
  /\ memory' = [memory EXCEPT !.prepared = @ \cup {t}]
  /\ UNCHANGED <<control, semantic, pc, job, sent>>

ReadinessRead(h, t, ready) ==
  /\ ready => t \in memory.prepared
  /\ row[t].state \in IF ready THEN {"accepted_pending_readiness"}
                      ELSE {"accepted_pending_readiness", "ready", "activation_pending"}
  /\ Start(h, "readiness", [NoJob EXCEPT !.op = "readiness", !.turn = t, !.ready = ready])
  /\ UNCHANGED <<control, semantic, memory, sent>>

\* An autocommitted UPDATE of the handler's attempt; the receipt follows.
Update(h, r, next) ==
  /\ row' = [row EXCEPT ![T(h)] = r]
  /\ Goto(h, "receipt")
  /\ job' = [job EXCEPT ![h].next = next]
  /\ UNCHANGED <<latch, review, receipt, semantic, memory, sent>>

\* Fault: a failure keeps the endpoint of the request that was ready.
SeededUnready(r) == [r EXCEPT !.state = "readiness_failed", !.ready = "failed"]

Unready(r) ==
  [r EXCEPT !.state = "readiness_failed", !.ready = "failed", !.endpoint = FALSE]

ReadinessWrite(h) ==
  LET r == row[T(h)] IN
  /\ pc[h] = "readiness"
  /\ Update(h, IF job[h].ready
               THEN [r EXCEPT !.state = "ready", !.ready = "ready", !.endpoint = TRUE]
               ELSE Unready(r), "idle")

\* _update_receipt: read the attempt, then store its copy.
ReceiptRead(h) ==
  /\ pc[h] = "receipt"
  /\ job' = [job EXCEPT ![h].copy = Receipt(row[T(h)])]
  /\ Goto(h, "receipt_write")
  /\ UNCHANGED <<control, semantic, memory, sent>>

ReceiptWrite(h) ==
  /\ pc[h] = "receipt_write"
  /\ receipt' = [receipt EXCEPT ![T(h)] = job[h].copy]
  /\ IF job[h].next = "idle" THEN Leave(h)
     ELSE /\ Goto(h, job[h].next)
          /\ job' = [job EXCEPT ![h].copy = NoRow, ![h].next = "idle"]
  /\ UNCHANGED <<latch, review, row, semantic, memory, sent>>

(***************************************************************************)
(* Activation: begin_activation, Gate 12's commit_prepared_turn,           *)
(* record_activation, and what undoes it.                                  *)
(***************************************************************************)
ActivateRead(h, t) ==
  /\ row[t].state = "ready" /\ row[t].ready = "ready"
  /\ t \in memory.prepared
  /\ Start(h, "activate", [NoJob EXCEPT !.op = "activate", !.turn = t])
  /\ UNCHANGED <<control, semantic, memory, sent>>

ActivateWrite(h) ==
  /\ pc[h] = "activate"
  /\ Update(h, [row[T(h)] EXCEPT !.state = "activation_pending"], "commit")

Commit(h) ==
  LET m == Mode(h) IN
  /\ pc[h] = "commit"
  /\ shadow[m].state = "armed" /\ turn[T(h)] = "absent"
  /\ shadow' = [shadow EXCEPT ![m] = [state |-> "consumed", turn |-> T(h)]]
  /\ turn' = [turn EXCEPT ![T(h)] = "reserved"]
  /\ boot' = [boot EXCEPT ![m] = TRUE]
  /\ Goto(h, "issue")
  /\ UNCHANGED <<control, cap, memory, job, sent>>

Issue(h) ==
  /\ pc[h] = "issue"
  /\ cap[T(h)] = "absent"
  /\ cap' = [cap EXCEPT ![T(h)] = "issued"]
  /\ Goto(h, "record")
  /\ UNCHANGED <<control, shadow, boot, turn, memory, job, sent>>

IssueFails(h) ==
  /\ pc[h] = "issue"
  /\ turn' = [turn EXCEPT ![T(h)] = "activation_failed"]
  /\ Goto(h, "drop")
  /\ UNCHANGED <<control, shadow, boot, cap, memory, job, sent>>

Activatable(r) ==
  r.state = "activation_pending" /\ r.ready = "ready" /\ r.endpoint /\ ~r.issued

RecordActivation(h) ==
  LET r == [row[T(h)] EXCEPT !.state = "activated", !.issued = TRUE, !.active = TRUE] IN
  /\ pc[h] = "record"
  /\ Activatable(row[T(h)])
  /\ row' = [row EXCEPT ![T(h)] = r]
  /\ receipt' = [receipt EXCEPT ![T(h)] = Receipt(r)]
  /\ Goto(h, "reserve")
  /\ UNCHANGED <<latch, review, semantic, memory, job, sent>>

Reserve(h) ==
  /\ pc[h] = "reserve"
  /\ memory' = [memory EXCEPT !.reserved = @ \cup {T(h)}, !.bound = @ \cup {T(h)}]
  /\ Leave(h)
  /\ UNCHANGED <<control, semantic, sent>>

\* abort_reservation and recover_incomplete_activation: take the capability
\* back, then mark Gate 12's turn.
Invalidate(h) ==
  /\ pc[h] = "invalidate"
  /\ cap' = [cap EXCEPT ![T(h)] = IF @ = "issued" THEN "invalidated" ELSE @]
  /\ Goto(h, "mark_failed")
  /\ UNCHANGED <<control, shadow, boot, turn, memory, job, sent>>

MarkFailed(h) ==
  /\ pc[h] = "mark_failed"
  /\ turn' = [turn EXCEPT ![T(h)] = "activation_failed"]
  /\ Goto(h, job[h].next)
  /\ job' = [job EXCEPT ![h].next = "idle"]
  /\ UNCHANGED <<control, shadow, boot, cap, memory, sent>>

\* What activate_runtime forgets of a failed activation.
Drop(h) ==
  /\ pc[h] = "drop"
  /\ memory' = [memory EXCEPT !.caps = @ \ {T(h)}, !.prepared = @ \ {T(h)}]
  /\ Leave(h)
  /\ UNCHANGED <<control, semantic, sent>>

\* attempt_for_turn looks for an activation that a crash left behind.
RecoverRead(h, t) ==
  /\ row[t].state = "activation_pending"
  /\ Start(h, IF turn[t] = "absent" THEN "recover" ELSE "invalidate",
           [NoJob EXCEPT !.op = "recover", !.turn = t, !.next = "recover"])
  /\ UNCHANGED <<control, semantic, memory, sent>>

Recovered(r) ==
  [r EXCEPT !.state = "readiness_failed", !.ready = "failed", !.endpoint = FALSE,
            !.active = FALSE, !.final = FALSE]

RecoverWrite(h) ==
  /\ pc[h] = "recover"
  /\ Update(h, IF row[T(h)].state = "activation_pending" THEN Recovered(row[T(h)])
               ELSE row[T(h)], "bound")

Bind(h) ==
  /\ pc[h] = "bound"
  /\ memory' = [memory EXCEPT !.bound = @ \cup {T(h)}]
  /\ Leave(h)
  /\ UNCHANGED <<control, semantic, sent>>

\* attempt_for_turn of any other attempt.
Lookup(t) ==
  /\ row[t].state \notin {"absent", "activation_pending"}
  /\ t \notin memory.bound
  /\ memory' = [memory EXCEPT !.bound = @ \cup {t}]
  /\ UNCHANGED <<control, semantic, pc, job, sent>>

(***************************************************************************)
(* The one transport: validate_final_request_boundary,                     *)
(* enforce_external_call_policy, intercept_final_transport, in the order   *)
(* of main_runtime_provider_trace_bridge_v0.wrap_transport, and            *)
(* process_provider_response.                                              *)
(***************************************************************************)
TransportStart(h, t) ==
  LET r == row[t] IN
  /\ t \in memory.prepared
  /\ r.state = "activated" /\ r.endpoint /\ r.active /\ ~r.final
  /\ memory' = [memory EXCEPT !.bound = @ \cup {t}]
  /\ Start(h, "boundary", [NoJob EXCEPT !.op = "transport", !.turn = t])
  /\ UNCHANGED <<control, semantic, sent>>

BoundaryWrite(h) ==
  /\ pc[h] = "boundary"
  /\ Update(h, [row[T(h)] EXCEPT !.final = TRUE], "authorize")

\* Fault: the authorisation only asks for an effective activation.
SeededAuthorizable(t) ==
  row[t].issued /\ row[t].endpoint /\ row[t].active /\ row[t].final /\ SemanticValid(t, TRUE)

Authorizable(t) ==
  LET r == row[t] IN
  /\ r.state = "activated" /\ r.ready = "ready" /\ r.issued
  /\ r.endpoint /\ r.active /\ r.final
  /\ ~r.authorized /\ r.external = 0
  /\ SemanticValid(t, TRUE)

Authorized(r) ==
  IF r.mode = "rehearsal"
  THEN [r EXCEPT !.state = "intercept_authorized", !.authorized = TRUE, !.intercepted = 1]
  ELSE [r EXCEPT !.state = "dispatched", !.authorized = TRUE, !.external = 1]

Authorize(h) ==
  /\ pc[h] = "authorize"
  /\ Doctor /\ Authorizable(T(h))
  /\ row' = [row EXCEPT ![T(h)] = Authorized(@)]
  /\ receipt' = [receipt EXCEPT ![T(h)] = Receipt(Authorized(row[T(h)]))]
  /\ memory' = [memory EXCEPT !.bound = @ \cup {T(h)}]
  /\ Goto(h, "intercept")
  /\ UNCHANGED <<latch, review, semantic, job, sent>>

\* Refused by the doctor or by the state of the attempt: denied, and raised.
AuthorizeDenied(h) ==
  /\ pc[h] = "authorize"
  /\ ~(Doctor /\ Authorizable(T(h)))
  /\ Leave(h)
  /\ UNCHANGED <<control, semantic, memory, sent>>

\* Fault: a rehearsal without its reservation falls through to the network.
SeededLeaves(t) == t \notin memory.bound \/ t \notin memory.reserved

\* What intercept_final_transport lets through: a turn this process does not
\* know, or a live one.
Leaves(t) == t \notin memory.bound \/ row[t].mode = "live_canary"

Intercept(h) ==
  LET t == T(h) IN
  /\ pc[h] = "intercept"
  /\ t \in memory.bound => row[t].endpoint /\ row[t].active /\ row[t].final
  /\ \/ Leaves(t) /\ sent' = [sent EXCEPT ![t] = @ + 1]
     \/ ~Leaves(t) /\ t \in memory.reserved /\ UNCHANGED sent
  /\ Goto(h, "process")
  /\ UNCHANGED <<control, semantic, memory, job>>

InterceptDenied(h) ==
  LET t == T(h) IN
  /\ pc[h] = "intercept"
  /\ t \in memory.bound
  /\ \/ ~(row[t].endpoint /\ row[t].active /\ row[t].final)
     \/ ~Leaves(t) /\ t \notin memory.reserved
  /\ Leave(h)
  /\ UNCHANGED <<control, semantic, memory, sent>>

\* What Gate 12 makes of the capability and of the turn.
Outcomes == {<<"prepared_consumed", "visible_released_waiting_unit">>,
             <<"rejected_consumed", "explicit_solen_no_semantic_delta">>,
             <<"rejected_consumed", "refused">>, <<"closed_unused", "unsupplied">>,
             <<"expired", "refused">>, <<"issued", "accepted">>,
             <<"invalidated", "provider_failed">>}

\* The receipt may call the capability of outcome o consumed, or not: a call
\* bound to something else spends it and is not called so.
Called(o, consumed) ==
  IF consumed THEN o[1] \in {"prepared_consumed", "rejected_consumed"}
  ELSE o[2] \notin {"visible_released_waiting_unit", "explicit_solen_no_semantic_delta"}

\* Gate 12 decides the response; a capability that is no longer issued decides
\* nothing.
Process(h) ==
  /\ pc[h] = "process"
  /\ IF cap[T(h)] = "issued"
     THEN \E o \in Outcomes, consumed \in BOOLEAN :
            /\ Called(o, consumed)
            /\ cap' = [cap EXCEPT ![T(h)] = o[1]]
            /\ turn' = [turn EXCEPT ![T(h)] = o[2]]
            /\ job' = [job EXCEPT ![h].bundle = (o[1] = "prepared_consumed"),
                                  ![h].consumed = consumed]
     ELSE /\ \E state \in {"refused", "provider_failed"} :
               turn' = [turn EXCEPT ![T(h)] = state]
          /\ UNCHANGED <<cap, job>>
  /\ Goto(h, "complete")
  /\ UNCHANGED <<control, shadow, boot, memory, sent>>

CompleteRead(h) ==
  LET r == row[T(h)] IN
  /\ pc[h] = "complete"
  /\ r.state \in {"intercept_authorized", "dispatched"} /\ r.issued /\ r.authorized
  /\ Goto(h, "complete_write")
  /\ UNCHANGED <<control, semantic, memory, job, sent>>

CompleteWrite(h) ==
  /\ pc[h] = "complete_write"
  /\ Update(h, [row[T(h)] EXCEPT !.state = "completed", !.consumed = job[h].consumed,
                                 !.bundle = job[h].bundle], "forget")

Forget(h) ==
  /\ pc[h] = "forget"
  /\ memory' = [m \in DOMAIN memory |-> memory[m] \ {T(h)}]
  /\ Leave(h)
  /\ UNCHANGED <<control, semantic, sent>>

(***************************************************************************)
(* bind_android_session_sync: the outer store picks the latest message     *)
(* that has an attempt, Gate 12 the latest one that waits for its unit.    *)
(***************************************************************************)
Latest(S) == CHOOSE t \in S : \A u \in S : u <= t

\* Fault: both modes share one root.
SeededWaiting(m, P) == {t \in P : turn[t] = "visible_released_waiting_unit"}

Waiting(m, P) ==
  {t \in P : row[t].mode = m /\ turn[t] = "visible_released_waiting_unit"}

SyncBind(h, P) ==
  LET t == Latest(P \cap Attempts)
      w == Waiting(row[t].mode, P) IN
  /\ IsFiniteSet(P) /\ P \cap Attempts # {} /\ w # {}
  /\ turn' = [turn EXCEPT ![Latest(w)] = "ready_to_apply_shadow_only"]
  /\ Start(h, "unit", [NoJob EXCEPT !.op = "sync", !.turn = t, !.unit = Latest(w)])
  /\ UNCHANGED <<control, shadow, boot, cap, memory, sent>>

UnitRead(h) ==
  LET r == row[T(h)] IN
  /\ pc[h] = "unit"
  /\ r.state = "completed" /\ r.consumed /\ r.bundle /\ r.unit = None
  /\ Goto(h, "unit_write")
  /\ UNCHANGED <<control, semantic, memory, job, sent>>

UnitWrite(h) ==
  /\ pc[h] = "unit_write"
  /\ Update(h, [row[T(h)] EXCEPT !.unit = job[h].unit], "idle")

(***************************************************************************)
(* Faults.                                                                 *)
(***************************************************************************)
\* An exception at any step: a busy database, a refused check, an error of a
\* collaborator.  A failed activation is cleaned up, everything else just ends.
Raise(h) ==
  /\ ~Idle(h)
  /\ IF job[h].op = "activate" /\ pc[h] \notin {"invalidate", "mark_failed", "drop"}
     THEN IF pc[h] \in {"record", "reserve"}
          THEN /\ Goto(h, "invalidate")
               /\ job' = [job EXCEPT ![h].next = "drop"]
          ELSE Goto(h, "drop") /\ UNCHANGED job
     ELSE IF job[h].op = "activate"
          THEN Goto(h, "drop") /\ UNCHANGED job
          ELSE Leave(h)
  /\ UNCHANGED <<control, semantic, memory, sent>>

Operator == {"arm", "review", "attest"}

\* The service dies; operator commands in processes of their own go on.
Restart ==
  /\ memory' = NoMemory
  /\ boot' = [m \in Modes |-> FALSE]
  /\ pc' = [h \in Handlers |-> IF job[h].op \in Operator THEN pc[h] ELSE "idle"]
  /\ job' = [h \in Handlers |-> IF job[h].op \in Operator THEN job[h] ELSE NoJob]
  /\ UNCHANGED <<control, shadow, turn, cap, sent>>

Command(h) ==
  \/ \E m \in Modes : ArmRead(h, m)
  \/ ArmWrite(h) \/ ArmInner(h) \/ ArmInnerFails(h) \/ Restore(h)
  \/ ReviewRead(h) \/ ReviewWrite(h) \/ AttestRead(h) \/ AttestWrite(h)

Handle(h, t) ==
  \/ \E ready \in BOOLEAN : ReadinessRead(h, t, ready)
  \/ ActivateRead(h, t) \/ RecoverRead(h, t) \/ TransportStart(h, t)

Continue(h) ==
  \/ ReadinessWrite(h) \/ ReceiptRead(h) \/ ReceiptWrite(h)
  \/ ActivateWrite(h) \/ Commit(h) \/ Issue(h) \/ IssueFails(h) \/ RecordActivation(h)
  \/ Reserve(h) \/ Invalidate(h) \/ MarkFailed(h) \/ Drop(h) \/ RecoverWrite(h) \/ Bind(h)
  \/ BoundaryWrite(h) \/ Authorize(h) \/ AuthorizeDenied(h) \/ Intercept(h)
  \/ InterceptDenied(h) \/ Process(h) \/ CompleteRead(h) \/ CompleteWrite(h) \/ Forget(h)
  \/ UnitRead(h) \/ UnitWrite(h)

\* The service's requests about the turns S, and the steps of handler h.
Serve(h, S) ==
  \/ \E t \in S : Handle(h, t)
  \/ \E P \in SUBSET S : SyncBind(h, P)
  \/ Continue(h)

Enter(S) == \E t \in S : Preflight(t) \/ Lookup(t) \/ \E m \in Modes : Accept(t, m)

Next ==
  \/ Enter(Turns)
  \/ \E h \in Handlers : Command(h) \/ Serve(h, Turns) \/ Raise(h)
  \/ Restart

Spec == Init /\ [][Next]_vars

\* An operator arms by hand, and waits for a command to end before the next one.
OneArming == \A g, h \in Handlers : job[g].op = "arm" /\ job[h].op = "arm" => g = h

SoloSpec == Init /\ [][Next /\ OneArming']_vars

(***************************************************************************)
(* Properties.                                                             *)
(***************************************************************************)

\* Whatever readiness reports, recoveries, second activations and restarts do
\* to an attempt, its request reaches the network at most once, and only a
\* store that records the dispatch lets it (authorize_transport).
AtMostOneTransport ==
  \A t \in Turns : sent[t] <= (IF row[t].authorized THEN row[t].external ELSE 0)

\* A rehearsal never leaves the process: its request is answered in place even
\* while the globals that recognise it are being set up, dropped or restored
\* (intercept_final_transport).
RehearsalStaysInside == \A t \in Turns : row[t].mode = "rehearsal" => sent[t] = 0

\* A live request was sent only after a review: of a rehearsal that had been
\* completed with its own unit, or, on a fresh root, of a predecessor's proof; a
\* rehearsal may then still follow, and its review replaces the attestation (arm).
LiveAfterReview ==
  \A t \in Turns : sent[t] > 0 =>
    /\ review # "pending"
    /\ review = "rehearsal" =>
         \E u \in Turns : row[u].mode = "rehearsal" /\ row[u].unit = u

\* An attempt is completed with the unit of its own turn, although the sync
\* matches messages to attempts and to waiting turns separately: each mode has a
\* root of its own, and its latch waits for the unit before the next turn.  Two
\* overlapping arm commands would break it: the later one arms on a stale read.
UnitIsOwn ==
  \A t \in Turns : row[t].unit # None =>
    row[t].unit = t /\ row[t].bundle /\ cap[t] = "prepared_consumed"

\* Between operations the doctor accepts the store: no operation that ran to
\* its end leaves an attempt, a receipt or a latch that blocks the next one.
QuietIsHealthy == (\A h \in Handlers : Idle(h)) => Doctor

\* A unit that Gate 12 bound is on record in the attempt: without it the latch
\* would stay closed for good.
BoundIsRecorded ==
  \A t \in Turns : turn[t] = "ready_to_apply_shadow_only" =>
    row[t].unit = t \/ \E h \in Handlers : job[h].op = "sync"

\* "gate12s_modes_cannot_coexist": the two latches are never armed together.
ModesDoNotCoexist == \E m \in Modes : latch[m].state # "armed"

=============================================================================
