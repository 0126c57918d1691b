--------------------------- MODULE ProtectedTurn ---------------------------
(***************************************************************************)
(* One Gate-12 turn from the latch to a bundle that is ready to apply      *)
(* (house_continuity_v1_2_gate12_protected_shadow.py): reserve the turn,   *)
(* issue its capability, call the provider, retain the completion, parse   *)
(* it, decide what it authored, make it visible, and bind the unit the     *)
(* phone syncs back.  The four stores are separate databases or separate   *)
(* transactions of one, so every durable write is its own step, a crash    *)
(* may fall between any two, and a restart may replay the completion       *)
(* (replay_parse_and_prepare, release_visible).                            *)
(*                                                                         *)
(* Response content is abstracted to the class the parser sorts it into    *)
(* (Kinds); the class belongs to the response and never changes.  Which    *)
(* bytes it has matters only to the store that retains them (`bytes`).     *)
(***************************************************************************)
EXTENDS TurnIdentities, CapabilityRegistry, CompletionReplay, DurablePreparation,
        Gate12Control

CONSTANTS
  Processors,  \* handlers that process or replay a completion
  Syncs,       \* concurrent session-sync handlers
  Structured   \* turns answered by the terminal tool call (the live generation);
               \* the others carry continuity blocks in the text

ASSUME TurnAssumption == Structured \subseteq Turns

VARIABLES
  kind,   \* turn -> class of the provider's response
  due,    \* turn -> the capability's expires_at has passed
  pc, job,      \* processors: next step and local variables
  syncPc, sync  \* sync handlers: the same

turnVars == <<latch, turn>>
outboxVars == <<operation, bundle>>
syncVars == <<syncPc, sync>>
vars == <<cap, completion, operation, bundle, latch, turn, kind, bytes, due, pc, job,
          syncPc, sync>>

\* none: no continuity carrier, or a terminal call whose private part is invalid
\* or names another capability; structural: duplicated, misplaced or
\* noncanonical private blocks; invalid: unterminated, oversized or failing the
\* schema; misbound: an intent for another protocol; no_delta; delta; over_limit:
\* valid, but refused by Gate 12 itself (more than one operation, or other
\* request bytes than the ones dispatched).
Kinds == {"none", "structural", "invalid", "misbound", "no_delta", "delta", "over_limit"}

\* A response of these kinds names the capability of its own turn.
OwnKinds == Kinds \ {"none", "structural"}

\* capability_effect of the parse result.
Effects == {"none", "rejected_consumed", "binding_failure_recorded", "replay_recorded",
            "explicit_no_delta_consumed", "pending_gate5_durable_preparation"}

PCs == {"idle", "issue", "provider", "fail", "parse", "reject", "write", "limit",
        "operation", "start", "record", "reread", "decide", "prepare", "commit",
        "cas", "release", "reconcile", "confirm", "turn"}

NoJob == [turn |-> None, role |-> "main", late |-> FALSE, effect |-> "none",
          code |-> "other", issued |-> FALSE, seen |-> NoRecord, op |-> None,
          target |-> "none", at |-> CompletedAt]

Jobs == [turn : Turns \cup {None}, role : {"main", "replay", "release"}, late : BOOLEAN,
         effect : Effects, code : Codes, issued : BOOLEAN, seen : Records,
         op : {None} \cup [visible : VisibleStates, failed : BOOLEAN,
                           at : ReleaseTimes \cup {None}, expected : Units \cup {None},
                           unit : Units \cup {None}],
         target : CompletionStates \cup TurnStates, at : ReleaseTimes]

NoSync == [turn |-> None, unit |-> None]

\* Every record of the four stores and every handler's local state is well formed.
TypeOK ==
  /\ CapTypeOK
  /\ CompletionTypeOK
  /\ PreparationTypeOK
  /\ ControlTypeOK
  /\ kind \in [Turns -> Kinds]
  /\ due \in [Turns -> BOOLEAN]
  /\ pc \in [Processors -> PCs]
  /\ job \in [Processors -> Jobs]
  /\ syncPc \in [Syncs -> {"idle", "finalize", "publish", "bind", "turn"}]
  /\ sync \in [Syncs -> [turn : Turns \cup {None}, unit : Units \cup {None}]]

\* The arguments of a terminal call are neither empty nor long (the parser of the
\* call sees to it), and the same bytes do not name two capabilities.
ResponsesPossible ==
  /\ \A t \in Structured : bytes[t] \in Retainable
  /\ \A t, u \in Turns : t # u /\ bytes[t] = bytes[u] =>
       kind[t] \notin OwnKinds \/ kind[u] \notin OwnKinds

Init ==
  /\ CapInit
  /\ CompletionInit
  /\ PreparationInit
  /\ ControlInit
  /\ kind \in [Turns -> Kinds]
  /\ ResponsesPossible
  /\ due = [t \in Turns |-> FALSE]
  /\ pc = [p \in Processors |-> "idle"]
  /\ job = [p \in Processors |-> NoJob]
  /\ syncPc = [s \in Syncs |-> "idle"]
  /\ sync = [s \in Syncs |-> NoSync]

At(p, l) == pc[p] = l
Goto(p, l) == pc' = [pc EXCEPT ![p] = l]
Keep(p) == UNCHANGED job
\* The handler returns or raises.
Leave(p) ==
  /\ pc' = [pc EXCEPT ![p] = "idle"]
  /\ job' = [job EXCEPT ![p] = NoJob]

T(p) == job[p].turn
Kind(p) == kind[T(p)]

(***************************************************************************)
(* Reservation: commit_prepared_turn, abort_reservation.                   *)
(***************************************************************************)
ArmLatch ==
  /\ Arm
  /\ UNCHANGED <<cap, completion, outboxVars, turn, kind, bytes, due, pc, job, syncVars>>

Reserve(p, t) ==
  /\ At(p, "idle")
  /\ ConsumeLatch(t)
  /\ Goto(p, "issue")
  /\ job' = [job EXCEPT ![p] = [NoJob EXCEPT !.turn = t]]
  /\ UNCHANGED <<cap, completion, outboxVars, kind, bytes, due, syncVars>>

IssueCapability(p) ==
  /\ At(p, "issue")
  /\ Issue(T(p))
  /\ Goto(p, "provider")
  /\ Keep(p)
  /\ UNCHANGED <<completion, outboxVars, turnVars, kind, bytes, due, syncVars>>

\* issue raised before anything was stored.
IssueFails(p) ==
  /\ At(p, "issue")
  /\ Goto(p, "fail")
  /\ job' = [job EXCEPT ![p].target = "activation_failed"]
  /\ UNCHANGED <<cap, completion, outboxVars, turnVars, kind, bytes, due, syncVars>>

\* abort_reservation ("activation_failed"), or the provider call failed.
GiveUp(p, state) ==
  /\ At(p, "provider")
  /\ Invalidate(T(p))
  /\ Goto(p, "fail")
  /\ job' = [job EXCEPT ![p].target = state]
  /\ UNCHANGED <<completion, outboxVars, turnVars, kind, bytes, due, syncVars>>

\* The seeded fault forgets the receipt.
SeededFailTurn(p) ==
  /\ At(p, "fail")
  /\ Leave(p)
  /\ UNCHANGED <<cap, completion, outboxVars, turnVars, kind, bytes, due, syncVars>>

FailTurn(p) ==
  /\ At(p, "fail")
  /\ UpdateTurn(T(p), job[p].target)
  /\ Leave(p)
  /\ UNCHANGED <<cap, completion, outboxVars, latch, kind, bytes, due, syncVars>>

Lapse(t) ==
  /\ Issued(t) /\ ~due[t]
  /\ due' = [due EXCEPT ![t] = TRUE]
  /\ UNCHANGED <<cap, completion, outboxVars, turnVars, kind, bytes, pc, job, syncVars>>

(***************************************************************************)
(* The provider answered: process_provider_response.  Its clock is         *)
(* completed_at, so whether the capability is due is fixed here.           *)
(***************************************************************************)
RetainCompletion(p) ==
  /\ At(p, "provider")
  /\ RecordCompletion(T(p))
  /\ Goto(p, "parse")
  /\ job' = [job EXCEPT ![p].late = due[T(p)]]
  /\ UNCHANGED <<cap, outboxVars, turnVars, kind, bytes, due, syncVars>>

\* record_completion raised: no record, no verdict, and nothing updates the turn.
RetainFails(p) ==
  /\ At(p, "provider")
  /\ CompletionRefused(T(p))
  /\ Leave(p)
  /\ UNCHANGED <<cap, completion, outboxVars, turnVars, kind, bytes, due, syncVars>>

\* Where each caller of the parser goes on.
AfterParse(p) == IF job[p].role = "main" THEN "limit" ELSE "record"

Parsed(p, effect) ==
  /\ Goto(p, AfterParse(p))
  /\ job' = [job EXCEPT ![p].effect = effect]

ToReject(p, code, effect) ==
  /\ Goto(p, "reject")
  /\ job' = [job EXCEPT ![p].effect = effect, ![p].code = code]
  /\ UNCHANGED cap

\* The carrier names the capability and its grammar holds, so expiry and replay
\* are looked at before the content is.
Carried(p) == Kind(p) \in OwnKinds
Usable(p) == Carried(p) /\ Issued(T(p)) /\ ~job[p].late

ParseNoCarrier(p) ==
  /\ Kind(p) = "none" /\ T(p) \notin Structured
  /\ Parsed(p, "none")
  /\ UNCHANGED cap

\* A terminal call always has a private part, so leaving it out is a rejection.
StructuredReject(p) ==
  /\ Kind(p) = "none" /\ T(p) \in Structured
  /\ ToReject(p, "other", "rejected_consumed")

ParseStructural(p) == Kind(p) = "structural" /\ ToReject(p, "other", "rejected_consumed")

ParseExpired(p) ==
  /\ Carried(p) /\ job[p].late
  /\ Expire(T(p))
  /\ Parsed(p, "replay_recorded")

ParseReplayed(p) ==
  /\ Carried(p) /\ ~Issued(T(p)) /\ ~NoDeltaReplay(T(p))
  /\ RecordFailure(T(p), "other")
  /\ Parsed(p, "replay_recorded")

ParseInvalid(p) ==
  /\ Usable(p) /\ Kind(p) = "invalid"
  /\ ToReject(p, "other", "rejected_consumed")

ParseMisbound(p) ==
  /\ Usable(p) /\ Kind(p) = "misbound" /\ T(p) \notin Structured
  /\ RecordFailure(T(p), "other")
  /\ Parsed(p, "binding_failure_recorded")

\* authority_parse_result records the mismatch and consumes the capability too.
StructuredMisbound(p) ==
  /\ Usable(p) /\ Kind(p) = "misbound" /\ T(p) \in Structured
  /\ ToReject(p, "other", "binding_failure_recorded")

ParseNoDelta(p) ==
  /\ Kind(p) = "no_delta"
  /\ Usable(p) \/ NoDeltaReplay(T(p))
  /\ ToReject(p, "no_delta", "explicit_no_delta_consumed")

ParseAccepted(p) ==
  /\ Usable(p) /\ Kind(p) \in {"delta", "over_limit"}
  /\ Parsed(p, "pending_gate5_durable_preparation")
  /\ UNCHANGED cap

Parse(p) ==
  /\ At(p, "parse")
  /\ \/ ParseNoCarrier(p)
     \/ StructuredReject(p)
     \/ ParseStructural(p)
     \/ ParseExpired(p)
     \/ ParseReplayed(p)
     \/ ParseInvalid(p)
     \/ ParseMisbound(p)
     \/ StructuredMisbound(p)
     \/ ParseNoDelta(p)
     \/ ParseAccepted(p)
  /\ UNCHANGED <<completion, outboxVars, turnVars, kind, bytes, due, syncVars>>

\* reject_consumed reads the record, then compares and swaps it.
RejectRead(p) ==
  /\ At(p, "reject")
  /\ Goto(p, "write")
  /\ job' = [job EXCEPT ![p].issued = Issued(T(p))]
  /\ UNCHANGED <<cap, completion, outboxVars, turnVars, kind, bytes, due, syncVars>>

RejectWrite(p) ==
  /\ At(p, "write")
  /\ RejectConsumed(T(p), job[p].issued, job[p].code)
  /\ Goto(p, AfterParse(p))
  /\ Keep(p)
  /\ UNCHANGED <<completion, outboxVars, turnVars, kind, bytes, due, syncVars>>

\* Gate 12's own refusal, which a replay does not repeat.
GateLimit(p) ==
  /\ At(p, "limit")
  /\ IF job[p].effect = "pending_gate5_durable_preparation" /\ Kind(p) = "over_limit"
     THEN ToReject(p, "other", "rejected_consumed")
     ELSE Goto(p, "operation") /\ UNCHANGED <<cap, job>>
  /\ UNCHANGED <<completion, outboxVars, turnVars, kind, bytes, due, syncVars>>

RecordOperation(p) ==
  /\ At(p, "operation")
  /\ RecordProviderOperation(T(p))
  /\ Goto(p, "start")
  /\ Keep(p)
  /\ UNCHANGED <<cap, completion, bundle, turnVars, kind, bytes, due, syncVars>>

(***************************************************************************)
(* replay_parse_and_prepare, by the handler with its parse result or by a  *)
(* restart that parses the retained bytes again.                           *)
(***************************************************************************)
StartMain(p) ==
  /\ At(p, "start")
  /\ IF Decided(T(p))
     THEN /\ Goto(p, "release")
          /\ job' = [job EXCEPT ![p].target = completion[T(p)].state]
     ELSE /\ Goto(p, "record")
          /\ job' = [job EXCEPT ![p].seen = completion[T(p)]]
  /\ UNCHANGED <<cap, completion, outboxVars, turnVars, kind, bytes, due, syncVars>>

\* A restart parses carriers; nothing in the code replays a terminal call.
StartReplay(p, t) ==
  /\ At(p, "idle")
  /\ t \notin Structured
  /\ completion[t] # NoRecord /\ ~Decided(t)
  /\ Goto(p, "parse")
  /\ job' = [job EXCEPT ![p] = [NoJob EXCEPT !.turn = t, !.role = "replay",
                                !.late = due[t], !.seen = completion[t]]]
  /\ UNCHANGED <<cap, completion, outboxVars, turnVars, kind, bytes, due, syncVars>>

RecordParse(p) ==
  /\ At(p, "record")
  /\ IF job[p].seen.state = "retained_unparsed"
     THEN /\ CasReplace(T(p), job[p].seen, "parsed_pending_preparation")
          /\ Goto(p, "reread")
     ELSE Goto(p, "decide") /\ UNCHANGED completion
  /\ Keep(p)
  /\ UNCHANGED <<cap, outboxVars, turnVars, kind, bytes, due, syncVars>>

Reread(p) ==
  /\ At(p, "reread")
  /\ Goto(p, "decide")
  /\ job' = [job EXCEPT ![p].seen = completion[T(p)]]
  /\ UNCHANGED <<cap, completion, outboxVars, turnVars, kind, bytes, due, syncVars>>

\* The decision each capability effect leads to.
Outcome(effect) ==
  CASE effect = "explicit_no_delta_consumed" -> "explicit_no_delta"
    [] effect = "none" -> "closed_unused"
    [] OTHER -> "rejected"

Decide(p) ==
  LET found == Prepared(T(p))
      pending == job[p].effect = "pending_gate5_durable_preparation" IN
  /\ At(p, "decide")
  /\ Goto(p, IF ~found /\ pending THEN "prepare" ELSE "cas")
  /\ job' = [job EXCEPT ![p].target = IF found THEN "prepared" ELSE Outcome(job[p].effect)]
  /\ IF ~found /\ job[p].effect = "none" THEN CloseUnused(T(p)) ELSE UNCHANGED cap
  /\ UNCHANGED <<completion, outboxVars, turnVars, kind, bytes, due, syncVars>>

\* prepare reads the capability and the operation before its transaction, which
\* checks only the capability again.
PrepareRead(p) ==
  /\ At(p, "prepare")
  /\ Issued(T(p)) /\ Preparable(operation[T(p)])
  /\ Goto(p, "commit")
  /\ job' = [job EXCEPT ![p].op = operation[T(p)]]
  /\ UNCHANGED <<cap, completion, outboxVars, turnVars, kind, bytes, due, syncVars>>

PrepareCommit(p) ==
  /\ At(p, "commit")
  /\ Consume(T(p))
  /\ InsertBundle(T(p), job[p].op)
  /\ Goto(p, "cas")
  /\ job' = [job EXCEPT ![p].target = "prepared"]
  /\ UNCHANGED <<completion, operation, turnVars, kind, bytes, due, syncVars>>

\* Another handler prepared the same bundle first: its receipt is returned.
PrepareConverges(p) ==
  /\ pc[p] \in {"prepare", "commit"}
  /\ Prepared(T(p))
  /\ Goto(p, "cas")
  /\ job' = [job EXCEPT ![p].target = "prepared"]
  /\ UNCHANGED <<cap, completion, outboxVars, turnVars, kind, bytes, due, syncVars>>

\* prepare raised: a missing or unusable operation, a spent capability, or (with
\* every check passed) a locked database.
PrepareFails(p) ==
  /\ pc[p] \in {"prepare", "commit"}
  /\ ~Prepared(T(p))
  /\ IF CanRecordFailure(T(p))
     THEN /\ RecordPreparationFailure(T(p))
          /\ Goto(p, "cas")
          /\ job' = [job EXCEPT ![p].target = "preparation_failed_visible_authorized"]
     ELSE UNCHANGED operation /\ Leave(p)
  /\ UNCHANGED <<cap, completion, bundle, turnVars, kind, bytes, due, syncVars>>

RecordDecision(p) ==
  /\ At(p, "cas")
  /\ CasReplace(T(p), job[p].seen, job[p].target)
  /\ IF job[p].role = "main" THEN Goto(p, "release") /\ Keep(p) ELSE Leave(p)
  /\ UNCHANGED <<cap, outboxVars, turnVars, kind, bytes, due, syncVars>>

\* provider_completion_cas_conflict.
LoseCas(p) ==
  /\ \/ pc[p] \in {"cas", "confirm"}
     \/ At(p, "record") /\ job[p].seen.state = "retained_unparsed"
  /\ CasConflict(T(p), job[p].seen)
  /\ Leave(p)
  /\ UNCHANGED <<cap, completion, outboxVars, turnVars, kind, bytes, due, syncVars>>

\* The outbox's own retry of a failed preparation, after the release.
RetryPreparation(t) ==
  /\ kind[t] \in {"delta", "over_limit"}
  /\ operation[t].visible = "visible_released" /\ operation[t].failed
  /\ Consume(t)
  /\ InsertBundle(t, operation[t])
  /\ UNCHANGED <<completion, operation, turnVars, kind, bytes, due, pc, job, syncVars>>

(***************************************************************************)
(* release_visible.                                                        *)
(***************************************************************************)
StartRelease(p, t, at) ==
  /\ At(p, "idle")
  /\ ReleaseAuthorized(t)
  /\ Goto(p, "release")
  /\ job' = [job EXCEPT ![p] = [NoJob EXCEPT !.turn = t, !.role = "release", !.at = at]]
  /\ UNCHANGED <<cap, completion, outboxVars, turnVars, kind, bytes, due, syncVars>>

ReleaseOperation(p) ==
  /\ At(p, "release")
  /\ ReleaseAuthorized(T(p))
  /\ RecordVisibleRelease(T(p), job[p].at)
  /\ Goto(p, "reconcile")
  /\ job' = [job EXCEPT ![p].seen = completion[T(p)]]
  /\ UNCHANGED <<cap, completion, bundle, turnVars, kind, bytes, due, syncVars>>

\* Forbidden by the operation, or released under another time.
ReleaseRefused(p) ==
  /\ At(p, "release")
  /\ completion[T(p)].state # "visible_released"
  /\ ~(ReleaseAuthorized(T(p)) /\ ReleaseAccepted(T(p), job[p].at))
  /\ Leave(p)
  /\ UNCHANGED <<cap, completion, outboxVars, turnVars, kind, bytes, due, syncVars>>

AlreadyReleased(p) ==
  /\ At(p, "release")
  /\ completion[T(p)].state = "visible_released"
  /\ IF job[p].role = "main" THEN Goto(p, "turn") /\ Keep(p) ELSE Leave(p)
  /\ UNCHANGED <<cap, completion, outboxVars, turnVars, kind, bytes, due, syncVars>>

Reconcile(p) ==
  /\ At(p, "reconcile")
  /\ ReconcileVisibleRelease(T(p))
  /\ Goto(p, "confirm")
  /\ Keep(p)
  /\ UNCHANGED <<cap, completion, operation, turnVars, kind, bytes, due, syncVars>>

ConfirmRelease(p) ==
  /\ At(p, "confirm")
  /\ CasReplace(T(p), job[p].seen, "visible_released")
  /\ IF job[p].role = "main" THEN Goto(p, "turn") /\ Keep(p) ELSE Leave(p)
  /\ UNCHANGED <<cap, outboxVars, turnVars, kind, bytes, due, syncVars>>

\* The completion_state written to the turn's receipt.
TurnOutcome(target, effect) ==
  IF target = "prepared" THEN "visible_released_waiting_unit"
  ELSE CASE effect = "explicit_no_delta_consumed" -> "explicit_solen_no_semantic_delta"
         [] effect = "pending_gate5_durable_preparation" -> "accepted"
         [] effect = "none" -> "unsupplied"
         [] OTHER -> "refused"

FinishTurn(p) ==
  /\ At(p, "turn")
  /\ turn' = [turn EXCEPT ![T(p)].state = TurnOutcome(job[p].target, job[p].effect),
                          ![T(p)].bundle = job[p].target = "prepared"]
  /\ Leave(p)
  /\ UNCHANGED <<cap, completion, outboxVars, latch, kind, bytes, due, syncVars>>

(***************************************************************************)
(* bind_android_session_sync.                                              *)
(***************************************************************************)
SyncGoto(s, l) == syncPc' = [syncPc EXCEPT ![s] = l] /\ UNCHANGED sync
SyncLeave(s) ==
  /\ syncPc' = [syncPc EXCEPT ![s] = "idle"]
  /\ sync' = [sync EXCEPT ![s] = NoSync]

SyncStart(s, t, u) ==
  /\ syncPc[s] = "idle"
  /\ turn[t].state = "visible_released_waiting_unit"
  /\ syncPc' = [syncPc EXCEPT ![s] = "finalize"]
  /\ sync' = [sync EXCEPT ![s] = [turn |-> t, unit |-> u]]
  /\ UNCHANGED <<cap, completion, outboxVars, turnVars, kind, bytes, due, pc, job>>

SyncFinalize(s) ==
  /\ syncPc[s] = "finalize"
  /\ FinalizeExpectation(sync[s].turn, sync[s].unit)
  /\ SyncGoto(s, "publish")
  /\ UNCHANGED <<cap, completion, bundle, turnVars, kind, bytes, due, pc, job>>

SyncPublish(s) ==
  /\ syncPc[s] = "publish"
  /\ PublishCompleteUnit(sync[s].turn, sync[s].unit)
  /\ SyncGoto(s, "bind")
  /\ UNCHANGED <<cap, completion, bundle, turnVars, kind, bytes, due, pc, job>>

SyncBind(s) ==
  /\ syncPc[s] = "bind"
  /\ BindCompleteUnit(sync[s].turn)
  /\ SyncGoto(s, "turn")
  /\ UNCHANGED <<cap, completion, operation, turnVars, kind, bytes, due, pc, job>>

SyncTurn(s) ==
  /\ syncPc[s] = "turn"
  /\ turn' = [turn EXCEPT ![sync[s].turn].state = "ready_to_apply_shadow_only",
                          ![sync[s].turn].unit = sync[s].unit]
  /\ SyncLeave(s)
  /\ UNCHANGED <<cap, completion, outboxVars, latch, kind, bytes, due, pc, job>>

\* Another unit was finalized or published first.
SyncRefused(s) ==
  /\ \/ syncPc[s] = "finalize" /\ ~ExpectationAccepted(sync[s].turn, sync[s].unit)
     \/ syncPc[s] = "publish" /\ ~UnitAccepted(sync[s].turn, sync[s].unit)
  /\ SyncLeave(s)
  /\ UNCHANGED <<cap, completion, outboxVars, turnVars, kind, bytes, due, pc, job>>

(***************************************************************************)
(* Faults.                                                                 *)
(***************************************************************************)
Crash(p) ==
  /\ pc[p] # "idle"
  /\ Leave(p)
  /\ UNCHANGED <<cap, completion, outboxVars, turnVars, kind, bytes, due, syncVars>>

SyncCrash(s) ==
  /\ syncPc[s] # "idle"
  /\ SyncLeave(s)
  /\ UNCHANGED <<cap, completion, outboxVars, turnVars, kind, bytes, due, pc, job>>

Cancel(t) ==
  /\ CancelBeforeVisible(t)
  /\ UNCHANGED <<cap, completion, turnVars, kind, bytes, due, pc, job, syncVars>>

\* What a running handler does next.
Progress(p) ==
  \/ IssueCapability(p) \/ IssueFails(p) \/ FailTurn(p)
  \/ \E state \in {"activation_failed", "provider_failed"} : GiveUp(p, state)
  \/ RetainCompletion(p) \/ RetainFails(p)
  \/ Parse(p) \/ RejectRead(p) \/ RejectWrite(p) \/ GateLimit(p)
  \/ RecordOperation(p) \/ StartMain(p) \/ RecordParse(p) \/ Reread(p) \/ Decide(p)
  \/ PrepareRead(p) \/ PrepareCommit(p) \/ PrepareConverges(p) \/ PrepareFails(p)
  \/ RecordDecision(p) \/ LoseCas(p)
  \/ ReleaseOperation(p) \/ ReleaseRefused(p) \/ AlreadyReleased(p)
  \/ Reconcile(p) \/ ConfirmRelease(p) \/ FinishTurn(p)

SyncProgress(s) ==
  \/ SyncFinalize(s) \/ SyncPublish(s) \/ SyncBind(s) \/ SyncTurn(s) \/ SyncRefused(s)

\* What these processors, syncs, units and release times can do for these turns.
Work(turns, processors, syncs, units, times) ==
  \/ ArmLatch
  \/ \E p \in processors :
       \/ Progress(p)
       \/ \E t \in turns : Reserve(p, t) \/ StartReplay(p, t)
       \/ \E t \in turns, at \in times : StartRelease(p, t, at)
  \/ \E s \in syncs :
       \/ SyncProgress(s)
       \/ \E t \in turns, u \in units : SyncStart(s, t, u)
  \/ \E t \in turns : Lapse(t) \/ RetryPreparation(t)

Fault ==
  \/ \E p \in Processors : Crash(p)
  \/ \E s \in Syncs : SyncCrash(s)
  \/ \E t \in Turns : Cancel(t)

Next == Work(Turns, Processors, Syncs, Units, ReleaseTimes) \/ Fault

Spec == Init /\ [][Next]_vars

\* A handler that is running keeps running until it returns or raises: nothing in
\* process_provider_response waits for another handler, and the provider call
\* ends in an answer or an error.
Fairness == \A p \in Processors : WF_vars(Progress(p))

FairSpec == Spec /\ Fairness

(***************************************************************************)
(* Properties.                                                             *)
(***************************************************************************)

\* A response becomes visible only after its fate is on record: whoever finds
\* an operation released finds a decided completion, and if nothing was decided
\* about the capability, a recorded preparation failure or a misbound intent
\* explains it (release_visible's guard across three stores).
ReleaseAfterDecision ==
  \A t \in Turns : operation[t].visible = "visible_released" =>
    /\ Decided(t)
    /\ \/ ~Issued(t)
       \/ operation[t].failed
       \/ kind[t] = "misbound"

\* A bundle exists exactly for a capability that its response consumed, and is
\* ready to apply only for a visible response and for the one unit that the sync
\* finalized, published and bound; the turn's receipt never names another unit
\* (prepare, bind_complete_unit, bind_android_session_sync).  So the doctors of
\* the registry and of the outbox, which look for the link from either side,
\* accept the stores between any two transactions.
ReadyIsGrounded ==
  \A t \in Turns :
    /\ RegistryHolds(t, Prepared(t))
    /\ Prepared(t) => cap[t].state = "prepared_consumed"
    /\ bundle[t].state = "ready_to_apply" =>
         /\ operation[t].visible = "visible_released"
         /\ bundle[t].unit \in Units
         /\ bundle[t].unit = operation[t].unit
         /\ operation[t].unit = operation[t].expected
    /\ turn[t].state = "ready_to_apply_shadow_only" =>
         /\ bundle[t].state = "ready_to_apply"
         /\ turn[t].unit = bundle[t].unit

\* The latch opens for a new turn only when every earlier one is settled: a
\* failed, refused or interrupted turn keeps it closed for good (arm), and the
\* latch itself passes the control store's own check.
LatchGuardsUnsettledTurns ==
  /\ LatchHolds
  /\ \A t \in Turns :
       turn[t].state \notin Settled \cup {"absent"} =>
         latch = [state |-> "consumed", turn |-> t]

\* "A restart must reclassify that exact response instead of converting it into
\* generic replay rejection" (is_explicit_no_delta_replay): once a capability
\* was consumed by an explicit no-delta answer, its completion is never recorded
\* as rejected.
NoDeltaSurvivesRestart ==
  \A t \in Turns :
    kind[t] = "no_delta" /\ cap[t].state = "rejected_consumed" =>
      completion[t].state # "rejected"

\* After the release nothing more is authored, unless the preparation had failed
\* and the failure was recorded before (prepare's recovery precondition).
NoAuthorshipAfterRelease ==
  [][\A t \in Turns :
       operation[t].visible = "visible_released" /\ ~operation[t].failed =>
         Prepared(t)' = Prepared(t)]_vars

=============================================================================
