------------------------ MODULE ProtectedTurnProofs ------------------------
(***************************************************************************)
(* For every number of turns, units, processors and syncs: types, and the  *)
(* four safety properties of a protected turn.  The invariant has three    *)
(* parts: what is on record of a turn in the four stores, what a handler   *)
(* may rely on at each of its steps, and what a sync may rely on.  Other   *)
(* handlers disturb none of it because every recorded fact is permanent    *)
(* (Permanent), which is proved first.                                     *)
(***************************************************************************)
EXTENDS ProtectedTurn, TLAPS

\* Handler p runs.
Live(p) == pc[p] # "idle"

\* Only the handler that reserved the turn passes here.
MainPCs == {"issue", "provider", "fail", "limit", "operation", "start", "turn"}

\* Why a response may be shown: its capability is spent, or its preparation
\* failed and that is on record, or it was bound to another protocol.
Explained(t) == ~Issued(t) \/ operation[t].failed \/ kind[t] = "misbound"

\* The receipt says that the turn waits for its unit, or has it.
Waiting == {"visible_released_waiting_unit", "ready_to_apply_shadow_only"}

\* A handler works on a turn of its own: while the handler that reserved the
\* turn runs, the receipt says so and no other handler does the same.
Owners ==
  /\ \A p \in Processors :
       /\ Live(p) => T(p) \in Turns
       /\ pc[p] \in MainPCs => job[p].role = "main"
       /\ Live(p) /\ job[p].role = "main" => turn[T(p)].state = "reserved"
  /\ \A p, q \in Processors :
       /\ Live(p) /\ job[p].role = "main"
       /\ Live(q) /\ job[q].role = "main"
       /\ T(p) = T(q)
       => p = q

\* What the stores hold of one turn.
RecordsOf(t) ==
  /\ completion[t] # NoRecord => cap[t].state # "none"
  /\ cap[t].code # "none" => cap[t].state # "none"
  /\ Prepared(t) <=> cap[t].state = "prepared_consumed"
  /\ Decided(t) => Explained(t)
  /\ operation[t].visible = "visible_released" => Decided(t)
  /\ operation[t].unit # None => operation[t].unit = operation[t].expected
  /\ bundle[t].state \in {"visible_released_waiting_unit", "ready_to_apply"} =>
       operation[t].visible = "visible_released"
  /\ bundle[t].state = "ready_to_apply" =>
       bundle[t].unit \in Units /\ bundle[t].unit = operation[t].unit
  /\ turn[t].state = "ready_to_apply_shadow_only" =>
       bundle[t].state = "ready_to_apply" /\ turn[t].unit = bundle[t].unit

\* What handler p has made sure of when it reaches its next step.
HandlerOf(p) ==
  /\ pc[p] = "provider" => cap[T(p)].state # "none"
  /\ pc[p] = "fail" => job[p].target \in {"activation_failed", "provider_failed"}
  /\ pc[p] \notin {"idle", "issue", "provider", "fail"} => completion[T(p)] # NoRecord
  /\ Live(p) /\ job[p].effect = "pending_gate5_durable_preparation" =>
       kind[T(p)] \in {"delta", "over_limit"}
  /\ pc[p] = "write" /\ ~job[p].issued => ~Issued(T(p))
  /\ /\ pc[p] \in {"limit", "operation", "start", "record", "reread", "decide"}
     /\ job[p].effect \notin {"none", "pending_gate5_durable_preparation"}
     => Explained(T(p))
  /\ pc[p] \in {"prepare", "commit"} => job[p].effect = "pending_gate5_durable_preparation"
  /\ pc[p] = "commit" /\ job[p].op.visible = "visible_released" =>
       operation[T(p)].visible = "visible_released"
  /\ pc[p] = "cas" => job[p].target \in Decisions /\ Explained(T(p))
  /\ pc[p] \in {"reconcile", "confirm"} => operation[T(p)].visible = "visible_released"

\* The same for a sync.
SyncOf(s) ==
  syncPc[s] # "idle" =>
    LET t == sync[s].turn
        u == sync[s].unit IN
    /\ t \in Turns /\ u \in Units
    /\ turn[t].state \in Waiting
    /\ syncPc[s] \in {"publish", "bind", "turn"} => operation[t].expected = u
    /\ syncPc[s] \in {"bind", "turn"} => operation[t].unit = u
    /\ syncPc[s] = "turn" => bundle[t].state = "ready_to_apply"

StoresSound == \A t \in Turns : RecordsOf(t)
Handlers == \A p \in Processors : HandlerOf(p)
SyncsSound == \A s \in Syncs : SyncOf(s)

IInv ==
  /\ TypeOK
  /\ LatchGuardsUnsettledTurns
  /\ Owners /\ StoresSound /\ Handlers /\ SyncsSound

\* The record sets of the stores.
Caps == [state : CapStates, code : Codes]
Operations == [visible : VisibleStates, failed : BOOLEAN, at : ReleaseTimes \cup {None},
               expected : Units \cup {None}, unit : Units \cup {None}]
Bundles == [state : BundleStates, unit : Units \cup {None}]

\* Handler variables k come from j by an edit that is not of turn or role.
SameOwner(j, k) == k \in Jobs /\ k.turn = j.turn /\ k.role = j.role

\* Setting one local variable of a handler to a value of its type gives handler
\* variables again, of the same turn and role.
LEMMA JobEdits ==
  ASSUME NEW j \in Jobs
  PROVE  /\ \A x \in BOOLEAN : SameOwner(j, [j EXCEPT !.late = x])
         /\ \A x \in Effects : SameOwner(j, [j EXCEPT !.effect = x])
         /\ \A x \in Effects, c \in Codes : SameOwner(j, [j EXCEPT !.effect = x, !.code = c])
         /\ \A x \in BOOLEAN : SameOwner(j, [j EXCEPT !.issued = x])
         /\ \A x \in Records : SameOwner(j, [j EXCEPT !.seen = x])
         /\ \A x \in CompletionStates \cup TurnStates : SameOwner(j, [j EXCEPT !.target = x])
         /\ \A x \in Operations : SameOwner(j, [j EXCEPT !.op = x])
<1>1. /\ \A x \in BOOLEAN : SameOwner(j, [j EXCEPT !.late = x])
      /\ \A x \in BOOLEAN : SameOwner(j, [j EXCEPT !.issued = x])
  BY DEF Jobs, SameOwner
<1>2. \A x \in Effects : SameOwner(j, [j EXCEPT !.effect = x])
  BY DEF Jobs, SameOwner
<1>3. \A x \in Effects, c \in Codes : SameOwner(j, [j EXCEPT !.effect = x, !.code = c])
  BY DEF Jobs, SameOwner
<1>4. \A x \in Records : SameOwner(j, [j EXCEPT !.seen = x])
  BY DEF Jobs, SameOwner
<1>5. \A x \in CompletionStates \cup TurnStates : SameOwner(j, [j EXCEPT !.target = x])
  BY DEF Jobs, SameOwner
<1>6. \A x \in Operations : SameOwner(j, [j EXCEPT !.op = x])
  BY DEF Jobs, SameOwner, Operations
<1> QED BY <1>1, <1>2, <1>3, <1>4, <1>5, <1>6

\* The local variables a handler begins with are well formed.
LEMMA NewJobs ==
  /\ NoJob \in Jobs
  /\ \A t \in Turns : [NoJob EXCEPT !.turn = t] \in Jobs
  /\ \A t \in Turns, x \in BOOLEAN, r \in Records :
       [NoJob EXCEPT !.turn = t, !.role = "replay", !.late = x, !.seen = r] \in Jobs
  /\ \A t \in Turns, x \in ReleaseTimes :
       [NoJob EXCEPT !.turn = t, !.role = "release", !.at = x] \in Jobs
<1> USE IdentityAssumption
        DEF NoJob, Jobs, Effects, Codes, Records, NoRecord, CompletionStates, Decisions
<1>1. NoJob \in Jobs
  OBVIOUS
<1>2. \A t \in Turns : [NoJob EXCEPT !.turn = t] \in Jobs
  OBVIOUS
<1>3. \A t \in Turns, x \in BOOLEAN, r \in Records :
        [NoJob EXCEPT !.turn = t, !.role = "replay", !.late = x, !.seen = r] \in Jobs
  OBVIOUS
<1>4. \A t \in Turns, x \in ReleaseTimes :
        [NoJob EXCEPT !.turn = t, !.role = "release", !.at = x] \in Jobs
  OBVIOUS
<1> QED BY <1>1, <1>2, <1>3, <1>4

(***************************************************************************)
(* What a step may write: in each store at most the record of one turn,    *)
(* and that through an operation of the store.                             *)
(***************************************************************************)
CapWrite(t) ==
  \/ Issue(t) \/ Invalidate(t) \/ CloseUnused(t) \/ Expire(t) \/ Consume(t)
  \/ \E code \in Codes : RecordFailure(t, code)
  \/ \E issued \in BOOLEAN, code \in Codes : RejectConsumed(t, issued, code)

CompletionWrite(t) ==
  \/ RecordCompletion(t)
  \/ \E seen \in Records, state \in CompletionStates :
       /\ CasReplace(t, seen, state)
       /\ \/ seen.state = "retained_unparsed" /\ state = "parsed_pending_preparation"
          \/ state \in Decisions \cup {"visible_released"}

OperationWrite(t) ==
  \/ RecordProviderOperation(t) \/ RecordPreparationFailure(t)
  \/ \E at \in ReleaseTimes : RecordVisibleRelease(t, at)
  \/ CancelBeforeVisible(t)
  \/ \E u \in Units : FinalizeExpectation(t, u) \/ PublishCompleteUnit(t, u)

BundleWrite(t) ==
  \/ \E op : InsertBundle(t, op)
  \/ ReconcileVisibleRelease(t) \/ CancelBeforeVisible(t) \/ BindCompleteUnit(t)

Writes ==
  /\ UNCHANGED cap \/ \E t \in Turns : CapWrite(t)
  /\ UNCHANGED completion \/ \E t \in Turns : CompletionWrite(t)
  /\ UNCHANGED operation \/ \E t \in Turns : OperationWrite(t)
  /\ UNCHANGED bundle \/ \E t \in Turns : BundleWrite(t)
  /\ UNCHANGED <<kind, bytes>>

\* Only a handler that runs makes progress.
LEMMA OnlyRunning ==
  ASSUME NEW p \in Processors, Progress(p)
  PROVE  Live(p)
BY DEF Live, Progress, IssueCapability, IssueFails, FailTurn, GiveUp,
   RetainCompletion, RetainFails, Parse, RejectRead, RejectWrite, GateLimit,
   RecordOperation, StartMain,
   RecordParse, Reread, Decide, PrepareRead, PrepareCommit, PrepareConverges,
   PrepareFails, RecordDecision, LoseCas, ReleaseOperation, ReleaseRefused,
   AlreadyReleased, Reconcile, ConfirmRelease, FinishTurn, At

\* Every action of a handler writes that way.
LEMMA HandlerWrites ==
  ASSUME TypeOK, Owners, Handlers, NEW p \in Processors, Progress(p)
  PROVE  Writes
<1> USE DEF outboxVars, turnVars, syncVars, Keep
<1>a. Live(p) => T(p) \in Turns
  BY DEF Owners
<1>b. job[p] \in Jobs /\ completion \in [Turns -> Records]
  BY DEF TypeOK, CompletionTypeOK
<1>1. CASE IssueCapability(p)
  BY <1>1, <1>a DEF IssueCapability, At, Live, Writes, CapWrite
<1>2. CASE \E state \in {"activation_failed", "provider_failed"} : GiveUp(p, state)
  BY <1>2, <1>a DEF GiveUp, At, Live, Writes, CapWrite
<1>3. CASE RetainCompletion(p)
  BY <1>3, <1>a DEF RetainCompletion, At, Live, Writes, CompletionWrite
<1>4. CASE Parse(p)
  <2>1. T(p) \in Turns
    BY <1>4, <1>a DEF Parse, At, Live
  <2>2. UNCHANGED cap \/ CapWrite(T(p))
    BY <1>4 DEF Parse, ParseNoCarrier, StructuredReject, ParseStructural, ParseExpired,
         ParseReplayed, ParseInvalid, ParseMisbound, StructuredMisbound, ParseNoDelta,
         ParseAccepted, ToReject, CapWrite, Codes
  <2>3. UNCHANGED <<completion, operation, bundle, kind, bytes>>
    BY <1>4 DEF Parse
  <2> QED BY <2>1, <2>2, <2>3 DEF Writes
<1>5. CASE RejectWrite(p)
  <2>1. T(p) \in Turns
    BY <1>5, <1>a DEF RejectWrite, At, Live
  <2>2. CapWrite(T(p))
    BY <1>5, <1>b DEF RejectWrite, CapWrite, Jobs
  <2> QED BY <1>5, <2>1, <2>2 DEF RejectWrite, Writes
<1>6. CASE RecordOperation(p)
  BY <1>6, <1>a DEF RecordOperation, At, Live, Writes, OperationWrite
<1>7. CASE RecordParse(p)
  <2>1. T(p) \in Turns /\ job[p].seen \in Records
    BY <1>7, <1>a, <1>b DEF RecordParse, At, Live, Jobs
  <2>2. UNCHANGED completion \/ CompletionWrite(T(p))
    BY <1>7, <2>1 DEF RecordParse, CompletionWrite, CompletionStates
  <2> QED BY <1>7, <2>1, <2>2 DEF RecordParse, Writes
<1>8. CASE Decide(p)
  BY <1>8, <1>a DEF Decide, At, Live, Writes, CapWrite
<1>9. CASE PrepareCommit(p)
  BY <1>9, <1>a DEF PrepareCommit, At, Live, Writes, CapWrite, BundleWrite
<1>10. CASE PrepareFails(p)
  BY <1>10, <1>a DEF PrepareFails, Leave, Live, Writes, OperationWrite
<1>11. CASE RecordDecision(p)
  <2>1. T(p) \in Turns /\ job[p].seen \in Records /\ job[p].target \in Decisions
    BY <1>11, <1>a, <1>b DEF RecordDecision, At, Live, Jobs, Handlers, HandlerOf
  <2>2. CompletionWrite(T(p))
    BY <1>11, <2>1 DEF RecordDecision, CompletionWrite, CompletionStates
  <2> QED BY <1>11, <2>1, <2>2 DEF RecordDecision, Writes
<1>12. CASE ReleaseOperation(p)
  <2>1. T(p) \in Turns /\ job[p].at \in ReleaseTimes
    BY <1>12, <1>a, <1>b DEF ReleaseOperation, At, Live, Jobs
  <2>2. OperationWrite(T(p))
    BY <1>12, <2>1 DEF ReleaseOperation, OperationWrite
  <2> QED BY <1>12, <2>1, <2>2 DEF ReleaseOperation, Writes
<1>13. CASE Reconcile(p)
  BY <1>13, <1>a DEF Reconcile, At, Live, Writes, BundleWrite
<1>14. CASE ConfirmRelease(p)
  <2>1. T(p) \in Turns /\ job[p].seen \in Records
    BY <1>14, <1>a, <1>b DEF ConfirmRelease, At, Live, Jobs
  <2>2. CompletionWrite(T(p))
    BY <1>14, <2>1 DEF ConfirmRelease, CompletionWrite, CompletionStates
  <2> QED BY <1>14, <2>1, <2>2 DEF ConfirmRelease, Writes
<1>15. CASE \/ IssueFails(p) \/ FailTurn(p) \/ RejectRead(p) \/ GateLimit(p) \/ StartMain(p)
            \/ Reread(p) \/ PrepareRead(p) \/ PrepareConverges(p) \/ LoseCas(p)
            \/ ReleaseRefused(p) \/ AlreadyReleased(p) \/ FinishTurn(p) \/ RetainFails(p)
  BY <1>15 DEF IssueFails, RetainFails, FailTurn, RejectRead, GateLimit, ToReject, StartMain,
       Reread,
       PrepareRead, PrepareConverges, LoseCas, ReleaseRefused, AlreadyReleased, FinishTurn,
       Writes
<1> QED BY <1>1, <1>2, <1>3, <1>4, <1>5, <1>6, <1>7, <1>8, <1>9, <1>10, <1>11, <1>12,
          <1>13, <1>14, <1>15 DEF Progress

\* And so does every other step.
LEMMA StepWrites ==
  ASSUME TypeOK, Owners, Handlers, SyncsSound, [Next]_vars
  PROVE  Writes
<1> USE DEF outboxVars, turnVars, syncVars
<1>1. CASE UNCHANGED vars
  BY <1>1 DEF vars, Writes
<1>2. ASSUME NEW p \in Processors, Progress(p) PROVE Writes
  BY <1>2, HandlerWrites
<1>3. CASE \/ ArmLatch
           \/ \E p \in Processors : Crash(p)
           \/ \E s \in Syncs : SyncCrash(s)
           \/ \E p \in Processors, t \in Turns : Reserve(p, t) \/ StartReplay(p, t)
           \/ \E p \in Processors, t \in Turns, at \in ReleaseTimes : StartRelease(p, t, at)
           \/ \E s \in Syncs, t \in Turns, u \in Units : SyncStart(s, t, u)
           \/ \E t \in Turns : Lapse(t)
  BY <1>3 DEF ArmLatch, Crash, SyncCrash, Reserve, StartReplay, StartRelease, SyncStart,
       Lapse, Writes
<1>4. ASSUME NEW t \in Turns, RetryPreparation(t) \/ Cancel(t) PROVE Writes
  BY <1>4 DEF RetryPreparation, Cancel, Writes, CapWrite, OperationWrite, BundleWrite
<1>5. ASSUME NEW s \in Syncs, SyncProgress(s) PROVE Writes
  <2>1. syncPc[s] # "idle" => sync[s].turn \in Turns /\ sync[s].unit \in Units
    BY DEF SyncsSound, SyncOf
  <2>2. CASE SyncFinalize(s) \/ SyncPublish(s)
    BY <2>1, <2>2 DEF SyncFinalize, SyncPublish, Writes, OperationWrite
  <2>3. CASE SyncBind(s)
    BY <2>1, <2>3 DEF SyncBind, Writes, BundleWrite
  <2>4. CASE SyncTurn(s) \/ SyncRefused(s)
    BY <2>4 DEF SyncTurn, SyncRefused, Writes
  <2> QED BY <1>5, <2>2, <2>3, <2>4 DEF SyncProgress
<1> QED BY <1>1, <1>2, <1>3, <1>4, <1>5 DEF Next, Work, Fault

\* A capability that exists stays, and once spent it stays spent.
CapKept(t) ==
  cap[t].state # "none" => cap'[t].state # "none" /\ (~Issued(t) => ~Issued(t)')

\* A write of the registry never unspends a capability.
LEMMA CapKeeps ==
  ASSUME cap \in [Turns -> Caps], NEW x \in Turns, CapWrite(x)
  PROVE  cap' \in [Turns -> Caps] /\ \A t \in Turns : CapKept(t)
<1> USE DEF Caps, CapStates, Codes, Issued, CapKept
<1>1. CASE Issue(x) \/ Invalidate(x)
  BY <1>1 DEF Issue, Invalidate
<1>2. CASE CloseUnused(x)
  BY <1>2 DEF CloseUnused
<1>3. CASE Expire(x) \/ Consume(x)
  BY <1>3 DEF Expire, Consume
<1>4. ASSUME NEW code \in Codes, RecordFailure(x, code)
      PROVE  cap' \in [Turns -> Caps] /\ \A t \in Turns : CapKept(t)
  BY <1>4 DEF RecordFailure
<1>5. ASSUME NEW issued \in BOOLEAN, NEW code \in Codes, RejectConsumed(x, issued, code)
      PROVE  cap' \in [Turns -> Caps] /\ \A t \in Turns : CapKept(t)
  BY <1>5 DEF RejectConsumed
<1> QED BY <1>1, <1>2, <1>3, <1>4, <1>5 DEF CapWrite

\* A completion stays, and once decided it stays decided.
CompletionKept(t) ==
  /\ completion[t] # NoRecord => completion'[t] # NoRecord
  /\ Decided(t) => Decided(t)'

\* A write of the completion store never undoes a decision.
LEMMA CompletionKeeps ==
  ASSUME completion \in [Turns -> Records], NEW x \in Turns, CompletionWrite(x)
  PROVE  completion' \in [Turns -> Records] /\ \A t \in Turns : CompletionKept(t)
BY DEF CompletionKept, CompletionWrite, RecordCompletion, CasReplace, Records, NoRecord,
   CompletionStates,
   Decisions, Decided

\* A recorded failure, a release, an expectation and a unit stay.
OperationKept(t) ==
  /\ operation[t].failed => operation'[t].failed
  /\ operation[t].visible = "visible_released" => operation'[t].visible = "visible_released"
  /\ operation[t].expected # None => operation'[t].expected = operation[t].expected
  /\ operation[t].unit # None => operation'[t].unit = operation[t].unit

\* A write of the provider operation takes nothing back.
LEMMA OperationKeeps ==
  ASSUME operation \in [Turns -> Operations], NEW x \in Turns, OperationWrite(x)
  PROVE  operation' \in [Turns -> Operations] /\ \A t \in Turns : OperationKept(t)
<1> USE DEF Operations, VisibleStates, OperationKept
<1>1. CASE RecordProviderOperation(x)
  BY <1>1 DEF RecordProviderOperation
<1>2. CASE RecordPreparationFailure(x)
  BY <1>2 DEF RecordPreparationFailure
<1>3. ASSUME NEW at \in ReleaseTimes, RecordVisibleRelease(x, at)
      PROVE  operation' \in [Turns -> Operations] /\ \A t \in Turns : OperationKept(t)
  <2>1. operation' = [operation EXCEPT ![x] =
                        [operation[x] EXCEPT !.visible = "visible_released", !.at = at]]
    BY <1>3 DEF RecordVisibleRelease
  <2> QED BY <1>3, <2>1
<1>4. CASE CancelBeforeVisible(x)
  BY <1>4 DEF CancelBeforeVisible
<1>5. ASSUME NEW u \in Units, FinalizeExpectation(x, u)
      PROVE  operation' \in [Turns -> Operations] /\ \A t \in Turns : OperationKept(t)
  BY <1>5 DEF FinalizeExpectation, ExpectationAccepted
<1>6. ASSUME NEW u \in Units, PublishCompleteUnit(x, u)
      PROVE  operation' \in [Turns -> Operations] /\ \A t \in Turns : OperationKept(t)
  BY <1>6 DEF PublishCompleteUnit, UnitAccepted
<1> QED BY <1>1, <1>2, <1>3, <1>4, <1>5, <1>6 DEF OperationWrite

\* A bundle stays, and one that is ready does not change.
BundleKept(t) ==
  /\ Prepared(t) => Prepared(t)'
  /\ bundle[t].state = "ready_to_apply" => bundle'[t] = bundle[t]

\* A write of the outbox withdraws no bundle and changes no ready one.
LEMMA BundleKeeps ==
  ASSUME bundle \in [Turns -> Bundles], operation \in [Turns -> Operations],
         NEW x \in Turns, BundleWrite(x)
  PROVE  bundle' \in [Turns -> Bundles] /\ \A t \in Turns : BundleKept(t)
<1> USE DEF Bundles, BundleStates, BundleKept, Prepared
<1>1. CASE \E op : InsertBundle(x, op)
  BY <1>1 DEF InsertBundle, InitialBundle
<1>2. CASE ReconcileVisibleRelease(x) \/ CancelBeforeVisible(x)
  BY <1>2 DEF ReconcileVisibleRelease, CancelBeforeVisible
<1>3. CASE BindCompleteUnit(x)
  <2>1. operation[x].unit \in Units \cup {None}
    BY DEF Operations
  <2> QED BY <1>3, <2>1 DEF BindCompleteUnit, Bindable
<1> QED BY <1>1, <1>2, <1>3 DEF BundleWrite

\* What is on record stays on record, whoever writes: this is what lets a handler
\* act on what it read before other handlers ran.
Permanent(t) ==
  /\ CapKept(t) /\ CompletionKept(t) /\ OperationKept(t) /\ BundleKept(t)
  /\ kind'[t] = kind[t]
  /\ cap[t].state # "none" /\ Explained(t) => Explained(t)'

\* The types of the stores, with their record sets named.
StoreTypes ==
  /\ cap \in [Turns -> Caps]
  /\ completion \in [Turns -> Records]
  /\ operation \in [Turns -> Operations]
  /\ bundle \in [Turns -> Bundles]
  /\ kind \in [Turns -> Kinds]
  /\ bytes \in [Turns -> Bytes]

\* Writes of that kind keep the types of the stores and take no fact back.
LEMMA WritesKeep ==
  ASSUME StoreTypes, Writes
  PROVE  StoreTypes' /\ \A t \in Turns : Permanent(t)
<1>1. cap' \in [Turns -> Caps] /\ \A t \in Turns : CapKept(t)
  BY CapKeeps DEF StoreTypes, Writes, CapKept, Issued
<1>2. completion' \in [Turns -> Records] /\ \A t \in Turns : CompletionKept(t)
  BY CompletionKeeps DEF StoreTypes, Writes, CompletionKept, Decided
<1>3. operation' \in [Turns -> Operations] /\ \A t \in Turns : OperationKept(t)
  BY OperationKeeps DEF StoreTypes, Writes, OperationKept
<1>4. bundle' \in [Turns -> Bundles] /\ \A t \in Turns : BundleKept(t)
  BY BundleKeeps DEF StoreTypes, Writes, BundleKept, Prepared
<1>5. kind' = kind /\ bytes' = bytes
  BY DEF Writes
<1>6. ASSUME NEW t \in Turns, cap[t].state # "none", Explained(t) PROVE Explained(t)'
  BY <1>1, <1>3, <1>5, <1>6 DEF Explained, CapKept, OperationKept
<1> QED BY <1>1, <1>2, <1>3, <1>4, <1>5, <1>6 DEF StoreTypes, Permanent

(***************************************************************************)
(* What a step does to the handlers' local variables.                      *)
(***************************************************************************)
LocalTypes == pc \in [Processors -> PCs] /\ job \in [Processors -> Jobs]

\* Handler p moves on, and its turn and role stay; or it leaves.
Moves(p) ==
  /\ LocalTypes'
  /\ \A q \in Processors \ {p} : pc'[q] = pc[q] /\ job'[q] = job[q]
  /\ Live(p)
  /\ \/ pc'[p] = "idle" /\ job'[p] = NoJob
     \/ /\ job'[p].turn = T(p) /\ job'[p].role = job[p].role
        /\ pc'[p] \in MainPCs => job[p].role = "main"

\* Which steps are whose, name by name: the provers are quicker with these facts
\* than with the two sets.
LEMMA StepNames ==
  /\ "issue" \in PCs /\ "issue" \in MainPCs
  /\ "provider" \in PCs /\ "provider" \in MainPCs
  /\ "fail" \in PCs /\ "fail" \in MainPCs
  /\ "limit" \in PCs /\ "limit" \in MainPCs
  /\ "operation" \in PCs /\ "operation" \in MainPCs
  /\ "start" \in PCs /\ "start" \in MainPCs
  /\ "turn" \in PCs /\ "turn" \in MainPCs
  /\ "parse" \in PCs /\ "parse" \notin MainPCs
  /\ "reject" \in PCs /\ "reject" \notin MainPCs
  /\ "write" \in PCs /\ "write" \notin MainPCs
  /\ "record" \in PCs /\ "record" \notin MainPCs
  /\ "reread" \in PCs /\ "reread" \notin MainPCs
  /\ "decide" \in PCs /\ "decide" \notin MainPCs
  /\ "prepare" \in PCs /\ "prepare" \notin MainPCs
  /\ "commit" \in PCs /\ "commit" \notin MainPCs
  /\ "cas" \in PCs /\ "cas" \notin MainPCs
  /\ "release" \in PCs /\ "release" \notin MainPCs
  /\ "reconcile" \in PCs /\ "reconcile" \notin MainPCs
  /\ "confirm" \in PCs /\ "confirm" \notin MainPCs
BY DEF PCs, MainPCs

\* A handler that returns or raises.
LEMMA LeaveMoves ==
  ASSUME LocalTypes, NEW p \in Processors, Leave(p), Live(p)
  PROVE  Moves(p) /\ pc'[p] = "idle"
BY NewJobs DEF LocalTypes, Leave, Moves, PCs, Live

\* A step that changes only where the handler is.
LEMMA GotoMoves ==
  ASSUME LocalTypes, NEW p \in Processors, Live(p), NEW l \in PCs, Goto(p, l), Keep(p),
         l \in MainPCs => job[p].role = "main"
  PROVE  Moves(p) /\ pc'[p] = l /\ job'[p] = job[p]
BY DEF LocalTypes, Goto, Keep, Moves, Live, T

\* A step that also changes local variables.
LEMMA EditMoves ==
  ASSUME LocalTypes, NEW p \in Processors, Live(p), NEW l \in PCs, Goto(p, l),
         NEW j, SameOwner(job[p], j), job' = [job EXCEPT ![p] = j],
         l \in MainPCs => job[p].role = "main"
  PROVE  Moves(p) /\ pc'[p] = l /\ job'[p] = j
BY DEF LocalTypes, Goto, Moves, Live, SameOwner, T

\* A handler that has left has nothing to rely on.
LEMMA IdleHandler ==
  ASSUME NEW p \in Processors, pc'[p] = "idle"
  PROVE  HandlerOf(p)'
BY DEF HandlerOf, Live

\* A rejection: the effect and the code are set, as one edit of the variables.
LEMMA RejectMoves ==
  ASSUME LocalTypes, NEW p \in Processors, Live(p), NEW code \in Codes, NEW effect \in Effects,
         ToReject(p, code, effect)
  PROVE  /\ Moves(p) /\ pc'[p] = "reject"
         /\ job'[p].turn = job[p].turn /\ job'[p].effect = effect
<1>a. job[p] \in Jobs
  BY DEF LocalTypes
<1>1. job' = [job EXCEPT ![p] = [job[p] EXCEPT !.effect = effect, !.code = code]]
  BY DEF LocalTypes, ToReject, Jobs
<1>2. SameOwner(job[p], [job[p] EXCEPT !.effect = effect, !.code = code])
  BY <1>a, JobEdits
<1>3. [job[p] EXCEPT !.effect = effect, !.code = code].effect = effect
  BY <1>a DEF Jobs
<1>4. PICK j : SameOwner(job[p], j) /\ job' = [job EXCEPT ![p] = j] /\ j.effect = effect
  BY <1>1, <1>2, <1>3
<1>5. Goto(p, "reject")
  BY DEF ToReject
<1>6. Moves(p) /\ pc'[p] = "reject" /\ job'[p] = j
  BY <1>4, <1>5, EditMoves, StepNames
<1> QED BY <1>4, <1>6 DEF SameOwner

\* The parse result goes to whoever called the parser.
LEMMA ParsedMoves ==
  ASSUME LocalTypes, NEW p \in Processors, Live(p), NEW effect \in Effects, Parsed(p, effect)
  PROVE  /\ Moves(p) /\ pc'[p] \in {"limit", "record"}
         /\ job'[p].turn = job[p].turn /\ job'[p].effect = effect
<1>a. job[p] \in Jobs
  BY DEF LocalTypes
<1>1. SameOwner(job[p], [job[p] EXCEPT !.effect = effect])
  BY <1>a, JobEdits
<1>2. [job[p] EXCEPT !.effect = effect].effect = effect
  BY <1>a DEF Jobs
<1>3. PICK j : SameOwner(job[p], j) /\ job' = [job EXCEPT ![p] = j] /\ j.effect = effect
  BY <1>1, <1>2 DEF Parsed
<1>4. \/ Goto(p, "limit") /\ job[p].role = "main"
      \/ Goto(p, "record")
  BY DEF Parsed, AfterParse
<1>5. Moves(p) /\ pc'[p] \in {"limit", "record"} /\ job'[p] = j
  BY <1>3, <1>4, EditMoves, StepNames
<1> QED BY <1>3, <1>5 DEF SameOwner

\* Parsing leads to a rejection, or on to where the parse result is used, with
\* an effect that says why the response may be shown.
LEMMA ParseSteps ==
  ASSUME TypeOK, Owners, StoresSound, NEW p \in Processors, HandlerOf(p),
         Parse(p), StoreTypes', NEW t \in Turns, t = T(p), Permanent(t)
  PROVE  Moves(p) /\ HandlerOf(p)'
<1>a. LocalTypes /\ StoreTypes /\ job[p] \in Jobs
  BY DEF TypeOK, LocalTypes, StoreTypes, CapTypeOK, CompletionTypeOK, PreparationTypeOK,
     Caps, Operations, Bundles
<1>b. /\ At(p, "parse") /\ Live(p) /\ t = T(p) /\ t = job[p].turn
      /\ cap[t].state # "none" /\ completion'[t] # NoRecord
  BY DEF Parse, At, Live, T, Owners, StoresSound, HandlerOf, RecordsOf, Permanent, CompletionKept
<1>c. CapKept(t) /\ kind'[t] = kind[t]
  BY DEF Permanent
<1>1. ASSUME NEW code \in Codes,
             NEW effect \in {"rejected_consumed", "binding_failure_recorded",
                             "explicit_no_delta_consumed"},
             ToReject(p, code, effect)
      PROVE  Moves(p) /\ HandlerOf(p)'
  <2>1. /\ Moves(p) /\ pc'[p] = "reject"
        /\ job'[p].turn = t /\ job'[p].effect = effect
    BY <1>1, <1>a, <1>b, RejectMoves DEF Effects
  <2>2. HandlerOf(p)'
    BY <1>1, <2>1, <1>b DEF HandlerOf, Live, T
  <2> QED BY <2>1, <2>2
<1>2. ASSUME NEW effect \in Effects, Parsed(p, effect),
             effect \notin {"none", "pending_gate5_durable_preparation"} => Explained(t)',
             effect = "pending_gate5_durable_preparation" => kind[t] \in {"delta", "over_limit"}
      PROVE  Moves(p) /\ HandlerOf(p)'
  <2>1. /\ Moves(p) /\ pc'[p] \in {"limit", "record"}
        /\ job'[p].turn = t /\ job'[p].effect = effect
    BY <1>2, <1>a, <1>b, ParsedMoves
  <2>2. HandlerOf(p)'
    BY <1>2, <2>1, <1>b, <1>c DEF HandlerOf, Live, T
  <2> QED BY <2>1, <2>2
<1> USE DEF Codes, Effects
<1>3. CASE StructuredReject(p) \/ ParseStructural(p) \/ ParseInvalid(p)
           \/ StructuredMisbound(p) \/ ParseNoDelta(p)
  BY <1>3, <1>1 DEF StructuredReject, ParseStructural, ParseInvalid, StructuredMisbound,
     ParseNoDelta
<1>4. CASE ParseNoCarrier(p)
  BY <1>4, <1>2 DEF ParseNoCarrier
<1>5. CASE ParseAccepted(p)
  BY <1>5, <1>2 DEF ParseAccepted, Kind
<1>6. CASE ParseExpired(p)
  <2>1. Explained(t)'
    BY <1>6, <1>a, <1>b DEF ParseExpired, Expire, Explained, Issued, StoreTypes, Caps, Parsed, T
  <2> QED BY <1>6, <1>2, <2>1 DEF ParseExpired
<1>7. CASE ParseReplayed(p)
  <2>1. Explained(t)'
    BY <1>7, <1>b, <1>c DEF ParseReplayed, CapKept, Explained
  <2> QED BY <1>7, <1>2, <2>1 DEF ParseReplayed
<1>8. CASE ParseMisbound(p)
  <2>1. Explained(t)'
    BY <1>8, <1>b, <1>c DEF ParseMisbound, Kind, Explained
  <2> QED BY <1>8, <1>2, <2>1 DEF ParseMisbound
<1> QED BY <1>3, <1>4, <1>5, <1>6, <1>7, <1>8 DEF Parse

\* Every step of a running handler moves it, and what it relies on next is true.
LEMMA ProgressSteps ==
  ASSUME TypeOK, Owners, StoresSound, NEW p \in Processors, HandlerOf(p),
         Progress(p), StoreTypes', NEW t \in Turns, t = T(p), Permanent(t)
  PROVE  Moves(p) /\ HandlerOf(p)'
<1>a. LocalTypes /\ StoreTypes /\ job[p] \in Jobs /\ pc[p] \in PCs
  BY DEF TypeOK, LocalTypes, StoreTypes, CapTypeOK, CompletionTypeOK, PreparationTypeOK,
     Caps, Operations, Bundles
<1>b. /\ t = job[p].turn /\ t = T(p) /\ RecordsOf(t)
      /\ pc[p] \in MainPCs => job[p].role = "main"
  BY DEF Owners, StoresSound, T
<1>c. /\ CapKept(t) /\ CompletionKept(t) /\ OperationKept(t) /\ BundleKept(t)
      /\ kind'[t] = kind[t]
      /\ cap[t].state # "none" /\ Explained(t) => Explained(t)'
  BY DEF Permanent
<1>d. due \in [Turns -> BOOLEAN]
  BY DEF TypeOK
<1>1. CASE IssueCapability(p)
  <2>1. Moves(p) /\ pc'[p] = "provider" /\ job'[p] = job[p]
    BY <1>1, <1>a, <1>b, GotoMoves, StepNames DEF IssueCapability, At, Live
  <2>2. HandlerOf(p)'
    BY <1>1, <2>1, <1>b, <1>c
       DEF HandlerOf, At, Live, T, IssueCapability, Issue, StoreTypes, Caps
  <2> QED BY <2>1, <2>2
<1>2. CASE IssueFails(p)
  <2>1. SameOwner(job[p], [job[p] EXCEPT !.target = "activation_failed"])
    BY <1>2, <1>a, <1>b, JobEdits DEF TurnStates
  <2>2. Moves(p) /\ pc'[p] = "fail" /\ job'[p] = [job[p] EXCEPT !.target = "activation_failed"]
    BY <1>2, <2>1, <1>a, <1>b, EditMoves, StepNames DEF IssueFails, At, Live
  <2>3. HandlerOf(p)'
    BY <1>2, <2>2, <1>a, <1>b, <1>c DEF HandlerOf, At, Live, T, Jobs, IssueFails, CapKept
  <2> QED BY <2>2, <2>3
<1>3. CASE RetainCompletion(p)
  <2>1. SameOwner(job[p], [job[p] EXCEPT !.late = due[T(p)]])
    BY <1>3, <1>a, <1>b, JobEdits, <1>d DEF RetainCompletion, At, Live
  <2>2. Moves(p) /\ pc'[p] = "parse" /\ job'[p] = [job[p] EXCEPT !.late = due[T(p)]]
    BY <1>3, <2>1, <1>a, <1>b, EditMoves, StepNames DEF RetainCompletion, At, Live
  <2>3. HandlerOf(p)'
    BY <1>3, <2>2, <1>a, <1>b, <1>c
       DEF HandlerOf, At, Live, T, Jobs, RetainCompletion, RecordCompletion, NoRecord,
           StoreTypes
  <2> QED BY <2>2, <2>3
<1>4. CASE RejectRead(p)
  <2>1. SameOwner(job[p], [job[p] EXCEPT !.issued = Issued(T(p))])
    BY <1>4, <1>a, <1>b, JobEdits DEF Issued
  <2>2. Moves(p) /\ pc'[p] = "write" /\ job'[p] = [job[p] EXCEPT !.issued = Issued(T(p))]
    BY <1>4, <2>1, <1>a, <1>b, EditMoves, StepNames DEF RejectRead, At, Live
  <2>3. HandlerOf(p)'
    BY <1>4, <2>2, <1>a, <1>b, <1>c
       DEF HandlerOf, At, Live, T, Jobs, RejectRead, CompletionKept, CapKept, RecordsOf
  <2> QED BY <2>2, <2>3
<1>5. CASE RecordOperation(p)
  <2>1. Moves(p) /\ pc'[p] = "start" /\ job'[p] = job[p]
    BY <1>5, <1>a, <1>b, GotoMoves, StepNames DEF RecordOperation, At, Live
  <2>2. HandlerOf(p)'
    BY <1>5, <2>1, <1>b, <1>c
       DEF HandlerOf, At, Live, T, RecordOperation, CompletionKept, RecordsOf
  <2> QED BY <2>1, <2>2
<1>6. CASE Reread(p)
  <2>1. SameOwner(job[p], [job[p] EXCEPT !.seen = completion[T(p)]])
    BY <1>6, <1>a, <1>b, JobEdits DEF Reread, At, Live, StoreTypes
  <2>2. Moves(p) /\ pc'[p] = "decide" /\ job'[p] = [job[p] EXCEPT !.seen = completion[T(p)]]
    BY <1>6, <2>1, <1>a, <1>b, EditMoves, StepNames DEF Reread, At, Live
  <2>3. HandlerOf(p)'
    BY <1>6, <2>2, <1>a, <1>b, <1>c
       DEF HandlerOf, At, Live, T, Jobs, Reread, CompletionKept, RecordsOf
  <2> QED BY <2>2, <2>3
<1>7. CASE PrepareCommit(p)
  <2>1. SameOwner(job[p], [job[p] EXCEPT !.target = "prepared"])
    BY <1>7, <1>a, <1>b, JobEdits DEF CompletionStates, Decisions
  <2>2. Moves(p) /\ pc'[p] = "cas" /\ job'[p] = [job[p] EXCEPT !.target = "prepared"]
    <3>1. /\ Live(p) /\ Goto(p, "cas")
          /\ job' = [job EXCEPT ![p] = [job[p] EXCEPT !.target = "prepared"]]
      BY <1>7 DEF PrepareCommit, At, Live
    <3> QED BY <2>1, <3>1, <1>a, EditMoves, StepNames
  <2>3. HandlerOf(p)'
    BY <1>7, <2>2, <1>a, <1>b, <1>c
       DEF HandlerOf, At, Live, T, Jobs, PrepareCommit, CompletionKept, Consume, Explained,
           Issued, StoreTypes, Caps, Decisions
  <2> QED BY <2>2, <2>3
<1>8. CASE PrepareConverges(p)
  <2>1. SameOwner(job[p], [job[p] EXCEPT !.target = "prepared"])
    BY <1>8, <1>a, <1>b, JobEdits DEF CompletionStates, Decisions
  <2>2. Moves(p) /\ pc'[p] = "cas" /\ job'[p] = [job[p] EXCEPT !.target = "prepared"]
    BY <1>8, <2>1, <1>a, <1>b, EditMoves, StepNames DEF PrepareConverges, At, Live
  <2>3. HandlerOf(p)'
    BY <1>8, <2>2, <1>a, <1>b, <1>c
       DEF HandlerOf, At, Live, T, Jobs, PrepareConverges, CompletionKept, Prepared, Explained,
           Issued, RecordsOf, Decisions
  <2> QED BY <2>2, <2>3
<1>9. CASE ReleaseOperation(p)
  <2>1. SameOwner(job[p], [job[p] EXCEPT !.seen = completion[T(p)]])
    BY <1>9, <1>a, <1>b, JobEdits DEF ReleaseOperation, At, Live, StoreTypes
  <2>2. Moves(p) /\ pc'[p] = "reconcile" /\ job'[p] = [job[p] EXCEPT !.seen = completion[T(p)]]
    BY <1>9, <2>1, <1>a, <1>b, EditMoves, StepNames DEF ReleaseOperation, At, Live
  <2>3. job'[p].turn = t /\ job'[p].effect = job[p].effect
    BY <2>2, <1>a, <1>b DEF Jobs
  <2>4. operation'[t].visible = "visible_released"
    BY <1>9, <1>a, <1>b DEF ReleaseOperation, RecordVisibleRelease, StoreTypes, Operations
  <2>5. HandlerOf(p)'
    BY <1>9, <2>2, <2>3, <2>4, <1>b, <1>c
       DEF HandlerOf, At, Live, T, ReleaseOperation, CompletionKept
  <2> QED BY <2>2, <2>5
<1>10. CASE Reconcile(p)
  <2>1. Moves(p) /\ pc'[p] = "confirm" /\ job'[p] = job[p]
    BY <1>10, <1>a, <1>b, GotoMoves, StepNames DEF Reconcile, At, Live
  <2>2. HandlerOf(p)'
    BY <1>10, <2>1, <1>b, <1>c
       DEF HandlerOf, At, Live, T, Reconcile, CompletionKept, OperationKept
  <2> QED BY <2>1, <2>2
<1>11. ASSUME NEW state \in {"activation_failed", "provider_failed"}, GiveUp(p, state)
      PROVE  Moves(p) /\ HandlerOf(p)'
  <2>1. SameOwner(job[p], [job[p] EXCEPT !.target = state])
    BY <1>a, JobEdits DEF TurnStates
  <2>2. Moves(p) /\ pc'[p] = "fail" /\ job'[p] = [job[p] EXCEPT !.target = state]
    BY <1>11, <2>1, <1>a, <1>b, EditMoves, StepNames DEF GiveUp, At, Live
  <2>3. HandlerOf(p)'
    BY <1>11, <2>2, <1>a, <1>b, <1>c DEF HandlerOf, At, Live, T, Jobs, GiveUp, CapKept
  <2> QED BY <2>2, <2>3
<1>12. CASE FailTurn(p) \/ FinishTurn(p) \/ LoseCas(p) \/ ReleaseRefused(p) \/ RetainFails(p)
  <2>1. Leave(p) /\ Live(p)
    BY <1>12 DEF FailTurn, FinishTurn, LoseCas, ReleaseRefused, RetainFails, At, Live
  <2> QED BY <2>1, <1>a, LeaveMoves, IdleHandler
<1>13. CASE AlreadyReleased(p)
  <2>1. CASE job[p].role = "main"
    <3>1. Moves(p) /\ pc'[p] = "turn" /\ job'[p] = job[p]
      BY <1>13, <2>1, <1>a, <1>b, GotoMoves, StepNames DEF AlreadyReleased, At, Live
    <3>2. HandlerOf(p)'
      BY <1>13, <3>1, <1>b, <1>c DEF HandlerOf, At, Live, T, AlreadyReleased, CompletionKept
    <3> QED BY <3>1, <3>2
  <2>2. CASE job[p].role # "main"
    <3>1. Leave(p) /\ Live(p)
      BY <1>13, <2>2 DEF AlreadyReleased, At, Live
    <3> QED BY <3>1, <1>a, LeaveMoves, IdleHandler
  <2> QED BY <2>1, <2>2
<1>14. CASE ConfirmRelease(p)
  <2>1. CASE job[p].role = "main"
    <3>1. Moves(p) /\ pc'[p] = "turn" /\ job'[p] = job[p]
      BY <1>14, <2>1, <1>a, <1>b, GotoMoves, StepNames DEF ConfirmRelease, At, Live
    <3>2. HandlerOf(p)'
      BY <1>14, <3>1, <1>b, <1>c DEF HandlerOf, At, Live, T, ConfirmRelease, CompletionKept
    <3> QED BY <3>1, <3>2
  <2>2. CASE job[p].role # "main"
    <3>1. Leave(p) /\ Live(p)
      BY <1>14, <2>2 DEF ConfirmRelease, At, Live
    <3> QED BY <3>1, <1>a, LeaveMoves, IdleHandler
  <2> QED BY <2>1, <2>2
<1>15. CASE RecordDecision(p)
  <2>1. CASE job[p].role = "main"
    <3>1. Moves(p) /\ pc'[p] = "release" /\ job'[p] = job[p]
      BY <1>15, <2>1, <1>a, <1>b, GotoMoves, StepNames DEF RecordDecision, At, Live
    <3>2. HandlerOf(p)'
      BY <1>15, <3>1, <1>b, <1>c DEF HandlerOf, At, Live, T, RecordDecision, CompletionKept
    <3> QED BY <3>1, <3>2
  <2>2. CASE job[p].role # "main"
    <3>1. Leave(p) /\ Live(p)
      BY <1>15, <2>2 DEF RecordDecision, At, Live
    <3> QED BY <3>1, <1>a, LeaveMoves, IdleHandler
  <2> QED BY <2>1, <2>2
<1>16. CASE PrepareFails(p)
  <2>1. CASE CanRecordFailure(T(p))
    <3>1. SameOwner(job[p], [job[p] EXCEPT !.target = "preparation_failed_visible_authorized"])
      BY <1>a, JobEdits DEF CompletionStates, Decisions
    <3>2. /\ Moves(p) /\ pc'[p] = "cas"
          /\ job'[p] = [job[p] EXCEPT !.target = "preparation_failed_visible_authorized"]
      BY <1>16, <2>1, <3>1, <1>a, <1>b, EditMoves, StepNames DEF PrepareFails, Live
    <3>3. Live(p) /\ operation'[t].failed
      BY <1>16, <2>1, <1>a, <1>b
         DEF PrepareFails, RecordPreparationFailure, Live, StoreTypes, Operations
    <3>4. HandlerOf(p)'
      BY <1>16, <3>2, <3>3, <1>a, <1>b, <1>c
         DEF HandlerOf, Live, T, Jobs, PrepareFails, CompletionKept, Explained, Decisions
    <3> QED BY <3>2, <3>4
  <2>2. CASE ~CanRecordFailure(T(p))
    <3>1. Leave(p) /\ Live(p)
      BY <1>16, <2>2 DEF PrepareFails, Live
    <3> QED BY <3>1, <1>a, LeaveMoves, IdleHandler
  <2> QED BY <2>1, <2>2
<1>17. CASE StartMain(p)
  <2>1. CASE Decided(T(p))
    <3>1. SameOwner(job[p], [job[p] EXCEPT !.target = completion[T(p)].state])
      BY <1>17, <1>a, <1>b, JobEdits DEF StartMain, At, Live, StoreTypes, Records
    <3>2. /\ Moves(p) /\ pc'[p] = "release"
          /\ job'[p] = [job[p] EXCEPT !.target = completion[T(p)].state]
      BY <1>17, <2>1, <3>1, <1>a, <1>b, EditMoves, StepNames DEF StartMain, At, Live
    <3>3. HandlerOf(p)'
      BY <1>17, <3>2, <1>a, <1>b, <1>c
         DEF HandlerOf, At, Live, T, Jobs, StartMain, CompletionKept
    <3> QED BY <3>2, <3>3
  <2>2. CASE ~Decided(T(p))
    <3>1. SameOwner(job[p], [job[p] EXCEPT !.seen = completion[T(p)]])
      BY <1>17, <1>a, <1>b, JobEdits DEF StartMain, At, Live, StoreTypes
    <3>2. Moves(p) /\ pc'[p] = "record" /\ job'[p] = [job[p] EXCEPT !.seen = completion[T(p)]]
      BY <1>17, <2>2, <3>1, <1>a, <1>b, EditMoves, StepNames DEF StartMain, At, Live
    <3>3. HandlerOf(p)'
      BY <1>17, <3>2, <1>a, <1>b, <1>c
         DEF HandlerOf, At, Live, T, Jobs, StartMain, CompletionKept, RecordsOf
    <3> QED BY <3>2, <3>3
  <2> QED BY <2>1, <2>2
<1>18. CASE RecordParse(p)
  <2>1. \E l \in {"reread", "decide"} : Moves(p) /\ pc'[p] = l /\ job'[p] = job[p]
    BY <1>18, <1>a, <1>b, GotoMoves, StepNames DEF RecordParse, At, Live
  <2>2. HandlerOf(p)'
    BY <1>18, <2>1, <1>b, <1>c
       DEF HandlerOf, At, Live, T, RecordParse, CompletionKept, RecordsOf
  <2> QED BY <2>1, <2>2
<1>19. CASE RejectWrite(p)
  <2>1. Moves(p) /\ pc'[p] \in {"limit", "record"} /\ job'[p] = job[p]
    BY <1>19, <1>a, <1>b, GotoMoves, StepNames DEF RejectWrite, AfterParse, At, Live
  <2>2. Live(p) /\ ~Issued(t)'
    BY <1>19, <1>a, <1>b, <1>c
       DEF RejectWrite, RejectConsumed, At, Live, HandlerOf, Issued, StoreTypes, Caps
  <2>3. HandlerOf(p)'
    BY <1>19, <2>1, <2>2, <1>b, <1>c
       DEF HandlerOf, At, Live, T, RejectWrite, CompletionKept, Explained, Issued
  <2> QED BY <2>1, <2>3
<1>20. CASE Decide(p)
  <2> DEFINE found == Prepared(T(p))
             pending == job[p].effect = "pending_gate5_durable_preparation"
             target == IF found THEN "prepared" ELSE Outcome(job[p].effect)
  <2>1. target \in Decisions
    BY DEF Outcome, Decisions
  <2> HIDE DEF target
  <2>2. SameOwner(job[p], [job[p] EXCEPT !.target = target])
    BY <1>a, <2>1, JobEdits DEF CompletionStates
  <2>3. /\ Moves(p) /\ job'[p] = [job[p] EXCEPT !.target = target]
        /\ pc'[p] = IF ~found /\ pending THEN "prepare" ELSE "cas"
    <3>1. /\ Live(p) /\ job' = [job EXCEPT ![p] = [job[p] EXCEPT !.target = target]]
          /\ Goto(p, IF ~found /\ pending THEN "prepare" ELSE "cas")
      BY <1>20 DEF Decide, At, Live, target
    <3>2. CASE ~found /\ pending
      BY <3>1, <3>2, <2>2, <1>a, <1>b, EditMoves, StepNames
    <3>3. CASE ~(~found /\ pending)
      BY <3>1, <3>3, <2>2, <1>a, <1>b, EditMoves, StepNames
    <3> QED BY <3>2, <3>3
  <2>4. Live(p) /\ (pc'[p] = "cas" => Explained(t)')
    <3>1. CASE found
      BY <1>20, <3>1, <1>b, <1>c DEF Decide, At, Live, RecordsOf, Explained, Issued, HandlerOf
    <3>2. CASE ~found /\ job[p].effect = "none"
      BY <1>20, <3>2, <1>a, <1>b DEF Decide, At, Live, Explained, Issued, CloseUnused,
           StoreTypes, Caps
    <3>3. CASE ~found /\ ~pending /\ job[p].effect # "none"
      BY <1>20, <3>3, <1>b, <1>c DEF Decide, At, Live, RecordsOf, HandlerOf
    <3> QED BY <1>20, <2>3, <3>1, <3>2, <3>3 DEF Decide, At, Live
  <2>5. HandlerOf(p)'
    BY <1>20, <2>1, <2>3, <2>4, <1>a, <1>b, <1>c
       DEF HandlerOf, At, Live, T, Jobs, Decide, CompletionKept
  <2> QED BY <2>3, <2>5
<1>21. CASE GateLimit(p)
  <2>1. CASE job[p].effect = "pending_gate5_durable_preparation" /\ Kind(p) = "over_limit"
    <3>1. ToReject(p, "other", "rejected_consumed") /\ Live(p)
      BY <1>21, <2>1 DEF GateLimit, At, Live
    <3>2. /\ Moves(p) /\ pc'[p] = "reject"
          /\ job'[p].turn = t /\ job'[p].effect = "rejected_consumed"
      BY <3>1, <1>a, <1>b, RejectMoves DEF Effects, Codes
    <3>3. HandlerOf(p)'
      BY <1>21, <3>2, <1>b, <1>c DEF HandlerOf, At, Live, T, GateLimit, CompletionKept
    <3> QED BY <3>2, <3>3
  <2>2. CASE ~(job[p].effect = "pending_gate5_durable_preparation" /\ Kind(p) = "over_limit")
    <3>1. Moves(p) /\ pc'[p] = "operation" /\ job'[p] = job[p]
      BY <1>21, <2>2, <1>a, <1>b, GotoMoves, StepNames DEF GateLimit, Keep, At, Live
    <3>2. HandlerOf(p)'
      BY <1>21, <3>1, <1>b, <1>c
         DEF HandlerOf, At, Live, T, GateLimit, CompletionKept, RecordsOf
    <3> QED BY <3>1, <3>2
  <2> QED BY <2>1, <2>2
<1>22. CASE Parse(p)
  BY <1>22, ParseSteps
<1>23. CASE PrepareRead(p)
  <2>1. SameOwner(job[p], [job[p] EXCEPT !.op = operation[t]])
    BY <1>23, <1>a, <1>b, JobEdits DEF StoreTypes
  <2>2. Moves(p) /\ pc'[p] = "commit" /\ job'[p] = [job[p] EXCEPT !.op = operation[t]]
    <3>1. /\ Live(p) /\ Goto(p, "commit")
          /\ job' = [job EXCEPT ![p] = [job[p] EXCEPT !.op = operation[t]]]
      BY <1>23, <1>b DEF PrepareRead, At, Live
    <3> QED BY <2>1, <3>1, <1>a, EditMoves, StepNames
  <2>3. job'[p].turn = t /\ job'[p].effect = job[p].effect /\ job'[p].op = operation[t]
    BY <2>2, <1>a, <1>b DEF Jobs
  <2>4. HandlerOf(p)'
    BY <1>23, <2>2, <2>3, <1>b, <1>c
       DEF HandlerOf, At, Live, T, PrepareRead, CompletionKept, OperationKept
  <2> QED BY <2>2, <2>4
<1> QED BY <1>1, <1>2, <1>3, <1>4, <1>5, <1>6, <1>7, <1>8, <1>9, <1>10, <1>11, <1>12, <1>13,
           <1>14, <1>15, <1>16, <1>17, <1>18, <1>19, <1>20, <1>21, <1>22, <1>23 DEF Progress

(***************************************************************************)
(* What the stores hold of each turn stays sound, write by write.          *)
(***************************************************************************)

\* A write of the registry alone: to a capability that exists, or its issue.
LEMMA CapWriteSound ==
  ASSUME StoreTypes, StoresSound, NEW x \in Turns, CapWrite(x), ~Consume(x),
         cap[x].state # "none" \/ Issue(x),
         UNCHANGED <<completion, operation, bundle, turn, kind>>
  PROVE  StoresSound'
<1>1. cap \in [Turns -> Caps] /\ \A t \in Turns : CapKept(t)
  BY CapKeeps DEF StoreTypes
<1>2. \A t \in Turns :
        /\ cap'[t].state = "prepared_consumed" <=> cap[t].state = "prepared_consumed"
        /\ cap'[t].code # "none" =>
             cap'[t].state # "none" \/ cap'[t] = cap[t]
  <2> USE <1>1 DEF Caps, CapStates, Codes, Issued
  <2>1. CASE Issue(x) \/ Invalidate(x)
    BY <2>1 DEF Issue, Invalidate
  <2>2. CASE cap[x].state # "none" /\ (CloseUnused(x) \/ Expire(x))
    BY <2>2 DEF CloseUnused, Expire
  <2>3. ASSUME NEW code \in Codes, RecordFailure(x, code), cap[x].state # "none"
        PROVE  <1>2!:
    BY <2>3 DEF RecordFailure
  <2>4. ASSUME NEW issued \in BOOLEAN, NEW code \in Codes, RejectConsumed(x, issued, code),
               cap[x].state # "none"
        PROVE  <1>2!:
    BY <2>4 DEF RejectConsumed
  <2> QED BY <2>1, <2>2, <2>3, <2>4 DEF CapWrite
<1>3. ASSUME NEW t \in Turns PROVE RecordsOf(t)'
  <2>1. RecordsOf(t)
    BY DEF StoresSound
  <2>2. Decided(t) => Explained(t)'
    BY <1>1, <2>1 DEF RecordsOf, Explained, CapKept, Decided, Decisions, NoRecord
  <2> QED BY <1>1, <1>2, <2>1, <2>2 DEF RecordsOf, CapKept, Prepared, Decided
<1> QED BY <1>3 DEF StoresSound

\* A write of the completion alone: to a turn that has a capability, and deciding
\* it only with an explanation.
LEMMA CompletionWriteSound ==
  ASSUME StoreTypes, StoresSound, NEW x \in Turns, CompletionWrite(x),
         cap[x].state # "none", Decided(x)' => Decided(x) \/ Explained(x),
         UNCHANGED <<cap, operation, bundle, turn, kind>>
  PROVE  StoresSound'
<1>1. \A t \in Turns : CompletionKept(t)
  BY CompletionKeeps DEF StoreTypes
<1>2. \A t \in Turns \ {x} : completion'[t] = completion[t]
  BY DEF StoreTypes, CompletionWrite, RecordCompletion, CasReplace
<1>3. ASSUME NEW t \in Turns PROVE RecordsOf(t)'
  <2>1. RecordsOf(t)
    BY DEF StoresSound
  <2>2. Decided(t)' => Decided(t) \/ Explained(t)
    BY <1>2 DEF Decided
  <2>3. Explained(t)' <=> Explained(t)
    BY DEF Explained, Issued
  <2> QED BY <1>1, <1>2, <2>1, <2>2, <2>3 DEF RecordsOf, CompletionKept, Prepared, Decided
<1> QED BY <1>3 DEF StoresSound

\* A write of the operation alone: it is released only after the decision.
LEMMA OperationWriteSound ==
  ASSUME StoreTypes, StoresSound, NEW x \in Turns, OperationWrite(x),
         operation'[x].visible = "visible_released" => Decided(x),
         ~CancelBeforeVisible(x),
         UNCHANGED <<cap, completion, bundle, turn, kind>>
  PROVE  StoresSound'
<1>1. operation \in [Turns -> Operations] /\ \A t \in Turns : OperationKept(t)
  BY OperationKeeps DEF StoreTypes
<1>2. /\ \A t \in Turns \ {x} : operation'[t] = operation[t]
      /\ operation'[x].unit # None => operation'[x].unit = operation'[x].expected
  <2>0. operation[x].unit # None => operation[x].unit = operation[x].expected
    BY DEF StoresSound, RecordsOf
  <2> USE <1>1, <2>0 DEF Operations
  <2>1. CASE RecordProviderOperation(x) \/ RecordPreparationFailure(x)
    BY <2>1 DEF RecordProviderOperation, RecordPreparationFailure
  <2>2. ASSUME NEW at \in ReleaseTimes, RecordVisibleRelease(x, at) PROVE <1>2!:
    BY <2>2 DEF RecordVisibleRelease
  <2>3. ASSUME NEW u \in Units, FinalizeExpectation(x, u) \/ PublishCompleteUnit(x, u)
        PROVE  <1>2!:
    BY <2>3 DEF FinalizeExpectation, ExpectationAccepted, PublishCompleteUnit, UnitAccepted
  <2> QED BY <2>1, <2>2, <2>3 DEF OperationWrite
<1>3. ASSUME NEW t \in Turns PROVE RecordsOf(t)'
  <2>1. RecordsOf(t)
    BY DEF StoresSound
  <2>2. (Explained(t) => Explained(t)') /\ (Decided(t)' <=> Decided(t))
    BY <1>1 DEF Explained, Issued, OperationKept, Decided
  <2> QED BY <1>1, <1>2, <2>1, <2>2, IdentityAssumption
          DEF RecordsOf, OperationKept, Prepared
<1> QED BY <1>3 DEF StoresSound

\* A write of the bundle alone: the reconciliation of a released operation, or
\* the binding of its unit.
LEMMA BundleWriteSound ==
  ASSUME StoreTypes, StoresSound, NEW x \in Turns,
         \/ ReconcileVisibleRelease(x) /\ operation[x].visible = "visible_released"
         \/ BindCompleteUnit(x),
         UNCHANGED <<cap, completion, operation, turn, kind>>
  PROVE  StoresSound'
<1>1. bundle \in [Turns -> Bundles] /\ operation \in [Turns -> Operations]
  BY DEF StoreTypes
<1>2. \A t \in Turns : BundleKept(t)
  BY <1>1, BundleKeeps DEF BundleWrite
<1>3. /\ \A t \in Turns \ {x} : bundle'[t] = bundle[t]
      /\ bundle'[x].state # "none" => bundle[x].state # "none"
      /\ bundle'[x].state \in {"visible_released_waiting_unit", "ready_to_apply"} =>
           operation[x].visible = "visible_released"
      /\ bundle'[x].state = "ready_to_apply" =>
           bundle'[x].unit \in Units /\ bundle'[x].unit = operation[x].unit
  <2>0. RecordsOf(x)
    BY DEF StoresSound
  <2>1. CASE ReconcileVisibleRelease(x) /\ operation[x].visible = "visible_released"
    BY <2>0, <2>1, <1>1 DEF ReconcileVisibleRelease, RecordsOf, Bundles
  <2>2. CASE BindCompleteUnit(x)
    BY <2>0, <2>2, <1>1 DEF BindCompleteUnit, Bindable, RecordsOf, Bundles, Operations
  <2> QED BY <2>1, <2>2
<1>4. ASSUME NEW t \in Turns PROVE RecordsOf(t)'
  <2>1. RecordsOf(t)
    BY DEF StoresSound
  <2>2. (Explained(t)' <=> Explained(t)) /\ (Decided(t)' <=> Decided(t))
    BY DEF Explained, Issued, Decided
  <2> QED BY <1>2, <1>3, <2>1, <2>2 DEF RecordsOf, BundleKept, Prepared
<1> QED BY <1>4 DEF StoresSound

\* The preparation: the capability is consumed and the bundle inserted at once.
LEMMA PrepareSound ==
  ASSUME StoreTypes, StoresSound, NEW x \in Turns, NEW op, Consume(x), InsertBundle(x, op),
         op.visible = "visible_released" => operation[x].visible = "visible_released",
         UNCHANGED <<completion, operation, turn, kind>>
  PROVE  StoresSound'
<1>1. cap \in [Turns -> Caps] /\ bundle \in [Turns -> Bundles]
  BY DEF StoreTypes
<1>2. /\ \A t \in Turns \ {x} : bundle'[t] = bundle[t] /\ cap'[t] = cap[t]
      /\ cap'[x].state = "prepared_consumed"
      /\ bundle[x].state = "none"
      /\ bundle'[x] = InitialBundle(op)
  BY <1>1 DEF Consume, InsertBundle, Caps, Bundles
<1>3. ASSUME NEW t \in Turns PROVE RecordsOf(t)'
  <2>1. RecordsOf(t)
    BY DEF StoresSound
  <2>2. (Explained(t) => Explained(t)') /\ (Decided(t)' <=> Decided(t))
    BY <1>2 DEF Explained, Issued, Decided
  <2> QED BY <1>2, <2>1, <2>2 DEF RecordsOf, Prepared, InitialBundle
<1> QED BY <1>3 DEF StoresSound

\* The cancellation of a response that is not visible yet.
LEMMA CancelSound ==
  ASSUME StoreTypes, StoresSound, NEW x \in Turns, CancelBeforeVisible(x),
         UNCHANGED <<cap, completion, turn, kind>>
  PROVE  StoresSound'
<1>1. bundle \in [Turns -> Bundles] /\ operation \in [Turns -> Operations]
  BY DEF StoreTypes
<1>2. /\ \A t \in Turns \ {x} : bundle'[t] = bundle[t] /\ operation'[t] = operation[t]
      /\ bundle[x].state = "prepared_waiting_visible"
      /\ bundle'[x].state = "cancelled_before_visible"
      /\ operation'[x].visible = "delivery_cancelled"
      /\ operation'[x].failed = operation[x].failed
      /\ operation'[x].unit = operation[x].unit
      /\ operation'[x].expected = operation[x].expected
  BY <1>1 DEF CancelBeforeVisible, Operations, Bundles
<1>3. ASSUME NEW t \in Turns PROVE RecordsOf(t)'
  <2>1. RecordsOf(t)
    BY DEF StoresSound
  <2>2. (Explained(t) => Explained(t)') /\ (Decided(t)' <=> Decided(t))
    BY <1>2 DEF Explained, Issued, Decided
  <2> QED BY <1>2, <2>1, <2>2 DEF RecordsOf, Prepared
<1> QED BY <1>3 DEF StoresSound

\* A write of turn receipts that makes none ready without a ready bundle.
LEMMA TurnWriteSound ==
  ASSUME StoresSound,
         \A t \in Turns : turn'[t].state = "ready_to_apply_shadow_only" =>
           \/ turn'[t] = turn[t]
           \/ bundle[t].state = "ready_to_apply" /\ turn'[t].unit = bundle[t].unit,
         UNCHANGED <<cap, completion, operation, bundle, kind>>
  PROVE  StoresSound'
<1>1. ASSUME NEW t \in Turns PROVE RecordsOf(t)'
  <2>1. RecordsOf(t)
    BY DEF StoresSound
  <2>2. (Explained(t)' <=> Explained(t)) /\ (Decided(t)' <=> Decided(t))
    BY DEF Explained, Issued, Decided
  <2> QED BY <2>1, <2>2 DEF RecordsOf, Prepared
<1> QED BY <1>1 DEF StoresSound

\* Each handler step is one of these writes, or writes no record.
LEMMA ProgressSound ==
  ASSUME TypeOK, StoreTypes, Owners, StoresSound, NEW p \in Processors, HandlerOf(p),
         Progress(p), NEW t \in Turns, t = T(p)
  PROVE  StoresSound'
<1> USE DEF outboxVars, turnVars, syncVars, Keep
<1>a. /\ t = T(p) /\ RecordsOf(t)
      /\ job[p] \in Jobs /\ completion \in [Turns -> Records]
  BY DEF Owners, StoresSound, TypeOK, CompletionTypeOK
<1>b. /\ pc[p] = "provider" => cap[t].state # "none"
      /\ pc[p] \notin {"idle", "issue", "provider", "fail"} =>
           completion[t] # NoRecord /\ cap[t].state # "none"
      /\ pc[p] = "commit" /\ job[p].op.visible = "visible_released" =>
           operation[t].visible = "visible_released"
      /\ pc[p] = "cas" => job[p].target \in Decisions /\ Explained(t)
      /\ pc[p] \in {"reconcile", "confirm"} => operation[t].visible = "visible_released"
  BY <1>a DEF HandlerOf, RecordsOf, Live
<1>c. turn \in [Turns -> [state : TurnStates, bundle : BOOLEAN, unit : Units \cup {None}]]
  BY DEF TypeOK, ControlTypeOK
<1>1. CASE IssueCapability(p)
  <2>1. Issue(t) /\ CapWrite(t)
    BY <1>1, <1>a DEF IssueCapability, At, Live, CapWrite
  <2>2. ~Consume(t)
    BY <2>1 DEF Issue, Consume, Issued
  <2> QED BY <1>1, <2>1, <2>2, CapWriteSound DEF IssueCapability
<1>2. ASSUME NEW state, GiveUp(p, state) PROVE StoresSound'
  <2>1. Invalidate(t) /\ CapWrite(t) /\ cap[t].state # "none"
    BY <1>2, <1>a, <1>b DEF GiveUp, At, Live, CapWrite
  <2>2. ~Consume(t)
    BY <2>1 DEF Invalidate, Consume, Issued, StoreTypes, Caps
  <2> QED BY <1>2, <2>1, <2>2, CapWriteSound DEF GiveUp
<1>3. CASE Parse(p) \/ RejectWrite(p)
  <2>1. /\ cap[t].state # "none"
        /\ UNCHANGED <<completion, operation, bundle, turn, kind>>
    BY <1>3, <1>a, <1>b DEF Parse, RejectWrite, At, Live
  <2>2. \/ UNCHANGED cap \/ Expire(t)
        \/ \E code \in Codes : RecordFailure(t, code)
        \/ \E issued \in BOOLEAN, code \in Codes : RejectConsumed(t, issued, code)
    <3>1. CASE Parse(p)
      BY <3>1 DEF Parse, ParseNoCarrier, StructuredReject, ParseStructural, ParseExpired,
         ParseReplayed, ParseInvalid, ParseMisbound, StructuredMisbound, ParseNoDelta,
         ParseAccepted, ToReject, Codes
    <3>2. CASE RejectWrite(p)
      BY <3>2, <1>a DEF RejectWrite, Jobs
    <3> QED BY <1>3, <3>1, <3>2
  <2>3. CASE UNCHANGED cap
    BY <2>1, <2>3, TurnWriteSound
  <2>4. CASE ~UNCHANGED cap
    <3>1. CapWrite(t)
      BY <2>2, <2>4 DEF CapWrite
    <3>2. ~Consume(t)
      BY <2>1, <2>2, <2>4 DEF Consume, Issued, Expire, RecordFailure, RejectConsumed,
         StoreTypes, Caps
    <3> QED BY <2>1, <3>1, <3>2, CapWriteSound
  <2> QED BY <2>3, <2>4
<1>4. CASE Decide(p)
  <2>1. /\ cap[t].state # "none"
        /\ UNCHANGED <<completion, operation, bundle, turn, kind>>
        /\ UNCHANGED cap \/ CloseUnused(t)
    BY <1>4, <1>a, <1>b DEF Decide, At, Live
  <2>2. CASE UNCHANGED cap
    BY <2>1, <2>2, TurnWriteSound
  <2>3. CASE CloseUnused(t)
    <3>1. ~Consume(t) /\ CapWrite(t)
      BY <2>1, <2>3 DEF Consume, Issued, CloseUnused, StoreTypes, Caps, CapWrite
    <3> QED BY <2>1, <3>1, CapWriteSound
  <2> QED BY <2>1, <2>2, <2>3
<1>5. CASE RetainCompletion(p)
  <2>1. CompletionWrite(t) /\ cap[t].state # "none"
    BY <1>5, <1>a, <1>b DEF RetainCompletion, At, Live, CompletionWrite
  <2>2. ~Decided(t)'
    BY <1>5, <2>1 DEF RetainCompletion, RecordCompletion, StoreTypes, Decided, Decisions
  <2> QED BY <1>5, <2>1, <2>2, CompletionWriteSound DEF RetainCompletion
<1>6. CASE RecordParse(p)
  <2>1. cap[t].state # "none" /\ UNCHANGED <<cap, operation, bundle, turn, kind>>
    BY <1>6, <1>a, <1>b DEF RecordParse, At
  <2>2. CASE UNCHANGED completion
    BY <2>1, <2>2, TurnWriteSound
  <2>3. CASE job[p].seen.state = "retained_unparsed"
    <3>1. CasReplace(t, job[p].seen, "parsed_pending_preparation")
      BY <1>6, <1>a, <2>3 DEF RecordParse
    <3>2. CompletionWrite(t)
      BY <1>a, <2>3, <3>1 DEF CompletionWrite, Jobs, CompletionStates
    <3>3. ~Decided(t)'
      BY <1>a, <3>1 DEF CasReplace, Decided, Decisions
    <3> QED BY <2>1, <3>2, <3>3, CompletionWriteSound
  <2> QED BY <1>6, <2>2, <2>3 DEF RecordParse
<1>7. CASE RecordDecision(p)
  <2>1. /\ cap[t].state # "none" /\ Explained(t) /\ job[p].target \in Decisions
        /\ CasReplace(t, job[p].seen, job[p].target)
    BY <1>7, <1>a, <1>b DEF RecordDecision, At
  <2>2. CompletionWrite(t)
    BY <1>a, <2>1 DEF CompletionWrite, Jobs, CompletionStates
  <2> QED BY <1>7, <2>1, <2>2, CompletionWriteSound DEF RecordDecision
<1>8. CASE ConfirmRelease(p)
  <2>1. /\ cap[t].state # "none" /\ operation[t].visible = "visible_released"
        /\ CasReplace(t, job[p].seen, "visible_released")
    BY <1>8, <1>a, <1>b DEF ConfirmRelease, At
  <2>2. CompletionWrite(t)
    BY <1>a, <2>1 DEF CompletionWrite, Jobs, CompletionStates
  <2>3. Decided(t)
    BY <1>a, <2>1 DEF RecordsOf
  <2> QED BY <1>8, <2>1, <2>2, <2>3, CompletionWriteSound DEF ConfirmRelease
<1>9. CASE RecordOperation(p)
  <2>1. RecordProviderOperation(t)
    BY <1>9, <1>a DEF RecordOperation
  <2>2. OperationWrite(t) /\ ~CancelBeforeVisible(t)
    BY <2>1 DEF OperationWrite, RecordProviderOperation, CancelBeforeVisible
  <2>3. operation'[t].visible = "visible_released" => Decided(t)
    BY <2>1 DEF RecordProviderOperation, StoreTypes, Operations
  <2> QED BY <1>9, <2>2, <2>3, OperationWriteSound DEF RecordOperation
<1>10. CASE PrepareFails(p)
  <2>1. CASE UNCHANGED operation
    BY <1>10, <2>1, TurnWriteSound DEF PrepareFails
  <2>2. CASE RecordPreparationFailure(t)
    <3>1. OperationWrite(t) /\ ~CancelBeforeVisible(t)
      BY <1>10, <2>2 DEF OperationWrite, RecordPreparationFailure, CancelBeforeVisible,
         PrepareFails, StoreTypes, Bundles
    <3>2. operation'[t].visible = "visible_released" => Decided(t)
      BY <1>a, <2>2 DEF RecordPreparationFailure, StoreTypes, Operations, RecordsOf
    <3> QED BY <1>10, <3>1, <3>2, OperationWriteSound DEF PrepareFails
  <2> QED BY <1>10, <1>a, <2>1, <2>2 DEF PrepareFails
<1>11. CASE ReleaseOperation(p)
  <2>1. /\ RecordVisibleRelease(t, job[p].at) /\ ReleaseAuthorized(t)
        /\ job[p].at \in ReleaseTimes
    BY <1>11, <1>a DEF ReleaseOperation, Jobs
  <2>2. OperationWrite(t)
    BY <2>1 DEF OperationWrite
  <2>3. ~CancelBeforeVisible(t)
    BY <1>11 DEF CancelBeforeVisible, ReleaseOperation, StoreTypes, Bundles
  <2>4. Decided(t)
    BY <2>1 DEF ReleaseAuthorized, Decided
  <2> QED BY <1>11, <2>2, <2>3, <2>4, OperationWriteSound DEF ReleaseOperation
<1>12. CASE Reconcile(p)
  <2>1. ReconcileVisibleRelease(t) /\ operation[t].visible = "visible_released"
    BY <1>12, <1>a, <1>b DEF Reconcile, At
  <2> QED BY <1>12, <2>1, BundleWriteSound DEF Reconcile
<1>13. CASE PrepareCommit(p)
  <2>1. /\ Consume(t) /\ InsertBundle(t, job[p].op)
        /\ job[p].op.visible = "visible_released" => operation[t].visible = "visible_released"
    BY <1>13, <1>a, <1>b DEF PrepareCommit, At
  <2> QED BY <1>13, <2>1, PrepareSound DEF PrepareCommit
<1>14. CASE FailTurn(p)
  <2>1. \A x \in Turns : turn'[x].state = "ready_to_apply_shadow_only" => turn'[x] = turn[x]
    BY <1>14, <1>a, <1>c DEF FailTurn, UpdateTurn, At, HandlerOf
  <2> QED BY <1>14, <2>1, TurnWriteSound DEF FailTurn
<1>15. CASE FinishTurn(p)
  <2>1. TurnOutcome(job[p].target, job[p].effect) # "ready_to_apply_shadow_only"
    BY DEF TurnOutcome
  <2>2. \A x \in Turns : turn'[x].state = "ready_to_apply_shadow_only" => turn'[x] = turn[x]
    BY <1>15, <1>a, <1>c, <2>1 DEF FinishTurn
  <2> QED BY <1>15, <2>2, TurnWriteSound DEF FinishTurn
<1>16. CASE \/ IssueFails(p) \/ RejectRead(p) \/ GateLimit(p) \/ StartMain(p)
            \/ Reread(p) \/ PrepareRead(p) \/ PrepareConverges(p) \/ LoseCas(p)
            \/ ReleaseRefused(p) \/ AlreadyReleased(p) \/ RetainFails(p)
  <2>1. UNCHANGED <<cap, completion, operation, bundle, turn, kind>>
    BY <1>16 DEF IssueFails, RetainFails, RejectRead, GateLimit, ToReject, StartMain, Reread,
       PrepareRead, PrepareConverges, LoseCas, ReleaseRefused, AlreadyReleased
  <2> QED BY <2>1, TurnWriteSound
<1> QED BY <1>1, <1>2, <1>3, <1>4, <1>5, <1>6, <1>7, <1>8, <1>9, <1>10, <1>11, <1>12,
          <1>13, <1>14, <1>15, <1>16 DEF Progress

\* No step leaves the stores at odds with one another.
LEMMA StoresStep == IInv /\ [Next]_vars => StoresSound'
<1> SUFFICES ASSUME IInv, [Next]_vars PROVE StoresSound'
  OBVIOUS
<1> USE DEF outboxVars, turnVars, syncVars
<1>a. TypeOK /\ StoreTypes /\ Owners /\ StoresSound /\ Handlers /\ SyncsSound
  BY DEF IInv, TypeOK, StoreTypes, CapTypeOK, CompletionTypeOK, PreparationTypeOK,
     Caps, Operations, Bundles
<1>b. turn \in [Turns -> [state : TurnStates, bundle : BOOLEAN, unit : Units \cup {None}]]
  BY <1>a DEF TypeOK, ControlTypeOK
<1>1. ASSUME NEW p \in Processors, Progress(p) PROVE StoresSound'
  <2>1. Live(p)
    BY <1>1, OnlyRunning
  <2>2. PICK t \in Turns : t = T(p)
    BY <2>1, <1>a DEF Owners
  <2> QED BY <1>1, <2>2, <1>a, ProgressSound DEF Handlers
\* The steps that write no record.
<1>2. CASE \/ UNCHANGED vars
           \/ ArmLatch
           \/ \E p \in Processors : Crash(p)
           \/ \E s \in Syncs : SyncCrash(s)
           \/ \E p \in Processors, t \in Turns : StartReplay(p, t)
           \/ \E p \in Processors, t \in Turns, at \in ReleaseTimes : StartRelease(p, t, at)
           \/ \E s \in Syncs, t \in Turns, u \in Units : SyncStart(s, t, u)
           \/ \E t \in Turns : Lapse(t)
  <2>1. UNCHANGED <<cap, completion, operation, bundle, turn, kind>>
    BY <1>2
       DEF vars, ArmLatch, Arm, Crash, SyncCrash, StartReplay, StartRelease, SyncStart, Lapse
  <2> QED BY <2>1, <1>a, TurnWriteSound
<1>3. ASSUME NEW p \in Processors, NEW t \in Turns, Reserve(p, t) PROVE StoresSound'
  <2>1. \A x \in Turns : turn'[x].state = "ready_to_apply_shadow_only" => turn'[x] = turn[x]
    BY <1>3, <1>b DEF Reserve, ConsumeLatch
  <2> QED BY <1>3, <2>1, <1>a, TurnWriteSound DEF Reserve
<1>4. ASSUME NEW t \in Turns, RetryPreparation(t) PROVE StoresSound'
  BY <1>4, <1>a, PrepareSound DEF RetryPreparation
<1>5. ASSUME NEW t \in Turns, Cancel(t) PROVE StoresSound'
  BY <1>5, <1>a, CancelSound DEF Cancel
<1>6. ASSUME NEW s \in Syncs, SyncProgress(s) PROVE StoresSound'
  <2> DEFINE t == sync[s].turn
             u == sync[s].unit
  <2>1. syncPc[s] # "idle" =>
          /\ t \in Turns /\ u \in Units
          /\ syncPc[s] \in {"bind", "turn"} => operation[t].unit = u
          /\ syncPc[s] = "turn" => bundle[t].state = "ready_to_apply"
    BY <1>a DEF SyncsSound, SyncOf
  <2> HIDE DEF t, u
  <2>2. CASE SyncFinalize(s)
    <3>1. FinalizeExpectation(t, u) /\ t \in Turns /\ u \in Units
      BY <2>1, <2>2 DEF SyncFinalize, t, u
    <3>2. OperationWrite(t)
      BY <3>1 DEF OperationWrite
    <3>3. ~CancelBeforeVisible(t)
      BY <2>2, <3>1, <1>a DEF SyncFinalize, CancelBeforeVisible, StoreTypes, Bundles
    <3>4. operation'[t].visible = "visible_released" => Decided(t)
      BY <3>1, <1>a DEF FinalizeExpectation, StoreTypes, Operations, StoresSound, RecordsOf
    <3> QED BY <2>2, <3>1, <3>2, <3>3, <3>4, <1>a, OperationWriteSound DEF SyncFinalize
  <2>3. CASE SyncPublish(s)
    <3>1. PublishCompleteUnit(t, u) /\ t \in Turns /\ u \in Units
      BY <2>1, <2>3 DEF SyncPublish, t, u
    <3>2. OperationWrite(t)
      BY <3>1 DEF OperationWrite
    <3>3. ~CancelBeforeVisible(t)
      BY <2>3, <3>1, <1>a DEF SyncPublish, CancelBeforeVisible, StoreTypes, Bundles
    <3>4. operation'[t].visible = "visible_released" => Decided(t)
      BY <3>1, <1>a DEF PublishCompleteUnit, StoreTypes, Operations, StoresSound, RecordsOf
    <3> QED BY <2>3, <3>1, <3>2, <3>3, <3>4, <1>a, OperationWriteSound DEF SyncPublish
  <2>4. CASE SyncBind(s)
    <3>1. BindCompleteUnit(t) /\ t \in Turns
      BY <2>1, <2>4 DEF SyncBind, t
    <3> QED BY <2>4, <3>1, <1>a, BundleWriteSound DEF SyncBind
  <2>5. CASE SyncTurn(s)
    <3>1. /\ t \in Turns /\ bundle[t].state = "ready_to_apply" /\ operation[t].unit = u
          /\ \A x \in Turns \ {t} : turn'[x] = turn[x]
          /\ turn'[t].unit = u
      BY <2>1, <2>5, <1>b DEF SyncTurn, t, u
    <3>2. bundle[t].unit = u
      BY <3>1, <1>a DEF StoresSound, RecordsOf
    <3> QED BY <2>5, <3>1, <3>2, <1>a, TurnWriteSound DEF SyncTurn
  <2>6. CASE SyncRefused(s)
    BY <2>6, <1>a, TurnWriteSound DEF SyncRefused
  <2> QED BY <1>6, <2>2, <2>3, <2>4, <2>5, <2>6 DEF SyncProgress
<1> QED BY <1>1, <1>2, <1>3, <1>4, <1>5, <1>6 DEF Next, Work, Fault

(***************************************************************************)
(* What the handlers rely on stays true.                                   *)
(***************************************************************************)

\* A handler that did not move still has what it had made sure of.
LEMMA HandlerKept ==
  ASSUME NEW q \in Processors, HandlerOf(q), pc'[q] = pc[q], job'[q] = job[q],
         NEW t \in Turns, t = T(q), RecordsOf(t), Permanent(t)
  PROVE  HandlerOf(q)'
BY DEF HandlerOf, Live, T, RecordsOf, Permanent, CapKept, CompletionKept, OperationKept

\* A handler that begins: by reserving a turn, replaying a completion or
\* releasing a decided one.
Begins(p, t) ==
  \/ Reserve(p, t) \/ StartReplay(p, t)
  \/ \E at \in ReleaseTimes : StartRelease(p, t, at)

\* It starts at one step, with a role, on that turn and with no effect yet.
LEMMA BeginFacts ==
  ASSUME TypeOK, NEW p \in Processors, NEW t \in Turns, Begins(p, t)
  PROVE  /\ LocalTypes'
         /\ \A q \in Processors \ {p} : pc'[q] = pc[q] /\ job'[q] = job[q]
         /\ ~Live(p)
         /\ job'[p].turn = t
         /\ \/ Reserve(p, t) /\ pc'[p] = "issue" /\ job'[p].role = "main"
            \/ StartReplay(p, t) /\ pc'[p] = "parse" /\ job'[p].role = "replay"
            \/ /\ \E at \in ReleaseTimes : StartRelease(p, t, at)
               /\ pc'[p] = "release" /\ job'[p].role = "release"
         /\ job'[p].effect = "none"
<1> USE DEF Live, At, Goto, LocalTypes
<1>1. /\ pc \in [Processors -> PCs] /\ job \in [Processors -> Jobs]
      /\ completion \in [Turns -> Records] /\ due \in [Turns -> BOOLEAN]
  BY DEF TypeOK, CompletionTypeOK
<1>2. CASE Reserve(p, t)
  <2>1. [NoJob EXCEPT !.turn = t] \in Jobs
    BY NewJobs
  <2>2. /\ pc' \in [Processors -> PCs] /\ job' \in [Processors -> Jobs]
        /\ \A q \in Processors \ {p} : pc'[q] = pc[q] /\ job'[q] = job[q]
        /\ pc[p] = "idle" /\ pc'[p] = "issue" /\ job'[p] = [NoJob EXCEPT !.turn = t]
    BY <1>1, <1>2, <2>1 DEF Reserve, PCs
  <2> QED BY <1>2, <2>2 DEF NoJob
<1>3. CASE StartReplay(p, t)
  <2> DEFINE j == [NoJob EXCEPT !.turn = t, !.role = "replay", !.late = due[t],
                                !.seen = completion[t]]
  <2>1. j \in Jobs
    BY <1>1, NewJobs
  <2>2. j.turn = t /\ j.role = "replay" /\ j.effect = "none"
    BY DEF NoJob
  <2> HIDE DEF j
  <2>3. /\ pc' \in [Processors -> PCs] /\ job' \in [Processors -> Jobs]
        /\ \A q \in Processors \ {p} : pc'[q] = pc[q] /\ job'[q] = job[q]
        /\ pc[p] = "idle" /\ pc'[p] = "parse" /\ job'[p] = j
    <3>1. job' = [job EXCEPT ![p] = j]
      BY <1>3 DEF StartReplay, j
    <3> QED BY <1>1, <1>3, <2>1, <3>1 DEF StartReplay, PCs
  <2> QED BY <1>3, <2>2, <2>3

<1>4. CASE \E at \in ReleaseTimes : StartRelease(p, t, at)
  <2>1. PICK at \in ReleaseTimes : StartRelease(p, t, at)
    BY <1>4
  <2> DEFINE j == [NoJob EXCEPT !.turn = t, !.role = "release", !.at = at]
  <2>2. j \in Jobs
    BY NewJobs
  <2>3. j.turn = t /\ j.role = "release" /\ j.effect = "none"
    BY DEF NoJob
  <2> HIDE DEF j
  <2>4. /\ pc' \in [Processors -> PCs] /\ job' \in [Processors -> Jobs]
        /\ \A q \in Processors \ {p} : pc'[q] = pc[q] /\ job'[q] = job[q]
        /\ pc[p] = "idle" /\ pc'[p] = "release" /\ job'[p] = j
    <3>1. job' = [job EXCEPT ![p] = j]
      BY <2>1 DEF StartRelease, j
    <3> QED BY <1>1, <2>1, <2>2, <3>1 DEF StartRelease, PCs
  <2> QED BY <1>4, <2>3, <2>4
<1> QED BY <1>2, <1>3, <1>4 DEF Begins

\* Handlers move only in their own steps.
LEMMA LocalSteps ==
  ASSUME [Next]_vars
  PROVE  \/ UNCHANGED <<pc, job>>
         \/ \E p \in Processors : Progress(p) \/ Crash(p)
         \/ \E p \in Processors, t \in Turns : Begins(p, t)
<1>1. CASE UNCHANGED vars
  BY <1>1 DEF vars
<1>2. CASE \/ ArmLatch
           \/ \E s \in Syncs : SyncProgress(s) \/ SyncCrash(s)
           \/ \E s \in Syncs, t \in Turns, u \in Units : SyncStart(s, t, u)
           \/ \E t \in Turns : Lapse(t) \/ RetryPreparation(t) \/ Cancel(t)
  BY <1>2 DEF ArmLatch, SyncProgress, SyncFinalize, SyncPublish, SyncBind, SyncTurn,
     SyncRefused, SyncCrash, SyncStart, Lapse, RetryPreparation, Cancel
<1> QED BY <1>1, <1>2 DEF Next, Work, Fault, Begins

\* Every step keeps what every handler relies on.
LEMMA HandlersStep == IInv /\ [Next]_vars => Handlers' /\ LocalTypes'
<1> SUFFICES ASSUME IInv, [Next]_vars PROVE Handlers' /\ LocalTypes'
  OBVIOUS
<1>a. TypeOK /\ StoreTypes /\ Owners /\ StoresSound /\ Handlers /\ SyncsSound /\ LocalTypes
  BY DEF IInv, TypeOK, LocalTypes, StoreTypes, CapTypeOK, CompletionTypeOK, PreparationTypeOK,
     Caps, Operations, Bundles
<1>b. StoreTypes' /\ \A t \in Turns : Permanent(t)
  BY <1>a, StepWrites, WritesKeep
\* Whoever moves, the others keep what they rely on.
<1>1. ASSUME NEW q \in Processors, pc'[q] = pc[q], job'[q] = job[q] PROVE HandlerOf(q)'
  <2>1. CASE Live(q)
    <3>1. PICK t \in Turns : t = T(q)
      BY <2>1, <1>a DEF Owners
    <3> QED BY <1>1, <3>1, <1>a, <1>b, HandlerKept DEF Handlers, StoresSound
  <2>2. CASE ~Live(q)
    BY <1>1, <2>2, IdleHandler DEF Live
  <2> QED BY <2>1, <2>2
<1>2. CASE UNCHANGED <<pc, job>>
  BY <1>1, <1>2, <1>a DEF Handlers, LocalTypes
<1>3. ASSUME NEW p \in Processors, Progress(p) PROVE Handlers' /\ LocalTypes'
  <2>1. PICK t \in Turns : t = T(p)
    BY <1>3, <1>a, OnlyRunning DEF Owners
  <2>2. Moves(p) /\ HandlerOf(p)'
    BY <1>3, <2>1, <1>a, <1>b, ProgressSteps DEF Handlers
  <2> QED BY <2>2, <1>1 DEF Moves, Handlers
<1>4. ASSUME NEW p \in Processors, Crash(p) PROVE Handlers' /\ LocalTypes'
  <2>1. Moves(p) /\ pc'[p] = "idle"
    BY <1>4, <1>a, LeaveMoves DEF Crash, Live
  <2> QED BY <2>1, <1>1, IdleHandler DEF Moves, Handlers
<1>5. ASSUME NEW p \in Processors, NEW t \in Turns, Begins(p, t) PROVE Handlers' /\ LocalTypes'
  <2>1. /\ LocalTypes'
        /\ \A q \in Processors \ {p} : pc'[q] = pc[q] /\ job'[q] = job[q]
        /\ job'[p].turn = t /\ job'[p].effect = "none"
        /\ \/ Reserve(p, t) /\ pc'[p] = "issue"
           \/ StartReplay(p, t) /\ pc'[p] = "parse"
           \/ (\E at \in ReleaseTimes : StartRelease(p, t, at)) /\ pc'[p] = "release"
    BY <1>5, <1>a, BeginFacts
  <2>2. completion[t] # NoRecord => completion'[t] # NoRecord
    BY <1>b DEF Permanent, CompletionKept
  <2>3. pc'[p] # "issue" => completion[t] # NoRecord
    <3>1. StartReplay(p, t) => completion[t] # NoRecord
      BY DEF StartReplay
    <3>2. ASSUME NEW at \in ReleaseTimes, StartRelease(p, t, at) PROVE completion[t] # NoRecord
      BY <3>2 DEF StartRelease, ReleaseAuthorized, Decisions, NoRecord
    <3> QED BY <2>1, <3>1, <3>2
  <2>4. HandlerOf(p)'
    BY <2>1, <2>2, <2>3 DEF HandlerOf, T
  <2> QED BY <2>1, <2>4, <1>1 DEF Handlers
<1> QED BY <1>2, <1>3, <1>4, <1>5, LocalSteps

(***************************************************************************)
(* The latch and the receipts.                                             *)
(***************************************************************************)
\* The record set of the receipts.
Receipts == [state : TurnStates, bundle : BOOLEAN, unit : Units \cup {None}]

\* A receipt is written by the handler that reserved the turn, when it ends, or
\* by a sync of a turn that waits for its unit.
LEMMA ReceiptWrites ==
  ASSUME IInv, [Next]_vars
  PROVE  \/ UNCHANGED <<latch, turn>>
         \/ UNCHANGED turn /\ Arm
         \/ \E p \in Processors, t \in Turns : Reserve(p, t)
         \/ UNCHANGED latch /\ \E p \in Processors : FailTurn(p) \/ FinishTurn(p)
         \/ UNCHANGED latch /\ \E s \in Syncs : SyncTurn(s)
<1> USE DEF turnVars, syncVars, outboxVars, Keep
<1>1. CASE UNCHANGED vars
  BY <1>1 DEF vars
<1>2. ASSUME NEW p \in Processors, Progress(p), ~FailTurn(p), ~FinishTurn(p)
      PROVE  UNCHANGED <<latch, turn>>
  BY <1>2 DEF Progress, IssueCapability, IssueFails, GiveUp, RetainCompletion, RetainFails,
     Parse, RejectRead, RejectWrite, GateLimit, RecordOperation, StartMain, RecordParse, Reread,
     Decide, PrepareRead, PrepareCommit, PrepareConverges, PrepareFails, RecordDecision,
     LoseCas, ReleaseOperation, ReleaseRefused, AlreadyReleased, Reconcile, ConfirmRelease
<1>3. ASSUME NEW s \in Syncs, SyncProgress(s), ~SyncTurn(s)
      PROVE  UNCHANGED <<latch, turn>>
  BY <1>3 DEF SyncProgress, SyncFinalize, SyncPublish, SyncBind, SyncRefused
<1>4. CASE \/ \E p \in Processors : Crash(p)
           \/ \E s \in Syncs : SyncCrash(s)
           \/ \E p \in Processors, t \in Turns : StartReplay(p, t)
           \/ \E p \in Processors, t \in Turns, at \in ReleaseTimes : StartRelease(p, t, at)
           \/ \E s \in Syncs, t \in Turns, u \in Units : SyncStart(s, t, u)
           \/ \E t \in Turns : Lapse(t) \/ RetryPreparation(t) \/ Cancel(t)
  BY <1>4 DEF Crash, SyncCrash, StartReplay, StartRelease, SyncStart, Lapse,
     RetryPreparation, Cancel
<1>5. ArmLatch => UNCHANGED turn /\ Arm
  BY DEF ArmLatch
<1>6. ASSUME NEW p \in Processors, FailTurn(p) \/ FinishTurn(p) PROVE UNCHANGED latch
  BY <1>6 DEF FailTurn, FinishTurn
<1>7. ASSUME NEW s \in Syncs, SyncTurn(s) PROVE UNCHANGED latch
  BY <1>7 DEF SyncTurn
<1> QED BY <1>1, <1>2, <1>3, <1>4, <1>5, <1>6, <1>7 DEF Next, Work, Fault

\* The handler that reserved a turn and still runs.
Serves(p, t) == Live(p) /\ job[p].role = "main" /\ T(p) = t

\* A turn that waits for its unit waits until a sync makes it ready.
WaitKept(t) ==
  turn[t].state \in Waiting =>
    turn'[t].state \in Waiting

\* Every step keeps the latch on the unsettled turn and each turn with the one
\* handler that reserved it.
LEMMA ReceiptsStep ==
  IInv /\ [Next]_vars =>
    LatchGuardsUnsettledTurns' /\ ControlTypeOK' /\ Owners' /\ \A t \in Turns : WaitKept(t)
<1> SUFFICES ASSUME IInv, [Next]_vars
             PROVE  /\ LatchGuardsUnsettledTurns' /\ ControlTypeOK' /\ Owners'
                    /\ \A t \in Turns : WaitKept(t)
  OBVIOUS
<1>a. /\ TypeOK /\ Owners /\ Handlers /\ SyncsSound /\ LocalTypes /\ LatchGuardsUnsettledTurns
      /\ latch \in [state : {"unarmed", "armed", "consumed"}, turn : Turns \cup {None}]
      /\ turn \in [Turns -> Receipts]
  BY DEF IInv, TypeOK, LocalTypes, ControlTypeOK, Receipts
<1>b. LocalTypes'
  BY HandlersStep
\* The receipts that this step writes, and what it makes of them.
<1>1. \/ UNCHANGED <<latch, turn>>
      \/ Arm /\ UNCHANGED turn
      \/ \E p \in Processors, t \in Turns :
           /\ Reserve(p, t)
           /\ turn[t].state = "absent" /\ turn'[t].state = "reserved"
           /\ turn' \in [Turns -> Receipts]
           /\ \A x \in Turns \ {t} : turn'[x] = turn[x]
      \/ /\ UNCHANGED latch
         /\ \E t \in Turns :
              /\ \/ \E p \in Processors : Serves(p, t) /\ Leave(p)
                 \/ turn[t].state \in Waiting
                    /\ turn'[t].state = "ready_to_apply_shadow_only"
                    /\ UNCHANGED <<pc, job>>
              /\ turn' \in [Turns -> Receipts] /\ turn'[t].state # "absent"
              /\ \A x \in Turns \ {t} : turn'[x] = turn[x]
  <2>1. ASSUME NEW p \in Processors, NEW t \in Turns, Reserve(p, t)
        PROVE  /\ turn[t].state = "absent" /\ turn'[t].state = "reserved"
               /\ turn' \in [Turns -> Receipts]
               /\ \A x \in Turns \ {t} : turn'[x] = turn[x]
    BY <2>1, <1>a DEF Reserve, ConsumeLatch, Receipts, TurnStates
  <2>2. ASSUME NEW p \in Processors, FailTurn(p) \/ FinishTurn(p)
        PROVE  \E t \in Turns : /\ Serves(p, t) /\ Leave(p)
                                /\ turn' \in [Turns -> Receipts] /\ turn'[t].state # "absent"
                                /\ \A x \in Turns \ {t} : turn'[x] = turn[x]
    <3>1. pc[p] \in MainPCs /\ Leave(p)
      BY <2>2 DEF FailTurn, FinishTurn, At, MainPCs
    <3>2. PICK t \in Turns : t = T(p)
      BY <3>1, <1>a DEF Owners, Live, MainPCs
    <3>3. Serves(p, t)
      BY <3>1, <3>2, <1>a DEF Owners, Serves, Live, MainPCs
    <3>4. CASE FailTurn(p)
      <4>1. job[p].target \in {"activation_failed", "provider_failed"}
        BY <3>4, <1>a DEF FailTurn, At, Handlers, HandlerOf
      <4> QED BY <3>1, <3>2, <3>3, <3>4, <4>1, <1>a
                 DEF FailTurn, UpdateTurn, Receipts, TurnStates
    <3>5. CASE FinishTurn(p)
      <4>1. TurnOutcome(job[p].target, job[p].effect) \in TurnStates \ {"absent"}
        BY DEF TurnOutcome, TurnStates
      <4>2. PICK o \in TurnStates \ {"absent"}, b \in BOOLEAN :
              turn' = [turn EXCEPT ![t].state = o, ![t].bundle = b]
        BY <3>2, <3>5, <4>1 DEF FinishTurn
      <4>3. /\ turn' \in [Turns -> Receipts] /\ turn'[t].state = o
            /\ \A x \in Turns \ {t} : turn'[x] = turn[x]
        BY <4>2, <1>a DEF Receipts
      <4> QED BY <3>1, <3>3, <4>3
    <3> QED BY <2>2, <3>4, <3>5
  <2>3. ASSUME NEW s \in Syncs, SyncTurn(s)
        PROVE  \E t \in Turns :
                 /\ turn[t].state \in Waiting
                 /\ turn'[t].state = "ready_to_apply_shadow_only"
                 /\ turn' \in [Turns -> Receipts]
                 /\ \A x \in Turns \ {t} : turn'[x] = turn[x]
                 /\ UNCHANGED <<pc, job>>
    <3>1. PICK t \in Turns : /\ t = sync[s].turn /\ sync[s].unit \in Units
                             /\ turn[t].state \in Waiting
      BY <2>3, <1>a DEF SyncTurn, SyncsSound, SyncOf
    <3> QED BY <2>3, <3>1, <1>a DEF SyncTurn, Receipts, TurnStates, Waiting
  <2> QED BY <2>1, <2>2, <2>3, ReceiptWrites
<1>2. latch' \in [state : {"unarmed", "armed", "consumed"}, turn : Turns \cup {None}]
  BY <1>1, <1>a DEF Arm, Reserve, ConsumeLatch
<1>3. turn' \in [Turns -> Receipts]
  BY <1>1, <1>a
<1>4. LatchGuardsUnsettledTurns'
  <2> USE IdentityAssumption DEF LatchGuardsUnsettledTurns, LatchHolds, Settled
  <2>1. CASE UNCHANGED <<latch, turn>>
    BY <2>1, <1>a
  <2>2. CASE Arm /\ UNCHANGED turn
    BY <2>2, <1>a DEF Arm
  <2>3. ASSUME NEW p \in Processors, NEW t \in Turns, Reserve(p, t),
               turn'[t].state = "reserved", \A x \in Turns \ {t} : turn'[x] = turn[x]
        PROVE  LatchGuardsUnsettledTurns'
    BY <2>3, <1>a DEF Reserve, ConsumeLatch
  <2>4. ASSUME NEW t \in Turns, UNCHANGED latch,
               turn[t].state = "reserved" \/ turn'[t].state = "ready_to_apply_shadow_only",
               \A x \in Turns \ {t} : turn'[x] = turn[x]
        PROVE  LatchGuardsUnsettledTurns'
    BY <2>4, <1>a
  <2>5. ASSUME NEW p \in Processors, NEW t \in Turns, Serves(p, t)
        PROVE  turn[t].state = "reserved"
    BY <2>5, <1>a DEF Serves, Owners
  <2> QED BY <1>1, <2>1, <2>2, <2>3, <2>4, <2>5
<1>5. Owners'
  \* Who runs after the step ran before it, on the same turn, or has just begun.
  <2>1. ASSUME NEW p \in Processors, pc'[p] # "idle"
        PROVE  \/ /\ Live(p) /\ job'[p].turn = T(p) /\ job'[p].role = job[p].role
                  /\ pc'[p] \in MainPCs => job[p].role = "main"
               \/ /\ ~Live(p) /\ \A q \in Processors \ {p} : pc'[q] = pc[q]
                  /\ \E t \in Turns :
                       /\ job'[p].turn = t
                       /\ pc'[p] \in MainPCs => job'[p].role = "main"
                       /\ job'[p].role = "main" => Reserve(p, t)
    <3>1. CASE pc'[p] = pc[p] /\ job'[p] = job[p]
      BY <2>1, <3>1, <1>a DEF Live, T, Owners
    <3>2. ASSUME NEW q \in Processors, Progress(q) \/ Crash(q) PROVE Moves(q)
      <4>1. CASE Crash(q)
        BY <4>1, <1>a, LeaveMoves DEF Crash, Live
      <4>2. CASE Progress(q)
        <5>1. StoreTypes /\ StoresSound /\ Writes
          BY <1>a, StepWrites DEF IInv, TypeOK, StoreTypes, CapTypeOK, CompletionTypeOK,
             PreparationTypeOK, Caps, Operations, Bundles
        <5>2. PICK t \in Turns : t = T(q)
          BY <4>2, <1>a, OnlyRunning DEF Owners
        <5>3. StoreTypes' /\ Permanent(t)
          BY <5>1, WritesKeep
        <5> QED BY <4>2, <5>1, <5>2, <5>3, <1>a, ProgressSteps DEF Handlers
      <4> QED BY <3>2, <4>1, <4>2
    <3>3. CASE \E q \in Processors : Progress(q) \/ Crash(q)
      BY <2>1, <3>1, <3>2, <3>3 DEF Moves
    <3>4. CASE \E q \in Processors, t \in Turns : Begins(q, t)
      <4>1. PICK q \in Processors, t \in Turns : Begins(q, t)
        BY <3>4
      <4>2. CASE q = p
        BY <4>1, <4>2, <1>a, BeginFacts DEF MainPCs
      <4>3. CASE q # p
        BY <4>1, <4>3, <1>a, <3>1, BeginFacts
      <4> QED BY <4>2, <4>3
    <3> QED BY <3>1, <3>3, <3>4, LocalSteps
  <2>2. ASSUME NEW p \in Processors, NEW t \in Turns, Serves(p, t), pc'[p] # "idle"
        PROVE  turn'[t].state = "reserved"
    <3>1. turn[t].state = "reserved"
      BY <2>2, <1>a DEF Serves, Owners
    <3>2. ASSUME NEW q \in Processors, Serves(q, t), Leave(q) PROVE FALSE
      <4>1. q = p
        BY <2>2, <3>2, <1>a DEF Serves, Owners
      <4> QED BY <2>2, <3>2, <4>1, <1>a DEF Leave, LocalTypes
    <3> QED BY <1>1, <3>1, <3>2 DEF Waiting
  <2>3. ASSUME NEW p \in Processors, NEW t \in Turns, Reserve(p, t)
        PROVE  turn'[t].state = "reserved" /\ turn[t].state = "absent"
    BY <2>3, <1>a DEF Reserve, ConsumeLatch, Receipts
  <2>4. ASSUME NEW p \in Processors, pc'[p] # "idle"
        PROVE  /\ job'[p].turn \in Turns
               /\ pc'[p] \in MainPCs => job'[p].role = "main"
               /\ job'[p].role = "main" => turn'[job'[p].turn].state = "reserved"
    BY <2>1, <2>2, <2>3, <2>4, <1>a DEF Owners, Serves
  <2>5. ASSUME NEW p \in Processors, NEW q \in Processors,
               pc'[p] # "idle", job'[p].role = "main", pc'[q] # "idle", job'[q].role = "main",
               job'[p].turn = job'[q].turn
        PROVE  p = q
    <3>1. CASE Live(p) /\ Live(q)
      BY <2>1, <2>5, <3>1, <1>a DEF Owners
    <3>2. CASE ~Live(p) /\ ~Live(q)
      BY <2>1, <2>5, <3>2 DEF Live
    <3>3. ASSUME NEW r \in Processors, NEW o \in Processors, NEW t \in Turns,
                 Reserve(r, t), Serves(o, t)
          PROVE  FALSE
      BY <2>3, <3>3, <1>a DEF Serves, Owners
    <3>4. CASE Live(p) /\ ~Live(q)
      BY <2>1, <2>5, <3>3, <3>4, <1>a DEF Serves, Owners
    <3>5. CASE ~Live(p) /\ Live(q)
      BY <2>1, <2>5, <3>3, <3>5, <1>a DEF Serves, Owners
    <3> QED BY <3>1, <3>2, <3>4, <3>5
  <2>6. \A p \in Processors : pc'[p] = "idle" => pc'[p] \notin MainPCs
    BY DEF MainPCs
  <2> QED BY <2>4, <2>5, <2>6 DEF Owners, Live, T
<1>6. ASSUME NEW t \in Turns PROVE WaitKept(t)
  <2>1. ASSUME NEW p \in Processors, Serves(p, t) PROVE turn[t].state = "reserved"
    BY <2>1, <1>a DEF Serves, Owners
  <2> QED BY <1>1, <2>1 DEF WaitKept, Waiting
<1> QED BY <1>2, <1>3, <1>4, <1>5, <1>6 DEF ControlTypeOK, Receipts

(***************************************************************************)
(* What the syncs rely on stays true.                                      *)
(***************************************************************************)
\* The types of the syncs' variables.
SyncTypes ==
  /\ syncPc \in [Syncs -> {"idle", "finalize", "publish", "bind", "turn"}]
  /\ sync \in [Syncs -> [turn : Turns \cup {None}, unit : Units \cup {None}]]

\* A sync that did not move still has what it relied on.
LEMMA SyncKept ==
  ASSUME NEW s \in Syncs, SyncOf(s), syncPc'[s] = syncPc[s], sync'[s] = sync[s],
         \A t \in Turns : Permanent(t) /\ WaitKept(t)
  PROVE  SyncOf(s)'
<1>1. CASE syncPc[s] = "idle"
  BY <1>1 DEF SyncOf
<1>2. CASE syncPc[s] # "idle"
  <2>1. PICK t \in Turns, u \in Units :
          /\ t = sync[s].turn /\ u = sync[s].unit
          /\ turn[t].state \in Waiting
          /\ syncPc[s] \in {"publish", "bind", "turn"} => operation[t].expected = u
          /\ syncPc[s] \in {"bind", "turn"} => operation[t].unit = u
          /\ syncPc[s] = "turn" => bundle[t].state = "ready_to_apply"
    BY <1>2 DEF SyncOf
  <2>2. u # None
    BY IdentityAssumption
  <2>3. OperationKept(t) /\ BundleKept(t) /\ WaitKept(t)
    BY DEF Permanent
  <2> QED BY <2>1, <2>2, <2>3 DEF SyncOf, OperationKept, BundleKept, WaitKept
<1> QED BY <1>1, <1>2

\* Every step keeps what every sync relies on.
LEMMA SyncsStep == IInv /\ [Next]_vars => SyncsSound' /\ SyncTypes'
<1> SUFFICES ASSUME IInv, [Next]_vars PROVE SyncsSound' /\ SyncTypes'
  OBVIOUS
<1> USE DEF syncVars
<1>a. TypeOK /\ StoreTypes /\ Owners /\ Handlers /\ SyncsSound /\ SyncTypes
  BY DEF IInv, TypeOK, StoreTypes, CapTypeOK, CompletionTypeOK, PreparationTypeOK,
     Caps, Operations, Bundles, SyncTypes
<1>b. \A t \in Turns : Permanent(t) /\ WaitKept(t)
  BY <1>a, StepWrites, WritesKeep, ReceiptsStep
\* Whichever sync moves, the others keep what they rely on.
<1>c. ASSUME NEW s \in Syncs, syncPc'[s] = syncPc[s], sync'[s] = sync[s] PROVE SyncOf(s)'
  BY <1>c, <1>a, <1>b, SyncKept DEF SyncsSound
<1>d. ASSUME NEW s \in Syncs, SyncTypes', SyncOf(s)',
             \A r \in Syncs \ {s} : syncPc'[r] = syncPc[r] /\ sync'[r] = sync[r]
      PROVE  SyncsSound' /\ SyncTypes'
  BY <1>c, <1>d DEF SyncsSound
<1>1. CASE UNCHANGED <<syncPc, sync>>
  BY <1>1, <1>a, <1>c DEF SyncsSound, SyncTypes
<1>2. ASSUME NEW s \in Syncs, SyncLeave(s) PROVE SyncsSound' /\ SyncTypes'
  <2>1. /\ SyncTypes' /\ syncPc'[s] = "idle"
        /\ \A r \in Syncs \ {s} : syncPc'[r] = syncPc[r] /\ sync'[r] = sync[r]
    BY <1>2, <1>a DEF SyncLeave, SyncTypes, NoSync
  <2> QED BY <2>1, <1>d DEF SyncOf
<1>3. ASSUME NEW s \in Syncs, NEW t \in Turns, NEW u \in Units, SyncStart(s, t, u)
      PROVE  SyncsSound' /\ SyncTypes'
  <2>1. /\ SyncTypes' /\ syncPc'[s] = "finalize" /\ sync'[s] = [turn |-> t, unit |-> u]
        /\ \A r \in Syncs \ {s} : syncPc'[r] = syncPc[r] /\ sync'[r] = sync[r]
    BY <1>3, <1>a DEF SyncStart, SyncTypes
  <2>2. turn'[t].state \in Waiting
    BY <1>3, <1>b DEF SyncStart, WaitKept, Waiting
  <2> QED BY <2>1, <2>2, <1>d DEF SyncOf
<1>4. ASSUME NEW s \in Syncs, SyncFinalize(s) \/ SyncPublish(s) \/ SyncBind(s)
      PROVE  SyncsSound' /\ SyncTypes'
  <2>1. PICK t \in Turns, u \in Units :
          /\ t = sync[s].turn /\ u = sync[s].unit
          /\ turn[t].state \in Waiting
          /\ syncPc[s] \in {"publish", "bind", "turn"} => operation[t].expected = u
          /\ syncPc[s] \in {"bind", "turn"} => operation[t].unit = u
    BY <1>4, <1>a DEF SyncFinalize, SyncPublish, SyncBind, SyncsSound, SyncOf
  <2>2. /\ turn'[t].state \in Waiting
        /\ operation[t].expected = u => operation'[t].expected = u
        /\ operation[t].unit = u => operation'[t].unit = u
    BY <2>1, <1>b, IdentityAssumption DEF Permanent, OperationKept, WaitKept
  <2>3. \E l \in {"publish", "bind", "turn"} :
          /\ SyncGoto(s, l)
          /\ l = "publish" => SyncFinalize(s)
          /\ l = "bind" => SyncPublish(s)
          /\ l = "turn" => SyncBind(s)
    BY <1>4 DEF SyncFinalize, SyncPublish, SyncBind
  <2>4. PICK l \in {"publish", "bind", "turn"} :
          /\ SyncGoto(s, l)
          /\ l = "publish" => SyncFinalize(s)
          /\ l = "bind" => SyncPublish(s)
          /\ l = "turn" => SyncBind(s)
    BY <2>3
  <2>5. /\ SyncTypes' /\ syncPc'[s] = l /\ sync'[s] = sync[s]
        /\ \A r \in Syncs \ {s} : syncPc'[r] = syncPc[r] /\ sync'[r] = sync[r]
    BY <2>4, <1>a DEF SyncGoto, SyncTypes
  <2>6. /\ SyncFinalize(s) => operation'[t].expected = u
        /\ SyncPublish(s) => operation'[t].expected = u /\ operation'[t].unit = u
        /\ SyncBind(s) => /\ operation'[t].expected = u /\ operation'[t].unit = u
                          /\ bundle'[t].state = "ready_to_apply"
    <3>1. SyncFinalize(s) => operation'[t].expected = u
      BY <2>1, <1>a DEF SyncFinalize, FinalizeExpectation, StoreTypes, Operations
    <3>2. SyncPublish(s) => operation'[t].expected = u /\ operation'[t].unit = u
      <4>1. SyncPublish(s) => operation'[t].unit = u
        BY <2>1, <1>a DEF SyncPublish, PublishCompleteUnit, StoreTypes, Operations
      <4> QED BY <4>1, <2>1, <2>2 DEF SyncPublish
    <3>3. SyncBind(s) => bundle'[t].state = "ready_to_apply"
      BY <2>1, <1>a DEF SyncBind, BindCompleteUnit, StoreTypes, Bundles
    <3>4. SyncBind(s) => operation'[t].expected = u /\ operation'[t].unit = u
      BY <2>1, <2>2 DEF SyncBind
    <3> QED BY <3>1, <3>2, <3>3, <3>4
  <2>7. SyncOf(s)'
    BY <2>1, <2>2, <2>4, <2>5, <2>6 DEF SyncOf
  <2> QED BY <2>5, <2>7, <1>d
<1>5. ASSUME NEW p \in Processors, Progress(p) PROVE UNCHANGED <<syncPc, sync>>
  BY <1>5 DEF Progress, IssueCapability, IssueFails, FailTurn, GiveUp,
     RetainCompletion, RetainFails, Parse, RejectRead, RejectWrite, GateLimit,
   RecordOperation, StartMain,
     RecordParse, Reread, Decide, PrepareRead, PrepareCommit, PrepareConverges,
     PrepareFails, RecordDecision, LoseCas, ReleaseOperation, ReleaseRefused,
     AlreadyReleased, Reconcile, ConfirmRelease, FinishTurn
<1>6. CASE \/ ArmLatch
           \/ \E p \in Processors : Crash(p)
           \/ \E p \in Processors, t \in Turns : Reserve(p, t) \/ StartReplay(p, t)
           \/ \E p \in Processors, t \in Turns, at \in ReleaseTimes : StartRelease(p, t, at)
           \/ \E t \in Turns : Lapse(t) \/ RetryPreparation(t) \/ Cancel(t)
  <2>1. UNCHANGED <<syncPc, sync>>
    BY <1>6 DEF ArmLatch, Crash, Reserve, StartReplay, StartRelease, Lapse, RetryPreparation,
       Cancel
  <2> QED BY <2>1, <1>1
<1>7. ASSUME NEW s \in Syncs, SyncTurn(s) \/ SyncRefused(s) \/ SyncCrash(s) PROVE SyncLeave(s)
  BY <1>7 DEF SyncTurn, SyncRefused, SyncCrash
<1>8. CASE UNCHANGED vars
  BY <1>8, <1>1 DEF vars
<1> QED BY <1>1, <1>2, <1>3, <1>4, <1>5, <1>6, <1>7, <1>8 DEF Next, Work, Fault, SyncProgress

(***************************************************************************)
(* The theorems.                                                           *)
(***************************************************************************)
\* The first state: nothing on record, nobody running.
LEMMA InitIInv == Init => IInv
<1> SUFFICES ASSUME Init PROVE IInv
  OBVIOUS
<1> USE DEF Init, CapInit, CompletionInit, PreparationInit, ControlInit
<1>1. TypeOK
  <2>1. CapTypeOK /\ CompletionTypeOK
    BY DEF CapTypeOK, CapStates, Codes, CompletionTypeOK, Records, NoRecord, CompletionStates
  <2>2. PreparationTypeOK /\ ControlTypeOK
    BY DEF PreparationTypeOK, VisibleStates, BundleStates, ControlTypeOK, TurnStates
  <2>3. pc \in [Processors -> PCs] /\ job \in [Processors -> Jobs]
    BY NewJobs DEF PCs
  <2> QED BY <2>1, <2>2, <2>3 DEF TypeOK, NoSync
<1>2. LatchGuardsUnsettledTurns /\ Owners /\ Handlers /\ SyncsSound
  BY DEF LatchGuardsUnsettledTurns, LatchHolds, Owners, Handlers, HandlerOf, SyncsSound, SyncOf,
     Live, MainPCs
<1>3. StoresSound
  BY DEF StoresSound, RecordsOf, NoRecord, Prepared, Decided, Decisions, Explained, Issued
<1> QED BY <1>1, <1>2, <1>3 DEF IInv

\* The invariant is inductive.
LEMMA IInvStep == IInv /\ [Next]_vars => IInv'
<1> SUFFICES ASSUME IInv, [Next]_vars PROVE IInv'
  OBVIOUS
<1>1. StoreTypes'
  <2>1. TypeOK /\ Owners /\ Handlers /\ SyncsSound /\ StoreTypes
    BY DEF IInv, TypeOK, StoreTypes, CapTypeOK, CompletionTypeOK, PreparationTypeOK,
       Caps, Operations, Bundles
  <2> QED BY <2>1, StepWrites, WritesKeep
<1>2. /\ ControlTypeOK' /\ LocalTypes' /\ SyncTypes'
      /\ LatchGuardsUnsettledTurns' /\ Owners' /\ StoresSound' /\ Handlers' /\ SyncsSound'
  BY StoresStep, HandlersStep, ReceiptsStep, SyncsStep
<1>3. due' \in [Turns -> BOOLEAN]
  <2>1. due \in [Turns -> BOOLEAN]
    BY DEF IInv, TypeOK
  <2>2. ASSUME NEW t \in Turns, Lapse(t) PROVE due' \in [Turns -> BOOLEAN]
    BY <2>1, <2>2 DEF Lapse
  <2>3. ASSUME NEW p \in Processors, Progress(p) PROVE UNCHANGED due
    BY <2>3 DEF Progress, IssueCapability, IssueFails, FailTurn, GiveUp,
       RetainCompletion, RetainFails, Parse, RejectRead, RejectWrite, GateLimit,
   RecordOperation, StartMain,
       RecordParse, Reread, Decide, PrepareRead, PrepareCommit, PrepareConverges,
       PrepareFails, RecordDecision, LoseCas, ReleaseOperation, ReleaseRefused,
       AlreadyReleased, Reconcile, ConfirmRelease, FinishTurn
  <2>4. ASSUME NEW s \in Syncs, SyncProgress(s) PROVE UNCHANGED due
    BY <2>4 DEF SyncProgress, SyncFinalize, SyncPublish, SyncBind, SyncTurn, SyncRefused
  <2>5. CASE \/ UNCHANGED vars
             \/ ArmLatch
             \/ \E p \in Processors : Crash(p)
             \/ \E s \in Syncs : SyncCrash(s)
             \/ \E p \in Processors, t \in Turns : Reserve(p, t) \/ StartReplay(p, t)
             \/ \E p \in Processors, t \in Turns, at \in ReleaseTimes : StartRelease(p, t, at)
             \/ \E s \in Syncs, t \in Turns, u \in Units : SyncStart(s, t, u)
             \/ \E t \in Turns : RetryPreparation(t) \/ Cancel(t)
    BY <2>1, <2>5 DEF vars, ArmLatch, Crash, SyncCrash, Reserve, StartReplay, StartRelease,
       SyncStart, RetryPreparation, Cancel
  <2> QED BY <2>1, <2>2, <2>3, <2>4, <2>5 DEF Next, Work, Fault
<1>4. TypeOK'
  BY <1>1, <1>2, <1>3 DEF TypeOK, StoreTypes, CapTypeOK, CompletionTypeOK, PreparationTypeOK,
     Caps, Operations, Bundles, LocalTypes, SyncTypes
<1> QED BY <1>2, <1>4 DEF IInv

\* The invariant holds in every reachable state.
THEOREM Invariant == Spec => []IInv
<1>1. Init => IInv
  BY InitIInv
<1>2. IInv /\ [Next]_vars => IInv'
  BY IInvStep
<1> QED BY <1>1, <1>2, PTL DEF Spec

\* Every record of the four stores and every handler's local state is well
\* formed, whatever interleaves (the four stores of a Gate-12 turn).
THEOREM TypesHold == Spec => []TypeOK
<1>1. IInv => TypeOK
  BY DEF IInv
<1> QED BY <1>1, Invariant, PTL

\* While a turn is not settled the latch is consumed and names it, so no other
\* turn can be reserved (Gate12ControlStore.arm, consume, update_turn).
THEOREM LatchHeld == Spec => []LatchGuardsUnsettledTurns
<1>1. IInv => LatchGuardsUnsettledTurns
  BY DEF IInv
<1> QED BY <1>1, Invariant, PTL

\* A visible response has a decision on record, and an explanation of what became
\* of its capability (release_visible).
THEOREM DecidedBeforeRelease == Spec => []ReleaseAfterDecision
<1>1. IInv => ReleaseAfterDecision
  BY DEF IInv, StoresSound, RecordsOf, ReleaseAfterDecision, Explained
<1> QED BY <1>1, Invariant, PTL

\* The links between capability, bundle, operation and receipt are the ones the
\* doctors look for, and a ready bundle has its response and its unit (prepare,
\* bind_complete_unit, bind_android_session_sync).
THEOREM BundlesGrounded == Spec => []ReadyIsGrounded
<1>1. IInv => ReadyIsGrounded
  <2> SUFFICES ASSUME IInv, NEW t \in Turns
               PROVE  /\ RegistryHolds(t, Prepared(t))
                      /\ Prepared(t) => cap[t].state = "prepared_consumed"
                      /\ bundle[t].state = "ready_to_apply" =>
                           /\ operation[t].visible = "visible_released"
                           /\ bundle[t].unit \in Units
                           /\ bundle[t].unit = operation[t].unit
                           /\ operation[t].unit = operation[t].expected
                      /\ turn[t].state = "ready_to_apply_shadow_only" =>
                           /\ bundle[t].state = "ready_to_apply"
                           /\ turn[t].unit = bundle[t].unit
    BY DEF ReadyIsGrounded
  <2>1. RecordsOf(t)
    BY DEF IInv, StoresSound
  <2> QED BY <2>1, IdentityAssumption DEF RecordsOf, RegistryHolds
<1> QED BY <1>1, Invariant, PTL

\* Only prepare's transaction and the outbox's retry insert a bundle; every other
\* step leaves whether there is one as it was.
LEMMA OnlyTwoAuthor ==
  ASSUME IInv, [Next]_vars, NEW t \in Turns
  PROVE  \/ Prepared(t)' = Prepared(t)
         \/ \E p \in Processors : PrepareCommit(p) /\ T(p) = t
         \/ RetryPreparation(t)
<1> DEFINE Goal == \/ Prepared(t)' = Prepared(t)
                   \/ \E p \in Processors : PrepareCommit(p) /\ T(p) = t
                   \/ RetryPreparation(t)
<1> USE DEF outboxVars, turnVars, syncVars
<1>a. bundle \in [Turns -> Bundles] /\ Owners
  BY DEF IInv, TypeOK, PreparationTypeOK, Bundles
<1>b. UNCHANGED bundle => Goal
  BY DEF Prepared
<1>1. ASSUME NEW x \in Turns, NEW op, InsertBundle(x, op), x # t PROVE UNCHANGED Prepared(t)
  BY <1>1, <1>a DEF InsertBundle, InitialBundle, Bundles, Prepared
<1>2. ASSUME NEW x \in Turns,
             ReconcileVisibleRelease(x) \/ CancelBeforeVisible(x) \/ BindCompleteUnit(x)
      PROVE  UNCHANGED Prepared(t)
  BY <1>2, <1>a DEF ReconcileVisibleRelease, CancelBeforeVisible, BindCompleteUnit, Bindable,
     Bundles, Prepared
<1>3. ASSUME NEW p \in Processors, Progress(p) PROVE Goal
  <2>1. T(p) \in Turns
    BY <1>3, <1>a, OnlyRunning DEF Owners
  <2>2. CASE PrepareCommit(p)
    BY <1>1, <2>1, <2>2 DEF PrepareCommit
  <2>3. CASE Reconcile(p)
    BY <1>2, <2>1, <2>3 DEF Reconcile
  <2>4. CASE UNCHANGED bundle
    BY <2>4, <1>b
  <2> QED BY <1>3, <2>2, <2>3, <2>4 DEF Progress, IssueCapability, IssueFails, FailTurn, GiveUp,
     RetainCompletion, RetainFails, Parse, RejectRead, RejectWrite, GateLimit,
   RecordOperation, StartMain,
     RecordParse, Reread, Decide, PrepareRead, PrepareConverges,
     PrepareFails, RecordDecision, LoseCas, ReleaseOperation, ReleaseRefused,
     AlreadyReleased, ConfirmRelease, FinishTurn
<1>4. ASSUME NEW x \in Turns, RetryPreparation(x) \/ Cancel(x) PROVE Goal
  <2>1. CASE RetryPreparation(x) /\ x # t
    BY <1>1, <2>1 DEF RetryPreparation
  <2>2. CASE Cancel(x)
    BY <1>2, <2>2 DEF Cancel
  <2> QED BY <1>4, <2>1, <2>2
<1>5. ASSUME NEW s \in Syncs, SyncProgress(s) PROVE Goal
  <2>1. syncPc[s] # "idle" => sync[s].turn \in Turns
    BY DEF IInv, SyncsSound, SyncOf
  <2>2. CASE SyncBind(s)
    BY <1>2, <2>1, <2>2 DEF SyncBind
  <2>3. CASE UNCHANGED bundle
    BY <2>3, <1>b
  <2> QED BY <1>5, <2>2, <2>3
          DEF SyncProgress, SyncFinalize, SyncPublish, SyncTurn, SyncRefused
<1>6. CASE \/ UNCHANGED vars
           \/ ArmLatch
           \/ \E p \in Processors : Crash(p)
           \/ \E s \in Syncs : SyncCrash(s)
           \/ \E p \in Processors, x \in Turns : Reserve(p, x) \/ StartReplay(p, x)
           \/ \E p \in Processors, x \in Turns, at \in ReleaseTimes : StartRelease(p, x, at)
           \/ \E s \in Syncs, x \in Turns, u \in Units : SyncStart(s, x, u)
           \/ \E x \in Turns : Lapse(x)
  <2>1. UNCHANGED bundle
    BY <1>6 DEF vars, ArmLatch, Crash, SyncCrash, Reserve, StartReplay, StartRelease,
       SyncStart, Lapse
  <2> QED BY <2>1, <1>b
<1> QED BY <1>3, <1>4, <1>5, <1>6 DEF Next, Work, Fault

\* Nothing is authored for a response that was released without a recorded
\* preparation failure, whoever is still preparing it: such a release is decided
\* and explained, so a handler at its commit finds the capability spent (prepare).
THEOREM AuthorshipEnds == Spec => NoAuthorshipAfterRelease
<1>1. IInv /\ [Next]_vars =>
        [\A t \in Turns :
           operation[t].visible = "visible_released" /\ ~operation[t].failed =>
             Prepared(t)' = Prepared(t)]_vars
  <2> SUFFICES ASSUME IInv, [Next]_vars, NEW t \in Turns,
                      operation[t].visible = "visible_released", ~operation[t].failed
               PROVE  Prepared(t)' = Prepared(t)
    OBVIOUS
  <2>1. ~RetryPreparation(t)
    BY DEF RetryPreparation
  <2>2. ASSUME NEW p \in Processors, PrepareCommit(p), T(p) = t PROVE FALSE
    <3>1. Issued(t)
      BY <2>2 DEF PrepareCommit, Consume
    <3>2. kind[t] = "misbound"
      BY <3>1 DEF IInv, StoresSound, RecordsOf, Explained
    <3>3. HandlerOf(p) /\ pc[p] = "commit"
      BY <2>2 DEF IInv, Handlers, PrepareCommit, At
    <3>4. kind[t] \in {"delta", "over_limit"}
      BY <2>2, <3>3 DEF HandlerOf, Live
    <3> QED BY <3>2, <3>4
  <2> QED BY <2>1, <2>2, OnlyTwoAuthor
<1> QED BY <1>1, Invariant, PTL DEF Spec, NoAuthorshipAfterRelease

=============================================================================
