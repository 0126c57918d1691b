------------------------- MODULE OutboxApplication -------------------------
(***************************************************************************)
(* The application half of the durable preparation outbox                  *)
(* (house_continuity_v1_2_durable_preparation_outbox_local.py): a bundle   *)
(* that is ready to apply is leased, applied to the working-set store by   *)
(* Gate1AtomicOutboxApplicationAdapter and marked in the outbox.  Outbox   *)
(* and working set are two SQLite files, so no transaction spans them, and *)
(* apply() is a sequence of separately committed steps.  Several workers   *)
(* share the files; a worker may stop anywhere (a crash, or an exception   *)
(* such as "database is locked" that leaves apply) and may outlive its     *)
(* lease: apply() checks it once, at its start.  Every caller takes one    *)
(* time stamp, `now`, and passes it to acquire_lease and to apply.         *)
(*                                                                         *)
(* A hash stands for the data it binds.  A record's revision counts its    *)
(* writes, and a compare-and-swap on (revision, sha256) is one on the      *)
(* revision.                                                               *)
(***************************************************************************)
EXTENDS Naturals, FiniteSets

CONSTANTS
  Bundles,      \* bundles in the outbox, unit bound and ready to apply
  Items,        \* working-set items
  Expected,     \* Expected[b][i]: revision b's operation on item i expects
  Workers,      \* apply() calls that can be in progress at once
  LeaseTime,    \* lease_expires_at - now
  MaxTime,      \* bound: last time stamp
  MaxAttempts,  \* bound: leases per bundle
  MaxRevision,  \* bound: revisions other authors write
  None

ASSUME ExpectedAssumption ==
  \A b \in Bundles : /\ DOMAIN Expected[b] \subseteq Items
                     /\ \A i \in DOMAIN Expected[b] : Expected[b][i] \in Nat
\* A bundle is authored against a revision the working set has reached.
ASSUME AuthoredAssumption ==
  \A b \in Bundles : \A i \in DOMAIN Expected[b] : Expected[b][i] <= 1
\* A worker's token is no null.
ASSUME WorkersAssumption == None \notin Workers
ASSUME BoundAssumption ==
  /\ LeaseTime \in Nat \ {0}
  /\ MaxTime \in Nat /\ MaxAttempts \in Nat /\ MaxRevision \in Nat

VARIABLES
  clock,      \* the host's clock
  bundle,     \* outbox_bundles
  lease,      \* worker_leases; token None when there is no row.  A caller draws
              \* a random token and keeps it for its own retries: its worker id
  receipts,   \* application_receipts and atomic_working_set_receipts, by key
  applied,    \* applied_receipts: bundles with a row
  committed,  \* working set, atomic_bundle_receipts: bundles with a row
  revision,   \* working set, current revision of each item
  effects,    \* history: how often each bundle's operations were appended
  pc, job     \* each worker's place in apply() and its local variables

outboxVars == <<bundle, lease, receipts, applied>>
workingSet == <<committed, revision, effects>>
vars == <<clock, outboxVars, workingSet, pc, job>>

Time == 0 .. MaxTime + LeaseTime
States == {"ready_to_apply", "applying", "applied", "conflict_recorded"}

\* The reason code is hashed into the conflict receipt's identity, so two
\* reasons are two receipts under the one key "conflict".
Reasons == {"stale_or_substituted_target", "stale_expected_revision"}
Keys == {"atomic", "semantic", "coverage"} \cup Reasons
\* Operators named Seeded... are deliberate faults, used by no definition: each
\* stands in for the definition after it to show that a property notices.
SeededNextKey == [atomic |-> "semantic", semantic |-> "mark_read"]

NextKey == [atomic |-> "semantic", semantic |-> "coverage", coverage |-> "mark_read"]

PCs == {"idle", "verify", "lookup", "preflight", "commit", "atomic", "semantic",
        "coverage", "conflict", "mark_read", "mark_row", "mark_write"}

NoLease == [token |-> None, expires |-> 0, revision |-> 0, attempt |-> 0]

NoJob == [bundle |-> None, now |-> 0, final |-> "applied", reason |-> None,
          attempts |-> 0, row |-> 0]

TypeOK ==
  /\ clock \in 0 .. MaxTime
  /\ bundle \in [Bundles -> [state : States, attempts : Nat, revision : Nat,
                             updated : Time]]
  /\ lease \in [Bundles -> [token : Workers \cup {None},
                            expires : Time, revision : Nat, attempt : Nat]]
  /\ receipts \in [Bundles -> SUBSET Keys]
  /\ applied \subseteq Bundles
  /\ committed \subseteq Bundles
  /\ effects \in [Bundles -> Nat]
  /\ revision \in [Items -> Nat]
  /\ pc \in [Workers -> PCs]
  /\ job \in [Workers -> [bundle : Bundles \cup {None}, now : Time,
                          final : {"applied", "conflict_recorded"},
                          reason : Reasons \cup {None},
                          attempts : Nat, row : Nat]]

Init ==
  /\ clock = 0
  /\ bundle = [b \in Bundles |-> [state |-> "ready_to_apply", attempts |-> 0,
                                  revision |-> 1, updated |-> 0]]
  /\ lease = [b \in Bundles |-> NoLease]
  /\ receipts = [b \in Bundles |-> {}]
  /\ applied = {}
  /\ committed = {}
  /\ effects = [b \in Bundles |-> 0]
  /\ revision = [i \in Items |-> 1]
  /\ pc = [w \in Workers |-> "idle"]
  /\ job = [w \in Workers |-> NoJob]

Goto(w, l) == pc' = [pc EXCEPT ![w] = l]

\* apply() returns or raises; its local state is gone.
Leave(w) ==
  /\ pc' = [pc EXCEPT ![w] = "idle"]
  /\ job' = [job EXCEPT ![w] = NoJob]

Stale(b) == \E i \in DOMAIN Expected[b] : revision[i] # Expected[b][i]

(***************************************************************************)
(* acquire_lease: one BEGIN IMMEDIATE transaction.                         *)
(***************************************************************************)
\* validate_outbox_transition: the edge exists and updated_at does not regress.
ValidTransition(from, event, b, at) ==
  /\ <<from, event>> \in
       {<<"ready_to_apply", "lease">>, <<"applying", "infrastructure_failure">>,
        <<"applying", "all_receipts_committed">>,
        <<"applying", "authoritative_conflict_receipt">>}
  /\ at >= bundle[b].updated

\* The bundle enters (or re-enters) "applying" for worker w.  `writes` is 2
\* when an expired lease is first written back as retryable_failure.
GrantLease(w, b, writes) ==
  LET rev == bundle[b].revision + writes
      n == bundle[b].attempts + 1 IN
  /\ n <= MaxAttempts
  /\ clock + LeaseTime \in Time
  /\ bundle' = [bundle EXCEPT ![b] = [state |-> "applying", attempts |-> n,
                                      revision |-> rev, updated |-> clock]]
  /\ lease' = [lease EXCEPT ![b] = [token |-> w, revision |-> rev,
                                    attempt |-> n, expires |-> clock + LeaseTime]]

Begin(w, b) ==
  /\ pc[w] = "idle"
  /\ Goto(w, "verify")
  /\ job' = [job EXCEPT ![w] = [NoJob EXCEPT !.bundle = b, !.now = clock]]
  /\ UNCHANGED <<clock, receipts, applied, workingSet>>

AcquireFirst(w, b) ==
  /\ bundle[b].state = "ready_to_apply"
  /\ ValidTransition("ready_to_apply", "lease", b, clock)
  /\ GrantLease(w, b, 1)
  /\ Begin(w, b)

\* Same token, lease still running: acquire_lease returns the bundle as it is
\* (apply_reviewed_bundle skips the call altogether and goes on to apply).
AcquireAgain(w, b) ==
  /\ bundle[b].state = "applying"
  /\ lease[b].token = w
  /\ lease[b].expires > clock
  /\ Begin(w, b)
  /\ UNCHANGED <<bundle, lease>>

\* An unexpired lease of another token raises worker_lease_active.
AcquireExpired(w, b) ==
  /\ bundle[b].state = "applying"
  /\ lease[b].token # None
  /\ lease[b].expires <= clock
  /\ ValidTransition("applying", "infrastructure_failure", b, clock)
  /\ GrantLease(w, b, 2)
  /\ Begin(w, b)

(***************************************************************************)
(* apply                                                                   *)
(***************************************************************************)
LeaseVerified(w, b) ==
  /\ bundle[b].state = "applying"
  /\ lease[b].token = w
  /\ lease[b].expires > job[w].now
  /\ lease[b].revision = bundle[b].revision

Verify(w) ==
  /\ pc[w] = "verify"
  /\ LeaseVerified(w, job[w].bundle)
  /\ Goto(w, "lookup")
  /\ UNCHANGED <<clock, outboxVars, workingSet, job>>

\* Terminal bundles return outcome(); otherwise a lease error is raised.
VerifyFails(w) ==
  /\ pc[w] = "verify"
  /\ ~LeaseVerified(w, job[w].bundle)
  /\ Leave(w)
  /\ UNCHANGED <<clock, outboxVars, workingSet>>

\* existing_atomic is read in its own implicit transaction.
Lookup(w) ==
  /\ pc[w] = "lookup"
  /\ Goto(w, IF job[w].bundle \in committed THEN "commit" ELSE "preflight")
  /\ UNCHANGED <<clock, outboxVars, workingSet, job>>

Conflict(w, reason) ==
  /\ Goto(w, "conflict")
  /\ job' = [job EXCEPT ![w].reason = reason, ![w].final = "conflict_recorded"]

\* The targets are read after existing_atomic and before the transaction.
PreflightPasses(w) ==
  /\ pc[w] = "preflight"
  /\ ~Stale(job[w].bundle)
  /\ Goto(w, "commit")
  /\ UNCHANGED <<clock, outboxVars, workingSet, job>>

PreflightConflicts(w) ==
  /\ pc[w] = "preflight"
  /\ Stale(job[w].bundle)
  /\ Conflict(w, "stale_or_substituted_target")
  /\ UNCHANGED <<clock, outboxVars, workingSet>>

\* outbox_bundle_transaction: events, items, coverage and the bundle receipt
\* commit together.
CommitOperations(b) ==
  /\ committed' = committed \cup {b}
  /\ revision' = [i \in Items |-> IF i \in DOMAIN Expected[b]
                                    THEN revision[i] + 1 ELSE revision[i]]
  /\ effects' = [effects EXCEPT ![b] = @ + 1]

\* Fault: the bundle receipt and the revisions are not looked at again.
SeededCommit(w) ==
  /\ pc[w] = "commit"
  /\ CommitOperations(job[w].bundle)
  /\ Goto(w, "atomic")
  /\ UNCHANGED <<clock, outboxVars, job>>

CommitFresh(w) ==
  /\ pc[w] = "commit"
  /\ job[w].bundle \notin committed
  /\ ~Stale(job[w].bundle)
  /\ CommitOperations(job[w].bundle)
  /\ Goto(w, "atomic")
  /\ UNCHANGED <<clock, outboxVars, job>>

\* The receipt is there already: the same receipts are rebuilt from it.
CommitReplays(w) ==
  /\ pc[w] = "commit"
  /\ job[w].bundle \in committed
  /\ Goto(w, "atomic")
  /\ UNCHANGED <<clock, outboxVars, workingSet, job>>

CommitConflicts(w) ==
  /\ pc[w] = "commit"
  /\ job[w].bundle \notin committed
  /\ Stale(job[w].bundle)
  /\ Conflict(w, "stale_expected_revision")
  /\ UNCHANGED <<clock, outboxVars, workingSet>>

\* _store_atomic_working_set_receipt and _store_application_receipt: each its
\* own transaction, and a no-op when the same receipt is stored.
StoreReceipt(w) ==
  /\ pc[w] \in DOMAIN NextKey
  /\ receipts' = [receipts EXCEPT ![job[w].bundle] = @ \cup {pc[w]}]
  /\ Goto(w, NextKey[pc[w]])
  /\ UNCHANGED <<clock, bundle, lease, applied, workingSet, job>>

StoreConflictReceipt(w) ==
  /\ pc[w] = "conflict"
  /\ receipts[job[w].bundle] \cap Reasons \subseteq {job[w].reason}
  /\ receipts' = [receipts EXCEPT ![job[w].bundle] = @ \cup {job[w].reason}]
  /\ Goto(w, "mark_read")
  /\ UNCHANGED <<clock, bundle, lease, applied, workingSet, job>>

\* application_receipt_identity_conflict leaves apply.
ConflictReceiptRefused(w) ==
  /\ pc[w] = "conflict"
  /\ ~(receipts[job[w].bundle] \cap Reasons \subseteq {job[w].reason})
  /\ Leave(w)
  /\ UNCHANGED <<clock, outboxVars, workingSet>>

(***************************************************************************)
(* The marker: the tail of apply and _mark_conflict.  The bundle is read   *)
(* and the transition validated, then its revision is read again, then the *)
(* new record is written if that second revision still stands.             *)
(***************************************************************************)
MarkEvent(w) == IF job[w].final = "applied" THEN "all_receipts_committed"
                                            ELSE "authoritative_conflict_receipt"

MarkRead(w) ==
  /\ pc[w] = "mark_read"
  /\ ValidTransition(bundle[job[w].bundle].state, MarkEvent(w), job[w].bundle, job[w].now)
  /\ job' = [job EXCEPT ![w].attempts = bundle[job[w].bundle].attempts]
  /\ Goto(w, "mark_row")
  /\ UNCHANGED <<clock, outboxVars, workingSet>>

MarkRefused(w) ==
  /\ pc[w] = "mark_read"
  /\ ~ValidTransition(bundle[job[w].bundle].state, MarkEvent(w), job[w].bundle, job[w].now)
  /\ Leave(w)
  /\ UNCHANGED <<clock, outboxVars, workingSet>>

MarkRow(w) ==
  /\ pc[w] = "mark_row"
  /\ job' = [job EXCEPT ![w].row = bundle[job[w].bundle].revision]
  /\ Goto(w, "mark_write")
  /\ UNCHANGED <<clock, outboxVars, workingSet>>

\* Fault: the lease row survives the marker.
SeededMarkWrite(w) ==
  LET b == job[w].bundle IN
  /\ pc[w] = "mark_write"
  /\ bundle[b].revision = job[w].row
  /\ bundle' = [bundle EXCEPT ![b].state = job[w].final,
                              ![b].revision = job[w].row + 1,
                              ![b].updated = job[w].now]
  /\ applied' = IF job[w].final = "applied" THEN applied \cup {b} ELSE applied
  /\ Leave(w)
  /\ UNCHANGED <<clock, lease, receipts, workingSet>>

MarkWrite(w) ==
  LET b == job[w].bundle IN
  /\ pc[w] = "mark_write"
  /\ bundle[b].revision = job[w].row
  /\ bundle' = [bundle EXCEPT ![b] = [state |-> job[w].final,
                                      attempts |-> job[w].attempts,
                                      revision |-> job[w].row + 1,
                                      updated |-> job[w].now]]
  /\ lease' = [lease EXCEPT ![b] = NoLease]
  /\ applied' = IF job[w].final = "applied" THEN applied \cup {b} ELSE applied
  /\ Leave(w)
  /\ UNCHANGED <<clock, receipts, workingSet>>

\* outbox_bundle_cas_conflict
MarkLost(w) ==
  /\ pc[w] = "mark_write"
  /\ bundle[job[w].bundle].revision # job[w].row
  /\ Leave(w)
  /\ UNCHANGED <<clock, outboxVars, workingSet>>

(***************************************************************************)
(* The environment.                                                        *)
(***************************************************************************)
Stop(w) ==
  /\ pc[w] # "idle"
  /\ Leave(w)
  /\ UNCHANGED <<clock, outboxVars, workingSet>>

\* No worker is still applying a bundle when its lease ends.
Punctual ==
  \A w \in Workers : pc[w] # "idle" => clock < lease[job[w].bundle].expires

InTime == clock' # clock => Punctual'

\* Time passes, whatever a worker still has to do under its lease.
Tick ==
  /\ clock < MaxTime
  /\ clock' = clock + 1
  /\ UNCHANGED <<outboxVars, workingSet, pc, job>>

\* Another author's accepted event revises an item.
OtherAuthor(i) ==
  /\ revision[i] < MaxRevision
  /\ revision' = [revision EXCEPT ![i] = @ + 1]
  /\ UNCHANGED <<clock, outboxVars, committed, effects, pc, job>>

WorkerStep(w) ==
  \/ \E b \in Bundles : \/ AcquireFirst(w, b)
                        \/ AcquireAgain(w, b)
                        \/ AcquireExpired(w, b)
  \/ Verify(w) \/ VerifyFails(w)
  \/ Lookup(w) \/ PreflightPasses(w) \/ PreflightConflicts(w)
  \/ CommitFresh(w) \/ CommitReplays(w) \/ CommitConflicts(w)
  \/ StoreReceipt(w) \/ StoreConflictReceipt(w) \/ ConflictReceiptRefused(w)
  \/ MarkRead(w) \/ MarkRefused(w) \/ MarkRow(w) \/ MarkWrite(w) \/ MarkLost(w)

Next ==
  \/ Tick
  \/ \E i \in Items : OtherAuthor(i)
  \/ \E w \in Workers : WorkerStep(w) \/ Stop(w)

Spec == Init /\ [][Next]_vars

\* The outbox of a deployment in which no worker outlives its lease.
PunctualSpec == Init /\ [][Next /\ InTime]_vars

(***************************************************************************)
(* Properties.                                                             *)
(***************************************************************************)
\* The working set holds nothing of a bundle that outcome() reports as not
\* committed: conflict_recorded and the bundle receipt exclude each other, in
\* whatever order zombie workers, takeovers and replays interleave.
ConflictFailsClosed ==
  \A b \in Bundles : bundle[b].state = "conflict_recorded" => b \notin committed

\* "applied" is claimed only when the working set has the bundle and the outbox
\* has every receipt that unit_coverage_applied_source and selection_state
\* later read.
AppliedIsComplete ==
  \A b \in Bundles : bundle[b].state = "applied" =>
    b \in committed /\ {"atomic", "semantic", "coverage"} \subseteq receipts[b]

\* doctor, per bundle: a lease row for exactly the applying ones, an applied
\* receipt for exactly the applied ones.
LeaseRowFits(b) == bundle[b].state = "applying" <=> lease[b].token # None
AppliedRowFits(b) == bundle[b].state = "applied" <=> b \in applied

\* doctor, per lease: the bundle's own revision and attempt, and an end after
\* the bundle's last write.
LeaseHolds(b) ==
  /\ lease[b].revision = bundle[b].revision
  /\ lease[b].attempt = bundle[b].attempts
  /\ lease[b].expires > bundle[b].updated

\* What doctor() demands of the outbox.
DoctorAccepts ==
  \A b \in Bundles :
    /\ LeaseRowFits(b) /\ AppliedRowFits(b)
    /\ bundle[b].state = "applying" => LeaseHolds(b)

\* A conflict was recorded for operations the working set has.
Contradictory(b) == bundle[b].state = "conflict_recorded" /\ b \in committed

\* Between any two transactions of the outbox, whoever ran them, however late,
\* and wherever a worker stopped, doctor() has nothing to say against a lease,
\* and against an applied receipt only where a conflict was recorded for a
\* bundle that had been applied.
DoctorRefusesOnlyContradictions ==
  \A b \in Bundles :
    /\ LeaseRowFits(b) /\ (AppliedRowFits(b) \/ Contradictory(b))
    /\ bundle[b].state = "applying" => LeaseHolds(b)

\* The operations of a bundle enter the working set at most once, although
\* takeovers and zombies run apply() for the same bundle side by side.
EffectsOnce == \A b \in Bundles : effects[b] <= 1

\* The decision the outbox has reached so far, seen from outside.
Outcome ==
  [b \in Bundles |->
     IF Contradictory(b) THEN "contradictory"
     ELSE IF b \in committed THEN "committed"
     ELSE IF bundle[b].state = "conflict_recorded" THEN "refused" ELSE "pending"]

Abstract == INSTANCE BundleOutcome WITH outcome <- Outcome
=============================================================================
