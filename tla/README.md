# TLA+ models of the M5 continuity runtime

This directory models the stateful core of the repository (Python, `src/src/`)
in TLA+, model-checks it with TLC and proves the main safety properties of all
but a few of the modelled parts with TLAPS. `PROJECT.json` lists the runs, the seeded faults that
each property detects, the source lines behind every definition, the hazards,
the findings and the theorems.

## 1. Inventory

The program takes one talk turn from a provider's answer to a durable fact. Its
state is in SQLite and JSON files; it has hardly any threads of its own, but
several processes (the service, a recovery run, a sync handler, an operator's
command) open the same files, and a process may die between any two
transactions.

| Component | State | Operations | Talks to |
|---|---|---|---|
| tool ledger and dispatcher (`house_tool_operation_ledger_v0`, `..._agent_tool_runtime_v0`) | `parents`, `calls`: state, binding, receipt, replay payload | register_call, mark_running, record_result, cancel_before_execution; dispatch | broker |
| MCP broker (`house_mcp_tool_broker_v0`, `house_provider_tool_surface_v0`) | catalog file, open sessions | add, update, enable, remove, connect, discover, toggle, review, call | external servers |
| agent loop, live runtime (`house_provider_agent_loop_v0`, `..._live_runtime_v0`) | transcript, legs, budget, cancellation (in memory) | run legs, dispatch the calls of a leg, end | dispatcher, provider, trace vault |
| trace vault, bridge, dispatch history (`provider_trace_vault_v0`, `main_runtime_provider_trace_bridge_v0`, `house_prompt_cache_dispatch_observability_v1`) | a directory per leg, one row per request | begin, record response, record stage | attempt gates |
| main runtime (`main_runtime_provider_adapter_v0`) | none between calls | one provider call | bridge, local providers |
| capability registry and parser (`..._capability_terminal_parser_local`, `..._structured_terminal_result_v1`) | one single-use capability per turn, receipts | issue, consume, reject, close unused, expire, invalidate, record failure; parse; doctor | prepare's transaction (same file) |
| completion replay (`..._provider_completion_replay_local`) | private response bytes, parse state, revision | record_completion, replay_parse_and_prepare, release_visible | parser, outbox |
| preparation outbox (`..._durable_preparation_outbox_local`) | provider operations, bundles, leases, receipts | record, prepare, release, reconcile, cancel, finalize, publish, bind; acquire_lease, apply, outcome, doctor | registry, working set |
| Gate-12 shadow (`..._gate12_protected_shadow`) | one-turn latch, turn receipts | arm, consume, process_provider_response, bind_android_session_sync | all of the above |
| Gate-12S and Gate-12R (`..._gate12s_control`, `..._gate12r_control`) | mode latches, attempts, phases, review | arm, accept, readiness, activate, recover, final boundary, authorise, intercept, complete, record unit, doctor | Gate 12, trace bridge |
| local store (`..._local_store_v1`) | events, items, history, bindings, coverage, lineage, receipts | prepare, apply, merge, joint, bundle, lineage, three snapshot reads, doctor | outbox adapter, M2-M5 |
| continuity contracts (`_house_continuity_v1_2_contract_*`), route binding | none | what a context offers, what an answer may say | parser, adapter |
| participant evidence (`..._participant_evidence_local`) | confirmation capabilities, evidence, attestations | grant, accept, attest, deliver | local store |
| curated memory (`house_memory_*`) | an event chain | replay, validate_projection | selection |
| Milestone 2-5 candidate (`..._milestone3_context_local`, `..._milestone4_memory_integration_local`, `..._milestone5_*`) | rolling context of a room, journals, admission receipts, artifacts | append, compact, evict, retrieve, select; ingest; admit; bind phases | outbox, local store |
| prompt registry, standing roots, talk envelope, fixtures | none of their own | pure functions over given inputs | |

The hard parts are the ones no single transaction covers: databases that have to
agree after a crash (outbox and working set; outbox, working set, context store
and two journals); read-then-write sequences that check one version of a record
and write over another; SQLite connections in autocommit mode, where
`with connection` is no transaction; leases that expire under a running worker;
single-use capabilities and one-shot latches that a restart finds spent;
projections read in several SELECTs while others commit; evidence that is
written best effort and must not claim more than happened. What makes each
component correct:

* **Tools.** A call identity runs its tool at most once, whatever retries and
  restarts do, and is always answered with the recorded result; the effect it
  has is the one that was reviewed and asked for.
* **Agent operation.** The transcript given to the provider is what the calls
  returned; a trace and a dispatch row claim nothing that did not happen; a
  response that says "ok" rests on a reply that was one.
* **Outbox.** A bundle is decided once; the outbox and the working set record
  the same decision; what is applied is what the contract evaluated.
* **Protected turn.** A response becomes visible only after its fate is on
  record; a capability authors one bundle; a bundle is bound to the one unit the
  phone synced; the latch guards unsettled turns.
* **Attempt gates.** One provider call per armed latch; a rehearsal never leaves
  the house; a live call follows a completed and reviewed rehearsal.
* **Local store.** The log is contiguous and every table can be replayed from
  it; a merge loses no concurrent write; a bundle is whole; a projection is of
  one moment and excludes failed operations.
* **Evidence.** A confirmation is used once; a joint act rests on both
  participants having spoken of the same content, provided that the joint receipt
  the store is given is one that `attest_joint` issued: the store checks its shape
  and hash only.
* **Curated memory.** A live reference is current; a chain the replay accepts
  can be selected from.
* **Candidate.** Turns only age, oldest first when a sync ages them; journals are
  true; what is dispatched is what was selected; the admission loses nothing it owes.

The hazards, each at its line with the properties that cover it, are in
`PROJECT.json`. Three have no property, for reasons given there: either the
behaviour is modelled but nothing in the repository says what should hold, or
the step is not reachable from the modelled callers.

## 2. Modules

| Module | Models |
|---|---|
| `AtMostOnceCall` | the promise of the tool runtime |
| `ToolOperationLedger`, `ToolRuntime` | the ledger's transactions; `dispatch`, step by step, by several dispatchers |
| `ToolRuntimeProofs` | theorems about `ToolRuntime` |
| `ToolBroker`, `ProviderTrace`, `AgentLoop` | catalog and sessions; trace and dispatch row; one provider-agent operation over these and the ledger |
| `RuntimeCall` | one call of the main runtime, over `ProviderTrace` |
| `AgentProofs` | theorems about `AgentLoop` and `RuntimeCall` |
| `BundleOutcome` | the promise of the outbox |
| `OutboxApplication` | `acquire_lease`, `apply`, the Gate-1 adapter, the markers, doctor's rules |
| `OutboxApplicationProofs` | theorems about `OutboxApplication`, that it implements `BundleOutcome`, and theorems about `IntentApplication` |
| `IntentApplication` | from the context a turn is offered to what the adapter makes of its answer |
| `TurnIdentities` | the constants that the four stores of a turn share |
| `CapabilityRegistry`, `CompletionReplay`, `DurablePreparation`, `Gate12Control` | one store each: its variables, one operator per operation |
| `ProtectedTurn` | composes the four stores |
| `ProtectedTurnProofs` | theorems about `ProtectedTurn` |
| `Gate12SAttempts`, `Gate12RAttempts` | the two attempt gates |
| `Gate12Proofs` | theorems about both |
| `ContinuityStore`, `ContinuityReaders`, `StoreDoctor` | the local store: its writers, its snapshot reads, its doctor with the replay |
| `ContinuityProofs` | theorems about the three |
| `ParticipantEvidence` | confirmation capabilities, evidence, joint attestation |
| `CuratedMemory` | the mixed replay and the selection contract's projection check |
| `MemoryProofs` | theorems about both |
| `RollingContext` | the promise of the Milestone 3 context |
| `ContextZones`, `CandidateSync` | the context store; what a completed turn does to five databases |
| `SectionAdmission`, `OperationArtifact` | the admission of sections; building and binding a request |
| `CandidateProofs` | theorems about syncs and requests, and that the rooms the syncs write implement `RollingContext` |
| `MC...` | instances for TLC; each holds several small worlds |

The correspondence of state and code: a variable is a table, a file or an
in-memory local of a handler (`pc`, `job`, `run`, `call`); a hash or an id is
the model value of what it binds; a revision counts writes. A transaction is one
action. Code that reads, leaves the transaction and writes is split at the
points where another process can get in, with the value it read kept in the
handler's local. Where a compare-and-swap compares everything the operation
read, a success implies the read was current, so read and swap are one action
and the conflict another. A connection opened with `isolation_level=None`
commits statement by statement, and is split there. Operators named `Seeded...`
are faults that no definition uses; each replaces its neighbour to show that a
property notices the fault.

### Tool runtime

`dispatch` is: register the call (fresh, retry, replay or collision), mark it
running, refuse incomplete arguments or call the broker, normalise, record. A
tool may take effect and then fail; normalisation may raise after the tool
acted. A crash drops a dispatcher's locals at any point.

### Agent operation and main runtime

Every public method of the broker runs under one lock and is one action; a
restart loses the sessions and keeps the catalog. A runner of `AgentLoop` takes
a surface from the catalog, calls the provider, dispatches the calls of the leg
one by one through the ledger, appends the results and goes on or ends; polls of
the cancellation are where the code has them. Runners are threads or the
processes before and after a restart of the same stable operation: they derive
the same call ids. Trace and dispatch row are written by steps that may fail
without the leg noticing. `RuntimeCall` follows one request of
`main_runtime_provider_adapter_v0` through preflight, the local providers or the
traced transport, the parser and the response, for every class of reply.
Without a vault root the transport policy is not asked, as in the code.

### Outbox application

The bundles are prepared, visible and bound (`ready_to_apply`), the state in
which `ProtectedTurn` leaves them. A worker takes a lease with a token of its
own, verifies it once at the start of `apply`, looks for an atomic receipt,
preflights the items, commits in the working set, stores three receipts, each
in its own transaction, and marks the bundle: read, read the revision again,
swap. `Stop` is a crash or an exception anywhere. `OtherAuthor` writes items
through the local store. `AcquireExpired` is the takeover that `acquire_lease`
offers (no caller in the repository invokes it). `DoctorAccepts` is what the
doctor asks of leases and of applied receipts. Without punctual workers it does
not hold: a worker that outlived its lease can overwrite `applied` with
`conflict_recorded` while the applied receipts stay. The run therefore checks
`DoctorRefusesOnlyContradictions`, which says that this is all the doctor can
refuse; the full one is a theorem about punctual workers.

`IntentApplication` looks inside the bundle: what `resolve_operation_binding`
offers for an item, every answer, every refusal and no-delta rule of
`validate_intent_against_context`, and the adapter's `_semantic_operation`,
`_refresh` and validation of the resulting item, with dates in days and
summaries told apart by their length.

### Protected turn

A processor handles one turn: reserve, issue, call the provider, retain, parse,
limit, record the operation, decide, release, finish. A restart enters at
`StartReplay` (parse the retained bytes again) or `StartRelease`; both are
public operations of the replay store that nothing in the repository schedules,
as are `Cancel` and `RetryPreparation`. A response is one of seven kinds, the
classes that the parsers distinguish; the kind belongs to the bytes and does
not change. `Structured` turns carry the terminal tool call of the live
generation: a missing private part is a rejection there, a misbound one
consumes the capability, and no restart parses it again. `Lapse` passes
`expires_at`; a handler's clock is its `now` argument, so whether the capability
is due is fixed when the handler starts. `reject_consumed` and `prepare` are
the operations whose stale read can change what is written; they are split.

### Attempt gates

In `Gate12SAttempts` an operator's command and a request handler are sequences
of single statements except where the code says `BEGIN IMMEDIATE`. The attempt,
its receipt and its phase rows are written by separate commits. `Doctor` is the
conjunction of the store's own checks; operations that consult it are disabled
when it fails, which is what makes interrupted attempts stay refused. Gate 12 is
reduced to what this control reads of it. `Gate12RAttempts` is the earlier
one-shot gate: the trace bridge asks `enforce_external_call_policy` before a
call, and reports update the attempt by key whatever its state has become.
`SoloSpec` is `Spec` with at most one arm command under way. `UnitIsOwn` needs
it: of two overlapping commands the later one writes its latch from a stale
read, a second live turn is let in while the first still waits for its unit, and
a sync of both may record the unit of one in the other. That takes three handlers and
two live turns; no world of the run has both, and the theorem says `SoloSpec`.
`LiveAfterReview` asks for a rehearsal with its own unit only where the review
was one of a rehearsal, and does not say that it came before the live turn: an
attestation may open the live mode and a rehearsal be reviewed later.

### Local store

`db` is the committed file; a connection inside a transaction works on
`snap[w]`. Python's deferred transactions are modelled: an INSERT that fails
outside `_write_transaction` leaves the transaction open. A log entry carries
its sequence, the head it follows, the state before and after, and the command;
`items`, `bindings`, `history`, receipts, coverage and creation seeds are kept
beside it. `ContinuityReaders` makes the SELECTs of the three projections
separate steps. `StoreDoctor` is the doctor: it reads the log, links the chains,
replays it and compares each derived table. What the replay gives an owner at a
revision is said directly: every field is what the last event up to it that names
the field gave it. `Replayable`
says that it accepts the file after every commit, and adds what the doctor does
not look at: that closed items stay closed.

### Participant evidence

Astel's commands use a confirmation capability or are direct; Solen's rest on an
outbox source. A call reads the evidence file, then the working set, then
writes; each read another call can come between is a step. Sources that carry
the revision after application are in the bounds although the outbox of this
repository writes the revision before it: with real sources no attestation is
ever accepted, with the others the acceptance path is checked.

### Curated memory

The state is the projection of a chain; an action is one event the replay
accepts. `validate_projection` is modelled whole, as the conjunction of its
checks. Four worlds: single records, two related records, evolution proposals
and resolutions, and legacy chains.

### Milestone 3-5 candidate

`ContextZones` is the context store with receipts and revisions; a snapshot hash
is the context it hashes. `CandidateSync` follows `apply_bound_sync` over the
outbox, the working set, the context store and the journals, with a crash
anywhere and a failed operation disowned. `SectionAdmission` is pure: duplicate
paragraphs removed by rank, required sections kept, optional ones admitted until
the first that does not fit. `OperationArtifact` reads, selects, admits, stores
and dispatches while syncs change what it read.

## 3. Runs

| Run | Question | Instance |
|---|---|---|
| `tool_runtime` | at-most-once effect, one answer, refinement of `AtMostOnceCall` | 2 calls, 3 dispatchers (symmetric), 2 bindings (one incomplete), 2 bodies; unlimited retries and crashes |
| `agent_operation` | faithful transcript, true evidence, reviewed effects, earned answers | worlds *catalog* (an administrator changes one tool under a running operation), *retries* (two calls a leg over one ledger, crashes), *rivals* (two runners), *evidence* (failing disk, cancellation), *adapter* (one runtime call, every reply class) |
| `outbox_application` | what the doctor can refuse, effects once, complete markers, refinement of `BundleOutcome`; meaning and conflicts of intents | worlds *late* (1 bundle, 2 workers, another author), *punctual* (2 competing bundles), *alone* (one turn, every context and answer, one foreign write), *pair* (two turns of one room); clock to 4, lease of 2, 3 attempts; lengths 100 and 650, days 0, 10 and 40 |
| `outbox_conflict` (violation) | conflict recorded over committed operations | clock to 2, lease of 1 |
| `intents_apply` (violation) | an accepted operation that can never be applied | world *alone* |
| `protected_turn` | latch, no-delta restart, release order, grounded bundles, late authorship, liveness | worlds *calm* and *faulty* (2 turns, one structured; 1 processor, 1 sync; 2 release times), *rivals* (1 turn, 2 processors, 2 syncs, 2 units) |
| `protected_turn_no_delta` (violation) | two parsers of one no-delta completion | world *rivals* |
| `gate12s_attempts` | one transport, rehearsal inside, live after review, own unit, health without interruption; the corrective gate's one shot | worlds *path* (one operation at a time, rehearsal and two live turns, 1 exception), *race* (two handlers, one turn, 1 restart), *corrective* (two turns, 3 reports, denials and restarts in all) |
| `gate12s_modes` (violation) | both modes armed | 1 turn, 2 handlers |
| `continuity_store` | replayable log, merges, whole bundles, one-moment reads, exclusion; curated memory; evidence | worlds *merge*, *lifecycle*, *bundle*, *reading* (2 connections, 1 item, 1 room, up to 5 commands); *records*, *relations*, *evolution*, *legacy* (2 memories, 2 versions); *granting*, *attesting* (2 processes, 1 capability, 4 revisions, 2 replays) |
| `store_finalise` (violation) | a failed operation recorded again at a later time | 2 times |
| `milestone5` | receipts of revisions, true ingestion, grounded requests, sound admission, refinement of `RollingContext` | worlds *direct* (5 attempts, the last a compaction of the room as it is), *sync* (2 handlers, 2 new turns after 2 older), *reading* (one builder, one sync), *racing* (two builders, 3 offers); zone sizes 1, one crash or one upkeep event |

A run holds several worlds, chosen in the initial state by the variable `world`:
each is a small instance of one module (or of one composition) that asks one
question; the other variables stay as they are. The worlds share a run because
they are about one component family and one set of constants.

Why the bounds are enough: every race in these protocols is between two actors
over one record, so two of each suffice for the orderings; a third dispatcher
lets a replay meet a retry; three attempts let a zombie meet a takeover and its successor; two turns
are what a latch arbitrates; a rehearsal and two live turns are what the review
gate orders; zones of size one make every append overflow the next zone.
Revisions and time only compare, so a few values exercise all orders: 10 and 40
days are on either side of the 30 days a temporary fact lasts, 650 characters is
between the limit of the contract (640) and that of the item (700). In world
*punctual* a worker stops before its lease ends; that is an assumption about
deployment, not something the code enforces: the code looks at the lease once.
`EffectsOnce`, `AppliedIsComplete` and `DoctorRefusesOnlyContradictions` hold
without it; the finding `outbox_conflict` shows what does not. Three attempts are
needed: with two the full doctor holds, and only a third shows that it does not in
general.

What the bounds leave out: the admission branch where a required Milestone 2
section alone exceeds the budget is not reached; evidence histories end at four
revisions; syncs of one turn begin only while the turn waits.

Deadlock is checked in `tool_runtime`, `agent_operation` and `milestone5`; the
others say `CHECK_DEADLOCK FALSE` because the system really stops: a settled or
interrupted turn, a bundle that is decided, a bounded clock, a spent one-shot
latch, commands that are all done.

Fairness appears in one run: `WF_vars(Progress(p))` for each processor of
`protected_turn`, because a running handler takes its next step until it returns
or raises; it waits for no other handler, and the provider call ends in an
answer or an error. The environment (arming, requests, syncs, expiry, retries)
has none. `TurnsSettle` is stated for world *calm*: a crashed turn stays
`reserved` for ever, which is the documented purpose of the latch. So does, with
no crash, a turn whose response `record_completion` refuses (`CompletionRefused`):
its bytes are empty or too long, or they are the bytes of another operation, whose
digest the table holds as UNIQUE. `process_provider_response` then raises without a
word about the turn, and the latch stays closed over it; the property leaves out
exactly these responses. A response is a class (`kind`) and its bytes (`b1`, `b2`
or the unfit `bad`). The two turns of *calm* may answer alike; the bytes of a
terminal call are never unfit, and no two turns name their own capabilities in the
same bytes (`ResponsesPossible`).

## 4. Findings

1. `outbox_conflict`: the atomic receipt is looked up and the items are
   preflighted outside the commit. An earlier holder that commits in between
   makes the new holder record a conflict for a bundle that is fully stored. A
   late worker can also overwrite `applied` with `conflict_recorded`.
2. `protected_turn_no_delta`: a lost swap in `reject_consumed` appends a
   `..._raced` receipt that hides the no-delta receipt from the restart.
3. `store_finalise`: the time of the call is part of a lineage record's
   identity, so repeating the record of a failed operation is a conflict, and
   after a crash between two revisions the second is never excluded. The
   docstring promises the same records.
4. `gate12s_modes`: the `with` block of `arm` is no transaction; two commands
   arm both modes, and doctor refuses the store from then on.
5. `intents_apply`: confirming a temporary fact moves its dormancy beyond its
   expiry, which the item validator refuses; the accepted operation stays in
   `applying`. A summary of 641 to 700 characters and a revision of the payload
   alone end the same way.

Facts that no document contradicts, and that the models reach: a report that
arrives after the corrective gate's dispatch makes its doctor refuse everything;
a build repeated after a stop between admission receipt and artifact collides
with that receipt, because the time of the call is in it; an expired temporary
fact denies the projection of its room until an expire event that nothing
writes; a Solen source of the real outbox names the revision before
application, so no joint attestation can rest on it afterwards; without a vault
root no gate is asked about a live call; two overlapping arm commands of the live
mode can let a second turn in before the first has its unit, and a sync of both
can then record the unit of one in the other.

## 5. Proofs

All theorems hold for every value of the constants, from the named assumptions of
the modules, which TLC evaluates in the runs. Most say that a null is no
identity (`NoneAssumption`, `NullAssumption`, `NilAssumption`, `IdentityAssumption`,
`WorkersAssumption`, `UnitsAssumption`, `AbsentAssumption`, `ReadersAssumption`) or
give the sets and functions their types (`ParentOfAssumption`,
`ServerOfAssumption`, `BindingsAreRecords`, `BodiesAreAnswers`, `RepliesAssumption`,
`ExpectedAssumption`, `RuntimeAssumption`, `BoundAssumption`, `GrantsAssumption`,
`TurnAssumption`, `LimitsAssumption`, `CommandAssumption`, `PlanAssumption`, and
`AttemptAssumption`: turns are numbers, one of them is the rehearsal's). The others
say that memories are ordered (`MemoriesAreOrdered`: their ids compare), that
lengths and days are numbers and a summary that is said is not empty
(`IntentAssumption`), that budgets and the sizes of what they pay for are positive
(`SizesAssumption`), what the blockers contain (`BlockersAssumption`), that a call's
id is derived from leg and index (`CallsAreDerived`), and that the event keys of a bundle are its own
(`BundleKeyAssumption`); two are the policy of the context zones
(`PolicyAssumption`: a batch does not exceed what overflows the hot zone) and that a
bundle is authored against a revision that the working set has reached
(`AuthoredAssumption`).

TLC agreed with each inductive invariant on a small instance before it was proved.
Each proof has a lemma per action, or per group of actions that change the same
things.

* `ToolRuntimeProofs`. The inductive invariant `Inv` adds to `TypeOK` what the
  state of a row says about its receipt (`RowsCoherent`), what a dispatcher's
  position says about the row it works on (`JobsCoherent`) and what both say
  about the effect counter (`EffectsCoherent`). It is needed because none of
  the properties is inductive: exclusive ownership rests on `mark_running`
  having moved the row out of `proposed`, and an answer agrees with the ledger
  only because a terminal row has no outgoing transition. From it follow
  `TypeCorrect`, `OwnersExclude`, `AnswersAgree` and, action by action,
  `Refinement` of `AtMostOnceCall`.
* `OutboxApplicationProofs`. `IInv` adds to `TypeOK` that a worker past its
  start has a bundle (`AtWork`), that the effect counter is the membership in
  `committed` (`EffectsCounted`) and the evidence a worker has gathered at each
  step of `apply` (`Gathered`): past the commit the bundle is committed, and the
  receipts of the earlier steps are stored. From it follow `OutboxTypeCorrect`,
  `AppliedAtMostOnce` and `AppliedMarkerIsSound`, without assuming that workers
  are punctual. `RowsStayConsistent` adds that lease and applied rows fit each
  other (`Fits`). Under `PunctualSpec` a worker inside `apply` holds the lease, so
  nobody came between its preflight and its marker (`Decided`); from that follow
  `DoctorIsContent`, the full doctor, and `DecidesOnce`, that the outbox
  implements `BundleOutcome` step by step. The attempt to prove the full doctor
  without it is what showed that it is false.
* `OutboxApplicationProofs`, for `IntentApplication`. The theorems are about
  `IntentSpec`, all clients and answers at once; the run restricts them by its
  worlds. `NInv` says that what a context offers of an item is an active version
  the item had then (`OfferHolds`), which stays true because versions are only
  added, and that an answer that was kept still fits its context (`Kept`): its
  revision, kind and scope are those offered, its reading is the one that was
  evaluated. `ConflictsAreReal` follows because an item at the offered revision is
  what was offered, so that the comparison in `apply_bundle_atomic` fails only for
  a later version. `MeaningIsKept` follows because a revision that reaches the item
  has a summary of its own (an empty one is no candidate), where the two
  computations of the content agree, and case by case for what is dropped.
* `ProtectedTurnProofs`. `IInv` says of each turn what its rows in the four
  stores say of one another (`StoresSound`: prepared iff the capability is
  consumed, released only once decided, ready to apply only with the unit that the
  operation was bound to), what a handler (`Handlers`) or a sync (`SyncsSound`) has
  made sure of at each step, that the handler that reserved a turn is the only one
  of its kind (`Owners`), and the latch property itself. Handlers do not disturb
  each other because whatever one of them relies on is permanent (`Permanent`),
  which is proved first. From it follow `TypesHold`, `LatchHeld`,
  `DecidedBeforeRelease` and `BundlesGrounded`; `AuthorshipEnds` is the action
  property.
* `Gate12Proofs`, for `Gate12RAttempts`. The writes of an attempt compare nothing,
  so no state of it can be relied on. Two things can: the external count of an attempt that was let
  through never goes back (`CountedForGood`), and the doctor that every
  authorisation asks finds exactly the latch's own turn accepted. With what the
  threads carry (`Grounded`) `CorrectiveIsOneShot` follows.
* `MemoryProofs`, for `ParticipantEvidence`. A handler carries what it read
  (`Carries`), and since no step removes evidence or a capability's row (`Grows`),
  that stays true until it writes. `CapabilityPaysOnce` and `JointNeedsBoth` follow.
* `MemoryProofs`, for `CuratedMemory`. `MemorySpec` takes any event the replay
  accepts; the run picks a few. `MInv` adds to the properties that what refers to
  records refers to records that exist (`Referring`), since an observation may
  create one; that base and lookup are what the checks recompute (`AllWhole`); that
  a chain of schema v0 moved neither Core nor a conflict (`Simple`), which is why
  the older replay agrees; and, as long as the chain is ordinary, the checks of
  `validate_projection` themselves (`Ordered`). `DecisionsAreCurrent`,
  `MixedReplayAgrees` and `OrdinaryChainsAreAccepted` follow.
* `ContinuityProofs`. A content of the file is `Sound` when the doctor accepts it,
  an identity is registered once, an owner's revision counts its events and a merge
  lost nothing. Appending a prepared event keeps it so and only `Extends` it. `IInv`
  says of each connection how its snapshot lies to the file, ahead of it with the
  lock and in its past without (`ConnOK`), what a draft may still rely on although
  others have committed since (`JobOK`: that nothing comes after the head it names
  is what the insert compares), and that the events of a bundle under way are the
  end of its own snapshot's log (`Progress`); `RInv` adds which snapshot the parts
  of a read are from. `StoreIsReplayable`, `MergesKeepConcurrent`,
  `BundlesAreWhole` and `StoreOnlyAppends` are proved both of `Spec` and of
  `ReadersSpec`, `ReadsAreOfOneMoment` and `ExcludedRevisionsStay` of the latter.
* `AgentProofs`, for `AgentLoop`. `AInv` is four invariants that lean on each other:
  sessions are on the connection of their server, and what is available was
  reviewed for it (`BInv`); a stored result is of its row's state, and a row
  succeeded only when its binding took effect (`LInv`); every answer a runner holds
  is to what it asked, the calls of earlier legs are answered, and what it is about
  to store as a success took effect (`Faithful`); what the trace and the dispatch
  row may say at each step (`Evident`). A runner's part survives the steps of the
  others because effects are never taken back (`Growing`). `AgentSpec` has any
  number of runners of any mode over one broker and one ledger; the worlds of the
  run restrict it. `TranscriptFaithful`, `EvidenceTrue` and the action property
  `ReviewedEffects` follow.
* `AgentProofs`, for `RuntimeCall`. `CInv` says at each step of the one call what is
  known of the reply, which gates it has passed and what the trace may claim,
  starting with what a vault write that failed half way can leave (`CaptureIs`).
  `CallsAreEarned` follows.
* `CandidateProofs`, for `SyncSpec`, the syncs of completed turns. `Invariant`
  adds to both properties that every revision of the room is in order (`Orderly`:
  no unit or episode twice, zones cold, warm, hot in this order, every unit that is
  not hot in an episode of its zone), and what a handler's position says about its
  bundle, the journal's lock and the room (`HandlersSound`). The zone functions are
  characterised by lemmas, with a least-element argument where a recursion would
  be natural. From it follow
  `RevisionsAreWitnessed`, `IngestionHolds` and `RoomOnlyAges`, the refinement of
  `RollingContext`, both the part that every client owes (`AgingSpec`) and the
  oldest-first one (`RollingSpec`). What clients of the context store do without a sync (world
  *direct*) stays with TLC.
* `CandidateProofs`, for `CandidateSpec`: syncs and requests at once, from an empty
  room, any number of builders, turns and restarts. A builder reads its parts at
  different moments, so nothing can be said of what it holds except what the stores
  confirm later (`BuilderHolds`): a row it read is a revision that exists, a room
  it saw empty offered nothing cold, and it goes on only with what was stored.
  Revisions, receipts, integrations and artifacts are only added to (`Later`),
  which keeps the records of all other builders true. A selection is of one moment
  because its parts are compared with the stored revision; no turn is in it twice
  because that revision is orderly and the members of its episodes have left the
  hot zone (`MembersAged`, a new invariant of the syncs). `Phased` says of a turn's
  phases that each is bound once, after its predecessor, with one artifact and from
  the activation on with the activated body. `RequestsAreGrounded` follows, and
  `CandidateIsTrue`: what was proved of the syncs alone holds of the whole.
* `Gate12Proofs`, for `Gate12SAttempts`. A handler is past the authorisation (`Past`) from
  `authorize_transport` until it has forgotten the request; `Inv` says that such a
  handler is alone with its attempt, that nothing takes the authorisation back,
  that it did not send before, and that every armed live latch, arm command in
  flight and live attempt comes after a review. Most steps are shown once and for
  all to be quiet: they give nobody more of an attempt than before (`Quiet`,
  `Calm`); seven steps of the service and the commands are argued by
  themselves. `OneTransport`, `RehearsalNeverSent` and `SentAfterReview` follow.
  For `UnitsAreOwn`, `SoloInv` adds that every live attempt is over, that is
  neither waits for a unit nor will, or is the latest one and holds the latch:
  so the two choices that a sync makes apart are the same turn.

Only model-checked: `AdmissionIsSound` (what the recursion over sections and
paragraphs admits needs an induction over data), `UninterruptedIsHealthy` of the
attempt gate, the no-delta restart of a calm turn (`NoDeltaAnswerSurvives`), what
clients of the context store do without a sync, and liveness, which TLAPS cannot
prove. `TurnsSettle`, the liveness property, needs fairness and ENABLED.

## 6. Plan

1. `Gate12SAttempts`: `UninterruptedIsHealthy` needs the doctor's clauses as an
   invariant of uninterrupted histories.
2. Two brokers over one catalog file; the Milestone 2 authority beyond its
   projection; a composition of `OutboxApplication` with `ContinuityStore`.

## 7. Not modelled

* Pure text, formats and byte work: provider-neutral requests, chat
  serialisation, envelopes, prompt sections and their registry, standing roots,
  cache-hit classification and signatures, network transports.
* Write-only diagnostics: observability records merged into a manifest, the
  broker's last-error fields, denied-transport counts of Gate 12S.
* Fixtures, the conformance ledger and one-shot attestations.
* Scope-binding operations of a bundle: the adapter calls
  `prepare_binding_event` with keyword arguments that the local store does not
  take. The store's own binding events are modelled.
* In the local store: compatibility copies of outbox bundles and joint
  attestations (the same put-if-absent), conflict receipts, freshness, opening a
  store. In Gate 12S: operation-binding hashes, the Milestone 5 artifact
  requirement, the preflight's content. In the outbox, hash comparisons of the
  doctor: a hash is the value it binds, so they hold by construction.
* A room's scope (it cannot change through this program), the rollback of the
  selector, and the doctors of the context and admission stores.
* SQLite's own atomicity and durability, and the file system's, are assumed.
