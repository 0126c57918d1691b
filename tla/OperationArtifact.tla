-------------------------- MODULE OperationArtifact -------------------------
(***************************************************************************)
(* How a provider request of the Milestone 5 candidate is built and bound: *)
(* the working set and the rolling context are read, a selection of each   *)
(* is recorded, the sections are admitted, and the result is stored as the *)
(* operation's artifact.  Every later phase up to the dispatch is bound to *)
(* that artifact and to the bytes of the request.                          *)
(*                                                                         *)
(* The parts read and write three databases without a common transaction,  *)
(* while session syncs (CandidateSync) change what they read.              *)
(***************************************************************************)
EXTENDS CandidateSync, SectionAdmission

CONSTANTS Turns,          \* turns that build a request
          Builders,       \* threads that build one
          Offers,         \* Generation-1 selections: [sections, contradicted, intent]
          Bodies,         \* request bodies
          Times,          \* clock readings
          ContextBudget, UnitSize, EpisodeSize,    \* sizes in the context's budget
          RequestBudget                            \* budget of the admitted sections

ASSUME SizesAssumption ==
    {ContextBudget, UnitSize, EpisodeSize, RequestBudget} \subseteq Nat \ {0}

VARIABLES build,          \* builder -> what it holds
          integrations,   \* Milestone 4 receipts: turn -> [request, outcome]
          artifacts,      \* turn -> stored artifact
          phases,         \* turn -> phases in the order they were bound
          attempts,       \* turn -> the attempt row, as far as it is read here
          held            \* turn -> what this process holds in memory

buildVars == <<build, integrations, artifacts, phases, attempts, held>>

IdleBuilder == [step |-> "idle", turn |-> None, offer |-> None, now |-> None, m2 |-> None,
                row |-> None, units |-> None, cold |-> None, selection |-> None]

FreshAttempt == [state |-> "accepted_pending_readiness", required |-> None,
                 endpoint |-> None, final |-> None]

BuildInit ==
    /\ build = [b \in Builders |-> IdleBuilder]
    /\ integrations = [t \in {} |-> None] /\ artifacts = [t \in {} |-> None]
    /\ phases = [t \in Turns |-> <<>>]
    /\ attempts = [t \in Turns |-> FreshAttempt]
    /\ held = [t \in Turns |-> "capability"]

Put(b, record) == build' = [build EXCEPT ![b] = record]

Move(b, step) == Put(b, [build[b] EXCEPT !.step = step])

Turn(b) == build[b].turn

Is(b, step) == build[b].step = step

Give(f, key, value) == [x \in DOMAIN f \cup {key} |-> IF x = key THEN value ELSE f[x]]

-----------------------------------------------------------------------------
(* bind_phase.                                                              *)

PhaseOrder == <<"candidate", "preflight", "activation", "interception", "dispatch">>

Bound(t) == {phases[t][i].phase : i \in DOMAIN phases[t]}

PhaseOf(t, phase) == CHOOSE p \in Range(phases[t]) : p.phase = phase

(* The phase that must be bound before, and for a rollback the latest one. *)
Predecessor(t, phase) ==
    IF phase = "rollback" THEN IF phases[t] = <<>> THEN None ELSE Last(phases[t]).phase
    ELSE IF phase = "candidate" THEN "none"
    ELSE PhaseOrder[(CHOOSE i \in DOMAIN PhaseOrder : PhaseOrder[i] = phase) - 1]

PhaseRequest(t, phase, artifact, input) ==
    [phase |-> phase, artifact |-> artifact, input |-> input, predecessor |-> Predecessor(t, phase)]

(* The artifact is the stored one, the predecessor is bound, and a phase    *)
(* bound before is bound again only by the same request.                    *)
PhaseFits(t, phase, artifact, input) ==
    /\ t \in DOMAIN artifacts /\ artifacts[t] = artifact
    /\ Predecessor(t, phase) \in Bound(t) \cup {"none"}
    /\ phase \in Bound(t) => PhaseOf(t, phase) = PhaseRequest(t, phase, artifact, input)

WithPhase(t, phase, artifact, input) ==
    IF phase \in Bound(t) THEN phases
    ELSE [phases EXCEPT ![t] = Append(@, PhaseRequest(t, phase, artifact, input))]

-----------------------------------------------------------------------------
(* build_operation_artifact.                                                *)

BeginBuild(b, t, offer, now) ==
    /\ Is(b, "idle") /\ held[t] = "capability"
    /\ Put(b, [IdleBuilder EXCEPT !.step = "lookup", !.turn = t, !.offer = offer, !.now = now])
    /\ UNCHANGED <<zoneVars, syncVars, integrations, artifacts, phases, attempts, held>>

(* A stored artifact is returned for the same inputs, whenever it is asked  *)
(* for; other inputs are a replay conflict.                                 *)
ArtifactReplayed(b) ==
    /\ Is(b, "lookup") /\ Turn(b) \in DOMAIN artifacts
    /\ LET artifact == artifacts[Turn(b)] IN
       IF artifact.offer = build[b].offer
       THEN /\ PhaseFits(Turn(b), "candidate", artifact, artifact.offer)
            /\ phases' = WithPhase(Turn(b), "candidate", artifact, artifact.offer)
            /\ Move(b, "require")
       ELSE Move(b, "failed") /\ UNCHANGED phases
    /\ UNCHANGED <<zoneVars, syncVars, integrations, artifacts, attempts, held>>

ReadWorkingSet(b) ==
    /\ Is(b, "lookup") /\ Turn(b) \notin DOMAIN artifacts
    /\ IF ~Readable THEN Move(b, "failed")
       ELSE Put(b, [build[b] EXCEPT !.m2 = Projection,
                                    !.step = IF build[b].offer.intent THEN "scan" ELSE "room"])
    /\ UNCHANGED <<zoneVars, syncVars, integrations, artifacts, phases, attempts, held>>

(* retrieve_cold looks the cold episodes up, then takes the projection that *)
(* its receipt names.                                                       *)
ScanCold(b) ==
    /\ Is(b, "scan")
    /\ Put(b, [build[b] EXCEPT !.step = "cold_room",
                               !.cold = [i \in DOMAIN EpisodesIn(Context, "cold") |->
                                           EpisodesIn(Context, "cold")[i].id]])
    /\ UNCHANGED <<zoneVars, syncVars, integrations, artifacts, phases, attempts, held>>

(* A projection is three reads outside a transaction: the room's row ...    *)
ReadRoom(b) ==
    \E step \in {"cold_room", "room"} :
        /\ Is(b, step)
        /\ Put(b, [build[b] EXCEPT !.row = Revision,
                                   !.step = IF step = "room" THEN "units" ELSE "cold_units"])
        /\ UNCHANGED <<zoneVars, syncVars, integrations, artifacts, phases, attempts, held>>

(* ... its units ... *)
ReadUnits(b) ==
    \E step \in {"cold_units", "units"} :
        /\ Is(b, step)
        /\ Put(b, [build[b] EXCEPT !.units = Context.units,
                                   !.step = IF step = "units" THEN "select" ELSE "cold_receipt"])
        /\ UNCHANGED <<zoneVars, syncVars, integrations, artifacts, phases, attempts, held>>

(* ... and its episodes, read by the step that uses them. *)
Body(b) == [units |-> build[b].units, episodes |-> Context.episodes]

(* Fault: the parts are not compared with the room's stored snapshot. *)
SeededWhole(b) == TRUE

(* A room without a row has no stored snapshot to compare with. *)
Whole(b) == build[b].row = 0 \/ Body(b) = At(build[b].row)

ColdAttempt(b) == <<"cold", Turn(b)>>

ColdRequest(b) == [operation |-> "cold_retrieval", index |-> build[b].cold,
                   snapshot |-> Body(b), row |-> build[b].row]

(* The receipt of the retrieval; an attempt repeated over another snapshot  *)
(* collides with its own receipt, for ever.                                 *)
RecordCold(b) ==
    /\ Is(b, "cold_receipt")
    /\ IF Whole(b) /\ ~Collides(ColdAttempt(b), ColdRequest(b))
       THEN /\ AuxiliaryReceipt(ColdAttempt(b), ColdRequest(b),
                                IF build[b].cold = <<>> THEN "no_match" ELSE "selected",
                                build[b].cold)
            /\ Move(b, "room")
       ELSE Move(b, "failed") /\ UNCHANGED zoneVars
    /\ UNCHANGED <<syncVars, integrations, artifacts, phases, attempts, held>>

ColdChosen(b) == IF build[b].cold \in {None, <<>>} THEN <<>> ELSE build[b].cold

ColdIsCold(b) ==
    \A i \in DOMAIN ColdChosen(b) :
        \E e \in DOMAIN Context.episodes :
            Context.episodes[e].id = ColdChosen(b)[i] /\ Context.episodes[e].zone = "cold"

Newest(s, n) == SubSeq(s, Len(s) + 1 - n, Len(s))

Fit(available, size, count) == IF available \div size < count THEN available \div size ELSE count

(* The working set's section grows with every write. *)
SectionSize(m2) == m2.writes + m2.upkeep

(* assemble_provider_sections: what the working set's section leaves of the *)
(* budget goes to the newest hot turns, then to the newest warm episodes,   *)
(* then to the retrieved cold ones, all or none.                            *)
Selected(body, m2, cold) ==
    LET Hot == InZone(body, "hot")
        Warm == EpisodesIn(body, "warm")
        ForHot == ContextBudget - SectionSize(m2)
        hot == Fit(ForHot, UnitSize, Len(Hot))
        ForWarm == ForHot - hot * UnitSize
        warm == Fit(ForWarm, EpisodeSize, Len(Warm))
        ForCold == ForWarm - warm * EpisodeSize
    IN [hot |-> {u.unit : u \in Range(Newest(Hot, hot))},
        warm |-> {e.id : e \in Range(Newest(Warm, warm))},
        cold |-> IF Len(cold) * EpisodeSize <= ForCold THEN Range(cold) ELSE {}]

MembersOf(episodes) == UNION {Range(e.members) : e \in episodes}

SelectionAttempt(t) == <<"sections", t>>

SelectionRequest(b) == [operation |-> "provider_selection", snapshot |-> Body(b), row |-> build[b].row,
                        m2 |-> build[b].m2, cold |-> ColdChosen(b)]

OverBudget(b) == SectionSize(build[b].m2) > ContextBudget

Overlaps(selection) == selection.hot \cap MembersOf(selection.warm) # {}

Assemble(b) ==
    /\ Is(b, "select")
    /\ LET t == Turn(b)
           request == SelectionRequest(b)
           selection == Selected(Body(b), build[b].m2, ColdChosen(b)) IN
       IF ~Whole(b) \/ ~ColdIsCold(b) \/ Collides(SelectionAttempt(t), request)
       THEN Move(b, "failed") /\ UNCHANGED zoneVars
       ELSE IF OverBudget(b)
       THEN /\ AuxiliaryReceipt(SelectionAttempt(t), request, "required_m2_budget_failed_closed", None)
            /\ Move(b, "failed")
       ELSE IF Overlaps(selection)
       THEN Move(b, "failed") /\ UNCHANGED zoneVars
       ELSE /\ AuxiliaryReceipt(SelectionAttempt(t), request, "selected", selection)
            /\ Put(b, [build[b] EXCEPT !.step = "integrate", !.selection = selection])
    /\ UNCHANGED <<syncVars, integrations, artifacts, phases, attempts, held>>

(* The sections offered to the request: Generation 1's, the working set's   *)
(* and what was selected of the context.                                    *)
Offered(b) ==
    LET Selection == build[b].selection
        Of(id) == [exactness |-> IF id = "hot" THEN "exact" ELSE "derived", paragraphs |-> <<id>>]
        Chosen == {id \in {"hot", "warm", "cold"} : Selection[id] # {}} \cup {"working_set"}
    IN [id \in Chosen \cup DOMAIN build[b].offer.sections |->
          IF id \in Chosen THEN Of(id) ELSE build[b].offer.sections[id]]

(* The manifest is part of the request and carries the time of the call.    *)
IntegrationRequest(b) == [offered |-> Offered(b), contradicted |-> build[b].offer.contradicted,
                          m2 |-> build[b].m2, now |-> build[b].now]

Outcome(b) == Admission(build[b].offer.contradicted, Offered(b), RequestBudget)

(* A retry at another time collides with the receipt of the first one.      *)
Integrate(b) ==
    /\ Is(b, "integrate")
    /\ LET t == Turn(b)
           outcome == Outcome(b)
           receipt == [request |-> IntegrationRequest(b), state |-> outcome.state,
                       sections |-> outcome.sections] IN
       IF outcome.state = "refused" \/ (t \in DOMAIN integrations /\ integrations[t] # receipt)
       THEN Move(b, "failed") /\ UNCHANGED integrations
       ELSE /\ integrations' = Give(integrations, t, receipt)
            /\ Move(b, IF outcome.state = "selected" THEN "store" ELSE "failed")
    /\ UNCHANGED <<zoneVars, syncVars, artifacts, phases, attempts, held>>

(* The context's projection is read once more for the artifact.             *)
Artifact(b) ==
    [offer |-> build[b].offer, now |-> build[b].now, m2 |-> build[b].m2, context |-> Revision,
     selection |-> receipts[SelectionAttempt(Turn(b))], admission |-> integrations[Turn(b)]]

(* Stored once; another builder's artifact must be the very same. *)
StoreArtifact(b) ==
    /\ Is(b, "store")
    /\ IF Turn(b) \in DOMAIN artifacts
       THEN /\ Move(b, IF artifacts[Turn(b)] = Artifact(b) THEN "candidate" ELSE "failed")
            /\ UNCHANGED artifacts
       ELSE /\ artifacts' = Give(artifacts, Turn(b), Artifact(b))
            /\ Move(b, "candidate")
    /\ UNCHANGED <<zoneVars, syncVars, integrations, phases, attempts, held>>

BindCandidate(b) ==
    /\ Is(b, "candidate")
    /\ LET artifact == artifacts[Turn(b)] IN
       phases' = WithPhase(Turn(b), "candidate", artifact, artifact.offer)
    /\ Move(b, "require")
    /\ UNCHANGED <<zoneVars, syncVars, integrations, artifacts, attempts, held>>

(* bind_milestone5_artifact_requirement, then the selection is kept in the  *)
(* memory of this process; a second one is refused.                         *)
RequireArtifact(b) ==
    /\ Is(b, "require")
    /\ LET t == Turn(b) IN
       IF /\ attempts[t].state = "accepted_pending_readiness"
          /\ attempts[t].required \in {None, artifacts[t]}
       THEN /\ attempts' = [attempts EXCEPT ![t].required = artifacts[t]]
            /\ held' = IF held[t] = "capability" THEN [held EXCEPT ![t] = "selection"] ELSE held
            /\ Put(b, IdleBuilder)
       ELSE Move(b, "failed") /\ UNCHANGED <<attempts, held>>
    /\ UNCHANGED <<zoneVars, syncVars, integrations, artifacts, phases>>

(* Any step may fail by itself; what was committed stays.                   *)
FailBuild(b) ==
    /\ ~Is(b, "idle")
    /\ Put(b, IdleBuilder)
    /\ UNCHANGED <<zoneVars, syncVars, integrations, artifacts, phases, attempts, held>>

-----------------------------------------------------------------------------
(* From the preflight to the dispatch.                                      *)

Preflight(t, body) ==
    /\ held[t] = "selection"
    /\ PhaseFits(t, "preflight", attempts[t].required, body)
    /\ phases' = WithPhase(t, "preflight", attempts[t].required, body)
    /\ held' = [held EXCEPT ![t] = "operation"]
    /\ UNCHANGED <<zoneVars, syncVars, build, integrations, artifacts, attempts>>

(* record_generation2_readiness, with the body the preflight prepared. *)
RecordReadiness(t) ==
    /\ held[t] = "operation" /\ attempts[t].state = "accepted_pending_readiness"
    /\ attempts' = [attempts EXCEPT ![t].state = "ready",
                                    ![t].endpoint = PhaseOf(t, "preflight").input]
    /\ UNCHANGED <<zoneVars, syncVars, build, integrations, artifacts, phases, held>>

Activate(t) ==
    /\ held[t] = "operation" /\ attempts[t].state = "ready"
    /\ PhaseFits(t, "activation", attempts[t].required, attempts[t].endpoint)
    /\ phases' = WithPhase(t, "activation", attempts[t].required, attempts[t].endpoint)
    /\ attempts' = [attempts EXCEPT ![t].state = "active"]
    /\ UNCHANGED <<zoneVars, syncVars, build, integrations, artifacts, held>>

(* A failed activation is bound as a rollback, after whatever was bound     *)
(* before it, and forgets the prepared operation.                           *)
ActivationFails(t) ==
    /\ held[t] = "operation" /\ attempts[t].state \in {"ready", "active"}
    /\ LET artifact == attempts[t].required
           reason == "gate12s_activation_failed" IN
       phases' = IF PhaseFits(t, "rollback", artifact, reason)
                 THEN WithPhase(t, "rollback", artifact, reason) ELSE phases
    /\ attempts' = [attempts EXCEPT ![t].state = "activation_failed"]
    /\ held' = [held EXCEPT ![t] = "none"]
    /\ UNCHANGED <<zoneVars, syncVars, build, integrations, artifacts>>

SameRequest(t, body) == body = attempts[t].endpoint

(* validate_final_request_boundary: the body about to be sent is the one    *)
(* that was activated, then the interception phase is bound.                *)
FinalBoundary(t, body) ==
    /\ attempts[t].state = "active" /\ SameRequest(t, body) /\ attempts[t].final = None
    /\ attempts' = [attempts EXCEPT ![t].final = body]
    /\ phases' = IF PhaseFits(t, "interception", attempts[t].required, body)
                 THEN WithPhase(t, "interception", attempts[t].required, body) ELSE phases
    /\ UNCHANGED <<zoneVars, syncVars, build, integrations, artifacts, held>>

(* intercept_final_transport of a live turn: bound last, then sent. *)
Dispatch(t) ==
    /\ attempts[t].state = "active" /\ attempts[t].final # None
    /\ attempts[t].final = attempts[t].endpoint
    /\ PhaseFits(t, "dispatch", attempts[t].required, attempts[t].final)
    /\ phases' = WithPhase(t, "dispatch", attempts[t].required, attempts[t].final)
    /\ attempts' = [attempts EXCEPT ![t].state = "dispatched"]
    /\ UNCHANGED <<zoneVars, syncVars, build, integrations, artifacts, held>>

(* A restart loses the builders and everything held in memory. *)
Restart ==
    /\ crashes < MaxCrashes
    /\ crashes' = crashes + 1
    /\ build' = [b \in Builders |-> IdleBuilder]
    /\ held' = [t \in Turns |-> "none"]
    /\ sync' = [h \in Handlers |-> IdleHandler] /\ journalLock' = None
    /\ UNCHANGED <<zoneVars, working, bundles, disowned, applications, ingested, turnVars,
                   integrations, artifacts, phases, attempts>>

BuildNext ==
    \/ \E b \in Builders :
          \/ \E t \in Turns, offer \in Offers, now \in Times : BeginBuild(b, t, offer, now)
          \/ ArtifactReplayed(b) \/ ReadWorkingSet(b) \/ ScanCold(b) \/ ReadRoom(b)
          \/ ReadUnits(b) \/ RecordCold(b) \/ Assemble(b) \/ Integrate(b) \/ StoreArtifact(b)
          \/ BindCandidate(b) \/ RequireArtifact(b) \/ FailBuild(b)
    \/ \E t \in Turns :
          \/ \E body \in Bodies : Preflight(t, body) \/ FinalBoundary(t, body)
          \/ RecordReadiness(t) \/ Activate(t) \/ ActivationFails(t) \/ Dispatch(t)
    \/ Restart

(* The whole candidate: turns are completed while requests are built.       *)
CandidateNext ==
    \/ SyncNext /\ UNCHANGED buildVars
    \/ BuildNext

CandidateSpec ==
    /\ ZonesInit /\ SyncInit /\ BuildInit
    /\ [][CandidateNext]_<<zoneVars, syncVars, buildVars>>

-----------------------------------------------------------------------------
(* A recorded selection shows the room of one moment, although its parts    *)
(* are read one by one while handlers write: the revision it names, where   *)
(* the room has one, and no turn twice.                                     *)
SelectionIsOneMoment ==
    \A t \in Turns :
        LET receipt == receipts[SelectionAttempt(t)] IN
        SelectionAttempt(t) \in DOMAIN receipts /\ receipt.state = "selected" =>
            /\ receipt.request.row > 0 => receipt.request.snapshot = At(receipt.request.row)
            /\ receipt.result.hot \cap MembersOf(receipt.result.warm \cup receipt.result.cold) = {}
            /\ receipt.result.warm \cap receipt.result.cold = {}

(* What is dispatched went through every phase with one artifact and one    *)
(* body, and that artifact is the stored one, made of the selection and the *)
(* admission the two receipt stores hold.                                   *)
DispatchIsGrounded ==
    \A t \in Turns :
        "dispatch" \in Bound(t) =>
            /\ Range(PhaseOrder) \subseteq Bound(t)
            /\ \A p \in Range(phases[t]) : p.artifact = artifacts[t]
            /\ \A p \in Range(phases[t]) :
                  p.phase \notin {"candidate", "rollback"} => p.input = attempts[t].endpoint
            /\ artifacts[t].selection = receipts[SelectionAttempt(t)]
            /\ artifacts[t].admission = integrations[t]
            /\ integrations[t].state = "selected"

RequestIsGrounded == SelectionIsOneMoment /\ DispatchIsGrounded

(* Every recorded admission keeps what it owes: required sections whole, no *)
(* text twice, nothing lost but to the budget, nothing past a section that  *)
(* was left out.                                                            *)
AdmissionIsSound ==
    \A t \in DOMAIN integrations :
        integrations[t].state = "selected" =>
            AdmissionOwes(integrations[t].request.contradicted, integrations[t].request.offered,
                          RequestBudget, integrations[t].sections)
=============================================================================
