---------------------------- MODULE CuratedMemory ----------------------------
(***************************************************************************)
(* The curated memory: an append-only chain of events, replayed into a     *)
(* projection of records, relations, evolution proposals and applied       *)
(* resolutions (house_memory_curated_projection_v0.py over the events of   *)
(* house_memory_curated_event_contract_v0.py and the older                 *)
(* house_memory_durable_event_contract_v0.py), which the selection         *)
(* contract accepts or refuses as a whole                                  *)
(* (validate_projection, house_memory_selection_contract_v0.py).           *)
(*                                                                         *)
(* The state is the projection of the chain so far; an action is one more  *)
(* event that replay accepts.  Replaying an event that raises refuses the  *)
(* whole chain, so such an event has no action.  Hashes are identities:    *)
(* equal refs are equal contents, and event ids, counters, timestamps and  *)
(* reason codes, which no rule reads, are left out.                        *)
(***************************************************************************)
EXTENDS Integers, FiniteSets

CONSTANTS
  Memories,     \* memory_ref_hash values: numbers, as their order counts
  Versions,     \* canonical_record_version_hash values
  Places,       \* pairs of participant and audience scope
  Claims,       \* strength and evidence of a relation
  Blockers,     \* blocker flags the instance uses
  MaxProposals, \* bound of the model: proposals created
  Nil           \* an absent record

ASSUME MemoriesAreOrdered == Memories \subseteq Int

Provenance == "missing_source_or_provenance_pointer"
Historical == "stale_or_superseded"

ASSUME BlockersAssumption == {Provenance, Historical} \subseteq Blockers

\* lookup stands for the explicit, manual and exact paths, which are alike.
Capabilities == {"standing", "default", "lookup"}

\* A row of the projection, and of the older replay.
Shape == [superseded : BOOLEAN, provenance : BOOLEAN,
          blockers : SUBSET Blockers, capabilities : SUBSET Capabilities]
LegacyRow == [version : Versions, shape : Shape,
              standing : BOOLEAN, default : BOOLEAN, lookup : BOOLEAN]

VARIABLES
  records,      \* projection "records": memory -> record, or Nil
  relations,    \* projection "relations": ref -> relation
  proposals,    \* projection "proposals": in the order of their creation
  resolutions,  \* projection "resolutions": ref -> resolution
  legacy,       \* replay_events' own records, while every event is of schema v0
  ordinary,     \* history: nothing but ordinary events so far
  confirmed     \* history: what each memory's Core status was confirmed for

memoryVars == <<records, relations, proposals, resolutions, legacy, ordinary, confirmed>>

-----------------------------------------------------------------------------
(***************************************************************************)
(* Scopes.  The review state follows from the authority, and the status    *)
(* from whether the observation is a historical one.                       *)
(***************************************************************************)
Synthetic == [place |-> "synthetic", authority |-> "synthetic_test", owner |-> "synthetic_test"]

AcceptedAuthorities ==
  ({"reviewed_memory", "candidate_only"} \X {"astel", "solen", "astel_solen"}) \cup
  ({"solen_active_memory"} \X {"solen", "house_standing_consent"})

Accepted(scope) == <<scope.authority, scope.owner>> \in AcceptedAuthorities

RealScopes ==
  {s \in [place : Places, authority : {a[1] : a \in AcceptedAuthorities},
          owner : {a[2] : a \in AcceptedAuthorities}] : Accepted(s)}

Scopes == RealScopes \cup {Synthetic}

\* Whose approval a relation of payload v2 and an applied resolution need.
Approves(scope) ==
  \/ scope.authority = "reviewed_memory" /\ scope.owner = "astel"
  \/ scope.authority = "solen_active_memory"

\* What an observation says besides version and scope; a superseded one must
\* carry its blocker and may claim no capability.
Shapes ==
  {s \in Shape : s.superseded => Historical \in s.blockers /\ s.capabilities = {}}

MemoryRecord ==
  [version : Versions, scope : Scopes, shape : Shape,
   core : {"normal_reviewed", "core", "quiet"}, lifecycle : {"active", "cooling", "quiet"},
   unresolved : BOOLEAN, base : BOOLEAN,
   standing : BOOLEAN, default : BOOLEAN, lookup : BOOLEAN]

ASSUME NilAssumption == Nil \notin MemoryRecord \cup LegacyRow

MemoryInit ==
  /\ records = [m \in Memories |-> Nil]
  /\ relations = [ref \in {} |-> Nil]
  /\ proposals = [i \in {} |-> Nil]
  /\ resolutions = [ref \in {} |-> Nil]
  /\ legacy = [m \in Memories |-> Nil]
  /\ ordinary = TRUE
  /\ confirmed = [m \in Memories |-> Nil]

With(f, key, value) ==
  [k \in DOMAIN f \cup {key} |-> IF k = key THEN value ELSE f[k]]

Exists(m) == records[m] # Nil

Is(m, version) == Exists(m) /\ records[m].version = version

-----------------------------------------------------------------------------
(***************************************************************************)
(* What an event on a record does to what refers to that record.           *)
(***************************************************************************)
Blocked(r) == r.shape.blockers # {}

EndsAt(ref, m) == m \in {ref.left, ref.right}

Compares(x, m) == m \in {x.primary, x.comparison}

\* _stale_touching
StaleRelations(m) ==
  [ref \in DOMAIN relations |->
     IF relations[ref].state = "active" /\ EndsAt(ref, m)
       THEN [relations[ref] EXCEPT !.state = "stale_endpoint_version", !.expands = FALSE]
       ELSE relations[ref]]

\* Fault: proposals survive the move of what they compare.
SeededStaleProposals(m) == proposals

StaleProposals(m) ==
  [i \in DOMAIN proposals |->
     IF proposals[i].state \in {"proposed", "check_needed"} /\ Compares(proposals[i], m)
       THEN [proposals[i] EXCEPT !.state = "stale"] ELSE proposals[i]]

StaleResolutions(m) ==
  [ref \in DOMAIN resolutions |->
     IF Compares(ref, m) THEN [resolutions[ref] EXCEPT !.state = "stale_endpoint_version"]
     ELSE resolutions[ref]]

\* _refresh_touching_relations, with the records as the event leaves them
RefreshedRelations(m, recs) ==
  [ref \in DOMAIN relations |->
     IF relations[ref].state = "active" /\ EndsAt(ref, m)
       THEN [relations[ref] EXCEPT
               !.expands = ~Blocked(recs[ref.left]) /\ ~Blocked(recs[ref.right])]
       ELSE relations[ref]]

\* _refresh_proposal_state: a withdrawn or stale proposal keeps its state.
Refreshed(p, recs) ==
  LET ends == {recs[p.primary], recs[p.comparison]}
      involved == \E r \in ends : r.core = "core"
      unresolved == \E r \in ends : r.unresolved
  IN [p EXCEPT !.coreInvolved = involved, !.unresolved = unresolved,
        !.state = IF @ \in {"withdrawn", "stale"} THEN @
                  ELSE IF involved \/ unresolved \/ p.blockers # {} \/ \E r \in ends : Blocked(r)
                    THEN "check_needed" ELSE "proposed"]

RefreshedProposals(m, recs) ==
  [i \in DOMAIN proposals |->
     IF Compares(proposals[i], m) THEN Refreshed(proposals[i], recs) ELSE proposals[i]]

\* History: events after which validate_projection is expected to accept.
Ordinary(m) == ordinary /\ \A ref \in DOMAIN resolutions : ~Compares(ref, m)

-----------------------------------------------------------------------------
\* The blockers a shape projects: missing provenance is one of them.
Projected(shape) ==
  [shape EXCEPT !.blockers = @ \cup (IF shape.provenance THEN {} ELSE {Provenance})]

Moved(m, version, scope) ==
  Exists(m) /\ (records[m].version # version \/ records[m].scope # scope)

\* Fault: a second observation clears the question the first one raised.
SeededUnresolved(m, version, scope) ==
  Exists(m) /\ records[m].core = "core" /\ Moved(m, version, scope)

\* core_resolution_required: sticky once a Core record has moved.
Unresolved(m, version, scope) ==
  /\ Exists(m) /\ records[m].core = "core"
  /\ Moved(m, version, scope) \/ records[m].unresolved

\* _record_from_event
RecordFromEvent(m, version, scope, shape) ==
  LET p == Projected(shape)
      core == IF Exists(m) THEN records[m].core ELSE "normal_reviewed"
      unresolved == Unresolved(m, version, scope)
      base == p.blockers = {} /\ "standing" \in shape.capabilities
  IN [version |-> version, scope |-> scope, shape |-> p, core |-> core,
      lifecycle |-> IF Exists(m) THEN records[m].lifecycle ELSE "active",
      unresolved |-> unresolved, base |-> base,
      standing |-> core # "quiet" /\
        (base \/ (core = "core" /\ ~unresolved /\ p.blockers = {})),
      default |-> core # "quiet" /\ p.blockers = {} /\ "default" \in shape.capabilities,
      lookup |-> p.blockers = {} /\ "lookup" \in shape.capabilities]

\* Fault: a record without provenance keeps its capabilities.
SeededLegacyRecord(version, shape) ==
  [version |-> version, shape |-> Projected(shape), standing |-> "standing" \in shape.capabilities,
   default |-> "default" \in shape.capabilities, lookup |-> "lookup" \in shape.capabilities]

\* replay_events: the record of a chain of schema v0, whatever came before.
LegacyRecord(version, shape) ==
  LET p == Projected(shape)
      offered(capability) == p.blockers = {} /\ capability \in shape.capabilities
  IN [version |-> version, shape |-> p, standing |-> offered("standing"),
      default |-> offered("default"), lookup |-> offered("lookup")]

Apply(m, record) ==
  /\ records' = [records EXCEPT ![m] = record]
  /\ IF Moved(m, record.version, record.scope)
       THEN /\ relations' = StaleRelations(m)
            /\ proposals' = StaleProposals(m)
            /\ resolutions' = StaleResolutions(m)
       ELSE /\ relations' = RefreshedRelations(m, records')
            /\ proposals' = RefreshedProposals(m, records')
            /\ UNCHANGED resolutions

(***************************************************************************)
(* record_observed and record_version_observed.  Of schema v1, the first   *)
(* one creates and the second one updates; of schema v0 either does both,  *)
(* always in the synthetic scope.                                          *)
(***************************************************************************)
Observe(m, version, scope, shape) ==
  /\ shape.superseded => Exists(m) /\ scope.authority = "reviewed_memory"
  /\ Apply(m, RecordFromEvent(m, version, scope, shape))
  /\ legacy' = Nil
  /\ ordinary' = /\ Ordinary(m) /\ ~shape.superseded /\ scope # Synthetic
                 /\ Exists(m) => records[m].scope = scope
  /\ UNCHANGED confirmed

ObserveLegacy(m, version, shape) ==
  /\ ~shape.superseded
  /\ Apply(m, RecordFromEvent(m, version, Synthetic, shape))
  /\ legacy' = IF legacy = Nil THEN Nil
               ELSE [legacy EXCEPT ![m] = LegacyRecord(version, shape)]
  /\ ordinary' = FALSE
  /\ UNCHANGED confirmed

AfterRepair(m) ==
  /\ relations' = StaleRelations(m)
  /\ proposals' = StaleProposals(m)
  /\ resolutions' = StaleResolutions(m)

\* metadata_repair_reconciled: another version, and nothing else may differ.
\* The event's own blockers are compared with the projected ones.
Repair(m, version) ==
  /\ Exists(m)
  /\ records[m].version # version
  /\ ~records[m].shape.superseded    \* only an observation may carry that state
  /\ records' = [records EXCEPT ![m].version = version]
  /\ AfterRepair(m)
  /\ legacy' = Nil
  /\ ordinary' = Ordinary(m)
  /\ confirmed' = [confirmed EXCEPT ![m] =
       IF @ = <<records[m].version, records[m].scope>> THEN <<version, @[2]>> ELSE @]

-----------------------------------------------------------------------------
\* Every other event names the current version of its record and its scope,
\* and is of schema v1.
OnRecord(m, record) ==
  /\ records' = [records EXCEPT ![m] = record]
  /\ legacy' = Nil

(***************************************************************************)
(* set_core and remove_core                                                *)
(***************************************************************************)
Core(m, record) ==
  /\ OnRecord(m, record)
  /\ proposals' = RefreshedProposals(m, records')
  /\ ordinary' = Ordinary(m)
  /\ UNCHANGED <<relations, resolutions>>

SetCore(m) ==
  /\ Exists(m) /\ records[m].core # "quiet"
  /\ records[m].shape.provenance /\ ~Blocked(records[m])
  /\ ~records[m].shape.superseded
  /\ records[m].scope.authority \in {"reviewed_memory", "solen_active_memory"}
  /\ Core(m, [records[m] EXCEPT !.core = "core", !.unresolved = FALSE, !.standing = TRUE])
  /\ confirmed' = [confirmed EXCEPT ![m] = <<records[m].version, records[m].scope>>]

RemoveCore(m) ==
  /\ Exists(m) /\ records[m].core # "quiet"
  /\ Core(m, [records[m] EXCEPT !.core = "normal_reviewed", !.unresolved = FALSE,
                                !.standing = records[m].base])
  /\ UNCHANGED confirmed

-----------------------------------------------------------------------------
(***************************************************************************)
(* The lifecycle: quiet and restore_normal by a participant; cooling,      *)
(* quiet and wake-up by the policy, each naming the state it starts from.  *)
(***************************************************************************)
Lifecycle(m, record) ==
  /\ OnRecord(m, record)
  /\ ordinary' = FALSE
  /\ UNCHANGED <<relations, proposals, resolutions, confirmed>>

Suppressed(r) == [r EXCEPT !.standing = FALSE, !.default = FALSE]

DefaultAgain(r) == "default" \in r.shape.capabilities /\ ~Blocked(r)

Quiet(m) ==
  /\ Exists(m) /\ records[m].core = "normal_reviewed" /\ ~records[m].unresolved
  /\ Lifecycle(m, Suppressed([records[m] EXCEPT !.core = "quiet", !.lifecycle = "quiet"]))

RestoreNormal(m) ==
  /\ Exists(m) /\ records[m].core = "quiet"
  /\ Lifecycle(m, [records[m] EXCEPT !.core = "normal_reviewed", !.lifecycle = "active",
                     !.standing = records[m].base, !.default = DefaultAgain(records[m])])

Coolable(m) ==
  Exists(m) /\ records[m].core # "core" /\ ~records[m].unresolved /\ ~Blocked(records[m])

AutomaticCooling(m) ==
  /\ Coolable(m) /\ records[m].lifecycle = "active"
  /\ Lifecycle(m, Suppressed([records[m] EXCEPT !.lifecycle = "cooling"]))

\* Protected classes are an input that forbids the event.
AutomaticQuiet(m) ==
  /\ Coolable(m) /\ records[m].lifecycle = "cooling"
  /\ Lifecycle(m, Suppressed([records[m] EXCEPT !.lifecycle = "quiet"]))

LifecycleWakeup(m) ==
  /\ Exists(m) /\ records[m].lifecycle \in {"cooling", "quiet"}
  /\ LET r == [records[m] EXCEPT !.lifecycle = "active",
                 !.core = IF @ = "quiet" THEN "normal_reviewed" ELSE @]
     IN Lifecycle(m, [r EXCEPT
          !.standing = r.base \/ (r.core = "core" /\ ~r.unresolved /\ ~Blocked(r)),
          !.default = DefaultAgain(r)])

-----------------------------------------------------------------------------
(***************************************************************************)
(* Relations.  canonical_relation_endpoints: a symmetric relation is one   *)
(* relation, whichever way round it is told.  Payload v1 takes both ends'  *)
(* scope from the event, payload v2 names each end's own and is approved   *)
(* by the event's.                                                         *)
(***************************************************************************)
RelationRef(v2, left, right, symmetric, leftScope, rightScope) ==
  LET swap == symmetric /\ right < left
  IN [v2 |-> v2, symmetric |-> symmetric,
      left |-> IF swap THEN right ELSE left, right |-> IF swap THEN left ELSE right,
      leftScope |-> IF swap THEN rightScope ELSE leftScope,
      rightScope |-> IF swap THEN leftScope ELSE rightScope]

Current(ref, payload) == Is(ref.left, payload.leftVersion) /\ Is(ref.right, payload.rightVersion)

Footed(ref) == records[ref.left].scope = ref.leftScope /\ records[ref.right].scope = ref.rightScope

\* compute_relation_ref and compute_relation_ref_v2
WellScoped(ref, approval) ==
  IF ref.v2 THEN /\ ref.leftScope.place = ref.rightScope.place
                 /\ Synthetic \notin {ref.leftScope, ref.rightScope}
                 /\ Approves(approval)
  ELSE {ref.leftScope, ref.rightScope} = {approval}

\* The projected relation takes its place from the event; payload v2 names
\* one of its own, and the two are never compared before they are stored.
Told(ref, place) == ref.leftScope.place = place

OnRelation(ref, relation) ==
  /\ relations' = With(relations, ref, relation)
  /\ legacy' = Nil
  /\ ordinary' = (ordinary /\ Told(ref, relation.place))
  /\ UNCHANGED <<records, proposals, resolutions, confirmed>>

AssertRelation(ref, payload, approval) ==
  /\ ref.left # ref.right
  /\ Current(ref, payload) /\ Footed(ref) /\ WellScoped(ref, approval)
  /\ ref.v2 => \A m \in {ref.left, ref.right} :
       records[m].shape.provenance /\ ~Blocked(records[m])
  /\ ref \in DOMAIN relations =>
       /\ relations[ref].state # "retracted"
       /\ relations[ref].state = "active" =>
            relations[ref].payload = payload /\ Told(ref, relations[ref].place)
  /\ OnRelation(ref, [payload |-> payload, place |-> approval.place, state |-> "active",
       expands |-> ~Blocked(records[ref.left]) /\ ~Blocked(records[ref.right])])

\* A stale relation of payload v2 is retracted as it was; any other one only
\* while both ends are what the payload says.
RetractRelation(ref, approval) ==
  /\ ref \in DOMAIN relations
  /\ WellScoped(ref, approval) /\ Told(ref, relations[ref].place)
  /\ \/ ref.v2 /\ relations[ref].state = "stale_endpoint_version"
     \/ /\ Current(ref, relations[ref].payload) /\ Footed(ref)
        /\ ref.v2 => \A m \in {ref.left, ref.right} : records[m].shape.provenance
  /\ OnRelation(ref, [relations[ref] EXCEPT !.state = "retracted", !.expands = FALSE,
                                             !.place = approval.place])

-----------------------------------------------------------------------------
(***************************************************************************)
(* Evolution.  A proposal is identified by the action that creates it, a   *)
(* resolution by its contents, and an action is replayed once: neither is  *)
(* ever written a second time.                                             *)
(***************************************************************************)
CreateProposal(primary, comparison, blockers) ==
  LET i == Cardinality(DOMAIN proposals) + 1
      p == [primary |-> primary, primaryVersion |-> records[primary].version,
            comparison |-> comparison, comparisonVersion |-> records[comparison].version,
            scope |-> records[primary].scope, blockers |-> blockers, state |-> "proposed",
            coreInvolved |-> FALSE, unresolved |-> FALSE]
  IN /\ i <= MaxProposals
     /\ primary # comparison /\ Exists(primary) /\ Exists(comparison)
     /\ records[primary].scope = records[comparison].scope
     /\ proposals' = With(proposals, i, Refreshed(p, records))
     /\ legacy' = Nil
     /\ UNCHANGED <<records, relations, resolutions, ordinary, confirmed>>

\* The payload is that of the creation, so its scope is checked by nobody.
WithdrawProposal(i) ==
  /\ i \in DOMAIN proposals
  /\ proposals' = [proposals EXCEPT ![i].state = "withdrawn"]
  /\ legacy' = Nil
  /\ UNCHANGED <<records, relations, resolutions, ordinary, confirmed>>

ApplyEvolution(primary, comparison, disposition, blockers, approval) ==
  LET ends == {records[primary], records[comparison]}
      ref == [primary |-> primary, primaryVersion |-> records[primary].version,
              comparison |-> comparison, comparisonVersion |-> records[comparison].version,
              disposition |-> disposition]
      all == blockers \cup UNION {r.shape.blockers : r \in ends}
      involved == \E r \in ends : r.core = "core"
      check == involved \/ \E r \in ends : r.unresolved
  IN /\ primary # comparison /\ Exists(primary) /\ Exists(comparison)
     /\ ref \notin DOMAIN resolutions
     /\ Approves(approval)
     /\ \A r \in ends : r.scope.place = approval.place
     /\ involved = check
     /\ check \/ all # {} => disposition = "check_needed"
     /\ resolutions' = With(resolutions, ref,
          [place |-> approval.place, blockers |-> all, coreInvolved |-> involved,
           coreCheck |-> check,
           state |-> IF disposition = "check_needed" THEN "check_needed" ELSE "active"])
     /\ legacy' = Nil
     /\ UNCHANGED <<records, relations, proposals, ordinary, confirmed>>

-----------------------------------------------------------------------------
\* A resolution keeps one or both records as they are, or leaves the question open.
Dispositions == {"retained", "check_needed"}

RelationPayload == [leftVersion : Versions, rightVersion : Versions, claim : Claims]

\* Any event that replay accepts.
MemoryNext ==
  \/ \E m \in Memories, version \in Versions :
       \/ \E scope \in Scopes, shape \in Shapes : Observe(m, version, scope, shape)
       \/ \E shape \in Shapes : ObserveLegacy(m, version, shape)
       \/ Repair(m, version)
  \/ \E m \in Memories :
       \/ SetCore(m) \/ RemoveCore(m)
       \/ Quiet(m) \/ RestoreNormal(m) \/ LifecycleWakeup(m)
       \/ AutomaticCooling(m) \/ AutomaticQuiet(m)
  \/ \E v2, symmetric \in BOOLEAN, left, right \in Memories, leftScope, rightScope \in Scopes,
        payload \in RelationPayload, approval \in Scopes :
       AssertRelation(RelationRef(v2, left, right, symmetric, leftScope, rightScope),
                      payload, approval)
  \/ \E ref \in DOMAIN relations, approval \in Scopes : RetractRelation(ref, approval)
  \/ \E primary, comparison \in Memories, blockers \in SUBSET Blockers :
       \/ CreateProposal(primary, comparison, blockers)
       \/ \E disposition \in Dispositions, approval \in Scopes :
            ApplyEvolution(primary, comparison, disposition, blockers, approval)
  \/ \E i \in DOMAIN proposals : WithdrawProposal(i)

MemorySpec == MemoryInit /\ [][MemoryNext]_memoryVars

-----------------------------------------------------------------------------
(***************************************************************************)
(* validate_projection                                                     *)
(***************************************************************************)
ValidRecord(r) ==
  LET active == r.lifecycle = "active"
      base == ~Blocked(r) /\ active /\ "standing" \in r.shape.capabilities
  IN /\ Accepted(r.scope) /\ ~r.shape.superseded
     /\ r.core \in {"core", "normal_reviewed"}
     /\ r.core = "normal_reviewed" => ~r.unresolved
     /\ r.base = base
     /\ r.default = (~Blocked(r) /\ active /\ "default" \in r.shape.capabilities)
     /\ r.lookup = (~Blocked(r) /\ "lookup" \in r.shape.capabilities)
     /\ r.standing = (base \/ (~Blocked(r) /\ r.core = "core" /\ ~r.unresolved))

ValidRelation(ref) ==
  LET rel == relations[ref]
      leftIs == Is(ref.left, rel.payload.leftVersion)
      rightIs == Is(ref.right, rel.payload.rightVersion)
      footed == leftIs /\ rightIs /\ Footed(ref)
  IN /\ Exists(ref.left) /\ Exists(ref.right)
     /\ Told(ref, rel.place)
     /\ leftIs => records[ref.left].scope = ref.leftScope
     /\ rightIs => records[ref.right].scope = ref.rightScope
     /\ rel.state = "active" => footed
     /\ rel.expands = (/\ rel.state = "active" /\ footed
                       /\ ~Blocked(records[ref.left]) /\ ~Blocked(records[ref.right]))

ValidProposal(p) ==
  LET primaryIs == Is(p.primary, p.primaryVersion)
      comparisonIs == Is(p.comparison, p.comparisonVersion)
      scoped == {records[p.primary].scope, records[p.comparison].scope} = {p.scope}
  IN /\ Exists(p.primary) /\ Exists(p.comparison)
     /\ primaryIs => records[p.primary].scope = p.scope
     /\ comparisonIs => records[p.comparison].scope = p.scope
     /\ p.state \in {"proposed", "check_needed"} => primaryIs /\ comparisonIs /\ scoped

ValidResolution(ref) ==
  LET res == resolutions[ref]
      ends == {records[ref.primary], records[ref.comparison]}
      involved == \E r \in ends : r.core = "core"
      isCurrent == Is(ref.primary, ref.primaryVersion) /\ Is(ref.comparison, ref.comparisonVersion)
  IN /\ Exists(ref.primary) /\ Exists(ref.comparison)
     /\ \A r \in ends : r.scope.place = res.place
     /\ res.coreInvolved = involved
     /\ res.coreCheck = (involved \/ \E r \in ends : r.unresolved)
     /\ \A r \in ends : r.shape.blockers \subseteq res.blockers
     /\ res.state = IF ~isCurrent THEN "stale_endpoint_version"
                    ELSE IF res.coreCheck \/ res.blockers # {} \/ ref.disposition = "check_needed"
                      THEN "check_needed" ELSE "active"

ValidProjection ==
  /\ \A m \in Memories : Exists(m) => ValidRecord(records[m])
  /\ \A ref \in DOMAIN relations : ValidRelation(ref)
  /\ \A i \in DOMAIN proposals : ValidProposal(proposals[i])
  /\ \A ref \in DOMAIN resolutions : ValidResolution(ref)

-----------------------------------------------------------------------------
(***************************************************************************)
(* Replay and validation agree: a chain of ordinary events (observations   *)
(* that keep a record's scope, repairs, Core actions, relations, proposals *)
(* and resolutions whose ends stay as they were) is a projection that      *)
(* selection accepts.  One event outside that list can make it refuse      *)
(* every later projection of the chain.                                    *)
(***************************************************************************)
OrdinaryChainsAreSelectable == ordinary => ValidProjection

(***************************************************************************)
(* Whatever the chain, a relation, proposal or resolution that still       *)
(* counts refers to what both its records are now, and a relation widens a *)
(* selection only between records that are both unblocked.                 *)
(***************************************************************************)
LiveMeansCurrent ==
  /\ \A ref \in DOMAIN relations : relations[ref].state = "active" =>
       /\ Current(ref, relations[ref].payload) /\ Footed(ref)
       /\ relations[ref].expands = (~Blocked(records[ref.left]) /\ ~Blocked(records[ref.right]))
  /\ \A i \in DOMAIN proposals : proposals[i].state \in {"proposed", "check_needed"} =>
       /\ Is(proposals[i].primary, proposals[i].primaryVersion)
       /\ Is(proposals[i].comparison, proposals[i].comparisonVersion)
       /\ {records[proposals[i].primary].scope, records[proposals[i].comparison].scope}
            = {proposals[i].scope}
  /\ \A ref \in DOMAIN resolutions : resolutions[ref].state # "stale_endpoint_version" =>
       Is(ref.primary, ref.primaryVersion) /\ Is(ref.comparison, ref.comparisonVersion)

(***************************************************************************)
(* Core footing is for what was confirmed: a Core record whose resolution  *)
(* is not open has the version and scope that set_core last confirmed, or  *)
(* that a metadata repair led there from, whatever was observed meanwhile. *)
(***************************************************************************)
CoreIsConfirmed ==
  \A m \in Memories :
    Exists(m) /\ records[m].core = "core" /\ ~records[m].unresolved =>
      confirmed[m] = <<records[m].version, records[m].scope>>

(***************************************************************************)
(* So nothing that was decided about a version stands for another one, in  *)
(* whatever order observations, decisions and repairs arrive (replay of    *)
(* the mixed chain).                                                       *)
(***************************************************************************)
StandingIsCurrent == LiveMeansCurrent /\ CoreIsConfirmed

(***************************************************************************)
(* The two replays agree: on a chain of schema v0 the mixed replay shows   *)
(* the records that replay_events shows by itself.                         *)
(***************************************************************************)
ReplaysAgree ==
  legacy # Nil => \A m \in Memories :
    /\ Exists(m) <=> legacy[m] # Nil
    /\ Exists(m) =>
         /\ records[m].version = legacy[m].version
         /\ records[m].shape = legacy[m].shape
         /\ records[m].standing = legacy[m].standing
         /\ records[m].default = legacy[m].default
         /\ records[m].lookup = legacy[m].lookup
=============================================================================
