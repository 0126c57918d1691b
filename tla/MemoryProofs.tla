---------------------------- MODULE MemoryProofs ----------------------------
(***************************************************************************)
(* Theorems about the curated memories (CuratedMemory), and about the      *)
(* evidence by which a participant's word may change one                   *)
(* (ParticipantEvidence).                                                  *)
(***************************************************************************)
EXTENDS CuratedMemory, ParticipantEvidence, FiniteSetTheorems, TLAPS

-----------------------------------------------------------------------------
(***************************************************************************)
(* For every chain of events that replay accepts, over any memories,       *)
(* versions, places, claims and blockers: nothing that was decided about   *)
(* one version of a record stands for another, the two replays show the    *)
(* same records, and an ordinary chain leaves a projection that selection  *)
(* accepts.  Neither follows by itself: what is current now stays so       *)
(* because every event that moves a record stales what refers to it, and   *)
(* that needs the refs to be of records that exist (an observation that    *)
(* creates a record moves nothing); validate_projection recomputes base,   *)
(* default, lookup and standing, so the invariant carries what replay put  *)
(* there; and the older replay knows neither Core nor the lifecycle, so    *)
(* it must be known that no event of schema v0 moves them.                 *)
(***************************************************************************)

\* What is written down of relations, proposals and resolutions.
Refs == [v2 : BOOLEAN, symmetric : BOOLEAN, left : Memories, right : Memories,
         leftScope : Scopes, rightScope : Scopes]
Relation == [payload : RelationPayload, place : Places \cup {"synthetic"},
             state : {"active", "stale_endpoint_version", "retracted"}, expands : BOOLEAN]
Proposal == [primary : Memories, primaryVersion : Versions,
             comparison : Memories, comparisonVersion : Versions,
             scope : Scopes, blockers : SUBSET Blockers,
             state : {"proposed", "check_needed", "stale", "withdrawn"},
             coreInvolved : BOOLEAN, unresolved : BOOLEAN]
ResolutionRefs == [primary : Memories, primaryVersion : Versions,
                   comparison : Memories, comparisonVersion : Versions,
                   disposition : Dispositions]
Resolution == [place : Places \cup {"synthetic"}, blockers : SUBSET Blockers,
               coreInvolved : BOOLEAN, coreCheck : BOOLEAN,
               state : {"active", "check_needed", "stale_endpoint_version"}]

\* What refers to records refers to records that exist.
RelationRefers(ref, r) ==
  /\ ref \in Refs /\ r \in Relation
  /\ Exists(ref.left) /\ Exists(ref.right)
  /\ r.state # "active" => ~r.expands
ProposalRefers(p) == p \in Proposal /\ Exists(p.primary) /\ Exists(p.comparison)
ResolutionRefers(ref, r) ==
  /\ ref \in ResolutionRefs /\ r \in Resolution
  /\ Exists(ref.primary) /\ Exists(ref.comparison)

Referring ==
  /\ \A ref \in DOMAIN relations : RelationRefers(ref, relations[ref])
  /\ \A i \in DOMAIN proposals : ProposalRefers(proposals[i])
  /\ \A ref \in DOMAIN resolutions : ResolutionRefers(ref, resolutions[ref])

\* LiveMeansCurrent, one relation, proposal and resolution at a time.
RelationLives(ref, r) ==
  r.state = "active" =>
    /\ Current(ref, r.payload) /\ Footed(ref)
    /\ r.expands = (~Blocked(records[ref.left]) /\ ~Blocked(records[ref.right]))
ProposalLives(p) ==
  p.state \in {"proposed", "check_needed"} =>
    /\ Is(p.primary, p.primaryVersion) /\ Is(p.comparison, p.comparisonVersion)
    /\ {records[p.primary].scope, records[p.comparison].scope} = {p.scope}
ResolutionLives(ref, r) ==
  r.state # "stale_endpoint_version" =>
    Is(ref.primary, ref.primaryVersion) /\ Is(ref.comparison, ref.comparisonVersion)

Living ==
  /\ \A ref \in DOMAIN relations : RelationLives(ref, relations[ref])
  /\ \A i \in DOMAIN proposals : ProposalLives(proposals[i])
  /\ \A ref \in DOMAIN resolutions : ResolutionLives(ref, resolutions[ref])

\* What holds of every record, whatever the chain.
Whole(r) ==
  /\ r.base = (~Blocked(r) /\ "standing" \in r.shape.capabilities)
  /\ r.lookup = (~Blocked(r) /\ "lookup" \in r.shape.capabilities)

AllWhole == \A m \in Memories : Exists(m) => Whole(records[m])

\* A chain of schema v0 has touched nothing but what observations carry.
Simple ==
  legacy # Nil =>
    /\ legacy \in [Memories -> LegacyRow \cup {Nil}]
    /\ \A m \in Memories : Exists(m) => records[m].core = "normal_reviewed"
                                        /\ ~records[m].unresolved

\* An ordinary chain has no record that cools or sleeps, and nothing changes scope.
Ordered ==
  ordinary =>
    /\ \A m \in Memories : Exists(m) =>
         ValidRecord(records[m]) /\ records[m].lifecycle = "active"
    /\ \A ref \in DOMAIN relations : Footed(ref) /\ Told(ref, relations[ref].place)
    /\ \A i \in DOMAIN proposals :
         /\ records[proposals[i].primary].scope = proposals[i].scope
         /\ records[proposals[i].comparison].scope = proposals[i].scope
    /\ \A ref \in DOMAIN resolutions : ValidResolution(ref)

\* A memory has a record or none.
Typed == /\ records \in [Memories -> MemoryRecord \cup {Nil}]
         /\ DOMAIN confirmed = Memories

\* The inductive invariant.
MInv ==
  /\ Typed /\ Referring /\ AllWhole
  /\ Living /\ CoreIsConfirmed
  /\ Simple /\ ReplaysAgree
  /\ Ordered

\* Scopes, shapes and what an observation makes of them.
LEMMA ScopesAre ==
  /\ \A s \in Scopes : s.place \in Places \cup {"synthetic"}
  /\ \A s \in RealScopes : Accepted(s)
  /\ \A s \in Scopes : s # Synthetic => Accepted(s)
BY DEF Scopes, RealScopes, Synthetic

\* What a shape projects is a shape, with at most a blocker more.
LEMMA ProjectedIs ==
  ASSUME NEW shape \in Shapes
  PROVE  /\ Projected(shape) \in Shape
         /\ Projected(shape).superseded = shape.superseded
         /\ Projected(shape).capabilities = shape.capabilities
<1>1. shape \in Shape /\ Provenance \in Blockers
  BY BlockersAssumption DEF Shapes
<1>2. shape.blockers \cup (IF shape.provenance THEN {} ELSE {Provenance}) \in SUBSET Blockers
  BY <1>1 DEF Shape
<1> QED BY <1>1, <1>2 DEF Projected, Shape

\* The record an observation leaves, field by field.
LEMMA RecordIs ==
  ASSUME Typed, NEW m \in Memories, NEW version \in Versions, NEW scope \in Scopes,
         NEW shape \in Shapes
  PROVE  LET x == RecordFromEvent(m, version, scope, shape) IN
         /\ x \in MemoryRecord /\ x # Nil /\ Whole(x)
         /\ x.version = version /\ x.scope = scope /\ x.shape = Projected(shape)
         /\ x.unresolved = Unresolved(m, version, scope)
         /\ x.core = IF Exists(m) THEN records[m].core ELSE "normal_reviewed"
         /\ x.lifecycle = IF Exists(m) THEN records[m].lifecycle ELSE "active"
         /\ x.standing = (x.core # "quiet" /\ (x.base \/ (x.core = "core" /\ ~x.unresolved
                                                          /\ ~Blocked(x))))
         /\ x.default = (x.core # "quiet" /\ ~Blocked(x) /\ "default" \in shape.capabilities)
<1>. DEFINE x == RecordFromEvent(m, version, scope, shape)
            p == Projected(shape)
            core == IF Exists(m) THEN records[m].core ELSE "normal_reviewed"
            lifecycle == IF Exists(m) THEN records[m].lifecycle ELSE "active"
            unresolved == Unresolved(m, version, scope)
<1>1. p \in Shape /\ p.capabilities = shape.capabilities
  BY ProjectedIs
<1>2. /\ core \in {"normal_reviewed", "core", "quiet"}
      /\ lifecycle \in {"active", "cooling", "quiet"}
  BY DEF Typed, Exists, MemoryRecord
<1>3. unresolved \in BOOLEAN
  BY DEF Unresolved, Moved, Typed, Exists, MemoryRecord
<1>4. /\ x.version = version /\ x.scope = scope /\ x.shape = p /\ x.core = core
      /\ x.lifecycle = lifecycle /\ x.unresolved = unresolved
      /\ x.base = (p.blockers = {} /\ "standing" \in shape.capabilities)
      /\ x.standing = (core # "quiet" /\ (x.base \/ (core = "core" /\ ~unresolved
                                                      /\ p.blockers = {})))
      /\ x.default = (core # "quiet" /\ p.blockers = {} /\ "default" \in shape.capabilities)
      /\ x.lookup = (p.blockers = {} /\ "lookup" \in shape.capabilities)
  BY DEF RecordFromEvent
<1>5. x \in MemoryRecord
  BY <1>1, <1>2, <1>3, <1>4 DEF RecordFromEvent, MemoryRecord
<1>6. Blocked(x) <=> p.blockers # {}
  BY <1>4 DEF Blocked
<1>7. Whole(x)
  BY <1>1, <1>4, <1>6 DEF Whole
<1>8. x # Nil
  BY <1>5, NilAssumption
<1> QED BY <1>1, <1>4, <1>5, <1>6, <1>7, <1>8

\* One record is written, and no other.
Written(m, x) == m \in Memories /\ x \in MemoryRecord /\ records' = [records EXCEPT ![m] = x]

\* Writing one record creates it or replaces it, and leaves the others.
LEMMA WrittenIs ==
  ASSUME Typed, NEW m, NEW x, Written(m, x)
  PROVE  /\ records' \in [Memories -> MemoryRecord \cup {Nil}]
         /\ records'[m] = x /\ x # Nil
         /\ \A n \in Memories : n # m => records'[n] = records[n]
         /\ \A n \in Memories : Exists(n)' <=> (n = m \/ Exists(n))
<1>1. /\ records \in [Memories -> MemoryRecord \cup {Nil}] /\ m \in Memories
      /\ x \in MemoryRecord /\ records' = [records EXCEPT ![m] = x] /\ x # Nil
  BY NilAssumption DEF Typed, Written
<1>2. records' \in [Memories -> MemoryRecord \cup {Nil}] /\ records'[m] = x
  BY <1>1
<1>3. \A n \in Memories : n # m => records'[n] = records[n]
  BY <1>1
<1> QED BY <1>1, <1>2, <1>3 DEF Typed, Exists

(***************************************************************************)
(* What refers to the record that is written                               *)
(***************************************************************************)
Staled(m) == /\ relations' = StaleRelations(m) /\ proposals' = StaleProposals(m)
             /\ resolutions' = StaleResolutions(m)

\* The record is what it was to those that refer to it.
SameRecord(m, x) == Exists(m) => x.version = records[m].version /\ x.scope = records[m].scope

Refreshes(m, x) ==
  /\ \/ relations' = RefreshedRelations(m, records')
     \/ relations' = relations /\ Exists(m) /\ x.shape = records[m].shape
  /\ proposals' = RefreshedProposals(m, records') \/ proposals' = proposals
  /\ resolutions' = resolutions

\* What a relation keeps when one of its records has moved: what it is, and that it no
\* longer counts.
LEMMA RelationStaled ==
  ASSUME Referring, NEW m, relations' = StaleRelations(m), NEW ref \in DOMAIN relations'
  PROVE  /\ ref \in DOMAIN relations /\ relations'[ref] \in Relation
         /\ relations'[ref].payload = relations[ref].payload
         /\ relations'[ref].place = relations[ref].place
         /\ relations'[ref].state # "active" => ~relations'[ref].expands
         /\ relations'[ref].state = "active" =>
              ~EndsAt(ref, m) /\ relations'[ref] = relations[ref]
<1>1. PICK r : r = relations[ref]
  OBVIOUS
<1>2. /\ ref \in DOMAIN relations /\ r \in Relation /\ (r.state # "active" => ~r.expands)
      /\ relations'[ref] = IF r.state = "active" /\ EndsAt(ref, m)
                             THEN [r EXCEPT !.state = "stale_endpoint_version",
                                            !.expands = FALSE]
                             ELSE r
  BY <1>1 DEF StaleRelations, Referring, RelationRefers
<1>3. PICK q : q = [r EXCEPT !.state = "stale_endpoint_version", !.expands = FALSE]
  OBVIOUS
<1>4. /\ q \in Relation /\ q.payload = r.payload /\ q.place = r.place
      /\ q.state = "stale_endpoint_version" /\ q.expands = FALSE
  BY <1>2, <1>3 DEF Relation
<1>5. CASE r.state = "active" /\ EndsAt(ref, m)
  <2>1. relations'[ref] = q
    BY <1>2, <1>3, <1>5
  <2> QED BY <2>1, <1>1, <1>2, <1>4
<1>6. CASE ~(r.state = "active" /\ EndsAt(ref, m))
  <2>1. relations'[ref] = r
    BY <1>2, <1>6
  <2> QED BY <2>1, <1>1, <1>2, <1>6
<1> QED BY <1>5, <1>6

\* The same for a proposal.
LEMMA ProposalStaled ==
  ASSUME Referring, NEW m, proposals' = StaleProposals(m), NEW i \in DOMAIN proposals'
  PROVE  /\ i \in DOMAIN proposals /\ proposals'[i] \in Proposal
         /\ proposals'[i].primary = proposals[i].primary
         /\ proposals'[i].comparison = proposals[i].comparison
         /\ proposals'[i].scope = proposals[i].scope
         /\ proposals'[i].state \in {"proposed", "check_needed"} =>
              ~Compares(proposals[i], m) /\ proposals'[i] = proposals[i]
<1>1. PICK p : p = proposals[i]
  OBVIOUS
<1>2. /\ i \in DOMAIN proposals /\ p \in Proposal
      /\ proposals'[i] = IF p.state \in {"proposed", "check_needed"} /\ Compares(p, m)
                           THEN [p EXCEPT !.state = "stale"] ELSE p
  BY <1>1 DEF StaleProposals, Referring, ProposalRefers
<1>3. PICK q : q = [p EXCEPT !.state = "stale"]
  OBVIOUS
<1>4. /\ q \in Proposal /\ q.primary = p.primary /\ q.comparison = p.comparison
      /\ q.scope = p.scope /\ q.state = "stale"
  BY <1>2, <1>3 DEF Proposal
<1>5. CASE p.state \in {"proposed", "check_needed"} /\ Compares(p, m)
  <2>1. proposals'[i] = q
    BY <1>2, <1>3, <1>5
  <2> QED BY <2>1, <1>1, <1>2, <1>4
<1>6. CASE ~(p.state \in {"proposed", "check_needed"} /\ Compares(p, m))
  <2>1. proposals'[i] = p
    BY <1>2, <1>6
  <2> QED BY <2>1, <1>1, <1>2, <1>6
<1> QED BY <1>5, <1>6

\* The same for a resolution.
LEMMA ResolutionStaled ==
  ASSUME Referring, NEW m, resolutions' = StaleResolutions(m), NEW ref \in DOMAIN resolutions'
  PROVE  /\ ref \in DOMAIN resolutions /\ resolutions'[ref] \in Resolution
         /\ resolutions'[ref].state # "stale_endpoint_version" => ~Compares(ref, m)
         /\ ~Compares(ref, m) => resolutions'[ref] = resolutions[ref]
<1>1. PICK r : r = resolutions[ref]
  OBVIOUS
<1>2. /\ ref \in DOMAIN resolutions /\ r \in Resolution
      /\ resolutions'[ref] = IF Compares(ref, m)
                               THEN [r EXCEPT !.state = "stale_endpoint_version"] ELSE r
  BY <1>1 DEF StaleResolutions, Referring, ResolutionRefers
<1>3. PICK q : q = [r EXCEPT !.state = "stale_endpoint_version"]
  OBVIOUS
<1>4. q \in Resolution /\ q.state = "stale_endpoint_version"
  BY <1>2, <1>3 DEF Resolution
<1>5. CASE Compares(ref, m)
  BY <1>1, <1>2, <1>3, <1>4, <1>5
<1>6. CASE ~Compares(ref, m)
  BY <1>1, <1>2, <1>6
<1> QED BY <1>5, <1>6

\* A relation or a proposal that is refreshed keeps what it refers to.
LEMMA RelationRefreshed ==
  ASSUME Referring, NEW m, relations' = RefreshedRelations(m, records'),
         NEW ref \in DOMAIN relations'
  PROVE  /\ ref \in DOMAIN relations /\ relations'[ref] \in Relation
         /\ relations'[ref].payload = relations[ref].payload
         /\ relations'[ref].place = relations[ref].place
         /\ relations'[ref].state = relations[ref].state
         /\ relations'[ref].state # "active" => ~relations'[ref].expands
         /\ (relations'[ref].state = "active" /\ ~EndsAt(ref, m)) =>
              relations'[ref].expands = relations[ref].expands
         /\ (relations'[ref].state = "active" /\ EndsAt(ref, m)) =>
              relations'[ref].expands = (~Blocked(records'[ref.left])
                                           /\ ~Blocked(records'[ref.right]))
<1>1. PICK r, b : r = relations[ref] /\ b = (~Blocked(records'[ref.left])
                                               /\ ~Blocked(records'[ref.right]))
  OBVIOUS
<1>2. /\ ref \in DOMAIN relations /\ r \in Relation /\ (r.state # "active" => ~r.expands)
      /\ relations'[ref] = IF r.state = "active" /\ EndsAt(ref, m)
                             THEN [r EXCEPT !.expands = b] ELSE r
  BY <1>1 DEF RefreshedRelations, Referring, RelationRefers
<1>3. PICK q : q = [r EXCEPT !.expands = b]
  OBVIOUS
<1>4. /\ q \in Relation /\ q.payload = r.payload /\ q.place = r.place
      /\ q.state = r.state /\ q.expands = b
  BY <1>1, <1>2, <1>3 DEF Relation
<1>5. CASE r.state = "active" /\ EndsAt(ref, m)
  <2>1. relations'[ref] = q
    BY <1>2, <1>3, <1>5
  <2> QED BY <2>1, <1>1, <1>2, <1>4, <1>5
<1>6. CASE ~(r.state = "active" /\ EndsAt(ref, m))
  <2>1. relations'[ref] = r
    BY <1>2, <1>6
  <2> QED BY <2>1, <1>1, <1>2, <1>6
<1> QED BY <1>5, <1>6

\* Refreshing a proposal moves nothing but its state and what it says of Core.
LEMMA RefreshedIs ==
  ASSUME NEW p \in Proposal, NEW recs
  PROVE  LET q == Refreshed(p, recs) IN
         /\ q \in Proposal
         /\ q.primary = p.primary /\ q.primaryVersion = p.primaryVersion
         /\ q.comparison = p.comparison /\ q.comparisonVersion = p.comparisonVersion
         /\ q.scope = p.scope
         /\ q.state \in {"proposed", "check_needed"} => p.state \in {"proposed", "check_needed"}
<1>. DEFINE ends == {recs[p.primary], recs[p.comparison]}
            involved == \E r \in ends : r.core = "core"
            unresolved == \E r \in ends : r.unresolved
            state == IF p.state \in {"withdrawn", "stale"} THEN p.state
                     ELSE IF involved \/ unresolved \/ p.blockers # {}
                               \/ \E r \in ends : Blocked(r)
                       THEN "check_needed" ELSE "proposed"
            q == Refreshed(p, recs)
<1>1. q = [p EXCEPT !.coreInvolved = involved, !.unresolved = unresolved, !.state = state]
  BY DEF Refreshed, Proposal
<1>2. involved \in BOOLEAN /\ unresolved \in BOOLEAN
  OBVIOUS
<1>3. /\ state \in {"proposed", "check_needed", "stale", "withdrawn"}
      /\ state \in {"proposed", "check_needed"} => p.state \in {"proposed", "check_needed"}
  BY DEF Proposal
<1>. HIDE DEF involved, unresolved, state
<1> QED BY <1>1, <1>2, <1>3 DEF Proposal

\* LiveMeansCurrent, taken apart, is the whole of it.
LEMMA LivingIs == Living <=> LiveMeansCurrent
BY DEF Living, LiveMeansCurrent, RelationLives, ProposalLives, ResolutionLives

\* Writing a record, and staling what refers to it, leaves what still counts current.
LEMMA StaledKeeps ==
  ASSUME Typed, Referring, Living, NEW m, NEW x, Written(m, x), Staled(m)
  PROVE  Referring' /\ Living'
<1>1. /\ \A n \in Memories : n # m => records'[n] = records[n]
      /\ \A n \in Memories : Exists(n) => Exists(n)'
  BY WrittenIs
<1>2. /\ relations' = StaleRelations(m) /\ proposals' = StaleProposals(m)
      /\ resolutions' = StaleResolutions(m)
  BY DEF Staled
<1>3. ASSUME NEW ref \in DOMAIN relations'
      PROVE  RelationRefers(ref, relations[ref])' /\ RelationLives(ref, relations[ref])'
  <2>1. /\ ref \in DOMAIN relations /\ relations'[ref] \in Relation
        /\ relations'[ref].state # "active" => ~relations'[ref].expands
        /\ relations'[ref].state = "active" =>
             ~EndsAt(ref, m) /\ relations'[ref] = relations[ref]
    BY <1>2, RelationStaled
  <2>2. /\ ref \in Refs /\ Exists(ref.left) /\ Exists(ref.right)
        /\ RelationLives(ref, relations[ref])
    BY <2>1 DEF Referring, RelationRefers, Living
  <2>3. ref.left \in Memories /\ ref.right \in Memories
    BY <2>2 DEF Refs
  <2>4. RelationRefers(ref, relations[ref])'
    BY <1>1, <2>1, <2>2, <2>3 DEF RelationRefers
  <2>5. CASE relations'[ref].state = "active"
    <3>1. records'[ref.left] = records[ref.left] /\ records'[ref.right] = records[ref.right]
      BY <1>1, <2>1, <2>3, <2>5 DEF EndsAt
    <3>2. PICK r : r = relations[ref]
      OBVIOUS
    <3>3. relations'[ref] = r /\ RelationLives(ref, r)
      BY <2>1, <2>2, <2>5, <3>2
    <3>4. RelationLives(ref, r)'
      BY <3>1, <3>3 DEF RelationLives, Current, Is, Exists, Footed
    <3> QED BY <2>4, <3>3, <3>4
  <2>6. CASE relations'[ref].state # "active"
    BY <2>4, <2>6 DEF RelationLives
  <2> QED BY <2>5, <2>6
<1>4. ASSUME NEW i \in DOMAIN proposals'
      PROVE  ProposalRefers(proposals[i])' /\ ProposalLives(proposals[i])'
  <2>1. /\ i \in DOMAIN proposals /\ proposals'[i] \in Proposal
        /\ proposals'[i].primary = proposals[i].primary
        /\ proposals'[i].comparison = proposals[i].comparison
        /\ proposals'[i].state \in {"proposed", "check_needed"} =>
             ~Compares(proposals[i], m) /\ proposals'[i] = proposals[i]
    BY <1>2, ProposalStaled
  <2>2. PICK p : p = proposals[i]
    OBVIOUS
  <2>3. ProposalRefers(p) /\ ProposalLives(p)
    BY <2>1, <2>2 DEF Referring, Living
  <2>4. p.primary \in Memories /\ p.comparison \in Memories
    BY <2>3 DEF ProposalRefers, Proposal
  <2>5. ProposalRefers(proposals[i])'
    BY <1>1, <2>1, <2>2, <2>3, <2>4 DEF ProposalRefers
  <2>6. CASE proposals'[i].state \in {"proposed", "check_needed"}
    <3>1. /\ records'[p.primary] = records[p.primary]
          /\ records'[p.comparison] = records[p.comparison]
      BY <1>1, <2>1, <2>2, <2>4, <2>6 DEF Compares
    <3>2. ProposalLives(p)'
      BY <2>3, <3>1 DEF ProposalLives, Is, Exists
    <3> QED BY <2>1, <2>2, <2>5, <2>6, <3>2
  <2>7. CASE proposals'[i].state \notin {"proposed", "check_needed"}
    BY <2>5, <2>7 DEF ProposalLives
  <2> QED BY <2>6, <2>7
<1>5. ASSUME NEW ref \in DOMAIN resolutions'
      PROVE  ResolutionRefers(ref, resolutions[ref])' /\ ResolutionLives(ref, resolutions[ref])'
  <2>1. /\ ref \in DOMAIN resolutions /\ resolutions'[ref] \in Resolution
        /\ resolutions'[ref].state # "stale_endpoint_version" => ~Compares(ref, m)
        /\ ~Compares(ref, m) => resolutions'[ref] = resolutions[ref]
    BY <1>2, ResolutionStaled
  <2>2. /\ ref \in ResolutionRefs /\ Exists(ref.primary) /\ Exists(ref.comparison)
        /\ ResolutionLives(ref, resolutions[ref])
    BY <2>1 DEF Referring, ResolutionRefers, Living
  <2>3. ref.primary \in Memories /\ ref.comparison \in Memories
    BY <2>2 DEF ResolutionRefs
  <2>4. ResolutionRefers(ref, resolutions[ref])'
    BY <1>1, <2>1, <2>2, <2>3 DEF ResolutionRefers
  <2>5. CASE resolutions'[ref].state # "stale_endpoint_version"
    <3>1. /\ records'[ref.primary] = records[ref.primary]
          /\ records'[ref.comparison] = records[ref.comparison]
      BY <1>1, <2>1, <2>3, <2>5 DEF Compares
    <3>2. resolutions'[ref] = resolutions[ref]
      BY <2>1, <2>5
    <3>3. ResolutionLives(ref, resolutions[ref])'
      BY <2>2, <3>1, <3>2 DEF ResolutionLives, Is, Exists
    <3> QED BY <2>4, <3>3
  <2>6. CASE resolutions'[ref].state = "stale_endpoint_version"
    BY <2>4, <2>6 DEF ResolutionLives
  <2> QED BY <2>5, <2>6
<1>6. Referring'
  BY <1>3, <1>4, <1>5 DEF Referring
<1>7. Living'
  BY <1>3, <1>4, <1>5 DEF Living
<1> QED BY <1>6, <1>7

\* Writing a record that keeps its version and scope, and refreshing what refers to it.
LEMMA RefreshesKeeps ==
  ASSUME Typed, Referring, Living, NEW m, NEW x, Written(m, x), SameRecord(m, x),
         Refreshes(m, x)
  PROVE  Referring' /\ Living'
<1>1. /\ records'[m] = x
      /\ \A n \in Memories : n # m => records'[n] = records[n]
      /\ \A n \in Memories : Exists(n) => Exists(n)'
  BY WrittenIs
<1>2. ASSUME NEW n \in Memories, Exists(n)
      PROVE  records'[n].version = records[n].version /\ records'[n].scope = records[n].scope
  BY <1>1, <1>2 DEF SameRecord
<1>3. ASSUME NEW ref \in DOMAIN relations'
      PROVE  RelationRefers(ref, relations[ref])' /\ RelationLives(ref, relations[ref])'
  <2>1. /\ ref \in DOMAIN relations /\ relations'[ref] \in Relation
        /\ relations'[ref].payload = relations[ref].payload
        /\ relations'[ref].state = relations[ref].state
        /\ relations'[ref].state # "active" => ~relations'[ref].expands
        /\ (relations'[ref].state = "active" /\ ~EndsAt(ref, m)) =>
             relations'[ref].expands = relations[ref].expands
        /\ (relations'[ref].state = "active" /\ EndsAt(ref, m)) =>
             \/ relations'[ref].expands = (~Blocked(records'[ref.left])
                                             /\ ~Blocked(records'[ref.right]))
             \/ /\ relations'[ref].expands = relations[ref].expands
                /\ Exists(m) /\ x.shape = records[m].shape
    <3>1. CASE relations' = RefreshedRelations(m, records')
      BY <3>1, RelationRefreshed
    <3>2. CASE relations' = relations /\ Exists(m) /\ x.shape = records[m].shape
      BY <3>2 DEF Referring, RelationRefers
    <3> QED BY <3>1, <3>2 DEF Refreshes
  <2>2. /\ ref \in Refs /\ Exists(ref.left) /\ Exists(ref.right)
        /\ RelationLives(ref, relations[ref])
    BY <2>1 DEF Referring, RelationRefers, Living
  <2>3. ref.left \in Memories /\ ref.right \in Memories
    BY <2>2 DEF Refs
  <2>4. RelationRefers(ref, relations[ref])'
    BY <1>1, <2>1, <2>2, <2>3 DEF RelationRefers
  <2>5. CASE relations'[ref].state = "active"
    <3>1. /\ records'[ref.left].version = records[ref.left].version
          /\ records'[ref.left].scope = records[ref.left].scope
          /\ records'[ref.right].version = records[ref.right].version
          /\ records'[ref.right].scope = records[ref.right].scope
          /\ Exists(ref.left)' /\ Exists(ref.right)'
      BY <1>1, <1>2, <2>2, <2>3
    <3>2. /\ Current(ref, relations[ref].payload) /\ Footed(ref)
          /\ relations[ref].expands = (~Blocked(records[ref.left])
                                         /\ ~Blocked(records[ref.right]))
      BY <2>1, <2>2, <2>5 DEF RelationLives
    <3>3. Current(ref, relations[ref].payload)' /\ Footed(ref)'
      BY <2>1, <3>1, <3>2 DEF Current, Is, Footed
    <3>4. relations'[ref].expands = (~Blocked(records'[ref.left])
                                       /\ ~Blocked(records'[ref.right]))
      <4>1. CASE EndsAt(ref, m) /\ relations'[ref].expands # relations[ref].expands
        BY <2>1, <2>5, <4>1
      <4>2. CASE EndsAt(ref, m) /\ relations'[ref].expands = relations[ref].expands
        <5>1. CASE Exists(m) /\ x.shape = records[m].shape
          <6>1. /\ records'[ref.left].shape = records[ref.left].shape
                /\ records'[ref.right].shape = records[ref.right].shape
            BY <1>1, <2>3, <5>1
          <6> QED BY <3>2, <4>2, <6>1 DEF Blocked
        <5>2. CASE ~(Exists(m) /\ x.shape = records[m].shape)
          BY <2>1, <2>5, <4>2, <5>2
        <5> QED BY <5>1, <5>2
      <4>3. CASE ~EndsAt(ref, m)
        <5>1. records'[ref.left] = records[ref.left] /\ records'[ref.right] = records[ref.right]
          BY <1>1, <2>3, <4>3 DEF EndsAt
        <5>2. relations'[ref].expands = relations[ref].expands
          BY <2>1, <2>5, <4>3
        <5> QED BY <3>2, <5>1, <5>2
      <4> QED BY <4>1, <4>2, <4>3
    <3> QED BY <2>4, <3>3, <3>4 DEF RelationLives
  <2>6. CASE relations'[ref].state # "active"
    BY <2>4, <2>6 DEF RelationLives
  <2> QED BY <2>5, <2>6
<1>4. ASSUME NEW i \in DOMAIN proposals'
      PROVE  ProposalRefers(proposals[i])' /\ ProposalLives(proposals[i])'
  <2>1. PICK p : p = proposals[i]
    OBVIOUS
  <2>2. /\ i \in DOMAIN proposals
        /\ \/ proposals'[i] = p
           \/ proposals'[i] = Refreshed(p, records')
    BY <2>1 DEF Refreshes, RefreshedProposals
  <2>3. ProposalRefers(p) /\ ProposalLives(p)
    BY <2>1, <2>2 DEF Referring, Living
  <2>4. p \in Proposal /\ p.primary \in Memories /\ p.comparison \in Memories
    BY <2>3 DEF ProposalRefers, Proposal
  <2>5. PICK q : q = proposals'[i]
    OBVIOUS
  <2>6. /\ q \in Proposal
        /\ q.primary = p.primary /\ q.primaryVersion = p.primaryVersion
        /\ q.comparison = p.comparison /\ q.comparisonVersion = p.comparisonVersion
        /\ q.scope = p.scope
        /\ q.state \in {"proposed", "check_needed"} => p.state \in {"proposed", "check_needed"}
    <3>1. CASE proposals'[i] = p
      BY <2>4, <2>5, <3>1
    <3>2. CASE proposals'[i] = Refreshed(p, records')
      BY <2>4, <2>5, <3>2, RefreshedIs
    <3> QED BY <2>2, <3>1, <3>2
  <2>7. /\ records'[p.primary].version = records[p.primary].version
        /\ records'[p.primary].scope = records[p.primary].scope
        /\ records'[p.comparison].version = records[p.comparison].version
        /\ records'[p.comparison].scope = records[p.comparison].scope
        /\ Exists(p.primary)' /\ Exists(p.comparison)'
    BY <1>1, <1>2, <2>3, <2>4 DEF ProposalRefers
  <2>8. ProposalRefers(q)'
    BY <2>6, <2>7 DEF ProposalRefers
  <2>9. ProposalLives(q)'
    BY <2>3, <2>6, <2>7 DEF ProposalLives, Is
  <2> QED BY <2>5, <2>8, <2>9
<1>5. ASSUME NEW ref \in DOMAIN resolutions'
      PROVE  ResolutionRefers(ref, resolutions[ref])' /\ ResolutionLives(ref, resolutions[ref])'
  <2>1. ref \in DOMAIN resolutions /\ resolutions'[ref] = resolutions[ref]
    BY DEF Refreshes
  <2>2. /\ ref \in ResolutionRefs /\ resolutions[ref] \in Resolution
        /\ Exists(ref.primary) /\ Exists(ref.comparison)
        /\ ResolutionLives(ref, resolutions[ref])
    BY <2>1 DEF Referring, ResolutionRefers, Living
  <2>3. ref.primary \in Memories /\ ref.comparison \in Memories
    BY <2>2 DEF ResolutionRefs
  <2>4. /\ records'[ref.primary].version = records[ref.primary].version
        /\ records'[ref.comparison].version = records[ref.comparison].version
        /\ Exists(ref.primary)' /\ Exists(ref.comparison)'
    BY <1>1, <1>2, <2>2, <2>3
  <2> QED BY <2>1, <2>2, <2>4 DEF ResolutionRefers, ResolutionLives, Is
<1>6. Referring'
  BY <1>3, <1>4, <1>5 DEF Referring
<1>7. Living'
  BY <1>3, <1>4, <1>5 DEF Living
<1> QED BY <1>6, <1>7

\* An ordinary record stays so: no resolution compares it, and it keeps its scope.
LEMMA OrderedKeeps ==
  ASSUME Typed, Referring, Ordered, NEW m, NEW x, Written(m, x),
         Staled(m) \/ Refreshes(m, x),
         ordinary' => /\ Ordinary(m) /\ ValidRecord(x) /\ x.lifecycle = "active"
                      /\ Exists(m) => x.scope = records[m].scope
  PROVE  Ordered'
<1>. SUFFICES ASSUME ordinary' PROVE Ordered'
  BY DEF Ordered
<1>1. /\ records'[m] = x /\ m \in Memories
      /\ \A n \in Memories : n # m => records'[n] = records[n]
      /\ \A n \in Memories : Exists(n)' <=> (n = m \/ Exists(n))
  BY WrittenIs DEF Written
<1>2. /\ ordinary /\ ValidRecord(x) /\ x.lifecycle = "active"
      /\ Exists(m) => x.scope = records[m].scope
      /\ \A ref \in DOMAIN resolutions : ~Compares(ref, m)
  BY DEF Ordinary
<1>3. \A n \in Memories : Exists(n) => records'[n].scope = records[n].scope
  BY <1>1, <1>2
<1>4. ASSUME NEW n \in Memories, Exists(n)'
      PROVE  ValidRecord(records[n])' /\ records'[n].lifecycle = "active"
  <2>1. CASE n = m
    BY <2>1, <1>1, <1>2 DEF ValidRecord, Blocked
  <2>2. CASE n # m
    <3>1. Exists(n) /\ records'[n] = records[n]
      BY <1>1, <1>4, <2>2
    <3>2. ValidRecord(records[n]) /\ records[n].lifecycle = "active"
      BY <1>2, <3>1 DEF Ordered
    <3> QED BY <3>1, <3>2 DEF ValidRecord, Blocked
  <2> QED BY <2>1, <2>2
<1>5. ASSUME NEW ref \in DOMAIN relations'
      PROVE  Footed(ref)' /\ Told(ref, relations'[ref].place)
  <2>1. ref \in DOMAIN relations /\ relations'[ref].place = relations[ref].place
    <3>1. CASE relations' = StaleRelations(m)
      BY <3>1, RelationStaled
    <3>2. CASE relations' = RefreshedRelations(m, records')
      BY <3>2, RelationRefreshed
    <3>3. CASE relations' = relations
      BY <3>3
    <3> QED BY <3>1, <3>2, <3>3 DEF Staled, Refreshes
  <2>2. /\ ref \in Refs /\ Exists(ref.left) /\ Exists(ref.right)
        /\ Footed(ref) /\ Told(ref, relations[ref].place)
    BY <1>2, <2>1 DEF Referring, RelationRefers, Ordered
  <2>3. ref.left \in Memories /\ ref.right \in Memories
    BY <2>2 DEF Refs
  <2>4. /\ records'[ref.left].scope = records[ref.left].scope
        /\ records'[ref.right].scope = records[ref.right].scope
    BY <1>3, <2>2, <2>3
  <2> QED BY <2>1, <2>2, <2>4 DEF Footed
<1>6. ASSUME NEW i \in DOMAIN proposals'
      PROVE  /\ records'[proposals'[i].primary].scope = proposals'[i].scope
             /\ records'[proposals'[i].comparison].scope = proposals'[i].scope
  <2>1. PICK p, q : p = proposals[i] /\ q = proposals'[i]
    OBVIOUS
  <2>2. /\ i \in DOMAIN proposals
        /\ q.primary = p.primary /\ q.comparison = p.comparison /\ q.scope = p.scope
    <3>1. CASE proposals' = StaleProposals(m)
      BY <2>1, <3>1, ProposalStaled
    <3>2. CASE proposals' = RefreshedProposals(m, records')
      <4>1. i \in DOMAIN proposals /\ (q = p \/ q = Refreshed(p, records'))
        BY <2>1, <3>2 DEF RefreshedProposals
      <4>2. p \in Proposal
        BY <2>1, <4>1 DEF Referring, ProposalRefers
      <4> QED BY <4>1, <4>2, RefreshedIs
    <3>3. CASE proposals' = proposals
      BY <2>1, <3>3
    <3> QED BY <3>1, <3>2, <3>3 DEF Staled, Refreshes
  <2>3. /\ ProposalRefers(p)
        /\ records[p.primary].scope = p.scope /\ records[p.comparison].scope = p.scope
    BY <1>2, <2>1, <2>2 DEF Referring, Ordered
  <2>4. p.primary \in Memories /\ p.comparison \in Memories
    BY <2>3 DEF ProposalRefers, Proposal
  <2>5. /\ records'[p.primary].scope = records[p.primary].scope
        /\ records'[p.comparison].scope = records[p.comparison].scope
    BY <1>3, <2>3, <2>4 DEF ProposalRefers
  <2> QED BY <2>1, <2>2, <2>3, <2>5
<1>7. ASSUME NEW ref \in DOMAIN resolutions' PROVE ValidResolution(ref)'
  <2>1. ref \in DOMAIN resolutions /\ resolutions'[ref] = resolutions[ref]
    <3>1. CASE resolutions' = StaleResolutions(m)
      <4>1. ref \in DOMAIN resolutions
        BY <3>1 DEF StaleResolutions
      <4>2. ~Compares(ref, m)
        BY <1>2, <4>1
      <4> QED BY <3>1, <4>1, <4>2, ResolutionStaled
    <3>2. CASE resolutions' = resolutions
      BY <3>2
    <3> QED BY <3>1, <3>2 DEF Staled, Refreshes
  <2>2. ResolutionRefers(ref, resolutions[ref]) /\ ValidResolution(ref) /\ ~Compares(ref, m)
    BY <1>2, <2>1 DEF Referring, Ordered
  <2>3. ref.primary \in Memories /\ ref.comparison \in Memories
    BY <2>2 DEF ResolutionRefers, ResolutionRefs
  <2>4. /\ records'[ref.primary] = records[ref.primary]
        /\ records'[ref.comparison] = records[ref.comparison]
    BY <1>1, <2>2, <2>3 DEF Compares
  <2> QED BY <2>1, <2>2, <2>4 DEF ValidResolution, Is, Exists
<1> QED BY <1>4, <1>5, <1>6, <1>7 DEF Ordered

\* What an event on one record leaves, when it leaves the rest of the invariant to
\* the record it writes.
OrdinaryStep(m, x) ==
  ordinary' => /\ Ordinary(m) /\ ValidRecord(x) /\ x.lifecycle = "active"
               /\ Exists(m) => x.scope = records[m].scope

Confirms(m, x) ==
  /\ DOMAIN confirmed' = Memories
  /\ \A n \in Memories : n # m => confirmed'[n] = confirmed[n]
  /\ (x.core = "core" /\ ~x.unresolved) => confirmed'[m] = <<x.version, x.scope>>

\* A step that writes one record keeps the invariant.
LEMMA RecordStep ==
  ASSUME MInv, NEW m, NEW x, Written(m, x), Whole(x),
         Staled(m) \/ (SameRecord(m, x) /\ Refreshes(m, x)),
         OrdinaryStep(m, x), Confirms(m, x),
         legacy' = Nil \/ (Simple' /\ ReplaysAgree')
  PROVE  MInv'
<1>1. /\ records' \in [Memories -> MemoryRecord \cup {Nil}] /\ records'[m] = x
      /\ \A n \in Memories : n # m => records'[n] = records[n]
      /\ \A n \in Memories : Exists(n)' <=> (n = m \/ Exists(n))
  BY WrittenIs DEF MInv
<1>2. Typed'
  BY <1>1 DEF Typed, Confirms
<1>3. Referring' /\ Living'
  BY StaledKeeps, RefreshesKeeps DEF MInv
<1>4. AllWhole'
  <2>. SUFFICES ASSUME NEW n \in Memories, Exists(n)' PROVE Whole(records'[n])
    BY DEF AllWhole
  <2>1. CASE n = m
    BY <1>1, <2>1
  <2>2. CASE n # m
    BY <1>1, <2>2 DEF MInv, AllWhole
  <2> QED BY <2>1, <2>2
<1>5. CoreIsConfirmed'
  <2>. SUFFICES ASSUME NEW n \in Memories, Exists(n)', records'[n].core = "core",
                       ~records'[n].unresolved
                PROVE  confirmed'[n] = <<records'[n].version, records'[n].scope>>
    BY DEF CoreIsConfirmed
  <2>1. CASE n = m
    BY <1>1, <2>1 DEF Confirms
  <2>2. CASE n # m
    BY <1>1, <2>2 DEF MInv, CoreIsConfirmed, Confirms
  <2> QED BY <2>1, <2>2
<1>6. Ordered'
  BY OrderedKeeps DEF MInv, OrdinaryStep
<1>7. Simple' /\ ReplaysAgree'
  BY DEF Simple, ReplaysAgree
<1> QED BY <1>2, <1>3, <1>4, <1>5, <1>6, <1>7 DEF MInv

\* An observation moves the record, or leaves it what it was to others.
LEMMA Applied ==
  ASSUME Typed, NEW m, NEW x, Apply(m, x), m \in Memories, x \in MemoryRecord
  PROVE  Written(m, x) /\ (Staled(m) \/ (SameRecord(m, x) /\ Refreshes(m, x)))
<1>1. Written(m, x)
  BY DEF Apply, Written
<1>2. CASE Moved(m, x.version, x.scope)
  BY <1>1, <1>2 DEF Apply, Staled
<1>3. CASE ~Moved(m, x.version, x.scope)
  BY <1>1, <1>3 DEF Apply, Refreshes, SameRecord, Moved
<1> QED BY <1>2, <1>3

\* The status an observation leaves Core is one it had, for the same version.
LEMMA ObservedConfirms ==
  ASSUME MInv, NEW m \in Memories, NEW version \in Versions, NEW scope \in Scopes,
         NEW shape \in Shapes, UNCHANGED confirmed
  PROVE  Confirms(m, RecordFromEvent(m, version, scope, shape))
<1>1. PICK x : x = RecordFromEvent(m, version, scope, shape)
  OBVIOUS
<1>2. /\ x.version = version /\ x.scope = scope
      /\ x.unresolved = Unresolved(m, version, scope)
      /\ x.core = IF Exists(m) THEN records[m].core ELSE "normal_reviewed"
  BY <1>1, RecordIs DEF MInv
<1>3. (x.core = "core" /\ ~x.unresolved) => confirmed[m] = <<x.version, x.scope>>
  BY <1>2 DEF Unresolved, Moved, MInv, CoreIsConfirmed
<1> QED BY <1>1, <1>3 DEF Confirms, MInv, Typed

\* record_observed and record_version_observed of schema v1 keep it.
LEMMA ObserveStep ==
  ASSUME MInv, NEW m \in Memories, NEW version \in Versions, NEW scope \in Scopes,
         NEW shape \in Shapes, Observe(m, version, scope, shape)
  PROVE  MInv'
<1>1. PICK x : x = RecordFromEvent(m, version, scope, shape)
  OBVIOUS
<1>2. /\ x \in MemoryRecord /\ Whole(x)
      /\ x.version = version /\ x.scope = scope /\ x.shape = Projected(shape)
      /\ x.unresolved = Unresolved(m, version, scope)
      /\ x.core = IF Exists(m) THEN records[m].core ELSE "normal_reviewed"
      /\ x.lifecycle = IF Exists(m) THEN records[m].lifecycle ELSE "active"
      /\ x.standing = (x.core # "quiet" /\ (x.base \/ (x.core = "core" /\ ~x.unresolved
                                                       /\ ~Blocked(x))))
      /\ x.default = (x.core # "quiet" /\ ~Blocked(x) /\ "default" \in shape.capabilities)
  BY <1>1, RecordIs DEF MInv
<1>3. Written(m, x) /\ (Staled(m) \/ (SameRecord(m, x) /\ Refreshes(m, x)))
  BY <1>1, <1>2, Applied DEF Observe, MInv
<1>4. Confirms(m, x)
  BY <1>1, ObservedConfirms DEF Observe
<1>5. OrdinaryStep(m, x)
  <2>. SUFFICES ASSUME ordinary'
                PROVE  /\ Ordinary(m) /\ ValidRecord(x) /\ x.lifecycle = "active"
                       /\ Exists(m) => x.scope = records[m].scope
    BY DEF OrdinaryStep
  <2>1. /\ Ordinary(m) /\ ~shape.superseded /\ scope # Synthetic
        /\ Exists(m) => records[m].scope = scope
    BY DEF Observe
  <2>2. Exists(m) => ValidRecord(records[m]) /\ records[m].lifecycle = "active"
    BY <2>1 DEF MInv, Ordered, Ordinary
  <2>3. x.core \in {"core", "normal_reviewed"} /\ x.lifecycle = "active"
    BY <1>2, <2>2 DEF ValidRecord
  <2>4. x.core = "normal_reviewed" => ~x.unresolved
    BY <1>2 DEF Unresolved
  <2>5. Accepted(x.scope)
    BY <1>2, <2>1, ScopesAre
  <2>6. /\ ~x.shape.superseded /\ x.shape.capabilities = shape.capabilities
    BY <1>2, <2>1, ProjectedIs
  <2>7. ValidRecord(x)
    BY <1>2, <2>3, <2>4, <2>5, <2>6 DEF ValidRecord, Whole
  <2> QED BY <1>2, <2>1, <2>3, <2>7
<1>6. legacy' = Nil
  BY DEF Observe
<1> QED BY <1>2, <1>3, <1>4, <1>5, <1>6, RecordStep

\* So do those of schema v0, in both replays at once.
LEMMA ObserveLegacyStep ==
  ASSUME MInv, NEW m \in Memories, NEW version \in Versions, NEW shape \in Shapes,
         ObserveLegacy(m, version, shape)
  PROVE  MInv'
<1>1. PICK x : x = RecordFromEvent(m, version, Synthetic, shape)
  OBVIOUS
<1>2. PICK l : l = LegacyRecord(version, shape)
  OBVIOUS
<1>3. Synthetic \in Scopes
  BY DEF Scopes
<1>4. /\ x \in MemoryRecord /\ x # Nil /\ Whole(x)
      /\ x.version = version /\ x.shape = Projected(shape)
      /\ x.unresolved = Unresolved(m, version, Synthetic)
      /\ x.core = IF Exists(m) THEN records[m].core ELSE "normal_reviewed"
      /\ x.standing = (x.core # "quiet" /\ (x.base \/ (x.core = "core" /\ ~x.unresolved
                                                       /\ ~Blocked(x))))
      /\ x.default = (x.core # "quiet" /\ ~Blocked(x) /\ "default" \in shape.capabilities)
  BY <1>1, <1>3, RecordIs DEF MInv
<1>5. Written(m, x) /\ (Staled(m) \/ (SameRecord(m, x) /\ Refreshes(m, x)))
  BY <1>1, <1>4, Applied DEF ObserveLegacy, MInv
<1>6. Confirms(m, x)
  BY <1>1, <1>3, ObservedConfirms DEF ObserveLegacy
<1>7. OrdinaryStep(m, x)
  BY DEF OrdinaryStep, ObserveLegacy
<1>8. /\ records'[m] = x
      /\ \A n \in Memories : n # m => records'[n] = records[n]
      /\ \A n \in Memories : Exists(n)' <=> (n = m \/ Exists(n))
  BY <1>5, WrittenIs DEF MInv
<1>9. legacy' = IF legacy = Nil THEN Nil ELSE [legacy EXCEPT ![m] = l]
  BY <1>2 DEF ObserveLegacy
<1>10. /\ l \in LegacyRow /\ l # Nil
       /\ l.version = version /\ l.shape = Projected(shape)
       /\ l.standing = (Projected(shape).blockers = {} /\ "standing" \in shape.capabilities)
       /\ l.default = (Projected(shape).blockers = {} /\ "default" \in shape.capabilities)
       /\ l.lookup = (Projected(shape).blockers = {} /\ "lookup" \in shape.capabilities)
  <2>1. PICK p, a, b, c : /\ p = Projected(shape)
                          /\ a = (p.blockers = {} /\ "standing" \in shape.capabilities)
                          /\ b = (p.blockers = {} /\ "default" \in shape.capabilities)
                          /\ c = (p.blockers = {} /\ "lookup" \in shape.capabilities)
    OBVIOUS
  <2>2. l = [version |-> version, shape |-> p, standing |-> a, default |-> b, lookup |-> c]
    BY <1>2, <2>1 DEF LegacyRecord
  <2>3. p \in Shape /\ a \in BOOLEAN /\ b \in BOOLEAN /\ c \in BOOLEAN
    BY <2>1, ProjectedIs
  <2>4. l \in LegacyRow
    BY <2>2, <2>3 DEF LegacyRow
  <2>5. l # Nil
    BY <2>4, NilAssumption
  <2> QED BY <2>1, <2>2, <2>4, <2>5
<1>11. ASSUME legacy # Nil PROVE Simple' /\ ReplaysAgree'
  <2>1. /\ legacy \in [Memories -> LegacyRow \cup {Nil}]
        /\ \A n \in Memories : Exists(n) => records[n].core = "normal_reviewed"
                                            /\ ~records[n].unresolved
    BY <1>11 DEF MInv, Simple
  <2>2. /\ legacy' \in [Memories -> LegacyRow \cup {Nil}] /\ legacy'[m] = l
        /\ \A n \in Memories : n # m => legacy'[n] = legacy[n]
    BY <1>9, <1>10, <1>11, <2>1
  <2>3. x.core = "normal_reviewed" /\ ~x.unresolved
    BY <1>4, <2>1 DEF Unresolved
  <2>4. Simple'
    BY <1>8, <2>1, <2>2, <2>3 DEF Simple
  <2>5. /\ x.version = l.version /\ x.shape = l.shape /\ x.standing = l.standing
        /\ x.default = l.default /\ x.lookup = l.lookup
    <3>1. /\ x.shape.blockers = Projected(shape).blockers
          /\ x.shape.capabilities = shape.capabilities
      BY <1>4, ProjectedIs
    <3> QED BY <1>4, <1>10, <2>3, <3>1 DEF Whole, Blocked
  <2>6. ASSUME NEW n \in Memories
        PROVE  /\ Exists(n)' <=> legacy'[n] # Nil
               /\ Exists(n)' =>
                    /\ records'[n].version = legacy'[n].version
                    /\ records'[n].shape = legacy'[n].shape
                    /\ records'[n].standing = legacy'[n].standing
                    /\ records'[n].default = legacy'[n].default
                    /\ records'[n].lookup = legacy'[n].lookup
    <3>1. CASE n = m
      BY <1>4, <1>8, <1>10, <2>2, <2>5, <3>1
    <3>2. CASE n # m
      <4>1. records'[n] = records[n] /\ legacy'[n] = legacy[n] /\ (Exists(n)' <=> Exists(n))
        BY <1>8, <2>2, <3>2
      <4> QED BY <1>11, <4>1 DEF MInv, ReplaysAgree
    <3> QED BY <3>1, <3>2
  <2>7. ReplaysAgree'
    BY <2>6 DEF ReplaysAgree
  <2> QED BY <2>4, <2>7
<1>12. legacy' = Nil \/ (Simple' /\ ReplaysAgree')
  BY <1>9, <1>11
<1> QED BY <1>4, <1>5, <1>6, <1>7, <1>12, RecordStep

\* metadata_repair_reconciled: a Core status follows the version it repairs.
LEMMA RepairStep ==
  ASSUME MInv, NEW m \in Memories, NEW version \in Versions, Repair(m, version)
  PROVE  MInv'
<1>1. PICK x : x = [records[m] EXCEPT !.version = version]
  OBVIOUS
<1>2. records[m] \in MemoryRecord /\ Exists(m)
  BY DEF MInv, Typed, Repair, Exists
<1>3. /\ x \in MemoryRecord /\ x.version = version /\ x.scope = records[m].scope
      /\ x.shape = records[m].shape /\ x.core = records[m].core
      /\ x.lifecycle = records[m].lifecycle /\ x.unresolved = records[m].unresolved
      /\ x.base = records[m].base /\ x.standing = records[m].standing
      /\ x.default = records[m].default /\ x.lookup = records[m].lookup
  BY <1>1, <1>2 DEF MemoryRecord
<1>4. Written(m, x)
  BY <1>1, <1>3 DEF Written, Repair
<1>5. Staled(m)
  BY DEF Repair, AfterRepair, Staled
<1>6. Whole(x)
  BY <1>2, <1>3 DEF Whole, Blocked, MInv, AllWhole
<1>7. OrdinaryStep(m, x)
  <2>1. ordinary' => /\ Ordinary(m) /\ ValidRecord(records[m])
                     /\ records[m].lifecycle = "active"
    BY <1>2 DEF Repair, Ordinary, MInv, Ordered
  <2>2. ValidRecord(records[m]) => ValidRecord(x)
    BY <1>3 DEF ValidRecord, Blocked
  <2> QED BY <1>3, <2>1, <2>2 DEF OrdinaryStep
<1>8. Confirms(m, x)
  <2>1. PICK v : v = IF confirmed[m] = <<records[m].version, records[m].scope>>
                       THEN <<version, confirmed[m][2]>> ELSE confirmed[m]
    OBVIOUS
  <2>2. confirmed' = [confirmed EXCEPT ![m] = v] /\ DOMAIN confirmed = Memories
    BY <2>1 DEF Repair, MInv, Typed
  <2>3. (x.core = "core" /\ ~x.unresolved) => v = <<x.version, x.scope>>
    <3>1. (x.core = "core" /\ ~x.unresolved) =>
            confirmed[m] = <<records[m].version, records[m].scope>>
      BY <1>2, <1>3 DEF MInv, CoreIsConfirmed
    <3>2. confirmed[m] = <<records[m].version, records[m].scope>> =>
            v = <<version, records[m].scope>>
      BY <2>1
    <3> QED BY <1>3, <3>1, <3>2
  <2> QED BY <2>2, <2>3 DEF Confirms
<1>9. legacy' = Nil
  BY DEF Repair
<1> QED BY <1>4, <1>5, <1>6, <1>7, <1>8, <1>9, RecordStep

\* set_core and remove_core leave relations and resolutions to the same record.
LEMMA CoreStep ==
  ASSUME MInv, NEW m \in Memories, NEW x, Exists(m), Core(m, x), x \in MemoryRecord,
         x.version = records[m].version, x.scope = records[m].scope,
         x.shape = records[m].shape, x.lifecycle = records[m].lifecycle,
         x.base = records[m].base, x.default = records[m].default,
         x.lookup = records[m].lookup,
         ValidRecord(records[m]) => ValidRecord(x), Confirms(m, x)
  PROVE  MInv'
<1>1. Written(m, x)
  BY DEF Written, Core, OnRecord
<1>2. SameRecord(m, x) /\ Refreshes(m, x)
  BY DEF SameRecord, Refreshes, Core
<1>3. Whole(x)
  BY DEF Whole, Blocked, MInv, AllWhole
<1>4. OrdinaryStep(m, x)
  BY DEF OrdinaryStep, Core, Ordinary, MInv, Ordered
<1>5. legacy' = Nil
  BY DEF Core, OnRecord
<1> QED BY <1>1, <1>2, <1>3, <1>4, <1>5, RecordStep

\* set_core confirms the version and scope the record has.
LEMMA SetCoreStep ==
  ASSUME MInv, NEW m \in Memories, SetCore(m)
  PROVE  MInv'
<1>1. PICK r : r = records[m]
  OBVIOUS
<1>2. PICK x : x = [r EXCEPT !.core = "core", !.unresolved = FALSE, !.standing = TRUE]
  OBVIOUS
<1>3. r \in MemoryRecord /\ Exists(m) /\ ~Blocked(r)
  BY <1>1 DEF MInv, Typed, SetCore, Exists
<1>4. /\ x \in MemoryRecord /\ x.version = r.version /\ x.scope = r.scope
      /\ x.shape = r.shape /\ x.core = "core" /\ x.lifecycle = r.lifecycle
      /\ x.unresolved = FALSE /\ x.base = r.base /\ x.standing = TRUE
      /\ x.default = r.default /\ x.lookup = r.lookup
  BY <1>2, <1>3 DEF MemoryRecord
<1>5. Core(m, x)
  BY <1>1, <1>2 DEF SetCore
<1>6. ValidRecord(r) => ValidRecord(x)
  BY <1>3, <1>4 DEF ValidRecord, Blocked
<1>7. Confirms(m, x)
  BY <1>1, <1>4 DEF SetCore, Confirms, MInv, Typed
<1> QED BY <1>1, <1>3, <1>4, <1>5, <1>6, <1>7, CoreStep

\* remove_core leaves the record standing only as far as its base does.
LEMMA RemoveCoreStep ==
  ASSUME MInv, NEW m \in Memories, RemoveCore(m)
  PROVE  MInv'
<1>1. PICK r : r = records[m]
  OBVIOUS
<1>2. PICK x : x = [r EXCEPT !.core = "normal_reviewed", !.unresolved = FALSE,
                             !.standing = r.base]
  OBVIOUS
<1>3. r \in MemoryRecord /\ Exists(m)
  BY <1>1 DEF MInv, Typed, RemoveCore, Exists
<1>4. /\ x \in MemoryRecord /\ x.version = r.version /\ x.scope = r.scope
      /\ x.shape = r.shape /\ x.core = "normal_reviewed" /\ x.lifecycle = r.lifecycle
      /\ x.unresolved = FALSE /\ x.base = r.base /\ x.standing = r.base
      /\ x.default = r.default /\ x.lookup = r.lookup
  BY <1>2, <1>3 DEF MemoryRecord
<1>5. Core(m, x)
  BY <1>1, <1>2 DEF RemoveCore
<1>6. ValidRecord(r) => ValidRecord(x)
  BY <1>4 DEF ValidRecord, Blocked
<1>7. Confirms(m, x)
  BY <1>4 DEF RemoveCore, Confirms, MInv, Typed
<1> QED BY <1>1, <1>3, <1>4, <1>5, <1>6, <1>7, CoreStep

\* The lifecycle moves a record's lifecycle and what follows from it.
LEMMA LifecycleStep ==
  ASSUME MInv, NEW m \in Memories, NEW x, Exists(m), Lifecycle(m, x), x \in MemoryRecord,
         x.version = records[m].version, x.scope = records[m].scope,
         x.shape = records[m].shape, x.unresolved = records[m].unresolved,
         x.base = records[m].base, x.lookup = records[m].lookup,
         x.core = "core" => records[m].core = "core"
  PROVE  MInv'
<1>1. Written(m, x)
  BY DEF Written, Lifecycle, OnRecord
<1>2. SameRecord(m, x) /\ Refreshes(m, x)
  BY DEF SameRecord, Refreshes, Lifecycle
<1>3. Whole(x)
  BY DEF Whole, Blocked, MInv, AllWhole
<1>4. OrdinaryStep(m, x)
  BY DEF OrdinaryStep, Lifecycle
<1>5. Confirms(m, x)
  BY DEF Confirms, Lifecycle, MInv, Typed, CoreIsConfirmed
<1>6. legacy' = Nil
  BY DEF Lifecycle, OnRecord
<1> QED BY <1>1, <1>2, <1>3, <1>4, <1>5, <1>6, RecordStep

\* Suppressing a record touches its standing and its default alone.
LEMMA SuppressedIs ==
  ASSUME NEW r \in MemoryRecord
  PROVE  LET x == Suppressed(r) IN
         /\ x \in MemoryRecord /\ x.version = r.version /\ x.scope = r.scope
         /\ x.shape = r.shape /\ x.core = r.core /\ x.unresolved = r.unresolved
         /\ x.base = r.base /\ x.lookup = r.lookup
BY DEF Suppressed, MemoryRecord

\* quiet, by a participant.
LEMMA QuietStep ==
  ASSUME MInv, NEW m \in Memories, Quiet(m)
  PROVE  MInv'
<1>1. PICK r, q : r = records[m] /\ q = [r EXCEPT !.core = "quiet", !.lifecycle = "quiet"]
  OBVIOUS
<1>2. PICK x : x = Suppressed(q)
  OBVIOUS
<1>3. r \in MemoryRecord /\ Exists(m)
  BY <1>1 DEF MInv, Typed, Quiet, Exists
<1>4. /\ q \in MemoryRecord /\ q.version = r.version /\ q.scope = r.scope
      /\ q.shape = r.shape /\ q.core = "quiet" /\ q.unresolved = r.unresolved
      /\ q.base = r.base /\ q.lookup = r.lookup
  BY <1>1, <1>3 DEF MemoryRecord
<1>5. Lifecycle(m, x)
  BY <1>1, <1>2 DEF Quiet
<1> QED BY <1>1, <1>2, <1>3, <1>4, <1>5, SuppressedIs, LifecycleStep

\* Cooling and quiet, by the policy.
LEMMA AutomaticStep ==
  ASSUME MInv, NEW m \in Memories, AutomaticCooling(m) \/ AutomaticQuiet(m)
  PROVE  MInv'
<1>1. PICK r : r = records[m]
  OBVIOUS
<1>2. r \in MemoryRecord /\ Exists(m)
  BY <1>1 DEF MInv, Typed, AutomaticCooling, AutomaticQuiet, Coolable, Exists
<1>3. PICK state \in {"cooling", "quiet"} :
        Lifecycle(m, Suppressed([r EXCEPT !.lifecycle = state]))
  BY <1>1 DEF AutomaticCooling, AutomaticQuiet
<1>4. PICK q : q = [r EXCEPT !.lifecycle = state]
  OBVIOUS
<1>5. /\ q \in MemoryRecord /\ q.version = r.version /\ q.scope = r.scope
      /\ q.shape = r.shape /\ q.core = r.core /\ q.unresolved = r.unresolved
      /\ q.base = r.base /\ q.lookup = r.lookup
  BY <1>2, <1>4 DEF MemoryRecord
<1>6. PICK x : x = Suppressed(q)
  OBVIOUS
<1>7. Lifecycle(m, x)
  BY <1>3, <1>4, <1>6
<1> QED BY <1>1, <1>2, <1>5, <1>6, <1>7, SuppressedIs, LifecycleStep

\* restore_normal, by a participant.
LEMMA RestoreNormalStep ==
  ASSUME MInv, NEW m \in Memories, RestoreNormal(m)
  PROVE  MInv'
<1>1. PICK r, default : r = records[m] /\ default = DefaultAgain(r)
  OBVIOUS
<1>2. PICK x : x = [r EXCEPT !.core = "normal_reviewed", !.lifecycle = "active",
                             !.standing = r.base, !.default = default]
  OBVIOUS
<1>3. r \in MemoryRecord /\ Exists(m) /\ default \in BOOLEAN
  BY <1>1 DEF MInv, Typed, RestoreNormal, Exists, DefaultAgain
<1>4. /\ x \in MemoryRecord /\ x.version = r.version /\ x.scope = r.scope
      /\ x.shape = r.shape /\ x.core = "normal_reviewed" /\ x.unresolved = r.unresolved
      /\ x.base = r.base /\ x.lookup = r.lookup
  BY <1>2, <1>3 DEF MemoryRecord
<1>5. Lifecycle(m, x)
  BY <1>1, <1>2 DEF RestoreNormal
<1> QED BY <1>1, <1>3, <1>4, <1>5, LifecycleStep

\* The wake-up, which never makes a record Core.
LEMMA LifecycleWakeupStep ==
  ASSUME MInv, NEW m \in Memories, LifecycleWakeup(m)
  PROVE  MInv'
<1>1. PICK r, core : /\ r = records[m]
                     /\ core = IF r.core = "quiet" THEN "normal_reviewed" ELSE r.core
  OBVIOUS
<1>2. PICK q : q = [r EXCEPT !.lifecycle = "active", !.core = core]
  OBVIOUS
<1>3. r \in MemoryRecord /\ Exists(m)
  BY <1>1 DEF MInv, Typed, LifecycleWakeup, Exists
<1>4. /\ core \in {"normal_reviewed", "core", "quiet"}
      /\ core = "core" => r.core = "core"
  BY <1>1, <1>3 DEF MemoryRecord
<1>5. /\ q \in MemoryRecord /\ q.version = r.version /\ q.scope = r.scope
      /\ q.shape = r.shape /\ q.core = core /\ q.unresolved = r.unresolved
      /\ q.base = r.base /\ q.lookup = r.lookup
  BY <1>2, <1>3, <1>4 DEF MemoryRecord
<1>6. PICK standing, default :
        /\ standing = (q.base \/ (q.core = "core" /\ ~q.unresolved /\ ~Blocked(q)))
        /\ default = DefaultAgain(q)
  OBVIOUS
<1>7. PICK x : x = [q EXCEPT !.standing = standing, !.default = default]
  OBVIOUS
<1>8. standing \in BOOLEAN /\ default \in BOOLEAN
  BY <1>5, <1>6 DEF MemoryRecord, DefaultAgain
<1>9. /\ x \in MemoryRecord /\ x.version = q.version /\ x.scope = q.scope
      /\ x.shape = q.shape /\ x.core = q.core /\ x.unresolved = q.unresolved
      /\ x.base = q.base /\ x.lookup = q.lookup
  BY <1>5, <1>7, <1>8 DEF MemoryRecord
<1>10. Lifecycle(m, x)
  <2>1. q = [records[m] EXCEPT !.lifecycle = "active",
               !.core = IF @ = "quiet" THEN "normal_reviewed" ELSE @]
    BY <1>1, <1>2
  <2> QED BY <1>6, <1>7, <2>1 DEF LifecycleWakeup
<1> QED BY <1>1, <1>3, <1>4, <1>5, <1>9, <1>10, LifecycleStep

(***************************************************************************)
(* Relations, proposals and resolutions                                    *)
(***************************************************************************)
LEMMA OthersStep ==
  ASSUME MInv, UNCHANGED <<records, confirmed>>, legacy' = Nil, Referring', Living', Ordered'
  PROVE  MInv'
<1>1. Typed' /\ AllWhole' /\ CoreIsConfirmed'
  BY DEF MInv, Typed, AllWhole, CoreIsConfirmed, Exists
<1>2. Simple' /\ ReplaysAgree'
  BY DEF Simple, ReplaysAgree
<1> QED BY <1>1, <1>2 DEF MInv

\* A relation that is written, the others staying.
LEMMA OnRelationStep ==
  ASSUME MInv, NEW ref, NEW r, OnRelation(ref, r), RelationRefers(ref, r),
         RelationLives(ref, r), ordinary => Footed(ref)
  PROVE  MInv'
<1>1. /\ DOMAIN relations' = DOMAIN relations \cup {ref} /\ relations'[ref] = r
      /\ \A k \in DOMAIN relations : k # ref => relations'[k] = relations[k]
  <2>1. relations' = With(relations, ref, r)
    BY DEF OnRelation
  <2>2. PICK w : w = With(relations, ref, r)
    OBVIOUS
  <2>3. /\ DOMAIN w = DOMAIN relations \cup {ref} /\ w[ref] = r
        /\ \A k \in DOMAIN relations : k # ref => w[k] = relations[k]
    BY <2>2 DEF With
  <2> QED BY <2>1, <2>2, <2>3
<1>2. /\ UNCHANGED <<records, proposals, resolutions, confirmed>> /\ legacy' = Nil
      /\ ordinary' = (ordinary /\ Told(ref, r.place))
  BY DEF OnRelation
<1>3. ASSUME NEW k \in DOMAIN relations'
      PROVE  RelationRefers(k, relations[k])' /\ RelationLives(k, relations[k])'
  <2>1. PICK q : q = relations'[k]
    OBVIOUS
  <2>2. RelationRefers(k, q) /\ RelationLives(k, q)
    BY <1>1, <2>1 DEF MInv, Referring, Living
  <2> QED BY <1>2, <2>1, <2>2
             DEF RelationRefers, RelationLives, Exists, Current, Is, Footed, Blocked
<1>4. Referring'
  BY <1>2, <1>3 DEF MInv, Referring, ProposalRefers, ResolutionRefers, Exists
<1>5. Living'
  BY <1>2, <1>3 DEF MInv, Living, ProposalLives, ResolutionLives, Is, Exists
<1>6. Ordered'
  <2>. SUFFICES ASSUME ordinary' PROVE Ordered'
    BY DEF Ordered
  <2>1. ordinary /\ Told(ref, r.place)
    BY <1>2
  <2>2. \A k \in DOMAIN relations' : Footed(k)' /\ Told(k, relations'[k].place)
    BY <1>1, <1>2, <2>1 DEF MInv, Ordered, Footed
  <2>3. \A m \in Memories : Exists(m)' =>
          ValidRecord(records[m])' /\ records'[m].lifecycle = "active"
    BY <1>2, <2>1 DEF MInv, Ordered, Exists, ValidRecord, Blocked
  <2>4. \A i \in DOMAIN proposals' :
          /\ records'[proposals'[i].primary].scope = proposals'[i].scope
          /\ records'[proposals'[i].comparison].scope = proposals'[i].scope
    BY <1>2, <2>1 DEF MInv, Ordered
  <2>5. ASSUME NEW k \in DOMAIN resolutions' PROVE ValidResolution(k)'
    <3>1. records' = records /\ resolutions' = resolutions
      BY <1>2
    <3>2. ValidResolution(k)
      BY <3>1, <1>2, <2>1 DEF MInv, Ordered
    <3> QED BY <3>1, <3>2 DEF ValidResolution, Is, Exists
  <2> QED BY <2>2, <2>3, <2>4, <2>5 DEF Ordered
<1> QED BY <1>2, <1>4, <1>5, <1>6, OthersStep

\* An asserted relation is footed on what both its ends are.
LEMMA AssertRelationStep ==
  ASSUME MInv, NEW ref \in Refs, NEW payload \in RelationPayload, NEW approval \in Scopes,
         AssertRelation(ref, payload, approval)
  PROVE  MInv'
<1>1. PICK b : b = (~Blocked(records[ref.left]) /\ ~Blocked(records[ref.right]))
  OBVIOUS
<1>2. PICK r : r = [payload |-> payload, place |-> approval.place, state |-> "active",
                    expands |-> b]
  OBVIOUS
<1>3. OnRelation(ref, r) /\ Current(ref, payload) /\ Footed(ref)
  BY <1>1, <1>2 DEF AssertRelation
<1>4. r \in Relation
  BY <1>1, <1>2, ScopesAre DEF Relation
<1>5. r.payload = payload /\ r.state = "active" /\ r.expands = b
  BY <1>2
<1>6. RelationRefers(ref, r)
  BY <1>3, <1>4, <1>5 DEF RelationRefers, Current, Is
<1>7. RelationLives(ref, r)
  BY <1>1, <1>3, <1>5 DEF RelationLives
<1> QED BY <1>3, <1>6, <1>7, OnRelationStep

\* A retracted relation expands nothing.
LEMMA RetractRelationStep ==
  ASSUME MInv, NEW ref \in DOMAIN relations, NEW approval \in Scopes,
         RetractRelation(ref, approval)
  PROVE  MInv'
<1>1. PICK q : q = relations[ref]
  OBVIOUS
<1>2. PICK r : r = [q EXCEPT !.state = "retracted", !.expands = FALSE, !.place = approval.place]
  OBVIOUS
<1>3. RelationRefers(ref, q)
  BY <1>1 DEF MInv, Referring
<1>4. r \in Relation /\ r.state = "retracted" /\ r.expands = FALSE
  BY <1>2, <1>3, ScopesAre DEF RelationRefers, Relation
<1>5. OnRelation(ref, r)
  BY <1>1, <1>2 DEF RetractRelation
<1>6. RelationRefers(ref, r) /\ RelationLives(ref, r)
  BY <1>3, <1>4 DEF RelationRefers, RelationLives
<1>7. ordinary => Footed(ref)
  BY DEF MInv, Ordered
<1> QED BY <1>5, <1>6, <1>7, OnRelationStep

\* A proposal that is written, the others staying.
LEMMA OnProposalStep ==
  ASSUME MInv, NEW i, NEW p, UNCHANGED <<records, relations, resolutions, ordinary, confirmed>>,
         legacy' = Nil, DOMAIN proposals' = DOMAIN proposals \cup {i}, proposals'[i] = p,
         \A k \in DOMAIN proposals : k # i => proposals'[k] = proposals[k],
         ProposalRefers(p), ProposalLives(p),
         ordinary => /\ records[p.primary].scope = p.scope
                     /\ records[p.comparison].scope = p.scope
  PROVE  MInv'
<1>1. ASSUME NEW k \in DOMAIN proposals'
      PROVE  ProposalRefers(proposals[k])' /\ ProposalLives(proposals[k])'
  <2>1. PICK q : q = proposals'[k]
    OBVIOUS
  <2>2. ProposalRefers(q) /\ ProposalLives(q)
    BY <2>1 DEF MInv, Referring, Living
  <2> QED BY <2>1, <2>2 DEF ProposalRefers, ProposalLives, Exists, Is
<1>2. Referring'
  BY <1>1 DEF MInv, Referring, RelationRefers, ResolutionRefers, Exists
<1>3. Living'
  BY <1>1 DEF MInv, Living, RelationLives, ResolutionLives, Current, Footed, Is, Exists, Blocked
<1>4. Ordered'
  <2>. SUFFICES ASSUME ordinary' PROVE Ordered'
    BY DEF Ordered
  <2>1. \A k \in DOMAIN relations' : Footed(k)' /\ Told(k, relations'[k].place)
    BY DEF MInv, Ordered, Footed
  <2>2. \A m \in Memories : Exists(m)' =>
          ValidRecord(records[m])' /\ records'[m].lifecycle = "active"
    BY DEF MInv, Ordered, Exists, ValidRecord, Blocked
  <2>3. \A k \in DOMAIN proposals' :
          /\ records'[proposals'[k].primary].scope = proposals'[k].scope
          /\ records'[proposals'[k].comparison].scope = proposals'[k].scope
    BY DEF MInv, Ordered
  <2>4. ASSUME NEW k \in DOMAIN resolutions' PROVE ValidResolution(k)'
    <3>1. records' = records /\ resolutions' = resolutions
      OBVIOUS
    <3>2. ValidResolution(k)
      BY <3>1 DEF MInv, Ordered
    <3> QED BY <3>1, <3>2 DEF ValidResolution, Is, Exists
  <2> QED BY <2>1, <2>2, <2>3, <2>4 DEF Ordered
<1> QED BY <1>2, <1>3, <1>4, OthersStep

\* A proposal is about two records of one scope as they are.
LEMMA CreateProposalStep ==
  ASSUME MInv, NEW primary \in Memories, NEW comparison \in Memories,
         NEW blockers \in SUBSET Blockers, CreateProposal(primary, comparison, blockers)
  PROVE  MInv'
<1>1. PICK i, p : /\ i = Cardinality(DOMAIN proposals) + 1
                  /\ p = [primary |-> primary, primaryVersion |-> records[primary].version,
                          comparison |-> comparison,
                          comparisonVersion |-> records[comparison].version,
                          scope |-> records[primary].scope, blockers |-> blockers,
                          state |-> "proposed", coreInvolved |-> FALSE, unresolved |-> FALSE]
  OBVIOUS
<1>2. PICK q : q = Refreshed(p, records)
  OBVIOUS
<1>3. /\ Exists(primary) /\ Exists(comparison)
      /\ records[primary].scope = records[comparison].scope
      /\ proposals' = With(proposals, i, q) /\ legacy' = Nil
      /\ UNCHANGED <<records, relations, resolutions, ordinary, confirmed>>
  BY <1>1, <1>2 DEF CreateProposal
<1>4. records[primary] \in MemoryRecord /\ records[comparison] \in MemoryRecord
  BY <1>3 DEF MInv, Typed, Exists
<1>5. /\ records[primary].version \in Versions /\ records[primary].scope \in Scopes
      /\ records[comparison].version \in Versions
  BY <1>4 DEF MemoryRecord
<1>6. p \in Proposal
  BY <1>1, <1>5 DEF Proposal
<1>7. /\ q \in Proposal /\ q.primary = primary /\ q.comparison = comparison
      /\ q.primaryVersion = records[primary].version
      /\ q.comparisonVersion = records[comparison].version
      /\ q.scope = records[primary].scope
  BY <1>1, <1>2, <1>6, RefreshedIs
<1>8. ProposalRefers(q) /\ ProposalLives(q)
  BY <1>3, <1>7 DEF ProposalRefers, ProposalLives, Is
<1>9. /\ DOMAIN proposals' = DOMAIN proposals \cup {i} /\ proposals'[i] = q
      /\ \A k \in DOMAIN proposals : k # i => proposals'[k] = proposals[k]
  <2>1. PICK w : w = With(proposals, i, q)
    OBVIOUS
  <2>2. /\ DOMAIN w = DOMAIN proposals \cup {i} /\ w[i] = q
        /\ \A k \in DOMAIN proposals : k # i => w[k] = proposals[k]
    BY <2>1 DEF With
  <2> QED BY <1>3, <2>1, <2>2
<1> QED BY <1>3, <1>7, <1>8, <1>9, OnProposalStep

\* A withdrawn proposal no longer counts.
LEMMA WithdrawProposalStep ==
  ASSUME MInv, NEW i \in DOMAIN proposals, WithdrawProposal(i)
  PROVE  MInv'
<1>1. PICK p : p = proposals[i]
  OBVIOUS
<1>2. PICK q : q = [p EXCEPT !.state = "withdrawn"]
  OBVIOUS
<1>3. proposals' = [proposals EXCEPT ![i] = q]
  BY <1>1, <1>2 DEF WithdrawProposal
<1>4. /\ DOMAIN proposals' = DOMAIN proposals \cup {i} /\ proposals'[i] = q
      /\ \A k \in DOMAIN proposals : k # i => proposals'[k] = proposals[k]
  BY <1>3
<1>5. ProposalRefers(p)
  BY <1>1 DEF MInv, Referring
<1>6. /\ q \in Proposal /\ q.primary = p.primary /\ q.comparison = p.comparison
      /\ q.scope = p.scope /\ q.state = "withdrawn"
  BY <1>2, <1>5 DEF ProposalRefers, Proposal
<1>7. ProposalRefers(q) /\ ProposalLives(q)
  BY <1>5, <1>6 DEF ProposalRefers, ProposalLives
<1>8. ordinary => records[q.primary].scope = q.scope /\ records[q.comparison].scope = q.scope
  BY <1>1, <1>6 DEF MInv, Ordered
<1>9. /\ UNCHANGED <<records, relations, resolutions, ordinary, confirmed>> /\ legacy' = Nil
  BY DEF WithdrawProposal
<1> QED BY <1>4, <1>7, <1>8, <1>9, OnProposalStep

\* An applied resolution says of both records what validate_projection will compute.
LEMMA ApplyEvolutionStep ==
  ASSUME MInv, NEW primary \in Memories, NEW comparison \in Memories,
         NEW disposition \in Dispositions, NEW blockers \in SUBSET Blockers,
         NEW approval \in Scopes,
         ApplyEvolution(primary, comparison, disposition, blockers, approval)
  PROVE  MInv'
<1>1. PICK a, b : a = records[primary] /\ b = records[comparison]
  OBVIOUS
<1>2. PICK ref : ref = [primary |-> primary, primaryVersion |-> a.version,
                        comparison |-> comparison, comparisonVersion |-> b.version,
                        disposition |-> disposition]
  OBVIOUS
<1>3. PICK all, involved, check :
        /\ all = blockers \cup UNION {r.shape.blockers : r \in {a, b}}
        /\ involved = (\E r \in {a, b} : r.core = "core")
        /\ check = (involved \/ \E r \in {a, b} : r.unresolved)
  OBVIOUS
<1>4. PICK state : state = IF disposition = "check_needed" THEN "check_needed" ELSE "active"
  OBVIOUS
<1>5. PICK res : res = [place |-> approval.place, blockers |-> all, coreInvolved |-> involved,
                        coreCheck |-> check, state |-> state]
  OBVIOUS
<1>6. /\ Exists(primary) /\ Exists(comparison)
      /\ \A r \in {a, b} : r.scope.place = approval.place
      /\ check \/ all # {} => disposition = "check_needed"
      /\ resolutions' = With(resolutions, ref, res) /\ legacy' = Nil
      /\ UNCHANGED <<records, relations, proposals, ordinary, confirmed>>
  BY <1>1, <1>2, <1>3, <1>4, <1>5 DEF ApplyEvolution
<1>7. a \in MemoryRecord /\ b \in MemoryRecord
  BY <1>1, <1>6 DEF MInv, Typed, Exists
<1>8. ref \in ResolutionRefs
  BY <1>2, <1>7 DEF ResolutionRefs, MemoryRecord
<1>9. /\ all \in SUBSET Blockers /\ involved \in BOOLEAN /\ check \in BOOLEAN
      /\ a.shape.blockers \subseteq all /\ b.shape.blockers \subseteq all
  BY <1>3, <1>7 DEF MemoryRecord, Shape
<1>10. res \in Resolution
  BY <1>4, <1>5, <1>9, ScopesAre DEF Resolution
<1>11. /\ DOMAIN resolutions' = DOMAIN resolutions \cup {ref} /\ resolutions'[ref] = res
       /\ \A k \in DOMAIN resolutions : k # ref => resolutions'[k] = resolutions[k]
  <2>1. PICK w : w = With(resolutions, ref, res)
    OBVIOUS
  <2>2. /\ DOMAIN w = DOMAIN resolutions \cup {ref} /\ w[ref] = res
        /\ \A k \in DOMAIN resolutions : k # ref => w[k] = resolutions[k]
    BY <2>1 DEF With
  <2> QED BY <1>6, <2>1, <2>2
<1>12. /\ ref.primary = primary /\ ref.comparison = comparison
       /\ ref.primaryVersion = a.version /\ ref.comparisonVersion = b.version
       /\ ref.disposition = disposition
  BY <1>2
<1>13. ResolutionRefers(ref, res) /\ ResolutionLives(ref, res)
  BY <1>1, <1>6, <1>8, <1>10, <1>12 DEF ResolutionRefers, ResolutionLives, Is
<1>14. ASSUME NEW k \in DOMAIN resolutions'
       PROVE  ResolutionRefers(k, resolutions[k])' /\ ResolutionLives(k, resolutions[k])'
  <2>1. PICK q : q = resolutions'[k]
    OBVIOUS
  <2>2. ResolutionRefers(k, q) /\ ResolutionLives(k, q)
    BY <1>11, <1>13, <2>1 DEF MInv, Referring, Living
  <2> QED BY <1>6, <2>1, <2>2 DEF ResolutionRefers, ResolutionLives, Is, Exists
<1>15. Referring'
  BY <1>6, <1>14 DEF MInv, Referring, RelationRefers, ProposalRefers, Exists
<1>16. Living'
  BY <1>6, <1>14
     DEF MInv, Living, RelationLives, ProposalLives, Current, Footed, Is, Exists, Blocked
<1>17. ValidResolution(ref)'
  <2>1. resolutions'[ref] = res /\ records' = records
    BY <1>6, <1>11
  <2>2. /\ res.place = approval.place /\ res.blockers = all /\ res.coreInvolved = involved
        /\ res.coreCheck = check /\ res.state = state
    BY <1>5
  <2>3. /\ Exists(primary)' /\ Exists(comparison)'
        /\ Is(ref.primary, ref.primaryVersion)' /\ Is(ref.comparison, ref.comparisonVersion)'
    BY <1>1, <1>6, <1>12, <2>1 DEF Is, Exists
  <2>4. state = IF check \/ all # {} \/ disposition = "check_needed"
                  THEN "check_needed" ELSE "active"
    BY <1>4, <1>6
  <2>5. {records'[ref.primary], records'[ref.comparison]} = {a, b}
    BY <1>1, <1>12, <2>1
  <2>6. \A r \in {a, b} : r.shape.blockers \subseteq all
    BY <1>9
  <2> QED BY <1>3, <1>6, <1>12, <2>1, <2>2, <2>3, <2>4, <2>5, <2>6 DEF ValidResolution
<1>18. Ordered'
  <2>. SUFFICES ASSUME ordinary' PROVE Ordered'
    BY DEF Ordered
  <2>1. /\ ordinary /\ records' = records /\ relations' = relations
        /\ proposals' = proposals
    BY <1>6
  <2>2. \A k \in DOMAIN relations' : Footed(k)' /\ Told(k, relations'[k].place)
    BY <2>1 DEF MInv, Ordered, Footed
  <2>3. \A m \in Memories : Exists(m)' =>
          ValidRecord(records[m])' /\ records'[m].lifecycle = "active"
    BY <2>1 DEF MInv, Ordered, Exists, ValidRecord, Blocked
  <2>4. \A i \in DOMAIN proposals' :
          /\ records'[proposals'[i].primary].scope = proposals'[i].scope
          /\ records'[proposals'[i].comparison].scope = proposals'[i].scope
    BY <2>1 DEF MInv, Ordered
  <2>5. ASSUME NEW k \in DOMAIN resolutions' PROVE ValidResolution(k)'
    <3>1. CASE k = ref
      BY <1>17, <3>1
    <3>2. CASE k # ref
      <4>1. ValidResolution(k) /\ resolutions'[k] = resolutions[k]
        BY <1>11, <2>1, <3>2 DEF MInv, Ordered
      <4> QED BY <2>1, <4>1 DEF ValidResolution, Is, Exists
    <3> QED BY <3>1, <3>2
  <2> QED BY <2>2, <2>3, <2>4, <2>5 DEF Ordered
<1> QED BY <1>6, <1>15, <1>16, <1>18, OthersStep

-----------------------------------------------------------------------------
\* The empty chain.
LEMMA MInvInit == MemoryInit => MInv
<1>. SUFFICES ASSUME MemoryInit PROVE MInv
  OBVIOUS
<1>1. Typed /\ \A m \in Memories : ~Exists(m)
  BY DEF MemoryInit, Typed, Exists
<1>2. DOMAIN relations = {} /\ DOMAIN proposals = {} /\ DOMAIN resolutions = {}
  BY DEF MemoryInit
<1>3. legacy = [m \in Memories |-> Nil]
  BY DEF MemoryInit
<1>4. Simple /\ ReplaysAgree
  BY <1>1, <1>3 DEF Simple, ReplaysAgree
<1>5. Referring /\ Living
  BY <1>2 DEF Referring, Living
<1>6. AllWhole /\ CoreIsConfirmed
  BY <1>1 DEF AllWhole, CoreIsConfirmed
<1>7. Ordered
  BY <1>1, <1>2 DEF Ordered
<1> QED BY <1>1, <1>4, <1>5, <1>6, <1>7 DEF MInv

\* A relation's ref names two records, whichever way round it is told.
LEMMA RelationRefIs ==
  ASSUME NEW v2 \in BOOLEAN, NEW symmetric \in BOOLEAN,
         NEW left \in Memories, NEW right \in Memories,
         NEW leftScope \in Scopes, NEW rightScope \in Scopes
  PROVE  RelationRef(v2, left, right, symmetric, leftScope, rightScope) \in Refs
<1>1. CASE symmetric /\ right < left
  BY <1>1 DEF RelationRef, Refs
<1>2. CASE ~(symmetric /\ right < left)
  BY <1>2 DEF RelationRef, Refs
<1> QED BY <1>1, <1>2

\* Every event that replay accepts.
LEMMA MInvNext == MInv /\ MemoryNext => MInv'
<1>. SUFFICES ASSUME MInv, MemoryNext PROVE MInv'
  OBVIOUS
<1>1. CASE \E m \in Memories, version \in Versions :
             \/ \E scope \in Scopes, shape \in Shapes : Observe(m, version, scope, shape)
             \/ \E shape \in Shapes : ObserveLegacy(m, version, shape)
             \/ Repair(m, version)
  BY <1>1, ObserveStep, ObserveLegacyStep, RepairStep
<1>2. CASE \E m \in Memories :
             \/ SetCore(m) \/ RemoveCore(m)
             \/ Quiet(m) \/ RestoreNormal(m) \/ LifecycleWakeup(m)
             \/ AutomaticCooling(m) \/ AutomaticQuiet(m)
  BY <1>2, SetCoreStep, RemoveCoreStep, QuietStep, RestoreNormalStep, LifecycleWakeupStep,
     AutomaticStep
<1>3. CASE \E v2, symmetric \in BOOLEAN, left, right \in Memories,
              leftScope, rightScope \in Scopes, payload \in RelationPayload,
              approval \in Scopes :
             AssertRelation(RelationRef(v2, left, right, symmetric, leftScope, rightScope),
                            payload, approval)
  BY <1>3, RelationRefIs, AssertRelationStep
<1>4. CASE \E ref \in DOMAIN relations, approval \in Scopes : RetractRelation(ref, approval)
  BY <1>4, RetractRelationStep
<1>5. CASE \E primary, comparison \in Memories, blockers \in SUBSET Blockers :
             \/ CreateProposal(primary, comparison, blockers)
             \/ \E disposition \in Dispositions, approval \in Scopes :
                  ApplyEvolution(primary, comparison, disposition, blockers, approval)
  BY <1>5, CreateProposalStep, ApplyEvolutionStep
<1>6. CASE \E i \in DOMAIN proposals : WithdrawProposal(i)
  BY <1>6, WithdrawProposalStep
<1> QED BY <1>1, <1>2, <1>3, <1>4, <1>5, <1>6 DEF MemoryNext

\* And none.
LEMMA MInvStutter == MInv /\ UNCHANGED memoryVars => MInv'
<1>. SUFFICES ASSUME MInv, UNCHANGED memoryVars PROVE MInv'
  OBVIOUS
<1>. USE DEF memoryVars
<1>1. Typed' /\ AllWhole' /\ CoreIsConfirmed'
  BY DEF MInv, Typed, AllWhole, CoreIsConfirmed, Exists
<1>2. Referring'
  BY DEF MInv, Referring, RelationRefers, ProposalRefers, ResolutionRefers, Exists
<1>3. Living'
  BY DEF MInv, Living, RelationLives, ProposalLives, ResolutionLives, Current, Footed, Is,
         Exists, Blocked
<1>4. Simple' /\ ReplaysAgree'
  BY DEF MInv, Simple, ReplaysAgree, Exists
<1>5. ASSUME ordinary' PROVE Ordered'
  <2>1. \A k \in DOMAIN relations' : Footed(k)' /\ Told(k, relations'[k].place)
    BY <1>5 DEF MInv, Ordered, Footed
  <2>2. \A m \in Memories : Exists(m)' =>
          ValidRecord(records[m])' /\ records'[m].lifecycle = "active"
    BY <1>5 DEF MInv, Ordered, Exists, ValidRecord, Blocked
  <2>3. \A i \in DOMAIN proposals' :
          /\ records'[proposals'[i].primary].scope = proposals'[i].scope
          /\ records'[proposals'[i].comparison].scope = proposals'[i].scope
    BY <1>5 DEF MInv, Ordered
  <2>4. ASSUME NEW k \in DOMAIN resolutions' PROVE ValidResolution(k)'
    <3>1. ValidResolution(k)
      BY <1>5 DEF MInv, Ordered
    <3> QED BY <3>1 DEF ValidResolution, Is, Exists
  <2> QED BY <2>1, <2>2, <2>3, <2>4 DEF Ordered
<1>6. Ordered'
  BY <1>5 DEF Ordered
<1> QED BY <1>1, <1>2, <1>3, <1>4, <1>6 DEF MInv

\* The inductive invariant of the replayed chain, for any memories, versions, places,
\* claims and blockers, and however many proposals.
THEOREM MemoryInvariant == MemorySpec => []MInv
<1>1. MInv /\ [MemoryNext]_memoryVars => MInv'
  BY MInvNext, MInvStutter
<1> QED BY <1>1, MInvInit, PTL DEF MemorySpec

\* What an ordinary chain leaves is what validate_projection accepts.
LEMMA OrderedIsValid == MInv => OrdinaryChainsAreSelectable
<1>. SUFFICES ASSUME MInv, ordinary PROVE ValidProjection
  BY DEF OrdinaryChainsAreSelectable
<1>1. Ordered /\ Referring /\ Living
  BY DEF MInv
<1>2. \A m \in Memories : Exists(m) => ValidRecord(records[m])
  BY <1>1 DEF Ordered
<1>3. ASSUME NEW ref \in DOMAIN relations PROVE ValidRelation(ref)
  <2>1. PICK r : r = relations[ref]
    OBVIOUS
  <2>2. /\ RelationRefers(ref, r) /\ RelationLives(ref, r)
        /\ Footed(ref) /\ Told(ref, r.place)
    BY <1>1, <2>1 DEF Referring, Living, Ordered
  <2>3. r.expands \in BOOLEAN
    BY <2>2 DEF RelationRefers, Relation
  <2>4. CASE r.state = "active"
    <3>1. /\ Is(ref.left, r.payload.leftVersion) /\ Is(ref.right, r.payload.rightVersion)
          /\ r.expands = (~Blocked(records[ref.left]) /\ ~Blocked(records[ref.right]))
      BY <2>2, <2>4 DEF RelationLives, Current
    <3> QED BY <2>1, <2>2, <2>4, <3>1 DEF ValidRelation, RelationRefers, Footed
  <2>5. CASE r.state # "active"
    <3>1. r.expands = FALSE
      BY <2>2, <2>3, <2>5 DEF RelationRefers
    <3> QED BY <2>1, <2>2, <2>5, <3>1 DEF ValidRelation, RelationRefers, Footed
  <2> QED BY <2>4, <2>5
<1>4. ASSUME NEW i \in DOMAIN proposals PROVE ValidProposal(proposals[i])
  <2>1. PICK p : p = proposals[i]
    OBVIOUS
  <2>2. /\ ProposalRefers(p) /\ ProposalLives(p)
        /\ records[p.primary].scope = p.scope /\ records[p.comparison].scope = p.scope
    BY <1>1, <2>1 DEF Referring, Living, Ordered
  <2> QED BY <2>1, <2>2 DEF ValidProposal, ProposalRefers, ProposalLives
<1>5. \A ref \in DOMAIN resolutions : ValidResolution(ref)
  BY <1>1 DEF Ordered
<1> QED BY <1>2, <1>3, <1>4, <1>5 DEF ValidProjection

\* Replay and validate_projection agree on every chain of ordinary events: the
\* projection of such a chain is never refused for what replay itself put there.
THEOREM OrdinaryChainsAreAccepted == MemorySpec => []OrdinaryChainsAreSelectable
BY MemoryInvariant, OrderedIsValid, PTL

\* Nothing that was decided about one version of a record stands for another one.
THEOREM DecisionsAreCurrent == MemorySpec => []StandingIsCurrent
<1>1. MInv => StandingIsCurrent
  BY LivingIs DEF MInv, StandingIsCurrent
<1> QED BY <1>1, MemoryInvariant, PTL

\* The mixed replay of a chain of schema v0 shows what replay_events shows.
THEOREM MixedReplayAgrees == MemorySpec => []ReplaysAgree
<1>1. MInv => ReplaysAgree
  BY DEF MInv
<1> QED BY <1>1, MemoryInvariant, PTL

-----------------------------------------------------------------------------
(***************************************************************************)
(* For any sources, capabilities, attestations and processes: a capability *)
(* pays for exactly one piece of evidence, and a joint revision has both   *)
(* participants on record.  What carries the first is that a row never     *)
(* disappears once issued, so that what a call found when it bound its     *)
(* command is still a row when it stores; what carries the second is that  *)
(* evidence is only added, so that whoever spoke when an attestation was   *)
(* read has spoken when it is accepted, delivered and applied.             *)
(***************************************************************************)

Rows == [state : {"issued", "consumed"}, replays : Nat]

Revisions == [content : Contents \cup {a.content : a \in Attestations},
              joint : {Absent} \cup {a.id : a \in Attestations}]

\* A capability's token, and the row it has.
IssuedBefore(g) == g \in Grants /\ grants[g] # Absent

\* What a call carries from one step to the next is what it found.
Carries(h) ==
  /\ doing[h].at \in {"evident", "storing"} =>
       /\ doing[h] = [at |-> doing[h].at, record |-> doing[h].record]
       /\ doing[h].record.grant # Absent => IssuedBefore(doing[h].record.grant)
  /\ doing[h].at = "replayed" => IssuedBefore(doing[h].grant) /\ doing[h].count \in Nat
  /\ doing[h].at = "bound" => IssuedBefore(doing[h].source.grant)
  /\ doing[h].at = "attesting" =>
       /\ doing[h].act \in Attestations
       /\ AttestationShape(doing[h].act) /\ BothSpoke(doing[h].act)

EvidenceTypes ==
  /\ works \in Seq(Revisions)
  /\ grants \in [Grants -> {Absent} \cup Rows]
  /\ DOMAIN doing = Speakers

\* What was accepted had both participants on record, and only what was accepted
\* is delivered.
AcceptedIsOfBoth ==
  /\ \A a \in joints : a \in Attestations /\ AttestationShape(a) /\ BothSpoke(a)
  /\ delivered \subseteq joints

EInv ==
  /\ EvidenceTypes
  /\ \A h \in Speakers : Carries(h)
  /\ AcceptedIsOfBoth
  /\ ConfirmedOnce
  /\ JointIsOfBoth

\* No step takes evidence or a capability's row away.
Grows ==
  /\ evidence \subseteq evidence'
  /\ \A g \in Grants : grants[g] # Absent => grants'[g] # Absent

\* What a call carries stays true while other calls write.
LEMMA CarriesKept ==
  ASSUME NEW h \in Speakers, Carries(h), Grows, doing'[h] = doing[h]
  PROVE  Carries(h)'
BY DEF Carries, Grows, IssuedBefore, BothSpoke

\* A call that rests carries nothing.
LEMMA RestsCarries ==
  ASSUME NEW h \in Speakers, doing'[h] = Resting
  PROVE  Carries(h)'
BY DEF Carries, Resting

\* One call takes a step, and the other calls have what they had.
LEMMA OneMoves ==
  ASSUME NEW h \in Speakers, DOMAIN doing = Speakers, NEW d, Becomes(h, d),
         \A g \in Speakers : Carries(g), Grows, doing'[h] = d => Carries(h)'
  PROVE  DOMAIN doing' = Speakers /\ \A g \in Speakers : Carries(g)'
<1>1. /\ DOMAIN doing' = Speakers /\ doing'[h] = d
      /\ \A g \in Speakers \ {h} : doing'[g] = doing[g]
  BY DEF Becomes
<1>2. ASSUME NEW g \in Speakers \ {h} PROVE Carries(g)'
  BY <1>1, CarriesKept
<1> QED BY <1>1, <1>2

\* Nobody moves.
LEMMA NobodyMoves ==
  ASSUME DOMAIN doing = Speakers, \A g \in Speakers : Carries(g), Grows, UNCHANGED doing
  PROVE  DOMAIN doing' = Speakers /\ \A g \in Speakers : Carries(g)'
BY CarriesKept

\* The first state: nothing on record, nobody calling.
LEMMA EInit == EvidenceInit => EInv
<1> SUFFICES ASSUME EvidenceInit PROVE EInv
  OBVIOUS
<1>1. EvidenceTypes
  BY DEF EvidenceInit, EvidenceTypes
<1>2. ASSUME NEW h \in Speakers PROVE Carries(h)
  BY DEF EvidenceInit, Carries, Resting
<1>3. AcceptedIsOfBoth /\ ConfirmedOnce /\ JointIsOfBoth
  BY DEF EvidenceInit, AcceptedIsOfBoth, ConfirmedOnce, JointIsOfBoth
<1> QED BY <1>1, <1>2, <1>3 DEF EInv

\* A step that writes no file: a call reads, and carries what it read.
LEMMA ReadingSteps ==
  ASSUME EInv, UNCHANGED files, DOMAIN doing' = Speakers, \A h \in Speakers : Carries(h)'
  PROVE  EInv'
BY DEF EInv, files, EvidenceTypes, AcceptedIsOfBoth, BothSpoke, ConfirmedOnce, JointIsOfBoth

\* The calls' reads: each carries on with what it found.
LEMMA CallsRead ==
  ASSUME EInv, UNCHANGED files, NEW h \in Speakers,
         \/ \E s \in AstelSources : AstelDirect(h, s) \/ AstelReviewed(h, s)
         \/ \E s \in SolenSources : SolenApplied(h, s)
         \/ \E a \in Attestations : Attest(h, a)
         \/ Review(h) \/ LookForAnswer(h) \/ Lost(h)
  PROVE  EInv'
<1>a. /\ DOMAIN doing = Speakers /\ (\A g \in Speakers : Carries(g)) /\ Grows
      /\ UNCHANGED <<grants, evidence>>
      /\ grants \in [Grants -> {Absent} \cup Rows]
  BY DEF EInv, EvidenceTypes, Grows, files
<1>1. ASSUME NEW d, Becomes(h, d), doing'[h] = d => Carries(h)' PROVE EInv'
  BY <1>1, <1>a, OneMoves, ReadingSteps
<1>2. ASSUME Rests(h) PROVE EInv'
  BY <1>1, <1>2, RestsCarries DEF Rests
\* Evidence to be stored: by no capability, or by one that has a row.
<1>3. ASSUME NEW r, NEW l \in {"evident", "storing"}, Becomes(h, [at |-> l, record |-> r]),
             r.grant # Absent => IssuedBefore(r.grant)
      PROVE  EInv'
  <2>1. ASSUME doing'[h] = [at |-> l, record |-> r] PROVE Carries(h)'
    BY <1>3, <1>a, <2>1 DEF Carries, IssuedBefore
  <2> QED BY <1>1, <1>3, <2>1
<1>4. ASSUME NEW s \in AstelSources, AstelDirect(h, s) PROVE EInv'
  <2>1. Record("astel", s, "authenticated_structured_action", s.key, Absent).grant = Absent
    BY DEF Record
  <2> QED BY <1>3, <1>4, <2>1 DEF AstelDirect
<1>5. ASSUME NEW s \in AstelSources, AstelReviewed(h, s) PROVE EInv'
  <2>1. IssuedBefore(s.grant)
    BY <1>5, GrantsAssumption DEF AstelReviewed, IssuedBefore
  <2>2. grants[s.grant] \in Rows
    BY <2>1, <1>a DEF IssuedBefore
  <2>3. CASE grants[s.grant].state # "issued"
    <3>1. Becomes(h, [at |-> "replayed", grant |-> s.grant, count |-> grants[s.grant].replays + 1])
      BY <1>5, <2>3 DEF AstelReviewed
    <3>2. ASSUME doing'[h] = [at |-> "replayed", grant |-> s.grant,
                              count |-> grants[s.grant].replays + 1]
          PROVE  Carries(h)'
      BY <2>1, <2>2, <3>2, <1>a DEF Carries, IssuedBefore, Rows
    <3> QED BY <3>1, <3>2, <1>1
  <2>4. CASE grants[s.grant].state = "issued"
    <3>1. Becomes(h, [at |-> "bound", source |-> s])
      BY <1>5, <2>4 DEF AstelReviewed
    <3>2. ASSUME doing'[h] = [at |-> "bound", source |-> s] PROVE Carries(h)'
      BY <2>1, <3>2, <1>a DEF Carries, IssuedBefore
    <3> QED BY <3>1, <3>2, <1>1
  <2> QED BY <2>3, <2>4
<1>6. CASE Review(h)
  <2> DEFINE s == doing[h].source
             r == Record("astel", s, "authenticated_reviewed_confirmation", s.key, s.grant)
  <2>1. IssuedBefore(s.grant)
    BY <1>6, <1>a DEF Review, Carries
  <2>2. r.grant = s.grant
    BY DEF Record
  <2>3. Becomes(h, [at |-> "evident", record |-> r]) \/ Rests(h)
    BY <1>6 DEF Review
  <2> HIDE DEF r
  <2> QED BY <2>1, <2>2, <2>3, <1>2, <1>3
<1>7. ASSUME NEW s \in SolenSources, SolenApplied(h, s) PROVE EInv'
  <2>1. Record("solen", s, "applied_solen_outbox", <<s.bundle, s.candidate.content>>, Absent).grant
          = Absent
    BY DEF Record
  <2> QED BY <1>3, <1>7, <2>1 DEF SolenApplied
<1>8. CASE LookForAnswer(h)
  <2> DEFINE r == doing[h].record
  <2>1. /\ doing[h] = [at |-> "evident", record |-> r]
        /\ r.grant # Absent => IssuedBefore(r.grant)
    BY <1>8, <1>a DEF LookForAnswer, Carries
  <2>2. [doing[h] EXCEPT !.at = "storing"] = [at |-> "storing", record |-> r]
    BY <2>1
  <2>3. Rests(h) \/ Becomes(h, [at |-> "storing", record |-> r])
    BY <1>8, <2>2 DEF LookForAnswer
  <2> QED BY <2>1, <2>3, <1>2, <1>3
<1>9. ASSUME NEW a \in Attestations, Attest(h, a) PROVE EInv'
  <2>1. Becomes(h, [at |-> "attesting", act |-> a]) /\ AttestationShape(a) /\ BothSpoke(a)
    BY <1>9 DEF Attest
  <2>2. ASSUME doing'[h] = [at |-> "attesting", act |-> a] PROVE Carries(h)'
    BY <2>1, <2>2, <1>a DEF Carries, BothSpoke
  <2> QED BY <2>1, <2>2, <1>1
<1>10. CASE Lost(h)
  BY <1>10, <1>2 DEF Lost
<1> QED BY <1>4, <1>5, <1>6, <1>7, <1>8, <1>9, <1>10

\* The count of replays is written to a row that is used up already.
LEMMA CountStep ==
  ASSUME EInv, NEW h \in Speakers, CountReplay(h)
  PROVE  EInv'
<1>a. /\ DOMAIN doing = Speakers /\ (\A g \in Speakers : Carries(g))
      /\ grants \in [Grants -> {Absent} \cup Rows]
  BY DEF EInv, EvidenceTypes
<1>1. PICK g \in Grants, n \in Nat :
        /\ grants[g] \in Rows
        /\ grants' = [grants EXCEPT ![g] = [grants[g] EXCEPT !.replays = n]]
  BY <1>a DEF CountReplay, Carries, IssuedBefore
<1>2. [grants[g] EXCEPT !.replays = n] \in Rows
      /\ [grants[g] EXCEPT !.replays = n].state = grants[g].state
  BY <1>1 DEF Rows
<1>3. PICK r \in Rows : /\ grants' = [grants EXCEPT ![g] = r]
                        /\ r.state = grants[g].state
  BY <1>1, <1>2
<1>4. grants[g] # Absent /\ r # Absent
  BY <1>1, <1>3, AbsentAssumption DEF Rows
<1>5. grants' \in [Grants -> {Absent} \cup Rows] /\ Grows
  BY <1>3, <1>4, <1>a DEF Grows, CountReplay
<1>6. DOMAIN doing' = Speakers /\ \A k \in Speakers : Carries(k)'
  BY <1>a, <1>5, OneMoves, RestsCarries DEF CountReplay, Rests
<1>7. ConfirmedOnce'
  BY <1>3, <1>4, <1>a DEF EInv, ConfirmedOnce, CountReplay
<1> QED BY <1>5, <1>6, <1>7
        DEF EInv, EvidenceTypes, CountReplay, AcceptedIsOfBoth, BothSpoke, JointIsOfBoth

\* The transaction: the capability is spent by the evidence it pays for, and
\* whoever has spoken has still spoken.
LEMMA StoreStep ==
  ASSUME EInv, NEW h \in Speakers, StoreEvidence(h)
  PROVE  EInv'
<1>a. /\ DOMAIN doing = Speakers /\ (\A g \in Speakers : Carries(g))
      /\ grants \in [Grants -> {Absent} \cup Rows]
  BY DEF EInv, EvidenceTypes
<1> DEFINE x == doing[h].record
<1>1. x.grant # Absent => IssuedBefore(x.grant)
  BY <1>a DEF StoreEvidence, Carries
<1>2. CASE UNCHANGED <<evidence, grants>>
  <2>1. Grows
    BY <1>2 DEF Grows
  <2>2. DOMAIN doing' = Speakers /\ \A k \in Speakers : Carries(k)'
    BY <1>a, <2>1, OneMoves, RestsCarries DEF StoreEvidence, Rests
  <2> QED BY <1>2, <2>2
          DEF EInv, EvidenceTypes, StoreEvidence, AcceptedIsOfBoth, BothSpoke, ConfirmedOnce,
              JointIsOfBoth
<1>3. ASSUME /\ Usable(x.grant) /\ \A y \in evidence : y.event # x.event
             /\ evidence' = evidence \cup {x}
             /\ grants' = [g \in Grants |-> IF g = x.grant
                             THEN [grants[g] EXCEPT !.state = "consumed"] ELSE grants[g]]
      PROVE  EInv'
  <2> HIDE DEF x
  <2>1. x \notin evidence
    BY <1>3
  <2>2. ASSUME NEW g \in Grants, g = x.grant
        PROVE  /\ grants[g] \in Rows /\ grants[g].state = "issued"
               /\ grants'[g] \in Rows /\ grants'[g].state = "consumed" /\ grants'[g] # Absent
    <3>1. grants[g] \in Rows /\ grants[g].state = "issued"
      BY <2>2, <1>1, <1>3, <1>a, GrantsAssumption DEF Usable, IssuedBefore
    <3>2. grants'[g] = [grants[g] EXCEPT !.state = "consumed"]
      BY <2>2, <1>3
    <3>3. grants'[g] \in Rows /\ grants'[g].state = "consumed"
      BY <3>1, <3>2 DEF Rows
    <3> QED BY <3>1, <3>3, AbsentAssumption DEF Rows
  <2>3. \A g \in Grants : g # x.grant => grants'[g] = grants[g]
    BY <1>3
  <2>4. grants' \in [Grants -> {Absent} \cup Rows]
    <3>1. \A g \in Grants : grants'[g] \in {Absent} \cup Rows
      BY <2>2, <2>3, <1>a
    <3> QED BY <3>1, <1>3
  <2>5. Grows
    BY <1>3, <2>2, <2>3 DEF Grows
  <2>6. DOMAIN doing' = Speakers /\ \A k \in Speakers : Carries(k)'
    BY <1>a, <2>5, OneMoves, RestsCarries DEF StoreEvidence, Rests
  <2>7. ConfirmedOnce'
    <3>1. ASSUME NEW g \in Grants
          PROVE  IF grants'[g] # Absent /\ grants'[g].state = "consumed"
                 THEN Cardinality({y \in evidence' : y.grant = g}) = 1
                 ELSE {y \in evidence' : y.grant = g} = {}
      <4>1. CASE g = x.grant
        <5>1. {y \in evidence : y.grant = g} = {}
          BY <4>1, <2>2 DEF EInv, ConfirmedOnce
        <5>2. {y \in evidence' : y.grant = g} = {x}
          BY <4>1, <5>1, <1>3
        <5>3. Cardinality({y \in evidence' : y.grant = g}) = 1
          BY <5>2, FS_Singleton
        <5> QED BY <5>3, <4>1, <2>2
      <4>2. CASE g # x.grant
        <5>1. {y \in evidence' : y.grant = g} = {y \in evidence : y.grant = g}
          BY <4>2, <1>3
        <5> QED BY <5>1, <4>2, <2>3 DEF EInv, ConfirmedOnce
      <4> QED BY <4>1, <4>2
    <3> QED BY <3>1 DEF ConfirmedOnce
  <2>8. AcceptedIsOfBoth' /\ JointIsOfBoth'
    BY <1>3 DEF EInv, AcceptedIsOfBoth, BothSpoke, JointIsOfBoth, StoreEvidence
  <2>9. UNCHANGED works
    BY DEF StoreEvidence
  <2> QED BY <2>4, <2>6, <2>7, <2>8, <2>9 DEF EInv, EvidenceTypes
<1> QED BY <1>2, <1>3 DEF StoreEvidence

\* An attestation is accepted with what was read for it.
LEMMA AcceptStep ==
  ASSUME EInv, NEW h \in Speakers, Accept(h)
  PROVE  EInv'
<1>a. DOMAIN doing = Speakers /\ (\A g \in Speakers : Carries(g))
  BY DEF EInv, EvidenceTypes
<1> DEFINE a == doing[h].act
<1>1. a \in Attestations /\ AttestationShape(a) /\ BothSpoke(a)
  BY <1>a DEF Accept, Carries
<1>2. joints' \in {joints, joints \cup {a}} /\ UNCHANGED <<works, grants, evidence, delivered>>
  BY DEF Accept
<1>3. DOMAIN doing' = Speakers /\ \A k \in Speakers : Carries(k)'
  BY <1>a, <1>2, OneMoves, RestsCarries DEF Accept, Rests, Grows
<1> HIDE DEF a
<1>4. AcceptedIsOfBoth'
  BY <1>1, <1>2 DEF EInv, AcceptedIsOfBoth, BothSpoke
<1> QED BY <1>2, <1>3, <1>4 DEF EInv, EvidenceTypes, ConfirmedOnce, JointIsOfBoth

\* The working set, its receipts and the capabilities are written outside a call.
LEMMA EventsStep ==
  ASSUME EInv, EvidenceEvents
  PROVE  EInv'
<1>a. /\ DOMAIN doing = Speakers /\ (\A g \in Speakers : Carries(g))
      /\ grants \in [Grants -> {Absent} \cup Rows] /\ works \in Seq(Revisions)
  BY DEF EInv, EvidenceTypes
<1>1. ASSUME NEW content \in Contents, Author(content) PROVE EInv'
  <2>1. [content |-> content, joint |-> Absent] \in Revisions
    BY DEF Revisions
  <2>2. Grows /\ UNCHANGED <<grants, evidence, joints, delivered, doing>>
    BY <1>1 DEF Author, Grows
  <2>3. works' \in Seq(Revisions)
    BY <1>1, <1>a, <2>1 DEF Author
  <2>4. ASSUME NEW n \in DOMAIN works', works'[n].joint # Absent
        PROVE  n \in DOMAIN works /\ works'[n] = works[n] /\ (n > 1 => works'[n - 1] = works[n - 1])
    BY <1>1, <1>a, <2>4 DEF Author
  <2>5. JointIsOfBoth'
    BY <2>2, <2>4 DEF EInv, JointIsOfBoth
  <2> QED BY <1>a, <2>2, <2>3, <2>5, NobodyMoves
          DEF EInv, EvidenceTypes, AcceptedIsOfBoth, BothSpoke, ConfirmedOnce
<1>2. ASSUME NEW a \in Attestations, Deliver(a) PROVE EInv'
  <2>1. Grows /\ UNCHANGED <<works, grants, evidence, joints, doing>>
    BY <1>2 DEF Deliver, Grows
  <2>2. AcceptedIsOfBoth'
    BY <1>2, <2>1 DEF Deliver, EInv, AcceptedIsOfBoth, BothSpoke
  <2> QED BY <1>a, <2>1, <2>2, NobodyMoves DEF EInv, EvidenceTypes, ConfirmedOnce, JointIsOfBoth
<1>3. ASSUME NEW a \in Attestations, MakeJoint(a) PROVE EInv'
  <2>1. Grows /\ UNCHANGED <<grants, evidence, joints, delivered, doing>>
    BY <1>3 DEF MakeJoint, Grows
  <2>2. [content |-> a.content, joint |-> a.id] \in Revisions
    BY DEF Revisions
  <2>3. works' \in Seq(Revisions)
    BY <1>3, <1>a, <2>2 DEF MakeJoint
  <2>4. AttestationShape(a) /\ BothSpoke(a)
    BY <1>3 DEF MakeJoint, EInv, AcceptedIsOfBoth
  <2>5. a.rev = Len(works) /\ Len(works) > 0 /\ a.content = works[Len(works)].content
    BY <1>3, <1>a, <2>4 DEF MakeJoint, Attested, Present, AttestationShape
  <2>6. PICK x \in evidence, y \in evidence :
          /\ x.event = a.astel /\ x.participant = "astel" /\ For(x, a)
          /\ y.event = a.solen /\ y.participant = "solen" /\ For(y, a)
    BY <2>4 DEF BothSpoke
  <2>7. x.event # y.event
    BY <2>4, <2>6 DEF AttestationShape
  <2>8. ASSUME NEW n \in DOMAIN works', works'[n].joint # Absent
        PROVE  /\ n > 1 /\ works'[n].content = works'[n - 1].content
               /\ \E v, w \in evidence' :
                    /\ v.participant = "astel" /\ w.participant = "solen" /\ v.event # w.event
                    /\ \A z \in {v, w} : z.created /\ z.rev = n - 1 /\ z.content = works'[n].content
    <3>1. CASE n \in DOMAIN works
      <4>1. works'[n] = works[n] /\ (n > 1 => works'[n - 1] = works[n - 1])
        BY <1>3, <1>a, <3>1 DEF MakeJoint
      <4> QED BY <2>1, <2>8, <3>1, <4>1 DEF EInv, JointIsOfBoth
    <3>2. CASE n \notin DOMAIN works
      <4>1. n = Len(works) + 1
        BY <1>3, <1>a, <3>2, <2>8 DEF MakeJoint
      <4>2. works'[n].content = a.content /\ works'[n - 1] = works[n - 1] /\ n > 1
        BY <1>3, <1>a, <4>1, <2>5 DEF MakeJoint
      <4>3. n - 1 = a.rev /\ works'[n - 1].content = a.content
        BY <1>a, <4>1, <4>2, <2>5
      <4> QED BY <4>2, <4>3, <2>1, <2>6, <2>7 DEF For
    <3> QED BY <3>1, <3>2
  <2>9. JointIsOfBoth'
    BY <2>8 DEF JointIsOfBoth
  <2> QED BY <1>a, <2>1, <2>3, <2>9, NobodyMoves
          DEF EInv, EvidenceTypes, AcceptedIsOfBoth, BothSpoke, ConfirmedOnce
<1>4. ASSUME NEW g \in Grants, Issue(g) PROVE EInv'
  <2>1. [state |-> "issued", replays |-> 0] \in Rows
    BY DEF Rows
  <2>2. PICK r \in Rows : r.state = "issued" /\ grants' = [grants EXCEPT ![g] = r]
    BY <1>4, <2>1 DEF Issue
  <2>3. grants' \in [Grants -> {Absent} \cup Rows] /\ Grows
    BY <1>4, <1>a, <2>2 DEF Issue, Grows
  <2>4. UNCHANGED <<works, evidence, joints, delivered, doing>>
    BY <1>4 DEF Issue
  <2>5. ConfirmedOnce'
    BY <1>4, <1>a, <2>2, <2>4 DEF Issue, EInv, ConfirmedOnce
  <2> QED BY <1>a, <2>3, <2>4, <2>5, NobodyMoves
          DEF EInv, EvidenceTypes, AcceptedIsOfBoth, BothSpoke, JointIsOfBoth
<1> QED BY <1>1, <1>2, <1>3, <1>4 DEF EvidenceEvents

\* The invariant holds in every reachable state.
THEOREM EvidenceInvariant == EvidenceSpec => []EInv
<1>1. EvidenceInit => EInv
  BY EInit
<1>2. EInv /\ [EvidenceNext]_evidenceVars => EInv'
  <2> SUFFICES ASSUME EInv, [EvidenceNext]_evidenceVars PROVE EInv'
    OBVIOUS
  <2>1. CASE UNCHANGED evidenceVars
    <3>1. UNCHANGED files /\ UNCHANGED doing /\ Grows
      BY <2>1 DEF evidenceVars, files, Grows
    <3> QED BY <3>1, NobodyMoves, ReadingSteps DEF EInv, EvidenceTypes
  <2>2. CASE EvidenceEvents
    BY <2>2, EventsStep
  <2>3. ASSUME NEW h \in Speakers, EvidenceStep(h, AstelSources, SolenSources, Attestations)
        PROVE  EInv'
    <3>1. CASE CountReplay(h) \/ StoreEvidence(h) \/ Accept(h)
      BY <3>1, CountStep, StoreStep, AcceptStep
    <3>2. CASE \/ \E s \in AstelSources : AstelDirect(h, s) \/ AstelReviewed(h, s)
               \/ \E s \in SolenSources : SolenApplied(h, s)
               \/ \E a \in Attestations : Attest(h, a)
               \/ Review(h) \/ LookForAnswer(h) \/ Lost(h)
      <4>1. UNCHANGED files
        BY <3>2 DEF AstelDirect, AstelReviewed, Review, SolenApplied, LookForAnswer, Attest, Lost
      <4> QED BY <3>2, <4>1, CallsRead
    <3> QED BY <2>3, <3>1, <3>2 DEF EvidenceStep
  <2> QED BY <2>1, <2>2, <2>3 DEF EvidenceNext
<1> QED BY <1>1, <1>2, PTL DEF EvidenceSpec

\* A confirmation capability is used up by exactly one piece of evidence, and
\* not without it, for any number of processes given it at once
\* (_put_source_and_evidence).
THEOREM CapabilityPaysOnce == EvidenceSpec => []ConfirmedOnce
<1>1. EInv => ConfirmedOnce
  BY DEF EInv
<1> QED BY <1>1, EvidenceInvariant, PTL

\* A joint revision repeats the one before it, and each participant is on record
\* for that very revision (attest_joint, put_accepted_joint_receipt,
\* _verify_accepted_joint_receipt).
THEOREM JointNeedsBoth == EvidenceSpec => []JointIsOfBoth
<1>1. EInv => JointIsOfBoth
  BY DEF EInv
<1> QED BY <1>1, EvidenceInvariant, PTL

=============================================================================
