------------------------------ MODULE MCMemory ------------------------------
(***************************************************************************)
(* Small instances of the curated memory and of the participants'          *)
(* evidence.  Of CuratedMemory, one per question:                          *)
(*   records    one record in every scope and shape, Core and lifecycle    *)
(*   relations  two records of one or two authorities, joined both ways    *)
(*   evolution  two records, proposals and applied resolutions, Core       *)
(*   legacy     a chain of schema v0 that goes on in schema v1             *)
(* Of ParticipantEvidence, two:                                            *)
(*   granting   two processes are given the same commands, direct and      *)
(*              reviewed, two of them with one capability                  *)
(*   attesting  the evidence of both participants is attested while the    *)
(*              item is revised, away and back again                       *)
(***************************************************************************)
EXTENDS CuratedMemory, ParticipantEvidence, TLC

CONSTANTS v1, v2, p1, p2, c1, x1, x2, y1, y2, y3, y4, y5, g1

VARIABLE world

Astel(place) == [place |-> place, authority |-> "reviewed_memory", owner |-> "astel"]
Solen(place) == [place |-> place, authority |-> "solen_active_memory", owner |-> "solen"]
Candidate(place) == [place |-> place, authority |-> "candidate_only", owner |-> "solen"]

Plain == [superseded |-> FALSE, provenance |-> TRUE, blockers |-> {}, capabilities |-> Capabilities]
Bare == [Plain EXCEPT !.capabilities = {}]
Flagged == [Plain EXCEPT !.blockers = {"unresolved_contradiction"}]
Unsourced == [Plain EXCEPT !.provenance = FALSE]
Superseded == [Bare EXCEPT !.superseded = TRUE, !.blockers = {Historical}]

ASSUME ObservationsAreLegal ==
  /\ {Plain, Bare, Flagged, Unsourced, Superseded} \subseteq Shapes
  /\ {Astel(p1), Solen(p1), Candidate(p1), Astel(p2), Synthetic} \subseteq Scopes

CuratedWorlds == {"records", "relations", "evolution", "legacy"}

Observed ==
  [records |-> [on |-> {1}, shape |-> {Plain, Bare, Flagged, Unsourced, Superseded},
                scope |-> {Astel(p1), Solen(p1), Candidate(p1), Astel(p2), Synthetic}],
   relations |-> [on |-> Memories, shape |-> {Plain, Unsourced}, scope |-> {Astel(p1), Solen(p1)}],
   evolution |-> [on |-> Memories, shape |-> {Plain}, scope |-> {Astel(p1)}],
   legacy |-> [on |-> Memories, shape |-> {Plain, Unsourced}, scope |-> {Synthetic}]][world]

OnRecords(m) ==
  \/ \E version \in Versions : Repair(m, version)
  \/ world # "relations" /\ (SetCore(m) \/ RemoveCore(m))

OnLifecycle(m) ==
  Quiet(m) \/ RestoreNormal(m) \/ AutomaticCooling(m) \/ AutomaticQuiet(m) \/ LifecycleWakeup(m)

Ends == {<<1, 2>>, <<2, 1>>}

OnRelations ==
  \/ \E v \in BOOLEAN, symmetric \in BOOLEAN, e \in Ends, ls, rs \in {Astel(p1), Solen(p1)},
        approval \in {Astel(p1), Solen(p1), Astel(p2)}, claim \in Claims :
       /\ Exists(e[1]) /\ Exists(e[2])
       /\ symmetric \/ e[1] < e[2]
       /\ DOMAIN relations = {} \/ RelationRef(v, e[1], e[2], symmetric, ls, rs) \in DOMAIN relations
       /\ LET ref == RelationRef(v, e[1], e[2], symmetric, ls, rs)
          IN AssertRelation(ref, [leftVersion |-> records[ref.left].version,
                                  rightVersion |-> records[ref.right].version,
                                  claim |-> claim], approval)
  \/ \E ref \in DOMAIN relations, approval \in {Astel(p1), Solen(p1), Astel(p2)} :
       RetractRelation(ref, approval)

OnEvolution ==
  \/ \E e \in {<<1, 2>>}, blockers \in {{}, {"unresolved_contradiction"}} :
       \/ CreateProposal(e[1], e[2], blockers)
       \/ \E disposition \in Dispositions :
            /\ DOMAIN resolutions = {}
            /\ ApplyEvolution(e[1], e[2], disposition, blockers, Solen(p1))
  \/ \E i \in DOMAIN proposals : WithdrawProposal(i)

CuratedNext ==
  \/ \E o \in Observed.shape, m \in Observed.on, version \in Versions, scope \in Observed.scope :
       Observe(m, version, scope, o)
  \/ /\ world = "legacy"
     /\ \E o \in Observed.shape, m \in Observed.on, version \in Versions : ObserveLegacy(m, version, o)
  \/ \E m \in Observed.on : OnRecords(m)
  \/ world \in {"records", "legacy"} /\ \E m \in Observed.on : OnLifecycle(m)
  \/ world = "relations" /\ OnRelations
  \/ world = "evolution" /\ OnEvolution

-----------------------------------------------------------------------------
Of(kind, rev) ==
  [kind |-> kind, rev |-> rev, content |-> IF kind = "create" THEN x1 ELSE Absent,
   patch |-> kind = "revise", reason |-> IF kind = "resolve" THEN "done" ELSE Absent,
   successor |-> IF kind = "supersede" THEN "other" ELSE Absent, turn |-> "turn"]

Now(rev) == [created |-> rev > 0, rev |-> rev, content |-> x1]

Direct(event, kind, rev) ==
  [mode |-> "direct", grant |-> Absent, event |-> event, key |-> event, turn |-> "turn", time |-> 1,
   command |-> Of(kind, rev), candidate |-> Now(rev)]

Reviewed(event, time) ==
  [Direct(event, "confirm", 1) EXCEPT !.mode = "reviewed", !.grant = g1, !.time = time]

Applied(event, rev) ==
  [event |-> event, bundle |-> event, outbox |-> "applied", candidate |-> Now(rev)]

MCGranted == g1 :> [command |-> Of("confirm", 1), turn |-> "turn", issued |-> 1, expires |-> 2]

Spoken ==
  [granting |->
     [astel |-> {Reviewed(y1, 1), Reviewed(y2, 2), Reviewed(y3, 3), Direct(y1, "create", 0),
                 [Direct(y4, "revise", 1) EXCEPT !.key = y2], Direct(y5, "resolve", 2)},
      solen |-> {}, revisions |-> 2],
   attesting |->
     [astel |-> {Direct(y1, "confirm", 1), Direct(y2, "supersede", 3)},
      solen |-> {Applied(y3, 1), Applied(y4, 3), Applied(y5, 0)}, revisions |-> 4]]

MCAstelSources == UNION {Spoken[s].astel : s \in DOMAIN Spoken}
MCSolenSources == UNION {Spoken[s].solen : s \in DOMAIN Spoken}

Together(id, rev, astel, solen) ==
  [id |-> id, key |-> id, rev |-> rev, content |-> x1, astel |-> astel, solen |-> solen]

MCAttestations ==
  {Together("first", 1, y1, y3), Together("again", 1, y1, y3),
   Together("later", 3, y2, y4), Together("stale", 3, y1, y3), Together("created", 1, y1, y5)}

EvidenceWorlds == DOMAIN Spoken

EvidenceWorld(w) ==
  /\ \/ EvidenceEvents
     \/ \E h \in Speakers :
          EvidenceStep(h, Spoken[w].astel, Spoken[w].solen,
                       IF w = "attesting" THEN Attestations ELSE {})
  /\ Len(works') <= Spoken[w].revisions
=============================================================================
