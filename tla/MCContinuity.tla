---------------------------- MODULE MCContinuity ----------------------------
(* The continuity histories. The store: two connections to one file in four  *)
(* small worlds, each of which says which commands are asked for, and        *)
(* whether there are bundles, finalised operations or reads. The curated     *)
(* Memory events, and the participants' evidence and joint acts: the worlds  *)
(* of MCMemory. A behaviour stays in its world.                              *)
EXTENDS ContinuityReaders, StoreDoctor, MCMemory, TLC

CONSTANTS i1, r1, k1, k2, k3, k4, k5, k6, k7, e1, e2, e3, e4, e5, e6, e7,
          op1, op2, s1, s2, b1, w1, w2,
          Worlds   \* the worlds of this run

Ask(key, event, owner, kind) ==
  [key |-> key, event |-> event, owner |-> owner, kind |-> kind, to |-> "active",
   summary |-> None, op |-> None, over |-> {}, by |-> None, project |-> None]

Create == [Ask(k1, e1, i1, "create") EXCEPT !.summary = s1, !.op = op1]
Confirm == [Ask(k2, e2, i1, "confirm") EXCEPT !.op = op2]
Bind == [Ask(k3, e3, r1, "bind") EXCEPT !.project = p1]
ReviseLater == [Ask(k4, e4, i1, "revise") EXCEPT !.summary = s2, !.op = op2]

MCPlan == b1 :> <<[Ask(k6, e6, i1, "revise") EXCEPT !.summary = s2],
                  Ask(k7, e7, r1, "decline")>>

Asked ==
  [merge |->      \* the merge writes the old summary back
     {Create, Confirm, ReviseLater,
      [Ask(k3, e3, i1, "merge_disjoint") EXCEPT !.summary = s1]},
   lifecycle |->  \* with an event identity used twice
     {Create,
      [Ask(k2, e2, i1, "resolve") EXCEPT !.to = "resolved"],
      Ask(k3, e3, i1, "reopen"),
      [Ask(k4, e4, i1, "mark_cleanup_eligible") EXCEPT !.to = "resolved"],
      [Ask(k5, e5, i1, "attest_joint") EXCEPT !.to = "resolved"],
      [Ask(k2, e1, r1, "bind") EXCEPT !.project = p1]},
   bundle |-> {Create, Confirm, Bind},
   reading |-> {Create, Ask(k2, e2, i1, "confirm"), Bind}]

MCCommands == UNION {Asked[x] : x \in DOMAIN Asked} \cup {MCPlan[b1][1], MCPlan[b1][2]}

ASSUME WorldsAreThere == Worlds \subseteq DOMAIN Asked \cup CuratedWorlds \cup EvidenceWorlds

MCInit == ReadersInit /\ MemoryInit /\ EvidenceInit /\ world \in Worlds

Finalises(w) == pc[w] = "idle" /\ pc'[w] = "finalising"

OnStore(w) ==
  \/ world = "reading" /\ w \in Readers /\ ReadStep(w)
  \/ /\ world = "reading" => w \notin Readers
     /\ StoreStep(w, Asked[world], IF world = "bundle" THEN Bundles ELSE {})
     /\ world # "reading" => ~Finalises(w)

MCNext ==
  /\ UNCHANGED world
  /\ \/ world \in DOMAIN Asked /\ (\E w \in Conns : OnStore(w))
        /\ UNCHANGED <<memoryVars, evidenceVars>>
     \/ world \in CuratedWorlds /\ CuratedNext /\ UNCHANGED <<readVars, evidenceVars>>
     \/ world \in EvidenceWorlds /\ EvidenceWorld(world) /\ UNCHANGED <<readVars, memoryVars>>

MCSpec == MCInit /\ [][MCNext]_<<readVars, memoryVars, evidenceVars, world>>

Symmetry == Permutations({v1, v2})
=============================================================================
