-------------------------- MODULE ParticipantEvidence --------------------------
(***************************************************************************)
(* The participants' evidence and their joint acts                         *)
(* (house_continuity_v1_2_participant_evidence_local.py): Astel's commands *)
(* come from an authenticated client, some of them with a one-use          *)
(* confirmation capability; Solen's come from an applied outbox; a joint   *)
(* attestation needs the evidence of both.                                 *)
(*                                                                         *)
(* The evidence is in a file of its own.  The item the participants speak  *)
(* of is in the working-set store, where other authors revise it: `works`  *)
(* is its history, one entry per revision.  A call reads one file, then    *)
(* the other, and writes last; each read that another call can come        *)
(* between is a step, and a call may end at any of them.  A content stands *)
(* for what a semantic digest covers: kind, scope, summary and payload.    *)
(***************************************************************************)
EXTENDS Naturals, Sequences, FiniteSets

CONSTANTS
  Speakers,      \* processes with the evidence file open
  Contents,
  Grants,        \* confirmation capabilities, by the clear token
  Granted,       \* Granted[g]: what g was issued for, and when
  AstelSources, SolenSources, Attestations,
  MaxRevision,
  MaxReplays,    \* bound: replays of one capability that are tried
  Absent

\* A source names a capability by its token, or none.
ASSUME GrantsAssumption ==
  /\ Absent \notin Grants
  /\ \A s \in AstelSources : s.grant \in Grants \cup {Absent}

\* An absent row is no row.
ASSUME AbsentAssumption == Absent \notin [state : {"issued", "consumed"}, replays : Nat]

VARIABLES
  works,      \* the item's revisions: content, and the attestation behind it
  grants,     \* grants[g]: Absent, or its state and its count of replays
  evidence,   \* evidence records, each with the source event it came from
  answers,    \* receipts, by idempotency key
  joints,     \* attestations accepted here, each with its receipt
  delivered,  \* accepted receipts that were put into the working-set store
  doing       \* doing[h]: the call of process h

evidenceVars == <<works, grants, evidence, answers, joints, delivered, doing>>
files == <<works, grants, evidence, answers, joints, delivered>>

Resting == [at |-> "rest"]

EvidenceInit ==
  /\ works = <<>> /\ evidence = {} /\ answers = <<>> /\ joints = {} /\ delivered = {}
  /\ grants = [g \in Grants |-> Absent]
  /\ doing = [h \in Speakers |-> Resting]

Becomes(h, call) == doing' = [doing EXCEPT ![h] = call]
Rests(h) == Becomes(h, Resting)

(***************************************************************************)
(* The working set                                                         *)
(***************************************************************************)

\* An author other than a joint act creates or revises the item.
Author(content) ==
  /\ Len(works) < MaxRevision
  /\ works' = Append(works, [content |-> content, joint |-> Absent])
  /\ UNCHANGED <<grants, evidence, answers, joints, delivered, doing>>

\* read_item, as the candidate that describes it now.
Present == [created |-> TRUE, rev |-> Len(works),
            content |-> IF works = <<>> THEN Absent ELSE works[Len(works)].content]

\* validate_accepted_joint_receipt: two independent records of a revision.
ReceiptShape(a) == a.rev > 0 /\ a.astel # a.solen

\* put_accepted_joint_receipt: an attestation has one receipt.  The store checks
\* the receipt's shape and hash, not where it comes from; that its caller brings
\* one which attest_joint issued (a \in joints) is an assumption of this model.
Deliver(a) ==
  /\ a \in joints /\ ReceiptShape(a)
  /\ \A b \in delivered : b.id # a.id
  /\ delivered' = delivered \cup {a}
  /\ UNCHANGED <<works, grants, evidence, answers, joints, doing>>

\* _verify_accepted_joint_receipt: the event that makes the revision joint has
\* the receipt's key and revision, and leaves the content as it is.
Attested(a) == a.rev = Len(works) /\ a.content = Present.content

\* The attest_joint event of the store.
MakeJoint(a) ==
  /\ a \in delivered /\ Attested(a)
  /\ Len(works) < MaxRevision
  /\ works' = Append(works, [content |-> a.content, joint |-> a.id])
  /\ UNCHANGED <<grants, evidence, answers, joints, delivered, doing>>

(***************************************************************************)
(* What a command and a candidate may say                                  *)
(***************************************************************************)

\* validate_semantic_candidate: revision zero is that of an item to create.
CandidateShape(x) == x.created <=> x.rev > 0

\* validate_astel_explicit_command: `patch` says that there is something to
\* revise; a lifecycle command rewrites nothing.
CommandShape(c) ==
  CASE c.kind = "create" ->
         c.rev = 0 /\ c.content # Absent /\ ~c.patch /\ c.reason = Absent /\ c.successor = Absent
    [] c.kind = "revise" ->
         c.rev > 0 /\ c.content = Absent /\ c.patch /\ c.reason = Absent /\ c.successor = Absent
    [] OTHER ->
         /\ c.rev > 0 /\ c.content = Absent /\ ~c.patch
         /\ c.reason # Absent <=> c.kind \in {"resolve", "abandon"}
         /\ c.successor # Absent <=> c.kind = "supersede"

\* What is confirmed by a review names its capability; what is done directly
\* has none.
ModeShape(s) == s.mode = "direct" <=> s.grant = Absent

\* canonical_astel_semantic_command: what the command's digest covers.
Semantic(c) == [kind |-> c.kind, rev |-> c.rev, content |-> c.content, patch |-> c.patch,
                reason |-> c.reason, successor |-> c.successor]

\* _validate_astel_candidate: the content to create, or the item as it is just
\* before the command, also when the command is to change it.
Describes(x, c) ==
  /\ CandidateShape(x)
  /\ IF c.kind = "create"
       THEN x = [created |-> FALSE, rev |-> 0, content |-> c.content]
       ELSE x.rev = c.rev /\ x = Present

\* _evidence_record: whose it is, the event it came from, and what it describes.
Record(participant, s, origin, key, grant) ==
  [participant |-> participant, event |-> s.event, origin |-> origin,
   created |-> s.candidate.created, rev |-> s.candidate.rev, content |-> s.candidate.content,
   key |-> key, grant |-> grant]

(***************************************************************************)
(* Confirmation capabilities                                               *)
(***************************************************************************)

\* validate_astel_confirmation_capability: what is granted is itself a command,
\* and it expires after it was issued.
GrantShape(g) == CommandShape(g.command) /\ g.issued < g.expires

\* issue_confirmation_capability: what has been issued once stays as it is.
Issue(g) ==
  /\ GrantShape(Granted[g]) /\ grants[g] = Absent
  /\ grants' = [grants EXCEPT ![g] = [state |-> "issued", replays |-> 0]]
  /\ UNCHANGED <<works, evidence, answers, joints, delivered, doing>>

\* validate_astel_reviewed_command_against_capability, and the time that the
\* source gives itself.
Bound(s, g) ==
  /\ Semantic(s.command) = Semantic(Granted[g].command)
  /\ s.turn = Granted[g].turn
  /\ s.time \in Granted[g].issued .. Granted[g].expires

(***************************************************************************)
(* Sources                                                                 *)
(***************************************************************************)

\* A source and its command name the same turn and room.
Authentic(s, mode) ==
  /\ s.mode = mode /\ ModeShape(s) /\ CommandShape(s.command)
  /\ s.command.turn = s.turn

\* accept_astel_direct, until it looks for a receipt.
AstelDirect(h, s) ==
  /\ doing[h] = Resting
  /\ Authentic(s, "direct")
  /\ Describes(s.candidate, s.command)
  /\ Becomes(h, [at |-> "evident",
                 record |-> Record("astel", s, "authenticated_structured_action", s.key, Absent)])
  /\ UNCHANGED files

\* accept_astel_reviewed: a capability that is no longer issued is a replay,
\* which is counted and refused before anything else is looked at.
AstelReviewed(h, s) ==
  /\ doing[h] = Resting
  /\ s.mode = "reviewed" /\ s.grant # Absent /\ grants[s.grant] # Absent
  /\ IF grants[s.grant].state # "issued"
       THEN /\ grants[s.grant].replays < MaxReplays
            /\ Becomes(h, [at |-> "replayed", grant |-> s.grant,
                           count |-> grants[s.grant].replays + 1])
       ELSE /\ Authentic(s, "reviewed") /\ Bound(s, s.grant)
            /\ Becomes(h, [at |-> "bound", source |-> s])
  /\ UNCHANGED files

\* The count of replays is written as it was read.
CountReplay(h) ==
  /\ doing[h].at = "replayed"
  /\ grants' = [grants EXCEPT ![doing[h].grant].replays = doing[h].count]
  /\ Rests(h)
  /\ UNCHANGED <<works, evidence, answers, joints, delivered>>

\* The reviewed command is of the item as it is now.
Review(h) ==
  /\ doing[h].at = "bound"
  /\ LET s == doing[h].source IN
       IF Describes(s.candidate, s.command)
         THEN Becomes(h, [at |-> "evident",
                          record |-> Record("astel", s, "authenticated_reviewed_confirmation",
                                            s.key, s.grant)])
         ELSE Rests(h)
  /\ UNCHANGED files

\* An operation of an applied bundle, with the receipts of its application.
AppliedSource(s) == s.outbox = "applied" /\ CandidateShape(s.candidate)

\* accept_solen_applied: the candidate is taken as the outbox gives it, and is
\* not compared with the item.
SolenApplied(h, s) ==
  /\ doing[h] = Resting
  /\ AppliedSource(s)
  /\ Becomes(h, [at |-> "evident",
                 record |-> Record("solen", s, "applied_solen_outbox",
                                   <<s.bundle, s.candidate.content>>, Absent)])
  /\ UNCHANGED files

Answered(key) == key \in DOMAIN answers

\* _put_source_and_evidence: a command that has a receipt is answered with it,
\* or refused when the receipt is of another command.
LookForAnswer(h) ==
  /\ doing[h].at = "evident"
  /\ IF Answered(doing[h].record.key) THEN Rests(h)
                                      ELSE Becomes(h, [doing[h] EXCEPT !.at = "storing"])
  /\ UNCHANGED files

\* Fault: the capability is marked without looking at what it is marked as.
SeededUsable(g) == TRUE

\* Its row is still in state issued.
Usable(g) == g = Absent \/ grants[g].state = "issued"

\* The transaction: the capability, the source event, the evidence, the receipt.
\* Whatever is already there takes the rest with it.
StoreEvidence(h) ==
  LET x == doing[h].record IN
  /\ doing[h].at = "storing"
  /\ IF Usable(x.grant) /\ ~Answered(x.key) /\ (\A y \in evidence : y.event # x.event)
       THEN /\ evidence' = evidence \cup {x}
            /\ answers' = [k \in DOMAIN answers \cup {x.key} |->
                             IF k = x.key THEN x.event ELSE answers[k]]
            /\ grants' = [g \in Grants |->
                            IF g = x.grant THEN [grants[g] EXCEPT !.state = "consumed"] ELSE grants[g]]
       ELSE UNCHANGED <<evidence, answers, grants>>
  /\ Rests(h)
  /\ UNCHANGED <<works, joints, delivered>>

(***************************************************************************)
(* Joint attestations                                                      *)
(***************************************************************************)

\* validate_joint_attestation: two independent records of one digest.
AttestationShape(a) == a.rev > 0 /\ a.astel # a.solen

\* Fault: a record is for any revision that has its content.
SeededFor(x, a) == x.content = a.content /\ x.created

\* The record is evidence of just this revision of the item.
For(x, a) == x.content = a.content /\ x.created /\ x.rev = a.rev

BothSpoke(a) ==
  /\ \E x \in evidence : x.event = a.astel /\ x.participant = "astel" /\ For(x, a)
  /\ \E x \in evidence : x.event = a.solen /\ x.participant = "solen" /\ For(x, a)

\* attest_joint, as far as it reads: both records, and the item as it is now.
Attest(h, a) ==
  /\ doing[h] = Resting
  /\ AttestationShape(a)
  /\ \A b \in joints : b.key # a.key
  /\ BothSpoke(a)
  /\ Attested(a)
  /\ Becomes(h, [at |-> "attesting", act |-> a])
  /\ UNCHANGED files

\* joint_act_sha: what is attested, by which evidence.
Act(a) == [rev |-> a.rev, content |-> a.content, astel |-> a.astel, solen |-> a.solen]

\* The attestation and its accepted receipt.  One act is attested once.
Accept(h) ==
  LET a == doing[h].act IN
  /\ doing[h].at = "attesting"
  /\ joints' = IF \A b \in joints : b.id # a.id /\ b.key # a.key /\ Act(b) # Act(a)
                 THEN joints \cup {a} ELSE joints
  /\ Rests(h)
  /\ UNCHANGED <<works, grants, evidence, answers, delivered>>

\* The process ends in the middle of a call.
Lost(h) == doing[h] # Resting /\ Rests(h) /\ UNCHANGED files

\* One step of a process that is given these sources and attestations.
EvidenceStep(h, astel, solen, attestations) ==
  \/ \E s \in astel : AstelDirect(h, s) \/ AstelReviewed(h, s)
  \/ CountReplay(h) \/ Review(h)
  \/ \E s \in solen : SolenApplied(h, s)
  \/ LookForAnswer(h) \/ StoreEvidence(h)
  \/ \E a \in attestations : Attest(h, a)
  \/ Accept(h) \/ Lost(h)

EvidenceEvents ==
  \/ \E content \in Contents : Author(content)
  \/ \E a \in Attestations : Deliver(a) \/ MakeJoint(a)
  \/ \E g \in Grants : Issue(g)

EvidenceNext ==
  \/ EvidenceEvents
  \/ \E h \in Speakers : EvidenceStep(h, AstelSources, SolenSources, Attestations)

EvidenceSpec == EvidenceInit /\ [][EvidenceNext]_evidenceVars

(***************************************************************************)
(* Properties                                                              *)
(***************************************************************************)

\* A confirmation capability is used up by exactly one piece of evidence, and
\* not without it, whatever races and ends in the middle (the compare-and-set
\* of _put_source_and_evidence, in one transaction with what it pays for).
ConfirmedOnce ==
  \A g \in Grants :
    LET By == {x \in evidence : x.grant = g} IN
    IF grants[g] # Absent /\ grants[g].state = "consumed" THEN Cardinality(By) = 1 ELSE By = {}

\* A revision that the working set calls joint repeats the one before it, and
\* each participant is on record, by an event of its own, for that very
\* revision and content.  The records, the attestation, its delivery and the
\* item are read at four moments out of two files (attest_joint,
\* put_accepted_joint_receipt, _verify_accepted_joint_receipt).  It rests on
\* Deliver's assumption: a receipt made up elsewhere would be accepted too.
JointIsOfBoth ==
  \A n \in DOMAIN works :
    works[n].joint # Absent =>
      /\ n > 1 /\ works[n].content = works[n - 1].content
      /\ \E x, y \in evidence :
           /\ x.participant = "astel" /\ y.participant = "solen" /\ x.event # y.event
           /\ \A z \in {x, y} : z.created /\ z.rev = n - 1 /\ z.content = works[n].content
================================================================================
