---------------------------- MODULE ContextZones ----------------------------
(***************************************************************************)
(* The Milestone 3 context store of one room                               *)
(* (house_continuity_v1_2_milestone3_context_local.py).  Every complete    *)
(* turn is kept; what changes is its zone: hot, then warm as a member of   *)
(* an episode, then cold.  A write names the revision and the snapshot it  *)
(* was computed from and the attempt it belongs to; the attempt's receipt  *)
(* is stored in the same transaction.                                      *)
(*                                                                         *)
(* A snapshot hash is modelled by the context it hashes.  The scope of a   *)
(* turn is left out: a room's binding cannot change through this program   *)
(* (the outbox's binding operations fail), so every turn has one scope.    *)
(***************************************************************************)
EXTENDS Naturals, FiniteSets, Sequences

CONSTANTS Units,        \* complete turns of the room
          None

ASSUME UnitsAssumption == None \notin Units /\ IsFiniteSet(Units)

VARIABLES snapshots,    \* the room's committed contexts, by revision
          receipts      \* attempt -> [request, state, result]

zoneVars == <<snapshots, receipts>>

Zones == {"hot", "warm", "cold"}

(* A room no unit has reached has no row, no unit and no episode. *)
EmptyContext == [units |-> <<>>, episodes |-> <<>>]

Revision == Len(snapshots)

At(revision) == IF revision = 0 THEN EmptyContext ELSE snapshots[revision]

Context == At(Revision)

(* What a caller saw and writes against. *)
Seen(revision) == [revision |-> revision, snapshot |-> At(revision)]

UnitsOf(context) == {context.units[i].unit : i \in DOMAIN context.units}

Positions(rows, zone) == {i \in DOMAIN rows : rows[i].zone = zone}

(* The n-th smallest position. *)
Nth(S, n) == CHOOSE i \in S : Cardinality({j \in S : j <= i}) = n

(* The rows of one zone, in their order: what SelectSeq would select, in a  *)
(* form the provers can unfold.                                             *)
RowsIn(rows, zone) ==
    LET S == Positions(rows, zone) IN [n \in 1..Cardinality(S) |-> rows[Nth(S, n)]]

InZone(context, zone) == RowsIn(context.units, zone)

EpisodesIn(context, zone) == RowsIn(context.episodes, zone)

NoReceipts == [attempt \in {} |-> None]

ZonesInit == snapshots = <<>> /\ receipts = NoReceipts

(* _existing_receipt: an attempt is answered once, and only for one request. *)
Replays(attempt, request) ==
    attempt \in DOMAIN receipts /\ receipts[attempt].request = request

Collides(attempt, request) ==
    attempt \in DOMAIN receipts /\ receipts[attempt].request # request

Fresh(attempt) == attempt \notin DOMAIN receipts

WriteReceipt(attempt, request, state, result) ==
    receipts' = [a \in DOMAIN receipts \cup {attempt} |->
                   IF a = attempt
                   THEN [request |-> request, state |-> state, result |-> result]
                   ELSE receipts[a]]

(* Fault: only the revision is compared, and not exactly. *)
SeededCurrent(request) == request.expected.revision <= Revision

(* The write was computed from the room as it is. *)
Current(request) == request.expected = Seen(Revision)

(* A write against an older room is recorded as refused, for good. *)
FailClosed(attempt, request) ==
    /\ Fresh(attempt) /\ ~Current(request)
    /\ WriteReceipt(attempt, request, "conflict_failed_closed", None)
    /\ UNCHANGED snapshots

AppendRequest(expected, first, units) ==
    [operation |-> "append_hot", expected |-> expected, first |-> first, units |-> units]

(* The sequence goes on without a gap and no unit is known yet. *)
AppendValid(request) ==
    /\ request.first = Len(Context.units)
    /\ \A i \in DOMAIN request.units : request.units[i] \notin UnitsOf(Context)

Appended(context, units) ==
    [context EXCEPT !.units = @ \o
        [i \in DOMAIN units |-> [unit |-> units[i], zone |-> "hot", episode |-> None]]]

AppendHotUnits(attempt, request) ==
    /\ Fresh(attempt) /\ Current(request) /\ AppendValid(request)
    /\ snapshots' = Append(snapshots, Appended(Context, request.units))
    /\ WriteReceipt(attempt, request, "committed", Revision + 1)

CompactRequest(expected, episode, cold) ==
    [operation |-> "compact", expected |-> expected, episode |-> episode, cold |-> cold]

(* The names of the oldest k hot units. *)
OldestHot(context, k) == [i \in 1..k |-> InZone(context, "hot")[i].unit]

(* Fault: any run of hot units may be compacted. *)
SeededCompactValid(request) ==
    /\ \A i \in DOMAIN request.episode.members :
          \E u \in DOMAIN Context.units :
             Context.units[u].unit = request.episode.members[i] /\ Context.units[u].zone = "hot"
    /\ \A i \in DOMAIN request.cold :
          \E e \in DOMAIN Context.episodes : Context.episodes[e].id = request.cold[i]

(* The episode takes the oldest hot units, and only warm episodes turn cold. *)
CompactValid(request) ==
    LET k == Len(request.episode.members) IN
    /\ k > 0 /\ k <= Len(InZone(Context, "hot"))
    /\ request.episode.members = OldestHot(Context, k)
    /\ \A i \in DOMAIN request.cold :
          \E e \in DOMAIN Context.episodes :
             Context.episodes[e].id = request.cold[i] /\ Context.episodes[e].zone = "warm"

Compacted(context, episode, cold) ==
    LET Members == {episode.members[i] : i \in DOMAIN episode.members}
        Cold == {cold[i] : i \in DOMAIN cold}
        MoveUnit(u) == IF u.unit \in Members
                       THEN [u EXCEPT !.zone = "warm", !.episode = episode]
                       ELSE IF u.episode \in Cold THEN [u EXCEPT !.zone = "cold"] ELSE u
        MoveEpisode(e) == IF e.id \in Cold THEN [e EXCEPT !.zone = "cold"] ELSE e
    IN [units |-> [i \in DOMAIN context.units |-> MoveUnit(context.units[i])],
        episodes |-> Append([i \in DOMAIN context.episodes |-> MoveEpisode(context.episodes[i])],
                            [id |-> episode, zone |-> "warm"])]

Compact(attempt, request) ==
    /\ Fresh(attempt) /\ Current(request) /\ CompactValid(request)
    /\ snapshots' = Append(snapshots, Compacted(Context, request.episode, request.cold))
    /\ WriteReceipt(attempt, request, "committed", Revision + 1)

(* A repeated attempt is answered from its receipt. *)
Replayed(attempt, request) == Replays(attempt, request) /\ UNCHANGED zoneVars

(* A receipt that changes no zone: a cold retrieval or a selection. *)
AuxiliaryReceipt(attempt, request, state, result) ==
    /\ \/ Fresh(attempt) /\ WriteReceipt(attempt, request, state, result)
       \/ Replays(attempt, request) /\ UNCHANGED receipts
    /\ UNCHANGED snapshots

-----------------------------------------------------------------------------
(* Every revision was written by exactly one attempt, whose receipt says so *)
(* and whose request was computed from the revision before it: replaying an *)
(* attempt has no second effect, and no write lands on a room its author    *)
(* had not seen.                                                            *)
RevisionsHaveReceipts ==
    /\ \A r \in 1..Revision :
          Cardinality({a \in DOMAIN receipts :
             receipts[a].state = "committed" /\ receipts[a].result = r}) = 1
    /\ \A a \in DOMAIN receipts :
          receipts[a].state = "committed" =>
             /\ receipts[a].result \in 1..Revision
             /\ receipts[a].request.expected = Seen(receipts[a].result - 1)

Aged == [i \in DOMAIN Context.units |->
           [turn |-> Context.units[i].unit, place |-> Context.units[i].zone]]

Rolling == INSTANCE RollingContext WITH Turns <- Units, turns <- Aged
=============================================================================
