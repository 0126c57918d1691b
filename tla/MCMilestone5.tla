---------------------------- MODULE MCMilestone5 ----------------------------
(* Small worlds of the Milestone 5 candidate: clients of the context store  *)
(* by themselves, session syncs by themselves, a request built while a sync *)
(* runs, and two threads that build and dispatch one turn's request.        *)
EXTENDS OperationArtifact, TLC

CONSTANTS Worlds,       \* the instances of this run
          Elder1, Elder2,   \* two turns the room already knows
          MaxDirect     \* bound: attempts of the "direct" world; the last one is
                        \* a compaction of the room as it is

VARIABLE world

vars == <<zoneVars, syncVars, buildVars, world>>

Derived(paragraphs) == [exactness |-> "derived", paragraphs |-> paragraphs]

Exact(paragraphs) == [exactness |-> "exact", paragraphs |-> paragraphs]

Mixed(paragraphs) == [exactness |-> "mixed", paragraphs |-> paragraphs]

(* Recalled texts that also stand in the sources and in the recent turns.   *)
Overlapping ==
    [intent |-> TRUE, contradicted |-> FALSE,
     sections |-> [id \in {"memory_g", "vault_recall", "recent_turns", "sources"} |->
        CASE id = "memory_g" -> Derived(<<"a", "b">>)
          [] id = "vault_recall" -> Mixed(<<"b", "c", "d">>)
          [] id = "recent_turns" -> Exact(<<"e">>)
          [] id = "sources" -> Mixed(<<"e", "a", "f">>)]]

(* A memory the working set contradicts. *)
Contradicted ==
    [intent |-> FALSE, contradicted |-> TRUE,
     sections |-> [id \in {"memory_g", "sources", "vault_recall"} |->
        CASE id = "memory_g" -> Derived(<<"a">>)
          [] id = "sources" -> Mixed(<<"c", "d", "f", "g", "h">>)
          [] id = "vault_recall" -> Mixed(<<"v">>)]]

(* An exact recall that repeats a part of the exact recent turns. *)
Partial ==
    [intent |-> FALSE, contradicted |-> FALSE,
     sections |-> [id \in {"exact_recall", "recent_turns"} |->
        IF id = "exact_recall" THEN Exact(<<"a">>) ELSE Exact(<<"a", "b">>)]]

Scenarios == {Overlapping, Contradicted, Partial}

(* The units the clients of the context store write. *)
Newcomers == Units \ {Elder1}

DirectNext ==
    LET n == Cardinality(DOMAIN receipts) + 1
        attempt == <<"direct", n>> IN
    \/ \E known \in DOMAIN receipts : Replayed(known, receipts[known].request)
    \/ \E r \in 0..Revision :
          /\ n <= MaxDirect
          /\ n = MaxDirect => r = Revision
          /\ \/ /\ n < MaxDirect
                /\ \E units \in {<<u>> : u \in Newcomers} \cup {<<u, v>> : u, v \in Newcomers} :
                      LET request == AppendRequest(Seen(r), Len(At(r).units), units) IN
                      /\ Cardinality(Range(units)) = Len(units)
                      /\ AppendHotUnits(attempt, request) \/ FailClosed(attempt, request)
             \/ LET Hot == InZone(At(r), "hot")
                    Warm == EpisodesIn(At(r), "warm") IN
                \E first \in DOMAIN Hot, last \in DOMAIN Hot, c \in 0..Len(Warm), d \in 0..Len(Warm) :
                   LET episode == [members |-> [i \in 1..(last + 1 - first) |->
                                                  Hot[first + i - 1].unit],
                                   basis |-> Projection]
                       request == CompactRequest(Seen(r), episode,
                                                 [i \in 1..(d - c) |-> Warm[c + i].id]) IN
                   /\ first <= last /\ c <= d
                   /\ Compact(attempt, request) \/ FailClosed(attempt, request)

(* One session sync at a time. *)
OneSync ==
    \/ \E h \in Handlers : (\A g \in Handlers \ {h} : sync[g].step = "idle") /\ HandlerNext(h)
    \/ UpkeepNext

(* One builder, one offer, one clock reading, and nothing after the build. *)
OneBuild ==
    /\ \A t \in Turns : held'[t] # "operation"
    /\ \A b \in Builders : build'[b].offer \in {None, Overlapping} /\ build'[b].now \in {None, 1}
    /\ \A b, c \in Builders : b # c => "idle" \in {build'[b].step, build'[c].step}

Symmetry == Permutations(Units \ {Elder1, Elder2}) \cup Permutations(Handlers) \cup Permutations(Builders)

(* A room after two turns: the state one handler leaves that syncs them one *)
(* after the other.                                                         *)
TwoTurns(a, b, rest) ==
    LET Basis(n) == [writes |-> n, upkeep |-> 0, disowned |-> {}]
        Episode1 == [members |-> <<a>>, basis |-> Basis(2)]
        Committed(request, r) == [request |-> request, state |-> "committed", result |-> r]
        First == Appended(EmptyContext, <<a>>)
        Second == Appended(First, <<b>>)
        Done(f(_)) == [o \in {a, b} |-> f(o)] IN
    /\ snapshots = <<First, Second, Compacted(Second, Episode1, <<>>)>>
    /\ receipts = [x \in {<<"append", a>>, <<"append", b>>, <<"compact", Episode1>>} |->
          CASE x = <<"append", a>> -> Committed(AppendRequest(Seen(0), 0, <<a>>), 1)
            [] x = <<"append", b>> -> Committed(AppendRequest(Seen(1), 1, <<b>>), 2)
            [] OTHER -> Committed(CompactRequest(Seen(2), Episode1, <<>>), 3)]
    /\ working = [writes |-> 2, due |-> FALSE, upkeep |-> 0]
    /\ bundles = [o \in Units |-> IF o \in {a, b} THEN "applied" ELSE "prepared_waiting_visible"]
    /\ awaiting = rest /\ recorded = {a, b}
    /\ disowned = {} /\ journalLock = None /\ crashes = 0
    /\ applications = Done(LAMBDA o : [outcome |-> "applied",
                                      projection |-> Basis(IF o = a THEN 1 ELSE 2)])
    /\ ingested = Done(LAMBDA o : [request |-> Basis(IF o = a THEN 1 ELSE 2),
                                  successor |-> IF o = a THEN 1 ELSE 3])
    /\ sync = [h \in Handlers |-> IdleHandler]

MCInit ==
    /\ world \in Worlds
    /\ \/ world = "direct" /\ ZonesInit /\ SyncInit
       \/ world = "sync" /\ TwoTurns(Elder1, Elder2, Units \ {Elder1, Elder2})
       \/ /\ world = "reading"
          /\ \E u \in Units \ {Elder1, Elder2} : TwoTurns(Elder1, Elder2, {u})
       \/ world = "racing" /\ TwoTurns(Elder1, Elder2, {})
    /\ BuildInit

(* Bound: a stop or the expiry of an item, not both. *)
OneDisturbance == crashes' = 0 \/ (working'.upkeep = 0 /\ ~working'.due)

(* Every turn is over: nothing more has to happen. *)
AllOver == awaiting = {} /\ (\A h \in Handlers : sync[h].step = "idle") /\ UNCHANGED vars

MCNext ==
    /\ UNCHANGED world
    /\ \/ world = "direct" /\ DirectNext /\ UNCHANGED <<syncVars, buildVars>>
       \/ world = "sync" /\ SyncNext /\ UNCHANGED buildVars
       \/ world = "reading" /\ OneSync /\ UNCHANGED buildVars
       \/ world = "reading" /\ BuildNext /\ OneBuild
       \/ world = "racing" /\ BuildNext
       \/ AllOver
    /\ OneDisturbance

MCSpec == MCInit /\ [][MCNext]_vars
=============================================================================
