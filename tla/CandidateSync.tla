--------------------------- MODULE CandidateSync ----------------------------
(***************************************************************************)
(* What a completed turn does to the Milestone 5 candidate: its prepared   *)
(* bundle is applied to the working set (Milestone 2) and its complete     *)
(* unit is ingested into the rolling context (Milestone 3), each step      *)
(* recorded in a journal of its own, in five databases.  A handler may     *)
(* fail or stop anywhere; a failed operation is disowned.                  *)
(*                                                                         *)
(* One unit per operation.  What the working set holds is abstracted to    *)
(* how often it was written and which operations it disowned: that is what *)
(* the hash of its projection tells apart.                                 *)
(***************************************************************************)
EXTENDS ContextZones

CONSTANTS Handlers,     \* session syncs in flight
          HotMax,       \* HOT_MAX_UNITS
          Batch,        \* HOT_COMPACTION_BATCH
          WarmMax,      \* WARM_MAX_EPISODES
          MaxCrashes,   \* bound: handlers that stop without cleaning up
          MaxUpkeep     \* bound: working-set changes by others

ASSUME PolicyAssumption ==
    /\ HotMax \in Nat /\ Batch \in Nat \ {0} /\ WarmMax \in Nat
    /\ Batch <= HotMax + 1

(* No value stands for a handler, or for the name of an episode. *)
ASSUME NoneAssumption ==
    /\ None \notin Handlers
    /\ None \notin [members : Seq(Units),
                   basis : [writes : Nat, upkeep : Nat, disowned : SUBSET Units]]

VARIABLES working,      \* the working set: [writes, due, upkeep]
          bundles,      \* operation -> state of its outbox bundle
          disowned,     \* operations recorded as non-authoritative
          applications, \* Milestone 2 journal: operation -> receipt
          ingested,     \* Milestone 3 journal: operation -> [request, hot, successor]
          journalLock,  \* handler inside BEGIN IMMEDIATE of that journal, or None
          awaiting,     \* operations whose turn still waits for its unit
          recorded,     \* operations whose complete unit the attempt records
          sync,         \* handler -> what it holds
          crashes

turnVars == <<awaiting, recorded>>

syncVars == <<working, bundles, disowned, applications, ingested, journalLock, turnVars, sync, crashes>>

BundleStates == {"prepared_waiting_visible", "ready_to_apply", "applying", "applied", "conflict_recorded"}

IdleHandler == [step |-> "idle", operation |-> None, outcome |-> None,
                projection |-> None, expected |-> None, episode |-> None]

Empty == [o \in {} |-> None]

SyncInit ==
    /\ working = [writes |-> 0, due |-> FALSE, upkeep |-> 0]
    /\ bundles = [o \in Units |-> "prepared_waiting_visible"]
    /\ awaiting = Units /\ recorded = {}
    /\ disowned = {} /\ applications = Empty /\ ingested = Empty
    /\ journalLock = None
    /\ sync = [h \in Handlers |-> IdleHandler]
    /\ crashes = 0

(* read_authoritative_projection refuses while an item's expiry is due. *)
Readable == ~working.due

Projection == [writes |-> working.writes, upkeep |-> working.upkeep, disowned |-> disowned]

Operation(h) == sync[h].operation

Doing(h, step) == sync[h].step = step

Step(h, record) == sync' = [sync EXCEPT ![h] = record]

Go(h, step) == Step(h, [sync[h] EXCEPT !.step = step])

(* Two syncs of one turn may both find it awaiting its unit. *)
BeginSync(h, o) ==
    /\ Doing(h, "idle") /\ o \in awaiting
    /\ Step(h, [IdleHandler EXCEPT !.step = "bind", !.operation = o])
    /\ UNCHANGED <<zoneVars, working, bundles, disowned, applications, ingested, journalLock, turnVars, crashes>>

(* The unit is bound to the bundle, and the turn awaits it no more: a sync   *)
(* that stops after this is not taken up again.                              *)
BindUnit(h) ==
    /\ Doing(h, "bind")
    /\ bundles' = [bundles EXCEPT ![Operation(h)] =
                      IF @ = "prepared_waiting_visible" THEN "ready_to_apply" ELSE @]
    /\ awaiting' = awaiting \ {Operation(h)}
    /\ Go(h, "apply")
    /\ UNCHANGED <<zoneVars, working, disowned, applications, ingested, journalLock, recorded, crashes>>

-----------------------------------------------------------------------------
(* apply_bound_bundle.                                                      *)

Applied(h) == applications[Operation(h)]

(* The journal answers; a recorded rejection fails the sync again. *)
ApplyReplayed(h) ==
    /\ Doing(h, "apply") /\ Operation(h) \in DOMAIN applications
    /\ Go(h, IF Applied(h).outcome = "rejected_fail_closed" THEN "failed" ELSE "ingest")
    /\ UNCHANGED <<zoneVars, working, bundles, disowned, applications, ingested, journalLock, turnVars, crashes>>

(* A bundle another handler left in applying is refused, for ever. *)
ApplyRefused(h) ==
    /\ Doing(h, "apply") /\ Operation(h) \notin DOMAIN applications
    /\ bundles[Operation(h)] = "applying"
    /\ Go(h, "failed")
    /\ UNCHANGED <<zoneVars, working, bundles, disowned, applications, ingested, journalLock, turnVars, crashes>>

(* A bundle that is already terminal is only reported. *)
ApplyReported(h) ==
    /\ Doing(h, "apply") /\ Operation(h) \notin DOMAIN applications
    /\ \E outcome \in {"rejected_fail_closed", "idempotent_replay"} :
          /\ bundles[Operation(h)] = IF outcome = "idempotent_replay"
                                     THEN "applied" ELSE "conflict_recorded"
          /\ Step(h, [sync[h] EXCEPT !.step = "project", !.outcome = outcome])
    /\ UNCHANGED <<zoneVars, working, bundles, disowned, applications, ingested, journalLock, turnVars, crashes>>

AcquireLease(h) ==
    /\ Doing(h, "apply") /\ Operation(h) \notin DOMAIN applications
    /\ bundles[Operation(h)] = "ready_to_apply"
    /\ bundles' = [bundles EXCEPT ![Operation(h)] = "applying"]
    /\ Go(h, "leased")
    /\ UNCHANGED <<zoneVars, working, disowned, applications, ingested, journalLock, turnVars, crashes>>

(* The bundle's operations are committed to the working set, or conflict. *)
ApplyBundle(h) ==
    /\ Doing(h, "leased")
    /\ \/ /\ bundles' = [bundles EXCEPT ![Operation(h)] = "applied"]
          /\ working' = [working EXCEPT !.writes = @ + 1]
          /\ Step(h, [sync[h] EXCEPT !.step = "project", !.outcome = "applied"])
       \/ /\ bundles' = [bundles EXCEPT ![Operation(h)] = "conflict_recorded"]
          /\ Step(h, [sync[h] EXCEPT !.step = "project", !.outcome = "rejected_fail_closed"])
          /\ UNCHANGED working
    /\ UNCHANGED <<zoneVars, disowned, applications, ingested, journalLock, turnVars, crashes>>

(* The projection is read after the application is committed: an item that  *)
(* has just come due fails an operation whose bundle stays applied.         *)
ProjectApplied(h) ==
    /\ Doing(h, "project")
    /\ IF Readable
       THEN Step(h, [sync[h] EXCEPT !.step = "record", !.projection = Projection])
       ELSE Go(h, "failed")
    /\ UNCHANGED <<zoneVars, working, bundles, disowned, applications, ingested, journalLock, turnVars, crashes>>

ApplicationReceipt(h) == [outcome |-> sync[h].outcome, projection |-> sync[h].projection]

(* Inserted once; another handler's receipt must be the very same. *)
RecordApplication(h) ==
    /\ Doing(h, "record")
    /\ LET o == Operation(h)
           Receipt == ApplicationReceipt(h)
           Rejected == sync[h].outcome = "rejected_fail_closed" IN
       IF o \in DOMAIN applications
       THEN /\ Go(h, IF applications[o] = Receipt /\ ~Rejected THEN "ingest" ELSE "failed")
            /\ UNCHANGED applications
       ELSE /\ applications' = [x \in DOMAIN applications \cup {o} |->
                                  IF x = o THEN Receipt ELSE applications[x]]
            /\ Go(h, IF Rejected THEN "failed" ELSE "ingest")
    /\ UNCHANGED <<zoneVars, working, bundles, disowned, ingested, journalLock, turnVars, crashes>>

-----------------------------------------------------------------------------
(* ingest_complete_unit.                                                    *)

ReadForIngestion(h) ==
    /\ Doing(h, "ingest")
    /\ IF Readable
       THEN Step(h, [sync[h] EXCEPT !.step = "journal", !.projection = Projection])
       ELSE Go(h, "failed")
    /\ UNCHANGED <<zoneVars, working, bundles, disowned, applications, ingested, journalLock, turnVars, crashes>>

(* The request names the projection, so a repeat after the working set has  *)
(* moved is a conflict and not a replay.                                    *)
IngestionReplayed(h) ==
    /\ Doing(h, "journal") /\ journalLock = None
    /\ Operation(h) \in DOMAIN ingested
    /\ Go(h, IF ingested[Operation(h)].request = sync[h].projection THEN "done" ELSE "failed")
    /\ UNCHANGED <<zoneVars, working, bundles, disowned, applications, ingested, journalLock, turnVars, crashes>>

(* The journal's write lock is held over the writes to the context store.   *)
LockJournal(h) ==
    /\ Doing(h, "journal") /\ journalLock = None
    /\ Operation(h) \notin DOMAIN ingested
    /\ journalLock' = h
    /\ Step(h, [sync[h] EXCEPT !.expected = Seen(Revision),
                               !.step = IF Operation(h) \in UnitsOf(Context)
                                        THEN "grown" ELSE "append"])
    /\ UNCHANGED <<zoneVars, working, bundles, disowned, applications, ingested, turnVars, crashes>>

(* SQLite gives up waiting for the lock. *)
JournalBusy(h) ==
    /\ Doing(h, "journal") /\ journalLock # None
    /\ Go(h, "failed")
    /\ UNCHANGED <<zoneVars, working, bundles, disowned, applications, ingested, journalLock, turnVars, crashes>>

AppendUnit(h) ==
    /\ Doing(h, "append")
    /\ AppendHotUnits(<<"append", Operation(h)>>,
                      AppendRequest(sync[h].expected, Len(sync[h].expected.snapshot.units), <<Operation(h)>>))
    /\ Go(h, "grown")
    /\ UNCHANGED <<working, bundles, disowned, applications, ingested, journalLock, turnVars, crashes>>

(* Fault: the policy lets one more unit stay hot. *)
SeededTooHot(context) == Len(InZone(context, "hot")) > HotMax + 1

TooHot(context) == Len(InZone(context, "hot")) > HotMax

(* The episode is named by its members and by the working set at its birth. *)
Episode(context) == [members |-> OldestHot(context, Batch), basis |-> Projection]

PlanCompaction(h) ==
    /\ Doing(h, "grown")
    /\ IF ~TooHot(Context)
       THEN Step(h, [sync[h] EXCEPT !.step = "finish", !.expected = Seen(Revision)])
       ELSE IF Readable
       THEN Step(h, [sync[h] EXCEPT !.step = "compact", !.expected = Seen(Revision),
                                    !.episode = Episode(Context)])
       ELSE Go(h, "failed")
    /\ journalLock' = IF TooHot(Context) /\ ~Readable THEN None ELSE journalLock
    /\ UNCHANGED <<zoneVars, working, bundles, disowned, applications, ingested, turnVars, crashes>>

(* The oldest warm episodes, as many as the new one drives out. *)
ColdEpisodes(context) ==
    LET Warm == EpisodesIn(context, "warm")
        k == IF Len(Warm) + 1 > WarmMax THEN Len(Warm) + 1 - WarmMax ELSE 0
    IN [i \in 1..(IF k > Len(Warm) THEN Len(Warm) ELSE k) |-> Warm[i].id]

CompactRoom(h) ==
    /\ Doing(h, "compact")
    /\ Compact(<<"compact", sync[h].episode>>,
               CompactRequest(sync[h].expected, sync[h].episode,
                              ColdEpisodes(sync[h].expected.snapshot)))
    /\ Go(h, "finish")
    /\ UNCHANGED <<working, bundles, disowned, applications, ingested, journalLock, turnVars, crashes>>

FinishIngestion(h) ==
    /\ Doing(h, "finish")
    /\ ingested' = [o \in DOMAIN ingested \cup {Operation(h)} |->
                      IF o = Operation(h)
                      THEN [request |-> sync[h].projection, successor |-> Revision]
                      ELSE ingested[o]]
    /\ journalLock' = None
    /\ Go(h, "done")
    /\ UNCHANGED <<zoneVars, working, bundles, disowned, applications, turnVars, crashes>>

-----------------------------------------------------------------------------
(* The handler's end.                                                       *)

(* record_complete_unit: the attempt takes its unit once; the second of two  *)
(* syncs of a turn fails here, after all its work was a replay.              *)
EndSync(h) ==
    /\ Doing(h, "done")
    /\ IF Operation(h) \in recorded
       THEN Go(h, "failed") /\ UNCHANGED recorded
       ELSE Step(h, IdleHandler) /\ recorded' = recorded \cup {Operation(h)}
    /\ UNCHANGED <<zoneVars, working, bundles, disowned, applications, ingested, journalLock, awaiting, crashes>>

(* A failed sync of a completed attempt disowns what the operation wrote,   *)
(* even if another sync of the turn succeeded; before the attempt is        *)
(* completed nothing is disowned.                                           *)
FailSync(h) ==
    /\ Doing(h, "failed")
    /\ \/ disowned' = IF bundles[Operation(h)] = "applied"
                      THEN disowned \cup {Operation(h)} ELSE disowned
       \/ UNCHANGED disowned
    /\ Step(h, IdleHandler)
    /\ UNCHANGED <<zoneVars, working, bundles, applications, ingested, journalLock, turnVars, crashes>>

(* A stopped handler leaves every database as its last commit left it. *)
CrashSync(h) ==
    /\ crashes < MaxCrashes /\ sync[h].step \notin {"idle", "done"}
    /\ crashes' = crashes + 1
    /\ Step(h, IdleHandler)
    /\ journalLock' = IF journalLock = h THEN None ELSE journalLock
    /\ UNCHANGED <<zoneVars, working, bundles, disowned, applications, ingested, turnVars>>

(* Time passes an item's expiry, and another operation cleans it up. *)
ItemComesDue ==
    /\ Readable /\ working.upkeep < MaxUpkeep
    /\ working' = [working EXCEPT !.due = TRUE]
    /\ UNCHANGED <<zoneVars, bundles, disowned, applications, ingested, journalLock, turnVars, sync, crashes>>

ItemCleanedUp ==
    /\ ~Readable
    /\ working' = [working EXCEPT !.due = FALSE, !.upkeep = @ + 1]
    /\ UNCHANGED <<zoneVars, bundles, disowned, applications, ingested, journalLock, turnVars, sync, crashes>>

HandlerNext(h) ==
    \/ \E o \in Units : BeginSync(h, o)
    \/ BindUnit(h) \/ ApplyReplayed(h) \/ ApplyRefused(h) \/ ApplyReported(h) \/ AcquireLease(h)
    \/ ApplyBundle(h) \/ ProjectApplied(h) \/ RecordApplication(h)
    \/ ReadForIngestion(h) \/ IngestionReplayed(h) \/ LockJournal(h) \/ JournalBusy(h)
    \/ AppendUnit(h) \/ PlanCompaction(h) \/ CompactRoom(h) \/ FinishIngestion(h)
    \/ EndSync(h) \/ FailSync(h) \/ CrashSync(h)

UpkeepNext == ItemComesDue \/ ItemCleanedUp

SyncNext == (\E h \in Handlers : HandlerNext(h)) \/ UpkeepNext

SyncSpec == ZonesInit /\ SyncInit /\ [][SyncNext]_<<zoneVars, syncVars>>

-----------------------------------------------------------------------------
(* A journal entry tells the truth: its bundle was applied before, with a   *)
(* receipt that is no rejection, and its unit stands in the revision the    *)
(* entry names.                                                             *)
JournalIsTrue ==
    \A o \in DOMAIN ingested :
        /\ bundles[o] = "applied"
        /\ o \in DOMAIN applications
        /\ applications[o].outcome # "rejected_fail_closed"
        /\ ingested[o].successor \in 1..Revision
        /\ o \in UnitsOf(At(ingested[o].successor))

(* The room stays bounded: beyond the policy's maximum a unit is hot only   *)
(* for an ingestion that never finished.                                    *)
HotIsBounded ==
    Len(InZone(Context, "hot"))
        <= HotMax + Cardinality(UnitsOf(Context) \ DOMAIN ingested)

IngestionIsTrue == JournalIsTrue /\ HotIsBounded

(* Whoever writes the room, its turns only age and none is lost, repeated or *)
(* reordered.  compact() takes any warm episode its caller names as cold, so *)
(* that warm turns become cold oldest first holds of a step of a session     *)
(* sync, which names the oldest, and of no other client.                     *)
ImplementsRollingContext ==
    /\ Rolling!AgingSpec
    /\ [][sync' # sync => Rolling!Join \/ Rolling!Rolls]_Aged
=============================================================================
