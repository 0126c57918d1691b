--------------------------- MODULE ContinuityReaders ---------------------------
(***************************************************************************)
(* Reading the working-set store while others write                        *)
(* (house_continuity_v1_2_local_store_v1.py, read_projection,              *)
(* read_bound_projection, read_checkpoint_snapshot).                       *)
(*                                                                         *)
(* A read makes several SELECTs: the room's binding, the failure           *)
(* dispositions (lineage), the items, the head of the log.  Other          *)
(* connections commit between any two of them; a transaction, where the    *)
(* read has one, holds its snapshot.  The store's connections are readers  *)
(* too, one call at a time.                                                *)
(***************************************************************************)
EXTENDS ContinuityStore

CONSTANT Readers  \* connections that read

ASSUME ReadersAssumption == Readers \subseteq Conns

VARIABLES
  rpc,   \* rpc[w]: the SELECT that w's read makes next, or "idle"
  read   \* read[w]: what w's current or last read has seen; None before any

readVars == <<vars, rpc, read>>

Kinds == {"bound", "projection", "checkpoint"}
Zero == [i \in Items |-> 0]
NoRead == [kind |-> "bound", owns |-> TRUE, room |-> None, binding |-> 0,
           since |-> {}, lineage |-> {}, items |-> Zero, shown |-> Zero, head |-> 0]

ReadersInit ==
  /\ Init
  /\ rpc = [w \in Conns |-> "idle"]
  /\ read = [w \in Conns |-> None]

\* Fault: only the marked revisions are hidden, not those behind them.
SeededShown(items, lineage) ==
  [i \in Items |->
     Max({r \in 0 .. items[i] : \A l \in lineage : l.item = i => l.rev # r})]

\* The revision of an item that a projection shows: the last one in front of
\* every revision that has a failure disposition (0: none).
Shown(items, lineage) ==
  [i \in Items |->
     LET cut == {l.rev : l \in {m \in lineage : m.item = i}} IN
     Max({r \in 0 .. items[i] : \A c \in cut : r < c})]

Revs(d) == [i \in Items |-> d.items[i].rev]

\* Fault: no BEGIN, every SELECT by itself.
SeededBegun(w) == UNCHANGED file

Begun(w) ==
  /\ snap' = [snap EXCEPT ![w] = View(w)]
  /\ open' = [open EXCEPT ![w] = TRUE]
  /\ UNCHANGED <<db, lock>>

Start(w, l, x) ==
  /\ rpc' = [rpc EXCEPT ![w] = l]
  /\ read' = [read EXCEPT ![w] = [x EXCEPT !.since = View(w).lineage]]

\* An explicit BEGIN inside a transaction is an error, which rolls it back.
BeginFails(w) ==
  /\ open[w]
  /\ Rollback(w)
  /\ UNCHANGED <<rpc, read>>

\* read_bound_projection: BEGIN and the room's binding.
BeginBound(w, r) ==
  /\ rpc[w] = "idle" /\ pc[w] = "idle"
  /\ \/ BeginFails(w)
     \/ /\ ~open[w]
        /\ Begun(w)
        /\ Start(w, "lineage",
                 [NoRead EXCEPT !.room = r, !.binding = View(w).bindings[r].rev])
  /\ UNCHANGED <<pc, job>>

\* read_checkpoint_snapshot: BEGIN and the items; it reads no lineage.
BeginCheckpoint(w) ==
  /\ rpc[w] = "idle" /\ pc[w] = "idle"
  /\ \/ BeginFails(w)
     \/ /\ ~open[w]
        /\ Begun(w)
        /\ Start(w, "head", [NoRead EXCEPT !.kind = "checkpoint",
                                           !.items = Revs(View(w)),
                                           !.shown = Revs(View(w))])
  /\ UNCHANGED <<pc, job>>

\* read_projection called by itself: the lineage comes before its BEGIN.
BeginProjection(w) ==
  /\ rpc[w] = "idle" /\ pc[w] = "idle"
  /\ Read(w)
  /\ Start(w, "items", [NoRead EXCEPT !.kind = "projection", !.owns = ~open[w],
                                      !.lineage = View(w).lineage])
  /\ UNCHANGED <<pc, job>>

ReadLineage(w) ==
  /\ rpc[w] = "lineage"
  /\ Read(w)
  /\ rpc' = [rpc EXCEPT ![w] = "items"]
  /\ read' = [read EXCEPT ![w].lineage = View(w).lineage]
  /\ UNCHANGED <<pc, job>>

ReadItems(w) ==
  /\ rpc[w] = "items"
  /\ Begun(w)
  /\ rpc' = [rpc EXCEPT ![w] = "head"]
  /\ read' = [read EXCEPT ![w].items = Revs(View(w)),
                          ![w].shown = Shown(Revs(View(w)), read[w].lineage)]
  /\ UNCHANGED <<pc, job>>

\* The head, and the end of the transaction if the read has opened it.
ReadHead(w) ==
  /\ rpc[w] = "head"
  /\ IF read[w].owns THEN Rollback(w) ELSE Read(w)
  /\ rpc' = [rpc EXCEPT ![w] = "idle"]
  /\ read' = [read EXCEPT ![w].head = Len(View(w).log)]
  /\ UNCHANGED <<pc, job>>

ReadStep(w) ==
  \/ \E r \in Rooms : BeginBound(w, r)
  \/ BeginCheckpoint(w) \/ BeginProjection(w)
  \/ ReadLineage(w) \/ ReadItems(w) \/ ReadHead(w)

StoreStep(w, S, B) == rpc[w] = "idle" /\ Step(w, S, B) /\ UNCHANGED <<rpc, read>>

ReadersNext ==
  \E w \in Conns : \/ w \in Readers /\ ReadStep(w)
                   \/ StoreStep(w, Single, Bundles)

ReadersSpec == ReadersInit /\ [][ReadersNext]_readVars

Done(w) == rpc[w] = "idle" /\ read[w] # None
EventsOf(o, head) == {n \in 1 .. head : db.log[n].owner = o}

\* A finished read belongs to one moment: the revisions it returns, of every
\* item and of the binding, are those of the log up to the head it returns,
\* whatever was committed while it was under way.
ReadIsOneMoment ==
  \A w \in Conns : Done(w) =>
    /\ read[w].head <= Len(db.log)
    /\ \A i \in Items :
         read[w].items[i] = Cardinality(EventsOf(i, read[w].head))
    /\ read[w].kind = "bound" =>
         read[w].binding = Cardinality(EventsOf(read[w].room, read[w].head))

\* "Once a revision is marked non-authoritative, later revisions in that same
\* item lineage remain excluded": a projection shows no revision at or behind
\* one that was marked when the projection began.
ExcludedStaysExcluded ==
  \A w \in Conns : (Done(w) /\ read[w].kind # "checkpoint") =>
    \A l \in read[w].since : read[w].shown[l.item] < l.rev

================================================================================
