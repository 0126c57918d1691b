------------------------------ MODULE StoreDoctor ------------------------------
(***************************************************************************)
(* The working-set store checked by itself                                 *)
(* (house_continuity_v1_2_local_store_v1.py, doctor, with the event        *)
(* validators of _house_continuity_v1_2_contract_items_events_v0.py): the  *)
(* log is read from the beginning, replayed, and compared with every table *)
(* that the writers keep next to it.  Each definition is one part of the   *)
(* doctor over a content d of the file; it writes nothing.                 *)
(***************************************************************************)
EXTENDS ContinuityStore

\* _doctor_seed: the seed that the entity's identity was registered with, and
\* no other seed under that identity.
Seeded(d, s) == s \in d.seeds /\ ~Collides(d, s)

\* validate_working_set_event: the first event of a chain has no predecessor
\* and only the first; an item begins with its creation, at revision one.
ItemEvent(e) ==
  /\ e.kind \in ItemKinds
  /\ (e.seq = 1) <=> (e.after = None)
  /\ (e.rev = 1) <=> (e.prior = None)
  /\ (e.kind = "create") <=> (e.rev = 1)

\* validate_scope_binding_event: as of an item, and the binding it carries has
\* the revision that the event gives to the room.
BindingEvent(e) ==
  /\ e.kind \in BindingKinds
  /\ (e.seq = 1) <=> (e.after = None)
  /\ (e.rev = 1) <=> (e.prior = None)
  /\ e.to.rev = e.rev

EventsHeld(d) ==
  \A n \in DOMAIN d.log :
    LET e == d.log[n] IN
    /\ IF e.owner \in Items THEN ItemEvent(e) ELSE BindingEvent(e)
    /\ Seeded(d, EventSeed(e))

\* validate_event_chains: the global sequence has no gap, every event names the
\* one before it, and so do the events of each owner among themselves.
ChainsLinked(d) ==
  \A n \in DOMAIN d.log :
    LET e == d.log[n]
        owned == {m \in 1 .. n - 1 : d.log[m].owner = e.owner} IN
    /\ e.seq = n
    /\ e.after = IF n = 1 THEN None ELSE d.log[n - 1].event
    /\ e.rev = Cardinality(owned) + 1
    /\ e.prior = IF owned = {} THEN None ELSE d.log[Max(owned)].event
    /\ \A m \in 1 .. n - 1 : d.log[m].event # e.event

\* What the log alone says of an owner: its value after its event r has, in every
\* field, what the last event up to r that names the field gave it.
Replay(d, o, none) ==
  LET mine == {n \in DOMAIN d.log : d.log[n].owner = o}
      Told(r, f) == {n \in mine : d.log[n].rev <= r /\ f \in DOMAIN d.log[n].to} IN
  [r \in 1 .. Cardinality(mine) |->
     [f \in DOMAIN none |->
        IF Told(r, f) = {} THEN none[f] ELSE d.log[Max(Told(r, f))].to[f]]]

\* Replaying the patches gives the current rows, the history and the bindings.
ProjectionsAgree(d) ==
  /\ \A i \in Items :
       LET h == Replay(d, i, NoItem) IN
       /\ d.history[i] = h
       /\ d.items[i] = IF h = <<>> THEN NoItem ELSE h[Len(h)]
       /\ \A r \in DOMAIN h : ValidItem(h[r])
       /\ h # <<>> => Seeded(d, [id |-> i, kind |-> "item"])
  /\ \A r \in Rooms :
       LET h == Replay(d, r, EmptyDB.bindings[r]) IN
       /\ d.bindings[r] = IF h = <<>> THEN EmptyDB.bindings[r] ELSE h[Len(h)]
       /\ h # <<>> => Seeded(d, [id |-> r, kind |-> "room"])

\* A failure disposition is about a revision that exists, as it was written.
LineageAgrees(d) ==
  \A l \in d.lineage :
    /\ l.rev \in DOMAIN d.history[l.item]
    /\ LET is == d.history[l.item][l.rev] IN is.event = l.event /\ is.op = l.op
    /\ \E n \in DOMAIN d.log : /\ d.log[n].event = l.event
                               /\ d.log[n].owner = l.item /\ d.log[n].rev = l.rev

\* Every receipt is of an event in the log, and every event has one.
ReceiptsAgree(d) ==
  LET held == {k \in Keys : d.receipts[k] # None} IN
  /\ \A k \in held : \E n \in DOMAIN d.log :
       /\ d.log[n].key = k /\ d.log[n].event = d.receipts[k].cmd.event
       /\ d.log[n].seq = d.receipts[k].seq
  /\ {d.receipts[k].cmd.event : k \in held} = {d.log[n].event : n \in DOMAIN d.log}

CoverageAgrees(d) == \A b \in d.coverage : Seeded(d, CoverageSeed(b))

JointAgrees(d) ==
  \A j \in d.joint :
    /\ Seeded(d, JointSeed(j))
    /\ \A other \in d.joint : other.key = j.key => other = j

\* The receipt of a bundle names events of the log and the coverage of its unit.
BundlesAgree(d) ==
  \A b \in d.bundles :
    /\ b \in d.coverage
    /\ \A m \in DOMAIN Plan[b] : \E n \in DOMAIN d.log : d.log[n].event = Plan[b][m].event

Doctor(d) ==
  /\ EventsHeld(d) /\ ChainsLinked(d) /\ ProjectionsAgree(d) /\ LineageAgrees(d)
  /\ ReceiptsAgree(d) /\ CoverageAgrees(d) /\ JointAgrees(d) /\ BundlesAgree(d)

\* doctor accepts every committed content, and every revision is a lawful
\* successor of the one before (which doctor does not look at), with several
\* connections, refused writes, stranded transactions and crashes at any step
\* (apply_item_event, apply_outbox_bundle_atomic).
Replayable == Doctor(db) /\ ClosedStaysClosed
================================================================================
