---------------------------- MODULE ContinuityStore ----------------------------
(***************************************************************************)
(* The working-set store                                                   *)
(* (house_continuity_v1_2_local_store_v1.py): an append-only event log in  *)
(* one SQLite file, with the tables derived from it (items, item_history,  *)
(* bindings, receipts), opened by several connections.                     *)
(*                                                                         *)
(* `db` is the committed content of the file.  A connection inside a       *)
(* transaction reads its own snapshot, snap[w], and writes there; one      *)
(* connection holds the write lock and commits by installing its snapshot. *)
(* Python's sqlite3 opens a (deferred) transaction in front of the first   *)
(* INSERT: when that INSERT then fails, the transaction stays open, and    *)
(* the store rolls back only what fails inside _write_transaction.         *)
(*                                                                         *)
(* prepare_item_event and apply_item_event read outside a transaction.     *)
(* All the reads of one call are one step here: a commit in between moves  *)
(* the global sequence, which the INSERT of the event compares.  Commands  *)
(* are model values; hashes and time stamps stand for what they bind.      *)
(***************************************************************************)
EXTENDS Naturals, Sequences, FiniteSets, FiniteSetsExt

CONSTANTS
  Items, Rooms,  \* owners of events
  Keys,          \* idempotency keys
  EventIds,
  Operations,    \* provider operations, the provenance of a revision
  Summaries,     \* semantic content of a revision
  Projects,      \* what a room can be bound to
  Commands,      \* the events authors may ask for
  Bundles,       \* outbox bundles
  Plan,          \* Plan[b]: the commands of bundle b, in order
  Times,         \* when a finalisation runs
  Conns,         \* connections to the file
  None

Owners == Items \cup Rooms

ItemKinds == {"create", "confirm", "revise", "resolve", "supersede", "abandon",
              "expire", "reopen", "attest_joint", "mark_cleanup_eligible",
              "merge_disjoint", "conflict_recorded", "scope_rebind_reference"}
BindingKinds == {"bind", "rebind", "inherit", "decline"}
States == {"active", "resolved", "superseded", "abandoned", "expired"}

\* What an author asks for.  `to`, `op`, `over`, `by` are the fields that the
\* next projection gets; summary None means unchanged.
Command == [key : Keys, event : EventIds, owner : Owners,
            kind : ItemKinds \cup BindingKinds, to : States,
            summary : Summaries \cup {None}, op : Operations \cup {None},
            over : SUBSET Items, by : Items \cup {None},
            project : Projects \cup {None}]

ASSUME CommandAssumption == Commands \subseteq Command
\* validate_continuity_intent: the targets of one bundle are distinct, and a merge
\* is nothing an intent can ask for.
ASSUME PlanAssumption ==
  \A b \in Bundles : /\ Plan[b] \in Seq(Commands)
                     /\ \A m, n \in DOMAIN Plan[b] :
                          m # n => Plan[b][m].owner # Plan[b][n].owner
                     /\ \A m \in DOMAIN Plan[b] : Plan[b][m].kind # "merge_disjoint"

\* What the file's rows hold, and the file.
Item == [rev : Nat, event : EventIds \cup {None}, state : States,
         summary : Summaries \cup {None}, op : Operations \cup {None},
         over : SUBSET Items, by : Items \cup {None}, cleanup : BOOLEAN]
Binding == [rev : Nat, project : Projects \cup {None}]
Values == UNION {Nat, EventIds, States, Summaries, Operations, SUBSET Items, Items,
                 Projects, BOOLEAN, {None}}
Entry == [seq : Nat, after : EventIds \cup {None}, prior : EventIds \cup {None},
          key : Keys, event : EventIds, owner : Owners,
          kind : ItemKinds \cup BindingKinds, rev : Nat, base : Nat,
          to : UNION {[F -> Values] : F \in SUBSET {"rev", "event", "state", "summary",
                                                   "op", "over", "by", "cleanup", "project"}}]
Receipt == [cmd : Commands, seq : Nat]
Joint == [owner : Items, expected : Nat, key : Keys]
Seed == [id : Owners \cup EventIds \cup Bundles \cup Joint,
         kind : ItemKinds \cup BindingKinds
                  \cup {"item", "room", "accepted_joint_receipt", "coverage"}]
Disposition == [item : Items, rev : Nat \ {0}, event : EventIds \cup {None},
                op : Operations \cup {None}, time : Times]
Content == [log : Seq(Entry), items : [Items -> Item], history : [Items -> Seq(Item)],
            bindings : [Rooms -> Binding], receipts : [Keys -> Receipt \cup {None}],
            seeds : SUBSET Seed, joint : SUBSET Joint, coverage : SUBSET Bundles,
            bundles : SUBSET Bundles, lineage : SUBSET Disposition]

\* An identity carries the kind of what it names.
ASSUME IdentityAssumption ==
  /\ Items \cap Rooms = {} /\ Owners \cap EventIds = {}
  /\ Bundles \cap (Owners \cup EventIds) = {}
  /\ (Owners \cup EventIds \cup Bundles) \cap Joint = {}
ASSUME NoneAssumption ==
  /\ None \notin Items /\ None \notin Summaries /\ None \notin Operations
  /\ None \notin Bundles /\ None \notin States /\ None \notin Conns
  /\ None \notin EventIds /\ None \notin Receipt /\ None \notin Content

VARIABLES
  db,    \* committed content of the file
  snap,  \* snap[w]: what connection w's transaction sees; None outside
  open,  \* open[w]: w is inside a transaction (sqlite3's in_transaction)
  lock,  \* connection that holds the write lock, or None
  pc, job

file == <<db, snap, open, lock>>
vars == <<db, snap, open, lock, pc, job>>

NoItem == [rev |-> 0, event |-> None, state |-> "active", summary |-> None,
           op |-> None, over |-> {}, by |-> None, cleanup |-> FALSE]

\* What the file holds: the log of events (global sequence, the event it comes
\* after, the owner's event before it, key, event id, owner, kind, revision, base,
\* what it patches); each item's current row and history; the rooms' bindings;
\* receipts by idempotency key; creation seeds; accepted joint receipts; unit
\* coverage and receipts of bundles; and the lineage, revisions marked when their
\* operation failed.  An event's hashes stand for the event.
EmptyDB == [log |-> <<>>, items |-> [i \in Items |-> NoItem],
            history |-> [i \in Items |-> <<>>],
            bindings |-> [r \in Rooms |-> [rev |-> 0, project |-> None]],
            receipts |-> [k \in Keys |-> None], seeds |-> {}, joint |-> {},
            coverage |-> {}, bundles |-> {}, lineage |-> {}]

\* What a connection has in hand: a prepared event (command, heads it extends,
\* fields it patches, base of a merge, projection it installs); a bundle with
\* the revisions it was offered at; or the revisions a finalisation records.
NoJob == [cmd |-> None, expected |-> 0, gseq |-> 0, after |-> None, prior |-> None,
          base |-> 0, patch |-> {},
          next |-> None, bundle |-> None, offered |-> [o \in Owners |-> 0],
          at |-> 0, todo |-> {}, time |-> None]

Init ==
  /\ db = EmptyDB
  /\ snap = [w \in Conns |-> None]
  /\ open = [w \in Conns |-> FALSE]
  /\ lock = None
  /\ pc = [w \in Conns |-> "idle"]
  /\ job = [w \in Conns |-> NoJob]

Goto(w, l) == pc' = [pc EXCEPT ![w] = l]
Leave(w) == /\ pc' = [pc EXCEPT ![w] = "idle"]
            /\ job' = [job EXCEPT ![w] = NoJob]

(***************************************************************************)
(* Transactions                                                            *)
(***************************************************************************)
View(w) == IF snap[w] = None THEN db ELSE snap[w]

\* A read inside an open transaction fixes its snapshot.
Read(w) ==
  /\ snap' = IF open[w] THEN [snap EXCEPT ![w] = View(w)] ELSE snap
  /\ UNCHANGED <<db, open, lock>>

\* Fault: a snapshot that is behind the file does not keep from writing.
SeededMayWrite(w) == lock = w \/ lock = None

\* The write lock is to be had, and the snapshot is not behind the file.
MayWrite(w) == lock = w \/ (lock = None /\ snap[w] \in {None, db})

\* The next write goes to the transaction's own view.
Write(w, d) ==
  /\ MayWrite(w)
  /\ snap' = [snap EXCEPT ![w] = d]
  /\ open' = [open EXCEPT ![w] = TRUE]
  /\ lock' = w
  /\ UNCHANGED db

\* The implicit BEGIN succeeded and the INSERT behind it did not.
Refused(w) ==
  /\ ~MayWrite(w)
  /\ open' = [open EXCEPT ![w] = TRUE]
  /\ UNCHANGED <<db, snap, lock>>

\* _write_transaction left normally, with d as the transaction's content.
Commit(w, d) ==
  /\ MayWrite(w)
  /\ db' = d
  /\ snap' = [snap EXCEPT ![w] = None]
  /\ open' = [open EXCEPT ![w] = FALSE]
  /\ lock' = None

\* Left by an exception, and close and crash: the transaction and its lock go.
Rollback(w) ==
  /\ snap' = [snap EXCEPT ![w] = None]
  /\ open' = [open EXCEPT ![w] = FALSE]
  /\ lock' = IF lock = w THEN None ELSE lock
  /\ UNCHANGED db

(***************************************************************************)
(* What an event may do to its owner                                       *)
(***************************************************************************)
Same(S) == {<<s, s>> : s \in S}
Closed == {"resolved", "superseded", "abandoned", "expired"}

\* _TRANSITIONS; `create` starts from no item.
Transitions ==
  [create |-> Same({"active"}), confirm |-> Same({"active"}),
   revise |-> Same({"active"}), merge_disjoint |-> Same({"active"}),
   resolve |-> {<<"active", "resolved">>},
   abandon |-> {<<"active", "abandoned">>},
   expire |-> {<<"active", "expired">>},
   supersede |-> {<<s, "superseded">> : s \in {"active", "resolved", "abandoned"}},
   reopen |-> {<<"resolved", "active">>, <<"abandoned", "active">>},
   mark_cleanup_eligible |-> Same(Closed),
   attest_joint |-> Same({"active", "resolved", "abandoned"}),
   conflict_recorded |-> Same({"active", "resolved", "abandoned"}),
   scope_rebind_reference |-> Same({"active", "resolved", "abandoned"})]

\* _PATCH_ALLOWLISTS beyond the revision fields, which every kind may change.
Patchable ==
  [create |-> {"state", "ended", "summary", "op", "over", "by", "cleanup"},
   confirm |-> {"op"}, revise |-> {"op", "summary"},
   merge_disjoint |-> {"op", "summary"},
   resolve |-> {"op", "state", "ended"}, abandon |-> {"op", "state", "ended"},
   expire |-> {"state"}, supersede |-> {"op", "state", "over", "by"},
   reopen |-> {"op", "state", "ended"}, mark_cleanup_eligible |-> {"cleanup"},
   attest_joint |-> {"op"}, conflict_recorded |-> {}, scope_rebind_reference |-> {}]

\* The time stamp and reason that only a resolved or abandoned item carries.
Ended(state) == IF state \in {"resolved", "abandoned"} THEN state ELSE "no"

Changed(a, b) ==
  {f \in {"state", "summary", "op", "over", "by", "cleanup"} : a[f] # b[f]}
    \cup (IF Ended(a.state) # Ended(b.state) THEN {"ended"} ELSE {})

\* The projection the author proposes on top of `cur`.
Proposed(cur, c) ==
  [rev |-> cur.rev + 1, event |-> c.event, state |-> c.to,
   summary |-> IF c.summary = None THEN cur.summary ELSE c.summary,
   op |-> IF c.op = None THEN cur.op ELSE c.op,
   over |-> cur.over \cup c.over,
   by |-> IF c.by = None THEN cur.by ELSE c.by,
   cleanup |-> cur.cleanup \/ c.kind = "mark_cleanup_eligible"]

\* validate_working_set_item, as far as it relates the lifecycle fields.
ValidItem(x) ==
  /\ (x.state = "superseded") <=> (x.by # None)
  /\ x.cleanup => x.state # "active"

\* _validate_item_transition, and the durable receipt of a joint attestation.
ItemAllowed(d, x) ==
  LET c == x.cmd
      cur == d.items[c.owner] IN
  /\ c.kind \in ItemKinds
  /\ (c.kind = "create") <=> (cur.rev = 0)
  /\ <<cur.state, x.next.state>> \in Transitions[c.kind]
  /\ x.patch = Changed(cur, x.next)
  /\ x.patch \subseteq Patchable[c.kind]
  /\ c.kind = "supersede" =>
       /\ x.next.by \in Items
       /\ d.items[x.next.by].rev > 0 /\ c.owner \in d.items[x.next.by].over
  /\ c.kind = "attest_joint" =>
       [owner |-> c.owner, expected |-> x.expected, key |-> c.key] \in d.joint

\* _validate_binding_transition.
BindingAllowed(d, x) ==
  LET c == x.cmd
      new == d.bindings[c.owner].rev = 0 IN
  /\ c.kind \in BindingKinds
  /\ c.kind = "bind" => new
  /\ c.kind \in {"rebind", "inherit", "decline"} => ~new
  /\ c.kind = "decline" => x.next.project = None
  /\ c.kind = "inherit" => x.next.project # None

Allowed(d, x) ==
  IF x.cmd.owner \in Items THEN ItemAllowed(d, x) ELSE BindingAllowed(d, x)

OwnerRev(d, o) == IF o \in Items THEN d.items[o].rev ELSE d.bindings[o].rev

GlobalHead(d) == IF d.log = <<>> THEN None ELSE d.log[Len(d.log)].event

\* The owner's last event, None before the first.
OwnerHead(d, o) ==
  LET mine == {n \in DOMAIN d.log : d.log[n].owner = o} IN
  IF mine = {} THEN None ELSE d.log[Max(mine)].event

\* prepare_item_event and prepare_binding_event, on what d shows.
Prepared(d, c, base, expected) ==
  LET isItem == c.owner \in Items IN
  [NoJob EXCEPT
     !.cmd = c, !.expected = expected, !.gseq = Len(d.log) + 1,
     !.after = GlobalHead(d), !.prior = OwnerHead(d, c.owner), !.base = base,
     !.patch = IF isItem THEN Changed(d.items[c.owner], Proposed(d.items[c.owner], c))
                         ELSE {},
     !.next = IF isItem THEN Proposed(d.items[c.owner], c)
                        ELSE [rev |-> expected + 1, project |-> c.project]]

Fresh(d, x) ==
  /\ x.expected = OwnerRev(d, x.cmd.owner) /\ x.prior = OwnerHead(d, x.cmd.owner)
  /\ x.gseq = Len(d.log) + 1 /\ x.after = GlobalHead(d)

\* Fault: INSERT OR REPLACE into the log.
SeededTaken(d, x) == d.receipts[x.cmd.key] # None

\* The keys and indexes that the INSERTs of an event meet.
Taken(d, x) ==
  \/ x.gseq <= Len(d.log)
  \/ d.receipts[x.cmd.key] # None
  \/ \E n \in DOMAIN d.log : d.log[n].event = x.cmd.event
  \/ \E n \in DOMAIN d.log : /\ d.log[n].owner = x.cmd.owner
                             /\ d.log[n].rev = x.expected + 1

\* What the event says that its owner becomes: the fields it changes, all of
\* them when it creates an item; a room's whole binding.
Patch(x) ==
  IF x.cmd.owner \in Rooms \/ x.expected = 0 THEN x.next
    ELSE [f \in (x.patch \ {"ended"}) \cup {"rev", "event"} |-> x.next[f]]

\* The INSERTs of one event: log entry, projection, history and receipt.
Appended(d, x) ==
  LET c == x.cmd
      entry == [seq |-> x.gseq, after |-> x.after, prior |-> x.prior,
                key |-> c.key, event |-> c.event, owner |-> c.owner, kind |-> c.kind,
                rev |-> x.expected + 1, base |-> x.base, to |-> Patch(x)]
      told == [d EXCEPT !.log = Append(@, entry),
                        !.receipts[c.key] = [cmd |-> c, seq |-> x.gseq]] IN
  IF c.owner \in Rooms THEN [told EXCEPT !.bindings[c.owner] = x.next]
    ELSE [told EXCEPT !.items[c.owner] = x.next, !.history[c.owner] = Append(@, x.next)]

\* register_creation_seed, for the owner of an event and the event itself.
OwnerSeed(c) == [id |-> c.owner, kind |-> IF c.owner \in Items THEN "item" ELSE "room"]
EventSeed(c) == [id |-> c.event, kind |-> c.kind]
JointSeed(j) == [id |-> j, kind |-> "accepted_joint_receipt"]
CoverageSeed(b) == [id |-> b, kind |-> "coverage"]
WithSeeds(d, S) == [d EXCEPT !.seeds = @ \cup S]
Collides(d, s) == \E t \in d.seeds : t.id = s.id /\ t # s

(***************************************************************************)
(* One event: prepare, check, register the seeds, insert                   *)
(***************************************************************************)

\* A merge is drafted by an author who has read an earlier revision.
Draft(w, c, base) ==
  /\ pc[w] = "idle"
  /\ LET d == View(w) IN
       /\ base \in IF c.kind = "merge_disjoint" THEN 1 .. OwnerRev(d, c.owner) ELSE {0}
       /\ c.owner \in Items => ValidItem(Proposed(d.items[c.owner], c))
       /\ job' = [job EXCEPT ![w] = Prepared(d, c, base, OwnerRev(d, c.owner))]
  /\ Goto(w, IF c.kind = "merge_disjoint" THEN "merging" ELSE "drafted")
  /\ Read(w)

\* Fault: a merge is applied like any revision.
SeededMergeCheck(w) ==
  /\ pc[w] = "merging"
  /\ Goto(w, "drafted")
  /\ UNCHANGED job
  /\ Read(w)

\* apply_disjoint_merge: nothing it patches has changed since the base.
MergeCheck(w) ==
  /\ pc[w] = "merging"
  /\ LET cur == View(w).items[job[w].cmd.owner]
         was == View(w).history[job[w].cmd.owner][job[w].base] IN
       IF job[w].patch \cap Changed(was, cur) = {}
         THEN Goto(w, "drafted") /\ UNCHANGED job
         ELSE Leave(w)
  /\ Read(w)

\* The checks that apply_item_event and apply_binding_event make before they
\* write.  A command that has a receipt is answered with it (or refused, if
\* the receipt is of another command).
Check(w) ==
  /\ pc[w] = "drafted"
  /\ LET d == View(w)
         x == job[w] IN
       IF d.receipts[x.cmd.key] = None /\ Fresh(d, x) /\ Allowed(d, x)
         THEN Goto(w, "checked") /\ UNCHANGED job
         ELSE Leave(w)
  /\ Read(w)

\* An event identity that is already used for something else is found after
\* the owner's seed has been inserted: the call fails inside a transaction
\* that nothing ends.
Register(w) ==
  /\ pc[w] = "checked"
  /\ LET d == View(w)
         c == job[w].cmd
         missing == {OwnerSeed(c), EventSeed(c)} \ d.seeds IN
       \/ /\ Collides(d, EventSeed(c))
          /\ IF OwnerSeed(c) \in missing
               THEN Write(w, WithSeeds(d, {OwnerSeed(c)}))
               ELSE Read(w)
          /\ Leave(w)
       \/ /\ ~Collides(d, EventSeed(c))
          /\ IF missing # {} THEN Write(w, WithSeeds(d, missing)) ELSE Read(w)
          /\ Goto(w, "seeded")
          /\ UNCHANGED job
       \/ missing # {} /\ Refused(w) /\ Leave(w)

Insert(w) ==
  /\ pc[w] = "seeded"
  /\ IF MayWrite(w) /\ ~Taken(View(w), job[w])
       THEN Commit(w, Appended(View(w), job[w]))
       ELSE Rollback(w)
  /\ Leave(w)

(***************************************************************************)
(* Bundles, joint receipts and failure dispositions                        *)
(***************************************************************************)

\* The revisions that a bundle's operations expect are those of its offer.
Offer(w, b) ==
  /\ pc[w] = "idle"
  /\ Goto(w, "offered")
  /\ job' = [job EXCEPT ![w] =
        [NoJob EXCEPT !.bundle = b, !.at = 1,
                      !.offered = [o \in Owners |-> OwnerRev(View(w), o)]]]
  /\ Read(w)

\* outbox_bundle_transaction; a transaction left open is continued.
StartBundle(w) ==
  /\ pc[w] = "offered"
  /\ \/ /\ IF open[w] THEN Read(w) ELSE Write(w, db)
        /\ Goto(w, "bundle")
        /\ UNCHANGED job
     \/ ~open[w] /\ ~MayWrite(w) /\ UNCHANGED file /\ Leave(w)

\* Fault: each command of a bundle is committed by itself.
SeededBundleStep(w) ==
  LET c == Plan[job[w].bundle][job[w].at]
      x == Prepared(View(w), c, 0, job[w].offered[c.owner]) IN
  /\ pc[w] = "bundle" /\ job[w].at \in DOMAIN Plan[job[w].bundle]
  /\ IF x.expected = OwnerRev(View(w), c.owner) /\ Allowed(View(w), x)
          /\ ~Taken(View(w), x) /\ MayWrite(w)
       THEN /\ Commit(w, Appended(View(w), x))
            /\ job' = [job EXCEPT ![w].at = @ + 1]
            /\ UNCHANGED pc
       ELSE Rollback(w) /\ Leave(w)

\* Prepare and apply the next command; what fails takes the bundle with it.
BundleStep(w) ==
  LET b == job[w].bundle
      c == Plan[b][job[w].at]
      d == View(w)
      x == Prepared(d, c, 0, job[w].offered[c.owner])
      s == WithSeeds(d, {OwnerSeed(c), EventSeed(c)})
      fits == /\ x.expected = OwnerRev(d, c.owner)
              /\ c.owner \in Items => ValidItem(x.next)
              /\ Allowed(d, x)
              /\ ~Collides(d, EventSeed(c))
              /\ ~Taken(s, x) IN
  /\ pc[w] = "bundle" /\ b \notin d.bundles /\ job[w].at \in DOMAIN Plan[b]
  /\ \/ /\ fits
        /\ Write(w, Appended(s, x))
        /\ job' = [job EXCEPT ![w].at = @ + 1]
        /\ UNCHANGED pc
     \/ ~(fits /\ MayWrite(w)) /\ Rollback(w) /\ Leave(w)

\* put_unit_coverage, by a bundle that had not been applied.
Covered(d, b) == [WithSeeds(d, {CoverageSeed(b)}) EXCEPT !.coverage = @ \cup {b}]

\* The coverage and the receipt of the bundle, and the commit.
BundleDone(w) ==
  /\ pc[w] = "bundle"
  /\ job[w].bundle \in View(w).bundles \/ job[w].at \notin DOMAIN Plan[job[w].bundle]
  /\ IF MayWrite(w)
       THEN Commit(w, [Covered(View(w), job[w].bundle)
                         EXCEPT !.bundles = @ \cup {job[w].bundle}])
       ELSE Rollback(w)
  /\ Leave(w)

\* put_accepted_joint_receipt.  The seed comes first; a second receipt for one
\* attestation is found behind it.
PutJoint(w, i, k) ==
  LET d == View(w)
      j == [owner |-> i, expected |-> d.items[i].rev, key |-> k]
      s == WithSeeds(d, {JointSeed(j)})
      known == s = d IN
  /\ pc[w] = "idle"
  /\ IF j \in d.joint THEN Read(w)
     ELSE IF ~known /\ ~MayWrite(w) THEN Refused(w)
     ELSE IF \E other \in d.joint : other.key = k /\ other # j
            THEN IF known THEN Read(w) ELSE Write(w, s)
     ELSE IF MayWrite(w) THEN Commit(w, [s EXCEPT !.joint = @ \cup {j}])
                         ELSE Rollback(w)
  /\ UNCHANGED <<pc, job>>

\* record_non_authoritative_operation: every persisted revision of a failed
\* operation, each recorded in a transaction of its own.
Finalise(w, op, t) ==
  /\ pc[w] = "idle"
  /\ job' = [job EXCEPT ![w] =
        [NoJob EXCEPT !.time = t,
           !.todo = UNION {{<<i, r>> : r \in {n \in DOMAIN View(w).history[i] :
                              View(w).history[i][n].op = op}} : i \in Items}]]
  /\ Goto(w, "finalising")
  /\ Read(w)

\* record_non_authoritative_revision.  The time is part of the record.
RecordRevision(w, i, r) ==
  LET d == View(w)
      there == {l \in d.lineage : l.item = i /\ l.rev = r}
      is == d.history[i][r]
      l == [item |-> i, rev |-> r, event |-> is.event, op |-> is.op,
            time |-> job[w].time] IN
  /\ pc[w] = "finalising" /\ <<i, r>> \in job[w].todo
  /\ \A n \in 1 .. r - 1 : <<i, n>> \notin job[w].todo
  /\ IF MayWrite(w) /\ there \subseteq {l}
       THEN /\ Commit(w, [d EXCEPT !.lineage = @ \cup {l}])
            /\ job' = [job EXCEPT ![w].todo = @ \ {<<i, r>>}]
            /\ UNCHANGED pc
       ELSE Rollback(w) /\ Leave(w)

Finalised(w) ==
  /\ pc[w] = "finalising" /\ job[w].todo = {}
  /\ Leave(w)
  /\ UNCHANGED file

\* The process ends, at any point.
Crash(w) ==
  /\ pc[w] # "idle" \/ open[w]
  /\ Rollback(w)
  /\ Leave(w)

\* One step of a connection whose author asks for the commands S and whose
\* worker has the bundles B.
Step(w, S, B) ==
  \/ \E c \in S, base \in 0 .. Len(db.log) : Draft(w, c, base)
  \/ MergeCheck(w) \/ Check(w) \/ Register(w) \/ Insert(w)
  \/ \E b \in B : Offer(w, b)
  \/ StartBundle(w) \/ BundleStep(w) \/ BundleDone(w)
  \/ \E c \in S : /\ c.kind = "attest_joint" /\ c.owner \in Items
                  /\ PutJoint(w, c.owner, c.key)
  \/ \E op \in Operations, t \in Times : Finalise(w, op, t)
  \/ \E i \in Items, r \in 1 .. Len(db.log) : RecordRevision(w, i, r)
  \/ Finalised(w)
  \/ Crash(w)

\* A bundle's keys and event identities are derived from the bundle.
Single == {c \in Commands : \A b \in Bundles : \A n \in DOMAIN Plan[b] : Plan[b][n] # c}

Next == \E w \in Conns : Step(w, Single, Bundles)

\* It is derived from the bundle and no other author's.
ASSUME BundleKeyAssumption ==
  \A b \in Bundles : \A m \in DOMAIN Plan[b] :
    /\ \A c \in Single : c.key # Plan[b][m].key
    /\ \A other \in Bundles \ {b} : \A n \in DOMAIN Plan[other] :
         Plan[other][n].key # Plan[b][m].key

Spec == Init /\ [][Next]_vars

(***************************************************************************)
(* Properties                                                              *)
(***************************************************************************)

\* What happened to an item since an author read it is not undone: a merge
\* keeps every field that changed between its base and the revision it extends.
MergeKeepsConcurrent ==
  \A n \in DOMAIN db.log :
    LET e == db.log[n]
        h == db.history[e.owner] IN
    e.kind = "merge_disjoint" =>
      Changed(h[e.rev - 1], h[e.rev]) \cap Changed(h[e.base], h[e.rev - 1]) = {}

\* Of the commands of a bundle all are in the log, side by side, or none is.
BundleWhole ==
  \A b \in Bundles :
    LET At == {n \in DOMAIN db.log :
                 \E m \in DOMAIN Plan[b] : db.log[n].key = Plan[b][m].key} IN
    IF b \in db.bundles
      THEN \E n \in 0 .. Len(db.log) : At = (n + 1) .. (n + Len(Plan[b]))
      ELSE At = {}

\* Only a reopening brings a closed item back, and only one that was resolved
\* or abandoned and has not been released for cleanup.
ClosedStaysClosed ==
  \A n \in DOMAIN db.log :
    LET e == db.log[n] IN
    (e.owner \in Items /\ e.rev > 1) =>
      LET was == db.history[e.owner][e.rev - 1]
          is == db.history[e.owner][e.rev] IN
      (was.state # "active" /\ is.state = "active") =>
        e.kind = "reopen" /\ was.state \in {"resolved", "abandoned"} /\ ~was.cleanup

\* Nobody rewrites what was committed: the log and every history only grow,
\* receipts, seeds, joint receipts, bundles and dispositions stay.
AppendOnly ==
  [][/\ Len(db.log) <= Len(db'.log)
     /\ \A n \in DOMAIN db.log : db'.log[n] = db.log[n]
     /\ \A i \in Items : \A r \in DOMAIN db.history[i] :
          r \in DOMAIN db'.history[i] /\ db'.history[i][r] = db.history[i][r]
     /\ \A k \in Keys :
          db.receipts[k] # None => db'.receipts[k] = db.receipts[k]
     /\ db.seeds \subseteq db'.seeds /\ db.joint \subseteq db'.joint
     /\ db.coverage \subseteq db'.coverage /\ db.bundles \subseteq db'.bundles
     /\ db.lineage \subseteq db'.lineage]_vars

\* A revision that a repeated finalisation finds recorded is recorded just as
\* it would record it ("a repeated finalization returns the same lineage
\* records").
RepeatReturnsTheSame ==
  \A w \in Conns : pc[w] = "finalising" =>
    \A l \in View(w).lineage :
      <<l.item, l.rev>> \in job[w].todo => l.time = job[w].time
================================================================================
