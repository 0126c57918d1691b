-------------------------- MODULE ContinuityProofs --------------------------
(***************************************************************************)
(* Proofs about the working-set store and its readers (ContinuityStore,    *)
(* StoreDoctor, ContinuityReaders).                                        *)
(*                                                                         *)
(* One content of the file is Sound when the doctor accepts it and its     *)
(* seeds, revisions, histories and merges are what they claim; appending a *)
(* well-prepared event, and writing rows beside the log, keep it sound and *)
(* only extend it.  The invariant then says of each connection how its     *)
(* snapshot lies to the file - ahead of it with the lock, some past of it  *)
(* without - and what the call that it has in hand may still rely on; of a *)
(* bundle under way, that its events are the end of its own snapshot's     *)
(* log; and of a read, which snapshot its parts are from.                  *)
(***************************************************************************)
EXTENDS StoreDoctor, ContinuityReaders, FiniteSetTheorems, TLAPS

(***************************************************************************)
(* What one content of the file is                                         *)
(***************************************************************************)

\* The events of an owner.
Mine(d, o) == {n \in DOMAIN d.log : d.log[n].owner = o}

\* An identity is registered once, and an owner, a bundle and a joint receipt
\* only as what they are.
SeedsAreOwn(d) ==
  /\ \A s, t \in d.seeds : s.id = t.id => s = t
  /\ \A s \in d.seeds :
       /\ s.id \in Items => s.kind = "item"
       /\ s.id \in Rooms => s.kind = "room"
       /\ s.id \in Bundles => s.kind = "coverage"
       /\ s.id \in Joint => s.kind = "accepted_joint_receipt"

\* An owner's revision is the number of its events.
RevsCount(d) == \A o \in Owners : OwnerRev(d, o) = Cardinality(Mine(d, o))

\* An item's row is the last of its history, every revision of which is the
\* one its place says and that of an event.
HistoryWhole(d) ==
  \A i \in Items :
    /\ Len(d.history[i]) = d.items[i].rev
    /\ d.items[i].rev = 0 => d.items[i] = NoItem
    /\ d.items[i].rev > 0 => d.items[i] = d.history[i][d.items[i].rev]
    /\ \A r \in DOMAIN d.history[i] :
         \E n \in DOMAIN d.log : /\ d.log[n].owner = i /\ d.log[n].rev = r
                                 /\ d.log[n].event = d.history[i][r].event

\* An event gave its owner a revision that the owner has reached.
RevsReached(d) ==
  \A n \in DOMAIN d.log :
    d.log[n].rev > 0 /\ d.log[n].rev <= OwnerRev(d, d.log[n].owner)

\* What MergeKeepsConcurrent and ClosedStaysClosed say of one content.
MergesKept(d) ==
  \A n \in DOMAIN d.log :
    LET e == d.log[n]
        h == d.history[e.owner] IN
    e.kind = "merge_disjoint" =>
      Changed(h[e.rev - 1], h[e.rev]) \cap Changed(h[e.base], h[e.rev - 1]) = {}
ClosedKept(d) ==
  \A n \in DOMAIN d.log :
    LET e == d.log[n] IN
    (e.owner \in Items /\ e.rev > 1) =>
      LET was == d.history[e.owner][e.rev - 1]
          is == d.history[e.owner][e.rev] IN
      (was.state # "active" /\ is.state = "active") =>
        e.kind = "reopen" /\ was.state \in {"resolved", "abandoned"} /\ ~was.cleanup

\* A merge came after the revision it was drafted on.
MergesBased(d) ==
  \A n \in DOMAIN d.log :
    d.log[n].kind = "merge_disjoint" =>
      d.log[n].owner \in Items /\ d.log[n].base \in 1 .. d.log[n].rev - 1

\* What every transaction leaves, and every snapshot shows.
Sound(d) ==
  /\ d \in Content
  /\ Doctor(d)
  /\ SeedsAreOwn(d) /\ RevsCount(d) /\ HistoryWhole(d) /\ RevsReached(d)
  /\ MergesBased(d) /\ MergesKept(d) /\ ClosedKept(d)

\* e is d and what was written on top of it.
Extends(d, e) ==
  /\ Len(d.log) <= Len(e.log)
  /\ \A n \in DOMAIN d.log : e.log[n] = d.log[n]
  /\ \A i \in Items : \A r \in DOMAIN d.history[i] :
       r \in DOMAIN e.history[i] /\ e.history[i][r] = d.history[i][r]
  /\ \A k \in Keys : d.receipts[k] # None => e.receipts[k] = d.receipts[k]
  /\ d.seeds \subseteq e.seeds /\ d.joint \subseteq e.joint
  /\ d.coverage \subseteq e.coverage /\ d.bundles \subseteq e.bundles
  /\ d.lineage \subseteq e.lineage
  /\ \A o \in Owners : OwnerRev(d, o) <= OwnerRev(e, o)
  /\ Len(e.log) = Len(d.log) =>
       /\ e.log = d.log /\ e.items = d.items /\ e.history = d.history
       /\ e.bindings = d.bindings /\ e.receipts = d.receipts

(***************************************************************************)
(* Facts about sets of positions                                           *)
(***************************************************************************)

\* The newest of some positions, when one is behind all the others.
LEMMA MaxOfNew ==
  ASSUME NEW S \in SUBSET Nat, NEW n \in Nat, \A m \in S : m < n
  PROVE  Max(S \cup {n}) = n
<1>1. \A x \in S \cup {n} : (\A y \in S \cup {n} : x >= y) => x = n
  OBVIOUS
<1>2. \A y \in S \cup {n} : n >= y
  OBVIOUS
<1>3. Max(S \cup {n}) = CHOOSE x \in S \cup {n} : \A y \in S \cup {n} : x >= y
  BY DEF Max
<1> QED BY <1>1, <1>2, <1>3

\* A set of numbers up to a bound has a greatest one.
LEMMA MaxIsIn ==
  ASSUME NEW n \in Nat, NEW S \in SUBSET (0 .. n), S # {}
  PROVE  Max(S) \in S /\ \A m \in S : m <= Max(S)
<1>. DEFINE T == {n - m : m \in S}
<1>1. T \subseteq Nat /\ T # {}
  OBVIOUS
<1>2. IsWellFoundedOn(OpToRel(<, Nat), Nat)
  BY NatLessThanWellFounded
<1>3. PICK t \in T : \A u \in T : ~(<<u, t>> \in OpToRel(<, Nat))
  BY <1>1, <1>2, WFMin
<1>4. PICK x \in S : t = n - x
  BY <1>3
<1>5. \A m \in S : x >= m
  <2>. SUFFICES ASSUME NEW m \in S PROVE x >= m
    OBVIOUS
  <2>1. n - m \in T /\ n - m \in Nat /\ t \in Nat
    BY <1>1
  <2>2. ~(n - m < t)
    BY <2>1, <1>3 DEF OpToRel
  <2> QED BY <2>2, <1>4
<1>6. \E y \in S : \A m \in S : y >= m
  BY <1>5
<1>7. Max(S) \in S /\ \A m \in S : Max(S) >= m
  BY <1>6 DEF Max
<1> QED BY <1>7

\* The owner's events are positions of the log, and finitely many.
LEMMA MineFinite ==
  ASSUME NEW d \in Content, NEW o
  PROVE  /\ Mine(d, o) \subseteq 1 .. Len(d.log) /\ Len(d.log) \in Nat
         /\ IsFiniteSet(Mine(d, o)) /\ Cardinality(Mine(d, o)) \in Nat
         /\ Cardinality(Mine(d, o)) = 0 <=> Mine(d, o) = {}
<1>1. d.log \in Seq(Entry)
  BY DEF Content
<1>2. Mine(d, o) \subseteq 1 .. Len(d.log) /\ Len(d.log) \in Nat
  BY <1>1 DEF Mine
<1>3. IsFiniteSet(1 .. Len(d.log))
  BY <1>2, FS_Interval
<1>4. IsFiniteSet(Mine(d, o))
  BY <1>2, <1>3, FS_Subset
<1> QED BY <1>2, <1>4, FS_CardinalityType, FS_EmptySet

(***************************************************************************)
(* What one content of the file becomes                                    *)
(***************************************************************************)

\* The fields of a row, and what an event can say of them.
Fields == {"rev", "event", "state", "summary", "op", "over", "by", "cleanup"}
AllFields == Fields \cup {"project"}
Patches == UNION {[F -> Values] : F \in SUBSET AllFields}

\* A draft as prepare_item_event and prepare_binding_event make it.
DraftOf(x) ==
  /\ x.cmd \in Commands /\ x.expected \in Nat /\ x.gseq \in Nat /\ x.base \in Nat
  /\ x.cmd.owner \in Items =>
       /\ x.next \in Item /\ ValidItem(x.next) /\ x.next.event = x.cmd.event
       /\ x.patch \subseteq Fields \cup {"ended"}
  /\ x.cmd.owner \in Rooms => x.next \in Binding
  /\ x.next.rev = x.expected + 1

\* Nothing that a merge patches has changed since its base.
MergeSafe(d, x) ==
  LET h == d.history[x.cmd.owner] IN
  (x.cmd.kind = "merge_disjoint" /\ x.cmd.owner \in Items) =>
    /\ x.base \in 1 .. x.expected
    /\ x.patch \cap Changed(h[x.base], h[x.expected]) = {}

\* An event that a content lets in.
Appendable(d, x) ==
  /\ DraftOf(x) /\ Fresh(d, x) /\ Allowed(d, x) /\ ~Taken(d, x) /\ MergeSafe(d, x)
  /\ {OwnerSeed(x.cmd), EventSeed(x.cmd)} \subseteq d.seeds

EntryOf(x) ==
  [seq |-> x.gseq, after |-> x.after, prior |-> x.prior,
   key |-> x.cmd.key, event |-> x.cmd.event, owner |-> x.cmd.owner, kind |-> x.cmd.kind,
   rev |-> x.expected + 1, base |-> x.base, to |-> Patch(x)]

\* A row is the function of its fields.
LEMMA ItemFields ==
  ASSUME NEW x \in Item
  PROVE  /\ DOMAIN x = Fields /\ x = [f \in Fields |-> x[f]]
         /\ \A f \in Fields : x[f] \in Values
<1>1. DOMAIN x = Fields /\ x = [f \in Fields |-> x[f]]
  BY DEF Item, Fields
<1>2. /\ x["rev"] \in Values /\ x["event"] \in Values /\ x["state"] \in Values
      /\ x["summary"] \in Values /\ x["op"] \in Values
  BY DEF Item, Values
<1>3. /\ x["over"] \in Values /\ x["by"] \in Values /\ x["cleanup"] \in Values
  BY DEF Item, Values
<1> QED BY <1>1, <1>2, <1>3 DEF Fields

\* A binding has the fields of a patch that creates it.
LEMMA BindingFields ==
  ASSUME NEW x \in Binding
  PROVE  /\ DOMAIN x = {"rev", "project"} /\ x = [f \in {"rev", "project"} |-> x[f]]
         /\ \A f \in {"rev", "project"} : x[f] \in Values
BY DEF Binding, Values

\* The patch of an event says, of the fields it has, what the owner becomes.
LEMMA PatchIs ==
  ASSUME NEW x, DraftOf(x)
  PROVE  /\ Patch(x) \in Patches
         /\ \A f \in DOMAIN Patch(x) : Patch(x)[f] = x.next[f]
         /\ x.cmd.owner \in Items =>
              /\ DOMAIN Patch(x) \subseteq Fields /\ "rev" \in DOMAIN Patch(x)
              /\ \A f \in Fields \ DOMAIN Patch(x) :
                   /\ x.expected # 0 /\ f \notin x.patch /\ f \notin {"rev", "event"}
         /\ x.cmd.owner \in Rooms => Patch(x) = x.next
<1>0. /\ x.cmd.owner \in Items \/ x.cmd.owner \in Rooms
      /\ ~(x.cmd.owner \in Items /\ x.cmd.owner \in Rooms)
      /\ x.expected \in Nat
  BY CommandAssumption, IdentityAssumption DEF DraftOf, Command, Owners
<1>1. CASE x.cmd.owner \in Rooms
  <2>1. x.next \in Binding /\ Patch(x) = x.next
    BY <1>0, <1>1 DEF DraftOf, Patch
  <2>2. x.next \in [{"rev", "project"} -> Values]
    BY <2>1, BindingFields
  <2>3. Patch(x) \in Patches
    BY <2>1, <2>2 DEF Patches, AllFields, Fields
  <2> QED BY <1>0, <1>1, <2>1, <2>3
<1>2. CASE x.cmd.owner \in Items /\ x.expected = 0
  <2>1. x.next \in Item /\ Patch(x) = x.next
    BY <1>2 DEF DraftOf, Patch
  <2>2. x.next \in [Fields -> Values] /\ DOMAIN x.next = Fields
    BY <2>1, ItemFields
  <2>3. Patch(x) \in Patches
    BY <2>1, <2>2 DEF Patches, AllFields
  <2> QED BY <1>0, <1>2, <2>1, <2>2, <2>3 DEF Fields
<1>3. CASE x.cmd.owner \in Items /\ x.expected # 0
  <2>. DEFINE F == (x.patch \ {"ended"}) \cup {"rev", "event"}
  <2>1. x.next \in Item /\ Patch(x) = [f \in F |-> x.next[f]]
    BY <1>0, <1>3 DEF DraftOf, Patch
  <2>2. F \subseteq Fields
    BY <1>3 DEF DraftOf, Fields
  <2>3. \A f \in F : x.next[f] \in Values
    BY <2>1, <2>2, ItemFields
  <2>4. Patch(x) \in [F -> Values]
    BY <2>1, <2>3
  <2>5. Patch(x) \in Patches
    BY <2>2, <2>4 DEF Patches, AllFields
  <2>6. DOMAIN Patch(x) = F /\ \A f \in F : Patch(x)[f] = x.next[f]
    BY <2>1
  <2>7. \A f \in Fields \ F : f \notin x.patch /\ f \notin {"rev", "event"}
    BY DEF Fields
  <2> QED BY <1>0, <1>3, <2>2, <2>5, <2>6, <2>7
<1> QED BY <1>0, <1>1, <1>2, <1>3

\* The owner's head and the log's.
LEMMA HeadsAre ==
  ASSUME NEW d \in Content, NEW o
  PROVE  /\ GlobalHead(d) \in EventIds \cup {None}
         /\ GlobalHead(d) = None <=> Len(d.log) = 0
         /\ OwnerHead(d, o) \in EventIds \cup {None}
         /\ OwnerHead(d, o) = None <=> Mine(d, o) = {}
         /\ Mine(d, o) # {} => OwnerHead(d, o) = d.log[Max(Mine(d, o))].event
<1>0. /\ d.log \in Seq(Entry) /\ Len(d.log) \in Nat /\ DOMAIN d.log = 1 .. Len(d.log)
      /\ \A n \in DOMAIN d.log : d.log[n].event \in EventIds /\ d.log[n].event # None
  <2>1. d.log \in Seq(Entry)
    BY DEF Content
  <2>2. \A n \in DOMAIN d.log : d.log[n] \in Entry
    BY <2>1
  <2> QED BY <2>1, <2>2, NoneAssumption DEF Entry
<1>1. GlobalHead(d) \in EventIds \cup {None} /\ (GlobalHead(d) = None <=> Len(d.log) = 0)
  BY <1>0 DEF GlobalHead
<1>2. OwnerHead(d, o) = IF Mine(d, o) = {} THEN None ELSE d.log[Max(Mine(d, o))].event
  BY DEF OwnerHead, Mine
<1>3. CASE Mine(d, o) = {}
  BY <1>1, <1>2, <1>3
<1>4. CASE Mine(d, o) # {}
  <2>1. Max(Mine(d, o)) \in Mine(d, o)
    <3>1. Mine(d, o) \subseteq 0 .. Len(d.log)
      BY <1>0 DEF Mine
    <3> QED BY <1>0, <1>4, <3>1, MaxIsIn
  <2>2. Max(Mine(d, o)) \in DOMAIN d.log
    BY <2>1 DEF Mine
  <2> QED BY <1>0, <1>1, <1>2, <1>4, <2>2
<1> QED BY <1>3, <1>4

\* A content as the next lemmas take it, one event later.
Grown(d, x, e) ==
  /\ d \in Content /\ RevsCount(d) /\ DraftOf(x) /\ Fresh(d, x)
  /\ e = Appended(d, x)

\* What an appended event changes.
RowsOf(d, x, e) ==
  /\ e \in Content
  /\ e.log = Append(d.log, EntryOf(x)) /\ EntryOf(x) \in Entry
  /\ e.receipts = [d.receipts EXCEPT ![x.cmd.key] = [cmd |-> x.cmd, seq |-> x.gseq]]
  /\ e.seeds = d.seeds /\ e.joint = d.joint /\ e.coverage = d.coverage
  /\ e.bundles = d.bundles /\ e.lineage = d.lineage
  /\ x.cmd.owner \in Items =>
       /\ e.items = [d.items EXCEPT ![x.cmd.owner] = x.next]
       /\ e.history = [d.history EXCEPT ![x.cmd.owner] = Append(@, x.next)]
       /\ e.bindings = d.bindings
  /\ x.cmd.owner \in Rooms =>
       /\ e.items = d.items /\ e.history = d.history
       /\ e.bindings = [d.bindings EXCEPT ![x.cmd.owner] = x.next]

\* What an event leaves of the rows, table by table (Appended).
LEMMA AppendedIs ==
  ASSUME NEW d, NEW x, NEW e, Grown(d, x, e)
  PROVE  RowsOf(d, x, e)
<1>. DEFINE c == x.cmd
            o == x.cmd.owner
            log == Append(d.log, EntryOf(x))
            receipts == [d.receipts EXCEPT ![c.key] = [cmd |-> c, seq |-> x.gseq]]
<1>. /\ d \in Content /\ DraftOf(x) /\ Fresh(d, x) /\ e = Appended(d, x)
  BY DEF Grown
<1>0. /\ c \in Commands /\ c \in Command /\ x.expected \in Nat /\ x.gseq \in Nat
      /\ x.base \in Nat /\ x.expected + 1 \in Nat
      /\ (o \in Items \/ o \in Rooms) /\ ~(o \in Items /\ o \in Rooms)
      /\ c.key \in Keys /\ c.event \in EventIds /\ o \in Owners
      /\ c.kind \in ItemKinds \cup BindingKinds
  BY CommandAssumption, IdentityAssumption DEF DraftOf, Command, Owners
<1>1. EntryOf(x) \in Entry
  <2>1. Patch(x) \in Patches
    BY PatchIs
  <2>2. /\ x.after \in EventIds \cup {None} /\ x.prior \in EventIds \cup {None}
    BY HeadsAre DEF Fresh
  <2>3. Patches = UNION {[F -> Values] : F \in SUBSET {"rev", "event", "state", "summary",
                                          "op", "over", "by", "cleanup", "project"}}
    <3>1. AllFields = {"rev", "event", "state", "summary",
                       "op", "over", "by", "cleanup", "project"}
      BY DEF AllFields, Fields
    <3> QED BY <3>1 DEF Patches
  <2> QED BY <1>0, <2>1, <2>2, <2>3 DEF EntryOf, Entry
<1>2. /\ d.log \in Seq(Entry) /\ d.items \in [Items -> Item]
      /\ d.history \in [Items -> Seq(Item)] /\ d.bindings \in [Rooms -> Binding]
      /\ d.receipts \in [Keys -> Receipt \cup {None}] /\ d.seeds \in SUBSET Seed
      /\ d.joint \in SUBSET Joint /\ d.coverage \in SUBSET Bundles
      /\ d.bundles \in SUBSET Bundles /\ d.lineage \in SUBSET Disposition
  BY DEF Content
<1>3. log \in Seq(Entry) /\ receipts \in [Keys -> Receipt \cup {None}]
  <2>1. [cmd |-> c, seq |-> x.gseq] \in Receipt
    BY <1>0 DEF Receipt
  <2>2. log \in Seq(Entry)
    BY <1>1, <1>2
  <2>3. receipts \in [Keys -> Receipt \cup {None}]
    BY <1>2, <2>1
  <2> QED BY <2>2, <2>3
<1>4. CASE o \in Items
  <2>. DEFINE items == [d.items EXCEPT ![o] = x.next]
              history == [d.history EXCEPT ![o] = Append(@, x.next)]
  <2>1. e = [d EXCEPT !.log = log, !.receipts = receipts, !.items = items,
                      !.history = history]
    BY <1>0, <1>2, <1>4 DEF Appended, EntryOf, Content
  <2>2. items \in [Items -> Item] /\ history \in [Items -> Seq(Item)]
    <3>1. x.next \in Item
      BY <1>4 DEF DraftOf
    <3> QED BY <1>2, <1>4, <3>1
  <2>. HIDE DEF log, receipts, items, history
  <2>3. e \in Content
    BY <1>2, <1>3, <2>1, <2>2 DEF Content
  <2>4. /\ e.log = log /\ e.receipts = receipts /\ e.items = items /\ e.history = history
        /\ e.bindings = d.bindings
        /\ e.seeds = d.seeds /\ e.joint = d.joint /\ e.coverage = d.coverage
        /\ e.bundles = d.bundles /\ e.lineage = d.lineage
    BY <2>1 DEF Content
  <2> QED BY <1>0, <1>1, <1>4, <2>3, <2>4 DEF log, receipts, items, history, RowsOf
<1>5. CASE o \in Rooms
  <2>. DEFINE bindings == [d.bindings EXCEPT ![o] = x.next]
  <2>1. e = [d EXCEPT !.log = log, !.receipts = receipts, !.bindings = bindings]
    BY <1>0, <1>2, <1>5 DEF Appended, EntryOf, Content
  <2>2. bindings \in [Rooms -> Binding]
    <3>1. x.next \in Binding
      BY <1>5 DEF DraftOf
    <3> QED BY <1>2, <1>5, <3>1
  <2>. HIDE DEF log, receipts, bindings
  <2>3. e \in Content
    BY <1>2, <1>3, <2>1, <2>2 DEF Content
  <2>4. /\ e.log = log /\ e.receipts = receipts /\ e.bindings = bindings
        /\ e.items = d.items /\ e.history = d.history
        /\ e.seeds = d.seeds /\ e.joint = d.joint /\ e.coverage = d.coverage
        /\ e.bundles = d.bundles /\ e.lineage = d.lineage
    BY <2>1 DEF Content
  <2> QED BY <1>0, <1>1, <1>5, <2>3, <2>4 DEF log, receipts, bindings, RowsOf
<1> QED BY <1>0, <1>4, <1>5 DEF RowsOf

\* The log has one event more, which is its owner's next one.
LEMMA AppendedLog ==
  ASSUME NEW d, NEW x, NEW e, Grown(d, x, e)
  PROVE  /\ Len(d.log) \in Nat /\ x.gseq = Len(d.log) + 1
         /\ Len(e.log) = Len(d.log) + 1
         /\ DOMAIN d.log = 1 .. Len(d.log) /\ DOMAIN e.log = 1 .. (Len(d.log) + 1)
         /\ \A n \in DOMAIN d.log : e.log[n] = d.log[n]
         /\ e.log[Len(d.log) + 1] = EntryOf(x)
         /\ Mine(e, x.cmd.owner) = Mine(d, x.cmd.owner) \cup {Len(d.log) + 1}
         /\ \A o \in Owners \ {x.cmd.owner} : Mine(e, o) = Mine(d, o)
<1>1. d \in Content /\ DraftOf(x) /\ Fresh(d, x) /\ e = Appended(d, x)
  BY DEF Grown
<1>2. d.log \in Seq(Entry) /\ e.log = Append(d.log, EntryOf(x)) /\ EntryOf(x) \in Entry
  <2>1. RowsOf(d, x, e)
    BY AppendedIs
  <2> QED BY <1>1, <2>1 DEF RowsOf, Content
<1>3. /\ Len(d.log) \in Nat /\ Len(e.log) = Len(d.log) + 1
      /\ DOMAIN d.log = 1 .. Len(d.log) /\ DOMAIN e.log = 1 .. (Len(d.log) + 1)
      /\ \A n \in DOMAIN d.log : e.log[n] = d.log[n]
      /\ e.log[Len(d.log) + 1] = EntryOf(x)
  BY <1>2
<1>4. x.gseq = Len(d.log) + 1
  BY <1>1 DEF Fresh
<1>5. e.log[Len(d.log) + 1].owner = x.cmd.owner
  BY <1>3 DEF EntryOf
<1>6. Mine(e, x.cmd.owner) = Mine(d, x.cmd.owner) \cup {Len(d.log) + 1}
  BY <1>3, <1>5 DEF Mine
<1>7. \A o \in Owners \ {x.cmd.owner} : Mine(e, o) = Mine(d, o)
  BY <1>3, <1>5 DEF Mine
<1> QED BY <1>3, <1>4, <1>6, <1>7

\* The owner's revision counts the event, and nobody else's changes.
LEMMA AppendedRevs ==
  ASSUME NEW d, NEW x, NEW e, Grown(d, x, e)
  PROVE  /\ x.cmd.owner \in Owners /\ x.expected \in Nat
         /\ OwnerRev(d, x.cmd.owner) = x.expected
         /\ OwnerRev(e, x.cmd.owner) = x.expected + 1
         /\ \A o \in Owners \ {x.cmd.owner} : OwnerRev(e, o) = OwnerRev(d, o)
         /\ Cardinality(Mine(d, x.cmd.owner)) = x.expected
         /\ Cardinality(Mine(e, x.cmd.owner)) = x.expected + 1
         /\ RevsCount(e)
<1>. DEFINE o == x.cmd.owner
<1>0. RowsOf(d, x, e)
  BY AppendedIs
<1>1. d \in Content /\ DraftOf(x) /\ Fresh(d, x) /\ e = Appended(d, x) /\ RevsCount(d)
  BY DEF Grown
<1>2. /\ o \in Owners /\ (o \in Items \/ o \in Rooms) /\ Items \cap Rooms = {}
      /\ x.expected \in Nat /\ x.next.rev = x.expected + 1
  BY <1>1, CommandAssumption, IdentityAssumption DEF DraftOf, Command, Owners
<1>3. OwnerRev(d, o) = x.expected
  BY <1>1 DEF Fresh
<1>4. d.items \in [Items -> Item] /\ d.bindings \in [Rooms -> Binding]
  BY <1>1 DEF Content
<1>5. /\ OwnerRev(e, o) = x.expected + 1
      /\ \A p \in Owners \ {o} : OwnerRev(e, p) = OwnerRev(d, p)
  <2>1. CASE o \in Items
    <3>1. e.items = [d.items EXCEPT ![o] = x.next] /\ e.bindings = d.bindings
      BY <1>0, <2>1 DEF RowsOf
    <3>2. OwnerRev(e, o) = x.expected + 1
      BY <1>2, <1>4, <2>1, <3>1 DEF OwnerRev
    <3>3. \A p \in Owners \ {o} : OwnerRev(e, p) = OwnerRev(d, p)
      <4>. SUFFICES ASSUME NEW p \in Owners \ {o} PROVE OwnerRev(e, p) = OwnerRev(d, p)
        OBVIOUS
      <4>1. p \in Items => e.items[p] = d.items[p]
        BY <1>4, <3>1
      <4> QED BY <3>1, <4>1 DEF OwnerRev
    <3> QED BY <3>2, <3>3
  <2>2. CASE o \in Rooms
    <3>1. e.bindings = [d.bindings EXCEPT ![o] = x.next] /\ e.items = d.items
      BY <1>0, <2>2 DEF RowsOf
    <3>2. OwnerRev(e, o) = x.expected + 1
      BY <1>2, <1>4, <2>2, <3>1 DEF OwnerRev
    <3>3. \A p \in Owners \ {o} : OwnerRev(e, p) = OwnerRev(d, p)
      <4>. SUFFICES ASSUME NEW p \in Owners \ {o} PROVE OwnerRev(e, p) = OwnerRev(d, p)
        OBVIOUS
      <4>1. p \in Rooms => e.bindings[p] = d.bindings[p]
        BY <1>4, <3>1
      <4>2. p \in Items \/ p \in Rooms
        BY DEF Owners
      <4> QED BY <3>1, <4>1, <4>2 DEF OwnerRev
    <3> QED BY <3>2, <3>3
  <2> QED BY <1>2, <2>1, <2>2
<1>7. Cardinality(Mine(d, o)) = x.expected
  BY <1>1, <1>2, <1>3 DEF RevsCount
<1>8. Cardinality(Mine(e, o)) = x.expected + 1
  <2>1. Mine(e, o) = Mine(d, o) \cup {Len(d.log) + 1} /\ Len(d.log) \in Nat
    BY AppendedLog
  <2>2. IsFiniteSet(Mine(d, o)) /\ Len(d.log) + 1 \notin Mine(d, o)
    BY <1>1, MineFinite
  <2> QED BY <1>7, <2>1, <2>2, FS_AddElement
<1>9. RevsCount(e)
  <2>. SUFFICES ASSUME NEW p \in Owners PROVE OwnerRev(e, p) = Cardinality(Mine(e, p))
    BY DEF RevsCount
  <2>1. CASE p = o
    BY <2>1, <1>5, <1>8, <1>2
  <2>2. CASE p # o
    <3>1. Mine(e, p) = Mine(d, p)
      BY <2>2, AppendedLog
    <3> QED BY <3>1, <2>2, <1>1, <1>2, <1>5 DEF RevsCount
  <2> QED BY <2>1, <2>2
<1> QED BY <1>2, <1>3, <1>5, <1>7, <1>8, <1>9

\* A sound content lets an event in.
Onward(d, x, e) == Sound(d) /\ Appendable(d, x) /\ e = Appended(d, x)

\* An event appended to a sound content is appended to a content.
LEMMA OnwardGrown ==
  ASSUME NEW d, NEW x, NEW e, Onward(d, x, e)
  PROVE  Grown(d, x, e)
BY DEF Onward, Sound, Appendable, Grown

\* The kind of an event says whether its owner is new.
LEMMA KindsOwn ==
  ASSUME NEW d, NEW x, NEW e, Onward(d, x, e)
  PROVE  /\ x.cmd.owner \in Items =>
              /\ x.cmd.kind \in ItemKinds /\ ((x.cmd.kind = "create") <=> x.expected = 0)
              /\ <<d.items[x.cmd.owner].state, x.next.state>> \in Transitions[x.cmd.kind]
              /\ x.patch = Changed(d.items[x.cmd.owner], x.next)
              /\ x.patch \subseteq Patchable[x.cmd.kind]
         /\ x.cmd.owner \in Rooms => x.cmd.kind \in BindingKinds
         /\ x.cmd.owner \in Items \/ x.cmd.owner \in Rooms
         /\ ~(x.cmd.owner \in Items /\ x.cmd.owner \in Rooms)
<1>1. Fresh(d, x) /\ Allowed(d, x) /\ DraftOf(x)
  BY DEF Onward, Appendable
<1>2. /\ x.cmd.owner \in Items \/ x.cmd.owner \in Rooms
      /\ ~(x.cmd.owner \in Items /\ x.cmd.owner \in Rooms)
  BY <1>1, CommandAssumption, IdentityAssumption DEF DraftOf, Command, Owners
<1>3. CASE x.cmd.owner \in Items
  <2>1. x.expected = d.items[x.cmd.owner].rev
    BY <1>1, <1>3 DEF Fresh, OwnerRev
  <2>2. ItemAllowed(d, x)
    BY <1>1, <1>3 DEF Allowed
  <2> QED BY <1>2, <1>3, <2>1, <2>2 DEF ItemAllowed
<1>4. CASE x.cmd.owner \in Rooms
  BY <1>1, <1>2, <1>4 DEF Allowed, BindingAllowed
<1> QED BY <1>2, <1>3, <1>4

\* The appended event is valid by itself, and is its identity's first use.
LEMMA AppendedEvents ==
  ASSUME NEW d, NEW x, NEW e, Onward(d, x, e)
  PROVE  EventsHeld(e)
<1>1. Grown(d, x, e) /\ RowsOf(d, x, e)
  BY OnwardGrown, AppendedIs
<1>2. /\ EventsHeld(d) /\ DraftOf(x) /\ Fresh(d, x) /\ d \in Content
      /\ EventSeed(x.cmd) \in d.seeds /\ SeedsAreOwn(d) /\ e.seeds = d.seeds
  BY <1>1 DEF Onward, Sound, Doctor, Appendable, RowsOf
<1>3. /\ Len(d.log) \in Nat /\ x.gseq = Len(d.log) + 1
      /\ DOMAIN d.log = 1 .. Len(d.log) /\ DOMAIN e.log = 1 .. (Len(d.log) + 1)
      /\ \A n \in DOMAIN d.log : e.log[n] = d.log[n]
      /\ e.log[Len(d.log) + 1] = EntryOf(x)
  BY <1>1, AppendedLog
<1>4. x.expected \in Nat /\ Cardinality(Mine(d, x.cmd.owner)) = x.expected
  BY <1>1, AppendedRevs
<1>5. /\ x.after = GlobalHead(d) /\ x.prior = OwnerHead(d, x.cmd.owner)
      /\ x.after = None <=> Len(d.log) = 0
      /\ x.prior = None <=> x.expected = 0
  BY <1>2, <1>4, HeadsAre, MineFinite DEF Fresh
<1>6. /\ x.cmd.owner \in Items =>
           x.cmd.kind \in ItemKinds /\ ((x.cmd.kind = "create") <=> x.expected = 0)
      /\ x.cmd.owner \in Rooms => x.cmd.kind \in BindingKinds
      /\ x.cmd.owner \in Items \/ x.cmd.owner \in Rooms
      /\ ~(x.cmd.owner \in Items /\ x.cmd.owner \in Rooms)
  BY KindsOwn
<1>. DEFINE new == EntryOf(x)
<1>7. /\ new.seq = Len(d.log) + 1 /\ new.rev = x.expected + 1
      /\ new.after = x.after /\ new.prior = x.prior /\ new.kind = x.cmd.kind
      /\ new.owner = x.cmd.owner /\ new.to = Patch(x) /\ new.event = x.cmd.event
  BY <1>3 DEF EntryOf
<1>8. EventSeed(new) = EventSeed(x.cmd)
  BY <1>7 DEF EventSeed
<1>9. \A s : Seeded(e, s) <=> Seeded(d, s)
  BY <1>2 DEF Seeded, Collides
<1>10. Seeded(d, EventSeed(x.cmd))
  BY <1>2 DEF Seeded, Collides, SeedsAreOwn
<1>11. IF new.owner \in Items THEN ItemEvent(new) ELSE BindingEvent(new)
  <2>1. CASE x.cmd.owner \in Items
    <3>1. new.seq = 1 <=> Len(d.log) = 0
      BY <1>3, <1>7
    <3>2. new.rev = 1 <=> x.expected = 0
      BY <1>4, <1>7
    <3> QED BY <2>1, <3>1, <3>2, <1>5, <1>7, <1>6 DEF ItemEvent
  <2>2. CASE x.cmd.owner \in Rooms
    <3>1. Patch(x) = x.next /\ x.next.rev = x.expected + 1
      BY <2>2, <1>2, PatchIs DEF DraftOf
    <3>2. new.seq = 1 <=> Len(d.log) = 0
      BY <1>3, <1>7
    <3>3. new.rev = 1 <=> x.expected = 0
      BY <1>4, <1>7
    <3> QED BY <2>2, <3>1, <3>2, <3>3, <1>5, <1>7, <1>6 DEF BindingEvent
  <2> QED BY <2>1, <2>2, <1>6
<1>. HIDE DEF new
<1>12. ASSUME NEW n \in DOMAIN e.log
       PROVE  /\ IF e.log[n].owner \in Items THEN ItemEvent(e.log[n])
                                             ELSE BindingEvent(e.log[n])
              /\ Seeded(e, EventSeed(e.log[n]))
  <2>1. CASE n \in DOMAIN d.log
    BY <2>1, <1>2, <1>3, <1>9 DEF EventsHeld
  <2>2. CASE n = Len(d.log) + 1
    BY <2>2, <1>3, <1>8, <1>9, <1>10, <1>11 DEF new
  <2> QED BY <1>3, <2>1, <2>2
<1> QED BY <1>12 DEF EventsHeld

\* The chain from one event to the one before it, at one place of the log.
Linked(log, n) ==
  LET e == log[n]
      owned == {m \in 1 .. n - 1 : log[m].owner = e.owner} IN
  /\ e.seq = n
  /\ e.after = IF n = 1 THEN None ELSE log[n - 1].event
  /\ e.rev = Cardinality(owned) + 1
  /\ e.prior = IF owned = {} THEN None ELSE log[Max(owned)].event
  /\ \A m \in 1 .. n - 1 : log[m].event # e.event

\* The appended event is linked to the log and to the last event of its owner.
LEMMA AppendedChains ==
  ASSUME NEW d, NEW x, NEW e, Onward(d, x, e)
  PROVE  ChainsLinked(e)
<1>1. Grown(d, x, e) /\ RowsOf(d, x, e)
  BY OnwardGrown, AppendedIs
<1>2. ChainsLinked(d) /\ Fresh(d, x) /\ ~Taken(d, x) /\ d \in Content
  BY DEF Onward, Sound, Doctor, Appendable
<1>. DEFINE L == Len(d.log)
            o == x.cmd.owner
<1>3. /\ L \in Nat /\ x.gseq = L + 1
      /\ DOMAIN d.log = 1 .. L /\ DOMAIN e.log = 1 .. (L + 1)
      /\ \A n \in 1 .. L : e.log[n] = d.log[n]
      /\ e.log[L + 1] = EntryOf(x)
  BY <1>1, AppendedLog
<1>4. ASSUME NEW n \in 1 .. L PROVE Linked(e.log, n)
  <2>1. Linked(d.log, n)
    BY <1>2, <1>3 DEF ChainsLinked, Linked
  <2>2. \A m \in 1 .. n : e.log[m] = d.log[m]
    BY <1>3
  <2>. DEFINE owned == {m \in 1 .. n - 1 : d.log[m].owner = d.log[n].owner}
  <2>3. owned = {m \in 1 .. n - 1 : e.log[m].owner = e.log[n].owner}
    <3>1. \A m \in 1 .. n - 1 : e.log[m] = d.log[m]
      BY <1>3, <2>2
    <3>2. e.log[n] = d.log[n]
      BY <1>3
    <3> QED BY <3>1, <3>2
  <2>4. owned # {} => Max(owned) \in 1 .. n
    <3>1. owned \in SUBSET (0 .. n) /\ n \in Nat
      BY <1>3
    <3>2. owned # {} => Max(owned) \in owned
      BY <3>1, MaxIsIn
    <3> QED BY <1>3, <3>2
  <2>5. n # 1 => n - 1 \in 1 .. n
    BY <1>3
  <2>6. /\ d.log[n].seq = n
        /\ d.log[n].after = IF n = 1 THEN None ELSE d.log[n - 1].event
        /\ d.log[n].rev = Cardinality(owned) + 1
        /\ d.log[n].prior = IF owned = {} THEN None ELSE d.log[Max(owned)].event
        /\ \A m \in 1 .. n - 1 : d.log[m].event # d.log[n].event
    BY <2>1 DEF Linked
  <2>7. e.log[n] = d.log[n] /\ \A m \in 1 .. n - 1 : e.log[m] = d.log[m]
    BY <1>3, <2>2
  <2>8. e.log[n].after = IF n = 1 THEN None ELSE e.log[n - 1].event
    BY <2>2, <2>5, <2>6, <2>7
  <2>9. e.log[n].prior = IF owned = {} THEN None ELSE e.log[Max(owned)].event
    BY <2>2, <2>4, <2>6, <2>7
  <2>10. \A m \in 1 .. n - 1 : e.log[m].event # e.log[n].event
    BY <2>6, <2>7
  <2>. HIDE DEF owned
  <2> QED BY <2>3, <2>6, <2>7, <2>8, <2>9, <2>10 DEF Linked
<1>5. Linked(e.log, L + 1)
  <2>. DEFINE new == e.log[L + 1]
  <2>1. /\ new.seq = L + 1 /\ new.rev = x.expected + 1 /\ new.owner = o
        /\ new.after = GlobalHead(d) /\ new.prior = OwnerHead(d, o)
        /\ new.event = x.cmd.event
    BY <1>2, <1>3 DEF EntryOf, Fresh
  <2>2. {m \in 1 .. (L + 1) - 1 : e.log[m].owner = new.owner} = Mine(d, o)
    BY <1>3, <2>1 DEF Mine
  <2>3. Cardinality(Mine(d, o)) = x.expected
    BY <1>1, AppendedRevs
  <2>4. new.after = IF L + 1 = 1 THEN None ELSE e.log[(L + 1) - 1].event
    <3>1. L = 0 => GlobalHead(d) = None
      BY <1>2, HeadsAre
    <3>2. d.log \in Seq(Entry)
      BY <1>2 DEF Content
    <3>3. L # 0 => GlobalHead(d) = d.log[L].event /\ e.log[L] = d.log[L]
      BY <1>3, <3>2 DEF GlobalHead
    <3> QED BY <1>3, <2>1, <3>1, <3>3
  <2>5. Mine(d, o) # {} => new.prior = e.log[Max(Mine(d, o))].event
    <3>1. Mine(d, o) \in SUBSET (0 .. L)
      BY <1>3 DEF Mine
    <3>2. Mine(d, o) # {} => Max(Mine(d, o)) \in 1 .. L
      BY <1>3, <3>1, MaxIsIn DEF Mine
    <3>3. Mine(d, o) # {} => OwnerHead(d, o) = d.log[Max(Mine(d, o))].event
      BY <1>2, HeadsAre
    <3> QED BY <1>3, <2>1, <3>2, <3>3
  <2>6. Mine(d, o) = {} => new.prior = None
    BY <1>2, <2>1, HeadsAre
  <2>7. \A m \in 1 .. (L + 1) - 1 : e.log[m].event # new.event
    BY <1>2, <1>3, <2>1 DEF Taken
  <2> QED BY <2>1, <2>2, <2>3, <2>4, <2>5, <2>6, <2>7 DEF Linked
<1>6. \A n \in DOMAIN e.log : Linked(e.log, n)
  BY <1>3, <1>4, <1>5
<1> QED BY <1>6 DEF ChainsLinked, Linked

\* The history, and what the log says of it.
LEMMA AppendedHistory ==
  ASSUME NEW d, NEW x, NEW e, Onward(d, x, e)
  PROVE  HistoryWhole(e) /\ RevsReached(e)
<1>1. Grown(d, x, e) /\ RowsOf(d, x, e)
  BY OnwardGrown, AppendedIs
<1>2. /\ HistoryWhole(d) /\ RevsReached(d) /\ DraftOf(x) /\ d \in Content
      /\ d.history \in [Items -> Seq(Item)] /\ d.items \in [Items -> Item]
  BY DEF Onward, Sound, Appendable, Content
<1>. DEFINE L == Len(d.log)
            o == x.cmd.owner
<1>3. /\ L \in Nat /\ DOMAIN d.log = 1 .. L /\ DOMAIN e.log = 1 .. (L + 1)
      /\ \A n \in 1 .. L : e.log[n] = d.log[n]
      /\ e.log[L + 1] = EntryOf(x)
  BY <1>1, AppendedLog
<1>4. /\ o \in Owners /\ x.expected \in Nat /\ OwnerRev(d, o) = x.expected
      /\ OwnerRev(e, o) = x.expected + 1
      /\ \A p \in Owners \ {o} : OwnerRev(e, p) = OwnerRev(d, p)
  BY <1>1, AppendedRevs
<1>5. /\ e.log[L + 1].owner = o /\ e.log[L + 1].rev = x.expected + 1
      /\ e.log[L + 1].event = x.cmd.event
  BY <1>3 DEF EntryOf
<1>6. RevsReached(e)
  <2>. SUFFICES ASSUME NEW n \in 1 .. (L + 1)
                PROVE  e.log[n].rev > 0 /\ e.log[n].rev <= OwnerRev(e, e.log[n].owner)
    BY <1>3 DEF RevsReached
  <2>1. CASE n = L + 1
    BY <2>1, <1>4, <1>5
  <2>2. CASE n \in 1 .. L
    <3>1. /\ d.log[n].rev > 0 /\ d.log[n].rev <= OwnerRev(d, d.log[n].owner)
          /\ e.log[n] = d.log[n]
      BY <2>2, <1>2, <1>3 DEF RevsReached
    <3>2. d.log[n].rev \in Nat /\ d.log[n].owner \in Owners
      <4>1. d.log[n] \in Entry
        BY <2>2, <1>2, <1>3 DEF Content
      <4> QED BY <4>1 DEF Entry
    <3> QED BY <3>1, <3>2, <1>4
  <2> QED BY <1>3, <2>1, <2>2
<1>7. ASSUME NEW i \in Items
      PROVE  /\ Len(e.history[i]) = e.items[i].rev
             /\ e.items[i].rev = 0 => e.items[i] = NoItem
             /\ e.items[i].rev > 0 => e.items[i] = e.history[i][e.items[i].rev]
             /\ \A r \in DOMAIN e.history[i] :
                  \E n \in DOMAIN e.log : /\ e.log[n].owner = i /\ e.log[n].rev = r
                                          /\ e.log[n].event = e.history[i][r].event
  <2>1. CASE i # o
    <3>1. e.history[i] = d.history[i] /\ e.items[i] = d.items[i]
      BY <2>1, <1>1, <1>2, <1>4 DEF RowsOf, Owners
    <3>2. /\ Len(d.history[i]) = d.items[i].rev
          /\ d.items[i].rev = 0 => d.items[i] = NoItem
          /\ d.items[i].rev > 0 => d.items[i] = d.history[i][d.items[i].rev]
          /\ \A r \in DOMAIN d.history[i] :
               \E n \in DOMAIN d.log : /\ d.log[n].owner = i /\ d.log[n].rev = r
                                       /\ d.log[n].event = d.history[i][r].event
      BY <1>2 DEF HistoryWhole
    <3>3. ASSUME NEW r \in DOMAIN e.history[i]
          PROVE  \E n \in DOMAIN e.log : /\ e.log[n].owner = i /\ e.log[n].rev = r
                                         /\ e.log[n].event = e.history[i][r].event
      <4>1. PICK n \in DOMAIN d.log : /\ d.log[n].owner = i /\ d.log[n].rev = r
                                      /\ d.log[n].event = d.history[i][r].event
        BY <3>1, <3>2, <3>3
      <4>2. n \in DOMAIN e.log /\ e.log[n] = d.log[n]
        BY <4>1, <1>3
      <4> QED BY <4>1, <4>2, <3>1
    <3> QED BY <3>1, <3>2, <3>3
  <2>2. CASE i = o
    <3>1. /\ e.history[i] = Append(d.history[i], x.next) /\ e.items[i] = x.next
          /\ x.next \in Item /\ x.next.rev = x.expected + 1 /\ x.next.event = x.cmd.event
      BY <2>2, <1>1, <1>2 DEF RowsOf, DraftOf
    <3>2. d.history[i] \in Seq(Item) /\ Len(d.history[i]) = x.expected
      BY <2>2, <1>2, <1>4 DEF HistoryWhole, OwnerRev
    <3>3. /\ Len(e.history[i]) = x.expected + 1
          /\ e.history[i][x.expected + 1] = x.next
          /\ DOMAIN e.history[i] = 1 .. (x.expected + 1)
          /\ \A r \in 1 .. x.expected : /\ r \in DOMAIN d.history[i]
                                        /\ e.history[i][r] = d.history[i][r]
      BY <3>1, <3>2, <1>4
    <3>4. ASSUME NEW r \in 1 .. (x.expected + 1)
          PROVE  \E n \in DOMAIN e.log : /\ e.log[n].owner = i /\ e.log[n].rev = r
                                         /\ e.log[n].event = e.history[i][r].event
      <4>1. CASE r = x.expected + 1
        <5>1. L + 1 \in DOMAIN e.log
          BY <1>3
        <5> QED BY <4>1, <5>1, <2>2, <1>5, <3>1, <3>3
      <4>2. CASE r \in 1 .. x.expected
        <5>1. r \in DOMAIN d.history[i] /\ e.history[i][r] = d.history[i][r]
          BY <4>2, <3>3
        <5>2. PICK n \in DOMAIN d.log : /\ d.log[n].owner = i /\ d.log[n].rev = r
                                        /\ d.log[n].event = d.history[i][r].event
          BY <5>1, <1>2 DEF HistoryWhole
        <5>3. n \in DOMAIN e.log /\ e.log[n] = d.log[n]
          BY <5>2, <1>3
        <5> QED BY <5>1, <5>2, <5>3
      <4> QED BY <1>4, <4>1, <4>2
    <3>5. e.items[i].rev = x.expected + 1 /\ e.items[i].rev > 0
      BY <3>1, <1>4
    <3>6. e.items[i].rev > 0 => e.items[i] = e.history[i][e.items[i].rev]
      BY <3>1, <3>3, <3>5
    <3>7. \A r \in DOMAIN e.history[i] :
            \E n \in DOMAIN e.log : /\ e.log[n].owner = i /\ e.log[n].rev = r
                                    /\ e.log[n].event = e.history[i][r].event
      BY <3>3, <3>4
    <3> QED BY <3>3, <3>5, <3>6, <3>7
  <2> QED BY <2>1, <2>2
<1>8. HistoryWhole(e)
  BY <1>7 DEF HistoryWhole
<1> QED BY <1>6, <1>8

\* The events of an owner up to a revision that name a field, and what its
\* value is then.
Named(d, o, r, f) == {n \in Mine(d, o) : d.log[n].rev <= r /\ f \in DOMAIN d.log[n].to}
Told(d, o, none, r, f) ==
  IF Named(d, o, r, f) = {} THEN none[f] ELSE d.log[Max(Named(d, o, r, f))].to[f]

\* The replay of an owner, field by field.
LEMMA ReplayIs ==
  ASSUME NEW d, NEW o, NEW none
  PROVE  Replay(d, o, none) =
           [r \in 1 .. Cardinality(Mine(d, o)) |->
              [f \in DOMAIN none |-> Told(d, o, none, r, f)]]
BY DEF Replay, Told, Named, Mine

\* An event says nothing of what was before it, and of nobody else.
LEMMA ToldBefore ==
  ASSUME NEW d, NEW x, NEW e, Onward(d, x, e), NEW o \in Owners, NEW none, NEW f,
         NEW r \in Nat, o = x.cmd.owner => r <= x.expected
  PROVE  Told(e, o, none, r, f) = Told(d, o, none, r, f)
<1>1. Grown(d, x, e) /\ RowsOf(d, x, e)
  BY OnwardGrown, AppendedIs
<1>. DEFINE L == Len(d.log)
<1>2. /\ L \in Nat /\ DOMAIN d.log = 1 .. L
      /\ \A n \in 1 .. L : e.log[n] = d.log[n]
      /\ e.log[L + 1] = EntryOf(x)
      /\ Mine(e, x.cmd.owner) = Mine(d, x.cmd.owner) \cup {L + 1}
      /\ \A p \in Owners \ {x.cmd.owner} : Mine(e, p) = Mine(d, p)
  BY <1>1, AppendedLog
<1>3. x.expected \in Nat /\ e.log[L + 1].rev = x.expected + 1
  BY <1>1, <1>2, AppendedRevs DEF EntryOf
<1>4. Mine(d, o) \subseteq 1 .. L
  BY <1>2 DEF Mine
<1>5. Named(e, o, r, f) = Named(d, o, r, f)
  <2>1. CASE o = x.cmd.owner
    <3>1. ~(e.log[L + 1].rev <= r)
      BY <1>3, <2>1
    <3>2. \A n \in Mine(d, o) : e.log[n] = d.log[n]
      BY <1>2, <1>4
    <3> QED BY <1>2, <2>1, <3>1, <3>2 DEF Named
  <2>2. CASE o # x.cmd.owner
    <3>1. Mine(e, o) = Mine(d, o) /\ \A n \in Mine(d, o) : e.log[n] = d.log[n]
      BY <1>2, <1>4, <2>2
    <3> QED BY <3>1 DEF Named
  <2> QED BY <2>1, <2>2
<1>6. Named(d, o, r, f) # {} => Max(Named(d, o, r, f)) \in 1 .. L
  <2>1. Named(d, o, r, f) \in SUBSET (0 .. L) /\ Named(d, o, r, f) \subseteq 1 .. L
    BY <1>2, <1>4 DEF Named
  <2> QED BY <1>2, <2>1, MaxIsIn
<1> QED BY <1>2, <1>5, <1>6 DEF Told

\* A field that the event names has what the event says.
LEMMA ToldNow ==
  ASSUME NEW d, NEW x, NEW e, Onward(d, x, e), NEW none, NEW f \in DOMAIN Patch(x)
  PROVE  Told(e, x.cmd.owner, none, x.expected + 1, f) = x.next[f]
<1>1. Grown(d, x, e) /\ RowsOf(d, x, e) /\ DraftOf(x)
  BY OnwardGrown, AppendedIs DEF Grown
<1>. DEFINE L == Len(d.log)
            o == x.cmd.owner
            N == Named(e, o, x.expected + 1, f)
<1>2. /\ L \in Nat /\ DOMAIN d.log = 1 .. L
      /\ e.log[L + 1] = EntryOf(x)
      /\ Mine(e, o) = Mine(d, o) \cup {L + 1}
  BY <1>1, AppendedLog
<1>3. /\ x.expected \in Nat /\ e.log[L + 1].rev = x.expected + 1
      /\ e.log[L + 1].to = Patch(x)
  BY <1>1, <1>2, AppendedRevs DEF EntryOf
<1>4. N = (N \ {L + 1}) \cup {L + 1}
  BY <1>2, <1>3 DEF Named
<1>5. N \ {L + 1} \in SUBSET Nat /\ \A m \in N \ {L + 1} : m < L + 1
  BY <1>2 DEF Named, Mine
<1>6. Max(N) = L + 1
  <2>. HIDE DEF N
  <2>1. L + 1 \in Nat
    BY <1>2
  <2>2. Max((N \ {L + 1}) \cup {L + 1}) = L + 1
    BY <1>5, <2>1, MaxOfNew
  <2> QED BY <1>4, <2>2
<1>7. Patch(x)[f] = x.next[f]
  BY <1>1, PatchIs
<1> QED BY <1>3, <1>4, <1>6, <1>7 DEF Told

\* A field that the event does not name stays what it was.
LEMMA ToldStill ==
  ASSUME NEW d, NEW x, NEW e, Onward(d, x, e), NEW none, NEW f, f \notin DOMAIN Patch(x)
  PROVE  Told(e, x.cmd.owner, none, x.expected + 1, f)
           = Told(d, x.cmd.owner, none, x.expected, f)
<1>1. Grown(d, x, e) /\ RowsOf(d, x, e) /\ d \in Content /\ RevsReached(d)
  BY OnwardGrown, AppendedIs DEF Onward, Sound
<1>. DEFINE L == Len(d.log)
            o == x.cmd.owner
<1>2. /\ L \in Nat /\ DOMAIN d.log = 1 .. L
      /\ \A n \in 1 .. L : e.log[n] = d.log[n]
      /\ e.log[L + 1] = EntryOf(x)
      /\ Mine(e, o) = Mine(d, o) \cup {L + 1}
  BY <1>1, AppendedLog
<1>3. /\ x.expected \in Nat /\ OwnerRev(d, o) = x.expected
      /\ e.log[L + 1].to = Patch(x)
  BY <1>1, <1>2, AppendedRevs DEF EntryOf
<1>4. \A n \in Mine(d, o) : /\ n \in 1 .. L /\ e.log[n] = d.log[n]
                            /\ d.log[n].rev \in Nat /\ d.log[n].rev <= x.expected
  <2>. SUFFICES ASSUME NEW n \in Mine(d, o)
                PROVE  /\ n \in 1 .. L /\ e.log[n] = d.log[n]
                       /\ d.log[n].rev \in Nat /\ d.log[n].rev <= x.expected
    OBVIOUS
  <2>1. n \in 1 .. L /\ d.log[n].owner = o
    BY <1>2 DEF Mine
  <2>2. d.log[n] \in Entry
    BY <1>1, <1>2, <2>1 DEF Content
  <2> QED BY <1>1, <1>2, <1>3, <2>1, <2>2 DEF Entry, RevsReached
<1>5. Named(e, o, x.expected + 1, f) = Named(d, o, x.expected, f)
  <2>1. \A n \in Mine(d, o) : d.log[n].rev <= x.expected + 1
    BY <1>3, <1>4
  <2> QED BY <1>2, <1>3, <1>4, <2>1 DEF Named
<1>6. Named(d, o, x.expected, f) # {} => Max(Named(d, o, x.expected, f)) \in 1 .. L
  <2>1. /\ Named(d, o, x.expected, f) \in SUBSET (0 .. L)
        /\ Named(d, o, x.expected, f) \subseteq 1 .. L
    BY <1>2, <1>4 DEF Named
  <2> QED BY <1>2, <2>1, MaxIsIn
<1> QED BY <1>2, <1>5, <1>6 DEF Told

\* An item's rows are what the replay of its events gives.
ItemAgrees(d, i) ==
  LET h == Replay(d, i, NoItem) IN
  /\ d.history[i] = h
  /\ d.items[i] = IF h = <<>> THEN NoItem ELSE h[Len(h)]
  /\ \A r \in DOMAIN h : ValidItem(h[r])
  /\ h # <<>> => Seeded(d, [id |-> i, kind |-> "item"])

RoomAgrees(d, r) ==
  LET h == Replay(d, r, EmptyDB.bindings[r]) IN
  /\ d.bindings[r] = IF h = <<>> THEN EmptyDB.bindings[r] ELSE h[Len(h)]
  /\ h # <<>> => Seeded(d, [id |-> r, kind |-> "room"])

\* The projections agree when those of every item and of every room do.
LEMMA AgreeParts ==
  ASSUME NEW d
  PROVE  ProjectionsAgree(d) <=> /\ \A i \in Items : ItemAgrees(d, i)
                                 /\ \A r \in Rooms : RoomAgrees(d, r)
BY DEF ProjectionsAgree, ItemAgrees, RoomAgrees

\* The replay as a sequence.
LEMMA ReplaySeq ==
  ASSUME NEW d \in Content, NEW o, NEW none
  PROVE  LET h == Replay(d, o, none)
             n == Cardinality(Mine(d, o)) IN
         /\ n \in Nat /\ Len(h) = n /\ DOMAIN h = 1 .. n
         /\ h = <<>> <=> n = 0
         /\ \A r \in 1 .. n : h[r] = [f \in DOMAIN none |-> Told(d, o, none, r, f)]
<1>. DEFINE n == Cardinality(Mine(d, o))
            h == Replay(d, o, none)
            V(r) == [f \in DOMAIN none |-> Told(d, o, none, r, f)]
<1>1. n \in Nat
  BY MineFinite
<1>2. h = [r \in 1 .. n |-> V(r)]
  BY ReplayIs
<1>. HIDE DEF n, h, V
<1>3. h \in Seq({V(r) : r \in 1 .. n})
  BY <1>1, <1>2
<1>4. DOMAIN h = 1 .. n /\ Len(h) = n /\ \A r \in 1 .. n : h[r] = V(r)
  BY <1>1, <1>2, <1>3
<1>5. h = <<>> <=> n = 0
  BY <1>1, <1>3, <1>4
<1> QED BY <1>1, <1>4, <1>5 DEF n, h, V

\* The replay of an owner that the event is not about.
LEMMA ReplayElse ==
  ASSUME NEW d, NEW x, NEW e, Onward(d, x, e), NEW o \in Owners \ {x.cmd.owner}, NEW none
  PROVE  Replay(e, o, none) = Replay(d, o, none)
<1>1. Grown(d, x, e) /\ d \in Content
  BY OnwardGrown DEF Onward, Sound
<1>2. Mine(e, o) = Mine(d, o) /\ Cardinality(Mine(d, o)) \in Nat
  BY <1>1, AppendedLog, MineFinite
<1>3. \A r \in 1 .. Cardinality(Mine(d, o)), f \in DOMAIN none :
        Told(e, o, none, r, f) = Told(d, o, none, r, f)
  BY <1>2, ToldBefore
<1>4. /\ Replay(e, o, none) = [r \in 1 .. Cardinality(Mine(e, o)) |->
                                 [f \in DOMAIN none |-> Told(e, o, none, r, f)]]
      /\ Replay(d, o, none) = [r \in 1 .. Cardinality(Mine(d, o)) |->
                                 [f \in DOMAIN none |-> Told(d, o, none, r, f)]]
  BY ReplayIs
<1> QED BY <1>2, <1>3, <1>4

\* The replay of the event's owner: one revision more.
LEMMA ReplayOwner ==
  ASSUME NEW d, NEW x, NEW e, Onward(d, x, e), NEW none
  PROVE  LET o == x.cmd.owner
             h == Replay(e, o, none) IN
         /\ Len(h) = x.expected + 1 /\ DOMAIN h = 1 .. (x.expected + 1) /\ h # <<>>
         /\ \A r \in 1 .. x.expected : h[r] = Replay(d, o, none)[r]
         /\ h[x.expected + 1] =
              [f \in DOMAIN none |->
                 IF f \in DOMAIN Patch(x) THEN x.next[f] ELSE Told(d, o, none, x.expected, f)]
<1>. DEFINE o == x.cmd.owner
            E(r) == [f \in DOMAIN none |-> Told(e, o, none, r, f)]
            D(r) == [f \in DOMAIN none |-> Told(d, o, none, r, f)]
<1>1. Grown(d, x, e) /\ RowsOf(d, x, e) /\ d \in Content /\ e \in Content
  <2>1. Grown(d, x, e)
    BY OnwardGrown
  <2>2. RowsOf(d, x, e)
    BY <2>1, AppendedIs
  <2> QED BY <2>1, <2>2 DEF Grown, RowsOf
<1>2. /\ Cardinality(Mine(d, o)) = x.expected /\ Cardinality(Mine(e, o)) = x.expected + 1
      /\ x.expected \in Nat /\ o \in Owners
  BY <1>1, AppendedRevs
<1>3. /\ Len(Replay(e, o, none)) = x.expected + 1
      /\ DOMAIN Replay(e, o, none) = 1 .. (x.expected + 1)
      /\ Replay(e, o, none) # <<>>
      /\ \A r \in 1 .. (x.expected + 1) : Replay(e, o, none)[r] = E(r)
  BY <1>1, <1>2, ReplaySeq
<1>4. \A r \in 1 .. x.expected : Replay(d, o, none)[r] = D(r)
  BY <1>1, <1>2, ReplaySeq
<1>5. \A r \in 1 .. x.expected : E(r) = D(r)
  BY <1>2, ToldBefore
<1>6. E(x.expected + 1) =
        [f \in DOMAIN none |->
           IF f \in DOMAIN Patch(x) THEN x.next[f] ELSE Told(d, o, none, x.expected, f)]
  <2>1. \A f \in DOMAIN none :
          Told(e, o, none, x.expected + 1, f) =
            IF f \in DOMAIN Patch(x) THEN x.next[f] ELSE Told(d, o, none, x.expected, f)
    BY ToldNow, ToldStill
  <2> QED BY <2>1
<1>. HIDE DEF E, D
<1>7. \A r \in 1 .. x.expected : Replay(e, o, none)[r] = Replay(d, o, none)[r]
  BY <1>2, <1>3, <1>4, <1>5
<1>8. Replay(e, o, none)[x.expected + 1] = E(x.expected + 1)
  BY <1>2, <1>3
<1> QED BY <1>3, <1>6, <1>7, <1>8

\* A field that is not among the changed ones is the same.
LEMMA SameUnchanged ==
  ASSUME NEW cur \in Item, NEW new \in Item, NEW f \in Fields,
         f \notin Changed(cur, new), f \notin {"rev", "event"}
  PROVE  cur[f] = new[f]
BY DEF Changed, Fields, Item

\* The item's row and history are what its events replay to.
LEMMA AppendedItem ==
  ASSUME NEW d, NEW x, NEW e, Onward(d, x, e), x.cmd.owner \in Items
  PROVE  ItemAgrees(e, x.cmd.owner)
<1>. DEFINE i == x.cmd.owner
            n == x.expected
            cur == d.items[i]
            h == Replay(e, i, NoItem)
<1>1. Grown(d, x, e) /\ RowsOf(d, x, e) /\ DraftOf(x) /\ d \in Content
  BY OnwardGrown, AppendedIs DEF Grown
<1>2. /\ ItemAgrees(d, i) /\ HistoryWhole(d) /\ SeedsAreOwn(d)
      /\ OwnerSeed(x.cmd) \in d.seeds /\ e.seeds = d.seeds
      /\ d.history \in [Items -> Seq(Item)] /\ d.items \in [Items -> Item]
  BY <1>1, AgreeParts DEF Onward, Sound, Doctor, Appendable, RowsOf, Content
<1>3. n \in Nat /\ OwnerRev(d, i) = n
  BY <1>1, AppendedRevs
<1>4. /\ x.next \in Item /\ ValidItem(x.next) /\ DOMAIN NoItem = Fields
      /\ e.items[i] = x.next /\ e.history[i] = Append(d.history[i], x.next)
  BY <1>1, <1>2 DEF RowsOf, DraftOf, NoItem, Fields
<1>5. /\ d.history[i] \in Seq(Item) /\ Len(d.history[i]) = n
      /\ n > 0 => cur = d.history[i][n]
      /\ d.history[i] = Replay(d, i, NoItem)
  BY <1>2, <1>3 DEF HistoryWhole, OwnerRev, ItemAgrees
<1>6. /\ Len(h) = n + 1 /\ DOMAIN h = 1 .. (n + 1) /\ h # <<>>
      /\ \A r \in 1 .. n : h[r] = Replay(d, i, NoItem)[r]
      /\ h[n + 1] = [f \in Fields |->
                       IF f \in DOMAIN Patch(x) THEN x.next[f] ELSE Told(d, i, NoItem, n, f)]
  <2>1. /\ Len(h) = n + 1 /\ DOMAIN h = 1 .. (n + 1) /\ h # <<>>
        /\ \A r \in 1 .. n : h[r] = Replay(d, i, NoItem)[r]
        /\ h[n + 1] = [f \in DOMAIN NoItem |->
                         IF f \in DOMAIN Patch(x) THEN x.next[f] ELSE Told(d, i, NoItem, n, f)]
    BY ReplayOwner
  <2> QED BY <2>1, <1>4
<1>7. h[n + 1] = x.next
  <2>1. \A f \in Fields \ DOMAIN Patch(x) : Told(d, i, NoItem, n, f) = x.next[f]
    <3>. SUFFICES ASSUME NEW f \in Fields \ DOMAIN Patch(x)
                  PROVE  Told(d, i, NoItem, n, f) = x.next[f]
      OBVIOUS
    <3>1. n # 0 /\ f \notin x.patch /\ f \notin {"rev", "event"}
      BY <1>1, PatchIs
    <3>2. x.patch = Changed(cur, x.next)
      BY KindsOwn
    <3>3. cur[f] = x.next[f]
      BY <1>2, <1>4, <3>1, <3>2, SameUnchanged
    <3>4. n > 0 /\ n \in 1 .. n
      BY <1>3, <3>1
    <3>5. Replay(d, i, NoItem)[n] = [g \in Fields |-> Told(d, i, NoItem, n, g)]
      <4>1. Cardinality(Mine(d, i)) = n
        BY <1>1, AppendedRevs
      <4> QED BY <1>1, <1>4, <3>4, <4>1, ReplaySeq
    <3>6. cur = [g \in Fields |-> Told(d, i, NoItem, n, g)]
      BY <1>5, <3>4, <3>5
    <3>7. cur[f] = Told(d, i, NoItem, n, f)
      BY <3>6
    <3> QED BY <3>3, <3>7
  <2>2. h[n + 1] = [f \in Fields |-> x.next[f]]
    BY <1>6, <2>1
  <2> QED BY <1>4, <2>2, ItemFields
<1>8. e.history[i] = h
  <2>1. /\ e.history[i] \in Seq(Item) /\ DOMAIN e.history[i] = 1 .. (n + 1)
        /\ \A r \in 1 .. n : e.history[i][r] = d.history[i][r]
        /\ e.history[i][n + 1] = x.next
    BY <1>3, <1>4, <1>5
  <2>2. \A r \in 1 .. (n + 1) : e.history[i][r] = h[r]
    <3>1. \A r \in 1 .. n : e.history[i][r] = h[r]
      BY <2>1, <1>5, <1>6
    <3>2. e.history[i][n + 1] = h[n + 1]
      BY <2>1, <1>7
    <3>3. \A r \in 1 .. (n + 1) : r \in 1 .. n \/ r = n + 1
      BY <1>3
    <3>. HIDE DEF h, n, i
    <3> QED BY <3>1, <3>2, <3>3
  <2>3. h = [r \in DOMAIN h |-> h[r]]
    BY ReplayIs
  <2>4. e.history[i] = [r \in 1 .. (n + 1) |-> e.history[i][r]]
    <3>1. \A q \in Seq(Item) : q = [r \in DOMAIN q |-> q[r]]
      OBVIOUS
    <3> QED BY <2>1, <3>1
  <2>. HIDE DEF h
  <2> QED BY <2>2, <2>3, <2>4, <1>6
<1>9. e.items[i] = IF h = <<>> THEN NoItem ELSE h[Len(h)]
  BY <1>4, <1>6, <1>7
<1>10. \A r \in DOMAIN h : ValidItem(h[r])
  <2>. SUFFICES ASSUME NEW r \in 1 .. (n + 1) PROVE ValidItem(h[r])
    BY <1>6
  <2>1. CASE r = n + 1
    BY <2>1, <1>4, <1>7
  <2>2. CASE r \in 1 .. n
    <3>1. h[r] = Replay(d, i, NoItem)[r] /\ r \in DOMAIN Replay(d, i, NoItem)
      BY <2>2, <1>5, <1>6
    <3>2. \A q \in DOMAIN Replay(d, i, NoItem) : ValidItem(Replay(d, i, NoItem)[q])
      BY <1>2 DEF ItemAgrees
    <3> QED BY <3>1, <3>2
  <2> QED BY <1>3, <2>1, <2>2
<1>11. Seeded(e, [id |-> i, kind |-> "item"])
  <2>1. OwnerSeed(x.cmd) = [id |-> i, kind |-> "item"]
    BY DEF OwnerSeed
  <2> QED BY <2>1, <1>2 DEF Seeded, Collides, SeedsAreOwn
<1> QED BY <1>8, <1>9, <1>10, <1>11 DEF ItemAgrees

\* The room's binding is what its events replay to.
LEMMA AppendedRoom ==
  ASSUME NEW d, NEW x, NEW e, Onward(d, x, e), x.cmd.owner \in Rooms
  PROVE  RoomAgrees(e, x.cmd.owner)
<1>. DEFINE r == x.cmd.owner
            n == x.expected
            none == EmptyDB.bindings[r]
            h == Replay(e, r, none)
<1>1. Grown(d, x, e) /\ RowsOf(d, x, e) /\ DraftOf(x) /\ d \in Content
  BY OnwardGrown, AppendedIs DEF Grown
<1>2. /\ SeedsAreOwn(d) /\ OwnerSeed(x.cmd) \in d.seeds /\ e.seeds = d.seeds
      /\ d.bindings \in [Rooms -> Binding]
  BY <1>1 DEF Onward, Sound, Appendable, RowsOf, Content
<1>3. DOMAIN none = {"rev", "project"}
  BY DEF EmptyDB
<1>4. x.next \in Binding /\ Patch(x) = x.next /\ e.bindings[r] = x.next
  BY <1>1, <1>2, PatchIs DEF RowsOf, DraftOf
<1>5. DOMAIN x.next = {"rev", "project"} /\ x.next = [f \in {"rev", "project"} |-> x.next[f]]
  BY <1>4, BindingFields
<1>. HIDE DEF none
<1>6. /\ Len(h) = n + 1 /\ h # <<>>
      /\ h[n + 1] = [f \in DOMAIN none |->
                       IF f \in DOMAIN Patch(x) THEN x.next[f] ELSE Told(d, r, none, n, f)]
  BY ReplayOwner
<1>7. h[n + 1] = x.next
  BY <1>3, <1>4, <1>5, <1>6
<1>8. e.bindings[r] = IF h = <<>> THEN none ELSE h[Len(h)]
  BY <1>4, <1>6, <1>7
<1>9. Seeded(e, [id |-> r, kind |-> "room"])
  <2>1. r \notin Items
    BY IdentityAssumption
  <2>2. OwnerSeed(x.cmd) = [id |-> r, kind |-> "room"]
    BY <2>1 DEF OwnerSeed
  <2> QED BY <2>2, <1>2 DEF Seeded, Collides, SeedsAreOwn
<1> QED BY <1>8, <1>9 DEF RoomAgrees, none

\* After an event the rows of every owner are still what the log says.
LEMMA AppendedProjections ==
  ASSUME NEW d, NEW x, NEW e, Onward(d, x, e)
  PROVE  ProjectionsAgree(e)
<1>1. Grown(d, x, e) /\ RowsOf(d, x, e) /\ ProjectionsAgree(d) /\ d \in Content
  BY OnwardGrown, AppendedIs DEF Onward, Sound, Doctor
<1>2. \A s : Seeded(e, s) <=> Seeded(d, s)
  BY <1>1 DEF RowsOf, Seeded, Collides
<1>3. d.items \in [Items -> Item] /\ d.history \in [Items -> Seq(Item)]
      /\ d.bindings \in [Rooms -> Binding]
  BY <1>1 DEF Content
<1>4. /\ x.cmd.owner \in Items \/ x.cmd.owner \in Rooms
      /\ ~(x.cmd.owner \in Items /\ x.cmd.owner \in Rooms)
  BY KindsOwn
<1>5. ASSUME NEW i \in Items PROVE ItemAgrees(e, i)
  <2>1. CASE i = x.cmd.owner
    BY <2>1, AppendedItem
  <2>2. CASE i # x.cmd.owner
    <3>1. i \in Owners \ {x.cmd.owner}
      BY <2>2 DEF Owners
    <3>2. Replay(e, i, NoItem) = Replay(d, i, NoItem)
      BY <3>1, ReplayElse
    <3>3. e.items[i] = d.items[i] /\ e.history[i] = d.history[i]
      BY <2>2, <1>1, <1>3, <1>4 DEF RowsOf
    <3>4. ItemAgrees(d, i)
      BY <1>1, AgreeParts
    <3> QED BY <3>2, <3>3, <3>4, <1>2 DEF ItemAgrees
  <2> QED BY <2>1, <2>2
<1>6. ASSUME NEW r \in Rooms PROVE RoomAgrees(e, r)
  <2>1. CASE r = x.cmd.owner
    BY <2>1, AppendedRoom
  <2>2. CASE r # x.cmd.owner
    <3>1. r \in Owners \ {x.cmd.owner}
      BY <2>2 DEF Owners
    <3>2. Replay(e, r, EmptyDB.bindings[r]) = Replay(d, r, EmptyDB.bindings[r])
      BY <3>1, ReplayElse
    <3>3. e.bindings[r] = d.bindings[r]
      BY <2>2, <1>1, <1>3, <1>4 DEF RowsOf
    <3>4. RoomAgrees(d, r)
      BY <1>1, AgreeParts
    <3> QED BY <3>2, <3>3, <3>4, <1>2 DEF RoomAgrees
  <2> QED BY <2>1, <2>2
<1> QED BY <1>5, <1>6, AgreeParts

\* What was written stays, and a history grows by the event's revision.
LEMMA AppendedExtends ==
  ASSUME NEW d, NEW x, NEW e, Onward(d, x, e)
  PROVE  Extends(d, e)
<1>1. Grown(d, x, e) /\ RowsOf(d, x, e)
  BY OnwardGrown, AppendedIs
<1>2. /\ ~Taken(d, x) /\ d \in Content
      /\ d.history \in [Items -> Seq(Item)]
      /\ d.receipts \in [Keys -> Receipt \cup {None}]
  BY DEF Onward, Appendable, Sound, Content
<1>3. /\ Len(d.log) \in Nat /\ Len(e.log) = Len(d.log) + 1
      /\ \A n \in DOMAIN d.log : e.log[n] = d.log[n]
  BY <1>1, AppendedLog
<1>4. ASSUME NEW i \in Items, NEW r \in DOMAIN d.history[i]
      PROVE  r \in DOMAIN e.history[i] /\ e.history[i][r] = d.history[i][r]
  <2>1. CASE i = x.cmd.owner
    <3>1. e.history[i] = Append(d.history[i], x.next) /\ d.history[i] \in Seq(Item)
      BY <2>1, <1>1, <1>2 DEF RowsOf
    <3> QED BY <3>1
  <2>2. CASE i # x.cmd.owner
    <3>1. x.cmd.owner \in Items \/ x.cmd.owner \in Rooms
      BY KindsOwn
    <3>2. e.history[i] = d.history[i]
      BY <2>2, <3>1, <1>1, <1>2 DEF RowsOf
    <3> QED BY <3>2
  <2> QED BY <2>1, <2>2
<1>5. ASSUME NEW k \in Keys, d.receipts[k] # None PROVE e.receipts[k] = d.receipts[k]
  <2>1. d.receipts[x.cmd.key] = None
    BY <1>2 DEF Taken
  <2>2. e.receipts = [d.receipts EXCEPT ![x.cmd.key] = [cmd |-> x.cmd, seq |-> x.gseq]]
    BY <1>1 DEF RowsOf
  <2> QED BY <2>1, <2>2, <1>2, <1>5
<1>6. /\ d.seeds = e.seeds /\ d.joint = e.joint /\ d.coverage = e.coverage
      /\ d.bundles = e.bundles /\ d.lineage = e.lineage
  BY <1>1 DEF RowsOf
<1>7. ASSUME NEW o \in Owners PROVE OwnerRev(d, o) <= OwnerRev(e, o)
  <2>1. /\ x.expected \in Nat
        /\ OwnerRev(d, x.cmd.owner) = x.expected
        /\ OwnerRev(e, x.cmd.owner) = x.expected + 1
        /\ \A p \in Owners \ {x.cmd.owner} : OwnerRev(e, p) = OwnerRev(d, p)
    BY <1>1, AppendedRevs
  <2>2. OwnerRev(d, o) \in Nat
    BY <1>2 DEF OwnerRev, Content, Item, Binding, Owners
  <2> QED BY <2>1, <2>2
<1> QED BY <1>3, <1>4, <1>5, <1>6, <1>7 DEF Extends

\* Receipts, dispositions, coverage and joint receipts agree with the longer log.
LEMMA AppendedRest ==
  ASSUME NEW d, NEW x, NEW e, Onward(d, x, e)
  PROVE  /\ LineageAgrees(e) /\ ReceiptsAgree(e) /\ CoverageAgrees(e)
         /\ JointAgrees(e) /\ BundlesAgree(e) /\ SeedsAreOwn(e)
<1>1. Grown(d, x, e) /\ RowsOf(d, x, e) /\ Extends(d, e)
  BY OnwardGrown, AppendedIs, AppendedExtends
<1>2. /\ ~Taken(d, x) /\ Fresh(d, x) /\ DraftOf(x) /\ d \in Content /\ Doctor(d)
      /\ SeedsAreOwn(d) /\ d.receipts \in [Keys -> Receipt \cup {None}]
      /\ d.lineage \in SUBSET Disposition
  BY DEF Onward, Appendable, Sound, Content
<1>. DEFINE L == Len(d.log)
            k0 == x.cmd.key
            receipt == [cmd |-> x.cmd, seq |-> x.gseq]
<1>3. /\ L \in Nat /\ x.gseq = L + 1
      /\ DOMAIN d.log = 1 .. L /\ DOMAIN e.log = 1 .. (L + 1)
      /\ \A n \in DOMAIN d.log : e.log[n] = d.log[n]
      /\ e.log[L + 1] = EntryOf(x)
  BY <1>1, AppendedLog
<1>4. /\ e.seeds = d.seeds /\ e.joint = d.joint /\ e.coverage = d.coverage
      /\ e.bundles = d.bundles /\ e.lineage = d.lineage
      /\ e.receipts = [d.receipts EXCEPT ![k0] = receipt]
  BY <1>1 DEF RowsOf
<1>5. \A n \in DOMAIN d.log : n \in DOMAIN e.log /\ e.log[n] = d.log[n]
  BY <1>3
<1>6. LineageAgrees(e)
  <2>. SUFFICES ASSUME NEW l \in e.lineage
                PROVE  /\ l.rev \in DOMAIN e.history[l.item]
                       /\ LET is == e.history[l.item][l.rev] IN
                            is.event = l.event /\ is.op = l.op
                       /\ \E n \in DOMAIN e.log :
                            /\ e.log[n].event = l.event
                            /\ e.log[n].owner = l.item /\ e.log[n].rev = l.rev
    BY DEF LineageAgrees
  <2>1. l \in d.lineage /\ l.item \in Items
    BY <1>2, <1>4 DEF Disposition
  <2>2. /\ l.rev \in DOMAIN d.history[l.item]
        /\ d.history[l.item][l.rev].event = l.event /\ d.history[l.item][l.rev].op = l.op
        /\ \E n \in DOMAIN d.log : /\ d.log[n].event = l.event
                                   /\ d.log[n].owner = l.item /\ d.log[n].rev = l.rev
    BY <2>1, <1>2 DEF Doctor, LineageAgrees
  <2>3. /\ l.rev \in DOMAIN e.history[l.item]
        /\ e.history[l.item][l.rev] = d.history[l.item][l.rev]
    BY <2>1, <2>2, <1>1 DEF Extends
  <2> QED BY <2>2, <2>3, <1>5
<1>7. /\ e.receipts[k0] = receipt /\ k0 \in Keys /\ receipt # None
      /\ \A k \in Keys \ {k0} : e.receipts[k] = d.receipts[k]
      /\ d.receipts[k0] = None /\ receipt.cmd = x.cmd /\ receipt.seq = x.gseq
  <2>1. k0 \in Keys /\ receipt \in Receipt
    BY <1>2, CommandAssumption DEF DraftOf, Command, Receipt
  <2> QED BY <2>1, <1>2, <1>4, NoneAssumption DEF Taken
<1>8. /\ e.log[L + 1].key = k0 /\ e.log[L + 1].event = x.cmd.event
      /\ e.log[L + 1].seq = L + 1 /\ L + 1 \in DOMAIN e.log
  BY <1>3 DEF EntryOf
<1>9. ReceiptsAgree(e)
  <2>. DEFINE heldD == {k \in Keys : d.receipts[k] # None}
              heldE == {k \in Keys : e.receipts[k] # None}
  <2>1. heldE = heldD \cup {k0}
    BY <1>7
  <2>2. /\ \A k \in heldD : \E n \in DOMAIN d.log :
              /\ d.log[n].key = k /\ d.log[n].event = d.receipts[k].cmd.event
              /\ d.log[n].seq = d.receipts[k].seq
        /\ {d.receipts[k].cmd.event : k \in heldD} = {d.log[n].event : n \in DOMAIN d.log}
    BY <1>2 DEF Doctor, ReceiptsAgree
  <2>3. \A k \in heldD : k \in Keys \ {k0} /\ e.receipts[k] = d.receipts[k]
    BY <1>7
  <2>4. ASSUME NEW k \in heldE
        PROVE  \E n \in DOMAIN e.log :
                 /\ e.log[n].key = k /\ e.log[n].event = e.receipts[k].cmd.event
                 /\ e.log[n].seq = e.receipts[k].seq
    <3>1. CASE k = k0
      BY <3>1, <1>3, <1>7, <1>8
    <3>2. CASE k \in heldD
      BY <3>2, <1>5, <2>2, <2>3
    <3> QED BY <2>1, <3>1, <3>2
  <2>. HIDE DEF heldD, heldE
  <2>5. {e.receipts[k].cmd.event : k \in heldE}
          = {d.receipts[k].cmd.event : k \in heldD} \cup {x.cmd.event}
    BY <2>1, <2>3, <1>7
  <2>6. {e.log[n].event : n \in DOMAIN e.log}
          = {d.log[n].event : n \in DOMAIN d.log} \cup {x.cmd.event}
    BY <1>3, <1>5, <1>8
  <2> QED BY <2>2, <2>4, <2>5, <2>6 DEF ReceiptsAgree, heldE
<1>10. \A s : Seeded(e, s) <=> Seeded(d, s)
  BY <1>4 DEF Seeded, Collides
<1>11. CoverageAgrees(e) /\ JointAgrees(e)
  BY <1>2, <1>4, <1>10 DEF Doctor, CoverageAgrees, JointAgrees
<1>12. BundlesAgree(e)
  BY <1>2, <1>4, <1>5 DEF Doctor, BundlesAgree
<1>13. SeedsAreOwn(e)
  BY <1>2, <1>4 DEF SeedsAreOwn
<1> QED BY <1>6, <1>9, <1>11, <1>12, <1>13

\* The revisions that an item had are the ones it has.
LEMMA HistoryKept ==
  ASSUME NEW d, NEW x, NEW e, Onward(d, x, e), NEW i \in Items,
         NEW r \in 1 .. d.items[i].rev
  PROVE  e.history[i][r] = d.history[i][r]
<1>1. Extends(d, e) /\ HistoryWhole(d) /\ d.history \in [Items -> Seq(Item)]
  BY AppendedExtends DEF Onward, Sound, Content
<1>2. Len(d.history[i]) = d.items[i].rev /\ DOMAIN d.history[i] = 1 .. Len(d.history[i])
  BY <1>1 DEF HistoryWhole
<1> QED BY <1>1, <1>2 DEF Extends

\* The item's row before the event, and after it, in its history.
LEMMA AppendedRows ==
  ASSUME NEW d, NEW x, NEW e, Onward(d, x, e), x.cmd.owner \in Items
  PROVE  /\ x.expected \in Nat /\ d.items[x.cmd.owner].rev = x.expected
         /\ e.history[x.cmd.owner][x.expected + 1] = x.next
         /\ x.expected > 0 =>
              e.history[x.cmd.owner][x.expected] = d.items[x.cmd.owner]
         /\ x.next \in Item /\ ValidItem(x.next) /\ d.items[x.cmd.owner] \in Item
<1>. DEFINE o == x.cmd.owner
<1>1. /\ RowsOf(d, x, e) /\ HistoryWhole(d) /\ DraftOf(x) /\ d \in Content
      /\ d.history \in [Items -> Seq(Item)] /\ d.items \in [Items -> Item]
  BY OnwardGrown, AppendedIs DEF Onward, Sound, Content, Appendable
<1>2. x.expected \in Nat /\ OwnerRev(d, o) = x.expected
  BY OnwardGrown, AppendedRevs
<1>3. d.items[o].rev = x.expected
  BY <1>2 DEF OwnerRev
<1>4. x.next \in Item /\ ValidItem(x.next)
  BY <1>1 DEF DraftOf
<1>5. e.history[o] = Append(d.history[o], x.next) /\ d.history[o] \in Seq(Item)
  BY <1>1 DEF RowsOf
<1>6. Len(d.history[o]) = x.expected
  BY <1>1, <1>3 DEF HistoryWhole
<1>7. e.history[o][x.expected + 1] = x.next
  <2>1. PICK h, v : h = d.history[o] /\ v = x.next
    OBVIOUS
  <2>2. h \in Seq(Item) /\ Len(h) = x.expected /\ e.history[o] = Append(h, v)
    BY <2>1, <1>5, <1>6
  <2>3. Append(h, v)[Len(h) + 1] = v
    BY <2>2
  <2> QED BY <2>1, <2>2, <2>3
<1>8. x.expected > 0 => e.history[o][x.expected] = d.items[o]
  <2>. SUFFICES ASSUME x.expected > 0 PROVE e.history[o][x.expected] = d.items[o]
    OBVIOUS
  <2>1. d.items[o] = d.history[o][x.expected]
    BY <1>1, <1>3 DEF HistoryWhole
  <2>2. x.expected \in 1 .. d.items[o].rev
    BY <1>2, <1>3
  <2> QED BY <2>1, <2>2, HistoryKept
<1> QED BY <1>1, <1>2, <1>3, <1>4, <1>7, <1>8

\* A merge that is let in undoes nothing, and was drafted on a revision that
\* the item already had.
LEMMA AppendedMerges ==
  ASSUME NEW d, NEW x, NEW e, Onward(d, x, e)
  PROVE  MergesBased(e) /\ MergesKept(e)
<1>1. Grown(d, x, e) /\ MergesBased(d) /\ MergesKept(d) /\ RevsReached(d) /\ d \in Content
  BY OnwardGrown DEF Onward, Sound
<1>. DEFINE L == Len(d.log)
            o == x.cmd.owner
<1>2. /\ L \in Nat /\ DOMAIN d.log = 1 .. L /\ DOMAIN e.log = 1 .. (L + 1)
      /\ \A n \in DOMAIN d.log : e.log[n] = d.log[n]
      /\ e.log[L + 1] = EntryOf(x)
  BY <1>1, AppendedLog
<1>3. ASSUME NEW n \in DOMAIN e.log, e.log[n].kind = "merge_disjoint"
      PROVE  /\ e.log[n].owner \in Items /\ e.log[n].base \in 1 .. e.log[n].rev - 1
             /\ LET g == e.log[n]
                    h == e.history[g.owner] IN
                Changed(h[g.rev - 1], h[g.rev]) \cap Changed(h[g.base], h[g.rev - 1]) = {}
  <2>1. CASE n \in DOMAIN d.log
    <3>. DEFINE g == d.log[n]
    <3>1. e.log[n] = g /\ g.kind = "merge_disjoint"
      BY <2>1, <1>2, <1>3
    <3>2. /\ g.owner \in Items /\ g.base \in 1 .. g.rev - 1
          /\ g.rev > 0 /\ g.rev <= OwnerRev(d, g.owner)
      BY <2>1, <3>1, <1>1 DEF MergesBased, RevsReached
    <3>3. g \in Entry /\ d.items \in [Items -> Item]
      BY <2>1, <1>1 DEF Content
    <3>4. g.rev \in Nat /\ d.items[g.owner].rev \in Nat
      BY <3>2, <3>3 DEF Entry, Item
    <3>5. OwnerRev(d, g.owner) = d.items[g.owner].rev
      BY <3>2 DEF OwnerRev
    <3>6. /\ g.rev \in 1 .. d.items[g.owner].rev
          /\ g.rev - 1 \in 1 .. d.items[g.owner].rev
          /\ g.base \in 1 .. d.items[g.owner].rev
      BY <3>2, <3>4, <3>5
    <3>. DEFINE h == d.history[g.owner]
                k == e.history[g.owner]
    <3>7. k[g.rev] = h[g.rev] /\ k[g.rev - 1] = h[g.rev - 1] /\ k[g.base] = h[g.base]
      <4>1. \A r \in 1 .. d.items[g.owner].rev : k[r] = h[r]
        BY <3>2, HistoryKept
      <4> QED BY <3>6, <4>1
    <3>8. Changed(h[g.rev - 1], h[g.rev]) \cap Changed(h[g.base], h[g.rev - 1]) = {}
      BY <2>1, <3>1, <1>1 DEF MergesKept
    <3>. HIDE DEF g, h, k
    <3>9. Changed(k[g.rev - 1], k[g.rev]) \cap Changed(k[g.base], k[g.rev - 1]) = {}
      BY <3>7, <3>8
    <3> QED BY <3>1, <3>2, <3>9 DEF k
  <2>2. CASE n = L + 1
    <3>1. /\ e.log[n] = EntryOf(x) /\ EntryOf(x).kind = x.cmd.kind
          /\ EntryOf(x).owner = o /\ EntryOf(x).rev = x.expected + 1
          /\ EntryOf(x).base = x.base
      BY <2>2, <1>2 DEF EntryOf
    <3>2. x.cmd.kind = "merge_disjoint"
      BY <3>1, <1>3
    <3>3. o \in Items
      BY <3>2, KindsOwn DEF BindingKinds
    <3>4. /\ x.expected \in Nat /\ d.items[o].rev = x.expected
          /\ e.history[o][x.expected + 1] = x.next
          /\ x.expected > 0 => e.history[o][x.expected] = d.items[o]
      BY <3>3, AppendedRows
    <3>5. MergeSafe(d, x) /\ x.patch = Changed(d.items[o], x.next) /\ HistoryWhole(d)
      BY <3>3, KindsOwn DEF Onward, Appendable, Sound
    <3>6. x.base \in 1 .. x.expected /\ x.expected > 0
      BY <3>2, <3>3, <3>4, <3>5 DEF MergeSafe
    <3>7. d.items[o] = d.history[o][x.expected]
      BY <3>3, <3>4, <3>5, <3>6 DEF HistoryWhole
    <3>8. e.history[o][x.base] = d.history[o][x.base]
      BY <3>3, <3>4, <3>6, HistoryKept
    <3>9. x.patch \cap Changed(d.history[o][x.base], d.items[o]) = {}
      BY <3>2, <3>3, <3>5, <3>7 DEF MergeSafe
    <3>10. (x.expected + 1) - 1 = x.expected
      BY <3>4
    <3>. DEFINE k == e.history[o]
    <3>11. /\ k[(x.expected + 1) - 1] = d.items[o] /\ k[x.expected + 1] = x.next
           /\ k[x.base] = d.history[o][x.base]
      BY <3>4, <3>6, <3>8, <3>10
    <3>. HIDE DEF k
    <3>12. Changed(k[(x.expected + 1) - 1], k[x.expected + 1])
             \cap Changed(k[x.base], k[(x.expected + 1) - 1]) = {}
      BY <3>5, <3>9, <3>11
    <3> QED BY <3>1, <3>3, <3>6, <3>10, <3>12 DEF k
  <2>3. n \in DOMAIN d.log \/ n = L + 1
    BY <1>2
  <2> QED BY <2>1, <2>2, <2>3
<1>4. MergesBased(e)
  BY <1>3 DEF MergesBased
<1>5. MergesKept(e)
  BY <1>3 DEF MergesKept
<1> QED BY <1>4, <1>5

\* A closed item comes back by a reopening only.
LEMMA AppendedClosed ==
  ASSUME NEW d, NEW x, NEW e, Onward(d, x, e)
  PROVE  ClosedKept(e)
<1>1. Grown(d, x, e) /\ ClosedKept(d) /\ RevsReached(d) /\ d \in Content
  BY OnwardGrown DEF Onward, Sound
<1>. DEFINE L == Len(d.log)
            o == x.cmd.owner
            Kept(g, was, is) ==
              (was.state # "active" /\ is.state = "active") =>
                g.kind = "reopen" /\ was.state \in {"resolved", "abandoned"} /\ ~was.cleanup
<1>2. /\ L \in Nat /\ DOMAIN d.log = 1 .. L /\ DOMAIN e.log = 1 .. (L + 1)
      /\ \A n \in DOMAIN d.log : e.log[n] = d.log[n]
      /\ e.log[L + 1] = EntryOf(x)
  BY <1>1, AppendedLog
<1>3. ASSUME NEW n \in DOMAIN e.log, e.log[n].owner \in Items, e.log[n].rev > 1
      PROVE  Kept(e.log[n], e.history[e.log[n].owner][e.log[n].rev - 1],
                            e.history[e.log[n].owner][e.log[n].rev])
  <2>1. CASE n \in DOMAIN d.log
    <3>. DEFINE g == d.log[n]
                h == d.history[g.owner]
                k == e.history[g.owner]
    <3>1. e.log[n] = g /\ g.owner \in Items /\ g.rev > 1
      BY <2>1, <1>2, <1>3
    <3>2. g.rev <= OwnerRev(d, g.owner)
      BY <2>1, <1>1 DEF RevsReached
    <3>3. g \in Entry /\ d.items \in [Items -> Item]
      BY <2>1, <1>1 DEF Content
    <3>4. g.rev \in Nat /\ d.items[g.owner].rev \in Nat
      BY <3>1, <3>3 DEF Entry, Item
    <3>5. OwnerRev(d, g.owner) = d.items[g.owner].rev
      BY <3>1 DEF OwnerRev
    <3>6. g.rev \in 1 .. d.items[g.owner].rev /\ g.rev - 1 \in 1 .. d.items[g.owner].rev
      BY <3>1, <3>2, <3>4, <3>5
    <3>7. k[g.rev] = h[g.rev] /\ k[g.rev - 1] = h[g.rev - 1]
      BY <3>1, <3>6, HistoryKept
    <3>8. Kept(g, h[g.rev - 1], h[g.rev])
      BY <2>1, <3>1, <1>1 DEF ClosedKept
    <3>. HIDE DEF g, h, k, Kept
    <3>9. Kept(g, k[g.rev - 1], k[g.rev])
      BY <3>7, <3>8
    <3> QED BY <3>1, <3>9 DEF k
  <2>2. CASE n = L + 1
    <3>1. /\ e.log[n] = EntryOf(x) /\ EntryOf(x).kind = x.cmd.kind
          /\ EntryOf(x).owner = o /\ EntryOf(x).rev = x.expected + 1
      BY <2>2, <1>2 DEF EntryOf
    <3>2. o \in Items /\ x.expected + 1 > 1
      BY <3>1, <1>3
    <3>3. /\ x.expected \in Nat
          /\ e.history[o][x.expected + 1] = x.next
          /\ x.expected > 0 => e.history[o][x.expected] = d.items[o]
          /\ x.next \in Item /\ ValidItem(x.next) /\ d.items[o] \in Item
      BY <3>2, AppendedRows
    <3>4. /\ x.cmd.kind \in ItemKinds
          /\ <<d.items[o].state, x.next.state>> \in Transitions[x.cmd.kind]
          /\ x.patch = Changed(d.items[o], x.next) /\ x.patch \subseteq Patchable[x.cmd.kind]
      BY <3>2, KindsOwn
    <3>5. ASSUME d.items[o].state # "active", x.next.state = "active"
          PROVE  /\ x.cmd.kind = "reopen"
                 /\ d.items[o].state \in {"resolved", "abandoned"} /\ ~d.items[o].cleanup
      <4>1. x.cmd.kind = "reopen"
        BY <3>4, <3>5 DEF Transitions, Same, ItemKinds, Closed
      <4>2. d.items[o].state \in {"resolved", "abandoned"}
        BY <3>4, <4>1 DEF Transitions
      <4>3. "cleanup" \notin Changed(d.items[o], x.next)
        BY <3>4, <4>1 DEF Patchable
      <4>4. d.items[o].cleanup = x.next.cleanup
        BY <4>3 DEF Changed
      <4>5. ~x.next.cleanup
        BY <3>3, <3>5 DEF ValidItem
      <4> QED BY <4>1, <4>2, <4>4, <4>5
    <3>6. (x.expected + 1) - 1 = x.expected /\ x.expected > 0
      BY <3>2, <3>3
    <3>7. Kept(EntryOf(x), d.items[o], x.next)
      BY <3>1, <3>5
    <3>8. /\ e.history[o][(x.expected + 1) - 1] = d.items[o]
          /\ e.history[o][x.expected + 1] = x.next
      BY <3>3, <3>6
    <3>9. /\ e.history[e.log[n].owner][e.log[n].rev - 1] = d.items[o]
          /\ e.history[e.log[n].owner][e.log[n].rev] = x.next
      BY <3>1, <3>8
    <3>. HIDE DEF Kept
    <3> QED BY <3>1, <3>7, <3>9
  <2>3. n \in DOMAIN d.log \/ n = L + 1
    BY <1>2
  <2>. HIDE DEF Kept
  <2> QED BY <2>1, <2>2, <2>3
<1> QED BY <1>3 DEF ClosedKept

\* An event that is let in leaves a sound content, and everything there was.
LEMMA AppendedSound ==
  ASSUME NEW d, NEW x, NEW e, Onward(d, x, e)
  PROVE  Sound(e) /\ Extends(d, e)
<1>1. Grown(d, x, e) /\ RowsOf(d, x, e)
  BY OnwardGrown, AppendedIs
<1>2. e \in Content /\ RevsCount(e)
  BY <1>1, AppendedRevs DEF RowsOf
<1>3. EventsHeld(e) /\ ChainsLinked(e) /\ ProjectionsAgree(e)
  BY AppendedEvents, AppendedChains, AppendedProjections
<1>4. /\ LineageAgrees(e) /\ ReceiptsAgree(e) /\ CoverageAgrees(e)
      /\ JointAgrees(e) /\ BundlesAgree(e) /\ SeedsAreOwn(e)
  BY AppendedRest
<1>5. HistoryWhole(e) /\ RevsReached(e)
  BY AppendedHistory
<1>6. MergesBased(e) /\ MergesKept(e) /\ ClosedKept(e)
  BY AppendedMerges, AppendedClosed
<1> QED BY <1>2, <1>3, <1>4, <1>5, <1>6, AppendedExtends DEF Sound, Doctor

\* Extends orders the contents.
LEMMA ExtendsSelf ==
  ASSUME NEW d \in Content
  PROVE  Extends(d, d)
<1>1. d.log \in Seq(Entry)
  BY DEF Content
<1>2. Len(d.log) <= Len(d.log)
  BY <1>1
<1>3. \A o \in Owners : OwnerRev(d, o) \in Nat
  BY DEF OwnerRev, Content, Item, Binding, Owners
<1>4. \A o \in Owners : OwnerRev(d, o) <= OwnerRev(d, o)
  BY <1>3
<1> QED BY <1>2, <1>4 DEF Extends

\* What was written on top of what was written on top.
LEMMA ExtendsOn ==
  ASSUME NEW c \in Content, NEW d \in Content, NEW e \in Content,
         Extends(c, d), Extends(d, e)
  PROVE  Extends(c, e)
<1>1. /\ Len(c.log) \in Nat /\ Len(d.log) \in Nat /\ Len(e.log) \in Nat
      /\ DOMAIN c.log = 1 .. Len(c.log) /\ DOMAIN d.log = 1 .. Len(d.log)
  <2>1. c.log \in Seq(Entry) /\ d.log \in Seq(Entry) /\ e.log \in Seq(Entry)
    BY DEF Content
  <2> QED BY <2>1
<1>2. /\ Len(c.log) <= Len(e.log)
      /\ \A n \in DOMAIN c.log : e.log[n] = c.log[n]
  BY <1>1 DEF Extends
<1>3. \A i \in Items : \A r \in DOMAIN c.history[i] :
        r \in DOMAIN e.history[i] /\ e.history[i][r] = c.history[i][r]
  BY DEF Extends
<1>4. \A k \in Keys : c.receipts[k] # None => e.receipts[k] = c.receipts[k]
  BY DEF Extends
<1>5. /\ c.seeds \subseteq e.seeds /\ c.joint \subseteq e.joint
      /\ c.coverage \subseteq e.coverage /\ c.bundles \subseteq e.bundles
      /\ c.lineage \subseteq e.lineage
  BY DEF Extends
<1>6. ASSUME NEW o \in Owners PROVE OwnerRev(c, o) <= OwnerRev(e, o)
  <2>1. OwnerRev(c, o) \in Nat /\ OwnerRev(d, o) \in Nat /\ OwnerRev(e, o) \in Nat
    BY DEF OwnerRev, Content, Item, Binding, Owners
  <2>2. OwnerRev(c, o) <= OwnerRev(d, o) /\ OwnerRev(d, o) <= OwnerRev(e, o)
    BY DEF Extends
  <2> QED BY <2>1, <2>2
<1>7. Len(e.log) = Len(c.log) =>
        /\ e.log = c.log /\ e.items = c.items /\ e.history = c.history
        /\ e.bindings = c.bindings /\ e.receipts = c.receipts
  <2>. SUFFICES ASSUME Len(e.log) = Len(c.log)
                PROVE  /\ e.log = c.log /\ e.items = c.items /\ e.history = c.history
                       /\ e.bindings = c.bindings /\ e.receipts = c.receipts
    OBVIOUS
  <2>1. Len(e.log) = Len(d.log) /\ Len(d.log) = Len(c.log)
    BY <1>1 DEF Extends
  <2> QED BY <2>1 DEF Extends
<1> QED BY <1>2, <1>3, <1>4, <1>5, <1>6, <1>7 DEF Extends

\* The same log, rows and receipts; more seeds and records beside them.
Beside(d, e) ==
  /\ e \in Content
  /\ e.log = d.log /\ e.items = d.items /\ e.history = d.history
  /\ e.bindings = d.bindings /\ e.receipts = d.receipts
  /\ d.seeds \subseteq e.seeds /\ d.joint \subseteq e.joint
  /\ d.coverage \subseteq e.coverage /\ d.bundles \subseteq e.bundles
  /\ d.lineage \subseteq e.lineage

\* What was seeded stays seeded where identities are registered once.
LEMMA StaySeeded ==
  ASSUME NEW d, NEW e, d.seeds \subseteq e.seeds, SeedsAreOwn(e), NEW s, Seeded(d, s)
  PROVE  Seeded(e, s)
BY DEF Seeded, Collides, SeedsAreOwn

\* Records that agree with the log may be added beside it.
LEMMA BesideSound ==
  ASSUME NEW d, NEW e, Sound(d), Beside(d, e), SeedsAreOwn(e), LineageAgrees(e),
         CoverageAgrees(e), JointAgrees(e), BundlesAgree(e)
  PROVE  Sound(e) /\ Extends(d, e)
<1>1. /\ d \in Content /\ Doctor(d) /\ RevsCount(d) /\ HistoryWhole(d) /\ RevsReached(d)
      /\ MergesBased(d) /\ MergesKept(d) /\ ClosedKept(d)
  BY DEF Sound
<1>2. /\ e \in Content /\ e.log = d.log /\ e.items = d.items /\ e.history = d.history
      /\ e.bindings = d.bindings /\ e.receipts = d.receipts /\ d.seeds \subseteq e.seeds
  BY DEF Beside
<1>3. \A s : Seeded(d, s) => Seeded(e, s)
  BY <1>2, StaySeeded
<1>4. EventsHeld(e)
  BY <1>1, <1>2, <1>3 DEF Doctor, EventsHeld
<1>5. ChainsLinked(e)
  <2>1. \A n \in DOMAIN d.log : Linked(d.log, n)
    BY <1>1 DEF Doctor, ChainsLinked, Linked
  <2>2. \A n \in DOMAIN e.log : Linked(e.log, n)
    BY <2>1, <1>2
  <2> QED BY <2>2 DEF ChainsLinked, Linked
<1>6. ProjectionsAgree(e)
  <2>1. \A o, none : Replay(e, o, none) = Replay(d, o, none)
    BY <1>2 DEF Replay
  <2>2. /\ \A i \in Items : ItemAgrees(d, i)
        /\ \A r \in Rooms : RoomAgrees(d, r)
    BY <1>1, AgreeParts DEF Doctor
  <2>3. ASSUME NEW i \in Items PROVE ItemAgrees(e, i)
    <3>1. /\ e.items[i] = d.items[i] /\ e.history[i] = d.history[i]
          /\ Replay(e, i, NoItem) = Replay(d, i, NoItem)
      BY <1>2, <2>1
    <3> QED BY <3>1, <2>2, <1>3 DEF ItemAgrees
  <2>4. \A r \in Rooms : RoomAgrees(e, r)
    BY <1>2, <1>3, <2>1, <2>2 DEF RoomAgrees
  <2> QED BY <2>3, <2>4, AgreeParts
<1>7. ReceiptsAgree(e)
  <2>. DEFINE Agree(log, receipts) ==
         LET held == {k \in Keys : receipts[k] # None} IN
         /\ \A k \in held : \E n \in DOMAIN log :
              /\ log[n].key = k /\ log[n].event = receipts[k].cmd.event
              /\ log[n].seq = receipts[k].seq
         /\ {receipts[k].cmd.event : k \in held} = {log[n].event : n \in DOMAIN log}
  <2>1. Agree(d.log, d.receipts)
    BY <1>1 DEF Doctor, ReceiptsAgree
  <2>2. ReceiptsAgree(e) <=> Agree(e.log, e.receipts)
    BY DEF ReceiptsAgree
  <2>. HIDE DEF Agree
  <2> QED BY <1>2, <2>1, <2>2
<1>8. \A o : OwnerRev(e, o) = OwnerRev(d, o) /\ Mine(e, o) = Mine(d, o)
  BY <1>2 DEF OwnerRev, Mine
<1>9. RevsCount(e) /\ RevsReached(e)
  BY <1>1, <1>2, <1>8 DEF RevsCount, RevsReached
<1>10. HistoryWhole(e)
  BY <1>1, <1>2 DEF HistoryWhole
<1>11. MergesBased(e) /\ MergesKept(e)
  BY <1>1, <1>2 DEF MergesBased, MergesKept
<1>12. ClosedKept(e)
  <2>. DEFINE Lawful(log, history) ==
         \A n \in DOMAIN log :
           LET f == log[n] IN
           (f.owner \in Items /\ f.rev > 1) =>
             LET was == history[f.owner][f.rev - 1]
                 is == history[f.owner][f.rev] IN
             (was.state # "active" /\ is.state = "active") =>
               f.kind = "reopen" /\ was.state \in {"resolved", "abandoned"} /\ ~was.cleanup
  <2>1. Lawful(d.log, d.history)
    BY <1>1 DEF ClosedKept
  <2>2. ClosedKept(e) <=> Lawful(e.log, e.history)
    BY DEF ClosedKept
  <2>. HIDE DEF Lawful
  <2> QED BY <1>2, <2>1, <2>2
<1>13. Extends(d, e)
  <2>1. Extends(d, d)
    BY <1>1, ExtendsSelf
  <2> QED BY <2>1, <1>2, <1>8 DEF Extends, Beside
<1> QED BY <1>2, <1>4, <1>5, <1>6, <1>7, <1>9, <1>10, <1>11, <1>12, <1>13 DEF Sound, Doctor

\* The empty file is sound.
LEMMA EmptyIs ==
  /\ EmptyDB \in Content
  /\ EmptyDB.log = <<>> /\ EmptyDB.seeds = {} /\ EmptyDB.joint = {}
  /\ EmptyDB.coverage = {} /\ EmptyDB.bundles = {} /\ EmptyDB.lineage = {}
  /\ \A i \in Items : EmptyDB.items[i] = NoItem /\ EmptyDB.history[i] = <<>>
  /\ \A r \in Rooms : EmptyDB.bindings[r] = [rev |-> 0, project |-> None]
  /\ \A k \in Keys : EmptyDB.receipts[k] = None
<1>1. NoItem \in Item
  BY DEF NoItem, Item, States
<1>2. [rev |-> 0, project |-> None] \in Binding
  BY DEF Binding
<1>3. <<>> \in Seq(Entry) /\ <<>> \in Seq(Item)
  OBVIOUS
<1>. HIDE DEF NoItem
<1> QED BY <1>1, <1>2, <1>3 DEF EmptyDB, Content

\* A new file passes the doctor.
LEMMA EmptySound == Sound(EmptyDB)
<1>. DEFINE d == EmptyDB
<1>1. /\ d \in Content /\ d.log = <<>> /\ d.seeds = {} /\ d.joint = {}
      /\ d.coverage = {} /\ d.bundles = {} /\ d.lineage = {}
      /\ \A i \in Items : d.items[i] = NoItem /\ d.history[i] = <<>>
      /\ \A r \in Rooms : d.bindings[r] = [rev |-> 0, project |-> None]
      /\ \A k \in Keys : d.receipts[k] = None
  BY EmptyIs
<1>. HIDE DEF d
<1>2. DOMAIN d.log = {} /\ \A o : Mine(d, o) = {}
  BY <1>1 DEF Mine
<1>3. Cardinality({}) = 0
  BY FS_EmptySet
<1>4. EventsHeld(d) /\ ChainsLinked(d) /\ RevsReached(d)
  BY <1>2 DEF EventsHeld, ChainsLinked, RevsReached
<1>5. MergesBased(d) /\ MergesKept(d) /\ ClosedKept(d)
  BY <1>2 DEF MergesBased, MergesKept, ClosedKept
<1>6. /\ LineageAgrees(d) /\ CoverageAgrees(d) /\ JointAgrees(d) /\ BundlesAgree(d)
      /\ SeedsAreOwn(d)
  BY <1>1 DEF LineageAgrees, CoverageAgrees, JointAgrees, BundlesAgree, SeedsAreOwn
<1>7. ReceiptsAgree(d)
  <2>1. {k \in Keys : d.receipts[k] # None} = {}
    BY <1>1
  <2>2. {d.receipts[k].cmd.event : k \in {k \in Keys : d.receipts[k] # None}} = {}
    BY <2>1
  <2>3. {d.log[n].event : n \in DOMAIN d.log} = {}
    BY <1>2
  <2> QED BY <2>1, <2>2, <2>3 DEF ReceiptsAgree
<1>8. \A o, none : Replay(d, o, none) = <<>>
  <2>. SUFFICES ASSUME NEW o, NEW none PROVE Replay(d, o, none) = <<>>
    OBVIOUS
  <2>1. Cardinality(Mine(d, o)) = 0
    BY <1>2, <1>3
  <2>2. Replay(d, o, none) = <<>> <=> Cardinality(Mine(d, o)) = 0
    BY <1>1, ReplaySeq
  <2> QED BY <2>1, <2>2
<1>9. ProjectionsAgree(d)
  <2>1. DOMAIN <<>> = {}
    OBVIOUS
  <2>2. \A r \in Rooms : d.bindings[r] = EmptyDB.bindings[r]
    BY DEF d
  <2>3. \A i \in Items : ItemAgrees(d, i)
    BY <1>1, <1>8, <2>1 DEF ItemAgrees
  <2>4. \A r \in Rooms : RoomAgrees(d, r)
    BY <1>8, <2>1, <2>2 DEF RoomAgrees
  <2> QED BY <2>3, <2>4, AgreeParts
<1>10. RevsCount(d)
  <2>1. \A i \in Items : d.items[i].rev = 0
    BY <1>1 DEF NoItem
  <2>2. \A r \in Rooms : d.bindings[r].rev = 0
    BY <1>1
  <2>3. \A o \in Owners : OwnerRev(d, o) = 0
    BY <2>1, <2>2 DEF OwnerRev, Owners
  <2> QED BY <2>3, <1>2, <1>3 DEF RevsCount
<1>11. HistoryWhole(d)
  <2>1. \A i \in Items : d.items[i].rev = 0
    BY <1>1 DEF NoItem
  <2>2. Len(<<>>) = 0 /\ DOMAIN <<>> = {}
    OBVIOUS
  <2> QED BY <1>1, <2>1, <2>2 DEF HistoryWhole
<1> QED BY <1>1, <1>4, <1>5, <1>6, <1>7, <1>9, <1>10, <1>11 DEF Sound, Doctor, d

\* e is d with seeds S, joint receipts J, coverage C, bundle receipts B and
\* dispositions L.
Added(d, S, J, C, B, L, e) ==
  e = [log |-> d.log, items |-> d.items, history |-> d.history, bindings |-> d.bindings,
       receipts |-> d.receipts, seeds |-> d.seeds \cup S, joint |-> d.joint \cup J,
       coverage |-> d.coverage \cup C, bundles |-> d.bundles \cup B,
       lineage |-> d.lineage \cup L]

\* What is written beside the log, field by field.
LEMMA AddedFields ==
  ASSUME NEW d, NEW S, NEW J, NEW C, NEW B, NEW L, NEW e, Added(d, S, J, C, B, L, e)
  PROVE  /\ e.seeds = d.seeds \cup S /\ e.joint = d.joint \cup J
         /\ e.coverage = d.coverage \cup C /\ e.bundles = d.bundles \cup B
         /\ e.lineage = d.lineage \cup L
BY DEF Added

\* A seed registers what its identity names.
OwnKind(s) ==
  /\ s \in Seed
  /\ s.id \in Items => s.kind = "item"
  /\ s.id \in Rooms => s.kind = "room"
  /\ s.id \in Bundles => s.kind = "coverage"
  /\ s.id \in Joint => s.kind = "accepted_joint_receipt"

\* What may be added beside the log: seeds that collide with nothing, records
\* with their seeds, bundles and dispositions of what the log holds.
Addable(d, S, J, C, B, L) ==
  /\ J \subseteq Joint /\ C \subseteq Bundles /\ B \subseteq Bundles /\ L \subseteq Disposition
  /\ \A s \in S : OwnKind(s) /\ ~Collides(d, s)
  /\ \A s, t \in S : s.id = t.id => s = t
  /\ \A j \in J : /\ JointSeed(j) \in d.seeds \cup S
                  /\ \A k \in d.joint \cup J : k.key = j.key => k = j
  /\ \A b \in C : CoverageSeed(b) \in d.seeds \cup S
  /\ \A b \in B : /\ b \in d.coverage \cup C
                  /\ \A m \in DOMAIN Plan[b] : \E n \in DOMAIN d.log :
                       d.log[n].event = Plan[b][m].event
  /\ \A l \in L : /\ l.rev \in DOMAIN d.history[l.item]
                  /\ d.history[l.item][l.rev].event = l.event
                  /\ d.history[l.item][l.rev].op = l.op
                  /\ \E n \in DOMAIN d.log :
                       /\ d.log[n].event = l.event
                       /\ d.log[n].owner = l.item /\ d.log[n].rev = l.rev

\* Rows written beside the log leave a sound content sound.
LEMMA AddedSound ==
  ASSUME NEW d, NEW S, NEW J, NEW C, NEW B, NEW L, NEW e,
         Sound(d), Added(d, S, J, C, B, L, e), Addable(d, S, J, C, B, L)
  PROVE  Beside(d, e) /\ Sound(e) /\ Extends(d, e)
<1>1. /\ d \in Content /\ SeedsAreOwn(d) /\ LineageAgrees(d) /\ CoverageAgrees(d)
      /\ JointAgrees(d) /\ BundlesAgree(d)
  BY DEF Sound, Doctor
<1>2. /\ e.log = d.log /\ e.items = d.items /\ e.history = d.history
      /\ e.bindings = d.bindings /\ e.receipts = d.receipts
      /\ e.seeds = d.seeds \cup S /\ e.joint = d.joint \cup J
      /\ e.coverage = d.coverage \cup C /\ e.bundles = d.bundles \cup B
      /\ e.lineage = d.lineage \cup L
  BY DEF Added
<1>3. e \in Content
  <2>1. S \subseteq Seed
    BY DEF OwnKind, Addable
  <2>2. /\ d.log \in Seq(Entry) /\ d.items \in [Items -> Item]
        /\ d.history \in [Items -> Seq(Item)] /\ d.bindings \in [Rooms -> Binding]
        /\ d.receipts \in [Keys -> Receipt \cup {None}] /\ d.seeds \in SUBSET Seed
        /\ d.joint \in SUBSET Joint /\ d.coverage \in SUBSET Bundles
        /\ d.bundles \in SUBSET Bundles /\ d.lineage \in SUBSET Disposition
    BY <1>1 DEF Content
  <2>3. /\ d.seeds \cup S \in SUBSET Seed /\ d.joint \cup J \in SUBSET Joint
        /\ d.coverage \cup C \in SUBSET Bundles /\ d.bundles \cup B \in SUBSET Bundles
        /\ d.lineage \cup L \in SUBSET Disposition
    BY <2>1, <2>2 DEF Addable
  <2> QED BY <2>2, <2>3 DEF Added, Content
<1>4. Beside(d, e)
  BY <1>2, <1>3 DEF Beside
<1>5. SeedsAreOwn(e)
  <2>1. \A s, t \in d.seeds \cup S : s.id = t.id => s = t
    BY <1>1 DEF SeedsAreOwn, Collides, Addable
  <2>2. \A s \in d.seeds \cup S :
          /\ s.id \in Items => s.kind = "item"
          /\ s.id \in Rooms => s.kind = "room"
          /\ s.id \in Bundles => s.kind = "coverage"
          /\ s.id \in Joint => s.kind = "accepted_joint_receipt"
    BY <1>1 DEF SeedsAreOwn, OwnKind, Addable
  <2> QED BY <1>2, <2>1, <2>2 DEF SeedsAreOwn
<1>6. \A s : Seeded(d, s) => Seeded(e, s)
  BY <1>4, <1>5, StaySeeded DEF Beside
<1>7. \A s \in e.seeds : Seeded(e, s)
  BY <1>5 DEF SeedsAreOwn, Seeded, Collides
<1>8. LineageAgrees(e)
  BY <1>1, <1>2 DEF LineageAgrees, Addable
<1>9. CoverageAgrees(e)
  BY <1>1, <1>2, <1>6, <1>7 DEF CoverageAgrees, Addable
<1>10. JointAgrees(e)
  <2>. SUFFICES ASSUME NEW j \in e.joint
                PROVE  /\ Seeded(e, JointSeed(j))
                       /\ \A other \in e.joint : other.key = j.key => other = j
    BY DEF JointAgrees
  <2>1. CASE j \in d.joint
    BY <2>1, <1>1, <1>2, <1>6 DEF JointAgrees, Addable
  <2>2. CASE j \in J
    BY <2>2, <1>2, <1>7 DEF Addable
  <2> QED BY <1>2, <2>1, <2>2
<1>11. BundlesAgree(e)
  BY <1>1, <1>2 DEF BundlesAgree, Addable
<1> QED BY <1>4, <1>5, <1>8, <1>9, <1>10, <1>11, BesideSound

\* Seeds that collide with nothing.
LEMMA SeedsAdded ==
  ASSUME NEW d, Sound(d), NEW S, NEW e, e = WithSeeds(d, S),
         \A s \in S : OwnKind(s) /\ ~Collides(d, s),
         \A s, t \in S : s.id = t.id => s = t
  PROVE  /\ Beside(d, e) /\ Sound(e) /\ Extends(d, e)
         /\ e.seeds = d.seeds \cup S /\ e.joint = d.joint /\ e.bundles = d.bundles
         /\ e.coverage = d.coverage /\ e.lineage = d.lineage
<1>1. d \in Content
  BY DEF Sound
<1>2. Added(d, S, {}, {}, {}, {}, e)
  BY <1>1 DEF WithSeeds, Added, Content
<1>3. Addable(d, S, {}, {}, {}, {})
  BY DEF Addable
<1>4. Beside(d, e) /\ Sound(e) /\ Extends(d, e)
  BY <1>2, <1>3, AddedSound
<1> QED BY <1>2, <1>4 DEF Added

\* An owner's identity and an event's are two, and an owner is registered as
\* what it is.
LEMMA OwnSeeds ==
  ASSUME NEW c \in Commands, NEW d, Sound(d)
  PROVE  /\ OwnKind(OwnerSeed(c)) /\ OwnKind(EventSeed(c))
         /\ OwnerSeed(c).id # EventSeed(c).id /\ ~Collides(d, OwnerSeed(c))
<1>1. /\ c.owner \in Owners /\ c.event \in EventIds /\ c.kind \in ItemKinds \cup BindingKinds
      /\ Items \cap Rooms = {} /\ Owners \cap EventIds = {}
      /\ Bundles \cap (Owners \cup EventIds) = {}
      /\ (Owners \cup EventIds \cup Bundles) \cap Joint = {}
  BY CommandAssumption, IdentityAssumption DEF Command
<1>2. OwnerSeed(c) \in Seed /\ EventSeed(c) \in Seed
  BY <1>1 DEF OwnerSeed, EventSeed, Seed
<1>3. OwnKind(OwnerSeed(c)) /\ OwnKind(EventSeed(c))
  BY <1>1, <1>2 DEF OwnKind, OwnerSeed, EventSeed, Owners
<1>4. OwnerSeed(c).id # EventSeed(c).id
  BY <1>1 DEF OwnerSeed, EventSeed
<1>5. ~Collides(d, OwnerSeed(c))
  <2>. SUFFICES ASSUME NEW t \in d.seeds, t.id = OwnerSeed(c).id PROVE t = OwnerSeed(c)
    BY DEF Collides
  <2>1. t.kind = OwnerSeed(c).kind
    BY <1>1 DEF Sound, SeedsAreOwn, OwnerSeed, Owners
  <2>2. t \in Seed
    BY DEF Sound, Content
  <2> QED BY <1>2, <2>1, <2>2 DEF Seed
<1> QED BY <1>3, <1>4, <1>5

\* The seeds of an event, or of its owner alone.
LEMMA EventSeedsAdded ==
  ASSUME NEW d, Sound(d), NEW c \in Commands, NEW S, NEW e, e = WithSeeds(d, S),
         S \subseteq {OwnerSeed(c), EventSeed(c)},
         EventSeed(c) \in S => ~Collides(d, EventSeed(c))
  PROVE  /\ Beside(d, e) /\ Sound(e) /\ Extends(d, e)
         /\ e.seeds = d.seeds \cup S /\ e.joint = d.joint /\ e.bundles = d.bundles
         /\ e.coverage = d.coverage /\ e.lineage = d.lineage
<1>1. \A s \in S : OwnKind(s) /\ ~Collides(d, s)
  BY OwnSeeds
<1>2. \A s, t \in S : s.id = t.id => s = t
  BY OwnSeeds
<1> QED BY <1>1, <1>2, SeedsAdded

\* A coverage seed and that of a joint receipt collide with nothing.
LEMMA RecordSeeds ==
  ASSUME NEW d, Sound(d)
  PROVE  /\ \A b \in Bundles : OwnKind(CoverageSeed(b)) /\ ~Collides(d, CoverageSeed(b))
         /\ \A j \in Joint : OwnKind(JointSeed(j)) /\ ~Collides(d, JointSeed(j))
<1>1. ASSUME NEW b \in Bundles
      PROVE  OwnKind(CoverageSeed(b)) /\ ~Collides(d, CoverageSeed(b))
  <2>1. CoverageSeed(b) \in Seed /\ CoverageSeed(b).id = b
    BY DEF CoverageSeed, Seed
  <2>2. OwnKind(CoverageSeed(b))
    BY <2>1, IdentityAssumption DEF OwnKind, CoverageSeed, Owners
  <2>3. ASSUME NEW t \in d.seeds, t.id = b PROVE t = CoverageSeed(b)
    <3>1. t \in Seed /\ t.kind = "coverage"
      BY <2>3 DEF Sound, SeedsAreOwn, Content
    <3> QED BY <2>1, <2>3, <3>1 DEF Seed, CoverageSeed
  <2> QED BY <2>1, <2>2, <2>3 DEF Collides
<1>2. ASSUME NEW j \in Joint
      PROVE  OwnKind(JointSeed(j)) /\ ~Collides(d, JointSeed(j))
  <2>1. JointSeed(j) \in Seed /\ JointSeed(j).id = j
    BY DEF JointSeed, Seed
  <2>2. OwnKind(JointSeed(j))
    BY <2>1, IdentityAssumption DEF OwnKind, JointSeed, Owners
  <2>3. ASSUME NEW t \in d.seeds, t.id = j PROVE t = JointSeed(j)
    <3>1. t \in Seed /\ t.kind = "accepted_joint_receipt"
      BY <2>3 DEF Sound, SeedsAreOwn, Content
    <3> QED BY <2>1, <2>3, <3>1 DEF Seed, JointSeed
  <2> QED BY <2>1, <2>2, <2>3 DEF Collides
<1> QED BY <1>1, <1>2

\* The receipt of a bundle whose events are in the log.
Receipted(d, b) == [Covered(d, b) EXCEPT !.bundles = @ \cup {b}]

\* The coverage and the receipt of a bundle, all commands of which are in the log.
LEMMA BundleAdded ==
  ASSUME NEW d, Sound(d), NEW b \in Bundles, NEW e, e = Receipted(d, b),
         \A m \in DOMAIN Plan[b] : \E n \in DOMAIN d.log : d.log[n].event = Plan[b][m].event
  PROVE  /\ Beside(d, e) /\ Sound(e) /\ Extends(d, e)
         /\ e.bundles = d.bundles \cup {b}
<1>1. d \in Content
  BY DEF Sound
<1>2. Added(d, {CoverageSeed(b)}, {}, {b}, {b}, {}, e)
  BY <1>1 DEF Receipted, WithSeeds, Covered, Added, Content
<1>3. Addable(d, {CoverageSeed(b)}, {}, {b}, {b}, {})
  BY RecordSeeds DEF Addable
<1>4. Beside(d, e) /\ Sound(e) /\ Extends(d, e)
  BY <1>2, <1>3, AddedSound
<1> QED BY <1>2, <1>4 DEF Added

\* The receipt of a joint attestation, the first with its key.
LEMMA JointAdded ==
  ASSUME NEW d, Sound(d), NEW j \in Joint, NEW e,
         e = [WithSeeds(d, {JointSeed(j)}) EXCEPT !.joint = @ \cup {j}],
         \A k \in d.joint : k.key = j.key => k = j
  PROVE  Beside(d, e) /\ Sound(e) /\ Extends(d, e) /\ e.bundles = d.bundles
<1>1. d \in Content
  BY DEF Sound
<1>2. Added(d, {JointSeed(j)}, {j}, {}, {}, {}, e)
  BY <1>1 DEF WithSeeds, Added, Content
<1>3. Addable(d, {JointSeed(j)}, {j}, {}, {}, {})
  <2>1. \A k \in d.joint \cup {j} : k.key = j.key => k = j
    OBVIOUS
  <2> QED BY <2>1, RecordSeeds DEF Addable
<1>4. Beside(d, e) /\ Sound(e) /\ Extends(d, e)
  BY <1>2, <1>3, AddedSound
<1>5. e.bundles = d.bundles
  BY <1>1 DEF WithSeeds, Content
<1> QED BY <1>4, <1>5

\* The disposition of a revision, as it was written.
LEMMA DispositionAdded ==
  ASSUME NEW d, Sound(d), NEW i \in Items, NEW r \in DOMAIN d.history[i], NEW t \in Times,
         NEW l, l = [item |-> i, rev |-> r, event |-> d.history[i][r].event,
                     op |-> d.history[i][r].op, time |-> t],
         NEW e, e = [d EXCEPT !.lineage = @ \cup {l}]
  PROVE  Beside(d, e) /\ Sound(e) /\ Extends(d, e) /\ e.bundles = d.bundles
<1>1. d \in Content /\ HistoryWhole(d) /\ d.history \in [Items -> Seq(Item)]
  BY DEF Sound, Content
<1>2. r \in Nat \ {0} /\ d.history[i][r] \in Item
  <2>1. d.history[i] \in Seq(Item)
    BY <1>1
  <2> QED BY <2>1
<1>3. l \in Disposition
  BY <1>2 DEF Disposition, Item
<1>4. Added(d, {}, {}, {}, {}, {l}, e)
  BY <1>1 DEF Added, Content
<1>5. \E n \in DOMAIN d.log : /\ d.log[n].owner = i /\ d.log[n].rev = r
                              /\ d.log[n].event = d.history[i][r].event
  BY <1>1 DEF HistoryWhole
<1>6. Addable(d, {}, {}, {}, {}, {l})
  <2>1. l.item = i /\ l.rev = r /\ l.event = d.history[i][r].event /\ l.op = d.history[i][r].op
    OBVIOUS
  <2> QED BY <1>3, <1>5, <2>1 DEF Addable
<1>7. Beside(d, e) /\ Sound(e) /\ Extends(d, e)
  BY <1>4, <1>6, AddedSound
<1> QED BY <1>4, <1>7 DEF Added

(***************************************************************************)
(* The commands of a bundle in the log                                     *)
(***************************************************************************)

\* The events with the keys of a bundle, side by side when it was applied.
At(d, b) == {n \in DOMAIN d.log : \E m \in DOMAIN Plan[b] : d.log[n].key = Plan[b][m].key}

WholeIn(d, b) ==
  IF b \in d.bundles
    THEN \E n \in 0 .. Len(d.log) : At(d, b) = (n + 1) .. (n + Len(Plan[b]))
    ELSE At(d, b) = {}

Bundled(d) == \A b \in Bundles : WholeIn(d, b)

\* A bundle under way: its first k commands are the end of the log.
Progress(d, b, k) ==
  /\ k \in 0 .. Len(Plan[b]) /\ k <= Len(d.log) /\ b \notin d.bundles
  /\ At(d, b) = (Len(d.log) - k + 1) .. Len(d.log)
  /\ \A m \in 1 .. k : \E n \in DOMAIN d.log : d.log[n].event = Plan[b][m].event
  /\ \A other \in Bundles \ {b} : WholeIn(d, other)

\* A bundle is a sequence of commands.
LEMMA PlanIs ==
  ASSUME NEW b \in Bundles
  PROVE  /\ Plan[b] \in Seq(Commands) /\ Len(Plan[b]) \in Nat
         /\ DOMAIN Plan[b] = 1 .. Len(Plan[b])
BY PlanAssumption

\* What is written beside the log moves no bundle's events.
LEMMA BesideBundled ==
  ASSUME NEW d, NEW e, Beside(d, e)
  PROVE  /\ \A b : At(e, b) = At(d, b)
         /\ \A b : (b \in d.bundles <=> b \in e.bundles) => (WholeIn(e, b) <=> WholeIn(d, b))
<1>1. e.log = d.log
  BY DEF Beside
<1>2. \A b : At(e, b) = At(d, b)
  BY <1>1 DEF At
<1> QED BY <1>1, <1>2 DEF WholeIn

\* Where the bundle's events are, one event later.
LEMMA AtGrown ==
  ASSUME NEW d, NEW x, NEW e, Onward(d, x, e), NEW b
  PROVE  /\ (\A m \in DOMAIN Plan[b] : Plan[b][m].key # x.cmd.key) => At(e, b) = At(d, b)
         /\ (\E m \in DOMAIN Plan[b] : Plan[b][m].key = x.cmd.key) =>
              At(e, b) = At(d, b) \cup {Len(d.log) + 1}
<1>1. Grown(d, x, e)
  BY OnwardGrown
<1>2. /\ Len(d.log) \in Nat /\ DOMAIN d.log = 1 .. Len(d.log)
      /\ DOMAIN e.log = 1 .. (Len(d.log) + 1)
      /\ \A n \in DOMAIN d.log : e.log[n] = d.log[n]
      /\ e.log[Len(d.log) + 1] = EntryOf(x)
  BY <1>1, AppendedLog
<1>3. EntryOf(x).key = x.cmd.key
  BY DEF EntryOf
<1>4. \A n \in DOMAIN e.log : n \in DOMAIN d.log \/ n = Len(d.log) + 1
  BY <1>2
<1>5. \A n \in DOMAIN d.log : n \in DOMAIN e.log
  BY <1>2
<1>6. Len(d.log) + 1 \in DOMAIN e.log
  BY <1>2
<1> QED BY <1>2, <1>3, <1>4, <1>5, <1>6 DEF At

\* An event of another author leaves the bundle's events alone.
LEMMA OthersWhole ==
  ASSUME NEW d, NEW x, NEW e, Onward(d, x, e), NEW b \in Bundles, WholeIn(d, b),
         \A m \in DOMAIN Plan[b] : Plan[b][m].key # x.cmd.key
  PROVE  WholeIn(e, b)
<1>1. Grown(d, x, e) /\ RowsOf(d, x, e)
  BY OnwardGrown, AppendedIs
<1>2. Len(d.log) \in Nat /\ Len(e.log) = Len(d.log) + 1 /\ e.bundles = d.bundles
  BY <1>1, AppendedLog DEF RowsOf
<1>3. At(e, b) = At(d, b)
  BY AtGrown
<1>4. \A n \in 0 .. Len(d.log) : n \in 0 .. Len(e.log)
  BY <1>2
<1> QED BY <1>2, <1>3, <1>4 DEF WholeIn

\* A single author's event is no bundle's.
LEMMA SingleBundled ==
  ASSUME NEW d, NEW x, NEW e, Onward(d, x, e), x.cmd \in Single, Bundled(d)
  PROVE  Bundled(e)
<1>1. \A b \in Bundles : \A m \in DOMAIN Plan[b] : Plan[b][m].key # x.cmd.key
  BY BundleKeyAssumption
<1> QED BY <1>1, OthersWhole DEF Bundled

\* A bundle begins with nothing in the log.
LEMMA ProgressBegins ==
  ASSUME NEW d \in Content, Bundled(d), NEW b \in Bundles, b \notin d.bundles
  PROVE  Progress(d, b, 0)
<1>1. Len(d.log) \in Nat /\ At(d, b) = {}
  <2>1. d.log \in Seq(Entry)
    BY DEF Content
  <2> QED BY <2>1 DEF Bundled, WholeIn
<1>2. (Len(d.log) - 0 + 1) .. Len(d.log) = {}
  BY <1>1
<1>3. 0 \in 0 .. Len(Plan[b]) /\ 0 <= Len(d.log) /\ 1 .. 0 = {}
  BY <1>1, PlanIs
<1> QED BY <1>1, <1>2, <1>3 DEF Progress, Bundled

\* The next command of the bundle.
LEMMA ProgressGoesOn ==
  ASSUME NEW d, NEW b \in Bundles, NEW k \in Nat, Progress(d, b, k), k < Len(Plan[b]),
         NEW s, Beside(d, s), s.bundles = d.bundles,
         NEW x, NEW e, Onward(s, x, e), x.cmd = Plan[b][k + 1]
  PROVE  Progress(e, b, k + 1)
<1>. DEFINE L == Len(s.log)
<1>1. Grown(s, x, e) /\ RowsOf(s, x, e)
  BY OnwardGrown, AppendedIs
<1>2. /\ L \in Nat /\ Len(e.log) = L + 1 /\ DOMAIN s.log = 1 .. L
      /\ DOMAIN e.log = 1 .. (L + 1)
      /\ \A n \in DOMAIN s.log : e.log[n] = s.log[n]
      /\ e.log[L + 1] = EntryOf(x)
  BY <1>1, AppendedLog
<1>3. d.log = s.log
  BY DEF Beside
<1>4. /\ k <= L /\ b \notin d.bundles
      /\ At(d, b) = (L - k + 1) .. L
      /\ \A m \in 1 .. k : \E n \in DOMAIN d.log : d.log[n].event = Plan[b][m].event
      /\ \A other \in Bundles \ {b} : WholeIn(d, other)
  BY <1>3 DEF Progress
<1>5. k + 1 \in DOMAIN Plan[b] /\ k + 1 \in 0 .. Len(Plan[b])
  BY PlanIs
<1>6. At(e, b) = ((L + 1) - (k + 1) + 1) .. (L + 1)
  <2>1. At(e, b) = At(s, b) \cup {L + 1}
    BY <1>5, AtGrown
  <2>2. At(s, b) = (L - k + 1) .. L
    BY <1>4, BesideBundled
  <2> QED BY <1>2, <1>4, <2>1, <2>2
<1>7. ASSUME NEW m \in 1 .. k + 1
      PROVE  \E n \in DOMAIN e.log : e.log[n].event = Plan[b][m].event
  <2>1. CASE m = k + 1
    <3>1. L + 1 \in DOMAIN e.log /\ e.log[L + 1].event = Plan[b][m].event
      BY <2>1, <1>2 DEF EntryOf
    <3> QED BY <3>1
  <2>2. CASE m \in 1 .. k
    <3>1. PICK n \in DOMAIN s.log : s.log[n].event = Plan[b][m].event
      BY <2>2, <1>3, <1>4
    <3>2. n \in DOMAIN e.log /\ e.log[n] = s.log[n]
      BY <1>2
    <3> QED BY <3>1, <3>2
  <2> QED BY <2>1, <2>2
<1>8. ASSUME NEW other \in Bundles \ {b} PROVE WholeIn(e, other)
  <2>1. WholeIn(s, other)
    BY <1>4, BesideBundled
  <2>2. \A m \in DOMAIN Plan[other] : Plan[other][m].key # x.cmd.key
    BY <1>5, BundleKeyAssumption
  <2> QED BY <2>1, <2>2, OthersWhole
<1>9. b \notin e.bundles
  BY <1>1, <1>4 DEF RowsOf
<1>10. k + 1 <= Len(e.log)
  BY <1>2, <1>4
<1> QED BY <1>2, <1>5, <1>6, <1>7, <1>8, <1>9, <1>10 DEF Progress

\* The receipt of a bundle all of whose commands are there, or that has one.
LEMMA ProgressEnds ==
  ASSUME NEW d \in Content, NEW b \in Bundles, NEW e, Beside(d, e),
         e.bundles = d.bundles \cup {b},
         Progress(d, b, Len(Plan[b])) \/ (b \in d.bundles /\ Bundled(d))
  PROVE  Bundled(e)
<1>1. e.log = d.log /\ Len(d.log) \in Nat
  <2>1. d.log \in Seq(Entry)
    BY DEF Content
  <2> QED BY <2>1 DEF Beside
<1>2. CASE b \in d.bundles /\ Bundled(d)
  <2>1. \A o : o \in e.bundles <=> o \in d.bundles
    BY <1>2
  <2> QED BY <1>2, <2>1, BesideBundled DEF Bundled
<1>3. CASE Progress(d, b, Len(Plan[b]))
  <2>1. ASSUME NEW o \in Bundles \ {b} PROVE WholeIn(e, o)
    <3>1. WholeIn(d, o) /\ (o \in d.bundles <=> o \in e.bundles)
      BY <1>3 DEF Progress
    <3> QED BY <3>1, BesideBundled
  <2>2. WholeIn(e, b)
    <3>. DEFINE n == Len(d.log) - Len(Plan[b])
    <3>1. Len(Plan[b]) \in Nat /\ Len(Plan[b]) <= Len(d.log)
      BY <1>3, PlanIs DEF Progress
    <3>2. Len(e.log) = Len(d.log)
      BY <1>1
    <3>. HIDE DEF n
    <3>3. n \in 0 .. Len(d.log) /\ n + Len(Plan[b]) = Len(d.log)
      <4>1. \A u, v \in Nat : v <= u => u - v \in 0 .. u /\ (u - v) + v = u
        OBVIOUS
      <4> QED BY <1>1, <3>1, <4>1 DEF n
    <3>4. n \in 0 .. Len(e.log)
      BY <3>2, <3>3
    <3>5. At(e, b) = At(d, b)
      BY BesideBundled
    <3>6. At(d, b) = (n + 1) .. Len(d.log)
      BY <1>3 DEF Progress, n
    <3>7. At(e, b) = (n + 1) .. (n + Len(Plan[b])) /\ b \in e.bundles
      BY <3>3, <3>5, <3>6
    <3> QED BY <3>4, <3>7 DEF WholeIn
  <2> QED BY <2>1, <2>2 DEF Bundled
<1> QED BY <1>2, <1>3

\* In a new file no bundle has been applied.
LEMMA EmptyBundled == Bundled(EmptyDB)
<1>1. EmptyDB.log = <<>> /\ EmptyDB.bundles = {} /\ DOMAIN <<>> = {}
  BY EmptyIs
<1>2. \A b : At(EmptyDB, b) = {}
  BY <1>1 DEF At
<1> QED BY <1>1, <1>2 DEF Bundled, WholeIn

(***************************************************************************)
(* What a connection has in hand                                           *)
(***************************************************************************)
Labels == {"idle", "merging", "drafted", "checked", "seeded", "offered", "bundle",
           "finalising"}

Job == [cmd : Commands \cup {None}, expected : Nat, gseq : Nat,
        after : EventIds \cup {None}, prior : EventIds \cup {None}, base : Nat,
        patch : SUBSET (Fields \cup {"ended"}), next : Item \cup Binding \cup {None},
        bundle : Bundles \cup {None}, offered : [Owners -> Nat], at : Nat,
        todo : SUBSET (Items \X (Nat \ {0})), time : Times \cup {None}]

Merges(x) == x.cmd.kind = "merge_disjoint" /\ x.cmd.owner \in Items

\* A draft against what d shows: it is of the past, the base of a merge is older
\* still, and as long as nothing came after it what was checked holds.
Drafted(d, x, l) ==
  LET h == d.history[x.cmd.owner] IN
  /\ x.cmd \in Single /\ DraftOf(x)
  /\ x.gseq <= Len(d.log) + 1 /\ x.expected <= OwnerRev(d, x.cmd.owner)
  /\ Merges(x) => x.base \in 1 .. x.expected
  /\ (Merges(x) /\ l # "merging" /\ OwnerRev(d, x.cmd.owner) = x.expected) =>
       x.patch \cap Changed(h[x.base], h[x.expected]) = {}
  /\ (l \in {"checked", "seeded"} /\ x.gseq = Len(d.log) + 1) =>
       Fresh(d, x) /\ Allowed(d, x)
  /\ l = "seeded" => {OwnerSeed(x.cmd), EventSeed(x.cmd)} \subseteq d.seeds

\* A bundle that is applied: it had been, or its first commands are written.
Applying(d, x) ==
  /\ x.at \in Nat \ {0}
  /\ IF x.bundle \in d.bundles THEN Bundled(d) ELSE Progress(d, x.bundle, x.at - 1)

JobOK(d, x, l) ==
  /\ l \in {"merging", "drafted", "checked", "seeded"} => Drafted(d, x, l)
  /\ l \in {"offered", "bundle"} => x.bundle \in Bundles
  /\ l = "offered" => x.at = 1
  /\ IF l = "bundle" THEN Applying(d, x) ELSE Bundled(d)
  /\ l = "finalising" =>
       /\ x.time \in Times
       /\ \A i \in Items, r \in Nat : <<i, r>> \in x.todo => r \in DOMAIN d.history[i]

\* A connection that has nothing in hand.
LEMMA NoJobIs == NoJob \in Job
BY DEF NoJob, Job

\* The log and the histories have lengths.
LEMMA ContentLens ==
  ASSUME NEW d \in Content
  PROVE  /\ Len(d.log) \in Nat /\ d.log \in Seq(Entry)
         /\ \A o \in Owners : OwnerRev(d, o) \in Nat
         /\ \A i \in Items : d.history[i] \in Seq(Item) /\ d.items[i] \in Item
<1>1. d.log \in Seq(Entry)
  BY DEF Content
<1>2. \A o \in Owners : OwnerRev(d, o) \in Nat
  BY DEF OwnerRev, Content, Item, Binding, Owners
<1>3. \A i \in Items : d.history[i] \in Seq(Item) /\ d.items[i] \in Item
  BY DEF Content
<1> QED BY <1>1, <1>2, <1>3

\* What prepare_item_event and prepare_binding_event return.
LEMMA PreparedIs ==
  ASSUME NEW d \in Content, NEW c \in Commands, NEW base \in Nat, NEW r,
         r = OwnerRev(d, c.owner),
         c.owner \in Items => ValidItem(Proposed(d.items[c.owner], c)),
         NEW x, x = Prepared(d, c, base, r)
  PROVE  /\ x \in Job /\ DraftOf(x) /\ Fresh(d, x)
         /\ x.cmd = c /\ x.base = base /\ x.expected = r /\ x.gseq = Len(d.log) + 1
<1>0. /\ c \in Command /\ c.owner \in Owners /\ c.event \in EventIds
      /\ (c.owner \in Items \/ c.owner \in Rooms) /\ ~(c.owner \in Items /\ c.owner \in Rooms)
  BY CommandAssumption, IdentityAssumption DEF Command, Owners
<1>1. Len(d.log) \in Nat /\ r \in Nat
  BY <1>0, ContentLens
<1>2. GlobalHead(d) \in EventIds \cup {None} /\ OwnerHead(d, c.owner) \in EventIds \cup {None}
  BY HeadsAre
<1>. DEFINE isItem == c.owner \in Items
            next == IF isItem THEN Proposed(d.items[c.owner], c)
                              ELSE [rev |-> r + 1, project |-> c.project]
            patch == IF isItem THEN Changed(d.items[c.owner], Proposed(d.items[c.owner], c))
                               ELSE {}
<1>3. /\ isItem => next \in Item /\ next.event = c.event
      /\ ~isItem => next \in Binding
      /\ next.rev = r + 1
  <2>1. CASE isItem
    <3>1. d.items[c.owner] \in Item /\ d.items[c.owner].rev = r
      BY <2>1, ContentLens DEF OwnerRev
    <3>. DEFINE cur == d.items[c.owner]
    <3>2. /\ cur.rev + 1 \in Nat /\ c.to \in States
          /\ (IF c.summary = None THEN cur.summary ELSE c.summary) \in Summaries \cup {None}
          /\ (IF c.op = None THEN cur.op ELSE c.op) \in Operations \cup {None}
          /\ cur.over \cup c.over \in SUBSET Items
          /\ (IF c.by = None THEN cur.by ELSE c.by) \in Items \cup {None}
          /\ (cur.cleanup \/ c.kind = "mark_cleanup_eligible") \in BOOLEAN
      BY <1>0, <3>1 DEF Item, Command
    <3>3. Proposed(cur, c) \in Item
      BY <1>0, <3>2 DEF Proposed, Item
    <3>4. Proposed(cur, c).event = c.event /\ Proposed(cur, c).rev = r + 1
      BY <3>1 DEF Proposed
    <3> QED BY <2>1, <3>3, <3>4
  <2>2. CASE ~isItem
    <3>1. [rev |-> r + 1, project |-> c.project] \in Binding
      BY <1>0, <1>1 DEF Binding, Command
    <3> QED BY <2>2, <3>1
  <2> QED BY <2>1, <2>2
<1>4. patch \subseteq Fields \cup {"ended"}
  BY DEF Changed, Fields
<1>. HIDE DEF next, patch
<1>5. /\ x.cmd = c /\ x.expected = r /\ x.gseq = Len(d.log) + 1 /\ x.after = GlobalHead(d)
      /\ x.prior = OwnerHead(d, c.owner) /\ x.base = base /\ x.patch = patch
      /\ x.next = next
  BY DEF Prepared, NoJob, next, patch
<1>6. x = [NoJob EXCEPT !.cmd = c, !.expected = r, !.gseq = Len(d.log) + 1,
                        !.after = GlobalHead(d), !.prior = OwnerHead(d, c.owner),
                        !.base = base, !.patch = patch, !.next = next]
  BY DEF Prepared, next, patch
<1>7. x \in Job
  <2>1. next \in Item \cup Binding \cup {None}
    BY <1>3
  <2>. DEFINE zero == [o \in Owners |-> 0]
              after == GlobalHead(d)
              prior == OwnerHead(d, c.owner)
              gseq == Len(d.log) + 1
  <2>2. zero \in [Owners -> Nat] /\ gseq \in Nat
    BY <1>1
  <2>3. NoJob = [cmd |-> None, expected |-> 0, gseq |-> 0, after |-> None, prior |-> None,
                 base |-> 0, patch |-> {}, next |-> None, bundle |-> None,
                 offered |-> zero, at |-> 0, todo |-> {}, time |-> None]
    BY DEF NoJob
  <2>4. x = [NoJob EXCEPT !.cmd = c, !.expected = r, !.gseq = gseq, !.after = after,
                          !.prior = prior, !.base = base, !.patch = patch, !.next = next]
    BY <1>6
  <2>5. after \in EventIds \cup {None} /\ prior \in EventIds \cup {None}
    BY <1>2
  <2>. HIDE DEF zero, after, prior, gseq
  <2>6. PICK y : y = [NoJob EXCEPT !.cmd = c, !.expected = r, !.gseq = gseq, !.after = after]
    OBVIOUS
  <2>7. y = [cmd |-> c, expected |-> r, gseq |-> gseq, after |-> after, prior |-> None,
             base |-> 0, patch |-> {}, next |-> None, bundle |-> None,
             offered |-> zero, at |-> 0, todo |-> {}, time |-> None]
    BY <2>3, <2>6
  <2>8. PICK w : w = [y EXCEPT !.prior = prior, !.base = base]
    OBVIOUS
  <2>9. w = [cmd |-> c, expected |-> r, gseq |-> gseq, after |-> after, prior |-> prior,
             base |-> base, patch |-> {}, next |-> None, bundle |-> None,
             offered |-> zero, at |-> 0, todo |-> {}, time |-> None]
    BY <2>7, <2>8
  <2>10. x = [w EXCEPT !.patch = patch, !.next = next]
    BY <2>4, <2>6, <2>8
  <2>11. x = [cmd |-> c, expected |-> r, gseq |-> gseq, after |-> after, prior |-> prior,
              base |-> base, patch |-> patch, next |-> next, bundle |-> None,
              offered |-> zero, at |-> 0, todo |-> {}, time |-> None]
    BY <2>9, <2>10
  <2> QED BY <1>1, <1>4, <2>1, <2>2, <2>5, <2>11 DEF Job
<1>8. isItem => ValidItem(next)
  BY DEF next
<1>9. DraftOf(x)
  BY <1>0, <1>1, <1>3, <1>4, <1>5, <1>8 DEF DraftOf
<1>10. Fresh(d, x)
  BY <1>5 DEF Fresh
<1> QED BY <1>5, <1>7, <1>9, <1>10

\* What holds of a draft goes on holding when the content grows.
LEMMA DraftedOn ==
  ASSUME NEW d, NEW e, Sound(d), e \in Content, Extends(d, e), NEW x, NEW l,
         Drafted(d, x, l)
  PROVE  Drafted(e, x, l)
<1>. DEFINE o == x.cmd.owner
            h == d.history[o]
            k == e.history[o]
<1>1. /\ Len(d.log) \in Nat /\ Len(e.log) \in Nat /\ Len(d.log) <= Len(e.log)
      /\ x.cmd \in Single /\ DraftOf(x) /\ x.gseq \in Nat /\ x.expected \in Nat
      /\ x.gseq <= Len(d.log) + 1 /\ x.expected <= OwnerRev(d, o)
  BY ContentLens DEF Sound, Extends, Drafted, DraftOf
<1>2. o \in Owners
  BY <1>1, CommandAssumption DEF DraftOf, Command
<1>3. OwnerRev(d, o) \in Nat /\ OwnerRev(e, o) \in Nat /\ OwnerRev(d, o) <= OwnerRev(e, o)
  BY <1>2, ContentLens DEF Sound, Extends
<1>4. Merges(x) => x.base \in 1 .. x.expected
  BY DEF Drafted
<1>5. ASSUME Merges(x), l # "merging", OwnerRev(e, o) = x.expected
      PROVE  x.patch \cap Changed(k[x.base], k[x.expected]) = {}
  <2>1. OwnerRev(d, o) = x.expected
    BY <1>1, <1>3, <1>5
  <2>2. x.patch \cap Changed(h[x.base], h[x.expected]) = {}
    BY <1>5, <2>1 DEF Drafted
  <2>3. o \in Items /\ Len(h) = x.expected /\ h \in Seq(Item)
    BY <1>5, <2>1, ContentLens DEF Merges, Sound, HistoryWhole, OwnerRev
  <2>4. x.base \in DOMAIN h /\ x.expected \in DOMAIN h
    BY <1>4, <1>5, <2>3
  <2>5. k[x.base] = h[x.base] /\ k[x.expected] = h[x.expected]
    BY <2>3, <2>4 DEF Extends
  <2>. HIDE DEF h, k
  <2> QED BY <2>2, <2>5
<1>6. ASSUME l \in {"checked", "seeded"}, x.gseq = Len(e.log) + 1
      PROVE  Fresh(e, x) /\ Allowed(e, x)
  <2>1. Len(e.log) = Len(d.log)
    BY <1>1, <1>6
  <2>2. /\ e.log = d.log /\ e.items = d.items /\ e.bindings = d.bindings
        /\ d.joint \subseteq e.joint
    BY <2>1 DEF Extends
  <2>3. Fresh(d, x) /\ Allowed(d, x)
    BY <1>6, <2>1 DEF Drafted
  <2>4. Fresh(e, x)
    <3>1. OwnerRev(e, o) = OwnerRev(d, o)
      BY <2>2 DEF OwnerRev
    <3>2. GlobalHead(e) = GlobalHead(d) /\ OwnerHead(e, o) = OwnerHead(d, o)
      BY <2>2 DEF GlobalHead, OwnerHead
    <3> QED BY <2>1, <2>3, <3>1, <3>2 DEF Fresh
  <2>5. Allowed(e, x)
    <3>1. ItemAllowed(d, x) => ItemAllowed(e, x)
      BY <2>2 DEF ItemAllowed
    <3>2. BindingAllowed(d, x) => BindingAllowed(e, x)
      BY <2>2 DEF BindingAllowed
    <3> QED BY <2>3, <3>1, <3>2 DEF Allowed
  <2> QED BY <2>4, <2>5
<1>7. l = "seeded" => {OwnerSeed(x.cmd), EventSeed(x.cmd)} \subseteq e.seeds
  BY DEF Drafted, Extends
<1>8. x.gseq <= Len(e.log) + 1 /\ x.expected <= OwnerRev(e, o)
  BY <1>1, <1>3
<1> QED BY <1>1, <1>4, <1>5, <1>6, <1>7, <1>8 DEF Drafted

\* What a connection has in hand stays good when the file grows.
LEMMA JobOn ==
  ASSUME NEW d, NEW e, Sound(d), e \in Content, Extends(d, e), Bundled(e), NEW x, NEW l,
         l # "bundle", JobOK(d, x, l)
  PROVE  JobOK(e, x, l)
<1>1. l \in {"merging", "drafted", "checked", "seeded"} => Drafted(e, x, l)
  BY DraftedOn DEF JobOK
<1>2. l = "finalising" =>
        /\ x.time \in Times
        /\ \A i \in Items, r \in Nat : <<i, r>> \in x.todo => r \in DOMAIN e.history[i]
  BY DEF JobOK, Extends
<1> QED BY <1>1, <1>2 DEF JobOK

(***************************************************************************)
(* The connections and the file                                            *)
(***************************************************************************)
Sees(D, s) == IF s = None THEN D ELSE s

\* One connection w over the file's content D and the lock lk: a transaction is
\* the file and what w wrote on it when w has the lock, and some past of the file
\* when it has not; only a bundle appends to a log before it commits.
ConnOK(D, lk, w, s, o, l, x) ==
  /\ s # None => o /\ Sound(s)
  /\ lk = w => /\ s # None /\ Extends(D, s)
               /\ l # "bundle" => Len(s.log) = Len(D.log)
  /\ (lk # w /\ s # None) => Extends(s, D)
  /\ l = "bundle" => s # None
  /\ JobOK(Sees(D, s), x, l)

Shape ==
  /\ db \in Content /\ snap \in [Conns -> Content \cup {None}]
  /\ open \in [Conns -> BOOLEAN] /\ lock \in Conns \cup {None}
  /\ pc \in [Conns -> Labels] /\ job \in [Conns -> Job]

IInv ==
  /\ Shape /\ Sound(db) /\ Bundled(db)
  /\ \A w \in Conns : ConnOK(db, lock, w, snap[w], open[w], pc[w], job[w])

\* What a connection sees is sound, and the file's content or its own.
LEMMA ViewIs ==
  ASSUME IInv, NEW w \in Conns
  PROVE  /\ View(w) = Sees(db, snap[w]) /\ View(w) \in Content /\ Sound(View(w))
         /\ JobOK(View(w), job[w], pc[w])
         /\ snap[w] # None => View(w) = snap[w]
         /\ snap[w] = None => View(w) = db
         /\ MayWrite(w) => Extends(db, View(w))
<1>1. /\ Sound(db) /\ db \in Content /\ snap[w] \in Content \cup {None}
      /\ ConnOK(db, lock, w, snap[w], open[w], pc[w], job[w])
  BY DEF IInv, Shape
<1>2. View(w) = Sees(db, snap[w]) /\ (snap[w] # None => View(w) = snap[w])
      /\ (snap[w] = None => View(w) = db)
  BY DEF View, Sees
<1>3. Sound(View(w)) /\ View(w) \in Content
  BY <1>1, <1>2 DEF ConnOK
<1>4. JobOK(View(w), job[w], pc[w])
  BY <1>1, <1>2 DEF ConnOK
<1>5. ASSUME MayWrite(w) PROVE Extends(db, View(w))
  <2>1. CASE lock = w
    BY <2>1, <1>1, <1>2 DEF ConnOK
  <2>2. CASE snap[w] \in {None, db}
    BY <2>2, <1>1, <1>2, ExtendsSelf
  <2> QED BY <1>5, <2>1, <2>2 DEF MayWrite
<1> QED BY <1>2, <1>3, <1>4, <1>5

\* Another connection goes on as it was when the file grows.
LEMMA OtherConn ==
  ASSUME NEW D, NEW E, Sound(D), Sound(E), Bundled(E), Extends(D, E),
         NEW lk, NEW mk, NEW v, NEW s, NEW o, NEW l, NEW x,
         ConnOK(D, lk, v, s, o, l, x), s \in Content \cup {None},
         \/ D = E /\ (lk = v <=> mk = v)
         \/ lk # v /\ mk # v
  PROVE  ConnOK(E, mk, v, s, o, l, x)
<1>1. CASE D = E /\ (lk = v <=> mk = v)
  BY <1>1 DEF ConnOK
<1>2. CASE lk # v /\ mk # v
  <2>1. D \in Content /\ E \in Content
    BY DEF Sound
  <2>2. s # None => Extends(s, E)
    BY <1>2, <2>1, ExtendsOn DEF ConnOK
  <2>3. JobOK(Sees(E, s), x, l)
    <3>1. CASE s # None
      BY <3>1 DEF ConnOK, Sees
    <3>2. CASE s = None
      BY <3>2, <2>1, JobOn DEF ConnOK, Sees
    <3> QED BY <3>1, <3>2
  <2> QED BY <1>2, <2>2, <2>3 DEF ConnOK
<1> QED BY <1>1, <1>2

\* A step of w to these values.
Moves(w, D, s, o, lk, l, x) ==
  /\ db' = D /\ lock' = lk
  /\ snap' = [snap EXCEPT ![w] = s] /\ open' = [open EXCEPT ![w] = o]
  /\ pc' = [pc EXCEPT ![w] = l] /\ job' = [job EXCEPT ![w] = x]

Lands(w, D, s, o, lk, l, x) ==
  /\ Sound(D) /\ Bundled(D) /\ Extends(db, D)
  /\ s \in Content \cup {None} /\ o \in BOOLEAN /\ lk \in Conns \cup {None}
  /\ l \in Labels /\ x \in Job
  /\ ConnOK(D, lk, w, s, o, l, x)
  /\ \/ D = db /\ lk = lock
     \/ lock \in {w, None} /\ lk \in {w, None}

\* What a step of w keeps.
Keeps(w) ==
  /\ IInv' /\ Extends(db, db')
  /\ \A v \in Conns \ {w} : snap'[v] = snap[v] /\ pc'[v] = pc[v]

\* A step that moves one connection and lands well keeps the invariant.
LEMMA Moved ==
  ASSUME IInv, NEW w \in Conns, NEW D, NEW s, NEW o, NEW lk, NEW l, NEW x,
         Moves(w, D, s, o, lk, l, x), Lands(w, D, s, o, lk, l, x)
  PROVE  Keeps(w)
<1>1. /\ db' = D /\ lock' = lk
      /\ snap' = [snap EXCEPT ![w] = s] /\ open' = [open EXCEPT ![w] = o]
      /\ pc' = [pc EXCEPT ![w] = l] /\ job' = [job EXCEPT ![w] = x]
  BY DEF Moves
<1>2. Shape /\ Sound(db) /\ None \notin Conns
  BY NoneAssumption DEF IInv
<1>3. /\ snap' \in [Conns -> Content \cup {None}] /\ open' \in [Conns -> BOOLEAN]
      /\ pc' \in [Conns -> Labels] /\ job' \in [Conns -> Job]
  BY <1>1, <1>2 DEF Shape, Lands
<1>4. db' \in Content /\ lock' \in Conns \cup {None}
  BY <1>1 DEF Lands, Sound
<1>5. ASSUME NEW v \in Conns
      PROVE  ConnOK(db', lock', v, snap'[v], open'[v], pc'[v], job'[v])
  <2>1. CASE v = w
    <3>1. snap'[v] = s /\ open'[v] = o /\ pc'[v] = l /\ job'[v] = x
      BY <2>1, <1>1, <1>2 DEF Shape
    <3> QED BY <2>1, <3>1, <1>1 DEF Lands
  <2>2. CASE v # w
    <3>1. snap'[v] = snap[v] /\ open'[v] = open[v] /\ pc'[v] = pc[v] /\ job'[v] = job[v]
      BY <2>2, <1>1, <1>2 DEF Shape
    <3>2. ConnOK(db, lock, v, snap[v], open[v], pc[v], job[v]) /\ snap[v] \in Content \cup {None}
      BY <1>2 DEF IInv, Shape
    <3>3. \/ db = D /\ (lock = v <=> lk = v)
          \/ lock # v /\ lk # v
      BY <2>2, <1>2 DEF Lands
    <3>4. ConnOK(D, lk, v, snap[v], open[v], pc[v], job[v])
      BY <1>2, <3>2, <3>3, OtherConn DEF Lands
    <3> QED BY <1>1, <3>1, <3>4
  <2> QED BY <2>1, <2>2
<1>6. Sound(db') /\ Bundled(db') /\ Extends(db, db')
  BY <1>1 DEF Lands
<1>7. \A v \in Conns \ {w} : snap'[v] = snap[v] /\ pc'[v] = pc[v]
  BY <1>1, <1>2 DEF Shape
<1>8. IInv'
  BY <1>3, <1>4, <1>5, <1>6 DEF IInv, Shape
<1> QED BY <1>6, <1>7, <1>8 DEF Keeps

(***************************************************************************)
(* The effects a step has on the file                                      *)
(***************************************************************************)
\* The connection goes on to the label l with x in hand.
Turns(w, l, x) ==
  /\ l \in Labels /\ x \in Job
  /\ pc' = [pc EXCEPT ![w] = l] /\ job' = [job EXCEPT ![w] = x]

\* A read fixes at most the connection's snapshot.
LEMMA ReadMoves ==
  ASSUME IInv, NEW w \in Conns, Read(w), NEW l, NEW x, Turns(w, l, x),
         l # "bundle" \/ snap[w] # None \/ open[w],
         (lock = w /\ l # "bundle") => pc[w] # "bundle",
         JobOK(View(w), x, l)
  PROVE  Keeps(w)
<1>1. /\ Shape /\ Sound(db) /\ Bundled(db) /\ View(w) \in Content /\ Sound(View(w))
      /\ ConnOK(db, lock, w, snap[w], open[w], pc[w], job[w])
      /\ snap[w] # None => View(w) = snap[w]
      /\ snap[w] = None => View(w) = db
  BY ViewIs DEF IInv
<1>2. PICK s : s = IF open[w] THEN View(w) ELSE snap[w]
  OBVIOUS
<1>3. PICK D, lk, o : D = db /\ lk = lock /\ o = open[w]
  OBVIOUS
<1>4. Moves(w, D, s, o, lk, l, x)
  <2>1. snap' = [snap EXCEPT ![w] = s]
    BY <1>1, <1>2 DEF Read, Shape
  <2>2. open' = [open EXCEPT ![w] = o]
    BY <1>1, <1>3 DEF Read, Shape
  <2> QED BY <1>3, <2>1, <2>2 DEF Moves, Read, Turns
<1>5. s \in Content \cup {None} /\ Sees(D, s) = View(w)
  BY <1>1, <1>2, <1>3 DEF Sees, Shape
<1>6. Extends(db, db)
  BY <1>1, ExtendsSelf DEF Shape
<1>7. ConnOK(D, lk, w, s, o, l, x)
  <2>1. s # None => o /\ Sound(s)
    BY <1>1, <1>2, <1>3 DEF ConnOK
  <2>2. lk = w => /\ s # None /\ Extends(D, s)
                  /\ l # "bundle" => Len(s.log) = Len(D.log)
    BY <1>1, <1>2, <1>3 DEF ConnOK
  <2>3. (lk # w /\ s # None) => Extends(s, D)
    BY <1>1, <1>2, <1>3, <1>6 DEF ConnOK
  <2>4. l = "bundle" => s # None
    BY <1>1, <1>2, NoneAssumption DEF ConnOK
  <2> QED BY <1>5, <2>1, <2>2, <2>3, <2>4 DEF ConnOK
<1>8. Lands(w, D, s, o, lk, l, x)
  BY <1>1, <1>3, <1>5, <1>6, <1>7 DEF Lands, Turns, Shape
<1> QED BY <1>4, <1>8, Moved

\* A write leaves its content in the connection's own transaction.
LEMMA WriteMoves ==
  ASSUME IInv, NEW w \in Conns, NEW d, Write(w, d), NEW l, NEW x, Turns(w, l, x),
         Sound(d), Extends(View(w), d), JobOK(d, x, l),
         l # "bundle" => Len(d.log) = Len(View(w).log) /\ pc[w] # "bundle"
  PROVE  Keeps(w)
<1>1. /\ Shape /\ Sound(db) /\ Bundled(db) /\ View(w) \in Content
      /\ ConnOK(db, lock, w, snap[w], open[w], pc[w], job[w])
      /\ Extends(db, View(w)) /\ d \in Content /\ d # None /\ MayWrite(w)
      /\ snap[w] # None => View(w) = snap[w]
      /\ snap[w] = None => View(w) = db
  BY ViewIs, NoneAssumption DEF IInv, Write, Sound
<1>2. Extends(db, d) /\ Extends(db, db)
  BY <1>1, ExtendsOn, ExtendsSelf DEF Shape
<1>3. PICK D, o : D = db /\ o = TRUE
  OBVIOUS
<1>4. Moves(w, D, d, o, w, l, x)
  BY <1>3 DEF Moves, Write, Turns
<1>5. l # "bundle" => Len(d.log) = Len(db.log)
  BY <1>1 DEF ConnOK, MayWrite
<1>6. ConnOK(D, w, w, d, o, l, x)
  BY <1>1, <1>2, <1>3, <1>5 DEF ConnOK, Sees
<1>7. Lands(w, D, d, o, w, l, x)
  BY <1>1, <1>2, <1>3, <1>6 DEF Lands, Turns, MayWrite
<1> QED BY <1>4, <1>7, Moved

\* A refused INSERT leaves only an open transaction.
LEMMA RefusedMoves ==
  ASSUME IInv, NEW w \in Conns, Refused(w), NEW l, NEW x, Turns(w, l, x),
         l # "bundle", pc[w] # "bundle", JobOK(View(w), x, l)
  PROVE  Keeps(w)
<1>1. /\ Shape /\ Sound(db) /\ Bundled(db)
      /\ ConnOK(db, lock, w, snap[w], open[w], pc[w], job[w]) /\ View(w) = Sees(db, snap[w])
  BY ViewIs DEF IInv
<1>2. PICK D, s, lk, o : D = db /\ s = snap[w] /\ lk = lock /\ o = TRUE
  OBVIOUS
<1>3. snap' = [snap EXCEPT ![w] = s]
  BY <1>1, <1>2 DEF Refused, Shape
<1>4. Moves(w, D, s, o, lk, l, x)
  BY <1>2, <1>3 DEF Moves, Refused, Turns
<1>5. ConnOK(D, lk, w, s, o, l, x)
  BY <1>1, <1>2 DEF ConnOK
<1>6. Extends(db, db)
  BY <1>1, ExtendsSelf DEF Shape
<1>7. Lands(w, D, s, o, lk, l, x)
  BY <1>1, <1>2, <1>5, <1>6 DEF Lands, Turns, Shape
<1> QED BY <1>4, <1>7, Moved

\* A commit installs the transaction's content as the file's.
LEMMA CommitMoves ==
  ASSUME IInv, NEW w \in Conns, NEW d, Commit(w, d), NEW l, NEW x, Turns(w, l, x),
         Sound(d), Extends(View(w), d), JobOK(d, x, l), l # "bundle"
  PROVE  Keeps(w)
<1>1. /\ Shape /\ Sound(db) /\ View(w) \in Content /\ None \notin Conns
      /\ Extends(db, View(w)) /\ d \in Content /\ MayWrite(w) /\ Bundled(d)
  BY ViewIs, NoneAssumption DEF IInv, Commit, Sound, JobOK
<1>2. Extends(db, d)
  BY <1>1, ExtendsOn DEF Shape
<1>3. PICK s, lk, o : s = None /\ lk = None /\ o = FALSE
  OBVIOUS
<1>4. Moves(w, d, s, o, lk, l, x)
  BY <1>3 DEF Moves, Commit, Turns
<1>5. ConnOK(d, lk, w, s, o, l, x)
  BY <1>1, <1>3 DEF ConnOK, Sees
<1>6. Lands(w, d, s, o, lk, l, x)
  BY <1>1, <1>2, <1>3, <1>5 DEF Lands, Turns, MayWrite
<1> QED BY <1>4, <1>6, Moved

\* A rollback drops the transaction and its lock.
LEMMA RollbackMoves ==
  ASSUME IInv, NEW w \in Conns, Rollback(w), NEW l, NEW x, Turns(w, l, x),
         JobOK(db, x, l), l # "bundle"
  PROVE  Keeps(w)
<1>1. Shape /\ Sound(db) /\ Bundled(db) /\ None \notin Conns
  BY NoneAssumption DEF IInv
<1>2. PICK D, s, lk, o : /\ D = db /\ s = None /\ o = FALSE
                         /\ lk = IF lock = w THEN None ELSE lock
  OBVIOUS
<1>3. Moves(w, D, s, o, lk, l, x)
  BY <1>2 DEF Moves, Rollback, Turns
<1>4. lk # w
  BY <1>1, <1>2
<1>5. ConnOK(D, lk, w, s, o, l, x)
  BY <1>2, <1>4 DEF ConnOK, Sees
<1>6. Extends(db, db)
  BY <1>1, ExtendsSelf DEF Shape
<1>7. lk \in Conns \cup {None} /\ (lk = lock \/ (lock = w /\ lk = None))
  BY <1>1, <1>2 DEF Shape
<1>8. Lands(w, D, s, o, lk, l, x)
  BY <1>1, <1>2, <1>5, <1>6, <1>7 DEF Lands, Turns
<1> QED BY <1>3, <1>8, Moved

\* The connection goes on with what it has in hand, or with nothing.
LEMMA TurnsTo ==
  ASSUME IInv, NEW w \in Conns, NEW l \in Labels
  PROVE  /\ Goto(w, l) /\ UNCHANGED job => Turns(w, l, job[w])
         /\ Leave(w) => Turns(w, "idle", NoJob)
         /\ UNCHANGED <<pc, job>> => Turns(w, pc[w], job[w])
         /\ \A x \in Job : Goto(w, l) /\ job' = [job EXCEPT ![w] = x] => Turns(w, l, x)
         /\ \A x \in Job : UNCHANGED pc /\ job' = [job EXCEPT ![w] = x] => Turns(w, pc[w], x)
<1>1. Shape /\ NoJob \in Job /\ "idle" \in Labels
  BY NoJobIs DEF IInv, Labels
<1>2. pc[w] \in Labels /\ job[w] \in Job
  BY <1>1 DEF Shape
<1>3. pc = [pc EXCEPT ![w] = pc[w]] /\ job = [job EXCEPT ![w] = job[w]]
  BY <1>1 DEF Shape
<1> QED BY <1>1, <1>2, <1>3 DEF Goto, Leave, Turns

\* With nothing in hand nothing is promised but whole bundles.
LEMMA IdleOK ==
  ASSUME NEW d, NEW x, Bundled(d)
  PROVE  JobOK(d, x, "idle")
BY DEF JobOK

(***************************************************************************)
(* The steps of a connection                                               *)
(***************************************************************************)
\* What is in hand when the label is known.
LEMMA HandIs ==
  ASSUME IInv, NEW w \in Conns
  PROVE  /\ pc[w] \in Labels /\ job[w] \in Job /\ Sound(View(w)) /\ View(w) \in Content
         /\ pc[w] # "bundle" => Bundled(View(w))
         /\ pc[w] \in {"merging", "drafted", "checked", "seeded"} =>
              /\ Drafted(View(w), job[w], pc[w])
              /\ job[w].cmd \in Single /\ job[w].cmd \in Commands
         /\ Bundled(db)
<1>1. JobOK(View(w), job[w], pc[w])
  BY ViewIs
<1>2. pc[w] \in Labels /\ job[w] \in Job
  BY DEF IInv, Shape
<1>3. Single \subseteq Commands
  BY DEF Single
<1> QED BY <1>1, <1>2, <1>3, ViewIs DEF JobOK, IInv, Drafted

\* prepare_item_event and prepare_binding_event keep the invariant.
LEMMA DraftStep ==
  ASSUME IInv, NEW w \in Conns, NEW c \in Single, NEW base \in Nat, Draft(w, c, base)
  PROVE  Keeps(w)
<1>1. PICK d : d = View(w)
  OBVIOUS
<1>2. PICK r : r = OwnerRev(d, c.owner)
  OBVIOUS
<1>3. PICK x : x = Prepared(d, c, base, r)
  OBVIOUS
<1>4. PICK l : l = IF c.kind = "merge_disjoint" THEN "merging" ELSE "drafted"
  OBVIOUS
<1>5. /\ pc[w] = "idle" /\ Goto(w, l) /\ Read(w) /\ job' = [job EXCEPT ![w] = x]
      /\ base \in IF c.kind = "merge_disjoint" THEN 1 .. r ELSE {0}
      /\ c.owner \in Items => ValidItem(Proposed(d.items[c.owner], c))
  BY <1>1, <1>2, <1>3, <1>4 DEF Draft
<1>6. c \in Commands /\ d \in Content /\ Bundled(d)
  BY <1>1, <1>5, HandIs DEF Single
<1>7. /\ x \in Job /\ DraftOf(x) /\ Fresh(d, x)
      /\ x.cmd = c /\ x.base = base /\ x.expected = r /\ x.gseq = Len(d.log) + 1
  BY <1>2, <1>3, <1>5, <1>6, PreparedIs
<1>8. Drafted(d, x, l)
  <2>1. c.owner \in Owners
    BY <1>6, CommandAssumption DEF Command
  <2>2. r \in Nat /\ Len(d.log) \in Nat
    BY <1>2, <1>6, <2>1, ContentLens
  <2>3. l \notin {"checked", "seeded"} /\ l # "seeded"
    BY <1>4
  <2>4. Merges(x) => l = "merging" /\ x.base \in 1 .. x.expected
    BY <1>4, <1>5, <1>7 DEF Merges
  <2> QED BY <1>2, <1>7, <2>2, <2>3, <2>4 DEF Drafted
<1>9. JobOK(d, x, l) /\ l \in Labels /\ l # "bundle"
  BY <1>4, <1>6, <1>8 DEF JobOK, Labels
<1>10. Turns(w, l, x)
  BY <1>5, <1>7, <1>9, TurnsTo
<1> QED BY <1>1, <1>5, <1>9, <1>10, ReadMoves

\* A call that ends having read only.
LEMMA ReadLeaves ==
  ASSUME IInv, NEW w \in Conns, pc[w] # "bundle", Read(w), Leave(w)
  PROVE  Keeps(w)
<1>1. PICK x, l : x = NoJob /\ l = "idle"
  OBVIOUS
<1>2. "idle" \in Labels /\ Bundled(View(w))
  BY HandIs DEF Labels
<1>3. Turns(w, l, x)
  BY <1>1, <1>2, TurnsTo
<1>4. JobOK(View(w), x, l)
  BY <1>1, <1>2, IdleOK
<1> QED BY <1>1, <1>3, <1>4, ReadMoves

\* A call that ends with its transaction.
LEMMA RollbackLeaves ==
  ASSUME IInv, NEW w \in Conns, Rollback(w), Leave(w)
  PROVE  Keeps(w)
<1>1. PICK x, l : x = NoJob /\ l = "idle"
  OBVIOUS
<1>2. "idle" \in Labels /\ Bundled(db)
  BY HandIs DEF Labels
<1>3. Turns(w, l, x)
  BY <1>1, <1>2, TurnsTo
<1>4. JobOK(db, x, l)
  BY <1>1, <1>2, IdleOK
<1> QED BY <1>1, <1>3, <1>4, RollbackMoves

\* A call that ends with a commit.
LEMMA CommitLeaves ==
  ASSUME IInv, NEW w \in Conns, NEW d, Commit(w, d), Leave(w), Sound(d),
         Extends(View(w), d), Bundled(d)
  PROVE  Keeps(w)
<1>1. PICK x, l : x = NoJob /\ l = "idle"
  OBVIOUS
<1>2. "idle" \in Labels
  BY DEF Labels
<1>3. Turns(w, l, x)
  BY <1>1, <1>2, TurnsTo
<1>4. JobOK(d, x, l)
  BY <1>1, IdleOK
<1> QED BY <1>1, <1>3, <1>4, CommitMoves

\* The check of a merge against the revision it was drafted on.
LEMMA MergeCheckStep ==
  ASSUME IInv, NEW w \in Conns, MergeCheck(w)
  PROVE  Keeps(w)
<1>1. PICK d, x, l : d = View(w) /\ x = job[w] /\ l = "drafted"
  OBVIOUS
<1>2. /\ pc[w] = "merging" /\ Read(w) /\ Drafted(d, x, "merging") /\ Sound(d) /\ d \in Content
      /\ Bundled(d) /\ x \in Job
  BY <1>1, HandIs DEF MergeCheck
<1>3. CASE Leave(w)
  BY <1>2, <1>3, ReadLeaves
<1>4. CASE /\ x.patch \cap Changed(d.history[x.cmd.owner][x.base], d.items[x.cmd.owner]) = {}
           /\ Goto(w, "drafted") /\ UNCHANGED job
  <2>1. Turns(w, l, x)
    BY <1>1, <1>4, TurnsTo DEF Labels
  <2>2. (Merges(x) /\ OwnerRev(d, x.cmd.owner) = x.expected) =>
          x.patch \cap Changed(d.history[x.cmd.owner][x.base],
                               d.history[x.cmd.owner][x.expected]) = {}
    <3>. SUFFICES ASSUME Merges(x), OwnerRev(d, x.cmd.owner) = x.expected
                  PROVE  x.patch \cap Changed(d.history[x.cmd.owner][x.base],
                                              d.history[x.cmd.owner][x.expected]) = {}
      OBVIOUS
    <3>1. x.base \in 1 .. x.expected /\ x.expected \in Nat /\ x.cmd.owner \in Items
      BY <1>2 DEF Drafted, DraftOf, Merges
    <3>2. d.items[x.cmd.owner].rev = x.expected /\ x.expected > 0
      BY <3>1 DEF OwnerRev
    <3>3. d.items[x.cmd.owner] = d.history[x.cmd.owner][x.expected]
      BY <1>2, <3>1, <3>2 DEF Sound, HistoryWhole
    <3> QED BY <1>4, <3>3
  <2>3. Drafted(d, x, l)
    BY <1>1, <1>2, <2>2 DEF Drafted
  <2>4. JobOK(d, x, l)
    BY <1>1, <1>2, <2>3 DEF JobOK
  <2> QED BY <1>1, <1>2, <2>1, <2>4, ReadMoves
<1> QED BY <1>1, <1>3, <1>4 DEF MergeCheck

\* The checks that an event passes before anything is written.
LEMMA CheckStep ==
  ASSUME IInv, NEW w \in Conns, Check(w)
  PROVE  Keeps(w)
<1>1. PICK d, x, l : d = View(w) /\ x = job[w] /\ l = "checked"
  OBVIOUS
<1>2. /\ pc[w] = "drafted" /\ Read(w) /\ Drafted(d, x, "drafted") /\ Bundled(d) /\ x \in Job
  BY <1>1, HandIs DEF Check
<1>3. CASE Leave(w)
  BY <1>2, <1>3, ReadLeaves
<1>4. CASE Fresh(d, x) /\ Allowed(d, x) /\ Goto(w, "checked") /\ UNCHANGED job
  <2>1. Turns(w, l, x)
    BY <1>1, <1>4, TurnsTo DEF Labels
  <2>2. Drafted(d, x, l)
    BY <1>1, <1>2, <1>4 DEF Drafted
  <2>3. JobOK(d, x, l)
    BY <1>1, <1>2, <2>2 DEF JobOK
  <2> QED BY <1>1, <1>2, <2>1, <2>3, ReadMoves
<1> QED BY <1>1, <1>3, <1>4 DEF Check

\* Seeds of the event in hand are added to the transaction.
LEMMA SeedsMove ==
  ASSUME IInv, NEW w \in Conns, pc[w] = "checked", NEW S,
         S \subseteq {OwnerSeed(job[w].cmd), EventSeed(job[w].cmd)},
         EventSeed(job[w].cmd) \in S => ~Collides(View(w), EventSeed(job[w].cmd)),
         Write(w, WithSeeds(View(w), S)), NEW l, NEW x, Turns(w, l, x),
         \/ l = "idle"
         \/ /\ l = "seeded" /\ x = job[w]
            /\ {OwnerSeed(x.cmd), EventSeed(x.cmd)} \subseteq View(w).seeds \cup S
  PROVE  Keeps(w)
<1>1. PICK d, e, c : d = View(w) /\ e = WithSeeds(d, S) /\ c = job[w].cmd
  OBVIOUS
<1>2. /\ Sound(d) /\ d \in Content /\ Bundled(d) /\ Drafted(d, job[w], "checked")
      /\ c \in Commands
  BY <1>1, HandIs
<1>3. /\ Beside(d, e) /\ Sound(e) /\ Extends(d, e)
      /\ e.seeds = d.seeds \cup S /\ e.bundles = d.bundles
  BY <1>1, <1>2, EventSeedsAdded
<1>4. Bundled(e) /\ e \in Content /\ Len(e.log) = Len(d.log)
  BY <1>2, <1>3, BesideBundled DEF Bundled, Beside
<1>5. JobOK(e, x, l)
  <2>1. CASE l = "idle"
    BY <2>1, <1>4, IdleOK
  <2>2. CASE l = "seeded" /\ x = job[w] /\ {OwnerSeed(x.cmd), EventSeed(x.cmd)} \subseteq e.seeds
    <3>1. Drafted(e, x, "checked")
      BY <2>2, <1>2, <1>3, <1>4, DraftedOn
    <3>2. Drafted(e, x, "seeded")
      BY <2>2, <3>1 DEF Drafted
    <3> QED BY <2>2, <1>4, <3>2 DEF JobOK
  <2> QED BY <1>1, <1>3, <2>1, <2>2
<1> QED BY <1>1, <1>3, <1>4, <1>5, WriteMoves

\* register_creation_seed, also when its second seed is refused.
LEMMA RegisterStep ==
  ASSUME IInv, NEW w \in Conns, Register(w)
  PROVE  Keeps(w)
<1>1. PICK d, c, S : /\ d = View(w) /\ c = job[w].cmd
                     /\ S = {OwnerSeed(c), EventSeed(c)} \ d.seeds
  OBVIOUS
<1>2. /\ pc[w] = "checked" /\ Sound(d) /\ Bundled(d) /\ Drafted(d, job[w], "checked")
      /\ job[w] \in Job
  BY <1>1, HandIs DEF Register
<1>3. PICK x, none, l, idle : x = job[w] /\ none = NoJob /\ l = "seeded" /\ idle = "idle"
  OBVIOUS
<1>4. /\ Leave(w) => Turns(w, idle, none)
      /\ (Goto(w, "seeded") /\ UNCHANGED job) => Turns(w, l, x)
  BY <1>3, TurnsTo DEF Labels
<1>5. CASE /\ Collides(d, EventSeed(c)) /\ Leave(w)
           /\ IF OwnerSeed(c) \in S THEN Write(w, WithSeeds(d, {OwnerSeed(c)})) ELSE Read(w)
  <2>1. CASE Read(w)
    BY <2>1, <1>2, <1>5, ReadLeaves
  <2>2. CASE OwnerSeed(c) \in S /\ Write(w, WithSeeds(d, {OwnerSeed(c)}))
    <3>1. EventSeed(c) \notin {OwnerSeed(c)}
      <4>1. c \in Commands
        BY <1>1, <1>2, HandIs
      <4> QED BY <4>1, <1>2, OwnSeeds
    <3> QED BY <1>1, <1>2, <1>3, <1>4, <1>5, <2>2, <3>1, SeedsMove
  <2> QED BY <1>5, <2>1, <2>2
<1>6. CASE /\ ~Collides(d, EventSeed(c)) /\ Goto(w, "seeded") /\ UNCHANGED job
           /\ IF S # {} THEN Write(w, WithSeeds(d, S)) ELSE Read(w)
  <2>1. CASE Write(w, WithSeeds(d, S))
    <3>1. {OwnerSeed(x.cmd), EventSeed(x.cmd)} \subseteq d.seeds \cup S
      BY <1>1, <1>3
    <3> QED BY <1>1, <1>2, <1>3, <1>4, <1>6, <2>1, <3>1, SeedsMove
  <2>2. CASE S = {} /\ Read(w)
    <3>1. Drafted(d, x, l)
      <4>1. {OwnerSeed(x.cmd), EventSeed(x.cmd)} \subseteq d.seeds
        BY <1>1, <1>3, <2>2
      <4> QED BY <1>2, <1>3, <4>1 DEF Drafted
    <3>2. JobOK(d, x, l)
      BY <1>2, <1>3, <3>1 DEF JobOK
    <3> QED BY <1>1, <1>2, <1>3, <1>4, <1>6, <2>2, <3>2, ReadMoves
  <2> QED BY <1>6, <2>1, <2>2
<1>7. CASE Refused(w) /\ Leave(w)
  <2>1. JobOK(View(w), none, idle)
    BY <1>1, <1>2, <1>3, IdleOK
  <2> QED BY <1>2, <1>3, <1>4, <1>7, <2>1, RefusedMoves
<1> QED BY <1>1, <1>5, <1>6, <1>7 DEF Register

\* The INSERTs of one event and their commit.
LEMMA InsertStep ==
  ASSUME IInv, NEW w \in Conns, Insert(w)
  PROVE  Keeps(w)
<1>1. PICK d, x, e : d = View(w) /\ x = job[w] /\ e = Appended(d, x)
  OBVIOUS
<1>2. /\ pc[w] = "seeded" /\ Leave(w) /\ Sound(d) /\ d \in Content /\ Bundled(d)
      /\ Drafted(d, x, "seeded") /\ x.cmd \in Single
  BY <1>1, HandIs DEF Insert
<1>3. CASE Rollback(w)
  BY <1>2, <1>3, RollbackLeaves
<1>4. CASE ~Taken(d, x) /\ Commit(w, e)
  <2>1. x.gseq = Len(d.log) + 1
    <3>1. Len(d.log) \in Nat /\ x.gseq \in Nat /\ x.gseq <= Len(d.log) + 1
      BY <1>2, ContentLens DEF Drafted, DraftOf
    <3>2. ~(x.gseq <= Len(d.log))
      BY <1>4 DEF Taken
    <3> QED BY <3>1, <3>2
  <2>2. Fresh(d, x) /\ Allowed(d, x) /\ DraftOf(x)
    BY <1>2, <2>1 DEF Drafted
  <2>3. MergeSafe(d, x)
    BY <1>2, <2>2 DEF Drafted, MergeSafe, Merges, Fresh
  <2>4. {OwnerSeed(x.cmd), EventSeed(x.cmd)} \subseteq d.seeds
    BY <1>2 DEF Drafted
  <2>5. Onward(d, x, e)
    BY <1>1, <1>2, <1>4, <2>2, <2>3, <2>4 DEF Onward, Appendable
  <2>6. Sound(e) /\ Extends(d, e) /\ Bundled(e)
    BY <1>2, <2>5, AppendedSound, SingleBundled
  <2> QED BY <1>1, <1>2, <1>4, <2>6, CommitLeaves
<1> QED BY <1>1, <1>3, <1>4 DEF Insert

\* A bundle is offered.
LEMMA OfferStep ==
  ASSUME IInv, NEW w \in Conns, NEW b \in Bundles, Offer(w, b)
  PROVE  Keeps(w)
<1>1. PICK d, l : d = View(w) /\ l = "offered"
  OBVIOUS
<1>2. PICK x : x = [NoJob EXCEPT !.bundle = b, !.at = 1,
                                 !.offered = [o \in Owners |-> OwnerRev(d, o)]]
  OBVIOUS
<1>3. /\ pc[w] = "idle" /\ Read(w) /\ Goto(w, l) /\ job' = [job EXCEPT ![w] = x]
      /\ d \in Content /\ Bundled(d)
  BY <1>1, <1>2, HandIs DEF Offer
<1>4. [o \in Owners |-> OwnerRev(d, o)] \in [Owners -> Nat]
  BY <1>3, ContentLens
<1>5. x \in Job /\ x.bundle = b /\ x.at = 1
  <2>. DEFINE offered == [o \in Owners |-> OwnerRev(d, o)]
  <2>1. x = [NoJob EXCEPT !.bundle = b, !.at = 1, !.offered = offered]
    BY <1>2
  <2>2. offered \in [Owners -> Nat]
    BY <1>4
  <2>. HIDE DEF offered
  <2> QED BY <2>1, <2>2, NoJobIs DEF Job
<1>6. Turns(w, l, x)
  BY <1>1, <1>3, <1>5, TurnsTo DEF Labels
<1>7. JobOK(d, x, l)
  BY <1>1, <1>3, <1>5 DEF JobOK
<1> QED BY <1>1, <1>3, <1>6, <1>7, ReadMoves

\* A bundle begins in a transaction of its own, or in one left open.
LEMMA StartBundleStep ==
  ASSUME IInv, NEW w \in Conns, StartBundle(w)
  PROVE  Keeps(w)
<1>1. PICK d, x, l, D : d = View(w) /\ x = job[w] /\ l = "bundle" /\ D = db
  OBVIOUS
<1>2. /\ pc[w] = "offered" /\ d \in Content /\ Bundled(d) /\ Sound(D) /\ D \in Content
      /\ Bundled(D) /\ Shape
  BY <1>1, HandIs DEF StartBundle, IInv, Shape
<1>3. x.at = 1 /\ x.bundle \in Bundles
  <2>1. JobOK(d, x, "offered")
    BY <1>1, <1>2, ViewIs
  <2> QED BY <2>1 DEF JobOK
<1>4. ASSUME NEW e \in Content, Bundled(e) PROVE JobOK(e, x, l)
  <2>1. x.bundle \notin e.bundles => Progress(e, x.bundle, 0)
    BY <1>3, <1>4, ProgressBegins
  <2>2. Applying(e, x)
    BY <1>3, <1>4, <2>1 DEF Applying
  <2> QED BY <1>1, <1>3, <2>2 DEF JobOK
<1>5. CASE ~open[w] /\ ~MayWrite(w) /\ UNCHANGED file /\ Leave(w)
  <2>1. Read(w)
    BY <1>5 DEF Read, file
  <2> QED BY <1>2, <1>5, <2>1, ReadLeaves
<1>6. CASE /\ IF open[w] THEN Read(w) ELSE Write(w, db)
           /\ Goto(w, "bundle") /\ UNCHANGED job
  <2>1. Turns(w, l, x)
    BY <1>1, <1>6, TurnsTo DEF Labels
  <2>2. CASE open[w] /\ Read(w)
    <3>1. JobOK(d, x, l)
      BY <1>2, <1>4
    <3> QED BY <1>1, <1>2, <2>1, <2>2, <3>1, ReadMoves
  <2>3. CASE ~open[w] /\ Write(w, D)
    <3>1. snap[w] = None
      BY <2>3 DEF IInv, ConnOK
    <3>2. d = D /\ Extends(d, D)
      BY <1>1, <1>2, <3>1, ViewIs, ExtendsSelf
    <3>3. JobOK(D, x, l)
      BY <1>2, <1>4
    <3> QED BY <1>1, <1>2, <2>1, <2>3, <3>2, <3>3, WriteMoves
  <2> QED BY <1>1, <1>6, <2>2, <2>3
<1> QED BY <1>5, <1>6 DEF StartBundle

\* The bundle in hand, and where it is.
LEMMA BundleIs ==
  ASSUME IInv, NEW w \in Conns, pc[w] = "bundle"
  PROVE  /\ job[w] \in Job /\ job[w].bundle \in Bundles /\ job[w].at \in Nat \ {0}
         /\ IF job[w].bundle \in View(w).bundles THEN Bundled(View(w))
              ELSE Progress(View(w), job[w].bundle, job[w].at - 1)
<1>1. JobOK(View(w), job[w], "bundle") /\ job[w] \in Job
  BY ViewIs, HandIs
<1> QED BY <1>1 DEF JobOK, Applying

\* The next command of a bundle, or the rollback of all of them.
LEMMA BundleStepStep ==
  ASSUME IInv, NEW w \in Conns, BundleStep(w)
  PROVE  Keeps(w)
<1>1. PICK d, j, b, k : d = View(w) /\ j = job[w] /\ b = j.bundle /\ k = j.at - 1
  OBVIOUS
<1>2. PICK c : c = Plan[b][j.at]
  OBVIOUS
<1>3. PICK r : r = j.offered[c.owner]
  OBVIOUS
<1>4. PICK x : x = Prepared(d, c, 0, r)
  OBVIOUS
<1>5. PICK S, s, e : /\ S = {OwnerSeed(c), EventSeed(c)} /\ s = WithSeeds(d, S)
                     /\ e = Appended(s, x)
  OBVIOUS
<1>6. /\ pc[w] = "bundle" /\ b \notin d.bundles /\ j.at \in DOMAIN Plan[b]
      /\ j \in Job /\ b \in Bundles /\ j.at \in Nat \ {0}
      /\ Progress(d, b, k) /\ Sound(d) /\ d \in Content
  BY <1>1, BundleIs, HandIs DEF BundleStep
<1>7. CASE Rollback(w) /\ Leave(w)
  BY <1>7, RollbackLeaves
<1>8. CASE /\ x.expected = OwnerRev(d, c.owner)
           /\ c.owner \in Items => ValidItem(x.next)
           /\ Allowed(d, x) /\ ~Collides(d, EventSeed(c)) /\ ~Taken(s, x)
           /\ Write(w, e) /\ job' = [job EXCEPT ![w].at = @ + 1] /\ UNCHANGED pc
  <2>1. /\ c \in Commands /\ c.kind # "merge_disjoint" /\ k \in Nat /\ k < Len(Plan[b])
        /\ k + 1 = j.at
    BY <1>1, <1>2, <1>6, PlanIs, PlanAssumption
  <2>2. x.expected = r /\ (c.owner \in Items => x.next = Proposed(d.items[c.owner], c))
    BY <1>4 DEF Prepared, NoJob
  <2>3. /\ x \in Job /\ DraftOf(x) /\ Fresh(d, x) /\ x.cmd = c
    <3>1. /\ r = OwnerRev(d, c.owner) /\ 0 \in Nat
          /\ c.owner \in Items => ValidItem(Proposed(d.items[c.owner], c))
      BY <1>8, <2>2
    <3> QED BY <1>4, <1>6, <2>1, <3>1, PreparedIs
  <2>4. /\ Beside(d, s) /\ Sound(s) /\ Extends(d, s)
        /\ s.bundles = d.bundles /\ s.seeds = d.seeds \cup S
    BY <1>5, <1>6, <1>8, <2>1, EventSeedsAdded
  <2>5. Onward(s, x, e)
    <3>1. /\ s.log = d.log /\ s.items = d.items /\ s.bindings = d.bindings
          /\ d.joint \subseteq s.joint
      BY <2>4 DEF Beside
    <3>2. Fresh(s, x)
      <4>1. \A o : OwnerRev(s, o) = OwnerRev(d, o) /\ OwnerHead(s, o) = OwnerHead(d, o)
        BY <3>1 DEF OwnerRev, OwnerHead
      <4>2. GlobalHead(s) = GlobalHead(d)
        BY <3>1 DEF GlobalHead
      <4> QED BY <2>3, <3>1, <4>1, <4>2 DEF Fresh
    <3>3. Allowed(s, x)
      <4>1. ItemAllowed(d, x) => ItemAllowed(s, x)
        BY <3>1 DEF ItemAllowed
      <4>2. BindingAllowed(d, x) => BindingAllowed(s, x)
        BY <3>1 DEF BindingAllowed
      <4> QED BY <1>8, <4>1, <4>2 DEF Allowed
    <3>4. MergeSafe(s, x)
      BY <2>1, <2>3 DEF MergeSafe
    <3>5. {OwnerSeed(x.cmd), EventSeed(x.cmd)} \subseteq s.seeds
      BY <1>5, <2>3, <2>4
    <3> QED BY <1>5, <1>8, <2>3, <2>4, <3>2, <3>3, <3>4, <3>5 DEF Onward, Appendable
  <2>6. Sound(e) /\ Extends(s, e) /\ e \in Content /\ s \in Content
    BY <2>4, <2>5, AppendedSound DEF Sound
  <2>7. Extends(d, e)
    BY <1>6, <2>4, <2>6, ExtendsOn
  <2>8. Progress(e, b, k + 1)
    BY <1>2, <1>6, <2>1, <2>3, <2>4, <2>5, ProgressGoesOn
  <2>9. PICK l, y : l = "bundle" /\ y = [j EXCEPT !.at = j.at + 1]
    OBVIOUS
  <2>10. y \in Job /\ y.at = j.at + 1 /\ y.bundle = b
    BY <1>1, <1>6, <2>9 DEF Job
  <2>11. Turns(w, l, y)
    <3>1. job' = [job EXCEPT ![w] = y]
      BY <1>1, <1>8, <2>9
    <3>2. "bundle" \in Labels
      BY DEF Labels
    <3>3. Turns(w, pc[w], y)
      BY <1>8, <2>10, <3>1, <3>2, TurnsTo
    <3> QED BY <1>6, <2>9, <3>3
  <2>12. JobOK(e, y, l)
    <3>1. y.at \in Nat \ {0} /\ y.at - 1 = k + 1
      BY <1>1, <1>6, <2>10
    <3>2. b \notin e.bundles
      BY <2>8 DEF Progress
    <3>3. Applying(e, y)
      BY <2>8, <2>10, <3>1, <3>2 DEF Applying
    <3> QED BY <1>6, <2>9, <2>10, <3>3 DEF JobOK
  <2> QED BY <1>1, <1>8, <2>6, <2>7, <2>9, <2>11, <2>12, WriteMoves
<1> QED BY <1>1, <1>2, <1>3, <1>4, <1>5, <1>7, <1>8 DEF BundleStep

\* A bundle commits when all its commands are there.
LEMMA BundleDoneStep ==
  ASSUME IInv, NEW w \in Conns, BundleDone(w)
  PROVE  Keeps(w)
<1>1. PICK d, j, b : d = View(w) /\ j = job[w] /\ b = j.bundle
  OBVIOUS
<1>2. PICK e : e = Receipted(d, b)
  OBVIOUS
<1>3. /\ pc[w] = "bundle" /\ Leave(w) /\ b \in Bundles /\ j.at \in Nat \ {0}
      /\ b \in d.bundles \/ j.at \notin DOMAIN Plan[b]
      /\ IF b \in d.bundles THEN Bundled(d) ELSE Progress(d, b, j.at - 1)
      /\ Sound(d) /\ d \in Content
  BY <1>1, BundleIs, HandIs DEF BundleDone
<1>4. CASE Rollback(w)
  BY <1>3, <1>4, RollbackLeaves
<1>5. CASE Commit(w, e)
  <2>1. Progress(d, b, Len(Plan[b])) \/ (b \in d.bundles /\ Bundled(d))
    <3>1. CASE b \in d.bundles
      BY <1>3, <3>1
    <3>2. CASE b \notin d.bundles
      <4>1. Progress(d, b, j.at - 1) /\ j.at \notin DOMAIN Plan[b]
        BY <1>3, <3>2
      <4>2. j.at - 1 \in 0 .. Len(Plan[b]) /\ j.at \notin 1 .. Len(Plan[b])
        BY <1>3, <4>1, PlanIs DEF Progress
      <4>3. j.at - 1 = Len(Plan[b])
        BY <1>3, <4>2, PlanIs
      <4> QED BY <4>1, <4>3
    <3> QED BY <3>1, <3>2
  <2>2. \A m \in DOMAIN Plan[b] : \E n \in DOMAIN d.log : d.log[n].event = Plan[b][m].event
    <3>1. CASE b \in d.bundles
      BY <1>3, <3>1 DEF Sound, Doctor, BundlesAgree
    <3>2. CASE Progress(d, b, Len(Plan[b]))
      BY <1>3, <3>2, PlanIs DEF Progress
    <3> QED BY <2>1, <3>1, <3>2
  <2>3. Beside(d, e) /\ Sound(e) /\ Extends(d, e) /\ e.bundles = d.bundles \cup {b}
    BY <1>2, <1>3, <2>2, BundleAdded
  <2>4. Bundled(e)
    BY <1>3, <2>1, <2>3, ProgressEnds
  <2> QED BY <1>1, <1>3, <1>5, <2>3, <2>4, CommitLeaves
<1> QED BY <1>1, <1>2, <1>4, <1>5 DEF BundleDone, Receipted

\* What holds of whole bundles does not change with what lies beside the log.
LEMMA BesideWhole ==
  ASSUME NEW d, NEW e, Beside(d, e), e.bundles = d.bundles, Bundled(d)
  PROVE  Bundled(e)
BY BesideBundled DEF Bundled

\* put_accepted_joint_receipt, also when its second INSERT is refused.
LEMMA PutJointStep ==
  ASSUME IInv, NEW w \in Conns, NEW c \in Commands, c.kind = "attest_joint",
         c.owner \in Items, PutJoint(w, c.owner, c.key)
  PROVE  Keeps(w)
<1>1. PICK d, j : /\ d = View(w)
                  /\ j = [owner |-> c.owner, expected |-> d.items[c.owner].rev, key |-> c.key]
  OBVIOUS
<1>2. PICK s, e, l, x : /\ s = WithSeeds(d, {JointSeed(j)})
                        /\ e = [s EXCEPT !.joint = @ \cup {j}]
                        /\ l = "idle" /\ x = job[w]
  OBVIOUS
<1>3. /\ pc[w] = "idle" /\ UNCHANGED <<pc, job>> /\ Sound(d) /\ d \in Content /\ Bundled(d)
      /\ Bundled(db) /\ Turns(w, l, x)
  <2>1. /\ pc[w] = "idle" /\ UNCHANGED <<pc, job>> /\ Sound(d) /\ d \in Content /\ Bundled(d)
        /\ Bundled(db)
    BY <1>1, HandIs DEF PutJoint
  <2> QED BY <1>2, <2>1, TurnsTo DEF Labels
<1>4. j \in Joint /\ \A k \in d.joint : k.key = c.key /\ j \notin d.joint => k # j
  <2>1. c.key \in Keys /\ d.items[c.owner].rev \in Nat
    BY <1>3, CommandAssumption, ContentLens DEF Command, Item
  <2> QED BY <1>1, <2>1 DEF Joint
<1>5. CASE Read(w)
  <2>1. JobOK(d, x, l)
    BY <1>2, <1>3, IdleOK
  <2> QED BY <1>1, <1>2, <1>3, <1>5, <2>1, ReadMoves
<1>6. CASE Refused(w)
  <2>1. JobOK(d, x, l)
    BY <1>2, <1>3, IdleOK
  <2> QED BY <1>1, <1>2, <1>3, <1>6, <2>1, RefusedMoves
<1>7. CASE Rollback(w)
  <2>1. JobOK(db, x, l)
    BY <1>2, <1>3, IdleOK
  <2> QED BY <1>1, <1>2, <1>3, <1>7, <2>1, RollbackMoves
<1>8. CASE Write(w, s)
  <2>1. Beside(d, s) /\ Sound(s) /\ Extends(d, s) /\ s.bundles = d.bundles
    <3>1. \A t \in {JointSeed(j)} : OwnKind(t) /\ ~Collides(d, t)
      BY <1>3, <1>4, RecordSeeds
    <3>2. PICK S : S = {JointSeed(j)}
      OBVIOUS
    <3>3. \A t, u \in S : t.id = u.id => t = u
      BY <3>2
    <3> QED BY <1>2, <1>3, <3>1, <3>2, <3>3, SeedsAdded
  <2>2. Bundled(s) /\ Len(s.log) = Len(d.log)
    BY <1>3, <2>1, BesideWhole DEF Beside
  <2>3. JobOK(s, x, l)
    BY <1>2, <2>2, IdleOK
  <2> QED BY <1>1, <1>2, <1>3, <1>8, <2>1, <2>2, <2>3, WriteMoves
<1>9. CASE Commit(w, e) /\ ~\E other \in d.joint : other.key = c.key /\ other # j
  <2>1. \A k \in d.joint : k.key = j.key => k = j
    BY <1>1, <1>9
  <2>2. Beside(d, e) /\ Sound(e) /\ Extends(d, e) /\ e.bundles = d.bundles
    <3>1. e = [WithSeeds(d, {JointSeed(j)}) EXCEPT !.joint = @ \cup {j}]
      BY <1>2
    <3>2. Sound(d) /\ j \in Joint
      BY <1>3, <1>4
    <3> QED BY <2>1, <3>1, <3>2, JointAdded
  <2>3. Bundled(e)
    BY <1>3, <2>2, BesideWhole
  <2>4. JobOK(e, x, l)
    BY <1>2, <2>3, IdleOK
  <2> QED BY <1>1, <1>2, <1>3, <1>9, <2>2, <2>4, CommitMoves
<1> QED BY <1>1, <1>2, <1>5, <1>6, <1>7, <1>8, <1>9 DEF PutJoint

\* A finalisation takes the revisions that are there in hand.
LEMMA FinaliseStep ==
  ASSUME IInv, NEW w \in Conns, NEW op \in Operations, NEW t \in Times, Finalise(w, op, t)
  PROVE  Keeps(w)
<1>1. PICK d, l : d = View(w) /\ l = "finalising"
  OBVIOUS
<1>2. PICK todo : todo = UNION {{<<i, r>> : r \in {n \in DOMAIN d.history[i] :
                                                 d.history[i][n].op = op}} : i \in Items}
  OBVIOUS
<1>3. PICK x : x = [NoJob EXCEPT !.time = t, !.todo = todo]
  OBVIOUS
<1>4. /\ pc[w] = "idle" /\ Read(w) /\ Goto(w, l) /\ job' = [job EXCEPT ![w] = x]
      /\ d \in Content /\ Bundled(d)
  BY <1>1, <1>2, <1>3, HandIs DEF Finalise
<1>5. ASSUME NEW p \in todo
      PROVE  \E i \in Items : \E r \in DOMAIN d.history[i] : p = <<i, r>>
  BY <1>2
<1>6. \A i \in Items : \A r \in DOMAIN d.history[i] : r \in Nat \ {0}
  BY <1>4, ContentLens
<1>7. todo \in SUBSET (Items \X (Nat \ {0}))
  BY <1>5, <1>6
<1>8. \A i \in Items, r \in Nat : <<i, r>> \in todo => r \in DOMAIN d.history[i]
  BY <1>5
<1>9. x \in Job /\ x.time = t /\ x.todo = todo
  BY <1>3, <1>7, NoJobIs DEF Job
<1>10. Turns(w, l, x)
  BY <1>1, <1>4, <1>9, TurnsTo DEF Labels
<1>11. JobOK(d, x, l)
  BY <1>1, <1>4, <1>8, <1>9 DEF JobOK
<1> QED BY <1>1, <1>4, <1>10, <1>11, ReadMoves

\* A disposition on d.
Marked(d, l) == [d EXCEPT !.lineage = @ \cup {l}]

\* record_non_authoritative_revision marks a revision that exists.
LEMMA RecordRevisionStep ==
  ASSUME IInv, NEW w \in Conns, NEW i \in Items, NEW r \in Nat, RecordRevision(w, i, r)
  PROVE  Keeps(w)
<1>1. PICK d, j, f : d = View(w) /\ j = job[w] /\ f = "finalising"
  OBVIOUS
<1>2. PICK l : l = [item |-> i, rev |-> r, event |-> d.history[i][r].event,
                    op |-> d.history[i][r].op, time |-> j.time]
  OBVIOUS
<1>3. PICK e, y : e = Marked(d, l) /\ y = [j EXCEPT !.todo = j.todo \ {<<i, r>>}]
  OBVIOUS
<1>4. /\ pc[w] = "finalising" /\ <<i, r>> \in j.todo /\ j \in Job /\ Sound(d) /\ Bundled(d)
      /\ JobOK(d, j, f) /\ d \in Content
  BY <1>1, HandIs, ViewIs DEF RecordRevision
<1>5. CASE Rollback(w) /\ Leave(w)
  BY <1>5, RollbackLeaves
<1>6. CASE Commit(w, e) /\ job' = [job EXCEPT ![w].todo = @ \ {<<i, r>>}] /\ UNCHANGED pc
  <2>1. r \in DOMAIN d.history[i] /\ j.time \in Times
    BY <1>1, <1>4 DEF JobOK
  <2>2. Beside(d, e) /\ Sound(e) /\ Extends(d, e) /\ e.bundles = d.bundles
    <3>1. e = [d EXCEPT !.lineage = @ \cup {l}]
      BY <1>3 DEF Marked
    <3> QED BY <1>2, <1>4, <2>1, <3>1, DispositionAdded
  <2>3. Bundled(e) /\ e \in Content
    BY <1>4, <2>2, BesideWhole DEF Beside
  <2>4. y \in Job /\ y.time = j.time /\ y.todo \subseteq j.todo
    BY <1>3, <1>4 DEF Job
  <2>5. Turns(w, f, y)
    <3>1. job' = [job EXCEPT ![w] = y]
      BY <1>1, <1>3, <1>6
    <3>2. "idle" \in Labels
      BY DEF Labels
    <3>3. Turns(w, pc[w], y)
      BY <1>6, <2>4, <3>1, <3>2, TurnsTo
    <3> QED BY <1>1, <1>4, <3>3
  <2>6. JobOK(e, j, f)
    BY <1>1, <1>4, <2>2, <2>3, JobOn
  <2>7. JobOK(e, y, f)
    BY <1>1, <2>3, <2>4, <2>6 DEF JobOK
  <2> QED BY <1>1, <1>6, <2>2, <2>5, <2>7, CommitMoves
<1> QED BY <1>1, <1>2, <1>3, <1>5, <1>6 DEF RecordRevision, Marked

\* A finalisation ends.
LEMMA FinalisedStep ==
  ASSUME IInv, NEW w \in Conns, Finalised(w)
  PROVE  Keeps(w)
<1>1. PICK x, l : x = NoJob /\ l = "idle"
  OBVIOUS
<1>2. PICK D, s, lk, o : D = db /\ s = snap[w] /\ lk = lock /\ o = open[w]
  OBVIOUS
<1>3. /\ pc[w] = "finalising" /\ Leave(w) /\ UNCHANGED <<db, snap, open, lock>> /\ Shape
      /\ Sound(db) /\ Bundled(db) /\ Bundled(View(w)) /\ View(w) = Sees(db, snap[w])
      /\ ConnOK(db, lock, w, snap[w], open[w], pc[w], job[w])
  BY HandIs, ViewIs DEF Finalised, file, IInv
<1>4. Turns(w, l, x)
  BY <1>1, <1>3, TurnsTo DEF Labels
<1>5. Moves(w, D, s, o, lk, l, x)
  BY <1>2, <1>3, <1>4 DEF Moves, Turns, Shape
<1>6. ConnOK(D, lk, w, s, o, l, x)
  <2>1. JobOK(Sees(D, s), x, l)
    BY <1>1, <1>2, <1>3, IdleOK
  <2> QED BY <1>1, <1>2, <1>3, <2>1 DEF ConnOK
<1>7. Lands(w, D, s, o, lk, l, x)
  BY <1>2, <1>3, <1>4, <1>6, ExtendsSelf DEF Lands, Turns, Shape
<1> QED BY <1>5, <1>7, Moved

\* Every step of a connection keeps the invariant, and what the file holds.
LEMMA StepKeeps ==
  ASSUME IInv, NEW w \in Conns, Step(w, Single, Bundles)
  PROVE  Keeps(w)
<1>1. CASE \E c \in Single, base \in 0 .. Len(db.log) : Draft(w, c, base)
  BY <1>1, DraftStep
<1>2. CASE \E b \in Bundles : Offer(w, b)
  BY <1>2, OfferStep
<1>3. CASE \E c \in Single : /\ c.kind = "attest_joint" /\ c.owner \in Items
                              /\ PutJoint(w, c.owner, c.key)
  <2>1. Single \subseteq Commands
    BY DEF Single
  <2> QED BY <1>3, <2>1, PutJointStep
<1>4. CASE \E op \in Operations, t \in Times : Finalise(w, op, t)
  BY <1>4, FinaliseStep
<1>5. CASE \E i \in Items, r \in 1 .. Len(db.log) : RecordRevision(w, i, r)
  <2>1. \A r \in 1 .. Len(db.log) : r \in Nat
    OBVIOUS
  <2> QED BY <1>5, <2>1, RecordRevisionStep
<1>6. CASE Crash(w)
  BY <1>6, RollbackLeaves DEF Crash
<1>7. CASE MergeCheck(w) \/ Check(w) \/ Register(w) \/ Insert(w)
  BY <1>7, MergeCheckStep, CheckStep, RegisterStep, InsertStep
<1>8. CASE StartBundle(w) \/ BundleStep(w) \/ BundleDone(w) \/ Finalised(w)
  BY <1>8, StartBundleStep, BundleStepStep, BundleDoneStep, FinalisedStep
<1> QED BY <1>1, <1>2, <1>3, <1>4, <1>5, <1>6, <1>7, <1>8 DEF Step

\* A new file, and nobody connected.
LEMMA InitHolds ==
  ASSUME Init
  PROVE  IInv
<1>1. EmptyDB \in Content /\ Sound(EmptyDB) /\ Bundled(EmptyDB)
  BY EmptySound, EmptyBundled DEF Sound
<1>2. Shape
  BY <1>1, NoJobIs DEF Init, Shape, Labels
<1>3. None \notin Conns
  BY NoneAssumption
<1>4. ASSUME NEW w \in Conns
      PROVE  ConnOK(db, lock, w, snap[w], open[w], pc[w], job[w])
  <2>1. snap[w] = None /\ lock # w /\ pc[w] = "idle" /\ db = EmptyDB
    BY <1>3 DEF Init
  <2>2. JobOK(Sees(db, snap[w]), job[w], pc[w])
    BY <1>1, <2>1, IdleOK DEF Sees
  <2> QED BY <2>1, <2>2 DEF ConnOK
<1> QED BY <1>1, <1>2, <1>4 DEF Init, IInv

\* Nothing happens.
LEMMA StutterKeeps ==
  ASSUME IInv, UNCHANGED vars
  PROVE  IInv' /\ Extends(db, db')
<1>1. db \in Content
  BY DEF IInv, Shape
<1>2. Extends(db, db')
  BY <1>1, ExtendsSelf DEF vars
<1>3. IInv'
  BY DEF IInv, Shape, vars
<1> QED BY <1>2, <1>3

(***************************************************************************)
(* The readers                                                             *)
(***************************************************************************)
ReadRec == [kind : Kinds, owns : BOOLEAN, room : Rooms \cup {None}, binding : Nat,
            since : SUBSET Disposition, lineage : SUBSET Disposition,
            items : [Items -> Nat], shown : [Items -> Nat], head : Nat]

UpTo(D, o, head) == {n \in 1 .. head : D.log[n].owner = o}

\* What a read has seen so far, of its snapshot s.
Bound(s, q) == q.kind = "bound" => q.room \in Rooms /\ q.binding = s.bindings[q.room].rev
Hidden(q) == q.kind # "checkpoint" => \A l \in q.since : q.shown[l.item] < l.rev

OneMoment(D, q) ==
  /\ q.head <= Len(D.log)
  /\ \A i \in Items : q.items[i] = Cardinality(UpTo(D, i, q.head))
  /\ q.kind = "bound" => q.room \in Rooms /\ q.binding = Cardinality(UpTo(D, q.room, q.head))

ReadOK(D, s, r, q) ==
  /\ r = "lineage" => s # None /\ q.kind = "bound" /\ Bound(s, q) /\ q.since \subseteq s.lineage
  /\ r = "items" => /\ q.kind # "checkpoint" /\ q.since \subseteq q.lineage
                    /\ q.kind = "bound" => s # None
                    /\ Bound(s, q)
  /\ r = "head" => s # None /\ q.items = Revs(s) /\ Bound(s, q) /\ Hidden(q)
  /\ (r = "idle" /\ q # None) => q \in ReadRec /\ OneMoment(D, q) /\ Hidden(q)

RInv ==
  /\ IInv
  /\ rpc \in [Conns -> {"idle", "lineage", "items", "head"}]
  /\ read \in [Conns -> ReadRec \cup {None}]
  /\ \A w \in Conns : rpc[w] # "idle" => pc[w] = "idle" /\ read[w] \in ReadRec
  /\ \A w \in Conns : ReadOK(db, snap[w], rpc[w], read[w])

\* What a read has seen stays good when the file grows.
LEMMA ReadOn ==
  ASSUME NEW D \in Content, NEW E \in Content, Extends(D, E), NEW s, NEW r, NEW q,
         ReadOK(D, s, r, q)
  PROVE  ReadOK(E, s, r, q)
<1>1. Len(D.log) \in Nat /\ Len(E.log) \in Nat /\ Len(D.log) <= Len(E.log)
      /\ DOMAIN D.log = 1 .. Len(D.log)
      /\ \A n \in DOMAIN D.log : E.log[n] = D.log[n]
  BY ContentLens DEF Extends
<1>2. ASSUME q \in ReadRec, OneMoment(D, q) PROVE OneMoment(E, q)
  <2>1. q.head \in Nat /\ q.head <= Len(D.log)
    BY <1>2 DEF ReadRec, OneMoment
  <2>2. \A n \in 1 .. q.head : E.log[n] = D.log[n]
    BY <1>1, <2>1
  <2>3. \A o : UpTo(E, o, q.head) = UpTo(D, o, q.head)
    BY <2>2 DEF UpTo
  <2> QED BY <1>1, <1>2, <2>1, <2>3 DEF OneMoment
<1> QED BY <1>2 DEF ReadOK

\* A transaction's own revisions are those of the file up to its own head.
LEMMA MomentIs ==
  ASSUME IInv, NEW w \in Conns, snap[w] # None, pc[w] = "idle"
  PROVE  /\ Len(snap[w].log) \in Nat /\ Len(snap[w].log) <= Len(db.log)
         /\ \A o \in Owners : OwnerRev(snap[w], o) = Cardinality(UpTo(db, o, Len(snap[w].log)))
<1>1. PICK s, D : s = snap[w] /\ D = db
  OBVIOUS
<1>2. /\ ConnOK(D, lock, w, s, open[w], pc[w], job[w]) /\ D \in Content /\ Sound(s)
      /\ s \in Content /\ pc[w] # "bundle" /\ s # None
  BY <1>1 DEF IInv, Shape, ConnOK, Sound
<1>3. Len(s.log) \in Nat /\ Len(D.log) \in Nat /\ DOMAIN s.log = 1 .. Len(s.log)
  BY <1>2, ContentLens
<1>4. Len(s.log) <= Len(D.log) /\ \A n \in DOMAIN s.log : D.log[n] = s.log[n]
  <2>1. CASE lock = w
    <3>1. Extends(D, s) /\ Len(s.log) = Len(D.log)
      BY <1>2, <2>1 DEF ConnOK
    <3>2. s.log = D.log
      BY <3>1 DEF Extends
    <3> QED BY <1>3, <3>1, <3>2
  <2>2. CASE lock # w
    BY <1>2, <2>2 DEF ConnOK, Extends
  <2> QED BY <2>1, <2>2
<1>5. \A o : UpTo(D, o, Len(s.log)) = Mine(s, o)
  BY <1>3, <1>4 DEF UpTo, Mine
<1> QED BY <1>1, <1>2, <1>3, <1>4, <1>5 DEF Sound, RevsCount

\* A projection shows nothing at or behind a disposition that it has read.
LEMMA ShownHidden ==
  ASSUME NEW items \in [Items -> Nat], NEW lineage \in SUBSET Disposition
  PROVE  /\ Shown(items, lineage) \in [Items -> Nat]
         /\ \A l \in lineage : Shown(items, lineage)[l.item] < l.rev
<1>1. ASSUME NEW i \in Items
      PROVE  /\ Shown(items, lineage)[i] \in Nat
             /\ \A l \in lineage : l.item = i => Shown(items, lineage)[i] < l.rev
  <2>. DEFINE cut == {l.rev : l \in {m \in lineage : m.item = i}}
              S == {r \in 0 .. items[i] : \A c \in cut : r < c}
  <2>1. Shown(items, lineage)[i] = Max(S)
    BY DEF Shown
  <2>2. \A c \in cut : 0 < c
    BY DEF Disposition
  <2>3. items[i] \in Nat /\ S \in SUBSET (0 .. items[i]) /\ 0 \in 0 .. items[i]
    OBVIOUS
  <2>4. 0 \in S
    <3>. HIDE DEF cut
    <3> QED BY <2>2, <2>3
  <2>5. Max(S) \in S
    BY <2>3, <2>4, MaxIsIn
  <2>6. Max(S) \in Nat /\ \A c \in cut : Max(S) < c
    BY <2>5
  <2> QED BY <2>1, <2>6
<1>2. \A l \in lineage : l.item \in Items
  BY DEF Disposition
<1>3. Shown(items, lineage) \in [Items -> Nat]
  BY <1>1 DEF Shown
<1> QED BY <1>1, <1>2, <1>3

\* An explicit BEGIN and what is read behind it.
LEMMA BegunKeeps ==
  ASSUME IInv, NEW w \in Conns, Begun(w), UNCHANGED <<pc, job>>, pc[w] = "idle"
  PROVE  Keeps(w)
<1>1. /\ Shape /\ Sound(db) /\ Bundled(db) /\ View(w) \in Content /\ Sound(View(w))
      /\ ConnOK(db, lock, w, snap[w], open[w], pc[w], job[w]) /\ Bundled(View(w))
      /\ snap[w] # None => View(w) = snap[w]
      /\ snap[w] = None => View(w) = db
  BY ViewIs, HandIs DEF IInv
<1>2. PICK D, s, lk, o, l, x : /\ D = db /\ s = View(w) /\ lk = lock /\ o = TRUE
                               /\ l = "idle" /\ x = job[w]
  OBVIOUS
<1>3. Turns(w, l, x)
  BY <1>2, TurnsTo DEF Labels
<1>4. Moves(w, D, s, o, lk, l, x)
  BY <1>2, <1>3 DEF Moves, Begun, Turns
<1>5. Extends(db, db) /\ s # None
  BY <1>1, <1>2, ExtendsSelf, NoneAssumption DEF Shape
<1>6. ConnOK(D, lk, w, s, o, l, x)
  <2>1. s # None => o /\ Sound(s)
    BY <1>1, <1>2
  <2>2. lk = w => /\ s # None /\ Extends(D, s)
                  /\ l # "bundle" => Len(s.log) = Len(D.log)
    BY <1>1, <1>2 DEF ConnOK
  <2>3. (lk # w /\ s # None) => Extends(s, D)
    BY <1>1, <1>2, <1>5 DEF ConnOK
  <2>4. JobOK(Sees(D, s), x, l)
    BY <1>1, <1>2, <1>5, IdleOK DEF Sees
  <2> QED BY <1>2, <2>1, <2>2, <2>3, <2>4 DEF ConnOK
<1>7. Lands(w, D, s, o, lk, l, x)
  BY <1>1, <1>2, <1>3, <1>5, <1>6 DEF Lands, Turns, Shape
<1> QED BY <1>4, <1>7, Moved

\* A read, or the end of its transaction, by an idle connection.
LEMMA IdleReads ==
  ASSUME IInv, NEW w \in Conns, pc[w] = "idle", UNCHANGED <<pc, job>>,
         Read(w) \/ Rollback(w)
  PROVE  Keeps(w)
<1>1. PICK l, x : l = "idle" /\ x = job[w]
  OBVIOUS
<1>2. Turns(w, l, x) /\ Bundled(View(w)) /\ Bundled(db)
  BY <1>1, TurnsTo, HandIs DEF Labels
<1>3. JobOK(View(w), x, l) /\ JobOK(db, x, l)
  BY <1>1, <1>2, IdleOK
<1> QED BY <1>1, <1>2, <1>3, ReadMoves, RollbackMoves

\* A step that leaves the other connections' reads alone.
LEMMA ReadersMoved ==
  ASSUME RInv, NEW w \in Conns, Keeps(w), NEW r, NEW q,
         rpc' = [rpc EXCEPT ![w] = r], read' = [read EXCEPT ![w] = q],
         r \in {"idle", "lineage", "items", "head"}, q \in ReadRec \cup {None},
         r # "idle" => pc'[w] = "idle" /\ q \in ReadRec,
         ReadOK(db', snap'[w], r, q)
  PROVE  RInv' /\ Extends(db, db')
<1>1. /\ IInv' /\ Extends(db, db')
      /\ \A v \in Conns \ {w} : snap'[v] = snap[v] /\ pc'[v] = pc[v]
  BY DEF Keeps
<1>2. /\ rpc \in [Conns -> {"idle", "lineage", "items", "head"}]
      /\ read \in [Conns -> ReadRec \cup {None}]
  BY DEF RInv
<1>3. /\ rpc' \in [Conns -> {"idle", "lineage", "items", "head"}]
      /\ read' \in [Conns -> ReadRec \cup {None}]
  BY <1>2
<1>4. rpc'[w] = r /\ read'[w] = q
      /\ \A v \in Conns \ {w} : rpc'[v] = rpc[v] /\ read'[v] = read[v]
  BY <1>2
<1>5. ASSUME NEW v \in Conns
      PROVE  /\ rpc'[v] # "idle" => pc'[v] = "idle" /\ read'[v] \in ReadRec
             /\ ReadOK(db', snap'[v], rpc'[v], read'[v])
  <2>1. CASE v = w
    BY <2>1, <1>4
  <2>2. CASE v # w
    <3>1. /\ rpc[v] # "idle" => pc[v] = "idle" /\ read[v] \in ReadRec
          /\ ReadOK(db, snap[v], rpc[v], read[v])
      BY DEF RInv
    <3>2. db \in Content /\ db' \in Content
      BY <1>1 DEF RInv, IInv, Shape
    <3>3. ReadOK(db', snap[v], rpc[v], read[v])
      BY <1>1, <3>1, <3>2, ReadOn
    <3> QED BY <2>2, <1>1, <1>4, <3>1, <3>3
  <2> QED BY <2>1, <2>2
<1> QED BY <1>1, <1>3, <1>5 DEF RInv

\* What w's reads were is kept by a step of w that does not read.
LEMMA IdleMoved ==
  ASSUME RInv, NEW w \in Conns, Keeps(w), rpc[w] = "idle", UNCHANGED <<rpc, read>>
  PROVE  RInv' /\ Extends(db, db')
<1>1. PICK r, q : r = rpc[w] /\ q = read[w]
  OBVIOUS
<1>2. /\ rpc \in [Conns -> {"idle", "lineage", "items", "head"}]
      /\ read \in [Conns -> ReadRec \cup {None}]
      /\ ReadOK(db, snap[w], r, q) /\ db \in Content
  BY <1>1 DEF RInv, IInv, Shape
<1>3. rpc' = [rpc EXCEPT ![w] = r] /\ read' = [read EXCEPT ![w] = q]
  BY <1>1, <1>2
<1>4. Extends(db, db') /\ db' \in Content
  BY DEF Keeps, IInv, Shape
<1>5. ReadOK(db', snap[w], r, q)
  BY <1>2, <1>4, ReadOn
<1>6. ReadOK(db', snap'[w], r, q)
  BY <1>1, <1>5 DEF ReadOK
<1> QED BY <1>1, <1>2, <1>3, <1>6, ReadersMoved

\* A read begins in a snapshot of its own: the room's binding.
LEMMA BeginBoundStep ==
  ASSUME RInv, NEW w \in Conns, NEW room \in Rooms, BeginBound(w, room)
  PROVE  RInv' /\ Extends(db, db')
<1>1. PICK d, r : d = View(w) /\ r = "lineage"
  OBVIOUS
<1>2. PICK q : q = [[NoRead EXCEPT !.room = room, !.binding = d.bindings[room].rev]
                      EXCEPT !.since = d.lineage]
  OBVIOUS
<1>3. /\ IInv /\ rpc[w] = "idle" /\ pc[w] = "idle" /\ UNCHANGED <<pc, job>> /\ Shape
      /\ d \in Content /\ d # None
  BY <1>1, ViewIs, NoneAssumption DEF RInv, IInv, BeginBound
<1>4. CASE BeginFails(w)
  <2>1. Keeps(w)
    BY <1>3, <1>4, IdleReads DEF BeginFails
  <2> QED BY <1>3, <1>4, <2>1, IdleMoved DEF BeginFails
<1>5. CASE /\ Begun(w) /\ rpc' = [rpc EXCEPT ![w] = r] /\ read' = [read EXCEPT ![w] = q]
  <2>1. Keeps(w)
    BY <1>3, <1>5, BegunKeeps
  <2>2. /\ q \in ReadRec /\ q.kind = "bound" /\ q.room = room
        /\ q.binding = d.bindings[room].rev /\ q.since = d.lineage
    <3>1. d.bindings[room].rev \in Nat /\ d.lineage \in SUBSET Disposition
      BY <1>3 DEF Content, Binding
    <3>2. Zero \in [Items -> Nat]
      BY DEF Zero
    <3> QED BY <1>2, <3>1, <3>2 DEF NoRead, ReadRec, Kinds
  <2>3. snap'[w] = d
    BY <1>1, <1>3, <1>5 DEF Begun, Shape
  <2>4. ReadOK(db', snap'[w], r, q)
    BY <1>1, <1>3, <2>2, <2>3 DEF ReadOK, Bound
  <2> QED BY <1>1, <1>3, <1>5, <2>1, <2>2, <2>4, ReadersMoved
<1> QED BY <1>1, <1>2, <1>4, <1>5 DEF BeginBound, Start

\* The items, without the dispositions.
LEMMA BeginCheckpointStep ==
  ASSUME RInv, NEW w \in Conns, BeginCheckpoint(w)
  PROVE  RInv' /\ Extends(db, db')
<1>1. PICK d, r : d = View(w) /\ r = "head"
  OBVIOUS
<1>2. PICK q : q = [[NoRead EXCEPT !.kind = "checkpoint", !.items = Revs(d), !.shown = Revs(d)]
                      EXCEPT !.since = d.lineage]
  OBVIOUS
<1>3. /\ IInv /\ rpc[w] = "idle" /\ pc[w] = "idle" /\ UNCHANGED <<pc, job>> /\ Shape
      /\ d \in Content /\ d # None
  BY <1>1, ViewIs, NoneAssumption DEF RInv, IInv, BeginCheckpoint
<1>4. CASE BeginFails(w)
  <2>1. Keeps(w)
    BY <1>3, <1>4, IdleReads DEF BeginFails
  <2> QED BY <1>3, <1>4, <2>1, IdleMoved DEF BeginFails
<1>5. CASE /\ Begun(w) /\ rpc' = [rpc EXCEPT ![w] = r] /\ read' = [read EXCEPT ![w] = q]
  <2>1. Keeps(w)
    BY <1>3, <1>5, BegunKeeps
  <2>2. q \in ReadRec /\ q.kind = "checkpoint" /\ q.items = Revs(d)
    <3>1. d.lineage \in SUBSET Disposition /\ Revs(d) \in [Items -> Nat]
      BY <1>3 DEF Content, Item, Revs
    <3>2. Zero \in [Items -> Nat]
      BY DEF Zero
    <3> QED BY <1>2, <3>1, <3>2 DEF NoRead, ReadRec, Kinds
  <2>3. snap'[w] = d
    BY <1>1, <1>3, <1>5 DEF Begun, Shape
  <2>4. ReadOK(db', snap'[w], r, q)
    BY <1>1, <1>3, <2>2, <2>3 DEF ReadOK, Bound, Hidden
  <2> QED BY <1>1, <1>3, <1>5, <2>1, <2>2, <2>4, ReadersMoved
<1> QED BY <1>1, <1>2, <1>4, <1>5 DEF BeginCheckpoint, Start

\* The dispositions, in front of the snapshot or inside one that there is.
LEMMA BeginProjectionStep ==
  ASSUME RInv, NEW w \in Conns, BeginProjection(w)
  PROVE  RInv' /\ Extends(db, db')
<1>1. PICK d, r, owns : d = View(w) /\ r = "items" /\ owns = ~open[w]
  OBVIOUS
<1>2. PICK q : q = [[NoRead EXCEPT !.kind = "projection", !.owns = owns, !.lineage = d.lineage]
                      EXCEPT !.since = d.lineage]
  OBVIOUS
<1>3. /\ IInv /\ rpc[w] = "idle" /\ pc[w] = "idle" /\ UNCHANGED <<pc, job>> /\ Read(w)
      /\ d \in Content
  BY <1>1, ViewIs DEF RInv, BeginProjection
<1>4. rpc' = [rpc EXCEPT ![w] = r] /\ read' = [read EXCEPT ![w] = q]
  BY <1>1, <1>2 DEF BeginProjection, Start
<1>5. Keeps(w)
  BY <1>3, IdleReads
<1>6. q \in ReadRec /\ q.kind = "projection" /\ q.since = d.lineage /\ q.lineage = d.lineage
  <2>1. d.lineage \in SUBSET Disposition /\ owns \in BOOLEAN
    BY <1>1, <1>3 DEF Content
  <2>2. Zero \in [Items -> Nat]
    BY DEF Zero
  <2> QED BY <1>2, <2>1, <2>2 DEF NoRead, ReadRec, Kinds
<1>7. ReadOK(db', snap'[w], r, q)
  BY <1>1, <1>6 DEF ReadOK, Bound
<1> QED BY <1>1, <1>3, <1>4, <1>5, <1>6, <1>7, ReadersMoved

\* The read under way, what it has seen, and its transaction.
LEMMA UnderWay ==
  ASSUME RInv, NEW w \in Conns, rpc[w] # "idle"
  PROVE  /\ IInv /\ Shape /\ pc[w] = "idle" /\ read[w] \in ReadRec
         /\ ReadOK(db, snap[w], rpc[w], read[w]) /\ View(w) \in Content /\ Sound(View(w))
         /\ snap[w] # None => View(w) = snap[w] /\ open[w]
<1>1. /\ IInv /\ pc[w] = "idle" /\ read[w] \in ReadRec /\ ReadOK(db, snap[w], rpc[w], read[w])
  BY DEF RInv
<1>2. snap[w] # None => open[w]
  BY <1>1 DEF IInv, ConnOK
<1> QED BY <1>1, <1>2, ViewIs DEF IInv

\* The dispositions are those of the snapshot that gave the binding.
LEMMA ReadLineageStep ==
  ASSUME RInv, NEW w \in Conns, ReadLineage(w)
  PROVE  RInv' /\ Extends(db, db')
<1>1. PICK d, p, r : d = View(w) /\ p = read[w] /\ r = "items"
  OBVIOUS
<1>2. PICK q : q = [p EXCEPT !.lineage = d.lineage]
  OBVIOUS
<1>3. /\ IInv /\ Shape /\ pc[w] = "idle" /\ p \in ReadRec /\ ReadOK(db, snap[w], "lineage", p)
      /\ d \in Content /\ (snap[w] # None => d = snap[w] /\ open[w])
      /\ Read(w) /\ UNCHANGED <<pc, job>>
  BY <1>1, UnderWay DEF ReadLineage
<1>4. rpc' = [rpc EXCEPT ![w] = r] /\ read' = [read EXCEPT ![w] = q]
  BY <1>1, <1>2 DEF ReadLineage
<1>5. Keeps(w)
  BY <1>3, IdleReads
<1>6. /\ q \in ReadRec /\ q.kind = p.kind /\ q.room = p.room /\ q.binding = p.binding
      /\ q.since = p.since /\ q.lineage = d.lineage
  <2>1. d.lineage \in SUBSET Disposition
    BY <1>3 DEF Content
  <2> QED BY <1>2, <1>3, <2>1 DEF ReadRec
<1>7. /\ snap[w] # None /\ p.kind = "bound" /\ Bound(snap[w], p)
      /\ p.since \subseteq snap[w].lineage
  BY <1>3 DEF ReadOK
<1>8. snap'[w] = snap[w]
  BY <1>1, <1>3, <1>7 DEF Read, Shape
<1>9. ReadOK(db', snap'[w], r, q)
  BY <1>1, <1>3, <1>6, <1>7, <1>8 DEF ReadOK, Bound
<1> QED BY <1>1, <1>3, <1>4, <1>5, <1>6, <1>9, ReadersMoved

\* The items come with the snapshot, and the shown ones are in front of the marks.
LEMMA ReadItemsStep ==
  ASSUME RInv, NEW w \in Conns, ReadItems(w)
  PROVE  RInv' /\ Extends(db, db')
<1>1. PICK d, p, r : d = View(w) /\ p = read[w] /\ r = "head"
  OBVIOUS
<1>2. PICK items, shown : items = Revs(d) /\ shown = Shown(items, p.lineage)
  OBVIOUS
<1>3. PICK q : q = [p EXCEPT !.items = items, !.shown = shown]
  OBVIOUS
<1>4. /\ IInv /\ Shape /\ pc[w] = "idle" /\ p \in ReadRec /\ ReadOK(db, snap[w], "items", p)
      /\ d \in Content /\ (snap[w] # None => d = snap[w])
      /\ Begun(w) /\ UNCHANGED <<pc, job>>
  BY <1>1, UnderWay DEF ReadItems
<1>5. rpc' = [rpc EXCEPT ![w] = r] /\ read' = [read EXCEPT ![w] = q]
  BY <1>1, <1>2, <1>3 DEF ReadItems
<1>6. Keeps(w)
  BY <1>4, BegunKeeps
<1>7. items \in [Items -> Nat] /\ p.lineage \in SUBSET Disposition
  BY <1>2, <1>4 DEF Content, Item, Revs, ReadRec
<1>8. shown \in [Items -> Nat] /\ \A l \in p.lineage : shown[l.item] < l.rev
  BY <1>2, <1>7, ShownHidden
<1>9. /\ q \in ReadRec /\ q.kind = p.kind /\ q.room = p.room /\ q.binding = p.binding
      /\ q.since = p.since /\ q.items = items /\ q.shown = shown
  BY <1>3, <1>4, <1>7, <1>8 DEF ReadRec
<1>10. snap'[w] = d /\ d # None
  BY <1>1, <1>4, NoneAssumption DEF Begun, Shape
<1>11. Bound(d, q)
  BY <1>4, <1>9 DEF ReadOK, Bound
<1>12. Hidden(q)
  BY <1>4, <1>8, <1>9 DEF ReadOK, Hidden
<1>13. ReadOK(db', snap'[w], r, q)
  BY <1>1, <1>2, <1>9, <1>10, <1>11, <1>12 DEF ReadOK
<1> QED BY <1>1, <1>4, <1>5, <1>6, <1>9, <1>13, ReadersMoved

\* The head closes a read, all of which is then of one moment.
LEMMA ReadHeadStep ==
  ASSUME RInv, NEW w \in Conns, ReadHead(w)
  PROVE  RInv' /\ Extends(db, db')
<1>1. PICK s, D, p, r : s = snap[w] /\ D = db /\ p = read[w] /\ r = "idle"
  OBVIOUS
<1>2. PICK q : q = [p EXCEPT !.head = Len(s.log)]
  OBVIOUS
<1>3. /\ IInv /\ Shape /\ pc[w] = "idle" /\ p \in ReadRec /\ ReadOK(D, s, "head", p)
      /\ (s # None => View(w) = s) /\ UNCHANGED <<pc, job>>
      /\ Rollback(w) \/ Read(w)
  BY <1>1, UnderWay DEF ReadHead
<1>4. s # None /\ p.items = Revs(s) /\ Bound(s, p) /\ Hidden(p)
  BY <1>3 DEF ReadOK
<1>5. rpc' = [rpc EXCEPT ![w] = r] /\ read' = [read EXCEPT ![w] = q]
  BY <1>1, <1>2, <1>3, <1>4 DEF ReadHead
<1>6. Keeps(w)
  BY <1>3, IdleReads
<1>7. /\ Len(s.log) \in Nat /\ Len(s.log) <= Len(D.log)
      /\ \A o \in Owners : OwnerRev(s, o) = Cardinality(UpTo(D, o, Len(s.log)))
  BY <1>1, <1>3, <1>4, MomentIs
<1>8. /\ q \in ReadRec /\ q.kind = p.kind /\ q.room = p.room /\ q.binding = p.binding
      /\ q.since = p.since /\ q.items = p.items /\ q.shown = p.shown /\ q.head = Len(s.log)
  BY <1>2, <1>3, <1>7 DEF ReadRec
<1>9. OneMoment(D, q)
  <2>1. ASSUME NEW i \in Items PROVE q.items[i] = Cardinality(UpTo(D, i, q.head))
    <3>1. q.items[i] = OwnerRev(s, i) /\ i \in Owners
      BY <1>4, <1>8 DEF Revs, OwnerRev, Owners
    <3> QED BY <3>1, <1>7, <1>8
  <2>2. ASSUME q.kind = "bound"
        PROVE  q.room \in Rooms /\ q.binding = Cardinality(UpTo(D, q.room, q.head))
    <3>1. q.room \in Rooms /\ q.binding = s.bindings[q.room].rev
      BY <1>4, <1>8, <2>2 DEF Bound
    <3>2. q.room \in Owners /\ OwnerRev(s, q.room) = q.binding
      BY <3>1, IdentityAssumption DEF OwnerRev, Owners
    <3> QED BY <3>1, <3>2, <1>7, <1>8
  <2> QED BY <1>7, <1>8, <2>1, <2>2 DEF OneMoment
<1>10. Hidden(q)
  BY <1>4, <1>8 DEF Hidden
<1>11. ReadOK(D, snap'[w], r, q)
  BY <1>1, <1>8, <1>9, <1>10 DEF ReadOK
<1>12. D \in Content /\ db' \in Content /\ Extends(D, db')
  BY <1>1, <1>6 DEF Keeps, IInv, Shape, RInv
<1>13. ReadOK(db', snap'[w], r, q)
  BY <1>11, <1>12, ReadOn
<1> QED BY <1>1, <1>3, <1>5, <1>6, <1>8, <1>13, ReadersMoved

\* Every step of the store and of its readers keeps the invariant.
LEMMA ReadersKeep ==
  ASSUME RInv, [ReadersNext]_readVars
  PROVE  RInv' /\ Extends(db, db')
<1>1. ASSUME NEW w \in Conns, ReadStep(w)
      PROVE  RInv' /\ Extends(db, db')
  BY <1>1, BeginBoundStep, BeginCheckpointStep, BeginProjectionStep, ReadLineageStep,
     ReadItemsStep, ReadHeadStep DEF ReadStep
<1>2. ASSUME NEW w \in Conns, StoreStep(w, Single, Bundles)
      PROVE  RInv' /\ Extends(db, db')
  <2>1. IInv /\ Step(w, Single, Bundles) /\ rpc[w] = "idle" /\ UNCHANGED <<rpc, read>>
    BY <1>2 DEF StoreStep, RInv
  <2>2. Keeps(w)
    BY <2>1, StepKeeps
  <2> QED BY <2>1, <2>2, IdleMoved
<1>3. CASE UNCHANGED readVars
  <2>1. UNCHANGED vars /\ UNCHANGED <<db, snap, open, lock, pc, job, rpc, read>>
    BY <1>3 DEF readVars, vars
  <2>2. IInv' /\ Extends(db, db')
    BY <2>1, StutterKeeps DEF RInv
  <2>3. RInv'
    BY <2>1, <2>2 DEF RInv
  <2> QED BY <2>2, <2>3
<1> QED BY <1>1, <1>2, <1>3 DEF ReadersNext

\* A new file, and no read.
LEMMA ReadersInitHolds ==
  ASSUME ReadersInit
  PROVE  RInv
<1>1. IInv /\ \A w \in Conns : rpc[w] = "idle" /\ read[w] = None
  BY InitHolds DEF ReadersInit
<1>2. \A w \in Conns : ReadOK(db, snap[w], rpc[w], read[w])
  BY <1>1 DEF ReadOK
<1>3. rpc \in [Conns -> {"idle", "lineage", "items", "head"}]
      /\ read \in [Conns -> ReadRec \cup {None}]
  BY DEF ReadersInit
<1> QED BY <1>1, <1>2, <1>3 DEF RInv

\* Every step of the store keeps the invariant, and the file only grows.
LEMMA StoreKeeps ==
  ASSUME IInv, [Next]_vars
  PROVE  IInv' /\ Extends(db, db')
<1>1. CASE Next
  <2>1. PICK w \in Conns : Step(w, Single, Bundles)
    BY <1>1 DEF Next
  <2>2. Keeps(w)
    BY <2>1, StepKeeps
  <2> QED BY <2>2 DEF Keeps
<1>2. CASE UNCHANGED vars
  BY <1>2, StutterKeeps
<1> QED BY <1>1, <1>2

(***************************************************************************)
(* Theorems                                                                *)
(***************************************************************************)
\* What the invariant says of the properties.
LEMMA StoreHolds ==
  ASSUME IInv
  PROVE  Replayable /\ MergeKeepsConcurrent /\ BundleWhole
<1>1. Sound(db) /\ Bundled(db)
  BY DEF IInv
<1>2. Replayable
  BY <1>1 DEF Replayable, Sound, ClosedKept, ClosedStaysClosed
<1>3. MergeKeepsConcurrent
  BY <1>1 DEF Sound, MergesKept, MergeKeepsConcurrent
<1>4. BundleWhole
  BY <1>1 DEF Bundled, WholeIn, At, BundleWhole
<1> QED BY <1>2, <1>3, <1>4

\* The store by itself, and the store with its readers, keep their invariants.
THEOREM StoreInvariant == Spec => []IInv
<1>1. IInv /\ [Next]_vars => IInv'
  BY StoreKeeps
<1> QED BY <1>1, InitHolds, PTL DEF Spec

\* The same invariant, and that of the reads, whatever readers do beside the writers.
THEOREM ReadersInvariant == ReadersSpec => []RInv
<1>1. RInv /\ [ReadersNext]_readVars => RInv'
  BY ReadersKeep
<1> QED BY <1>1, ReadersInitHolds, PTL DEF ReadersSpec

\* doctor accepts what is committed, at every moment, with any number of items, rooms,
\* commands, bundles and connections, and whoever reads: the tables that the writers keep are
\* the replay of the log, although refused writes strand transactions and seeds and a process
\* may end at any step; and no closed item comes back but by a lawful reopening.
THEOREM StoreIsReplayable == (Spec => []Replayable) /\ (ReadersSpec => []Replayable)
<1>1. (IInv => Replayable) /\ (RInv => IInv)
  BY StoreHolds DEF RInv
<1> QED BY <1>1, StoreInvariant, ReadersInvariant, PTL

\* A merge undoes nothing that happened to the item since its author read it
\* (apply_disjoint_merge), although the check is made outside the transaction that inserts it.
THEOREM MergesKeepConcurrent ==
  (Spec => []MergeKeepsConcurrent) /\ (ReadersSpec => []MergeKeepsConcurrent)
<1>1. (IInv => MergeKeepsConcurrent) /\ (RInv => IInv)
  BY StoreHolds DEF RInv
<1> QED BY <1>1, StoreInvariant, ReadersInvariant, PTL

\* The commands of a bundle are in the log together or not at all
\* (apply_outbox_bundle_atomic), also when it continues a transaction left open by another call.
THEOREM BundlesAreWhole == (Spec => []BundleWhole) /\ (ReadersSpec => []BundleWhole)
<1>1. (IInv => BundleWhole) /\ (RInv => IInv)
  BY StoreHolds DEF RInv
<1> QED BY <1>1, StoreInvariant, ReadersInvariant, PTL

\* No step of any connection rewrites or removes what was committed.
THEOREM StoreOnlyAppends == (Spec => AppendOnly) /\ (ReadersSpec => AppendOnly)
<1>. DEFINE Grows == Extends(db, db')
            A == [/\ Len(db.log) <= Len(db'.log)
                  /\ \A n \in DOMAIN db.log : db'.log[n] = db.log[n]
                  /\ \A i \in Items : \A r \in DOMAIN db.history[i] :
                       r \in DOMAIN db'.history[i] /\ db'.history[i][r] = db.history[i][r]
                  /\ \A k \in Keys :
                       db.receipts[k] # None => db'.receipts[k] = db.receipts[k]
                  /\ db.seeds \subseteq db'.seeds /\ db.joint \subseteq db'.joint
                  /\ db.coverage \subseteq db'.coverage /\ db.bundles \subseteq db'.bundles
                  /\ db.lineage \subseteq db'.lineage]_vars
<1>1. IInv /\ [Next]_vars => A
  BY StoreKeeps DEF Extends
<1>2. RInv /\ [ReadersNext]_readVars => A
  BY ReadersKeep DEF Extends
<1>3. Spec => AppendOnly
  BY <1>1, StoreInvariant, PTL DEF Spec, AppendOnly
<1>4. ReadersSpec => AppendOnly
  BY <1>2, ReadersInvariant, PTL DEF ReadersSpec, AppendOnly
<1> QED BY <1>3, <1>4

\* What a finished read returned is one past moment of the log, whatever was committed
\* between its SELECTs (read_bound_projection, read_projection, read_checkpoint_snapshot).
THEOREM ReadsAreOfOneMoment == ReadersSpec => []ReadIsOneMoment
<1>1. ASSUME RInv PROVE ReadIsOneMoment
  <2>. SUFFICES ASSUME NEW w \in Conns, Done(w)
                PROVE  /\ read[w].head <= Len(db.log)
                       /\ \A i \in Items :
                            read[w].items[i] = Cardinality(EventsOf(i, read[w].head))
                       /\ read[w].kind = "bound" =>
                            read[w].binding = Cardinality(EventsOf(read[w].room, read[w].head))
    BY DEF ReadIsOneMoment
  <2>1. OneMoment(db, read[w])
    BY <1>1 DEF RInv, ReadOK, Done
  <2>2. \A o, head : EventsOf(o, head) = UpTo(db, o, head)
    BY DEF EventsOf, UpTo
  <2> QED BY <2>1, <2>2 DEF OneMoment
<1> QED BY <1>1, ReadersInvariant, PTL

\* A projection shows no revision at or behind one that was marked when it began,
\* also where the marks are read before its snapshot (read_projection).
THEOREM ExcludedRevisionsStay == ReadersSpec => []ExcludedStaysExcluded
<1>1. RInv => ExcludedStaysExcluded
  BY DEF RInv, ReadOK, Done, Hidden, ExcludedStaysExcluded
<1> QED BY <1>1, ReadersInvariant, PTL

=============================================================================
