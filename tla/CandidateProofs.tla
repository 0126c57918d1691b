-------------------------- MODULE CandidateProofs ---------------------------
(***************************************************************************)
(* Theorems about the Milestone 5 candidate, for any units, any handlers   *)
(* and builders, any number of stops and any policy whose batch is one     *)
(* that a room over its maximum can give up.                               *)
(*                                                                         *)
(* What completed turns do to the rolling context: the inductive invariant *)
(* says of every revision of the room that it is orderly (Orderly): a turn *)
(* stands in it once; cold turns come before warm ones and warm ones       *)
(* before hot ones; the turns that are no longer hot belong to episodes    *)
(* that follow one another as their turns do.  That is what makes the      *)
(* choice of the oldest episodes a choice of the oldest turns.  Of the     *)
(* handlers it says that their records are true (HandlersSound): one       *)
(* handler holds the lock of the ingestion journal from its first write to *)
(* the room until its entry, and what it goes on with was applied and      *)
(* recorded.                                                               *)
(*                                                                         *)
(* How a request is built while syncs write: what a builder holds is a     *)
(* mixture of several moments, so nothing is said of it but what the       *)
(* stores confirm (BuilderHolds); rooms, receipts, stored outcomes and     *)
(* artifacts are only ever added to (Later); the phases of a turn follow   *)
(* one another, with one artifact and the activated body (Phased).         *)
(***************************************************************************)
EXTENDS OperationArtifact, FiniteSetTheorems, WellFoundedInduction, TLAPS

Bases == [writes : Nat, upkeep : Nat, disowned : SUBSET Units]

Episodes == [members : Seq(Units), basis : Bases]

UnitRows == [unit : Units, zone : Zones, episode : Episodes \cup {None}]

EpisodeRows == [id : Episodes, zone : {"warm", "cold"}]

Contexts == [units : Seq(UnitRows), episodes : Seq(EpisodeRows)]

\* A turn is in the room once, an episode too.
Distinct(c) ==
  /\ \A i, j \in DOMAIN c.units : i # j => c.units[i].unit # c.units[j].unit
  /\ \A e, f \in DOMAIN c.episodes : e # f => c.episodes[e].id # c.episodes[f].id

\* Nothing is less aged than what came after it.
Aging(c) ==
  /\ \A i, j \in DOMAIN c.units : i < j =>
       /\ c.units[j].zone = "cold" => c.units[i].zone = "cold"
       /\ c.units[i].zone = "hot" => c.units[j].zone = "hot"
  /\ \A e, f \in DOMAIN c.episodes :
       e < f /\ c.episodes[f].zone = "cold" => c.episodes[e].zone = "cold"

\* The units that are no longer hot belong to episodes, which share their zone and
\* follow one another as the units do.
Grouped(c) ==
  /\ \A i \in DOMAIN c.units : c.units[i].zone = "hot" <=> c.units[i].episode = None
  /\ \A i \in DOMAIN c.units : c.units[i].zone # "hot" =>
       \E e \in DOMAIN c.episodes : /\ c.episodes[e].id = c.units[i].episode
                                    /\ c.episodes[e].zone = c.units[i].zone
  /\ \A i, j \in DOMAIN c.units, e, f \in DOMAIN c.episodes :
       i < j /\ c.episodes[e].id = c.units[i].episode /\ c.episodes[f].id = c.units[j].episode
         => e <= f
  /\ \A e \in DOMAIN c.episodes :
       /\ Len(c.episodes[e].id.members) > 0
       /\ \E i \in DOMAIN c.units : /\ c.units[i].unit = c.episodes[e].id.members[1]
                                    /\ c.units[i].zone # "hot"

Orderly(c) == c \in Contexts /\ Distinct(c) /\ Aging(c) /\ Grouped(c)

(***************************************************************************)
(* Positions.                                                              *)
(***************************************************************************)
Less == {p \in Nat \X Nat : p[1] < p[2]}

\* Every nonempty set of naturals has a least element.
LEMMA LeastNatural ==
  ASSUME NEW S \in SUBSET Nat, S # {}
  PROVE  \E m \in S : \A n \in S : m <= n
<1>1. IsWellFoundedOn(Less, Nat)
  BY NatLessThanWellFounded DEF OpToRel, Less
<1>2. PICK m \in S : \A n \in S : <<n, m>> \notin Less
  BY <1>1, WFMin
<1>3. \A a, b \in Nat : a < b => <<a, b>> \in Less
  BY DEF Less
<1>4. \A n \in S : ~(n < m)
  BY <1>2, <1>3
<1> QED BY <1>4

\* What holds of a prefix of a sequence holds of its first so many positions.
LEMMA PrefixIsInterval ==
  ASSUME NEW L \in Nat, NEW S \in SUBSET (1..L),
         \A i \in S, j \in 1..L : j < i => j \in S
  PROVE  \E n \in 0..L : S = 1..n
<1> DEFINE Out == (1..(L + 1)) \ S
<1>1. Out # {} /\ Out \in SUBSET Nat
  <2>1. L + 1 \in Out
    OBVIOUS
  <2> QED BY <2>1
<1>2. PICK m \in Out : \A n \in Out : m <= n
  <2> HIDE DEF Out
  <2> QED BY <1>1, LeastNatural
<1>3. m \in 1..(L + 1) /\ m \notin S
  BY <1>2
<1>4. \A i \in 1..(L + 1) : i < m => i \in S
  BY <1>2, <1>3
<1>5. \A i \in S : i < m
  <2> SUFFICES ASSUME NEW i \in S, ~(i < m) PROVE FALSE
    OBVIOUS
  <2>1. i \in 1..L /\ m \in 1..L /\ m # i /\ m < i
    BY <1>3
  <2> QED BY <2>1, <1>3
<1>6. S \subseteq 1..(m - 1)
  BY <1>3, <1>5
<1>7. 1..(m - 1) \subseteq S
  BY <1>3, <1>4
<1>8. m - 1 \in 0..L
  BY <1>3
<1> QED BY <1>6, <1>7, <1>8

\* The n-th position of a suffix.
LEMMA SuffixNth ==
  ASSUME NEW L \in Nat, NEW p \in 0..L
  PROVE  /\ Cardinality((p + 1)..L) = L - p
         /\ \A n \in 1..(L - p) : Nth((p + 1)..L, n) = p + n
<1>1. ASSUME NEW i \in p..L PROVE Cardinality((p + 1)..i) = i - p
  <2>1. p + 1 \in Int /\ i \in Int /\ i <= L /\ p <= i
    OBVIOUS
  <2>2. Cardinality((p + 1)..i) = IF p + 1 > i THEN 0 ELSE i - (p + 1) + 1
    BY <2>1, FS_Interval
  <2> QED BY <2>1, <2>2
<1>2. \A i \in (p + 1)..L : {j \in (p + 1)..L : j <= i} = (p + 1)..i
  OBVIOUS
<1>3. ASSUME NEW n \in 1..(L - p) PROVE Nth((p + 1)..L, n) = p + n
  <2>1. ASSUME NEW i \in (p + 1)..L
        PROVE  Cardinality({j \in (p + 1)..L : j <= i}) = i - p
    <3>1. i \in p..L
      OBVIOUS
    <3> QED BY <3>1, <1>1, <1>2
  <2>2. p + n \in (p + 1)..L
    OBVIOUS
  <2>3. \A i \in (p + 1)..L : Cardinality({j \in (p + 1)..L : j <= i}) = n <=> i = p + n
    BY <2>1
  <2> QED BY <2>2, <2>3 DEF Nth
<1> QED
  <2>1. L \in p..L
    OBVIOUS
  <2> QED BY <2>1, <1>1, <1>3

\* Rows of one kind are a sequence of that kind.
LEMMA RowsOf ==
  ASSUME NEW S, NEW k \in Nat, NEW rows, rows = [n \in 1..k |-> rows[n]],
         \A n \in 1..k : rows[n] \in S
  PROVE  rows \in Seq(S)
OBVIOUS

\* The hot units are the last ones of an orderly room.
LEMMA HotUnits ==
  ASSUME NEW c, Orderly(c)
  PROVE  \E p \in 0..Len(c.units) :
           /\ Positions(c.units, "hot") = (p + 1)..Len(c.units)
           /\ Len(InZone(c, "hot")) = Len(c.units) - p
           /\ \A n \in 1..(Len(c.units) - p) : InZone(c, "hot")[n] = c.units[p + n]
<1> DEFINE L == Len(c.units)
           S == {i \in 1..L : c.units[i].zone # "hot"}
<1>1. L \in Nat /\ DOMAIN c.units = 1..L
  BY DEF Orderly, Contexts
<1>2. \A i \in S, j \in 1..L : j < i => j \in S
  BY <1>1 DEF Orderly, Aging
<1>3. PICK p \in 0..L : S = 1..p
  <2> HIDE DEF L
  <2> QED BY <1>1, <1>2, PrefixIsInterval
<1>4. Positions(c.units, "hot") = (p + 1)..L
  BY <1>1, <1>3 DEF Positions
<1>5. /\ Cardinality((p + 1)..L) = L - p
      /\ \A n \in 1..(L - p) : Nth((p + 1)..L, n) = p + n
  BY <1>1, SuffixNth
<1>6. InZone(c, "hot") = [n \in 1..(L - p) |-> c.units[Nth((p + 1)..L, n)]]
  BY <1>4, <1>5 DEF InZone, RowsIn
<1>7. L - p \in Nat
  BY <1>1
<1> QED
  <2> HIDE DEF L
  <2>1. Len(InZone(c, "hot")) = L - p
    BY <1>6, <1>7
  <2>2. \A n \in 1..(L - p) : InZone(c, "hot")[n] = c.units[p + n]
    BY <1>5, <1>6
  <2> QED BY <1>4, <2>1, <2>2 DEF L

\* The warm episodes are the last ones.
LEMMA WarmEpisodes ==
  ASSUME NEW c, Orderly(c)
  PROVE  \E q \in 0..Len(c.episodes) :
           /\ Positions(c.episodes, "warm") = (q + 1)..Len(c.episodes)
           /\ Len(EpisodesIn(c, "warm")) = Len(c.episodes) - q
           /\ \A n \in 1..(Len(c.episodes) - q) : EpisodesIn(c, "warm")[n] = c.episodes[q + n]
<1> DEFINE L == Len(c.episodes)
           S == {e \in 1..L : c.episodes[e].zone = "cold"}
<1>0. c.episodes \in Seq(EpisodeRows)
  BY DEF Orderly, Contexts
<1>1. /\ L \in Nat /\ DOMAIN c.episodes = 1..L
      /\ \A e \in 1..L : c.episodes[e].zone \in {"warm", "cold"}
  <2>1. \A e \in 1..L : c.episodes[e] \in EpisodeRows
    BY <1>0
  <2> QED BY <1>0, <2>1 DEF EpisodeRows
<1>2. \A i \in S, j \in 1..L : j < i => j \in S
  BY <1>1 DEF Orderly, Aging
<1>3. PICK q \in 0..L : S = 1..q
  <2> HIDE DEF L
  <2> QED BY <1>1, <1>2, PrefixIsInterval
<1>4. Positions(c.episodes, "warm") = (q + 1)..L
  BY <1>1, <1>3 DEF Positions
<1>5. /\ Cardinality((q + 1)..L) = L - q
      /\ \A n \in 1..(L - q) : Nth((q + 1)..L, n) = q + n
  BY <1>1, SuffixNth
<1>6. EpisodesIn(c, "warm") = [n \in 1..(L - q) |-> c.episodes[Nth((q + 1)..L, n)]]
  BY <1>4, <1>5 DEF EpisodesIn, RowsIn
<1>7. L - q \in Nat
  BY <1>1
<1> QED
  <2> HIDE DEF L
  <2>1. Len(EpisodesIn(c, "warm")) = L - q
    BY <1>6, <1>7
  <2>2. \A n \in 1..(L - q) : EpisodesIn(c, "warm")[n] = c.episodes[q + n]
    BY <1>5, <1>6
  <2> QED BY <1>4, <2>1, <2>2 DEF L
(***************************************************************************)
(* The handlers.                                                           *)
(***************************************************************************)
Steps == {"idle", "bind", "apply", "leased", "project", "record", "ingest", "journal",
          "append", "grown", "compact", "finish", "done", "failed"}

Outcomes == {"applied", "idempotent_replay", "rejected_fail_closed"}

SyncRecords == [step : Steps, operation : Units \cup {None}, outcome : Outcomes \cup {None},
                projection : Bases \cup {None},
                expected : [revision : Nat, snapshot : Contexts] \cup {None},
                episode : Episodes \cup {None}]

Locked == {"append", "grown", "compact", "finish"}

Accepted(o) == o \in DOMAIN applications /\ applications[o].outcome # "rejected_fail_closed"

TypesHold ==
  /\ working \in [writes : Nat, due : BOOLEAN, upkeep : Nat]
  /\ bundles \in [Units -> BundleStates]
  /\ disowned \in SUBSET Units
  /\ DOMAIN ingested \in SUBSET Units
  /\ journalLock \in Handlers \cup {None}
  /\ awaiting \in SUBSET Units
  /\ sync \in [Handlers -> SyncRecords]
  /\ snapshots \in Seq(Contexts)

\* What a handler's record says is so: the bundle it leased is being applied, what it
\* goes on with was applied and recorded, and while it writes to the room there is no
\* journal entry yet and its unit stands in the room.
Sound(r) ==
  /\ r.step # "idle" => r.operation \in Units
  /\ r.step = "leased" => bundles[r.operation] = "applying"
  /\ r.step \in {"project", "record"} =>
       /\ r.outcome \in Outcomes
       /\ r.outcome # "rejected_fail_closed" => bundles[r.operation] = "applied"
  /\ r.step \in {"ingest", "journal", "done"} \cup Locked => Accepted(r.operation)
  /\ r.step \in Locked => r.operation \notin DOMAIN ingested
  /\ r.step \in Locked \ {"append"} => r.operation \in UnitsOf(Context)
  /\ r.step = "compact" => r.episode \in Episodes
  /\ r.step = "finish" =>
       Len(InZone(Context, "hot"))
         <= HotMax + Cardinality((UnitsOf(Context) \ DOMAIN ingested) \ {r.operation})

\* One handler applies a bundle, and the lock of the journal is held from the first
\* write to the room until the entry.
HandlersSound ==
  /\ \A h \in Handlers : Sound(sync[h])
  /\ \A h \in Handlers : journalLock = h <=> sync[h].step \in Locked
  /\ \A g, h \in Handlers :
       sync[g].step = "leased" /\ sync[h].step = "leased" /\ sync[g].operation = sync[h].operation
         => g = h

RoomsOrderly == \A r \in 1..Revision : Orderly(snapshots[r])

AcceptedIsApplied == \A o \in Units : Accepted(o) => bundles[o] = "applied"

Invariant ==
  /\ TypesHold
  /\ RoomsOrderly
  /\ RevisionsHaveReceipts
  /\ AcceptedIsApplied
  /\ HandlersSound
  /\ IngestionIsTrue

(***************************************************************************)
(* What the writes to the store make of an orderly room.                   *)
(***************************************************************************)
\* A unit joins at the end, hot.
LEMMA AppendedRows ==
  ASSUME NEW c, Orderly(c), NEW o \in Units
  PROVE  LET d == Appended(c, <<o>>)
             L == Len(c.units)
             new == [unit |-> o, zone |-> "hot", episode |-> None] IN
         /\ d \in Contexts /\ d.episodes = c.episodes
         /\ Len(d.units) = L + 1
         /\ \A i \in 1..L : d.units[i] = c.units[i]
         /\ d.units[L + 1] = new
         /\ d.units = Append(c.units, new)
<1> DEFINE d == Appended(c, <<o>>)
           L == Len(c.units)
           new == [unit |-> o, zone |-> "hot", episode |-> None]
<1>1. c \in Contexts /\ c.units \in Seq(UnitRows) /\ c.episodes \in Seq(EpisodeRows) /\ L \in Nat
  BY DEF Orderly, Contexts
<1>2. new \in UnitRows
  BY DEF UnitRows, Zones
<1>3. [i \in DOMAIN <<o>> |-> [unit |-> <<o>>[i], zone |-> "hot", episode |-> None]] = <<new>>
  <2>1. DOMAIN <<o>> = 1..1 /\ <<o>>[1] = o /\ DOMAIN <<new>> = 1..1 /\ <<new>>[1] = new
    BY <1>2
  <2>2. \A i \in 1..1 : i = 1
    OBVIOUS
  <2>3. \A i \in 1..1 : [unit |-> <<o>>[i], zone |-> "hot", episode |-> None] = new
    BY <2>1, <2>2
  <2>4. <<new>> = [i \in 1..1 |-> new]
    BY <1>2, <2>2
  <2> HIDE DEF new
  <2> QED BY <2>1, <2>3, <2>4
<1>4. d = [c EXCEPT !.units = c.units \o <<new>>]
  BY <1>3 DEF Appended
<1> HIDE DEF new, d
<1>5. c.units \o <<new>> = Append(c.units, new) /\ Append(c.units, new) \in Seq(UnitRows)
  BY <1>1, <1>2
<1>6. d.units = Append(c.units, new) /\ d.episodes = c.episodes /\ d \in Contexts
  BY <1>1, <1>4, <1>5 DEF Contexts
<1>7. /\ Len(d.units) = L + 1
      /\ \A i \in 1..L : d.units[i] = c.units[i]
      /\ d.units[L + 1] = new
  BY <1>1, <1>2, <1>6
<1> QED BY <1>6, <1>7 DEF new, d

\* The room stays orderly, with one more unit, which is hot.
LEMMA AppendedRoom ==
  ASSUME NEW c, Orderly(c), NEW o \in Units, o \notin UnitsOf(c)
  PROVE  LET d == Appended(c, <<o>>) IN
         /\ Orderly(d)
         /\ UnitsOf(d) = UnitsOf(c) \cup {o}
         /\ Len(InZone(d, "hot")) = Len(InZone(c, "hot")) + 1
<1> DEFINE d == Appended(c, <<o>>)
           L == Len(c.units)
           new == [unit |-> o, zone |-> "hot", episode |-> None]
<1>1. /\ d \in Contexts /\ d.episodes = c.episodes
      /\ Len(d.units) = L + 1
      /\ \A i \in 1..L : d.units[i] = c.units[i]
      /\ d.units[L + 1].unit = o /\ d.units[L + 1].zone = "hot" /\ d.units[L + 1].episode = None
  <2>1. /\ d \in Contexts /\ d.episodes = c.episodes
        /\ Len(d.units) = L + 1
        /\ \A i \in 1..L : d.units[i] = c.units[i]
        /\ d.units[L + 1] = new
    BY AppendedRows
  <2>2. new.unit = o /\ new.zone = "hot" /\ new.episode = None
    OBVIOUS
  <2> HIDE DEF d, new, L
  <2> QED BY <2>1, <2>2
<1> HIDE DEF d, new
<1>2. L \in Nat /\ DOMAIN c.units = 1..L /\ DOMAIN d.units = 1..(L + 1)
  <2>1. c.units \in Seq(UnitRows) /\ d.units \in Seq(UnitRows)
    BY <1>1 DEF Orderly, Contexts
  <2> QED BY <1>1, <2>1
<1>3. \A i \in 1..(L + 1) : i \in 1..L \/ i = L + 1
  BY <1>2
<1>4. \A i \in 1..L : c.units[i].unit # o
  BY <1>2 DEF UnitsOf
<1>5. Distinct(c) /\ Aging(c) /\ Grouped(c)
  BY DEF Orderly
<1> HIDE DEF L
<1>6. Distinct(d)
  <2>1. \A i, j \in 1..(L + 1) : i # j => d.units[i].unit # d.units[j].unit
    <3> SUFFICES ASSUME NEW i \in 1..(L + 1), NEW j \in 1..(L + 1), i # j
                 PROVE  d.units[i].unit # d.units[j].unit
      OBVIOUS
    <3>1. CASE i \in 1..L /\ j \in 1..L
      BY <3>1, <1>1, <1>2, <1>5 DEF Distinct
    <3>2. CASE i = L + 1 /\ j \in 1..L
      BY <3>2, <1>1, <1>4
    <3>3. CASE i \in 1..L /\ j = L + 1
      BY <3>3, <1>1, <1>4
    <3> QED BY <3>1, <3>2, <3>3, <1>3
  <2> QED BY <2>1, <1>1, <1>2, <1>5 DEF Distinct
<1>7. Aging(d)
  BY <1>1, <1>2, <1>3, <1>5 DEF Aging
<1>8. \A e \in DOMAIN c.episodes : c.episodes[e].id # None
  <2>1. c.episodes \in Seq(EpisodeRows)
    BY DEF Orderly, Contexts
  <2>2. \A e \in DOMAIN c.episodes : c.episodes[e] \in EpisodeRows
    BY <2>1
  <2>3. None \notin Episodes
    BY NoneAssumption DEF Episodes, Bases
  <2> QED BY <2>2, <2>3 DEF EpisodeRows
<1>9. Grouped(d)
  <2>1. \A i \in DOMAIN d.units : d.units[i].zone = "hot" <=> d.units[i].episode = None
    BY <1>1, <1>2, <1>3, <1>5 DEF Grouped
  <2>2. \A i \in DOMAIN d.units : d.units[i].zone # "hot" =>
          \E e \in DOMAIN d.episodes : /\ d.episodes[e].id = d.units[i].episode
                                       /\ d.episodes[e].zone = d.units[i].zone
    <3>1. \A i \in 1..L : c.units[i].zone # "hot" =>
            \E e \in DOMAIN c.episodes : /\ c.episodes[e].id = c.units[i].episode
                                         /\ c.episodes[e].zone = c.units[i].zone
      BY <1>2, <1>5 DEF Grouped
    <3>2. \A i \in 1..L : d.units[i].zone # "hot" =>
            \E e \in DOMAIN d.episodes : /\ d.episodes[e].id = d.units[i].episode
                                         /\ d.episodes[e].zone = d.units[i].zone
      BY <3>1, <1>1
    <3>3. d.units[L + 1].zone = "hot"
      BY <1>1
    <3> QED BY <3>2, <3>3, <1>2, <1>3
  <2>3. \A i, j \in DOMAIN d.units, e, f \in DOMAIN d.episodes :
          i < j /\ d.episodes[e].id = d.units[i].episode /\ d.episodes[f].id = d.units[j].episode
            => e <= f
    <3>1. \A i, j \in 1..L, e, f \in DOMAIN c.episodes :
            i < j /\ c.episodes[e].id = c.units[i].episode /\ c.episodes[f].id = c.units[j].episode
              => e <= f
      BY <1>2, <1>5 DEF Grouped
    <3>2. \A e \in DOMAIN c.episodes : c.episodes[e].id # d.units[L + 1].episode
      BY <1>1, <1>8
    <3> QED BY <3>1, <3>2, <1>1, <1>2, <1>3
  <2>4. \A e \in DOMAIN d.episodes :
          /\ Len(d.episodes[e].id.members) > 0
          /\ \E i \in DOMAIN d.units : /\ d.units[i].unit = d.episodes[e].id.members[1]
                                       /\ d.units[i].zone # "hot"
    <3> SUFFICES ASSUME NEW e \in DOMAIN c.episodes
                 PROVE  /\ Len(c.episodes[e].id.members) > 0
                        /\ \E i \in DOMAIN d.units :
                              /\ d.units[i].unit = c.episodes[e].id.members[1]
                              /\ d.units[i].zone # "hot"
      BY <1>1
    <3>1. /\ Len(c.episodes[e].id.members) > 0
          /\ \E i \in DOMAIN c.units : /\ c.units[i].unit = c.episodes[e].id.members[1]
                                       /\ c.units[i].zone # "hot"
      BY <1>5 DEF Grouped
    <3>2. 1..L \subseteq 1..(L + 1)
      BY <1>2
    <3> QED BY <3>1, <3>2, <1>1, <1>2
  <2> QED BY <2>1, <2>2, <2>3, <2>4 DEF Grouped
<1>10. Orderly(d)
  BY <1>1, <1>6, <1>7, <1>9 DEF Orderly
<1>11. UnitsOf(d) = UnitsOf(c) \cup {o}
  <2>1. \A i \in 1..(L + 1) : d.units[i].unit \in UnitsOf(c) \cup {o}
    BY <1>1, <1>2, <1>3 DEF UnitsOf
  <2>2. UnitsOf(d) \subseteq UnitsOf(c) \cup {o}
    BY <2>1, <1>2 DEF UnitsOf
  <2>3. \A i \in 1..L : i \in 1..(L + 1) /\ d.units[i].unit = c.units[i].unit
    BY <1>1, <1>2
  <2>4. L + 1 \in 1..(L + 1) /\ d.units[L + 1].unit = o
    BY <1>1, <1>2
  <2> QED BY <2>2, <2>3, <2>4, <1>2 DEF UnitsOf
<1>12. Len(InZone(d, "hot")) = Len(InZone(c, "hot")) + 1
  <2>1. PICK p \in 0..L : /\ Positions(c.units, "hot") = (p + 1)..L
                          /\ Len(InZone(c, "hot")) = L - p
    BY HotUnits DEF L
  <2>2. PICK r \in 0..(L + 1) : /\ Positions(d.units, "hot") = (r + 1)..(L + 1)
                                /\ Len(InZone(d, "hot")) = L + 1 - r
    <3>1. PICK r \in 0..Len(d.units) : /\ Positions(d.units, "hot") = (r + 1)..Len(d.units)
                                       /\ Len(InZone(d, "hot")) = Len(d.units) - r
      BY <1>10, HotUnits
    <3>2. Len(d.units) = L + 1
      BY <1>1
    <3>3. /\ r \in 0..(L + 1)
          /\ Positions(d.units, "hot") = (r + 1)..(L + 1)
          /\ Len(InZone(d, "hot")) = L + 1 - r
      BY <3>1, <3>2, <1>2
    <3> QED BY <3>3
  <2>3. \A i \in 1..L : i > p <=> c.units[i].zone = "hot"
    BY <2>1, <1>2 DEF Positions
  <2>4. \A i \in 1..(L + 1) : i > r <=> d.units[i].zone = "hot"
    BY <2>2, <1>2 DEF Positions
  <2>5. \A i \in 1..L : i > p <=> i > r
    <3>1. \A i \in 1..L : i \in 1..(L + 1) /\ d.units[i].zone = c.units[i].zone
      BY <1>1, <1>2
    <3> QED BY <3>1, <2>3, <2>4
  <2>6. ~(p < r)
    <3> SUFFICES ASSUME p < r PROVE FALSE
      OBVIOUS
    <3>1. p + 1 \in 1..(L + 1) /\ p + 1 <= r
      BY <1>2
    <3>2. p + 1 = L + 1
      BY <3>1, <2>5, <1>2
    <3>3. L + 1 \in 1..(L + 1) /\ L + 1 > r
      BY <1>1, <1>2, <2>4
    <3> QED BY <3>1, <3>2, <3>3
  <2>7. ~(r < p)
    <3> SUFFICES ASSUME r < p PROVE FALSE
      OBVIOUS
    <3>1. p \in 1..L /\ p > r
      BY <1>2
    <3> QED BY <3>1, <2>5
  <2> QED BY <2>1, <2>2, <2>6, <2>7, <1>2
<1> QED BY <1>10, <1>11, <1>12 DEF d

\* How a compaction changes a room whose hot units begin after p and whose warm
\* episodes begin after q: the first units after p join the episode, and the episodes
\* up to m are cold.
Shifts(c, d, episode, p, q, m) ==
  LET k == Len(episode.members) L == Len(c.units) E == Len(c.episodes) IN
  /\ k \in 1..(L - p) /\ Len(InZone(c, "hot")) = L - p
  /\ \A i \in 1..L : c.units[i].zone = "hot" <=> i > p
  /\ \A i \in 1..k : episode.members[i] = c.units[p + i].unit
  /\ \A e \in 1..E : c.episodes[e].zone = "warm" <=> e > q
  /\ Len(d.units) = L /\ Len(d.episodes) = E + 1
  /\ \A i \in 1..L : d.units[i].unit = c.units[i].unit
  /\ \A i \in 1..p : d.units[i].episode = c.units[i].episode
  /\ \A i \in 1..p :
       d.units[i].zone = IF \E e \in (q + 1)..m : c.episodes[e].id = c.units[i].episode
                         THEN "cold" ELSE c.units[i].zone
  /\ \A i \in (p + 1)..(p + k) : d.units[i].episode = episode /\ d.units[i].zone = "warm"
  /\ \A i \in (p + k + 1)..L : d.units[i].episode = None /\ d.units[i].zone = "hot"
  /\ \A e \in 1..E : /\ d.episodes[e].id = c.episodes[e].id
                     /\ d.episodes[e].zone = IF e <= m THEN "cold" ELSE "warm"
  /\ d.episodes[E + 1].id = episode /\ d.episodes[E + 1].zone = "warm"

\* The candidate drives out the oldest warm episodes.
LEMMA OldestTurnCold ==
  ASSUME NEW c, Orderly(c), NEW q \in 0..Len(c.episodes),
         Len(EpisodesIn(c, "warm")) = Len(c.episodes) - q,
         \A n \in 1..(Len(c.episodes) - q) : EpisodesIn(c, "warm")[n] = c.episodes[q + n]
  PROVE  \E n \in 0..(Len(c.episodes) - q) :
           ColdEpisodes(c) = [i \in 1..n |-> c.episodes[q + i].id]
<1> DEFINE E == Len(c.episodes)
           W == EpisodesIn(c, "warm")
           k == IF Len(W) + 1 > WarmMax THEN Len(W) + 1 - WarmMax ELSE 0
           n == IF k > Len(W) THEN Len(W) ELSE k
<1>1. E \in Nat
  BY DEF Orderly, Contexts
<1>2. ColdEpisodes(c) = [i \in 1..n |-> W[i].id]
  BY DEF ColdEpisodes
<1>3. n \in 0..(E - q)
  BY <1>1, PolicyAssumption
<1> HIDE DEF n, W
<1>4. \A i \in 1..n : W[i] = c.episodes[q + i]
  BY <1>1, <1>3 DEF W
<1> QED BY <1>2, <1>3, <1>4

\* What the candidate's compaction does to the rows of an orderly room.
LEMMA CompactedRows ==
  ASSUME NEW c, Orderly(c), NEW episode \in Episodes,
         Len(episode.members) > 0, Len(episode.members) <= Len(InZone(c, "hot")),
         episode.members = OldestHot(c, Len(episode.members))
  PROVE  LET d == Compacted(c, episode, ColdEpisodes(c)) IN
         /\ d \in Contexts
         /\ \E p \in 0..Len(c.units), q \in 0..Len(c.episodes) : \E m \in q..Len(c.episodes) :
              Shifts(c, d, episode, p, q, m)
<1> DEFINE d == Compacted(c, episode, ColdEpisodes(c))
           L == Len(c.units)
           E == Len(c.episodes)
           k == Len(episode.members)
<1>1. /\ c.units \in Seq(UnitRows) /\ c.episodes \in Seq(EpisodeRows)
      /\ L \in Nat /\ DOMAIN c.units = 1..L /\ E \in Nat /\ DOMAIN c.episodes = 1..E
      /\ k \in Nat
  BY DEF Orderly, Contexts, Episodes
<1>2. \A i \in 1..L : c.units[i] \in UnitRows
  BY <1>1
<1>3. \A e \in 1..E : c.episodes[e] \in EpisodeRows
  BY <1>1
<1>4. PICK p \in 0..L : /\ Positions(c.units, "hot") = (p + 1)..L
                        /\ Len(InZone(c, "hot")) = L - p
                        /\ \A n \in 1..(L - p) : InZone(c, "hot")[n] = c.units[p + n]
  BY HotUnits
<1>5. PICK q \in 0..E : /\ Positions(c.episodes, "warm") = (q + 1)..E
                        /\ Len(EpisodesIn(c, "warm")) = E - q
                        /\ \A n \in 1..(E - q) : EpisodesIn(c, "warm")[n] = c.episodes[q + n]
  BY WarmEpisodes
<1>6. PICK n \in 0..(E - q) : ColdEpisodes(c) = [i \in 1..n |-> c.episodes[q + i].id]
  BY <1>5, OldestTurnCold
<1> DEFINE m == q + n
           Members == {episode.members[i] : i \in DOMAIN episode.members}
           Cold == {ColdEpisodes(c)[i] : i \in DOMAIN ColdEpisodes(c)}
           MoveUnit(u) == IF u.unit \in Members
                          THEN [u EXCEPT !.zone = "warm", !.episode = episode]
                          ELSE IF u.episode \in Cold THEN [u EXCEPT !.zone = "cold"] ELSE u
           MoveEpisode(e) == IF e.id \in Cold THEN [e EXCEPT !.zone = "cold"] ELSE e
<1>7. /\ d.units = [i \in 1..L |-> MoveUnit(c.units[i])]
      /\ d.episodes = Append([e \in 1..E |-> MoveEpisode(c.episodes[e])],
                             [id |-> episode, zone |-> "warm"])
  BY <1>1 DEF Compacted
<1> HIDE DEF L, E, k, d
<1>8. k \in 1..(L - p) /\ m \in q..E
  BY <1>1, <1>4, <1>5, <1>6 DEF k
<1>9. \A i \in 1..L : c.units[i].zone = "hot" <=> i > p
  BY <1>1, <1>4 DEF Positions
<1>10. \A e \in 1..E : c.episodes[e].zone = "warm" <=> e > q
  BY <1>1, <1>5 DEF Positions
<1>11. DOMAIN episode.members = 1..k /\ \A i \in 1..k : episode.members[i] = c.units[p + i].unit
  <2>1. \A i \in 1..k : i \in 1..(L - p)
    BY <1>1, <1>8
  <2>2. episode.members = [i \in 1..k |-> InZone(c, "hot")[i].unit]
    BY DEF OldestHot, k
  <2> QED BY <2>1, <2>2, <1>4
<1>12. \A i \in 1..L : c.units[i].unit \in Members <=> i \in (p + 1)..(p + k)
  <2> SUFFICES ASSUME NEW i \in 1..L PROVE c.units[i].unit \in Members <=> i \in (p + 1)..(p + k)
    OBVIOUS
  <2>1. Members = {c.units[p + j].unit : j \in 1..k}
    BY <1>11
  <2>2. \A j \in 1..k : p + j \in 1..L
    BY <1>1, <1>8
  <2>3. ASSUME NEW j \in 1..k, c.units[i].unit = c.units[p + j].unit PROVE i = p + j
    BY <2>2, <2>3, <1>1 DEF Orderly, Distinct
  <2>4. ASSUME i \in (p + 1)..(p + k) PROVE i - p \in 1..k /\ p + (i - p) = i
    BY <2>4, <1>1
  <2>5. ASSUME i \in (p + 1)..(p + k) PROVE c.units[i].unit \in Members
    BY <2>1, <2>4, <2>5
  <2>6. \A j \in 1..k : p + j \in (p + 1)..(p + k)
    BY <1>1
  <2> HIDE DEF Members
  <2> QED BY <2>1, <2>3, <2>5, <2>6
<1>13. Cold = {c.episodes[e].id : e \in (q + 1)..m}
  <2>1. Cold = {c.episodes[q + i].id : i \in 1..n}
    <3>1. /\ DOMAIN ColdEpisodes(c) = 1..n
          /\ \A i \in 1..n : ColdEpisodes(c)[i] = c.episodes[q + i].id
      BY <1>6
    <3> QED BY <3>1
  <2>2. \A i \in 1..n : q + i \in (q + 1)..m
    OBVIOUS
  <2>3. \A e \in (q + 1)..m : e - q \in 1..n /\ q + (e - q) = e
    OBVIOUS
  <2> HIDE DEF Cold, m
  <2>4. {c.episodes[q + i].id : i \in 1..n} \subseteq {c.episodes[e].id : e \in (q + 1)..m}
    BY <2>2
  <2>5. \A e \in (q + 1)..m : c.episodes[e].id \in {c.episodes[q + i].id : i \in 1..n}
    BY <2>3
  <2> QED BY <2>1, <2>4, <2>5
<1>14. None \notin Cold /\ episode # None
  <2>1. None \notin Episodes
    BY NoneAssumption DEF Episodes, Bases
  <2>2. \A e \in (q + 1)..m : c.episodes[e].id \in Episodes
    BY <1>1, <1>3, <1>8 DEF EpisodeRows
  <2> QED BY <2>1, <2>2, <1>13
<1> HIDE DEF m
<1>15. \A e \in 1..E : c.episodes[e].id \in Cold <=> e \in (q + 1)..m
  <2> SUFFICES ASSUME NEW e \in 1..E PROVE c.episodes[e].id \in Cold <=> e \in (q + 1)..m
    OBVIOUS
  <2>1. \A f \in (q + 1)..m : f \in 1..E
    BY <1>1, <1>8
  <2>2. \A f \in 1..E : c.episodes[e].id = c.episodes[f].id => e = f
    BY <1>1 DEF Orderly, Distinct
  <2> HIDE DEF Cold
  <2> QED BY <1>13, <2>1, <2>2
<1> HIDE DEF Members, Cold
<1>16. \A i \in 1..L : MoveUnit(c.units[i]) \in UnitRows
  BY <1>2 DEF UnitRows, Zones
<1>17. \A e \in 1..E : MoveEpisode(c.episodes[e]) \in EpisodeRows
  BY <1>3 DEF EpisodeRows
<1>18. [id |-> episode, zone |-> "warm"] \in EpisodeRows
  BY DEF EpisodeRows
<1>19. d \in Contexts
  <2> HIDE DEF MoveUnit, MoveEpisode
  <2>1. d.units \in Seq(UnitRows)
    BY <1>1, <1>7, <1>16
  <2>2. [e \in 1..E |-> MoveEpisode(c.episodes[e])] \in Seq(EpisodeRows)
    <3>1. PICK rows : rows = [e \in 1..E |-> MoveEpisode(c.episodes[e])]
      OBVIOUS
    <3>2. rows = [e \in 1..E |-> rows[e]] /\ \A e \in 1..E : rows[e] \in EpisodeRows
      BY <1>17, <3>1
    <3>3. E \in Nat
      BY <1>1
    <3> QED BY <3>1, <3>2, <3>3, RowsOf
  <2>3. d.episodes \in Seq(EpisodeRows)
    BY <2>2, <1>7, <1>18
  <2>4. d = [units |-> d.units, episodes |-> d.episodes]
    BY DEF d, Compacted
  <2> QED BY <2>1, <2>3, <2>4 DEF Contexts
<1>20. Len(d.units) = L /\ \A i \in 1..L : d.units[i] = MoveUnit(c.units[i])
  <2> HIDE DEF MoveUnit
  <2> QED BY <1>1, <1>7
<1>21. /\ Len(d.episodes) = E + 1
       /\ \A e \in 1..E : d.episodes[e] = MoveEpisode(c.episodes[e])
       /\ d.episodes[E + 1] = [id |-> episode, zone |-> "warm"]
  <2> DEFINE Old == [e \in 1..E |-> MoveEpisode(c.episodes[e])]
             last == [id |-> episode, zone |-> "warm"]
  <2>1. /\ Old \in Seq(EpisodeRows) /\ Len(Old) = E
        /\ \A e \in 1..E : Old[e] = MoveEpisode(c.episodes[e])
    <3>1. DOMAIN Old = 1..E /\ \A e \in 1..E : Old[e] = MoveEpisode(c.episodes[e])
      <4> HIDE DEF MoveEpisode
      <4> QED OBVIOUS
    <3> HIDE DEF MoveEpisode
    <3>2. PICK rows : rows = Old
      OBVIOUS
    <3> HIDE DEF Old
    <3>3. rows = [e \in 1..E |-> rows[e]] /\ \A e \in 1..E : rows[e] \in EpisodeRows
      BY <1>17, <3>1, <3>2 DEF Old
    <3>4. E \in Nat
      BY <1>1
    <3>5. rows \in Seq(EpisodeRows)
      BY <3>3, <3>4, RowsOf
    <3> QED BY <3>1, <3>2, <3>4, <3>5
  <2>2. d.episodes = Append(Old, last)
    BY <1>7
  <2> HIDE DEF Old, last, MoveEpisode
  <2>3. /\ Len(d.episodes) = E + 1 /\ d.episodes[E + 1] = last
        /\ \A e \in 1..E : d.episodes[e] = Old[e]
    BY <2>1, <2>2, <1>1
  <2> QED BY <2>1, <2>3 DEF last
<1>22. \A i \in 1..L : d.units[i].unit = c.units[i].unit
  BY <1>2, <1>20 DEF UnitRows
<1>23. \A i \in 1..p :
         /\ d.units[i].episode = c.units[i].episode
         /\ d.units[i].zone = IF \E e \in (q + 1)..m : c.episodes[e].id = c.units[i].episode
                              THEN "cold" ELSE c.units[i].zone
  <2> SUFFICES ASSUME NEW i \in 1..p
               PROVE  /\ d.units[i].episode = c.units[i].episode
                      /\ d.units[i].zone = IF \E e \in (q + 1)..m :
                                                 c.episodes[e].id = c.units[i].episode
                                           THEN "cold" ELSE c.units[i].zone
    OBVIOUS
  <2>1. i \in 1..L /\ i \notin (p + 1)..(p + k)
    BY <1>1
  <2>2. c.units[i].unit \notin Members
    BY <2>1, <1>12
  <2>3. d.units[i] = IF c.units[i].episode \in Cold THEN [c.units[i] EXCEPT !.zone = "cold"]
                     ELSE c.units[i]
    BY <2>1, <2>2, <1>20
  <2>4. c.units[i].episode \in Cold
          <=> \E e \in (q + 1)..m : c.episodes[e].id = c.units[i].episode
    BY <1>13
  <2> QED BY <2>1, <2>3, <2>4, <1>2 DEF UnitRows
<1>24. \A i \in (p + 1)..(p + k) : d.units[i].episode = episode /\ d.units[i].zone = "warm"
  <2> SUFFICES ASSUME NEW i \in (p + 1)..(p + k)
               PROVE  d.units[i].episode = episode /\ d.units[i].zone = "warm"
    OBVIOUS
  <2>1. i \in 1..L
    BY <1>1, <1>8
  <2>2. d.units[i] = [c.units[i] EXCEPT !.zone = "warm", !.episode = episode]
    BY <2>1, <1>12, <1>20
  <2> QED BY <2>1, <2>2, <1>2 DEF UnitRows
<1>25. \A i \in (p + k + 1)..L : d.units[i].episode = None /\ d.units[i].zone = "hot"
  <2> SUFFICES ASSUME NEW i \in (p + k + 1)..L
               PROVE  d.units[i].episode = None /\ d.units[i].zone = "hot"
    OBVIOUS
  <2>1. i \in 1..L /\ i \notin (p + 1)..(p + k) /\ i > p
    BY <1>1
  <2>2. c.units[i].zone = "hot" /\ c.units[i].episode = None
    BY <2>1, <1>1, <1>9 DEF Orderly, Grouped
  <2>3. d.units[i] = c.units[i]
    BY <2>1, <2>2, <1>12, <1>14, <1>20
  <2> QED BY <2>2, <2>3
<1>26. \A e \in 1..E : /\ d.episodes[e].id = c.episodes[e].id
                       /\ d.episodes[e].zone = IF e <= m THEN "cold" ELSE "warm"
  <2> SUFFICES ASSUME NEW e \in 1..E
               PROVE  /\ d.episodes[e].id = c.episodes[e].id
                      /\ d.episodes[e].zone = IF e <= m THEN "cold" ELSE "warm"
    OBVIOUS
  <2>1. c.episodes[e] \in EpisodeRows /\ d.episodes[e] = MoveEpisode(c.episodes[e])
    BY <1>3, <1>21
  <2>2. c.episodes[e].zone = IF e > q THEN "warm" ELSE "cold"
    BY <2>1, <1>10 DEF EpisodeRows
  <2>3. CASE e \in (q + 1)..m
    <3>1. d.episodes[e] = [c.episodes[e] EXCEPT !.zone = "cold"] /\ e <= m
      BY <2>1, <2>3, <1>8, <1>15
    <3> QED BY <2>1, <3>1 DEF EpisodeRows
  <2>4. CASE e \notin (q + 1)..m
    <3>1. d.episodes[e] = c.episodes[e]
      BY <2>1, <2>4, <1>15
    <3>2. e > q <=> ~(e <= m)
      BY <2>4, <1>8, <1>1
    <3> QED BY <3>1, <3>2, <2>2
  <2> QED BY <2>3, <2>4
<1>27. Shifts(c, d, episode, p, q, m)
  <2>1. k \in 1..(L - p) /\ Len(InZone(c, "hot")) = L - p
    BY <1>4, <1>8
  <2>2. Len(d.units) = L /\ Len(d.episodes) = E + 1
    BY <1>20, <1>21
  <2>3. \A i \in 1..p : d.units[i].episode = c.units[i].episode
    BY <1>23
  <2>4. \A i \in 1..p :
          d.units[i].zone = IF \E e \in (q + 1)..m : c.episodes[e].id = c.units[i].episode
                            THEN "cold" ELSE c.units[i].zone
    BY <1>23
  <2>5. d.episodes[E + 1].id = episode /\ d.episodes[E + 1].zone = "warm"
    BY <1>21
  <2> QED BY <2>1, <2>2, <2>3, <2>4, <2>5, <1>9, <1>10, <1>11, <1>22, <1>24, <1>25, <1>26
          DEF Shifts, L, E, k
<1> QED BY <1>8, <1>19, <1>27 DEF d, L, E

\* A compaction keeps the room orderly: it moves hot units out, and whatever turns cold
\* is older than what stays warm.
LEMMA ShiftedRoom ==
  ASSUME NEW c, Orderly(c), NEW d \in Contexts, NEW episode \in Episodes,
         NEW p \in 0..Len(c.units), NEW q \in 0..Len(c.episodes), NEW m \in q..Len(c.episodes),
         Shifts(c, d, episode, p, q, m)
  PROVE  /\ Orderly(d)
         /\ UnitsOf(d) = UnitsOf(c)
         /\ Len(InZone(d, "hot")) = Len(InZone(c, "hot")) - Len(episode.members)
         /\ \E n \in 0..p :
              /\ \A i \in 1..Len(c.units) : c.units[i].zone = "cold" => i <= n
              /\ \A i \in 1..Len(c.units) :
                   d.units[i].zone = IF i <= n THEN "cold"
                                     ELSE IF i <= p + Len(episode.members) THEN "warm" ELSE "hot"
<1> DEFINE L == Len(c.units)
           E == Len(c.episodes)
           k == Len(episode.members)
<1>1. /\ k \in 1..(L - p) /\ Len(InZone(c, "hot")) = L - p
      /\ Len(d.units) = L /\ Len(d.episodes) = E + 1
  BY DEF Shifts
<1>2. /\ \A i \in 1..L : c.units[i].zone = "hot" <=> i > p
      /\ \A e \in 1..E : c.episodes[e].zone = "warm" <=> e > q
  BY DEF Shifts
<1>3. episode.members[1] = c.units[p + 1].unit
  BY <1>1 DEF Shifts
<1>4. \A i \in 1..L : d.units[i].unit = c.units[i].unit
  BY DEF Shifts
<1>5. \A i \in 1..p :
        /\ d.units[i].episode = c.units[i].episode
        /\ d.units[i].zone = IF \E e \in (q + 1)..m : c.episodes[e].id = c.units[i].episode
                             THEN "cold" ELSE c.units[i].zone
  BY DEF Shifts
<1>6. /\ \A i \in (p + 1)..(p + k) : d.units[i].episode = episode /\ d.units[i].zone = "warm"
      /\ \A i \in (p + k + 1)..L : d.units[i].episode = None /\ d.units[i].zone = "hot"
  BY DEF Shifts
<1>7. \A e \in 1..E : /\ d.episodes[e].id = c.episodes[e].id
                      /\ d.episodes[e].zone = IF e <= m THEN "cold" ELSE "warm"
  BY DEF Shifts
<1>8. d.episodes[E + 1].id = episode /\ d.episodes[E + 1].zone = "warm"
  BY DEF Shifts
<1>9. /\ L \in Nat /\ DOMAIN c.units = 1..L /\ E \in Nat /\ DOMAIN c.episodes = 1..E
      /\ \A e \in 1..E : c.episodes[e] \in EpisodeRows
  BY DEF Orderly, Contexts
<1>10. DOMAIN d.units = 1..L /\ DOMAIN d.episodes = 1..(E + 1)
  BY <1>1, <1>9 DEF Contexts
<1>0. L \in Nat /\ p \in 0..L /\ p + 1 \in 1..L /\ p + 1 \in (p + 1)..(p + k)
  <2>1. L \in Nat /\ p \in 0..L
    BY <1>9
  <2> HIDE DEF L, k
  <2> QED BY <2>1, <1>1
<1> HIDE DEF L, E, k
<1>11. /\ \A i \in 1..L : i \in 1..p \/ i \in (p + 1)..(p + k) \/ i \in (p + k + 1)..L
       /\ 1..p \subseteq 1..L /\ (p + 1)..(p + k) \subseteq 1..L
       /\ \A e \in 1..(E + 1) : e \in 1..E \/ e = E + 1
  BY <1>1, <1>9 DEF L
<1>12. /\ None \notin Episodes /\ episode # None
       /\ \A e \in 1..E : c.episodes[e].id \in Episodes /\ c.episodes[e].zone \in {"warm", "cold"}
  BY <1>9, NoneAssumption DEF Episodes, Bases, EpisodeRows
<1>13. \A e, f \in 1..E : c.episodes[e].id = c.episodes[f].id => e = f
  BY <1>9 DEF Orderly, Distinct
<1>14. \A i, j \in 1..L : c.units[i].unit = c.units[j].unit => i = j
  BY <1>9 DEF Orderly, Distinct
<1>15. \A i \in 1..p : \E e \in 1..E : /\ c.episodes[e].id = c.units[i].episode
                                       /\ c.episodes[e].zone = c.units[i].zone
  <2>1. \A i \in 1..p : i \in 1..L /\ ~(i > p)
    BY <1>11
  <2>2. \A i \in 1..p : i \in 1..L /\ c.units[i].zone # "hot"
    BY <2>1, <1>2
  <2>3. \A i \in 1..L : c.units[i].zone # "hot" =>
          \E e \in 1..E : /\ c.episodes[e].id = c.units[i].episode
                          /\ c.episodes[e].zone = c.units[i].zone
    BY <1>9 DEF Orderly, Grouped
  <2> QED BY <2>2, <2>3
<1>16. ASSUME NEW i \in 1..p, NEW e \in 1..E, c.episodes[e].id = c.units[i].episode
       PROVE  d.units[i].zone = IF e <= m THEN "cold" ELSE "warm"
  <2>1. c.episodes[e].zone = c.units[i].zone
    BY <1>13, <1>15, <1>16
  <2>2. (\E f \in (q + 1)..m : c.episodes[f].id = c.units[i].episode) <=> e \in (q + 1)..m
    <3>1. \A f \in (q + 1)..m : f \in 1..E
      BY <1>9 DEF E
    <3> QED BY <3>1, <1>13, <1>16
  <2>3. c.episodes[e].zone = IF e > q THEN "warm" ELSE "cold"
    BY <1>2, <1>12
  <2>4. CASE e \in (q + 1)..m
    BY <2>2, <2>4, <1>5, <1>9 DEF E
  <2>5. CASE e \notin (q + 1)..m
    <3>1. d.units[i].zone = c.units[i].zone
      BY <2>2, <2>5, <1>5
    <3>2. e > q <=> ~(e <= m)
      BY <2>5, <1>9 DEF E
    <3> QED BY <2>1, <2>3, <3>1, <3>2
  <2> QED BY <2>4, <2>5
<1>17. \A i \in 1..p : d.units[i].zone \in {"warm", "cold"}
  BY <1>15, <1>16
<1>18. \A i \in 1..L : /\ d.units[i].zone = "cold" => i \in 1..p
                       /\ d.units[i].zone = "hot" <=> i \in (p + k + 1)..L
  <2>1. \A i \in 1..p : i \notin (p + k + 1)..L
    BY <1>1, <1>9 DEF L
  <2>2. \A i \in (p + 1)..(p + k) : i \notin (p + k + 1)..L
    BY <1>1, <1>9 DEF L
  <2> QED BY <2>1, <2>2, <1>6, <1>11, <1>17
<1>19. \A e \in 1..E : c.episodes[e].id # episode
  <2> SUFFICES ASSUME NEW e \in 1..E, c.episodes[e].id = episode PROVE FALSE
    OBVIOUS
  <2>1. PICK i \in 1..L : c.units[i].unit = episode.members[1] /\ c.units[i].zone # "hot"
    BY <1>9 DEF Orderly, Grouped
  <2>2. i = p + 1
    BY <2>1, <1>0, <1>3, <1>14
  <2> QED BY <2>1, <2>2, <1>2
<1>20. Distinct(d)
  <2>1. \A i, j \in 1..L : i # j => d.units[i].unit # d.units[j].unit
    BY <1>4, <1>14
  <2>2. ASSUME NEW e \in 1..(E + 1), NEW f \in 1..(E + 1), d.episodes[e].id = d.episodes[f].id
        PROVE  e = f
    <3>1. CASE e \in 1..E /\ f \in 1..E
      BY <3>1, <2>2, <1>7, <1>13
    <3>2. CASE e \in 1..E /\ f = E + 1
      BY <3>2, <2>2, <1>7, <1>8, <1>19
    <3>3. CASE e = E + 1 /\ f \in 1..E
      BY <3>3, <2>2, <1>7, <1>8, <1>19
    <3> QED BY <3>1, <3>2, <3>3, <1>11
  <2> QED BY <2>1, <2>2, <1>10 DEF Distinct
<1>21. \A i, j \in 1..p, e, f \in 1..E :
         i < j /\ c.episodes[e].id = c.units[i].episode /\ c.episodes[f].id = c.units[j].episode
           => e <= f
  BY <1>9, <1>11 DEF Orderly, Grouped
<1>22. Aging(d)
  <2>1. ASSUME NEW i \in 1..L, NEW j \in 1..L, i < j, d.units[j].zone = "cold"
        PROVE  d.units[i].zone = "cold"
    <3>1. i \in 1..p /\ j \in 1..p
      BY <2>1, <1>18
    <3>2. PICK e \in 1..E : c.episodes[e].id = c.units[i].episode
      BY <3>1, <1>15
    <3>3. PICK f \in 1..E : c.episodes[f].id = c.units[j].episode
      BY <3>1, <1>15
    <3>4. f <= m
      BY <2>1, <3>1, <3>3, <1>16
    <3>5. e <= m
      BY <2>1, <3>1, <3>2, <3>3, <3>4, <1>21
    <3> QED BY <3>1, <3>2, <3>5, <1>16
  <2>2. ASSUME NEW i \in 1..L, NEW j \in 1..L, i < j, d.units[i].zone = "hot"
        PROVE  d.units[j].zone = "hot"
    <3>1. j \in (p + k + 1)..L
      BY <2>2, <1>18, <1>1, <1>9
    <3> QED BY <3>1, <1>6
  <2>3. ASSUME NEW e \in 1..(E + 1), NEW f \in 1..(E + 1), e < f, d.episodes[f].zone = "cold"
        PROVE  d.episodes[e].zone = "cold"
    <3>1. f \in 1..E
      BY <2>3, <1>8, <1>11
    <3>2. f <= m /\ e \in 1..E
      BY <2>3, <3>1, <1>7, <1>9
    <3> QED BY <2>3, <3>2, <1>7
  <2> QED BY <2>1, <2>2, <2>3, <1>10 DEF Aging
<1>23. Grouped(d)
  <2>1. ASSUME NEW i \in 1..L PROVE d.units[i].zone = "hot" <=> d.units[i].episode = None
    <3>1. CASE i \in 1..p
      <4>1. PICK e \in 1..E : c.episodes[e].id = c.units[i].episode
        BY <3>1, <1>15
      <4>2. d.units[i].episode # None
        BY <3>1, <4>1, <1>5, <1>12
      <4>3. d.units[i].zone # "hot"
        BY <3>1, <1>17
      <4> QED BY <4>2, <4>3
    <3>2. CASE i \in (p + 1)..(p + k)
      BY <3>2, <1>6, <1>12
    <3>3. CASE i \in (p + k + 1)..L
      BY <3>3, <1>6
    <3> QED BY <3>1, <3>2, <3>3, <1>11
  <2>2. ASSUME NEW i \in 1..L, d.units[i].zone # "hot"
        PROVE  \E e \in 1..(E + 1) : /\ d.episodes[e].id = d.units[i].episode
                                     /\ d.episodes[e].zone = d.units[i].zone
    <3>1. CASE i \in 1..p
      <4>1. PICK e \in 1..E : c.episodes[e].id = c.units[i].episode
        BY <3>1, <1>15
      <4>2. d.units[i].zone = IF e <= m THEN "cold" ELSE "warm"
        BY <3>1, <4>1, <1>16
      <4>3. e \in 1..(E + 1)
        BY <1>9
      <4> QED BY <3>1, <4>1, <4>2, <4>3, <1>5, <1>7
    <3>2. CASE i \in (p + 1)..(p + k)
      <4>1. E + 1 \in 1..(E + 1)
        BY <1>9
      <4> QED BY <3>2, <4>1, <1>6, <1>8
    <3> QED BY <2>2, <3>1, <3>2, <1>11, <1>18
  <2>3. ASSUME NEW i \in 1..L, NEW j \in 1..L, NEW e \in 1..(E + 1), NEW f \in 1..(E + 1), i < j,
               d.episodes[e].id = d.units[i].episode, d.episodes[f].id = d.units[j].episode
        PROVE  e <= f
    <3>1. CASE j \in 1..p
      <4>1. i \in 1..p
        BY <2>3, <3>1
      <4>2. e \in 1..E /\ f \in 1..E
        <5>1. d.units[i].episode # episode /\ d.units[j].episode # episode
          BY <3>1, <4>1, <1>5, <1>15, <1>19
        <5>2. e # E + 1 /\ f # E + 1
          BY <5>1, <2>3, <1>8
        <5> QED BY <5>2, <1>11
      <4> QED BY <2>3, <3>1, <4>1, <4>2, <1>5, <1>7, <1>21
    <3>2. CASE j \in (p + 1)..(p + k)
      <4>1. f = E + 1
        BY <2>3, <3>2, <1>6, <1>7, <1>11, <1>19
      <4> QED BY <4>1, <1>9
    <3>3. CASE j \in (p + k + 1)..L
      <4>1. d.units[j].episode = None
        BY <3>3, <1>6
      <4>2. d.episodes[f].id # None
        BY <1>7, <1>8, <1>11, <1>12
      <4> QED BY <2>3, <4>1, <4>2
    <3> QED BY <3>1, <3>2, <3>3, <1>11
  <2>4. ASSUME NEW e \in 1..(E + 1)
        PROVE  /\ Len(d.episodes[e].id.members) > 0
               /\ \E i \in 1..L : /\ d.units[i].unit = d.episodes[e].id.members[1]
                                  /\ d.units[i].zone # "hot"
    <3>1. CASE e \in 1..E
      <4>1. /\ Len(c.episodes[e].id.members) > 0
            /\ \E i \in 1..L : /\ c.units[i].unit = c.episodes[e].id.members[1]
                               /\ c.units[i].zone # "hot"
        BY <3>1, <1>9 DEF Orderly, Grouped
      <4>2. PICK i \in 1..L : /\ c.units[i].unit = c.episodes[e].id.members[1]
                              /\ c.units[i].zone # "hot"
        BY <4>1
      <4>3. i \in 1..p
        BY <4>2, <1>2
      <4> QED BY <3>1, <4>1, <4>2, <4>3, <1>4, <1>7, <1>17
    <3>2. CASE e = E + 1
      <4>1. Len(episode.members) > 0
        BY <1>1 DEF k
      <4> QED BY <3>2, <4>1, <1>0, <1>3, <1>4, <1>6, <1>8
    <3> QED BY <3>1, <3>2, <1>11
  <2> QED BY <2>1, <2>2, <2>3, <2>4, <1>10 DEF Grouped
<1>24. Orderly(d)
  BY <1>20, <1>22, <1>23 DEF Orderly
<1>25. UnitsOf(d) = UnitsOf(c)
  BY <1>4, <1>9, <1>10 DEF UnitsOf
<1>26. Len(InZone(d, "hot")) = Len(InZone(c, "hot")) - k
  <2>1. PICK r \in 0..Len(d.units) : /\ Positions(d.units, "hot") = (r + 1)..Len(d.units)
                                     /\ Len(InZone(d, "hot")) = Len(d.units) - r
    BY <1>24, HotUnits
  <2>2. r \in 0..L /\ \A i \in 1..L : i > r <=> d.units[i].zone = "hot"
    <3>1. Len(d.units) = L
      BY <1>1
    <3>2. r \in 0..L /\ Positions(d.units, "hot") = (r + 1)..L
      BY <2>1, <3>1
    <3>3. \A i \in 1..L : d.units[i].zone = "hot" <=> i \in (r + 1)..L
      BY <3>2, <1>10 DEF Positions
    <3> QED BY <3>2, <3>3, <1>0
  <2>3. \A i \in 1..L : i > r <=> i > p + k
    BY <2>2, <1>18, <1>1, <1>9
  <2>4. r = p + k
    <3>1. r \in Nat /\ p + k \in 0..L
      BY <2>2, <1>1, <1>9 DEF L
    <3>2. ~(r < p + k)
      <4> SUFFICES ASSUME r < p + k PROVE FALSE
        OBVIOUS
      <4>1. p + k \in 1..L /\ p + k > r
        BY <3>1
      <4> QED BY <4>1, <2>3, <3>1
    <3>3. ~(p + k < r)
      <4> SUFFICES ASSUME p + k < r PROVE FALSE
        OBVIOUS
      <4>1. r \in 1..L /\ r > p + k
        BY <2>2, <3>1
      <4> QED BY <4>1, <2>3, <3>1
    <3> QED BY <3>1, <3>2, <3>3
  <2>5. /\ Len(InZone(d, "hot")) = L - (p + k) /\ Len(InZone(c, "hot")) = L - p
        /\ L \in Nat /\ p \in Nat /\ k \in Nat
    BY <2>1, <2>4, <1>1, <1>9
  <2> QED BY <2>5
<1>27. \E n \in 0..p :
         /\ \A i \in 1..L : c.units[i].zone = "cold" => i <= n
         /\ \A i \in 1..L : d.units[i].zone = IF i <= n THEN "cold"
                                              ELSE IF i <= p + k THEN "warm" ELSE "hot"
  <2> DEFINE S == {i \in 1..p : d.units[i].zone = "cold"}
  <2>1. PICK n \in 0..p : S = 1..n
    <3>1. \A i \in S, j \in 1..p : j < i => j \in S
      BY <1>10, <1>11, <1>22 DEF Aging
    <3>2. p \in Nat /\ S \in SUBSET (1..p)
      BY <1>9
    <3> HIDE DEF S
    <3> QED BY <3>1, <3>2, PrefixIsInterval
  <2>2. ASSUME NEW i \in 1..L, c.units[i].zone = "cold" PROVE i <= n
    <3>1. i \in 1..p
      BY <2>2, <1>2
    <3>2. PICK e \in 1..E : /\ c.episodes[e].id = c.units[i].episode
                            /\ c.episodes[e].zone = c.units[i].zone
      BY <3>1, <1>15
    <3>3. e <= m
      BY <2>2, <3>2, <1>2, <1>9 DEF E
    <3>4. i \in S
      BY <3>1, <3>2, <3>3, <1>16
    <3> QED BY <3>4, <2>1
  <2>3. ASSUME NEW i \in 1..L
        PROVE  d.units[i].zone = IF i <= n THEN "cold" ELSE IF i <= p + k THEN "warm" ELSE "hot"
    <3>1. CASE i \in 1..p
      <4>1. d.units[i].zone = "cold" <=> i <= n
        BY <2>1, <3>1
      <4>2. i <= p + k
        BY <3>1, <1>1, <1>9
      <4> QED BY <3>1, <4>1, <4>2, <1>17
    <3>2. CASE i \in (p + 1)..(p + k)
      <4>1. ~(i <= n) /\ i <= p + k
        BY <3>2, <1>0
      <4> QED BY <3>2, <4>1, <1>6
    <3>3. CASE i \in (p + k + 1)..L
      <4>1. k \in Nat
        BY <1>1, <1>0
      <4>2. ~(i <= n) /\ ~(i <= p + k)
        BY <3>3, <4>1, <1>0
      <4> QED BY <3>3, <4>2, <1>6
    <3> QED BY <3>1, <3>2, <3>3, <1>11
  <2> QED BY <2>2, <2>3
<1> QED BY <1>24, <1>25, <1>26, <1>27 DEF L, k
(***************************************************************************)
(* The room in a state.                                                    *)
(***************************************************************************)
\* A room that no unit has reached is orderly.
LEMMA EmptyRoom == Orderly(EmptyContext)
<1>1. EmptyContext \in Contexts
  BY DEF EmptyContext, Contexts
<1>2. DOMAIN EmptyContext.units = {} /\ DOMAIN EmptyContext.episodes = {}
  BY DEF EmptyContext
<1> QED BY <1>1, <1>2 DEF Orderly, Distinct, Aging, Grouped

\* The room as it is, and what is known of it.
LEMMA RoomNow ==
  ASSUME TypesHold, RoomsOrderly
  PROVE  \E c \in Contexts :
           /\ c = Context /\ Orderly(c)
           /\ UnitsOf(c) \subseteq Units /\ IsFiniteSet(UnitsOf(c))
           /\ Len(InZone(c, "hot")) \in Nat
           /\ Revision \in Nat
           /\ Revision = 0 => UnitsOf(c) = {}
<1>1. snapshots \in Seq(Contexts) /\ Revision \in Nat
  BY DEF TypesHold, Revision
<1>2. Context \in Contexts /\ Orderly(Context)
  <2>1. CASE Revision = 0
    BY <2>1, EmptyRoom DEF Context, At, Orderly
  <2>2. CASE Revision # 0
    <3>1. Revision \in 1..Revision /\ Context = snapshots[Revision]
      BY <1>1, <2>2 DEF Context, At
    <3> QED BY <3>1 DEF RoomsOrderly, Orderly
  <2> QED BY <2>1, <2>2
<1>3. PICK c : c = Context
  OBVIOUS
<1>4. c \in Contexts /\ Orderly(c)
  BY <1>2, <1>3
<1>5. UnitsOf(c) \subseteq Units
  <2>1. \A i \in DOMAIN c.units : c.units[i] \in UnitRows
    BY <1>4 DEF Contexts
  <2> QED BY <2>1 DEF UnitsOf, UnitRows
<1>6. IsFiniteSet(UnitsOf(c))
  BY <1>5, UnitsAssumption, FS_Subset
<1>7. Len(InZone(c, "hot")) \in Nat
  <2>1. PICK p \in 0..Len(c.units) : Len(InZone(c, "hot")) = Len(c.units) - p
    BY <1>4, HotUnits
  <2>2. Len(c.units) \in Nat
    BY <1>4 DEF Contexts
  <2> QED BY <2>1, <2>2
<1>8. Revision = 0 => UnitsOf(c) = {}
  <2>1. Revision = 0 => c = EmptyContext
    BY <1>3 DEF Context, At
  <2>2. DOMAIN EmptyContext.units = {}
    BY DEF EmptyContext
  <2> QED BY <2>1, <2>2 DEF UnitsOf
<1> QED BY <1>1, <1>3, <1>4, <1>5, <1>6, <1>7, <1>8

\* The room after a step.
LEMMA RoomNext ==
  ASSUME NEW c, Context' = c
  PROVE  UnitsOf(Context)' = UnitsOf(c) /\ InZone(Context, "hot")' = InZone(c, "hot")
<1>1. UnitsOf(Context)' = UnitsOf(c)
  BY DEF UnitsOf
<1>2. InZone(Context, "hot")' = InZone(c, "hot")
  BY DEF InZone, RowsIn, Positions, Nth
<1> QED BY <1>1, <1>2

\* A room that is written has the written context.
LEMMA RoomWritten ==
  ASSUME TypesHold, NEW c \in Contexts, snapshots' = Append(snapshots, c)
  PROVE  /\ snapshots' \in Seq(Contexts)
         /\ Revision' = Revision + 1 /\ Context' = c
         /\ \A r \in 0..Revision : At(r)' = At(r)
         /\ \A r \in 1..Revision : snapshots'[r] = snapshots[r]
         /\ snapshots'[Revision + 1] = c
<1>1. snapshots \in Seq(Contexts) /\ Len(snapshots) \in Nat
  BY DEF TypesHold
<1>2. /\ snapshots' \in Seq(Contexts)
      /\ Len(snapshots') = Len(snapshots) + 1
      /\ snapshots'[Len(snapshots) + 1] = c
      /\ \A r \in 1..Len(snapshots) : snapshots'[r] = snapshots[r]
  BY <1>1
<1>3. Revision' = Revision + 1
  BY <1>2 DEF Revision
<1>4. Context' = c
  <2>1. Len(snapshots') # 0
    BY <1>1, <1>2
  <2> QED BY <1>2, <2>1 DEF Context, At, Revision
<1>5. \A r \in 0..Revision : At(r)' = At(r)
  BY <1>1, <1>2 DEF At, Revision
<1> QED BY <1>2, <1>3, <1>4, <1>5 DEF Revision

\* An accepted write keeps the receipts and the revisions in step.
LEMMA ReceiptWritten ==
  ASSUME TypesHold, RevisionsHaveReceipts, NEW attempt, NEW request, NEW c \in Contexts,
         Fresh(attempt), Current(request), snapshots' = Append(snapshots, c),
         WriteReceipt(attempt, request, "committed", Revision + 1)
  PROVE  RevisionsHaveReceipts'
<1> DEFINE Com(R, r) == {a \in DOMAIN R : R[a].state = "committed" /\ R[a].result = r}
           new == [request |-> request, state |-> "committed", result |-> Revision + 1]
<1>1. Revision \in Nat
  BY DEF TypesHold, Revision
<1>2. Revision' = Revision + 1 /\ \A r \in 0..Revision : At(r)' = At(r)
  BY RoomWritten
<1>3. PICK N \in Nat : N = Revision
  BY <1>1
<1>4. /\ DOMAIN receipts' = DOMAIN receipts \cup {attempt}
      /\ attempt \notin DOMAIN receipts
      /\ \A a \in DOMAIN receipts : receipts'[a] = receipts[a]
      /\ receipts'[attempt] = [request |-> request, state |-> "committed", result |-> N + 1]
  BY <1>3 DEF WriteReceipt, Fresh
<1>5. /\ receipts'[attempt].request = request /\ receipts'[attempt].state = "committed"
      /\ receipts'[attempt].result = N + 1
  BY <1>4
<1>6. \A a \in DOMAIN receipts : receipts[a].state = "committed" => receipts[a].result \in 1..N
  BY <1>3 DEF RevisionsHaveReceipts
<1>7. \A r \in 1..N : Cardinality(Com(receipts, r)) = 1
  BY <1>3 DEF RevisionsHaveReceipts
<1>8. \A r \in 1..N : Com(receipts', r) = Com(receipts, r)
  <2> SUFFICES ASSUME NEW r \in 1..N PROVE Com(receipts', r) = Com(receipts, r)
    OBVIOUS
  <2>1. r # N + 1
    OBVIOUS
  <2> QED BY <2>1, <1>4, <1>5
<1>9. Com(receipts', N + 1) = {attempt}
  <2>1. \A a \in DOMAIN receipts : receipts[a].state = "committed" => receipts[a].result # N + 1
    BY <1>6
  <2> QED BY <2>1, <1>4, <1>5
<1>10. Cardinality({attempt}) = 1
  BY FS_Singleton
<1>11. \A r \in 1..(N + 1) : Cardinality(Com(receipts', r)) = 1
  <2>1. \A r \in 1..(N + 1) : r \in 1..N \/ r = N + 1
    OBVIOUS
  <2> HIDE DEF Com
  <2> QED BY <2>1, <1>7, <1>8, <1>9, <1>10
<1>12. request.expected = [revision |-> N, snapshot |-> At(N)]
  BY <1>3 DEF Current, Seen
<1>13. ASSUME NEW a \in DOMAIN receipts', receipts'[a].state = "committed"
       PROVE  /\ receipts'[a].result \in 1..(N + 1)
              /\ receipts'[a].request.expected
                   = [revision |-> receipts'[a].result - 1,
                      snapshot |-> At(receipts'[a].result - 1)]
  <2>1. CASE a = attempt
    <3>1. (N + 1) - 1 = N /\ N + 1 \in 1..(N + 1)
      OBVIOUS
    <3> QED BY <2>1, <3>1, <1>5, <1>12
  <2>2. CASE a \in DOMAIN receipts
    <3>1. /\ receipts[a].result \in 1..N
          /\ receipts[a].request.expected
               = [revision |-> receipts[a].result - 1, snapshot |-> At(receipts[a].result - 1)]
      BY <2>2, <1>3, <1>4, <1>13 DEF RevisionsHaveReceipts, Seen
    <3>2. receipts[a].result \in 1..(N + 1)
      BY <3>1
    <3> QED BY <2>2, <3>1, <3>2, <1>4
  <2> QED BY <2>1, <2>2, <1>4
<1>14. ASSUME NEW a \in DOMAIN receipts', receipts'[a].state = "committed"
       PROVE  /\ receipts'[a].result \in 1..Revision'
              /\ receipts'[a].request.expected = Seen(receipts[a].result - 1)'
  <2>1. PICK r \in 1..(N + 1) : r = receipts'[a].result
    BY <1>13, <1>14
  <2>2. r - 1 \in 0..N
    OBVIOUS
  <2>3. At(r - 1)' = At(r - 1)
    BY <2>2, <1>2, <1>3
  <2>4. receipts'[a].request.expected = [revision |-> r - 1, snapshot |-> At(r - 1)']
    BY <2>1, <2>3, <1>13, <1>14
  <2> QED BY <2>1, <2>4, <1>2, <1>3 DEF Seen, At
<1>15. \A r \in 1..Revision' :
         Cardinality({a \in DOMAIN receipts' :
            receipts'[a].state = "committed" /\ receipts'[a].result = r}) = 1
  BY <1>2, <1>3, <1>11
<1> QED BY <1>14, <1>15 DEF RevisionsHaveReceipts
(***************************************************************************)
(* One handler's step and what the others hold.                            *)
(***************************************************************************)
\* What a record says stays true while its bundle is not taken back, no acceptance is
\* forgotten and nobody else writes to the room it is working on.
LEMMA SoundStays ==
  ASSUME NEW r \in SyncRecords, Sound(r),
         \A o \in Units : bundles[o] = "applied" => bundles'[o] = "applied",
         r.step = "leased" => bundles'[r.operation] = bundles[r.operation],
         \A o \in Units : Accepted(o) => Accepted(o)',
         r.step \in Locked => snapshots' = snapshots /\ ingested' = ingested
  PROVE  Sound(r)'
<1>1. r.step \in Locked \cup {"ingest", "journal", "done", "project", "record", "leased"}
        => r.operation \in Units
  BY DEF Sound, Locked
<1>2. /\ (r.step # "idle" => r.operation \in Units)
      /\ (r.step = "leased" => bundles'[r.operation] = "applying")
      /\ r.step \in {"project", "record"} =>
           /\ r.outcome \in Outcomes
           /\ r.outcome # "rejected_fail_closed" => bundles'[r.operation] = "applied"
  BY <1>1 DEF Sound
<1>3. r.step \in {"ingest", "journal", "done"} \cup Locked => Accepted(r.operation)'
  BY <1>1 DEF Sound
<1>4. r.step = "compact" => r.episode \in Episodes
  BY DEF Sound
<1>5. CASE r.step \in Locked
  <2>1. PICK c : c = Context
    OBVIOUS
  <2>2. Context' = c
    BY <2>1, <1>5 DEF Context, At, Revision
  <2>3. UnitsOf(Context)' = UnitsOf(c) /\ InZone(Context, "hot")' = InZone(c, "hot")
    BY <2>2, RoomNext
  <2>4. ingested' = ingested
    BY <1>5
  <2>5. /\ r.operation \notin DOMAIN ingested
        /\ r.step # "append" => r.operation \in UnitsOf(c)
        /\ r.step = "finish" =>
             Len(InZone(c, "hot"))
               <= HotMax + Cardinality((UnitsOf(c) \ DOMAIN ingested) \ {r.operation})
    BY <2>1, <1>5 DEF Sound, Locked
  <2> QED BY <2>3, <2>4, <2>5, <1>2, <1>3, <1>4, <1>5 DEF Sound, Locked
<1>6. CASE r.step \notin Locked
  BY <1>2, <1>3, <1>4, <1>6 DEF Sound, Locked
<1> QED BY <1>5, <1>6

\* The handlers stay sound when one of them takes a new record.
LEMMA HandlersStay ==
  ASSUME TypesHold, HandlersSound, NEW h \in Handlers, NEW r \in SyncRecords,
         sync' = [sync EXCEPT ![h] = r], Sound(r)',
         \A g \in Handlers \ {h}, q \in SyncRecords : q = sync[g] /\ Sound(q) => Sound(q)',
         \/ /\ journalLock' = journalLock
            /\ r.step \in Locked <=> sync[h].step \in Locked
         \/ journalLock \in {h, None} /\ r.step \in Locked /\ journalLock' = h
         \/ journalLock \in {h, None} /\ r.step \notin Locked /\ journalLock' = None,
         r.step = "leased" =>
           \A g \in Handlers \ {h} : ~(sync[g].step = "leased" /\ sync[g].operation = r.operation)
  PROVE  /\ HandlersSound' /\ journalLock' \in Handlers \cup {None}
         /\ sync' \in [Handlers -> SyncRecords]
<1>1. sync \in [Handlers -> SyncRecords] /\ journalLock \in Handlers \cup {None}
  BY DEF TypesHold
<1>2. sync'[h] = r /\ \A g \in Handlers \ {h} : sync'[g] = sync[g]
  BY <1>1
<1>3. ASSUME NEW g \in Handlers PROVE Sound(sync[g])'
  <2>1. CASE g = h
    <3>1. sync'[g] = r
      BY <2>1, <1>2
    <3> QED BY <3>1 DEF Sound
  <2>2. CASE g # h
    <3>1. PICK q \in SyncRecords : q = sync[g]
      BY <1>1
    <3>2. sync'[g] = q /\ Sound(q)
      BY <2>2, <3>1, <1>2 DEF HandlersSound
    <3>3. Sound(q)'
      BY <2>2, <3>1, <3>2
    <3> QED BY <3>2, <3>3 DEF Sound
  <2> QED BY <2>1, <2>2
<1>4. \A g \in Handlers : journalLock' = g <=> sync'[g].step \in Locked
  BY <1>1, <1>2, NoneAssumption DEF HandlersSound
<1>5. ASSUME NEW f \in Handlers, NEW g \in Handlers,
             sync'[f].step = "leased", sync'[g].step = "leased",
             sync'[f].operation = sync'[g].operation
      PROVE  f = g
  BY <1>2, <1>5 DEF HandlersSound
<1>6. sync' \in [Handlers -> SyncRecords]
  BY <1>1
<1>7. journalLock' \in Handlers \cup {None}
  BY <1>1
<1> QED BY <1>3, <1>4, <1>5, <1>6, <1>7 DEF HandlersSound

\* A step that leaves the databases but the lock alone keeps the invariant.
LEMMA PrivateStep ==
  ASSUME Invariant, NEW h \in Handlers, NEW r \in SyncRecords,
         sync' = [sync EXCEPT ![h] = r], Sound(r), r.step # "leased",
         UNCHANGED <<zoneVars, working, bundles, applications, ingested>>,
         disowned' \in SUBSET Units, awaiting' \in SUBSET Units,
         \/ /\ journalLock' = journalLock
            /\ r.step \in Locked <=> sync[h].step \in Locked
         \/ journalLock \in {h, None} /\ r.step \in Locked /\ journalLock' = h
         \/ journalLock \in {h, None} /\ r.step \notin Locked /\ journalLock' = None
  PROVE  Invariant'
<1>1. /\ snapshots' = snapshots /\ receipts' = receipts /\ working' = working /\ bundles' = bundles
      /\ applications' = applications /\ ingested' = ingested
  BY DEF zoneVars
<1>2. TypesHold /\ HandlersSound
  BY DEF Invariant
<1>3. \A o \in Units : Accepted(o) => Accepted(o)'
  BY <1>1 DEF Accepted
<1>4. Sound(r)'
  BY <1>1, <1>3, SoundStays
<1>5. \A g \in Handlers \ {h}, q \in SyncRecords : q = sync[g] /\ Sound(q) => Sound(q)'
  BY <1>1, <1>3, SoundStays
<1>6. /\ HandlersSound' /\ journalLock' \in Handlers \cup {None}
      /\ sync' \in [Handlers -> SyncRecords]
  BY <1>2, <1>4, <1>5, HandlersStay
<1>7. TypesHold'
  BY <1>1, <1>2, <1>6 DEF TypesHold
<1>8. RoomsOrderly' /\ RevisionsHaveReceipts' /\ AcceptedIsApplied'
  <2>1. RoomsOrderly'
    BY <1>1 DEF Invariant, RoomsOrderly, Revision
  <2>2. RevisionsHaveReceipts'
    BY <1>1 DEF Invariant, RevisionsHaveReceipts, Revision, Seen, At
  <2>3. AcceptedIsApplied'
    BY <1>1 DEF Invariant, AcceptedIsApplied, Accepted
  <2> QED BY <2>1, <2>2, <2>3
<1>9. IngestionIsTrue'
  <2>1. JournalIsTrue'
    BY <1>1 DEF Invariant, IngestionIsTrue, JournalIsTrue, UnitsOf, At, Revision
  <2>2. PICK c : c = Context
    OBVIOUS
  <2>3. Context' = c
    BY <2>2, <1>1 DEF Context, At, Revision
  <2>4. UnitsOf(Context)' = UnitsOf(c) /\ InZone(Context, "hot")' = InZone(c, "hot")
    BY <2>3, RoomNext
  <2>5. HotIsBounded'
    BY <1>1, <2>2, <2>4 DEF Invariant, IngestionIsTrue, HotIsBounded
  <2> QED BY <2>1, <2>5 DEF IngestionIsTrue
<1> QED BY <1>6, <1>7, <1>8, <1>9 DEF Invariant
(***************************************************************************)
(* The steps that only move a handler.                                     *)
(***************************************************************************)
\* What a handler holds.
LEMMA RecordHeld ==
  ASSUME Invariant, NEW h \in Handlers
  PROVE  \E q \in SyncRecords : q = sync[h] /\ Sound(q)
<1>1. sync[h] \in SyncRecords
  BY DEF Invariant, TypesHold
<1>2. PICK q \in SyncRecords : q = sync[h]
  BY <1>1
<1>3. Sound(sync[h])
  BY DEF Invariant, HandlersSound
<1> QED BY <1>2, <1>3

\* A handler's record after a step that changes nothing else of it.
LEMMA RecordMoved ==
  ASSUME NEW q \in SyncRecords, NEW s \in Steps
  PROVE  LET r == [q EXCEPT !.step = s] IN
         /\ r \in SyncRecords /\ r.step = s /\ r.operation = q.operation /\ r.outcome = q.outcome
         /\ r.episode = q.episode
BY DEF SyncRecords

\* An idle handler claims nothing.
LEMMA IdleRecord ==
  /\ IdleHandler \in SyncRecords /\ IdleHandler.step = "idle"
  /\ Sound(IdleHandler)
<1>1. IdleHandler \in SyncRecords /\ IdleHandler.step = "idle"
  BY DEF IdleHandler, SyncRecords, Steps
<1> QED BY <1>1 DEF Sound, Locked

\* Where a handler outside the journal's lock can go.
LEMMA SoundGo ==
  ASSUME NEW q \in SyncRecords, Sound(q), NEW s \in Steps \ Locked, s # "leased", q.step # "idle",
         s \in {"project", "record"} =>
           /\ q.outcome \in Outcomes
           /\ q.outcome # "rejected_fail_closed" => bundles[q.operation] = "applied",
         s \in {"ingest", "journal", "done"} => Accepted(q.operation)
  PROVE  LET r == [q EXCEPT !.step = s] IN
         /\ r \in SyncRecords /\ Sound(r) /\ r.step = s /\ r.operation = q.operation
<1> DEFINE r == [q EXCEPT !.step = s]
<1>1. /\ r \in SyncRecords /\ r.step = s /\ r.operation = q.operation /\ r.outcome = q.outcome
      /\ r.episode = q.episode
  BY RecordMoved
<1>2. q.operation \in Units
  BY DEF Sound
<1>3. s \notin Locked /\ s \notin {"append", "grown", "compact", "finish"}
  BY DEF Locked
<1> HIDE DEF r
<1>4. Sound(r)
  BY <1>1, <1>2, <1>3 DEF Sound
<1> QED BY <1>1, <1>4 DEF r

\* A handler outside the lock goes on, fails or ends.
LEMMA GoStep ==
  ASSUME Invariant, NEW h \in Handlers, NEW s \in Steps \ Locked, s # "leased",
         sync[h].step \notin Locked \cup {"idle"}, Go(h, s),
         s \in {"project", "record"} =>
           /\ sync[h].outcome \in Outcomes
           /\ sync[h].outcome # "rejected_fail_closed" => bundles[Operation(h)] = "applied",
         s \in {"ingest", "journal", "done"} => Accepted(Operation(h)),
         UNCHANGED <<zoneVars, working, bundles, applications, ingested, journalLock>>,
         disowned' \in SUBSET Units, awaiting' \in SUBSET Units
  PROVE  Invariant'
<1>1. PICK q \in SyncRecords : q = sync[h] /\ Sound(q)
  BY RecordHeld
<1>2. PICK r \in SyncRecords : /\ r = [q EXCEPT !.step = s]
                               /\ Sound(r) /\ r.step = s
  BY <1>1, SoundGo DEF Operation
<1>3. sync' = [sync EXCEPT ![h] = r]
  BY <1>1, <1>2 DEF Go, Step
<1> QED BY <1>2, <1>3, PrivateStep

\* A handler starts over.
LEMMA IdleStep ==
  ASSUME Invariant, NEW h \in Handlers, Step(h, IdleHandler),
         UNCHANGED <<zoneVars, working, bundles, applications, ingested>>,
         disowned' \in SUBSET Units, awaiting' \in SUBSET Units,
         \/ journalLock' = journalLock /\ sync[h].step \notin Locked
         \/ journalLock \in {h, None} /\ journalLock' = None
  PROVE  Invariant'
<1>1. PICK r : r = IdleHandler
  OBVIOUS
<1>2. r \in SyncRecords /\ Sound(r) /\ r.step = "idle" /\ "idle" \notin Locked
  BY <1>1, IdleRecord DEF Locked
<1>3. sync' = [sync EXCEPT ![h] = r]
  BY <1>1 DEF Step
<1> QED BY <1>2, <1>3, PrivateStep

\* A sync begins.
LEMMA BeginSyncKeeps ==
  ASSUME Invariant, NEW h \in Handlers, NEW o \in Units, BeginSync(h, o)
  PROVE  Invariant'
<1>1. PICK r : r = [IdleHandler EXCEPT !.step = "bind", !.operation = o]
  OBVIOUS
<1>2. r \in SyncRecords /\ r.step = "bind" /\ r.operation = o
  BY <1>1 DEF IdleHandler, SyncRecords, Steps
<1>3. Sound(r) /\ r.step \notin Locked /\ sync[h].step \notin Locked
  BY <1>2 DEF BeginSync, Doing, Sound, Locked
<1>4. sync' = [sync EXCEPT ![h] = r]
  BY <1>1 DEF BeginSync, Step
<1>5. /\ UNCHANGED <<zoneVars, working, bundles, applications, ingested>>
      /\ disowned' \in SUBSET Units /\ awaiting' \in SUBSET Units /\ journalLock' = journalLock
  BY DEF BeginSync, turnVars, Invariant, TypesHold
<1> QED BY <1>2, <1>3, <1>4, <1>5, PrivateStep

\* What is already in the application journal, or refused by the outbox.
LEMMA ApplyAnswersKeep ==
  ASSUME Invariant, NEW h \in Handlers,
         ApplyReplayed(h) \/ ApplyRefused(h) \/ ApplyReported(h)
  PROVE  Invariant'
<1>1. /\ UNCHANGED <<zoneVars, working, bundles, applications, ingested, journalLock>>
      /\ disowned' \in SUBSET Units /\ awaiting' \in SUBSET Units
  BY DEF ApplyReplayed, ApplyRefused, ApplyReported, turnVars, Invariant, TypesHold
<1>2. sync[h].step = "apply" /\ sync[h].step \notin Locked
  BY DEF ApplyReplayed, ApplyRefused, ApplyReported, Doing, Locked
<1>3. {"failed", "ingest"} \subseteq Steps \ Locked
  BY DEF Steps, Locked
<1>4. CASE ApplyReplayed(h)
  <2>1. PICK s \in {"failed", "ingest"} : Go(h, s) /\ (s = "ingest" => Accepted(Operation(h)))
    BY <1>4 DEF ApplyReplayed, Accepted, Applied
  <2> QED BY <2>1, <1>1, <1>2, <1>3, GoStep
<1>5. CASE ApplyRefused(h)
  <2>1. Go(h, "failed")
    BY <1>5 DEF ApplyRefused
  <2> QED BY <2>1, <1>1, <1>2, <1>3, GoStep
<1>6. CASE ApplyReported(h)
  <2>1. PICK q \in SyncRecords : q = sync[h] /\ Sound(q)
    BY RecordHeld
  <2>2. PICK outcome \in {"rejected_fail_closed", "idempotent_replay"} :
          /\ outcome = "idempotent_replay" => bundles[q.operation] = "applied"
          /\ sync' = [sync EXCEPT ![h] = [q EXCEPT !.step = "project", !.outcome = outcome]]
    BY <1>6, <2>1 DEF ApplyReported, Step, Operation
  <2>3. PICK r : r = [q EXCEPT !.step = "project", !.outcome = outcome]
    OBVIOUS
  <2>4. /\ r \in SyncRecords /\ r.step = "project" /\ r.operation = q.operation
        /\ r.outcome = outcome
    BY <2>3 DEF SyncRecords, Steps, Outcomes
  <2>5. Sound(r) /\ r.step \notin Locked
    BY <1>2, <2>1, <2>2, <2>4 DEF Sound, Locked, Outcomes
  <2> QED BY <1>1, <1>2, <2>2, <2>3, <2>4, <2>5, PrivateStep
<1> QED BY <1>4, <1>5, <1>6

\* The projection of the working set.
LEMMA ProjectionTyped ==
  ASSUME Invariant
  PROVE  Projection \in Bases
BY DEF Invariant, TypesHold, Projection, Bases

\* The projection is read for the application's receipt and for the ingestion.
LEMMA ReadingsKeep ==
  ASSUME Invariant, NEW h \in Handlers, ProjectApplied(h) \/ ReadForIngestion(h)
  PROVE  Invariant'
<1>1. /\ UNCHANGED <<zoneVars, working, bundles, applications, ingested, journalLock>>
      /\ disowned' \in SUBSET Units /\ awaiting' \in SUBSET Units
  BY DEF ProjectApplied, ReadForIngestion, turnVars, Invariant, TypesHold
<1>2. PICK q \in SyncRecords : q = sync[h] /\ Sound(q)
  BY RecordHeld
<1>3. q.step \in {"project", "ingest"} /\ q.step \notin Locked
  BY <1>2 DEF ProjectApplied, ReadForIngestion, Doing, Locked
<1>4. PICK basis \in Bases : basis = Projection
  BY ProjectionTyped
<1>5. \/ Go(h, "failed")
      \/ \E s \in {"record", "journal"} :
           /\ s = "record" => q.step = "project"
           /\ s = "journal" => q.step = "ingest"
           /\ sync' = [sync EXCEPT ![h] = [q EXCEPT !.step = s, !.projection = basis]]
  BY <1>2, <1>4 DEF ProjectApplied, ReadForIngestion, Doing, Step
<1>6. CASE Go(h, "failed")
  <2>1. "failed" \in Steps \ Locked
    BY DEF Steps, Locked
  <2> QED BY <2>1, <1>1, <1>2, <1>3, <1>6, GoStep
<1>7. ASSUME NEW s \in {"record", "journal"},
             s = "record" => q.step = "project",
             s = "journal" => q.step = "ingest",
             sync' = [sync EXCEPT ![h] = [q EXCEPT !.step = s, !.projection = basis]]
      PROVE  Invariant'
  <2>1. PICK r : r = [q EXCEPT !.step = s, !.projection = basis]
    OBVIOUS
  <2>2. /\ r \in SyncRecords /\ r.step = s /\ r.operation = q.operation
        /\ r.outcome = q.outcome
    BY <2>1 DEF SyncRecords, Steps
  <2>3. Sound(r) /\ r.step \notin Locked
    BY <1>2, <1>3, <1>7, <2>2 DEF Sound, Locked
  <2> QED BY <1>1, <1>2, <1>3, <1>7, <2>1, <2>2, <2>3, PrivateStep
<1> QED BY <1>5, <1>6, <1>7

\* The ingestion journal answers from its entry, or is busy.
LEMMA JournalAnswersKeep ==
  ASSUME Invariant, NEW h \in Handlers, IngestionReplayed(h) \/ JournalBusy(h)
  PROVE  Invariant'
<1>1. /\ UNCHANGED <<zoneVars, working, bundles, applications, ingested, journalLock>>
      /\ disowned' \in SUBSET Units /\ awaiting' \in SUBSET Units
  BY DEF IngestionReplayed, JournalBusy, turnVars, Invariant, TypesHold
<1>2. sync[h].step = "journal" /\ sync[h].step \notin Locked
  BY DEF IngestionReplayed, JournalBusy, Doing, Locked
<1>3. Accepted(Operation(h))
  BY <1>2 DEF Invariant, HandlersSound, Sound, Operation
<1>4. PICK s \in {"done", "failed"} : Go(h, s)
  BY DEF IngestionReplayed, JournalBusy
<1>5. {"done", "failed"} \subseteq Steps \ Locked
  BY DEF Steps, Locked
<1> QED BY <1>1, <1>2, <1>3, <1>4, <1>5, GoStep

\* The attempt takes its unit, or has one already.
LEMMA EndSyncKeeps ==
  ASSUME Invariant, NEW h \in Handlers, EndSync(h)
  PROVE  Invariant'
<1>1. /\ UNCHANGED <<zoneVars, working, bundles, applications, ingested, journalLock>>
      /\ disowned' \in SUBSET Units /\ awaiting' \in SUBSET Units
  BY DEF EndSync, Invariant, TypesHold
<1>2. sync[h].step = "done" /\ sync[h].step \notin Locked
  BY DEF EndSync, Doing, Locked
<1>3. CASE Go(h, "failed")
  <2>1. "failed" \in Steps \ Locked
    BY DEF Steps, Locked
  <2> QED BY <2>1, <1>1, <1>2, <1>3, GoStep
<1>4. CASE Step(h, IdleHandler)
  BY <1>1, <1>2, <1>4, IdleStep
<1> QED BY <1>3, <1>4 DEF EndSync

\* A failed sync disowns the operation, or stops before it.
LEMMA FailSyncKeeps ==
  ASSUME Invariant, NEW h \in Handlers, FailSync(h)
  PROVE  Invariant'
<1>1. /\ UNCHANGED <<zoneVars, working, bundles, applications, ingested, journalLock>>
      /\ awaiting' \in SUBSET Units
  BY DEF FailSync, turnVars, Invariant, TypesHold
<1>2. sync[h].step = "failed" /\ sync[h].step \notin Locked
  BY DEF FailSync, Doing, Locked
<1>3. disowned' \in SUBSET Units
  <2>1. Operation(h) \in Units /\ disowned \in SUBSET Units
    BY <1>2 DEF Invariant, TypesHold, HandlersSound, Sound, Operation
  <2> QED BY <2>1 DEF FailSync
<1>4. Step(h, IdleHandler)
  BY DEF FailSync
<1> QED BY <1>1, <1>2, <1>3, <1>4, IdleStep

\* A handler that stops gives up its lock.
LEMMA CrashSyncKeeps ==
  ASSUME Invariant, NEW h \in Handlers, CrashSync(h)
  PROVE  Invariant'
<1>1. /\ UNCHANGED <<zoneVars, working, bundles, applications, ingested>>
      /\ disowned' \in SUBSET Units /\ awaiting' \in SUBSET Units /\ Step(h, IdleHandler)
  BY DEF CrashSync, turnVars, Invariant, TypesHold
<1>2. CASE journalLock = h
  BY <1>1, <1>2, IdleStep DEF CrashSync
<1>3. CASE journalLock # h
  <2>1. journalLock' = journalLock /\ sync[h].step \notin Locked
    BY <1>3 DEF CrashSync, Invariant, HandlersSound
  <2> QED BY <1>1, <2>1, IdleStep
<1> QED BY <1>2, <1>3

\* The journal is locked before the room is read.
LEMMA LockJournalKeeps ==
  ASSUME Invariant, NEW h \in Handlers, LockJournal(h)
  PROVE  Invariant'
<1>1. /\ UNCHANGED <<zoneVars, working, bundles, applications, ingested>>
      /\ disowned' \in SUBSET Units /\ awaiting' \in SUBSET Units
      /\ journalLock = None /\ journalLock' = h
  BY DEF LockJournal, turnVars, Invariant, TypesHold
<1>2. PICK q \in SyncRecords : q = sync[h] /\ Sound(q)
  BY RecordHeld
<1>3. q.step = "journal" /\ q.operation \notin DOMAIN ingested
  BY <1>2 DEF LockJournal, Doing, Operation
<1>4. PICK x \in [revision : Nat, snapshot : Contexts] : x = Seen(Revision)
  <2>1. PICK c \in Contexts : c = Context /\ Revision \in Nat
    BY RoomNow DEF Invariant
  <2> QED BY <2>1 DEF Seen, Context
<1>5. PICK s \in {"grown", "append"} :
        /\ s = "grown" => q.operation \in UnitsOf(Context)
        /\ sync' = [sync EXCEPT ![h] = [q EXCEPT !.expected = x, !.step = s]]
  BY <1>2, <1>4 DEF LockJournal, Step, Operation
<1>6. PICK r : r = [q EXCEPT !.expected = x, !.step = s]
  OBVIOUS
<1>7. r \in SyncRecords /\ r.step = s /\ r.operation = q.operation /\ r.step \in Locked
  BY <1>6 DEF SyncRecords, Steps, Locked
<1>8. Sound(r)
  BY <1>2, <1>3, <1>5, <1>7 DEF Sound, Locked
<1> QED BY <1>1, <1>5, <1>6, <1>7, <1>8, PrivateStep

\* The plan takes the oldest hot units, of which there are enough.
LEMMA PlannedEpisode ==
  ASSUME Invariant, TooHot(Context)
  PROVE  Episode(Context) \in Episodes
<1>1. PICK c \in Contexts : c = Context /\ Orderly(c)
  BY RoomNow DEF Invariant
<1>2. PICK p \in 0..Len(c.units) :
        /\ Len(InZone(c, "hot")) = Len(c.units) - p
        /\ \A n \in 1..(Len(c.units) - p) : InZone(c, "hot")[n] = c.units[p + n]
  BY <1>1, HotUnits
<1>3. c.units \in Seq(UnitRows) /\ Len(c.units) \in Nat
  BY DEF Contexts
<1>4. Batch \in Nat /\ Batch <= Len(c.units) - p
  BY <1>1, <1>2, <1>3, PolicyAssumption DEF TooHot
<1>5. \A i \in 1..Batch : InZone(c, "hot")[i].unit \in Units
  <2> SUFFICES ASSUME NEW i \in 1..Batch PROVE InZone(c, "hot")[i].unit \in Units
    OBVIOUS
  <2>1. i \in 1..(Len(c.units) - p) /\ p + i \in 1..Len(c.units)
    BY <1>3, <1>4
  <2>2. InZone(c, "hot")[i] = c.units[p + i]
    BY <2>1, <1>2
  <2>3. c.units[p + i] \in UnitRows
    BY <2>1, <1>3
  <2> QED BY <2>2, <2>3 DEF UnitRows
<1>6. OldestHot(c, Batch) \in Seq(Units)
  BY <1>4, <1>5 DEF OldestHot
<1>7. Projection \in Bases
  BY ProjectionTyped
<1> QED BY <1>1, <1>6, <1>7 DEF Episode, Episodes

\* The lock's holder finds the room small enough, plans an episode or fails.
LEMMA PlanCompactionKeeps ==
  ASSUME Invariant, NEW h \in Handlers, PlanCompaction(h)
  PROVE  Invariant'
<1>1. /\ UNCHANGED <<zoneVars, working, bundles, applications, ingested>>
      /\ disowned' \in SUBSET Units /\ awaiting' \in SUBSET Units
  BY DEF PlanCompaction, turnVars, Invariant, TypesHold
<1>2. PICK q \in SyncRecords : q = sync[h] /\ Sound(q)
  BY RecordHeld
<1>3. q.step = "grown" /\ q.step \in Locked /\ journalLock = h
  BY <1>2 DEF PlanCompaction, Doing, Locked, Invariant, HandlersSound
<1>4. PICK c \in Contexts : /\ c = Context /\ IsFiniteSet(UnitsOf(c))
                            /\ Len(InZone(c, "hot")) \in Nat /\ Revision \in Nat
  BY RoomNow DEF Invariant
<1>5. PICK x \in [revision : Nat, snapshot : Contexts] : x = Seen(Revision)
  BY <1>4 DEF Seen, Context
<1>6. CASE ~TooHot(Context)
  <2>1. /\ sync' = [sync EXCEPT ![h] = [q EXCEPT !.step = "finish", !.expected = x]]
        /\ journalLock' = journalLock
    BY <1>2, <1>5, <1>6 DEF PlanCompaction, Step
  <2>2. PICK r : r = [q EXCEPT !.step = "finish", !.expected = x]
    OBVIOUS
  <2>3. r \in SyncRecords /\ r.step = "finish" /\ r.operation = q.operation /\ r.step \in Locked
    BY <2>2 DEF SyncRecords, Steps, Locked
  <2>4. Cardinality((UnitsOf(c) \ DOMAIN ingested) \ {q.operation}) \in Nat
    <3>1. IsFiniteSet((UnitsOf(c) \ DOMAIN ingested) \ {q.operation})
      BY <1>4, FS_Subset
    <3> QED BY <3>1, FS_CardinalityType
  <2>5. Len(InZone(c, "hot")) <= HotMax
    BY <1>4, <1>6, PolicyAssumption DEF TooHot
  <2>6. Len(InZone(c, "hot"))
          <= HotMax + Cardinality((UnitsOf(c) \ DOMAIN ingested) \ {q.operation})
    BY <1>4, <2>4, <2>5, PolicyAssumption
  <2>7. Sound(r)
    BY <1>2, <1>3, <1>4, <2>3, <2>6 DEF Sound, Locked
  <2> QED BY <1>1, <1>2, <1>3, <2>1, <2>2, <2>3, <2>7, PrivateStep
<1>7. CASE TooHot(Context) /\ Readable
  <2>1. PICK episode \in Episodes : episode = Episode(Context)
    BY <1>7, PlannedEpisode
  <2>2. /\ sync' = [sync EXCEPT ![h] =
                      [q EXCEPT !.step = "compact", !.expected = x, !.episode = episode]]
        /\ journalLock' = journalLock
    BY <1>2, <1>5, <1>7, <2>1 DEF PlanCompaction, Step
  <2>3. PICK r : r = [q EXCEPT !.step = "compact", !.expected = x, !.episode = episode]
    OBVIOUS
  <2>4. /\ r \in SyncRecords /\ r.step = "compact" /\ r.operation = q.operation
        /\ r.episode = episode /\ r.step \in Locked
    BY <2>3 DEF SyncRecords, Steps, Locked
  <2>5. Sound(r)
    BY <1>2, <1>3, <2>4 DEF Sound, Locked
  <2> QED BY <1>1, <1>2, <1>3, <2>2, <2>3, <2>4, <2>5, PrivateStep
<1>8. CASE TooHot(Context) /\ ~Readable
  <2>1. /\ sync' = [sync EXCEPT ![h] = [q EXCEPT !.step = "failed"]]
        /\ journalLock' = None
    BY <1>2, <1>8 DEF PlanCompaction, Go, Step
  <2>2. PICK r : r = [q EXCEPT !.step = "failed"]
    OBVIOUS
  <2>3. r \in SyncRecords /\ r.step = "failed" /\ r.operation = q.operation
    BY <2>2 DEF SyncRecords, Steps
  <2>4. Sound(r) /\ r.step \notin Locked
    BY <1>2, <1>3, <2>3 DEF Sound, Locked
  <2> QED BY <1>1, <1>3, <2>1, <2>2, <2>3, <2>4, PrivateStep
<1> QED BY <1>6, <1>7, <1>8
(***************************************************************************)
(* The steps on the outbox and the application journal.                    *)
(***************************************************************************)
\* A step that takes back no applied bundle and no acceptance keeps the invariant.
LEMMA ApplicationStep ==
  ASSUME Invariant, NEW h \in Handlers, NEW r \in SyncRecords,
         sync' = [sync EXCEPT ![h] = r], Sound(r)',
         r.step \notin Locked, sync[h].step \notin Locked,
         UNCHANGED <<zoneVars, ingested, journalLock>>,
         working' \in [writes : Nat, due : BOOLEAN, upkeep : Nat],
         bundles' \in [Units -> BundleStates],
         disowned' \in SUBSET Units, awaiting' \in SUBSET Units,
         \A o \in Units : bundles[o] = "applied" => bundles'[o] = "applied",
         \A o \in Units : Accepted(o) => Accepted(o)',
         \A o \in Units : Accepted(o)' => bundles'[o] = "applied",
         \A g \in Handlers \ {h} : sync[g].step = "leased" =>
            /\ bundles'[sync[g].operation] = bundles[sync[g].operation]
            /\ r.step = "leased" => sync[g].operation # r.operation
  PROVE  Invariant'
<1>1. /\ snapshots' = snapshots /\ receipts' = receipts /\ ingested' = ingested
      /\ journalLock' = journalLock
  BY DEF zoneVars
<1>2. TypesHold /\ HandlersSound
  BY DEF Invariant
<1>3. ASSUME NEW g \in Handlers \ {h}, NEW q \in SyncRecords, q = sync[g], Sound(q) PROVE Sound(q)'
  <2>1. q.step = "leased" => bundles'[q.operation] = bundles[q.operation]
    BY <1>3
  <2> QED BY <2>1, <1>1, <1>3, SoundStays
<1>4. /\ HandlersSound' /\ journalLock' \in Handlers \cup {None}
      /\ sync' \in [Handlers -> SyncRecords]
  BY <1>1, <1>2, <1>3, HandlersStay
<1>5. TypesHold'
  BY <1>1, <1>2, <1>4 DEF TypesHold
<1>6. RoomsOrderly' /\ RevisionsHaveReceipts'
  <2>1. RoomsOrderly'
    BY <1>1 DEF Invariant, RoomsOrderly, Revision
  <2>2. RevisionsHaveReceipts'
    BY <1>1 DEF Invariant, RevisionsHaveReceipts, Revision, Seen, At
  <2> QED BY <2>1, <2>2
<1>7. AcceptedIsApplied'
  BY DEF AcceptedIsApplied
<1>8. JournalIsTrue'
  <2> SUFFICES ASSUME NEW o \in DOMAIN ingested
               PROVE  /\ bundles'[o] = "applied" /\ Accepted(o)'
                      /\ ingested[o].successor \in 1..Revision'
                      /\ o \in UnitsOf(At(ingested[o].successor))'
    BY <1>1 DEF JournalIsTrue, Accepted
  <2>1. /\ o \in Units /\ bundles[o] = "applied" /\ Accepted(o)
        /\ ingested[o].successor \in 1..Revision
        /\ o \in UnitsOf(At(ingested[o].successor))
    BY <1>2 DEF Invariant, TypesHold, IngestionIsTrue, JournalIsTrue, Accepted
  <2>2. o \in UnitsOf(At(ingested[o].successor))'
    BY <1>1, <2>1 DEF UnitsOf, At
  <2> QED BY <2>1, <2>2, <1>1 DEF Revision
<1>9. HotIsBounded'
  <2>1. PICK c : c = Context
    OBVIOUS
  <2>2. Context' = c
    BY <2>1, <1>1 DEF Context, At, Revision
  <2>3. UnitsOf(Context)' = UnitsOf(c) /\ InZone(Context, "hot")' = InZone(c, "hot")
    BY <2>2, RoomNext
  <2> QED BY <1>1, <2>1, <2>3 DEF Invariant, IngestionIsTrue, HotIsBounded
<1> QED BY <1>4, <1>5, <1>6, <1>7, <1>8, <1>9 DEF Invariant, IngestionIsTrue

\* The two steps before a bundle is applied.
LEMMA LeasingKeeps ==
  ASSUME Invariant, NEW h \in Handlers, BindUnit(h) \/ AcquireLease(h)
  PROVE  Invariant'
<1>1. /\ UNCHANGED <<zoneVars, ingested, journalLock>>
      /\ applications' = applications /\ working' = working
      /\ working \in [writes : Nat, due : BOOLEAN, upkeep : Nat]
      /\ disowned' \in SUBSET Units /\ awaiting' \in SUBSET Units
  BY DEF BindUnit, AcquireLease, turnVars, Invariant, TypesHold
<1>2. PICK q \in SyncRecords : q = sync[h] /\ Sound(q)
  BY RecordHeld
<1>3. q.step \in {"bind", "apply"} /\ q.step \notin Locked /\ q.operation \in Units
  BY <1>2 DEF BindUnit, AcquireLease, Doing, Locked, Sound
<1>4. bundles \in [Units -> BundleStates]
  BY DEF Invariant, TypesHold
<1>5. PICK s \in {"apply", "leased"}, state \in BundleStates :
        /\ sync' = [sync EXCEPT ![h] = [q EXCEPT !.step = s]]
        /\ bundles' = [bundles EXCEPT ![q.operation] = state]
        /\ state # bundles[q.operation] => bundles[q.operation] \notin {"applying", "applied"}
        /\ s = "leased" => state = "applying" /\ bundles[q.operation] = "ready_to_apply"
  <2>1. CASE BindUnit(h)
    <3> DEFINE state == IF bundles[q.operation] = "prepared_waiting_visible"
                        THEN "ready_to_apply" ELSE bundles[q.operation]
    <3>1. /\ sync' = [sync EXCEPT ![h] = [q EXCEPT !.step = "apply"]]
          /\ bundles' = [bundles EXCEPT ![q.operation] = state]
      BY <2>1, <1>2 DEF BindUnit, Go, Step, Operation
    <3>2. state \in BundleStates
      BY <1>3, <1>4 DEF BundleStates
    <3> QED BY <3>1, <3>2
  <2>2. CASE AcquireLease(h)
    <3>1. /\ sync' = [sync EXCEPT ![h] = [q EXCEPT !.step = "leased"]]
          /\ bundles' = [bundles EXCEPT ![q.operation] = "applying"]
          /\ bundles[q.operation] = "ready_to_apply"
      BY <2>2, <1>2 DEF AcquireLease, Go, Step, Operation
    <3>2. "applying" \in BundleStates
      BY DEF BundleStates
    <3> QED BY <3>1, <3>2
  <2> QED BY <2>1, <2>2
<1>6. PICK r : r = [q EXCEPT !.step = s]
  OBVIOUS
<1>7. r \in SyncRecords /\ r.step = s /\ r.operation = q.operation /\ r.step \notin Locked
  <2>1. s \in Steps /\ s \notin Locked
    BY DEF Steps, Locked
  <2> QED BY <2>1, <1>6, RecordMoved
<1>8. /\ bundles' \in [Units -> BundleStates]
      /\ \A o \in Units : bundles[o] \in {"applying", "applied"} => bundles'[o] = bundles[o]
      /\ bundles'[q.operation] = state
  BY <1>3, <1>4, <1>5
<1>9. Sound(r)'
  BY <1>3, <1>5, <1>7, <1>8 DEF Sound, Locked
<1>10. \A o \in Units : /\ Accepted(o) <=> Accepted(o)'
                        /\ Accepted(o) => bundles[o] = "applied"
  BY <1>1 DEF Accepted, Invariant, AcceptedIsApplied
<1>11. \A g \in Handlers \ {h} : sync[g].step = "leased" =>
         /\ bundles'[sync[g].operation] = bundles[sync[g].operation]
         /\ r.step = "leased" => sync[g].operation # r.operation
  <2> SUFFICES ASSUME NEW g \in Handlers \ {h}, sync[g].step = "leased"
               PROVE  /\ bundles'[sync[g].operation] = bundles[sync[g].operation]
                      /\ r.step = "leased" => sync[g].operation # r.operation
    OBVIOUS
  <2>1. sync[g].operation \in Units /\ bundles[sync[g].operation] = "applying"
    BY DEF Invariant, HandlersSound, Sound
  <2> QED BY <2>1, <1>5, <1>7, <1>8
<1>12. \A o \in Units : bundles[o] = "applied" => bundles'[o] = "applied"
  BY <1>8
<1>13. sync' = [sync EXCEPT ![h] = r] /\ sync[h].step \notin Locked
  BY <1>2, <1>3, <1>5, <1>6
<1>14. \A o \in Units : Accepted(o) => Accepted(o)'
  BY <1>10
<1>15. \A o \in Units : Accepted(o)' => bundles'[o] = "applied"
  BY <1>10, <1>12
<1>16. working' \in [writes : Nat, due : BOOLEAN, upkeep : Nat]
  BY <1>1
<1> QED BY <1>1, <1>7, <1>8, <1>9, <1>11, <1>12, <1>13, <1>14, <1>15, <1>16, ApplicationStep

\* The handler that leased a bundle is the only one to apply it.
LEMMA ApplyBundleKeeps ==
  ASSUME Invariant, NEW h \in Handlers, ApplyBundle(h)
  PROVE  Invariant'
<1>1. /\ UNCHANGED <<zoneVars, ingested, journalLock>> /\ applications' = applications
      /\ disowned' \in SUBSET Units /\ awaiting' \in SUBSET Units
  BY DEF ApplyBundle, turnVars, Invariant, TypesHold
<1>2. PICK q \in SyncRecords : q = sync[h] /\ Sound(q)
  BY RecordHeld
<1>3. /\ q.step = "leased" /\ q.step \notin Locked /\ q.operation \in Units
      /\ bundles[q.operation] = "applying"
  BY <1>2 DEF ApplyBundle, Doing, Locked, Sound
<1>4. bundles \in [Units -> BundleStates] /\ working \in [writes : Nat, due : BOOLEAN, upkeep : Nat]
  BY DEF Invariant, TypesHold
<1>5. PICK outcome \in Outcomes, state \in BundleStates :
        /\ sync' = [sync EXCEPT ![h] = [q EXCEPT !.step = "project", !.outcome = outcome]]
        /\ bundles' = [bundles EXCEPT ![q.operation] = state]
        /\ outcome # "rejected_fail_closed" => state = "applied"
        /\ working' \in {working, [working EXCEPT !.writes = @ + 1]}
  BY <1>2 DEF ApplyBundle, Step, Operation, Outcomes, BundleStates
<1>6. PICK r : r = [q EXCEPT !.step = "project", !.outcome = outcome]
  OBVIOUS
<1>7. /\ r \in SyncRecords /\ r.step = "project" /\ r.operation = q.operation
      /\ r.outcome = outcome /\ r.step \notin Locked
  BY <1>6 DEF SyncRecords, Steps, Locked
<1>8. /\ bundles' \in [Units -> BundleStates]
      /\ \A o \in Units \ {q.operation} : bundles'[o] = bundles[o]
      /\ bundles'[q.operation] = state
  BY <1>3, <1>4, <1>5
<1>9. Sound(r)'
  BY <1>3, <1>5, <1>7, <1>8 DEF Sound, Locked
<1>10. \A o \in Units : /\ Accepted(o) <=> Accepted(o)'
                        /\ Accepted(o) => bundles[o] = "applied"
  BY <1>1 DEF Accepted, Invariant, AcceptedIsApplied
<1>11. \A o \in Units : bundles[o] = "applied" => bundles'[o] = "applied"
  BY <1>3, <1>8
<1>12. \A g \in Handlers \ {h} : sync[g].step = "leased" =>
         bundles'[sync[g].operation] = bundles[sync[g].operation]
  <2> SUFFICES ASSUME NEW g \in Handlers \ {h}, sync[g].step = "leased"
               PROVE  bundles'[sync[g].operation] = bundles[sync[g].operation]
    OBVIOUS
  <2>1. sync[g].operation \in Units
    BY DEF Invariant, HandlersSound, Sound
  <2>2. sync[g].operation # q.operation
    BY <1>2, <1>3 DEF Invariant, HandlersSound
  <2> QED BY <2>1, <2>2, <1>8
<1>13. working' \in [writes : Nat, due : BOOLEAN, upkeep : Nat]
  <2>1. [working EXCEPT !.writes = @ + 1] \in [writes : Nat, due : BOOLEAN, upkeep : Nat]
    BY <1>4
  <2> QED BY <2>1, <1>4, <1>5
<1>14. sync' = [sync EXCEPT ![h] = r] /\ sync[h].step \notin Locked
  BY <1>2, <1>3, <1>5, <1>6
<1>15. \A o \in Units : Accepted(o) => Accepted(o)'
  BY <1>10
<1>16. \A o \in Units : Accepted(o)' => bundles'[o] = "applied"
  BY <1>10, <1>11
<1>17. \A g \in Handlers \ {h} : sync[g].step = "leased" =>
         /\ bundles'[sync[g].operation] = bundles[sync[g].operation]
         /\ r.step = "leased" => sync[g].operation # r.operation
  BY <1>7, <1>12
<1> QED BY <1>1, <1>7, <1>8, <1>9, <1>11, <1>13, <1>14, <1>15, <1>16, <1>17, ApplicationStep

\* A receipt is written once, and an acceptance is of an applied bundle.
LEMMA RecordApplicationKeeps ==
  ASSUME Invariant, NEW h \in Handlers, RecordApplication(h)
  PROVE  Invariant'
<1>1. /\ UNCHANGED <<zoneVars, working, bundles, ingested, journalLock>>
      /\ disowned' \in SUBSET Units /\ awaiting' \in SUBSET Units
      /\ bundles \in [Units -> BundleStates]
      /\ working \in [writes : Nat, due : BOOLEAN, upkeep : Nat]
  BY DEF RecordApplication, turnVars, Invariant, TypesHold
<1>2. PICK q \in SyncRecords : q = sync[h] /\ Sound(q)
  BY RecordHeld
<1>3. /\ q.step = "record" /\ q.step \notin Locked /\ q.operation \in Units
      /\ q.outcome # "rejected_fail_closed" => bundles[q.operation] = "applied"
  BY <1>2 DEF RecordApplication, Doing, Locked, Sound
<1>4. PICK o \in Units : o = q.operation
  BY <1>3
<1>5. PICK R : R = ApplicationReceipt(h) /\ R.outcome = q.outcome
  <2>1. ApplicationReceipt(h).outcome = q.outcome
    BY <1>2 DEF ApplicationReceipt
  <2> QED BY <2>1
<1>6. PICK s \in {"ingest", "failed"} :
        /\ sync' = [sync EXCEPT ![h] = [q EXCEPT !.step = s]]
        /\ \/ o \in DOMAIN applications /\ applications' = applications
           \/ /\ o \notin DOMAIN applications
              /\ applications' = [x \in DOMAIN applications \cup {o} |->
                                    IF x = o THEN R ELSE applications[x]]
        /\ s = "ingest" => o \in DOMAIN applications' /\ applications'[o] = R
                           /\ R.outcome # "rejected_fail_closed"
  BY <1>2, <1>4, <1>5 DEF RecordApplication, Go, Step, Operation
<1>7. /\ \A x \in DOMAIN applications :
           x \in DOMAIN applications' /\ applications'[x] = applications[x]
      /\ \A x \in DOMAIN applications' : x \in DOMAIN applications \/ x = o
      /\ o \notin DOMAIN applications => applications'[o] = R
  BY <1>6
<1>8. \A x \in Units : Accepted(x) => Accepted(x)'
  BY <1>7 DEF Accepted
<1>9. \A x \in Units : Accepted(x)' => bundles'[x] = "applied"
  <2> SUFFICES ASSUME NEW x \in Units, Accepted(x)' PROVE bundles[x] = "applied"
    BY <1>1
  <2>1. CASE x \in DOMAIN applications
    <3>1. Accepted(x)
      BY <2>1, <1>7 DEF Accepted
    <3> QED BY <3>1 DEF Invariant, AcceptedIsApplied
  <2>2. CASE x \notin DOMAIN applications
    <3>1. x = o /\ R.outcome # "rejected_fail_closed"
      BY <2>2, <1>7 DEF Accepted
    <3> QED BY <3>1, <1>3, <1>4, <1>5
  <2> QED BY <2>1, <2>2
<1>10. PICK r : r = [q EXCEPT !.step = s]
  OBVIOUS
<1>11. r \in SyncRecords /\ r.step = s /\ r.operation = o /\ r.step \notin Locked
  <2>1. s \in Steps /\ s \notin Locked
    BY DEF Steps, Locked
  <2> QED BY <2>1, <1>4, <1>10, RecordMoved
<1>12. s = "ingest" => Accepted(o)'
  BY <1>6 DEF Accepted
<1>13. Sound(r)'
  BY <1>11, <1>12 DEF Sound, Locked
<1>14. sync' = [sync EXCEPT ![h] = r] /\ sync[h].step \notin Locked
  BY <1>2, <1>3, <1>6, <1>10
<1>15. r.step # "leased" /\ bundles' = bundles /\ working' = working
  BY <1>1, <1>11
<1> QED BY <1>1, <1>8, <1>9, <1>11, <1>13, <1>14, <1>15, ApplicationStep

\* What the databases but the working set decide.
LEMMA RoomUnmoved ==
  ASSUME Invariant,
         snapshots' = snapshots, RevisionsHaveReceipts', bundles' = bundles,
         applications' = applications, ingested' = ingested, journalLock' = journalLock,
         sync' = sync, disowned' = disowned, awaiting' = awaiting,
         working' \in [writes : Nat, due : BOOLEAN, upkeep : Nat]
  PROVE  Invariant'
<1>1. PICK c : c = Context
  OBVIOUS
<1>2. Context' = c
  BY <1>1 DEF Context, At, Revision
<1>3. UnitsOf(Context)' = UnitsOf(c) /\ InZone(Context, "hot")' = InZone(c, "hot")
  BY <1>2, RoomNext
<1>4. TypesHold'
  BY DEF Invariant, TypesHold
<1>5. RoomsOrderly' /\ AcceptedIsApplied'
  BY DEF Invariant, RoomsOrderly, AcceptedIsApplied, Accepted, Revision
<1>6. \A h \in Handlers : Sound(sync[h])'
  <2>1. \A h \in Handlers : Sound(sync[h])
    BY DEF Invariant, HandlersSound
  <2> QED BY <2>1, <1>1, <1>3 DEF Sound, Accepted
<1>7. HandlersSound'
  BY <1>6 DEF Invariant, HandlersSound
<1>8. JournalIsTrue'
  BY DEF Invariant, IngestionIsTrue, JournalIsTrue, UnitsOf, At, Revision
<1>9. HotIsBounded'
  BY <1>1, <1>3 DEF Invariant, IngestionIsTrue, HotIsBounded
<1> QED BY <1>4, <1>5, <1>7, <1>8, <1>9 DEF Invariant, IngestionIsTrue

\* And where the receipts stay as they are.
LEMMA Unmoved ==
  ASSUME Invariant,
         snapshots' = snapshots, receipts' = receipts, bundles' = bundles,
         applications' = applications, ingested' = ingested, journalLock' = journalLock,
         sync' = sync, disowned' = disowned, awaiting' = awaiting,
         working' \in [writes : Nat, due : BOOLEAN, upkeep : Nat]
  PROVE  Invariant'
<1>1. RevisionsHaveReceipts'
  BY DEF Invariant, RevisionsHaveReceipts, Revision, Seen, At
<1> QED BY <1>1, RoomUnmoved

\* Time and other operations.
LEMMA UpkeepKeeps ==
  ASSUME Invariant, UpkeepNext
  PROVE  Invariant'
<1>1. /\ snapshots' = snapshots /\ receipts' = receipts /\ bundles' = bundles
      /\ applications' = applications /\ ingested' = ingested /\ journalLock' = journalLock
      /\ sync' = sync /\ disowned' = disowned /\ awaiting' = awaiting
  BY DEF UpkeepNext, ItemComesDue, ItemCleanedUp, zoneVars, turnVars
<1>2. working' \in [writes : Nat, due : BOOLEAN, upkeep : Nat]
  <2>1. working \in [writes : Nat, due : BOOLEAN, upkeep : Nat]
    BY DEF Invariant, TypesHold
  <2>2. CASE working' = [working EXCEPT !.due = TRUE]
    BY <2>1, <2>2
  <2>3. CASE working' = [working EXCEPT !.due = FALSE, !.upkeep = @ + 1]
    <3>1. PICK n \in Nat : n = working.upkeep + 1
      BY <2>1
    <3>2. working' = [working EXCEPT !.due = FALSE, !.upkeep = n]
      BY <2>3, <3>1
    <3> QED BY <2>1, <3>2
  <2> QED BY <2>2, <2>3 DEF UpkeepNext, ItemComesDue, ItemCleanedUp
<1> QED BY <1>1, <1>2, Unmoved
(***************************************************************************)
(* The steps on the room and its journal.                                  *)
(***************************************************************************)
\* A write to the room by the handler that holds the journal's lock.
LEMMA RoomStep ==
  ASSUME Invariant, NEW h \in Handlers, NEW r \in SyncRecords,
         sync' = [sync EXCEPT ![h] = r], sync[h].step \in Locked, r.step \in Locked, Sound(r)',
         NEW d \in Contexts, Orderly(d), NEW attempt, NEW request,
         Fresh(attempt), Current(request), snapshots' = Append(snapshots, d),
         WriteReceipt(attempt, request, "committed", Revision + 1),
         UNCHANGED <<working, bundles, disowned, applications, ingested, journalLock, turnVars>>,
         Len(InZone(d, "hot")) <= HotMax + Cardinality(UnitsOf(d) \ DOMAIN ingested)
  PROVE  Invariant'
<1>1. /\ working' = working /\ bundles' = bundles /\ disowned' = disowned
      /\ applications' = applications /\ ingested' = ingested /\ journalLock' = journalLock
      /\ awaiting' = awaiting
  BY DEF turnVars
<1>2. TypesHold /\ HandlersSound
  BY DEF Invariant
<1>3. /\ snapshots' \in Seq(Contexts)
      /\ Revision' = Revision + 1 /\ Context' = d /\ Revision \in Nat
      /\ \A x \in 0..Revision : At(x)' = At(x)
      /\ \A x \in 1..Revision : snapshots'[x] = snapshots[x]
      /\ snapshots'[Revision + 1] = d
  BY <1>2, RoomWritten DEF TypesHold, Revision
<1>4. ASSUME NEW g \in Handlers \ {h}, NEW q \in SyncRecords, q = sync[g], Sound(q) PROVE Sound(q)'
  <2>1. q.step \notin Locked
    BY <1>4 DEF Invariant, HandlersSound
  <2>2. \A o \in Units : Accepted(o) => Accepted(o)'
    BY <1>1 DEF Accepted
  <2> QED BY <2>1, <2>2, <1>1, <1>4, SoundStays
<1>5. r.step # "leased"
  BY DEF Locked
<1>6. /\ HandlersSound' /\ journalLock' \in Handlers \cup {None}
      /\ sync' \in [Handlers -> SyncRecords]
  BY <1>1, <1>2, <1>4, <1>5, HandlersStay
<1>7. TypesHold'
  BY <1>1, <1>2, <1>3, <1>6 DEF TypesHold
<1>8. RoomsOrderly'
  <2>1. \A x \in 1..(Revision + 1) : Orderly(snapshots'[x])
    <3>1. \A x \in 1..(Revision + 1) : x \in 1..Revision \/ x = Revision + 1
      BY <1>3
    <3>2. \A x \in 1..Revision : Orderly(snapshots[x])
      BY DEF Invariant, RoomsOrderly
    <3> QED BY <3>1, <3>2, <1>3
  <2> QED BY <2>1, <1>3 DEF RoomsOrderly, Orderly, Distinct, Aging, Grouped
<1>9. RevisionsHaveReceipts'
  BY ReceiptWritten DEF Invariant
<1>10. AcceptedIsApplied'
  BY <1>1 DEF Invariant, AcceptedIsApplied, Accepted
<1>11. JournalIsTrue'
  <2> SUFFICES ASSUME NEW o \in DOMAIN ingested
               PROVE  /\ bundles[o] = "applied" /\ Accepted(o)
                      /\ ingested[o].successor \in 1..Revision'
                      /\ o \in UnitsOf(At(ingested[o].successor))'
    BY <1>1 DEF JournalIsTrue, Accepted
  <2>1. /\ bundles[o] = "applied" /\ Accepted(o)
        /\ ingested[o].successor \in 1..Revision
        /\ o \in UnitsOf(At(ingested[o].successor))
    BY DEF Invariant, IngestionIsTrue, JournalIsTrue, Accepted
  <2>2. PICK x \in 1..Revision : x = ingested[o].successor
    BY <2>1
  <2>3. ingested'[o].successor = x /\ x \in 1..(Revision + 1) /\ x \in 0..Revision
    BY <2>2, <1>1, <1>3
  <2>4. PICK c : c = At(x)
    OBVIOUS
  <2>5. At(x)' = c /\ o \in UnitsOf(c)
    BY <2>1, <2>2, <2>3, <2>4, <1>3
  <2>6. o \in UnitsOf(At(ingested[o].successor))'
    BY <2>3, <2>5 DEF UnitsOf, At
  <2> QED BY <2>1, <2>2, <2>3, <2>6, <1>3
<1>12. HotIsBounded'
  <2>1. UnitsOf(Context)' = UnitsOf(d) /\ InZone(Context, "hot")' = InZone(d, "hot")
    BY <1>3, RoomNext
  <2> QED BY <2>1, <1>1 DEF HotIsBounded
<1> QED BY <1>6, <1>7, <1>8, <1>9, <1>10, <1>11, <1>12 DEF Invariant, IngestionIsTrue

\* A unit that joins is not in the journal yet: it may be one too many.
LEMMA AppendUnitKeeps ==
  ASSUME Invariant, NEW h \in Handlers, AppendUnit(h)
  PROVE  Invariant'
<1>1. PICK q \in SyncRecords : q = sync[h] /\ Sound(q)
  BY RecordHeld
<1>2. /\ q.step = "append" /\ q.step \in Locked /\ q.operation \in Units
      /\ q.operation \notin DOMAIN ingested /\ Accepted(q.operation)
  BY <1>1 DEF AppendUnit, Doing, Locked, Sound
<1>3. PICK c \in Contexts : /\ c = Context /\ Orderly(c)
                            /\ UnitsOf(c) \subseteq Units /\ IsFiniteSet(UnitsOf(c))
                            /\ Len(InZone(c, "hot")) \in Nat
  BY RoomNow DEF Invariant
<1>4. PICK o \in Units : o = q.operation
  BY <1>2
<1> DEFINE attempt == <<"append", o>>
           request == AppendRequest(q.expected, Len(q.expected.snapshot.units), <<o>>)
<1>5. /\ Fresh(attempt) /\ Current(request) /\ AppendValid(request)
      /\ snapshots' = Append(snapshots, Appended(Context, request.units))
      /\ WriteReceipt(attempt, request, "committed", Revision + 1)
  BY <1>1, <1>4 DEF AppendUnit, AppendHotUnits, Operation
<1>6. request.units = <<o>>
  BY DEF AppendRequest
<1> HIDE DEF request, attempt
<1>7. o \notin UnitsOf(c)
  <2>1. \A i \in DOMAIN <<o>> : <<o>>[i] \notin UnitsOf(c)
    BY <1>3, <1>5, <1>6 DEF AppendValid
  <2>2. 1 \in DOMAIN <<o>> /\ <<o>>[1] = o
    OBVIOUS
  <2> QED BY <2>1, <2>2
<1>8. PICK d : d = Appended(c, <<o>>)
  OBVIOUS
<1>9. /\ Orderly(d) /\ d \in Contexts
      /\ UnitsOf(d) = UnitsOf(c) \cup {o}
      /\ Len(InZone(d, "hot")) = Len(InZone(c, "hot")) + 1
  BY <1>3, <1>7, <1>8, AppendedRoom DEF Orderly
<1>10. snapshots' = Append(snapshots, d)
  BY <1>3, <1>5, <1>6, <1>8
<1>11. Context' = d
  BY <1>9, <1>10, RoomWritten DEF Invariant
<1>12. Len(InZone(d, "hot")) <= HotMax + Cardinality(UnitsOf(d) \ DOMAIN ingested)
  <2> DEFINE U == UnitsOf(c) \ DOMAIN ingested
  <2>1. UnitsOf(d) \ DOMAIN ingested = U \cup {o} /\ o \notin U
    BY <1>2, <1>4, <1>7, <1>9
  <2>2. IsFiniteSet(U)
    BY <1>3, FS_Subset
  <2>3. Cardinality(U) \in Nat
    BY <2>2, FS_CardinalityType
  <2>4. Cardinality(U \cup {o}) = Cardinality(U) + 1
    <3> HIDE DEF U
    <3> QED BY <2>1, <2>2, FS_AddElement
  <2>5. Len(InZone(c, "hot")) <= HotMax + Cardinality(U)
    BY <1>3 DEF Invariant, IngestionIsTrue, HotIsBounded
  <2> HIDE DEF U
  <2>6. Cardinality(UnitsOf(d) \ DOMAIN ingested) = Cardinality(U) + 1
    BY <2>1, <2>4
  <2>7. PICK x \in Nat, n \in Nat : x = Len(InZone(c, "hot")) /\ n = Cardinality(U)
    BY <2>3, <1>3
  <2>8. x <= HotMax + n /\ HotMax \in Nat
    BY <2>5, <2>7, PolicyAssumption
  <2>9. x + 1 <= HotMax + (n + 1)
    BY <2>8
  <2> QED BY <2>6, <2>7, <2>9, <1>9
<1>13. PICK r : r = [q EXCEPT !.step = "grown"]
  OBVIOUS
<1>14. r \in SyncRecords /\ r.step = "grown" /\ r.operation = o /\ r.step \in Locked
  <2>1. "grown" \in Steps /\ "grown" \in Locked
    BY DEF Steps, Locked
  <2> QED BY <2>1, <1>4, <1>13, RecordMoved
<1>15. /\ UNCHANGED <<working, bundles, disowned, applications, ingested, journalLock, turnVars>>
       /\ sync' = [sync EXCEPT ![h] = r] /\ sync[h].step \in Locked
  BY <1>1, <1>2, <1>13 DEF AppendUnit, Go, Step
<1>16. Sound(r)'
  <2>1. UnitsOf(Context)' = UnitsOf(d)
    BY <1>11, RoomNext
  <2>2. o \in UnitsOf(Context)' /\ o \notin DOMAIN ingested' /\ Accepted(o)'
    BY <2>1, <1>2, <1>4, <1>9, <1>15 DEF Accepted
  <2> QED BY <2>2, <1>14 DEF Sound, Locked
<1> QED BY <1>5, <1>9, <1>10, <1>12, <1>14, <1>15, <1>16, RoomStep

\* A compaction takes away at least the one unit that was one too many.
LEMMA CompactRoomKeeps ==
  ASSUME Invariant, NEW h \in Handlers, CompactRoom(h)
  PROVE  Invariant'
<1>1. PICK q \in SyncRecords : q = sync[h] /\ Sound(q)
  BY RecordHeld
<1>2. /\ q.step = "compact" /\ q.step \in Locked /\ q.operation \in Units
      /\ q.operation \notin DOMAIN ingested /\ Accepted(q.operation)
      /\ q.operation \in UnitsOf(Context) /\ q.episode \in Episodes
  BY <1>1 DEF CompactRoom, Doing, Locked, Sound
<1>3. PICK c \in Contexts : /\ c = Context /\ Orderly(c)
                            /\ UnitsOf(c) \subseteq Units /\ IsFiniteSet(UnitsOf(c))
                            /\ Len(InZone(c, "hot")) \in Nat
  BY RoomNow DEF Invariant
<1>4. PICK o \in Units : o = q.operation
  BY <1>2
<1>5. PICK episode \in Episodes : episode = q.episode
  BY <1>2
<1> DEFINE attempt == <<"compact", episode>>
           cold == ColdEpisodes(q.expected.snapshot)
           request == CompactRequest(q.expected, episode, cold)
<1>6. /\ Fresh(attempt) /\ Current(request) /\ CompactValid(request)
      /\ snapshots' = Append(snapshots, Compacted(Context, request.episode, request.cold))
      /\ WriteReceipt(attempt, request, "committed", Revision + 1)
  BY <1>1, <1>5 DEF CompactRoom, Compact
<1>7. request.episode = episode /\ request.cold = cold /\ request.expected = q.expected
  BY DEF CompactRequest
<1>8. q.expected.snapshot = c
  BY <1>3, <1>6, <1>7 DEF Current, Seen, Context
<1> HIDE DEF request, attempt
<1>9. /\ Len(episode.members) > 0 /\ Len(episode.members) <= Len(InZone(c, "hot"))
      /\ episode.members = OldestHot(c, Len(episode.members))
  BY <1>3, <1>6, <1>7 DEF CompactValid
<1>10. PICK d : d = Compacted(c, episode, ColdEpisodes(c))
  OBVIOUS
<1>11. snapshots' = Append(snapshots, d)
  BY <1>3, <1>6, <1>7, <1>8, <1>10
<1>12. /\ d \in Contexts
       /\ \E x \in 0..Len(c.units), y \in 0..Len(c.episodes) : \E m \in y..Len(c.episodes) :
            Shifts(c, d, episode, x, y, m)
  BY <1>3, <1>9, <1>10, CompactedRows
<1>13. /\ Orderly(d) /\ UnitsOf(d) = UnitsOf(c)
       /\ Len(InZone(d, "hot")) = Len(InZone(c, "hot")) - Len(episode.members)
  BY <1>3, <1>12, ShiftedRoom
<1>14. Context' = d
  BY <1>11, <1>12, RoomWritten DEF Invariant
<1>15. Len(episode.members) \in Nat
  BY DEF Episodes
<1>16. /\ Len(InZone(d, "hot")) <= HotMax + Cardinality(UnitsOf(d) \ DOMAIN ingested)
       /\ Len(InZone(d, "hot"))
            <= HotMax + Cardinality((UnitsOf(d) \ DOMAIN ingested) \ {o})
  <2> DEFINE U == UnitsOf(c) \ DOMAIN ingested
  <2>1. IsFiniteSet(U) /\ o \in U
    BY <1>2, <1>3, <1>4, FS_Subset
  <2>2. Cardinality(U) \in Nat
    BY <2>1, FS_CardinalityType
  <2>3. Cardinality(U \ {o}) = Cardinality(U) - 1
    <3> HIDE DEF U
    <3> QED BY <2>1, FS_RemoveElement
  <2>4. Len(InZone(c, "hot")) <= HotMax + Cardinality(U)
    BY <1>3 DEF Invariant, IngestionIsTrue, HotIsBounded
  <2>5. UnitsOf(d) \ DOMAIN ingested = U
    BY <1>13
  <2> HIDE DEF U
  <2>6. PICK x \in Nat, n \in Nat, k \in Nat :
          x = Len(InZone(c, "hot")) /\ n = Cardinality(U) /\ k = Len(episode.members)
    BY <2>2, <1>3, <1>15
  <2>7. x <= HotMax + n /\ HotMax \in Nat /\ k > 0
    BY <2>4, <2>6, <1>9, PolicyAssumption
  <2>8. x - k <= HotMax + n /\ x - k <= HotMax + (n - 1)
    BY <2>7
  <2>9. Len(InZone(d, "hot")) = x - k
    BY <2>6, <1>13
  <2> QED BY <2>3, <2>5, <2>6, <2>8, <2>9
<1>17. PICK r : r = [q EXCEPT !.step = "finish"]
  OBVIOUS
<1>18. r \in SyncRecords /\ r.step = "finish" /\ r.operation = o /\ r.step \in Locked
  <2>1. "finish" \in Steps /\ "finish" \in Locked
    BY DEF Steps, Locked
  <2> QED BY <2>1, <1>4, <1>17, RecordMoved
<1>19. /\ UNCHANGED <<working, bundles, disowned, applications, ingested, journalLock, turnVars>>
       /\ sync' = [sync EXCEPT ![h] = r] /\ sync[h].step \in Locked
  BY <1>1, <1>2, <1>17 DEF CompactRoom, Go, Step
<1>20. Sound(r)'
  <2>1. UnitsOf(Context)' = UnitsOf(d) /\ InZone(Context, "hot")' = InZone(d, "hot")
    BY <1>14, RoomNext
  <2>2. o \in UnitsOf(Context)' /\ o \notin DOMAIN ingested' /\ Accepted(o)'
    BY <2>1, <1>2, <1>3, <1>4, <1>13, <1>19 DEF Accepted
  <2>3. ingested' = ingested
    BY <1>19
  <2> QED BY <2>1, <2>2, <2>3, <1>16, <1>18 DEF Sound, Locked
<1> QED BY <1>6, <1>11, <1>12, <1>13, <1>16, <1>18, <1>19, <1>20, RoomStep

\* The entry is written while its unit stands in the room.
LEMMA FinishIngestionKeeps ==
  ASSUME Invariant, NEW h \in Handlers, FinishIngestion(h)
  PROVE  Invariant'
<1>1. PICK q \in SyncRecords : q = sync[h] /\ Sound(q)
  BY RecordHeld
<1>2. PICK c \in Contexts : /\ c = Context /\ Revision \in Nat
                            /\ Revision = 0 => UnitsOf(c) = {}
  BY RoomNow DEF Invariant
<1>3. PICK o \in Units : o = q.operation
  BY <1>1 DEF FinishIngestion, Doing, Sound
<1>4. /\ q.step = "finish" /\ q.step \in Locked
      /\ o \notin DOMAIN ingested /\ Accepted(o) /\ o \in UnitsOf(c)
      /\ Len(InZone(c, "hot"))
           <= HotMax + Cardinality((UnitsOf(c) \ DOMAIN ingested) \ {o})
  BY <1>1, <1>2, <1>3 DEF FinishIngestion, Doing, Locked, Sound
<1>5. /\ snapshots' = snapshots /\ receipts' = receipts /\ working' = working /\ bundles' = bundles
      /\ disowned' = disowned /\ applications' = applications /\ awaiting' = awaiting
      /\ journalLock' = None
  BY DEF FinishIngestion, zoneVars, turnVars
<1>6. TypesHold /\ HandlersSound
  BY DEF Invariant
<1>7. journalLock = h
  BY <1>1, <1>4 DEF Invariant, HandlersSound
<1>8. PICK N \in Nat : N = Revision
  BY <1>2
<1>9. /\ DOMAIN ingested' = DOMAIN ingested \cup {o}
      /\ \A x \in DOMAIN ingested : ingested'[x] = ingested[x]
      /\ ingested'[o].successor = N
  <2> DEFINE entry == [request |-> sync[h].projection, successor |-> Revision]
  <2>1. ingested' = [x \in DOMAIN ingested \cup {o} |-> IF x = o THEN entry ELSE ingested[x]]
    BY <1>1, <1>3 DEF FinishIngestion, Operation
  <2>2. entry.successor = N
    BY <1>8
  <2> HIDE DEF entry
  <2> QED BY <2>1, <2>2, <1>4
<1>10. PICK r : r = [q EXCEPT !.step = "done"]
  OBVIOUS
<1>11. r \in SyncRecords /\ r.step = "done" /\ r.operation = o /\ r.step \notin Locked
  <2>1. "done" \in Steps /\ "done" \notin Locked
    BY DEF Steps, Locked
  <2> QED BY <2>1, <1>3, <1>10, RecordMoved
<1>12. sync' = [sync EXCEPT ![h] = r]
  BY <1>1, <1>10 DEF FinishIngestion, Go, Step
<1>13. \A x \in Units : Accepted(x) => Accepted(x)'
  BY <1>5 DEF Accepted
<1>14. Sound(r)'
  BY <1>4, <1>11, <1>13 DEF Sound, Locked
<1>15. ASSUME NEW g \in Handlers \ {h}, NEW x \in SyncRecords, x = sync[g], Sound(x) PROVE Sound(x)'
  <2>1. x.step \notin Locked
    BY <1>7, <1>15 DEF Invariant, HandlersSound
  <2> QED BY <2>1, <1>5, <1>13, <1>15, SoundStays
<1>16. /\ HandlersSound' /\ journalLock' \in Handlers \cup {None}
       /\ sync' \in [Handlers -> SyncRecords]
  BY <1>5, <1>6, <1>7, <1>11, <1>12, <1>14, <1>15, HandlersStay
<1>17. TypesHold'
  BY <1>5, <1>6, <1>9, <1>16 DEF TypesHold
<1>18. RoomsOrderly' /\ AcceptedIsApplied'
  BY <1>5 DEF Invariant, RoomsOrderly, AcceptedIsApplied, Accepted, Revision
<1>19. RevisionsHaveReceipts'
  BY <1>5 DEF Invariant, RevisionsHaveReceipts, Revision, Seen, At
<1>20. Revision' = N /\ \A x \in 0..N : At(x)' = At(x)
  BY <1>5, <1>8 DEF Revision, At
<1>21. JournalIsTrue'
  <2> SUFFICES ASSUME NEW x \in DOMAIN ingested'
               PROVE  /\ bundles[x] = "applied" /\ Accepted(x)
                      /\ ingested'[x].successor \in 1..N
                      /\ x \in UnitsOf(At(ingested[x].successor))'
    BY <1>5, <1>20 DEF JournalIsTrue, Accepted
  <2>1. CASE x = o
    <3>1. N \in 1..N
      BY <1>2, <1>4, <1>8
    <3>2. bundles[o] = "applied"
      BY <1>4 DEF Invariant, AcceptedIsApplied
    <3>3. At(N)' = c
      BY <1>2, <1>8, <1>20 DEF Context
    <3>4. o \in UnitsOf(At(ingested[o].successor))'
      BY <3>3, <1>4, <1>9 DEF UnitsOf, At
    <3> QED BY <2>1, <3>1, <3>2, <3>4, <1>4, <1>9
  <2>2. CASE x \in DOMAIN ingested
    <3>1. /\ bundles[x] = "applied" /\ Accepted(x)
          /\ ingested[x].successor \in 1..N
          /\ x \in UnitsOf(At(ingested[x].successor))
      BY <2>2, <1>8 DEF Invariant, IngestionIsTrue, JournalIsTrue, Accepted
    <3>2. PICK n \in 1..N : n = ingested[x].successor /\ n = ingested'[x].successor
      BY <2>2, <3>1, <1>9
    <3>3. PICK b : b = At(n)
      OBVIOUS
    <3>4. At(n)' = b /\ x \in UnitsOf(b)
      BY <3>1, <3>2, <3>3, <1>20
    <3>5. x \in UnitsOf(At(ingested[x].successor))'
      BY <3>2, <3>4 DEF UnitsOf, At
    <3> QED BY <3>1, <3>2, <3>5
  <2> QED BY <2>1, <2>2, <1>9
<1>22. HotIsBounded'
  <2>1. Context' = c
    BY <1>2, <1>5 DEF Context, At, Revision
  <2>2. UnitsOf(Context)' = UnitsOf(c) /\ InZone(Context, "hot")' = InZone(c, "hot")
    BY <2>1, RoomNext
  <2>3. UnitsOf(c) \ DOMAIN ingested' = (UnitsOf(c) \ DOMAIN ingested) \ {o}
    BY <1>9
  <2> QED BY <2>2, <2>3, <1>4 DEF HotIsBounded
<1> QED BY <1>16, <1>17, <1>18, <1>19, <1>21, <1>22 DEF Invariant, IngestionIsTrue
(***************************************************************************)
(* The theorems.                                                           *)
(***************************************************************************)
LEMMA InvariantInit == ZonesInit /\ SyncInit => Invariant
<1> SUFFICES ASSUME ZonesInit, SyncInit PROVE Invariant
  OBVIOUS
<1>1. /\ snapshots = <<>> /\ receipts = NoReceipts /\ DOMAIN receipts = {}
      /\ DOMAIN ingested = {} /\ DOMAIN applications = {} /\ journalLock = None
      /\ Revision = 0 /\ Context = EmptyContext
  BY DEF ZonesInit, SyncInit, NoReceipts, Empty, Revision, Context, At
<1>2. PICK r : r = IdleHandler
  OBVIOUS
<1>3. sync = [h \in Handlers |-> r] /\ r \in SyncRecords /\ r.step = "idle" /\ Sound(r)
  BY <1>2, IdleRecord DEF SyncInit
<1>4. TypesHold
  <2>1. working \in [writes : Nat, due : BOOLEAN, upkeep : Nat]
    BY DEF SyncInit
  <2>2. bundles \in [Units -> BundleStates]
    BY DEF SyncInit, BundleStates
  <2> QED BY <1>1, <1>3, <2>1, <2>2 DEF TypesHold, SyncInit
<1>5. RoomsOrderly /\ RevisionsHaveReceipts /\ AcceptedIsApplied
  BY <1>1 DEF RoomsOrderly, RevisionsHaveReceipts, AcceptedIsApplied, Accepted
<1>6. HandlersSound
  <2>1. \A h \in Handlers : sync[h] = r
    BY <1>3
  <2>2. \A h \in Handlers : journalLock # h
    BY <1>1, NoneAssumption
  <2> QED BY <1>3, <2>1, <2>2 DEF HandlersSound, Locked
<1>7. IngestionIsTrue
  <2>1. JournalIsTrue
    BY <1>1 DEF JournalIsTrue
  <2>2. UnitsOf(EmptyContext) = {} /\ Len(InZone(EmptyContext, "hot")) = 0
    <3>1. EmptyContext.units = <<>> /\ DOMAIN EmptyContext.units = {} /\ Len(EmptyContext.units) = 0
      BY DEF EmptyContext
    <3>2. PICK c : c = EmptyContext
      OBVIOUS
    <3>3. Orderly(c) /\ Len(c.units) = 0
      BY <3>1, <3>2, EmptyRoom
    <3>4. PICK p \in 0..Len(c.units) : Len(InZone(c, "hot")) = Len(c.units) - p
      BY <3>3, HotUnits
    <3> QED BY <3>1, <3>2, <3>3, <3>4 DEF UnitsOf
  <2>3. Cardinality({}) = 0
    BY FS_EmptySet
  <2>4. UnitsOf(Context) \ DOMAIN ingested = {}
    BY <1>1, <2>2
  <2>5. HotIsBounded
    BY <1>1, <2>2, <2>3, <2>4, PolicyAssumption DEF HotIsBounded
  <2> QED BY <2>1, <2>5 DEF IngestionIsTrue
<1> QED BY <1>4, <1>5, <1>6, <1>7 DEF Invariant

\* Every step keeps the invariant.
LEMMA InvariantNext == Invariant /\ [SyncNext]_<<zoneVars, syncVars>> => Invariant'
<1> SUFFICES ASSUME Invariant, [SyncNext]_<<zoneVars, syncVars>> PROVE Invariant'
  OBVIOUS
<1>1. CASE UpkeepNext
  BY <1>1, UpkeepKeeps
<1>2. ASSUME NEW h \in Handlers, HandlerNext(h) PROVE Invariant'
  <2>1. CASE \E o \in Units : BeginSync(h, o)
    BY <2>1, BeginSyncKeeps
  <2>2. CASE BindUnit(h) \/ AcquireLease(h)
    BY <2>2, LeasingKeeps
  <2>3. CASE ApplyReplayed(h) \/ ApplyRefused(h) \/ ApplyReported(h)
    BY <2>3, ApplyAnswersKeep
  <2>4. CASE ApplyBundle(h)
    BY <2>4, ApplyBundleKeeps
  <2>5. CASE ProjectApplied(h) \/ ReadForIngestion(h)
    BY <2>5, ReadingsKeep
  <2>6. CASE RecordApplication(h)
    BY <2>6, RecordApplicationKeeps
  <2>7. CASE IngestionReplayed(h) \/ JournalBusy(h)
    BY <2>7, JournalAnswersKeep
  <2>8. CASE LockJournal(h)
    BY <2>8, LockJournalKeeps
  <2>9. CASE AppendUnit(h)
    BY <2>9, AppendUnitKeeps
  <2>10. CASE PlanCompaction(h)
    BY <2>10, PlanCompactionKeeps
  <2>11. CASE CompactRoom(h)
    BY <2>11, CompactRoomKeeps
  <2>12. CASE FinishIngestion(h)
    BY <2>12, FinishIngestionKeeps
  <2>13. CASE EndSync(h)
    BY <2>13, EndSyncKeeps
  <2>14. CASE FailSync(h)
    BY <2>14, FailSyncKeeps
  <2>15. CASE CrashSync(h)
    BY <2>15, CrashSyncKeeps
  <2> QED BY <1>2, <2>1, <2>2, <2>3, <2>4, <2>5, <2>6, <2>7, <2>8, <2>9, <2>10, <2>11, <2>12,
             <2>13, <2>14, <2>15 DEF HandlerNext
<1>3. CASE UNCHANGED <<zoneVars, syncVars>>
  <2>1. /\ snapshots' = snapshots /\ receipts' = receipts /\ bundles' = bundles
        /\ applications' = applications /\ ingested' = ingested /\ journalLock' = journalLock
        /\ sync' = sync /\ disowned' = disowned /\ awaiting' = awaiting /\ working' = working
    BY <1>3 DEF zoneVars, syncVars, turnVars
  <2>2. working \in [writes : Nat, due : BOOLEAN, upkeep : Nat]
    BY DEF Invariant, TypesHold
  <2> QED BY <2>1, <2>2, Unmoved
<1> QED BY <1>1, <1>2, <1>3 DEF SyncNext

\* In every state the rooms are orderly, the handlers' records are true and the
\* properties below hold.
THEOREM SyncInvariant == SyncSpec => []Invariant
<1> QED BY InvariantInit, InvariantNext, PTL DEF SyncSpec

\* Whatever handlers race, fail or stop: every revision of the room was written by
\* exactly one attempt, computed from the revision before it.
THEOREM RevisionsAreWitnessed == SyncSpec => []RevisionsHaveReceipts
<1>1. Invariant => RevisionsHaveReceipts
  BY DEF Invariant
<1> QED BY <1>1, SyncInvariant, PTL

\* An entry of the ingestion journal is of an applied bundle and of a unit in the room,
\* and the hot zone exceeds the policy only by ingestions that never finished.
THEOREM IngestionHolds == SyncSpec => []IngestionIsTrue
<1>1. Invariant => IngestionIsTrue
  BY DEF Invariant
<1> QED BY <1>1, SyncInvariant, PTL

(***************************************************************************)
(* The room implements the rolling context.                                *)
(***************************************************************************)
AgedOf(c) == [i \in DOMAIN c.units |-> [turn |-> c.units[i].unit, place |-> c.units[i].zone]]

\* One unit joins.
LEMMA JoinedTurn ==
  ASSUME NEW c, Orderly(c), NEW o \in Units, o \notin UnitsOf(c), NEW d, d = Appended(c, <<o>>)
  PROVE  /\ o \notin {AgedOf(c)[i].turn : i \in DOMAIN AgedOf(c)}
         /\ AgedOf(d) = AgedOf(c)
              \o [i \in 1..1 |-> [turn |-> [j \in 1..1 |-> o][i], place |-> "hot"]]
<1> DEFINE L == Len(c.units)
           Rows == [turn : Units, place : Zones]
           last == [turn |-> o, place |-> "hot"]
<1>1. c.units \in Seq(UnitRows) /\ L \in Nat /\ DOMAIN c.units = 1..L
  BY DEF Orderly, Contexts
<1>2. \A i \in 1..L : c.units[i] \in UnitRows
  BY <1>1
<1>3. /\ d \in Contexts /\ Len(d.units) = L + 1
      /\ \A i \in 1..L : d.units[i] = c.units[i]
      /\ d.units[L + 1].unit = o /\ d.units[L + 1].zone = "hot"
  <2> DEFINE new == [unit |-> o, zone |-> "hot", episode |-> None]
  <2>1. /\ d \in Contexts /\ Len(d.units) = L + 1
        /\ \A i \in 1..L : d.units[i] = c.units[i]
        /\ d.units[L + 1] = new
    BY AppendedRows
  <2>2. new.unit = o /\ new.zone = "hot"
    OBVIOUS
  <2> HIDE DEF new, L
  <2> QED BY <2>1, <2>2
<1> HIDE DEF L
<1>4. DOMAIN d.units = 1..(L + 1)
  BY <1>1, <1>3 DEF Contexts
<1>5. \A i \in 1..L : /\ AgedOf(c)[i] = [turn |-> c.units[i].unit, place |-> c.units[i].zone]
                      /\ AgedOf(c)[i] \in Rows
  BY <1>1, <1>2 DEF AgedOf, UnitRows
<1>6. AgedOf(c) \in Seq(Rows) /\ Len(AgedOf(c)) = L /\ DOMAIN AgedOf(c) = 1..L
  <2>1. AgedOf(c) = [i \in 1..L |-> AgedOf(c)[i]]
    BY <1>1 DEF AgedOf
  <2> HIDE DEF Rows
  <2> QED BY <2>1, <1>1, <1>5
<1>7. last \in Rows
  BY DEF Zones
<1>8. [i \in 1..1 |-> [turn |-> [j \in 1..1 |-> o][i], place |-> "hot"]] = <<last>>
  <2>1. \A i \in 1..1 : [turn |-> [j \in 1..1 |-> o][i], place |-> "hot"] = last
    OBVIOUS
  <2>2. <<last>> = [i \in 1..1 |-> last]
    <3>1. DOMAIN <<last>> = 1..1 /\ <<last>>[1] = last
      BY <1>7
    <3>2. \A i \in 1..1 : i = 1
      OBVIOUS
    <3> HIDE DEF last
    <3> QED BY <1>7, <3>1, <3>2
  <2> HIDE DEF last
  <2> QED BY <2>1, <2>2
<1>9. AgedOf(d) = Append(AgedOf(c), last)
  <2>1. /\ Append(AgedOf(c), last) \in Seq(Rows)
        /\ Len(Append(AgedOf(c), last)) = L + 1
        /\ \A i \in 1..L : Append(AgedOf(c), last)[i] = AgedOf(c)[i]
        /\ Append(AgedOf(c), last)[L + 1] = last
    <3> HIDE DEF Rows, last
    <3> QED BY <1>1, <1>6, <1>7
  <2>2. AgedOf(d) = [i \in 1..(L + 1) |-> [turn |-> d.units[i].unit, place |-> d.units[i].zone]]
    BY <1>4 DEF AgedOf
  <2>3. \A i \in 1..(L + 1) :
          Append(AgedOf(c), last)[i] = [turn |-> d.units[i].unit, place |-> d.units[i].zone]
    <3>1. \A i \in 1..(L + 1) : i \in 1..L \/ i = L + 1
      BY <1>1
    <3>2. last = [turn |-> d.units[L + 1].unit, place |-> d.units[L + 1].zone]
      BY <1>3
    <3> HIDE DEF last
    <3> QED BY <3>1, <3>2, <2>1, <1>3, <1>5
  <2>4. Append(AgedOf(c), last) = [i \in 1..(L + 1) |-> Append(AgedOf(c), last)[i]]
    <3> DEFINE A == Append(AgedOf(c), last)
    <3>1. A \in Seq(Rows) /\ Len(A) = L + 1
      BY <2>1
    <3> HIDE DEF A, Rows
    <3>2. A = [i \in 1..(L + 1) |-> A[i]]
      BY <3>1, <1>1
    <3> QED BY <3>2 DEF A
  <2> HIDE DEF last
  <2> QED BY <2>2, <2>3, <2>4
<1>10. Append(AgedOf(c), last) = AgedOf(c) \o <<last>>
  <2> HIDE DEF Rows, last
  <2> QED BY <1>6, <1>7
<1>11. o \notin {AgedOf(c)[i].turn : i \in DOMAIN AgedOf(c)}
  BY <1>1, <1>5, <1>6 DEF UnitsOf
<1> QED BY <1>8, <1>9, <1>10, <1>11

\* An appended unit is a join, a compaction a roll, and no other step moves a turn.
LEMMA RollingStep ==
  ASSUME Invariant, [SyncNext]_<<zoneVars, syncVars>>
  PROVE  [Rolling!Join \/ Rolling!Rolls]_Aged
<1>1. PICK c \in Contexts : c = Context /\ Orderly(c)
  BY RoomNow DEF Invariant
<1>2. Aged = AgedOf(c)
  BY <1>1 DEF Aged, AgedOf
<1>3. TypesHold
  BY DEF Invariant
<1>4. CASE snapshots' = snapshots
  <2>1. Context' = c
    BY <1>1, <1>4 DEF Context, At, Revision
  <2>2. Aged' = AgedOf(c)
    BY <2>1 DEF Aged, AgedOf
  <2> QED BY <1>2, <2>2
<1>5. ASSUME NEW h \in Handlers, AppendUnit(h) PROVE Rolling!Join
  <2>1. PICK q \in SyncRecords : q = sync[h] /\ Sound(q)
    BY RecordHeld
  <2>2. PICK o \in Units : o = q.operation
    BY <1>5, <2>1 DEF AppendUnit, Doing, Sound
  <2> DEFINE request == AppendRequest(q.expected, Len(q.expected.snapshot.units), <<o>>)
  <2>3. AppendValid(request) /\ snapshots' = Append(snapshots, Appended(Context, request.units))
    BY <1>5, <2>1, <2>2 DEF AppendUnit, AppendHotUnits, Operation
  <2>4. request.units = <<o>>
    BY DEF AppendRequest
  <2> HIDE DEF request
  <2>5. o \notin UnitsOf(c)
    <3>1. \A i \in DOMAIN <<o>> : <<o>>[i] \notin UnitsOf(c)
      BY <1>1, <2>3, <2>4 DEF AppendValid
    <3>2. 1 \in DOMAIN <<o>> /\ <<o>>[1] = o
      OBVIOUS
    <3> QED BY <3>1, <3>2
  <2>6. PICK d : d = Appended(c, <<o>>)
    OBVIOUS
  <2>7. d \in Contexts /\ snapshots' = Append(snapshots, d)
    BY <1>1, <2>3, <2>4, <2>5, <2>6, AppendedRoom DEF Orderly
  <2>8. Context' = d
    BY <1>3, <2>7, RoomWritten
  <2>9. Aged' = AgedOf(d)
    BY <2>8 DEF Aged, AgedOf
  <2>10. /\ o \notin {AgedOf(c)[i].turn : i \in DOMAIN AgedOf(c)}
         /\ AgedOf(d) = AgedOf(c)
              \o [i \in 1..1 |-> [turn |-> [j \in 1..1 |-> o][i], place |-> "hot"]]
    BY <1>1, <2>5, <2>6, JoinedTurn
  <2>11. PICK new \in [1..1 -> Units \ Rolling!Known] : new = [j \in 1..1 |-> o]
    <3>1. o \in Units \ Rolling!Known
      BY <1>2, <2>10 DEF Rolling!Known
    <3>2. [j \in 1..1 |-> o] \in [1..1 -> Units \ Rolling!Known]
      BY <3>1
    <3> QED BY <3>2
  <2>12. /\ 1 \in 1..2
         /\ \A i, j \in 1..1 : i # j => new[i] # new[j]
         /\ Aged' = Aged \o [i \in 1..1 |-> [turn |-> new[i], place |-> "hot"]]
    BY <1>2, <2>9, <2>10, <2>11
  <2> QED BY <2>12 DEF Rolling!Join
<1>6. ASSUME NEW h \in Handlers, CompactRoom(h) PROVE Rolling!Rolls
  <2>1. PICK q \in SyncRecords : q = sync[h] /\ Sound(q)
    BY RecordHeld
  <2>2. PICK episode \in Episodes : episode = q.episode
    BY <1>6, <2>1 DEF CompactRoom, Doing, Sound
  <2> DEFINE cold == ColdEpisodes(q.expected.snapshot)
             request == CompactRequest(q.expected, episode, cold)
  <2>3. /\ Current(request) /\ CompactValid(request)
        /\ snapshots' = Append(snapshots, Compacted(Context, request.episode, request.cold))
    BY <1>6, <2>1, <2>2 DEF CompactRoom, Compact
  <2>4. request.episode = episode /\ request.cold = cold /\ request.expected = q.expected
    BY DEF CompactRequest
  <2>5. q.expected.snapshot = c
    BY <1>1, <2>3, <2>4 DEF Current, Seen, Context
  <2> HIDE DEF request
  <2>6. /\ Len(episode.members) > 0 /\ Len(episode.members) <= Len(InZone(c, "hot"))
        /\ episode.members = OldestHot(c, Len(episode.members))
    BY <1>1, <2>3, <2>4 DEF CompactValid
  <2>7. PICK d : d = Compacted(c, episode, ColdEpisodes(c))
    OBVIOUS
  <2>8. snapshots' = Append(snapshots, d)
    BY <1>1, <2>3, <2>4, <2>5, <2>7
  <2>9. d \in Contexts
    BY <1>1, <2>6, <2>7, CompactedRows
  <2>10. PICK p \in 0..Len(c.units), y \in 0..Len(c.episodes) : \E m \in y..Len(c.episodes) :
           Shifts(c, d, episode, p, y, m)
    BY <1>1, <2>6, <2>7, CompactedRows
  <2>11. PICK m \in y..Len(c.episodes) : Shifts(c, d, episode, p, y, m)
    BY <2>10
  <2> DEFINE L == Len(c.units)
             k == p + Len(episode.members)
  <2>12. /\ Len(episode.members) \in 1..(L - p) /\ Len(d.units) = L
         /\ \A i \in 1..L : c.units[i].zone = "hot" <=> i > p
         /\ \A i \in 1..L : d.units[i].unit = c.units[i].unit
    BY <2>11 DEF Shifts
  <2>13. PICK n \in 0..p :
           /\ \A i \in 1..L : c.units[i].zone = "cold" => i <= n
           /\ \A i \in 1..L :
                d.units[i].zone = IF i <= n THEN "cold" ELSE IF i <= k THEN "warm" ELSE "hot"
    BY <1>1, <2>9, <2>11, ShiftedRoom
  <2>14. L \in Nat /\ DOMAIN c.units = 1..L /\ DOMAIN d.units = 1..L
    BY <1>1, <2>9, <2>12 DEF Contexts
  <2>15. Context' = d
    BY <1>3, <2>8, <2>9, RoomWritten
  <2>16. Aged' = AgedOf(d)
    BY <2>15 DEF Aged, AgedOf
  <2>17. k \in 1..L /\ k > p /\ n \in 0..L
    BY <2>12, <2>14
  <2> HIDE DEF L, k
  <2>18. /\ Aged = [i \in 1..L |-> [turn |-> c.units[i].unit, place |-> c.units[i].zone]]
         /\ Aged' = [i \in 1..L |-> [turn |-> d.units[i].unit, place |-> d.units[i].zone]]
    BY <1>2, <2>14, <2>16 DEF AgedOf
  <2>19. Aged' = [i \in DOMAIN Aged |->
                    [turn |-> Aged[i].turn,
                     place |-> IF i <= n THEN "cold" ELSE IF i <= k THEN "warm" ELSE "hot"]]
    BY <2>12, <2>13, <2>18
  <2>20. Len(Aged) = L /\ DOMAIN Aged = 1..L
    BY <2>14, <2>18
  <2>21. PICK C \in SUBSET DOMAIN Aged : C = 1..n
    BY <2>17, <2>20
  <2>22. Rolling!Cold \subseteq C /\ C \cap Rolling!Hot = {}
    BY <2>12, <2>13, <2>17, <2>18, <2>20, <2>21 DEF Rolling!Cold, Rolling!Hot
  <2>23. k \in DOMAIN Aged /\ k \in Rolling!Hot
    BY <2>12, <2>17, <2>18, <2>20 DEF Rolling!Hot
  <2>24. Aged' = [i \in DOMAIN Aged |->
                    [turn |-> Aged[i].turn,
                     place |-> IF i \in C THEN "cold" ELSE IF i <= k THEN "warm" ELSE "hot"]]
    BY <2>17, <2>19, <2>20, <2>21
  <2>25. Rolling!Shift(k, C)
    BY <2>22, <2>23, <2>24 DEF Rolling!Shift
  <2>26. Rolling!OldestFirst(C)
    BY <2>17, <2>20, <2>21 DEF Rolling!OldestFirst, Rolling!Warm
  <2> QED BY <2>21, <2>23, <2>25, <2>26 DEF Rolling!Rolls
<1>7. ASSUME NEW h \in Handlers, HandlerNext(h), ~AppendUnit(h), ~CompactRoom(h)
      PROVE  snapshots' = snapshots
  <2>1. UNCHANGED zoneVars
    BY <1>7 DEF HandlerNext, BeginSync, BindUnit, AcquireLease, ApplyReplayed, ApplyRefused,
       ApplyReported, ApplyBundle, ProjectApplied, ReadForIngestion, RecordApplication,
       IngestionReplayed, JournalBusy, LockJournal, PlanCompaction, FinishIngestion, EndSync,
       FailSync, CrashSync
  <2> QED BY <2>1 DEF zoneVars
<1>8. CASE UpkeepNext \/ UNCHANGED <<zoneVars, syncVars>>
  BY <1>4, <1>8 DEF UpkeepNext, ItemComesDue, ItemCleanedUp, zoneVars
<1> QED BY <1>4, <1>5, <1>6, <1>7, <1>8 DEF SyncNext

\* Whatever the handlers do, the turns of the room only age, oldest first, and none is
\* lost, repeated or reordered.
THEOREM RoomOnlyAges == SyncSpec => ImplementsRollingContext /\ Rolling!RollingSpec
<1>1. ZonesInit /\ SyncInit => Rolling!Init
  <2> SUFFICES ASSUME ZonesInit PROVE Rolling!Init
    OBVIOUS
  <2>1. Context = EmptyContext /\ DOMAIN EmptyContext.units = {}
    BY DEF ZonesInit, Context, At, Revision, EmptyContext
  <2>2. DOMAIN Aged = {}
    BY <2>1 DEF Aged
  <2> QED BY <2>2 DEF Rolling!Init
<1>2. Invariant /\ [SyncNext]_<<zoneVars, syncVars>> => [Rolling!Join \/ Rolling!Rolls]_Aged
  BY RollingStep
<1>3. Rolling!Rolls => Rolling!Shifts
  BY DEF Rolling!Rolls, Rolling!Shifts
<1>4. [Rolling!Join \/ Rolling!Rolls]_Aged =>
        /\ [Rolling!Join \/ Rolling!Shifts]_Aged
        /\ [sync' # sync => Rolling!Join \/ Rolling!Rolls]_Aged
  BY <1>3
<1> QED BY <1>1, <1>2, <1>4, SyncInvariant, PTL
        DEF SyncSpec, ImplementsRollingContext, Rolling!AgingSpec, Rolling!RollingSpec

(***************************************************************************)
(* How a request is built while syncs write.                               *)
(*                                                                         *)
(* What a builder holds is a mixture of several moments, so nothing can be *)
(* said of it but what the stores then confirm: rooms, receipts, stored    *)
(* outcomes and artifacts are only ever added to.                          *)
(***************************************************************************)
\* The members of an episode are no longer hot.
MembersAged(c) ==
  \A e \in DOMAIN c.episodes : \A k \in DOMAIN c.episodes[e].id.members :
    \E i \in DOMAIN c.units : /\ c.units[i].unit = c.episodes[e].id.members[k]
                              /\ c.units[i].zone # "hot"

RoomsAged == \A r \in 1..Revision : MembersAged(snapshots[r])

BuildSteps == {"idle", "lookup", "scan", "cold_room", "cold_units", "cold_receipt", "room", "units",
               "select", "integrate", "store", "candidate", "require", "failed"}

ReadingSteps == {"scan", "cold_room", "cold_units", "cold_receipt", "room", "units", "select"}

\* The fields of a builder's record; what it read is of any kind.
BuilderShape(r) ==
  r \in [step : BuildSteps, turn : {r.turn}, offer : {r.offer}, now : {r.now}, m2 : {r.m2},
         row : {r.row}, units : {r.units}, cold : {r.cold}, selection : {r.selection}]

NoCold(r) == r.cold \in {None, <<>>}

\* A builder that saw an empty room found nothing cold before; one that goes on has
\* stored what it goes on with.
BuilderHolds(r) ==
  /\ BuilderShape(r)
  /\ r.step # "idle" => r.turn \in Turns
  /\ r.step = "lookup" => NoCold(r)
  /\ r.step \in {"cold_room", "cold_units", "cold_receipt", "room"} /\ Revision = 0 => NoCold(r)
  /\ r.step \in {"units", "select"} =>
       r.row \in 0..Revision /\ (r.row = 0 => NoCold(r))
  /\ r.step \in {"integrate", "store"} => SelectionAttempt(r.turn) \in DOMAIN receipts
  /\ r.step = "store" =>
       r.turn \in DOMAIN integrations /\ integrations[r.turn].state = "selected"
  /\ r.step \in {"candidate", "require"} => r.turn \in DOMAIN artifacts
  /\ r.step \in ReadingSteps => SectionSize(r.m2) \in Nat

\* No turn is selected twice.
Apart(selection) ==
  /\ selection.hot \cap MembersOf(selection.warm \cup selection.cold) = {}
  /\ selection.warm \cap selection.cold = {}

\* What a recorded selection shows.
Momentary(x) ==
  x.state = "selected" =>
    /\ x.request.row \in 0..Revision
    /\ x.request.row > 0 => x.request.snapshot = At(x.request.row)
    /\ Apart(x.result)

SelectionsHold ==
  \A t \in Turns :
    SelectionAttempt(t) \in DOMAIN receipts => Momentary(receipts[SelectionAttempt(t)])

\* An artifact is made of what the receipt stores hold.
ArtifactsHold ==
  \A t \in DOMAIN artifacts :
    /\ SelectionAttempt(t) \in DOMAIN receipts
    /\ artifacts[t].selection = receipts[SelectionAttempt(t)]
    /\ t \in DOMAIN integrations /\ artifacts[t].admission = integrations[t]
    /\ integrations[t].state = "selected"

Names(ps) == {ps[i].phase : i \in DOMAIN ps}

Early == "accepted_pending_readiness"

Late == {"activation", "interception", "dispatch"}

\* The fields of an attempt's row.
AttemptShape(a) ==
  a \in [state : {a.state}, required : {a.required}, endpoint : {a.endpoint}, final : {a.final}]

\* The phases of a turn follow one another, each bound once, to one artifact and
\* from the activation on to the body that was activated.
Phased(ps, artifact, a, kept) ==
  /\ \E S : ps \in Seq(S)
  /\ AttemptShape(a)
  /\ \A i \in DOMAIN ps : ps[i].artifact = artifact
  /\ \A i, j \in DOMAIN ps : ps[i].phase = ps[j].phase => i = j
  /\ "preflight" \in Names(ps) => "candidate" \in Names(ps)
  /\ "activation" \in Names(ps) => "preflight" \in Names(ps)
  /\ "interception" \in Names(ps) => "activation" \in Names(ps)
  /\ "dispatch" \in Names(ps) => "interception" \in Names(ps)
  /\ \A i \in DOMAIN ps : ps[i].phase \in Late =>
       ps[i].input = a.endpoint /\ a.state # Early
  /\ \A i \in DOMAIN ps : ps[i].phase = "preflight" /\ a.state # Early =>
       ps[i].input = a.endpoint
  /\ kept = "operation" \/ a.state # Early => "preflight" \in Names(ps)
  /\ \A i \in DOMAIN ps : ps[i].phase \in Range(PhaseOrder) \cup {"rollback"}

TurnsHold ==
  \A t \in Turns : /\ t \notin DOMAIN artifacts => phases[t] = <<>>
                   /\ Phased(phases[t], artifacts[t], attempts[t], held[t])

RequestInvariant ==
  /\ Invariant /\ RoomsAged
  /\ DOMAIN build = Builders /\ \A b \in Builders : BuilderHolds(build[b])
  /\ SelectionsHold /\ ArtifactsHold
  /\ DOMAIN phases = Turns /\ DOMAIN attempts = Turns /\ DOMAIN held = Turns
  /\ TurnsHold

(***************************************************************************)
(* The room and its receipts.                                              *)
(***************************************************************************)
\* A receipt that changes no zone leaves the revisions and their receipts in step.
LEMMA AuxiliaryKeeps ==
  ASSUME Invariant, NEW attempt, NEW request, NEW state, NEW result, state # "committed",
         AuxiliaryReceipt(attempt, request, state, result), UNCHANGED syncVars
  PROVE  Invariant'
<1>1. /\ snapshots' = snapshots /\ bundles' = bundles /\ disowned' = disowned
      /\ applications' = applications /\ ingested' = ingested /\ journalLock' = journalLock
      /\ sync' = sync /\ awaiting' = awaiting /\ working' = working
  BY DEF AuxiliaryReceipt, syncVars, turnVars
<1>2. working' \in [writes : Nat, due : BOOLEAN, upkeep : Nat]
  BY <1>1 DEF Invariant, TypesHold
<1>3. RevisionsHaveReceipts'
  <2>1. CASE receipts' = receipts
    BY <1>1, <2>1 DEF Invariant, RevisionsHaveReceipts, Revision, Seen, At
  <2>2. CASE Fresh(attempt) /\ WriteReceipt(attempt, request, state, result)
    <3>1. /\ DOMAIN receipts' = DOMAIN receipts \cup {attempt} /\ attempt \notin DOMAIN receipts
          /\ \A a \in DOMAIN receipts : receipts'[a] = receipts[a]
          /\ receipts'[attempt].state # "committed"
      BY <2>2 DEF Fresh, WriteReceipt
    <3>2. ASSUME NEW r
          PROVE  {a \in DOMAIN receipts' :
                    receipts'[a].state = "committed" /\ receipts'[a].result = r}
                   = {a \in DOMAIN receipts :
                        receipts[a].state = "committed" /\ receipts[a].result = r}
      BY <3>1
    <3>3. \A a \in DOMAIN receipts' : receipts'[a].state = "committed" =>
            a \in DOMAIN receipts /\ receipts'[a] = receipts[a]
      BY <3>1
    <3> QED BY <1>1, <3>2, <3>3 DEF Invariant, RevisionsHaveReceipts, Revision, Seen, At
  <2> QED BY <2>1, <2>2 DEF AuxiliaryReceipt
<1> QED BY <1>1, <1>2, <1>3, RoomUnmoved

\* A restart stops every handler.
LEMMA RestartKeeps ==
  ASSUME Invariant,
         UNCHANGED <<zoneVars, working, bundles, disowned, applications, ingested, turnVars>>,
         sync' = [h \in Handlers |-> IdleHandler], journalLock' = None
  PROVE  Invariant'
<1>1. /\ snapshots' = snapshots /\ receipts' = receipts /\ bundles' = bundles
      /\ disowned' = disowned /\ applications' = applications /\ ingested' = ingested
      /\ awaiting' = awaiting /\ working' = working
  BY DEF zoneVars, turnVars
<1>2. \A h \in Handlers : sync'[h] = IdleHandler
  OBVIOUS
<1>3. PICK r : r = IdleHandler
  OBVIOUS
<1>4. r \in SyncRecords /\ r.step = "idle"
  BY <1>3, IdleRecord
<1>5. TypesHold'
  BY <1>1, <1>3, <1>4 DEF Invariant, TypesHold
<1>6. RoomsOrderly' /\ AcceptedIsApplied' /\ RevisionsHaveReceipts'
  BY <1>1 DEF Invariant, RoomsOrderly, AcceptedIsApplied, Accepted, Revision, RevisionsHaveReceipts,
     Seen, At
<1>7. HandlersSound'
  <2>1. \A h \in Handlers : Sound(sync[h])'
    BY <1>2, <1>3, <1>4 DEF Sound, Locked
  <2>2. \A h \in Handlers : journalLock' # h /\ sync'[h].step = "idle"
    BY <1>2, <1>3, <1>4, NoneAssumption
  <2> QED BY <2>1, <2>2 DEF HandlersSound, Locked
<1>8. JournalIsTrue'
  BY <1>1 DEF Invariant, IngestionIsTrue, JournalIsTrue, UnitsOf, At, Revision
<1>9. HotIsBounded'
  <2>1. PICK c : c = Context
    OBVIOUS
  <2>2. Context' = c
    BY <1>1, <2>1 DEF Context, At, Revision
  <2>3. UnitsOf(Context)' = UnitsOf(c) /\ InZone(Context, "hot")' = InZone(c, "hot")
    BY <2>2, RoomNext
  <2> QED BY <1>1, <2>1, <2>3 DEF Invariant, IngestionIsTrue, HotIsBounded
<1> QED BY <1>5, <1>6, <1>7, <1>8, <1>9 DEF Invariant, IngestionIsTrue

\* A unit that joins leaves the members of the episodes where they are.
LEMMA AppendedAged ==
  ASSUME NEW c, Orderly(c), MembersAged(c), NEW o \in Units
  PROVE  MembersAged(Appended(c, <<o>>))
<1>1. PICK d : d = Appended(c, <<o>>)
  OBVIOUS
<1>2. /\ d \in Contexts /\ d.episodes = c.episodes /\ Len(d.units) = Len(c.units) + 1
      /\ \A i \in 1..Len(c.units) : d.units[i] = c.units[i]
  BY <1>1, AppendedRows
<1>3. Len(c.units) \in Nat /\ DOMAIN c.units = 1..Len(c.units) /\ DOMAIN d.units = 1..Len(d.units)
  <2>1. c.units \in Seq(UnitRows) /\ d.units \in Seq(UnitRows)
    BY <1>2 DEF Orderly, Contexts
  <2> QED BY <2>1
<1>4. DOMAIN c.units \subseteq DOMAIN d.units
  BY <1>2, <1>3
<1>5. ASSUME NEW e \in DOMAIN c.episodes, NEW k \in DOMAIN c.episodes[e].id.members
      PROVE  \E i \in DOMAIN d.units : /\ d.units[i].unit = c.episodes[e].id.members[k]
                                       /\ d.units[i].zone # "hot"
  <2>1. PICK i \in DOMAIN c.units : /\ c.units[i].unit = c.episodes[e].id.members[k]
                                    /\ c.units[i].zone # "hot"
    BY <1>5 DEF MembersAged
  <2>2. i \in DOMAIN d.units /\ d.units[i] = c.units[i]
    BY <1>2, <1>3, <1>4
  <2> QED BY <2>1, <2>2
<1>6. MembersAged(d)
  BY <1>2, <1>5 DEF MembersAged
<1> QED BY <1>1, <1>6

\* A compaction makes members of hot units and ages them.
LEMMA CompactedAged ==
  ASSUME NEW c, Orderly(c), MembersAged(c), NEW episode \in Episodes,
         Len(episode.members) > 0, Len(episode.members) <= Len(InZone(c, "hot")),
         episode.members = OldestHot(c, Len(episode.members))
  PROVE  MembersAged(Compacted(c, episode, ColdEpisodes(c)))
<1>1. PICK d : d = Compacted(c, episode, ColdEpisodes(c))
  OBVIOUS
<1>2. PICK p \in 0..Len(c.units), q \in 0..Len(c.episodes) :
        \E m \in q..Len(c.episodes) : Shifts(c, d, episode, p, q, m)
  BY <1>1, CompactedRows
<1>3. PICK m \in q..Len(c.episodes) : Shifts(c, d, episode, p, q, m)
  BY <1>2
<1>4. d \in Contexts
  BY <1>1, CompactedRows
<1>5. /\ DOMAIN c.units = 1..Len(c.units) /\ DOMAIN d.units = 1..Len(d.units)
      /\ DOMAIN c.episodes = 1..Len(c.episodes) /\ DOMAIN d.episodes = 1..Len(d.episodes)
      /\ Len(c.units) \in Nat /\ Len(c.episodes) \in Nat
  <2>1. /\ c.units \in Seq(UnitRows) /\ d.units \in Seq(UnitRows)
        /\ c.episodes \in Seq(EpisodeRows) /\ d.episodes \in Seq(EpisodeRows)
    BY <1>4 DEF Orderly, Contexts
  <2> QED BY <2>1
<1> DEFINE k == Len(episode.members)
           L == Len(c.units)
           E == Len(c.episodes)
<1>6. /\ k \in 1..(L - p) /\ Len(d.units) = L /\ Len(d.episodes) = E + 1
      /\ \A i \in 1..L : c.units[i].zone = "hot" <=> i > p
      /\ \A i \in 1..k : episode.members[i] = c.units[p + i].unit
      /\ \A i \in 1..L : d.units[i].unit = c.units[i].unit
      /\ \A i \in 1..p :
           d.units[i].zone = IF \E e \in (q + 1)..m : c.episodes[e].id = c.units[i].episode
                             THEN "cold" ELSE c.units[i].zone
      /\ \A i \in (p + 1)..(p + k) : d.units[i].zone = "warm"
      /\ \A e \in 1..E : d.episodes[e].id = c.episodes[e].id
      /\ d.episodes[E + 1].id = episode
  BY <1>3 DEF Shifts
<1>7. DOMAIN episode.members = 1..k
  BY DEF Episodes
<1> HIDE DEF k, L, E
<1>8. ASSUME NEW i \in 1..L, c.units[i].zone # "hot" PROVE d.units[i].zone # "hot"
  <2>1. i \in 1..p
    BY <1>6, <1>8
  <2> QED BY <1>6, <1>8, <2>1
<1>9. ASSUME NEW e \in 1..(E + 1), NEW j \in DOMAIN d.episodes[e].id.members
      PROVE  \E i \in 1..L : /\ d.units[i].unit = d.episodes[e].id.members[j]
                             /\ d.units[i].zone # "hot"
  <2>1. CASE e \in 1..E
    <3>1. d.episodes[e].id = c.episodes[e].id /\ e \in DOMAIN c.episodes
      BY <1>5, <1>6, <2>1 DEF E
    <3>2. j \in DOMAIN c.episodes[e].id.members
      BY <1>9, <3>1
    <3>3. \E i \in DOMAIN c.units : /\ c.units[i].unit = c.episodes[e].id.members[j]
                                    /\ c.units[i].zone # "hot"
      BY <3>1, <3>2 DEF MembersAged
    <3>4. PICK i \in 1..L : /\ c.units[i].unit = c.episodes[e].id.members[j]
                            /\ c.units[i].zone # "hot"
      BY <1>5, <3>3 DEF L
    <3> QED BY <1>6, <1>8, <3>1, <3>4
  <2>2. CASE e = E + 1
    <3>1. d.episodes[e].id = episode /\ j \in 1..k
      BY <1>6, <1>7, <1>9, <2>2
    <3>2. p + j \in 1..L /\ p + j \in (p + 1)..(p + k)
      BY <1>5, <1>6, <3>1 DEF L
    <3>3. d.units[p + j].unit = episode.members[j] /\ d.units[p + j].zone = "warm"
      BY <1>6, <3>1, <3>2
    <3> QED BY <3>1, <3>2, <3>3
  <2>3. E \in Nat
    BY <1>5 DEF E
  <2> QED BY <2>1, <2>2, <2>3
<1>10. DOMAIN d.units = 1..L /\ DOMAIN d.episodes = 1..(E + 1)
  BY <1>5, <1>6
<1> QED BY <1>1, <1>9, <1>10 DEF MembersAged

(***************************************************************************)
(* What the stores hold is only added to.                                  *)
(***************************************************************************)
Extends(f, g) == DOMAIN f \subseteq DOMAIN g /\ \A x \in DOMAIN f : g[x] = f[x]

Later ==
  /\ Revision \in Nat /\ Revision' \in Nat /\ Revision <= Revision'
  /\ \A r \in 0..Revision : At(r)' = At(r)
  /\ Extends(receipts, receipts') /\ Extends(integrations, integrations')
  /\ Extends(artifacts, artifacts')

LEMMA BuilderStays ==
  ASSUME Later, NEW r, BuilderHolds(r)
  PROVE  BuilderHolds(r)'
<1>1. /\ BuilderShape(r)
      /\ r.step # "idle" => r.turn \in Turns
      /\ r.step = "lookup" => NoCold(r)
  BY DEF BuilderHolds
<1>2. r.step \in {"cold_room", "cold_units", "cold_receipt", "room"} /\ Revision' = 0 => NoCold(r)
  <2>1. Revision' = 0 => Revision = 0
    BY DEF Later
  <2> QED BY <2>1 DEF BuilderHolds
<1>3. r.step \in {"units", "select"} => r.row \in 0..Revision' /\ (r.row = 0 => NoCold(r))
  <2>1. 0..Revision \subseteq 0..Revision'
    BY DEF Later
  <2> QED BY <2>1 DEF BuilderHolds
<1>4. r.step \in {"integrate", "store"} => SelectionAttempt(r.turn) \in DOMAIN receipts'
  BY DEF BuilderHolds, Later, Extends
<1>5. r.step = "store" =>
        r.turn \in DOMAIN integrations' /\ integrations'[r.turn].state = "selected"
  BY DEF BuilderHolds, Later, Extends
<1>6. r.step \in {"candidate", "require"} => r.turn \in DOMAIN artifacts'
  BY DEF BuilderHolds, Later, Extends
<1>7. (SelectionAttempt(r.turn) \in DOMAIN receipts)'
        <=> SelectionAttempt(r.turn) \in DOMAIN receipts'
  BY DEF SelectionAttempt
<1>8. r.step \in ReadingSteps => SectionSize(r.m2) \in Nat
  BY DEF BuilderHolds
<1> QED BY <1>1, <1>2, <1>3, <1>4, <1>5, <1>6, <1>7, <1>8
        DEF BuilderHolds, BuilderShape, NoCold, SectionSize

LEMMA MomentStays ==
  ASSUME Later, NEW x, Momentary(x)
  PROVE  Momentary(x)'
<1>1. PICK n : n = x.request.row
  OBVIOUS
<1>2. x.state = "selected" => n \in 0..Revision /\ n \in 0..Revision' /\ At(n)' = At(n)
  BY <1>1 DEF Later, Momentary
<1> QED BY <1>1, <1>2 DEF Momentary, Apart, MembersOf, At

\* A step that adds to the stores: what is left to show of it.
LEMMA RequestStep ==
  ASSUME RequestInvariant, Later, Invariant', RoomsAged',
         \A t \in Turns : SelectionAttempt(t) \in DOMAIN receipts' =>
           SelectionAttempt(t) \in DOMAIN receipts \/ Momentary(receipts[SelectionAttempt(t)])',
         DOMAIN build' = Builders,
         \A b \in Builders : build'[b] = build[b] \/ BuilderHolds(build[b])',
         ArtifactsHold', TurnsHold',
         DOMAIN phases' = Turns, DOMAIN attempts' = Turns, DOMAIN held' = Turns
  PROVE  RequestInvariant'
<1>1. ASSUME NEW b \in Builders PROVE BuilderHolds(build[b])'
  <2>1. PICK r : r = build[b]
    OBVIOUS
  <2>2. BuilderHolds(r)
    BY <2>1 DEF RequestInvariant
  <2>3. BuilderHolds(r)'
    BY <2>2, BuilderStays
  <2>4. CASE build'[b] = build[b]
    BY <2>1, <2>3, <2>4 DEF BuilderHolds, BuilderShape, NoCold, SectionSize
  <2>5. CASE BuilderHolds(build[b])'
    BY <2>5
  <2> QED BY <2>4, <2>5
<1>2. SelectionsHold'
  <2> SUFFICES ASSUME NEW t \in Turns, SelectionAttempt(t) \in DOMAIN receipts'
               PROVE  Momentary(receipts[SelectionAttempt(t)])'
    BY DEF SelectionsHold, SelectionAttempt
  <2>1. PICK a : a = SelectionAttempt(t)
    OBVIOUS
  <2>2. CASE a \in DOMAIN receipts
    <3>1. PICK x : x = receipts[a]
      OBVIOUS
    <3>2. Momentary(x) /\ receipts'[a] = x
      BY <2>1, <2>2, <3>1 DEF RequestInvariant, SelectionsHold, Later, Extends
    <3>3. Momentary(x)'
      BY <3>2, MomentStays
    <3> QED BY <2>1, <3>2, <3>3 DEF SelectionAttempt, Momentary, Apart, MembersOf, At
  <2>3. CASE a \notin DOMAIN receipts
    BY <2>1, <2>3
  <2> QED BY <2>2, <2>3
<1> QED BY <1>1, <1>2 DEF RequestInvariant

LEMMA ArtifactsStay ==
  ASSUME ArtifactsHold, Later, UNCHANGED artifacts
  PROVE  ArtifactsHold'
<1> SUFFICES ASSUME NEW t \in DOMAIN artifacts
             PROVE  /\ SelectionAttempt(t) \in DOMAIN receipts'
                    /\ artifacts[t].selection = receipts'[SelectionAttempt(t)]
                    /\ t \in DOMAIN integrations' /\ artifacts[t].admission = integrations'[t]
                    /\ integrations'[t].state = "selected"
  BY DEF ArtifactsHold, SelectionAttempt
<1> QED BY DEF ArtifactsHold, Later, Extends

\* The stores are added to, and what the turns bound stays.
LEMMA StoresGrow ==
  ASSUME RequestInvariant, Later, Invariant', RoomsAged',
         UNCHANGED <<artifacts, phases, attempts, held>>,
         \A t \in Turns : SelectionAttempt(t) \in DOMAIN receipts' =>
           SelectionAttempt(t) \in DOMAIN receipts \/ Momentary(receipts[SelectionAttempt(t)])',
         DOMAIN build' = Builders,
         \A b \in Builders : build'[b] = build[b] \/ BuilderHolds(build[b])'
  PROVE  RequestInvariant'
<1>1. ArtifactsHold'
  BY ArtifactsStay DEF RequestInvariant
<1>2. TurnsHold'
  BY DEF RequestInvariant, TurnsHold, Phased, Names
<1>3. DOMAIN phases' = Turns /\ DOMAIN attempts' = Turns /\ DOMAIN held' = Turns
  BY DEF RequestInvariant
<1> QED BY <1>1, <1>2, <1>3, RequestStep

\* The room as it is has aged episodes.
LEMMA AgedNow ==
  ASSUME TypesHold, RoomsAged
  PROVE  MembersAged(Context)
<1>1. Revision \in Nat
  BY DEF TypesHold, Revision
<1>2. CASE Revision = 0
  BY <1>2 DEF Context, At, EmptyContext, MembersAged
<1>3. CASE Revision # 0
  <2>1. Revision \in 1..Revision /\ Context = snapshots[Revision]
    BY <1>1, <1>3 DEF Context, At
  <2> QED BY <2>1 DEF RoomsAged
<1> QED BY <1>2, <1>3

\* A step that leaves rooms, receipts and the other stores.
LEMMA NothingStored ==
  ASSUME RequestInvariant, UNCHANGED <<zoneVars, integrations, artifacts>>
  PROVE  Later /\ RoomsAged'
<1>1. snapshots' = snapshots /\ receipts' = receipts
  BY DEF zoneVars
<1>2. Revision \in Nat /\ Revision' = Revision
  BY <1>1 DEF RequestInvariant, Invariant, TypesHold, Revision
<1>3. \A r \in 0..Revision : At(r)' = At(r)
  BY <1>1 DEF At
<1>4. Later
  BY <1>1, <1>2, <1>3 DEF Later, Extends
<1> QED BY <1>1, <1>2, <1>4 DEF RequestInvariant, RoomsAged, MembersAged

\* A revision is written, with a receipt that is no selection.
LEMMA RevisionWritten ==
  ASSUME RequestInvariant, NEW d \in Contexts, MembersAged(d), NEW attempt, NEW request,
         Fresh(attempt), snapshots' = Append(snapshots, d),
         WriteReceipt(attempt, request, "committed", Revision + 1), UNCHANGED buildVars,
         \A t \in Turns : SelectionAttempt(t) # attempt, Invariant'
  PROVE  RequestInvariant'
<1>1. /\ Revision' = Revision + 1 /\ Revision \in Nat
      /\ \A r \in 0..Revision : At(r)' = At(r)
      /\ \A r \in 1..Revision : snapshots'[r] = snapshots[r]
      /\ snapshots'[Revision + 1] = d
  BY RoomWritten DEF RequestInvariant, Invariant, TypesHold, Revision
<1>2. Extends(receipts, receipts') /\ DOMAIN receipts' = DOMAIN receipts \cup {attempt}
  BY DEF WriteReceipt, Fresh, Extends
<1>3. Later
  BY <1>1, <1>2 DEF Later, buildVars, Extends
<1>4. RoomsAged'
  <2>1. \A r \in 1..(Revision + 1) : r \in 1..Revision \/ r = Revision + 1
    BY <1>1
  <2>2. \A r \in 1..(Revision + 1) : MembersAged(snapshots'[r])
    BY <1>1, <2>1 DEF RequestInvariant, RoomsAged
  <2> QED BY <1>1, <2>2 DEF RoomsAged, MembersAged
<1>5. DOMAIN build' = Builders /\ \A b \in Builders : build'[b] = build[b]
  BY DEF buildVars, RequestInvariant
<1>6. UNCHANGED <<artifacts, phases, attempts, held>>
  BY DEF buildVars
<1> QED BY <1>2, <1>3, <1>4, <1>5, <1>6, StoresGrow

\* Session syncs go on.
LEMMA SyncsKeep ==
  ASSUME RequestInvariant, SyncNext, UNCHANGED buildVars
  PROVE  RequestInvariant'
<1>1. Invariant'
  BY InvariantNext DEF RequestInvariant
<1>2. CASE UNCHANGED zoneVars
  <2>1. UNCHANGED <<integrations, artifacts, phases, attempts, held, build>>
    BY DEF buildVars
  <2>2. Later /\ RoomsAged'
    BY <1>2, <2>1, NothingStored
  <2>3. receipts' = receipts
    BY <1>2 DEF zoneVars
  <2>4. DOMAIN build' = Builders /\ \A b \in Builders : build'[b] = build[b]
    BY <2>1 DEF RequestInvariant
  <2> QED BY <1>1, <2>1, <2>2, <2>3, <2>4, StoresGrow
<1>3. ASSUME NEW h \in Handlers, AppendUnit(h) PROVE RequestInvariant'
  <2>1. PICK q \in SyncRecords : q = sync[h] /\ Sound(q)
    BY RecordHeld DEF RequestInvariant
  <2>2. q.step = "append"
    BY <1>3, <2>1 DEF AppendUnit, Doing
  <2>3. PICK o \in Units : o = q.operation
    BY <2>1, <2>2 DEF Sound
  <2>4. PICK c : c = Context /\ Orderly(c)
    BY RoomNow DEF RequestInvariant, Invariant
  <2>5. MembersAged(c)
    BY <2>4, AgedNow DEF RequestInvariant, Invariant
  <2>6. PICK d : d = Appended(c, <<o>>)
    OBVIOUS
  <2>7. d \in Contexts /\ MembersAged(d)
    BY <2>4, <2>5, <2>6, AppendedAged, AppendedRows
  <2>8. PICK attempt : attempt = <<"append", o>>
    OBVIOUS
  <2>9. PICK request : request = AppendRequest(q.expected, Len(q.expected.snapshot.units), <<o>>)
    OBVIOUS
  <2>10. request.units = <<o>>
    BY <2>9 DEF AppendRequest
  <2>11. /\ Fresh(attempt) /\ snapshots' = Append(snapshots, d)
         /\ WriteReceipt(attempt, request, "committed", Revision + 1)
    BY <1>3, <2>1, <2>3, <2>4, <2>6, <2>8, <2>9, <2>10 DEF AppendUnit, AppendHotUnits, Operation
  <2>12. \A t \in Turns : SelectionAttempt(t) # attempt
    BY <2>8 DEF SelectionAttempt
  <2> QED BY <1>1, <2>7, <2>11, <2>12, RevisionWritten
<1>4. ASSUME NEW h \in Handlers, CompactRoom(h) PROVE RequestInvariant'
  <2>1. PICK q \in SyncRecords : q = sync[h] /\ Sound(q)
    BY RecordHeld DEF RequestInvariant
  <2>2. q.step = "compact"
    BY <1>4, <2>1 DEF CompactRoom, Doing
  <2>3. PICK episode \in Episodes : episode = q.episode
    BY <2>1, <2>2 DEF Sound
  <2>4. PICK c : c = Context /\ Orderly(c)
    BY RoomNow DEF RequestInvariant, Invariant
  <2>5. MembersAged(c)
    BY <2>4, AgedNow DEF RequestInvariant, Invariant
  <2>6. PICK cold : cold = ColdEpisodes(q.expected.snapshot)
    OBVIOUS
  <2>7. PICK request : request = CompactRequest(q.expected, episode, cold)
    OBVIOUS
  <2>8. request.episode = episode /\ request.cold = cold /\ request.expected = q.expected
    BY <2>7 DEF CompactRequest
  <2>9. PICK attempt : attempt = <<"compact", episode>>
    OBVIOUS
  <2>10. /\ Fresh(attempt) /\ Current(request) /\ CompactValid(request)
         /\ snapshots' = Append(snapshots, Compacted(Context, request.episode, request.cold))
         /\ WriteReceipt(attempt, request, "committed", Revision + 1)
    BY <1>4, <2>1, <2>3, <2>6, <2>7, <2>9 DEF CompactRoom, Compact
  <2>11. q.expected.snapshot = c
    BY <2>4, <2>8, <2>10 DEF Current, Seen, Context
  <2>12. /\ Len(episode.members) > 0 /\ Len(episode.members) <= Len(InZone(c, "hot"))
         /\ episode.members = OldestHot(c, Len(episode.members))
    BY <2>4, <2>8, <2>10 DEF CompactValid
  <2>13. PICK d : d = Compacted(c, episode, ColdEpisodes(c))
    OBVIOUS
  <2>14. d \in Contexts
    BY <2>4, <2>12, <2>13, CompactedRows
  <2>15. MembersAged(d)
    BY <2>4, <2>5, <2>12, <2>13, CompactedAged
  <2>16. snapshots' = Append(snapshots, d)
    BY <2>4, <2>6, <2>8, <2>10, <2>11, <2>13
  <2>17. \A t \in Turns : SelectionAttempt(t) # attempt
    BY <2>9 DEF SelectionAttempt
  <2> QED BY <1>1, <2>10, <2>14, <2>15, <2>16, <2>17, RevisionWritten
<1>5. \/ UNCHANGED zoneVars
      \/ \E h \in Handlers : AppendUnit(h) \/ CompactRoom(h)
  <2>1. CASE UpkeepNext
    BY <2>1 DEF UpkeepNext, ItemComesDue, ItemCleanedUp
  <2>2. ASSUME NEW h \in Handlers, HandlerNext(h)
        PROVE  UNCHANGED zoneVars \/ AppendUnit(h) \/ CompactRoom(h)
    BY <2>2 DEF HandlerNext, BeginSync, BindUnit, ApplyReplayed, ApplyRefused, ApplyReported,
       AcquireLease, ApplyBundle, ProjectApplied, RecordApplication, ReadForIngestion,
       IngestionReplayed, LockJournal, JournalBusy, PlanCompaction, FinishIngestion, EndSync,
       FailSync, CrashSync
  <2> QED BY <2>1, <2>2 DEF SyncNext
<1> QED BY <1>2, <1>3, <1>4, <1>5

(***************************************************************************)
(* The builders.                                                           *)
(***************************************************************************)
LEMMA MovedBuilder ==
  ASSUME NEW q, BuilderShape(q), NEW s \in BuildSteps
  PROVE  LET r == [q EXCEPT !.step = s] IN
         /\ BuilderShape(r) /\ r.step = s /\ r.turn = q.turn /\ r.row = q.row /\ r.cold = q.cold
         /\ r.offer = q.offer /\ r.m2 = q.m2
BY DEF BuilderShape

\* A failed builder and an idle one claim nothing but their turn.
LEMMA FailedBuilder ==
  ASSUME NEW q, BuilderHolds(q), q.step # "idle"
  PROVE  BuilderHolds([q EXCEPT !.step = "failed"])
<1>1. PICK r : r = [q EXCEPT !.step = "failed"]
  OBVIOUS
<1>2. BuilderShape(r) /\ r.step = "failed" /\ r.turn = q.turn
  BY <1>1, MovedBuilder DEF BuilderHolds, BuildSteps
<1>3. r.turn \in Turns
  BY <1>2 DEF BuilderHolds
<1> QED BY <1>1, <1>2, <1>3 DEF BuilderHolds, ReadingSteps

LEMMA IdleBuilderHolds == BuilderHolds(IdleBuilder) /\ IdleBuilder.step = "idle"
<1>1. PICK r : r = IdleBuilder
  OBVIOUS
<1>2. BuilderShape(r) /\ r.step = "idle"
  BY <1>1 DEF IdleBuilder, BuilderShape, BuildSteps
<1> QED BY <1>1, <1>2 DEF BuilderHolds, ReadingSteps

\* A builder that reads.
LEMMA ReadingStep ==
  ASSUME RequestInvariant, NEW b \in Builders, NEW r, build' = [build EXCEPT ![b] = r],
         BuilderHolds(r),
         UNCHANGED <<zoneVars, syncVars, integrations, artifacts, phases, attempts, held>>
  PROVE  RequestInvariant'
<1>1. Later /\ RoomsAged'
  BY NothingStored
<1>2. Invariant'
  BY InvariantNext DEF RequestInvariant
<1>3. BuilderHolds(r)'
  BY <1>1, BuilderStays
<1>4. DOMAIN build' = Builders /\ build'[b] = r /\ \A x \in Builders \ {b} : build'[x] = build[x]
  BY DEF RequestInvariant
<1>5. BuilderHolds(build[b])'
  BY <1>3, <1>4 DEF BuilderHolds, BuilderShape, NoCold, SelectionAttempt, SectionSize
<1>6. \A x \in Builders : build'[x] = build[x] \/ BuilderHolds(build[x])'
  BY <1>4, <1>5
<1>7. receipts' = receipts
  BY DEF zoneVars
<1> QED BY <1>1, <1>2, <1>4, <1>6, <1>7, StoresGrow

LEMMA BeginBuildKeeps ==
  ASSUME RequestInvariant, NEW b \in Builders, NEW t \in Turns, NEW offer, NEW now,
         BeginBuild(b, t, offer, now)
  PROVE  RequestInvariant'
<1>1. PICK q : q = IdleBuilder
  OBVIOUS
<1>2. PICK r : r = [q EXCEPT !.step = "lookup", !.turn = t, !.offer = offer, !.now = now]
  OBVIOUS
<1>3. BuilderShape(r) /\ r.step = "lookup" /\ r.turn = t /\ r.cold = None
  BY <1>1, <1>2 DEF IdleBuilder, BuilderShape, BuildSteps
<1>4. BuilderHolds(r)
  BY <1>3 DEF BuilderHolds, NoCold, ReadingSteps
<1> QED BY <1>1, <1>2, <1>4, ReadingStep DEF BeginBuild, Put

LEMMA ReadWorkingSetKeeps ==
  ASSUME RequestInvariant, NEW b \in Builders, ReadWorkingSet(b)
  PROVE  RequestInvariant'
<1>1. PICK q : q = build[b]
  OBVIOUS
<1>2. BuilderHolds(q) /\ q.step = "lookup" /\ BuilderShape(q)
  BY <1>1 DEF RequestInvariant, ReadWorkingSet, Is, BuilderHolds
<1>3. CASE ~Readable
  BY <1>1, <1>2, <1>3, FailedBuilder, ReadingStep DEF ReadWorkingSet, Move, Put
<1>4. CASE Readable
  <2>1. PICK s \in {"scan", "room"} : s = IF q.offer.intent THEN "scan" ELSE "room"
    OBVIOUS
  <2>2. PICK r : r = [q EXCEPT !.m2 = Projection, !.step = s]
    OBVIOUS
  <2>3. BuilderShape(r) /\ r.step = s /\ r.turn = q.turn /\ r.cold = q.cold /\ r.m2 = Projection
    BY <1>2, <2>2 DEF BuilderShape, BuildSteps
  <2>4. SectionSize(r.m2) \in Nat
    BY <2>3 DEF RequestInvariant, Invariant, TypesHold, Projection, SectionSize
  <2>5. BuilderHolds(r)
    BY <1>2, <2>3, <2>4 DEF BuilderHolds, NoCold
  <2>6. build' = [build EXCEPT ![b] = r]
    BY <1>1, <1>4, <2>1, <2>2 DEF ReadWorkingSet, Put
  <2> QED BY <2>5, <2>6, ReadingStep DEF ReadWorkingSet
<1> QED BY <1>3, <1>4

LEMMA ScanColdKeeps ==
  ASSUME RequestInvariant, NEW b \in Builders, ScanCold(b)
  PROVE  RequestInvariant'
<1>1. PICK q : q = build[b]
  OBVIOUS
<1>2. BuilderHolds(q) /\ q.step = "scan" /\ BuilderShape(q)
  BY <1>1 DEF RequestInvariant, ScanCold, Is, BuilderHolds
<1>3. PICK cold : cold = [i \in DOMAIN EpisodesIn(Context, "cold") |->
                            EpisodesIn(Context, "cold")[i].id]
  OBVIOUS
<1>4. Revision = 0 => cold = <<>>
  <2> SUFFICES ASSUME Revision = 0 PROVE cold = <<>>
    OBVIOUS
  <2>1. Context.episodes = <<>>
    BY DEF Context, At, EmptyContext
  <2>2. Positions(Context.episodes, "cold") = {}
    BY <2>1 DEF Positions
  <2>3. Cardinality({}) = 0 /\ 1..0 = {}
    BY FS_EmptySet
  <2>4. DOMAIN EpisodesIn(Context, "cold") = {}
    BY <2>2, <2>3 DEF EpisodesIn, RowsIn
  <2> QED BY <1>3, <2>4
<1>5. PICK r : r = [q EXCEPT !.step = "cold_room", !.cold = cold]
  OBVIOUS
<1>6. BuilderShape(r) /\ r.step = "cold_room" /\ r.turn = q.turn /\ r.cold = cold /\ r.m2 = q.m2
  BY <1>2, <1>5 DEF BuilderShape, BuildSteps
<1>7. BuilderHolds(r)
  BY <1>2, <1>4, <1>6 DEF BuilderHolds, NoCold, ReadingSteps
<1>8. build' = [build EXCEPT ![b] = r]
  BY <1>1, <1>3, <1>5 DEF ScanCold, Put
<1> QED BY <1>7, <1>8, ReadingStep DEF ScanCold

LEMMA ReadRoomKeeps ==
  ASSUME RequestInvariant, NEW b \in Builders, ReadRoom(b)
  PROVE  RequestInvariant'
<1>1. PICK q : q = build[b]
  OBVIOUS
<1>2. PICK step \in {"cold_room", "room"} :
        /\ q.step = step
        /\ build' = [build EXCEPT ![b] = [q EXCEPT !.row = Revision,
                                   !.step = IF step = "room" THEN "units" ELSE "cold_units"]]
        /\ UNCHANGED <<zoneVars, syncVars, integrations, artifacts, phases, attempts, held>>
  BY <1>1 DEF ReadRoom, Is, Put
<1>3. PICK s \in {"units", "cold_units"} : s = IF step = "room" THEN "units" ELSE "cold_units"
  OBVIOUS
<1>4. PICK r : r = [q EXCEPT !.row = Revision, !.step = s]
  OBVIOUS
<1>5. BuilderHolds(q) /\ BuilderShape(q)
  BY <1>1 DEF RequestInvariant, BuilderHolds
<1>6. /\ BuilderShape(r) /\ r.step = s /\ r.turn = q.turn /\ r.cold = q.cold /\ r.row = Revision
      /\ r.m2 = q.m2
  BY <1>4, <1>5 DEF BuilderShape, BuildSteps
<1>7. Revision \in 0..Revision
  BY DEF RequestInvariant, Invariant, TypesHold, Revision
<1>8. BuilderHolds(r)
  BY <1>2, <1>5, <1>6, <1>7 DEF BuilderHolds, NoCold, ReadingSteps
<1> QED BY <1>2, <1>3, <1>4, <1>8, ReadingStep

LEMMA ReadUnitsKeeps ==
  ASSUME RequestInvariant, NEW b \in Builders, ReadUnits(b)
  PROVE  RequestInvariant'
<1>1. PICK q : q = build[b]
  OBVIOUS
<1>2. PICK step \in {"cold_units", "units"} :
        /\ q.step = step
        /\ build' = [build EXCEPT ![b] = [q EXCEPT !.units = Context.units,
                                   !.step = IF step = "units" THEN "select" ELSE "cold_receipt"]]
        /\ UNCHANGED <<zoneVars, syncVars, integrations, artifacts, phases, attempts, held>>
  BY <1>1 DEF ReadUnits, Is, Put
<1>3. PICK s \in {"select", "cold_receipt"} :
        s = IF step = "units" THEN "select" ELSE "cold_receipt"
  OBVIOUS
<1>4. PICK r : r = [q EXCEPT !.units = Context.units, !.step = s]
  OBVIOUS
<1>5. BuilderHolds(q) /\ BuilderShape(q)
  BY <1>1 DEF RequestInvariant, BuilderHolds
<1>6. /\ BuilderShape(r) /\ r.step = s /\ r.turn = q.turn /\ r.cold = q.cold /\ r.row = q.row
      /\ r.m2 = q.m2
  BY <1>4, <1>5 DEF BuilderShape, BuildSteps
<1>7. BuilderHolds(r)
  BY <1>2, <1>3, <1>5, <1>6 DEF BuilderHolds, NoCold, ReadingSteps
<1> QED BY <1>2, <1>3, <1>4, <1>7, ReadingStep

LEMMA FailBuildKeeps ==
  ASSUME RequestInvariant, NEW b \in Builders, FailBuild(b)
  PROVE  RequestInvariant'
BY IdleBuilderHolds, ReadingStep DEF FailBuild, Put

\* A receipt of a builder, which goes on with what the receipt shows.
LEMMA ReceiptStep ==
  ASSUME RequestInvariant, NEW b \in Builders, NEW r, build' = [build EXCEPT ![b] = r],
         NEW attempt, NEW request, NEW state, NEW result, state # "committed",
         AuxiliaryReceipt(attempt, request, state, result),
         UNCHANGED <<syncVars, integrations, artifacts, phases, attempts, held>>,
         BuilderHolds(r)',
         \A t \in Turns : SelectionAttempt(t) = attempt =>
           Momentary([request |-> request, state |-> state, result |-> result])
  PROVE  RequestInvariant'
<1>1. Invariant'
  BY AuxiliaryKeeps DEF RequestInvariant
<1>2. snapshots' = snapshots /\ Extends(receipts, receipts')
  BY DEF AuxiliaryReceipt, WriteReceipt, Fresh, Extends
<1>3. Revision \in Nat /\ Revision' = Revision
  BY <1>2 DEF RequestInvariant, Invariant, TypesHold, Revision
<1>4. \A n \in 0..Revision : At(n)' = At(n)
  BY <1>2 DEF At
<1>5. Later
  BY <1>2, <1>3, <1>4 DEF Later, Extends
<1>6. RoomsAged'
  BY <1>2, <1>3 DEF RequestInvariant, RoomsAged, MembersAged
<1>7. ASSUME NEW t \in Turns, SelectionAttempt(t) \in DOMAIN receipts',
             SelectionAttempt(t) \notin DOMAIN receipts
      PROVE  Momentary(receipts[SelectionAttempt(t)])'
  <2>1. WriteReceipt(attempt, request, state, result) /\ SelectionAttempt(t) = attempt
    BY <1>7 DEF AuxiliaryReceipt, WriteReceipt
  <2>2. PICK x : x = [request |-> request, state |-> state, result |-> result]
    OBVIOUS
  <2>3. Momentary(x)'
    BY <1>5, <2>1, <2>2, MomentStays
  <2>4. receipts'[SelectionAttempt(t)] = x
    BY <2>1, <2>2 DEF WriteReceipt
  <2> QED BY <2>3, <2>4 DEF Momentary, Apart, MembersOf, At, SelectionAttempt
<1>8. DOMAIN build' = Builders /\ build'[b] = r /\ \A x \in Builders \ {b} : build'[x] = build[x]
  BY DEF RequestInvariant
<1>9. BuilderHolds(build[b])'
  BY <1>8 DEF BuilderHolds, BuilderShape, NoCold, SelectionAttempt, SectionSize
<1>10. \A x \in Builders : build'[x] = build[x] \/ BuilderHolds(build[x])'
  BY <1>8, <1>9
<1> QED BY <1>1, <1>5, <1>6, <1>7, <1>8, <1>10, StoresGrow

\* A receipt that is no revision adds to the receipts only.
LEMMA AuxiliaryLater ==
  ASSUME RequestInvariant, NEW attempt, NEW request, NEW state, NEW result,
         AuxiliaryReceipt(attempt, request, state, result), UNCHANGED <<integrations, artifacts>>
  PROVE  Later
<1>1. snapshots' = snapshots /\ Extends(receipts, receipts')
  BY DEF AuxiliaryReceipt, WriteReceipt, Fresh, Extends
<1>2. Revision \in Nat /\ Revision' = Revision
  BY <1>1 DEF RequestInvariant, Invariant, TypesHold, Revision
<1>3. \A n \in 0..Revision : At(n)' = At(n)
  BY <1>1 DEF At
<1> QED BY <1>1, <1>2, <1>3 DEF Later, Extends

LEMMA RecordColdKeeps ==
  ASSUME RequestInvariant, NEW b \in Builders, RecordCold(b)
  PROVE  RequestInvariant'
<1>1. PICK q : q = build[b]
  OBVIOUS
<1>2. BuilderHolds(q) /\ q.step = "cold_receipt" /\ BuilderShape(q)
  BY <1>1 DEF RequestInvariant, RecordCold, Is, BuilderHolds
<1>3. CASE Whole(b) /\ ~Collides(ColdAttempt(b), ColdRequest(b))
  <2>1. PICK attempt : attempt = ColdAttempt(b)
    OBVIOUS
  <2>2. \A t \in Turns : SelectionAttempt(t) # attempt
    BY <2>1 DEF SelectionAttempt, ColdAttempt
  <2>3. PICK state \in {"no_match", "selected"} :
          state = IF build[b].cold = <<>> THEN "no_match" ELSE "selected"
    OBVIOUS
  <2>4. PICK request : request = ColdRequest(b)
    OBVIOUS
  <2>5. PICK r : r = [q EXCEPT !.step = "room"]
    OBVIOUS
  <2>6. /\ AuxiliaryReceipt(attempt, request, state, q.cold)
        /\ build' = [build EXCEPT ![b] = r]
        /\ UNCHANGED <<syncVars, integrations, artifacts, phases, attempts, held>>
    BY <1>1, <1>3, <2>1, <2>3, <2>4, <2>5 DEF RecordCold, Move, Put
  <2>7. BuilderShape(r) /\ r.step = "room" /\ r.turn = q.turn /\ r.cold = q.cold /\ r.m2 = q.m2
    <3>1. PICK s \in BuildSteps : s = "room"
      BY DEF BuildSteps
    <3>2. r = [q EXCEPT !.step = s]
      BY <2>5, <3>1
    <3> QED BY <1>2, <3>1, <3>2, MovedBuilder
  <2>8. BuilderHolds(r)
    BY <1>2, <2>7 DEF BuilderHolds, NoCold, ReadingSteps
  <2>9. Later
    BY <2>6, AuxiliaryLater
  <2>10. BuilderHolds(r)'
    BY <2>8, <2>9, BuilderStays
  <2>11. state # "committed"
    BY <2>3
  <2> QED BY <2>2, <2>6, <2>10, <2>11, ReceiptStep
<1>4. CASE ~(Whole(b) /\ ~Collides(ColdAttempt(b), ColdRequest(b)))
  <2>1. PICK r : r = [q EXCEPT !.step = "failed"]
    OBVIOUS
  <2>2. BuilderHolds(r)
    BY <1>2, <2>1, FailedBuilder
  <2>3. build' = [build EXCEPT ![b] = r] /\ UNCHANGED zoneVars
    BY <1>1, <1>4, <2>1 DEF RecordCold, Move, Put
  <2> QED BY <2>2, <2>3, ReadingStep DEF RecordCold
<1> QED BY <1>3, <1>4

\* The newest rows are some of the rows.
LEMMA NewestAre ==
  ASSUME NEW S, NEW s \in Seq(S), NEW n \in Int, n <= Len(s)
  PROVE  Range(Newest(s, n)) \subseteq Range(s)
<1>1. PICK m \in Nat \ {0} : m = Len(s) + 1 - n
  OBVIOUS
<1>2. PICK g : g = SubSeq(s, m, Len(s))
  OBVIOUS
<1>3. DOMAIN g = 1..(Len(s) + 1 - m)
  BY <1>2
<1>4. \A i \in 1..(Len(s) + 1 - m) : g[i] = s[m + i - 1]
  BY <1>2
<1>5. \A i \in 1..(Len(s) + 1 - m) : m + i - 1 \in DOMAIN s
  OBVIOUS
<1>6. Range(g) \subseteq Range(s)
  BY <1>3, <1>4, <1>5 DEF Range
<1> QED BY <1>1, <1>2, <1>6 DEF Newest

\* No more fit than there are.
LEMMA FitBounds ==
  ASSUME NEW x \in Int, NEW size \in Nat \ {0}, NEW count \in Nat
  PROVE  Fit(x, size, count) \in Int /\ Fit(x, size, count) <= count
<1>1. PICK y \in Int : y = x \div size
  OBVIOUS
<1> QED BY <1>1 DEF Fit

\* What a selection takes of each zone.
LEMMA SelectedCold ==
  ASSUME NEW body, NEW m2, NEW cold
  PROVE  Selected(body, m2, cold).cold \subseteq Range(cold)
BY DEF Selected

LEMMA SelectedNewest ==
  ASSUME NEW body, NEW m2, NEW cold, SectionSize(m2) \in Nat, NEW S, NEW T,
         InZone(body, "hot") \in Seq(S), EpisodesIn(body, "warm") \in Seq(T)
  PROVE  /\ Selected(body, m2, cold).hot \subseteq {u.unit : u \in Range(InZone(body, "hot"))}
         /\ Selected(body, m2, cold).warm \subseteq {e.id : e \in Range(EpisodesIn(body, "warm"))}
<1>1. PICK Hot \in Seq(S) : Hot = InZone(body, "hot")
  OBVIOUS
<1>2. PICK Warm \in Seq(T) : Warm = EpisodesIn(body, "warm")
  OBVIOUS
<1>3. /\ ContextBudget \in Nat /\ UnitSize \in Nat \ {0} /\ EpisodeSize \in Nat \ {0}
      /\ Len(Hot) \in Nat /\ Len(Warm) \in Nat
  BY SizesAssumption
<1>4. PICK ForHot \in Int : ForHot = ContextBudget - SectionSize(m2)
  BY <1>3
<1>5. PICK hot : hot = Fit(ForHot, UnitSize, Len(Hot))
  OBVIOUS
<1>6. hot \in Int /\ hot <= Len(Hot)
  BY <1>3, <1>4, <1>5, FitBounds
<1>7. PICK ForWarm \in Int : ForWarm = ForHot - hot * UnitSize
  BY <1>3, <1>4, <1>6
<1>8. PICK warm : warm = Fit(ForWarm, EpisodeSize, Len(Warm))
  OBVIOUS
<1>9. warm \in Int /\ warm <= Len(Warm)
  BY <1>3, <1>7, <1>8, FitBounds
<1>10. PICK newHot : newHot = Range(Newest(Hot, hot))
  OBVIOUS
<1>11. PICK newWarm : newWarm = Range(Newest(Warm, warm))
  OBVIOUS
<1>12. PICK new : new = Selected(body, m2, cold)
  OBVIOUS
<1>13. new.hot = {u.unit : u \in newHot} /\ new.warm = {e.id : e \in newWarm}
  BY <1>1, <1>2, <1>4, <1>5, <1>7, <1>8, <1>10, <1>11, <1>12 DEF Selected
<1>14. newHot \subseteq Range(Hot)
  BY <1>6, <1>10, NewestAre
<1>15. newWarm \subseteq Range(Warm)
  BY <1>9, <1>11, NewestAre
<1> QED BY <1>1, <1>2, <1>12, <1>13, <1>14, <1>15

\* A selection of one room names no turn twice.
LEMMA SelectionApart ==
  ASSUME NEW c, Orderly(c), MembersAged(c), NEW m2, NEW cold, SectionSize(m2) \in Nat,
         \A i \in DOMAIN cold : \E e \in DOMAIN c.episodes :
            c.episodes[e].id = cold[i] /\ c.episodes[e].zone = "cold"
  PROVE  Apart(Selected(c, m2, cold))
<1>1. PICK p \in 0..Len(c.units) :
        /\ Positions(c.units, "hot") = (p + 1)..Len(c.units)
        /\ Len(InZone(c, "hot")) = Len(c.units) - p
        /\ \A n \in 1..(Len(c.units) - p) : InZone(c, "hot")[n] = c.units[p + n]
  BY HotUnits
<1>2. PICK q \in 0..Len(c.episodes) :
        /\ Positions(c.episodes, "warm") = (q + 1)..Len(c.episodes)
        /\ Len(EpisodesIn(c, "warm")) = Len(c.episodes) - q
        /\ \A n \in 1..(Len(c.episodes) - q) : EpisodesIn(c, "warm")[n] = c.episodes[q + n]
  BY WarmEpisodes
<1>3. /\ c.units \in Seq(UnitRows) /\ c.episodes \in Seq(EpisodeRows)
      /\ Len(c.units) \in Nat /\ Len(c.episodes) \in Nat
      /\ DOMAIN c.units = 1..Len(c.units) /\ DOMAIN c.episodes = 1..Len(c.episodes)
  <2>1. c.units \in Seq(UnitRows) /\ c.episodes \in Seq(EpisodeRows)
    BY DEF Orderly, Contexts
  <2> QED BY <2>1
<1>4. /\ Cardinality(Positions(c.units, "hot")) = Len(c.units) - p
      /\ Cardinality(Positions(c.episodes, "warm")) = Len(c.episodes) - q
  BY <1>1, <1>2, <1>3, SuffixNth
<1>5. DOMAIN InZone(c, "hot") = 1..(Len(c.units) - p)
  BY <1>4 DEF InZone, RowsIn
<1>6. DOMAIN EpisodesIn(c, "warm") = 1..(Len(c.episodes) - q)
  BY <1>4 DEF EpisodesIn, RowsIn
<1>7. \A u \in Range(InZone(c, "hot")) :
        \E i \in DOMAIN c.units : c.units[i] = u /\ c.units[i].zone = "hot"
  <2>1. \A n \in 1..(Len(c.units) - p) : p + n \in Positions(c.units, "hot")
    BY <1>1, <1>3
  <2>2. \A i \in Positions(c.units, "hot") : i \in DOMAIN c.units /\ c.units[i].zone = "hot"
    BY DEF Positions
  <2>3. \A u \in Range(InZone(c, "hot")) :
          \E n \in DOMAIN InZone(c, "hot") : u = InZone(c, "hot")[n]
    BY DEF Range
  <2>4. ASSUME NEW n \in 1..(Len(c.units) - p)
        PROVE  p + n \in DOMAIN c.units /\ c.units[p + n].zone = "hot"
    BY <2>1, <2>2
  <2>5. \A n \in 1..(Len(c.units) - p) :
          \E i \in DOMAIN c.units : c.units[i] = InZone(c, "hot")[n] /\ c.units[i].zone = "hot"
    BY <1>1, <2>4
  <2>6. ASSUME NEW u \in Range(InZone(c, "hot"))
        PROVE  \E i \in DOMAIN c.units : c.units[i] = u /\ c.units[i].zone = "hot"
    <3>1. PICK n \in DOMAIN InZone(c, "hot") : u = InZone(c, "hot")[n]
      BY <2>3
    <3>2. n \in 1..(Len(c.units) - p)
      BY <1>5, <3>1
    <3> QED BY <2>5, <3>1, <3>2
  <2> QED BY <2>6
<1>8. \A w \in Range(EpisodesIn(c, "warm")) :
        \E e \in DOMAIN c.episodes : c.episodes[e] = w /\ c.episodes[e].zone = "warm"
  <2>1. \A n \in 1..(Len(c.episodes) - q) : q + n \in Positions(c.episodes, "warm")
    BY <1>2, <1>3
  <2>2. \A e \in Positions(c.episodes, "warm") :
          e \in DOMAIN c.episodes /\ c.episodes[e].zone = "warm"
    BY DEF Positions
  <2>3. \A w \in Range(EpisodesIn(c, "warm")) :
          \E n \in DOMAIN EpisodesIn(c, "warm") : w = EpisodesIn(c, "warm")[n]
    BY DEF Range
  <2>4. ASSUME NEW n \in 1..(Len(c.episodes) - q)
        PROVE  q + n \in DOMAIN c.episodes /\ c.episodes[q + n].zone = "warm"
    BY <2>1, <2>2
  <2>5. \A n \in 1..(Len(c.episodes) - q) :
          \E e \in DOMAIN c.episodes :
            c.episodes[e] = EpisodesIn(c, "warm")[n] /\ c.episodes[e].zone = "warm"
    BY <1>2, <2>4
  <2>6. ASSUME NEW w \in Range(EpisodesIn(c, "warm"))
        PROVE  \E e \in DOMAIN c.episodes : c.episodes[e] = w /\ c.episodes[e].zone = "warm"
    <3>1. PICK n \in DOMAIN EpisodesIn(c, "warm") : w = EpisodesIn(c, "warm")[n]
      BY <2>3
    <3>2. n \in 1..(Len(c.episodes) - q)
      BY <1>6, <3>1
    <3> QED BY <2>5, <3>1, <3>2
  <2> QED BY <2>6
<1>9. InZone(c, "hot") \in Seq(UnitRows)
  <2>1. InZone(c, "hot") = [n \in 1..(Len(c.units) - p) |-> InZone(c, "hot")[n]]
    BY <1>4 DEF InZone, RowsIn
  <2>2. \A n \in 1..(Len(c.units) - p) : InZone(c, "hot")[n] \in UnitRows
    BY <1>1, <1>3
  <2>3. Len(c.units) - p \in Nat
    BY <1>1, <1>3
  <2> QED BY <2>1, <2>2, <2>3, RowsOf
<1>10. EpisodesIn(c, "warm") \in Seq(EpisodeRows)
  <2>1. EpisodesIn(c, "warm") = [n \in 1..(Len(c.episodes) - q) |-> EpisodesIn(c, "warm")[n]]
    BY <1>4 DEF EpisodesIn, RowsIn
  <2>2. \A n \in 1..(Len(c.episodes) - q) : EpisodesIn(c, "warm")[n] \in EpisodeRows
    BY <1>2, <1>3
  <2>3. Len(c.episodes) - q \in Nat
    BY <1>2, <1>3
  <2> QED BY <2>1, <2>2, <2>3, RowsOf
<1>11. PICK s : s = Selected(c, m2, cold)
  OBVIOUS
<1>12. /\ \A x \in s.hot : \E i \in DOMAIN c.units : c.units[i].unit = x /\ c.units[i].zone = "hot"
       /\ \A x \in s.warm : \E e \in DOMAIN c.episodes :
            c.episodes[e].id = x /\ c.episodes[e].zone = "warm"
  BY <1>7, <1>8, <1>9, <1>10, <1>11, SelectedNewest
<1>13. \A x \in s.cold : \E e \in DOMAIN c.episodes :
         c.episodes[e].id = x /\ c.episodes[e].zone = "cold"
  BY <1>11, SelectedCold DEF Range
<1>14. s.warm \cap s.cold = {}
  <2> SUFFICES ASSUME NEW x \in s.warm, x \in s.cold PROVE FALSE
    OBVIOUS
  <2>1. PICK e \in DOMAIN c.episodes : c.episodes[e].id = x /\ c.episodes[e].zone = "warm"
    BY <1>12
  <2>2. PICK f \in DOMAIN c.episodes : c.episodes[f].id = x /\ c.episodes[f].zone = "cold"
    BY <1>13
  <2> QED BY <2>1, <2>2 DEF Orderly, Distinct
<1>15. ASSUME NEW x \in s.hot, NEW e \in s.warm \cup s.cold, x \in Range(e.members) PROVE FALSE
  <2>1. PICK i \in DOMAIN c.units : c.units[i].unit = x /\ c.units[i].zone = "hot"
    BY <1>12
  <2>2. PICK f \in DOMAIN c.episodes : c.episodes[f].id = e
    BY <1>12, <1>13
  <2>3. PICK k \in DOMAIN e.members : e.members[k] = x
    BY <1>15 DEF Range
  <2>4. PICK j \in DOMAIN c.units : c.units[j].unit = x /\ c.units[j].zone # "hot"
    BY <2>2, <2>3 DEF MembersAged
  <2> QED BY <2>1, <2>4 DEF Orderly, Distinct
<1>16. s.hot \cap MembersOf(s.warm \cup s.cold) = {}
  BY <1>15 DEF MembersOf
<1> QED BY <1>11, <1>14, <1>16 DEF Apart

LEMMA MomentSelected ==
  ASSUME RequestInvariant, NEW b \in Builders, BuilderHolds(build[b]), build[b].step = "select",
         Whole(b), ColdIsCold(b), ~OverBudget(b),
         ~Overlaps(Selected(Body(b), build[b].m2, ColdChosen(b)))
  PROVE  /\ build[b].row \in 0..Revision
         /\ build[b].row > 0 => Body(b) = At(build[b].row)
         /\ Apart(Selected(Body(b), build[b].m2, ColdChosen(b)))
<1>1. PICK q : q = build[b]
  OBVIOUS
<1>2. q.row \in 0..Revision /\ (q.row = 0 => NoCold(q)) /\ SectionSize(q.m2) \in Nat
  BY <1>1 DEF BuilderHolds, ReadingSteps
<1>3. PICK s : s = Selected(Body(b), q.m2, ColdChosen(b))
  OBVIOUS
<1>4. Revision \in Nat
  BY DEF RequestInvariant, Invariant, TypesHold, Revision
<1>5. CASE q.row = 0
  <2>1. ColdChosen(b) = <<>>
    BY <1>1, <1>2, <1>5 DEF ColdChosen, NoCold
  <2>2. s.cold = {}
    BY <1>3, <2>1, SelectedCold DEF Range
  <2>3. s.hot \cap MembersOf(s.warm) = {}
    BY <1>1, <1>3 DEF Overlaps
  <2>4. s.warm \cup s.cold = s.warm
    BY <2>2
  <2>5. Apart(s)
    BY <2>2, <2>3, <2>4 DEF Apart
  <2> QED BY <1>1, <1>2, <1>3, <1>5, <2>5
<1>6. CASE q.row # 0
  <2>1. q.row \in 1..Revision
    BY <1>2, <1>4, <1>6
  <2>2. PICK c : c = At(q.row)
    OBVIOUS
  <2>3. Body(b) = c
    BY <1>1, <1>6, <2>2 DEF Whole
  <2>4. c = snapshots[q.row]
    BY <1>6, <2>2 DEF At
  <2>5. Orderly(c) /\ MembersAged(c)
    BY <2>1, <2>4 DEF RequestInvariant, Invariant, RoomsOrderly, RoomsAged
  <2>6. c.episodes = Context.episodes
    BY <2>3 DEF Body
  <2>7. PICK cold : cold = ColdChosen(b)
    OBVIOUS
  <2>8. \A i \in DOMAIN cold : \E e \in DOMAIN c.episodes :
           c.episodes[e].id = cold[i] /\ c.episodes[e].zone = "cold"
    BY <2>6, <2>7 DEF ColdIsCold
  <2>9. Apart(s)
    BY <1>2, <1>3, <2>3, <2>5, <2>7, <2>8, SelectionApart
  <2> QED BY <1>1, <1>2, <1>3, <2>2, <2>3, <2>9
<1> QED BY <1>5, <1>6

LEMMA AssembleKeeps ==
  ASSUME RequestInvariant, NEW b \in Builders, Assemble(b)
  PROVE  RequestInvariant'
<1>1. PICK q : q = build[b]
  OBVIOUS
<1>2. BuilderHolds(q) /\ q.step = "select" /\ BuilderShape(q) /\ q.turn \in Turns
  BY <1>1 DEF RequestInvariant, Assemble, Is, BuilderHolds
<1>3. PICK request : request = SelectionRequest(b)
  OBVIOUS
<1>4. PICK selection : selection = Selected(Body(b), q.m2, ColdChosen(b))
  OBVIOUS
<1>5. PICK attempt : attempt = SelectionAttempt(q.turn)
  OBVIOUS
<1>6. request.row = q.row /\ request.snapshot = Body(b)
  BY <1>1, <1>3 DEF SelectionRequest
<1>7. UNCHANGED <<syncVars, integrations, artifacts, phases, attempts, held>>
  BY DEF Assemble
<1>8. CASE ~Whole(b) \/ ~ColdIsCold(b) \/ Collides(attempt, request)
  <2>1. PICK r : r = [q EXCEPT !.step = "failed"]
    OBVIOUS
  <2>2. BuilderHolds(r)
    BY <1>2, <2>1, FailedBuilder
  <2>3. build' = [build EXCEPT ![b] = r] /\ UNCHANGED zoneVars
    BY <1>1, <1>3, <1>5, <1>8, <2>1 DEF Assemble, Move, Put, Turn
  <2> QED BY <1>7, <2>2, <2>3, ReadingStep
<1>9. CASE /\ ~(~Whole(b) \/ ~ColdIsCold(b) \/ Collides(attempt, request))
           /\ OverBudget(b)
  <2>1. PICK r : r = [q EXCEPT !.step = "failed"]
    OBVIOUS
  <2>2. BuilderHolds(r)
    BY <1>2, <2>1, FailedBuilder
  <2>3. PICK state : state = "required_m2_budget_failed_closed"
    OBVIOUS
  <2>4. /\ build' = [build EXCEPT ![b] = r]
        /\ AuxiliaryReceipt(attempt, request, state, None)
    BY <1>1, <1>3, <1>5, <1>9, <2>1, <2>3 DEF Assemble, Move, Put, Turn
  <2>5. BuilderHolds(r)'
    BY <1>7, <2>2, <2>4, AuxiliaryLater, BuilderStays
  <2>6. state # "committed" /\ state # "selected"
    BY <2>3
  <2>7. Momentary([request |-> request, state |-> state, result |-> None])
    BY <2>6 DEF Momentary
  <2> QED BY <1>7, <2>4, <2>5, <2>6, <2>7, ReceiptStep
<1>10. CASE /\ ~(~Whole(b) \/ ~ColdIsCold(b) \/ Collides(attempt, request))
            /\ ~OverBudget(b) /\ Overlaps(selection)
  <2>1. PICK r : r = [q EXCEPT !.step = "failed"]
    OBVIOUS
  <2>2. BuilderHolds(r)
    BY <1>2, <2>1, FailedBuilder
  <2>3. build' = [build EXCEPT ![b] = r] /\ UNCHANGED zoneVars
    BY <1>1, <1>3, <1>4, <1>5, <1>10, <2>1 DEF Assemble, Move, Put, Turn
  <2> QED BY <1>7, <2>2, <2>3, ReadingStep
<1>11. CASE /\ ~(~Whole(b) \/ ~ColdIsCold(b) \/ Collides(attempt, request))
            /\ ~OverBudget(b) /\ ~Overlaps(selection)
  <2>1. PICK r : r = [q EXCEPT !.step = "integrate", !.selection = selection]
    OBVIOUS
  <2>2. /\ build' = [build EXCEPT ![b] = r]
        /\ AuxiliaryReceipt(attempt, request, "selected", selection)
    BY <1>1, <1>3, <1>4, <1>5, <1>11, <2>1 DEF Assemble, Put, Turn
  <2>3. attempt \in DOMAIN receipts'
    BY <2>2 DEF AuxiliaryReceipt, WriteReceipt, Replays
  <2>4. BuilderShape(r) /\ r.step = "integrate" /\ r.turn = q.turn
    BY <1>2, <2>1 DEF BuilderShape, BuildSteps
  <2>5. BuilderHolds(r)'
    BY <1>2, <1>5, <2>3, <2>4 DEF BuilderHolds, BuilderShape, SelectionAttempt, ReadingSteps
  <2>6. /\ q.row \in 0..Revision /\ (q.row > 0 => Body(b) = At(q.row)) /\ Apart(selection)
    BY <1>1, <1>2, <1>4, <1>11, MomentSelected
  <2>7. Momentary([request |-> request, state |-> "selected", result |-> selection])
    BY <1>6, <2>6 DEF Momentary
  <2> QED BY <1>7, <2>2, <2>5, <2>7, ReceiptStep
<1> QED BY <1>8, <1>9, <1>10, <1>11

\* A builder that writes no room and no receipt.
LEMMA NothingInZones ==
  ASSUME RequestInvariant, UNCHANGED <<zoneVars, syncVars>>
  PROVE  Invariant' /\ RoomsAged' /\ receipts' = receipts
<1>1. Invariant'
  BY InvariantNext DEF RequestInvariant
<1>2. snapshots' = snapshots /\ receipts' = receipts
  BY DEF zoneVars
<1> QED BY <1>1, <1>2 DEF RequestInvariant, RoomsAged, MembersAged, Revision

LEMMA IntegrateKeeps ==
  ASSUME RequestInvariant, NEW b \in Builders, Integrate(b)
  PROVE  RequestInvariant'
<1>1. PICK q : q = build[b]
  OBVIOUS
<1>2. PICK t : t = q.turn
  OBVIOUS
<1>3. /\ BuilderHolds(q) /\ q.step = "integrate" /\ BuilderShape(q) /\ t \in Turns
      /\ SelectionAttempt(t) \in DOMAIN receipts
  BY <1>1, <1>2 DEF RequestInvariant, Integrate, Is, BuilderHolds
<1>4. PICK outcome : outcome = Outcome(b)
  OBVIOUS
<1>5. PICK receipt : receipt = [request |-> IntegrationRequest(b), state |-> outcome.state,
                                sections |-> outcome.sections]
  OBVIOUS
<1>6. UNCHANGED <<zoneVars, syncVars, artifacts, phases, attempts, held>>
  BY DEF Integrate
<1>7. CASE outcome.state = "refused" \/ (t \in DOMAIN integrations /\ integrations[t] # receipt)
  <2>1. PICK r : r = [q EXCEPT !.step = "failed"]
    OBVIOUS
  <2>2. BuilderHolds(r)
    BY <1>3, <2>1, FailedBuilder
  <2>3. build' = [build EXCEPT ![b] = r] /\ UNCHANGED integrations
    BY <1>1, <1>2, <1>4, <1>5, <1>7, <2>1 DEF Integrate, Move, Put, Turn
  <2> QED BY <1>6, <2>2, <2>3, ReadingStep
<1>8. CASE ~(outcome.state = "refused" \/ (t \in DOMAIN integrations /\ integrations[t] # receipt))
  <2>1. PICK s \in BuildSteps : s = IF outcome.state = "selected" THEN "store" ELSE "failed"
    BY DEF BuildSteps
  <2>2. PICK r : r = [q EXCEPT !.step = s]
    OBVIOUS
  <2>3. build' = [build EXCEPT ![b] = r] /\ integrations' = Give(integrations, t, receipt)
    BY <1>1, <1>2, <1>4, <1>5, <1>8, <2>1, <2>2 DEF Integrate, Move, Put, Turn
  <2>4. /\ DOMAIN integrations' = DOMAIN integrations \cup {t} /\ integrations'[t] = receipt
        /\ \A x \in DOMAIN integrations : integrations'[x] = integrations[x]
    BY <1>8, <2>3 DEF Give
  <2>5. Invariant' /\ RoomsAged' /\ receipts' = receipts
    BY <1>6, NothingInZones
  <2>6. Later
    <3>1. snapshots' = snapshots
      BY <1>6 DEF zoneVars
    <3>2. Revision \in Nat /\ Revision' = Revision /\ \A n \in 0..Revision : At(n)' = At(n)
      BY <3>1 DEF RequestInvariant, Invariant, TypesHold, Revision, At
    <3> QED BY <1>6, <2>4, <2>5, <3>2 DEF Later, Extends
  <2>7. BuilderShape(r) /\ r.step = s /\ r.turn = t
    BY <1>2, <1>3, <2>2, MovedBuilder
  <2>8. s = "store" => receipt.state = "selected"
    BY <1>5, <2>1
  <2>9. BuilderHolds(r)'
    BY <1>3, <2>1, <2>4, <2>5, <2>7, <2>8
       DEF BuilderHolds, BuilderShape, SelectionAttempt, ReadingSteps
  <2>10. DOMAIN build' = Builders /\ build'[b] = r /\ \A x \in Builders \ {b} : build'[x] = build[x]
    BY <2>3 DEF RequestInvariant
  <2>11. BuilderHolds(build[b])'
    BY <2>9, <2>10 DEF BuilderHolds, BuilderShape, NoCold, SelectionAttempt, SectionSize
  <2>12. \A x \in Builders : build'[x] = build[x] \/ BuilderHolds(build[x])'
    BY <2>10, <2>11
  <2> QED BY <1>6, <2>5, <2>6, <2>10, <2>12, StoresGrow
<1> QED BY <1>7, <1>8

\* An artifact is stored before any phase of its turn is bound.
LEMMA StoreArtifactKeeps ==
  ASSUME RequestInvariant, NEW b \in Builders, StoreArtifact(b)
  PROVE  RequestInvariant'
<1>1. PICK q : q = build[b]
  OBVIOUS
<1>2. PICK t : t = q.turn
  OBVIOUS
<1>3. /\ BuilderHolds(q) /\ q.step = "store" /\ BuilderShape(q) /\ t \in Turns
      /\ SelectionAttempt(t) \in DOMAIN receipts
      /\ t \in DOMAIN integrations /\ integrations[t].state = "selected"
  BY <1>1, <1>2 DEF RequestInvariant, StoreArtifact, Is, BuilderHolds
<1>4. PICK artifact : artifact = Artifact(b)
  OBVIOUS
<1>5. UNCHANGED <<zoneVars, syncVars, integrations, phases, attempts, held>>
  BY DEF StoreArtifact
<1>6. CASE t \in DOMAIN artifacts
  <2>1. PICK s \in BuildSteps :
          s = IF artifacts[t] = artifact THEN "candidate" ELSE "failed"
    BY DEF BuildSteps
  <2>2. PICK r : r = [q EXCEPT !.step = s]
    OBVIOUS
  <2>3. build' = [build EXCEPT ![b] = r] /\ UNCHANGED artifacts
    BY <1>1, <1>2, <1>4, <1>6, <2>1, <2>2 DEF StoreArtifact, Move, Put, Turn
  <2>4. BuilderShape(r) /\ r.step = s /\ r.turn = t
    BY <1>2, <1>3, <2>2, MovedBuilder
  <2>5. BuilderHolds(r)
    BY <1>3, <1>6, <2>1, <2>4 DEF BuilderHolds, ReadingSteps
  <2> QED BY <1>5, <2>3, <2>5, ReadingStep
<1>7. CASE t \notin DOMAIN artifacts
  <2>1. PICK r : r = [q EXCEPT !.step = "candidate"]
    OBVIOUS
  <2>2. build' = [build EXCEPT ![b] = r] /\ artifacts' = Give(artifacts, t, artifact)
    BY <1>1, <1>2, <1>4, <1>7, <2>1 DEF StoreArtifact, Move, Put, Turn
  <2>3. /\ DOMAIN artifacts' = DOMAIN artifacts \cup {t} /\ artifacts'[t] = artifact
        /\ \A x \in DOMAIN artifacts : artifacts'[x] = artifacts[x]
    BY <1>7, <2>2 DEF Give
  <2>4. Invariant' /\ RoomsAged' /\ receipts' = receipts
    BY <1>5, NothingInZones
  <2>5. Later
    <3>1. snapshots' = snapshots
      BY <1>5 DEF zoneVars
    <3>2. Revision \in Nat /\ Revision' = Revision /\ \A n \in 0..Revision : At(n)' = At(n)
      BY <3>1 DEF RequestInvariant, Invariant, TypesHold, Revision, At
    <3> QED BY <1>5, <2>3, <2>4, <3>2 DEF Later, Extends
  <2>6. BuilderShape(r) /\ r.step = "candidate" /\ r.turn = t
    BY <1>2, <1>3, <2>1, MovedBuilder DEF BuildSteps
  <2>7. BuilderHolds(r)'
    BY <1>3, <2>3, <2>6 DEF BuilderHolds, BuilderShape, ReadingSteps
  <2>8. DOMAIN build' = Builders /\ build'[b] = r /\ \A x \in Builders \ {b} : build'[x] = build[x]
    BY <2>2 DEF RequestInvariant
  <2>9. BuilderHolds(build[b])'
    BY <2>7, <2>8 DEF BuilderHolds, BuilderShape, NoCold, SelectionAttempt, SectionSize
  <2>10. \A x \in Builders : build'[x] = build[x] \/ BuilderHolds(build[x])'
    BY <2>8, <2>9
  <2>11. artifact.selection = receipts[SelectionAttempt(t)] /\ artifact.admission = integrations[t]
    BY <1>1, <1>2, <1>4 DEF Artifact, Turn
  <2>12. ArtifactsHold'
    <3>1. \A x \in DOMAIN artifacts' :
            /\ SelectionAttempt(x) \in DOMAIN receipts
            /\ artifacts'[x].selection = receipts[SelectionAttempt(x)]
            /\ x \in DOMAIN integrations /\ artifacts'[x].admission = integrations[x]
            /\ integrations[x].state = "selected"
      BY <1>3, <2>3, <2>11 DEF RequestInvariant, ArtifactsHold
    <3> QED BY <1>5, <2>4, <3>1 DEF ArtifactsHold, SelectionAttempt
  <2>13. ASSUME NEW u \in Turns
         PROVE  /\ u \notin DOMAIN artifacts' => phases[u] = <<>>
                /\ Phased(phases[u], artifacts'[u], attempts[u], held[u])
    <3>1. CASE u = t
      <4>1. phases[t] = <<>> /\ Phased(phases[t], artifacts[t], attempts[t], held[t])
        BY <1>3, <1>7 DEF RequestInvariant, TurnsHold
      <4>2. DOMAIN phases[t] = {}
        BY <4>1
      <4> QED BY <2>3, <3>1, <4>1, <4>2 DEF Phased
    <3>2. CASE u # t
      <4>1. /\ u \notin DOMAIN artifacts => phases[u] = <<>>
            /\ Phased(phases[u], artifacts[u], attempts[u], held[u])
        BY DEF RequestInvariant, TurnsHold
      <4>2. CASE u \in DOMAIN artifacts
        BY <2>3, <4>1, <4>2
      <4>3. CASE u \notin DOMAIN artifacts
        <5>1. phases[u] = <<>> /\ DOMAIN phases[u] = {}
          BY <4>1, <4>3
        <5> QED BY <4>1, <5>1 DEF Phased
      <4> QED BY <4>2, <4>3
    <3> QED BY <3>1, <3>2
  <2>14. TurnsHold'
    BY <1>5, <2>13 DEF TurnsHold, Phased, Names
  <2>15. DOMAIN phases' = Turns /\ DOMAIN attempts' = Turns /\ DOMAIN held' = Turns
    BY <1>5 DEF RequestInvariant
  <2> QED BY <2>4, <2>5, <2>8, <2>10, <2>12, <2>14, <2>15, RequestStep
<1> QED BY <1>6, <1>7

(***************************************************************************)
(* The phases of a turn.                                                   *)
(***************************************************************************)
\* The phase each phase follows.
LEMMA Predecessors ==
  ASSUME NEW t
  PROVE  /\ Predecessor(t, "candidate") = "none"
         /\ Predecessor(t, "preflight") = "candidate"
         /\ Predecessor(t, "activation") = "preflight"
         /\ Predecessor(t, "interception") = "activation"
         /\ Predecessor(t, "dispatch") = "interception"
<1>1. /\ DOMAIN PhaseOrder = 1..5 /\ PhaseOrder[1] = "candidate" /\ PhaseOrder[2] = "preflight"
      /\ PhaseOrder[3] = "activation" /\ PhaseOrder[4] = "interception"
      /\ PhaseOrder[5] = "dispatch"
  BY DEF PhaseOrder
<1>2. \A i \in 1..5 : i = 1 \/ i = 2 \/ i = 3 \/ i = 4 \/ i = 5
  OBVIOUS
<1>3. (CHOOSE i \in DOMAIN PhaseOrder : PhaseOrder[i] = "preflight") = 2
  BY <1>1, <1>2
<1>4. (CHOOSE i \in DOMAIN PhaseOrder : PhaseOrder[i] = "activation") = 3
  BY <1>1, <1>2
<1>5. (CHOOSE i \in DOMAIN PhaseOrder : PhaseOrder[i] = "interception") = 4
  BY <1>1, <1>2
<1>6. (CHOOSE i \in DOMAIN PhaseOrder : PhaseOrder[i] = "dispatch") = 5
  BY <1>1, <1>2
<1> QED BY <1>1, <1>3, <1>4, <1>5, <1>6 DEF Predecessor

LEMMA PhaseNames ==
  Range(PhaseOrder) = {"candidate", "preflight", "activation", "interception", "dispatch"}
<1>1. PhaseOrder = <<"candidate", "preflight", "activation", "interception", "dispatch">>
  BY DEF PhaseOrder
<1>2. DOMAIN PhaseOrder = 1..5
  BY <1>1
<1>3. \A i \in 1..5 : i = 1 \/ i = 2 \/ i = 3 \/ i = 4 \/ i = 5
  OBVIOUS
<1>4. Range(PhaseOrder) = {PhaseOrder[i] : i \in 1..5}
  BY <1>2 DEF Range
<1> QED BY <1>1, <1>3, <1>4

\* Binding a phase adds it, unless it is bound.
With(ps, p) == IF p.phase \in Names(ps) THEN ps ELSE Append(ps, p)

LEMMA PhaseBound ==
  ASSUME DOMAIN phases = Turns, NEW t \in Turns, NEW phase, NEW artifact, NEW input
  PROVE  LET p == PhaseRequest(t, phase, artifact, input)
             new == WithPhase(t, phase, artifact, input) IN
         /\ DOMAIN new = Turns /\ new[t] = With(phases[t], p)
         /\ \A u \in Turns \ {t} : new[u] = phases[u]
<1>1. PICK p : p = PhaseRequest(t, phase, artifact, input)
  OBVIOUS
<1>2. p.phase = phase
  BY <1>1 DEF PhaseRequest
<1>3. Bound(t) = Names(phases[t])
  BY DEF Bound, Names
<1>4. CASE phase \in Bound(t)
  BY <1>1, <1>2, <1>3, <1>4 DEF WithPhase, With
<1>5. CASE phase \notin Bound(t)
  <2>1. WithPhase(t, phase, artifact, input) = [phases EXCEPT ![t] = Append(@, p)]
    BY <1>1, <1>5 DEF WithPhase
  <2> QED BY <1>1, <1>2, <1>3, <1>5, <2>1 DEF With
<1> QED BY <1>4, <1>5

\* A phase may be bound when what it follows is, and with the body that is due.
Due(ps, artifact, a, p) ==
  /\ p.phase \in Range(PhaseOrder) \cup {"rollback"} /\ p.artifact = artifact
  /\ p.phase = "preflight" => "candidate" \in Names(ps)
  /\ p.phase = "activation" => "preflight" \in Names(ps)
  /\ p.phase = "interception" => "activation" \in Names(ps)
  /\ p.phase = "dispatch" => "interception" \in Names(ps)
  /\ p.phase \in Late => p.input = a.endpoint /\ a.state # Early

LEMMA PhasedGrows ==
  ASSUME NEW ps, NEW artifact, NEW a, NEW kept, Phased(ps, artifact, a, kept),
         NEW p, Due(ps, artifact, a, p)
  PROVE  /\ Phased(With(ps, p), artifact, a, kept)
         /\ Names(With(ps, p)) = Names(ps) \cup {p.phase}
<1>1. CASE p.phase \in Names(ps)
  BY <1>1 DEF With
<1>2. CASE p.phase \notin Names(ps)
  <2>1. PICK S : ps \in Seq(S)
    BY DEF Phased
  <2>2. PICK new : new = Append(ps, p)
    OBVIOUS
  <2>3. ps \in Seq(S \cup {p}) /\ p \in S \cup {p}
    BY <2>1
  <2>4. PICK last \in Nat : last = Len(ps) + 1
    BY <2>1
  <2>5. /\ new \in Seq(S \cup {p}) /\ DOMAIN new = 1..last /\ new[last] = p
        /\ DOMAIN ps = 1..Len(ps) /\ \A i \in DOMAIN ps : new[i] = ps[i]
    BY <2>2, <2>3, <2>4
  <2>6. ASSUME NEW i \in DOMAIN new
        PROVE  (i \in DOMAIN ps /\ new[i] = ps[i]) \/ (i = last /\ new[i] = p)
    <3>1. CASE i = last
      BY <2>5, <3>1
    <3>2. CASE i # last
      <4>1. i \in DOMAIN ps
        BY <2>1, <2>4, <2>5, <3>2
      <4> QED BY <2>5, <4>1
    <3> QED BY <3>1, <3>2
  <2>7. \A i \in DOMAIN ps : i \in DOMAIN new /\ new[i] = ps[i]
    BY <2>1, <2>4, <2>5
  <2>8. last \in DOMAIN new /\ new[last] = p
    BY <2>1, <2>4, <2>5
  <2>9. Names(new) = Names(ps) \cup {p.phase}
    <3>1. Names(new) \subseteq Names(ps) \cup {p.phase}
      BY <2>6 DEF Names
    <3>2. Names(ps) \cup {p.phase} \subseteq Names(new)
      BY <2>7, <2>8 DEF Names
    <3> QED BY <3>1, <3>2
  <2>10. \A i, j \in DOMAIN new : new[i].phase = new[j].phase => i = j
    <3>1. \A i \in DOMAIN ps : ps[i].phase # p.phase
      BY <1>2 DEF Names
    <3> QED BY <2>6, <3>1 DEF Phased
  <2>11. /\ \A i \in DOMAIN new : new[i].artifact = artifact
         /\ \A i \in DOMAIN new : new[i].phase \in Range(PhaseOrder) \cup {"rollback"}
         /\ \A i \in DOMAIN new : new[i].phase \in Late =>
              new[i].input = a.endpoint /\ a.state # Early
    BY <2>6 DEF Phased, Due, Late, Early
  <2>12. \A i \in DOMAIN new : new[i].phase = "preflight" /\ a.state # Early =>
           new[i].input = a.endpoint
    <3>1. a.state # Early => p.phase # "preflight"
      BY <1>2 DEF Phased, Early
    <3> QED BY <2>6, <3>1 DEF Phased, Early
  <2>13. /\ "preflight" \in Names(new) => "candidate" \in Names(new)
         /\ "activation" \in Names(new) => "preflight" \in Names(new)
         /\ "interception" \in Names(new) => "activation" \in Names(new)
         /\ "dispatch" \in Names(new) => "interception" \in Names(new)
         /\ kept = "operation" \/ a.state # Early => "preflight" \in Names(new)
    BY <2>9 DEF Phased, Due, Early
  <2>14. AttemptShape(a)
    BY DEF Phased
  <2>15. Phased(new, artifact, a, kept)
    BY <2>5, <2>10, <2>11, <2>12, <2>13, <2>14 DEF Phased, Late, Early
  <2> QED BY <1>2, <2>2, <2>9, <2>15 DEF With
<1> QED BY <1>1, <1>2

\* What happens to one turn, and to the builders.
Moves(f, g, t, value) ==
  /\ DOMAIN g = Turns /\ g[t] = value
  /\ \A u \in Turns \ {t} : g[u] = f[u]

LEMMA TurnStep ==
  ASSUME RequestInvariant, NEW t \in Turns, NEW ps, NEW a, NEW kept,
         Moves(phases, phases', t, ps), Moves(attempts, attempts', t, a),
         Moves(held, held', t, kept),
         Phased(ps, artifacts[t], a, kept), t \in DOMAIN artifacts \/ ps = <<>>,
         UNCHANGED <<zoneVars, syncVars, integrations, artifacts>>,
         DOMAIN build' = Builders,
         \A b \in Builders : build'[b] = build[b] \/ BuilderHolds(build[b])'
  PROVE  RequestInvariant'
<1>1. Later /\ RoomsAged' /\ Invariant' /\ receipts' = receipts
  BY NothingStored, NothingInZones
<1>2. ArtifactsHold'
  BY <1>1, ArtifactsStay DEF RequestInvariant
<1>3. ASSUME NEW u \in Turns
      PROVE  /\ u \notin DOMAIN artifacts => phases'[u] = <<>>
             /\ Phased(phases'[u], artifacts[u], attempts'[u], held'[u])
  <2>1. CASE u = t
    BY <2>1 DEF Moves
  <2>2. CASE u # t
    BY <2>2 DEF Moves, RequestInvariant, TurnsHold
  <2> QED BY <2>1, <2>2
<1>4. TurnsHold'
  BY <1>3 DEF TurnsHold, Phased, Names
<1>5. DOMAIN phases' = Turns /\ DOMAIN attempts' = Turns /\ DOMAIN held' = Turns
  BY DEF Moves
<1> QED BY <1>1, <1>2, <1>4, <1>5, RequestStep

\* A bound phase of a turn, and what PhaseOf returns.
LEMMA PhaseOfBound ==
  ASSUME NEW t, NEW phase, phase \in Names(phases[t])
  PROVE  \E i \in DOMAIN phases[t] : phases[t][i].phase = phase /\ phases[t][i] = PhaseOf(t, phase)
<1>1. \E p \in Range(phases[t]) : p.phase = phase
  BY DEF Names, Range
<1>2. PhaseOf(t, phase) \in Range(phases[t]) /\ PhaseOf(t, phase).phase = phase
  BY <1>1 DEF PhaseOf
<1> QED BY <1>2 DEF Range

\* A phase of the attempt that is due is bound: what the turn holds then.
LEMMA TurnBinds ==
  ASSUME RequestInvariant, NEW t \in Turns, t \in DOMAIN artifacts, NEW phase, NEW input,
         Due(phases[t], artifacts[t], attempts[t], PhaseRequest(t, phase, artifacts[t], input))
  PROVE  LET new == WithPhase(t, phase, artifacts[t], input) IN
         /\ Moves(phases, new, t, new[t])
         /\ Phased(new[t], artifacts[t], attempts[t], held[t])
         /\ Names(new[t]) = Names(phases[t]) \cup {phase}
<1>1. PICK p : p = PhaseRequest(t, phase, artifacts[t], input)
  OBVIOUS
<1>2. p.phase = phase
  BY <1>1 DEF PhaseRequest
<1>3. PICK new : new = WithPhase(t, phase, artifacts[t], input)
  OBVIOUS
<1>4. /\ DOMAIN new = Turns /\ new[t] = With(phases[t], p)
      /\ \A u \in Turns \ {t} : new[u] = phases[u]
  BY <1>1, <1>3, PhaseBound DEF RequestInvariant
<1>5. Phased(phases[t], artifacts[t], attempts[t], held[t])
  BY DEF RequestInvariant, TurnsHold
<1>6. /\ Phased(new[t], artifacts[t], attempts[t], held[t])
      /\ Names(new[t]) = Names(phases[t]) \cup {phase}
  BY <1>1, <1>2, <1>4, <1>5, PhasedGrows
<1> QED BY <1>3, <1>4, <1>6 DEF Moves

\* The candidate's phase follows none.
LEMMA CandidateDue ==
  ASSUME NEW t \in Turns, NEW ps, NEW artifact, NEW a, NEW input
  PROVE  Due(ps, artifact, a, PhaseRequest(t, "candidate", artifact, input))
<1>1. PICK p : p = PhaseRequest(t, "candidate", artifact, input)
  OBVIOUS
<1>2. p.phase = "candidate" /\ p.artifact = artifact
  BY <1>1 DEF PhaseRequest
<1> QED BY <1>1, <1>2, PhaseNames DEF Due, Late

\* A builder binds the candidate's phase and goes on.
LEMMA BindsCandidate ==
  ASSUME RequestInvariant, NEW b \in Builders, NEW t \in Turns, t \in DOMAIN artifacts,
         build[b].turn = t, build[b].step # "idle", NEW input,
         phases' = WithPhase(t, "candidate", artifacts[t], input), Move(b, "require"),
         UNCHANGED <<zoneVars, syncVars, integrations, artifacts, attempts, held>>
  PROVE  RequestInvariant'
<1>1. PICK q : q = build[b]
  OBVIOUS
<1>2. BuilderHolds(q) /\ BuilderShape(q)
  BY <1>1 DEF RequestInvariant, BuilderHolds
<1>3. PICK r : r = [q EXCEPT !.step = "require"]
  OBVIOUS
<1>4. BuilderShape(r) /\ r.step = "require" /\ r.turn = q.turn
  BY <1>2, <1>3, MovedBuilder DEF BuildSteps
<1>5. BuilderHolds(r)
  BY <1>1, <1>4 DEF BuilderHolds, ReadingSteps
<1>6. /\ DOMAIN build' = Builders /\ build'[b] = r
      /\ \A x \in Builders \ {b} : build'[x] = build[x]
  BY <1>1, <1>3 DEF RequestInvariant, Move, Put
<1>7. BuilderHolds(r)'
  BY <1>5, NothingStored, BuilderStays
<1>8. BuilderHolds(build[b])'
  BY <1>6, <1>7 DEF BuilderHolds, BuilderShape, NoCold, SelectionAttempt, SectionSize
<1>9. \A x \in Builders : build'[x] = build[x] \/ BuilderHolds(build[x])'
  BY <1>6, <1>8
<1>10. PICK ps : ps = phases'[t]
  OBVIOUS
<1>11. Moves(phases, phases', t, ps) /\ Phased(ps, artifacts[t], attempts[t], held[t])
  BY <1>10, CandidateDue, TurnBinds
<1>12. Moves(attempts, attempts', t, attempts[t]) /\ Moves(held, held', t, held[t])
  BY DEF Moves, RequestInvariant
<1> QED BY <1>6, <1>9, <1>11, <1>12, TurnStep

LEMMA BindCandidateKeeps ==
  ASSUME RequestInvariant, NEW b \in Builders, BindCandidate(b)
  PROVE  RequestInvariant'
<1>1. BuilderHolds(build[b]) /\ build[b].step = "candidate"
  BY DEF RequestInvariant, BindCandidate, Is
<1>2. build[b].turn \in Turns /\ build[b].turn \in DOMAIN artifacts
  BY <1>1 DEF BuilderHolds
<1> QED BY <1>1, <1>2, BindsCandidate DEF BindCandidate, Turn

LEMMA ArtifactReplayedKeeps ==
  ASSUME RequestInvariant, NEW b \in Builders, ArtifactReplayed(b)
  PROVE  RequestInvariant'
<1>1. BuilderHolds(build[b]) /\ build[b].step = "lookup" /\ build[b].turn \in DOMAIN artifacts
  BY DEF RequestInvariant, ArtifactReplayed, Is, Turn
<1>2. build[b].turn \in Turns
  BY <1>1 DEF BuilderHolds
<1>3. CASE artifacts[Turn(b)].offer = build[b].offer
  BY <1>1, <1>2, <1>3, BindsCandidate DEF ArtifactReplayed, Turn
<1>4. CASE artifacts[Turn(b)].offer # build[b].offer
  <2>1. /\ Move(b, "failed")
        /\ UNCHANGED <<zoneVars, syncVars, integrations, artifacts, phases, attempts, held>>
    BY <1>4 DEF ArtifactReplayed
  <2> QED BY <1>1, <2>1, FailedBuilder, ReadingStep DEF Move, Put
<1> QED BY <1>3, <1>4

\* The requirement of an attempt, when its state, endpoint and body stay.
LEMMA RequireArtifactKeeps ==
  ASSUME RequestInvariant, NEW b \in Builders, RequireArtifact(b)
  PROVE  RequestInvariant'
<1>1. PICK q : q = build[b]
  OBVIOUS
<1>2. PICK t : t = q.turn
  OBVIOUS
<1>3. BuilderHolds(q) /\ q.step = "require" /\ t \in Turns /\ t \in DOMAIN artifacts
  BY <1>1, <1>2 DEF RequestInvariant, RequireArtifact, Is, BuilderHolds
<1>4. PICK a : a = attempts[t]
  OBVIOUS
<1>5. Phased(phases[t], artifacts[t], a, held[t])
  BY <1>3, <1>4 DEF RequestInvariant, TurnsHold
<1>6. CASE a.state = "accepted_pending_readiness" /\ a.required \in {None, artifacts[t]}
  <2>1. PICK a2 : a2 = [a EXCEPT !.required = artifacts[t]]
    OBVIOUS
  <2>2. PICK kept : kept = IF held[t] = "capability" THEN "selection" ELSE held[t]
    OBVIOUS
  <2>3. /\ attempts' = [attempts EXCEPT ![t].required = artifacts[t]]
        /\ held' = IF held[t] = "capability" THEN [held EXCEPT ![t] = "selection"] ELSE held
        /\ Put(b, IdleBuilder)
    BY <1>1, <1>2, <1>4, <1>6 DEF RequireArtifact, Turn
  <2>4. attempts' = [attempts EXCEPT ![t] = a2]
    BY <1>4, <2>1, <2>3
  <2>5. Moves(attempts, attempts', t, a2) /\ Moves(held, held', t, kept)
    BY <1>3, <2>2, <2>3, <2>4 DEF Moves, RequestInvariant
  <2>6. /\ a2.state = a.state /\ a2.endpoint = a.endpoint
        /\ AttemptShape(a2)
    BY <1>5, <2>1 DEF Phased, AttemptShape
  <2>7. kept = "operation" => held[t] = "operation"
    BY <2>2
  <2>8. Phased(phases[t], artifacts[t], a2, kept)
    BY <1>5, <2>6, <2>7 DEF Phased
  <2>9. /\ DOMAIN build' = Builders /\ build'[b] = IdleBuilder
        /\ \A x \in Builders \ {b} : build'[x] = build[x]
    BY <2>3 DEF RequestInvariant, Put
  <2>10. UNCHANGED <<zoneVars, syncVars, integrations, artifacts, phases>>
    BY DEF RequireArtifact
  <2>11. BuilderHolds(IdleBuilder)'
    BY <2>10, IdleBuilderHolds, NothingStored, BuilderStays
  <2>12. BuilderHolds(build[b])'
    BY <2>9, <2>11 DEF BuilderHolds, BuilderShape, NoCold, SelectionAttempt, SectionSize
  <2>13. \A x \in Builders : build'[x] = build[x] \/ BuilderHolds(build[x])'
    BY <2>9, <2>12
  <2>14. Moves(phases, phases', t, phases[t])
    BY <1>3, <2>10 DEF Moves, RequestInvariant
  <2> QED BY <1>3, <2>5, <2>8, <2>9, <2>10, <2>13, <2>14, TurnStep
<1>7. CASE ~(a.state = "accepted_pending_readiness" /\ a.required \in {None, artifacts[t]})
  <2>1. Move(b, "failed") /\ UNCHANGED <<attempts, held>>
    BY <1>1, <1>2, <1>4, <1>7 DEF RequireArtifact, Turn
  <2> QED BY <1>1, <1>3, <2>1, FailedBuilder, ReadingStep DEF RequireArtifact, Move, Put
<1> QED BY <1>6, <1>7

\* A step of a turn leaves the builders and the stores.
LEMMA BuildersRest ==
  ASSUME RequestInvariant, UNCHANGED build
  PROVE  /\ DOMAIN build' = Builders
         /\ \A b \in Builders : build'[b] = build[b] \/ BuilderHolds(build[b])'
BY DEF RequestInvariant

\* What fits a phase.
LEMMA FitsPhase ==
  ASSUME NEW t, NEW phase, NEW artifact, NEW input, PhaseFits(t, phase, artifact, input)
  PROVE  /\ t \in DOMAIN artifacts /\ artifact = artifacts[t]
         /\ Predecessor(t, phase) \in Names(phases[t]) \cup {"none"}
BY DEF PhaseFits, Bound, Names

\* An attempt whose state and final body alone change.
LEMMA PhasedMoves ==
  ASSUME NEW ps, NEW artifact, NEW a, NEW kept, Phased(ps, artifact, a, kept), NEW next, NEW keeps,
         AttemptShape(next),
         next.endpoint = a.endpoint, next.state # Early <=> a.state # Early,
         keeps = "operation" => "preflight" \in Names(ps)
  PROVE  Phased(ps, artifact, next, keeps)
<1>1. a.state = Early <=> next.state = Early
  OBVIOUS
<1> QED BY <1>1 DEF Phased, Early

LEMMA PreflightKeeps ==
  ASSUME RequestInvariant, NEW t \in Turns, NEW body, Preflight(t, body)
  PROVE  RequestInvariant'
<1>1. PICK artifact : artifact = artifacts[t]
  OBVIOUS
<1>2. /\ t \in DOMAIN artifacts /\ attempts[t].required = artifact
      /\ "candidate" \in Names(phases[t])
  BY <1>1, FitsPhase, Predecessors DEF Preflight
<1>3. PICK a : a = attempts[t]
  OBVIOUS
<1>4. Due(phases[t], artifact, a, PhaseRequest(t, "preflight", artifact, body))
  <2>1. PICK p : p = PhaseRequest(t, "preflight", artifact, body)
    OBVIOUS
  <2>2. p.phase = "preflight" /\ p.artifact = artifact
    BY <2>1 DEF PhaseRequest
  <2> QED BY <1>2, <2>1, <2>2, PhaseNames DEF Due, Late
<1>5. PICK ps : ps = phases'[t]
  OBVIOUS
<1>6. /\ Moves(phases, phases', t, ps) /\ Phased(ps, artifact, a, held[t])
      /\ "preflight" \in Names(ps)
  BY <1>1, <1>2, <1>3, <1>4, <1>5, TurnBinds DEF Preflight
<1>7. Moves(attempts, attempts', t, a) /\ Moves(held, held', t, "operation")
  BY <1>3 DEF Moves, RequestInvariant, Preflight
<1>8. AttemptShape(a)
  BY <1>6 DEF Phased
<1>9. Phased(ps, artifact, a, "operation")
  BY <1>6, <1>8, PhasedMoves
<1>10. UNCHANGED build /\ UNCHANGED <<zoneVars, syncVars, integrations, artifacts>>
  BY DEF Preflight
<1> QED BY <1>1, <1>2, <1>6, <1>7, <1>9, <1>10, BuildersRest, TurnStep

LEMMA RecordReadinessKeeps ==
  ASSUME RequestInvariant, NEW t \in Turns, RecordReadiness(t)
  PROVE  RequestInvariant'
<1>1. PICK a : a = attempts[t]
  OBVIOUS
<1>2. PICK ps : ps = phases[t]
  OBVIOUS
<1>3. Phased(ps, artifacts[t], a, "operation") /\ a.state = Early /\ held[t] = "operation"
  BY <1>1, <1>2 DEF RequestInvariant, TurnsHold, RecordReadiness, Early
<1>4. "preflight" \in Names(ps) /\ (t \in DOMAIN artifacts \/ ps = <<>>)
  BY <1>2, <1>3 DEF Phased, RequestInvariant, TurnsHold
<1>5. PICK k \in DOMAIN ps : ps[k].phase = "preflight" /\ ps[k] = PhaseOf(t, "preflight")
  BY <1>2, <1>4, PhaseOfBound
<1>6. PICK input : input = ps[k].input
  OBVIOUS
<1>7. PICK next : next = [a EXCEPT !.state = "ready", !.endpoint = input]
  OBVIOUS
<1>8. attempts' = [attempts EXCEPT ![t] = next]
  <2>1. attempts' = [attempts EXCEPT ![t].state = "ready", ![t].endpoint = input]
    BY <1>5, <1>6 DEF RecordReadiness
  <2>2. t \in DOMAIN attempts
    BY DEF RequestInvariant
  <2> QED BY <1>1, <1>7, <2>1, <2>2
<1>9. /\ AttemptShape(next)
      /\ next.state = "ready" /\ next.endpoint = input
  BY <1>3, <1>7 DEF Phased, AttemptShape
<1>10. /\ \A i \in DOMAIN ps : ps[i].phase \notin Late
       /\ \A i \in DOMAIN ps : ps[i].phase = "preflight" => i = k
  BY <1>3, <1>5 DEF Phased, Late, Early
<1>11. Phased(ps, artifacts[t], next, "operation")
  BY <1>3, <1>4, <1>6, <1>9, <1>10 DEF Phased, Late, Early
<1>12. /\ Moves(phases, phases', t, ps) /\ Moves(attempts, attempts', t, next)
       /\ Moves(held, held', t, "operation")
  BY <1>2, <1>3, <1>8 DEF Moves, RequestInvariant, RecordReadiness
<1>13. UNCHANGED build /\ UNCHANGED <<zoneVars, syncVars, integrations, artifacts>>
  BY DEF RecordReadiness
<1> QED BY <1>4, <1>11, <1>12, <1>13, BuildersRest, TurnStep

\* A late phase is bound with the body that was activated.
LEMMA LateBinds ==
  ASSUME RequestInvariant, NEW t \in Turns, NEW phase \in Late, NEW input,
         PhaseFits(t, phase, attempts[t].required, input),
         input = attempts[t].endpoint, attempts[t].state # Early
  PROVE  LET new == WithPhase(t, phase, attempts[t].required, input) IN
         /\ t \in DOMAIN artifacts
         /\ Moves(phases, new, t, new[t]) /\ Phased(new[t], artifacts[t], attempts[t], held[t])
         /\ Names(phases[t]) \subseteq Names(new[t])
<1>1. PICK artifact : artifact = artifacts[t]
  OBVIOUS
<1>2. t \in DOMAIN artifacts /\ attempts[t].required = artifact
  BY <1>1, FitsPhase
<1>3. PICK p : p = PhaseRequest(t, phase, artifact, input)
  OBVIOUS
<1>4. p.phase = phase /\ p.artifact = artifact /\ p.input = input
  BY <1>3 DEF PhaseRequest
<1>5. PICK ps : ps = phases[t]
  OBVIOUS
<1>6. Predecessor(t, phase) \in Names(ps) \cup {"none"}
  BY <1>5, FitsPhase
<1>7. /\ phase = "activation" => "preflight" \in Names(ps)
      /\ phase = "interception" => "activation" \in Names(ps)
      /\ phase = "dispatch" => "interception" \in Names(ps)
  BY <1>6, Predecessors
<1>8. Due(ps, artifact, attempts[t], p)
  BY <1>4, <1>7, PhaseNames DEF Due, Late
<1> QED BY <1>1, <1>2, <1>3, <1>5, <1>8, TurnBinds

LEMMA ActivateKeeps ==
  ASSUME RequestInvariant, NEW t \in Turns, Activate(t)
  PROVE  RequestInvariant'
<1>1. PICK a : a = attempts[t]
  OBVIOUS
<1>2. PICK ps : ps = phases'[t]
  OBVIOUS
<1>3. a.state = "ready" /\ a.state # Early /\ held[t] = "operation"
  BY <1>1 DEF Activate, Early
<1>4. /\ t \in DOMAIN artifacts /\ Moves(phases, phases', t, ps)
      /\ Phased(ps, artifacts[t], a, "operation")
  BY <1>1, <1>2, <1>3, LateBinds DEF Activate, Late
<1>5. PICK next : next = [a EXCEPT !.state = "active"]
  OBVIOUS
<1>6. attempts' = [attempts EXCEPT ![t] = next]
  BY <1>1, <1>5 DEF Activate, RequestInvariant
<1>7. /\ AttemptShape(next)
      /\ next.state = "active" /\ next.endpoint = a.endpoint
  BY <1>4, <1>5 DEF Phased, AttemptShape
<1>8. Phased(ps, artifacts[t], next, "operation")
  <2>1. "preflight" \in Names(ps)
    BY <1>4 DEF Phased
  <2>2. next.state # Early
    BY <1>7 DEF Early
  <2> QED BY <1>3, <1>4, <1>7, <2>1, <2>2, PhasedMoves
<1>9. Moves(attempts, attempts', t, next) /\ Moves(held, held', t, "operation")
  BY <1>3, <1>6 DEF Moves, RequestInvariant, Activate
<1>10. UNCHANGED build /\ UNCHANGED <<zoneVars, syncVars, integrations, artifacts>>
  BY DEF Activate
<1> QED BY <1>4, <1>8, <1>9, <1>10, BuildersRest, TurnStep

LEMMA ActivationFailsKeeps ==
  ASSUME RequestInvariant, NEW t \in Turns, ActivationFails(t)
  PROVE  RequestInvariant'
<1>1. PICK a : a = attempts[t]
  OBVIOUS
<1>2. PICK ps : ps = phases'[t]
  OBVIOUS
<1>3. a.state \in {"ready", "active"} /\ a.state # Early
  BY <1>1 DEF ActivationFails, Early
<1>4. PICK reason : reason = "gate12s_activation_failed"
  OBVIOUS
<1>5. /\ t \in DOMAIN artifacts \/ ps = <<>>
      /\ Moves(phases, phases', t, ps) /\ Phased(ps, artifacts[t], a, held[t])
  <2>1. CASE PhaseFits(t, "rollback", a.required, reason)
    <3>1. t \in DOMAIN artifacts /\ a.required = artifacts[t]
      BY <2>1, FitsPhase
    <3>2. PICK p : p = PhaseRequest(t, "rollback", artifacts[t], reason)
      OBVIOUS
    <3>3. p.phase = "rollback" /\ p.artifact = artifacts[t]
      BY <3>2 DEF PhaseRequest
    <3>4. Due(phases[t], artifacts[t], a, p)
      BY <3>3 DEF Due, Late
    <3>5. phases' = WithPhase(t, "rollback", artifacts[t], reason)
      BY <1>1, <1>4, <2>1, <3>1 DEF ActivationFails
    <3> QED BY <1>1, <1>2, <3>1, <3>2, <3>4, <3>5, TurnBinds
  <2>2. CASE ~PhaseFits(t, "rollback", a.required, reason)
    <3>1. phases' = phases
      BY <1>1, <1>4, <2>2 DEF ActivationFails
    <3> QED BY <1>1, <1>2, <3>1 DEF Moves, RequestInvariant, TurnsHold
  <2> QED BY <2>1, <2>2
<1>6. PICK next : next = [a EXCEPT !.state = "activation_failed"]
  OBVIOUS
<1>7. attempts' = [attempts EXCEPT ![t] = next]
  BY <1>1, <1>6 DEF ActivationFails, RequestInvariant
<1>8. /\ AttemptShape(next)
      /\ next.state = "activation_failed" /\ next.endpoint = a.endpoint
  BY <1>5, <1>6 DEF Phased, AttemptShape
<1>9. PICK kept : kept = "none"
  OBVIOUS
<1>10. Phased(ps, artifacts[t], next, kept)
  <2>1. next.state # Early /\ kept # "operation"
    BY <1>8, <1>9 DEF Early
  <2> QED BY <1>3, <1>5, <1>8, <2>1, PhasedMoves
<1>11. Moves(attempts, attempts', t, next) /\ Moves(held, held', t, kept)
  BY <1>7, <1>9 DEF Moves, RequestInvariant, ActivationFails
<1>12. UNCHANGED build /\ UNCHANGED <<zoneVars, syncVars, integrations, artifacts>>
  BY DEF ActivationFails
<1> QED BY <1>5, <1>10, <1>11, <1>12, BuildersRest, TurnStep

LEMMA FinalBoundaryKeeps ==
  ASSUME RequestInvariant, NEW t \in Turns, NEW body, FinalBoundary(t, body)
  PROVE  RequestInvariant'
<1>1. PICK a : a = attempts[t]
  OBVIOUS
<1>2. PICK ps : ps = phases'[t]
  OBVIOUS
<1>3. a.state = "active" /\ a.state # Early /\ body = a.endpoint
  BY <1>1 DEF FinalBoundary, SameRequest, Early
<1>4. /\ t \in DOMAIN artifacts \/ ps = <<>>
      /\ Moves(phases, phases', t, ps) /\ Phased(ps, artifacts[t], a, held[t])
  <2>1. CASE PhaseFits(t, "interception", a.required, body)
    <3>1. phases' = WithPhase(t, "interception", a.required, body)
      BY <1>1, <2>1 DEF FinalBoundary
    <3> QED BY <1>1, <1>2, <1>3, <2>1, <3>1, LateBinds DEF Late
  <2>2. CASE ~PhaseFits(t, "interception", a.required, body)
    <3>1. phases' = phases
      BY <1>1, <2>2 DEF FinalBoundary
    <3> QED BY <1>1, <1>2, <3>1 DEF Moves, RequestInvariant, TurnsHold
  <2> QED BY <2>1, <2>2
<1>5. PICK next : next = [a EXCEPT !.final = body]
  OBVIOUS
<1>6. attempts' = [attempts EXCEPT ![t] = next]
  BY <1>1, <1>5 DEF FinalBoundary, RequestInvariant
<1>7. /\ AttemptShape(next)
      /\ next.state = a.state /\ next.endpoint = a.endpoint
  BY <1>4, <1>5 DEF Phased, AttemptShape
<1>8. Phased(ps, artifacts[t], next, held[t])
  <2>1. held[t] = "operation" => "preflight" \in Names(ps)
    BY <1>4 DEF Phased
  <2> QED BY <1>4, <1>7, <2>1, PhasedMoves
<1>9. Moves(attempts, attempts', t, next) /\ Moves(held, held', t, held[t])
  BY <1>6 DEF Moves, RequestInvariant, FinalBoundary
<1>10. UNCHANGED build /\ UNCHANGED <<zoneVars, syncVars, integrations, artifacts>>
  BY DEF FinalBoundary
<1> QED BY <1>4, <1>8, <1>9, <1>10, BuildersRest, TurnStep

LEMMA DispatchKeeps ==
  ASSUME RequestInvariant, NEW t \in Turns, Dispatch(t)
  PROVE  RequestInvariant'
<1>1. PICK a : a = attempts[t]
  OBVIOUS
<1>2. PICK ps : ps = phases'[t]
  OBVIOUS
<1>3. a.state = "active" /\ a.state # Early /\ a.final = a.endpoint
  BY <1>1 DEF Dispatch, Early
<1>4. /\ t \in DOMAIN artifacts /\ Moves(phases, phases', t, ps)
      /\ Phased(ps, artifacts[t], a, held[t])
  BY <1>1, <1>2, <1>3, LateBinds DEF Dispatch, Late
<1>5. PICK next : next = [a EXCEPT !.state = "dispatched"]
  OBVIOUS
<1>6. attempts' = [attempts EXCEPT ![t] = next]
  BY <1>1, <1>5 DEF Dispatch, RequestInvariant
<1>7. /\ AttemptShape(next)
      /\ next.state = "dispatched" /\ next.endpoint = a.endpoint
  BY <1>4, <1>5 DEF Phased, AttemptShape
<1>8. Phased(ps, artifacts[t], next, held[t])
  <2>1. held[t] = "operation" => "preflight" \in Names(ps)
    BY <1>4 DEF Phased
  <2>2. next.state # Early
    BY <1>7 DEF Early
  <2> QED BY <1>3, <1>4, <1>7, <2>1, <2>2, PhasedMoves
<1>9. Moves(attempts, attempts', t, next) /\ Moves(held, held', t, held[t])
  BY <1>6 DEF Moves, RequestInvariant, Dispatch
<1>10. UNCHANGED build /\ UNCHANGED <<zoneVars, syncVars, integrations, artifacts>>
  BY DEF Dispatch
<1> QED BY <1>4, <1>8, <1>9, <1>10, BuildersRest, TurnStep

LEMMA RestartRequestKeeps ==
  ASSUME RequestInvariant, Restart
  PROVE  RequestInvariant'
<1>1. /\ UNCHANGED <<zoneVars, working, bundles, disowned, applications, ingested, turnVars>>
      /\ sync' = [h \in Handlers |-> IdleHandler] /\ journalLock' = None
      /\ UNCHANGED <<integrations, artifacts, phases, attempts>>
      /\ build' = [b \in Builders |-> IdleBuilder] /\ held' = [t \in Turns |-> "none"]
  BY DEF Restart
<1>2. Invariant'
  BY <1>1, RestartKeeps DEF RequestInvariant
<1>3. Later /\ RoomsAged' /\ receipts' = receipts
  BY <1>1, NothingStored DEF zoneVars
<1>4. BuilderHolds(IdleBuilder)'
  BY <1>3, IdleBuilderHolds, BuilderStays
<1>5. DOMAIN build' = Builders /\ \A b \in Builders : build'[b] = IdleBuilder
  BY <1>1
<1>6. \A b \in Builders : BuilderHolds(build[b])'
  BY <1>4, <1>5 DEF BuilderHolds, BuilderShape, NoCold, SelectionAttempt, SectionSize
<1>7. ArtifactsHold'
  BY <1>1, <1>3, ArtifactsStay DEF RequestInvariant
<1>8. PICK none : none = "none"
  OBVIOUS
<1>9. DOMAIN held' = Turns /\ \A t \in Turns : held'[t] = none
  BY <1>1, <1>8
<1>10. ASSUME NEW t \in Turns
       PROVE  /\ t \notin DOMAIN artifacts => phases[t] = <<>>
              /\ Phased(phases[t], artifacts[t], attempts[t], none)
  <2>1. /\ t \notin DOMAIN artifacts => phases[t] = <<>>
        /\ Phased(phases[t], artifacts[t], attempts[t], held[t])
    BY DEF RequestInvariant, TurnsHold
  <2>2. none # "operation"
    BY <1>8
  <2> QED BY <2>1, <2>2 DEF Phased
<1>11. TurnsHold'
  BY <1>1, <1>9, <1>10 DEF TurnsHold, Phased, Names
<1>12. DOMAIN phases' = Turns /\ DOMAIN attempts' = Turns
  BY <1>1 DEF RequestInvariant
<1> QED BY <1>2, <1>3, <1>5, <1>6, <1>7, <1>9, <1>11, <1>12, RequestStep

LEMMA RequestInit == ZonesInit /\ SyncInit /\ BuildInit => RequestInvariant
<1> SUFFICES ASSUME ZonesInit, SyncInit, BuildInit PROVE RequestInvariant
  OBVIOUS
<1>1. Invariant
  BY InvariantInit
<1>2. Revision = 0 /\ DOMAIN receipts = {}
  BY DEF ZonesInit, NoReceipts, Revision
<1>3. RoomsAged
  BY <1>2 DEF RoomsAged
<1>4. DOMAIN build = Builders /\ \A b \in Builders : build[b] = IdleBuilder
  BY DEF BuildInit
<1>5. \A b \in Builders : BuilderHolds(build[b])
  BY <1>4, IdleBuilderHolds
<1>6. SelectionsHold
  BY <1>2 DEF SelectionsHold
<1>7. DOMAIN artifacts = {}
  BY DEF BuildInit
<1>8. ArtifactsHold
  BY <1>7 DEF ArtifactsHold
<1>9. /\ DOMAIN phases = Turns /\ DOMAIN attempts = Turns /\ DOMAIN held = Turns
      /\ \A t \in Turns : phases[t] = <<>> /\ attempts[t] = FreshAttempt /\ held[t] = "capability"
  BY DEF BuildInit
<1>10. ASSUME NEW t \in Turns PROVE Phased(phases[t], artifacts[t], attempts[t], held[t])
  <2>1. PICK a : a = FreshAttempt
    OBVIOUS
  <2>2. /\ AttemptShape(a)
        /\ a.state = Early
    BY <2>1 DEF FreshAttempt, AttemptShape, Early
  <2>3. PICK ps : ps = <<>>
    OBVIOUS
  <2>4. ps \in Seq({}) /\ DOMAIN ps = {}
    BY <2>3
  <2>5. PICK kept : kept = "capability"
    OBVIOUS
  <2>6. kept # "operation" /\ Names(ps) = {}
    BY <2>4, <2>5 DEF Names
  <2>7. Phased(ps, artifacts[t], a, kept)
    BY <2>2, <2>4, <2>6 DEF Phased
  <2> QED BY <1>9, <2>1, <2>3, <2>5, <2>7
<1>11. TurnsHold
  BY <1>9, <1>10 DEF TurnsHold
<1> QED BY <1>1, <1>3, <1>4, <1>5, <1>6, <1>8, <1>9, <1>11 DEF RequestInvariant

LEMMA RequestNext ==
  RequestInvariant /\ [CandidateNext]_<<zoneVars, syncVars, buildVars>> => RequestInvariant'
<1> SUFFICES ASSUME RequestInvariant, [CandidateNext]_<<zoneVars, syncVars, buildVars>>
             PROVE  RequestInvariant'
  OBVIOUS
<1>1. CASE UNCHANGED <<zoneVars, syncVars, buildVars>>
  <2>1. UNCHANGED <<zoneVars, syncVars, integrations, artifacts, phases, attempts, held, build>>
    BY <1>1 DEF buildVars
  <2>2. Later /\ RoomsAged' /\ Invariant' /\ receipts' = receipts
    BY <2>1, NothingStored, NothingInZones
  <2> QED BY <2>1, <2>2, BuildersRest, StoresGrow
<1>2. CASE SyncNext /\ UNCHANGED buildVars
  BY <1>2, SyncsKeep
<1>3. ASSUME NEW b \in Builders,
             \/ \E t \in Turns, offer \in Offers, now \in Times : BeginBuild(b, t, offer, now)
             \/ ArtifactReplayed(b) \/ ReadWorkingSet(b) \/ ScanCold(b) \/ ReadRoom(b)
             \/ ReadUnits(b) \/ RecordCold(b) \/ Assemble(b) \/ Integrate(b) \/ StoreArtifact(b)
             \/ BindCandidate(b) \/ RequireArtifact(b) \/ FailBuild(b)
      PROVE  RequestInvariant'
  <2>1. CASE \E t \in Turns, offer \in Offers, now \in Times : BeginBuild(b, t, offer, now)
    BY <2>1, BeginBuildKeeps
  <2>2. CASE ArtifactReplayed(b)
    BY <2>2, ArtifactReplayedKeeps
  <2>3. CASE ReadWorkingSet(b)
    BY <2>3, ReadWorkingSetKeeps
  <2>4. CASE ScanCold(b)
    BY <2>4, ScanColdKeeps
  <2>5. CASE ReadRoom(b)
    BY <2>5, ReadRoomKeeps
  <2>6. CASE ReadUnits(b)
    BY <2>6, ReadUnitsKeeps
  <2>7. CASE RecordCold(b)
    BY <2>7, RecordColdKeeps
  <2>8. CASE Assemble(b)
    BY <2>8, AssembleKeeps
  <2>9. CASE Integrate(b)
    BY <2>9, IntegrateKeeps
  <2>10. CASE StoreArtifact(b)
    BY <2>10, StoreArtifactKeeps
  <2>11. CASE BindCandidate(b)
    BY <2>11, BindCandidateKeeps
  <2>12. CASE RequireArtifact(b)
    BY <2>12, RequireArtifactKeeps
  <2>13. CASE FailBuild(b)
    BY <2>13, FailBuildKeeps
  <2> QED BY <1>3, <2>1, <2>2, <2>3, <2>4, <2>5, <2>6, <2>7, <2>8, <2>9, <2>10, <2>11, <2>12, <2>13
<1>4. ASSUME NEW t \in Turns,
             \/ \E body \in Bodies : Preflight(t, body) \/ FinalBoundary(t, body)
             \/ RecordReadiness(t) \/ Activate(t) \/ ActivationFails(t) \/ Dispatch(t)
      PROVE  RequestInvariant'
  <2>1. CASE \E body \in Bodies : Preflight(t, body) \/ FinalBoundary(t, body)
    BY <2>1, PreflightKeeps, FinalBoundaryKeeps
  <2>2. CASE RecordReadiness(t)
    BY <2>2, RecordReadinessKeeps
  <2>3. CASE Activate(t)
    BY <2>3, ActivateKeeps
  <2>4. CASE ActivationFails(t)
    BY <2>4, ActivationFailsKeeps
  <2>5. CASE Dispatch(t)
    BY <2>5, DispatchKeeps
  <2> QED BY <1>4, <2>1, <2>2, <2>3, <2>4, <2>5
<1>5. CASE Restart
  BY <1>5, RestartRequestKeeps
<1> QED BY <1>1, <1>2, <1>3, <1>4, <1>5 DEF CandidateNext, BuildNext

LEMMA RequestGrounded == RequestInvariant => RequestIsGrounded
<1> SUFFICES ASSUME RequestInvariant PROVE RequestIsGrounded
  OBVIOUS
<1>1. SelectionIsOneMoment
  BY DEF RequestInvariant, SelectionsHold, Momentary, Apart, SelectionIsOneMoment
<1>2. ASSUME NEW t \in Turns, "dispatch" \in Bound(t)
      PROVE  /\ Range(PhaseOrder) \subseteq Bound(t)
             /\ \A p \in Range(phases[t]) : p.artifact = artifacts[t]
             /\ \A p \in Range(phases[t]) :
                   p.phase \notin {"candidate", "rollback"} => p.input = attempts[t].endpoint
             /\ artifacts[t].selection = receipts[SelectionAttempt(t)]
             /\ artifacts[t].admission = integrations[t]
             /\ integrations[t].state = "selected"
  <2>1. PICK ps : ps = phases[t]
    OBVIOUS
  <2>2. PICK a : a = attempts[t]
    OBVIOUS
  <2>3. Phased(ps, artifacts[t], a, held[t]) /\ (t \notin DOMAIN artifacts => ps = <<>>)
    BY <2>1, <2>2 DEF RequestInvariant, TurnsHold
  <2>4. Bound(t) = Names(ps)
    BY <2>1 DEF Bound, Names
  <2>5. {"candidate", "preflight", "activation", "interception", "dispatch"} \subseteq Names(ps)
    BY <1>2, <2>3, <2>4 DEF Phased
  <2>6. PICK k \in DOMAIN ps : ps[k].phase = "dispatch"
    BY <2>5 DEF Names
  <2>7. a.state # Early
    BY <2>3, <2>6 DEF Phased, Late
  <2>8. t \in DOMAIN artifacts
    BY <2>3, <2>6
  <2>9. \A i \in DOMAIN ps :
          /\ ps[i].artifact = artifacts[t]
          /\ ps[i].phase \notin {"candidate", "rollback"} => ps[i].input = a.endpoint
    BY <2>3, <2>7, PhaseNames DEF Phased, Late
  <2>10. \A p \in Range(ps) : \E i \in DOMAIN ps : p = ps[i]
    BY DEF Range
  <2>11. /\ artifacts[t].selection = receipts[SelectionAttempt(t)]
         /\ artifacts[t].admission = integrations[t]
         /\ integrations[t].state = "selected"
    BY <2>8 DEF RequestInvariant, ArtifactsHold
  <2> QED BY <2>1, <2>2, <2>4, <2>5, <2>9, <2>10, <2>11, PhaseNames
<1>3. DispatchIsGrounded
  BY <1>2 DEF DispatchIsGrounded
<1> QED BY <1>1, <1>3 DEF RequestIsGrounded

\* The invariant of the candidate: rooms, receipts, stored outcomes and artifacts are only
\* added to, and the phases of a turn follow one another.
THEOREM CandidateInvariant == CandidateSpec => []RequestInvariant
<1>1. CandidateSpec => []RequestInvariant
  BY RequestInit, RequestNext, PTL DEF CandidateSpec
<1> QED BY <1>1

\* While requests are built and the process restarts, the room and the journals are still
\* what the syncs made them: RevisionsHaveReceipts and IngestionIsTrue hold of the whole
\* candidate.
THEOREM CandidateIsTrue == CandidateSpec => [](RevisionsHaveReceipts /\ IngestionIsTrue)
<1>1. RequestInvariant => RevisionsHaveReceipts /\ IngestionIsTrue
  BY DEF RequestInvariant, Invariant
<1> QED BY <1>1, CandidateInvariant, PTL

\* A recorded selection shows one moment of the room and no turn twice, and what is
\* dispatched went through every phase with one stored artifact, made of the recorded
\* selection and admission, and with the activated body.
THEOREM RequestsAreGrounded == CandidateSpec => []RequestIsGrounded
<1>1. RequestInvariant => RequestIsGrounded
  BY RequestGrounded
<1> QED BY <1>1, CandidateInvariant, PTL
=============================================================================
