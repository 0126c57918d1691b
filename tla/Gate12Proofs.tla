---------------------------- MODULE Gate12Proofs ----------------------------
(***************************************************************************)
(* Proofs about both gates, for every set of turns and of handlers.        *)
(* Gate12SAttempts: one transport per attempt, none of a rehearsal, none   *)
(* of a live turn before a review, and, when arm commands do not overlap,  *)
(* no unit but the attempt's own.  Gate12RAttempts: the corrective gate is *)
(* one-shot.                                                               *)
(***************************************************************************)
EXTENDS Gate12SAttempts, Gate12RAttempts, FiniteSetTheorems, WellFoundedInduction, TLAPS

(***************************************************************************)
(* The inductive invariant.                                                *)
(***************************************************************************)
Present(t) == row[t].state # "absent"
Awaiting(t) == turn[t] = "visible_released_waiting_unit"

Rows ==
  [mode : Modes, state : States, ready : {"pending", "failed", "ready"},
   endpoint : BOOLEAN, active : BOOLEAN, final : BOOLEAN, issued : BOOLEAN,
   consumed : BOOLEAN, authorized : BOOLEAN, external : {0, 1}, intercepted : {0, 1},
   bundle : BOOLEAN, unit : Turns \cup {None}]

Latches ==
  [state : {"unarmed", "armed", "consumed"}, rev : Nat, turn : Turns \cup {None}]

Nexts == {"idle", "commit", "recover", "drop", "bound", "authorize", "forget"}

Jobs ==
  [op : {"none", "arm", "review", "attest", "readiness", "activate", "recover",
         "transport", "sync"},
   turn : Turns \cup {None}, mode : Modes, next : Nexts, ready : BOOLEAN,
   latch : Latches, copy : Rows, consumed : BOOLEAN, bundle : BOOLEAN,
   unit : Turns \cup {None}]

Memories ==
  [caps : SUBSET Turns, prepared : SUBSET Turns, reserved : SUBSET Turns,
   bound : SUBSET Turns]

\* The steps of operator commands, and of nobody; every other step is about an
\* attempt.
Lone == {"idle", "arm", "arm_inner", "restore", "review", "attest"}

\* The steps between the authorisation of a request and the record of its end.
Crossing == {"intercept", "process", "complete", "complete_write"}

Steps ==
  Lone \cup Crossing \cup Nexts \cup
  {"readiness", "receipt", "receipt_write", "activate", "issue", "record", "reserve",
   "invalidate", "mark_failed", "boundary", "unit", "unit_write"}

TypeOK ==
  /\ latch \in [Modes -> Latches]
  /\ review \in {"pending", "predecessor", "rehearsal"}
  /\ row \in [Turns -> Rows]
  /\ receipt \in [Turns -> Rows]
  /\ shadow \in [Modes -> [state : {"unarmed", "armed", "consumed"},
                           turn : Turns \cup {None}]]
  /\ boot \in [Modes -> BOOLEAN]
  /\ turn \in [Turns -> {"absent", "reserved", "activation_failed", "provider_failed",
                         "refused", "accepted", "unsupplied",
                         "visible_released_waiting_unit", "ready_to_apply_shadow_only",
                         "explicit_solen_no_semantic_delta"}]
  /\ cap \in [Turns -> {"absent", "issued", "invalidated", "prepared_consumed",
                        "rejected_consumed", "closed_unused", "expired"}]
  /\ memory \in Memories
  /\ pc \in [Handlers -> Steps]
  /\ job \in [Handlers -> Jobs]
  /\ sent \in [Turns -> {0, 1}]

\* What a handler knows of its turn.
JobSound(h) ==
  /\ pc[h] \in {"arm", "arm_inner", "restore"} => job[h].op = "arm"
  /\ pc[h] \in {"review", "attest"} => job[h].op = pc[h]
  /\ pc[h] \in {"invalidate", "mark_failed"} => job[h].next \in {"recover", "drop"}
  /\ pc[h] \in Lone => job[h].next # "forget"
  /\ pc[h] \notin Lone => job[h].op \notin Operator /\ T(h) \in Turns /\ Present(T(h))

\* The handler took its attempt through the authorisation.
Past(h) == pc[h] \in Crossing \cup {"forget"} \/ job[h].next = "forget"

\* Nobody passes twice: an attempt is authorised once and for all, and whoever
\* authorised it is alone with it until the request is over.
PastSound ==
  /\ \A h \in Handlers : Past(h) => row[T(h)].authorized
  /\ \A g, h \in Handlers : Past(g) /\ Past(h) /\ T(g) = T(h) => g = h

\* The request was not sent before, and the process knows whose it is.
CrossingSound(h) ==
  /\ pc[h] = "intercept" => sent[T(h)] = 0 /\ T(h) \in memory.bound
  /\ pc[h] \in Crossing => row[T(h)].state # "completed" /\ ~row[T(h)].bundle
  /\ job[h].bundle => T(h) \in Turns /\ cap[T(h)] = "prepared_consumed"
  /\ pc[h] = "unit_write" => row[T(h)].bundle
  /\ pc[h] \in {"unit", "unit_write"} /\ row[T(h)].mode = "rehearsal" => job[h].unit = T(h)

RowSound(t) ==
  /\ ~Present(t) => row[t] = NoRow
  /\ row[t].mode = "rehearsal" => t = RehearsalTurn
  /\ row[t].authorized /\ row[t].mode = "live_canary" => row[t].external = 1
  /\ row[t].bundle => row[t].authorized /\ cap[t] = "prepared_consumed"
  /\ row[t].unit # None => row[t].bundle
  /\ row[t].mode = "rehearsal" /\ row[t].unit # None => row[t].unit = t
  /\ sent[t] = 1 => row[t].authorized /\ row[t].mode = "live_canary"
  /\ Awaiting(t) => Present(t)

RehearsalDone == \E u \in Turns : row[u].mode = "rehearsal" /\ row[u].unit = u

\* Whatever a live turn needs was reviewed before it could be armed.
Reviewed ==
  /\ latch["live_canary"].state = "armed" => review # "pending"
  /\ \A t \in Turns : Present(t) /\ row[t].mode = "live_canary" => review # "pending"
  /\ \A h \in Handlers : pc[h] = "arm" /\ job[h].mode = "live_canary" => review # "pending"
  /\ review = "rehearsal" => RehearsalDone
  /\ \A h \in Handlers : pc[h] = "review" => RehearsalDone

Inv ==
  /\ TypeOK
  /\ \A h \in Handlers : JobSound(h)
  /\ PastSound
  /\ \A h \in Handlers : CrossingSound(h)
  /\ \A t \in Turns : RowSound(t)
  /\ Reviewed

\* With one arm command at a time a mode moves on only from an attempt that is
\* over: no unit is awaited for it, and nothing will make it await one.
Over(t) ==
  /\ row[t].authorized /\ ~Awaiting(t)
  /\ \A h \in Handlers : pc[h] \in {"intercept", "process"} => T(h) # t

Live(t) == Present(t) /\ row[t].mode = "live_canary"

\* The one live attempt that may not be over is the latest, and holds the latch.
Current(t) ==
  /\ latch["live_canary"].state = "consumed" /\ latch["live_canary"].turn = t
  /\ \A u \in Turns : Live(u) => u <= t

SoloSound ==
  /\ \A t \in Turns : Live(t) => Over(t) \/ Current(t)
  /\ latch["live_canary"].state = "armed" => \A t \in Turns : Live(t) => Over(t)
  /\ \A h \in Handlers : pc[h] = "arm" /\ job[h].mode = "live_canary" =>
       /\ latch["live_canary"].state # "armed"
       /\ \A t \in Turns : Live(t) => Over(t)

UnitsMatch ==
  /\ \A h \in Handlers : pc[h] \in {"unit", "unit_write"} => job[h].unit = T(h)
  /\ \A t \in Turns : row[t].unit # None => row[t].unit = t

SoloInv == Inv /\ SoloSound /\ UnitsMatch

(***************************************************************************)
(* What a write may leave of an attempt.                                   *)
(***************************************************************************)
\* The write keeps what the transport depends on, and neither forgets the
\* attempt nor ends it.
Kept(r, q) ==
  /\ q.mode = r.mode /\ q.authorized = r.authorized /\ q.external = r.external
  /\ q.bundle = r.bundle /\ q.unit = r.unit
  /\ q.state = r.state \/ q.state \notin {"absent", "completed"}
  /\ r.state = "absent" => q = r

\* The empty unit is no turn.
LEMMA NoneIsNoTurn == None \notin Turns
  BY AttemptAssumption

\* The empty attempt.
LEMMA NoRowTyped == NoRow \in Rows
  BY DEF NoRow, Rows, States, Modes

\* The latch of a new store.
LEMMA FreshTyped == FreshLatch \in Latches
  BY DEF FreshLatch, Latches

\* No request in hand.
LEMMA NoJobTyped == NoJob \in Jobs
  BY NoRowTyped, FreshTyped DEF NoJob, Jobs, Nexts, Modes

\* The receipt of an attempt is an attempt without its state.
LEMMA ReceiptTyped == ASSUME NEW r \in Rows PROVE Receipt(r) \in Rows
  BY DEF Receipt, Rows, States

\* Readiness, an activation that begins, its record, what recovery leaves, and
\* the final request: none of them touches the transport.
LEMMA PlainWrites ==
  ASSUME NEW r \in Rows, r.state # "absent"
  PROVE  /\ LET q == [r EXCEPT !.state = "ready", !.ready = "ready", !.endpoint = TRUE]
            IN q \in Rows /\ Kept(r, q)
         /\ Unready(r) \in Rows /\ Kept(r, Unready(r))
         /\ LET q == [r EXCEPT !.state = "activation_pending"] IN q \in Rows /\ Kept(r, q)
         /\ LET q == [r EXCEPT !.state = "activated", !.issued = TRUE, !.active = TRUE]
            IN q \in Rows /\ Kept(r, q)
         /\ Recovered(r) \in Rows /\ Kept(r, Recovered(r))
         /\ LET q == [r EXCEPT !.final = TRUE] IN q \in Rows /\ Kept(r, q)
         /\ Kept(r, r)
<1>1. LET q == [r EXCEPT !.state = "ready", !.ready = "ready", !.endpoint = TRUE]
      IN q \in Rows /\ Kept(r, q)
  BY DEF Rows, States, Kept
<1>2. Unready(r) \in Rows /\ Kept(r, Unready(r))
  BY DEF Rows, States, Kept, Unready
<1>3. LET q == [r EXCEPT !.state = "activation_pending"] IN q \in Rows /\ Kept(r, q)
  BY DEF Rows, States, Kept
<1>4. LET q == [r EXCEPT !.state = "activated", !.issued = TRUE, !.active = TRUE]
      IN q \in Rows /\ Kept(r, q)
  BY DEF Rows, States, Kept
<1>5. Recovered(r) \in Rows /\ Kept(r, Recovered(r))
  BY DEF Rows, States, Kept, Recovered
<1>6. LET q == [r EXCEPT !.final = TRUE] IN q \in Rows /\ Kept(r, q)
  BY DEF Rows, States, Kept
<1>7. Kept(r, r)
  BY DEF Kept
<1> QED BY <1>1, <1>2, <1>3, <1>4, <1>5, <1>6, <1>7

\* The writes that do: the authorisation, the end of the request, the unit.
LEMMA TransportWrites ==
  ASSUME NEW r \in Rows
  PROVE  /\ LET q == Authorized(r) IN
              /\ q \in Rows /\ q.authorized /\ q.mode = r.mode /\ q.bundle = r.bundle
              /\ q.unit = r.unit /\ q.state \notin {"absent", "completed"}
              /\ r.mode = "live_canary" => q.external = 1
         /\ \A c, b \in BOOLEAN :
              LET q == [r EXCEPT !.state = "completed", !.consumed = c, !.bundle = b] IN
              /\ q \in Rows /\ q.state = "completed" /\ q.mode = r.mode /\ q.bundle = b
              /\ q.authorized = r.authorized /\ q.external = r.external /\ q.unit = r.unit
         /\ \A u \in Turns \cup {None} :
              LET q == [r EXCEPT !.unit = u] IN
              /\ q \in Rows /\ q.state = r.state /\ q.mode = r.mode /\ q.bundle = r.bundle
              /\ q.authorized = r.authorized /\ q.external = r.external /\ q.unit = u
<1>1. LET q == Authorized(r) IN
        /\ q \in Rows /\ q.authorized /\ q.mode = r.mode /\ q.bundle = r.bundle
        /\ q.unit = r.unit /\ q.state \notin {"absent", "completed"}
        /\ r.mode = "live_canary" => q.external = 1
  <2>1. CASE r.mode = "rehearsal"
    <3>1. Authorized(r) = [r EXCEPT !.state = "intercept_authorized", !.authorized = TRUE,
                                    !.intercepted = 1]
      BY <2>1 DEF Authorized
    <3> QED BY <2>1, <3>1 DEF Rows, States, Modes
  <2>2. CASE r.mode # "rehearsal"
    <3>1. Authorized(r) = [r EXCEPT !.state = "dispatched", !.authorized = TRUE,
                                    !.external = 1]
      BY <2>2 DEF Authorized
    <3> QED BY <2>2, <3>1 DEF Rows, States, Modes
  <2> QED BY <2>1, <2>2
<1>2. ASSUME NEW c \in BOOLEAN, NEW b \in BOOLEAN
      PROVE  LET q == [r EXCEPT !.state = "completed", !.consumed = c, !.bundle = b] IN
             /\ q \in Rows /\ q.state = "completed" /\ q.mode = r.mode /\ q.bundle = b
             /\ q.authorized = r.authorized /\ q.external = r.external /\ q.unit = r.unit
  BY DEF Rows, States
<1>3. ASSUME NEW u \in Turns \cup {None}
      PROVE  LET q == [r EXCEPT !.unit = u] IN
             /\ q \in Rows /\ q.state = r.state /\ q.mode = r.mode /\ q.bundle = r.bundle
             /\ q.authorized = r.authorized /\ q.external = r.external /\ q.unit = u
  BY DEF Rows
<1> QED BY <1>1, <1>2, <1>3

(***************************************************************************)
(* A finite set of turns has a latest one.                                 *)
(***************************************************************************)
Smaller == {p \in Nat \X Nat : p[1] < p[2]}

\* Every set of numbers that is not empty has a least one.
LEMMA LeastOf ==
  ASSUME NEW S \in SUBSET Nat, S # {}
  PROVE  \E m \in S : \A n \in S : m <= n
<1>1. IsWellFoundedOn(Smaller, Nat)
  BY NatLessThanWellFounded DEF OpToRel, Smaller
<1>2. PICK m \in S : \A n \in S : <<n, m>> \notin Smaller
  BY <1>1, WFMin
<1>3. \A a, b \in Nat : a < b => <<a, b>> \in Smaller
  BY DEF Smaller
<1>4. \A n \in S : ~(n < m)
  BY <1>2, <1>3
<1> QED BY <1>4

\* By the least number of elements for which there were none.
LEMMA LatestIsIn ==
  ASSUME NEW S \in SUBSET Turns, IsFiniteSet(S), S # {}
  PROVE  Latest(S) \in S /\ \A u \in S : u <= Latest(S)
<1> DEFINE Has(R) == \E t \in R : \A u \in R : u <= t
           Fails(n) == \E R \in SUBSET Nat :
                         IsFiniteSet(R) /\ R # {} /\ Cardinality(R) = n /\ ~Has(R)
           C == {n \in Nat : Fails(n)}
<1>1. C = {}
  <2>1. SUFFICES ASSUME C # {} PROVE FALSE
    OBVIOUS
  <2>2. PICK n \in C : \A m \in C : n <= m
    BY <2>1, LeastOf
  <2>3. PICK R \in SUBSET Nat :
          IsFiniteSet(R) /\ R # {} /\ Cardinality(R) = n /\ ~Has(R)
    BY <2>2
  <2>4. PICK x : x \in R
    BY <2>3
  <2>5. IsFiniteSet(R \ {x}) /\ Cardinality(R \ {x}) = n - 1
    BY <2>3, <2>4, FS_RemoveElement
  <2>6. n \in Nat /\ n - 1 \in Nat
    BY <2>2, <2>5, FS_CardinalityType
  <2>7. n - 1 \notin C
    BY <2>2, <2>6
  <2>8. R \ {x} # {}
    <3>1. SUFFICES ASSUME R \ {x} = {} PROVE FALSE
      OBVIOUS
    <3>2. R = {x} /\ x \in Nat
      BY <2>4, <3>1
    <3> QED BY <2>3, <3>2
  <2>9. Has(R \ {x})
    BY <2>5, <2>6, <2>7, <2>8
  <2>10. PICK y \in R \ {x} : \A u \in R \ {x} : u <= y
    BY <2>9
  <2>11. x \in Nat /\ y \in Nat
    BY <2>4, <2>10
  <2>12. CASE x <= y
    <3>1. \A u \in R : u <= y
      BY <2>10, <2>12
    <3> QED BY <2>3, <2>10, <3>1
  <2>13. CASE ~(x <= y)
    <3>1. \A u \in R : u \in Nat /\ u <= x
      BY <2>10, <2>11, <2>13
    <3> QED BY <2>3, <2>4, <3>1
  <2> QED BY <2>11, <2>12, <2>13
<1>2. S \in SUBSET Nat /\ Cardinality(S) \in Nat
  BY AttemptAssumption, FS_CardinalityType
<1>3. Has(S)
  BY <1>1, <1>2
<1> QED BY <1>3 DEF Latest

\* What a handler's notes keep from step to step.
SameTask(j, k) ==
  /\ k.op = j.op /\ k.turn = j.turn /\ k.mode = j.mode /\ k.latch = j.latch
  /\ k.unit = j.unit

\* A request about a turn starts with nothing else in hand.
LEMMA TurnStarts ==
  ASSUME NEW t \in Turns
  PROVE  /\ \A b \in BOOLEAN :
              LET k == [NoJob EXCEPT !.op = "readiness", !.turn = t, !.ready = b] IN
              k \in Jobs /\ k.turn = t /\ k.next = "idle" /\ ~k.bundle /\ k.op \notin Operator
         /\ \A o \in {"activate", "transport"} :
              LET k == [NoJob EXCEPT !.op = o, !.turn = t] IN
              k \in Jobs /\ k.turn = t /\ k.next = "idle" /\ ~k.bundle /\ k.op \notin Operator
         /\ LET k == [NoJob EXCEPT !.op = "recover", !.turn = t, !.next = "recover"] IN
            k \in Jobs /\ k.turn = t /\ k.next = "recover" /\ ~k.bundle /\ k.op \notin Operator
         /\ \A u \in Turns :
              LET k == [NoJob EXCEPT !.op = "sync", !.turn = t, !.unit = u] IN
              /\ k \in Jobs /\ k.turn = t /\ k.next = "idle" /\ ~k.bundle
              /\ k.op \notin Operator /\ k.unit = u
<1> USE NoRowTyped, FreshTyped
<1>1. ASSUME NEW b \in BOOLEAN
      PROVE  LET k == [NoJob EXCEPT !.op = "readiness", !.turn = t, !.ready = b] IN
             k \in Jobs /\ k.turn = t /\ k.next = "idle" /\ ~k.bundle /\ k.op \notin Operator
  BY DEF NoJob, Jobs, Nexts, Modes, Operator
<1>2. ASSUME NEW o \in {"activate", "transport"}
      PROVE  LET k == [NoJob EXCEPT !.op = o, !.turn = t] IN
             k \in Jobs /\ k.turn = t /\ k.next = "idle" /\ ~k.bundle /\ k.op \notin Operator
  BY DEF NoJob, Jobs, Nexts, Modes, Operator
<1>3. LET k == [NoJob EXCEPT !.op = "recover", !.turn = t, !.next = "recover"] IN
      k \in Jobs /\ k.turn = t /\ k.next = "recover" /\ ~k.bundle /\ k.op \notin Operator
  BY DEF NoJob, Jobs, Nexts, Modes, Operator
<1>4. ASSUME NEW u \in Turns
      PROVE  LET k == [NoJob EXCEPT !.op = "sync", !.turn = t, !.unit = u] IN
             /\ k \in Jobs /\ k.turn = t /\ k.next = "idle" /\ ~k.bundle
             /\ k.op \notin Operator /\ k.unit = u
  BY DEF NoJob, Jobs, Nexts, Modes, Operator
<1> QED BY <1>1, <1>2, <1>3, <1>4

\* A handler without a request has nothing to go on with.
LEMMA NothingInHand == NoJob.next = "idle" /\ ~NoJob.bundle /\ NoJob.op = "none"
  BY DEF NoJob

(***************************************************************************)
(* The steps that leave the transport alone, all but seven of the          *)
(* service's: nobody comes to hold more of an attempt than before.         *)
(***************************************************************************)
PastAt(p, j) == p \in Crossing \cup {"forget"} \/ j.next = "forget"

SoundAt(p, j) ==
  /\ p \in {"arm", "arm_inner", "restore"} => j.op = "arm"
  /\ p \in {"review", "attest"} => j.op = p
  /\ p \in {"invalidate", "mark_failed"} => j.next \in {"recover", "drop"}
  /\ p \in Lone => j.next # "forget"
  /\ p \notin Lone => j.op \notin Operator /\ j.turn \in Turns

\* A handler that goes from step p with notes j to step q with notes k.
Work(p, j, q, k) ==
  /\ PastAt(q, k) => PastAt(p, j) /\ k.turn = j.turn
  /\ q \in Crossing => p \in Crossing
  /\ q \in {"intercept", "process"} => q = p
  /\ k.bundle => j.bundle /\ k.turn = j.turn
  /\ q \in {"unit", "unit_write"} =>
       p \in {"unit", "unit_write"} /\ k.turn = j.turn /\ k.unit = j.unit

\* It does not begin a command either.
Tame(p, j, q, k) ==
  /\ Work(p, j, q, k)
  /\ q \in {"arm", "review"} => q = p /\ k.mode = j.mode

Calm ==
  /\ TypeOK'
  /\ sent' = sent
  /\ \A t \in Turns : Kept(row[t], row'[t])
  /\ \A t \in Turns : cap[t] = "prepared_consumed" => cap'[t] = "prepared_consumed"
  /\ \A t \in Turns : turn'[t] = "visible_released_waiting_unit" =>
                        turn[t] = "visible_released_waiting_unit"
  /\ \A g \in Handlers :
       /\ Work(pc[g], job[g], pc'[g], job'[g])
       /\ SoundAt(pc'[g], job'[g])
       /\ pc'[g] \notin Lone => row'[job'[g].turn].state # "absent"
       /\ pc'[g] = "intercept" /\ job[g].turn \in memory.bound => job[g].turn \in memory'.bound
       /\ pc'[g] = "unit_write" => pc[g] = "unit_write" \/ row[job[g].turn].bundle

Quiet == Calm /\ \A g \in Handlers : Tame(pc[g], job[g], pc'[g], job'[g])

\* A handler that does not move holds what it held.
LEMMA TameStays == ASSUME NEW p, NEW j PROVE Tame(p, j, p, j)
  BY DEF Tame, Work

\* One handler moves.
LEMMA OneMoves ==
  ASSUME TypeOK, \A g \in Handlers : JobSound(g),
         NEW h \in Handlers, NEW l \in Steps, NEW j \in Jobs,
         pc' = [pc EXCEPT ![h] = l], job' = [job EXCEPT ![h] = j],
         Tame(pc[h], job[h], l, j), SoundAt(l, j),
         l \notin Lone => row'[j.turn].state # "absent",
         l = "unit_write" => row[job[h].turn].bundle,
         l = "intercept" /\ job[h].turn \in memory.bound => job[h].turn \in memory'.bound,
         \A t \in Turns : Kept(row[t], row'[t]),
         \A g \in Handlers \ {h} : pc[g] = "intercept" /\ job[g].turn \in memory.bound =>
                                     job[g].turn \in memory'.bound
  PROVE  /\ pc' \in [Handlers -> Steps] /\ job' \in [Handlers -> Jobs]
         /\ \A g \in Handlers :
              /\ Tame(pc[g], job[g], pc'[g], job'[g])
              /\ SoundAt(pc'[g], job'[g])
              /\ pc'[g] \notin Lone => row'[job'[g].turn].state # "absent"
              /\ pc'[g] = "intercept" /\ job[g].turn \in memory.bound =>
                   job[g].turn \in memory'.bound
              /\ pc'[g] = "unit_write" => pc[g] = "unit_write" \/ row[job[g].turn].bundle
<1>1. pc \in [Handlers -> Steps] /\ job \in [Handlers -> Jobs]
  BY DEF TypeOK
<1>2. pc' \in [Handlers -> Steps] /\ job' \in [Handlers -> Jobs]
  BY <1>1
<1>3. pc'[h] = l /\ job'[h] = j
  BY <1>1
<1>4. ASSUME NEW g \in Handlers
      PROVE  /\ Tame(pc[g], job[g], pc'[g], job'[g])
             /\ SoundAt(pc'[g], job'[g])
             /\ pc'[g] \notin Lone => row'[job'[g].turn].state # "absent"
             /\ pc'[g] = "intercept" /\ job[g].turn \in memory.bound =>
                  job[g].turn \in memory'.bound
             /\ pc'[g] = "unit_write" => pc[g] = "unit_write" \/ row[job[g].turn].bundle
  <2>1. CASE g = h
    BY <1>3, <2>1
  <2>2. CASE g # h
    <3>1. pc'[g] = pc[g] /\ job'[g] = job[g]
      BY <1>1, <2>2
    <3>2. JobSound(g)
      OBVIOUS
    <3>3. SoundAt(pc[g], job[g])
      BY <3>2 DEF JobSound, SoundAt, T
    <3>4. pc[g] \notin Lone => row'[job[g].turn].state # "absent"
      <4>1. SUFFICES ASSUME pc[g] \notin Lone PROVE row'[job[g].turn].state # "absent"
        OBVIOUS
      <4>2. job[g].turn \in Turns /\ row[job[g].turn].state # "absent"
        BY <3>2, <4>1 DEF JobSound, T, Present
      <4> QED BY <4>2 DEF Kept
    <3> QED BY <2>2, <3>1, <3>3, <3>4, TameStays
  <2> QED BY <2>1, <2>2
<1> QED BY <1>2, <1>4

\* The same, for a step that ends an operation.
LEMMA LeaveTame ==
  ASSUME NEW p, NEW j
  PROVE  Tame(p, j, "idle", NoJob) /\ SoundAt("idle", NoJob) /\ "idle" \in Lone
  BY NothingInHand DEF Tame, Work, SoundAt, PastAt, Lone, Crossing

\* A handler whose notes stay.
LEMMA SameJob ==
  ASSUME TypeOK, NEW h \in Handlers PROVE job = [job EXCEPT ![h] = job[h]] /\ job[h] \in Jobs
  BY DEF TypeOK

\* Attempts that stay.
LEMMA RowsStay ==
  ASSUME TypeOK PROVE \A t \in Turns : row[t] \in Rows /\ Kept(row[t], row[t])
  BY DEF TypeOK, Kept

\* The attempt a handler works on.
LEMMA OwnAttempt ==
  ASSUME TypeOK, \A g \in Handlers : JobSound(g), NEW h \in Handlers, pc[h] \notin Lone
  PROVE  /\ job[h] \in Jobs /\ T(h) \in Turns /\ T(h) = job[h].turn
         /\ row[T(h)] \in Rows /\ row[T(h)].state # "absent" /\ job[h].op \notin Operator
  BY DEF TypeOK, JobSound, T, Present

\* Requests about a turn.
LEMMA RequestsQuiet ==
  ASSUME Inv, NEW h \in Handlers, NEW t \in Turns, Handle(h, t)
  PROVE  Quiet /\ latch' = latch /\ review' = review
<1>0. TypeOK /\ (\A g \in Handlers : JobSound(g))
  BY DEF Inv
<1>1. /\ row' = row /\ cap' = cap /\ turn' = turn /\ sent' = sent /\ latch' = latch
      /\ review' = review /\ receipt' = receipt /\ shadow' = shadow /\ boot' = boot
  BY DEF Handle, ReadinessRead, ActivateRead, RecoverRead, TransportStart, control, semantic
<1>2. memory' \in Memories /\ memory.bound \subseteq memory'.bound
  <2>1. memory \in Memories
    BY <1>0 DEF TypeOK
  <2>2. memory' = memory \/ memory' = [memory EXCEPT !.bound = @ \cup {t}]
    BY DEF Handle, ReadinessRead, ActivateRead, RecoverRead, TransportStart
  <2> QED BY <2>1, <2>2 DEF Memories
<1>3. PICK l \in {"readiness", "activate", "recover", "invalidate", "boundary"}, k \in Jobs :
        /\ Start(h, l, k)
        /\ k.turn = t /\ k.next \in {"idle", "recover"} /\ ~k.bundle /\ k.op \notin Operator
        /\ l = "invalidate" => k.next = "recover"
        /\ row[t].state # "absent"
  <2>1. CASE \E ready \in BOOLEAN : ReadinessRead(h, t, ready)
    <3>1. PICK ready \in BOOLEAN : ReadinessRead(h, t, ready)
      BY <2>1
    <3> DEFINE k == [NoJob EXCEPT !.op = "readiness", !.turn = t, !.ready = ready]
    <3>2. k \in Jobs /\ k.turn = t /\ k.next = "idle" /\ ~k.bundle /\ k.op \notin Operator
      BY NoRowTyped, FreshTyped DEF NoJob, Jobs, Nexts, Modes, Operator
    <3>3. Start(h, "readiness", k) /\ row[t].state # "absent"
      BY <3>1 DEF ReadinessRead
    <3> HIDE DEF k
    <3> QED BY <3>2, <3>3
  <2>2. CASE ActivateRead(h, t)
    <3> DEFINE k == [NoJob EXCEPT !.op = "activate", !.turn = t]
    <3>2. k \in Jobs /\ k.turn = t /\ k.next = "idle" /\ ~k.bundle /\ k.op \notin Operator
      BY TurnStarts
    <3>3. Start(h, "activate", k) /\ row[t].state # "absent"
      BY <2>2 DEF ActivateRead
    <3> HIDE DEF k
    <3> QED BY <3>2, <3>3
  <2>3. CASE RecoverRead(h, t)
    <3> DEFINE k == [NoJob EXCEPT !.op = "recover", !.turn = t, !.next = "recover"]
               l == IF turn[t] = "absent" THEN "recover" ELSE "invalidate"
    <3>2. k \in Jobs /\ k.turn = t /\ k.next = "recover" /\ ~k.bundle /\ k.op \notin Operator
      BY TurnStarts
    <3>3. Start(h, l, k) /\ row[t].state # "absent"
      BY <2>3 DEF RecoverRead
    <3>4. l \in {"recover", "invalidate"}
      OBVIOUS
    <3> HIDE DEF k, l
    <3> QED BY <3>2, <3>3, <3>4
  <2>4. CASE TransportStart(h, t)
    <3> DEFINE k == [NoJob EXCEPT !.op = "transport", !.turn = t]
    <3>2. k \in Jobs /\ k.turn = t /\ k.next = "idle" /\ ~k.bundle /\ k.op \notin Operator
      BY TurnStarts
    <3>3. Start(h, "boundary", k) /\ row[t].state # "absent"
      BY <2>4 DEF TransportStart
    <3> HIDE DEF k
    <3> QED BY <3>2, <3>3
  <2> QED BY <2>1, <2>2, <2>3, <2>4 DEF Handle
<1>4. pc' = [pc EXCEPT ![h] = l] /\ job' = [job EXCEPT ![h] = k]
  BY <1>3 DEF Start, Goto
<1>5. Tame(pc[h], job[h], l, k) /\ SoundAt(l, k) /\ l \in Steps
  BY <1>3 DEF Tame, Work, SoundAt, PastAt, Lone, Crossing, Steps, Nexts
<1>6. /\ pc' \in [Handlers -> Steps] /\ job' \in [Handlers -> Jobs]
      /\ \A g \in Handlers :
           /\ Tame(pc[g], job[g], pc'[g], job'[g])
           /\ SoundAt(pc'[g], job'[g])
           /\ pc'[g] \notin Lone => row'[job'[g].turn].state # "absent"
           /\ pc'[g] = "intercept" /\ job[g].turn \in memory.bound =>
                job[g].turn \in memory'.bound
           /\ pc'[g] = "unit_write" => pc[g] = "unit_write" \/ row[job[g].turn].bundle
  BY <1>0, <1>1, <1>2, <1>3, <1>4, <1>5, OneMoves, RowsStay
<1> QED BY <1>0, <1>1, <1>2, <1>6, RowsStay DEF Quiet, Calm, Tame, TypeOK

\* What a step must show to be quiet when one handler moves.
LEMMA QuietMove ==
  ASSUME TypeOK, \A g \in Handlers : JobSound(g),
         NEW h \in Handlers, NEW l \in Steps, NEW j \in Jobs,
         pc' = [pc EXCEPT ![h] = l], job' = [job EXCEPT ![h] = j],
         Tame(pc[h], job[h], l, j), SoundAt(l, j),
         l \notin Lone => row'[j.turn].state # "absent",
         l = "unit_write" => row[job[h].turn].bundle,
         \A t \in Turns : Kept(row[t], row'[t]),
         \A g \in Handlers : pc'[g] = "intercept" /\ job[g].turn \in memory.bound =>
                               job[g].turn \in memory'.bound,
         \A t \in Turns : cap[t] = "prepared_consumed" => cap'[t] = "prepared_consumed",
         \A t \in Turns : turn'[t] = "visible_released_waiting_unit" =>
                            turn[t] = "visible_released_waiting_unit",
         latch' = latch, review' = review, sent' = sent,
         row' \in [Turns -> Rows], receipt' \in [Turns -> Rows], memory' \in Memories,
         shadow' = shadow \/ (TypeOK!5)', boot' = boot \/ (TypeOK!6)',
         turn' = turn \/ (TypeOK!7)', cap' = cap \/ (TypeOK!8)'
  PROVE  Quiet
<1>1. /\ pc' \in [Handlers -> Steps] /\ job' \in [Handlers -> Jobs]
      /\ \A g \in Handlers :
           /\ Tame(pc[g], job[g], pc'[g], job'[g])
           /\ SoundAt(pc'[g], job'[g])
           /\ pc'[g] \notin Lone => row'[job'[g].turn].state # "absent"
           /\ pc'[g] = "intercept" /\ job[g].turn \in memory.bound =>
                job[g].turn \in memory'.bound
           /\ pc'[g] = "unit_write" => pc[g] = "unit_write" \/ row[job[g].turn].bundle
  <2>1. pc'[h] = l /\ \A g \in Handlers \ {h} : pc'[g] = pc[g]
    BY DEF TypeOK
  <2>2. l = "intercept" /\ job[h].turn \in memory.bound => job[h].turn \in memory'.bound
    BY <2>1
  <2>3. \A g \in Handlers \ {h} : pc[g] = "intercept" /\ job[g].turn \in memory.bound =>
                                    job[g].turn \in memory'.bound
    BY <2>1
  <2> QED BY <2>2, <2>3, OneMoves
<1>2. TypeOK'
  BY <1>1 DEF TypeOK
<1> QED BY <1>1, <1>2 DEF Quiet, Calm, Tame

\* A write of one attempt that keeps what the transport depends on.
LEMMA RowWrite ==
  ASSUME TypeOK, NEW u \in Turns, NEW q \in Rows, Kept(row[u], q),
         row' = [row EXCEPT ![u] = q]
  PROVE  /\ row' \in [Turns -> Rows] /\ row'[u] = q
         /\ \A t \in Turns : Kept(row[t], row'[t])
         /\ row[u].state # "absent" => q.state # "absent"
BY RowsStay DEF TypeOK, Kept

\* An autocommitted update of that kind.
LEMMA UpdateQuiet ==
  ASSUME TypeOK, \A g \in Handlers : JobSound(g), NEW h \in Handlers, pc[h] \notin Lone,
         NEW q \in Rows, Kept(row[T(h)], q),
         NEW n \in Nexts, n # "forget", Update(h, q, n)
  PROVE  Quiet /\ latch' = latch /\ review' = review
<1>1. /\ job[h] \in Jobs /\ T(h) \in Turns /\ T(h) = job[h].turn
      /\ row[T(h)] \in Rows /\ row[T(h)].state # "absent" /\ job[h].op \notin Operator
  BY OwnAttempt
<1>2. /\ row' = [row EXCEPT ![T(h)] = q] /\ pc' = [pc EXCEPT ![h] = "receipt"]
      /\ job' = [job EXCEPT ![h].next = n]
      /\ latch' = latch /\ review' = review /\ receipt' = receipt /\ shadow' = shadow
      /\ boot' = boot /\ turn' = turn /\ cap' = cap /\ memory' = memory /\ sent' = sent
  BY DEF Update, Goto, semantic
<1> DEFINE k == [job[h] EXCEPT !.next = n]
<1>3. k \in Jobs /\ SameTask(job[h], k) /\ k.next = n /\ k.bundle = job[h].bundle
  BY <1>1 DEF Jobs, SameTask
<1>4. job' = [job EXCEPT ![h] = k]
  BY <1>2
<1> HIDE DEF k
<1>5. /\ row' \in [Turns -> Rows] /\ row'[T(h)] = q
      /\ \A t \in Turns : Kept(row[t], row'[t])
      /\ q.state # "absent"
  BY <1>1, <1>2, RowWrite
<1>6. Tame(pc[h], job[h], "receipt", k) /\ SoundAt("receipt", k) /\ "receipt" \in Steps
  BY <1>1, <1>3 DEF Tame, Work, SoundAt, PastAt, Lone, Crossing, Steps, SameTask
<1>7. receipt' \in [Turns -> Rows] /\ memory' \in Memories
  BY <1>2 DEF TypeOK
<1>8. row'[k.turn].state # "absent"
  BY <1>1, <1>3, <1>5 DEF SameTask
<1> QED BY <1>2, <1>3, <1>4, <1>5, <1>6, <1>7, <1>8, QuietMove

\* The writes of readiness, activation, recovery and the final request.
LEMMA WritesQuiet ==
  ASSUME Inv, NEW h \in Handlers,
         \/ ReadinessWrite(h) \/ ActivateWrite(h) \/ RecoverWrite(h) \/ BoundaryWrite(h)
  PROVE  Quiet /\ latch' = latch /\ review' = review
<1>0. TypeOK /\ \A g \in Handlers : JobSound(g)
  BY DEF Inv
<1>1. pc[h] \in {"readiness", "activate", "recover", "boundary"}
  BY DEF ReadinessWrite, ActivateWrite, RecoverWrite, BoundaryWrite
<1>2. pc[h] \notin Lone
  BY <1>1 DEF Lone
<1>3. row[T(h)] \in Rows /\ row[T(h)].state # "absent"
  BY <1>0, <1>2, OwnAttempt
<1>4. PICK q \in Rows, n \in Nexts \ {"forget"} : Kept(row[T(h)], q) /\ Update(h, q, n)
  <2>1. CASE ReadinessWrite(h)
    <3> DEFINE a == [row[T(h)] EXCEPT !.state = "ready", !.ready = "ready", !.endpoint = TRUE]
               b == Unready(row[T(h)])
    <3>1. a \in Rows /\ Kept(row[T(h)], a) /\ b \in Rows /\ Kept(row[T(h)], b)
      BY <1>3, PlainWrites
    <3>2. Update(h, IF job[h].ready THEN a ELSE b, "idle")
      BY <2>1 DEF ReadinessWrite
    <3>3. "idle" \in Nexts \ {"forget"}
      BY DEF Nexts
    <3> HIDE DEF a, b
    <3> QED BY <3>1, <3>2, <3>3
  <2>2. CASE ActivateWrite(h)
    <3> DEFINE a == [row[T(h)] EXCEPT !.state = "activation_pending"]
    <3>1. a \in Rows /\ Kept(row[T(h)], a)
      BY <1>3, PlainWrites
    <3>2. Update(h, a, "commit") /\ "commit" \in Nexts \ {"forget"}
      BY <2>2 DEF ActivateWrite, Nexts
    <3> HIDE DEF a
    <3> QED BY <3>1, <3>2
  <2>3. CASE RecoverWrite(h)
    <3> DEFINE a == Recovered(row[T(h)])
               b == row[T(h)]
               c == IF row[T(h)].state = "activation_pending" THEN a ELSE b
    <3>1. a \in Rows /\ Kept(row[T(h)], a) /\ b \in Rows /\ Kept(row[T(h)], b)
      BY <1>3, PlainWrites
    <3>2. Update(h, c, "bound") /\ "bound" \in Nexts \ {"forget"}
      BY <2>3 DEF RecoverWrite, Nexts
    <3>3. c = a \/ c = b
      OBVIOUS
    <3> HIDE DEF a, b, c
    <3> QED BY <3>1, <3>2, <3>3
  <2>4. CASE BoundaryWrite(h)
    <3> DEFINE a == [row[T(h)] EXCEPT !.final = TRUE]
    <3>1. a \in Rows /\ Kept(row[T(h)], a)
      BY <1>3, PlainWrites
    <3>2. Update(h, a, "authorize") /\ "authorize" \in Nexts \ {"forget"}
      BY <2>4 DEF BoundaryWrite, Nexts
    <3> HIDE DEF a
    <3> QED BY <3>1, <3>2
  <2> QED BY <2>1, <2>2, <2>3, <2>4
<1> QED BY <1>0, <1>2, <1>4, UpdateQuiet

\* An operation that ends, and forgets nothing that another request needs.
LEMMA LeaveQuiet ==
  ASSUME TypeOK, \A g \in Handlers : JobSound(g), NEW h \in Handlers, Leave(h),
         latch' = latch, review' = review, row' = row, receipt' = receipt,
         shadow' = shadow, boot' = boot, turn' = turn, cap' = cap, sent' = sent,
         memory' \in Memories,
         \A g \in Handlers : pc'[g] = "intercept" /\ job[g].turn \in memory.bound =>
                               job[g].turn \in memory'.bound
  PROVE  Quiet
<1>1. pc' = [pc EXCEPT ![h] = "idle"] /\ job' = [job EXCEPT ![h] = NoJob]
  BY DEF Leave, Goto
<1>2. "idle" \in Steps /\ "idle" \in Lone
  BY DEF Steps, Lone
<1>3. row' \in [Turns -> Rows] /\ receipt' \in [Turns -> Rows]
  BY DEF TypeOK
<1> QED BY <1>1, <1>2, <1>3, NoJobTyped, LeaveTame, RowsStay, QuietMove

\* The steps that end a request.
LEMMA LeavesQuiet ==
  ASSUME Inv, NEW h \in Handlers,
         \/ Reserve(h) \/ Drop(h) \/ Bind(h) \/ AuthorizeDenied(h) \/ InterceptDenied(h)
         \/ Forget(h)
  PROVE  Quiet /\ latch' = latch /\ review' = review
<1>0. TypeOK /\ (\A g \in Handlers : JobSound(g)) /\ PastSound
  BY DEF Inv
<1>1. /\ Leave(h) /\ latch' = latch /\ review' = review /\ row' = row /\ receipt' = receipt
      /\ shadow' = shadow /\ boot' = boot /\ turn' = turn /\ cap' = cap /\ sent' = sent
  BY DEF Reserve, Drop, Bind, AuthorizeDenied, InterceptDenied, Forget, control, semantic
<1>2. /\ pc[h] \in {"reserve", "drop", "bound", "authorize", "intercept", "forget"}
      /\ pc[h] = "forget" <=> Forget(h)
  BY DEF Reserve, Drop, Bind, AuthorizeDenied, InterceptDenied, Forget
<1>3. T(h) \in Turns
  BY <1>0, <1>2, OwnAttempt DEF Lone
<1>4. memory \in Memories /\ pc \in [Handlers -> Steps]
  BY <1>0 DEF TypeOK
<1>5. CASE ~Forget(h)
  <2>1. memory' \in Memories /\ memory.bound \subseteq memory'.bound
    <3>1. CASE Reserve(h)
      BY <1>3, <1>4, <3>1 DEF Reserve, Memories
    <3>2. CASE Drop(h)
      BY <1>3, <1>4, <3>2 DEF Drop, Memories
    <3>3. CASE Bind(h)
      BY <1>3, <1>4, <3>3 DEF Bind, Memories
    <3>4. CASE AuthorizeDenied(h) \/ InterceptDenied(h)
      BY <1>4, <3>4 DEF AuthorizeDenied, InterceptDenied
    <3> QED BY <1>5, <3>1, <3>2, <3>3, <3>4
  <2> QED BY <1>0, <1>1, <2>1, LeaveQuiet
<1>6. CASE Forget(h)
  <2>1. memory' = [m \in DOMAIN memory |-> memory[m] \ {T(h)}] /\ pc' = [pc EXCEPT ![h] = "idle"]
    BY <1>6 DEF Forget, Leave, Goto
  <2>2. memory' \in Memories /\ memory'.bound = memory.bound \ {T(h)}
    BY <1>3, <1>4, <2>1 DEF Memories
  <2>3. ASSUME NEW g \in Handlers, pc'[g] = "intercept" PROVE job[g].turn # T(h)
    <3>1. g # h /\ pc[g] = "intercept"
      BY <1>4, <2>1, <2>3
    <3>2. Past(g) /\ Past(h)
      BY <1>2, <1>6, <3>1 DEF Past, Crossing
    <3> QED BY <1>0, <3>1, <3>2 DEF PastSound, T
  <2> QED BY <1>0, <1>1, <2>2, <2>3, LeaveQuiet
<1> QED BY <1>1, <1>5, <1>6

\* Steps that only read, and remember what they read.
LEMMA ReadsQuiet ==
  ASSUME Inv, NEW h \in Handlers, ReceiptRead(h) \/ CompleteRead(h) \/ UnitRead(h)
  PROVE  Quiet /\ latch' = latch /\ review' = review
<1>0. TypeOK /\ \A g \in Handlers : JobSound(g)
  BY DEF Inv
<1>1. /\ latch' = latch /\ review' = review /\ row' = row /\ receipt' = receipt
      /\ shadow' = shadow /\ boot' = boot /\ turn' = turn /\ cap' = cap /\ sent' = sent
      /\ memory' = memory
  BY DEF ReceiptRead, CompleteRead, UnitRead, control, semantic
<1>2. /\ row' \in [Turns -> Rows] /\ receipt' \in [Turns -> Rows] /\ memory' \in Memories
  BY <1>0, <1>1 DEF TypeOK
<1>3. /\ pc[h] \in {"receipt", "complete", "unit"} /\ pc[h] \notin Lone
      /\ job[h] \in Jobs /\ T(h) = job[h].turn /\ T(h) \in Turns
      /\ row[T(h)] \in Rows /\ row[T(h)].state # "absent" /\ job[h].op \notin Operator
  <2>1. pc[h] \in {"receipt", "complete", "unit"} /\ pc[h] \notin Lone
    BY DEF ReceiptRead, CompleteRead, UnitRead, Lone
  <2> QED BY <1>0, <2>1, OwnAttempt
<1>4. CASE ReceiptRead(h)
  <2> DEFINE k == [job[h] EXCEPT !.copy = Receipt(row[T(h)])]
  <2>1. k \in Jobs /\ SameTask(job[h], k) /\ k.next = job[h].next /\ k.bundle = job[h].bundle
    BY <1>3, ReceiptTyped DEF Jobs, SameTask
  <2>2. pc' = [pc EXCEPT ![h] = "receipt_write"] /\ job' = [job EXCEPT ![h] = k]
    BY <1>4 DEF ReceiptRead, Goto
  <2> HIDE DEF k
  <2>3. /\ Tame(pc[h], job[h], "receipt_write", k) /\ SoundAt("receipt_write", k)
        /\ "receipt_write" \in Steps
    BY <1>3, <1>4, <2>1
       DEF ReceiptRead, Tame, Work, SoundAt, PastAt, Lone, Crossing, Steps, SameTask
  <2>4. row'[k.turn].state # "absent"
    BY <1>1, <1>3, <2>1 DEF SameTask
  <2> QED BY <1>0, <1>1, <1>2, <2>1, <2>2, <2>3, <2>4, RowsStay, QuietMove
<1>5. CASE CompleteRead(h) \/ UnitRead(h)
  <2>1. PICK l \in {"complete_write", "unit_write"} :
          /\ pc' = [pc EXCEPT ![h] = l] /\ job' = job
          /\ l = "complete_write" => pc[h] = "complete"
          /\ l = "unit_write" => pc[h] = "unit" /\ row[job[h].turn].bundle
    BY <1>3, <1>5 DEF CompleteRead, UnitRead, Goto
  <2>2. job' = [job EXCEPT ![h] = job[h]]
    BY <1>0, <2>1, SameJob
  <2>3. Tame(pc[h], job[h], l, job[h]) /\ SoundAt(l, job[h]) /\ l \in Steps
    BY <1>3, <2>1 DEF Tame, Work, SoundAt, PastAt, Lone, Crossing, Steps
  <2> QED BY <1>0, <1>1, <1>2, <1>3, <2>1, <2>2, <2>3, RowsStay, QuietMove
<1> QED BY <1>1, <1>4, <1>5

\* The stored receipt, and where its operation goes on.
LEMMA ReceiptWriteQuiet ==
  ASSUME Inv, NEW h \in Handlers, ReceiptWrite(h)
  PROVE  Quiet /\ latch' = latch /\ review' = review
<1>0. TypeOK /\ \A g \in Handlers : JobSound(g)
  BY DEF Inv
<1>1. /\ latch' = latch /\ review' = review /\ row' = row
      /\ shadow' = shadow /\ boot' = boot /\ turn' = turn /\ cap' = cap /\ sent' = sent
      /\ memory' = memory /\ pc[h] = "receipt_write"
      /\ receipt' = [receipt EXCEPT ![T(h)] = job[h].copy]
  BY DEF ReceiptWrite, semantic
<1>2. /\ job[h] \in Jobs /\ T(h) = job[h].turn /\ T(h) \in Turns
      /\ row[T(h)].state # "absent" /\ job[h].op \notin Operator /\ job[h].copy \in Rows
      /\ job[h].next \in Nexts
  <2>1. pc[h] \notin Lone
    BY <1>1 DEF Lone
  <2>2. /\ job[h] \in Jobs /\ T(h) = job[h].turn /\ T(h) \in Turns
        /\ row[T(h)].state # "absent" /\ job[h].op \notin Operator
    BY <1>0, <2>1, OwnAttempt
  <2> QED BY <2>2 DEF Jobs
<1>3. row' \in [Turns -> Rows] /\ receipt' \in [Turns -> Rows] /\ memory' \in Memories
  BY <1>0, <1>1, <1>2 DEF TypeOK
<1>4. CASE job[h].next = "idle"
  <2>1. pc' = [pc EXCEPT ![h] = "idle"] /\ job' = [job EXCEPT ![h] = NoJob]
    BY <1>4 DEF ReceiptWrite, Leave, Goto
  <2>2. "idle" \in Steps /\ "idle" \in Lone
    BY DEF Steps, Lone
  <2> QED BY <1>0, <1>1, <1>3, <2>1, <2>2, NoJobTyped, LeaveTame, RowsStay, QuietMove
<1>5. CASE job[h].next # "idle"
  <2> DEFINE k == [job[h] EXCEPT !.copy = NoRow, !.next = "idle"]
             l == job[h].next
  <2>1. k \in Jobs /\ SameTask(job[h], k) /\ k.next = "idle" /\ k.bundle = job[h].bundle
    BY <1>2, NoRowTyped DEF Jobs, SameTask, Nexts
  <2>2. pc' = [pc EXCEPT ![h] = l] /\ job' = [job EXCEPT ![h] = k]
    BY <1>5 DEF ReceiptWrite, Goto
  <2>3. l \in Nexts \ {"idle"} /\ job[h].next = l
    BY <1>2, <1>5
  <2> HIDE DEF k, l
  <2>4. /\ Tame(pc[h], job[h], l, k) /\ SoundAt(l, k) /\ l \in Steps
        /\ l # "unit_write" /\ l \notin Lone
    BY <1>1, <1>2, <2>1, <2>3
       DEF Tame, Work, SoundAt, PastAt, Lone, Crossing, Steps, SameTask, Nexts
  <2>5. row'[k.turn].state # "absent"
    BY <1>1, <1>2, <2>1 DEF SameTask
  <2> QED BY <1>0, <1>1, <1>3, <2>1, <2>2, <2>4, <2>5, RowsStay, QuietMove
<1> QED BY <1>1, <1>4, <1>5

\* The effective activation: one transaction.
LEMMA ActivationQuiet ==
  ASSUME Inv, NEW h \in Handlers, RecordActivation(h)
  PROVE  Quiet /\ latch' = latch /\ review' = review
<1>0. TypeOK /\ \A g \in Handlers : JobSound(g)
  BY DEF Inv
<1> DEFINE q == [row[T(h)] EXCEPT !.state = "activated", !.issued = TRUE, !.active = TRUE]
<1>1. /\ latch' = latch /\ review' = review /\ row' = [row EXCEPT ![T(h)] = q]
      /\ shadow' = shadow /\ boot' = boot /\ turn' = turn /\ cap' = cap /\ sent' = sent
      /\ memory' = memory /\ pc[h] = "record" /\ pc' = [pc EXCEPT ![h] = "reserve"]
      /\ job' = job /\ receipt' = [receipt EXCEPT ![T(h)] = Receipt(q)]
  BY DEF RecordActivation, semantic, Goto
<1>2. /\ job[h] \in Jobs /\ T(h) = job[h].turn /\ T(h) \in Turns
      /\ row[T(h)] \in Rows /\ row[T(h)].state # "absent" /\ job[h].op \notin Operator
  <2>1. pc[h] \notin Lone
    BY <1>1 DEF Lone
  <2> QED BY <1>0, <2>1, OwnAttempt
<1>3. q \in Rows /\ Kept(row[T(h)], q)
  BY <1>2, PlainWrites
<1> HIDE DEF q
<1>4. Receipt(q) \in Rows
  BY <1>3, ReceiptTyped
<1>5. /\ row' \in [Turns -> Rows] /\ row'[T(h)] = q /\ q.state # "absent"
      /\ \A t \in Turns : Kept(row[t], row'[t])
  BY <1>0, <1>1, <1>2, <1>3, RowWrite
<1>6. receipt' \in [Turns -> Rows] /\ memory' \in Memories
  BY <1>0, <1>1, <1>2, <1>4 DEF TypeOK
<1>7. job' = [job EXCEPT ![h] = job[h]]
  BY <1>0, <1>1, SameJob
<1>8. Tame(pc[h], job[h], "reserve", job[h]) /\ SoundAt("reserve", job[h]) /\ "reserve" \in Steps
  BY <1>0, <1>1, <1>2 DEF Tame, Work, SoundAt, PastAt, Lone, Crossing, Steps
<1> QED BY <1>0, <1>1, <1>2, <1>5, <1>6, <1>7, <1>8, QuietMove

\* What Gate 12 records of an activation, and of its failure.
LEMMA SemanticQuiet ==
  ASSUME Inv, NEW h \in Handlers,
         Commit(h) \/ Issue(h) \/ IssueFails(h) \/ Invalidate(h) \/ MarkFailed(h)
  PROVE  Quiet /\ latch' = latch /\ review' = review
<1>0. TypeOK /\ \A g \in Handlers : JobSound(g)
  BY DEF Inv
<1>1. /\ latch' = latch /\ review' = review /\ row' = row /\ receipt' = receipt
      /\ sent' = sent /\ memory' = memory
  BY DEF Commit, Issue, IssueFails, Invalidate, MarkFailed, control
<1>2. pc[h] \in {"commit", "issue", "invalidate", "mark_failed"} /\ pc[h] \notin Lone
  BY DEF Commit, Issue, IssueFails, Invalidate, MarkFailed, Lone
<1>3. /\ job[h] \in Jobs /\ T(h) = job[h].turn /\ T(h) \in Turns
      /\ row[T(h)] \in Rows /\ row[T(h)].state # "absent" /\ row[T(h)].mode \in Modes
      /\ job[h].op \notin Operator
      /\ pc[h] = "mark_failed" => job[h].next \in {"recover", "drop"}
  <2>1. /\ job[h] \in Jobs /\ T(h) = job[h].turn /\ T(h) \in Turns
        /\ row[T(h)] \in Rows /\ row[T(h)].state # "absent" /\ job[h].op \notin Operator
    BY <1>0, <1>2, OwnAttempt
  <2>2. JobSound(h)
    BY <1>0
  <2> QED BY <2>1, <2>2 DEF Rows, JobSound
<1>4. /\ row' \in [Turns -> Rows] /\ receipt' \in [Turns -> Rows] /\ memory' \in Memories
  BY <1>0, <1>1 DEF TypeOK
<1>5. /\ shadow' = shadow \/ (TypeOK!5)'
      /\ boot' = boot \/ (TypeOK!6)'
      /\ turn' = turn \/ (TypeOK!7)'
      /\ cap' = cap \/ (TypeOK!8)'
      /\ \A t \in Turns : cap[t] = "prepared_consumed" => cap'[t] = "prepared_consumed"
      /\ \A t \in Turns : turn'[t] = "visible_released_waiting_unit" =>
                            turn[t] = "visible_released_waiting_unit"
  <2>1. CASE Commit(h)
    BY <1>0, <1>3, <2>1 DEF Commit, control, Mode, TypeOK
  <2>2. CASE Issue(h)
    BY <1>0, <1>3, <2>2 DEF Issue, control, TypeOK
  <2>3. CASE IssueFails(h)
    BY <1>0, <1>3, <2>3 DEF IssueFails, control, TypeOK
  <2>4. CASE Invalidate(h)
    BY <1>0, <1>3, <2>4 DEF Invalidate, control, TypeOK
  <2>5. CASE MarkFailed(h)
    BY <1>0, <1>3, <2>5 DEF MarkFailed, control, TypeOK
  <2> QED BY <2>1, <2>2, <2>3, <2>4, <2>5
<1>6. CASE MarkFailed(h)
  <2> DEFINE k == [job[h] EXCEPT !.next = "idle"]
             l == job[h].next
  <2>1. k \in Jobs /\ SameTask(job[h], k) /\ k.next = "idle" /\ k.bundle = job[h].bundle
    BY <1>3 DEF Jobs, SameTask, Nexts
  <2>2. pc' = [pc EXCEPT ![h] = l] /\ job' = [job EXCEPT ![h] = k] /\ pc[h] = "mark_failed"
    BY <1>6 DEF MarkFailed, Goto
  <2>3. l \in {"recover", "drop"} /\ job[h].next = l
    BY <1>3, <2>2
  <2> HIDE DEF k, l
  <2>4. Tame(pc[h], job[h], l, k) /\ SoundAt(l, k) /\ l \in Steps
    BY <1>3, <2>1, <2>2, <2>3
       DEF Tame, Work, SoundAt, PastAt, Lone, Crossing, Steps, SameTask, Nexts
  <2>5. row'[k.turn].state # "absent"
    BY <1>1, <1>3, <2>1 DEF SameTask
  <2> QED BY <1>0, <1>1, <1>4, <1>5, <2>1, <2>2, <2>3, <2>4, <2>5, RowsStay, QuietMove
<1>7. CASE ~MarkFailed(h)
  <2>1. PICK l \in {"issue", "record", "drop", "mark_failed"} :
          /\ pc' = [pc EXCEPT ![h] = l] /\ job' = job
          /\ l = "mark_failed" => pc[h] = "invalidate"
    <3>1. Commit(h) => pc' = [pc EXCEPT ![h] = "issue"] /\ job' = job
      BY DEF Commit, Goto
    <3>2. Issue(h) => pc' = [pc EXCEPT ![h] = "record"] /\ job' = job
      BY DEF Issue, Goto
    <3>3. IssueFails(h) => pc' = [pc EXCEPT ![h] = "drop"] /\ job' = job
      BY DEF IssueFails, Goto
    <3>4. Invalidate(h) => /\ pc' = [pc EXCEPT ![h] = "mark_failed"] /\ job' = job
                           /\ pc[h] = "invalidate"
      BY DEF Invalidate, Goto
    <3> QED BY <1>7, <3>1, <3>2, <3>3, <3>4
  <2>2. job' = [job EXCEPT ![h] = job[h]]
    BY <1>0, <2>1, SameJob
  <2>3. SoundAt(pc[h], job[h])
    BY <1>0 DEF JobSound, SoundAt, T
  <2>4. Tame(pc[h], job[h], l, job[h]) /\ SoundAt(l, job[h]) /\ l \in Steps
    BY <1>2, <1>3, <2>1, <2>3 DEF Tame, Work, SoundAt, PastAt, Lone, Crossing, Steps, Nexts
  <2>5. row'[job[h].turn].state # "absent" /\ l # "unit_write" /\ job[h] \in Jobs
    BY <1>1, <1>3, <2>1
  <2>6. pc' = [pc EXCEPT ![h] = l]
    BY <2>1
  <2> QED BY <1>0, <1>1, <1>4, <1>5, <2>2, <2>4, <2>5, <2>6, RowsStay, QuietMove
<1> QED BY <1>1, <1>6, <1>7

\* An exception ends the operation, or sends an activation to its cleaning up.
LEMMA RaiseQuiet ==
  ASSUME Inv, NEW h \in Handlers, Raise(h)
  PROVE  Quiet /\ latch' = latch /\ review' = review
<1>0. TypeOK /\ \A g \in Handlers : JobSound(g)
  BY DEF Inv
<1>1. /\ latch' = latch /\ review' = review /\ row' = row /\ receipt' = receipt
      /\ shadow' = shadow /\ boot' = boot /\ turn' = turn /\ cap' = cap /\ sent' = sent
      /\ memory' = memory
  BY DEF Raise, control, semantic
<1>2. row' \in [Turns -> Rows] /\ receipt' \in [Turns -> Rows] /\ memory' \in Memories
  BY <1>0, <1>1 DEF TypeOK
<1>3. CASE Leave(h)
  BY <1>0, <1>1, <1>2, <1>3, LeaveQuiet
<1>4. CASE ~Leave(h)
  <2>1. job[h].op = "activate" /\ pc[h] # "idle"
    BY <1>4 DEF Raise, Idle
  <2>2. pc[h] \notin Lone
    BY <1>0, <2>1 DEF JobSound, Lone
  <2>3. /\ job[h] \in Jobs /\ T(h) = job[h].turn /\ T(h) \in Turns
        /\ row[T(h)].state # "absent" /\ job[h].op \notin Operator
    BY <1>0, <2>2, OwnAttempt
  <2>4. CASE pc' = [pc EXCEPT ![h] = "drop"] /\ job' = job
    <3>1. job' = [job EXCEPT ![h] = job[h]]
      BY <1>0, <2>4, SameJob
    <3>2. Tame(pc[h], job[h], "drop", job[h]) /\ SoundAt("drop", job[h]) /\ "drop" \in Steps
      BY <2>3 DEF Tame, Work, SoundAt, PastAt, Lone, Crossing, Steps, Nexts
    <3>3. row'[job[h].turn].state # "absent"
      BY <1>1, <2>3
    <3> QED BY <1>0, <1>1, <1>2, <2>3, <2>4, <3>1, <3>2, <3>3, RowsStay, QuietMove
  <2>5. CASE pc' = [pc EXCEPT ![h] = "invalidate"] /\ job' = [job EXCEPT ![h].next = "drop"]
    <3> DEFINE k == [job[h] EXCEPT !.next = "drop"]
    <3>1. job' = [job EXCEPT ![h] = k]
      BY <2>5
    <3>2. k \in Jobs /\ SameTask(job[h], k) /\ k.next = "drop" /\ k.bundle = job[h].bundle
      BY <2>3 DEF Jobs, SameTask, Nexts
    <3> HIDE DEF k
    <3>3. /\ Tame(pc[h], job[h], "invalidate", k) /\ SoundAt("invalidate", k)
          /\ "invalidate" \in Steps
      BY <2>3, <3>2 DEF Tame, Work, SoundAt, PastAt, Lone, Crossing, Steps, SameTask
    <3>4. row'[k.turn].state # "absent"
      BY <1>1, <2>3, <3>2 DEF SameTask
    <3> QED BY <1>0, <1>1, <1>2, <2>5, <3>1, <3>2, <3>3, <3>4, RowsStay, QuietMove
  <2> QED BY <1>4, <2>4, <2>5 DEF Raise, Goto
<1> QED BY <1>1, <1>3, <1>4

\* A restart forgets every service request, and no command.
LEMMA RestartQuiet ==
  ASSUME Inv, Restart
  PROVE  Quiet /\ latch' = latch /\ review' = review
<1>0. TypeOK /\ \A g \in Handlers : JobSound(g)
  BY DEF Inv
<1>1. /\ latch' = latch /\ review' = review /\ row' = row /\ receipt' = receipt
      /\ shadow' = shadow /\ turn' = turn /\ cap' = cap /\ sent' = sent
      /\ memory' = NoMemory /\ boot' = [m \in Modes |-> FALSE]
      /\ pc' = [h \in Handlers |-> IF job[h].op \in Operator THEN pc[h] ELSE "idle"]
      /\ job' = [h \in Handlers |-> IF job[h].op \in Operator THEN job[h] ELSE NoJob]
  BY DEF Restart, control
<1>2. ASSUME NEW g \in Handlers
      PROVE  /\ pc'[g] \in Steps /\ job'[g] \in Jobs
             /\ Tame(pc[g], job[g], pc'[g], job'[g])
             /\ SoundAt(pc'[g], job'[g]) /\ pc'[g] \in Lone
  <2>1. pc[g] \in Steps /\ job[g] \in Jobs /\ JobSound(g)
    BY <1>0 DEF TypeOK
  <2>2. CASE job[g].op \in Operator
    <3>1. pc'[g] = pc[g] /\ job'[g] = job[g]
      BY <1>1, <2>2
    <3>2. SoundAt(pc[g], job[g]) /\ pc[g] \in Lone
      BY <2>1, <2>2 DEF JobSound, SoundAt, T
    <3> QED BY <2>1, <3>1, <3>2, TameStays
  <2>3. CASE job[g].op \notin Operator
    <3>1. pc'[g] = "idle" /\ job'[g] = NoJob
      BY <1>1, <2>3
    <3>2. "idle" \in Steps
      BY DEF Steps, Lone
    <3> QED BY <3>1, <3>2, LeaveTame, NoJobTyped
  <2> QED BY <2>2, <2>3
<1>3. pc' \in [Handlers -> Steps] /\ job' \in [Handlers -> Jobs]
  BY <1>1, <1>2
<1>4. memory' \in Memories /\ boot' \in [Modes -> BOOLEAN]
  BY <1>1 DEF NoMemory, Memories
<1>5. TypeOK'
  BY <1>0, <1>1, <1>3, <1>4 DEF TypeOK
<1>6. \A g \in Handlers : pc'[g] # "intercept" /\ pc'[g] # "unit_write"
  BY <1>2 DEF Lone
<1> QED BY <1>0, <1>1, <1>2, <1>5, <1>6, RowsStay DEF Quiet, Calm, Tame

\* What changes the globals only.
LEMMA GlobalsQuiet ==
  ASSUME Inv, NEW t \in Turns, Preflight(t) \/ Lookup(t)
  PROVE  Quiet /\ latch' = latch /\ review' = review
<1>0. TypeOK /\ \A g \in Handlers : JobSound(g)
  BY DEF Inv
<1>1. /\ latch' = latch /\ review' = review /\ row' = row /\ receipt' = receipt
      /\ shadow' = shadow /\ boot' = boot /\ turn' = turn /\ cap' = cap /\ sent' = sent
      /\ pc' = pc /\ job' = job
      /\ \/ memory' = [memory EXCEPT !.prepared = @ \cup {t}]
         \/ memory' = [memory EXCEPT !.bound = @ \cup {t}]
  BY DEF Preflight, Lookup, control, semantic
<1>2. memory' \in Memories /\ memory.bound \subseteq memory'.bound
  <2>1. memory \in Memories
    BY <1>0 DEF TypeOK
  <2>2. CASE memory' = [memory EXCEPT !.prepared = @ \cup {t}]
    BY <2>1, <2>2 DEF Memories
  <2>3. CASE memory' = [memory EXCEPT !.bound = @ \cup {t}]
    BY <2>1, <2>3 DEF Memories
  <2> QED BY <1>1, <2>2, <2>3
<1>3. TypeOK'
  BY <1>0, <1>1, <1>2 DEF TypeOK
<1>4. ASSUME NEW g \in Handlers
      PROVE  /\ SoundAt(pc[g], job[g])
             /\ pc[g] \notin Lone => row[job[g].turn].state # "absent"
  <2>1. JobSound(g)
    BY <1>0
  <2> QED BY <2>1 DEF JobSound, SoundAt, T, Present
<1> QED BY <1>0, <1>1, <1>2, <1>3, <1>4, RowsStay, TameStays DEF Quiet, Calm, Tame

(***************************************************************************)
(* Commands touch latches, the review and the root, never an attempt.      *)
(***************************************************************************)
LEMMA CommandMove ==
  ASSUME TypeOK, \A g \in Handlers : JobSound(g),
         NEW h \in Handlers, NEW l \in Lone, NEW j \in Jobs,
         pc' = [pc EXCEPT ![h] = l], job' = [job EXCEPT ![h] = j],
         SoundAt(l, j), j.bundle => j = job[h],
         row' = row, receipt' = receipt, turn' = turn, cap' = cap, sent' = sent,
         memory' = memory,
         latch' \in [Modes -> Latches], review' \in {"pending", "predecessor", "rehearsal"},
         shadow' = shadow \/ (TypeOK!5)', boot' = boot \/ (TypeOK!6)'
  PROVE  Calm
<1>1. pc \in [Handlers -> Steps] /\ job \in [Handlers -> Jobs]
  BY DEF TypeOK
<1>2. l \in Steps
  BY DEF Steps
<1>3. TypeOK'
  BY <1>1, <1>2 DEF TypeOK
<1>4. ASSUME NEW g \in Handlers
      PROVE  /\ Work(pc[g], job[g], pc'[g], job'[g])
             /\ SoundAt(pc'[g], job'[g])
             /\ pc'[g] \notin Lone => row'[job'[g].turn].state # "absent"
             /\ pc'[g] = "unit_write" => pc[g] = "unit_write"
  <2>1. CASE g = h
    <3>1. pc'[g] = l /\ job'[g] = j
      BY <1>1, <2>1
    <3> QED BY <2>1, <3>1 DEF Work, SoundAt, PastAt, Lone, Crossing
  <2>2. CASE g # h
    <3>1. pc'[g] = pc[g] /\ job'[g] = job[g] /\ JobSound(g)
      BY <1>1, <2>2
    <3> QED BY <3>1 DEF JobSound, SoundAt, Work, T, Present
  <2> QED BY <2>1, <2>2
<1> QED BY <1>3, <1>4, RowsStay DEF Calm

\* The latch that an arm command saw or leaves.
LEMMA ArmedTyped ==
  ASSUME NEW j \in Jobs
  PROVE  [state |-> "armed", rev |-> j.latch.rev + 1, turn |-> None] \in Latches
  BY DEF Jobs, Latches

\* An operator command touches neither attempts nor requests.
LEMMA CommandsCalm ==
  ASSUME Inv, NEW h \in Handlers, Command(h)
  PROVE  Calm /\ row' = row /\ cap' = cap /\ turn' = turn
<1>0. TypeOK /\ \A g \in Handlers : JobSound(g)
  BY DEF Inv
<1>1. /\ row' = row /\ receipt' = receipt /\ turn' = turn /\ cap' = cap /\ sent' = sent
      /\ memory' = memory
  BY DEF Command, ArmRead, ArmWrite, ArmInner, ArmInnerFails, Restore, ReviewRead,
         ReviewWrite, AttestRead, AttestWrite, control, semantic
<1>2. /\ latch \in [Modes -> Latches] /\ review \in {"pending", "predecessor", "rehearsal"}
      /\ job[h] \in Jobs /\ job[h].mode \in Modes /\ job[h].latch \in Latches
      /\ JobSound(h) /\ job = [job EXCEPT ![h] = job[h]]
  <2>1. job[h] \in Jobs
    BY <1>0 DEF TypeOK
  <2> QED BY <1>0, <2>1 DEF TypeOK, Jobs
<1>3. ASSUME NEW l \in {"arm", "review", "attest"}, NEW j \in Jobs, Start(h, l, j),
             l = "arm" => j.op = "arm", l # "arm" => j.op = l,
             j.next = "idle", ~j.bundle,
             latch' = latch, review' = review, shadow' = shadow, boot' = boot
      PROVE  Calm
  <2>1. SoundAt(l, j) /\ l \in Lone
    BY <1>3 DEF SoundAt, Lone
  <2> QED BY <1>0, <1>1, <1>2, <1>3, <2>1, CommandMove DEF Start, Goto
<1>4. ASSUME Leave(h), latch' \in [Modes -> Latches],
             review' \in {"pending", "predecessor", "rehearsal"},
             shadow' = shadow \/ (TypeOK!5)', boot' = boot \/ (TypeOK!6)'
      PROVE  Calm
  <2>1. pc' = [pc EXCEPT ![h] = "idle"] /\ job' = [job EXCEPT ![h] = NoJob]
    BY <1>4 DEF Leave, Goto
  <2>2. SoundAt("idle", NoJob) /\ "idle" \in Lone /\ ~NoJob.bundle
    BY LeaveTame, NothingInHand
  <2> QED BY <1>0, <1>1, <1>4, <2>1, <2>2, NoJobTyped, CommandMove
<1>5. CASE \E m \in Modes : ArmRead(h, m)
  <2>1. PICK m \in Modes : ArmRead(h, m)
    BY <1>5
  <2> DEFINE j == [NoJob EXCEPT !.op = "arm", !.mode = m, !.latch = latch[m]]
  <2>2. latch[m] \in Latches
    BY <1>2
  <2>3. j \in Jobs /\ j.op = "arm" /\ j.next = "idle" /\ ~j.bundle
    BY <2>2, NoRowTyped, FreshTyped DEF NoJob, Jobs, Nexts, Modes
  <2>4. /\ Start(h, "arm", j) /\ latch' = latch /\ review' = review /\ shadow' = shadow
        /\ boot' = boot
    BY <2>1 DEF ArmRead, control, semantic
  <2> HIDE DEF j
  <2> QED BY <1>1, <1>3, <2>3, <2>4
<1>6. CASE ArmWrite(h)
  <2>1. /\ pc' = [pc EXCEPT ![h] = "arm_inner"] /\ job' = job /\ pc[h] = "arm"
        /\ latch' = [latch EXCEPT ![job[h].mode] = Armed(h)]
        /\ review' = review /\ shadow' = shadow /\ boot' = boot
    BY <1>6 DEF ArmWrite, Goto, semantic
  <2>2. Armed(h) \in Latches
    BY <1>2, ArmedTyped DEF Armed
  <2>3. latch' \in [Modes -> Latches]
    BY <1>2, <2>1, <2>2
  <2>4. SoundAt("arm_inner", job[h]) /\ "arm_inner" \in Lone
    BY <1>2, <2>1 DEF JobSound, SoundAt, Lone
  <2> QED BY <1>0, <1>1, <1>2, <2>1, <2>3, <2>4, CommandMove
<1>7. CASE ArmInner(h)
  <2> DEFINE m == job[h].mode
  <2>1. /\ shadow' = [shadow EXCEPT ![m] = [state |-> "armed", turn |-> None]]
        /\ \E b \in {boot[m], TRUE} : boot' = [boot EXCEPT ![m] = b]
        /\ latch' = latch /\ review' = review /\ Leave(h)
    BY <1>7 DEF ArmInner, control
  <2>2. m \in Modes
    BY <1>2
  <2> HIDE DEF m
  <2>3. (TypeOK!5)'
    <3> DEFINE w == [state |-> "armed", turn |-> None]
    <3>1. w \in [state : {"unarmed", "armed", "consumed"}, turn : Turns \cup {None}]
      OBVIOUS
    <3>2. shadow' = [shadow EXCEPT ![m] = w]
      BY <2>1
    <3> HIDE DEF w
    <3> QED BY <1>0, <2>2, <3>1, <3>2 DEF TypeOK
  <2>4. (TypeOK!6)'
    <3>1. PICK b \in {boot[m], TRUE} : boot' = [boot EXCEPT ![m] = b]
      BY <2>1
    <3>2. boot \in [Modes -> BOOLEAN] /\ b \in BOOLEAN
      BY <1>0, <2>2, <3>1 DEF TypeOK
    <3> QED BY <2>2, <3>1, <3>2
  <2> QED BY <1>1, <1>2, <1>4, <2>1, <2>3, <2>4
<1>8. CASE ArmInnerFails(h)
  <2>1. /\ pc' = [pc EXCEPT ![h] = "restore"] /\ job' = job /\ pc[h] = "arm_inner"
        /\ latch' = latch /\ review' = review /\ shadow' = shadow /\ boot' = boot
    BY <1>8 DEF ArmInnerFails, Goto, control, semantic
  <2>2. SoundAt("restore", job[h]) /\ "restore" \in Lone
    BY <1>2, <2>1 DEF JobSound, SoundAt, Lone
  <2> QED BY <1>0, <1>1, <1>2, <2>1, <2>2, CommandMove
<1>9. CASE Restore(h)
  <2>1. /\ Leave(h) /\ review' = review /\ shadow' = shadow /\ boot' = boot
        /\ \/ latch' = [latch EXCEPT ![job[h].mode] = job[h].latch]
           \/ latch' = [latch EXCEPT ![job[h].mode] = latch[job[h].mode]]
    BY <1>9 DEF Restore, semantic
  <2>2. latch' \in [Modes -> Latches]
    BY <1>2, <2>1
  <2> QED BY <1>1, <1>2, <1>4, <2>1, <2>2
<1>10. CASE ReviewRead(h) \/ AttestRead(h)
  <2>1. PICK o \in {"review", "attest"} :
          /\ Start(h, o, [NoJob EXCEPT !.op = o])
          /\ latch' = latch /\ review' = review /\ shadow' = shadow /\ boot' = boot
    BY <1>10 DEF ReviewRead, AttestRead, control, semantic
  <2> DEFINE j == [NoJob EXCEPT !.op = o]
  <2>2. j \in Jobs /\ j.op = o /\ j.next = "idle" /\ ~j.bundle
    BY NoRowTyped, FreshTyped DEF NoJob, Jobs, Nexts, Modes
  <2>3. Start(h, o, j)
    BY <2>1
  <2> HIDE DEF j
  <2> QED BY <1>1, <1>3, <2>1, <2>2, <2>3
<1>11. CASE ReviewWrite(h) \/ AttestWrite(h)
  <2>1. /\ Leave(h) /\ latch' = latch /\ shadow' = shadow /\ boot' = boot
        /\ review' \in {review, "rehearsal", "predecessor"}
    BY <1>11 DEF ReviewWrite, AttestWrite, semantic
  <2> QED BY <1>1, <1>2, <1>4, <2>1
<1> QED BY <1>1, <1>5, <1>6, <1>7, <1>8, <1>9, <1>10, <1>11 DEF Command

(***************************************************************************)
(* What calm steps keep.                                                   *)
(***************************************************************************)
LEMMA CalmKeeps ==
  ASSUME Inv, Calm
  PROVE  /\ TypeOK' /\ (\A h \in Handlers : JobSound(h))'
         /\ PastSound' /\ (\A h \in Handlers : CrossingSound(h))'
         /\ (\A t \in Turns : RowSound(t))'
<1>1. TypeOK'
  BY DEF Calm
<1>2. ASSUME NEW h \in Handlers
      PROVE  /\ Work(pc[h], job[h], pc'[h], job'[h]) /\ SoundAt(pc'[h], job'[h])
             /\ pc'[h] \notin Lone => row'[job'[h].turn].state # "absent"
             /\ pc'[h] = "intercept" /\ job[h].turn \in memory.bound =>
                  job[h].turn \in memory'.bound
             /\ pc'[h] = "unit_write" => pc[h] = "unit_write" \/ row[job[h].turn].bundle
             /\ JobSound(h) /\ CrossingSound(h)
             /\ job[h].turn \in Turns \cup {None}
  BY DEF Calm, Inv, TypeOK, Jobs
<1>3. ASSUME NEW t \in Turns
      PROVE  /\ Kept(row[t], row'[t]) /\ RowSound(t) /\ sent'[t] = sent[t]
             /\ cap[t] = "prepared_consumed" => cap'[t] = "prepared_consumed"
             /\ turn'[t] = "visible_released_waiting_unit" =>
                  turn[t] = "visible_released_waiting_unit"
  BY DEF Calm, Inv
<1>4. ASSUME NEW h \in Handlers PROVE JobSound(h)'
  BY <1>2 DEF JobSound, SoundAt, T, Present
<1>5. ASSUME NEW h \in Handlers, Past(h)'
      PROVE  Past(h) /\ job'[h].turn = job[h].turn /\ job[h].turn \in Turns
  <2>1. PastAt(pc'[h], job'[h])
    BY <1>5 DEF Past, PastAt
  <2>2. PastAt(pc[h], job[h]) /\ job'[h].turn = job[h].turn
    BY <1>2, <2>1 DEF Work
  <2>3. Past(h)
    BY <2>2 DEF Past, PastAt
  <2>4. pc[h] \notin Lone
    BY <1>2, <2>3 DEF JobSound, Past, Lone, Crossing
  <2> QED BY <1>2, <2>2, <2>3, <2>4 DEF JobSound, T
<1>6. PastSound'
  <2>1. PastSound
    BY DEF Inv
  <2>2. ASSUME NEW h \in Handlers, Past(h)' PROVE row'[job'[h].turn].authorized
    BY <1>3, <1>5, <2>1, <2>2 DEF PastSound, Kept, T
  <2>3. ASSUME NEW g \in Handlers, NEW h \in Handlers, Past(g)', Past(h)',
               job'[g].turn = job'[h].turn
        PROVE  g = h
    BY <1>5, <2>1, <2>3 DEF PastSound, T
  <2> QED BY <2>2, <2>3 DEF PastSound, T
<1>7. ASSUME NEW h \in Handlers PROVE CrossingSound(h)'
  <2>1. ASSUME pc'[h] \in Crossing
        PROVE  Past(h)' /\ pc[h] \in Crossing
    BY <1>2, <2>1 DEF Past, Work
  <2>2. ASSUME pc'[h] \in Crossing
        PROVE  row'[job'[h].turn].state # "completed" /\ ~row'[job'[h].turn].bundle
    <3>1. job'[h].turn = job[h].turn /\ job[h].turn \in Turns /\ pc[h] \in Crossing
      BY <1>5, <2>1, <2>2
    <3>2. row[job[h].turn].state # "completed" /\ ~row[job[h].turn].bundle
      BY <1>2, <3>1 DEF CrossingSound, T
    <3> QED BY <1>3, <3>1, <3>2 DEF Kept
  <2>3. ASSUME pc'[h] = "intercept"
        PROVE  sent'[job'[h].turn] = 0 /\ job'[h].turn \in memory'.bound
    <3>1. pc'[h] \in Crossing /\ pc[h] = "intercept"
      BY <1>2, <2>3 DEF Crossing, Work
    <3>2. job'[h].turn = job[h].turn /\ job[h].turn \in Turns
      BY <1>5, <2>1, <3>1
    <3> QED BY <1>2, <1>3, <2>3, <3>1, <3>2 DEF CrossingSound, T
  <2>4. ASSUME job'[h].bundle
        PROVE  job'[h].turn \in Turns /\ cap'[job'[h].turn] = "prepared_consumed"
    <3>1. job[h].bundle /\ job'[h].turn = job[h].turn
      BY <1>2, <2>4 DEF Work
    <3> QED BY <1>2, <1>3, <3>1 DEF CrossingSound, T
  <2>5. ASSUME pc'[h] \in {"unit", "unit_write"}
        PROVE  /\ pc[h] \in {"unit", "unit_write"} /\ job'[h].turn = job[h].turn
               /\ job'[h].unit = job[h].unit /\ job[h].turn \in Turns
    <3>1. /\ pc[h] \in {"unit", "unit_write"} /\ job'[h].turn = job[h].turn
          /\ job'[h].unit = job[h].unit
      BY <1>2, <2>5 DEF Work
    <3> QED BY <1>2, <3>1 DEF JobSound, T, Lone
  <2>6. ASSUME pc'[h] = "unit_write" PROVE row'[job'[h].turn].bundle
    <3>1. row[job[h].turn].bundle
      BY <1>2, <2>6 DEF CrossingSound, T
    <3> QED BY <1>3, <2>5, <2>6, <3>1 DEF Kept
  <2>7. ASSUME pc'[h] \in {"unit", "unit_write"}, row'[job'[h].turn].mode = "rehearsal"
        PROVE  job'[h].unit = job'[h].turn
    <3>1. row[job[h].turn].mode = "rehearsal"
      BY <1>3, <2>5, <2>7 DEF Kept
    <3> QED BY <1>2, <2>5, <2>7, <3>1 DEF CrossingSound, T
  <2> QED BY <2>2, <2>3, <2>4, <2>6, <2>7 DEF CrossingSound, T
<1>8. ASSUME NEW t \in Turns PROVE RowSound(t)'
  BY <1>3 DEF RowSound, Kept, Present, Awaiting
<1> QED BY <1>1, <1>4, <1>6, <1>7, <1>8

\* The review stays ahead of every live turn.
LEMMA ReviewKeeps ==
  ASSUME Inv, latch' = latch, review' = review,
         \A t \in Turns : row'[t].state # "absent" /\ row'[t].mode = "live_canary" =>
                            row[t].state # "absent" /\ row[t].mode = "live_canary",
         \A u \in Turns : row[u].mode = "rehearsal" /\ row[u].unit = u =>
                            row'[u].mode = "rehearsal" /\ row'[u].unit = u,
         \A g \in Handlers : pc'[g] \in {"arm", "review"} =>
                               pc'[g] = pc[g] /\ job'[g].mode = job[g].mode
  PROVE  Reviewed'
<1>1. Reviewed
  BY DEF Inv
<1>2. RehearsalDone => RehearsalDone'
  BY DEF RehearsalDone
<1> QED BY <1>1, <1>2 DEF Reviewed, Present

\* A quiet step keeps the invariant.
LEMMA QuietKeeps ==
  ASSUME Inv, Quiet, latch' = latch, review' = review
  PROVE  Inv'
<1>1. Calm /\ \A g \in Handlers : Tame(pc[g], job[g], pc'[g], job'[g])
  BY DEF Quiet
<1>2. \A t \in Turns : Kept(row[t], row'[t])
  BY <1>1 DEF Calm
<1>3. Reviewed'
  <2>1. \A t \in Turns : row'[t].state # "absent" /\ row'[t].mode = "live_canary" =>
                           row[t].state # "absent" /\ row[t].mode = "live_canary"
    BY <1>2 DEF Kept
  <2>2. \A u \in Turns : row[u].mode = "rehearsal" /\ row[u].unit = u =>
                           row'[u].mode = "rehearsal" /\ row'[u].unit = u
    BY <1>2 DEF Kept
  <2>3. \A g \in Handlers : pc'[g] \in {"arm", "review"} =>
                              pc'[g] = pc[g] /\ job'[g].mode = job[g].mode
    BY <1>1 DEF Tame
  <2> QED BY <2>1, <2>2, <2>3, ReviewKeeps
<1> QED BY <1>1, <1>3, CalmKeeps DEF Inv

\* A review finds a rehearsal that was completed with its unit.
LEMMA ReviewFindsRehearsal ==
  ASSUME Inv, Doctor, latch["rehearsal"].state = "consumed",
         Rehearsed(latch["rehearsal"].turn)
  PROVE  RehearsalDone
<1> DEFINE u == latch["rehearsal"].turn
<1>1. u \in Turns /\ row[u].mode = "rehearsal"
  <2>1. LatchMatches("rehearsal")
    BY DEF Doctor, Modes
  <2> QED BY <2>1 DEF LatchMatches, Attempts
<1>2. row[u].unit # None /\ RowSound(u)
  BY <1>1 DEF Rehearsed, Inv
<1> QED BY <1>1, <1>2 DEF RowSound, RehearsalDone

\* So do the operator commands: the live latch is armed after a review only.
LEMMA CommandsKeep ==
  ASSUME Inv, NEW h \in Handlers, Command(h)
  PROVE  Inv'
<1>1. Calm /\ row' = row
  BY CommandsCalm
<1>2. Reviewed /\ TypeOK
  BY DEF Inv
<1>3. RehearsalDone' <=> RehearsalDone
  BY <1>1 DEF RehearsalDone
<1>4. /\ pc \in [Handlers -> Steps] /\ job \in [Handlers -> Jobs] /\ latch \in [Modes -> Latches]
      /\ job[h].mode \in Modes
  BY <1>2 DEF TypeOK, Jobs
<1>5. Reviewed'
  <2>1. CASE \E m \in Modes : ArmRead(h, m)
    <3>1. PICK m \in Modes : ArmRead(h, m)
      BY <2>1
    <3>2. /\ latch' = latch /\ review' = review /\ Armable(m)
          /\ pc' = [pc EXCEPT ![h] = "arm"]
          /\ job' = [job EXCEPT ![h] = [NoJob EXCEPT !.op = "arm", !.mode = m,
                                                     !.latch = latch[m]]]
      BY <3>1 DEF ArmRead, control, Start, Goto
    <3>3. job'[h].mode = m
      BY <1>4, <3>2 DEF NoJob
    <3>4. \A g \in Handlers \ {h} : pc'[g] = pc[g] /\ job'[g] = job[g]
      BY <1>4, <3>2
    <3>5. pc'[h] = "arm"
      BY <1>4, <3>2
    <3> QED BY <1>1, <1>2, <1>3, <3>2, <3>3, <3>4, <3>5 DEF Reviewed, Armable, Present
  <2>2. CASE ArmWrite(h)
    <3>1. /\ pc' = [pc EXCEPT ![h] = "arm_inner"] /\ job' = job /\ pc[h] = "arm"
          /\ latch' = [latch EXCEPT ![job[h].mode] = Armed(h)] /\ review' = review
      BY <2>2 DEF ArmWrite, Goto
    <3>2. \A g \in Handlers : pc'[g] \in {"arm", "review"} => pc'[g] = pc[g]
      BY <1>4, <3>1
    <3>3. latch'["live_canary"].state = "armed" => review # "pending"
      BY <1>2, <1>4, <3>1 DEF Reviewed, Modes
    <3> QED BY <1>1, <1>2, <1>3, <3>1, <3>2, <3>3 DEF Reviewed, Present
  <2>3. CASE ArmInner(h) \/ ArmInnerFails(h) \/ Restore(h)
    <3>1. /\ review' = review
          /\ \A g \in Handlers : pc'[g] \in {"arm", "review"} =>
                                   pc'[g] = pc[g] /\ job'[g].mode = job[g].mode
      <4>1. /\ review' = review
            /\ \/ pc' = [pc EXCEPT ![h] = "idle"] /\ job' = [job EXCEPT ![h] = NoJob]
               \/ pc' = [pc EXCEPT ![h] = "restore"] /\ job' = job
        BY <2>3 DEF ArmInner, ArmInnerFails, Restore, control, Leave, Goto
      <4> QED BY <1>4, <4>1
    <3>2. latch'["live_canary"].state = "armed" => latch["live_canary"].state = "armed"
      <4>1. \/ latch' = latch
            \/ latch' = [latch EXCEPT ![job[h].mode] = IF @ = Armed(h) THEN job[h].latch ELSE @]
        BY <2>3 DEF ArmInner, ArmInnerFails, Restore, control
      <4>2. Armed(h).state = "armed"
        BY DEF Armed
      <4>3. CASE latch["live_canary"].state # "armed"
        <5>1. latch["live_canary"] # Armed(h) /\ "live_canary" \in Modes
          BY <4>2, <4>3 DEF Modes
        <5>2. latch'["live_canary"] = latch["live_canary"]
          BY <1>4, <4>1, <5>1
        <5> QED BY <5>2
      <4> QED BY <4>3
    <3> QED BY <1>1, <1>2, <1>3, <3>1, <3>2 DEF Reviewed, Present
  <2>4. CASE ReviewRead(h) \/ AttestRead(h)
    <3>1. PICK o \in {"review", "attest"} :
            /\ pc' = [pc EXCEPT ![h] = o] /\ job' = [job EXCEPT ![h] = [NoJob EXCEPT !.op = o]]
            /\ latch' = latch /\ review' = review
            /\ o = "review" => RehearsalDone
      <4>1. CASE ReviewRead(h)
        <5>1. RehearsalDone
          BY <4>1, ReviewFindsRehearsal DEF ReviewRead
        <5> QED BY <4>1, <5>1 DEF ReviewRead, Start, Goto, control
      <4>2. CASE AttestRead(h)
        BY <4>2 DEF AttestRead, Start, Goto, control
      <4> QED BY <2>4, <4>1, <4>2
    <3>2. \A g \in Handlers \ {h} : pc'[g] = pc[g] /\ job'[g] = job[g]
      BY <1>4, <3>1
    <3>3. pc'[h] = o
      BY <1>4, <3>1
    <3> QED BY <1>1, <1>2, <1>3, <3>1, <3>2, <3>3 DEF Reviewed, Present
  <2>5. CASE ReviewWrite(h) \/ AttestWrite(h)
    <3>1. /\ pc' = [pc EXCEPT ![h] = "idle"] /\ job' = [job EXCEPT ![h] = NoJob]
          /\ latch' = latch
          /\ \/ review' = "rehearsal" /\ pc[h] = "review"
             \/ review' = review
             \/ review' = "predecessor"
      BY <2>5 DEF ReviewWrite, AttestWrite, Leave, Goto
    <3>2. \A g \in Handlers : pc'[g] \in {"arm", "review"} =>
                                pc'[g] = pc[g] /\ job'[g].mode = job[g].mode
      BY <1>4, <3>1
    <3> QED BY <1>1, <1>2, <1>3, <3>1, <3>2 DEF Reviewed, Present
  <2> QED BY <2>1, <2>2, <2>3, <2>4, <2>5 DEF Command
<1> QED BY <1>1, <1>5, CalmKeeps DEF Inv

\* A turn is accepted: nobody worked on it before.
LEMMA AcceptKeeps ==
  ASSUME Inv, NEW t \in Turns, NEW m \in Modes, Accept(t, m)
  PROVE  Inv'
<1> DEFINE q == [NoRow EXCEPT !.mode = m, !.state = "accepted_pending_readiness"]
           c == [NoRow EXCEPT !.mode = m]
           l == [state |-> "consumed", rev |-> latch[m].rev + 1, turn |-> t]
<1>1. /\ latch' = [latch EXCEPT ![m] = l]
      /\ row' = [row EXCEPT ![t] = q] /\ receipt' = [receipt EXCEPT ![t] = c]
      /\ memory' = [memory EXCEPT !.caps = @ \cup {t}, !.bound = @ \cup {t}]
      /\ review' = review /\ shadow' = shadow /\ boot' = boot /\ turn' = turn /\ cap' = cap
      /\ pc' = pc /\ job' = job /\ sent' = sent
      /\ row[t].state = "absent" /\ latch[m].state = "armed"
      /\ m = "rehearsal" => t = RehearsalTurn
  BY DEF Accept, semantic
<1>2. /\ TypeOK /\ (\A h \in Handlers : JobSound(h)) /\ PastSound
      /\ (\A h \in Handlers : CrossingSound(h)) /\ (\A u \in Turns : RowSound(u)) /\ Reviewed
  BY DEF Inv
<1>3. /\ q \in Rows /\ q.state = "accepted_pending_readiness" /\ q.mode = m
      /\ ~q.authorized /\ ~q.bundle /\ q.unit = None /\ c \in Rows
  BY NoRowTyped DEF NoRow, Rows, States
<1>4. l \in Latches
  BY <1>2 DEF TypeOK, Latches
<1>5. ~row[t].authorized /\ ~row[t].bundle /\ row[t].unit = None
  BY <1>1, <1>2 DEF RowSound, Present, NoRow
<1> HIDE DEF q, c, l
<1>6. row'[t] = q /\ \A u \in Turns \ {t} : row'[u] = row[u]
  BY <1>1, <1>2 DEF TypeOK
<1>7. memory' \in Memories /\ memory.bound \subseteq memory'.bound
  BY <1>1, <1>2 DEF TypeOK, Memories
<1>8. TypeOK'
  BY <1>1, <1>2, <1>3, <1>4, <1>7 DEF TypeOK
<1>9. ASSUME NEW h \in Handlers PROVE JobSound(h)'
  BY <1>1, <1>2, <1>3, <1>6 DEF JobSound, T, Present
<1>10. PastSound'
  BY <1>1, <1>2, <1>5, <1>6 DEF PastSound, Past, T
<1>11. ASSUME NEW h \in Handlers PROVE CrossingSound(h)'
  <2>1. CASE pc[h] \notin Lone
    <3>1. T(h) \in Turns /\ T(h) # t /\ CrossingSound(h)
      BY <1>1, <1>2, <2>1 DEF JobSound, Present
    <3> QED BY <1>1, <1>6, <1>7, <3>1 DEF CrossingSound, T
  <2>2. CASE pc[h] \in Lone
    BY <1>1, <1>2, <2>2 DEF CrossingSound, T, Lone, Crossing
  <2> QED BY <2>1, <2>2
<1>12. ASSUME NEW u \in Turns PROVE RowSound(u)'
  <2>1. CASE u = t
    <3>1. RowSound(t) /\ sent[t] # 1
      BY <1>2, <1>5 DEF RowSound
    <3> QED BY <1>1, <1>3, <1>6, <2>1, <3>1 DEF RowSound, Present, Awaiting, Modes
  <2>2. CASE u # t
    BY <1>1, <1>2, <1>6, <2>2 DEF RowSound, Present, Awaiting
  <2> QED BY <2>1, <2>2
<1>13. Reviewed'
  <2>1. latch'["live_canary"].state = "armed" => latch["live_canary"].state = "armed"
    BY <1>1, <1>2 DEF TypeOK, l
  <2>2. RehearsalDone => RehearsalDone'
    <3>1. SUFFICES ASSUME RehearsalDone PROVE RehearsalDone'
      OBVIOUS
    <3>2. PICK u \in Turns : row[u].mode = "rehearsal" /\ row[u].unit = u
      BY <3>1 DEF RehearsalDone
    <3>3. u # t
      BY <1>5, <3>2, NoneIsNoTurn
    <3> QED BY <1>6, <3>2, <3>3 DEF RehearsalDone
  <2>3. m = "live_canary" => review # "pending"
    BY <1>1, <1>2 DEF Reviewed
  <2> QED BY <1>1, <1>2, <1>3, <1>6, <2>1, <2>2, <2>3 DEF Reviewed, Present
<1> QED BY <1>8, <1>9, <1>10, <1>11, <1>12, <1>13 DEF Inv

(***************************************************************************)
(* The steps of the transport.                                             *)
(***************************************************************************)
\* The parts of the invariant, for a step that writes at most one attempt: the
\* handlers that did not move.
LEMMA OthersStay ==
  ASSUME Inv, NEW h \in Handlers, NEW g \in Handlers, g # h,
         pc'[g] = pc[g], job'[g] = job[g],
         \A t \in Turns : row[t].state # "absent" => row'[t].state # "absent"
  PROVE  /\ JobSound(g)' /\ (Past(g)' <=> Past(g)) /\ job'[g].turn = T(g)
         /\ Past(g) => T(g) \in Turns /\ row[T(g)].authorized
         /\ pc[g] \notin Lone => T(g) \in Turns
<1>1. JobSound(g) /\ PastSound
  BY DEF Inv
<1>2. Past(g) => pc[g] \notin Lone
  BY <1>1 DEF JobSound, Past, Lone, Crossing
<1> QED BY <1>1, <1>2 DEF JobSound, PastSound, Past, T, Present

\* Whoever is authorised is the first and the only one.
LEMMA AuthorizeKeeps ==
  ASSUME Inv, NEW h \in Handlers, Authorize(h)
  PROVE  Inv'
<1> DEFINE q == Authorized(row[T(h)])
<1>1. /\ pc[h] = "authorize" /\ pc' = [pc EXCEPT ![h] = "intercept"] /\ job' = job
      /\ row' = [row EXCEPT ![T(h)] = q]
      /\ receipt' = [receipt EXCEPT ![T(h)] = Receipt(q)]
      /\ memory' = [memory EXCEPT !.bound = @ \cup {T(h)}]
      /\ ~row[T(h)].authorized
      /\ latch' = latch /\ review' = review /\ shadow' = shadow /\ boot' = boot
      /\ turn' = turn /\ cap' = cap /\ sent' = sent
  BY DEF Authorize, Authorizable, Goto, semantic
<1>2. /\ TypeOK /\ (\A g \in Handlers : JobSound(g)) /\ PastSound
      /\ (\A g \in Handlers : CrossingSound(g)) /\ (\A u \in Turns : RowSound(u))
  BY DEF Inv
<1>3. /\ job[h] \in Jobs /\ T(h) = job[h].turn /\ T(h) \in Turns
      /\ row[T(h)] \in Rows /\ row[T(h)].state # "absent" /\ job[h].op \notin Operator
  BY <1>1, <1>2, OwnAttempt DEF Lone
<1>4. /\ q \in Rows /\ q.authorized /\ q.mode = row[T(h)].mode
      /\ q.bundle = row[T(h)].bundle /\ q.unit = row[T(h)].unit
      /\ q.state \notin {"absent", "completed"}
      /\ row[T(h)].mode = "live_canary" => q.external = 1
  BY <1>3, TransportWrites
<1> HIDE DEF q
<1>5. Receipt(q) \in Rows
  BY <1>4, ReceiptTyped
<1>6. RowSound(T(h)) /\ ~row[T(h)].bundle /\ sent[T(h)] = 0
  BY <1>1, <1>2, <1>3 DEF RowSound, TypeOK
<1>7. row'[T(h)] = q /\ \A u \in Turns \ {T(h)} : row'[u] = row[u]
  BY <1>1, <1>2, <1>3 DEF TypeOK
<1>8. pc'[h] = "intercept" /\ job'[h] = job[h]
      /\ \A g \in Handlers \ {h} : pc'[g] = pc[g] /\ job'[g] = job[g]
  BY <1>1, <1>2 DEF TypeOK
<1>9. memory' \in Memories /\ memory'.bound = memory.bound \cup {T(h)}
  BY <1>1, <1>2, <1>3 DEF TypeOK, Memories
<1>10. TypeOK'
  <2>1. pc' \in [Handlers -> Steps]
    BY <1>1, <1>2 DEF TypeOK, Steps, Crossing
  <2>2. row' \in [Turns -> Rows] /\ receipt' \in [Turns -> Rows]
    BY <1>1, <1>2, <1>3, <1>4, <1>5 DEF TypeOK
  <2> QED BY <1>1, <1>2, <1>9, <2>1, <2>2 DEF TypeOK
<1>11. \A t \in Turns : row[t].state # "absent" => row'[t].state # "absent"
  BY <1>4, <1>7
<1>12. \A g \in Handlers \ {h} :
         /\ JobSound(g)' /\ (Past(g)' <=> Past(g)) /\ job'[g].turn = T(g)
         /\ Past(g) => T(g) \in Turns /\ T(g) # T(h) /\ row[T(g)].authorized
         /\ pc[g] \notin Lone => T(g) \in Turns
  BY <1>1, <1>8, <1>11, OthersStay
<1>13. ASSUME NEW g \in Handlers PROVE JobSound(g)'
  <2>1. JobSound(h)
    BY <1>2
  <2>2. JobSound(h)'
    BY <1>1, <1>3, <1>4, <1>7, <1>8, <2>1 DEF JobSound, T, Present, Lone
  <2> QED BY <1>12, <2>2
<1>14. PastSound'
  <2>1. ASSUME NEW g \in Handlers, Past(g)' PROVE row'[job'[g].turn].authorized
    BY <1>3, <1>4, <1>7, <1>8, <1>12, <2>1
  <2>2. ASSUME NEW f \in Handlers, NEW g \in Handlers, Past(f)', Past(g)',
               job'[f].turn = job'[g].turn
        PROVE  f = g
    <3>1. f # h /\ g # h => f = g
      BY <1>2, <1>12, <2>2 DEF PastSound
    <3>2. ASSUME NEW e \in Handlers \ {h}, Past(e)' PROVE job'[e].turn # job'[h].turn
      BY <1>3, <1>8, <1>12, <3>2
    <3> QED BY <2>2, <3>1, <3>2
  <2> QED BY <2>1, <2>2 DEF PastSound, T
<1>15. ASSUME NEW g \in Handlers PROVE CrossingSound(g)'
  <2>0. CrossingSound(g)
    BY <1>2
  <2>1. CASE g = h
    BY <1>1, <1>3, <1>4, <1>6, <1>7, <1>8, <1>9, <2>0, <2>1 DEF CrossingSound, T
  <2>2. CASE g # h
    <3>1. pc[g] \in Crossing => Past(g)
      BY DEF Past
    <3>2. pc[g] \in Crossing => T(g) \in Turns /\ row'[T(g)] = row[T(g)]
      BY <1>7, <1>12, <2>2, <3>1
    <3>3. /\ pc[g] \in {"unit", "unit_write"} => T(g) \in Turns
          /\ pc[g] = "intercept" => pc[g] \in Crossing
      BY <1>12, <2>2 DEF Lone, Crossing
    <3>4. T(g) \in Turns => /\ row'[T(g)].bundle = row[T(g)].bundle
                            /\ row'[T(g)].mode = row[T(g)].mode
      BY <1>4, <1>7
    <3> QED BY <1>1, <1>8, <1>9, <2>0, <2>2, <3>2, <3>3, <3>4 DEF CrossingSound, T
  <2> QED BY <2>1, <2>2
<1>16. ASSUME NEW u \in Turns PROVE RowSound(u)'
  <2>0. RowSound(u)
    BY <1>2
  <2>1. CASE u = T(h)
    BY <1>1, <1>3, <1>4, <1>6, <1>7, <2>0, <2>1 DEF RowSound, Present, Awaiting
  <2>2. CASE u # T(h)
    BY <1>1, <1>7, <2>0, <2>2 DEF RowSound, Present, Awaiting
  <2> QED BY <2>1, <2>2
<1>17. Reviewed'
  <2>1. \A t \in Turns : row'[t].state # "absent" /\ row'[t].mode = "live_canary" =>
                           row[t].state # "absent" /\ row[t].mode = "live_canary"
    BY <1>3, <1>4, <1>7
  <2>2. \A u \in Turns : row[u].mode = "rehearsal" /\ row[u].unit = u =>
                           row'[u].mode = "rehearsal" /\ row'[u].unit = u
    BY <1>4, <1>7
  <2> QED BY <1>1, <1>8, <2>1, <2>2, ReviewKeeps
<1> QED BY <1>10, <1>13, <1>14, <1>15, <1>16, <1>17 DEF Inv

\* The request leaves the process, or is answered in it.
LEMMA InterceptKeeps ==
  ASSUME Inv, NEW h \in Handlers, Intercept(h)
  PROVE  Inv'
<1>1. /\ pc[h] = "intercept" /\ pc' = [pc EXCEPT ![h] = "process"] /\ job' = job
      /\ row' = row /\ receipt' = receipt /\ memory' = memory
      /\ latch' = latch /\ review' = review /\ shadow' = shadow /\ boot' = boot
      /\ turn' = turn /\ cap' = cap
      /\ \/ Leaves(T(h)) /\ sent' = [sent EXCEPT ![T(h)] = @ + 1]
         \/ sent' = sent
  BY DEF Intercept, Goto, control, semantic
<1>2. /\ TypeOK /\ (\A g \in Handlers : JobSound(g)) /\ PastSound
      /\ (\A g \in Handlers : CrossingSound(g)) /\ (\A u \in Turns : RowSound(u))
  BY DEF Inv
<1>3. /\ T(h) \in Turns /\ row[T(h)].state # "absent" /\ job[h].op \notin Operator
      /\ job[h].turn = T(h)
  BY <1>1, <1>2, OwnAttempt DEF Lone
<1>4. Past(h) /\ row[T(h)].authorized /\ sent[T(h)] = 0 /\ T(h) \in memory.bound
  BY <1>1, <1>2 DEF Past, PastSound, CrossingSound, Crossing
<1>5. /\ \A u \in Turns \ {T(h)} : sent'[u] = sent[u]
      /\ sent'[T(h)] # 0 => row[T(h)].mode = "live_canary"
      /\ sent' \in [Turns -> {0, 1}]
  <2>0. sent \in [Turns -> {0, 1}]
    BY <1>2 DEF TypeOK
  <2>1. CASE sent' = sent
    BY <1>4, <2>0, <2>1
  <2>2. CASE Leaves(T(h)) /\ sent' = [sent EXCEPT ![T(h)] = @ + 1]
    <3>1. sent'[T(h)] = 1 /\ row[T(h)].mode = "live_canary"
      BY <1>2, <1>3, <1>4, <2>2 DEF TypeOK, Leaves
    <3>2. \A u \in Turns \ {T(h)} : sent'[u] = sent[u]
      BY <1>2, <2>2 DEF TypeOK
    <3>3. sent' \in [Turns -> {0, 1}]
      <4>1. sent' = [sent EXCEPT ![T(h)] = 1]
        BY <1>4, <2>2
      <4> QED BY <2>0, <4>1
    <3> QED BY <3>1, <3>2, <3>3
  <2> QED BY <1>1, <2>1, <2>2
<1>6. /\ pc'[h] = "process"
      /\ \A g \in Handlers \ {h} : pc'[g] = pc[g] /\ job'[g] = job[g]
  BY <1>1, <1>2 DEF TypeOK
<1>7. TypeOK'
  <2>1. pc' \in [Handlers -> Steps]
    BY <1>1, <1>2 DEF TypeOK, Steps, Crossing
  <2> QED BY <1>1, <1>2, <1>5, <2>1 DEF TypeOK
<1>8. \A g \in Handlers \ {h} :
        /\ JobSound(g)' /\ (Past(g)' <=> Past(g)) /\ job'[g].turn = T(g)
        /\ Past(g) => T(g) \in Turns /\ row[T(g)].authorized
        /\ pc[g] \notin Lone => T(g) \in Turns
  BY <1>1, <1>6, OthersStay
<1>9. ASSUME NEW g \in Handlers PROVE JobSound(g)'
  <2>1. JobSound(h)'
    BY <1>1, <1>2, <1>3, <1>6 DEF JobSound, T, Present, Lone
  <2> QED BY <1>8, <2>1
<1>10. PastSound'
  BY <1>1, <1>2, <1>4, <1>6, <1>8 DEF PastSound, T
<1>11. ASSUME NEW g \in Handlers PROVE CrossingSound(g)'
  <2>0. CrossingSound(g)
    BY <1>2
  <2>1. CASE g = h
    BY <1>1, <1>6, <2>0, <2>1 DEF CrossingSound, T, Crossing
  <2>2. CASE g # h
    <3>1. pc[g] = "intercept" => T(g) \in Turns /\ T(g) # T(h)
      BY <1>2, <1>4, <1>8, <2>2 DEF PastSound, Past, Crossing
    <3> QED BY <1>1, <1>5, <1>6, <2>0, <2>2, <3>1 DEF CrossingSound, T
  <2> QED BY <2>1, <2>2
<1>12. ASSUME NEW u \in Turns PROVE RowSound(u)'
  BY <1>1, <1>2, <1>4, <1>5 DEF RowSound, Present, Awaiting
<1>13. Reviewed'
  BY <1>1, <1>6, ReviewKeeps
<1> QED BY <1>7, <1>9, <1>10, <1>11, <1>12, <1>13 DEF Inv

\* Gate 12 decides the response.
LEMMA ProcessKeeps ==
  ASSUME Inv, NEW h \in Handlers, Process(h)
  PROVE  Inv'
<1>1. /\ pc[h] = "process" /\ pc' = [pc EXCEPT ![h] = "complete"]
      /\ row' = row /\ receipt' = receipt /\ memory' = memory /\ sent' = sent
      /\ latch' = latch /\ review' = review /\ shadow' = shadow /\ boot' = boot
  BY DEF Process, Goto, control
<1>2. /\ TypeOK /\ (\A g \in Handlers : JobSound(g)) /\ PastSound
      /\ (\A g \in Handlers : CrossingSound(g)) /\ (\A u \in Turns : RowSound(u))
  BY DEF Inv
<1>3. /\ job[h] \in Jobs /\ T(h) \in Turns /\ row[T(h)].state # "absent"
      /\ job[h].op \notin Operator /\ job[h].turn = T(h)
  BY <1>1, <1>2, OwnAttempt DEF Lone
<1>4. PICK k \in Jobs :
        /\ job' = [job EXCEPT ![h] = k] /\ SameTask(job[h], k) /\ k.next = job[h].next
        /\ (TypeOK!7)' /\ (TypeOK!8)'
        /\ \A u \in Turns \ {T(h)} : turn'[u] = turn[u] /\ cap'[u] = cap[u]
        /\ cap[T(h)] = "prepared_consumed" => cap'[T(h)] = "prepared_consumed"
        /\ k.bundle => cap'[T(h)] = "prepared_consumed"
  <2>1. CASE cap[T(h)] = "issued"
    <3>1. PICK o \in Outcomes, d \in BOOLEAN :
            /\ Called(o, d)
            /\ cap' = [cap EXCEPT ![T(h)] = o[1]]
            /\ turn' = [turn EXCEPT ![T(h)] = o[2]]
            /\ job' = [job EXCEPT ![h].bundle = (o[1] = "prepared_consumed"),
                                  ![h].consumed = d]
      BY <2>1 DEF Process
    <3> DEFINE b == (o[1] = "prepared_consumed")
               k == [job[h] EXCEPT !.bundle = b, !.consumed = d]
    <3>2. b \in BOOLEAN
      OBVIOUS
    <3>3. job' = [job EXCEPT ![h] = k]
      BY <3>1
    <3>4. b => o[1] = "prepared_consumed"
      OBVIOUS
    <3> HIDE DEF b
    <3>5. k \in Jobs /\ SameTask(job[h], k) /\ k.next = job[h].next /\ k.bundle = b
      BY <1>3, <3>2 DEF Jobs, SameTask
    <3>6. /\ o[1] \in {"prepared_consumed", "rejected_consumed", "closed_unused", "expired",
                       "issued", "invalidated"}
          /\ o[2] \in {"visible_released_waiting_unit", "explicit_solen_no_semantic_delta",
                       "refused", "unsupplied", "accepted", "provider_failed"}
      BY DEF Outcomes
    <3>7. (TypeOK!7)' /\ (TypeOK!8)'
      BY <1>2, <3>1, <3>6 DEF TypeOK
    <3>8. \A u \in Turns \ {T(h)} : turn'[u] = turn[u] /\ cap'[u] = cap[u]
      BY <1>2, <3>1 DEF TypeOK
    <3>9. cap'[T(h)] = o[1]
      BY <1>2, <1>3, <3>1 DEF TypeOK
    <3> HIDE DEF k
    <3> QED BY <2>1, <3>3, <3>4, <3>5, <3>7, <3>8, <3>9
  <2>2. CASE cap[T(h)] # "issued"
    <3>1. /\ cap' = cap /\ job' = job
          /\ \E state \in {"refused", "provider_failed"} :
               turn' = [turn EXCEPT ![T(h)] = state]
      BY <2>2 DEF Process
    <3>2. (TypeOK!7)' /\ (TypeOK!8)'
      BY <1>2, <3>1 DEF TypeOK
    <3>3. \A u \in Turns \ {T(h)} : turn'[u] = turn[u] /\ cap'[u] = cap[u]
      BY <1>2, <3>1 DEF TypeOK
    <3>4. job' = [job EXCEPT ![h] = job[h]] /\ SameTask(job[h], job[h])
      BY <1>2, <3>1, SameJob DEF SameTask
    <3>5. job[h].bundle => cap'[T(h)] = "prepared_consumed"
      BY <1>2, <3>1 DEF CrossingSound
    <3> QED BY <1>3, <3>1, <3>2, <3>3, <3>4, <3>5
  <2> QED BY <2>1, <2>2
<1>5. k.turn = T(h) /\ k.op = job[h].op
  BY <1>3, <1>4 DEF SameTask
<1>6. /\ pc'[h] = "complete" /\ job'[h] = k
      /\ \A g \in Handlers \ {h} : pc'[g] = pc[g] /\ job'[g] = job[g]
  BY <1>1, <1>2, <1>4 DEF TypeOK
<1>7. TypeOK'
  <2>1. pc' \in [Handlers -> Steps] /\ job' \in [Handlers -> Jobs]
    BY <1>1, <1>2, <1>4 DEF TypeOK, Steps, Crossing
  <2> QED BY <1>1, <1>2, <1>4, <2>1 DEF TypeOK
<1>8. \A g \in Handlers \ {h} :
        /\ JobSound(g)' /\ (Past(g)' <=> Past(g)) /\ job'[g].turn = T(g)
        /\ Past(g) => T(g) \in Turns /\ row[T(g)].authorized
        /\ pc[g] \notin Lone => T(g) \in Turns
  BY <1>1, <1>6, OthersStay
<1>9. Past(h) /\ row[T(h)].authorized
  BY <1>1, <1>2 DEF Past, PastSound, Crossing
<1>10. ASSUME NEW g \in Handlers PROVE JobSound(g)'
  <2>1. JobSound(h)'
    BY <1>1, <1>2, <1>3, <1>5, <1>6 DEF JobSound, T, Present, Lone
  <2> QED BY <1>8, <2>1
<1>11. PastSound'
  BY <1>1, <1>2, <1>5, <1>6, <1>8, <1>9 DEF PastSound, T
<1>12. \A u \in Turns : cap[u] = "prepared_consumed" => cap'[u] = "prepared_consumed"
  BY <1>4
<1>13. ASSUME NEW g \in Handlers PROVE CrossingSound(g)'
  <2>0. CrossingSound(g)
    BY <1>2
  <2>1. CASE g = h
    BY <1>1, <1>3, <1>4, <1>5, <1>6, <2>0, <2>1 DEF CrossingSound, T, Crossing
  <2>2. CASE g # h
    BY <1>1, <1>6, <1>12, <2>0, <2>2 DEF CrossingSound, T
  <2> QED BY <2>1, <2>2
<1>14. ASSUME NEW u \in Turns PROVE RowSound(u)'
  <2>1. RowSound(u)
    BY <1>2
  <2>2. Awaiting(u)' => Present(u)
    BY <1>3, <1>4, <2>1 DEF RowSound, Present, Awaiting
  <2> QED BY <1>1, <1>12, <2>1, <2>2 DEF RowSound, Present
<1>15. Reviewed'
  BY <1>1, <1>6, ReviewKeeps
<1> QED BY <1>7, <1>10, <1>11, <1>13, <1>14, <1>15 DEF Inv

\* The attempt is completed by whoever took it through the transport.
LEMMA CompleteKeeps ==
  ASSUME Inv, NEW h \in Handlers, CompleteWrite(h)
  PROVE  Inv'
<1> DEFINE q == [row[T(h)] EXCEPT !.state = "completed", !.consumed = job[h].consumed,
                                  !.bundle = job[h].bundle]
           k == [job[h] EXCEPT !.next = "forget"]
<1>1. /\ pc[h] = "complete_write" /\ pc' = [pc EXCEPT ![h] = "receipt"]
      /\ job' = [job EXCEPT ![h] = k] /\ row' = [row EXCEPT ![T(h)] = q]
      /\ receipt' = receipt /\ memory' = memory /\ sent' = sent
      /\ latch' = latch /\ review' = review /\ shadow' = shadow /\ boot' = boot
      /\ turn' = turn /\ cap' = cap
  BY DEF CompleteWrite, Update, Goto, semantic
<1>2. /\ TypeOK /\ (\A g \in Handlers : JobSound(g)) /\ PastSound
      /\ (\A g \in Handlers : CrossingSound(g)) /\ (\A u \in Turns : RowSound(u))
  BY DEF Inv
<1>3. /\ job[h] \in Jobs /\ T(h) \in Turns /\ row[T(h)] \in Rows
      /\ row[T(h)].state # "absent" /\ job[h].op \notin Operator /\ job[h].turn = T(h)
  BY <1>1, <1>2, OwnAttempt DEF Lone
<1>4. /\ q \in Rows /\ q.state = "completed" /\ q.mode = row[T(h)].mode
      /\ q.bundle = job[h].bundle /\ q.authorized = row[T(h)].authorized
      /\ q.external = row[T(h)].external /\ q.unit = row[T(h)].unit
  BY <1>3 DEF Rows, Jobs, States
<1>5. k \in Jobs /\ SameTask(job[h], k) /\ k.next = "forget" /\ k.bundle = job[h].bundle
  BY <1>3 DEF Jobs, SameTask, Nexts
<1> HIDE DEF q, k
<1>6. k.turn = T(h) /\ k.op = job[h].op /\ k.unit = job[h].unit /\ k.mode = job[h].mode
  BY <1>3, <1>5 DEF SameTask
<1>7. /\ Past(h) /\ row[T(h)].authorized /\ ~row[T(h)].bundle
      /\ job[h].bundle => cap[T(h)] = "prepared_consumed"
  BY <1>1, <1>2 DEF Past, PastSound, CrossingSound, Crossing
<1>8. row'[T(h)] = q /\ \A u \in Turns \ {T(h)} : row'[u] = row[u]
  BY <1>1, <1>2, <1>3 DEF TypeOK
<1>9. /\ pc'[h] = "receipt" /\ job'[h] = k
      /\ \A g \in Handlers \ {h} : pc'[g] = pc[g] /\ job'[g] = job[g]
  BY <1>1, <1>2 DEF TypeOK
<1>10. TypeOK'
  <2>1. pc' \in [Handlers -> Steps] /\ job' \in [Handlers -> Jobs]
    BY <1>1, <1>2, <1>5 DEF TypeOK, Steps
  <2>2. row' \in [Turns -> Rows]
    BY <1>1, <1>2, <1>4 DEF TypeOK
  <2> QED BY <1>1, <1>2, <2>1, <2>2 DEF TypeOK
<1>11. \A t \in Turns : row[t].state # "absent" => row'[t].state # "absent"
  BY <1>4, <1>8
<1>12. \A g \in Handlers \ {h} :
         /\ JobSound(g)' /\ (Past(g)' <=> Past(g)) /\ job'[g].turn = T(g)
         /\ Past(g) => T(g) \in Turns /\ row[T(g)].authorized /\ T(g) # T(h)
         /\ pc[g] \notin Lone => T(g) \in Turns
  BY <1>2, <1>7, <1>9, <1>11, OthersStay DEF PastSound
<1>13. Past(h)'
  BY <1>5, <1>9 DEF Past
<1>14. ASSUME NEW g \in Handlers PROVE JobSound(g)'
  <2>1. JobSound(h)'
    BY <1>3, <1>4, <1>6, <1>8, <1>9 DEF JobSound, T, Present, Lone
  <2> QED BY <1>12, <2>1
<1>15. PastSound'
  <2>1. ASSUME NEW g \in Handlers, Past(g)' PROVE row'[job'[g].turn].authorized
    <3>1. CASE g = h
      <4>1. job'[h].turn = T(h)
        BY <1>6, <1>9
      <4>2. q.authorized
        BY <1>4, <1>7
      <4> QED BY <1>8, <3>1, <4>1, <4>2
    <3>2. CASE g # h
      BY <1>8, <1>12, <2>1, <3>2
    <3> QED BY <3>1, <3>2
  <2>2. ASSUME NEW f \in Handlers, NEW g \in Handlers, Past(f)', Past(g)',
               job'[f].turn = job'[g].turn
        PROVE  f = g
    <3>1. f # h /\ g # h => f = g
      BY <1>2, <1>12, <2>2 DEF PastSound
    <3>2. ASSUME NEW e \in Handlers \ {h}, Past(e)' PROVE job'[e].turn # job'[h].turn
      BY <1>6, <1>9, <1>12, <3>2
    <3> QED BY <2>2, <3>1, <3>2
  <2> QED BY <2>1, <2>2 DEF PastSound, T
<1>16. ASSUME NEW g \in Handlers PROVE CrossingSound(g)'
  <2>0. CrossingSound(g)
    BY <1>2
  <2>1. CASE g = h
    BY <1>1, <1>3, <1>5, <1>6, <1>7, <1>9, <2>0, <2>1 DEF CrossingSound, T, Crossing
  <2>2. CASE g # h
    <3>1. pc[g] \in Crossing => T(g) \in Turns /\ row'[T(g)] = row[T(g)]
      BY <1>8, <1>12, <2>2 DEF Past
    <3>2. /\ pc[g] \in {"unit", "unit_write"} => T(g) \in Turns
          /\ pc[g] = "unit_write" => T(g) # T(h)
      BY <1>7, <1>12, <2>0, <2>2 DEF Lone, CrossingSound
    <3>3. T(g) \in Turns => row'[T(g)].mode = row[T(g)].mode
      BY <1>4, <1>8
    <3>4. T(g) \in Turns /\ T(g) # T(h) => row'[T(g)] = row[T(g)]
      BY <1>8
    <3> QED BY <1>1, <1>9, <2>0, <2>2, <3>1, <3>2, <3>3, <3>4 DEF CrossingSound, T
  <2> QED BY <2>1, <2>2
<1>17. ASSUME NEW u \in Turns PROVE RowSound(u)'
  <2>0. RowSound(u)
    BY <1>2
  <2>1. CASE u = T(h)
    <3>1. /\ q.mode = row[u].mode /\ q.external = row[u].external /\ q.state # "absent"
          /\ q.authorized /\ row[u].authorized /\ row[u].state # "absent"
      BY <1>3, <1>4, <1>7, <2>1
    <3>2. q.bundle => cap[u] = "prepared_consumed"
      BY <1>4, <1>7, <2>1
    <3>3. q.unit = None
      BY <1>4, <1>7, <2>0, <2>1 DEF RowSound
    <3>4. row'[u] = q
      BY <1>8, <2>1
    <3> QED BY <1>1, <2>0, <3>1, <3>2, <3>3, <3>4 DEF RowSound, Present, Awaiting
  <2>2. CASE u # T(h)
    BY <1>1, <1>8, <2>0, <2>2 DEF RowSound, Present, Awaiting
  <2> QED BY <2>1, <2>2
<1>18. Reviewed'
  <2>1. \A t \in Turns : row'[t].state # "absent" /\ row'[t].mode = "live_canary" =>
                           row[t].state # "absent" /\ row[t].mode = "live_canary"
    BY <1>3, <1>4, <1>8
  <2>2. \A u \in Turns : row[u].mode = "rehearsal" /\ row[u].unit = u =>
                           row'[u].mode = "rehearsal" /\ row'[u].unit = u
    BY <1>4, <1>8
  <2> QED BY <1>1, <1>6, <1>9, <2>1, <2>2, ReviewKeeps
<1> QED BY <1>10, <1>14, <1>15, <1>16, <1>17, <1>18 DEF Inv

\* What a sync of the messages P is about: the latest attempt among them, and
\* the latest turn of its mode that waits for a unit.
LEMMA SyncFinds ==
  ASSUME Inv, NEW h \in Handlers, NEW P \in SUBSET Turns, SyncBind(h, P)
  PROVE  \E t \in Turns, w \in Turns, j \in Jobs :
           /\ row[t].state # "absent" /\ row[w].state # "absent" /\ row[w].mode = row[t].mode
           /\ w <= t /\ Awaiting(w)
           /\ pc[h] = "idle" /\ pc' = [pc EXCEPT ![h] = "unit"]
           /\ job' = [job EXCEPT ![h] = j]
           /\ j.op \notin Operator /\ j.turn = t /\ j.unit = w /\ j.next = "idle" /\ ~j.bundle
           /\ turn' = [turn EXCEPT ![w] = "ready_to_apply_shadow_only"]
<1> DEFINE t == Latest(P \cap Attempts)
           W == Waiting(row[t].mode, P)
           w == Latest(W)
           j == [NoJob EXCEPT !.op = "sync", !.turn = t, !.unit = w]
<1>1. /\ IsFiniteSet(P) /\ P \cap Attempts # {} /\ W # {}
      /\ turn' = [turn EXCEPT ![w] = "ready_to_apply_shadow_only"]
      /\ Start(h, "unit", j)
  BY DEF SyncBind
<1>2. /\ P \cap Attempts \in SUBSET Turns /\ IsFiniteSet(P \cap Attempts)
      /\ W \in SUBSET Turns /\ W \subseteq P /\ IsFiniteSet(W)
  <2>1. W \subseteq P
    BY DEF Waiting
  <2> QED BY <1>1, <2>1, FS_Subset
<1>3. t \in P \cap Attempts /\ \A u \in P \cap Attempts : u <= t
  BY <1>1, <1>2, LatestIsIn
<1>4. w \in W
  BY <1>1, <1>2, LatestIsIn
<1>5. w \in P /\ row[w].mode = row[t].mode /\ Awaiting(w)
  BY <1>4 DEF Waiting, Awaiting
<1>6. t \in Turns /\ w \in Turns /\ row[t].state # "absent"
  BY <1>3, <1>5 DEF Attempts
<1>7. row[w].state # "absent"
  BY <1>5, <1>6 DEF Inv, RowSound, Present
<1>8. w <= t
  BY <1>3, <1>5, <1>6, <1>7 DEF Attempts
<1> HIDE DEF t, w
<1>9. j \in Jobs /\ j.turn = t /\ j.unit = w /\ j.next = "idle" /\ ~j.bundle
      /\ j.op \notin Operator
  BY <1>6, NoRowTyped, FreshTyped DEF NoJob, Jobs, Nexts, Modes, Operator
<1>10. pc[h] = "idle" /\ pc' = [pc EXCEPT ![h] = "unit"] /\ job' = [job EXCEPT ![h] = j]
  BY <1>1 DEF Start, Idle, Goto
<1> HIDE DEF j
<1> QED BY <1>1, <1>5, <1>6, <1>7, <1>8, <1>9, <1>10

\* A sync binds a unit to a turn that waited for one.
LEMMA SyncKeeps ==
  ASSUME Inv, NEW h \in Handlers, NEW P \in SUBSET Turns, SyncBind(h, P)
  PROVE  Inv'
<1>1. /\ row' = row /\ receipt' = receipt /\ memory' = memory /\ sent' = sent
      /\ latch' = latch /\ review' = review /\ shadow' = shadow /\ boot' = boot /\ cap' = cap
  BY DEF SyncBind, control
<1>2. /\ TypeOK /\ (\A g \in Handlers : JobSound(g)) /\ PastSound
      /\ (\A g \in Handlers : CrossingSound(g)) /\ (\A u \in Turns : RowSound(u))
  BY DEF Inv
<1>3. PICK t \in Turns, w \in Turns, j \in Jobs :
        /\ row[t].state # "absent" /\ row[w].state # "absent" /\ row[w].mode = row[t].mode
        /\ w <= t /\ Awaiting(w)
        /\ pc[h] = "idle" /\ pc' = [pc EXCEPT ![h] = "unit"]
        /\ job' = [job EXCEPT ![h] = j]
        /\ j.op \notin Operator /\ j.turn = t /\ j.unit = w /\ j.next = "idle" /\ ~j.bundle
        /\ turn' = [turn EXCEPT ![w] = "ready_to_apply_shadow_only"]
  BY SyncFinds
<1>4. /\ pc'[h] = "unit" /\ job'[h] = j
      /\ \A g \in Handlers \ {h} : pc'[g] = pc[g] /\ job'[g] = job[g]
  BY <1>2, <1>3 DEF TypeOK
<1>5. TypeOK'
  <2>1. pc' \in [Handlers -> Steps] /\ job' \in [Handlers -> Jobs]
    BY <1>2, <1>3 DEF TypeOK, Steps
  <2>2. (TypeOK!7)'
    BY <1>2, <1>3 DEF TypeOK
  <2> QED BY <1>1, <1>2, <2>1, <2>2 DEF TypeOK
<1>6. \A g \in Handlers \ {h} :
        /\ JobSound(g)' /\ (Past(g)' <=> Past(g)) /\ job'[g].turn = T(g)
        /\ Past(g) => T(g) \in Turns /\ row[T(g)].authorized
        /\ pc[g] \notin Lone => T(g) \in Turns
  BY <1>1, <1>4, OthersStay
<1>7. ~Past(h)'
  BY <1>3, <1>4 DEF Past, Crossing
<1>8. ASSUME NEW g \in Handlers PROVE JobSound(g)'
  <2>1. JobSound(h)'
    BY <1>1, <1>3, <1>4 DEF JobSound, T, Present, Lone
  <2> QED BY <1>6, <2>1
<1>9. PastSound'
  BY <1>1, <1>2, <1>6, <1>7 DEF PastSound, T
<1>10. ASSUME NEW g \in Handlers PROVE CrossingSound(g)'
  <2>0. CrossingSound(g)
    BY <1>2
  <2>1. CASE g = h
    <3>1. row[t].mode = "rehearsal" => w = t
      BY <1>2, <1>3 DEF RowSound
    <3> QED BY <1>1, <1>3, <1>4, <2>1, <3>1 DEF CrossingSound, T, Crossing
  <2>2. CASE g # h
    BY <1>1, <1>4, <2>0, <2>2 DEF CrossingSound, T
  <2> QED BY <2>1, <2>2
<1>11. ASSUME NEW u \in Turns PROVE RowSound(u)'
  <2>1. RowSound(u)
    BY <1>2
  <2>2. Awaiting(u)' => Awaiting(u)
    BY <1>2, <1>3 DEF TypeOK, Awaiting
  <2> QED BY <1>1, <2>1, <2>2 DEF RowSound, Present
<1>12. Reviewed'
  BY <1>1, <1>4, ReviewKeeps
<1> QED BY <1>5, <1>8, <1>9, <1>10, <1>11, <1>12 DEF Inv

\* The unit is recorded in an attempt that has its bundle.
LEMMA UnitKeeps ==
  ASSUME Inv, NEW h \in Handlers, UnitWrite(h)
  PROVE  Inv'
<1> DEFINE q == [row[T(h)] EXCEPT !.unit = job[h].unit]
           k == [job[h] EXCEPT !.next = "idle"]
<1>1. /\ pc[h] = "unit_write" /\ pc' = [pc EXCEPT ![h] = "receipt"]
      /\ job' = [job EXCEPT ![h] = k] /\ row' = [row EXCEPT ![T(h)] = q]
      /\ receipt' = receipt /\ memory' = memory /\ sent' = sent
      /\ latch' = latch /\ review' = review /\ shadow' = shadow /\ boot' = boot
      /\ turn' = turn /\ cap' = cap
  BY DEF UnitWrite, Update, Goto, semantic
<1>2. /\ TypeOK /\ (\A g \in Handlers : JobSound(g)) /\ PastSound
      /\ (\A g \in Handlers : CrossingSound(g)) /\ (\A u \in Turns : RowSound(u))
  BY DEF Inv
<1>3. /\ job[h] \in Jobs /\ T(h) \in Turns /\ row[T(h)] \in Rows
      /\ row[T(h)].state # "absent" /\ job[h].op \notin Operator /\ job[h].turn = T(h)
  BY <1>1, <1>2, OwnAttempt DEF Lone
<1>4. /\ q \in Rows /\ q.state = row[T(h)].state /\ q.mode = row[T(h)].mode
      /\ q.bundle = row[T(h)].bundle /\ q.authorized = row[T(h)].authorized
      /\ q.external = row[T(h)].external /\ q.unit = job[h].unit
  BY <1>3 DEF Rows, Jobs
<1>5. k \in Jobs /\ SameTask(job[h], k) /\ k.next = "idle" /\ k.bundle = job[h].bundle
  BY <1>3 DEF Jobs, SameTask, Nexts
<1> HIDE DEF q, k
<1>6. k.turn = T(h) /\ k.op = job[h].op /\ k.unit = job[h].unit /\ k.mode = job[h].mode
  BY <1>3, <1>5 DEF SameTask
<1>7. /\ row[T(h)].bundle
      /\ row[T(h)].mode = "rehearsal" => job[h].unit = T(h)
      /\ job[h].bundle => cap[T(h)] = "prepared_consumed"
  BY <1>1, <1>2 DEF CrossingSound
<1>8. row'[T(h)] = q /\ \A u \in Turns \ {T(h)} : row'[u] = row[u]
  BY <1>1, <1>2, <1>3 DEF TypeOK
<1>9. /\ pc'[h] = "receipt" /\ job'[h] = k
      /\ \A g \in Handlers \ {h} : pc'[g] = pc[g] /\ job'[g] = job[g]
  BY <1>1, <1>2 DEF TypeOK
<1>10. TypeOK'
  <2>1. pc' \in [Handlers -> Steps] /\ job' \in [Handlers -> Jobs]
    BY <1>1, <1>2, <1>5 DEF TypeOK, Steps
  <2>2. row' \in [Turns -> Rows]
    BY <1>1, <1>2, <1>4 DEF TypeOK
  <2> QED BY <1>1, <1>2, <2>1, <2>2 DEF TypeOK
<1>11. \A t \in Turns : /\ row'[t].state = row[t].state /\ row'[t].mode = row[t].mode
                        /\ row'[t].bundle = row[t].bundle
                        /\ row'[t].authorized = row[t].authorized
                        /\ row'[t].external = row[t].external
  BY <1>4, <1>8
<1>12. \A g \in Handlers \ {h} :
         /\ JobSound(g)' /\ (Past(g)' <=> Past(g)) /\ job'[g].turn = T(g)
         /\ Past(g) => T(g) \in Turns /\ row[T(g)].authorized
         /\ pc[g] \notin Lone => T(g) \in Turns
  BY <1>9, <1>11, OthersStay
<1>13. ~Past(h)'
  BY <1>5, <1>9 DEF Past, Crossing
<1>14. ASSUME NEW g \in Handlers PROVE JobSound(g)'
  <2>1. JobSound(h)'
    BY <1>3, <1>6, <1>9, <1>11 DEF JobSound, T, Present, Lone
  <2> QED BY <1>12, <2>1
<1>15. PastSound'
  <2>1. ASSUME NEW g \in Handlers, Past(g)' PROVE g # h /\ Past(g) /\ job'[g].turn = T(g)
    BY <1>12, <1>13, <2>1
  <2>2. ASSUME NEW g \in Handlers, Past(g)' PROVE row'[job'[g].turn].authorized
    BY <1>11, <1>12, <2>1, <2>2
  <2>3. ASSUME NEW f \in Handlers, NEW g \in Handlers, Past(f)', Past(g)',
               job'[f].turn = job'[g].turn
        PROVE  f = g
    BY <1>2, <2>1, <2>3 DEF PastSound
  <2> QED BY <2>2, <2>3 DEF PastSound, T
<1>16. ASSUME NEW g \in Handlers PROVE CrossingSound(g)'
  <2>0. CrossingSound(g)
    BY <1>2
  <2>1. CASE g = h
    BY <1>1, <1>3, <1>5, <1>6, <1>7, <1>9, <2>0, <2>1 DEF CrossingSound, T, Crossing
  <2>2. CASE g # h
    <3>1. pc[g] \in Crossing \cup {"unit", "unit_write"} => T(g) \in Turns
      BY <1>12, <2>2 DEF Lone, Crossing
    <3> QED BY <1>1, <1>9, <1>11, <2>0, <2>2, <3>1 DEF CrossingSound, T
  <2> QED BY <2>1, <2>2
<1>17. ASSUME NEW u \in Turns PROVE RowSound(u)'
  <2>0. RowSound(u)
    BY <1>2
  <2>1. CASE u = T(h)
    <3>1. /\ row'[u].mode = row[u].mode /\ row'[u].external = row[u].external
          /\ row'[u].authorized = row[u].authorized /\ row'[u].bundle = row[u].bundle
          /\ row'[u].state # "absent" /\ row[u].state # "absent"
      BY <1>3, <1>11, <2>1
    <3>2. row[u].bundle
      BY <1>7, <2>1
    <3>3. row[u].mode = "rehearsal" => row'[u].unit = u
      BY <1>4, <1>7, <1>8, <2>1
    <3> QED BY <1>1, <2>0, <3>1, <3>2, <3>3 DEF RowSound, Present, Awaiting
  <2>2. CASE u # T(h)
    BY <1>1, <1>8, <2>0, <2>2 DEF RowSound, Present, Awaiting
  <2> QED BY <2>1, <2>2
<1>18. Reviewed'
  <2>1. \A u \in Turns : row[u].mode = "rehearsal" /\ row[u].unit = u =>
                           row'[u].mode = "rehearsal" /\ row'[u].unit = u
    BY <1>4, <1>7, <1>8, <1>11
  <2> QED BY <1>1, <1>6, <1>9, <1>11, <2>1, ReviewKeeps
<1> QED BY <1>10, <1>14, <1>15, <1>16, <1>17, <1>18 DEF Inv

(***************************************************************************)
(* The invariant holds, and what follows from it.                          *)
(***************************************************************************)
LEMMA InvInit == Init => Inv
<1> SUFFICES ASSUME Init PROVE Inv
  OBVIOUS
<1>1. \A t \in Turns : row[t] = NoRow /\ sent[t] = 0 /\ turn[t] = "absent"
  BY DEF Init
<1>2. \A h \in Handlers : pc[h] = "idle" /\ job[h] = NoJob
  BY DEF Init
<1>3. /\ NoRow.state = "absent" /\ ~NoRow.authorized /\ ~NoRow.bundle /\ NoRow.unit = None
      /\ NoRow.mode = "live_canary"
  BY DEF NoRow
<1>4. "idle" \in Lone /\ "idle" \in Steps
  BY DEF Steps, Lone
<1>5. TypeOK
  <2>1. memory \in Memories
    BY DEF Init, NoMemory, Memories
  <2> QED BY <1>4, <2>1, NoRowTyped, FreshTyped, NoJobTyped DEF Init, TypeOK
<1>6. ASSUME NEW h \in Handlers PROVE JobSound(h) /\ ~Past(h) /\ CrossingSound(h)
  BY <1>2, NothingInHand DEF JobSound, Past, CrossingSound, Lone, Crossing
<1>7. PastSound
  BY <1>6 DEF PastSound
<1>8. ASSUME NEW t \in Turns PROVE RowSound(t)
  BY <1>1, <1>3 DEF RowSound, Present, Awaiting
<1>9. Reviewed
  <2>1. latch["live_canary"].state = "unarmed" /\ review = "pending"
    BY DEF Init, FreshLatch, Modes
  <2> QED BY <1>1, <1>2, <1>3, <2>1 DEF Reviewed, Present
<1> QED BY <1>5, <1>6, <1>7, <1>8, <1>9 DEF Inv

\* Every step of a request keeps the invariant.
LEMMA ContinueKeeps == ASSUME Inv, NEW h \in Handlers, Continue(h) PROVE Inv'
BY WritesQuiet, ReadsQuiet, ReceiptWriteQuiet, SemanticQuiet, ActivationQuiet, LeavesQuiet,
   QuietKeeps, AuthorizeKeeps, InterceptKeeps, ProcessKeeps, CompleteKeeps, UnitKeeps
DEF Continue

\* Every step of the system does.
LEMMA InvStep == Inv /\ [Next]_vars => Inv'
<1> SUFFICES ASSUME Inv, [Next]_vars PROVE Inv'
  OBVIOUS
<1>1. ASSUME Enter(Turns) PROVE Inv'
  <2>1. PICK t \in Turns : Preflight(t) \/ Lookup(t) \/ \E m \in Modes : Accept(t, m)
    BY <1>1 DEF Enter
  <2> QED BY <2>1, GlobalsQuiet, QuietKeeps, AcceptKeeps
<1>2. ASSUME NEW h \in Handlers, Serve(h, Turns) PROVE Inv'
  <2>1. CASE \E t \in Turns : Handle(h, t)
    BY <2>1, RequestsQuiet, QuietKeeps
  <2>2. CASE \E P \in SUBSET Turns : SyncBind(h, P)
    BY <2>2, SyncKeeps
  <2> QED BY <1>2, <2>1, <2>2, ContinueKeeps DEF Serve
<1>3. ASSUME NEW h \in Handlers, Command(h) \/ Raise(h) PROVE Inv'
  BY <1>3, CommandsKeep, RaiseQuiet, QuietKeeps
<1>4. ASSUME Restart PROVE Inv'
  BY <1>4, RestartQuiet, QuietKeeps
<1>5. ASSUME UNCHANGED vars PROVE Inv'
  <2>1. /\ latch' = latch /\ review' = review /\ row' = row /\ receipt' = receipt
        /\ shadow' = shadow /\ boot' = boot /\ turn' = turn /\ cap' = cap
        /\ memory' = memory /\ pc' = pc /\ job' = job /\ sent' = sent
    BY <1>5 DEF vars, control, semantic
  <2> QED BY <2>1 DEF Inv, TypeOK, JobSound, PastSound, Past, CrossingSound, RowSound, Reviewed,
                      RehearsalDone, Present, Awaiting, T
<1> QED BY <1>1, <1>2, <1>3, <1>4, <1>5 DEF Next

\* The attempts, the latches and the handlers stay what the code lets them be,
\* under every interleaving of requests, commands, exceptions and restarts.
THEOREM AttemptInvariant == Spec => []Inv
BY InvInit, InvStep, PTL DEF Spec

\* One transport per attempt: whoever authorises one is alone with it until the
\* request is over, and nothing takes the authorisation back.
THEOREM OneTransport == Spec => []AtMostOneTransport
<1>1. Inv => AtMostOneTransport
  <2> SUFFICES ASSUME Inv, NEW t \in Turns
               PROVE  sent[t] <= (IF row[t].authorized THEN row[t].external ELSE 0)
    BY DEF AtMostOneTransport
  <2>1. sent[t] \in {0, 1} /\ row[t] \in Rows /\ RowSound(t)
    BY DEF Inv, TypeOK
  <2>2. row[t].external \in {0, 1}
    BY <2>1 DEF Rows
  <2>3. sent[t] = 1 => row[t].authorized /\ row[t].external = 1
    BY <2>1 DEF RowSound
  <2> QED BY <2>1, <2>2, <2>3
<1> QED BY <1>1, AttemptInvariant, PTL

\* A rehearsal is answered in place.
THEOREM RehearsalNeverSent == Spec => []RehearsalStaysInside
<1>1. Inv => RehearsalStaysInside
  BY DEF Inv, TypeOK, RowSound, RehearsalStaysInside
<1> QED BY <1>1, AttemptInvariant, PTL

\* Nothing is sent before a review.
THEOREM SentAfterReview == Spec => []LiveAfterReview
<1>1. Inv => LiveAfterReview
  <2> SUFFICES ASSUME Inv, NEW t \in Turns, sent[t] > 0
               PROVE  review # "pending" /\ (review = "rehearsal" => RehearsalDone)
    BY DEF LiveAfterReview, RehearsalDone
  <2>1. RowSound(t) /\ sent[t] = 1 /\ Reviewed
    BY DEF Inv, TypeOK
  <2>2. Present(t) /\ row[t].mode = "live_canary"
    BY <2>1 DEF RowSound, NoRow
  <2> QED BY <2>1, <2>2 DEF Reviewed
<1> QED BY <1>1, AttemptInvariant, PTL

(***************************************************************************)
(* One arm command at a time: no unit but the attempt's own.               *)
(***************************************************************************)

\* An attempt that is over stays over, and no live attempt comes or goes.
Settles == \A t \in Turns : (Over(t) => Over(t)') /\ (Live(t)' <=> Live(t))

\* No unit is bound or recorded.
UnitsStay ==
  /\ \A t \in Turns : row'[t].unit = row[t].unit
  /\ \A g \in Handlers : pc'[g] \in {"unit", "unit_write"} =>
       /\ pc[g] \in {"unit", "unit_write"}
       /\ job'[g].turn = job[g].turn /\ job'[g].unit = job[g].unit

\* No arm command begins.
ArmsStay ==
  \A g \in Handlers : pc'[g] = "arm" => pc[g] = "arm" /\ job'[g].mode = job[g].mode

\* Without an arming or an acceptance the latest live attempt stays the latest.
LEMMA SettledKeeps ==
  ASSUME SoloSound, Settles, ArmsStay, latch' = latch
  PROVE  SoloSound'
<1>1. ASSUME NEW t \in Turns, Live(t)' PROVE Over(t)' \/ Current(t)'
  <2>1. Over(t) \/ Current(t)
    BY <1>1 DEF SoloSound, Settles
  <2>2. Current(t) => Current(t)'
    BY DEF Current, Settles
  <2> QED BY <2>1, <2>2 DEF Settles
<1>2. (\A t \in Turns : Live(t) => Over(t)) => (\A t \in Turns : Live(t)' => Over(t)')
  BY DEF Settles
<1> QED BY <1>1, <1>2 DEF SoloSound, ArmsStay

\* Nor does a unit change.
LEMMA UnitsKept ==
  ASSUME UnitsMatch, UnitsStay
  PROVE  UnitsMatch'
BY DEF UnitsMatch, UnitsStay, T

\* A step that touches no transport settles nothing anew.
LEMMA CalmSettles ==
  ASSUME Calm
  PROVE  Settles /\ UnitsStay
<1>1. /\ \A t \in Turns : Kept(row[t], row'[t])
      /\ \A t \in Turns : Awaiting(t)' => Awaiting(t)
      /\ \A g \in Handlers : Work(pc[g], job[g], pc'[g], job'[g])
  BY DEF Calm, Awaiting
<1>2. UnitsStay
  BY <1>1 DEF UnitsStay, Kept, Work
<1>3. \A t \in Turns : Live(t)' <=> Live(t)
  BY <1>1 DEF Live, Present, Kept
<1>4. ASSUME NEW t \in Turns, Over(t) PROVE Over(t)'
  <2>1. row'[t].authorized
    BY <1>1, <1>4 DEF Over, Kept
  <2>2. ASSUME NEW g \in Handlers, pc'[g] \in {"intercept", "process"}
        PROVE  job'[g].turn # t
    <3>1. pc'[g] = pc[g] /\ job'[g].turn = job[g].turn
      BY <1>1, <2>2 DEF Work, PastAt, Crossing
    <3> QED BY <1>4, <2>2, <3>1 DEF Over, T
  <2> QED BY <1>1, <1>4, <2>1, <2>2 DEF Over, T
<1> QED BY <1>2, <1>3, <1>4 DEF Settles

\* The steps of a request: whoever takes them works on an attempt that is not
\* over yet.
LEMMA RequestSettles ==
  ASSUME Inv, NEW h \in Handlers,
         Authorize(h) \/ Intercept(h) \/ Process(h) \/ CompleteWrite(h) \/ UnitWrite(h)
  PROVE  Settles /\ ArmsStay /\ latch' = latch
<1>1. TypeOK /\ \A g \in Handlers : JobSound(g)
  BY DEF Inv
<1>2. /\ latch' = latch
      /\ pc[h] \in {"authorize", "intercept", "process", "complete_write", "unit_write"}
  BY DEF Authorize, Intercept, Process, CompleteWrite, UnitWrite, Update, control
<1>3. /\ pc[h] # "process" => turn' = turn
      /\ \A t \in Turns : t # T(h) => turn'[t] = turn[t]
  <2>1. CASE Process(h)
    BY <1>1, <2>1 DEF Process, TypeOK
  <2>2. CASE Authorize(h) \/ Intercept(h) \/ CompleteWrite(h) \/ UnitWrite(h)
    BY <2>2 DEF Authorize, Intercept, CompleteWrite, UnitWrite, Update, semantic
  <2> QED BY <2>1, <2>2
<1>4. PICK l \in {"intercept", "process", "complete", "receipt"} :
         /\ pc' = [pc EXCEPT ![h] = l]
         /\ l = "intercept" => ~row[T(h)].authorized
         /\ l = "process" => pc[h] = "intercept"
  BY DEF Authorize, Authorizable, Intercept, Process, CompleteWrite, UnitWrite, Update, Goto
<1>5. (\A g \in Handlers \ {h} : job'[g] = job[g]) /\ job'[h].turn = T(h)
  <2>1. job \in [Handlers -> Jobs] /\ job[h] \in Jobs /\ T(h) = job[h].turn
    BY <1>1 DEF TypeOK, T
  <2>2. \/ job' = job
        \/ \E b, c : job' = [job EXCEPT ![h].bundle = b, ![h].consumed = c]
        \/ \E n : job' = [job EXCEPT ![h].next = n]
    <3>1. CASE Process(h)
      <4>1. CASE job' = job
        BY <4>1
      <4>2. CASE job' # job
        <5>1. PICK o \in Outcomes, d \in BOOLEAN :
                job' = [job EXCEPT ![h].bundle = (o[1] = "prepared_consumed"),
                                   ![h].consumed = d]
          BY <3>1, <4>2 DEF Process
        <5> QED BY <5>1
      <4> QED BY <4>1, <4>2
    <3>2. CASE CompleteWrite(h) \/ UnitWrite(h)
      BY <3>2 DEF CompleteWrite, UnitWrite, Update
    <3>3. CASE Authorize(h) \/ Intercept(h)
      BY <3>3 DEF Authorize, Intercept
    <3> QED BY <3>1, <3>2, <3>3
  <2>3. \E k : job' = [job EXCEPT ![h] = k] /\ k.turn = T(h)
    <3>1. CASE job' = job
      BY <2>1, <3>1
    <3>2. CASE \E b, c : job' = [job EXCEPT ![h].bundle = b, ![h].consumed = c]
      <4>1. PICK b, c : job' = [job EXCEPT ![h].bundle = b, ![h].consumed = c]
        BY <3>2
      <4> DEFINE k == [job[h] EXCEPT !.bundle = b, !.consumed = c]
      <4>2. k.turn = T(h)
        BY <2>1 DEF Jobs
      <4>3. job' = [job EXCEPT ![h] = k]
        BY <2>1, <4>1
      <4> QED BY <4>2, <4>3
    <3>3. CASE \E n : job' = [job EXCEPT ![h].next = n]
      <4>1. PICK n : job' = [job EXCEPT ![h].next = n]
        BY <3>3
      <4> DEFINE k == [job[h] EXCEPT !.next = n]
      <4>2. k.turn = T(h)
        BY <2>1 DEF Jobs
      <4>3. job' = [job EXCEPT ![h] = k]
        BY <2>1, <4>1
      <4> QED BY <4>2, <4>3
    <3> QED BY <2>2, <3>1, <3>2, <3>3
  <2> QED BY <2>1, <2>3
<1>6. T(h) \in Turns /\ row[T(h)] \in Rows /\ row[T(h)].state # "absent"
  BY <1>1, <1>2, OwnAttempt DEF Lone
<1>7. \A t \in Turns : /\ row'[t].mode = row[t].mode
                       /\ row'[t].state = "absent" <=> row[t].state = "absent"
                       /\ row[t].authorized => row'[t].authorized
  <2>1. row \in [Turns -> Rows]
    BY <1>1 DEF TypeOK
  <2>2. ASSUME NEW q \in Rows, row' = [row EXCEPT ![T(h)] = q], q.mode = row[T(h)].mode,
               q.state # "absent", row[T(h)].authorized => q.authorized
        PROVE  \A t \in Turns : /\ row'[t].mode = row[t].mode
                                /\ row'[t].state = "absent" <=> row[t].state = "absent"
                                /\ row[t].authorized => row'[t].authorized
    BY <1>6, <2>1, <2>2
  <2>3. CASE Authorize(h)
    <3>1. LET q == Authorized(row[T(h)]) IN
            q \in Rows /\ q.mode = row[T(h)].mode /\ q.authorized /\ q.state # "absent"
      BY <1>6, TransportWrites
    <3>2. row' = [row EXCEPT ![T(h)] = Authorized(row[T(h)])]
      BY <2>3 DEF Authorize
    <3> QED BY <2>2, <3>1, <3>2
  <2>4. CASE Intercept(h) \/ Process(h)
    BY <2>4 DEF Intercept, Process, control
  <2>5. CASE CompleteWrite(h)
    <3> DEFINE q == [row[T(h)] EXCEPT !.state = "completed", !.consumed = job[h].consumed,
                                      !.bundle = job[h].bundle]
    <3>1. row' = [row EXCEPT ![T(h)] = q]
      BY <2>5 DEF CompleteWrite, Update
    <3>2. job[h] \in Jobs
      BY <1>1 DEF TypeOK
    <3>3. /\ q \in Rows /\ q.mode = row[T(h)].mode /\ q.state # "absent"
          /\ q.authorized = row[T(h)].authorized
      BY <1>6, <3>2 DEF Rows, Jobs, States
    <3> HIDE DEF q
    <3> QED BY <2>2, <3>1, <3>3
  <2>6. CASE UnitWrite(h)
    <3> DEFINE q == [row[T(h)] EXCEPT !.unit = job[h].unit]
    <3>1. row' = [row EXCEPT ![T(h)] = q]
      BY <2>6 DEF UnitWrite, Update
    <3>2. job[h] \in Jobs
      BY <1>1 DEF TypeOK
    <3>3. /\ q \in Rows /\ q.mode = row[T(h)].mode /\ q.state = row[T(h)].state
          /\ q.authorized = row[T(h)].authorized
      BY <1>6, <3>2 DEF Rows, Jobs
    <3> HIDE DEF q
    <3> QED BY <1>6, <2>2, <3>1, <3>3
  <2> QED BY <2>3, <2>4, <2>5, <2>6
<1>8. \A g \in Handlers \ {h} : pc'[g] = pc[g]
  BY <1>1, <1>4 DEF TypeOK
<1>9. pc'[h] # "arm" /\ (pc'[h] \in {"intercept", "process"} =>
                           ~row[T(h)].authorized \/ pc[h] = "intercept")
  BY <1>1, <1>4 DEF TypeOK
<1>10. ASSUME NEW t \in Turns, Over(t) PROVE Over(t)'
  <2>1. row[t].authorized /\ row'[t].authorized
    BY <1>7, <1>10 DEF Over
  <2>2. ~Awaiting(t)'
    <3>1. pc[h] = "process" => T(h) # t
      BY <1>10 DEF Over
    <3>2. turn'[t] = turn[t]
      BY <1>3, <3>1
    <3> QED BY <1>10, <3>2 DEF Over, Awaiting
  <2>3. ASSUME NEW g \in Handlers, pc'[g] \in {"intercept", "process"}
        PROVE  job'[g].turn # t
    <3>1. CASE g = h
      BY <1>9, <1>10, <1>5, <2>1, <2>3, <3>1 DEF Over
    <3>2. CASE g # h
      BY <1>8, <1>10, <1>5, <2>3, <3>2 DEF Over, T
    <3> QED BY <3>1, <3>2
  <2> QED BY <2>1, <2>2, <2>3 DEF Over, T
<1>11. Settles
  BY <1>7, <1>10 DEF Settles, Live, Present
<1>12. ArmsStay
  BY <1>8, <1>9, <1>5 DEF ArmsStay
<1> QED BY <1>2, <1>11, <1>12

\* The steps of a request leave the units alone, but for the last one, and that
\* one records its own.
LEMMA RequestUnits ==
  ASSUME Inv, UnitsMatch, NEW h \in Handlers,
         Authorize(h) \/ Intercept(h) \/ Process(h) \/ CompleteWrite(h) \/ UnitWrite(h)
  PROVE  UnitsMatch'
<1>1. TypeOK /\ \A g \in Handlers : JobSound(g)
  BY DEF Inv
<1>2. /\ pc[h] \notin Lone
      /\ \E l \in {"intercept", "process", "complete", "receipt"} : pc' = [pc EXCEPT ![h] = l]
  BY DEF Authorize, Intercept, Process, CompleteWrite, UnitWrite, Update, Goto, Lone
<1>3. T(h) \in Turns /\ row[T(h)] \in Rows /\ job[h] \in Jobs /\ row \in [Turns -> Rows]
  BY <1>1, <1>2, OwnAttempt DEF TypeOK
<1>4. \A g \in Handlers : pc'[g] \in {"unit", "unit_write"} =>
        g # h /\ pc[g] \in {"unit", "unit_write"}
  BY <1>1, <1>2 DEF TypeOK
<1>5. \A g \in Handlers \ {h} : job'[g] = job[g]
  BY <1>1 DEF TypeOK, Authorize, Intercept, Process, CompleteWrite, UnitWrite, Update
<1>6. ASSUME NEW t \in Turns, row'[t].unit # None PROVE row'[t].unit = t
  <2>1. CASE Authorize(h)
    <3>1. /\ row' = [row EXCEPT ![T(h)] = Authorized(row[T(h)])]
          /\ Authorized(row[T(h)]).unit = row[T(h)].unit
      BY <1>3, <2>1, TransportWrites DEF Authorize
    <3>2. row'[t].unit = row[t].unit
      BY <1>3, <3>1
    <3> QED BY <1>6, <3>2 DEF UnitsMatch
  <2>2. CASE Intercept(h) \/ Process(h)
    BY <1>6, <2>2 DEF Intercept, Process, control, UnitsMatch
  <2>3. CASE CompleteWrite(h)
    <3> DEFINE q == [row[T(h)] EXCEPT !.state = "completed", !.consumed = job[h].consumed,
                                      !.bundle = job[h].bundle]
    <3>1. row' = [row EXCEPT ![T(h)] = q]
      BY <2>3 DEF CompleteWrite, Update
    <3>2. q.unit = row[T(h)].unit
      BY <1>3 DEF Rows
    <3> HIDE DEF q
    <3>3. row'[t].unit = row[t].unit
      BY <1>3, <3>1, <3>2
    <3> QED BY <1>6, <3>3 DEF UnitsMatch
  <2>4. CASE UnitWrite(h)
    <3> DEFINE q == [row[T(h)] EXCEPT !.unit = job[h].unit]
    <3>1. row' = [row EXCEPT ![T(h)] = q] /\ job[h].unit = T(h)
      BY <2>4 DEF UnitWrite, Update, UnitsMatch
    <3>2. q.unit = T(h)
      BY <1>3, <3>1 DEF Rows
    <3> HIDE DEF q
    <3>3. row'[t].unit = t \/ row'[t].unit = row[t].unit
      BY <1>3, <3>1, <3>2
    <3> QED BY <1>6, <3>3 DEF UnitsMatch
  <2> QED BY <2>1, <2>2, <2>3, <2>4
<1> QED BY <1>4, <1>5, <1>6 DEF UnitsMatch, T

\* An acceptance is of a new live attempt, the latest, when all others are over.
LEMMA AcceptSolo ==
  ASSUME Inv, SoloSound, UnitsMatch, NEW t \in Turns, NEW m \in Modes, Accept(t, m)
  PROVE  SoloSound' /\ UnitsMatch'
<1> DEFINE q == [NoRow EXCEPT !.mode = m, !.state = "accepted_pending_readiness"]
           l == [state |-> "consumed", rev |-> latch[m].rev + 1, turn |-> t]
<1>1. /\ latch[m].state = "armed" /\ row[t].state = "absent"
      /\ \A u \in Turns : Present(u) => u < t
      /\ latch' = [latch EXCEPT ![m] = l] /\ row' = [row EXCEPT ![t] = q]
      /\ turn' = turn /\ pc' = pc /\ job' = job
  BY DEF Accept, Attempts, Present, semantic
<1>2. row \in [Turns -> Rows] /\ latch \in [Modes -> Latches] /\ RowSound(t)
  BY DEF Inv, TypeOK
<1>3. q.mode = m /\ q.state # "absent" /\ q.unit = None
  BY DEF NoRow
<1>4. l.state = "consumed" /\ l.turn = t
  OBVIOUS
<1> HIDE DEF q, l
<1>5. row[t] = NoRow /\ ~row[t].authorized /\ ~Over(t) /\ ~Live(t)
  BY <1>1, <1>2 DEF RowSound, Present, NoRow, Over, Live
<1>6. \A u \in Turns : /\ u # t => row'[u] = row[u] /\ (Live(u)' <=> Live(u))
                       /\ Over(u) => Over(u)'
  <2>1. \A u \in Turns : u # t => row'[u] = row[u]
    BY <1>1, <1>2
  <2>2. \A u \in Turns : u # t => (Live(u)' <=> Live(u))
    BY <2>1 DEF Live, Present
  <2>3. \A u \in Turns : Over(u) => Over(u)'
    BY <1>1, <1>5, <2>1 DEF Over, Awaiting, T
  <2> QED BY <2>1, <2>2, <2>3
<1>7. UnitsMatch'
  <2>1. row'[t].unit = None
    BY <1>1, <1>2, <1>3
  <2> QED BY <1>1, <1>6, <2>1 DEF UnitsMatch, T
<1>8. CASE m = "live_canary"
  <2>1. \A u \in Turns : Live(u) => Over(u) /\ u < t
    BY <1>1, <1>8 DEF SoloSound, Live
  <2>2. latch'["live_canary"].state = "consumed" /\ latch'["live_canary"].turn = t
    BY <1>1, <1>2, <1>4, <1>8 DEF Modes
  <2>3. \A u \in Turns : Live(u)' => u <= t
    BY <1>6, <2>1, AttemptAssumption
  <2>4. Current(t)'
    BY <2>2, <2>3 DEF Current
  <2>5. \A u \in Turns : Live(u)' => Over(u)' \/ Current(u)'
    BY <1>6, <2>1, <2>4
  <2>6. \A g \in Handlers : ~(pc[g] = "arm" /\ job[g].mode = "live_canary")
    BY <1>1, <1>8 DEF SoloSound
  <2> QED BY <1>1, <1>7, <2>2, <2>5, <2>6 DEF SoloSound
<1>9. CASE m # "live_canary"
  <2>1. ~Live(t)'
    BY <1>1, <1>2, <1>3, <1>9 DEF Live
  <2>2. latch'["live_canary"] = latch["live_canary"]
    BY <1>1, <1>2, <1>9 DEF Modes
  <2>3. \A u \in Turns : Live(u)' <=> Live(u)
    BY <1>5, <1>6, <2>1
  <2>4. \A u \in Turns : Current(u) => Current(u)'
    BY <2>2, <2>3 DEF Current
  <2> QED BY <1>1, <1>6, <1>7, <2>2, <2>3, <2>4 DEF SoloSound
<1> QED BY <1>8, <1>9

\* What the doctor and the latch tell an arm command of the live mode: every
\* live attempt is over.
LEMMA ArmableIsOver ==
  ASSUME Inv, SoloSound, Doctor, Armable("live_canary"), NEW t \in Turns, Live(t)
  PROVE  Over(t)
<1>1. "live_canary" \in Modes
  BY DEF Modes
<1>2. CASE latch["live_canary"].state = "unarmed"
  <2>1. LatchMatches("live_canary")
    BY <1>1 DEF Doctor
  <2>2. {u \in Attempts : row[u].mode = "live_canary"} = {}
    BY <1>2, <2>1 DEF LatchMatches
  <2> QED BY <2>2 DEF Live, Present, Attempts
<1>3. CASE Rearmable("live_canary")
  <2> DEFINE u == latch["live_canary"].turn
  <2>1. row[u].state = "completed" /\ row[u].authorized /\ Terminal(u)
    BY <1>3 DEF Rearmable
  <2>2. \A g \in Handlers : pc[g] \in {"intercept", "process"} => T(g) # u
    BY <2>1 DEF Inv, CrossingSound, Crossing
  <2>3. Over(u)
    BY <2>1, <2>2 DEF Over, Terminal, Awaiting
  <2>4. Over(t) \/ t = u
    BY DEF SoloSound, Current
  <2> QED BY <2>3, <2>4
<1> QED BY <1>2, <1>3 DEF Armable

\* The arm commands, one at a time.
LEMMA CommandsSolo ==
  ASSUME Inv, SoloSound, NEW h \in Handlers, Command(h), OneArming'
  PROVE  SoloSound'
<1>0. TypeOK /\ (\A g \in Handlers : JobSound(g))
  BY DEF Inv
<1>1. Settles /\ job \in [Handlers -> Jobs] /\ pc \in [Handlers -> Steps]
  BY <1>0, CommandsCalm, CalmSettles DEF TypeOK
<1>2. latch \in [Modes -> Latches] /\ "live_canary" \in Modes
  BY <1>0 DEF TypeOK, Modes
<1>3. ASSUME NEW m \in Modes, ArmRead(h, m) PROVE SoloSound'
  <2> DEFINE j == [NoJob EXCEPT !.op = "arm", !.mode = m, !.latch = latch[m]]
  <2>1. /\ Doctor /\ Armable(m) /\ latch' = latch
        /\ pc' = [pc EXCEPT ![h] = "arm"] /\ job' = [job EXCEPT ![h] = j]
    BY <1>3 DEF ArmRead, Start, Goto, control
  <2>2. j.mode = m
    BY DEF NoJob
  <2> HIDE DEF j
  <2>3. \A g \in Handlers : pc'[g] = "arm" /\ job'[g].mode = "live_canary" =>
          m = "live_canary" \/ (pc[g] = "arm" /\ job[g].mode = "live_canary")
    BY <1>1, <2>1, <2>2
  <2>4. m = "live_canary" =>
          latch["live_canary"].state # "armed" /\ \A t \in Turns : Live(t) => Over(t)
    BY <2>1, ArmableIsOver DEF Armable, Rearmable
  <2>5. \A g \in Handlers : pc'[g] = "arm" /\ job'[g].mode = "live_canary" =>
          latch["live_canary"].state # "armed" /\ \A t \in Turns : Live(t) => Over(t)
    BY <2>3, <2>4 DEF SoloSound
  <2>6. \A t \in Turns : Current(t) => Current(t)'
    BY <1>1, <2>1 DEF Current, Settles
  <2> QED BY <1>1, <2>1, <2>5, <2>6 DEF SoloSound, Settles
<1>4. CASE ArmWrite(h)
  <2>1. /\ pc[h] = "arm" /\ latch' = [latch EXCEPT ![job[h].mode] = Armed(h)]
        /\ pc' = [pc EXCEPT ![h] = "arm_inner"] /\ job' = job
    BY <1>4 DEF ArmWrite, Goto
  <2>2. job[h].op = "arm" /\ \A g \in Handlers : pc[g] = "arm" => job[g].op = "arm"
    BY <1>0, <2>1 DEF JobSound
  <2>3. \A g \in Handlers : pc'[g] # "arm"
    BY <1>1, <2>1, <2>2 DEF OneArming
  <2>4. CASE job[h].mode = "live_canary"
    <3>1. \A t \in Turns : Live(t) => Over(t)
      BY <2>1, <2>4 DEF SoloSound
    <3> QED BY <1>1, <2>3, <3>1 DEF SoloSound, Settles
  <2>5. CASE job[h].mode # "live_canary"
    <3>1. latch'["live_canary"] = latch["live_canary"]
      BY <1>2, <2>1, <2>5
    <3>2. \A t \in Turns : Current(t) => Current(t)'
      BY <1>1, <3>1 DEF Current, Settles
    <3> QED BY <1>1, <2>3, <3>1, <3>2 DEF SoloSound, Settles
  <2> QED BY <2>4, <2>5
<1>5. CASE Restore(h)
  <2>1. /\ pc[h] = "restore"
        /\ latch' = [latch EXCEPT ![job[h].mode] = IF @ = Armed(h) THEN job[h].latch ELSE @]
        /\ pc' = [pc EXCEPT ![h] = "idle"] /\ job' = [job EXCEPT ![h] = NoJob]
    BY <1>5 DEF Restore, Leave, Goto
  <2>2. \A g \in Handlers : pc'[g] = "arm" => pc[g] = "arm" /\ job'[g] = job[g]
    BY <1>1, <2>1
  <2>3. CASE latch'["live_canary"] = latch["live_canary"]
    <3>1. \A t \in Turns : Current(t) => Current(t)'
      BY <1>1, <2>3 DEF Current, Settles
    <3> QED BY <1>1, <2>2, <2>3, <3>1 DEF SoloSound, Settles
  <2>4. CASE latch'["live_canary"] # latch["live_canary"]
    <3>1. latch["live_canary"] = Armed(h)
      BY <1>2, <2>1, <2>4
    <3>2. latch["live_canary"].state = "armed"
      BY <3>1 DEF Armed
    <3>3. /\ \A t \in Turns : Live(t) => Over(t)
          /\ \A g \in Handlers : ~(pc[g] = "arm" /\ job[g].mode = "live_canary")
      BY <3>2 DEF SoloSound
    <3> QED BY <1>1, <2>2, <3>3 DEF SoloSound, Settles
  <2> QED BY <2>3, <2>4
<1>6. CASE ArmInner(h) \/ ArmInnerFails(h) \/ ReviewRead(h) \/ ReviewWrite(h) \/ AttestRead(h)
           \/ AttestWrite(h)
  <2>1. /\ latch' = latch
        /\ \E l \in {"idle", "restore", "review", "attest"} : pc' = [pc EXCEPT ![h] = l]
        /\ \A g \in Handlers \ {h} : job'[g] = job[g]
    BY <1>1, <1>6 DEF ArmInner, ArmInnerFails, ReviewRead, ReviewWrite, AttestRead,
       AttestWrite, Start, Leave, Goto, control
  <2>2. ArmsStay
    BY <1>1, <2>1 DEF ArmsStay
  <2> QED BY <1>1, <2>1, <2>2, SettledKeeps
<1> QED BY <1>3, <1>4, <1>5, <1>6 DEF Command

\* Both choices of a sync meet: the turn that waits is its mode's only one, and
\* the latest attempt among the messages is no other.
LEMMA SyncSolo ==
  ASSUME Inv, SoloSound, UnitsMatch, NEW h \in Handlers, NEW P \in SUBSET Turns,
         SyncBind(h, P)
  PROVE  SoloSound' /\ UnitsMatch'
<1>1. row' = row /\ latch' = latch
  BY DEF SyncBind, control
<1>2. TypeOK /\ \A u \in Turns : RowSound(u)
  BY DEF Inv
<1>3. PICK t \in Turns, w \in Turns, j \in Jobs :
        /\ row[t].state # "absent" /\ row[w].state # "absent" /\ row[w].mode = row[t].mode
        /\ w <= t /\ Awaiting(w)
        /\ pc[h] = "idle" /\ pc' = [pc EXCEPT ![h] = "unit"]
        /\ job' = [job EXCEPT ![h] = j]
        /\ j.op \notin Operator /\ j.turn = t /\ j.unit = w /\ j.next = "idle" /\ ~j.bundle
        /\ turn' = [turn EXCEPT ![w] = "ready_to_apply_shadow_only"]
  BY SyncFinds
<1>4. /\ pc'[h] = "unit" /\ job'[h] = j
      /\ \A g \in Handlers \ {h} : pc'[g] = pc[g] /\ job'[g] = job[g]
  BY <1>2, <1>3 DEF TypeOK
<1>5. t = w
  <2>1. row[t].mode \in Modes
    BY <1>2, <1>3 DEF TypeOK, Rows
  <2>2. CASE row[t].mode = "rehearsal"
    BY <1>2, <1>3, <2>2 DEF RowSound
  <2>3. CASE row[t].mode = "live_canary"
    <3>1. Live(t) /\ Live(w) /\ ~Over(w)
      BY <1>3, <2>3 DEF Live, Present, Over
    <3>2. t <= w
      BY <3>1 DEF SoloSound, Current
    <3>3. t \in Nat /\ w \in Nat
      BY AttemptAssumption
    <3> QED BY <1>3, <3>2, <3>3
  <2> QED BY <2>1, <2>2, <2>3 DEF Modes
<1>6. UnitsMatch'
  BY <1>1, <1>3, <1>4, <1>5 DEF UnitsMatch, T
<1>7. \A u \in Turns : Awaiting(u)' => Awaiting(u)
  BY <1>2, <1>3 DEF TypeOK, Awaiting
<1>8. Settles
  BY <1>1, <1>4, <1>7 DEF Settles, Over, Live, Present, T
<1>9. ArmsStay
  BY <1>4 DEF ArmsStay
<1> QED BY <1>1, <1>6, <1>8, <1>9, SettledKeeps

\* At first nothing is live and nothing armed.
LEMMA SoloInit == Init => SoloInv
<1> SUFFICES ASSUME Init PROVE SoloInv
  OBVIOUS
<1>1. \A t \in Turns : row[t].state = "absent" /\ row[t].unit = None
  BY DEF Init, NoRow
<1>2. latch["live_canary"].state = "unarmed" /\ \A h \in Handlers : pc[h] = "idle"
  BY DEF Init, FreshLatch, Modes
<1> QED BY <1>1, <1>2, InvInit DEF SoloInv, SoloSound, UnitsMatch, Live, Present

\* A quiet step neither arms nor binds.
LEMMA QuietSolo ==
  ASSUME SoloSound, UnitsMatch, Quiet, latch' = latch
  PROVE  SoloSound' /\ UnitsMatch'
<1>1. Settles /\ UnitsStay
  BY CalmSettles DEF Quiet
<1>2. ArmsStay
  BY DEF Quiet, Tame, ArmsStay
<1> QED BY <1>1, <1>2, SettledKeeps, UnitsKept

\* No step of a request arms or binds a unit that is not its own.
LEMMA ContinueSolo ==
  ASSUME Inv, SoloSound, UnitsMatch, NEW h \in Handlers, Continue(h)
  PROVE  SoloSound' /\ UnitsMatch'
<1>1. CASE Authorize(h) \/ Intercept(h) \/ Process(h) \/ CompleteWrite(h) \/ UnitWrite(h)
  <2>1. Settles /\ ArmsStay /\ latch' = latch
    BY <1>1, RequestSettles
  <2>2. UnitsMatch'
    BY <1>1, RequestUnits
  <2> QED BY <2>1, <2>2, SettledKeeps
<1>2. CASE ~(Authorize(h) \/ Intercept(h) \/ Process(h) \/ CompleteWrite(h) \/ UnitWrite(h))
  <2>1. Quiet /\ latch' = latch
    BY <1>2, WritesQuiet, ReadsQuiet, ReceiptWriteQuiet, SemanticQuiet, ActivationQuiet,
       LeavesQuiet DEF Continue
  <2> QED BY <2>1, QuietSolo
<1> QED BY <1>1, <1>2

\* Nor does any step of the system, while arm commands come one at a time.
LEMMA SoloStep == SoloInv /\ [Next /\ OneArming']_vars => SoloInv'
<1> SUFFICES ASSUME Inv, SoloSound, UnitsMatch, [Next /\ OneArming']_vars
             PROVE  SoloSound' /\ UnitsMatch'
  BY InvStep DEF SoloInv
<1>1. ASSUME Enter(Turns) PROVE SoloSound' /\ UnitsMatch'
  <2>1. PICK t \in Turns : Preflight(t) \/ Lookup(t) \/ \E m \in Modes : Accept(t, m)
    BY <1>1 DEF Enter
  <2> QED BY <2>1, GlobalsQuiet, QuietSolo, AcceptSolo
<1>2. ASSUME NEW h \in Handlers, Serve(h, Turns) PROVE SoloSound' /\ UnitsMatch'
  <2>1. CASE \E t \in Turns : Handle(h, t)
    BY <2>1, RequestsQuiet, QuietSolo
  <2>2. CASE \E P \in SUBSET Turns : SyncBind(h, P)
    BY <2>2, SyncSolo
  <2> QED BY <1>2, <2>1, <2>2, ContinueSolo DEF Serve
<1>3. ASSUME NEW h \in Handlers, Command(h), OneArming' PROVE SoloSound' /\ UnitsMatch'
  BY <1>3, CommandsSolo, CommandsCalm, CalmSettles, UnitsKept
<1>4. ASSUME NEW h \in Handlers, Raise(h) PROVE SoloSound' /\ UnitsMatch'
  BY <1>4, RaiseQuiet, QuietSolo
<1>5. ASSUME Restart PROVE SoloSound' /\ UnitsMatch'
  BY <1>5, RestartQuiet, QuietSolo
<1>6. ASSUME UNCHANGED vars PROVE SoloSound' /\ UnitsMatch'
  <2>1. latch' = latch /\ row' = row /\ turn' = turn /\ pc' = pc /\ job' = job
    BY <1>6 DEF vars, control, semantic
  <2> QED BY <2>1 DEF SoloSound, UnitsMatch, Over, Live, Current, Present, Awaiting, T
<1> QED BY <1>1, <1>2, <1>3, <1>4, <1>5, <1>6 DEF Next

\* A unit is bound to the attempt it belongs to, although a sync chooses the
\* attempt and the waiting turn apart, as long as no arm command begins while
\* another is under way: then the next live turn is not let in before the last
\* one is over, and only the last one can wait for a unit.
THEOREM UnitsAreOwn == SoloSpec => []UnitIsOwn
<1>1. SoloInv => UnitIsOwn
  BY DEF SoloInv, Inv, RowSound, UnitsMatch, UnitIsOwn
<1> QED BY <1>1, SoloInit, SoloStep, PTL DEF SoloSpec

(***************************************************************************)
(* The corrective gate                                                     *)
(*                                                                         *)
(* The writes of an attempt compare nothing, so no state of an attempt can *)
(* be relied on; two things can.  The external count of an attempt never   *)
(* goes back, and the doctor that every authorisation asks finds exactly   *)
(* the latch's own turn accepted.                                          *)
(***************************************************************************)

\* An attempt's row; the bound on refusals is left out.
AttemptRows ==
  [state : {"accepted_pending_readiness", "readiness_failed", "ready", "dispatched"},
   ready : {"pending", "failed", "ready"}, evidence : BOOLEAN, effective : BOOLEAN,
   issued : BOOLEAN, external : {0, 1}, denied : Nat]

\* The receipts a thread may carry from its read to its write.
Reads == {ShortReceipt} \cup {FullReceipt(r) : r \in AttemptRows}

\* The operations of a thread that were begun for an accepted turn.
OfAccepted == {"copy", "copy_write", "activate", "probe", "authorize"}

Calls == [op : OfAccepted \cup {"idle", "arm", "unknown", "pass"},
          turn : CorrectiveTurns \cup {NoTurn}, purpose : Purposes, read : Reads]

\* Who works on which turn: a thread past its first look has a turn that was
\* accepted, as has whatever this process bound.
Grounded ==
  /\ attempts \in [Accepted -> AttemptRows]
  /\ call \in [Callers -> Calls]
  /\ DOMAIN passed = Accepted
  /\ bindings \subseteq Accepted
  /\ \A c \in Callers : call[c].op \in OfAccepted => Of(c) \in Accepted

\* A call that was let through is counted by its attempt for good.
CountedForGood == \A t \in Accepted : passed[t] # << >> => attempts[t].external = 1

CorrectiveInv == Grounded /\ CountedForGood /\ OneShot

\* What a step does to a turn that was accepted: it stays accepted, its external
\* count does not go back, and what was let through stays as it was.
AttemptsKept ==
  /\ attempts' \in [Accepted' -> AttemptRows]
  /\ DOMAIN passed' = Accepted'
  /\ Accepted \subseteq Accepted'
  /\ \A t \in Accepted :
       passed'[t] = passed[t] /\ (attempts[t].external = 1 => attempts'[t].external = 1)
  /\ \A t \in Accepted' \ Accepted : passed'[t] = << >>

\* A step that lets nothing through keeps what was let through one-shot.
LEMMA KeptIsOneShot ==
  ASSUME CountedForGood, OneShot, AttemptsKept
  PROVE  CountedForGood' /\ OneShot'
<1>1. ASSUME NEW t \in Accepted', passed'[t] # << >>
      PROVE  t \in Accepted /\ passed[t] = passed'[t] /\ attempts'[t].external = 1
  BY <1>1 DEF AttemptsKept, CountedForGood
<1>2. CountedForGood'
  BY <1>1 DEF CountedForGood
<1>3. ASSUME NEW t \in Accepted' PROVE passed'[t] \in {<< >>, <<"provider_agent_leg">>}
  BY <1>1 DEF OneShot
<1>4. ASSUME NEW t \in Accepted', NEW u \in Accepted', passed'[t] # << >>, passed'[u] # << >>
      PROVE  t = u
  BY <1>1, <1>4 DEF OneShot
<1> QED BY <1>2, <1>3, <1>4 DEF OneShot

\* A thread that takes up another operation, for a turn that was accepted if the
\* operation is of that kind.
LEMMA CallMoves ==
  ASSUME Grounded, NEW c \in Callers, NEW k \in Calls, call' = [call EXCEPT ![c] = k],
         k.op \in OfAccepted => k.turn \in Accepted, AttemptsKept, bindings' \subseteq Accepted'
  PROVE  Grounded'
BY DEF Grounded, AttemptsKept, Of

\* The ways a thread's variables change, each as one edit.
LEMMA CallEdits ==
  ASSUME NEW k \in Calls
  PROVE  /\ NoCall \in Calls
         /\ \A op \in OfAccepted \cup {"arm", "unknown", "pass"} :
              /\ [k EXCEPT !.op = op] \in Calls
              /\ [k EXCEPT !.op = op].op = op /\ [k EXCEPT !.op = op].turn = k.turn
         /\ \A op \in OfAccepted, t \in CorrectiveTurns :
              /\ [NoCall EXCEPT !.op = op, !.turn = t] \in Calls
              /\ [NoCall EXCEPT !.op = op, !.turn = t].turn = t
         /\ \A r \in AttemptRows :
              /\ [k EXCEPT !.op = "copy_write", !.read = FullReceipt(r)] \in Calls
              /\ [k EXCEPT !.op = "copy_write", !.read = FullReceipt(r)].turn = k.turn
<1>1. ShortReceipt \in Reads /\ \A r \in AttemptRows : FullReceipt(r) \in Reads
  BY DEF Reads
<1>2. NoCall \in Calls
  BY <1>1 DEF NoCall, Calls, Purposes
<1>3. \A op \in OfAccepted \cup {"arm", "unknown", "pass"} :
        /\ [k EXCEPT !.op = op] \in Calls
        /\ [k EXCEPT !.op = op].op = op /\ [k EXCEPT !.op = op].turn = k.turn
  BY DEF Calls
<1>4. \A op \in OfAccepted, t \in CorrectiveTurns :
        /\ [NoCall EXCEPT !.op = op, !.turn = t] \in Calls
        /\ [NoCall EXCEPT !.op = op, !.turn = t].turn = t
  BY <1>1 DEF NoCall, Calls, Purposes
<1>5. \A r \in AttemptRows :
        /\ [k EXCEPT !.op = "copy_write", !.read = FullReceipt(r)] \in Calls
        /\ [k EXCEPT !.op = "copy_write", !.read = FullReceipt(r)].turn = k.turn
  BY <1>1 DEF Calls, OfAccepted
<1> QED BY <1>2, <1>3, <1>4, <1>5

\* What a provider call begins with.
FirstLook(t, x, op) == [NoCall EXCEPT !.turn = t, !.purpose = x, !.op = op]

\* It is a thread's variables, of that turn and operation.
LEMMA CallBegins ==
  ASSUME NEW op \in OfAccepted \cup {"unknown", "pass"}, NEW t \in CorrectiveTurns,
         NEW x \in Purposes
  PROVE  /\ FirstLook(t, x, op) \in Calls
         /\ FirstLook(t, x, op).turn = t /\ FirstLook(t, x, op).op = op
<1>1. ShortReceipt \in Reads
  BY DEF Reads
<1> QED BY <1>1 DEF FirstLook, NoCall, Calls

\* The rewritten rows are rows, and only an authorisation touches the external
\* count.
LEMMA RowEdits ==
  ASSUME NEW r \in AttemptRows
  PROVE  /\ \A effective, evidence \in BOOLEAN :
              LET x == [r EXCEPT !.state = IF effective THEN "ready" ELSE "readiness_failed",
                                 !.ready = IF effective THEN "ready" ELSE "failed",
                                 !.evidence = evidence] IN
              x \in AttemptRows /\ x.external = r.external
         /\ \A effective, issued \in BOOLEAN :
              LET x == [r EXCEPT !.effective = effective, !.issued = issued] IN
              x \in AttemptRows /\ x.external = r.external
         /\ LET x == [r EXCEPT !.denied = @ + 1] IN x \in AttemptRows /\ x.external = r.external
         /\ LET x == [r EXCEPT !.state = "dispatched", !.external = 1] IN
            x \in AttemptRows /\ x.external = 1
<1> USE DEF AttemptRows
<1>1. ASSUME NEW effective \in BOOLEAN, NEW evidence \in BOOLEAN
      PROVE  LET x == [r EXCEPT !.state = IF effective THEN "ready" ELSE "readiness_failed",
                                !.ready = IF effective THEN "ready" ELSE "failed",
                                !.evidence = evidence] IN
             x \in AttemptRows /\ x.external = r.external
  OBVIOUS
<1>2. ASSUME NEW effective \in BOOLEAN, NEW issued \in BOOLEAN
      PROVE  LET x == [r EXCEPT !.effective = effective, !.issued = issued] IN
             x \in AttemptRows /\ x.external = r.external
  OBVIOUS
<1>3. LET x == [r EXCEPT !.denied = @ + 1] IN x \in AttemptRows /\ x.external = r.external
  OBVIOUS
<1>4. LET x == [r EXCEPT !.state = "dispatched", !.external = 1] IN
      x \in AttemptRows /\ x.external = 1
  OBVIOUS
<1> QED BY <1>1, <1>2, <1>3, <1>4

\* Rewriting the row of an accepted turn.
LEMMA AttemptRowWrite ==
  ASSUME Grounded, NEW t \in Accepted, NEW r \in AttemptRows,
         attempts[t].external = 1 => r.external = 1,
         attempts' = [attempts EXCEPT ![t] = r], passed' = passed
  PROVE  AttemptsKept /\ Accepted' = Accepted
BY DEF Grounded, AttemptsKept, Accepted

\* The first state: nothing accepted, nobody running.
LEMMA RInit == CorrectiveInit => CorrectiveInv
<1> SUFFICES ASSUME CorrectiveInit PROVE CorrectiveInv
  OBVIOUS
<1>1. DOMAIN attempts = {} /\ DOMAIN passed = {}
  BY DEF CorrectiveInit
<1>2. ShortReceipt \in Reads
  BY DEF Reads
<1>3. NoCall \in Calls /\ NoCall.op = "idle"
  BY <1>2 DEF NoCall, Calls, Purposes
<1>4. Grounded
  BY <1>1, <1>3 DEF CorrectiveInit, Grounded, OfAccepted, Accepted
<1> QED BY <1>1, <1>4 DEF CorrectiveInv, CountedForGood, OneShot, Accepted

\* A step that writes no attempt keeps everything on record.
LEMMA NothingWritten ==
  ASSUME Grounded, UNCHANGED <<attempts, passed>>
  PROVE  AttemptsKept /\ Accepted' = Accepted
BY DEF Grounded, AttemptsKept, Accepted

\* A thread that returns.
LEMMA Returns ==
  ASSUME Grounded, NEW c \in Callers, Return(c), AttemptsKept, bindings' \subseteq Accepted'
  PROVE  Grounded'
<1>1. NoCall \in Calls
  BY CallEdits DEF Grounded
<1> QED BY <1>1, CallMoves DEF Return, NoCall, OfAccepted

\* A thread that goes on with the turn it has.
LEMMA AnyCallSteps ==
  ASSUME Grounded, NEW c \in Callers, AttemptsKept, bindings' \subseteq Accepted',
         NEW op \in OfAccepted \cup {"arm", "unknown", "pass"}, Step(c, op),
         op \in OfAccepted => call[c].op \in OfAccepted
  PROVE  Grounded'
<1>1. call[c] \in Calls
  BY DEF Grounded
<1>2. PICK k \in Calls : k = [call[c] EXCEPT !.op = op] /\ k.op = op /\ k.turn = call[c].turn
  BY <1>1, CallEdits
<1>3. call' = [call EXCEPT ![c] = k]
  BY <1>2 DEF Step
<1>4. k.op \in OfAccepted => k.turn \in Accepted
  BY <1>2 DEF Grounded, Of
<1> QED BY <1>3, <1>4, CallMoves

\* Every step but an authorisation grounds what it leaves and lets nothing
\* through.
LEMMA UnauthorizedSteps ==
  ASSUME CorrectiveInv, [CorrectiveNext]_correctiveVars,
         \A c \in Callers : ~AuthorizeCall(c)
  PROVE  AttemptsKept /\ Grounded'
<1>a. Grounded /\ Accepted = DOMAIN attempts /\ bindings \subseteq Accepted
      /\ attempts \in [Accepted -> AttemptRows]
  BY DEF CorrectiveInv, Grounded, Accepted
<1>b. ASSUME UNCHANGED <<attempts, passed>>
      PROVE  AttemptsKept /\ Accepted' = Accepted
  BY <1>a, <1>b, NothingWritten
<1>c. \A t \in Accepted : attempts[t] \in AttemptRows
  BY <1>a
<1>1. CASE UNCHANGED correctiveVars
  BY <1>1, <1>a, <1>b DEF correctiveVars, Grounded, Of
<1>2. ASSUME NEW t \in CorrectiveTurns, AcceptCorrective(t) PROVE AttemptsKept /\ Grounded'
  <2>1. NewAttempt \in AttemptRows
    BY DEF NewAttempt, AttemptRows
  <2>2. Accepted' = Accepted \cup {t} /\ t \notin Accepted
    BY <1>2 DEF AcceptCorrective, Accepted
  <2>3. /\ attempts' \in [Accepted' -> AttemptRows]
        /\ \A u \in Accepted : attempts'[u] = attempts[u]
    BY <1>2, <1>a, <2>1, <2>2 DEF AcceptCorrective
  <2>4. /\ DOMAIN passed' = Accepted'
        /\ passed'[t] = << >>
        /\ \A u \in Accepted : passed'[u] = passed[u]
    BY <1>2, <2>2 DEF AcceptCorrective
  <2>5. AttemptsKept
    BY <2>2, <2>3, <2>4 DEF AttemptsKept
  <2>6. bindings' \subseteq Accepted' /\ call' = call
    BY <1>2, <1>a, <2>2 DEF AcceptCorrective
  <2> QED BY <1>a, <2>2, <2>3, <2>4, <2>5, <2>6 DEF Grounded, Of
<1>3. ASSUME NEW t \in CorrectiveTurns, LookupCorrective(t) PROVE AttemptsKept /\ Grounded'
  <2>1. AttemptsKept /\ Accepted' = Accepted /\ bindings' \subseteq Accepted' /\ call' = call
    BY <1>3, <1>a, <1>b DEF LookupCorrective
  <2> QED BY <2>1, <1>a, <1>3 DEF LookupCorrective, Grounded, Of, AttemptsKept
<1>4. ASSUME NEW c \in Callers, ArmForProofWrite(c) \/ CopyWrite(c) \/ RefuseUnhealthy(c)
                                \/ PassUngoverned(c)
      PROVE  AttemptsKept /\ Grounded'
  <2>1. AttemptsKept /\ bindings' \subseteq Accepted' /\ Return(c)
    BY <1>4, <1>a, <1>b
       DEF ArmForProofWrite, CopyWrite, RefuseUnhealthy, PassUngoverned
  <2> QED BY <2>1, <1>a, Returns
<1>5. ASSUME NEW c \in Callers, ArmForProof(c) \/ CallUnknown(c) \/ ProbeCall(c)
      PROVE  AttemptsKept /\ Grounded'
  <2>1. AttemptsKept /\ bindings' \subseteq Accepted'
    BY <1>5, <1>a, <1>b DEF ArmForProof, CallUnknown, ProbeCall
  <2>2. \/ Return(c)
        \/ Step(c, "arm") \/ Step(c, "pass")
        \/ Step(c, "authorize") /\ call[c].op = "probe"
    BY <1>5 DEF ArmForProof, CallUnknown, ProbeCall
  <2>3. CASE Return(c)
    BY <2>1, <2>3, <1>a, Returns
  <2>4. CASE Step(c, "arm") \/ Step(c, "pass")
    BY <2>1, <2>4, <1>a, AnyCallSteps DEF OfAccepted
  <2>5. CASE Step(c, "authorize") /\ call[c].op = "probe"
    BY <2>1, <2>5, <1>a, AnyCallSteps DEF OfAccepted
  <2> QED BY <2>1, <2>2, <2>3, <2>4, <2>5
<1>6. ASSUME NEW c \in Callers, CopyRead(c) PROVE AttemptsKept /\ Grounded'
  <2>1. AttemptsKept /\ bindings' \subseteq Accepted'
    BY <1>6, <1>a, <1>b DEF CopyRead
  <2>2. call[c] \in Calls /\ Of(c) \in Accepted /\ attempts[Of(c)] \in AttemptRows
    BY <1>6, <1>a DEF CopyRead, Grounded, OfAccepted
  <2>3. PICK k \in Calls : /\ k = [call[c] EXCEPT !.op = "copy_write",
                                                  !.read = FullReceipt(attempts[Of(c)])]
                           /\ k.turn = call[c].turn
    BY <2>2, CallEdits
  <2>4. call' = [call EXCEPT ![c] = k]
    BY <1>6, <1>a, <2>2, <2>3 DEF CopyRead, Grounded, Calls
  <2> QED BY <2>1, <2>2, <2>3, <2>4, <1>a, CallMoves DEF Of
<1>7. ASSUME NEW c \in Callers, NEW t \in CorrectiveTurns, InnerActivation(c, t)
      PROVE  AttemptsKept /\ Grounded'
  <2>1. AttemptsKept /\ bindings' \subseteq Accepted' /\ t \in Accepted
    BY <1>7, <1>a, <1>b DEF InnerActivation
  <2>2. PICK k \in Calls : k = [NoCall EXCEPT !.op = "activate", !.turn = t] /\ k.turn = t
    BY <1>a, CallEdits DEF OfAccepted, Grounded
  <2> QED BY <1>7, <2>1, <2>2, <1>a, CallMoves DEF InnerActivation
<1>8. ASSUME NEW c \in Callers, NEW t \in CorrectiveTurns, NEW x \in Purposes,
             BeginCall(c, t, x)
      PROVE  AttemptsKept /\ Grounded'
  <2>1. AttemptsKept /\ bindings' \subseteq Accepted'
    BY <1>8, <1>a, <1>b DEF BeginCall
  <2> DEFINE op == CASE t \in bindings -> "authorize"
                     [] t \notin bindings /\ ~switch -> "pass"
                     [] OTHER -> IF t \in Accepted THEN "probe" ELSE "unknown"
  <2>2. /\ op \in OfAccepted \cup {"unknown", "pass"}
        /\ op \in OfAccepted => t \in Accepted
    BY <1>a DEF OfAccepted
  <2>3. call' = [call EXCEPT ![c] = FirstLook(t, x, op)]
    BY <1>8 DEF BeginCall, FirstLook
  <2> HIDE DEF op
  <2>4. /\ FirstLook(t, x, op) \in Calls
        /\ FirstLook(t, x, op).turn = t /\ FirstLook(t, x, op).op = op
    BY <2>2, CallBegins
  <2> QED BY <2>1, <2>2, <2>3, <2>4, <1>a, CallMoves
<1>9. ASSUME NEW c \in Callers, NEW t \in CorrectiveTurns, NEW ready \in BOOLEAN,
             NEW evidence \in BOOLEAN, ReportReadiness(c, t, ready, evidence)
      PROVE  AttemptsKept /\ Grounded'
  <2>1. PICK r \in AttemptRows : /\ attempts' = [attempts EXCEPT ![t] = r]
                                 /\ r.external = attempts[t].external
    <3>1. t \in Accepted /\ (ready /\ evidence) \in BOOLEAN /\ attempts[t] \in AttemptRows
      BY <1>9, <1>c DEF ReportReadiness
    <3> DEFINE x == [attempts[t] EXCEPT
                       !.state = IF ready /\ evidence THEN "ready" ELSE "readiness_failed",
                       !.ready = IF ready /\ evidence THEN "ready" ELSE "failed",
                       !.evidence = evidence]
    <3>2. x \in AttemptRows /\ x.external = attempts[t].external
      BY <3>1, RowEdits
    <3>3. attempts' = [attempts EXCEPT ![t] = x]
      BY <1>9 DEF ReportReadiness
    <3> QED BY <3>2, <3>3
  <2>2. t \in Accepted /\ UNCHANGED <<passed, bindings>>
    BY <1>9 DEF ReportReadiness
  <2>3. AttemptsKept /\ Accepted' = Accepted
    BY <2>1, <2>2, <1>a, AttemptRowWrite
  <2>4. PICK k \in Calls : k = [NoCall EXCEPT !.op = "copy", !.turn = t] /\ k.turn = t
    BY <1>a, CallEdits DEF OfAccepted, Grounded
  <2> QED BY <1>9, <2>2, <2>3, <2>4, <1>a, CallMoves DEF ReportReadiness
<1>10. ASSUME NEW c \in Callers, InnerActivationWrite(c) PROVE AttemptsKept /\ Grounded'
  <2>1. Of(c) \in Accepted
    BY <1>10, <1>a DEF InnerActivationWrite, Grounded, OfAccepted
  <2>2. PICK r \in AttemptRows : /\ attempts' = [attempts EXCEPT ![Of(c)] = r]
                                 /\ r.external = attempts[Of(c)].external
    <3>1. attempts[Of(c)] \in AttemptRows
      BY <2>1, <1>c
    <3>2. PICK effective, issued \in BOOLEAN :
            attempts' = [attempts EXCEPT ![Of(c)] =
                           [attempts[Of(c)] EXCEPT !.effective = effective, !.issued = issued]]
      BY <1>10, <1>a, <2>1 DEF InnerActivationWrite
    <3> QED BY <3>1, <3>2, RowEdits
  <2>3. AttemptsKept /\ Accepted' = Accepted
    BY <1>10, <2>1, <2>2, <1>a, AttemptRowWrite DEF InnerActivationWrite
  <2> QED BY <1>10, <2>3, <1>a, AnyCallSteps DEF InnerActivationWrite, OfAccepted
<1>11. ASSUME NEW c \in Callers, DenyCall(c) PROVE AttemptsKept /\ Grounded'
  <2>1. Of(c) \in Accepted
    BY <1>11, <1>a DEF DenyCall, Grounded, OfAccepted
  <2>2. PICK r \in AttemptRows : /\ attempts' = [attempts EXCEPT ![Of(c)] = r]
                                 /\ r.external = attempts[Of(c)].external
    <3>1. attempts[Of(c)] \in AttemptRows
      BY <2>1, <1>c
    <3> QED BY <1>11, <3>1, RowEdits DEF DenyCall
  <2>3. AttemptsKept /\ Accepted' = Accepted
    BY <1>11, <2>1, <2>2, <1>a, AttemptRowWrite DEF DenyCall
  <2> QED BY <1>11, <2>3, <1>a, Returns DEF DenyCall
<1>12. CASE RestartCorrective
  <2>1. AttemptsKept /\ Accepted' = Accepted /\ bindings' = {}
    BY <1>12, <1>b DEF RestartCorrective
  <2>2. NoCall \in Calls /\ NoCall.op \notin OfAccepted
    BY <1>a, CallEdits DEF Grounded, NoCall, OfAccepted, Calls, Purposes, Reads
  <2> QED BY <1>12, <2>1, <2>2 DEF RestartCorrective, Grounded, AttemptsKept
<1> QED BY <1>1, <1>2, <1>3, <1>4, <1>5, <1>6, <1>7, <1>8, <1>9, <1>10, <1>11, <1>12
        DEF CorrectiveNext

\* An authorisation finds one accepted turn, the latch's, with nothing let
\* through yet, and counts what it lets through.
LEMMA AuthorizedStep ==
  ASSUME CorrectiveInv, NEW c \in Callers, AuthorizeCall(c)
  PROVE  CorrectiveInv'
<1>a. Grounded /\ CountedForGood /\ OneShot /\ Accepted = DOMAIN attempts
  BY DEF CorrectiveInv, Accepted
<1>1. PICK t : t = Of(c) /\ t \in Accepted
  BY <1>a DEF AuthorizeCall, Grounded, OfAccepted
<1>2. Accepted = {t}
  BY <1>1 DEF AuthorizeCall, CorrectiveDoctor, LatchHealthy
<1>3. /\ attempts[t] \in AttemptRows /\ attempts[t].external = 0
      /\ call[c].purpose = "provider_agent_leg"
  BY <1>1, <1>a DEF AuthorizeCall, Allowed, Grounded
<1>4. passed[t] = << >>
  BY <1>a, <1>1, <1>3 DEF CountedForGood
<1>5. PICK r \in AttemptRows : attempts' = [attempts EXCEPT ![t] = r] /\ r.external = 1
  BY <1>1, <1>3, RowEdits DEF AuthorizeCall
<1>6. attempts' \in [Accepted -> AttemptRows] /\ attempts'[t].external = 1
      /\ Accepted' = Accepted
  BY <1>5, <1>1, <1>a DEF Grounded, Accepted
<1>7. /\ DOMAIN passed' = Accepted
      /\ passed'[t] = <<"provider_agent_leg">>
  BY <1>1, <1>3, <1>4, <1>a DEF AuthorizeCall, Grounded
<1>8. CountedForGood' /\ OneShot'
  BY <1>2, <1>6, <1>7 DEF CountedForGood, OneShot
<1>9. Grounded'
  <2>1. NoCall \in Calls /\ NoCall.op \notin OfAccepted
    BY <1>a, CallEdits DEF Grounded, NoCall, OfAccepted, Calls, Purposes, Reads
  <2>2. /\ bindings' = bindings
        /\ call' = [call EXCEPT ![c] = NoCall]
    BY DEF AuthorizeCall, Return
  <2>3. /\ call' \in [Callers -> Calls]
        /\ \A d \in Callers : call'[d].op \in OfAccepted => call'[d] = call[d]
    BY <2>1, <2>2, <1>a DEF Grounded
  <2>4. bindings' \subseteq Accepted'
        /\ \A d \in Callers : call'[d].op \in OfAccepted => call'[d].turn \in Accepted'
    BY <2>2, <2>3, <1>6, <1>a DEF Grounded, Of
  <2> QED BY <2>3, <2>4, <1>6, <1>7 DEF Grounded, Of
<1> QED BY <1>8, <1>9 DEF CorrectiveInv

\* The corrective gate is one-shot: whatever its unguarded writes, repeated
\* reports, a latch armed again and restarts do, one provider call leaves under
\* it in all, and it is an agent leg (enforce_external_call_policy).
THEOREM CorrectiveIsOneShot == CorrectiveSpec => []OneShot
<1>1. CorrectiveInit => CorrectiveInv
  BY RInit
<1>2. CorrectiveInv /\ [CorrectiveNext]_correctiveVars => CorrectiveInv'
  <2> SUFFICES ASSUME CorrectiveInv, [CorrectiveNext]_correctiveVars PROVE CorrectiveInv'
    OBVIOUS
  <2>1. ASSUME NEW c \in Callers, AuthorizeCall(c) PROVE CorrectiveInv'
    BY <2>1, AuthorizedStep
  <2>2. CASE \A c \in Callers : ~AuthorizeCall(c)
    BY <2>2, UnauthorizedSteps, KeptIsOneShot DEF CorrectiveInv
  <2> QED BY <2>1, <2>2
<1>3. CorrectiveInv => OneShot
  BY DEF CorrectiveInv
<1> QED BY <1>1, <1>2, <1>3, PTL DEF CorrectiveSpec

=============================================================================
