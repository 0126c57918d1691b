---------------------- MODULE OutboxApplicationProofs ----------------------
(***************************************************************************)
(* For every number of workers, bundles and items, every lease length and  *)
(* every set of expected revisions, and without assuming that workers stop *)
(* before their lease ends: types, at most one application of a bundle,    *)
(* an "applied" marker only on top of a complete application, and rows the *)
(* doctor accepts unless a conflict was recorded over an application.      *)
(* Where no worker outlives its lease, the outbox implements BundleOutcome *)
(* and the doctor accepts all of it: whoever is inside apply() then holds  *)
(* the lease of its bundle, so nobody else has come in between.            *)
(* And what is inside a bundle, for any answers, contexts and interference *)
(* of others: what is applied is what was accepted, on the item as it was  *)
(* offered.                                                                *)
(***************************************************************************)
EXTENDS OutboxApplication, IntentApplication, TLAPS

\* A worker inside apply() works on a bundle of the outbox, and a conflict has
\* a reason.
AtWork ==
  \A w \in Workers : /\ pc[w] # "idle" => job[w].bundle \in Bundles
                     /\ pc[w] = "conflict" => job[w].reason \in Reasons

\* The bundle receipt is written with the operations it stands for.
EffectsCounted ==
  \A b \in Bundles : effects[b] = IF b \in committed THEN 1 ELSE 0

Complete(b) == b \in committed /\ {"atomic", "semantic", "coverage"} \subseteq receipts[b]

\* What a worker that has passed the working-set transaction can rely on,
\* whatever the others have done since: nothing is ever removed.
EvidenceOf(w) ==
  /\ pc[w] \in {"atomic", "semantic", "coverage"} => job[w].bundle \in committed
  /\ pc[w] \in {"semantic", "coverage"} => "atomic" \in receipts[job[w].bundle]
  /\ pc[w] = "coverage" => "semantic" \in receipts[job[w].bundle]
  /\ pc[w] = "conflict" => job[w].final = "conflict_recorded"
  /\ pc[w] \in {"mark_read", "mark_row", "mark_write"} /\ job[w].final = "applied"
       => Complete(job[w].bundle)

Gathered == \A w \in Workers : EvidenceOf(w)

IInv == TypeOK /\ AtWork /\ EffectsCounted /\ Gathered /\ AppliedIsComplete

Jobs == [bundle : Bundles \cup {None}, now : Time,
         final : {"applied", "conflict_recorded"},
         reason : Reasons \cup {None}, attempts : Nat, row : Nat]

LEMMA ZeroIsATime == 0 \in Time
BY BoundAssumption DEF Time

LEMMA NoJobType == NoJob \in Jobs
BY ZeroIsATime DEF NoJob, Jobs

\* Leaving apply() changes this worker's place and job, and nothing else of
\* either.
LEMMA LeaveFacts ==
  ASSUME TypeOK, NEW w \in Workers, Leave(w)
  PROVE  /\ pc' \in [Workers -> PCs] /\ pc'[w] = "idle"
         /\ job' \in [Workers -> Jobs]
         /\ \A v \in Workers \ {w} : pc'[v] = pc[v] /\ job'[v] = job[v]
         /\ AtWork => AtWork'
<1>1. /\ pc' \in [Workers -> PCs] /\ pc'[w] = "idle"
      /\ \A v \in Workers \ {w} : pc'[v] = pc[v] /\ job'[v] = job[v]
  BY DEF TypeOK, Leave, PCs
<1>2. job' \in [Workers -> Jobs]
  BY NoJobType DEF TypeOK, Leave, Jobs
<1>3. AtWork => AtWork'
  BY <1>1 DEF AtWork
<1> QED BY <1>1, <1>2, <1>3

\* The initial state satisfies the inductive invariant.
LEMMA InitIInv == Init => IInv
<1> SUFFICES ASSUME Init PROVE IInv
  OBVIOUS
<1>1. TypeOK
  BY ZeroIsATime, NoJobType, BoundAssumption
     DEF Init, TypeOK, States, PCs, NoLease, Keys, Jobs
<1>2. AtWork /\ EffectsCounted /\ Gathered /\ AppliedIsComplete
  BY DEF Init, AtWork, EffectsCounted, Gathered, EvidenceOf, AppliedIsComplete
<1> QED BY <1>1, <1>2 DEF IInv

\* The type invariant is inductive together with AtWork.
LEMMA TypeStep == TypeOK /\ AtWork /\ [Next]_vars => TypeOK' /\ AtWork'
<1> SUFFICES ASSUME TypeOK, AtWork, [Next]_vars PROVE TypeOK' /\ AtWork'
  OBVIOUS
<1> USE DEF vars, outboxVars, workingSet
<1>1. CASE UNCHANGED vars
  BY <1>1 DEF TypeOK, AtWork
<1>2. CASE Tick
  BY <1>2, BoundAssumption DEF Tick, TypeOK, AtWork
<1>3. ASSUME NEW i \in Items, OtherAuthor(i) PROVE TypeOK' /\ AtWork'
  BY <1>3 DEF OtherAuthor, TypeOK, AtWork
<1>4. ASSUME NEW w \in Workers, NEW b \in Bundles, Begin(w, b)
      PROVE  /\ pc' \in [Workers -> PCs]
             /\ job' \in [Workers -> Jobs]
             /\ AtWork'
  <2>1. clock \in Time
    BY BoundAssumption DEF TypeOK, Time
  <2>2. [NoJob EXCEPT !.bundle = b, !.now = clock] \in Jobs
    BY <2>1, NoJobType DEF Jobs, NoJob
  <2>3. pc' \in [Workers -> PCs] /\ job' \in [Workers -> Jobs]
    BY <1>4, <2>2 DEF Begin, Goto, TypeOK, Jobs, PCs
  <2>4. /\ job'[w].bundle = b /\ pc'[w] = "verify"
        /\ \A v \in Workers \ {w} : pc'[v] = pc[v] /\ job'[v] = job[v]
    BY <1>4 DEF Begin, Goto, TypeOK, NoJob
  <2> QED BY <2>3, <2>4 DEF AtWork
<1>5. ASSUME NEW w \in Workers, NEW b \in Bundles, NEW n \in Nat, GrantLease(w, b, n)
      PROVE  /\ bundle' \in [Bundles -> [state : States, attempts : Nat, revision : Nat, updated : Time]]
             /\ lease' \in [Bundles -> [token : Workers \cup {None}, expires : Time, revision : Nat, attempt : Nat]]
  BY <1>5, BoundAssumption DEF GrantLease, TypeOK, States, Time
<1>6. ASSUME NEW w \in Workers, NEW b \in Bundles,
             AcquireFirst(w, b) \/ AcquireAgain(w, b) \/ AcquireExpired(w, b)
      PROVE  TypeOK' /\ AtWork'
  <2>1. Begin(w, b)
    BY <1>6 DEF AcquireFirst, AcquireAgain, AcquireExpired
  <2>2. \/ GrantLease(w, b, 1) \/ GrantLease(w, b, 2) \/ UNCHANGED <<bundle, lease>>
    BY <1>6 DEF AcquireFirst, AcquireAgain, AcquireExpired
  <2>3. /\ bundle' \in [Bundles -> [state : States, attempts : Nat, revision : Nat, updated : Time]]
        /\ lease' \in [Bundles -> [token : Workers \cup {None}, expires : Time, revision : Nat, attempt : Nat]]
    BY <2>2, <1>5 DEF TypeOK
  <2>4. UNCHANGED <<clock, receipts, applied, workingSet>>
    BY <2>1 DEF Begin
  <2> QED BY <2>1, <1>4, <2>3, <2>4 DEF TypeOK, Jobs
\* The steps that return or raise without writing anything.
<1>7. ASSUME NEW w \in Workers,
             \/ VerifyFails(w) \/ ConflictReceiptRefused(w) \/ MarkRefused(w)
             \/ MarkLost(w) \/ Stop(w)
      PROVE  TypeOK' /\ AtWork'
  <2>1. Leave(w) /\ UNCHANGED <<clock, outboxVars, workingSet>>
    BY <1>7 DEF VerifyFails, ConflictReceiptRefused, MarkRefused, MarkLost, Stop
  <2>2. TypeOK'
    BY <2>1, LeaveFacts DEF TypeOK, Jobs
  <2> QED BY <2>1, <2>2, LeaveFacts
\* The steps that only read.
<1>8. ASSUME NEW w \in Workers,
             Verify(w) \/ Lookup(w) \/ PreflightPasses(w) \/ CommitReplays(w)
      PROVE  TypeOK' /\ AtWork'
  <2>1. /\ pc[w] # "idle"
        /\ \E l \in {"lookup", "commit", "preflight", "atomic"} : Goto(w, l)
        /\ UNCHANGED <<clock, outboxVars, workingSet, job>>
    BY <1>8 DEF Verify, Lookup, PreflightPasses, CommitReplays
  <2> QED BY <2>1 DEF Goto, TypeOK, AtWork, PCs
<1>9. ASSUME NEW w \in Workers, PreflightConflicts(w) \/ CommitConflicts(w)
      PROVE  TypeOK' /\ AtWork'
  <2>1. PICK reason \in Reasons : Conflict(w, reason)
    BY <1>9 DEF PreflightConflicts, CommitConflicts, Reasons
  <2>2. UNCHANGED <<clock, outboxVars, workingSet>> /\ pc[w] # "idle"
    BY <1>9 DEF PreflightConflicts, CommitConflicts
  <2>3. pc' \in [Workers -> PCs] /\ job' \in [Workers -> Jobs]
    <3>1. pc' \in [Workers -> PCs]
      BY <2>1 DEF Conflict, Goto, TypeOK, PCs
    <3>2. job \in [Workers -> Jobs] /\ job[w] \in Jobs
      BY DEF TypeOK, Jobs
    <3>3. [job[w] EXCEPT !.reason = reason, !.final = "conflict_recorded"] \in Jobs
      BY <3>2 DEF Jobs
    <3>4. job' = [job EXCEPT ![w] = [job[w] EXCEPT !.reason = reason,
                                                  !.final = "conflict_recorded"]]
      BY <2>1, <3>2, Zenon DEF Conflict
    <3> QED BY <3>1, <3>2, <3>3, <3>4
  <2>4. /\ pc'[w] = "conflict" /\ job'[w].reason = reason
        /\ job'[w].bundle = job[w].bundle
        /\ \A v \in Workers \ {w} : pc'[v] = pc[v] /\ job'[v] = job[v]
    BY <2>1 DEF Conflict, Goto, TypeOK
  <2>5. AtWork'
    BY <2>2, <2>4 DEF AtWork
  <2> QED BY <2>2, <2>3, <2>5 DEF TypeOK, Jobs
<1>10. ASSUME NEW w \in Workers, CommitFresh(w) PROVE TypeOK' /\ AtWork'
  BY <1>10 DEF CommitFresh, CommitOperations, Goto, TypeOK, AtWork, PCs
<1>11. ASSUME NEW w \in Workers, StoreReceipt(w) PROVE TypeOK' /\ AtWork'
  BY <1>11 DEF StoreReceipt, NextKey, Keys, Goto, TypeOK, AtWork, PCs
<1>12. ASSUME NEW w \in Workers, StoreConflictReceipt(w) PROVE TypeOK' /\ AtWork'
  BY <1>12 DEF StoreConflictReceipt, Keys, Goto, TypeOK, AtWork, PCs
<1>13. ASSUME NEW w \in Workers, MarkRead(w) \/ MarkRow(w) PROVE TypeOK' /\ AtWork'
  <2>1. job[w].bundle \in Bundles
    BY <1>13 DEF MarkRead, MarkRow, AtWork
  <2>2. bundle[job[w].bundle].attempts \in Nat /\ bundle[job[w].bundle].revision \in Nat
    BY <2>1 DEF TypeOK
  <2>3. pc' \in [Workers -> PCs] /\ job' \in [Workers -> Jobs]
    <3>1. pc' \in [Workers -> PCs]
      BY <1>13 DEF MarkRead, MarkRow, Goto, TypeOK, PCs
    <3>2. job \in [Workers -> Jobs] /\ job[w] \in Jobs
      BY DEF TypeOK, Jobs
    <3>3. \A n \in Nat : /\ [job[w] EXCEPT !.attempts = n] \in Jobs
                         /\ [job[w] EXCEPT !.row = n] \in Jobs
      BY <3>2 DEF Jobs
    <3>4. \/ job' = [job EXCEPT ![w] = [job[w] EXCEPT !.attempts = bundle[job[w].bundle].attempts]]
          \/ job' = [job EXCEPT ![w] = [job[w] EXCEPT !.row = bundle[job[w].bundle].revision]]
      BY <1>13, <3>2, Zenon DEF MarkRead, MarkRow
    <3> QED BY <2>2, <3>1, <3>2, <3>3, <3>4
  <2>4. /\ pc'[w] \in {"mark_row", "mark_write"} /\ job'[w].bundle = job[w].bundle
        /\ \A v \in Workers \ {w} : pc'[v] = pc[v] /\ job'[v] = job[v]
        /\ UNCHANGED <<clock, outboxVars, workingSet>>
    BY <1>13 DEF MarkRead, MarkRow, Goto, TypeOK
  <2>5. AtWork'
    BY <2>1, <2>4 DEF AtWork
  <2> QED BY <2>3, <2>4, <2>5 DEF TypeOK, Jobs
<1>14. ASSUME NEW w \in Workers, MarkWrite(w) PROVE TypeOK' /\ AtWork'
  <2> DEFINE b == job[w].bundle
  <2>1. b \in Bundles /\ job[w].now \in Time
    BY <1>14 DEF MarkWrite, AtWork, TypeOK
  <2>2. [state |-> job[w].final, attempts |-> job[w].attempts,
         revision |-> job[w].row + 1, updated |-> job[w].now]
          \in [state : States, attempts : Nat, revision : Nat, updated : Time]
    BY <2>1 DEF TypeOK, States
  <2>3. bundle' \in [Bundles -> [state : States, attempts : Nat, revision : Nat, updated : Time]]
    BY <1>14, <2>1, <2>2 DEF MarkWrite, TypeOK
  <2>4. lease' \in [Bundles -> [token : Workers \cup {None}, expires : Time, revision : Nat, attempt : Nat]]
    BY <1>14, <2>1, ZeroIsATime DEF MarkWrite, TypeOK, NoLease
  <2>5. applied' \subseteq Bundles
    BY <1>14, <2>1 DEF MarkWrite, TypeOK
  <2>6. Leave(w) /\ UNCHANGED <<clock, receipts, workingSet>>
    BY <1>14 DEF MarkWrite
  <2>7. TypeOK'
    BY <2>3, <2>4, <2>5, <2>6, LeaveFacts DEF TypeOK, Jobs
  <2> QED BY <2>6, <2>7, LeaveFacts
<1> QED
  BY <1>1, <1>2, <1>3, <1>6, <1>7, <1>8, <1>9, <1>10, <1>11, <1>12, <1>13, <1>14
     DEF Next, WorkerStep

\* What another worker holds as evidence survives every step that only adds.
LEMMA EvidenceSurvives ==
  ASSUME AtWork, NEW v \in Workers, EvidenceOf(v),
         pc'[v] = pc[v], job'[v] = job[v],
         committed \subseteq committed',
         \A b \in Bundles : receipts[b] \subseteq receipts'[b]
  PROVE  EvidenceOf(v)'
BY DEF AtWork, EvidenceOf, Complete

\* The rest of the invariant is inductive.
LEMMA EvidenceStep ==
  IInv /\ [Next]_vars => EffectsCounted' /\ Gathered' /\ AppliedIsComplete'
<1> SUFFICES ASSUME IInv, [Next]_vars
             PROVE  EffectsCounted' /\ Gathered' /\ AppliedIsComplete'
  OBVIOUS
<1> USE DEF vars, outboxVars, workingSet, IInv
\* A step that leaves the working set, the receipts and the bundles alone, and
\* changes one worker at most, has to re-establish that worker's evidence only.
<1>1. ASSUME NEW w \in Workers, EvidenceOf(w)',
             UNCHANGED <<receipts, committed, effects>>,
             \A b \in Bundles : bundle'[b].state = "applied" => bundle[b].state = "applied",
             \A v \in Workers \ {w} : pc'[v] = pc[v] /\ job'[v] = job[v]
      PROVE  EffectsCounted' /\ Gathered' /\ AppliedIsComplete'
  <2>1. \A v \in Workers \ {w} : EvidenceOf(v)'
    BY <1>1, EvidenceSurvives DEF Gathered
  <2>2. Gathered'
    BY <1>1, <2>1 DEF Gathered
  <2>3. EffectsCounted' /\ AppliedIsComplete'
    BY <1>1 DEF EffectsCounted, AppliedIsComplete
  <2> QED BY <2>2, <2>3
<1>2. CASE UNCHANGED vars
  BY <1>2 DEF EffectsCounted, Gathered, EvidenceOf, Complete, AppliedIsComplete
<1>3. CASE Tick
  BY <1>3 DEF Tick, EffectsCounted, Gathered, EvidenceOf, Complete, AppliedIsComplete
<1>4. ASSUME NEW i \in Items, OtherAuthor(i)
      PROVE  EffectsCounted' /\ Gathered' /\ AppliedIsComplete'
  BY <1>4 DEF OtherAuthor, EffectsCounted, Gathered, EvidenceOf, Complete, AppliedIsComplete
<1>5. ASSUME NEW w \in Workers, NEW b \in Bundles,
             AcquireFirst(w, b) \/ AcquireAgain(w, b) \/ AcquireExpired(w, b)
      PROVE  EffectsCounted' /\ Gathered' /\ AppliedIsComplete'
  <2>1. Begin(w, b)
    BY <1>5 DEF AcquireFirst, AcquireAgain, AcquireExpired
  <2>2. \A c \in Bundles : bundle'[c].state = "applied" => bundle[c].state = "applied"
    <3>1. ASSUME NEW n \in {1, 2}, GrantLease(w, b, n)
          PROVE  \A c \in Bundles : bundle'[c].state = "applied" => bundle[c].state = "applied"
      <4>1. bundle'[b].state = "applying" /\ \A c \in Bundles \ {b} : bundle'[c] = bundle[c]
        BY <3>1 DEF GrantLease, TypeOK
      <4> QED BY <4>1
    <3> QED BY <1>5, <3>1 DEF AcquireFirst, AcquireAgain, AcquireExpired
  <2>3. /\ pc'[w] = "verify"
        /\ \A v \in Workers \ {w} : pc'[v] = pc[v] /\ job'[v] = job[v]
        /\ UNCHANGED <<receipts, committed, effects>>
    BY <2>1 DEF Begin, Goto, TypeOK
  <2>4. EvidenceOf(w)'
    BY <2>3 DEF EvidenceOf
  <2> QED BY <1>1, <2>2, <2>3, <2>4
<1>6. ASSUME NEW w \in Workers,
             \/ VerifyFails(w) \/ ConflictReceiptRefused(w) \/ MarkRefused(w)
             \/ MarkLost(w) \/ Stop(w)
      PROVE  EffectsCounted' /\ Gathered' /\ AppliedIsComplete'
  <2>1. Leave(w) /\ UNCHANGED <<clock, outboxVars, workingSet>>
    BY <1>6 DEF VerifyFails, ConflictReceiptRefused, MarkRefused, MarkLost, Stop
  <2>2. EvidenceOf(w)'
    BY <2>1, LeaveFacts DEF EvidenceOf
  <2> QED BY <1>1, <2>1, <2>2, LeaveFacts
<1>7. ASSUME NEW w \in Workers,
             Verify(w) \/ Lookup(w) \/ PreflightPasses(w) \/ CommitReplays(w)
      PROVE  EffectsCounted' /\ Gathered' /\ AppliedIsComplete'
  <2>1. /\ pc'[w] \in {"lookup", "commit", "preflight", "atomic"}
        /\ pc'[w] = "atomic" => job[w].bundle \in committed
        /\ \A v \in Workers \ {w} : pc'[v] = pc[v]
        /\ UNCHANGED <<clock, outboxVars, workingSet, job>>
    BY <1>7 DEF Verify, Lookup, PreflightPasses, CommitReplays, Goto, TypeOK
  <2>2. EvidenceOf(w)'
    BY <2>1 DEF EvidenceOf
  <2> QED BY <1>1, <2>1, <2>2
<1>8. ASSUME NEW w \in Workers, PreflightConflicts(w) \/ CommitConflicts(w)
      PROVE  EffectsCounted' /\ Gathered' /\ AppliedIsComplete'
  <2>1. /\ pc'[w] = "conflict" /\ job'[w].final = "conflict_recorded"
        /\ \A v \in Workers \ {w} : pc'[v] = pc[v] /\ job'[v] = job[v]
        /\ UNCHANGED <<clock, outboxVars, workingSet>>
    BY <1>8 DEF PreflightConflicts, CommitConflicts, Conflict, Goto, TypeOK
  <2>2. EvidenceOf(w)'
    BY <2>1 DEF EvidenceOf
  <2> QED BY <1>1, <2>1, <2>2
<1>9. ASSUME NEW w \in Workers, CommitFresh(w)
      PROVE  EffectsCounted' /\ Gathered' /\ AppliedIsComplete'
  <2>1. /\ job[w].bundle \in Bundles \ committed
        /\ committed' = committed \cup {job[w].bundle}
        /\ effects' = [effects EXCEPT ![job[w].bundle] = @ + 1]
        /\ pc'[w] = "atomic" /\ \A v \in Workers \ {w} : pc'[v] = pc[v]
        /\ UNCHANGED <<bundle, receipts, job>>
    BY <1>9 DEF CommitFresh, CommitOperations, Goto, TypeOK, AtWork
  <2>2. EffectsCounted'
    BY <2>1 DEF EffectsCounted, TypeOK
  <2>3. EvidenceOf(w)'
    BY <2>1 DEF EvidenceOf
  <2>4. \A v \in Workers \ {w} : EvidenceOf(v)'
    BY <2>1, EvidenceSurvives DEF Gathered
  <2>5. AppliedIsComplete'
    BY <2>1 DEF AppliedIsComplete
  <2> QED BY <2>2, <2>3, <2>4, <2>5 DEF Gathered
<1>10. ASSUME NEW w \in Workers, StoreReceipt(w) \/ StoreConflictReceipt(w)
       PROVE  EffectsCounted' /\ Gathered' /\ AppliedIsComplete'
  <2>1. job[w].bundle \in Bundles /\ UNCHANGED <<bundle, committed, effects, job>>
    BY <1>10 DEF StoreReceipt, StoreConflictReceipt, NextKey, AtWork
  <2>2. \A b \in Bundles : receipts[b] \subseteq receipts'[b]
    BY <1>10, <2>1 DEF StoreReceipt, StoreConflictReceipt, TypeOK
  <2>3. \A v \in Workers \ {w} : pc'[v] = pc[v]
    BY <1>10 DEF StoreReceipt, StoreConflictReceipt, Goto, TypeOK
  <2>4. ASSUME StoreConflictReceipt(w) PROVE EvidenceOf(w)'
    <3>1. pc[w] = "conflict" /\ pc'[w] = "mark_read"
      BY <2>4 DEF StoreConflictReceipt, Goto, TypeOK
    <3> QED BY <2>1, <3>1 DEF Gathered, EvidenceOf
  <2>5. ASSUME StoreReceipt(w) PROVE EvidenceOf(w)'
    <3>1. pc[w] \in receipts'[job[w].bundle] /\ pc'[w] = NextKey[pc[w]]
      BY <2>1, <2>5 DEF StoreReceipt, Goto, TypeOK
    <3> QED BY <2>1, <2>2, <2>5, <3>1 DEF StoreReceipt, NextKey, Gathered, EvidenceOf, Complete
  <2>6. EvidenceOf(w)'
    BY <1>10, <2>4, <2>5
  <2>7. \A v \in Workers \ {w} : EvidenceOf(v)'
    BY <2>1, <2>2, <2>3, EvidenceSurvives DEF Gathered
  <2>8. EffectsCounted' /\ AppliedIsComplete'
    BY <2>1, <2>2 DEF EffectsCounted, AppliedIsComplete
  <2> QED BY <2>6, <2>7, <2>8 DEF Gathered
<1>11. ASSUME NEW w \in Workers, MarkRead(w) \/ MarkRow(w)
       PROVE  EffectsCounted' /\ Gathered' /\ AppliedIsComplete'
  <2>1. /\ pc[w] \in {"mark_read", "mark_row"} /\ pc'[w] \in {"mark_row", "mark_write"}
        /\ job'[w].final = job[w].final /\ job'[w].bundle = job[w].bundle
        /\ \A v \in Workers \ {w} : pc'[v] = pc[v] /\ job'[v] = job[v]
        /\ UNCHANGED <<clock, outboxVars, workingSet>>
    BY <1>11 DEF MarkRead, MarkRow, Goto, TypeOK
  <2>2. EvidenceOf(w)'
    BY <2>1 DEF Gathered, EvidenceOf, Complete
  <2> QED BY <1>1, <2>1, <2>2
<1>12. ASSUME NEW w \in Workers, MarkWrite(w)
       PROVE  EffectsCounted' /\ Gathered' /\ AppliedIsComplete'
  <2>1. /\ pc[w] = "mark_write" /\ job[w].bundle \in Bundles
        /\ UNCHANGED <<receipts, committed, effects>> /\ Leave(w)
    BY <1>12 DEF MarkWrite, AtWork
  <2>2. /\ bundle'[job[w].bundle].state = job[w].final
        /\ \A c \in Bundles \ {job[w].bundle} : bundle'[c] = bundle[c]
    BY <1>12, <2>1 DEF MarkWrite, TypeOK
  <2>3. AppliedIsComplete'
    BY <2>1, <2>2 DEF Gathered, EvidenceOf, Complete, AppliedIsComplete
  <2>4. EvidenceOf(w)'
    BY <2>1, LeaveFacts DEF EvidenceOf
  <2>5. \A v \in Workers \ {w} : EvidenceOf(v)'
    BY <2>1, LeaveFacts, EvidenceSurvives DEF Gathered
  <2>6. EffectsCounted'
    BY <2>1 DEF EffectsCounted
  <2> QED BY <2>3, <2>4, <2>5, <2>6 DEF Gathered
<1> QED
  BY <1>2, <1>3, <1>4, <1>5, <1>6, <1>7, <1>8, <1>9, <1>10, <1>11, <1>12
     DEF Next, WorkerStep

LEMMA Inductive == Spec => []IInv
<1>1. IInv /\ [Next]_vars => IInv'
  BY TypeStep, EvidenceStep DEF IInv
<1> QED BY <1>1, InitIInv, PTL DEF Spec

\* Every reachable state of the outbox and of its workers is well typed: in
\* particular no worker loses the bundle, the time stamp or the reason that
\* apply() was called with.
THEOREM OutboxTypeCorrect == Spec => []TypeOK
<1>1. IInv => TypeOK
  BY DEF IInv
<1> QED BY <1>1, Inductive, PTL

\* However many workers run apply() for a bundle, before or after its lease
\* ended, its operations are appended to the working set at most once.
THEOREM AppliedAtMostOnce == Spec => []EffectsOnce
<1>1. IInv => EffectsOnce
  BY DEF IInv, EffectsCounted, EffectsOnce
<1> QED BY <1>1, Inductive, PTL

\* A bundle marked "applied" is in the working set, and the outbox holds the
\* receipts that later readers of the marker look up.
THEOREM AppliedMarkerIsSound == Spec => []AppliedIsComplete
<1>1. IInv => AppliedIsComplete
  BY DEF IInv
<1> QED BY <1>1, Inductive, PTL

(***************************************************************************)
(* The doctor.                                                             *)
(***************************************************************************)
\* What the rows of a bundle say of it, and what they never take back.
RowsFit(b) ==
  /\ LeaseRowFits(b)
  /\ bundle[b].state = "applying" => LeaseHolds(b)
  /\ bundle[b].state = "applied" => b \in applied
  /\ b \in applied => /\ bundle[b].state \in {"applied", "conflict_recorded"}
                      /\ b \in committed

Fits == \A b \in Bundles : RowsFit(b)

\* A step that writes neither a bundle nor a lease nor an applied receipt.
LEMMA RowsKept ==
  ASSUME NEW b \in Bundles, RowsFit(b), bundle'[b] = bundle[b], lease'[b] = lease[b],
         b \in applied' <=> b \in applied, committed \subseteq committed'
  PROVE  RowsFit(b)'
BY DEF RowsFit, LeaseRowFits, LeaseHolds

\* A lease is granted with the revision and the attempt it is granted for.
LEMMA GrantFits ==
  ASSUME TypeOK, Fits, NEW w \in Workers, NEW b \in Bundles, NEW n \in Nat,
         GrantLease(w, b, n), UNCHANGED <<applied, committed>>,
         bundle[b].state \in {"ready_to_apply", "applying"}
  PROVE  Fits'
<1>1. /\ bundle'[b].state = "applying" /\ lease'[b].token = w
      /\ lease'[b].revision = bundle'[b].revision
      /\ lease'[b].attempt = bundle'[b].attempts
      /\ bundle'[b].updated = clock /\ lease'[b].expires = clock + LeaseTime
      /\ \A c \in Bundles \ {b} : bundle'[c] = bundle[c] /\ lease'[c] = lease[c]
  BY DEF GrantLease, TypeOK
<1>2. b \notin applied
  BY DEF Fits, RowsFit
<1>3. RowsFit(b)'
  BY <1>1, <1>2, WorkersAssumption, BoundAssumption
     DEF RowsFit, LeaseRowFits, LeaseHolds, TypeOK
<1>4. \A c \in Bundles \ {b} : RowsFit(c)'
  BY <1>1, RowsKept DEF Fits
<1> QED BY <1>3, <1>4 DEF Fits

\* The marker ends the lease, and claims "applied" together with its receipt.
LEMMA MarkFits ==
  ASSUME IInv, Fits, NEW w \in Workers, MarkWrite(w)
  PROVE  Fits'
<1>1. PICK b \in Bundles :
        /\ b = job[w].bundle /\ committed' = committed
        /\ job[w].final \in {"applied", "conflict_recorded"}
  BY DEF MarkWrite, workingSet, IInv, AtWork, TypeOK
<1>2. /\ bundle'[b].state = job[w].final /\ lease'[b].token = None
      /\ \A c \in Bundles \ {b} : bundle'[c] = bundle[c] /\ lease'[c] = lease[c]
      /\ applied' = IF job[w].final = "applied" THEN applied \cup {b} ELSE applied
  BY <1>1 DEF MarkWrite, IInv, TypeOK, NoLease
<1>3. job[w].final = "applied" => b \in committed
  BY <1>1 DEF MarkWrite, IInv, Gathered, EvidenceOf, Complete
<1>4. RowsFit(b)'
  BY <1>1, <1>2, <1>3 DEF Fits, RowsFit, LeaseRowFits
<1>5. \A c \in Bundles \ {b} : RowsFit(c)'
  BY <1>1, <1>2, RowsKept DEF Fits
<1> QED BY <1>1, <1>4, <1>5 DEF Fits

\* The steps that write no bundle, no lease and no applied receipt.
Elsewhere ==
  \/ Tick \/ (\E i \in Items : OtherAuthor(i))
  \/ \E w \in Workers :
       \/ Verify(w) \/ VerifyFails(w) \/ Lookup(w)
       \/ PreflightPasses(w) \/ PreflightConflicts(w)
       \/ CommitFresh(w) \/ CommitReplays(w) \/ CommitConflicts(w)
       \/ StoreReceipt(w) \/ StoreConflictReceipt(w) \/ ConflictReceiptRefused(w)
       \/ MarkRead(w) \/ MarkRefused(w) \/ MarkRow(w) \/ MarkLost(w) \/ Stop(w)

\* Next, by what it writes in the outbox.
LEMMA NextSplit ==
  ASSUME Next
  PROVE  \/ Elsewhere
         \/ \E w \in Workers, b \in Bundles :
              AcquireFirst(w, b) \/ AcquireAgain(w, b) \/ AcquireExpired(w, b)
         \/ \E w \in Workers : MarkWrite(w)
BY DEF Next, WorkerStep, Elsewhere

\* None of them takes an operation back.
LEMMA ElsewhereWrites ==
  ASSUME Elsewhere
  PROVE  UNCHANGED <<bundle, lease, applied>> /\ committed \subseteq committed'
BY DEF Elsewhere, Tick, OtherAuthor, Verify, VerifyFails, Lookup, PreflightPasses,
       PreflightConflicts, CommitFresh, CommitOperations, CommitReplays, CommitConflicts,
       StoreReceipt, StoreConflictReceipt, ConflictReceiptRefused, MarkRead, MarkRefused,
       MarkRow, MarkLost, Stop, outboxVars, workingSet

\* The rows fit in every reachable state.
LEMMA FitsStep == IInv /\ Fits /\ [Next]_vars => Fits'
<1> SUFFICES ASSUME IInv, Fits, [Next]_vars PROVE Fits'
  OBVIOUS
<1>1. CASE UNCHANGED vars
  BY <1>1, RowsKept DEF vars, outboxVars, workingSet, Fits
<1>2. CASE Elsewhere
  BY <1>2, ElsewhereWrites, RowsKept DEF Fits
<1>3. ASSUME NEW w \in Workers, NEW b \in Bundles,
             AcquireFirst(w, b) \/ AcquireAgain(w, b) \/ AcquireExpired(w, b)
      PROVE  Fits'
  <2>1. UNCHANGED <<applied, committed>>
    BY <1>3 DEF AcquireFirst, AcquireAgain, AcquireExpired, Begin, workingSet
  <2>2. CASE AcquireFirst(w, b)
    BY <2>1, <2>2, GrantFits DEF AcquireFirst, IInv
  <2>3. CASE AcquireAgain(w, b)
    BY <2>1, <2>3, RowsKept DEF AcquireAgain, Fits
  <2>4. CASE AcquireExpired(w, b)
    BY <2>1, <2>4, GrantFits DEF AcquireExpired, IInv
  <2> QED BY <1>3, <2>2, <2>3, <2>4
<1>4. ASSUME NEW w \in Workers, MarkWrite(w) PROVE Fits'
  BY <1>4, MarkFits
<1> QED BY <1>1, <1>2, <1>3, <1>4, NextSplit

\* No bundle has a row before the first worker comes.
LEMMA InitFits == Init => Fits
BY DEF Init, Fits, RowsFit, LeaseRowFits, NoLease

\* Whoever applies, takes over, retries or stops, and however late, the leases
\* satisfy doctor() between any two transactions, and so do the applied receipts
\* of every bundle for which no conflict was recorded over stored operations.
THEOREM RowsStayConsistent == Spec => []DoctorRefusesOnlyContradictions
<1>1. IInv /\ Fits /\ [Next]_vars => IInv' /\ Fits'
  BY TypeStep, EvidenceStep, FitsStep DEF IInv
<1>2. IInv /\ Fits => DoctorRefusesOnlyContradictions
  BY DEF Fits, RowsFit, DoctorRefusesOnlyContradictions, AppliedRowFits, Contradictory
<1> QED BY <1>1, <1>2, InitIInv, InitFits, PTL DEF Spec

(***************************************************************************)
(* The outbox decides once, where no worker outlives its lease.            *)
(***************************************************************************)
HoldsLease(w) ==
  /\ bundle[job[w].bundle].state = "applying"
  /\ lease[job[w].bundle].token = w
  /\ clock < lease[job[w].bundle].expires

\* A worker inside apply() holds the lease; one that has passed the lookup knows
\* that nothing is stored; one that is about to refuse has good reason.
Sound(w) ==
  /\ pc[w] # "idle" => HoldsLease(w)
  /\ pc[w] = "preflight" => job[w].bundle \notin committed
  /\ job[w].final = "conflict_recorded" =>
       /\ pc[w] \in {"conflict", "mark_read", "mark_row", "mark_write"}
       /\ job[w].bundle \notin committed /\ Stale(job[w].bundle)

Decided ==
  /\ \A w \in Workers : Sound(w)
  /\ \A b \in Bundles : ~Contradictory(b)
  /\ \A i \in Items : revision[i] >= 1

\* Two workers inside apply() have different bundles.
LEMMA Alone ==
  ASSUME Decided, NEW v \in Workers, NEW w \in Workers, v # w,
         pc[v] # "idle", pc[w] # "idle"
  PROVE  job[v].bundle # job[w].bundle
BY DEF Decided, Sound, HoldsLease

\* An item that has left the revision a bundle expects does not come back to it.
LEMMA StaleForGood ==
  ASSUME TypeOK, Decided, NEW b \in Bundles, Stale(b),
         \A i \in Items : revision'[i] \in Nat /\ revision'[i] >= revision[i]
  PROVE  Stale(b)'
<1>1. PICK i \in DOMAIN Expected[b] : revision[i] # Expected[b][i]
  BY DEF Stale
<1>2. i \in Items /\ Expected[b][i] \in Nat /\ Expected[b][i] <= 1 /\ revision[i] \in Nat
  BY <1>1, ExpectedAssumption, AuthoredAssumption DEF TypeOK
<1>3. revision'[i] # Expected[b][i]
  BY <1>1, <1>2 DEF Decided
<1> QED BY <1>3 DEF Stale

\* A worker stays sound while the others write other bundles and newer revisions.
LEMMA SoundKept ==
  ASSUME IInv, Decided, NEW v \in Workers, pc'[v] = pc[v], job'[v] = job[v],
         pc[v] # "idle" => /\ bundle'[job[v].bundle] = bundle[job[v].bundle]
                           /\ lease'[job[v].bundle] = lease[job[v].bundle]
                           /\ job[v].bundle \in committed' => job[v].bundle \in committed
                           /\ clock' < lease[job[v].bundle].expires,
         \A i \in Items : revision'[i] \in Nat /\ revision'[i] >= revision[i]
  PROVE  Sound(v)'
<1>1. pc[v] # "idle" => HoldsLease(v)'
  BY DEF Decided, Sound, HoldsLease
<1>2. pc[v] = "preflight" => job[v].bundle \notin committed'
  BY DEF Decided, Sound
<1>3. ASSUME job[v].final = "conflict_recorded"
      PROVE  /\ pc[v] \in {"conflict", "mark_read", "mark_row", "mark_write"}
             /\ \E b \in Bundles : b = job[v].bundle /\ b \notin committed' /\ Stale(b)'
  <2>1. PICK b \in Bundles : b = job[v].bundle
    BY <1>3 DEF IInv, AtWork, Decided, Sound
  <2>2. Stale(b)'
    <3>1. Stale(b)
      BY <1>3, <2>1 DEF Decided, Sound
    <3> QED BY <3>1, StaleForGood DEF IInv
  <2>3. b \notin committed' /\ pc[v] # "idle"
    BY <1>3, <2>1 DEF Decided, Sound
  <2> QED BY <1>3, <2>1, <2>2, <2>3 DEF Decided, Sound
<1> QED BY <1>1, <1>2, <1>3 DEF Sound, Stale

\* A step of one worker that writes nothing others rely on.
LEMMA OneWorker ==
  ASSUME IInv, Decided, NEW w \in Workers, Sound(w)',
         UNCHANGED <<clock, bundle, lease, workingSet>>,
         \A v \in Workers \ {w} : pc'[v] = pc[v] /\ job'[v] = job[v]
  PROVE  Decided' /\ UNCHANGED <<Outcome, revision>>
<1>1. UNCHANGED revision /\ UNCHANGED committed
  BY DEF workingSet
<1>2. \A v \in Workers \ {w} : Sound(v)'
  BY <1>1, SoundKept DEF IInv, TypeOK, Decided, Sound, HoldsLease
<1>3. Decided'
  BY <1>1, <1>2 DEF Decided, Contradictory
<1> QED BY <1>1, <1>3 DEF Outcome, Contradictory

\* The steps of a worker between the lease and the marker, but for the commit.
LEMMA BetweenSteps ==
  ASSUME IInv, Decided, NEW w \in Workers,
         \/ Verify(w) \/ VerifyFails(w) \/ Lookup(w)
         \/ PreflightPasses(w) \/ PreflightConflicts(w)
         \/ CommitReplays(w) \/ CommitConflicts(w)
         \/ StoreReceipt(w) \/ StoreConflictReceipt(w) \/ ConflictReceiptRefused(w)
         \/ MarkRead(w) \/ MarkRefused(w) \/ MarkRow(w) \/ MarkLost(w) \/ Stop(w)
  PROVE  Decided' /\ UNCHANGED <<Outcome, revision>>
<1>1. /\ UNCHANGED <<clock, bundle, lease, workingSet>> /\ pc[w] # "idle"
      /\ \A v \in Workers \ {w} : pc'[v] = pc[v] /\ job'[v] = job[v]
  BY DEF Verify, VerifyFails, Lookup, PreflightPasses, PreflightConflicts, CommitReplays,
         CommitConflicts, StoreReceipt, StoreConflictReceipt, ConflictReceiptRefused, MarkRead,
         MarkRefused, MarkRow, MarkLost, Stop, outboxVars, Goto, Leave, Conflict,
         NextKey, IInv, TypeOK
<1>2. Sound(w) /\ HoldsLease(w)
  BY <1>1 DEF Decided, Sound
<1>3. ASSUME pc'[w] = "idle", job'[w] = NoJob PROVE Sound(w)'
  BY <1>3 DEF Sound, NoJob
\* It goes on with the job it has.
<1>4. ASSUME job'[w].bundle = job[w].bundle, job'[w].final = job[w].final,
             pc'[w] = "preflight" => job[w].bundle \notin committed,
             job[w].final = "conflict_recorded" =>
               pc'[w] \in {"conflict", "mark_read", "mark_row", "mark_write"}
      PROVE  Sound(w)'
  BY <1>1, <1>2, <1>4 DEF Sound, HoldsLease, Stale, workingSet
<1>5. CASE Verify(w) \/ Lookup(w) \/ PreflightPasses(w) \/ CommitReplays(w)
  BY <1>1, <1>2, <1>4, <1>5, OneWorker
     DEF Verify, Lookup, PreflightPasses, CommitReplays, Sound, Goto, IInv, TypeOK
<1>6. CASE \/ VerifyFails(w) \/ ConflictReceiptRefused(w) \/ MarkRefused(w) \/ MarkLost(w)
           \/ Stop(w)
  BY <1>1, <1>3, <1>6, OneWorker
     DEF VerifyFails, ConflictReceiptRefused, MarkRefused, MarkLost, Stop, Leave, IInv, TypeOK
<1>7. CASE PreflightConflicts(w) \/ CommitConflicts(w)
  <2>1. /\ pc'[w] = "conflict" /\ job'[w].bundle = job[w].bundle
        /\ Stale(job[w].bundle) /\ job[w].bundle \notin committed
    BY <1>2, <1>7 DEF PreflightConflicts, CommitConflicts, Conflict, Goto, Sound, IInv, TypeOK
  <2>2. Sound(w)'
    BY <1>1, <1>2, <2>1 DEF Sound, HoldsLease, Stale, workingSet
  <2> QED BY <1>1, <2>2, OneWorker
<1>8. CASE StoreReceipt(w)
  BY <1>1, <1>2, <1>4, <1>8, OneWorker DEF StoreReceipt, NextKey, Sound, Goto, IInv, TypeOK
<1>9. CASE StoreConflictReceipt(w)
  BY <1>1, <1>2, <1>4, <1>9, OneWorker DEF StoreConflictReceipt, Goto, IInv, TypeOK
<1>10. CASE MarkRead(w) \/ MarkRow(w)
  BY <1>1, <1>2, <1>4, <1>10, OneWorker DEF MarkRead, MarkRow, Goto, IInv, TypeOK
<1> QED BY <1>5, <1>6, <1>7, <1>8, <1>9, <1>10

\* A lease is taken of a bundle nobody works on.
LEMMA AcquireSteps ==
  ASSUME IInv, Decided, NEW w \in Workers, NEW b \in Bundles,
         AcquireFirst(w, b) \/ AcquireAgain(w, b) \/ AcquireExpired(w, b)
  PROVE  Decided' /\ UNCHANGED <<Outcome, revision>>
<1>1. /\ pc[w] = "idle" /\ pc'[w] = "verify" /\ job'[w].bundle = b /\ job'[w].final = "applied"
      /\ UNCHANGED <<clock, committed, revision>>
      /\ \A v \in Workers \ {w} : pc'[v] = pc[v] /\ job'[v] = job[v]
  <2>1. Begin(w, b)
    BY DEF AcquireFirst, AcquireAgain, AcquireExpired
  <2> QED BY <2>1 DEF Begin, Goto, NoJob, workingSet, IInv, TypeOK
<1>2. /\ bundle'[b].state = "applying" /\ lease'[b].token = w /\ clock < lease'[b].expires
      /\ \A c \in Bundles \ {b} : bundle'[c] = bundle[c] /\ lease'[c] = lease[c]
  BY BoundAssumption DEF AcquireFirst, AcquireAgain, AcquireExpired, GrantLease, IInv, TypeOK
<1>3. \A v \in Workers \ {w} : pc[v] # "idle" => job[v].bundle # b
  BY DEF AcquireFirst, AcquireAgain, AcquireExpired, Decided, Sound, HoldsLease,
         IInv, TypeOK, Time
<1>4. \A v \in Workers \ {w} : Sound(v)'
  <2> TAKE v \in Workers \ {w}
  <2>1. pc[v] # "idle" => /\ job[v].bundle \in Bundles \ {b}
                          /\ clock < lease[job[v].bundle].expires
    BY <1>3 DEF IInv, AtWork, Decided, Sound, HoldsLease
  <2>2. \A i \in Items : revision'[i] \in Nat /\ revision'[i] >= revision[i]
    BY <1>1 DEF IInv, TypeOK
  <2> QED BY <1>1, <1>2, <2>1, <2>2, SoundKept
<1>5. Sound(w)'
  BY <1>1, <1>2 DEF Sound, HoldsLease
<1>6. bundle[b].state \in {"ready_to_apply", "applying"}
  BY DEF AcquireFirst, AcquireAgain, AcquireExpired
<1>7. \A c \in Bundles :
        bundle'[c].state = "conflict_recorded" <=> bundle[c].state = "conflict_recorded"
  BY <1>2, <1>6
<1> QED BY <1>1, <1>4, <1>5, <1>7 DEF Decided, Outcome, Contradictory

\* The commit decides a bundle that was open, on the revisions it expects.
LEMMA CommitStep ==
  ASSUME IInv, Decided, NEW w \in Workers, CommitFresh(w)
  PROVE  Decided' /\ \E b \in Bundles : Abstract!CommitBundle(b)
<1>1. PICK b \in Bundles : b = job[w].bundle
  BY DEF CommitFresh, IInv, AtWork
<1>2. /\ b \notin committed /\ committed' = committed \cup {b} /\ ~Stale(b)
      /\ revision' = [i \in Items |-> IF i \in DOMAIN Expected[b]
                                        THEN revision[i] + 1 ELSE revision[i]]
      /\ pc'[w] = "atomic" /\ pc[w] = "commit" /\ (\A v \in Workers \ {w} : pc'[v] = pc[v])
      /\ UNCHANGED <<clock, bundle, lease, job>>
  BY <1>1 DEF CommitFresh, CommitOperations, Goto, outboxVars, Stale, IInv, TypeOK
<1>3. \A i \in Items : revision'[i] \in Nat /\ revision'[i] >= revision[i]
  BY <1>2 DEF IInv, TypeOK
<1>4. Sound(w) /\ bundle[b].state = "applying"
  BY <1>1, <1>2 DEF Decided, Sound, HoldsLease
<1>5. \A v \in Workers \ {w} : Sound(v)'
  <2> TAKE v \in Workers \ {w}
  <2>1. pc[v] # "idle" => job[v].bundle # b /\ clock < lease[job[v].bundle].expires
    BY <1>1, <1>2, Alone DEF Decided, Sound, HoldsLease
  <2> QED BY <1>2, <1>3, <2>1, SoundKept
<1>6. Sound(w)'
  BY <1>1, <1>2, <1>4 DEF Sound, HoldsLease
<1>7. Decided'
  BY <1>2, <1>3, <1>4, <1>5, <1>6 DEF Decided, Contradictory, IInv, TypeOK
<1>8. Outcome[b] = "pending" /\ Outcome' = [Outcome EXCEPT ![b] = "committed"]
  BY <1>2, <1>4 DEF Outcome, Contradictory
<1>9. \A i \in DOMAIN Expected[b] : revision[i] = Expected[b][i]
  BY <1>2 DEF Stale
<1> QED BY <1>2, <1>7, <1>8, <1>9 DEF Abstract!CommitBundle, Abstract!Decide, Abstract!Fresh

\* The marker of a conflict decides a bundle that was open, and for good reason;
\* the marker of an application decides nothing any more.
LEMMA MarkStep ==
  ASSUME IInv, Decided, NEW w \in Workers, MarkWrite(w)
  PROVE  /\ Decided'
         /\ UNCHANGED <<Outcome, revision>> \/ \E b \in Bundles : Abstract!RefuseBundle(b)
<1>1. PICK b \in Bundles : b = job[w].bundle
  BY DEF MarkWrite, IInv, AtWork
<1>2. /\ UNCHANGED <<clock, committed, revision>>
      /\ pc[w] = "mark_write" /\ pc'[w] = "idle" /\ job'[w] = NoJob
      /\ (\A v \in Workers \ {w} : pc'[v] = pc[v] /\ job'[v] = job[v])
  BY DEF MarkWrite, Leave, workingSet, IInv, TypeOK
<1>3. /\ bundle'[b].state = job[w].final
      /\ \A c \in Bundles \ {b} : bundle'[c] = bundle[c] /\ lease'[c] = lease[c]
  BY <1>1 DEF MarkWrite, IInv, TypeOK
<1>4. Sound(w) /\ bundle[b].state = "applying"
  BY <1>1, <1>2 DEF Decided, Sound, HoldsLease
<1>5. \A v \in Workers \ {w} : Sound(v)'
  <2> TAKE v \in Workers \ {w}
  <2>1. pc[v] # "idle" => /\ job[v].bundle \in Bundles \ {b}
                          /\ clock < lease[job[v].bundle].expires
    BY <1>1, <1>2, Alone DEF Decided, Sound, HoldsLease, IInv, AtWork
  <2>2. \A i \in Items : revision'[i] \in Nat /\ revision'[i] >= revision[i]
    BY <1>2 DEF IInv, TypeOK
  <2> QED BY <1>2, <1>3, <2>1, <2>2, SoundKept
<1>6. Sound(w)'
  BY <1>2 DEF Sound, NoJob
<1>7. CASE job[w].final = "applied"
  <2>1. b \in committed
    BY <1>1, <1>2, <1>7 DEF IInv, Gathered, EvidenceOf, Complete
  <2> QED BY <1>2, <1>3, <1>4, <1>5, <1>6, <1>7, <2>1 DEF Decided, Outcome, Contradictory
<1>8. CASE job[w].final = "conflict_recorded"
  <2>1. b \notin committed /\ Stale(b)
    BY <1>1, <1>4, <1>8 DEF Sound
  <2>2. Decided'
    BY <1>2, <1>3, <1>5, <1>6, <1>8, <2>1 DEF Decided, Contradictory
  <2>3. Outcome[b] = "pending" /\ Outcome' = [Outcome EXCEPT ![b] = "refused"]
    BY <1>2, <1>3, <1>4, <1>8, <2>1 DEF Outcome, Contradictory
  <2> QED BY <1>2, <2>1, <2>2, <2>3
          DEF Abstract!RefuseBundle, Abstract!Decide, Abstract!Fresh, Stale
<1> QED BY <1>7, <1>8 DEF IInv, TypeOK

\* Every step of the outbox is one of the abstract specification, or none.
LEMMA OutcomeStep ==
  IInv /\ Decided /\ [Next /\ InTime]_vars
    => Decided' /\ [Abstract!OutcomeNext]_<<Outcome, revision>>
<1> SUFFICES ASSUME IInv, Decided, [Next /\ InTime]_vars
             PROVE  Decided' /\ [Abstract!OutcomeNext]_<<Outcome, revision>>
  OBVIOUS
<1>1. CASE UNCHANGED vars
  BY <1>1 DEF vars, outboxVars, workingSet, Decided, Sound, HoldsLease, Stale,
              Contradictory, Outcome
<1>2. CASE Tick /\ InTime
  <2>1. UNCHANGED <<bundle, lease, committed, revision, pc, job>> /\ clock' # clock
    BY <1>2 DEF Tick, outboxVars, workingSet, IInv, TypeOK
  <2>2. \A v \in Workers : pc[v] # "idle" => clock' < lease[job[v].bundle].expires
    BY <1>2, <2>1 DEF InTime, Punctual
  <2>3. \A v \in Workers : Sound(v)'
    BY <2>1, <2>2, SoundKept DEF IInv, TypeOK
  <2> QED BY <2>1, <2>3 DEF Decided, Contradictory, Outcome
<1>3. ASSUME NEW i \in Items, OtherAuthor(i)
      PROVE  Decided' /\ [Abstract!OutcomeNext]_<<Outcome, revision>>
  <2>1. /\ UNCHANGED <<clock, bundle, lease, committed, pc, job>>
        /\ revision' = [revision EXCEPT ![i] = @ + 1]
    BY <1>3 DEF OtherAuthor, outboxVars
  <2>2. \A j \in Items : revision'[j] \in Nat /\ revision'[j] >= revision[j]
    BY <2>1 DEF IInv, TypeOK
  <2>3. \A v \in Workers : Sound(v)'
    BY <2>1, <2>2, SoundKept DEF Decided, Sound, HoldsLease
  <2>4. Decided'
    BY <2>1, <2>2, <2>3 DEF Decided, Contradictory, IInv, TypeOK
  <2>5. UNCHANGED Outcome
    BY <2>1 DEF Outcome, Contradictory
  <2> QED BY <2>1, <2>4, <2>5 DEF Abstract!OutcomeNext, Abstract!ReviseItem
<1>4. ASSUME NEW w \in Workers, WorkerStep(w) \/ Stop(w)
      PROVE  Decided' /\ [Abstract!OutcomeNext]_<<Outcome, revision>>
  <2>1. CASE CommitFresh(w)
    BY <2>1, CommitStep DEF Abstract!OutcomeNext
  <2>2. CASE MarkWrite(w)
    BY <2>2, MarkStep DEF Abstract!OutcomeNext
  <2>3. CASE \E b \in Bundles : AcquireFirst(w, b) \/ AcquireAgain(w, b) \/ AcquireExpired(w, b)
    BY <2>3, AcquireSteps
  <2> QED BY <1>4, <2>1, <2>2, <2>3, BetweenSteps DEF WorkerStep
<1> QED BY <1>1, <1>2, <1>3, <1>4 DEF Next

\* Nobody is at work, and nothing decided, before the first worker comes.
LEMMA InitDecided == Init => Decided /\ Abstract!OutcomeInit
<1> SUFFICES ASSUME Init PROVE Decided /\ Abstract!OutcomeInit
  OBVIOUS
<1>1. Decided
  BY DEF Init, Decided, Sound, NoJob, Contradictory
<1>2. Outcome = [b \in Bundles |-> "pending"]
  BY DEF Init, Outcome, Contradictory
<1> QED BY <1>1, <1>2 DEF Init, Abstract!OutcomeInit

\* The invariants of the outbox in which no worker outlives its lease.
LEMMA PunctualInvariant == PunctualSpec => [](IInv /\ Fits /\ Decided)
<1>1. IInv /\ Fits /\ Decided /\ [Next /\ InTime]_vars => IInv' /\ Fits' /\ Decided'
  BY TypeStep, EvidenceStep, FitsStep, OutcomeStep DEF IInv
<1> QED BY <1>1, InitIInv, InitFits, InitDecided, PTL DEF PunctualSpec

\* apply(), with its leases, receipts, retries, takeovers and stops, decides every
\* bundle once, for any number of workers and of bundles that compete for the
\* same items: committed as a whole on the revisions it was authored against, or
\* refused because they were gone; as long as no worker outlives its lease.
THEOREM DecidesOnce == PunctualSpec => Abstract!OutcomeSpec
BY PunctualInvariant, OutcomeStep, InitDecided, PTL DEF PunctualSpec, Abstract!OutcomeSpec

\* Nor does doctor() then ever refuse the outbox.
THEOREM DoctorIsContent == PunctualSpec => []DoctorAccepts
<1>1. Fits /\ Decided => DoctorAccepts
  BY DEF Fits, RowsFit, Decided, Contradictory, DoctorAccepts, LeaseRowFits, AppliedRowFits
<1> QED BY <1>1, PunctualInvariant, PTL

(***************************************************************************)
(* What a context offered of an item is a version that the item had then,  *)
(* and versions are only added.  So when the item still has the revision   *)
(* that was offered, it still is what was offered; and a difference means  *)
(* that a later version exists.                                            *)
(***************************************************************************)
VersionShape(v) ==
  v \in [kind : {v.kind}, scope : {v.scope}, summary : {v.summary}, payload : {v.payload},
         life : {v.life}, aging : {v.aging}, dormant : {v.dormant}, expires : {v.expires}]

ItemHistory(h) ==
  /\ \E S : h \in Seq(S)
  /\ \A n \in 1 .. Len(h) : VersionShape(h[n])

\* What item i of context c was offered as.
OfferHolds(c, i, h) ==
  /\ c.items[i].rev \in Nat \ {0} /\ c.versions[i] \in Nat
  /\ c.items[i].rev <= c.versions[i] /\ c.versions[i] <= Len(h)
  /\ Content(c.items[i]) = Content(h[c.items[i].rev])
  /\ h[c.items[i].rev].life = "active"

ContextHolds(c, h) == \A i \in DOMAIN c.items : i \in ItemIds /\ OfferHolds(c, i, h[i])

\* What an answer that was kept is, and what was made of it.
Kept(o, c) ==
  LET a == o.answer IN
  /\ c # NoContext
  /\ a.op \in {"create", "confirm", "revise", "resolve"}
  /\ Bound(a, c) /\ o.reading = Reading(a, c)
  /\ a.op = "create" => a.summary > 0
  /\ a.summary \in Nat

\* An answer may be dropped: it says nothing new.
SaysNothing(o, c) ==
  LET a == o.answer IN
  CASE a.op = "create" ->
         \/ a.kind = "pending_review" /\ a.patch.conflicting \subseteq DOMAIN c.items
         \/ \E i \in DOMAIN c.items : Content(c.items[i]) = o.reading
    [] a.op = "revise" ->
         \/ o.reading = Content(c.items[a.id])
         \/ Restates(a) /\ ~a.reason /\ o.reading.payload = c.items[a.id].payload
    [] a.op = "resolve" -> Returning(c)
    [] OTHER -> FALSE

OutcomeStates == {"waiting", "refused", "dropped", "accepted", "applying", "applied", "conflict"}

OutcomeHolds(o, c) ==
  /\ o \in [state : OutcomeStates, answer : {o.answer}, reading : {o.reading}, found : {o.found}]
  /\ o.state \notin {"waiting", "refused"} => Kept(o, c)
  /\ o.state = "dropped" => SaysNothing(o, c)
  /\ o.state = "conflict" => o.answer.op # "create" /\ o.found > o.answer.rev
  /\ o.state = "applied" /\ o.answer.op # "create" =>
       o.found = o.answer.rev /\ o.answer.rev = c.versions[o.answer.id]

NInv ==
  /\ DOMAIN history = ItemIds /\ \A i \in ItemIds : ItemHistory(history[i])
  /\ cut \in [ItemIds -> Nat] /\ \A i \in ItemIds : cut[i] <= Len(history[i])
  /\ DOMAIN given = Clients /\ \A t \in Clients : ContextHolds(given[t], history)
  /\ DOMAIN outcome = Clients /\ \A t \in Clients : OutcomeHolds(outcome[t], given[t])

LEMMA LengthIsNat ==
  ASSUME NEW h, ItemHistory(h)
  PROVE  Len(h) \in Nat
<1>1. PICK S : h \in Seq(S)
  BY DEF ItemHistory
<1> QED BY <1>1

\* Another version leaves the ones before it.
LEMMA VersionAdded ==
  ASSUME NEW h, ItemHistory(h), NEW v, VersionShape(v)
  PROVE  /\ ItemHistory(Append(h, v)) /\ Len(Append(h, v)) = Len(h) + 1
         /\ Append(h, v)[Len(h) + 1] = v
         /\ \A n \in 1 .. Len(h) : Append(h, v)[n] = h[n]
<1>1. PICK S : h \in Seq(S)
  BY DEF ItemHistory
<1>2. PICK T : T = S \cup {v}
  OBVIOUS
<1>3. h \in Seq(T) /\ v \in T
  BY <1>1, <1>2
<1>4. PICK g : g = Append(h, v)
  OBVIOUS
<1>5. /\ g \in Seq(T) /\ Len(g) = Len(h) + 1 /\ g[Len(h) + 1] = v
      /\ \A n \in 1 .. Len(h) : g[n] = h[n]
  BY <1>3, <1>4
<1>6. ASSUME NEW n \in 1 .. Len(g) PROVE VersionShape(g[n])
  <2>1. CASE n = Len(h) + 1
    BY <1>5, <2>1
  <2>2. CASE n # Len(h) + 1
    BY <1>1, <1>5, <2>2 DEF ItemHistory
  <2> QED BY <2>1, <2>2
<1>7. ItemHistory(g)
  BY <1>5, <1>6 DEF ItemHistory
<1> QED BY <1>4, <1>5, <1>7

\* A longer history holds what a context offered.
LEMMA OfferKept ==
  ASSUME NEW c, NEW i, NEW h, NEW g, ItemHistory(h), OfferHolds(c, i, h),
         Len(h) <= Len(g), Len(g) \in Nat, \A n \in 1 .. Len(h) : g[n] = h[n]
  PROVE  OfferHolds(c, i, g)
<1>1. PICK n \in 1 .. Len(h) : n = c.items[i].rev
  BY LengthIsNat DEF OfferHolds
<1>2. g[n] = h[n]
  OBVIOUS
<1> QED BY <1>1, <1>2, LengthIsNat DEF OfferHolds

\* One item is written and nothing else changes but outcomes.
LEMMA WrittenKeeps ==
  ASSUME NInv, NEW i \in ItemIds, NEW v, VersionShape(v),
         history' = [history EXCEPT ![i] = Append(@, v)], UNCHANGED <<cut, given>>
  PROVE  /\ DOMAIN history' = ItemIds /\ \A j \in ItemIds : ItemHistory(history'[j])
         /\ cut' \in [ItemIds -> Nat] /\ \A j \in ItemIds : cut'[j] <= Len(history'[j])
         /\ DOMAIN given' = Clients /\ \A t \in Clients : ContextHolds(given'[t], history')
         /\ history'[i][Len(history'[i])] = v
<1>1. /\ DOMAIN history' = ItemIds /\ history'[i] = Append(history[i], v)
      /\ \A j \in ItemIds \ {i} : history'[j] = history[j]
  BY DEF NInv
<1>2. /\ ItemHistory(history'[i]) /\ Len(history'[i]) = Len(history[i]) + 1
      /\ history'[i][Len(history[i]) + 1] = v
      /\ \A n \in 1 .. Len(history[i]) : history'[i][n] = history[i][n]
  BY <1>1, VersionAdded DEF NInv
<1>3. \A j \in ItemIds : ItemHistory(history'[j])
  BY <1>1, <1>2 DEF NInv
<1>4. ASSUME NEW j \in ItemIds
      PROVE  /\ Len(history[j]) \in Nat /\ Len(history'[j]) \in Nat
             /\ Len(history[j]) <= Len(history'[j])
             /\ \A n \in 1 .. Len(history[j]) : history'[j][n] = history[j][n]
  <2>1. Len(history[j]) \in Nat
    BY LengthIsNat DEF NInv
  <2>2. CASE j = i
    BY <1>2, <2>1, <2>2
  <2>3. CASE j # i
    BY <1>1, <2>1, <2>3
  <2> QED BY <2>2, <2>3
<1>5. ASSUME NEW t \in Clients PROVE ContextHolds(given'[t], history')
  BY <1>4, OfferKept DEF NInv, ContextHolds
<1>6. \A j \in ItemIds : cut'[j] <= Len(history'[j])
  BY <1>4 DEF NInv
<1> QED BY <1>1, <1>2, <1>3, <1>5, <1>6 DEF NInv

LEMMA ReadContextStep ==
  ASSUME NInv, NEW t \in Clients, NEW r, NEW s, ReadContext(t, r, s)
  PROVE  NInv'
<1>1. PICK c : c = ContextOf(r, s)
  OBVIOUS
<1>2. given[t] = NoContext /\ given' = [given EXCEPT ![t] = c]
      /\ UNCHANGED <<history, cut, outcome>>
  BY <1>1 DEF ReadContext
<1>3. ContextHolds(c, history)
  <2> SUFFICES ASSUME NEW i \in DOMAIN c.items
               PROVE  i \in ItemIds /\ OfferHolds(c, i, history[i])
    BY DEF ContextHolds
  <2>1. i \in ItemIds /\ Visible(i) /\ c.items[i] = CommandItem(i) /\ c.versions[i] = Versions(i)
    BY <1>1 DEF ContextOf, Selected
  <2>2. PICK x : x = c.items[i]
    OBVIOUS
  <2>3. PICK n : n = ShownVersion(i)
    OBVIOUS
  <2>4. /\ x.rev = n /\ x.kind = history[i][n].kind /\ x.scope = history[i][n].scope
        /\ x.summary = history[i][n].summary /\ x.payload = history[i][n].payload
    BY <2>1, <2>2, <2>3 DEF CommandItem, Shown
  <2>5. Len(history[i]) \in Nat /\ cut[i] \in Nat /\ cut[i] <= Len(history[i])
    BY <2>1, LengthIsNat DEF NInv
  <2>6. n \in Nat \ {0} /\ n <= Len(history[i]) /\ history[i][n].life = "active"
    BY <2>1, <2>3, <2>5 DEF Visible, ShownVersion, Versions, Shown
  <2>7. Content(x) = Content(history[i][n])
    BY <2>4 DEF Content
  <2> QED BY <2>1, <2>2, <2>4, <2>5, <2>6, <2>7 DEF OfferHolds, Versions
<1>4. ASSUME NEW u \in Clients PROVE OutcomeHolds(outcome[u], given'[u])
  <2>1. CASE u = t
    <3>1. outcome[u].state \in {"waiting", "refused"}
      BY <1>2, <2>1 DEF NInv, OutcomeHolds, Kept
    <3> QED BY <2>1, <3>1 DEF NInv, OutcomeHolds
  <2>2. CASE u # t
    BY <1>2, <2>2 DEF NInv
  <2> QED BY <2>1, <2>2
<1> QED BY <1>2, <1>3, <1>4 DEF NInv

\* What may be said: the operations and their lengths.
LEMMA FieldsOf ==
  ASSUME NEW O, NEW I, NEW K, NEW R, NEW C, NEW S, NEW P, NEW B, NEW E,
         NEW a \in [op : O, id : I, kind : K, rev : R, scope : C, summary : S,
                   patch : P, reason : B, evidence : E]
  PROVE  a.op \in O /\ a.summary \in S
OBVIOUS

LEMMA AnswersAre ==
  ASSUME NEW c, NEW a \in Creations \cup Changes(c)
  PROVE  a.op \in {"create", "confirm", "resolve", "reopen", "revise"} /\ a.summary \in Nat
<1>1. {0} \cup Lengths \subseteq Nat
  BY IntentAssumption
<1>2. CASE a \in Creations
  <2>1. PICK k \in DOMAIN Payloads :
          a \in [op : {"create"}, id : {Nothing}, rev : {0}, kind : {k}, scope : Scopes,
                summary : Lengths, patch : Payloads[k], reason : {FALSE}, evidence : {Nothing}]
    BY <1>2 DEF Creations
  <2>2. a.op \in {"create"} /\ a.summary \in Lengths
    BY <2>1, FieldsOf
  <2> QED BY <1>1, <2>2
<1>3. CASE a \in Changes(c)
  <2>1. PICK i \in DOMAIN c.items :
          \/ a \in [op : {"confirm", "resolve", "reopen"}, id : {i}, kind : {c.items[i].kind},
                   rev : {c.items[i].rev, c.items[i].rev + 1}, scope : {c.items[i].scope},
                   summary : {0} \cup Lengths, patch : {NoPatch}, reason : BOOLEAN,
                   evidence : {Nothing}]
          \/ a \in [op : {"revise"}, id : {i}, kind : {c.items[i].kind}, rev : {c.items[i].rev},
                   scope : Scopes, summary : {0} \cup Lengths, patch : Patches(c.items[i].kind),
                   reason : BOOLEAN, evidence : {Nothing} \cup Evidence]
    BY <1>3 DEF Changes
  <2>2. /\ a.op \in {"confirm", "resolve", "reopen"} \/ a.op \in {"revise"}
        /\ a.summary \in {0} \cup Lengths
    BY <2>1, FieldsOf
  <2> QED BY <1>1, <2>2
<1> QED BY <1>2, <1>3

\* What is dropped says nothing new.
LEMMA DroppedSaysNothing ==
  ASSUME NEW a, NEW c, ~Refused(a, c), Dropped(a, c), NEW o,
         o.answer = a, o.reading = Reading(a, c),
         a.op \in {"create", "confirm", "resolve", "reopen", "revise"}
  PROVE  SaysNothing(o, c)
<1>1. CASE a.op = "create"
  <2>1. FalseScopeConflict(a, c) \/ Reaffirmed(a, c)
    BY <1>1 DEF Dropped, RestatementDropped
  <2>2. CASE FalseScopeConflict(a, c)
    BY <1>1, <2>2 DEF FalseScopeConflict, SaysNothing
  <2>3. CASE Reaffirmed(a, c)
    BY <1>1, <2>3 DEF Reaffirmed, SaysNothing
  <2> QED BY <2>1, <2>2, <2>3
<1>2. CASE a.op = "revise"
  <2>1. PICK r : r = Reading(a, c)
    OBVIOUS
  <2>2. r = [kind |-> a.kind, scope |-> a.scope, summary |-> r.summary, payload |-> r.payload]
    BY <1>2, <2>1 DEF Reading
  <2>3. a.kind = c.items[a.id].kind /\ a.scope = c.items[a.id].scope
    BY <1>2 DEF Refused, Bound
  <2>4. SamePayload(a, c) /\ SameSummary(a, c) => r = Content(c.items[a.id])
    BY <2>1, <2>2, <2>3 DEF SamePayload, SameSummary, Content
  <2>5. RestatementDropped(a, c) \/ Reaffirmed(a, c)
    BY <1>2 DEF Dropped, FalseScopeConflict
  <2>6. CASE RestatementDropped(a, c)
    <3>1. SamePayload(a, c) /\ a.evidence # Nothing /\ (SameSummary(a, c) \/ Restates(a))
      BY <2>6 DEF RestatementDropped
    <3>2. Restates(a) => ~a.reason
      BY <1>2, <3>1 DEF Refused, RestatementRefused
    <3> QED BY <1>2, <2>1, <2>4, <3>1, <3>2 DEF SaysNothing, SamePayload
  <2>7. CASE Reaffirmed(a, c)
    <3>1. SamePayload(a, c) /\ SameSummary(a, c)
      BY <1>2, <2>7 DEF Reaffirmed, Same
    <3> QED BY <1>2, <2>1, <2>4, <3>1 DEF SaysNothing
  <2> QED BY <2>5, <2>6, <2>7
<1>3. CASE a.op \in {"confirm", "reopen", "resolve"}
  <2>1. Reaffirmed(a, c)
    BY <1>3 DEF Dropped, FalseScopeConflict, RestatementDropped
  <2>2. a.op = "resolve" /\ Returning(c)
    BY <1>3, <2>1 DEF Reaffirmed
  <2> QED BY <2>2 DEF SaysNothing
<1> QED BY <1>1, <1>2, <1>3

LEMMA AnswerStep ==
  ASSUME NInv, NEW t \in Clients, NEW a \in Creations \cup Changes(given[t]), Answer(t, a)
  PROVE  NInv'
<1>1. PICK c : c = given[t]
  OBVIOUS
<1>2. PICK o : o = IF Refused(a, c) THEN [NoOutcome EXCEPT !.state = "refused"]
                   ELSE [NoOutcome EXCEPT !.state = IF Dropped(a, c) THEN "dropped" ELSE "accepted",
                              !.answer = a, !.reading = Reading(a, c)]
  OBVIOUS
<1>3. c # NoContext /\ outcome' = [outcome EXCEPT ![t] = o] /\ UNCHANGED <<history, cut, given>>
  BY <1>1, <1>2 DEF Answer
<1>4. OutcomeHolds(o, c)
  <2>1. CASE Refused(a, c)
    BY <1>2, <2>1 DEF NoOutcome, OutcomeHolds, OutcomeStates
  <2>2. CASE ~Refused(a, c)
    <3>1. /\ o \in [state : OutcomeStates, answer : {o.answer}, reading : {o.reading}, found : {o.found}]
          /\ o.answer = a /\ o.reading = Reading(a, c)
          /\ o.state = "accepted" \/ (o.state = "dropped" /\ Dropped(a, c))
      BY <1>2, <2>2 DEF NoOutcome, OutcomeStates
    <3>2. /\ a.op \in {"create", "confirm", "resolve", "reopen", "revise"} /\ a.summary \in Nat
      BY AnswersAre
    <3>3. /\ Bound(a, c) /\ a.op # "reopen"
      BY <2>2 DEF Refused, Bound, OfferedOperations
    <3>4. a.op = "create" => a.summary > 0
      BY <2>2 DEF Refused, WellFormed
    <3>5. Kept(o, c)
      BY <1>3, <3>1, <3>2, <3>3, <3>4 DEF Kept
    <3>6. o.state = "dropped" => SaysNothing(o, c)
      BY <2>2, <3>1, <3>2, DroppedSaysNothing
    <3> QED BY <3>1, <3>5, <3>6 DEF OutcomeHolds
  <2> QED BY <2>1, <2>2
<1> QED BY <1>1, <1>3, <1>4 DEF NInv

\* What an application finds of the item it is to change.
LEMMA PreflightIs ==
  ASSUME NInv, NEW t \in Clients, outcome[t].state \in {"accepted", "applying"},
         NEW a, a = outcome[t].answer, a.op # "create"
  PROVE  /\ a.id \in ItemIds /\ Versions(a.id) \in Nat \ {0}
         /\ VersionShape(Now(a.id)) /\ VersionShape(history[a.id][Versions(a.id)])
         /\ Preflight(t) => /\ Versions(a.id) = a.rev /\ a.rev = given[t].versions[a.id]
                            /\ Now(a.id).kind = a.kind /\ Now(a.id).scope = a.scope
         /\ ~Preflight(t) => Versions(a.id) > a.rev
<1>1. PICK c : c = given[t]
  OBVIOUS
<1>2. Bound(a, c) /\ ContextHolds(c, history)
  BY <1>1 DEF NInv, OutcomeHolds, Kept
<1>3. PICK i \in ItemIds : i = a.id /\ i \in DOMAIN c.items
  BY <1>2 DEF Bound, ContextHolds
<1>4. PICK x : x = c.items[i]
  OBVIOUS
<1>5. a.rev = x.rev /\ a.kind = x.kind /\ a.scope = x.scope
  BY <1>2, <1>3, <1>4 DEF Bound
<1>6. PICK h : h = history[i]
  OBVIOUS
<1>7. ItemHistory(h) /\ OfferHolds(c, i, h) /\ Len(h) \in Nat
  BY <1>2, <1>3, <1>6, LengthIsNat DEF NInv, ContextHolds
<1>8. /\ x.rev \in Nat \ {0} /\ c.versions[i] \in Nat
      /\ x.rev <= c.versions[i] /\ c.versions[i] <= Len(h)
      /\ Content(x) = Content(h[x.rev]) /\ h[x.rev].life = "active"
  BY <1>4, <1>7 DEF OfferHolds
<1>9. VersionShape(h[Len(h)])
  BY <1>7, <1>8 DEF ItemHistory
<1>10. Versions(i) = Len(h) /\ Now(i) = h[Len(h)]
  BY <1>6 DEF Versions, Now
<1>11. Preflight(t) <=> Len(h) = x.rev /\ Content(h[Len(h)]) = Content(x) /\ h[Len(h)].life = "active"
  BY <1>1, <1>3, <1>4, <1>5, <1>10 DEF Preflight
<1>12. ~Preflight(t) => Len(h) > x.rev
  BY <1>7, <1>8, <1>11
<1>13. Preflight(t) => /\ Len(h) = x.rev /\ x.rev = c.versions[i]
                       /\ h[Len(h)].kind = x.kind /\ h[Len(h)].scope = x.scope
  BY <1>7, <1>8, <1>11 DEF Content
<1>14. Len(h) \in Nat \ {0}
  BY <1>7, <1>8
<1>15. /\ Preflight(t) => /\ Versions(i) = a.rev /\ a.rev = given[t].versions[i]
                          /\ Now(i).kind = a.kind /\ Now(i).scope = a.scope
       /\ ~Preflight(t) => Versions(i) > a.rev
  BY <1>1, <1>5, <1>10, <1>12, <1>13
<1>16. VersionShape(Now(i)) /\ VersionShape(history[i][Versions(i)]) /\ Versions(i) \in Nat \ {0}
  BY <1>6, <1>9, <1>10, <1>14
<1> QED BY <1>3, <1>15, <1>16

\* The version an application writes has the content that was evaluated.
LEMMA NextVersionIs ==
  ASSUME NInv, NEW t \in Clients, outcome[t].state \in {"accepted", "applying"}, Preflight(t),
         NEW a, a = outcome[t].answer, NEW x, x = Candidate(a, given[t]), ValidCandidate(x)
  PROVE  /\ Target(t) \in ItemIds /\ VersionShape(NextVersion(a, x))
         /\ Content(NextVersion(a, x)) = outcome[t].reading
<1>1. PICK o : o = outcome[t]
  OBVIOUS
<1>2. PICK c : c = given[t]
  OBVIOUS
<1>3. PICK r : r = o.reading
  OBVIOUS
<1>4. Kept(o, c)
  BY <1>1, <1>2 DEF NInv, OutcomeHolds
<1>5. /\ a.op \in {"create", "confirm", "revise", "resolve"} /\ a.summary \in Nat
      /\ r = Reading(a, c)
  BY <1>1, <1>3, <1>4 DEF Kept
<1>6. /\ r = [kind |-> a.kind, scope |-> a.scope, summary |-> r.summary, payload |-> r.payload]
      /\ a.op # "create" /\ a.summary # 0 => r.summary = a.summary
  BY <1>5 DEF Reading
<1>7. x = r
  <2>1. CASE a.op = "revise"
    <3>1. x = [r EXCEPT !.summary = a.summary]
      BY <1>2, <1>5, <2>1 DEF Candidate
    <3>2. x.summary = a.summary
      BY <1>6, <3>1
    <3>3. a.summary \in 1 .. 640
      BY <3>2 DEF ValidCandidate, CandidateMax
    <3>4. a.summary # 0
      <4>1. PICK n \in 1 .. 640 : n = a.summary
        BY <3>3
      <4>2. n # 0
        OBVIOUS
      <4> QED BY <4>1, <4>2
    <3> QED BY <1>6, <2>1, <3>1, <3>4
  <2>2. CASE a.op # "revise"
    BY <1>2, <1>5, <2>2 DEF Candidate
  <2> QED BY <2>1, <2>2
<1>8. CASE a.op = "create"
  <2>1. PICK v : v = NewItem(x, today)
    OBVIOUS
  <2>2. /\ VersionShape(v) /\ v.kind = x.kind /\ v.scope = x.scope /\ v.summary = x.summary
        /\ v.payload = x.payload
    BY <2>1 DEF NewItem, VersionShape
  <2>3. Content(v) = r
    BY <1>6, <1>7, <2>2 DEF Content
  <2>4. Target(t) \in ItemIds /\ NextVersion(a, x) = v
    BY <1>8, <2>1 DEF Target, ItemIds, NextVersion
  <2> QED BY <1>1, <1>3, <2>2, <2>3, <2>4
<1>9. CASE a.op # "create"
  <2>1. PICK now : now = Now(a.id)
    OBVIOUS
  <2>2. a.id \in ItemIds /\ VersionShape(now) /\ now.kind = a.kind /\ now.scope = a.scope
    BY <1>9, <2>1, PreflightIs
  <2>3. PICK v : v = [now EXCEPT !.summary = x.summary, !.payload = x.payload]
    OBVIOUS
  <2>4. /\ VersionShape(v) /\ v.kind = a.kind /\ v.scope = a.scope /\ v.summary = x.summary
        /\ v.payload = x.payload
    BY <2>2, <2>3 DEF VersionShape
  <2>5. PICK w : w = NextVersion(a, x)
    OBVIOUS
  <2>6. w \in {v, [v EXCEPT !.life = "resolved"], Refresh(v)}
    BY <1>5, <1>9, <2>1, <2>3, <2>5 DEF NextVersion
  <2>7. /\ VersionShape(w) /\ w.kind = v.kind /\ w.scope = v.scope /\ w.summary = v.summary
        /\ w.payload = v.payload
    <3>1. CASE w = v
      BY <2>4, <3>1
    <3>2. CASE w = [v EXCEPT !.life = "resolved"]
      BY <2>4, <3>2 DEF VersionShape
    <3>3. CASE w = Refresh(v)
      BY <2>4, <3>3 DEF VersionShape, Refresh
    <3> QED BY <2>6, <3>1, <3>2, <3>3
  <2>8. Content(w) = r
    BY <1>6, <1>7, <2>4, <2>7 DEF Content
  <2>9. Target(t) \in ItemIds
    BY <1>9, <2>2 DEF Target
  <2> QED BY <1>1, <1>3, <2>5, <2>7, <2>8, <2>9
<1> QED BY <1>8, <1>9

\* An accepted bundle is tried.
LEMMA ApplyStep ==
  ASSUME NInv, NEW t \in Clients, Apply(t)
  PROVE  NInv'
<1>1. PICK a : a = outcome[t].answer
  OBVIOUS
<1>2. PICK x : x = Candidate(a, given[t])
  OBVIOUS
<1>3. PICK o : o = outcome[t]
  OBVIOUS
<1>4. PICK s : s = IF ~Preflight(t) THEN "conflict"
                   ELSE IF ValidCandidate(x) /\ ValidItem(NextVersion(a, x)) THEN "applied" ELSE "applying"
  OBVIOUS
<1>5. PICK u : u = [o EXCEPT !.state = s, !.found = Versions(Target(t))]
  OBVIOUS
<1>6. /\ o.state \in {"accepted", "applying"} /\ outcome' = [outcome EXCEPT ![t] = u]
      /\ s = "applied" =>
           history' = [history EXCEPT ![Target(t)] = Append(@, NextVersion(a, x))]
      /\ s # "applied" => UNCHANGED history
      /\ UNCHANGED <<cut, given>>
  BY <1>1, <1>2, <1>3, <1>4, <1>5 DEF Apply, NInv
<1>7. /\ o \in [state : OutcomeStates, answer : {o.answer}, reading : {o.reading}, found : {o.found}]
      /\ Kept(o, given[t])
  BY <1>3, <1>6 DEF NInv, OutcomeHolds
<1>8. /\ u \in [state : OutcomeStates, answer : {u.answer}, reading : {u.reading}, found : {u.found}]
      /\ u.state = s /\ s \in {"conflict", "applied", "applying"}
      /\ u.answer = a /\ u.reading = o.reading /\ u.found = Versions(Target(t))
  BY <1>1, <1>3, <1>4, <1>5, <1>7 DEF OutcomeStates
<1>9. Kept(u, given[t])
  BY <1>1, <1>3, <1>7, <1>8 DEF Kept
<1>10. s = "conflict" => a.op # "create" /\ u.found > a.rev
  <2> SUFFICES ASSUME s = "conflict" PROVE a.op # "create" /\ u.found > a.rev
    OBVIOUS
  <2>1. ~Preflight(t)
    BY <1>4
  <2>2. a.op # "create"
    BY <1>1, <2>1 DEF Preflight
  <2>3. Versions(a.id) > a.rev
    BY <1>1, <1>3, <1>6, <2>1, <2>2, PreflightIs
  <2> QED BY <1>1, <1>8, <2>2, <2>3 DEF Target
<1>11. s = "applied" /\ a.op # "create" =>
         u.found = a.rev /\ a.rev = given[t].versions[a.id]
  <2> SUFFICES ASSUME s = "applied", a.op # "create"
               PROVE  u.found = a.rev /\ a.rev = given[t].versions[a.id]
    OBVIOUS
  <2>1. Preflight(t)
    BY <1>4
  <2>2. Versions(a.id) = a.rev /\ a.rev = given[t].versions[a.id]
    BY <1>1, <1>3, <1>6, <2>1, PreflightIs
  <2> QED BY <1>1, <1>8, <2>2 DEF Target
<1>12. OutcomeHolds(u, given[t])
  BY <1>8, <1>9, <1>10, <1>11 DEF OutcomeHolds
<1>13. \A r \in Clients : OutcomeHolds(outcome'[r], given'[r])
  BY <1>6, <1>12 DEF NInv
<1>14. CASE s = "applied"
  <2>1. Preflight(t) /\ ValidCandidate(x)
    BY <1>4, <1>14
  <2>2. Target(t) \in ItemIds /\ VersionShape(NextVersion(a, x))
    BY <1>1, <1>2, <1>3, <1>6, <2>1, NextVersionIs
  <2>3. PICK v : v = NextVersion(a, x)
    OBVIOUS
  <2>4. PICK i \in ItemIds : i = Target(t)
    BY <2>2
  <2>5. /\ history' = [history EXCEPT ![i] = Append(@, v)] /\ VersionShape(v)
        /\ UNCHANGED <<cut, given>>
    BY <1>6, <1>14, <2>2, <2>3, <2>4
  <2>6. /\ DOMAIN history' = ItemIds /\ \A j \in ItemIds : ItemHistory(history'[j])
        /\ cut' \in [ItemIds -> Nat] /\ \A j \in ItemIds : cut'[j] <= Len(history'[j])
        /\ DOMAIN given' = Clients /\ \A r \in Clients : ContextHolds(given'[r], history')
    BY <2>5, WrittenKeeps
  <2> QED BY <1>6, <1>13, <2>6 DEF NInv
<1>15. CASE s # "applied"
  BY <1>6, <1>13, <1>15 DEF NInv
<1> QED BY <1>14, <1>15

\* Somebody else writes the item.
LEMMA OtherWriteStep ==
  ASSUME NInv, NEW i \in ItemIds, OtherWrite(i)
  PROVE  NInv'
<1>1. PICK now : now = Now(i)
  OBVIOUS
<1>2. VersionShape(now)
  <2>1. Len(history[i]) \in Nat /\ history[i] # << >> /\ ItemHistory(history[i])
    BY LengthIsNat DEF NInv, OtherWrite, Exists
  <2>2. Len(history[i]) > 0
    <3>1. PICK S : history[i] \in Seq(S)
      BY <2>1 DEF ItemHistory
    <3> QED BY <2>1, <3>1
  <2> QED BY <1>1, <2>1, <2>2 DEF ItemHistory, Now, Versions
<1>3. PICK v : /\ v \in {[now EXCEPT !.life = l] : l \in {"resolved", "abandoned"}}
                     \cup {[now EXCEPT !.summary = n] : n \in Lengths}
                     \cup {[now EXCEPT !.life = "expired"] : n \in {d \in {today} : d >= now.expires}}
               /\ history' = [history EXCEPT ![i] = Append(@, v)]
  BY <1>1 DEF OtherWrite
<1>4. (\E l : v = [now EXCEPT !.life = l]) \/ (\E n : v = [now EXCEPT !.summary = n])
  BY <1>3
<1>5. VersionShape(v)
  BY <1>2, <1>4 DEF VersionShape
<1>6. UNCHANGED <<cut, given, outcome>>
  BY DEF OtherWrite
<1>7. /\ DOMAIN history' = ItemIds /\ \A j \in ItemIds : ItemHistory(history'[j])
      /\ cut' \in [ItemIds -> Nat] /\ \A j \in ItemIds : cut'[j] <= Len(history'[j])
      /\ DOMAIN given' = Clients /\ \A r \in Clients : ContextHolds(given'[r], history')
  BY <1>3, <1>5, <1>6, WrittenKeeps
<1> QED BY <1>6, <1>7 DEF NInv

LEMMA MarkedStep ==
  ASSUME NInv, NEW i \in ItemIds, NEW n \in 1 .. Versions(i), Mark(i, n)
  PROVE  NInv'
<1>1. cut' = [cut EXCEPT ![i] = n] /\ UNCHANGED <<history, given, outcome>>
  BY DEF Mark
<1>2. Len(history[i]) \in Nat
  BY LengthIsNat DEF NInv
<1>3. n \in Nat /\ n <= Len(history[i])
  BY <1>2 DEF Versions
<1> QED BY <1>1, <1>3 DEF NInv

LEMMA IntentStepKeeps ==
  ASSUME NInv, [IntentNext]_intentVars
  PROVE  NInv'
<1>1. ASSUME NEW t \in Clients, NEW r \in Relations, NEW s \in BOOLEAN, ReadContext(t, r, s)
      PROVE  NInv'
  BY <1>1, ReadContextStep
<1>2. ASSUME NEW t \in Clients, NEW a \in Creations \cup Changes(given[t]), Answer(t, a)
      PROVE  NInv'
  BY <1>2, AnswerStep
<1>3. ASSUME NEW t \in Clients, Apply(t) PROVE NInv'
  BY <1>3, ApplyStep
<1>4. ASSUME NEW i \in ItemIds, OtherWrite(i) PROVE NInv'
  BY <1>4, OtherWriteStep
<1>5. ASSUME NEW i \in ItemIds, NEW n \in 1 .. Versions(i), Mark(i, n) PROVE NInv'
  BY <1>5, MarkedStep
<1>6. CASE DayPasses \/ UNCHANGED intentVars
  <2>1. UNCHANGED <<history, cut, given, outcome>>
    BY <1>6 DEF DayPasses, intentVars
  <2> QED BY <2>1 DEF NInv
<1> QED BY <1>1, <1>2, <1>3, <1>4, <1>5, <1>6 DEF IntentNext

LEMMA IntentInitHolds ==
  ASSUME IntentInit
  PROVE  NInv
<1>1. /\ DOMAIN history = ItemIds /\ cut = [i \in ItemIds |-> 0]
      /\ given = [t \in Clients |-> NoContext] /\ outcome = [t \in Clients |-> NoOutcome]
  BY DEF IntentInit
<1>2. ASSUME NEW i \in ItemIds PROVE ItemHistory(history[i]) /\ 0 <= Len(history[i])
  <2>1. PICK h : h = history[i]
    OBVIOUS
  <2>2. h = << >> \/ \E c : h = <<NewItem(c, 0)>>
    BY <2>1 DEF IntentInit
  <2>3. CASE h = << >>
    <3>1. h \in Seq({}) /\ Len(h) = 0
      BY <2>3
    <3> QED BY <2>1, <3>1 DEF ItemHistory
  <2>4. CASE \E c : h = <<NewItem(c, 0)>>
    <3>1. PICK c : h = <<NewItem(c, 0)>>
      BY <2>4
    <3>2. PICK v : v = NewItem(c, 0)
      OBVIOUS
    <3>3. VersionShape(v)
      BY <3>2 DEF NewItem, VersionShape
    <3>4. h \in Seq({v}) /\ Len(h) = 1 /\ h[1] = v
      BY <3>1, <3>2
    <3> QED BY <2>1, <3>3, <3>4 DEF ItemHistory
  <2> QED BY <2>2, <2>3, <2>4
<1>3. \A t \in Clients : ContextHolds(given[t], history)
  BY <1>1 DEF NoContext, ContextHolds
<1>4. OutcomeHolds(NoOutcome, NoContext)
  BY DEF NoOutcome, OutcomeHolds, OutcomeStates
<1> QED BY <1>1, <1>2, <1>3, <1>4 DEF NInv

\* What is shown of an item was a version of it, what is kept of an answer was
\* read from the context of its turn, and a conflict is a later version.
THEOREM IntentInvariant == IntentSpec => []NInv
<1>1. IntentInit => NInv
  BY IntentInitHolds
<1>2. NInv /\ [IntentNext]_intentVars => NInv'
  BY IntentStepKeeps
<1> QED BY <1>1, <1>2, PTL DEF IntentSpec

\* A bundle conflicts only because the item has a version after the one that was
\* offered, and one that is applied is written over nobody (the comparison in
\* apply_bundle_atomic), whoever else writes.
THEOREM ConflictsAreWrites == IntentSpec => []ConflictsAreReal
<1>1. NInv => ConflictsAreReal
  BY DEF NInv, OutcomeHolds, ConflictsAreReal
<1> QED BY <1>1, IntentInvariant, PTL

LEMMA AppliedIsRead ==
  ASSUME NInv, [IntentNext]_intentVars, NEW t \in Clients,
         outcome[t].state # "applied", outcome'[t].state = "applied"
  PROVE  LET v == history'[Target(t)] IN Content(v[Len(v)]) = outcome[t].reading
<1>1. Apply(t)
  <2>1. ASSUME NEW u \in Clients, NEW r \in Relations, NEW s \in BOOLEAN, ReadContext(u, r, s)
        PROVE  FALSE
    BY <2>1 DEF ReadContext
  <2>2. ASSUME NEW u \in Clients, NEW a \in Creations \cup Changes(given[u]), Answer(u, a)
        PROVE  FALSE
    <3>1. PICK o : /\ o.state \in {"refused", "dropped", "accepted"}
                   /\ outcome' = [outcome EXCEPT ![u] = o]
      <4>1. PICK o : o = IF Refused(a, given[u]) THEN [NoOutcome EXCEPT !.state = "refused"]
                  ELSE [NoOutcome EXCEPT !.state = IF Dropped(a, given[u]) THEN "dropped" ELSE "accepted",
                                         !.answer = a, !.reading = Reading(a, given[u])]
        OBVIOUS
      <4>2. o.state \in {"refused", "dropped", "accepted"}
        BY <4>1 DEF NoOutcome
      <4> QED BY <2>2, <4>1, <4>2 DEF Answer
    <3> QED BY <3>1 DEF NInv
  <2>3. ASSUME NEW u \in Clients, Apply(u), u # t PROVE FALSE
    BY <2>3 DEF Apply, NInv
  <2>4. ASSUME NEW i \in ItemIds, OtherWrite(i) PROVE FALSE
    BY <2>4 DEF OtherWrite
  <2>5. ASSUME NEW i \in ItemIds, NEW n \in 1 .. Versions(i), Mark(i, n) PROVE FALSE
    BY <2>5 DEF Mark
  <2>6. CASE DayPasses \/ UNCHANGED intentVars
    BY <2>6 DEF DayPasses, intentVars
  <2> QED BY <2>1, <2>2, <2>3, <2>4, <2>5, <2>6 DEF IntentNext
<1>2. PICK a : a = outcome[t].answer
  OBVIOUS
<1>3. PICK x : x = Candidate(a, given[t])
  OBVIOUS
<1>4. PICK s : s = IF ~Preflight(t) THEN "conflict"
                   ELSE IF ValidCandidate(x) /\ ValidItem(NextVersion(a, x)) THEN "applied" ELSE "applying"
  OBVIOUS
<1>5. outcome[t].state \in {"accepted", "applying"} /\ UNCHANGED <<cut, given>>
  BY <1>1 DEF Apply
<1>6. s = "applied"
  <2>1. PICK o : o = outcome[t]
    OBVIOUS
  <2>2. PICK u : u = [o EXCEPT !.state = s, !.found = Versions(Target(t))]
    OBVIOUS
  <2>3. outcome' = [outcome EXCEPT ![t] = u]
    BY <1>1, <1>2, <1>3, <1>4, <2>1, <2>2 DEF Apply, NInv
  <2>4. o \in [state : OutcomeStates, answer : {o.answer}, reading : {o.reading}, found : {o.found}]
    BY <2>1 DEF NInv, OutcomeHolds
  <2>5. u.state = s
    BY <2>2, <2>4
  <2> QED BY <2>3, <2>5 DEF NInv
<1>7. Preflight(t) /\ ValidCandidate(x) /\ ValidItem(NextVersion(a, x))
  BY <1>4, <1>6
<1>8. PICK v : v = NextVersion(a, x)
  OBVIOUS
<1>9. PICK i \in ItemIds : i = Target(t) /\ VersionShape(v) /\ Content(v) = outcome[t].reading
  BY <1>2, <1>3, <1>5, <1>7, <1>8, NextVersionIs
<1>10. history' = [history EXCEPT ![i] = Append(@, v)]
  BY <1>1, <1>2, <1>3, <1>7, <1>8, <1>9 DEF Apply
<1>11. history'[i][Len(history'[i])] = v
  BY <1>5, <1>9, <1>10, WrittenKeeps
<1> QED BY <1>9, <1>11

\* The meaning of an accepted answer is kept: what is applied has the content
\* that validate_intent_against_context evaluated, though the outbox computes
\* it a second time (_semantic_candidate); and what the canonicalisations drop
\* would have said nothing new.
THEOREM MeaningSurvives == IntentSpec => MeaningIsKept
<1>1. NInv => DroppedChangesNothing
  BY DEF NInv, OutcomeHolds, SaysNothing, DroppedChangesNothing
<1>2. NInv /\ [IntentNext]_intentVars =>
        [\A t \in Clients :
           outcome[t].state # "applied" /\ outcome'[t].state = "applied" =>
             LET v == history'[Target(t)] IN
             Content(v[Len(v)]) = outcome[t].reading]_intentVars
  BY AppliedIsRead
<1> QED BY <1>1, <1>2, IntentInvariant, PTL DEF MeaningIsKept, AppliedAsRead, IntentSpec

=============================================================================
