------------------------- MODULE ToolRuntimeProofs -------------------------
(***************************************************************************)
(* Proofs that the durable tool dispatcher keeps its invariants and        *)
(* implements AtMostOnceCall, for any sets of calls, bindings, results and *)
(* workers.                                                                *)
(***************************************************************************)
EXTENDS ToolRuntime, TLAPS

USE DEF ledgerVars

LEMMA RowUpdate ==
  ASSUME NEW r \in Rows, NEW s \in ToolCallStates
  PROVE  [r EXCEPT !.state = s] \in Rows
BY DEF Rows

\* A dispatcher that holds a result of its own call keeps well-formed locals.
LEMMA ResultTyped ==
  ASSUME TypeOK, NEW w \in Workers, NEW s \in {"succeeded", "failed"}, NEW v \in Bodies,
         job[w].binding \in Bindings,
         job' = [job EXCEPT ![w].result = Result(w, s, v)],
         Goto(w, "record")
  PROVE  pc' \in [Workers -> PCs] /\ job' \in [Workers -> Jobs]
<1>1. job[w] \in Jobs /\ Result(w, s, v) \in Results
    BY DEF Result, TypeOK, Results, ToolResultStates
<1>2. [job[w] EXCEPT !.result = Result(w, s, v)] \in Jobs
    BY <1>1 DEF Jobs
<1>3. job' = [job EXCEPT ![w] = [job[w] EXCEPT !.result = Result(w, s, v)]]
    BY Zenon
<1>4. job' \in [Workers -> Jobs]
    BY <1>2, <1>3, Zenon DEF TypeOK
<1> QED BY <1>4 DEF Goto, TypeOK, PCs

LEMMA InitInv == Init => Inv
<1> SUFFICES ASSUME Init PROVE Inv
    OBVIOUS
<1> USE NoneAssumption, NullAssumption, ParentOfAssumption
<1> USE DEF Init, LedgerInit, NoRow, NoJob
<1>1. TypeOK
    BY DEF TypeOK, LedgerTypeOK, Rows, Jobs, PCs, ToolCallStates
<1>2. RowsCoherent
    BY DEF RowsCoherent, ToolCallStates
<1>3. JobsCoherent
    BY DEF JobsCoherent, Owns
<1>4. EffectsCoherent
    BY DEF EffectsCoherent
<1>5. ReturnedAgreesWithLedger
    BY DEF ReturnedAgreesWithLedger
<1> QED BY <1>1, <1>2, <1>3, <1>4, <1>5 DEF Inv

(***************************************************************************)
(* Every step keeps the invariant.  A worker that owns a call excludes the *)
(* others because mark_running leaves "proposed" for good; effects stay    *)
(* tied to ownership because nobody else can pass mark_running.            *)
(***************************************************************************)
LEMMA NextInv == Inv /\ [Next]_vars => Inv'
<1> SUFFICES ASSUME Inv, [Next]_vars PROVE Inv'
    OBVIOUS
<1> USE NoneAssumption, NullAssumption, ParentOfAssumption, RuntimeAssumption
<1> USE DEF Inv, Owns
<1>1. ASSUME NEW w \in Workers, NEW c \in Calls, NEW b \in Bindings, Dispatch(w, c, b) PROVE Inv'
  <2>1. TypeOK'
      BY <1>1 DEF Dispatch, Goto, TypeOK, LedgerTypeOK, Rows, Jobs, PCs, Results, ToolCallStates, ToolResultStates, JobsCoherent
  <2>2. RowsCoherent' /\ ReturnedAgreesWithLedger'
      BY <1>1 DEF Dispatch, Goto, TypeOK, LedgerTypeOK, Rows, RowsCoherent, JobsCoherent, ReturnedAgreesWithLedger, ToolCallStates
  <2>3. JobsCoherent'
      BY <1>1 DEF Dispatch, Goto, TypeOK, LedgerTypeOK, Rows, Jobs, JobsCoherent, Results, ToolResultStates
  <2>4. EffectsCoherent'
      BY <1>1 DEF Dispatch, Goto, TypeOK, LedgerTypeOK, Rows, Jobs, JobsCoherent, EffectsCoherent
  <2> QED BY <2>1, <2>2, <2>3, <2>4
<1>2. ASSUME NEW w \in Workers, RegisterFresh(w) PROVE Inv'
  <2>1. TypeOK'
      BY <1>2 DEF RegisterFresh, RegisterNew, InsertParent, NewRow, Goto, TypeOK, LedgerTypeOK, Rows, Jobs, PCs, Results, ToolCallStates, ToolResultStates, JobsCoherent
  <2>2. RowsCoherent' /\ ReturnedAgreesWithLedger'
      BY <1>2 DEF RegisterFresh, RegisterNew, InsertParent, NewRow, Goto, TypeOK, LedgerTypeOK, Rows, RowsCoherent, JobsCoherent, ReturnedAgreesWithLedger, ToolCallStates
  <2>3. JobsCoherent'
      BY <1>2 DEF RegisterFresh, RegisterNew, InsertParent, NewRow, Goto, TypeOK, LedgerTypeOK, Rows, Jobs, JobsCoherent, ToolCallStates
  <2>4. EffectsCoherent'
      BY <1>2 DEF RegisterFresh, RegisterNew, InsertParent, NewRow, Goto, TypeOK, LedgerTypeOK, Rows, Jobs, JobsCoherent, EffectsCoherent
  <2> QED BY <2>1, <2>2, <2>3, <2>4
<1>3. ASSUME NEW w \in Workers, RegisterRetry(w) PROVE Inv'
  <2>1. TypeOK'
      BY <1>3 DEF RegisterRetry, RegisterReplay, InsertParent, Goto, TypeOK, LedgerTypeOK, Rows, Jobs, PCs, Results, ToolCallStates, ToolResultStates, JobsCoherent
  <2>2. RowsCoherent' /\ ReturnedAgreesWithLedger'
      BY <1>3 DEF RegisterRetry, RegisterReplay, InsertParent, Goto, TypeOK, LedgerTypeOK, Rows, RowsCoherent, JobsCoherent, ReturnedAgreesWithLedger, ToolCallStates
  <2>3. JobsCoherent'
      BY <1>3 DEF RegisterRetry, RegisterReplay, InsertParent, Goto, TypeOK, LedgerTypeOK, Rows, Jobs, JobsCoherent, Results, ToolResultStates
  <2>4. EffectsCoherent'
      BY <1>3 DEF RegisterRetry, RegisterReplay, InsertParent, Goto, TypeOK, LedgerTypeOK, Rows, Jobs, JobsCoherent, EffectsCoherent
  <2> QED BY <2>1, <2>2, <2>3, <2>4
<1>4. ASSUME NEW w \in Workers, RegisterReturnsReplay(w) PROVE Inv'
  <2>1. TypeOK'
      BY <1>4 DEF RegisterReturnsReplay, RegisterReplay, InsertParent, Finish, NoJob, TypeOK, LedgerTypeOK, Rows, Jobs, PCs, Results, ToolCallStates, ToolResultStates, JobsCoherent
  <2>2. RowsCoherent' /\ ReturnedAgreesWithLedger'
      BY <1>4 DEF RegisterReturnsReplay, RegisterReplay, InsertParent, Finish, NoJob, TypeOK, LedgerTypeOK, Rows, RowsCoherent, JobsCoherent, ReturnedAgreesWithLedger, ToolCallStates
  <2>3. JobsCoherent'
      BY <1>4 DEF RegisterReturnsReplay, RegisterReplay, InsertParent, Finish, NoJob, TypeOK, LedgerTypeOK, Rows, Jobs, JobsCoherent, Results, ToolResultStates
  <2>4. EffectsCoherent'
      BY <1>4 DEF RegisterReturnsReplay, RegisterReplay, InsertParent, Finish, NoJob, TypeOK, LedgerTypeOK, Rows, Jobs, JobsCoherent, EffectsCoherent
  <2> QED BY <2>1, <2>2, <2>3, <2>4
<1>5. ASSUME NEW w \in Workers, RegisterNotDispatchable(w) PROVE Inv'
  <2>1. TypeOK'
      BY <1>5 DEF RegisterNotDispatchable, RegisterReplay, InsertParent, Finish, NoJob, TypeOK, LedgerTypeOK, Rows, Jobs, PCs, Results, ToolCallStates, ToolResultStates, JobsCoherent
  <2>2. RowsCoherent' /\ ReturnedAgreesWithLedger'
      BY <1>5 DEF RegisterNotDispatchable, RegisterReplay, InsertParent, Finish, NoJob, TypeOK, LedgerTypeOK, Rows, RowsCoherent, JobsCoherent, ReturnedAgreesWithLedger, ToolCallStates
  <2>3. JobsCoherent'
      BY <1>5 DEF RegisterNotDispatchable, RegisterReplay, InsertParent, Finish, NoJob, TypeOK, LedgerTypeOK, Rows, Jobs, JobsCoherent, Results, ToolResultStates
  <2>4. EffectsCoherent'
      BY <1>5 DEF RegisterNotDispatchable, RegisterReplay, InsertParent, Finish, NoJob, TypeOK, LedgerTypeOK, Rows, Jobs, JobsCoherent, EffectsCoherent
  <2> QED BY <2>1, <2>2, <2>3, <2>4
<1>6. ASSUME NEW w \in Workers, RegisterCollides(w) PROVE Inv'
  <2>1. TypeOK'
      BY <1>6 DEF RegisterCollides, RegisterCollision, Finish, NoJob, TypeOK, LedgerTypeOK, Rows, Jobs, PCs, Results, ToolCallStates, ToolResultStates, JobsCoherent
  <2>2. RowsCoherent' /\ ReturnedAgreesWithLedger'
      BY <1>6 DEF RegisterCollides, RegisterCollision, Finish, NoJob, TypeOK, LedgerTypeOK, Rows, RowsCoherent, JobsCoherent, ReturnedAgreesWithLedger, ToolCallStates
  <2>3. JobsCoherent'
      BY <1>6 DEF RegisterCollides, RegisterCollision, Finish, NoJob, TypeOK, LedgerTypeOK, Rows, Jobs, JobsCoherent, Results, ToolResultStates
  <2>4. EffectsCoherent'
      BY <1>6 DEF RegisterCollides, RegisterCollision, Finish, NoJob, TypeOK, LedgerTypeOK, Rows, Jobs, JobsCoherent, EffectsCoherent
  <2> QED BY <2>1, <2>2, <2>3, <2>4
<1>7. ASSUME NEW w \in Workers, StartRunning(w) PROVE Inv'
  <2>1. TypeOK'
    <3>1. job[w].call \in Calls /\ ParentOf[job[w].call] \in Parents
        BY <1>7 DEF StartRunning, JobsCoherent
    <3> DEFINE k == job[w].call
    <3>2. parents' = [parents EXCEPT ![ParentOf[k]] = "running"]
        BY <1>7 DEF StartRunning, MarkRunning
    <3>3. k \in Calls /\ calls' = [calls EXCEPT ![k].state = "running"]
        BY <1>7, <3>1 DEF StartRunning, MarkRunning
    <3> HIDE DEF k
    <3>4. parents' \in [Parents -> {"accepted", "running", None}]
        BY <3>2 DEF TypeOK, LedgerTypeOK
    <3>5. calls' \in [Calls -> Rows]
      <4>1. k \in Calls /\ calls \in [Calls -> Rows] /\ "running" \in ToolCallStates
          BY <3>3 DEF TypeOK, LedgerTypeOK, ToolCallStates
      <4>2. [calls[k] EXCEPT !.state = "running"] \in Rows
          BY <4>1, RowUpdate
      <4> QED BY <3>3, <4>1, <4>2, Zenon
    <3> QED BY <1>7, <3>4, <3>5 DEF StartRunning, Goto, TypeOK, LedgerTypeOK, PCs
  <2>2. RowsCoherent' /\ ReturnedAgreesWithLedger'
      BY <1>7 DEF StartRunning, MarkRunning, Goto, TypeOK, LedgerTypeOK, Rows, RowsCoherent, JobsCoherent, ReturnedAgreesWithLedger, ToolCallStates
  <2>3. JobsCoherent'
      BY <1>7 DEF StartRunning, MarkRunning, Goto, TypeOK, LedgerTypeOK, Rows, Jobs, JobsCoherent, Results, ToolResultStates
  <2>4. EffectsCoherent'
      BY <1>7 DEF StartRunning, MarkRunning, Goto, TypeOK, LedgerTypeOK, Rows, Jobs, JobsCoherent, EffectsCoherent
  <2> QED BY <2>1, <2>2, <2>3, <2>4
<1>8. ASSUME NEW w \in Workers, StartRefused(w) PROVE Inv'
  <2>1. TypeOK'
      BY <1>8 DEF StartRefused, MarkRunningRefused, Finish, NoJob, TypeOK, LedgerTypeOK, Rows, Jobs, PCs, Results, ToolCallStates, ToolResultStates, JobsCoherent
  <2>2. RowsCoherent' /\ ReturnedAgreesWithLedger'
      BY <1>8 DEF StartRefused, MarkRunningRefused, Finish, NoJob, TypeOK, LedgerTypeOK, Rows, RowsCoherent, JobsCoherent, ReturnedAgreesWithLedger, ToolCallStates
  <2>3. JobsCoherent'
      BY <1>8 DEF StartRefused, MarkRunningRefused, Finish, NoJob, TypeOK, LedgerTypeOK, Rows, Jobs, JobsCoherent, Results, ToolResultStates
  <2>4. EffectsCoherent'
      BY <1>8 DEF StartRefused, MarkRunningRefused, Finish, NoJob, TypeOK, LedgerTypeOK, Rows, Jobs, JobsCoherent, EffectsCoherent
  <2> QED BY <2>1, <2>2, <2>3, <2>4
<1>9. ASSUME NEW w \in Workers, ArgumentsIncomplete(w) PROVE Inv'
  <2>1. TypeOK'
    <3>1. job[w].binding \in Bindings
        BY <1>9 DEF ArgumentsIncomplete, JobsCoherent
    <3>2. pc' \in [Workers -> PCs] /\ job' \in [Workers -> Jobs]
        BY <1>9, <3>1, ResultTyped, RuntimeAssumption DEF ArgumentsIncomplete
    <3> QED BY <1>9, <3>2 DEF ArgumentsIncomplete, TypeOK, LedgerTypeOK
  <2>2. RowsCoherent' /\ ReturnedAgreesWithLedger'
      BY <1>9 DEF ArgumentsIncomplete, Goto, Result, TypeOK, LedgerTypeOK, Rows, RowsCoherent, JobsCoherent, ReturnedAgreesWithLedger, ToolCallStates
  <2>3. JobsCoherent'
      BY <1>9 DEF ArgumentsIncomplete, Goto, Result, TypeOK, LedgerTypeOK, Rows, Jobs, JobsCoherent, Results, ToolResultStates
  <2>4. EffectsCoherent'
      BY <1>9 DEF ArgumentsIncomplete, Goto, Result, TypeOK, LedgerTypeOK, Rows, Jobs, JobsCoherent, EffectsCoherent
  <2> QED BY <2>1, <2>2, <2>3, <2>4
<1>10. ASSUME NEW w \in Workers, BrokerRefuses(w) PROVE Inv'
  <2>1. TypeOK'
    <3>1. job[w].binding \in Bindings
        BY <1>10 DEF BrokerRefuses, JobsCoherent
    <3>2. pc' \in [Workers -> PCs] /\ job' \in [Workers -> Jobs]
        BY <1>10, <3>1, ResultTyped, RuntimeAssumption DEF BrokerRefuses
    <3> QED BY <1>10, <3>2 DEF BrokerRefuses, TypeOK, LedgerTypeOK
  <2>2. RowsCoherent' /\ ReturnedAgreesWithLedger'
      BY <1>10 DEF BrokerRefuses, Goto, Result, TypeOK, LedgerTypeOK, Rows, RowsCoherent, JobsCoherent, ReturnedAgreesWithLedger, ToolCallStates
  <2>3. JobsCoherent'
      BY <1>10 DEF BrokerRefuses, Goto, Result, TypeOK, LedgerTypeOK, Rows, Jobs, JobsCoherent, Results, ToolResultStates
  <2>4. EffectsCoherent'
      BY <1>10 DEF BrokerRefuses, Goto, Result, TypeOK, LedgerTypeOK, Rows, Jobs, JobsCoherent, EffectsCoherent
  <2> QED BY <2>1, <2>2, <2>3, <2>4
<1>11. ASSUME NEW w \in Workers, ToolTakesEffect(w) PROVE Inv'
  <2>1. TypeOK'
      BY <1>11 DEF ToolTakesEffect, Goto, TypeOK, LedgerTypeOK, Rows, Jobs, PCs, Results, ToolCallStates, ToolResultStates, JobsCoherent
  <2>2. RowsCoherent' /\ ReturnedAgreesWithLedger'
      BY <1>11 DEF ToolTakesEffect, Goto, TypeOK, LedgerTypeOK, Rows, RowsCoherent, JobsCoherent, ReturnedAgreesWithLedger, ToolCallStates
  <2>3. JobsCoherent'
      BY <1>11 DEF ToolTakesEffect, Goto, TypeOK, LedgerTypeOK, Rows, Jobs, JobsCoherent, Results, ToolResultStates
  <2>4. EffectsCoherent'
      BY <1>11 DEF ToolTakesEffect, Goto, TypeOK, LedgerTypeOK, Rows, Jobs, JobsCoherent, EffectsCoherent
  <2> QED BY <2>1, <2>2, <2>3, <2>4
<1>12. ASSUME NEW w \in Workers, NEW v \in Bodies, ToolSucceeds(w, v) PROVE Inv'
  <2>1. TypeOK'
    <3>1. job[w].binding \in Bindings
        BY <1>12 DEF ToolSucceeds, JobsCoherent
    <3>2. pc' \in [Workers -> PCs] /\ job' \in [Workers -> Jobs]
        BY <1>12, <3>1, ResultTyped, RuntimeAssumption DEF ToolSucceeds
    <3> QED BY <1>12, <3>2 DEF ToolSucceeds, TypeOK, LedgerTypeOK
  <2>2. RowsCoherent' /\ ReturnedAgreesWithLedger'
      BY <1>12 DEF ToolSucceeds, Goto, Result, TypeOK, LedgerTypeOK, Rows, RowsCoherent, JobsCoherent, ReturnedAgreesWithLedger, ToolCallStates
  <2>3. JobsCoherent'
      BY <1>12 DEF ToolSucceeds, Goto, Result, TypeOK, LedgerTypeOK, Rows, Jobs, JobsCoherent, Results, ToolResultStates
  <2>4. EffectsCoherent'
      BY <1>12 DEF ToolSucceeds, Goto, Result, TypeOK, LedgerTypeOK, Rows, Jobs, JobsCoherent, EffectsCoherent
  <2> QED BY <2>1, <2>2, <2>3, <2>4
<1>13. ASSUME NEW w \in Workers, ToolFailsAfterEffect(w) PROVE Inv'
  <2>1. TypeOK'
    <3>1. job[w].binding \in Bindings
        BY <1>13 DEF ToolFailsAfterEffect, JobsCoherent
    <3>2. pc' \in [Workers -> PCs] /\ job' \in [Workers -> Jobs]
        BY <1>13, <3>1, ResultTyped, RuntimeAssumption DEF ToolFailsAfterEffect
    <3> QED BY <1>13, <3>2 DEF ToolFailsAfterEffect, TypeOK, LedgerTypeOK
  <2>2. RowsCoherent' /\ ReturnedAgreesWithLedger'
      BY <1>13 DEF ToolFailsAfterEffect, Goto, Result, TypeOK, LedgerTypeOK, Rows, RowsCoherent, JobsCoherent, ReturnedAgreesWithLedger, ToolCallStates
  <2>3. JobsCoherent'
      BY <1>13 DEF ToolFailsAfterEffect, Goto, Result, TypeOK, LedgerTypeOK, Rows, Jobs, JobsCoherent, Results, ToolResultStates
  <2>4. EffectsCoherent'
      BY <1>13 DEF ToolFailsAfterEffect, Goto, Result, TypeOK, LedgerTypeOK, Rows, Jobs, JobsCoherent, EffectsCoherent
  <2> QED BY <2>1, <2>2, <2>3, <2>4
<1>14. ASSUME NEW w \in Workers, NormalizationEscapes(w) PROVE Inv'
  <2>1. TypeOK'
      BY <1>14 DEF NormalizationEscapes, Finish, NoJob, TypeOK, LedgerTypeOK, Rows, Jobs, PCs, Results, ToolCallStates, ToolResultStates, JobsCoherent
  <2>2. RowsCoherent' /\ ReturnedAgreesWithLedger'
      BY <1>14 DEF NormalizationEscapes, Finish, NoJob, TypeOK, LedgerTypeOK, Rows, RowsCoherent, JobsCoherent, ReturnedAgreesWithLedger, ToolCallStates
  <2>3. JobsCoherent'
      BY <1>14 DEF NormalizationEscapes, Finish, NoJob, TypeOK, LedgerTypeOK, Rows, Jobs, JobsCoherent, Results, ToolResultStates
  <2>4. EffectsCoherent'
      BY <1>14 DEF NormalizationEscapes, Finish, NoJob, TypeOK, LedgerTypeOK, Rows, Jobs, JobsCoherent, EffectsCoherent
  <2> QED BY <2>1, <2>2, <2>3, <2>4
<1>15. ASSUME NEW w \in Workers, StoreResult(w) PROVE Inv'
  <2>1. TypeOK'
    <3> DEFINE k == job[w].call
               r == job[w].result
    <3>1. /\ k \in Calls /\ r \in Results /\ r.state \in {"succeeded", "failed"}
          /\ calls' = [calls EXCEPT ![k].state = r.state, ![k].receipt = r, ![k].replay = r]
          /\ returned' = [returned EXCEPT ![k] = @ \cup {r}]
          /\ parents' = parents /\ effects' = effects
        BY <1>15 DEF StoreResult, RecordResult, ReplayPayload, HasReplayPayload, JobsCoherent
    <3>2. NoJob \in Jobs
        BY DEF NoJob, Jobs
    <3>3. pc' \in [Workers -> PCs] /\ job' \in [Workers -> Jobs]
        BY <1>15, <3>2 DEF StoreResult, Finish, TypeOK, PCs
    <3> HIDE DEF k, r
    <3>4. calls' \in [Calls -> Rows]
      <4>1. calls \in [Calls -> Rows] /\ calls[k] \in Rows
          BY <3>1 DEF TypeOK, LedgerTypeOK
      <4>2. [calls[k] EXCEPT !.state = r.state, !.receipt = r, !.replay = r] \in Rows
          BY <3>1, <4>1 DEF Rows, ToolCallStates
      <4>3. calls' = [calls EXCEPT ![k] =
                        [calls[k] EXCEPT !.state = r.state, !.receipt = r, !.replay = r]]
          BY <3>1, <4>1
      <4> QED BY <4>1, <4>2, <4>3, Zenon
    <3>5. returned' \in [Calls -> SUBSET Results]
        BY <3>1 DEF TypeOK
    <3> QED BY <3>1, <3>3, <3>4, <3>5 DEF TypeOK, LedgerTypeOK
  <2>2. RowsCoherent' /\ ReturnedAgreesWithLedger'
    <3> DEFINE k == job[w].call
               r == job[w].result
    <3>1. /\ k \in Calls /\ r \in Results /\ r.state \in {"succeeded", "failed"}
          /\ calls[k].receipt = None
          /\ calls' = [calls EXCEPT ![k].state = r.state, ![k].receipt = r, ![k].replay = r]
          /\ returned' = [returned EXCEPT ![k] = @ \cup {r}]
        BY <1>15 DEF StoreResult, RecordResult, ReplayPayload, HasReplayPayload, JobsCoherent
    <3>2. returned[k] = {}
        BY <3>1 DEF TypeOK, ReturnedAgreesWithLedger
    <3> HIDE DEF k, r
    <3>3. RowsCoherent'
        BY <3>1 DEF TypeOK, LedgerTypeOK, Rows, RowsCoherent, ToolCallStates
    <3>4. ReturnedAgreesWithLedger'
        BY <3>1, <3>2 DEF TypeOK, LedgerTypeOK, Rows, ReturnedAgreesWithLedger
    <3> QED BY <3>3, <3>4
  <2>3. JobsCoherent'
    <3> DEFINE k == job[w].call
               r == job[w].result
    <3>1. /\ k \in Calls /\ r.state # None
          /\ calls' = [calls EXCEPT ![k].state = r.state, ![k].receipt = r, ![k].replay = r]
        BY <1>15 DEF StoreResult, RecordResult, ReplayPayload, HasReplayPayload, JobsCoherent,
           ToolCallStates
    <3>2. \A u \in Workers \ {w} : Owns(u) => job[u].call # k
        BY <1>15 DEF StoreResult, JobsCoherent
    <3> HIDE DEF k, r
    <3>3. /\ pc' = [pc EXCEPT ![w] = "idle"]
          /\ \A u \in Workers \ {w} : job'[u] = job[u]
        BY <1>15 DEF StoreResult, Finish, TypeOK
    <3> QED BY <3>1, <3>2, <3>3 DEF TypeOK, LedgerTypeOK, Rows, JobsCoherent
  <2>4. EffectsCoherent'
    <3> DEFINE k == job[w].call
               r == job[w].result
    <3>1. /\ k \in Calls /\ r.state \in {"succeeded", "failed"} /\ r.state # None
          /\ calls' = [calls EXCEPT ![k].state = r.state, ![k].receipt = r, ![k].replay = r]
          /\ effects' = effects
        BY <1>15 DEF StoreResult, RecordResult, ReplayPayload, HasReplayPayload, JobsCoherent,
           ToolCallStates
    <3>2. /\ pc' = [pc EXCEPT ![w] = "idle"]
          /\ \A u \in Workers \ {w} : job'[u] = job[u]
        BY <1>15 DEF StoreResult, Finish, TypeOK
    <3> HIDE DEF k, r
    <3>3. /\ \A c \in Calls \ {k} : calls'[c] = calls[c]
          /\ calls'[k].state = r.state
      <4>1. calls \in [Calls -> Rows] /\ calls[k] \in Rows
          BY <3>1 DEF TypeOK, LedgerTypeOK
      <4>2. calls'[k] = [calls[k] EXCEPT !.state = r.state, !.receipt = r, !.replay = r]
          BY <3>1, <4>1
      <4> QED BY <3>1, <4>1, <4>2 DEF Rows
    <3>4. \A c \in Calls :
            /\ effects'[c] \in {0, 1}
            /\ calls'[c].state \in {None, "proposed", "cancelled"} => effects'[c] = 0
        BY <3>1, <3>3 DEF EffectsCoherent
    <3>5. \A u \in Workers :
            /\ pc'[u] = "idle" \/ (pc'[u] = pc[u] /\ job'[u] = job[u])
        BY <3>2 DEF TypeOK
    <3>6. ASSUME NEW u \in Workers
          PROVE  /\ pc'[u] = "owned" => effects'[job'[u].call] = 0
                 /\ pc'[u] = "acted" => effects'[job'[u].call] = 1
                 /\ (pc'[u] = "record" /\ job'[u].result.state = "succeeded")
                       => effects'[job'[u].call] = 1
      <4>1. CASE pc'[u] = "idle"
          BY <4>1
      <4>2. CASE pc'[u] = pc[u] /\ job'[u] = job[u]
          BY <3>1, <4>2 DEF EffectsCoherent
      <4> QED BY <3>5, <4>1, <4>2
    <3> QED BY <3>4, <3>6 DEF EffectsCoherent
  <2> QED BY <2>1, <2>2, <2>3, <2>4
<1>16. ASSUME NEW w \in Workers, Crash(w) PROVE Inv'
  <2>1. TypeOK'
      BY <1>16 DEF Crash, Finish, NoJob, TypeOK, LedgerTypeOK, Rows, Jobs, PCs, Results, ToolCallStates, ToolResultStates, JobsCoherent
  <2>2. RowsCoherent' /\ ReturnedAgreesWithLedger'
      BY <1>16 DEF Crash, Finish, NoJob, TypeOK, LedgerTypeOK, Rows, RowsCoherent, JobsCoherent, ReturnedAgreesWithLedger, ToolCallStates
  <2>3. JobsCoherent'
      BY <1>16 DEF Crash, Finish, NoJob, TypeOK, LedgerTypeOK, Rows, Jobs, JobsCoherent, Results, ToolResultStates
  <2>4. EffectsCoherent'
      BY <1>16 DEF Crash, Finish, NoJob, TypeOK, LedgerTypeOK, Rows, Jobs, JobsCoherent, EffectsCoherent
  <2> QED BY <2>1, <2>2, <2>3, <2>4
<1>17. ASSUME NEW c \in Calls, Cancel(c) PROVE Inv'
  <2> USE DEF Cancel, CancelBeforeExecution
  <2>1. TypeOK'
      BY <1>17 DEF TypeOK, LedgerTypeOK, Rows, ToolCallStates
  <2>2. RowsCoherent' /\ ReturnedAgreesWithLedger'
      BY <1>17 DEF TypeOK, LedgerTypeOK, Rows, RowsCoherent, ReturnedAgreesWithLedger, ToolCallStates
  <2>3. JobsCoherent'
      BY <1>17 DEF TypeOK, LedgerTypeOK, Rows, JobsCoherent, ToolCallStates
  <2>4. EffectsCoherent'
      BY <1>17 DEF TypeOK, LedgerTypeOK, Rows, JobsCoherent, EffectsCoherent
  <2> QED BY <2>1, <2>2, <2>3, <2>4
<1>18. CASE UNCHANGED vars
    BY <1>18 DEF vars, TypeOK, LedgerTypeOK, RowsCoherent, JobsCoherent, EffectsCoherent,
       ReturnedAgreesWithLedger
<1> QED
    BY <1>1, <1>2, <1>3, <1>4, <1>5, <1>6, <1>7, <1>8, <1>9, <1>10, <1>11, <1>12, <1>13, <1>14, <1>15, <1>16, <1>17, <1>18 DEF Next, Step

-----------------------------------------------------------------------------
(***************************************************************************)
(* The type invariant, for every instance.                                 *)
(***************************************************************************)
THEOREM TypeCorrect == Spec => []TypeOK
<1>1. Inv => TypeOK
    BY DEF Inv
<1> QED BY InitInv, NextInv, <1>1, PTL DEF Spec

(***************************************************************************)
(* The rows a dispatch owns are exclusively its own, and record_result     *)
(* never turns its answer away.                                            *)
(***************************************************************************)
THEOREM OwnersExclude == Spec => []ExclusiveOwner
<1>1. Inv => ExclusiveOwner
  <2> SUFFICES ASSUME Inv, NEW w \in Workers, Owns(w)
               PROVE  /\ calls[job[w].call].state = "running"
                      /\ calls[job[w].call].binding = job[w].binding
                      /\ pc[w] = "record" => /\ ~RecordIsReplay(job[w].call, job[w].result)
                                             /\ ~RecordIsRefused(job[w].call, job[w].result)
                      /\ \A v \in Workers \ {w} : Owns(v) => job[v].call # job[w].call
      BY DEF ExclusiveOwner
  <2>1. /\ calls[job[w].call].state = "running"
        /\ calls[job[w].call].binding = job[w].binding
        /\ \A v \in Workers \ {w} : Owns(v) => job[v].call # job[w].call
      BY DEF Inv, JobsCoherent
  <2>2. job[w].call \in Calls /\ calls[job[w].call].receipt = None
      BY <2>1 DEF Inv, JobsCoherent, RowsCoherent, Owns
  <2>3. ASSUME pc[w] = "record"
        PROVE  /\ ~RecordIsReplay(job[w].call, job[w].result)
               /\ ~RecordIsRefused(job[w].call, job[w].result)
      BY <2>1, <2>2, <2>3, NullAssumption, NoneAssumption
         DEF Inv, JobsCoherent, RecordIsReplay, RecordIsRefused
  <2> QED BY <2>1, <2>3
<1> QED BY InitInv, NextInv, <1>1, PTL DEF Spec

(***************************************************************************)
(* All answers ever returned for a call are the one in the ledger.         *)
(***************************************************************************)
THEOREM AnswersAgree == Spec => []ReturnedAgreesWithLedger
<1>1. Inv => ReturnedAgreesWithLedger
    BY DEF Inv
<1> QED BY InitInv, NextInv, <1>1, PTL DEF Spec

(***************************************************************************)
(* The dispatcher implements AtMostOnceCall: under the mapping Status a    *)
(* mark_running is a claim, the tool call is the effect, record_result     *)
(* settles, cancel_before_execution cancels, and every other step stutters. *)
(***************************************************************************)
LEMMA InitRefines == Init => Promise!Init
BY DEF Init, LedgerInit, NoRow, Status, Promise!Init

LEMMA StepRefines == Inv /\ Inv' /\ [Next]_vars => [Promise!Next]_(Promise!vars)
<1> SUFFICES ASSUME Inv, Inv', [Next]_vars PROVE [Promise!Next]_(Promise!vars)
    OBVIOUS
<1> USE NoneAssumption, NullAssumption, ParentOfAssumption
<1>1. ASSUME UNCHANGED calls, UNCHANGED effects
      PROVE  UNCHANGED Promise!vars
    BY <1>1 DEF Promise!vars
<1>2. ASSUME NEW w \in Workers, RegisterFresh(w) PROVE UNCHANGED Promise!vars
  <2> DEFINE k == job[w].call
  <2>1. /\ k \in Calls /\ calls[k].state = None /\ calls[k].receipt = None
        /\ calls' = [calls EXCEPT ![k] = NewRow(job[w].binding)]
        /\ effects' = effects
      BY <1>2 DEF Inv, RegisterFresh, RegisterNew, JobsCoherent, RowsCoherent
  <2> HIDE DEF k
  <2>2. \A c \in Calls : Status(calls'[c]) = Status(calls[c])
      BY <2>1 DEF Inv, TypeOK, LedgerTypeOK, Status, NewRow
  <2>3. \A c \in Calls : calls'[c].receipt = calls[c].receipt
      BY <2>1 DEF Inv, TypeOK, LedgerTypeOK, NewRow
  <2> QED BY <2>1, <2>2, <2>3 DEF Promise!vars
<1>3. ASSUME NEW w \in Workers, StartRunning(w) PROVE Promise!Next
  <2> DEFINE k == job[w].call
  <2>1. /\ k \in Calls /\ calls[k].state = "proposed"
        /\ calls' = [calls EXCEPT ![k].state = "running"]
        /\ effects' = effects
      BY <1>3 DEF Inv, StartRunning, MarkRunning, JobsCoherent
  <2> HIDE DEF k
  <2>2. /\ Status(calls[k]) = "open"
        /\ [c \in Calls |-> Status(calls'[c])]
             = [[c \in Calls |-> Status(calls[c])] EXCEPT ![k] = "claimed"]
        /\ \A c \in Calls : calls'[c].receipt = calls[c].receipt
    <3>1. \A c \in Calls : /\ calls'[c].receipt = calls[c].receipt
                           /\ calls'[c].state = IF c = k THEN "running" ELSE calls[c].state
        BY <2>1 DEF Inv, TypeOK, LedgerTypeOK, Rows
    <3>2. \A c \in Calls : Status(calls'[c]) = IF c = k THEN "claimed" ELSE Status(calls[c])
        BY <3>1, NoneAssumption DEF Status
    <3> QED BY <2>1, <3>1, <3>2 DEF Status
  <2>3. Promise!Claim(k)
      BY <2>1, <2>2 DEF Promise!Claim
  <2> QED BY <2>1, <2>3 DEF Promise!Next
<1>4. ASSUME NEW w \in Workers, ToolTakesEffect(w) PROVE Promise!Next
  <2> DEFINE k == job[w].call
  <2>1. /\ k \in Calls /\ calls[k].state = "running" /\ effects[k] = 0
        /\ calls' = calls
        /\ effects' = [effects EXCEPT ![k] = effects[k] + 1]
      BY <1>4 DEF Inv, ToolTakesEffect, JobsCoherent, EffectsCoherent, Owns
  <2> HIDE DEF k
  <2>2. Status(calls[k]) = "claimed"
      BY <2>1 DEF Status
  <2>3. Promise!Effect(k)
      BY <2>1, <2>2 DEF Promise!Effect, Inv, TypeOK
  <2> QED BY <2>1, <2>3 DEF Promise!Next
<1>5. ASSUME NEW w \in Workers, StoreResult(w) PROVE Promise!Next
  <2>0. PICK k \in Calls, r \in Results : k = job[w].call /\ r = job[w].result
      BY <1>5 DEF Inv, StoreResult, JobsCoherent
  <2>1. /\ r.state \in {"succeeded", "failed"}
        /\ calls[k].state = "running"
        /\ calls' = [calls EXCEPT ![k].state = r.state, ![k].receipt = r, ![k].replay = r]
        /\ effects' = effects
        /\ r.state = "succeeded" => effects[k] = 1
      BY <1>5, <2>0 DEF Inv, StoreResult, RecordResult, ReplayPayload, HasReplayPayload,
         JobsCoherent, EffectsCoherent
  <2>2. /\ \A c \in Calls \ {k} : calls'[c] = calls[c]
        /\ calls'[k].state = r.state /\ calls'[k].receipt = r
      BY <2>1 DEF Inv, TypeOK, LedgerTypeOK, Rows
  <2>3. /\ Status(calls[k]) = "claimed" /\ Status(calls'[k]) = "settled"
        /\ \A c \in Calls \ {k} : Status(calls'[c]) = Status(calls[c])
      BY <2>1, <2>2 DEF Status, ToolCallStates
  <2>4. effects' = effects /\ (r.state = "succeeded" => effects[k] = 1)
      BY <2>1
  <2>5. [c \in Calls |-> Status(calls'[c])]
          = [[c \in Calls |-> Status(calls[c])] EXCEPT ![k] = "settled"]
      BY <2>3
  <2>6. [c \in Calls |-> calls'[c].receipt]
          = [[c \in Calls |-> calls[c].receipt] EXCEPT ![k] = r]
      BY <2>2
  <2>7. Promise!Settle(k, r)
      BY <2>3, <2>4, <2>5, <2>6 DEF Promise!Settle
  <2> QED BY <2>7, Zenon DEF Promise!Next
<1>6. ASSUME NEW c \in Calls, Cancel(c) PROVE Promise!Next
  <2>1. /\ calls[c].state = "proposed"
        /\ calls' = [calls EXCEPT ![c].state = "cancelled"]
        /\ effects' = effects
      BY <1>6 DEF Cancel, CancelBeforeExecution
  <2>2. /\ \A d \in Calls \ {c} : calls'[d] = calls[d]
        /\ calls'[c].state = "cancelled" /\ calls'[c].receipt = calls[c].receipt
      BY <2>1 DEF Inv, TypeOK, LedgerTypeOK, Rows
  <2>3. /\ Status(calls[c]) = "open" /\ Status(calls'[c]) = "cancelled"
        /\ \A d \in Calls \ {c} : Status(calls'[d]) = Status(calls[d])
      BY <2>1, <2>2 DEF Status, ToolCallStates
  <2>4. effects' = effects
      BY <2>1
  <2>5. [d \in Calls |-> Status(calls'[d])]
          = [[d \in Calls |-> Status(calls[d])] EXCEPT ![c] = "cancelled"]
      BY <2>3
  <2>6. [d \in Calls |-> calls'[d].receipt] = [d \in Calls |-> calls[d].receipt]
      BY <2>2
  <2>7. Promise!Cancel(c)
      BY <2>3, <2>4, <2>5, <2>6 DEF Promise!Cancel
  <2> QED BY <2>7 DEF Promise!Next
<1>7. ASSUME NEW w \in Workers,
             \/ \E c \in Calls, b \in Bindings : Dispatch(w, c, b)
             \/ RegisterRetry(w) \/ RegisterReturnsReplay(w)
             \/ RegisterNotDispatchable(w) \/ RegisterCollides(w)
             \/ StartRefused(w) \/ ArgumentsIncomplete(w) \/ BrokerRefuses(w)
             \/ \E v \in Bodies : ToolSucceeds(w, v)
             \/ ToolFailsAfterEffect(w) \/ NormalizationEscapes(w) \/ Crash(w)
      PROVE  UNCHANGED calls /\ UNCHANGED effects
    BY <1>7 DEF Dispatch, RegisterRetry, RegisterReturnsReplay, RegisterReplay,
       RegisterNotDispatchable, RegisterCollides, RegisterCollision, StartRefused,
       MarkRunningRefused, ArgumentsIncomplete, BrokerRefuses, ToolSucceeds,
       ToolFailsAfterEffect, NormalizationEscapes, Crash
<1>8. CASE UNCHANGED vars
    BY <1>1, <1>8 DEF vars
<1> QED BY <1>1, <1>2, <1>3, <1>4, <1>5, <1>6, <1>7, <1>8 DEF Next, Step

THEOREM Refinement == Spec => ImplementsAtMostOnce
<1>1. Inv /\ Inv' /\ [Next]_vars => [Promise!Next]_(Promise!vars)
    BY StepRefines
<1> QED BY InitInv, NextInv, InitRefines, <1>1, PTL DEF Spec, ImplementsAtMostOnce, Promise!Spec

=============================================================================
