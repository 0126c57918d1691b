---------------------------- MODULE ProviderTrace ----------------------------
(***************************************************************************)
(* What one provider leg leaves behind: its trace in the vault             *)
(* (provider_trace_vault_v0.py, written through the bridge of              *)
(* main_runtime_provider_trace_bridge_v0.py) and, for the first leg, its   *)
(* row in the prompt-cache dispatch history                                *)
(* (house_prompt_cache_dispatch_observability_v1.py).  Both are best       *)
(* effort: a failing write is swallowed and the leg goes on.               *)
(*                                                                         *)
(* A trace is a directory with two body files and a manifest that claims   *)
(* identities and outcomes.  Every leg has a fresh trace id, so a trace is *)
(* a function of the leg's own writes; each file is replaced atomically,   *)
(* the pair of them is not.                                                *)
(***************************************************************************)
EXTENDS Naturals, FiniteSets

Files == {"request", "response"}

Claims == Files \cup {"transport_error", "accepted", "rejected"}

\* The vault's root can be unusable from the start.
NewTraces == {[files |-> {}, claims |-> {}, failed |-> f] : f \in BOOLEAN}

Written(t, file, claim) ==
  [t EXCEPT !.files = @ \cup file, !.claims = @ \cup claim]

\* Fault: the manifest is written before the body it claims.
SeededPartlyWritten(t, file, claim) ==
  {t, Written(t, {}, claim), Written(t, file, claim)}

\* Body file first, manifest second; the last one is a manifest that was
\* replaced before its directory could be synchronised.
PartlyWritten(t, file, claim) ==
  {t, Written(t, file, {}), Written(t, file, claim)}

(***************************************************************************)
(* _write: what a vault call can leave on disk and in the bridge.  After a *)
(* failure, or without the receipt of begin_attempt, nothing is called.    *)
(***************************************************************************)
Capture(t, file, claim) ==
  IF t.failed THEN {t}
  ELSE {Written(t, file, claim)} \cup
       {[u EXCEPT !.failed = TRUE] : u \in PartlyWritten(t, file, claim)}

BeginAttempt(t) == Capture(t, {"request"}, {"request"})

\* _write returns before any receipt exists.
HasReceipt(t) == "request" \in t.claims /\ ~t.failed

RecordTransportError(t) ==
  IF HasReceipt(t) THEN Capture(t, {}, {"transport_error"}) ELSE {t}

\* response already recorded: the second one is refused, as a capture failure.
RecordResponse(t) ==
  IF ~HasReceipt(t) THEN {t}
  ELSE IF "response" \in t.claims THEN {[t EXCEPT !.failed = TRUE]}
  ELSE Capture(t, {"response"}, {"response"})

\* run_validated_client: a verdict is recorded for a recorded response only.
RecordVerdict(t, verdict) ==
  IF HasReceipt(t) /\ "response" \in t.claims THEN Capture(t, {}, {verdict}) ELSE {t}

-----------------------------------------------------------------------------
(***************************************************************************)
(* The dispatch row of an operation's first leg.  begin_dispatch happens   *)
(* before the transport, complete_dispatch after the answer was parsed or  *)
(* the attempt failed, update_dispatch_count when the loop has ended.      *)
(***************************************************************************)
NoObservation == [state |-> "none", count |-> 0]

\* build_dispatch_request_observation declines, or the store fails.
BeginDispatch == {NoObservation, [state |-> "begun", count |-> 0]}

CompleteDispatch(o, verdict) ==
  IF o.state # "begun" THEN {o} ELSE {o, [state |-> verdict, count |-> 1]}

\* Only a completed row is updated: result_observation_json is not NULL.
UpdateDispatchCount(o, legs) ==
  IF o.state \in {"answered", "attempt_failed"}
    THEN {o, [o EXCEPT !.count = legs]} ELSE {o}

-----------------------------------------------------------------------------
(***************************************************************************)
(* Whatever failed while a trace was written, its manifest claims a body   *)
(* only when the file is there, a verdict only for a recorded response,    *)
(* and never both an answer and a transport error.                         *)
(***************************************************************************)
ClaimsHold(t) ==
  /\ t.claims \cap Files \subseteq t.files
  /\ t.claims # {} => "request" \in t.claims
  /\ t.claims \cap {"accepted", "rejected"} # {} => "response" \in t.claims
  /\ ~{"transport_error", "response"} \subseteq t.claims
  /\ ~{"accepted", "rejected"} \subseteq t.claims
=============================================================================
