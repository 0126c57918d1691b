------------------------------ MODULE AgentLoop ------------------------------
(***************************************************************************)
(* One provider-agent operation end to end: run_provider_agent_live_       *)
(* runtime_async (house_provider_agent_live_runtime_v0.py) drives          *)
(* run_provider_agent_loop (house_provider_agent_loop_v0.py), which calls  *)
(* the provider leg by leg and hands its tool calls to the durable         *)
(* dispatcher; the broker, the tool-call ledger and the leg's trace are    *)
(* the modules extended here.                                              *)
(*                                                                         *)
(* Runners are threads, or the processes before and after a restart, that  *)
(* run the SAME stable operation: a client that retries a turn derives the *)
(* same parent, leg and call ids, while the model may ask for something    *)
(* else this time and the catalog may have changed since.                  *)
(***************************************************************************)
EXTENDS ToolBroker, ToolOperationLedger, ProviderTrace

CONSTANTS
  Runners,
  MaxLegs,      \* max_provider_legs: legs that may use tools
  MaxIndex      \* calls the model makes in one leg (bound of the model)

ASSUME LimitsAssumption == MaxLegs \in Nat /\ MaxIndex \in Nat

ASSUME CallsAreDerived == Calls = (0 .. MaxLegs - 1) \X (1 .. MaxIndex)

\* What a call's binding hash covers: the tool, its schema and the arguments.
ASSUME BindingsAreRecords ==
  Bindings = [tool : Tools, schema : Schemas, args : {"complete", "malformed"}]

ASSUME BodiesAreAnswers == Bodies = {"answer", "unavailable"}

VARIABLES
  run,     \* a runner's operation in memory
  acted,   \* history: bindings that took effect in the world, per call id
  reply    \* history: the provider answered this runner's current leg

agentVars == <<brokerVars, ledgerVars, run, acted, reply>>

Modes == {"free", "structured", "forbidden"}

NoAnswers == [c \in Calls |-> None]

Idle(mode) ==
  [pc |-> "idle", mode |-> mode, leg |-> 0, surface |-> [t \in Tools |-> Nil],
   asked |-> NoAnswers, answers |-> NoAnswers, call |-> None, result |-> None,
   sameIds |-> FALSE, cancel |-> FALSE, outcome |-> "none",
   trace |-> [files |-> {}, claims |-> {}, failed |-> FALSE], observed |-> NoObservation]

AgentInit(modes) ==
  /\ BrokerInit
  /\ LedgerInit
  /\ run \in [Runners -> {Idle(m) : m \in modes}]
  /\ acted = [c \in Calls |-> {}]
  /\ reply = [r \in Runners |-> FALSE]

\* The runner's memory changes and nothing else.
Local(r, new) ==
  /\ run' = [run EXCEPT ![r] = new]
  /\ UNCHANGED <<brokerVars, ledgerVars, acted, reply>>

Goto(r, l) == [run[r] EXCEPT !.pc = l]

\* _outcome and the live runtime's last update of the dispatch row.
Ended(r, outcome, legs) ==
  {[run[r] EXCEPT !.pc = "idle", !.outcome = outcome, !.observed = o]
     : o \in UpdateDispatchCount(run[r].observed, legs)}

EndIs(r, outcome, legs) ==
  \E new \in Ended(r, outcome, legs) : Local(r, new)

(***************************************************************************)
(* The guards of the live runtime are configuration; what remains of them  *)
(* is that a surface must exist (no_available_tools otherwise).  A         *)
(* prepared request carries the surface it was prepared with, which is the *)
(* same as starting at that time.  The ledger is opened, never reset.      *)
(***************************************************************************)
StartOperation(r) ==
  /\ run[r].pc = "idle"
  /\ \E t \in Tools : Surface[t] # Nil
  /\ Local(r, [Idle(run[r].mode) EXCEPT !.pc = "leg", !.surface = Surface])

\* The caller's cancel flag; it stays raised for the rest of the operation.
RequestCancel(r) ==
  /\ run[r].pc # "idle" /\ ~run[r].cancel
  /\ Local(r, [run[r] EXCEPT !.cancel = TRUE])

CancelBeforeLeg(r) ==
  /\ run[r].pc = "leg" /\ run[r].cancel
  /\ EndIs(r, "cancelled", run[r].leg)

\* The leg's request is built from every earlier answer and result batch.
\* Another leg, another bridge; the first leg also opens its dispatch row.
PrepareLeg(r) ==
  /\ run[r].pc = "leg" /\ ~run[r].cancel
  /\ \E t \in NewTraces,
        o \in IF run[r].leg = 0 THEN BeginDispatch ELSE {run[r].observed} :
       run' = [run EXCEPT ![r] = [Goto(r, "send") EXCEPT !.trace = t, !.observed = o]]
  /\ reply' = [reply EXCEPT ![r] = FALSE]
  /\ UNCHANGED <<brokerVars, ledgerVars, acted>>

\* The caught failure of a leg; its dispatch row, if still open, says so.
LegFails(r, trace) ==
  \E o \in IF run[r].leg = 0 THEN CompleteDispatch(run[r].observed, "attempt_failed")
                              ELSE {run[r].observed} :
    \E p \in UpdateDispatchCount(o, run[r].leg + 1) :
      Local(r, [run[r] EXCEPT !.pc = "idle", !.outcome = "failed",
                               !.trace = trace, !.observed = p])

\* A Gate-12 policy refuses the call before anything is captured.
PolicyRefuses(r) ==
  /\ run[r].pc = "send"
  /\ LegFails(r, run[r].trace)

CaptureRequest(r) ==
  /\ run[r].pc = "send"
  /\ \E t \in BeginAttempt(run[r].trace) :
       Local(r, [Goto(r, "wire") EXCEPT !.trace = t])

\* The transport raises or times out, or interception refuses: no retry.
TransportFails(r) ==
  /\ run[r].pc = "wire"
  /\ \E t \in RecordTransportError(run[r].trace) : LegFails(r, t)

TransportAnswers(r) ==
  /\ run[r].pc = "wire"
  /\ \E t \in RecordResponse(run[r].trace) :
       run' = [run EXCEPT ![r] = [Goto(r, "read") EXCEPT !.trace = t]]
  /\ reply' = [reply EXCEPT ![r] = TRUE]
  /\ UNCHANGED <<brokerVars, ledgerVars, acted>>

\* The payload parser rejects the body.
PayloadRejected(r) ==
  /\ run[r].pc = "read"
  /\ \E t \in RecordVerdict(run[r].trace, "rejected") : LegFails(r, t)

\* An accepted payload leaves provider_call with its verdict and row written.
Evidenced(r, t, o) == [run[r] EXCEPT !.trace = t, !.observed = o]

Accepted(r) ==
  {Evidenced(r, t, o) :
     t \in RecordVerdict(run[r].trace, "accepted"),
     o \in IF run[r].leg = 0 THEN CompleteDispatch(run[r].observed, "answered")
                              ELSE {run[r].observed}}

EndAccepted(r, outcome) ==
  /\ run[r].pc = "read"
  /\ \E a \in Accepted(r) : \E o \in UpdateDispatchCount(a.observed, run[r].leg + 1) :
       Local(r, [a EXCEPT !.pc = "idle", !.outcome = outcome, !.observed = o])

\* Final text, or a terminal result the structured parser accepts.
FinalAnswer(r) == EndAccepted(r, "completed")

\* Normalization fails (a tool outside the surface, a malformed call), the
\* final text is empty, the terminal result is refused, or tools are asked
\* for on the synthesis leg or where dispatching is forbidden.
AnswerRefused(r) == EndAccepted(r, "failed")

ToolsAllowed(r) == run[r].mode = "free" /\ run[r].leg < MaxLegs

LegCalls(r) == {c \in Calls : c[1] = run[r].leg /\ run[r].asked[c] # None}

Asks(a, ask, same) ==
  [a EXCEPT !.pc = "tools", !.sameIds = same,
     !.asked = [c \in Calls |-> IF c[1] = a.leg /\ c[2] \in DOMAIN ask THEN ask[c[2]] ELSE @[c]]]

\* The model asks for some calls of tools on the surface it was shown.  With
\* two of them the provider's own call ids may coincide.
ToolCallsArrive(r) ==
  /\ run[r].pc = "read"
  /\ ToolsAllowed(r)
  /\ \E n \in 1 .. MaxIndex, a \in Accepted(r) :
     \E ask \in [1 .. n -> {b \in Bindings : run[r].surface[b.tool] = b.schema}],
        same \in IF n > 1 THEN BOOLEAN ELSE {FALSE} :
       Local(r, Asks(a, ask, same))

CancelBeforeTools(r) ==
  /\ run[r].pc = "tools" /\ run[r].cancel
  /\ \A c \in LegCalls(r) : run[r].answers[c] = None
  /\ EndIs(r, "cancelled", run[r].leg + 1)

-----------------------------------------------------------------------------
(***************************************************************************)
(* gather(dispatch(call) ...): the calls of a leg go one after the other   *)
(* in any order, since the dispatcher never awaits.  The flag is not       *)
(* looked at again until the next leg.                                     *)
(***************************************************************************)
Asked(r) == run[r].asked[run[r].call]

Answer(r, state, body) == [binding |-> Asked(r), state |-> state, body |-> body]

Failure(r) == Answer(r, "failed", "unavailable")

\* normalize_tool_result in the loop binds the result to the call asked for.
Answered(r, c, result) ==
  [run[r] EXCEPT !.pc = "tools", !.call = None, !.result = None, !.answers[c] = result]

\* Incomplete arguments never reach the dispatcher.
RefuseArguments(r, c) ==
  /\ run[r].pc = "tools" /\ c \in LegCalls(r) /\ run[r].answers[c] = None
  /\ run[r].asked[c].args # "complete"
  /\ Local(r, Answered(r, c, [binding |-> run[r].asked[c],
                              state |-> "failed", body |-> "unavailable"]))

DispatchCall(r, c) ==
  /\ run[r].pc = "tools" /\ c \in LegCalls(r) /\ run[r].answers[c] = None
  /\ run[r].asked[c].args = "complete"
  /\ Local(r, [Goto(r, "register") EXCEPT !.call = c])

\* What dispatch raises becomes a failed result: the loop goes on.
DispatchRaises(r) ==
  run' = [run EXCEPT ![r] = Answered(r, run[r].call, Failure(r))]

\* Fault: a call id is replayed whatever it was registered for.
SeededReplays(r) == calls[run[r].call].state # None

\* register_call: same id, same binding.
Replays(r) == calls[run[r].call].state # None /\ calls[run[r].call].binding = Asked(r)

RegisterCall(r) ==
  /\ run[r].pc = "register"
  /\ \/ /\ RegisterNew(run[r].call, Asked(r))
        /\ run' = [run EXCEPT ![r] = Goto(r, "mark")]
     \/ /\ Replays(r)
        /\ InsertParent(run[r].call) /\ UNCHANGED calls
        /\ CASE calls[run[r].call].state = "proposed" ->
                  run' = [run EXCEPT ![r] = Goto(r, "mark")]
             [] calls[run[r].call].state \in {"succeeded", "failed"} ->
                  run' = [run EXCEPT ![r] = Answered(r, run[r].call,
                            [calls[run[r].call].replay EXCEPT !.binding = Asked(r)])]
             [] OTHER -> DispatchRaises(r)
     \/ /\ calls[run[r].call].state # None /\ ~Replays(r)
        /\ DispatchRaises(r) /\ UNCHANGED ledgerVars
  /\ UNCHANGED <<brokerVars, acted, reply>>

StartRunning(r) ==
  /\ run[r].pc = "mark"
  /\ \/ MarkRunning(run[r].call) /\ run' = [run EXCEPT ![r] = Goto(r, "owned")]
     \/ MarkRunningRefused(run[r].call) /\ DispatchRaises(r)
  /\ UNCHANGED <<brokerVars, acted, reply>>

\* The broker's lock is held from its checks to the end of the session call.
ToolActs(r) ==
  /\ run[r].pc = "owned"
  /\ CallTool(Asked(r).tool, Asked(r).schema)
  /\ acted' = [acted EXCEPT ![run[r].call] = @ \cup {Asked(r)}]
  /\ run' = [run EXCEPT ![r] = Goto(r, "acted")]
  /\ UNCHANGED <<ledgerVars, reply>>

\* Refused by the broker, or the session fails before the tool acts.
BrokerRefuses(r) ==
  /\ run[r].pc = "owned"
  /\ \/ CallToolRefused(Asked(r).tool, Asked(r).schema)
     \/ CallTool(Asked(r).tool, Asked(r).schema)
  /\ run' = [run EXCEPT ![r] = [Goto(r, "record") EXCEPT !.result = Failure(r)]]
  /\ UNCHANGED <<ledgerVars, acted, reply>>

ToolAnswers(r) ==
  /\ run[r].pc = "acted"
  /\ \E result \in {Answer(r, "succeeded", "answer"), Failure(r)} :
       Local(r, [Goto(r, "record") EXCEPT !.result = result])

\* The runtime's normalization refuses the artifact references.
NormalizationEscapes(r) ==
  /\ run[r].pc = "acted"
  /\ DispatchRaises(r)
  /\ UNCHANGED <<brokerVars, ledgerVars, acted, reply>>

StoreResult(r) ==
  /\ run[r].pc = "record"
  /\ RecordResult(run[r].call, run[r].result)
  /\ run' = [run EXCEPT ![r] = Answered(r, run[r].call, run[r].result)]
  /\ UNCHANGED <<brokerVars, acted, reply>>

BatchReady(r) == \A c \in LegCalls(r) : run[r].answers[c] # None

\* build_tool_receipt and serialize_tool_results: the next leg carries them.
ResultsReady(r) ==
  /\ run[r].pc = "tools" /\ BatchReady(r) /\ ~run[r].sameIds
  /\ Local(r, [Goto(r, "leg") EXCEPT !.leg = @ + 1])

\* Two calls under one provider id: duplicate_tool_result is raised outside
\* every handler, after the tools ran; no terminal event, no outcome.
BatchRaises(r) ==
  /\ run[r].pc = "tools" /\ BatchReady(r) /\ run[r].sameIds
  /\ Local(r, [run[r] EXCEPT !.pc = "idle", !.outcome = "raised"])

\* The thread or process dies; file and ledger stay.
RunnerDies(r) ==
  /\ run[r].pc # "idle"
  /\ Local(r, Idle(run[r].mode))

ServiceRestarts ==
  /\ BrokerRestart
  /\ run' = [r \in Runners |-> Idle(run[r].mode)]
  /\ UNCHANGED <<ledgerVars, acted, reply>>

Step(r) ==
  \/ CancelBeforeLeg(r) \/ PrepareLeg(r) \/ PolicyRefuses(r) \/ CaptureRequest(r)
  \/ TransportFails(r) \/ TransportAnswers(r) \/ PayloadRejected(r)
  \/ FinalAnswer(r) \/ AnswerRefused(r) \/ ToolCallsArrive(r) \/ CancelBeforeTools(r)
  \/ \E c \in Calls : RefuseArguments(r, c) \/ DispatchCall(r, c)
  \/ RegisterCall(r) \/ StartRunning(r) \/ ToolActs(r) \/ BrokerRefuses(r)
  \/ ToolAnswers(r) \/ NormalizationEscapes(r) \/ StoreResult(r)
  \/ ResultsReady(r) \/ BatchRaises(r)

Administers == Administer /\ UNCHANGED <<ledgerVars, run, acted, reply>>

Operate(r) == StartOperation(r) \/ RequestCancel(r) \/ Step(r) \/ RunnerDies(r)

AgentNext == (\E r \in Runners : Operate(r)) \/ Administers \/ ServiceRestarts

AgentSpec == AgentInit(Modes) /\ [][AgentNext]_agentVars

-----------------------------------------------------------------------------
(***************************************************************************)
(* Every call of every earlier leg is answered in the request of the next  *)
(* one, with what that call asked for; and the model is told that a tool   *)
(* succeeded only when exactly this call (tool, schema, arguments) took    *)
(* effect, in this run or in one before a crash.                           *)
(***************************************************************************)
TranscriptIsFaithful ==
  \A r \in Runners : \A c \in Calls :
    /\ run[r].pc = "send" /\ run[r].asked[c] # None => run[r].answers[c] # None
    /\ run[r].answers[c] # None =>
         /\ run[r].answers[c].binding = run[r].asked[c]
         /\ run[r].answers[c].state = "succeeded" => run[r].asked[c] \in acted[c]

(***************************************************************************)
(* A tool acts only as it was reviewed: somebody made this very schema of  *)
(* this tool available, for the connection its session really uses, and    *)
(* has not withdrawn it, however the catalog changed since the operation   *)
(* was shown its surface.                                                  *)
(***************************************************************************)
EffectsAreReviewed ==
  [][\A r \in Runners : ToolActs(r) =>
       <<Asked(r).tool, Asked(r).schema, sessions'[ServerOf[Asked(r).tool]]>>
         \in reviewed]_agentVars

(***************************************************************************)
(* Whatever the disk refused, the evidence of a leg stays true: the trace  *)
(* claims nothing it does not hold, a recorded response was received, and  *)
(* while the trace of the first leg says that its payload was rejected,    *)
(* the dispatch row does not say that it was answered.  (A payload that    *)
(* was accepted and then does not normalise, or has an empty final text,   *)
(* fails the operation over an answered row.)                              *)
(***************************************************************************)
EvidenceIsTrue ==
  \A r \in Runners :
    /\ ClaimsHold(run[r].trace)
    /\ "response" \in run[r].trace.claims => reply[r]
    /\ "rejected" \in run[r].trace.claims /\ run[r].leg = 0
         => run[r].observed.state # "answered"
=============================================================================
