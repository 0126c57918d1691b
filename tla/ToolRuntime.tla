---------------------------- MODULE ToolRuntime ----------------------------
(***************************************************************************)
(* HouseProviderAgentToolRuntime.dispatch                                  *)
(* (house_provider_agent_tool_runtime_v0.py) run by several workers over   *)
(* one ledger file: concurrent service threads, or the processes before    *)
(* and after a restart.  Between two ledger transactions anything may      *)
(* happen, a crash of the worker included.  The tool itself is external:   *)
(* broker.call_tool may fail before the tool is reached, fail after it     *)
(* took effect, succeed, or succeed with artifact references that          *)
(* normalize_tool_result refuses.                                          *)
(***************************************************************************)
EXTENDS ToolOperationLedger

CONSTANTS
  Workers,     \* dispatches that can be in progress at the same time
  Complete,    \* bindings whose argument_parse_state is "complete"
  Unavailable  \* the body of every failed result, {"available": False}

ASSUME RuntimeAssumption == Complete \subseteq Bindings /\ Unavailable \in Bodies

VARIABLES
  pc,        \* where each worker is in dispatch
  job,       \* its call, the binding it carries and the result in memory
  effects,   \* history: how often each call's tool took effect
  returned   \* history: results dispatch returned, per call

vars == <<parents, calls, pc, job, effects, returned>>

NoJob == [call |-> None, binding |-> None, result |-> None]

Jobs == [call : Calls \cup {None}, binding : Bindings \cup {None},
         result : Results \cup {None}]

PCs == {"idle", "register", "mark", "owned", "acted", "record"}

TypeOK ==
  /\ LedgerTypeOK
  /\ pc \in [Workers -> PCs]
  /\ job \in [Workers -> Jobs]
  /\ effects \in [Calls -> Nat]
  /\ returned \in [Calls -> SUBSET Results]

Init ==
  /\ LedgerInit
  /\ pc = [w \in Workers |-> "idle"]
  /\ job = [w \in Workers |-> NoJob]
  /\ effects = [c \in Calls |-> 0]
  /\ returned = [c \in Calls |-> {}]

Finish(w) ==
  /\ pc' = [pc EXCEPT ![w] = "idle"]
  /\ job' = [job EXCEPT ![w] = NoJob]

Goto(w, l) == pc' = [pc EXCEPT ![w] = l]

Result(w, state, body) == [binding |-> job[w].binding, state |-> state, body |-> body]

(***************************************************************************)
(* The loop hands a normalized call to the dispatcher.  A retried          *)
(* operation derives the same call id; its binding is the same when the    *)
(* provider asked for the same thing and differs otherwise.                *)
(***************************************************************************)
Dispatch(w, c, b) ==
  /\ pc[w] = "idle"
  /\ Goto(w, "register")
  /\ job' = [job EXCEPT ![w] = [call |-> c, binding |-> b, result |-> None]]
  /\ UNCHANGED <<ledgerVars, effects, returned>>

RegisterFresh(w) ==
  /\ pc[w] = "register"
  /\ RegisterNew(job[w].call, job[w].binding)
  /\ Goto(w, "mark")
  /\ UNCHANGED <<job, effects, returned>>

\* should_dispatch holds for "proposed" only among the states a row can be in.
RegisterRetry(w) ==
  /\ pc[w] = "register"
  /\ RegisterReplay(job[w].call, job[w].binding)
  /\ calls[job[w].call].state \in {"proposed", "validated", "queued"}
  /\ Goto(w, "mark")
  /\ UNCHANGED <<job, effects, returned>>

\* completed_replay / failed_replay: the stored payload is the answer.
RegisterReturnsReplay(w) ==
  /\ pc[w] = "register"
  /\ RegisterReplay(job[w].call, job[w].binding)
  /\ calls[job[w].call].state \in {"succeeded", "failed"}
  /\ calls[job[w].call].replay # None
  /\ returned' = [returned EXCEPT ![job[w].call] = @ \cup {calls[job[w].call].replay}]
  /\ Finish(w)
  /\ UNCHANGED effects

\* running, cancelled...: dispatch raises tool_call_<state>.
RegisterNotDispatchable(w) ==
  /\ pc[w] = "register"
  /\ RegisterReplay(job[w].call, job[w].binding)
  /\ calls[job[w].call].state \notin
       {"proposed", "validated", "queued", "succeeded", "failed"}
  /\ Finish(w)
  /\ UNCHANGED <<effects, returned>>

RegisterCollides(w) ==
  /\ pc[w] = "register"
  /\ RegisterCollision(job[w].call, job[w].binding)
  /\ Finish(w)
  /\ UNCHANGED <<effects, returned>>

StartRunning(w) ==
  /\ pc[w] = "mark"
  /\ MarkRunning(job[w].call)
  /\ Goto(w, "owned")
  /\ UNCHANGED <<job, effects, returned>>

\* tool_call_already_running, tool_call_not_dispatchable.
StartRefused(w) ==
  /\ pc[w] = "mark"
  /\ MarkRunningRefused(job[w].call)
  /\ Finish(w)
  /\ UNCHANGED <<effects, returned>>

\* argument_parse_state # "complete": the tool is not called at all.
ArgumentsIncomplete(w) ==
  /\ pc[w] = "owned"
  /\ job[w].binding \notin Complete
  /\ job' = [job EXCEPT ![w].result = Result(w, "failed", Unavailable)]
  /\ Goto(w, "record")
  /\ UNCHANGED <<ledgerVars, effects, returned>>

\* McpToolBrokerError before the session is reached (tool unavailable,
\* server disabled, schema identity changed, no connection).
BrokerRefuses(w) ==
  /\ pc[w] = "owned"
  /\ job[w].binding \in Complete
  /\ job' = [job EXCEPT ![w].result = Result(w, "failed", Unavailable)]
  /\ Goto(w, "record")
  /\ UNCHANGED <<ledgerVars, effects, returned>>

\* The session call takes effect in the outside world.
ToolTakesEffect(w) ==
  /\ pc[w] = "owned"
  /\ job[w].binding \in Complete
  /\ effects' = [effects EXCEPT ![job[w].call] = @ + 1]
  /\ Goto(w, "acted")
  /\ UNCHANGED <<ledgerVars, job, returned>>

ToolSucceeds(w, v) ==
  /\ pc[w] = "acted"
  /\ job' = [job EXCEPT ![w].result = Result(w, "succeeded", v)]
  /\ Goto(w, "record")
  /\ UNCHANGED <<ledgerVars, effects, returned>>

\* tool_call_failed, invalid_tool_payload: raised after the tool acted.
ToolFailsAfterEffect(w) ==
  /\ pc[w] = "acted"
  /\ job' = [job EXCEPT ![w].result = Result(w, "failed", Unavailable)]
  /\ Goto(w, "record")
  /\ UNCHANGED <<ledgerVars, effects, returned>>

\* normalize_tool_result refuses the broker's artifact references with a
\* ProviderAgentToolContractError, which dispatch does not catch.
NormalizationEscapes(w) ==
  /\ pc[w] = "acted"
  /\ Finish(w)
  /\ UNCHANGED <<ledgerVars, effects, returned>>

\* record_result; that its other branches are out of reach here is the
\* invariant ExclusiveOwner.
StoreResult(w) ==
  /\ pc[w] = "record"
  /\ RecordResult(job[w].call, job[w].result)
  /\ returned' = [returned EXCEPT ![job[w].call] = @ \cup {job[w].result}]
  /\ Finish(w)
  /\ UNCHANGED effects

\* The process dies, or SQLite raises an error dispatch does not catch:
\* only what the ledger committed survives.
Crash(w) ==
  /\ pc[w] # "idle"
  /\ Finish(w)
  /\ UNCHANGED <<ledgerVars, effects, returned>>

\* A ledger client withdraws a call that has not started.
Cancel(c) ==
  /\ CancelBeforeExecution(c)
  /\ UNCHANGED <<pc, job, effects, returned>>

Step(w) ==
  \/ RegisterFresh(w) \/ RegisterRetry(w) \/ RegisterReturnsReplay(w)
  \/ RegisterNotDispatchable(w) \/ RegisterCollides(w)
  \/ StartRunning(w) \/ StartRefused(w)
  \/ ArgumentsIncomplete(w) \/ BrokerRefuses(w) \/ ToolTakesEffect(w)
  \/ \E v \in Bodies : ToolSucceeds(w, v)
  \/ ToolFailsAfterEffect(w) \/ NormalizationEscapes(w)
  \/ StoreResult(w)

Next ==
  \/ \E w \in Workers :
       \/ \E c \in Calls, b \in Bindings : Dispatch(w, c, b)
       \/ Step(w)
       \/ Crash(w)
  \/ \E c \in Calls : Cancel(c)

Spec == Init /\ [][Next]_vars

-----------------------------------------------------------------------------
Owns(w) == pc[w] \in {"owned", "acted", "record"}

(***************************************************************************)
(* From mark_running to record_result a dispatch is the only one working   *)
(* on its call, the row still carries the binding it registered, and no    *)
(* branch of record_result can turn its answer away: the result of a tool  *)
(* that acted is never lost to another runtime, a retry or a cancellation. *)
(***************************************************************************)
ExclusiveOwner ==
  \A w \in Workers : Owns(w) =>
    /\ calls[job[w].call].state = "running"
    /\ calls[job[w].call].binding = job[w].binding
    /\ pc[w] = "record" => /\ ~RecordIsReplay(job[w].call, job[w].result)
                           /\ ~RecordIsRefused(job[w].call, job[w].result)
    /\ \A v \in Workers \ {w} : Owns(v) => job[v].call # job[w].call

(***************************************************************************)
(* Every dispatch of a call id, first run or replay, before or after a     *)
(* restart, that returns a result at all returns the one recorded result.  *)
(***************************************************************************)
ReturnedAgreesWithLedger ==
  \A c \in Calls : \A r \in returned[c] :
    calls[c].receipt = r /\ calls[c].replay = r

(***************************************************************************)
(* The inductive invariant behind the three properties above and below.    *)
(***************************************************************************)
RowsCoherent ==
  \A c \in Calls :
    /\ calls[c].state \in {None, "proposed", "running", "succeeded", "failed", "cancelled"}
    /\ calls[c].state # None => calls[c].binding \in Bindings
    /\ calls[c].state \in {None, "proposed", "running", "cancelled"} => calls[c].receipt = None
    /\ calls[c].state \in {"succeeded", "failed"} =>
         /\ calls[c].receipt \in Results
         /\ calls[c].replay = calls[c].receipt

JobsCoherent ==
  \A w \in Workers :
    /\ pc[w] # "idle" => job[w].call \in Calls /\ job[w].binding \in Bindings
    /\ pc[w] = "mark" => /\ calls[job[w].call].state # None
                         /\ calls[job[w].call].binding = job[w].binding
    /\ Owns(w) => /\ calls[job[w].call].state = "running"
                  /\ calls[job[w].call].binding = job[w].binding
                  /\ \A v \in Workers \ {w} : Owns(v) => job[v].call # job[w].call
    /\ pc[w] = "record" => /\ job[w].result \in Results
                           /\ job[w].result.binding = job[w].binding
                           /\ job[w].result.state \in {"succeeded", "failed"}

EffectsCoherent ==
  /\ \A c \in Calls :
       /\ effects[c] \in {0, 1}
       /\ calls[c].state \in {None, "proposed", "cancelled"} => effects[c] = 0
  /\ \A w \in Workers :
       /\ pc[w] = "owned" => effects[job[w].call] = 0
       /\ pc[w] = "acted" => effects[job[w].call] = 1
       /\ (pc[w] = "record" /\ job[w].result.state = "succeeded")
             => effects[job[w].call] = 1

Inv ==
  /\ TypeOK
  /\ RowsCoherent
  /\ JobsCoherent
  /\ EffectsCoherent
  /\ ReturnedAgreesWithLedger

(***************************************************************************)
(* The ledger and its dispatchers implement the at-most-once promise.      *)
(***************************************************************************)
Status(row) ==
  IF row.state \in {None, "proposed"} THEN "open"
  ELSE IF row.state = "running" THEN "claimed"
  ELSE IF row.state = "cancelled" THEN "cancelled"
  ELSE "settled"

Promise == INSTANCE AtMostOnceCall WITH
  Answers  <- Results,
  NoAnswer <- None,
  status   <- [c \in Calls |-> Status(calls[c])],
  answer   <- [c \in Calls |-> calls[c].receipt]

\* One effect and one answer per tool call identity.
ImplementsAtMostOnce == Promise!Spec
=============================================================================
