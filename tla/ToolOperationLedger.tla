------------------------ MODULE ToolOperationLedger ------------------------
(***************************************************************************)
(* The durable receipt/replay ledger of provider-agent tool calls          *)
(* (house_tool_operation_ledger_v0.py).  Every public operation runs in    *)
(* one BEGIN IMMEDIATE transaction, so each is one atomic action here.     *)
(*                                                                         *)
(* Identities and SHA-256 bindings are abstract values: a hash stands for  *)
(* exactly the data it binds, so "same binding" is equality.  A result is  *)
(* the record [binding, state, body]; its receipt is the same record with  *)
(* the body replaced by its hash, hence the receipt is modelled by the     *)
(* result it binds and the private replay payload is kept beside it.       *)
(***************************************************************************)
EXTENDS Naturals, FiniteSets

CONSTANTS
  Calls,      \* tool_call_id values (derived from operation, leg and index)
  Parents,    \* parent_operation_id values
  ParentOf,   \* the operation each call id is derived from
  Bindings,   \* tool_call_binding_sha256 values (arguments, tool, schema...)
  Bodies,     \* result bodies a tool can produce
  None        \* SQL NULL

ASSUME ParentOfAssumption == ParentOf \in [Calls -> Parents]
ASSUME NoneAssumption ==
  None \notin Bindings \cup Bodies \cup {"accepted", "running"}

VARIABLES
  parents,    \* parent_operations: id -> state, or None when there is no row
  calls       \* tool_calls: id -> row; state None when there is no row

ledgerVars == <<parents, calls>>

(***************************************************************************)
(* The tool-call life cycle of house_provider_agent_tool_contract_v0.py.   *)
(***************************************************************************)
ToolCallStates ==
  {"proposed", "validated", "rejected", "queued", "leased", "running",
   "succeeded", "failed", "cancelled", "timed_out", "ambiguous"}

ToolResultStates == {"succeeded", "failed", "cancelled", "timed_out", "ambiguous"}

Transitions ==
  [proposed  |-> {"validated", "rejected", "cancelled"},
   validated |-> {"queued", "rejected", "cancelled"},
   queued    |-> {"leased", "cancelled", "timed_out"},
   leased    |-> {"running", "cancelled", "timed_out"},
   running   |-> {"succeeded", "failed", "cancelled", "timed_out", "ambiguous"},
   ambiguous |-> {"succeeded", "failed"}]

\* validate_state_transition("tool_call", from, to) returns without raising.
ValidTransition(from, to) ==
  \/ from = to
  \/ from \in DOMAIN Transitions /\ to \in Transitions[from]

\* The chain mark_running validates before it writes 'running'.
ValidStartChain(from) ==
  /\ ValidTransition(from, "validated")
  /\ ValidTransition("validated", "queued")
  /\ ValidTransition("queued", "leased")
  /\ ValidTransition("leased", "running")

Results == [binding : Bindings, state : ToolResultStates, body : Bodies]

\* NULL is neither a state nor a result.
ASSUME NullAssumption == None \notin ToolCallStates \cup Results

\* Operators named Seeded... are deliberate faults, used by no definition: each
\* stands in for the definition after it to show that a property notices.
\* Only these states keep the private normalized result for restart replay.
SeededReplayOnlySuccess(state) == state = "succeeded"

HasReplayPayload(state) == state \in {"succeeded", "failed"}

ReplayPayload(result) == IF HasReplayPayload(result.state) THEN result ELSE None

NoRow == [state |-> None, binding |-> None, receipt |-> None, replay |-> None]

NewRow(b) ==
  [state |-> "proposed", binding |-> b, receipt |-> None, replay |-> None]

Rows ==
  [state   : ToolCallStates \cup {None},
   binding : Bindings \cup {None},
   receipt : Results \cup {None},
   replay  : Results \cup {None}]

LedgerTypeOK ==
  /\ parents \in [Parents -> {"accepted", "running", None}]
  /\ calls \in [Calls -> Rows]

LedgerInit ==
  /\ parents = [p \in Parents |-> None]
  /\ calls = [c \in Calls |-> NoRow]

(***************************************************************************)
(* register_call                                                           *)
(***************************************************************************)
\* INSERT OR IGNORE INTO parent_operations
InsertParent(c) ==
  parents' = IF parents[ParentOf[c]] = None
               THEN [parents EXCEPT ![ParentOf[c]] = "accepted"]
               ELSE parents

RegisterNew(c, b) ==
  /\ calls[c].state = None
  /\ InsertParent(c)
  /\ calls' = [calls EXCEPT ![c] = NewRow(b)]

\* Same identity, same binding: the row is returned as it is.
RegisterReplay(c, b) ==
  /\ calls[c].state # None
  /\ calls[c].binding = b
  /\ InsertParent(c)
  /\ UNCHANGED calls

\* tool_call_identity_collision: everything is rolled back.
RegisterCollision(c, b) ==
  /\ calls[c].state # None
  /\ calls[c].binding # b
  /\ UNCHANGED ledgerVars

(***************************************************************************)
(* mark_running                                                            *)
(***************************************************************************)
MarkRunning(c) ==
  /\ calls[c].state = "proposed"
  /\ ValidStartChain(calls[c].state)
  /\ calls' = [calls EXCEPT ![c].state = "running"]
  /\ parents' = [parents EXCEPT ![ParentOf[c]] = "running"]

\* 'running' is returned as an exact replay, any other state raises.
MarkRunningRefused(c) ==
  /\ calls[c].state # "proposed"
  /\ UNCHANGED ledgerVars

(***************************************************************************)
(* record_result                                                           *)
(***************************************************************************)
RecordResult(c, result) ==
  /\ calls[c].binding = result.binding
  /\ calls[c].receipt = None
  /\ calls[c].state = "running"
  /\ ValidTransition(calls[c].state, result.state)
  /\ calls' = [calls EXCEPT ![c].state   = result.state,
                            ![c].receipt = result,
                            ![c].replay  = ReplayPayload(result)]
  /\ UNCHANGED parents

\* The early returns of record_result, which write nothing: the same receipt
\* and payload are stored already, or the call raises tool_call_missing, one
\* of the two identity collisions, or tool_call_not_running.
RecordIsReplay(c, result) ==
  /\ calls[c].receipt = result
  /\ calls[c].replay = ReplayPayload(result)

RecordIsRefused(c, result) ==
  \/ calls[c].state = None
  \/ calls[c].binding # result.binding
  \/ calls[c].receipt # None /\ ~RecordIsReplay(c, result)
  \/ calls[c].receipt = None /\ calls[c].state # "running"

(***************************************************************************)
(* cancel_before_execution; its refusals change nothing.                   *)
(***************************************************************************)
\* Fault: a running call can be cancelled.
SeededCancel(c) ==
  /\ calls[c].state \in {"proposed", "running"}
  /\ calls' = [calls EXCEPT ![c].state = "cancelled"]
  /\ UNCHANGED parents

CancelBeforeExecution(c) ==
  /\ calls[c].state = "proposed"
  /\ ValidTransition(calls[c].state, "cancelled")
  /\ calls' = [calls EXCEPT ![c].state = "cancelled"]
  /\ UNCHANGED parents
=============================================================================
