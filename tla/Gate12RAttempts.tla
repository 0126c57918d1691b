-------------------------- MODULE Gate12RAttempts --------------------------
(***************************************************************************)
(* The one-shot corrective attempt that preceded Gate 12S                  *)
(* (house_continuity_v1_2_gate12r_control.py): an operator arms a latch,   *)
(* one turn consumes it, is declared ready and activated, and the trace    *)
(* bridge asks enforce_external_call_policy before every provider call.    *)
(*                                                                         *)
(* Only accept and authorize_transport say BEGIN IMMEDIATE; the other      *)
(* writes commit one by one (isolation_level=None) and update the attempt  *)
(* by its key whatever its state has become.  Identities, hashes and time  *)
(* stamps are always well formed, and a report's stage and error code      *)
(* agree with its verdict; evidence says whether its three hashes are      *)
(* there.                                                                  *)
(***************************************************************************)
EXTENDS Naturals, Sequences

CONSTANTS
  CorrectiveTurns,  \* client turns
  Callers,          \* threads: reports, operator commands, provider calls
  MaxDenied,        \* bound: denied transports of a turn
  NoTurn

VARIABLES
  switch,    \* the process runs with the gate switched on
  bindings,  \* _PROCESS_BINDINGS, lost on restart
  oneShot,   \* the latch
  attempts,  \* turn -> its row; the set of accepted turns is the domain
  copies,    \* turn -> the stored receipt
  call,      \* each thread's operation
  passed     \* history, by accepted turn: purposes of the calls let through
             \* that began with the gate on and after the acceptance

correctiveVars == <<switch, bindings, oneShot, attempts, copies, call, passed>>

Purposes == {"provider_agent_leg", "other"}

Accepted == DOMAIN attempts

NewAttempt == [state |-> "accepted_pending_readiness", ready |-> "pending", evidence |-> FALSE,
               effective |-> FALSE, issued |-> FALSE, external |-> 0, denied |-> 0]

\* accept stores a shorter receipt than _update_receipt.
ShortReceipt == [short |-> TRUE, of |-> NewAttempt]

\* _update_receipt: a copy of the attempt without its state.
FullReceipt(r) == [short |-> FALSE, of |-> [r EXCEPT !.state = "accepted_pending_readiness"]]

NoCall == [op |-> "idle", turn |-> NoTurn, purpose |-> "other", read |-> ShortReceipt]

CorrectiveInit ==
  /\ switch = TRUE
  /\ bindings = {}
  /\ oneShot = [state |-> "unarmed", turn |-> NoTurn]
  /\ attempts = << >>
  /\ copies = << >>
  /\ call = [c \in Callers |-> NoCall]
  /\ passed = << >>

Step(c, op) == call' = [call EXCEPT ![c].op = op]
Return(c) == call' = [call EXCEPT ![c] = NoCall]
Of(c) == call[c].turn

(***************************************************************************)
(* doctor: what every authorisation asks for.                              *)
(***************************************************************************)
\* _attempt_row_is_bounded
RowBounded(r) ==
  /\ r.ready = CASE r.state = "accepted_pending_readiness" -> "pending"
                 [] r.state = "readiness_failed" -> "failed"
                 [] OTHER -> "ready"
  /\ r.external = IF r.state = "dispatched" THEN 1 ELSE 0
  /\ r.ready # "ready" => ~r.effective /\ ~r.issued
  /\ r.external = 1 => r.effective /\ r.issued

\* _receipt_is_field_closed
ReceiptClosed(r, receipt) ==
  \/ receipt.short /\ r.ready = "pending"
  \/ receipt = FullReceipt(r)

LatchHealthy ==
  IF oneShot.state = "consumed" THEN Accepted = {oneShot.turn} ELSE Accepted = {}

CorrectiveDoctor ==
  /\ LatchHealthy
  /\ \A t \in Accepted :
       /\ RowBounded(attempts[t])
       /\ attempts[t].ready = "ready" => attempts[t].evidence
       /\ ReceiptClosed(attempts[t], copies[t])

(***************************************************************************)
(* The latch and acceptance.                                               *)
(***************************************************************************)
\* arm_for_local_proof: the state is read, then written.
ArmForProof(c) ==
  /\ call[c].op = "idle"
  /\ oneShot.state \in {"unarmed", "armed"}
  /\ Step(c, "arm")
  /\ UNCHANGED <<switch, bindings, oneShot, attempts, copies, passed>>

ArmForProofWrite(c) ==
  /\ call[c].op = "arm"
  /\ oneShot' = [state |-> "armed", turn |-> NoTurn]
  /\ Return(c)
  /\ UNCHANGED <<switch, bindings, attempts, copies, passed>>

\* One transaction, then the binding of this process.  The key refuses a turn
\* that was accepted before.
AcceptCorrective(t) ==
  /\ switch
  /\ oneShot.state = "armed"
  /\ t \notin Accepted
  /\ oneShot' = [state |-> "consumed", turn |-> t]
  /\ attempts' = [u \in Accepted \cup {t} |-> IF u = t THEN NewAttempt ELSE attempts[u]]
  /\ copies' = [u \in Accepted \cup {t} |-> IF u = t THEN ShortReceipt ELSE copies[u]]
  /\ passed' = [u \in Accepted \cup {t} |-> IF u = t THEN << >> ELSE passed[u]]
  /\ bindings' = bindings \cup {t}
  /\ UNCHANGED <<switch, call>>

\* attempt_for_turn binds the turn again, after a restart.
LookupCorrective(t) ==
  /\ switch
  /\ t \in Accepted \ bindings
  /\ bindings' = bindings \cup {t}
  /\ UNCHANGED <<switch, oneShot, attempts, copies, call, passed>>

(***************************************************************************)
(* Readiness and activation.                                               *)
(***************************************************************************)
\* record_readiness: ready counts only with all three hashes.
ReportReadiness(c, t, ready, evidence) ==
  LET effective == ready /\ evidence IN
  /\ call[c].op = "idle"
  /\ t \in Accepted
  /\ attempts' = [attempts EXCEPT
       ![t] = [@ EXCEPT !.state = IF effective THEN "ready" ELSE "readiness_failed",
                        !.ready = IF effective THEN "ready" ELSE "failed",
                        !.evidence = evidence]]
  /\ call' = [call EXCEPT ![c] = [NoCall EXCEPT !.op = "copy", !.turn = t]]
  /\ UNCHANGED <<switch, bindings, oneShot, copies, passed>>

CopyRead(c) ==
  /\ call[c].op = "copy"
  /\ call' = [call EXCEPT ![c].op = "copy_write", ![c].read = FullReceipt(attempts[Of(c)])]
  /\ UNCHANGED <<switch, bindings, oneShot, attempts, copies, passed>>

CopyWrite(c) ==
  /\ call[c].op = "copy_write"
  /\ copies' = [copies EXCEPT ![Of(c)] = call[c].read]
  /\ Return(c)
  /\ UNCHANGED <<switch, bindings, oneShot, attempts, passed>>

\* record_inner_activation_for_local_proof
InnerActivation(c, t) ==
  /\ call[c].op = "idle"
  /\ t \in Accepted
  /\ attempts[t].ready = "ready"
  /\ call' = [call EXCEPT ![c] = [NoCall EXCEPT !.op = "activate", !.turn = t]]
  /\ UNCHANGED <<switch, bindings, oneShot, attempts, copies, passed>>

InnerActivationWrite(c) ==
  /\ call[c].op = "activate"
  /\ \E effective, issued \in BOOLEAN :
       attempts' = [attempts EXCEPT ![Of(c)] =
                      [@ EXCEPT !.effective = effective, !.issued = issued]]
  /\ Step(c, "copy")
  /\ UNCHANGED <<switch, bindings, oneShot, copies, passed>>

(***************************************************************************)
(* enforce_external_call_policy.                                           *)
(***************************************************************************)
\* A turn this process has not bound is looked up in the configured store.
BeginCall(c, t, purpose) ==
  /\ call[c].op = "idle"
  /\ call' = [call EXCEPT ![c] =
       [NoCall EXCEPT !.turn = t, !.purpose = purpose,
                      !.op = CASE t \in bindings -> "authorize"
                               [] t \notin bindings /\ ~switch -> "pass"
                               [] OTHER -> IF t \in Accepted THEN "probe" ELSE "unknown"]]
  /\ UNCHANGED <<switch, bindings, oneShot, attempts, copies, passed>>

\* latch_consumed_for: an unknown turn must not be the one of the latch.
CallUnknown(c) ==
  /\ call[c].op = "unknown"
  /\ IF oneShot.state = "consumed" /\ oneShot.turn = Of(c) THEN Return(c) ELSE Step(c, "pass")
  /\ UNCHANGED <<switch, bindings, oneShot, attempts, copies, passed>>

ProbeCall(c) ==
  /\ call[c].op = "probe"
  /\ IF CorrectiveDoctor THEN Step(c, "authorize") ELSE Return(c)
  /\ UNCHANGED <<switch, bindings, oneShot, attempts, copies, passed>>

\* Fault: any purpose may use the activation.
SeededAllowed(r, purpose) ==
  r.ready = "ready" /\ r.effective /\ r.issued /\ r.external = 0

Allowed(r, purpose) ==
  /\ purpose = "provider_agent_leg"
  /\ r.ready = "ready" /\ r.effective /\ r.issued /\ r.external = 0

\* authorize_transport: one transaction.  The call leaves with its commit.
AuthorizeCall(c) ==
  LET t == Of(c)
      r == [attempts[t] EXCEPT !.state = "dispatched", !.external = 1] IN
  /\ call[c].op = "authorize"
  /\ CorrectiveDoctor
  /\ Allowed(attempts[t], call[c].purpose)
  /\ attempts' = [attempts EXCEPT ![t] = r]
  /\ copies' = [copies EXCEPT ![t] = FullReceipt(r)]
  /\ passed' = [passed EXCEPT ![t] = Append(@, call[c].purpose)]
  /\ Return(c)
  /\ UNCHANGED <<switch, bindings, oneShot>>

\* A refusal is counted, unless the store is unhealthy.
DenyCall(c) ==
  LET t == Of(c)
      r == [attempts[t] EXCEPT !.denied = @ + 1] IN
  /\ call[c].op = "authorize"
  /\ CorrectiveDoctor
  /\ ~Allowed(attempts[t], call[c].purpose)
  /\ attempts[t].denied < MaxDenied
  /\ attempts' = [attempts EXCEPT ![t] = r]
  /\ copies' = [copies EXCEPT ![t] = FullReceipt(r)]
  /\ Return(c)
  /\ UNCHANGED <<switch, bindings, oneShot, passed>>

RefuseUnhealthy(c) ==
  /\ call[c].op = "authorize"
  /\ ~CorrectiveDoctor
  /\ Return(c)
  /\ UNCHANGED <<switch, bindings, oneShot, attempts, copies, passed>>

\* No store governs the call: the gate is off, or the turn was not accepted when
\* the call began.
PassUngoverned(c) ==
  /\ call[c].op = "pass"
  /\ Return(c)
  /\ UNCHANGED <<switch, bindings, oneShot, attempts, copies, passed>>

\* The process stops; the operator may change the switch.
RestartCorrective ==
  /\ bindings' = {}
  /\ switch' \in BOOLEAN
  /\ call' = [c \in Callers |-> NoCall]
  /\ UNCHANGED <<oneShot, attempts, copies, passed>>

CorrectiveNext ==
  \/ \E t \in CorrectiveTurns : AcceptCorrective(t) \/ LookupCorrective(t)
  \/ \E c \in Callers :
       \/ ArmForProof(c) \/ ArmForProofWrite(c) \/ CopyRead(c) \/ CopyWrite(c)
       \/ InnerActivationWrite(c) \/ CallUnknown(c) \/ ProbeCall(c) \/ AuthorizeCall(c)
       \/ DenyCall(c) \/ RefuseUnhealthy(c) \/ PassUngoverned(c)
       \/ \E t \in CorrectiveTurns :
            \/ InnerActivation(c, t)
            \/ \E ready, evidence \in BOOLEAN : ReportReadiness(c, t, ready, evidence)
            \/ \E purpose \in Purposes : BeginCall(c, t, purpose)
  \/ RestartCorrective

CorrectiveSpec == CorrectiveInit /\ [][CorrectiveNext]_correctiveVars

\* The corrective gate is one-shot: whatever its unguarded writes, repeated
\* reports, a latch armed again and restarts do, one provider call leaves under
\* it in all, and it is an agent leg (enforce_external_call_policy).
OneShot ==
  \A t, u \in Accepted :
    /\ passed[t] \in {<< >>, <<"provider_agent_leg">>}
    /\ passed[t] # << >> /\ passed[u] # << >> => t = u
=============================================================================
