------------------------- MODULE CapabilityRegistry -------------------------
(***************************************************************************)
(* HouseContinuityCapabilityRegistryLocal: one single-use authorship       *)
(* capability per turn, bound to that turn's provider operation.  Every    *)
(* write goes through _cas_replace, which compares the whole record it     *)
(* read and appends a receipt in the same transaction.  Of the receipts    *)
(* only the latest result code for the turn's own response matters; of the *)
(* codes only whether it is the explicit no-delta one.  A compare-and-swap *)
(* that succeeds saw the current record, so it is one atomic step here; the *)
(* one read whose staleness changes what is written (reject_consumed) is   *)
(* split by the module that composes the registry.                         *)
(***************************************************************************)
EXTENDS TurnIdentities

VARIABLE cap     \* turn -> [state, code]; state "none" when never issued

CapStates == {"none", "issued", "prepared_consumed", "rejected_consumed",
              "closed_unused", "invalidated", "expired"}

\* Result code of the newest receipt for the turn's response.
Codes == {"none", "no_delta", "other"}

CapTypeOK == cap \in [Turns -> [state : CapStates, code : Codes]]

CapInit == cap = [t \in Turns |-> [state |-> "none", code |-> "none"]]

Issued(t) == cap[t].state = "issued"

Issue(t) ==
  /\ cap[t].state = "none"
  /\ cap' = [cap EXCEPT ![t].state = "issued"]

\* record_binding_or_replay_failure: the state stays, the attempt is counted
\* and a receipt with this code becomes the newest one.
RecordFailure(t, code) == cap' = [cap EXCEPT ![t].code = code]

\* Callers invalidate only a capability they read as issued; the receipt names
\* the empty response, so the newest code for the turn's response is untouched.
Invalidate(t) ==
  cap' = IF Issued(t) THEN [cap EXCEPT ![t].state = "invalidated"] ELSE cap

\* _terminal_unconsumed_transition to closed_unused.
CloseUnused(t) ==
  cap' = [cap EXCEPT ![t] = [state |-> IF Issued(t) THEN "closed_unused" ELSE @.state,
                             code |-> "other"]]

\* expire_if_due, and the replay failure the parser then records.
Expire(t) ==
  /\ Issued(t)
  /\ cap' = [cap EXCEPT ![t] = [state |-> "expired", code |-> "other"]]

\* reject_consumed once it has read the record; `issued` is what it saw.
RejectConsumed(t, issued, code) ==
  cap' = [cap EXCEPT ![t] =
            IF issued /\ Issued(t)
            THEN [state |-> "rejected_consumed", code |-> code]
            ELSE [@ EXCEPT !.code = IF issued THEN "other" ELSE code]]

\* The seeded fault forgets that a consumed capability can be the response's own.
SeededNoDeltaReplay(t) == FALSE

\* is_explicit_no_delta_replay: the newest receipt decides.
NoDeltaReplay(t) ==
  /\ cap[t].state = "rejected_consumed"
  /\ cap[t].code = "no_delta"

\* The capability half of prepare's transaction.
Consume(t) ==
  /\ Issued(t)
  /\ cap' = [cap EXCEPT ![t] = [state |-> "prepared_consumed", code |-> "other"]]

\* doctor(require_outbox_links): a receipt is of a capability that exists, and
\* a capability spent on authorship has its bundle.
RegistryHolds(t, linked) ==
  /\ cap[t].code # "none" => cap[t].state # "none"
  /\ cap[t].state = "prepared_consumed" => linked

=============================================================================
