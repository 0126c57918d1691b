--------------------------- MODULE Gate12Control ---------------------------
(***************************************************************************)
(* Gate12ControlStore: the one-turn latch and the per-turn receipts.       *)
(* arm and consume are BEGIN IMMEDIATE transactions; update_turn rewrites  *)
(* the receipt whatever its state is.                                      *)
(***************************************************************************)
EXTENDS TurnIdentities

VARIABLES
  latch,   \* [state, turn]
  turn     \* turn -> [state, bundle, unit]: the receipt of the turn

\* `accepted`, `unsupplied` and `refused` are the parser's continuity states
\* (accepted_known_capability, authorship_not_supplied, any rejected_...).
TurnStates == {"absent", "reserved", "activation_failed", "provider_failed", "refused",
               "accepted", "unsupplied", "explicit_solen_no_semantic_delta",
               "visible_released_waiting_unit", "ready_to_apply_shadow_only"}

\* Turns that leave the latch free for the next one.
Settled == {"ready_to_apply_shadow_only", "explicit_solen_no_semantic_delta"}

ControlTypeOK ==
  /\ latch \in [state : {"unarmed", "armed", "consumed"}, turn : Turns \cup {None}]
  /\ turn \in [Turns -> [state : TurnStates, bundle : BOOLEAN,
                         unit : Units \cup {None}]]

ControlInit ==
  /\ latch = [state |-> "unarmed", turn |-> None]
  /\ turn = [t \in Turns |-> [state |-> "absent", bundle |-> FALSE, unit |-> None]]

\* The seeded fault re-arms after any turn that is over.
SeededArm ==
  /\ latch.state = "consumed" => turn[latch.turn].state # "reserved"
  /\ latch' = [state |-> "armed", turn |-> None]

Arm ==
  /\ latch.state = "consumed" => turn[latch.turn].state \in Settled
  /\ latch' = [state |-> "armed", turn |-> None]

\* consume: the latch and the new receipt in one transaction.
ConsumeLatch(t) ==
  /\ latch.state = "armed"
  /\ turn[t].state = "absent"
  /\ latch' = [state |-> "consumed", turn |-> t]
  /\ turn' = [turn EXCEPT ![t].state = "reserved"]

\* _latch_integrity_error: only a consumed latch names a turn.
LatchHolds == latch.state = "consumed" <=> latch.turn # None

UpdateTurn(t, state) == turn' = [turn EXCEPT ![t].state = state]

=============================================================================
