------------------------- MODULE DurablePreparation -------------------------
(***************************************************************************)
(* The preparation half of HouseContinuityDurablePreparationOutboxLocal:   *)
(* the provider operation (is the response visible, which complete unit    *)
(* does it belong to) and the outbox bundle prepared for it, up to         *)
(* ready_to_apply, where OutboxApplication takes over.                     *)
(*                                                                         *)
(* _replace_operation, _replace_bundle and cancel_before_visible compare   *)
(* every record they read before they write, so each is atomic here.       *)
(***************************************************************************)
EXTENDS TurnIdentities

VARIABLES
  operation,   \* turn -> provider_operations row; visible "none": no row
  bundle       \* turn -> outbox_bundles row; state "none": no row

VisibleStates == {"none", "retained_not_released", "visible_released",
                  "delivery_cancelled"}

BundleStates == {"none", "prepared_waiting_visible", "visible_released_waiting_unit",
                 "ready_to_apply", "cancelled_before_visible"}

PreparationTypeOK ==
  /\ operation \in [Turns -> [visible : VisibleStates, failed : BOOLEAN,
                              at : ReleaseTimes \cup {None},
                              expected : Units \cup {None},
                              unit : Units \cup {None}]]
  /\ bundle \in [Turns -> [state : BundleStates, unit : Units \cup {None}]]

PreparationInit ==
  /\ operation = [t \in Turns |-> [visible |-> "none", failed |-> FALSE, at |-> None,
                                   expected |-> None, unit |-> None]]
  /\ bundle = [t \in Turns |-> [state |-> "none", unit |-> None]]

Prepared(t) == bundle[t].state # "none"

RecordProviderOperation(t) ==
  /\ operation[t].visible = "none"
  /\ operation' = [operation EXCEPT ![t].visible = "retained_not_released"]

\* record_preparation_failure raises for a missing or cancelled operation.
CanRecordFailure(t) == operation[t].visible \in {"retained_not_released", "visible_released"}

\* Operators named Seeded... are deliberate faults, used by no definition: each
\* stands in for the definition after it to show that a property notices.
SeededRecordFailure(t) == CanRecordFailure(t) /\ UNCHANGED operation

RecordPreparationFailure(t) ==
  /\ CanRecordFailure(t)
  /\ operation' = [operation EXCEPT ![t].failed = TRUE]

\* The state prepare gives a new bundle, from the operation it read before its
\* transaction: after the release only a recorded failure may be made good.
Preparable(op) ==
  \/ op.visible = "retained_not_released"
  \/ op.visible = "visible_released" /\ op.failed

InitialBundle(op) ==
  [state |-> IF op.visible = "visible_released"
             THEN "visible_released_waiting_unit" ELSE "prepared_waiting_visible",
   unit |-> None]

InsertBundle(t, op) ==
  /\ bundle[t].state = "none"
  /\ bundle' = [bundle EXCEPT ![t] = InitialBundle(op)]

\* record_visible_release up to the reconcile call.
ReleaseAccepted(t, at) ==
  \/ operation[t].visible = "retained_not_released"
  \/ operation[t].visible = "visible_released" /\ operation[t].at = at

RecordVisibleRelease(t, at) ==
  /\ ReleaseAccepted(t, at)
  /\ operation' = [operation EXCEPT ![t].visible = "visible_released", ![t].at = at]

\* reconcile_visible_release moves only a bundle that waits for visibility.
ReconcileVisibleRelease(t) ==
  bundle' = IF bundle[t].state = "prepared_waiting_visible"
            THEN [bundle EXCEPT ![t].state = "visible_released_waiting_unit"]
            ELSE bundle

\* The seeded fault withdraws the bundle and leaves the operation releasable.
SeededCancel(t) ==
  /\ bundle[t].state = "prepared_waiting_visible"
  /\ operation[t].visible = "retained_not_released"
  /\ bundle' = [bundle EXCEPT ![t].state = "cancelled_before_visible"]
  /\ UNCHANGED operation

CancelBeforeVisible(t) ==
  /\ bundle[t].state = "prepared_waiting_visible"
  /\ operation[t].visible = "retained_not_released"
  /\ operation' = [operation EXCEPT ![t].visible = "delivery_cancelled"]
  /\ bundle' = [bundle EXCEPT ![t].state = "cancelled_before_visible"]

\* finalize_complete_unit_expectation: the first finalized expectation stays.
\* The seeded fault lets a later sync replace it.
SeededExpectation(t, u) == u \in Units

ExpectationAccepted(t, u) == operation[t].expected \in {None, u}

FinalizeExpectation(t, u) ==
  /\ ExpectationAccepted(t, u)
  /\ operation' = [operation EXCEPT ![t].expected = u]

\* publish_complete_unit: the unit is the expected one, and the only one.
UnitAccepted(t, u) == operation[t].expected = u /\ operation[t].unit \in {None, u}

PublishCompleteUnit(t, u) ==
  /\ UnitAccepted(t, u)
  /\ operation' = [operation EXCEPT ![t].unit = u]

Bindable(t) ==
  /\ bundle[t].state = "visible_released_waiting_unit"
  /\ operation[t].unit # None

\* bind_complete_unit: a bundle that is ready already is returned as it is.
BindCompleteUnit(t) ==
  \/ bundle[t].state = "ready_to_apply" /\ UNCHANGED bundle
  \/ /\ Bindable(t)
     /\ bundle' = [bundle EXCEPT ![t] = [state |-> "ready_to_apply",
                                         unit |-> operation[t].unit]]

=============================================================================
