------------------------ MODULE MCOutboxApplication ------------------------
(***************************************************************************)
(* Instances of OutboxApplication for TLC, with those of IntentApplication. *)
(* Only in a late behaviour does a worker outlive its lease, which apply() *)
(* does not look at again.  The rival bundle b2 takes part in the punctual *)
(* behaviours, another author of the items in the late ones.               *)
(***************************************************************************)
EXTENDS OutboxApplication, MCIntents, TLC

CONSTANTS b1, b2, i1, i2, w1, w2,
          Worlds   \* the worlds of this run

\* Two bundles authored against the same revision of i1; one needs i2 as well.
Rivals == b1 :> (i1 :> 1 @@ i2 :> 1) @@ b2 :> (i1 :> 1)

ASSUME WorldsAreThere == Worlds \subseteq {"late", "punctual"} \cup IntentWorlds

MCInit == Init /\ IntentInit /\ world \in Worlds

Applying ==
  /\ Next
  /\ world = "late" => bundle'[b2] = bundle[b2]
  /\ world = "punctual" =>
       /\ InTime
       /\ revision' # revision => committed' # committed

MCNext ==
  /\ UNCHANGED world
  /\ \/ world \in {"late", "punctual"} /\ Applying /\ UNCHANGED intentVars
     \/ world \in IntentWorlds /\ IntentStep /\ UNCHANGED vars

MCSpec == MCInit /\ [][MCNext]_<<vars, intentVars, world>>

(***************************************************************************)
(* Properties.                                                             *)
(***************************************************************************)
\* apply(), with its leases, receipts, retries and crashes, decides every
\* bundle once: committed as a whole on the expected revisions, or refused
\* because they were gone; as long as no worker outlives its lease.
ImplementsBundleOutcome ==
  /\ Abstract!OutcomeInit
  /\ [][world = "punctual" => Abstract!OutcomeNext]_<<Outcome, revision>>

=============================================================================
