--------------------------- MODULE BundleOutcome ---------------------------
(***************************************************************************)
(* What the durable preparation outbox promises about a prepared bundle:   *)
(* it is decided once.  Either all its operations enter the working set,   *)
(* on top of exactly the revisions the bundle was authored against, or it  *)
(* is refused and none ever does.  Nothing is said about workers, leases,  *)
(* receipts or retries.                                                    *)
(***************************************************************************)
EXTENDS Naturals

CONSTANTS
  Bundles,   \* prepared bundles
  Items,     \* working-set items
  Expected   \* Expected[b]: the revision b expects of each item it targets

VARIABLES
  outcome,   \* "pending", "committed" or "refused"
  revision   \* current revision of each working-set item

OutcomeInit ==
  /\ outcome = [b \in Bundles |-> "pending"]
  /\ revision = [i \in Items |-> 1]

Fresh(b) == \A i \in DOMAIN Expected[b] : revision[i] = Expected[b][i]

Decide(b, verdict) ==
  /\ outcome[b] = "pending"
  /\ outcome' = [outcome EXCEPT ![b] = verdict]

CommitBundle(b) ==
  /\ Fresh(b)
  /\ Decide(b, "committed")
  /\ revision' = [i \in Items |-> IF i \in DOMAIN Expected[b]
                                    THEN revision[i] + 1 ELSE revision[i]]

RefuseBundle(b) == ~Fresh(b) /\ Decide(b, "refused") /\ UNCHANGED revision

\* Some other accepted author revises an item.
ReviseItem(i) ==
  /\ revision' = [revision EXCEPT ![i] = @ + 1]
  /\ UNCHANGED outcome

OutcomeNext ==
  \/ \E b \in Bundles : CommitBundle(b) \/ RefuseBundle(b)
  \/ \E i \in Items : ReviseItem(i)

OutcomeSpec == OutcomeInit /\ [][OutcomeNext]_<<outcome, revision>>
=============================================================================
