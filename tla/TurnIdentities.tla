--------------------------- MODULE TurnIdentities ---------------------------
(***************************************************************************)
(* The identities the stores of a protected turn share.  An id or a hash   *)
(* stands for exactly what it binds.                                       *)
(***************************************************************************)
EXTENDS Naturals

CONSTANTS
  Turns,         \* client turns; each has its own capability and operation
  Units,         \* complete units (facades built from a session sync)
  ReleaseTimes,  \* the `at` values callers pass to release_visible
  CompletedAt,   \* the one process_provider_response passes
  None           \* SQL NULL

ASSUME IdentityAssumption ==
  /\ None \notin Turns \cup Units \cup ReleaseTimes
  /\ CompletedAt \in ReleaseTimes

=============================================================================
