-------------------------- MODULE CompletionReplay --------------------------
(***************************************************************************)
(* HouseContinuityProviderCompletionReplayLocal: the private record of one *)
(* provider completion and the compare-and-swap that moves it along        *)
(*   retained_unparsed -> parsed_pending_preparation -> (a decision)       *)
(*                     -> visible_released.                                *)
(* The caller carries the (state, revision) it read to its CAS.            *)
(***************************************************************************)
EXTENDS TurnIdentities

CONSTANTS
  Bytes,      \* response bodies
  Retainable  \* the ones that are neither empty nor longer than 4 MiB

ASSUME RetainableAssumption == Retainable \subseteq Bytes

VARIABLES
  completion,  \* turn -> [state, revision]; revision 0: no row
  bytes        \* turn -> the bytes its provider answers with

Decisions == {"prepared", "rejected", "explicit_no_delta", "closed_unused",
              "preparation_failed_visible_authorized"}

CompletionStates == {"none", "retained_unparsed", "parsed_pending_preparation",
                     "visible_released"} \cup Decisions

Records == [state : CompletionStates, revision : Nat]

NoRecord == [state |-> "none", revision |-> 0]

CompletionTypeOK ==
  /\ completion \in [Turns -> Records]
  /\ bytes \in [Turns -> Bytes]

CompletionInit ==
  /\ completion = [t \in Turns |-> NoRecord]
  /\ bytes \in [Turns -> Bytes]

Decided(t) == completion[t].state \in Decisions \cup {"visible_released"}

\* terminal_response_sha256 is UNIQUE: no two operations keep the same bytes.
Insertable(t) ==
  /\ bytes[t] \in Retainable
  /\ \A u \in Turns \ {t} : bytes[u] = bytes[t] => completion[u] = NoRecord

\* A second call for an operation whose record has moved on is an identity
\* conflict, so only the insert changes anything.
RecordCompletion(t) ==
  /\ completion[t] = NoRecord
  /\ Insertable(t)
  /\ completion' = [completion EXCEPT ![t] = [state |-> "retained_unparsed", revision |-> 1]]

\* invalid_private_terminal_response, or provider_completion_identity_conflict:
\* another operation has these bytes on record, and records are never removed.
CompletionRefused(t) == completion[t] = NoRecord /\ ~Insertable(t)

\* _cas_replace and _record_parse: `seen` is the record read earlier.
CasReplace(t, seen, state) ==
  /\ completion[t] = seen
  /\ completion' = [completion EXCEPT ![t] = [state |-> state,
                                              revision |-> seen.revision + 1]]

CasConflict(t, seen) == completion[t] # seen

\* The seeded fault releases a parsed response whose fate is still open.
SeededReleaseAuthorized(t) ==
  completion[t].state \in Decisions \cup {"parsed_pending_preparation"}

\* The states release_visible accepts (visible_released only returns the bytes).
ReleaseAuthorized(t) == completion[t].state \in Decisions

=============================================================================
