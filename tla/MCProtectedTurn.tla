-------------------------- MODULE MCProtectedTurn --------------------------
(***************************************************************************)
(* Instances of ProtectedTurn for TLC, three small worlds.  In "calm" and  *)
(* "faulty" one processor and one sync serve two turns, without any fault  *)
(* or with crashes and cancellations at any time; in "rivals" two          *)
(* processors and two syncs work on one turn at once, with faults.         *)
(***************************************************************************)
EXTENDS ProtectedTurn

CONSTANTS t1, t2, p1, p2, s1, s2, u1, u2, b1, b2, bad

VARIABLE world

MCNext ==
  /\ \/ /\ world \in {"calm", "faulty"}
        /\ Work(Turns, {p1}, {s1}, {u1}, ReleaseTimes)
     \/ /\ world = "rivals"
        /\ Work({t1}, Processors, Syncs, Units, {CompletedAt})
     \/ /\ world # "calm"
        /\ Fault
  /\ UNCHANGED world

MCInit ==
  /\ Init
  /\ world \in {"calm", "faulty", "rivals"}
  /\ bytes[t2] = b2                         \* b1 and b2 are interchangeable
  /\ bytes[t1] = bad => kind[t1] = "none"   \* nothing parses them
  /\ world = "rivals" =>                    \* t2 never starts there
       kind[t2] = "none" /\ bytes[t1] = b1

MCSpec == MCInit /\ [][MCNext]_<<vars, world>> /\ Fairness

\* Only the handlers that race for one turn.
RivalSpec == MCInit /\ world = "rivals" /\ [][MCNext]_<<vars, world>>

\* An explicit no-delta answer that one handler alone works on survives every
\* restart of it; with two handlers it does not (NoDeltaSurvivesRestart).
NoDeltaAnswerSurvives == world # "rivals" => NoDeltaSurvivesRestart

\* Without crashes and cancellations every reserved turn gets a verdict, unless its
\* response is one that record_completion refuses: empty, longer than 4 MiB, or
\* the very bytes another turn has on record.  process_provider_response then
\* raises with the turn still reserved.  Nothing else the turn waits for can be
\* refused for ever (process_provider_response, replay_parse_and_prepare,
\* release_visible).
TurnsSettle ==
  \A t \in Turns :
    world = "calm" /\ turn[t].state = "reserved" ~>
      \/ turn[t].state # "reserved"
      \/ CompletionRefused(t) /\ \A p \in Processors : T(p) # t

=============================================================================
