------------------------------ MODULE MCGate12S ------------------------------
(***************************************************************************)
(* Instances of the two attempt gates for TLC, three small worlds.  In     *)
(* "path" one operation of Gate 12S runs at a time, and a rehearsal and    *)
(* two live turns follow each other; in "race" its handlers interleave     *)
(* over one turn of either mode, and operators start their commands before *)
(* the turn arrives.  At most MaxRaised operations of "path" end in an     *)
(* exception, and as many restarts interrupt "race".  "corrective" is      *)
(* Gate 12R, over two turns: at most MaxReports reports, activations,      *)
(* denials and restarts in all, one of them a restart, and an activation   *)
(* is issued where it is effective.                                        *)
(***************************************************************************)
EXTENDS Gate12SAttempts, Gate12RAttempts, FiniteSetsExt, TLC

CONSTANTS RaceTurns, MaxRaised, MaxReports, h1, h2, t1, t2

VARIABLES world, raised, reports

mcVars == <<vars, correctiveVars, world, raised, reports>>

Symmetry == Permutations({h1, h2}) \cup Permutations({t1, t2})

MCInit ==
  /\ Init /\ CorrectiveInit
  /\ world \in {"path", "race", "corrective"}
  /\ raised = 0 /\ reports = 0

MCRaise(h) == raised < MaxRaised /\ Raise(h) /\ raised' = raised + 1

Path ==
  \/ Enter(Turns) /\ (\A h \in Handlers : Idle(h)) /\ UNCHANGED raised
  \/ \E h \in Handlers :
       /\ \A g \in Handlers \ {h} : Idle(g)
       /\ \/ (Command(h) \/ Serve(h, Turns)) /\ UNCHANGED raised
          \/ MCRaise(h)

Race ==
  \/ Enter(RaceTurns) /\ UNCHANGED raised
  \/ \E h \in Handlers :
       \/ (Attempts = {} \/ ~Idle(h)) /\ Command(h) /\ UNCHANGED raised
       \/ Serve(h, RaceTurns) /\ UNCHANGED raised
  \/ raised < MaxRaised /\ Restart /\ raised' = raised + 1

Reporting ==
  \E c \in Callers : call[c].op = "idle" /\ call'[c].op \in {"copy", "activate"}

Corrective ==
  /\ CorrectiveNext
  /\ \A t \in Accepted' : attempts'[t].effective = attempts'[t].issued
  /\ reports' = reports + (IF Reporting THEN 1 ELSE 0)
  /\ raised' = raised + (IF RestartCorrective THEN 1 ELSE 0)
  /\ raised' <= 1
  /\ reports' + raised' + FoldSet(LAMBDA t, n : attempts'[t].denied + n, 0, Accepted') <= MaxReports

MCNext ==
  /\ \/ world = "path" /\ Path /\ UNCHANGED <<correctiveVars, reports>>
     \/ world = "race" /\ Race /\ UNCHANGED <<correctiveVars, reports>>
     \/ world = "corrective" /\ Corrective /\ UNCHANGED vars
  /\ UNCHANGED world

MCSpec == MCInit /\ [][MCNext]_mcVars

\* Without races and interruptions the doctor accepts the store between any two
\* operations, and a bound unit is on record: no operation that ran to its end
\* leaves something that blocks the next one (doctor, arm).
UninterruptedIsHealthy ==
  world = "path" /\ raised = 0 => QuietIsHealthy /\ BoundIsRecorded

=============================================================================
