------------------------------ MODULE MCIntents ------------------------------
(***************************************************************************)
(* Small instances of IntentApplication, one per question:                 *)
(*   alone  one turn, every context and answer, among others who write     *)
(*   pair   two turns given contexts of one project-less room, with plain  *)
(*          answers, applied in any order                                  *)
(***************************************************************************)
EXTENDS IntentApplication

CONSTANTS c1, c2

VARIABLE world

IntentWorlds == {"alone", "pair"}

Plain(a) ==
  /\ a.evidence = Nothing /\ ~a.reason
  /\ a.op = "create" => a.scope = "room" /\ a.kind # "pending_review"

Asks(t) ==
  IF world = "alone" THEN \E r \in Relations, s \in BOOLEAN : ReadContext(t, r, s)
                     ELSE ReadContext(t, "unknown", FALSE)

Answers(t) ==
  /\ given[t] # NoContext /\ outcome[t] = NoOutcome
  /\ \E a \in Creations \cup Changes(given[t]) :
       (world = "pair" => Plain(a)) /\ Answer(t, a)

Others ==
  \E i \in ItemIds : OtherWrite(i) \/ \E n \in 1 .. Versions(i) : Mark(i, n)

IntentStep ==
  \/ \E t \in Clients : (world = "alone" => t = c1) /\ (Asks(t) \/ Answers(t) \/ Apply(t))
  \/ world = "alone" /\ Others
  \/ DayPasses
=============================================================================
