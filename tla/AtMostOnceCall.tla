--------------------------- MODULE AtMostOnceCall ---------------------------
(***************************************************************************)
(* What the durable dispatcher promises about one tool call identity,      *)
(* whatever runtimes, restarts and retries do: the call is claimed by at   *)
(* most one dispatch, its tool takes effect at most once and only while    *)
(* claimed, and it settles at most once, after which its answer never      *)
(* changes.  A claim that is lost (a crash, an escaping error) leaves the  *)
(* call claimed for ever: the promise is "at most once", never "retry".    *)
(***************************************************************************)
EXTENDS Naturals

CONSTANTS Calls, Answers, NoAnswer

VARIABLES
  status,   \* "open", "claimed", "settled" or "cancelled"
  effects,  \* how often the tool behind the call took effect
  answer    \* the durable answer

vars == <<status, effects, answer>>

Init ==
  /\ status = [c \in Calls |-> "open"]
  /\ effects = [c \in Calls |-> 0]
  /\ answer = [c \in Calls |-> NoAnswer]

Claim(c) ==
  /\ status[c] = "open"
  /\ status' = [status EXCEPT ![c] = "claimed"]
  /\ UNCHANGED <<effects, answer>>

Effect(c) ==
  /\ status[c] = "claimed"
  /\ effects[c] = 0
  /\ effects' = [effects EXCEPT ![c] = 1]
  /\ UNCHANGED <<status, answer>>

\* A success is only ever reported for a tool that took effect.
Settle(c, a) ==
  /\ status[c] = "claimed"
  /\ a.state = "succeeded" => effects[c] = 1
  /\ status' = [status EXCEPT ![c] = "settled"]
  /\ answer' = [answer EXCEPT ![c] = a]
  /\ UNCHANGED effects

Cancel(c) ==
  /\ status[c] = "open"
  /\ status' = [status EXCEPT ![c] = "cancelled"]
  /\ UNCHANGED <<effects, answer>>

Next ==
  \E c \in Calls :
    \/ Claim(c)
    \/ Effect(c)
    \/ \E a \in Answers : Settle(c, a)
    \/ Cancel(c)

Spec == Init /\ [][Next]_vars
=============================================================================
