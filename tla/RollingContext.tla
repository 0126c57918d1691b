--------------------------- MODULE RollingContext ---------------------------
(***************************************************************************)
(* What the Milestone 3 context promises about one room, wherever its      *)
(* handlers stop: the room is the list of its turns in the order they were *)
(* joined, and a turn only ages.  New turns are hot; the oldest hot turns  *)
(* become warm together; warm turns become cold.  No turn is lost,         *)
(* repeated, reordered or warmed up again.  The store takes any warm turns *)
(* a client names (AgingSpec); the syncs name the oldest (RollingSpec).    *)
(***************************************************************************)
EXTENDS Naturals, Sequences

CONSTANT Turns

VARIABLE turns      \* sequence of [turn, place]

Places == {"hot", "warm", "cold"}

Known == {turns[i].turn : i \in DOMAIN turns}

Age(place) == CHOOSE n \in 0..2 : place = <<"hot", "warm", "cold">>[n + 1]

(* A room is taken up with any history: its older turns are not less aged.  *)
Init ==
    \A i, j \in DOMAIN turns :
        i < j => /\ turns[i].turn # turns[j].turn
                 /\ Age(turns[i].place) >= Age(turns[j].place)

(* New turns join at the end, hot. *)
Join ==
    \E n \in 1..2 :
        \E new \in [1..n -> Turns \ Known] :
            /\ \A i, j \in 1..n : i # j => new[i] # new[j]
            /\ turns' = turns \o [i \in 1..n |-> [turn |-> new[i], place |-> "hot"]]

Cold == {i \in DOMAIN turns : turns[i].place = "cold"}
Warm == {i \in DOMAIN turns : turns[i].place = "warm"}
Hot  == {i \in DOMAIN turns : turns[i].place = "hot"}

(* The oldest hot turns, up to position k, become warm; the warm turns at  *)
(* positions in C become cold, and the cold ones stay so.                  *)
Shift(k, C) ==
    /\ k \in Hot
    /\ Cold \subseteq C /\ C \cap Hot = {}
    /\ turns' = [i \in DOMAIN turns |->
                   [turn |-> turns[i].turn,
                    place |-> IF i \in C THEN "cold"
                              ELSE IF i <= k THEN "warm" ELSE "hot"]]

(* No warm turn stays behind a younger one that becomes cold. *)
OldestFirst(C) == \A i \in C \ Cold, j \in Warm : j < i => j \in C

(* What any client of the store can do. *)
Shifts == \E k \in DOMAIN turns, C \in SUBSET DOMAIN turns : Shift(k, C)

(* What a client does that takes the oldest. *)
Rolls == \E k \in DOMAIN turns, C \in SUBSET DOMAIN turns : Shift(k, C) /\ OldestFirst(C)

AgingSpec == Init /\ [][Join \/ Shifts]_turns

RollingSpec == Init /\ [][Join \/ Rolls]_turns
=============================================================================
