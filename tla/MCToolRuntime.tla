--------------------------- MODULE MCToolRuntime ---------------------------
(***************************************************************************)
(* Two calls of one operation, two bindings one of which has incomplete    *)
(* arguments, and three workers that retry, collide and crash without bound. *)
(***************************************************************************)
EXTENDS ToolRuntime, TLC

CONSTANTS c1, c2, op, b1, b2, v1, w1, w2, w3

MCParentOf == [c \in {c1, c2} |-> op]

Symmetry == Permutations(Workers) \cup Permutations({c1, c2})
=============================================================================
