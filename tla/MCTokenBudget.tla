---------------------------- MODULE MCTokenBudget ----------------------------
(* Small instances of TokenBudget for TLC. *)
EXTENDS TokenBudget

CONSTANTS h1, h2, h3, p1, p2

\* Two requests of one process and one of the other.
MCHome == [h \in Handler |-> IF h = h3 THEN p2 ELSE p1]
=============================================================================
