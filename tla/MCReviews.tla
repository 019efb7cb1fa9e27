------------------------------ MODULE MCReviews ------------------------------
(* Small instances of Reviews for TLC. *)
EXTENDS Reviews

CONSTANTS a1, a2, m1, m2, x, y
=============================================================================
