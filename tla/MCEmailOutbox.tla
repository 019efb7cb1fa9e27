---------------------------- MODULE MCEmailOutbox ----------------------------
(* Small instances of EmailOutbox for TLC. *)
EXTENDS EmailOutbox, TLC

CONSTANTS w1, w2, c1, k1, long, cut

\* Two server processes; the scheduled job's thread lives in the first.
MCProcess == {{w1, c1} \cap Thread, {w2} \cap Thread}

\* k1 fits the column; `long` does not, and is stored as `cut`.
MCTrunc == [k \in Key |-> IF k = long THEN cut ELSE k]
=============================================================================
