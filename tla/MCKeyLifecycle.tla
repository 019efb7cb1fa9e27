---------------------------- MODULE MCKeyLifecycle ----------------------------
(* Small instances of KeyLifecycle for TLC. *)
EXTENDS KeyLifecycle, TLC

\* Every thread in a process of its own.
MCProcess == {{t} : t \in Thread}

Symmetry == Permutations(Thread) \cup Permutations(Email)
=============================================================================
