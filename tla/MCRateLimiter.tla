---------------------------- MODULE MCRateLimiter ----------------------------
(* Small instances of RateLimiter for TLC. *)
EXTENDS RateLimiter, TLC

CONSTANTS c1, c2, b1, h1, h2, p1, p2

\* Handler h1 runs in process p1, h2 in p2.
MCHome == [h \in Handler |-> IF h = h1 THEN p1 ELSE p2]

\* The processes may be swapped, each with its handler.
Symmetry == {h1 :> h2 @@ h2 :> h1 @@ p1 :> p2 @@ p2 :> p1}

\* Keys of one name share a bucket: c1 with a limit of one call, c2 of two.
MCLabel == [c \in Client |-> b1]
MCLimit == [c \in Client |-> IF c = c1 THEN 1 ELSE 2]
MCCallsOf == [c \in Client |-> IF c = c1 THEN 3 ELSE 2]
=============================================================================
