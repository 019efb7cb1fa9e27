------------------------------ MODULE MCPasswords ------------------------------
(* A small instance of Passwords for TLC: one thread in each process. *)
EXTENDS Passwords, TLC

CONSTANTS t1, t2, p1, p2

MCThread == {t1, t2}
MCProcess == {p1, p2}
MCOf == (t1 :> p1) @@ (t2 :> p2)
=============================================================================
