--------------------------- MODULE OutboxContract ---------------------------
(***************************************************************************)
(* What the email outbox promises, whatever threads, processes and the     *)
(* provider do: an event may be mailed any number of times while it is     *)
(* open, it is settled only after it was mailed, and once settled it is    *)
(* neither mailed again nor reopened.  One step of a process (its crash)   *)
(* may settle several events.                                              *)
(***************************************************************************)
EXTENDS Naturals

CONSTANT Event

VARIABLES
  mailed,   \* copies of each event the provider took
  settled   \* the events whose delivery is over

Init == mailed = [e \in Event |-> 0] /\ settled = {}

\* The provider takes a copy of e; the thread that sent it may be the last.
Mail(e) ==
  /\ e \notin settled
  /\ mailed' = [mailed EXCEPT ![e] = @ + 1]
  /\ settled' \in {settled, settled \cup {e}}

Settle(S) ==
  /\ S \cap settled = {}
  /\ \A e \in S : mailed[e] > 0
  /\ settled' = settled \cup S
  /\ UNCHANGED mailed

Next == \/ \E e \in Event : Mail(e)
        \/ \E S \in SUBSET Event : Settle(S)

Spec == Init /\ [][Next]_<<mailed, settled>>
=============================================================================
