----------------------------- MODULE MCBilling -----------------------------
(* Two payments of one plan for one key, and values for the constants of   *)
(* Billing.                                                                *)
EXTENDS Billing

CONSTANTS k1, e1, basic, p1, p2, h1, h2

OneKey      == [p \in Payment |-> k1]
OnePlan     == [p \in Payment |-> basic]
OneCustomer == [k \in Key |-> e1]
=============================================================================
