------------------------------- MODULE Billing -------------------------------
(***************************************************************************)
(* Payments: app/billing.py and the Razorpay endpoints of app/main.py.     *)
(* The customer, with the key, or the administrator has an order made whose *)
(* notes name the key.  The provider captures its payment and calls the    *)
(* webhook until it is answered; the browser may call verify for the same  *)
(* payment.  Either handler marks the key paid in one transaction, queues  *)
(* a success email and an invoice under their deduplication keys in two    *)
(* more, and answers.  An error while queueing is logged and the answer is *)
(* given all the same.  The administrator may change the flag, or          *)
(* deactivate the key, at any time.                                        *)
(*                                                                         *)
(* Signatures are assumed genuine, the keys to exist; how a queued email *)
(* is delivered is the subject of EmailOutbox.                             *)
(***************************************************************************)
EXTENDS Naturals, Orm

CONSTANTS
  Payment,      \* payments, each with its own order id and payment id
  Key, KeyOf,   \* API keys; the key the notes of a payment name
  Email,        \* addresses of signup leads
  Contact, Nobody,  \* the address of a key's latest lead, Nobody without a lead
  Plan, PlanOf, \* plans; the plan a payment is for
  ForSale,      \* the plans of the catalog with a price
  Handler,      \* requests served at the same time
  MaxVerifies,  \* bound: verify calls
  MaxRepeats,   \* bound: webhook calls repeated although answered
  MaxChanges,   \* bound: changes of keys by the administrator or the clock
  MaxFaults     \* bound: errors while queueing an email, and handlers that die

ASSUME PaymentAssumption ==
  /\ KeyOf \in [Payment -> Key] /\ PlanOf \in [Payment -> Plan]
  /\ Nobody \notin Email /\ Contact \in [Key -> Email \cup {Nobody}]
ASSUME BoundAssumption ==
  {MaxVerifies, MaxRepeats, MaxChanges, MaxFaults} \subseteq Nat

VARIABLES
  apiKey,     \* the billing columns of api_keys
  active,     \* the keys with is_active
  lapsed,     \* the keys whose trial from the signup is over, by the clock
  ordered,    \* at the provider: payments an order was made for
  captured,   \* at the provider: payments captured
  answered,   \* at the provider: payments whose webhook was answered
  job,        \* the request each handler serves
  loaded,     \* the key as each handler loaded it
  thanks,     \* success emails in the outbox, by their deduplication key
  invoices,   \* payments with an invoice in the outbox
  touched,    \* history: keys whose flag the administrator wrote
  verifies, repeats, changes, errors, crashes   \* how many so far

access == <<active, lapsed, ordered>>
bounds == <<verifies, repeats, changes, errors, crashes>>
vars   == <<apiKey, access, captured, answered, job, loaded, thanks, invoices, touched, bounds>>

\* is_paid; trial_ends_at is empty, from the signup, or when the key became unpaid.
KeyRow  == [paid : BOOLEAN, trial : {"none", "signup", "unpaid"}]
Paying  == {"webhook", "verify"}
Idle    == [at |-> "idle"]
PayJob  == [at : {"received", "loaded", "paid", "thanked", "answer"},
            kind : Paying, pay : Payment]
MarkJob == [at : {"received", "loaded", "answer"},
            kind : {"mark"}, key : Key, paid : BOOLEAN]
Thanks  == [to : Email, plan : Plan]

TypeOK ==
  /\ apiKey \in [Key -> KeyRow]
  /\ active \subseteq Key /\ lapsed \subseteq Key /\ ordered \subseteq Payment
  /\ captured \subseteq ordered /\ answered \subseteq captured
  /\ job \in [Handler -> {Idle} \cup PayJob \cup MarkJob]
  /\ loaded \in [Handler -> KeyRow]
  /\ thanks \subseteq Thanks /\ invoices \subseteq Payment /\ touched \subseteq Key
  /\ verifies \in 0..MaxVerifies /\ repeats \in 0..MaxRepeats
  /\ changes \in 0..MaxChanges /\ errors \in 0..MaxFaults /\ crashes \in 0..MaxFaults

(* A signup leaves a key in its trial; nothing is loaded yet. *)
Trial == [paid |-> FALSE, trial |-> "signup"]
Init ==
  /\ apiKey = [k \in Key |-> Trial]
  /\ active = Key /\ lapsed = {} /\ ordered = {} /\ captured = {} /\ answered = {} /\ thanks = {} /\ invoices = {} /\ touched = {}
  /\ job = [h \in Handler |-> Idle] /\ loaded = [h \in Handler |-> Trial]
  /\ verifies = 0 /\ repeats = 0 /\ changes = 0 /\ errors = 0 /\ crashes = 0

-----------------------------------------------------------------------------
(* What calls the endpoints. *)

\* The clock passes a key's trial_ends_at.
EndTrial(k) ==
  /\ apiKey[k] = Trial /\ k \notin lapsed
  /\ changes < MaxChanges /\ changes' = changes + 1
  /\ lapsed' = lapsed \cup {k}
  /\ UNCHANGED <<apiKey, active, ordered, captured, answered, job, loaded, thanks, invoices,
                 touched, verifies, repeats, errors, crashes>>

\* What the middleware answers with 402 before any endpoint sees it.
Overdue(k) ==
  /\ ~apiKey[k].paid
  /\ apiKey[k].trial = "unpaid" \/ (apiKey[k].trial = "signup" /\ k \in lapsed)

\* create_razorpay_order: an order for a live key.
MakeOrder(p) ==
  /\ p \notin ordered /\ KeyOf[p] \in active
  /\ ordered' = ordered \cup {p}
  /\ UNCHANGED <<apiKey, active, lapsed, captured, answered, job, loaded, thanks, invoices,
                 touched, bounds>>

\* The customer's endpoint, which sells the plans of the catalog that cost
\* something.
Checkout(p) == PlanOf[p] \in ForSale /\ ~Overdue(KeyOf[p]) /\ MakeOrder(p)

\* The administrator's endpoint is not behind the key.
AdminOrder(p) == MakeOrder(p)

Deactivate(k) ==
  /\ k \in active
  /\ changes < MaxChanges /\ changes' = changes + 1
  /\ active' = active \ {k}
  /\ UNCHANGED <<apiKey, lapsed, ordered, captured, answered, job, loaded, thanks, invoices,
                 touched, verifies, repeats, errors, crashes>>

Capture(p) ==
  /\ p \in ordered \ captured
  /\ captured' = captured \cup {p}
  /\ UNCHANGED <<apiKey, access, answered, job, loaded, thanks, invoices, touched, bounds>>

Receive(h, request) ==
  /\ job[h] = Idle
  /\ job' = [job EXCEPT ![h] = request]
  /\ UNCHANGED <<apiKey, access, captured, answered, loaded, thanks, invoices, touched, errors, crashes>>

DeliverWebhook(h, p) ==
  /\ p \in captured \ answered
  /\ Receive(h, [at |-> "received", kind |-> "webhook", pay |-> p])
  /\ UNCHANGED <<verifies, repeats, changes>>

RepeatWebhook(h, p) ==
  /\ p \in answered /\ repeats < MaxRepeats
  /\ repeats' = repeats + 1
  /\ Receive(h, [at |-> "received", kind |-> "webhook", pay |-> p])
  /\ UNCHANGED <<verifies, changes>>

CallVerify(h, p) ==
  /\ p \in captured /\ verifies < MaxVerifies
  /\ verifies' = verifies + 1
  /\ Receive(h, [at |-> "received", kind |-> "verify", pay |-> p])
  /\ UNCHANGED <<repeats, changes>>

AdminMark(h, k, paid) ==
  /\ changes < MaxChanges
  /\ changes' = changes + 1
  /\ Receive(h, [at |-> "received", kind |-> "mark", key |-> k, paid |-> paid])
  /\ UNCHANGED <<verifies, repeats>>

-----------------------------------------------------------------------------
(* set_db_api_key_paid: one row loaded, changed and committed. *)
KeyFor(j)  == IF j.kind \in Paying THEN KeyOf[j.pay] ELSE j.key
MakePaid(j) == IF j.kind \in Paying THEN TRUE ELSE j.paid

(* Mutant: an inactive key is not found, as when its order is made. *)
LoadActiveKey(h) ==
  /\ job[h].at = "received"
  /\ KeyFor(job[h]) \in active
  /\ loaded' = [loaded EXCEPT ![h] = apiKey[KeyFor(job[h])]]
  /\ job' = [job EXCEPT ![h].at = "loaded"]
  /\ UNCHANGED <<apiKey, access, captured, answered, thanks, invoices, touched, bounds>>

LoadKey(h) ==
  /\ job[h].at = "received"
  /\ loaded' = [loaded EXCEPT ![h] = apiKey[KeyFor(job[h])]]
  /\ job' = [job EXCEPT ![h].at = "loaded"]
  /\ UNCHANGED <<apiKey, access, captured, answered, thanks, invoices, touched, bounds>>

(* Being paid ends the trial; no longer being paid starts one that is over. *)
BillingRow(row, paid) ==
  [row EXCEPT !.paid = paid,
              !.trial = IF paid THEN "none" ELSE IF @ = "none" THEN "unpaid" ELSE @]

(* Mutant: the administrator's change is confirmed by email as well. *)
BillableAlways(j) == Contact[KeyFor(j)] # Nobody

Billable(j) == j.kind \in Paying /\ Contact[KeyOf[j.pay]] # Nobody

(* Mutant: the trial is the only sign of a payment. *)
CommitTrialOnly(h) ==
  LET j == job[h]
      k == KeyFor(j)
  IN /\ j.at = "loaded"
     /\ apiKey' = [apiKey EXCEPT ![k] =
                     Flush(@, loaded[h], [BillingRow(loaded[h], MakePaid(j)) EXCEPT !.paid = loaded[h].paid])]
     /\ touched' = IF j.kind = "mark" THEN touched \cup {k} ELSE touched
     /\ job' = [job EXCEPT ![h].at = IF Billable(j) THEN "paid" ELSE "answer"]
     /\ UNCHANGED <<access, captured, answered, loaded, thanks, invoices, bounds>>

CommitKey(h) ==
  LET j == job[h]
      k == KeyFor(j)
  IN /\ j.at = "loaded"
     /\ apiKey' = [apiKey EXCEPT ![k] =
                     Flush(@, loaded[h], BillingRow(loaded[h], MakePaid(j)))]
     /\ touched' = IF j.kind = "mark" THEN touched \cup {k} ELSE touched
     /\ job' = [job EXCEPT ![h].at = IF Billable(j) THEN "paid" ELSE "answer"]
     /\ UNCHANGED <<access, captured, answered, loaded, thanks, invoices, bounds>>

(* Mutant: who was thanked before has his invoice. *)
QueueSuccessOnce(h) ==
  LET p == job[h].pay
      email == [to |-> Contact[KeyOf[p]], plan |-> PlanOf[p]]
  IN /\ job[h].at = "paid"
     /\ thanks' = thanks \cup {email}
     /\ job' = [job EXCEPT ![h].at = IF email \in thanks THEN "answer" ELSE "thanked"]
     /\ UNCHANGED <<apiKey, access, captured, answered, loaded, invoices, touched, bounds>>

(* _schedule_payment_emails: each email is a transaction of its own that    *)
(* its unique deduplication key may turn into a lookup.                     *)
QueueSuccess(h) ==
  LET p == job[h].pay
      email == [to |-> Contact[KeyOf[p]], plan |-> PlanOf[p]]
  IN /\ job[h].at = "paid"
     /\ thanks' = thanks \cup {email}
     /\ job' = [job EXCEPT ![h].at = "thanked"]
     /\ UNCHANGED <<apiKey, access, captured, answered, loaded, invoices, touched, bounds>>

QueueInvoice(h) ==
  /\ job[h].at = "thanked"
  /\ invoices' = invoices \cup {job[h].pay}
  /\ job' = [job EXCEPT ![h].at = "answer"]
  /\ UNCHANGED <<apiKey, access, captured, answered, loaded, thanks, touched, bounds>>

(* A database error in either ends both, and only the log says so. *)
QueueFails(h) ==
  /\ job[h].at \in {"paid", "thanked"} /\ errors + crashes < MaxFaults
  /\ errors' = errors + 1
  /\ job' = [job EXCEPT ![h].at = "answer"]
  /\ UNCHANGED <<apiKey, access, captured, answered, loaded, thanks, invoices, touched,
                 verifies, repeats, changes, crashes>>

Answer(h) ==
  /\ job[h].at = "answer"
  /\ answered' = IF job[h].kind = "webhook" THEN answered \cup {job[h].pay} ELSE answered
  /\ job' = [job EXCEPT ![h] = Idle]
  /\ UNCHANGED <<apiKey, access, captured, loaded, thanks, invoices, touched, bounds>>

(* The process dies, or a statement before the emails fails: no answer. *)
Crash(h) ==
  /\ job[h] # Idle /\ errors + crashes < MaxFaults
  /\ crashes' = crashes + 1
  /\ job' = [job EXCEPT ![h] = Idle]
  /\ UNCHANGED <<apiKey, access, captured, answered, loaded, thanks, invoices, touched,
                 verifies, repeats, changes, errors>>

Step(h) ==
  \/ LoadKey(h) \/ CommitKey(h) \/ QueueSuccess(h) \/ QueueInvoice(h) \/ Answer(h)

Next ==
  \/ \E k \in Key : EndTrial(k) \/ Deactivate(k)
  \/ \E p \in Payment : Checkout(p) \/ AdminOrder(p) \/ Capture(p)
  \/ \E h \in Handler, p \in Payment :
       DeliverWebhook(h, p) \/ RepeatWebhook(h, p) \/ CallVerify(h, p)
  \/ \E h \in Handler, k \in Key, paid \in BOOLEAN : AdminMark(h, k, paid)
  \/ \E h \in Handler : Step(h) \/ QueueFails(h) \/ Crash(h)

(* Handlers that are not killed run on, and the provider calls again until *)
(* it is answered.                                                         *)
Spec ==
  /\ Init /\ [][Next]_vars
  /\ \A h \in Handler : WF_vars(Step(h))
  /\ \A p \in Payment : WF_vars(\E h \in Handler : DeliverWebhook(h, p))

-----------------------------------------------------------------------------
(* A payment that was answered or billed made its key paid: only the       *)
(* administrator can have made it unpaid.  Once the webhook is answered    *)
(* nothing asks again, so the commit must come before everything else      *)
(* (billing.py:116, main.py:1095-1133).                                    *)
SettledIsPaid ==
  \A p \in answered \cup invoices : apiKey[KeyOf[p]].paid \/ KeyOf[p] \in touched

(* Every captured payment ends with a paid key, through crashes and        *)
(* redeliveries, and also when the key was deactivated or its trial ended  *)
(* since the order (main.py:1097, billing.py:116).                         *)
CapturedIsPaid ==
  \A p \in Payment :
    p \in captured ~> apiKey[KeyOf[p]].paid \/ KeyOf[p] \in touched

(* Every captured payment of a customer with a contact is invoiced unless   *)
(* queueing meets an error: the second of two payments of one plan, or a   *)
(* webhook that follows a verify call, gets past the deduplication of the  *)
(* success email (main.py:316-335).                                        *)
CapturedIsInvoiced ==
  \A p \in Payment :
    p \in captured /\ Contact[KeyOf[p]] # Nobody ~> p \in invoices \/ errors > 0

(* A customer whose trial is over and who keeps trying to check out gets to *)
(* pay, without the administrator's doing: every call is answered "Trial   *)
(* expired. Please upgrade to continue." (main.py:456-460), and so is the  *)
(* checkout that would upgrade (main.py:1136).                             *)
UpgradeSpec ==
  Spec /\ \A p \in Payment : WF_vars(Checkout(p)) /\ WF_vars(Capture(p))

OverdueCanUpgrade ==
  \A p \in Payment :
    Overdue(KeyOf[p]) /\ KeyOf[p] \in lapsed ~> p \in captured \/ KeyOf[p] \notin active

(* The commit of a payment leaves its key paid (README.md: "API key is     *)
(* marked paid automatically").  A handler that loaded the key paid writes *)
(* nothing, over an unpaid flag committed since (auth.py:526-533).         *)
PaymentLeavesKeyPaid ==
  [][\A h \in Handler :
       CommitKey(h) /\ job[h].kind \in Paying => apiKey'[KeyOf[job[h].pay]].paid]_vars
=============================================================================
