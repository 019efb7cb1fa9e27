----------------------------- MODULE BillingProofs -----------------------------
(***************************************************************************)
(* Theorems about Billing: for any number of payments, keys and handlers,  *)
(* a payment that was answered or invoiced left its key paid.              *)
(*                                                                         *)
(* What makes it inductive is that a settled key stays settled, and that a *)
(* handler that loaded its key as paid, and will not write the flag, loaded *)
(* a settled key.                                                          *)
(***************************************************************************)
EXTENDS Billing, TLAPS

Settled(k) == apiKey[k].paid \/ k \in touched

\* What a handler knows: its payment was captured, emails are for a contact, and
\* its key is settled once it is committed, or if it was loaded as paid.
Sound(h) ==
  /\ job[h] \in PayJob => job[h].pay \in captured
  /\ job[h].at \in {"paid", "thanked"} =>
       job[h] \in PayJob /\ Contact[KeyOf[job[h].pay]] # Nobody
  /\ job[h].at = "loaded" /\ loaded[h].paid => Settled(KeyFor(job[h]))
  /\ job[h] \in PayJob /\ job[h].at \in {"paid", "thanked", "answer"} =>
       Settled(KeyOf[job[h].pay])

IInv == TypeOK /\ (\A h \in Handler : Sound(h)) /\ SettledIsPaid

-----------------------------------------------------------------------------
\* A server with nothing captured satisfies the invariant.
LEMMA InitIInv == Init => IInv
<1> SUFFICES ASSUME Init PROVE IInv
  OBVIOUS
<1>1. TypeOK
  BY BoundAssumption DEF Init, TypeOK, KeyRow, Trial
<1>2. (\A h \in Handler : Sound(h)) /\ SettledIsPaid
  BY DEF Init, Sound, SettledIsPaid, Idle, PayJob
<1> QED
  BY <1>1, <1>2 DEF IInv

\* The kinds of jobs, and what each names.
LEMMA JobKinds ==
  ASSUME TypeOK, NEW h \in Handler
  PROVE  /\ job[h] = Idle \/ job[h] \in PayJob \/ job[h] \in MarkJob
         /\ job[h].at \in {"idle", "received", "loaded", "paid", "thanked", "answer"}
         /\ job[h].at # "idle" <=> job[h] # Idle
         /\ job[h] \in PayJob => /\ job[h].pay \in Payment /\ job[h].kind \in Paying
                                 /\ KeyFor(job[h]) = KeyOf[job[h].pay]
                                 /\ KeyOf[job[h].pay] \in Key
         /\ job[h] \in MarkJob => /\ job[h].kind = "mark" /\ job[h].key \in Key
                                  /\ KeyFor(job[h]) = job[h].key /\ job[h].paid \in BOOLEAN
         /\ job[h] # Idle => KeyFor(job[h]) \in Key
         /\ job[h] # Idle /\ job[h].kind \in Paying => job[h] \in PayJob
BY PaymentAssumption DEF TypeOK, Idle, PayJob, MarkJob, Paying, KeyFor

\* A job keeps its kind when it moves on.
LEMMA JobMoves ==
  ASSUME TypeOK, NEW h \in Handler
  PROVE  /\ job[h] \in PayJob =>
              \A at \in {"received", "loaded", "paid", "thanked", "answer"} :
                [job[h] EXCEPT !.at = at] \in PayJob
         /\ job[h] \in MarkJob =>
              \A at \in {"received", "loaded", "answer"} : [job[h] EXCEPT !.at = at] \in MarkJob
         /\ job[h] # Idle =>
              \A at \in {"received", "loaded", "paid", "thanked", "answer"} :
                /\ [job[h] EXCEPT !.at = at].at = at
                /\ KeyFor([job[h] EXCEPT !.at = at]) = KeyFor(job[h])
                /\ [job[h] EXCEPT !.at = at].kind = job[h].kind
                /\ job[h] \in PayJob => [job[h] EXCEPT !.at = at].pay = job[h].pay
BY DEF TypeOK, Idle, PayJob, MarkJob, Paying, KeyFor

\* A handler that nobody touches stays sound when settled keys stay settled.
LEMMA OthersStaySound ==
  ASSUME TypeOK, NEW g \in Handler, Sound(g),
         job'[g] = job[g], loaded'[g] = loaded[g], captured \subseteq captured',
         \A k \in Key : Settled(k) => Settled(k)'
  PROVE  Sound(g)'
<1>1. job[g] \in PayJob => KeyOf[job[g].pay] \in Key
  BY JobKinds
<1>2. job[g].at = "loaded" => KeyFor(job[g]) \in Key
  BY JobKinds
<1>3. KeyFor(job'[g]) = KeyFor(job[g])
  OBVIOUS
<1>4. job[g].at = "loaded" /\ loaded[g].paid => Settled(KeyFor(job[g]))'
  BY <1>2, <1>3 DEF Sound, Settled
<1>5. job[g] \in PayJob /\ job[g].at \in {"paid", "thanked", "answer"} =>
        Settled(KeyOf[job[g].pay])'
  BY <1>1 DEF Sound, Settled
<1> QED
  BY <1>4, <1>5 DEF Sound, Settled

\* What is left to show of a step of one handler.
LEMMA StepKeeps ==
  ASSUME IInv, NEW h \in Handler, TypeOK',
         \A g \in Handler \ {h} : job'[g] = job[g] /\ loaded'[g] = loaded[g],
         captured \subseteq captured',
         \A k \in Key : Settled(k) => Settled(k)',
         Sound(h)',
         \A p \in answered' \cup invoices' : p \in answered \cup invoices \/ Settled(KeyOf[p])
  PROVE  IInv'
<1>1. \A g \in Handler : Sound(g)'
  <2> SUFFICES ASSUME NEW g \in Handler, g # h PROVE Sound(g)'
    OBVIOUS
  <2> QED
    BY OthersStaySound DEF IInv
<1>2. SettledIsPaid'
  <2> SUFFICES ASSUME NEW p \in answered' \cup invoices'
               PROVE  Settled(KeyOf[p])'
    BY DEF SettledIsPaid, Settled
  <2>1. p \in Payment
    BY DEF TypeOK
  <2>2. KeyOf[p] \in Key
    BY <2>1, PaymentAssumption
  <2>3. Settled(KeyOf[p])
    BY DEF IInv, SettledIsPaid, Settled
  <2> QED
    BY <2>2, <2>3 DEF Settled
<1> QED
  BY <1>1, <1>2 DEF IInv

-----------------------------------------------------------------------------
\* The bounds are natural numbers: a counter that is below its bound may grow.
LEMMA BoundsGrow ==
  ASSUME TypeOK
  PROVE  /\ verifies < MaxVerifies => verifies + 1 \in 0..MaxVerifies
         /\ repeats < MaxRepeats => repeats + 1 \in 0..MaxRepeats
         /\ changes < MaxChanges => changes + 1 \in 0..MaxChanges
         /\ errors + crashes < MaxFaults =>
              errors + 1 \in 0..MaxFaults /\ crashes + 1 \in 0..MaxFaults
BY BoundAssumption DEF TypeOK

\* A request that arrives is one of the three jobs, for a captured payment.
LEMMA ReceiveKeeps ==
  ASSUME IInv, NEW h \in Handler, NEW j, Receive(h, j), j.at = "received",
         j \in PayJob \/ j \in MarkJob,
         j \in PayJob => j.pay \in captured,
         verifies' \in 0..MaxVerifies, repeats' \in 0..MaxRepeats, changes' \in 0..MaxChanges
  PROVE  IInv'
<1>0. TypeOK
  BY DEF IInv
<1>1. /\ job' = [job EXCEPT ![h] = j]
      /\ UNCHANGED <<apiKey, access, captured, answered, loaded, thanks, invoices, touched, errors, crashes>>
  BY DEF Receive
<1>2. TypeOK'
  BY <1>0, <1>1 DEF TypeOK, access
<1>3. job'[h] = j /\ \A g \in Handler \ {h} : job'[g] = job[g]
  BY <1>0, <1>1 DEF TypeOK
<1>4. Sound(h)'
  BY <1>1, <1>3 DEF Sound
<1>5. \A k \in Key : Settled(k) => Settled(k)'
  BY <1>1 DEF Settled
<1> QED
  BY <1>1, <1>2, <1>3, <1>4, <1>5, StepKeeps

\* Requests arrive for captured payments, or name a key.
LEMMA ArrivalsKeep ==
  ASSUME IInv, NEW h \in Handler,
         \/ \E p \in Payment : DeliverWebhook(h, p) \/ RepeatWebhook(h, p) \/ CallVerify(h, p)
         \/ \E k \in Key, paid \in BOOLEAN : AdminMark(h, k, paid)
  PROVE  IInv'
<1>0. TypeOK /\ answered \subseteq captured
  BY DEF IInv, TypeOK
<1>1. ASSUME NEW p \in Payment, DeliverWebhook(h, p) PROVE IInv'
  <2> DEFINE j == [at |-> "received", kind |-> "webhook", pay |-> p]
  <2>1. j \in PayJob /\ j.at = "received" /\ j.pay = p
    BY DEF PayJob, Paying
  <2>2. Receive(h, j) /\ p \in captured /\ UNCHANGED <<verifies, repeats, changes>>
    BY <1>1 DEF DeliverWebhook
  <2> HIDE DEF j
  <2> QED
    BY <2>1, <2>2, <1>0, ReceiveKeeps DEF TypeOK
<1>2. ASSUME NEW p \in Payment, RepeatWebhook(h, p) PROVE IInv'
  <2> DEFINE j == [at |-> "received", kind |-> "webhook", pay |-> p]
  <2>1. j \in PayJob /\ j.at = "received" /\ j.pay = p
    BY DEF PayJob, Paying
  <2>2. /\ Receive(h, j) /\ p \in captured /\ UNCHANGED <<verifies, changes>>
        /\ repeats' \in 0..MaxRepeats
    BY <1>0, <1>2, BoundsGrow DEF RepeatWebhook
  <2> HIDE DEF j
  <2> QED
    BY <2>1, <2>2, <1>0, ReceiveKeeps DEF TypeOK
<1>3. ASSUME NEW p \in Payment, CallVerify(h, p) PROVE IInv'
  <2> DEFINE j == [at |-> "received", kind |-> "verify", pay |-> p]
  <2>1. j \in PayJob /\ j.at = "received" /\ j.pay = p
    BY DEF PayJob, Paying
  <2>2. /\ Receive(h, j) /\ p \in captured /\ UNCHANGED <<repeats, changes>>
        /\ verifies' \in 0..MaxVerifies
    BY <1>0, <1>3, BoundsGrow DEF CallVerify
  <2> HIDE DEF j
  <2> QED
    BY <2>1, <2>2, <1>0, ReceiveKeeps DEF TypeOK
<1>4. ASSUME NEW k \in Key, NEW paid \in BOOLEAN, AdminMark(h, k, paid) PROVE IInv'
  <2> DEFINE j == [at |-> "received", kind |-> "mark", key |-> k, paid |-> paid]
  <2>1. j \in MarkJob /\ j.at = "received" /\ j \notin PayJob
    BY DEF MarkJob, PayJob, Paying
  <2>2. /\ Receive(h, j) /\ UNCHANGED <<verifies, repeats>>
        /\ changes' \in 0..MaxChanges
    BY <1>0, <1>4, BoundsGrow DEF AdminMark
  <2> HIDE DEF j
  <2> QED
    BY <2>1, <2>2, <1>0, ReceiveKeeps DEF TypeOK
<1> QED
  BY <1>1, <1>2, <1>3, <1>4

\* The clock, an order and a deactivation leave the keys' flags and the handlers alone.
LEMMA AccessKeeps ==
  ASSUME IInv,
         \/ \E k \in Key : EndTrial(k) \/ Deactivate(k)
         \/ \E p \in Payment : Checkout(p) \/ AdminOrder(p)
  PROVE  IInv'
<1>0. TypeOK
  BY DEF IInv
<1>1. UNCHANGED <<apiKey, captured, answered, job, loaded, thanks, invoices, touched>>
  BY DEF EndTrial, Deactivate, Checkout, AdminOrder, MakeOrder
<1>2. UNCHANGED <<verifies, repeats, errors, crashes>> /\ changes' \in 0..MaxChanges
  <2>1. changes' = changes \/ (changes < MaxChanges /\ changes' = changes + 1)
    BY DEF EndTrial, Deactivate, Checkout, AdminOrder, MakeOrder, bounds
  <2>2. changes' \in 0..MaxChanges
    BY <1>0, <2>1, BoundsGrow DEF TypeOK
  <2> QED
    BY <2>2 DEF EndTrial, Deactivate, Checkout, AdminOrder, MakeOrder, bounds
<1>3. active' \subseteq Key /\ lapsed' \subseteq Key /\ ordered \subseteq ordered' /\ ordered' \subseteq Payment
  BY <1>0 DEF EndTrial, Deactivate, Checkout, AdminOrder, MakeOrder, TypeOK
<1>4. TypeOK'
  BY <1>0, <1>1, <1>2, <1>3 DEF TypeOK
<1>5. (\A h \in Handler : Sound(h)') /\ SettledIsPaid'
  BY <1>1 DEF IInv, Sound, Settled, SettledIsPaid
<1> QED
  BY <1>4, <1>5 DEF IInv

\* The provider captures another payment.
LEMMA CaptureKeeps ==
  ASSUME IInv, NEW p \in Payment, Capture(p)
  PROVE  IInv'
<1>1. /\ p \in ordered /\ captured' = captured \cup {p}
      /\ UNCHANGED <<apiKey, access, answered, job, loaded, thanks, invoices, touched, bounds>>
  BY DEF Capture
<1>2. TypeOK'
  BY <1>1 DEF IInv, TypeOK, access, bounds
<1>3. \A h \in Handler : Sound(h)'
  BY <1>1 DEF IInv, Sound, Settled
<1>4. SettledIsPaid'
  BY <1>1 DEF IInv, SettledIsPaid
<1> QED
  BY <1>2, <1>3, <1>4 DEF IInv

\* A key that is loaded as paid is settled.
LEMMA LoadKeyKeeps ==
  ASSUME IInv, NEW h \in Handler, LoadKey(h)
  PROVE  IInv'
<1> DEFINE j == [job[h] EXCEPT !.at = "loaded"]
<1>0. TypeOK /\ job[h].at = "received" /\ job[h] # Idle
  BY DEF IInv, LoadKey, Idle
<1>1. /\ job' = [job EXCEPT ![h] = j]
      /\ loaded' = [loaded EXCEPT ![h] = apiKey[KeyFor(job[h])]]
      /\ UNCHANGED <<apiKey, access, captured, answered, thanks, invoices, touched, bounds>>
  BY DEF LoadKey
<1>2. /\ job[h] \in PayJob => j \in PayJob /\ j.pay = job[h].pay
      /\ job[h] \in MarkJob => j \in MarkJob
      /\ job[h] \in PayJob \/ job[h] \in MarkJob
      /\ j.at = "loaded" /\ KeyFor(j) = KeyFor(job[h]) /\ KeyFor(j) \in Key
      /\ j.kind = job[h].kind
  BY <1>0, JobKinds, JobMoves
<1>3. j \in PayJob => job[h] \in PayJob
  BY <1>2 DEF PayJob, MarkJob, Paying
<1> HIDE DEF j
<1>4. TypeOK'
  BY <1>0, <1>1, <1>2 DEF TypeOK, access, bounds
<1>5. /\ job'[h] = j /\ loaded'[h] = apiKey[KeyFor(j)]
      /\ \A g \in Handler \ {h} : job'[g] = job[g] /\ loaded'[g] = loaded[g]
  BY <1>0, <1>1, <1>2 DEF TypeOK
<1>6. Sound(h)'
  BY <1>1, <1>2, <1>3, <1>5 DEF IInv, Sound, Settled
<1>7. \A k \in Key : Settled(k) => Settled(k)'
  BY <1>1 DEF Settled
<1> QED
  BY <1>1, <1>4, <1>5, <1>6, <1>7, StepKeeps

\* A commit leaves its own key settled, unsettles none, and bills only a contact.
LEMMA CommitKeyKeeps ==
  ASSUME IInv, NEW h \in Handler, CommitKey(h)
  PROVE  IInv'
<1> DEFINE k == KeyFor(job[h])
           j == [job[h] EXCEPT !.at = IF Billable(job[h]) THEN "paid" ELSE "answer"]
           new == BillingRow(loaded[h], MakePaid(job[h]))
<1>0. TypeOK /\ Sound(h) /\ job[h].at = "loaded" /\ job[h] # Idle
  BY DEF IInv, CommitKey, Idle
<1>1. /\ apiKey' = [apiKey EXCEPT ![k] = Flush(apiKey[k], loaded[h], new)]
      /\ touched' = IF job[h].kind = "mark" THEN touched \cup {k} ELSE touched
      /\ job' = [job EXCEPT ![h] = j]
      /\ UNCHANGED <<access, captured, answered, loaded, thanks, invoices, bounds>>
  <2>1. job[h] \in PayJob \/ job[h] \in MarkJob
    BY <1>0, JobKinds
  <2> QED
    BY <1>0, <2>1 DEF CommitKey
<1>2. /\ job[h] \in PayJob \/ job[h] \in MarkJob
      /\ k \in Key
      /\ job[h] \in MarkJob => job[h].kind = "mark" /\ job[h].paid \in BOOLEAN
      /\ job[h] \in PayJob => job[h].kind \in Paying /\ k = KeyOf[job[h].pay]
  BY <1>0, JobKinds
<1>3. MakePaid(job[h]) \in BOOLEAN /\ (job[h] \in PayJob => MakePaid(job[h]) = TRUE)
  BY <1>2 DEF MakePaid, Paying
<1>4. loaded[h] \in KeyRow /\ apiKey[k] \in KeyRow
  BY <1>0, <1>2 DEF TypeOK
<1>5. new \in KeyRow /\ new.paid = MakePaid(job[h])
  BY <1>3, <1>4 DEF BillingRow, KeyRow
<1>6. /\ Flush(apiKey[k], loaded[h], new) \in KeyRow
      /\ Flush(apiKey[k], loaded[h], new).paid =
           IF new.paid # loaded[h].paid THEN new.paid ELSE apiKey[k].paid
  BY <1>4, <1>5 DEF Flush, KeyRow
<1>7. /\ j.at = IF Billable(job[h]) THEN "paid" ELSE "answer"
      /\ job[h] \in PayJob => j \in PayJob /\ j.pay = job[h].pay
      /\ job[h] \in MarkJob => ~Billable(job[h]) /\ j \in MarkJob /\ j \notin PayJob
      /\ Billable(job[h]) => job[h] \in PayJob /\ Contact[KeyOf[job[h].pay]] # Nobody
  BY <1>2, <1>0, JobMoves DEF Billable, PayJob, MarkJob, Paying
<1> HIDE DEF k, j, new
<1>8. /\ apiKey'[k].paid = IF new.paid # loaded[h].paid THEN new.paid ELSE apiKey[k].paid
      /\ \A c \in Key \ {k} : apiKey'[c] = apiKey[c]
      /\ touched \subseteq touched'
  BY <1>0, <1>1, <1>2, <1>6 DEF TypeOK
<1>9. apiKey'[k].paid \/ k \in touched'
  <2>1. CASE job[h] \in MarkJob
    BY <2>1, <1>1, <1>2
  <2>2. CASE job[h] \in PayJob
    <3>1. loaded[h].paid => apiKey[k].paid \/ k \in touched
      BY <1>0 DEF Sound, Settled, k
    <3> QED
      BY <2>2, <3>1, <1>3, <1>4, <1>5, <1>8 DEF KeyRow
  <2> QED
    BY <1>2, <2>1, <2>2
<1>10. \A c \in Key : Settled(c) => Settled(c)'
  BY <1>8, <1>9 DEF Settled
<1>11. TypeOK'
  <2>1. apiKey' \in [Key -> KeyRow] /\ touched' \subseteq Key
    BY <1>0, <1>1, <1>2, <1>6 DEF TypeOK
  <2>2. job' \in [Handler -> {Idle} \cup PayJob \cup MarkJob]
    BY <1>0, <1>1, <1>2, <1>7 DEF TypeOK
  <2> QED
    BY <2>1, <2>2, <1>0, <1>1 DEF TypeOK, access, bounds
<1>12. job'[h] = j /\ \A g \in Handler \ {h} : job'[g] = job[g] /\ loaded'[g] = loaded[g]
  BY <1>0, <1>1 DEF TypeOK
<1>13. j \in PayJob => job[h] \in PayJob /\ j.pay = job[h].pay
  BY <1>2, <1>7
<1>14. Sound(h)'
  <2>1. j.at # "loaded"
    BY <1>7
  <2>2. j \in PayJob => /\ j.pay \in captured'
                        /\ apiKey'[KeyOf[j.pay]].paid \/ KeyOf[j.pay] \in touched'
    BY <1>0, <1>1, <1>2, <1>9, <1>13 DEF Sound
  <2>3. j.at \in {"paid", "thanked"} => j \in PayJob /\ Contact[KeyOf[j.pay]] # Nobody
    BY <1>7
  <2> QED
    BY <2>1, <2>2, <2>3, <1>12 DEF Sound, Settled
<1> QED
  BY <1>1, <1>10, <1>11, <1>12, <1>14, StepKeeps

\* A payment's handler that is past its commit moves on and leaves the keys alone.
LEMMA PaidMovesOn ==
  ASSUME IInv, NEW h \in Handler, NEW at \in {"thanked", "answer"},
         job[h].at \in {"paid", "thanked"},
         job' = [job EXCEPT ![h].at = at],
         UNCHANGED <<apiKey, access, captured, answered, loaded, touched>>,
         thanks' \subseteq Thanks,
         invoices' = invoices \/ invoices' = invoices \cup {job[h].pay},
         UNCHANGED <<verifies, repeats, changes, crashes>>, errors' \in 0..MaxFaults
  PROVE  IInv'
<1> DEFINE j == [job[h] EXCEPT !.at = at]
<1>0. TypeOK /\ Sound(h) /\ job[h] \in PayJob /\ job[h] # Idle
  <2>1. TypeOK /\ Sound(h)
    BY DEF IInv
  <2>2. job[h] # Idle
    BY <2>1, JobKinds
  <2> QED
    BY <2>1, <2>2 DEF Sound
<1>1. j \in PayJob /\ j.at = at /\ j.pay = job[h].pay /\ j.pay \in Payment
  <2>1. TypeOK /\ job[h] \in PayJob /\ job[h] # Idle
    BY <1>0
  <2>2. at \in {"received", "loaded", "paid", "thanked", "answer"}
    OBVIOUS
  <2>3. /\ [job[h] EXCEPT !.at = at] \in PayJob
        /\ [job[h] EXCEPT !.at = at].at = at
        /\ [job[h] EXCEPT !.at = at].pay = job[h].pay
    BY <2>1, <2>2, JobMoves
  <2> QED
    BY <2>1, <2>3, JobKinds
<1>2. job' = [job EXCEPT ![h] = j]
  OBVIOUS
<1> HIDE DEF j
<1>3. TypeOK'
  BY <1>0, <1>1, <1>2 DEF TypeOK, access
<1>4. job'[h] = j /\ \A g \in Handler \ {h} : job'[g] = job[g] /\ loaded'[g] = loaded[g]
  BY <1>0, <1>2 DEF TypeOK
<1>5. Settled(KeyOf[job[h].pay]) /\ Contact[KeyOf[job[h].pay]] # Nobody
  BY <1>0 DEF Sound
<1>6. Sound(h)'
  BY <1>0, <1>1, <1>4, <1>5 DEF Sound, Settled
<1>7. \A k \in Key : Settled(k) => Settled(k)'
  BY DEF Settled
<1>8. \A p \in answered' \cup invoices' : p \in answered \cup invoices \/ Settled(KeyOf[p])
  BY <1>5
<1> QED
  BY <1>3, <1>4, <1>6, <1>7, <1>8, StepKeeps

\* Queueing an email or failing to.
LEMMA QueueKeeps ==
  ASSUME IInv, NEW h \in Handler, QueueSuccess(h) \/ QueueInvoice(h) \/ QueueFails(h)
  PROVE  IInv'
<1>0. TypeOK
  BY DEF IInv
<1>1. CASE QueueSuccess(h)
  <2>1. job[h].at = "paid" /\ job[h] \in PayJob /\ Contact[KeyOf[job[h].pay]] # Nobody
    BY <1>1 DEF QueueSuccess, IInv, Sound
  <2>2. KeyOf[job[h].pay] \in Key /\ job[h].pay \in Payment
    BY <1>0, <2>1, JobKinds
  <2>3. [to |-> Contact[KeyOf[job[h].pay]], plan |-> PlanOf[job[h].pay]] \in Thanks
    BY <2>1, <2>2, PaymentAssumption DEF Thanks
  <2>4. thanks' \subseteq Thanks
    BY <1>0, <1>1, <2>3 DEF QueueSuccess, TypeOK
  <2>5. errors' \in 0..MaxFaults
    BY <1>0, <1>1 DEF QueueSuccess, TypeOK, bounds
  <2>6. /\ job' = [job EXCEPT ![h].at = "thanked"] /\ invoices' = invoices
        /\ UNCHANGED <<apiKey, access, captured, answered, loaded, touched>>
        /\ UNCHANGED <<verifies, repeats, changes, crashes>>
    BY <1>1 DEF QueueSuccess, bounds
  <2> QED
    BY <2>1, <2>4, <2>5, <2>6, PaidMovesOn
<1>2. CASE QueueInvoice(h)
  <2>1. thanks' \subseteq Thanks /\ errors' \in 0..MaxFaults
    BY <1>0, <1>2 DEF QueueInvoice, TypeOK, bounds
  <2>2. /\ job' = [job EXCEPT ![h].at = "answer"]
        /\ invoices' = invoices \cup {job[h].pay} /\ job[h].at = "thanked"
        /\ UNCHANGED <<apiKey, access, captured, answered, loaded, touched>>
        /\ UNCHANGED <<verifies, repeats, changes, crashes>>
    BY <1>2 DEF QueueInvoice, bounds
  <2> QED
    BY <2>1, <2>2, PaidMovesOn
<1>3. CASE QueueFails(h)
  <2>1. thanks' \subseteq Thanks /\ errors' \in 0..MaxFaults
    BY <1>0, <1>3, BoundsGrow DEF QueueFails, TypeOK
  <2>2. /\ job' = [job EXCEPT ![h].at = "answer"] /\ invoices' = invoices
        /\ job[h].at \in {"paid", "thanked"}
        /\ UNCHANGED <<apiKey, access, captured, answered, loaded, touched>>
        /\ UNCHANGED <<verifies, repeats, changes, crashes>>
    BY <1>3 DEF QueueFails
  <2> QED
    BY <2>1, <2>2, PaidMovesOn
<1> QED
  BY <1>1, <1>2, <1>3

\* A handler that answers, or dies, leaves the tables as they are.
LEMMA EndKeeps ==
  ASSUME IInv, NEW h \in Handler, Answer(h) \/ Crash(h)
  PROVE  IInv'
<1>0. TypeOK /\ Sound(h)
  BY DEF IInv
<1>1. /\ job' = [job EXCEPT ![h] = Idle]
      /\ UNCHANGED <<apiKey, access, captured, loaded, thanks, invoices, touched>>
      /\ UNCHANGED <<verifies, repeats, changes, errors>>
  BY DEF Answer, Crash, bounds
<1>2. crashes' \in 0..MaxFaults
  BY <1>0, BoundsGrow DEF Answer, Crash, bounds, TypeOK
<1>3. \/ answered' = answered
      \/ /\ answered' = answered \cup {job[h].pay}
         /\ job[h].pay \in captured /\ Settled(KeyOf[job[h].pay])
  <2>1. CASE Answer(h)
    <3>1. job[h].at = "answer" /\ job[h] # Idle
      BY <2>1 DEF Answer, Idle
    <3>2. job[h].kind = "webhook" => job[h] \in PayJob
      BY <1>0, <3>1, JobKinds DEF Paying
    <3> QED
      BY <2>1, <1>0, <3>1, <3>2 DEF Answer, Sound
  <2>2. CASE Crash(h)
    BY <2>2 DEF Crash
  <2> QED
    BY <2>1, <2>2
<1>4. TypeOK'
  BY <1>0, <1>1, <1>2, <1>3 DEF TypeOK, access
<1>5. job'[h] = Idle /\ \A g \in Handler \ {h} : job'[g] = job[g] /\ loaded'[g] = loaded[g]
  BY <1>0, <1>1 DEF TypeOK
<1>6. Sound(h)'
  BY <1>5 DEF Sound, Idle, PayJob
<1>7. \A k \in Key : Settled(k) => Settled(k)'
  BY <1>1 DEF Settled
<1>8. \A p \in answered' \cup invoices' : p \in answered \cup invoices \/ Settled(KeyOf[p])
  BY <1>1, <1>3
<1> QED
  BY <1>1, <1>4, <1>5, <1>6, <1>7, <1>8, StepKeeps

-----------------------------------------------------------------------------
\* Every step keeps the invariant.
LEMMA NextIInv == IInv /\ [Next]_vars => IInv'
<1> SUFFICES ASSUME IInv, [Next]_vars PROVE IInv'
  OBVIOUS
<1>1. CASE \/ \E k \in Key : EndTrial(k) \/ Deactivate(k)
           \/ \E p \in Payment : Checkout(p) \/ AdminOrder(p) \/ Capture(p)
  BY <1>1, AccessKeeps, CaptureKeeps
<1>2. CASE \E h \in Handler, p \in Payment :
             DeliverWebhook(h, p) \/ RepeatWebhook(h, p) \/ CallVerify(h, p)
  BY <1>2, ArrivalsKeep
<1>3. CASE \E h \in Handler, k \in Key, paid \in BOOLEAN : AdminMark(h, k, paid)
  BY <1>3, ArrivalsKeep
<1>4. ASSUME NEW h \in Handler, Step(h) \/ QueueFails(h) \/ Crash(h) PROVE IInv'
  BY <1>4, LoadKeyKeeps, CommitKeyKeeps, QueueKeeps, EndKeeps DEF Step
<1>5. CASE UNCHANGED vars
  <2>1. TypeOK'
    BY <1>5 DEF vars, access, bounds, IInv, TypeOK
  <2>2. (\A h \in Handler : Sound(h)') /\ SettledIsPaid'
    BY <1>5 DEF vars, IInv, Sound, Settled, SettledIsPaid
  <2> QED
    BY <2>1, <2>2 DEF IInv
<1> QED
  BY <1>1, <1>2, <1>3, <1>4, <1>5 DEF Next

\* The invariant holds in every reachable state.
LEMMA Invariance == Spec => []IInv
BY InitIInv, NextIInv, PTL DEF Spec

\* Every reachable state of the billing tables and handlers is well typed: emails
\* go to contacts, and only captured payments are answered.
THEOREM TypeCorrect == Spec => []TypeOK
<1>1. IInv => TypeOK
  BY DEF IInv
<1> QED
  BY <1>1, Invariance, PTL

\* A payment that was answered or invoiced made its key paid, through any faults,
\* repeats and overlaps, unless the administrator wrote the flag.
THEOREM SettledIsPaidHolds == Spec => []SettledIsPaid
<1>1. IInv => SettledIsPaid
  BY DEF IInv
<1> QED
  BY <1>1, Invariance, PTL
-----------------------------------------------------------------------------
(* What other modules, and the finding, rest on: how far a commit can and  *)
(* cannot go wrong.                                                        *)

\* A commit flushes a legal row over that of the request's key; the request is a
\* payment's, which pays, or the administrator's.
LEMMA CommitWrites ==
  ASSUME TypeOK, NEW h \in Handler, CommitKey(h)
  PROVE  /\ KeyFor(job[h]) \in Key /\ MakePaid(job[h]) \in BOOLEAN
         /\ apiKey' = [apiKey EXCEPT ![KeyFor(job[h])] =
              Flush(apiKey[KeyFor(job[h])], loaded[h], BillingRow(loaded[h], MakePaid(job[h])))]
         /\ loaded' = loaded /\ job[h].at = "loaded"
         /\ \/ job[h].kind \in Paying /\ KeyFor(job[h]) = KeyOf[job[h].pay] /\ MakePaid(job[h])
            \/ /\ job[h].kind = "mark" /\ KeyFor(job[h]) = job[h].key
               /\ MakePaid(job[h]) = job[h].paid
<1>1. job[h].at = "loaded" /\ job[h] # Idle
  BY DEF CommitKey, Idle
<1>2. job[h] \in PayJob \/ job[h] \in MarkJob
  BY <1>1, JobKinds
<1>3. /\ KeyFor(job[h]) \in Key
      /\ job[h] \in MarkJob => job[h].kind = "mark" /\ job[h].paid \in BOOLEAN
      /\ job[h] \in PayJob => job[h].kind \in Paying
  BY <1>1, <1>2, JobKinds
<1> QED
  BY <1>1, <1>2, <1>3 DEF CommitKey, KeyFor, MakePaid, Paying

\* What the flag of a row is after a flush: written if the handler changed it.
LEMMA FlushedFlag ==
  ASSUME NEW row \in KeyRow, NEW old \in KeyRow, NEW paid \in BOOLEAN
  PROVE  /\ BillingRow(old, paid) \in KeyRow /\ BillingRow(old, paid).paid = paid
         /\ Flush(row, old, BillingRow(old, paid)) \in KeyRow
         /\ Flush(row, old, BillingRow(old, paid)).paid =
              IF paid # old.paid THEN paid ELSE row.paid
<1> DEFINE new == BillingRow(old, paid)
<1>1. new \in KeyRow /\ new.paid = paid
  BY DEF BillingRow, KeyRow
<1> HIDE DEF new
<1>2. Flush(row, old, new) \in KeyRow
  BY <1>1 DEF Flush, KeyRow
<1>3. Flush(row, old, new).paid = IF new.paid # old.paid THEN new.paid ELSE row.paid
  BY <1>1 DEF Flush, KeyRow
<1> QED
  BY <1>1, <1>2, <1>3 DEF new

\* Only a commit writes the billing columns.
LEMMA OnlyCommitsWrite ==
  ASSUME [Next]_vars, apiKey' # apiKey
  PROVE  \E h \in Handler : CommitKey(h)
<1>1. CASE \/ \E k \in Key : EndTrial(k) \/ Deactivate(k)
           \/ \E p \in Payment : Checkout(p) \/ AdminOrder(p) \/ Capture(p)
  BY <1>1 DEF EndTrial, Deactivate, Checkout, AdminOrder, MakeOrder, Capture
<1>2. CASE \/ \E h \in Handler, p \in Payment :
                DeliverWebhook(h, p) \/ RepeatWebhook(h, p) \/ CallVerify(h, p)
           \/ \E h \in Handler, k \in Key, paid \in BOOLEAN : AdminMark(h, k, paid)
  BY <1>2 DEF DeliverWebhook, RepeatWebhook, CallVerify, AdminMark, Receive
<1>3. ASSUME NEW h \in Handler, Step(h) \/ QueueFails(h) \/ Crash(h)
      PROVE  CommitKey(h)
  BY <1>3 DEF Step, LoadKey, QueueSuccess, QueueInvoice, Answer, QueueFails, Crash
<1>4. CASE UNCHANGED vars
  BY <1>4 DEF vars
<1> QED
  BY <1>1, <1>2, <1>3, <1>4 DEF Next

\* The commit of a payment leaves its key paid, unless the handler loaded the key
\* as paid and the administrator has written the flag: PaymentLeavesKeyPaid fails
\* in that one way only (billing.py, 116-121; auth.py, 526-533).
PaymentSettles ==
  [][\A h \in Handler : CommitKey(h) /\ job[h].kind \in Paying =>
       LET k == KeyOf[job[h].pay]
       IN apiKey'[k].paid \/ (loaded[h].paid /\ k \in touched)]_vars

\* Every payment's commit pays its key but for the lost update of the finding.
THEOREM PaymentSettlesHolds == Spec => PaymentSettles
<1>1. ASSUME IInv, NEW h \in Handler, CommitKey(h), job[h].kind \in Paying
      PROVE  LET k == KeyOf[job[h].pay]
             IN apiKey'[k].paid \/ (loaded[h].paid /\ k \in touched)
  <2> DEFINE k == KeyOf[job[h].pay]
             new == BillingRow(loaded[h], TRUE)
  <2>1. TypeOK /\ Sound(h)
    BY <1>1 DEF IInv
  <2>2. k \in Key /\ KeyFor(job[h]) = k /\ MakePaid(job[h]) = TRUE /\ job[h].at = "loaded"
    BY <1>1, <2>1, CommitWrites DEF Paying
  <2>3. apiKey' = [apiKey EXCEPT ![k] = Flush(apiKey[k], loaded[h], new)]
    BY <1>1, <2>1, <2>2, CommitWrites
  <2>4. apiKey[k] \in KeyRow /\ loaded[h] \in KeyRow
    BY <2>1, <2>2 DEF TypeOK
  <2>5. Flush(apiKey[k], loaded[h], new).paid =
          IF TRUE # loaded[h].paid THEN TRUE ELSE apiKey[k].paid
    BY <2>4, FlushedFlag
  <2>6. apiKey'[k] = Flush(apiKey[k], loaded[h], new)
    BY <2>1, <2>2, <2>3 DEF TypeOK
  <2>7. loaded[h].paid \in BOOLEAN
    BY <2>4 DEF KeyRow
  <2>8. loaded[h].paid => apiKey[k].paid \/ k \in touched
    BY <2>1, <2>2 DEF Sound, Settled
  <2> HIDE DEF k, new
  <2>9. apiKey'[k].paid \/ (loaded[h].paid /\ k \in touched)
    BY <2>5, <2>6, <2>7, <2>8
  <2> QED
    BY <2>9 DEF k
<1>2. IInv /\ [Next]_vars =>
        [\A h \in Handler : CommitKey(h) /\ job[h].kind \in Paying =>
           LET k == KeyOf[job[h].pay]
           IN apiKey'[k].paid \/ (loaded[h].paid /\ k \in touched)]_vars
  BY <1>1
<1> QED
  BY <1>2, Invariance, PTL DEF Spec, PaymentSettles

\* A paid key becomes unpaid by the administrator's word only: in the commit of a
\* request to mark that key as unpaid.  No payment, retry or crash does it
\* (auth.py, 519-536).
PaidUntilRevoked ==
  [][\A k \in Key : apiKey[k].paid /\ ~apiKey'[k].paid =>
       \E h \in Handler : /\ CommitKey(h) /\ job[h].kind = "mark"
                          /\ job[h].key = k /\ ~job[h].paid]_vars

\* No overlap of payments takes the standing of a paid key away.
THEOREM PaidUntilRevokedHolds == Spec => PaidUntilRevoked
<1>1. ASSUME TypeOK, [Next]_vars, NEW k \in Key, apiKey[k].paid, ~apiKey'[k].paid
      PROVE  \E h \in Handler : /\ CommitKey(h) /\ job[h].kind = "mark"
                                /\ job[h].key = k /\ ~job[h].paid
  <2>1. PICK h \in Handler : CommitKey(h)
    BY <1>1, OnlyCommitsWrite
  <2> DEFINE c == KeyFor(job[h])
             paid == MakePaid(job[h])
  <2>2. c \in Key /\ paid \in BOOLEAN
    BY <1>1, <2>1, CommitWrites
  <2>3. apiKey' = [apiKey EXCEPT ![c] = Flush(apiKey[c], loaded[h], BillingRow(loaded[h], paid))]
    BY <1>1, <2>1, CommitWrites
  <2>4. \/ job[h].kind \in Paying /\ paid
        \/ job[h].kind = "mark" /\ c = job[h].key /\ paid = job[h].paid
    BY <1>1, <2>1, CommitWrites
  <2>5. apiKey[c] \in KeyRow /\ loaded[h] \in KeyRow
    BY <1>1, <2>2 DEF TypeOK
  <2> HIDE DEF c, paid
  <2>6. apiKey'[c] = Flush(apiKey[c], loaded[h], BillingRow(loaded[h], paid))
    BY <1>1, <2>2, <2>3 DEF TypeOK
  <2>7. c = k
    BY <1>1, <2>2, <2>3 DEF TypeOK
  <2>8. ASSUME paid = TRUE PROVE FALSE
    <3>1. Flush(apiKey[c], loaded[h], BillingRow(loaded[h], TRUE)).paid =
            IF TRUE # loaded[h].paid THEN TRUE ELSE apiKey[c].paid
      BY <2>5, FlushedFlag
    <3>2. apiKey'[c] = Flush(apiKey[c], loaded[h], BillingRow(loaded[h], TRUE))
      BY <2>6, <2>8
    <3>3. loaded[h].paid \in BOOLEAN /\ apiKey[c].paid /\ ~apiKey'[c].paid
      BY <1>1, <2>5, <2>7 DEF KeyRow
    <3> QED
      BY <3>1, <3>2, <3>3
  <2>9. paid = FALSE
    BY <2>2, <2>8
  <2> QED
    BY <2>1, <2>4, <2>7, <2>9
<1>2. TypeOK /\ [Next]_vars =>
        [\A k \in Key : apiKey[k].paid /\ ~apiKey'[k].paid =>
           \E h \in Handler : /\ CommitKey(h) /\ job[h].kind = "mark"
                              /\ job[h].key = k /\ ~job[h].paid]_vars
  BY <1>1
<1> QED
  BY <1>2, TypeCorrect, PTL DEF Spec, PaidUntilRevoked

\* A row is coherent when its trial is over for good exactly if it is paid.
Coherent(row) == row.paid <=> row.trial = "none"

\* The two billing columns, which two sessions may write, never disagree, in the
\* table or in a session: a row half of one commit and half of another would let
\* an unpaid key pass the middleware as if in its trial (main.py, 456-460).
GateCoherent ==
  /\ \A k \in Key : Coherent(apiKey[k])
  /\ \A h \in Handler : Coherent(loaded[h])

\* A flush between coherent rows writes both columns or neither.
LEMMA FlushCoherent ==
  ASSUME NEW row \in KeyRow, NEW old \in KeyRow, NEW paid \in BOOLEAN,
         Coherent(row), Coherent(old)
  PROVE  Coherent(Flush(row, old, BillingRow(old, paid)))
<1> DEFINE new == BillingRow(old, paid)
<1>1. /\ new \in KeyRow /\ new.paid = paid
      /\ paid => new.trial = "none"
      /\ ~paid => new.trial # "none" /\ (old.trial # "none" => new.trial = old.trial)
  BY DEF BillingRow, KeyRow
<1> HIDE DEF new
<1>2. /\ Flush(row, old, new).paid = IF new.paid # old.paid THEN new.paid ELSE row.paid
      /\ Flush(row, old, new).trial = IF new.trial # old.trial THEN new.trial ELSE row.trial
  BY DEF Flush, KeyRow
<1>3. /\ row.paid \in BOOLEAN /\ old.paid \in BOOLEAN
      /\ (row.paid <=> row.trial = "none") /\ (old.paid <=> old.trial = "none")
  BY DEF KeyRow, Coherent
<1>4. Flush(row, old, new).paid <=> Flush(row, old, new).trial = "none"
  BY <1>1, <1>2, <1>3
<1> QED
  BY <1>4 DEF Coherent, new

\* Every step keeps the columns coherent.
LEMMA NextCoherent == TypeOK /\ GateCoherent /\ [Next]_vars => GateCoherent'
<1> SUFFICES ASSUME TypeOK, GateCoherent, [Next]_vars PROVE GateCoherent'
  OBVIOUS
<1>1. \A k \in Key : Coherent(apiKey'[k])
  <2>1. CASE apiKey' = apiKey
    BY <2>1 DEF GateCoherent
  <2>2. CASE apiKey' # apiKey
    <3>1. PICK h \in Handler : CommitKey(h)
      BY <2>2, OnlyCommitsWrite
    <3> DEFINE c == KeyFor(job[h])
               paid == MakePaid(job[h])
    <3>2. c \in Key /\ paid \in BOOLEAN
      BY <3>1, CommitWrites
    <3>3. apiKey' = [apiKey EXCEPT ![c] = Flush(apiKey[c], loaded[h], BillingRow(loaded[h], paid))]
      BY <3>1, CommitWrites
    <3>4. /\ apiKey[c] \in KeyRow /\ loaded[h] \in KeyRow
          /\ Coherent(apiKey[c]) /\ Coherent(loaded[h])
      BY <3>2 DEF TypeOK, GateCoherent
    <3> HIDE DEF c, paid
    <3>5. Coherent(Flush(apiKey[c], loaded[h], BillingRow(loaded[h], paid)))
      BY <3>2, <3>4, FlushCoherent
    <3> QED
      BY <3>2, <3>3, <3>5 DEF TypeOK, GateCoherent
  <2> QED
    BY <2>1, <2>2
<1>2. \A h \in Handler : Coherent(loaded'[h])
  <2>1. CASE loaded' = loaded
    BY <2>1 DEF GateCoherent
  <2>2. ASSUME NEW h \in Handler, LoadKey(h)
        PROVE  \A g \in Handler : Coherent(loaded'[g])
    <3>1. job[h].at = "received" /\ job[h] # Idle
      BY <2>2 DEF LoadKey, Idle
    <3>2. KeyFor(job[h]) \in Key
      BY <3>1, JobKinds
    <3> QED
      BY <2>2, <3>2 DEF LoadKey, TypeOK, GateCoherent
  <2>3. loaded' = loaded \/ \E h \in Handler : LoadKey(h)
    <3>1. CASE \/ \E k \in Key : EndTrial(k) \/ Deactivate(k)
               \/ \E p \in Payment : Checkout(p) \/ AdminOrder(p) \/ Capture(p)
      BY <3>1 DEF EndTrial, Deactivate, Checkout, AdminOrder, MakeOrder, Capture
    <3>2. CASE \/ \E h \in Handler, p \in Payment :
                    DeliverWebhook(h, p) \/ RepeatWebhook(h, p) \/ CallVerify(h, p)
               \/ \E h \in Handler, k \in Key, paid \in BOOLEAN : AdminMark(h, k, paid)
      BY <3>2 DEF DeliverWebhook, RepeatWebhook, CallVerify, AdminMark, Receive
    <3>3. ASSUME NEW h \in Handler, Step(h) \/ QueueFails(h) \/ Crash(h)
          PROVE  loaded' = loaded \/ LoadKey(h)
      BY <3>3 DEF Step, CommitKey, QueueSuccess, QueueInvoice, Answer, QueueFails, Crash
    <3>4. CASE UNCHANGED vars
      BY <3>4 DEF vars
    <3> QED
      BY <3>1, <3>2, <3>3, <3>4 DEF Next
  <2> QED
    BY <2>1, <2>2, <2>3
<1> QED
  BY <1>1, <1>2 DEF GateCoherent

\* Paid and in trial are never both, nor neither, whatever commits overlap.
THEOREM GateCoherentHolds == Spec => []GateCoherent
<1>1. Init => GateCoherent
  BY DEF Init, GateCoherent, Coherent, Trial
<1> QED
  BY <1>1, NextCoherent, TypeCorrect, PTL DEF Spec
=============================================================================
