------------------------- MODULE KeyLifecycleProofs -------------------------
(***************************************************************************)
(* Theorems about KeyLifecycle, for every set of threads, emails and       *)
(* bounds.                                                                 *)
(***************************************************************************)
EXTENDS KeyLifecycle, SequenceTheorems, FiniteSetTheorems, TLAPS

-----------------------------------------------------------------------------
(* Type correctness.  A handler that holds a key holds one that exists:     *)
(* rows of api_keys are never deleted.                                      *)

\* The labels at which a thread goes on to use the key it holds.
Holding == {"lead", "account", "insert", "rotate", "attach", "revoke", "billing"}

\* What is referred to by number exists: by a thread, an account, a lead or
\* the history.
References ==
  /\ \A t \in Thread : pc[t] \in Holding => local[t].key \in DOMAIN keys
  /\ \A e \in Email : ownKey[e] # NoKey => ownKey[e] \in DOMAIN keys
  /\ \A l \in leads : l.key \in DOMAIN keys
  /\ gated \subseteq DOMAIN keys

\* The inductive invariant of the types.
TypeInv == TypeOK /\ References

\* Keys are numbered from 1, and each has a row.
LEMMA KeyTable ==
  ASSUME TypeOK
  PROVE  /\ Len(keys) \in Nat /\ DOMAIN keys = 1..Len(keys) /\ DOMAIN keys \subseteq KeyId
         /\ \A k \in DOMAIN keys : keys[k] \in KeyRow
         /\ MaxKeys \in Nat
BY LenProperties, ElementOfSeq, BoundAssumption DEF TypeOK, KeyId

\* A flushed row takes each column from the assignment or from the table.
LEMMA FlushKeyRow ==
  ASSUME NEW row \in KeyRow, NEW old \in KeyRow, NEW new \in KeyRow
  PROVE  /\ Flush(row, old, new) \in KeyRow
         /\ Flush(row, old, new).active = IF new.active # old.active THEN new.active ELSE row.active
         /\ Flush(row, old, new).paid = IF new.paid # old.paid THEN new.paid ELSE row.paid
         /\ Flush(row, old, new).trial = IF new.trial # old.trial THEN new.trial ELSE row.trial
         /\ Flush(row, old, new).secret = IF new.secret # old.secret THEN new.secret ELSE row.secret
<1>1. DOMAIN row = {"active", "paid", "trial", "secret"}
  BY DEF KeyRow
<1>2. Flush(row, old, new) = [c \in {"active", "paid", "trial", "secret"} |->
                                IF new[c] # old[c] THEN new[c] ELSE row[c]]
  BY <1>1 DEF Flush
<1>3. Flush(row, old, new) =
          [active |-> IF new.active # old.active THEN new.active ELSE row.active,
           paid   |-> IF new.paid # old.paid THEN new.paid ELSE row.paid,
           trial  |-> IF new.trial # old.trial THEN new.trial ELSE row.trial,
           secret |-> IF new.secret # old.secret THEN new.secret ELSE row.secret]
  BY <1>2
<1> QED BY <1>3 DEF KeyRow

\* The empty tables are well typed.
LEMMA InitType == Init => TypeInv
BY BoundAssumption, EmailAssumption
DEF Init, TypeInv, TypeOK, References, Holding, Blank, Local, NoRow, KeyRow, NoKey, Label

\* A step of a handler that leaves the tables alone: it only has to go to a
\* label that its locals fit.
LEMMA GotoType ==
  ASSUME TypeInv, NEW t \in Thread, NEW label \in Label, NEW l \in Local,
         Goto(t, label, l),
         label \notin {"idle", "billing"} => l.email \in Email
  PROVE  /\ pc' \in [Thread -> Label]
         /\ local' \in [Thread -> Local]
         /\ \A u \in Thread : pc'[u] \notin {"idle", "billing"} => local'[u].email \in Email
         /\ (label \in Holding => l.key \in DOMAIN keys')
              /\ DOMAIN keys \subseteq DOMAIN keys'
              => \A u \in Thread : pc'[u] \in Holding => local'[u].key \in DOMAIN keys'
BY DEF TypeInv, TypeOK, References, Goto

\* A thread at rest has locals.
LEMMA BlankLocal == Blank \in Local
BY BoundAssumption DEF Blank, Local, NoKey, NoRow, KeyRow

\* A thread that returns.
LEMMA ReturnType ==
  ASSUME TypeInv, NEW t \in Thread, Return(t)
  PROVE  /\ pc' \in [Thread -> Label]
         /\ local' \in [Thread -> Local]
         /\ \A u \in Thread : pc'[u] \notin {"idle", "billing"} => local'[u].email \in Email
         /\ DOMAIN keys \subseteq DOMAIN keys'
              => \A u \in Thread : pc'[u] \in Holding => local'[u].key \in DOMAIN keys'
BY BlankLocal DEF TypeInv, TypeOK, References, Return, Goto, Label, Holding

\* Writes to the key table.
LEMMA CreateType ==
  ASSUME TypeInv, NEW trial \in {"none", "set"}, CreateKey(trial)
  PROVE  /\ keys' \in Seq(KeyRow) /\ Len(keys') <= MaxKeys
         /\ DOMAIN keys' = DOMAIN keys \cup {Len(keys) + 1}
         /\ Len(keys) + 1 \in KeyId \ DOMAIN keys
         /\ \A k \in DOMAIN keys : keys'[k] = keys[k]
         /\ keys'[Len(keys) + 1] =
              [active |-> TRUE, paid |-> FALSE, trial |-> trial, secret |-> secrets + 1]
         /\ secrets' = secrets + 1 /\ secrets' \in Nat
         /\ gated' \subseteq KeyId /\ gated' \subseteq DOMAIN keys'
<1> DEFINE row == [active |-> TRUE, paid |-> FALSE, trial |-> trial, secret |-> secrets + 1]
<1>1. /\ secrets \in Nat /\ keys \in Seq(KeyRow) /\ Len(keys) < MaxKeys
      /\ secrets' = secrets + 1 /\ keys' = Append(keys, row)
      /\ gated' = (IF trial = "set" THEN gated \cup {Len(keys) + 1} ELSE gated)
      /\ gated \subseteq DOMAIN keys
  BY DEF TypeInv, TypeOK, References, CreateKey, DrawSecret
<1>2. row \in KeyRow
  BY <1>1 DEF KeyRow
<1> HIDE DEF row
<1>3. /\ keys' \in Seq(KeyRow) /\ Len(keys') = Len(keys) + 1
      /\ \A k \in 1..Len(keys) : keys'[k] = keys[k]
      /\ keys'[Len(keys) + 1] = row
  BY <1>1, <1>2, AppendProperties
<1>4. Len(keys) \in Nat /\ DOMAIN keys = 1..Len(keys) /\ DOMAIN keys' = 1..Len(keys')
  BY <1>1, <1>3, LenProperties
<1> QED BY <1>1, <1>3, <1>4, BoundAssumption DEF KeyId, row

\* A row may be replaced by any row.
LEMMA UpdateType ==
  ASSUME TypeOK, NEW k \in DOMAIN keys, NEW row \in KeyRow, keys' = [keys EXCEPT ![k] = row]
  PROVE  /\ keys' \in Seq(KeyRow) /\ Len(keys') <= MaxKeys
         /\ DOMAIN keys' = DOMAIN keys
BY ExceptSeq, LenProperties DEF TypeOK

\* Drawing a new secret keeps the table.
LEMMA RotateType ==
  ASSUME TypeOK, NEW k \in DOMAIN keys, RotateSecret(k)
  PROVE  /\ keys' \in Seq(KeyRow) /\ Len(keys') <= MaxKeys
         /\ DOMAIN keys' = DOMAIN keys
         /\ secrets' \in Nat
<1> DEFINE row == [keys[k] EXCEPT !.secret = secrets + 1]
<1>1. secrets' = secrets + 1 /\ secrets \in Nat /\ keys[k] \in KeyRow
  BY KeyTable DEF RotateSecret, DrawSecret, TypeOK
<1>2. row \in KeyRow
  BY <1>1 DEF KeyRow
<1>3. keys' = [keys EXCEPT ![k] = row]
  BY <1>1 DEF RotateSecret
<1> HIDE DEF row
<1>4. keys' \in Seq(KeyRow) /\ Len(keys') <= MaxKeys /\ DOMAIN keys' = DOMAIN keys
  BY <1>2, <1>3, UpdateType
<1> QED BY <1>1, <1>4

\* So does a flush of a changed copy.
LEMMA CommitRowType ==
  ASSUME TypeInv, NEW t \in Thread, pc[t] \in Holding, NEW new \in KeyRow, CommitRow(t, new)
  PROVE  /\ keys' \in Seq(KeyRow) /\ Len(keys') <= MaxKeys
         /\ DOMAIN keys' = DOMAIN keys
<1>1. local[t].key \in DOMAIN keys /\ local[t].row \in KeyRow
  BY DEF TypeInv, TypeOK, References, Local
<1>2. Flush(keys[local[t].key], local[t].row, new) \in KeyRow
  BY <1>1, KeyTable, FlushKeyRow DEF TypeInv
<1>3. keys' = [keys EXCEPT ![local[t].key] = Flush(keys[local[t].key], local[t].row, new)]
  BY DEF CommitRow
<1> QED BY <1>1, <1>2, <1>3, UpdateType DEF TypeInv

\* Every step of a signup keeps the types.
LEMMA SignupType ==
  ASSUME TypeInv, NEW t \in Thread, SignupStep(t)
  PROVE  TypeInv'
<1> USE DEF At, TypeInv
<1>1. local[t] \in Local /\ local[t].email \in Email \cup {NoEmail} /\ NoKey \notin KeyId
      /\ local[t].key \in 0..MaxKeys
  BY DEF TypeOK, Local, NoKey, KeyId
<1>2. CASE CheckRecentLead(t)
  <2>1. keys' = keys /\ local[t].email \in Email BY <1>2 DEF CheckRecentLead, TypeOK
  <2>2. CASE Goto(t, "create", local[t])
    BY <1>1, <1>2, <2>1, <2>2, GotoType DEF CheckRecentLead, TypeOK, References, Label, Holding
  <2>3. CASE Return(t)
    BY <1>2, <2>1, <2>3, ReturnType DEF CheckRecentLead, TypeOK, References
  <2> QED BY <1>2, <2>2, <2>3 DEF CheckRecentLead
<1>3. CASE CreateTrialKey(t)
  <2> DEFINE l == [local[t] EXCEPT !.key = Len(keys) + 1]
  <2>1. CreateKey("set") /\ Goto(t, "lead", l) /\ local[t].email \in Email
    BY <1>3 DEF CreateTrialKey, TypeOK
  <2>2. l \in Local /\ l.key = Len(keys) + 1 /\ l.email = local[t].email
    BY <1>1, <2>1, CreateType DEF Local, KeyId
  <2> HIDE DEF l
  <2> QED BY <1>3, <2>1, <2>2, CreateType, GotoType
          DEF CreateTrialKey, TypeOK, References, Label, Holding
<1>4. CASE InsertLead(t)
  <2>1. keys' = keys /\ local[t].email \in Email /\ local[t].key \in DOMAIN keys
        /\ local[t].key \in KeyId
    BY <1>4, KeyTable DEF InsertLead, TypeOK, References, Holding
  <2>2. leads' \subseteq Lead /\ recent' \subseteq KeyId
        /\ \A l \in leads' : l.key \in DOMAIN keys'
    BY <1>4, <2>1 DEF InsertLead, TypeOK, References, Lead
  <2>3. CASE Goto(t, "account", local[t])
    BY <1>1, <1>4, <2>1, <2>2, <2>3, GotoType DEF InsertLead, TypeOK, References, Label, Holding
  <2>4. CASE Return(t)
    BY <1>4, <2>1, <2>2, <2>4, ReturnType DEF InsertLead, TypeOK, References
  <2> QED BY <1>4, <2>3, <2>4 DEF InsertLead
<1>5. CASE CheckAccount(t)
  <2>1. keys' = keys /\ local[t].email \in Email /\ local[t].key \in DOMAIN keys
    BY <1>5 DEF CheckAccount, TypeOK, References, Holding
  <2>2. CASE Goto(t, "insert", local[t])
    BY <1>1, <1>5, <2>1, <2>2, GotoType DEF CheckAccount, TypeOK, References, Label, Holding
  <2>3. CASE Return(t)
    BY <1>5, <2>1, <2>3, ReturnType DEF CheckAccount, TypeOK, References
  <2> QED BY <1>5, <2>2, <2>3 DEF CheckAccount
<1>6. CASE InsertAccount(t)
  <2>1. keys' = keys /\ local[t].email \in Email /\ local[t].key \in DOMAIN keys
    BY <1>6 DEF InsertAccount, TypeOK, References, Holding
  <2>2. accounts' \subseteq Email /\ ownKey' \in [Email -> 0..MaxKeys]
        /\ \A e \in Email : ownKey'[e] # NoKey => ownKey'[e] \in DOMAIN keys'
    BY <1>1, <1>6, <2>1 DEF InsertAccount, TypeOK, References
  <2> QED BY <1>6, <2>1, <2>2, ReturnType DEF InsertAccount, TypeOK, References
<1> QED BY <1>2, <1>3, <1>4, <1>5, <1>6 DEF SignupStep

\* So does every step of a rotation or revocation by the owner.
LEMMA OwnKeyType ==
  ASSUME TypeInv, NEW t \in Thread, OwnKeyStep(t)
  PROVE  TypeInv'
<1> USE DEF At, TypeInv
<1>1. local[t] \in Local /\ local[t].key \in 0..MaxKeys /\ local[t].row \in KeyRow
  BY DEF TypeOK, Local
<1>2. CASE RotateOwnKey(t)
  <2>1. RotateSecret(local[t].key) /\ Return(t) /\ local[t].key \in DOMAIN keys
    BY <1>2 DEF RotateOwnKey, References, Holding
  <2> QED BY <1>2, <2>1, RotateType, ReturnType DEF RotateOwnKey, TypeOK, References
<1>3. CASE RegenerateKey(t)
  <2> DEFINE l == [local[t] EXCEPT !.key = Len(keys) + 1]
  <2>1. CreateKey("set") /\ Goto(t, "attach", l) /\ local[t].email \in Email
    BY <1>3 DEF RegenerateKey, TypeOK
  <2>2. l \in Local /\ l.key = Len(keys) + 1 /\ l.email = local[t].email
    BY <1>1, <2>1, CreateType DEF Local, KeyId
  <2> HIDE DEF l
  <2> QED BY <1>3, <2>1, <2>2, CreateType, GotoType
          DEF RegenerateKey, TypeOK, References, Label, Holding
<1>4. CASE AttachKey(t)
  <2>1. keys' = keys /\ local[t].email \in Email /\ local[t].key \in DOMAIN keys
    BY <1>4 DEF AttachKey, TypeOK, References, Holding
  <2>2. ownKey' \in [Email -> 0..MaxKeys]
        /\ \A e \in Email : ownKey'[e] # NoKey => ownKey'[e] \in DOMAIN keys'
    BY <1>1, <1>4, <2>1 DEF AttachKey, TypeOK, References
  <2> QED BY <1>4, <2>1, <2>2, ReturnType DEF AttachKey, TypeOK, References
<1>5. CASE CommitRevoke(t)
  <2>1. [local[t].row EXCEPT !.active = FALSE] \in KeyRow
    BY <1>1 DEF KeyRow
  <2>2. keys' \in Seq(KeyRow) /\ Len(keys') <= MaxKeys /\ DOMAIN keys' = DOMAIN keys
    BY <1>5, <2>1, CommitRowType DEF CommitRevoke, Holding
  <2>3. ownKey' \in [Email -> 0..MaxKeys]
        /\ \A e \in Email : ownKey'[e] # NoKey => ownKey'[e] \in DOMAIN keys'
    BY <1>5, <2>2, KeyTable DEF CommitRevoke, TypeOK, References, NoKey
  <2> QED BY <1>5, <2>2, <2>3, ReturnType DEF CommitRevoke, TypeOK, References
<1> QED BY <1>2, <1>3, <1>4, <1>5 DEF OwnKeyStep

\* A change of the billing columns keeps them.
LEMMA BillingType ==
  ASSUME TypeInv, NEW t \in Thread, CommitBilling(t)
  PROVE  TypeInv'
<1> DEFINE new == [local[t].row EXCEPT !.paid = local[t].flag,
                                       !.trial = IF local[t].flag THEN "none" ELSE "set"]
<1>1. new \in KeyRow
  BY DEF TypeInv, TypeOK, Local, KeyRow
<1>2. CommitRow(t, new) /\ Return(t) /\ pc[t] \in Holding
  BY DEF CommitBilling, At, Holding
<1> HIDE DEF new
<1>3. keys' \in Seq(KeyRow) /\ Len(keys') <= MaxKeys /\ DOMAIN keys' = DOMAIN keys
  BY <1>1, <1>2, CommitRowType
<1> QED BY <1>2, <1>3, ReturnType DEF CommitBilling, TypeInv, TypeOK, References

\* The arrival of a request keeps them.
LEMMA RequestType ==
  ASSUME TypeInv, NEW t \in Thread, Request(t)
  PROVE  TypeInv'
<1> USE DEF TypeInv
<1>0. MaxKeys \in Nat /\ NoRow \in KeyRow /\ DOMAIN keys \subseteq 0..MaxKeys
  BY BoundAssumption, KeyTable DEF NoRow, KeyRow, KeyId
<1>1. ASSUME NEW e \in Email, NEW a \in BOOLEAN, StartSignup(t, e, a)
      PROVE  TypeInv'
  <2> DEFINE l == [Blank EXCEPT !.email = e, !.flag = a]
  <2>1. l \in Local /\ l.email = e
    BY BlankLocal DEF Local
  <2>2. keys' = keys /\ Goto(t, "check", l)
    BY <1>1 DEF StartSignup
  <2> HIDE DEF l
  <2> QED BY <1>1, <2>1, <2>2, GotoType DEF StartSignup, TypeOK, References, Label, Holding
<1>2. ASSUME NEW e \in Email, StartRotate(t, e)
      PROVE  TypeInv'
  <2> DEFINE l == [Blank EXCEPT !.email = e, !.key = ownKey[e]]
  <2>1. l \in Local /\ l.email = e /\ l.key = ownKey[e]
    BY <1>0 DEF Blank, Local, TypeOK
  <2>2. keys' = keys /\ Goto(t, IF ownKey[e] # NoKey THEN "rotate" ELSE "regenerate", l)
    BY <1>2 DEF StartRotate
  <2> HIDE DEF l
  <2>3. CASE ownKey[e] # NoKey
    BY <1>2, <2>1, <2>2, <2>3, GotoType DEF StartRotate, TypeOK, References, Label, Holding
  <2>4. CASE ownKey[e] = NoKey
    BY <1>2, <2>1, <2>2, <2>4, GotoType DEF StartRotate, TypeOK, References, Label, Holding
  <2> QED BY <2>3, <2>4
<1>3. ASSUME NEW e \in Email, LoadRevoke(t, e)
      PROVE  TypeInv'
  <2> DEFINE l == [Blank EXCEPT !.email = e, !.key = ownKey[e], !.row = keys[ownKey[e]]]
  <2>1. ownKey[e] \in DOMAIN keys /\ keys[ownKey[e]] \in KeyRow /\ ownKey[e] \in 0..MaxKeys
    BY <1>3, KeyTable DEF LoadRevoke, TypeOK, References
  <2>2. l \in Local /\ l.email = e /\ l.key = ownKey[e]
    BY <2>1 DEF Blank, Local
  <2>3. keys' = keys /\ Goto(t, "revoke", l)
    BY <1>3 DEF LoadRevoke
  <2> HIDE DEF l
  <2> QED BY <1>3, <2>1, <2>2, <2>3, GotoType DEF LoadRevoke, TypeOK, References, Label, Holding
<1>4. ASSUME NEW k \in DOMAIN keys, NEW b \in BOOLEAN, LoadBilling(t, k, b)
      PROVE  TypeInv'
  <2> DEFINE l == [Blank EXCEPT !.key = k, !.row = keys[k], !.flag = b]
  <2>1. l \in Local /\ l.key = k
    BY <1>0, KeyTable DEF Blank, Local
  <2>2. keys' = keys /\ Goto(t, "billing", l)
    BY <1>4 DEF LoadBilling
  <2> HIDE DEF l
  <2> QED BY <1>4, <2>1, <2>2, GotoType DEF LoadBilling, TypeOK, References, Label, Holding
<1> QED BY <1>1, <1>2, <1>3, <1>4 DEF Request

\* The administrator's calls keep them.
LEMMA AdminType ==
  ASSUME TypeInv, Admin
  PROVE  TypeInv'
<1> USE DEF TypeInv
<1>1. ASSUME NEW trial \in {"none", "set"}, AdminCreate(trial)
      PROVE  TypeInv'
  BY <1>1, CreateType DEF AdminCreate, TypeOK, References
<1>2. ASSUME NEW k \in DOMAIN keys, AdminRotate(k)
      PROVE  TypeInv'
  BY <1>2, RotateType DEF AdminRotate, TypeOK, References
<1>3. ASSUME NEW k \in DOMAIN keys, AdminDeactivate(k)
      PROVE  TypeInv'
  <2>1. [keys[k] EXCEPT !.active = FALSE] \in KeyRow
    BY KeyTable DEF KeyRow
  <2>2. keys' = [keys EXCEPT ![k] = [keys[k] EXCEPT !.active = FALSE]]
    BY <1>3 DEF AdminDeactivate
  <2>3. keys' \in Seq(KeyRow) /\ Len(keys') <= MaxKeys /\ DOMAIN keys' = DOMAIN keys
    BY <2>1, <2>2, UpdateType
  <2> QED BY <1>3, <2>3 DEF AdminDeactivate, TypeOK, References
<1> QED BY <1>1, <1>2, <1>3 DEF Admin

\* Every step keeps the types and the references.
LEMMA StepType == TypeInv /\ [Next]_vars => TypeInv'
<1> SUFFICES ASSUME TypeInv, [Next]_vars PROVE TypeInv'
  OBVIOUS
<1>1. ASSUME NEW t \in Thread, Request(t) \/ SignupStep(t) \/ OwnKeyStep(t) \/ CommitBilling(t)
      PROVE  TypeInv'
  BY <1>1, RequestType, SignupType, OwnKeyType, BillingType
<1>2. CASE Admin
  BY <1>2, AdminType
<1>3. ASSUME NEW k \in recent, LeadAges(k)
      PROVE  TypeInv'
  BY <1>3 DEF LeadAges, TypeInv, TypeOK, References
<1>4. ASSUME NEW P \in Process, Crash(P)
      PROVE  TypeInv'
  <2>1. pc' \in [Thread -> Label] /\ local' \in [Thread -> Local]
        /\ \A t \in Thread : \/ pc'[t] = "idle"
                             \/ pc'[t] = pc[t] /\ local'[t] = local[t]
    BY <1>4, BlankLocal DEF Crash, TypeInv, TypeOK, Label
  <2> QED BY <1>4, <2>1 DEF Crash, TypeInv, TypeOK, References, Holding
<1>5. CASE UNCHANGED vars
  BY <1>5 DEF vars, TypeInv, TypeOK, References
<1> QED BY <1>1, <1>2, <1>3, <1>4, <1>5 DEF Next

\* They hold in every reachable state.
LEMMA TypeInvariant == Spec => []TypeInv
BY InitType, StepType, PTL DEF Spec

\* Every reachable state has well-formed rows, locals and history, for any
\* number of threads, emails, keys and crashes.
THEOREM TypeCorrect == Spec => []TypeOK
<1>1. TypeInv => TypeOK
  BY DEF TypeInv
<1> QED BY <1>1, TypeInvariant, PTL

-----------------------------------------------------------------------------
(* Dead secrets.  Whatever a step does to a row of the key table, it either *)
(* leaves the secret alone or writes one never drawn before, and it never   *)
(* turns a row active.                                                      *)

\* What a step may do to the authentication columns.
Monotone(k) ==
  \/ keys'[k].secret = secrets + 1
  \/ /\ k \in DOMAIN keys
     /\ keys'[k].secret = keys[k].secret
     /\ keys'[k].active => keys[k].active

\* A row that keeps its secret and is not made active again.
LEMMA UpdateMonotone ==
  ASSUME TypeInv, NEW k \in DOMAIN keys, NEW row \in KeyRow, keys' = [keys EXCEPT ![k] = row],
         \/ row.secret = secrets + 1
         \/ row.secret = keys[k].secret /\ (row.active => keys[k].active)
  PROVE  \A j \in DOMAIN keys' : Monotone(j)
BY KeyTable DEF TypeInv, TypeOK, Monotone

\* A new key has a new secret.
LEMMA CreateMonotone ==
  ASSUME TypeInv, NEW trial \in {"none", "set"}, CreateKey(trial)
  PROVE  \A j \in DOMAIN keys' : Monotone(j)
<1> SUFFICES ASSUME NEW j \in DOMAIN keys' PROVE Monotone(j)
  OBVIOUS
<1>1. CASE j = Len(keys) + 1
  BY <1>1, CreateType DEF Monotone
<1>2. CASE j \in DOMAIN keys
  BY <1>2, CreateType DEF Monotone
<1> QED BY <1>1, <1>2, CreateType

\* A rotated key has a new one, its old one is dead.
LEMMA RotateMonotone ==
  ASSUME TypeInv, NEW k \in DOMAIN keys, RotateSecret(k)
  PROVE  \A j \in DOMAIN keys' : Monotone(j)
<1> DEFINE row == [keys[k] EXCEPT !.secret = secrets + 1]
<1>1. secrets' = secrets + 1 /\ secrets \in Nat /\ keys[k] \in KeyRow
  BY KeyTable DEF RotateSecret, DrawSecret, TypeInv, TypeOK
<1>2. row \in KeyRow /\ row.secret = secrets + 1
  BY <1>1 DEF KeyRow
<1>3. keys' = [keys EXCEPT ![k] = row]
  BY <1>1 DEF RotateSecret
<1> HIDE DEF row
<1> QED BY <1>2, <1>3, UpdateMonotone

\* A commit of assignments that keep the secret and turn nothing active.
LEMMA CommitMonotone ==
  ASSUME TypeInv, NEW t \in Thread, pc[t] \in Holding, NEW new \in KeyRow, CommitRow(t, new),
         new.secret = local[t].row.secret,
         new.active => local[t].row.active
  PROVE  \A j \in DOMAIN keys' : Monotone(j)
<1> DEFINE k == local[t].key
           row == Flush(keys[k], local[t].row, new)
<1>1. k \in DOMAIN keys /\ local[t].row \in KeyRow /\ keys[k] \in KeyRow
  BY KeyTable DEF TypeInv, TypeOK, References, Local
<1>2. row \in KeyRow /\ row.secret = keys[k].secret
      /\ row.active = IF new.active # local[t].row.active THEN new.active ELSE keys[k].active
  BY <1>1, FlushKeyRow
<1>3. row.active => keys[k].active
  BY <1>2, <1>1 DEF KeyRow
<1>4. keys' = [keys EXCEPT ![k] = row]
  BY DEF CommitRow
<1> HIDE DEF k, row
<1> QED BY <1>1, <1>2, <1>3, <1>4, UpdateMonotone

\* No step brings a dead secret back.
LEMMA StepMonotone ==
  ASSUME TypeInv, [Next]_vars
  PROVE  \A j \in DOMAIN keys' : Monotone(j)
<1>1. ASSUME keys' = keys
      PROVE  \A j \in DOMAIN keys' : Monotone(j)
  BY <1>1 DEF Monotone
<1>2. ASSUME NEW t \in Thread, Request(t)
      PROVE  keys' = keys
  BY <1>2 DEF Request, StartSignup, StartRotate, LoadRevoke, LoadBilling
<1>3. ASSUME NEW t \in Thread, SignupStep(t)
      PROVE  keys' = keys \/ CreateKey("set")
  BY <1>3 DEF SignupStep, CheckRecentLead, CreateTrialKey, InsertLead, CheckAccount, InsertAccount
<1>4. ASSUME NEW t \in Thread, OwnKeyStep(t)
      PROVE  \A j \in DOMAIN keys' : Monotone(j)
  <2>1. CASE RotateOwnKey(t)
    BY <2>1, RotateMonotone DEF RotateOwnKey, At, Holding, TypeInv, References
  <2>2. CASE RegenerateKey(t)
    BY <2>2, CreateMonotone DEF RegenerateKey
  <2>3. CASE AttachKey(t)
    BY <2>3, <1>1 DEF AttachKey
  <2>4. CASE CommitRevoke(t)
    <3> DEFINE new == [local[t].row EXCEPT !.active = FALSE]
    <3>1. new \in KeyRow /\ new.secret = local[t].row.secret /\ ~new.active
      BY DEF TypeInv, TypeOK, Local, KeyRow
    <3>2. CommitRow(t, new) /\ pc[t] \in Holding
      BY <2>4 DEF CommitRevoke, At, Holding
    <3> HIDE DEF new
    <3> QED BY <3>1, <3>2, CommitMonotone
  <2> QED BY <1>4, <2>1, <2>2, <2>3, <2>4 DEF OwnKeyStep
<1>5. ASSUME NEW t \in Thread, CommitBilling(t)
      PROVE  \A j \in DOMAIN keys' : Monotone(j)
  <2> DEFINE new == [local[t].row EXCEPT !.paid = local[t].flag,
                                         !.trial = IF local[t].flag THEN "none" ELSE "set"]
  <2>1. new \in KeyRow /\ new.secret = local[t].row.secret /\ new.active = local[t].row.active
    BY DEF TypeInv, TypeOK, Local, KeyRow
  <2>2. CommitRow(t, new) /\ pc[t] \in Holding
    BY <1>5 DEF CommitBilling, At, Holding
  <2> HIDE DEF new
  <2> QED BY <2>1, <2>2, CommitMonotone
<1>6. CASE Admin
  <2>1. ASSUME NEW trial \in {"none", "set"}, AdminCreate(trial)
        PROVE  \A j \in DOMAIN keys' : Monotone(j)
    BY <2>1, CreateMonotone DEF AdminCreate
  <2>2. ASSUME NEW k \in DOMAIN keys, AdminRotate(k)
        PROVE  \A j \in DOMAIN keys' : Monotone(j)
    BY <2>2, RotateMonotone DEF AdminRotate
  <2>3. ASSUME NEW k \in DOMAIN keys, AdminDeactivate(k)
        PROVE  \A j \in DOMAIN keys' : Monotone(j)
    <3> DEFINE row == [keys[k] EXCEPT !.active = FALSE]
    <3>1. row \in KeyRow /\ row.secret = keys[k].secret /\ ~row.active
      BY KeyTable DEF TypeInv, KeyRow
    <3>2. keys' = [keys EXCEPT ![k] = row]
      BY <2>3 DEF AdminDeactivate
    <3> HIDE DEF row
    <3> QED BY <3>1, <3>2, UpdateMonotone
  <2> QED BY <1>6, <2>1, <2>2, <2>3 DEF Admin
<1>7. ASSUME NEW k \in recent, LeadAges(k)
      PROVE  keys' = keys
  BY <1>7 DEF LeadAges
<1>8. ASSUME NEW P \in Process, Crash(P)
      PROVE  keys' = keys
  BY <1>8 DEF Crash
<1>9. CASE UNCHANGED vars
  BY <1>1, <1>9 DEF vars
<1> QED BY <1>1, <1>2, <1>3, <1>4, <1>5, <1>6, <1>7, <1>8, <1>9, CreateMonotone DEF Next

\* A secret that has stopped authenticating never authenticates again, for any
\* interleaving of rotations, revocations, deactivations and billing changes.
THEOREM DeadSecretsStayDeadHolds == Spec => DeadSecretsStayDead
<1>1. ASSUME TypeInv, [Next]_vars, NEW s \in 1..secrets, ~Authenticates(s)
      PROVE  ~Authenticates(s)'
  <2> SUFFICES ASSUME NEW j \in DOMAIN keys', keys'[j].active, keys'[j].secret = s
               PROVE  FALSE
    BY DEF Authenticates
  <2>1. Monotone(j) /\ secrets \in Nat
    BY <1>1, StepMonotone DEF TypeInv, TypeOK
  <2>2. keys'[j].secret # secrets + 1
    BY <2>1
  <2> QED BY <1>1, <2>1, <2>2 DEF Monotone, Authenticates
<1>2. TypeInv /\ [Next]_vars => [\A s \in 1..secrets : ~Authenticates(s) => ~Authenticates(s)']_vars
  BY <1>1
<1> QED BY <1>2, TypeInvariant, PTL DEF Spec, DeadSecretsStayDead

-----------------------------------------------------------------------------
(* The billing gate.  set_db_api_key_paid moves both billing columns or     *)
(* neither, relative to the row it loaded; so it is enough that the row it  *)
(* loaded was coherent too.                                                 *)

\* A row is paid exactly when it has no trial end.
Coherent(row) == row.paid <=> row.trial = "none"

\* The copy of a gated key that a billing change will flush is coherent.
LoadedCoherent ==
  \A t \in Thread : pc[t] = "billing" /\ local[t].key \in gated => Coherent(local[t].row)

\* The inductive invariant of the billing columns.
BillingInv == BillingGateCoherent /\ LoadedCoherent

\* A row changed only in the columns the gate does not read.
LEMMA SameBilling ==
  ASSUME TypeInv, BillingGateCoherent, NEW k \in DOMAIN keys, NEW row \in KeyRow,
         keys' = [keys EXCEPT ![k] = row], gated' = gated,
         row.paid = keys[k].paid, row.trial = keys[k].trial
  PROVE  BillingGateCoherent'
BY KeyTable DEF TypeInv, References, BillingGateCoherent

\* Only LoadBilling brings a handler to the label.
LEMMA LoadedStays ==
  ASSUME TypeInv, LoadedCoherent, gated' \ gated \subseteq {Len(keys) + 1},
         \A t \in Thread : pc'[t] = "billing" => pc[t] = "billing" /\ local'[t] = local[t]
  PROVE  LoadedCoherent'
<1> SUFFICES ASSUME NEW t \in Thread, pc'[t] = "billing", local'[t].key \in gated'
             PROVE  Coherent(local'[t].row)
  BY DEF LoadedCoherent, Coherent
<1>1. pc[t] = "billing" /\ local'[t] = local[t] /\ local[t].key \in DOMAIN keys
  BY DEF TypeInv, References, Holding
<1>2. local[t].key # Len(keys) + 1
  BY <1>1, KeyTable DEF TypeInv
<1> QED BY <1>1, <1>2 DEF LoadedCoherent

\* A new key is unpaid; only a trial is gated.
LEMMA CreateBilling ==
  ASSUME TypeInv, BillingGateCoherent, NEW trial \in {"none", "set"}, CreateKey(trial)
  PROVE  BillingGateCoherent' /\ gated' \ gated \subseteq {Len(keys) + 1}
<1>1. gated' = (IF trial = "set" THEN gated \cup {Len(keys) + 1} ELSE gated)
  BY DEF CreateKey
<1>2. \A k \in gated : k \in DOMAIN keys /\ keys'[k] = keys[k]
  BY CreateType DEF TypeInv, References
<1>3. keys'[Len(keys) + 1].paid = FALSE /\ keys'[Len(keys) + 1].trial = trial
  BY CreateType
<1> QED BY <1>1, <1>2, <1>3 DEF BillingGateCoherent

\* A rotation leaves the billing columns alone.
LEMMA RotateBilling ==
  ASSUME TypeInv, BillingGateCoherent, NEW k \in DOMAIN keys, RotateSecret(k), gated' = gated
  PROVE  BillingGateCoherent'
<1> DEFINE row == [keys[k] EXCEPT !.secret = secrets + 1]
<1>1. secrets' = secrets + 1 /\ secrets \in Nat /\ keys[k] \in KeyRow
  BY KeyTable DEF RotateSecret, DrawSecret, TypeInv, TypeOK
<1>2. row \in KeyRow /\ row.paid = keys[k].paid /\ row.trial = keys[k].trial
  BY <1>1 DEF KeyRow
<1>3. keys' = [keys EXCEPT ![k] = row]
  BY <1>1 DEF RotateSecret
<1> HIDE DEF row
<1> QED BY <1>2, <1>3, SameBilling

\* So do the owner's requests.
LEMMA OwnKeyBilling ==
  ASSUME TypeInv, BillingInv, NEW t \in Thread, OwnKeyStep(t)
  PROVE  BillingInv'
<1> USE DEF BillingInv, At
<1>1. CASE RotateOwnKey(t)
  <2>1. RotateSecret(local[t].key) /\ local[t].key \in DOMAIN keys /\ gated' = gated
    BY <1>1 DEF RotateOwnKey, TypeInv, References, Holding
  <2>2. \A u \in Thread : pc'[u] = "billing" => pc[u] = "billing" /\ local'[u] = local[u]
    BY <1>1 DEF RotateOwnKey, Return, Goto, TypeInv, TypeOK
  <2>3. BillingGateCoherent'
    BY <2>1, RotateBilling
  <2> QED BY <2>1, <2>2, <2>3, LoadedStays
<1>2. CASE RegenerateKey(t)
  <2>1. \A u \in Thread : pc'[u] = "billing" => pc[u] = "billing" /\ local'[u] = local[u]
    BY <1>2 DEF RegenerateKey, Goto, TypeInv, TypeOK
  <2> QED BY <1>2, <2>1, CreateBilling, LoadedStays DEF RegenerateKey
<1>3. CASE AttachKey(t)
  <2>1. \A u \in Thread : pc'[u] = "billing" => pc[u] = "billing" /\ local'[u] = local[u]
    BY <1>3 DEF AttachKey, Return, Goto, TypeInv, TypeOK
  <2> QED BY <1>3, <2>1, LoadedStays DEF AttachKey, BillingGateCoherent
<1>4. CASE CommitRevoke(t)
  <2> DEFINE k   == local[t].key
             new == [local[t].row EXCEPT !.active = FALSE]
             row == Flush(keys[k], local[t].row, new)
  <2>1. k \in DOMAIN keys /\ keys[k] \in KeyRow /\ local[t].row \in KeyRow
    BY <1>4, KeyTable DEF CommitRevoke, TypeInv, TypeOK, References, Holding, Local
  <2>2. new \in KeyRow /\ new.paid = local[t].row.paid /\ new.trial = local[t].row.trial
    BY <2>1 DEF KeyRow
  <2>3. keys' = [keys EXCEPT ![k] = row] /\ gated' = gated
    BY <1>4 DEF CommitRevoke, CommitRow
  <2>4. \A u \in Thread : pc'[u] = "billing" => pc[u] = "billing" /\ local'[u] = local[u]
    BY <1>4 DEF CommitRevoke, Return, Goto, TypeInv, TypeOK
  <2> HIDE DEF k, new
  <2>5. row \in KeyRow /\ row.paid = keys[k].paid /\ row.trial = keys[k].trial
    BY <2>1, <2>2, FlushKeyRow
  <2> HIDE DEF row
  <2>6. BillingGateCoherent'
    BY <2>1, <2>3, <2>5, SameBilling
  <2> QED BY <2>3, <2>4, <2>6, LoadedStays
<1> QED BY <1>1, <1>2, <1>3, <1>4 DEF OwnKeyStep

\* A billing change writes both columns or neither.
LEMMA CommitBillingCoherent ==
  ASSUME TypeInv, BillingInv, NEW t \in Thread, CommitBilling(t)
  PROVE  BillingInv'
<1> DEFINE k   == local[t].key
           old == local[t].row
           new == [old EXCEPT !.paid = local[t].flag, !.trial = IF local[t].flag THEN "none" ELSE "set"]
           row == Flush(keys[k], old, new)
<1>1. k \in DOMAIN keys /\ keys[k] \in KeyRow /\ old \in KeyRow /\ local[t].flag \in BOOLEAN
  BY KeyTable DEF CommitBilling, At, TypeInv, TypeOK, References, Holding, Local
<1>2. new \in KeyRow /\ Coherent(new)
  BY <1>1 DEF KeyRow, Coherent
<1>3. keys' = [keys EXCEPT ![k] = row] /\ gated' = gated
  BY DEF CommitBilling, CommitRow
<1>4. k \in gated => Coherent(old) /\ Coherent(keys[k])
  BY DEF CommitBilling, At, BillingInv, LoadedCoherent, BillingGateCoherent, Coherent
<1>5. \A u \in Thread : pc'[u] = "billing" => pc[u] = "billing" /\ local'[u] = local[u]
  BY DEF CommitBilling, Return, Goto, TypeInv, TypeOK
<1> HIDE DEF k, old, new
<1>6. k \in gated => Coherent(row)
  BY <1>1, <1>2, <1>4, FlushKeyRow DEF Coherent, KeyRow
<1> HIDE DEF row
<1>7. BillingGateCoherent'
  BY <1>1, <1>3, <1>6, KeyTable DEF BillingInv, BillingGateCoherent, Coherent, TypeInv, References
<1> QED BY <1>3, <1>5, <1>7, LoadedStays DEF BillingInv

\* A billing change loads a coherent row.
LEMMA RequestBilling ==
  ASSUME TypeInv, BillingInv, NEW t \in Thread, Request(t)
  PROVE  BillingInv'
<1>1. keys' = keys /\ gated' = gated
  BY DEF Request, StartSignup, StartRotate, LoadRevoke, LoadBilling
<1>2. BillingGateCoherent'
  BY <1>1 DEF BillingInv, BillingGateCoherent
<1>3. ASSUME NEW e \in Email, NEW a \in BOOLEAN, StartSignup(t, e, a) \/ StartRotate(t, e) \/ LoadRevoke(t, e)
      PROVE  BillingInv'
  <2>1. \A u \in Thread : pc'[u] = "billing" => pc[u] = "billing" /\ local'[u] = local[u]
    BY <1>3 DEF StartSignup, StartRotate, LoadRevoke, Goto, TypeInv, TypeOK
  <2> QED BY <1>1, <1>2, <2>1, LoadedStays DEF BillingInv
<1>4. ASSUME NEW k \in DOMAIN keys, NEW b \in BOOLEAN, LoadBilling(t, k, b)
      PROVE  BillingInv'
  <2> DEFINE l == [Blank EXCEPT !.key = k, !.row = keys[k], !.flag = b]
  <2>1. l.key = k /\ l.row = keys[k]
    BY DEF Blank
  <2>2. Goto(t, "billing", l)
    BY <1>4 DEF LoadBilling
  <2> HIDE DEF l
  <2>3. LoadedCoherent'
    BY <1>1, <2>1, <2>2
    DEF BillingInv, LoadedCoherent, BillingGateCoherent, Coherent, Goto, TypeInv, TypeOK
  <2> QED BY <1>2, <2>3 DEF BillingInv
<1> QED BY <1>3, <1>4 DEF Request

\* The administrator's calls leave existing columns alone.
LEMMA AdminBilling ==
  ASSUME TypeInv, BillingInv, Admin
  PROVE  BillingInv'
<1> USE DEF BillingInv
<1>1. ASSUME NEW trial \in {"none", "set"}, AdminCreate(trial)
      PROVE  BillingInv'
  BY <1>1, CreateBilling, LoadedStays DEF AdminCreate
<1>2. ASSUME NEW k \in DOMAIN keys, AdminRotate(k)
      PROVE  BillingInv'
  BY <1>2, RotateBilling, LoadedStays DEF AdminRotate
<1>3. ASSUME NEW k \in DOMAIN keys, AdminDeactivate(k)
      PROVE  BillingInv'
  <2> DEFINE row == [keys[k] EXCEPT !.active = FALSE]
  <2>1. row \in KeyRow /\ row.paid = keys[k].paid /\ row.trial = keys[k].trial
    BY KeyTable DEF TypeInv, KeyRow
  <2>2. keys' = [keys EXCEPT ![k] = row] /\ gated' = gated
    BY <1>3 DEF AdminDeactivate
  <2> HIDE DEF row
  <2>3. BillingGateCoherent'
    BY <2>1, <2>2, SameBilling
  <2> QED BY <1>3, <2>3, LoadedStays DEF AdminDeactivate
<1> QED BY <1>1, <1>2, <1>3 DEF Admin

\* Every step keeps the columns coherent.
LEMMA StepBilling == TypeInv /\ BillingInv /\ [Next]_vars => BillingInv'
<1> SUFFICES ASSUME TypeInv, BillingInv, [Next]_vars PROVE BillingInv'
  OBVIOUS
<1>1. ASSUME NEW t \in Thread, SignupStep(t)
      PROVE  BillingInv'
  <2>1. \A u \in Thread : pc'[u] = "billing" => pc[u] = "billing" /\ local'[u] = local[u]
    BY <1>1 DEF SignupStep, CheckRecentLead, CreateTrialKey, InsertLead, CheckAccount, InsertAccount,
                Return, Goto, TypeInv, TypeOK
  <2>2. CASE CreateTrialKey(t)
    BY <2>1, <2>2, CreateBilling, LoadedStays DEF CreateTrialKey, BillingInv
  <2>3. CASE UNCHANGED <<keys, gated>>
    BY <2>1, <2>3, LoadedStays DEF BillingInv, BillingGateCoherent
  <2> QED BY <1>1, <2>2, <2>3
          DEF SignupStep, CheckRecentLead, InsertLead, CheckAccount, InsertAccount
<1>2. ASSUME NEW k \in recent, LeadAges(k)
      PROVE  BillingInv'
  BY <1>2 DEF LeadAges, BillingInv, BillingGateCoherent, LoadedCoherent, Coherent
<1>3. ASSUME NEW P \in Process, Crash(P)
      PROVE  BillingInv'
  <2>1. \A u \in Thread : pc'[u] = "billing" => pc[u] = "billing" /\ local'[u] = local[u]
    BY <1>3 DEF Crash
  <2> QED BY <1>3, <2>1, LoadedStays DEF Crash, BillingInv, BillingGateCoherent
<1>4. CASE UNCHANGED vars
  BY <1>4 DEF vars, BillingInv, BillingGateCoherent, LoadedCoherent, Coherent
<1> QED BY <1>1, <1>2, <1>3, <1>4, RequestBilling, OwnKeyBilling, CommitBillingCoherent, AdminBilling
        DEF Next

\* A key created with a trial is always either paid or under a trial end,
\* however many set_db_api_key_paid calls overlap on it.
THEOREM BillingGateCoherentHolds == Spec => []BillingGateCoherent
<1>1. Init => BillingInv
  BY DEF Init, BillingInv, BillingGateCoherent, LoadedCoherent
<1>2. BillingInv => BillingGateCoherent
  BY DEF BillingInv
<1> QED BY <1>1, <1>2, StepBilling, TypeInvariant, PTL DEF Spec

-----------------------------------------------------------------------------
(* Ownership.  An email claims a key when its account or a lead names the   *)
(* key, or when a handler carries the key towards one of them.  A step      *)
(* hands a claim on, or makes the first claim on the key it has created.    *)

\* The labels at which a thread carries a key to a lead or an account.
Carrying == {"lead", "account", "insert", "attach"}

\* Email e claims key k.
Claims(k, e) ==
  \/ ownKey[e] = k
  \/ \E l \in leads : l.key = k /\ l.email = e
  \/ \E t \in Thread : pc[t] \in Carrying /\ local[t].key = k /\ local[t].email = e

\* No key is claimed by two emails.
OneClaimant ==
  \A k \in KeyId : \A d, e \in Email : Claims(k, d) /\ Claims(k, e) => d = e

\* A step that only hands claims on.
LEMMA HandOn ==
  ASSUME OneClaimant, \A k \in KeyId : \A e \in Email : Claims(k, e)' => Claims(k, e)
  PROVE  OneClaimant'
<1> SUFFICES ASSUME NEW k \in KeyId, NEW d \in Email, NEW e \in Email, Claims(k, d)', Claims(k, e)'
             PROVE  d = e
  BY DEF OneClaimant
<1> QED BY DEF OneClaimant

\* A handler that creates a key and carries it for its email.
LEMMA FirstClaim ==
  ASSUME TypeInv, OneClaimant, NEW t \in Thread, NEW label \in Label,
         CreateKey("set"), UNCHANGED <<leads, ownKey>>,
         local[t].email \in Email,
         Goto(t, label, [local[t] EXCEPT !.key = Len(keys) + 1])
  PROVE  OneClaimant'
<1> DEFINE n == Len(keys) + 1
           l == [local[t] EXCEPT !.key = n]
<1>0. local[t] \in Local /\ l.key = n /\ l.email = local[t].email
  BY DEF TypeInv, TypeOK, Local
<1>1. n \notin DOMAIN keys /\ n \in KeyId /\ NoKey \notin KeyId
  BY CreateType DEF NoKey, KeyId
<1>2. /\ \A u \in Thread : pc[u] \in Carrying => local[u].key \in DOMAIN keys
      /\ \A e \in Email : ownKey[e] # NoKey => ownKey[e] \in DOMAIN keys
      /\ \A m \in leads : m.key \in DOMAIN keys
  BY DEF TypeInv, References, Carrying, Holding
<1>3. /\ pc'[t] = label /\ local'[t] = l
      /\ \A u \in Thread \ {t} : pc'[u] = pc[u] /\ local'[u] = local[u]
      /\ leads' = leads /\ ownKey' = ownKey
  BY DEF Goto, TypeInv, TypeOK
<1> HIDE DEF n, l
<1>4. \A k \in KeyId : \A e \in Email : k = n /\ Claims(k, e)' => e = local[t].email
  BY <1>0, <1>1, <1>2, <1>3 DEF Claims
<1>5. \A k \in KeyId : \A e \in Email : k # n /\ Claims(k, e)' => Claims(k, e)
  BY <1>0, <1>3 DEF Claims
<1> SUFFICES ASSUME NEW k \in KeyId, NEW d \in Email, NEW e \in Email, Claims(k, d)', Claims(k, e)'
             PROVE  d = e
  BY DEF OneClaimant
<1>6. CASE k = n
  BY <1>4, <1>6
<1>7. CASE k # n
  BY <1>5, <1>7 DEF OneClaimant
<1> QED BY <1>6, <1>7

\* A signup hands on the claim of its email.
LEMMA SignupClaims ==
  ASSUME TypeInv, OneClaimant, NEW t \in Thread, SignupStep(t)
  PROVE  OneClaimant'
<1> USE DEF At
<1>1. CASE CheckRecentLead(t)
  BY <1>1, HandOn DEF CheckRecentLead, Goto, Return, Claims, Carrying, TypeInv, TypeOK
<1>2. CASE CreateTrialKey(t)
  BY <1>2, FirstClaim DEF CreateTrialKey, TypeInv, TypeOK, Label
<1>3. CASE InsertLead(t)
  <2>1. /\ leads' = leads \cup {[email |-> local[t].email, key |-> local[t].key]}
        /\ ownKey' = ownKey
        /\ Claims(local[t].key, local[t].email)
    BY <1>3 DEF InsertLead, Claims, Carrying
  <2>2. \A u \in Thread : pc'[u] \in Carrying => pc[u] \in Carrying /\ local'[u] = local[u]
    BY <1>3 DEF InsertLead, Goto, Return, Carrying, TypeInv, TypeOK
  <2>3. \A k \in KeyId : \A e \in Email : Claims(k, e)' => Claims(k, e)
    BY <2>1, <2>2 DEF Claims
  <2> QED BY <2>3, HandOn
<1>4. CASE CheckAccount(t)
  BY <1>4, HandOn DEF CheckAccount, Goto, Return, Claims, Carrying, TypeInv, TypeOK
<1>5. CASE InsertAccount(t)
  <2>1. /\ leads' = leads
        /\ \A e \in Email : ownKey'[e] # ownKey[e] => e = local[t].email /\ ownKey'[e] = local[t].key
        /\ Claims(local[t].key, local[t].email)
    BY <1>5 DEF InsertAccount, Claims, Carrying, TypeInv, TypeOK
  <2>2. \A u \in Thread : pc'[u] \in Carrying => pc[u] \in Carrying /\ local'[u] = local[u]
    BY <1>5 DEF InsertAccount, Goto, Return, Carrying, TypeInv, TypeOK
  <2>3. \A k \in KeyId : \A e \in Email : Claims(k, e)' => Claims(k, e)
    BY <2>1, <2>2 DEF Claims
  <2> QED BY <2>3, HandOn
<1> QED BY <1>1, <1>2, <1>3, <1>4, <1>5 DEF SignupStep

\* So do the owner's requests.
LEMMA OwnKeyClaims ==
  ASSUME TypeInv, OneClaimant, NEW t \in Thread, OwnKeyStep(t)
  PROVE  OneClaimant'
<1> USE DEF At
<1>1. CASE RotateOwnKey(t)
  BY <1>1, HandOn DEF RotateOwnKey, Goto, Return, Claims, Carrying, TypeInv, TypeOK
<1>2. CASE RegenerateKey(t)
  BY <1>2, FirstClaim DEF RegenerateKey, TypeInv, TypeOK, Label
<1>3. CASE AttachKey(t)
  <2>1. /\ leads' = leads
        /\ \A e \in Email : ownKey'[e] # ownKey[e] => e = local[t].email /\ ownKey'[e] = local[t].key
        /\ Claims(local[t].key, local[t].email)
    BY <1>3 DEF AttachKey, Claims, Carrying, TypeInv, TypeOK
  <2>2. \A u \in Thread : pc'[u] \in Carrying => pc[u] \in Carrying /\ local'[u] = local[u]
    BY <1>3 DEF AttachKey, Goto, Return, Carrying, TypeInv, TypeOK
  <2>3. \A k \in KeyId : \A e \in Email : Claims(k, e)' => Claims(k, e)
    BY <2>1, <2>2 DEF Claims
  <2> QED BY <2>3, HandOn
<1>4. CASE CommitRevoke(t)
  <2>1. /\ leads' = leads /\ NoKey \notin KeyId
        /\ \A e \in Email : ownKey'[e] \in {ownKey[e], NoKey}
    BY <1>4 DEF CommitRevoke, TypeInv, TypeOK, NoKey, KeyId
  <2>2. \A u \in Thread : pc'[u] \in Carrying => pc[u] \in Carrying /\ local'[u] = local[u]
    BY <1>4 DEF CommitRevoke, Goto, Return, Carrying, TypeInv, TypeOK
  <2>3. \A k \in KeyId : \A e \in Email : Claims(k, e)' => Claims(k, e)
    BY <2>1, <2>2 DEF Claims
  <2> QED BY <2>3, HandOn
<1> QED BY <1>1, <1>2, <1>3, <1>4 DEF OwnKeyStep

\* No step lets a second email claim a key.
LEMMA StepClaims == TypeInv /\ OneClaimant /\ [Next]_vars => OneClaimant'
<1> SUFFICES ASSUME TypeInv, OneClaimant, [Next]_vars PROVE OneClaimant'
  OBVIOUS
<1>1. ASSUME NEW t \in Thread, Request(t) \/ CommitBilling(t)
      PROVE  OneClaimant'
  <2>1. UNCHANGED <<leads, ownKey>>
    BY <1>1 DEF Request, CommitBilling, StartSignup, StartRotate, LoadRevoke, LoadBilling
  <2>2. \A u \in Thread : pc'[u] \in Carrying => pc[u] \in Carrying /\ local'[u] = local[u]
    BY <1>1 DEF Request, CommitBilling, StartSignup, StartRotate, LoadRevoke, LoadBilling,
                Goto, Return, Carrying, TypeInv, TypeOK
  <2>3. \A k \in KeyId : \A e \in Email : Claims(k, e)' => Claims(k, e)
    BY <2>1, <2>2 DEF Claims
  <2> QED BY <2>3, HandOn
<1>2. CASE Admin
  BY <1>2, HandOn DEF Admin, AdminCreate, AdminRotate, AdminDeactivate, Claims
<1>3. ASSUME NEW k \in recent, LeadAges(k)
      PROVE  OneClaimant'
  BY <1>3, HandOn DEF LeadAges, Claims
<1>4. ASSUME NEW P \in Process, Crash(P)
      PROVE  OneClaimant'
  <2>1. \A u \in Thread : pc'[u] \in Carrying => pc[u] \in Carrying /\ local'[u] = local[u]
    BY <1>4 DEF Crash, Carrying
  <2>2. \A k \in KeyId : \A e \in Email : Claims(k, e)' => Claims(k, e)
    BY <1>4, <2>1 DEF Crash, Claims
  <2> QED BY <2>2, HandOn
<1>5. CASE UNCHANGED vars
  BY <1>5, HandOn DEF vars, Claims
<1> QED BY <1>1, <1>2, <1>3, <1>4, <1>5, SignupClaims, OwnKeyClaims DEF Next

\* No key is ever claimed by two emails.
LEMMA OneClaimantInvariant == Spec => []OneClaimant
<1>1. Init => OneClaimant
  BY DEF Init, OneClaimant, Claims, Carrying, KeyId, NoKey
<1> QED BY <1>1, StepClaims, TypeInvariant, PTL DEF Spec

\* No two accounts share a key, whatever signups, rotations and revocations
\* overlap or die half way.
THEOREM SoleOwnerHolds == Spec => []SoleOwner
<1>1. TypeInv /\ OneClaimant => SoleOwner
  <2> SUFFICES ASSUME TypeInv, OneClaimant, NEW d \in Email, NEW e \in Email,
                      ownKey[d] = ownKey[e], ownKey[d] # NoKey
               PROVE  d = e
    BY DEF SoleOwner
  <2>1. ownKey[d] \in KeyId
    BY KeyTable DEF TypeInv, References
  <2> QED BY <2>1 DEF OneClaimant, Claims
<1> QED BY <1>1, OneClaimantInvariant, TypeInvariant, PTL

\* A lead names the email of the account its key belongs to.
THEOREM LeadNamesOwnerHolds == Spec => []LeadNamesOwner
<1>1. TypeInv /\ OneClaimant => LeadNamesOwner
  <2> SUFFICES ASSUME TypeInv, OneClaimant, NEW l \in leads, NEW e \in Email, ownKey[e] = l.key
               PROVE  l.email = e
    BY DEF LeadNamesOwner
  <2>1. l.key \in KeyId /\ l.email \in Email
    BY DEF TypeInv, TypeOK, Lead
  <2> QED BY <2>1 DEF OneClaimant, Claims
<1> QED BY <1>1, OneClaimantInvariant, TypeInvariant, PTL

-----------------------------------------------------------------------------
(* The 24-hour check.  A signup past the check turns into one recent lead   *)
(* of its email, so the sum only grows when a signup passes the check, and  *)
(* then the email has no recent lead.  That a new lead makes no old one of  *)
(* another email recent again is OneClaimant: they have different keys.     *)

\* The inductive invariant of the recent leads.
LeadsInv == IsFiniteSet(leads) /\ RecentLeadsBounded

\* The trials e has, or is about to have, of late.
Trials(e) == Cardinality(RecentLeads(e)) + Cardinality(Checked(e))

\* They can be counted.
LEMMA TrialsFinite ==
  ASSUME IsFiniteSet(leads), NEW e \in Email
  PROVE  /\ IsFiniteSet(RecentLeads(e)) /\ Cardinality(RecentLeads(e)) \in Nat
         /\ IsFiniteSet(Checked(e)) /\ Cardinality(Checked(e)) \in Nat
         /\ Cardinality(Checked(e)) <= Cardinality(Thread) /\ Cardinality(Thread) \in Nat
<1>1. RecentLeads(e) \subseteq leads /\ Checked(e) \subseteq Thread
  BY DEF RecentLeads, Checked
<1>2. IsFiniteSet(Thread)
  BY ProcessAssumption
<1> QED BY <1>1, <1>2, FS_Subset, FS_CardinalityType

\* Neither the recent leads of e nor its signups past the check grow.
LEMMA TrialsShrink ==
  ASSUME LeadsInv, NEW e \in Email,
         RecentLeads(e)' \subseteq RecentLeads(e), Checked(e)' \subseteq Checked(e)
  PROVE  Trials(e)' <= Cardinality(Thread)
<1>1. Trials(e) <= Cardinality(Thread)
  BY DEF LeadsInv, RecentLeadsBounded, Trials
<1>2. /\ Cardinality(RecentLeads(e)') \in Nat /\ Cardinality(RecentLeads(e)') <= Cardinality(RecentLeads(e))
      /\ Cardinality(Checked(e)') \in Nat /\ Cardinality(Checked(e)') <= Cardinality(Checked(e))
  BY TrialsFinite, FS_Subset, FS_CardinalityType DEF LeadsInv
<1> QED BY <1>1, <1>2, TrialsFinite DEF LeadsInv, Trials

\* A step that leaves the leads alone and lets nobody past the check.
LEMMA NobodyPasses ==
  ASSUME LeadsInv, leads' = leads, recent' \subseteq recent,
         \A e \in Email : Checked(e)' \subseteq Checked(e)
  PROVE  LeadsInv'
<1>1. \A e \in Email : RecentLeads(e)' \subseteq RecentLeads(e)
  BY DEF RecentLeads
<1>2. \A e \in Email : Trials(e)' <= Cardinality(Thread)
  BY <1>1, TrialsShrink
<1> QED BY <1>2 DEF LeadsInv, RecentLeadsBounded, Trials

\* A signup passes the check only when e has no recent lead.
LEMMA CheckBounds ==
  ASSUME TypeInv, LeadsInv, NEW t \in Thread, CheckRecentLead(t)
  PROVE  LeadsInv'
<1>0. PICK d \in Email : d = local[t].email
  BY DEF CheckRecentLead, At, TypeInv, TypeOK
<1>1. /\ leads' = leads /\ recent' = recent
      /\ \A e \in Email \ {d} : Checked(e)' \subseteq Checked(e)
  BY <1>0, BlankLocal, EmailAssumption
  DEF CheckRecentLead, Return, Goto, At, Checked, TypeInv, TypeOK, Blank
<1>2. \A e \in Email \ {d} : Trials(e)' <= Cardinality(Thread)
  <2> TAKE e \in Email \ {d}
  <2>1. RecentLeads(e)' \subseteq RecentLeads(e)
    BY <1>1 DEF RecentLeads
  <2> QED BY <1>1, <2>1, TrialsShrink
<1>3. Trials(d)' <= Cardinality(Thread)
  <2>1. CASE RecentLeads(d) = {}
    <3>1. RecentLeads(d)' = {}
      BY <1>1, <2>1 DEF RecentLeads
    <3>2. Checked(d)' \subseteq Thread /\ IsFiniteSet(Thread)
      BY ProcessAssumption DEF Checked
    <3>3. /\ Cardinality(Checked(d)') \in Nat
          /\ Cardinality(Checked(d)') <= Cardinality(Thread)
      BY <3>2, FS_Subset, FS_CardinalityType
    <3>4. Cardinality(RecentLeads(d)') = 0
      BY <3>1, FS_EmptySet
    <3> QED BY <3>3, <3>4 DEF Trials
  <2>2. CASE RecentLeads(d) # {}
    <3>1. Return(t)
      BY <1>0, <2>2 DEF CheckRecentLead
    <3>2. RecentLeads(d)' \subseteq RecentLeads(d) /\ Checked(d)' \subseteq Checked(d)
      BY <1>1, <3>1 DEF RecentLeads, Checked, Return, Goto, TypeInv, TypeOK
    <3> QED BY <3>2, TrialsShrink
  <2> QED BY <2>1, <2>2
<1>4. \A e \in Email : Trials(e)' <= Cardinality(Thread)
  BY <1>2, <1>3
<1> QED BY <1>1, <1>4 DEF LeadsInv, RecentLeadsBounded, Trials

\* It then becomes a lead itself.
LEMMA InsertBounds ==
  ASSUME TypeInv, OneClaimant, LeadsInv, NEW t \in Thread, InsertLead(t)
  PROVE  LeadsInv'
<1>0. PICK d \in Email, k \in KeyId : d = local[t].email /\ k = local[t].key
  BY KeyTable DEF InsertLead, At, TypeInv, TypeOK, References, Holding
<1> DEFINE new == [email |-> d, key |-> k]
<1>1. leads' = leads \cup {new} /\ recent' = recent \cup {k}
  BY <1>0 DEF InsertLead
<1>2. /\ \A e \in Email : Checked(e)' \subseteq Checked(e)
      /\ t \in Checked(d) /\ t \notin Checked(d)'
  BY <1>0 DEF InsertLead, Return, Goto, At, Checked, TypeInv, TypeOK
<1>3. \A m \in leads : m.key = k => m.email = d /\ m = new
  <2>1. Claims(k, d)
    BY <1>0 DEF InsertLead, At, Claims, Carrying
  <2>2. \A m \in leads : m.key = k => Claims(k, m.email)
    BY DEF Claims
  <2> QED BY <2>1, <2>2 DEF OneClaimant, TypeInv, TypeOK, Lead
<1>4. IsFiniteSet(leads')
  BY <1>1, FS_AddElement DEF LeadsInv
<1>5. \A e \in Email \ {d} : Trials(e)' <= Cardinality(Thread)
  <2> TAKE e \in Email \ {d}
  <2>1. RecentLeads(e)' \subseteq RecentLeads(e)
    BY <1>1, <1>3 DEF RecentLeads
  <2> QED BY <1>2, <2>1, TrialsShrink
<1>6. Trials(d)' <= Cardinality(Thread)
  <2>1. RecentLeads(d)' \subseteq RecentLeads(d) \cup {new}
    BY <1>1, <1>3 DEF RecentLeads
  <2>2. Checked(d)' \subseteq Checked(d) \ {t}
    BY <1>2
  <2>3. /\ Cardinality(RecentLeads(d)') \in Nat
        /\ Cardinality(RecentLeads(d)') <= Cardinality(RecentLeads(d)) + 1
    <3> HIDE DEF new
    <3>1. IsFiniteSet(RecentLeads(d)) /\ Cardinality(RecentLeads(d)) \in Nat
      BY TrialsFinite DEF LeadsInv
    <3>2. /\ IsFiniteSet(RecentLeads(d) \cup {new})
          /\ Cardinality(RecentLeads(d) \cup {new}) <= Cardinality(RecentLeads(d)) + 1
      <4> DEFINE R == RecentLeads(d)
      <4>1. IsFiniteSet(R) /\ Cardinality(R) \in Nat
        BY <3>1
      <4> HIDE DEF R
      <4>2. /\ IsFiniteSet(R \cup {new})
            /\ Cardinality(R \cup {new}) = IF new \in R THEN Cardinality(R) ELSE Cardinality(R) + 1
        BY <4>1, FS_AddElement
      <4>3. Cardinality(R \cup {new}) <= Cardinality(R) + 1
        BY <4>1, <4>2
      <4> QED BY <4>2, <4>3 DEF R
    <3>3. /\ IsFiniteSet(RecentLeads(d)')
          /\ Cardinality(RecentLeads(d)') <= Cardinality(RecentLeads(d) \cup {new})
      BY <2>1, <3>2, FS_Subset
    <3> QED BY <3>1, <3>2, <3>3, FS_CardinalityType
  <2>4. /\ Cardinality(Checked(d)') \in Nat
        /\ Cardinality(Checked(d)') <= Cardinality(Checked(d)) - 1
    BY <1>2, <2>2, TrialsFinite, FS_RemoveElement, FS_Subset, FS_CardinalityType DEF LeadsInv
  <2>5. Trials(d) <= Cardinality(Thread)
    BY DEF LeadsInv, RecentLeadsBounded, Trials
  <2> QED BY <2>3, <2>4, <2>5, TrialsFinite DEF LeadsInv, Trials
<1>7. \A e \in Email : Trials(e)' <= Cardinality(Thread)
  BY <1>5, <1>6
<1> QED BY <1>4, <1>7 DEF LeadsInv, RecentLeadsBounded, Trials

\* No step takes the trials of an email beyond the threads.
LEMMA StepBounds == TypeInv /\ OneClaimant /\ LeadsInv /\ [Next]_vars => LeadsInv'
<1> SUFFICES ASSUME TypeInv, OneClaimant, LeadsInv, [Next]_vars PROVE LeadsInv'
  OBVIOUS
<1>1. ASSUME NEW t \in Thread, Request(t) \/ OwnKeyStep(t) \/ CommitBilling(t)
      PROVE  LeadsInv'
  <2>1. leads' = leads /\ recent' = recent
    BY <1>1 DEF Request, StartSignup, StartRotate, LoadRevoke, LoadBilling, CommitBilling,
                OwnKeyStep, RotateOwnKey, RegenerateKey, AttachKey, CommitRevoke
  <2>2. \A u \in Thread : pc'[u] \in {"create", "lead"} =>
                            pc'[u] = pc[u] /\ local'[u] = local[u]
    <3>1. CASE Request(t)
      BY <3>1 DEF Request, StartSignup, StartRotate, LoadRevoke, LoadBilling, Goto, TypeInv, TypeOK
    <3>2. CASE OwnKeyStep(t) \/ CommitBilling(t)
      BY <3>2 DEF OwnKeyStep, RotateOwnKey, RegenerateKey, AttachKey, CommitRevoke, CommitBilling,
                  Goto, Return, TypeInv, TypeOK
    <3> QED BY <1>1, <3>1, <3>2
  <2> QED BY <2>1, <2>2, NobodyPasses DEF Checked
<1>2. ASSUME NEW t \in Thread, CreateTrialKey(t)
      PROVE  LeadsInv'
  <2>1. local[t] \in Local
    BY DEF TypeInv, TypeOK
  <2>2. \A e \in Email : Checked(e)' \subseteq Checked(e)
    BY <1>2, <2>1 DEF CreateTrialKey, Goto, At, Checked, Local, TypeInv, TypeOK
  <2> QED BY <1>2, <2>2, NobodyPasses DEF CreateTrialKey
<1>3. ASSUME NEW t \in Thread, CheckAccount(t) \/ InsertAccount(t)
      PROVE  LeadsInv'
  <2>1. \A e \in Email : Checked(e)' \subseteq Checked(e)
    BY <1>3 DEF CheckAccount, InsertAccount, Return, Goto, Checked, TypeInv, TypeOK
  <2> QED BY <1>3, <2>1, NobodyPasses DEF CheckAccount, InsertAccount
<1>4. CASE Admin
  BY <1>4, NobodyPasses DEF Admin, AdminCreate, AdminRotate, AdminDeactivate, Checked
<1>5. ASSUME NEW k \in recent, LeadAges(k)
      PROVE  LeadsInv'
  BY <1>5, NobodyPasses DEF LeadAges, Checked
<1>6. ASSUME NEW P \in Process, Crash(P)
      PROVE  LeadsInv'
  <2>1. \A e \in Email : Checked(e)' \subseteq Checked(e)
    BY <1>6 DEF Crash, Checked
  <2> QED BY <1>6, <2>1, NobodyPasses DEF Crash
<1>7. CASE UNCHANGED vars
  BY <1>7, NobodyPasses DEF vars, Checked
<1> QED BY <1>1, <1>2, <1>3, <1>4, <1>5, <1>6, <1>7, CheckBounds, InsertBounds DEF Next, SignupStep

\* However many signups of one email overlap, age or die, its recent leads and
\* the signups past the 24-hour check are never more than the server's threads.
THEOREM RecentLeadsBoundedHolds == Spec => []RecentLeadsBounded
<1>1. Init => LeadsInv
  <2> SUFFICES ASSUME Init PROVE LeadsInv
    OBVIOUS
  <2>1. \A e \in Email : RecentLeads(e) = {} /\ Checked(e) = {}
    BY DEF Init, RecentLeads, Checked
  <2>2. Cardinality({}) = 0 /\ IsFiniteSet(leads)
    BY FS_EmptySet DEF Init
  <2>3. Cardinality(Thread) \in Nat
    BY ProcessAssumption, FS_CardinalityType
  <2> QED BY <2>1, <2>2, <2>3 DEF LeadsInv, RecentLeadsBounded
<1>2. LeadsInv => RecentLeadsBounded
  BY DEF LeadsInv
<1> QED BY <1>1, <1>2, StepBounds, OneClaimantInvariant, TypeInvariant, PTL DEF Spec

-----------------------------------------------------------------------------
(* What other modules assume of keys.  A step changes one row of the table, *)
(* and its secret only to a new one: so a secret names one key, at most one *)
(* secret starts or stops working at a time, and what Admission does to the *)
(* standing of a key is all that can happen to it.                          *)

\* The step changes row k only, which may be a new one, and the secret of k, if
\* at all, to the one it draws.
OneRow(k) ==
  /\ DOMAIN keys' = DOMAIN keys \cup {k}
  /\ \A j \in DOMAIN keys \ {k} : keys'[j] = keys[j]
  /\ \/ keys'[k].secret = secrets + 1 /\ secrets' = secrets + 1
     \/ k \in DOMAIN keys /\ keys'[k].secret = keys[k].secret /\ secrets' = secrets

\* Creating a key adds a row.
LEMMA CreateOneRow ==
  ASSUME TypeInv, NEW trial \in {"none", "set"}, CreateKey(trial)
  PROVE  \E k \in DOMAIN keys' : OneRow(k)
<1> DEFINE n == Len(keys) + 1
<1>1. n \in DOMAIN keys' /\ OneRow(n)
  BY CreateType DEF OneRow
<1> QED
  BY <1>1

\* Rotating a key changes its row.
LEMMA RotateOneRow ==
  ASSUME TypeInv, NEW k \in DOMAIN keys, RotateSecret(k)
  PROVE  \E j \in DOMAIN keys' : OneRow(j)
<1>1. secrets' = secrets + 1 /\ keys[k] \in KeyRow
  BY KeyTable DEF RotateSecret, DrawSecret, TypeInv
<1>2. /\ DOMAIN keys' = DOMAIN keys /\ keys'[k].secret = secrets + 1
      /\ \A j \in DOMAIN keys \ {k} : keys'[j] = keys[j]
  BY <1>1 DEF RotateSecret, KeyRow
<1> QED
  BY <1>1, <1>2 DEF OneRow

\* So does writing a row with the same secret.
LEMMA UpdateOneRow ==
  ASSUME NEW k \in DOMAIN keys, NEW row, keys' = [keys EXCEPT ![k] = row],
         row.secret = keys[k].secret, secrets' = secrets
  PROVE  \E j \in DOMAIN keys' : OneRow(j)
BY DEF OneRow

\* A commit that does not assign the secret writes none, however stale its row.
LEMMA CommitOneRow ==
  ASSUME TypeInv, NEW t \in Thread, pc[t] \in Holding, NEW new \in KeyRow, CommitRow(t, new),
         new.secret = local[t].row.secret, secrets' = secrets
  PROVE  \E j \in DOMAIN keys' : OneRow(j)
<1> DEFINE k == local[t].key
           row == Flush(keys[k], local[t].row, new)
<1>1. k \in DOMAIN keys /\ local[t].row \in KeyRow /\ keys[k] \in KeyRow
  BY KeyTable DEF TypeInv, TypeOK, References, Local
<1>2. row.secret = keys[k].secret
  BY <1>1, FlushKeyRow
<1>3. keys' = [keys EXCEPT ![k] = row]
  BY DEF CommitRow
<1> HIDE DEF k, row
<1> QED
  BY <1>1, <1>2, <1>3, UpdateOneRow

\* Every step changes one row or none.
LEMMA StepOneRow ==
  ASSUME TypeInv, [Next]_vars
  PROVE  UNCHANGED <<keys, secrets>> \/ \E k \in DOMAIN keys' : OneRow(k)
<1>1. ASSUME NEW t \in Thread, Request(t)
      PROVE  UNCHANGED <<keys, secrets>>
  BY <1>1 DEF Request, StartSignup, StartRotate, LoadRevoke, LoadBilling
<1>2. ASSUME NEW t \in Thread, SignupStep(t)
      PROVE  UNCHANGED <<keys, secrets>> \/ CreateKey("set")
  BY <1>2 DEF SignupStep, CheckRecentLead, CreateTrialKey, InsertLead, CheckAccount, InsertAccount
<1>3. ASSUME NEW t \in Thread, OwnKeyStep(t)
      PROVE  UNCHANGED <<keys, secrets>> \/ \E k \in DOMAIN keys' : OneRow(k)
  <2>1. CASE RotateOwnKey(t)
    BY <2>1, RotateOneRow DEF RotateOwnKey, At, Holding, TypeInv, References
  <2>2. CASE RegenerateKey(t)
    BY <2>2, CreateOneRow DEF RegenerateKey
  <2>3. CASE AttachKey(t)
    BY <2>3 DEF AttachKey
  <2>4. CASE CommitRevoke(t)
    <3> DEFINE new == [local[t].row EXCEPT !.active = FALSE]
    <3>1. new \in KeyRow /\ new.secret = local[t].row.secret
      BY DEF TypeInv, TypeOK, Local, KeyRow
    <3>2. CommitRow(t, new) /\ pc[t] \in Holding /\ secrets' = secrets
      BY <2>4 DEF CommitRevoke, At, Holding
    <3> HIDE DEF new
    <3> QED
      BY <3>1, <3>2, CommitOneRow
  <2> QED
    BY <1>3, <2>1, <2>2, <2>3, <2>4 DEF OwnKeyStep
<1>4. ASSUME NEW t \in Thread, CommitBilling(t)
      PROVE  \E k \in DOMAIN keys' : OneRow(k)
  <2> DEFINE new == [local[t].row EXCEPT !.paid = local[t].flag,
                                         !.trial = IF local[t].flag THEN "none" ELSE "set"]
  <2>1. new \in KeyRow /\ new.secret = local[t].row.secret
    BY DEF TypeInv, TypeOK, Local, KeyRow
  <2>2. CommitRow(t, new) /\ pc[t] \in Holding /\ secrets' = secrets
    BY <1>4 DEF CommitBilling, At, Holding
  <2> HIDE DEF new
  <2> QED
    BY <2>1, <2>2, CommitOneRow
<1>5. CASE Admin
  <2>1. ASSUME NEW trial \in {"none", "set"}, AdminCreate(trial)
        PROVE  \E k \in DOMAIN keys' : OneRow(k)
    BY <2>1, CreateOneRow DEF AdminCreate
  <2>2. ASSUME NEW k \in DOMAIN keys, AdminRotate(k)
        PROVE  \E j \in DOMAIN keys' : OneRow(j)
    BY <2>2, RotateOneRow DEF AdminRotate
  <2>3. ASSUME NEW k \in DOMAIN keys, AdminDeactivate(k)
        PROVE  \E j \in DOMAIN keys' : OneRow(j)
    <3> DEFINE row == [keys[k] EXCEPT !.active = FALSE]
    <3>1. row.secret = keys[k].secret
      BY KeyTable DEF TypeInv, KeyRow
    <3>2. keys' = [keys EXCEPT ![k] = row] /\ secrets' = secrets
      BY <2>3 DEF AdminDeactivate
    <3> HIDE DEF row
    <3> QED
      BY <3>1, <3>2, UpdateOneRow
  <2> QED
    BY <1>5, <2>1, <2>2, <2>3 DEF Admin
<1>6. ASSUME NEW k \in recent, LeadAges(k)
      PROVE  UNCHANGED <<keys, secrets>>
  BY <1>6 DEF LeadAges
<1>7. ASSUME NEW P \in Process, Crash(P)
      PROVE  UNCHANGED <<keys, secrets>>
  BY <1>7 DEF Crash
<1>8. CASE UNCHANGED vars
  BY <1>8 DEF vars
<1> QED
  BY <1>1, <1>2, <1>3, <1>4, <1>5, <1>6, <1>7, <1>8, CreateOneRow DEF Next

\* verify_user_api_key takes the first row whose hash matches (auth.py, 329-346):
\* there is no second one, whatever rotations and stale commits overlap.
SecretNamesOneKey ==
  /\ \A k \in DOMAIN keys : keys[k].secret \in 1..secrets
  /\ \A j, k \in DOMAIN keys : keys[j].secret = keys[k].secret => j = k

\* A step draws the largest secret or keeps the secrets.
LEMMA StepSecrets == TypeInv /\ SecretNamesOneKey /\ [Next]_vars => SecretNamesOneKey'
<1> SUFFICES ASSUME TypeInv, SecretNamesOneKey, [Next]_vars PROVE SecretNamesOneKey'
  OBVIOUS
<1>1. secrets \in Nat
  BY DEF TypeInv, TypeOK
<1>2. CASE UNCHANGED <<keys, secrets>>
  BY <1>2 DEF SecretNamesOneKey
<1>3. ASSUME NEW k \in DOMAIN keys', OneRow(k) PROVE SecretNamesOneKey'
  <2>1. \A j \in DOMAIN keys' \ {k} :
           /\ j \in DOMAIN keys /\ keys'[j].secret = keys[j].secret
           /\ keys'[j].secret \in 1..secrets
    BY <1>3 DEF OneRow, SecretNamesOneKey
  <2>2. CASE keys'[k].secret = secrets + 1 /\ secrets' = secrets + 1
    BY <1>1, <2>1, <2>2 DEF SecretNamesOneKey
  <2>3. CASE k \in DOMAIN keys /\ keys'[k].secret = keys[k].secret /\ secrets' = secrets
    BY <2>1, <2>3 DEF SecretNamesOneKey
  <2> QED
    BY <1>3, <2>2, <2>3 DEF OneRow
<1> QED
  BY <1>2, <1>3, StepOneRow

\* For any number of threads and keys, a secret is that of one key.
THEOREM SecretNamesOneKeyHolds == Spec => []SecretNamesOneKey
<1>1. Init => SecretNamesOneKey
  BY DEF Init, SecretNamesOneKey
<1> QED
  BY <1>1, StepSecrets, TypeInvariant, PTL DEF Spec

\* Rotations, revocations, deactivations and billing changes reach the requests
\* under way (Admission's ChangeKey) one key at a time.
OneStandingAtATime ==
  [][\A r, s \in 1..secrets :
       (Authenticates(r) # Authenticates(r)') /\ (Authenticates(s) # Authenticates(s)') => r = s]_vars

\* No step makes two secrets start or stop working.
THEOREM OneStandingAtATimeHolds == Spec => OneStandingAtATime
<1>1. TypeInv /\ SecretNamesOneKey /\ [Next]_vars =>
        [\A r, s \in 1..secrets :
           (Authenticates(r) # Authenticates(r)') /\ (Authenticates(s) # Authenticates(s)') => r = s]_vars
  <2> SUFFICES ASSUME TypeInv, SecretNamesOneKey, [Next]_vars, NEW r \in 1..secrets, NEW s \in 1..secrets,
                      Authenticates(r) # Authenticates(r)', Authenticates(s) # Authenticates(s)'
               PROVE  r = s
    OBVIOUS
  <2>1. PICK k \in DOMAIN keys' : OneRow(k)
    BY StepOneRow DEF Authenticates
  <2>2. ASSUME NEW i \in 1..secrets, Authenticates(i) # Authenticates(i)'
        PROVE  k \in DOMAIN keys /\ keys[k].secret = i
    <3>1. secrets \in Nat /\ i # secrets + 1
      BY DEF TypeInv, TypeOK
    <3>2. \A j \in DOMAIN keys \ {k} : j \in DOMAIN keys' /\ keys'[j] = keys[j]
      BY <2>1 DEF OneRow
    <3>3. keys'[k].secret = i => k \in DOMAIN keys /\ keys[k].secret = i
      BY <2>1, <3>1 DEF OneRow
    <3>4. \A j \in DOMAIN keys' \ {k} : j \in DOMAIN keys
      BY <2>1 DEF OneRow
    <3> QED
      BY <2>2, <3>2, <3>3, <3>4 DEF Authenticates
  <2> QED
    BY <2>2
<1> QED
  BY <1>1, SecretNamesOneKeyHolds, TypeInvariant, PTL DEF Spec, OneStandingAtATime

\* The address emails about key k go to.
ContactOf(k) == {e \in Email : \E l \in leads : l.key = k /\ l.email = e}

\* Once a key has a contact it keeps it: get_lead_contact_for_api_key (emails.py)
\* finds the same address whenever a payment looks it up.  Billing's constant
\* Contact rests on this.
ContactLasts ==
  [][\A k \in KeyId : ContactOf(k) # {} => (ContactOf(k))' = ContactOf(k)]_vars

\* No signup, rotation or crash gives a key a second contact or takes the first.
THEOREM ContactLastsHolds == Spec => ContactLasts
<1>1. TypeInv /\ TypeInv' /\ OneClaimant' /\ [Next]_vars =>
        [\A k \in KeyId : ContactOf(k) # {} => (ContactOf(k))' = ContactOf(k)]_vars
  <2> SUFFICES ASSUME TypeInv, OneClaimant', [Next]_vars, NEW k \in KeyId, ContactOf(k) # {}
               PROVE  (ContactOf(k))' = ContactOf(k)
    OBVIOUS
  <2>1. leads \subseteq leads'
    <3>1. ASSUME NEW t \in Thread, SignupStep(t) PROVE leads \subseteq leads'
      BY <3>1 DEF SignupStep, CheckRecentLead, CreateTrialKey, InsertLead, CheckAccount, InsertAccount
    <3>2. ASSUME NEW t \in Thread, Request(t) \/ OwnKeyStep(t) \/ CommitBilling(t)
          PROVE  leads' = leads
      BY <3>2 DEF Request, StartSignup, StartRotate, LoadRevoke, LoadBilling, CommitBilling,
                  OwnKeyStep, RotateOwnKey, RegenerateKey, AttachKey, CommitRevoke
    <3>3. Admin => leads' = leads
      BY DEF Admin, AdminCreate, AdminRotate, AdminDeactivate
    <3>4. ASSUME NEW j \in recent, LeadAges(j) PROVE leads' = leads
      BY <3>4 DEF LeadAges
    <3>5. ASSUME NEW P \in Process, Crash(P) PROVE leads' = leads
      BY <3>5 DEF Crash
    <3>6. CASE UNCHANGED vars
      BY <3>6 DEF vars
    <3> QED
      BY <3>1, <3>2, <3>3, <3>4, <3>5, <3>6 DEF Next
  <2>2. ContactOf(k) \subseteq (ContactOf(k))'
    BY <2>1 DEF ContactOf
  <2>3. \A d, e \in (ContactOf(k))' : d = e
    BY DEF ContactOf, OneClaimant, Claims
  <2> QED
    BY <2>2, <2>3
<1> QED
  BY <1>1, OneClaimantInvariant, TypeInvariant, PTL DEF Spec, ContactLasts
=============================================================================
