---------------------------- MODULE KeyLifecycle ----------------------------
(***************************************************************************)
(* API keys, accounts and signup leads: app/auth.py and app/leads.py with  *)
(* the handlers of app/main.py that call them.  Every handler is a chain   *)
(* of separate database transactions run by a server thread; each action   *)
(* below is one transaction, or one load or commit of a transaction whose  *)
(* commit depends on what it loaded.  Handlers that refuse the request     *)
(* without writing anything leave the state alone and are not actions.     *)
(*                                                                         *)
(* Keys are numbered in the order of creation; secrets are numbered too    *)
(* (make_api_key draws 256 random bits, so each is new).  The default      *)
(* trial (trial_default_days) is positive.                                 *)
(***************************************************************************)
EXTENDS Naturals, Sequences, FiniteSets, Orm

CONSTANTS
  Thread,      \* threads that serve requests
  Process,     \* the server processes, each a set of threads
  Email,       \* normalized email addresses
  NoEmail,     \* what a handler that names no email holds
  MaxKeys,     \* bound: rows of api_keys
  MaxSecrets,  \* bound: secrets drawn
  MaxCrashes   \* bound: process crashes

ASSUME EmailAssumption == NoEmail \notin Email
ASSUME ProcessAssumption == IsFiniteSet(Thread) /\ Process \subseteq SUBSET Thread
ASSUME BoundAssumption == {MaxKeys, MaxSecrets, MaxCrashes} \subseteq Nat

VARIABLES
  keys,      \* the api_keys table
  leads,     \* the signup_leads table
  recent,    \* the keys of the leads that are less than 24 hours old
  accounts,  \* the emails that have a row in user_accounts
  ownKey,    \* user_accounts.api_key_id, NoKey for NULL
  pc,        \* where each thread's handler is
  local,     \* its locals: the email, key id and row it holds, its argument
  secrets,   \* secrets drawn so far
  gated,     \* history: the keys that were created with a trial
  crashes    \* crashes so far

vars == <<keys, leads, recent, accounts, ownKey, pc, local, secrets, gated, crashes>>

KeyId == 1..MaxKeys
NoKey == 0
KeyRow == [active : BOOLEAN, paid : BOOLEAN, trial : {"none", "set"}, secret : Nat]
NoRow  == [active |-> FALSE, paid |-> FALSE, trial |-> "none", secret |-> 0]
Lead   == [email : Email, key : KeyId]

\* Every handler names an email or a key, and some hold a row or a flag.
Local == [email : Email \cup {NoEmail}, key : 0..MaxKeys, row : KeyRow, flag : BOOLEAN]
Blank == [email |-> NoEmail, key |-> NoKey, row |-> NoRow, flag |-> FALSE]

Label == {"idle", "check", "create", "lead", "account", "insert",
          "rotate", "regenerate", "attach", "revoke", "billing"}

TypeOK ==
  /\ keys \in Seq(KeyRow) /\ Len(keys) <= MaxKeys
  /\ leads \subseteq Lead
  /\ recent \subseteq KeyId
  /\ accounts \subseteq Email
  /\ ownKey \in [Email -> 0..MaxKeys]
  /\ pc \in [Thread -> Label]
  /\ local \in [Thread -> Local]
  /\ \A t \in Thread : pc[t] \notin {"idle", "billing"} => local[t].email \in Email
  /\ secrets \in Nat
  /\ gated \subseteq KeyId
  /\ crashes \in Nat

Init ==
  /\ keys = <<>>
  /\ leads = {} /\ recent = {}
  /\ accounts = {}
  /\ ownKey = [e \in Email |-> NoKey]
  /\ pc = [t \in Thread |-> "idle"]
  /\ local = [t \in Thread |-> Blank]
  /\ secrets = 0
  /\ gated = {}
  /\ crashes = 0

-----------------------------------------------------------------------------
(* Writes shared by the handlers.                                           *)

DrawSecret ==
  /\ secrets < MaxSecrets
  /\ secrets' = secrets + 1

\* create_db_api_key; a paid key is never created by any caller.
CreateKey(trial) ==
  /\ Len(keys) < MaxKeys
  /\ DrawSecret
  /\ keys' = Append(keys, [active |-> TRUE, paid |-> FALSE, trial |-> trial, secret |-> secrets'])
  /\ gated' = IF trial = "set" THEN gated \cup {Len(keys) + 1} ELSE gated

\* rotate_db_api_key writes the secret and nothing else, active or not.
RotateSecret(k) ==
  /\ DrawSecret
  /\ keys' = [keys EXCEPT ![k].secret = secrets']

Goto(t, label, l) ==
  /\ pc' = [pc EXCEPT ![t] = label]
  /\ local' = [local EXCEPT ![t] = l]

Return(t) == Goto(t, "idle", Blank)

At(t, label) == pc[t] = label

-----------------------------------------------------------------------------
(* Signup: auth_signup (which goes on to the account) and                   *)
(* public_signup_trial, both through create_trial_signup.                   *)

StartSignup(t, e, account) ==
  /\ At(t, "idle")
  /\ account => e \notin accounts
  /\ Goto(t, "check", [Blank EXCEPT !.email = e, !.flag = account])
  /\ UNCHANGED <<keys, leads, recent, accounts, ownKey, secrets, gated, crashes>>

RecentLeads(e) == {l \in leads : l.email = e /\ l.key \in recent}

\* Mutant: no 24-hour check.
SkipRecentLead(t) ==
  /\ At(t, "check")
  /\ Goto(t, "create", local[t])
  /\ UNCHANGED <<keys, leads, recent, accounts, ownKey, secrets, gated, crashes>>

CheckRecentLead(t) ==
  /\ At(t, "check")
  /\ IF RecentLeads(local[t].email) = {} THEN Goto(t, "create", local[t]) ELSE Return(t)
  /\ UNCHANGED <<keys, leads, recent, accounts, ownKey, secrets, gated, crashes>>

\* Mutant: the id of the new key is not passed on.
CreateUnlinkedKey(t) ==
  /\ At(t, "create")
  /\ CreateKey("set")
  /\ Goto(t, "lead", local[t])
  /\ UNCHANGED <<leads, recent, accounts, ownKey, crashes>>

CreateTrialKey(t) ==
  /\ At(t, "create")
  /\ CreateKey("set")
  /\ Goto(t, "lead", [local[t] EXCEPT !.key = Len(keys) + 1])
  /\ UNCHANGED <<leads, recent, accounts, ownKey, crashes>>

\* Mutant: the lead names the newest key of the table.
InsertLeadOfNewest(t) ==
  /\ At(t, "lead")
  /\ leads' = leads \cup {[email |-> local[t].email, key |-> Len(keys)]}
  /\ recent' = recent \cup {Len(keys)}
  /\ IF local[t].flag THEN Goto(t, "account", local[t]) ELSE Return(t)
  /\ UNCHANGED <<keys, accounts, ownKey, secrets, gated, crashes>>

InsertLead(t) ==
  /\ At(t, "lead")
  /\ leads' = leads \cup {[email |-> local[t].email, key |-> local[t].key]}
  /\ recent' = recent \cup {local[t].key}
  /\ IF local[t].flag THEN Goto(t, "account", local[t]) ELSE Return(t)
  /\ UNCHANGED <<keys, accounts, ownKey, secrets, gated, crashes>>

\* create_user_account: the lookup, then the INSERT under a unique email.
CheckAccount(t) ==
  /\ At(t, "account")
  /\ IF local[t].email \notin accounts THEN Goto(t, "insert", local[t]) ELSE Return(t)
  /\ UNCHANGED <<keys, leads, recent, accounts, ownKey, secrets, gated, crashes>>

\* Mutant: the account gets the newest key of the table.
InsertAccountOfNewest(t) ==
  /\ At(t, "insert")
  /\ accounts' = accounts \cup {local[t].email}
  /\ ownKey' = [ownKey EXCEPT ![local[t].email] = Len(keys)]
  /\ Return(t)
  /\ UNCHANGED <<keys, leads, recent, secrets, gated, crashes>>

InsertAccount(t) ==
  /\ At(t, "insert")
  /\ IF local[t].email \notin accounts
       THEN /\ accounts' = accounts \cup {local[t].email}
            /\ ownKey' = [ownKey EXCEPT ![local[t].email] = local[t].key]
       ELSE UNCHANGED <<accounts, ownKey>>
  /\ Return(t)
  /\ UNCHANGED <<keys, leads, recent, secrets, gated, crashes>>

-----------------------------------------------------------------------------
(* The signed-in user's own key: rotate_user_api_key, revoke_user_api_key.  *)

StartRotate(t, e) ==
  /\ At(t, "idle")
  /\ e \in accounts
  /\ Goto(t, IF ownKey[e] # NoKey THEN "rotate" ELSE "regenerate",
          [Blank EXCEPT !.email = e, !.key = ownKey[e]])
  /\ UNCHANGED <<keys, leads, recent, accounts, ownKey, secrets, gated, crashes>>

RotateOwnKey(t) ==
  /\ At(t, "rotate")
  /\ RotateSecret(local[t].key)
  /\ Return(t)
  /\ UNCHANGED <<leads, recent, accounts, ownKey, gated, crashes>>

RegenerateKey(t) ==
  /\ At(t, "regenerate")
  /\ CreateKey("set")
  /\ Goto(t, "attach", [local[t] EXCEPT !.key = Len(keys) + 1])
  /\ UNCHANGED <<leads, recent, accounts, ownKey, crashes>>

AttachKey(t) ==
  /\ At(t, "attach")
  /\ ownKey' = [ownKey EXCEPT ![local[t].email] = local[t].key]
  /\ Return(t)
  /\ UNCHANGED <<keys, leads, recent, accounts, secrets, gated, crashes>>

LoadRevoke(t, e) ==
  /\ At(t, "idle")
  /\ e \in accounts /\ ownKey[e] # NoKey
  /\ Goto(t, "revoke", [Blank EXCEPT !.email = e, !.key = ownKey[e], !.row = keys[ownKey[e]]])
  /\ UNCHANGED <<keys, leads, recent, accounts, ownKey, secrets, gated, crashes>>

\* Commit an assignment to the loaded key row.
CommitRow(t, new) ==
  keys' = [keys EXCEPT ![local[t].key] = Flush(@, local[t].row, new)]

CommitRevoke(t) ==
  /\ At(t, "revoke")
  /\ CommitRow(t, [local[t].row EXCEPT !.active = FALSE])
  /\ ownKey' = [ownKey EXCEPT ![local[t].email] = NoKey]
  /\ Return(t)
  /\ UNCHANGED <<leads, recent, accounts, secrets, gated, crashes>>

-----------------------------------------------------------------------------
(* The administrator, and the billing flag (set by the webhook, by the two  *)
(* verify endpoints and by the administrator).                              *)

AdminCreate(trial) ==
  /\ CreateKey(trial)
  /\ UNCHANGED <<leads, recent, accounts, ownKey, pc, local, crashes>>

AdminRotate(k) ==
  /\ RotateSecret(k)
  /\ UNCHANGED <<leads, recent, accounts, ownKey, pc, local, gated, crashes>>

AdminDeactivate(k) ==
  /\ keys' = [keys EXCEPT ![k].active = FALSE]
  /\ UNCHANGED <<leads, recent, accounts, ownKey, pc, local, secrets, gated, crashes>>

LoadBilling(t, k, isPaid) ==
  /\ At(t, "idle")
  /\ Goto(t, "billing", [Blank EXCEPT !.key = k, !.row = keys[k], !.flag = isPaid])
  /\ UNCHANGED <<keys, leads, recent, accounts, ownKey, secrets, gated, crashes>>

\* Mutant: unpaid leaves the trial end as it is.
CommitPaidFlag(t) ==
  /\ At(t, "billing")
  /\ CommitRow(t, [local[t].row EXCEPT !.paid = local[t].flag,
                                       !.trial = IF local[t].flag THEN "none" ELSE @])
  /\ Return(t)
  /\ UNCHANGED <<leads, recent, accounts, ownKey, secrets, gated, crashes>>

\* set_db_api_key_paid: paid clears the trial, unpaid starts one if there is none.
CommitBilling(t) ==
  /\ At(t, "billing")
  /\ CommitRow(t, [local[t].row EXCEPT !.paid = local[t].flag,
                                       !.trial = IF local[t].flag THEN "none" ELSE "set"])
  /\ Return(t)
  /\ UNCHANGED <<leads, recent, accounts, ownKey, secrets, gated, crashes>>

-----------------------------------------------------------------------------
(* The clock, and crashes: a crash leaves a handler's later transactions    *)
(* undone and nothing undoes the earlier ones.                              *)

LeadAges(k) ==
  /\ recent' = recent \ {k}
  /\ UNCHANGED <<keys, leads, accounts, ownKey, pc, local, secrets, gated, crashes>>

Crash(P) ==
  /\ crashes < MaxCrashes
  /\ crashes' = crashes + 1
  /\ pc' = [t \in Thread |-> IF t \in P THEN "idle" ELSE pc[t]]
  /\ local' = [t \in Thread |-> IF t \in P THEN Blank ELSE local[t]]
  /\ UNCHANGED <<keys, leads, recent, accounts, ownKey, secrets, gated>>

SignupStep(t) ==
  \/ CheckRecentLead(t) \/ CreateTrialKey(t) \/ InsertLead(t)
  \/ CheckAccount(t) \/ InsertAccount(t)

OwnKeyStep(t) ==
  RotateOwnKey(t) \/ RegenerateKey(t) \/ AttachKey(t) \/ CommitRevoke(t)

Request(t) ==
  \/ \E e \in Email : \/ \E a \in BOOLEAN : StartSignup(t, e, a)
                      \/ StartRotate(t, e)
                      \/ LoadRevoke(t, e)
  \/ \E k \in DOMAIN keys, b \in BOOLEAN : LoadBilling(t, k, b)

Admin ==
  \/ \E trial \in {"none", "set"} : AdminCreate(trial)
  \/ \E k \in DOMAIN keys : AdminRotate(k) \/ AdminDeactivate(k)

Next ==
  \/ \E t \in Thread : Request(t) \/ SignupStep(t) \/ OwnKeyStep(t) \/ CommitBilling(t)
  \/ Admin
  \/ \E k \in recent : LeadAges(k)
  \/ \E P \in Process : Crash(P)

Spec == Init /\ [][Next]_vars

-----------------------------------------------------------------------------
\* verify_user_api_key: the secret is that of an active row.
Authenticates(s) == \E k \in DOMAIN keys : keys[k].active /\ keys[k].secret = s

\* A secret that has stopped working never works again: no stale commit of a
\* billing change or of a revocation brings back a rotated secret or
\* reactivates a key (auth.py, 402-544).
DeadSecretsStayDead ==
  [][\A s \in 1..secrets : ~Authenticates(s) => ~Authenticates(s)']_vars

\* The billing gate of a key created with a trial is always set one way or the
\* other: it is paid with no trial end, or unpaid with one.  Concurrent
\* set_db_api_key_paid calls never leave it paid with a trial or, worse,
\* unpaid with none, which no request would ever answer with 402.
BillingGateCoherent ==
  \A k \in gated : keys[k].paid <=> keys[k].trial = "none"

\* No key is the account key of two accounts, however signups, rotations and
\* revocations of several users overlap.
SoleOwner ==
  \A d, e \in Email : ownKey[d] = ownKey[e] /\ ownKey[d] # NoKey => d = e

\* The lead a payment email looks up by key names the account the key belongs
\* to (get_lead_contact_for_api_key joins through the key, not the account).
LeadNamesOwner ==
  \A l \in leads : \A e \in Email : ownKey[e] = l.key => l.email = e

\* The signups of an email between the check and the commit of their lead.
Checked(e) == {t \in Thread : pc[t] \in {"create", "lead"} /\ local[t].email = e}

\* The 24-hour check bounds the trials of one email: its recent leads and the
\* signups that are already past the check are never more than the threads, for
\* nobody passes the check again until the last recent lead has aged, crashes or
\* not (leads.py, 34-79).
RecentLeadsBounded ==
  \A e \in Email :
    Cardinality(RecentLeads(e)) + Cardinality(Checked(e)) <= Cardinality(Thread)
=============================================================================
