------------------------------- MODULE Passwords -------------------------------
(***************************************************************************)
(* Passwords, reset tokens and session tokens: app/auth.py (114-307) and   *)
(* the handlers of app/main.py that call it.  Sign-in and reset load rows  *)
(* and commit them later, so each is a load and a commit.  A session token *)
(* is a signature that no table knows: it is accepted by a process that    *)
(* has the secret it was signed with among its settings, and settings are  *)
(* read once, at the start of a process.                                   *)
(*                                                                         *)
(* hash_password draws a new salt, so no two hashes are equal, of the same *)
(* password neither: hashes are numbered.  A client that does not know the *)
(* password or the token is refused and nothing changes.  Both formats of  *)
(* a session token pass the same checks.                                   *)
(***************************************************************************)
EXTENDS Naturals, Sequences, FiniteSets, Orm

CONSTANTS
  User,         \* rows of user_accounts, whose first hash is 0
  NoUser,       \* what an idle thread works for
  Thread,       \* threads that serve requests
  Process,      \* server processes
  Of,           \* the process of a thread
  TokenTtl,     \* password_reset_token_ttl_minutes, in ticks
  SessionTtl,   \* seven days, in ticks
  MaxTokens,    \* bound: rows of password_reset_tokens
  MaxHashes,    \* bound: passwords set
  MaxSessions,  \* bound: session tokens that clients hold at once
  MaxSecrets,   \* bound: values of AUTH_TOKEN_SECRET
  MaxRestarts,  \* bound: restarts of a process
  MaxTime       \* bound: the last tick of the clock

ASSUME UserAssumption == NoUser \notin User
ASSUME ThreadAssumption == IsFiniteSet(Thread) /\ Process # {} /\ Of \in [Thread -> Process]
ASSUME TimeAssumption == TokenTtl \in Nat /\ SessionTtl \in Nat
ASSUME BoundAssumption ==
  {MaxTokens, MaxHashes, MaxSessions, MaxSecrets, MaxRestarts, MaxTime} \subseteq Nat

VARIABLES
  accounts,  \* user_accounts: password_hash, last_login_at
  tokens,    \* the password_reset_tokens table
  mailed,    \* the reset tokens that have left the server
  sessions,  \* the session tokens that clients hold
  env,       \* the secrets a process reads when it starts
  conf,      \* the secrets each process has read
  pc, local, \* where each thread's handler is, and what it holds
  now,       \* the clock
  hashes,    \* hashes drawn so far
  latest,    \* history: the hash of the user's last reset
  uses,      \* history: how many resets each token has made
  settled,   \* history: when a process last started with other secrets
  restarts   \* restarts so far

vars == <<accounts, tokens, mailed, sessions, env, conf, pc, local, now,
          hashes, latest, uses, settled, restarts>>

NoSecret == 0
Account  == [hash : Nat, login : Nat]
Token    == [user : User, expires : Nat, used : BOOLEAN]
Session  == [user : User, secret : Nat, exp : Nat]
Settings == [current : Nat, previous : Nat]

TokenId == 1..MaxTokens
NoToken == 0

\* The user a handler works for, its reset token and the account it loaded.
Local == [user : User \cup {NoUser}, token : 0..MaxTokens, row : Account]
Blank == [user |-> NoUser, token |-> NoToken, row |-> [hash |-> 0, login |-> 0]]

TypeOK ==
  /\ accounts \in [User -> Account]
  /\ tokens \in Seq(Token) /\ Len(tokens) <= MaxTokens
  /\ mailed \subseteq DOMAIN tokens
  /\ sessions \subseteq Session
  /\ env \in Settings /\ conf \in [Process -> Settings]
  /\ pc \in [Thread -> {"idle", "login", "mail", "reset"}]
  /\ local \in [Thread -> Local]
  /\ \A t \in Thread : pc[t] # "idle" => local[t].user \in User
  /\ \A t \in Thread : pc[t] \in {"mail", "reset"} => local[t].token \in DOMAIN tokens
  /\ now \in Nat /\ hashes \in Nat /\ settled \in Nat /\ restarts \in Nat
  /\ latest \in [User -> Nat]
  /\ uses \in [TokenId -> Nat]

Init ==
  /\ accounts = [u \in User |-> [hash |-> 0, login |-> 0]]
  /\ tokens = <<>> /\ mailed = {} /\ sessions = {}
  /\ env = [current |-> 1, previous |-> NoSecret]
  /\ conf = [p \in Process |-> env]
  /\ pc = [t \in Thread |-> "idle"]
  /\ local = [t \in Thread |-> Blank]
  /\ now = 0 /\ hashes = 0 /\ settled = 0 /\ restarts = 0
  /\ latest = [u \in User |-> 0]
  /\ uses = [k \in TokenId |-> 0]

Goto(t, label, l) ==
  /\ pc' = [pc EXCEPT ![t] = label]
  /\ local' = [local EXCEPT ![t] = l]

Return(t) == Goto(t, "idle", Blank)

At(t, label) == pc[t] = label

-----------------------------------------------------------------------------
(* Session tokens. *)

\* Mutant: only the current secret is tried.
AcceptsCurrent(p, s) ==
  /\ s.secret = conf[p].current
  /\ s.exp >= now

\* verify_session_token.
Accepts(p, s) ==
  /\ \/ s.secret = conf[p].current
     \/ conf[p].previous # NoSecret /\ s.secret = conf[p].previous
  /\ s.exp >= now

\* create_session_token, by a process.
Issue(p, u) ==
  /\ Cardinality(sessions) < MaxSessions
  /\ sessions' = sessions \cup
       {[user |-> u, secret |-> conf[p].current, exp |-> now + SessionTtl]}

\* auth_signup ends with a token for the account it made.
SignUp(p, u) ==
  /\ Issue(p, u)
  /\ UNCHANGED <<accounts, tokens, mailed, env, conf, pc, local, now,
                 hashes, latest, uses, settled, restarts>>

Refresh(p, s) ==
  /\ Accepts(p, s)
  /\ Issue(p, s.user)
  /\ UNCHANGED <<accounts, tokens, mailed, env, conf, pc, local, now,
                 hashes, latest, uses, settled, restarts>>

\* The client throws a token away.
Forget(s) ==
  /\ sessions' = sessions \ {s}
  /\ UNCHANGED <<accounts, tokens, mailed, env, conf, pc, local, now,
                 hashes, latest, uses, settled, restarts>>

-----------------------------------------------------------------------------
(* Signing in. *)

LoadLogin(t, u) ==
  /\ At(t, "idle")
  /\ Goto(t, "login", [Blank EXCEPT !.user = u, !.row = accounts[u]])
  /\ UNCHANGED <<accounts, tokens, mailed, sessions, env, conf, now,
                 hashes, latest, uses, settled, restarts>>

CommitLogin(t) ==
  /\ At(t, "login")
  /\ LET l == local[t]
     IN /\ accounts' = [accounts EXCEPT ![l.user] =
                          Flush(@, l.row, [l.row EXCEPT !.login = now])]
        /\ Issue(Of[t], l.user)
  /\ Return(t)
  /\ UNCHANGED <<tokens, mailed, env, conf, now, hashes, latest, uses, settled, restarts>>

-----------------------------------------------------------------------------
(* Resetting a password. *)

InsertToken(t, u) ==
  /\ At(t, "idle")
  /\ Len(tokens) < MaxTokens
  /\ tokens' = Append(tokens, [user |-> u, expires |-> now + TokenTtl, used |-> FALSE])
  /\ Goto(t, "mail", [Blank EXCEPT !.user = u, !.token = Len(tokens) + 1])
  /\ UNCHANGED <<accounts, mailed, sessions, env, conf, now,
                 hashes, latest, uses, settled, restarts>>

\* The raw token leaves with the email or, outside production, in the response;
\* an error while queueing the email is swallowed.
MailToken(t) ==
  /\ At(t, "mail")
  /\ mailed' \in {mailed, mailed \cup {local[t].token}}
  /\ Return(t)
  /\ UNCHANGED <<accounts, tokens, sessions, env, conf, now,
                 hashes, latest, uses, settled, restarts>>

LoadReset(t, k) ==
  /\ At(t, "idle")
  /\ k \in mailed /\ ~tokens[k].used /\ tokens[k].expires >= now
  /\ LET u == tokens[k].user
     IN Goto(t, "reset", [user |-> u, token |-> k, row |-> accounts[u]])
  /\ UNCHANGED <<accounts, tokens, mailed, sessions, env, conf, now,
                 hashes, latest, uses, settled, restarts>>

SetPassword(t) ==
  LET l == local[t]
  IN /\ hashes < MaxHashes
     /\ hashes' = hashes + 1
     /\ accounts' = [accounts EXCEPT ![l.user] =
                       Flush(@, l.row, [l.row EXCEPT !.hash = hashes'])]
     /\ latest' = [latest EXCEPT ![l.user] = hashes']
     /\ uses' = [uses EXCEPT ![l.token] = @ + 1]

\* Mutant: the token is not marked as used.
CommitUnspent(t) ==
  /\ At(t, "reset")
  /\ SetPassword(t)
  /\ Return(t)
  /\ UNCHANGED <<tokens, mailed, sessions, env, conf, now, settled, restarts>>

CommitReset(t) ==
  /\ At(t, "reset")
  /\ SetPassword(t)
  /\ tokens' = [tokens EXCEPT ![local[t].token].used = TRUE]
  /\ Return(t)
  /\ UNCHANGED <<mailed, sessions, env, conf, now, settled, restarts>>

-----------------------------------------------------------------------------
(* The clock, the operator and the processes. *)

Tick ==
  /\ now < MaxTime
  /\ now' = now + 1
  /\ UNCHANGED <<accounts, tokens, mailed, sessions, env, conf, pc, local,
                 hashes, latest, uses, settled, restarts>>

\* The operator moves the secret to AUTH_TOKEN_SECRET_PREVIOUS and writes a new
\* one, at the earliest a token's lifetime after every process has restarted
\* with the last one.
RotateSecret ==
  /\ env.current < MaxSecrets
  /\ \A p \in Process : conf[p] = env
  /\ now > settled + SessionTtl
  /\ env' = [current |-> env.current + 1, previous |-> env.current]
  /\ UNCHANGED <<accounts, tokens, mailed, sessions, conf, pc, local, now,
                 hashes, latest, uses, settled, restarts>>

\* Mutant: the handlers of the process go on.
RestartUnderHandlers(p) ==
  /\ restarts < MaxRestarts
  /\ restarts' = restarts + 1
  /\ conf' = [conf EXCEPT ![p] = env]
  /\ settled' = IF conf[p] = env THEN settled ELSE now
  /\ local' = [t \in Thread |-> IF Of[t] = p THEN Blank ELSE local[t]]
  /\ UNCHANGED <<accounts, tokens, mailed, sessions, env, pc, now, hashes, latest, uses>>

\* A process ends, by a crash or a deployment, and another starts in its place.
Restart(p) ==
  /\ restarts < MaxRestarts
  /\ restarts' = restarts + 1
  /\ conf' = [conf EXCEPT ![p] = env]
  /\ settled' = IF conf[p] = env THEN settled ELSE now
  /\ pc' = [t \in Thread |-> IF Of[t] = p THEN "idle" ELSE pc[t]]
  /\ local' = [t \in Thread |-> IF Of[t] = p THEN Blank ELSE local[t]]
  /\ UNCHANGED <<accounts, tokens, mailed, sessions, env, now, hashes, latest, uses>>

Handler(t) ==
  \/ \E u \in User : LoadLogin(t, u) \/ InsertToken(t, u)
  \/ \E k \in mailed : LoadReset(t, k)
  \/ CommitLogin(t) \/ MailToken(t) \/ CommitReset(t)

Next ==
  \/ \E t \in Thread : Handler(t)
  \/ \E p \in Process, u \in User : SignUp(p, u)
  \/ \E s \in sessions : Forget(s) \/ \E p \in Process : Refresh(p, s)
  \/ Tick \/ RotateSecret
  \/ \E p \in Process : Restart(p)

Spec == Init /\ [][Next]_vars

-----------------------------------------------------------------------------
\* The password of an account is the one its last reset set: a sign-in that
\* loaded the account before a reset and commits after it never brings the old
\* one back, and overlapping resets leave the password of the last commit
\* (auth.py, 125-127, 178-181).
LatestResetWins == \A u \in User : accounts[u].hash = latest[u]

\* A reset token sets at most as many passwords as handlers can have loaded it
\* unused at once, and none after the first commit is known to whoever loads it
\* (auth.py, 163-180).
TokenUsesBounded ==
  \A k \in TokenId :
    uses[k] + Cardinality({t \in Thread : pc[t] = "reset" /\ local[t].token = k})
      <= Cardinality(Thread)

\* While secrets are rotated, one lifetime after the last restart, a token that
\* has not expired is refused in one case only: by a process that is still to be
\* restarted, when one that was restarted signed it or refreshed it with the new
\* secret.  What the old processes sign is good everywhere, and once all have
\* the new settings nobody is refused (auth.py, 197, 280-300).
RefusedOnlyBeforeRestart ==
  \A s \in sessions, p \in Process :
    s.exp >= now /\ ~Accepts(p, s) => conf[p] # env /\ s.secret = env.current
=============================================================================
