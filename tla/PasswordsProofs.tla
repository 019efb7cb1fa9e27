---------------------------- MODULE PasswordsProofs ----------------------------
(***************************************************************************)
(* Theorems about Passwords, for every set of users, threads and processes *)
(* and every bound.                                                        *)
(*                                                                         *)
(* A stale row is harmless because a sign-in's commit leaves the hash as   *)
(* it loaded it and a reset's hash was never in the table (HashesDrawn).   *)
(* A token that is unused has made no reset (UnusedIsFresh), so whoever    *)
(* loads it is counted among the threads.  A session that has not expired  *)
(* was signed with one of the two secrets in force (SignedInForce), which  *)
(* needs that processes lag one rotation behind at most (OneBehind), and   *)
(* that the old secret's last signature is no younger than the last        *)
(* restart (OldExpire).                                                    *)
(***************************************************************************)
EXTENDS Passwords, FiniteSetTheorems, SequenceTheorems, TLAPS

\* The threads that hold token k and will use it.
Resetting(k) == {t \in Thread : pc[t] = "reset" /\ local[t].token = k}

\* A password hash, in the table or loaded, was drawn before.
HashesDrawn ==
  /\ \A u \in User : accounts[u].hash <= hashes
  /\ \A t \in Thread : local[t].row.hash <= hashes

\* A token that was used is marked as used.
UnusedIsFresh ==
  \A k \in TokenId : (k \in DOMAIN tokens /\ tokens[k].used) \/ uses[k] = 0

\* A process has the settings in force or signs with the secret before.
OneBehind ==
  \A p \in Process : conf[p] = env \/ conf[p].current = env.previous

\* A session that has not expired was signed with one of the two.
SignedInForce ==
  \A s \in sessions : s.exp >= now => s.secret \in {env.current, env.previous}

\* Once every process has the new settings, one signed with the old secret
\* expires as if it had been signed at that moment at the latest.
OldExpire ==
  /\ \A s \in sessions : s.exp <= now + SessionTtl
  /\ (\A p \in Process : conf[p] = env) =>
       \A s \in sessions : s.secret # env.current => s.exp <= settled + SessionTtl

\* A secret that signs is not the absent one.
RealSecrets ==
  /\ env.current >= 1 /\ \A p \in Process : conf[p].current >= 1
  /\ \A s \in sessions : s.secret >= 1

\* The inductive invariants of the three theorems below.
PasswordInv == HashesDrawn /\ LatestResetWins
TokenInv    == UnusedIsFresh /\ TokenUsesBounded
SessionInv  == OneBehind /\ SignedInForce /\ OldExpire /\ RealSecrets

-----------------------------------------------------------------------------
(* Types. *)

\* What a commit writes to an account.
LEMMA FlushAccount ==
  ASSUME NEW row \in Account, NEW old \in Account, NEW new \in Account
  PROVE  /\ Flush(row, old, new) \in Account
         /\ Flush(row, old, new).hash = IF new.hash # old.hash THEN new.hash ELSE row.hash
BY DEF Flush, Account

\* Tokens are numbered from 1, and each has a row.
LEMMA TokenTable ==
  ASSUME TypeOK
  PROVE  /\ Len(tokens) \in Nat /\ DOMAIN tokens = 1..Len(tokens)
         /\ DOMAIN tokens \subseteq TokenId /\ MaxTokens \in Nat
         /\ \A k \in DOMAIN tokens : tokens[k] \in Token
BY LenProperties, ElementOfSeq, BoundAssumption DEF TypeOK, TokenId

\* The empty tables are well typed.
LEMMA InitType == Init => TypeOK
BY BoundAssumption DEF Init, TypeOK, Account, Settings, NoSecret, Local, Blank, NoToken

\* A session token is signed with a process's current secret.
LEMMA IssueType ==
  ASSUME TypeOK, NEW p \in Process, NEW u \in User, Issue(p, u)
  PROVE  sessions' \subseteq Session
<1>1. [user |-> u, secret |-> conf[p].current, exp |-> now + SessionTtl] \in Session
  BY TimeAssumption DEF TypeOK, Session, Settings
<1> QED
  BY <1>1 DEF Issue, TypeOK

\* Only locals that fit the label are handed on.
LEMMA GotoType ==
  ASSUME TypeOK, NEW t \in Thread, NEW label \in {"idle", "login", "mail", "reset"},
         NEW l \in Local, Goto(t, label, l),
         label # "idle" => l.user \in User,
         label \in {"mail", "reset"} => l.token \in DOMAIN tokens',
         DOMAIN tokens \subseteq DOMAIN tokens'
  PROVE  /\ pc' \in [Thread -> {"idle", "login", "mail", "reset"}]
         /\ local' \in [Thread -> Local]
         /\ \A x \in Thread : pc'[x] # "idle" => local'[x].user \in User
         /\ \A x \in Thread : pc'[x] \in {"mail", "reset"} => local'[x].token \in DOMAIN tokens'
BY DEF Goto, TypeOK

\* A thread at rest has locals.
LEMMA BlankType == Blank \in Local
BY BoundAssumption DEF Blank, Local, NoToken, Account

\* Every step of a handler is well typed.
LEMMA HandlerType ==
  ASSUME TypeOK, NEW t \in Thread, Handler(t)
  PROVE  TypeOK'
<1> USE TokenTable, BlankType
<1>1. ASSUME NEW u \in User, LoadLogin(t, u) PROVE TypeOK'
  <2>1. [Blank EXCEPT !.user = u, !.row = accounts[u]] \in Local
    BY DEF TypeOK, Local, Blank
  <2>2. [Blank EXCEPT !.user = u, !.row = accounts[u]].user = u
    BY DEF Blank
  <2> QED BY <1>1, <2>1, <2>2, GotoType DEF LoadLogin, TypeOK
<1>2. ASSUME NEW u \in User, InsertToken(t, u) PROVE TypeOK'
  <2> DEFINE k == Len(tokens) + 1
             row == [user |-> u, expires |-> now + TokenTtl, used |-> FALSE]
             l == [Blank EXCEPT !.user = u, !.token = k]
  <2>1. row \in Token /\ k \in TokenId
    BY <1>2, TimeAssumption DEF TypeOK, Token, InsertToken, TokenId
  <2>2. /\ tokens' \in Seq(Token) /\ Len(tokens') = k
        /\ DOMAIN tokens' = 1..k
    BY <1>2, <2>1, AppendProperties DEF InsertToken, TypeOK
  <2>3. l \in Local /\ l.user = u /\ l.token = k
    <3>1. k \in 0..MaxTokens
      BY <2>1 DEF TokenId
    <3> HIDE DEF k
    <3> QED BY <3>1 DEF Local, Account, Blank
  <2>4. k \in DOMAIN tokens' /\ DOMAIN tokens \subseteq DOMAIN tokens' /\ Len(tokens') <= MaxTokens
    BY <2>1, <2>2 DEF TokenId
  <2>5. Goto(t, "mail", l)
    BY <1>2 DEF InsertToken
  <2> HIDE DEF l, row, k
  <2>6. /\ pc' \in [Thread -> {"idle", "login", "mail", "reset"}]
        /\ local' \in [Thread -> Local]
        /\ \A x \in Thread : pc'[x] # "idle" => local'[x].user \in User
        /\ \A x \in Thread : pc'[x] \in {"mail", "reset"} => local'[x].token \in DOMAIN tokens'
    BY <2>3, <2>4, <2>5, GotoType
  <2> QED BY <1>2, <2>2, <2>4, <2>6 DEF InsertToken, TypeOK
<1>3. ASSUME NEW k \in mailed, LoadReset(t, k) PROVE TypeOK'
  <2>1. k \in DOMAIN tokens /\ tokens[k].user \in User
    BY DEF TypeOK, Token
  <2>2. [user |-> tokens[k].user, token |-> k, row |-> accounts[tokens[k].user]] \in Local
    BY <2>1 DEF TypeOK, Local, TokenId
  <2> QED BY <1>3, <2>1, <2>2, GotoType DEF LoadReset, TypeOK
<1>4. CASE CommitLogin(t)
  <2> DEFINE u == local[t].user
             new == [local[t].row EXCEPT !.login = now]
  <2>1. u \in User /\ local[t].row \in Account /\ new \in Account
    BY <1>4 DEF CommitLogin, At, TypeOK, Local, Account
  <2>2. Flush(accounts[u], local[t].row, new) \in Account
    BY <2>1, FlushAccount DEF TypeOK
  <2>3. accounts' \in [User -> Account]
    BY <1>4, <2>1, <2>2 DEF CommitLogin, TypeOK
  <2>4. sessions' \subseteq Session
    BY <1>4, <2>1, IssueType, ThreadAssumption DEF CommitLogin
  <2> QED BY <1>4, <2>3, <2>4, GotoType DEF CommitLogin, Return, TypeOK
<1>5. CASE MailToken(t)
  <2>1. mailed' \subseteq DOMAIN tokens
    BY <1>5 DEF MailToken, At, TypeOK
  <2> QED BY <1>5, <2>1, GotoType DEF MailToken, Return, TypeOK
<1>6. CASE CommitReset(t)
  <2> DEFINE u == local[t].user
             k == local[t].token
             new == [local[t].row EXCEPT !.hash = hashes']
  <2>1. /\ u \in User /\ k \in DOMAIN tokens /\ local[t].row \in Account
        /\ hashes' \in Nat
    BY <1>6 DEF CommitReset, SetPassword, At, TypeOK, Local
  <2>2. new \in Account
    BY <2>1 DEF Account
  <2>3. Flush(accounts[u], local[t].row, new) \in Account
    BY <2>1, <2>2, FlushAccount DEF TypeOK
  <2>4. /\ accounts' \in [User -> Account]
        /\ latest' \in [User -> Nat]
        /\ uses' \in [TokenId -> Nat]
    BY <1>6, <2>1, <2>3 DEF CommitReset, SetPassword, TypeOK
  <2>5. [tokens[k] EXCEPT !.used = TRUE] \in Token
    BY <2>1 DEF Token
  <2>6. /\ tokens' \in Seq(Token) /\ Len(tokens') = Len(tokens) /\ DOMAIN tokens' = DOMAIN tokens
    BY <1>6, <2>1, <2>5, ExceptSeq DEF CommitReset, TypeOK
  <2> QED BY <1>6, <2>1, <2>4, <2>6, GotoType DEF CommitReset, Return, TypeOK
<1> QED BY <1>1, <1>2, <1>3, <1>4, <1>5, <1>6 DEF Handler

\* Every step keeps the types.
LEMMA StepType == TypeOK /\ [Next]_vars => TypeOK'
<1> SUFFICES ASSUME TypeOK, [Next]_vars PROVE TypeOK'
  OBVIOUS
<1>1. ASSUME NEW p \in Process, NEW u \in User, SignUp(p, u) PROVE TypeOK'
  BY <1>1, IssueType DEF SignUp, TypeOK
<1>2. ASSUME NEW s \in sessions, Forget(s) PROVE TypeOK'
  BY <1>2 DEF Forget, TypeOK
<1>3. ASSUME NEW s \in sessions, NEW p \in Process, Refresh(p, s) PROVE TypeOK'
  <2>1. s.user \in User
    BY DEF TypeOK, Session
  <2> QED BY <1>3, <2>1, IssueType DEF Refresh, TypeOK
<1>4. CASE Tick
  BY <1>4 DEF Tick, TypeOK
<1>5. CASE RotateSecret
  BY <1>5 DEF RotateSecret, TypeOK, Settings
<1>6. ASSUME NEW p \in Process, Restart(p) PROVE TypeOK'
  BY <1>6, BlankType DEF Restart, TypeOK
<1>7. CASE UNCHANGED vars
  BY <1>7 DEF vars, TypeOK
<1> QED BY <1>1, <1>2, <1>3, <1>4, <1>5, <1>6, <1>7, HandlerType DEF Next

\* Every reachable state is well typed: a handler works for a user and with a
\* token that exist.
THEOREM TypeCorrect == Spec => []TypeOK
<1> QED BY InitType, StepType, PTL DEF Spec
-----------------------------------------------------------------------------
(* Passwords. *)

\* A handler that loads an account, or none, leaves the accounts alone.
LEMMA LoadKeeps ==
  ASSUME TypeOK, PasswordInv, NEW t \in Thread, UNCHANGED <<accounts, hashes, latest>>,
         local'[t].row.hash <= hashes,
         \A x \in Thread : x # t => local'[x] = local[x]
  PROVE  PasswordInv'
<1>1. HashesDrawn'
  <2>1. \A x \in Thread : local'[x].row.hash <= hashes
    <3> SUFFICES ASSUME NEW x \in Thread PROVE local'[x].row.hash <= hashes
      OBVIOUS
    <3> QED BY DEF PasswordInv, HashesDrawn
  <2> QED BY <2>1 DEF PasswordInv, HashesDrawn
<1>2. LatestResetWins'
  BY DEF PasswordInv, LatestResetWins
<1> QED BY <1>1, <1>2 DEF PasswordInv

\* Only the two commits write an account: a sign-in its last login, a reset the
\* hash it drew.
LEMMA StepPassword == TypeOK /\ PasswordInv /\ [Next]_vars => PasswordInv'
<1> SUFFICES ASSUME TypeOK, PasswordInv, [Next]_vars PROVE PasswordInv'
  OBVIOUS
<1> USE DEF PasswordInv
<1>1. ASSUME NEW t \in Thread, NEW u \in User, LoadLogin(t, u) PROVE PasswordInv'
  <2>1. local'[t].row = accounts[u] /\ \A x \in Thread : x # t => local'[x] = local[x]
    BY <1>1 DEF LoadLogin, Goto, TypeOK, Blank
  <2>2. accounts[u].hash <= hashes
    BY DEF HashesDrawn
  <2> QED BY <1>1, <2>1, <2>2, LoadKeeps DEF LoadLogin
<1>2. ASSUME NEW t \in Thread, NEW u \in User, InsertToken(t, u) PROVE PasswordInv'
  <2>1. local'[t].row.hash = 0 /\ \A x \in Thread : x # t => local'[x] = local[x]
    BY <1>2 DEF InsertToken, Goto, TypeOK, Blank
  <2> QED BY <1>2, <2>1, LoadKeeps DEF InsertToken, TypeOK
<1>3. ASSUME NEW t \in Thread, NEW k \in mailed, LoadReset(t, k) PROVE PasswordInv'
  <2>1. k \in DOMAIN tokens /\ tokens[k].user \in User
    BY TokenTable DEF TypeOK, Token
  <2>2. local'[t].row = accounts[tokens[k].user] /\ \A x \in Thread : x # t => local'[x] = local[x]
    BY <1>3 DEF LoadReset, Goto, TypeOK
  <2>3. accounts[tokens[k].user].hash <= hashes
    BY <2>1 DEF HashesDrawn
  <2> QED BY <1>3, <2>2, <2>3, LoadKeeps DEF LoadReset
<1>4. ASSUME NEW t \in Thread, CommitLogin(t) PROVE PasswordInv'
  <2> DEFINE u == local[t].user
             new == [local[t].row EXCEPT !.login = now]
  <2>1. u \in User /\ local[t].row \in Account /\ accounts[u] \in Account
    BY <1>4 DEF CommitLogin, At, TypeOK, Local
  <2>2. new \in Account /\ new.hash = local[t].row.hash
    BY <2>1 DEF Account, TypeOK
  <2>3. Flush(accounts[u], local[t].row, new).hash = accounts[u].hash
    BY <2>1, <2>2, FlushAccount
  <2>4. \A v \in User : accounts'[v].hash = accounts[v].hash
    BY <1>4, <2>1, <2>3 DEF CommitLogin, TypeOK
  <2>5. local'[t].row.hash = 0 /\ \A x \in Thread : x # t => local'[x] = local[x]
    BY <1>4 DEF CommitLogin, Return, Goto, TypeOK, Blank
  <2>6. UNCHANGED <<hashes, latest>> /\ hashes \in Nat
    BY <1>4 DEF CommitLogin, TypeOK
  <2>7. LatestResetWins'
    BY <2>4, <2>6 DEF LatestResetWins
  <2>8. HashesDrawn'
    BY <2>4, <2>5, <2>6 DEF HashesDrawn
  <2> QED BY <2>7, <2>8
<1>5. ASSUME NEW t \in Thread, MailToken(t) PROVE PasswordInv'
  <2>1. local'[t].row.hash = 0 /\ \A x \in Thread : x # t => local'[x] = local[x]
    BY <1>5 DEF MailToken, Return, Goto, TypeOK, Blank
  <2> QED BY <1>5, <2>1, LoadKeeps DEF MailToken, TypeOK
<1>6. ASSUME NEW t \in Thread, CommitReset(t) PROVE PasswordInv'
  <2> DEFINE u == local[t].user
             new == [local[t].row EXCEPT !.hash = hashes']
  <2>1. /\ u \in User /\ local[t].row \in Account /\ accounts[u] \in Account
        /\ hashes \in Nat /\ hashes' = hashes + 1 /\ latest \in [User -> Nat]
    BY <1>6 DEF CommitReset, SetPassword, At, TypeOK, Local
  <2>2. new \in Account /\ new.hash = hashes + 1 /\ local[t].row.hash <= hashes
    BY <2>1 DEF Account, HashesDrawn
  <2>3. Flush(accounts[u], local[t].row, new).hash = hashes + 1
    BY <2>1, <2>2, FlushAccount DEF Account
  <2>4. \A v \in User : accounts'[v].hash = IF v = u THEN hashes + 1 ELSE accounts[v].hash
    BY <1>6, <2>1, <2>3 DEF CommitReset, SetPassword, TypeOK
  <2>5. latest' = [latest EXCEPT ![u] = hashes + 1]
    BY <1>6, <2>1 DEF CommitReset, SetPassword
  <2>6. local'[t].row.hash = 0 /\ \A x \in Thread : x # t => local'[x] = local[x]
    BY <1>6 DEF CommitReset, Return, Goto, TypeOK, Blank
  <2>7. /\ \A v \in User : accounts[v].hash \in Nat
        /\ \A x \in Thread : local[x].row.hash \in Nat
    BY DEF TypeOK, Account, Local
  <2>8. LatestResetWins'
    BY <2>1, <2>4, <2>5 DEF LatestResetWins
  <2>9. HashesDrawn'
    BY <2>1, <2>4, <2>6, <2>7 DEF HashesDrawn
  <2> QED BY <2>8, <2>9
<1>7. ASSUME NEW p \in Process, Restart(p) PROVE PasswordInv'
  <2>1. \A x \in Thread : local'[x] = local[x] \/ local'[x].row.hash = 0
    BY <1>7 DEF Restart, Blank
  <2> QED BY <1>7, <2>1 DEF Restart, HashesDrawn, LatestResetWins, TypeOK
<1>8. CASE UNCHANGED <<accounts, local, hashes, latest>>
  BY <1>8 DEF HashesDrawn, LatestResetWins
<1> QED
  BY <1>1, <1>2, <1>3, <1>4, <1>5, <1>6, <1>7, <1>8
  DEF Next, Handler, SignUp, Forget, Refresh, Tick, RotateSecret, vars

\* An account's password is that of its last reset, however many sign-ins and
\* resets of it overlap.
THEOREM LatestResetWinsHolds == Spec => []LatestResetWins
<1>1. Init => PasswordInv
  BY DEF Init, PasswordInv, HashesDrawn, LatestResetWins, Blank
<1> QED BY <1>1, StepPassword, TypeCorrect, PTL DEF Spec, PasswordInv

-----------------------------------------------------------------------------
(* Reset tokens. *)

\* The holders of a token can be counted.
LEMMA ResettingFinite ==
  \A k : /\ IsFiniteSet(Resetting(k)) /\ Cardinality(Resetting(k)) \in Nat
        /\ Cardinality(Resetting(k)) <= Cardinality(Thread)
BY FS_Subset, FS_CardinalityType, ThreadAssumption DEF Resetting

\* They can be counted after a step as well.
LEMMA ResettingFinitePrimed ==
  \A k : /\ IsFiniteSet(Resetting(k)') /\ Cardinality(Resetting(k)') \in Nat
        /\ Cardinality(Resetting(k)') <= Cardinality(Thread)
BY FS_Subset, FS_CardinalityType, ThreadAssumption DEF Resetting

\* Nobody new holds a token, and the tables of tokens and of uses stay.
LEMMA FewerHolders ==
  ASSUME TypeOK, TokenInv, UNCHANGED uses,
         \A k \in DOMAIN tokens : k \in DOMAIN tokens' /\ tokens'[k].used = tokens[k].used,
         \A k \in TokenId : Resetting(k)' \subseteq Resetting(k)
  PROVE  TokenInv'
<1>1. ASSUME NEW k \in TokenId
      PROVE  uses[k] + Cardinality(Resetting(k)') <= Cardinality(Thread)
  <2>1. Cardinality(Resetting(k)') <= Cardinality(Resetting(k))
    BY FS_Subset, ResettingFinite
  <2>2. uses[k] + Cardinality(Resetting(k)) <= Cardinality(Thread) /\ uses[k] \in Nat
    BY DEF TokenInv, TokenUsesBounded, Resetting, TypeOK
  <2>3. Cardinality(Thread) \in Nat
    BY FS_CardinalityType, ThreadAssumption
  <2> QED BY <2>1, <2>2, <2>3, ResettingFinite, ResettingFinitePrimed
<1>2. TokenUsesBounded'
  BY <1>1 DEF TokenUsesBounded, Resetting
<1>3. UnusedIsFresh'
  BY DEF TokenInv, UnusedIsFresh
<1> QED BY <1>2, <1>3 DEF TokenInv

\* A handler that uses a token stops holding it.
LEMMA HandlerToken ==
  ASSUME TypeOK, TokenInv, NEW t \in Thread, Handler(t)
  PROVE  TokenInv'
<1>1. ASSUME NEW u \in User, LoadLogin(t, u) PROVE TokenInv'
  BY <1>1, FewerHolders DEF LoadLogin, Goto, Resetting, TypeOK
<1>2. ASSUME NEW u \in User, InsertToken(t, u) PROVE TokenInv'
  <2> DEFINE row == [user |-> u, expires |-> now + TokenTtl, used |-> FALSE]
  <2>1. row \in Token
    BY TimeAssumption DEF TypeOK, Token
  <2>2. \A k \in DOMAIN tokens : k \in DOMAIN tokens' /\ tokens'[k] = tokens[k]
    <3> HIDE DEF row
    <3>1. tokens' = Append(tokens, row) /\ tokens \in Seq(Token)
      BY <1>2 DEF InsertToken, TypeOK, row
    <3> QED BY <2>1, <3>1, AppendProperties, TokenTable, LenProperties
  <2>3. \A k \in TokenId : Resetting(k)' \subseteq Resetting(k)
    BY <1>2 DEF InsertToken, Goto, Resetting, TypeOK
  <2> QED BY <1>2, <2>2, <2>3, FewerHolders DEF InsertToken
<1>3. ASSUME NEW k \in mailed, LoadReset(t, k) PROVE TokenInv'
  <2>1. k \in DOMAIN tokens /\ k \in TokenId /\ ~tokens[k].used /\ uses[k] = 0
    BY <1>3, TokenTable DEF LoadReset, TypeOK, TokenInv, UnusedIsFresh
  <2>2. UnusedIsFresh'
    BY <1>3 DEF LoadReset, TokenInv, UnusedIsFresh
  <2>3. ASSUME NEW j \in TokenId
        PROVE  uses'[j] + Cardinality(Resetting(j)') <= Cardinality(Thread)
    <3>1. CASE j = k
      BY <1>3, <2>1, <3>1, ResettingFinitePrimed DEF LoadReset
    <3>2. CASE j # k
      <4>1. Resetting(j)' \subseteq Resetting(j)
        BY <1>3, <3>2 DEF LoadReset, Goto, Resetting, TypeOK
      <4>2. Cardinality(Resetting(j)') <= Cardinality(Resetting(j))
        BY <4>1, FS_Subset, ResettingFinite
      <4>3. uses[j] + Cardinality(Resetting(j)) <= Cardinality(Thread) /\ uses[j] \in Nat
        BY DEF TokenInv, TokenUsesBounded, Resetting, TypeOK
      <4>4. Cardinality(Thread) \in Nat /\ uses' = uses
        BY <1>3, FS_CardinalityType, ThreadAssumption DEF LoadReset
      <4> QED BY <4>2, <4>3, <4>4, ResettingFinite, ResettingFinitePrimed
    <3> QED BY <3>1, <3>2
  <2> QED BY <2>2, <2>3 DEF TokenInv, TokenUsesBounded, Resetting
<1>4. CASE CommitLogin(t)
  BY <1>4, FewerHolders DEF CommitLogin, Return, Goto, Resetting, TypeOK
<1>5. CASE MailToken(t)
  BY <1>5, FewerHolders DEF MailToken, Return, Goto, Resetting, TypeOK
<1>6. CASE CommitReset(t)
  <2> DEFINE k == local[t].token
  <2>1. /\ k \in DOMAIN tokens /\ k \in TokenId /\ pc[t] = "reset"
        /\ uses' = [uses EXCEPT ![k] = @ + 1]
        /\ tokens' = [tokens EXCEPT ![k].used = TRUE]
    BY <1>6, TokenTable DEF CommitReset, SetPassword, At, TypeOK
  <2> HIDE DEF k
  <2>2. UnusedIsFresh'
    BY <2>1 DEF TokenInv, UnusedIsFresh, TypeOK
  <2>3. ASSUME NEW j \in TokenId
        PROVE  uses'[j] + Cardinality(Resetting(j)') <= Cardinality(Thread)
    <3>1. /\ uses[j] + Cardinality(Resetting(j)) <= Cardinality(Thread)
          /\ uses[j] \in Nat /\ Cardinality(Thread) \in Nat
      BY FS_CardinalityType, ThreadAssumption DEF TokenInv, TokenUsesBounded, Resetting, TypeOK
    <3>2. CASE j = k
      <4>1. t \in Resetting(j) /\ Resetting(j)' = Resetting(j) \ {t}
        BY <1>6, <2>1, <3>2 DEF CommitReset, Return, Goto, Resetting, TypeOK, k
      <4>2. Cardinality(Resetting(j)') = Cardinality(Resetting(j)) - 1
        BY <4>1, ResettingFinite, FS_RemoveElement
      <4>3. uses'[j] = uses[j] + 1
        BY <2>1, <3>2 DEF TypeOK
      <4> QED BY <3>1, <4>2, <4>3, ResettingFinite
    <3>3. CASE j # k
      <4>1. Resetting(j)' = Resetting(j) /\ uses'[j] = uses[j]
        BY <1>6, <2>1, <3>3 DEF CommitReset, Return, Goto, Resetting, TypeOK, k
      <4> QED BY <3>1, <4>1
    <3> QED BY <3>2, <3>3
  <2> QED BY <2>2, <2>3 DEF TokenInv, TokenUsesBounded, Resetting
<1> QED BY <1>1, <1>2, <1>3, <1>4, <1>5, <1>6 DEF Handler

\* No step takes the uses and holders of a token beyond the threads.
LEMMA StepToken == TypeOK /\ TokenInv /\ [Next]_vars => TokenInv'
<1> SUFFICES ASSUME TypeOK, TokenInv, [Next]_vars PROVE TokenInv'
  OBVIOUS
<1>1. ASSUME NEW p \in Process, Restart(p) PROVE TokenInv'
  BY <1>1, FewerHolders DEF Restart, Resetting
<1>2. CASE UNCHANGED <<tokens, pc, local, uses>>
  BY <1>2, FewerHolders DEF Resetting
<1> QED
  BY <1>1, <1>2, HandlerToken DEF Next, SignUp, Forget, Refresh, Tick, RotateSecret, vars

\* A token makes no more resets than there are threads, for any number of them.
THEOREM TokenUsesBoundedHolds == Spec => []TokenUsesBounded
<1>1. Init => TokenInv
  <2> SUFFICES ASSUME Init PROVE TokenInv
    OBVIOUS
  <2>1. \A k \in TokenId : uses[k] = 0
    BY DEF Init
  <2>2. \A k \in TokenId : uses[k] + Cardinality(Resetting(k)) <= Cardinality(Thread)
    BY <2>1, ResettingFinite
  <2> QED BY <2>1, <2>2 DEF TokenInv, UnusedIsFresh, TokenUsesBounded, Resetting
<1> QED BY <1>1, StepToken, TypeCorrect, PTL DEF Spec, TokenInv

-----------------------------------------------------------------------------
(* Session tokens. *)

\* A token issued now is signed with a secret in force, and an old secret only
\* signs while a process still has it.
LEMMA IssueKeeps ==
  ASSUME TypeOK, SessionInv, NEW p \in Process, NEW u \in User, Issue(p, u),
         UNCHANGED <<env, conf, now, settled>>
  PROVE  SessionInv'
<1> DEFINE s == [user |-> u, secret |-> conf[p].current, exp |-> now + SessionTtl]
<1>1. sessions' = sessions \cup {s}
  BY DEF Issue
<1>2. /\ s.secret \in {env.current, env.previous} /\ s.exp = now + SessionTtl
      /\ conf[p] = env => s.secret = env.current
  BY DEF SessionInv, OneBehind
<1> HIDE DEF s
<1>3. SignedInForce'
  BY <1>1, <1>2 DEF SessionInv, SignedInForce
<1>4. OldExpire'
  BY <1>1, <1>2, TimeAssumption DEF SessionInv, OldExpire, TypeOK
<1>5. RealSecrets'
  BY <1>1, <1>2 DEF SessionInv, RealSecrets, s
<1> QED BY <1>3, <1>4, <1>5 DEF SessionInv, OneBehind

\* Every step keeps the sessions' secrets in force.
LEMMA StepSession == TypeOK /\ SessionInv /\ [Next]_vars => SessionInv'
<1> SUFFICES ASSUME TypeOK, SessionInv, [Next]_vars PROVE SessionInv'
  OBVIOUS
<1>1. ASSUME NEW p \in Process, NEW u \in User, SignUp(p, u) PROVE SessionInv'
  BY <1>1, IssueKeeps DEF SignUp
<1>2. ASSUME NEW s \in sessions, NEW p \in Process, Refresh(p, s) PROVE SessionInv'
  <2>1. s.user \in User
    BY DEF TypeOK, Session
  <2> QED BY <1>2, <2>1, IssueKeeps DEF Refresh
<1>3. ASSUME NEW t \in Thread, CommitLogin(t) PROVE SessionInv'
  <2>1. local[t].user \in User /\ Of[t] \in Process
    BY <1>3, ThreadAssumption DEF CommitLogin, At, TypeOK
  <2> QED BY <1>3, <2>1, IssueKeeps DEF CommitLogin
<1>4. ASSUME NEW s \in sessions, Forget(s) PROVE SessionInv'
  BY <1>4 DEF Forget, SessionInv, OneBehind, SignedInForce, OldExpire, RealSecrets
<1>5. CASE Tick
  <2>1. \A s \in sessions : s.exp \in Nat
    BY DEF TypeOK, Session
  <2> QED
    BY <1>5, <2>1, TimeAssumption
    DEF Tick, SessionInv, OneBehind, SignedInForce, OldExpire, RealSecrets, TypeOK
<1>6. CASE RotateSecret
  <2>1. /\ env' = [current |-> env.current + 1, previous |-> env.current]
        /\ \A p \in Process : conf[p] = env
        /\ now > settled + SessionTtl /\ UNCHANGED <<conf, sessions, now, settled>>
        /\ env.current \in Nat
    BY <1>6 DEF RotateSecret, TypeOK, Settings
  <2>2. \A s \in sessions : s.exp >= now => s.secret = env.current
    <3> SUFFICES ASSUME NEW s \in sessions, s.exp >= now, s.secret # env.current PROVE FALSE
      OBVIOUS
    <3>1. s.exp <= settled + SessionTtl /\ s.exp \in Nat
      BY <2>1 DEF SessionInv, OldExpire, TypeOK, Session
    <3> QED BY <2>1, <3>1, TimeAssumption DEF TypeOK
  <2>3. env' # env /\ env'.current = env.current + 1 /\ env'.previous = env.current
    BY <2>1
  <2>4. OneBehind' /\ SignedInForce'
    BY <2>1, <2>2, <2>3 DEF OneBehind, SignedInForce
  <2>5. OldExpire'
    <3>1. ~ \A p \in Process : conf'[p] = env'
      BY <2>1, <2>3, ThreadAssumption
    <3> QED BY <2>1, <3>1 DEF SessionInv, OldExpire
  <2>6. RealSecrets'
    BY <2>1, <2>3 DEF SessionInv, RealSecrets
  <2> QED BY <2>4, <2>5, <2>6 DEF SessionInv
<1>7. ASSUME NEW p \in Process, Restart(p) PROVE SessionInv'
  <2>1. /\ conf' = [conf EXCEPT ![p] = env] /\ UNCHANGED <<env, sessions, now>>
        /\ settled' = IF conf[p] = env THEN settled ELSE now
    BY <1>7 DEF Restart
  <2>2. OneBehind' /\ SignedInForce'
    BY <2>1 DEF SessionInv, OneBehind, SignedInForce, TypeOK
  <2>5. RealSecrets'
    BY <2>1 DEF SessionInv, RealSecrets, TypeOK
  <2>3. CASE conf[p] = env
    <3>1. conf' = conf /\ settled' = settled
      BY <2>1, <2>3 DEF TypeOK
    <3> QED BY <2>1, <2>2, <2>5, <3>1 DEF SessionInv, OldExpire
  <2>4. CASE conf[p] # env
    BY <2>1, <2>2, <2>4, <2>5 DEF SessionInv, OldExpire
  <2> QED BY <2>3, <2>4
<1>8. CASE UNCHANGED <<env, conf, sessions, now, settled>>
  BY <1>8 DEF SessionInv, OneBehind, SignedInForce, OldExpire, RealSecrets
<1> QED
  BY <1>1, <1>2, <1>3, <1>4, <1>5, <1>6, <1>7, <1>8
  DEF Next, Handler, LoadLogin, InsertToken, MailToken, LoadReset, CommitReset, vars

\* In rotations that wait one lifetime after the restarts of the last one an
\* unexpired token is refused only by a process that is still to be restarted,
\* and only if it was signed with the new secret, for any number of processes,
\* rotations and lifetimes.
THEOREM RefusedOnlyBeforeRestartHolds == Spec => []RefusedOnlyBeforeRestart
<1>1. Init => SessionInv
  BY DEF Init, SessionInv, OneBehind, SignedInForce, OldExpire, RealSecrets
<1>2. TypeOK /\ SessionInv => RefusedOnlyBeforeRestart
  <2> SUFFICES ASSUME TypeOK, SessionInv, NEW s \in sessions, NEW p \in Process,
                      s.exp >= now, ~Accepts(p, s)
               PROVE  conf[p] # env /\ s.secret = env.current
    BY DEF RefusedOnlyBeforeRestart
  <2>1. s.secret \in {env.current, env.previous} /\ s.secret >= 1
    BY DEF SessionInv, SignedInForce, RealSecrets
  <2>2. s.secret # conf[p].current /\ ~(conf[p].previous # NoSecret /\ s.secret = conf[p].previous)
    BY DEF Accepts
  <2>3. conf[p] # env
    BY <2>1, <2>2 DEF NoSecret
  <2>4. conf[p].current = env.previous
    BY <2>3 DEF SessionInv, OneBehind
  <2> QED BY <2>1, <2>2, <2>3, <2>4
<1> QED BY <1>1, <1>2, StepSession, TypeCorrect, PTL DEF Spec
=============================================================================
