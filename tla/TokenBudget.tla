----------------------------- MODULE TokenBudget -----------------------------
(***************************************************************************)
(* The tokens-per-minute budget: _enforce_ai_token_limits of app/main.py   *)
(* over the two limiters of app/ai_gateway/limits.py.  A request is        *)
(* charged to the fixed window its process reads off the clock.  With      *)
(* Redis the charge (INCRBY) and the key's expiry (EXPIRE) are two awaits  *)
(* between which other requests run; any error of either falls back to the *)
(* counter in the memory of the process, which is read and written without *)
(* an await in between.                                                    *)
(*                                                                         *)
(* One bucket is modelled: buckets share nothing.  A key's two minutes of  *)
(* life in Redis outlast every charge to its window.  The names allow the  *)
(* module to be extended together with Admission, which a request of an AI *)
(* endpoint has passed before it is charged here.                          *)
(***************************************************************************)
EXTENDS Naturals, Servers

CONSTANTS
  Tokens,         \* the estimated sizes of the requests
  MaxPerRequest,  \* settings.max_tokens_per_request
  MaxPerMinute,   \* settings.max_tokens_per_minute, positive: 0 means no limit
  Minute,         \* ticks of the clock in a window
  MaxTime,        \* bound: the last tick
  MaxCharges,     \* bound: charges begun
  MaxFaults,      \* bound: errors of Redis
  MaxRestarts     \* bound: restarts of a process

ASSUME SizeAssumption ==
  /\ Tokens \subseteq Nat \ {0}
  /\ {MaxPerRequest, MaxPerMinute, Minute} \subseteq Nat \ {0}
ASSUME BoundAssumption == {MaxTime, MaxCharges, MaxFaults, MaxRestarts} \subseteq Nat

VARIABLES
  redis,      \* settings.redis_url is set, as read when the server started
  now,        \* the clock
  counter,    \* Redis: tokens charged per window
  bucket,     \* memory of each process: tokens admitted per window
  job,        \* the charge each handler has under way
  granted,    \* history: tokens let through per window
  charges, faults, restarts   \* how many so far

budgetVars == <<redis, now, counter, bucket, job, granted, charges, faults, restarts>>

WindowOf(t) == t \div Minute
Window == 0..WindowOf(MaxTime)

NoCharge == [at |-> "idle", tokens |-> 0, window |-> 0, used |-> 0]
Job  == [at : {"idle", "incrby", "expire"}, tokens : Nat, window : Window, used : Nat]

BudgetTypeOK ==
  /\ redis \in BOOLEAN
  /\ now \in 0..MaxTime
  /\ counter \in [Window -> Nat]
  /\ bucket \in [Process -> [Window -> Nat]]
  /\ job \in [Handler -> Job]
  /\ granted \in [Window -> Nat]
  /\ charges \in 0..MaxCharges
  /\ faults \in 0..MaxFaults /\ restarts \in 0..MaxRestarts

BudgetInit ==
  /\ redis \in BOOLEAN
  /\ now = 0
  /\ counter = [w \in Window |-> 0]
  /\ bucket = [p \in Process |-> [w \in Window |-> 0]]
  /\ job = [h \in Handler |-> NoCharge]
  /\ granted = [w \in Window |-> 0]
  /\ charges = 0 /\ faults = 0 /\ restarts = 0

-----------------------------------------------------------------------------
Grant(w, n) == granted' = [granted EXCEPT ![w] = @ + n]

Deny == UNCHANGED granted

\* Only the current and the previous window of a process are kept.
Kept(b) == [w \in Window |-> IF w + 1 < WindowOf(now) THEN 0 ELSE b[w]]

\* Mutant: the size of the request is left out of the comparison.
CountLocallyLate(p, n) ==
  LET w == WindowOf(now) IN
  IF bucket[p][w] > MaxPerMinute
    THEN Deny /\ bucket' = [bucket EXCEPT ![p] = Kept(bucket[p])]
    ELSE /\ Grant(w, n)
         /\ bucket' = [bucket EXCEPT ![p] = [Kept(bucket[p]) EXCEPT ![w] = @ + n]]

\* InMemoryTokenRateLimiter.is_allowed: nothing is charged to a refusal.
CountLocally(p, n) ==
  LET w == WindowOf(now) IN
  IF bucket[p][w] + n > MaxPerMinute
    THEN Deny /\ bucket' = [bucket EXCEPT ![p] = Kept(bucket[p])]
    ELSE /\ Grant(w, n)
         /\ bucket' = [bucket EXCEPT ![p] = [Kept(bucket[p]) EXCEPT ![w] = @ + n]]

\* A larger request is refused and charged nowhere.
Fits(n) == n <= MaxPerRequest

AskMemory(h, n) ==
  /\ ~redis /\ Fits(n)
  /\ charges < MaxCharges /\ charges' = charges + 1
  /\ CountLocally(Home[h], n)
  /\ UNCHANGED <<redis, now, counter, job, faults, restarts>>

\* Mutant: the charge is filed under the second, not under its window.
AskRedisBySecond(h, n) ==
  /\ redis /\ Fits(n) /\ job[h].at = "idle"
  /\ charges < MaxCharges /\ charges' = charges + 1
  /\ job' = [job EXCEPT ![h] = [NoCharge EXCEPT !.at = "incrby", !.tokens = n, !.window = now]]
  /\ UNCHANGED <<redis, now, counter, bucket, granted, faults, restarts>>

AskRedis(h, n) ==
  /\ redis /\ Fits(n) /\ job[h].at = "idle"
  /\ charges < MaxCharges /\ charges' = charges + 1
  /\ job' = [job EXCEPT ![h] = [NoCharge EXCEPT !.at = "incrby", !.tokens = n,
                                            !.window = WindowOf(now)]]
  /\ UNCHANGED <<redis, now, counter, bucket, granted, faults, restarts>>

Charged(h) == [counter EXCEPT ![job[h].window] = @ + job[h].tokens]

IncrBy(h) ==
  /\ job[h].at = "incrby"
  /\ counter' = Charged(h)
  /\ job' = [job EXCEPT ![h].at = "expire", ![h].used = counter'[job[h].window]]
  /\ UNCHANGED <<redis, now, bucket, granted, charges, faults, restarts>>

\* Mutant: the counter is compared as it was before the charge.
DecideEarly(h) ==
  /\ job[h].at = "expire"
  /\ IF job[h].used > MaxPerMinute + job[h].tokens
       THEN Deny
       ELSE Grant(job[h].window, job[h].tokens)
  /\ job' = [job EXCEPT ![h] = NoCharge]
  /\ UNCHANGED <<redis, now, counter, bucket, charges, faults, restarts>>

\* EXPIRE succeeds and the value INCRBY returned decides.
Decide(h) ==
  /\ job[h].at = "expire"
  /\ IF job[h].used > MaxPerMinute
       THEN Deny
       ELSE Grant(job[h].window, job[h].tokens)
  /\ job' = [job EXCEPT ![h] = NoCharge]
  /\ UNCHANGED <<redis, now, counter, bucket, charges, faults, restarts>>

\* Redis fails, the charge applied or not: the process counts instead, in the
\* window it is by then.
FallBack(h, applied) ==
  /\ job[h].at # "idle"
  /\ applied => job[h].at = "incrby"
  /\ faults < MaxFaults /\ faults' = faults + 1
  /\ counter' = IF applied THEN Charged(h) ELSE counter
  /\ CountLocally(Home[h], job[h].tokens)
  /\ job' = [job EXCEPT ![h] = NoCharge]
  /\ UNCHANGED <<redis, now, charges, restarts>>

Tick ==
  /\ now < MaxTime
  /\ now' = now + 1
  /\ UNCHANGED <<redis, counter, bucket, job, granted, charges, faults, restarts>>

\* A process starts again with an empty memory; its handlers are gone.
Restart(p) ==
  /\ restarts < MaxRestarts /\ restarts' = restarts + 1
  /\ bucket' = [bucket EXCEPT ![p] = [w \in Window |-> 0]]
  /\ job' = [h \in Handler |-> IF Home[h] = p THEN NoCharge ELSE job[h]]
  /\ UNCHANGED <<redis, now, counter, granted, charges, faults>>

BudgetNext ==
  \/ \E h \in Handler : \/ \E n \in Tokens : AskMemory(h, n) \/ AskRedis(h, n)
                        \/ IncrBy(h) \/ Decide(h)
                        \/ \E applied \in BOOLEAN : FallBack(h, applied)
  \/ Tick
  \/ \E p \in Process : Restart(p)

BudgetSpec == BudgetInit /\ [][BudgetNext]_budgetVars

-----------------------------------------------------------------------------
\* The lives of processes, each of which may count a budget of its own, and the
\* budgets handed out: without Redis every life counts, with it one budget is
\* shared and a failure makes one life count for itself.
Lives == Cardinality(Process) + restarts

Budgets ==
  IF ~redis THEN Lives ELSE 1 + (IF faults < Lives THEN faults ELSE Lives)

\* Whatever fails and restarts, a window lets through one budget per counter in
\* use, and exactly one while Redis answers (limits.py, 33-57; main.py, 195-212).
BudgetHolds == \A w \in Window : granted[w] <= MaxPerMinute * Budgets
=============================================================================
