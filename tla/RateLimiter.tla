----------------------------- MODULE RateLimiter -----------------------------
(***************************************************************************)
(* Requests per minute: the limiter part of RateLimitMiddleware.dispatch   *)
(* (app/main.py) over the sliding windows of app/security.py.  The window  *)
(* in memory is a deque that one process reads and writes without an       *)
(* await.  The window in Redis is a sorted set that a request stamps with  *)
(* the time read before the call, trims, joins and counts in one           *)
(* transaction, reading the oldest entry in a second call if it is one too *)
(* many.  Any error of Redis falls back to the process's own window.       *)
(*                                                                         *)
(* A bucket is named by the label of the key.  Time runs in ticks; no two  *)
(* readings of the clock are the same float, so a sorted set holds one     *)
(* member per request, and requests are told apart by their place in the   *)
(* log of calls.  A deque is filled in the order of its stamps: the old    *)
(* entries that are popped from its left are all the old ones.             *)
(***************************************************************************)
EXTENDS Integers, Sequences, FiniteSetsExt, Servers

CONSTANTS
  Client,       \* API keys
  Bucket, Label,\* key_label, "db:" and the name the key was given, is a bucket
  Limit,        \* rate_limit_per_minute of each key
  Window,       \* ticks of window_seconds
  Second,       \* ticks of a second
  MaxDelay,     \* bound: ticks from a request's stamp to its decision
  MaxTime,      \* bound: the last tick
  MaxCalls,     \* bound: requests
  MaxCallsOf,   \* bound: requests with each key
  MaxFaults,    \* bound: errors of Redis
  MaxRestarts   \* bound: restarts of a process

ASSUME ClientAssumption ==
  /\ Label \in [Client -> Bucket]
  /\ Limit \in [Client -> Nat \ {0}] /\ MaxCallsOf \in [Client -> Nat]
ASSUME TimeAssumption ==
  /\ {Window, Second} \subseteq Nat \ {0}
  /\ MaxDelay \in Nat /\ MaxDelay < Window
ASSUME BoundAssumption == {MaxTime, MaxCalls, MaxFaults, MaxRestarts} \subseteq Nat

VARIABLES
  redis,    \* settings.redis_url is set, as read when the server started
  now,      \* the clock
  life,     \* history: the restart after which each process runs, 0 for none
  events,   \* memory of each process: the admitted calls per bucket
  zset,     \* Redis: the members of each bucket, by their call
  job,      \* how far each handler's call of Redis is, and for which call
  log,      \* history: every call, its stamp and what became of it
  faults, restarts   \* how many so far

vars == <<redis, now, life, events, zset, job, log, faults, restarts>>

Time   == 0..MaxTime
CallId == 1..MaxCalls
\* A call is admitted "shared", by the window in Redis, or "local", by the one of
\* its process, which has stamped it by then.
Call   == [client : Client, process : Process, life : 0..MaxRestarts, time : Time,
           stamp : Time, retry : Nat,
           fate : {"pending", "shared", "local", "refused", "lost"}]
Idle   == [at |-> "idle", call |-> 0]
Job    == [at : {"idle", "transaction", "oldest"}, call : 0..MaxCalls]

TypeOK ==
  /\ redis \in BOOLEAN
  /\ now \in Time
  /\ life \in [Process -> 0..restarts]
  /\ events \in [Process -> [Bucket -> SUBSET DOMAIN log]]
  /\ zset \in [Bucket -> SUBSET DOMAIN log]
  /\ job \in [Handler -> Job]
  /\ \A h \in Handler : job[h].at # "idle" => /\ job[h].call \in DOMAIN log
                                              /\ log[job[h].call].fate = "pending"
  /\ log \in Seq(Call) /\ Len(log) <= MaxCalls
  /\ faults \in 0..MaxFaults /\ restarts \in 0..MaxRestarts

Init ==
  /\ redis \in BOOLEAN
  /\ now = 0
  /\ life = [p \in Process |-> 0]
  /\ events = [p \in Process |-> [b \in Bucket |-> {}]]
  /\ zset = [b \in Bucket |-> {}]
  /\ job = [h \in Handler |-> Idle]
  /\ log = <<>>
  /\ faults = 0 /\ restarts = 0

-----------------------------------------------------------------------------
Arrived(h, c) ==
  [client |-> c, process |-> Home[h], life |-> life[Home[h]], time |-> now,
   stamp |-> now, retry |-> 0, fate |-> "pending"]

MayCall(c) ==
  /\ Len(log) < MaxCalls
  /\ Cardinality({i \in DOMAIN log : log[i].client = c}) < MaxCallsOf[c]

\* Mutant: the age of the oldest entry in place of what it has left.
RefusedByAge(call, clock, oldest) ==
  [call EXCEPT !.fate = "refused",
               !.retry = Max({1, (clock - oldest) \div Second})]

\* Retry-After is the time until the oldest entry leaves the window, in whole
\* seconds rounded down, and at least one.
Refused(call, clock, oldest) ==
  [call EXCEPT !.fate = "refused",
               !.retry = Max({1, (oldest + Window - clock) \div Second})]

\* Mutant: old entries stay in the deque.
KeptForever(p, b) == events[p][b]

\* An entry exactly window_seconds old stays.
Kept(p, b) == {i \in events[p][b] : log[i].stamp + Window >= now}

\* InMemoryRateLimiter.is_allowed of the call's process, in three parts: the
\* decision, what becomes of the call and what becomes of the deque.
HasRoom(call) ==
  Cardinality(Kept(call.process, Label[call.client])) < Limit[call.client]

Counted(call) ==
  IF HasRoom(call)
    THEN [call EXCEPT !.fate = "local", !.stamp = now]
    ELSE Refused(call, now, Min({log[j].stamp : j \in Kept(call.process, Label[call.client])}))

EventsWith(call, i) ==
  [events EXCEPT ![call.process][Label[call.client]] =
     Kept(call.process, Label[call.client]) \cup (IF HasRoom(call) THEN {i} ELSE {})]

CallMemory(h, c) ==
  /\ ~redis
  /\ MayCall(c)
  /\ events' = EventsWith(Arrived(h, c), Len(log) + 1)
  /\ log' = Append(log, Counted(Arrived(h, c)))
  /\ UNCHANGED <<redis, now, life, zset, job, faults, restarts>>

CallRedis(h, c) ==
  /\ redis /\ job[h].at = "idle"
  /\ MayCall(c)
  /\ log' = Append(log, Arrived(h, c))
  /\ job' = [job EXCEPT ![h] = [at |-> "transaction", call |-> Len(log) + 1]]
  /\ UNCHANGED <<redis, now, life, events, zset, faults, restarts>>

-----------------------------------------------------------------------------
Mine(h)   == log[job[h].call]
Shelf(h)  == Label[Mine(h).client]

\* zremrangebyscore, with the stamp of the request, and zadd.
Joined(h) ==
  {i \in zset[Shelf(h)] : log[i].time + Window > Mine(h).time} \cup {job[h].call}

\* Mutant: the request does not count itself.
TransactAsLast(h) ==
  /\ job[h].at = "transaction"
  /\ zset' = [zset EXCEPT ![Shelf(h)] = Joined(h)]
  /\ IF Cardinality(Joined(h)) > Limit[Mine(h).client] + 1
       THEN job' = [job EXCEPT ![h].at = "oldest"] /\ UNCHANGED log
       ELSE /\ job' = [job EXCEPT ![h] = Idle]
            /\ log' = [log EXCEPT ![job[h].call].fate = "shared"]
  /\ UNCHANGED <<redis, now, life, events, faults, restarts>>

\* The transaction: the request is counted whether it is admitted or not.
Transact(h) ==
  /\ job[h].at = "transaction"
  /\ zset' = [zset EXCEPT ![Shelf(h)] = Joined(h)]
  /\ IF Cardinality(Joined(h)) > Limit[Mine(h).client]
       THEN job' = [job EXCEPT ![h].at = "oldest"] /\ UNCHANGED log
       ELSE /\ job' = [job EXCEPT ![h] = Idle]
            /\ log' = [log EXCEPT ![job[h].call].fate = "shared"]
  /\ UNCHANGED <<redis, now, life, events, faults, restarts>>

\* zrange: the set still holds at least the request itself.
ReadOldest(h) ==
  /\ job[h].at = "oldest"
  /\ LET oldest == Min({log[i].time : i \in zset[Shelf(h)]})
     IN log' = [log EXCEPT ![job[h].call] = Refused(@, @.time, oldest)]
  /\ job' = [job EXCEPT ![h] = Idle]
  /\ UNCHANGED <<redis, now, life, events, zset, faults, restarts>>

\* Redis fails, the transaction applied or not; the process decides instead,
\* also for a request that Redis had counted as one too many.
FallBack(h, applied) ==
  /\ job[h].at # "idle"
  /\ applied => job[h].at = "transaction"
  /\ faults < MaxFaults /\ faults' = faults + 1
  /\ zset' = IF applied THEN [zset EXCEPT ![Shelf(h)] = Joined(h)] ELSE zset
  /\ events' = EventsWith(Mine(h), job[h].call)
  /\ log' = [log EXCEPT ![job[h].call] = Counted(@)]
  /\ job' = [job EXCEPT ![h] = Idle]
  /\ UNCHANGED <<redis, now, life, restarts>>

Tick ==
  /\ now < MaxTime
  /\ \A h \in Handler : job[h].at # "idle" => now < Mine(h).time + MaxDelay
  /\ now' = now + 1
  /\ UNCHANGED <<redis, life, events, zset, job, log, faults, restarts>>

\* Mutant: requests outlive their process.
RestartKeepingJobs(p) ==
  /\ restarts < MaxRestarts /\ restarts' = restarts + 1
  /\ events' = [events EXCEPT ![p] = [b \in Bucket |-> {}]]
  /\ life' = [life EXCEPT ![p] = restarts']
  /\ LET lost == {job[h].call : h \in {g \in Handler : Home[g] = p}}
     IN log' = [i \in DOMAIN log |->
                  IF i \in lost THEN [log[i] EXCEPT !.fate = "lost"] ELSE log[i]]
  /\ UNCHANGED <<redis, now, zset, job, faults>>

\* A process starts again with empty windows; its requests get no answer.
Restart(p) ==
  /\ restarts < MaxRestarts /\ restarts' = restarts + 1
  /\ events' = [events EXCEPT ![p] = [b \in Bucket |-> {}]]
  /\ life' = [life EXCEPT ![p] = restarts']
  /\ LET lost == {job[h].call : h \in {g \in Handler : Home[g] = p}}
     IN log' = [i \in DOMAIN log |->
                  IF i \in lost THEN [log[i] EXCEPT !.fate = "lost"] ELSE log[i]]
  /\ job' = [h \in Handler |-> IF Home[h] = p THEN Idle ELSE job[h]]
  /\ UNCHANGED <<redis, now, zset, faults>>

Next ==
  \/ \E h \in Handler : \/ \E c \in Client : CallMemory(h, c) \/ CallRedis(h, c)
                        \/ Transact(h) \/ ReadOldest(h)
                        \/ \E applied \in BOOLEAN : FallBack(h, applied)
  \/ Tick
  \/ \E p \in Process : Restart(p)

Spec == Init /\ [][Next]_vars

-----------------------------------------------------------------------------
Lives == Cardinality(Process) + restarts

\* The windows that may each have admitted their limit: one per life of a
\* process without Redis; with it, the shared one and one per failure.
Windows == IF ~redis THEN Lives ELSE 1 + (IF faults < Lives THEN faults ELSE Lives)

Throughput(b, from, to) ==
  {i \in DOMAIN log : /\ log[i].fate \in {"shared", "local"} /\ Label[log[i].client] = b
                      /\ log[i].time \in from..to}

\* No key of the bucket has a larger limit.
HasTopLimit(c) == \A d \in Client : Label[d] = Label[c] => Limit[d] <= Limit[c]

\* Without Redis a call is decided when it arrives; with it, requests may be
\* counted in another order than they arrived in.
Delay == IF redis THEN MaxDelay ELSE 0
Stretch == IF redis THEN Window - MaxDelay - 1 ELSE Window

\* In no stretch of a window's length, less the time a call of Redis may take,
\* does a bucket admit more than its limit once per window in use (security.py,
\* 17-61; main.py, 463-482): exactly the limit while Redis answers.
WindowHolds ==
  \A c \in Client : \A t \in Time :
    HasTopLimit(c) =>
      Cardinality(Throughput(Label[c], t, t + Stretch)) <= Limit[c] * Windows

Neighbours(i) ==
  {j \in DOMAIN log \ {i} : /\ Label[log[j].client] = Label[log[i].client]
                            /\ log[j].time <= log[i].time + Delay
                            /\ log[i].time <= log[j].time + Window + Delay}

\* A refusal always has a full window of other calls around it, through any
\* failure of Redis and any restart: entries are not counted after their time.
RefusedOnlyWhenCrowded ==
  \A i \in DOMAIN log :
    log[i].fate = "refused" => Cardinality(Neighbours(i)) >= Limit[log[i].client]

\* Client of call j tries again after its refusal i, at the same process, with no
\* call of its bucket in between.
Retries(i, j) ==
  /\ i < j /\ log[i].fate = "refused"
  /\ log[j].client = log[i].client /\ log[j].process = log[i].process
  /\ \A k \in i + 1 .. j - 1 : Label[log[k].client] # Label[log[i].client]

\* Earlier calls with a larger limit.
Outranking(i) ==
  {k \in 1..i : /\ Label[log[k].client] = Label[log[i].client]
                /\ Limit[log[k].client] > Limit[log[i].client]}

\* Without Redis, which counts what it refuses, a client that waits one second
\* longer than Retry-After says is admitted by the process that refused it, with
\* a restart of the process in between or without (security.py, 28-30), unless
\* another key with a larger limit has used the bucket: then more than one entry
\* may have to leave first.
RetryNeedsOneMoreSecond ==
  \A i, j \in DOMAIN log :
    (/\ ~redis /\ Retries(i, j) /\ Outranking(i) = {}
     /\ log[j].time >= log[i].time + (log[i].retry + 1) * Second)
      => log[j].fate = "local"
=============================================================================
