--------------------------- MODULE RateLimiterProofs ---------------------------
(***************************************************************************)
(* The properties of RateLimiter hold in every instance of it.  The        *)
(* inductive invariant says what the windows remember: each deque every    *)
(* call its process admitted in its present life, each sorted set every    *)
(* call counted in Redis, until their time is over.  A call that a window  *)
(* admits is then one of at most its limit in any stretch around it, and   *)
(* the calls of a stretch are divided among the windows.                   *)
(***************************************************************************)
EXTENDS RateLimiter, FiniteSetTheorems, SequenceTheorems, TLAPS

\* The request in a handler is that handler's own, arrived in the present life of
\* its process, and not longer under way than a call of Redis takes.
JobsOwn ==
  \A h \in Handler :
    /\ job[h].at = "idle" => job[h] = Idle
    /\ job[h].at # "idle" =>
         /\ redis
         /\ Mine(h).process = Home[h] /\ Mine(h).life = life[Home[h]]
         /\ now <= Mine(h).time + MaxDelay
         /\ \A g \in Handler : job[g].call = job[h].call => g = h

\* The times of a call are in order, and it arrived in a life there has been.
Clocked ==
  \A i \in DOMAIN log :
    /\ log[i].time <= now /\ log[i].life <= restarts
    /\ log[i].fate = "shared" => redis
    /\ log[i].fate = "local" => /\ log[i].time <= log[i].stamp /\ log[i].stamp <= now
                                /\ log[i].stamp <= log[i].time + Delay

\* What a deque and a sorted set hold is theirs.
DequesHold ==
  \A p \in Process, b \in Bucket : \A i \in events[p][b] :
    /\ log[i].fate = "local" /\ Label[log[i].client] = b
    /\ log[i].process = p /\ log[i].life = life[p]
ZsetsHold == \A b \in Bucket : \A i \in zset[b] : Label[log[i].client] = b

\* Calls that went through the transaction and count in Redis.
Waiting(i) == \E h \in Handler : job[h].at = "oldest" /\ job[h].call = i
Filed(i)   == log[i].fate = "shared" \/ Waiting(i)

\* No counted call is dropped before its time.
DequesRemember ==
  \A i \in DOMAIN log :
    /\ log[i].fate = "local" /\ log[i].life = life[log[i].process]
    /\ log[i].stamp + Window >= now
    => i \in events[log[i].process][Label[log[i].client]]
ZsetsRemember ==
  \A i \in DOMAIN log :
    Filed(i) /\ log[i].time + Window > now => i \in zset[Label[log[i].client]]

Base == /\ TypeOK /\ JobsOwn /\ Clocked /\ DequesHold /\ ZsetsHold
        /\ DequesRemember /\ ZsetsRemember

\* A life after a restart is the life of one process.
LivesApart ==
  /\ \A p, q \in Process : life[p] = life[q] /\ life[p] # 0 => p = q
  /\ \A i \in DOMAIN log : \A p \in Process :
       log[i].life = life[p] /\ life[p] # 0 => log[i].process = p
  /\ \A i, j \in DOMAIN log :
       log[i].life = log[j].life /\ log[i].life # 0 => log[i].process = log[j].process

\* What each window has admitted in a stretch of time.
LocalIn(p, n, b, t) ==
  {i \in DOMAIN log : /\ log[i].fate = "local" /\ Label[log[i].client] = b
                      /\ log[i].process = p /\ log[i].life = n
                      /\ log[i].time \in t..t + Stretch}
SharedIn(b, t) ==
  {i \in DOMAIN log : /\ log[i].fate = "shared" /\ Label[log[i].client] = b
                      /\ log[i].time \in t..t + Stretch}
LocalBelow ==
  \A c \in Client, p \in Process, n \in 0..MaxRestarts, t \in Time :
    HasTopLimit(c) => Cardinality(LocalIn(p, n, Label[c], t)) <= Limit[c]
SharedBelow ==
  \A c \in Client, t \in Time :
    HasTopLimit(c) => Cardinality(SharedIn(Label[c], t)) <= Limit[c]

\* With Redis, a process decides for itself once per error.
LocalLives == {<<log[i].process, log[i].life>> :
                 i \in {j \in DOMAIN log : log[j].fate = "local"}}
FewLocal == redis => Cardinality(LocalLives) <= faults

\* What is refused was counted as one too many.
Crowded ==
  \A i \in DOMAIN log :
    (log[i].fate = "refused" \/ Waiting(i))
      => Cardinality(Neighbours(i)) >= Limit[log[i].client]

\* A deque is no longer than the largest limit that has used it.
DequeBelow ==
  \A p \in Process, b \in Bucket, c \in Client :
    (\A i \in DOMAIN log : Label[log[i].client] = b => Limit[log[i].client] <= Limit[c])
      => Cardinality(events[p][b]) <= Limit[c]

\* Once the time a refusal names is over, its deque has room, until the bucket
\* is used again.
StillThere(i) ==
  {k \in events[log[i].process][Label[log[i].client]] :
     log[k].stamp + Window >= log[i].time + (log[i].retry + 1) * Second}
RoomAfter ==
  ~redis => \A i \in DOMAIN log :
    /\ log[i].fate = "refused" /\ Outranking(i) = {}
    /\ \A k \in DOMAIN log : k > i => Label[log[k].client] # Label[log[i].client]
    => Cardinality(StillThere(i)) < Limit[log[i].client]

IInv == /\ Base /\ LivesApart /\ LocalBelow /\ SharedBelow /\ FewLocal
        /\ Crowded /\ DequeBelow /\ RoomAfter /\ RetryNeedsOneMoreSecond

-----------------------------------------------------------------------------
(* Numbers and finite sets. *)

\* Two numbers have a larger one.
LEMMA MaxOfTwo ==
  ASSUME NEW a \in Int, NEW b \in Int
  PROVE  Max({a, b}) = IF a >= b THEN a ELSE b
<1> DEFINE m == IF a >= b THEN a ELSE b
<1>1. \E x \in {a, b} : \A y \in {a, b} : x >= y
  <2>1. m \in {a, b} /\ \A y \in {a, b} : m >= y
    OBVIOUS
  <2> QED
    BY <2>1
<1>2. Max({a, b}) \in {a, b} /\ \A y \in {a, b} : Max({a, b}) >= y
  BY <1>1 DEF Max
<1> QED
  BY <1>2

\* A set of numbers has a smallest one.
LEMMA MinOfSet ==
  ASSUME NEW S \in SUBSET Nat, S # {}
  PROVE  Min(S) \in S /\ \A y \in S : Min(S) <= y
<1> DEFINE Below == OpToRel(<, Nat)
<1>1. \A x, y \in Nat : y < x => <<y, x>> \in Below
  BY DEF OpToRel
<1>2. IsWellFoundedOn(Below, Nat)
  BY NatLessThanWellFounded
<1> HIDE DEF Below
<1>3. PICK x \in S : \A y \in S : ~ (<<y, x>> \in Below)
  BY <1>2, WFMin
<1>4. ASSUME NEW y \in S PROVE x <= y
  <2>1. x \in Nat /\ y \in Nat
    OBVIOUS
  <2>2. ~(y < x)
    BY <1>1, <1>3, <2>1
  <2> QED
    BY <2>1, <2>2
<1> QED
  BY <1>4 DEF Min

\* What is left of a division is less than the divisor.
LEMMA Division ==
  ASSUME NEW x \in Int, NEW d \in Nat \ {0}
  PROVE  x \div d \in Int /\ x < (x \div d + 1) * d
OBVIOUS

\* A set is at most as large as the places its elements are kept in, times what
\* each place holds.
LEMMA Pigeons ==
  ASSUME NEW T \in SUBSET Nat, IsFiniteSet(T), NEW C, IsFiniteSet(C), NEW f \in [T -> C],
         NEW m \in Nat, \A c \in C : Cardinality({i \in T : f[i] = c}) <= m
  PROVE  Cardinality(T) <= m * Cardinality(C)
<1> DEFINE Up(i) == {j \in T : f[j] = f[i] /\ j <= i}
           g == [i \in T |-> <<f[i], Cardinality(Up(i))>>]
<1>1. ASSUME NEW i \in T
      PROVE  IsFiniteSet(Up(i)) /\ Cardinality(Up(i)) \in 1..m
  <2>1. Up(i) \in SUBSET {j \in T : f[j] = f[i]}
    OBVIOUS
  <2>2. IsFiniteSet({j \in T : f[j] = f[i]})
    BY FS_Subset
  <2>3. IsFiniteSet(Up(i)) /\ Cardinality(Up(i)) <= Cardinality({j \in T : f[j] = f[i]})
    BY <2>1, <2>2, FS_Subset
  <2>4. Cardinality(Up(i)) # 0
    <3>1. i \in Up(i)
      OBVIOUS
    <3> QED
      BY <2>3, <3>1, FS_EmptySet
  <2>5. Cardinality(Up(i)) \in Nat /\ Cardinality({j \in T : f[j] = f[i]}) \in Nat
    BY <2>2, <2>3, FS_CardinalityType
  <2> QED
    BY <2>3, <2>4, <2>5
<1>2. ASSUME NEW i \in T, NEW j \in T, f[i] = f[j], i < j
      PROVE  Cardinality(Up(i)) < Cardinality(Up(j))
  <2>1. Up(i) \in SUBSET Up(j) /\ j \in Up(j) /\ j \notin Up(i)
    <3>1. i \in Nat /\ j \in Nat /\ \A k \in T : k \in Nat
      OBVIOUS
    <3>2. \A k \in Up(i) : k \in Up(j)
      BY <1>2, <3>1
    <3>3. j \in Up(j) /\ ~(j \in Up(i))
      BY <1>2, <3>1
    <3> QED
      BY <3>2, <3>3
  <2>2. Up(i) # Up(j)
    BY <2>1
  <2>3. IsFiniteSet(Up(j)) /\ Cardinality(Up(i)) \in Nat /\ Cardinality(Up(j)) \in Nat
    BY <1>1
  <2>4. Cardinality(Up(i)) <= Cardinality(Up(j))  /\ Cardinality(Up(i)) # Cardinality(Up(j))
    <3> HIDE DEF Up
    <3> QED
      BY <2>1, <2>2, <2>3, FS_Subset
  <2> QED
    BY <2>3, <2>4
<1>3. g \in Injection(T, C \X (1..m))
  <2>1. g \in [T -> C \X (1..m)]
    BY <1>1
  <2>2. ASSUME NEW i \in T, NEW j \in T, g[i] = g[j] PROVE i = j
    <3>1. f[i] = f[j] /\ Cardinality(Up(i)) = Cardinality(Up(j))
      BY <2>2
    <3>2. Cardinality(Up(i)) \in Nat /\ Cardinality(Up(j)) \in Nat
      BY <1>1
    <3>3. ~(i < j) /\ ~(j < i)
      BY <1>2, <3>1, <3>2
    <3> QED
      BY <3>3
  <2> QED
    BY <2>1, <2>2 DEF Injection, IsInjective
<1>4. IsFiniteSet(C \X (1..m)) /\ Cardinality(C \X (1..m)) = Cardinality(C) * m
  <2>1. IsFiniteSet(1..m) /\ Cardinality(1..m) = m
    BY FS_Interval
  <2> QED
    BY <2>1, FS_Product
<1>5. Cardinality(T) <= Cardinality(C \X (1..m))
  <2> HIDE DEF g
  <2> QED
    BY <1>3, <1>4, FS_Injection
<1> QED
  BY <1>4, <1>5, FS_CardinalityType

-----------------------------------------------------------------------------
(* The log of calls. *)

\* The constants are numbers.
LEMMA Constants ==
  /\ Window \in Nat \ {0} /\ Second \in Nat \ {0} /\ MaxDelay \in Nat /\ MaxDelay < Window
  /\ MaxTime \in Nat /\ MaxCalls \in Nat /\ MaxFaults \in Nat /\ MaxRestarts \in Nat
  /\ \A c \in Client : Label[c] \in Bucket /\ Limit[c] \in Nat \ {0}
  /\ \A h \in Handler : Home[h] \in Process
BY ClientAssumption, HomeAssumption, TimeAssumption, BoundAssumption

\* The log numbers its calls, each with its key, its process and its times.
LEMMA LogShape ==
  ASSUME TypeOK
  PROVE  /\ Len(log) \in Nat /\ Len(log) <= MaxCalls /\ DOMAIN log = 1..Len(log)
         /\ IsFiniteSet(DOMAIN log) /\ DOMAIN log \subseteq Nat
         /\ \A i \in DOMAIN log :
              /\ log[i] \in Call
              /\ log[i].client \in Client /\ log[i].process \in Process
              /\ log[i].life \in 0..MaxRestarts /\ log[i].life \in Nat
              /\ log[i].time \in Nat /\ log[i].stamp \in Nat /\ log[i].retry \in Nat
              /\ Label[log[i].client] \in Bucket /\ Limit[log[i].client] \in Nat \ {0}
<1>1. log \in Seq(Call) /\ Len(log) <= MaxCalls
  BY DEF TypeOK
<1>2. Len(log) \in Nat /\ DOMAIN log = 1..Len(log) /\ \A i \in DOMAIN log : log[i] \in Call
  BY <1>1, LenProperties, ElementOfSeq
<1>3. IsFiniteSet(DOMAIN log)
  BY <1>2, FS_Interval
<1> QED
  BY <1>1, <1>2, <1>3, Constants DEF Call, Time

\* A call that arrives is put at the end.
LEMMA LogGrows ==
  ASSUME TypeOK, NEW e \in Call, log' = Append(log, e)
  PROVE  /\ log' \in Seq(Call) /\ Len(log') = Len(log) + 1
         /\ DOMAIN log' = DOMAIN log \cup {Len(log) + 1} /\ Len(log) + 1 \notin DOMAIN log
         /\ log'[Len(log) + 1] = e /\ \A i \in DOMAIN log : log'[i] = log[i]
<1>1. log \in Seq(Call) /\ Len(log) \in Nat /\ DOMAIN log = 1..Len(log)
  BY LogShape DEF TypeOK
<1>2. /\ log' \in Seq(Call) /\ Len(log') = Len(log) + 1
      /\ log'[Len(log) + 1] = e /\ \A i \in 1..Len(log) : log'[i] = log[i]
  BY <1>1
<1>3. DOMAIN log' = 1..Len(log')
  BY <1>2, LenProperties
<1> QED
  BY <1>1, <1>2, <1>3

\* A call that is decided stays where it is.
LEMMA LogSettles ==
  ASSUME TypeOK, NEW j \in DOMAIN log, NEW e \in Call, log' = [log EXCEPT ![j] = e]
  PROVE  /\ log' \in Seq(Call) /\ Len(log') = Len(log) /\ DOMAIN log' = DOMAIN log
         /\ log'[j] = e /\ \A i \in DOMAIN log \ {j} : log'[i] = log[i]
<1>1. log \in Seq(Call) /\ Len(log) \in Nat /\ DOMAIN log = 1..Len(log)
  BY LogShape DEF TypeOK
<1>2. log' \in Seq(Call) /\ Len(log') = Len(log)
  BY <1>1, ExceptSeq
<1> QED
  BY <1>1, <1>2

\* The calls that a restart loses, too.
LEMMA LogLoses ==
  ASSUME TypeOK, NEW L,
         log' = [i \in DOMAIN log |-> IF i \in L THEN [log[i] EXCEPT !.fate = "lost"] ELSE log[i]]
  PROVE  /\ log' \in Seq(Call) /\ Len(log') = Len(log) /\ DOMAIN log' = DOMAIN log
         /\ \A i \in DOMAIN log : log'[i] = IF i \in L THEN [log[i] EXCEPT !.fate = "lost"] ELSE log[i]
<1>1. Len(log) \in Nat /\ DOMAIN log = 1..Len(log)
  BY LogShape
<1>2. \A i \in DOMAIN log : log'[i] \in Call
  BY LogShape DEF Call
<1>3. log' \in [1..Len(log) -> Call]
  BY <1>1, <1>2
<1>4. log' \in Seq(Call)
  BY <1>1, <1>3, SeqDef
<1>5. Len(log') \in Nat /\ DOMAIN log' = 1..Len(log')
  BY <1>4, LenProperties
<1> QED
  BY <1>1, <1>3, <1>4, <1>5

-----------------------------------------------------------------------------
(* The decision of a process. *)

\* What a deque keeps is calls that its process admitted.
LEMMA KeptShape ==
  ASSUME Base, NEW p \in Process, NEW b \in Bucket
  PROVE  /\ events[p][b] \subseteq DOMAIN log /\ IsFiniteSet(events[p][b])
         /\ Kept(p, b) \subseteq events[p][b] /\ IsFiniteSet(Kept(p, b))
         /\ Cardinality(Kept(p, b)) \in Nat /\ Cardinality(events[p][b]) \in Nat
         /\ \A j \in Kept(p, b) :
              /\ log[j].stamp \in Nat /\ log[j].stamp + Window >= now /\ log[j].stamp <= now
<1>1. events[p][b] \subseteq DOMAIN log
  BY DEF Base, TypeOK
<1>2. IsFiniteSet(events[p][b])
  BY <1>1, LogShape, FS_Subset DEF Base
<1>3. Kept(p, b) \subseteq events[p][b]
  BY DEF Kept
<1>4. IsFiniteSet(Kept(p, b))
  BY <1>2, <1>3, FS_Subset
<1>5. \A j \in Kept(p, b) :
        /\ log[j].stamp \in Nat /\ log[j].stamp + Window >= now /\ log[j].stamp <= now
  BY <1>1, <1>3, LogShape DEF Kept, Base, DequesHold, Clocked
<1> QED
  BY <1>1, <1>2, <1>3, <1>4, <1>5, FS_CardinalityType

\* A process admits a call now or refuses it for no less than its oldest entry
\* has left, to the second.
LEMMA Decision ==
  ASSUME Base, NEW call \in Call
  PROVE  /\ Counted(call) \in Call
         /\ Counted(call).client = call.client /\ Counted(call).process = call.process
         /\ Counted(call).life = call.life /\ Counted(call).time = call.time
         /\ HasRoom(call) => Counted(call).fate = "local" /\ Counted(call).stamp = now
         /\ ~HasRoom(call) =>
              /\ Counted(call).fate = "refused" /\ Counted(call).retry \in Nat
              /\ \E j \in Kept(call.process, Label[call.client]) :
                   log[j].stamp + Window < now + (Counted(call).retry + 1) * Second
<1> DEFINE K == Kept(call.process, Label[call.client])
           S == {log[j].stamp : j \in K}
           left == Min(S) + Window - now
<1>0. /\ call.client \in Client /\ call.process \in Process /\ call.life \in 0..MaxRestarts
      /\ call.time \in Time /\ call.stamp \in Time /\ call.retry \in Nat
      /\ now \in Nat /\ now \in Time /\ Window \in Nat /\ Second \in Nat \ {0}
      /\ Label[call.client] \in Bucket /\ Limit[call.client] \in Nat \ {0}
  BY Constants DEF Call, Base, TypeOK, Time
<1>1. CASE HasRoom(call)
  <2>1. Counted(call) = [call EXCEPT !.fate = "local", !.stamp = now]
    BY <1>1 DEF Counted
  <2> QED
    BY <1>0, <1>1, <2>1 DEF Call
<1>2. CASE ~HasRoom(call)
  <2>1. Counted(call) = Refused(call, now, Min(S))
    BY <1>2 DEF Counted
  <2>2. K # {}
    <3>1. Cardinality(K) >= Limit[call.client]
      BY <1>0, <1>2, KeptShape DEF HasRoom
    <3> QED
      BY <1>0, <3>1, FS_EmptySet
  <2>3. S \in SUBSET Nat /\ S # {}
    BY <1>0, <2>2, KeptShape
  <2>4. PICK j \in K : log[j].stamp = Min(S)
    <3> HIDE DEF S
    <3>1. Min(S) \in S
      BY <2>3, MinOfSet
    <3> QED
      BY <3>1 DEF S
  <2>5. left \in Int /\ Min(S) \in Nat
    BY <1>0, <2>4, KeptShape
  <2> DEFINE rest == IF 1 >= left \div Second THEN 1 ELSE left \div Second
  <2>6. left \div Second \in Int /\ left < (left \div Second + 1) * Second
    <3> HIDE DEF left
    <3> QED
      BY <1>0, <2>5, Division
  <2>7. Max({1, left \div Second}) = rest
    <3> HIDE DEF left
    <3> QED
      BY <2>6, MaxOfTwo
  <2>8. Counted(call) = [call EXCEPT !.fate = "refused", !.retry = rest]
    BY <2>1, <2>7 DEF Refused
  <2>9. rest \in Nat /\ left < (rest + 1) * Second
    <3> HIDE DEF left
    <3>1. rest \in Int /\ rest >= 1 /\ rest >= left \div Second
      BY <2>6
    <3> DEFINE q == left \div Second
    <3> HIDE DEF rest, q
    <3>2. (rest + 1) * Second >= (q + 1) * Second
      <4>1. q \in Int /\ rest >= q
        BY <2>6, <3>1 DEF q
      <4>2. PICK e \in Nat : rest = q + e
        <5>1. rest - q \in Nat /\ rest = q + (rest - q)
          BY <3>1, <4>1
        <5> QED
          BY <5>1
      <4>3. (q + e + 1) * Second = (q + 1) * Second + e * Second /\ e * Second \in Nat
        BY <1>0, <4>1
      <4> QED
        BY <1>0, <4>1, <4>2, <4>3
    <3>3. left < (q + 1) * Second /\ q \in Int
      BY <2>6 DEF q
    <3>4. (q + 1) * Second \in Int /\ (rest + 1) * Second \in Int
      BY <1>0, <3>1, <3>3
    <3> QED
      BY <2>5, <3>1, <3>2, <3>3, <3>4
  <2>10. Counted(call) \in Call
    <3> HIDE DEF rest
    <3> QED
      BY <1>0, <2>8, <2>9 DEF Call
  <2>11. log[j].stamp + Window < now + (rest + 1) * Second
    <3>1. left = log[j].stamp + Window - now
      BY <2>4
    <3> HIDE DEF left, rest
    <3>2. (rest + 1) * Second \in Int /\ log[j].stamp \in Nat
      BY <1>0, <2>4, <2>5, <2>9
    <3> QED
      BY <1>0, <2>9, <3>1, <3>2
  <2> HIDE DEF rest
  <2>12. /\ Counted(call).client = call.client /\ Counted(call).process = call.process
         /\ Counted(call).life = call.life /\ Counted(call).time = call.time
         /\ Counted(call).fate = "refused" /\ Counted(call).retry = rest
    BY <2>8 DEF Call
  <2> QED
    BY <1>2, <2>4, <2>9, <2>10, <2>11, <2>12
<1> QED
  BY <1>1, <1>2

\* Call i is decided by its process: what CallMemory and FallBack have in common.
Counts(call, i) ==
  /\ call \in Call /\ call.fate = "pending" /\ call.life = life[call.process]
  /\ call.time <= now /\ now <= call.time + Delay
  /\ i \in Nat /\ (i \in DOMAIN log => log[i] = call)
  /\ log' \in Seq(Call) /\ Len(log') <= MaxCalls
  /\ DOMAIN log' = DOMAIN log \cup {i}
  /\ log'[i] = Counted(call) /\ \A j \in DOMAIN log \ {i} : log'[j] = log[j]
  /\ events' = EventsWith(call, i)
  /\ UNCHANGED <<redis, now, life, restarts>>

\* A call without Redis is counted by its process as soon as it arrives.
LEMMA CallMemoryCounts ==
  ASSUME Base, NEW h \in Handler, NEW c \in Client, CallMemory(h, c)
  PROVE  Counts(Arrived(h, c), Len(log) + 1) /\ Len(log) + 1 \notin DOMAIN log
<1>1. Arrived(h, c) \in Call /\ now \in Nat /\ now \in Time
  <2>1. /\ now \in Time /\ life \in [Process -> 0..restarts] /\ restarts \in 0..MaxRestarts
        /\ Home[h] \in Process /\ MaxRestarts \in Nat /\ MaxTime \in Nat
    BY Constants DEF Base, TypeOK
  <2>2. life[Home[h]] \in 0..MaxRestarts
    BY <2>1
  <2> QED
    BY <2>1, <2>2 DEF Arrived, Call, Time
<1>2. log' = Append(log, Counted(Arrived(h, c))) /\ Counted(Arrived(h, c)) \in Call
  BY <1>1, Decision DEF CallMemory
<1>3. /\ log' \in Seq(Call) /\ Len(log') = Len(log) + 1
      /\ DOMAIN log' = DOMAIN log \cup {Len(log) + 1} /\ Len(log) + 1 \notin DOMAIN log
      /\ log'[Len(log) + 1] = Counted(Arrived(h, c)) /\ \A i \in DOMAIN log : log'[i] = log[i]
  BY <1>2, LogGrows DEF Base
<1>4. Len(log) + 1 <= MaxCalls /\ Len(log) \in Nat
  BY LogShape, Constants DEF CallMemory, MayCall, Base
<1>5. /\ Arrived(h, c).fate = "pending" /\ Arrived(h, c).process = Home[h]
      /\ Arrived(h, c).life = life[Home[h]] /\ Arrived(h, c).time = now
  BY DEF Arrived
<1>6. Delay \in Nat
  BY Constants DEF Delay
<1> QED
  BY <1>1, <1>3, <1>4, <1>5, <1>6 DEF Counts, CallMemory

\* A call that Redis failed is counted by its process in place of Redis.
LEMMA FallBackCounts ==
  ASSUME Base, NEW h \in Handler, NEW applied \in BOOLEAN, FallBack(h, applied)
  PROVE  Counts(Mine(h), job[h].call) /\ job[h].call \in DOMAIN log
<1>1. /\ job[h].at # "idle" /\ job[h].call \in DOMAIN log /\ Mine(h).fate = "pending"
      /\ Mine(h) \in Call
  BY LogShape DEF FallBack, Base, TypeOK, Mine
<1>2. /\ redis /\ Mine(h).process = Home[h] /\ Mine(h).life = life[Home[h]]
      /\ now <= Mine(h).time + MaxDelay
  BY <1>1 DEF Base, JobsOwn
<1>3. Mine(h).time <= now /\ Delay = MaxDelay
  BY <1>1, <1>2 DEF Base, Clocked, Mine, Delay
<1>4. log' = [log EXCEPT ![job[h].call] = Counted(Mine(h))] /\ Counted(Mine(h)) \in Call
  BY <1>1, Decision DEF FallBack, Mine
<1>5. /\ log' \in Seq(Call) /\ Len(log') = Len(log) /\ DOMAIN log' = DOMAIN log
      /\ log'[job[h].call] = Counted(Mine(h))
      /\ \A i \in DOMAIN log \ {job[h].call} : log'[i] = log[i]
  BY <1>1, <1>4, LogSettles DEF Base
<1>6. Len(log) <= MaxCalls /\ job[h].call \in Nat
  BY <1>1, LogShape DEF Base
<1>7. events' = EventsWith(Mine(h), job[h].call) /\ UNCHANGED <<redis, now, life, restarts>>
  BY DEF FallBack
<1> QED
  BY <1>1, <1>2, <1>3, <1>5, <1>6, <1>7 DEF Counts, Mine

\* What Counts does to the deques: only the one of the call changes.
LEMMA DequeAfter ==
  ASSUME Base, NEW call, NEW i, Counts(call, i), NEW p \in Process, NEW b \in Bucket
  PROVE  /\ events'[p][b] \subseteq events[p][b] \cup {i}
         /\ ~(p = call.process /\ b = Label[call.client]) => events'[p][b] = events[p][b]
         /\ (p = call.process /\ b = Label[call.client]) =>
              events'[p][b] = Kept(p, b) \cup (IF HasRoom(call) THEN {i} ELSE {})
         /\ events' \in [Process -> [Bucket -> SUBSET (DOMAIN log \cup {i})]]
<1> DEFINE q == call.process
           d == Label[call.client]
           K == Kept(q, d) \cup (IF HasRoom(call) THEN {i} ELSE {})
<1>1. q \in Process /\ d \in Bucket
  BY Constants DEF Counts, Call
<1>2. events \in [Process -> [Bucket -> SUBSET DOMAIN log]]
  BY DEF Base, TypeOK
<1>3. Kept(q, d) \subseteq events[q][d]
  BY <1>1, KeptShape
<1>4. events' = [events EXCEPT ![q][d] = K]
  BY DEF Counts, EventsWith
<1>5. K \subseteq events[q][d] \cup {i} /\ K \subseteq DOMAIN log \cup {i}
  BY <1>1, <1>2, <1>3
<1>6. events'[p][b] = IF p = q /\ b = d THEN K ELSE events[p][b]
  <2> HIDE DEF K, q, d
  <2> QED
    BY <1>1, <1>2, <1>4
<1>7. events' \in [Process -> [Bucket -> SUBSET (DOMAIN log \cup {i})]]
  <2> HIDE DEF K, q, d
  <2>1. events \in [Process -> [Bucket -> SUBSET (DOMAIN log \cup {i})]]
    BY <1>2
  <2> QED
    BY <1>1, <2>1, <1>4, <1>5
<1> QED
  BY <1>3, <1>5, <1>6, <1>7

\* What a process counts keeps its deque true to the log.
LEMMA CountsDeques ==
  ASSUME Base, NEW call, NEW i, Counts(call, i)
  PROVE  Clocked' /\ DequesHold' /\ DequesRemember'
<1>1. /\ call \in Call /\ call.process \in Process /\ Label[call.client] \in Bucket
      /\ call.life = life[call.process] /\ life[call.process] <= restarts
      /\ call.time <= now /\ now <= call.time + Delay /\ call.fate = "pending"
      /\ now \in Nat /\ DOMAIN log' = DOMAIN log \cup {i}
  <2>1. life \in [Process -> 0..restarts] /\ now \in Nat
    BY Constants DEF Base, TypeOK, Time
  <2>2. call.process \in Process /\ Label[call.client] \in Bucket
    BY Constants DEF Counts, Call
  <2> QED
    BY <2>1, <2>2 DEF Counts
<1>2. /\ log'[i].client = call.client /\ log'[i].process = call.process
      /\ log'[i].life = call.life /\ log'[i].time = call.time
      /\ HasRoom(call) => log'[i].fate = "local" /\ log'[i].stamp = now
      /\ ~HasRoom(call) => log'[i].fate = "refused"
  BY <1>1, Decision DEF Counts
<1>3. /\ redis' = redis /\ now' = now /\ life' = life /\ restarts' = restarts /\ Delay' = Delay
      /\ \A j \in DOMAIN log \ {i} : log'[j] = log[j]
  BY DEF Counts, Delay
<1>4. i \in DOMAIN log => log[i].fate = "pending"
  BY <1>1 DEF Counts
<1>5. Clocked'
  <2> SUFFICES ASSUME NEW j \in DOMAIN log'
               PROVE  /\ log'[j].time <= now /\ log'[j].life <= restarts
                      /\ log'[j].fate = "shared" => redis
                      /\ log'[j].fate = "local" =>
                           /\ log'[j].time <= log'[j].stamp /\ log'[j].stamp <= now
                           /\ log'[j].stamp <= log'[j].time + Delay
    BY <1>3 DEF Clocked
  <2>1. CASE j = i
    BY <1>1, <1>2, <2>1
  <2>2. CASE j \in DOMAIN log \ {i}
    BY <1>3, <2>2 DEF Base, Clocked
  <2> QED
    BY <1>1, <2>1, <2>2
<1>6. DequesHold'
  <2> SUFFICES ASSUME NEW p \in Process, NEW b \in Bucket, NEW j \in events'[p][b]
               PROVE  /\ log'[j].fate = "local" /\ Label[log'[j].client] = b
                      /\ log'[j].process = p /\ log'[j].life = life[p]
    BY <1>3 DEF DequesHold
  <2>1. CASE j \in events[p][b]
    <3>1. /\ j \in DOMAIN log /\ log[j].fate = "local" /\ Label[log[j].client] = b
          /\ log[j].process = p /\ log[j].life = life[p]
      BY <2>1, KeptShape DEF Base, DequesHold
    <3>2. j # i
      BY <1>4, <3>1
    <3> QED
      BY <1>3, <3>1, <3>2
  <2>2. CASE j \notin events[p][b]
    <3>1. p = call.process /\ b = Label[call.client] /\ j = i /\ HasRoom(call)
      BY <2>2, DequeAfter, KeptShape
    <3> QED
      BY <1>1, <1>2, <3>1
  <2> QED
    BY <2>1, <2>2
<1>7. DequesRemember'
  <2> SUFFICES ASSUME NEW j \in DOMAIN log', log'[j].fate = "local",
                      log'[j].life = life[log'[j].process], log'[j].stamp + Window >= now
               PROVE  j \in events'[log'[j].process][Label[log'[j].client]]
    BY <1>3 DEF DequesRemember
  <2>1. CASE j = i
    <3>1. HasRoom(call)
      BY <1>2, <2>1
    <3> QED
      BY <1>1, <1>2, <2>1, <3>1, DequeAfter
  <2>2. CASE j \in DOMAIN log \ {i}
    <3> DEFINE p == log[j].process
               b == Label[log[j].client]
    <3>1. log'[j] = log[j] /\ j \in events[p][b] /\ p \in Process /\ b \in Bucket
      BY <1>3, <2>2, LogShape DEF Base, DequesRemember
    <3>2. j \in Kept(p, b)
      BY <3>1 DEF Kept
    <3>3. j \in events'[p][b]
      BY <3>1, <3>2, DequeAfter
    <3> QED
      BY <3>1, <3>3
  <2> QED
    BY <1>1, <2>1, <2>2
<1> QED
  BY <1>5, <1>6, <1>7

-----------------------------------------------------------------------------
(* What the windows hold and remember, step by step. *)

\* A call in memory is decided and filed in one step.
LEMMA CallMemoryBase ==
  ASSUME Base, NEW h \in Handler, NEW c \in Client, CallMemory(h, c)
  PROVE  Base'
<1> DEFINE call == Arrived(h, c)
           i == Len(log) + 1
<1>1. Counts(call, i) /\ i \notin DOMAIN log
  BY CallMemoryCounts
<1> HIDE DEF call, i
<1>2. Clocked' /\ DequesHold' /\ DequesRemember'
  BY <1>1, CountsDeques
<1>3. /\ DOMAIN log' = DOMAIN log \cup {i} /\ \A j \in DOMAIN log : log'[j] = log[j]
      /\ log'[i] = Counted(call) /\ UNCHANGED <<redis, now, life, restarts, zset, job, faults>>
  BY <1>1 DEF Counts, CallMemory
<1>4. \A g \in Handler : job[g].at = "idle" /\ job[g] = Idle
  BY DEF Base, JobsOwn, CallMemory
<1>5. TypeOK'
  <2>1. events' \in [Process -> [Bucket -> SUBSET (DOMAIN log \cup {i})]]
    <3>1. call.process \in Process /\ Label[call.client] \in Bucket
      BY <1>1, Constants DEF Counts, Call
    <3> QED
      BY <1>1, <3>1, DequeAfter
  <2>2. log' \in Seq(Call) /\ Len(log') <= MaxCalls
    BY <1>1 DEF Counts
  <2> QED
    BY <1>3, <1>4, <2>1, <2>2 DEF Base, TypeOK
<1>6. JobsOwn'
  BY <1>3, <1>4 DEF JobsOwn
<1>7. ZsetsHold'
  <2>1. \A b \in Bucket : zset[b] \subseteq DOMAIN log
    BY DEF Base, TypeOK
  <2> QED
    BY <1>3, <2>1 DEF Base, ZsetsHold
<1>8. ZsetsRemember'
  <2>1. log'[i].fate \in {"local", "refused"}
    BY <1>1, <1>3, Decision DEF Counts
  <2> QED
    BY <1>3, <1>4, <2>1 DEF Base, ZsetsRemember, Filed, Waiting
<1> QED
  BY <1>2, <1>5, <1>6, <1>7, <1>8 DEF Base

\* The request of a handler is in the log, and its bucket known.
LEMMA MineShape ==
  ASSUME Base, NEW h \in Handler, job[h].at # "idle"
  PROVE  /\ job[h].call \in DOMAIN log /\ Mine(h) \in Call /\ Mine(h).fate = "pending"
         /\ Shelf(h) \in Bucket /\ Limit[Mine(h).client] \in Nat \ {0}
         /\ redis /\ Mine(h).process = Home[h] /\ Home[h] \in Process
         /\ Mine(h).life = life[Home[h]] /\ Mine(h).time \in Nat /\ now \in Nat
         /\ Mine(h).time <= now /\ now <= Mine(h).time + MaxDelay
         /\ \A g \in Handler : job[g].call = job[h].call => g = h
<1>1. job[h].call \in DOMAIN log /\ Mine(h).fate = "pending" /\ now \in Nat
  BY Constants DEF Base, TypeOK, Mine, Time
<1>2. /\ Mine(h) \in Call /\ Mine(h).time \in Nat /\ Label[Mine(h).client] \in Bucket
      /\ Limit[Mine(h).client] \in Nat \ {0}
  BY <1>1, LogShape DEF Base, Mine
<1> QED
  BY <1>1, <1>2, Constants DEF Base, JobsOwn, Clocked, Mine, Shelf

\* A call of Redis changes no window yet.
LEMMA CallRedisBase ==
  ASSUME Base, NEW h \in Handler, NEW c \in Client, CallRedis(h, c)
  PROVE  Base'
<1> DEFINE call == Arrived(h, c)
           i == Len(log) + 1
<1>1. call \in Call /\ call.fate = "pending" /\ call.process = Home[h]
      /\ call.life = life[Home[h]] /\ call.time = now /\ now \in Nat /\ call.life <= restarts
  <2>1. /\ now \in Time /\ life \in [Process -> 0..restarts] /\ restarts \in 0..MaxRestarts
        /\ Home[h] \in Process /\ MaxRestarts \in Nat /\ MaxTime \in Nat
    BY Constants DEF Base, TypeOK
  <2>2. life[Home[h]] \in 0..MaxRestarts /\ life[Home[h]] <= restarts
    BY <2>1
  <2> QED
    BY <2>1, <2>2 DEF Arrived, Call, Time
<1>2. /\ log' \in Seq(Call) /\ Len(log') = Len(log) + 1
      /\ DOMAIN log' = DOMAIN log \cup {i} /\ i \notin DOMAIN log
      /\ log'[i] = call /\ \A j \in DOMAIN log : log'[j] = log[j]
  BY <1>1, LogGrows DEF CallRedis, Base
<1>3. /\ i <= MaxCalls /\ i \in 0..MaxCalls /\ Len(log) \in Nat
  BY LogShape, Constants DEF CallRedis, MayCall, Base
<1>4. /\ job \in [Handler -> Job] /\ job[h].at = "idle" /\ redis
      /\ job' = [job EXCEPT ![h] = [at |-> "transaction", call |-> i]]
      /\ UNCHANGED <<redis, now, life, events, zset, faults, restarts>>
  BY DEF CallRedis, Base, TypeOK
<1>5. /\ job'[h].at = "transaction" /\ job'[h].call = i
      /\ \A g \in Handler \ {h} : job'[g] = job[g]
      /\ job' \in [Handler -> Job]
  BY <1>3, <1>4 DEF Job
<1>6. \A g \in Handler : job[g].at # "idle" => job[g].call \in DOMAIN log /\ job[g].call # i
  BY <1>2, MineShape
<1>7. \A g \in Handler : job[g].call # i
  BY <1>3, <1>6 DEF Base, JobsOwn, Idle
<1>8. /\ \A p \in Process, b \in Bucket : events[p][b] \subseteq DOMAIN log
      /\ \A b \in Bucket : zset[b] \subseteq DOMAIN log
  BY DEF Base, TypeOK
<1> HIDE DEF call, i
<1>9. TypeOK'
  <2>1. /\ events \in [Process -> [Bucket -> SUBSET (DOMAIN log \cup {i})]]
        /\ zset \in [Bucket -> SUBSET (DOMAIN log \cup {i})]
    BY DEF Base, TypeOK
  <2>2. \A g \in Handler : job'[g].at # "idle" => /\ job'[g].call \in DOMAIN log'
                                                  /\ log'[job'[g].call].fate = "pending"
    BY <1>1, <1>2, <1>5, <1>6 DEF Base, TypeOK
  <2>3. Len(log') <= MaxCalls
    BY <1>2, <1>3 DEF i
  <2> QED
    BY <1>2, <1>4, <1>5, <2>1, <2>2, <2>3 DEF Base, TypeOK
<1>10. JobsOwn'
  <2> SUFFICES ASSUME NEW g \in Handler
               PROVE  /\ job'[g].at = "idle" => job'[g] = Idle
                      /\ job'[g].at # "idle" =>
                           /\ redis
                           /\ Mine(g)'.process = Home[g] /\ Mine(g)'.life = life[Home[g]]
                           /\ now <= Mine(g)'.time + MaxDelay
                           /\ \A f \in Handler : job'[f].call = job'[g].call => f = g
    BY <1>4 DEF JobsOwn
  <2>1. CASE g = h
    BY <1>1, <1>2, <1>4, <1>5, <1>7, <2>1, Constants DEF Mine
  <2>2. CASE g # h
    BY <1>2, <1>4, <1>5, <1>6, <2>2 DEF Mine, Base, JobsOwn
  <2> QED
    BY <2>1, <2>2
<1>11. Clocked'
  BY <1>1, <1>2, <1>4 DEF Base, Clocked, Delay
<1>12. DequesHold' /\ ZsetsHold'
  BY <1>2, <1>4, <1>8 DEF Base, DequesHold, ZsetsHold
<1>13. DequesRemember'
  BY <1>1, <1>2, <1>4 DEF Base, DequesRemember
<1>14. ZsetsRemember'
  <2>1. \A j \in DOMAIN log : Filed(j)' => Filed(j)
    BY <1>2, <1>5 DEF Filed, Waiting
  <2>2. ASSUME NEW j \in DOMAIN log', j \notin DOMAIN log PROVE ~ Filed(j)'
    <3>1. j = i
      BY <1>2, <2>2
    <3>2. log'[j].fate = "pending"
      BY <1>1, <1>2, <3>1
    <3>3. ~ Waiting(j)'
      BY <1>5, <1>7, <3>1 DEF Waiting
    <3> QED
      BY <3>2, <3>3 DEF Filed
  <2> QED
    BY <1>2, <1>4, <2>1, <2>2 DEF Base, ZsetsRemember
<1> QED
  BY <1>9, <1>10, <1>11, <1>12, <1>13, <1>14 DEF Base

\* The window after the transaction: what is not too old, and the request.
LEMMA JoinedShape ==
  ASSUME Base, NEW h \in Handler, job[h].at # "idle"
  PROVE  /\ Joined(h) \subseteq DOMAIN log /\ IsFiniteSet(Joined(h))
         /\ Cardinality(Joined(h)) \in Nat /\ job[h].call \in Joined(h)
         /\ \A i \in Joined(h) : Label[log[i].client] = Shelf(h)
         /\ \A i \in zset[Shelf(h)] : log[i].time + Window > now => i \in Joined(h)
<1>1. zset[Shelf(h)] \subseteq DOMAIN log
  BY MineShape DEF Base, TypeOK
<1>2. Joined(h) \subseteq DOMAIN log
  BY <1>1, MineShape DEF Joined
<1>3. IsFiniteSet(Joined(h)) /\ Cardinality(Joined(h)) \in Nat
  BY <1>2, LogShape, FS_Subset, FS_CardinalityType DEF Base
<1>4. \A i \in Joined(h) : Label[log[i].client] = Shelf(h)
  BY MineShape DEF Joined, Base, ZsetsHold, Shelf, Mine
<1>5. ASSUME NEW i \in zset[Shelf(h)], log[i].time + Window > now PROVE i \in Joined(h)
  <2>1. log[i].time \in Nat /\ Mine(h).time <= now /\ Mine(h).time \in Nat /\ now \in Nat
    BY <1>1, MineShape, LogShape DEF Base
  <2> QED
    BY <1>5, <2>1, Constants DEF Joined
<1> QED
  BY <1>2, <1>3, <1>4, <1>5 DEF Joined

\* The transaction drops members whose time is over and adds its own.
LEMMA TransactBase ==
  ASSUME Base, NEW h \in Handler, Transact(h)
  PROVE  Base'
<1> DEFINE i == job[h].call
           b == Shelf(h)
           over == Cardinality(Joined(h)) > Limit[Mine(h).client]
<1>1. /\ job[h].at = "transaction" /\ i \in DOMAIN log /\ Mine(h).fate = "pending"
      /\ b \in Bucket /\ redis /\ job \in [Handler -> Job]
      /\ zset \in [Bucket -> SUBSET DOMAIN log]
      /\ \A g \in Handler : job[g].call = i => g = h
      /\ \A g \in Handler : job[g].at # "idle" => job[g].call \in DOMAIN log
  BY MineShape DEF Transact, Base, TypeOK
<1>2. /\ zset' = [zset EXCEPT ![b] = Joined(h)]
      /\ UNCHANGED <<redis, now, life, events, faults, restarts>>
  BY DEF Transact
<1>3. log[i] \in Call /\ [log[i] EXCEPT !.fate = "shared"] \in Call
  BY <1>1, LogShape DEF Base, Call
<1>4. /\ log' \in Seq(Call) /\ Len(log') = Len(log) /\ DOMAIN log' = DOMAIN log
      /\ \A j \in DOMAIN log \ {i} : log'[j] = log[j]
      /\ over => log' = log
      /\ ~over => log'[i] = [log[i] EXCEPT !.fate = "shared"]
  <2>1. CASE over
    BY <2>1 DEF Transact, Base, TypeOK
  <2>2. CASE ~over
    <3>1. log' = [log EXCEPT ![i] = [log[i] EXCEPT !.fate = "shared"]]
      BY <2>2 DEF Transact
    <3> HIDE DEF i, over
    <3>2. /\ log' \in Seq(Call) /\ Len(log') = Len(log) /\ DOMAIN log' = DOMAIN log
          /\ log'[i] = [log[i] EXCEPT !.fate = "shared"]
          /\ \A j \in DOMAIN log \ {i} : log'[j] = log[j]
      BY <1>1, <1>3, <3>1, LogSettles DEF Base
    <3> QED
      BY <2>2, <3>2
  <2> QED
    BY <2>1, <2>2
<1>5. /\ \A g \in Handler \ {h} : job'[g] = job[g]
      /\ job' \in [Handler -> Job]
      /\ over => job'[h].at = "oldest" /\ job'[h].call = i
      /\ ~over => job'[h] = Idle
  <2>1. CASE over
    <3>1. job' = [job EXCEPT ![h].at = "oldest"]
      BY <2>1 DEF Transact
    <3> QED
      BY <1>1, <2>1, <3>1 DEF Job
  <2>2. CASE ~over
    <3>1. job' = [job EXCEPT ![h] = Idle]
      BY <2>2 DEF Transact
    <3> QED
      BY <1>1, <2>2, <3>1, Constants DEF Job, Idle
  <2> QED
    BY <2>1, <2>2
<1> HIDE DEF over
<1>6. /\ DOMAIN log' = DOMAIN log
      /\ \A j \in DOMAIN log : /\ log'[j].client = log[j].client /\ log'[j].time = log[j].time
                               /\ log'[j].process = log[j].process /\ log'[j].life = log[j].life
                               /\ log'[j].stamp = log[j].stamp
                               /\ log[j].fate # "pending" => log'[j] = log[j]
                               /\ log'[j].fate = "local" <=> log[j].fate = "local"
      /\ log[i].fate = "pending"
      /\ log'[i].fate = (IF over THEN "pending" ELSE "shared")
  <2>1. log[i].fate = "pending"
    BY <1>1 DEF Mine
  <2> HIDE DEF i
  <2>2. CASE over
    BY <1>4, <2>1, <2>2
  <2>3. CASE ~over
    <3>1. /\ log'[i].client = log[i].client /\ log'[i].time = log[i].time
          /\ log'[i].process = log[i].process /\ log'[i].life = log[i].life
          /\ log'[i].stamp = log[i].stamp /\ log'[i].fate = "shared"
      BY <1>3, <1>4, <2>3 DEF Call
    <3> QED
      BY <1>1, <1>4, <2>1, <2>3, <3>1
  <2> QED
    BY <2>2, <2>3
<1>7. zset'[b] = Joined(h) /\ \A d \in Bucket \ {b} : zset'[d] = zset[d]
  BY <1>1, <1>2
<1>8. Joined(h) \subseteq DOMAIN log /\ zset' \in [Bucket -> SUBSET DOMAIN log]
  <2>1. Joined(h) \subseteq DOMAIN log
    BY <1>1, JoinedShape
  <2> QED
    BY <1>1, <1>2, <2>1
<1>9. Idle.at = "idle" /\ Idle.call = 0 /\ 0 \notin DOMAIN log
  BY LogShape DEF Idle, Base
<1>10. TypeOK'
  <2>1. \A g \in Handler : job'[g].at # "idle" => /\ job'[g].call \in DOMAIN log'
                                                  /\ log'[job'[g].call].fate = "pending"
    <3> SUFFICES ASSUME NEW g \in Handler, job'[g].at # "idle"
                 PROVE  job'[g].call \in DOMAIN log' /\ log'[job'[g].call].fate = "pending"
      OBVIOUS
    <3>1. CASE g = h
      BY <1>1, <1>5, <1>6, <1>9, <3>1
    <3>2. CASE g # h
      <4>1. job'[g] = job[g] /\ job[g].call \in DOMAIN log \ {i}
        BY <1>1, <1>5, <3>2
      <4>2. log[job[g].call].fate = "pending"
        BY <4>1 DEF Base, TypeOK
      <4> QED
        BY <1>4, <4>1, <4>2
    <3> QED
      BY <3>1, <3>2
  <2> QED
    BY <1>2, <1>4, <1>5, <1>8, <2>1 DEF Base, TypeOK
<1>11. JobsOwn'
  <2> SUFFICES ASSUME NEW g \in Handler
               PROVE  /\ job'[g].at = "idle" => job'[g] = Idle
                      /\ job'[g].at # "idle" =>
                           /\ redis
                           /\ log'[job'[g].call].process = Home[g]
                           /\ log'[job'[g].call].life = life[Home[g]]
                           /\ now <= log'[job'[g].call].time + MaxDelay
                           /\ \A f \in Handler : job'[f].call = job'[g].call => f = g
    BY <1>2 DEF JobsOwn, Mine
  <2>1. job[g].at = "idle" => job[g] = Idle
    BY DEF Base, JobsOwn
  <2>2. job[g].at # "idle" =>
          /\ log[job[g].call].process = Home[g]
          /\ log[job[g].call].life = life[Home[g]]
          /\ now <= log[job[g].call].time + MaxDelay
          /\ \A f \in Handler : job[f].call = job[g].call => f = g
    BY DEF Base, JobsOwn, Mine
  <2>3. \A f \in Handler : job'[f] = Idle \/ job'[f].call = job[f].call
    BY <1>5
  <2>4. job'[g].at # "idle" => job[g].at # "idle" /\ job'[g].call = job[g].call
    BY <1>1, <1>5, <1>9
  <2>5. job'[g].at = "idle" => job'[g] = Idle
    BY <1>5, <2>1
  <2> QED
    BY <1>1, <1>6, <1>9, <2>2, <2>3, <2>4, <2>5
<1>12. Clocked'
  BY <1>1, <1>2, <1>6 DEF Base, Clocked, Delay
<1>13. DequesHold'
  <2>1. \A p \in Process, d \in Bucket : events[p][d] \subseteq DOMAIN log
    BY DEF Base, TypeOK
  <2> QED
    BY <1>2, <1>6, <2>1 DEF Base, DequesHold
<1>14. ZsetsHold'
  <2>1. \A d \in Bucket : \A j \in zset'[d] : j \in DOMAIN log /\ Label[log[j].client] = d
    BY <1>1, <1>7, <1>8, JoinedShape DEF Base, ZsetsHold
  <2> QED
    BY <1>6, <2>1 DEF ZsetsHold
<1>15. DequesRemember'
  BY <1>2, <1>6 DEF Base, DequesRemember
<1>16. ZsetsRemember'
  <2> SUFFICES ASSUME NEW j \in DOMAIN log, Filed(j)', log[j].time + Window > now
               PROVE  j \in zset'[Label[log[j].client]]
    BY <1>2, <1>6 DEF ZsetsRemember
  <2>1. CASE j = i
    BY <1>1, <1>7, <2>1, JoinedShape DEF Shelf, Mine
  <2>2. CASE j # i
    <3>1. Filed(j)
      <4>1. CASE log'[j].fate = "shared"
        BY <1>4, <2>2, <4>1 DEF Filed
      <4>2. CASE Waiting(j)'
        BY <1>5, <1>9, <2>2, <4>2 DEF Filed, Waiting
      <4> QED
        BY <4>1, <4>2 DEF Filed
    <3>2. j \in zset[Label[log[j].client]] /\ Label[log[j].client] \in Bucket
      BY <3>1, LogShape DEF Base, ZsetsRemember
    <3> QED
      BY <1>1, <1>7, <3>2, JoinedShape
  <2> QED
    BY <2>1, <2>2
<1> QED
  BY <1>10, <1>11, <1>12, <1>13, <1>14, <1>15, <1>16 DEF Base

\* The handler of call i is done with it: what ReadOldest and FallBack share.
LEMMA Answered ==
  ASSUME Base, NEW h \in Handler, job[h].at # "idle",
         job' = [job EXCEPT ![h] = Idle], UNCHANGED <<redis, now, life>>,
         DOMAIN log' = DOMAIN log,
         log'[job[h].call].fate # "shared",
         \A j \in DOMAIN log \ {job[h].call} : log'[j] = log[j]
  PROVE  /\ job' \in [Handler -> Job] /\ JobsOwn'
         /\ \A g \in Handler : job'[g].at # "idle" =>
              job'[g].call \in DOMAIN log' /\ log'[job'[g].call].fate = "pending"
         /\ \A j \in DOMAIN log : Filed(j)' => Filed(j) /\ j # job[h].call
<1> DEFINE i == job[h].call
<1>1. /\ i \in DOMAIN log /\ job \in [Handler -> Job]
      /\ \A g \in Handler : job[g].call = i => g = h
      /\ \A g \in Handler : job[g].at # "idle" =>
           job[g].call \in DOMAIN log /\ log[job[g].call].fate = "pending"
  BY MineShape DEF Base, TypeOK
<1>2. Idle.at = "idle" /\ Idle.call = 0 /\ Idle \in Job /\ 0 \notin DOMAIN log
  BY LogShape, Constants DEF Idle, Base, Job
<1>3. job'[h] = Idle /\ job' \in [Handler -> Job] /\ \A g \in Handler \ {h} : job'[g] = job[g]
  BY <1>1, <1>2
<1>4. ASSUME NEW g \in Handler, job'[g].at # "idle"
      PROVE  /\ g # h /\ job'[g] = job[g] /\ job[g].call \in DOMAIN log \ {i}
             /\ log'[job[g].call] = log[job[g].call] /\ log[job[g].call].fate = "pending"
  BY <1>1, <1>2, <1>3, <1>4
<1>5. JobsOwn'
  <2> SUFFICES ASSUME NEW g \in Handler
               PROVE  /\ job'[g].at = "idle" => job'[g] = Idle
                      /\ job'[g].at # "idle" =>
                           /\ redis
                           /\ log'[job'[g].call].process = Home[g]
                           /\ log'[job'[g].call].life = life[Home[g]]
                           /\ now <= log'[job'[g].call].time + MaxDelay
                           /\ \A f \in Handler : job'[f].call = job'[g].call => f = g
    BY DEF JobsOwn, Mine
  <2>1. job'[g].at = "idle" => job'[g] = Idle
    BY <1>3 DEF Base, JobsOwn
  <2>2. ASSUME job'[g].at # "idle"
        PROVE  /\ redis
               /\ log'[job'[g].call].process = Home[g]
               /\ log'[job'[g].call].life = life[Home[g]]
               /\ now <= log'[job'[g].call].time + MaxDelay
               /\ \A f \in Handler : job'[f].call = job'[g].call => f = g
    <3>1. /\ g # h /\ job'[g] = job[g] /\ job[g].call \in DOMAIN log \ {i}
          /\ log'[job[g].call] = log[job[g].call]
      BY <1>4, <2>2
    <3>2. /\ redis
          /\ log[job[g].call].process = Home[g]
          /\ log[job[g].call].life = life[Home[g]]
          /\ now <= log[job[g].call].time + MaxDelay
          /\ \A f \in Handler : job[f].call = job[g].call => f = g
      BY <2>2, <3>1 DEF Base, JobsOwn, Mine
    <3>3. \A f \in Handler : job'[f].call = job[g].call => job[f].call = job[g].call
      BY <1>2, <1>3, <3>1
    <3> QED
      BY <3>1, <3>2, <3>3
  <2> QED
    BY <2>1, <2>2
<1>6. ASSUME NEW j \in DOMAIN log, Filed(j)' PROVE Filed(j) /\ j # i
  <2>1. CASE log'[j].fate = "shared"
    BY <2>1 DEF Filed
  <2>2. CASE Waiting(j)'
    <3>1. PICK g \in Handler : job'[g].at = "oldest" /\ job'[g].call = j
      BY <2>2 DEF Waiting
    <3>2. g # h /\ job'[g] = job[g] /\ job[g].call \in DOMAIN log \ {i}
      BY <1>4, <3>1
    <3> QED
      BY <3>1, <3>2 DEF Filed, Waiting
  <2> QED
    BY <1>6, <2>1, <2>2 DEF Filed
<1>7. \A g \in Handler : job'[g].at # "idle" =>
        job'[g].call \in DOMAIN log' /\ log'[job'[g].call].fate = "pending"
  BY <1>4
<1> QED
  BY <1>3, <1>5, <1>6, <1>7

\* The set of a request that waits is not empty, so its refusal has a time.
LEMMA OldestShape ==
  ASSUME Base, NEW h \in Handler, ReadOldest(h)
  PROVE  \E e \in Call :
           /\ log' = [log EXCEPT ![job[h].call] = e]
           /\ e.client = Mine(h).client /\ e.process = Mine(h).process
           /\ e.life = Mine(h).life /\ e.time = Mine(h).time /\ e.fate = "refused"
<1> DEFINE S == {log[i].time : i \in zset[Shelf(h)]}
           rest == Max({1, (Min(S) + Window - Mine(h).time) \div Second})
           e == Refused(Mine(h), Mine(h).time, Min(S))
<1>1. /\ job[h].at = "oldest" /\ job[h].call \in DOMAIN log /\ Mine(h) \in Call
      /\ Mine(h).time \in Nat /\ now \in Nat /\ now <= Mine(h).time + MaxDelay
      /\ Shelf(h) \in Bucket
  BY MineShape DEF ReadOldest
<1>2. job[h].call \in zset[Shelf(h)]
  <2>1. Mine(h).time + Window > now
    BY <1>1, Constants
  <2>2. Filed(job[h].call)
    BY <1>1 DEF Filed, Waiting
  <2> QED
    BY <1>1, <2>1, <2>2 DEF Base, ZsetsRemember, Shelf, Mine
<1>3. S \in SUBSET Nat /\ S # {}
  <2>1. zset[Shelf(h)] \subseteq DOMAIN log
    BY <1>1 DEF Base, TypeOK
  <2> QED
    BY <1>2, <2>1, LogShape DEF Base
<1>4. Min(S) \in Nat
  <2> HIDE DEF S
  <2> QED
    BY <1>3, MinOfSet
<1> HIDE DEF S
<1>5. rest \in Nat
  <2> DEFINE x == Min(S) + Window - Mine(h).time
  <2>1. x \in Int
    BY <1>1, <1>4, Constants
  <2>2. x \div Second \in Int
    <3> HIDE DEF x
    <3> QED
      BY <2>1, Division, Constants
  <2> HIDE DEF x
  <2>3. Max({1, x \div Second}) \in Nat
    BY <2>2, MaxOfTwo
  <2> QED
    BY <2>3 DEF x
<1>6. e = [Mine(h) EXCEPT !.fate = "refused", !.retry = rest]
  BY DEF Refused
<1>7. log' = [log EXCEPT ![job[h].call] = e]
  BY DEF ReadOldest, Mine, S
<1> HIDE DEF rest, e
<1>8. /\ e \in Call /\ e.client = Mine(h).client /\ e.process = Mine(h).process
      /\ e.life = Mine(h).life /\ e.time = Mine(h).time /\ e.fate = "refused"
  BY <1>1, <1>5, <1>6 DEF Call
<1> QED
  BY <1>7, <1>8

\* The second call only reads the sorted set.
LEMMA ReadOldestBase ==
  ASSUME Base, NEW h \in Handler, ReadOldest(h)
  PROVE  Base'
<1> DEFINE i == job[h].call
<1>1. job[h].at # "idle" /\ i \in DOMAIN log /\ Mine(h).fate = "pending" /\ Mine(h) = log[i]
  BY MineShape DEF ReadOldest, Mine
<1>2. PICK e \in Call :
        /\ log' = [log EXCEPT ![i] = e]
        /\ e.client = Mine(h).client /\ e.process = Mine(h).process
        /\ e.life = Mine(h).life /\ e.time = Mine(h).time /\ e.fate = "refused"
  BY OldestShape
<1>3. /\ job' = [job EXCEPT ![h] = Idle]
      /\ UNCHANGED <<redis, now, life, events, zset, faults, restarts>>
  BY DEF ReadOldest
<1> HIDE DEF i
<1>4. /\ log' \in Seq(Call) /\ Len(log') = Len(log) /\ DOMAIN log' = DOMAIN log
      /\ log'[i] = e /\ \A j \in DOMAIN log \ {i} : log'[j] = log[j]
  BY <1>1, <1>2, LogSettles DEF Base
<1>5. \A j \in DOMAIN log : /\ log'[j].client = log[j].client /\ log'[j].time = log[j].time
                            /\ log'[j].process = log[j].process /\ log'[j].life = log[j].life
                            /\ log[j].fate # "pending" => log'[j] = log[j]
                            /\ log'[j].fate \in {"local", "shared"} => log'[j] = log[j]
  BY <1>1, <1>2, <1>4
<1>6. /\ job' \in [Handler -> Job] /\ JobsOwn'
      /\ \A g \in Handler : job'[g].at # "idle" =>
           job'[g].call \in DOMAIN log' /\ log'[job'[g].call].fate = "pending"
      /\ \A j \in DOMAIN log : Filed(j)' => Filed(j)
  <2>1. log'[job[h].call].fate # "shared"
    BY <1>2, <1>4 DEF i
  <2>2. \A j \in DOMAIN log \ {job[h].call} : log'[j] = log[j]
    BY <1>4 DEF i
  <2> QED
    BY <1>1, <1>3, <1>4, <2>1, <2>2, Answered
<1>7. TypeOK'
  BY <1>3, <1>4, <1>6 DEF Base, TypeOK
<1>8. Clocked'
  BY <1>3, <1>4, <1>5 DEF Base, Clocked, Delay
<1>9. DequesHold' /\ ZsetsHold'
  <2>1. /\ \A p \in Process, b \in Bucket : events[p][b] \subseteq DOMAIN log
        /\ \A b \in Bucket : zset[b] \subseteq DOMAIN log
    BY DEF Base, TypeOK
  <2> QED
    BY <1>3, <1>5, <2>1 DEF Base, DequesHold, ZsetsHold
<1>10. DequesRemember'
  BY <1>3, <1>4, <1>5 DEF Base, DequesRemember
<1>11. ZsetsRemember'
  BY <1>3, <1>4, <1>5, <1>6 DEF Base, ZsetsRemember
<1> QED
  BY <1>6, <1>7, <1>8, <1>9, <1>10, <1>11 DEF Base

\* A fallback may leave a member in Redis that counts for nobody in the log.
LEMMA FallBackBase ==
  ASSUME Base, NEW h \in Handler, NEW applied \in BOOLEAN, FallBack(h, applied)
  PROVE  Base'
<1> DEFINE i == job[h].call
           call == Mine(h)
           b == Shelf(h)
<1>1. Counts(call, i) /\ i \in DOMAIN log /\ call = log[i] /\ job[h].at # "idle" /\ b \in Bucket
  BY FallBackCounts, MineShape DEF Mine, FallBack
<1>2. /\ job' = [job EXCEPT ![h] = Idle] /\ faults' = faults + 1 /\ faults < MaxFaults
      /\ zset' = IF applied THEN [zset EXCEPT ![b] = Joined(h)] ELSE zset
      /\ UNCHANGED <<redis, now, life, restarts>>
  BY DEF FallBack
<1>3. Clocked' /\ DequesHold' /\ DequesRemember'
  BY <1>1, CountsDeques
<1>4. /\ call \in Call /\ DOMAIN log' = DOMAIN log /\ log' \in Seq(Call) /\ Len(log') <= MaxCalls
      /\ log'[i] = Counted(call) /\ \A j \in DOMAIN log \ {i} : log'[j] = log[j]
  BY <1>1 DEF Counts
<1>5. /\ log'[i].client = log[i].client /\ log'[i].time = log[i].time
      /\ log'[i].fate # "shared"
  BY <1>1, <1>4, Decision
<1>6. /\ job' \in [Handler -> Job] /\ JobsOwn'
      /\ \A g \in Handler : job'[g].at # "idle" =>
           job'[g].call \in DOMAIN log' /\ log'[job'[g].call].fate = "pending"
      /\ \A j \in DOMAIN log : Filed(j)' => Filed(j) /\ j # i
  BY <1>1, <1>2, <1>4, <1>5, Answered
<1>7. /\ \A d \in Bucket : zset'[d] \subseteq DOMAIN log
      /\ zset' \in [Bucket -> SUBSET DOMAIN log]
      /\ \A d \in Bucket : \A j \in zset'[d] : Label[log[j].client] = d
      /\ \A d \in Bucket : \A j \in zset[d] : log[j].time + Window > now => j \in zset'[d]
  <2>1. zset \in [Bucket -> SUBSET DOMAIN log]
    BY DEF Base, TypeOK
  <2>2. \A d \in Bucket : \A j \in zset[d] : Label[log[j].client] = d
    BY DEF Base, ZsetsHold
  <2>3. CASE applied
    <3>1. zset' = [zset EXCEPT ![b] = Joined(h)]
      BY <1>2, <2>3
    <3>2. /\ Joined(h) \subseteq DOMAIN log /\ \A j \in Joined(h) : Label[log[j].client] = b
          /\ \A j \in zset[b] : log[j].time + Window > now => j \in Joined(h)
      BY <1>1, JoinedShape
    <3> HIDE DEF b
    <3> QED
      BY <1>1, <2>1, <2>2, <3>1, <3>2
  <2>4. CASE ~applied
    BY <1>2, <2>1, <2>2, <2>4
  <2> QED
    BY <2>3, <2>4
<1> HIDE DEF i, call, b
<1>8. TypeOK'
  <2>1. events' \in [Process -> [Bucket -> SUBSET DOMAIN log]]
    <3>1. call.process \in Process /\ Label[call.client] \in Bucket
      BY <1>4, Constants DEF Call
    <3>2. events' \in [Process -> [Bucket -> SUBSET (DOMAIN log \cup {i})]]
      BY <1>1, <3>1, DequeAfter
    <3>3. DOMAIN log \cup {i} = DOMAIN log
      BY <1>1
    <3> QED
      BY <3>2, <3>3
  <2>2. faults' \in 0..MaxFaults
    BY <1>2, Constants DEF Base, TypeOK
  <2> QED
    BY <1>2, <1>4, <1>6, <1>7, <2>1, <2>2 DEF Base, TypeOK
<1>9. ZsetsHold'
  BY <1>4, <1>5, <1>7 DEF ZsetsHold
<1>10. ZsetsRemember'
  <2> SUFFICES ASSUME NEW j \in DOMAIN log, Filed(j)', log'[j].time + Window > now
               PROVE  j \in zset'[Label[log'[j].client]]
    BY <1>2, <1>4 DEF ZsetsRemember
  <2>1. Filed(j) /\ log'[j] = log[j]
    BY <1>4, <1>6
  <2>2. j \in zset[Label[log[j].client]] /\ Label[log[j].client] \in Bucket
    BY <2>1, LogShape DEF Base, ZsetsRemember
  <2> QED
    BY <1>7, <2>1, <2>2
<1> QED
  BY <1>3, <1>6, <1>8, <1>9, <1>10 DEF Base

\* With time, entries only become older, and no request is late.
LEMMA TickBase ==
  ASSUME Base, Tick
  PROVE  Base'
<1>1. /\ now' = now + 1 /\ now < MaxTime /\ now \in Nat /\ now' \in Time
      /\ UNCHANGED <<redis, life, events, zset, job, log, faults, restarts>>
      /\ \A h \in Handler : job[h].at # "idle" => now < Mine(h).time + MaxDelay
  BY Constants DEF Tick, Base, TypeOK, Time
<1>2. TypeOK'
  BY <1>1 DEF Base, TypeOK
<1>3. JobsOwn'
  <2>1. \A h \in Handler : job[h].at # "idle" => now + 1 <= Mine(h).time + MaxDelay
    BY <1>1, MineShape, Constants
  <2> QED
    BY <1>1, <2>1 DEF Base, JobsOwn, Mine
<1>4. Clocked'
  <2> SUFFICES ASSUME NEW i \in DOMAIN log
               PROVE  /\ log[i].time <= now + 1 /\ log[i].life <= restarts
                      /\ log[i].fate = "shared" => redis
                      /\ log[i].fate = "local" =>
                           /\ log[i].time <= log[i].stamp /\ log[i].stamp <= now + 1
                           /\ log[i].stamp <= log[i].time + Delay
    BY <1>1 DEF Clocked, Delay
  <2> QED
    BY <1>1, LogShape DEF Base, Clocked
<1>5. DequesHold' /\ ZsetsHold'
  BY <1>1 DEF Base, DequesHold, ZsetsHold
<1>6. DequesRemember'
  <2>1. \A i \in DOMAIN log : log[i].stamp + Window >= now + 1 => log[i].stamp + Window >= now
    BY <1>1, LogShape, Constants DEF Base
  <2> QED
    BY <1>1, <2>1 DEF Base, DequesRemember
<1>7. ZsetsRemember'
  <2>1. \A i \in DOMAIN log : log[i].time + Window > now + 1 => log[i].time + Window > now
    BY <1>1, LogShape, Constants DEF Base
  <2>2. \A i : Filed(i)' <=> Filed(i)
    BY <1>1 DEF Filed, Waiting
  <2> QED
    BY <1>1, <2>1, <2>2 DEF Base, ZsetsRemember
<1> QED
  BY <1>2, <1>3, <1>4, <1>5, <1>6, <1>7 DEF Base

\* What a restart does to the log and to the handlers.
LEMMA RestartShape ==
  ASSUME Base, NEW p \in Process, Restart(p)
  PROVE  /\ restarts' = restarts + 1 /\ restarts' \in 0..MaxRestarts /\ restarts \in Nat
         /\ life' = [life EXCEPT ![p] = restarts + 1] /\ life \in [Process -> 0..restarts]
         /\ UNCHANGED <<redis, now, zset, faults>>
         /\ log' \in Seq(Call) /\ Len(log') = Len(log) /\ DOMAIN log' = DOMAIN log
         /\ \A q \in Process, b \in Bucket : events'[q][b] = IF q = p THEN {} ELSE events[q][b]
         /\ events' \in [Process -> [Bucket -> SUBSET DOMAIN log]]
         /\ \A i \in DOMAIN log :
              /\ log'[i].client = log[i].client /\ log'[i].time = log[i].time
              /\ log'[i].process = log[i].process /\ log'[i].life = log[i].life
              /\ log[i].fate # "pending" => log'[i] = log[i]
              /\ log'[i].fate \notin {"pending", "lost"} => log'[i] = log[i]
         /\ \A h \in Handler :
              /\ job'[h] = IF Home[h] = p THEN Idle ELSE job[h]
              /\ job[h].at # "idle" /\ Home[h] # p => log'[job[h].call] = log[job[h].call]
         /\ job' \in [Handler -> Job]
<1> DEFINE L == {job[h].call : h \in {g \in Handler : Home[g] = p}}
<1>1. /\ restarts' = restarts + 1 /\ restarts' \in 0..MaxRestarts /\ restarts \in Nat
      /\ life' = [life EXCEPT ![p] = restarts + 1] /\ life \in [Process -> 0..restarts]
      /\ UNCHANGED <<redis, now, zset, faults>>
  BY Constants DEF Restart, Base, TypeOK
<1>2. log' = [i \in DOMAIN log |-> IF i \in L THEN [log[i] EXCEPT !.fate = "lost"] ELSE log[i]]
  BY DEF Restart
<1>3. \A i \in DOMAIN log : i \in L => log[i].fate = "pending"
  <2> SUFFICES ASSUME NEW h \in Handler, job[h].call \in DOMAIN log
               PROVE  log[job[h].call].fate = "pending"
    OBVIOUS
  <2>1. job[h].at # "idle"
    BY LogShape DEF Base, JobsOwn, Idle
  <2> QED
    BY <2>1 DEF Base, TypeOK
<1>4. ASSUME NEW h \in Handler, job[h].at # "idle", Home[h] # p PROVE job[h].call \notin L
  BY <1>4, MineShape
<1> HIDE DEF L
<1>5. /\ log' \in Seq(Call) /\ Len(log') = Len(log) /\ DOMAIN log' = DOMAIN log
      /\ \A i \in DOMAIN log : log'[i] = IF i \in L THEN [log[i] EXCEPT !.fate = "lost"] ELSE log[i]
  BY <1>2, LogLoses DEF Base
<1>6. \A i \in DOMAIN log :
        /\ log'[i].client = log[i].client /\ log'[i].time = log[i].time
        /\ log'[i].process = log[i].process /\ log'[i].life = log[i].life
        /\ log[i].fate # "pending" => log'[i] = log[i]
        /\ log'[i].fate \notin {"pending", "lost"} => log'[i] = log[i]
  <2> SUFFICES ASSUME NEW i \in DOMAIN log
               PROVE  /\ log'[i].client = log[i].client /\ log'[i].time = log[i].time
                      /\ log'[i].process = log[i].process /\ log'[i].life = log[i].life
                      /\ log[i].fate # "pending" => log'[i] = log[i]
                      /\ log'[i].fate \notin {"pending", "lost"} => log'[i] = log[i]
    OBVIOUS
  <2>1. CASE i \in L
    <3>1. log'[i] = [log[i] EXCEPT !.fate = "lost"] /\ log[i].fate = "pending" /\ log[i] \in Call
      BY <1>3, <1>5, <2>1, LogShape DEF Base
    <3> QED
      BY <3>1 DEF Call
  <2>2. CASE i \notin L
    BY <1>5, <2>2
  <2> QED
    BY <2>1, <2>2
<1>7. \A h \in Handler :
        /\ job'[h] = IF Home[h] = p THEN Idle ELSE job[h]
        /\ job[h].at # "idle" /\ Home[h] # p => log'[job[h].call] = log[job[h].call]
  <2>1. \A h \in Handler : job'[h] = IF Home[h] = p THEN Idle ELSE job[h]
    BY DEF Restart
  <2> QED
    BY <1>4, <1>5, <2>1, MineShape
<1>8. job' \in [Handler -> Job]
  <2>1. Idle \in Job /\ job \in [Handler -> Job]
    BY Constants DEF Idle, Job, Base, TypeOK
  <2>2. job' = [h \in Handler |-> IF Home[h] = p THEN Idle ELSE job[h]]
    BY DEF Restart
  <2> QED
    BY <2>1, <2>2
<1>9. /\ \A q \in Process, b \in Bucket : events'[q][b] = IF q = p THEN {} ELSE events[q][b]
      /\ events' \in [Process -> [Bucket -> SUBSET DOMAIN log]]
  <2>1. events' = [events EXCEPT ![p] = [b \in Bucket |-> {}]]
    BY DEF Restart
  <2>2. events \in [Process -> [Bucket -> SUBSET DOMAIN log]]
    BY DEF Base, TypeOK
  <2> QED
    BY <2>1, <2>2
<1> QED
  BY <1>1, <1>5, <1>6, <1>7, <1>8, <1>9

\* A restart begins a life that has counted nothing.
LEMMA RestartBase ==
  ASSUME Base, NEW p \in Process, Restart(p)
  PROVE  Base'
<1>1. /\ restarts' = restarts + 1 /\ restarts' \in 0..MaxRestarts /\ restarts \in Nat
      /\ life' = [life EXCEPT ![p] = restarts + 1] /\ life \in [Process -> 0..restarts]
      /\ UNCHANGED <<redis, now, zset, faults>>
      /\ log' \in Seq(Call) /\ Len(log') = Len(log) /\ DOMAIN log' = DOMAIN log
      /\ \A q \in Process, b \in Bucket : events'[q][b] = IF q = p THEN {} ELSE events[q][b]
      /\ events' \in [Process -> [Bucket -> SUBSET DOMAIN log]]
  BY RestartShape
<1>2. \A i \in DOMAIN log :
        /\ log'[i].client = log[i].client /\ log'[i].time = log[i].time
        /\ log'[i].process = log[i].process /\ log'[i].life = log[i].life
        /\ log[i].fate # "pending" => log'[i] = log[i]
        /\ log'[i].fate \notin {"pending", "lost"} => log'[i] = log[i]
  BY RestartShape
<1>3. /\ \A h \in Handler :
           /\ job'[h] = IF Home[h] = p THEN Idle ELSE job[h]
           /\ job[h].at # "idle" /\ Home[h] # p => log'[job[h].call] = log[job[h].call]
      /\ job' \in [Handler -> Job]
  BY RestartShape
<1>4. Idle.at = "idle" /\ Idle.call = 0 /\ 0 \notin DOMAIN log
  BY LogShape DEF Idle, Base
<1>5. ASSUME NEW h \in Handler, job'[h].at # "idle"
      PROVE  /\ Home[h] # p /\ job'[h] = job[h] /\ job[h].at # "idle"
             /\ job[h].call \in DOMAIN log
             /\ log'[job[h].call] = log[job[h].call] /\ Mine(h).fate = "pending"
  <2>1. Home[h] # p /\ job'[h] = job[h] /\ job[h].at # "idle"
    BY <1>3, <1>4, <1>5
  <2> QED
    BY <1>3, <2>1, MineShape
<1>6. \A q \in Process : /\ life'[q] = IF q = p THEN restarts + 1 ELSE life[q]
                         /\ life'[q] \in 0..restarts + 1
  BY <1>1
<1>7. TypeOK'
  <2>1. life' \in [Process -> 0..restarts']
    BY <1>1
  <2>2. \A h \in Handler : job'[h].at # "idle" => /\ job'[h].call \in DOMAIN log'
                                                  /\ log'[job'[h].call].fate = "pending"
    BY <1>1, <1>5 DEF Mine
  <2> QED
    BY <1>1, <1>3, <2>1, <2>2 DEF Base, TypeOK
<1>8. JobsOwn'
  <2> SUFFICES ASSUME NEW g \in Handler
               PROVE  /\ job'[g].at = "idle" => job'[g] = Idle
                      /\ job'[g].at # "idle" =>
                           /\ redis
                           /\ log'[job'[g].call].process = Home[g]
                           /\ log'[job'[g].call].life = life'[Home[g]]
                           /\ now <= log'[job'[g].call].time + MaxDelay
                           /\ \A f \in Handler : job'[f].call = job'[g].call => f = g
    BY <1>1 DEF JobsOwn, Mine
  <2>1. job'[g].at = "idle" => job'[g] = Idle
    BY <1>3 DEF Base, JobsOwn
  <2>2. ASSUME job'[g].at # "idle"
        PROVE  /\ redis
               /\ log'[job'[g].call].process = Home[g]
               /\ log'[job'[g].call].life = life'[Home[g]]
               /\ now <= log'[job'[g].call].time + MaxDelay
               /\ \A f \in Handler : job'[f].call = job'[g].call => f = g
    <3>1. /\ Home[g] # p /\ job'[g] = job[g] /\ job[g].call \in DOMAIN log
          /\ log'[job[g].call] = log[job[g].call] /\ Home[g] \in Process
      BY <1>5, <2>2, Constants
    <3>2. /\ redis
          /\ log[job[g].call].process = Home[g]
          /\ log[job[g].call].life = life[Home[g]]
          /\ now <= log[job[g].call].time + MaxDelay
          /\ \A f \in Handler : job[f].call = job[g].call => f = g
      BY <2>2, <3>1 DEF Base, JobsOwn, Mine
    <3>3. \A f \in Handler : job'[f].call = job[g].call => job[f].call = job[g].call
      BY <1>3, <1>4, <3>1
    <3> QED
      BY <1>6, <3>1, <3>2, <3>3
  <2> QED
    BY <2>1, <2>2
<1>9. Clocked'
  <2> SUFFICES ASSUME NEW i \in DOMAIN log
               PROVE  /\ log'[i].time <= now /\ log'[i].life <= restarts + 1
                      /\ log'[i].fate = "shared" => redis
                      /\ log'[i].fate = "local" =>
                           /\ log'[i].time <= log'[i].stamp /\ log'[i].stamp <= now
                           /\ log'[i].stamp <= log'[i].time + Delay
    BY <1>1 DEF Clocked, Delay
  <2>1. log[i].time <= now /\ log[i].life <= restarts /\ log[i].life \in Nat
    BY LogShape DEF Base, Clocked
  <2> QED
    BY <1>1, <1>2, <2>1 DEF Base, Clocked
<1>10. DequesHold'
  <2> SUFFICES ASSUME NEW q \in Process, NEW b \in Bucket, NEW i \in events'[q][b]
               PROVE  /\ log'[i].fate = "local" /\ Label[log'[i].client] = b
                      /\ log'[i].process = q /\ log'[i].life = life'[q]
    BY DEF DequesHold
  <2>1. q # p /\ i \in events[q][b] /\ i \in DOMAIN log
    BY <1>1, KeptShape
  <2> QED
    BY <1>2, <1>6, <2>1 DEF Base, DequesHold
<1>11. ZsetsHold'
  <2>1. \A b \in Bucket : zset[b] \subseteq DOMAIN log
    BY DEF Base, TypeOK
  <2>2. \A b \in Bucket : \A i \in zset[b] : Label[log[i].client] = b
    BY DEF Base, ZsetsHold
  <2>3. zset' = zset /\ \A i \in DOMAIN log : log'[i].client = log[i].client
    BY <1>1, <1>2
  <2> QED
    BY <2>1, <2>2, <2>3 DEF ZsetsHold
<1>12. DequesRemember'
  <2> SUFFICES ASSUME NEW i \in DOMAIN log, log'[i].fate = "local",
                      log'[i].life = life'[log'[i].process], log'[i].stamp + Window >= now
               PROVE  i \in events'[log'[i].process][Label[log'[i].client]]
    BY <1>1 DEF DequesRemember
  <2>1. /\ log'[i] = log[i] /\ log[i].process \in Process /\ Label[log[i].client] \in Bucket
        /\ log[i].life <= restarts /\ log[i].life \in Nat
    BY <1>2, LogShape DEF Base, Clocked
  <2>2. log[i].process # p
    BY <1>1, <1>6, <2>1
  <2>3. i \in events[log[i].process][Label[log[i].client]]
    BY <1>6, <2>1, <2>2 DEF Base, DequesRemember
  <2> QED
    BY <1>1, <2>1, <2>2, <2>3
<1>13. ZsetsRemember'
  <2>1. \A i \in DOMAIN log : Filed(i)' => Filed(i)
    BY <1>2, <1>5 DEF Filed, Waiting
  <2> QED
    BY <1>1, <1>2, <2>1 DEF Base, ZsetsRemember
<1> QED
  BY <1>7, <1>8, <1>9, <1>10, <1>11, <1>12, <1>13 DEF Base

\* Nothing has been counted at first.
LEMMA InitBase == Init => Base
<1> SUFFICES ASSUME Init PROVE Base
  OBVIOUS
<1>1. log = <<>> /\ DOMAIN log = {} /\ log \in Seq(Call) /\ Len(log) = 0
  <2>1. log = <<>>
    BY DEF Init
  <2> QED
    BY <2>1
<1>2. TypeOK
  BY <1>1, Constants DEF Init, TypeOK, Time, Job, Idle
<1>3. JobsOwn
  BY DEF Init, JobsOwn, Idle
<1>4. Clocked /\ DequesHold /\ ZsetsHold /\ DequesRemember /\ ZsetsRemember
  BY <1>1 DEF Init, Clocked, DequesHold, ZsetsHold, DequesRemember, ZsetsRemember
<1> QED
  BY <1>2, <1>3, <1>4 DEF Base

\* The windows remember what they counted, through every step.
LEMMA NextBase == Base /\ [Next]_vars => Base'
<1> SUFFICES ASSUME Base, [Next]_vars PROVE Base'
  OBVIOUS
<1>1. CASE \E h \in Handler, c \in Client : CallMemory(h, c)
  BY <1>1, CallMemoryBase
<1>2. CASE \E h \in Handler, c \in Client : CallRedis(h, c)
  BY <1>2, CallRedisBase
<1>3. CASE \E h \in Handler : Transact(h)
  BY <1>3, TransactBase
<1>4. CASE \E h \in Handler : ReadOldest(h)
  BY <1>4, ReadOldestBase
<1>5. CASE \E h \in Handler, applied \in BOOLEAN : FallBack(h, applied)
  BY <1>5, FallBackBase
<1>6. CASE Tick
  BY <1>6, TickBase
<1>7. CASE \E p \in Process : Restart(p)
  BY <1>7, RestartBase
<1>8. CASE UNCHANGED vars
  <2>1. /\ UNCHANGED <<redis, now, life, events, zset, job, log, faults, restarts>>
        /\ \A i : Filed(i)' <=> Filed(i)
        /\ \A h \in Handler : Mine(h)' = Mine(h)
    BY <1>8 DEF vars, Filed, Waiting, Mine
  <2>2. TypeOK' /\ JobsOwn' /\ Clocked'
    BY <2>1 DEF Base, TypeOK, JobsOwn, Clocked, Delay
  <2>3. DequesHold' /\ ZsetsHold' /\ DequesRemember' /\ ZsetsRemember'
    BY <2>1 DEF Base, DequesHold, ZsetsHold, DequesRemember, ZsetsRemember
  <2> QED
    BY <2>2, <2>3 DEF Base
<1> QED
  BY <1>1, <1>2, <1>3, <1>4, <1>5, <1>6, <1>7, <1>8 DEF Next

-----------------------------------------------------------------------------
(* The kinds of steps: which calls are new among the admitted ones. *)

\* What no step changes.
Steady ==
  /\ redis' = redis /\ now <= now' /\ faults <= faults' /\ restarts <= restarts'
  /\ DOMAIN log \subseteq DOMAIN log'
  /\ \A i \in DOMAIN log :
       /\ log'[i].client = log[i].client /\ log'[i].time = log[i].time
       /\ log'[i].process = log[i].process /\ log'[i].life = log[i].life
       /\ log[i].fate # "pending" => log'[i] = log[i]

Quiet == \A i \in DOMAIN log' : log'[i].fate \in {"local", "shared"} =>
                                  i \in DOMAIN log /\ log'[i] = log[i]

\* Redis admits the request of a handler.
Admits(h) ==
  /\ job[h].at # "idle" /\ Cardinality(Joined(h)) <= Limit[Mine(h).client]
  /\ DOMAIN log' = DOMAIN log /\ log'[job[h].call] = [Mine(h) EXCEPT !.fate = "shared"]
  /\ \A i \in DOMAIN log \ {job[h].call} : log'[i] = log[i]
  /\ UNCHANGED <<now, life, events, restarts, faults>>

\* Counting a call changes no other call and leaves its origin.
LEMMA CountsSteady ==
  ASSUME Base, NEW call, NEW i, Counts(call, i), faults <= faults'
  PROVE  Steady
<1>1. /\ call.process = Counted(call).process /\ call.client = Counted(call).client
      /\ call.life = Counted(call).life /\ call.time = Counted(call).time
  BY Decision DEF Counts
<1>2. now \in Nat /\ restarts \in Nat
  BY Constants DEF Base, TypeOK, Time
<1>3. ASSUME NEW j \in DOMAIN log
      PROVE  /\ log'[j].client = log[j].client /\ log'[j].time = log[j].time
             /\ log'[j].process = log[j].process /\ log'[j].life = log[j].life
             /\ log[j].fate # "pending" => log'[j] = log[j]
  <2>1. CASE j = i
    BY <1>1, <2>1 DEF Counts
  <2>2. CASE j # i
    BY <2>2 DEF Counts
  <2> QED
    BY <2>1, <2>2
<1> QED
  BY <1>2, <1>3 DEF Steady, Counts

\* A transaction admits its call or leaves the log as it is.
LEMMA TransactKind ==
  ASSUME Base, NEW h \in Handler, Transact(h)
  PROVE  Steady /\ (log' = log \/ Admits(h))
<1> DEFINE i == job[h].call
           e == [Mine(h) EXCEPT !.fate = "shared"]
<1>1. /\ job[h].at # "idle" /\ i \in DOMAIN log /\ Mine(h) = log[i]
      /\ Mine(h) \in Call /\ Mine(h).fate = "pending" /\ Limit[Mine(h).client] \in Nat
      /\ Cardinality(Joined(h)) \in Nat
  <2>1. job[h].at # "idle"
    BY DEF Transact
  <2> QED
    BY <2>1, MineShape, JoinedShape DEF Mine
<1>2. UNCHANGED <<redis, now, life, events, faults, restarts>>
  BY DEF Transact
<1>3. faults \in Nat /\ restarts \in Nat /\ now \in Nat
  BY Constants DEF Base, TypeOK, Time
<1>4. CASE Cardinality(Joined(h)) > Limit[Mine(h).client]
  <2>1. log' = log
    BY <1>4 DEF Transact
  <2> QED
    BY <1>2, <1>3, <2>1 DEF Steady
<1>5. CASE ~(Cardinality(Joined(h)) > Limit[Mine(h).client])
  <2>1. log' = [log EXCEPT ![i] = e]
    BY <1>5 DEF Transact, Mine
  <2>2. /\ e \in Call /\ e.client = Mine(h).client /\ e.time = Mine(h).time
        /\ e.process = Mine(h).process /\ e.life = Mine(h).life
    BY <1>1 DEF Call
  <2> HIDE DEF e, i
  <2>3. DOMAIN log' = DOMAIN log /\ log'[i] = e /\ \A j \in DOMAIN log \ {i} : log'[j] = log[j]
    BY <1>1, <2>1, <2>2, LogSettles DEF Base
  <2>4. Admits(h)
    BY <1>1, <1>2, <1>5, <2>3 DEF Admits, e, i
  <2>5. Steady
    <3> SUFFICES ASSUME NEW j \in DOMAIN log
                 PROVE  /\ log'[j].client = log[j].client /\ log'[j].time = log[j].time
                        /\ log'[j].process = log[j].process /\ log'[j].life = log[j].life
                        /\ log[j].fate # "pending" => log'[j] = log[j]
      BY <1>2, <1>3, <2>3 DEF Steady
    <3> QED
      BY <1>1, <2>2, <2>3
  <2> QED
    BY <2>4, <2>5
<1> QED
  BY <1>4, <1>5

\* A step counts a call in memory, admits one by Redis, or admits none.
LEMMA StepKinds ==
  ASSUME Base, [Next]_vars
  PROVE  /\ Steady
         /\ \/ \E call, i : Counts(call, i) /\ (redis => faults' = faults + 1)
            \/ \E h \in Handler : Admits(h)
            \/ Quiet
<1>0. faults \in Nat /\ restarts \in Nat /\ now \in Nat
  BY Constants DEF Base, TypeOK, Time
<1>1. ASSUME NEW h \in Handler, NEW c \in Client, CallMemory(h, c)
      PROVE  Steady /\ \E call, i : Counts(call, i) /\ (redis => faults' = faults + 1)
  <2>1. Counts(Arrived(h, c), Len(log) + 1) /\ ~redis /\ faults' = faults
    BY <1>1, CallMemoryCounts DEF CallMemory
  <2>2. Steady
    BY <1>0, <2>1, CountsSteady
  <2> QED
    BY <2>1, <2>2
<1>2. ASSUME NEW h \in Handler, NEW c \in Client, CallRedis(h, c)
      PROVE  Steady /\ Quiet
  <2>1. log' = Append(log, Arrived(h, c)) /\ UNCHANGED <<redis, now, faults, restarts>>
    BY <1>2 DEF CallRedis
  <2>2. Arrived(h, c) \in Call /\ Arrived(h, c).fate = "pending"
    <3>1. /\ now \in Time /\ life \in [Process -> 0..restarts] /\ restarts \in 0..MaxRestarts
          /\ Home[h] \in Process /\ MaxRestarts \in Nat /\ MaxTime \in Nat
      BY Constants DEF Base, TypeOK
    <3>2. life[Home[h]] \in 0..MaxRestarts
      BY <3>1
    <3> QED
      BY <3>1, <3>2 DEF Arrived, Call, Time
  <2>3. /\ DOMAIN log' = DOMAIN log \cup {Len(log) + 1} /\ \A j \in DOMAIN log : log'[j] = log[j]
        /\ log'[Len(log) + 1].fate = "pending"
    BY <2>1, <2>2, LogGrows DEF Base
  <2> QED
    BY <1>0, <2>1, <2>3 DEF Steady, Quiet
<1>3. ASSUME NEW h \in Handler, Transact(h)
      PROVE  Steady /\ (Admits(h) \/ Quiet)
  BY <1>3, TransactKind DEF Quiet
<1>4. ASSUME NEW h \in Handler, ReadOldest(h)
      PROVE  Steady /\ Quiet
  <2> DEFINE i == job[h].call
  <2>1. PICK e \in Call :
          /\ log' = [log EXCEPT ![i] = e]
          /\ e.client = Mine(h).client /\ e.process = Mine(h).process
          /\ e.life = Mine(h).life /\ e.time = Mine(h).time /\ e.fate = "refused"
    BY <1>4, OldestShape
  <2>2. i \in DOMAIN log /\ Mine(h) = log[i] /\ Mine(h).fate = "pending"
    BY <1>4, MineShape DEF ReadOldest, Mine
  <2> HIDE DEF i
  <2>3. /\ DOMAIN log' = DOMAIN log /\ log'[i] = e
        /\ \A j \in DOMAIN log \ {i} : log'[j] = log[j]
    BY <2>1, <2>2, LogSettles DEF Base
  <2>4. UNCHANGED <<redis, now, faults, restarts>>
    BY <1>4 DEF ReadOldest
  <2>5. Steady
    <3> SUFFICES ASSUME NEW j \in DOMAIN log
                 PROVE  /\ log'[j].client = log[j].client /\ log'[j].time = log[j].time
                        /\ log'[j].process = log[j].process /\ log'[j].life = log[j].life
                        /\ log[j].fate # "pending" => log'[j] = log[j]
      BY <1>0, <2>3, <2>4 DEF Steady
    <3> QED
      BY <2>1, <2>2, <2>3
  <2>6. Quiet
    BY <2>1, <2>3 DEF Quiet
  <2> QED
    BY <2>5, <2>6
<1>5. ASSUME NEW h \in Handler, NEW applied \in BOOLEAN, FallBack(h, applied)
      PROVE  Steady /\ \E call, i : Counts(call, i) /\ (redis => faults' = faults + 1)
  <2>1. Counts(Mine(h), job[h].call) /\ faults' = faults + 1
    BY <1>5, FallBackCounts DEF FallBack
  <2>2. Steady
    BY <1>0, <2>1, CountsSteady
  <2> QED
    BY <2>1, <2>2
<1>6. ASSUME Tick
      PROVE  Steady /\ Quiet
  BY <1>0, <1>6 DEF Tick, Steady, Quiet
<1>7. ASSUME NEW p \in Process, Restart(p)
      PROVE  Steady /\ Quiet
  <2>1. /\ DOMAIN log' = DOMAIN log /\ restarts' = restarts + 1 /\ UNCHANGED <<redis, now, faults>>
        /\ \A i \in DOMAIN log :
             /\ log'[i].client = log[i].client /\ log'[i].time = log[i].time
             /\ log'[i].process = log[i].process /\ log'[i].life = log[i].life
             /\ log[i].fate # "pending" => log'[i] = log[i]
             /\ log'[i].fate \notin {"pending", "lost"} => log'[i] = log[i]
    BY <1>7, RestartShape
  <2> QED
    BY <1>0, <2>1 DEF Steady, Quiet
<1>8. ASSUME UNCHANGED vars
      PROVE  Steady /\ Quiet
  BY <1>0, <1>8 DEF vars, Steady, Quiet
<1> QED
  BY <1>1, <1>2, <1>3, <1>4, <1>5, <1>6, <1>7, <1>8 DEF Next

\* A call arrives in the life its process is in.
LEMMA Arrivals ==
  ASSUME Base, [Next]_vars
  PROVE  \/ \E p \in Process : Restart(p)
         \/ /\ life' = life
            /\ \A i \in DOMAIN log' \ DOMAIN log :
                 /\ log'[i].process \in Process
                 /\ log'[i].life = life[log'[i].process]
<1>1. ASSUME NEW h \in Handler, NEW c \in Client, CallMemory(h, c)
      PROVE  /\ life' = life
             /\ \A i \in DOMAIN log' \ DOMAIN log :
                  log'[i].process \in Process /\ log'[i].life = life[log'[i].process]
  <2>1. Counts(Arrived(h, c), Len(log) + 1)
    BY <1>1, CallMemoryCounts
  <2>2. /\ Arrived(h, c).process = Home[h] /\ Arrived(h, c).life = life[Home[h]]
        /\ Arrived(h, c) \in Call
    BY <2>1 DEF Arrived, Counts
  <2>3. /\ Counted(Arrived(h, c)).process = Arrived(h, c).process
        /\ Counted(Arrived(h, c)).life = Arrived(h, c).life
    BY <2>2, Decision
  <2> QED
    BY <2>1, <2>2, <2>3, Constants DEF Counts
<1>2. ASSUME NEW h \in Handler, NEW c \in Client, CallRedis(h, c)
      PROVE  /\ life' = life
             /\ \A i \in DOMAIN log' \ DOMAIN log :
                  log'[i].process \in Process /\ log'[i].life = life[log'[i].process]
  <2>1. log' = Append(log, Arrived(h, c)) /\ life' = life
    BY <1>2 DEF CallRedis
  <2>2. /\ Arrived(h, c) \in Call /\ Arrived(h, c).process = Home[h]
        /\ Arrived(h, c).life = life[Home[h]]
    <3>1. /\ now \in Time /\ life \in [Process -> 0..restarts] /\ restarts \in 0..MaxRestarts
          /\ Home[h] \in Process /\ MaxRestarts \in Nat /\ MaxTime \in Nat
      BY Constants DEF Base, TypeOK
    <3>2. life[Home[h]] \in 0..MaxRestarts
      BY <3>1
    <3> QED
      BY <3>1, <3>2 DEF Arrived, Call, Time
  <2>3. DOMAIN log' = DOMAIN log \cup {Len(log) + 1} /\ log'[Len(log) + 1] = Arrived(h, c)
    BY <2>1, <2>2, LogGrows DEF Base
  <2> QED
    BY <2>1, <2>2, <2>3, Constants
<1>3. ASSUME NEW h \in Handler, Transact(h)
      PROVE  life' = life /\ DOMAIN log' = DOMAIN log
  BY <1>3, TransactKind DEF Transact, Admits
<1>4. ASSUME NEW h \in Handler, ReadOldest(h)
      PROVE  life' = life /\ DOMAIN log' = DOMAIN log
  BY <1>4 DEF ReadOldest
<1>5. ASSUME NEW h \in Handler, NEW applied \in BOOLEAN, FallBack(h, applied)
      PROVE  life' = life /\ DOMAIN log' = DOMAIN log
  BY <1>5 DEF FallBack
<1>6. ASSUME Tick \/ UNCHANGED vars
      PROVE  life' = life /\ DOMAIN log' = DOMAIN log
  BY <1>6 DEF Tick, vars
<1> QED
  BY <1>1, <1>2, <1>3, <1>4, <1>5, <1>6 DEF Next

\* Restarts are numbered, so each begins the life of one process.
LEMMA NextLivesApart ==
  ASSUME Base, LivesApart, [Next]_vars
  PROVE  LivesApart'
<1>1. /\ DOMAIN log \subseteq DOMAIN log'
      /\ \A i \in DOMAIN log : log'[i].process = log[i].process /\ log'[i].life = log[i].life
  BY StepKinds DEF Steady
<1>2. /\ \A i \in DOMAIN log : log[i].life <= restarts /\ log[i].life \in Nat
      /\ restarts \in Nat /\ life \in [Process -> 0..restarts]
  BY LogShape, Constants DEF Base, Clocked, TypeOK
<1>3. CASE \E p \in Process : Restart(p)
  <2>1. PICK p \in Process : Restart(p)
    BY <1>3
  <2>2. /\ DOMAIN log' = DOMAIN log
        /\ \A q \in Process : life'[q] = IF q = p THEN restarts + 1 ELSE life[q]
    BY <2>1, RestartShape
  <2>3. \A q \in Process : life[q] <= restarts /\ life[q] \in Nat
    BY <1>2
  <2>4. /\ \A q \in Process : life[q] # restarts + 1
        /\ \A i \in DOMAIN log : log[i].life # restarts + 1
    BY <1>2, <2>3
  <2> QED
    BY <1>1, <2>2, <2>4 DEF LivesApart
<1>4. CASE /\ life' = life
           /\ \A i \in DOMAIN log' \ DOMAIN log :
                log'[i].process \in Process /\ log'[i].life = life[log'[i].process]
  <2>1. \A i \in DOMAIN log' : \A p \in Process :
          log'[i].life = life[p] /\ life[p] # 0 => log'[i].process = p
    BY <1>1, <1>4 DEF LivesApart
  <2>2. \A i, j \in DOMAIN log' :
          log'[i].life = log'[j].life /\ log'[i].life # 0 => log'[i].process = log'[j].process
    <3> SUFFICES ASSUME NEW i \in DOMAIN log', NEW j \in DOMAIN log',
                        log'[i].life = log'[j].life, log'[i].life # 0
                 PROVE  log'[i].process = log'[j].process
      OBVIOUS
    <3>1. CASE i \notin DOMAIN log
      BY <1>4, <2>1, <3>1
    <3>2. CASE j \notin DOMAIN log
      BY <1>4, <2>1, <3>2
    <3>3. CASE i \in DOMAIN log /\ j \in DOMAIN log
      BY <1>1, <3>3 DEF LivesApart
    <3> QED
      BY <3>1, <3>2, <3>3
  <2> QED
    BY <1>4, <2>1, <2>2 DEF LivesApart
<1> QED
  BY <1>3, <1>4, Arrivals

-----------------------------------------------------------------------------
(* What each window admits. *)

\* A set that gains one element at most.
LEMMA OneMore ==
  ASSUME NEW S, IsFiniteSet(S), NEW x, NEW T \in SUBSET (S \cup {x})
  PROVE  /\ IsFiniteSet(T) /\ Cardinality(T) \in Nat /\ Cardinality(S) \in Nat
         /\ Cardinality(T) <= Cardinality(S) + 1
<1>1. IsFiniteSet(S \cup {x}) /\ Cardinality(S \cup {x}) <= Cardinality(S) + 1
  <2>1. Cardinality(S) \in Nat
    BY FS_CardinalityType
  <2>2. CASE x \in S
    <3>1. S \cup {x} = S
      BY <2>2
    <3> QED
      BY <2>1, <3>1
  <2>3. CASE x \notin S
    <3>1. IsFiniteSet(S \cup {x})
      BY FS_AddElement
    <3>2. Cardinality(S \cup {x}) = Cardinality(S) + 1
      BY <2>3, FS_AddElement
    <3> QED
      BY <2>1, <3>1, <3>2
  <2> QED
    BY <2>2, <2>3
<1>2. IsFiniteSet(T) /\ Cardinality(T) <= Cardinality(S \cup {x})
  BY <1>1, FS_Subset
<1> QED
  BY <1>1, <1>2, FS_CardinalityType

\* Only a step that counts adds to what a process has admitted: with the call,
\* only what its deque has kept is within the same window.
LEMMA NextLocalBelow ==
  ASSUME Base, LocalBelow, [Next]_vars
  PROVE  LocalBelow'
<1>1. Base'
  BY NextBase
<1>2. /\ redis' = redis /\ Stretch' = Stretch /\ Delay' = Delay
      /\ Stretch \in Nat /\ Delay \in Nat /\ Stretch + Delay <= Window
  <2>1. redis' = redis
    BY StepKinds DEF Steady
  <2> QED
    BY <2>1, Constants DEF Stretch, Delay
<1> SUFFICES ASSUME NEW c \in Client, NEW p \in Process, NEW n \in 0..MaxRestarts,
                    NEW t \in Time, HasTopLimit(c)
             PROVE  Cardinality(LocalIn(p, n, Label[c], t)') <= Limit[c]
  BY DEF LocalBelow, HasTopLimit
<1> DEFINE Old == LocalIn(p, n, Label[c], t)
           New == {i \in DOMAIN log' : /\ log'[i].fate = "local" /\ Label[log'[i].client] = Label[c]
                                       /\ log'[i].process = p /\ log'[i].life = n
                                       /\ log'[i].time \in t..t + Stretch}
<1>3. LocalIn(p, n, Label[c], t)' = New
  BY <1>2 DEF LocalIn
<1>4. IsFiniteSet(Old) /\ Cardinality(Old) \in Nat /\ Cardinality(Old) <= Limit[c]
  <2>1. Old \subseteq DOMAIN log
    BY DEF LocalIn
  <2>2. IsFiniteSet(Old)
    BY <2>1, LogShape, FS_Subset DEF Base
  <2>3. Cardinality(Old) <= Limit[c]
    BY DEF LocalBelow
  <2> QED
    BY <2>2, <2>3, FS_CardinalityType
<1>5. Limit[c] \in Nat /\ t \in Nat /\ now \in Nat
  BY Constants DEF Time, Base, TypeOK
<1>6. CASE New \subseteq Old
  <2>1. Cardinality(New) <= Cardinality(Old) /\ Cardinality(New) \in Nat
    BY <1>4, <1>6, FS_Subset, FS_CardinalityType
  <2> QED
    BY <1>3, <1>4, <1>5, <2>1
<1>7. CASE ~(New \subseteq Old)
  <2>1. PICK i \in New : i \notin Old
    BY <1>7
  <2>2. ~(i \in DOMAIN log /\ log'[i] = log[i])
    BY <2>1 DEF LocalIn
  <2>3. PICK call, k : Counts(call, k)
    <3>1. ~Quiet
      BY <2>1, <2>2 DEF Quiet
    <3>2. \A h \in Handler : ~Admits(h)
      <4> SUFFICES ASSUME NEW h \in Handler, Admits(h) PROVE FALSE
        OBVIOUS
      <4>1. Mine(h) \in Call
        BY MineShape DEF Admits
      <4>2. i \in DOMAIN log /\ i = job[h].call
        BY <2>1, <2>2 DEF Admits
      <4>3. log'[i].fate = "shared"
        BY <4>1, <4>2 DEF Admits, Call
      <4> QED
        BY <2>1, <4>3
    <3> QED
      BY <3>1, <3>2, StepKinds
  <2>4. /\ k = i /\ DOMAIN log' = DOMAIN log \cup {i} /\ log'[i] = Counted(call)
        /\ \A j \in DOMAIN log \ {i} : log'[j] = log[j]
    BY <2>1, <2>2, <2>3 DEF Counts
  <2>5. /\ call \in Call /\ call.life = life[call.process] /\ call.fate = "pending"
        /\ now <= call.time + Delay /\ (i \in DOMAIN log => log[i] = call)
    BY <2>3, <2>4 DEF Counts
  <2>6. /\ call.client \in Client /\ call.time \in Nat /\ call.process = p /\ call.life = n
        /\ Label[call.client] = Label[c] /\ call.time <= t + Stretch /\ HasRoom(call)
        /\ Limit[call.client] \in Nat
    <3>1. /\ Counted(call).client = call.client /\ Counted(call).process = call.process
          /\ Counted(call).life = call.life /\ Counted(call).time = call.time
          /\ ~HasRoom(call) => Counted(call).fate = "refused"
      BY <2>5, Decision
    <3>2. call.client \in Client /\ call.time \in Nat
      BY <2>5, Constants DEF Call, Time
    <3> QED
      BY <1>2, <1>5, <2>1, <2>4, <3>1, <3>2, Constants
  <2> DEFINE K == Kept(p, Label[c])
  <2>7. New \subseteq K \cup {i}
    <3> SUFFICES ASSUME NEW j \in New, j # i PROVE j \in K
      OBVIOUS
    <3>1. j \in DOMAIN log /\ log'[j] = log[j]
      BY <2>4
    <3>2. /\ log[j].fate = "local" /\ log[j].process = p /\ log[j].life = life[p]
          /\ Label[log[j].client] = Label[c] /\ log[j].time \in t..t + Stretch
      BY <2>5, <2>6, <3>1
    <3>3. /\ log[j].stamp \in Nat /\ log[j].time \in Nat
          /\ log[j].time <= log[j].stamp /\ t <= log[j].time
      BY <1>2, <1>5, <3>1, <3>2, LogShape DEF Base, Clocked
    <3>4. log[j].stamp + Window >= now
      BY <1>2, <1>5, <2>5, <2>6, <3>3, Constants
    <3>5. j \in events[p][Label[c]]
      BY <3>1, <3>2, <3>4 DEF Base, DequesRemember
    <3> QED
      BY <3>4, <3>5 DEF Kept
  <2>8. /\ IsFiniteSet(K) /\ Cardinality(K) \in Nat /\ Cardinality(K) < Limit[call.client]
        /\ Limit[call.client] <= Limit[c]
    <3>1. Label[c] \in Bucket
      BY Constants
    <3>2. IsFiniteSet(K) /\ Cardinality(K) \in Nat
      BY <3>1, KeptShape
    <3>3. Cardinality(K) < Limit[call.client]
      BY <2>6 DEF HasRoom
    <3>4. Limit[call.client] <= Limit[c]
      BY <2>6 DEF HasTopLimit
    <3> QED
      BY <3>2, <3>3, <3>4
  <2> HIDE DEF K, New
  <2>9. Cardinality(New) <= Cardinality(K) + 1 /\ Cardinality(New) \in Nat
    BY <2>7, <2>8, OneMore
  <2> QED
    BY <1>3, <1>5, <2>6, <2>8, <2>9
<1> QED
  BY <1>6, <1>7

\* Only an admission by Redis adds to what it has admitted.
LEMMA NextSharedBelow ==
  ASSUME Base, SharedBelow, [Next]_vars
  PROVE  SharedBelow'
<1>2. redis' = redis /\ Stretch' = Stretch
  <2>1. redis' = redis
    BY StepKinds DEF Steady
  <2> QED
    BY <2>1 DEF Stretch
<1> SUFFICES ASSUME NEW c \in Client, NEW t \in Time, HasTopLimit(c)
             PROVE  Cardinality(SharedIn(Label[c], t)') <= Limit[c]
  BY DEF SharedBelow, HasTopLimit
<1> DEFINE Old == SharedIn(Label[c], t)
           New == {i \in DOMAIN log' : /\ log'[i].fate = "shared" /\ Label[log'[i].client] = Label[c]
                                       /\ log'[i].time \in t..t + Stretch}
<1>3. SharedIn(Label[c], t)' = New
  BY <1>2 DEF SharedIn
<1>4. IsFiniteSet(Old) /\ Cardinality(Old) \in Nat /\ Cardinality(Old) <= Limit[c]
  <2>1. Old \subseteq DOMAIN log
    BY DEF SharedIn
  <2>2. IsFiniteSet(Old)
    BY <2>1, LogShape, FS_Subset DEF Base
  <2>3. Cardinality(Old) <= Limit[c]
    BY DEF SharedBelow
  <2> QED
    BY <2>2, <2>3, FS_CardinalityType
<1>5. Limit[c] \in Nat /\ t \in Nat /\ now \in Nat
  BY Constants DEF Time, Base, TypeOK
<1>6. CASE New \subseteq Old
  <2>1. Cardinality(New) <= Cardinality(Old) /\ Cardinality(New) \in Nat
    BY <1>4, <1>6, FS_Subset, FS_CardinalityType
  <2> QED
    BY <1>3, <1>4, <1>5, <2>1
<1>7. CASE ~(New \subseteq Old)
  <2>1. PICK i \in New : i \notin Old
    BY <1>7
  <2>2. ~(i \in DOMAIN log /\ log'[i] = log[i])
    BY <2>1 DEF SharedIn
  <2>3. PICK h \in Handler : Admits(h)
    <3>1. ~Quiet
      BY <2>1, <2>2 DEF Quiet
    <3>2. ASSUME NEW call, NEW k, Counts(call, k) PROVE FALSE
      <4>1. k = i /\ log'[i] = Counted(call) /\ call \in Call
        BY <2>1, <2>2, <3>2 DEF Counts
      <4> QED
        BY <2>1, <4>1, Decision
    <3> QED
      BY <3>1, <3>2, StepKinds
  <2>4. /\ i = job[h].call /\ DOMAIN log' = DOMAIN log
        /\ \A j \in DOMAIN log \ {i} : log'[j] = log[j]
        /\ log'[i] = [Mine(h) EXCEPT !.fate = "shared"] /\ job[h].at # "idle"
        /\ Cardinality(Joined(h)) <= Limit[Mine(h).client]
    BY <2>1, <2>2, <2>3 DEF Admits
  <2>5. /\ Mine(h) \in Call /\ Mine(h).time \in Nat /\ redis
        /\ now <= Mine(h).time + MaxDelay /\ Mine(h).client \in Client
    BY <2>4, MineShape DEF Call
  <2>6. Label[Mine(h).client] = Label[c] /\ Mine(h).time <= t + Stretch /\ Shelf(h) = Label[c]
    <3>1. log'[i].client = Mine(h).client /\ log'[i].time = Mine(h).time
      BY <2>4, <2>5 DEF Call
    <3> QED
      BY <2>1, <3>1 DEF Shelf
  <2>7. New \subseteq Joined(h)
    <3> SUFFICES ASSUME NEW j \in New, j # i PROVE j \in Joined(h)
      BY <2>4, JoinedShape
    <3>1. j \in DOMAIN log /\ log'[j] = log[j]
      BY <2>4
    <3>2. log[j].fate = "shared" /\ Label[log[j].client] = Label[c] /\ log[j].time >= t
      BY <3>1
    <3>3. Stretch = Window - MaxDelay - 1 /\ log[j].time \in Nat
      BY <2>5, <3>1, LogShape DEF Stretch, Base
    <3>4. log[j].time + Window > now
      BY <1>5, <2>5, <2>6, <3>2, <3>3, Constants
    <3>5. j \in zset[Shelf(h)]
      BY <2>6, <3>1, <3>2, <3>4 DEF Base, ZsetsRemember, Filed
    <3> QED
      BY <2>4, <3>4, <3>5, JoinedShape
  <2>8. /\ IsFiniteSet(Joined(h)) /\ Cardinality(Joined(h)) \in Nat
        /\ Limit[Mine(h).client] <= Limit[c] /\ Limit[Mine(h).client] \in Nat
    BY <2>4, <2>5, <2>6, JoinedShape, Constants DEF HasTopLimit
  <2>9. Cardinality(New) <= Cardinality(Joined(h)) /\ Cardinality(New) \in Nat
    BY <2>7, <2>8, FS_Subset, FS_CardinalityType
  <2> QED
    BY <1>3, <1>5, <2>4, <2>8, <2>9
<1> QED
  BY <1>6, <1>7

\* The processes that have decided for themselves are finitely many.
LEMMA LocalLivesFinite ==
  ASSUME TypeOK
  PROVE  IsFiniteSet(LocalLives) /\ Cardinality(LocalLives) \in Nat
<1> DEFINE L == {j \in DOMAIN log : log[j].fate = "local"}
           f == [i \in L |-> <<log[i].process, log[i].life>>]
<1>1. IsFiniteSet(L)
  BY LogShape, FS_Subset
<1>2. LocalLives = {f[i] : i \in L}
  BY DEF LocalLives
<1>3. f \in Surjection(L, LocalLives)
  <2>1. f \in [L -> LocalLives] /\ \A x \in LocalLives : \E i \in L : f[i] = x
    BY DEF LocalLives
  <2> HIDE DEF f, L
  <2> QED
    BY <2>1 DEF Surjection
<1> HIDE DEF f, L
<1>4. IsFiniteSet(LocalLives)
  BY <1>1, <1>3, FS_Surjection
<1> QED
  BY <1>4, FS_CardinalityType

\* With Redis, a process decides for itself only after an error.
LEMMA NextFewLocal ==
  ASSUME Base, FewLocal, [Next]_vars
  PROVE  FewLocal'
<1>1. redis' = redis /\ faults <= faults' /\ faults \in Nat /\ faults' \in Nat
  <2>1. Base'
    BY NextBase
  <2> QED
    BY <2>1, StepKinds, Constants DEF Steady, Base, TypeOK
<1>2. /\ IsFiniteSet(LocalLives) /\ Cardinality(LocalLives) \in Nat
  BY LocalLivesFinite DEF Base
<1> SUFFICES ASSUME redis PROVE Cardinality(LocalLives') <= faults'
  BY <1>1 DEF FewLocal
<1>3. CASE LocalLives' \subseteq LocalLives
  <2>1. Cardinality(LocalLives') <= Cardinality(LocalLives) /\ Cardinality(LocalLives') \in Nat
    BY <1>2, <1>3, FS_Subset, FS_CardinalityType
  <2> QED
    BY <1>1, <1>2, <2>1 DEF FewLocal
<1>4. ASSUME NEW call, NEW i, Counts(call, i), faults' = faults + 1
      PROVE  Cardinality(LocalLives') <= faults'
  <2>1. LocalLives' \in SUBSET (LocalLives \cup {<<call.process, call.life>>})
    <3>1. Counted(call).process = call.process /\ Counted(call).life = call.life
      BY <1>4, Decision DEF Counts
    <3> QED
      BY <1>4, <3>1 DEF LocalLives, Counts
  <2>2. Cardinality(LocalLives') <= Cardinality(LocalLives) + 1 /\ Cardinality(LocalLives') \in Nat
    BY <1>2, <2>1, OneMore
  <2> QED
    BY <1>1, <1>2, <1>4, <2>2 DEF FewLocal
<1>5. CASE Quiet
  <2>1. LocalLives' \subseteq LocalLives
    BY <1>5 DEF Quiet, LocalLives
  <2> QED
    BY <1>3, <2>1
<1>6. ASSUME NEW h \in Handler, Admits(h)
      PROVE  LocalLives' \subseteq LocalLives
  <2>1. log'[job[h].call].fate = "shared"
    <3>1. Mine(h) \in Call
      BY <1>6, MineShape DEF Admits
    <3> QED
      BY <1>6, <3>1 DEF Admits, Call
  <2> QED
    BY <1>6, <2>1 DEF Admits, LocalLives
<1> QED
  BY <1>3, <1>4, <1>5, <1>6, StepKinds

-----------------------------------------------------------------------------
(* Refusals. *)

\* The calls around a call stay there.
LEMMA NeighboursGrow ==
  ASSUME Base, [Next]_vars, NEW i \in DOMAIN log
  PROVE  Cardinality(Neighbours(i)') >= Cardinality(Neighbours(i))
<1>1. Base' /\ Steady
  BY NextBase, StepKinds
<1>2. Neighbours(i) \subseteq Neighbours(i)'
  BY <1>1 DEF Steady, Neighbours, Delay
<1>3. IsFiniteSet(Neighbours(i)')
  <2>1. IsFiniteSet(DOMAIN log')
    <3>1. log' \in Seq(Call)
      BY <1>1 DEF Base, TypeOK
    <3>2. Len(log') \in Nat /\ DOMAIN log' = 1..Len(log')
      BY <3>1, LenProperties
    <3> QED
      BY <3>2, FS_Interval
  <2>2. Neighbours(i)' \subseteq DOMAIN log'
    BY DEF Neighbours
  <2> QED
    BY <2>1, <2>2, FS_Subset
<1>4. Cardinality(Neighbours(i)) <= Cardinality(Neighbours(i)')
  BY <1>2, <1>3, FS_Subset
<1>5. Cardinality(Neighbours(i)) \in Nat /\ Cardinality(Neighbours(i)') \in Nat
  BY <1>2, <1>3, FS_Subset, FS_CardinalityType
<1> QED
  BY <1>4, <1>5

\* A process refuses only with a full window.
LEMMA CountsCrowded ==
  ASSUME Base, [Next]_vars, NEW call, NEW i, Counts(call, i), log'[i].fate = "refused"
  PROVE  Cardinality(Neighbours(i)') >= Limit[log'[i].client]
<1> DEFINE p == call.process
           b == Label[call.client]
           K == Kept(p, b)
<1>1. /\ call \in Call /\ call.client \in Client /\ p \in Process /\ b \in Bucket
      /\ call.time \in Nat /\ call.time <= now /\ now <= call.time + Delay /\ now \in Nat
      /\ call.fate = "pending" /\ (i \in DOMAIN log => log[i] = call)
      /\ DOMAIN log' = DOMAIN log \cup {i} /\ log'[i] = Counted(call)
      /\ \A j \in DOMAIN log \ {i} : log'[j] = log[j]
      /\ redis' = redis
  BY Constants DEF Counts, Call, Time, Base, TypeOK
<1>2. log'[i].client = call.client /\ log'[i].time = call.time /\ ~HasRoom(call)
  BY <1>1, Decision
<1>3. Delay' = Delay /\ Delay \in Nat /\ Window \in Nat
  BY <1>1, Constants DEF Delay
<1>4. K \subseteq Neighbours(i)'
  <2> SUFFICES ASSUME NEW j \in K PROVE j \in Neighbours(i)'
    OBVIOUS
  <2>1. /\ j \in DOMAIN log /\ log[j].fate = "local" /\ Label[log[j].client] = b
        /\ log[j].time \in Nat /\ log[j].stamp \in Nat
        /\ log[j].time <= log[j].stamp /\ log[j].stamp <= now
        /\ log[j].stamp <= log[j].time + Delay /\ log[j].stamp + Window >= now
    <3>1. j \in events[p][b] /\ j \in DOMAIN log /\ log[j].stamp + Window >= now
      BY <1>1, KeptShape
    <3> QED
      BY <1>1, <3>1, LogShape DEF Base, DequesHold, Clocked
  <2>2. j # i /\ log'[j] = log[j]
    BY <1>1, <2>1
  <2>3. /\ log[j].time <= call.time + Delay
        /\ call.time <= log[j].time + Window + Delay
    BY <1>1, <1>3, <2>1
  <2> QED
    BY <1>1, <1>2, <1>3, <2>1, <2>2, <2>3 DEF Neighbours
<1>5. Cardinality(K) >= Limit[call.client] /\ Cardinality(K) \in Nat /\ Limit[call.client] \in Nat
  BY <1>1, <1>2, KeptShape, Constants DEF HasRoom
<1>6. IsFiniteSet(Neighbours(i)')
  <2>1. IsFiniteSet(DOMAIN log')
    <3>1. IsFiniteSet(DOMAIN log)
      BY LogShape DEF Base
    <3>2. IsFiniteSet(DOMAIN log \cup {i})
      BY <3>1, FS_AddElement
    <3> QED
      BY <1>1, <3>2
  <2>2. Neighbours(i)' \subseteq DOMAIN log'
    BY DEF Neighbours
  <2> QED
    BY <2>1, <2>2, FS_Subset
<1> HIDE DEF K
<1>7. Cardinality(K) <= Cardinality(Neighbours(i)') /\ Cardinality(Neighbours(i)') \in Nat
  BY <1>4, <1>6, FS_Subset, FS_CardinalityType
<1> QED
  BY <1>2, <1>5, <1>7

\* Redis counts a request as one too many only with a full window.
LEMMA JoinedCrowded ==
  ASSUME Base, NEW h \in Handler, job[h].at # "idle",
         Cardinality(Joined(h)) > Limit[Mine(h).client]
  PROVE  Cardinality(Neighbours(job[h].call)) >= Limit[Mine(h).client]
<1> DEFINE i == job[h].call
           J == Joined(h)
<1>1. /\ i \in DOMAIN log /\ Mine(h) = log[i] /\ redis /\ Mine(h).time \in Nat /\ now \in Nat
      /\ now <= Mine(h).time + MaxDelay /\ Limit[Mine(h).client] \in Nat
      /\ Shelf(h) = Label[log[i].client]
  BY MineShape DEF Mine, Shelf
<1>2. /\ J \subseteq DOMAIN log /\ IsFiniteSet(J) /\ Cardinality(J) \in Nat /\ i \in J
      /\ \A j \in J : Label[log[j].client] = Shelf(h)
  BY JoinedShape
<1>3. Cardinality(J \ {i}) = Cardinality(J) - 1 /\ IsFiniteSet(J \ {i})
  <2> HIDE DEF i, J
  <2> QED
    BY <1>2, FS_RemoveElement
<1>4. J \ {i} \subseteq Neighbours(i)
  <2> SUFFICES ASSUME NEW j \in J, j # i PROVE j \in Neighbours(i)
    OBVIOUS
  <2>1. /\ j \in DOMAIN log /\ Label[log[j].client] = Label[log[i].client]
        /\ log[j].time \in Nat /\ log[j].time <= now
    BY <1>1, <1>2, LogShape DEF Base, Clocked
  <2>2. log[j].time + Window > log[i].time
    BY <1>1 DEF Joined
  <2>3. Delay = MaxDelay /\ Delay \in Nat
    BY <1>1, Constants DEF Delay
  <2>4. log[j].time <= log[i].time + Delay /\ log[i].time <= log[j].time + Window + Delay
    BY <1>1, <2>1, <2>2, <2>3, Constants
  <2> QED
    BY <2>1, <2>4 DEF Neighbours
<1>5. IsFiniteSet(Neighbours(i))
  <2>1. Neighbours(i) \subseteq DOMAIN log
    BY DEF Neighbours
  <2> QED
    BY <2>1, LogShape, FS_Subset DEF Base
<1> HIDE DEF i, J
<1>6. Cardinality(J \ {i}) <= Cardinality(Neighbours(i)) /\ Cardinality(Neighbours(i)) \in Nat
  BY <1>4, <1>5, FS_Subset, FS_CardinalityType
<1>7. Cardinality(J) > Limit[Mine(h).client]
  BY DEF J
<1> QED
  BY <1>1, <1>2, <1>3, <1>6, <1>7 DEF i

\* Once a call has been found one too many, the crowd around it stays.
LEMMA NextCrowded ==
  ASSUME Base, Crowded, [Next]_vars
  PROVE  Crowded'
<1>1. Steady /\ Base'
  BY StepKinds, NextBase
<1>2. ASSUME NEW i \in DOMAIN log, log[i].fate = "refused" \/ Waiting(i)
      PROVE  Cardinality(Neighbours(i)') >= Limit[log'[i].client]
  <2>1. /\ Cardinality(Neighbours(i)) >= Limit[log[i].client] /\ log'[i].client = log[i].client
        /\ Cardinality(Neighbours(i)') >= Cardinality(Neighbours(i)) /\ Limit[log[i].client] \in Nat
    BY <1>1, <1>2, NeighboursGrow, LogShape DEF Crowded, Steady, Base
  <2>2. Cardinality(Neighbours(i)) \in Nat /\ Cardinality(Neighbours(i)') \in Nat
    <3>1. IsFiniteSet(DOMAIN log) /\ Neighbours(i) \subseteq DOMAIN log
      BY LogShape DEF Base, Neighbours
    <3>2. log' \in Seq(Call)
      BY <1>1 DEF Base, TypeOK
    <3>3. Len(log') \in Nat /\ DOMAIN log' = 1..Len(log')
      BY <3>2, LenProperties
    <3>4. IsFiniteSet(DOMAIN log') /\ Neighbours(i)' \subseteq DOMAIN log'
      BY <3>3, FS_Interval DEF Neighbours
    <3> QED
      BY <3>1, <3>4, FS_Subset, FS_CardinalityType
  <2> QED
    BY <2>1, <2>2
<1> SUFFICES ASSUME NEW i \in DOMAIN log', log'[i].fate = "refused" \/ Waiting(i)'
             PROVE  Cardinality(Neighbours(i)') >= Limit[log'[i].client]
  BY DEF Crowded
<1> DEFINE Known == i \in DOMAIN log /\ (log[i].fate = "refused" \/ Waiting(i))
<1>3. ASSUME NEW call, NEW k, Counts(call, k),
             \A j : Waiting(j)' => Waiting(j) /\ j # k /\ j \in DOMAIN log
      PROVE  Cardinality(Neighbours(i)') >= Limit[log'[i].client]
  <2>1. CASE i = k
    BY <1>3, <2>1, CountsCrowded
  <2>2. CASE i # k
    BY <1>2, <1>3, <2>2 DEF Counts
  <2> QED
    BY <2>1, <2>2
<1>4. \A h \in Handler : job[h].at # "idle" => job[h].call \in DOMAIN log
  BY MineShape
<1>5. ASSUME NEW h \in Handler, NEW c \in Client, CallMemory(h, c)
      PROVE  Cardinality(Neighbours(i)') >= Limit[log'[i].client]
  <2>1. Counts(Arrived(h, c), Len(log) + 1) /\ Len(log) + 1 \notin DOMAIN log /\ job' = job
    BY <1>5, CallMemoryCounts DEF CallMemory
  <2>2. \A j : Waiting(j)' => Waiting(j) /\ j # Len(log) + 1 /\ j \in DOMAIN log
    BY <1>4, <2>1 DEF Waiting
  <2> QED
    BY <1>3, <2>1, <2>2
<1>6. ASSUME NEW h \in Handler, NEW c \in Client, CallRedis(h, c)
      PROVE  Known
  <2>1. /\ log' = Append(log, Arrived(h, c)) /\ job[h].at = "idle"
        /\ job' = [job EXCEPT ![h] = [at |-> "transaction", call |-> Len(log) + 1]]
        /\ job \in [Handler -> Job]
    BY <1>6 DEF CallRedis, Base, TypeOK
  <2>2. Arrived(h, c) \in Call /\ Arrived(h, c).fate = "pending"
    <3>1. /\ now \in Time /\ life \in [Process -> 0..restarts] /\ restarts \in 0..MaxRestarts
          /\ Home[h] \in Process /\ MaxRestarts \in Nat /\ MaxTime \in Nat
      BY Constants DEF Base, TypeOK
    <3>2. life[Home[h]] \in 0..MaxRestarts
      BY <3>1
    <3> QED
      BY <3>1, <3>2 DEF Arrived, Call, Time
  <2>3. /\ DOMAIN log' = DOMAIN log \cup {Len(log) + 1} /\ \A j \in DOMAIN log : log'[j] = log[j]
        /\ log'[Len(log) + 1].fate = "pending"
    BY <2>1, <2>2, LogGrows DEF Base
  <2>4. Waiting(i)' => Waiting(i) /\ i \in DOMAIN log
    <3>1. \A g \in Handler : job'[g].at = "oldest" => job'[g] = job[g]
      BY <2>1
    <3> QED
      BY <1>4, <3>1 DEF Waiting
  <2> QED
    BY <2>3, <2>4
<1>7. ASSUME NEW h \in Handler, Transact(h)
      PROVE  Cardinality(Neighbours(i)') >= Limit[log'[i].client]
  <2>1. /\ job[h].at # "idle" /\ job \in [Handler -> Job] /\ DOMAIN log' = DOMAIN log
        /\ \A j \in DOMAIN log : log'[j].fate = "refused" => log[j].fate = "refused"
    <3>1. job[h].at # "idle" /\ job \in [Handler -> Job]
      BY <1>7 DEF Transact, Base, TypeOK
    <3>2. log' = log \/ Admits(h)
      BY <1>7, TransactKind
    <3>3. Mine(h) \in Call
      BY <3>1, MineShape
    <3> QED
      BY <3>1, <3>2, <3>3 DEF Admits, Call
  <2>2. CASE Cardinality(Joined(h)) > Limit[Mine(h).client]
    <3>1. job' = [job EXCEPT ![h].at = "oldest"] /\ log' = log
      BY <1>7, <2>2 DEF Transact
    <3>2. CASE i = job[h].call
      <4>1. Cardinality(Neighbours(i)) >= Limit[Mine(h).client]
        BY <2>1, <2>2, <3>2, JoinedCrowded
      <4>2. Neighbours(i)' = Neighbours(i) /\ Mine(h) = log[i]
        BY <1>1, <3>1, <3>2 DEF Neighbours, Delay, Steady, Mine
      <4> QED
        BY <3>1, <4>1, <4>2
    <3>3. CASE i # job[h].call
      <4>1. Waiting(i)' => Waiting(i)
        BY <2>1, <3>1, <3>3 DEF Waiting
      <4> QED
        BY <1>2, <2>1, <4>1
    <3> QED
      BY <3>2, <3>3
  <2>3. CASE ~(Cardinality(Joined(h)) > Limit[Mine(h).client])
    <3>1. job' = [job EXCEPT ![h] = Idle] /\ Idle.at = "idle"
      BY <1>7, <2>3 DEF Transact, Idle
    <3>2. Waiting(i)' => Waiting(i)
      BY <2>1, <3>1 DEF Waiting
    <3> QED
      BY <1>2, <2>1, <3>2
  <2> QED
    BY <2>2, <2>3
<1>8. ASSUME NEW h \in Handler, ReadOldest(h)
      PROVE  Known
  <2> DEFINE k == job[h].call
  <2>1. PICK e \in Call : log' = [log EXCEPT ![k] = e]
    BY <1>8, OldestShape
  <2>2. /\ k \in DOMAIN log /\ job[h].at = "oldest" /\ job' = [job EXCEPT ![h] = Idle]
        /\ job \in [Handler -> Job] /\ Idle.at = "idle"
    BY <1>4, <1>8 DEF ReadOldest, Base, TypeOK, Idle
  <2>3. Waiting(k) /\ (Waiting(i)' => Waiting(i))
    BY <2>2 DEF Waiting
  <2> HIDE DEF k
  <2>4. DOMAIN log' = DOMAIN log /\ \A j \in DOMAIN log \ {k} : log'[j] = log[j]
    BY <2>1, <2>2, LogSettles DEF Base
  <2> QED
    BY <2>3, <2>4
<1>9. ASSUME NEW h \in Handler, NEW applied \in BOOLEAN, FallBack(h, applied)
      PROVE  Cardinality(Neighbours(i)') >= Limit[log'[i].client]
  <2>1. /\ Counts(Mine(h), job[h].call) /\ job' = [job EXCEPT ![h] = Idle]
        /\ job \in [Handler -> Job] /\ Idle.at = "idle" /\ job[h].at # "idle"
    BY <1>9, FallBackCounts DEF FallBack, Base, TypeOK, Idle
  <2>2. \A g \in Handler : job[g].call = job[h].call => g = h
    BY <2>1, MineShape
  <2>3. \A j : Waiting(j)' => Waiting(j) /\ j # job[h].call /\ j \in DOMAIN log
    <3>1. \A g \in Handler : job'[g].at = "oldest" => g # h /\ job'[g] = job[g]
      BY <2>1
    <3> QED
      BY <1>4, <2>2, <3>1 DEF Waiting
  <2> QED
    BY <1>3, <2>1, <2>3
<1>10. ASSUME Tick \/ UNCHANGED vars
       PROVE  Known
  <2>1. log' = log /\ job' = job
    BY <1>10 DEF Tick, vars
  <2> QED
    BY <2>1 DEF Waiting
<1>11. ASSUME NEW p \in Process, Restart(p)
       PROVE  Known
  <2>1. /\ DOMAIN log' = DOMAIN log
        /\ \A j \in DOMAIN log : log'[j].fate = "refused" => log'[j] = log[j]
        /\ \A h \in Handler : job'[h] = Idle \/ job'[h] = job[h]
    BY <1>11, RestartShape
  <2>2. Waiting(i)' => Waiting(i)
    BY <2>1 DEF Waiting, Idle
  <2> QED
    BY <2>1, <2>2
<1>12. CASE Known
  BY <1>2, <1>12
<1> HIDE DEF Known
<1> QED
  BY <1>5, <1>6, <1>7, <1>8, <1>9, <1>10, <1>11, <1>12 DEF Next

-----------------------------------------------------------------------------
(* Trying again. *)

\* Only counting makes a deque longer, and only up to the limit of the call.
LEMMA NextDequeBelow ==
  ASSUME Base, DequeBelow, [Next]_vars
  PROVE  DequeBelow'
<1>1. Steady
  BY StepKinds
<1> SUFFICES ASSUME NEW p \in Process, NEW b \in Bucket, NEW c \in Client,
                    \A i \in DOMAIN log' : Label[log'[i].client] = b => Limit[log'[i].client] <= Limit[c]
             PROVE  Cardinality(events'[p][b]) <= Limit[c]
  BY DEF DequeBelow
<1>2. /\ Cardinality(events[p][b]) <= Limit[c] /\ IsFiniteSet(events[p][b])
      /\ Cardinality(events[p][b]) \in Nat /\ Limit[c] \in Nat
  <2>1. \A i \in DOMAIN log : Label[log[i].client] = b => Limit[log[i].client] <= Limit[c]
    BY <1>1 DEF Steady
  <2> QED
    BY <2>1, KeptShape, Constants DEF DequeBelow
<1>3. CASE events'[p][b] \subseteq events[p][b]
  <2>1. /\ Cardinality(events'[p][b]) <= Cardinality(events[p][b])
        /\ Cardinality(events'[p][b]) \in Nat
    BY <1>2, <1>3, FS_Subset, FS_CardinalityType
  <2> QED
    BY <1>2, <2>1
<1>4. ASSUME NEW call, NEW i, Counts(call, i)
      PROVE  Cardinality(events'[p][b]) <= Limit[c]
  <2>1. CASE events'[p][b] \subseteq events[p][b]
    BY <1>3, <2>1
  <2>2. CASE ~(events'[p][b] \subseteq events[p][b])
    <3>1. /\ p = call.process /\ b = Label[call.client] /\ HasRoom(call)
          /\ events'[p][b] = Kept(p, b) \cup {i} /\ IsFiniteSet(Kept(p, b))
      BY <1>4, <2>2, DequeAfter, KeptShape
    <3>2. log'[i].client = call.client /\ i \in DOMAIN log' /\ call.client \in Client
      BY <1>4, Decision DEF Counts, Call
    <3>3. Limit[call.client] <= Limit[c] /\ Limit[call.client] \in Nat
      BY <3>1, <3>2, Constants
    <3>4. Cardinality(Kept(p, b)) < Limit[call.client]
      BY <3>1 DEF HasRoom
    <3>5. /\ Cardinality(events'[p][b]) <= Cardinality(Kept(p, b)) + 1
          /\ Cardinality(Kept(p, b)) \in Nat /\ Cardinality(events'[p][b]) \in Nat
      BY <3>1, OneMore
    <3> QED
      BY <1>2, <3>3, <3>4, <3>5
  <2> QED
    BY <2>1, <2>2
<1>5. ASSUME NEW h \in Handler, NEW d \in Client, CallMemory(h, d)
      PROVE  Cardinality(events'[p][b]) <= Limit[c]
  BY <1>4, <1>5, CallMemoryCounts
<1>6. ASSUME NEW h \in Handler, NEW applied \in BOOLEAN, FallBack(h, applied)
      PROVE  Cardinality(events'[p][b]) <= Limit[c]
  BY <1>4, <1>6, FallBackCounts
<1>7. ASSUME NEW q \in Process, Restart(q)
      PROVE  events'[p][b] \subseteq events[p][b]
  BY <1>7, RestartShape
<1>8. ASSUME NEW h \in Handler,
             Transact(h) \/ ReadOldest(h) \/ (\E d \in Client : CallRedis(h, d))
      PROVE  events' = events
  BY <1>8 DEF Transact, ReadOldest, CallRedis
<1>9. ASSUME Tick \/ UNCHANGED vars
      PROVE  events' = events
  BY <1>9 DEF Tick, vars
<1> QED
  BY <1>3, <1>5, <1>6, <1>7, <1>8, <1>9 DEF Next

\* Without Redis a call is decided when it arrives, and nothing else adds to a deque.
LEMMA WithoutRedis ==
  ASSUME Base, [Next]_vars, ~redis
  PROVE  \/ \E h \in Handler, c \in Client : CallMemory(h, c)
         \/ /\ DOMAIN log' = DOMAIN log
            /\ \A i \in DOMAIN log : log'[i].fate \notin {"pending", "lost"} => log'[i] = log[i]
            /\ \A p \in Process, b \in Bucket : events'[p][b] \subseteq events[p][b]
<1>1. \A h \in Handler : job[h].at = "idle"
  BY DEF Base, JobsOwn
<1>2. \A h \in Handler : \A c \in Client : ~CallRedis(h, c)
  BY DEF CallRedis
<1>3. \A h \in Handler : ~Transact(h) /\ ~ReadOldest(h)
  BY <1>1 DEF Transact, ReadOldest
<1>4. \A h \in Handler : \A applied \in BOOLEAN : ~FallBack(h, applied)
  BY <1>1 DEF FallBack
<1>5. ASSUME Tick \/ UNCHANGED vars
      PROVE  log' = log /\ events' = events
  BY <1>5 DEF Tick, vars
<1>6. ASSUME NEW p \in Process, Restart(p)
      PROVE  /\ DOMAIN log' = DOMAIN log
             /\ \A i \in DOMAIN log : log'[i].fate \notin {"pending", "lost"} => log'[i] = log[i]
             /\ \A q \in Process, b \in Bucket : events'[q][b] \subseteq events[q][b]
  BY <1>6, RestartShape
<1> QED
  BY <1>2, <1>3, <1>4, <1>5, <1>6 DEF Next

\* No call before the refusal of call i had a larger limit.
LEMMA OutrankingStays ==
  ASSUME Base, [Next]_vars, NEW i \in DOMAIN log, Outranking(i)' = {}
  PROVE  Outranking(i) = {}
<1>1. Steady /\ DOMAIN log = 1..Len(log) /\ Len(log) \in Nat
  BY StepKinds, LogShape DEF Base
<1>2. \A k \in 1..i : k \in DOMAIN log
  BY <1>1
<1> QED
  BY <1>1, <1>2 DEF Outranking, Steady

\* The deque a refusal left behind only loses entries until the retry.
LEMMA NextRoomAfter ==
  ASSUME Base, RoomAfter, DequeBelow, [Next]_vars
  PROVE  RoomAfter'
<1>1. Steady /\ DOMAIN log = 1..Len(log) /\ Len(log) \in Nat
  BY StepKinds, LogShape DEF Base
<1> SUFFICES ASSUME ~redis, NEW i \in DOMAIN log',
                    log'[i].fate = "refused", Outranking(i)' = {},
                    \A k \in DOMAIN log' : k > i => Label[log'[k].client] # Label[log'[i].client]
             PROVE  Cardinality(StillThere(i)') < Limit[log'[i].client]
  BY <1>1 DEF RoomAfter, Steady
<1>2. ASSUME i \in DOMAIN log, log[i].fate = "refused",
             events'[log[i].process][Label[log[i].client]]
               \subseteq events[log[i].process][Label[log[i].client]]
      PROVE  Cardinality(StillThere(i)') < Limit[log'[i].client]
  <2> DEFINE p == log[i].process
             b == Label[log[i].client]
  <2>1. p \in Process /\ b \in Bucket /\ Limit[log[i].client] \in Nat /\ log'[i] = log[i]
    BY <1>1, <1>2, LogShape DEF Base, Steady
  <2>2. Outranking(i) = {}
    BY <1>2, OutrankingStays
  <2>3. \A k \in DOMAIN log : k > i => Label[log[k].client] # Label[log[i].client]
    BY <1>1, <2>1 DEF Steady
  <2>4. Cardinality(StillThere(i)) < Limit[log[i].client]
    BY <1>2, <2>2, <2>3 DEF RoomAfter
  <2>5. \A k \in events[p][b] : log'[k] = log[k]
    BY <1>1, <2>1, KeptShape DEF Steady, Base, DequesHold
  <2>6. StillThere(i)' \subseteq StillThere(i)
    BY <1>2, <2>1, <2>5 DEF StillThere
  <2>7. StillThere(i) \subseteq events[p][b] /\ IsFiniteSet(events[p][b])
    BY <2>1, KeptShape DEF StillThere
  <2>8. IsFiniteSet(StillThere(i))
    BY <2>7, FS_Subset
  <2>9. /\ Cardinality(StillThere(i)') <= Cardinality(StillThere(i))
        /\ Cardinality(StillThere(i)') \in Nat /\ Cardinality(StillThere(i)) \in Nat
    BY <2>6, <2>8, FS_Subset, FS_CardinalityType
  <2> QED
    BY <2>1, <2>4, <2>9
<1>3. ASSUME NEW h \in Handler, NEW c \in Client, CallMemory(h, c)
      PROVE  Cardinality(StillThere(i)') < Limit[log'[i].client]
  <2> DEFINE call == Arrived(h, c)
             n == Len(log) + 1
             p == Home[h]
             b == Label[c]
             K == Kept(p, b)
  <2>1. /\ Counts(call, n) /\ n \notin DOMAIN log /\ call.process = p /\ call.client = c
        /\ call \in Call /\ call.time = now /\ p \in Process /\ b \in Bucket
        /\ now \in Nat /\ Limit[c] \in Nat \ {0} /\ now' = now
    <3>1. Counts(call, n) /\ n \notin DOMAIN log
      BY <1>3, CallMemoryCounts
    <3>2. call.process = p /\ call.client = c /\ call.time = now
      BY DEF Arrived
    <3>3. now \in Nat
      BY Constants DEF Base, TypeOK, Time
    <3> QED
      BY <3>1, <3>2, <3>3, Constants DEF Counts
  <2>2. /\ DOMAIN log' = DOMAIN log \cup {n} /\ \A j \in DOMAIN log : log'[j] = log[j]
        /\ log'[n] = Counted(call)
    BY <2>1 DEF Counts
  <2>3. /\ log'[n].client = c /\ log'[n].process = p /\ log'[n].time = now
        /\ HasRoom(call) => log'[n].fate = "local"
        /\ ~HasRoom(call) =>
             /\ log'[n].retry \in Nat
             /\ \E j \in K : log[j].stamp + Window < now + (log'[n].retry + 1) * Second
    BY <2>1, <2>2, Decision
  <2> HIDE DEF call, n, K
  <2>4. CASE i = n
    <3>1. ~HasRoom(call) /\ events'[p][b] = K
      <4>1. ~HasRoom(call)
        BY <2>3, <2>4
      <4>2. events'[p][b] = Kept(p, b) \cup (IF HasRoom(call) THEN {n} ELSE {})
        BY <2>1, DequeAfter
      <4> QED
        BY <4>1, <4>2 DEF K
    <3>2. PICK j \in K : log[j].stamp + Window < now + (log'[i].retry + 1) * Second
      BY <2>3, <2>4, <3>1
    <3>3. /\ K \subseteq events[p][b] /\ K \subseteq DOMAIN log
          /\ IsFiniteSet(events[p][b]) /\ IsFiniteSet(K) /\ Cardinality(K) \in Nat
          /\ log[j].stamp \in Nat
      BY <2>1, KeptShape DEF K
    <3>4. (log'[i].retry + 1) * Second \in Nat
      <4>1. log'[i].retry \in Nat
        BY <2>3, <2>4, <3>1
      <4> QED
        BY <4>1, Constants
    <3>5. StillThere(i)' \subseteq K \ {j}
      <4>1. log'[i].process = p /\ log'[i].client = c /\ log'[i].time = now
        BY <2>3, <2>4
      <4>2. StillThere(i)' = {k \in K : log'[k].stamp + Window >= now + (log'[i].retry + 1) * Second}
        BY <3>1, <4>1 DEF StillThere
      <4>3. log'[j] = log[j]
        BY <2>2, <3>3
      <4>4. j \notin StillThere(i)'
        BY <2>1, <3>2, <3>3, <3>4, <4>2, <4>3, Constants
      <4> QED
        BY <4>2, <4>4
    <3>6. /\ IsFiniteSet(K \ {j}) /\ Cardinality(K \ {j}) = Cardinality(K) - 1
      BY <3>3, FS_RemoveElement
    <3>7. /\ Cardinality(StillThere(i)') <= Cardinality(K \ {j})
          /\ Cardinality(StillThere(i)') \in Nat
      BY <3>5, <3>6, FS_Subset, FS_CardinalityType
    <3>8. Cardinality(K) <= Cardinality(events[p][b]) /\ Cardinality(events[p][b]) \in Nat
      BY <3>3, FS_Subset, FS_CardinalityType
    <3>9. Cardinality(events[p][b]) <= Limit[c]
      <4>1. \A k \in DOMAIN log : Label[log[k].client] = b => Limit[log[k].client] <= Limit[c]
        <5> SUFFICES ASSUME NEW k \in DOMAIN log, Label[log[k].client] = b
                     PROVE  Limit[log[k].client] <= Limit[c]
          OBVIOUS
        <5>1. k \in 1..i /\ log'[k] = log[k] /\ log'[i].client = c
          BY <1>1, <2>2, <2>3, <2>4 DEF n
        <5>2. Limit[log[k].client] \in Nat
          BY LogShape DEF Base
        <5>3. ~(Limit[log[k].client] > Limit[c])
          BY <5>1 DEF Outranking
        <5> QED
          BY <2>1, <5>2, <5>3
      <4> QED
        BY <2>1, <4>1 DEF DequeBelow
    <3>10. log'[i].client = c
      BY <2>3, <2>4
    <3> QED
      BY <2>1, <3>3, <3>6, <3>7, <3>8, <3>9, <3>10
  <2>5. CASE i # n
    <3>1. i \in DOMAIN log /\ log'[i] = log[i] /\ n > i /\ n \in DOMAIN log'
      BY <1>1, <2>2, <2>5 DEF n
    <3>2. Label[log[i].client] # b
      BY <2>3, <3>1
    <3>3. log[i].process \in Process /\ Label[log[i].client] \in Bucket
      BY <3>1, LogShape DEF Base
    <3>4. events'[log[i].process][Label[log[i].client]] = events[log[i].process][Label[log[i].client]]
      BY <2>1, <3>2, <3>3, DequeAfter
    <3> QED
      BY <1>2, <3>1, <3>4
  <2> QED
    BY <2>4, <2>5
<1>4. CASE /\ DOMAIN log' = DOMAIN log
           /\ \A j \in DOMAIN log : log'[j].fate \notin {"pending", "lost"} => log'[j] = log[j]
           /\ \A p \in Process, b \in Bucket : events'[p][b] \subseteq events[p][b]
  <2>1. i \in DOMAIN log /\ log[i].fate = "refused"
    BY <1>4
  <2>2. log[i].process \in Process /\ Label[log[i].client] \in Bucket
    BY <2>1, LogShape DEF Base
  <2> QED
    BY <1>2, <1>4, <2>1, <2>2
<1> QED
  BY <1>3, <1>4, WithoutRedis

\* A retry after Retry-After and a second finds that room.
LEMMA NextRetry ==
  ASSUME Base, RoomAfter, RetryNeedsOneMoreSecond, [Next]_vars
  PROVE  RetryNeedsOneMoreSecond'
<1>1. Steady /\ DOMAIN log = 1..Len(log) /\ Len(log) \in Nat
  BY StepKinds, LogShape DEF Base
<1> SUFFICES ASSUME NEW i \in DOMAIN log', NEW j \in DOMAIN log',
                    ~redis, Retries(i, j)', Outranking(i)' = {},
                    log'[j].time >= log'[i].time + (log'[i].retry + 1) * Second
             PROVE  log'[j].fate = "local"
  BY <1>1 DEF RetryNeedsOneMoreSecond, Steady
<1>2. /\ i < j /\ log'[i].fate = "refused"
      /\ log'[j].client = log'[i].client /\ log'[j].process = log'[i].process
      /\ \A k \in i + 1 .. j - 1 : Label[log'[k].client] # Label[log'[i].client]
  BY DEF Retries
<1>3. ASSUME i \in DOMAIN log, j \in DOMAIN log, log[i].fate = "refused"
      PROVE  log'[j].fate = "local"
  <2>1. log'[i] = log[i] /\ Outranking(i) = {}
    BY <1>1, <1>3, OutrankingStays DEF Steady
  <2>2. \A k \in i + 1 .. j - 1 : k \in DOMAIN log
    BY <1>1, <1>3
  <2>3. Retries(i, j)
    BY <1>1, <1>2, <1>3, <2>1, <2>2 DEF Retries, Steady
  <2>4. log[j].fate = "local"
    BY <1>1, <1>3, <2>1, <2>3 DEF RetryNeedsOneMoreSecond, Steady
  <2> QED
    BY <1>1, <1>3, <2>4 DEF Steady
<1>4. ASSUME NEW h \in Handler, NEW c \in Client, CallMemory(h, c)
      PROVE  log'[j].fate = "local"
  <2> DEFINE call == Arrived(h, c)
             n == Len(log) + 1
  <2>1. /\ Counts(call, n) /\ n \notin DOMAIN log /\ call.process = Home[h] /\ call.client = c
        /\ call \in Call /\ call.time = now /\ now \in Nat
    <3>1. Counts(call, n) /\ n \notin DOMAIN log
      BY <1>4, CallMemoryCounts
    <3>2. call.process = Home[h] /\ call.client = c /\ call.time = now
      BY DEF Arrived
    <3>3. now \in Nat
      BY Constants DEF Base, TypeOK, Time
    <3> QED
      BY <3>1, <3>2, <3>3 DEF Counts
  <2>2. /\ DOMAIN log' = DOMAIN log \cup {n} /\ \A k \in DOMAIN log : log'[k] = log[k]
        /\ log'[n] = Counted(call)
    BY <2>1 DEF Counts
  <2>3. /\ log'[n].client = c /\ log'[n].process = Home[h] /\ log'[n].time = now
        /\ HasRoom(call) => log'[n].fate = "local"
    BY <2>1, <2>2, Decision
  <2>4. i \in DOMAIN log /\ log'[i] = log[i] /\ log[i].fate = "refused"
    BY <1>1, <1>2, <2>2
  <2>5. CASE j = n
    <3>1. Outranking(i) = {}
      BY <2>4, OutrankingStays
    <3>2. \A k \in DOMAIN log : k > i => Label[log[k].client] # Label[log[i].client]
      <4> SUFFICES ASSUME NEW k \in DOMAIN log, k > i
                   PROVE  Label[log[k].client] # Label[log[i].client]
        OBVIOUS
      <4>1. k \in i + 1 .. j - 1
        BY <1>1, <2>4, <2>5
      <4> QED
        BY <1>2, <2>2, <2>4, <4>1
    <3>3. Cardinality(StillThere(i)) < Limit[log[i].client]
      BY <2>4, <3>1, <3>2 DEF RoomAfter
    <3>4. log[i].client = c /\ log[i].process = Home[h]
      BY <1>2, <2>3, <2>4, <2>5
    <3>5. Home[h] \in Process /\ Label[c] \in Bucket /\ Limit[c] \in Nat
      BY Constants
    <3>6. Kept(Home[h], Label[c]) \subseteq StillThere(i)
      <4> SUFFICES ASSUME NEW k \in Kept(Home[h], Label[c]) PROVE k \in StillThere(i)
        OBVIOUS
      <4>1. /\ k \in events[Home[h]][Label[c]] /\ log[k].stamp \in Nat
            /\ log[k].stamp + Window >= now
        BY <3>5, KeptShape
      <4>2. now >= log[i].time + (log[i].retry + 1) * Second
        BY <2>3, <2>4, <2>5
      <4>3. (log[i].retry + 1) * Second \in Nat /\ log[i].time \in Nat
        <5>1. log[i].retry \in Nat /\ log[i].time \in Nat
          BY <2>4, LogShape DEF Base
        <5> QED
          BY <5>1, Constants
      <4>4. log[k].stamp + Window >= log[i].time + (log[i].retry + 1) * Second
        BY <2>1, <4>1, <4>2, <4>3, Constants
      <4> QED
        BY <3>4, <4>1, <4>4 DEF StillThere
    <3>7. IsFiniteSet(StillThere(i))
      <4>1. StillThere(i) \subseteq events[Home[h]][Label[c]]
        BY <3>4 DEF StillThere
      <4> QED
        BY <3>5, <4>1, KeptShape, FS_Subset
    <3>8. /\ Cardinality(Kept(Home[h], Label[c])) <= Cardinality(StillThere(i))
          /\ Cardinality(Kept(Home[h], Label[c])) \in Nat /\ Cardinality(StillThere(i)) \in Nat
      BY <3>6, <3>7, FS_Subset, FS_CardinalityType
    <3>9. HasRoom(call)
      BY <2>1, <3>3, <3>4, <3>5, <3>8 DEF HasRoom
    <3> QED
      BY <2>3, <2>5, <3>9
  <2>6. CASE j # n
    BY <1>3, <2>2, <2>4, <2>6
  <2> QED
    BY <2>5, <2>6
<1>5. CASE /\ DOMAIN log' = DOMAIN log
           /\ \A k \in DOMAIN log : log'[k].fate \notin {"pending", "lost"} => log'[k] = log[k]
  BY <1>2, <1>3, <1>5
<1> QED
  BY <1>4, <1>5, WithoutRedis

-----------------------------------------------------------------------------
(* The windows together. *)

\* No process decides for itself more often than processes are started.
LEMMA LocalLivesBound ==
  ASSUME Base, LivesApart
  PROVE  Cardinality(LocalLives) <= Lives /\ Lives \in Nat
<1> DEFINE Zero  == {x \in LocalLives : x[2] = 0}
           Later == {x \in LocalLives : x[2] # 0}
           f == [x \in Zero |-> x[1]]
           g == [x \in Later |-> x[2]]
<1>1. \A x \in LocalLives : /\ x[1] \in Process /\ x[2] \in Nat /\ x[2] <= restarts
                            /\ x = <<x[1], x[2]>>
  <2> SUFFICES ASSUME NEW i \in DOMAIN log
               PROVE  /\ log[i].process \in Process /\ log[i].life \in Nat
                      /\ log[i].life <= restarts
    BY DEF LocalLives
  <2> QED
    BY LogShape DEF Base, Clocked
<1>2. IsFiniteSet(LocalLives) /\ restarts \in Nat /\ IsFiniteSet(Process)
  BY LocalLivesFinite, HomeAssumption, Constants DEF Base, TypeOK
<1>3. IsFiniteSet(Zero) /\ Cardinality(Zero) <= Cardinality(Process)
  <2>1. f \in [Zero -> Process] /\ \A x, y \in Zero : f[x] = f[y] => x = y
    BY <1>1
  <2> HIDE DEF f, Zero
  <2>2. f \in Injection(Zero, Process)
    BY <2>1 DEF Injection, IsInjective
  <2> QED
    BY <1>2, <2>2, FS_Injection
<1>4. IsFiniteSet(Later) /\ Cardinality(Later) <= restarts
  <2>1. g \in [Later -> 1..restarts]
    BY <1>1, <1>2
  <2>2. ASSUME NEW x \in Later, NEW y \in Later, g[x] = g[y] PROVE x = y
    <3>1. x[2] = y[2] /\ x[2] # 0
      BY <2>2
    <3>2. \E i, j \in DOMAIN log : /\ x = <<log[i].process, log[i].life>>
                                   /\ y = <<log[j].process, log[j].life>>
      BY DEF LocalLives
    <3>3. x[1] = y[1]
      BY <3>1, <3>2 DEF LivesApart
    <3> QED
      BY <1>1, <3>1, <3>3
  <2> HIDE DEF g, Later
  <2>3. g \in Injection(Later, 1..restarts)
    BY <2>1, <2>2 DEF Injection, IsInjective
  <2>4. IsFiniteSet(1..restarts) /\ Cardinality(1..restarts) = restarts
    BY <1>2, FS_Interval
  <2> QED
    BY <2>3, <2>4, FS_Injection
<1>5. LocalLives = Zero \cup Later
  OBVIOUS
<1> HIDE DEF Zero, Later, f, g
<1>6. /\ Cardinality(LocalLives) = Cardinality(Zero) + Cardinality(Later) - Cardinality(Zero \cap Later)
      /\ Cardinality(Zero \cap Later) \in Nat
  <2>1. IsFiniteSet(Zero \cap Later)
    BY <1>3, FS_Subset
  <2>2. Cardinality(Zero \cap Later) \in Nat
    BY <2>1, FS_CardinalityType
  <2> QED
    BY <1>3, <1>4, <1>5, <2>2, FS_Union
<1>7. Cardinality(Zero) \in Nat /\ Cardinality(Later) \in Nat /\ Cardinality(Process) \in Nat
  BY <1>2, <1>3, <1>4, FS_CardinalityType
<1> QED
  BY <1>2, <1>3, <1>4, <1>6, <1>7 DEF Lives

\* A larger factor makes a larger product.
LEMMA TimesGrows ==
  ASSUME NEW m \in Nat, NEW a \in Nat, NEW b \in Nat, a <= b
  PROVE  m * a <= m * b
<1>1. PICK e \in Nat : b = a + e
  <2>1. b - a \in Nat /\ b = a + (b - a)
    OBVIOUS
  <2> QED
    BY <2>1
<1>2. m * (a + e) = m * a + m * e /\ m * a \in Nat /\ m * e \in Nat
  OBVIOUS
<1> QED
  BY <1>1, <1>2

\* What the invariant says of each window, for all of them.
LEMMA WindowsTogether ==
  ASSUME Base, LivesApart, LocalBelow, SharedBelow, FewLocal
  PROVE  WindowHolds
<1> SUFFICES ASSUME NEW c \in Client, NEW t \in Time, HasTopLimit(c)
             PROVE  Cardinality(Throughput(Label[c], t, t + Stretch)) <= Limit[c] * Windows
  BY DEF WindowHolds
<1> DEFINE b == Label[c]
           m == Limit[c]
           All == Throughput(b, t, t + Stretch)
           Local == {i \in All : log[i].fate = "local"}
           Shared == SharedIn(b, t)
           f == [i \in Local |-> <<log[i].process, log[i].life>>]
           k == Cardinality(LocalLives)
<1>1. m \in Nat /\ k \in Nat /\ IsFiniteSet(LocalLives) /\ k <= Lives /\ Lives \in Nat
      /\ faults \in Nat
  BY Constants, LocalLivesFinite, LocalLivesBound DEF Base, TypeOK
<1>2. All \subseteq DOMAIN log /\ IsFiniteSet(DOMAIN log) /\ DOMAIN log \subseteq Nat
  BY LogShape DEF Base, Throughput
<1>3. All = Local \cup Shared
  BY DEF Throughput, SharedIn
<1>4. IsFiniteSet(Local) /\ IsFiniteSet(Shared) /\ Local \in SUBSET Nat
  <2>1. Local \subseteq DOMAIN log /\ Shared \subseteq DOMAIN log
    BY <1>2, <1>3
  <2> QED
    BY <1>2, <2>1, FS_Subset
<1>5. Cardinality(Local) <= m * k
  <2>1. f \in [Local -> LocalLives]
    BY <1>2 DEF LocalLives
  <2>2. ASSUME NEW x \in LocalLives
        PROVE  Cardinality({i \in Local : f[i] = x}) <= m
    <3>1. PICK j \in DOMAIN log : x = <<log[j].process, log[j].life>>
      BY DEF LocalLives
    <3>2. {i \in Local : f[i] = x} = LocalIn(log[j].process, log[j].life, b, t)
      BY <3>1 DEF LocalIn, Throughput
    <3>3. log[j].process \in Process /\ log[j].life \in 0..MaxRestarts
      BY LogShape DEF Base
    <3>4. Cardinality(LocalIn(log[j].process, log[j].life, b, t)) <= m
      BY <3>3 DEF LocalBelow
    <3> QED
      BY <3>2, <3>4
  <2> HIDE DEF f, Local, m
  <2> QED
    BY <1>1, <1>4, <2>1, <2>2, Pigeons
<1>6. Cardinality(Shared) <= m
  BY DEF SharedBelow
<1> HIDE DEF Local, Shared, m, k, All
<1>7. /\ Cardinality(Local) \in Nat /\ Cardinality(Shared) \in Nat
      /\ Cardinality(All) <= Cardinality(Local) + Cardinality(Shared)
      /\ Cardinality(All) \in Nat
  <2>1. IsFiniteSet(Local \cap Shared)
    BY <1>4, FS_Subset
  <2>2. /\ Cardinality(Local \cap Shared) \in Nat
        /\ Cardinality(Local) \in Nat /\ Cardinality(Shared) \in Nat
    BY <1>4, <2>1, FS_CardinalityType
  <2>3. /\ IsFiniteSet(All)
        /\ Cardinality(All) = Cardinality(Local) + Cardinality(Shared) - Cardinality(Local \cap Shared)
    BY <1>3, <1>4, FS_Union
  <2>4. Cardinality(All) \in Nat
    BY <2>3, FS_CardinalityType
  <2> QED
    BY <2>2, <2>3, <2>4
<1>8. CASE redis
  <2> DEFINE w == IF faults < Lives THEN faults ELSE Lives
  <2>1. k <= w /\ w \in Nat /\ Windows = 1 + w
    BY <1>1, <1>8 DEF FewLocal, k, Windows
  <2> HIDE DEF w
  <2>2. m * k <= m * w /\ m * k \in Nat /\ m * w \in Nat /\ m * (1 + w) = m + m * w
    BY <1>1, <2>1, TimesGrows
  <2> QED
    BY <1>1, <1>5, <1>6, <1>7, <2>1, <2>2 DEF All, m, b
<1>9. CASE ~redis
  <2>1. Shared = {}
    BY <1>9 DEF Shared, SharedIn, Base, Clocked
  <2>2. Windows = Lives /\ Cardinality(Shared) = 0
    BY <1>9, <2>1, FS_EmptySet DEF Windows
  <2>3. m * k <= m * Lives /\ m * k \in Nat /\ m * Lives \in Nat
    BY <1>1, TimesGrows
  <2> QED
    BY <1>1, <1>5, <1>7, <2>2, <2>3 DEF All, m, b
<1> QED
  BY <1>8, <1>9

-----------------------------------------------------------------------------
\* All of it holds at first.
LEMMA InitIInv == Init => IInv
<1> SUFFICES ASSUME Init PROVE IInv
  OBVIOUS
<1>1. Base
  BY InitBase
<1>2. log = <<>> /\ DOMAIN log = {}
  <2>1. log = <<>>
    BY DEF Init
  <2> QED
    BY <2>1
<1>3. LivesApart
  BY <1>2 DEF Init, LivesApart
<1>4. Cardinality({}) = 0
  BY FS_EmptySet
<1>5. \A c \in Client : Limit[c] >= 0
  BY Constants
<1>6. LocalBelow /\ SharedBelow
  <2>1. \A p, n, b, t : LocalIn(p, n, b, t) = {} /\ SharedIn(b, t) = {}
    BY <1>2 DEF LocalIn, SharedIn
  <2> QED
    BY <1>4, <1>5, <2>1 DEF LocalBelow, SharedBelow
<1>7. FewLocal
  <2>1. LocalLives = {} /\ faults = 0
    BY <1>2 DEF LocalLives, Init
  <2> QED
    BY <1>4, <2>1 DEF FewLocal
<1>8. Crowded /\ RoomAfter /\ RetryNeedsOneMoreSecond
  BY <1>2 DEF Crowded, RoomAfter, RetryNeedsOneMoreSecond
<1>9. DequeBelow
  BY <1>4, <1>5 DEF Init, DequeBelow
<1> QED
  BY <1>1, <1>3, <1>6, <1>7, <1>8, <1>9 DEF IInv

\* Every step keeps the invariant.
LEMMA NextIInv == IInv /\ [Next]_vars => IInv'
<1> SUFFICES ASSUME IInv, [Next]_vars PROVE IInv'
  OBVIOUS
<1>1. Base'
  BY NextBase DEF IInv
<1>2. LivesApart'
  BY NextLivesApart DEF IInv
<1>3. LocalBelow' /\ SharedBelow' /\ FewLocal'
  BY NextLocalBelow, NextSharedBelow, NextFewLocal DEF IInv
<1>4. Crowded'
  BY NextCrowded DEF IInv
<1>5. DequeBelow' /\ RoomAfter' /\ RetryNeedsOneMoreSecond'
  BY NextDequeBelow, NextRoomAfter, NextRetry DEF IInv
<1> QED
  BY <1>1, <1>2, <1>3, <1>4, <1>5 DEF IInv

\* The windows remember what they admitted.
THEOREM Invariance == Spec => []IInv
<1>1. Init => IInv
  BY InitIInv
<1>2. IInv /\ [Next]_vars => IInv'
  BY NextIInv
<1> QED
  BY <1>1, <1>2, PTL DEF Spec

\* The state of the limiter is well formed: the request of a handler is in the
\* log and undecided, and windows hold calls of the log (main.py, 463-482).
THEOREM TypeCorrect == Spec => []TypeOK
<1>1. IInv => TypeOK
  BY DEF IInv, Base
<1> QED
  BY <1>1, Invariance, PTL

\* In any number of processes, with any number of keys in a bucket, errors of
\* Redis and restarts, no bucket admits more than its limit per window in use.
THEOREM WindowHoldsHolds == Spec => []WindowHolds
<1>1. IInv => WindowHolds
  BY WindowsTogether DEF IInv
<1> QED
  BY <1>1, Invariance, PTL

\* A refusal had a full window of other calls around it.
THEOREM RefusedOnlyWhenCrowdedHolds == Spec => []RefusedOnlyWhenCrowded
<1>1. IInv => RefusedOnlyWhenCrowded
  BY DEF IInv, Crowded, RefusedOnlyWhenCrowded
<1> QED
  BY <1>1, Invariance, PTL

\* Without Redis, one second more than Retry-After is enough.
THEOREM RetryNeedsOneMoreSecondHolds == Spec => []RetryNeedsOneMoreSecond
<1>1. IInv => RetryNeedsOneMoreSecond
  BY DEF IInv
<1> QED
  BY <1>1, Invariance, PTL
===============================================================================
