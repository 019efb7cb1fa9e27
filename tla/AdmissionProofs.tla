---------------------------- MODULE AdmissionProofs ----------------------------
(***************************************************************************)
(* Theorems about the way of a request to the model: Admission, for every  *)
(* set of keys, requests and processes and every limit, and the token      *)
(* budget, for every size, number of processes, failures and restarts.     *)
(*                                                                         *)
(* The daily limit may be passed by requests between their count and their *)
(* insert only: at most one per process (OnePerLoop), each of which found  *)
(* the events below the limit (MeteredBelow).  Once a key has changed no   *)
(* request passes the check it fails any more: what an endpoint worked     *)
(* since and what is still past that check add up to no more than what was *)
(* past it at the change (LateBelow).                                      *)
(*                                                                         *)
(* The budget sums up what was let through.  Instead of summing, every     *)
(* request let through takes as many places as it has tokens, in the       *)
(* budget it was counted in (Booked): the values INCRBY returns for two    *)
(* charges lie at least their sizes apart (ChargesApart), so no place is   *)
(* taken twice, and there are no more places than budgets times their size.*)
(***************************************************************************)
EXTENDS Admission, TokenBudget, FiniteSetTheorems, TLAPS

Metering(k) == {h \in Handler : request[h] = [at |-> "metering", key |-> k]}

OnePerLoop ==
  \A g, h \in Handler :
    request[g].at = "metering" /\ request[h].at = "metering" /\ Home[g] = Home[h] => g = h

MeteredBelow ==
  \A k \in Key :
    usage[k] + Cardinality(Metering(k)) < MaxPerDay + Cardinality(Process)

LateBelow ==
  \A k \in Key : \A s \in {"overdue", "dead"} :
    standing[k] = s => late[k] + Cardinality(Past(k, s)) <= open[k]

IInv == TypeOK /\ OnePerLoop /\ MeteredBelow /\ LateBelow

-----------------------------------------------------------------------------
(* Requests and sets of them. *)

\* A request that is under way is a record of its stage and one of the keys.
LEMMA RequestShape ==
  ASSUME TypeOK, NEW h \in Handler
  PROVE  /\ request[h] = [at |-> request[h].at, key |-> request[h].key]
         /\ request[h].at \in Stage /\ request[h].key \in Key \cup {NoKey}
         /\ request[h].at # "idle" <=> request[h].key \in Key
         /\ request[h].at = "idle" <=> request[h] = Idle
         /\ \A s \in Stage : [request[h] EXCEPT !.at = s] = [at |-> s, key |-> request[h].key]
<1>1. request[h] \in Request /\ (request[h].at = "idle" <=> request[h].key = NoKey)
  BY DEF TypeOK
<1> QED
  BY <1>1, KeyAssumption DEF Request, Idle, Stage

\* The sets of requests are finite.
LEMMA CountsAreNat ==
  ASSUME NEW k, NEW s
  PROVE  /\ IsFiniteSet(Metering(k)) /\ Cardinality(Metering(k)) \in Nat
         /\ IsFiniteSet(Past(k, s)) /\ Cardinality(Past(k, s)) \in Nat
         /\ Cardinality(Process) \in Nat
<1>1. Metering(k) \in SUBSET Handler /\ Past(k, s) \in SUBSET Handler
  BY DEF Metering, Past
<1>2. IsFiniteSet(Handler) /\ IsFiniteSet(Process)
  BY HomeAssumption, HandlerAssumption
<1>3. IsFiniteSet(Metering(k)) /\ IsFiniteSet(Past(k, s))
  BY <1>1, <1>2, FS_Subset
<1> QED
  BY <1>2, <1>3, FS_CardinalityType

\* A set that loses members, or none, has no more of them.
LEMMA FewerRequests ==
  ASSUME NEW S, IsFiniteSet(S), NEW R \in SUBSET S
  PROVE  Cardinality(R) \in Nat /\ Cardinality(S) \in Nat /\ Cardinality(R) <= Cardinality(S)
BY FS_Subset, FS_CardinalityType

\* Requests of different processes are no more than the processes.
LEMMA OnePerProcess ==
  ASSUME NEW M \in SUBSET Handler, \A g, h \in M : Home[g] = Home[h] => g = h
  PROVE  Cardinality(M) \in Nat /\ Cardinality(M) <= Cardinality(Process)
<1> DEFINE f == [h \in M |-> Home[h]]
<1>1. f \in [M -> Process]
  BY HomeAssumption
<1>2. \A g, h \in M : f[g] = f[h] => g = h
  OBVIOUS
<1>3. f \in Injection(M, Process)
  BY <1>1, <1>2 DEF Injection, IsInjective
<1>4. IsFiniteSet(M) /\ IsFiniteSet(Process)
  BY HomeAssumption, HandlerAssumption, FS_Subset
<1> HIDE DEF f
<1> QED
  BY <1>3, <1>4, FS_Injection, FS_CardinalityType

-----------------------------------------------------------------------------
(* Types. *)

\* The day begins with no requests.
LEMMA InitTypeOK == Init => TypeOK
BY LimitAssumption, KeyAssumption DEF Init, TypeOK, Request, Idle, Stage

\* A request that moves keeps the table of requests well typed.
LEMMA MoveTyped ==
  ASSUME TypeOK, NEW h \in Handler, NEW s \in Stage \ {"idle"}, NEW k \in Key,
         request' = [request EXCEPT ![h] = [at |-> s, key |-> k]]
  PROVE  /\ request' \in [Handler -> Request]
         /\ \A g \in Handler : request'[g].at = "idle" <=> request'[g].key = NoKey
BY KeyAssumption DEF TypeOK, Request, Stage

\* So does one that ends.
LEMMA EndTyped ==
  ASSUME TypeOK,
         \A g \in Handler : request'[g] \in {request[g], Idle},
         request' = [g \in Handler |-> request'[g]]
  PROVE  /\ request' \in [Handler -> Request]
         /\ \A g \in Handler : request'[g].at = "idle" <=> request'[g].key = NoKey
<1>1. \A g \in Handler : request'[g] \in Request /\ (request'[g].at = "idle" <=> request'[g].key = NoKey)
  BY DEF TypeOK, Request, Idle, Stage
<1> QED
  BY <1>1

\* What the steps of a request do to the table: they move it on or end it.
LEMMA StageMoves ==
  ASSUME TypeOK, NEW h \in Handler,
         Authorise(h) \/ Count(h) \/ \E allowed \in BOOLEAN : Work(h, allowed)
  PROVE  /\ request[h].key \in Key
         /\ \E s \in {"authorised", "answered", "metering"} :
              \/ request' = [request EXCEPT ![h] = [at |-> s, key |-> request[h].key]]
              \/ request' = [request EXCEPT ![h] = Idle]
<1>1. request[h].at # "idle"
  BY DEF Authorise, Count, Work
<1>2. \A s \in {"authorised", "answered", "metering"} :
        [request[h] EXCEPT !.at = s] = [at |-> s, key |-> request[h].key]
  BY RequestShape DEF Stage
<1>3. \/ request' = [request EXCEPT ![h] = Idle]
      \/ \E s \in {"authorised", "answered", "metering"} :
           request' = [request EXCEPT ![h] = [request[h] EXCEPT !.at = s]]
  BY DEF Authorise, Count, Work, Answered
<1> QED
  BY <1>1, <1>2, <1>3, RequestShape

\* Every step keeps the types.
LEMMA NextTypeOK == TypeOK /\ [Next]_vars => TypeOK'
<1> SUFFICES ASSUME TypeOK, [Next]_vars PROVE TypeOK'
  OBVIOUS
<1>1. ASSUME NEW k \in Key, NEW s \in {"good", "overdue", "dead"}, ChangeKey(k, s) PROVE TypeOK'
  <2>1. Cardinality(Past(k, s)) \in Nat
    BY CountsAreNat
  <2> QED
    BY <1>1, <2>1 DEF ChangeKey, TypeOK
<1>2. ASSUME NEW k \in Key, NEW h \in Handler, Gate(h, k) PROVE TypeOK'
  <2>1. /\ request' \in [Handler -> Request]
        /\ \A g \in Handler : request'[g].at = "idle" <=> request'[g].key = NoKey
    BY <1>2, MoveTyped DEF Gate, Stage
  <2>2. admitted' \in [Key -> 0..MaxRequests]
    BY <1>2, LimitAssumption DEF Gate, TypeOK
  <2> QED
    BY <1>2, <2>1, <2>2 DEF Gate, TypeOK
<1>3. ASSUME NEW h \in Handler,
             Authorise(h) \/ Count(h) \/ \E allowed \in BOOLEAN : Work(h, allowed)
      PROVE  TypeOK'
  <2>0. PICK s \in {"authorised", "answered", "metering"} :
          \/ request' = [request EXCEPT ![h] = [at |-> s, key |-> request[h].key]]
          \/ request' = [request EXCEPT ![h] = Idle]
    BY <1>3, StageMoves
  <2>1. /\ request' \in [Handler -> Request]
        /\ \A g \in Handler : request'[g].at = "idle" <=> request'[g].key = NoKey
    <3>1. request[h].key \in Key
      BY <1>3, StageMoves
    <3>2. CASE request' = [request EXCEPT ![h] = Idle]
      BY <3>2, EndTyped DEF TypeOK
    <3> QED
      BY <2>0, <3>1, <3>2, MoveTyped DEF Stage
  <2>2. late' \in [Key -> Nat]
    <3>1. late' = late \/ late' = [late EXCEPT ![request[h].key] = @ + 1]
      BY <1>3 DEF Authorise, Count, Work
    <3> QED
      BY <3>1 DEF TypeOK
  <2> QED
    BY <1>3, <2>1, <2>2 DEF Authorise, Count, Work, TypeOK
<1>4. ASSUME NEW h \in Handler, NEW stored \in BOOLEAN, Record(h, stored) PROVE TypeOK'
  <2>1. /\ request' \in [Handler -> Request]
        /\ \A g \in Handler : request'[g].at = "idle" <=> request'[g].key = NoKey
    <3>1. request' = [request EXCEPT ![h] = Idle]
      BY <1>4 DEF Record
    <3> QED
      BY <3>1, EndTyped DEF TypeOK
  <2>2. usage' \in [Key -> Nat]
    <3>1. request[h].key \in Key
      BY <1>4, RequestShape DEF Record
    <3> QED
      BY <1>4, <3>1 DEF Record, TypeOK
  <2> QED
    BY <1>4, <2>1, <2>2 DEF Record, TypeOK
<1>5. ASSUME NEW p \in Process, Crash(p) PROVE TypeOK'
  <2>1. /\ request' \in [Handler -> Request]
        /\ \A g \in Handler : request'[g].at = "idle" <=> request'[g].key = NoKey
    BY <1>5, EndTyped DEF Crash, TypeOK
  <2> QED
    BY <1>5, <2>1 DEF Crash, TypeOK
<1>6. CASE UNCHANGED vars
  BY <1>6 DEF vars, TypeOK
<1> QED
  BY <1>1, <1>2, <1>3, <1>4, <1>5, <1>6 DEF Next

-----------------------------------------------------------------------------
(* The daily limit. *)

\* Steps that begin no metering and insert nothing keep both invariants.
LEMMA NoNewMetering ==
  ASSUME TypeOK, OnePerLoop, MeteredBelow, usage' = usage,
         \A h \in Handler : request'[h].at = "metering" => request'[h] = request[h]
  PROVE  OnePerLoop' /\ MeteredBelow'
<1>1. OnePerLoop'
  BY DEF OnePerLoop
<1>2. ASSUME NEW k \in Key
      PROVE  usage'[k] + Cardinality(Metering(k)') < MaxPerDay + Cardinality(Process)
  <2>1. Metering(k)' \in SUBSET Metering(k)
    BY DEF Metering
  <2>2. /\ Cardinality(Metering(k)') \in Nat /\ Cardinality(Metering(k)) \in Nat
        /\ Cardinality(Metering(k)') <= Cardinality(Metering(k))
    BY <2>1, CountsAreNat, FewerRequests
  <2>3. usage[k] \in Nat /\ MaxPerDay \in Nat /\ Cardinality(Process) \in Nat
    BY LimitAssumption, CountsAreNat DEF TypeOK
  <2> QED
    BY <2>2, <2>3 DEF MeteredBelow
<1> QED
  BY <1>1, <1>2 DEF MeteredBelow

\* A count finds its event loop free and the events below the limit: the requests
\* that meter the key by then are one per process at most.
LEMMA CountKeeps ==
  ASSUME TypeOK, OnePerLoop, MeteredBelow, NEW h \in Handler, Count(h)
  PROVE  OnePerLoop' /\ MeteredBelow'
<1> DEFINE k == request[h].key
<1>1. /\ request[h].at = "answered" /\ LoopFree(h) /\ usage' = usage
      /\ k \in Key
  BY RequestShape DEF Count
<1>2. CASE usage[k] >= MaxPerDay
  <2>1. request' = [request EXCEPT ![h] = Idle]
    BY <1>2 DEF Count
  <2>2. \A g \in Handler : request'[g].at = "metering" => request'[g] = request[g]
    BY <2>1 DEF TypeOK, Idle
  <2> QED
    BY <1>1, <2>2, NoNewMetering
<1>3. CASE ~(usage[k] >= MaxPerDay)
  <2>1. request' = [request EXCEPT ![h] = [at |-> "metering", key |-> k]]
    BY <1>3, RequestShape DEF Count, Stage
  <2>2. /\ request'[h] = [at |-> "metering", key |-> k]
        /\ \A g \in Handler \ {h} : request'[g] = request[g]
    BY <2>1 DEF TypeOK
  <2>3. OnePerLoop'
    BY <1>1, <2>2 DEF OnePerLoop, LoopFree
  <2>4. ASSUME NEW c \in Key
        PROVE  usage'[c] + Cardinality(Metering(c)') < MaxPerDay + Cardinality(Process)
    <3>1. usage[c] \in Nat /\ MaxPerDay \in Nat /\ Cardinality(Process) \in Nat
      BY LimitAssumption, CountsAreNat DEF TypeOK
    <3>2. CASE c = k
      <4>1. /\ Metering(c)' \in SUBSET Handler
            /\ \A g, e \in Metering(c)' : Home[g] = Home[e] => g = e
        BY <2>3 DEF Metering, OnePerLoop
      <4>2. /\ Cardinality(Metering(c)') \in Nat
            /\ Cardinality(Metering(c)') <= Cardinality(Process)
        BY <4>1, OnePerProcess
      <4> QED
        BY <1>1, <1>3, <3>1, <3>2, <4>2
    <3>3. CASE c # k
      <4>1. Metering(c)' = Metering(c)
        <5>1. \A g \in Handler : request'[g] = [at |-> "metering", key |-> c]
                                  <=> request[g] = [at |-> "metering", key |-> c]
          BY <1>1, <2>2, <3>3
        <5> QED
          BY <5>1 DEF Metering
      <4> QED
        BY <1>1, <4>1 DEF MeteredBelow
    <3> QED
      BY <3>2, <3>3
  <2> QED
    BY <2>3, <2>4 DEF MeteredBelow
<1> QED
  BY <1>2, <1>3

\* An insert puts an event where a metering request was counted.
LEMMA RecordKeeps ==
  ASSUME TypeOK, OnePerLoop, MeteredBelow, NEW h \in Handler, NEW stored \in BOOLEAN,
         Record(h, stored)
  PROVE  OnePerLoop' /\ MeteredBelow'
<1> DEFINE k == request[h].key
<1>1. /\ request[h] = [at |-> "metering", key |-> k] /\ k \in Key
      /\ request' = [request EXCEPT ![h] = Idle]
      /\ usage' = IF stored THEN [usage EXCEPT ![k] = @ + 1] ELSE usage
  BY RequestShape DEF Record
<1>2. request'[h] = Idle /\ \A g \in Handler \ {h} : request'[g] = request[g]
  BY <1>1 DEF TypeOK
<1>3. OnePerLoop'
  BY <1>2 DEF OnePerLoop, Idle
<1>4. ASSUME NEW c \in Key
      PROVE  usage'[c] + Cardinality(Metering(c)') < MaxPerDay + Cardinality(Process)
  <2>1. usage[c] \in Nat /\ MaxPerDay \in Nat /\ Cardinality(Process) \in Nat
    BY LimitAssumption, CountsAreNat DEF TypeOK
  <2>2. IsFiniteSet(Metering(c)) /\ Cardinality(Metering(c)) \in Nat
    BY CountsAreNat
  <2>3. usage[c] + Cardinality(Metering(c)) < MaxPerDay + Cardinality(Process)
    BY DEF MeteredBelow
  <2>4. Metering(c)' = Metering(c) \ {h}
    BY <1>2 DEF Metering, Idle
  <2>5. CASE c = k
    <3>1. h \in Metering(c)
      BY <1>1, <2>5 DEF Metering
    <3>2. Cardinality(Metering(c)') = Cardinality(Metering(c)) - 1
      BY <2>2, <2>4, <3>1, FS_RemoveElement
    <3>3. usage'[c] \in {usage[c], usage[c] + 1}
      BY <1>1 DEF TypeOK
    <3> QED
      BY <2>1, <2>2, <2>3, <3>2, <3>3
  <2>6. CASE c # k
    <3>1. h \notin Metering(c)
      BY <1>1, <2>6 DEF Metering
    <3>2. Metering(c)' = Metering(c) /\ usage'[c] = usage[c]
      BY <1>1, <2>4, <2>6, <3>1 DEF TypeOK
    <3> QED
      BY <2>3, <3>2
  <2> QED
    BY <2>5, <2>6
<1> QED
  BY <1>3, <1>4 DEF MeteredBelow

-----------------------------------------------------------------------------
(* Service for a key that has changed. *)

\* Steps that let no request past a check and work for none keep what is known of
\* late ones.
LEMMA NoNewPast ==
  ASSUME TypeOK, LateBelow, UNCHANGED <<standing, open, late>>,
         \A k \in Key : \A s \in {"overdue", "dead"} :
           standing[k] = s => Past(k, s)' \subseteq Past(k, s)
  PROVE  LateBelow'
<1> SUFFICES ASSUME NEW k \in Key, NEW s \in {"overdue", "dead"}, standing'[k] = s
             PROVE  late'[k] + Cardinality(Past(k, s)') <= open'[k]
  BY DEF LateBelow
<1>1. Past(k, s)' \in SUBSET Past(k, s)
  OBVIOUS
<1>2. /\ Cardinality(Past(k, s)') \in Nat /\ Cardinality(Past(k, s)) \in Nat
      /\ Cardinality(Past(k, s)') <= Cardinality(Past(k, s))
  BY <1>1, CountsAreNat, FewerRequests
<1>3. late[k] \in Nat /\ open[k] \in Nat
  BY DEF TypeOK
<1>4. late[k] + Cardinality(Past(k, s)) <= open[k]
  BY DEF LateBelow
<1> QED
  BY <1>2, <1>3, <1>4

\* So do steps after which every request that is past a check was where it is.
LEMMA NoMovePast ==
  ASSUME TypeOK, LateBelow, UNCHANGED <<standing, open, late>>,
         \A h \in Handler :
           request'[h].at \in {"gated", "authorised"} => request'[h] = request[h]
  PROVE  LateBelow'
<1>1. ASSUME NEW k \in Key, NEW s \in {"overdue", "dead"}, NEW h \in Past(k, s)'
      PROVE  h \in Past(k, s)
  <2>1. h \in Handler /\ request'[h].at \in {"gated", "authorised"}
    BY <1>1 DEF Past
  <2>2. request'[h] = request[h]
    BY <2>1
  <2> QED
    BY <1>1, <2>2 DEF Past
<1> QED
  BY <1>1, NoNewPast

\* A key that changes starts with nothing late, and with what is past the check.
LEMMA ChangeKeeps ==
  ASSUME TypeOK, LateBelow, NEW c \in Key, NEW s \in {"good", "overdue", "dead"},
         ChangeKey(c, s)
  PROVE  LateBelow'
<1> SUFFICES ASSUME NEW k \in Key, NEW t \in {"overdue", "dead"}, standing'[k] = t
             PROVE  late'[k] + Cardinality(Past(k, t)') <= open'[k]
  BY DEF LateBelow
<1>1. Past(k, t)' = Past(k, t) /\ Cardinality(Past(k, t)) \in Nat
  <2>1. request' = request
    BY DEF ChangeKey
  <2>2. Past(k, t)' = Past(k, t)
    BY <2>1 DEF Past
  <2> QED
    BY <2>2, CountsAreNat
<1>2. CASE k = c
  <2>1. t = s /\ late'[k] = 0 /\ open'[k] = Cardinality(Past(k, s))
    BY <1>2 DEF ChangeKey, TypeOK
  <2> QED
    BY <1>1, <2>1
<1>3. CASE k # c
  BY <1>1, <1>3 DEF ChangeKey, TypeOK, LateBelow
<1> QED
  BY <1>2, <1>3

\* The gate opens for keys that are in order only.
LEMMA GateKeeps ==
  ASSUME TypeOK, LateBelow, NEW h \in Handler, NEW c \in Key, Gate(h, c)
  PROVE  LateBelow'
<1>1. /\ standing[c] = "good" /\ UNCHANGED <<standing, open, late>>
      /\ request'[h] = [at |-> "gated", key |-> c]
      /\ \A g \in Handler \ {h} : request'[g] = request[g]
  BY DEF Gate, TypeOK
<1>2. ASSUME NEW k \in Key, NEW s \in {"overdue", "dead"}, standing[k] = s
      PROVE  Past(k, s)' \subseteq Past(k, s)
  <2>1. k # c
    BY <1>1, <1>2
  <2> QED
    BY <1>1, <2>1 DEF Past
<1> QED
  BY <1>1, <1>2, NoNewPast

\* The dependency lets nobody past for a dead key, and who gets past it for an
\* overdue one was past the gate.
LEMMA AuthoriseKeeps ==
  ASSUME TypeOK, LateBelow, NEW h \in Handler, Authorise(h)
  PROVE  LateBelow'
<1> DEFINE c == request[h].key
<1>1. /\ request[h].at = "gated" /\ UNCHANGED <<standing, open, late>>
      /\ request'[h].key = c
      /\ standing[c] = "dead" => request'[h].at = "answered"
      /\ \A g \in Handler \ {h} : request'[g] = request[g]
  BY RequestShape DEF Authorise, Answered, TypeOK, Request
<1>2. ASSUME NEW k \in Key, NEW s \in {"overdue", "dead"}, standing[k] = s
      PROVE  Past(k, s)' \subseteq Past(k, s)
  <2>1. CASE s = "dead"
    BY <1>1, <1>2, <2>1 DEF Past
  <2>2. CASE s = "overdue"
    BY <1>1, <2>2 DEF Past
  <2> QED
    BY <2>1, <2>2
<1> QED
  BY <1>1, <1>2, NoNewPast

\* A request an endpoint works for was past every check.
LEMMA WorkKeeps ==
  ASSUME TypeOK, LateBelow, NEW h \in Handler, NEW allowed \in BOOLEAN, Work(h, allowed)
  PROVE  LateBelow'
<1> DEFINE c == request[h].key
<1> SUFFICES ASSUME NEW k \in Key, NEW s \in {"overdue", "dead"}, standing'[k] = s
             PROVE  late'[k] + Cardinality(Past(k, s)') <= open'[k]
  BY DEF LateBelow
<1>1. /\ request[h].at = "authorised" /\ c \in Key /\ UNCHANGED <<standing, open>>
      /\ late' = IF allowed THEN [late EXCEPT ![c] = @ + 1] ELSE late
  BY RequestShape DEF Work
<1>2. request'[h].at = "answered" /\ \A g \in Handler \ {h} : request'[g] = request[g]
  BY RequestShape DEF Work, Answered, TypeOK, Request
<1>3. Past(k, s)' = Past(k, s) \ {h}
  BY <1>2 DEF Past
<1>4. /\ late[k] \in Nat /\ open[k] \in Nat
      /\ IsFiniteSet(Past(k, s)) /\ Cardinality(Past(k, s)) \in Nat
  BY CountsAreNat DEF TypeOK
<1>5. late[k] + Cardinality(Past(k, s)) <= open[k]
  BY <1>1 DEF LateBelow
<1>6. CASE k = c
  <2>1. h \in Past(k, s)
    BY <1>1, <1>6 DEF Past
  <2>2. Cardinality(Past(k, s)') = Cardinality(Past(k, s)) - 1
    BY <1>3, <1>4, <2>1, FS_RemoveElement
  <2>3. late'[k] \in {late[k], late[k] + 1}
    BY <1>1, <1>6 DEF TypeOK
  <2> QED
    BY <1>1, <1>4, <1>5, <2>2, <2>3
<1>7. CASE k # c
  <2>1. h \notin Past(k, s)
    BY <1>7 DEF Past
  <2>2. Past(k, s)' = Past(k, s) /\ late'[k] = late[k]
    BY <1>1, <1>3, <1>7, <2>1 DEF TypeOK
  <2> QED
    BY <1>1, <1>5, <2>2
<1> QED
  BY <1>6, <1>7

-----------------------------------------------------------------------------
\* The day begins with nothing counted.
LEMMA InitIInv == Init => IInv
<1> SUFFICES ASSUME Init PROVE IInv
  OBVIOUS
<1>1. TypeOK
  BY InitTypeOK
<1>2. OnePerLoop /\ LateBelow
  BY DEF Init, OnePerLoop, LateBelow, Idle
<1>3. ASSUME NEW k \in Key
      PROVE  usage[k] + Cardinality(Metering(k)) < MaxPerDay + Cardinality(Process)
  <2>1. Metering(k) = {}
    BY DEF Init, Metering, Idle
  <2>2. Cardinality(Metering(k)) = 0
    BY <2>1, FS_EmptySet
  <2>3. usage[k] = 0 /\ MaxPerDay \in Nat \ {0} /\ Cardinality(Process) \in Nat
    BY LimitAssumption, CountsAreNat DEF Init
  <2> QED
    BY <2>2, <2>3
<1> QED
  BY <1>1, <1>2, <1>3 DEF IInv, MeteredBelow

\* Every step keeps the invariant.
LEMMA NextIInv == IInv /\ [Next]_vars => IInv'
<1> SUFFICES ASSUME IInv, [Next]_vars PROVE IInv'
  OBVIOUS
<1>0. TypeOK /\ OnePerLoop /\ MeteredBelow /\ LateBelow /\ TypeOK'
  BY NextTypeOK DEF IInv
<1>1. ASSUME NEW k \in Key, NEW s \in {"good", "overdue", "dead"}, ChangeKey(k, s) PROVE IInv'
  <2>1. usage' = usage /\ request' = request
    BY <1>1 DEF ChangeKey
  <2>2. OnePerLoop' /\ MeteredBelow'
    BY <1>0, <2>1, NoNewMetering
  <2> QED
    BY <1>0, <1>1, <2>2, ChangeKeeps DEF IInv
<1>2. ASSUME NEW k \in Key, NEW h \in Handler, Gate(h, k) PROVE IInv'
  <2>1. usage' = usage /\ \A g \in Handler : request'[g].at = "metering" => request'[g] = request[g]
    BY <1>0, <1>2 DEF Gate, TypeOK
  <2>2. OnePerLoop' /\ MeteredBelow'
    BY <1>0, <2>1, NoNewMetering
  <2> QED
    BY <1>0, <1>2, <2>2, GateKeeps DEF IInv
<1>3. ASSUME NEW h \in Handler, Authorise(h) PROVE IInv'
  <2>1. usage' = usage /\ \A g \in Handler : request'[g].at = "metering" => request'[g] = request[g]
    BY <1>0, <1>3, RequestShape DEF Authorise, Answered, TypeOK
  <2>2. OnePerLoop' /\ MeteredBelow'
    BY <1>0, <2>1, NoNewMetering
  <2> QED
    BY <1>0, <1>3, <2>2, AuthoriseKeeps DEF IInv
<1>4. ASSUME NEW h \in Handler, Count(h) PROVE IInv'
  <2>1. /\ UNCHANGED <<standing, open, late>>
        /\ \A g \in Handler :
             request'[g].at \in {"gated", "authorised"} => request'[g] = request[g]
    BY <1>0, <1>4, RequestShape DEF Count, TypeOK, Idle
  <2>2. LateBelow'
    BY <1>0, <2>1, NoMovePast
  <2> QED
    BY <1>0, <1>4, <2>2, CountKeeps DEF IInv
<1>5. ASSUME NEW h \in Handler, NEW stored \in BOOLEAN, Record(h, stored) PROVE IInv'
  <2>1. /\ UNCHANGED <<standing, open, late>>
        /\ \A g \in Handler :
             request'[g].at \in {"gated", "authorised"} => request'[g] = request[g]
    BY <1>0, <1>5 DEF Record, TypeOK, Idle
  <2>2. LateBelow'
    BY <1>0, <2>1, NoMovePast
  <2> QED
    BY <1>0, <1>5, <2>2, RecordKeeps DEF IInv
<1>6. ASSUME NEW h \in Handler, NEW allowed \in BOOLEAN, Work(h, allowed) PROVE IInv'
  <2>1. usage' = usage /\ \A g \in Handler : request'[g].at = "metering" => request'[g] = request[g]
    BY <1>0, <1>6, RequestShape DEF Work, Answered, TypeOK
  <2>2. OnePerLoop' /\ MeteredBelow'
    BY <1>0, <2>1, NoNewMetering
  <2> QED
    BY <1>0, <1>6, <2>2, WorkKeeps DEF IInv
<1>7. CASE (\E p \in Process : Crash(p)) \/ UNCHANGED vars
  <2>1. /\ UNCHANGED <<standing, usage, open, late>>
        /\ \A g \in Handler : request'[g] \in {request[g], Idle}
    BY <1>7 DEF Crash, vars
  <2>2. \A g \in Handler :
          request'[g].at \in {"metering", "gated", "authorised"} => request'[g] = request[g]
    BY <2>1 DEF Idle
  <2>3. OnePerLoop' /\ MeteredBelow'
    BY <1>0, <2>1, <2>2, NoNewMetering
  <2>4. LateBelow'
    BY <1>0, <2>1, <2>2, NoMovePast
  <2> QED
    BY <1>0, <2>3, <2>4 DEF IInv
<1> QED
  BY <1>1, <1>2, <1>3, <1>4, <1>5, <1>6, <1>7 DEF Next

\* The invariant holds in every reachable state.
LEMMA Invariance == Spec => []IInv
BY InitIInv, NextIInv, PTL DEF Spec

\* Every reachable state of the keys, requests and counts is well typed.
THEOREM TypeCorrect == Spec => []TypeOK
<1>1. IInv => TypeOK
  BY DEF IInv
<1> QED
  BY <1>1, Invariance, PTL

\* The events of a day exceed the limit by at most one for each process but the
\* first, for any limit and any number of requests.
THEOREM UsageBoundedHolds == Spec => []UsageBounded
<1>1. ASSUME IInv, NEW k \in Key PROVE usage[k] < MaxPerDay + Cardinality(Process)
  <2>1. /\ usage[k] + Cardinality(Metering(k)) < MaxPerDay + Cardinality(Process)
        /\ usage[k] \in Nat /\ MaxPerDay \in Nat
    BY <1>1, LimitAssumption DEF IInv, MeteredBelow, TypeOK
  <2> QED
    BY <2>1, CountsAreNat
<1>2. IInv => UsageBounded
  BY <1>1 DEF UsageBounded
<1> QED
  BY <1>2, Invariance, PTL

\* What was worked since a key changed is no more than what was past the check.
LEMMA LateAtMostOpen ==
  ASSUME IInv, NEW k \in Key, NEW s \in {"overdue", "dead"}, standing[k] = s
  PROVE  late[k] <= open[k]
<1>1. /\ late[k] \in Nat /\ open[k] \in Nat
      /\ late[k] + Cardinality(Past(k, s)) <= open[k]
  BY DEF IInv, TypeOK, LateBelow
<1> QED
  BY <1>1, CountsAreNat

\* After a trial ends endpoints work at most for the requests that were past the
\* gate at that moment, whatever the order of the reads of the key, the waits
\* and the crashes of the processes.
THEOREM LateServiceBoundedHolds == Spec => []LateServiceBounded
<1>1. IInv => LateServiceBounded
  BY LateAtMostOpen DEF LateServiceBounded
<1> QED
  BY <1>1, Invariance, PTL

\* After a key is deactivated or rotated endpoints work at most for the requests
\* the dependency had let through at that moment: of those it had not yet read
\* the key for, however many they are, none is served.
THEOREM DeadServiceBoundedHolds == Spec => []DeadServiceBounded
<1>1. IInv => DeadServiceBounded
  BY LateAtMostOpen DEF DeadServiceBounded
<1> QED
  BY <1>1, Invariance, PTL

-----------------------------------------------------------------------------
(* The token budget.  Who is let through takes as many places as the        *)
(* request has tokens: in the one budget of Redis those up to the value     *)
(* INCRBY returned, in the budget of a life of a process the next free      *)
(* ones.  No place is taken twice.                                          *)

\* The places of a charge that waits for its EXPIRE.
Claimed(h) == job[h].used - job[h].tokens + 1 .. job[h].used

ChargesApart ==
  /\ \A h \in Handler : job[h].at # "idle" => redis /\ job[h].tokens > 0
  /\ \A h \in Handler :
       job[h].at = "expire" => /\ job[h].tokens <= job[h].used
                               /\ job[h].used <= counter[job[h].window]
  /\ \A g, h \in Handler :
       /\ g # h /\ job[g].at = "expire" /\ job[h].at = "expire"
       /\ job[g].window = job[h].window
       => \/ job[g].used + job[h].tokens <= job[h].used
          \/ job[h].used + job[g].tokens <= job[g].used

\* The places taken in window w: shared in Redis, own in the memories.  spent are
\* the lives that ever counted there and life is the one each process is in.
Ledger(w, shared, spent, own, life) ==
  /\ shared \in SUBSET (1..MaxPerMinute)
  /\ spent \in SUBSET (1..Lives)
  /\ own \in SUBSET (spent \X (1..MaxPerMinute))
  /\ life \in [Process -> 1..Lives]
  /\ \A p, q \in Process : life[p] = life[q] => p = q
  /\ granted[w] = Cardinality(shared) + Cardinality(own)
  /\ IF redis THEN Cardinality(spent) <= faults ELSE shared = {}
  /\ \A i \in shared :
       /\ i <= counter[w]
       /\ \A h \in Handler : job[h].at = "expire" /\ job[h].window = w => i \notin Claimed(h)
  /\ w >= WindowOf(now) =>
       \A p \in Process, i \in 1..MaxPerMinute : <<life[p], i>> \in own => i <= bucket[p][w]

Booked ==
  \A w \in Window : \E shared, spent, own, life : Ledger(w, shared, spent, own, life)

BudgetInv == BudgetTypeOK /\ ChargesApart /\ Booked

-----------------------------------------------------------------------------
(* Numbers, windows and places. *)

\* The constants of the budget are numbers.
LEMMA BudgetConstants ==
  /\ MaxPerMinute \in Nat \ {0} /\ Minute \in Nat \ {0} /\ MaxTime \in Nat
  /\ MaxCharges \in Nat /\ MaxFaults \in Nat /\ MaxRestarts \in Nat
  /\ \A n \in Tokens : n \in Nat /\ n > 0
  /\ \A h \in Handler : Home[h] \in Process
  /\ IsFiniteSet(Process) /\ Cardinality(Process) \in Nat
BY SizeAssumption, BoundAssumption, HomeAssumption, FS_CardinalityType

\* Products grow with their factors.
LEMMA Products ==
  ASSUME NEW m \in Nat, NEW a \in Nat, NEW b \in Nat, a <= b
  PROVE  m * a \in Nat /\ m * b \in Nat /\ m * a <= m * b /\ m * (1 + a) = m + m * a
OBVIOUS

\* A later time is in the same window or a later one.
LEMMA WindowsInOrder ==
  ASSUME NEW s \in Nat, NEW t \in Nat, s <= t
  PROVE  WindowOf(s) \in Nat /\ WindowOf(t) \in Nat /\ WindowOf(s) <= WindowOf(t)
<1> DEFINE m == Minute
           a == s \div m
           b == t \div m
<1>1. m \in Nat \ {0}
  BY BudgetConstants
<1>2. a \in Int /\ b \in Int /\ m * a <= s /\ s < m * (a + 1) /\ m * b <= t /\ t < m * (b + 1)
  BY <1>1
<1>3. a >= 0 /\ b >= 0
  BY <1>1
<1> HIDE DEF m, a, b
<1>4. a <= b
  <2> SUFFICES ASSUME b + 1 <= a PROVE FALSE
    BY <1>2
  <2>1. m * (b + 1) <= m * a
    BY <1>1, <1>2, <1>3, Products
  <2>2. m * (b + 1) \in Int /\ m * a \in Int
    BY <1>1, <1>2
  <2> QED
    BY <1>2, <2>1, <2>2
<1> QED
  BY <1>2, <1>3, <1>4 DEF WindowOf, a, b, m

\* The window of the clock is one of those modelled.
LEMMA WindowNow ==
  ASSUME BudgetTypeOK
  PROVE  WindowOf(now) \in Window /\ WindowOf(now) \in Nat /\ Window \subseteq Nat
<1>1. now \in Nat /\ MaxTime \in Nat /\ now <= MaxTime
  BY BudgetConstants DEF BudgetTypeOK
<1>2. WindowOf(now) \in Nat /\ WindowOf(MaxTime) \in Nat /\ WindowOf(now) <= WindowOf(MaxTime)
  BY <1>1, WindowsInOrder
<1> QED
  BY <1>2 DEF Window

\* A row of n places that nobody has taken.
LEMMA MorePlaces ==
  ASSUME NEW S, IsFiniteSet(S), NEW a \in Nat, NEW n \in Nat,
         \A i \in a + 1 .. a + n : i \notin S
  PROVE  /\ IsFiniteSet(S \cup (a + 1 .. a + n))
         /\ Cardinality(S \cup (a + 1 .. a + n)) = Cardinality(S) + n
<1>1. IsFiniteSet(a + 1 .. a + n) /\ Cardinality(a + 1 .. a + n) = n
  <2>1. a + 1 \in Int /\ a + n \in Int
    OBVIOUS
  <2>2. IsFiniteSet(a + 1 .. a + n)
        /\ Cardinality(a + 1 .. a + n) = IF a + 1 > a + n THEN 0 ELSE a + n - (a + 1) + 1
    BY <2>1, FS_Interval
  <2> QED
    BY <2>2
<1>2. S \cap (a + 1 .. a + n) = {}
  OBVIOUS
<1>3. Cardinality({}) = 0 /\ Cardinality(S) \in Nat
  BY FS_EmptySet, FS_CardinalityType
<1> DEFINE T == a + 1 .. a + n
<1>4. IsFiniteSet(T) /\ Cardinality(T) = n /\ S \cap T = {}
  BY <1>1, <1>2
<1> HIDE DEF T
<1>5. IsFiniteSet(S \cup T) /\ Cardinality(S \cup T) = Cardinality(S) + n
  <2>1. /\ IsFiniteSet(S \cup T)
        /\ Cardinality(S \cup T) = Cardinality(S) + Cardinality(T) - Cardinality(S \cap T)
    BY <1>4, FS_Union
  <2>2. Cardinality(S \cap T) = 0
    BY <1>3, <1>4
  <2> QED
    BY <1>3, <1>4, <2>1, <2>2
<1> QED
  BY <1>5 DEF T

\* The n places above the first a ones in the budget of life l.
Row(l, a, n) == {l} \X (a + 1 .. a + n)

\* There are n places in a row of n.
LEMMA RowSize ==
  ASSUME NEW l, NEW a \in Nat, NEW n \in Nat
  PROVE  IsFiniteSet(Row(l, a, n)) /\ Cardinality(Row(l, a, n)) = n
<1>1. IsFiniteSet(a + 1 .. a + n) /\ Cardinality(a + 1 .. a + n) = n
  <2>1. a + 1 \in Int /\ a + n \in Int
    OBVIOUS
  <2>2. IsFiniteSet(a + 1 .. a + n)
        /\ Cardinality(a + 1 .. a + n) = IF a + 1 > a + n THEN 0 ELSE a + n - (a + 1) + 1
    BY <2>1, FS_Interval
  <2> QED
    BY <2>2
<1>2. IsFiniteSet({l}) /\ Cardinality({l}) = 1
  BY FS_Singleton
<1>3. IsFiniteSet({l} \X (a + 1 .. a + n))
      /\ Cardinality({l} \X (a + 1 .. a + n)) = Cardinality({l}) * Cardinality(a + 1 .. a + n)
  BY <1>1, <1>2, FS_Product
<1> QED
  BY <1>1, <1>2, <1>3 DEF Row

\* Sets that share nothing add up.
LEMMA Apart ==
  ASSUME NEW S, NEW T, IsFiniteSet(S), IsFiniteSet(T), S \cap T = {}
  PROVE  IsFiniteSet(S \cup T) /\ Cardinality(S \cup T) = Cardinality(S) + Cardinality(T)
<1>1. /\ IsFiniteSet(S \cup T)
      /\ Cardinality(S \cup T) = Cardinality(S) + Cardinality(T) - Cardinality(S \cap T)
  BY FS_Union
<1>2. Cardinality(S \cap T) = 0 /\ Cardinality(S) \in Nat /\ Cardinality(T) \in Nat
  BY FS_EmptySet, FS_CardinalityType
<1> QED
  BY <1>1, <1>2

-----------------------------------------------------------------------------
(* What the steps do to the memories and the charges under way. *)

\* A charge under way is a record of its stage, its size, its window and what
\* INCRBY returned.
LEMMA ChargeShape ==
  ASSUME BudgetTypeOK, NEW h \in Handler
  PROVE  /\ job[h].at \in {"idle", "incrby", "expire"} /\ job[h].tokens \in Nat
         /\ job[h].window \in Window /\ job[h].used \in Nat
         /\ job[h] = [at |-> job[h].at, tokens |-> job[h].tokens,
                      window |-> job[h].window, used |-> job[h].used]
         /\ counter[job[h].window] \in Nat /\ Home[h] \in Process
BY BudgetConstants DEF BudgetTypeOK, Job

\* A memory that forgets its old windows is one of those there can be, and has
\* forgotten none from the present window on.
LEMMA KeptShape ==
  ASSUME BudgetTypeOK, NEW p \in Process
  PROVE  /\ Kept(bucket[p]) \in [Window -> Nat]
         /\ \A w \in Window : w >= WindowOf(now) => Kept(bucket[p])[w] = bucket[p][w]
<1>1. WindowOf(now) \in Nat /\ Window \subseteq Nat /\ bucket[p] \in [Window -> Nat]
  BY WindowNow DEF BudgetTypeOK
<1>2. \A w \in Window : /\ (IF w + 1 < WindowOf(now) THEN 0 ELSE bucket[p][w]) \in Nat
                         /\ w >= WindowOf(now) => ~(w + 1 < WindowOf(now))
  BY <1>1
<1> QED
  BY <1>1, <1>2 DEF Kept

\* A process that counts n tokens in memory either has room for them in its
\* present window, and that is all it grants, or grants nothing.
LEMMA CountedLocally ==
  ASSUME BudgetTypeOK, NEW p \in Process, NEW n \in Nat, CountLocally(p, n)
  PROVE  /\ granted' \in [Window -> Nat] /\ bucket' \in [Process -> [Window -> Nat]]
         /\ \A q \in Process \ {p} : bucket'[q] = bucket[q]
         /\ \/ /\ granted' = granted
               /\ \A w \in Window : w >= WindowOf(now) => bucket'[p][w] = bucket[p][w]
            \/ /\ bucket[p][WindowOf(now)] + n <= MaxPerMinute
               /\ granted' = [granted EXCEPT ![WindowOf(now)] = @ + n]
               /\ \A w \in Window :
                    w >= WindowOf(now) =>
                      bucket'[p][w] = IF w = WindowOf(now) THEN bucket[p][w] + n ELSE bucket[p][w]
<1> DEFINE v == WindowOf(now)
           k == Kept(bucket[p])
<1>1. v \in Window /\ v \in Nat /\ Window \subseteq Nat
  BY WindowNow
<1>2. k \in [Window -> Nat] /\ \A w \in Window : w >= v => k[w] = bucket[p][w]
  BY KeptShape
<1>3. /\ bucket \in [Process -> [Window -> Nat]] /\ granted \in [Window -> Nat]
      /\ bucket[p][v] \in Nat /\ MaxPerMinute \in Nat
  BY <1>1, BudgetConstants DEF BudgetTypeOK
<1>4. CASE bucket[p][v] + n > MaxPerMinute
  <2>1. granted' = granted /\ bucket' = [bucket EXCEPT ![p] = k]
    BY <1>4 DEF CountLocally, Deny
  <2> HIDE DEF v, k
  <2> QED
    BY <1>2, <1>3, <2>1 DEF v
<1>5. CASE ~(bucket[p][v] + n > MaxPerMinute)
  <2> DEFINE m == [k EXCEPT ![v] = @ + n]
  <2>1. granted' = [granted EXCEPT ![v] = @ + n] /\ bucket' = [bucket EXCEPT ![p] = m]
    BY <1>5 DEF CountLocally, Grant
  <2> HIDE DEF v, k
  <2>2. /\ m \in [Window -> Nat]
        /\ \A w \in Window : w >= v => m[w] = IF w = v THEN bucket[p][w] + n ELSE bucket[p][w]
    BY <1>1, <1>2
  <2>3. granted' \in [Window -> Nat]
    BY <1>1, <1>3, <2>1
  <2> HIDE DEF m
  <2>4. bucket' \in [Process -> [Window -> Nat]] /\ bucket'[p] = m
        /\ \A q \in Process \ {p} : bucket'[q] = bucket[q]
    BY <1>3, <2>1, <2>2
  <2>5. bucket[p][v] + n <= MaxPerMinute
    BY <1>3, <1>5
  <2> QED
    BY <2>1, <2>2, <2>3, <2>4, <2>5 DEF v
<1> QED
  BY <1>4, <1>5

\* A handler with nothing to charge.
LEMMA NoChargeIsJob == NoCharge \in Job
<1>1. 0 \in Window
  <2>1. MaxTime \in Nat /\ 0 \in Nat
    BY BudgetConstants
  <2>2. WindowOf(MaxTime) \in Nat
    BY <2>1, WindowsInOrder
  <2> QED
    BY <2>2 DEF Window
<1> QED
  BY <1>1 DEF NoCharge, Job

\* INCRBY charges the counter of the request's window and returns its value.
LEMMA IncrByDoes ==
  ASSUME BudgetTypeOK, NEW h \in Handler, IncrBy(h)
  PROVE  LET u == counter[job[h].window] + job[h].tokens
         IN  /\ counter' = [counter EXCEPT ![job[h].window] = u] /\ u \in Nat
             /\ counter' \in [Window -> Nat]
             /\ job' \in [Handler -> Job] /\ \A g \in Handler \ {h} : job'[g] = job[g]
             /\ job'[h].at = "expire" /\ job'[h].used = u
             /\ job'[h].tokens = job[h].tokens /\ job'[h].window = job[h].window
<1> DEFINE v == job[h].window
           u == counter[v] + job[h].tokens
           c == [job[h] EXCEPT !.at = "expire", !.used = u]
<1>1. /\ v \in Window /\ job[h].tokens \in Nat /\ counter[v] \in Nat
      /\ counter \in [Window -> Nat] /\ job \in [Handler -> Job]
  BY ChargeShape DEF BudgetTypeOK
<1>2. counter' = [counter EXCEPT ![v] = u] /\ u \in Nat
  BY <1>1 DEF IncrBy, Charged
<1>3. counter' \in [Window -> Nat] /\ counter'[v] = u
  BY <1>1, <1>2
<1>4. job' = [job EXCEPT ![h] = c]
  BY <1>1, <1>3 DEF IncrBy
<1>5. /\ c \in Job /\ c.at = "expire" /\ c.used = u
      /\ c.tokens = job[h].tokens /\ c.window = job[h].window
  <2> HIDE DEF u
  <2> QED
    BY <1>1, <1>2 DEF Job
<1> HIDE DEF c
<1> QED
  BY <1>1, <1>2, <1>3, <1>4, <1>5

\* A request that is charged has the window of the clock.
LEMMA AskRedisDoes ==
  ASSUME BudgetTypeOK, NEW h \in Handler, NEW n \in Tokens, AskRedis(h, n)
  PROVE  /\ job' \in [Handler -> Job] /\ \A g \in Handler \ {h} : job'[g] = job[g]
         /\ job'[h].at = "incrby" /\ job'[h].tokens = n
<1> DEFINE c == [NoCharge EXCEPT !.at = "incrby", !.tokens = n, !.window = WindowOf(now)]
<1>1. c \in Job /\ c.at = "incrby" /\ c.tokens = n
  <2>1. n \in Nat /\ WindowOf(now) \in Window /\ NoCharge \in Job
    BY WindowNow, BudgetConstants, NoChargeIsJob
  <2> QED
    BY <2>1 DEF Job
<1>2. job' = [job EXCEPT ![h] = c]
  BY DEF AskRedis
<1> HIDE DEF c
<1> QED
  BY <1>1, <1>2 DEF BudgetTypeOK

\* What a failure of Redis leaves of its counter.
LEMMA FallBackCounter ==
  ASSUME BudgetTypeOK, NEW h \in Handler, NEW applied \in BOOLEAN, FallBack(h, applied)
  PROVE  /\ counter' \in [Window -> Nat]
         /\ \A w \in Window : counter[w] <= counter'[w]
<1>1. CASE applied
  <2>1. counter' = [counter EXCEPT ![job[h].window] = @ + job[h].tokens]
    BY <1>1 DEF FallBack, Charged
  <2>2. /\ counter \in [Window -> Nat] /\ job[h].window \in Window /\ job[h].tokens \in Nat
    BY ChargeShape DEF BudgetTypeOK
  <2> QED
    BY <2>1, <2>2
<1>2. CASE ~applied
  <2>1. counter' = counter /\ counter \in [Window -> Nat]
    BY <1>2 DEF FallBack, BudgetTypeOK
  <2> QED
    BY <2>1
<1> QED
  BY <1>1, <1>2

\* Every step keeps the types.
LEMMA BudgetNextTyped == BudgetTypeOK /\ [BudgetNext]_budgetVars => BudgetTypeOK'
<1> SUFFICES ASSUME BudgetTypeOK, [BudgetNext]_budgetVars PROVE BudgetTypeOK'
  OBVIOUS
<1>1. ASSUME NEW h \in Handler, NEW n \in Tokens, AskMemory(h, n) PROVE BudgetTypeOK'
  <2>1. n \in Nat /\ Home[h] \in Process /\ CountLocally(Home[h], n) /\ MaxCharges \in Nat
    BY <1>1, BudgetConstants DEF AskMemory
  <2>2. granted' \in [Window -> Nat] /\ bucket' \in [Process -> [Window -> Nat]]
    BY <2>1, CountedLocally
  <2> QED
    BY <1>1, <2>1, <2>2 DEF AskMemory, BudgetTypeOK
<1>2. ASSUME NEW h \in Handler, NEW n \in Tokens, AskRedis(h, n) PROVE BudgetTypeOK'
  <2>1. job' \in [Handler -> Job]
    BY <1>2, AskRedisDoes
  <2> QED
    BY <1>2, <2>1, BudgetConstants DEF AskRedis, BudgetTypeOK
<1>3. ASSUME NEW h \in Handler, IncrBy(h) PROVE BudgetTypeOK'
  <2>1. job' \in [Handler -> Job] /\ counter' \in [Window -> Nat]
    BY <1>3, IncrByDoes
  <2> QED
    BY <1>3, <2>1 DEF IncrBy, BudgetTypeOK
<1>4. ASSUME NEW h \in Handler, Decide(h) PROVE BudgetTypeOK'
  <2>1. job' \in [Handler -> Job]
    BY <1>4, NoChargeIsJob DEF Decide, BudgetTypeOK
  <2>2. granted' \in [Window -> Nat]
    BY <1>4, ChargeShape DEF Decide, Grant, Deny, BudgetTypeOK
  <2> QED
    BY <1>4, <2>1, <2>2 DEF Decide, BudgetTypeOK
<1>5. ASSUME NEW h \in Handler, NEW applied \in BOOLEAN, FallBack(h, applied) PROVE BudgetTypeOK'
  <2>1. granted' \in [Window -> Nat] /\ bucket' \in [Process -> [Window -> Nat]]
    BY <1>5, ChargeShape, CountedLocally DEF FallBack
  <2>2. counter' \in [Window -> Nat]
    BY <1>5, FallBackCounter
  <2>3. job' \in [Handler -> Job]
    BY <1>5, NoChargeIsJob DEF FallBack, BudgetTypeOK
  <2> QED
    BY <1>5, <2>1, <2>2, <2>3, BudgetConstants DEF FallBack, BudgetTypeOK
<1>6. CASE Tick
  BY <1>6, BudgetConstants DEF Tick, BudgetTypeOK
<1>7. ASSUME NEW p \in Process, Restart(p) PROVE BudgetTypeOK'
  <2>1. job' \in [Handler -> Job]
    BY <1>7, NoChargeIsJob DEF Restart, BudgetTypeOK
  <2>2. bucket' \in [Process -> [Window -> Nat]]
    BY <1>7 DEF Restart, BudgetTypeOK
  <2> QED
    BY <1>7, <2>1, <2>2, BudgetConstants DEF Restart, BudgetTypeOK
<1>8. CASE UNCHANGED budgetVars
  BY <1>8 DEF budgetVars, BudgetTypeOK
<1> QED
  BY <1>1, <1>2, <1>3, <1>4, <1>5, <1>6, <1>7, <1>8 DEF BudgetNext

-----------------------------------------------------------------------------
(* Charges under way. *)

\* Charges that end, and counters that grow, leave the others apart.
LEMMA FewerCharges ==
  ASSUME BudgetTypeOK, ChargesApart, redis' = redis,
         counter' \in [Window -> Nat], \A w \in Window : counter[w] <= counter'[w],
         \A h \in Handler : job'[h] \in {job[h], NoCharge}
  PROVE  ChargesApart'
<1>1. \A h \in Handler : job'[h].at # "idle" => job'[h] = job[h]
  BY DEF NoCharge
<1>2. \A h \in Handler : job'[h].at # "idle" => redis' /\ job'[h].tokens > 0
  BY <1>1 DEF ChargesApart
<1>3. ASSUME NEW h \in Handler, job'[h].at = "expire"
      PROVE  job'[h].tokens <= job'[h].used /\ job'[h].used <= counter'[job'[h].window]
  <2>1. job'[h] = job[h] /\ job[h].at = "expire"
    BY <1>1, <1>3
  <2>2. /\ job[h].used <= counter[job[h].window] /\ job[h].tokens <= job[h].used
        /\ counter[job[h].window] <= counter'[job[h].window]
        /\ counter'[job[h].window] \in Nat /\ counter[job[h].window] \in Nat /\ job[h].used \in Nat
    BY <2>1, ChargeShape DEF ChargesApart
  <2> QED
    BY <2>1, <2>2
<1>4. \A g, h \in Handler :
        /\ g # h /\ job'[g].at = "expire" /\ job'[h].at = "expire"
        /\ job'[g].window = job'[h].window
        => \/ job'[g].used + job'[h].tokens <= job'[h].used
           \/ job'[h].used + job'[g].tokens <= job'[g].used
  BY <1>1 DEF ChargesApart
<1> QED
  BY <1>2, <1>3, <1>4 DEF ChargesApart

\* An INCRBY puts its charge above all those of its window.
LEMMA IncrByApart ==
  ASSUME BudgetTypeOK, ChargesApart, NEW h \in Handler, IncrBy(h)
  PROVE  ChargesApart'
<1> DEFINE v == job[h].window
           u == counter[v] + job[h].tokens
<1>1. /\ counter' = [counter EXCEPT ![v] = u] /\ u \in Nat
      /\ \A g \in Handler \ {h} : job'[g] = job[g]
      /\ job'[h].at = "expire" /\ job'[h].used = u
      /\ job'[h].tokens = job[h].tokens /\ job'[h].window = v
  BY IncrByDoes
<1>2. /\ v \in Window /\ job[h].tokens \in Nat /\ counter[v] \in Nat
      /\ counter \in [Window -> Nat] /\ job[h].at = "incrby" /\ redis' = redis
  BY ChargeShape DEF IncrBy, BudgetTypeOK
<1>3. counter'[v] = u /\ \A w \in Window : counter[w] <= counter'[w] /\ counter'[w] \in Nat
  BY <1>1, <1>2
<1>4. ASSUME NEW g \in Handler \ {h}, job[g].at = "expire"
      PROVE  /\ job[g].used <= counter[job[g].window] /\ job[g].tokens <= job[g].used
             /\ counter[job[g].window] <= counter'[job[g].window]
             /\ job[g].used \in Nat /\ job[g].tokens \in Nat /\ job[g].window \in Window
             /\ counter[job[g].window] \in Nat /\ counter'[job[g].window] \in Nat
  BY <1>3, <1>4, ChargeShape DEF ChargesApart
<1> HIDE DEF u, v
<1>5. \A g \in Handler : job'[g].at # "idle" => redis' /\ job'[g].tokens > 0
  BY <1>1, <1>2 DEF ChargesApart
<1>6. ASSUME NEW g \in Handler, job'[g].at = "expire"
      PROVE  job'[g].tokens <= job'[g].used /\ job'[g].used <= counter'[job'[g].window]
  <2>1. CASE g = h
    BY <1>1, <1>2, <1>3, <2>1 DEF u
  <2>2. CASE g # h
    BY <1>1, <1>4, <1>6, <2>2
  <2> QED
    BY <2>1, <2>2
<1>7. ASSUME NEW g \in Handler \ {h}, job'[g].at = "expire", job'[g].window = v
      PROVE  job'[g].used + job'[h].tokens <= job'[h].used
  <2>1. job'[g] = job[g]
    BY <1>1
  <2>2. job[g].used <= counter[v] /\ job[g].used \in Nat
    BY <1>4, <1>7, <2>1
  <2> QED
    BY <1>1, <1>2, <2>1, <2>2 DEF u
<1>8. ASSUME NEW f \in Handler, NEW g \in Handler, f # g,
             job'[f].at = "expire", job'[g].at = "expire", job'[f].window = job'[g].window
      PROVE  \/ job'[f].used + job'[g].tokens <= job'[g].used
             \/ job'[g].used + job'[f].tokens <= job'[f].used
  <2>1. CASE f = h
    BY <1>1, <1>7, <1>8, <2>1
  <2>2. CASE g = h
    BY <1>1, <1>7, <1>8, <2>2
  <2>3. CASE f # h /\ g # h
    BY <1>1, <1>8, <2>3 DEF ChargesApart
  <2> QED
    BY <2>1, <2>2, <2>3
<1> QED
  BY <1>5, <1>6, <1>8 DEF ChargesApart

\* Every step keeps the charges apart.
LEMMA ApartStep ==
  ASSUME BudgetTypeOK, ChargesApart, [BudgetNext]_budgetVars
  PROVE  ChargesApart'
<1>0. counter \in [Window -> Nat] /\ \A w \in Window : counter[w] \in Nat /\ counter[w] <= counter[w]
  BY DEF BudgetTypeOK
<1>1. ASSUME NEW h \in Handler, NEW n \in Tokens, AskMemory(h, n) PROVE ChargesApart'
  BY <1>0, <1>1, FewerCharges DEF AskMemory
<1>2. ASSUME NEW h \in Handler, NEW n \in Tokens, AskRedis(h, n) PROVE ChargesApart'
  <2>1. /\ \A g \in Handler \ {h} : job'[g] = job[g]
        /\ job'[h].at = "incrby" /\ job'[h].tokens = n /\ n > 0
        /\ redis /\ redis' = redis /\ counter' = counter
    BY <1>2, AskRedisDoes, BudgetConstants DEF AskRedis
  <2>2. \A g \in Handler : job'[g].at # "idle" => redis' /\ job'[g].tokens > 0
    BY <2>1 DEF ChargesApart
  <2>3. \A g \in Handler : job'[g].at = "expire" => job'[g] = job[g]
    BY <2>1
  <2> QED
    BY <2>1, <2>2, <2>3 DEF ChargesApart
<1>3. ASSUME NEW h \in Handler, IncrBy(h) PROVE ChargesApart'
  BY <1>3, IncrByApart
<1>4. ASSUME NEW h \in Handler, Decide(h) PROVE ChargesApart'
  BY <1>0, <1>4, FewerCharges DEF Decide, BudgetTypeOK
<1>5. ASSUME NEW h \in Handler, NEW applied \in BOOLEAN, FallBack(h, applied) PROVE ChargesApart'
  BY <1>5, FallBackCounter, FewerCharges DEF FallBack, BudgetTypeOK
<1>6. CASE Tick
  BY <1>0, <1>6, FewerCharges DEF Tick
<1>7. ASSUME NEW p \in Process, Restart(p) PROVE ChargesApart'
  BY <1>0, <1>7, FewerCharges DEF Restart
<1>8. CASE UNCHANGED budgetVars
  BY <1>0, <1>8, FewerCharges DEF budgetVars
<1> QED
  BY <1>1, <1>2, <1>3, <1>4, <1>5, <1>6, <1>7, <1>8 DEF BudgetNext

-----------------------------------------------------------------------------
(* Places taken. *)

\* Taken places are finitely many and a life counts at most a whole budget.
LEMMA LedgerFinite ==
  ASSUME BudgetTypeOK, NEW w \in Window, NEW shared, NEW spent, NEW own, NEW life,
         Ledger(w, shared, spent, own, life)
  PROVE  /\ Lives \in Nat
         /\ IsFiniteSet(shared) /\ Cardinality(shared) \in Nat
         /\ IsFiniteSet(spent) /\ Cardinality(spent) \in Nat /\ Cardinality(spent) <= Lives
         /\ IsFiniteSet(own) /\ Cardinality(own) \in Nat
         /\ Cardinality(shared) <= MaxPerMinute
         /\ Cardinality(own) <= Cardinality(spent) * MaxPerMinute
<1>1. MaxPerMinute \in Nat /\ Lives \in Nat
  BY BudgetConstants DEF BudgetTypeOK, Lives
<1>2. /\ IsFiniteSet(1..MaxPerMinute) /\ Cardinality(1..MaxPerMinute) = MaxPerMinute
      /\ IsFiniteSet(1..Lives) /\ Cardinality(1..Lives) = Lives
  BY <1>1, FS_Interval, 1 \in Int
<1>3. /\ IsFiniteSet(shared) /\ Cardinality(shared) <= MaxPerMinute
      /\ IsFiniteSet(spent) /\ Cardinality(spent) <= Lives
  <2>1. shared \in SUBSET (1..MaxPerMinute) /\ spent \in SUBSET (1..Lives)
    BY DEF Ledger
  <2>2. IsFiniteSet(shared) /\ Cardinality(shared) <= MaxPerMinute
    BY <1>2, <2>1, FS_Subset
  <2>3. IsFiniteSet(spent) /\ Cardinality(spent) <= Lives
    BY <1>2, <2>1, FS_Subset
  <2> QED
    BY <2>2, <2>3
<1>4. /\ IsFiniteSet(spent \X (1..MaxPerMinute))
      /\ Cardinality(spent \X (1..MaxPerMinute)) = Cardinality(spent) * MaxPerMinute
  BY <1>2, <1>3, FS_Product
<1>5. IsFiniteSet(own) /\ Cardinality(own) <= Cardinality(spent) * MaxPerMinute
  BY <1>4, FS_Subset DEF Ledger
<1> QED
  BY <1>1, <1>3, <1>5, FS_CardinalityType

\* A step that grants nothing in a window, and neither starts a process again nor
\* adds a claim, leaves the window's places as they are.
LEMMA LedgerStays ==
  ASSUME BudgetTypeOK, BudgetTypeOK',
         NEW w \in Window, NEW shared, NEW spent, NEW own, NEW life,
         Ledger(w, shared, spent, own, life),
         granted'[w] = granted[w], redis' = redis, restarts' = restarts,
         counter[w] <= counter'[w], faults <= faults',
         \A h \in Handler : job'[h].at = "expire" /\ job'[h].window = w => job'[h] = job[h],
         w >= WindowOf(now') =>
           w >= WindowOf(now) /\ \A p \in Process : bucket'[p][w] = bucket[p][w]
  PROVE  Ledger(w, shared, spent, own, life)'
<1>1. /\ counter[w] \in Nat /\ counter'[w] \in Nat /\ faults \in Nat /\ faults' \in Nat
      /\ Cardinality(spent) \in Nat
  BY BudgetConstants, LedgerFinite DEF BudgetTypeOK
<1>2. Lives' = Lives
  BY DEF Lives
<1>3. IF redis' THEN Cardinality(spent) <= faults' ELSE shared = {}
  BY <1>1 DEF Ledger
<1>4. ASSUME NEW i \in shared
      PROVE  /\ i <= counter'[w]
             /\ \A h \in Handler : job'[h].at = "expire" /\ job'[h].window = w => i \notin Claimed(h)'
  <2>1. i <= counter'[w]
    BY <1>1, BudgetConstants DEF Ledger
  <2>2. ASSUME NEW h \in Handler, job'[h].at = "expire", job'[h].window = w PROVE i \notin Claimed(h)'
    <3>1. job'[h] = job[h]
      BY <2>2
    <3>2. i \notin Claimed(h)
      BY <2>2, <3>1 DEF Ledger
    <3> QED
      BY <3>1, <3>2 DEF Claimed
  <2> QED
    BY <2>1, <2>2
<1>5. w >= WindowOf(now') =>
        \A p \in Process, i \in 1..MaxPerMinute : <<life[p], i>> \in own => i <= bucket'[p][w]
  BY DEF Ledger
<1>6. WindowOf(now)' = WindowOf(now')
  BY DEF WindowOf
<1> QED
  BY <1>2, <1>3, <1>4, <1>5, <1>6 DEF Ledger

\* INCRBY claims places above all those taken.
LEMMA LedgerIncrBy ==
  ASSUME BudgetTypeOK, BudgetTypeOK', NEW h \in Handler, IncrBy(h),
         NEW w \in Window, NEW shared, NEW spent, NEW own, NEW life,
         Ledger(w, shared, spent, own, life)
  PROVE  Ledger(w, shared, spent, own, life)'
<1> DEFINE v == job[h].window
           u == counter[v] + job[h].tokens
<1>1. /\ counter' = [counter EXCEPT ![v] = u] /\ u \in Nat
      /\ \A g \in Handler \ {h} : job'[g] = job[g]
      /\ job'[h].at = "expire" /\ job'[h].used = u
      /\ job'[h].tokens = job[h].tokens /\ job'[h].window = v
  BY IncrByDoes
<1>2. /\ v \in Window /\ job[h].tokens \in Nat /\ counter[v] \in Nat /\ counter[w] \in Nat
      /\ counter \in [Window -> Nat]
      /\ UNCHANGED <<redis, now, bucket, granted, charges, faults, restarts>>
  BY ChargeShape DEF IncrBy, BudgetTypeOK
<1> HIDE DEF v
<1>3. counter[w] <= counter'[w] /\ counter'[w] \in Nat
  BY <1>1, <1>2
<1>4. CASE v # w
  <2>1. \A g \in Handler : job'[g].at = "expire" /\ job'[g].window = w => job'[g] = job[g]
    BY <1>1, <1>4
  <2>2. /\ granted'[w] = granted[w] /\ redis' = redis /\ restarts' = restarts
        /\ faults <= faults'
        /\ w >= WindowOf(now') =>
             w >= WindowOf(now) /\ \A p \in Process : bucket'[p][w] = bucket[p][w]
    BY <1>2 DEF BudgetTypeOK
  <2> QED
    BY <1>3, <2>1, <2>2, LedgerStays
<1>5. CASE v = w
  <2>1. shared \subseteq 1..MaxPerMinute /\ \A i \in shared : i \in Int /\ i <= counter[w]
    <3>1. shared \subseteq 1..MaxPerMinute
      BY DEF Ledger
    <3>2. \A i \in shared : i <= counter[w]
      BY DEF Ledger
    <3>3. 1..MaxPerMinute \subseteq Int
      BY BudgetConstants
    <3> QED
      BY <3>1, <3>2, <3>3
  <2>2. ASSUME NEW i \in shared, NEW g \in Handler, job'[g].at = "expire", job'[g].window = w
        PROVE  i \notin Claimed(g)'
    <3>1. CASE g = h
      <4>1. Claimed(g)' = job'[g].used - job'[g].tokens + 1 .. job'[g].used
        BY DEF Claimed
      <4>2. Claimed(g)' = u - job[h].tokens + 1 .. u
        BY <1>1, <3>1, <4>1
      <4> QED
        BY <1>2, <1>5, <2>1, <4>2
    <3>2. CASE g # h
      <4>1. job'[g] = job[g]
        BY <1>1, <3>2
      <4>2. i \notin Claimed(g)
        BY <2>2, <4>1 DEF Ledger
      <4> QED
        BY <4>1, <4>2 DEF Claimed
    <3> QED
      BY <3>1, <3>2
  <2>3. \A i \in shared : i <= counter'[w]
    BY <1>2, <1>3, <2>1
  <2>4. Lives' = Lives /\ WindowOf(now)' = WindowOf(now)
    BY <1>2 DEF Lives, WindowOf
  <2> QED
    BY <1>2, <2>2, <2>3, <2>4 DEF Ledger
<1> QED
  BY <1>4, <1>5

\* EXPIRE lets a charge through: it takes the places it claimed.
LEMMA LedgerGrant ==
  ASSUME BudgetTypeOK, ChargesApart, NEW h \in Handler, Decide(h),
         ~(job[h].used > MaxPerMinute),
         NEW w, w = job[h].window,
         NEW shared, NEW spent, NEW own, NEW life, Ledger(w, shared, spent, own, life),
         NEW T, T = shared \cup Claimed(h)
  PROVE  Ledger(w, T, spent, own, life)'
<1> DEFINE n == job[h].tokens
           a == job[h].used - n
<1>1. /\ w \in Window /\ n \in Nat /\ job[h].used \in Nat /\ counter[w] \in Nat
      /\ n <= job[h].used /\ job[h].used <= counter[w] /\ job[h].used <= MaxPerMinute
      /\ n > 0 /\ redis /\ MaxPerMinute \in Nat /\ job[h].at = "expire"
  <2>1. job[h].at = "expire"
    BY DEF Decide
  <2>2. /\ w \in Window /\ n \in Nat /\ job[h].used \in Nat /\ counter[w] \in Nat
    BY ChargeShape
  <2>3. n <= job[h].used /\ job[h].used <= counter[w] /\ n > 0 /\ redis
    BY <2>1 DEF ChargesApart
  <2>4. MaxPerMinute \in Nat /\ job[h].used <= MaxPerMinute
    BY <2>2, BudgetConstants
  <2> QED
    BY <2>1, <2>2, <2>3, <2>4
<1>2. a \in Nat /\ a + n = job[h].used /\ Claimed(h) = a + 1 .. a + n
  BY <1>1 DEF Claimed
<1>3. /\ granted' = [granted EXCEPT ![w] = @ + n]
      /\ job' = [job EXCEPT ![h] = NoCharge]
      /\ UNCHANGED <<redis, now, counter, bucket, charges, faults, restarts>>
  BY DEF Decide, Grant
<1>4. /\ job'[h].at # "expire" /\ \A g \in Handler \ {h} : job'[g] = job[g]
      /\ granted'[w] = granted[w] + n
  BY <1>1, <1>3 DEF BudgetTypeOK, NoCharge
<1> HIDE DEF n, a
<1>5. /\ shared \subseteq 1..MaxPerMinute /\ \A i \in shared : i <= counter[w] /\ i \notin Claimed(h)
      /\ granted[w] = Cardinality(shared) + Cardinality(own)
  BY <1>1 DEF Ledger
<1>6. IsFiniteSet(shared) /\ Cardinality(shared) \in Nat /\ Cardinality(own) \in Nat
  BY <1>1, LedgerFinite
<1>7. Cardinality(T) = Cardinality(shared) + n
  <2>1. \A i \in a + 1 .. a + n : i \notin shared
    BY <1>2, <1>5
  <2>2. a \in Nat /\ n \in Nat /\ T = shared \cup (a + 1 .. a + n)
    BY <1>1, <1>2
  <2> QED
    BY <1>6, <2>1, <2>2, MorePlaces
<1>8. granted'[w] = Cardinality(T) + Cardinality(own)
  BY <1>1, <1>4, <1>5, <1>6, <1>7
<1>9. T \in SUBSET (1..MaxPerMinute)
  BY <1>1, <1>2, <1>5
<1>10. ASSUME NEW i \in T
       PROVE  /\ i <= counter'[w]
              /\ \A g \in Handler : job'[g].at = "expire" /\ job'[g].window = w => i \notin Claimed(g)'
  <2>1. i <= counter'[w]
    BY <1>1, <1>2, <1>3, <1>5
  <2>2. ASSUME NEW g \in Handler, job'[g].at = "expire", job'[g].window = w PROVE i \notin Claimed(g)'
    <3>1. g # h /\ job'[g] = job[g]
      BY <1>4, <2>2
    <3>2. Claimed(g)' = Claimed(g)
      BY <3>1 DEF Claimed
    <3>3. CASE i \in shared
      BY <2>2, <3>1, <3>2, <3>3 DEF Ledger
    <3>4. CASE i \in Claimed(h)
      <4>1. \/ job[g].used + n <= job[h].used
            \/ job[h].used + job[g].tokens <= job[g].used
        BY <1>1, <2>2, <3>1 DEF ChargesApart, n
      <4>2. job[g].used \in Nat /\ job[g].tokens \in Nat
        BY ChargeShape
      <4>3. i \in Int /\ i > job[h].used - n /\ i <= job[h].used
        BY <1>1, <1>2, <3>4 DEF a
      <4>4. i \notin job[g].used - job[g].tokens + 1 .. job[g].used
        BY <1>1, <4>1, <4>2, <4>3
      <4> QED
        BY <3>2, <4>4 DEF Claimed
    <3> QED
      BY <3>3, <3>4
  <2> QED
    BY <2>1, <2>2
<1>11. Lives' = Lives /\ WindowOf(now)' = WindowOf(now)
  BY <1>3 DEF Lives, WindowOf
<1> QED
  BY <1>1, <1>3, <1>8, <1>9, <1>10, <1>11 DEF Ledger

\* A life counts a request in its memory: it takes the next places there, with
\* Redis because of one failure more.
LEMMA LedgerCounts ==
  ASSUME BudgetTypeOK, BudgetTypeOK', NEW w \in Window, w = WindowOf(now),
         NEW p \in Process, NEW n \in Nat, NEW b \in Nat, b = bucket[p][w], b + n <= MaxPerMinute,
         UNCHANGED <<redis, now, restarts>>, counter[w] <= counter'[w],
         faults' = IF redis THEN faults + 1 ELSE faults,
         \A h \in Handler : job'[h].at = "expire" => job'[h] = job[h],
         granted' = [granted EXCEPT ![w] = @ + n], bucket'[p][w] = b + n,
         \A q \in Process \ {p} : bucket'[q] = bucket[q],
         NEW shared, NEW spent, NEW own, NEW life, Ledger(w, shared, spent, own, life),
         NEW more, more = spent \cup {life[p]},
         NEW taken, taken = own \cup Row(life[p], b, n)
  PROVE  Ledger(w, shared, more, taken, life)'
<1>1. /\ MaxPerMinute \in Nat /\ Lives' = Lives /\ WindowOf(now)' = WindowOf(now) /\ faults \in Nat
      /\ counter[w] \in Nat /\ counter'[w] \in Nat /\ Window \subseteq Nat
  BY BudgetConstants, WindowNow DEF Lives, WindowOf, BudgetTypeOK
<1>2. /\ spent \in SUBSET (1..Lives) /\ own \in SUBSET (spent \X (1..MaxPerMinute))
      /\ life \in [Process -> 1..Lives] /\ \A q, r \in Process : life[q] = life[r] => q = r
      /\ shared \in SUBSET (1..MaxPerMinute)
  BY DEF Ledger
<1>3. /\ IsFiniteSet(own) /\ Cardinality(own) \in Nat /\ Cardinality(shared) \in Nat
      /\ IsFiniteSet(spent) /\ Cardinality(spent) \in Nat
  BY LedgerFinite
<1>4. \A q \in Process, i \in 1..MaxPerMinute : <<life[q], i>> \in own => i <= bucket[q][w]
  BY <1>1 DEF Ledger
<1>5. Cardinality(taken) = Cardinality(own) + n
  <2>1. ASSUME NEW i \in b + 1 .. b + n PROVE <<life[p], i>> \notin own
    BY <1>1, <1>4
  <2>2. PICK R : R = Row(life[p], b, n) /\ IsFiniteSet(R) /\ Cardinality(R) = n
    BY RowSize
  <2>4. own \cap R = {} /\ taken = own \cup R
    BY <2>1, <2>2 DEF Row
  <2>5. Cardinality(own \cup R) = Cardinality(own) + Cardinality(R)
    BY <1>3, <2>2, <2>4, Apart
  <2> QED
    BY <2>2, <2>4, <2>5
<1>6. granted'[w] = Cardinality(shared) + Cardinality(taken)
  <2>1. granted[w] = Cardinality(shared) + Cardinality(own)
    BY DEF Ledger
  <2>2. granted'[w] = granted[w] + n
    BY DEF BudgetTypeOK
  <2> QED
    BY <1>3, <1>5, <2>1, <2>2
<1>7. IF redis' THEN Cardinality(more) <= faults' ELSE shared = {}
  <2>1. Cardinality(more) <= Cardinality(spent) + 1 /\ Cardinality(more) \in Nat
    <3>1. IsFiniteSet(more)
          /\ Cardinality(more) = IF life[p] \in spent THEN Cardinality(spent) ELSE Cardinality(spent) + 1
      BY <1>3, FS_AddElement
    <3> QED
      BY <1>3, <3>1
  <2>2. IF redis THEN Cardinality(spent) <= faults ELSE shared = {}
    BY DEF Ledger
  <2> QED
    BY <1>1, <1>3, <2>1, <2>2
<1>8. more \in SUBSET (1..Lives) /\ taken \in SUBSET (more \X (1..MaxPerMinute))
  <2>1. b + 1 .. b + n \subseteq 1..MaxPerMinute
    BY <1>1
  <2>2. life[p] \in 1..Lives
    BY <1>2
  <2> QED
    BY <1>2, <2>1, <2>2 DEF Row
<1>9. \A q \in Process, i \in 1..MaxPerMinute : <<life[q], i>> \in taken => i <= bucket'[q][w]
  <2> SUFFICES ASSUME NEW q \in Process, NEW i \in 1..MaxPerMinute, <<life[q], i>> \in taken
               PROVE  i <= bucket'[q][w]
    OBVIOUS
  <2>1. CASE q = p
    <3>1. i <= b \/ i \in b + 1 .. b + n
      BY <1>4, <2>1 DEF Row
    <3> QED
      BY <1>1, <2>1, <3>1
  <2>2. CASE q # p
    <3>1. life[q] # life[p]
      BY <1>2, <2>2
    <3>2. <<life[q], i>> \in own
      BY <3>1 DEF Row
    <3> QED
      BY <1>4, <2>2, <3>2
  <2> QED
    BY <2>1, <2>2
<1>10. ASSUME NEW i \in shared
       PROVE  /\ i <= counter'[w]
              /\ \A h \in Handler : job'[h].at = "expire" /\ job'[h].window = w => i \notin Claimed(h)'
  <2>1. i <= counter'[w]
    BY <1>1, <1>2 DEF Ledger
  <2>2. ASSUME NEW h \in Handler, job'[h].at = "expire", job'[h].window = w PROVE i \notin Claimed(h)'
    <3>1. job'[h] = job[h]
      BY <2>2
    <3>2. i \notin Claimed(h)
      BY <2>2, <3>1 DEF Ledger
    <3> QED
      BY <3>1, <3>2 DEF Claimed
  <2> QED
    BY <2>1, <2>2
<1> QED
  BY <1>1, <1>2, <1>6, <1>7, <1>8, <1>9, <1>10 DEF Ledger

\* Counting in memory, refused or granted, keeps the books of every window.
LEMMA BookedLocally ==
  ASSUME BudgetTypeOK, BudgetTypeOK', Booked,
         NEW p \in Process, NEW n \in Nat, CountLocally(p, n),
         UNCHANGED <<redis, now, restarts>>,
         \A w \in Window : counter[w] <= counter'[w],
         faults' = IF redis THEN faults + 1 ELSE faults,
         \A h \in Handler : job'[h].at = "expire" => job'[h] = job[h]
  PROVE  Booked'
<1> SUFFICES ASSUME NEW w \in Window
             PROVE  \E shared, spent, own, life : Ledger(w, shared, spent, own, life)'
  BY DEF Booked, Window, WindowOf
<1>1. PICK shared, spent, own, life : Ledger(w, shared, spent, own, life)
  BY DEF Booked
<1>2. /\ WindowOf(now) \in Window /\ WindowOf(now) \in Nat /\ Window \subseteq Nat
      /\ WindowOf(now') = WindowOf(now) /\ faults \in Nat /\ faults' \in Nat
  BY WindowNow, BudgetConstants DEF BudgetTypeOK, WindowOf
<1>3. \A q \in Process \ {p} : bucket'[q] = bucket[q]
  BY CountedLocally
<1>4. CASE /\ granted'[w] = granted[w]
           /\ w >= WindowOf(now) => bucket'[p][w] = bucket[p][w]
  <2>1. faults <= faults'
    BY <1>2
  <2>2. w >= WindowOf(now') =>
          w >= WindowOf(now) /\ \A q \in Process : bucket'[q][w] = bucket[q][w]
    BY <1>2, <1>3, <1>4
  <2>3. Ledger(w, shared, spent, own, life)'
    BY <1>1, <1>4, <2>1, <2>2, LedgerStays
  <2> QED
    BY <2>3
<1>5. CASE /\ w = WindowOf(now) /\ bucket[p][w] + n <= MaxPerMinute
           /\ granted' = [granted EXCEPT ![w] = @ + n]
           /\ bucket'[p][w] = bucket[p][w] + n
  <2>1. PICK b : b = bucket[p][w] /\ b \in Nat
    BY DEF BudgetTypeOK
  <2>2. PICK more, taken : /\ more = spent \cup {life[p]}
                           /\ taken = own \cup Row(life[p], b, n)
    OBVIOUS
  <2>3. Ledger(w, shared, more, taken, life)'
    BY <1>1, <1>3, <1>5, <2>1, <2>2, LedgerCounts
  <2> QED
    BY <2>3
<1> QED
  <2>1. \/ /\ granted' = granted
           /\ \A v \in Window : v >= WindowOf(now) => bucket'[p][v] = bucket[p][v]
        \/ /\ bucket[p][WindowOf(now)] + n <= MaxPerMinute
           /\ granted' = [granted EXCEPT ![WindowOf(now)] = @ + n]
           /\ \A v \in Window :
                v >= WindowOf(now) =>
                  bucket'[p][v] = IF v = WindowOf(now) THEN bucket[p][v] + n ELSE bucket[p][v]
    BY CountedLocally
  <2>2. CASE w = WindowOf(now)
    BY <1>2, <1>4, <1>5, <2>1, <2>2
  <2>3. CASE w # WindowOf(now)
    <3>1. granted'[w] = granted[w]
      BY <1>2, <2>1, <2>3 DEF BudgetTypeOK
    <3>2. w >= WindowOf(now) => bucket'[p][w] = bucket[p][w]
      BY <2>1, <2>3
    <3> QED
      BY <1>4, <3>1, <3>2
  <2> QED
    BY <2>2, <2>3

\* A process that starts again begins a life that has counted nothing.
LEMMA LedgerRestart ==
  ASSUME BudgetTypeOK, BudgetTypeOK', NEW p \in Process, Restart(p), NEW w \in Window,
         NEW shared, NEW spent, NEW own, NEW life, Ledger(w, shared, spent, own, life),
         NEW new, new = Lives + 1, NEW next, next = [life EXCEPT ![p] = new]
  PROVE  Ledger(w, shared, spent, own, next)'
<1>1. /\ Lives \in Nat /\ new = Lives' /\ new \in Nat /\ new > Lives /\ redis' = redis
      /\ counter' = counter /\ granted' = granted /\ faults' = faults
      /\ WindowOf(now)' = WindowOf(now) /\ \A q \in Process \ {p} : bucket'[q] = bucket[q]
  BY BudgetConstants DEF BudgetTypeOK, Lives, Restart, WindowOf
<1>2. 1..Lives \subseteq 1..new /\ new \in 1..new /\ new \notin 1..Lives
  BY <1>1
<1>3. /\ spent \in SUBSET (1..Lives) /\ own \in SUBSET (spent \X (1..MaxPerMinute))
      /\ life \in [Process -> 1..Lives] /\ \A q, r \in Process : life[q] = life[r] => q = r
  BY DEF Ledger
<1>4. spent \in SUBSET (1..new) /\ next \in [Process -> 1..new]
  BY <1>2, <1>3
<1>5. \A q, r \in Process : next[q] = next[r] => q = r
  BY <1>2, <1>3
<1>6. ASSUME NEW h \in Handler, job'[h].at = "expire"
      PROVE  job'[h] = job[h] /\ Claimed(h)' = Claimed(h)
  <2>1. job'[h] = job[h]
    BY <1>6 DEF Restart, NoCharge
  <2> QED
    BY <2>1 DEF Claimed
<1>7. ASSUME NEW q \in Process, NEW i \in 1..MaxPerMinute, <<next[q], i>> \in own, w >= WindowOf(now)
      PROVE  i <= bucket'[q][w]
  <2>1. q # p
    <3>1. CASE q = p
      <4>1. next[q] = new
        BY <1>3, <3>1
      <4> QED
        BY <1>2, <1>3, <1>7, <4>1
    <3> QED
      BY <3>1
  <2>2. next[q] = life[q] /\ bucket'[q] = bucket[q]
    BY <1>1, <1>3, <2>1
  <2> QED
    BY <1>7, <2>2 DEF Ledger
<1>8. \A i \in shared :
        /\ i <= counter'[w]
        /\ \A h \in Handler : job'[h].at = "expire" /\ job'[h].window = w => i \notin Claimed(h)'
  BY <1>1, <1>6 DEF Ledger
<1> QED
  BY <1>1, <1>3, <1>4, <1>5, <1>7, <1>8 DEF Ledger

\* Every step keeps the books of every window.
LEMMA BookedStep ==
  ASSUME BudgetTypeOK, BudgetTypeOK', ChargesApart, Booked, [BudgetNext]_budgetVars
  PROVE  Booked'
<1>0. /\ \A w \in Window : counter[w] \in Nat /\ granted[w] \in Nat /\ counter[w] <= counter[w]
      /\ faults \in Nat /\ faults <= faults /\ MaxPerMinute \in Nat
      /\ WindowOf(now) \in Nat /\ Window \subseteq Nat
  BY BudgetConstants, WindowNow DEF BudgetTypeOK
\* A step that grants nothing and claims nothing.
<1>1. ASSUME UNCHANGED <<redis, counter, bucket, granted, faults, restarts>>,
             now' \in Nat, WindowOf(now) <= WindowOf(now'), WindowOf(now') \in Nat,
             \A h \in Handler : job'[h].at = "expire" => job'[h] = job[h]
      PROVE  Booked'
  <2> SUFFICES ASSUME NEW w \in Window
               PROVE  \E shared, spent, own, life : Ledger(w, shared, spent, own, life)'
    BY DEF Booked, Window, WindowOf
  <2>1. PICK shared, spent, own, life : Ledger(w, shared, spent, own, life)
    BY DEF Booked
  <2>2. w >= WindowOf(now') =>
          w >= WindowOf(now) /\ \A p \in Process : bucket'[p][w] = bucket[p][w]
    BY <1>0, <1>1
  <2>3. Ledger(w, shared, spent, own, life)'
    BY <1>0, <1>1, <2>1, <2>2, LedgerStays
  <2> QED
    BY <2>3
<1>2. now \in Nat /\ WindowOf(now) <= WindowOf(now)
  BY <1>0, BudgetConstants DEF BudgetTypeOK
<1>3. ASSUME NEW h \in Handler, NEW n \in Tokens, AskMemory(h, n) PROVE Booked'
  <2>1. n \in Nat /\ Home[h] \in Process
    BY BudgetConstants
  <2>2. /\ CountLocally(Home[h], n) /\ UNCHANGED <<redis, now, restarts>> /\ counter' = counter
        /\ faults' = IF redis THEN faults + 1 ELSE faults
        /\ job' = job
    BY <1>3 DEF AskMemory
  <2> QED
    BY <1>0, <2>1, <2>2, BookedLocally
<1>4. ASSUME NEW h \in Handler, NEW n \in Tokens, AskRedis(h, n) PROVE Booked'
  <2>1. \A g \in Handler : job'[g].at = "expire" => job'[g] = job[g]
    BY <1>4, AskRedisDoes
  <2> QED
    BY <1>0, <1>1, <1>2, <1>4, <2>1 DEF AskRedis
<1>5. ASSUME NEW h \in Handler, IncrBy(h) PROVE Booked'
  <2> SUFFICES ASSUME NEW w \in Window
               PROVE  \E shared, spent, own, life : Ledger(w, shared, spent, own, life)'
    BY DEF Booked, Window, WindowOf
  <2>1. PICK shared, spent, own, life : Ledger(w, shared, spent, own, life)
    BY DEF Booked
  <2> QED
    BY <1>5, <2>1, LedgerIncrBy
<1>6. ASSUME NEW h \in Handler, Decide(h) PROVE Booked'
  <2>1. /\ job' = [job EXCEPT ![h] = NoCharge]
        /\ UNCHANGED <<redis, now, counter, bucket, charges, faults, restarts>>
    BY <1>6 DEF Decide
  <2>2. \A g \in Handler : job'[g].at = "expire" => job'[g] = job[g]
    BY <2>1 DEF NoCharge, BudgetTypeOK
  <2>3. CASE job[h].used > MaxPerMinute
    <3>1. granted' = granted
      BY <1>6, <2>3 DEF Decide, Deny
    <3> QED
      BY <1>0, <1>1, <1>2, <2>1, <2>2, <3>1
  <2>4. CASE ~(job[h].used > MaxPerMinute)
    <3> SUFFICES ASSUME NEW w \in Window
                 PROVE  \E shared, spent, own, life : Ledger(w, shared, spent, own, life)'
      BY DEF Booked, Window, WindowOf
    <3>1. PICK shared, spent, own, life : Ledger(w, shared, spent, own, life)
      BY DEF Booked
    <3>2. CASE w = job[h].window
      <4>1. PICK T : T = shared \cup Claimed(h)
        OBVIOUS
      <4>2. Ledger(w, T, spent, own, life)'
        BY <1>6, <2>4, <3>1, <3>2, <4>1, LedgerGrant
      <4> QED
        BY <4>2
    <3>3. CASE w # job[h].window
      <4>1. granted'[w] = granted[w]
        BY <1>6, <2>4, <3>3, ChargeShape DEF Decide, Grant, BudgetTypeOK
      <4>2. w >= WindowOf(now') =>
              w >= WindowOf(now) /\ \A p \in Process : bucket'[p][w] = bucket[p][w]
        BY <2>1
      <4>3. Ledger(w, shared, spent, own, life)'
        BY <1>0, <2>1, <2>2, <3>1, <4>1, <4>2, LedgerStays
      <4> QED
        BY <4>3
    <3> QED
      BY <3>2, <3>3
  <2> QED
    BY <2>3, <2>4
<1>7. ASSUME NEW h \in Handler, NEW applied \in BOOLEAN, FallBack(h, applied) PROVE Booked'
  <2>1. job[h].tokens \in Nat /\ Home[h] \in Process
    BY ChargeShape
  <2>2. /\ CountLocally(Home[h], job[h].tokens) /\ UNCHANGED <<redis, now, restarts>>
        /\ faults' = faults + 1 /\ job' = [job EXCEPT ![h] = NoCharge] /\ job[h].at # "idle"
    BY <1>7 DEF FallBack
  <2>3. faults' = IF redis THEN faults + 1 ELSE faults
    BY <2>2 DEF ChargesApart
  <2>4. \A w \in Window : counter[w] <= counter'[w]
    BY <1>7, FallBackCounter
  <2>5. \A g \in Handler : job'[g].at = "expire" => job'[g] = job[g]
    BY <2>2 DEF NoCharge, BudgetTypeOK
  <2>6. PICK n \in Nat : n = job[h].tokens
    BY <2>1
  <2> QED
    BY <2>1, <2>2, <2>3, <2>4, <2>5, <2>6, BookedLocally
<1>8. CASE Tick
  <2>1. now' \in Nat /\ now <= now'
    BY <1>2, <1>8 DEF Tick
  <2>2. WindowOf(now) <= WindowOf(now') /\ WindowOf(now') \in Nat
    BY <1>2, <2>1, WindowsInOrder
  <2> QED
    BY <1>1, <1>8, <2>1, <2>2 DEF Tick
<1>9. ASSUME NEW p \in Process, Restart(p) PROVE Booked'
  <2> SUFFICES ASSUME NEW w \in Window
               PROVE  \E shared, spent, own, life : Ledger(w, shared, spent, own, life)'
    BY DEF Booked, Window, WindowOf
  <2>1. PICK shared, spent, own, life : Ledger(w, shared, spent, own, life)
    BY DEF Booked
  <2>2. PICK new : new = Lives + 1
    OBVIOUS
  <2>3. PICK next : next = [life EXCEPT ![p] = new]
    OBVIOUS
  <2>4. Ledger(w, shared, spent, own, next)'
    BY <1>9, <2>1, <2>2, <2>3, LedgerRestart
  <2> QED
    BY <2>4
<1>10. CASE UNCHANGED budgetVars
  BY <1>0, <1>1, <1>2, <1>10 DEF budgetVars
<1> QED
  BY <1>3, <1>4, <1>5, <1>6, <1>7, <1>8, <1>9, <1>10 DEF BudgetNext

\* At the start no window has let anything through, and the processes are in as
\* many lives.
LEMMA BudgetInvInit == BudgetInit => BudgetInv
<1> SUFFICES ASSUME BudgetInit PROVE BudgetInv
  OBVIOUS
<1>1. WindowOf(0) \in Nat /\ WindowOf(MaxTime) \in Nat /\ MaxTime \in Nat /\ MaxPerMinute \in Nat
  BY BudgetConstants, WindowsInOrder
<1>2. BudgetTypeOK
  BY <1>1, NoChargeIsJob, BudgetConstants DEF BudgetInit, BudgetTypeOK
<1>3. ChargesApart
  BY DEF BudgetInit, ChargesApart, NoCharge
<1>4. Booked
  <2> SUFFICES ASSUME NEW w \in Window
               PROVE  \E shared, spent, own, life : Ledger(w, shared, spent, own, life)
    BY DEF Booked
  <2>1. Lives = Cardinality(Process) /\ IsFiniteSet(Process)
    BY BudgetConstants DEF BudgetInit, Lives
  <2>2. PICK life : /\ life \in [Process -> 1..Lives]
                    /\ \A p, q \in Process : life[p] = life[q] => p = q
    <3> DEFINE c == Cardinality(Process)
    <3>1. c \in Nat
      BY BudgetConstants
    <3>2. IsFiniteSet(1..c) /\ Cardinality(1..c) = c
      <4> HIDE DEF c
      <4> QED
        BY <3>1, FS_Interval, 1 \in Int
    <3>3. ExistsBijection(Process, 1..c)
      BY <2>1, <3>2, FS_SameCardinalityBij
    <3>4. \E life \in [Process -> 1..c] : \A p, q \in Process : life[p] = life[q] => p = q
      BY <3>3 DEF ExistsBijection, Bijection, Injection, IsInjective
    <3> QED
      BY <2>1, <3>4
  <2>3. Cardinality({}) = 0
    BY FS_EmptySet
  <2>4. Ledger(w, {}, {}, {}, life)
    BY <2>2, <2>3 DEF Ledger, BudgetInit
  <2> QED
    BY <2>4
<1> QED
  BY <1>2, <1>3, <1>4 DEF BudgetInv

\* Every step keeps the invariant.
LEMMA BudgetInvNext == BudgetInv /\ [BudgetNext]_budgetVars => BudgetInv'
BY BudgetNextTyped, ApartStep, BookedStep DEF BudgetInv

\* Places: no more than one per token of each budget in use.
LEMMA BudgetInvHolds == BudgetInv => BudgetHolds
<1> SUFFICES ASSUME BudgetInv, NEW w \in Window PROVE granted[w] <= MaxPerMinute * Budgets
  BY DEF BudgetHolds
<1>1. BudgetTypeOK
  BY DEF BudgetInv
<1>2. PICK shared, spent, own, life : Ledger(w, shared, spent, own, life)
  BY DEF BudgetInv, Booked
<1> DEFINE m == MaxPerMinute
           s == Cardinality(spent)
<1>3. /\ Lives \in Nat /\ s \in Nat /\ s <= Lives /\ Cardinality(own) \in Nat
      /\ Cardinality(shared) \in Nat /\ Cardinality(shared) <= m /\ Cardinality(own) <= s * m
  BY <1>1, <1>2, LedgerFinite
<1>4. m \in Nat /\ faults \in Nat
  BY <1>1, BudgetConstants DEF BudgetTypeOK
<1>5. granted[w] = Cardinality(shared) + Cardinality(own)
  BY <1>2 DEF Ledger
<1>6. Cardinality(own) <= m * s /\ m * s \in Nat
  <2>1. s * m = m * s /\ m * s \in Nat
    BY <1>3, <1>4
  <2> QED
    BY <1>3, <2>1
<1>7. CASE ~redis
  <2>1. Cardinality(shared) = 0
    BY <1>2, <1>7, FS_EmptySet DEF Ledger
  <2>2. m * s <= m * Lives /\ m * Lives \in Nat
    BY <1>3, <1>4, Products
  <2>3. Budgets = Lives
    BY <1>7 DEF Budgets
  <2> HIDE DEF m, s
  <2>4. granted[w] <= m * Lives
    BY <1>3, <1>5, <1>6, <2>1, <2>2
  <2> QED
    BY <2>3, <2>4 DEF m
<1>8. CASE redis
  <2>1. PICK f \in Nat : f = IF faults < Lives THEN faults ELSE Lives
    BY <1>3, <1>4
  <2>2. s <= f
    <3>1. s <= faults
      BY <1>2, <1>8 DEF Ledger
    <3> QED
      BY <1>3, <1>4, <2>1, <3>1
  <2>3. m * s <= m * f /\ m * f \in Nat /\ m * (1 + f) = m + m * f
    BY <1>3, <1>4, <2>1, <2>2, Products
  <2>4. Budgets = 1 + f
    BY <1>8, <2>1 DEF Budgets
  <2> HIDE DEF m, s
  <2>5. granted[w] <= m * (1 + f)
    BY <1>3, <1>4, <1>5, <1>6, <2>3
  <2> QED
    BY <2>4, <2>5 DEF m
<1> QED
  BY <1>7, <1>8

\* Every state of the token budget has its charges apart and its books in order.
THEOREM BudgetInvariance == BudgetSpec => []BudgetInv
<1>1. BudgetInit => BudgetInv
  BY BudgetInvInit
<1>2. BudgetInv /\ [BudgetNext]_budgetVars => BudgetInv'
  BY BudgetInvNext
<1> QED
  BY <1>1, <1>2, PTL DEF BudgetSpec

\* The variables of the token budget keep their types.
THEOREM BudgetTypeCorrect == BudgetSpec => []BudgetTypeOK
<1>1. BudgetInv => BudgetTypeOK
  BY DEF BudgetInv
<1> QED
  BY <1>1, BudgetInvariance, PTL

\* For any sizes and any number of processes, handlers, failures and restarts: a
\* window lets through one budget per counter in use, and exactly one while
\* Redis answers.
THEOREM BudgetIsKept == BudgetSpec => []BudgetHolds
<1>1. BudgetInv => BudgetHolds
  BY BudgetInvHolds
<1> QED
  BY <1>1, BudgetInvariance, PTL
=============================================================================
