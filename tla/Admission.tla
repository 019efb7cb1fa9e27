------------------------------ MODULE Admission ------------------------------
(***************************************************************************)
(* The way of a request to a protected endpoint: RateLimitMiddleware, the  *)
(* endpoint's dependency require_api_key, the endpoint, and the metering   *)
(* in ObservabilityAndSecurityMiddleware (app/main.py, app/security.py,    *)
(* app/metering.py).  The middleware added last runs first: the rate       *)
(* limiter is outermost, so what it refuses is never metered.  The key is  *)
(* read from the database twice, by the middleware for the trial gate and  *)
(* by the dependency, with an await of the limiter between the two.  Then  *)
(* the endpoint waits for a thread, or for the token limiter, before it    *)
(* starts to work, and does not look at the key again.                     *)
(*                                                                         *)
(* A process runs its requests on one event loop.  Metering has no await,  *)
(* so between its count and its insert only other processes run.  What the *)
(* limiter decides is left open here (RateLimiter models it), and so is    *)
(* what the endpoint answers.  The model spans one day.                    *)
(***************************************************************************)
EXTENDS Naturals, Servers

CONSTANTS
  Key,             \* API keys
  NoKey,           \* none of them
  MaxPerDay,       \* MAX_REQUESTS_PER_DAY
  MaxRequests      \* bound: requests per key

ASSUME KeyAssumption == NoKey \notin Key
ASSUME HandlerAssumption == IsFiniteSet(Handler)
ASSUME LimitAssumption == MaxPerDay \in Nat \ {0} /\ MaxRequests \in Nat

VARIABLES
  standing,  \* what a read of each key says: it is good, its trial is over with
             \* nothing paid, or it is inactive or its secret replaced
  request,   \* where each request is, and its key
  usage,     \* usage_events of the last 24 hours, per key
  admitted,  \* requests the middleware let through, per key
  open,      \* history: requests of each key that had passed the check its last
             \* change closed, at that moment
  late       \* history: requests an endpoint worked for since then, per key

vars == <<standing, request, usage, admitted, open, late>>

Stage   == {"idle", "gated", "authorised", "answered", "metering"}
Idle    == [at |-> "idle", key |-> NoKey]
Request == [at : Stage, key : Key \cup {NoKey}]

TypeOK ==
  /\ standing \in [Key -> {"good", "overdue", "dead"}]
  /\ request \in [Handler -> Request]
  /\ \A h \in Handler : request[h].at = "idle" <=> request[h].key = NoKey
  /\ usage \in [Key -> Nat]
  /\ admitted \in [Key -> 0..MaxRequests]
  /\ open \in [Key -> Nat] /\ late \in [Key -> Nat]

Init ==
  /\ standing = [k \in Key |-> "good"]
  /\ request = [h \in Handler |-> Idle]
  /\ usage = [k \in Key |-> 0] /\ admitted = [k \in Key |-> 0]
  /\ open = [k \in Key |-> 0] /\ late = [k \in Key |-> 0]

-----------------------------------------------------------------------------
\* The requests of k that are past the check which somebody with the standing s
\* would fail: the gate asks for the payment, the dependency for a live key.
Past(k, s) ==
  {h \in Handler : /\ request[h].key = k
                   /\ request[h].at \in IF s = "dead" THEN {"authorised"}
                                       ELSE {"gated", "authorised"}}

\* What other components do to a key: its trial ends or it is marked unpaid, it
\* is marked paid, it is deactivated or rotated away.
ChangeKey(k, s) ==
  /\ standing[k] \notin {s, "dead"}
  /\ standing' = [standing EXCEPT ![k] = s]
  /\ open' = [open EXCEPT ![k] = Cardinality(Past(k, s))]
  /\ late' = [late EXCEPT ![k] = 0]
  /\ UNCHANGED <<request, usage, admitted>>

\* The event loop of h's process is not in the middle of metering.
LoopFree(h) ==
  \A g \in Handler \ {h} : Home[g] = Home[h] => request[g].at # "metering"

\* Mutant: the gate asks for a payment only once the key is inactive.
GateOnActive(h, k) ==
  /\ request[h] = Idle /\ LoopFree(h)
  /\ admitted[k] < MaxRequests
  /\ standing[k] # "dead"
  /\ request' = [request EXCEPT ![h] = [at |-> "gated", key |-> k]]
  /\ admitted' = [admitted EXCEPT ![k] = @ + 1]
  /\ UNCHANGED <<standing, usage, open, late>>

\* The middleware knows the key, its trial is not over and the limiter agrees.
\* A request it answers with 402 or 429, and one without a valid key, which the
\* dependency answers with 401, leave no trace.
Gate(h, k) ==
  /\ request[h] = Idle /\ LoopFree(h)
  /\ admitted[k] < MaxRequests
  /\ standing[k] = "good"
  /\ request' = [request EXCEPT ![h] = [at |-> "gated", key |-> k]]
  /\ admitted' = [admitted EXCEPT ![k] = @ + 1]
  /\ UNCHANGED <<standing, usage, open, late>>

Answered(h) == request' = [request EXCEPT ![h].at = "answered"]

\* Mutant: the dependency trusts the identity the middleware left behind.
AuthoriseOnce(h) ==
  /\ request[h].at = "gated" /\ LoopFree(h)
  /\ request' = [request EXCEPT ![h].at = "authorised"]
  /\ UNCHANGED <<standing, usage, admitted, open, late>>

\* require_api_key reads the key again; a dead one is answered with 401.
Authorise(h) ==
  /\ request[h].at = "gated" /\ LoopFree(h)
  /\ IF standing[request[h].key] = "dead"
       THEN Answered(h)
       ELSE request' = [request EXCEPT ![h].at = "authorised"]
  /\ UNCHANGED <<standing, usage, admitted, open, late>>

\* The endpoint, in a thread of its own or behind the token limiter, which may
\* turn the request away: what it works is not undone by what becomes of the key.
Work(h, allowed) ==
  /\ request[h].at = "authorised"
  /\ late' = IF allowed THEN [late EXCEPT ![request[h].key] = @ + 1] ELSE late
  /\ Answered(h)
  /\ UNCHANGED <<standing, usage, admitted, open>>

\* Mutant: one request more than the limit is counted.
CountLate(h) ==
  /\ request[h].at = "answered" /\ LoopFree(h)
  /\ request' = [request EXCEPT ![h] =
       IF usage[request[h].key] > MaxPerDay THEN Idle ELSE [@ EXCEPT !.at = "metering"]]
  /\ UNCHANGED <<standing, usage, admitted, open, late>>

\* enforce_daily_limit: over the limit it raises, the middleware logs that and
\* the answer goes out all the same.
Count(h) ==
  /\ request[h].at = "answered" /\ LoopFree(h)
  /\ request' = [request EXCEPT ![h] =
       IF usage[request[h].key] >= MaxPerDay THEN Idle ELSE [@ EXCEPT !.at = "metering"]]
  /\ UNCHANGED <<standing, usage, admitted, open, late>>

\* record_usage_event inserts; an error of the database is logged and ignored.
Record(h, stored) ==
  /\ request[h].at = "metering"
  /\ usage' = IF stored THEN [usage EXCEPT ![request[h].key] = @ + 1] ELSE usage
  /\ request' = [request EXCEPT ![h] = Idle]
  /\ UNCHANGED <<standing, admitted, open, late>>

\* Mutant: requests survive without their key.
CrashKeepingStage(p) ==
  /\ request' = [h \in Handler |-> IF Home[h] = p THEN [request[h] EXCEPT !.key = NoKey]
                                   ELSE request[h]]
  /\ UNCHANGED <<standing, usage, admitted, open, late>>

Crash(p) ==
  /\ request' = [h \in Handler |-> IF Home[h] = p THEN Idle ELSE request[h]]
  /\ UNCHANGED <<standing, usage, admitted, open, late>>

Next ==
  \/ \E k \in Key : \/ \E s \in {"good", "overdue", "dead"} : ChangeKey(k, s)
                    \/ \E h \in Handler : Gate(h, k)
  \/ \E h \in Handler : \/ Authorise(h) \/ Count(h)
                        \/ \E allowed \in BOOLEAN : Work(h, allowed)
                        \/ \E stored \in BOOLEAN : Record(h, stored)
  \/ \E p \in Process : Crash(p)

Spec == Init /\ [][Next]_vars

-----------------------------------------------------------------------------
\* The count and the insert of two processes may interleave, so the events of a
\* day exceed the limit by at most one for each process but the first
\* (metering.py, 31-69).
UsageBounded == \A k \in Key : usage[k] < MaxPerDay + Cardinality(Process)

\* After a key is deactivated or rotated an endpoint still works for it, but at
\* most for the requests the dependency had let through by then: those between
\* the gate and the dependency are not served any more (security.py, 80-104).
DeadServiceBounded ==
  \A k \in Key : standing[k] = "dead" => late[k] <= open[k]

\* After a trial ends an endpoint works at most for the requests that were past
\* the gate by then: "If trial expires and key is unpaid, protected endpoints
\* return 402 Payment required" (README.md, 299).
LateServiceBounded ==
  \A k \in Key : standing[k] = "overdue" => late[k] <= open[k]
=============================================================================
