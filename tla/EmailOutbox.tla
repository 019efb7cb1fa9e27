----------------------------- MODULE EmailOutbox -----------------------------
(***************************************************************************)
(* The email outbox: app/emails.py and the scheduling helpers of           *)
(* app/main.py that call it.  A handler inserts an EmailEvent row, puts    *)
(* its id on the background tasks of its own request, and the task (or the *)
(* admin's send-pending loop, or the synchronous /send-email handler)      *)
(* loads the row, calls the provider and only then commits the outcome.    *)
(* Nothing locks the row between the load and the commit.                  *)
(*                                                                         *)
(* A worker is one thread of one server process.  Each action below is one *)
(* database transaction or one call of the provider.  Rows are numbered in *)
(* created_at order.  No caller passes scheduled_for, so the "scheduled"   *)
(* status never occurs.                                                    *)
(***************************************************************************)
EXTENDS Naturals, Sequences, FiniteSets, Orm

CONSTANTS
  Worker,       \* threads that serve requests
  Cron,         \* threads that only ever serve POST .../emails/send-pending
  Process,      \* the server processes, each a set of threads
  Key,          \* deduplication keys as the callers build them
  NoKey,        \* an event queued without one (the custom emails)
  Trunc,        \* the first 255 characters of a key, what the column holds
  Ambiguous,    \* an error may reach us after the provider took the message
  MayRaise,     \* errors other than EmailDeliveryError (resend, long texts)
  BatchLimit,   \* the limit argument of send_pending_emails
  MaxEvents,    \* bound: rows in the table
  MaxTasks,     \* bound: emails one request queues
  MaxFaults,    \* bound: refusals and raised errors of the provider
  MaxCrashes    \* bound: process crashes

ASSUME SetsAssumption ==
  /\ Cron \cap Worker = {}
  /\ Process \subseteq SUBSET (Worker \cup Cron)
  /\ NoKey \in Key
  /\ IsFiniteSet(Worker \cup Cron)
ASSUME TruncAssumption ==
  /\ Trunc \in [Key -> Key]
  /\ Trunc[NoKey] = NoKey
  /\ \A k \in Key \ {NoKey} : Trunc[k] # NoKey
ASSUME SwitchAssumption == {Ambiguous, MayRaise} \subseteq BOOLEAN
ASSUME BoundAssumption ==
  {BatchLimit, MaxEvents, MaxTasks, MaxFaults, MaxCrashes} \subseteq Nat

VARIABLES
  skipMode,   \* environment # "production" and skip_email_in_development
  events,     \* the email_events table
  pc,         \* where each thread is
  todo,       \* the ids each thread still has to dispatch, the current first
  loaded,     \* the row as the thread's dispatch loaded it
  accepted,   \* history: messages the provider took, per event
  failures,   \* history: committed failures, per event
  untold,     \* history: events with a message taken and no one left to say so
  faults,     \* provider errors so far
  crashes     \* crashes so far

vars == <<skipMode, events, pc, todo, loaded, accepted, failures, untold, faults, crashes>>

Thread  == Worker \cup Cron
EventId == 1..MaxEvents
Status  == {"queued", "sent", "failed", "skipped"}
Row     == [status : Status, key : Key, retries : Nat,
            error : {"none", "refused", "skip"}, sentAt : BOOLEAN]

NewRow(k) == [status |-> "queued", key |-> k, retries |-> 0,
              error |-> "none", sentAt |-> FALSE]

Blank == NewRow(NoKey)   \* the locals of a thread that holds no row

TypeOK ==
  /\ skipMode \in BOOLEAN
  /\ events \in Seq(Row) /\ Len(events) <= MaxEvents
  /\ pc \in [Thread -> {"idle", "handler", "dispatch", "loaded", "accepted", "refused"}]
  /\ todo \in [Thread -> Seq(EventId)]
  /\ \A t \in Thread : \A i \in 1..Len(todo[t]) : todo[t][i] \in DOMAIN events
  /\ \A t \in Thread : pc[t] \in {"loaded", "accepted", "refused"} => todo[t] # <<>>
  /\ loaded \in [Thread -> Row]
  /\ accepted \in [EventId -> Nat]
  /\ failures \in [EventId -> Nat]
  /\ untold \subseteq EventId
  /\ faults \in Nat /\ crashes \in Nat

InFlight(t, e) ==
  pc[t] \in {"loaded", "accepted", "refused"} /\ Head(todo[t]) = e

Init ==
  /\ skipMode \in BOOLEAN
  /\ events = <<>>
  /\ pc = [t \in Thread |-> "idle"]
  /\ todo = [t \in Thread |-> <<>>]
  /\ loaded = [t \in Thread |-> Blank]
  /\ accepted = [e \in EventId |-> 0]
  /\ failures = [e \in EventId |-> 0]
  /\ untold = {}
  /\ faults = 0 /\ crashes = 0

-----------------------------------------------------------------------------
(* Queueing: queue_email_event, called through _queue_and_dispatch_email.   *)

Holders(k) == {e \in DOMAIN events : events[e].key = k}

\* The INSERT commits: the column is nullable and unique.
InsertEvent(w, k) ==
  /\ k = NoKey \/ Holders(Trunc[k]) = {}
  /\ Len(events) < MaxEvents
  /\ events' = Append(events, NewRow(Trunc[k]))
  /\ todo' = [todo EXCEPT ![w] = Append(@, Len(events) + 1)]

\* IntegrityError: the row is looked up by the key as built, not as stored;
\* a row that is found is dispatched again, one that is not is an error.
DuplicateEvent(w, k) ==
  /\ k # NoKey /\ Holders(Trunc[k]) # {}
  /\ IF Holders(k) # {}
       THEN todo' = [todo EXCEPT ![w] = Append(@, CHOOSE e \in Holders(k) : TRUE)]
       ELSE UNCHANGED todo
  /\ UNCHANGED events

QueueEmail(w, k) ==
  /\ pc[w] \in {"idle", "handler"}
  /\ Len(todo[w]) < MaxTasks
  /\ InsertEvent(w, k) \/ DuplicateEvent(w, k)
  /\ pc' = [pc EXCEPT ![w] = "handler"]
  /\ UNCHANGED <<skipMode, loaded, accepted, failures, untold, faults, crashes>>

\* The response is out and the request's background tasks start.
StartTasks(w) ==
  /\ pc[w] = "handler"
  /\ pc' = [pc EXCEPT ![w] = "dispatch"]
  /\ UNCHANGED <<skipMode, events, todo, loaded, accepted, failures, untold, faults, crashes>>

Pending == {e \in DOMAIN events : events[e].status = "queued"}

\* Mutant: send-pending looks for rows that were tried before.
IsRetryBatch(b) == \A i \in 1..Len(b) : b[i] \in Pending /\ events[b[i]].retries > 0

\* The batch is the BatchLimit oldest pending rows, oldest first.
IsBatch(b) ==
  /\ \A i, j \in 1..Len(b) : i < j => b[i] < b[j]
  /\ \A i \in 1..Len(b) : b[i] \in Pending
  /\ \A e \in Pending :
        \/ \E i \in 1..Len(b) : b[i] = e
        \/ Len(b) = BatchLimit /\ \A i \in 1..Len(b) : b[i] < e

SendPending(c) ==
  /\ pc[c] = "idle"
  /\ Pending # {}
  /\ \E n \in 1..BatchLimit : \E b \in [1..n -> DOMAIN events] :
        /\ IsBatch(b)
        /\ todo' = [todo EXCEPT ![c] = b]
  /\ pc' = [pc EXCEPT ![c] = "dispatch"]
  /\ UNCHANGED <<skipMode, events, loaded, accepted, failures, untold, faults, crashes>>

-----------------------------------------------------------------------------
(* Dispatching: dispatch_transactional_email for Head(todo[t]).             *)

Current(t) == Head(todo[t])

\* Mutant: the early return for sent rows is missing.
OpenWhenSent == {"queued", "failed", "sent"}

Open == {"queued", "failed"}

LoadEvent(t) ==
  /\ pc[t] = "dispatch" /\ todo[t] # <<>>
  /\ IF events[Current(t)].status \in Open
       THEN /\ loaded' = [loaded EXCEPT ![t] = events[Current(t)]]
            /\ pc' = [pc EXCEPT ![t] = "loaded"]
            /\ UNCHANGED todo
       ELSE /\ todo' = [todo EXCEPT ![t] = Tail(@)]
            /\ UNCHANGED <<loaded, pc>>
  /\ UNCHANGED <<skipMode, events, accepted, failures, untold, faults, crashes>>

Finish(t) ==
  /\ pc[t] = "dispatch" /\ todo[t] = <<>>
  /\ pc' = [pc EXCEPT ![t] = "idle"]
  /\ UNCHANGED <<skipMode, events, todo, loaded, accepted, failures, untold, faults, crashes>>

\* Commit the attributes assigned since the load and go on with the next id.
Commit(t, new) ==
  /\ events' = [events EXCEPT ![Current(t)] = Flush(@, loaded[t], new)]
  /\ todo' = [todo EXCEPT ![t] = Tail(@)]
  /\ pc' = [pc EXCEPT ![t] = "dispatch"]
  /\ loaded' = [loaded EXCEPT ![t] = Blank]

\* Mutant: the loop loses its list and not its place.
AbortInPlace(t) ==
  /\ todo' = [todo EXCEPT ![t] = <<>>]
  /\ UNCHANGED <<pc, loaded>>

\* An exception nobody catches ends the loop of send_pending_emails and the
\* remaining background tasks of a request alike.
Abort(t) ==
  /\ todo' = [todo EXCEPT ![t] = <<>>]
  /\ pc' = [pc EXCEPT ![t] = "idle"]
  /\ loaded' = [loaded EXCEPT ![t] = Blank]

CommitSkipped(t) ==
  /\ pc[t] = "loaded" /\ skipMode
  /\ Commit(t, [loaded[t] EXCEPT !.status = "skipped", !.error = "skip", !.sentAt = FALSE])
  /\ UNCHANGED <<skipMode, accepted, failures, untold, faults, crashes>>

Accept(t) ==
  /\ pc[t] = "loaded" /\ ~skipMode
  /\ accepted' = [accepted EXCEPT ![Current(t)] = @ + 1]
  /\ pc' = [pc EXCEPT ![t] = "accepted"]
  /\ UNCHANGED <<skipMode, events, todo, loaded, failures, untold, faults, crashes>>

\* The provider took the message all the same: a timeout after the last byte.
Reached(t, reached) ==
  /\ reached => Ambiguous
  /\ accepted' = IF reached THEN [accepted EXCEPT ![Current(t)] = @ + 1] ELSE accepted
  /\ untold' = IF reached THEN untold \cup {Current(t)} ELSE untold

Fault ==
  /\ faults < MaxFaults
  /\ faults' = faults + 1

\* Mutant: the provider's status code is not looked at.
RefuseUnnoticed(t, reached) ==
  /\ pc[t] = "loaded" /\ ~skipMode
  /\ Fault
  /\ Reached(t, reached)
  /\ pc' = [pc EXCEPT ![t] = "accepted"]
  /\ UNCHANGED <<skipMode, events, todo, loaded, failures, crashes>>

Refuse(t, reached) ==
  /\ pc[t] = "loaded" /\ ~skipMode
  /\ Fault
  /\ Reached(t, reached)
  /\ pc' = [pc EXCEPT ![t] = "refused"]
  /\ UNCHANGED <<skipMode, events, todo, loaded, failures, crashes>>

Raise(t, reached) ==
  /\ pc[t] = "loaded" /\ ~skipMode /\ MayRaise
  /\ Fault
  /\ Reached(t, reached)
  /\ Abort(t)
  /\ UNCHANGED <<skipMode, events, failures, crashes>>

\* Mutant: every attempt is counted as a retry.
CommitSentAsRetry(t) ==
  /\ pc[t] = "accepted"
  /\ Commit(t, [loaded[t] EXCEPT !.status = "sent", !.sentAt = TRUE, !.retries = @ + 1])
  /\ UNCHANGED <<skipMode, accepted, failures, untold, faults, crashes>>

CommitSent(t) ==
  /\ pc[t] = "accepted"
  /\ Commit(t, [loaded[t] EXCEPT !.status = "sent", !.sentAt = TRUE, !.error = "none"])
  /\ UNCHANGED <<skipMode, accepted, failures, untold, faults, crashes>>

CommitFailed(t) ==
  /\ pc[t] = "refused"
  /\ Commit(t, [loaded[t] EXCEPT !.status = "failed", !.error = "refused", !.retries = @ + 1])
  /\ failures' = [failures EXCEPT ![Current(t)] = @ + 1]
  /\ UNCHANGED <<skipMode, accepted, untold, faults, crashes>>

\* error_message is String(500): a longer provider text fails the commit.
RejectFailed(t) ==
  /\ pc[t] = "refused" /\ MayRaise
  /\ Abort(t)
  /\ UNCHANGED <<skipMode, events, accepted, failures, untold, faults, crashes>>

-----------------------------------------------------------------------------
(* A crash loses the threads of one process and their task lists; the table *)
(* stays.  Nothing reads the table again at start-up.                       *)

Crash(P) ==
  /\ crashes < MaxCrashes
  /\ crashes' = crashes + 1
  /\ pc' = [t \in Thread |-> IF t \in P THEN "idle" ELSE pc[t]]
  /\ todo' = [t \in Thread |-> IF t \in P THEN <<>> ELSE todo[t]]
  /\ untold' = untold \cup {e \in EventId : \E t \in P : pc[t] = "accepted" /\ Current(t) = e}
  /\ loaded' = [t \in Thread |-> IF t \in P THEN Blank ELSE loaded[t]]
  /\ UNCHANGED <<skipMode, events, accepted, failures, faults>>

Deliver(t) == Accept(t) \/ \E r \in BOOLEAN : Refuse(t, r) \/ Raise(t, r)

Dispatch(t) ==
  \/ LoadEvent(t) \/ Finish(t) \/ CommitSkipped(t) \/ Deliver(t)
  \/ CommitSent(t) \/ CommitFailed(t) \/ RejectFailed(t)

Next ==
  \/ \E w \in Worker : StartTasks(w) \/ \E k \in Key : QueueEmail(w, k)
  \/ \E c \in Cron : SendPending(c)
  \/ \E t \in Thread : Dispatch(t)
  \/ \E P \in Process : Crash(P)

Spec == Init /\ [][Next]_vars

\* Threads run to the end of what they started, and the scheduled job keeps
\* calling send-pending.
Fairness ==
  /\ \A w \in Worker : WF_vars(StartTasks(w))
  /\ \A t \in Thread : WF_vars(Dispatch(t))
  /\ \A c \in Cron : WF_vars(SendPending(c))

FairSpec == Spec /\ Fairness

-----------------------------------------------------------------------------
(* An event whose fate is known: it is marked sent and no thread is between *)
(* loading it and committing an outcome for it.                             *)
Settled == {e \in DOMAIN events :
              events[e].status = "sent" /\ \A t \in Thread : ~InFlight(t, e)}

Contract == INSTANCE OutboxContract
              WITH Event <- EventId, mailed <- accepted, settled <- Settled

\* The outbox keeps the contract: only an open event is mailed, and an event
\* settles, for good, only after a copy was taken.
ImplementsContract == Contract!Spec

\* A row marked sent was taken by the provider at least once, whatever the
\* order in which overlapping dispatches commit (emails.py, 266-279).
SentWasAccepted ==
  \A e \in DOMAIN events : events[e].status = "sent" => accepted[e] > 0

\* A message the provider took leaves a sent_at behind, unless its dispatch is
\* still to commit, died with its process or was told of an error: a failure
\* committed later by another dispatch does not erase it.
AcceptanceIsRecorded ==
  \A e \in DOMAIN events :
    accepted[e] > 0 => \/ events[e].sentAt
                       \/ e \in untold
                       \/ \E t \in Thread : pc[t] = "accepted" /\ Current(t) = e

\* The retry counter never claims more attempts than failed: the lost updates
\* of overlapping failures only ever make it too small.
RetriesNotOvercounted ==
  \A e \in DOMAIN events : events[e].retries <= failures[e]

\* However often a message is asked for again, by retried webhooks, repeated
\* requests and send-pending, what multiplies its copies is overlapping only: one
\* for each thread per time that the row is open (at first, and again after a
\* failure was committed or a process died with what it knew), and one for each
\* error that came after the provider had taken the message (emails.py, 243-279).
CopiesBounded ==
  \A e \in DOMAIN events :
    accepted[e] <= Cardinality(Thread) * (1 + failures[e] + crashes) + faults

\* Every queued email is eventually dispatched, although the task list that
\* carried it may die with its process: send-pending finds the row.
QueueDrains ==
  \A e \in EventId :
    e \in Pending ~> e \notin Pending
=============================================================================
