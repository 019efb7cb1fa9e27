-------------------------- MODULE EmailOutboxProofs --------------------------
(***************************************************************************)
(* Theorems about EmailOutbox, for every set of threads, keys and bounds.  *)
(***************************************************************************)
EXTENDS EmailOutbox, SequenceTheorems, FiniteSetTheorems, TLAPS

\* A flushed row takes each column from the assignment or from the table.
LEMMA FlushRow ==
  ASSUME NEW row \in Row, NEW old \in Row, NEW new \in Row
  PROVE  /\ Flush(row, old, new) \in Row
         /\ Flush(row, old, new).status \in {new.status, row.status}
         /\ new.status # old.status => Flush(row, old, new).status = new.status
         /\ new.key = old.key => Flush(row, old, new).key = row.key
         /\ Flush(row, old, new).sentAt = IF new.sentAt # old.sentAt THEN new.sentAt ELSE row.sentAt
         /\ Flush(row, old, new).retries = IF new.retries # old.retries THEN new.retries ELSE row.retries
         /\ Flush(row, old, new).status = IF new.status # old.status THEN new.status ELSE row.status
<1>1. DOMAIN row = {"status", "key", "retries", "error", "sentAt"}
  BY DEF Row
<1>2. Flush(row, old, new) = [c \in {"status", "key", "retries", "error", "sentAt"} |->
                                IF new[c] # old[c] THEN new[c] ELSE row[c]]
  BY <1>1 DEF Flush
<1>3. Flush(row, old, new) = 
          [status  |-> IF new.status # old.status THEN new.status ELSE row.status,
           key     |-> IF new.key # old.key THEN new.key ELSE row.key,
           retries |-> IF new.retries # old.retries THEN new.retries ELSE row.retries,
           error   |-> IF new.error # old.error THEN new.error ELSE row.error,
           sentAt  |-> IF new.sentAt # old.sentAt THEN new.sentAt ELSE row.sentAt]
  BY <1>2
<1> QED BY <1>3 DEF Row

-----------------------------------------------------------------------------
(* Type correctness.                                                        *)

\* What a thread has still to dispatch is in the table.
LEMMA CurrentEvent ==
  ASSUME TypeOK, NEW t \in Thread, todo[t] # <<>>
  PROVE  /\ Current(t) \in DOMAIN events
         /\ Current(t) \in EventId
         /\ events[Current(t)] \in Row
         /\ Tail(todo[t]) \in Seq(EventId)
         /\ \A i \in 1..Len(Tail(todo[t])) : Tail(todo[t])[i] \in DOMAIN events
<1>1. /\ todo[t] \in Seq(EventId)
      /\ \A i \in 1..Len(todo[t]) : todo[t][i] \in DOMAIN events
      /\ events \in Seq(Row) /\ Len(events) <= MaxEvents
  BY DEF TypeOK
<1>2. /\ Len(todo[t]) \in Nat \ {0}
      /\ Head(todo[t]) = todo[t][1]
      /\ Tail(todo[t]) \in Seq(EventId)
      /\ Len(Tail(todo[t])) = Len(todo[t]) - 1
      /\ \A i \in 1..Len(Tail(todo[t])) : Tail(todo[t])[i] = todo[t][i+1]
  BY <1>1, HeadTailProperties, EmptySeq
<1>3. DOMAIN events = 1..Len(events) /\ Len(events) \in Nat
  BY <1>1, LenProperties
<1> QED BY <1>1, <1>2, <1>3, BoundAssumption DEF Current, EventId

\* An inserted row is one of the table.
LEMMA NewRowType == \A k \in Key : NewRow(k) \in Row
BY DEF NewRow, Row, Status

\* The empty table is well typed.
LEMMA InitType == Init => TypeOK
BY NewRowType, SetsAssumption, BoundAssumption DEF Init, TypeOK, Blank, Thread

\* Queueing an email, new or a duplicate, keeps the types.
LEMMA QueueType ==
  ASSUME TypeOK, NEW w \in Worker, NEW k \in Key, QueueEmail(w, k)
  PROVE  TypeOK'
<1> USE DEF Thread
<1>0. w \in Thread /\ DOMAIN events = 1..Len(events) /\ Len(events) \in Nat
      /\ todo[w] \in Seq(EventId) /\ events \in Seq(Row) /\ Len(events) <= MaxEvents
      /\ todo \in [Thread -> Seq(EventId)]
      /\ MaxEvents \in Nat
  BY LenProperties, BoundAssumption DEF TypeOK
<1>1. ASSUME NEW e \in EventId
      PROVE  /\ Append(todo[w], e) \in Seq(EventId)
             /\ \A i \in 1..Len(Append(todo[w], e)) :
                   Append(todo[w], e)[i] = e \/ (i \in 1..Len(todo[w]) /\ Append(todo[w], e)[i] = todo[w][i])
  BY <1>0, AppendProperties, LenProperties
<1>2. CASE InsertEvent(w, k)
  <2>1. NewRow(Trunc[k]) \in Row
    BY NewRowType, TruncAssumption
  <2>2. /\ events' = Append(events, NewRow(Trunc[k]))
        /\ todo' = [todo EXCEPT ![w] = Append(todo[w], Len(events) + 1)]
        /\ Len(events) < MaxEvents
    BY <1>2 DEF InsertEvent
  <2>3. events' \in Seq(Row) /\ Len(events') = Len(events) + 1 /\ DOMAIN events' = 1..(Len(events) + 1)
    BY <1>0, <2>1, <2>2, AppendProperties, LenProperties
  <2>4. Len(events) + 1 \in EventId
    BY <1>0, <2>2 DEF EventId
  <2>5. todo' \in [Thread -> Seq(EventId)]
    BY <1>0, <1>1, <2>2, <2>4
  <2>6. \A t \in Thread : \A i \in 1..Len(todo'[t]) : todo'[t][i] \in DOMAIN events'
    <3> SUFFICES ASSUME NEW t \in Thread, NEW i \in 1..Len(todo'[t])
                 PROVE  todo'[t][i] \in DOMAIN events'
      OBVIOUS
    <3>1. CASE t = w
      BY <1>0, <1>1, <2>2, <2>3, <2>4, <3>1 DEF TypeOK
    <3>2. CASE t # w
      BY <1>0, <2>2, <2>3, <3>2 DEF TypeOK
    <3> QED BY <3>1, <3>2
  <2>7. \A t \in Thread : pc'[t] \in {"loaded", "accepted", "refused"} => todo'[t] # <<>>
    BY <1>0, <2>2 DEF TypeOK, QueueEmail
  <2> QED BY <1>0, <2>2, <2>3, <2>5, <2>6, <2>7 DEF TypeOK, QueueEmail
<1>3. CASE DuplicateEvent(w, k)
  <2>1. events' = events BY <1>3 DEF DuplicateEvent
  <2>2. CASE Holders(k) # {}
    <3> DEFINE e == CHOOSE e \in Holders(k) : TRUE
    <3>1. e \in DOMAIN events /\ e \in EventId
      BY <1>0, <2>2 DEF Holders, EventId
    <3>2. todo' = [todo EXCEPT ![w] = Append(todo[w], e)]
      BY <1>3, <2>2 DEF DuplicateEvent
    <3> HIDE DEF e
    <3>3. todo' \in [Thread -> Seq(EventId)]
      BY <1>0, <1>1, <3>1, <3>2
    <3>4. \A t \in Thread : \A i \in 1..Len(todo'[t]) : todo'[t][i] \in DOMAIN events'
      BY <1>0, <1>1, <2>1, <3>1, <3>2 DEF TypeOK
    <3>5. \A t \in Thread : pc'[t] \in {"loaded", "accepted", "refused"} => todo'[t] # <<>>
      BY <1>0, <3>2 DEF TypeOK, QueueEmail
    <3> QED BY <1>0, <2>1, <3>3, <3>4, <3>5 DEF TypeOK, QueueEmail
  <2>3. CASE Holders(k) = {}
    <3>1. todo' = todo BY <1>3, <2>3 DEF DuplicateEvent
    <3> QED BY <1>0, <2>1, <3>1 DEF TypeOK, QueueEmail
  <2> QED BY <2>2, <2>3
<1> QED BY <1>2, <1>3 DEF QueueEmail

\* Taking a batch of pending rows keeps them.
LEMMA SendPendingType ==
  ASSUME TypeOK, NEW c \in Cron, SendPending(c)
  PROVE  TypeOK'
<1>0. PICK n \in 1..BatchLimit :
        \E b \in [1..n -> DOMAIN events] : todo' = [todo EXCEPT ![c] = b]
  BY DEF SendPending
<1>1. PICK b \in [1..n -> DOMAIN events] : todo' = [todo EXCEPT ![c] = b]
  BY <1>0
<1>2. DOMAIN events = 1..Len(events) /\ Len(events) \in Nat /\ Len(events) <= MaxEvents
  BY LenProperties DEF TypeOK
<1>3. b \in [1..n -> EventId] /\ n \in Nat
  BY <1>2, BoundAssumption DEF EventId
<1>4. b \in Seq(EventId) /\ Len(b) = n
  BY <1>3, SeqDef, LenProperties
<1>5. todo' \in [Thread -> Seq(EventId)]
  BY <1>1, <1>4 DEF TypeOK
<1>6. \A t \in Thread : \A i \in 1..Len(todo'[t]) : todo'[t][i] \in DOMAIN events
  BY <1>1, <1>4 DEF TypeOK
<1> QED BY <1>1, <1>5, <1>6 DEF TypeOK, SendPending, Thread

\* Writing a row back and going on with the next id keeps them.
LEMMA CommitType ==
  ASSUME TypeOK, NEW t \in Thread, NEW new \in Row, todo[t] # <<>>, Commit(t, new)
  PROVE  /\ events' \in Seq(Row) /\ Len(events') = Len(events)
         /\ DOMAIN events' = DOMAIN events
         /\ todo' \in [Thread -> Seq(EventId)]
         /\ \A s \in Thread : \A i \in 1..Len(todo'[s]) : todo'[s][i] \in DOMAIN events'
         /\ \A s \in Thread : pc'[s] \in {"loaded", "accepted", "refused"} => todo'[s] # <<>>
         /\ loaded' \in [Thread -> Row]
<1>1. /\ Current(t) \in DOMAIN events
      /\ events[Current(t)] \in Row
      /\ Tail(todo[t]) \in Seq(EventId)
      /\ \A i \in 1..Len(Tail(todo[t])) : Tail(todo[t])[i] \in DOMAIN events
  BY CurrentEvent
<1>2. Flush(events[Current(t)], loaded[t], new) \in Row
  BY <1>1, FlushRow DEF TypeOK
<1>3. /\ events \in Seq(Row) /\ Current(t) \in 1..Len(events)
      /\ events' = [events EXCEPT ![Current(t)] = Flush(events[Current(t)], loaded[t], new)]
  BY <1>1, LenProperties DEF TypeOK, Commit
<1>4. events' \in Seq(Row) /\ Len(events') = Len(events)
  BY <1>2, <1>3, ExceptSeq
<1>5. DOMAIN events' = DOMAIN events
  BY <1>3
<1>6. Blank \in Row
  BY NewRowType, SetsAssumption DEF Blank
<1> QED BY <1>1, <1>4, <1>5, <1>6 DEF TypeOK, Commit

\* Each step of a dispatch keeps them.
LEMMA DispatchType ==
  ASSUME TypeOK, NEW t \in Thread, Dispatch(t)
  PROVE  TypeOK'
<1>0. /\ loaded[t] \in Row /\ Blank \in Row
      /\ \A s \in Seq(EventId) : s = <<>> \/ s # <<>>
      /\ <<>> \in Seq(EventId) /\ Len(<<>>) = 0
  BY NewRowType, SetsAssumption, EmptySeq DEF TypeOK, Blank
<1>1. CASE LoadEvent(t)
  <2>1. /\ events[Current(t)] \in Row
        /\ Tail(todo[t]) \in Seq(EventId)
        /\ \A i \in 1..Len(Tail(todo[t])) : Tail(todo[t])[i] \in DOMAIN events
    BY <1>1, CurrentEvent DEF LoadEvent
  <2> QED BY <1>1, <2>1 DEF TypeOK, LoadEvent
<1>2. CASE Finish(t)
  BY <1>2 DEF TypeOK, Finish
<1>3. CASE CommitSkipped(t)
  <2> DEFINE new == [loaded[t] EXCEPT !.status = "skipped", !.error = "skip", !.sentAt = FALSE]
  <2>1. new \in Row /\ todo[t] # <<>> BY <1>0, <1>3 DEF Row, Status, CommitSkipped, TypeOK
  <2>2. Commit(t, new) BY <1>3 DEF CommitSkipped
  <2> HIDE DEF new
  <2> QED BY <1>3, <2>1, <2>2, CommitType DEF TypeOK, Commit, CommitSkipped
<1>4. CASE Accept(t)
  <2>1. Current(t) \in EventId BY <1>4, CurrentEvent DEF TypeOK, Accept
  <2> QED BY <1>4, <2>1 DEF TypeOK, Accept
<1>5. ASSUME NEW r \in BOOLEAN, Refuse(t, r)
      PROVE  TypeOK'
  <2>1. Current(t) \in EventId BY <1>5, CurrentEvent DEF TypeOK, Refuse
  <2> QED BY <1>5, <2>1 DEF TypeOK, Refuse, Fault, Reached
<1>6. ASSUME NEW r \in BOOLEAN, Raise(t, r)
      PROVE  TypeOK'
  <2>1. Current(t) \in EventId BY <1>6, CurrentEvent DEF TypeOK, Raise
  <2> QED BY <1>0, <1>6, <2>1 DEF TypeOK, Raise, Fault, Reached, Abort
<1>7. CASE CommitSent(t)
  <2> DEFINE new == [loaded[t] EXCEPT !.status = "sent", !.sentAt = TRUE, !.error = "none"]
  <2>1. new \in Row /\ todo[t] # <<>> BY <1>0, <1>7 DEF Row, Status, CommitSent, TypeOK
  <2>2. Commit(t, new) BY <1>7 DEF CommitSent
  <2> HIDE DEF new
  <2> QED BY <1>7, <2>1, <2>2, CommitType DEF TypeOK, Commit, CommitSent
<1>8. CASE CommitFailed(t)
  <2> DEFINE more == loaded[t].retries + 1
             new == [loaded[t] EXCEPT !.status = "failed", !.error = "refused", !.retries = more]
  <2>1. more \in Nat BY <1>0 DEF Row
  <2>2. Commit(t, new) BY <1>8 DEF CommitFailed
  <2> HIDE DEF more
  <2>3. new \in Row BY <1>0, <2>1 DEF Row, Status
  <2>4. todo[t] # <<>> BY <1>8 DEF TypeOK, CommitFailed
  <2>5. Current(t) \in EventId BY <2>4, CurrentEvent
  <2>6. failures' \in [EventId -> Nat] BY <1>8, <2>5 DEF TypeOK, CommitFailed
  <2> HIDE DEF new
  <2>7. pc' = [pc EXCEPT ![t] = "dispatch"] BY <2>2 DEF Commit
  <2> QED BY <1>8, <2>2, <2>3, <2>4, <2>6, <2>7, CommitType DEF TypeOK, CommitFailed
<1>9. CASE RejectFailed(t)
  BY <1>0, <1>9 DEF TypeOK, RejectFailed, Abort
<1> QED BY <1>1, <1>2, <1>3, <1>4, <1>5, <1>6, <1>7, <1>8, <1>9 DEF Dispatch, Deliver

\* A crash keeps them.
LEMMA CrashType ==
  ASSUME TypeOK, NEW P \in Process, Crash(P)
  PROVE  TypeOK'
<1>1. Blank \in Row /\ <<>> \in Seq(EventId) /\ Len(<<>>) = 0
  BY NewRowType, SetsAssumption, EmptySeq DEF Blank
<1> QED BY <1>1 DEF TypeOK, Crash

\* Every step keeps the types.
LEMMA NextType == TypeOK /\ [Next]_vars => TypeOK'
<1> SUFFICES ASSUME TypeOK, [Next]_vars PROVE TypeOK'
  OBVIOUS
<1>1. ASSUME NEW w \in Worker, StartTasks(w) PROVE TypeOK'
  BY <1>1 DEF TypeOK, StartTasks, Thread
<1>2. CASE UNCHANGED vars
  BY <1>2 DEF TypeOK, vars
<1> QED BY <1>1, <1>2, QueueType, SendPendingType, DispatchType, CrashType DEF Next

\* Every reachable state of the outbox is well typed; in particular every id a
\* thread has still to dispatch names a row of the table.
THEOREM TypeCorrect == Spec => []TypeOK
BY InitType, NextType, PTL DEF Spec

-----------------------------------------------------------------------------
(* The inductive invariant about deliveries.  A dispatch works on a row it  *)
(* loaded, so each claim about the table is carried by a claim about what   *)
(* the threads in flight hold.                                              *)

\* Thread t is between the load of a row and its commit.
Flying(t) == pc[t] \in {"loaded", "accepted", "refused"}

\* What a thread in flight loaded was open, so whatever it commits is a change
\* of status, and a sent_at it saw is still there.
LoadedIsHonest ==
  \A t \in Thread : Flying(t) =>
    /\ loaded[t].status \in Open
    /\ loaded[t].sentAt => events[Current(t)].sentAt

\* A message the provider just took for a thread is counted.
AcceptedIsCounted ==
  \A t \in Thread : pc[t] = "accepted" => accepted[Current(t)] > 0

\* Only a row whose message was taken has a sent_at.
StampedWasAccepted ==
  \A e \in DOMAIN events : events[e].sentAt => accepted[e] > 0

\* Nothing is mailed before its row is there.
NothingUnqueuedAccepted ==
  \A e \in EventId : e \notin DOMAIN events => accepted[e] = 0

\* Where emails are skipped no message is taken.
SkipIsSilent ==
  skipMode => \A e \in EventId : accepted[e] = 0

\* The inductive invariant of delivery.
DeliveryInv ==
  /\ SentWasAccepted
  /\ AcceptanceIsRecorded
  /\ LoadedIsHonest
  /\ AcceptedIsCounted
  /\ StampedWasAccepted
  /\ NothingUnqueuedAccepted
  /\ SkipIsSilent

\* An INSERT leaves the rows there were and adds an open one nobody has mailed.
LEMMA InsertRows ==
  ASSUME TypeOK, NEW w \in Worker, NEW k \in Key, InsertEvent(w, k)
  PROVE  /\ DOMAIN events' = DOMAIN events \cup {Len(events) + 1}
         /\ \A e \in DOMAIN events : events'[e] = events[e]
         /\ events'[Len(events) + 1] = NewRow(Trunc[k])
         /\ Len(events) + 1 \in EventId \ DOMAIN events
<1>1. /\ events \in Seq(Row) /\ NewRow(Trunc[k]) \in Row
      /\ events' = Append(events, NewRow(Trunc[k]))
      /\ Len(events) < MaxEvents /\ MaxEvents \in Nat
  BY NewRowType, TruncAssumption, BoundAssumption DEF TypeOK, InsertEvent
<1>2. /\ DOMAIN events = 1..Len(events) /\ Len(events) \in Nat
      /\ DOMAIN events' = 1..(Len(events) + 1)
      /\ \A i \in 1..Len(events) : events'[i] = events[i]
      /\ events'[Len(events) + 1] = NewRow(Trunc[k])
  BY <1>1, AppendProperties, LenProperties
<1> QED BY <1>1, <1>2 DEF EventId

\* An inserted row was never mailed, and a queued id puts no thread in flight.
LEMMA QueueDelivery ==
  ASSUME TypeOK, DeliveryInv, NEW w \in Worker, NEW k \in Key, QueueEmail(w, k)
  PROVE  DeliveryInv'
<1>1. \A t \in Thread : Flying(t)' => Flying(t) /\ Current(t)' = Current(t) /\ Current(t) \in DOMAIN events
  BY CurrentEvent DEF QueueEmail, InsertEvent, DuplicateEvent, Flying, Current, TypeOK, Thread
<1>2. \A t \in Thread : Flying(t) => Flying(t)' /\ pc'[t] = pc[t] /\ loaded'[t] = loaded[t]
  BY DEF QueueEmail, Flying, TypeOK, Thread
<1>3. CASE InsertEvent(w, k)
  <2>1. /\ DOMAIN events' = DOMAIN events \cup {Len(events) + 1}
        /\ \A e \in DOMAIN events : events'[e] = events[e]
        /\ events'[Len(events) + 1] = NewRow(Trunc[k])
        /\ accepted[Len(events) + 1] = 0
        /\ UNCHANGED <<skipMode, accepted, untold>>
    BY <1>3, InsertRows DEF QueueEmail, DeliveryInv, NothingUnqueuedAccepted
  <2>2. SentWasAccepted'
    BY <2>1 DEF DeliveryInv, SentWasAccepted, NewRow
  <2>3. AcceptanceIsRecorded'
    BY <1>1, <1>2, <2>1 DEF DeliveryInv, AcceptanceIsRecorded, Flying
  <2>4. LoadedIsHonest' /\ AcceptedIsCounted'
    BY <1>1, <1>2, <2>1 DEF DeliveryInv, LoadedIsHonest, AcceptedIsCounted, Flying
  <2>5. StampedWasAccepted' /\ NothingUnqueuedAccepted' /\ SkipIsSilent'
    BY <2>1 DEF DeliveryInv, StampedWasAccepted, NothingUnqueuedAccepted, SkipIsSilent, NewRow
  <2> QED BY <2>2, <2>3, <2>4, <2>5 DEF DeliveryInv
<1>4. CASE DuplicateEvent(w, k)
  <2>1. UNCHANGED <<skipMode, events, accepted, untold>>
    BY <1>4 DEF QueueEmail, DuplicateEvent
  <2>2. AcceptanceIsRecorded'
    BY <1>1, <1>2, <2>1 DEF DeliveryInv, AcceptanceIsRecorded, Flying
  <2>3. LoadedIsHonest' /\ AcceptedIsCounted'
    BY <1>1, <1>2, <2>1 DEF DeliveryInv, LoadedIsHonest, AcceptedIsCounted, Flying
  <2> QED BY <2>1, <2>2, <2>3 DEF DeliveryInv, SentWasAccepted, StampedWasAccepted,
                                  NothingUnqueuedAccepted, SkipIsSilent
<1> QED BY <1>3, <1>4 DEF QueueEmail

\* Steps that touch neither the table nor the history, and put no thread in
\* flight that was not.
LEMMA QuietDelivery ==
  ASSUME DeliveryInv, UNCHANGED <<skipMode, events, accepted, untold>>,
         \A t \in Thread : Flying(t)' => /\ Flying(t) /\ pc'[t] = pc[t]
                                        /\ Current(t)' = Current(t) /\ loaded'[t] = loaded[t],
         \A t \in Thread : pc[t] = "accepted" => pc'[t] = "accepted" /\ Current(t)' = Current(t)
  PROVE  DeliveryInv'
<1>1. AcceptanceIsRecorded'
  BY DEF DeliveryInv, AcceptanceIsRecorded
<1>2. LoadedIsHonest' /\ AcceptedIsCounted'
  BY DEF DeliveryInv, LoadedIsHonest, AcceptedIsCounted, Flying
<1> QED BY <1>1, <1>2 DEF DeliveryInv, SentWasAccepted, StampedWasAccepted,
                          NothingUnqueuedAccepted, SkipIsSilent

\* A thread takes off with the row as it is.
LEMMA LoadDelivery ==
  ASSUME TypeOK, DeliveryInv, NEW t \in Thread, LoadEvent(t)
  PROVE  DeliveryInv'
<1>1. CASE events[Current(t)].status \in Open
  <2>1. /\ UNCHANGED <<skipMode, events, todo, accepted, untold>>
        /\ loaded' = [loaded EXCEPT ![t] = events[Current(t)]]
        /\ pc' = [pc EXCEPT ![t] = "loaded"]
        /\ pc[t] = "dispatch"
    BY <1>1 DEF LoadEvent
  <2>2. \A s \in Thread : Current(s)' = Current(s)
    BY <2>1 DEF Current
  <2>3. AcceptanceIsRecorded'
    BY <2>1, <2>2 DEF DeliveryInv, AcceptanceIsRecorded, TypeOK
  <2>4. LoadedIsHonest' /\ AcceptedIsCounted'
    BY <1>1, <2>1, <2>2 DEF DeliveryInv, LoadedIsHonest, AcceptedIsCounted, Flying, TypeOK
  <2> QED BY <2>1, <2>3, <2>4 DEF DeliveryInv, SentWasAccepted, StampedWasAccepted,
                          NothingUnqueuedAccepted, SkipIsSilent
<1>2. CASE events[Current(t)].status \notin Open
  <2>1. /\ UNCHANGED <<skipMode, events, pc, loaded, accepted, untold>>
        /\ todo' = [todo EXCEPT ![t] = Tail(todo[t])]
        /\ pc[t] = "dispatch"
    BY <1>2 DEF LoadEvent
  <2> QED BY <2>1, QuietDelivery DEF Current, TypeOK, Flying
<1> QED BY <1>1, <1>2

\* The provider takes the message of a thread in flight.
LEMMA AcceptDelivery ==
  ASSUME TypeOK, DeliveryInv, NEW t \in Thread, Accept(t)
  PROVE  DeliveryInv'
<1>1. /\ UNCHANGED <<skipMode, events, todo, loaded, untold>>
      /\ accepted' = [accepted EXCEPT ![Current(t)] = accepted[Current(t)] + 1]
      /\ pc' = [pc EXCEPT ![t] = "accepted"]
      /\ pc[t] = "loaded" /\ ~skipMode
      /\ Current(t) \in DOMAIN events /\ Current(t) \in EventId
  BY CurrentEvent DEF Accept, TypeOK
<1>2. \A s \in Thread : Current(s)' = Current(s)
  BY <1>1 DEF Current
<1>3. \A e \in EventId : accepted[e] \in Nat /\ accepted'[e] = IF e = Current(t) THEN accepted[e] + 1 ELSE accepted[e]
  BY <1>1 DEF TypeOK
<1>4. DOMAIN events \subseteq EventId
  BY LenProperties, BoundAssumption DEF TypeOK, EventId
<1>5. SentWasAccepted' /\ StampedWasAccepted'
  BY <1>1, <1>3, <1>4 DEF DeliveryInv, SentWasAccepted, StampedWasAccepted
<1>6. AcceptanceIsRecorded'
  BY <1>1, <1>2, <1>3, <1>4 DEF DeliveryInv, AcceptanceIsRecorded, TypeOK
<1>7. LoadedIsHonest'
  BY <1>1, <1>2 DEF DeliveryInv, LoadedIsHonest, Flying, TypeOK
<1>8. AcceptedIsCounted'
  <2> SUFFICES ASSUME NEW s \in Thread, pc'[s] = "accepted"
               PROVE  accepted'[Current(s)] > 0
    BY <1>2 DEF AcceptedIsCounted
  <2>1. Current(s) \in EventId
    BY <1>1, CurrentEvent DEF TypeOK
  <2> QED BY <1>1, <1>3, <2>1 DEF DeliveryInv, AcceptedIsCounted, TypeOK
<1> QED BY <1>1, <1>3, <1>5, <1>6, <1>7, <1>8 DEF DeliveryInv, NothingUnqueuedAccepted, SkipIsSilent

\* An error report leaves the claims about accepted messages standing, whether
\* or not the provider had taken the message.
LEMMA ErrorDelivery ==
  ASSUME TypeOK, DeliveryInv, NEW t \in Thread, NEW r \in BOOLEAN, Refuse(t, r) \/ Raise(t, r)
  PROVE  DeliveryInv'
<1>1. /\ UNCHANGED <<skipMode, events>>
      /\ pc[t] = "loaded" /\ ~skipMode
      /\ Current(t) \in DOMAIN events /\ Current(t) \in EventId
      /\ pc' \in {[pc EXCEPT ![t] = "refused"], [pc EXCEPT ![t] = "idle"]}
      /\ \A s \in Thread \ {t} : todo'[s] = todo[s] /\ loaded'[s] = loaded[s]
      /\ pc'[t] = "refused" => todo' = todo /\ loaded' = loaded
  BY CurrentEvent DEF Refuse, Raise, Abort, TypeOK
<1>2. \A s \in Thread : Flying(s)' => Flying(s) /\ Current(s)' = Current(s) /\ loaded'[s] = loaded[s]
  BY <1>1 DEF Current, Flying, TypeOK
<1>3. \A s \in Thread : pc'[s] = "accepted" <=> pc[s] = "accepted"
  BY <1>1 DEF TypeOK
<1>4. \A e \in EventId : /\ accepted[e] \in Nat
                         /\ accepted'[e] \in {accepted[e], accepted[e] + 1}
                         /\ accepted'[e] # accepted[e] => e \in untold' /\ e = Current(t)
                         /\ e \in untold => e \in untold'
  BY <1>1 DEF Refuse, Raise, Reached, TypeOK
<1>5. DOMAIN events \subseteq EventId
  BY LenProperties, BoundAssumption DEF TypeOK, EventId
<1>6. SentWasAccepted' /\ StampedWasAccepted'
  BY <1>1, <1>4, <1>5 DEF DeliveryInv, SentWasAccepted, StampedWasAccepted
<1>7. AcceptanceIsRecorded'
  BY <1>1, <1>2, <1>3, <1>4, <1>5 DEF DeliveryInv, AcceptanceIsRecorded, Flying
<1>8. LoadedIsHonest'
  BY <1>1, <1>2 DEF DeliveryInv, LoadedIsHonest
<1>9. AcceptedIsCounted'
  <2> SUFFICES ASSUME NEW s \in Thread, pc'[s] = "accepted"
               PROVE  accepted'[Current(s)'] > 0
    BY DEF AcceptedIsCounted
  <2>1. pc[s] = "accepted" /\ Current(s)' = Current(s)
    BY <1>2, <1>3 DEF Flying
  <2>2. Current(s) \in EventId
    BY <2>1, CurrentEvent DEF TypeOK
  <2> QED BY <1>4, <2>1, <2>2 DEF DeliveryInv, AcceptedIsCounted
<1> QED BY <1>1, <1>4, <1>6, <1>7, <1>8, <1>9 DEF DeliveryInv, NothingUnqueuedAccepted, SkipIsSilent

\* What a commit changes, outside its own thread: one row of the table.
LEMMA CommitRows ==
  ASSUME TypeOK, NEW t \in Thread, NEW new \in Row, Commit(t, new), Flying(t)
  PROVE  /\ DOMAIN events' = DOMAIN events
         /\ Current(t) \in DOMAIN events /\ Current(t) \in EventId
         /\ \A e \in DOMAIN events : e # Current(t) => events'[e] = events[e]
         /\ events'[Current(t)] = Flush(events[Current(t)], loaded[t], new)
         /\ loaded[t] \in Row /\ events[Current(t)] \in Row
         /\ \A s \in Thread : Flying(s)' => /\ s # t /\ Flying(s) /\ pc'[s] = pc[s]
                                           /\ Current(s)' = Current(s) /\ loaded'[s] = loaded[s]
         /\ \A s \in Thread : s # t => pc'[s] = pc[s] /\ Current(s)' = Current(s)
<1>1. /\ Current(t) \in DOMAIN events /\ Current(t) \in EventId
      /\ events[Current(t)] \in Row
  BY CurrentEvent DEF TypeOK, Flying
<1> QED BY <1>1 DEF TypeOK, Commit, Flying, Current

\* Writing a row back tells of the message taken.
LEMMA CommitDelivery ==
  ASSUME TypeOK, DeliveryInv, NEW t \in Thread, NEW new \in Row, Commit(t, new), Flying(t),
         UNCHANGED <<skipMode, accepted, untold>>,
         new.status = "sent" => new.sentAt /\ pc[t] = "accepted",
         pc[t] = "accepted" => new.sentAt,
         ~new.sentAt /\ loaded[t].sentAt => skipMode,
         new.sentAt /\ ~loaded[t].sentAt => pc[t] = "accepted"
  PROVE  DeliveryInv'
<1> DEFINE c == Current(t)
<1>1. /\ DOMAIN events' = DOMAIN events
      /\ c \in DOMAIN events /\ c \in EventId
      /\ \A e \in DOMAIN events : e # c => events'[e] = events[e]
      /\ events'[c].status \in {new.status, events[c].status}
      /\ events'[c].sentAt = IF new.sentAt # loaded[t].sentAt THEN new.sentAt ELSE events[c].sentAt
      /\ loaded[t].sentAt => events[c].sentAt
  BY CommitRows, FlushRow DEF DeliveryInv, LoadedIsHonest
<1>2. /\ \A s \in Thread : Flying(s)' => /\ s # t /\ Flying(s) /\ pc'[s] = pc[s]
                                       /\ Current(s)' = Current(s) /\ loaded'[s] = loaded[s]
      /\ \A s \in Thread : s # t => pc'[s] = pc[s] /\ Current(s)' = Current(s)
  BY CommitRows
<1>3. DOMAIN events \subseteq EventId
  BY LenProperties, BoundAssumption DEF TypeOK, EventId
<1>4. /\ new.sentAt \in BOOLEAN /\ loaded[t].sentAt \in BOOLEAN /\ events[c].sentAt \in BOOLEAN
      /\ events'[c].sentAt \in BOOLEAN
  BY <1>1, CommitRows DEF Row
<1> HIDE DEF c
<1>5. pc[t] = "accepted" => accepted[c] > 0 /\ ~skipMode /\ events'[c].sentAt
  BY <1>1, <1>3, <1>4 DEF DeliveryInv, AcceptedIsCounted, SkipIsSilent, c
<1>6. SentWasAccepted'
  BY <1>1, <1>5 DEF DeliveryInv, SentWasAccepted
<1>7. StampedWasAccepted'
  BY <1>1, <1>4, <1>5 DEF DeliveryInv, StampedWasAccepted
<1>8. \A e \in DOMAIN events : events[e].sentAt /\ accepted[e] > 0 => events'[e].sentAt
  BY <1>1, <1>3, <1>4 DEF DeliveryInv, SkipIsSilent
<1>9. AcceptanceIsRecorded'
  <2> SUFFICES ASSUME NEW e \in DOMAIN events, accepted[e] > 0, ~events'[e].sentAt, e \notin untold
               PROVE  \E s \in Thread : pc'[s] = "accepted" /\ Current(s)' = e
    BY <1>1 DEF AcceptanceIsRecorded
  <2>1. PICK s \in Thread : pc[s] = "accepted" /\ Current(s) = e
    BY <1>8 DEF DeliveryInv, AcceptanceIsRecorded
  <2>2. s # t
    BY <1>5, <2>1 DEF c
  <2> QED BY <1>2, <2>1, <2>2
<1>10. LoadedIsHonest'
  <2> SUFFICES ASSUME NEW s \in Thread, Flying(s)'
               PROVE  loaded'[s].status \in Open /\ (loaded'[s].sentAt => events'[Current(s)'].sentAt)
    BY DEF LoadedIsHonest
  <2>1. Flying(s) /\ Current(s)' = Current(s) /\ loaded'[s] = loaded[s]
    BY <1>2
  <2>2. Current(s) \in DOMAIN events
    BY <2>1, CurrentEvent DEF TypeOK, Flying
  <2>3. loaded[s].status \in Open /\ (loaded[s].sentAt => events[Current(s)].sentAt)
    BY <2>1 DEF DeliveryInv, LoadedIsHonest
  <2>4. events[Current(s)].sentAt => accepted[Current(s)] > 0
    BY <2>2 DEF DeliveryInv, StampedWasAccepted
  <2> QED BY <1>8, <2>1, <2>2, <2>3, <2>4
<1>11. AcceptedIsCounted'
  BY <1>2 DEF DeliveryInv, AcceptedIsCounted, Flying
<1> QED BY <1>1, <1>6, <1>7, <1>9, <1>10, <1>11 DEF DeliveryInv, NothingUnqueuedAccepted, SkipIsSilent

\* A crash leaves what its threads knew untold.
LEMMA CrashDelivery ==
  ASSUME TypeOK, DeliveryInv, NEW P \in Process, Crash(P)
  PROVE  DeliveryInv'
<1>1. /\ UNCHANGED <<skipMode, events, accepted>>
      /\ \A s \in Thread : pc'[s] = IF s \in P THEN "idle" ELSE pc[s]
      /\ \A s \in Thread : s \notin P => Current(s)' = Current(s) /\ loaded'[s] = loaded[s]
  BY DEF Crash, Current
<1>2. DOMAIN events \subseteq EventId
  BY LenProperties, BoundAssumption DEF TypeOK, EventId
<1>3. AcceptanceIsRecorded'
  <2> SUFFICES ASSUME NEW e \in DOMAIN events, accepted[e] > 0, ~events[e].sentAt, e \notin untold'
               PROVE  \E s \in Thread : pc'[s] = "accepted" /\ Current(s)' = e
    BY <1>1 DEF AcceptanceIsRecorded
  <2>1. e \notin untold /\ \A s \in P : ~(pc[s] = "accepted" /\ Current(s) = e)
    BY <1>2 DEF Crash
  <2>2. PICK s \in Thread : pc[s] = "accepted" /\ Current(s) = e
    BY <2>1 DEF DeliveryInv, AcceptanceIsRecorded
  <2> QED BY <1>1, <2>1, <2>2
<1>4. LoadedIsHonest' /\ AcceptedIsCounted'
  BY <1>1 DEF DeliveryInv, LoadedIsHonest, AcceptedIsCounted, Flying
<1> QED BY <1>1, <1>3, <1>4 DEF DeliveryInv, SentWasAccepted, StampedWasAccepted,
                          NothingUnqueuedAccepted, SkipIsSilent

\* Every step of a dispatch keeps the invariant.
LEMMA DispatchDelivery ==
  ASSUME TypeOK, DeliveryInv, NEW t \in Thread, Dispatch(t)
  PROVE  DeliveryInv'
<1>1. loaded[t] \in Row
  BY DEF TypeOK
<1>2. CASE Finish(t)
  BY <1>2, QuietDelivery DEF Finish, Current, Flying, TypeOK
<1>3. CASE CommitSkipped(t)
  <2> DEFINE new == [loaded[t] EXCEPT !.status = "skipped", !.error = "skip", !.sentAt = FALSE]
  <2>1. /\ new \in Row /\ new.status = "skipped" /\ new.sentAt = FALSE
    BY <1>1, <1>3 DEF Row, Status
  <2>2. Commit(t, new) /\ Flying(t) /\ pc[t] = "loaded" /\ skipMode /\ UNCHANGED <<skipMode, accepted, untold>>
    BY <1>3 DEF CommitSkipped, Flying
  <2> HIDE DEF new
  <2> QED BY <2>1, <2>2, CommitDelivery
<1>4. CASE CommitSent(t)
  <2> DEFINE new == [loaded[t] EXCEPT !.status = "sent", !.sentAt = TRUE, !.error = "none"]
  <2>1. /\ new \in Row /\ new.status = "sent" /\ new.sentAt = TRUE
    BY <1>1, <1>4 DEF Row, Status
  <2>2. Commit(t, new) /\ Flying(t) /\ pc[t] = "accepted" /\ UNCHANGED <<skipMode, accepted, untold>>
    BY <1>4 DEF CommitSent, Flying
  <2> HIDE DEF new
  <2> QED BY <2>1, <2>2, CommitDelivery
<1>5. CASE CommitFailed(t)
  <2> DEFINE more == loaded[t].retries + 1
             new == [loaded[t] EXCEPT !.status = "failed", !.error = "refused", !.retries = more]
  <2>1. more \in Nat BY <1>1 DEF Row
  <2>2. /\ Commit(t, new) /\ Flying(t) /\ pc[t] = "refused" /\ UNCHANGED <<skipMode, accepted, untold>>
    BY <1>5 DEF CommitFailed, Flying
  <2> HIDE DEF more
  <2>3. /\ new \in Row /\ new.status = "failed" /\ new.sentAt = loaded[t].sentAt
    BY <1>1, <2>1 DEF Row, Status
  <2> HIDE DEF new
  <2> QED BY <2>2, <2>3, CommitDelivery
<1>6. CASE RejectFailed(t)
  BY <1>6, QuietDelivery DEF RejectFailed, Abort, Current, Flying, TypeOK
<1> QED BY <1>2, <1>3, <1>4, <1>5, <1>6, LoadDelivery, AcceptDelivery, ErrorDelivery
           DEF Dispatch, Deliver

\* So does every step.
LEMMA NextDelivery == TypeOK /\ DeliveryInv /\ [Next]_vars => DeliveryInv'
<1> SUFFICES ASSUME TypeOK, DeliveryInv, [Next]_vars PROVE DeliveryInv'
  OBVIOUS
<1>1. ASSUME NEW w \in Worker, StartTasks(w) PROVE DeliveryInv'
  BY <1>1, QuietDelivery DEF StartTasks, Current, Flying, TypeOK, Thread
<1>2. ASSUME NEW c \in Cron, SendPending(c) PROVE DeliveryInv'
  <2>1. /\ pc[c] = "idle" /\ pc' = [pc EXCEPT ![c] = "dispatch"]
        /\ \A t \in Thread : t # c => todo'[t] = todo[t]
        /\ UNCHANGED <<skipMode, events, loaded, accepted, untold>>
    BY <1>2 DEF SendPending, TypeOK
  <2> QED BY <2>1, QuietDelivery DEF Current, Flying, TypeOK
<1>3. CASE UNCHANGED vars
  BY <1>3, QuietDelivery DEF vars, Current, Flying
<1> QED BY <1>1, <1>2, <1>3, QueueDelivery, DispatchDelivery, CrashDelivery DEF Next

\* Nothing is mailed at first.
LEMMA InitDelivery == Init => DeliveryInv
BY DEF Init, DeliveryInv, SentWasAccepted, AcceptanceIsRecorded, LoadedIsHonest, Flying,
       AcceptedIsCounted, StampedWasAccepted, NothingUnqueuedAccepted, SkipIsSilent

\* The invariant holds in every reachable state.
LEMMA DeliveryCorrect == Spec => []DeliveryInv
BY InitDelivery, NextDelivery, TypeCorrect, PTL DEF Spec

\* A row marked sent was taken by the provider, for any number of threads,
\* processes and crashes and any order of their commits.
THEOREM SentWasAcceptedHolds == Spec => []SentWasAccepted
<1>1. DeliveryInv => SentWasAccepted BY DEF DeliveryInv
<1> QED BY <1>1, DeliveryCorrect, PTL

\* A message the provider took is never forgotten by the table unless a crash
\* or a false error report swallowed the answer.
THEOREM AcceptanceIsRecordedHolds == Spec => []AcceptanceIsRecorded
<1>1. DeliveryInv => AcceptanceIsRecorded BY DEF DeliveryInv
<1> QED BY <1>1, DeliveryCorrect, PTL

-----------------------------------------------------------------------------
(* The outbox implements its contract.                                      *)

\* A step after which no message was taken and no settled event has come open
\* is a step of the contract, or a stutter.
LEMMA QuietSettles ==
  ASSUME TypeOK', DeliveryInv', accepted' = accepted, Settled \subseteq Settled'
  PROVE  [Contract!Next]_<<accepted, Settled>>
<1>1. DOMAIN events' \subseteq EventId
  BY LenProperties, BoundAssumption DEF TypeOK, EventId
<1> DEFINE S == Settled' \ Settled
<1>2. S \in SUBSET EventId /\ S \cap Settled = {} /\ Settled' = Settled \cup S
  BY <1>1 DEF Settled
<1>3. \A e \in S : accepted[e] > 0
  BY DEF Settled, DeliveryInv, SentWasAccepted
<1>4. Contract!Settle(S)
  BY <1>2, <1>3 DEF Contract!Settle
<1> QED BY <1>2, <1>4 DEF Contract!Next

\* Mailing an open event, which may settle it, is a step of the contract.
LEMMA MailIsContract ==
  ASSUME NEW e \in EventId, e \notin Settled,
         accepted' = [accepted EXCEPT ![e] = @ + 1],
         Settled \subseteq Settled', Settled' \subseteq Settled \cup {e}
  PROVE  [Contract!Next]_<<accepted, Settled>>
<1>1. Settled' \in {Settled, Settled \cup {e}}
  OBVIOUS
<1> QED BY <1>1 DEF Contract!Next, Contract!Mail

\* Settled events stay settled while the table keeps their rows and no thread
\* takes off with them.
LEMMA SettledStays ==
  ASSUME DOMAIN events \subseteq DOMAIN events',
         \A e \in Settled : events'[e].status = "sent",
         \A t \in Thread : Flying(t)' => \/ Flying(t) /\ Current(t)' = Current(t)
                                       \/ Current(t)' \notin Settled
  PROVE  Settled \subseteq Settled'
BY DEF Settled, InFlight, Flying, Current

\* A thread in flight keeps its event from being settled.
LEMMA FlyingIsOpen ==
  ASSUME NEW t \in Thread, Flying(t)
  PROVE  Current(t) \notin Settled
BY DEF Settled, InFlight, Flying, Current

\* Steps that change neither the table nor the history and put no thread in
\* flight on an event that was settled.
LEMMA IdleSettles ==
  ASSUME TypeOK', DeliveryInv', UNCHANGED <<skipMode, events, accepted>>,
         \A t \in Thread : Flying(t)' => \/ Flying(t) /\ Current(t)' = Current(t)
                                       \/ Current(t)' \notin Settled
  PROVE  [Contract!Next]_<<accepted, Settled>>
<1>1. \A e \in Settled : events'[e].status = "sent"
  BY DEF Settled
<1> QED BY <1>1, SettledStays, QuietSettles

\* Queueing an email settles nothing.
LEMMA QueueSettles ==
  ASSUME TypeOK, TypeOK', DeliveryInv', NEW w \in Worker, NEW k \in Key, QueueEmail(w, k)
  PROVE  [Contract!Next]_<<accepted, Settled>>
<1>1. \A t \in Thread : Flying(t)' => Flying(t) /\ Current(t)' = Current(t)
  BY DEF QueueEmail, InsertEvent, DuplicateEvent, Flying, Current, TypeOK, Thread
<1>2. CASE InsertEvent(w, k)
  <2>1. /\ DOMAIN events \subseteq DOMAIN events' /\ \A e \in DOMAIN events : events'[e] = events[e]
        /\ accepted' = accepted
    BY <1>2, InsertRows DEF QueueEmail
  <2>2. \A e \in Settled : events'[e].status = "sent"
    BY <2>1 DEF Settled
  <2> QED BY <1>1, <2>1, <2>2, SettledStays, QuietSettles
<1>3. CASE DuplicateEvent(w, k)
  BY <1>1, <1>3, IdleSettles DEF QueueEmail, DuplicateEvent
<1> QED BY <1>2, <1>3 DEF QueueEmail

\* A commit settles at most what its thread mailed before.
LEMMA CommitSettles ==
  ASSUME TypeOK, TypeOK', DeliveryInv', NEW t \in Thread, NEW new \in Row,
         Commit(t, new), Flying(t), accepted' = accepted
  PROVE  [Contract!Next]_<<accepted, Settled>>
<1>1. /\ DOMAIN events' = DOMAIN events
      /\ \A e \in DOMAIN events : e # Current(t) => events'[e] = events[e]
      /\ \A s \in Thread : Flying(s)' => Flying(s) /\ Current(s)' = Current(s)
  BY CommitRows
<1>2. \A e \in Settled : events'[e].status = "sent"
  BY <1>1, FlyingIsOpen DEF Settled
<1> QED BY <1>1, <1>2, SettledStays, QuietSettles

\* The provider took a message: the thread stays in flight, or was the last.
LEMMA MailSettles ==
  ASSUME TypeOK, NEW t \in Thread, Flying(t), UNCHANGED events,
         accepted' = [accepted EXCEPT ![Current(t)] = @ + 1],
         \A s \in Thread : s # t => pc'[s] = pc[s] /\ todo'[s] = todo[s],
         Flying(t)' => Current(t)' = Current(t)
  PROVE  [Contract!Next]_<<accepted, Settled>>
<1>1. Current(t) \in EventId /\ Current(t) \notin Settled
  BY CurrentEvent, FlyingIsOpen DEF TypeOK, Flying
<1>2. \A s \in Thread : Flying(s)' => Flying(s) /\ Current(s)' = Current(s)
  BY DEF Flying, Current
<1>3. Settled \subseteq Settled'
  BY <1>2 DEF Settled, InFlight, Flying, Current
<1>4. Settled' \subseteq Settled \cup {Current(t)}
  BY DEF Settled, InFlight, Flying, Current
<1> QED BY <1>1, <1>3, <1>4, MailIsContract

\* A dispatch is a step of the contract or a stutter.
LEMMA DispatchSettles ==
  ASSUME TypeOK, TypeOK', DeliveryInv, DeliveryInv', NEW t \in Thread, Dispatch(t)
  PROVE  [Contract!Next]_<<accepted, Settled>>
<1>1. loaded[t] \in Row
  BY DEF TypeOK
<1>2. CASE LoadEvent(t)
  <2>1. UNCHANGED <<skipMode, events, accepted>> /\ pc[t] = "dispatch"
    BY <1>2 DEF LoadEvent
  <2>2. \A s \in Thread : s # t => pc'[s] = pc[s] /\ todo'[s] = todo[s]
    BY <1>2 DEF LoadEvent, TypeOK
  <2>3. Flying(t)' => Current(t)' = Current(t) /\ events[Current(t)].status \in Open
    BY <1>2 DEF LoadEvent, TypeOK, Flying, Current
  <2>4. Flying(t)' => Current(t)' \notin Settled
    BY <2>3 DEF Settled, Open
  <2> QED BY <2>1, <2>2, <2>4, IdleSettles DEF Flying, Current
<1>3. CASE Finish(t)
  BY <1>3, IdleSettles DEF Finish, Flying, Current, TypeOK
<1>4. CASE CommitSkipped(t)
  <2> DEFINE new == [loaded[t] EXCEPT !.status = "skipped", !.error = "skip", !.sentAt = FALSE]
  <2>1. new \in Row BY <1>1 DEF Row, Status
  <2>2. Commit(t, new) /\ Flying(t) /\ accepted' = accepted BY <1>4 DEF CommitSkipped, Flying
  <2> QED BY <2>1, <2>2, CommitSettles
<1>5. CASE Accept(t)
  BY <1>5, MailSettles DEF Accept, Flying, Current, TypeOK
<1>6. ASSUME NEW r \in BOOLEAN, Refuse(t, r) \/ Raise(t, r)
      PROVE  [Contract!Next]_<<accepted, Settled>>
  <2>1. /\ UNCHANGED events /\ Flying(t)
        /\ \A s \in Thread : s # t => pc'[s] = pc[s] /\ todo'[s] = todo[s]
        /\ Flying(t)' => Current(t)' = Current(t)
    BY <1>6 DEF Refuse, Raise, Abort, Flying, Current, TypeOK
  <2>2. CASE r
    BY <1>6, <2>1, <2>2, MailSettles DEF Refuse, Raise, Reached
  <2>3. CASE ~r
    BY <1>6, <2>1, <2>3, IdleSettles DEF Refuse, Raise, Reached, Flying, Current
  <2> QED BY <2>2, <2>3
<1>7. CASE CommitSent(t)
  <2> DEFINE new == [loaded[t] EXCEPT !.status = "sent", !.sentAt = TRUE, !.error = "none"]
  <2>1. new \in Row BY <1>1 DEF Row, Status
  <2>2. Commit(t, new) /\ Flying(t) /\ accepted' = accepted BY <1>7 DEF CommitSent, Flying
  <2> QED BY <2>1, <2>2, CommitSettles
<1>8. CASE CommitFailed(t)
  <2> DEFINE more == loaded[t].retries + 1
             new == [loaded[t] EXCEPT !.status = "failed", !.error = "refused", !.retries = more]
  <2>1. more \in Nat BY <1>1 DEF Row
  <2>2. Commit(t, new) /\ Flying(t) /\ accepted' = accepted BY <1>8 DEF CommitFailed, Flying
  <2> HIDE DEF more
  <2>3. new \in Row BY <1>1, <2>1 DEF Row, Status
  <2> QED BY <2>2, <2>3, CommitSettles
<1>9. CASE RejectFailed(t)
  BY <1>9, IdleSettles DEF RejectFailed, Abort, Flying, Current, TypeOK
<1> QED BY <1>2, <1>3, <1>4, <1>5, <1>6, <1>7, <1>8, <1>9 DEF Dispatch, Deliver

\* So is every step.
LEMMA NextSettles ==
  TypeOK /\ TypeOK' /\ DeliveryInv /\ DeliveryInv' /\ [Next]_vars
    => [Contract!Next]_<<accepted, Settled>>
<1> SUFFICES ASSUME TypeOK, TypeOK', DeliveryInv, DeliveryInv', [Next]_vars
             PROVE  [Contract!Next]_<<accepted, Settled>>
  OBVIOUS
<1>1. ASSUME NEW w \in Worker, StartTasks(w) PROVE [Contract!Next]_<<accepted, Settled>>
  BY <1>1, IdleSettles DEF StartTasks, Current, Flying, TypeOK, Thread
<1>2. ASSUME NEW c \in Cron, SendPending(c) PROVE [Contract!Next]_<<accepted, Settled>>
  <2>1. /\ pc' = [pc EXCEPT ![c] = "dispatch"]
        /\ \A t \in Thread : t # c => todo'[t] = todo[t]
        /\ UNCHANGED <<skipMode, events, accepted>>
    BY <1>2 DEF SendPending, TypeOK
  <2> QED BY <2>1, IdleSettles DEF Current, Flying, TypeOK
<1>3. ASSUME NEW P \in Process, Crash(P) PROVE [Contract!Next]_<<accepted, Settled>>
  BY <1>3, IdleSettles DEF Crash, Current, Flying
<1>4. CASE UNCHANGED vars
  BY <1>4, IdleSettles DEF vars, Current, Flying
<1> QED BY <1>1, <1>2, <1>3, <1>4, QueueSettles, DispatchSettles DEF Next

\* The initial state is one of the contract.
LEMMA InitSettles == Init => Contract!Init
BY DEF Init, Contract!Init, Settled

\* The outbox implements its contract: an event is mailed only while it is
\* open, it settles only after a copy was taken, and it stays settled.
THEOREM ImplementsContractHolds == Spec => ImplementsContract
<1>1. Spec => Contract!Init /\ [][Contract!Next]_<<accepted, Settled>>
  BY InitSettles, NextSettles, TypeCorrect, DeliveryCorrect, PTL DEF Spec
<1> QED BY <1>1 DEF ImplementsContract, Contract!Spec

-----------------------------------------------------------------------------
(* The counters of the rows.  A lost update can only make a retry counter    *)
(* too small if no thread in flight holds too large a one.                   *)

\* The counter a thread will write back, plus one at most, is small enough too.
LoadedNotOvercounted ==
  \A t \in Thread : Flying(t) => loaded[t].retries <= failures[Current(t)]

\* The inductive invariant of the counters.
CountInv == RetriesNotOvercounted /\ LoadedNotOvercounted

\* Steps that leave the table and its failures alone and put no thread in flight.
LEMMA QuietCounts ==
  ASSUME CountInv, UNCHANGED <<events, failures>>,
         \A t \in Thread : Flying(t)' => /\ Flying(t) /\ Current(t)' = Current(t)
                                        /\ loaded'[t] = loaded[t]
  PROVE  CountInv'
<1>1. LoadedNotOvercounted'
  BY DEF CountInv, LoadedNotOvercounted
<1> QED BY <1>1 DEF CountInv, RetriesNotOvercounted

\* An INSERT adds a row that was never retried.
LEMMA QueueCounts ==
  ASSUME TypeOK, CountInv, NEW w \in Worker, NEW k \in Key, QueueEmail(w, k)
  PROVE  CountInv'
<1>1. \A t \in Thread : Flying(t)' => /\ Flying(t) /\ Current(t)' = Current(t)
                                      /\ loaded'[t] = loaded[t] /\ Current(t) \in DOMAIN events
  BY CurrentEvent DEF QueueEmail, InsertEvent, DuplicateEvent, Flying, Current, TypeOK, Thread
<1>2. UNCHANGED failures
  BY DEF QueueEmail
<1>3. CASE InsertEvent(w, k)
  <2> DEFINE new == Len(events) + 1
  <2>1. /\ DOMAIN events' = DOMAIN events \cup {new} /\ new \notin DOMAIN events
        /\ \A e \in DOMAIN events : events'[e] = events[e]
        /\ events'[new] = NewRow(Trunc[k])
        /\ new \in EventId
    BY <1>3, InsertRows
  <2> HIDE DEF new
  <2>2. events'[new].retries = 0 /\ failures[new] \in Nat
    BY <2>1 DEF NewRow, TypeOK
  <2>3. RetriesNotOvercounted'
    BY <1>2, <2>1, <2>2 DEF CountInv, RetriesNotOvercounted
  <2> QED BY <1>1, <1>2, <2>3 DEF CountInv, LoadedNotOvercounted
<1>4. CASE DuplicateEvent(w, k)
  BY <1>1, <1>2, <1>4, QuietCounts DEF DuplicateEvent
<1> QED BY <1>3, <1>4 DEF QueueEmail

\* A commit counts on from what it loaded.
LEMMA CommitCounts ==
  ASSUME TypeOK, CountInv, NEW t \in Thread, NEW new \in Row, Commit(t, new), Flying(t),
         new.key = loaded[t].key,
         \/ new.retries = loaded[t].retries /\ failures' = failures
         \/ /\ new.retries = loaded[t].retries + 1
            /\ failures' = [failures EXCEPT ![Current(t)] = @ + 1]
  PROVE  CountInv'
<1> DEFINE c == Current(t)
<1>1. /\ DOMAIN events' = DOMAIN events
      /\ c \in DOMAIN events /\ c \in EventId
      /\ \A e \in DOMAIN events : e # c => events'[e] = events[e]
      /\ loaded[t] \in Row /\ events[c] \in Row
      /\ events'[c].key = events[c].key
      /\ events'[c].retries = IF new.retries # loaded[t].retries THEN new.retries ELSE events[c].retries
      /\ \A s \in Thread : Flying(s)' => /\ Flying(s) /\ Current(s)' = Current(s)
                                         /\ loaded'[s] = loaded[s]
  BY CommitRows, FlushRow
<1>2. /\ loaded[t].retries <= failures[c] /\ events[c].retries <= failures[c]
      /\ loaded[t].retries \in Nat /\ events[c].retries \in Nat /\ failures[c] \in Nat
  BY <1>1 DEF CountInv, LoadedNotOvercounted, RetriesNotOvercounted, TypeOK, Row
<1>3. \A e \in EventId : failures'[e] \in {failures[e], failures[e] + 1} /\ failures[e] \in Nat
  BY <1>1 DEF TypeOK
<1>4. failures'[c] = IF new.retries = loaded[t].retries THEN failures[c] ELSE failures[c] + 1
  BY <1>1, <1>2 DEF TypeOK
<1>5. DOMAIN events \subseteq EventId
  BY LenProperties, BoundAssumption DEF TypeOK, EventId
<1> HIDE DEF c
<1>6. RetriesNotOvercounted'
  <2> SUFFICES ASSUME NEW e \in DOMAIN events PROVE events'[e].retries <= failures'[e]
    BY <1>1 DEF RetriesNotOvercounted
  <2>1. events[e] \in Row
    BY ElementOfSeq, LenProperties DEF TypeOK
  <2>2. events[e].retries <= failures[e] /\ events[e].retries \in Nat
    BY <2>1 DEF CountInv, RetriesNotOvercounted, Row
  <2> QED BY <1>1, <1>2, <1>3, <1>4, <1>5, <2>2
<1>7. LoadedNotOvercounted'
  <2> SUFFICES ASSUME NEW s \in Thread, Flying(s)' PROVE loaded'[s].retries <= failures'[Current(s)']
    BY DEF LoadedNotOvercounted
  <2>1. Flying(s) /\ Current(s)' = Current(s) /\ loaded'[s] = loaded[s]
    BY <1>1
  <2>2. Current(s) \in EventId /\ loaded[s].retries \in Nat
    BY <2>1, CurrentEvent DEF TypeOK, Flying, Row
  <2>3. loaded[s].retries <= failures[Current(s)]
    BY <2>1 DEF CountInv, LoadedNotOvercounted
  <2> QED BY <1>3, <2>1, <2>2, <2>3
<1> QED BY <1>6, <1>7 DEF CountInv

\* A dispatch loads a row that is not overcounted, and commits one.
LEMMA DispatchCounts ==
  ASSUME TypeOK, CountInv, NEW t \in Thread, Dispatch(t)
  PROVE  CountInv'
<1>1. loaded[t] \in Row
  BY DEF TypeOK
<1>2. CASE LoadEvent(t)
  <2>1. UNCHANGED <<events, failures>> /\ pc[t] = "dispatch" /\ todo[t] # <<>>
    BY <1>2 DEF LoadEvent
  <2>2. CASE events[Current(t)].status \in Open
    <3>1. /\ loaded' = [loaded EXCEPT ![t] = events[Current(t)]]
          /\ pc' = [pc EXCEPT ![t] = "loaded"] /\ todo' = todo
      BY <1>2, <2>2 DEF LoadEvent
    <3>2. Current(t) \in DOMAIN events
      BY <2>1, CurrentEvent
    <3>3. LoadedNotOvercounted'
      BY <2>1, <3>1, <3>2 DEF CountInv, LoadedNotOvercounted, RetriesNotOvercounted, Flying,
                              Current, TypeOK
    <3> QED BY <2>1, <3>3 DEF CountInv, RetriesNotOvercounted
  <2>3. CASE events[Current(t)].status \notin Open
    <3>1. UNCHANGED <<pc, loaded>> /\ todo' = [todo EXCEPT ![t] = Tail(todo[t])]
      BY <1>2, <2>3 DEF LoadEvent
    <3> QED BY <2>1, <3>1, QuietCounts DEF Flying, Current, TypeOK
  <2> QED BY <2>2, <2>3
<1>3. CASE Finish(t) \/ Deliver(t) \/ RejectFailed(t)
  <2>1. UNCHANGED <<events, failures>>
    BY <1>3 DEF Finish, Deliver, Accept, Refuse, Raise, RejectFailed
  <2>2. \A s \in Thread : Flying(s)' => /\ Flying(s) /\ Current(s)' = Current(s)
                                        /\ loaded'[s] = loaded[s]
    BY <1>3 DEF Finish, Deliver, Accept, Refuse, Raise, RejectFailed, Abort, Flying, Current, TypeOK
  <2> QED BY <2>1, <2>2, QuietCounts
<1>4. CASE CommitSkipped(t)
  <2> DEFINE new == [loaded[t] EXCEPT !.status = "skipped", !.error = "skip", !.sentAt = FALSE]
  <2>1. /\ new \in Row /\ new.key = loaded[t].key /\ new.retries = loaded[t].retries
        /\ Commit(t, new) /\ Flying(t) /\ failures' = failures
    BY <1>1, <1>4 DEF Row, Status, CommitSkipped, Flying
  <2> HIDE DEF new
  <2> QED BY <2>1, CommitCounts
<1>5. CASE CommitSent(t)
  <2> DEFINE new == [loaded[t] EXCEPT !.status = "sent", !.sentAt = TRUE, !.error = "none"]
  <2>1. /\ new \in Row /\ new.key = loaded[t].key /\ new.retries = loaded[t].retries
        /\ Commit(t, new) /\ Flying(t) /\ failures' = failures
    BY <1>1, <1>5 DEF Row, Status, CommitSent, Flying
  <2> HIDE DEF new
  <2> QED BY <2>1, CommitCounts
<1>6. CASE CommitFailed(t)
  <2> DEFINE more == loaded[t].retries + 1
             new == [loaded[t] EXCEPT !.status = "failed", !.error = "refused", !.retries = more]
  <2>1. more \in Nat BY <1>1 DEF Row
  <2>2. /\ Commit(t, new) /\ Flying(t)
        /\ failures' = [failures EXCEPT ![Current(t)] = @ + 1]
    BY <1>6 DEF CommitFailed, Flying
  <2>3. more = loaded[t].retries + 1
    OBVIOUS
  <2> HIDE DEF more
  <2>4. new \in Row /\ new.key = loaded[t].key /\ new.retries = more
    BY <1>1, <2>1 DEF Row, Status
  <2> HIDE DEF new
  <2> QED BY <2>2, <2>3, <2>4, CommitCounts
<1> QED BY <1>2, <1>3, <1>4, <1>5, <1>6 DEF Dispatch

\* Every step keeps the counters.
LEMMA NextCounts == TypeOK /\ CountInv /\ [Next]_vars => CountInv'
<1> SUFFICES ASSUME TypeOK, CountInv, [Next]_vars PROVE CountInv'
  OBVIOUS
<1>1. ASSUME NEW w \in Worker, StartTasks(w) PROVE CountInv'
  BY <1>1, QuietCounts DEF StartTasks, Current, Flying, TypeOK, Thread
<1>2. ASSUME NEW c \in Cron, SendPending(c) PROVE CountInv'
  <2>1. /\ pc[c] = "idle" /\ pc' = [pc EXCEPT ![c] = "dispatch"]
        /\ \A t \in Thread : t # c => todo'[t] = todo[t]
        /\ UNCHANGED <<events, loaded, failures>>
    BY <1>2 DEF SendPending, TypeOK
  <2> QED BY <2>1, QuietCounts DEF Current, Flying, TypeOK
<1>3. ASSUME NEW P \in Process, Crash(P) PROVE CountInv'
  BY <1>3, QuietCounts DEF Crash, Current, Flying
<1>4. CASE UNCHANGED vars
  BY <1>4, QuietCounts DEF vars, Current, Flying
<1> QED BY <1>1, <1>2, <1>3, <1>4, QueueCounts, DispatchCounts DEF Next

\* It holds in every reachable state.
LEMMA CountsCorrect == Spec => []CountInv
<1>1. Init => CountInv
  BY DEF Init, CountInv, RetriesNotOvercounted, LoadedNotOvercounted, Flying
<1> QED BY <1>1, NextCounts, TypeCorrect, PTL DEF Spec

\* The retry counter never claims more attempts than failed, however many
\* dispatches overlap: their lost updates only make it too small.
THEOREM RetriesNotOvercountedHolds == Spec => []RetriesNotOvercounted
<1>1. CountInv => RetriesNotOvercounted BY DEF CountInv
<1> QED BY <1>1, CountsCorrect, PTL

-----------------------------------------------------------------------------
(* The copies of a message.  While a row is open each thread that took the   *)
(* provider's acceptance still holds it; once the row is settled only those  *)
(* that had loaded it can add a copy.                                        *)

\* The threads that may yet mail the event, and those that just did.
Ready(e)  == {t \in Thread : pc[t] = "loaded" /\ Current(t) = e}
Mailed(e) == {t \in Thread : pc[t] = "accepted" /\ Current(t) = e}

Allowed(n) == Cardinality(Thread) * n

\* What an open event was mailed before its last reopening is paid for by that,
\* and what a settled one may be mailed yet is paid for too.
Within(e) ==
  IF events[e].status \in Open
    THEN accepted[e] <= Allowed(failures[e] + crashes) + faults + Cardinality(Mailed(e))
    ELSE accepted[e] + Cardinality(Ready(e)) <= Allowed(failures[e] + crashes + 1) + faults

CopyInv == \A e \in DOMAIN events : Within(e)

\* Sets of threads are finite.
LEMMA FewerThreads ==
  ASSUME NEW S \in SUBSET Thread, NEW R \in SUBSET S
  PROVE  /\ IsFiniteSet(S) /\ Cardinality(S) \in Nat /\ Cardinality(R) \in Nat
         /\ Cardinality(R) <= Cardinality(S) /\ Cardinality(S) <= Cardinality(Thread)
         /\ Cardinality(Thread) \in Nat
<1>1. IsFiniteSet(Thread)
  BY SetsAssumption DEF Thread
<1>2. IsFiniteSet(S)
  BY <1>1, FS_Subset
<1> QED
  BY <1>1, <1>2, FS_Subset, FS_CardinalityType

\* Each reopening allows for one copy more per thread.
LEMMA AllowedGrows ==
  ASSUME NEW n \in Nat
  PROVE  /\ Allowed(n) \in Nat /\ Cardinality(Thread) \in Nat
         /\ Allowed(n + 1) = Allowed(n) + Cardinality(Thread)
<1>1. Cardinality(Thread) \in Nat
  BY FewerThreads
<1>2. \A c \in Nat : c * n \in Nat /\ c * (n + 1) = c * n + c
  OBVIOUS
<1> QED
  BY <1>1, <1>2 DEF Allowed

\* A thread is at one place.
LEMMA ReadyOrMailed ==
  ASSUME NEW e
  PROVE  /\ Cardinality(Ready(e)) \in Nat /\ Cardinality(Mailed(e)) \in Nat
         /\ Cardinality(Ready(e)) + Cardinality(Mailed(e)) <= Cardinality(Thread)
<1>1. /\ Ready(e) \in SUBSET Thread /\ Mailed(e) \in SUBSET Thread
      /\ Ready(e) \cup Mailed(e) \in SUBSET Thread /\ Ready(e) \cap Mailed(e) = {}
  BY DEF Ready, Mailed
<1>2. Cardinality(Ready(e) \cup Mailed(e)) = Cardinality(Ready(e)) + Cardinality(Mailed(e))
  <2>1. IsFiniteSet(Ready(e)) /\ IsFiniteSet(Mailed(e))
    BY <1>1, FewerThreads
  <2>2. Cardinality(Ready(e)) \in Nat /\ Cardinality(Mailed(e)) \in Nat
    BY <2>1, FS_CardinalityType
  <2>3. Cardinality(Ready(e) \cap Mailed(e)) = 0
    BY <1>1, FS_EmptySet
  <2>4. Cardinality(Ready(e) \cup Mailed(e)) =
          Cardinality(Ready(e)) + Cardinality(Mailed(e)) - Cardinality(Ready(e) \cap Mailed(e))
    BY <2>1, FS_Union
  <2> QED
    BY <2>2, <2>3, <2>4
<1> QED
  BY <1>1, <1>2, FewerThreads

\* Steps that neither open nor settle an event: what they mail is an error's, no
\* thread that mailed an open event is lost, and none loads a settled one.
LEMMA CalmCopies ==
  ASSUME TypeOK, NEW e \in EventId, Within(e), TypeOK',
         events'[e].status = events[e].status, failures'[e] = failures[e], crashes' = crashes,
         accepted'[e] + faults <= accepted[e] + faults',
         IF events[e].status \in Open THEN Mailed(e) \subseteq Mailed(e)'
                                      ELSE Ready(e)' \subseteq Ready(e)
  PROVE  Within(e)'
<1>1. /\ accepted[e] \in Nat /\ accepted'[e] \in Nat /\ faults \in Nat /\ faults' \in Nat
      /\ failures[e] + crashes \in Nat
  BY DEF TypeOK
<1>2. /\ Mailed(e)' \in SUBSET Thread /\ Mailed(e) \in SUBSET Thread
      /\ Ready(e)' \in SUBSET Thread /\ Ready(e) \in SUBSET Thread
  BY DEF Mailed, Ready
<1>3. Allowed(failures[e] + crashes) \in Nat /\ Allowed(failures[e] + crashes + 1) \in Nat
  BY <1>1, AllowedGrows
<1>4. /\ Allowed(failures'[e] + crashes') = Allowed(failures[e] + crashes)
      /\ Allowed(failures'[e] + crashes' + 1) = Allowed(failures[e] + crashes + 1)
  OBVIOUS
<1>5. CASE events[e].status \in Open
  <2>1. /\ Cardinality(Mailed(e)) <= Cardinality(Mailed(e)')
        /\ Cardinality(Mailed(e)) \in Nat /\ Cardinality(Mailed(e)') \in Nat
    BY <1>2, <1>5, FewerThreads
  <2>2. accepted[e] <= Allowed(failures[e] + crashes) + faults + Cardinality(Mailed(e))
    BY <1>5 DEF Within
  <2>3. accepted'[e] <= Allowed(failures[e] + crashes) + faults' + Cardinality(Mailed(e)')
    BY <1>1, <1>3, <2>1, <2>2
  <2> QED
    BY <1>4, <1>5, <2>3 DEF Within, Allowed
<1>6. CASE events[e].status \notin Open
  <2>1. /\ Cardinality(Ready(e)') <= Cardinality(Ready(e))
        /\ Cardinality(Ready(e)) \in Nat /\ Cardinality(Ready(e)') \in Nat
    BY <1>2, <1>6, FewerThreads
  <2>2. accepted[e] + Cardinality(Ready(e)) <= Allowed(failures[e] + crashes + 1) + faults
    BY <1>6 DEF Within
  <2>3. accepted'[e] + Cardinality(Ready(e)') <= Allowed(failures[e] + crashes + 1) + faults'
    BY <1>1, <1>3, <2>1, <2>2
  <2> QED
    BY <1>4, <1>6, <2>3 DEF Within, Allowed
<1> QED
  BY <1>5, <1>6

\* An event that is settled, or opened again by a failure or a crash, may have
\* lost every thread that mailed it.
LEMMA TurnCopies ==
  ASSUME TypeOK, NEW e \in EventId, Within(e), TypeOK',
         accepted'[e] = accepted[e], faults' = faults, Ready(e)' \subseteq Ready(e),
         \/ failures'[e] + crashes' = failures[e] + crashes + 1
         \/ /\ failures'[e] + crashes' = failures[e] + crashes
            /\ events'[e].status \notin Open
  PROVE  Within(e)'
<1> DEFINE n == failures[e] + crashes
           N == Cardinality(Thread)
<1>1. /\ accepted[e] \in Nat /\ faults \in Nat /\ n \in Nat
      /\ failures'[e] + crashes' \in Nat
  BY DEF TypeOK
<1>2. /\ Mailed(e)' \in SUBSET Thread /\ Ready(e)' \in SUBSET Thread /\ Ready(e) \in SUBSET Thread
  BY DEF Mailed, Ready
<1>3. /\ Allowed(n) \in Nat /\ Allowed(n + 1) = Allowed(n) + N /\ N \in Nat
      /\ Allowed(n + 1 + 1) = Allowed(n + 1) + N
  BY <1>1, AllowedGrows
<1>4. /\ Cardinality(Ready(e)') <= Cardinality(Ready(e))
      /\ Cardinality(Ready(e)) \in Nat /\ Cardinality(Ready(e)') \in Nat
      /\ Cardinality(Mailed(e)') \in Nat /\ Cardinality(Mailed(e)) \in Nat
      /\ Cardinality(Ready(e)) + Cardinality(Mailed(e)) <= N
  BY <1>2, FewerThreads, ReadyOrMailed
<1>5. accepted[e] + Cardinality(Ready(e)) <= Allowed(n + 1) + faults
  BY <1>1, <1>3, <1>4 DEF Within
<1>6. accepted'[e] + Cardinality(Ready(e)') <= Allowed(n + 1) + faults'
  BY <1>1, <1>3, <1>4, <1>5
<1>7. CASE failures'[e] + crashes' = n + 1
  <2>1. accepted'[e] <= Allowed(n + 1) + faults' + Cardinality(Mailed(e)')
    BY <1>1, <1>3, <1>4, <1>6
  <2>2. accepted'[e] + Cardinality(Ready(e)') <= Allowed(n + 1 + 1) + faults'
    BY <1>1, <1>3, <1>4, <1>6
  <2> QED
    BY <1>7, <2>1, <2>2 DEF Within, Allowed
<1>8. CASE failures'[e] + crashes' = n /\ events'[e].status \notin Open
  BY <1>6, <1>8 DEF Within, Allowed
<1> QED
  BY <1>7, <1>8

\* Steps that leave the table alone, load nothing and lose no thread that mailed.
LEMMA QuietCopies ==
  ASSUME TypeOK, CopyInv, TypeOK', UNCHANGED <<events, failures, crashes>>,
         \A e \in EventId : accepted'[e] + faults <= accepted[e] + faults',
         \A s \in Thread :
           /\ pc'[s] = "loaded" => pc[s] = "loaded" /\ Current(s)' = Current(s)
           /\ pc[s] = "accepted" => pc'[s] = "accepted" /\ Current(s)' = Current(s)
  PROVE  CopyInv'
<1> SUFFICES ASSUME NEW e \in DOMAIN events PROVE Within(e)'
  BY DEF CopyInv
<1>1. e \in EventId /\ Within(e)
  BY LenProperties, BoundAssumption DEF TypeOK, EventId, CopyInv
<1>2. Mailed(e) \subseteq Mailed(e)' /\ Ready(e)' \subseteq Ready(e)
  BY DEF Mailed, Ready
<1> QED
  BY <1>1, <1>2, CalmCopies

\* A new row was never mailed.
LEMMA QueueCopies ==
  ASSUME TypeOK, NothingUnqueuedAccepted, CopyInv, TypeOK',
         NEW w \in Worker, NEW k \in Key, QueueEmail(w, k)
  PROVE  CopyInv'
<1>1. /\ UNCHANGED <<failures, crashes, accepted, faults>>
      /\ \A s \in Thread :
           /\ pc'[s] = "loaded" => pc[s] = "loaded" /\ Current(s)' = Current(s)
           /\ pc[s] = "accepted" => pc'[s] = "accepted" /\ Current(s)' = Current(s)
  BY DEF QueueEmail, InsertEvent, DuplicateEvent, Current, TypeOK, Thread
<1>2. \A e \in EventId : accepted'[e] + faults <= accepted[e] + faults'
  BY <1>1 DEF TypeOK
<1>3. CASE DuplicateEvent(w, k)
  BY <1>1, <1>2, <1>3, QuietCopies DEF DuplicateEvent
<1>4. CASE InsertEvent(w, k)
  <2> DEFINE new == Len(events) + 1
  <2>1. /\ DOMAIN events' = DOMAIN events \cup {new}
        /\ \A e \in DOMAIN events : events'[e] = events[e]
        /\ events'[new] = NewRow(Trunc[k]) /\ new \in EventId \ DOMAIN events
    BY <1>4, InsertRows
  <2> HIDE DEF new
  <2>2. ASSUME NEW e \in DOMAIN events PROVE Within(e)'
    <3>1. e \in EventId /\ Within(e)
      BY LenProperties, BoundAssumption DEF TypeOK, EventId, CopyInv
    <3>2. Mailed(e) \subseteq Mailed(e)' /\ Ready(e)' \subseteq Ready(e)
      BY <1>1 DEF Mailed, Ready
    <3> QED
      BY <1>1, <1>2, <2>1, <3>1, <3>2, CalmCopies
  <2>3. ASSUME NEW e \in DOMAIN events', e \notin DOMAIN events PROVE Within(e)'
    <3>1. e \in EventId /\ accepted'[e] = 0 /\ events'[e].status \in Open
      BY <1>1, <2>1, <2>3 DEF NothingUnqueuedAccepted, NewRow, Open
    <3>2. failures'[e] + crashes' \in Nat /\ faults' \in Nat
      BY <3>1 DEF TypeOK
    <3>3. Allowed(failures'[e] + crashes') \in Nat
      BY <3>2, AllowedGrows
    <3>4. Mailed(e)' \in SUBSET Thread
      BY DEF Mailed
    <3>5. Cardinality(Mailed(e)') \in Nat
      BY <3>4, FewerThreads
    <3>6. accepted'[e] <= Allowed(failures'[e] + crashes') + faults' + Cardinality(Mailed(e)')
      BY <3>1, <3>2, <3>3, <3>5
    <3> QED
      BY <3>1, <3>6 DEF Within, Allowed
  <2> QED
    BY <2>2, <2>3 DEF CopyInv
<1> QED
  BY <1>3, <1>4 DEF QueueEmail

\* Only an open row is loaded to be mailed.
LEMMA LoadCopies ==
  ASSUME TypeOK, CopyInv, TypeOK', NEW t \in Thread, LoadEvent(t)
  PROVE  CopyInv'
<1> SUFFICES ASSUME NEW e \in DOMAIN events PROVE Within(e)'
  BY DEF CopyInv, LoadEvent
<1>1. e \in EventId /\ Within(e)
  BY LenProperties, BoundAssumption DEF TypeOK, EventId, CopyInv
<1>2. /\ UNCHANGED <<events, accepted, failures, faults, crashes>> /\ pc[t] = "dispatch"
      /\ \A s \in Thread : s # t => pc'[s] = pc[s] /\ Current(s)' = Current(s)
      /\ pc'[t] # "accepted"
      /\ pc'[t] = "loaded" => events[Current(t)].status \in Open /\ Current(t)' = Current(t)
  BY DEF LoadEvent, Current, TypeOK
<1>3. accepted'[e] + faults <= accepted[e] + faults'
  BY <1>1, <1>2 DEF TypeOK
<1>4. Mailed(e) \subseteq Mailed(e)'
  BY <1>2 DEF Mailed
<1>5. events[e].status \notin Open => Ready(e)' \subseteq Ready(e)
  BY <1>2 DEF Ready
<1> QED
  BY <1>1, <1>2, <1>3, <1>4, <1>5, CalmCopies

\* Who is ready mails, once.
LEMMA AcceptCopies ==
  ASSUME TypeOK, CopyInv, TypeOK', NEW t \in Thread, Accept(t)
  PROVE  CopyInv'
<1> DEFINE c == Current(t)
<1> SUFFICES ASSUME NEW e \in DOMAIN events PROVE Within(e)'
  BY DEF CopyInv, Accept
<1>1. e \in EventId /\ Within(e)
  BY LenProperties, BoundAssumption DEF TypeOK, EventId, CopyInv
<1>2. /\ UNCHANGED <<events, failures, faults, crashes, todo>>
      /\ pc[t] = "loaded" /\ pc'[t] = "accepted"
      /\ \A s \in Thread : s # t => pc'[s] = pc[s]
      /\ accepted' = [accepted EXCEPT ![c] = @ + 1]
  BY DEF Accept, TypeOK
<1>3. /\ Ready(e)' = Ready(e) \ {t}
      /\ Mailed(e)' = IF c = e THEN Mailed(e) \cup {t} ELSE Mailed(e)
  BY <1>2 DEF Ready, Mailed, Current
<1>4. CASE c # e
  <2>1. accepted'[e] = accepted[e]
    BY <1>1, <1>2, <1>4 DEF TypeOK
  <2>2. accepted'[e] + faults <= accepted[e] + faults'
    BY <1>1, <1>2, <2>1 DEF TypeOK
  <2> QED
    BY <1>1, <1>2, <1>3, <1>4, <2>2, CalmCopies
<1>5. CASE c = e
  <2>1. accepted'[e] = accepted[e] + 1
    BY <1>1, <1>2, <1>5 DEF TypeOK
  <2>2. t \in Ready(e) /\ t \notin Mailed(e)
    BY <1>2, <1>5 DEF Ready, Mailed
  <2>3. /\ Ready(e) \in SUBSET Thread /\ Mailed(e) \in SUBSET Thread
    BY DEF Ready, Mailed
  <2>4. /\ IsFiniteSet(Ready(e)) /\ Cardinality(Ready(e)) \in Nat
        /\ IsFiniteSet(Mailed(e)) /\ Cardinality(Mailed(e)) \in Nat
    BY <2>3, FewerThreads
  <2>5. /\ Cardinality(Ready(e)') = Cardinality(Ready(e)) - 1
        /\ Cardinality(Mailed(e)') = Cardinality(Mailed(e)) + 1
    <3>1. Cardinality(Ready(e) \ {t}) = Cardinality(Ready(e)) - 1
      BY <2>2, <2>4, FS_RemoveElement
    <3>2. Cardinality(Mailed(e) \cup {t}) = Cardinality(Mailed(e)) + 1
      BY <2>2, <2>4, FS_AddElement
    <3> QED
      BY <1>3, <1>5, <3>1, <3>2
  <2>6. /\ accepted[e] \in Nat /\ faults \in Nat /\ failures[e] + crashes \in Nat
    BY <1>1 DEF TypeOK
  <2>7. Allowed(failures[e] + crashes) \in Nat /\ Allowed(failures[e] + crashes + 1) \in Nat
    BY <2>6, AllowedGrows
  <2>8. /\ Allowed(failures'[e] + crashes') = Allowed(failures[e] + crashes)
        /\ Allowed(failures'[e] + crashes' + 1) = Allowed(failures[e] + crashes + 1)
    BY <1>2
  <2>9. CASE events[e].status \in Open
    <3>1. accepted[e] <= Allowed(failures[e] + crashes) + faults + Cardinality(Mailed(e))
      BY <1>1, <2>9 DEF Within
    <3>2. accepted'[e] <= Allowed(failures[e] + crashes) + faults + Cardinality(Mailed(e)')
      BY <2>1, <2>4, <2>5, <2>6, <2>7, <3>1
    <3> QED
      BY <1>2, <2>8, <2>9, <3>2 DEF Within, Allowed
  <2>10. CASE events[e].status \notin Open
    <3>1. accepted[e] + Cardinality(Ready(e)) <= Allowed(failures[e] + crashes + 1) + faults
      BY <1>1, <2>10 DEF Within
    <3>2. accepted'[e] + Cardinality(Ready(e)') <= Allowed(failures[e] + crashes + 1) + faults
      BY <2>1, <2>4, <2>5, <2>6, <2>7, <3>1
    <3> QED
      BY <1>2, <2>8, <2>10, <3>2 DEF Within, Allowed
  <2> QED
    BY <2>9, <2>10
<1> QED
  BY <1>4, <1>5

\* A commit settles its event or tells of a failure.
LEMMA CommitCopies ==
  ASSUME TypeOK, CopyInv, TypeOK', LoadedIsHonest, NEW t \in Thread, NEW new \in Row,
         Commit(t, new), Flying(t), UNCHANGED <<accepted, faults, crashes>>,
         \/ new.status \notin Open /\ failures' = failures
         \/ failures' = [failures EXCEPT ![Current(t)] = @ + 1]
  PROVE  CopyInv'
<1> DEFINE c == Current(t)
<1>1. /\ DOMAIN events' = DOMAIN events
      /\ c \in DOMAIN events /\ c \in EventId
      /\ \A e \in DOMAIN events : e # c => events'[e] = events[e]
      /\ new.status # loaded[t].status => events'[c].status = new.status
      /\ loaded[t].status \in Open
  BY CommitRows, FlushRow DEF LoadedIsHonest
<1>2. \A s \in Thread :
        /\ pc'[s] \in {"loaded", "accepted"} => pc'[s] = pc[s] /\ Current(s)' = Current(s)
        /\ s # t => pc'[s] = pc[s] /\ Current(s)' = Current(s)
  BY CommitRows DEF Flying
<1> SUFFICES ASSUME NEW e \in DOMAIN events PROVE Within(e)'
  BY <1>1 DEF CopyInv
<1>3. e \in EventId /\ Within(e)
  BY LenProperties, BoundAssumption DEF TypeOK, EventId, CopyInv
<1>4. Ready(e)' \subseteq Ready(e)
  BY <1>2 DEF Ready
<1>5. CASE e # c
  <2>1. Mailed(e) \subseteq Mailed(e)'
    BY <1>2, <1>5 DEF Mailed
  <2>2. failures'[e] = failures[e] /\ events'[e] = events[e]
    BY <1>1, <1>3, <1>5 DEF TypeOK
  <2>3. accepted'[e] + faults <= accepted[e] + faults'
    BY <1>3 DEF TypeOK
  <2> QED
    BY <1>3, <1>4, <2>1, <2>2, <2>3, CalmCopies
<1>6. CASE e = c
  <2>1. CASE failures' = [failures EXCEPT ![Current(t)] = @ + 1]
    <3>1. failures'[e] + crashes' = failures[e] + crashes + 1
      BY <1>3, <1>6, <2>1 DEF TypeOK
    <3> QED
      BY <1>3, <1>4, <3>1, TurnCopies
  <2>2. CASE new.status \notin Open /\ failures' = failures
    <3>1. events'[e].status \notin Open
      BY <1>1, <1>6, <2>2
    <3> QED
      BY <1>3, <1>4, <2>2, <3>1, TurnCopies
  <2> QED
    BY <2>1, <2>2
<1> QED
  BY <1>5, <1>6

\* A crash may lose every thread that mailed something.
LEMMA CrashCopies ==
  ASSUME TypeOK, CopyInv, TypeOK', NEW P \in Process, Crash(P)
  PROVE  CopyInv'
<1> SUFFICES ASSUME NEW e \in DOMAIN events PROVE Within(e)'
  BY DEF CopyInv, Crash
<1>1. e \in EventId /\ Within(e)
  BY LenProperties, BoundAssumption DEF TypeOK, EventId, CopyInv
<1>2. UNCHANGED <<accepted, faults, failures>> /\ crashes' = crashes + 1
  BY DEF Crash
<1>3. Ready(e)' \subseteq Ready(e)
  BY DEF Crash, Ready, Current
<1>4. failures'[e] + crashes' = failures[e] + crashes + 1
  BY <1>1, <1>2 DEF TypeOK
<1> QED
  BY <1>1, <1>2, <1>3, <1>4, TurnCopies

\* Every step of a dispatch keeps the bound.
LEMMA DispatchCopies ==
  ASSUME TypeOK, DeliveryInv, CopyInv, TypeOK', NEW t \in Thread, Dispatch(t)
  PROVE  CopyInv'
<1>1. loaded[t] \in Row /\ LoadedIsHonest
  BY DEF TypeOK, DeliveryInv
<1>2. CASE Finish(t) \/ RejectFailed(t) \/ \E r \in BOOLEAN : Refuse(t, r) \/ Raise(t, r)
  <2>1. UNCHANGED <<events, failures, crashes>>
    BY <1>2 DEF Finish, RejectFailed, Refuse, Raise
  <2>2. /\ \A s \in Thread : s # t => pc'[s] = pc[s] /\ Current(s)' = Current(s)
        /\ pc[t] # "accepted" /\ pc'[t] # "loaded"
    BY <1>2 DEF Finish, RejectFailed, Refuse, Raise, Abort, Current, TypeOK
  <2>3. \A e \in EventId : accepted'[e] + faults <= accepted[e] + faults'
    <3>1. CASE Finish(t) \/ RejectFailed(t)
      BY <3>1 DEF Finish, RejectFailed, TypeOK
    <3>2. CASE \E r \in BOOLEAN : Refuse(t, r) \/ Raise(t, r)
      <4>1. faults' = faults + 1
        BY <3>2 DEF Refuse, Raise, Fault
      <4>2. \A e \in EventId : accepted'[e] \in {accepted[e], accepted[e] + 1}
        BY <3>2 DEF Refuse, Raise, Reached, TypeOK
      <4>3. faults \in Nat /\ \A e \in EventId : accepted[e] \in Nat
        BY DEF TypeOK
      <4> QED
        BY <4>1, <4>2, <4>3
    <3> QED
      BY <1>2, <3>1, <3>2
  <2> QED
    BY <2>1, <2>2, <2>3, QuietCopies
<1>3. CASE CommitSkipped(t)
  <2> DEFINE new == [loaded[t] EXCEPT !.status = "skipped", !.error = "skip", !.sentAt = FALSE]
  <2>1. /\ new \in Row /\ new.status \notin Open /\ Commit(t, new) /\ Flying(t)
        /\ UNCHANGED <<accepted, faults, crashes, failures>>
    BY <1>1, <1>3 DEF Row, Status, Open, CommitSkipped, Flying
  <2> HIDE DEF new
  <2> QED
    BY <1>1, <2>1, CommitCopies
<1>4. CASE CommitSent(t)
  <2> DEFINE new == [loaded[t] EXCEPT !.status = "sent", !.sentAt = TRUE, !.error = "none"]
  <2>1. /\ new \in Row /\ new.status \notin Open /\ Commit(t, new) /\ Flying(t)
        /\ UNCHANGED <<accepted, faults, crashes, failures>>
    BY <1>1, <1>4 DEF Row, Status, Open, CommitSent, Flying
  <2> HIDE DEF new
  <2> QED
    BY <1>1, <2>1, CommitCopies
<1>5. CASE CommitFailed(t)
  <2> DEFINE more == loaded[t].retries + 1
             new == [loaded[t] EXCEPT !.status = "failed", !.error = "refused", !.retries = more]
  <2>1. more \in Nat
    BY <1>1 DEF Row
  <2>2. /\ Commit(t, new) /\ Flying(t) /\ UNCHANGED <<accepted, faults, crashes>>
        /\ failures' = [failures EXCEPT ![Current(t)] = @ + 1]
    BY <1>5 DEF CommitFailed, Flying
  <2> HIDE DEF more
  <2>3. new \in Row
    BY <1>1, <2>1 DEF Row, Status
  <2> HIDE DEF new
  <2> QED
    BY <1>1, <2>2, <2>3, CommitCopies
<1> QED
  BY <1>2, <1>3, <1>4, <1>5, LoadCopies, AcceptCopies DEF Dispatch, Deliver

\* So does every step.
LEMMA NextCopies == TypeOK /\ DeliveryInv /\ CopyInv /\ TypeOK' /\ [Next]_vars => CopyInv'
<1> SUFFICES ASSUME TypeOK, DeliveryInv, CopyInv, TypeOK', [Next]_vars PROVE CopyInv'
  OBVIOUS
<1>1. ASSUME NEW w \in Worker, NEW k \in Key, QueueEmail(w, k) PROVE CopyInv'
  BY <1>1, QueueCopies DEF DeliveryInv
<1>2. CASE (\E w \in Worker : StartTasks(w)) \/ (\E c \in Cron : SendPending(c)) \/ UNCHANGED vars
  <2>1. UNCHANGED <<events, failures, crashes, accepted, faults>>
    BY <1>2 DEF StartTasks, SendPending, vars
  <2>2. \A s \in Thread :
           /\ pc'[s] = "loaded" => pc[s] = "loaded" /\ Current(s)' = Current(s)
           /\ pc[s] = "accepted" => pc'[s] = "accepted" /\ Current(s)' = Current(s)
    BY <1>2 DEF StartTasks, SendPending, vars, Current, TypeOK, Thread
  <2>3. \A e \in EventId : accepted'[e] + faults <= accepted[e] + faults'
    BY <2>1 DEF TypeOK
  <2> QED
    BY <2>1, <2>2, <2>3, QuietCopies
<1> QED
  BY <1>1, <1>2, DispatchCopies, CrashCopies DEF Next

\* It holds in every reachable state.
LEMMA CopiesCorrect == Spec => []CopyInv
<1>1. Init => CopyInv
  BY DEF Init, CopyInv
<1> QED
  BY <1>1, NextCopies, TypeCorrect, DeliveryCorrect, PTL DEF Spec

\* The copies of a message are bounded by the threads that may overlap and the
\* failures, crashes and false errors, for any number of requests for it.
THEOREM CopiesBoundedHolds == Spec => []CopiesBounded
<1>1. ASSUME TypeOK, CopyInv, NEW e \in DOMAIN events
      PROVE  accepted[e] <= Cardinality(Thread) * (1 + failures[e] + crashes) + faults
  <2> DEFINE n == failures[e] + crashes
  <2>1. e \in EventId
    BY <1>1, LenProperties, BoundAssumption DEF TypeOK, EventId
  <2>2. accepted[e] \in Nat /\ faults \in Nat /\ n \in Nat /\ 1 + failures[e] + crashes = n + 1
    BY <1>1, <2>1 DEF TypeOK
  <2>3. /\ Allowed(n) \in Nat /\ Allowed(n + 1) = Allowed(n) + Cardinality(Thread)
        /\ Cardinality(Thread) \in Nat
    BY <2>2, AllowedGrows
  <2>4. accepted[e] <= Allowed(n + 1) + faults
    BY <1>1, <2>2, <2>3, ReadyOrMailed DEF CopyInv, Within
  <2> QED
    BY <2>2, <2>4 DEF Allowed
<1>2. TypeOK /\ CopyInv => CopiesBounded
  BY <1>1 DEF CopiesBounded
<1> QED
  BY <1>2, TypeCorrect, CopiesCorrect, PTL

-----------------------------------------------------------------------------
(* What the handlers that queue an email rely on.                           *)

\* A row stays in the table, under the key it was inserted with.
KeysStay ==
  DOMAIN events \subseteq DOMAIN events' /\ \A e \in DOMAIN events : events'[e].key = events[e].key

\* A dispatch writes every column but the key.
LEMMA DispatchKeysStay ==
  ASSUME TypeOK, NEW t \in Thread, Dispatch(t)
  PROVE  KeysStay
<1>1. loaded[t] \in Row
  BY DEF TypeOK
<1>2. CASE LoadEvent(t) \/ Finish(t) \/ Deliver(t) \/ RejectFailed(t)
  BY <1>2 DEF LoadEvent, Finish, Deliver, Accept, Refuse, Raise, RejectFailed, KeysStay
<1>3. ASSUME NEW new \in Row, Commit(t, new), Flying(t), new.key = loaded[t].key
      PROVE  KeysStay
  BY <1>3, CommitRows, FlushRow DEF KeysStay
<1>4. CASE CommitSkipped(t)
  <2> DEFINE new == [loaded[t] EXCEPT !.status = "skipped", !.error = "skip", !.sentAt = FALSE]
  <2>1. new \in Row /\ new.key = loaded[t].key /\ Commit(t, new) /\ Flying(t)
    BY <1>1, <1>4 DEF Row, Status, CommitSkipped, Flying
  <2> HIDE DEF new
  <2> QED BY <2>1, <1>3
<1>5. CASE CommitSent(t)
  <2> DEFINE new == [loaded[t] EXCEPT !.status = "sent", !.sentAt = TRUE, !.error = "none"]
  <2>1. new \in Row /\ new.key = loaded[t].key /\ Commit(t, new) /\ Flying(t)
    BY <1>1, <1>5 DEF Row, Status, CommitSent, Flying
  <2> HIDE DEF new
  <2> QED BY <2>1, <1>3
<1>6. CASE CommitFailed(t)
  <2> DEFINE more == loaded[t].retries + 1
             new == [loaded[t] EXCEPT !.status = "failed", !.error = "refused", !.retries = more]
  <2>1. more \in Nat BY <1>1 DEF Row
  <2>2. Commit(t, new) /\ Flying(t)
    BY <1>6 DEF CommitFailed, Flying
  <2> HIDE DEF more
  <2>3. new \in Row /\ new.key = loaded[t].key
    BY <1>1, <2>1 DEF Row, Status
  <2> HIDE DEF new
  <2> QED BY <2>2, <2>3, <1>3
<1> QED BY <1>2, <1>4, <1>5, <1>6 DEF Dispatch

\* An email that was queued once is found under its key ever after, so that the
\* unique column turns a repeated webhook's away, crashes included (emails.py,
\* 219-235).
KeysLast == [][KeysStay]_vars

\* No dispatch, insert or crash takes a key out of the table or changes it.
THEOREM KeysLastHolds == Spec => KeysLast
<1>1. TypeOK /\ [Next]_vars => [KeysStay]_vars
  <2> SUFFICES ASSUME TypeOK, [Next]_vars PROVE KeysStay
    OBVIOUS
  <2>1. ASSUME UNCHANGED events PROVE KeysStay
    BY <2>1 DEF KeysStay
  <2>2. ASSUME NEW w \in Worker, NEW k \in Key, QueueEmail(w, k) PROVE KeysStay
    BY <2>1, <2>2, InsertRows DEF QueueEmail, DuplicateEvent, KeysStay
  <2>3. ASSUME NEW w \in Worker, StartTasks(w) PROVE KeysStay
    BY <2>1, <2>3 DEF StartTasks
  <2>4. ASSUME NEW c \in Cron, SendPending(c) PROVE KeysStay
    BY <2>1, <2>4 DEF SendPending
  <2>5. ASSUME NEW P \in Process, Crash(P) PROVE KeysStay
    BY <2>1, <2>5 DEF Crash
  <2>6. CASE UNCHANGED vars
    BY <2>1, <2>6 DEF vars
  <2> QED BY <2>2, <2>3, <2>4, <2>5, <2>6, DispatchKeysStay DEF Next
<1> QED BY <1>1, TypeCorrect, PTL DEF Spec, KeysLast
=============================================================================
