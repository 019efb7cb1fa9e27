----------------------------- MODULE ReviewsProofs -----------------------------
(***************************************************************************)
(* Theorems about Reviews: what one request's stale row may undo of the    *)
(* others' work, for any number of authors, moderators and decisions.      *)
(*                                                                         *)
(* RejectionSticks needs to know what a rejection under way will write: it *)
(* loaded "approved" if the row is approved now, so it writes its status.  *)
(* ContentIsLatest needs to know that the only author at work loaded the   *)
(* text that is stored now.                                                *)
(***************************************************************************)
EXTENDS Reviews, TLAPS

RejectionsBite ==
  \A m \in fresh : /\ job[m].at = "moderate" /\ job[m].verdict = "rejected"
                   /\ row.status = "approved" => loaded[m].status = "approved"

OneAuthor ==
  ~overlapped =>
    \A a, b \in Author : a # b => job[a] = Idle \/ job[b] = Idle

AuthorIsCurrent ==
  ~overlapped =>
    \A a \in Author : job[a] # Idle => Content(loaded[a]) = Content(row)

IInv ==
  /\ TypeOK
  /\ RejectionSticks /\ RejectionsBite
  /\ ContentIsLatest /\ OneAuthor /\ AuthorIsCurrent

-----------------------------------------------------------------------------
\* The empty table is well typed and satisfies the invariant.
LEMMA InitIInv == Init => IInv
<1> SUFFICES ASSUME Init PROVE IInv
  OBVIOUS
<1>1. TypeOK
  BY DEF Init, TypeOK, Row, Idle, Absent, Content
<1>2. RejectionSticks /\ RejectionsBite /\ ContentIsLatest
  BY DEF Init, RejectionSticks, RejectionsBite, ContentIsLatest
<1>3. OneAuthor /\ AuthorIsCurrent
  BY DEF Init, OneAuthor, AuthorIsCurrent, Thread
<1> QED
  BY <1>1, <1>2, <1>3 DEF IInv

\* A job of a thread is one of the three kinds, told apart by where it is.
LEMMA JobKinds ==
  ASSUME TypeOK, NEW t \in Thread
  PROVE  /\ job[t] = Idle \/ job[t] \in Submit \/ job[t] \in Moderate
         /\ job[t].at = "submit" => job[t] \in Submit
         /\ job[t].at = "moderate" => job[t] \in Moderate
         /\ loaded[t] \in Row
BY DEF TypeOK, Idle, Submit, Moderate

\* The columns of a row a commit writes: those that differ from the load.
LEMMA FlushRow ==
  ASSUME NEW r \in Row, NEW old \in Row, NEW new \in Row
  PROVE  /\ Flush(r, old, new) \in Row
         /\ Flush(r, old, new).status =
              IF new.status # old.status THEN new.status ELSE r.status
         /\ Flush(r, old, new).heading =
              IF new.heading # old.heading THEN new.heading ELSE r.heading
         /\ Flush(r, old, new).body =
              IF new.body # old.body THEN new.body ELSE r.body
BY DEF Flush, Row

\* A submission is a row that waits for a decision.
LEMMA SubmissionRow ==
  ASSUME TypeOK, NEW a \in Author, job[a].at = "submit"
  PROVE  /\ Submission(a) \in Row
         /\ Submission(a).status = "pending"
<1>1. job[a] \in Submit
  BY JobKinds DEF Thread
<1> QED
  BY <1>1 DEF Submission, Row, Submit

\* A verdict changes the status of the row it was passed on, not its text.
LEMMA VerdictRow ==
  ASSUME TypeOK, NEW m \in Moderator, job[m].at = "moderate"
  PROVE  /\ Verdict(m) \in Row
         /\ Verdict(m).status = job[m].verdict
         /\ Verdict(m).heading = loaded[m].heading
         /\ Verdict(m).body = loaded[m].body
         /\ job[m].verdict \in {"approved", "rejected"}
<1>1. loaded[m] \in Row /\ job[m] \in Moderate
  BY JobKinds DEF Thread
<1>2. decisions + 1 \in Nat /\ 0 \in Nat
  BY DEF TypeOK
<1>3. job[m].verdict \in {"approved", "rejected"}
  BY <1>1 DEF Moderate
<1> QED
  BY <1>1, <1>2, <1>3 DEF Verdict, Row
-----------------------------------------------------------------------------
\* A submission that is loaded leaves the row alone.
LEMMA LoadSubmissionKeeps ==
  ASSUME IInv, NEW a \in Author, NEW h \in Text, NEW b \in Text, LoadSubmission(a, h, b)
  PROVE  IInv'
<1> DEFINE j == [Idle EXCEPT !.at = "submit", !.heading = h, !.body = b]
<1>0. TypeOK /\ a \in Thread /\ j \in Submit /\ row \in Row
  BY DEF IInv, TypeOK, Thread, Submit, Idle
<1>1. /\ job[a] = Idle /\ job' = [job EXCEPT ![a] = j] /\ loaded' = [loaded EXCEPT ![a] = row]
      /\ overlapped' = (overlapped \/ \E other \in Author : job[other] # Idle)
      /\ UNCHANGED <<row, decisions, latest, fresh, rejected>>
  BY DEF LoadSubmission, Load
<1> HIDE DEF j
<1>2. TypeOK'
  BY <1>0, <1>1 DEF TypeOK
<1>3. RejectionSticks' /\ ContentIsLatest'
  BY <1>1 DEF IInv, RejectionSticks, ContentIsLatest, Content
<1>4. RejectionsBite'
  <2> SUFFICES ASSUME NEW m \in fresh
               PROVE  /\ job'[m].at = "moderate" /\ job'[m].verdict = "rejected"
                      /\ row.status = "approved" => loaded'[m].status = "approved"
    BY <1>1 DEF RejectionsBite
  <2>1. m \in Moderator /\ m # a
    BY <1>0, ThreadAssumption DEF TypeOK
  <2>2. job'[m] = job[m] /\ loaded'[m] = loaded[m]
    BY <1>0, <1>1, <2>1 DEF TypeOK, Thread
  <2> QED
    BY <2>2 DEF IInv, RejectionsBite
<1>5. ~overlapped' => \A c \in Author : c # a => job'[c] = Idle
  BY <1>0, <1>1 DEF TypeOK, Thread
<1>6. loaded'[a] = row
  BY <1>0, <1>1 DEF TypeOK
<1>7. OneAuthor' /\ AuthorIsCurrent'
  BY <1>1, <1>5, <1>6, Idle' = Idle DEF OneAuthor, AuthorIsCurrent, Content, Idle
<1> QED
  BY <1>2, <1>3, <1>4, <1>7 DEF IInv

\* What committing a submission means for the row, whichever way it goes.
LEMMA SubmissionKeeps ==
  ASSUME IInv, NEW a \in Author, InsertReview(a) \/ UpdateReview(a)
  PROVE  IInv'
<1>0. TypeOK /\ a \in Thread /\ row \in Row /\ job[a].at = "submit" /\ loaded[a] \in Row
  BY JobKinds DEF IInv, TypeOK, Thread, InsertReview, UpdateReview
<1>1. /\ job' = [job EXCEPT ![a] = Idle] /\ loaded' = [loaded EXCEPT ![a] = Absent]
      /\ UNCHANGED <<decisions, overlapped, fresh, rejected>>
  BY DEF InsertReview, UpdateReview, Finish
<1>2. job[a] \in Submit /\ job[a] # Idle
  BY <1>0, JobKinds DEF Submit, Idle
<1>3. Submission(a) \in Row /\ Submission(a).status = "pending"
  BY <1>0, SubmissionRow
<1>4. /\ row' \in Row /\ latest' \in (Text \cup {NoText}) \X (Text \cup {NoText})
      /\ row'.status = "approved" => row.status = "approved"
      /\ ~overlapped => Content(row') = latest'
  <2>1. CASE InsertReview(a)
    BY <2>1, <1>0, <1>3 DEF InsertReview, Content, Row, IInv, TypeOK, ContentIsLatest
  <2>2. CASE UpdateReview(a)
    <3>1. ~overlapped => /\ loaded[a].heading = row.heading
                         /\ loaded[a].body = row.body
      BY <1>2 DEF IInv, AuthorIsCurrent, Content
    <3>2. row' = Flush(row, loaded[a], Submission(a)) /\ latest' = Content(Submission(a))
      BY <2>2 DEF UpdateReview
    <3> QED
      BY <3>1, <3>2, <1>0, <1>3, FlushRow DEF Content, Row
  <2> QED
    BY <2>1, <2>2
<1>5. TypeOK'
  <2>1. Idle \in {Idle} \cup Submit \cup Moderate /\ Absent \in Row
    BY DEF Absent, Row
  <2> QED
    BY <2>1, <1>0, <1>1, <1>4 DEF TypeOK
<1>6. RejectionSticks' /\ ContentIsLatest'
  BY <1>1, <1>4 DEF IInv, RejectionSticks, ContentIsLatest
<1>7. RejectionsBite'
  <2> SUFFICES ASSUME NEW m \in fresh
               PROVE  /\ job'[m].at = "moderate" /\ job'[m].verdict = "rejected"
                      /\ row'.status = "approved" => loaded'[m].status = "approved"
    BY <1>1 DEF RejectionsBite
  <2>1. m \in Moderator /\ m # a
    BY <1>0, ThreadAssumption DEF TypeOK
  <2>2. job'[m] = job[m] /\ loaded'[m] = loaded[m]
    BY <1>0, <1>1, <2>1 DEF TypeOK, Thread
  <2> QED
    BY <1>4, <2>2 DEF IInv, RejectionsBite
<1>8. ~overlapped => \A c \in Author : job'[c] = Idle
  BY <1>0, <1>1, <1>2 DEF IInv, OneAuthor, TypeOK, Thread
<1>9. OneAuthor' /\ AuthorIsCurrent'
  BY <1>1, <1>8 DEF OneAuthor, AuthorIsCurrent, Idle
<1> QED
  BY <1>5, <1>6, <1>7, <1>9 DEF IInv

\* A decision that is loaded notes whether it rejects.
LEMMA LoadDecisionKeeps ==
  ASSUME IInv, NEW m \in Moderator, NEW v \in {"approved", "rejected"}, LoadDecision(m, v)
  PROVE  IInv'
<1> DEFINE j == [Idle EXCEPT !.at = "moderate", !.verdict = v]
<1>0. /\ TypeOK /\ m \in Thread /\ m \notin Author /\ row \in Row
      /\ j \in Moderate /\ j.at = "moderate" /\ j.verdict = v
  BY ThreadAssumption DEF IInv, TypeOK, Thread, Moderate, Idle
<1>1. /\ job[m] = Idle /\ job' = [job EXCEPT ![m] = j] /\ loaded' = [loaded EXCEPT ![m] = row]
      /\ fresh' = IF v = "rejected" THEN fresh \cup {m} ELSE fresh
      /\ UNCHANGED <<row, decisions, latest, overlapped, rejected>>
  BY DEF LoadDecision, Load
<1> HIDE DEF j
<1>2. TypeOK'
  BY <1>0, <1>1 DEF TypeOK
<1>3. RejectionSticks' /\ ContentIsLatest'
  BY <1>1 DEF IInv, RejectionSticks, ContentIsLatest, Content
<1>4. RejectionsBite'
  <2> SUFFICES ASSUME NEW n \in fresh'
               PROVE  /\ job'[n].at = "moderate" /\ job'[n].verdict = "rejected"
                      /\ row.status = "approved" => loaded'[n].status = "approved"
    BY <1>1 DEF RejectionsBite
  <2>1. CASE n = m
    <3>1. m \notin fresh
      BY <1>1 DEF IInv, RejectionsBite, Idle
    <3> QED
      BY <2>1, <3>1, <1>0, <1>1 DEF TypeOK
  <2>2. CASE n # m
    BY <2>2, <1>0, <1>1 DEF IInv, RejectionsBite, TypeOK, Thread
  <2> QED
    BY <2>1, <2>2
<1>5. \A c \in Author : job'[c] = job[c] /\ loaded'[c] = loaded[c]
  BY <1>0, <1>1 DEF TypeOK, Thread
<1>6. OneAuthor' /\ AuthorIsCurrent'
  BY <1>1, <1>5 DEF IInv, OneAuthor, AuthorIsCurrent, Content, Idle
<1> QED
  BY <1>2, <1>3, <1>4, <1>6 DEF IInv

\* A decision writes its status, or keeps one that is the same, and no text.
LEMMA CommitDecisionKeeps ==
  ASSUME IInv, NEW m \in Moderator, CommitDecision(m)
  PROVE  IInv'
<1>0. /\ TypeOK /\ m \in Thread /\ m \notin Author /\ row \in Row
      /\ job[m].at = "moderate" /\ loaded[m] \in Row
  BY ThreadAssumption, JobKinds DEF IInv, TypeOK, Thread, CommitDecision
<1>1. /\ job' = [job EXCEPT ![m] = Idle] /\ loaded' = [loaded EXCEPT ![m] = Absent]
      /\ row' = Flush(row, loaded[m], Verdict(m)) /\ decisions' = decisions + 1
      /\ UNCHANGED <<latest, overlapped>>
  BY DEF CommitDecision, Finish
<1>2. /\ Verdict(m) \in Row /\ Verdict(m).status = job[m].verdict
      /\ Verdict(m).heading = loaded[m].heading /\ Verdict(m).body = loaded[m].body
      /\ job[m].verdict \in {"approved", "rejected"}
  BY <1>0, VerdictRow
<1>3. /\ row' \in Row /\ Content(row') = Content(row)
      /\ row'.status = IF job[m].verdict # loaded[m].status THEN job[m].verdict ELSE row.status
  BY <1>0, <1>1, <1>2, FlushRow DEF Content
<1>4. \A c \in Author : job'[c] = job[c] /\ loaded'[c] = loaded[c]
  BY <1>0, <1>1 DEF TypeOK, Thread
<1>5. OneAuthor' /\ AuthorIsCurrent' /\ ContentIsLatest'
  BY <1>1, <1>3, <1>4 DEF IInv, OneAuthor, AuthorIsCurrent, ContentIsLatest, Content, Idle
<1>6. CASE job[m].verdict = "approved"
  <2>1. fresh' = {} /\ rejected' = FALSE
    BY <1>6 DEF CommitDecision
  <2>2. decisions' \in Nat
    BY <1>0, <1>1 DEF TypeOK
  <2>3. TypeOK'
    BY <2>1, <2>2, <1>0, <1>1, <1>3 DEF TypeOK, Absent, Row
  <2> QED
    BY <2>1, <2>3, <1>5 DEF IInv, RejectionSticks, RejectionsBite
<1>7. CASE job[m].verdict = "rejected"
  <2>1. rejected' = (rejected \/ m \in fresh) /\ fresh' = fresh \ {m}
    BY <1>7 DEF CommitDecision
  <2>2. decisions' \in Nat
    BY <1>0, <1>1 DEF TypeOK
  <2>3. TypeOK'
    BY <2>1, <2>2, <1>0, <1>1, <1>3 DEF TypeOK, Absent, Row
  <2>4. row'.status = "approved" => row.status = "approved" /\ m \notin fresh
    BY <1>3, <1>7 DEF IInv, RejectionsBite
  <2>5. RejectionSticks'
    BY <2>1, <2>4 DEF IInv, RejectionSticks
  <2>6. \A n \in fresh' : n \in fresh /\ job'[n] = job[n] /\ loaded'[n] = loaded[n]
    BY <2>1, <1>0, <1>1 DEF TypeOK, Thread
  <2>7. RejectionsBite'
    BY <2>4, <2>6 DEF IInv, RejectionsBite
  <2> QED
    BY <2>3, <2>5, <2>7, <1>5 DEF IInv
<1> QED
  BY <1>2, <1>6, <1>7

-----------------------------------------------------------------------------
\* Every step keeps the invariant.
LEMMA NextIInv == IInv /\ [Next]_vars => IInv'
<1> SUFFICES ASSUME IInv, [Next]_vars PROVE IInv'
  OBVIOUS
<1>1. ASSUME NEW a \in Author, NEW h \in Text, NEW b \in Text, LoadSubmission(a, h, b)
      PROVE  IInv'
  BY <1>1, LoadSubmissionKeeps
<1>2. ASSUME NEW a \in Author, InsertReview(a) \/ UpdateReview(a) PROVE IInv'
  BY <1>2, SubmissionKeeps
<1>3. ASSUME NEW m \in Moderator, NEW v \in {"approved", "rejected"}, LoadDecision(m, v)
      PROVE  IInv'
  BY <1>3, LoadDecisionKeeps
<1>4. ASSUME NEW m \in Moderator, CommitDecision(m) PROVE IInv'
  BY <1>4, CommitDecisionKeeps
<1>5. CASE UNCHANGED vars
  BY <1>5 DEF vars, IInv, TypeOK, RejectionSticks, RejectionsBite, ContentIsLatest,
              OneAuthor, AuthorIsCurrent, Content, Idle, Submit, Moderate, Row, Thread
<1> QED
  BY <1>1, <1>2, <1>3, <1>4, <1>5 DEF Next

\* The invariant holds in every reachable state.
LEMMA Invariance == Spec => []IInv
BY InitIInv, NextIInv, PTL DEF Spec

\* Every reachable state of the reviews is well typed: a request under way has a
\* submission or a verdict of its kind.
THEOREM TypeCorrect == Spec => []TypeOK
<1>1. IInv => TypeOK
  BY DEF IInv
<1> QED
  BY <1>1, Invariance, PTL

\* A rejected review stays off the homepage until a request approves it again,
\* for any number of submissions and decisions in any order.
THEOREM RejectionSticksHolds == Spec => []RejectionSticks
<1>1. IInv => RejectionSticks
  BY DEF IInv
<1> QED
  BY <1>1, Invariance, PTL

\* No decision brings an older text back: a user whose submissions never overlap
\* finds what was sent last.
THEOREM ContentIsLatestHolds == Spec => []ContentIsLatest
<1>1. IInv => ContentIsLatest
  BY DEF IInv
<1> QED
  BY <1>1, Invariance, PTL
=============================================================================
