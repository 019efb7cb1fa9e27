------------------------------- MODULE Reviews -------------------------------
(***************************************************************************)
(* Product reviews: app/reviews.py and its endpoints in app/main.py.  A    *)
(* user has one row, rewritten by every submission; a moderator picks it   *)
(* from the admin list and decides by its id.  Both load the row, assign   *)
(* and commit what differs from the load, with no lock and no version.     *)
(*                                                                         *)
(* One user's row is modelled: a handler touches no other.  heading stands *)
(* for the short columns and body for the text; the public list only reads *)
(* and is not an action.                                                   *)
(***************************************************************************)
EXTENDS Naturals, Orm

CONSTANTS
  Author,        \* requests of the user that submit at the same time
  Moderator,     \* requests of administrators
  Text,          \* what a column of a submission may hold
  NoText,        \* an empty column: no row yet
  MaxDecisions   \* bound: decisions after which none is begun

ASSUME TextAssumption == NoText \notin Text
ASSUME ThreadAssumption == Author \cap Moderator = {}
ASSUME BoundAssumption == MaxDecisions \in Nat

VARIABLES
  row,        \* the product_reviews row
  job,        \* what each request is to assign
  loaded,     \* the row as each request loaded it
  decisions,  \* how many decisions were committed: the source of approved_at
  latest,     \* history: the content of the last committed submission
  overlapped, \* history: two submissions were under way at once
  fresh,      \* history: rejections under way with no approval since their load
  rejected    \* history: such a rejection was the last decision but rejections

vars == <<row, job, loaded, decisions, latest, overlapped, fresh, rejected>>

Thread == Author \cup Moderator
Row == [heading : Text \cup {NoText}, body : Text \cup {NoText},
        status : {"absent", "pending", "approved", "rejected"}, approvedAt : Nat]
Absent == [heading |-> NoText, body |-> NoText, status |-> "absent", approvedAt |-> 0]
Content(r) == <<r.heading, r.body>>

Idle == [at |-> "idle", heading |-> NoText, body |-> NoText, verdict |-> "none"]
Submit   == [at : {"submit"}, heading : Text, body : Text, verdict : {"none"}]
Moderate == [at : {"moderate"}, heading : {NoText}, body : {NoText},
             verdict : {"approved", "rejected"}]

TypeOK ==
  /\ row \in Row
  /\ job \in [Thread -> {Idle} \cup Submit \cup Moderate]
  /\ loaded \in [Thread -> Row]
  /\ decisions \in Nat
  /\ latest \in (Text \cup {NoText}) \X (Text \cup {NoText})
  /\ overlapped \in BOOLEAN
  /\ fresh \subseteq Moderator
  /\ rejected \in BOOLEAN

Init ==
  /\ row = Absent
  /\ job = [t \in Thread |-> Idle]
  /\ loaded = [t \in Thread |-> Absent]
  /\ decisions = 0
  /\ latest = Content(Absent)
  /\ overlapped = FALSE /\ fresh = {} /\ rejected = FALSE

-----------------------------------------------------------------------------
Load(t, j) ==
  /\ job[t] = Idle
  /\ job' = [job EXCEPT ![t] = j]
  /\ loaded' = [loaded EXCEPT ![t] = row]

Finish(t) ==
  /\ job' = [job EXCEPT ![t] = Idle]
  /\ loaded' = [loaded EXCEPT ![t] = Absent]

LoadSubmission(a, h, b) ==
  /\ Load(a, [Idle EXCEPT !.at = "submit", !.heading = h, !.body = b])
  /\ overlapped' = (overlapped \/ \E other \in Author : job[other] # Idle)
  /\ UNCHANGED <<row, decisions, latest, fresh, rejected>>

Submission(a) ==
  [heading |-> job[a].heading, body |-> job[a].body,
   status |-> "pending", approvedAt |-> 0]

\* The INSERT of a first submission, refused if another came first: user_id is
\* unique.
InsertReview(a) ==
  /\ job[a].at = "submit" /\ loaded[a] = Absent
  /\ IF row = Absent
       THEN row' = Submission(a) /\ latest' = Content(row')
       ELSE UNCHANGED <<row, latest>>
  /\ Finish(a)
  /\ UNCHANGED <<decisions, overlapped, fresh, rejected>>

\* A later submission updates the row it loaded.
UpdateReview(a) ==
  /\ job[a].at = "submit" /\ loaded[a] # Absent
  /\ row' = Flush(row, loaded[a], Submission(a))
  /\ latest' = Content(Submission(a))
  /\ Finish(a)
  /\ UNCHANGED <<decisions, overlapped, fresh, rejected>>

\* A moderator has the row's id from the admin list.
LoadDecision(m, verdict) ==
  /\ row # Absent
  /\ decisions < MaxDecisions
  /\ Load(m, [Idle EXCEPT !.at = "moderate", !.verdict = verdict])
  /\ fresh' = IF verdict = "rejected" THEN fresh \cup {m} ELSE fresh
  /\ UNCHANGED <<row, decisions, latest, overlapped, rejected>>

\* Mutant: a rejection takes the date back and leaves the status.
VerdictOnDate(m) ==
  IF job[m].verdict = "approved"
    THEN [loaded[m] EXCEPT !.status = "approved", !.approvedAt = decisions + 1]
    ELSE [loaded[m] EXCEPT !.approvedAt = 0]

\* Mutant: the status is stored as the administrator typed it.
VerdictAsTyped(m) ==
  [loaded[m] EXCEPT !.status = IF job[m].verdict = "approved" THEN "Approved" ELSE "Rejected",
                    !.approvedAt = IF job[m].verdict = "approved" THEN decisions + 1 ELSE 0]

\* What moderate_review assigns to the row it loaded.
Verdict(m) ==
  [loaded[m] EXCEPT !.status = job[m].verdict,
                    !.approvedAt = IF job[m].verdict = "approved" THEN decisions + 1 ELSE 0]

CommitDecision(m) ==
  /\ job[m].at = "moderate"
  /\ row' = Flush(row, loaded[m], Verdict(m))
  /\ decisions' = decisions + 1
  /\ IF job[m].verdict = "approved"
       THEN fresh' = {} /\ rejected' = FALSE
       ELSE rejected' = (rejected \/ m \in fresh) /\ fresh' = fresh \ {m}
  /\ Finish(m)
  /\ UNCHANGED <<latest, overlapped>>

Next ==
  \/ \E a \in Author : \/ \E h, b \in Text : LoadSubmission(a, h, b)
                       \/ InsertReview(a) \/ UpdateReview(a)
  \/ \E m \in Moderator : \/ CommitDecision(m)
                          \/ \E v \in {"approved", "rejected"} : LoadDecision(m, v)

Spec == Init /\ [][Next]_vars

-----------------------------------------------------------------------------
\* A review that was rejected is not on the homepage until some request
\* approves it again, however submissions and other decisions overlap: a
\* rejection counts if no approval was committed between its load and its
\* commit (reviews.py, 146-151).
RejectionSticks == rejected => row.status # "approved"

\* The stored review is the one the user sent last, in all its columns, unless
\* two of his submissions ever overlapped: a decision that loaded the row before
\* a submission does not bring the old text back (reviews.py, 57-76, 146-151).
ContentIsLatest == ~overlapped => Content(row) = latest
=============================================================================
