# BrainAPI, specified

BrainAPI (`src/app`) is a FastAPI service that sells access to AI providers: it
hands out API keys, admits or refuses requests, forwards them to providers, takes
payments and sends transactional email. This directory holds TLA+ modules that
model the parts of it whose correctness depends on interleaving, failure or
ordering, the TLC configurations that check them on small instances, and TLAPS
proofs that hold for every instance.

## 1. Inventory

The service is one or more uvicorn processes over one SQL database, with an
optional Redis. `def` endpoints and background tasks run on a thread pool, so
two requests interleave at every database statement; `async` endpoints and the
middlewares run on an event loop and interleave at every `await`. Sessions are
created with `autoflush=False` and commit a loaded row column by column.

| component | state it keeps | operations | what is hard | what makes it correct |
|---|---|---|---|---|
| Email outbox (`emails.py`, helpers in `main.py`) | `email_events` rows; background task lists in memory | queue under a dedupe key, dispatch, send-pending, send now | provider call between load and commit, no lock; crash after acceptance; stale commits; ambiguous errors | a row marked sent was accepted; acceptance leaves a trace; only overlapping multiplies copies; the queue drains |
| Keys, accounts, leads (`auth.py`, `leads.py`) | `api_keys`, `signup_leads`, `user_accounts` | signup, rotate, regenerate, revoke, deactivate, mark paid | handlers of several transactions, crash between them; stale rows | dead secrets stay dead; the billing gate is coherent; a key has one owner |
| Admission (`security.py`, `metering.py`, middlewares) | rate windows in memory and in Redis; `usage_events` | authenticate, gate on trial, rate-limit, meter | two reads of one key and a wait behind the second, Redis failover, boundary of the window | a window never admits more than its limit; a retry after the advertised delay; a key that lost its right is worked for only on behalf of requests past the check |
| Token budget (`ai_gateway/limits.py`) | minute counters in memory and in Redis | bound and charge a request | charge before decision, failover in the middle | admitted tokens per minute are bounded |
| AI gateway (`ai_gateway`) | response cache, latency averages, the default profiles the routing file edits | load the routing file, route with fallback, cache | shared cache, truncated keys; a file that fails to load half-way; answers that arrive late | an answer is the answer of this prompt; the best provider is asked first; a request is given up only when everybody who may serve it was tried, or the settings contradict each other |
| Billing (`billing.py`, webhook in `main.py`) | the key's billing columns | order, verify, webhook | redelivery, crash between payment and email; a key that is deactivated or overdue meanwhile | a captured payment ends with a paid key; who wants to pay can |
| Reviews (`reviews.py`) | `product_reviews` | submit, moderate, list | resubmission racing moderation | what is published was approved |
| Passwords and sessions (`auth.py`) | `password_reset_tokens`, password hashes, the signing secrets of each process | request a reset, reset, sign in, refresh | one token used twice at once; a sign-in that commits over a reset; secrets rotated while processes restart | the latest reset wins; uses of a token are bounded; during a rotation only processes not restarted yet refuse a session, and only new ones |
| Automation (`services.py`) | none beyond the request | run steps in order | failure of one step | one result per step |

Not modelled: automation (the steps of one request run in sequence on a context
of its own, and no state outlives it), schema set-up and migrations (idempotent
DDL), usage summaries and launch metrics (read-only), the unmounted
OpenAI-compatible router, the Node email script, static pages and operations
scripts. Of the configuration the routing file, the provider settings and the
signing secrets are modelled, the other settings are constants, and request
validation, which keeps no state, is left out. Of the providers their
capabilities, defaults and errors are modelled and their HTTP calls external.

How the parts meet: every protected request passes `Admission` (which leaves the
limiter's verdict open), `RateLimiter` and, for AI endpoints, `TokenBudget`, and
ends in `Gateway`. `KeyLifecycle` owns the rows `Admission` reads; `Billing`
writes two of their columns and puts rows into the table `EmailOutbox` empties.
They meet only in the database, so each module keeps the tables it is about and
lets the others write them where that matters (`ChangeKey` in `Admission`,
`AdminMark` in `Billing`, `LoadBilling` in `KeyLifecycle`). What one module assumes
of a table that another one writes is stated and proved of the module that writes it
(section 4, "Between the modules"). What all the database modules share is `Orm`;
what the modules on a request's way share is `Servers`.

## 2. Modules and the code they model

`PROJECT.json` maps each definition to its lines. In short:

**`Orm`** - what a SQLAlchemy session of `app/db.py` writes when a loaded row is
committed: `Flush(row, loaded, new)` takes the columns whose new value differs
from the *loaded* one and leaves the others as the table has them. Half of the
races below are decided by it; its mutant `FlushAll` (every column is written)
breaks three properties in three runs.

**`Servers`** - the handlers of requests and the uvicorn process that runs each:
the constants of `Admission`, `RateLimiter` and `TokenBudget`, and their assumption.

**`EmailOutbox`, `OutboxContract`** - `app/emails.py` and the helpers of
`app/main.py`. A row of `events` is an `EmailEvent`; `todo[t]` is the list of
background tasks (or the batch of the send-pending loop) that thread `t` still
has to dispatch; `loaded[t]` the row its session holds. `QueueEmail` is the
INSERT or, on the unique key, the lookup of the row that has it; `StartTasks` the
end of the response; `LoadEvent`, then one of `Accept`, `Refuse`, `Raise`, then
`CommitSent`, `CommitFailed` or `RejectFailed` are `dispatch_transactional_email`
cut at its provider call and commit; `SendPending` selects the oldest queued
rows; `Crash` loses the threads of one process with their lists. `Trunc` is what
the 255-character column leaves of a key. `OutboxContract` is the abstract
specification: an event is mailed while it is open, settles only after it was
mailed, and is then neither mailed again nor reopened.

**`KeyLifecycle`** - `app/auth.py`, `app/leads.py` and the handlers that call
them. A handler is a chain of database transactions, one action each: signup is
check, create key, insert lead, check account, insert account. Handlers whose
commit depends on what they loaded (`CommitRevoke`, `CommitBilling`) are split
into load and commit. Keys and secrets are numbered in order of creation.

**`Passwords`** - the accounts, reset tokens and session tokens of `app/auth.py`.
A sign-in (`LoadLogin`, `CommitLogin`) and a reset (`LoadReset`, `CommitReset`)
each load rows and commit them; `InsertToken` and `MailToken` are the request for
a reset. A session is the secret that signed it and its expiry: `Issue` signs
with the current secret of the process, `Accepts` tries that and the previous
one. `RotateSecret` changes the settings the operator keeps (`env`), which a
process reads when it is restarted (`conf`).

**`Admission`** - the middlewares, `require_api_key` and `app/metering.py`:
`Gate` (first read of the key, trial gate, limiter), `Authorise` (the dependency's
second read), `Work` (the endpoint, which starts only when a thread is free or the
token limiter has answered), `Count` and `Record` (the daily limit and the usage
event, with no await between them, so only other processes run there). A key may
change in each of these gaps. `open` counts the requests past the check in
question when a key lost its right, `late` the work done for it since.

**`RateLimiter`** - `app/security.py` and its part of the middleware: the deque in
memory (`CallMemory`, atomic on its event loop), the sorted set in Redis
(`CallRedis`, `Transact`, `ReadOldest`), and the fallback on any Redis error
(`FallBack`, with the transaction applied or not). Every call has a place in
`log`, which keeps the clock it arrived at (the score of its member in Redis), the
clock it was stamped with in memory, the process and the life of it that served
it, and its fate; a window is the set of the calls it holds, and its oldest entry
the smallest of their stamps. `Kept`, `HasRoom`, `Counted` and `EventsWith` are
`InMemoryRateLimiter.is_allowed`, shared by `CallMemory` and `FallBack`.

**`TokenBudget`** - `app/ai_gateway/limits.py` and `_enforce_ai_token_limits`:
a request over the bound for one is refused (`Fits`); then `AskMemory`, or
`AskRedis`, `IncrBy`, `Decide`; `FallBack`, which counts in the window the process
is in by then. Its names begin with `Budget` where `Admission` has the same one, since
`AdmissionProofs` extends both: a request is admitted, then charged.

**`Billing`** - `app/billing.py` and the Razorpay endpoints: an order is made for a
live key by the customer, behind the gate for overdue keys (`Checkout`), or by
the administrator (`AdminOrder`). Webhook, verify and the administrator's change
go through `LoadKey` and `CommitKey`
(`set_db_api_key_paid`), the first two on to `QueueSuccess`, `QueueInvoice`
(`_schedule_payment_emails`) and `Answer`. The provider (`Capture`,
`DeliverWebhook`, `RepeatWebhook`) is external.

**`Reviews`** - `app/reviews.py`: submission and decision, each a load and a
commit, on the one row of one user.

**`Gateway`** - `app/ai_gateway`. The gateway is built by the first request
(`Receive`) from the routing file as it is then: its shape (none, list, dict),
what it enables and whether it loads. The list form switches profiles of the
shared defaults off before it reads its entries, which is the variable `flags`.
Then the cache lookup, the candidates and their order per mode - the scores are
the code's sums of cost estimate, latency and quality, in integers -, the loop
over providers with its errors (`Route`, `Fail`, `Succeed`, `GiveUp`), the latency
averages, storing and eviction. The dict of the cache is a set of entries, each
with its place in the order of insertion, so that `First` is the one eviction
takes. The sort applies the file's order for the mode once more, also to a forced
provider, so the list it works on (`Listing`) is that order where there is one; it
sorts the places of the candidates in it (`Places`), because neither the settings
nor the file keep a name from being listed, and then asked, twice. `Orders` is the
set of the ways to do that stably, of which there is always exactly one
(`OneOrderHolds`), the empty one if the order leaves out the forced provider.
`EditFile` and `Restart` are the operator's.

Settings are read once, so they are variables that `Init` chooses and nothing
changes (`skipMode`, `redis`) or only a restart does (`conf`, the environment of
`Gateway`). Definitions
commented `Mutant` are wrong variants of a definition next to them. The
specifications never use them; put in its place, each makes the property it is
paired with in `PROJECT.json` fail.

## 3. What the runs check

| run | instance | properties | what it shows |
|---|---|---|---|
| `outbox_safety` | 2 request threads and the job on 2 processes, 2 rows, a short key, one that is cut, the cut one, no key; 1 fault, 1 crash | `TypeOK`, `SentWasAccepted`, `AcceptanceIsRecorded`, `RetriesNotOvercounted`, `CopiesBounded`, `ImplementsContract` | overlapping dispatches, refusals, ambiguous errors and crashes never make the table claim a delivery that did not happen, nor lose one that was committed; a message is mailed at most once per thread for each time its row is open, and once for each false error; the outbox implements its contract |
| `outbox_drains` | 1 thread, the job, 2 rows, 2 faults, 1 crash, fair | `QueueDrains` | a row whose background task died is eventually dispatched |
| `keys_safety` | 2 threads, 2 users, 2 keys, 3 secrets, 1 crash | `TypeOK`, `BillingGateCoherent`, `SoleOwner`, `LeadNamesOwner`, `RecentLeadsBounded`, `DeadSecretsStayDead` | no interleaving of signups, rotations, revocations and billing changes revives a secret, shares a key or leaves a trial key ungated; recent leads never exceed the signups that were past the check together |
| `passwords_safety` | 1 user, 2 processes with a thread each, 2 reset tokens, 2 resets, 3 secrets, 1 session, 3 restarts, 4 ticks | `TypeOK`, `LatestResetWins`, `TokenUsesBounded`, `RefusedOnlyBeforeRestart` | no stale commit brings an old password back; a token makes at most one reset per concurrent handler; a session that has not expired is refused only by a process still to be restarted, and only if the new secret signed it |
| `admission_safety` | 3 requests on 2 processes, limit 2 per day | `TypeOK`, `UsageBounded`, `LateServiceBounded`, `DeadServiceBounded` | the races of the two reads, of the wait behind them and of the metering are bounded: after a trial ends only the requests past the gate are worked for, after a key dies only those past the dependency |
| `rate_failover` | 2 keys with limits 1 and 2 in one bucket, 2 processes, window of 4 ticks, 3 calls, 2 Redis errors, 1 restart | `TypeOK`, `WindowHolds`, `RefusedOnlyWhenCrowded`, `RetryNeedsOneMoreSecond` | one limit per window in use; no refusal without a full window of other calls around it (with 3 calls the bound of two windows in use is out of reach: that a failover adds no more than one limit rests on `WindowHoldsHolds`); one second more than Retry-After is enough without Redis for the key with the larger limit |
| `budget_failover` | 3 handlers on 2 processes, 4 charges, budget 3, sizes 1, 2 and one above the bound of 2 per request, windows of 2 ticks, 4 ticks, so that a window is dropped from memory, 2 errors, 1 restart | `BudgetTypeOK`, `BudgetHolds` | a window admits one budget per counter in use |
| `billing_safety` | 2 payments of one plan for one key, 2 handlers, 1 verify, 1 repeat, 1 change of the key (flag, deactivation or end of the trial), 1 fault (an error while queueing or a crash) | `TypeOK`, `SettledIsPaid`, `CapturedIsPaid`, `CapturedIsInvoiced` | a settled payment left a paid key, and every captured payment gets there, also when the key was deactivated after its order |
| `billing_lostpaid` | 2 payments, 1 change | `PaymentLeavesKeyPaid` (violated) | a payment may lose against an administrator, see Findings |
| `billing_upgrade` | 2 payments, the trial ends, fair customer | `OverdueCanUpgrade` (violated) | who waited until the trial was over cannot order, see Findings |
| `reviews_decisions` | 2 submissions and 2 moderators at once, 2 texts in 2 columns, decisions begun only before the second | `TypeOK`, `RejectionSticks`, `ContentIsLatest` | a rejection is not undone, nor an old text restored, by stale rows |
| `gateway_calls` | the 3 built-in providers, 3 environments, one of which forces a provider and one of which lists a name twice, 5 routing files of which one fails to load and one gives orders with a name that comes twice and without the forced provider, requests of every kind and mode, 3 calls, 2 ticks, 1 edit, 1 restart | `TypeOK`, `CacheHolds`, `AnswerIsFresh`, `AnswerIsOwn`, `BestIsAsked`, `FailsLast` | what is cached is fresh and belongs to the request (up to the cut of long prompts); the better provider is asked first where the file gives no order; a failure means that everyone who may serve the request was tried, or that the file's order leaves out the forced provider |

**Why the bounds are enough.** Every race here is between two actors and the row
or counter they share, so two threads (three where a third can slip between two)
and two rows suffice to exhibit it; two processes distinguish what a process
keeps in memory from what is shared; one crash or error may fall at every point,
and a second adds a repetition and no new order. Counts are chosen so that limits
are reached and exceeded: 3 calls for limits of 1 and 2 in one bucket, sizes that
do not divide the budget, a cache of 2 for 3 answers, a window that ends
inside the time modelled, two rotations so that a secret drops out.
Where a theorem exists (section 4) the property does not depend on them. Every
cfg sets `CHECK_DEADLOCK FALSE`: bounded histories end, and a server with no
request may stop.

**Bounds that belong to the property.** Without Redis a call is decided and stamped
in one step, and `WindowHolds` is about every stretch of `Window` ticks. With it,
a request is stamped before its call of Redis, which decides up to `MaxDelay`
later, so two requests may be trimmed and counted in the opposite order of their
stamps, and `WindowHolds` is about stretches shorter by that delay; no longer one
holds. `RefusedOnlyWhenCrowded` has the same slack with Redis: a call that fell
back late is in the deque with the later clock. `Windows` and `Budgets` grow with
each failure: a fallback to memory adds a limit, by design of the code.

**A discipline of the operator.** `RotateSecret` waits until every process runs with
the last secrets and a session's lifetime has passed since: the code keeps one
previous secret, so a faster second rotation does sign people out. Between a rotation
and its last restart a process that has not been restarted refuses what the others
sign with the new secret; `RefusedOnlyBeforeRestart` says that this is the only case.

**Fairness.** `FairSpec` of `EmailOutbox` has weak fairness on `StartTasks` and
`Dispatch` (a thread that is not killed runs on; provider calls have timeouts)
and on `SendPending`, which `README.md` (405-428) and `run-email-jobs.ps1` have a
scheduler call regularly. `QueueDrains` is checked with `MayRaise = FALSE`: an
error other than `EmailDeliveryError` ends the whole batch, and a row that always
raises starves those behind it. `Spec` of `Billing` has weak fairness on each
handler's steps and on `DeliverWebhook`, because the provider repeats a webhook
until it is answered. `UpgradeSpec` adds a customer who keeps trying to check out and
a provider that captures what was ordered: without a customer who tries, the
counterexample of `billing_upgrade` would show nothing. No crash or error is fair:
each may also never happen.

## 4. What is proved

The proofs are checked by TLAPS, for every value of the constants that satisfies
the modules' ASSUMEs (finite sets of processes, bounds in Nat, the shape of the
tables that name keys and addresses). Each proof module has one lemma per action
or group of actions, `Init => IInv`, `IInv /\ [Next]_vars => IInv'`, and a last
temporal step.

- **`EmailOutboxProofs`**: `TypeCorrect`, `SentWasAcceptedHolds`,
  `AcceptanceIsRecordedHolds`, `ImplementsContractHolds`,
  `RetriesNotOvercountedHolds`, `CopiesBoundedHolds`, `KeysLastHolds`. The first needs that a
  task list only names rows that exist, and that a thread past `LoadEvent` has a
  current row. `DeliveryInv` makes the safety properties inductive with what a
  thread between its load and its commit knows: the row it loaded was open and no
  younger than the table's (`LoadedIsHonest`), and at `accepted` its message was
  taken (`AcceptedIsCounted`). `AcceptanceIsRecorded` rests on `Orm`: the loaded
  row may be older than another thread's `sent_at`, and a failure's commit does
  not name that column. The contract is a step simulation on top of these two. The
  counters need that no thread in flight holds a larger one than its row has
  failures (`LoadedNotOvercounted`): a lost update is then only too small. Copies
  are counted with what may still come (`Within`): an open row has been mailed no
  more than its earlier reopenings pay for, but for the threads at `accepted`; a
  settled one also has to pay for the threads that loaded it while it was open. A
  thread is in at most one of these sets, and a row is reopened by nothing but a
  failure or a crash.
- **`KeyLifecycleProofs`**: `TypeCorrect`, `DeadSecretsStayDeadHolds`,
  `BillingGateCoherentHolds`, `SoleOwnerHolds`, `LeadNamesOwnerHolds`,
  `RecentLeadsBoundedHolds`, `SecretNamesOneKeyHolds`, `OneStandingAtATimeHolds`,
  `ContactLastsHolds`. Type
  correctness needs `References` (what a handler, an account or a lead names
  exists). The gate is inductive because a handler that loaded a gated key loaded
  a coherent row (`LoadedCoherent`), and both columns change together; ownership
  because a key id on its way from creation to an account is carried by one thread
  and owned by no account (`OneClaimant`). `LeadsInv` counts, for an email, its
  recent leads and the signups past the check that may still add one: together
  they are never more than the threads. The statements
  about secrets follow from `StepOneRow`: a step changes one row of the table, and
  its secret only to one never drawn before; a contact lasts because a second lead of
  a key would be a second claim on it.
- **`PasswordsProofs`**: `TypeCorrect`, `LatestResetWinsHolds`,
  `TokenUsesBoundedHolds`, `RefusedOnlyBeforeRestartHolds`. A sign-in's commit
  leaves the hash as it was loaded, and a reset's hash was never in the table
  (`HashesDrawn`), so `Orm` writes only the reset's. A token that was never
  committed as used made no reset (`UnusedIsFresh`), so the resets it makes are
  by threads that had all loaded it by the first commit. A session that has not
  expired was signed with a secret in force (`SignedInForce`), because processes
  are at most one rotation behind (`OneBehind`) and the last signature with the
  older secret is no younger than the last restart (`OldExpire`). A process that is
  behind has the previous secret as its current one, so what it refuses is signed
  with the new one.
- **`AdmissionProofs`**, of what a request passes before it is served, `Admission`
  and `TokenBudget`: `TypeCorrect`, `UsageBoundedHolds`,
  `LateServiceBoundedHolds`, `DeadServiceBoundedHolds`, `BudgetTypeCorrect`,
  `BudgetIsKept`. A process has one request
  between count and insert (`OnePerLoop`), so the requests that meter a key inject
  into the processes, and the events plus those requests stay below the limit plus
  the processes (`MeteredBelow`). What was worked for a key since it lost its right,
  and the requests still past the check in question (`Past`), are together never
  more than were past it at that moment (`LateBelow`): an overdue key gets nobody
  past the gate, and a dead one nobody past the dependency.
  What a window of the token budget let through is a sum over the counters that
  granted it, and sums over sets are out of the provers' reach. The proof therefore
  gives every token a place: each counter in use (the shared one, or a life of a
  process) has `MaxPerMinute` of them, and a charge takes those up to the value
  `INCRBY` returned, or the next free ones in memory (`Booked`). What was granted is
  the number of places taken, so it is bounded by the places there are. With Redis
  that needs that no two charges of a window wait with the same place
  (`ChargesApart`): the values `INCRBY` returns are at least a charge apart. In
  memory it needs that a life which counted for itself did so after a failure of its
  own, and that a window dropped from memory is never charged again.
- **`BillingProofs`**: `TypeCorrect`, `SettledIsPaidHolds`, `PaymentSettlesHolds`,
  `PaidUntilRevokedHolds`, `GateCoherentHolds`. `Sound(h)` says what a
  handler knows; the case that matters is one that loaded its key as paid and so
  writes nothing: the key was settled then, and a settled key stays settled.
  `PaymentSettles` is the exact limit of finding 2: a payment's commit leaves the
  key paid but in the one case that its handler loaded the key as paid and the
  administrator has written the flag. `GateCoherent` holds because a change between
  two coherent rows touches both billing columns or neither (`FlushCoherent`), so
  what `Orm` writes column by column is never half of one commit and half of another.
  `PaidUntilRevoked`: only the administrator's request makes a paid key unpaid, never
  a late or repeated payment, whatever it loaded.
- **`ReviewsProofs`**: `TypeCorrect`, `RejectionSticksHolds`,
  `ContentIsLatestHolds`. `RejectionsBite`: while a rejection that counts is under
  way, an approved row was approved when it was loaded, so its commit names the
  status. `AuthorIsCurrent`: a lone submission still holds the stored text, so
  columns it does not name already have the submitted value.
- **`RateLimiterProofs`**: `TypeCorrect`, `WindowHoldsHolds`,
  `RefusedOnlyWhenCrowdedHolds`, `RetryNeedsOneMoreSecondHolds`. An admitted call
  was counted by one window: the shared one, or that of one life of one process.
  A window still holds every call it counted whose time is not over
  (`DequesRemember`, `ZsetsRemember`), so when it admits one more, all those of a
  stretch were below the limit (`LocalBelow`, `SharedBelow`). `WindowHolds` then
  adds up the windows in use: the lives that ever admitted a call inject into the
  processes and restarts (`LivesApart`), and with Redis there are no more of them
  than failures (`FewLocal`). What a window holds is never older than a window,
  which is the crowd around a refusal (`Crowded`); and what the deque of a refusal
  still holds after `Retry-After` and a second is less than the limit
  (`RoomAfter`), as long as nobody with a larger limit filled the bucket. The
  first statement of `RefusedOnlyWhenCrowded` was not inductive and, with two
  failures of Redis, not true: a call that falls back late enters the deque with
  the later clock, hence its slack.
- **`GatewayProofs`**: `TypeCorrect`, `CacheHoldsHolds`, `AnswerIsFreshHolds`,
  `AnswerIsOwnHolds`, `BestIsAskedHolds`, `FailsLastHolds`, `OneOrderHolds`. The
  invariant says what each part of the state still knows of the moment it was
  made. `Loaded`: the gateway takes whom its routing file allows, but for those an
  earlier file switched off and then failed to load (`flags` and `spoiled` cover
  the table until one loads). `CacheMade`: an entry has the key of the request its
  answer was made for, and expires a time to live after that; entries come in the
  order of their places, so the clock makes the first the first to expire.
  `AskedInOrder`: the request being served was not in the cache, and who failed
  followed by who is still to be asked is the order it was routed in, so a failure
  moves one provider across and the end of the list means everybody was tried: whom
  the places of the candidates name, all of them unless the file's order leaves out
  the forced provider, and then nobody.
  That a better provider comes first in that order is what the scores say
  (`BetterSortsFirst`). The order exists and is unique because scores and places
  together compare any two places and never in a circle (`BeforeOrders`), for
  any lists, prices, hints, averages and qualities a file may give.

**Between the modules.** A module that reads a table another one writes takes some
of it for granted. What it takes is a theorem about the writer:

| assumed | by | proved of the writer |
|---|---|---|
| a `Key` there is a secret, whose row is found by its hash; requests and payments change the standing of one at a time, and dead stays dead (`ChangeKey`) | `Admission` | `SecretNamesOneKeyHolds`, `OneStandingAtATimeHolds`, `DeadSecretsStayDeadHolds` in `KeyLifecycleProofs` |
| the address of a key does not change once it has one (the constant `Contact`; a signup inserts the lead before it gives out the key) | `Billing` | `ContactLastsHolds` in `KeyLifecycleProofs` |
| a success email or invoice that was queued stays queued (`thanks` and `invoices` only grow; that a key has one row is the unique column of the table) | `Billing` | `KeysLastHolds` in `EmailOutboxProofs` |

These statements are about two states at a time (`[][...]_vars`) or about a table,
and hold of the writer for every value of its constants. They are not a composed
specification: that the reader's actions are the only others is seen by reading
both modules.

Only model-checked: liveness, since fairness is out of the prover's reach:
`QueueDrains`, `CapturedIsPaid`, `CapturedIsInvoiced`. Every other property of a
passing run is a theorem.

## 5. Findings

1. **`billing_upgrade`** - `app/main.py:460` tells a customer whose trial is over
   "Trial expired. Please upgrade to continue.", and `README.md:371` that "After
   trial period, calls return `402` until payment is completed". The gate
   (`main.py:456`) stands before every path that is not public, and
   `/api/v1/billing/checkout` (`main.py:1136`), with which the dashboard begins an
   upgrade, is not public: the same 402 answers it. Only the administrator can have
   an order made for such a key.
2. **`billing_lostpaid`** - `README.md:362` says the key "is marked paid
   automatically". `app/auth.py:526` writes only what differs from the loaded
   row: a payment handler that loaded the key as paid, because of an earlier
   payment or delivery, writes nothing over an unpaid flag the administrator
   commits in between, and still reports `marked_paid`.

Behaviour met while modelling that no run is about, because the code claims
nothing else:

- `Retry-After` rounds the remaining time down (`security.py:27`) and an entry
  exactly `window_seconds` old still counts: a client that waits exactly that long
  is refused again. `RetryNeedsOneMoreSecond` is the wait that suffices.
- Where `PROVIDER` forces a provider and the routing file gives the mode of a request
  an order without it, nobody is asked: `_sort_candidates` filters by that order
  (`router.py:111-117`), and `errors[-1]` (`router.py:237`) of an empty list raises
  `IndexError`, which is answered with 500. `FailsLast` says that this is the only
  way a request fails with a candidate untried, but for a profile that a file which
  failed to load left switched off.
- A provider that `PROVIDER_FALLBACK_ORDER` or the file lists twice is asked twice
  for one request (`router.py:93`, `router.py:97`).
- A key that is deactivated or rotated between the dependency's read
  (`security.py:92`) and the start of the endpoint is still served, once for each
  request that waits there (`DeadServiceBounded`).
- During a rotation of the signing secret a session signed by a restarted process is
  refused by the others until they restart (`auth.py:282`).
- A client of the Redis limiter that keeps calling is never admitted again, since
  refused calls count (`security.py:46`); a key attached to an account while it is
  being revoked is dropped from it and stays active (`auth.py:497`); an error while
  queueing the success email loses the invoice (`main.py:1130`). No property is
  claimed of these.
- A reset token is used once per handler that loaded it before the first commit
  (`auth.py:167`), not once.
- A unified request with a null `max_output_tokens` is charged for its prompt only
  (`main.py:173`), while the providers default to 300 tokens of output.
- `retry_count` is read and written back (`emails.py:271`): overlapping failures
  lose counts. `RetriesNotOvercounted` is the direction that holds.
- One email may get as many leads and trial keys as signups pass the 24-hour
  check at once (`leads.py:43`).
- A refused request is charged to the Redis token counter (`limits.py:50`), and a
  refused call counts in the Redis window.
- Limiter buckets are named by the key's label (`main.py:468`), which is the name
  given at signup: keys with one name share a bucket, though `README.md:13` calls
  the limits per key.
- The daily limit is enforced after the answer and its error is swallowed
  (`metering.py:35`, `main.py:433`): the events are bounded, the requests are not.
- The second payment of one plan by one customer sends no second success email
  (`emails.py:426`), though an invoice.
- A decision names the review, not its text (`reviews.py:149`): the text that is
  approved need not be the text the moderator read.
- Long prompts that differ only behind the cut share a cached answer
  (`gateway.py:36`).

## 6. Abstractions

Payloads are model values; clocks are small integers and two readings never tie
where the code compares floats. One bucket (`TokenBudget`), one user's review
(`Reviews`) and one day (`Admission`) are modelled because instances do not
interact. Signatures are taken as genuine, and the browser verifies a payment with
the key its order was made for. A change of `max_tokens_per_minute` to 0, which
switches the budget off, is not modelled. The Redis expiries
that outlive every use of their key, the write-only counters of the gateway and
its cost figures are left out. Latency averages are exact: they are kept in
units small enough for the bounded number of updates. Prompts are equal or
different in front of the cut and behind it.

## 7. Plan

Done, in this order: `Orm`, `EmailOutbox` with `OutboxContract`, `KeyLifecycle`,
`RateLimiter`, `TokenBudget`, `Admission`, `Billing`, `Reviews`, `Gateway`,
`Passwords`; the routing file of `Gateway`; orders and deactivation in `Billing`;
proofs of the outbox, the keys, payments, reviews, passwords, admission, the rate
limiter, the gateway and the token budget; what the modules assume of each other.

Left:

1. An abstract `Quota` that `RateLimiter` and `TokenBudget` both implement: what
   is admitted in a window never exceeds the limit times the counters in use.
2. `Billing` composed with `EmailOutbox`: a captured payment's invoice is
   eventually mailed.
