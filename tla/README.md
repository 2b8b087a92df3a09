# Smart WiFi Pass: a TLA+ verification project

Smart WiFi Pass sells Wi-Fi time with café orders: an order creates a Wi-Fi
pass, the customer exchanges a QR claim, proves a phone number by OTP and turns
the pass on; further orders lengthen it and earn rewards; staff extends, ends or
blocks it; a loop ends it when its time is over. The repository holds two
backends for it, chosen at deployment and never run together: FastAPI (`app/`,
SQLAlchemy on PostgreSQL) and Django (`orders/`, `wifi/`, `rewards/`,
`identity/`, `operations/`, `ai_ops/`, `inventory/`, `api/`).

This directory models what can go wrong when requests, background jobs,
failures and restarts of that program meet, checks it with TLC, and proves the
results that matter most with TLAPS for every size of the system.

## How the program runs

FastAPI handlers are synchronous functions on a thread pool. Each request has a
SQLAlchemy session (`app/db.py`: no autoflush, no expiry on commit) and one
transaction at PostgreSQL's default level, READ COMMITTED: every statement sees
what was committed when it began; `SELECT ... FOR UPDATE` and `UPDATE` wait for
the row's lock and then see its newest version; a plain `SELECT` waits for
nobody. A session keeps the instances it has loaded: a later plain query finds
the rows by their newest values but returns the instances as they were loaded.
A flush writes only the columns whose values differ from the loaded ones.
Closing a session without commit rolls it back. Beside the requests run the
lifespan loop (`app/main.py`) or, with `USE_CELERY=1`, Celery beat's minutely
task (`app/tasks.py`).

Django services run in `transaction.atomic` at the same level, and lock with
`select_for_update()` what they change, with the rows joined to it. An exception
rolls back everything the block wrote; an early `return` of an error response
commits. Celery beat (`config/celery.py`) sends the minutely task every 60
seconds without asking whether the last one has ended.

## Inventory

| Component | State | Operations | Interacts with | Hard part |
| --- | --- | --- | --- | --- |
| Wi-Fi pass (`app/services/wifi.py`, `routers/pos.py`, `public.py`, `admin.py`, `main.py`, `tasks.py`) | row of `wifi_passes`, session at the access point | first and additional order, extend, expire, block, activate, day pass, refund, expiry scan | access point, orders, rewards, events | scan works on unlocked copies, in three callers at once; calls that succeed before a commit that fails |
| Orders, refunds, daily balance (`routers/pos.py`) | `orders`, `daily_spend_balances`, `idempotency_records` | create, refund, retry | pass (its lock), rewards | unlocked reads before locks, unique constraints at flushes, retries |
| Rewards (`services/rewards.py`, `public.py`) | `reward_grants`, `coupons`, `reward_redemptions` | grant, choose, redeem, list, revoke | orders and refunds, pass | stale reads of a refund, lock order |
| Claim, OTP, portal session (`public.py`) | `order_claims`, `otp_challenges` | exchange, send, confirm | SMS provider | one-shot claim and a lost reply, unlocked send count |
| Event stream (`app/services/events.py`) | `backend_events`, subscriber queues | publish, replay, stream | every writer | broadcast before commit, gap between replay and subscription, full queues |
| Recommendations and promotions (`admin.py`, `services/recommendations.py`, `tasks.py`) | `ai_recommendations`, `promotions` | generate, edit, accept, reject, start, end | Celery | unlocked reject, promotions that nobody starts |
| Admin sessions and team (`admin.py`) | `admin_users`, `refresh_token_sessions` | login, refresh, logout, create, update | | last owner, rotation against logout, deactivation against a refresh under way |
| Inventory and policy (`admin.py`, `services/inventory.py`) | `inventory_items`, store policy | upsert, adjust, scan, publish | recommendations | lost updates, version check without a lock |
| Pure rules (`services/policy.py`, `wifi.py`, `app/time.py`) | none | minutes of an order, proration, business day | orders, refunds | rounding, boundaries |
| Django pass and scheduled actions (`wifi/`) | passes, `ScheduledAction` | issue or extend, activate, expire by worker | Outbox, Celery | actions planned for an old version, rollback of what an error reports |
| Django orders, rewards (`orders/`, `rewards/`, `api/views.py`) | orders, balances, grants, `IdempotencyRecord` | pay, refund, choose, redeem | pass | record stored after the commit, lock order |
| Django identity (`identity/`) | verifications, tokens, memberships | confirm, rotate, revoke | | counters lost by rollback |
| Django operations, AI, inventory (`operations/`, `ai_ops/`, `inventory/`) | recommendations, promotions, stock, outbox | generate, edit, accept, reject, patch, adjust, scan, minutely task | Celery, pass | a stale task list, one failure ending a task, a scan over an adjustment |
| Migrations, seeds, provider HTTP code | | | | data or pure I/O |

What makes each component correct is stated as properties below for the modelled
ones, and in `hazards` of `PROJECT.json`, line by line, for all.

## Modules

| Module | Extends | Contents |
| --- | --- | --- |
| `WiFiPass` | | life of the FastAPI pass, access point and expiry scans |
| `PassContract` | | what the product promises about a pass; instantiated by `WiFiPass` |
| `WiFiPassProofs` | `WiFiPass`, TLAPS | its theorems |
| `DailySpend` | | one customer's day: orders, refunds, balance, rewards |
| `DailySpendProofs` | `DailySpend`, TLAPS | its theorems |
| `Verification` | | claim, ticket, one-time codes, portal session |
| `VerificationProofs` | `Verification`, TLAPS | its theorems |
| `EventStream` | | events from the publishing request to a browser |
| `EventStreamProofs` | `EventStream`, TLAPS | its theorems |
| `DjangoPass` | | the Django pass, its scheduled actions and the minutely task |
| `DjangoPassProofs` | `DjangoPass`, TLAPS | its theorems |
| `DjangoOrders` | | the Django register, refunds, rewards and claims |
| `SpendContract` | | what the product promises about spending and its rewards; instantiated by `DjangoOrders` |
| `DjangoOrdersProofs` | `DjangoOrders`, TLAPS | its theorems |
| `Accounts` | | people, refresh tokens and the team, in both backends |
| `AccountsProofs` | `Accounts`, TLAPS | its theorems |
| `Backend` | | which backend serves the store |
| `Promotions` | `Backend` | recommendations, promotions and stock, in both backends |
| `PassPolicy` | `Backend` | Wi-Fi policy, minutes, proration and business day, in both backends |
| `BackOffice` | `Promotions`, `PassPolicy` | the two composed |
| `BackOfficeProofs` | `BackOffice`, TLAPS | theorems about both halves |
| `MC...` | the above, TLC | symmetry and constant functions of the runs |

Definitions whose comment begins with *Mutant* are no part of the models: each
is a plausible mistake in the definition that follows it, and shows, put in its
place, that a property can fail.

### WiFiPass

`row` is the committed row of each pass; `session` what the access point knows
of each session (unused, live, cut); `granted` remembers which session a
committed activation stored, `lost` those of activations that did not commit. A
handler locks its row and holds it until commit, so it is one action. Orders and
refunds look at the clock before they wait for the row (`pos.py:155`, `:348`):
their actions take that earlier time as `t`, at most `MaxWait` old (`Sent`). The
actions are `FirstOrder` and `AdditionalOrder` (`create_order`),
`ExtendPass`, `ExpirePass`, `BlockPass` (`admin.py`), `ChooseDayPass`
(`choose_reward`), `RefundReclaims` (`reclaim_wifi_minutes` as `refund_order`
calls it) and `ActivatePass`. Calls to the access point precede the commit, so
each has a second action in which the session changed and the commit never came
(`RevokeNotCommitted`, `ActivationNotCommitted`): a lost reply or a crash.

`expire_due_passes` runs in the loop or Celery task (`Loops`), in
`GET /admin/passes/active` (`Lists`) and in `GET /public/passes/{id}`
(`Viewers`), and takes no lock until `publish_event` flushes. It is split into
the query (`Scan`, which fills `copy` and `due`), the revoke of one pass
(`ScanRevokes`, `ScanRevokeFails`), the flush that takes its row lock
(`ScanFlushes`, or `ScanWaits` behind another scan; `DeadlockVictim`), and the
commit (`ScanCommits`). `Overwritten` is the UPDATE SQLAlchemy issues: the
columns that differ from the copy. A viewer has loaded its own pass before
(`LoadOwnPass`), and its scan works on that older instance.

Properties. `RevocableAccess`: every session that the access point keeps open
stands in the row of the pass it was opened for, unless its activation did not
commit (`lost`). `TerminalCutsAccess`: no session opened for a pass that has ended
is open, with the same exception.
`OnlyScanCommitsBreakContract`: each step of each handler is a step of
`PassContract` (which statuses may follow which, expiry never moves back but for
a refund, staff's ending is final, versions rise by one, access opens only by
activation), and a scan leaves the contract at its commit alone; the commit of
any scan is exempt. A session counts as access in the contract once its activation
has committed.
`OverdueEnds`: an overdue pass is eventually ended or lengthened.

What does not hold. `activate_pass` authorizes before it commits
(`public.py:336`, `:347`): a crash or a failing commit in between leaves a session
that is open at the access point and in no row, which no expiry, block or refund
can revoke. The model has it (`ActivationNotCommitted`), and the two access
properties exempt it by name; no property could hold of it, and no document speaks
of it. `StaffEndingIsFinal` fails because the scan writes what it
read (`pass_revived`). `OverdueEnds` fails without Celery: one `ProviderError`
ends the task of the lifespan loop, which nothing starts again (`ScanRevokeFails`
with a loop that is not `alive`), where README.md:284 has the loop as the
replacement of Celery. An order also reactivates a pass that expired
before its activation: the model does so, and no property forbids it.
`TerminalCutsAccess` fails with `Viewers`: the status request loads the ISSUED
pass, the customer activates it and its time ends, and the request's scan clears
it from an instance without a reference, revoking nothing. No document speaks of
that case, so it is no finding, and the runs and the theorem about
`TerminalCutsAccess` have `Viewers = {}`.

### DailySpend

All rows of one (store, customer, business day). Requests are `Workers`; `pc`
and `job` say what each is doing, `seen` what it has read and will use. A
transaction is split where it waits for a lock and between its last read and its
writes. `create_order`: `OrderLookup` (key), `OrderDuplicate` (external id),
`OrderLocks` (pass FOR UPDATE, then balance and redemption are read),
`OrderConflicts` (a unique constraint at a flush: 500) or `OrderCommits`.
`refund_order`: `RefundLocks` (order FOR UPDATE, balance read), `RefundReads`
(pass FOR UPDATE, grants read), `RefundReadsCoupon` (the coupon of each grant that
is no longer earned, one statement each), `RefundCommits`. `choose_reward`:
`ChooseReward` when the grant's is the only lock, else `ChooseLocks`,
`ChooseLocksPass`, `ChooseCommits`. `redeem_coupon` and `list_coupons` follow.
The choice for a current order waits for that order's row, which its foreign key
refers to, while a refund holds it. Any request may be rolled back before its
commit, and workers start again, so every retry of every request is included.
Row locks follow from `pc` (`HoldsPass`, `HoldsOrder`, `HoldsGrant`).

Abstractions. The pass is its stage only (none, open, over, ended by staff):
`WiFiPass` has the rest. A replayed or mismatching key changes nothing and is no
step. *Oldest* redemption is any available one. Whether refunded minutes end the
pass is left open. Amounts are small numbers, items and claims are left out.

Properties. `RefundsWithinTotal`; `AwaitingIsEarned` (what is on offer is
earned, although grants and revocations use balances read earlier);
`OneBenefit`; `ConsumedOnce`; `OnlyRefundsDrift` (the balance's distance from the
net spend changes only when a refund commits that read an older balance, or that
meets a balance already too small). What does not hold:
the balance is not the net spend (`BalanceIsNetSpend`, run `spend_balance`),
against README.md:288; a coupon chosen between a refund's read and its commit
escapes it (`RefundCommits` revokes the coupons in `seen`), against the same
line; of two copies of an order at once one gets a 500 (`OrderConflicts`),
against the checklist of the team's report
(docs/TEAM_LEAD_DATA_LOGIC_CHECK_REPORT_2026-08-20.md:262).

### Verification

`exchange_claim` is `ExchangeLocks` (claim FOR UPDATE, its two refusals) and
`ExchangeCommits`, whose reply with the ticket may be lost. `send_otp` takes no
lock: `SendCounts` counts the order's challenges in the window (`Recent`),
`SendDelivers` inserts the row, which fixes `created_at`, and has the code sent,
`SendCommits` makes the row visible to other counts. `confirm_otp` is
`ConfirmLocks` (challenge FOR UPDATE, PENDING), then `ConfirmRefuses` (expired or
no attempt left) or `ConfirmCompares` and, later, `ConfirmCommits`; that the
comparison succeeds or fails is a choice. Any of them may be rolled back
(`RolledBack`), also after the code has reached the phone or has been compared.
`ticket` keeps the expiry of every ticket received; `issued`, `sent`, `compared`
and `opened` record what happened, `lost` and `undone` what of it did not commit,
for the properties.

Properties. `TicketOnce`; `SendsBounded` (the unlocked count lets requests past
the limit: in any window one more code reaches the phone for each other request
under way and no more, codes delivered by a request that then failed not counted);
`AttemptsBounded` (no more codes are compared with a challenge than allowed, but
for one for each comparison whose request was rolled back); `OneSession` (a challenge opens one session and then stays VERIFIED). That an
ended challenge is never written again (`EndedStays`) is proved and is part of
no run. The second test of the attempts in `confirm_otp`, the LOCKED
outcome before any comparison, is never reached: the wrong code that reaches the
limit has locked the challenge already (`AttemptsCounted` says so). The model
keeps it as the code does.

What does not hold: `send_otp` delivers the code before its commit
(`public.py:234`, `:243`) and `confirm_otp` compares before its commit (`:276`,
`:279`). A code delivered by a request that is then rolled back leaves no challenge
that a later request would count, and a comparison that is rolled back gives its
attempt back: neither limit holds of them. The two properties exempt exactly these
(`lost`, `undone`); no document promises more.

Abstractions. Codes, phones and customer keys are left out; so is the purge of
challenges after their retention time.

### EventStream

A writer is a request or job with events to publish: `Publish` (flush, the event
gets its place in the order), `Broadcast` (copies the subscribers under their
lock), `Put` for each, and when the queue is full `Evict` and `PutAgain`;
`Fanout` (Redis, errors ignored), then further events or `Commit`, or
`RolledBack`. `PutAgain` includes the `queue.Full` that nobody catches: it ends
the request. A browser's connection is `Connect` (the stored events after its
`Last-Event-ID`, `History`), `Subscribe`, `Listen` (Redis), `SendInitial`,
`Live` (queue first, else Redis; ids in `seen` are not sent again) and `Leave`
at any moment. Writers are in the process that serves the browsers or in
another, which only Redis connects.

Properties. `OncePerConnection`; `SubscribedMissNothing` (every committed event of
this process whose broadcast had not begun when the connection subscribed is sent
or waits in the queue, until the queue was once full; `before` remembers the
others); `SlowClientsBlockNobody`, for the comment in `_broadcast`, with
fairness for the writers alone. What does not hold: that a browser which asks
the API on receiving an event reads what the event says, as
docs/MVP_DEMO_SPEC.md:107 has it, for `Broadcast` precedes `Commit`. Nor does
anything like `SubscribedMissNothing` hold from the connection on. An event
broadcast between the query of the stored events and the subscription is missed,
and so is one broadcast before the subscription and committed after the query,
even if it commits long after the subscription; once a later frame has moved the
cursor they are missed for good. The property exempts both (`before`).

### DjangoPass

`pass` holds the committed rows, `live` the sessions the access point has not
closed, `pending` the scheduled actions that are not completed. Every
transaction locks its pass, so each is one action: `FirstOrder` and
`AdditionalOrder` (`issue_or_extend_pass`, with everything it schedules:
`Scheduled`), `ActivatePass`, `ApplyDayPass`, the staff's `ExtendAction`,
`Block`, `Unblock`, `PassExtend` and `AdminExpire`. The minutely task is not one
transaction: `ListPasses` takes a clock and a list without a lock, `ExpirePass`
handles one of them and looks again, `ListActions` lists what is due, `Execute`
performs one action if the pass still has the version it was scheduled for, and
`FinishTask` ends the run. `TaskFails` is a worker that stops or a
`ProviderError`, which nothing catches: the call may have closed the session,
the row is as it was, and the rest of the list is left to the next run. Two runs
may overlap. A failed or lost activation leaves a session no row knows (`lost`).

Properties. `OpenSessionsAreFound` (an open session that no row refers to comes
of an activation that did not commit or of a BLOCK); `PaidTimeIsKept` (neither a
stale list nor an old clock nor an action of an older version ends a pass with
minutes left or closes its session; only `AdminExpire` does); `OverdueIsEnded`
and `ExpiredAccessIsClosed` under fairness. `OneUsablePass` is about two passes,
is proved for any number of them and is part of no run.

What does not hold: BLOCK empties the reference without a revoke, so that the
session is open for good (`dropped`), where FastAPI revokes; EXTEND or a day
pass on an expired pass raises its version, and the revocation scheduled for the
old one does nothing (`stranded`); an UNBLOCK may make a second pass usable
(`unblocked`). Each of the three is named in a property, which says that nothing
else leads there. A day pass sets exactly the end of the business day, and
shortens a pass that runs past it.

### DjangoOrders and SpendContract

Services that lock what they depend on are one action each: `RefundOrder`,
`ChooseCoupon`, `ChooseImmediate`, `RedeemCoupon`, `ApplyRedemption`,
`ExchangeClaim`. The register's request is three (`Receive`, `Create`,
`StoreRecord`), since the idempotency record is looked up before and stored
after the order's transaction; `Stop` is a crash in between. Staff publish a
policy, without which no order commits, create tiers, and block and unblock
passes, of which only their number matters here.

Properties. `AnswersAreTrue` (whatever is repeated or cut short, a register is
told the truth, and a 500 after a commit is met only by a request whose key
another order took); `ClaimFindsPass` (the claim of a paid order can be
exchanged unless staff blocked a pass: then the next order issues a second one,
and `.get()` fails for both); `KeepsContract`: the module implements
`SpendContract`, by which the balance is the net spend of the day at every step
(FastAPI does not keep that, run `spend_balance`), a benefit is offered only
when the spend has reached its tier, goes from offered to coupon or immediate to
used, or is withdrawn in the very refund that no longer covers it, and never
comes back. The contract is also where the code's choice shows that a withdrawn
reward is not offered again when the tier is reached anew.

### Accounts

`member` and `session` are the committed rows. In FastAPI a login
(`LoginCheck`) or refresh (`RefreshCheck`, which holds the session's row) reads
the member without a lock and commits a session later (`IssueCommit`); a team
update reads and counts (`TeamCheck`), begins the bulk UPDATE of the sessions it
sees (`TeamRevokes`, `SeenSessions`) and, when it has got their rows, writes the
member and commits (`TeamCommit`). The member comes last: the Session does not
autoflush (`app/db.py:18`), so that the member's own UPDATE waits for the flush in
`publish_event` (`admin.py:427`).
`Abort` is a rollback anywhere. Django's rotation, login, logout and membership
upsert are one transaction each. The backend is chosen by `Init` and stays.

Properties. `SessionEndsOnce` (a refresh token has one successor, and no refresh
under way outlives a logout), `DeactivationEndsSessions` (a deactivated member
keeps no session but one committed after the deactivation had looked for sessions
to revoke, by a request that had found the member active: `raced`), `OwnerRemains` (the last owner is lost only to two overlapping
updates: each counts the other's owner). In Django nothing counts the owners,
and a store may lose its last one by one request.

### Promotions

One store, its recommendations and what becomes of them. FastAPI's rejection,
time sale, stock changes and both scans read without a lock and write later:
they are two actions on a `desk` (`RejectReads`, `RejectWrites` and so on); what
locks the row is one. A rejection with a reason writes the payload it read, and
with it the window. A page (`LoadPage`) keeps the row as staff saw it, and
`Edit` and `Accept` compare its version. `UpdatePromotionStates` is what the
minutely job does for promotions. Where the backends differ, the action of Django is named after it.
`crossed` remembers what two requests have overlapped on, so that the
invariants say exactly when something may go wrong.

Properties. `PromotionsAreAccepted` (a promotion stands behind every acceptance
and nothing else, but for a rejection of FastAPI that an acceptance or edit
overtook); `VersionNamesContent` (what is accepted is what staff have read);
`StockIsAccounted` (quantity and risk follow the item's events until two
requests overlap on it, Django's quantity even then); `OverduePromotionsEnd`
under fairness of the job, in Django and in FastAPI under Celery.

What does not hold: with `USE_CELERY=0`, the default (`app/config.py:43`),
`OverduePromotionsEnd` fails in FastAPI, for the lifespan loop (`app/main.py:17`)
expires passes and purges, and nothing starts or ends a promotion; README.md:284
promises promotions of the Celery task only. FastAPI's rejection overwrites an acceptance or an edit that
came between its read and its write, leaves the promotion running behind it and
sets the version number back; two requests for a time sale or a scan at once
make two; adjustments at once lose one of them; Django's scan writes a risk over
an adjustment, and offers a week, which no acceptance takes
(`inventory/services.py:58`, `ai_ops/services.py:69`); Django's
`PATCH /admin/promotions/{id}` takes any status in any status. The properties
name the first, the third and the scan's risk; the others are behaviours of the
model that no property forbids.

`GET /admin/ai/sales-summary` inserts a summary too, as `GenerateSummary` does.

### PassPolicy

The policy's versions, and what it makes of one customer's orders of one
business day: `Best` and `Highest` are the tier rules of the two backends,
`Prorated` and `Reclaimed` the minutes a refund takes, `BusinessDate` and
`BusinessDayEnd` the boundaries, used by `PlaceOrder`, `Refund` and
`ApplyDayPass`. FastAPI's publication compares the version it was sent
(`PublishReads`) and writes later (`PublishWrites`); Django's locks.

Properties. `RefundIsProportional` (however a refund is split, the minutes taken
are those of the refunded share, rounded up once); `DayPassCoversItsDay` (a day
pass lasts to the end of the business day it was chosen on, across cutoff and
zone). What does not hold: two publications of FastAPI at once are told the same
version number; in Django more spent may mean less Wi-Fi where the tiers do not
rise, and a day pass takes the time beyond the end of the day. An empty list of
tiers means the default tiers to FastAPI (`app/services/policy.py:14`), although
`GET /admin/wifi/policies` shows it empty (`app/routers/admin.py:482`); the
model has the former (`TiersOf`).

`BackOffice` composes `Promotions` and `PassPolicy`, and adds that a run of the
minutely job may fail before it comes to the promotions: it starts with the passes
that are due, where one `ProviderError` ends it (`PassesFail`; `app/tasks.py:31`,
`operations/tasks.py:15`). They share no table and no
lock, so their interleavings show nothing: a behaviour is about one `area`, and
the other stays in an initial state.

## Runs

| Run | Instance | Shows |
| --- | --- | --- |
| `pass_core` | 2 passes, 2 sessions, loop and listing, 2 faults, time 0..1, versions to 3, orders and refunds up to 1 late | the three safety properties with two scans in flight, overlapping batches of two, lock waits and deadlock |
| `pass_overdue` | 1 pass; Celery, a listing and a portal request; 1 fault, time 0..2, versions to 3, orders up to 1 late | every overdue pass is ended although scans fail and wait for each other, and the portal's works on an older instance |
| `pass_revived` | 1 pass, the loop | a statement the code does not keep |
| `spend_ledger` | 2 requests, 2 orders of 1 and 2, one tier at 2, one key | types and the properties but `ConsumedOnce` |
| `spend_used` | 2 requests, 3 equal orders, refunds in part, no key | `ConsumedOnce`: after the order that earns the reward, two more may use it |
| `spend_balance` | 2 requests, 2 orders, no tier | a statement the code does not keep |
| `verification` | 2 requests, 1 order, 4 challenges, at most 2 sends in a window of 1, 2 attempts, time 0..2, 1 challenge with a rollback after sending or comparing | types and the four other invariants of `Verification` |
| `events` | 2 writers, 3 events, 1 browser, a queue of 1, 1 stored event replayed, Redis | types, `OncePerConnection`, `SubscribedMissNothing`, `SlowClientsBlockNobody` |
| `django_pass` | 1 pass, 1 session, 1 task, 2 failures, time 0..3, versions to 3 | types, `OpenSessionsAreFound`, `PaidTimeIsKept` and the two liveness properties of `DjangoPass` |
| `django_orders` | 3 requests, 2 orders of 1 and 2, 2 keys, one tier at 2 | types, `AnswersAreTrue`, `ClaimFindsPass` and the refinement of `SpendContract` |
| `accounts` | 2 people, 3 sessions, 2 requests, either backend | types and the three other invariants of `Accounts` |
| `backoffice` | 2 recommendations, 2 desks, 4 requests, time 0..2, either backend, with Celery, 2 failing runs of its job; 2 policies, 2 publishers, 2 orders of 1 or 2, a day of 2 slots, every cutoff | types of both, the four properties of `Promotions` and the two of `PassPolicy` |

Why the bounds are enough to be interesting. Two scans and two passes give every
overlap of batches and the circular wait. Time 1 with additions of 1 lets a pass
run out and be bought back while a scan is between its query and its commit; time
2, in the runs with one pass, lets it run out again. `MaxVersion` 3 leaves two
changes after the sale. `MaxWait` 1 has an order or refund come with the clock of
before the pass ran out. `MaxFaults` 2 allows two failed calls, lost replies or
restarts anywhere, one after the other. Sessions
are used up by activation, which a pass does once. In `DailySpend` the tier is
reached by the second order alone, refunds of 1 and of all cross it
downwards, and two requests suffice for each race; nothing else is bounded. In
`Verification` the clock passes the lifetimes of claims and codes and moves the
window past the first challenges, and four challenges exceed the limit by more than the one that
two requests may add; `MaxUndone` 1 leaves them one challenge whose code or
comparison comes to nothing. In `EventStream` a queue of one is full after one event,
and three events let one be queued, one be put and one be evicted by two
writers at once; `Limit` 1 makes every second stored event one that is not
replayed. In `DjangoPass` one pass and one run of the task suffice: no property
relates two passes, a row's lock makes runs on one pass take turns, and what a
stale list of one run meets is the requests between its steps; two failures hit
both lists, or one twice. The session ends before the time bound, quiet hours and
business day at 2, and a notice is due before either. In `DjangoOrders` two
orders share a key and two requests an order, and the third repeats either. In
`Accounts` three sessions are a login and two refreshes, two requests every
overlap. In `Promotions` four requests are a generation, a page, its decision
and whatever overlaps with them; a window is past, to come or too long. A day of
two slots puts the cutoff at midnight and after it, in a zone ahead of UTC.

Fairness (`ScanFairness`). A scan that has started goes on: its thread runs. An
idle loop scans again: its sleep ends, Celery beat sends the next task, and a
task's failure does not stop the next (without Celery this holds only while the
loop is `alive`). In `EventStream` a request that has published goes on
(`Goes`), and a browser need never read. In `DjangoPass` a task's next step
happens (`TaskStep`): beat sends it every minute whatever became of the last
(`config/celery.py:11`), and in `BackOffice` (`MinutelyJob`;
`app/celery_app.py:26` in FastAPI) beat sends the next run although the last one
failed, and `MaxFailures` bounds how often it may fail. Without Celery no fairness
is assumed of it. Nothing is assumed of
customers, staff, listings, restarts or the clock. `MaxFaults` makes failures
finite, which is the assumption that the access point does not fail for ever: if
one pass's revoke always fails, its batch never commits, and no promotion is ever
updated either.

Runs with `SYMMETRY` check safety only. `verification` switches deadlock
checking off: when the clock is at its bound and the claim and every challenge
are over, nothing is left to do. So do `django_orders`, `accounts` and
`backoffice`, where requests and sessions are used up. The access point's DELETE
is taken to be idempotent, and zones to have no summer time.

## Proofs

`WiFiPassProofs` proves, for any sets of passes, sessions, loops, listings and
viewers and any bounds satisfying `ConstantsOK`:

- `TypeCorrect`: `Spec => []TypeOK`.
- `AccessStaysRevocable`: `Spec => []RevocableAccess`: every open session stands in
  its pass's row or comes of an activation that did not commit
  (`OpenedByActivation`, `GrantedStored`). `GrantedStored` alone is
  not inductive: a scan's commit could clear a reference nobody revoked. The
  invariant `AccessInv` adds that a pass is activated once (`GrantedOnce`), so
  that a reference in a row or a copy can only be the granted one
  (`RefsAreGranted`); that what a scan holds or is about to flush it has revoked
  (`RevokedBeforeCleared`); and that a scan that has not run its query holds
  nothing (`NothingHeldYet`). A cut session never opens again, so the commit
  clears only references to closed sessions.
- `EndedGivesNoAccess`: with no viewers, `Spec => []TerminalCutsAccess`, which
  exempts the sessions of activations that did not commit, by
  `EndInv`, which adds `EndedHasNoAccess` and `FreshCopies`: copies come from ACTIVE rows, and one
  without a reference from a row without access.
- `HandlersKeepContract`: `Spec => OnlyScanCommitsBreakContract`, the refinement
  of `PassContract` step by step: each handler's action is shown to be one
  action of the contract under the mapping `ContractPass`, `Open`, or to leave
  both unchanged; so are the steps of every scan but for its commit. It needs
  `GrantsDiffer` beside `AccessInv`: no two passes were granted the same session,
  or cutting one would cut the other, which no step of the contract does.
- `StaffEndingOutlivesHandlers`: `Spec => OnlyScansUndoStaff`, which bounds the
  violation of `StaffEndingIsFinal` that `pass_revived` shows. A blocked or
  cancelled pass changes its status only when a scan commits that loaded it
  before, and then to EXPIRED.

`DailySpendProofs` proves for any orders, amounts, tiers, keys and number of
concurrent requests that satisfy the module's assumption: `SpendTypeCorrect`,
`NoOverRefund` (`RefundsWithinTotal`), `OffersAreEarned` (`AwaitingIsEarned`),
`OneBenefitEach` (`OneBenefit`), `RedemptionUsedOnce` (`ConsumedOnce`) and
`OrdersNeverDrift` (`OnlyRefundsDrift`). They
follow from `SpendInv`. A request writes what it read earlier, so an invariant
of the rows says nothing about its write unless it also says what the request
knows: `LocksExclude` (one holder per row) gives `ReadUnderLock` (what was read
under the lock on the pass is still so: the order that will write knows the
balance, its redemption is still AVAILABLE, and a refund has seen every offer
its new total no longer covers) and the part of `JobsFit` by which two refunds
of one order cannot both fit. `NothingBeforePass` covers the order that finds no
pass to lock; `SeenCoupons` and `UsedIsConsumed` complete the induction. An
order that commits adds its amount to the balance it read; that this is the
present balance is `ReadUnderLock` again (and, without a pass, that both are
zero), and that the net spend grows by as much is a fact about sums, see below.
A refund that commits on top of the balance it read (`RefundKeepsDrift`) takes
from it what it takes from the net spend: the balance is floored at zero, and
does not reach the floor unless it was too small before, since the net spend is
at least what this order still counts. With a single request the balance read is
always the present one, so `AloneBalanceIsNetSpend` proves, for one worker, the
`BalanceIsNetSpend` that `spend_balance` refutes for two.

`VerificationProofs` proves for any orders, challenges, number of threads and
limits: `VerificationTypeCorrect`, `ClaimExchangedOnce` (`TicketOnce`),
`SendLimit` (`SendsBounded`), `AttemptLimit` (`AttemptsBounded`),
`SessionOpenedOnce` (`OneSession`) and `EndedForGood` (`EndedStays`), from
`VerificationInv`. Its parts are the locks (`ClaimsLocked`, `OtpsLocked`: what
was read is what is there, and nobody else has read it), `AttemptsCounted` (the
comparisons are the attempts in the row, those undone and the one under way),
`SendsTracked` (a code sent belongs to a committed challenge, a lost one or a
request on its way to the commit), and
`SendsAhead`: challenges in the window plus requests that have counted never
exceed `MaxSends + |Workers| - 1`. `SendsBounded` is not inductive, since it
forgets the requests that will still insert; counting adds one of those when the
rows are below the limit and the requests are at most all threads, and
committing moves one from the second number to the first.

`EventStreamProofs` proves for any writers, browsers, queue sizes and number of
events: `StreamTypeCorrect`, `SentOnce` (`OncePerConnection`) and
`NothingMissed` (`SubscribedMissNothing`), from `StreamInv`. The last alone is
not inductive: a commit makes an event count that had to be handed out before.
`Promised` says it of events not yet committed: a connection that lacks one is
still to be served by the writer that is publishing it. That this writer does
serve it follows from `WritersFit` (who evicts, evicts from a queue that was
full); `Born` says that each event is committed or of one transaction.
`SeenFits` (what is in `seen` was sent, will be sent from the replay, or is
older than the connection) gives both the absence of duplicates and that an id
found in `seen` may be skipped.

`DjangoPassProofs` proves for any passes, sessions, runs of the task and bounds:
`DjangoTypeCorrect`, `SessionsAreFound` (`OpenSessionsAreFound`), `OnePassUsable`
(`OneUsablePass`) and `PaidTimeStays` (`PaidTimeIsKept`). `PassInv` adds to the
properties that a row refers to its own session and to none before its
activation (`RefsAreOwn`), without which closing one pass's session could orphan
another's; that a scheduled action of the present version is due when the pass
ends (`ActionsFit`); and that lists hold what was due (`ListsAreDue`). The last
two are why an action may end a pass without looking at the clock: an order in
between has raised the version.

`AccountsProofs` proves for any people, sessions and requests, in either
backend: `AccountsTypeCorrect`, `SessionsEndOnce` (`SessionEndsOnce`),
`DeactivationEnds` (`DeactivationEndsSessions`) and `LastOwnerStays`
(`OwnerRemains`). In `AccountsInv`, `JobsFit` says that a session being
refreshed is live and has one requester; `RevokesFit` that what a deactivation's
bulk UPDATE did not see is in `raced`; `ChecksStand` that what a team update
read and counted stands until two overlap; `DjangoKeepsActive` that Django
deactivates nobody. The number of owners is not counted in the proof: the check
gives another owner by name.

`DjangoOrdersProofs` proves for any orders, keys, requests and tiers:
`OrdersTypeCorrect`, `RegistersAreToldTheTruth` (`AnswersAreTrue`) and
`ClaimsFindPass` (`ClaimFindsPass`), from `OrdersInv`: `RequestsFit`,
`ResponsesFit` (one request stores the response of an order, and a stored
response is the answer of whoever stored it) and `PassesFit` (until staff block
one there is one pass). `OrdersKeepContract` is the refinement of
`SpendContract`: every action of the module is an action of the contract or
leaves its variables alone, with `spent` the net payment of each order and
`benefit` computed from the grant, coupon and redemption of each tier
(`Benefit`). It needs three more parts of `OrdersInv`: `RefundsFit` (a refund
leaves what was paid at least), `BalanceCounts` (the balance is the net spend)
and `BenefitsFit` (a tier has at most one benefit, and only when chosen).

Net spend is a sum over a set of any size, `MapThenSumSet`, a recursive
function. The two modules about it prove what is needed of it: `SumExists` (such
a function exists, by the least cardinality for which it would not),
`SumRemove` (any member may be taken out first) and `SumSame`, and from these
`TotalChange`: a term that changes changes the sum by the difference. The set of
orders is assumed finite, as the rows of a table are.

`BackOfficeProofs` proves for any recommendations, desks, windows and
quantities, in either backend: `PromotionsStand` (`PromotionsAreAccepted`),
`VersionsName` (`VersionNamesContent`) and `StockAccounted`
(`StockIsAccounted`). `VersionNamesContent` alone is not inductive, since a
rejection sets a version number without comparing: `PagesAreOlder` says that
the number of an open row only grows, and what is rejected is never open again.
`RejectsAreCrossed` (whoever decides while a rejection is under way is in
`crossed`) and `StockIsAsRead` (what was read of the item is still there until
two requests overlap) carry the other two.

It also proves, for any policies, tiers, orders, amounts, zones and length of a
day: `RefundsAreProportional` (`RefundIsProportional`), `DayPassesCoverTheirDay`
(`DayPassCoversItsDay`) and `TypesHold` (`TypeOK` of both halves). The first
rests on `ReclaimedIsProrated`: what was taken off so far is what `Prorated`
makes of the whole refunded amount, not a sum of rounded parts, so that rounding
up happens once; and on `DivMod`, the law of quotient and remainder. The second
rests on `DayPassReachesEnd`, which compares the expiry with `BusinessDayEnd`,
and on the fact that every moment of a business day precedes that day's end,
whatever the cutoff and the zone. `PublishesPolicies` (a publication under way carries a policy) and
`QuantitiesFit` (a request under way writes a quantity within what was asked)
make the types inductive. Bonuses are maxima over tiers, which exist because
there are finitely many (`FiniteMax`, by least cardinality again).

The assumptions on constants that these proofs use are those the code
enforces: tiers are finite with amounts and minutes not negative, and a policy
has at least one minute (`PolicyTierRequest` and `WifiPolicyPublishRequest`,
`app/schemas.py:122`, and `validate_amount_tiers` in Django); a window is a pair
of times. TLC evaluates all of them on the runs' constants.

Only model-checked: liveness (`OverdueEnds`, `SlowClientsBlockNobody`,
`OverdueIsEnded`, `ExpiredAccessIsClosed`, `OverduePromotionsEnd`), which with
ENABLED is outside the prover's reach. Every invariant and every action property
of the passing runs is proved.

## What is left

The modules planned are written, and what they state of safety is proved. Of the code: the
upsert of reward tiers, Django's one-time codes and its event poll, and a
composition of FastAPI's orders with its pass: `DailySpend` knows only the
pass's stage and `WiFiPass` only an order's minutes, so what a scan does between
an order's two locks is in neither.

## Not modelled

- Privacy purge and analytics: deletion by age and read-only sums, which meet
  no other request but by removing rows long after their last use.
- Django's outbox and audit rows: written in the transaction of what they
  record, and read by nothing modelled.
- Django's one-time codes: a wrong code raises inside the transaction, so that
  its attempt is rolled back and no limit is ever counted; there is no lock-out
  to check. `Verification` has the FastAPI side.
- The upsert of reward tiers: the tiers are constants of `DailySpend` and
  `DjangoOrders`, as if staff did not change them during the day.
- HTTP of the providers: their calls succeed, fail, or fail after their effect.
- Rendering, validation messages, the text of recommendations, demo data, seeds,
  SQL migrations and configuration: data and I/O without interleaving state.
