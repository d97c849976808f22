# TLA+ models of the ALS backend

Specifications, model-checking instances and machine-checked proofs for the
API and worker under `src/app`. Every definition is translated from the code,
and `PROJECT.json` (`map`) names the lines each one stands for.

## 1. The system

A student's phone talks to a FastAPI service; the service and a separate worker
process share one PostgreSQL database and call external providers over HTTP.
Every request runs in **one database session**: `get_session` opens it, commits
it when the handler returns and rolls it back when the handler raises
(`db/session.py`). Three facts about that session decide most of what can go
wrong, and the models keep all of them:

- PostgreSQL runs it at READ COMMITTED. A plain `SELECT` takes no lock, so what
  a handler read may be stale by the time it writes. An `UPDATE` or `INSERT`
  holds its row (or its unique key) until the commit.
- SQLAlchemy keeps the attributes of a row it has loaded (`expire_on_commit` and
  `autoflush` are off): as long as the handler still holds the object, selecting
  the row again gives the values of the first load; changes made in memory are
  not seen by a query until they are flushed.
- A handler is a coroutine. Every `await` on a provider or on the database lets
  every other request, and the worker, run in between.

### Inventory

| Component | State | Operations | Interacts with | Hard behaviour |
|---|---|---|---|---|
| Payments and settlement (`services/billing`, `settlement`, `daraja`, `paystack`, `kora`, `routes/billing`, `admin/payments`) | `payments.status`, `subscriptions.expires_at` | checkout, verify, webhook, poll, callback, sweep, reconcile | three providers, referrals, groups | six paths settle one payment; callbacks late, repeated or lost; crashes; a pass with one transaction |
| Subscriptions and Friends groups (`services/billing`, `plans`) | `subscriptions`, `plan_groups`, `plan_group_members` | activate, open or renew a group, join, leave, remove | payments, referrals, console | last seat, renewal against a joining friend, plans already held |
| Console actions on a plan (`admin/users`, `admin/subscriptions`, `admin/groups`) | the same rows | grant, extend, cancel, disband | groups, audit log | overwriting what the student is doing |
| Referral rewards (`services/referrals`) | `referral_rewards.status`, `days` | claim, award, vest, bank, release, expire | payments, worker | two sweeps, sweep against the payment hook, caps |
| Extraction queue (`workers/runner`, `workers/extraction`, `routes/materials`) | `materials.extraction_status`, chunks, page counters | upload, complete, claim, read, finish, requeue | storage, OCR, quota, sync | two workers, crashes, slow documents, repeated uploads |
| Sync (`services/sync`) | every row's `updated_at` and tombstone | push, pull | every other writer of those rows | device clocks, pages, cursors |
| Notifications (`services/notifications`, `push`) | `notification_log`, `materials.notified_at` | sweep: reserve, mark, deliver | push provider, extraction | two workers, a crash between the steps |
| Sign-in (`services/auth`, `api/deps`) | one-time codes, refresh tokens, active device | request and verify a code, rotate, take over, sign out | SMS, quota | attempts and rollback, two rotations, two phones |
| Console accounts (`services/admin_auth`, `admin/admins`) | `admin_users`, their tokens, audit log | sign in, rotate, change, remove | every console route | the last owner |
| Quota counters (`services/quota`) | `usage_counters` | check, record | tutor, quiz, extraction | check and spend apart, first use of a period |
| Tutor and quiz requests (`routes/tutor`, `services/ai`) | chats, counters | ask, stream, build a quiz | language models, retrieval | what is spent when a stream breaks |
| Study streak (`services/streak`) | `study_days` | record a day, compute | clock and zones | off-by-one around today |
| App releases (`services/releases`) | `app_releases` | publish, check | — | version order, forced updates |
| Retrieval, prompts, sanitising, providers, storage, settings, feedback, analytics, configuration | none, or one row of one account | reads, signing, formatting | — | little beyond single-row writes |

What makes each correct:

- *Settlement*: money and periods correspond. Nothing is credited that was not
  paid, nothing paid is written off, a payment buys one period and not two, a
  renewal extends, a success stays a success and never stands without its
  credit, and a payment nobody reported is found by the sweep.
- *Groups*: never more members than seats, a seat and its group end together, a
  plan a member paid for survives joining and leaving.
- *Referrals*: one reward per referred student, its days added once, at most the
  bank's cap held, a voided reward never paid.
- *Extraction*: every uploaded document reaches an end, its pages charged once,
  its index from the latest upload.
- *Sync*: what one device wrote reaches the other, a replay changes nothing, the
  newest write wins.
- *Notifications*: told once, and not never.
- *Sign-in*: one active phone, a token used once, a code guessed at most a few
  times.
- *Console*: always an active owner.
- *Counters*: never beyond the allowance by more than the requests in flight.

## 2. Plan

In order of what an error would cost a student; all but the last is done.

| | Modules | What they are for |
|---|---|---|
| 1 | `Settlement`, `PaymentLedger` (abstract), `MCSettlement`, `Settlement_proofs`; `Checkout`, `App_proofs` | how a payment is settled and started |
| 2 | `Groups`, `MCGroups`, `Groups_proofs` | seats, renewals, entitlements, and the console's changes to a plan |
| 3 | `Rewards`, `RewardLedger` (abstract), `Totals` (the days of rewards), `MCRewards`, `Rewards_proofs` | the life of a referral reward |
| 4 | `Extraction`, `MCExtraction`, `Extraction_proofs` | the queue of documents |
| 5 | `Sync`, `Sync_proofs` | phones that push and pull |
| 6 | `Notify`, `Notify_proofs`; `MCSync` instantiates it with `Sync` | the reminder sweep |
| 7 | `SignIn`, `Console`; `MCAccounts`, `Accounts_proofs` | codes, tokens, phones, owners |
| 8 | `Tutor`, `Releases`, `Streak`; `MCApp` extends them with `Checkout`; `App_proofs` | what is metered; two pure algorithms |
| 9 | – | a composition of 1 to 3 over one subscription (see *Not modelled*) |

Each proof module extends the module it is about and proves its type invariant
first; the others are then inductive invariants that use it.

Every safety invariant and action property of the passing runs is a theorem.
Liveness
(`PaidIsCredited`, `EveryDocumentSettles`, `DueIsSettled`) stays with TLC.

## 3. Settlement

### State

| Model | Code |
|---|---|
| `row[p]` | the committed `payments.status` of a reference, `"none"` before its row exists |
| `born[p]`, `age[p]` | the order of `created_at`, and where the row stands against the sweep's `MIN_AGE`/`MAX_AGE` window (`new`, `due`, `old`) |
| `truth[p]` | what happened at the provider: not opened, open, paid, unpaid |
| `sub[u]` | the end of the plan, counted in periods bought |
| `credits[p]` | history: how many committed times `apply_payment` ran for `p` |
| `hearsay[p]` | history: the answers recorded of `p` that were not its outcome |
| `tx[s]` | one database session: the handler's position, the identity map (`seen`), what it read for `activate` (`base`), and what it has flushed and not committed (`rowPut`, `subPut`, `activated`) |
| `faults` | crashes, outages and disowned references so far |

### Actions

`BeginRequest` (verify, poll, callback, reconcile), `BeginWebhook` and
`BeginSweep` are the entry points with their early returns (`GoesOn`);
`AskAnswered`, `AskUnclear`, `AskDisowned`, `AskRaises` and `AskUnknown` are the
provider's possible replies. A processor's status is passed on as it comes, so a
checkout still open answers `pending` or some other word (`processing` stands for
"ongoing", "queued" and the like): a handler returns on the first and a sweep
records the second, after which the row is not `pending` and is not asked about
again. `AskDisowned` is a reference the processor does not find (Paystack's 404)
or answers without a status, which the code reads as `failed`. `Record` is `settle_mpesa`/`record_payment` down to their
flush and `RecordClashes` the unique index refusing a second insert; `Activate`
and `Extend` are the read and the flush of `activate`; `Commit` and `Close` end
`get_session`. The sweep is the same steps in a loop (`SweepNext`) with one
commit at the end, and `Raise` is what an exception does to it: caught around
the card branch only, anywhere else it rolls the pass back. `Crash` loses a
session, `WaitsFor`/`DeadlockVictim` are PostgreSQL's row locks.

The world is `OpenAtProvider`, `StudentPays`, `StudentDeclines`, the checkout's
own commit `RecordPending` (which a crash can prevent and a webhook can
precede), and `GrowOlder`.

### What the runs show

| Run | Instance | Result |
|---|---|---|
| `settle_serial` | three payments of two accounts, one per provider; one session at a time; every path but reconcile; one fault | the refinement `ImplementsLedger` holds: a paid payment buys one period, once, and nothing else moves a plan |
| `settle_reconcile` | a card and a Kora payment of one account; two servers' requests overlap; the console's reconcile | `CreditedWerePaid`, `SuccessIsCredited` hold |
| `settle_live` | an M-Pesa and a card payment of one account, a worker's sweep and a server's verify that overlap and deadlock over it, one fault (a crash, an outage or a disowned reference), `LiveSpec` | `FailedWereRefused`, `CreditsNeedOverlap`, `SuccessIsKept`, `PaidIsCredited` hold |
| `settle_double` | one M-Pesa payment, a poll beside a callback | `CreditedOnce` violated |

The violation is a disagreement between the code and its own words, quoted with
its lines in `PROJECT.json` under `findings`: a poll beside a callback credits
twice. Both load the row while it is pending, both ask Safaricom, and
`settle_mpesa` compares the status each loaded **before** it asked. The second
session's flush waits for the first one's lock and then writes the same status
again and extends the plan again. The docstring promises that the pair "credit
the plan once between them".

So `CreditedOnce` holds when sessions do not overlap and reconcile is not used
(proved), and `CreditsNeedOverlap` is what holds when they do overlap: checked
for a pass beside a verify, proved for every path but reconcile and any number
of sessions. It leaves out the cards of which something was recorded that was not
their outcome (`hearsay`): a pass that holds an old "ongoing" may write it over a
success, and the card is then credited again by a session that began later.
`SuccessIsKept` and `FailedWereRefused` say that nothing else undoes a success
or writes a payment off: never one of M-Pesa or Kora, and no card of which every
answer recorded was the outcome. What else the model shows of this code is listed
under *Known deviations*.

### Bounds

`MaxCredits` stops new requests on a payment already credited that often, so a
repeat is possible and the state space finite; `MaxFaults` bounds crashes,
outages and disowned references; a run has one or two sessions of each kind,
which is enough for every pair of paths to overlap, and two or three payments,
which is enough for a batch to hold a payment before and one after the one that
fails. `BatchLimit` is two
in place of twenty, so a batch can be full.

### Fairness

`LiveSpec` assumes that an open session goes on, that one waiting for a row lock
is granted it in its turn (PostgreSQL queues them; hence strong fairness of the
steps that take locks, `Extend` of every session and `Record` of the sweep,
without which a sweep and a student polling could break each other's deadlocks
for ever), that the worker calls
the sweep again and again (`Worker.run` does so once a minute for as long as it
lives), and that Safaricom, asked about the same payment over and over, in the
end answers (`Answered`). Nothing is assumed of requests, callbacks or webhooks: the property
is about payments the service is never told of, among the `BatchLimit` oldest:
rows that stay pending and fill a batch starve what is behind them until they
leave the window, and the code promises nothing else. A card counts for as long
as its row is `pending`. Crashes and outages are finitely
many, and a payment that is not reached within `MAX_AGE` is outside the promise.

### Abstractions

Amounts, tiers, the ownership checks of a charge, the referral and group hooks
of `apply_payment`, and everything about how a message is worded. A period is a
unit, not a number of days, so a tier change is not distinguished from a
renewal. The many words for a checkout still open are two, the one the handlers
return on and the one they record.

### What is proved

`Settlement_proofs` proves, for any set of payments, users, servers and workers
and any bounds. With every path in play:

- `TypeCorrect`: `Spec => []TypeOK`;
- `AlwaysHonest`: `Spec => []Honest`, the inductive invariant;
- `OnlyMoneyCredits`, `OnlyRefusalsFail`, `SuccessComesWithCredit`
  (`CreditedWerePaid`, `FailedWereRefused`, `SuccessIsCredited`), each a
  consequence of it.

Without the console's reconcile (`"reconcile" \notin Paths`):

- `SuccessStays` (`SuccessIsKept`), from `Final`: what a session is about to
  write is the provider's final word, of which there is one, or some pass has
  recorded hearsay of a card;
- `RepeatsNeedOverlap` (`CreditsNeedOverlap`), from `CreditsCounted`: the credits
  of a payment without hearsay and the sessions that may still credit it are
  together no more than there are sessions, and it has no credit before its row
  says success;
- `SerialCreditsOnce`: with one session, `CreditedOnce`, from `LoadedLast`: what
  the session may still credit or overwrite was loaded before its success, and is
  no success now. Here cards are no exception;
- `SerialImplementsLedger`: with one session, `Spec => ImplementsLedger`, the
  refinement of `PaymentLedger`, from `PlansCounted`: what a session has flushed
  on a plan is the committed end and one period for each payment it has
  activated, and no payment is taken up twice. Every step is then a `Pay`, a
  `Credit` of all that a commit publishes, or a stutter.

The first three speak of committed rows and of
credits, which a step can make wrong only through a session, so by themselves
they are not inductive. `Honest` adds what a session carries: a success it acts on is
the provider's final word (which never changes once given: `truth` is settled by
the student alone), a failure is one too or is hearsay, it
is on its way to crediting whenever it has flushed a success, and what it has
credited was paid. The proof goes action by action: steps that change only one
session re-establish `SessionHonest` for that one and leave the others alone,
and `Commit` carries what the session knew over to the tables. The only
assumption is `SettlementAssumption`, which types the constants.

Model-checked and not proved: liveness (`PaidIsCredited`).

## 4. Groups

### State

| Model | Code |
|---|---|
| `sub[u]` | the columns of a `subscriptions` row that matter: tier, `expires_at`, `verified`, `group_id` |
| `grp[g]` | a `plan_groups` row: owner, seats, `expires_at` |
| `seat[g][u]`, `joins` | the `plan_group_members` row of a user in a group by its key, 0 for none; keys are given out in order |
| `due[u]` | history: the end of the plan the user last bought or was granted, with the reward days added to it |
| `extra[u]` | history: the reward days on a seat since it last followed its group |
| `raced[g]` | history: the seats taken in a group while another join of it was in flight |
| `tx[s]` | one request: its handler, the subscription and the group as it loaded them, the plan it is writing, the seats it counted, the seat row it will delete |

Tiers are reduced to what these handlers tell apart: `free`, `solo` (one seat)
and `friends` (seats to give). An end of 0 stands for a null `expires_at`.

### Actions

Every handler is a `Begin` action (its selects, its early returns) and a
`Finish` action (its first lock, its writes and its commit), so anything may be
committed between the two. `Merged` is the unit of work of the session: only the
columns that differ from what was loaded are written, over whatever the row
holds by then. Where a handler selects the subscription later than the group
(`join_group`, `remove_member`) the finish step may use either the loaded or the
fresh row.

- `apply_payment` is `BeginPay` (the subscription is loaded) and, for a solo plan
  or a first group, `FinishPay`. The renewal of a group takes a step more:
  `Activate` flushes the plan, which locks the payer's row until the commit,
  loads the group and counts its seats; `Renew` updates every subscription of
  the group, writes the seats that were counted and commits. Joins and
  removals are committed in between; whoever writes the payer's row waits
  (`Unheld`). Either way `referrals.on_first_payment` comes last and may release
  days the payer has banked: `Bonus` of them or none.
- `BeginReward`/`FinishReward` are `referrals.sweep` crediting a student with a
  plan (`extend_plan`), bought or by a seat. The life of a reward is `Rewards`'s
  business (section 5); here it is only days on a subscription.
- `BeginOpen`/`FinishOpen` are POST `/group`, `BeginJoin`/`FinishJoin` POST
  `/group/join`, `BeginRemove`/`FinishRemove` DELETE `/group/members`;
  `BeginGrant`/`FinishGrant` and `Revoke` are the console. `Abort` is a handler
  that raises, whose process dies, or that PostgreSQL picks to end a deadlock:
  nothing is written.

Inside a finish step nothing else happens: apart from the renewal, the model does
not follow an interleaving of two handlers' statements after each has written
something, and `revoke_subscription`, which writes constants, is one step.

### Properties, runs and bounds

| Property | What it says |
|---|---|
| `SeatsFollowGroup` | an entitlement of a group ends when its group does, but for the reward days added to it since (`extra`) |
| `OwnPlanKept` | a plan that was bought or granted is not shortened by joining, leaving, renewing or being rewarded |
| `EntitledHaveSeats` | an entitlement of a group has a seat in it, whatever races |
| `OversellIsBounded` | a group exceeds its seats by no more than the joins that raced another join of it |

| Run | Instance | Result |
|---|---|---|
| `groups_serial` | one request at a time, two students, two groups, every operation, the console's and the rewards included; both kinds of plan | `SeatsFollowGroup`, `OwnPlanKept` hold |
| `groups_race` | three requests overlap, three students, two groups; paying for `friends`, joining and being removed; no reward days | `EntitledHaveSeats`, `OversellIsBounded` hold |

A plan has two seats and lasts one tick of a clock that stops at `MaxTime`;
plans that end after `Horizon` are not paid for or rewarded again and `MaxJoins`
seats are ever taken. When these bounds are reached nothing can move any more,
so the runs do not check for deadlock: a request is never refused forever in the
code, there is simply nothing left to request. Three students fill two seats and
leave one outside, and three sessions are a renewal beside two joins: the count
of the renewal is then older than both.

The properties of `groups_serial` are about requests that do not overlap. With
two sessions TLC refutes both, in traces that come from selects that are not
locked and columns written absolutely: a payment is overwritten by a seat that
was being taken, a seat keeps the date of before a renewal, a reward credited
from a stale row takes a renewal back.

### Proofs

`Groups_proofs` proves, for any number of users, groups, sessions, seats and
bonus days under `GroupsAssumption` (the sets are finite, there is a session, a
plan has more than one seat):

* `TypeCorrect`.
* `NoSeatNoEntitlement`: `EntitledHaveSeats` is not inductive, because a removal
  decides on a subscription it loaded earlier. `GroupsInv` adds that seat keys
  grow and `RemovalsSee`: as long as the row the removal loaded still stands, an
  entitlement of the group now was one then. It is kept because an entitlement
  only ever arrives together with a new seat, under a new key.
* `OversellBound`: `OversellIsBounded`, from `Roomy`: no seats taken, written on
  the row or counted by a request in flight exceed `Seats` and those that
  raced, and while somebody is joining one of these is free. A renewal that
  writes a count of before other joins writes too few, never too many.
* `SerialSeatsFollow`, `SerialPlansKept`: the two properties of
  `groups_serial`, for any number of users and groups and one session. They need
  `SerialInv`: what a request that is under way has loaded is what the tables
  still say, so its finish step acts on the present (`InHand`), and a plan that
  was bought or granted is paid for, outside every group and no shorter than it
  was promised (`OwnPlans`).

## 5. Rewards

### State and actions

| Model | Code |
|---|---|
| `plan[u]` | tier and `expires_at` of a `subscriptions` row; `free` and 0 before the first purchase |
| `reward[r]` | the `referral_rewards` row for bringing `r` in: status, days, `created_at`, `vest_at`, `banked_until` |
| `ReferredBy[r]` | `users.referred_by_user_id`, fixed: `claim` runs only in the request that creates the account |
| `tx[s]` | an open session: a payment, or a pass of the worker and what it has loaded, changed and flushed |
| `faults` | sessions that failed |

`BeginPay`/`FinishPay` are `activate` and the hook `on_first_payment` (award,
the friend's week, release of the payer's own bank). `BeginSweep`, `Look`,
`Credit` or `Bank` for every reward, and `FinishSweep` are one call of
`referrals.sweep` in the worker. Three things of the session decide what the
pass does and are kept:

* it does not autoflush, so `Bank` reads the bank without the rewards the same
  pass banked before, unless a `Credit` flushed in between;
* the rows of the batch stay loaded, while a subscription is selected again for
  every reward (nothing holds the object in between), so `Look` sees what was
  committed or flushed by then;
* a flush writes the columns that changed (`Merged`) and locks their rows.

Whether two students share a handset is left open at every award. Both students
exist throughout: rewards of deleted accounts are not followed. A plan here is
bought by its owner; seats and the console's grants are in `Groups`.

### The ledger

`RewardLedger` says what a student may rely on: a plan moves by what was bought
and by the days of the rewards credited in that moment; a reward is credited at
most once and never comes back; what waits in the bank is credited by the
purchase it waited for; the friend's week comes with the purchase that earns the
reward, once. One exception is in the code and therefore in the ledger: if the
plan runs out between the check for a plan and the extension, the reward is
credited and its days go nowhere.

### Runs and bounds

One student brought the two others; two plans of one and two ticks that earn two
and three; a hold of one tick, a bank that holds three for two ticks, one reward
per rolling month of two ticks. The clock stops at 4: enough to earn, vest,
bank, expire or release, and to earn again in the next month. A plan that ends
after `Horizon` is not paid for again, and one session fails.

| Run | Result |
|---|---|
| `rewards_serial` one payment or pass at a time | `MonthlyCap`, `BankedHaveNoPlan`, `ImplementsLedger`, `DueIsSettled` hold |

The properties of `rewards_serial` are about sessions that do not overlap. With
a payment beside a pass the model loses credited days (the payment writes the
end it selected) and leaves a reward in the bank of a student who has just paid
(the payment does not see what the pass has not committed); with two workers it
credits twice. The deployment runs one worker.

Fairness is weak: the worker's loop calls the pass once a minute
(`_sweep_reminders`), an open session goes on, and failures are finitely many.

### Proofs

`Rewards_proofs` proves, for any students, plans, holds and bounds:

| Theorem | For | Property |
|---|---|---|
| `TypeCorrect` | any sessions | `TypeOK` |
| `OneRewardEver` | any sessions | a reward once written is never written again, for another day or after it ended |
| `SerialBankedHaveNoPlan` | sessions that do not overlap | `BankedHaveNoPlan` |
| `SerialMonthlyCap` | sessions that do not overlap | `MonthlyCap` |
| `SerialImplementsLedger` | sessions that do not overlap | `ImplementsLedger`: every step is a step of `RewardLedger` or none |

*Do not overlap* is `Serial`, the `Sessions` of one element that the run has;
with two the bank and the ledger are refuted, as said above. The two that hold of any
sessions need `TypeInv`: what a session has loaded keeps its dates, and nobody
is rewarded for a student nobody brought.

The others stand on `SerialIInv`, which says at each point of a pass where a
reward is: not loaded, loaded and as committed (`Fresh`), or moved by a rule and
not committed (`Moved`); what `Look` found is still so when `Credit` or `Bank`
uses it (`LookInv`); whoever has a reward in the bank, committed or not, has no
plan even as the pass sees it (`BankInv`). `ArrivedInv` is what the ledger
needs: the end the pass will write is the committed end and the days of the
rewards it has credited that arrived, and if not all did, the plan had run out.
`SerialMonthlyCap` compares two windows: `_refusal` counts back from the day a
payment began, the property from the day of a reward, which is never earlier.

A set of rewards is worth as many days as there are pairs of a reward and one of
its days (`Totals`), so that adding one up is a fact about cardinalities and
needs no induction over the set. `BankDaysToLive` is assumed positive: the code
has 90 days, and with none a reward would expire in the pass that banks it.

## 6. Extraction

### State and actions

`Extraction` follows one student's documents through `materials`, the bucket and
`material_chunks`, and the worker that reads them.

| Model | Code |
|---|---|
| `row[d]` | the `materials` row: order of creation, kind, status, tombstone, age while running |
| `file[d]`, `index[d]` | the object in the bucket and the version whose passages are indexed, told by a version number and a number of pages |
| `meter` | the `usage_counters` rows of the pages and scans |
| `job[w]` | what a worker holds: the batch it claimed, the document in hand, what it read |

The student's side is `StartUpload` (POST `/materials/upload-url`, which queues
the row before a byte moved), `PutBytes` (the device writes to the signed URL),
`CompleteUpload` and `Delete`. The worker is cut at every commit: `Poll` puts
stalled rows back and claims a batch, `Start` marks one running, `ReadText`,
`ReadRefused` and `ReadUnreachable` are the ways reading ends, `WriteIndex` is
the transaction that replaces the passages, marks the row done and charges the
pages. `Restart` is a worker that dies, `Age` the clock of `requeue_stalled`,
`NewMonth` the calendar of the counters. Cutting the text into passages, the
bytes and the wording of a refusal are left out.

### Run `documents`

Three documents of one or both kinds, one of them with a provider that never
answers (`Stuck`), a batch of two, one worker that is restarted or fails once,
four things the student does and one new month. A batch of two over three
documents is the least in which one that is stuck takes a place from others.

| Property | What it says |
|---|---|
| `PoolsHold` | the pages given stay within the lifetime pool and the month's |
| `ChargedPerRequest` | no document is charged more often than it was put on the queue: restarts, failures and requeues cost nothing |
| `DoneShowsTheUpload` | a document that is done shows the file it was completed with, or a newer one |
| `EveryDocumentSettles` | whatever is queued is read or refused in the end |

`EveryDocumentSettles` assumes weak fairness of the worker's steps (its loop
never returns while the process runs, and systemd restarts it) and of time. The
instance has fewer stuck documents than a batch holds: with a full batch of them
nothing younger is ever read, since a document whose provider fails goes back to
its place at the head of the queue.

### Proofs

`Extraction_proofs` proves `TypeCorrect` and `DoneIsFresh`
(`DoneShowsTheUpload`) for any number of workers, `ChargedAsAsked` and
`PoolsAreKept` for one (`OneWorker`); two workers can claim the same document
and charge it twice. `AllFresh` adds to the property what a worker in the middle
of a document may write: no older file than was there when it was completed.
`AllPaid` counts a document that is queued or running as a charge still owed.
`Metered` says that the pages given are the pages on the meter, and `Hands` that
what a worker has decided to write still fits the pool, which is where a second
worker would break it.

## 7. Sync and reminders

One run, `phones`, checks both: they share no state, so `MCSync` starts in one
of them (`focus`) and TLC adds their states up.

### Sync

| Model | Code |
|---|---|
| `server[r]`, `messages` | the rows as committed (their `updated_at`, and whether live), and the messages of chats |
| `phone[d]` | a phone's rows and messages, the rows it has yet to send, its cursor |
| `req[s]` | a push under way: what was sent, and the rows it was compared with |
| `missed[d]` | history: the rows a phone's cursor has passed and no page will list again |

Clocks: `updated_at` is whatever the device says (`_apply` stores it as sent).
`Edit` stamps a row with any time later than the one the phone has for it, so two
phones' clocks agree with nothing, stamps tie and run ahead of the server's; the
server's own clock moves by `ServerTick` and is what an empty page's cursor
says.

`BeginPush` is POST `/sync` up to its selects and `FinishPush` its writes and
commit: `IsNewer` row by row, the unit cap (`Budget`, `Capped`), the messages
that are new (`Unknown`), and an answer that may be lost. `Pull` is GET `/sync`:
per table the oldest rows after the cursor, a page at most, and the cursor of
`NextCursor`. What the app does with an answer is not in this repository: it is
taken to keep the newer of two rows, to send a row until told what became of it
and to store the cursor.

| Property | What it says |
|---|---|
| `CursorCoversRows` | nothing stamped up to a phone's cursor is missing on it, whatever the pages, but what is in `missed` |
| `NothingSaidIsLost` | a message is in the table, or still to be sent by the phone it was said on, also when its chat loses |
| `NewestWins` | a row is only replaced by a newer one |
| `CapHolds` | an account has no more live units than the cap and those it brought back |

`missed` has two sources, both in the code. A row pushed with a stamp that is
not later than a cursor another phone holds is behind it (`Behind`), and so are
the messages of a chat whose row lost. And of rows with one stamp that do not all
fit on a page, those left over are skipped (`Cut`), because the next page asks
for stamps *later* than the last one sent; `services/sync.py:319` says that the
cursor does not "advance past what was actually sent". What the property says
is that there is no third way: not the cursor of one table carrying another
past what it sent, not a lost answer, not a push between two pages.

Two phones, two units and two chats, pages of one row, a cap of one and one push
at a time; three edits, with the stamps 1 to 3 on units and 1 to 2 on chats, which
is enough for ties, for a late row and for one that runs ahead of the server.
Units are changed on one phone only, chats on both (a unit is a row like any
other to the cursor; what two phones do to one row is the chats' part).

### Reminders

`Notify` is `notifications.sweep` as four steps, each ending in a commit:
`Collect` (the reads, quiet hours included), `Reserve` (the log's unique key
decides), `MarkNotified`, `Deliver` (with every fate of a push). Another sweep, a
crash or the student comes in between any two. Due deadlines, classes on the two
local days a sweep asks about, and documents read within `FinishedWindow` are
computed as the code does, on a clock of hours and a zone that is an offset.
The student reads and deletes documents, sets, moves and closes deadlines, moves
and drops classes (`MoveClass`, by a push of the timetable), and changes phone
and settings.

| Property | What it says |
|---|---|
| `PushedOnce` | nobody is pushed the same occurrence twice, whichever sweeps overlap |
| `AnnouncedOnce` | a document is announced once; by overlapping sweeps, once by each |
| `NothingLapses` | quiet hours delay the announcement of a document and never cancel it |
| `DueIsHeard` | by the end of a sweep that could be heard, a deadline within its lead time has been claimed as it stands, and a class within its lead time at some hour of that local day |

The day has four hours, so a night of three leaves one to be heard in; two
documents, a deadline, a class and two overlapping sweepers; two changes and one
failure. A deadline's key holds when it is due, so one that moves is told again; a
class's key holds the day only, which is why `DueIsHeard` says no more of classes.
The last two properties are about hours in which nothing failed
(`Audible`): the worker sweeps every minute, so an hour passes once it was
swept. A sweep that dies between `Reserve` and `Deliver` leaves a reminder
claimed and unsaid; the code prefers that to saying it twice.

### Proofs

`Sync_proofs` proves, for any devices, units, chats, page size and cap:
`TypeCorrect`, and `EverySayingKept` (`NothingSaidIsLost`) for any number of
overlapping pushes, from `AllCarry`: what a push carries is a copy of what its
phone still has to send. With one push at a time (`OneSession`) it proves
`NewestStays` (`NewestWins`), because what a push compares with is still what it
overwrites (`Current`), and `CapIsHeld` (`CapHolds`). `CursorsCover` proves
`CursorCoversRows` for any number of pushes and pulls that overlap, any stamps
and any number of pages of any size, with no hypothesis: a page that is full
leaves nothing behind that is not after its own last row or tied with it
(`Listed`, `PullCovers`), and what a push commits behind a cursor is counted
(`PushCovers`).

`Notify_proofs` proves, for any number of workers sweeping at once, any
documents and any windows: `TypeCorrect`; `NeverPushedTwice` (`PushedOnce`), from
`ClaimsInv`: what was pushed is in the log, and what the sweeps carry is in the
log, not pushed yet and carried by one of them; and `AnnouncedOncePerSweep`
(`AnnouncedOnce`), where the key does not help: a document not yet stamped was
never announced, and those who still carry it are counted with the
announcements. `NothingEverLapses` (`NothingLapses`) and
`DueIsAlwaysHeard` (`DueIsHeard`) hold in hours in which nothing failed
(`calm`), by `CalmInv`: what is in the log was heard or is in the hands of the
sweep that will say it (`LogRight`); a sweep that began after the last change
carries all that is due, or has claimed it (`FreshRight`); once an audible hour
was swept nothing is left to say (`Said`); and what was read and not told has
had nothing but quiet hours since (`Waited`). The last bounds the wait: the same
hour of yesterday was audible too, and swept, so that nothing is ever older than
`FinishedWindow`. They assume that a lead is at most a day, as the settings
route has it, that classes begin at an hour of the day, and that any documents
have one with the largest id. What is in the log of a class is an hour of that
local day, not the hour of the timetable (`OnDay`): so the proof holds while
classes are moved.

## 8. Accounts

One run, `accounts`, checks `SignIn` and `Console`, one of them per behaviour.

### Sign-in

| Model | Code |
|---|---|
| `codes` | `otp_codes` of the number: when sent, whether consumed |
| `user` | the account: whether it exists, is deleted, and `active_device_id` |
| `tokens` | `refresh_tokens`: device, and whether live |
| `req[r]` | a request: what it read, and the tokens, or the codes, that it saw and will end |

`BeginSend`, `Mint` and `FinishSend` are POST `/auth/otp`: the count of the
hour, the update that consumes what is outstanding (it waits for whoever has
consumed one of those rows and not committed, `waiting`), and the commit, which
comes after the SMS. `BeginVerify`, `BeginGoogle` and
`BeginRefresh` read, `Revoke` is the takeover of `issue_tokens`, `Issue` the rest
of the request and its commit. `Logout`, `DeleteMe`, and the console's
`ResetDevice`, `DeleteUser`, `RestoreUser` are one step each. A wrong code is no
action: the request is refused and `get_session` rolls back everything in it.

| Property | What it says |
|---|---|
| `OnePhone` | the tokens that work belong to one phone, the one whose session it is, as long as no request began beside another |
| `UsedOnce` | a code signs in once and a token is exchanged once, but for one more time per request that overlapped |
| `CodesPerHour` | no hour has more codes than may be sent and two are never live at once, but for overlaps |
| `OneLiveCode` | no two are ever live at once, overlaps or not: what a comment of `request_otp` says, refuted by `codes_overlap` |

### Console

`Console` has `admin_users` and `admin_refresh_tokens`. `BeginCreate`,
`BeginUpdate`, `BeginRemove`, `BeginLogin` and `BeginRotate` read what they
decide by, `Sweep` is the select of `revoke_all`, and `FinishCreate`,
`FinishUpdate` and `Open` write and commit; of a row only what changed.

| Property | What it says |
|---|---|
| `SomeOwner` | there is an active owner, as long as no request began beside another |
| `SessionsEnd` | no session outlives the deactivation, removal or password change after it, but for one per overlap |

### Bounds and proofs

Two phones, two requests at a time of which one may overlap (`MaxOverlaps`), two
codes an hour of two ticks, three codes and tokens, one act of the console or
logout; two admins and two sessions. Every kind of request can so meet every
other, and an account can be taken over, left and taken back. Requests end by
`Abort` at the latest, and nothing has to happen next, so deadlock is not
checked.

`Accounts_proofs` proves `SignInTypeCorrect`, `UsesAreCounted` (`UsedOnce`) and
`OnePhoneHolds` (`OnePhone`) for any phones, requests and bounds. A token that
is still live has not been exchanged, and each request that holds it and may
exchange it began beside another: `TokensCounted` adds those up, `CodesCounted`
does so for codes, and `Held` says that what a request holds exists.
`OneAtATime` carries `OnePhone` through the one request there is: the device it
will leave is the only one with tokens. `CodesAreCounted` (`CodesPerHour`) counts
the sends under way with the codes of every hour, whichever it begins at
(`HourCounted`), and gives each send room for the codes that were committed since
it read (`LiveCounted`).

Of the console it proves `ConsoleTypeCorrect`, `OwnedForever` (`SomeOwner`):
`Owned` adds that the change in flight leaves an owner (`Safe`), and
`SessionsAreEnded` (`SessionsEnd`). There, a session that was opened behind the
back of a request that is ending the admin's (`Missed`) counts already, and so
does a request that will open one for somebody who has been switched off
meanwhile (`OpensLate`): each of them has a request of its own that began beside
another (`OutlivingCounted`).

## 9. The app: questions, streak, releases, payments begun

One run, `app`, checks four modules that share no state, one per behaviour.

`Tutor` meters questions and quizzes. A request reads the plan and the counters
(`Begin`), makes the chat (`EnsureChat`), waits for a model (`Planned`, `Built`,
`Failed`), and then reads and writes each counter (`Count`, `Write`) before it
commits (`Ask`, `BuildQuiz`) and streams (`Streamed`). Rows that were written and
not committed are locked and unseen. The calendar (`Tick`), the student's zone
(`Move`), the plan (`Change`), `/sync` (`Pushed`) and the console (`ResetUsage`)
move in between. `AllowanceHolds` bounds what is given beyond the plan by the
requests that began beside another; `LifetimeExact` says that the lifetime
counter is exact even so, which hangs on the order in which two counters are
written; `TurnedAwayWhenSpent` says who is refused. Two requests, two turns, a
calendar of two half months: a request can begin in one month and charge in the
next, in a zone where they differ. `overlaps` counts requests that began beside
another and moves to another zone.

`Streak` computes the run of days from the rows by the code's two loops, for
every set of days a calendar of eight can hold, a read that looks back five days
and a date in the student's zone or in UTC. A loop is a function of how many
days it has gone. `StreakShown` compares the result with the definition: the run
that ends today or yesterday, exactly when the read is dated on the student's
own calendar (up to the lookback) and no less of it in UTC, and the longest run
in the days looked at. Days are recorded up to the student's own date; POST
`/streak` takes any date from the app, and what a day ahead of it does to a
streak is outside the property.

`Releases` has every table of three versions and their floors, in which a
version is a sequence of numbers (1.10 is newer than 1.9). `ForcedHaveAWayOut`:
whoever is told to update is offered a build that is newer and may itself run.

`Checkout` starts a payment: a Kora page, a Paystack page, or a prompt with Kora
to fall back on. A call may not get through, be refused, or lose its answer.
`OnePrompt`: one tap rings at most once, retries included. `MoneyIsTraced`:
money has a row, and one tap is payable in one place, unless an answer or the
request itself was lost. `App_proofs` proves both for any requests and
providers (`NoSecondPrompt`, `MoneyHasARow`); `AllTraced` adds how far a request
has come when it has opened something to pay. What becomes of a row is
`Settlement`'s.

### Proofs about `Tutor`, `Releases` and `Streak`

They are in `App_proofs`. Of `Tutor` it assumes that the requests are finitely
many; ceilings, turns and bounds are any. An action is first summed up as a move
of the counters (a request begins, reads, writes, commits, gives up, or
something moves around it), and the invariants are proved of the moves:

| Theorem | Says | Rests on |
|---|---|---|
| `RequestsKeepTheirWay` | `Paths`: a request writes its counters in order and alone holds a row it wrote | the types |
| `CountersNeverRunAhead` | `NoMoreThanServed`: no row, stored, read or about to be stored, counts more than was given | `Paths` |
| `NobodyTurnedAwayEarly` | `TurnedAwayWhenSpent` | `NoMoreThanServed` |
| `LifetimeIsExact` | `LifetimeExact` | that whoever has read the lifetime row holds the month's, so nobody else has read it |
| `LostCountsAreOverlaps` | `Floor`: what was given exceeds no counter by more than the overlaps | `Paths` |
| `AllowanceIsKept` | `AllowanceHolds` | `Floor` |

`Floor` is not inductive as an inequality about what is stored: a stale read may
be written any time. It says that there is a number under what is stored, under
all that was read of the counter and, by one, under all that was written and not
committed, such that what was given and the requests under way exceed it by no
more than the overlaps and one. `Room` then counts, for each ceiling, what was
given and those who were let in; the awkward case is a student who moves back
over the turn of a month and finds next month's counter as they left it
(`Fits`).

Of `Releases`, `ForcedCanUpdate` proves `ForcedHaveAWayOut` for any versions.
One version is older than another if they differ first in a smaller number or
in the lack of one (`OlderMeans`), from which it is a strict order. That the
published ones have a newest would be an induction over their number; instead
the invariant says it of every set of rows there could be (`AnyHaveNewest`), and
a row that is added extends it.

Of `Streak`, `StreakIsRight` proves `StreakShown` for any lookback of two days or
more. `LoopExists` gives each loop its function, as an induction that takes the
least step that fails; `BackTo` and `OnTo` are the loops' invariants: the run as
far as the loop has come back, and the run and the longest so far with the row
each ends on. What is left is `NotAhead`, that no day is recorded before the
student has come to it, and the cases of a read: the run ends today, ended
yesterday, or is over.

## 10. Known deviations

What the models show of the code and no property forbids, because it would be
refuted. Each can be reproduced by adding the formula named to the
configuration.

Settlement and checkout:

- Reconcile applies a Kora payment whenever Kora says success, whatever
  `record_payment` returned: a credited payment is credited again, and an older
  status may be written over a success (`CreditedOnce` and `SuccessIsKept`
  with `"reconcile"` in `Paths`). It also asks Kora about Paystack's charges,
  which Kora has never heard of.
- One payment's exception ends the sweep's pass and rolls back the credits made
  in it; a later pass makes them again (`PaidIsCredited`).
- The sweep returns on "pending" and "abandoned" and records any other word of
  Paystack's: a card answered "ongoing" leaves the sweep's set while it may yet be
  paid, and a pass that holds such an answer writes it over a success committed
  meanwhile, after which the card can be credited again (`SuccessIsKept` and
  `CreditsNeedOverlap` without `hearsay`).
- A reference Paystack does not find, or answers without a status, is recorded as
  failed (`FailedWereRefused` without `hearsay`).
- `activate` writes a date computed from one it read without a lock, so two
  payments settled at once can keep one of the two periods (`ImplementsLedger`
  with two sessions).
- Checkouts nobody finished, Kora's among them, fill the sweep's batch of twenty
  until they age out, and nothing younger is asked about (`PaidIsCredited` without
  `PendingPayments`); a callback that arrives before its row is committed is
  discarded, and the sweep or a poll finds the payment later.
- A push whose answer is lost or unreadable may leave a prompt that can be paid
  with no row, or beside Kora (the exception in `MoneyIsTraced`).

Groups and rewards:

- Whoever holds the Friends tier may open a group, and a seat on someone else's
  group holds it too (`GroupsAreBought`).
- A student who joined while on a plan of their own gets nothing from the seat
  once that plan lapses; a new group is dated from now, while the plan of its
  owner may run longer; a renewal writes the group's date over every seat's,
  so that reward days credited on a seat are gone with it (`extra` starts again);
  a reward credited from a row loaded before a renewal takes the renewal back
  (`SeatsFollowGroup` with two sessions); two overlapping requests can leave an
  owner with two groups.
- The bank is read from the database while an earlier reward of the same pass
  is banked in memory only, so two rewards due in one pass exceed the cap
  (`BankHolds`).
- With a payment beside a pass, days credited in between are overwritten and a
  reward stays in the bank of a student who has just paid; with two workers a
  reward is credited twice (`ImplementsLedger` with two sessions). Switching to
  another tier starts a fresh period, and the days credited to the one that is
  left go with it.

Documents and phones:

- With two workers a document is claimed twice and its pages charged twice
  (`ChargedPerRequest` with two `Workers`).
- An upload completed while the old file is being read is overwritten by done
  and not read until it is completed again.
- Documents of a provider that fails stay at the head of the queue: a batch
  full of them starves everything younger.
- A row pushed with a stamp behind a cursor another phone already holds, because
  its phone was offline or its clock is slow, is never pulled by that phone, nor
  are the messages of a chat that lost; and of rows with one stamp those that do
  not fit on a page are never sent (`CursorCoversRows` without `missed`), although
  `services/sync.py:319` has the cursor not "advance past what was actually sent".
- Two overlapping pushes compare with rows the other replaces, and the older
  one can win (`NewestWins` with two `Sessions`).
- A crash between the reservation of a reminder and its delivery leaves it
  claimed and unsaid. Overlapping sweeps delay the announcement of a document
  whose id sorts before the one that was announced, and a document that is read
  again is not announced again.
- A class moved to a later hour of a day it was announced for is not announced
  again: its key holds the slot and the day (`DueIsHeard` with the hour in place
  of the day).

Accounts and the tutor:

- Two sends of a code that overlap leave two codes live (`codes_overlap`).
- A refused code rolls back its own count of attempts with the rest of the
  request.
- Overlapping requests exchange one token twice, sign in two phones at once, or
  demote the last two owners (`UsedOnce`, `OnePhone`, `SomeOwner` without their
  allowance for overlaps).
- The console's deletion is documented to do what the student's own does, and
  leaves the refresh tokens, as does the release of the device lock; a restored
  account finds them live.
- A question that is sent again under the same ids is charged again, and without
  a chat id its answer goes to another chat. A quiz is charged after it is
  built, where its docstring says before.
- A streak read without a date is dated in UTC: west of it a live streak can
  show as 0.

## 11. Not modelled

- *A composition over one subscription*: settlement, groups, rewards and console
  all write `expires_at`. Each is modelled with its own plan row, in units of its
  own (periods, dates, days), and `Groups` alone has payments, the referral hook,
  rewards and the console write one row; but there a payment is always credited
  and a reward is only days. What a settlement that repeats or loses a credit
  does to a group, or a group that moves a date to the rewards that are banked
  against it, is in no module: together they are beyond what TLC covers in
  minutes.
- *Prompts, context, sanitising, retrieval, providers, storage*: text in, text
  out, or a query that PostgreSQL ranks. They keep no state between requests;
  what their failures do to a request is in `Tutor` and `Extraction`.
- *Profile photo, settings, feedback, devices*: one row of one account, written
  by its owner. The push token and the preferences are in `Notify`.
- *Analytics and the console's read-only screens*: aggregate queries.
- *Configuration, logging, start-up, migrations*: done before the first request.
- *`claim` of a referral code, the review account, the expiry of refresh tokens,
  the five minutes a release check may be cached.*
- Liveness is under `LiveSpec` (settlement, rewards) and `Spec` (extraction)
  only: nothing else in the code acts by itself but the reminder sweep, whose
  promises are stated as what an hour that was swept leaves behind.
- Type invariants are proved of every module but `Releases`, whose one variable
  has none (that of `Streak` is `NotAhead`); those of `Rewards` and `Tutor` are in
  no run.

## Running

    tlc -workers 2 -config settle_serial.cfg MCSettlement
    tlc -workers 2 -config groups_serial.cfg MCGroups
    tlc -workers 2 -config rewards_serial.cfg MCRewards
    tlc -workers 2 -config documents.cfg MCExtraction
    tlc -workers 2 -config phones.cfg MCSync
    tlc -workers 2 -config accounts.cfg MCAccounts
    tlc -workers 2 -config app.cfg MCApp
    tlc -workers 2 -config codes_overlap.cfg MCAccounts
    tlapm Settlement_proofs.tla

and so on for the other runs, and for `Groups_proofs`, `Extraction_proofs`,
`Rewards_proofs`, `Sync_proofs`, `Notify_proofs`, `Accounts_proofs` and
`App_proofs`.

`PROJECT.json` lists every run with its configuration, the mutated definition
each property is known to catch, the hazards of the code at their lines, and the
theorems.
