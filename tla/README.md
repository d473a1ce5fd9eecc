# AI Video Creator: TLA+ models, checks and proofs

This directory holds TLA+ specifications of the parts of the repository whose
correctness depends on the order in which things happen: how a video is
ordered, made, approved and published, how its provider calls are paid, how
money comes in and goes out, and how the pages of creators, superadmins and
finance staff drive all that while others do the same. A module follows an
operation from the page through the view and the service to the row, and
through the external system where one answers. TLC checks small instances;
TLAPS proves every safety property for every value of the constants.

Contents: 1 the system, 2 the modules and how they correspond to the code, 3
the runs and what they show, 4 fairness, 5 what is proved and how, 6 what is
only model-checked, 7 what is not modelled, 8 what could come next, 9 how to
run it.


## 1. The system

A Django project (`src/backend`) with Celery workers, PostgreSQL and Redis,
and a React client (`src/frontend`). A creator connects a YouTube channel,
signs a contract, subscribes to a plan and receives videos. A *job*
(`video_jobs`) is created by "Generate now", by an approved content plan or by
a scheduler, goes through stages run by Celery tasks, is moderated twice, is
approved by the creator and uploaded.

| Component | State | Operations | Hard behaviour | Module |
|---|---|---|---|---|
| Plan quota `billing/quota.py` | `usage_counters`, one row per period | reserve, release | limits read before the row lock; clicks, scheduler and plan change race for the last unit; lock order | `JobQuota` |
| Job entry points `content_planning/services.py`, `tasks.py` | `video_jobs` | generate_now, enqueue, cancel | views act on rows loaded before the transaction | `JobQuota`, `StagePipeline` |
| Stages 1-6 and both gates `video_pipeline/tasks.py`, `services/`, `moderation/` | job status, checkpoints, provider orders, messages | one task per stage, judge, apply, decide | redelivery, crash between commit and message, retry budget, advisory lock, stale rows | `StagePipeline` |
| Approval, edits, final gate, upload `approval.py`, `youtube_upload.py`, `VideosPage`, `VideoDetailPage`, `ModerationPage` | status, file, text, `moderation_logs`, uploads | approve, reject, request changes, edit, expire, upload | stale rows, edit or new cut after approval, second delivery of the upload | `VideoDesk` |
| AI wallet `billing/wallet.py`, `signals.py`, `maintenance.py` | `ai_wallets`, entries, reservations, holds | credit, reserve, check, debit, hold, release, reverse | unlocked checks, crash between usage row and debit, refund before payment | `AIWallet` |
| Stripe events `billing/services.py` | `webhook_events`, `subscriptions` | inbox and handlers | at-least-once, out of order, overlapping and failing handlers | `AIWallet`, `AgreementDesk`, `PlanShop` |
| Sale of plans `telegram_integration/views.py`, `CommercialSettings` | plan, rate, Stars orders, wallet entries | order, pre-checkout, successful payment | price changed under an order, answers lost between Telegram and the database | `PlanShop` |
| Contract and subscription pages `contracts`, `ContractPage`, `BillingPage` | versions, contracts, subscription row | read, tick, sign, publish, retire, buy, save card | version changes under a reader, tabs | `AgreementDesk` |
| Channels `channels/services.py`, `ChannelPage`, `PreferencesPage` | accounts, tokens, consent states | consent, callback, refresh, disconnect | refresh overlapping a disconnection | `ChannelDesk` |
| Assistant and content plans `content_planning`, `AssistantPage`, `ContentPlanPage` | turns, plans, drafts with request keys | ask, answer, prepare, edit, approve | lost answers, redelivery, dead workers, tabs | `PlanningDesk` |
| Engines and prices `adminpanel`, `AdminConfigPage` | credential rows, test results | save, test, switch, PATCH | a test of what is no longer saved, whole-row writes | `ConfigDesk` |
| Public lists `adminpanel/partners.py`, `PartnersPage`, `AuthLogoSettings` | rows, form, list in the page | edit, save, remove | one form for new and edited rows | `PartnerDesk` |
| Revenue `revenue`, `SettlementForm`, `RevenuePage` | settlements, statements, Stripe invoices | settle, close, finalize, dispute | look, then write; a charge inside a transaction | `RevenueDesk` |
| Payoneer payouts `payoneer`, `AdminPayoneerPage` | accounts, payees, payouts | save, test, remove, send, check | lost answers, overlapping buttons | `PayoutDesk` |
| Virtual numbers `virtual_numbers`, its two pages | offer, stock, orders | quote, buy, webhook, cancel, refund, expire | last number, request keys, two gateways, repricing | `NumberDesk` |
| Website services `web_services`, its two pages | packages, orders, payment pages | preview, agree, pay, deliver, refund | terms change under the reader, lost returns, replaced pages | `ServiceOrders`, `ServiceSale` |
| Session of a tab `api/client.ts`, stores, guards, `accounts/views.py` | tokens, cookie, requests, route | sign in, refresh, repeat, log out | rotating cookie, 401s in flight together | `ClientSession` |

How they interact: the entry points call `reserve_quota` inside their
transaction, and send the stage 1 message when it commits. Each stage task
loads the job, writes its status, works, stores a checkpoint, writes "ready"
and sends the next stage's message. Paid stages ask the wallet before every
provider call (`reserve_job`, `ensure_job_call_budget`), and the row they log
afterwards (`record_api_usage`) debits it through a `post_save` signal. A
status that ends a job releases its reservation, through another signal.
Stripe and Telegram fill the wallet. People (creator, moderator, superadmin)
and timers change the same job row meanwhile, mostly without locking it. A
page of the client acts on what it loaded earlier (react-query caches), and
its request may fail after the server has carried it out.

What makes each part correct:

- quota: the counter equals the jobs that hold a unit; never beyond the plan;
  a unit goes only with its job;
- pipeline and publication: a paid step is paid once; only moderated material
  is offered, and only what was approved is uploaded; a job always ends up
  where somebody sees it;
- wallet: the columns equal what the rows add up to; a job stays under its
  ceiling; nothing stays held; refunds and payments commute;
- sales and orders: nobody pays another price, or is bound by another text,
  than he was shown; what was charged is served, returned or still being told;
- payouts and revenue: no payout is made twice, no settlement falls outside
  its statement, a disputed statement is not charged;
- configuration: what is switched on was tested, or priced, as it is now;
- session: requests share one refresh, and every request ends.

`PROJECT.json` lists every component with its sources and status, and every
hazard at the line where it bites, with the properties that are about it.


## 2. The modules

`map` in `PROJECT.json` gives the source lines of every definition. Operators
whose comment begins "Mutant of" are faults: they are no part of the
specification, and show that each property notices a plausible bug.

The MC modules give the constants of the instances. Three of them
(`MCOperatorDesk`, `MCFinanceDesk`, `MCStudioDesk`) hold several components
that share no row: a variable `page` chooses the one a behaviour follows. That
is no composition; it only lets one run check several small models. The
components that do interact are in one module each, from the page to the
external system.

What the modules have in common:

- A request that crosses a slow step is split there: what it read before stays
  in its record (`calls`, `handlers`, `txs`, `tests`, ...), and what it writes
  later comes from that record. This is how Django code behaves that loads a
  row, calls a provider and then saves. Where the code takes a row lock
  (`select_for_update`) around a whole operation, the operation is one action.
- `save(update_fields=...)` writes the named columns and leaves the others,
  plain `save()` writes the whole row as it was loaded.
- What a page shows is a variable where the server trusts it (a price it sends
  back, an id in a form) and is left out where the server checks everything
  again.
- Texts, files, prices and versions are values of small sets: the properties
  need to tell them apart, not to read them.

### JobQuota

A handler `h` is a process serving a web request or a scheduler tick; `tx[h]`
is its open transaction. What `_get_or_create_counter` reads before it locks
the counter row (period and plan limits) is read in `Open`; `ReserveGranted`,
`ReserveRefused`, `ReleaseHeld` and `ReleaseNothing` lock the row and test it;
the `Commit...` actions write back the values read under the lock, as Django's
`save` does. `RollBack` is the death of a process, or the refusal of the AI
wallet after the unit was reserved. `request_changes` and `cancel_job` act on
the row the view loaded: they never lock the job, and overwrite whatever it
says by the time they commit. Stage tasks (`TaskLoad`, `TaskStart`, `TaskEnd`)
load the row and later write it without testing it again.

### StagePipeline

`worker[w]` is the task instance a pool process runs, with the job as it was
loaded. `queue` is the bag of messages of the broker. A task goes through the
steps where it touches shared state: `Load` (with `_should_skip`), `Begin`
(`_set_status`), for paid stages `SkipPaid` (checkpoint found) or `Enter`
(advisory lock), `Pay`, `SaveOrder`, `Store`; `Assemble`; `Judge` and `Apply`
for the gates; then `MarkReady`, `Chain`, `Ack`. `Retryable`, `Resend`,
`GiveUp` and `Fail` are the error paths. `Die` loses a whole worker (the
message returns), `Kill` only the pool process (the message is acknowledged,
because `task_reject_on_worker_lost` is off), `Redeliver` is the visibility
timeout of Redis. The web process may also die between the commit of a
decision and its message (`HandOver`). Scripts are version numbers; a
voice-over, clips and a video carry the version they were made from. Verdicts
are free choices.

### VideoDesk

The end of the pipeline as the pages drive it: the creator approves, rejects,
asks for changes, edits the text, cancels; the moderator passes or refuses;
the superadmin cancels or retries; the timer expires. Every call is taken up
with the row it loaded (`calls`) and ends with a write of its own columns, so
any two overlap. A worker's task (`worker`, `queue`) may be delivered again
before it has ended. A cut is a content of the job's one file, a text a value
of title, description and tags; `approvals` collects the pairs a final
moderation approved, and `uploads` what `videos.insert` was called with.

### AIWallet

Every function of `wallet.py` is a transaction that locks the wallet row, so
it is one action, except where it reads before the lock: `Open` and `Release`
for `release_job` and `release_operation`, `FindGrant` and
`ReverseStripeRefund`. `claim[c]` is what a job's reservation has left or what
an unreleased hold of a content plan holds. `ReserveJob`,
`EnsureJobCallBudget`, `CallProvider` and `DebitUsage` are the four separate
transactions around one provider call; `Alone` is the advisory lock of
`serialized_paid_stage`. `Deliver`, the handlers, `MarkProcessed` and
`MarkFailed` are `record_and_dispatch_webhook_event`, whose parts commit
separately. `ReconcileHold` and `ReconcileRefund` are the beat task. Amounts
are whole units. The two-hour age of a hold is not counted, so reconciliation
can also meet a worker still at work; that only adds behaviours.

### PlanShop, AgreementDesk

Both model the `subscriptions` row, each as far as its question needs.
`AgreementDesk` has contracts (tabs that read, tick and sign while the
administrator publishes and retires versions; `sign_contract` reads, locks and
writes) and the reports of Stripe that change one subscription, handled
concurrently by handlers that write back what they loaded. `PlanShop` follows
the money: a Stars order keeps the price it was made at; the webhook of the
bot is one transaction around its calls to Telegram, so that a failure undoes
the database and not Telegram (`unsure` remembers such approvals); Stripe
sessions keep the price agreed, and their invoices credit the wallet.

### ChannelDesk, PlanningDesk

`ChannelDesk`: `account` has one row for YouTube and one for AdSense; consent,
callback, token refresh, disconnection and revocation read the row, ask Google
and write. `live` are the tokens Google accepts. `PlanningDesk`: `draft` with
its request key, `posts` on their way, `turn` the row a key made, `tasks` the
messages of the workers; and a ready plan that several tabs edit and approve
(`planShown` is what each tab has loaded). The wallet hold of a plan is in
`AIWallet`.

### ConfigDesk, PartnerDesk

`ConfigDesk`: the row of Claude and its secret carry the time of their last
write; a test remembers what it read, and what it found counts only if both
are the same when it is recorded. A write that comes in between is represented
by the two flags `rowSame` and `keySame` of the test. `patches` are PATCH
requests: the row they loaded and what they send, and `Merged` is what they
write. `PartnerDesk`: `fields[r]` says in which form the fields of row `r`
were typed, so that a row with the fields of another is visible.

### RevenueDesk, PayoutDesk

`RevenueDesk`: a transaction (`txs`) begins with its row lock and all its
reads and ends with its writes; the Stripe charge (`Bill`) lies between and
survives an `Abort`. Time is counted in half months. `PayoutDesk`: any field
values may arrive for any account (a form is a copy of an old row); `sending`
and `checks` are calls to Payoneer under way, `order` is what Payoneer knows
of a reference. A reference is drawn when the payout is created, and sent
again with it.

### NumberDesk

A purchase takes three steps on the server (reserve, call the gateway, record
the checkout), a refund three (read, call, write); webhooks come in any order,
late and again. `keys` are the request keys the page holds for each gateway,
`quoted` the totals it sent with a key.

### ServiceOrders and ServiceSale

`ServiceSale` is the abstract specification: an order is placed for one
document, which stays; money is taken only at the price of that document; the
order counts as paid only once money was taken; a returned payment is its end.
`ServiceOrders` has the order form with its cached catalog and preview, the
server's calls split at Payoneer's answers, the payment pages of Payoneer with
the notifications and browser returns that tell of them, and the operator. It
refines `ServiceSale` (`KeepsSale`): `deal[k]` is the order row read as
"open", "closed" (canceled), "paid" or "returned", `taken[k]` the prices of
its charged pages. Several operators act at once: the refund is split, so that
an update may come between.

### ClientSession

`req` are the calls of the page, `refresh` the two places a refresh comes from
(the bootstrap and the shared promise), `cookie` and `valid` the rotating
refresh token in the browser and on the server, `page` and `from` the route. A
call is sent, served and answered in separate steps.


## 3. The runs

| Run | Instance | Shows |
|---|---|---|
| `job_quota` | 2 jobs, 2 concurrent transactions, 2 plans, 2 periods, 1 charged regeneration | the counter is exact (`QuotaExact`), within the plan (`NoOverdraft`), a unit goes only with a canceled job (`UnitsGoOnlyWithTheirJob`), row locks are never waited for in a cycle (`CounterHolderNeverWaits`) |
| `stage_pipeline` | 2 workers, 1 retry, 1 disturbance | paid stages never overlap (`OneBuyer`), the voice-over is bought once (`VoicePaidOnce`), only moderated scripts are offered (`OnlyModeratedIsOffered`), states nobody looks at are the two named ones (`NoSilentStall`), the job comes to rest (`JobSettles`) |
| `ai_wallet_claims` | 1 job with 2 workers, 1 content plan, 1 invoice of 3 units, ceiling 2, prices 1 and 2, 2 concurrent releases per claim, 1 fault | the reserved column is backed (`ReservedIsBacked`), the ceiling holds (`SpentWithinBudget`), holds return (`HoldsAreReturned`) |
| `ai_wallet_refunds` | 1 invoice, refunds to 1 and to 3 of 3 units, a spending job, 2 faults | the balance is the ledger (`BalanceIsLedger`), refunds stay within the grant (`RefundsWithinGrant`) and arrive (`RefundsReachWallet`) |
| `service_orders_sale` | 1 request key, 2 drafts of one package, 2 offers, 2 payment pages, 1 change by the operator | what is ordered was agreed to (`OrderedWasAgreed`), a charge is never forgotten (`ChargeIsKnown`), the shop implements `ServiceSale` (`KeepsSale`) |
| `client_session` | 1 tab, a creator with a second factor, 4 token names, 2 queries, 1 failed call, logout or reload | the tab is not signed out over a token it replaced itself (`SessionKept`), nobody waits for a refresh that ended (`HeldIsRefreshed`), every query ends (`QuerySettles`) |
| `operator_pages` | numbers: 2 orders, 2 numbers, 2 tariffs, 1 new price, 1 fault; lists: 2 editors, 2 rows | one tenant per number (`NumberIsExclusive`), money and rental agree (`MoneyMatchesRental`), orders cost what was shown (`PricedAsQuoted`), rows keep their fields (`RowsKeepTheirFields`) |
| `finance_pages` | payouts: 2 accounts, 1 payee, 2 payouts, 2 references, 1 fault; revenue: 1 creator, 2 videos, 2 months, 2 amounts, 1 abort; shop: 3 prices of a plan, 2 rates, 1 Stars order with 2 payments, 1 Stripe session of 2 periods, 1 lost answer | default accounts can be used (`DefaultIsUsable`), a payout is one order (`PaidOnce`), settlements are in their statement (`SettlementsAreCounted`), disputed statements are not charged (`DisputedIsNotBilled`), payments are credited once and as agreed (`CreditedAsAgreed`, `ChargedOnce`, `ChargeIsNotForgotten`) |
| `studio_pages` | channel: 2 kinds, 2 tokens, 2 calls at once; contract: 2 versions, 2 tabs; billing: 2 sessions, 2 handlers at once; assistant: 3 drafts; plan: 2 items, 2 tabs; video: 2 workers, 2 cuts, 1 edit, 2 calls; engines: 2 admins, 2 models, 2 keys; prices: 3 requests | an account is connected only by a consent (`ReconnectsByConsent`), what is signed was read (`SignedWasRead`), what is active was paid (`ActiveWasPaid`), a draft asks once (`AskedOnce`), a plan becomes its jobs (`ApprovedAsPlanned`), only what was approved is uploaded (`PublishedAsApproved`), Claude answers as tested (`ClaudeWasTested`), what is on is priced (`ActiveIsPriced`) |
| `ai_wallet_webhook`, `studio_upload`, `shop_invoice` | as above, smaller where possible | findings, see below |

Type correctness is proved (section 5) rather than run: as a theorem of its
own for `JobQuota`, `StagePipeline`, `AIWallet` and `ServiceOrders`, as far as
an argument needs it in the inductive invariants elsewhere.

### Why the bounds are enough

`job_quota`: what can go wrong on a counter row takes two writers and two
jobs; two periods give a job that holds units in both, and a reservation that
began in the previous one. The plans are Free (one video, one in parallel) and
a paid one with room for more, so both refusals, the last unit and a downgrade
occur. `MaxPeriod` and `MaxRegen` bound counters that only grow.

`stage_pipeline`: two workers are what a race on one job needs (a third would
wait for the same lock); one retry already separates a first attempt, a retry
and a spent budget. `MaxDisturbed` counts crashes, kills, redeliveries,
restarts and requests for changes together: each is allowed at every point,
one per behaviour. The theorems about `OneBuyer` and `VoicePaidOnce` hold for
any number.

`AIWallet`: one job and one plan compete for the same credit, two workers for
the same job; a call of price 2 uses the ceiling up, one of price 1 leaves a
rest that is released and reserved again. A partial and a full refund are the
shortest sequence in which cumulative amounts can arrive in the wrong order.

`ServiceOrders`: two drafts of one package are an edit between preview and
click, two offers a change of price or terms; two payment pages are one that
was replaced. Orders meet only in `MAX_PENDING` and in the form, which holds
one key at a time; one order, abandoned, paid late, canceled or refunded,
meets every race of a page with the server and Payoneer.

`ClientSession`: two queries share a refresh or come one after the other; four
names are more than the tokens anybody holds at once, so a name given again is
no token that somebody still has.

Pages: two of whatever can race (orders for the last number, payouts,
handlers, tabs, calls, admins, workers), one of what races with nobody; two
values of whatever is compared (prices, versions, texts, keys, models); one
fault at any point. `MaxTurns`, `MaxOpen`, `MaxReports`, `MaxAtOnce` and the
like bound how many actors are at work at once or how often one of them comes
back. The tariffs 102 and 250 make rounded parts differ from the rounded
whole. Symmetry is used only in runs without liveness, between names that no
constant of the instance tells apart.

`CHECK_DEADLOCK FALSE` in all of them: a finished job, a delivered order or a
page whose bounds are used up is a legitimate end.

### Findings

Three places where the code does not do what its own text says. Each is a run
that checks one property, and a finding in `PROJECT.json` with the quoted
line.

1. `ai_wallet_webhook`: an event whose handler failed is taken for a duplicate
   when Stripe sends it again, answered 200 and never handled
   (`billing/services.py:196`).
2. `studio_upload`: a second delivery of the upload task between
   `videos.insert` and the write of the id uploads the video again
   (`video_pipeline/tasks.py:688`).
3. `shop_invoice`: an invoice handled before its checkout session finds the
   row of a creator who saved a card before, with the free plan, and is
   processed without a credit (`billing/services.py:306`).

Divergences met on the way that have no run of their own:

- `cancel_job` releases the quota before it owns the job: overlapping the
  scheduler's transaction it finds no unit, then overwrites the queued job:
  canceled, never started, charged. (`QuotaExact` still holds: the canceled
  job is counted as the holder.)
- The third regeneration should cost a unit, but `reserve_quota` is idempotent
  per job, so it never does; and no path gives a failed job's unit back.
- `task.retry(exc=exc)` raises `exc`, not `MaxRetriesExceededError`, when the
  budget is spent: the job stays in `retrying` with no message left, one of
  the two states `NoSilentStall` names.
- The checkpoint test of the script stage also looks at the job row loaded
  before the lock, and may buy a second script.
- A request for changes leaves the checkpoints in place, so every stage skips
  and the same video is offered again.
- A failure after the Stripe charge of a statement rolls the statement back
  and not the charge: the next finalization charges again (`Bill`, then
  `Abort`).
- A logout after the access token ran out is answered 401, which `/auth/`
  paths never refresh: the page forgets the session, the cookie stays valid.

Limits of the properties that hold, to be read with them.
`OnlyModeratedIsOffered` excepts behaviours in which a message was redelivered
after its task had handed the job on: two chains over one job can then
assemble a script version whose gate has not answered. `SpentWithinBudget` is
stated up to `lost`, the calls whose debit died with its process.
`ChargedOnce` excepts orders whose approval reached Telegram and was undone in
the database. `SettlementsAreCounted` is about contracts that share only the
revenue of platform videos: the others get a statement of the whole channel.


## 4. Fairness

- `StagePipeline!FairSpec` (`JobSettles`): weak fairness of the steps of a
  worker and of taking messages: provider calls and ffmpeg have timeouts, and
  a pool process that is up consumes its queue. No person has to act and
  nothing has to fail or succeed: the choice between success, retry and
  failure is free inside the fair step, and the retry numbers end repeated
  failures.
- `AIWallet!FairSpec` (`HoldsAreReturned`, `RefundsReachWallet`): the beat
  task runs again and again in a process of its own (migration 0006 of
  `billing`), so reconciliation of a hold is strongly fair (the bound on
  concurrent releases disables it now and then), that of a processed refund
  weakly, and a release that was begun and whose process lives gets the wallet
  row. Workers, planners and Stripe are not assumed fair.
- `ClientSession!FairSpec` (`QuerySettles`): every HTTP call ends, answered or
  failed (gunicorn ends a request after 120 seconds, and the browser a
  connection that broke), what waits for its promise runs, and the router
  follows a redirect when it renders. The user is not assumed to do anything,
  and the token may run out again at once after every refresh.

The other specifications state no fairness: their properties are about safety.


## 5. What is proved

Every safety property that a run checks, action properties and the refinement
included, is also a theorem: it holds for any number of jobs, workers, tabs,
requests, messages and crashes, where the run has two or three. The runs came
first, and still say what the theorems cannot: that the interesting states are
reached, and that a plausible fault is noticed.

A theorem assumes the named assumption of its module and nothing else. These
say what the code does of itself: amounts and bounds are numbers, names that
mean different things are different ("no page" is no page, a payment of
Telegram is no invoice of a session, `boot` is no query); `JobQuota` has
finitely many jobs; and in `ClientSession` any three holders of tokens leave a
name free, so that the server can always issue a new token. Each temporal theorem is Init,
step and implication, closed by `PTL`; the step is split by action. No module
with a theorem declares or reaches a RECURSIVE operator.

| Module | About | Inductive invariant | Theorems |
|---|---|---|---|
| `JobQuotaProofs` | `JobQuota` | `IInv`, `LocksInv` | `TypeCorrect`, `QuotaIsExact`, `NeverOverdrawn`, `UnitsStayWithTheirJob`, `NoLockCycle` |
| `StagePipelineProofs` | `StagePipeline` | `IInv`, `StallInv`, `SafeInv` | `TypeCorrect`, `OneBuyerAlways`, `VoiceIsPaidOnce`, `NobodyStallsSilently`, `OfferedWasModerated` |
| `AIWalletProofs` | `AIWallet` | `BudgetInv`, `RefundInv`, `ReserveInv`, `LedgerInv` | `TypeCorrect`, `SpendingIsCapped`, `RefundsStayWithinGrant`, `ReservedStaysBacked`, `BalanceStaysLedger` |
| `ServiceOrdersProofs` | `ServiceOrders`, `ServiceSale` | `IInv` | `TypeCorrect`, `OrdersWereAgreed`, `ChargesStayKnown`, `ShopImplementsSale` |
| `OperatorDeskProofs` | `NumberDesk`, `PartnerDesk` | `NumberInv`, `Together` | `NumbersAreExclusive`, `MoneyMatches`, `PricesAreQuoted`, `FieldsStayTogether` |
| `FinanceDeskProofs` | `PayoutDesk`, `RevenueDesk`, `PlanShop` | `PInv`, `RInv`, `ShopInv` | `OneOrderPerPayout`, `DefaultsStayUsable`, `SettlementsStayCounted`, `DisputedStaysUnbilled`, `CreditsAreAgreed`, `OrdersAreChargedOnce`, `ChargesAreNotForgotten` |
| `StudioDeskProofs` | `ChannelDesk`, `AgreementDesk`, `PlanningDesk`, `VideoDesk`, `ConfigDesk` | `ChannelTypes`, `SignInv`, `PaidInv`, `Planned`, `AskInv`, `VideoInv`, `Engines`, `Sound` | `ConsentReconnects`, `ContractsWereRead`, `AccessWasPaid`, `PlansAreKept`, `DraftsAreAskedOnce`, `UploadsAreApproved`, `ClaudeIsTested`, `ActiveStaysPriced` |
| `ClientSessionProofs` | `ClientSession` | `SessionInv` | `SessionsAreKept`, `HeldAreRefreshed` |

**JobQuotaProofs.** Exactness is not inductive, because a commit writes back
what was read earlier. `IInv` adds `RowInv`: a transaction that will change a
counter row has that row locked, and what it read (`used`, `ids`) is what the
row still says; `LimitsInv`: the limits a transaction read were in force, so
they are below `topVideos`; `StepsInv`: each operation goes through its own
steps. Every action is then a set with one element more or less, which
`HeldCount` turns into cardinalities. `NoLockCycle`: only the scheduler locks
a job row before the counter row, and only of a scheduled job, so a cycle
needs a counter row held for a scheduled job by somebody else. `LocksInv`
excludes it: `JobLocks` (a locked job row is a scheduled job's, under the
scheduler's own transaction), `CounterLocks` (a counter row is kept only by
who writes next, and by a cancellation only if it found a unit) and
`Scheduled` (a scheduled job has no unit, and no generation or request for
changes is about it).

**StagePipelineProofs.** `LockInv` says that whoever is between `Enter` and
`Store` is the holder of the advisory lock. `VoiceInv` says whose purchase
each counted one is: the stored voice-over, or the one the single buyer has
made; it needs that nobody who buys a voice-over found a checkpoint, which the
lock keeps true until `Store`. `CountInv` keeps the history counter above what
may still be lost. `NobodyStallsSilently`: `NoSilentStall` itself does not say
who looks after a job at work; `StallInv` does. It is a message, or a task
that has not handed the job on and has a retry left; the step that takes one
away leaves another, or ends in a status where somebody looks.
`OfferedWasModerated`: as long as no message was duplicated, one chain works
on the job (`AloneInv`: one message, or one task and no message). What that
chain knows when it is at some point (`KnowInv`), what its message stands for
(`MsgInv`) and what the row says (`DataInv`) together carry "this script
passed its gate" and "the video was made from this script" from the stage that
found it out to the offer.

**AIWalletProofs.** What a job may still spend is its claim, so `JobBudget`
bounds `spent + claim` by the ceiling, with the cost of a logged call that is
still in the claim as the exception; and, since `Release` may empty the claim
under a running call, that a call once allowed fits by itself. `OneCaller`
(from the advisory lock) makes the exception a single call. `RefundInv` adds
that a refund handler past `FindGrant` works on an invoice with a payment
entry, since entries are never deleted. The two columns are compared with sums
over all rows. `Total` counts the units of all amounts, so `TotalUpdate` (one
row changed from m to n moves the sum by n - m) needs no induction over the
rows; `TotalIsSum` in `MCAIWallet` compares it with the sum as a fold.
`ReserveInv` adds that a plan which has not held yet has no claim:
`HoldOperation` overwrites the claim without looking.

**ServiceOrdersProofs.** Orders and payment pages only evolve (`OrdersEvolve`,
`PagesEvolve`, true of every step): a placed order keeps its document, a
settled one stays settled, a page keeps its order and amount, a charge stays
one. Whoever is on the way with an order or a page, a request, a lookup or a
refund, knows only things that survive this (`CallsKnow`, `LookupsKnow`,
`RefundsKnow`), so nothing done between its steps can mislead it.
`ShopImplementsSale` maps Init to the initial state of `ServiceSale` and every
action either to a step of the abstract specification (`Agree`, `Charge`,
`Settle`, `Close`, `Return`), or to one that changes no deal.

**OperatorDeskProofs.** `NumberInv` says of every call to a gateway and every
charge of Stripe which order it is for and how far that order may be:
`Rented` (the state of a number is that of the one order that has it, and a
reserved number has a pending order), `Few` (the limit of pending orders),
`Paid` (an order has its payment exactly when it was served, and a refund under
way is about a served order), `Quoted` (a total on its way was quoted).
`Together` says of every place where fields of a partner or logo lie (the
rows, the list a page has loaded, its form, its request) that they are with
the id they were typed for.

**FinanceDeskProofs.** Payouts: `Carried`, a call under way carries the
reference of its payout, and payouts keep theirs; `Ordered`, an order known to
Payoneer belongs to a created payout with that reference. `DefaultIsUsable` is
inductive by itself: `Usable` is how `save_account` writes a row. Statements:
what a transaction has read of a statement and of its month's settlements is
still so when it commits (`SettleHolds`, `CloseHolds`, `FinalizeHolds`); the
locks keep it, and `Locked` says that two transactions about one creator are
the same unless one of them finalizes, and two finalizations of one month are
the same. Sales: `Remembered`, a payment that may still be charged, or was
reported, is the one its order remembers, unless Telegram has an approval that
the server lost; `Worth`, an order is paid exactly when one of its payments
was credited with its price, which is what a repeated report finds. A plan
that went for nothing is not credited, as `ChargeIsNotForgotten` says.

**StudioDeskProofs.** Contracts: `Honest`, a tab has ticked only the version
it shows, and its request carries that version. Subscriptions: what a report,
or a handler that took one up, says of a payment was so, and stays so
(`PaidInv`). Plans: `Planned`. Assistant: a draft and its key are one number
on every way to the server, and a turn is asked from "pending" only
(`TurnsOf`). Videos: what any row claims to be approved, the one in the table
and each that a worker has loaded, was approved as one file with one text
(`Proven`); approvals stay, so a worker that uploads what it loaded uploads
what was approved. Engines: a test that would still be believed when it ends
has read the key and the model that are saved now (`Faithful`). Prices: not
only the row, but also what every PATCH under way would write is priced,
whatever the row has become meanwhile (`Sound`). Accounts: the action property
needs the types only.

**ClientSessionProofs.** A 401 to a refresh ends the session only if nobody
replaced its token meanwhile. The requests share one refresh (`Shared`). The
refresh of the bootstrap is alone until somebody signs in (`Alone`), and then
has another token than everything sent later (`Overtaken`). So a refresh that
nobody overtook carries a token the server accepts, or the cookie itself, and
is refused only with it (`Told`). `Fresh` says that a token on its way back
from the server is good and nobody else's.


## 6. What is only model-checked

- Liveness: `JobSettles`, `HoldsAreReturned`, `RefundsReachWallet`,
  `QuerySettles`; the prover does not handle fairness.
- That the equality of `Total` with a fold over the rows (`TotalIsSum`) holds:
  a proof needs induction over the rows.
- The findings: a counterexample needs no proof.


## 7. What is not modelled

Across the models: creators, jobs, wallets and tabs are independent where
nothing locks across them, so one stands for all. Notifications, audit rows,
logging, encryption, storage clients, ffmpeg, prompts and HTTP wiring: no
decision reads them, or they are pure input and output.

- Quota and entry points: read-only usage summaries, and
  `materialise_scheduled_jobs`, which only creates rows for slots ahead.
- Pipeline: contents of scripts, sound, pictures, scores and thresholds;
  several clips stand for one purchase. The bounded tree of replacement jobs
  (`revisions.py`); the requeue of an upload for the next quota window and the
  daily units of `channels/quota.py`; the archive of a video to Telegram.
- Money: plans without an AI budget, the global ceiling of `cost_control` (a
  second, looser limit), prices above the estimate that was checked, the grace
  period of an unpaid subscription, the catalogue of video models, exchange
  rates and the import of estimates, Payoneer checkout links, text messages of
  virtual numbers, the files of a website order.
- Accounts: registration, e-mail confirmation, password reset, enrolment of
  the second factor, data requests and the users page: edits of single rows
  without a second actor.
- Configuration: the row of the private model switched off by a PATCH of the
  provider table, the banner form of the partners page (fields that are shown
  on the public page and read by nothing), and dashboards.
- The landing page, translations, mocks, components that only draw, and two
  copies of a minified build output (`index-BMRQCMPa.js`) whose source is not
  in the repository: nothing in them keeps state that another part depends on.


## 8. What could come next

1. `YouTubeUnits`: the daily units of the OAuth projects over the change of
   day, composed with the upload's requeue.
2. `Revisions`: the bounded tree of replacement jobs under concurrency.
3. What `OnlyModeratedIsOffered` leaves out: how far a second chain over one
   job, started by a duplicated message, can get.


## 9. Running it

    tlc -workers 2 -config JobQuota_safe.cfg MCJobQuota.tla
    tlc -workers 2 -config Stage_pipeline.cfg MCStagePipeline.tla
    tlc -workers 2 -config AIWallet_claims.cfg MCAIWallet.tla
    tlc -workers 2 -config ServiceOrders_sale.cfg MCServiceOrders.tla
    tlc -workers 2 -config OperatorDesk_pages.cfg MCOperatorDesk.tla
    tlapm JobQuotaProofs.tla

The other configurations run with the MC module of the same prefix. The
longest runs (`job_quota`, `stage_pipeline`, `operator_pages`) take about two
minutes.
