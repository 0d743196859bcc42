# Verification of the reward-distribution backend

This directory holds TLA+ models of the money-moving core of the backend and of
the queues and reviews around it (`apps/backend/src/modules`), the TLC configurations that check them on small
instances, and proofs that TLAPS checks for every value of the constants.
Paths below are relative to the repository; `modules/` stands for
`apps/backend/src/modules/`.

## 1. The system

A TypeScript monorepo. The backend is a set of services over one PostgreSQL
database; HTTP routes, admin pages and worker processes call the services
concurrently, and every service call is one or more database transactions.

| Component | State it keeps | Operations | Hard part |
| --- | --- | --- | --- |
| Wallet and ledger (`modules/wallet`, `modules/payment/ledger-mutation.ts`) | `user_wallets` balances, `ledger_entries`, `ledger_mutation_events` | idempotent ledger mutation, drift assertion | two copies of the same money |
| Withdrawals (`modules/withdraw`) | order row, review metadata | request, approve (once or twice), submit, process, fail, pay, reject, reverse | callbacks and admins in any order |
| Deposits (`modules/top-up`) | order row | create, pending, succeed, credit, fail, reverse | late callbacks, reversal of spent money |
| Review and status rules (`modules/payment/finance-order.ts`, `state-machine.ts`) | metadata of the order | dual-review gate, status graph | same reviewer twice |
| Webhook queue (`modules/payment/webhook`) | `payment_webhook_events` | queue, duplicate, claim, consume, finalize, recover | duplicates, crashes, slow workers |
| Outbox (`modules/payment/outbound`) | `payment_outbound_requests` | prepare, claim, send, retry, recover | unknown outcome of a call |
| Payment operations and reconciliation (`modules/payment/operations`, `reconciliation`) | alerts, runs, issues | scan, time out, repair | decisions from a snapshot |
| Wallet reconciliation (`modules/wallet/reconciliation-service.ts`) | alerts | scan, raise, resolve | scan races transactions |
| Prize draw (`modules/draw`, `modules/house`, `modules/bonus`) | pool, prize stock, draw records, wallet | draw | stock, caps and pool at their limit |
| Asset economy (`modules/economy/service.ts`, `modules/bonus`) | asset balances, ledger keys, gift energy | credit, debit, lock, settle, gift, adjust | key looked up before the lock |
| Store purchases (`modules/economy/iap-service.ts`) | orders, their delivery | verify, deliver, restore, reverse, replay | repeated and reordered notifications |
| Prediction markets (`modules/prediction-market`) | market, positions, oracle binding, appeals | stake, sell, settle, cancel, poll, appeal | oracle worker races admins; cents |
| Hold'em (`modules/holdem`) | table, seats, stacks, standings | create, join, leave, start, act, sit out, bots, timeouts | pots of unequal stacks; timeouts and heartbeats; money in three places |
| Blackjack (`modules/blackjack`, `modules/shared/transactional-game-runner.ts`) | games, hands, prize pool | start, hit, stand, double, split, timeouts | pool coverage of stakes raised several times |
| Play modes (`modules/play-mode`) | preference, sessions, held-back payouts | start, settle, cancel, hold back, release | a start is a chain of transactions; a snapshot kept in three places |
| Other games (`modules/table-engine`, `quick-eight`) | tables, stakes | actions, settlement | timeouts race actions |
| Hosted prize engine (`modules/saas`) | projects, draw records, reward envelopes, billing account, webhook deliveries | reward call, budget alerts, policy, deliver | ceilings, caps and keys decided on unlocked reads |
| Change control, settings and legal documents (`modules/control`, `modules/system`, `modules/legal`) | change requests, the configuration and its cache, publications | draft, submit, approve, reject, publish, apply | rows read without locks or from a cache, two-person rule |
| KYC and freezes (`modules/kyc`, `modules/risk`) | profile, documents, freeze records | submit, review, reverify, sweep | whole rows written back |
| Other compliance (`modules/aml`, `data-rights`, scores of `risk`) | checks, requests | review, expire | due dates |
| Notifications (`modules/auth/notification-service.ts`) | delivery queue | enqueue, claim, send, recover, requeue | locks that time out under slow dispatchers |
| Everything else (sessions, users, audit, forum, realtime, routes, user interfaces) | rows of their own | create, read, update, delete | no protocol |

`PROJECT.json` lists every component with its status and, under `hazards`,
the places where something can go wrong that a test would hardly reach.

Interactions. An order service locks the order row, then the wallet row, and
writes wallet, order, settlement event and ledger in one transaction; a thrown
error rolls all of it back. Provider notifications reach the same services
through the webhook queue, provider requests leave through the outbox. Nothing
outside the transaction is ordered: two workers, a redelivered notification,
an admin and a timeout may act between any two transactions.

A draw is one longer transaction. It locks the user, then the prize it picked,
then the house account, and keeps the locks to its end; a batch runs several
draws in the same transaction, so from its second draw on it locks prizes while
it holds the house account. The pool balance, the draw records and the cached
candidates are read without a lock. Prize edits of administrators come in
between.

The queues (payment webhooks, outbox, notifications, tenant webhooks) share a
pattern: rows are claimed with `FOR UPDATE SKIP LOCKED`, worked on outside any
transaction, and updated by id, whoever holds them by then; rows with an old
lock are given back by another worker. The reviews (change requests, KYC) read
rows without a lock and write whole rows back, and so does the publication of a
blackjack setting, which may have read the configuration from a cache. The hosted engine's reward call
is one transaction that locks the envelope's row, the billing account (if it has
a cap when the call authenticates) and the agent's row on its way, and reads the
rest without a lock. A hold'em table is
the opposite: every request and every pass of its worker locks the table's row
first, so they come one after another, and what can go wrong is a sequence.
Blackjack moves are the same under the lock of the user's row, but a start with
a play mode is several transactions, and a second start, a failure or a lost
request can come between any two of them.

## 2. The modules

| Module | Models | State | Actions |
| --- | --- | --- | --- |
| `FinanceWallet` | wallet row, ledger sums, business events, settlement references | `withdrawable`, `locked`, `ledgerWithdrawable`, `ledgerLocked`, `mutations`, `settlementRefs` | pieces of a transaction: `applyLedgerMutation`, `insertPaymentSettlementEvent`, `assertWalletLedgerInvariant` |
| `OutboundRequests` | outbox rows | `outbound` | `preparePaymentOutboundRequest` |
| `Withdrawals` | `withdraw/service.ts`, `withdraw-lifecycle-service.ts`, review gate | `withdrawals` | one per service function |
| `Deposits` | `top-up/service.ts` | `deposits` | one per service function |
| `FinanceOrders` | both on the shared wallets | all of the above | any actor, any call |
| `FundsCustody` | what the services promise about a user's money | `available`, `payout`, `topUp` | hold, pay out, give back, announce, credit, abandon, take back |
| `PaymentWebhooks` | webhook queue, HTTP receivers, workers over `FinanceOrders` | `webhookEvents`, `receivers`, `jobs` and two counters | one per database statement |
| `PrizeDraw` | `draw/`, prize pool of `house/service.ts`, prize edits of `admin/service.ts`, row locks of PostgreSQL | the tables (`wallet`, `luck`, `userPool`, `stock`, `spent`, `active`, `pool`, `houseTransactions`, draw records as counts), `cache`, and `tx`, the open transaction of each request | one per row lock a draw takes, commit, rollback, edit, cache reload, passing of time |
| `PrizeCustody` | what a draw promises about money and prizes | `wallet`, `luck`, `pool`, `stock` | settle, restock |
| `PaymentOutbound` | outbox worker, operations scan, provider, over `FinanceOrders` | `worker`, `attempts`, `placed`, `scan`, `faults` | claim, provider answer or failure, each order call, each mark, crash, recovery, snapshot, cleanup |
| `AssetLedger` | `economy/service.ts`, bonus grants, adjustments | balances, ledger keys, gift transfers, gift energy, freezes | credit, debit, lock, unlock, settle as pieces; gift, grant, adjust, refill as actions |
| `PredictionMarkets` | market life cycle, pari-mutuel settlement, oracle worker, appeals | market, positions, appeals, what each worker is doing | one per service function; the worker's select, evaluation and settlement apart |
| `StorePurchases` | `iap-service.ts` for one order | order, what each request has read | read, then one transaction per request |
| `TenantRewards` | `executePrizeEngineReward`, reward envelopes, billing hard cap, alert cycle | project, players, agents, draw records, envelope, billing, usage, and `call`, each open transaction | one per lock or unlocked read of a call; settlement; usage event; alert cycle and policy |
| `TenantWebhooks` | outbound webhooks of the hosted engine | endpoints, deliveries, workers | enqueue, claim, post, mark, stale lock, lost worker, edit, delete |
| `NotificationQueue` | notification deliveries and dispatchers | deliveries, dispatchers | recover, claim, send, finalize, lost tick, requeue |
| `LegalDocuments` | versions and publications of one document key | documents, publications | create, update, delete, publish |
| `ChangeControl` | change requests over configuration, tenants, providers and `LegalDocuments` | changes, the settings in force, the cache of the configuration, what each console has read | draft, and for submit, approve, reject, publish: read, then write; a setting is read, written and committed in three steps; the cache expires and is filled |
| `KycReview` | profile, documents and freezes of one user, expiry sweep | profile, papers, freezes, desks, sweep | read profile, read freezes, commit |
| `HoldemEngine` | the rules of a hand, `holdem/engine.ts` | none: operators from a table state to the states it may become | streets, pots, moves, showdown, rake |
| `HoldemTable` | hold'em service, wallet settlement, tournaments, bots, timeout worker, for one table | `table`, `seats`, `purse`, `bankroll`, `prizePool`, and the auxiliary `vanished` | one per request and per pass of the worker or the bot runner; three for passing time |
| `PlayModes` | preference, sessions and held-back payouts of one user and one game | `preference`, `sessions`, `deferred` | none: operators over the rows of a transaction |
| `Blackjack` | blackjack of one user, its play-mode wrapper and its timeout worker | `games`, `funds`, `bank`, and `starts`, where each start request is | one per transaction of a start; move, timeout, passing of a deadline, failed statement, lost request, change of mode |
| `Economy` | `AssetLedger`, `PredictionMarkets` and `StorePurchases` on the same balances | all of theirs | any of theirs |
| `BackOffice` | `ChangeControl`, `NotificationQueue`, `TenantWebhooks` and `KycReview` beside each other | all of theirs | those of the parts |
| `Games` | `HoldemTable` and `Blackjack` beside each other | all of theirs | those of the parts |
| `MCFinanceOrders`, `MCPaymentWebhooks`, `MCPaymentOutbound`, `MCPrizeDraw`, `MCEconomy`, `MCBackOffice`, `MCGames` | instances for TLC, rounds, properties that relate several modules | | |
| `SumTheorems` | facts about sums over finite sets, maxima and minima, which the other proofs cite | | |
| `FinanceOrdersProofs`, `PaymentsProofs` (webhook queue and outbox), `PrizeDrawProofs`, `EconomyProofs`, `BackOfficeProofs`, `HoldemProofs`, `GamesProofs` | theorems about the modules of these names and those they put together; `EconomyProofs` also has those of `TenantRewards` | | |

Operators carry the names of the functions they model; `PROJECT.json` maps
each to its lines.

How the code becomes actions:

* A service call that takes its row lock and commits is one action. An early
  return or an exception changes nothing and is no step, except where somebody
  observes it: a webhook worker turns an exception into a `failed` event.
* Statements that share no transaction are separate actions. In
  `queuePaymentWebhookEvent` the SELECT of the existing row and the UPDATE that
  writes its status back are two; a deposit success is two calls; the final
  UPDATE of a worker is one of its own.
* Amounts are cents. Ledger entries are kept as the two per-user sums the code
  reads; metadata as the fields that later decisions read. `status = "none"` is
  a row that does not exist yet.
* Inputs of an operation (reviewer, reference, channel, risk signals, the
  provider mode that routing chose) are chosen from small sets. Policy checks
  that only refuse a request (limits, KYC, AML, wagering, frozen accounts) are
  the choice not to call.
* `StrictInvariant` is `isStrictWalletInvariantMode()`: true in development and
  tests, where drift aborts the transaction, false where it is only logged. The
  behaviours of the strict environment are among those of the other, so
  `finance_orders` runs without it; the webhook runs are strict.
* The outbox mode `"provider"` of a withdrawal is the code path for an adapter
  that automates payouts. The adapters registered today (`manual_review`,
  `stripe`) automate deposits only.
* A webhook worker claims a batch and works through it; the model's worker
  holds one event, so a batch is several workers. The worker's crash can hit
  each of them.
* A draw is cut at its row locks: what it does between two of them is one
  action (`debitDrawCost`, `resolveDrawOutcome`, `applyHouseDrawEntries`). Its
  writes stay in its record of `tx` until `commit`; a statement without a lock
  sees the committed tables and the transaction's own writes (`poolSeen`,
  `drawnToday`, `winsSeen`), as READ COMMITTED does.
* Which candidate is picked depends on weights, jitter, pity and the seed. The
  model picks any cached candidate or the miss, so what is shown holds for all
  of them. `PoolNoise` is the set of values `applyPoolNoise` may add.
* A draw reads the clock once it has its user (`execute-draw.ts:264`) and decides
  with it, after it has waited for the prize, whether the prize's budget period is
  over. `ended` holds the periods that were over by that clock; a row another draw
  has restarted meanwhile is not over by it.
* Draw records are counts per user and day and per prize, of the current day
  and hour. Records carry the start of their transaction, as `created_at` does:
  `startedToday` turns false when midnight passes an open transaction.
* An edit sets the stock and the active flag of a prize, which is also what
  toggling and soft deletion do; rewards, thresholds and budgets are fixed, no
  prize is created, and the games' entries on the pool are left out. The
  invalidation after an edit reaches this process and Redis only, so the
  candidates are afterwards either fresh or still the old ones.
* The outbox worker takes one step per transaction or provider call. The
  provider is external: it keeps one order per idempotency key and may have
  placed the order although the call failed. Whether a row is due and an order
  stale are inputs; the scan keeps the statuses its snapshot saw and chooses the
  settlement reference from them, as the code does.
* Prediction markets: one market; stakes are cents; `payoutOf` is the code's
  rounding (down, then the cents left by largest remainder). What an oracle
  reports is an input. A worker keeps what it selected while others act.
* Store purchases: a request reads its order without a lock (`requestReads`),
  then runs the transaction that fits what it read and what it was told. The
  ledger keys of delivery, restore and reversal decide what is replayed. A gift's
  key is the client's (`economy/service.ts:1090`), so a gift may have the key of a
  store movement of the same account; a key that the ledger knows is replayed
  whoever wrote it.
* Change requests: a console's read and write are two steps, also for the checks
  and the insert of a legal publication's draft. A draft's fields
  are members of a small set. The publication of any blackjack setting first reads
  the whole configuration, from the cache or without a lock (`getBlackjackConfig`),
  and then writes what it carries and, as it read them, the stakes, multipliers
  and split hands (`writtenFields`). The rows stay locked and unseen until
  `systemConfigIsCommitted`; the cache is cleared before that, so it may be left
  empty, filled again with the old value or with the uncommitted one. A plain
  setting is written in the same step as those of blackjack. What a
  transaction reads of the active publications is the set of their ids; where the
  code takes the first of them, sorted by activation, the model takes the largest.
* KYC: an operation is three steps, since profile and freezes are read by two
  statements without locks. Freezes of other producers are left out.
* Notifications and tenant webhooks: a lock may time out under a worker that is
  alive (bounded) or gone. Retry delays are the action `comesDue`; transports
  answer as they like. Tenant webhooks are queued after the reward's commit.
* Reward call: whether it locks and reads the billing account is decided on the
  policy loaded when it authenticated (`shouldCheckBillingHardCap`); otherwise it
  goes on with that policy. The portal may set a first cap, change it or clear it.
  Steps end where the transaction waits for a lock or reads
  without one; locks are held by the calls past the step that takes them, to the
  end of the transaction. Which prize is selected is any available one or none
  (strategies, weights, seeds and risk adjustment only choose among them). The
  conditional updates of stock and pool, the player, the record and the
  envelope's counters are the one step `settleReward`: every call takes these
  rows in the same order and keeps them to its end. The player exists and the
  call does not rename it, so its row is not locked earlier. All calls are
  within one day and month; there is one reward envelope with one window length;
  group and agent limits, which take an advisory lock, are off.
* Hold'em: the deck, the seed and the ranking of hands are left out; a showdown
  gives the hands that are left any order, with ties. A bot chooses any move its
  code can choose with some cards. A time bank only lengthens a turn, so a turn's
  clock is not started, running or expired. `presence` is where a seat stands
  between its last heartbeat, its grace period and its lease; the pass over the
  seats that a heartbeat or a change of mode begins with commits before the rest
  and is a step of its own. `purse` is a
  player's balance of the table's currency, free and locked; only the changes of
  the bankroll are kept. `vanished` counts chips that left with a bot removed
  during a hand and, after that, the pots that only folded seats had a share in:
  no row holds them, and only properties read it.
* Blackjack: a payout is kept as the unrounded product of stake and multiplier
  (in hundredths of a cent) until it is stored; the wallet's balance, the pool's
  and the game's record of it are then each rounded half up, as `money.ts:7` does.
  Cards are ranks. The deal is one of `Deals` and a card drawn later
  any rank of `Ranks`, so what is shown holds for every order of the deck; the
  four copies of a rank are not counted. A settled game drops its cards. The
  legs of a dual bet carry the same `created_at`, and the model reads back the
  row that was inserted last (`blackjack-persistence.ts:528` orders by
  `created_at` alone). Streaks and multipliers of a mode change no stake and are
  left out; the KYC stake check is a refusal.
* Held-back payouts are kept as the sum of the pending rows of a mode; a release
  takes all of them, as the code does.

## 3. What is checked

Bounds are in the `.cfg` files.

| Run | Instance | Shows |
| --- | --- | --- |
| `finance_orders` | drift only logged (`StrictInvariant` false), 1 user, 2 withdrawals of 1 or 2 cents (2 needs two approvals), 1 deposit of 3, 2 admins, 4 references; symmetric in references and admins | `TypeOK`, `LedgerBacksWallet`, `MutationsMatchStatus`, `TwoReviewers`, `RiskRoutedStaysManual`, `LedgerIsExplained`, `ClosedStaysClosed`, and refinement of `FundsCustody` |
| `payment_outbound` | 1 withdrawal or 1 deposit next, 2 workers, 2 admins, the scan, 1 fault (crash or slow worker) | `OneProviderOrder`, `TwoReviewers`, `OrdersEnd` |
| `payment_webhooks` | success and failure notification of one deposit, 3 deliveries, 1 duplicate in flight, 2 workers; or four notifications of one withdrawal, 2 deliveries, 1 worker, 1 crash | `ProcessedEventIsFinal`, `EventsSettle` |
| `prize_draw` | 2 users of 3 cents, 2 prizes (one with a budget), 2 requests of up to 2 draws; 1 edit and 1 lost connection, or (kept apart by `MidnightAlone`) 1 end of a day, hour or budget period; daily limit 2, hourly cap, bankroll and payout ratio in force; symmetric in users and requests | `DrawTypeOK`, `PoolMatchesTransactions`, `BudgetKept`, `LimitsKept`, and refinement of `PrizeCustody` |
| `draw_liveness` | 2 users, 2 requests of up to 2 draws, payout cooldown in force, 1 lost connection | `DrawsEnd` |
| `economy` | ledger, markets and store: 2 users; a manual market with up to 3 positions, an oracle's market with 2 workers and 2 polls that do not resolve it, one store order with 2 concurrent requests out of 3, gifts and adjustments; gifts have the keys of a delivery and of a refund. Hosted engine: 2 concurrent calls out of 3 (2 beside changes of the cap), one agent that may be new, 2 prizes, 2 windows, hard caps 1, 3 and none | `RowsTypeOK`, `StakesAreLocked`, `SettlementPaysPool`, `BalanceIsExplained`, `UnrestoredRefundIsRecovered`, `FinalIsFinal`, `MarketEnds`, `RetryPaysOnce`, `WindowBudgetKept`, `PaidUnderHardCap` |
| `back_office` | 2 admins and 2 consoles with one change of any kind, two changes of 2 blackjack settings of which one is a limit, or two legal changes over 2 versions (two changes only by one author and without rejections, of settings submitted and approved in one session); 2 notifications, 2 dispatchers, batches of 2, 2 attempts; 1 webhook endpoint, 2 workers, 2 posts; one KYC profile with 2 desks and 4 requests; stale locks, lost workers, requeues and edits once or twice each | `BackOfficeTypeOK`, `InForceWasApproved`, `AlwaysAFullRelease`, `OpenReviewIsFrozen`, `QueuesDrain`, `ExpiredIsReverified` |
| `games` | hold'em: 3 seats, blinds 1 and 2; 3 players with stacks of 3 or 5 cents and one raked hand; 2 players who disconnect, lose their lease, sit out and return during a hand; 2 players, the first with 5 and the second with 3, and a bot with 3 or 5 at a casual table; a tournament of 3 players and 2 hands. Blackjack: ranks 1, 6 and 10, stake 2, wallet 9, pool 8 with a reserve of 1, naturals that pay 225 % (4.5 cents); one game with every move, up to 3 cards in a hand and 3 split hands; 2 start requests in each mode, with 2 games, 3 starts and 1 fault (deferred double), 2 games and 2 starts (snowball), 4 games and 2 starts (dual bet) | `GamesTypeOK`, `MoneyKept`, `SessionFollowsGame`, `NobodyWinsUnmatched`, `PlayEnds` |

`economy`, `back_office`, `payment_webhooks` and `games` hold
parts that share few or no tables. Each initial state picks one round (`Rounds`) in
which one part moves, so that their state
spaces add up instead of multiplying; the comments of `withinRound` say what a
round covers, and what it leaves out because it only renames sessions, requests
or administrators. The ledger is shared by markets, gifts and store orders, and the
rounds in which two of them move are the ones in which they can meet.

Why these bounds are enough: two withdrawals of one user are the smallest case
in which one order can take the lock of another; four references let each
order settle and be reversed, with repeats refused by the unique index; two
workers and one duplicate in flight are the smallest case in which a stale
write meets a claim. One user is enough for the order runs because no operation
reads another user's wallet; the theorems hold for any number. Two requests
with two draws each are the smallest case in which batches wait for each other
in a cycle, in which a batch draws the same prize twice, and in which two draws
decide on the same reading of the pool; two prizes of different reward make one
of them the top prize. Three positions of two users on two outcomes give a
remainder of cents to hand out, with a sale in between. Three store requests are
a purchase, its refund and one that overtakes or repeats. Three reward calls,
two at a time, are a call, its repetition and one that finds what they left; a
cap of 1 is reached by the first call, and one of 3 admits a prize after a call that
won nothing. Two settings, one of which every blackjack change writes back, and two
changes are the smallest case in which one publication undoes another.
Two attempts make a row pass from a retry to its last attempt. Three hold'em
seats with stacks of 3 and 5 give a main pot, a side pot, an uneven split
and a short all-in; a second hand of a tournament is
played by those the first has left, and pays two places. In blackjack, pairs of
sixes and aces can be split twice, which makes three hands of raised stakes the
pool of 8 can just not always cover; three starts are a win that is held back,
a start that is refused or fails, and the one that reads what it left.

`CHECK_DEADLOCK FALSE` is set for all runs but the draws: when all orders are
closed and all bounded inputs are used, nothing remains to be done. The draw
runs check for deadlock, since a user can always ask for another draw.

Fairness:

* `WebhookFairness` (`EventsSettle`, that the queue drains once deliveries stop): a request that has read its row answers;
  the dispatcher ticks for ever and every tick recovers stale locks and claims
  until nothing is due; a claimed event is worked on until the process dies.
* `FairDrawSpec` (`DrawsEnd`) is strongly fair to the steps of each open
  transaction. Weak fairness would be too little: a waiting step is disabled and
  enabled again each time the row changes hands. PostgreSQL queues the waiters
  of a row lock and passes it on when the holder ends, so a waiter is not
  overtaken for ever; it also finds every cycle of waiting transactions and
  aborts one of them.
* `DispatchersRun` (`OrdersEnd`): the outbox workers' and the
  scan's timers fire again and again and a cycle runs to its end. Strong
  fairness is assumed of one thing, that a snapshot taken again and again in
  time contains an order that is stale each time; the batch limit of the scan,
  which could defeat it, is not modelled.
* `MCSpec` of `economy` (`MarketEnds`): the oracle dispatcher's timer fires and a
  cycle runs to its end; polls that do not resolve the market are bounded.
* `MCSpec` of `back_office` (`QueuesDrain`, `ExpiredIsReverified`):
  dispatchers tick, workers take their cycles, delays and lock timeouts pass, and
  the sweep runs.
* `MCFairness` of `games` (`PlayEnds`): a turn's clock runs out and the timeout
  workers' cycles reach the table and the blackjack player. It is weak fairness
  with the enabling condition written out, which TLC evaluates much faster than
  ENABLED of these actions.
  Neither players nor the bot runner have to act.

Users, admins, providers and tenants are given no fairness. Crashes, slow
workers and deliveries are bounded, as an endless stream of any of them would
keep a row from settling.

### Disagreements between the code and what is said of it

Four runs expect a violation; `PROJECT.json` quotes the line each contradicts.

* `webhook_requeue`: a worker finalizes an event by id, over the requeue of a
  verified redelivery.
* `tenant_ceiling`: the tenant's daily payout is summed without a lock; two
  concurrent calls both pass on it and together pay more than the ceiling.
* `holdem_bots`: seats without chips are removed after every action. A bot that
  is all in leaves in the middle of the hand and its chips leave the pot: the
  house has booked its loss and no player has won it.
* `settings_lost`: publishing one blackjack setting writes the limits back as they
  were read. What another approved change has published in between is gone, with
  no request that says so.

### Met while modelling

Behaviour of the code that the models show and that has no run of its own. It is
listed for whoever changes the code next.

Orders and payments:

* Reversing a paid withdrawal clamps `locked_balance` at zero and so takes the
  lock of another open withdrawal (`withdraw-lifecycle-service.ts:187`); outside
  strict mode `locked_balance` then differs from the ledger, and
  `LedgerBacksWallet` bounds it from one side only.
* Approved withdrawals go to `provider_processing` and `provider_failed`, edges
  that `withdrawalTransitions` does not list.
* A deposit success that arrives after the timeout is let past the guard and
  refused by the status graph (`top-up/service.ts:656`); an immediate success of
  a deposit that is still `requested` throws for the same reason.
* A payout completion that overtakes "processing" changes nothing and is marked
  processed (`payment/webhook/service.ts:798`); a failed-withdrawal notification
  without a reference fails each time it is delivered (`:749`).
* The outbox worker sends the row of an order that was rejected meanwhile. No
  registered adapter executes payouts today.
* The operations scan takes the most recently updated stale orders first, a
  limited number of them: older ones may starve behind new ones.

Draws:

* The minimum reserve, payout ratio and thresholds are decided on a pool balance
  read without a lock (`draw/selection.ts:49`): two draws can take the pool below
  the reserve together. The hourly payout total has the same gap for draws of
  different prizes (`payout-policy.ts:63`).
* A draw that waited for its prize across the end of the prize's budget period
  books its reward on the period that is over, and the next draw starts from zero:
  `BudgetKept` bounds what is booked on a period.
* A draw opened before midnight that gets the user lock after it counts the new
  day and is recorded in the old one; `TodayLimitKept` speaks of the current day.

Markets and store:

* A poll that fails after its market was settled or cancelled opens an appeal on
  the final market (`prediction-market/service.ts:2043`).
* Concurrent "refunded" and "revoked" notifications each take the delivery back;
  a restore after a freeze delivers again; a manual order is restored without
  its approval; a late "purchased" sets a fulfilled manual order back to
  verified. `UnrestoredRefundIsRecovered` says what holds besides.
* An order that is refunded, restored and refunded again keeps its delivery: the
  key of the second reversal is the first one's (`iap-service.ts:1155`), so the
  debit is replayed and nobody is frozen. `UnrestoredRefundIsRecovered` speaks of
  orders before their first restore.
* A user who names a gift as the store names its ledger keys
  (`store_purchase_order:<id>:refunded`) makes the refund of that account look like
  a replay: nothing is taken back and nobody is frozen.
  `UnrestoredRefundIsRecovered` excepts it.

Hosted engine:

* Two first calls of a new agent with one key are both paid: the insert that
  meets the other's does nothing and locks nothing. `RetryPaysOnce` excepts
  calls that found no row of their agent.
* A call that read the clock before it waited for the envelope's row sets the
  row back to the old window; the next call then counts the new window from
  zero (`reward-envelope.ts:385`).
* A call that authenticated while the tenant had no hard cap neither locks nor
  reads the billing account (`prize-engine-service.ts:2665`) and pays a prize after
  another call has marked a cap set meanwhile as reached. `PaidUnderHardCap` speaks
  of the calls that look.
* Usage events are recorded after the commit and may be lost with the process:
  calls under way are not in the month's sum, so the hard cap can be passed by
  what they add, also by calls that look at the account. The alert cycle and the
  portal write the metadata back as they read it and can erase the reached mark.
* The stored answer of a reward is also written after the commit; if that is
  lost, a repetition is refused instead of answered.

Hold'em:

* After a bot was removed all in (`holdem_bots`) the hand may have one player
  left who is still to act. Folding, or timing out facing the bet, then finds no
  hand to show and throws ("Unable to resolve holdem showdown"). The cycle of
  `runHoldemTimeoutCycle` has no handler per table, and the table is again among
  the oldest deadlines of the next cycle: it keeps the ones behind it from their
  timeouts. `PlayEnds` excepts such a hand, and the fairness of the worker assumes
  there is no such table ahead.
* After the same removal, the chips that answered the bot's bet may be matched
  by nobody who is left. If the seat that answered folds later, a showdown leaves
  that pot without an eligible seat, and `settleShowdown` passes it over
  (`holdem/engine.ts:655`): its chips leave the table. If the hand ends by folds
  instead, `settleByFold` gives a short all-in chips it never matched.
  `TableMoneyKept` counts the pots without a winner as vanished, and
  `NobodyWinsUnmatched` excepts the hands a bot was removed from.
* A tournament's requested payout places are overwritten: `syncTournamentStandings`
  runs when its creator is the only player and stores the one place that fits.
* A hand that the blinds alone decide is settled inside `startHoldemHand` and
  never passes `persistHoldemTransition`: no rake is taken, no standing is
  written, its history stays active.
* A seat that is to act twice in a row (next street, one opponent all in) keeps
  the deadline it had, with whatever is left of it.
* A player who sat out by hand, lost the connection and came back is dealt in
  again: the disconnect replaces the reason for sitting out.
* An all-in below a full raise reopens the betting; the odd cent goes to the
  dealer first; at a casual table a hand of several players counts as solo once
  one of them only has chips behind.

Blackjack and play modes:

* A start that is refused because a game is open has already opened its session,
  and cancels it with the snapshot it read: from then on that session is the
  latest of its mode. After the running game is won, its payout held back and
  its session settled, the next start reads the cancelled session, finds nothing
  pending and releases nothing, although
  `apps/frontend/components/play-mode-switcher.tsx:45` says that wins release on
  the next hand. Two starts that overlap do the same. So does a start that is
  dealt a natural and then fails: its session is cancelled with the snapshot from
  before the game (`play-mode/wrappers.ts:645`), in which nothing is pending. The
  payout stays in the held-back rows, which `MoneyKept` counts.
* A payout that ends on half a cent is rounded up in the wallet and up again in what
  is left of the pool (`money.ts:7`, `house/service.ts:88`): the cent between them
  belongs to nobody's stake. The ledger row of such a payout and the pool's can each
  differ by a cent from the difference of the balances they carry. `MoneyKept`
  allows one cent for each game that paid.
* The legs of a dual bet each check that the pool can cover their own payout,
  and held-back payouts count as pool money: in these modes the pool can fall
  below its reserve. `MoneyKept` states the reserve for the standard mode.

Back office:

* An approval that read the request before it was rejected is written over the
  rejection, and the change can be published. Two publications of a provider draft
  insert two providers (`control-change-request-service.ts:1178`).
* The configuration's cache is cleared before the publication commits, so it may
  keep the old value, or that of a publication that rolls back afterwards. A later
  publication may write either of them back, also when the request it came from
  was rejected in the meantime; it was approved once, which is what
  `InForceWasApproved` says.
* Two legal drafts of one document can be inserted, since the check for a queued
  one and the insert share no transaction (`control-change-request-service.ts:997`).
* A legal document that is checked for publications and published before it is
  edited or deleted changes, or vanishes, as a published text
  (`legal/service.ts:177`). A publication can supersede the full release that
  another one has just chosen as the fallback of its gray release.
* A stale KYC submission restores a tier that was withdrawn meanwhile, and a
  sweep that read the profile before its renewal withdraws the renewed tier. One
  profile's conflict ends the sweep's cycle for those behind it.
* One active freeze record exists per scope, and a producer that finds one
  changes its reason: another producer's freeze takes the KYC record over and
  its release lifts both, which the separate producers of
  `docs/adr/0004-user-freeze-taxonomy.md` do not suggest.

`docs/architecture.md` and the repository's README also say that outbound
gateway calls and webhooks do not exist yet; the code has both, and the models
follow the code.

## 4. What is proved

The theorems hold for every value of the constants that the `ASSUME`s of the
modules allow; the runs of section 3 check the same formulas on one instance of
each. The assumptions say that amounts, bounds and limits are natural numbers
(positive where the code refuses zero), that null values are not identifiers and
identifiers of different tables differ. Four of them say more:

* `FiniteOrdersAssumption`: there are finitely many orders, without which sums
  over them would not be defined. `DrawConstants` says it of the prizes.
* `WebhookAssumption`: a deposit notification names a deposit, a withdrawal
  notification a withdrawal, as the adapters' parsers see to.
* `HoldemAssumption`: the rake is at most the whole pot (`rakeBps` up to 10000).
  `loadHoldemRakePolicy` takes the administrator's number as it is
  (`holdem/service.ts:567`), and of a rake above 100 % the house would book more
  than the winners pay.
* `OutboundAssumption`: the provider's order id depends on the order only. The
  provider is external.

Sums. `SumFunctionOnSet` folds over a set in an order that CHOOSE fixes, so
nothing about it is obvious. `SumTheorems` proves what the other modules use: a
sum over a finite set is an integer, adding, removing or changing one element
changes it by that element, equal terms have equal sums. The arguments are by a
smallest counterexample of the cardinality, since induction theorems with an
operator parameter are out of the provers' reach.

**Orders** (`FinanceOrdersProofs`).

* `TypeCorrect`: no balance goes below zero. `TypeOK` is inductive by itself
  because every subtraction is guarded or clamped.
* `LedgerAlwaysBacksWallet` and `MutationsAlwaysMatchStatus`, from the
  inductive invariant `LedgerInv == TypeOK /\ MutationsMatchStatus /\
  LedgerBacksWallet`. The ledger agrees with the wallet only if no operation
  meets a business event it has already recorded, and that follows from the
  order statuses: the two invariants need each other.
* `LedgerAlwaysExplained`: the orders account for both sums of every user. Given
  `LedgerInv`, each step changes the term of one order, and the sum by as much.
* `AlwaysTwoReviewers` and `RiskRoutedAlwaysManual`, from `ReviewInv`, which
  adds that a pending review belongs to a recorded reviewer and that only
  provider orders reach the outbox.
* `ClosedOrdersStayClosed`, an action property.
* `ImplementsCustody`: every step is a step of `FundsCustody` or leaves its
  state unchanged. The mapping reads the holder of an order's money off its
  status.

**Webhook queue** (`PaymentsProofs`). `ProcessedEventAlwaysFinal`, from
`QueueInv`: what a job or a request holds about an order stays true whatever
happens to the order, because no edge of the status graphs leads back into the
statuses an operation acts on. `WebhooksCallOrderServices` is the refinement
`WebhookSpec => Spec`, which carries the theorems about orders over
(`WebhooksKeepOrdersSound`).

**Outbox** (`PaymentsProofs`). `OneProviderOrderAlways`, from `OutboxInv`:
wherever a worker was overtaken (its lock expired, it restarted, the scan acted),
the rows it claimed are still in the outbox, past the provider's answer its order
is placed, and it does not run out of calls before the order moved on. The worker
writes metadata of a withdrawal back as it read it, which is no step of
`FinanceOrders`; so `OutboxKeepsOrdersSound` is proved from invariants of its own:
the metadata a worker holds already has its reviews, and none of the operations
that may follow needs them again.

**Draws** (`PrizeDrawProofs`).

* `DrawTypeCorrect`: no wallet is overdrawn and no prize oversold, also in what
  an open transaction has not committed yet.
* `PoolAlwaysMatches`, `BudgetAlwaysKept`.
* `ImplementsPrizeCustody`: every step of a draw but `commit` leaves the state
  of `PrizeCustody` unchanged, and `commit` is one settlement of the user.
* `LimitsAlwaysKept`: the draws per day, and the wins of a single top prize per day
  and hour.

The first three follow from the inductive invariant `DrawInv`. What is committed
says nothing about what an open transaction is about to write over it, so
`DrawInv` adds that locks are exclusive (`LocksExclusive`), which rows a
transaction holds at each point of the draw (`TxShape`), that its versions of
wallet and pool are the committed ones plus its own changes (`TxMoney`, which is
why writing an absolute value loses nothing), and that its version of
`payout_spent` is within the budget (`TxBudget`). `LimitInv` adds to it that an
open transaction of today has room for the draws and every one for the top-prize
wins it holds, whatever commits meanwhile.

**Economy** (`EconomyProofs`, of `EconomySpec`: gifts, grants, a market and a
store order interleaved on the same balances). All follow from `EconomyInv`.

* `StakesAlwaysLocked`, `BalanceAlwaysExplained`: sums over positions and gifts.
  Nothing is assumed of gift keys: a movement whose key the ledger knows is not
  applied, and what was is in the sums once.
  An operation on the market changes the same rows of both sides; the market's
  status rules out that a position is closed twice.
* `SettlementAlwaysPaysPool`: payouts and fee add up to the pool to the cent for
  any number of stakes, because rounding down leaves fewer cents than winners,
  ranks by remainder are distinct, and so each cent goes to exactly one winner.
  A larger stake never gets less, since an extra cent goes to a smaller share
  only if the larger one rounds down to more.
* `SettlementNeverThrows`: the settlement's two assertions hold in every state.
* `FinalStaysFinal`, an action property of the market and its positions.
* `RefundAlwaysRecovered`: requests act on an order as they read it, so
  `EconomyInv` says of every open request what it may have seen: an order that
  needed no approval and was not restored is never read as unfulfilled, and once
  any request saw it reversed, its delivery was taken back or its owner frozen. The
  exception is a gift of that account with the key of a reversal.
* `EconomyTypeCorrect`: the types of both.

**Back office** (`BackOfficeProofs`).

* `OpenReviewAlwaysFrozen`, from `KycInv`, which adds what a request holds once it
  has read the freezes: a submission or a reverification is about to insert one,
  since every active record it could have found is KYC's own and it releases
  those, and a request for more information releases none.
* `ChangeControlTypeCorrect`, `InForceWasAlwaysApproved`, `FullReleaseAlways`,
  from `ControlInv`. A session keeps what it read true because no step withdraws
  an approval or rewrites an author. A value in force may have come through the
  cache and out of a configuration some publication read, so `ControlInv` says of
  all three places, settings, cache and consoles, that every value in them belongs
  to a request that another administrator than its author approved. For the releases it adds what a session that
  publishes has seen: all it has not seen is later, and the latest full release
  it saw is still active or another one is (`SeenOK`). `ChangeControlAssumption`
  has at least one provider row to exist and the settings that blackjack changes
  write back to be blackjack's.
* `BackOfficeTypeCorrect`: the types of all parts. For the queues it follows from
  `NotificationInv` (a dispatcher holds rows exactly from its claim to the end of
  its batch, never more than `BatchSize`; a row being sent is not due) and
  `WebhookInv`. A row may be taken from a dispatcher that still holds it, and
  neither invariant needs it not to be. There are finitely many deliveries, so
  that a batch can be listed.

**Hosted engine** (`EconomyProofs`, of `TenantRewardsSpec`): `TenantRewardsTypeCorrect`,
`RetryAlwaysPaysOnce`, `WindowBudgetAlwaysKept`, `AlwaysPaidUnderHardCap`, from
`RewardsInv`: calls do not hold the same lock (`Exclusive`), what a call read
under a lock is still what the table says (`CallOK`), and the envelope's counter
is the sum of its window's records as long as windows are booked in order
(`WindowsOK`). The tenant may set, change and clear its cap at any time. The
exceptions are those of the properties: calls that found no
row of their agent, windows booked out of order, and calls that authenticated
before there was a cap or a mark and so do not look at the account, and pay past
it.

**Blackjack** (`GamesProofs`, of `BlackjackSpec`: the starts of any number of
requests, their failures and losses, moves, deadlines and changes of mode, in any
order).

* `BlackjackMoneyAlwaysKept`: the wallet holds, to the cent, what the games' records
  say; wallet and pool together have at most one cent too much for each game that
  paid, from rounding them apart, and never too little; the stakes of a game's hands
  add up to what was taken for it; and while the standard mode is played the pool
  keeps its reserve. Before a stake is raised the pool must cover the payout of the
  raised total; the hands of a split are paid together, unrounded, and never get
  more.
* `SessionAlwaysFollowsGame`, `BlackjackTypeCorrect`.

All follow from the inductive invariant
`GamesInv == SoundGames(books) /\ HandsOK(games) /\ RequestsOK`, which is the
theorem `GamesAlwaysSound`. `SoundGames` is about the rows any transaction may find: money
adds up but for the rounding (`Balanced`), a session refers to rows that exist and no two to one game
(`References`), every active game has its session (`Followed`) and a parent lives
as long as its legs (`Families`), an active game has been paid nothing
(`Unpaid`), and the pool covers what the one active game can win (`Reserved`).
`HandsOK` is about the hands of an active game. A start is a chain of
transactions and carries a snapshot of a session that others may write
meanwhile, so `RequestsOK` says what stays true of it: the session it opened has
the mode it asked for and no legs, no other request has the same one, and it has
no active game when the request cancels it. What every transaction leaves of the sessions that others hold
is one predicate (`Frame`), proved once for each kind of transaction.
`BlackjackAssumption` says that a natural pays no less than a win and that the
number of split hands is within the limits of the configuration. Nothing in the
code keeps a push from paying more than a win, or an administrator from setting
a reserve the pool does not have: the reserve is claimed of the rest.

**Hold'em** (`HoldemProofs`, of `HoldemSpec`: one table with any number of seats,
players, chips and hands, its requests, bots and workers in any order).

* `TableMoneyAlwaysKept`: every cent bought in is in a wallet, a stack, a pot, the
  house or the prize pool; what is locked for a player is the player's stacks; a
  tournament's pool and chips are those of its entries until it pays all of it
  out.
* `TableTypeCorrect`: no stack, bet or balance falls below zero, and a hand that
  goes on waits for a seat that can act and whose clock was started.

Both follow from `HoldemInv == Sound(e) /\ Clocked(e)` of the rows `e` a
transaction loads. `Sound` is kept by every transaction and needs more than the
two theorems say:

* `HandOK`: what a hand leaves between two moves. Where no bot can leave during a
  hand there is one level of the earlier streets such that no seat has put in more
  than it and its current bet, an active seat exactly that, and a seat that has not
  folded the most of all (`Betting`). Hence every pot has a seat that may win it,
  and no chips vanish outside casual tables.
* `Turn`: the pending seat can act and a human is in the hand, so the bots never
  leave under a running hand.
* `Locks`, `Kinds`, and `worth(e)`, the sum of all money, which is constant.
* `Event`: who still plays a tournament has a seat and no place (`Seating`), and
  the places behind are taken by one player each (`Placing`), so the paid places
  are paid once and their prizes add up to the pool (`PrizesAddUp`). Places are
  ranks by chips and seat, which are distinct.

The steps of a hand are proved about `HoldemEngine`'s operators: the pots' levels
cut each contribution into parts that add up to it, the shares of a pot add up to
it with its odd cents (`SharesAddUp`), the rake of a pot is at most the pot. A hand
that ends is booked as the difference of stacks (`Booked`), which is why nothing
may change hands between loading and saving. `vanished` is in the sum: it counts
the chips of section 3 that leave with a bot.

**Both games** (`GamesProofs`): `GamesTypeCorrect` and `MoneyAlwaysKept`, of
`GamesSpec`, in which each takes its own steps; hold'em keeps its money to the
cent, blackjack to the cents of `BlackjackMoneyAlwaysKept`.

TLC finds no violation of the inductive invariants either, on the instances of the
runs (`finance_orders`, `payment_webhooks`, `payment_outbound`, `prize_draw`,
`economy`, `back_office`, `games`).

Model-checked only:

* Liveness (`EventsSettle`, `OrdersEnd`, `DrawsEnd`, `MarketEnds`, `QueuesDrain`,
  `ExpiredIsReverified`, `PlayEnds`), which needs fairness and ENABLED.
* `NobodyWinsUnmatched` of hold'em: an action property that relates the stacks
  before and after a whole hand, seat by seat.

## 5. What is not modelled, and the plan

Not modelled for good: user interfaces, create-read-update-delete modules,
cryptography (signatures, seeds, one-time codes), payload parsing, provider
HTTP clients, metrics, reports and audit text. They are most of the repository's
lines: the models cover a part of the backend, the part in which requests,
workers and time meet on shared rows.

Left, in this order:

1. Proofs: `NobodyWinsUnmatched`, from the parts of a pot that each seat put in.
2. `PaymentReconciliation` and `WalletReconciliation`: findings, repair tasks
   and alerts over moving orders.
3. `TableEngine`: rounds, seats and phases; the play-mode wrappers of the draw
   and of hold'em, with linked tables.
4. Billing runs of the hosted engine, its group and agent limits; AML reviews;
   data-rights requests; freezes of the other producers beside KYC's.
5. `DrawSelection`: weights, jitter, pity boost and pick as operators, checked
   against a reference definition; bonus and wagered balances.
