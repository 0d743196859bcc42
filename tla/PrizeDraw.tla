------------------------------ MODULE PrizeDraw ------------------------------
(***************************************************************************)
(* The prize draw: requests run executeDraw, or a batch of it, each in one *)
(* READ COMMITTED transaction that locks the user row, then the prize it   *)
(* picked, then the house account, and keeps every lock to its end. Reads  *)
(* that take no lock see what is committed and the transaction's own       *)
(* writes.                                                                 *)
(*                                                                         *)
(* Weights, jitter and pity only decide which candidate is picked: the     *)
(* pick is any candidate or a miss.                                        *)
(***************************************************************************)
EXTENDS Integers, FiniteSets, FiniteSetsExt

CONSTANTS
    Users, Prizes, Requests,
    House,                  \* the row of house_account
    Miss,                   \* the synthetic miss candidate
    DrawCost, MinDrawCost, MaxDrawCost,
    MaxDrawPerRequest,      \* draws of one batch
    MaxDrawPerDay,
    DrawCooldown,           \* draw_system.cooldown_seconds > 0
    RewardAmount,           \* per prize, as are the next three
    PoolThreshold,
    UserPoolThreshold,
    PayoutBudget,
    PoolNoise,              \* the values applyPoolNoise may add
    MinReserve,
    HouseBankroll,
    MaxPayoutPct,           \* pool_max_payout_ratio in percent
    PayoutCooldown,         \* payout_cooldown_seconds > 0
    MaxTotalPerHour,
    MaxBigPerHour, MaxBigPerDay,
    InitialWallet, InitialPool, InitialStock,
    MaxUpdates,             \* bound: prize edits
    MaxTicks,               \* bound: ends of a day, an hour or a budget period
    MaxFailures             \* bound: transactions lost to a crash

Rows == Users \cup Prizes \cup {House}

ASSUME DrawConstants ==
    /\ IsFiniteSet(Prizes)
    /\ House \notin Users \cup Prizes /\ Users \cap Prizes = {} /\ Miss \notin Prizes
    /\ {DrawCost, MinDrawCost, MaxDrawCost, MaxDrawPerRequest, MaxDrawPerDay,
        MinReserve, HouseBankroll, MaxPayoutPct, MaxTotalPerHour, MaxBigPerHour,
        MaxBigPerDay, InitialWallet, InitialPool, InitialStock,
        MaxUpdates, MaxTicks, MaxFailures} \subseteq Nat
    /\ {RewardAmount, PoolThreshold, UserPoolThreshold, PayoutBudget} \subseteq [Prizes -> Nat]
    /\ PoolNoise \subseteq Int
    /\ {DrawCooldown, PayoutCooldown} \subseteq BOOLEAN

VARIABLES
    wallet, luck, userPool,     \* per user: withdrawable, B_LUCK, user_pool_balance
    stock, spent, active,       \* per prize: the columns draws and edits write
    expired,                    \* prizes whose budget period is over
    pool, houseTransactions,    \* prize pool and the sum of its transactions
    drawn,                      \* draw records by user and day, "today" or "yesterday"
    won,                        \* winning records by prize, of the "day" and the "hour"
    recentDraw, recentWin,      \* users inside the cooldowns
    cache,                      \* candidates in the probability pool cache
    tx,                         \* the open transaction of each request
    updates, ticks, failures

walletVars == <<wallet, luck, userPool>>
prizeVars == <<stock, spent, active, expired>>
houseVars == <<pool, houseTransactions>>
recordVars == <<drawn, won, recentDraw, recentWin>>
tables == <<walletVars, prizeVars, houseVars, recordVars>>
counters == <<updates, ticks, failures>>
drawVars == <<tables, cache, tx, counters>>

-----------------------------------------------------------------------------
max(a, b) == IF a >= b THEN a ELSE b

effectiveDrawCost ==
    LET raised == IF MinDrawCost > 0 /\ DrawCost < MinDrawCost THEN MinDrawCost ELSE DrawCost
    IN  IF MaxDrawCost > 0 /\ raised > MaxDrawCost THEN MaxDrawCost ELSE raised

(***************************************************************************)
(* A transaction: the rows it holds and its uncommitted versions of them.  *)
(***************************************************************************)
NoTx ==
    [pc |-> "idle", user |-> House, left |-> 0, startedToday |-> TRUE, locks |-> {},
     pick |-> Miss, snapshot |-> 0, candidates |-> {}, reward |-> 0, draws |-> 0,
     wallet |-> 0, luck |-> 0, userPool |-> 0, pool |-> 0, delta |-> 0,
     spent |-> [p \in Prizes |-> 0], wins |-> [p \in Prizes |-> 0],
     ended |-> {}, reset |-> {}]

held(r, row) == row \in tx[r].locks

free(r, row) == \A q \in Requests \ {r} : ~held(q, row)

(* What r's statements see. *)
walletSeen(r) == IF held(r, tx[r].user) THEN tx[r].wallet ELSE wallet[tx[r].user]

luckSeen(r) == IF held(r, tx[r].user) THEN tx[r].luck ELSE luck[tx[r].user]

userPoolSeen(r) == IF held(r, tx[r].user) THEN tx[r].userPool ELSE userPool[tx[r].user]

\* Mutant: the pool is written from the value the selection read.
poolSeenAtSelection(r) ==
    IF tx[r].pc = "house" THEN tx[r].snapshot ELSE IF held(r, House) THEN tx[r].pool ELSE pool

poolSeen(r) == IF held(r, House) THEN tx[r].pool ELSE pool

stockSeen(r, p) == stock[p] - tx[r].wins[p]

spentSeen(r, p) == IF held(r, p) THEN tx[r].spent[p] ELSE spent[p]

(***************************************************************************)
(* The budget period of the locked row is over by the clock the draw read  *)
(* before it waited for the row (ended).  A row that another draw restarted *)
(* meanwhile has a later start and is not in expired.                      *)
(***************************************************************************)
expiredSeen(r, p) == p \in (expired \cap tx[r].ended) \ tx[r].reset

\* Mutant: only committed records are counted.
drawnTodayCommitted(r) == drawn[tx[r].user]["today"]

drawnToday(r) ==
    drawn[tx[r].user]["today"] + (IF tx[r].startedToday THEN tx[r].draws ELSE 0)

winsSeen(r, window, p) ==
    won[p][window] + (IF window = "hour" \/ tx[r].startedToday THEN tx[r].wins[p] ELSE 0)

-----------------------------------------------------------------------------
(***************************************************************************)
(* /draw (count = 1) and /draw/play open a transaction.                    *)
(***************************************************************************)
executeResolvedDrawPlay(r, u, count) ==
    /\ tx[r].pc = "idle"
    /\ count \in 1..MaxDrawPerRequest
    /\ tx' = [tx EXCEPT ![r] = [NoTx EXCEPT !.pc = "user", !.user = u, !.left = count]]
    /\ UNCHANGED <<tables, cache, counters>>

enforceDrawGuards(r) ==
    /\ MaxDrawPerDay > 0 => drawnToday(r) < MaxDrawPerDay
    /\ DrawCooldown => tx[r].user \notin recentDraw /\ tx[r].draws = 0

\* Mutant: the balance is read once, before the batch.
fundedAtStart(r) == wallet[tx[r].user] >= effectiveDrawCost

funded(r) == walletSeen(r) >= effectiveDrawCost

debited(r, pick) ==
    [tx[r] EXCEPT !.pc = IF pick = Miss THEN "house" ELSE "prize",
                  !.locks = @ \cup {tx[r].user},
                  !.ended = expired,
                  !.wallet = walletSeen(r) - effectiveDrawCost,
                  !.luck = luckSeen(r),
                  !.userPool = userPoolSeen(r) + effectiveDrawCost,
                  !.snapshot = poolSeen(r),
                  !.candidates = cache,
                  !.pick = pick,
                  !.reward = 0]

(***************************************************************************)
(* The first half of executeDrawInTransaction: lock the user, read the     *)
(* clock, check the guards, take the cost, read the pool without a lock,   *)
(* pick a candidate from the cached probability pool.                      *)
(***************************************************************************)
debitDrawCost(r) ==
    /\ tx[r].pc = "user"
    /\ free(r, tx[r].user)
    /\ enforceDrawGuards(r)
    /\ funded(r)
    /\ \E pick \in cache \cup {Miss} :
        tx' = [tx EXCEPT ![r] = debited(r, pick)]
    /\ UNCHANGED <<tables, cache, counters>>

\* Mutant: the error is answered but the transaction is left open.
drawRefusedUnreleased(r) ==
    /\ tx[r].pc = "user"
    /\ free(r, tx[r].user)
    /\ ~(enforceDrawGuards(r) /\ funded(r))
    /\ tx' = [tx EXCEPT ![r] = [NoTx EXCEPT !.locks = tx[r].locks]]
    /\ UNCHANGED <<tables, cache, counters>>

(* A guard throws: the whole batch is rolled back. *)
drawRefused(r) ==
    /\ tx[r].pc = "user"
    /\ free(r, tx[r].user)
    /\ ~(enforceDrawGuards(r) /\ funded(r))
    /\ tx' = [tx EXCEPT ![r] = NoTx]
    /\ UNCHANGED <<tables, cache, counters>>

-----------------------------------------------------------------------------
\* Mutant: something left of the budget is enough.
evaluateBudgetAnyLeft(r, p) ==
    PayoutBudget[p] > 0 =>
        PayoutBudget[p] > (IF expiredSeen(r, p) THEN 0 ELSE spentSeen(r, p))

evaluateBudget(r, p) ==
    PayoutBudget[p] > 0 =>
        PayoutBudget[p] - (IF expiredSeen(r, p) THEN 0 ELSE spentSeen(r, p)) >= RewardAmount[p]

totalThisHour(r) ==
    MapThenSumSet(LAMBDA p : RewardAmount[p] * winsSeen(r, "hour", p), Prizes)

(* The reward of p is at least maxReward, the largest among the candidates. *)
isBigPrize(r, p) == \A c \in tx[r].candidates : RewardAmount[p] >= RewardAmount[c]

bigWins(r, window) ==
    SumFunctionOnSet([p \in Prizes |-> winsSeen(r, window, p)],
                     {p \in Prizes : isBigPrize(r, p)})

resolvePayoutLimitReason(r, p) ==
    RewardAmount[p] > 0 =>
        /\ ~(PayoutCooldown /\ (tx[r].user \in recentWin \/ \E q \in Prizes : tx[r].wins[q] > 0))
        /\ MaxTotalPerHour > 0 => totalThisHour(r) + RewardAmount[p] <= MaxTotalPerHour
        /\ isBigPrize(r, p) =>
            /\ bigWins(r, "hour") < MaxBigPerHour
            /\ MaxBigPerDay > 0 => bigWins(r, "day") < MaxBigPerDay

(* Whether the locked prize p may be paid out to r. *)
payable(r, p, noise) ==
    /\ active[p] /\ stockSeen(r, p) > 0
    /\ max(tx[r].snapshot + noise, 0) >= PoolThreshold[p]
    /\ tx[r].userPool >= UserPoolThreshold[p]
    /\ evaluateBudget(r, p)
    /\ MinReserve > 0 =>
        max(tx[r].snapshot + effectiveDrawCost - RewardAmount[p], 0) >= MinReserve
    /\ HouseBankroll > 0 => RewardAmount[p] <= HouseBankroll
    /\ MaxPayoutPct > 0 => RewardAmount[p] * 100 <= tx[r].snapshot * MaxPayoutPct
    /\ resolvePayoutLimitReason(r, p)

(* decrementPrizeStock and creditPrizeReward, in r's version of the rows. *)
persistWinningOutcome(r, p) ==
    LET reset == PayoutBudget[p] > 0 /\ expiredSeen(r, p)
        base == IF reset THEN 0 ELSE spentSeen(r, p)
        paid == RewardAmount[p]
    IN  [tx[r] EXCEPT !.pc = "house",
                      !.locks = @ \cup {p},
                      !.wins[p] = @ + 1,
                      !.spent[p] = IF PayoutBudget[p] > 0 THEN base + paid ELSE base,
                      !.reset = IF reset THEN @ \cup {p} ELSE @,
                      !.reward = paid,
                      !.luck = @ + paid,
                      !.userPool = IF paid > 0 THEN max(@ - paid, 0) ELSE @]

withhold(r, p) ==
    [tx[r] EXCEPT !.pc = "house",
                  !.locks = @ \cup {p},
                  !.spent[p] = spentSeen(r, p)]

(***************************************************************************)
(* Lock the picked prize and decide on what the locked row, the snapshot   *)
(* and the visible draw records say.                                       *)
(***************************************************************************)
resolveDrawOutcome(r) ==
    LET p == tx[r].pick
    IN  /\ tx[r].pc = "prize"
        /\ free(r, p)
        /\ \E noise \in PoolNoise :
            tx' = [tx EXCEPT ![r] = IF payable(r, p, noise) THEN persistWinningOutcome(r, p)
                                                            ELSE withhold(r, p)]
        /\ UNCHANGED <<tables, cache, counters>>

\* Mutant: the reward is not taken from the pool.
poolChangeCostOnly(r) == effectiveDrawCost

poolChange(r) == effectiveDrawCost - tx[r].reward

booked(r) ==
    [tx[r] EXCEPT !.pc = IF tx[r].left = 1 THEN "commit" ELSE "user",
                  !.left = @ - 1,
                  !.locks = @ \cup {House},
                  !.pool = poolSeen(r) + poolChange(r),
                  !.delta = @ + poolChange(r),
                  !.draws = @ + 1]

(***************************************************************************)
(* Lock the house account, book cost and reward on the prize pool, insert  *)
(* the draw record, and go on to the next draw of the batch.               *)
(***************************************************************************)
applyHouseDrawEntries(r) ==
    /\ tx[r].pc = "house"
    /\ free(r, House)
    /\ tx' = [tx EXCEPT ![r] = booked(r)]
    /\ UNCHANGED <<tables, cache, counters>>

-----------------------------------------------------------------------------
(***************************************************************************)
(* COMMIT. created_at of the new records is the start of the transaction.  *)
(***************************************************************************)
commit(r) ==
    LET t == tx[r]
        u == t.user
        day == IF t.startedToday THEN "today" ELSE "yesterday"
        winner == \E p \in Prizes : t.wins[p] > 0
    IN  /\ t.pc = "commit"
        /\ wallet' = [wallet EXCEPT ![u] = t.wallet]
        /\ luck' = [luck EXCEPT ![u] = t.luck]
        /\ userPool' = [userPool EXCEPT ![u] = t.userPool]
        /\ stock' = [p \in Prizes |-> stockSeen(r, p)]
        /\ spent' = [p \in Prizes |-> spentSeen(r, p)]
        /\ expired' = expired \ t.reset
        /\ pool' = t.pool
        /\ houseTransactions' = houseTransactions + t.delta
        /\ drawn' = [drawn EXCEPT ![u][day] = @ + t.draws]
        /\ won' = [p \in Prizes |->
                    [hour |-> won[p].hour + t.wins[p],
                     day |-> IF t.startedToday THEN won[p].day + t.wins[p] ELSE won[p].day]]
        /\ recentDraw' = recentDraw \cup {u}
        /\ recentWin' = IF winner THEN recentWin \cup {u} ELSE recentWin
        /\ tx' = [tx EXCEPT ![r] = NoTx]
        /\ UNCHANGED <<active, cache, counters>>

(* The process dies or loses its connection: the database rolls back. *)
connectionLost(r) ==
    /\ tx[r].pc # "idle"
    /\ failures < MaxFailures
    /\ failures' = failures + 1
    /\ tx' = [tx EXCEPT ![r] = NoTx]
    /\ UNCHANGED <<tables, cache, updates, ticks>>

wants(r) ==
    IF tx[r].pc = "user" THEN tx[r].user
    ELSE IF tx[r].pc = "prize" THEN tx[r].pick
    ELSE IF tx[r].pc = "house" THEN House
    ELSE Miss

waitsFor(r) == {q \in Requests \ {r} : held(q, wants(r))}

(* PostgreSQL finds a cycle of waiting transactions and aborts one of them. *)
deadlockDetected(r) ==
    /\ \E cycle \in SUBSET Requests :
        /\ r \in cycle
        /\ UNION {waitsFor(q) : q \in cycle} = cycle
    /\ tx' = [tx EXCEPT ![r] = NoTx]
    /\ UNCHANGED <<tables, cache, counters>>

-----------------------------------------------------------------------------
(***************************************************************************)
(* An administrator edits a prize: the UPDATE waits for the row lock, then *)
(* invalidateProbabilityPool drops the Redis copy and the memory of this   *)
(* process. The candidates stay stale when draws are served by another     *)
(* process, whose memory lasts until it expires.                           *)
(***************************************************************************)
updatePrize(p, isActive, newStock) ==
    /\ updates < MaxUpdates
    /\ \A r \in Requests : ~held(r, p)
    /\ active' = [active EXCEPT ![p] = isActive]
    /\ stock' = [stock EXCEPT ![p] = newStock]
    /\ cache' \in {cache, {q \in Prizes : active'[q]}}
    /\ updates' = updates + 1
    /\ UNCHANGED <<walletVars, spent, expired, houseVars, recordVars, tx, ticks, failures>>

getProbabilityPool ==
    /\ cache' = {p \in Prizes : active[p]}
    /\ cache' # cache
    /\ UNCHANGED <<tables, tx, counters>>

(* Time passes: midnight, the rolling hour and the cooldowns, a budget period. *)
Tick ==
    /\ ticks < MaxTicks
    /\ ticks' = ticks + 1
    /\ UNCHANGED <<walletVars, stock, spent, active, houseVars, cache, updates, failures>>

dayEnds ==
    /\ Tick
    /\ drawn' = [u \in Users |-> [today |-> 0, yesterday |-> drawn[u].today]]
    /\ won' = [p \in Prizes |-> [won[p] EXCEPT !.day = 0]]
    /\ tx' = [r \in Requests |-> IF tx[r].pc = "idle" THEN tx[r]
                                 ELSE [tx[r] EXCEPT !.startedToday = FALSE]]
    /\ UNCHANGED <<expired, recentDraw, recentWin>>

hourEnds ==
    /\ Tick
    /\ won' = [p \in Prizes |-> [won[p] EXCEPT !.hour = 0]]
    /\ recentDraw' = {}
    /\ recentWin' = {}
    /\ UNCHANGED <<expired, drawn, tx>>

(* A clock read before the end of this period has not seen it. *)
periodEnds(p) ==
    /\ Tick
    /\ p \notin expired
    /\ expired' = expired \cup {p}
    /\ tx' = [r \in Requests |-> IF tx[r].pc = "idle" THEN tx[r]
                                 ELSE [tx[r] EXCEPT !.ended = @ \ {p}]]
    /\ UNCHANGED recordVars

-----------------------------------------------------------------------------
DrawInit ==
    /\ wallet = [u \in Users |-> InitialWallet]
    /\ luck = [u \in Users |-> 0]
    /\ userPool = [u \in Users |-> 0]
    /\ stock = [p \in Prizes |-> InitialStock]
    /\ spent = [p \in Prizes |-> 0]
    /\ active = [p \in Prizes |-> TRUE]
    /\ expired = {}
    /\ pool = InitialPool
    /\ houseTransactions = 0
    /\ drawn = [u \in Users |-> [today |-> 0, yesterday |-> 0]]
    /\ won = [p \in Prizes |-> [hour |-> 0, day |-> 0]]
    /\ recentDraw = {}
    /\ recentWin = {}
    /\ cache = Prizes
    /\ tx = [r \in Requests |-> NoTx]
    /\ updates = 0 /\ ticks = 0 /\ failures = 0

DrawStep(r) ==
    \/ debitDrawCost(r)
    \/ drawRefused(r)
    \/ resolveDrawOutcome(r)
    \/ applyHouseDrawEntries(r)
    \/ commit(r)
    \/ deadlockDetected(r)

DrawNext ==
    \/ \E r \in Requests : DrawStep(r)
    \/ \E r \in Requests : connectionLost(r)
    \/ \E r \in Requests, u \in Users, count \in 1..MaxDrawPerRequest :
            executeResolvedDrawPlay(r, u, count)
    \/ \E p \in Prizes, isActive \in BOOLEAN, newStock \in 0..InitialStock :
            updatePrize(p, isActive, newStock)
    \/ getProbabilityPool
    \/ dayEnds
    \/ hourEnds
    \/ \E p \in Prizes : periodEnds(p)

DrawSpec == DrawInit /\ [][DrawNext]_drawVars

(***************************************************************************)
(* An open transaction is worked on, the database breaks deadlocks, and a  *)
(* waiting transaction is in the queue of its row lock: fairness is strong *)
(* because the lock passes to the waiter when the holder ends, however     *)
(* often new requests ask for it.                                          *)
(***************************************************************************)
FairDrawSpec == DrawSpec /\ \A r \in Requests : SF_drawVars(DrawStep(r))

-----------------------------------------------------------------------------
Txs ==
    [pc : {"idle", "user", "prize", "house", "commit"},
     user : Users \cup {House}, left : 0..MaxDrawPerRequest, startedToday : BOOLEAN,
     locks : SUBSET Rows, pick : Prizes \cup {Miss}, snapshot : Int,
     candidates : SUBSET Prizes, reward : Nat, draws : 0..MaxDrawPerRequest,
     wallet : Nat, luck : Nat, userPool : Nat, pool : Int, delta : Int,
     spent : [Prizes -> Nat], wins : [Prizes -> Nat],
     ended : SUBSET Prizes, reset : SUBSET Prizes]

(***************************************************************************)
(* Type correctness of the tables and transactions: no wallet is overdrawn *)
(* and no prize oversold, committed or not.                                *)
(***************************************************************************)
DrawTypeOK ==
    /\ {wallet, luck, userPool} \subseteq [Users -> Nat]
    /\ {stock, spent} \subseteq [Prizes -> Nat]
    /\ active \in [Prizes -> BOOLEAN]
    /\ expired \subseteq Prizes
    /\ pool \in Int /\ houseTransactions \in Int
    /\ drawn \in [Users -> [today : Nat, yesterday : Nat]]
    /\ won \in [Prizes -> [hour : Nat, day : Nat]]
    /\ recentDraw \subseteq Users /\ recentWin \subseteq Users
    /\ cache \subseteq Prizes
    /\ tx \in [Requests -> Txs]
    /\ \A r \in Requests, p \in Prizes : stockSeen(r, p) >= 0
    /\ {updates, ticks, failures} \subseteq Nat

(***************************************************************************)
(* house_transactions mirrors every movement of the prize pool: although   *)
(* the pool is written as an absolute value computed from an earlier read, *)
(* no concurrent draw's entry is lost.                                     *)
(***************************************************************************)
PoolMatchesTransactions == pool = InitialPool + houseTransactions

(***************************************************************************)
(* What is booked on a prize's budget period never exceeds payout_budget,  *)
(* with concurrent draws, batches and periods that end, or are restarted   *)
(* by another draw, while a draw waits with the clock it has read.         *)
(***************************************************************************)
BudgetKept ==
    \A p \in Prizes : PayoutBudget[p] > 0 => spent[p] <= PayoutBudget[p]

(***************************************************************************)
(* A user has at most max_draw_per_day records of today, however many      *)
(* requests and batches run at once, before and after midnight.            *)
(***************************************************************************)
TodayLimitKept ==
    MaxDrawPerDay > 0 => \A u \in Users : drawn[u].today <= MaxDrawPerDay

(***************************************************************************)
(* A single top prize is won at most max_big_prize_per_hour times an hour  *)
(* and max_big_prize_per_day times a day: its row lock orders the reads of *)
(* the draw records, and a stale candidate list does not hide it.  (A      *)
(* prize without a reward is not limited.)                                 *)
(***************************************************************************)
isTopPrize(p) ==
    RewardAmount[p] > 0 /\ \A q \in Prizes \ {p} : RewardAmount[q] < RewardAmount[p]

BigPrizeLimitKept ==
    \A p \in Prizes :
        isTopPrize(p) =>
            /\ won[p].hour <= MaxBigPerHour
            /\ MaxBigPerDay > 0 => won[p].day <= MaxBigPerDay

(***************************************************************************)
(* The counts a draw checks under the user's or the prize's row lock hold  *)
(* after every commit: the user's draws of the day, and the wins of the    *)
(* largest prize in the hour and the day.                                  *)
(***************************************************************************)
LimitsKept == TodayLimitKept /\ BigPrizeLimitKept

(***************************************************************************)
(* Every draw transaction ends: no request waits for ever for the user,    *)
(* prize and house rows, although batches lock prizes after the house.     *)
(***************************************************************************)
DrawsEnd == \A r \in Requests : tx[r].pc # "idle" ~> tx[r].pc = "idle"

Custody == INSTANCE PrizeCustody WITH Cost <- effectiveDrawCost, MaxDraws <- MaxDrawPerRequest

(***************************************************************************)
(* Concurrent draw transactions implement PrizeCustody: each takes effect  *)
(* atomically, moves money only between user and pool, and never hands out *)
(* a prize that is not in stock.                                           *)
(***************************************************************************)
CustodyKept == Custody!CustodySpec
=============================================================================
