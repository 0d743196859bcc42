---------------------------- MODULE TenantRewards ----------------------------
(***************************************************************************)
(* The hosted prize engine: a reward call of a tenant's live project is one*)
(* transaction that passes the reward envelope, the tenant's daily ceiling *)
(* and its billing hard cap, looks for an earlier answer to the same key,  *)
(* picks a prize, and settles stock, pool, player and record.  Its usage   *)
(* event is recorded after the commit.  Beside it run the billing alert    *)
(* cycle and changes of the budget policy, which write back the billing    *)
(* metadata they read.                                                     *)
(*                                                                         *)
(* A lock is held by the calls that are past the step that takes it.  The  *)
(* project has no group or agent limits and every call is within one day.  *)
(***************************************************************************)
EXTENDS Integers, Sequences, FiniteSetsExt

CONSTANTS
    Calls,              \* concurrent reward calls
    Agents, Players,
    IdemKeys,           \* idempotency keys that are used again
    NoKey,              \* a call without one
    TenantPrizes,       \* the project's prizes, with their rewards
    NoPrize,
    FirstStock,         \* stock of every prize
    FirstPool,          \* prize_pool_balance of the project
    DrawCost,
    DailyBudgetCap,     \* of the tenant's risk envelope
    BudgetCap,          \* of the reward envelope
    ExpectedPayout,     \* expected_payout_per_call of the reward envelope
    VarianceCap,        \* of the reward envelope
    PayoutFee, MuteFee, \* decision pricing
    HardCaps,           \* hard caps the tenant may set, 0 for none
    MaxCalls,           \* bound on calls made
    MaxWindows          \* bound on windows of the reward envelope

ASSUME TenantRewardsAssumption ==
    /\ TenantPrizes \in [DOMAIN TenantPrizes -> Nat \ {0}]
    /\ NoPrize \notin DOMAIN TenantPrizes
    /\ NoKey \notin IdemKeys
    /\ {FirstStock, FirstPool, DrawCost, DailyBudgetCap, BudgetCap, ExpectedPayout, VarianceCap,
        PayoutFee, MuteFee, MaxCalls, MaxWindows} \subseteq Nat
    /\ HardCaps \subseteq Nat

VARIABLES
    project,    \* its status, prize pool and stock
    players,    \* balances
    agents,     \* rows of saas_agents
    drawRecords,\* saas_draw_records
    envelope,   \* the reward envelope: what happens at its cap, and its window's counters
    billing,    \* metadata of the billing account: hard cap, whether reached and alerted
    usage,      \* sum of the month's usage events
    window,     \* the current window of the reward envelope
    call,       \* what each call is doing
    made,       \* calls made so far
    clerk       \* what the alert cycle and the portal have read of the billing account

rewardVars ==
    <<project, players, agents, drawRecords, envelope, billing, usage, window, call, made, clerk>>

AtEase == [pc |-> "idle"]
Clerks == {"cycle", "portal"}
Strategies == {"none", "mute", "reject"}

\* A row of reward envelopes is at most one here; "none" is a tenant without.
TenantRewardsInit ==
    /\ project = [status |-> "active", pool |-> FirstPool,
                  stock |-> [p \in DOMAIN TenantPrizes |-> FirstStock]]
    /\ players = [p \in Players |-> 0]
    /\ agents \in SUBSET Agents
    /\ drawRecords = <<>>
    /\ envelope \in [strategy : Strategies, consumed : {0}, count : {0}, window : {0}]
    /\ billing \in [hardCap : HardCaps, reached : {FALSE}, alerted : {FALSE}]
    /\ usage = 0
    /\ window = 0
    /\ call = [q \in Calls |-> AtEase]
    /\ made = 0
    /\ clerk = [c \in Clerks |-> AtEase]

-----------------------------------------------------------------------------
(***************************************************************************)
(* The reward envelope.  A row of another window counts from zero.         *)
(***************************************************************************)
normalizeRewardEnvelopeState(row, now) ==
    IF row.window = now THEN row
    ELSE [row EXCEPT !.consumed = 0, !.count = 0, !.window = now]

resolveRewardEnvelopeTrigger(row, payout) ==
    \/ row.consumed + payout > BudgetCap
    \/ row.consumed + payout - ExpectedPayout * (row.count + 1) > VarianceCap

\* "allow", or what the row's strategy says.
evaluateRewardEnvelopeDecision(row, payout) ==
    IF row.strategy # "none" /\ resolveRewardEnvelopeTrigger(row, payout)
    THEN row.strategy ELSE "allow"

consumeRewardEnvelopeStates(row, reward) ==
    [row EXCEPT !.consumed = @ + reward, !.count = @ + 1]

(***************************************************************************)
(* Locks, held to the end of the transaction.                              *)
(***************************************************************************)
pastEnvelope == {"billing", "agent", "upsert", "choose", "settle"}
pastBilling == pastEnvelope \ {"billing"}
pastAgent == {"choose", "settle"}

\* Mutant: the row is read without FOR UPDATE.
envelopeLockedNever(q) == FALSE

envelopeLocked(q) ==
    envelope.strategy # "none" /\ \E o \in Calls \ {q} : call[o].pc \in pastEnvelope

\* Mutant: the account is read without FOR UPDATE.
billingLockedNever == FALSE

billingLocked == \E o \in Calls : call[o].pc \in pastBilling /\ call[o].checked

agentLocked(q) ==
    \E o \in Calls \ {q} :
        call[o].pc \in pastAgent /\ call[o].agent = call[q].agent /\ call[o].locksAgent

rewardSum(S) == SumFunctionOnSet([i \in DOMAIN drawRecords |-> drawRecords[i].reward], S)

loadTenantDailyRewardPayout == rewardSum(DOMAIN drawRecords)

-----------------------------------------------------------------------------
\* Decided on the policy that was loaded when the call authenticated.
shouldCheckBillingHardCap(b) == b.hardCap # 0 \/ b.reached

(***************************************************************************)
(* createPrizeEngineReward and createPrizeEngineDraw differ in what        *)
(* identifies the call.  The budget policy and the project are read without*)
(* a lock, the clock before the envelope's row.                            *)
(***************************************************************************)
loadProject(q, a, p, key) ==
    /\ call[q].pc = "idle"
    /\ made < MaxCalls
    /\ project.status = "active"
    /\ call' = [call EXCEPT ![q] =
                    [pc |-> "envelope", agent |-> a, player |-> p, key |-> key,
                     now |-> window, pool |-> project.pool, row |-> envelope,
                     preflight |-> "allow", paidToday |-> 0, billing |-> billing, spent |-> 0,
                     checked |-> shouldCheckBillingHardCap(billing),
                     known |-> FALSE, locksAgent |-> FALSE,
                     prize |-> NoPrize, throttled |-> FALSE, fee |-> 0]]
    /\ made' = made + 1
    /\ UNCHANGED <<project, players, agents, drawRecords, envelope, billing, usage, window, clerk>>

onlyCall ==
    UNCHANGED <<project, players, agents, drawRecords, envelope, billing, usage, window, made, clerk>>

\* The transaction is rolled back: the answer is an error, or the process died.
fails(q) == call' = [call EXCEPT ![q] = AtEase] /\ onlyCall

(***************************************************************************)
(* Locks the envelope's row and decides on the expected payout; then reads *)
(* what the tenant has paid today.                                         *)
(***************************************************************************)
loadLockedRewardEnvelopeStates(q) ==
    /\ call[q].pc = "envelope"
    /\ ~envelopeLocked(q)
    /\ LET row == normalizeRewardEnvelopeState(envelope, call[q].now)
           preflight == evaluateRewardEnvelopeDecision(row, ExpectedPayout)
       IN  \/ preflight = "reject" /\ fails(q)
           \/ /\ preflight # "reject"
              /\ call' = [call EXCEPT ![q].pc = "billing", ![q].row = row,
                                      ![q].preflight = preflight,
                                      ![q].paidToday = loadTenantDailyRewardPayout]
              /\ onlyCall

(***************************************************************************)
(* The account is locked and read again when the policy the call           *)
(* authenticated with has a hard cap or was marked as reached; the month's *)
(* usage events are summed under the lock.  Any other call goes on with    *)
(* that policy.                                                            *)
(***************************************************************************)
loadLockedBillingAccountBudget(q) ==
    /\ call[q].pc = "billing"
    /\ call[q].checked => ~billingLocked
    /\ call' = [call EXCEPT ![q].pc = "agent",
                            ![q].billing = IF call[q].checked THEN billing ELSE @,
                            ![q].spent = IF call[q].checked THEN usage ELSE @]
    /\ onlyCall

loadAgent(q) ==
    /\ call[q].pc = "agent"
    /\ call' = [call EXCEPT ![q].pc = "upsert", ![q].known = call[q].agent \in agents]
    /\ onlyCall

\* Mutant: a known agent's row is written only when something changes.
ensureProjectAgentIfChanged(q) ==
    /\ call[q].pc = "upsert"
    /\ call[q].known \/ ~agentLocked(q)
    /\ call' = [call EXCEPT ![q].pc = "choose", ![q].locksAgent = call[q].agent \notin agents]
    /\ onlyCall

(***************************************************************************)
(* The group is written to a known agent's row on every call, which locks  *)
(* it.  A new agent is inserted: the insert waits for another one's, and   *)
(* when that one is committed it does nothing and locks nothing.           *)
(***************************************************************************)
ensureProjectAgent(q) ==
    /\ call[q].pc = "upsert"
    /\ ~agentLocked(q)
    /\ call' = [call EXCEPT ![q].pc = "choose",
                            ![q].locksAgent = call[q].known \/ call[q].agent \notin agents]
    /\ onlyCall

\* Records of the player with the key, whoever's call they answered.
earlierRecords(q) ==
    {i \in DOMAIN drawRecords :
        /\ call[q].key # NoKey
        /\ drawRecords[i].player = call[q].player
        /\ drawRecords[i].key = call[q].key}

(***************************************************************************)
(* The stored answer is returned, or the call is refused because another   *)
(* request used the key or the answer is not stored yet: either way nothing*)
(* is booked.                                                              *)
(***************************************************************************)
loadIdempotentRewardReplay(q) ==
    /\ call[q].pc = "choose"
    /\ earlierRecords(q) # {}
    /\ fails(q)

rewardOf(p) == IF p = NoPrize THEN 0 ELSE TenantPrizes[p]

\* Prizes in stock that the daily ceiling has room for.
availablePrizes(q) ==
    {p \in DOMAIN TenantPrizes :
        /\ project.stock[p] > 0
        /\ call[q].paidToday + TenantPrizes[p] <= DailyBudgetCap}

decisionFee(reward) == IF reward > 0 THEN PayoutFee ELSE MuteFee

hardCapHit(q, reward) ==
    LET b == call[q].billing IN
    b.hardCap # 0 /\ (b.reached \/ call[q].spent + decisionFee(reward) > b.hardCap)

(***************************************************************************)
(* Any available prize, or none, may be selected.  It is dropped when the  *)
(* pool read at the start cannot pay it, when the envelope mutes the call, *)
(* before or after the selection, and when the hard cap is reached.        *)
(***************************************************************************)
selectReward(q) ==
    /\ call[q].pc = "choose"
    /\ earlierRecords(q) = {}
    /\ \E selected \in availablePrizes(q) \cup {NoPrize} :
        LET affordable == IF rewardOf(selected) <= call[q].pool THEN selected ELSE NoPrize
            decision == IF call[q].preflight = "allow"
                        THEN evaluateRewardEnvelopeDecision(call[q].row, rewardOf(affordable))
                        ELSE call[q].preflight
            candidate == IF decision = "mute" THEN NoPrize ELSE affordable
            throttled == hardCapHit(q, rewardOf(candidate))
        IN  \/ decision = "reject" /\ fails(q)
            \/ /\ decision # "reject"
               /\ call' = [call EXCEPT ![q].pc = "settle", ![q].throttled = throttled,
                                       ![q].prize = IF throttled THEN NoPrize ELSE candidate]
               /\ onlyCall

\* Mutant: the updates take stock and pool without a condition.
settledUnconditionally(q) == call[q].prize

(***************************************************************************)
(* The prize's stock and the project's pool are taken by conditional       *)
(* updates; if one of them is short the draw is a miss.  These and the     *)
(* player's update lock their rows to the commit, so the whole settlement  *)
(* is one step.  The first call that meets the hard cap marks it reached.  *)
(***************************************************************************)
settled(q) ==
    LET p == call[q].prize IN
    IF p # NoPrize /\ (project.stock[p] = 0 \/ project.pool < TenantPrizes[p]) THEN NoPrize ELSE p

settleReward(q) ==
    /\ call[q].pc = "settle"
    /\ project.status = "active"
    /\ LET p == settled(q)
           reward == rewardOf(p)
       IN  /\ project' = [project EXCEPT !.pool = @ + DrawCost - reward,
                            !.stock = [x \in DOMAIN @ |-> IF x = p THEN @[x] - 1 ELSE @[x]]]
           /\ players' = [players EXCEPT ![call[q].player] = @ - DrawCost + reward]
           /\ drawRecords' = Append(drawRecords,
                [agent |-> call[q].agent, player |-> call[q].player, key |-> call[q].key,
                 known |-> call[q].known, reward |-> reward, window |-> call[q].now])
           /\ envelope' = IF envelope.strategy = "none" THEN envelope
                          ELSE consumeRewardEnvelopeStates(call[q].row, reward)
           /\ billing' = IF call[q].throttled THEN [billing EXCEPT !.reached = TRUE] ELSE billing
           /\ agents' = agents \cup {call[q].agent}
           /\ call' = [call EXCEPT ![q] = [pc |-> "usage",
                            fee |-> IF call[q].throttled THEN 0 ELSE decisionFee(reward)]]
    /\ UNCHANGED <<usage, window, made, clerk>>

\* The project was suspended meanwhile.
projectNotFound(q) ==
    /\ call[q].pc = "settle"
    /\ project.status # "active"
    /\ fails(q)

\* After the commit; a process that dies first leaves no event.
recordPrizeEngineUsageEvent(q) ==
    /\ call[q].pc = "usage"
    /\ usage' = usage + call[q].fee
    /\ call' = [call EXCEPT ![q] = AtEase]
    /\ UNCHANGED <<project, players, agents, drawRecords, envelope, billing, window, made, clerk>>

processDies(q) == call[q].pc # "idle" /\ fails(q)

-----------------------------------------------------------------------------
\* An administrator suspends the project.
updateSaasProject ==
    /\ project.status = "active"
    /\ project' = [project EXCEPT !.status = "suspended"]
    /\ UNCHANGED <<players, agents, drawRecords, envelope, billing, usage, window, call, made, clerk>>

windowEnds ==
    /\ window < MaxWindows
    /\ window' = window + 1
    /\ UNCHANGED <<project, players, agents, drawRecords, envelope, billing, usage, call, made, clerk>>

(***************************************************************************)
(* The alert cycle and the portal read the account without a lock and      *)
(* write the whole metadata back, once no call holds the row.  The cycle   *)
(* is followed when an alert is due, that of the hard cap or one of the    *)
(* budget's target and forecasts, whose marks are left out.                *)
(***************************************************************************)
hardCapAlertDue ==
    /\ billing.hardCap # 0
    /\ ~billing.alerted
    /\ billing.reached \/ usage >= billing.hardCap

readsBillingAccount(c, due) ==
    /\ clerk[c].pc = "idle"
    /\ clerk' = [clerk EXCEPT ![c] = [pc |-> "read", billing |-> billing, due |-> due]]
    /\ UNCHANGED <<project, players, agents, drawRecords, envelope, billing, usage, window, call, made>>

writesBillingAccount(c, b) ==
    /\ clerk[c].pc = "read"
    /\ ~billingLocked
    /\ billing' = b
    /\ clerk' = [clerk EXCEPT ![c] = AtEase]
    /\ UNCHANGED <<project, players, agents, drawRecords, envelope, usage, window, call, made>>

runSaasBillingBudgetAlertCycle ==
    /\ clerk["cycle"].pc = "read"
    /\ writesBillingAccount("cycle",
            [clerk["cycle"].billing EXCEPT !.alerted = @ \/ clerk["cycle"].due])

\* A cap of 0 clears it; what was marked in the month stays.
updateSaasBillingBudgetPolicy(cap) ==
    /\ clerk["portal"].pc = "read"
    /\ writesBillingAccount("portal", [clerk["portal"].billing EXCEPT !.hardCap = cap])

TenantRewardsNext ==
    \/ \E q \in Calls :
        \/ \E a \in Agents, p \in Players, key \in IdemKeys \cup {NoKey} : loadProject(q, a, p, key)
        \/ loadLockedRewardEnvelopeStates(q)
        \/ loadLockedBillingAccountBudget(q)
        \/ loadAgent(q)
        \/ ensureProjectAgent(q)
        \/ loadIdempotentRewardReplay(q)
        \/ selectReward(q)
        \/ settleReward(q)
        \/ projectNotFound(q)
        \/ recordPrizeEngineUsageEvent(q)
        \/ processDies(q)
    \/ updateSaasProject
    \/ windowEnds
    \/ readsBillingAccount("cycle", hardCapAlertDue)
    \/ readsBillingAccount("portal", FALSE)
    \/ runSaasBillingBudgetAlertCycle
    \/ \E cap \in HardCaps : updateSaasBillingBudgetPolicy(cap)

TenantRewardsSpec == TenantRewardsInit /\ [][TenantRewardsNext]_rewardVars

-----------------------------------------------------------------------------
TenantRewardsTypeOK ==
    /\ project.pool \in Nat
    /\ project.stock \in [DOMAIN TenantPrizes -> Nat]
    /\ players \in [Players -> Int]
    /\ agents \subseteq Agents
    /\ envelope \in [strategy : Strategies, consumed : 0..BudgetCap, count : Nat,
                     window : 0..MaxWindows]
    /\ billing \in [hardCap : HardCaps, reached : BOOLEAN, alerted : BOOLEAN]
    /\ usage \in Nat

(***************************************************************************)
(* A call that is repeated, by a client that had no answer yet or lost it, *)
(* is paid once.  No key is locked: the write to the agent's row is what   *)
(* lines the repetitions up behind the first.  Calls that found no such    *)
(* row are the exception: an insert that meets another's locks nothing.    *)
(***************************************************************************)
RetryPaysOnce ==
    \A i, j \in DOMAIN drawRecords :
        LET a == drawRecords[i]
            b == drawRecords[j]
        IN  (i # j /\ a.known /\ b.known /\ a.key # NoKey)
                => <<a.agent, a.player, a.key>> # <<b.agent, b.player, b.key>>

(***************************************************************************)
(* The payouts of a window stay within the envelope's budget, with calls   *)
(* that wait for its row, fail or die, as long as they are booked in the   *)
(* order of their windows: a call that read the clock before it waited     *)
(* sets the row back to the window it came from.                           *)
(***************************************************************************)
WindowBudgetKept ==
    (/\ envelope.strategy # "none"
     /\ \A i, j \in DOMAIN drawRecords : i < j => drawRecords[i].window <= drawRecords[j].window)
        => \A w \in 0..MaxWindows :
                rewardSum({i \in DOMAIN drawRecords : drawRecords[i].window = w}) <= BudgetCap

(***************************************************************************)
(* A call that looks at the billing account pays a prize only under the    *)
(* hard cap that is in force when it is booked, and never once that is     *)
(* marked as reached, although the policy, the mark and the alerts are     *)
(* written by others at any time.  A call that authenticated before there  *)
(* was a cap or a mark does not look, and pays past both.                  *)
(***************************************************************************)
PaidUnderHardCap ==
    [][\A q \in Calls :
        (/\ settleReward(q)
         /\ settled(q) # NoPrize
         /\ call[q].checked
         /\ billing.hardCap # 0)
            => ~billing.reached /\ call[q].spent + PayoutFee <= billing.hardCap]_rewardVars

(***************************************************************************)
(* The tenant's risk envelope is a "hard ceiling on daily budget": what    *)
(* its calls pay in a day never exceeds it.                                *)
(***************************************************************************)
DailyCeilingKept == loadTenantDailyRewardPayout <= DailyBudgetCap
=============================================================================
