CONSTANTS
    Users = {u1, u2}
    GiftKeys = {"fulfill", "refunded"}
    GiftAmounts = {3}
    MaxGiftEnergy = 1
    MaxAdjustments = 1
    MaxDays = 1
    Outcomes = {"yes", "no"}
    Stakes = {1, 2}
    Vigs = {3000}
    Workers = {w1, w2}
    Reasons = {"oracle_fetch_failed", "oracle_response_invalid"}
    NoReason = NoReason
    MaxPositions = 3
    MaxPolls = 2
    Sessions = {s1, s2}
    PurchaseAmount = 3
    MaxSessions = 3
    Opening = 3
    Calls = {q1, q2}
    Agents = {g1}
    Players = {v1}
    IdemKeys = {i1}
    NoKey = NoKey
    BigPrize = BigPrize
    SmallPrize = SmallPrize
    TenantPrizes <- MCTenantPrizes
    NoPrize = NoPrize
    FirstStock = 2
    FirstPool = 2
    DrawCost = 1
    DailyBudgetCap = 3
    BudgetCap = 2
    ExpectedPayout = 1
    VarianceCap = 1
    PayoutFee = 2
    MuteFee = 1
    HardCaps = {0, 1, 3}
    MaxCalls = 3
    MaxWindows = 1
    Rounds = {"stakes", "oracle", "store", "ledger", "keys", "windows", "billing"}
SPECIFICATION MCSpec
INVARIANTS
    RowsTypeOK StakesAreLocked SettlementPaysPool BalanceIsExplained UnrestoredRefundIsRecovered
    RetryPaysOnce WindowBudgetKept
PROPERTIES FinalIsFinal MarketEnds PaidUnderHardCap
CHECK_DEADLOCK FALSE
