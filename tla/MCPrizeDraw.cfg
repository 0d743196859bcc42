CONSTANTS
    Users = {u1, u2}
    cash = cash
    top = top
    Prizes = {cash, top}
    Requests = {r1, r2}
    House = House
    Miss = Miss
    DrawCost = 2
    MinDrawCost = 0
    MaxDrawCost = 1
    MaxDrawPerRequest = 2
    MaxDrawPerDay = 2
    DrawCooldown = FALSE
    RewardAmount <- Rewards
    PoolThreshold <- PoolGates
    UserPoolThreshold <- UserPoolGates
    PayoutBudget <- Budgets
    PoolNoise <- NoiseValues
    MinReserve = 1
    HouseBankroll = 3
    MaxPayoutPct = 75
    PayoutCooldown = FALSE
    MaxTotalPerHour = 5
    MaxBigPerHour = 1
    MaxBigPerDay = 2
    InitialWallet = 3
    InitialPool = 6
    InitialStock = 2
    MaxUpdates = 1
    MaxTicks = 1
    MaxFailures = 1
SPECIFICATION DrawSpec
CONSTRAINT MidnightAlone
SYMMETRY SymRequestsUsers
INVARIANTS
    DrawTypeOK
    PoolMatchesTransactions
    BudgetKept
    LimitsKept
PROPERTIES
    CustodyKept
