CONSTANTS
    Users = {u1, u2}
    cash = cash
    top = top
    Prizes = {cash, top}
    Requests = {r1, r2}
    House = House
    Miss = Miss
    DrawCost = 2
    MinDrawCost = 0
    MaxDrawCost = 1
    MaxDrawPerRequest = 2
    MaxDrawPerDay = 0
    DrawCooldown = FALSE
    RewardAmount <- Rewards
    PoolThreshold <- PoolGates
    UserPoolThreshold <- UserPoolGates
    PayoutBudget <- Budgets
    PoolNoise <- NoiseValues
    MinReserve = 1
    HouseBankroll = 0
    MaxPayoutPct = 0
    PayoutCooldown = TRUE
    MaxTotalPerHour = 0
    MaxBigPerHour = 1
    MaxBigPerDay = 2
    InitialWallet = 2
    InitialPool = 5
    InitialStock = 1
    MaxUpdates = 0
    MaxTicks = 0
    MaxFailures = 1
SPECIFICATION FairDrawSpec
PROPERTIES
    DrawsEnd
