CONSTANTS
    NoPlayer = 0
    Players = {1, 2, 3}
    Bot = 9
    SeatCount = 3
    SmallBlind = 1
    BigBlind = 2
    MinBuyIn = 3
    MaxBuyIn = 5
    Funds = 5
    RakePolicy <- CashRake
    StartingStack = 3
    RequestedPlaces = 2
    MaxHands = 2
    Modes = {"standard", "dual_bet", "deferred_double", "snowball"}
    Ranks = {1, 6, 10}
    Deals <- Shoe
    Stakes = {2}
    StartRequests = {1, 2}
    Wallet = 9
    Pool = 8
    PoolReserve = 1
    WinPct = 200
    PushPct = 100
    NaturalPct = 225
    DealerHitsSoft17 = TRUE
    DoubleDownAllowed = TRUE
    SplitAcesAllowed = TRUE
    HitSplitAcesAllowed = FALSE
    ResplitAllowed = TRUE
    SplitTenValueCardsAllowed = TRUE
    MaxSplitHands = 3
    MaxGames = 4
    MaxStarts = 3
    MaxFaults = 1
    Rounds = {"cash", "presence", "casual", "tournament",
              "rules", "deferred_double", "snowball", "dual_bet"}
SPECIFICATION MCSpec
INVARIANTS GamesTypeOK MoneyKept SessionFollowsGame
PROPERTIES NobodyWinsUnmatched PlayEnds
CHECK_DEADLOCK FALSE
