CONSTANTS
    d1 = d1
    w1 = w1
    e1 = e1
    e2 = e2
    e3 = e3
    e4 = e4
    e5 = e5
    e6 = e6
    r1 = r1
    r2 = r2
    r3 = r3
    k1 = k1
    Users = {u1}
    WithdrawalIds = {w1}
    DepositIds = {d1}
    Refs = {r1, r2, r3}
    NoRef = NoRef
    Admins = {}
    NoAdmin = NoAdmin
    Amounts = {1}
    DepositAmounts = {1}
    SecondApprovalThreshold = 0
    StrictInvariant = TRUE
    Events = {e1, e2, e3, e4, e5, e6}
    Notification <- AllNotifications
    Receivers = {q1}
    WebhookWorkers = {k1, k2}
    MaxDeliveries = 3
    MaxCrashes = 1
    Rounds = {"deposits", "payouts"}
SPECIFICATION MCSpec
CHECK_DEADLOCK FALSE
INVARIANT
    ProcessedEventIsFinal
PROPERTY
    EventsSettle
