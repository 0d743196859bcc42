CONSTANTS
    w1 = w1
    d1 = d1
    provider = provider
    system = system
    manual = manual
    u1 = u1
    Users = {u1}
    WithdrawalIds = {w1}
    DepositIds = {d1}
    Refs = {provider, system, manual}
    NoRef = NoRef
    Admins = {a1, a2}
    NoAdmin = NoAdmin
    Amounts = {1}
    DepositAmounts = {1}
    SecondApprovalThreshold = 1
    StrictInvariant = FALSE
    Workers = {k1, k2}
    NoOrder = NoOrder
    ProviderOrderId <- MCProviderOrderId
    SystemReference <- MCSystemReference
    MaxFaults = 1
SPECIFICATION MCSpec
CHECK_DEADLOCK FALSE
INVARIANTS
    OneProviderOrder
    TwoReviewers
PROPERTIES
    OrdersEnd
