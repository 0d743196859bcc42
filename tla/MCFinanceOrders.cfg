CONSTANTS
    Users = {u1}
    WithdrawalIds = {w1, w2}
    DepositIds = {d1}
    Refs = {r1, r2, r3, r4}
    NoRef = NoRef
    Admins = {a1, a2}
    NoAdmin = NoAdmin
    Amounts = {1, 2}
    DepositAmounts = {3}
    SecondApprovalThreshold = 2
    StrictInvariant = FALSE
SPECIFICATION Spec
SYMMETRY SymRefsAdmins
CHECK_DEADLOCK FALSE
INVARIANTS
    TypeOK
    LedgerBacksWallet
    MutationsMatchStatus
    TwoReviewers
    RiskRoutedStaysManual
    LedgerIsExplained
PROPERTIES
    ClosedStaysClosed
    CustodySpec
