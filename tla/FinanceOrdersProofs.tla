------------------------- MODULE FinanceOrdersProofs -------------------------
(***************************************************************************)
(* Theorems about FinanceOrders for every set of users, orders, amounts,   *)
(* references and admins, and for both settings of the drift check.        *)
(***************************************************************************)
EXTENDS FinanceOrders, SumTheorems, TLAPS

USE DEF OrderIds

(***************************************************************************)
(* The ledger pieces keep their types.                                     *)
(***************************************************************************)
LEMMA LedgerMutationType ==
    ASSUME WalletTypeOK, NEW event, NEW u \in Users, NEW entryType, NEW amount \in Int,
           applyLedgerMutation(event, u, entryType, amount)
    PROVE  /\ ledgerWithdrawable' \in [Users -> Int]
           /\ ledgerLocked' \in [Users -> Int]
BY DEF WalletTypeOK, applyLedgerMutation, withdrawableEffect, lockedEffect

LEMMA SettlementEventType ==
    ASSUME WalletTypeOK, NEW ref \in Refs \cup {NoRef},
           insertPaymentSettlementEvent(ref)
    PROVE  settlementRefs' \subseteq Refs
BY DEF WalletTypeOK, insertPaymentSettlementEvent

(***************************************************************************)
(* A review keeps a withdrawal row a row.                                  *)
(***************************************************************************)
LEMMA ReviewedType ==
    ASSUME NEW row \in WithdrawalRow, NEW admin \in Admins \cup {NoAdmin},
           NEW status \in WithdrawalStatuses
    PROVE  /\ reviewed(row, admin, status) \in WithdrawalRow
           /\ reviewed(row, admin, status).status = status
           /\ reviewed(row, admin, status).user = row.user
           /\ reviewed(row, admin, status).amount = row.amount
           /\ reviewed(row, admin, status).approvalsRequired = row.approvalsRequired
           /\ reviewed(row, admin, status).manualRequired = row.manualRequired
           /\ reviewed(row, admin, status).mode = row.mode
           /\ reviewed(row, admin, status).channel = row.channel
           /\ reviewed(row, admin, status).pendingReview = NoAdmin
           /\ reviewed(row, admin, status).reviewers
                = row.reviewers \cup ({admin} \ {NoAdmin})
BY DEF reviewed, WithdrawalRow

LEMMA InitType == Init => TypeOK
<1>1. (CHOOSE u \in Users : TRUE) \in Users
  BY WithdrawalAssumption
<1>2. NoWithdrawal \in WithdrawalRow
  BY <1>1 DEF NoWithdrawal, WithdrawalRow
<1>3. NoDeposit \in DepositRow
  BY <1>1 DEF NoDeposit, DepositRow
<1> QED
  BY <1>2, <1>3 DEF Init, WalletInit, OutboundInit, WithdrawalsInit, DepositsInit,
     TypeOK, WalletTypeOK, WithdrawalsTypeOK, DepositsTypeOK, SendStatuses

(***************************************************************************)
(* Every withdrawal operation keeps the tables well typed.                 *)
(***************************************************************************)
LEMMA WithdrawalStepType ==
    ASSUME TypeOK, NEW w \in WithdrawalIds, WithdrawalStep(w), UNCHANGED deposits
    PROVE  TypeOK'
<1> USE DEF TypeOK, WithdrawalsTypeOK, DepositsTypeOK
<1>a. withdrawals[w] \in WithdrawalRow
  OBVIOUS
<1>b. /\ withdrawals[w].user \in Users
      /\ withdrawals[w].amount \in Nat
      /\ withdrawals[w].amount \in Int
      /\ -withdrawals[w].amount \in Int
  BY <1>a DEF WithdrawalRow
<1>c. WithdrawalStatuses = {"requested", "approved", "provider_submitted",
        "provider_processing", "provider_failed", "paid", "rejected", "reversed"}
  BY DEF WithdrawalStatuses
<1>1. ASSUME NEW u \in Users, NEW amount \in Amounts, NEW risky \in BOOLEAN,
             NEW mode \in {"manual", "provider"},
             createWithdrawal(w, u, amount, risky, mode)
      PROVE  TypeOK'
  <2>1. amount \in Nat /\ -amount \in Int
    BY WithdrawalAssumption
  <2>2. /\ ledgerWithdrawable' \in [Users -> Int]
        /\ ledgerLocked' \in [Users -> Int]
    BY <1>1, <2>1, LedgerMutationType DEF createWithdrawal
  <2>3. withdrawable' \in [Users -> Nat] /\ locked' \in [Users -> Nat]
    BY <1>1, <2>1 DEF createWithdrawal, WalletTypeOK
  <2>4. approvalsRequired(amount) \in {1, 2}
    BY DEF approvalsRequired
  <2>5. [status |-> "requested", user |-> u, amount |-> amount,
         approvalsRequired |-> approvalsRequired(amount), manualRequired |-> risky,
         mode |-> payoutMode(risky, mode),
         pendingReview |-> NoAdmin, reviewers |-> {}, channel |-> "none"] \in WithdrawalRow
    BY <2>1, <2>4, <1>c DEF WithdrawalRow, payoutMode
  <2>6. withdrawals' \in [WithdrawalIds -> WithdrawalRow]
    BY <1>1, <2>5 DEF createWithdrawal
  <2> QED
    BY <1>1, <2>2, <2>3, <2>6 DEF createWithdrawal, WalletTypeOK
<1>2. ASSUME NEW admin \in Admins \cup {NoAdmin}, approveWithdrawalFirst(w, admin)
      PROVE  TypeOK'
  <2>1. [withdrawals[w] EXCEPT !.pendingReview = admin,
                               !.reviewers = @ \cup {admin}] \in WithdrawalRow
    BY <1>a, <1>2 DEF approveWithdrawalFirst, WithdrawalRow
  <2>2. withdrawals' \in [WithdrawalIds -> WithdrawalRow]
    BY <1>2, <2>1 DEF approveWithdrawalFirst
  <2> QED
    BY <1>2, <2>2 DEF approveWithdrawalFirst, walletVars, WalletTypeOK
<1>3. ASSUME NEW admin \in Admins \cup {NoAdmin}, approveWithdrawal(w, admin)
      PROVE  TypeOK'
  <2>1. withdrawals' \in [WithdrawalIds -> WithdrawalRow]
    BY <1>3, <1>a, <1>c, ReviewedType DEF approveWithdrawal
  <2>2. outbound' \in [OrderIds -> SendStatuses]
    BY <1>3 DEF approveWithdrawal, preparePaymentOutboundRequest, SendStatuses
  <2> QED
    BY <1>3, <2>1, <2>2 DEF approveWithdrawal, walletVars, WalletTypeOK
<1>4. ASSUME NEW admin \in Admins \cup {NoAdmin}, NEW ref \in Refs \cup {NoRef},
             \/ markWithdrawalProviderSubmitted(w, admin, ref)
             \/ markWithdrawalProviderProcessing(w, admin, ref)
      PROVE  TypeOK'
  <2>1. /\ reviewed(withdrawals[w], admin, "provider_submitted") \in WithdrawalRow
        /\ reviewed(withdrawals[w], admin, "provider_processing") \in WithdrawalRow
    BY <1>4, <1>a, <1>c, ReviewedType
  <2>2. withdrawals' \in [WithdrawalIds -> WithdrawalRow]
    BY <1>4, <2>1 DEF markWithdrawalProviderSubmitted, markWithdrawalProviderProcessing
  <2> QED
    BY <1>4, <2>2 DEF markWithdrawalProviderSubmitted,
       markWithdrawalProviderProcessing, walletVars, WalletTypeOK
<1>5. ASSUME NEW admin \in Admins \cup {NoAdmin}, NEW ref \in Refs \cup {NoRef},
             markWithdrawalProviderFailed(w, admin, ref)
      PROVE  TypeOK'
  <2>1. withdrawals' \in [WithdrawalIds -> WithdrawalRow]
    BY <1>5, <1>a, <1>c, ReviewedType DEF markWithdrawalProviderFailed
  <2>2. settlementRefs' \subseteq Refs
    BY <1>5, SettlementEventType DEF markWithdrawalProviderFailed
  <2> QED
    BY <1>5, <2>1, <2>2 DEF markWithdrawalProviderFailed, WalletTypeOK
<1>6. ASSUME NEW admin \in Admins \cup {NoAdmin}, NEW ref \in Refs \cup {NoRef},
             NEW status \in WithdrawalStatuses, NEW entryType,
             refundWithdrawal(w, admin, ref, status, entryType)
      PROVE  TypeOK'
  <2>1. withdrawals' \in [WithdrawalIds -> WithdrawalRow]
    BY <1>6, <1>a, ReviewedType DEF refundWithdrawal
  <2>2. settlementRefs' \subseteq Refs
    BY <1>6, SettlementEventType DEF refundWithdrawal
  <2>3. /\ ledgerWithdrawable' \in [Users -> Int]
        /\ ledgerLocked' \in [Users -> Int]
    BY <1>6, <1>b, LedgerMutationType DEF refundWithdrawal
  <2>4. lockedAfterRefund(w) \in Nat
    BY <1>b DEF lockedAfterRefund, WalletTypeOK
  <2>5. withdrawable' \in [Users -> Nat] /\ locked' \in [Users -> Nat]
    BY <1>6, <1>b, <2>4 DEF refundWithdrawal, WalletTypeOK
  <2> QED
    BY <1>6, <2>1, <2>2, <2>3, <2>5 DEF refundWithdrawal, WalletTypeOK
<1>7. ASSUME NEW admin \in Admins \cup {NoAdmin}, NEW ref \in Refs \cup {NoRef},
             NEW channel \in Channels, payWithdrawal(w, admin, ref, channel)
      PROVE  TypeOK'
  <2>1. reviewed(withdrawals[w], admin, "paid") \in WithdrawalRow
    BY <1>a, <1>c, ReviewedType
  <2>2. [reviewed(withdrawals[w], admin, "paid") EXCEPT !.channel = channel]
            \in WithdrawalRow
    BY <2>1 DEF WithdrawalRow
  <2>3. withdrawals' \in [WithdrawalIds -> WithdrawalRow]
    BY <1>7, <2>2 DEF payWithdrawal
  <2>4. settlementRefs' \subseteq Refs
    BY <1>7, SettlementEventType DEF payWithdrawal
  <2>5. /\ ledgerWithdrawable' \in [Users -> Int]
        /\ ledgerLocked' \in [Users -> Int]
    BY <1>7, <1>b, LedgerMutationType DEF payWithdrawal
  <2>6. locked' \in [Users -> Nat]
    BY <1>7, <1>b DEF payWithdrawal, WalletTypeOK
  <2> QED
    BY <1>7, <2>3, <2>4, <2>5, <2>6 DEF payWithdrawal, WalletTypeOK
<1> QED
  BY <1>1, <1>2, <1>3, <1>4, <1>5, <1>6, <1>7, <1>c
     DEF WithdrawalStep, rejectWithdrawal, reverseWithdrawal

(***************************************************************************)
(* Every deposit operation keeps the tables well typed.                    *)
(***************************************************************************)
LEMMA DepositStepType ==
    ASSUME TypeOK, NEW d \in DepositIds, DepositStep(d), UNCHANGED withdrawals
    PROVE  TypeOK'
<1> USE DEF TypeOK, WithdrawalsTypeOK, DepositsTypeOK
<1>a. /\ deposits[d] \in DepositRow
      /\ deposits[d].user \in Users
      /\ deposits[d].amount \in Nat
      /\ deposits[d].amount \in Int
      /\ -deposits[d].amount \in Int
  BY DEF DepositRow
<1>b. ASSUME NEW status \in DepositStatuses, transitionDepositStatus(d, status)
      PROVE  deposits' \in [DepositIds -> DepositRow]
  BY <1>a, <1>b DEF transitionDepositStatus, DepositRow
<1>c. DepositStatuses = {"requested", "provider_pending", "provider_succeeded",
        "provider_failed", "credited", "reversed"}
  BY DEF DepositStatuses
<1>1. ASSUME NEW u \in Users, NEW amount \in DepositAmounts,
             NEW mode \in {"manual", "provider"}, createTopUp(d, u, amount, mode)
      PROVE  TypeOK'
  <2>1. [status |-> "requested", user |-> u, amount |-> amount] \in DepositRow
    BY <1>c, DepositAssumption DEF DepositRow
  <2>2. deposits' \in [DepositIds -> DepositRow]
    BY <1>1, <2>1 DEF createTopUp
  <2>3. outbound' \in [OrderIds -> SendStatuses]
    BY <1>1 DEF createTopUp, preparePaymentOutboundRequest, SendStatuses
  <2> QED
    BY <1>1, <2>2, <2>3 DEF createTopUp, walletVars, WalletTypeOK
<1>2. ASSUME markDepositProviderPending(d)
      PROVE  TypeOK'
  BY <1>2, <1>b, <1>c DEF markDepositProviderPending, walletVars, WalletTypeOK
<1>3. ASSUME creditDeposit(d)
      PROVE  TypeOK'
  <2>1. /\ ledgerWithdrawable' \in [Users -> Int]
        /\ ledgerLocked' \in [Users -> Int]
    BY <1>3, <1>a, LedgerMutationType DEF creditDeposit
  <2>2. withdrawable' \in [Users -> Nat]
    BY <1>3, <1>a DEF creditDeposit, WalletTypeOK
  <2>3. settlementRefs' \subseteq Refs
    BY <1>3, SettlementEventType DEF creditDeposit
  <2>4. deposits' \in [DepositIds -> DepositRow]
    BY <1>3, <1>b, <1>c DEF creditDeposit
  <2> QED
    BY <1>3, <2>1, <2>2, <2>3, <2>4 DEF creditDeposit, WalletTypeOK
<1>4. ASSUME NEW ref \in Refs \cup {NoRef},
             markDepositProviderSucceeded(d, ref) \/ failDeposit(d, ref)
      PROVE  TypeOK'
  <2>1. settlementRefs' \subseteq Refs
    BY <1>4, SettlementEventType DEF markDepositProviderSucceeded, failDeposit
  <2>2. deposits' \in [DepositIds -> DepositRow]
    BY <1>4, <1>b, <1>c DEF markDepositProviderSucceeded, failDeposit
  <2> QED
    BY <1>4, <2>1, <2>2 DEF markDepositProviderSucceeded, failDeposit, WalletTypeOK
<1>5. ASSUME NEW ref \in Refs \cup {NoRef}, reverseDeposit(d, ref)
      PROVE  TypeOK'
  <2>1. settlementRefs' \subseteq Refs
    BY <1>5, SettlementEventType DEF reverseDeposit
  <2>2. deposits' \in [DepositIds -> DepositRow]
    BY <1>5, <1>b, <1>c DEF reverseDeposit
  <2>3. CASE deposits[d].status = "credited"
    <3>1. takeBack(d)
      BY <1>5, <2>3 DEF reverseDeposit
    <3>2. /\ ledgerWithdrawable' \in [Users -> Int]
          /\ ledgerLocked' \in [Users -> Int]
      BY <3>1, <1>a, LedgerMutationType DEF takeBack
    <3>3. withdrawable' \in [Users -> Nat]
      BY <3>1, <1>a DEF takeBack, WalletTypeOK
    <3> QED
      BY <1>5, <2>1, <2>2, <3>1, <3>2, <3>3 DEF takeBack, reverseDeposit, WalletTypeOK
  <2>4. CASE deposits[d].status # "credited"
    BY <1>5, <2>1, <2>2, <2>4 DEF reverseDeposit, WalletTypeOK
  <2> QED
    BY <2>3, <2>4
<1> QED
  BY <1>1, <1>2, <1>3, <1>4, <1>5 DEF DepositStep

(***************************************************************************)
(* The rows, balances and outbox of FinanceOrders keep their types in every*)
(* reachable state; in particular no balance goes below zero.              *)
(***************************************************************************)
THEOREM TypeCorrect == Spec => []TypeOK
<1>1. TypeOK /\ [Next]_vars => TypeOK'
  <2> SUFFICES ASSUME TypeOK, [Next]_vars PROVE TypeOK'
    OBVIOUS
  <2>1. CASE Next
    BY <2>1, WithdrawalStepType, DepositStepType DEF Next
  <2>2. CASE UNCHANGED vars
    BY <2>2 DEF vars, walletVars, TypeOK, WalletTypeOK, WithdrawalsTypeOK, DepositsTypeOK
  <2> QED
    BY <2>1, <2>2
<1> QED
  BY InitType, <1>1, PTL DEF Spec

-----------------------------------------------------------------------------
(***************************************************************************)
(* The strengthening.  MutationsMatchStatus shows that a business event is *)
(* new whenever its transaction runs, so the ledger moves by exactly what  *)
(* the wallet row moves; that makes LedgerBacksWallet inductive without    *)
(* appealing to the drift check.                                           *)
(***************************************************************************)
LedgerInv == TypeOK /\ MutationsMatchStatus /\ LedgerBacksWallet

(***************************************************************************)
(* A new business event moves the two sums of its user by the entry's      *)
(* effects and no other sum.                                               *)
(***************************************************************************)
LEMMA NewMutation ==
    ASSUME WalletTypeOK, NEW event, NEW u \in Users, NEW entryType, NEW amount \in Int,
           event \notin mutations, applyLedgerMutation(event, u, entryType, amount)
    PROVE  /\ mutations' = mutations \cup {event}
           /\ ledgerWithdrawable'[u]
                = ledgerWithdrawable[u] + withdrawableEffect(entryType, amount)
           /\ ledgerLocked'[u] = ledgerLocked[u] + lockedEffect(entryType, amount)
           /\ \A v \in Users \ {u} : /\ ledgerWithdrawable'[v] = ledgerWithdrawable[v]
                                     /\ ledgerLocked'[v] = ledgerLocked[v]
BY DEF WalletTypeOK, applyLedgerMutation, withdrawableEffect, lockedEffect

(***************************************************************************)
(* A withdrawal whose wallet and mutations stay put may change status as   *)
(* long as it stays on the same side of the ledger.                        *)
(***************************************************************************)
LEMMA QuietWithdrawalStep ==
    ASSUME LedgerInv, NEW w \in WithdrawalIds,
           UNCHANGED <<withdrawable, locked, ledgerWithdrawable, ledgerLocked,
                       mutations, deposits>>,
           withdrawals[w].status \in OpenStatuses,
           withdrawals'[w].status \in OpenStatuses,
           \A v \in WithdrawalIds \ {w} : withdrawals'[v] = withdrawals[v]
    PROVE  MutationsMatchStatus' /\ LedgerBacksWallet'
<1>1. LedgerBacksWallet'
  BY DEF LedgerInv, LedgerBacksWallet
<1>2. MutationsMatchStatus'
  BY DEF LedgerInv, MutationsMatchStatus, OpenStatuses, businessEvent
<1> QED
  BY <1>1, <1>2

(***************************************************************************)
(* The withdrawal operations preserve the invariant.                       *)
(***************************************************************************)
LEMMA WithdrawalStepLedger ==
    ASSUME LedgerInv, NEW w \in WithdrawalIds, WithdrawalStep(w), UNCHANGED deposits
    PROVE  MutationsMatchStatus' /\ LedgerBacksWallet'
<1> DEFINE row == withdrawals[w]
<1>a. /\ TypeOK /\ WalletTypeOK
      /\ row \in WithdrawalRow
      /\ row.user \in Users
      /\ row.amount \in Nat
      /\ row.amount \in Int
      /\ -row.amount \in Int
  BY DEF LedgerInv, TypeOK, WithdrawalsTypeOK, WithdrawalRow
<1>b. ASSUME NEW admin \in Admins \cup {NoAdmin}, NEW status \in WithdrawalStatuses,
             withdrawals' = [withdrawals EXCEPT ![w] = reviewed(@, admin, status)]
      PROVE  /\ withdrawals'[w].status = status
             /\ \A v \in WithdrawalIds \ {w} : withdrawals'[v] = withdrawals[v]
  BY <1>a, <1>b, ReviewedType DEF TypeOK, WithdrawalsTypeOK
<1>c. /\ WithdrawalStatuses = {"requested", "approved", "provider_submitted",
            "provider_processing", "provider_failed", "paid", "rejected", "reversed"}
      /\ OpenStatuses = {"requested", "approved", "provider_submitted",
            "provider_processing", "provider_failed"}
  BY DEF WithdrawalStatuses, OpenStatuses
<1>1. ASSUME NEW u \in Users, NEW amount \in Amounts, NEW risky \in BOOLEAN,
             NEW mode \in {"manual", "provider"},
             createWithdrawal(w, u, amount, risky, mode)
      PROVE  MutationsMatchStatus' /\ LedgerBacksWallet'
  <2>1. amount \in Nat /\ amount \in Int /\ -amount \in Int
    BY WithdrawalAssumption
  <2>2. businessEvent(w, "lock_funds") \notin mutations
    BY <1>1 DEF LedgerInv, MutationsMatchStatus, createWithdrawal
  <2>3. /\ mutations' = mutations \cup {businessEvent(w, "lock_funds")}
        /\ ledgerWithdrawable'[u] = ledgerWithdrawable[u] - amount
        /\ ledgerLocked'[u] = ledgerLocked[u] + amount
        /\ \A v \in Users \ {u} : /\ ledgerWithdrawable'[v] = ledgerWithdrawable[v]
                                  /\ ledgerLocked'[v] = ledgerLocked[v]
    <3>1. /\ withdrawableEffect("withdraw_request", -amount) = -amount
          /\ lockedEffect("withdraw_request", -amount) = amount
      BY <2>1 DEF withdrawableEffect, lockedEffect, WithdrawableEntryTypes,
         LockedOutEntryTypes
    <3>2. applyLedgerMutation(businessEvent(w, "lock_funds"), u,
                              "withdraw_request", -amount)
      BY <1>1 DEF createWithdrawal
    <3>3. ledgerWithdrawable[u] \in Int /\ ledgerLocked[u] \in Int
      BY <1>a DEF WalletTypeOK
    <3> QED
      BY <1>a, <2>1, <2>2, <3>1, <3>2, <3>3, NewMutation
  <2>4. LedgerBacksWallet'
    BY <1>a, <1>1, <2>1, <2>3 DEF createWithdrawal, LedgerInv, LedgerBacksWallet, WalletTypeOK
  <2>5. /\ withdrawals'[w].status = "requested"
        /\ \A v \in WithdrawalIds \ {w} : withdrawals'[v] = withdrawals[v]
    BY <1>1 DEF createWithdrawal, LedgerInv, TypeOK, WithdrawalsTypeOK
  <2>6. MutationsMatchStatus'
    BY <1>1, <2>3, <2>5, OrderIdsAssumption
       DEF LedgerInv, MutationsMatchStatus, businessEvent, createWithdrawal
  <2> QED
    BY <2>4, <2>6
<1>2. ASSUME NEW admin \in Admins \cup {NoAdmin}, approveWithdrawalFirst(w, admin)
      PROVE  MutationsMatchStatus' /\ LedgerBacksWallet'
  <2>1. /\ withdrawals'[w].status = "requested"
        /\ \A v \in WithdrawalIds \ {w} : withdrawals'[v] = withdrawals[v]
    BY <1>2, <1>a DEF approveWithdrawalFirst, TypeOK, WithdrawalsTypeOK, WithdrawalRow
  <2>2. /\ withdrawals[w].status \in OpenStatuses
        /\ withdrawals'[w].status \in OpenStatuses
        /\ UNCHANGED <<withdrawable, locked, ledgerWithdrawable, ledgerLocked,
                       mutations, deposits>>
    BY <1>2, <2>1, <1>c DEF approveWithdrawalFirst, walletVars
  <2> QED
    BY <2>1, <2>2, QuietWithdrawalStep
<1>3. ASSUME NEW admin \in Admins \cup {NoAdmin}, NEW status \in OpenStatuses,
             row.status \in OpenStatuses,
             withdrawals' = [withdrawals EXCEPT ![w] = reviewed(@, admin, status)],
             UNCHANGED <<withdrawable, locked, ledgerWithdrawable, ledgerLocked, mutations>>
      PROVE  MutationsMatchStatus' /\ LedgerBacksWallet'
  <2>1. /\ withdrawals'[w].status = status
        /\ \A v \in WithdrawalIds \ {w} : withdrawals'[v] = withdrawals[v]
    BY <1>3, <1>b, <1>c
  <2> QED
    BY <1>3, <2>1, QuietWithdrawalStep
<1>4. ASSUME NEW admin \in Admins \cup {NoAdmin}, approveWithdrawal(w, admin)
      PROVE  MutationsMatchStatus' /\ LedgerBacksWallet'
  <2>1. /\ row.status \in OpenStatuses /\ "approved" \in OpenStatuses
        /\ withdrawals' = [withdrawals EXCEPT ![w] = reviewed(@, admin, "approved")]
        /\ UNCHANGED <<withdrawable, locked, ledgerWithdrawable, ledgerLocked, mutations>>
    BY <1>4, <1>c DEF approveWithdrawal, walletVars
  <2> QED
    BY <2>1, <1>3
<1>5. ASSUME NEW admin \in Admins \cup {NoAdmin}, NEW ref \in Refs \cup {NoRef},
             \/ markWithdrawalProviderSubmitted(w, admin, ref)
             \/ markWithdrawalProviderProcessing(w, admin, ref)
             \/ markWithdrawalProviderFailed(w, admin, ref)
      PROVE  MutationsMatchStatus' /\ LedgerBacksWallet'
  <2>1. PICK status \in OpenStatuses :
            withdrawals' = [withdrawals EXCEPT ![w] = reviewed(@, admin, status)]
    BY <1>5, <1>c DEF markWithdrawalProviderSubmitted,
       markWithdrawalProviderProcessing, markWithdrawalProviderFailed
  <2>2. /\ row.status \in OpenStatuses
        /\ UNCHANGED <<withdrawable, locked, ledgerWithdrawable, ledgerLocked, mutations>>
    BY <1>5, <1>c DEF markWithdrawalProviderSubmitted,
       markWithdrawalProviderProcessing, markWithdrawalProviderFailed, walletVars
  <2> QED
    BY <2>1, <2>2, <1>3
<1>6. ASSUME NEW admin \in Admins \cup {NoAdmin}, NEW ref \in Refs \cup {NoRef},
             NEW status \in {"rejected", "reversed"},
             NEW entryType \in {"withdraw_rejected_refund", "withdraw_reversed_refund"},
             row.status \in OpenStatuses \cup {"paid"},
             row.status = "paid" => status = "reversed",
             refundWithdrawal(w, admin, ref, status, entryType)
      PROVE  MutationsMatchStatus' /\ LedgerBacksWallet'
  <2> DEFINE event == businessEvent(w, "release_locked_funds")
  <2>1. event \notin mutations
    BY <1>6, <1>c DEF LedgerInv, MutationsMatchStatus
  <2>2. /\ mutations' = mutations \cup {event}
        /\ ledgerWithdrawable'[row.user] = ledgerWithdrawable[row.user] + row.amount
        /\ ledgerLocked'[row.user] = ledgerLocked[row.user] - row.amount
        /\ \A v \in Users \ {row.user} :
               /\ ledgerWithdrawable'[v] = ledgerWithdrawable[v]
               /\ ledgerLocked'[v] = ledgerLocked[v]
    <3>1. /\ withdrawableEffect(entryType, row.amount) = row.amount
          /\ lockedEffect(entryType, row.amount) = -row.amount
      BY <1>6 DEF withdrawableEffect, lockedEffect, WithdrawableEntryTypes,
         LockedOutEntryTypes
    <3>2. applyLedgerMutation(event, row.user, entryType, row.amount)
      BY <1>6 DEF refundWithdrawal
    <3>3. ledgerWithdrawable[row.user] \in Int /\ ledgerLocked[row.user] \in Int
      BY <1>a DEF WalletTypeOK
    <3> QED
      BY <1>a, <2>1, <3>1, <3>2, <3>3, NewMutation
  <2>3. /\ withdrawable'[row.user] = withdrawable[row.user] + row.amount
        /\ locked'[row.user] \in Nat
        /\ locked'[row.user] >= locked[row.user] - row.amount
        /\ \A v \in Users \ {row.user} : /\ withdrawable'[v] = withdrawable[v]
                                          /\ locked'[v] = locked[v]
    BY <1>a, <1>6 DEF refundWithdrawal, lockedAfterRefund, WalletTypeOK
  <2>4. StrictInvariant => locked'[row.user] = ledgerLocked'[row.user]
    BY <1>6 DEF refundWithdrawal, assertWalletLedgerInvariant
  <2>5. LedgerBacksWallet'
    BY <1>a, <2>2, <2>3, <2>4 DEF LedgerInv, LedgerBacksWallet, WalletTypeOK
  <2>6. /\ withdrawals'[w].status = status
        /\ \A v \in WithdrawalIds \ {w} : withdrawals'[v] = withdrawals[v]
    <3>1. withdrawals' = [withdrawals EXCEPT ![w] = reviewed(@, admin, status)]
      BY <1>6 DEF refundWithdrawal
    <3> QED
      BY <3>1, <1>6, <1>b, <1>c
  <2>7. MutationsMatchStatus'
    BY <1>6, <1>c, <2>2, <2>6, OrderIdsAssumption
       DEF LedgerInv, MutationsMatchStatus, businessEvent
  <2> QED
    BY <2>5, <2>7
<1>7. ASSUME NEW admin \in Admins \cup {NoAdmin}, NEW ref \in Refs \cup {NoRef},
             NEW channel \in Channels, payWithdrawal(w, admin, ref, channel)
      PROVE  MutationsMatchStatus' /\ LedgerBacksWallet'
  <2> DEFINE event == businessEvent(w, "consume_locked_funds")
  <2>1. event \notin mutations
    BY <1>7 DEF LedgerInv, MutationsMatchStatus, payWithdrawal
  <2>2. /\ mutations' = mutations \cup {event}
        /\ ledgerWithdrawable'[row.user] = ledgerWithdrawable[row.user]
        /\ ledgerLocked'[row.user] = ledgerLocked[row.user] - row.amount
        /\ \A v \in Users \ {row.user} :
               /\ ledgerWithdrawable'[v] = ledgerWithdrawable[v]
               /\ ledgerLocked'[v] = ledgerLocked[v]
    <3>1. /\ withdrawableEffect("withdraw_paid", -row.amount) = 0
          /\ lockedEffect("withdraw_paid", -row.amount) = -row.amount
      BY DEF withdrawableEffect, lockedEffect, WithdrawableEntryTypes,
         LockedOutEntryTypes
    <3>2. applyLedgerMutation(event, row.user, "withdraw_paid", -row.amount)
      BY <1>7 DEF payWithdrawal
    <3>3. ledgerWithdrawable[row.user] \in Int /\ ledgerLocked[row.user] \in Int
      BY <1>a DEF WalletTypeOK
    <3> QED
      BY <1>a, <2>1, <3>1, <3>2, <3>3, NewMutation
  <2>3. /\ withdrawable' = withdrawable
        /\ locked'[row.user] = locked[row.user] - row.amount
        /\ \A v \in Users \ {row.user} : locked'[v] = locked[v]
    BY <1>a, <1>7 DEF payWithdrawal, WalletTypeOK
  <2>4. LedgerBacksWallet'
    BY <1>a, <2>2, <2>3 DEF LedgerInv, LedgerBacksWallet, WalletTypeOK
  <2>5. /\ withdrawals'[w].status = "paid"
        /\ \A v \in WithdrawalIds \ {w} : withdrawals'[v] = withdrawals[v]
    <3>1. /\ reviewed(row, admin, "paid") \in WithdrawalRow
          /\ reviewed(row, admin, "paid").status = "paid"
      <4>1. row \in WithdrawalRow
        BY <1>a
      <4>2. admin \in Admins \cup {NoAdmin} /\ "paid" \in WithdrawalStatuses
        BY <1>c
      <4> QED
        BY <4>1, <4>2, ReviewedType
    <3>2. [reviewed(row, admin, "paid") EXCEPT !.channel = channel].status = "paid"
      BY <3>1 DEF WithdrawalRow
    <3> QED
      BY <1>7, <1>a, <3>2 DEF payWithdrawal, TypeOK, WithdrawalsTypeOK
  <2>6. MutationsMatchStatus'
    BY <1>7, <2>2, <2>5, OrderIdsAssumption
       DEF LedgerInv, MutationsMatchStatus, businessEvent, payWithdrawal
  <2> QED
    BY <2>4, <2>6
<1>8. ASSUME NEW admin \in Admins \cup {NoAdmin}, NEW ref \in Refs \cup {NoRef},
             rejectWithdrawal(w, admin, ref) \/ reverseWithdrawal(w, admin, ref)
      PROVE  MutationsMatchStatus' /\ LedgerBacksWallet'
  <2>1. CASE rejectWithdrawal(w, admin, ref)
    <3>1. /\ row.status \in OpenStatuses
          /\ refundWithdrawal(w, admin, ref, "rejected", "withdraw_rejected_refund")
      BY <2>1, <1>c DEF rejectWithdrawal
    <3> QED
      BY <3>1, <1>6, <1>c
  <2>2. CASE reverseWithdrawal(w, admin, ref)
    <3>1. /\ row.status \in OpenStatuses \cup {"paid"}
          /\ refundWithdrawal(w, admin, ref, "reversed", "withdraw_reversed_refund")
      BY <2>2 DEF reverseWithdrawal, reversibleStatuses
    <3> QED
      BY <3>1, <1>6
  <2> QED
    BY <1>8, <2>1, <2>2
<1> QED
  BY <1>1, <1>2, <1>4, <1>5, <1>7, <1>8 DEF WithdrawalStep

(***************************************************************************)
(* A deposit that moves no money keeps the ledger as it is.                *)
(***************************************************************************)
LEMMA QuietDepositStep ==
    ASSUME LedgerInv, NEW d \in DepositIds,
           UNCHANGED <<withdrawable, locked, ledgerWithdrawable, ledgerLocked,
                       mutations, withdrawals>>,
           deposits[d].status # "credited", deposits[d].status # "reversed",
           deposits'[d].status # "credited",
           \A e \in DepositIds \ {d} : deposits'[e] = deposits[e]
    PROVE  MutationsMatchStatus' /\ LedgerBacksWallet'
<1>1. LedgerBacksWallet'
  BY DEF LedgerInv, LedgerBacksWallet
<1>2. MutationsMatchStatus'
  BY DEF LedgerInv, MutationsMatchStatus, businessEvent
<1> QED
  BY <1>1, <1>2

(***************************************************************************)
(* The deposit operations preserve the invariant.                          *)
(***************************************************************************)
LEMMA DepositStepLedger ==
    ASSUME LedgerInv, NEW d \in DepositIds, DepositStep(d), UNCHANGED withdrawals
    PROVE  MutationsMatchStatus' /\ LedgerBacksWallet'
<1> DEFINE row == deposits[d]
<1>a. /\ TypeOK /\ WalletTypeOK
      /\ row \in DepositRow
      /\ row.user \in Users
      /\ row.amount \in Nat
      /\ row.amount \in Int
      /\ -row.amount \in Int
  BY DEF LedgerInv, TypeOK, DepositsTypeOK, DepositRow
<1>b. ASSUME NEW status, transitionDepositStatus(d, status)
      PROVE  /\ deposits'[d].status = status
             /\ \A e \in DepositIds \ {d} : deposits'[e] = deposits[e]
  BY <1>a, <1>b DEF transitionDepositStatus, TypeOK, DepositsTypeOK, DepositRow
<1>1. ASSUME NEW u \in Users, NEW amount \in DepositAmounts,
             NEW mode \in {"manual", "provider"}, createTopUp(d, u, amount, mode)
      PROVE  MutationsMatchStatus' /\ LedgerBacksWallet'
  <2>1. /\ row.status = "none" /\ deposits'[d].status = "requested"
        /\ \A e \in DepositIds \ {d} : deposits'[e] = deposits[e]
        /\ UNCHANGED <<withdrawable, locked, ledgerWithdrawable, ledgerLocked, mutations>>
    BY <1>1, <1>a DEF createTopUp, walletVars, TypeOK, DepositsTypeOK
  <2> QED
    BY <2>1, QuietDepositStep
<1>2. ASSUME NEW ref \in Refs \cup {NoRef},
             \/ markDepositProviderPending(d)
             \/ markDepositProviderSucceeded(d, ref)
             \/ failDeposit(d, ref)
             \/ reverseDeposit(d, ref) /\ row.status # "credited"
      PROVE  MutationsMatchStatus' /\ LedgerBacksWallet'
  <2>1. PICK status \in {"provider_pending", "provider_succeeded", "provider_failed",
                         "reversed"} : transitionDepositStatus(d, status)
    BY <1>2 DEF markDepositProviderPending, markDepositProviderSucceeded,
       failDeposit, reverseDeposit
  <2>2. /\ row.status # "credited" /\ row.status # "reversed"
        /\ UNCHANGED <<withdrawable, locked, ledgerWithdrawable, ledgerLocked, mutations>>
    BY <1>2 DEF markDepositProviderPending, markDepositProviderSucceeded,
       failDeposit, reverseDeposit, walletVars
  <2>3. /\ deposits'[d].status # "credited"
        /\ \A e \in DepositIds \ {d} : deposits'[e] = deposits[e]
    BY <2>1, <1>b
  <2> QED
    BY <2>2, <2>3, QuietDepositStep
<1>3. ASSUME creditDeposit(d)
      PROVE  MutationsMatchStatus' /\ LedgerBacksWallet'
  <2> DEFINE event == <<d, "credit_wallet">>
  <2>1. event \notin mutations
    BY <1>3 DEF LedgerInv, MutationsMatchStatus, creditDeposit
  <2>2. /\ mutations' = mutations \cup {event}
        /\ ledgerWithdrawable'[row.user] = ledgerWithdrawable[row.user] + row.amount
        /\ ledgerLocked'[row.user] = ledgerLocked[row.user]
        /\ \A v \in Users \ {row.user} :
               /\ ledgerWithdrawable'[v] = ledgerWithdrawable[v]
               /\ ledgerLocked'[v] = ledgerLocked[v]
    <3>1. /\ withdrawableEffect("deposit_credit", row.amount) = row.amount
          /\ lockedEffect("deposit_credit", row.amount) = 0
      BY DEF withdrawableEffect, lockedEffect, WithdrawableEntryTypes,
         LockedOutEntryTypes
    <3>2. applyLedgerMutation(event, row.user, "deposit_credit", row.amount)
      BY <1>3 DEF creditDeposit
    <3>3. ledgerWithdrawable[row.user] \in Int /\ ledgerLocked[row.user] \in Int
      BY <1>a DEF WalletTypeOK
    <3> QED
      BY <1>a, <2>1, <3>1, <3>2, <3>3, NewMutation
  <2>3. /\ locked' = locked
        /\ withdrawable'[row.user] = withdrawable[row.user] + row.amount
        /\ \A v \in Users \ {row.user} : withdrawable'[v] = withdrawable[v]
    BY <1>a, <1>3 DEF creditDeposit, WalletTypeOK
  <2>4. LedgerBacksWallet'
    BY <1>a, <2>2, <2>3 DEF LedgerInv, LedgerBacksWallet, WalletTypeOK
  <2>5. /\ deposits'[d].status = "credited"
        /\ \A e \in DepositIds \ {d} : deposits'[e] = deposits[e]
    BY <1>3, <1>b DEF creditDeposit
  <2>6. MutationsMatchStatus'
    BY <1>3, <2>2, <2>5, OrderIdsAssumption
       DEF LedgerInv, MutationsMatchStatus, businessEvent, creditDeposit
  <2> QED
    BY <2>4, <2>6
<1>4. ASSUME NEW ref \in Refs \cup {NoRef}, reverseDeposit(d, ref), row.status = "credited"
      PROVE  MutationsMatchStatus' /\ LedgerBacksWallet'
  <2> DEFINE event == <<d, "reverse_wallet">>
  <2>0. takeBack(d)
    BY <1>4 DEF reverseDeposit
  <2>1. event \notin mutations
    BY <1>4 DEF LedgerInv, MutationsMatchStatus
  <2>2. /\ mutations' = mutations \cup {event}
        /\ ledgerWithdrawable'[row.user] = ledgerWithdrawable[row.user] - row.amount
        /\ ledgerLocked'[row.user] = ledgerLocked[row.user]
        /\ \A v \in Users \ {row.user} :
               /\ ledgerWithdrawable'[v] = ledgerWithdrawable[v]
               /\ ledgerLocked'[v] = ledgerLocked[v]
    <3>1. /\ withdrawableEffect("deposit_reversed", -row.amount) = -row.amount
          /\ lockedEffect("deposit_reversed", -row.amount) = 0
      BY DEF withdrawableEffect, lockedEffect, WithdrawableEntryTypes,
         LockedOutEntryTypes
    <3>2. applyLedgerMutation(event, row.user, "deposit_reversed", -row.amount)
      BY <2>0 DEF takeBack
    <3>3. ledgerWithdrawable[row.user] \in Int /\ ledgerLocked[row.user] \in Int
      BY <1>a DEF WalletTypeOK
    <3> QED
      BY <1>a, <2>1, <3>1, <3>2, <3>3, NewMutation
  <2>3. /\ locked' = locked
        /\ withdrawable'[row.user] = withdrawable[row.user] - row.amount
        /\ \A v \in Users \ {row.user} : withdrawable'[v] = withdrawable[v]
    BY <1>a, <2>0 DEF takeBack, WalletTypeOK
  <2>4. LedgerBacksWallet'
    BY <1>a, <2>2, <2>3 DEF LedgerInv, LedgerBacksWallet, WalletTypeOK
  <2>5. /\ deposits'[d].status = "reversed"
        /\ \A e \in DepositIds \ {d} : deposits'[e] = deposits[e]
    BY <1>4, <1>b DEF reverseDeposit
  <2>6. MutationsMatchStatus'
    BY <1>4, <2>2, <2>5, OrderIdsAssumption
       DEF LedgerInv, MutationsMatchStatus, businessEvent
  <2> QED
    BY <2>4, <2>6
<1> QED
  BY <1>1, <1>2, <1>3, <1>4 DEF DepositStep

(***************************************************************************)
(* Initially the ledger is empty and no order exists.                      *)
(***************************************************************************)
LEMMA InitLedger == Init => LedgerInv
<1> SUFFICES ASSUME Init PROVE MutationsMatchStatus /\ LedgerBacksWallet
  BY InitType DEF LedgerInv
<1>1. LedgerBacksWallet
  <2>1. \A u \in Users : /\ withdrawable[u] = 0 /\ ledgerWithdrawable[u] = 0
                         /\ locked[u] = 0 /\ ledgerLocked[u] = 0
    BY DEF Init, WalletInit
  <2>2. ASSUME NEW u \in Users
        PROVE  /\ withdrawable[u] = ledgerWithdrawable[u]
               /\ locked[u] = ledgerLocked[u]
    BY <2>1
  <2>3. ASSUME NEW u \in Users
        PROVE  locked[u] >= ledgerLocked[u]
    <3>1. locked[u] = 0 /\ ledgerLocked[u] = 0
      BY <2>1
    <3> QED
      BY <3>1
  <2> QED
    BY <2>2, <2>3, Zenon DEF LedgerBacksWallet
<1>2. /\ \A w \in WithdrawalIds : withdrawals[w].status = "none"
      /\ \A d \in DepositIds : deposits[d].status = "none"
      /\ mutations = {}
  BY DEF Init, WalletInit, WithdrawalsInit, DepositsInit, NoWithdrawal, NoDeposit
<1>3. MutationsMatchStatus
  BY <1>2 DEF MutationsMatchStatus
<1> QED
  BY <1>1, <1>3

LEMMA LedgerInvInductive == LedgerInv /\ [Next]_vars => LedgerInv'
<1> SUFFICES ASSUME LedgerInv, [Next]_vars PROVE LedgerInv'
  OBVIOUS
<1>1. CASE Next
  BY <1>1, WithdrawalStepType, DepositStepType, WithdrawalStepLedger, DepositStepLedger
     DEF Next, LedgerInv
<1>2. CASE UNCHANGED vars
  BY <1>2 DEF vars, walletVars, LedgerInv, TypeOK, WalletTypeOK, WithdrawalsTypeOK,
     DepositsTypeOK, MutationsMatchStatus, LedgerBacksWallet, businessEvent
<1> QED
  BY <1>1, <1>2

(***************************************************************************)
(* In every reachable state the ledger sums account for the wallet rows:   *)
(* exactly for withdrawable_balance, and for locked_balance up to the clamp*)
(* of refundWithdrawal when the drift check does not abort.                *)
(***************************************************************************)
THEOREM LedgerAlwaysBacksWallet == Spec => []LedgerBacksWallet
<1>1. LedgerInv => LedgerBacksWallet
  BY DEF LedgerInv
<1> QED
  BY InitLedger, LedgerInvInductive, <1>1, PTL DEF Spec

(***************************************************************************)
(* Each business event of an order is applied at most once, exactly when   *)
(* the order status says so.                                               *)
(***************************************************************************)
THEOREM MutationsAlwaysMatchStatus == Spec => []MutationsMatchStatus
<1>1. LedgerInv => MutationsMatchStatus
  BY DEF LedgerInv
<1> QED
  BY InitLedger, LedgerInvInductive, <1>1, PTL DEF Spec

-----------------------------------------------------------------------------
(***************************************************************************)
(* Conservation.  What a step does to the two ledger sums, and to one order*)
(* row and the business events.                                            *)
(***************************************************************************)
MovesLedger(u, available, held) ==
    \A v \in Users :
        /\ ledgerWithdrawable'[v] = ledgerWithdrawable[v] + (IF v = u THEN available ELSE 0)
        /\ ledgerLocked'[v] = ledgerLocked[v] + (IF v = u THEN held ELSE 0)

(* No money moves. *)
QuietEffect(w) ==
    /\ withdrawals[w].status \in OpenStatuses /\ withdrawals'[w].status \in OpenStatuses
    /\ withdrawals'[w].user = withdrawals[w].user
    /\ withdrawals'[w].amount = withdrawals[w].amount
    /\ UNCHANGED <<ledgerWithdrawable, ledgerLocked, mutations>>

LockEffect(w) ==
    LET row == withdrawals'[w] IN
    /\ withdrawals[w].status = "none" /\ row.status = "requested"
    /\ mutations' = mutations \cup {businessEvent(w, "lock_funds")}
    /\ MovesLedger(row.user, -row.amount, row.amount)

ReleaseEffect(w) ==
    LET row == withdrawals[w] IN
    /\ row.status \in OpenStatuses \cup {"paid"}
    /\ withdrawals'[w].status \in {"rejected", "reversed"}
    /\ row.status = "paid" => withdrawals'[w].status = "reversed"
    /\ withdrawals'[w].user = row.user /\ withdrawals'[w].amount = row.amount
    /\ mutations' = mutations \cup {businessEvent(w, "release_locked_funds")}
    /\ MovesLedger(row.user, row.amount, -row.amount)

PayEffect(w) ==
    LET row == withdrawals[w] IN
    /\ row.status = "provider_processing" /\ withdrawals'[w].status = "paid"
    /\ withdrawals'[w].user = row.user /\ withdrawals'[w].amount = row.amount
    /\ mutations' = mutations \cup {businessEvent(w, "consume_locked_funds")}
    /\ MovesLedger(row.user, 0, -row.amount)

(***************************************************************************)
(* A new business event moves the ledger by the entry's effects.           *)
(***************************************************************************)
LEMMA NewMutationMoves ==
    ASSUME WalletTypeOK, NEW event, NEW u \in Users, NEW entryType, NEW amount \in Int,
           event \notin mutations, applyLedgerMutation(event, u, entryType, amount)
    PROVE  /\ mutations' = mutations \cup {event}
           /\ MovesLedger(u, withdrawableEffect(entryType, amount), lockedEffect(entryType, amount))
<1>1. \A v \in Users : ledgerWithdrawable[v] \in Int /\ ledgerLocked[v] \in Int
  BY DEF WalletTypeOK
<1> QED
  BY <1>1, NewMutation DEF MovesLedger

(***************************************************************************)
(* Every withdrawal operation changes one row, and has one of the effects. *)
(***************************************************************************)
LEMMA WithdrawalEffects ==
    ASSUME LedgerInv, NEW w \in WithdrawalIds, WithdrawalStep(w)
    PROVE  /\ \A v \in WithdrawalIds \ {w} : withdrawals'[v] = withdrawals[v]
           /\ QuietEffect(w) \/ LockEffect(w) \/ ReleaseEffect(w) \/ PayEffect(w)
<1> DEFINE row == withdrawals[w]
           others == \A v \in WithdrawalIds \ {w} : withdrawals'[v] = withdrawals[v]
           effect == QuietEffect(w) \/ LockEffect(w) \/ ReleaseEffect(w) \/ PayEffect(w)
<1>a. /\ TypeOK /\ WalletTypeOK
      /\ row \in WithdrawalRow
      /\ row.user \in Users
      /\ row.amount \in Int
      /\ -row.amount \in Int
  BY DEF LedgerInv, TypeOK, WithdrawalsTypeOK, WithdrawalRow
<1>b. ASSUME NEW admin \in Admins \cup {NoAdmin}, NEW status \in WithdrawalStatuses,
             withdrawals' = [withdrawals EXCEPT ![w] = reviewed(@, admin, status)]
      PROVE  /\ others
             /\ withdrawals'[w].status = status
             /\ withdrawals'[w].user = row.user
             /\ withdrawals'[w].amount = row.amount
  BY <1>a, <1>b, ReviewedType DEF TypeOK, WithdrawalsTypeOK
<1>c. /\ WithdrawalStatuses = {"requested", "approved", "provider_submitted",
            "provider_processing", "provider_failed", "paid", "rejected", "reversed"}
      /\ OpenStatuses = {"requested", "approved", "provider_submitted",
            "provider_processing", "provider_failed"}
  BY DEF WithdrawalStatuses, OpenStatuses
<1>1. ASSUME NEW u \in Users, NEW amount \in Amounts, NEW risky \in BOOLEAN,
             NEW mode \in {"manual", "provider"},
             createWithdrawal(w, u, amount, risky, mode)
      PROVE  others /\ effect
  <2>1. amount \in Int /\ -amount \in Int /\ -(-amount) = amount
    BY WithdrawalAssumption
  <2>2. businessEvent(w, "lock_funds") \notin mutations
    BY <1>1 DEF LedgerInv, MutationsMatchStatus, createWithdrawal
  <2>3. /\ withdrawableEffect("withdraw_request", -amount) = -amount
        /\ lockedEffect("withdraw_request", -amount) = amount
    BY <2>1 DEF withdrawableEffect, lockedEffect, WithdrawableEntryTypes, LockedOutEntryTypes
  <2>4. applyLedgerMutation(businessEvent(w, "lock_funds"), u, "withdraw_request", -amount)
    BY <1>1 DEF createWithdrawal
  <2>5. /\ mutations' = mutations \cup {businessEvent(w, "lock_funds")}
        /\ MovesLedger(u, -amount, amount)
    <3>1. MovesLedger(u, withdrawableEffect("withdraw_request", -amount),
                      lockedEffect("withdraw_request", -amount))
      BY <1>a, <2>1, <2>2, <2>4, NewMutationMoves
    <3>2. mutations' = mutations \cup {businessEvent(w, "lock_funds")}
      BY <1>a, <2>1, <2>2, <2>4, NewMutationMoves
    <3> QED
      BY <2>3, <3>1, <3>2
  <2>6. /\ withdrawals'[w].status = "requested"
        /\ withdrawals'[w].user = u
        /\ withdrawals'[w].amount = amount
        /\ others
    BY <1>1 DEF createWithdrawal, LedgerInv, TypeOK, WithdrawalsTypeOK
  <2>7. row.status = "none"
    BY <1>1 DEF createWithdrawal
  <2> QED
    BY <2>5, <2>6, <2>7 DEF LockEffect
<1>2. ASSUME NEW admin \in Admins \cup {NoAdmin}, approveWithdrawalFirst(w, admin)
      PROVE  others /\ effect
  <2>1. /\ withdrawals'[w].status = "requested" /\ row.status = "requested"
        /\ withdrawals'[w].user = row.user
        /\ withdrawals'[w].amount = row.amount
        /\ others
    BY <1>2, <1>a DEF approveWithdrawalFirst, TypeOK, WithdrawalsTypeOK, WithdrawalRow
  <2>2. UNCHANGED <<ledgerWithdrawable, ledgerLocked, mutations>>
    BY <1>2 DEF approveWithdrawalFirst, walletVars
  <2> QED
    BY <1>c, <2>1, <2>2 DEF QuietEffect
<1>3. ASSUME NEW admin \in Admins \cup {NoAdmin}, NEW status \in OpenStatuses,
             row.status \in OpenStatuses,
             withdrawals' = [withdrawals EXCEPT ![w] = reviewed(@, admin, status)],
             UNCHANGED <<ledgerWithdrawable, ledgerLocked, mutations>>
      PROVE  others /\ effect
  <2>1. /\ withdrawals'[w].status = status /\ others
        /\ withdrawals'[w].user = row.user
        /\ withdrawals'[w].amount = row.amount
    BY <1>3, <1>b, <1>c
  <2> QED
    BY <1>3, <2>1 DEF QuietEffect
<1>4. ASSUME NEW admin \in Admins \cup {NoAdmin}, approveWithdrawal(w, admin)
      PROVE  others /\ effect
  <2>1. /\ row.status \in OpenStatuses /\ "approved" \in OpenStatuses
        /\ withdrawals' = [withdrawals EXCEPT ![w] = reviewed(@, admin, "approved")]
        /\ UNCHANGED <<ledgerWithdrawable, ledgerLocked, mutations>>
    BY <1>4, <1>c DEF approveWithdrawal, walletVars
  <2> QED
    BY <2>1, <1>3
<1>5. ASSUME NEW admin \in Admins \cup {NoAdmin}, NEW ref \in Refs \cup {NoRef},
             \/ markWithdrawalProviderSubmitted(w, admin, ref)
             \/ markWithdrawalProviderProcessing(w, admin, ref)
             \/ markWithdrawalProviderFailed(w, admin, ref)
      PROVE  others /\ effect
  <2>1. PICK status \in OpenStatuses :
            withdrawals' = [withdrawals EXCEPT ![w] = reviewed(@, admin, status)]
    BY <1>5, <1>c DEF markWithdrawalProviderSubmitted,
       markWithdrawalProviderProcessing, markWithdrawalProviderFailed
  <2>2. /\ row.status \in OpenStatuses
        /\ UNCHANGED <<ledgerWithdrawable, ledgerLocked, mutations>>
    BY <1>5, <1>c DEF markWithdrawalProviderSubmitted,
       markWithdrawalProviderProcessing, markWithdrawalProviderFailed, walletVars
  <2> QED
    BY <2>1, <2>2, <1>3
<1>6. ASSUME NEW admin \in Admins \cup {NoAdmin}, NEW ref \in Refs \cup {NoRef},
             NEW status \in {"rejected", "reversed"},
             NEW entryType \in {"withdraw_rejected_refund", "withdraw_reversed_refund"},
             row.status \in OpenStatuses \cup {"paid"},
             row.status = "paid" => status = "reversed",
             refundWithdrawal(w, admin, ref, status, entryType)
      PROVE  others /\ effect
  <2> DEFINE event == businessEvent(w, "release_locked_funds")
  <2>1. event \notin mutations
    BY <1>6, <1>c DEF LedgerInv, MutationsMatchStatus
  <2>2. /\ withdrawableEffect(entryType, row.amount) = row.amount
        /\ lockedEffect(entryType, row.amount) = -row.amount
    BY <1>6 DEF withdrawableEffect, lockedEffect, WithdrawableEntryTypes, LockedOutEntryTypes
  <2>3. applyLedgerMutation(event, row.user, entryType, row.amount)
    BY <1>6 DEF refundWithdrawal
  <2>4. mutations' = mutations \cup {event} /\ MovesLedger(row.user, row.amount, -row.amount)
    <3>1. /\ mutations' = mutations \cup {event}
          /\ MovesLedger(row.user, withdrawableEffect(entryType, row.amount),
                         lockedEffect(entryType, row.amount))
      BY <1>a, <2>1, <2>3, NewMutationMoves
    <3> QED
      BY <2>2, <3>1
  <2>5. /\ withdrawals'[w].status = status /\ others
        /\ withdrawals'[w].user = row.user
        /\ withdrawals'[w].amount = row.amount
    <3>1. withdrawals' = [withdrawals EXCEPT ![w] = reviewed(@, admin, status)]
      BY <1>6 DEF refundWithdrawal
    <3> QED
      BY <3>1, <1>6, <1>b, <1>c
  <2> QED
    BY <1>6, <2>4, <2>5 DEF ReleaseEffect
<1>7. ASSUME NEW admin \in Admins \cup {NoAdmin}, NEW ref \in Refs \cup {NoRef},
             NEW channel \in Channels, payWithdrawal(w, admin, ref, channel)
      PROVE  others /\ effect
  <2> DEFINE event == businessEvent(w, "consume_locked_funds")
  <2>1. event \notin mutations /\ row.status = "provider_processing"
    BY <1>7 DEF LedgerInv, MutationsMatchStatus, payWithdrawal
  <2>2. /\ withdrawableEffect("withdraw_paid", -row.amount) = 0
        /\ lockedEffect("withdraw_paid", -row.amount) = -row.amount
    BY DEF withdrawableEffect, lockedEffect, WithdrawableEntryTypes, LockedOutEntryTypes
  <2>3. applyLedgerMutation(event, row.user, "withdraw_paid", -row.amount)
    BY <1>7 DEF payWithdrawal
  <2>4. mutations' = mutations \cup {event} /\ MovesLedger(row.user, 0, -row.amount)
    <3>1. /\ mutations' = mutations \cup {event}
          /\ MovesLedger(row.user, withdrawableEffect("withdraw_paid", -row.amount),
                         lockedEffect("withdraw_paid", -row.amount))
      BY <1>a, <2>1, <2>3, NewMutationMoves
    <3> QED
      BY <2>2, <3>1
  <2>5. /\ withdrawals'[w].status = "paid" /\ others
        /\ withdrawals'[w].user = row.user
        /\ withdrawals'[w].amount = row.amount
    <3> DEFINE new == reviewed(row, admin, "paid")
    <3>0. row \in WithdrawalRow /\ "paid" \in WithdrawalStatuses
      BY <1>a, <1>c
    <3>1. new \in WithdrawalRow /\ new.status = "paid" /\ new.user = row.user /\ new.amount = row.amount
      BY <3>0 DEF reviewed, WithdrawalRow
    <3> HIDE DEF new
    <3>2. /\ [new EXCEPT !.channel = channel].status = "paid"
          /\ [new EXCEPT !.channel = channel].user = row.user
          /\ [new EXCEPT !.channel = channel].amount = row.amount
      BY <3>1 DEF WithdrawalRow
    <3>3. withdrawals' = [withdrawals EXCEPT ![w] = [new EXCEPT !.channel = channel]]
      BY <1>7 DEF payWithdrawal, new
    <3> QED
      BY <1>a, <3>2, <3>3 DEF TypeOK, WithdrawalsTypeOK
  <2> QED
    BY <2>1, <2>4, <2>5 DEF PayEffect
<1>8. ASSUME NEW admin \in Admins \cup {NoAdmin}, NEW ref \in Refs \cup {NoRef},
             rejectWithdrawal(w, admin, ref) \/ reverseWithdrawal(w, admin, ref)
      PROVE  others /\ effect
  <2>1. CASE rejectWithdrawal(w, admin, ref)
    <3>1. /\ row.status \in OpenStatuses
          /\ refundWithdrawal(w, admin, ref, "rejected", "withdraw_rejected_refund")
      BY <2>1, <1>c DEF rejectWithdrawal
    <3> QED
      BY <3>1, <1>6, <1>c
  <2>2. CASE reverseWithdrawal(w, admin, ref)
    <3>1. /\ row.status \in OpenStatuses \cup {"paid"}
          /\ refundWithdrawal(w, admin, ref, "reversed", "withdraw_reversed_refund")
      BY <2>2 DEF reverseWithdrawal, reversibleStatuses
    <3> QED
      BY <3>1, <1>6
  <2> QED
    BY <1>8, <2>1, <2>2
<1> QED
  BY <1>1, <1>2, <1>4, <1>5, <1>7, <1>8 DEF WithdrawalStep

QuietDepositEffect(d) ==
    /\ deposits[d].status # "credited" /\ deposits'[d].status # "credited"
    /\ UNCHANGED <<ledgerWithdrawable, ledgerLocked, mutations>>

CreditEffect(d) ==
    LET row == deposits[d] IN
    /\ row.status # "credited" /\ deposits'[d].status = "credited"
    /\ deposits'[d].user = row.user /\ deposits'[d].amount = row.amount
    /\ mutations' = mutations \cup {<<d, "credit_wallet">>}
    /\ MovesLedger(row.user, row.amount, 0)

TakeBackEffect(d) ==
    LET row == deposits[d] IN
    /\ row.status = "credited" /\ deposits'[d].status # "credited"
    /\ mutations' = mutations \cup {<<d, "reverse_wallet">>}
    /\ MovesLedger(row.user, -row.amount, 0)

(***************************************************************************)
(* Every deposit operation changes one row, and has one of the effects.    *)
(***************************************************************************)
LEMMA DepositEffects ==
    ASSUME LedgerInv, NEW d \in DepositIds, DepositStep(d)
    PROVE  /\ \A e \in DepositIds \ {d} : deposits'[e] = deposits[e]
           /\ QuietDepositEffect(d) \/ CreditEffect(d) \/ TakeBackEffect(d)
<1> DEFINE row == deposits[d]
           others == \A e \in DepositIds \ {d} : deposits'[e] = deposits[e]
           effect == QuietDepositEffect(d) \/ CreditEffect(d) \/ TakeBackEffect(d)
<1>a. /\ TypeOK /\ WalletTypeOK
      /\ row \in DepositRow
      /\ row.user \in Users
      /\ row.amount \in Int
      /\ -row.amount \in Int
  BY DEF LedgerInv, TypeOK, DepositsTypeOK, DepositRow
<1>b. ASSUME NEW status, transitionDepositStatus(d, status)
      PROVE  /\ others
             /\ deposits'[d].status = status
             /\ deposits'[d].user = row.user
             /\ deposits'[d].amount = row.amount
  BY <1>a, <1>b DEF transitionDepositStatus, TypeOK, DepositsTypeOK, DepositRow
<1>1. ASSUME NEW u \in Users, NEW amount \in DepositAmounts,
             NEW mode \in {"manual", "provider"}, createTopUp(d, u, amount, mode)
      PROVE  others /\ effect
  <2>1. /\ row.status = "none" /\ deposits'[d].status = "requested" /\ others
        /\ UNCHANGED <<ledgerWithdrawable, ledgerLocked, mutations>>
    BY <1>1, <1>a DEF createTopUp, walletVars, TypeOK, DepositsTypeOK
  <2> QED
    BY <2>1 DEF QuietDepositEffect
<1>2. ASSUME NEW ref \in Refs \cup {NoRef},
             \/ markDepositProviderPending(d)
             \/ markDepositProviderSucceeded(d, ref)
             \/ failDeposit(d, ref)
             \/ reverseDeposit(d, ref) /\ row.status # "credited"
      PROVE  others /\ effect
  <2>1. PICK status \in {"provider_pending", "provider_succeeded", "provider_failed",
                         "reversed"} : transitionDepositStatus(d, status)
    BY <1>2 DEF markDepositProviderPending, markDepositProviderSucceeded,
       failDeposit, reverseDeposit
  <2>2. /\ row.status # "credited"
        /\ UNCHANGED <<ledgerWithdrawable, ledgerLocked, mutations>>
    BY <1>2 DEF markDepositProviderPending, markDepositProviderSucceeded,
       failDeposit, reverseDeposit, walletVars
  <2>3. deposits'[d].status # "credited" /\ others
    BY <2>1, <1>b
  <2> QED
    BY <2>2, <2>3 DEF QuietDepositEffect
<1>3. ASSUME creditDeposit(d)
      PROVE  others /\ effect
  <2> DEFINE event == <<d, "credit_wallet">>
  <2>1. event \notin mutations /\ row.status # "credited"
    BY <1>3 DEF LedgerInv, MutationsMatchStatus, creditDeposit
  <2>2. /\ withdrawableEffect("deposit_credit", row.amount) = row.amount
        /\ lockedEffect("deposit_credit", row.amount) = 0
    BY DEF withdrawableEffect, lockedEffect, WithdrawableEntryTypes, LockedOutEntryTypes
  <2>3. applyLedgerMutation(event, row.user, "deposit_credit", row.amount)
    BY <1>3 DEF creditDeposit
  <2>4. mutations' = mutations \cup {event} /\ MovesLedger(row.user, row.amount, 0)
    <3>1. /\ mutations' = mutations \cup {event}
          /\ MovesLedger(row.user, withdrawableEffect("deposit_credit", row.amount),
                         lockedEffect("deposit_credit", row.amount))
      BY <1>a, <2>1, <2>3, NewMutationMoves
    <3> QED
      BY <2>2, <3>1
  <2>5. /\ deposits'[d].status = "credited" /\ others
        /\ deposits'[d].user = row.user /\ deposits'[d].amount = row.amount
    BY <1>3, <1>b DEF creditDeposit
  <2> QED
    BY <2>1, <2>4, <2>5 DEF CreditEffect
<1>4. ASSUME NEW ref \in Refs \cup {NoRef}, reverseDeposit(d, ref), row.status = "credited"
      PROVE  others /\ effect
  <2> DEFINE event == <<d, "reverse_wallet">>
  <2>1. event \notin mutations
    BY <1>4 DEF LedgerInv, MutationsMatchStatus
  <2>2. /\ withdrawableEffect("deposit_reversed", -row.amount) = -row.amount
        /\ lockedEffect("deposit_reversed", -row.amount) = 0
    BY DEF withdrawableEffect, lockedEffect, WithdrawableEntryTypes, LockedOutEntryTypes
  <2>3. applyLedgerMutation(event, row.user, "deposit_reversed", -row.amount)
    BY <1>4 DEF reverseDeposit, takeBack
  <2>4. mutations' = mutations \cup {event} /\ MovesLedger(row.user, -row.amount, 0)
    <3>1. /\ mutations' = mutations \cup {event}
          /\ MovesLedger(row.user, withdrawableEffect("deposit_reversed", -row.amount),
                         lockedEffect("deposit_reversed", -row.amount))
      BY <1>a, <2>1, <2>3, NewMutationMoves
    <3> QED
      BY <2>2, <3>1
  <2>5. deposits'[d].status = "reversed" /\ others
    BY <1>4, <1>b DEF reverseDeposit
  <2> QED
    BY <1>4, <2>4, <2>5 DEF TakeBackEffect
<1> QED
  BY <1>1, <1>2, <1>3, <1>4 DEF DepositStep

(***************************************************************************)
(* The sums of LedgerIsExplained as functions on the orders.               *)
(***************************************************************************)
LEMMA SharesAreAmounts ==
    ASSUME TypeOK, NEW u
    PROVE  /\ \A w \in WithdrawalIds : lockedFor(u, w) \in Int /\ paidOutFor(u, w) \in Int
           /\ \A d \in DepositIds : creditedFor(u, d) \in Int
<1>1. /\ \A w \in WithdrawalIds : withdrawals[w].amount \in Nat
      /\ \A d \in DepositIds : deposits[d].amount \in Nat
  BY DEF TypeOK, WithdrawalsTypeOK, DepositsTypeOK, WithdrawalRow, DepositRow
<1> QED
  BY <1>1 DEF lockedFor, paidOutFor, creditedFor

(***************************************************************************)
(* When the shares of one withdrawal move as the ledger does, the orders   *)
(* still explain it.                                                       *)
(***************************************************************************)
LEMMA OneWithdrawalMoves ==
    ASSUME TypeOK, TypeOK', LedgerIsExplained, NEW w \in WithdrawalIds, UNCHANGED deposits,
           \A u \in Users, v \in WithdrawalIds \ {w} :
                lockedFor(u, v)' = lockedFor(u, v) /\ paidOutFor(u, v)' = paidOutFor(u, v),
           \A u \in Users :
                /\ ledgerLocked'[u] = ledgerLocked[u] + lockedFor(u, w)' - lockedFor(u, w)
                /\ ledgerWithdrawable'[u] + ledgerLocked'[u] =
                        ledgerWithdrawable[u] + ledgerLocked[u]
                        - paidOutFor(u, w)' + paidOutFor(u, w)
    PROVE  LedgerIsExplained'
<1> SUFFICES ASSUME NEW u \in Users
             PROVE  /\ ledgerLocked'[u] =
                        SumFunctionOnSet([v \in WithdrawalIds |-> lockedFor(u, v)'], WithdrawalIds)
                    /\ ledgerWithdrawable'[u] + ledgerLocked'[u] =
                        SumFunctionOnSet([d \in DepositIds |-> creditedFor(u, d)'], DepositIds)
                        - SumFunctionOnSet([v \in WithdrawalIds |-> paidOutFor(u, v)'],
                                           WithdrawalIds)
  BY DEF LedgerIsExplained, LockedIsOpenLessRecalled, MoneyConserved
<1> DEFINE f == [v \in WithdrawalIds |-> lockedFor(u, v)]
           g == [v \in WithdrawalIds |-> lockedFor(u, v)']
           p == [v \in WithdrawalIds |-> paidOutFor(u, v)]
           q == [v \in WithdrawalIds |-> paidOutFor(u, v)']
           c == [d \in DepositIds |-> creditedFor(u, d)]
           e == [d \in DepositIds |-> creditedFor(u, d)']
<1>1. /\ \A v \in WithdrawalIds : lockedFor(u, v) \in Int /\ paidOutFor(u, v) \in Int
      /\ \A d \in DepositIds : creditedFor(u, d) \in Int
  BY SharesAreAmounts
<1>2. /\ \A v \in WithdrawalIds : lockedFor(u, v)' \in Int /\ paidOutFor(u, v)' \in Int
      /\ \A d \in DepositIds : creditedFor(u, d)' \in Int
  <2>1. /\ \A v \in WithdrawalIds : withdrawals'[v].amount \in Nat
        /\ \A d \in DepositIds : deposits'[d].amount \in Nat
    BY DEF TypeOK, WithdrawalsTypeOK, DepositsTypeOK, WithdrawalRow, DepositRow
  <2> QED
    BY <2>1 DEF lockedFor, paidOutFor, creditedFor
<1>3. SumFunctionOnSet(g, WithdrawalIds) = SumFunctionOnSet(f, WithdrawalIds) + g[w] - f[w]
  <2>1. /\ \A v \in WithdrawalIds : f[v] \in Int /\ g[v] \in Int
        /\ \A v \in WithdrawalIds \ {w} : g[v] = f[v]
    BY <1>1, <1>2
  <2> HIDE DEF f, g
  <2> QED
    BY <2>1, SumOfUpdate, FiniteOrdersAssumption
<1>4. SumFunctionOnSet(q, WithdrawalIds) = SumFunctionOnSet(p, WithdrawalIds) + q[w] - p[w]
  <2>1. /\ \A v \in WithdrawalIds : p[v] \in Int /\ q[v] \in Int
        /\ \A v \in WithdrawalIds \ {w} : q[v] = p[v]
    BY <1>1, <1>2
  <2> HIDE DEF p, q
  <2> QED
    BY <2>1, SumOfUpdate, FiniteOrdersAssumption
<1>5. e = c
  BY DEF creditedFor
<1>6. /\ ledgerLocked[u] = SumFunctionOnSet(f, WithdrawalIds)
      /\ ledgerWithdrawable[u] + ledgerLocked[u] =
            SumFunctionOnSet(c, DepositIds) - SumFunctionOnSet(p, WithdrawalIds)
  BY DEF LedgerIsExplained, LockedIsOpenLessRecalled, MoneyConserved
<1>7. /\ SumFunctionOnSet(f, WithdrawalIds) \in Int
      /\ SumFunctionOnSet(p, WithdrawalIds) \in Int
      /\ SumFunctionOnSet(c, DepositIds) \in Int
  BY <1>1, SumIsInt, FiniteOrdersAssumption
<1>8. /\ f[w] = lockedFor(u, w) /\ g[w] = lockedFor(u, w)'
      /\ p[w] = paidOutFor(u, w) /\ q[w] = paidOutFor(u, w)'
  OBVIOUS
<1>9. /\ f[w] \in Int /\ g[w] \in Int /\ p[w] \in Int /\ q[w] \in Int
  BY <1>1, <1>2, <1>8
<1>11. /\ ledgerLocked'[u] = ledgerLocked[u] + g[w] - f[w]
       /\ ledgerWithdrawable'[u] + ledgerLocked'[u] =
            ledgerWithdrawable[u] + ledgerLocked[u] - q[w] + p[w]
  BY <1>8
<1> HIDE DEF f, g, p, q, c, e
<1>10. /\ ledgerLocked'[u] = SumFunctionOnSet(g, WithdrawalIds)
       /\ ledgerWithdrawable'[u] + ledgerLocked'[u] =
            SumFunctionOnSet(e, DepositIds) - SumFunctionOnSet(q, WithdrawalIds)
  <2>1. ledgerWithdrawable[u] \in Int /\ ledgerLocked[u] \in Int
    BY DEF TypeOK, WalletTypeOK
  <2>2. ledgerLocked'[u] = SumFunctionOnSet(g, WithdrawalIds)
    BY ONLY <1>3, <1>6, <1>7, <1>9, <1>11
  <2>3. ledgerWithdrawable'[u] + ledgerLocked'[u] =
            SumFunctionOnSet(c, DepositIds) - SumFunctionOnSet(q, WithdrawalIds)
    BY ONLY <1>4, <1>6, <1>7, <1>9, <1>11, <2>1
  <2> QED
    BY ONLY <1>5, <2>2, <2>3
<1> QED
  BY <1>10 DEF e, g, q

(***************************************************************************)
(* The withdrawal operations move the shares of their row by what they     *)
(* book.                                                                   *)
(***************************************************************************)
LEMMA WithdrawalStepExplained ==
    ASSUME LedgerInv, TypeOK', LedgerIsExplained,
           NEW w \in WithdrawalIds, WithdrawalStep(w), UNCHANGED deposits
    PROVE  LedgerIsExplained'
<1> DEFINE row == withdrawals[w]
<1>1. /\ \A v \in WithdrawalIds \ {w} : withdrawals'[v] = withdrawals[v]
      /\ QuietEffect(w) \/ LockEffect(w) \/ ReleaseEffect(w) \/ PayEffect(w)
  BY WithdrawalEffects
<1>2. \A v \in WithdrawalIds \ {w} : Consumed(v)' <=> Consumed(v)
  BY <1>1 DEF QuietEffect, LockEffect, ReleaseEffect, PayEffect, Consumed, businessEvent
<1>3. \A u \in Users, v \in WithdrawalIds \ {w} :
            lockedFor(u, v)' = lockedFor(u, v) /\ paidOutFor(u, v)' = paidOutFor(u, v)
  BY <1>1, <1>2 DEF lockedFor, paidOutFor
<1>4. /\ row.amount \in Int /\ withdrawals'[w].amount \in Int
      /\ row.user \in Users /\ withdrawals'[w].user \in Users
      /\ \A u \in Users : ledgerWithdrawable[u] \in Int /\ ledgerLocked[u] \in Int
  BY DEF LedgerInv, TypeOK, WithdrawalsTypeOK, WithdrawalRow, WalletTypeOK
<1>5. /\ Consumed(w) => row.status \in {"paid", "reversed"}
      /\ row.status = "paid" => Consumed(w)
  BY DEF LedgerInv, MutationsMatchStatus, Consumed
<1>6. OpenStatuses = {"requested", "approved", "provider_submitted",
            "provider_processing", "provider_failed"}
  BY DEF OpenStatuses
<1>7. ASSUME NEW u \in Users
      PROVE  /\ ledgerLocked'[u] = ledgerLocked[u] + lockedFor(u, w)' - lockedFor(u, w)
             /\ ledgerWithdrawable'[u] + ledgerLocked'[u] =
                        ledgerWithdrawable[u] + ledgerLocked[u]
                        - paidOutFor(u, w)' + paidOutFor(u, w)
  <2>1. CASE QuietEffect(w)
    <3>1. Consumed(w)' <=> Consumed(w)
      BY <2>1 DEF QuietEffect, Consumed
    <3> QED
      BY <1>4, <1>5, <1>6, <2>1, <3>1 DEF QuietEffect, lockedFor, paidOutFor
  <2>2. CASE LockEffect(w)
    <3>1. ~Consumed(w) /\ ~Consumed(w)'
      BY <1>5, <2>2 DEF LockEffect, Consumed, businessEvent
    <3> QED
      BY <1>4, <1>6, <2>2, <3>1 DEF LockEffect, MovesLedger, lockedFor, paidOutFor
  <2>3. CASE ReleaseEffect(w)
    <3>1. Consumed(w)' <=> Consumed(w)
      BY <2>3 DEF ReleaseEffect, Consumed, businessEvent
    <3>2. Consumed(w) <=> row.status = "paid"
      BY <1>5, <1>6, <2>3 DEF ReleaseEffect
    <3> QED
      BY <1>4, <1>6, <2>3, <3>1, <3>2 DEF ReleaseEffect, MovesLedger, lockedFor, paidOutFor
  <2>4. CASE PayEffect(w)
    <3>1. ~Consumed(w) /\ Consumed(w)'
      BY <1>5, <2>4 DEF PayEffect, Consumed, businessEvent
    <3> QED
      BY <1>4, <1>6, <2>4, <3>1 DEF PayEffect, MovesLedger, lockedFor, paidOutFor
  <2> QED
    BY <1>1, <2>1, <2>2, <2>3, <2>4
<1> QED
  BY <1>3, <1>7, OneWithdrawalMoves DEF LedgerInv

(***************************************************************************)
(* The deposit operations move the credit of their row by what they book.  *)
(***************************************************************************)
LEMMA DepositStepExplained ==
    ASSUME LedgerInv, TypeOK', LedgerIsExplained,
           NEW d \in DepositIds, DepositStep(d), UNCHANGED withdrawals
    PROVE  LedgerIsExplained'
<1> DEFINE row == deposits[d]
<1>1. /\ \A e \in DepositIds \ {d} : deposits'[e] = deposits[e]
      /\ QuietDepositEffect(d) \/ CreditEffect(d) \/ TakeBackEffect(d)
  BY DepositEffects
<1>2. \A w \in WithdrawalIds : Consumed(w)' <=> Consumed(w)
  BY <1>1, OrderIdsAssumption
     DEF QuietDepositEffect, CreditEffect, TakeBackEffect, Consumed, businessEvent
<1> SUFFICES ASSUME NEW u \in Users
             PROVE  /\ ledgerLocked'[u] =
                        SumFunctionOnSet([w \in WithdrawalIds |-> lockedFor(u, w)'], WithdrawalIds)
                    /\ ledgerWithdrawable'[u] + ledgerLocked'[u] =
                        SumFunctionOnSet([x \in DepositIds |-> creditedFor(u, x)'], DepositIds)
                        - SumFunctionOnSet([w \in WithdrawalIds |-> paidOutFor(u, w)'],
                                           WithdrawalIds)
  BY DEF LedgerIsExplained, LockedIsOpenLessRecalled, MoneyConserved
<1> DEFINE f == [w \in WithdrawalIds |-> lockedFor(u, w)]
           p == [w \in WithdrawalIds |-> paidOutFor(u, w)]
           c == [x \in DepositIds |-> creditedFor(u, x)]
           e == [x \in DepositIds |-> creditedFor(u, x)']
<1>3. /\ f = [w \in WithdrawalIds |-> lockedFor(u, w)']
      /\ p = [w \in WithdrawalIds |-> paidOutFor(u, w)']
  <2>1. \A w \in WithdrawalIds :
            lockedFor(u, w)' = lockedFor(u, w) /\ paidOutFor(u, w)' = paidOutFor(u, w)
    BY <1>2 DEF lockedFor, paidOutFor
  <2> QED
    BY <2>1
<1>4. /\ \A w \in WithdrawalIds : lockedFor(u, w) \in Int /\ paidOutFor(u, w) \in Int
      /\ \A x \in DepositIds : creditedFor(u, x) \in Int
  BY SharesAreAmounts DEF LedgerInv
<1>5. \A x \in DepositIds : creditedFor(u, x)' \in Int
  <2>1. \A x \in DepositIds : deposits'[x].amount \in Nat
    BY DEF TypeOK, DepositsTypeOK, DepositRow
  <2> QED
    BY <2>1 DEF creditedFor
<1>6. SumFunctionOnSet(e, DepositIds) = SumFunctionOnSet(c, DepositIds) + e[d] - c[d]
  <2>1. /\ \A x \in DepositIds : c[x] \in Int /\ e[x] \in Int
        /\ \A x \in DepositIds \ {d} : e[x] = c[x]
    BY <1>1, <1>4, <1>5 DEF creditedFor
  <2> HIDE DEF c, e
  <2> QED
    BY <2>1, SumOfUpdate, FiniteOrdersAssumption
<1>7. /\ ledgerLocked[u] = SumFunctionOnSet(f, WithdrawalIds)
      /\ ledgerWithdrawable[u] + ledgerLocked[u] =
            SumFunctionOnSet(c, DepositIds) - SumFunctionOnSet(p, WithdrawalIds)
  BY DEF LedgerIsExplained, LockedIsOpenLessRecalled, MoneyConserved
<1>8. /\ SumFunctionOnSet(p, WithdrawalIds) \in Int
      /\ SumFunctionOnSet(c, DepositIds) \in Int
  BY <1>4, SumIsInt, FiniteOrdersAssumption
<1>9. /\ row.amount \in Int /\ row.user \in Users
      /\ ledgerWithdrawable[u] \in Int /\ ledgerLocked[u] \in Int
  BY DEF LedgerInv, TypeOK, DepositsTypeOK, DepositRow, WalletTypeOK
<1>10. /\ c[d] = creditedFor(u, d) /\ e[d] = creditedFor(u, d)'
       /\ c[d] \in Int /\ e[d] \in Int
  BY <1>4, <1>5
<1>11. /\ ledgerLocked'[u] = ledgerLocked[u]
       /\ ledgerWithdrawable'[u] = ledgerWithdrawable[u] + e[d] - c[d]
  <2> HIDE DEF c, e
  <2>1. CASE QuietDepositEffect(d)
    BY <1>9, <1>10, <2>1 DEF QuietDepositEffect, creditedFor
  <2>2. CASE CreditEffect(d)
    BY <1>9, <1>10, <2>2 DEF CreditEffect, MovesLedger, creditedFor
  <2>3. CASE TakeBackEffect(d)
    <3>1. /\ creditedFor(u, d) = IF row.user = u THEN row.amount ELSE 0
          /\ creditedFor(u, d)' = 0
      BY <2>3 DEF TakeBackEffect, creditedFor
    <3>2. /\ ledgerLocked'[u] = ledgerLocked[u] + 0
          /\ ledgerWithdrawable'[u] =
                ledgerWithdrawable[u] + (IF u = row.user THEN -row.amount ELSE 0)
      BY <2>3 DEF TakeBackEffect, MovesLedger
    <3> QED
      BY <1>9, <1>10, <3>1, <3>2
  <2> QED
    BY <1>1, <2>1, <2>2, <2>3
<1> HIDE DEF f, p, c, e
<1>12. /\ ledgerLocked'[u] = SumFunctionOnSet(f, WithdrawalIds)
       /\ ledgerWithdrawable'[u] + ledgerLocked'[u] =
            SumFunctionOnSet(e, DepositIds) - SumFunctionOnSet(p, WithdrawalIds)
  BY <1>6, <1>7, <1>8, <1>9, <1>10, <1>11
<1> QED
  BY <1>3, <1>12 DEF e

LEMMA InitExplained == Init => LedgerIsExplained
<1> SUFFICES ASSUME Init PROVE LedgerIsExplained
  OBVIOUS
<1>1. /\ \A w \in WithdrawalIds : withdrawals[w].status = "none"
      /\ \A d \in DepositIds : deposits[d].status = "none"
      /\ mutations = {}
  BY DEF Init, WalletInit, WithdrawalsInit, DepositsInit, NoWithdrawal, NoDeposit
<1> SUFFICES ASSUME NEW u \in Users
             PROVE  /\ ledgerLocked[u] =
                        SumFunctionOnSet([w \in WithdrawalIds |-> lockedFor(u, w)], WithdrawalIds)
                    /\ ledgerWithdrawable[u] + ledgerLocked[u] =
                        SumFunctionOnSet([d \in DepositIds |-> creditedFor(u, d)], DepositIds)
                        - SumFunctionOnSet([w \in WithdrawalIds |-> paidOutFor(u, w)],
                                           WithdrawalIds)
  BY DEF LedgerIsExplained, LockedIsOpenLessRecalled, MoneyConserved
<1> DEFINE f == [w \in WithdrawalIds |-> lockedFor(u, w)]
           p == [w \in WithdrawalIds |-> paidOutFor(u, w)]
           c == [d \in DepositIds |-> creditedFor(u, d)]
<1>4. ledgerWithdrawable[u] = 0 /\ ledgerLocked[u] = 0
  BY DEF Init, WalletInit
<1>2. /\ \A w \in WithdrawalIds : f[w] = 0 /\ p[w] = 0
      /\ \A d \in DepositIds : c[d] = 0
  BY <1>1 DEF lockedFor, paidOutFor, creditedFor, Consumed, OpenStatuses
<1> HIDE DEF f, p, c
<1>3. /\ SumFunctionOnSet(f, WithdrawalIds) = 0
      /\ SumFunctionOnSet(p, WithdrawalIds) = 0
      /\ SumFunctionOnSet(c, DepositIds) = 0
  BY <1>2, SumOfZeros, FiniteOrdersAssumption
<1> QED
  BY <1>3, <1>4 DEF f, p, c

LEMMA LedgerStaysExplained ==
    ASSUME LedgerInv, TypeOK', LedgerIsExplained, [Next]_vars
    PROVE  LedgerIsExplained'
<1>1. CASE Next
  BY <1>1, WithdrawalStepExplained, DepositStepExplained DEF Next
<1>2. CASE UNCHANGED vars
  BY <1>2 DEF vars, walletVars, LedgerIsExplained, LockedIsOpenLessRecalled, MoneyConserved,
     lockedFor, paidOutFor, creditedFor, Consumed
<1> QED
  BY <1>1, <1>2

(***************************************************************************)
(* No cent of the ledger is created or lost: in every reachable state the  *)
(* orders account for the two sums of every user.                          *)
(***************************************************************************)
THEOREM LedgerAlwaysExplained == Spec => []LedgerIsExplained
<1>1. LedgerInv /\ LedgerInv' /\ LedgerIsExplained /\ [Next]_vars => LedgerIsExplained'
  BY LedgerStaysExplained DEF LedgerInv
<1> QED
  BY InitLedger, InitExplained, LedgerInvInductive, <1>1, PTL DEF Spec

-----------------------------------------------------------------------------
(***************************************************************************)
(* What the reviews of one withdrawal row guarantee.  The first and the    *)
(* fourth conjunct are the strengthening: nothing is in the outbox before  *)
(* the approval, and a pending reviewer is on record.                      *)
(***************************************************************************)
ReviewSound(row, sendStatus) ==
    /\ row.status \in {"none", "requested"} => sendStatus = "none"
    /\ row.manualRequired => /\ row.mode = "manual"
                             /\ sendStatus = "none"
                             /\ row.status = "paid" => row.channel = "manual"
    /\ row.pendingReview # NoAdmin => row.pendingReview \in row.reviewers
    /\ /\ row.approvalsRequired = 2
       /\ row.status \in ReleasedStatuses \/ sendStatus # "none"
       => \E a, b \in row.reviewers : a # b

ReviewInv == TypeOK /\ \A w \in WithdrawalIds : ReviewSound(withdrawals[w], outbound[w])

(***************************************************************************)
(* Recording a review of an order that is past its approval, or that ends  *)
(* it, keeps the row sound.                                                *)
(***************************************************************************)
LEMMA ReviewedStaysSound ==
    ASSUME NEW row \in WithdrawalRow, NEW sendStatus, ReviewSound(row, sendStatus),
           NEW admin \in Admins \cup {NoAdmin}, NEW status \in WithdrawalStatuses \ {"requested"},
           status = "paid" => row.manualRequired = FALSE,
           row.status \in ReleasedStatuses \/ status \in {"rejected", "reversed"}
    PROVE  ReviewSound(reviewed(row, admin, status), sendStatus)
<1> DEFINE new == reviewed(row, admin, status)
<1>1. /\ new.status = status
      /\ new.approvalsRequired = row.approvalsRequired
      /\ new.manualRequired = row.manualRequired
      /\ new.mode = row.mode
      /\ new.pendingReview = NoAdmin
      /\ row.reviewers \subseteq new.reviewers
  BY ReviewedType
<1>2. status # "none"
  BY DEF WithdrawalStatuses
<1> HIDE DEF new
<1>3. new.manualRequired => /\ new.mode = "manual"
                            /\ sendStatus = "none"
                            /\ new.status = "paid" => new.channel = "manual"
  BY <1>1 DEF ReviewSound
<1>4. /\ new.approvalsRequired = 2
      /\ new.status \in ReleasedStatuses \/ sendStatus # "none"
      => \E a, b \in new.reviewers : a # b
  BY <1>1 DEF ReviewSound, ReleasedStatuses
<1>5. ReviewSound(new, sendStatus)
  BY <1>1, <1>2, <1>3, <1>4 DEF ReviewSound
<1> QED
  BY <1>5 DEF new

LEMMA WithdrawalStepReview ==
    ASSUME ReviewInv, NEW w \in WithdrawalIds, WithdrawalStep(w)
    PROVE  \A v \in WithdrawalIds : ReviewSound(withdrawals'[v], outbound'[v])
<1> DEFINE row == withdrawals[w]
<1>a. /\ withdrawals \in [WithdrawalIds -> WithdrawalRow]
      /\ outbound \in [OrderIds -> SendStatuses]
      /\ row \in WithdrawalRow
      /\ ReviewSound(row, outbound[w])
      /\ \A v \in WithdrawalIds : ReviewSound(withdrawals[v], outbound[v])
  BY DEF ReviewInv, TypeOK, WithdrawalsTypeOK
<1>b. /\ WithdrawalStatuses = {"requested", "approved", "provider_submitted",
            "provider_processing", "provider_failed", "paid", "rejected", "reversed"}
      /\ ReleasedStatuses = {"approved", "provider_submitted", "provider_processing",
            "provider_failed", "paid"}
  BY DEF WithdrawalStatuses, ReleasedStatuses
<1>c. ASSUME NEW new,
             withdrawals' = [withdrawals EXCEPT ![w] = new],
             \A v \in WithdrawalIds \ {w} : outbound'[v] = outbound[v],
             ReviewSound(new, outbound'[w])
      PROVE  \A v \in WithdrawalIds : ReviewSound(withdrawals'[v], outbound'[v])
  <2> SUFFICES ASSUME NEW v \in WithdrawalIds
               PROVE  ReviewSound(withdrawals'[v], outbound'[v])
    OBVIOUS
  <2>1. CASE v = w
    <3>1. withdrawals'[v] = new
      BY <1>a, <1>c, <2>1
    <3> QED
      BY <1>c, <2>1, <3>1
  <2>2. CASE v # w
    <3>1. withdrawals'[v] = withdrawals[v] /\ outbound'[v] = outbound[v]
      BY <1>a, <1>c, <2>2
    <3> QED
      BY <1>a, <3>1
  <2> QED
    BY <2>1, <2>2
<1>1. ASSUME NEW u \in Users, NEW amount \in Amounts, NEW risky \in BOOLEAN,
             NEW mode \in {"manual", "provider"},
             createWithdrawal(w, u, amount, risky, mode)
      PROVE  \A v \in WithdrawalIds : ReviewSound(withdrawals'[v], outbound'[v])
  <2> DEFINE new == [status |-> "requested", user |-> u, amount |-> amount,
            approvalsRequired |-> approvalsRequired(amount),
            manualRequired |-> risky,
            mode |-> payoutMode(risky, mode),
            pendingReview |-> NoAdmin, reviewers |-> {}, channel |-> "none"]
  <2>1. outbound' = outbound /\ outbound[w] = "none"
    BY <1>1, <1>a DEF createWithdrawal, ReviewSound
  <2>2. ReviewSound(new, outbound'[w])
    BY <2>1 DEF ReviewSound, ReleasedStatuses, payoutMode
  <2>3. withdrawals' = [withdrawals EXCEPT ![w] = new]
    BY <1>1 DEF createWithdrawal
  <2> QED
    BY <2>1, <2>2, <2>3, <1>c
<1>2. ASSUME NEW admin \in Admins \cup {NoAdmin}, approveWithdrawalFirst(w, admin)
      PROVE  \A v \in WithdrawalIds : ReviewSound(withdrawals'[v], outbound'[v])
  <2> DEFINE new == [row EXCEPT !.pendingReview = admin, !.reviewers = @ \cup {admin}]
  <2>1. outbound' = outbound /\ row.status = "requested" /\ outbound[w] = "none"
    BY <1>2, <1>a DEF approveWithdrawalFirst, ReviewSound
  <2>2. /\ new.status = row.status
        /\ new.manualRequired = row.manualRequired
        /\ new.mode = row.mode
        /\ new.pendingReview \in new.reviewers
    BY <1>a DEF WithdrawalRow
  <2>3. withdrawals' = [withdrawals EXCEPT ![w] = new]
    BY <1>2 DEF approveWithdrawalFirst
  <2> HIDE DEF new
  <2>4. ReviewSound(new, outbound'[w])
    BY <2>1, <2>2, <1>a, <1>b DEF ReviewSound
  <2> QED
    BY <2>1, <2>3, <2>4, <1>c
<1>3. ASSUME NEW admin \in Admins \cup {NoAdmin}, approveWithdrawal(w, admin)
      PROVE  \A v \in WithdrawalIds : ReviewSound(withdrawals'[v], outbound'[v])
  <2> DEFINE new == reviewed(row, admin, "approved")
  <2>0. "approved" \in WithdrawalStatuses
    BY <1>b
  <2>1. /\ new.status = "approved"
        /\ new.approvalsRequired = row.approvalsRequired
        /\ new.manualRequired = row.manualRequired
        /\ new.mode = row.mode
        /\ new.pendingReview = NoAdmin
        /\ new.reviewers = row.reviewers \cup ({admin} \ {NoAdmin})
    BY <1>a, <2>0, ReviewedType
  <2>2. withdrawals' = [withdrawals EXCEPT ![w] = new]
    BY <1>3 DEF approveWithdrawal
  <2>3. /\ \A v \in WithdrawalIds \ {w} : outbound'[v] = outbound[v]
        /\ row.mode = "manual" => outbound'[w] = outbound[w]
    BY <1>3, <1>a DEF approveWithdrawal, preparePaymentOutboundRequest
  <2>4. row.approvalsRequired = 2 =>
            /\ admin # NoAdmin
            /\ row.pendingReview # admin
            /\ row.pendingReview \in row.reviewers
    BY <1>3, <1>a DEF approveWithdrawal, approvalConfirmed, ReviewSound
  <2> HIDE DEF new
  <2>5. new.approvalsRequired = 2 => \E a, b \in new.reviewers : a # b
    BY <2>1, <2>4
  <2>6. ReviewSound(new, outbound'[w])
    BY <2>1, <2>3, <2>5, <1>a DEF ReviewSound
  <2> QED
    BY <2>2, <2>3, <2>6, <1>c
<1>4. ASSUME NEW admin \in Admins \cup {NoAdmin}, NEW status \in WithdrawalStatuses \ {"requested", "paid"},
             row.status \in ReleasedStatuses \/ status \in {"rejected", "reversed"},
             withdrawals' = [withdrawals EXCEPT ![w] = reviewed(@, admin, status)],
             outbound' = outbound
      PROVE  \A v \in WithdrawalIds : ReviewSound(withdrawals'[v], outbound'[v])
  <2>1. ReviewSound(reviewed(row, admin, status), outbound'[w])
    BY <1>4, <1>a, ReviewedStaysSound
  <2>2. withdrawals' = [withdrawals EXCEPT ![w] = reviewed(row, admin, status)]
    BY <1>4
  <2> QED
    BY <1>4, <2>1, <2>2, <1>c
<1>5. ASSUME NEW admin \in Admins \cup {NoAdmin}, NEW ref \in Refs \cup {NoRef},
             \/ markWithdrawalProviderSubmitted(w, admin, ref)
             \/ markWithdrawalProviderProcessing(w, admin, ref)
             \/ markWithdrawalProviderFailed(w, admin, ref)
             \/ rejectWithdrawal(w, admin, ref)
             \/ reverseWithdrawal(w, admin, ref)
      PROVE  \A v \in WithdrawalIds : ReviewSound(withdrawals'[v], outbound'[v])
  <2>1. PICK status \in WithdrawalStatuses \ {"requested", "paid"} :
            /\ row.status \in ReleasedStatuses \/ status \in {"rejected", "reversed"}
            /\ withdrawals' = [withdrawals EXCEPT ![w] = reviewed(@, admin, status)]
    BY <1>5, <1>b DEF markWithdrawalProviderSubmitted, markWithdrawalProviderProcessing,
       markWithdrawalProviderFailed, rejectWithdrawal, reverseWithdrawal, refundWithdrawal
  <2>2. outbound' = outbound
    BY <1>5 DEF markWithdrawalProviderSubmitted, markWithdrawalProviderProcessing,
       markWithdrawalProviderFailed, rejectWithdrawal, reverseWithdrawal, refundWithdrawal
  <2> QED
    BY <2>1, <2>2, <1>4
<1>6. ASSUME NEW admin \in Admins \cup {NoAdmin}, NEW ref \in Refs \cup {NoRef},
             NEW channel \in Channels, payWithdrawal(w, admin, ref, channel)
      PROVE  \A v \in WithdrawalIds : ReviewSound(withdrawals'[v], outbound'[v])
  <2> DEFINE mid == reviewed(row, admin, "paid")
             new == [mid EXCEPT !.channel = channel]
  <2>0. "paid" \in WithdrawalStatuses
    BY <1>b
  <2>1. /\ mid \in WithdrawalRow
        /\ mid.status = "paid"
        /\ mid.approvalsRequired = row.approvalsRequired
        /\ mid.manualRequired = row.manualRequired
        /\ mid.mode = row.mode
        /\ mid.pendingReview = NoAdmin
        /\ mid.reviewers = row.reviewers \cup ({admin} \ {NoAdmin})
    BY <1>a, <2>0, ReviewedType
  <2> HIDE DEF mid
  <2>2. /\ new.status = mid.status
        /\ new.approvalsRequired = mid.approvalsRequired
        /\ new.manualRequired = mid.manualRequired
        /\ new.mode = mid.mode
        /\ new.pendingReview = mid.pendingReview
        /\ new.reviewers = mid.reviewers
        /\ new.channel = channel
    BY <2>1 DEF WithdrawalRow
  <2>3. /\ withdrawals' = [withdrawals EXCEPT ![w] = new]
        /\ outbound' = outbound
        /\ row.status = "provider_processing"
        /\ row.manualRequired => channel = "manual"
    BY <1>6 DEF payWithdrawal, mid
  <2> HIDE DEF new
  <2>4. /\ new.approvalsRequired = 2
        /\ new.status \in ReleasedStatuses \/ outbound'[w] # "none"
        => \E a, b \in new.reviewers : a # b
    BY <1>a, <1>b, <2>1, <2>2, <2>3 DEF ReviewSound
  <2>5. ReviewSound(new, outbound'[w])
    BY <1>a, <2>1, <2>2, <2>3, <2>4 DEF ReviewSound
  <2> QED
    BY <2>3, <2>5, <1>c
<1> QED
  BY <1>1, <1>2, <1>3, <1>5, <1>6 DEF WithdrawalStep

LEMMA DepositStepReview ==
    ASSUME ReviewInv, NEW d \in DepositIds, DepositStep(d), UNCHANGED withdrawals
    PROVE  \A v \in WithdrawalIds : ReviewSound(withdrawals'[v], outbound'[v])
<1>1. \A v \in WithdrawalIds : outbound'[v] = outbound[v]
  BY OrderIdsAssumption DEF ReviewInv, TypeOK, DepositStep, createTopUp,
     preparePaymentOutboundRequest, markDepositProviderPending, creditDeposit,
     markDepositProviderSucceeded, failDeposit, reverseDeposit
<1> QED
  BY <1>1 DEF ReviewInv

LEMMA ReviewInvInductive == ReviewInv /\ [Next]_vars => ReviewInv'
<1> SUFFICES ASSUME ReviewInv, [Next]_vars PROVE ReviewInv'
  OBVIOUS
<1>1. CASE Next
  BY <1>1, WithdrawalStepType, DepositStepType, WithdrawalStepReview, DepositStepReview
     DEF Next, ReviewInv
<1>2. CASE UNCHANGED vars
  BY <1>2 DEF vars, walletVars, ReviewInv, TypeOK, WalletTypeOK, WithdrawalsTypeOK,
     DepositsTypeOK
<1> QED
  BY <1>1, <1>2

LEMMA InitReview == Init => ReviewInv
<1> SUFFICES ASSUME Init, NEW w \in WithdrawalIds
             PROVE  ReviewSound(withdrawals[w], outbound[w])
  BY InitType DEF ReviewInv
<1>1. withdrawals[w] = NoWithdrawal /\ outbound[w] = "none"
  BY DEF Init, WithdrawalsInit, OutboundInit
<1> QED
  BY <1>1 DEF NoWithdrawal, ReviewSound, ReleasedStatuses

(***************************************************************************)
(* No large withdrawal is released or put in the outbox on one admin's word.*)
(***************************************************************************)
THEOREM AlwaysTwoReviewers == Spec => []TwoReviewers
<1>1. ReviewInv => TwoReviewers
  BY DEF ReviewInv, ReviewSound, TwoReviewers
<1> QED
  BY InitReview, ReviewInvInductive, <1>1, PTL DEF Spec

(***************************************************************************)
(* A risk-routed withdrawal never reaches a provider.                      *)
(***************************************************************************)
THEOREM RiskRoutedAlwaysManual == Spec => []RiskRoutedStaysManual
<1>1. ReviewInv => RiskRoutedStaysManual
  BY DEF ReviewInv, ReviewSound, RiskRoutedStaysManual
<1> QED
  BY InitReview, ReviewInvInductive, <1>1, PTL DEF Spec

-----------------------------------------------------------------------------
(***************************************************************************)
(* Under the refinement mapping, a review that keeps user and amount moves *)
(* at most the holder of that withdrawal's money.                          *)
(***************************************************************************)
LEMMA PayoutMoves ==
    ASSUME TypeOK, NEW w \in WithdrawalIds, NEW admin \in Admins \cup {NoAdmin},
           NEW status \in WithdrawalStatuses,
           withdrawals' = [withdrawals EXCEPT ![w] = reviewed(@, admin, status)]
    PROVE  payoutCustody' = [payoutCustody EXCEPT ![w].holder = payoutHolder(status)]
<1>1. withdrawals[w] \in WithdrawalRow
  BY DEF TypeOK, WithdrawalsTypeOK
<1>2. /\ withdrawals'[w].status = status
      /\ withdrawals'[w].user = withdrawals[w].user
      /\ withdrawals'[w].amount = withdrawals[w].amount
      /\ \A v \in WithdrawalIds \ {w} : withdrawals'[v] = withdrawals[v]
  BY <1>1, ReviewedType DEF TypeOK, WithdrawalsTypeOK
<1> QED
  BY <1>2 DEF payoutCustody

LEMMA TopUpMoves ==
    ASSUME TypeOK, NEW d \in DepositIds, NEW status,
           transitionDepositStatus(d, status)
    PROVE  topUpCustody' = [topUpCustody EXCEPT ![d].holder = topUpHolder(status)]
<1>1. /\ deposits'[d].status = status
      /\ deposits'[d].user = deposits[d].user
      /\ deposits'[d].amount = deposits[d].amount
      /\ \A e \in DepositIds \ {d} : deposits'[e] = deposits[e]
  BY DEF TypeOK, DepositsTypeOK, DepositRow, transitionDepositStatus
<1> QED
  BY <1>1 DEF topUpCustody

(***************************************************************************)
(* Every withdrawal operation holds, pays or gives back, or moves nothing. *)
(***************************************************************************)
LEMMA WithdrawalStepCustody ==
    ASSUME TypeOK, NEW w \in WithdrawalIds, WithdrawalStep(w), UNCHANGED deposits
    PROVE  Custody!Next \/ UNCHANGED Custody!vars
<1> DEFINE row == withdrawals[w]
<1>a. /\ WalletTypeOK /\ row \in WithdrawalRow
      /\ withdrawals \in [WithdrawalIds -> WithdrawalRow]
      /\ topUpCustody' = topUpCustody
      /\ payoutCustody[w] = [holder |-> payoutHolder(row.status),
                             user |-> row.user, amount |-> row.amount]
  BY DEF TypeOK, WithdrawalsTypeOK, topUpCustody, payoutCustody
<1>b. /\ WithdrawalStatuses = {"requested", "approved", "provider_submitted",
            "provider_processing", "provider_failed", "paid", "rejected", "reversed"}
      /\ OpenStatuses = {"requested", "approved", "provider_submitted",
            "provider_processing", "provider_failed"}
  BY DEF WithdrawalStatuses, OpenStatuses
<1>c. /\ payoutHolder("none") = "nobody"
      /\ \A s \in OpenStatuses : payoutHolder(s) = "platform"
      /\ payoutHolder("paid") = "receiver"
      /\ payoutHolder("rejected") = "user"
      /\ payoutHolder("reversed") = "user"
  BY <1>b DEF payoutHolder
<1>d. ASSUME NEW admin \in Admins \cup {NoAdmin}, NEW status \in WithdrawalStatuses,
             withdrawals' = [withdrawals EXCEPT ![w] = reviewed(@, admin, status)]
      PROVE  /\ withdrawals'[w].status = status
             /\ withdrawals'[w].user = row.user
             /\ withdrawals'[w].amount = row.amount
             /\ \A v \in WithdrawalIds \ {w} : withdrawals'[v] = withdrawals[v]
  BY <1>a, <1>d, ReviewedType
<1>1. ASSUME NEW u \in Users, NEW amount \in Amounts, NEW risky \in BOOLEAN,
             NEW mode \in {"manual", "provider"},
             createWithdrawal(w, u, amount, risky, mode)
      PROVE  Custody!Next \/ UNCHANGED Custody!vars
  <2>1. /\ withdrawals'[w].status = "requested"
        /\ withdrawals'[w].user = u
        /\ withdrawals'[w].amount = amount
        /\ \A v \in WithdrawalIds \ {w} : withdrawals'[v] = withdrawals[v]
    BY <1>1, <1>a DEF createWithdrawal
  <2>2. payoutHolder("requested") = "platform"
    BY <1>b, <1>c
  <2>3. payoutCustody' = [payoutCustody EXCEPT ![w] =
            [holder |-> "platform", user |-> u, amount |-> amount]]
    BY <2>1, <2>2 DEF payoutCustody
  <2>4. /\ payoutCustody[w].holder = "nobody"
        /\ withdrawable[u] >= amount
        /\ withdrawable' = [withdrawable EXCEPT ![u] = @ - amount]
    BY <1>1, <1>a, <1>c DEF createWithdrawal
  <2>5. topUpCustody' = topUpCustody
    BY <1>a
  <2>6. Custody!Hold(w)
    BY <1>1, <2>3, <2>4, <2>5 DEF Custody!Hold
  <2> QED
    BY <2>6 DEF Custody!Next
<1>2. ASSUME NEW admin \in Admins \cup {NoAdmin}, approveWithdrawalFirst(w, admin)
      PROVE  Custody!Next \/ UNCHANGED Custody!vars
  <2>1. /\ withdrawals'[w].status = row.status
        /\ withdrawals'[w].user = row.user
        /\ withdrawals'[w].amount = row.amount
        /\ \A v \in WithdrawalIds \ {w} : withdrawals'[v] = withdrawals[v]
    BY <1>2, <1>a DEF approveWithdrawalFirst, WithdrawalRow
  <2>2. payoutCustody' = payoutCustody
    BY <2>1 DEF payoutCustody
  <2> QED
    BY <1>2, <1>a, <2>2 DEF Custody!vars, approveWithdrawalFirst, walletVars
<1>3. ASSUME NEW admin \in Admins \cup {NoAdmin}, NEW status \in WithdrawalStatuses,
             status \in OpenStatuses, row.status \in OpenStatuses,
             withdrawals' = [withdrawals EXCEPT ![w] = reviewed(@, admin, status)],
             withdrawable' = withdrawable
      PROVE  UNCHANGED Custody!vars
  <2>1. /\ payoutHolder(withdrawals'[w].status) = payoutHolder(row.status)
        /\ withdrawals'[w].user = row.user
        /\ withdrawals'[w].amount = row.amount
        /\ \A v \in WithdrawalIds \ {w} : withdrawals'[v] = withdrawals[v]
    <3>1. /\ withdrawals'[w].status = status
          /\ withdrawals'[w].user = row.user
          /\ withdrawals'[w].amount = row.amount
          /\ \A v \in WithdrawalIds \ {w} : withdrawals'[v] = withdrawals[v]
      BY <1>3, <1>d
    <3> QED
      BY <3>1, <1>3, <1>c
  <2>3. payoutCustody' = payoutCustody
    BY <2>1 DEF payoutCustody
  <2> QED
    BY <1>3, <1>a, <2>3 DEF Custody!vars
<1>4. ASSUME NEW admin \in Admins \cup {NoAdmin}, NEW ref \in Refs \cup {NoRef},
             \/ approveWithdrawal(w, admin)
             \/ markWithdrawalProviderSubmitted(w, admin, ref)
             \/ markWithdrawalProviderProcessing(w, admin, ref)
             \/ markWithdrawalProviderFailed(w, admin, ref)
      PROVE  UNCHANGED Custody!vars
  <2>1. PICK status \in OpenStatuses :
            withdrawals' = [withdrawals EXCEPT ![w] = reviewed(@, admin, status)]
    BY <1>4, <1>b DEF approveWithdrawal, markWithdrawalProviderSubmitted,
       markWithdrawalProviderProcessing, markWithdrawalProviderFailed
  <2>2. row.status \in OpenStatuses /\ withdrawable' = withdrawable
    BY <1>4, <1>b DEF approveWithdrawal, markWithdrawalProviderSubmitted,
       markWithdrawalProviderProcessing, markWithdrawalProviderFailed, walletVars
  <2> QED
    BY <2>1, <2>2, <1>3, <1>b
<1>5. ASSUME NEW admin \in Admins \cup {NoAdmin}, NEW ref \in Refs \cup {NoRef},
             rejectWithdrawal(w, admin, ref) \/ reverseWithdrawal(w, admin, ref)
      PROVE  Custody!Next
  <2>1. PICK status \in {"rejected", "reversed"} :
            withdrawals' = [withdrawals EXCEPT ![w] = reviewed(@, admin, status)]
    BY <1>5 DEF rejectWithdrawal, reverseWithdrawal, refundWithdrawal
  <2>2. /\ row.status \in OpenStatuses \cup {"paid"}
        /\ withdrawable' = [withdrawable EXCEPT ![row.user] = @ + row.amount]
    BY <1>5, <1>b DEF rejectWithdrawal, reverseWithdrawal, refundWithdrawal,
       reversibleStatuses
  <2>3. payoutCustody' = [payoutCustody EXCEPT ![w].holder = "user"]
    <3>1. status \in WithdrawalStatuses /\ payoutHolder(status) = "user"
      BY <1>b, <1>c
    <3> QED
      BY <2>1, <3>1, PayoutMoves
  <2>4. payoutCustody[w].holder \in {"platform", "receiver"}
    BY <2>2, <1>a, <1>c
  <2>5. Custody!GiveBack(w)
    BY <1>a, <2>2, <2>3, <2>4 DEF Custody!GiveBack
  <2> QED
    BY <2>5 DEF Custody!Next
<1>6. ASSUME NEW admin \in Admins \cup {NoAdmin}, NEW ref \in Refs \cup {NoRef},
             NEW channel \in Channels, payWithdrawal(w, admin, ref, channel)
      PROVE  Custody!Next
  <2> DEFINE mid == reviewed(row, admin, "paid")
  <2>0. "paid" \in WithdrawalStatuses
    BY <1>b
  <2>1. /\ mid \in WithdrawalRow
        /\ mid.status = "paid"
        /\ mid.user = row.user
        /\ mid.amount = row.amount
    BY <1>a, <2>0, ReviewedType
  <2>2. withdrawals' = [withdrawals EXCEPT ![w] = [mid EXCEPT !.channel = channel]]
    BY <1>6 DEF payWithdrawal
  <2> HIDE DEF mid
  <2>3. /\ withdrawals'[w].status = "paid"
        /\ withdrawals'[w].user = row.user
        /\ withdrawals'[w].amount = row.amount
        /\ \A v \in WithdrawalIds \ {w} : withdrawals'[v] = withdrawals[v]
    BY <1>a, <2>1, <2>2 DEF WithdrawalRow
  <2>4. payoutCustody' = [payoutCustody EXCEPT ![w].holder = "receiver"]
    BY <2>3, <1>c DEF payoutCustody
  <2>5. payoutCustody[w].holder = "platform" /\ withdrawable' = withdrawable
    BY <1>6, <1>a, <1>b, <1>c DEF payWithdrawal
  <2>6. Custody!PayOut(w)
    BY <1>a, <2>4, <2>5 DEF Custody!PayOut
  <2> QED
    BY <2>6 DEF Custody!Next
<1> QED
  BY <1>1, <1>2, <1>4, <1>5, <1>6 DEF WithdrawalStep

(***************************************************************************)
(* Every deposit operation announces, credits, abandons or takes back, or  *)
(* moves nothing.                                                          *)
(***************************************************************************)
LEMMA DepositStepCustody ==
    ASSUME TypeOK, NEW d \in DepositIds, DepositStep(d), UNCHANGED withdrawals
    PROVE  Custody!Next \/ UNCHANGED Custody!vars
<1> DEFINE row == deposits[d]
<1>a. /\ WalletTypeOK /\ row \in DepositRow
      /\ deposits \in [DepositIds -> DepositRow]
      /\ payoutCustody' = payoutCustody
      /\ topUpCustody[d] = [holder |-> topUpHolder(row.status),
                            user |-> row.user, amount |-> row.amount]
  BY DEF TypeOK, DepositsTypeOK, topUpCustody, payoutCustody
<1>b. /\ topUpHolder("none") = "nobody"
      /\ topUpHolder("requested") = "payer"
      /\ topUpHolder("provider_pending") = "payer"
      /\ topUpHolder("provider_succeeded") = "payer"
      /\ topUpHolder("credited") = "user"
      /\ topUpHolder("provider_failed") = "closed"
      /\ topUpHolder("reversed") = "closed"
  BY DEF topUpHolder
<1>1. ASSUME NEW u \in Users, NEW amount \in DepositAmounts,
             NEW mode \in {"manual", "provider"}, createTopUp(d, u, amount, mode)
      PROVE  Custody!Next
  <2>1. topUpCustody' = [topUpCustody EXCEPT ![d] =
            [holder |-> "payer", user |-> u, amount |-> amount]]
    BY <1>1, <1>a, <1>b DEF createTopUp, topUpCustody
  <2>2. topUpCustody[d].holder = "nobody" /\ withdrawable' = withdrawable
    BY <1>1, <1>a, <1>b DEF createTopUp, walletVars
  <2>3. payoutCustody' = payoutCustody
    BY <1>a
  <2>4. Custody!Announce(d)
    BY <1>1, <2>1, <2>2, <2>3 DEF Custody!Announce
  <2> QED
    BY <2>4 DEF Custody!Next
<1>2. ASSUME NEW status \in {"provider_pending", "provider_succeeded"},
             row.status \in {"requested", "provider_pending", "provider_succeeded"},
             transitionDepositStatus(d, status), withdrawable' = withdrawable
      PROVE  UNCHANGED Custody!vars
  <2>1. /\ deposits'[d].status = status
        /\ deposits'[d].user = row.user
        /\ deposits'[d].amount = row.amount
        /\ \A e \in DepositIds \ {d} : deposits'[e] = deposits[e]
    BY <1>2, <1>a DEF DepositRow, transitionDepositStatus
  <2>2. topUpHolder(deposits'[d].status) = topUpHolder(row.status)
    BY <1>2, <1>b, <2>1
  <2>3. topUpCustody' = topUpCustody
    BY <2>1, <2>2 DEF topUpCustody
  <2> QED
    BY <1>2, <1>a, <2>3 DEF Custody!vars
<1>3. ASSUME markDepositProviderPending(d)
      PROVE  UNCHANGED Custody!vars
  BY <1>3, <1>2 DEF markDepositProviderPending, walletVars
<1>4. ASSUME NEW ref \in Refs \cup {NoRef}, markDepositProviderSucceeded(d, ref)
      PROVE  UNCHANGED Custody!vars
  <2>1. row.status \in {"requested", "provider_pending"}
    BY <1>4 DEF markDepositProviderSucceeded, transitionDepositStatus, depositTransitions
  <2> QED
    BY <1>4, <2>1, <1>2 DEF markDepositProviderSucceeded
<1>5. ASSUME NEW status \in {"provider_failed", "reversed"},
             row.status \in {"requested", "provider_pending", "provider_succeeded"},
             transitionDepositStatus(d, status), withdrawable' = withdrawable
      PROVE  Custody!Next
  <2>1. topUpCustody' = [topUpCustody EXCEPT ![d].holder = "closed"]
    BY <1>5, <1>b, TopUpMoves
  <2>2. Custody!Abandon(d)
    BY <1>5, <1>a, <1>b, <2>1 DEF Custody!Abandon
  <2> QED
    BY <2>2 DEF Custody!Next
<1>6. ASSUME NEW ref \in Refs \cup {NoRef}, failDeposit(d, ref)
      PROVE  Custody!Next
  BY <1>6, <1>5 DEF failDeposit
<1>7. ASSUME creditDeposit(d)
      PROVE  Custody!Next
  <2>1. topUpCustody' = [topUpCustody EXCEPT ![d].holder = "user"]
    BY <1>7, <1>b, TopUpMoves DEF creditDeposit
  <2>2. Custody!Credit(d)
    BY <1>7, <1>a, <1>b, <2>1 DEF Custody!Credit, creditDeposit
  <2> QED
    BY <2>2 DEF Custody!Next
<1>8. ASSUME NEW ref \in Refs \cup {NoRef}, reverseDeposit(d, ref)
      PROVE  Custody!Next
  <2>1. CASE row.status = "credited"
    <3>1. takeBack(d) /\ transitionDepositStatus(d, "reversed")
      BY <1>8, <2>1 DEF reverseDeposit
    <3>2. topUpCustody' = [topUpCustody EXCEPT ![d].holder = "closed"]
      BY <3>1, <1>b, TopUpMoves
    <3>3. Custody!TakeBack(d)
      BY <2>1, <3>1, <3>2, <1>a, <1>b DEF Custody!TakeBack, takeBack
    <3> QED
      BY <3>3 DEF Custody!Next
  <2>2. CASE row.status # "credited"
    BY <1>8, <2>2, <1>5 DEF reverseDeposit
  <2> QED
    BY <2>1, <2>2
<1> QED
  BY <1>1, <1>3, <1>4, <1>6, <1>7, <1>8 DEF DepositStep

(***************************************************************************)
(* The order services implement FundsCustody: an order's amount is taken,  *)
(* paid, credited and given back at most once, in the order the custody of *)
(* the money allows, whatever the interleaving.                            *)
(***************************************************************************)
THEOREM ImplementsCustody == Spec => CustodySpec
<1>1. Init => Custody!Init
  <2> SUFFICES ASSUME Init PROVE Custody!Init
    OBVIOUS
  <2>1. /\ \A w \in WithdrawalIds : withdrawals[w].status = "none"
        /\ \A d \in DepositIds : deposits[d].status = "none"
    BY DEF Init, WithdrawalsInit, DepositsInit, NoWithdrawal, NoDeposit
  <2>2. /\ \A w \in WithdrawalIds : payoutCustody[w].holder = "nobody"
        /\ \A d \in DepositIds : topUpCustody[d].holder = "nobody"
    BY <2>1 DEF payoutCustody, topUpCustody, payoutHolder, topUpHolder
  <2> QED
    BY <2>2 DEF Custody!Init, Init, WalletInit
<1>2. TypeOK /\ [Next]_vars => [Custody!Next]_(Custody!vars)
  <2> SUFFICES ASSUME TypeOK, [Next]_vars
               PROVE  Custody!Next \/ UNCHANGED Custody!vars
    OBVIOUS
  <2>1. CASE Next
    BY <2>1, WithdrawalStepCustody, DepositStepCustody DEF Next
  <2>2. CASE UNCHANGED vars
    BY <2>2 DEF vars, walletVars, Custody!vars, payoutCustody, topUpCustody
  <2> QED
    BY <2>1, <2>2
<1> QED
  BY TypeCorrect, <1>1, <1>2, PTL DEF Spec, CustodySpec, Custody!Spec

-----------------------------------------------------------------------------
(***************************************************************************)
(* The status graphs the operations follow, with the steps that leave a    *)
(* status alone.                                                           *)
(***************************************************************************)
PayoutEdge(s, t) ==
    \/ t = s
    \/ s = "none" /\ t = "requested"
    \/ s = "requested" /\ t \in {"approved", "rejected", "reversed"}
    \/ s = "approved" /\ t \in {"provider_submitted", "provider_processing",
                                "provider_failed", "rejected", "reversed"}
    \/ s = "provider_submitted" /\ t \in {"provider_processing", "provider_failed", "reversed"}
    \/ s = "provider_processing" /\ t \in {"provider_failed", "paid", "reversed"}
    \/ s \in {"provider_failed", "paid"} /\ t = "reversed"

TopUpEdge(s, t) ==
    \/ t = s
    \/ s = "none" /\ t = "requested"
    \/ s = "requested" /\ t \in {"provider_pending", "provider_failed"}
    \/ s = "provider_pending" /\ t \in {"provider_succeeded", "provider_failed", "reversed"}
    \/ s = "provider_succeeded" /\ t \in {"credited", "reversed"}
    \/ s = "credited" /\ t = "reversed"

\* No withdrawal is in the outbox before its approval, no deposit before its row.
HandedOut(status) == status \notin {"none", "requested"}

LEMMA ReviewedEdge ==
    ASSUME TypeOK, NEW w \in WithdrawalIds, NEW admin \in Admins \cup {NoAdmin},
           NEW status \in WithdrawalStatuses,
           withdrawals' = [withdrawals EXCEPT ![w] = reviewed(@, admin, status)]
    PROVE  /\ withdrawals'[w].status = status
           /\ \A v \in WithdrawalIds \ {w} : withdrawals'[v] = withdrawals[v]
<1>1. withdrawals[w] \in WithdrawalRow
  BY DEF TypeOK, WithdrawalsTypeOK
<1>2. reviewed(withdrawals[w], admin, status).status = status
  BY <1>1, ReviewedType
<1> QED
  BY <1>2 DEF TypeOK, WithdrawalsTypeOK

(***************************************************************************)
(* A withdrawal step moves one order along an edge, and writes the outbox  *)
(* only when it approves that order.                                       *)
(***************************************************************************)
LEMMA WithdrawalStepMoves ==
    ASSUME TypeOK, NEW w \in WithdrawalIds, WithdrawalStep(w)
    PROVE  /\ \A v \in WithdrawalIds \ {w} : withdrawals'[v] = withdrawals[v]
           /\ PayoutEdge(withdrawals[w].status, withdrawals'[w].status)
           /\ \/ outbound' = outbound
              \/ /\ HandedOut(withdrawals'[w].status)
                 /\ preparePaymentOutboundRequest(w)
<1>a. /\ WithdrawalStatuses = {"requested", "approved", "provider_submitted",
            "provider_processing", "provider_failed", "paid", "rejected", "reversed"}
      /\ withdrawals \in [WithdrawalIds -> WithdrawalRow]
      /\ withdrawals[w] \in WithdrawalRow
  BY DEF WithdrawalStatuses, TypeOK, WithdrawalsTypeOK
<1> USE DEF PayoutEdge, HandedOut
<1>1. CASE \E u \in Users, amount \in Amounts, risky \in BOOLEAN,
              mode \in {"manual", "provider"} :
                createWithdrawal(w, u, amount, risky, mode)
  BY <1>1, <1>a DEF createWithdrawal
<1>2. ASSUME NEW admin \in Admins \cup {NoAdmin}, approveWithdrawalFirst(w, admin)
      PROVE  /\ \A v \in WithdrawalIds \ {w} : withdrawals'[v] = withdrawals[v]
             /\ withdrawals'[w].status = withdrawals[w].status
             /\ outbound' = outbound
  <2>1. withdrawals'[w] = [withdrawals[w] EXCEPT !.pendingReview = admin,
                                                 !.reviewers = @ \cup {admin}]
    BY <1>2, <1>a DEF approveWithdrawalFirst, WithdrawalRow
  <2>2. withdrawals'[w].status = withdrawals[w].status
    BY <2>1, <1>a DEF WithdrawalRow
  <2> QED
    BY <1>2, <2>2, <1>a DEF approveWithdrawalFirst
<1>3. ASSUME NEW admin \in Admins \cup {NoAdmin}, approveWithdrawal(w, admin)
      PROVE  /\ \A v \in WithdrawalIds \ {w} : withdrawals'[v] = withdrawals[v]
             /\ withdrawals[w].status = "requested" /\ withdrawals'[w].status = "approved"
             /\ outbound' = outbound \/ preparePaymentOutboundRequest(w)
  BY <1>3, <1>a, ReviewedEdge DEF approveWithdrawal
<1>4. ASSUME NEW admin \in Admins \cup {NoAdmin}, NEW ref,
             \/ markWithdrawalProviderSubmitted(w, admin, ref)
             \/ markWithdrawalProviderProcessing(w, admin, ref)
             \/ markWithdrawalProviderFailed(w, admin, ref)
      PROVE  /\ \A v \in WithdrawalIds \ {w} : withdrawals'[v] = withdrawals[v]
             /\ PayoutEdge(withdrawals[w].status, withdrawals'[w].status)
             /\ outbound' = outbound
  <2>1. CASE markWithdrawalProviderSubmitted(w, admin, ref)
    BY <2>1, <1>a, ReviewedEdge DEF markWithdrawalProviderSubmitted
  <2>2. CASE markWithdrawalProviderProcessing(w, admin, ref)
    BY <2>2, <1>a, ReviewedEdge DEF markWithdrawalProviderProcessing
  <2>3. CASE markWithdrawalProviderFailed(w, admin, ref)
    BY <2>3, <1>a, ReviewedEdge DEF markWithdrawalProviderFailed
  <2> QED
    BY <1>4, <2>1, <2>2, <2>3
<1>5. ASSUME NEW admin \in Admins \cup {NoAdmin}, NEW ref,
             rejectWithdrawal(w, admin, ref) \/ reverseWithdrawal(w, admin, ref)
      PROVE  /\ \A v \in WithdrawalIds \ {w} : withdrawals'[v] = withdrawals[v]
             /\ PayoutEdge(withdrawals[w].status, withdrawals'[w].status)
             /\ outbound' = outbound
  <2>1. CASE rejectWithdrawal(w, admin, ref)
    BY <2>1, <1>a, ReviewedEdge DEF rejectWithdrawal, refundWithdrawal
  <2>2. CASE reverseWithdrawal(w, admin, ref)
    BY <2>2, <1>a, ReviewedEdge DEF reverseWithdrawal, refundWithdrawal,
       reversibleStatuses, OpenStatuses
  <2> QED
    BY <1>5, <2>1, <2>2
<1>6. ASSUME NEW admin \in Admins \cup {NoAdmin}, NEW ref, NEW channel,
             payWithdrawal(w, admin, ref, channel)
      PROVE  /\ \A v \in WithdrawalIds \ {w} : withdrawals'[v] = withdrawals[v]
             /\ PayoutEdge(withdrawals[w].status, withdrawals'[w].status)
             /\ outbound' = outbound
  <2>1. /\ reviewed(withdrawals[w], admin, "paid") \in WithdrawalRow
        /\ reviewed(withdrawals[w], admin, "paid").status = "paid"
    BY <1>a, ReviewedType
  <2>2. withdrawals'[w] = [reviewed(withdrawals[w], admin, "paid") EXCEPT !.channel = channel]
    BY <1>6, <1>a DEF payWithdrawal
  <2>3. withdrawals'[w].status = "paid"
    BY <2>1, <2>2 DEF WithdrawalRow
  <2> QED
    BY <1>6, <2>3, <1>a DEF payWithdrawal
<1> HIDE DEF PayoutEdge, HandedOut
<1> QED
  BY <1>1, <1>2, <1>3, <1>4, <1>5, <1>6 DEF WithdrawalStep, PayoutEdge, HandedOut

(***************************************************************************)
(* A deposit step does the same, and writes the outbox only on creation.   *)
(***************************************************************************)
LEMMA DepositStepMoves ==
    ASSUME TypeOK, NEW d \in DepositIds, DepositStep(d)
    PROVE  /\ \A e \in DepositIds \ {d} : deposits'[e] = deposits[e]
           /\ TopUpEdge(deposits[d].status, deposits'[d].status)
           /\ \/ outbound' = outbound
              \/ /\ deposits'[d].status # "none"
                 /\ preparePaymentOutboundRequest(d)
<1>a. /\ deposits \in [DepositIds -> DepositRow]
      /\ deposits[d] \in DepositRow
  BY DEF TypeOK, DepositsTypeOK
<1>b. ASSUME NEW status, transitionDepositStatus(d, status)
      PROVE  /\ \A e \in DepositIds \ {d} : deposits'[e] = deposits[e]
             /\ deposits'[d].status = status
             /\ status \in depositTransitions[deposits[d].status]
  BY <1>a, <1>b DEF transitionDepositStatus, DepositRow
<1> USE DEF TopUpEdge
<1>1. CASE \E u \in Users, amount \in DepositAmounts, mode \in {"manual", "provider"} :
                createTopUp(d, u, amount, mode)
  BY <1>1, <1>a DEF createTopUp
<1>2. CASE markDepositProviderPending(d)
  BY <1>2, <1>b DEF markDepositProviderPending, depositTransitions
<1>3. CASE creditDeposit(d)
  BY <1>3, <1>b DEF creditDeposit, depositTransitions
<1>4. ASSUME NEW ref, markDepositProviderSucceeded(d, ref)
      PROVE  /\ \A e \in DepositIds \ {d} : deposits'[e] = deposits[e]
             /\ TopUpEdge(deposits[d].status, deposits'[d].status)
             /\ outbound' = outbound
  BY <1>4, <1>b DEF markDepositProviderSucceeded, depositTransitions
<1>5. ASSUME NEW ref, failDeposit(d, ref)
      PROVE  /\ \A e \in DepositIds \ {d} : deposits'[e] = deposits[e]
             /\ TopUpEdge(deposits[d].status, deposits'[d].status)
             /\ outbound' = outbound
  BY <1>5, <1>b DEF failDeposit, depositTransitions
<1>6. ASSUME NEW ref, reverseDeposit(d, ref)
      PROVE  /\ \A e \in DepositIds \ {d} : deposits'[e] = deposits[e]
             /\ TopUpEdge(deposits[d].status, deposits'[d].status)
             /\ outbound' = outbound
  BY <1>6, <1>b DEF reverseDeposit, depositTransitions
<1> QED
  BY <1>1, <1>2, <1>3, <1>4, <1>5, <1>6 DEF DepositStep

(***************************************************************************)
(* Every step of the order services follows the two graphs.                *)
(***************************************************************************)
LEMMA OrderMoves ==
    ASSUME TypeOK, [Next]_vars
    PROVE  /\ \A w \in WithdrawalIds : PayoutEdge(withdrawals[w].status, withdrawals'[w].status)
           /\ \A d \in DepositIds : TopUpEdge(deposits[d].status, deposits'[d].status)
<1>0. \A s : PayoutEdge(s, s) /\ TopUpEdge(s, s)
  BY DEF PayoutEdge, TopUpEdge
<1>1. ASSUME NEW w \in WithdrawalIds, WithdrawalStep(w), UNCHANGED deposits
      PROVE  /\ \A v \in WithdrawalIds : PayoutEdge(withdrawals[v].status, withdrawals'[v].status)
             /\ \A d \in DepositIds : TopUpEdge(deposits[d].status, deposits'[d].status)
  BY <1>0, <1>1, WithdrawalStepMoves
<1>2. ASSUME NEW d \in DepositIds, DepositStep(d), UNCHANGED withdrawals
      PROVE  /\ \A w \in WithdrawalIds : PayoutEdge(withdrawals[w].status, withdrawals'[w].status)
             /\ \A e \in DepositIds : TopUpEdge(deposits[e].status, deposits'[e].status)
  BY <1>0, <1>2, DepositStepMoves
<1>3. CASE UNCHANGED vars
  BY <1>0, <1>3 DEF vars
<1> QED
  BY <1>1, <1>2, <1>3 DEF Next

(***************************************************************************)
(* No operation reopens a closed order.                                    *)
(***************************************************************************)
THEOREM ClosedOrdersStayClosed == Spec => ClosedStaysClosed
<1> DEFINE Keeps ==
             /\ \A w \in WithdrawalIds :
                  /\ withdrawals[w].status \in {"rejected", "reversed"}
                         => withdrawals'[w].status = withdrawals[w].status
                  /\ withdrawals[w].status = "paid"
                         => withdrawals'[w].status \in {"paid", "reversed"}
             /\ \A d \in DepositIds :
                  deposits[d].status \in {"provider_failed", "reversed"}
                      => deposits'[d].status = deposits[d].status
<1>1. TypeOK /\ [Next]_vars => [Keeps]_vars
  BY OrderMoves DEF PayoutEdge, TopUpEdge
<1> QED
  BY TypeCorrect, <1>1, PTL DEF Spec, ClosedStaysClosed
==============================================================================
