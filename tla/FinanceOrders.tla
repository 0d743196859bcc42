---------------------------- MODULE FinanceOrders ----------------------------
(***************************************************************************)
(* Deposits and withdrawals of several users on the shared wallets: any    *)
(* admin, webhook or worker may call any operation at any time, and the    *)
(* transactions are serialised by the order and wallet row locks.          *)
(***************************************************************************)
EXTENDS Withdrawals, Deposits, FiniteSets, Functions

\* The tables are finite.
ASSUME FiniteOrdersAssumption == IsFiniteSet(WithdrawalIds) /\ IsFiniteSet(DepositIds)

vars == <<walletVars, outbound, withdrawals, deposits>>

Init ==
    /\ WalletInit
    /\ OutboundInit
    /\ WithdrawalsInit
    /\ DepositsInit

Next ==
    \/ \E w \in WithdrawalIds : WithdrawalStep(w) /\ UNCHANGED deposits
    \/ \E d \in DepositIds : DepositStep(d) /\ UNCHANGED withdrawals

Spec == Init /\ [][Next]_vars

-----------------------------------------------------------------------------
(***************************************************************************)
(* Type correctness of the wallet, outbox and order tables: no balance     *)
(* ever becomes negative.                                                  *)
(***************************************************************************)
TypeOK ==
    /\ WalletTypeOK
    /\ outbound \in [OrderIds -> SendStatuses]
    /\ WithdrawalsTypeOK
    /\ DepositsTypeOK

(***************************************************************************)
(* The ledger accounts for every cent of withdrawable_balance whether or   *)
(* not the drift check may abort a transaction, and the only drift         *)
(* locked_balance can show is the clamp of refundWithdrawal, upwards.      *)
(***************************************************************************)
LedgerBacksWallet ==
    \A u \in Users :
        /\ withdrawable[u] = ledgerWithdrawable[u]
        /\ locked[u] >= ledgerLocked[u]
        /\ StrictInvariant => locked[u] = ledgerLocked[u]

(***************************************************************************)
(* The business events in ledger_mutation_events are exactly those the     *)
(* order statuses stand for, so applyLedgerMutation never meets a duplicate*)
(* after its caller changed the wallet: funds of an order are locked once, *)
(* released or consumed once, credited once and taken back once, under any *)
(* interleaving of reviewers, webhooks and workers.                        *)
(***************************************************************************)
MutationsMatchStatus ==
    /\ \A w \in WithdrawalIds :
        /\ businessEvent(w, "lock_funds") \in mutations
               <=> withdrawals[w].status # "none"
        /\ businessEvent(w, "release_locked_funds") \in mutations
               <=> withdrawals[w].status \in {"rejected", "reversed"}
        /\ businessEvent(w, "consume_locked_funds") \in mutations
               => withdrawals[w].status \in {"paid", "reversed"}
        /\ withdrawals[w].status = "paid"
               => businessEvent(w, "consume_locked_funds") \in mutations
    /\ \A d \in DepositIds :
        /\ <<d, "credit_wallet">> \in mutations
               => deposits[d].status \in {"credited", "reversed"}
        /\ deposits[d].status = "credited" => <<d, "credit_wallet">> \in mutations
        /\ <<d, "reverse_wallet">> \in mutations
               => /\ deposits[d].status = "reversed"
                  /\ <<d, "credit_wallet">> \in mutations

Consumed(w) == businessEvent(w, "consume_locked_funds") \in mutations

\* What a withdrawal adds to the locked sum of u: its amount while it is open,
\* less its amount once it is reversed after it was paid.
lockedFor(u, w) ==
    LET row == withdrawals[w] IN
    IF row.user # u THEN 0
    ELSE IF row.status \in OpenStatuses THEN row.amount
    ELSE IF row.status = "reversed" /\ Consumed(w) THEN -row.amount
    ELSE 0

paidOutFor(u, w) ==
    IF withdrawals[w].user = u /\ Consumed(w) THEN withdrawals[w].amount ELSE 0

creditedFor(u, d) ==
    IF deposits[d].user = u /\ deposits[d].status = "credited" THEN deposits[d].amount ELSE 0

(***************************************************************************)
(* The locked sum of the ledger is the money of the open withdrawals less  *)
(* the money of withdrawals reversed after they were paid: refundWithdrawal*)
(* releases a lock that payWithdrawal had already consumed.                *)
(***************************************************************************)
LockedIsOpenLessRecalled ==
    \A u \in Users :
        ledgerLocked[u] =
            SumFunctionOnSet([w \in WithdrawalIds |-> lockedFor(u, w)], WithdrawalIds)

(***************************************************************************)
(* No operation or interleaving creates or loses user money on the ledger: *)
(* the two sums of a user add up to the deposits credited and not taken    *)
(* back, less what was paid out.                                           *)
(***************************************************************************)
MoneyConserved ==
    \A u \in Users :
        ledgerWithdrawable[u] + ledgerLocked[u] =
            SumFunctionOnSet([d \in DepositIds |-> creditedFor(u, d)], DepositIds)
            - SumFunctionOnSet([w \in WithdrawalIds |-> paidOutFor(u, w)], WithdrawalIds)

(***************************************************************************)
(* The orders explain every cent of the ledger's two sums, whatever order  *)
(* approvals, payouts, recalls, failures and reversals come in.            *)
(***************************************************************************)
LedgerIsExplained == LockedIsOpenLessRecalled /\ MoneyConserved

(***************************************************************************)
(* A withdrawal above the second-approval threshold leaves the platform,   *)
(* or even reaches the outbox, only after two different admins reviewed it.*)
(***************************************************************************)
ReleasedStatuses ==
    {"approved", "provider_submitted", "provider_processing",
     "provider_failed", "paid"}

TwoReviewers ==
    \A w \in WithdrawalIds :
        /\ withdrawals[w].approvalsRequired = 2
        /\ withdrawals[w].status \in ReleasedStatuses \/ outbound[w] # "none"
        => \E a, b \in withdrawals[w].reviewers : a # b

(***************************************************************************)
(* A withdrawal with a risk signal is never handed to a payment provider   *)
(* and is paid through a manual channel only.                              *)
(***************************************************************************)
RiskRoutedStaysManual ==
    \A w \in WithdrawalIds :
        withdrawals[w].manualRequired =>
            /\ outbound[w] = "none"
            /\ withdrawals[w].status = "paid" => withdrawals[w].channel = "manual"

(***************************************************************************)
(* Once an order is closed no late webhook, retry or review reopens it: a  *)
(* rejected or reversed withdrawal and a failed or reversed deposit keep   *)
(* their status, and a paid withdrawal can only be reversed.               *)
(***************************************************************************)
ClosedStaysClosed ==
    [][/\ \A w \in WithdrawalIds :
            /\ withdrawals[w].status \in {"rejected", "reversed"}
                   => withdrawals'[w].status = withdrawals[w].status
            /\ withdrawals[w].status = "paid"
                   => withdrawals'[w].status \in {"paid", "reversed"}
       /\ \A d \in DepositIds :
            deposits[d].status \in {"provider_failed", "reversed"}
                => deposits'[d].status = deposits[d].status]_vars

-----------------------------------------------------------------------------
(***************************************************************************)
(* The refinement mapping to FundsCustody: who holds the order's money.    *)
(***************************************************************************)
payoutHolder(status) ==
    IF status = "none" THEN "nobody"
    ELSE IF status \in OpenStatuses THEN "platform"
    ELSE IF status = "paid" THEN "receiver"
    ELSE "user"

topUpHolder(status) ==
    IF status = "none" THEN "nobody"
    ELSE IF status \in {"requested", "provider_pending", "provider_succeeded"} THEN "payer"
    ELSE IF status = "credited" THEN "user"
    ELSE "closed"

payoutCustody ==
    [w \in WithdrawalIds |-> [holder |-> payoutHolder(withdrawals[w].status),
                              user |-> withdrawals[w].user,
                              amount |-> withdrawals[w].amount]]

topUpCustody ==
    [d \in DepositIds |-> [holder |-> topUpHolder(deposits[d].status),
                           user |-> deposits[d].user,
                           amount |-> deposits[d].amount]]

Custody == INSTANCE FundsCustody WITH
               available <- withdrawable,
               payout <- payoutCustody,
               topUp <- topUpCustody

(***************************************************************************)
(* The order services implement FundsCustody: whatever the interleaving,   *)
(* the spendable balance moves only as the custody of an order does.       *)
(***************************************************************************)
CustodySpec == Custody!Spec
==============================================================================
