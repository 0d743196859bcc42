----------------------------- MODULE Withdrawals -----------------------------
(***************************************************************************)
(* Withdrawal orders.  Every operation of withdraw/service.ts and          *)
(* withdraw/withdraw-lifecycle-service.ts is one database transaction that *)
(* locks the withdrawal row, then the wallet row, so it is one action.  A  *)
(* call that returns early or throws changes nothing and is no step.       *)
(***************************************************************************)
EXTENDS OutboundRequests

CONSTANTS
    Admins,                 \* admins who review withdrawals
    NoAdmin,                \* adminId null: a worker or a webhook acts
    Amounts,                \* amounts users request, in cents
    SecondApprovalThreshold \* amount from which two approvals are needed; 0 = off

ASSUME WithdrawalAssumption ==
    /\ NoAdmin \notin Admins
    /\ Amounts \subseteq Nat \ {0}
    /\ SecondApprovalThreshold \in Nat
    /\ Users # {}

VARIABLES
    withdrawals             \* rows of the withdrawals table

WithdrawalStatuses ==
    {"requested", "approved", "provider_submitted", "provider_processing",
     "provider_failed", "paid", "rejected", "reversed"}

Channels == {"manual", "automated"}

(***************************************************************************)
(* status "none" is a row that was not inserted yet.  pendingReview and    *)
(* reviewers are the metadata fields pendingReview.reviewerAdminIds and    *)
(* financeReviewerAdminIds, channel is withdrawalControl.manualChannelUsed.*)
(***************************************************************************)
WithdrawalRow ==
    [status: WithdrawalStatuses \cup {"none"},
     user: Users,
     amount: Nat,
     approvalsRequired: {1, 2},
     manualRequired: BOOLEAN,
     mode: {"manual", "provider"},
     pendingReview: Admins \cup {NoAdmin},
     reviewers: SUBSET Admins,
     channel: Channels \cup {"none"}]

NoWithdrawal ==
    [status |-> "none", user |-> CHOOSE u \in Users : TRUE, amount |-> 0,
     approvalsRequired |-> 1, manualRequired |-> FALSE, mode |-> "manual",
     pendingReview |-> NoAdmin, reviewers |-> {}, channel |-> "none"]

WithdrawalsInit == withdrawals = [w \in WithdrawalIds |-> NoWithdrawal]

(***************************************************************************)
(* Statuses whose money sits in locked_balance.                            *)
(***************************************************************************)
OpenStatuses ==
    {"requested", "approved", "provider_submitted", "provider_processing",
     "provider_failed"}

businessEvent(w, action) == <<w, action>>

(***************************************************************************)
(* evaluateWithdrawalControls: large amounts need a second approval.       *)
(***************************************************************************)
approvalsRequired(amount) ==
    IF SecondApprovalThreshold > 0 /\ amount >= SecondApprovalThreshold
    THEN 2 ELSE 1

(***************************************************************************)
(* applyDualReviewGate on a bypassed review: the review is recorded and    *)
(* any pending review is cleared.                                          *)
(***************************************************************************)
reviewed(row, admin, status) ==
    [row EXCEPT !.status = status,
                !.pendingReview = NoAdmin,
                !.reviewers = @ \cup ({admin} \ {NoAdmin})]

\* Mutant: the payment mode the routing chose survives a risk signal.
payoutModeAsRouted(risky, mode) == mode

(***************************************************************************)
(* A risk signal overrides the mode the payment routing chose.             *)
(***************************************************************************)
payoutMode(risky, mode) == IF risky THEN "manual" ELSE mode

(***************************************************************************)
(* The request locks the amount.  Routing to a provider and the risk       *)
(* signals are inputs.                                                     *)
(***************************************************************************)
createWithdrawal(w, u, amount, risky, mode) ==
    /\ withdrawals[w].status = "none"
    /\ withdrawable[u] >= amount
    /\ withdrawals' = [withdrawals EXCEPT ![w] =
           [status |-> "requested", user |-> u, amount |-> amount,
            approvalsRequired |-> approvalsRequired(amount),
            manualRequired |-> risky,
            mode |-> payoutMode(risky, mode),
            pendingReview |-> NoAdmin, reviewers |-> {}, channel |-> "none"]]
    /\ withdrawable' = [withdrawable EXCEPT ![u] = @ - amount]
    /\ locked' = [locked EXCEPT ![u] = @ + amount]
    /\ applyLedgerMutation(businessEvent(w, "lock_funds"), u,
                           "withdraw_request", -amount)
    /\ assertWalletLedgerInvariant(u)
    /\ UNCHANGED <<settlementRefs, outbound>>

(***************************************************************************)
(* approveWithdrawal when the dual-review gate does not confirm: the first *)
(* of two approvals is remembered.                                         *)
(***************************************************************************)
approveWithdrawalFirst(w, admin) ==
    /\ withdrawals[w].status = "requested"
    /\ withdrawals[w].approvalsRequired > 1
    /\ withdrawals[w].pendingReview = NoAdmin
    /\ admin # NoAdmin
    /\ withdrawals' = [withdrawals EXCEPT ![w].pendingReview = admin,
                                          ![w].reviewers = @ \cup {admin}]
    /\ UNCHANGED <<walletVars, outbound>>

\* Mutant: any pending review is enough, the reviewer's own included.
approvalConfirmedBySame(row, admin) ==
    row.approvalsRequired > 1 => admin # NoAdmin /\ row.pendingReview # NoAdmin

(***************************************************************************)
(* The second reviewer must differ from the one whose review is pending.   *)
(***************************************************************************)
approvalConfirmed(row, admin) ==
    row.approvalsRequired > 1 =>
        /\ admin # NoAdmin
        /\ row.pendingReview # NoAdmin
        /\ row.pendingReview # admin

(***************************************************************************)
(* approveWithdrawal when the gate confirms: provider orders are put in    *)
(* the outbox in the same transaction.                                     *)
(***************************************************************************)
approveWithdrawal(w, admin) ==
    /\ withdrawals[w].status = "requested"
    /\ approvalConfirmed(withdrawals[w], admin)
    /\ withdrawals' = [withdrawals EXCEPT ![w] = reviewed(@, admin, "approved")]
    /\ IF withdrawals[w].mode = "provider"
       THEN preparePaymentOutboundRequest(w)
       ELSE UNCHANGED outbound
    /\ UNCHANGED walletVars

markWithdrawalProviderSubmitted(w, admin, ref) ==
    /\ withdrawals[w].status = "approved"
    /\ ref # NoRef
    /\ withdrawals' = [withdrawals EXCEPT ![w] = reviewed(@, admin, "provider_submitted")]
    /\ UNCHANGED <<walletVars, outbound>>

markWithdrawalProviderProcessing(w, admin, ref) ==
    /\ withdrawals[w].status \in {"approved", "provider_submitted"}
    /\ ref # NoRef
    /\ withdrawals' = [withdrawals EXCEPT ![w] = reviewed(@, admin, "provider_processing")]
    /\ UNCHANGED <<walletVars, outbound>>

(***************************************************************************)
(* A provider failure settles nothing: the funds stay locked.              *)
(***************************************************************************)
markWithdrawalProviderFailed(w, admin, ref) ==
    /\ withdrawals[w].status \in {"approved", "provider_submitted",
                                  "provider_processing"}
    /\ ref # NoRef
    /\ insertPaymentSettlementEvent(ref)
    /\ withdrawals' = [withdrawals EXCEPT ![w] = reviewed(@, admin, "provider_failed")]
    /\ UNCHANGED <<withdrawable, locked, ledgerWithdrawable, ledgerLocked,
                   mutations, outbound>>

\* Mutant: the clamp at zero is missing.
lockedAfterRefundUnclamped(w) == locked[withdrawals[w].user] - withdrawals[w].amount

(***************************************************************************)
(* refundWithdrawal: the amount goes back to withdrawable and leaves       *)
(* locked, which is clamped at zero.                                       *)
(***************************************************************************)
lockedAfterRefund(w) ==
    LET rest == locked[withdrawals[w].user] - withdrawals[w].amount
    IN  IF rest < 0 THEN 0 ELSE rest

refundWithdrawal(w, admin, ref, status, entryType) ==
    LET u == withdrawals[w].user
        amount == withdrawals[w].amount
    IN  /\ withdrawable' = [withdrawable EXCEPT ![u] = @ + amount]
        /\ locked' = [locked EXCEPT ![u] = lockedAfterRefund(w)]
        /\ insertPaymentSettlementEvent(ref)
        /\ withdrawals' = [withdrawals EXCEPT ![w] = reviewed(@, admin, status)]
        /\ applyLedgerMutation(businessEvent(w, "release_locked_funds"), u,
                               entryType, amount)
        /\ assertWalletLedgerInvariant(u)
        /\ UNCHANGED outbound

rejectWithdrawal(w, admin, ref) ==
    /\ withdrawals[w].status \in {"requested", "approved"}
    /\ refundWithdrawal(w, admin, ref, "rejected", "withdraw_rejected_refund")

reversibleStatuses == OpenStatuses \cup {"paid"}

reverseWithdrawal(w, admin, ref) ==
    /\ withdrawals[w].status \in reversibleStatuses
    /\ withdrawals[w].status # "requested" => ref # NoRef
    /\ refundWithdrawal(w, admin, ref, "reversed", "withdraw_reversed_refund")

payWithdrawal(w, admin, ref, channel) ==
    LET u == withdrawals[w].user
        amount == withdrawals[w].amount
    IN  /\ withdrawals[w].status = "provider_processing"
        /\ ref # NoRef
        /\ withdrawals[w].manualRequired => channel = "manual"
        /\ locked[u] >= amount
        /\ locked' = [locked EXCEPT ![u] = @ - amount]
        /\ insertPaymentSettlementEvent(ref)
        /\ withdrawals' = [withdrawals EXCEPT
               ![w] = [reviewed(@, admin, "paid") EXCEPT !.channel = channel]]
        /\ applyLedgerMutation(businessEvent(w, "consume_locked_funds"), u,
                               "withdraw_paid", -amount)
        /\ UNCHANGED <<withdrawable, outbound>>
        /\ assertWalletLedgerInvariant(u)

WithdrawalStep(w) ==
    \/ \E u \in Users, amount \in Amounts, risky \in BOOLEAN,
          mode \in {"manual", "provider"} :
           createWithdrawal(w, u, amount, risky, mode)
    \/ \E admin \in Admins \cup {NoAdmin} :
           \/ approveWithdrawalFirst(w, admin)
           \/ approveWithdrawal(w, admin)
           \/ \E ref \in Refs \cup {NoRef} :
                  \/ markWithdrawalProviderSubmitted(w, admin, ref)
                  \/ markWithdrawalProviderProcessing(w, admin, ref)
                  \/ markWithdrawalProviderFailed(w, admin, ref)
                  \/ rejectWithdrawal(w, admin, ref)
                  \/ reverseWithdrawal(w, admin, ref)
                  \/ \E channel \in Channels :
                         payWithdrawal(w, admin, ref, channel)

WithdrawalsTypeOK == withdrawals \in [WithdrawalIds -> WithdrawalRow]
==============================================================================
