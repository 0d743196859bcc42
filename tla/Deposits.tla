------------------------------ MODULE Deposits ------------------------------
(***************************************************************************)
(* Deposit (top-up) orders.  Every operation of top-up/service.ts is one   *)
(* database transaction that locks the deposit row first.  The status      *)
(* graph of payment/state-machine.ts is asserted inside each transaction.  *)
(***************************************************************************)
EXTENDS OutboundRequests

CONSTANTS
    DepositAmounts      \* amounts users top up, in cents

ASSUME DepositAssumption ==
    /\ DepositAmounts \subseteq Nat \ {0}
    /\ Users # {}

VARIABLES
    deposits            \* rows of the deposits table

DepositStatuses ==
    {"requested", "provider_pending", "provider_succeeded", "provider_failed",
     "credited", "reversed"}

DepositRow ==
    [status: DepositStatuses \cup {"none"}, user: Users, amount: Nat]

NoDeposit ==
    [status |-> "none", user |-> CHOOSE u \in Users : TRUE, amount |-> 0]

DepositsInit == deposits = [d \in DepositIds |-> NoDeposit]

depositTransitions ==
    [requested |-> {"provider_pending", "provider_failed", "reversed"},
     provider_pending |-> {"provider_succeeded", "provider_failed", "reversed"},
     provider_succeeded |-> {"credited", "reversed"},
     provider_failed |-> {},
     credited |-> {"reversed"},
     reversed |-> {}]

\* Mutant: the status graph is not asserted.
transitionDepositStatusUnchecked(d, status) ==
    deposits' = [deposits EXCEPT ![d].status = status]

(***************************************************************************)
(* transitionDepositStatus: an edge that is not in the graph throws.       *)
(***************************************************************************)
transitionDepositStatus(d, status) ==
    /\ status \in depositTransitions[deposits[d].status]
    /\ deposits' = [deposits EXCEPT ![d].status = status]

createTopUp(d, u, amount, mode) ==
    /\ deposits[d].status = "none"
    /\ deposits' = [deposits EXCEPT ![d] =
           [status |-> "requested", user |-> u, amount |-> amount]]
    /\ IF mode = "provider"
       THEN preparePaymentOutboundRequest(d)
       ELSE UNCHANGED outbound
    /\ UNCHANGED walletVars

markDepositProviderPending(d) ==
    /\ deposits[d].status = "requested"
    /\ transitionDepositStatus(d, "provider_pending")
    /\ UNCHANGED <<walletVars, outbound>>

(***************************************************************************)
(* The early returns also let requested and provider_failed rows through;  *)
(* the status graph then refuses them.                                     *)
(***************************************************************************)
markDepositProviderSucceeded(d, ref) ==
    /\ deposits[d].status \in {"requested", "provider_pending", "provider_failed"}
    /\ ref # NoRef
    /\ insertPaymentSettlementEvent(ref)
    /\ transitionDepositStatus(d, "provider_succeeded")
    /\ UNCHANGED <<withdrawable, locked, ledgerWithdrawable, ledgerLocked,
                   mutations, outbound>>

(***************************************************************************)
(* creditDeposit runs creditDepositRecord; the settlement event it writes  *)
(* carries no reference.  The mission rewards it grants are B_LUCK, which  *)
(* is not a wallet balance.                                                *)
(***************************************************************************)
creditDeposit(d) ==
    LET u == deposits[d].user
        amount == deposits[d].amount
    IN  /\ deposits[d].status = "provider_succeeded"
        /\ withdrawable' = [withdrawable EXCEPT ![u] = @ + amount]
        /\ insertPaymentSettlementEvent(NoRef)
        /\ transitionDepositStatus(d, "credited")
        /\ applyLedgerMutation(<<d, "credit_wallet">>, u, "deposit_credit", amount)
        /\ UNCHANGED <<locked, outbound>>
        /\ assertWalletLedgerInvariant(u)

failDeposit(d, ref) ==
    /\ deposits[d].status \in {"requested", "provider_pending"}
    /\ insertPaymentSettlementEvent(ref)
    /\ transitionDepositStatus(d, "provider_failed")
    /\ UNCHANGED <<withdrawable, locked, ledgerWithdrawable, ledgerLocked,
                   mutations, outbound>>

\* Mutant: the reversal forgets the wallet.
takeBackForgotten(d) ==
    UNCHANGED <<withdrawable, locked, ledgerWithdrawable, ledgerLocked, mutations>>

\* Mutant: the reversal does not check that the user still has the money.
takeBackUnchecked(d) ==
    LET u == deposits[d].user
        amount == deposits[d].amount
    IN  /\ withdrawable' = [withdrawable EXCEPT ![u] = @ - amount]
        /\ applyLedgerMutation(<<d, "reverse_wallet">>, u, "deposit_reversed", -amount)
        /\ UNCHANGED locked
        /\ assertWalletLedgerInvariant(u)

(***************************************************************************)
(* Reversing a credited deposit takes the money back from withdrawable and *)
(* throws when the user no longer has it.                                  *)
(***************************************************************************)
takeBack(d) ==
    LET u == deposits[d].user
        amount == deposits[d].amount
    IN  /\ withdrawable[u] >= amount
        /\ withdrawable' = [withdrawable EXCEPT ![u] = @ - amount]
        /\ applyLedgerMutation(<<d, "reverse_wallet">>, u, "deposit_reversed", -amount)
        /\ UNCHANGED locked
        /\ assertWalletLedgerInvariant(u)

reverseDeposit(d, ref) ==
    /\ deposits[d].status \in {"provider_pending", "provider_succeeded", "credited"}
    /\ ref # NoRef
    /\ insertPaymentSettlementEvent(ref)
    /\ transitionDepositStatus(d, "reversed")
    /\ IF deposits[d].status = "credited"
       THEN takeBack(d)
       ELSE UNCHANGED <<withdrawable, locked, ledgerWithdrawable, ledgerLocked,
                        mutations>>
    /\ UNCHANGED outbound

DepositStep(d) ==
    \/ \E u \in Users, amount \in DepositAmounts, mode \in {"manual", "provider"} :
           createTopUp(d, u, amount, mode)
    \/ markDepositProviderPending(d)
    \/ creditDeposit(d)
    \/ \E ref \in Refs \cup {NoRef} :
           \/ markDepositProviderSucceeded(d, ref)
           \/ failDeposit(d, ref)
           \/ reverseDeposit(d, ref)

DepositsTypeOK == deposits \in [DepositIds -> DepositRow]
=============================================================================
