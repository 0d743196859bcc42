-------------------------- MODULE MCPaymentOutbound --------------------------
(***************************************************************************)
(* Two outbox workers and the scan on one order at a time.  The run starts *)
(* from two states the program can be in: nothing has happened but a       *)
(* withdrawal that was rejected, so the deposit is next; or a deposit was  *)
(* credited by hand, so the withdrawal is next.                            *)
(***************************************************************************)
EXTENDS PaymentOutbound

CONSTANTS u1, w1, d1, provider, system, manual

\* Only one of the two orders reaches the provider or the scan.
MCProviderOrderId == [o \in {w1, d1} |-> provider]

MCSystemReference == [o \in {w1, d1} |-> system]

Money(amount) ==
    /\ withdrawable = [u \in Users |-> amount]
    /\ ledgerWithdrawable = [u \in Users |-> amount]
    /\ locked = [u \in Users |-> 0]
    /\ ledgerLocked = [u \in Users |-> 0]

RejectedBefore ==
    /\ Money(0)
    /\ settlementRefs = {}
    /\ mutations = {businessEvent(w1, "lock_funds"), businessEvent(w1, "release_locked_funds")}
    /\ withdrawals = [w \in WithdrawalIds |->
           [NoWithdrawal EXCEPT !.status = "rejected", !.user = u1, !.amount = 1]]
    /\ DepositsInit

CreditedBefore ==
    /\ Money(1)
    /\ settlementRefs = {manual}
    /\ mutations = {<<d1, "credit_wallet">>}
    /\ WithdrawalsInit
    /\ deposits = [d \in DepositIds |-> [status |-> "credited", user |-> u1, amount |-> 1]]

MCInit ==
    /\ RejectedBefore \/ CreditedBefore
    /\ OutboundInit
    /\ worker = [k \in Workers |-> Idle]
    /\ attempts = [o \in OrderIds |-> 0]
    /\ placed = {}
    /\ scan = [o \in OrderIds |-> "none"]
    /\ faults = 0

MCSpec == MCInit /\ [][PaymentOutboundNext]_allVars /\ DispatchersRun
==============================================================================
