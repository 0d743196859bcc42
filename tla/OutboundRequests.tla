-------------------------- MODULE OutboundRequests --------------------------
(***************************************************************************)
(* The payment_outbound_requests table, one row per order: the transactional*)
(* outbox through which an order reaches its payment provider.  The order  *)
(* services only prepare rows; the worker that sends them is               *)
(* PaymentOutbound.                                                        *)
(***************************************************************************)
EXTENDS FinanceWallet

CONSTANTS
    WithdrawalIds,      \* withdrawals.id
    DepositIds          \* deposits.id

ASSUME OrderIdsAssumption == WithdrawalIds \cap DepositIds = {}

VARIABLES
    outbound            \* payment_outbound_requests.send_status, "none" when no row

OrderIds == WithdrawalIds \cup DepositIds

SendStatuses == {"none", "prepared", "sending", "sent", "unknown", "failed"}

OutboundInit == outbound = [o \in OrderIds |-> "none"]

(***************************************************************************)
(* The row is unique per order and action; preparing it again revives a    *)
(* failed row and leaves any other as it is.  A missing provider or adapter*)
(* throws, which rolls the caller back.                                    *)
(***************************************************************************)
preparePaymentOutboundRequest(o) ==
    outbound' = [outbound EXCEPT ![o] = IF @ \in {"none", "failed"}
                                        THEN "prepared" ELSE @]
=============================================================================
