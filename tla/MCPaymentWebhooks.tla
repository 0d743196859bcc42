-------------------------- MODULE MCPaymentWebhooks --------------------------
(***************************************************************************)
(* Instances of PaymentWebhooks for TLC.  Each initial state picks a round.*)
(* "deposits": two workers and an HTTP request meet over one deposit, and  *)
(* no worker needs to crash, since one that is only slow loses its lock    *)
(* too.  "payouts": one worker, which may crash, drains what is reported   *)
(* of one withdrawal.                                                      *)
(***************************************************************************)
EXTENDS PaymentWebhooks

CONSTANTS d1, w1, e1, e2, e3, e4, e5, e6, r1, r2, r3, k1, Rounds

VARIABLE round

\* A provider that reports both a success and a failure of one deposit, and
\* everything it can report of one withdrawal.
AllNotifications ==
    [e \in {e1, e2, e3, e4, e5, e6} |->
        CASE e = e1 -> [order |-> d1, action |-> "deposit_mark_provider_succeeded",
                        ref |-> NoRef, eventId |-> r1, channel |-> "automated"]
          [] e = e2 -> [order |-> d1, action |-> "deposit_mark_provider_failed",
                        ref |-> r2, eventId |-> r2, channel |-> "automated"]
          [] e = e3 -> [order |-> w1, action |-> "withdrawal_mark_provider_submitted",
                        ref |-> NoRef, eventId |-> r1, channel |-> "automated"]
          [] e = e4 -> [order |-> w1, action |-> "withdrawal_mark_provider_processing",
                        ref |-> NoRef, eventId |-> r1, channel |-> "automated"]
          [] e = e5 -> [order |-> w1, action |-> "withdrawal_mark_provider_failed",
                        ref |-> r3, eventId |-> r1, channel |-> "automated"]
          [] e = e6 -> [order |-> w1, action |-> "withdrawal_pay",
                        ref |-> NoRef, eventId |-> r2, channel |-> "automated"]]

\* Only the success of one deposit.
SuccessNotification ==
    [e \in {e1} |-> [order |-> d1, action |-> "deposit_mark_provider_succeeded",
                     ref |-> NoRef, eventId |-> r1, channel |-> "automated"]]

reportedOf(O) == \E e \in Events : Notification[e].order \in O /\ webhookEvents'[e].status # "none"

withinRound ==
    /\ round = "deposits" =>
        /\ crashes' = 0
        /\ ~reportedOf(WithdrawalIds)
        /\ \A w \in WithdrawalIds : withdrawals'[w].status = "none"
        /\ r3 \notin settlementRefs'
    /\ round = "payouts" =>
        /\ ~reportedOf(DepositIds)
        /\ deliveries' <= 2
        /\ \A r \in Receivers : receivers'[r] = idleReceiver
        /\ \A k \in WebhookWorkers \ {k1} : jobs'[k] = idleJob

MCInit == Init /\ WebhookInit /\ round \in Rounds

MCNext == WebhookNext /\ withinRound /\ UNCHANGED round

MCSpec == MCInit /\ [][MCNext]_<<vars, webhookVars, round>> /\ WebhookFairness
==============================================================================
