--------------------------- MODULE PaymentWebhooks ---------------------------
(***************************************************************************)
(* Provider notifications: the payment_webhook_events table, the HTTP      *)
(* requests that fill it and the workers that drain it, on top of the order*)
(* services.  Every database statement of payment/webhook/service.ts is    *)
(* one action, because none of them shares a transaction with another:     *)
(* a request or a worker can be overtaken between any two.                 *)
(***************************************************************************)
EXTENDS FinanceOrders, Sequences

CONSTANTS
    Events,         \* (provider, dedupe_key) pairs
    Notification,   \* what the payload of each event asks for
    Receivers,      \* HTTP requests handled at the same time
    WebhookWorkers, \* worker processes
    MaxDeliveries,  \* bound on deliveries by the provider
    MaxCrashes      \* bound on worker crashes

DepositActions ==
    {"deposit_mark_provider_pending", "deposit_mark_provider_succeeded",
     "deposit_mark_provider_failed"}

WithdrawalActions ==
    {"withdrawal_mark_provider_submitted", "withdrawal_mark_provider_processing",
     "withdrawal_mark_provider_failed", "withdrawal_pay"}

(***************************************************************************)
(* action is what derivePaymentWebhookTransition makes of the payload;     *)
(* "none" is its ignore decision.  ref is the payload's reference, eventId *)
(* the identifier of the event, used as a reference when there is none,    *)
(* channel the payload's processing channel or else the provider's name.   *)
(***************************************************************************)
ASSUME WebhookAssumption ==
    /\ Notification \in [Events ->
            [order: OrderIds, action: DepositActions \cup WithdrawalActions \cup {"none"},
             ref: Refs \cup {NoRef}, eventId: Refs, channel: Channels]]
    /\ \A e \in Events :
        /\ Notification[e].action \in DepositActions => Notification[e].order \in DepositIds
        /\ Notification[e].action \in WithdrawalActions => Notification[e].order \in WithdrawalIds
    /\ MaxDeliveries \in Nat
    /\ MaxCrashes \in Nat

VARIABLES
    webhookEvents,  \* rows of payment_webhook_events
    receivers,      \* duplicate deliveries between their SELECT and their UPDATE
    jobs,           \* events the workers have claimed
    deliveries,     \* deliveries so far
    crashes         \* crashes so far

webhookVars == <<webhookEvents, receivers, jobs, deliveries, crashes>>

Signatures == {"verified", "failed"}

EventStatuses == {"pending", "processing", "processed", "ignored", "failed"}

EventRow == [status: EventStatuses \cup {"none"}, signature: Signatures]

idleReceiver == [event |-> "none"]

idleJob == [event |-> "none"]

WebhookInit ==
    /\ webhookEvents = [e \in Events |-> [status |-> "none", signature |-> "failed"]]
    /\ receivers = [r \in Receivers |-> idleReceiver]
    /\ jobs = [k \in WebhookWorkers |-> idleJob]
    /\ deliveries = 0
    /\ crashes = 0

orderStatus(o) == IF o \in DepositIds THEN deposits[o].status ELSE withdrawals[o].status

(***************************************************************************)
(* A provider names a deposit once it was created and a withdrawal once it *)
(* was approved: no earlier step tells it the order id.                    *)
(***************************************************************************)
knownToProvider(o) ==
    orderStatus(o) \notin (IF o \in DepositIds THEN {"none"} ELSE {"none", "requested"})

-----------------------------------------------------------------------------
(***************************************************************************)
(* queuePaymentWebhookEvent: the first delivery inserts the row.  The route*)
(* queues an event whatever its signature status.                          *)
(***************************************************************************)
queueNewEvent(e, signature) ==
    /\ deliveries < MaxDeliveries
    /\ knownToProvider(Notification[e].order)
    /\ webhookEvents[e].status = "none"
    /\ webhookEvents' = [webhookEvents EXCEPT ![e] =
           [status |-> "pending", signature |-> signature]]
    /\ deliveries' = deliveries + 1
    /\ UNCHANGED <<vars, receivers, jobs, crashes>>

(***************************************************************************)
(* A further delivery meets the conflict and reads the existing row ...    *)
(***************************************************************************)
selectExistingEvent(r, e, signature) ==
    /\ deliveries < MaxDeliveries
    /\ receivers[r] = idleReceiver
    /\ webhookEvents[e].status # "none"
    /\ receivers' = [receivers EXCEPT ![r] =
           [event |-> e, signature |-> signature, existing |-> webhookEvents[e]]]
    /\ deliveries' = deliveries + 1
    /\ UNCHANGED <<vars, webhookEvents, jobs, crashes>>

shouldRequeue(existing, signature) ==
    \/ existing.status = "failed"
    \/ existing.signature # "verified" /\ signature = "verified"

(***************************************************************************)
(* ... and then updates it, writing back the status it read when it does   *)
(* not requeue.                                                            *)
(***************************************************************************)
updateExistingEvent(r) ==
    LET delivery == receivers[r]
    IN  /\ delivery # idleReceiver
        /\ webhookEvents' = [webhookEvents EXCEPT ![delivery.event] =
               [status |-> IF shouldRequeue(delivery.existing, delivery.signature)
                           THEN "pending" ELSE delivery.existing.status,
                signature |-> delivery.signature]]
        /\ receivers' = [receivers EXCEPT ![r] = idleReceiver]
        /\ UNCHANGED <<vars, jobs, deliveries, crashes>>

-----------------------------------------------------------------------------
(***************************************************************************)
(* A deposit success is two transactions, everything else is one.          *)
(***************************************************************************)
callsOf(action) ==
    IF action = "deposit_mark_provider_succeeded"
    THEN <<"deposit_mark_provider_pending", action>>
    ELSE <<action>>

(***************************************************************************)
(* claimPendingPaymentWebhookEvents: the worker keeps the row as it was.   *)
(***************************************************************************)
claim(k, e) ==
    /\ jobs[k] = idleJob
    /\ webhookEvents[e].status = "pending"
    /\ webhookEvents' = [webhookEvents EXCEPT ![e].status = "processing"]
    /\ jobs' = [jobs EXCEPT ![k] =
           IF webhookEvents[e].signature = "verified" /\ Notification[e].action # "none"
           THEN [event |-> e, calls |-> callsOf(Notification[e].action),
                 outcome |-> "processed"]
           ELSE [event |-> e, calls |-> <<>>, outcome |-> "ignored"]]
    /\ UNCHANGED <<vars, receivers, deliveries, crashes>>

(***************************************************************************)
(* The statuses that an operation's early returns let through.             *)
(***************************************************************************)
actsOn ==
    [deposit_mark_provider_pending |-> {"requested"},
     deposit_mark_provider_succeeded |-> {"requested", "provider_pending",
                                          "provider_failed"},
     deposit_mark_provider_failed |-> {"requested", "provider_pending"},
     withdrawal_mark_provider_submitted |-> {"approved"},
     withdrawal_mark_provider_processing |-> {"approved", "provider_submitted"},
     withdrawal_mark_provider_failed |-> {"approved", "provider_submitted",
                                          "provider_processing"},
     withdrawal_pay |-> {"provider_processing"}]

(***************************************************************************)
(* The actions that write a settlement event.                              *)
(***************************************************************************)
Settling ==
    {"deposit_mark_provider_succeeded", "deposit_mark_provider_failed",
     "withdrawal_mark_provider_failed", "withdrawal_pay"}

(***************************************************************************)
(* A missing reference is replaced by the event id, except for failures.   *)
(***************************************************************************)
settlementReference(e) ==
    IF /\ Notification[e].ref = NoRef
       /\ Notification[e].action \notin {"deposit_mark_provider_pending",
              "deposit_mark_provider_failed", "withdrawal_mark_provider_failed"}
    THEN Notification[e].eventId
    ELSE Notification[e].ref

(***************************************************************************)
(* The operation got past its early returns and throws: a settlement       *)
(* reference that is already used or missing, an edge that the deposit     *)
(* graph does not have, a risk-routed payout, or too little locked money.  *)
(***************************************************************************)
throws(action, o, ref, channel) ==
    /\ orderStatus(o) \in actsOn[action]
    /\ \/ action \in Settling /\ ref \in settlementRefs
       \/ action = "withdrawal_mark_provider_failed" /\ ref = NoRef
       \/ /\ action = "deposit_mark_provider_succeeded"
          /\ "provider_succeeded" \notin depositTransitions[deposits[o].status]
       \/ /\ action = "withdrawal_pay"
          /\ \/ withdrawals[o].manualRequired /\ channel # "manual"
             \/ locked[withdrawals[o].user] < withdrawals[o].amount

operation(action, o, ref, channel) ==
    \/ /\ o \in DepositIds
       /\ \/ action = "deposit_mark_provider_pending" /\ markDepositProviderPending(o)
          \/ action = "deposit_mark_provider_succeeded" /\ markDepositProviderSucceeded(o, ref)
          \/ action = "deposit_mark_provider_failed" /\ failDeposit(o, ref)
       /\ UNCHANGED withdrawals
    \/ /\ o \in WithdrawalIds
       /\ \/ /\ action = "withdrawal_mark_provider_submitted"
             /\ markWithdrawalProviderSubmitted(o, NoAdmin, ref)
          \/ /\ action = "withdrawal_mark_provider_processing"
             /\ markWithdrawalProviderProcessing(o, NoAdmin, ref)
          \/ /\ action = "withdrawal_mark_provider_failed"
             /\ markWithdrawalProviderFailed(o, NoAdmin, ref)
          \/ action = "withdrawal_pay" /\ payWithdrawal(o, NoAdmin, ref, channel)
       /\ UNCHANGED deposits

(***************************************************************************)
(* consumePaymentWebhookEvent makes its next call, which takes effect,     *)
(* returns early or throws.                                                *)
(***************************************************************************)
consumeApplied(k) ==
    LET e == jobs[k].event
    IN  /\ jobs[k] # idleJob /\ jobs[k].calls # <<>>
        /\ operation(Head(jobs[k].calls), Notification[e].order,
                     settlementReference(e), Notification[e].channel)
        /\ jobs' = [jobs EXCEPT ![k].calls = Tail(@)]
        /\ UNCHANGED <<webhookEvents, receivers, deliveries, crashes>>

consumeReturnsEarly(k) ==
    LET e == jobs[k].event
    IN  /\ jobs[k] # idleJob /\ jobs[k].calls # <<>>
        /\ orderStatus(Notification[e].order) \notin actsOn[Head(jobs[k].calls)]
        /\ jobs' = [jobs EXCEPT ![k].calls = Tail(@)]
        /\ UNCHANGED <<vars, webhookEvents, receivers, deliveries, crashes>>

\* Mutant: the error is logged and the event still counts as processed.
consumeThrowsSwallowed(k) ==
    LET e == jobs[k].event
    IN  /\ jobs[k] # idleJob /\ jobs[k].calls # <<>>
        /\ throws(Head(jobs[k].calls), Notification[e].order,
                  settlementReference(e), Notification[e].channel)
        /\ jobs' = [jobs EXCEPT ![k].calls = <<>>]
        /\ UNCHANGED <<vars, webhookEvents, receivers, deliveries, crashes>>

consumeThrows(k) ==
    LET e == jobs[k].event
    IN  /\ jobs[k] # idleJob /\ jobs[k].calls # <<>>
        /\ throws(Head(jobs[k].calls), Notification[e].order,
                  settlementReference(e), Notification[e].channel)
        /\ jobs' = [jobs EXCEPT ![k] = [event |-> e, calls |-> <<>>, outcome |-> "failed"]]
        /\ UNCHANGED <<vars, webhookEvents, receivers, deliveries, crashes>>

(***************************************************************************)
(* The final UPDATE is by id: it does not look at the row again.           *)
(***************************************************************************)
finalizePaymentWebhookEvent(k) ==
    /\ jobs[k] # idleJob /\ jobs[k].calls = <<>>
    /\ webhookEvents' = [webhookEvents EXCEPT ![jobs[k].event].status = jobs[k].outcome]
    /\ jobs' = [jobs EXCEPT ![k] = idleJob]
    /\ UNCHANGED <<vars, receivers, deliveries, crashes>>

crash(k) ==
    /\ crashes < MaxCrashes
    /\ jobs[k] # idleJob
    /\ jobs' = [jobs EXCEPT ![k] = idleJob]
    /\ crashes' = crashes + 1
    /\ UNCHANGED <<vars, webhookEvents, receivers, deliveries>>

\* Mutant: the recovery looks for failed events instead of locked ones.
recoverFailedPaymentWebhookEvents(e) ==
    /\ webhookEvents[e].status = "failed"
    /\ webhookEvents' = [webhookEvents EXCEPT ![e].status = "pending"]
    /\ UNCHANGED <<vars, receivers, jobs, deliveries, crashes>>

(***************************************************************************)
(* Once the lock is old enough the event is pending again, whether its     *)
(* worker is dead or only slow.                                            *)
(***************************************************************************)
recoverStuckPaymentWebhookEvents(e) ==
    /\ webhookEvents[e].status = "processing"
    /\ webhookEvents' = [webhookEvents EXCEPT ![e].status = "pending"]
    /\ UNCHANGED <<vars, receivers, jobs, deliveries, crashes>>

-----------------------------------------------------------------------------
(***************************************************************************)
(* Admins, users and the other workers go on calling the order services.   *)
(***************************************************************************)
OtherActors == Next /\ UNCHANGED webhookVars

consume(k) == consumeApplied(k) \/ consumeReturnsEarly(k) \/ consumeThrows(k)

WebhookNext ==
    \/ OtherActors
    \/ \E e \in Events :
        \/ \E signature \in Signatures :
            \/ queueNewEvent(e, signature)
            \/ \E r \in Receivers : selectExistingEvent(r, e, signature)
        \/ recoverStuckPaymentWebhookEvents(e)
        \/ \E k \in WebhookWorkers : claim(k, e)
    \/ \E r \in Receivers : updateExistingEvent(r)
    \/ \E k \in WebhookWorkers :
        consume(k) \/ finalizePaymentWebhookEvent(k) \/ crash(k)

(***************************************************************************)
(* A request that started is answered; the dispatcher ticks forever, and   *)
(* each tick recovers stale locks and claims until nothing is due; a       *)
(* claimed event is worked on until the process dies.                      *)
(***************************************************************************)
WebhookFairness ==
    /\ \A r \in Receivers : WF_<<vars, webhookVars>>(updateExistingEvent(r))
    /\ \A e \in Events :
        /\ WF_<<vars, webhookVars>>(recoverStuckPaymentWebhookEvents(e))
        /\ WF_<<vars, webhookVars>>(\E k \in WebhookWorkers : claim(k, e))
    /\ \A k \in WebhookWorkers :
        WF_<<vars, webhookVars>>(consume(k) \/ finalizePaymentWebhookEvent(k))

WebhookSpec ==
    /\ Init /\ WebhookInit
    /\ [][WebhookNext]_<<vars, webhookVars>>
    /\ WebhookFairness

-----------------------------------------------------------------------------
(***************************************************************************)
(* An event that is marked processed has nothing left to do: its order is  *)
(* past every status in which the event would still act, so an acknowledged*)
(* success or failure is never lost, whatever duplicates, crashes, stale   *)
(* locks, admins and timeouts did meanwhile.  Completed payouts are the    *)
(* exception: one that overtakes the "processing" notification changes     *)
(* nothing and is marked processed all the same.                           *)
(***************************************************************************)
ProcessedEventIsFinal ==
    \A e \in Events :
        /\ Notification[e].action \notin {"withdrawal_pay", "none"}
        /\ webhookEvents[e].status = "processed"
        => orderStatus(Notification[e].order) \notin actsOn[Notification[e].action]

(***************************************************************************)
(* The queue drains once the provider stops delivering: neither a crashed  *)
(* worker nor a duplicate delivery that writes an old status back leaves an*)
(* event pending or processing for ever.                                   *)
(***************************************************************************)
EventsSettle ==
    []<>(\A e \in Events : webhookEvents[e].status \notin {"pending", "processing"})

(***************************************************************************)
(* webhook/service.ts:1047 reports a delivery that verifies an event for   *)
(* the first time as "payment webhook event requeued from duplicate        *)
(* delivery": a verified event is not left ignored.                        *)
(***************************************************************************)
RequeuedEventIsHandled ==
    \A e \in Events :
        /\ webhookEvents[e].signature = "verified"
        /\ Notification[e].action # "none"
        => webhookEvents[e].status # "ignored"
==============================================================================
