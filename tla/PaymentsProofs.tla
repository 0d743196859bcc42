---------------------------- MODULE PaymentsProofs ----------------------------
(***************************************************************************)
(* Theorems about what moves orders besides users and admins: the webhook  *)
(* queue, for any number of events, requests, workers, deliveries and      *)
(* crashes, and the outbox workers with the operations scan, for any       *)
(* number of orders, workers and faults.                                   *)
(***************************************************************************)
EXTENDS PaymentWebhooks, PaymentOutbound, FinanceOrdersProofs

USE DEF OrderIds

-----------------------------------------------------------------------------
(* The webhook queue *)

\* Nothing is left for event e to do, "completed" payouts aside.
Done(e) ==
    Notification[e].action \notin {"withdrawal_pay", "none"}
        => orderStatus(Notification[e].order) \notin actsOn[Notification[e].action]

\* What a worker may still have to call for an event: all of it, its own
\* operation, or nothing.
CallsLeft(e) ==
    {<<>>, <<Notification[e].action>>, callsOf(Notification[e].action)}

(***************************************************************************)
(* A job that will be marked processed has its event's own operation as    *)
(* the last of its calls, or that operation has nothing left to do.        *)
(***************************************************************************)
JobOf(job, e, calls, outcome) ==
    /\ job = [event |-> e, calls |-> calls, outcome |-> outcome]
    /\ knownToProvider(Notification[e].order)
    /\ calls # <<>> \/ outcome = "processed" => Notification[e].action # "none"
    /\ calls = <<>> /\ outcome = "processed" => Done(e)

JobOK(job) ==
    \/ job = idleJob
    \/ \E e \in Events : \E calls \in CallsLeft(e), outcome \in {"processed", "ignored", "failed"} :
           JobOf(job, e, calls, outcome)

(***************************************************************************)
(* A duplicate delivery that read "processed" may write it back at any     *)
(* later time: the event is still done.                                    *)
(***************************************************************************)
ReceiverOK(delivery) ==
    \/ delivery = idleReceiver
    \/ \E e \in Events, signature \in Signatures, existing \in EventRow :
        /\ delivery = [event |-> e, signature |-> signature, existing |-> existing]
        /\ knownToProvider(Notification[e].order)
        /\ existing.status = "processed" => Done(e)

JobsGood == jobs = [k \in WebhookWorkers |-> jobs[k]] /\ \A k \in WebhookWorkers : JobOK(jobs[k])

ReceiversGood ==
    receivers = [r \in Receivers |-> receivers[r]] /\ \A r \in Receivers : ReceiverOK(receivers[r])

EventOK(e) ==
    /\ webhookEvents[e].status # "none" => knownToProvider(Notification[e].order)
    /\ webhookEvents[e].status = "processed" => Done(e)

(***************************************************************************)
(* The inductive invariant: what the queue's table, its workers and its    *)
(* requests hold about an order stays true whatever happens to the order.  *)
(***************************************************************************)
QueueInv ==
    /\ TypeOK
    /\ webhookEvents \in [Events -> EventRow]
    /\ \A e \in Events : EventOK(e)
    /\ JobsGood
    /\ ReceiversGood

-----------------------------------------------------------------------------
(***************************************************************************)
(* Once an order is known it stays known, and an event that is done stays  *)
(* done: no edge leads back into the statuses an operation acts on.        *)
(***************************************************************************)
LEMMA DoneForGood ==
    ASSUME TypeOK, [Next]_vars, NEW e \in Events, knownToProvider(Notification[e].order)
    PROVE  /\ knownToProvider(Notification[e].order)'
           /\ Done(e) => Done(e)'
<1> DEFINE o == Notification[e].order
           action == Notification[e].action
<1>1. /\ o \in OrderIds
      /\ action \in DepositActions \cup WithdrawalActions \cup {"none"}
      /\ action \in DepositActions => o \in DepositIds
      /\ action \in WithdrawalActions => o \in WithdrawalIds
  BY WebhookAssumption
<1>2. CASE o \in DepositIds
  <2>1. TopUpEdge(deposits[o].status, deposits'[o].status)
    BY <1>2, OrderMoves
  <2>2. action \in DepositActions \cup {"none"}
    BY <1>1, <1>2, OrderIdsAssumption
  <2>3. /\ orderStatus(o) = deposits[o].status
        /\ orderStatus(o)' = deposits'[o].status
    BY <1>2 DEF orderStatus
  <2>4. deposits[o].status # "none" /\ deposits'[o].status # "none"
    BY <1>2, <2>1, <2>3 DEF knownToProvider, TopUpEdge
  <2>5. Done(e) => Done(e)'
    BY <2>1, <2>2, <2>3, <2>4 DEF Done, TopUpEdge, actsOn, DepositActions
  <2> QED
    BY <1>2, <2>3, <2>4, <2>5 DEF knownToProvider
<1>3. CASE o \in WithdrawalIds
  <2>1. PayoutEdge(withdrawals[o].status, withdrawals'[o].status)
    BY <1>3, OrderMoves
  <2>0. o \notin DepositIds
    BY <1>3, OrderIdsAssumption
  <2>2. action \in WithdrawalActions \cup {"none"}
    BY <1>1, <2>0
  <2>3. /\ orderStatus(o) = withdrawals[o].status
        /\ orderStatus(o)' = withdrawals'[o].status
    BY <2>0 DEF orderStatus
  <2>4. HandedOut(withdrawals[o].status) /\ HandedOut(withdrawals'[o].status)
    BY <2>0, <2>1, <2>3 DEF knownToProvider, PayoutEdge, HandedOut
  <2>5. Done(e) => Done(e)'
    BY <2>1, <2>2, <2>3, <2>4 DEF Done, PayoutEdge, actsOn, WithdrawalActions, HandedOut
  <2> QED
    BY <2>0, <2>3, <2>4, <2>5 DEF knownToProvider, HandedOut
<1> QED
  BY <1>1, <1>2, <1>3

LEMMA TypeInductive == TypeOK /\ [Next]_vars => TypeOK'
<1>1. ASSUME TypeOK, UNCHANGED vars PROVE TypeOK'
  BY <1>1 DEF vars, walletVars, TypeOK, WalletTypeOK, WithdrawalsTypeOK, DepositsTypeOK
<1> QED
  BY <1>1, WithdrawalStepType, DepositStepType DEF Next

(***************************************************************************)
(* So whatever an actor of the order services does, what jobs and requests *)
(* hold about their orders stays true.                                     *)
(***************************************************************************)
LEMMA EventsHeldForGood ==
    ASSUME QueueInv, [Next]_vars
    PROVE  /\ TypeOK'
           /\ \A job : JobOK(job) => JobOK(job)'
           /\ \A delivery : ReceiverOK(delivery) => ReceiverOK(delivery)'
           /\ \A e \in Events : webhookEvents'[e] = webhookEvents[e] => EventOK(e)'
<1>1. TypeOK /\ TypeOK'
  BY TypeInductive DEF QueueInv
<1>2. \A e \in Events : knownToProvider(Notification[e].order) =>
          /\ knownToProvider(Notification[e].order)'
          /\ Done(e) => Done(e)'
  BY <1>1, DoneForGood
<1>3. ASSUME NEW job, JobOK(job) PROVE JobOK(job)'
  <2>1. CASE job = idleJob
    BY <2>1 DEF JobOK
  <2>2. CASE job # idleJob
    <3>1. PICK e \in Events : \E calls \in CallsLeft(e),
                outcome \in {"processed", "ignored", "failed"} : JobOf(job, e, calls, outcome)
      BY <1>3, <2>2 DEF JobOK
    <3>2. PICK calls \in CallsLeft(e), outcome \in {"processed", "ignored", "failed"} :
              JobOf(job, e, calls, outcome)
      BY <3>1
    <3>3. JobOf(job, e, calls, outcome)'
      BY <3>2, <1>2 DEF JobOf
    <3>4. CallsLeft(e)' = CallsLeft(e)
      BY DEF CallsLeft, callsOf
    <3> QED
      BY <3>3, <3>4 DEF JobOK
  <2> QED
    BY <2>1, <2>2
<1>4. ASSUME NEW delivery, ReceiverOK(delivery) PROVE ReceiverOK(delivery)'
  BY <1>4, <1>2 DEF ReceiverOK
<1>5. ASSUME NEW e \in Events, webhookEvents'[e] = webhookEvents[e] PROVE EventOK(e)'
  BY <1>5, <1>2 DEF QueueInv, EventOK
<1> QED
  BY <1>1, <1>3, <1>4, <1>5

(***************************************************************************)
(* An operation that takes effect is a step of the order services, and the *)
(* order is then past every status it acts on.                             *)
(***************************************************************************)
LEMMA OperationIsDone ==
    ASSUME TypeOK, NEW e \in Events, NEW action,
           operation(action, Notification[e].order, settlementReference(e),
                     Notification[e].channel)
    PROVE  Next /\ orderStatus(Notification[e].order)' \notin actsOn[action]
<1> DEFINE o == Notification[e].order
           ref == settlementReference(e)
           channel == Notification[e].channel
<1>1. /\ ref \in Refs \cup {NoRef}
      /\ channel \in Channels
      /\ NoAdmin \in Admins \cup {NoAdmin}
  BY WebhookAssumption DEF settlementReference
<1>s. /\ WithdrawalStatuses = {"requested", "approved", "provider_submitted",
            "provider_processing", "provider_failed", "paid", "rejected", "reversed"}
  BY DEF WithdrawalStatuses
<1> HIDE DEF ref, channel
<1>0. operation(action, o, ref, channel)
  BY DEF ref, channel
<1>2. CASE o \in DepositIds
  <2>0. o \notin WithdrawalIds
    BY <1>2, OrderIdsAssumption
  <2>a. /\ deposits \in [DepositIds -> DepositRow]
        /\ deposits[o] \in DepositRow
    BY <1>2 DEF TypeOK, DepositsTypeOK
  <2>b. ASSUME NEW status, transitionDepositStatus(o, status)
        PROVE  orderStatus(o)' = status
    <3>1. deposits'[o].status = status
      BY <1>2, <2>a, <2>b DEF transitionDepositStatus, DepositRow
    <3> QED
      BY <1>2, <3>1 DEF orderStatus
  <2>1. ASSUME action = "deposit_mark_provider_pending" /\ markDepositProviderPending(o)
        PROVE  orderStatus(o)' \notin actsOn[action]
    BY <2>1, <2>b DEF markDepositProviderPending, actsOn
  <2>2. ASSUME action = "deposit_mark_provider_succeeded" /\ markDepositProviderSucceeded(o, ref)
        PROVE  orderStatus(o)' \notin actsOn[action]
    BY <2>2, <2>b DEF markDepositProviderSucceeded, actsOn
  <2>3. ASSUME action = "deposit_mark_provider_failed" /\ failDeposit(o, ref)
        PROVE  orderStatus(o)' \notin actsOn[action]
    BY <2>3, <2>b DEF failDeposit, actsOn
  <2>4. \/ action = "deposit_mark_provider_pending" /\ markDepositProviderPending(o)
        \/ action = "deposit_mark_provider_succeeded" /\ markDepositProviderSucceeded(o, ref)
        \/ action = "deposit_mark_provider_failed" /\ failDeposit(o, ref)
    BY <1>0, <2>0 DEF operation
  <2>5. DepositStep(o) /\ UNCHANGED withdrawals
    BY <1>0, <2>0, <1>1 DEF operation, DepositStep
  <2>6. Next
    BY <2>5, <1>2 DEF Next
  <2>7. orderStatus(o)' \notin actsOn[action]
    BY <2>1, <2>2, <2>3, <2>4
  <2> QED
    BY <2>6, <2>7
<1>3. CASE o \in WithdrawalIds
  <2>0. o \notin DepositIds
    BY <1>3, OrderIdsAssumption
  <2>a. /\ withdrawals \in [WithdrawalIds -> WithdrawalRow]
        /\ withdrawals[o] \in WithdrawalRow
    BY <1>3 DEF TypeOK, WithdrawalsTypeOK
  <2>b. orderStatus(o)' = withdrawals'[o].status
    BY <2>0 DEF orderStatus
  <2>1. ASSUME /\ action = "withdrawal_mark_provider_submitted"
               /\ markWithdrawalProviderSubmitted(o, NoAdmin, ref)
        PROVE  orderStatus(o)' \notin actsOn[action]
    <3>1. withdrawals'[o].status = "provider_submitted"
      BY <2>1, <1>3, <1>1, <1>s, ReviewedEdge DEF markWithdrawalProviderSubmitted
    <3> QED
      BY <2>1, <2>b, <3>1 DEF actsOn
  <2>2. ASSUME /\ action = "withdrawal_mark_provider_processing"
               /\ markWithdrawalProviderProcessing(o, NoAdmin, ref)
        PROVE  orderStatus(o)' \notin actsOn[action]
    <3>1. withdrawals'[o].status = "provider_processing"
      BY <2>2, <1>3, <1>1, <1>s, ReviewedEdge DEF markWithdrawalProviderProcessing
    <3> QED
      BY <2>2, <2>b, <3>1 DEF actsOn
  <2>3. ASSUME /\ action = "withdrawal_mark_provider_failed"
               /\ markWithdrawalProviderFailed(o, NoAdmin, ref)
        PROVE  orderStatus(o)' \notin actsOn[action]
    <3>1. withdrawals'[o].status = "provider_failed"
      BY <2>3, <1>3, <1>1, <1>s, ReviewedEdge DEF markWithdrawalProviderFailed
    <3> QED
      BY <2>3, <2>b, <3>1 DEF actsOn
  <2>4. ASSUME action = "withdrawal_pay" /\ payWithdrawal(o, NoAdmin, ref, channel)
        PROVE  orderStatus(o)' \notin actsOn[action]
    <3>1. /\ reviewed(withdrawals[o], NoAdmin, "paid") \in WithdrawalRow
          /\ reviewed(withdrawals[o], NoAdmin, "paid").status = "paid"
      BY <2>a, <1>1, <1>s, ReviewedType
    <3>2. withdrawals'[o] = [reviewed(withdrawals[o], NoAdmin, "paid") EXCEPT !.channel = channel]
      BY <2>4, <2>a, <1>3 DEF payWithdrawal
    <3>3. withdrawals'[o].status = "paid"
      BY <3>1, <3>2 DEF WithdrawalRow
    <3> QED
      BY <2>4, <2>b, <3>3 DEF actsOn
  <2>5. \/ /\ action = "withdrawal_mark_provider_submitted"
           /\ markWithdrawalProviderSubmitted(o, NoAdmin, ref)
        \/ /\ action = "withdrawal_mark_provider_processing"
           /\ markWithdrawalProviderProcessing(o, NoAdmin, ref)
        \/ /\ action = "withdrawal_mark_provider_failed"
           /\ markWithdrawalProviderFailed(o, NoAdmin, ref)
        \/ action = "withdrawal_pay" /\ payWithdrawal(o, NoAdmin, ref, channel)
    BY <1>0, <2>0 DEF operation
  <2>6. WithdrawalStep(o) /\ UNCHANGED deposits
    BY <1>0, <2>0, <1>1, <2>5 DEF operation, WithdrawalStep
  <2>7. Next
    BY <2>6, <1>3 DEF Next
  <2>8. orderStatus(o)' \notin actsOn[action]
    BY <2>1, <2>2, <2>3, <2>4, <2>5
  <2> QED
    BY <2>7, <2>8
<1>4. o \in OrderIds
  BY WebhookAssumption
<1> QED
  BY <1>2, <1>3, <1>4

-----------------------------------------------------------------------------
LEMMA JobAt ==
    ASSUME NEW k, NEW job, jobs'[k] = job, JobOK(job)'
    PROVE  JobOK(jobs[k])'
BY DEF JobOK, JobOf

LEMMA ReceiverAt ==
    ASSUME NEW r, NEW delivery, receivers'[r] = delivery, ReceiverOK(delivery)'
    PROVE  ReceiverOK(receivers[r])'
BY DEF ReceiverOK

(***************************************************************************)
(* The three tables after a step: each is as it was or has one new row,    *)
(* and the new row is good.                                                *)
(***************************************************************************)
LEMMA EventsAfter ==
    ASSUME QueueInv, [Next]_vars, NEW e \in Events, NEW row \in EventRow,
           webhookEvents' = [webhookEvents EXCEPT ![e] = row],
           row.status # "none" => knownToProvider(Notification[e].order),
           row.status = "processed" => Done(e)'
    PROVE  webhookEvents' \in [Events -> EventRow] /\ \A f \in Events : EventOK(f)'
<1>1. /\ webhookEvents \in [Events -> EventRow]
      /\ TypeOK
  BY DEF QueueInv
<1>2. webhookEvents' \in [Events -> EventRow] /\ webhookEvents'[e] = row
  BY <1>1
<1>3. ASSUME NEW f \in Events, f # e PROVE EventOK(f)'
  <2>1. webhookEvents'[f] = webhookEvents[f]
    BY <1>1, <1>3
  <2> QED
    BY <2>1, EventsHeldForGood
<1>4. row.status # "none" => knownToProvider(Notification[e].order)'
  BY <1>1, DoneForGood
<1>5. EventOK(e)'
  BY <1>2, <1>4 DEF EventOK
<1> QED
  BY <1>2, <1>3, <1>5

LEMMA EventsKept ==
    ASSUME QueueInv, [Next]_vars, webhookEvents' = webhookEvents
    PROVE  webhookEvents' \in [Events -> EventRow] /\ \A f \in Events : EventOK(f)'
BY EventsHeldForGood DEF QueueInv

LEMMA JobsAfter ==
    ASSUME QueueInv, [Next]_vars, NEW k \in WebhookWorkers, NEW job,
           jobs' = [jobs EXCEPT ![k] = job], JobOK(job)'
    PROVE  JobsGood'
<1>1. jobs = [h \in WebhookWorkers |-> jobs[h]] /\ \A h \in WebhookWorkers : JobOK(jobs[h])
  BY DEF QueueInv, JobsGood
<1>2. jobs' = [h \in WebhookWorkers |-> IF h = k THEN job ELSE jobs[h]]
  BY <1>1
<1>3. jobs' = [h \in WebhookWorkers |-> jobs'[h]]
  BY <1>2
<1>4. ASSUME NEW h \in WebhookWorkers PROVE JobOK(jobs[h])'
  <2>1. PICK old : old = jobs[h]
    OBVIOUS
  <2>2. JobOK(old)'
    BY <1>1, <2>1, EventsHeldForGood
  <2>3. jobs'[h] = job \/ jobs'[h] = old
    BY <1>2, <2>1
  <2> QED
    BY <2>2, <2>3, JobAt
<1> QED
  BY <1>3, <1>4 DEF JobsGood

LEMMA JobsKept ==
    ASSUME QueueInv, [Next]_vars, jobs' = jobs
    PROVE  JobsGood'
<1>1. jobs = [h \in WebhookWorkers |-> jobs[h]] /\ \A h \in WebhookWorkers : JobOK(jobs[h])
  BY DEF QueueInv, JobsGood
<1>2. jobs' = [h \in WebhookWorkers |-> jobs'[h]]
  BY <1>1
<1>3. ASSUME NEW h \in WebhookWorkers PROVE JobOK(jobs[h])'
  <2>1. PICK old : old = jobs[h]
    OBVIOUS
  <2>2. JobOK(old)' /\ jobs'[h] = old
    BY <1>1, <2>1, EventsHeldForGood
  <2> QED
    BY <2>2, JobAt
<1> QED
  BY <1>2, <1>3 DEF JobsGood

LEMMA ReceiversAfter ==
    ASSUME QueueInv, [Next]_vars, NEW r \in Receivers, NEW delivery,
           receivers' = [receivers EXCEPT ![r] = delivery], ReceiverOK(delivery)'
    PROVE  ReceiversGood'
<1>1. /\ receivers = [q \in Receivers |-> receivers[q]]
      /\ \A q \in Receivers : ReceiverOK(receivers[q])
  BY DEF QueueInv, ReceiversGood
<1>2. receivers' = [q \in Receivers |-> IF q = r THEN delivery ELSE receivers[q]]
  BY <1>1
<1>3. receivers' = [q \in Receivers |-> receivers'[q]]
  BY <1>2
<1>4. ASSUME NEW q \in Receivers PROVE ReceiverOK(receivers[q])'
  <2>1. PICK old : old = receivers[q]
    OBVIOUS
  <2>2. ReceiverOK(old)'
    BY <1>1, <2>1, EventsHeldForGood
  <2>3. receivers'[q] = delivery \/ receivers'[q] = old
    BY <1>2, <2>1
  <2> QED
    BY <2>2, <2>3, ReceiverAt
<1> QED
  BY <1>3, <1>4 DEF ReceiversGood

LEMMA ReceiversKept ==
    ASSUME QueueInv, [Next]_vars, receivers' = receivers
    PROVE  ReceiversGood'
<1>1. /\ receivers = [q \in Receivers |-> receivers[q]]
      /\ \A q \in Receivers : ReceiverOK(receivers[q])
  BY DEF QueueInv, ReceiversGood
<1>2. receivers' = [q \in Receivers |-> receivers'[q]]
  BY <1>1
<1>3. ASSUME NEW q \in Receivers PROVE ReceiverOK(receivers[q])'
  <2>1. PICK old : old = receivers[q]
    OBVIOUS
  <2>2. ReceiverOK(old)' /\ receivers'[q] = old
    BY <1>1, <2>1, EventsHeldForGood
  <2> QED
    BY <2>2, ReceiverAt
<1> QED
  BY <1>2, <1>3 DEF ReceiversGood

LEMMA QueueAfter ==
    ASSUME QueueInv, [Next]_vars,
           webhookEvents' \in [Events -> EventRow] /\ \A f \in Events : EventOK(f)',
           JobsGood', ReceiversGood'
    PROVE  QueueInv'
BY EventsHeldForGood DEF QueueInv

-----------------------------------------------------------------------------
(***************************************************************************)
(* A worker's job, taken apart.                                            *)
(***************************************************************************)
LEMMA JobParts ==
    ASSUME QueueInv, NEW k \in WebhookWorkers, jobs[k] # idleJob
    PROVE  \E e \in Events : \E calls \in CallsLeft(e), outcome \in {"processed", "ignored", "failed"} :
               /\ JobOf(jobs[k], e, calls, outcome)
               /\ jobs[k].event = e /\ jobs[k].calls = calls /\ jobs[k].outcome = outcome
BY DEF QueueInv, JobsGood, JobOK, JobOf

\* Making the first call leaves the last one, or none.
LEMMA OneEventCallLess ==
    ASSUME NEW e \in Events, NEW calls \in CallsLeft(e), calls # <<>>,
           Notification[e].action # "none"
    PROVE  /\ Tail(calls) \in CallsLeft(e)
           /\ Tail(calls) = <<>> => Head(calls) = Notification[e].action
           /\ Head(calls) \in DepositActions \cup WithdrawalActions
<1> DEFINE action == Notification[e].action
<1>1. action \in DepositActions \cup WithdrawalActions
  BY WebhookAssumption
<1>2. CASE calls = <<action>>
  <2>1. Head(calls) = action /\ Tail(calls) = <<>>
    BY <1>2
  <2> QED
    BY <1>1, <2>1 DEF CallsLeft
<1>3. CASE calls = <<"deposit_mark_provider_pending", action>>
  <2>1. Head(calls) = "deposit_mark_provider_pending" /\ Tail(calls) = <<action>>
    BY <1>3
  <2>2. <<action>> # <<>>
    OBVIOUS
  <2> QED
    BY <2>1, <2>2 DEF CallsLeft, DepositActions
<1> QED
  BY <1>2, <1>3 DEF CallsLeft, callsOf

(***************************************************************************)
(* A worker that made a call, whether it took effect or returned early.    *)
(***************************************************************************)
LEMMA CallMade ==
    ASSUME QueueInv, [Next]_vars, NEW k \in WebhookWorkers, jobs[k] # idleJob,
           jobs[k].calls # <<>>,
           NEW event, event = jobs[k].event, NEW action, action = Head(jobs[k].calls),
           orderStatus(Notification[event].order)' \notin actsOn[action],
           jobs' = [jobs EXCEPT ![k].calls = Tail(@)],
           UNCHANGED <<webhookEvents, receivers>>
    PROVE  QueueInv'
<1>1. PICK e \in Events : \E calls \in CallsLeft(e), outcome \in {"processed", "ignored", "failed"} :
               /\ JobOf(jobs[k], e, calls, outcome)
               /\ jobs[k].event = e /\ jobs[k].calls = calls /\ jobs[k].outcome = outcome
  BY JobParts
<1>2. PICK calls \in CallsLeft(e), outcome \in {"processed", "ignored", "failed"} :
               /\ JobOf(jobs[k], e, calls, outcome)
               /\ jobs[k].event = e /\ jobs[k].calls = calls /\ jobs[k].outcome = outcome
  BY <1>1
<1>3. /\ jobs[k] = [event |-> e, calls |-> calls, outcome |-> outcome]
      /\ calls # <<>>
      /\ Notification[e].action # "none"
      /\ knownToProvider(Notification[e].order)
  BY <1>2 DEF JobOf
<1>4. /\ Tail(calls) \in CallsLeft(e)
      /\ Tail(calls) = <<>> => Head(calls) = Notification[e].action
  BY <1>3, OneEventCallLess
<1>5. PICK left : left = Tail(calls)
  OBVIOUS
<1>6. PICK job : job = [event |-> e, calls |-> left, outcome |-> outcome]
  OBVIOUS
<1>7. jobs' = [jobs EXCEPT ![k] = job]
  <2>1. left = Tail(jobs[k].calls)
    BY <1>3, <1>5
  <2>2. PICK old : old = jobs[k]
    OBVIOUS
  <2>3. [old EXCEPT !.calls = left] = job
    BY <1>3, <1>6, <2>2
  <2>4. jobs' = [jobs EXCEPT ![k] = [old EXCEPT !.calls = left]]
    BY <2>1, <2>2, Zenon
  <2> QED
    BY <2>3, <2>4
<1>8. left = <<>> => Done(e)'
  BY <1>2, <1>4, <1>5 DEF Done
<1>9. knownToProvider(Notification[e].order)'
  BY <1>3, DoneForGood DEF QueueInv
<1>10. JobOf(job, e, left, outcome)'
  BY <1>3, <1>6, <1>8, <1>9 DEF JobOf
<1>11. left \in CallsLeft(e)'
  BY <1>4, <1>5 DEF CallsLeft, callsOf
<1>12. JobOK(job)'
  BY <1>10, <1>11 DEF JobOK
<1> QED
  BY <1>7, <1>12, JobsAfter, EventsKept, ReceiversKept, QueueAfter

(***************************************************************************)
(* Every step keeps the invariant.                                         *)
(***************************************************************************)
LEMMA QueueInvInductive ==
    QueueInv /\ [WebhookNext]_<<vars, webhookVars>> => QueueInv'
<1> SUFFICES ASSUME QueueInv, [WebhookNext]_<<vars, webhookVars>> PROVE QueueInv'
  OBVIOUS
<1>a. /\ TypeOK
      /\ webhookEvents \in [Events -> EventRow]
      /\ \A e \in Events : EventOK(e) /\ webhookEvents[e] \in EventRow
      /\ JobsGood /\ ReceiversGood
  BY DEF QueueInv
<1>b. UNCHANGED vars => [Next]_vars
  OBVIOUS
<1>c. JobOK(idleJob)' /\ ReceiverOK(idleReceiver)'
  BY DEF JobOK, ReceiverOK, idleJob, idleReceiver
<1>d. ASSUME NEW e \in Events, UNCHANGED vars PROVE Done(e)' <=> Done(e)
  BY <1>d DEF Done, orderStatus, vars
<1>e. ASSUME NEW e \in Events, UNCHANGED vars
      PROVE  knownToProvider(Notification[e].order)' <=> knownToProvider(Notification[e].order)
  BY <1>e DEF knownToProvider, orderStatus, vars
<1>1. CASE OtherActors \/ UNCHANGED <<vars, webhookVars>>
  <2>1. [Next]_vars /\ UNCHANGED <<webhookEvents, jobs, receivers>>
    BY <1>1 DEF OtherActors, webhookVars
  <2> QED
    BY <2>1, EventsKept, JobsKept, ReceiversKept, QueueAfter
<1>2. ASSUME NEW e \in Events, NEW signature \in Signatures, queueNewEvent(e, signature)
      PROVE  QueueInv'
  <2>1. PICK row : row = [status |-> "pending", signature |-> signature]
    OBVIOUS
  <2>2. /\ webhookEvents' = [webhookEvents EXCEPT ![e] = row]
        /\ knownToProvider(Notification[e].order)
        /\ UNCHANGED vars /\ UNCHANGED jobs /\ UNCHANGED receivers
    BY <1>2, <2>1 DEF queueNewEvent
  <2>3. row \in EventRow /\ row.status = "pending"
    BY <2>1 DEF EventRow, EventStatuses
  <2>4. webhookEvents' \in [Events -> EventRow] /\ \A f \in Events : EventOK(f)'
    BY <2>2, <2>3, <1>b, EventsAfter
  <2> QED
    BY <2>2, <2>4, <1>b, JobsKept, ReceiversKept, QueueAfter
<1>3. ASSUME NEW e \in Events, NEW signature \in Signatures, NEW r \in Receivers,
             selectExistingEvent(r, e, signature)
      PROVE  QueueInv'
  <2>0. PICK existing : existing = webhookEvents[e]
    OBVIOUS
  <2>1. PICK delivery : delivery = [event |-> e, signature |-> signature, existing |-> existing]
    OBVIOUS
  <2>2. /\ receivers' = [receivers EXCEPT ![r] = delivery]
        /\ webhookEvents[e].status # "none"
        /\ UNCHANGED vars /\ UNCHANGED jobs /\ UNCHANGED webhookEvents
    BY <1>3, <2>0, <2>1 DEF selectExistingEvent
  <2>3. /\ knownToProvider(Notification[e].order)
        /\ existing.status = "processed" => Done(e)
        /\ existing \in EventRow
    BY <2>0, <2>2, <1>a DEF EventOK
  <2>4. ReceiverOK(delivery)'
    BY <2>1, <2>2, <2>3, <1>d, <1>e DEF ReceiverOK
  <2> QED
    BY <2>2, <2>4, <1>b, EventsKept, JobsKept, ReceiversAfter, QueueAfter
<1>4. ASSUME NEW r \in Receivers, updateExistingEvent(r)
      PROVE  QueueInv'
  <2>1. PICK e \in Events, signature \in Signatures, existing \in EventRow :
            /\ receivers[r] = [event |-> e, signature |-> signature, existing |-> existing]
            /\ knownToProvider(Notification[e].order)
            /\ existing.status = "processed" => Done(e)
    BY <1>4, <1>a DEF updateExistingEvent, ReceiversGood, ReceiverOK
  <2>2. PICK row : row = [status |-> IF shouldRequeue(existing, signature)
                                     THEN "pending" ELSE existing.status,
                          signature |-> signature]
    OBVIOUS
  <2>3. /\ receivers[r].event = e /\ receivers[r].signature = signature
        /\ receivers[r].existing = existing
    BY <2>1
  <2>4. /\ webhookEvents' = [webhookEvents EXCEPT ![e] = row]
        /\ receivers' = [receivers EXCEPT ![r] = idleReceiver]
        /\ UNCHANGED vars /\ UNCHANGED jobs
    BY <1>4, <2>2, <2>3 DEF updateExistingEvent
  <2>5. /\ row \in EventRow
        /\ row.status = "processed" => existing.status = "processed"
    BY <2>2 DEF EventRow, EventStatuses
  <2>6. row.status = "processed" => Done(e)'
    BY <2>1, <2>4, <2>5, <1>d
  <2>7. webhookEvents' \in [Events -> EventRow] /\ \A f \in Events : EventOK(f)'
    BY <2>1, <2>4, <2>5, <2>6, <1>b, EventsAfter
  <2>8. ReceiversGood'
    BY <2>4, <1>b, <1>c, ReceiversAfter
  <2> QED
    BY <2>4, <2>7, <2>8, <1>b, JobsKept, QueueAfter
<1>5. ASSUME NEW e \in Events, recoverStuckPaymentWebhookEvents(e)
      PROVE  QueueInv'
  <2>1. PICK row : row = [webhookEvents[e] EXCEPT !.status = "pending"]
    OBVIOUS
  <2>2. /\ webhookEvents' = [webhookEvents EXCEPT ![e] = row]
        /\ webhookEvents[e].status = "processing"
        /\ UNCHANGED vars /\ UNCHANGED jobs /\ UNCHANGED receivers
    BY <1>5, <2>1 DEF recoverStuckPaymentWebhookEvents
  <2>3. row \in EventRow /\ row.status = "pending"
    BY <2>1, <1>a DEF EventRow, EventStatuses
  <2>4. knownToProvider(Notification[e].order)
    BY <2>2, <1>a DEF EventOK
  <2>5. webhookEvents' \in [Events -> EventRow] /\ \A f \in Events : EventOK(f)'
    BY <2>2, <2>3, <2>4, <1>b, EventsAfter
  <2> QED
    BY <2>2, <2>5, <1>b, JobsKept, ReceiversKept, QueueAfter
<1>6. ASSUME NEW e \in Events, NEW k \in WebhookWorkers, claim(k, e)
      PROVE  QueueInv'
  <2>1. PICK row : row = [webhookEvents[e] EXCEPT !.status = "processing"]
    OBVIOUS
  <2>2. PICK job : job =
           IF webhookEvents[e].signature = "verified" /\ Notification[e].action # "none"
           THEN [event |-> e, calls |-> callsOf(Notification[e].action),
                 outcome |-> "processed"]
           ELSE [event |-> e, calls |-> <<>>, outcome |-> "ignored"]
    OBVIOUS
  <2>3. /\ webhookEvents' = [webhookEvents EXCEPT ![e] = row]
        /\ jobs' = [jobs EXCEPT ![k] = job]
        /\ webhookEvents[e].status = "pending"
        /\ UNCHANGED vars /\ UNCHANGED receivers
    BY <1>6, <2>1, <2>2 DEF claim
  <2>4. row \in EventRow /\ row.status = "processing"
    BY <2>1, <1>a DEF EventRow, EventStatuses
  <2>5. knownToProvider(Notification[e].order) /\ knownToProvider(Notification[e].order)'
    BY <2>3, <1>a, <1>e DEF EventOK
  <2>6. webhookEvents' \in [Events -> EventRow] /\ \A f \in Events : EventOK(f)'
    BY <2>3, <2>4, <2>5, <1>b, EventsAfter
  <2>7. JobOK(job)'
    <3>1. PICK calls : calls = callsOf(Notification[e].action)
      OBVIOUS
    <3>2. calls # <<>>
      BY <3>1 DEF callsOf
    <3>3. calls \in CallsLeft(e)' /\ <<>> \in CallsLeft(e)'
      BY <3>1 DEF CallsLeft, callsOf
    <3>4. CASE webhookEvents[e].signature = "verified" /\ Notification[e].action # "none"
      <4>1. JobOf(job, e, calls, "processed")'
        BY <2>2, <2>5, <3>1, <3>2, <3>4 DEF JobOf
      <4> QED
        BY <3>3, <4>1 DEF JobOK
    <3>5. CASE ~(webhookEvents[e].signature = "verified" /\ Notification[e].action # "none")
      <4>1. JobOf(job, e, <<>>, "ignored")'
        BY <2>2, <2>5, <3>5 DEF JobOf
      <4> QED
        BY <3>3, <4>1 DEF JobOK
    <3> QED
      BY <3>4, <3>5
  <2>8. JobsGood'
    BY <2>3, <2>7, <1>b, JobsAfter
  <2> QED
    BY <2>3, <2>6, <2>8, <1>b, ReceiversKept, QueueAfter
<1>7. ASSUME NEW k \in WebhookWorkers, consumeApplied(k)
      PROVE  QueueInv'
  <2>1. PICK e \in Events : \E calls \in CallsLeft(e), outcome \in {"processed", "ignored", "failed"} :
               /\ JobOf(jobs[k], e, calls, outcome)
               /\ jobs[k].event = e /\ jobs[k].calls = calls /\ jobs[k].outcome = outcome
    BY <1>7, JobParts DEF consumeApplied
  <2>2. operation(Head(jobs[k].calls), Notification[e].order, settlementReference(e),
                  Notification[e].channel)
    BY <1>7, <2>1 DEF consumeApplied
  <2>3. PICK action : action = Head(jobs[k].calls)
    OBVIOUS
  <2>4. Next /\ orderStatus(Notification[e].order)' \notin actsOn[action]
    BY <2>2, <2>3, <1>a, OperationIsDone
  <2> QED
    BY <1>7, <2>1, <2>3, <2>4, CallMade DEF consumeApplied
<1>8. ASSUME NEW k \in WebhookWorkers, consumeReturnsEarly(k)
      PROVE  QueueInv'
  <2>1. PICK e, action : e = jobs[k].event /\ action = Head(jobs[k].calls)
    OBVIOUS
  <2>2. UNCHANGED vars /\ orderStatus(Notification[e].order) \notin actsOn[action]
    BY <1>8, <2>1 DEF consumeReturnsEarly
  <2>3. orderStatus(Notification[e].order)' = orderStatus(Notification[e].order)
    BY <2>2 DEF orderStatus, vars
  <2> QED
    BY <1>8, <1>b, <2>1, <2>2, <2>3, CallMade DEF consumeReturnsEarly
<1>9. ASSUME NEW k \in WebhookWorkers, consumeThrows(k)
      PROVE  QueueInv'
  <2>1. PICK e \in Events : \E calls \in CallsLeft(e), outcome \in {"processed", "ignored", "failed"} :
               /\ JobOf(jobs[k], e, calls, outcome)
               /\ jobs[k].event = e /\ jobs[k].calls = calls /\ jobs[k].outcome = outcome
    BY <1>9, JobParts DEF consumeThrows
  <2>2. PICK job : job = [event |-> e, calls |-> <<>>, outcome |-> "failed"]
    OBVIOUS
  <2>3. /\ jobs' = [jobs EXCEPT ![k] = job]
        /\ UNCHANGED vars /\ UNCHANGED webhookEvents /\ UNCHANGED receivers
    BY <1>9, <2>1, <2>2 DEF consumeThrows
  <2>4. knownToProvider(Notification[e].order)'
    BY <2>1, <2>3, <1>e DEF JobOf
  <2>5. JobOf(job, e, <<>>, "failed")'
    BY <2>2, <2>4 DEF JobOf
  <2>6. <<>> \in CallsLeft(e)'
    BY DEF CallsLeft
  <2>7. JobOK(job)'
    BY <2>5, <2>6 DEF JobOK
  <2> QED
    BY <2>3, <2>7, <1>b, JobsAfter, EventsKept, ReceiversKept, QueueAfter
<1>10. ASSUME NEW k \in WebhookWorkers, finalizePaymentWebhookEvent(k)
       PROVE  QueueInv'
  <2>1. PICK e \in Events : \E calls \in CallsLeft(e), outcome \in {"processed", "ignored", "failed"} :
               /\ JobOf(jobs[k], e, calls, outcome)
               /\ jobs[k].event = e /\ jobs[k].calls = calls /\ jobs[k].outcome = outcome
    BY <1>10, JobParts DEF finalizePaymentWebhookEvent
  <2>2. PICK outcome \in {"processed", "ignored", "failed"} : jobs[k].outcome = outcome
    BY <2>1
  <2>3. PICK row : row = [webhookEvents[e] EXCEPT !.status = outcome]
    OBVIOUS
  <2>4. /\ webhookEvents' = [webhookEvents EXCEPT ![e] = row]
        /\ jobs' = [jobs EXCEPT ![k] = idleJob]
        /\ UNCHANGED vars /\ UNCHANGED receivers
    BY <1>10, <2>1, <2>2, <2>3 DEF finalizePaymentWebhookEvent
  <2>5. row \in EventRow /\ row.status = outcome
    BY <2>3, <1>a DEF EventRow, EventStatuses
  <2>6. /\ knownToProvider(Notification[e].order)
        /\ outcome = "processed" => Done(e)
    BY <1>10, <2>1, <2>2 DEF JobOf, finalizePaymentWebhookEvent
  <2>7. webhookEvents' \in [Events -> EventRow] /\ \A f \in Events : EventOK(f)'
    BY <2>4, <2>5, <2>6, <1>b, <1>d, EventsAfter
  <2>8. JobsGood'
    BY <2>4, <1>b, <1>c, JobsAfter
  <2> QED
    BY <2>4, <2>7, <2>8, <1>b, ReceiversKept, QueueAfter
<1>11. ASSUME NEW k \in WebhookWorkers, crash(k)
       PROVE  QueueInv'
  <2>1. /\ jobs' = [jobs EXCEPT ![k] = idleJob]
        /\ UNCHANGED vars /\ UNCHANGED webhookEvents /\ UNCHANGED receivers
    BY <1>11 DEF crash
  <2>2. JobsGood'
    BY <2>1, <1>b, <1>c, JobsAfter
  <2> QED
    BY <2>1, <2>2, <1>b, EventsKept, ReceiversKept, QueueAfter
<1> QED
  BY <1>1, <1>2, <1>3, <1>4, <1>5, <1>6, <1>7, <1>8, <1>9, <1>10, <1>11
     DEF WebhookNext, consume

-----------------------------------------------------------------------------
LEMMA InitQueue == Init /\ WebhookInit => QueueInv
<1> SUFFICES ASSUME Init, WebhookInit PROVE QueueInv
  OBVIOUS
<1>1. webhookEvents \in [Events -> EventRow] /\ \A e \in Events : EventOK(e)
  BY DEF WebhookInit, EventRow, Signatures, EventStatuses, EventOK
<1>2. JobsGood
  BY DEF WebhookInit, JobsGood, JobOK
<1>3. ReceiversGood
  BY DEF WebhookInit, ReceiversGood, ReceiverOK
<1> QED
  BY <1>1, <1>2, <1>3, InitType DEF QueueInv

(***************************************************************************)
(* An acknowledged success or failure is never lost: whatever duplicates,  *)
(* crashes and stale locks do, an event marked processed has nothing left  *)
(* to do on its order.                                                     *)
(***************************************************************************)
THEOREM ProcessedEventAlwaysFinal == WebhookSpec => []ProcessedEventIsFinal
<1>1. QueueInv => ProcessedEventIsFinal
  BY DEF QueueInv, EventOK, Done, ProcessedEventIsFinal
<1> QED
  BY InitQueue, QueueInvInductive, <1>1, PTL DEF WebhookSpec

(***************************************************************************)
(* The workers change orders and wallets through the order services only,  *)
(* so every safety theorem of FinanceOrders holds with the queue running.  *)
(***************************************************************************)
THEOREM WebhooksCallOrderServices == WebhookSpec => Spec
<1>1. QueueInv /\ [WebhookNext]_<<vars, webhookVars>> => [Next]_vars
  <2> SUFFICES ASSUME QueueInv, [WebhookNext]_<<vars, webhookVars>> PROVE Next \/ UNCHANGED vars
    OBVIOUS
  <2>1. ASSUME NEW k \in WebhookWorkers, consumeApplied(k) PROVE Next
    <3>1. PICK e \in Events : e = jobs[k].event
      BY <2>1, JobParts DEF consumeApplied
    <3>2. PICK action : action = Head(jobs[k].calls)
      OBVIOUS
    <3>3. operation(action, Notification[e].order, settlementReference(e), Notification[e].channel)
      BY <2>1, <3>1, <3>2 DEF consumeApplied
    <3> QED
      BY <3>3, OperationIsDone DEF QueueInv
  <2> QED
    BY <2>1 DEF WebhookNext, OtherActors, queueNewEvent, selectExistingEvent,
       updateExistingEvent, recoverStuckPaymentWebhookEvents, claim, consume,
       consumeReturnsEarly, consumeThrows, finalizePaymentWebhookEvent, crash
<1> QED
  BY InitQueue, QueueInvInductive, <1>1, PTL DEF WebhookSpec, Spec

(***************************************************************************)
(* Money stays explained and large payouts stay reviewed by two admins     *)
(* while webhooks race the admins.                                         *)
(***************************************************************************)
THEOREM WebhooksKeepOrdersSound ==
    WebhookSpec => [](LedgerIsExplained /\ MutationsMatchStatus /\ TwoReviewers) /\ ClosedStaysClosed
BY WebhooksCallOrderServices, LedgerAlwaysExplained, MutationsAlwaysMatchStatus,
   AlwaysTwoReviewers, ClosedOrdersStayClosed, PTL

-----------------------------------------------------------------------------
(* The outbox and the operations scan *)

IsPlaced(o) == \E p \in placed : p.order = o

MovedOn(o) == statusOf(o) \notin {"none", "requested", "approved"}

InOutbox(o) == o \in OrderIds /\ outbound[o] # "none"

\* The calls that bring an order past its approval, or past its request.
FirstCall(o, todo) ==
    /\ todo # <<>>
    /\ Head(todo) \in IF o \in DepositIds THEN {"succeeded", "failed", "pending"}
                      ELSE {"submitted", "failed"}

(***************************************************************************)
(* The metadata a worker read and will write back, however late: the order *)
(* had its reviews by then.                                                *)
(***************************************************************************)
SeenOK(w, seen) ==
    /\ seen.pendingReview \in Admins \cup {NoAdmin}
    /\ seen.reviewers \subseteq Admins
    /\ seen.channel \in Channels \cup {"none"}
    /\ seen.pendingReview # NoAdmin => seen.pendingReview \in seen.reviewers
    /\ withdrawals[w].approvalsRequired = 2 => \E a, b \in seen.reviewers : a # b

(***************************************************************************)
(* A worker, wherever it was overtaken: the rows it claimed are still in   *)
(* the outbox; past the provider's answer its order is placed; and it does *)
(* not run out of calls before the order has moved on.                     *)
(***************************************************************************)
PartsOK(phase, order, batch, todo, seen) ==
    /\ \A o \in batch : InOutbox(o)
    /\ phase \notin {"idle", "next"} => InOutbox(order)
    /\ phase \in {"record", "sync"} => IsPlaced(order)
    /\ phase = "record" =>
        /\ order \in WithdrawalIds
        /\ SeenOK(order, seen)
        /\ FirstCall(order, todo)
    /\ phase = "sync" => FirstCall(order, todo) \/ MovedOn(order)

RowOf(phase, order, batch, todo, seen) ==
    [phase |-> phase, order |-> order, batch |-> batch, todo |-> todo, seen |-> seen]

WorkerOK(row) ==
    /\ row = RowOf(row.phase, row.order, row.batch, row.todo, row.seen)
    /\ PartsOK(row.phase, row.order, row.batch, row.todo, row.seen)

WorkersOK ==
    /\ worker = [k \in Workers |-> worker[k]]
    /\ \A k \in Workers : WorkerOK(worker[k])

\* What the provider and the outbox know of the orders.
OutboxOK ==
    /\ \A p \in placed : \E o \in OrderIds : p = [order |-> o, key |-> <<o, 1>>]
    /\ \A o \in OrderIds : outbound[o] = "sent" => IsPlaced(o) /\ MovedOn(o)
    /\ \A d \in DepositIds : deposits[d].status = "none" => outbound[d] = "none"

(***************************************************************************)
(* The inductive invariant.                                                *)
(***************************************************************************)
OutboxInv == ReviewInv /\ OutboxOK /\ WorkersOK

(***************************************************************************)
(* What every step does to the orders, as far as workers rely on it.       *)
(***************************************************************************)
OrdersAdvance ==
    /\ \A o \in OrderIds : outbound[o] # "none" => outbound'[o] # "none"
    /\ \A w \in WithdrawalIds :
        /\ PayoutEdge(withdrawals[w].status, withdrawals'[w].status)
        /\ withdrawals[w].status # "none" =>
               withdrawals'[w].approvalsRequired = withdrawals[w].approvalsRequired
    /\ \A d \in DepositIds : TopUpEdge(deposits[d].status, deposits'[d].status)
    /\ placed \subseteq placed'

-----------------------------------------------------------------------------
LEMMA StatusOf ==
    /\ \A d \in DepositIds : statusOf(d) = deposits[d].status
    /\ \A w \in WithdrawalIds : statusOf(w) = withdrawals[w].status
    /\ \A d \in DepositIds : statusOf(d)' = deposits'[d].status
    /\ \A w \in WithdrawalIds : statusOf(w)' = withdrawals'[w].status
BY OrderIdsAssumption DEF statusOf

\* An order in the outbox is past its request, or a deposit that was created.
LEMMA OutboxStatus ==
    ASSUME OutboxInv, NEW o, InOutbox(o)
    PROVE  /\ o \in WithdrawalIds => HandedOut(withdrawals[o].status)
           /\ o \in DepositIds => deposits[o].status \notin {"none", "approved"}
<1>1. o \in WithdrawalIds => withdrawals[o].status \notin {"none", "requested"}
  BY DEF OutboxInv, ReviewInv, ReviewSound, InOutbox
<1>2. o \in DepositIds => deposits[o].status # "none" /\ deposits[o] \in DepositRow
  BY DEF OutboxInv, OutboxOK, InOutbox, ReviewInv, TypeOK, DepositsTypeOK
<1> QED
  BY <1>1, <1>2 DEF HandedOut, DepositRow, DepositStatuses

(***************************************************************************)
(* What a worker holds stays true while others act.                        *)
(***************************************************************************)
LEMMA OrdersHeldForGood ==
    ASSUME OutboxInv, OrdersAdvance
    PROVE  /\ \A o : InOutbox(o) => InOutbox(o)'
           /\ \A o : IsPlaced(o) => IsPlaced(o)'
           /\ \A o \in OrderIds : MovedOn(o) => MovedOn(o)'
           /\ \A row : WorkerOK(row) => WorkerOK(row)'
<1>1. \A o : InOutbox(o) => InOutbox(o)'
  BY DEF OrdersAdvance, InOutbox
<1>2. \A o : IsPlaced(o) => IsPlaced(o)'
  BY DEF OrdersAdvance, IsPlaced
<1>3. ASSUME NEW o \in OrderIds, MovedOn(o) PROVE MovedOn(o)'
  <2>1. CASE o \in DepositIds
    BY <1>3, <2>1, StatusOf DEF MovedOn, OrdersAdvance, TopUpEdge
  <2>2. CASE o \in WithdrawalIds
    BY <1>3, <2>2, StatusOf DEF MovedOn, OrdersAdvance, PayoutEdge
  <2> QED
    BY <2>1, <2>2
<1>4. ASSUME NEW row, WorkerOK(row) PROVE WorkerOK(row)'
  <2>1. row.phase = "record" => SeenOK(row.order, row.seen)'
    <3> SUFFICES ASSUME row.phase = "record" PROVE SeenOK(row.order, row.seen)'
      OBVIOUS
    <3>1. row.order \in WithdrawalIds /\ InOutbox(row.order) /\ SeenOK(row.order, row.seen)
      BY <1>4 DEF WorkerOK, PartsOK
    <3>2. withdrawals[row.order].status # "none"
      BY <3>1, OutboxStatus DEF HandedOut
    <3>3. withdrawals'[row.order].approvalsRequired = withdrawals[row.order].approvalsRequired
      BY <3>1, <3>2 DEF OrdersAdvance
    <3> QED
      BY <3>1, <3>3 DEF SeenOK
  <2>2. row.phase = "sync" => row.order \in OrderIds
    BY <1>4 DEF WorkerOK, PartsOK, InOutbox
  <2>3. FirstCall(row.order, row.todo) => FirstCall(row.order, row.todo)'
    BY DEF FirstCall
  <2> QED
    BY <1>1, <1>2, <1>3, <1>4, <2>1, <2>2, <2>3 DEF WorkerOK, PartsOK
<1> QED
  BY <1>1, <1>2, <1>3, <1>4

-----------------------------------------------------------------------------
(***************************************************************************)
(* The number of approvals a withdrawal needs is fixed when it is created. *)
(***************************************************************************)
LEMMA ApprovalsFixed ==
    ASSUME TypeOK, NEW w \in WithdrawalIds, WithdrawalStep(w), withdrawals[w].status # "none"
    PROVE  withdrawals'[w].approvalsRequired = withdrawals[w].approvalsRequired
<1>a. /\ WithdrawalStatuses = {"requested", "approved", "provider_submitted",
            "provider_processing", "provider_failed", "paid", "rejected", "reversed"}
      /\ withdrawals \in [WithdrawalIds -> WithdrawalRow]
      /\ withdrawals[w] \in WithdrawalRow
  BY DEF WithdrawalStatuses, TypeOK, WithdrawalsTypeOK
<1>b. ASSUME NEW admin \in Admins \cup {NoAdmin}, NEW status \in WithdrawalStatuses
      PROVE  /\ reviewed(withdrawals[w], admin, status) \in WithdrawalRow
             /\ reviewed(withdrawals[w], admin, status).approvalsRequired
                    = withdrawals[w].approvalsRequired
  <2>1. withdrawals[w] \in WithdrawalRow
    BY <1>a
  <2> QED
    BY <2>1, ReviewedType
<1>1. ASSUME NEW admin \in Admins \cup {NoAdmin}, approveWithdrawalFirst(w, admin)
      PROVE  withdrawals'[w].approvalsRequired = withdrawals[w].approvalsRequired
  <2>1. withdrawals'[w] = [withdrawals[w] EXCEPT !.pendingReview = admin,
                                                 !.reviewers = @ \cup {admin}]
    BY <1>1, <1>a DEF approveWithdrawalFirst, WithdrawalRow
  <2> QED
    BY <2>1, <1>a DEF WithdrawalRow
<1>2. ASSUME NEW admin \in Admins \cup {NoAdmin}, NEW ref,
             \/ approveWithdrawal(w, admin)
             \/ markWithdrawalProviderSubmitted(w, admin, ref)
             \/ markWithdrawalProviderProcessing(w, admin, ref)
             \/ markWithdrawalProviderFailed(w, admin, ref)
             \/ rejectWithdrawal(w, admin, ref)
             \/ reverseWithdrawal(w, admin, ref)
      PROVE  withdrawals'[w].approvalsRequired = withdrawals[w].approvalsRequired
  <2>1. \E status \in WithdrawalStatuses :
            withdrawals' = [withdrawals EXCEPT ![w] = reviewed(@, admin, status)]
    BY <1>2, <1>a DEF approveWithdrawal, markWithdrawalProviderSubmitted,
       markWithdrawalProviderProcessing, markWithdrawalProviderFailed,
       rejectWithdrawal, reverseWithdrawal, refundWithdrawal
  <2> QED
    BY <2>1, <1>a, <1>b
<1>3. ASSUME NEW admin \in Admins \cup {NoAdmin}, NEW ref, NEW channel,
             payWithdrawal(w, admin, ref, channel)
      PROVE  withdrawals'[w].approvalsRequired = withdrawals[w].approvalsRequired
  <2>1. withdrawals'[w] = [reviewed(withdrawals[w], admin, "paid") EXCEPT !.channel = channel]
    BY <1>3, <1>a DEF payWithdrawal
  <2>2. /\ reviewed(withdrawals[w], admin, "paid") \in WithdrawalRow
        /\ reviewed(withdrawals[w], admin, "paid").approvalsRequired
               = withdrawals[w].approvalsRequired
    BY <1>a, <1>b
  <2> QED
    BY <2>1, <2>2 DEF WithdrawalRow
<1> QED
  BY <1>1, <1>2, <1>3 DEF WithdrawalStep, createWithdrawal

(***************************************************************************)
(* Reviewers, webhooks and whoever else calls the order services.          *)
(***************************************************************************)
LEMMA OrderStepAdvances ==
    ASSUME OutboxInv, [Next]_vars, placed \subseteq placed'
    PROVE  /\ OrdersAdvance
           /\ ReviewInv'
           /\ \A o \in OrderIds : outbound'[o] = "sent" => outbound[o] = "sent"
           /\ \A d \in DepositIds : deposits'[d].status = "none" => outbound'[d] = "none"
<1>a. /\ TypeOK
      /\ outbound \in [OrderIds -> SendStatuses]
      /\ \A d \in DepositIds : deposits[d].status = "none" => outbound[d] = "none"
  BY DEF OutboxInv, ReviewInv, OutboxOK, TypeOK
<1>1. ReviewInv'
  BY ReviewInvInductive DEF OutboxInv
<1>2. /\ \A w \in WithdrawalIds : PayoutEdge(withdrawals[w].status, withdrawals'[w].status)
      /\ \A d \in DepositIds : TopUpEdge(deposits[d].status, deposits'[d].status)
  BY <1>a, OrderMoves
<1>3. ASSUME NEW o \in OrderIds, preparePaymentOutboundRequest(o)
      PROVE  /\ \A p \in OrderIds \ {o} : outbound'[p] = outbound[p]
             /\ outbound'[o] # "none"
             /\ outbound'[o] = "sent" => outbound[o] = "sent"
  BY <1>3, <1>a DEF preparePaymentOutboundRequest
<1>4. ASSUME NEW w \in WithdrawalIds, WithdrawalStep(w), UNCHANGED deposits
      PROVE  /\ \A o \in OrderIds : /\ outbound[o] # "none" => outbound'[o] # "none"
                                    /\ outbound'[o] = "sent" => outbound[o] = "sent"
             /\ \A d \in DepositIds : outbound'[d] = outbound[d]
             /\ \A v \in WithdrawalIds : withdrawals[v].status # "none" =>
                    withdrawals'[v].approvalsRequired = withdrawals[v].approvalsRequired
  <2>1. /\ \A v \in WithdrawalIds \ {w} : withdrawals'[v] = withdrawals[v]
        /\ outbound' = outbound \/ preparePaymentOutboundRequest(w)
    BY <1>a, <1>4, WithdrawalStepMoves
  <2>2. withdrawals[w].status # "none" =>
            withdrawals'[w].approvalsRequired = withdrawals[w].approvalsRequired
    BY <1>a, <1>4, ApprovalsFixed
  <2> QED
    BY <2>1, <2>2, <1>3, OrderIdsAssumption
<1>5. ASSUME NEW d \in DepositIds, DepositStep(d), UNCHANGED withdrawals
      PROVE  /\ \A o \in OrderIds : /\ outbound[o] # "none" => outbound'[o] # "none"
                                    /\ outbound'[o] = "sent" => outbound[o] = "sent"
             /\ \A e \in DepositIds : deposits'[e].status = "none" => outbound'[e] = "none"
  <2>1. /\ \A e \in DepositIds \ {d} : deposits'[e] = deposits[e]
        /\ TopUpEdge(deposits[d].status, deposits'[d].status)
        /\ \/ outbound' = outbound
           \/ deposits'[d].status # "none" /\ preparePaymentOutboundRequest(d)
    BY <1>a, <1>5, DepositStepMoves
  <2>2. deposits'[d].status = "none" => deposits[d].status = "none"
    BY <2>1 DEF TopUpEdge
  <2> QED
    BY <2>1, <2>2, <1>3, <1>a
<1>6. CASE UNCHANGED vars
  BY <1>a, <1>1, <1>2, <1>6 DEF OrdersAdvance, vars
<1> QED
  BY <1>a, <1>1, <1>2, <1>4, <1>5, <1>6 DEF OrdersAdvance, Next

-----------------------------------------------------------------------------
LEMMA WorkerAt ==
    ASSUME NEW k, NEW row, worker'[k] = row, WorkerOK(row)'
    PROVE  WorkerOK(worker[k])'
BY DEF WorkerOK, PartsOK

LEMMA WorkersAfter ==
    ASSUME OutboxInv, OrdersAdvance, NEW k \in Workers, NEW row,
           worker' = [worker EXCEPT ![k] = row], WorkerOK(row)'
    PROVE  WorkersOK'
<1>1. worker = [h \in Workers |-> worker[h]] /\ \A h \in Workers : WorkerOK(worker[h])
  BY DEF OutboxInv, WorkersOK
<1>2. worker' = [h \in Workers |-> IF h = k THEN row ELSE worker[h]]
  BY <1>1
<1>3. worker' = [h \in Workers |-> worker'[h]]
  BY <1>2
<1>4. ASSUME NEW h \in Workers PROVE WorkerOK(worker[h])'
  <2>1. PICK old : old = worker[h]
    OBVIOUS
  <2>2. WorkerOK(old)'
    BY <1>1, <2>1, OrdersHeldForGood
  <2>3. worker'[h] = row \/ worker'[h] = old
    BY <1>2, <2>1
  <2> QED
    BY <2>2, <2>3, WorkerAt
<1> QED
  BY <1>3, <1>4 DEF WorkersOK

LEMMA WorkersKept ==
    ASSUME OutboxInv, OrdersAdvance, worker' = worker
    PROVE  WorkersOK'
<1>1. worker = [h \in Workers |-> worker[h]] /\ \A h \in Workers : WorkerOK(worker[h])
  BY DEF OutboxInv, WorkersOK
<1>2. worker' = [h \in Workers |-> worker'[h]]
  BY <1>1
<1>3. ASSUME NEW h \in Workers PROVE WorkerOK(worker[h])'
  <2>1. PICK old : old = worker[h]
    OBVIOUS
  <2>2. WorkerOK(old)' /\ worker'[h] = old
    BY <1>1, <2>1, OrdersHeldForGood
  <2> QED
    BY <2>2, WorkerAt
<1> QED
  BY <1>2, <1>3 DEF WorkersOK

(***************************************************************************)
(* A step of the order services, or none, that may place an order.         *)
(***************************************************************************)
LEMMA ServiceStep ==
    ASSUME OutboxInv, [Next]_vars, placed \subseteq placed',
           \A p \in placed' : p \in placed \/ \E o \in OrderIds : p = [order |-> o, key |-> <<o, 1>>]
    PROVE  OrdersAdvance /\ ReviewInv' /\ OutboxOK'
<1>1. /\ OrdersAdvance
      /\ ReviewInv'
      /\ \A o \in OrderIds : outbound'[o] = "sent" => outbound[o] = "sent"
      /\ \A d \in DepositIds : deposits'[d].status = "none" => outbound'[d] = "none"
  BY OrderStepAdvances
<1>2. /\ \A o \in OrderIds : outbound[o] = "sent" => IsPlaced(o) /\ MovedOn(o)
      /\ \A p \in placed : \E o \in OrderIds : p = [order |-> o, key |-> <<o, 1>>]
  BY DEF OutboxInv, OutboxOK
<1>3. \A o \in OrderIds : outbound'[o] = "sent" => IsPlaced(o)' /\ MovedOn(o)'
  BY <1>1, <1>2, OrdersHeldForGood
<1>4. \A p \in placed' : \E o \in OrderIds : p = [order |-> o, key |-> <<o, 1>>]
  BY <1>2
<1> QED
  BY <1>1, <1>3, <1>4 DEF OutboxOK

(***************************************************************************)
(* A step of the outbox table alone: rows appear in it by preparation      *)
(* only, and a row is marked sent for an order that is placed and moved on.*)
(***************************************************************************)
LEMMA OutboxStep ==
    ASSUME OutboxInv, UNCHANGED orderVars, UNCHANGED placed,
           outbound' \in [OrderIds -> SendStatuses],
           \A o \in OrderIds :
               \/ outbound'[o] = outbound[o]
               \/ /\ outbound[o] # "none" /\ outbound'[o] # "none"
                  /\ outbound'[o] = "sent" => IsPlaced(o) /\ MovedOn(o)
    PROVE  OrdersAdvance /\ ReviewInv' /\ OutboxOK'
<1>0. UNCHANGED walletVars /\ UNCHANGED withdrawals /\ UNCHANGED deposits
  BY DEF orderVars
<1>1. OrdersAdvance
  BY <1>0 DEF OrdersAdvance, PayoutEdge, TopUpEdge
<1>2. TypeOK'
  BY <1>0 DEF OutboxInv, ReviewInv, TypeOK, WalletTypeOK, walletVars, WithdrawalsTypeOK,
     DepositsTypeOK
<1>3. ASSUME NEW w \in WithdrawalIds PROVE ReviewSound(withdrawals'[w], outbound'[w])
  <2>1. PICK row, old, new : row = withdrawals[w] /\ old = outbound[w] /\ new = outbound'[w]
    OBVIOUS
  <2>2. ReviewSound(row, old) /\ (old = "none" <=> new = "none")
    BY <2>1 DEF OutboxInv, ReviewInv
  <2>3. ReviewSound(row, new)
    BY <2>2 DEF ReviewSound
  <2> QED
    BY <2>1, <2>3, <1>0
<1>4. \A o \in OrderIds : outbound'[o] = "sent" => IsPlaced(o)' /\ MovedOn(o)'
  <2>1. \A o \in OrderIds : outbound'[o] = "sent" => IsPlaced(o) /\ MovedOn(o)
    BY DEF OutboxInv, OutboxOK
  <2> QED
    BY <2>1, <1>1, OrdersHeldForGood
<1>5. \A d \in DepositIds : deposits'[d].status = "none" => outbound'[d] = "none"
  BY <1>0 DEF OutboxInv, OutboxOK
<1>6. \A p \in placed' : \E o \in OrderIds : p = [order |-> o, key |-> <<o, 1>>]
  BY DEF OutboxInv, OutboxOK
<1> QED
  BY <1>1, <1>2, <1>3, <1>4, <1>5, <1>6 DEF OutboxOK, ReviewInv

(***************************************************************************)
(* A worker writes back the metadata it read: the reviews survive.         *)
(***************************************************************************)
LEMMA RecordStep ==
    ASSUME OutboxInv, NEW k \in Workers, updateWithdrawalProviderResponse(k)
    PROVE  OrdersAdvance /\ ReviewInv' /\ OutboxOK'
<1>0. PICK w, seen : w = worker[k].order /\ seen = worker[k].seen
  OBVIOUS
<1>1. w \in WithdrawalIds /\ InOutbox(w) /\ SeenOK(w, seen)
  BY <1>0 DEF OutboxInv, WorkersOK, WorkerOK, PartsOK, updateWithdrawalProviderResponse
<1>2. /\ withdrawals \in [WithdrawalIds -> WithdrawalRow]
      /\ withdrawals[w] \in WithdrawalRow
      /\ outbound[w] # "none"
      /\ ReviewSound(withdrawals[w], outbound[w])
  BY <1>1 DEF OutboxInv, ReviewInv, TypeOK, WithdrawalsTypeOK, InOutbox
<1>3. PICK new : new = [withdrawals[w] EXCEPT !.pendingReview = seen.pendingReview,
                                              !.reviewers = seen.reviewers,
                                              !.channel = seen.channel]
  OBVIOUS
<1>4. withdrawals' = [withdrawals EXCEPT ![w] = new]
  BY <1>0, <1>2, <1>3 DEF updateWithdrawalProviderResponse, WithdrawalRow
<1>5. /\ UNCHANGED walletVars /\ UNCHANGED deposits /\ UNCHANGED outbound /\ UNCHANGED placed
  BY DEF updateWithdrawalProviderResponse
<1>6. /\ new \in WithdrawalRow
      /\ new.status = withdrawals[w].status
      /\ new.approvalsRequired = withdrawals[w].approvalsRequired
      /\ new.manualRequired = withdrawals[w].manualRequired
      /\ new.mode = withdrawals[w].mode
      /\ new.pendingReview = seen.pendingReview
      /\ new.reviewers = seen.reviewers
  BY <1>1, <1>2, <1>3 DEF SeenOK, WithdrawalRow
<1>7. /\ withdrawals' \in [WithdrawalIds -> WithdrawalRow]
      /\ withdrawals'[w] = new
      /\ \A v \in WithdrawalIds \ {w} : withdrawals'[v] = withdrawals[v]
  BY <1>1, <1>2, <1>4, <1>6
<1>8. OrdersAdvance
  BY <1>5, <1>6, <1>7 DEF OrdersAdvance, PayoutEdge, TopUpEdge
<1>9. TypeOK'
  BY <1>5, <1>7 DEF OutboxInv, ReviewInv, TypeOK, WalletTypeOK, walletVars, WithdrawalsTypeOK,
     DepositsTypeOK
<1>10. ReviewSound(new, outbound[w])
  BY <1>1, <1>2, <1>6 DEF ReviewSound, SeenOK
<1>11. \A v \in WithdrawalIds : ReviewSound(withdrawals'[v], outbound'[v])
  BY <1>5, <1>7, <1>10 DEF OutboxInv, ReviewInv
<1>12. \A o \in OrderIds : outbound'[o] = "sent" => IsPlaced(o)' /\ MovedOn(o)'
  BY <1>5, <1>8, OrdersHeldForGood DEF OutboxInv, OutboxOK
<1>13. \A p \in placed' : \E o \in OrderIds : p = [order |-> o, key |-> <<o, 1>>]
  BY <1>5 DEF OutboxInv, OutboxOK
<1>14. \A d \in DepositIds : deposits'[d].status = "none" => outbound'[d] = "none"
  BY <1>5 DEF OutboxInv, OutboxOK
<1> QED
  BY <1>8, <1>9, <1>11, <1>12, <1>13, <1>14 DEF OutboxOK, ReviewInv

-----------------------------------------------------------------------------
(***************************************************************************)
(* A call that commits is a step of the order services, and the first one  *)
(* of an answer moves the order on.                                        *)
(***************************************************************************)
LEMMA DepositCallMoves ==
    ASSUME TypeOK, NEW d \in DepositIds, NEW call, NEW ref \in Refs,
           depositCall(d, call, ref), UNCHANGED withdrawals
    PROVE  Next /\ MovedOn(d)'
<1>1. DepositStep(d)
  BY DEF depositCall, DepositStep
<1>2. Next
  BY <1>1 DEF Next
<1>3. /\ deposits \in [DepositIds -> DepositRow]
      /\ deposits[d] \in DepositRow
  BY DEF TypeOK, DepositsTypeOK
<1>4. ASSUME NEW status, transitionDepositStatus(d, status)
      PROVE  deposits'[d].status = status
  BY <1>3, <1>4 DEF transitionDepositStatus, DepositRow
<1>5. deposits'[d].status \in {"provider_pending", "provider_succeeded", "provider_failed"}
  BY <1>4 DEF depositCall, markDepositProviderPending, markDepositProviderSucceeded, failDeposit
<1> QED
  BY <1>2, <1>5, StatusOf DEF MovedOn

LEMMA WithdrawalCallMoves ==
    ASSUME TypeOK, NEW w \in WithdrawalIds, NEW call, NEW ref \in Refs,
           withdrawalCall(w, call, ref), UNCHANGED deposits
    PROVE  Next /\ (call \in {"submitted", "failed"} => MovedOn(w)')
<1>0. NoAdmin \in Admins \cup {NoAdmin} /\ ref \in Refs \cup {NoRef} /\ "automated" \in Channels
  BY DEF Channels
<1>1. WithdrawalStep(w)
  BY <1>0 DEF withdrawalCall, WithdrawalStep
<1>2. Next
  BY <1>1 DEF Next
<1>3. /\ "provider_submitted" \in WithdrawalStatuses
      /\ "provider_failed" \in WithdrawalStatuses
  BY DEF WithdrawalStatuses
<1>4. ASSUME call = "submitted" PROVE withdrawals'[w].status = "provider_submitted"
  BY <1>0, <1>3, <1>4, ReviewedEdge DEF withdrawalCall, markWithdrawalProviderSubmitted
<1>5. ASSUME call = "failed" PROVE withdrawals'[w].status = "provider_failed"
  BY <1>0, <1>3, <1>5, ReviewedEdge DEF withdrawalCall, markWithdrawalProviderFailed
<1> QED
  BY <1>2, <1>4, <1>5, StatusOf DEF MovedOn

\* A first call that is ignored found an order that had moved on.
LEMMA IgnoredHasMoved ==
    ASSUME OutboxInv, NEW o, InOutbox(o), NEW todo, FirstCall(o, todo),
           \/ o \in DepositIds /\ depositCallIgnored(o, Head(todo))
           \/ o \in WithdrawalIds /\ withdrawalCallIgnored(o, Head(todo))
    PROVE  MovedOn(o)
<1>1. CASE o \in DepositIds
  <2>1. o \notin WithdrawalIds /\ statusOf(o) = deposits[o].status
    BY <1>1, OrderIdsAssumption, StatusOf
  <2>2. deposits[o].status \notin {"none", "approved"}
    BY <1>1, OutboxStatus
  <2>3. depositCallIgnored(o, Head(todo)) /\ Head(todo) \in {"succeeded", "failed", "pending"}
    BY <1>1, <2>1 DEF FirstCall
  <2> QED
    BY <2>1, <2>2, <2>3 DEF depositCallIgnored, MovedOn
<1>2. CASE o \in WithdrawalIds
  <2>1. o \notin DepositIds /\ statusOf(o) = withdrawals[o].status
    BY <1>2, OrderIdsAssumption, StatusOf
  <2>2. withdrawals[o].status \notin {"none", "requested"}
    BY <1>2, OutboxStatus DEF HandedOut
  <2>3. withdrawalCallIgnored(o, Head(todo)) /\ Head(todo) \in {"submitted", "failed"}
    BY <1>2, <2>1 DEF FirstCall
  <2> QED
    BY <2>1, <2>2, <2>3 DEF withdrawalCallIgnored, MovedOn
<1> QED
  BY <1>1, <1>2

\* The scan goes through the order services too.
LEMMA ScanIsService ==
    ASSUME NEW o \in OrderIds, scanApplies(o)
    PROVE  Next
<1>1. scanReference(o) \in Refs \cup {NoRef}
  BY OutboundAssumption DEF scanReference
<1>2. CASE o \in DepositIds
  <2>1. DepositStep(o) /\ UNCHANGED withdrawals
    BY <1>1, <1>2 DEF scanApplies, scanDeposit, DepositStep
  <2> QED
    BY <1>2, <2>1 DEF Next
<1>3. CASE o \notin DepositIds
  <2>1. WithdrawalStep(o) /\ UNCHANGED deposits
    BY <1>1, <1>3 DEF scanApplies, scanWithdrawal, WithdrawalStep
  <2> QED
    BY <1>3, <2>1 DEF Next
<1> QED
  BY <1>2, <1>3

\* An answer of the provider leads to a first call.
LEMMA AnswerCalls ==
    ASSUME NEW answer \in Answers, NEW o
    PROVE  /\ o \in DepositIds => FirstCall(o, syncDepositOrder(answer))
           /\ o \notin DepositIds => FirstCall(o, syncWithdrawalOrder(answer))
<1>1. /\ syncDepositOrder(answer) # <<>>
      /\ Head(syncDepositOrder(answer)) \in {"succeeded", "failed", "pending"}
  BY DEF syncDepositOrder
<1>2. /\ syncWithdrawalOrder(answer) # <<>>
      /\ Head(syncWithdrawalOrder(answer)) \in {"submitted", "failed"}
  BY DEF syncWithdrawalOrder
<1> QED
  BY <1>1, <1>2 DEF FirstCall

-----------------------------------------------------------------------------
\* A worker's row, taken apart and put together.
LEMMA OldRow ==
    ASSUME OutboxInv, NEW k \in Workers
    PROVE  \E phase, order, batch, todo, seen :
               /\ worker[k] = RowOf(phase, order, batch, todo, seen)
               /\ worker[k].phase = phase /\ worker[k].order = order
               /\ worker[k].batch = batch /\ worker[k].todo = todo /\ worker[k].seen = seen
               /\ PartsOK(phase, order, batch, todo, seen)
BY DEF OutboxInv, WorkersOK, WorkerOK

LEMMA NewRow ==
    ASSUME NEW phase, NEW order, NEW batch, NEW todo, NEW seen,
           PartsOK(phase, order, batch, todo, seen)',
           NEW row, row = RowOf(phase, order, batch, todo, seen)
    PROVE  WorkerOK(row)'
<1>1. /\ row.phase = phase /\ row.order = order /\ row.batch = batch
      /\ row.todo = todo /\ row.seen = seen
  BY DEF RowOf
<1>2. RowOf(row.phase, row.order, row.batch, row.todo, row.seen)' = row
  BY <1>1 DEF RowOf
<1>3. PartsOK(row.phase, row.order, row.batch, row.todo, row.seen)'
  BY <1>1
<1> QED
  BY <1>2, <1>3 DEF WorkerOK

\* The rows the worker's steps build.
LEMMA WorkingRows ==
    ASSUME NEW none, none = NoWithdrawal, NEW o, NEW batch
    PROVE  /\ Idle = RowOf("idle", NoOrder, {}, <<>>, none)
           /\ between(batch) = RowOf("next", NoOrder, batch, <<>>, none)
           /\ sending(o, batch) = RowOf("send", o, batch, <<>>, none)
BY Zenon DEF Idle, between, sending, workingAt, RowOf

LEMMA AnsweredRow ==
    ASSUME NEW k, NEW phase, NEW order, NEW batch, NEW todo, NEW seen,
           worker[k] = RowOf(phase, order, batch, todo, seen),
           worker[k].order = order, NEW answer
    PROVE  /\ order \in DepositIds => answered(k, answer) =
                  RowOf("sync", order, batch, syncDepositOrder(answer), seen)
           /\ order \notin DepositIds => answered(k, answer) =
                  RowOf("record", order, batch, syncWithdrawalOrder(answer), withdrawals[order])
<1> DEFINE r0 == worker[k]
           topUp == syncDepositOrder(answer)
           payout == syncWithdrawalOrder(answer)
           read == withdrawals[order]
           s1 == [r0 EXCEPT !.phase = "sync"]
           s2 == [s1 EXCEPT !.todo = topUp]
           r1 == [r0 EXCEPT !.phase = "record"]
           r2 == [r1 EXCEPT !.todo = payout]
           r3 == [r2 EXCEPT !.seen = read]
<1>1. order \in DepositIds => answered(k, answer) = s2
  BY Zenon DEF answered, goTo
<1>2. order \notin DepositIds => answered(k, answer) = r3
  BY Zenon DEF answered, goTo
<1>3. /\ r0 = RowOf(phase, order, batch, todo, seen)
      /\ s1 = [r0 EXCEPT !.phase = "sync"]
      /\ s2 = [s1 EXCEPT !.todo = topUp]
      /\ r1 = [r0 EXCEPT !.phase = "record"]
      /\ r2 = [r1 EXCEPT !.todo = payout]
      /\ r3 = [r2 EXCEPT !.seen = read]
  OBVIOUS
<1> HIDE DEF r0, topUp, payout, read, s1, s2, r1, r2, r3
<1>4. /\ s1 = RowOf("sync", order, batch, todo, seen)
      /\ r1 = RowOf("record", order, batch, todo, seen)
  BY <1>3 DEF RowOf
<1>5. s2 = RowOf("sync", order, batch, topUp, seen) /\ r2 = RowOf("record", order, batch, payout, seen)
  BY <1>3, <1>4 DEF RowOf
<1>6. r3 = RowOf("record", order, batch, payout, read)
  BY <1>3, <1>5 DEF RowOf
<1> QED
  BY <1>1, <1>2, <1>5, <1>6 DEF topUp, payout, read

LEMMA PartsHeld ==
    ASSUME OutboxInv, OrdersAdvance, NEW phase, NEW order, NEW batch, NEW todo, NEW seen,
           PartsOK(phase, order, batch, todo, seen)
    PROVE  PartsOK(phase, order, batch, todo, seen)'
<1>1. PICK row : row = RowOf(phase, order, batch, todo, seen)
  OBVIOUS
<1>2. /\ row.phase = phase /\ row.order = order /\ row.batch = batch
      /\ row.todo = todo /\ row.seen = seen
  BY <1>1 DEF RowOf
<1>3. WorkerOK(row)
  BY <1>1, <1>2 DEF WorkerOK
<1>4. WorkerOK(row)'
  BY <1>3, OrdersHeldForGood
<1> QED
  BY <1>2, <1>4 DEF WorkerOK

-----------------------------------------------------------------------------
(***************************************************************************)
(* Steps that change one worker and neither the orders nor the outbox.     *)
(***************************************************************************)
LEMMA WorkerOnlyStep ==
    ASSUME OutboxInv, UNCHANGED vars, placed \subseteq placed',
           \A p \in placed' : p \in placed \/ \E o \in OrderIds : p = [order |-> o, key |-> <<o, 1>>],
           NEW k \in Workers, NEW row, worker' = [worker EXCEPT ![k] = row],
           NEW phase, NEW order, NEW batch, NEW todo, NEW seen,
           PartsOK(phase, order, batch, todo, seen)',
           row = RowOf(phase, order, batch, todo, seen)
    PROVE  OutboxInv'
<1>1. OrdersAdvance /\ ReviewInv' /\ OutboxOK'
  BY ServiceStep
<1>2. WorkerOK(row)'
  BY NewRow
<1>3. WorkersOK'
  BY <1>1, <1>2, WorkersAfter
<1> QED
  BY <1>1, <1>3 DEF OutboxInv

LEMMA ClaimKeeps ==
    ASSUME OutboxInv, NEW k \in Workers, claimDuePaymentOutboundRequests(k)
    PROVE  OutboxInv'
<1>1. PICK due \in (SUBSET {o \in OrderIds : outbound[o] \in dueStatuses}) \ {{}} :
        /\ worker' = [worker EXCEPT ![k] = between(due)]
        /\ outbound' = [o \in OrderIds |-> IF o \in due THEN "sending" ELSE outbound[o]]
  BY DEF claimDuePaymentOutboundRequests
<1>2. UNCHANGED orderVars /\ UNCHANGED placed
  BY DEF claimDuePaymentOutboundRequests
<1>3. /\ outbound \in [OrderIds -> SendStatuses]
      /\ outbound' \in [OrderIds -> SendStatuses]
  BY <1>1 DEF OutboxInv, ReviewInv, TypeOK, SendStatuses
<1>4. \A o \in OrderIds :
        \/ outbound'[o] = outbound[o]
        \/ outbound[o] # "none" /\ outbound'[o] = "sending"
  BY <1>1 DEF dueStatuses
<1>5. OrdersAdvance /\ ReviewInv' /\ OutboxOK'
  BY <1>2, <1>3, <1>4, OutboxStep
<1>6. PICK row : row = between(due)
  OBVIOUS
<1>7. PICK none : none = NoWithdrawal
  OBVIOUS
<1>8. row = RowOf("next", NoOrder, due, <<>>, none)
  BY <1>6, <1>7, WorkingRows
<1>9. \A o \in due : InOutbox(o)'
  BY <1>1 DEF InOutbox
<1>10. PartsOK("next", NoOrder, due, <<>>, none)'
  BY <1>9 DEF PartsOK
<1>11. WorkerOK(row)'
  BY <1>8, <1>10, NewRow
<1>12. WorkersOK'
  BY <1>1, <1>5, <1>6, <1>11, WorkersAfter
<1> QED
  BY <1>5, <1>12 DEF OutboxInv

(***************************************************************************)
(* The row is updated by id, to "sent" only after a placed order moved on. *)
(***************************************************************************)
LEMMA MarkKeeps ==
    ASSUME OutboxInv, NEW k \in Workers,
           \/ markOutboundRequestSent(k)
           \/ markOutboundRequestUnknown(k)
           \/ markOutboundRequestFailed(k)
    PROVE  OutboxInv'
<1>1. PICK phase, o, batch, todo, seen :
               /\ worker[k] = RowOf(phase, o, batch, todo, seen)
               /\ worker[k].phase = phase /\ worker[k].order = o
               /\ worker[k].batch = batch /\ worker[k].todo = todo /\ worker[k].seen = seen
               /\ PartsOK(phase, o, batch, todo, seen)
  BY OldRow
<1>2. PICK status \in {"sent", "unknown", "failed"} :
          /\ markOutboundRequest(k, status)
          /\ phase \in {"sync", "retry", "giveUp"}
          /\ status = "sent" => phase = "sync" /\ todo = <<>>
  BY <1>1 DEF markOutboundRequestSent, markOutboundRequestUnknown, markOutboundRequestFailed
<1>3. /\ outbound' = [outbound EXCEPT ![o] = status]
      /\ worker' = [worker EXCEPT ![k] = between(batch)]
      /\ UNCHANGED orderVars /\ UNCHANGED placed
  BY <1>1, <1>2 DEF markOutboundRequest
<1>4. /\ InOutbox(o)
      /\ status = "sent" => IsPlaced(o) /\ MovedOn(o)
  BY <1>1, <1>2 DEF PartsOK, FirstCall
<1>5. outbound \in [OrderIds -> SendStatuses] /\ o \in OrderIds
  BY <1>4 DEF OutboxInv, ReviewInv, TypeOK, InOutbox
<1>6. outbound' \in [OrderIds -> SendStatuses]
  BY <1>3, <1>5 DEF SendStatuses
<1>7. \A p \in OrderIds :
        \/ outbound'[p] = outbound[p]
        \/ /\ outbound[p] # "none" /\ outbound'[p] # "none"
           /\ outbound'[p] = "sent" => IsPlaced(p) /\ MovedOn(p)
  <2> SUFFICES ASSUME NEW p \in OrderIds
               PROVE  \/ outbound'[p] = outbound[p]
                      \/ /\ outbound[p] # "none" /\ outbound'[p] # "none"
                         /\ outbound'[p] = "sent" => IsPlaced(p) /\ MovedOn(p)
    OBVIOUS
  <2>1. CASE p = o
    <3>1. outbound'[p] = status /\ outbound[p] # "none"
      BY <1>3, <1>4, <1>5, <2>1 DEF InOutbox
    <3> QED
      BY <3>1, <1>4, <2>1
  <2>2. CASE p # o
    BY <1>3, <1>5, <2>2
  <2> QED
    BY <2>1, <2>2
<1>8. OrdersAdvance /\ ReviewInv' /\ OutboxOK'
  BY <1>3, <1>6, <1>7, OutboxStep
<1>9. PICK row, none : row = between(batch) /\ none = NoWithdrawal
  OBVIOUS
<1>10. row = RowOf("next", NoOrder, batch, <<>>, none)
  BY <1>9, WorkingRows
<1>11. PartsOK("next", NoOrder, batch, <<>>, none)'
  BY <1>1, <1>8, OrdersHeldForGood DEF PartsOK
<1>12. WorkerOK(row)'
  BY <1>10, <1>11, NewRow
<1>13. WorkersOK'
  BY <1>3, <1>8, <1>9, <1>12, WorkersAfter
<1> QED
  BY <1>8, <1>13 DEF OutboxInv

LEMMA RecoverKeeps ==
    ASSUME OutboxInv, NEW o \in OrderIds, recoverStuckPaymentOutboundRequests(o)
    PROVE  OutboxInv'
<1>1. /\ outbound' = [outbound EXCEPT ![o] = "unknown"]
      /\ outbound[o] = "sending"
      /\ UNCHANGED orderVars /\ UNCHANGED placed /\ UNCHANGED worker
  BY DEF recoverStuckPaymentOutboundRequests
<1>2. outbound \in [OrderIds -> SendStatuses]
  BY DEF OutboxInv, ReviewInv, TypeOK
<1>3. /\ outbound' \in [OrderIds -> SendStatuses]
      /\ \A p \in OrderIds : \/ outbound'[p] = outbound[p]
                             \/ outbound[p] # "none" /\ outbound'[p] = "unknown"
  BY <1>1, <1>2 DEF SendStatuses
<1>4. OrdersAdvance /\ ReviewInv' /\ OutboxOK'
  BY <1>1, <1>3, OutboxStep
<1> QED
  BY <1>1, <1>4, WorkersKept DEF OutboxInv

LEMMA RecordKeeps ==
    ASSUME OutboxInv, NEW k \in Workers, updateWithdrawalProviderResponse(k)
    PROVE  OutboxInv'
<1>1. OrdersAdvance /\ ReviewInv' /\ OutboxOK'
  BY RecordStep
<1>2. PICK phase, o, batch, todo, seen :
               /\ worker[k] = RowOf(phase, o, batch, todo, seen)
               /\ worker[k].phase = phase /\ worker[k].order = o
               /\ worker[k].batch = batch /\ worker[k].todo = todo /\ worker[k].seen = seen
               /\ PartsOK(phase, o, batch, todo, seen)
  BY OldRow
<1>3. PICK none, gone, row : /\ none = NoWithdrawal
                             /\ gone = goTo(k, "sync")
                             /\ row = [gone EXCEPT !.seen = none]
  OBVIOUS
<1>4. row = RowOf("sync", o, batch, todo, none)
  <2>1. gone = RowOf("sync", o, batch, todo, seen)
    BY <1>2, <1>3 DEF goTo, RowOf
  <2> QED
    BY <1>3, <2>1 DEF RowOf
<1>5. PartsOK("record", o, batch, todo, seen)'
  BY <1>1, <1>2, PartsHeld DEF updateWithdrawalProviderResponse
<1>6. PartsOK("sync", o, batch, todo, none)'
  BY <1>5 DEF PartsOK
<1>7. WorkerOK(row)'
  BY <1>4, <1>6, NewRow
<1>8. WorkersOK'
  BY <1>1, <1>3, <1>7, WorkersAfter DEF updateWithdrawalProviderResponse
<1> QED
  BY <1>1, <1>8 DEF OutboxInv

LEMMA NextClaimedKeeps ==
    ASSUME OutboxInv, NEW k \in Workers, nextClaimed(k)
    PROVE  OutboxInv'
<1>1. PICK phase, old, batch, todo, seen :
               /\ worker[k] = RowOf(phase, old, batch, todo, seen)
               /\ worker[k].phase = phase /\ worker[k].order = old
               /\ worker[k].batch = batch /\ worker[k].todo = todo /\ worker[k].seen = seen
               /\ PartsOK(phase, old, batch, todo, seen)
  BY OldRow
<1>2. PICK o \in batch : worker' = [worker EXCEPT ![k] = sending(o, batch \ {o})]
  BY <1>1 DEF nextClaimed
<1>3. UNCHANGED vars /\ UNCHANGED placed
  BY DEF nextClaimed
<1>4. PICK rest, row, none : /\ rest = batch \ {o}
                             /\ row = sending(o, rest)
                             /\ none = NoWithdrawal
  OBVIOUS
<1>5. row = RowOf("send", o, rest, <<>>, none)
  BY <1>4, WorkingRows
<1>6. \A p \in batch : InOutbox(p)'
  BY <1>1, <1>3 DEF PartsOK, InOutbox, vars
<1>7. PartsOK("send", o, rest, <<>>, none)'
  BY <1>4, <1>6 DEF PartsOK
<1>8. worker' = [worker EXCEPT ![k] = row]
  BY <1>2, <1>4
<1> QED
  BY <1>3, <1>5, <1>7, <1>8, WorkerOnlyStep

LEMMA IdleKeeps ==
    ASSUME OutboxInv, NEW k \in Workers, batchDone(k) \/ dispatcherCrash(k)
    PROVE  OutboxInv'
<1>1. /\ worker' = [worker EXCEPT ![k] = Idle]
      /\ UNCHANGED vars /\ UNCHANGED placed
  BY DEF batchDone, dispatcherCrash
<1>2. PICK row, none : row = Idle /\ none = NoWithdrawal
  OBVIOUS
<1>3. row = RowOf("idle", NoOrder, {}, <<>>, none)
  BY <1>2, WorkingRows
<1>4. PartsOK("idle", NoOrder, {}, <<>>, none)'
  BY DEF PartsOK
<1>5. worker' = [worker EXCEPT ![k] = row]
  BY <1>1, <1>2
<1> QED
  BY <1>1, <1>3, <1>4, <1>5, WorkerOnlyStep

(***************************************************************************)
(* The metadata a worker reads before it records the provider's response.  *)
(***************************************************************************)
LEMMA ReadMetadata ==
    ASSUME OutboxInv, NEW w \in WithdrawalIds, InOutbox(w), NEW seen, seen = withdrawals[w]
    PROVE  SeenOK(w, seen)
<1>1. /\ withdrawals[w] \in WithdrawalRow
      /\ outbound[w] # "none"
      /\ ReviewSound(withdrawals[w], outbound[w])
  BY DEF OutboxInv, ReviewInv, TypeOK, WithdrawalsTypeOK, InOutbox
<1> QED
  BY <1>1 DEF SeenOK, ReviewSound, WithdrawalRow

LEMMA AnswersKeeps ==
    ASSUME OutboxInv, NEW k \in Workers, NEW answer \in Answers, providerAnswers(k, answer)
    PROVE  OutboxInv'
<1>1. PICK phase, o, batch, todo, seen :
               /\ worker[k] = RowOf(phase, o, batch, todo, seen)
               /\ worker[k].phase = phase /\ worker[k].order = o
               /\ worker[k].batch = batch /\ worker[k].todo = todo /\ worker[k].seen = seen
               /\ PartsOK(phase, o, batch, todo, seen)
  BY OldRow
<1>2. /\ phase = "send"
      /\ placed' = placed \cup {[order |-> o, key |-> <<o, 1>>]}
      /\ worker' = [worker EXCEPT ![k] = answered(k, answer)]
      /\ UNCHANGED vars
  BY <1>1 DEF providerAnswers, buildIdempotencyKey
<1>3. InOutbox(o) /\ o \in OrderIds
  BY <1>1, <1>2 DEF PartsOK, InOutbox
<1>4. /\ placed \subseteq placed'
      /\ \A p \in placed' : p \in placed \/ \E q \in OrderIds : p = [order |-> q, key |-> <<q, 1>>]
      /\ IsPlaced(o)'
  <2>1. PICK p : p = [order |-> o, key |-> <<o, 1>>]
    OBVIOUS
  <2>2. placed' = placed \cup {p} /\ p.order = o
    BY <1>2, <2>1
  <2> QED
    BY <1>3, <2>1, <2>2 DEF IsPlaced
<1>5. InOutbox(o)' /\ \A p \in batch : InOutbox(p)'
  BY <1>1, <1>2, <1>3 DEF PartsOK, InOutbox, vars
<1>6. PICK row : row = answered(k, answer)
  OBVIOUS
<1>7. worker' = [worker EXCEPT ![k] = row]
  BY <1>2, <1>6
<1>8. CASE o \in DepositIds
  <2>1. PICK calls : calls = syncDepositOrder(answer)
    OBVIOUS
  <2>2. row = RowOf("sync", o, batch, calls, seen)
    BY <1>1, <1>6, <1>8, <2>1, AnsweredRow
  <2>3. FirstCall(o, calls)
    BY <1>8, <2>1, AnswerCalls
  <2>4. PartsOK("sync", o, batch, calls, seen)'
    BY <1>4, <1>5, <2>3 DEF PartsOK, FirstCall
  <2> QED
    BY <1>2, <1>4, <1>7, <2>2, <2>4, WorkerOnlyStep
<1>9. CASE o \notin DepositIds
  <2>1. PICK calls, read : calls = syncWithdrawalOrder(answer) /\ read = withdrawals[o]
    OBVIOUS
  <2>2. row = RowOf("record", o, batch, calls, read)
    BY <1>1, <1>6, <1>9, <2>1, AnsweredRow
  <2>3. FirstCall(o, calls)
    BY <1>9, <2>1, AnswerCalls
  <2>4. o \in WithdrawalIds /\ SeenOK(o, read)
    BY <1>3, <1>9, <2>1, ReadMetadata
  <2>5. SeenOK(o, read)'
    BY <1>2, <2>4 DEF SeenOK, vars
  <2>6. PartsOK("record", o, batch, calls, read)'
    BY <1>4, <1>5, <2>3, <2>4, <2>5 DEF PartsOK, FirstCall
  <2> QED
    BY <1>2, <1>4, <1>7, <2>2, <2>6, WorkerOnlyStep
<1> QED
  BY <1>8, <1>9

LEMMA FailsKeeps ==
    ASSUME OutboxInv, NEW k \in Workers, NEW next \in {"retry", "giveUp"},
           providerCallFails(k, next) \/ (syncThrows(k) /\ next = "giveUp")
    PROVE  OutboxInv'
<1>1. PICK phase, o, batch, todo, seen :
               /\ worker[k] = RowOf(phase, o, batch, todo, seen)
               /\ worker[k].phase = phase /\ worker[k].order = o
               /\ worker[k].batch = batch /\ worker[k].todo = todo /\ worker[k].seen = seen
               /\ PartsOK(phase, o, batch, todo, seen)
  BY OldRow
<1>2. /\ phase \in {"send", "sync"}
      /\ placed' \in {placed, placed \cup {[order |-> o, key |-> <<o, 1>>]}}
      /\ worker' = [worker EXCEPT ![k] = goTo(k, next)]
      /\ UNCHANGED vars
  BY <1>1 DEF providerCallFails, syncThrows, buildIdempotencyKey
<1>3. InOutbox(o) /\ o \in OrderIds
  BY <1>1, <1>2 DEF PartsOK, InOutbox
<1>4. /\ placed \subseteq placed'
      /\ \A p \in placed' : p \in placed \/ \E q \in OrderIds : p = [order |-> q, key |-> <<q, 1>>]
  <2>1. PICK p : p = [order |-> o, key |-> <<o, 1>>]
    OBVIOUS
  <2>2. placed' = placed \/ placed' = placed \cup {p}
    BY <1>2, <2>1
  <2> QED
    BY <1>3, <2>1, <2>2
<1>5. PICK row : row = goTo(k, next)
  OBVIOUS
<1>6. row = RowOf(next, o, batch, todo, seen)
  BY <1>1, <1>5 DEF goTo, RowOf
<1>7. InOutbox(o)' /\ \A p \in batch : InOutbox(p)'
  BY <1>1, <1>2, <1>3 DEF PartsOK, InOutbox, vars
<1>8. PartsOK(next, o, batch, todo, seen)'
  BY <1>7 DEF PartsOK
<1>9. worker' = [worker EXCEPT ![k] = row]
  BY <1>2, <1>5
<1> QED
  BY <1>2, <1>4, <1>6, <1>8, <1>9, WorkerOnlyStep

(***************************************************************************)
(* One call less to make.                                                  *)
(***************************************************************************)
LEMMA OneOrderCallLess ==
    ASSUME NEW k, NEW phase, NEW order, NEW batch, NEW todo, NEW seen,
           worker[k] = RowOf(phase, order, batch, todo, seen)
    PROVE  \E left, row : row = called(k) /\ row = RowOf(phase, order, batch, left, seen)
<1>1. PICK old, left : old = worker[k] /\ left = Tail(worker[k].todo)
  OBVIOUS
<1>2. PICK row : row = [old EXCEPT !.todo = left]
  OBVIOUS
<1>3. old = RowOf(phase, order, batch, todo, seen)
  BY <1>1
<1>4. row = RowOf(phase, order, batch, left, seen)
  BY <1>2, <1>3 DEF RowOf
<1>5. row = called(k)
  BY <1>1, <1>2, Zenon DEF called
<1> QED
  BY <1>4, <1>5

LEMMA IgnoredKeeps ==
    ASSUME OutboxInv, NEW k \in Workers, syncIgnored(k)
    PROVE  OutboxInv'
<1>1. PICK phase, o, batch, todo, seen :
               /\ worker[k] = RowOf(phase, o, batch, todo, seen)
               /\ worker[k].phase = phase /\ worker[k].order = o
               /\ worker[k].batch = batch /\ worker[k].todo = todo /\ worker[k].seen = seen
               /\ PartsOK(phase, o, batch, todo, seen)
  BY OldRow
<1>2. /\ phase = "sync"
      /\ \/ o \in DepositIds /\ depositCallIgnored(o, Head(todo))
         \/ o \in WithdrawalIds /\ withdrawalCallIgnored(o, Head(todo))
      /\ worker' = [worker EXCEPT ![k] = called(k)]
      /\ UNCHANGED vars /\ UNCHANGED placed
  BY <1>1 DEF syncIgnored
<1>3. InOutbox(o) /\ o \in OrderIds /\ IsPlaced(o)
  BY <1>1, <1>2 DEF PartsOK, InOutbox
<1>4. MovedOn(o)
  BY <1>1, <1>2, <1>3, IgnoredHasMoved DEF PartsOK
<1>5. PICK left, row : row = called(k) /\ row = RowOf(phase, o, batch, left, seen)
  BY <1>1, OneOrderCallLess
<1>6. MovedOn(o)' /\ InOutbox(o)' /\ IsPlaced(o)' /\ \A p \in batch : InOutbox(p)'
  BY <1>1, <1>2, <1>3, <1>4 DEF PartsOK, InOutbox, MovedOn, statusOf, IsPlaced, vars
<1>7. PartsOK(phase, o, batch, left, seen)'
  BY <1>2, <1>6 DEF PartsOK
<1> QED
  <2>1. worker' = [worker EXCEPT ![k] = row]
    BY <1>2, <1>5
  <2>2. row = RowOf(phase, o, batch, left, seen)
    BY <1>5
  <2> QED
    BY <1>2, <1>7, <2>1, <2>2, WorkerOnlyStep

LEMMA CommitsKeeps ==
    ASSUME OutboxInv, NEW k \in Workers, syncCommits(k)
    PROVE  OutboxInv'
<1>1. PICK phase, o, batch, todo, seen :
               /\ worker[k] = RowOf(phase, o, batch, todo, seen)
               /\ worker[k].phase = phase /\ worker[k].order = o
               /\ worker[k].batch = batch /\ worker[k].todo = todo /\ worker[k].seen = seen
               /\ PartsOK(phase, o, batch, todo, seen)
  BY OldRow
<1>2. PICK call, ref : call = Head(todo) /\ ref = ProviderOrderId[o]
  OBVIOUS
<1>3. /\ phase = "sync"
      /\ \/ o \in DepositIds /\ depositCall(o, call, ref) /\ UNCHANGED withdrawals
         \/ o \in WithdrawalIds /\ withdrawalCall(o, call, ref) /\ UNCHANGED deposits
      /\ worker' = [worker EXCEPT ![k] = called(k)]
      /\ UNCHANGED placed
  BY <1>1, <1>2 DEF syncCommits
<1>4. InOutbox(o) /\ o \in OrderIds /\ IsPlaced(o) /\ (FirstCall(o, todo) \/ MovedOn(o))
  BY <1>1, <1>3 DEF PartsOK, InOutbox
<1>5. ref \in Refs
  BY <1>2, <1>4, OutboundAssumption
<1>6. TypeOK
  BY DEF OutboxInv, ReviewInv
<1>7. /\ Next
      /\ o \in DepositIds => MovedOn(o)'
      /\ o \in WithdrawalIds /\ call \in {"submitted", "failed"} => MovedOn(o)'
  <2>1. ASSUME o \in DepositIds, depositCall(o, call, ref), UNCHANGED withdrawals
        PROVE  Next /\ MovedOn(o)' /\ o \notin WithdrawalIds
    BY <1>5, <1>6, <2>1, DepositCallMoves, OrderIdsAssumption
  <2>2. ASSUME o \in WithdrawalIds, withdrawalCall(o, call, ref), UNCHANGED deposits
        PROVE  /\ Next
               /\ call \in {"submitted", "failed"} => MovedOn(o)'
               /\ o \notin DepositIds
    BY <1>5, <1>6, <2>2, WithdrawalCallMoves, OrderIdsAssumption
  <2> QED
    BY <1>3, <2>1, <2>2
<1>8. OrdersAdvance /\ ReviewInv' /\ OutboxOK'
  <2>1. /\ placed \subseteq placed'
        /\ \A p \in placed' : p \in placed \/ \E q \in OrderIds : p = [order |-> q, key |-> <<q, 1>>]
    BY <1>3
  <2> QED
    BY <1>7, <2>1, ServiceStep
<1>9. MovedOn(o)'
  <2>1. MovedOn(o) => MovedOn(o)'
    BY <1>4, <1>8, OrdersHeldForGood
  <2>2. FirstCall(o, todo) /\ o \notin DepositIds => call \in {"submitted", "failed"}
    BY <1>2 DEF FirstCall
  <2> QED
    BY <1>4, <1>7, <2>1, <2>2
<1>10. InOutbox(o)' /\ IsPlaced(o)' /\ \A p \in batch : InOutbox(p)'
  BY <1>1, <1>4, <1>8, OrdersHeldForGood DEF PartsOK
<1>11. PICK left, row : row = called(k) /\ row = RowOf(phase, o, batch, left, seen)
  BY <1>1, OneOrderCallLess
<1>12. PartsOK(phase, o, batch, left, seen)'
  BY <1>3, <1>9, <1>10 DEF PartsOK
<1>13. WorkerOK(row)'
  BY <1>11, <1>12, NewRow
<1>14. worker' = [worker EXCEPT ![k] = row]
  BY <1>3, <1>11
<1>15. WorkersOK'
  BY <1>8, <1>13, <1>14, WorkersAfter
<1> QED
  BY <1>8, <1>15 DEF OutboxInv

-----------------------------------------------------------------------------
\* A step of the order services, or none, that leaves the workers alone.
LEMMA OthersKeep ==
    ASSUME OutboxInv, [Next]_vars, UNCHANGED placed, UNCHANGED worker
    PROVE  OutboxInv'
<1>1. /\ placed \subseteq placed'
      /\ \A p \in placed' : p \in placed \/ \E q \in OrderIds : p = [order |-> q, key |-> <<q, 1>>]
  OBVIOUS
<1>2. OrdersAdvance /\ ReviewInv' /\ OutboxOK'
  BY <1>1, ServiceStep
<1>3. WorkersOK'
  BY <1>2, WorkersKept
<1> QED
  BY <1>2, <1>3 DEF OutboxInv

(***************************************************************************)
(* Every step keeps the invariant.                                         *)
(***************************************************************************)
LEMMA OutboxInvInductive == OutboxInv /\ [PaymentOutboundNext]_allVars => OutboxInv'
<1> SUFFICES ASSUME OutboxInv, [PaymentOutboundNext]_allVars PROVE OutboxInv'
  OBVIOUS
<1>1. CASE Next /\ UNCHANGED outboundVars
  BY <1>1, OthersKeep DEF outboundVars
<1>2. ASSUME NEW k \in Workers, WorkerStep(k) PROVE OutboxInv'
  <2>1. CASE claimDuePaymentOutboundRequests(k)
    BY <2>1, ClaimKeeps
  <2>2. CASE nextClaimed(k)
    BY <2>2, NextClaimedKeeps
  <2>3. CASE batchDone(k)
    BY <2>3, IdleKeeps
  <2>4. CASE \E answer \in Answers : providerAnswers(k, answer)
    BY <2>4, AnswersKeeps
  <2>5. CASE \E phase \in {"retry", "giveUp"} : providerCallFails(k, phase)
    BY <2>5, FailsKeeps
  <2>6. CASE updateWithdrawalProviderResponse(k)
    BY <2>6, RecordKeeps
  <2>7. CASE syncCommits(k)
    BY <2>7, CommitsKeeps
  <2>8. CASE syncIgnored(k)
    BY <2>8, IgnoredKeeps
  <2>9. CASE syncThrows(k)
    <3>1. PICK next \in {"retry", "giveUp"} : next = "giveUp"
      OBVIOUS
    <3> QED
      BY <2>9, <3>1, FailsKeeps
  <2>10. CASE \/ markOutboundRequestSent(k)
              \/ markOutboundRequestUnknown(k)
              \/ markOutboundRequestFailed(k)
    BY <2>10, MarkKeeps
  <2> QED
    BY <1>2, <2>1, <2>2, <2>3, <2>4, <2>5, <2>6, <2>7, <2>8, <2>9, <2>10 DEF WorkerStep
<1>3. ASSUME NEW k \in Workers, dispatcherCrash(k) PROVE OutboxInv'
  BY <1>3, IdleKeeps
<1>4. ASSUME NEW o \in OrderIds, recoverStuckPaymentOutboundRequests(o) PROVE OutboxInv'
  BY <1>4, RecoverKeeps
<1>5. ASSUME NEW o \in OrderIds, ScanStep(o) PROVE OutboxInv'
  <2>1. CASE scanApplies(o)
    <3>1. Next
      BY <2>1, ScanIsService
    <3>2. UNCHANGED placed /\ UNCHANGED worker
      BY <2>1 DEF scanApplies
    <3> QED
      BY <3>1, <3>2, OthersKeep
  <2>2. CASE scanSkips(o)
    <3>1. UNCHANGED vars /\ UNCHANGED placed /\ UNCHANGED worker
      BY <2>2 DEF scanSkips
    <3> QED
      BY <3>1, OthersKeep
  <2> QED
    BY <1>5, <2>1, <2>2 DEF ScanStep
<1>6. ASSUME NEW old \in SUBSET OrderIds, scanSnapshot(old) PROVE OutboxInv'
  <2>1. UNCHANGED vars /\ UNCHANGED placed /\ UNCHANGED worker
    BY <1>6 DEF scanSnapshot
  <2> QED
    BY <2>1, OthersKeep
<1>7. CASE UNCHANGED allVars
  <2>1. UNCHANGED vars /\ UNCHANGED placed /\ UNCHANGED worker
    BY <1>7 DEF allVars, outboundVars
  <2> QED
    BY <2>1, OthersKeep
<1> QED
  BY <1>1, <1>2, <1>3, <1>4, <1>5, <1>6, <1>7 DEF PaymentOutboundNext

LEMMA InitOutbox == PaymentOutboundInit => OutboxInv
<1> SUFFICES ASSUME PaymentOutboundInit PROVE OutboxInv
  OBVIOUS
<1>1. ReviewInv
  BY InitReview DEF PaymentOutboundInit
<1>2. OutboxOK
  BY DEF PaymentOutboundInit, Init, DepositsInit, WithdrawalsInit, OutboundInit, OutboxOK
<1>3. WorkersOK
  <2>1. PICK none, row : none = NoWithdrawal /\ row = Idle
    OBVIOUS
  <2>2. row = RowOf("idle", NoOrder, {}, <<>>, none)
    BY <2>1, WorkingRows
  <2>3. WorkerOK(row)
    BY <2>2 DEF WorkerOK, PartsOK, RowOf
  <2>4. worker = [k \in Workers |-> row]
    BY <2>1 DEF PaymentOutboundInit
  <2> QED
    BY <2>3, <2>4 DEF WorkersOK
<1> QED
  BY <1>1, <1>2, <1>3 DEF OutboxInv

-----------------------------------------------------------------------------
(***************************************************************************)
(* However often a delivery times out, a lock expires under a slow worker  *)
(* or a worker restarts, the provider has one order at most for each of    *)
(* ours, and a row marked sent has that order and an order that moved on.  *)
(***************************************************************************)
THEOREM OneProviderOrderAlways == PaymentOutboundSpec => []OneProviderOrder
<1>1. OutboxInv => OneProviderOrder
  <2> SUFFICES ASSUME OutboxInv PROVE OneProviderOrder
    OBVIOUS
  <2>1. ASSUME NEW p \in placed, NEW q \in placed, p.order = q.order PROVE p = q
    BY <2>1 DEF OutboxInv, OutboxOK
  <2>2. ASSUME NEW o \in OrderIds, outbound[o] = "sent"
        PROVE  /\ \E p \in placed : p.order = o
               /\ statusOf(o) \notin {"none", "requested", "approved"}
    BY <2>2 DEF OutboxInv, OutboxOK, IsPlaced, MovedOn
  <2> QED
    BY <2>1, <2>2 DEF OneProviderOrder
<1> QED
  BY InitOutbox, OutboxInvInductive, <1>1, PTL DEF PaymentOutboundSpec

-----------------------------------------------------------------------------
(***************************************************************************)
(* Whatever does not go through the order services (the outbox's own marks *)
(* and the metadata a worker writes back) leaves the books alone.          *)
(***************************************************************************)
SameBooks ==
    /\ UNCHANGED walletVars
    /\ UNCHANGED deposits
    /\ \A w \in WithdrawalIds : /\ withdrawals'[w].status = withdrawals[w].status
                                /\ withdrawals'[w].user = withdrawals[w].user
                                /\ withdrawals'[w].amount = withdrawals[w].amount

LEMMA OutboxMoves ==
    ASSUME OutboxInv, [PaymentOutboundNext]_allVars
    PROVE  [Next]_vars \/ SameBooks
<1>1. ASSUME UNCHANGED orderVars PROVE SameBooks
  BY <1>1 DEF SameBooks, orderVars
<1>2. ASSUME NEW k \in Workers, updateWithdrawalProviderResponse(k) PROVE SameBooks
  <2>1. withdrawals \in [WithdrawalIds -> WithdrawalRow]
    BY DEF OutboxInv, ReviewInv, TypeOK, WithdrawalsTypeOK
  <2>2. PICK o, seen : o = worker[k].order /\ seen = worker[k].seen
    OBVIOUS
  <2>3. withdrawals' = [withdrawals EXCEPT ![o].pendingReview = seen.pendingReview,
                                           ![o].reviewers = seen.reviewers,
                                           ![o].channel = seen.channel]
    BY <1>2, <2>2 DEF updateWithdrawalProviderResponse
  <2>4. \A w \in WithdrawalIds : /\ withdrawals'[w].status = withdrawals[w].status
                                 /\ withdrawals'[w].user = withdrawals[w].user
                                 /\ withdrawals'[w].amount = withdrawals[w].amount
    BY <2>1, <2>3 DEF WithdrawalRow
  <2> QED
    BY <1>2, <2>4 DEF updateWithdrawalProviderResponse, SameBooks
<1>3. ASSUME NEW k \in Workers, syncCommits(k) PROVE Next
  <2>1. PICK o, call, ref : /\ o = worker[k].order
                            /\ call = Head(worker[k].todo)
                            /\ ref = ProviderOrderId[o]
    OBVIOUS
  <2>2. \/ o \in DepositIds /\ depositCall(o, call, ref) /\ UNCHANGED withdrawals
        \/ o \in WithdrawalIds /\ withdrawalCall(o, call, ref) /\ UNCHANGED deposits
    BY <1>3, <2>1 DEF syncCommits
  <2>3. ref \in Refs
    BY <2>1, <2>2, OutboundAssumption
  <2>4. TypeOK
    BY DEF OutboxInv, ReviewInv
  <2> QED
    BY <2>2, <2>3, <2>4, DepositCallMoves, WithdrawalCallMoves
<1>4. ASSUME NEW k \in Workers, WorkerStep(k), ~syncCommits(k),
             ~updateWithdrawalProviderResponse(k)
      PROVE  UNCHANGED orderVars
  BY <1>4 DEF WorkerStep, claimDuePaymentOutboundRequests, nextClaimed, batchDone,
     providerAnswers, providerCallFails, syncIgnored, syncThrows, markOutboundRequestSent,
     markOutboundRequestUnknown, markOutboundRequestFailed, markOutboundRequest, vars, orderVars
<1>5. ASSUME \/ \E k \in Workers : dispatcherCrash(k)
             \/ \E o \in OrderIds : recoverStuckPaymentOutboundRequests(o) \/ scanSkips(o)
             \/ \E old \in SUBSET OrderIds : scanSnapshot(old)
             \/ UNCHANGED allVars
      PROVE  UNCHANGED orderVars
  BY <1>5 DEF dispatcherCrash, recoverStuckPaymentOutboundRequests, scanSkips, scanSnapshot, allVars,
     vars, orderVars
<1>6. ASSUME NEW o \in OrderIds, scanApplies(o) PROVE Next
  BY <1>6, ScanIsService
<1> QED
  BY <1>1, <1>2, <1>3, <1>4, <1>5, <1>6 DEF PaymentOutboundNext, ScanStep

\* The ledger does not see such a step.
LEMMA SameBooksExplained ==
    ASSUME LedgerInv, LedgerIsExplained, TypeOK', SameBooks
    PROVE  LedgerInv' /\ LedgerIsExplained'
<1>1. /\ UNCHANGED <<withdrawable, locked, ledgerWithdrawable, ledgerLocked, mutations>>
      /\ UNCHANGED deposits
  BY DEF SameBooks, walletVars
<1>2. \A w \in WithdrawalIds : Consumed(w)' <=> Consumed(w)
  BY <1>1 DEF Consumed, businessEvent
<1>3. ASSUME NEW u
      PROVE  /\ \A w \in WithdrawalIds : /\ lockedFor(u, w)' = lockedFor(u, w)
                                         /\ paidOutFor(u, w)' = paidOutFor(u, w)
             /\ \A d \in DepositIds : creditedFor(u, d)' = creditedFor(u, d)
  BY <1>1, <1>2 DEF SameBooks, lockedFor, paidOutFor, creditedFor
<1>4. LedgerIsExplained'
  BY <1>1, <1>3 DEF LedgerIsExplained, LockedIsOpenLessRecalled, MoneyConserved
<1>5. MutationsMatchStatus'
  BY <1>1 DEF LedgerInv, MutationsMatchStatus, SameBooks, businessEvent
<1>6. LedgerBacksWallet'
  BY <1>1 DEF LedgerInv, LedgerBacksWallet
<1> QED
  BY <1>4, <1>5, <1>6 DEF LedgerInv

(***************************************************************************)
(* Reviews survive the metadata a slow worker writes back, money stays     *)
(* explained and closed orders stay closed while workers and the scan race *)
(* the admins and each other.                                              *)
(***************************************************************************)
THEOREM OutboxKeepsOrdersSound ==
    PaymentOutboundSpec =>
        /\ [](TwoReviewers /\ RiskRoutedStaysManual)
        /\ [](LedgerIsExplained /\ MutationsMatchStatus /\ LedgerBacksWallet)
        /\ ClosedStaysClosed
<1> DEFINE Inv == OutboxInv /\ LedgerInv /\ LedgerIsExplained
           Keeps ==
             /\ \A w \in WithdrawalIds :
                  /\ withdrawals[w].status \in {"rejected", "reversed"}
                         => withdrawals'[w].status = withdrawals[w].status
                  /\ withdrawals[w].status = "paid"
                         => withdrawals'[w].status \in {"paid", "reversed"}
             /\ \A d \in DepositIds :
                  deposits[d].status \in {"provider_failed", "reversed"}
                      => deposits'[d].status = deposits[d].status
<1>1. PaymentOutboundInit => Inv
  BY InitOutbox, InitLedger, InitExplained DEF PaymentOutboundInit
<1>2. Inv /\ [PaymentOutboundNext]_allVars => Inv' /\ [Keeps]_vars
  <2> SUFFICES ASSUME Inv, [PaymentOutboundNext]_allVars PROVE Inv' /\ Keeps
    OBVIOUS
  <2>1. OutboxInv' /\ TypeOK /\ TypeOK'
    BY OutboxInvInductive DEF OutboxInv, ReviewInv
  <2>2. CASE [Next]_vars
    <3>1. LedgerInv'
      BY <2>2, LedgerInvInductive
    <3>2. LedgerIsExplained'
      BY <2>1, <2>2, LedgerStaysExplained
    <3>3. Keeps
      BY <2>1, <2>2, OrderMoves DEF PayoutEdge, TopUpEdge
    <3> QED
      BY <2>1, <3>1, <3>2, <3>3
  <2>3. CASE SameBooks
    <3>1. LedgerInv' /\ LedgerIsExplained'
      BY <2>1, <2>3, SameBooksExplained
    <3>2. Keeps
      BY <2>3 DEF SameBooks
    <3> QED
      BY <2>1, <3>1, <3>2
  <2> QED
    BY <2>2, <2>3, OutboxMoves
<1>3. Inv => /\ TwoReviewers /\ RiskRoutedStaysManual
             /\ LedgerIsExplained /\ MutationsMatchStatus /\ LedgerBacksWallet
  BY DEF OutboxInv, ReviewInv, ReviewSound, TwoReviewers, RiskRoutedStaysManual, LedgerInv
<1> QED
  BY <1>1, <1>2, <1>3, PTL DEF PaymentOutboundSpec, ClosedStaysClosed
=============================================================================
