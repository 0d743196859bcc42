--------------------------- MODULE PaymentOutbound ---------------------------
(***************************************************************************)
(* The outbox worker that carries orders to their payment provider and the *)
(* operations scan that closes stale orders, running beside the reviewers  *)
(* and webhooks of FinanceOrders.                                          *)
(*                                                                         *)
(* A worker claims rows in one statement, then takes one step per database *)
(* transaction or provider call, so everything else may happen in between; *)
(* no step reads the row's send_status or, before the order services do,   *)
(* the order's status.  It may stop at any point and leave rows in         *)
(* "sending"; recoverStuckPaymentOutboundRequests gives them back after a  *)
(* timeout, whether or not the first worker is still at work.              *)
(***************************************************************************)
EXTENDS FinanceOrders, Sequences

CONSTANTS
    Workers,            \* processes running the outbound dispatcher
    NoOrder,
    ProviderOrderId,    \* the reference the provider gives each order
    SystemReference,    \* the reference the operations scan gives each order
    MaxFaults           \* bound on timeouts, crashes and slow workers

ASSUME OutboundAssumption ==
    /\ NoOrder \notin OrderIds
    /\ ProviderOrderId \in [OrderIds -> Refs]
    /\ SystemReference \in [OrderIds -> Refs]
    /\ MaxFaults \in Nat

VARIABLES
    worker,     \* what each worker is doing
    attempts,   \* payment_outbound_requests.attempt_count
    placed,     \* orders created at the provider, by idempotency key
    scan,       \* the scan's snapshot: the status it read, "none" if not listed
    faults      \* timeouts, crashes and slow workers so far

outboundVars == <<worker, attempts, placed, scan, faults>>

orderVars == <<walletVars, withdrawals, deposits>>

allVars == <<vars, outboundVars>>

\* A worker before an answer: idle, between two rows of its batch, at one of them.
workingAt(phase, o, batch) ==
    [phase |-> phase, order |-> o, batch |-> batch, todo |-> <<>>, seen |-> NoWithdrawal]

Idle == workingAt("idle", NoOrder, {})

between(batch) == workingAt("next", NoOrder, batch)

sending(o, batch) == workingAt("send", o, batch)

PaymentOutboundInit ==
    /\ Init
    /\ worker = [k \in Workers |-> Idle]
    /\ attempts = [o \in OrderIds |-> 0]
    /\ placed = {}
    /\ scan = [o \in OrderIds |-> "none"]
    /\ faults = 0

-----------------------------------------------------------------------------
dueStatuses == {"prepared", "unknown"}

(***************************************************************************)
(* One statement claims every due row of the batch (FOR UPDATE SKIP        *)
(* LOCKED); whether the retry delay is over is an input.                   *)
(***************************************************************************)
claimDuePaymentOutboundRequests(k) ==
    /\ worker[k].phase = "idle"
    /\ \E due \in (SUBSET {o \in OrderIds : outbound[o] \in dueStatuses}) \ {{}} :
        /\ worker' = [worker EXCEPT ![k] = between(due)]
        /\ outbound' = [o \in OrderIds |-> IF o \in due THEN "sending" ELSE outbound[o]]
        /\ attempts' = [o \in OrderIds |-> attempts[o] + IF o \in due THEN 1 ELSE 0]
    /\ UNCHANGED <<orderVars, placed, scan, faults>>

\* The loop over the claimed rows, and its end.
nextClaimed(k) ==
    /\ worker[k].phase = "next"
    /\ worker[k].batch # {}
    /\ \E o \in worker[k].batch :
        worker' = [worker EXCEPT ![k] = sending(o, worker[k].batch \ {o})]
    /\ UNCHANGED <<vars, attempts, placed, scan, faults>>

batchDone(k) ==
    /\ worker[k].phase = "next"
    /\ worker[k].batch = {}
    /\ worker' = [worker EXCEPT ![k] = Idle]
    /\ UNCHANGED <<vars, attempts, placed, scan, faults>>

\* Mutant: the key changes with every attempt.
buildIdempotencyKeyPerAttempt(o) == <<o, attempts[o]>>

(***************************************************************************)
(* The key is built from the order and the operation, never the attempt.   *)
(***************************************************************************)
buildIdempotencyKey(o) == <<o, 1>>

(***************************************************************************)
(* The calls into the order services that a provider's answer leads to.    *)
(***************************************************************************)
Answers == {"paid", "processing", "pending", "failed"}

syncDepositOrder(answer) ==
    IF answer = "paid" THEN <<"succeeded">>
    ELSE IF answer = "failed" THEN <<"failed">>
    ELSE <<"pending">>

syncWithdrawalOrder(answer) ==
    IF answer = "paid" THEN <<"submitted", "processing", "paid">>
    ELSE IF answer = "processing" THEN <<"submitted", "processing">>
    ELSE IF answer = "failed" THEN <<"failed">>
    ELSE <<"submitted">>

goTo(k, phase) == [worker[k] EXCEPT !.phase = phase]

called(k) == [worker[k] EXCEPT !.todo = Tail(@)]

\* What is left to do for an order the provider accepted: the calls its answer
\* leads to and, for a withdrawal, the response to record.
answered(k, answer) ==
    LET o == worker[k].order
    IN  IF o \in DepositIds
        THEN [goTo(k, "sync") EXCEPT !.todo = syncDepositOrder(answer)]
        ELSE [goTo(k, "record") EXCEPT !.todo = syncWithdrawalOrder(answer),
                                       !.seen = withdrawals[o]]

(***************************************************************************)
(* The adapter call.  The provider keeps one order per idempotency key.    *)
(***************************************************************************)
providerAnswers(k, answer) ==
    LET o == worker[k].order IN
    /\ worker[k].phase = "send"
    /\ placed' = placed \cup {[order |-> o, key |-> buildIdempotencyKey(o)]}
    /\ worker' = [worker EXCEPT ![k] = answered(k, answer)]
    /\ UNCHANGED <<vars, attempts, scan, faults>>

(***************************************************************************)
(* The call throws: a timeout, rate limit or server error leads to another *)
(* attempt, anything else (a refusal, an error the worker does not         *)
(* recognise, a missing provider or adapter) gives up.  The provider may   *)
(* have placed the order all the same.                                     *)
(***************************************************************************)
providerCallFails(k, phase) ==
    LET o == worker[k].order IN
    /\ worker[k].phase = "send"
    /\ placed' \in {placed, placed \cup {[order |-> o, key |-> buildIdempotencyKey(o)]}}
    /\ worker' = [worker EXCEPT ![k] = goTo(k, phase)]
    /\ faults' = IF phase = "retry" THEN faults + 1 ELSE faults
    /\ faults' <= MaxFaults
    /\ UNCHANGED <<vars, attempts, scan>>

\* Mutant: the metadata is replaced instead of extended.
updateWithdrawalProviderResponseBlank(k) ==
    /\ worker[k].phase = "record"
    /\ withdrawals' = [withdrawals EXCEPT ![worker[k].order].pendingReview = NoAdmin,
                                          ![worker[k].order].reviewers = {}]
    /\ worker' = [worker EXCEPT ![k] = [goTo(k, "sync") EXCEPT !.seen = NoWithdrawal]]
    /\ UNCHANGED <<walletVars, deposits, outbound, attempts, placed, scan, faults>>

(***************************************************************************)
(* updateWithdrawalProviderResponse: the metadata read before is written   *)
(* back whole, over whatever was written in between.  (Rows of deposits    *)
(* have no metadata in the model.)                                         *)
(***************************************************************************)
updateWithdrawalProviderResponse(k) ==
    LET w == worker[k].order
        seen == worker[k].seen
    IN  /\ worker[k].phase = "record"
        /\ withdrawals' = [withdrawals EXCEPT
               ![w].pendingReview = seen.pendingReview,
               ![w].reviewers = seen.reviewers,
               ![w].channel = seen.channel]
        /\ worker' = [worker EXCEPT ![k] = [goTo(k, "sync") EXCEPT !.seen = NoWithdrawal]]
        /\ UNCHANGED <<walletVars, deposits, outbound, attempts, placed, scan, faults>>

-----------------------------------------------------------------------------
(***************************************************************************)
(* A call into the order services commits, returns early because the order *)
(* has moved on, or throws.                                                *)
(***************************************************************************)
depositCall(d, call, ref) ==
    \/ call = "pending" /\ markDepositProviderPending(d)
    \/ call = "succeeded" /\ markDepositProviderSucceeded(d, ref)
    \/ call = "failed" /\ failDeposit(d, NoRef)

withdrawalCall(w, call, ref) ==
    \/ call = "submitted" /\ markWithdrawalProviderSubmitted(w, NoAdmin, ref)
    \/ call = "processing" /\ markWithdrawalProviderProcessing(w, NoAdmin, ref)
    \/ call = "failed" /\ markWithdrawalProviderFailed(w, NoAdmin, ref)
    \/ call = "paid" /\ payWithdrawal(w, NoAdmin, ref, "automated")

depositCallIgnored(d, call) ==
    \/ call = "pending" /\ deposits[d].status # "requested"
    \/ call = "failed" /\ deposits[d].status \notin {"requested", "provider_pending"}
    \/ call = "succeeded" /\ deposits[d].status \notin
                               {"requested", "provider_pending", "provider_failed"}

withdrawalCallIgnored(w, call) ==
    \/ call = "submitted" /\ withdrawals[w].status # "approved"
    \/ call = "processing" /\ withdrawals[w].status \notin {"approved", "provider_submitted"}
    \/ call = "paid" /\ withdrawals[w].status # "provider_processing"
    \/ call = "failed" /\ withdrawals[w].status \notin
                            {"approved", "provider_submitted", "provider_processing"}

depositCallThrows(d, call, ref) ==
    /\ call = "succeeded"
    /\ ~depositCallIgnored(d, call)
    /\ deposits[d].status # "provider_pending" \/ ref \in settlementRefs

withdrawalCallThrows(w, call, ref) ==
    /\ call \in {"failed", "paid"}
    /\ ~withdrawalCallIgnored(w, call)
    /\ \/ ref \in settlementRefs
       \/ call = "paid" /\ withdrawals[w].manualRequired
       \/ call = "paid" /\ locked[withdrawals[w].user] < withdrawals[w].amount

syncCommits(k) ==
    LET o == worker[k].order
        call == Head(worker[k].todo)
    IN  /\ worker[k].phase = "sync"
        /\ worker[k].todo # <<>>
        /\ \/ /\ o \in DepositIds
              /\ depositCall(o, call, ProviderOrderId[o])
              /\ UNCHANGED withdrawals
           \/ /\ o \in WithdrawalIds
              /\ withdrawalCall(o, call, ProviderOrderId[o])
              /\ UNCHANGED deposits
        /\ worker' = [worker EXCEPT ![k] = called(k)]
        /\ UNCHANGED <<attempts, placed, scan, faults>>

syncIgnored(k) ==
    LET o == worker[k].order
        call == Head(worker[k].todo)
    IN  /\ worker[k].phase = "sync"
        /\ worker[k].todo # <<>>
        /\ \/ o \in DepositIds /\ depositCallIgnored(o, call)
           \/ o \in WithdrawalIds /\ withdrawalCallIgnored(o, call)
        /\ worker' = [worker EXCEPT ![k] = called(k)]
        /\ UNCHANGED <<vars, attempts, placed, scan, faults>>

syncThrows(k) ==
    LET o == worker[k].order
        call == Head(worker[k].todo)
    IN  /\ worker[k].phase = "sync"
        /\ worker[k].todo # <<>>
        /\ \/ o \in DepositIds /\ depositCallThrows(o, call, ProviderOrderId[o])
           \/ o \in WithdrawalIds /\ withdrawalCallThrows(o, call, ProviderOrderId[o])
        /\ worker' = [worker EXCEPT ![k] = goTo(k, "giveUp")]
        /\ UNCHANGED <<vars, attempts, placed, scan, faults>>

(***************************************************************************)
(* The row is updated by id, whatever its send_status is by then.          *)
(***************************************************************************)
markOutboundRequest(k, status) ==
    /\ outbound' = [outbound EXCEPT ![worker[k].order] = status]
    /\ worker' = [worker EXCEPT ![k] = between(worker[k].batch)]
    /\ UNCHANGED <<orderVars, attempts, placed, scan, faults>>

markOutboundRequestSent(k) ==
    /\ worker[k].phase = "sync"
    /\ worker[k].todo = <<>>
    /\ markOutboundRequest(k, "sent")

markOutboundRequestUnknown(k) ==
    /\ worker[k].phase = "retry"
    /\ markOutboundRequest(k, "unknown")

markOutboundRequestFailed(k) ==
    /\ worker[k].phase = "giveUp"
    /\ markOutboundRequest(k, "failed")

-----------------------------------------------------------------------------
(***************************************************************************)
(* A process stops and starts again; its rows keep the status "sending".   *)
(***************************************************************************)
dispatcherCrash(k) ==
    /\ worker[k].phase # "idle"
    /\ faults < MaxFaults
    /\ faults' = faults + 1
    /\ worker' = [worker EXCEPT ![k] = Idle]
    /\ UNCHANGED <<vars, attempts, placed, scan>>

heldBy(k, o) == worker[k].order = o \/ o \in worker[k].batch

(***************************************************************************)
(* A row is recovered because its worker stopped, or because the worker is *)
(* slower than the lock timeout, which counts as a fault.                  *)
(***************************************************************************)
recoverStuckPaymentOutboundRequests(o) ==
    /\ outbound[o] = "sending"
    /\ faults' = IF \E k \in Workers : heldBy(k, o) THEN faults + 1 ELSE faults
    /\ faults' <= MaxFaults
    /\ outbound' = [outbound EXCEPT ![o] = "unknown"]
    /\ UNCHANGED <<orderVars, worker, attempts, placed, scan>>

-----------------------------------------------------------------------------
(***************************************************************************)
(* The operations scan lists orders that did not change for a while; which *)
(* ones are old enough is an input.  No cycle starts while one is running. *)
(***************************************************************************)
scannedStatuses ==
    {"requested", "provider_pending", "provider_succeeded", "approved",
     "provider_submitted", "provider_processing"}

statusOf(o) == IF o \in DepositIds THEN deposits[o].status ELSE withdrawals[o].status

scanSnapshot(old) ==
    /\ \A o \in OrderIds : scan[o] = "none"
    /\ old # {}
    /\ \A o \in old : statusOf(o) \in scannedStatuses
    /\ scan' = [o \in OrderIds |-> IF o \in old THEN statusOf(o) ELSE "none"]
    /\ UNCHANGED <<vars, worker, attempts, placed, faults>>

\* Mutant: the scan sends no reference.
scanReferenceMissing(o) == NoRef

(***************************************************************************)
(* The reference was chosen from the status the snapshot saw; the order    *)
(* services decide on the status they find now.                            *)
(***************************************************************************)
scanReference(o) ==
    IF scan[o] = "requested" THEN NoRef ELSE SystemReference[o]

scanWithdrawal(w) == reverseWithdrawal(w, NoAdmin, scanReference(w)) /\ UNCHANGED deposits

scanDeposit(d) ==
    /\ IF scan[d] = "provider_succeeded"
       THEN creditDeposit(d)
       ELSE failDeposit(d, scanReference(d))
    /\ UNCHANGED withdrawals

scanApplies(o) ==
    /\ scan[o] # "none"
    /\ IF o \in DepositIds THEN scanDeposit(o) ELSE scanWithdrawal(o)
    /\ scan' = [scan EXCEPT ![o] = "none"]
    /\ UNCHANGED <<worker, attempts, placed, faults>>

(***************************************************************************)
(* The call returned early or threw; the cycle goes on with the next order.*)
(***************************************************************************)
scanSkips(o) ==
    /\ scan[o] # "none"
    /\ scan' = [scan EXCEPT ![o] = "none"]
    /\ IF o \in DepositIds
       THEN IF scan[o] = "provider_succeeded"
            THEN deposits[o].status # "provider_succeeded"
            ELSE \/ deposits[o].status \notin {"requested", "provider_pending"}
                 \/ scanReference(o) \in settlementRefs
       ELSE \/ withdrawals[o].status \notin reversibleStatuses
            \/ withdrawals[o].status # "requested" /\ scanReference(o) = NoRef
            \/ scanReference(o) \in settlementRefs
            \/ StrictInvariant /\ locked[withdrawals[o].user] < withdrawals[o].amount
    /\ UNCHANGED <<vars, worker, attempts, placed, faults>>

-----------------------------------------------------------------------------
WorkerStep(k) ==
    \/ claimDuePaymentOutboundRequests(k) \/ nextClaimed(k) \/ batchDone(k)
    \/ \E answer \in Answers : providerAnswers(k, answer)
    \/ \E phase \in {"retry", "giveUp"} : providerCallFails(k, phase)
    \/ updateWithdrawalProviderResponse(k)
    \/ syncCommits(k) \/ syncIgnored(k) \/ syncThrows(k)
    \/ markOutboundRequestSent(k) \/ markOutboundRequestUnknown(k)
    \/ markOutboundRequestFailed(k)

ScanStep(o) == scanApplies(o) \/ scanSkips(o)

PaymentOutboundNext ==
    \/ Next /\ UNCHANGED outboundVars
    \/ \E k \in Workers : WorkerStep(k) \/ dispatcherCrash(k)
    \/ \E o \in OrderIds : recoverStuckPaymentOutboundRequests(o) \/ ScanStep(o)
    \/ \E old \in SUBSET OrderIds : scanSnapshot(old)

(***************************************************************************)
(* The dispatchers are timer loops, so workers, lock recovery and the scan *)
(* keep running, and an order that stays as it is grows old enough for the *)
(* scan.  Nothing obliges a user, an admin or a webhook to act.            *)
(***************************************************************************)
DispatchersRun ==
    /\ \A k \in Workers : WF_allVars(WorkerStep(k))
    /\ \A o \in OrderIds :
        /\ WF_allVars(recoverStuckPaymentOutboundRequests(o))
        /\ WF_allVars(ScanStep(o))
        /\ SF_allVars(\E old \in SUBSET OrderIds : o \in old /\ scanSnapshot(old))

PaymentOutboundSpec ==
    PaymentOutboundInit /\ [][PaymentOutboundNext]_allVars /\ DispatchersRun

-----------------------------------------------------------------------------
(***************************************************************************)
(* However often a delivery times out, a lock expires under a slow worker  *)
(* or a worker restarts, the provider creates one order at most for each   *)
(* deposit or withdrawal: every attempt carries the same idempotency key.  *)
(* And a row marked sent has that order, and an order of ours that moved   *)
(* on: a crash between the two can lose the mark but not the progress.     *)
(***************************************************************************)
OneProviderOrder ==
    /\ \A p, q \in placed : p.order = q.order => p = q
    /\ \A o \in OrderIds :
        outbound[o] = "sent" =>
            /\ \E p \in placed : p.order = o
            /\ statusOf(o) \notin {"none", "requested", "approved"}

(***************************************************************************)
(* Nothing is left open: no crash or lost answer leaves an outbox row      *)
(* locked for good, and the scan closes what the others leave open.  A     *)
(* deposit ends credited, failed or reversed and a withdrawal paid,        *)
(* returned or, where only an admin may decide, provider_failed.           *)
(***************************************************************************)
OrdersEnd ==
    \A o \in OrderIds :
        /\ outbound[o] \in {"prepared", "sending", "unknown"} ~> outbound[o] \in {"sent", "failed"}
        /\ statusOf(o) \in scannedStatuses
            ~> statusOf(o) \in {"credited", "provider_failed", "reversed", "paid", "rejected"}
==============================================================================
