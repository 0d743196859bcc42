-------------------------- MODULE NotificationQueue --------------------------
(***************************************************************************)
(* Notification deliveries and the dispatchers that send them, one in each *)
(* process.  A tick returns the rows whose lock has timed out, claims a    *)
(* batch, and sends and finalizes each row of it.                          *)
(*                                                                         *)
(* A row is finalized by id, whoever holds it by then: a dispatcher that   *)
(* is slower than the lock's timeout meets the one that took over.         *)
(***************************************************************************)
EXTENDS Integers, Sequences, SequencesExt, FiniteSets

CONSTANTS
    Deliveries,     \* ids of deliveries
    Dispatchers,    \* processes
    MaxAttempts,    \* config.authNotificationMaxAttempts
    BatchSize,      \* config.authNotificationBatchSize
    MaxSlow,        \* bound on locks that time out under a live dispatcher
    MaxStops,       \* bound on ticks that end half-way
    MaxRequeues     \* bound on retries by an administrator

ASSUME NotificationAssumption ==
    /\ MaxAttempts \in Nat \ {0}
    /\ BatchSize \in Nat \ {0}
    /\ {MaxSlow, MaxStops, MaxRequeues} \subseteq Nat
    /\ IsFiniteSet(Deliveries)

VARIABLES
    deliveries,     \* notification_deliveries
    dispatcher,     \* what each dispatcher is doing
    mishaps         \* locks timed out under a dispatcher, ticks lost, retries by hand

notificationVars == <<deliveries, dispatcher, mishaps>>

AtTimer == [phase |-> "timer", batch |-> <<>>, full |-> FALSE, outcome |-> "none"]

NotificationInit ==
    /\ deliveries = [d \in Deliveries |->
                        [status |-> "none", attempts |-> 0, due |-> FALSE, expired |-> FALSE,
                         requeues |-> 0]]
    /\ dispatcher = [p \in Dispatchers |-> AtTimer]
    /\ mishaps = [slow |-> 0, stops |-> 0]

held(d) == \E p \in Dispatchers : \E i \in DOMAIN dispatcher[p].batch : dispatcher[p].batch[i].id = d

-----------------------------------------------------------------------------
\* The recipient's throttle may refuse; nothing is queued then.
queueNotificationDelivery(d) ==
    /\ deliveries[d].status = "none"
    /\ deliveries' = [deliveries EXCEPT ![d].status = "pending", ![d].due = TRUE]
    /\ UNCHANGED <<dispatcher, mishaps>>

\* The retry delay passes.
comesDue(d) ==
    /\ deliveries[d].status = "pending"
    /\ ~deliveries[d].due
    /\ deliveries' = [deliveries EXCEPT ![d].due = TRUE]
    /\ UNCHANGED <<dispatcher, mishaps>>

\* The lock's timeout passes: sooner or later when nobody works on the row.
lockTimesOut(d) ==
    /\ deliveries[d].status = "processing"
    /\ ~deliveries[d].expired
    /\ held(d) => mishaps.slow < MaxSlow
    /\ deliveries' = [deliveries EXCEPT ![d].expired = TRUE]
    /\ mishaps' = [mishaps EXCEPT !.slow = IF held(d) THEN @ + 1 ELSE @]
    /\ UNCHANGED dispatcher

retryFailedNotificationDelivery(d) ==
    /\ deliveries[d].status = "failed"
    /\ deliveries[d].requeues < MaxRequeues
    /\ deliveries' = [deliveries EXCEPT ![d].status = "pending", ![d].attempts = 0, ![d].due = TRUE,
                                        ![d].requeues = @ + 1]
    /\ UNCHANGED <<dispatcher, mishaps>>

-----------------------------------------------------------------------------
(* A dispatcher's tick *)

\* Mutant: a row that has used its attempts is not returned.
recoverableUnlessExhausted(row) == row.status = "processing" /\ row.expired /\ row.attempts < MaxAttempts

recoverable(row) == row.status = "processing" /\ row.expired

recoverStuckAuthNotifications(p) ==
    /\ dispatcher[p].phase = "timer"
    /\ deliveries' = [d \in Deliveries |->
                        IF recoverable(deliveries[d])
                        THEN [deliveries[d] EXCEPT !.status = "pending", !.due = TRUE,
                                                   !.expired = FALSE]
                        ELSE deliveries[d]]
    /\ dispatcher' = [dispatcher EXCEPT ![p].phase = "claim"]
    /\ UNCHANGED mishaps

claimable == {d \in Deliveries : deliveries[d].status = "pending" /\ deliveries[d].due}

\* The oldest due rows, as many as a batch holds; FOR UPDATE SKIP LOCKED
\* gives two dispatchers different rows.
claimPendingDeliveries(p) ==
    /\ dispatcher[p].phase = "claim"
    /\ \E ids \in SUBSET claimable :
        /\ Cardinality(ids) = IF Cardinality(claimable) < BatchSize
                              THEN Cardinality(claimable) ELSE BatchSize
        /\ deliveries' = [d \in Deliveries |->
                            IF d \in ids
                            THEN [deliveries[d] EXCEPT !.status = "processing", !.attempts = @ + 1,
                                                       !.due = FALSE, !.expired = FALSE]
                            ELSE deliveries[d]]
        /\ dispatcher' = [dispatcher EXCEPT ![p] =
                            [phase |-> IF ids = {} THEN "timer" ELSE "send",
                             batch |-> SetToSeq({[id |-> d, attempts |-> deliveries[d].attempts + 1]
                                                 : d \in ids}),
                             full |-> Cardinality(ids) = BatchSize,
                             outcome |-> "none"]]
    /\ UNCHANGED mishaps

current(p) == dispatcher[p].batch[1]

sendDelivery(p, outcome) ==
    /\ dispatcher[p].phase = "send"
    /\ dispatcher' = [dispatcher EXCEPT ![p].phase = "finalize", ![p].outcome = outcome]
    /\ UNCHANGED <<deliveries, mishaps>>

\* On to the next row; after a full batch, to another claim.
nextDelivery(p) ==
    LET now == dispatcher[p]
    IN  dispatcher' = [dispatcher EXCEPT ![p] =
            IF Len(now.batch) > 1
            THEN [now EXCEPT !.phase = "send", !.batch = Tail(now.batch), !.outcome = "none"]
            ELSE [AtTimer EXCEPT !.phase = IF now.full THEN "claim" ELSE "timer"]]

finalizeSuccess(p) ==
    /\ dispatcher[p].phase = "finalize"
    /\ dispatcher[p].outcome = "sent"
    /\ deliveries' = [deliveries EXCEPT ![current(p).id].status = "sent"]
    /\ nextDelivery(p)
    /\ UNCHANGED mishaps

\* finalizeSuccess throws, and the catch block finalizes a failure.
finalizeSuccessThrows(p) ==
    /\ dispatcher[p].phase = "finalize"
    /\ dispatcher[p].outcome = "sent"
    /\ mishaps.stops < MaxStops
    /\ dispatcher' = [dispatcher EXCEPT ![p].outcome = "retryable"]
    /\ mishaps' = [mishaps EXCEPT !.stops = @ + 1]
    /\ UNCHANGED deliveries

exhausted(attempts, outcome) == outcome = "permanent" \/ attempts >= MaxAttempts

finalizeFailure(p) ==
    /\ dispatcher[p].phase = "finalize"
    /\ dispatcher[p].outcome \in {"retryable", "permanent"}
    /\ deliveries' = [deliveries EXCEPT
                        ![current(p).id].status =
                            IF exhausted(current(p).attempts, dispatcher[p].outcome)
                            THEN "failed" ELSE "pending",
                        ![current(p).id].due = FALSE]
    /\ nextDelivery(p)
    /\ UNCHANGED mishaps

\* The process stops, or finalizeFailure throws: the rest of the batch stays
\* "processing" until its locks time out.
tickIsLost(p) ==
    /\ dispatcher[p].phase # "timer"
    /\ mishaps.stops < MaxStops
    /\ mishaps' = [mishaps EXCEPT !.stops = @ + 1]
    /\ dispatcher' = [dispatcher EXCEPT ![p] = AtTimer]
    /\ UNCHANGED deliveries

tick(p) ==
    \/ recoverStuckAuthNotifications(p)
    \/ claimPendingDeliveries(p)
    \/ \E outcome \in {"sent", "retryable", "permanent"} : sendDelivery(p, outcome)
    \/ finalizeSuccess(p)
    \/ finalizeFailure(p)

timePasses(d) == comesDue(d) \/ lockTimesOut(d)

NotificationNext ==
    \/ \E d \in Deliveries : \/ queueNotificationDelivery(d)
                             \/ timePasses(d)
                             \/ retryFailedNotificationDelivery(d)
    \/ \E p \in Dispatchers : tick(p) \/ finalizeSuccessThrows(p) \/ tickIsLost(p)

NotificationSpec == NotificationInit /\ [][NotificationNext]_notificationVars

-----------------------------------------------------------------------------
NotificationTypeOK ==
    /\ \A d \in Deliveries :
        /\ deliveries[d].status \in {"none", "pending", "processing", "sent", "failed"}
        /\ deliveries[d].attempts \in Nat
        /\ deliveries[d].due => deliveries[d].status \in {"pending", "sent", "failed"}
    /\ \A p \in Dispatchers :
        /\ Len(dispatcher[p].batch) <= BatchSize
        /\ (dispatcher[p].batch = <<>>) = (dispatcher[p].phase \in {"timer", "claim"})

(***************************************************************************)
(* Every delivery that is queued is sent or given up, whatever ticks are   *)
(* lost on the way.                                                        *)
(***************************************************************************)
DeliveryEnds ==
    \A d \in Deliveries :
        deliveries[d].status \in {"pending", "processing"}
            ~> deliveries[d].status \in {"sent", "failed"}
=============================================================================
