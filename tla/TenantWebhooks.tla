--------------------------- MODULE TenantWebhooks ----------------------------
(***************************************************************************)
(* The hosted prize engine's outbound webhooks: a reward queues one        *)
(* delivery per subscribed endpoint of the project, and workers post them. *)
(* A claim takes due rows and rows whose lock is stale alike, a row is     *)
(* marked by id, and a failure writes back the attempt number the worker   *)
(* claimed with.                                                           *)
(***************************************************************************)
EXTENDS Integers, FiniteSets

CONSTANTS
    Endpoints,          \* saas_outbound_webhooks of the project
    Rewards,            \* draw records
    WebhookWorkers,
    MaxPosts,           \* config.saasOutboundWebhookMaxAttempts
    MaxStale,           \* bound on locks that go stale under a live worker
    MaxLost,            \* bound on workers that stop half-way
    MaxPatches            \* bound on changes to an endpoint

ASSUME TenantWebhooksAssumption ==
    /\ MaxPosts \in Nat \ {0}
    /\ {MaxStale, MaxLost, MaxPatches} \subseteq Nat

VARIABLES
    endpoints,      \* saas_outbound_webhooks: "active", "inactive" or "deleted"
    posts,          \* saas_outbound_webhook_deliveries, by endpoint and reward
    poster,         \* what each worker is doing
    upsets          \* stale locks, lost workers and edits so far

webhookVars == <<endpoints, posts, poster, upsets>>

NoWork == [phase |-> "idle"]

TenantWebhooksInit ==
    /\ endpoints = [e \in Endpoints |-> "active"]
    /\ posts = [x \in Endpoints \X Rewards |->
                    [status |-> "none", attempts |-> 0, due |-> FALSE, stale |-> FALSE]]
    /\ poster = [k \in WebhookWorkers |-> NoWork]
    /\ upsets = [stale |-> 0, lost |-> 0, edits |-> 0]

-----------------------------------------------------------------------------
\* Deactivated by a patch; its deliveries stay and fail when they are posted.
updateSaasOutboundWebhook(e) ==
    /\ endpoints[e] # "deleted"
    /\ upsets.edits < MaxPatches
    /\ endpoints' = [endpoints EXCEPT ![e] = IF @ = "active" THEN "inactive" ELSE "active"]
    /\ upsets' = [upsets EXCEPT !.edits = @ + 1]
    /\ UNCHANGED <<posts, poster>>

\* The foreign key deletes its deliveries too.
deleteSaasOutboundWebhook(e) ==
    /\ endpoints[e] # "deleted"
    /\ upsets.edits < MaxPatches
    /\ endpoints' = [endpoints EXCEPT ![e] = "deleted"]
    /\ posts' = [x \in DOMAIN posts |-> IF x[1] = e THEN [posts[x] EXCEPT !.status = "none"] ELSE posts[x]]
    /\ upsets' = [upsets EXCEPT !.edits = @ + 1]
    /\ UNCHANGED poster

\* After the draw's transaction: a process that dies first queues nothing.  The
\* unique key keeps one row per endpoint and event.
enqueueRewardCompletedWebhookDeliveries(r) ==
    /\ \A e \in Endpoints : posts[e, r].status = "none"
    /\ posts' = [x \in DOMAIN posts |->
                    IF x[2] = r /\ endpoints[x[1]] = "active"
                    THEN [posts[x] EXCEPT !.status = "pending", !.due = TRUE] ELSE posts[x]]
    /\ UNCHANGED <<endpoints, poster, upsets>>

comesDueAgain(x) ==
    /\ posts[x].status = "failed"
    /\ posts[x].attempts < MaxPosts
    /\ ~posts[x].due
    /\ posts' = [posts EXCEPT ![x].due = TRUE]
    /\ UNCHANGED <<endpoints, poster, upsets>>

posting(x) == \E k \in WebhookWorkers : poster[k].phase # "idle" /\ poster[k].row = x

lockGoesStale(x) ==
    /\ posts[x].status = "sending"
    /\ ~posts[x].stale
    /\ posting(x) => upsets.stale < MaxStale
    /\ posts' = [posts EXCEPT ![x].stale = TRUE]
    /\ upsets' = [upsets EXCEPT !.stale = IF posting(x) THEN @ + 1 ELSE @]
    /\ UNCHANGED <<endpoints, poster>>

\* Mutant: a lock that went stale on the last attempt is not taken over.
takesOverUntilExhausted(row) == row.status = "sending" /\ row.stale /\ row.attempts < MaxPosts

takesOver(row) == row.status = "sending" /\ row.stale

claimsDue(row) ==
    /\ row.status \in {"pending", "failed"}
    /\ row.attempts < MaxPosts
    /\ row.due

\* The worker takes the rows of a batch one by one; the model claims one row.
claimDueOutboundWebhookDeliveries(k, x) ==
    /\ poster[k] = NoWork
    /\ claimsDue(posts[x]) \/ takesOver(posts[x])
    /\ posts' = [posts EXCEPT ![x].status = "sending", ![x].attempts = @ + 1, ![x].due = FALSE,
                              ![x].stale = FALSE]
    /\ poster' = [poster EXCEPT ![k] = [phase |-> "post", row |-> x, attempts |-> posts[x].attempts + 1]]
    /\ UNCHANGED <<endpoints, upsets>>

\* The endpoint's answer: accepted, to be retried (5xx, 408, 429, timeout) or not.
dispatchOutboundWebhookDelivery(k, answer) ==
    /\ poster[k].phase = "post"
    /\ endpoints[poster[k].row[1]] = "active"
    /\ poster' = [poster EXCEPT ![k].phase = answer]
    /\ UNCHANGED <<endpoints, posts, upsets>>

\* "Outbound webhook endpoint is missing or inactive."
endpointIsGone(k) ==
    /\ poster[k].phase = "post"
    /\ endpoints[poster[k].row[1]] # "active"
    /\ poster' = [poster EXCEPT ![k].phase = "refused"]
    /\ UNCHANGED <<endpoints, posts, upsets>>

\* An update by id of a row that the cascade deleted changes nothing.
marked(k, row) ==
    LET x == poster[k].row IN
    /\ posts' = [posts EXCEPT ![x] = IF posts[x].status = "none" THEN @ ELSE row]
    /\ poster' = [poster EXCEPT ![k] = NoWork]
    /\ UNCHANGED <<endpoints, upsets>>

markOutboundWebhookDeliveryDelivered(k) ==
    /\ poster[k].phase = "accepted"
    /\ marked(k, [posts[poster[k].row] EXCEPT !.status = "delivered", !.stale = FALSE])

\* The endpoint's own row cannot be updated: the error is marked as a failure.
markDeliveredThrows(k) ==
    /\ poster[k].phase = "accepted"
    /\ upsets.lost < MaxLost
    /\ poster' = [poster EXCEPT ![k].phase = "retry"]
    /\ upsets' = [upsets EXCEPT !.lost = @ + 1]
    /\ UNCHANGED <<endpoints, posts>>

\* What a failure writes back: the limit when it is final, else the number
\* the worker claimed with.
attemptsAfter(attempts, answer) ==
    IF answer = "refused" \/ attempts >= MaxPosts THEN MaxPosts ELSE attempts

markOutboundWebhookDeliveryFailed(k) ==
    /\ poster[k].phase \in {"retry", "refused"}
    /\ marked(k, [posts[poster[k].row] EXCEPT
                    !.status = "failed", !.stale = FALSE, !.due = FALSE,
                    !.attempts = attemptsAfter(poster[k].attempts, poster[k].phase)])

workerIsLost(k) ==
    /\ poster[k] # NoWork
    /\ upsets.lost < MaxLost
    /\ poster' = [poster EXCEPT ![k] = NoWork]
    /\ upsets' = [upsets EXCEPT !.lost = @ + 1]
    /\ UNCHANGED <<endpoints, posts>>

runSaasOutboundWebhookDeliveryCycle(k) ==
    \/ \E x \in DOMAIN posts : claimDueOutboundWebhookDeliveries(k, x)
    \/ \E answer \in {"accepted", "retry", "refused"} : dispatchOutboundWebhookDelivery(k, answer)
    \/ endpointIsGone(k)
    \/ markOutboundWebhookDeliveryDelivered(k)
    \/ markOutboundWebhookDeliveryFailed(k)

TenantWebhooksNext ==
    \/ \E e \in Endpoints : updateSaasOutboundWebhook(e) \/ deleteSaasOutboundWebhook(e)
    \/ \E r \in Rewards : enqueueRewardCompletedWebhookDeliveries(r)
    \/ \E x \in DOMAIN posts : comesDueAgain(x) \/ lockGoesStale(x)
    \/ \E k \in WebhookWorkers :
        runSaasOutboundWebhookDeliveryCycle(k) \/ markDeliveredThrows(k) \/ workerIsLost(k)

TenantWebhooksSpec == TenantWebhooksInit /\ [][TenantWebhooksNext]_webhookVars

-----------------------------------------------------------------------------
TenantWebhooksTypeOK ==
    \A x \in DOMAIN posts :
        /\ posts[x].status \in {"none", "pending", "sending", "delivered", "failed"}
        /\ posts[x].attempts \in Nat

(***************************************************************************)
(* Every queued delivery is delivered, given up, or deleted with its       *)
(* endpoint: none is left "sending" by a worker that stopped.              *)
(***************************************************************************)
PostEnds ==
    \A x \in Endpoints \X Rewards :
        posts[x].status \in {"pending", "sending"}
            ~> \/ posts[x].status \in {"none", "delivered"}
               \/ posts[x].status = "failed" /\ posts[x].attempts >= MaxPosts
=============================================================================
