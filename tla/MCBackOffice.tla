---------------------------- MODULE MCBackOffice -----------------------------
(***************************************************************************)
(* The back office for TLC: change control, legal documents, the two       *)
(* delivery queues and the KYC review.  They share no row; each initial    *)
(* state picks the one that moves, so the state spaces add up.             *)
(***************************************************************************)
EXTENDS BackOffice

CONSTANT Rounds     \* which rounds the run covers

VARIABLE round

mcVars == <<allChangeVars, notificationVars, webhookVars, kycVars, round>>

MCInit ==
    /\ ChangeControlInit
    /\ NotificationInit
    /\ TenantWebhooksInit
    /\ KycInit
    /\ round \in Rounds
    /\ (round = "legal") = (documents # <<>>)

\* Which variables a round leaves alone.
rest(part) ==
    /\ part # "control" => UNCHANGED allChangeVars
    /\ part # "notifications" => UNCHANGED notificationVars
    /\ part # "webhooks" => UNCHANGED webhookVars
    /\ part # "kyc" => UNCHANGED kycVars
    /\ UNCHANGED round

(***************************************************************************)
(* Requests are interchangeable, and so are the administrators who submit, *)
(* reject or publish: no row keeps them.                                   *)
(***************************************************************************)
inUse(f) == {x \in DOMAIN f : f[x].status # "none"}

aRequest == CHOOSE r \in Requests : TRUE
anAdmin == CHOOSE a \in Admins : TRUE
aConsole == CHOOSE c \in Consoles : TRUE

withoutRenaming ==
    /\ inUse(changes') # {} => aRequest \in inUse(changes')
    /\ \A c \in Consoles :
        console'[c].op \in {"submit", "reject", "publish"} => console'[c].admin = anAdmin

(***************************************************************************)
(* What a round covers.  "config": one change, everything that can happen  *)
(* to it.  "settings": two of the system configuration, submitted and      *)
(* approved in one session and published in any, "legal": two of documents;*)
(* both by one author and rejected by nobody, since "config" has the       *)
(* rejections.  "retries": one notification, "batches": two, which nobody  *)
(* requeues and whose locks time out only when their dispatcher is gone.   *)
(***************************************************************************)
withinRound ==
    /\ withoutRenaming
    /\ round = "config" => Cardinality(inUse(changes')) <= 1
    /\ round \in {"settings", "legal"} =>
        /\ \A r \in inUse(changes') : changes'[r].createdBy = anAdmin
        /\ \A c \in Consoles : console'[c].op # "reject"
    /\ round = "settings" =>
        /\ providers' = providers
        /\ \A c \in Consoles : console'[c].op \in {"submit", "approve"} => c = aConsole
        /\ \A r \in inUse(changes') :
            changes'[r].kind = "system_config" /\ Cardinality(changes'[r].fields) = 1
    /\ round = "retries" => Cardinality(inUse(deliveries')) <= 1
    /\ round = "batches" =>
        /\ mishaps'.slow = 0
        /\ \A d \in Deliveries : deliveries'[d].requeues = 0

notifications == round \in {"retries", "batches"}

MCNext ==
    /\ \/ round \in {"config", "settings"} /\ (ConfigNext \/ ReviewNext) /\ rest("control")
       \/ round = "legal" /\ (LegalNext \/ ReviewNext) /\ rest("control")
       \/ notifications /\ NotificationNext /\ rest("notifications")
       \/ round = "webhooks" /\ TenantWebhooksNext /\ rest("webhooks")
       \/ round = "kyc" /\ KycNext /\ rest("kyc")
    /\ withinRound

(***************************************************************************)
(* Every dispatcher's timer fires again and again, a tick runs to its end, *)
(* and time passes.  Administrators and users need not act.                *)
(***************************************************************************)
MCSpec ==
    /\ MCInit
    /\ [][MCNext]_mcVars
    /\ \A p \in Dispatchers : WF_mcVars(notifications /\ tick(p) /\ rest("notifications") /\ withinRound)
    /\ \A d \in Deliveries : 
        WF_mcVars(notifications /\ timePasses(d) /\ rest("notifications") /\ withinRound)
    /\ \A k \in WebhookWorkers :
        WF_mcVars(round = "webhooks" /\ runSaasOutboundWebhookDeliveryCycle(k) /\ rest("webhooks"))
    /\ \A x \in Endpoints \X Rewards :
        WF_mcVars(round = "webhooks" /\ (comesDueAgain(x) \/ lockGoesStale(x)) /\ rest("webhooks"))
    /\ WF_mcVars(round = "kyc" /\ runKycReverificationSweep /\ rest("kyc"))

(***************************************************************************)
(* Both queues drain, whatever dies or is slow: a notification that is     *)
(* queued is sent or given up (processPendingAuthNotifications), and so    *)
(* is a tenant's webhook (runSaasOutboundWebhookDeliveryCycle).            *)
(***************************************************************************)
QueuesDrain == DeliveryEnds /\ PostEnds
=============================================================================
