---------------------------- MODULE ChangeControl ----------------------------
(***************************************************************************)
(* Config change requests: a draft is submitted, approved by another       *)
(* administrator than its author, and published, which applies it to the   *)
(* runtime configuration, a payment provider, a tenant's risk envelope or  *)
(* a legal document.                                                       *)
(*                                                                         *)
(* Every operation reads the request without locking the row, decides from *)
(* what it read, and updates it by id.  An operation has therefore two     *)
(* steps, the read and the commit, and others may commit in between.       *)
(*                                                                         *)
(* A setting of the runtime configuration is known by the request its      *)
(* value comes from.  The configuration is read through a cache that a     *)
(* write clears before it commits, so the cache may hold a value that is   *)
(* no longer in force, or never was.                                       *)
(***************************************************************************)
EXTENDS LegalDocuments, FiniteSets

CONSTANTS
    Admins,
    Requests,       \* ids of change requests
    Consoles,       \* concurrent administrator sessions
    Fields,         \* settings a config or envelope change may carry
    BlackjackFields,    \* those of blackjack
    LimitFields,        \* of these, the ones every blackjack change writes
    MaxProviders,   \* bound on payment providers
    Nobody,         \* no administrator, no request
    NotCached       \* no entry in the cache

ASSUME ChangeControlAssumption ==
    /\ Nobody \notin Admins \cup Requests
    /\ NotCached \notin Requests \cup {Nobody}
    /\ LimitFields \subseteq BlackjackFields /\ BlackjackFields \subseteq Fields
    /\ MaxProviders \in Nat \ {0}

VARIABLES
    changes,    \* config_change_requests
    console,    \* what each session is doing
    settings,   \* per target and field, the request that set it
    cached,     \* the cache of the system configuration, likewise
    providers   \* payment_providers: the request each row's config comes from

changeVars == <<changes, console, settings, cached, providers>>
allChangeVars == <<changeVars, legalVars>>

Targets == {"system_config", "saas_tenant_risk_envelope"}
Kinds == Targets \cup {"payment_provider", "legal_document"}
QUEUED_CHANGE_REQUEST_STATUSES == {"draft", "pending_approval", "approved"}
FINALIZED == {"published", "rejected"}

AtRest == [op |-> "none"]

nothingSet == [f \in Fields |-> Nobody]

noRequest == [status |-> "none", kind |-> "none", createdBy |-> Nobody, approvedBy |-> Nobody,
              fields |-> {}, document |-> 0, rollout |-> 100, target |-> 0, applied |-> 0]

ChangeControlInit ==
    /\ NothingPublished \/ FirstVersionIsOut(Nobody)
    /\ cascaded = FALSE
    /\ changes = [r \in Requests |-> noRequest]
    /\ console = [c \in Consoles |-> AtRest]
    /\ settings = [t \in Targets |-> nothingSet]
    /\ cached = [f \in Fields |-> NotCached]
    /\ providers = <<[from |-> Nobody, isCircuitBroken |-> FALSE]>>

-----------------------------------------------------------------------------
(* Drafts *)

draft(r, a, kind) ==
    [noRequest EXCEPT !.status = "draft", !.kind = kind, !.createdBy = a]

created(r, request) ==
    /\ changes[r].status = "none"
    /\ changes' = [changes EXCEPT ![r] = request]
    /\ UNCHANGED <<legalVars, settings, cached, providers>>

createSystemConfigDraft(r, a) ==
    \E fs \in SUBSET Fields :
        /\ created(r, [draft(r, a, "system_config") EXCEPT !.fields = fs])
        /\ UNCHANGED console

createSaasTenantRiskEnvelopeDraft(r, a) ==
    \E fs \in (SUBSET Fields) \ {{}} :
        /\ created(r, [draft(r, a, "saas_tenant_risk_envelope") EXCEPT !.fields = fs])
        /\ UNCHANGED console

\* target 0 asks for a new provider.
createPaymentProviderDraft(r, a) ==
    \E p \in 0..Len(providers) :
        /\ created(r, [draft(r, a, "payment_provider") EXCEPT !.target = p])
        /\ UNCHANGED console

queued(d) ==
    \E r \in Requests :
        /\ changes[r].kind = "legal_document"
        /\ changes[r].document = d
        /\ changes[r].status \in QUEUED_CHANGE_REQUEST_STATUSES

done(c) == console' = [console EXCEPT ![c] = AtRest]

\* The checks of a draft, and its insert, which nothing then prevents.
buildLegalDocumentPublishPayload(c, a) ==
    \E d \in DOMAIN documents, rollout \in Rollouts :
        /\ console[c] = AtRest
        /\ exists(d)
        /\ ~queued(d)
        /\ rollout < 100 =>
            \E i \in DOMAIN publications : publications[i].active /\ ~isGray(i)
        /\ console' = [console EXCEPT ![c] =
                        [op |-> "draft", admin |-> a, document |-> d, rollout |-> rollout]]
        /\ UNCHANGED <<legalVars, changes, settings, cached, providers>>

createLegalDocumentPublishDraft(c, r) ==
    /\ console[c].op = "draft"
    /\ created(r, [draft(r, console[c].admin, "legal_document") EXCEPT
                    !.document = console[c].document, !.rollout = console[c].rollout])
    /\ done(c)

-----------------------------------------------------------------------------
(* The operations on a request: what each requires of the row it reads.    *)

maySubmit(r, a) == changes[r].status = "draft"

\* Mutant: the author may approve the change.
mayApproveOwn(r, a) == changes[r].status = "pending_approval"

mayApprove(r, a) ==
    /\ changes[r].status = "pending_approval"
    /\ changes[r].createdBy # a

mayReject(r, a) == changes[r].status \in QUEUED_CHANGE_REQUEST_STATUSES

mayPublish(r, a) == changes[r].status = "approved"

may(op, r, a) ==
    \/ op = "submit" /\ maySubmit(r, a)
    \/ op = "approve" /\ mayApprove(r, a)
    \/ op = "reject" /\ mayReject(r, a)
    \/ op = "publish" /\ mayPublish(r, a)

\* readChangeRequest and the checks on it; a publication also reads its target.
readChangeRequest(c, op, r, a) ==
    /\ console[c] = AtRest
    /\ may(op, r, a)
    /\ console' = [console EXCEPT ![c] =
                    [op |-> op, request |-> r, admin |-> a,
                     seen |-> IF op = "publish" /\ changes[r].kind = "legal_document"
                              THEN readActivePublications ELSE {},
                     config |-> nothingSet]]
    /\ UNCHANGED <<legalVars, changes, settings, cached, providers>>

\* assertDocumentMutable, before an edit or a deletion of a version.
assertDocumentMutable(c, op, d) ==
    /\ console[c] = AtRest
    /\ exists(d)
    /\ ~published(d)
    /\ ~queued(d)
    /\ console' = [console EXCEPT ![c] = [op |-> op, document |-> d]]
    /\ UNCHANGED <<legalVars, changes, settings, cached, providers>>

decided(c, status) ==
    /\ changes' = [changes EXCEPT ![console[c].request].status = status]
    /\ done(c)
    /\ UNCHANGED <<legalVars, settings, cached, providers>>

submitControlChangeRequest(c) == console[c].op = "submit" /\ decided(c, "pending_approval")

approveControlChangeRequest(c) ==
    /\ console[c].op = "approve"
    /\ changes' = [changes EXCEPT ![console[c].request].status = "approved",
                                  ![console[c].request].approvedBy = console[c].admin]
    /\ done(c)
    /\ UNCHANGED <<legalVars, settings, cached, providers>>

rejectControlChangeRequest(c) == console[c].op = "reject" /\ decided(c, "rejected")

-----------------------------------------------------------------------------
(***************************************************************************)
(* The runtime configuration.  An entry of the cache expires, and a reader *)
(* that misses one stores the value in force.                              *)
(***************************************************************************)
cacheEntryExpires(f) ==
    /\ cached[f] # NotCached
    /\ cached' = [cached EXCEPT ![f] = NotCached]
    /\ UNCHANGED <<legalVars, changes, console, settings, providers>>

inForce(f) == settings["system_config"][f]

getConfigRowsByKeys(f) ==
    /\ cached[f] = NotCached
    /\ cached' = [cached EXCEPT ![f] = inForce(f)]
    /\ UNCHANGED <<legalVars, changes, console, settings, providers>>

touchesBlackjackConfig(r) == changes[r].fields \cap BlackjackFields # {}

writtenFields(r) == changes[r].fields \cup IF touchesBlackjackConfig(r) THEN LimitFields ELSE {}

publishes(c, kind) == console[c].op = "publish" /\ changes[console[c].request].kind = kind

\* The publication reads the whole configuration, cached or in force.
getBlackjackConfig(c) ==
    LET config == [f \in Fields |-> IF cached[f] = NotCached THEN inForce(f) ELSE cached[f]]
    IN  /\ publishes(c, "system_config")
        /\ console' = [console EXCEPT ![c].op = "apply", ![c].config = config]
        /\ cached' = config
        /\ UNCHANGED <<legalVars, changes, settings, providers>>

\* The rows another publication wrote stay locked until it ends.
canWrite(c) ==
    \A d \in Consoles :
        console[d].op = "applied" =>
            writtenFields(console[d].request) \cap writtenFields(console[c].request) = {}

(***************************************************************************)
(* What the change carries is written, and the limits of blackjack are     *)
(* written back as they were read.  The cache is cleared before the        *)
(* commit: a reader may put the old value back, or the publication's own   *)
(* audit the new one.                                                      *)
(***************************************************************************)
applySystemConfigDraft(c) ==
    LET r == console[c].request
        config == [f \in Fields |-> IF f \in changes[r].fields THEN r ELSE console[c].config[f]]
    IN  /\ console[c].op = "apply"
        /\ canWrite(c)
        /\ console' = [console EXCEPT ![c].op = "applied", ![c].config = config]
        /\ \E left \in [Fields -> Requests \cup {Nobody, NotCached}] :
            /\ \A f \in Fields :
                left[f] \in IF f \in writtenFields(r)
                           THEN {NotCached, inForce(f), config[f]} ELSE {cached[f]}
            /\ cached' = left
        /\ UNCHANGED <<legalVars, changes, settings, providers>>

systemConfigIsCommitted(c) ==
    LET r == console[c].request IN
    /\ console[c].op = "applied"
    /\ settings' = [settings EXCEPT !["system_config"] =
                        [f \in Fields |-> IF f \in writtenFields(r) THEN console[c].config[f]
                                         ELSE @[f]]]
    /\ UNCHANGED <<legalVars, cached, providers>>

-----------------------------------------------------------------------------
(* Applying another change *)

\* Only the fields the change carries are written.
applySaasTenantRiskEnvelopeDraft(r) ==
    /\ settings' = [settings EXCEPT !["saas_tenant_risk_envelope"] =
                        [f \in Fields |-> IF f \in changes[r].fields THEN r ELSE @[f]]]
    /\ UNCHANGED <<legalVars, cached, providers>>

\* A provider's circuit state survives a change of its configuration.
applyPaymentProviderDraft(r) ==
    LET p == changes[r].target IN
    /\ IF p # 0 THEN providers' = [providers EXCEPT ![p].from = r]
       ELSE /\ Len(providers) < MaxProviders
            /\ providers' = Append(providers, [from |-> r, isCircuitBroken |-> FALSE])
    /\ UNCHANGED <<legalVars, settings, cached>>

applyChangeRequest(c) ==
    LET r == console[c].request IN
    \/ publishes(c, "saas_tenant_risk_envelope") /\ applySaasTenantRiskEnvelopeDraft(r)
    \/ publishes(c, "payment_provider") /\ applyPaymentProviderDraft(r)
    \/ /\ publishes(c, "legal_document")
       /\ publishLegalDocumentVersion(changes[r].document, changes[r].rollout, console[c].seen, r)
       /\ UNCHANGED <<settings, cached, providers>>
    \/ systemConfigIsCommitted(c)

\* The row keeps the target the change was applied to, but the payload a
\* later publication reads does not change.
publishControlChangeRequest(c) ==
    /\ applyChangeRequest(c)
    /\ changes' = [changes EXCEPT ![console[c].request].status = "published",
                                  ![console[c].request].applied = @ + 1]
    /\ done(c)

documentIsEdited(c) ==
    /\ \/ console[c].op = "update" /\ updateLegalDocument(console[c].document)
       \/ console[c].op = "delete" /\ deleteLegalDocument(console[c].document)
    /\ done(c)
    /\ UNCHANGED <<changes, settings, cached, providers>>

\* A check that fails, a lost connection: the transaction rolls back, the
\* cache does not.
rollsBack(c) ==
    /\ console[c] # AtRest
    /\ done(c)
    /\ UNCHANGED <<legalVars, changes, settings, cached, providers>>

\* tripPaymentProviderCircuitBreaker and resetPaymentProviderCircuitBreaker.
updateProviderCircuitState(p, tripped) ==
    /\ providers' = [providers EXCEPT ![p].isCircuitBroken = tripped]
    /\ UNCHANGED <<legalVars, changes, console, settings, cached>>

commits(c) ==
    \/ submitControlChangeRequest(c)
    \/ approveControlChangeRequest(c)
    \/ rejectControlChangeRequest(c)
    \/ publishControlChangeRequest(c)
    \/ documentIsEdited(c)
    \/ rollsBack(c)

configDrafts(r, a) ==
    \/ createSystemConfigDraft(r, a)
    \/ createSaasTenantRiskEnvelopeDraft(r, a)
    \/ createPaymentProviderDraft(r, a)

ConfigNext ==
    \/ \E r \in Requests, a \in Admins : configDrafts(r, a)
    \/ \E p \in DOMAIN providers, tripped \in BOOLEAN : updateProviderCircuitState(p, tripped)
    \/ \E f \in Fields : cacheEntryExpires(f) \/ getConfigRowsByKeys(f)
    \/ \E c \in Consoles : getBlackjackConfig(c) \/ applySystemConfigDraft(c)

LegalNext ==
    \/ \E c \in Consoles, a \in Admins : buildLegalDocumentPublishPayload(c, a)
    \/ \E c \in Consoles, r \in Requests : createLegalDocumentPublishDraft(c, r)
    \/ createLegalDocument /\ UNCHANGED changeVars
    \/ \E c \in Consoles, d \in DOMAIN documents, op \in {"update", "delete"} :
            assertDocumentMutable(c, op, d)

ReviewNext ==
    \/ \E c \in Consoles, r \in Requests, a \in Admins,
          op \in {"submit", "approve", "reject", "publish"} : readChangeRequest(c, op, r, a)
    \/ \E c \in Consoles : commits(c)

ChangeControlSpec ==
    ChangeControlInit /\ [][ConfigNext \/ LegalNext \/ ReviewNext]_allChangeVars

-----------------------------------------------------------------------------
ChangeControlTypeOK ==
    /\ LegalTypeOK
    /\ \A r \in Requests :
        /\ changes[r].kind \in Kinds \cup {"none"}
        /\ changes[r].status \in QUEUED_CHANGE_REQUEST_STATUSES \cup FINALIZED \cup {"none"}
        /\ changes[r].target \in 0..Len(providers)
    /\ Len(providers) \in 1..MaxProviders
    /\ settings \in [Targets -> [Fields -> Requests \cup {Nobody}]]
    /\ cached \in [Fields -> Requests \cup {Nobody, NotCached}]

(***************************************************************************)
(* What is in force was approved: a setting, a provider's configuration or *)
(* a publication comes from a request that an administrator other than its *)
(* author approved, even when stale submissions, approvals and rejections  *)
(* overwrite each other, and when a blackjack limit is written back from a *)
(* cache that holds what a publication left that never committed.          *)
(***************************************************************************)
InForceWasApproved ==
    LET origins == {settings[t][f] : t \in Targets, f \in Fields}
                   \cup {providers[p].from : p \in DOMAIN providers}
                   \cup {publications[i].request : i \in DOMAIN publications}
    IN  \A r \in origins \ {Nobody} :
            changes[r].approvedBy \notin {Nobody, changes[r].createdBy}

(***************************************************************************)
(* A setting changes only with the publication of a change that carries    *)
(* it: runtime config changes are drafted first, then approved and         *)
(* published.                                                              *)
(***************************************************************************)
ChangesAreDrafted ==
    [][\A t \in Targets, f \in Fields :
        settings'[t][f] # settings[t][f] =>
            \E r \in Requests :
                changes'[r].applied = changes[r].applied + 1 /\ f \in changes[r].fields]_changeVars
=============================================================================
