-------------------------- MODULE BackOfficeProofs ---------------------------
(***************************************************************************)
(* Theorems about the back office: the KYC review, for any number of       *)
(* concurrent requests, change control, for any number of administrators,  *)
(* requests, sessions, settings and versions, and the types of the two     *)
(* delivery queues, for any number of rows and workers.  They share no     *)
(* state; each part below stands on its own.                               *)
(***************************************************************************)
EXTENDS BackOffice, SumTheorems, TLAPS

(***************************************************************************)
(* The KYC review: while a review is open the user is frozen.              *)
(***************************************************************************)
KycStatuses == {"not_started", "pending", "approved", "rejected", "more_info_required"}

ProfileRow ==
    [status : KycStatuses, currentTier : Tiers, requestedTier : Tiers,
     submissionVersion : Nat, activeSubmissionVersion : Nat, freezeRecordId : Nat]

FreezeRow == [scope : Scopes, reason : {KYC_FREEZE_REASON}, active : BOOLEAN]

Ops == {"submit", "review", "reverify"}

(***************************************************************************)
(* What a request holds between its steps.  After it has read the freezes: *)
(* a submission or reverification found none it would not release, since   *)
(* every active record is KYC's, so it is going to insert one; a request   *)
(* for more information releases none.                                     *)
(***************************************************************************)
WorkOK(w) ==
    /\ w.op \in Ops
    /\ w.seen \in ProfileRow
    /\ w.op = "submit" => w.arg \in Tiers
    /\ w.op = "review" => w.arg \in {"approved", "rejected", "request_more_info"}
    /\ w.step \in {"profile", "freezes"}
    /\ w.step = "freezes" =>
        /\ w.found \in Nat
        /\ w.op # "review" => w.found = 0
        /\ w.op = "review" /\ w.arg = "request_more_info" => w.gone = {}

KycTypeOK ==
    /\ profile \in ProfileRow
    /\ freezes \in Seq(FreezeRow)
    /\ desk = [k \in Desks |-> desk[k]]
    /\ \A k \in Desks : desk[k] = atRest \/ WorkOK(desk[k])
    /\ sweep.op \in {"none", "found", "reverify"}
    /\ sweep.op = "reverify" => WorkOK(sweep)

KycInv == KycTypeOK /\ OpenReviewIsFrozen

-----------------------------------------------------------------------------
(* Freeze records *)

LEMMA FreezesFacts ==
    ASSUME NEW rows \in Seq(FreezeRow)
    PROVE  /\ Len(rows) \in Nat
           /\ DOMAIN rows = 1..Len(rows)
           /\ \A i \in DOMAIN rows : rows[i] \in FreezeRow
OBVIOUS

\* A function on the positions of a list of freezes is such a list.
LEMMA FreezesAsFunction ==
    ASSUME NEW rows \in Seq(FreezeRow), NEW f \in [DOMAIN rows -> FreezeRow]
    PROVE  f \in Seq(FreezeRow) /\ Len(f) = Len(rows)
BY FreezesFacts

LEMMA ReleaseKeepsRows ==
    ASSUME NEW rows \in Seq(FreezeRow), NEW ids
    PROVE  /\ releaseUserFreeze(rows, ids) \in Seq(FreezeRow)
           /\ Len(releaseUserFreeze(rows, ids)) = Len(rows)
           /\ ids = {} => releaseUserFreeze(rows, ids) = rows
<1>1. releaseUserFreeze(rows, ids) \in [DOMAIN rows -> FreezeRow]
  BY FreezesFacts DEF releaseUserFreeze, FreezeRow
<1>2. ids = {} => releaseUserFreeze(rows, ids) = rows
  BY FreezesFacts DEF releaseUserFreeze
<1> QED
  BY <1>1, <1>2, FreezesAsFunction

\* "after" keeps the active records of "rows", and has one if none was found.
EnsuresFreeze(rows, after, found) ==
    /\ after \in Seq(FreezeRow)
    /\ \A i \in DOMAIN rows : i \in DOMAIN after /\ after[i].active = rows[i].active
    /\ found = 0 => \E i \in DOMAIN after : after[i].active

(***************************************************************************)
(* Ensuring a freeze keeps the active records, and inserts an active one   *)
(* when none was found.                                                    *)
(***************************************************************************)
LEMMA EnsureKeepsRows ==
    ASSUME NEW rows \in Seq(FreezeRow), NEW found \in Nat, NEW scope \in Scopes,
           NEW after, after = ensureUserFreeze(rows, found, scope, KYC_FREEZE_REASON)
    PROVE  EnsuresFreeze(rows, after, found)
<1> USE DEF EnsuresFreeze
<1>1. CASE found # 0
  <2>1. after = [rows EXCEPT ![found].reason = KYC_FREEZE_REASON]
    BY <1>1 DEF ensureUserFreeze
  <2>2. \A i \in DOMAIN rows :
            after[i] \in FreezeRow /\ after[i].active = rows[i].active
    <3> TAKE i \in DOMAIN rows
    <3>1. rows[i] \in FreezeRow
      BY FreezesFacts
    <3> QED
      BY <2>1, <3>1 DEF FreezeRow
  <2>3. after \in [DOMAIN rows -> FreezeRow]
    <3>1. after = [i \in DOMAIN rows |-> after[i]]
      BY <2>1
    <3> QED
      BY <2>2, <3>1
  <2> QED
    BY <1>1, <2>2, <2>3, FreezesAsFunction
<1>2. CASE found = 0
  <2> DEFINE new == [scope |-> scope, reason |-> KYC_FREEZE_REASON, active |-> TRUE]
  <2>1. after = Append(rows, new) /\ new \in FreezeRow /\ new.active
    BY <1>2 DEF ensureUserFreeze, FreezeRow
  <2> HIDE DEF new
  <2>2. /\ after \in Seq(FreezeRow)
        /\ DOMAIN after = 1..(Len(rows) + 1)
        /\ after[Len(rows) + 1] = new
        /\ \A i \in 1..Len(rows) : after[i] = rows[i]
    BY <2>1, FreezesFacts
  <2> QED
    BY <2>1, <2>2, FreezesFacts
<1> QED
  BY <1>1, <1>2

-----------------------------------------------------------------------------
(* A request's steps *)

LEMMA ReadsFreezesOK ==
    ASSUME freezes \in Seq(FreezeRow), NEW w, WorkOK(w)
    PROVE  WorkOK(readsFreezes(w))
<1> DEFINE gone == releases(w)
           scope == scopeFor(requestTier(w))
           rest == activeFreezes(scope) \ gone
<1>1. latestFreeze(scope, gone) \in Nat
  <2>1. /\ {0} \cup rest \in SUBSET (0..Len(freezes))
        /\ 0 \in {0} \cup rest
    BY FreezesFacts DEF activeFreezes
  <2>2. Max({0} \cup rest) \in {0} \cup rest
    BY <2>1, FreezesFacts, MaxOfNaturals
  <2> QED
    BY <2>1, <2>2, FreezesFacts DEF latestFreeze
<1>2. w.op # "review" => latestFreeze(scope, gone) = 0
  <2> SUFFICES ASSUME w.op # "review"
               PROVE  latestFreeze(scope, gone) = 0
    OBVIOUS
  <2>1. activeFreezes(scope) \subseteq gone
    BY FreezesFacts DEF activeFreezes, releases, kycFreezes, FreezeRow
  <2>2. {0} \cup rest = {0}
    BY <2>1
  <2>3. Max({0}) = 0
    BY DEF Max
  <2> QED
    BY <2>2, <2>3 DEF latestFreeze
<1>3. w.op = "review" /\ w.arg = "request_more_info" => gone = {}
  BY DEF releases
<1>4. /\ readsFreezes(w).op = w.op
      /\ readsFreezes(w).arg = w.arg
      /\ readsFreezes(w).seen = w.seen
      /\ readsFreezes(w).step = "freezes"
      /\ readsFreezes(w).gone = gone
      /\ readsFreezes(w).found \in {0, latestFreeze(scope, gone)}
  BY DEF readsFreezes
<1> HIDE DEF gone, scope
<1> QED
  BY <1>1, <1>2, <1>3, <1>4 DEF WorkOK

LEMMA CommitKeepsProfile ==
    ASSUME KycTypeOK, NEW w, WorkOK(w), commitOf(w)
    PROVE  profile' \in ProfileRow
<1>1. profile \in ProfileRow /\ w.seen \in ProfileRow
  BY DEF KycTypeOK, WorkOK
<1>2. ensuredId(freezes, w.found) \in Nat
  BY FreezesFacts DEF ensuredId, KycTypeOK, WorkOK, commitOf
<1>3. CASE submitted(w) /\ w.op = "submit"
  <2> DEFINE id == ensuredId(freezes, w.found)
  <2>1. w.arg \in Tiers /\ "pending" \in KycStatuses
    BY <1>3 DEF WorkOK, KycStatuses
  <2>2. w.seen.submissionVersion + 1 \in Nat
    BY <1>1 DEF ProfileRow
  <2>3. profile' = [w.seen EXCEPT !.status = "pending", !.requestedTier = w.arg,
                                  !.submissionVersion = w.seen.submissionVersion + 1,
                                  !.freezeRecordId = id]
    BY <1>1, <1>3 DEF submitted, ProfileRow
  <2> HIDE DEF id
  <2> QED
    BY <1>1, <1>2, <2>1, <2>2, <2>3 DEF ProfileRow, id
<1>4. CASE reviewed(w) /\ w.op = "review"
  <2>1. tierAfter(w.seen, w.arg) \in Tiers
    BY <1>1 DEF tierAfter, ProfileRow
  <2>2. reviewStatus(w.arg) \in KycStatuses
    BY <1>4 DEF reviewStatus, KycStatuses, WorkOK
  <2>3. /\ (IF w.arg = "approved" THEN 0 ELSE w.seen.requestedTier) \in Tiers
        /\ (IF w.arg = "approved" THEN w.seen.submissionVersion
            ELSE w.seen.activeSubmissionVersion) \in Nat
        /\ (IF freezesAfterwards(w) THEN ensuredId(freezes, w.found)
            ELSE w.seen.freezeRecordId) \in Nat
    BY <1>1, <1>2 DEF ProfileRow, Tiers
  <2> QED
    BY <1>1, <1>4, <2>1, <2>2, <2>3 DEF reviewed, ProfileRow
<1>5. CASE reverified(w)
  <2>1. withdrawn(w, profile) \in ProfileRow
    <3>1. 0 \in Tiers /\ w.seen.currentTier \in Tiers /\ "more_info_required" \in KycStatuses
      BY <1>1 DEF ProfileRow, Tiers, KycStatuses
    <3> QED
      BY <1>1, <3>1 DEF withdrawn, ProfileRow
  <2>2. profile' = [withdrawn(w, profile) EXCEPT !.freezeRecordId = ensuredId(freezes, w.found)]
    BY <1>5 DEF reverified
  <2> QED
    BY <1>2, <2>1, <2>2 DEF ProfileRow
<1> QED
  BY <1>3, <1>4, <1>5 DEF commitOf

(***************************************************************************)
(* A commit leaves an active freeze when it leaves the review open: a      *)
(* submission or reverification inserts one, and a request for more        *)
(* information meets a pending profile, which is frozen, and releases      *)
(* nothing.                                                                *)
(***************************************************************************)
LEMMA CommitKeepsFreeze ==
    ASSUME KycInv, NEW w, WorkOK(w), commitOf(w)
    PROVE  freezes' \in Seq(FreezeRow) /\ OpenReviewIsFrozen'
<1> DEFINE released == releaseUserFreeze(freezes, w.gone)
           scope == scopeFor(requestTier(w))
<1>1. /\ freezes \in Seq(FreezeRow)
      /\ profile \in ProfileRow
      /\ w.step = "freezes"
      /\ w.found \in Nat
      /\ w.op # "review" => w.found = 0
      /\ w.op = "review" /\ w.arg = "request_more_info" => w.gone = {}
  BY DEF KycInv, KycTypeOK, WorkOK, commitOf
<1>2. /\ released \in Seq(FreezeRow)
      /\ w.gone = {} => released = freezes
  BY <1>1, ReleaseKeepsRows
<1>3. scope \in Scopes
  BY DEF scopeFor, Scopes
<1> HIDE DEF released, scope
<1>4. CASE freezesAfterwards(w)
  <2> DEFINE after == ensureUserFreeze(released, w.found, scope, KYC_FREEZE_REASON)
  <2>1. freezes' = after
    BY <1>4 DEF commitOf, freezesAre, released, scope
  <2>6. after = ensureUserFreeze(released, w.found, scope, KYC_FREEZE_REASON)
    OBVIOUS
  <2> HIDE DEF after
  <2>5. /\ after \in Seq(FreezeRow)
        /\ \A i \in DOMAIN released :
            i \in DOMAIN after /\ after[i].active = released[i].active
        /\ w.found = 0 => \E i \in DOMAIN after : after[i].active
    <3>1. EnsuresFreeze(released, after, w.found)
      BY <1>1, <1>2, <1>3, <2>6, EnsureKeepsRows
    <3> QED
      BY <3>1 DEF EnsuresFreeze
  <2>2. /\ freezes' \in Seq(FreezeRow)
        /\ \A i \in DOMAIN released :
            i \in DOMAIN freezes' /\ freezes'[i].active = released[i].active
        /\ w.found = 0 => \E i \in DOMAIN freezes' : freezes'[i].active
    BY <2>1, <2>5
  <2>3. CASE w.op # "review"
    BY <1>1, <2>2, <2>3 DEF OpenReviewIsFrozen
  <2>4. CASE w.op = "review"
    <3>1. w.arg = "request_more_info" /\ profile.status = "pending"
      BY <1>4, <2>4 DEF commitOf, freezesAfterwards, reviewed
    <3>2. PICK i \in DOMAIN freezes : freezes[i].active
      BY <3>1 DEF KycInv, OpenReviewIsFrozen
    <3> QED
      BY <1>1, <1>2, <2>2, <2>4, <3>1, <3>2 DEF OpenReviewIsFrozen
  <2> QED
    BY <2>3, <2>4
<1>5. CASE ~freezesAfterwards(w)
  <2>1. freezes' = released
    BY <1>5 DEF commitOf, freezesAre, released
  <2>2. w.op = "review" /\ w.arg \in {"approved", "rejected"} /\ reviewed(w)
    BY <1>5 DEF freezesAfterwards, commitOf, WorkOK
  <2>3. profile'.status = w.arg
    BY <1>1, <2>2 DEF reviewed, reviewStatus, ProfileRow
  <2> QED
    BY <1>2, <2>1, <2>2, <2>3 DEF OpenReviewIsFrozen
<1> QED
  BY <1>4, <1>5

-----------------------------------------------------------------------------
LEMMA KycInitInv == KycInit => KycInv
<1> SUFFICES ASSUME KycInit PROVE KycInv
  OBVIOUS
<1>1. profile \in ProfileRow
  BY DEF KycInit, ProfileRow, KycStatuses, Tiers
<1>2. freezes \in Seq(FreezeRow)
  BY DEF KycInit
<1>3. \A k \in Desks : desk[k] = atRest
  BY DEF KycInit
<1>4. desk = [k \in Desks |-> desk[k]]
  BY DEF KycInit
<1>5. sweep.op = "none"
  BY DEF KycInit, atRest
<1>6. OpenReviewIsFrozen
  BY DEF KycInit, OpenReviewIsFrozen
<1> QED
  BY <1>1, <1>2, <1>3, <1>4, <1>5, <1>6 DEF KycInv, KycTypeOK

LEMMA DeskStepInv ==
    ASSUME KycInv, NEW k \in Desks,
           \/ \E tier \in Tiers \ {0} : submitKycProfile(k, tier)
           \/ \E decision \in {"approved", "rejected", "request_more_info"} :
                reviewKycProfile(k, decision)
           \/ triggerKycReverification(k)
           \/ deskReadsFreezes(k)
           \/ deskCommits(k)
           \/ deskRollsBack(k)
    PROVE  KycInv'
<1> USE DEF KycInv
<1>1. ASSUME NEW op \in Ops, NEW arg, readsProfile(k, op, arg),
             op = "submit" => arg \in Tiers,
             op = "review" => arg \in {"approved", "rejected", "request_more_info"}
      PROVE  KycInv'
  <2> DEFINE w == [op |-> op, arg |-> arg, seen |-> profile, step |-> "profile"]
  <2>1. WorkOK(w)
    BY <1>1 DEF WorkOK, KycTypeOK
  <2>2. desk' = [desk EXCEPT ![k] = w] /\ UNCHANGED <<profile, papers, freezes, sweep>>
    BY <1>1 DEF readsProfile
  <2> HIDE DEF w
  <2>3. KycTypeOK'
    BY <2>1, <2>2 DEF KycTypeOK, WorkOK
  <2> QED
    BY <2>2, <2>3 DEF OpenReviewIsFrozen
<1>2. CASE deskReadsFreezes(k)
  <2>1. WorkOK(desk[k])
    BY <1>2 DEF deskReadsFreezes, KycTypeOK
  <2>2. WorkOK(readsFreezes(desk[k]))
    BY <2>1, ReadsFreezesOK DEF KycTypeOK
  <2>3. /\ desk' = [desk EXCEPT ![k] = readsFreezes(desk[k])]
        /\ UNCHANGED <<profile, papers, freezes, sweep>>
    BY <1>2 DEF deskReadsFreezes, KycTypeOK
  <2>4. KycTypeOK'
    BY <2>2, <2>3 DEF KycTypeOK, WorkOK
  <2> QED
    BY <2>3, <2>4 DEF OpenReviewIsFrozen
<1>3. CASE deskCommits(k)
  <2>1. WorkOK(desk[k]) /\ commitOf(desk[k])
    BY <1>3 DEF deskCommits, KycTypeOK
  <2>2. profile' \in ProfileRow /\ freezes' \in Seq(FreezeRow) /\ OpenReviewIsFrozen'
    BY <2>1, CommitKeepsProfile, CommitKeepsFreeze
  <2>3. desk' = [desk EXCEPT ![k] = atRest] /\ UNCHANGED sweep
    BY <1>3 DEF deskCommits
  <2>4. KycTypeOK'
    BY <2>2, <2>3 DEF KycTypeOK, WorkOK
  <2> QED
    BY <2>2, <2>4
<1>4. CASE deskRollsBack(k)
  <2>1. desk' = [desk EXCEPT ![k] = atRest] /\ UNCHANGED <<profile, papers, freezes, sweep>>
    BY <1>4 DEF deskRollsBack
  <2>2. KycTypeOK'
    BY <2>1 DEF KycTypeOK, WorkOK
  <2> QED
    BY <2>1, <2>2 DEF OpenReviewIsFrozen
<1> QED
  BY <1>1, <1>2, <1>3, <1>4
     DEF submitKycProfile, reviewKycProfile, triggerKycReverification, Ops

LEMMA SweepStepInv ==
    ASSUME KycInv, runKycReverificationSweep
    PROVE  KycInv'
<1> USE DEF KycInv
<1>1. CASE sweepFinds
  BY <1>1 DEF sweepFinds, KycTypeOK, WorkOK, OpenReviewIsFrozen
<1>2. CASE sweepReadsProfile
  <2> DEFINE w == [op |-> "reverify", arg |-> "document_expired", seen |-> profile,
                   step |-> "profile"]
  <2>1. WorkOK(w) /\ w.op = "reverify" /\ atRest.op = "none"
    BY DEF WorkOK, KycTypeOK, Ops, atRest
  <2>2. sweep' \in {w, atRest} /\ UNCHANGED <<profile, papers, freezes, desk>>
    BY <1>2 DEF sweepReadsProfile
  <2> HIDE DEF w
  <2>3. KycTypeOK'
    BY <2>1, <2>2 DEF KycTypeOK, WorkOK
  <2> QED
    BY <2>2, <2>3 DEF OpenReviewIsFrozen
<1>3. CASE sweepReadsFreezes
  <2>1. WorkOK(readsFreezes(sweep))
    BY <1>3, ReadsFreezesOK DEF sweepReadsFreezes, KycTypeOK
  <2>2. sweep' = readsFreezes(sweep) /\ UNCHANGED <<profile, papers, freezes, desk>>
    BY <1>3 DEF sweepReadsFreezes
  <2>3. readsFreezes(sweep).op = "reverify"
    BY <1>3 DEF sweepReadsFreezes, readsFreezes
  <2>4. KycTypeOK'
    BY <2>1, <2>2, <2>3 DEF KycTypeOK, WorkOK
  <2> QED
    BY <2>2, <2>4 DEF OpenReviewIsFrozen
<1>4. CASE sweepCommits
  <2>1. WorkOK(sweep) /\ commitOf(sweep)
    BY <1>4 DEF sweepCommits, KycTypeOK
  <2>2. profile' \in ProfileRow /\ freezes' \in Seq(FreezeRow) /\ OpenReviewIsFrozen'
    BY <2>1, CommitKeepsProfile, CommitKeepsFreeze
  <2>3. sweep' = atRest /\ atRest.op = "none" /\ UNCHANGED desk
    BY <1>4 DEF sweepCommits, atRest
  <2>4. KycTypeOK'
    BY <2>2, <2>3 DEF KycTypeOK, WorkOK
  <2> QED
    BY <2>2, <2>4
<1> QED
  BY <1>1, <1>2, <1>3, <1>4 DEF runKycReverificationSweep

LEMMA KycStepInv == KycInv /\ [KycNext]_kycVars => KycInv'
<1> SUFFICES ASSUME KycInv, [KycNext]_kycVars PROVE KycInv'
  OBVIOUS
<1>1. ASSUME NEW d \in papers, paperExpires(d) PROVE KycInv'
  BY <1>1 DEF paperExpires, KycInv, KycTypeOK, WorkOK, OpenReviewIsFrozen
<1>2. CASE UNCHANGED kycVars
  BY <1>2 DEF kycVars, KycInv, KycTypeOK, WorkOK, OpenReviewIsFrozen
<1> QED
  BY <1>1, <1>2, DeskStepInv, SweepStepInv DEF KycNext

(***************************************************************************)
(* While a submission waits for review or for more information the user is *)
(* frozen, however many requests and the sweep overlap, although each of   *)
(* them releases and inserts freezes from what it read before              *)
(* (ensureUserFreeze, releaseUserFreezeByFilter).                          *)
(***************************************************************************)
THEOREM OpenReviewAlwaysFrozen == KycSpec => []OpenReviewIsFrozen
<1>1. KycInv => OpenReviewIsFrozen
  BY DEF KycInv
<1> QED
  BY <1>1, KycInitInv, KycStepInv, PTL DEF KycSpec

-----------------------------------------------------------------------------
(***************************************************************************)
(* Change control: what is in force was approved by another administrator  *)
(* than its author, and a published legal document always has a full       *)
(* release.                                                                *)
(***************************************************************************)
DocumentRow == [version : Nat, text : 0..MaxEdits, deleted : BOOLEAN]

PublicationRow ==
    [document : Nat, mode : {"stable", "rollback", "gray"}, rollout : Rollouts, fallback : Nat,
     active : BOOLEAN, request : Requests \cup {Nobody}, text : 0..MaxEdits]

ProviderRow == [from : Requests \cup {Nobody}, isCircuitBroken : BOOLEAN]

RequestRow ==
    [status : QUEUED_CHANGE_REQUEST_STATUSES \cup FINALIZED \cup {"none"}, kind : Kinds \cup {"none"},
     createdBy : Admins \cup {Nobody}, approvedBy : Admins \cup {Nobody},
     fields : SUBSET Fields, document : Nat, rollout : Rollouts, target : Nat, applied : Nat]

Publishing == {"publish", "apply", "applied"}

ReviewOps == {"submit", "approve", "reject"} \cup Publishing

ConfigRow == [Fields -> Requests \cup {Nobody}]

SessionRow ==
    [op : ReviewOps, request : Requests, admin : Admins, seen : SUBSET Nat, config : ConfigRow]

DraftRow == [op : {"draft"}, admin : Admins, document : Nat, rollout : Rollouts]

ConsoleType ==
    {AtRest} \cup SessionRow \cup DraftRow \cup [op : {"update", "delete"}, document : Nat]

ControlTypes ==
    /\ documents \in Seq(DocumentRow)
    /\ publications \in Seq(PublicationRow)
    /\ cascaded \in BOOLEAN
    /\ changes \in [Requests -> RequestRow]
    /\ console \in [Consoles -> ConsoleType]
    /\ settings \in [Targets -> ConfigRow]
    /\ cached \in [Fields -> Requests \cup {Nobody, NotCached}]
    /\ providers \in Seq(ProviderRow)
    /\ \A c \in Consoles : console[c].op \in ReviewOps => console[c].seen \subseteq DOMAIN publications

(***************************************************************************)
(* A request was approved, by another than its author.  A session that     *)
(* read it before keeps what it read true: an approval is never withdrawn, *)
(* and an author never changes.                                            *)
(***************************************************************************)
Approved(r) ==
    /\ r \in Requests
    /\ changes[r].status # "none"
    /\ changes[r].approvedBy \notin {Nobody, changes[r].createdBy}

FromApproved(r) == r = Nobody \/ Approved(r)

SessionOK(s) ==
    /\ s.op \in ReviewOps => changes[s.request].status # "none"
    /\ s.op = "approve" => changes[s.request].createdBy # s.admin
    /\ s.op \in Publishing => Approved(s.request) /\ \A f \in Fields : FromApproved(s.config[f])

\* What the cache holds comes from a change that may have been rolled back.
CacheOK == \A f \in Fields : cached[f] = NotCached \/ FromApproved(cached[f])

ApprovalsOK ==
    /\ \A r \in Requests : changes[r].status = "approved" => Approved(r)
    /\ \A c \in Consoles : SessionOK(console[c])
    /\ \A t \in Targets, f \in Fields : FromApproved(settings[t][f])
    /\ CacheOK
    /\ \A p \in DOMAIN providers : FromApproved(providers[p].from)
    /\ \A i \in DOMAIN publications : FromApproved(publications[i].request)

(***************************************************************************)
(* What a session that publishes has seen.  Everything active that it did  *)
(* not see is later than all it saw.  If it saw a full release, the latest *)
(* of these, which it will leave, is still active, or there is a full one  *)
(* that it did not see.                                                    *)
(***************************************************************************)
fullIn(i) == i \in DOMAIN publications /\ publications[i].active /\ ~isGray(i)

lastFull(S, f) == f \in S /\ ~isGray(f) /\ \A i \in S : ~isGray(i) => i <= f

SeenOK(S) ==
    /\ \A i \in DOMAIN publications \ S : \A j \in S : i < j => ~publications[i].active
    /\ \A f \in S : lastFull(S, f) => \E y \in DOMAIN publications : fullIn(y) /\ (y \notin S \/ y = f)

ReleasesOK ==
    ~cascaded =>
        /\ publications # <<>> => \E y \in DOMAIN publications : fullIn(y)
        /\ \A c \in Consoles : console[c].op = "publish" => SeenOK(console[c].seen)

(* References between the tables, and their bounds. *)
ReferencesOK ==
    /\ \A d \in DOMAIN documents : documents[d].version \in 1..d
    /\ \A i \in DOMAIN publications :
        /\ publications[i].document \in DOMAIN documents
        /\ publications[i].fallback \in 0..(i - 1)
        /\ (publications[i].mode = "gray") = (publications[i].rollout < 100)
    /\ \A r \in Requests : changes[r].target \in 0..Len(providers)
    /\ Len(providers) \in 1..MaxProviders

(***************************************************************************)
(* The inductive invariant.                                                *)
(***************************************************************************)
ControlInv == ControlTypes /\ ReferencesOK /\ ApprovalsOK /\ ReleasesOK

-----------------------------------------------------------------------------
(* Rows and lists *)

LEMMA PublicationsAreRows ==
    ASSUME ControlTypes
    PROVE  /\ Len(publications) \in Nat
           /\ DOMAIN publications = 1..Len(publications)
           /\ \A i \in DOMAIN publications : publications[i] \in PublicationRow
  BY DEF ControlTypes

LEMMA DocumentsAreRows ==
    ASSUME ControlTypes
    PROVE  /\ Len(documents) \in Nat
           /\ DOMAIN documents = 1..Len(documents)
           /\ \A d \in DOMAIN documents : documents[d] \in DocumentRow
  BY DEF ControlTypes

\* A function on the positions of the publications is a list as long.
LEMMA PublicationsAsFunction ==
    ASSUME ControlTypes, NEW g \in [DOMAIN publications -> PublicationRow]
    PROVE  g \in Seq(PublicationRow) /\ Len(g) = Len(publications) /\ DOMAIN g = DOMAIN publications
  BY PublicationsAreRows

LEMMA SessionTypes ==
    ASSUME ControlTypes, NEW c \in Consoles
    PROVE  /\ console[c].op \in ReviewOps => console[c] \in SessionRow
           /\ console[c].op = "draft" => console[c] \in DraftRow
           /\ console[c].op \in {"update", "delete"} => console[c].document \in Nat
           /\ AtRest \in ConsoleType /\ AtRest.op = "none"
           /\ SessionRow \subseteq ConsoleType
<1>1. AtRest.op = "none" /\ AtRest \in ConsoleType
  BY DEF AtRest, ConsoleType
<1>2. console[c] \in ConsoleType
  BY DEF ControlTypes
<1>3. \A s \in SessionRow : s.op \in ReviewOps
  BY DEF SessionRow
<1>4. \A s \in [op : {"update", "delete"}, document : Nat] :
        s.op \notin ReviewOps /\ s.op # "draft" /\ s.document \in Nat
  BY DEF ReviewOps, Publishing
<1>5. \A s \in DraftRow : s.op = "draft"
  BY DEF DraftRow
<1> QED
  BY <1>1, <1>2, <1>3, <1>4, <1>5 DEF ConsoleType, ReviewOps, Publishing

(***************************************************************************)
(* latestOf a set of publications is its greatest element, 0 for none.     *)
(***************************************************************************)
LEMMA LatestOfIds ==
    ASSUME NEW n \in Nat, NEW S \in SUBSET (1..n)
    PROVE  /\ S = {} => latestOf(S) = 0
           /\ S # {} => latestOf(S) \in S
           /\ latestOf(S) \in 0..n
           /\ \A i \in S : i <= latestOf(S)
           /\ latestOf(S) = 0 <=> S = {}
<1> DEFINE T == {0} \cup S
<1>1. T \in SUBSET (0..n) /\ 0 \in T
  OBVIOUS
<1> HIDE DEF T
<1>2. Max(T) \in T /\ \A m \in T : Max(T) >= m
  BY <1>1, MaxOfNaturals
<1>3. latestOf(S) = Max(T)
  BY DEF latestOf, T
<1>4. PICK m : m = latestOf(S)
  OBVIOUS
<1>5. m \in {0} \cup S /\ \A i \in {0} \cup S : m >= i
  BY <1>2, <1>3, <1>4 DEF T
<1>6. {0} \cup S \subseteq 0..n /\ \A i \in S : i # 0 /\ i \in Nat
  OBVIOUS
<1>7. m \in 0..n
  BY <1>5, <1>6
<1>8. \A i \in S : i <= m /\ i > 0
  BY <1>5, <1>6, <1>7
<1>9. S # {} => m \in S
  <2> SUFFICES ASSUME S # {} PROVE m \in S
    OBVIOUS
  <2>1. PICK x \in S : TRUE
    OBVIOUS
  <2>2. x <= m /\ x > 0 /\ x \in Nat /\ m \in Nat
    BY <1>6, <1>7, <1>8
  <2>3. m # 0
    BY <2>2
  <2> QED
    BY <1>5, <2>3
<1> QED
  BY <1>4, <1>5, <1>7, <1>8, <1>9

(***************************************************************************)
(* The release a gray one falls back to is the latest full one it saw,     *)
(* and otherwise one it saw.                                               *)
(***************************************************************************)
LEMMA FallbackIsLastFull ==
    ASSUME NEW n \in Nat, NEW S \in SUBSET (1..n)
    PROVE  /\ fallbackFor(S) \in S \cup {0}
           /\ (\E i \in S : ~isGray(i)) => lastFull(S, fallbackFor(S))
<1> DEFINE F == {i \in S : ~isGray(i)}
<1>1. F \in SUBSET (1..n)
  OBVIOUS
<1>2. fallbackFor(S) = IF latestOf(F) # 0 THEN latestOf(F) ELSE latestOf(S)
  BY DEF fallbackFor, orElse
<1> HIDE DEF F
<1>3. /\ F = {} => latestOf(F) = 0
      /\ F # {} => latestOf(F) \in F
      /\ \A i \in F : i <= latestOf(F)
      /\ latestOf(F) = 0 <=> F = {}
  BY <1>1, LatestOfIds
<1>4. (S = {} => latestOf(S) = 0) /\ (S # {} => latestOf(S) \in S)
  BY LatestOfIds
<1>5. CASE F = {}
  BY <1>2, <1>3, <1>4, <1>5 DEF F
<1>6. CASE F # {}
  BY <1>2, <1>3, <1>6 DEF F, lastFull
<1> QED
  BY <1>5, <1>6

-----------------------------------------------------------------------------
(* Publishing a version *)

(***************************************************************************)
(* What a publication does: what it supersedes is no longer active, and    *)
(* its own row is the last one.                                            *)
(***************************************************************************)
Published(rollout, S, r) ==
    LET n == Len(publications) + 1 IN
    /\ publications' \in Seq(PublicationRow)
    /\ DOMAIN publications' = DOMAIN publications \cup {n}
    /\ \A i \in DOMAIN publications :
        /\ publications'[i].document = publications[i].document
        /\ publications'[i].mode = publications[i].mode
        /\ publications'[i].rollout = publications[i].rollout
        /\ publications'[i].fallback = publications[i].fallback
        /\ publications'[i].request = publications[i].request
        /\ publications'[i].active = (publications[i].active /\ i \notin superseded(rollout, S))
    /\ publications'[n].active /\ publications'[n].request = r
    /\ publications'[n].document \in DOMAIN documents
    /\ publications'[n].rollout = rollout
    /\ publications'[n].fallback \in S \cup {0}
    /\ (publications'[n].mode = "gray") = (rollout < 100)
    /\ rollout < 100 => fallbackFor(S) # 0
    /\ UNCHANGED <<documents, cascaded>>

LEMMA PublishPublishes ==
    ASSUME ControlTypes, NEW d, NEW rollout \in Rollouts, NEW S \in SUBSET (DOMAIN publications),
           NEW r \in Requests, publishLegalDocumentVersion(d, rollout, S, r)
    PROVE  Published(rollout, S, r)
<1> DEFINE mode == releaseMode(d, rollout, S)
           fallback == IF mode = "gray" THEN fallbackFor(S) ELSE 0
           new == [document |-> d, mode |-> mode, rollout |-> rollout, fallback |-> fallback,
                   active |-> TRUE, request |-> r, text |-> documents[d].text]
           old == [i \in DOMAIN publications |->
                        IF i \in superseded(rollout, S)
                        THEN [publications[i] EXCEPT !.active = FALSE] ELSE publications[i]]
           n == Len(publications) + 1
<1>1. /\ publications' = Append(old, new) /\ UNCHANGED <<documents, cascaded>>
      /\ exists(d)
      /\ rollout < 100 => fallbackFor(S) # 0
  BY DEF publishLegalDocumentVersion, canPublish
<1>2. d \in DOMAIN documents /\ d \in Nat /\ documents[d].text \in 0..MaxEdits
  <2>1. d \in DOMAIN documents
    BY <1>1 DEF exists
  <2> QED
    BY <2>1, DocumentsAreRows DEF DocumentRow
<1>3. mode \in {"stable", "rollback", "gray"} /\ ((mode = "gray") = (rollout < 100))
  BY DEF releaseMode
<1>4. /\ Len(publications) \in Nat /\ DOMAIN publications = 1..Len(publications)
      /\ \A i \in DOMAIN publications : publications[i] \in PublicationRow
  BY PublicationsAreRows
<1>5. fallbackFor(S) \in S \cup {0}
  BY <1>4, FallbackIsLastFull
<1>6. fallback \in S \cup {0} /\ fallback \in Nat
  BY <1>4, <1>5
<1>7. new \in PublicationRow
  BY <1>2, <1>3, <1>6 DEF PublicationRow
<1>8. /\ old \in [DOMAIN publications -> PublicationRow]
      /\ \A i \in DOMAIN publications :
            /\ old[i].document = publications[i].document
            /\ old[i].mode = publications[i].mode
            /\ old[i].rollout = publications[i].rollout
            /\ old[i].fallback = publications[i].fallback
            /\ old[i].request = publications[i].request
            /\ old[i].active = (publications[i].active /\ i \notin superseded(rollout, S))
  <2>1. \A i \in DOMAIN publications : old[i] \in PublicationRow
    BY <1>4 DEF PublicationRow
  <2>2. ASSUME NEW i \in DOMAIN publications
        PROVE  /\ old[i].document = publications[i].document
               /\ old[i].mode = publications[i].mode
               /\ old[i].rollout = publications[i].rollout
               /\ old[i].fallback = publications[i].fallback
               /\ old[i].request = publications[i].request
               /\ old[i].active = (publications[i].active /\ i \notin superseded(rollout, S))
    <3>1. publications[i] \in PublicationRow
      BY <1>4
    <3>2. CASE i \in superseded(rollout, S)
      BY <3>1, <3>2 DEF PublicationRow
    <3>3. CASE i \notin superseded(rollout, S)
      BY <3>1, <3>3 DEF PublicationRow
    <3> QED
      BY <3>2, <3>3
  <2>3. old \in [DOMAIN publications -> PublicationRow]
    BY <2>1
  <2> QED
    BY <2>2, <2>3
<1>9. /\ new.active /\ new.request = r /\ new.document = d /\ new.rollout = rollout
      /\ new.fallback = fallback /\ new.mode = mode
  OBVIOUS
<1> HIDE DEF old, new, fallback, mode
<1>10. old \in Seq(PublicationRow) /\ Len(old) = Len(publications) /\ DOMAIN old = DOMAIN publications
  BY <1>8, PublicationsAsFunction
<1>11. /\ publications' \in Seq(PublicationRow)
       /\ DOMAIN publications' = DOMAIN publications \cup {n}
       /\ \A i \in DOMAIN publications : publications'[i] = old[i]
       /\ publications'[n] = new
  BY <1>1, <1>4, <1>7, <1>10
<1> QED
  BY <1>1, <1>2, <1>3, <1>6, <1>8, <1>9, <1>11 DEF Published

(***************************************************************************)
(* Two sessions on the same document: what another publishes from what it  *)
(* saw, S, keeps what this one saw, T, in order.  The hard case is two     *)
(* gray releases: the full release that T relies on may be among those     *)
(* superseded, and then the latest full one S saw, or one S did not see,   *)
(* takes its place.                                                        *)
(***************************************************************************)
LEMMA PublishKeepsSeen ==
    ASSUME ControlTypes, NEW rollout \in Rollouts, NEW S \in SUBSET (DOMAIN publications),
           NEW r, Published(rollout, S, r), SeenOK(S),
           NEW T \in SUBSET (DOMAIN publications), SeenOK(T)
    PROVE  SeenOK(T)'
<1>0. PICK n : n = Len(publications) + 1
  OBVIOUS
<1>1. /\ Len(publications) \in Nat /\ DOMAIN publications = 1..Len(publications)
  BY PublicationsAreRows
<1>2. /\ DOMAIN publications' = DOMAIN publications \cup {n}
      /\ \A i \in DOMAIN publications :
            /\ publications'[i].mode = publications[i].mode
            /\ publications'[i].active = (publications[i].active /\ i \notin superseded(rollout, S))
      /\ publications'[n].active
      /\ (publications'[n].mode = "gray") = (rollout < 100)
  BY <1>0 DEF Published
<1>3. n \notin DOMAIN publications /\ n \in Nat /\ \A i \in DOMAIN publications : i \in Nat /\ i < n
  BY <1>0, <1>1
<1>4. \A i \in DOMAIN publications : isGray(i)' <=> isGray(i)
  BY <1>2 DEF isGray
<1>5. \A i \in DOMAIN publications' \ T : \A j \in T : i < j => ~publications'[i].active
  <2> SUFFICES ASSUME NEW i \in DOMAIN publications' \ T, NEW j \in T, i < j
               PROVE  ~publications'[i].active
    OBVIOUS
  <2>1. j \in Nat /\ j < n
    BY <1>3
  <2>2. i # n
    BY <1>3, <2>1
  <2>3. i \in DOMAIN publications
    BY <1>2, <2>2
  <2> QED
    BY <2>3, <1>2 DEF SeenOK
<1>6. ASSUME NEW f \in T, lastFull(T, f)'
      PROVE  \E y \in DOMAIN publications' : fullIn(y)' /\ (y \notin T \/ y = f)
  <2>1. lastFull(T, f)
    BY <1>4, <1>6 DEF lastFull
  <2>2. CASE rollout >= 100
    <3>1. fullIn(n)' /\ n \notin T
      BY <1>2, <1>3, <2>2 DEF fullIn, isGray, Rollouts
    <3> QED
      BY <3>1, <1>2
  <2>3. CASE rollout < 100
    <3> DEFINE k == fallbackFor(S)
    <3>1. superseded(rollout, S) = S \ {k}
      BY <2>3 DEF superseded
    <3>2. PICK y \in DOMAIN publications : fullIn(y) /\ (y \notin T \/ y = f)
      BY <2>1 DEF SeenOK
    <3>3. \A x \in DOMAIN publications : fullIn(x) /\ (x \notin S \/ x = k) => fullIn(x)'
      BY <1>2, <1>4, <3>1 DEF fullIn
    <3>4. CASE y \notin S \/ y = k
      BY <1>2, <3>2, <3>3, <3>4
    <3>5. CASE y \in S /\ y # k
      <4>1. lastFull(S, k)
        BY <1>1, <3>2, <3>5, FallbackIsLastFull DEF fullIn
      <4> HIDE DEF k
      <4>2. k \in S /\ y <= k /\ y < k /\ ~isGray(k)
        BY <4>1, <3>2, <3>5, <1>3 DEF lastFull, fullIn
      <4>3. PICK z \in DOMAIN publications : fullIn(z) /\ (z \notin S \/ z = k)
        BY <4>1, <4>2 DEF SeenOK
      <4>4. fullIn(z)' /\ z \in DOMAIN publications'
        BY <3>3, <4>3, <1>2
      <4>5. SUFFICES z \in T => z = f
        BY <4>4
      <4>6. SUFFICES ASSUME z \in T, z # f PROVE FALSE
        OBVIOUS
      <4>7. z < f /\ ~isGray(z)
        BY <2>1, <4>3, <4>6, <1>3 DEF lastFull, fullIn
      <4>8. y < z
        <5>1. CASE z = k
          BY <5>1, <4>2
        <5>2. CASE z \notin S
          \* Active and not seen, it is later than all that S saw.
          <6>1. ~(z < k)
            BY <5>2, <4>2, <4>3 DEF SeenOK, fullIn
          <6> QED
            BY <6>1, <4>2, <5>2, <1>3
        <5> QED
          BY <5>1, <5>2, <4>3
      <4>9. y < f /\ y \notin T
        BY <4>7, <4>8, <3>2, <1>3
      <4> QED
        BY <4>9, <3>2 DEF SeenOK, fullIn
    <3> QED
      BY <3>4, <3>5
  <2> QED
    BY <2>2, <2>3 DEF Rollouts
<1> QED
  BY <1>5, <1>6 DEF SeenOK

(* After a publication a full release is active. *)
LEMMA PublishKeepsFull ==
    ASSUME ControlTypes, NEW rollout \in Rollouts, NEW S \in SUBSET (DOMAIN publications),
           NEW r, Published(rollout, S, r), SeenOK(S),
           publications # <<>> => \E y \in DOMAIN publications : fullIn(y)
    PROVE  \E y \in DOMAIN publications' : fullIn(y)'
<1>0. PICK n : n = Len(publications) + 1
  OBVIOUS
<1> DEFINE k == fallbackFor(S)
<1>1. /\ Len(publications) \in Nat /\ DOMAIN publications = 1..Len(publications)
  BY PublicationsAreRows
<1>2. /\ DOMAIN publications' = DOMAIN publications \cup {n}
      /\ \A i \in DOMAIN publications :
            /\ publications'[i].mode = publications[i].mode
            /\ publications'[i].active = (publications[i].active /\ i \notin superseded(rollout, S))
      /\ publications'[n].active
      /\ (publications'[n].mode = "gray") = (rollout < 100)
      /\ rollout < 100 => k # 0
  BY <1>0 DEF Published
<1>3. CASE rollout >= 100
  <2>1. fullIn(n)'
    BY <1>2, <1>3 DEF fullIn, isGray, Rollouts
  <2> QED
    BY <2>1, <1>2
<1>4. CASE rollout < 100
  <2>1. k \in S /\ superseded(rollout, S) = S \ {k}
    BY <1>1, <1>2, <1>4, FallbackIsLastFull DEF superseded
  <2>2. \A x \in DOMAIN publications : fullIn(x) /\ (x \notin S \/ x = k) => fullIn(x)'
    BY <1>2, <2>1 DEF fullIn, isGray
  <2>3. publications # <<>>
    BY <2>1
  <2>4. PICK y \in DOMAIN publications : fullIn(y)
    BY <2>3
  <2>5. CASE y \notin S
    BY <1>2, <2>2, <2>4, <2>5
  <2>6. CASE y \in S
    <3>1. lastFull(S, k)
      BY <1>1, <2>4, <2>6, FallbackIsLastFull DEF fullIn
    <3> HIDE DEF k
    <3>2. PICK z \in DOMAIN publications : fullIn(z) /\ (z \notin S \/ z = k)
      BY <2>1, <3>1 DEF SeenOK
    <3> QED
      BY <1>2, <2>2, <3>2
  <2> QED
    BY <2>5, <2>6
<1> QED
  BY <1>3, <1>4 DEF Rollouts

-----------------------------------------------------------------------------
(* What steps have in common *)

(* A request keeps its author, and its approval if it has one. *)
RequestsKept ==
    \A r \in Requests : changes[r].status # "none" =>
        /\ changes'[r].status # "none"
        /\ changes'[r].createdBy = changes[r].createdBy
        /\ \/ changes'[r].approvedBy = changes[r].approvedBy
           \/ changes'[r].approvedBy \notin {Nobody, changes[r].createdBy}

LEMMA ApprovalsStay ==
    ASSUME RequestsKept
    PROVE  /\ \A r : Approved(r) => Approved(r)'
           /\ \A r : FromApproved(r) => FromApproved(r)'
  BY DEF RequestsKept, Approved, FromApproved

(* A session that did not move is as good as before. *)
LEMMA SessionStays ==
    ASSUME ControlTypes, RequestsKept, NEW c \in Consoles, SessionOK(console[c]), console'[c] = console[c]
    PROVE  SessionOK(console[c])'
<1>1. console[c].op \in ReviewOps => console[c].request \in Requests
  BY SessionTypes DEF SessionRow
<1> QED
  BY <1>1, ApprovalsStay DEF SessionOK, RequestsKept, ReviewOps, Publishing

(* The session that ends, and the others. *)
LEMMA DoneFacts ==
    ASSUME ControlTypes, NEW c \in Consoles, done(c)
    PROVE  /\ console' \in [Consoles -> ConsoleType]
           /\ console'[c].op = "none"
           /\ \A o \in Consoles \ {c} : console'[o] = console[o]
<1>1. AtRest \in ConsoleType /\ AtRest.op = "none"
  BY SessionTypes
<1> QED
  BY <1>1 DEF done, ControlTypes

(* A step that ends a session and leaves the requests' approvals in order. *)
LEMMA ApprovalsKept ==
    ASSUME ControlTypes, ApprovalsOK, RequestsKept, NEW c \in Consoles, done(c),
           \A r \in Requests : changes'[r].status = "approved" =>
                changes[r].status = "approved" \/ Approved(r)',
           \A t \in Targets, f \in Fields :
                settings'[t][f] = settings[t][f] \/ FromApproved(settings[t][f])',
           \A p \in DOMAIN providers' : FromApproved(providers[p].from)',
           \A i \in DOMAIN publications' : FromApproved(publications[i].request)',
           cached' = cached
    PROVE  ApprovalsOK'
<1>1. \A o \in Consoles : SessionOK(console[o])'
  <2> TAKE o \in Consoles
  <2>1. CASE o = c
    BY <2>1, DoneFacts DEF SessionOK, ReviewOps, Publishing
  <2>2. CASE o # c
    BY <2>2, DoneFacts, SessionStays DEF ApprovalsOK
  <2> QED
    BY <2>1, <2>2
<1>2. \A r \in Requests : changes'[r].status = "approved" => Approved(r)'
  BY ApprovalsStay DEF ApprovalsOK
<1>3. \A t \in Targets, f \in Fields : FromApproved(settings[t][f])'
  BY ApprovalsStay DEF ApprovalsOK, FromApproved
<1>4. CacheOK'
  BY ApprovalsStay DEF ApprovalsOK, CacheOK
<1> QED
  BY <1>1, <1>2, <1>3, <1>4 DEF ApprovalsOK

LEMMA FreshIsSeen ==
    ASSUME ControlTypes
    PROVE  SeenOK({}) /\ SeenOK(readActivePublications)
<1>1. SeenOK({})
  BY DEF SeenOK
<1>2. SeenOK(readActivePublications)
  BY DEF SeenOK, readActivePublications, lastFull, fullIn
<1> QED
  BY <1>1, <1>2

(* A step that leaves the publications alone. *)
LEMMA ReleasesStay ==
    ASSUME ControlTypes, ReleasesOK, UNCHANGED <<publications, cascaded>>,
           \A c \in Consoles : console'[c].op = "publish" =>
                console'[c] = console[c] \/ SeenOK(console'[c].seen)
    PROVE  ReleasesOK'
<1>1. \A y : fullIn(y)' <=> fullIn(y)
  BY DEF fullIn, isGray
<1>2. \A S : SeenOK(S)' <=> SeenOK(S)
  BY <1>1 DEF SeenOK, lastFull, isGray
<1>3. ~cascaded => \A c \in Consoles : console'[c].op = "publish" => SeenOK(console[c].seen)'
  <2> SUFFICES ASSUME ~cascaded, NEW c \in Consoles, console'[c].op = "publish"
               PROVE  SeenOK(console[c].seen)'
    OBVIOUS
  <2>1. PICK S : S = console'[c].seen
    OBVIOUS
  <2>2. SeenOK(S)
    BY <2>1 DEF ReleasesOK
  <2>3. SeenOK(S)'
    BY <2>2, <1>2
  <2> QED
    BY <2>1, <2>3 DEF SeenOK, lastFull
<1> QED
  BY <1>1, <1>3 DEF ReleasesOK

-----------------------------------------------------------------------------
(* Drafts and reads *)

LEMMA CreatedStep ==
    ASSUME ControlInv, NEW r \in Requests, NEW request \in RequestRow,
           request.status = "draft", request.target \in 0..Len(providers),
           created(r, request), UNCHANGED console \/ \E c \in Consoles : done(c)
    PROVE  ControlInv'
<1> USE DEF ControlInv
<1>1. /\ changes[r].status = "none" /\ changes' = [changes EXCEPT ![r] = request]
      /\ UNCHANGED <<documents, publications, cascaded, settings, cached, providers>>
  BY DEF created, legalVars
<1>2. changes' \in [Requests -> RequestRow] /\ changes'[r] = request
      /\ \A o \in Requests \ {r} : changes'[o] = changes[o]
  BY <1>1 DEF ControlTypes
<1>3. /\ console' \in [Consoles -> ConsoleType]
      /\ \A c \in Consoles : console'[c] = console[c] \/ console'[c].op = "none"
  BY DoneFacts DEF ControlTypes
<1>4. ControlTypes'
  BY <1>1, <1>2, <1>3 DEF ControlTypes, ReviewOps, Publishing
<1>5. ReferencesOK'
  BY <1>1, <1>2 DEF ReferencesOK
<1>6. RequestsKept
  BY <1>1, <1>2 DEF RequestsKept
<1>7. \A c \in Consoles : SessionOK(console[c])'
  <2> TAKE c \in Consoles
  <2>1. CASE console'[c] = console[c]
    BY <1>6, <2>1, SessionStays DEF ApprovalsOK
  <2>2. CASE console'[c].op = "none"
    BY <2>2 DEF SessionOK, ReviewOps, Publishing
  <2> QED
    BY <1>3, <2>1, <2>2
<1>8. CacheOK'
  BY <1>1, <1>6, ApprovalsStay DEF ApprovalsOK, CacheOK
<1>9. ApprovalsOK'
  BY <1>1, <1>2, <1>6, <1>7, <1>8, ApprovalsStay DEF ApprovalsOK
<1>10. ReleasesOK'
  BY <1>1, <1>3, ReleasesStay
<1> QED
  BY <1>4, <1>5, <1>9, <1>10

LEMMA DraftIsRow ==
    ASSUME NEW r, NEW a \in Admins, NEW kind \in Kinds
    PROVE  /\ draft(r, a, kind) \in RequestRow
           /\ draft(r, a, kind).status = "draft" /\ draft(r, a, kind).target = 0
<1>1. noRequest \in RequestRow
  BY DEF noRequest, RequestRow, Rollouts
<1> QED
  BY <1>1 DEF draft, noRequest, RequestRow, QUEUED_CHANGE_REQUEST_STATUSES

LEMMA DraftSteps ==
    ASSUME ControlInv, NEW r \in Requests, NEW a \in Admins, configDrafts(r, a)
    PROVE  ControlInv'
<1>0. Len(providers) \in Nat /\ 0 \in 0..Len(providers)
  BY ChangeControlAssumption DEF ControlInv, ReferencesOK
<1>1. ASSUME NEW kind \in Targets, NEW fs \in SUBSET Fields,
             created(r, [draft(r, a, kind) EXCEPT !.fields = fs]), UNCHANGED console
      PROVE  ControlInv'
  <2> DEFINE d == draft(r, a, kind)
             request == [d EXCEPT !.fields = fs]
  <2>1. d \in RequestRow /\ d.status = "draft" /\ d.target = 0
    BY DraftIsRow DEF Kinds
  <2>2. created(r, request)
    BY <1>1
  <2> HIDE DEF d
  <2>3. request \in RequestRow /\ request.status = "draft" /\ request.target = 0
    BY <2>1 DEF RequestRow
  <2> HIDE DEF request
  <2> QED
    BY <1>0, <1>1, <2>2, <2>3, CreatedStep
<1>2. ASSUME NEW p \in 0..Len(providers),
             created(r, [draft(r, a, "payment_provider") EXCEPT !.target = p]),
             UNCHANGED console
      PROVE  ControlInv'
  <2> DEFINE d == draft(r, a, "payment_provider")
             request == [d EXCEPT !.target = p]
  <2>1. d \in RequestRow /\ d.status = "draft"
    BY DraftIsRow DEF Kinds
  <2>2. created(r, request)
    BY <1>2
  <2> HIDE DEF d
  <2>3. request \in RequestRow /\ request.status = "draft" /\ request.target = p
    BY <1>0, <2>1 DEF RequestRow
  <2> HIDE DEF request
  <2> QED
    BY <1>2, <2>2, <2>3, CreatedStep
<1> QED
  BY <1>1, <1>2
     DEF configDrafts, createSystemConfigDraft, createSaasTenantRiskEnvelopeDraft,
         createPaymentProviderDraft, Targets

LEMMA LegalDraftStep ==
    ASSUME ControlInv, NEW c \in Consoles, NEW r \in Requests, createLegalDocumentPublishDraft(c, r)
    PROVE  ControlInv'
<1>0. Len(providers) \in Nat /\ 0 \in 0..Len(providers)
  BY ChangeControlAssumption DEF ControlInv, ReferencesOK
<1>1. console[c] \in DraftRow /\ done(c)
  BY SessionTypes DEF createLegalDocumentPublishDraft, ControlInv
<1> DEFINE x == console[c].document
           rollout == console[c].rollout
           d == draft(r, console[c].admin, "legal_document")
           request == [d EXCEPT !.document = x, !.rollout = rollout]
<1>2. x \in Nat /\ rollout \in Rollouts /\ console[c].admin \in Admins
  BY <1>1 DEF DraftRow
<1>3. d \in RequestRow /\ d.status = "draft" /\ d.target = 0
  BY <1>2, DraftIsRow DEF Kinds
<1>4. created(r, request)
  BY DEF createLegalDocumentPublishDraft
<1> HIDE DEF d, x, rollout
<1>5. request \in RequestRow /\ request.status = "draft" /\ request.target = 0
  BY <1>2, <1>3 DEF RequestRow
<1> HIDE DEF request
<1> QED
  BY <1>0, <1>1, <1>4, <1>5, CreatedStep

CacheType == [Fields -> Requests \cup {Nobody, NotCached}]

(* An entry of the cache stays, goes, or comes from an approved change. *)
CacheMoves ==
    /\ cached' \in CacheType
    /\ \A f \in Fields :
        cached'[f] = cached[f] \/ cached'[f] = NotCached \/ FromApproved(cached'[f])

LEMMA CacheRests ==
    ASSUME ControlTypes, UNCHANGED cached
    PROVE  CacheMoves
  BY DEF ControlTypes, CacheMoves, CacheType

LEMMA CacheKept ==
    ASSUME ApprovalsOK, RequestsKept, CacheMoves
    PROVE  CacheOK'
<1> SUFFICES ASSUME NEW f \in Fields, cached'[f] # NotCached
             PROVE  FromApproved(cached[f])'
  BY DEF CacheOK
<1>1. PICK x : x = cached'[f]
  OBVIOUS
<1>2. FromApproved(x)
  BY <1>1 DEF CacheMoves, ApprovalsOK, CacheOK
<1>3. FromApproved(x)'
  BY <1>2, ApprovalsStay
<1> QED
  BY <1>1, <1>3 DEF FromApproved, Approved

(* A session begins or goes on; the tables stay. *)
LEMMA BeginsStep ==
    ASSUME ControlInv, NEW c \in Consoles, NEW s \in ConsoleType,
           console' = [console EXCEPT ![c] = s],
           SessionOK(s),
           s.op \in ReviewOps => s.seen \subseteq DOMAIN publications,
           s.op = "publish" => SeenOK(s.seen),
           CacheMoves,
           UNCHANGED <<documents, publications, cascaded, changes, settings, providers>>
    PROVE  ControlInv'
<1> USE DEF ControlInv
<1>1. console' \in [Consoles -> ConsoleType] /\ console'[c] = s
      /\ \A o \in Consoles \ {c} : console'[o] = console[o]
  BY DEF ControlTypes
<1>2. ControlTypes'
  BY <1>1 DEF ControlTypes, CacheMoves, CacheType
<1>3. ReferencesOK'
  BY DEF ReferencesOK
<1>4. RequestsKept
  BY DEF RequestsKept
<1>5. SessionOK(console[c])'
  BY <1>1 DEF SessionOK, FromApproved, Approved
<1>6. \A o \in Consoles \ {c} : SessionOK(console[o])'
  BY <1>1, <1>4, SessionStays DEF ApprovalsOK
<1>7. ApprovalsOK'
  BY <1>4, <1>5, <1>6, ApprovalsStay, CacheKept DEF ApprovalsOK
<1>8. ReleasesOK'
  BY <1>1, ReleasesStay
<1> QED
  BY <1>2, <1>3, <1>7, <1>8

LEMMA ReadStep ==
    ASSUME ControlInv, NEW c \in Consoles, NEW op \in ReviewOps, NEW r \in Requests, NEW a \in Admins,
           readChangeRequest(c, op, r, a)
    PROVE  ControlInv'
<1> DEFINE seen == IF op = "publish" /\ changes[r].kind = "legal_document"
                   THEN readActivePublications ELSE {}
           s == [op |-> op, request |-> r, admin |-> a, seen |-> seen, config |-> nothingSet]
<1>1. seen \subseteq DOMAIN publications /\ seen \in SUBSET Nat /\ SeenOK(seen)
  BY FreshIsSeen, PublicationsAreRows DEF readActivePublications, ControlInv
<1>2. console' = [console EXCEPT ![c] = s] /\ may(op, r, a)
      /\ UNCHANGED <<documents, publications, cascaded, changes, settings, cached, providers>>
  BY DEF readChangeRequest, legalVars
<1>3. changes[r].status = "approved" => Approved(r)
  BY DEF ControlInv, ApprovalsOK
<1> HIDE DEF seen
<1>4. /\ s \in SessionRow /\ s.op = op /\ s.seen = seen /\ s.request = r /\ s.admin = a
      /\ \A f \in Fields : s.config[f] = Nobody
  BY <1>1 DEF SessionRow, ConfigRow, nothingSet
<1> HIDE DEF s
<1>5. SessionOK(s)
  BY <1>2, <1>3, <1>4
     DEF SessionOK, may, maySubmit, mayApprove, mayReject, mayPublish, ReviewOps, Publishing,
         FromApproved, QUEUED_CHANGE_REQUEST_STATUSES
<1>6. s \in ConsoleType
  BY <1>4 DEF ConsoleType
<1>7. CacheMoves
  BY <1>2, CacheRests DEF ControlInv
<1> QED
  BY <1>1, <1>2, <1>4, <1>5, <1>6, <1>7, BeginsStep

LEMMA MutableStep ==
    ASSUME ControlInv, NEW c \in Consoles, NEW op \in {"update", "delete"}, NEW d \in DOMAIN documents,
           assertDocumentMutable(c, op, d)
    PROVE  ControlInv'
<1> DEFINE s == [op |-> op, document |-> d]
<1>1. d \in Nat
  BY DocumentsAreRows DEF ControlInv
<1>2. s \in ConsoleType /\ s.op \notin ReviewOps
  BY <1>1 DEF ConsoleType, ReviewOps, Publishing
<1>3. console' = [console EXCEPT ![c] = s]
      /\ UNCHANGED <<documents, publications, cascaded, changes, settings, cached, providers>>
  BY DEF assertDocumentMutable, legalVars
<1> HIDE DEF s
<1>4. SessionOK(s)
  BY <1>2 DEF SessionOK, ReviewOps, Publishing
<1>5. CacheMoves
  BY <1>3, CacheRests DEF ControlInv
<1> QED
  BY <1>2, <1>3, <1>4, <1>5, BeginsStep DEF ReviewOps, Publishing

LEMMA LegalCheckStep ==
    ASSUME ControlInv, NEW c \in Consoles, NEW a \in Admins, buildLegalDocumentPublishPayload(c, a)
    PROVE  ControlInv'
<1>1. PICK d \in DOMAIN documents, rollout \in Rollouts :
        console' = [console EXCEPT ![c] =
                        [op |-> "draft", admin |-> a, document |-> d, rollout |-> rollout]]
  BY DEF buildLegalDocumentPublishPayload
<1> DEFINE s == [op |-> "draft", admin |-> a, document |-> d, rollout |-> rollout]
<1>2. d \in Nat
  BY DocumentsAreRows DEF ControlInv
<1>3. s \in ConsoleType /\ s.op \notin ReviewOps
  BY <1>2 DEF ConsoleType, DraftRow, ReviewOps, Publishing
<1>4. console' = [console EXCEPT ![c] = s]
      /\ UNCHANGED <<documents, publications, cascaded, changes, settings, cached, providers>>
  BY <1>1 DEF buildLegalDocumentPublishPayload, legalVars
<1> HIDE DEF s
<1>5. SessionOK(s)
  BY <1>3 DEF SessionOK, ReviewOps, Publishing
<1>6. CacheMoves
  BY <1>4, CacheRests DEF ControlInv
<1> QED
  BY <1>3, <1>4, <1>5, <1>6, BeginsStep DEF ReviewOps, Publishing

LEMMA RollsBackStep ==
    ASSUME ControlInv, NEW c \in Consoles, rollsBack(c)
    PROVE  ControlInv'
<1>1. AtRest \in ConsoleType /\ AtRest.op = "none"
  BY SessionTypes DEF ControlInv
<1>2. SessionOK(AtRest)
  BY <1>1 DEF SessionOK, ReviewOps, Publishing
<1>3. CacheMoves
  BY CacheRests DEF ControlInv, rollsBack
<1> QED
  BY <1>1, <1>2, <1>3, BeginsStep DEF rollsBack, done, legalVars, ReviewOps, Publishing

-----------------------------------------------------------------------------
(* The runtime configuration and its cache *)

LEMMA CacheStep ==
    ASSUME ControlInv, NEW f \in Fields, cacheEntryExpires(f) \/ getConfigRowsByKeys(f)
    PROVE  ControlInv'
<1>1. UNCHANGED <<documents, publications, cascaded, changes, console, settings, providers>>
  BY DEF cacheEntryExpires, getConfigRowsByKeys, legalVars
<1>2. CacheMoves
  <2>1. inForce(f) \in Requests \cup {Nobody} /\ FromApproved(inForce(f))
    BY DEF inForce, ControlInv, ControlTypes, ConfigRow, ApprovalsOK, Targets
  <2>2. cached \in CacheType
    BY DEF ControlInv, ControlTypes, CacheType
  <2> HIDE DEF inForce
  <2>3. PICK v \in Requests \cup {Nobody, NotCached} :
            /\ cached' = [cached EXCEPT ![f] = v]
            /\ v = NotCached \/ FromApproved(v)
    BY <2>1 DEF cacheEntryExpires, getConfigRowsByKeys
  <2> QED
    BY <2>2, <2>3 DEF CacheMoves, CacheType
<1>3. ControlTypes'
  BY <1>1, <1>2 DEF ControlInv, ControlTypes, CacheMoves, CacheType
<1>4. ReferencesOK'
  BY <1>1 DEF ControlInv, ReferencesOK
<1>5. RequestsKept
  BY <1>1 DEF RequestsKept
<1>6. CacheOK'
  BY <1>2, <1>5, CacheKept DEF ControlInv
<1>7. ApprovalsOK'
  BY <1>1, <1>6 DEF ControlInv, ApprovalsOK, SessionOK, FromApproved, Approved
<1>8. ReleasesOK'
  BY <1>1, ReleasesStay DEF ControlInv
<1> QED
  BY <1>3, <1>4, <1>7, <1>8 DEF ControlInv

(* A session that publishes goes on with another configuration. *)
LEMMA ConfigStep ==
    ASSUME ControlInv, NEW c \in Consoles, console[c].op \in Publishing,
           NEW op \in {"apply", "applied"}, NEW config \in ConfigRow,
           \A f \in Fields : FromApproved(config[f]),
           console' = [console EXCEPT ![c].op = op, ![c].config = config],
           CacheMoves,
           UNCHANGED <<documents, publications, cascaded, changes, settings, providers>>
    PROVE  ControlInv'
<1> DEFINE s == [console[c] EXCEPT !.op = op, !.config = config]
<1>1. console[c] \in SessionRow /\ console \in [Consoles -> ConsoleType]
  BY SessionTypes DEF ControlInv, ControlTypes, ReviewOps
<1>2. s \in SessionRow /\ s.op = op /\ s.request = console[c].request /\ s.config = config
      /\ s.seen = console[c].seen
  BY <1>1 DEF SessionRow, ReviewOps, Publishing
<1>3. console' = [console EXCEPT ![c] = s]
  BY <1>1
<1> HIDE DEF s
<1>4. Approved(console[c].request) /\ console[c].seen \subseteq DOMAIN publications
  BY DEF ControlInv, ApprovalsOK, SessionOK, ControlTypes, ReviewOps
<1>5. SessionOK(s)
  BY <1>2, <1>4 DEF SessionOK, Approved
<1>6. s \in ConsoleType
  BY <1>2 DEF ConsoleType
<1> QED
  BY <1>2, <1>3, <1>4, <1>5, <1>6, BeginsStep

LEMMA ConfigSteps ==
    ASSUME ControlInv, NEW c \in Consoles, getBlackjackConfig(c) \/ applySystemConfigDraft(c)
    PROVE  ControlInv'
<1>1. /\ \A f \in Fields : inForce(f) \in Requests \cup {Nobody} /\ FromApproved(inForce(f))
      /\ cached \in CacheType /\ CacheOK
  BY DEF inForce, ControlInv, ControlTypes, ConfigRow, ApprovalsOK, Targets, CacheType
<1> HIDE DEF inForce
<1>2. CASE getBlackjackConfig(c)
  <2> DEFINE config == [f \in Fields |-> IF cached[f] = NotCached THEN inForce(f) ELSE cached[f]]
  <2>1. /\ console[c].op = "publish" /\ cached' = config
        /\ console' = [console EXCEPT ![c].op = "apply", ![c].config = config]
        /\ UNCHANGED <<documents, publications, cascaded, changes, settings, providers>>
    BY <1>2 DEF getBlackjackConfig, publishes, legalVars
  <2>2. config \in ConfigRow /\ \A f \in Fields : FromApproved(config[f])
    BY <1>1 DEF CacheType, CacheOK, ConfigRow
  <2> HIDE DEF config
  <2>3. CacheMoves
    BY <2>1, <2>2 DEF CacheMoves, CacheType, ConfigRow
  <2> QED
    BY <2>1, <2>2, <2>3, ConfigStep DEF Publishing
<1>3. CASE applySystemConfigDraft(c)
  <2> DEFINE r == console[c].request
             config == [f \in Fields |-> IF f \in changes[r].fields THEN r ELSE console[c].config[f]]
  <2>1. /\ console[c].op = "apply"
        /\ console' = [console EXCEPT ![c].op = "applied", ![c].config = config]
        /\ UNCHANGED <<documents, publications, cascaded, changes, settings, providers>>
    BY <1>3 DEF applySystemConfigDraft, legalVars
  <2>2. /\ Approved(r) /\ r \in Requests
        /\ console[c].config \in ConfigRow
        /\ \A f \in Fields : FromApproved(console[c].config[f])
    BY <2>1, SessionTypes
       DEF ControlInv, ApprovalsOK, SessionOK, SessionRow, ReviewOps, Publishing
  <2>3. PICK left \in CacheType :
            /\ cached' = left
            /\ \A f \in Fields : left[f] \in {NotCached, inForce(f), config[f], cached[f]}
    BY <1>3 DEF applySystemConfigDraft, CacheType
  <2> HIDE DEF r
  <2>4. config \in ConfigRow /\ \A f \in Fields : FromApproved(config[f])
    BY <2>2 DEF ConfigRow, FromApproved
  <2> HIDE DEF config
  <2>5. CacheMoves
    BY <1>1, <2>3, <2>4 DEF CacheMoves
  <2> QED
    BY <2>1, <2>4, <2>5, ConfigStep DEF Publishing
<1> QED
  BY <1>2, <1>3

-----------------------------------------------------------------------------
(* Commits *)

(***************************************************************************)
(* A session's commit writes its request: the status, and with an approval *)
(* the administrator, who was checked against the author when it was read. *)
(***************************************************************************)
RequestWritten(c, row) ==
    LET r == console[c].request IN
    /\ row \in RequestRow /\ row.status # "none"
    /\ row.createdBy = changes[r].createdBy /\ row.target = changes[r].target
    /\ \/ row.approvedBy = changes[r].approvedBy
       \/ row.approvedBy \notin {Nobody, changes[r].createdBy}
    /\ row.status = "approved" => row.approvedBy \notin {Nobody, changes[r].createdBy}
    /\ changes' = [changes EXCEPT ![r] = row]
    /\ done(c)

LEMMA WrittenFacts ==
    ASSUME ControlInv, NEW c \in Consoles, console[c].op \in ReviewOps, NEW row, RequestWritten(c, row)
    PROVE  /\ changes' \in [Requests -> RequestRow]
           /\ RequestsKept
           /\ \A r \in Requests : changes'[r].status = "approved" =>
                changes[r].status = "approved" \/ Approved(r)'
           /\ \A r \in Requests : changes'[r].target = changes[r].target
           /\ console[c].request \in Requests
<1> DEFINE q == console[c].request
<1>1. q \in Requests /\ changes \in [Requests -> RequestRow]
  BY SessionTypes DEF ControlInv, ControlTypes, SessionRow
<1>2. changes' \in [Requests -> RequestRow] /\ changes'[q] = row
      /\ \A o \in Requests \ {q} : changes'[o] = changes[o]
  BY <1>1 DEF RequestWritten
<1>3. /\ row.status # "none" /\ row.createdBy = changes[q].createdBy
      /\ row.target = changes[q].target
      /\ row.approvedBy = changes[q].approvedBy \/ row.approvedBy \notin {Nobody, changes[q].createdBy}
      /\ row.status = "approved" => row.approvedBy \notin {Nobody, changes[q].createdBy}
  BY DEF RequestWritten
<1> HIDE DEF q
<1>4. RequestsKept
  BY <1>2, <1>3 DEF RequestsKept
<1>5. \A r \in Requests : changes'[r].status = "approved" =>
                changes[r].status = "approved" \/ Approved(r)'
  BY <1>2, <1>3 DEF Approved
<1> QED
  BY <1>1, <1>2, <1>3, <1>4, <1>5 DEF q

LEMMA WrittenStep ==
    ASSUME ControlInv, NEW c \in Consoles, console[c].op \in ReviewOps, NEW row, RequestWritten(c, row),
           UNCHANGED <<documents, publications, cascaded, settings, cached, providers>>
    PROVE  ControlInv'
<1>1. ControlTypes /\ ReferencesOK /\ ApprovalsOK /\ ReleasesOK
  BY DEF ControlInv
<1>2. done(c)
  BY DEF RequestWritten
<1>3. /\ console' \in [Consoles -> ConsoleType]
      /\ console'[c].op = "none"
      /\ \A o \in Consoles \ {c} : console'[o] = console[o]
  BY <1>1, <1>2, DoneFacts
<1>4. /\ changes' \in [Requests -> RequestRow] /\ RequestsKept
      /\ \A r \in Requests : changes'[r].status = "approved" =>
                changes[r].status = "approved" \/ Approved(r)'
      /\ \A r \in Requests : changes'[r].target = changes[r].target
  BY WrittenFacts
<1>5. ControlTypes'
  BY <1>1, <1>3, <1>4 DEF ControlTypes, ReviewOps, Publishing
<1>6. ReferencesOK'
  BY <1>1, <1>4 DEF ReferencesOK
<1>7. /\ \A p \in DOMAIN providers' : FromApproved(providers[p].from)'
      /\ \A i \in DOMAIN publications' : FromApproved(publications[i].request)'
  BY <1>1, <1>4, ApprovalsStay DEF ApprovalsOK
<1>8. ApprovalsOK'
  BY <1>1, <1>2, <1>4, <1>7, ApprovalsKept
<1>9. ReleasesOK'
  BY <1>1, <1>3, ReleasesStay
<1> QED
  BY <1>5, <1>6, <1>8, <1>9 DEF ControlInv

LEMMA DecisionSteps ==
    ASSUME ControlInv, NEW c \in Consoles,
           \/ submitControlChangeRequest(c)
           \/ approveControlChangeRequest(c)
           \/ rejectControlChangeRequest(c)
    PROVE  ControlInv'
<1> DEFINE r == console[c].request
<1>1. console[c].op \in ReviewOps
  BY DEF submitControlChangeRequest, approveControlChangeRequest, rejectControlChangeRequest, ReviewOps
<1>2. console[c] \in SessionRow /\ r \in Requests /\ console[c].admin \in Admins
  BY <1>1, SessionTypes DEF ControlInv, SessionRow
<1>3. changes \in [Requests -> RequestRow] /\ changes[r] \in RequestRow
  BY <1>2 DEF ControlInv, ControlTypes
<1>4. ASSUME NEW st \in {"pending_approval", "rejected"}, decided(c, st)
      PROVE  ControlInv'
  <2> DEFINE row == [changes[r] EXCEPT !.status = st]
  <2>1. changes' = [changes EXCEPT ![r] = row] /\ done(c)
        /\ UNCHANGED <<documents, publications, cascaded, settings, cached, providers>>
    BY <1>3, <1>4 DEF decided, legalVars
  <2>2. row \in RequestRow /\ row.status = st /\ row.createdBy = changes[r].createdBy
        /\ row.target = changes[r].target /\ row.approvedBy = changes[r].approvedBy
    BY <1>3 DEF RequestRow, QUEUED_CHANGE_REQUEST_STATUSES, FINALIZED
  <2> HIDE DEF row
  <2>3. RequestWritten(c, row)
    BY <2>1, <2>2 DEF RequestWritten
  <2> QED
    BY <1>1, <2>1, <2>3, WrittenStep
<1>5. ASSUME approveControlChangeRequest(c)
      PROVE  ControlInv'
  <2> DEFINE a == console[c].admin
             row == [changes[r] EXCEPT !.status = "approved", !.approvedBy = a]
  <2>1. changes' = [changes EXCEPT ![r] = row] /\ done(c) /\ console[c].op = "approve"
        /\ UNCHANGED <<documents, publications, cascaded, settings, cached, providers>>
    BY <1>3, <1>5 DEF approveControlChangeRequest, legalVars
  <2>2. a \in Admins /\ a # Nobody /\ a # changes[r].createdBy
    BY <1>2, <2>1, ChangeControlAssumption DEF ControlInv, ApprovalsOK, SessionOK
  <2> HIDE DEF a
  <2>3. row \in RequestRow /\ row.status = "approved" /\ row.createdBy = changes[r].createdBy
        /\ row.target = changes[r].target /\ row.approvedBy = a
    BY <1>3, <2>2 DEF RequestRow, QUEUED_CHANGE_REQUEST_STATUSES
  <2> HIDE DEF row
  <2>4. RequestWritten(c, row)
    BY <2>1, <2>2, <2>3 DEF RequestWritten
  <2> QED
    BY <1>1, <2>1, <2>4, WrittenStep
<1> QED
  BY <1>4, <1>5 DEF submitControlChangeRequest, rejectControlChangeRequest

(***************************************************************************)
(* The commit of a publication: the request is marked, and the change      *)
(* applied, by one of three tables.                                        *)
(***************************************************************************)
LEMMA PublishCommon ==
    ASSUME ControlInv, NEW c \in Consoles, publishControlChangeRequest(c)
    PROVE  /\ console[c].op \in Publishing /\ console[c].op \in ReviewOps
           /\ console[c].request \in Requests /\ console[c].seen \in SUBSET (DOMAIN publications)
           /\ changes[console[c].request] \in RequestRow
           /\ \E row : RequestWritten(c, row)
           /\ \A q : q = console[c].request => Approved(q)'
<1> DEFINE r == console[c].request
           n == changes[r].applied + 1
           row == [changes[r] EXCEPT !.status = "published", !.applied = n]
<1>1. console[c].op \in Publishing /\ console[c].op \in ReviewOps
  BY DEF publishControlChangeRequest, applyChangeRequest, publishes, systemConfigIsCommitted,
         ReviewOps, Publishing
<1>2. r \in Requests /\ console[c].seen \in SUBSET (DOMAIN publications)
  BY <1>1, SessionTypes DEF ControlInv, SessionRow, ControlTypes
<1>3. changes \in [Requests -> RequestRow] /\ changes[r] \in RequestRow
  BY <1>2 DEF ControlInv, ControlTypes
<1>4. changes' = [changes EXCEPT ![r] = row] /\ done(c)
  BY <1>3 DEF publishControlChangeRequest
<1>5. n \in Nat
  BY <1>3 DEF RequestRow
<1> HIDE DEF n
<1>6. row \in RequestRow /\ row.status = "published" /\ row.createdBy = changes[r].createdBy
      /\ row.target = changes[r].target /\ row.approvedBy = changes[r].approvedBy
  BY <1>3, <1>5 DEF RequestRow, FINALIZED
<1> HIDE DEF row
<1>7. RequestWritten(c, row)
  BY <1>4, <1>6 DEF RequestWritten
<1>8. Approved(r)
  BY <1>1 DEF ControlInv, ApprovalsOK, SessionOK
<1>9. RequestsKept
  BY <1>1, <1>7, WrittenFacts
<1>10. \A q : q = r => Approved(q)'
  BY <1>8, <1>9, ApprovalsStay
<1> QED
  BY <1>1, <1>2, <1>3, <1>7, <1>10

LEMMA PublishStep ==
    ASSUME ControlInv, NEW c \in Consoles, publishControlChangeRequest(c)
    PROVE  ControlInv'
<1>1. PICK r \in Requests : r = console[c].request
  BY PublishCommon
<1>2. /\ console[c].op \in Publishing /\ console[c].op \in ReviewOps
      /\ console[c].seen \in SUBSET (DOMAIN publications)
      /\ changes[r] \in RequestRow
      /\ Approved(r)'
  BY <1>1, PublishCommon
<1>3. PICK row : RequestWritten(c, row)
  BY PublishCommon
<1>4. ControlTypes /\ ReferencesOK /\ ApprovalsOK /\ ReleasesOK
  BY DEF ControlInv
<1>5. done(c)
  BY <1>3 DEF RequestWritten
<1>6. /\ console' \in [Consoles -> ConsoleType]
      /\ console'[c].op = "none"
      /\ \A o \in Consoles \ {c} : console'[o] = console[o]
  BY <1>4, <1>5, DoneFacts
<1>7. /\ changes' \in [Requests -> RequestRow] /\ RequestsKept
      /\ \A o \in Requests : changes'[o].status = "approved" =>
                changes[o].status = "approved" \/ Approved(o)'
      /\ \A o \in Requests : changes'[o].target = changes[o].target
  BY <1>2, <1>3, WrittenFacts
<1>8. /\ \A p \in DOMAIN providers : FromApproved(providers[p].from)
      /\ \A i \in DOMAIN publications : FromApproved(publications[i].request)
      /\ \A x : FromApproved(x) => FromApproved(x)'
      /\ FromApproved(r)'
  BY <1>2, <1>4, <1>7, ApprovalsStay DEF ApprovalsOK, FromApproved
<1>9. applyChangeRequest(c)
  BY DEF publishControlChangeRequest
<1>10. ASSUME UNCHANGED <<documents, publications, cascaded, cached, providers>>,
              settings' \in [Targets -> ConfigRow],
              \A t \in Targets, f \in Fields :
                settings'[t][f] = settings[t][f] \/ FromApproved(settings'[t][f])
       PROVE  ControlInv'
  <2>1. ControlTypes'
    BY <1>4, <1>6, <1>7, <1>10 DEF ControlTypes, ReviewOps, Publishing
  <2>2. ReferencesOK'
    BY <1>4, <1>7, <1>10 DEF ReferencesOK
  <2>3. \A t \in Targets, f \in Fields :
            settings'[t][f] = settings[t][f] \/ FromApproved(settings[t][f])'
    <3> TAKE t \in Targets, f \in Fields
    <3>1. PICK x : x = settings'[t][f]
      OBVIOUS
    <3>2. FromApproved(x) => FromApproved(x)'
      BY <1>8
    <3> QED
      BY <1>10, <3>1, <3>2 DEF FromApproved, Approved
  <2>4. /\ \A p \in DOMAIN providers' : FromApproved(providers[p].from)'
        /\ \A i \in DOMAIN publications' : FromApproved(publications[i].request)'
    BY <1>8, <1>10 DEF FromApproved
  <2>5. ApprovalsOK'
    BY <1>4, <1>5, <1>7, <1>10, <2>3, <2>4, ApprovalsKept
  <2>6. ReleasesOK'
    BY <1>4, <1>6, <1>10, ReleasesStay
  <2> QED
    BY <2>1, <2>2, <2>5, <2>6 DEF ControlInv
<1>11. Approved(r) /\ settings \in [Targets -> ConfigRow]
  BY <1>1, <1>2, <1>4 DEF ApprovalsOK, SessionOK, ControlTypes
<1>12. ASSUME applySaasTenantRiskEnvelopeDraft(r)
       PROVE  ControlInv'
  <2> DEFINE t == "saas_tenant_risk_envelope"
             new == [f \in Fields |-> IF f \in changes[r].fields THEN r ELSE settings[t][f]]
  <2>1. /\ UNCHANGED <<documents, publications, cascaded, cached, providers>>
        /\ settings' = [settings EXCEPT ![t] = new]
    BY <1>12 DEF applySaasTenantRiskEnvelopeDraft, legalVars
  <2>2. new \in ConfigRow /\ \A f \in Fields : new[f] = settings[t][f] \/ FromApproved(new[f])
    BY <1>11 DEF ConfigRow, FromApproved, Targets
  <2> HIDE DEF new
  <2> QED
    BY <1>10, <1>11, <2>1, <2>2 DEF Targets
<1>13. ASSUME systemConfigIsCommitted(c)
       PROVE  ControlInv'
  <2> DEFINE t == "system_config"
             config == console[c].config
             new == [f \in Fields |-> IF f \in writtenFields(r) THEN config[f] ELSE settings[t][f]]
  <2>1. /\ UNCHANGED <<documents, publications, cascaded, cached, providers>>
        /\ settings' = [settings EXCEPT ![t] = new]
        /\ console[c].op = "applied"
    BY <1>1, <1>13 DEF systemConfigIsCommitted, legalVars
  <2>2. config \in ConfigRow /\ \A f \in Fields : FromApproved(config[f])
    BY <1>2, <1>4, <2>1, SessionTypes DEF SessionRow, ApprovalsOK, SessionOK, Publishing
  <2> HIDE DEF config
  <2>3. new \in ConfigRow /\ \A f \in Fields : new[f] = settings[t][f] \/ FromApproved(new[f])
    BY <1>11, <2>2 DEF ConfigRow, Targets
  <2> HIDE DEF new
  <2> QED
    BY <1>10, <1>11, <2>1, <2>3 DEF Targets
<1>14. ASSUME applyPaymentProviderDraft(r)
       PROVE  ControlInv'
  <2> DEFINE p == changes[r].target
  <2>1. UNCHANGED <<documents, publications, cascaded, settings, cached>>
    BY <1>14 DEF applyPaymentProviderDraft, legalVars
  <2>2. /\ providers \in Seq(ProviderRow) /\ Len(providers) \in Nat
        /\ DOMAIN providers = 1..Len(providers) /\ Len(providers) \in 1..MaxProviders
        /\ p \in 0..Len(providers)
    BY <1>4 DEF ControlTypes, ReferencesOK
  <2>3. /\ providers' \in Seq(ProviderRow)
        /\ Len(providers') \in 1..MaxProviders /\ Len(providers') >= Len(providers)
        /\ \A x \in DOMAIN providers' :
                providers'[x].from = r \/ (x \in DOMAIN providers /\ providers'[x].from = providers[x].from)
    <3>1. CASE p # 0
      <4>1. providers' = [providers EXCEPT ![p].from = r] /\ p \in DOMAIN providers
        BY <3>1, <1>14, <2>2 DEF applyPaymentProviderDraft
      <4> HIDE DEF p
      <4> DEFINE new == [providers[p] EXCEPT !.from = r]
      <4>2. providers[p] \in ProviderRow
        BY <4>1, <2>2
      <4>3. new \in ProviderRow /\ new.from = r
        BY <4>2 DEF ProviderRow
      <4>4. providers' = [providers EXCEPT ![p] = new]
        BY <4>1, <2>2
      <4> HIDE DEF new
      <4> QED
        BY <2>2, <4>1, <4>3, <4>4
    <3>2. CASE p = 0
      <4> DEFINE new == [from |-> r, isCircuitBroken |-> FALSE]
      <4>1. providers' = Append(providers, new) /\ Len(providers) < MaxProviders
        BY <3>2, <1>14 DEF applyPaymentProviderDraft
      <4>2. new \in ProviderRow /\ new.from = r
        BY DEF ProviderRow
      <4>3. MaxProviders \in Nat
        BY ChangeControlAssumption
      <4> HIDE DEF new
      <4>4. providers' \in Seq(ProviderRow) /\ Len(providers') = Len(providers) + 1
        BY <2>2, <4>1, <4>2
      <4>5. Len(providers') \in 1..MaxProviders /\ Len(providers') >= Len(providers)
        BY <2>2, <4>1, <4>3, <4>4
      <4>6. \A x \in DOMAIN providers' :
                providers'[x] = new \/ (x \in DOMAIN providers /\ providers'[x] = providers[x])
        BY <2>2, <4>1, <4>2
      <4> QED
        BY <4>2, <4>4, <4>5, <4>6
    <3> QED
      BY <3>1, <3>2
  <2>4. ControlTypes'
    BY <1>4, <1>6, <1>7, <2>1, <2>3 DEF ControlTypes, ReviewOps, Publishing
  <2>5. ReferencesOK'
    <3>1. \A o \in Requests : changes'[o].target \in 0..Len(providers')
      BY <1>4, <1>7, <2>2, <2>3 DEF ReferencesOK
    <3> QED
      BY <1>4, <2>1, <2>3, <3>1 DEF ReferencesOK
  <2>6. /\ \A x \in DOMAIN providers' : FromApproved(providers[x].from)'
        /\ \A i \in DOMAIN publications' : FromApproved(publications[i].request)'
    BY <1>8, <2>1, <2>3 DEF FromApproved
  <2>7. ApprovalsOK'
    BY <1>4, <1>5, <1>7, <2>1, <2>6, ApprovalsKept
  <2>8. ReleasesOK'
    BY <1>4, <1>6, <2>1, ReleasesStay
  <2> QED
    BY <2>4, <2>5, <2>7, <2>8 DEF ControlInv
<1>15. ASSUME console[c].op = "publish",
              publishLegalDocumentVersion(changes[r].document, changes[r].rollout, console[c].seen, r),
              UNCHANGED <<settings, cached, providers>>
       PROVE  ControlInv'
  <2>1. PICK S \in SUBSET (DOMAIN publications), rollout \in Rollouts :
            S = console[c].seen /\ rollout = changes[r].rollout
    BY <1>2 DEF RequestRow
  <2>2. Published(rollout, S, r)
    BY <1>4, <1>15, <2>1, PublishPublishes
  <2>3. PICK n : n = Len(publications) + 1
    OBVIOUS
  <2>4. /\ publications' \in Seq(PublicationRow)
        /\ DOMAIN publications' = DOMAIN publications \cup {n}
        /\ UNCHANGED <<documents, cascaded>>
    BY <2>2, <2>3 DEF Published
  <2>5. DOMAIN publications = 1..Len(publications) /\ Len(publications) \in Nat
    BY <1>4, PublicationsAreRows
  <2>6. ControlTypes'
    BY <1>4, <1>6, <1>7, <1>15, <2>4 DEF ControlTypes, ReviewOps, Publishing
  <2>7. ReferencesOK'
    <3>1. ASSUME NEW i \in DOMAIN publications
          PROVE  /\ publications'[i].document \in DOMAIN documents'
                 /\ publications'[i].fallback \in 0..(i - 1)
                 /\ (publications'[i].mode = "gray") = (publications'[i].rollout < 100)
      BY <1>4, <2>2, <2>4 DEF ReferencesOK, Published
    <3>2. /\ publications'[n].document \in DOMAIN documents'
          /\ publications'[n].fallback \in 0..(n - 1)
          /\ (publications'[n].mode = "gray") = (publications'[n].rollout < 100)
      <4>1. /\ publications'[n].document \in DOMAIN documents
            /\ publications'[n].rollout = rollout
            /\ publications'[n].fallback \in S \cup {0}
            /\ (publications'[n].mode = "gray") = (rollout < 100)
        BY <2>2, <2>3 DEF Published
      <4>2. S \subseteq 1..(n - 1) /\ n - 1 \in Nat
        BY <2>3, <2>5
      <4> QED
        BY <2>4, <4>1, <4>2
    <3>3. \A o \in Requests : changes'[o].target \in 0..Len(providers')
      BY <1>4, <1>7, <1>15 DEF ReferencesOK
    <3> QED
      BY <1>4, <1>15, <2>4, <3>1, <3>2, <3>3 DEF ReferencesOK
  <2>8. /\ \A x \in DOMAIN providers' : FromApproved(providers[x].from)'
        /\ \A i \in DOMAIN publications' : FromApproved(publications[i].request)'
    <3>1. /\ \A i \in DOMAIN publications : publications'[i].request = publications[i].request
          /\ publications'[n].request = r
      BY <2>2, <2>3 DEF Published
    <3> QED
      BY <1>8, <1>15, <2>4, <3>1 DEF FromApproved
  <2>9. ApprovalsOK'
    BY <1>4, <1>5, <1>7, <1>15, <2>8, ApprovalsKept
  <2>10. ReleasesOK'
    <3> SUFFICES ASSUME ~cascaded
                 PROVE  /\ \E y \in DOMAIN publications' : fullIn(y)'
                        /\ \A o \in Consoles : console'[o].op = "publish" => SeenOK(console[o].seen)'
      BY <2>4 DEF ReleasesOK
    <3>1. SeenOK(S) /\ (publications # <<>> => \E y \in DOMAIN publications : fullIn(y))
      BY <1>4, <1>15, <2>1 DEF ReleasesOK
    <3>2. \E y \in DOMAIN publications' : fullIn(y)'
      BY <1>4, <2>2, <3>1, PublishKeepsFull
    <3>3. ASSUME NEW o \in Consoles, console'[o].op = "publish"
          PROVE  SeenOK(console[o].seen)'
      <4>1. console'[o] = console[o] /\ console[o].op = "publish"
        BY <1>6, <3>3
      <4>2. PICK T \in SUBSET (DOMAIN publications) : T = console[o].seen
        BY <1>4, <4>1 DEF ControlTypes, ReviewOps, Publishing
      <4>3. SeenOK(T)
        BY <1>4, <4>1, <4>2 DEF ReleasesOK
      <4>4. SeenOK(T)'
        BY <1>4, <2>2, <3>1, <4>3, PublishKeepsSeen
      <4> QED
        BY <4>1, <4>2, <4>4 DEF SeenOK, lastFull
    <3> QED
      BY <3>2, <3>3
  <2> QED
    BY <2>6, <2>7, <2>9, <2>10 DEF ControlInv
<1> QED
  BY <1>1, <1>9, <1>12, <1>13, <1>14, <1>15 DEF applyChangeRequest, publishes

-----------------------------------------------------------------------------
(* Versions and circuit breakers *)

LEMMA NewVersion ==
    ASSUME ControlInv, createLegalDocument
    PROVE  /\ documents' \in Seq(DocumentRow)
           /\ DOMAIN documents \subseteq DOMAIN documents'
           /\ \A d \in DOMAIN documents' : documents'[d].version \in 1..d
           /\ UNCHANGED <<publications, cascaded>>
<1> DEFINE V == {documents[d].version : d \in {d \in DOMAIN documents : exists(d)}}
           latest == Max({0} \cup V)
           new == [version |-> latest + 1, text |-> 0, deleted |-> FALSE]
           n == Len(documents)
<1>1. /\ n \in Nat /\ DOMAIN documents = 1..n /\ documents \in Seq(DocumentRow)
      /\ \A d \in DOMAIN documents : documents[d].version \in 1..d
  BY DocumentsAreRows DEF ControlInv, ControlTypes, ReferencesOK
<1>2. documents' = Append(documents, new) /\ UNCHANGED <<publications, cascaded>>
  BY DEF createLegalDocument
<1>3. V \subseteq 0..n
  <2> SUFFICES ASSUME NEW d \in DOMAIN documents PROVE documents[d].version \in 0..n
    OBVIOUS
  <2>1. d \in 1..n /\ documents[d].version \in 1..d
    BY <1>1
  <2> HIDE DEF n
  <2> QED
    BY <1>1, <2>1
<1> HIDE DEF V, n
<1>4. latest \in 0..n
  <2> DEFINE T == {0} \cup V
  <2>1. T \in SUBSET (0..n) /\ 0 \in T
    BY <1>1, <1>3
  <2> HIDE DEF T
  <2>2. Max(T) \in T
    BY <1>1, <2>1, MaxOfNaturals
  <2> QED
    BY <2>1, <2>2 DEF T
<1> HIDE DEF latest
<1>5. new \in DocumentRow /\ new.version = latest + 1 /\ latest + 1 \in 1..(n + 1)
  BY <1>1, <1>4, LegalAssumption DEF DocumentRow
<1> HIDE DEF new
<1>6. /\ documents' \in Seq(DocumentRow) /\ DOMAIN documents' = 1..(n + 1)
      /\ documents'[n + 1] = new
      /\ \A d \in 1..n : documents'[d] = documents[d]
  BY <1>1, <1>2, <1>5 DEF n
<1>7. \A d \in DOMAIN documents' : documents'[d].version \in 1..d
  <2> TAKE d \in DOMAIN documents'
  <2>1. d = n + 1 \/ d \in 1..n
    BY <1>1, <1>6
  <2> QED
    BY <1>1, <1>5, <1>6, <2>1
<1> QED
  BY <1>1, <1>2, <1>6, <1>7

LEMMA NewVersionStep ==
    ASSUME ControlInv, createLegalDocument, UNCHANGED changeVars
    PROVE  ControlInv'
<1>1. ControlTypes /\ ReferencesOK /\ ApprovalsOK /\ ReleasesOK
  BY DEF ControlInv
<1>2. /\ documents' \in Seq(DocumentRow)
      /\ DOMAIN documents \subseteq DOMAIN documents'
      /\ \A d \in DOMAIN documents' : documents'[d].version \in 1..d
      /\ UNCHANGED <<publications, cascaded>>
  BY NewVersion
<1>3. UNCHANGED <<changes, console, settings, cached, providers>>
  BY DEF changeVars
<1>4. ControlTypes'
  BY <1>1, <1>2, <1>3 DEF ControlTypes
<1>5. ReferencesOK'
  BY <1>1, <1>2, <1>3 DEF ReferencesOK
<1>6. ApprovalsOK'
  BY <1>1, <1>2, <1>3 DEF ApprovalsOK, SessionOK, CacheOK, FromApproved, Approved
<1>7. ReleasesOK'
  BY <1>1, <1>2, <1>3, ReleasesStay
<1> QED
  BY <1>4, <1>5, <1>6, <1>7 DEF ControlInv

(***************************************************************************)
(* An edit or a deletion.  A deletion that takes no publication along      *)
(* leaves them as they are.                                                *)
(***************************************************************************)
LEMMA DocumentChanged ==
    ASSUME ControlInv, NEW d, updateLegalDocument(d) \/ deleteLegalDocument(d)
    PROVE  /\ documents' \in Seq(DocumentRow)
           /\ DOMAIN documents' = DOMAIN documents
           /\ \A x \in DOMAIN documents : documents'[x].version = documents[x].version
           /\ publications' \in Seq(PublicationRow)
           /\ DOMAIN publications' = DOMAIN publications
           /\ \A i \in DOMAIN publications :
                /\ publications'[i].document = publications[i].document
                /\ publications'[i].mode = publications[i].mode
                /\ publications'[i].rollout = publications[i].rollout
                /\ publications'[i].fallback = publications[i].fallback
                /\ publications'[i].request = publications[i].request
           /\ cascaded' \in BOOLEAN
           /\ ~cascaded' => UNCHANGED <<publications, cascaded>>
<1>1. ControlTypes
  BY DEF ControlInv
<1>2. /\ documents \in Seq(DocumentRow) /\ d \in DOMAIN documents /\ documents[d] \in DocumentRow
      /\ Len(documents) \in Nat /\ DOMAIN documents = 1..Len(documents)
  <2>1. d \in DOMAIN documents
    BY DEF updateLegalDocument, deleteLegalDocument, exists
  <2> QED
    BY <1>1, <2>1, DocumentsAreRows DEF ControlTypes
<1>3. ASSUME NEW new \in DocumentRow, new.version = documents[d].version,
             documents' = [documents EXCEPT ![d] = new]
      PROVE  /\ documents' \in Seq(DocumentRow)
             /\ DOMAIN documents' = DOMAIN documents
             /\ \A x \in DOMAIN documents : documents'[x].version = documents[x].version
  BY <1>2, <1>3
<1>4. CASE updateLegalDocument(d)
  <2> DEFINE k == documents[d].text + 1
             new == [documents[d] EXCEPT !.text = k]
  <2>1. documents' = [documents EXCEPT ![d] = new] /\ UNCHANGED <<publications, cascaded>>
    BY <1>2, <1>4 DEF updateLegalDocument
  <2>2. k \in 0..MaxEdits
    <3>1. documents[d].text \in 0..MaxEdits /\ documents[d].text < MaxEdits
      BY <1>2, <1>4 DEF updateLegalDocument, DocumentRow
    <3> QED
      BY <3>1, LegalAssumption
  <2> HIDE DEF k
  <2>3. new \in DocumentRow /\ new.version = documents[d].version
    BY <1>2, <2>2 DEF DocumentRow
  <2> HIDE DEF new
  <2>4. /\ documents' \in Seq(DocumentRow)
        /\ DOMAIN documents' = DOMAIN documents
        /\ \A x \in DOMAIN documents : documents'[x].version = documents[x].version
    BY <1>3, <2>1, <2>3
  <2> QED
    BY <1>1, <2>1, <2>4 DEF ControlTypes
<1>5. CASE deleteLegalDocument(d)
  <2> DEFINE new == [documents[d] EXCEPT !.deleted = TRUE]
             old == [i \in DOMAIN publications |->
                        [publications[i] EXCEPT
                            !.active = publications[i].active /\ publications[i].document # d]]
  <2>1. /\ documents' = [documents EXCEPT ![d] = new]
        /\ publications' = old
        /\ cascaded' = (cascaded \/ published(d))
    BY <1>2, <1>5 DEF deleteLegalDocument
  <2>2. new \in DocumentRow /\ new.version = documents[d].version
    BY <1>2 DEF DocumentRow
  <2> HIDE DEF new
  <2>3. /\ documents' \in Seq(DocumentRow)
        /\ DOMAIN documents' = DOMAIN documents
        /\ \A x \in DOMAIN documents : documents'[x].version = documents[x].version
    BY <1>3, <2>1, <2>2
  <2>4. ASSUME NEW i \in DOMAIN publications
        PROVE  /\ old[i] \in PublicationRow
               /\ old[i].document = publications[i].document
               /\ old[i].mode = publications[i].mode
               /\ old[i].rollout = publications[i].rollout
               /\ old[i].fallback = publications[i].fallback
               /\ old[i].request = publications[i].request
               /\ publications[i].document # d => old[i] = publications[i]
    <3>1. publications[i] \in PublicationRow
      BY <1>1, PublicationsAreRows
    <3> DEFINE a == (publications[i].active /\ publications[i].document # d)
    <3>2. old[i] = [publications[i] EXCEPT !.active = a]
      OBVIOUS
    <3>3. a \in BOOLEAN
      OBVIOUS
    <3>4. publications[i].document # d => a = publications[i].active
      BY <3>1 DEF PublicationRow
    <3> HIDE DEF a, old
    <3> QED
      BY <3>1, <3>2, <3>3, <3>4 DEF PublicationRow
  <2>5. old \in [DOMAIN publications -> PublicationRow]
    BY <2>4
  <2> HIDE DEF old
  <2>6. old \in Seq(PublicationRow) /\ Len(old) = Len(publications) /\ DOMAIN old = DOMAIN publications
    BY <1>1, <2>5, PublicationsAsFunction
  <2>7. ASSUME ~cascaded'
        PROVE  UNCHANGED <<publications, cascaded>>
    <3>1. ~cascaded /\ \A i \in DOMAIN publications : publications[i].document # d
      BY <2>1, <2>7 DEF published
    <3>2. \A i \in DOMAIN publications : old[i] = publications[i]
      BY <2>4, <3>1
    <3>3. publications \in [DOMAIN publications -> PublicationRow]
      BY <1>1, PublicationsAreRows DEF ControlTypes
    <3>4. old = publications
      BY <2>5, <3>2, <3>3
    <3> QED
      BY <1>1, <2>1, <2>7, <3>1, <3>4 DEF ControlTypes
  <2> QED
    BY <2>1, <2>3, <2>4, <2>6, <2>7
<1> QED
  BY <1>4, <1>5

LEMMA EditStep ==
    ASSUME ControlInv, NEW c \in Consoles, documentIsEdited(c)
    PROVE  ControlInv'
<1>1. ControlTypes /\ ReferencesOK /\ ApprovalsOK /\ ReleasesOK
  BY DEF ControlInv
<1>2. PICK d : updateLegalDocument(d) \/ deleteLegalDocument(d)
  BY DEF documentIsEdited
<1>3. done(c) /\ UNCHANGED <<changes, settings, cached, providers>>
  BY DEF documentIsEdited
<1>4. /\ documents' \in Seq(DocumentRow)
      /\ DOMAIN documents' = DOMAIN documents
      /\ \A x \in DOMAIN documents : documents'[x].version = documents[x].version
      /\ publications' \in Seq(PublicationRow)
      /\ DOMAIN publications' = DOMAIN publications
      /\ \A i \in DOMAIN publications :
            /\ publications'[i].document = publications[i].document
            /\ publications'[i].mode = publications[i].mode
            /\ publications'[i].rollout = publications[i].rollout
            /\ publications'[i].fallback = publications[i].fallback
            /\ publications'[i].request = publications[i].request
      /\ cascaded' \in BOOLEAN
      /\ ~cascaded' => UNCHANGED <<publications, cascaded>>
  BY <1>2, DocumentChanged
<1>5. /\ console' \in [Consoles -> ConsoleType]
      /\ console'[c].op = "none"
      /\ \A o \in Consoles \ {c} : console'[o] = console[o]
  BY <1>1, <1>3, DoneFacts
<1>6. ControlTypes'
  BY <1>1, <1>3, <1>4, <1>5 DEF ControlTypes, ReviewOps, Publishing
<1>7. ReferencesOK'
  BY <1>1, <1>3, <1>4 DEF ReferencesOK
<1>8. RequestsKept /\ \A x : FromApproved(x) => FromApproved(x)'
  BY <1>3 DEF RequestsKept, FromApproved, Approved
<1>9. /\ \A p \in DOMAIN providers' : FromApproved(providers[p].from)'
      /\ \A i \in DOMAIN publications' : FromApproved(publications[i].request)'
  BY <1>1, <1>3, <1>4, <1>8 DEF ApprovalsOK, FromApproved
<1>10. ApprovalsOK'
  BY <1>1, <1>3, <1>8, <1>9, ApprovalsKept
<1>11. ReleasesOK'
  <2>1. CASE cascaded'
    BY <2>1 DEF ReleasesOK
  <2>2. CASE ~cascaded'
    BY <2>2, <1>1, <1>4, <1>5, ReleasesStay
  <2> QED
    BY <2>1, <2>2
<1> QED
  BY <1>6, <1>7, <1>10, <1>11 DEF ControlInv

LEMMA CircuitStep ==
    ASSUME ControlInv, NEW p \in DOMAIN providers, NEW tripped \in BOOLEAN,
           updateProviderCircuitState(p, tripped)
    PROVE  ControlInv'
<1>1. ControlTypes /\ ReferencesOK /\ ApprovalsOK /\ ReleasesOK
  BY DEF ControlInv
<1> DEFINE new == [providers[p] EXCEPT !.isCircuitBroken = tripped]
<1>2. /\ providers \in Seq(ProviderRow) /\ Len(providers) \in Nat
      /\ DOMAIN providers = 1..Len(providers) /\ providers[p] \in ProviderRow
  BY <1>1 DEF ControlTypes
<1>3. /\ providers' = [providers EXCEPT ![p] = new]
      /\ UNCHANGED <<documents, publications, cascaded, changes, console, settings, cached>>
  BY <1>2 DEF updateProviderCircuitState, legalVars
<1>4. new \in ProviderRow /\ new.from = providers[p].from
  BY <1>2 DEF ProviderRow
<1> HIDE DEF new
<1>5. /\ providers' \in Seq(ProviderRow) /\ Len(providers') = Len(providers)
      /\ DOMAIN providers' = DOMAIN providers
      /\ \A x \in DOMAIN providers : providers'[x].from = providers[x].from
  BY <1>2, <1>3, <1>4
<1>6. ControlTypes'
  BY <1>1, <1>3, <1>5 DEF ControlTypes
<1>7. ReferencesOK'
  BY <1>1, <1>3, <1>5 DEF ReferencesOK
<1>8. ApprovalsOK'
  BY <1>1, <1>3, <1>5 DEF ApprovalsOK, SessionOK, CacheOK, FromApproved, Approved
<1>9. ReleasesOK'
  BY <1>1, <1>3, ReleasesStay
<1> QED
  BY <1>6, <1>7, <1>8, <1>9 DEF ControlInv

-----------------------------------------------------------------------------
LEMMA ControlInitially == ChangeControlInit => ControlInv
<1> SUFFICES ASSUME ChangeControlInit PROVE ControlInv
  OBVIOUS
<1>1. /\ changes = [r \in Requests |-> noRequest] /\ console = [c \in Consoles |-> AtRest]
      /\ settings = [t \in Targets |-> nothingSet] /\ cached = [f \in Fields |-> NotCached]
      /\ providers = <<[from |-> Nobody, isCircuitBroken |-> FALSE]>>
      /\ cascaded = FALSE
      /\ NothingPublished \/ FirstVersionIsOut(Nobody)
  BY DEF ChangeControlInit
<1>2. /\ noRequest \in RequestRow /\ noRequest.status = "none" /\ noRequest.target = 0
  BY DEF noRequest, RequestRow, Rollouts
<1>3. AtRest \in ConsoleType /\ AtRest.op = "none"
  BY DEF AtRest, ConsoleType
<1>4. /\ providers \in Seq(ProviderRow) /\ Len(providers) = 1 /\ DOMAIN providers = {1}
      /\ providers[1].from = Nobody
  <2> DEFINE p == [from |-> Nobody, isCircuitBroken |-> FALSE]
  <2>1. p \in ProviderRow /\ p.from = Nobody
    BY DEF ProviderRow
  <2> HIDE DEF p
  <2>2. providers = <<p>>
    BY <1>1 DEF p
  <2> QED
    BY <2>1, <2>2
<1>5. \/ documents = <<>> /\ publications = <<>>
      \/ /\ documents \in Seq(DocumentRow) /\ DOMAIN documents = {1} /\ documents[1].version = 1
         /\ publications \in Seq(PublicationRow) /\ DOMAIN publications = {1}
         /\ publications[1].document = 1 /\ publications[1].mode = "stable"
         /\ publications[1].rollout = 100 /\ publications[1].fallback = 0
         /\ publications[1].active /\ publications[1].request = Nobody
  <2>1. CASE NothingPublished
    BY <2>1 DEF NothingPublished
  <2>2. CASE FirstVersionIsOut(Nobody)
    <3> DEFINE d == [version |-> 1, text |-> 0, deleted |-> FALSE]
               p == [document |-> 1, mode |-> "stable", rollout |-> 100, fallback |-> 0,
                     active |-> TRUE, request |-> Nobody, text |-> 0]
    <3>1. documents = <<d>> /\ publications = <<p>>
      BY <2>2 DEF FirstVersionIsOut
    <3>2. d \in DocumentRow /\ d.version = 1
      BY LegalAssumption DEF DocumentRow
    <3>3. /\ p \in PublicationRow /\ p.document = 1 /\ p.mode = "stable" /\ p.rollout = 100
          /\ p.fallback = 0 /\ p.active /\ p.request = Nobody
      BY LegalAssumption DEF PublicationRow, Rollouts
    <3> HIDE DEF d, p
    <3> QED
      BY <3>1, <3>2, <3>3
  <2> QED
    BY <1>1, <2>1, <2>2
<1>6. documents \in Seq(DocumentRow) /\ publications \in Seq(PublicationRow)
  <2>1. <<>> \in Seq(DocumentRow) /\ <<>> \in Seq(PublicationRow)
    OBVIOUS
  <2>2. CASE documents = <<>> /\ publications = <<>>
    BY <2>1, <2>2
  <2> QED
    BY <1>5, <2>2
<1>7. ControlTypes
  BY <1>1, <1>2, <1>3, <1>4, <1>6 DEF ControlTypes, ReviewOps, Publishing, nothingSet, ConfigRow
<1>8. ReferencesOK
  <2>1. Len(providers) \in 1..MaxProviders /\ 0 \in 0..Len(providers)
    BY <1>4, ChangeControlAssumption
  <2> QED
    BY <1>1, <1>2, <1>5, <2>1 DEF ReferencesOK
<1>9. ApprovalsOK
  BY <1>1, <1>2, <1>3, <1>4, <1>5
     DEF ApprovalsOK, SessionOK, CacheOK, FromApproved, ReviewOps, Publishing, nothingSet
<1>10. ReleasesOK
  BY <1>1, <1>3, <1>5 DEF ReleasesOK, fullIn, isGray
<1> QED
  BY <1>7, <1>8, <1>9, <1>10 DEF ControlInv

LEMMA ControlInvKept ==
    ControlInv /\ [ConfigNext \/ LegalNext \/ ReviewNext]_allChangeVars => ControlInv'
<1> SUFFICES ASSUME ControlInv, [ConfigNext \/ LegalNext \/ ReviewNext]_allChangeVars
             PROVE  ControlInv'
  OBVIOUS
<1>1. CASE ConfigNext
  BY <1>1, DraftSteps, CircuitStep, CacheStep, ConfigSteps DEF ConfigNext
<1>2. CASE LegalNext
  BY <1>2, LegalCheckStep, LegalDraftStep, NewVersionStep, MutableStep DEF LegalNext
<1>3. CASE ReviewNext
  BY <1>3, ReadStep, DecisionSteps, PublishStep, EditStep, RollsBackStep
     DEF ReviewNext, commits, ReviewOps, Publishing
<1>4. CASE UNCHANGED allChangeVars
  <2>1. UNCHANGED <<documents, publications, cascaded, changes, console, settings, cached, providers>>
    BY <1>4 DEF allChangeVars, changeVars, legalVars
  <2>2. ControlTypes' /\ ReferencesOK'
    BY <2>1 DEF ControlInv, ControlTypes, ReferencesOK
  <2>3. ApprovalsOK'
    BY <2>1 DEF ControlInv, ApprovalsOK, SessionOK, CacheOK, FromApproved, Approved
  <2>4. ReleasesOK'
    BY <2>1, ReleasesStay DEF ControlInv
  <2> QED
    BY <2>2, <2>3, <2>4 DEF ControlInv
<1> QED
  BY <1>1, <1>2, <1>3, <1>4

LEMMA ControlInvAlways == ChangeControlSpec => []ControlInv
  BY ControlInitially, ControlInvKept, PTL DEF ChangeControlSpec

(***************************************************************************)
(* Whatever sessions read and commit in between, requests, publications,   *)
(* versions and providers stay well formed: a publication's document       *)
(* exists, its fallback is an earlier publication, and a request's target  *)
(* is a provider (readChangeRequest, publishControlChangeRequest).         *)
(***************************************************************************)
THEOREM ChangeControlTypeCorrect == ChangeControlSpec => []ChangeControlTypeOK
<1>1. ControlInv => ChangeControlTypeOK
  <2> SUFFICES ASSUME ControlInv PROVE ChangeControlTypeOK
    OBVIOUS
  <2>1. ControlTypes /\ ReferencesOK
    BY DEF ControlInv
  <2>2. \A d \in DOMAIN documents : documents[d].text \in 0..MaxEdits
    BY <2>1, DocumentsAreRows DEF DocumentRow
  <2>3. \A i \in DOMAIN publications : publications[i].rollout \in Rollouts
    BY <2>1, PublicationsAreRows DEF PublicationRow
  <2>4. LegalTypeOK
    BY <2>1, <2>2, <2>3 DEF LegalTypeOK, ReferencesOK, ControlTypes
  <2>5. \A r \in Requests :
            /\ changes[r].kind \in Kinds \cup {"none"}
            /\ changes[r].status \in QUEUED_CHANGE_REQUEST_STATUSES \cup FINALIZED \cup {"none"}
    BY <2>1 DEF ControlTypes, RequestRow
  <2> QED
    BY <2>1, <2>4, <2>5 DEF ChangeControlTypeOK, ReferencesOK, ControlTypes, ConfigRow
<1> QED
  BY <1>1, ControlInvAlways, PTL

(***************************************************************************)
(* A setting, a provider's configuration and a publication come from a     *)
(* request that another administrator than its author approved, for any    *)
(* number of sessions that commit on stale reads: no step takes an         *)
(* approval away, and the author is never rewritten.  This holds of the    *)
(* values that a blackjack change reads from the cache and writes back     *)
(* (getBlackjackConfig, setBlackjackConfig), which were all approved once; *)
(* that they were last in force does not hold.                             *)
(***************************************************************************)
THEOREM InForceWasAlwaysApproved == ChangeControlSpec => []InForceWasApproved
<1>1. ControlInv => InForceWasApproved
  BY DEF ControlInv, ApprovalsOK, FromApproved, Approved, InForceWasApproved
<1> QED
  BY <1>1, ControlInvAlways, PTL

(***************************************************************************)
(* A document once published has an active full release, and an audience   *)
(* outside every rollout is shown something, for any number of concurrent  *)
(* publications (publishLegalDocumentVersion, resolvePublicationForAudience)*)
(***************************************************************************)
THEOREM FullReleaseAlways == ChangeControlSpec => []AlwaysAFullRelease
<1>1. ControlInv => AlwaysAFullRelease
  <2> SUFFICES ASSUME ControlInv, publications # <<>>, ~cascaded
               PROVE  /\ \E i \in DOMAIN publications : publications[i].active /\ ~isGray(i)
                      /\ resolvePublicationForAudience(readActivePublications, FALSE) # 0
    BY DEF AlwaysAFullRelease
  <2>1. PICK y \in DOMAIN publications : fullIn(y)
    BY DEF ControlInv, ReleasesOK
  <2> DEFINE ids == readActivePublications
             grays == {i \in ids : isGray(i)}
             gray == latestOf(grays)
             fallback == orElse(latestOf({i \in ids : i = publications[gray].fallback}),
                                latestOf(ids \ {gray}))
  <2>2. /\ Len(publications) \in Nat
        /\ ids \in SUBSET (1..Len(publications)) /\ ids # {}
    BY <2>1, PublicationsAreRows DEF readActivePublications, fullIn, ControlInv
  <2>3. latestOf(ids) # 0
    <3> HIDE DEF ids
    <3> QED
      BY <2>2, LatestOfIds
  <2>4. resolvePublicationForAudience(ids, FALSE)
            = IF gray = 0 THEN latestOf(ids)
              ELSE IF fallback = 0 \/ FALSE THEN gray ELSE fallback
    BY DEF resolvePublicationForAudience
  <2> HIDE DEF ids, gray, fallback
  <2>5. resolvePublicationForAudience(ids, FALSE) # 0
    BY <2>3, <2>4
  <2> QED
    BY <2>1, <2>5 DEF fullIn, ids
<1> QED
  BY <1>1, ControlInvAlways, PTL

-----------------------------------------------------------------------------
(***************************************************************************)
(* The tenants' webhooks.  A worker's number of attempts is read at its    *)
(* claim and written back at a failure.                                    *)
(***************************************************************************)
PostRow ==
    [status : {"none", "pending", "sending", "delivered", "failed"}, attempts : Nat,
     due : BOOLEAN, stale : BOOLEAN]

PosterWork ==
    [phase : {"post", "accepted", "retry", "refused"}, row : Endpoints \X Rewards, attempts : Nat]

WebhookInv ==
    /\ posts \in [Endpoints \X Rewards -> PostRow]
    /\ poster \in [WebhookWorkers -> {NoWork} \cup PosterWork]

\* A row that an administrator, a draw or the time changes.
LEMMA PostsKept ==
    ASSUME WebhookInv,
           \/ \E e \in Endpoints : updateSaasOutboundWebhook(e) \/ deleteSaasOutboundWebhook(e)
           \/ \E r \in Rewards : enqueueRewardCompletedWebhookDeliveries(r)
           \/ \E x \in DOMAIN posts : comesDueAgain(x) \/ lockGoesStale(x)
    PROVE  WebhookInv'
<1>1. ASSUME NEW e \in Endpoints, updateSaasOutboundWebhook(e) PROVE WebhookInv'
  BY <1>1 DEF WebhookInv, updateSaasOutboundWebhook
<1>2. ASSUME NEW e \in Endpoints, deleteSaasOutboundWebhook(e) PROVE WebhookInv'
  BY <1>2 DEF WebhookInv, deleteSaasOutboundWebhook, PostRow
<1>3. ASSUME NEW r \in Rewards, enqueueRewardCompletedWebhookDeliveries(r) PROVE WebhookInv'
  <2> DEFINE toSend(x) == [posts[x] EXCEPT !.status = "pending", !.due = TRUE]
  <2>1. DOMAIN posts = Endpoints \X Rewards /\ \A x \in Endpoints \X Rewards : posts[x] \in PostRow
    BY DEF WebhookInv
  <2>2. \A x \in Endpoints \X Rewards : toSend(x) \in PostRow
    BY <2>1 DEF PostRow
  <2>3. posts' = [x \in DOMAIN posts |->
                    IF x[2] = r /\ endpoints[x[1]] = "active" THEN toSend(x) ELSE posts[x]]
    BY <1>3, Zenon DEF enqueueRewardCompletedWebhookDeliveries
  <2> HIDE DEF queued
  <2>4. posts' \in [Endpoints \X Rewards -> PostRow]
    BY <2>1, <2>2, <2>3, Zenon
  <2>5. poster' = poster
    BY <1>3, Zenon DEF enqueueRewardCompletedWebhookDeliveries
  <2> QED
    BY <2>4, <2>5 DEF WebhookInv
<1>4. ASSUME NEW x \in DOMAIN posts, comesDueAgain(x) \/ lockGoesStale(x) PROVE WebhookInv'
  <2>1. /\ posts' = [posts EXCEPT ![x].due = TRUE] \/ posts' = [posts EXCEPT ![x].stale = TRUE]
        /\ poster' = poster
    BY <1>4 DEF comesDueAgain, lockGoesStale
  <2>2. posts[x] \in PostRow
    BY DEF WebhookInv
  <2>3. [posts[x] EXCEPT !.due = TRUE] \in PostRow /\ [posts[x] EXCEPT !.stale = TRUE] \in PostRow
    BY <2>2 DEF PostRow
  <2> QED
    BY <2>1, <2>3 DEF WebhookInv
<1> QED
  BY <1>1, <1>2, <1>3, <1>4

LEMMA MarkKept ==
    ASSUME WebhookInv, NEW k \in WebhookWorkers, NEW row, marked(k, row),
           poster[k].row \in Endpoints \X Rewards => row \in PostRow
    PROVE  WebhookInv'
  BY DEF WebhookInv, marked

LEMMA WorkerKept ==
    ASSUME WebhookInv, NEW k \in WebhookWorkers,
           \/ runSaasOutboundWebhookDeliveryCycle(k)
           \/ markDeliveredThrows(k) \/ workerIsLost(k)
    PROVE  WebhookInv'
<1>0. poster[k] = NoWork \/ poster[k] \in PosterWork
  BY DEF WebhookInv
<1>1. ASSUME NEW x \in DOMAIN posts, claimDueOutboundWebhookDeliveries(k, x) PROVE WebhookInv'
  <2>1. x \in Endpoints \X Rewards /\ posts[x] \in PostRow
    BY <1>1 DEF WebhookInv
  <2>2. [phase |-> "post", row |-> x, attempts |-> posts[x].attempts + 1] \in PosterWork
    BY <2>1 DEF PostRow, PosterWork
  <2>3. poster' \in [WebhookWorkers -> {NoWork} \cup PosterWork]
    BY <1>1, <2>2 DEF WebhookInv, claimDueOutboundWebhookDeliveries
  <2>4. posts' \in [Endpoints \X Rewards -> PostRow]
    BY <1>1, <2>1 DEF WebhookInv, claimDueOutboundWebhookDeliveries, PostRow
  <2> QED
    BY <2>3, <2>4 DEF WebhookInv
<1>2. ASSUME NEW phase \in {"accepted", "retry", "refused"}, poster[k].phase \in {"post", "accepted"},
             poster' = [poster EXCEPT ![k].phase = phase], posts' = posts
      PROVE  WebhookInv'
  BY <1>0, <1>2 DEF WebhookInv, NoWork, PosterWork
<1>3. CASE markOutboundWebhookDeliveryDelivered(k)
  <2> DEFINE row == [posts[poster[k].row] EXCEPT !.status = "delivered", !.stale = FALSE]
  <2>1. poster[k].row \in Endpoints \X Rewards => row \in PostRow
    BY DEF WebhookInv, PostRow
  <2>2. marked(k, row)
    BY <1>3 DEF markOutboundWebhookDeliveryDelivered
  <2> HIDE DEF row
  <2> QED
    BY <2>1, <2>2, MarkKept
<1>4. CASE markOutboundWebhookDeliveryFailed(k)
  <2>1. poster[k] \in PosterWork
    BY <1>0, <1>4 DEF markOutboundWebhookDeliveryFailed, NoWork
  <2>2. attemptsAfter(poster[k].attempts, poster[k].phase) \in Nat
    BY <2>1, TenantWebhooksAssumption DEF PosterWork, attemptsAfter
  <2> DEFINE attempts == attemptsAfter(poster[k].attempts, poster[k].phase)
             row == [posts[poster[k].row] EXCEPT !.status = "failed", !.stale = FALSE,
                                                 !.due = FALSE, !.attempts = attempts]
  <2>3. marked(k, row)
    BY <1>4 DEF markOutboundWebhookDeliveryFailed
  <2> HIDE DEF attempts
  <2>4. poster[k].row \in Endpoints \X Rewards => row \in PostRow
    BY <2>2 DEF WebhookInv, PostRow, attempts
  <2> HIDE DEF row
  <2> QED
    BY <2>3, <2>4, MarkKept
<1>5. CASE workerIsLost(k)
  BY <1>5 DEF WebhookInv, workerIsLost
<1> QED
  BY <1>1, <1>2, <1>3, <1>4, <1>5
     DEF runSaasOutboundWebhookDeliveryCycle, dispatchOutboundWebhookDelivery, endpointIsGone,
         markDeliveredThrows

LEMMA WebhookInvAlways == TenantWebhooksSpec => []WebhookInv
<1>1. TenantWebhooksInit => WebhookInv
  BY DEF TenantWebhooksInit, WebhookInv, PostRow
<1>2. WebhookInv /\ [TenantWebhooksNext]_webhookVars => WebhookInv'
  <2>1. ASSUME WebhookInv, TenantWebhooksNext PROVE WebhookInv'
    BY <2>1, PostsKept, WorkerKept DEF TenantWebhooksNext
  <2>2. ASSUME WebhookInv, UNCHANGED webhookVars PROVE WebhookInv'
    BY <2>2 DEF WebhookInv, webhookVars
  <2> QED
    BY <2>1, <2>2
<1> QED
  BY <1>1, <1>2, PTL DEF TenantWebhooksSpec

-----------------------------------------------------------------------------
(***************************************************************************)
(* The notifications.  Besides the types: a dispatcher holds rows exactly  *)
(* from its claim to the end of its batch, and never more than a batch.    *)
(***************************************************************************)
DeliveryRow ==
    [status : {"none", "pending", "processing", "sent", "failed"}, attempts : Nat,
     due : BOOLEAN, expired : BOOLEAN, requeues : Nat]

Claims == [id : Deliveries, attempts : Nat]

Tick ==
    [phase : {"timer", "claim", "send", "finalize"}, batch : Seq(Claims), full : BOOLEAN,
     outcome : {"none", "sent", "retryable", "permanent"}]

\* A row that can come due is not being sent.
RowOK(row) == row \in DeliveryRow /\ (row.due => row.status \in {"pending", "sent", "failed"})

TickOK(w) ==
    /\ w \in Tick
    /\ Len(w.batch) <= BatchSize
    /\ (w.batch = <<>>) = (w.phase \in {"timer", "claim"})

NotificationInv ==
    /\ deliveries = [d \in Deliveries |-> deliveries[d]]
    /\ \A d \in Deliveries : RowOK(deliveries[d])
    /\ dispatcher = [p \in Dispatchers |-> dispatcher[p]]
    /\ \A p \in Dispatchers : TickOK(dispatcher[p])

\* Listing a finite set gives a sequence of its elements, as long as it is large.
LEMMA SetToSeqFacts ==
    ASSUME NEW S, IsFiniteSet(S)
    PROVE  SetToSeq(S) \in Seq(S) /\ Len(SetToSeq(S)) = Cardinality(S)
<1>1. Cardinality(S) \in Nat /\ ExistsBijection(1..Cardinality(S), S)
  BY FS_CardinalityType
<1>2. \E f \in [1..Cardinality(S) -> S] : IsInjective(f)
  BY <1>1 DEF ExistsBijection, Bijection, Injection
<1>3. SetToSeq(S) \in [1..Cardinality(S) -> S]
  BY <1>2 DEF SetToSeq
<1> DEFINE s == SetToSeq(S)
           n == Cardinality(S)
<1> HIDE DEF s, n
<1>4. n \in Nat /\ s \in [1..n -> S]
  BY <1>1, <1>3 DEF s, n
<1>5. s \in Seq(S) /\ Len(s) = n
  BY <1>4
<1> QED
  BY <1>5 DEF s, n

\* A step that writes one row, or writes rows all over, and one dispatcher.
LEMMA NotificationKept ==
    ASSUME NotificationInv, NEW p \in Dispatchers, NEW rows, NEW w,
           deliveries' = [d \in Deliveries |-> rows[d]],
           \A d \in Deliveries : RowOK(rows[d]),
           dispatcher' = [dispatcher EXCEPT ![p] = w],
           TickOK(w)
    PROVE  NotificationInv'
<1>1. dispatcher' = [q \in Dispatchers |-> dispatcher'[q]] /\ \A q \in Dispatchers : TickOK(dispatcher'[q])
  BY DEF NotificationInv
<1>2. deliveries' = [d \in Deliveries |-> deliveries'[d]] /\ \A d \in Deliveries : RowOK(deliveries'[d])
  OBVIOUS
<1> QED
  BY <1>1, <1>2 DEF NotificationInv

\* A step that writes rows only.
LEMMA RowsKept ==
    ASSUME NotificationInv, NEW d \in Deliveries, NEW row,
           deliveries' = [deliveries EXCEPT ![d] = row], RowOK(row), UNCHANGED dispatcher
    PROVE  NotificationInv'
  BY DEF NotificationInv

\* A step of a dispatcher that writes no row.
LEMMA TickKept ==
    ASSUME NotificationInv, NEW p \in Dispatchers, NEW w,
           dispatcher' = [dispatcher EXCEPT ![p] = w], TickOK(w), UNCHANGED deliveries
    PROVE  NotificationInv'
  BY DEF NotificationInv

LEMMA QueueSteps ==
    ASSUME NotificationInv, NEW d \in Deliveries,
           queueNotificationDelivery(d) \/ timePasses(d) \/ retryFailedNotificationDelivery(d)
    PROVE  NotificationInv'
<1>0. RowOK(deliveries[d])
  BY DEF NotificationInv
<1>1. CASE queueNotificationDelivery(d)
  <2> DEFINE row == [deliveries[d] EXCEPT !.status = "pending", !.due = TRUE]
  <2>1. RowOK(row)
    BY <1>0 DEF RowOK, DeliveryRow
  <2>2. deliveries' = [deliveries EXCEPT ![d] = row] /\ UNCHANGED dispatcher
    BY <1>1 DEF queueNotificationDelivery
  <2> HIDE DEF row
  <2> QED
    BY <2>1, <2>2, RowsKept
<1>2. CASE comesDue(d)
  <2> DEFINE row == [deliveries[d] EXCEPT !.due = TRUE]
  <2>1. RowOK(row)
    BY <1>0, <1>2 DEF RowOK, DeliveryRow, comesDue
  <2>2. deliveries' = [deliveries EXCEPT ![d] = row] /\ UNCHANGED dispatcher
    BY <1>2 DEF comesDue
  <2> HIDE DEF row
  <2> QED
    BY <2>1, <2>2, RowsKept
<1>3. CASE lockTimesOut(d)
  <2> DEFINE row == [deliveries[d] EXCEPT !.expired = TRUE]
  <2>1. RowOK(row)
    BY <1>0, <1>3 DEF RowOK, DeliveryRow, lockTimesOut
  <2>2. deliveries' = [deliveries EXCEPT ![d] = row] /\ UNCHANGED dispatcher
    BY <1>3 DEF lockTimesOut
  <2> HIDE DEF row
  <2> QED
    BY <2>1, <2>2, RowsKept
<1>4. CASE retryFailedNotificationDelivery(d)
  <2> DEFINE n == deliveries[d].requeues + 1
             row == [deliveries[d] EXCEPT !.status = "pending", !.attempts = 0, !.due = TRUE,
                                          !.requeues = n]
  <2>0. n \in Nat
    BY <1>0 DEF RowOK, DeliveryRow
  <2> HIDE DEF n
  <2>1. RowOK(row)
    BY <1>0, <2>0 DEF RowOK, DeliveryRow
  <2>2. deliveries' = [deliveries EXCEPT ![d] = row] /\ UNCHANGED dispatcher
    BY <1>4, Zenon DEF retryFailedNotificationDelivery, n
  <2> HIDE DEF row
  <2> QED
    BY <2>1, <2>2, RowsKept
<1> QED
  BY <1>1, <1>2, <1>3, <1>4 DEF timePasses

\* A claim takes a batch at most, and only rows that are due.
LEMMA ClaimKept ==
    ASSUME NotificationInv, NEW p \in Dispatchers, claimPendingDeliveries(p)
    PROVE  NotificationInv'
<1> DEFINE claim(d) == [id |-> d, attempts |-> deliveries[d].attempts + 1]
           n == IF Cardinality(claimable) < BatchSize THEN Cardinality(claimable) ELSE BatchSize
<1>1. PICK ids \in SUBSET claimable :
        /\ Cardinality(ids) = n
        /\ deliveries' = [d \in Deliveries |->
                            IF d \in ids
                            THEN [deliveries[d] EXCEPT !.status = "processing", !.attempts = @ + 1,
                                                       !.due = FALSE, !.expired = FALSE]
                            ELSE deliveries[d]]
        /\ dispatcher' = [dispatcher EXCEPT ![p] =
                            [phase |-> IF ids = {} THEN "timer" ELSE "send",
                             batch |-> SetToSeq({claim(d) : d \in ids}),
                             full |-> Cardinality(ids) = BatchSize,
                             outcome |-> "none"]]
  BY Zenon DEF claimPendingDeliveries
<1> DEFINE S == {claim(d) : d \in ids}
           rows == [d \in Deliveries |->
                        IF d \in ids
                        THEN [deliveries[d] EXCEPT !.status = "processing", !.attempts = @ + 1,
                                                   !.due = FALSE, !.expired = FALSE]
                        ELSE deliveries[d]]
           w == [phase |-> IF ids = {} THEN "timer" ELSE "send", batch |-> SetToSeq(S),
                 full |-> Cardinality(ids) = BatchSize, outcome |-> "none"]
<1>2. \A d \in Deliveries : RowOK(deliveries[d]) /\ deliveries[d].attempts + 1 \in Nat
  BY DEF NotificationInv, RowOK, DeliveryRow
<1>3. ids \subseteq Deliveries /\ IsFiniteSet(ids) /\ claimable \subseteq Deliveries /\ IsFiniteSet(claimable)
  <2>1. ids \subseteq Deliveries /\ claimable \subseteq Deliveries
    BY DEF claimable
  <2> QED
    BY <2>1, FS_Subset, NotificationAssumption
<1>4. Cardinality(ids) \in Nat /\ Cardinality(ids) <= BatchSize
  <2> DEFINE some == Cardinality(ids)
             all == Cardinality(claimable)
  <2>1. some \in Nat /\ all \in Nat
    BY <1>3, FS_CardinalityType
  <2>2. some = IF all < BatchSize THEN all ELSE BatchSize
    BY <1>1, Zenon
  <2> HIDE DEF some, all
  <2>3. some \in Nat /\ some <= BatchSize
    BY <2>1, <2>2, NotificationAssumption
  <2> QED
    BY <2>3 DEF some
<1>5. S \subseteq Claims
  BY <1>2, <1>3 DEF Claims
<1>6. IsFiniteSet(S) /\ Cardinality(S) <= Cardinality(ids)
  <2> DEFINE f == [d \in ids |-> claim(d)]
  <2>1. f \in Surjection(ids, S)
    BY DEF Surjection
  <2> HIDE DEF f, S
  <2> QED
    BY <1>3, <2>1, FS_Surjection
<1>7. Cardinality(S) \in Nat /\ (Cardinality(S) = 0 <=> S = {}) /\ (S = {} <=> ids = {})
  <2>1. S = {} <=> ids = {}
    OBVIOUS
  <2> HIDE DEF S
  <2> QED
    BY <1>6, <2>1, FS_CardinalityType, FS_EmptySet
<1>8. SetToSeq(S) \in Seq(Claims) /\ Len(SetToSeq(S)) = Cardinality(S)
  <2> HIDE DEF S
  <2>1. SetToSeq(S) \in Seq(S) /\ Len(SetToSeq(S)) = Cardinality(S)
    BY <1>6, SetToSeqFacts
  <2> QED
    BY <1>5, <2>1
<1> HIDE DEF S
<1>9. TickOK(w)
  <2> DEFINE batch == SetToSeq(S)
  <2>1. batch \in Seq(Claims) /\ Len(batch) <= BatchSize /\ (batch = <<>> <=> ids = {})
    BY <1>4, <1>6, <1>7, <1>8, NotificationAssumption
  <2> HIDE DEF batch
  <2>2. w = [phase |-> IF ids = {} THEN "timer" ELSE "send", batch |-> batch,
             full |-> Cardinality(ids) = BatchSize, outcome |-> "none"]
    BY DEF batch
  <2> QED
    BY <2>1, <2>2 DEF TickOK, Tick
<1>10. ASSUME NEW d \in Deliveries PROVE RowOK(rows[d])
  <2> DEFINE attempts == deliveries[d].attempts + 1
  <2>0. attempts \in Nat
    BY <1>2
  <2> HIDE DEF attempts
  <2> DEFINE taken == [deliveries[d] EXCEPT !.status = "processing", !.attempts = attempts,
                                            !.due = FALSE, !.expired = FALSE]
  <2>1. RowOK(taken)
    BY <1>2, <2>0 DEF RowOK, DeliveryRow
  <2>2. rows[d] = IF d \in ids THEN taken ELSE deliveries[d]
    BY Zenon DEF attempts
  <2> HIDE DEF taken, rows
  <2> QED
    BY <1>2, <2>1, <2>2
<1>11. deliveries' = [d \in Deliveries |-> rows[d]] /\ dispatcher' = [dispatcher EXCEPT ![p] = w]
  <2>1. deliveries' = rows
    BY <1>1, Zenon
  <2>2. rows = [d \in Deliveries |-> rows[d]]
    BY Zenon
  <2>3. dispatcher' = [dispatcher EXCEPT ![p] = w]
    BY <1>1, Zenon DEF S
  <2> HIDE DEF rows, w
  <2> QED
    BY <2>1, <2>2, <2>3
<1> HIDE DEF rows, w
<1> QED
  BY <1>9, <1>10, <1>11, NotificationKept

\* After a row the dispatcher goes on to the next, claims again or waits.
LEMMA NextDelivery ==
    ASSUME NotificationInv, NEW p \in Dispatchers, nextDelivery(p)
    PROVE  \E w : TickOK(w) /\ dispatcher' = [dispatcher EXCEPT ![p] = w]
<1> DEFINE now == dispatcher[p]
           batch == Tail(now.batch)
           phase == IF now.full THEN "claim" ELSE "timer"
           onward == [now EXCEPT !.phase = "send", !.batch = batch, !.outcome = "none"]
           over == [AtTimer EXCEPT !.phase = phase]
           w == IF Len(now.batch) > 1 THEN onward ELSE over
<1>1. dispatcher' = [dispatcher EXCEPT ![p] = w]
  BY Zenon DEF nextDelivery
<1>2. TickOK(now)
  BY DEF NotificationInv
<1>3. CASE Len(now.batch) > 1
  <2>1. now.batch \in Seq(Claims) /\ Len(now.batch) <= BatchSize /\ now \in Tick
    BY <1>2 DEF TickOK, Tick
  <2>2. batch \in Seq(Claims) /\ Len(batch) = Len(now.batch) - 1 /\ Len(now.batch) \in Nat
    BY <1>3, <2>1
  <2> HIDE DEF batch
  <2>3. Len(batch) <= BatchSize /\ Len(batch) > 0
    BY <1>3, <2>1, <2>2, NotificationAssumption
  <2>4. batch # <<>>
    BY <2>3
  <2>5. onward \in Tick /\ onward.batch = batch /\ onward.phase = "send"
    BY <2>1, <2>2 DEF Tick
  <2> HIDE DEF onward
  <2>6. TickOK(onward)
    BY <2>3, <2>4, <2>5 DEF TickOK
  <2> QED
    BY <1>1, <1>3, <2>6, Zenon
<1>4. CASE ~(Len(now.batch) > 1)
  <2>1. phase \in {"claim", "timer"}
    OBVIOUS
  <2> HIDE DEF phase
  <2>0. AtTimer \in Tick /\ AtTimer.batch = <<>>
    BY DEF AtTimer, Tick
  <2>2. over \in Tick /\ over.batch = <<>> /\ over.phase = phase
    BY <2>0, <2>1 DEF Tick
  <2> HIDE DEF over
  <2>3. TickOK(over)
    BY <2>1, <2>2, NotificationAssumption DEF TickOK
  <2> QED
    BY <1>1, <1>4, <2>3, Zenon
<1> QED
  BY <1>3, <1>4

LEMMA FinalizeKept ==
    ASSUME NotificationInv, NEW p \in Dispatchers, finalizeSuccess(p) \/ finalizeFailure(p)
    PROVE  NotificationInv'
<1> DEFINE d == current(p).id
<1>1. nextDelivery(p)
  BY DEF finalizeSuccess, finalizeFailure
<1>2. PICK w : TickOK(w) /\ dispatcher' = [dispatcher EXCEPT ![p] = w]
  BY <1>1, NextDelivery
<1>3. \A x \in Deliveries : RowOK(deliveries[x])
  BY DEF NotificationInv
<1>4. \E status \in {"sent", "failed", "pending"} :
        \/ status = "sent" /\ deliveries' = [deliveries EXCEPT ![d].status = status]
        \/ deliveries' = [deliveries EXCEPT ![d].status = status, ![d].due = FALSE]
  BY DEF finalizeSuccess, finalizeFailure
<1>5. PICK status \in {"sent", "failed", "pending"} :
        \/ status = "sent" /\ deliveries' = [deliveries EXCEPT ![d].status = status]
        \/ deliveries' = [deliveries EXCEPT ![d].status = status, ![d].due = FALSE]
  BY <1>4
<1> DEFINE sent(x) == [deliveries[x] EXCEPT !.status = status]
           failed(x) == [deliveries[x] EXCEPT !.status = status, !.due = FALSE]
<1>6. \A x \in Deliveries : (status = "sent" => RowOK(sent(x))) /\ RowOK(failed(x))
  BY <1>3 DEF RowOK, DeliveryRow
<1>7. DOMAIN deliveries = Deliveries
  BY DEF NotificationInv
<1>8. DOMAIN deliveries' = Deliveries
  BY <1>5, <1>7
<1>9. ASSUME NEW x \in Deliveries PROVE RowOK(deliveries'[x])
  <2>1. CASE x # d
    BY <1>3, <1>5, <1>7, <2>1
  <2>2. CASE x = d
    <3>1. \/ status = "sent" /\ deliveries'[x] = sent(x)
          \/ deliveries'[x] = failed(x)
      BY <1>5, <1>7, <2>2
    <3> HIDE DEF sent, failed
    <3> QED
      BY <1>6, <3>1
  <2> QED
    BY <2>1, <2>2
<1>10. deliveries' = [x \in Deliveries |-> deliveries'[x]]
  BY <1>5, <1>7
<1> QED
  BY <1>2, <1>9, <1>10, NotificationKept

LEMMA RecoverKept ==
    ASSUME NotificationInv, NEW p \in Dispatchers, recoverStuckAuthNotifications(p)
    PROVE  NotificationInv'
<1> DEFINE freed(d) == [deliveries[d] EXCEPT !.status = "pending", !.due = TRUE, !.expired = FALSE]
           rows == [d \in Deliveries |-> IF recoverable(deliveries[d]) THEN freed(d) ELSE deliveries[d]]
           w == [dispatcher[p] EXCEPT !.phase = "claim"]
<1>1. \A d \in Deliveries : RowOK(deliveries[d])
  BY DEF NotificationInv
<1>2. \A d \in Deliveries : RowOK(freed(d))
  BY <1>1 DEF RowOK, DeliveryRow
<1>3. ASSUME NEW d \in Deliveries PROVE RowOK(rows[d])
  <2> HIDE DEF freed
  <2> QED
    BY <1>1, <1>2
<1>4. TickOK(dispatcher[p]) /\ dispatcher[p].phase = "timer"
  <2>1. TickOK(dispatcher[p])
    BY DEF NotificationInv
  <2>2. dispatcher[p].phase = "timer"
    BY Zenon DEF recoverStuckAuthNotifications
  <2> QED
    BY <2>1, <2>2
<1>5. w \in Tick /\ w.batch = dispatcher[p].batch /\ w.phase = "claim"
  BY <1>4 DEF TickOK, Tick
<1>6. deliveries' = rows /\ dispatcher' = [dispatcher EXCEPT ![p] = w]
  BY Zenon DEF recoverStuckAuthNotifications
<1> HIDE DEF w
<1>7. TickOK(w)
  BY <1>4, <1>5 DEF TickOK
<1>8. rows = [d \in Deliveries |-> rows[d]]
  BY Zenon
<1> HIDE DEF rows
<1> QED
  BY <1>3, <1>6, <1>7, <1>8, NotificationKept

\* The dispatcher's steps that write no row.
LEMMA SendSteps ==
    ASSUME NotificationInv, NEW p \in Dispatchers,
           \/ \E outcome \in {"sent", "retryable", "permanent"} : sendDelivery(p, outcome)
           \/ finalizeSuccessThrows(p) \/ tickIsLost(p)
    PROVE  NotificationInv'
<1>1. TickOK(dispatcher[p])
  BY DEF NotificationInv
<1>2. ASSUME NEW outcome \in {"sent", "retryable", "permanent"}, sendDelivery(p, outcome)
      PROVE  NotificationInv'
  <2> DEFINE w == [dispatcher[p] EXCEPT !.phase = "finalize", !.outcome = outcome]
  <2>1. w \in Tick /\ w.batch = dispatcher[p].batch /\ w.phase = "finalize"
    BY <1>1 DEF TickOK, Tick
  <2>2. dispatcher[p].phase = "send"
    BY <1>2 DEF sendDelivery
  <2>3. dispatcher' = [dispatcher EXCEPT ![p] = w] /\ UNCHANGED deliveries
    BY <1>2 DEF sendDelivery
  <2> HIDE DEF w
  <2>4. TickOK(w)
    BY <1>1, <2>1, <2>2 DEF TickOK
  <2> QED
    BY <2>3, <2>4, TickKept
<1>3. CASE finalizeSuccessThrows(p)
  <2> DEFINE w == [dispatcher[p] EXCEPT !.outcome = "retryable"]
  <2>1. w \in Tick /\ w.batch = dispatcher[p].batch /\ w.phase = dispatcher[p].phase
    BY <1>1 DEF TickOK, Tick
  <2>2. dispatcher' = [dispatcher EXCEPT ![p] = w] /\ UNCHANGED deliveries
    BY <1>3 DEF finalizeSuccessThrows
  <2> HIDE DEF w
  <2>3. TickOK(w)
    BY <1>1, <2>1 DEF TickOK
  <2> QED
    BY <2>2, <2>3, TickKept
<1>4. CASE tickIsLost(p)
  <2>1. TickOK(AtTimer)
    BY NotificationAssumption DEF TickOK, Tick, AtTimer
  <2>2. dispatcher' = [dispatcher EXCEPT ![p] = AtTimer] /\ UNCHANGED deliveries
    BY <1>4 DEF tickIsLost
  <2> QED
    BY <2>1, <2>2, TickKept
<1> QED
  BY <1>2, <1>3, <1>4

LEMMA NotificationInvAlways == NotificationSpec => []NotificationInv
<1>1. NotificationInit => NotificationInv
  <2> SUFFICES ASSUME NotificationInit PROVE NotificationInv
    OBVIOUS
  <2>1. \A d \in Deliveries : RowOK(deliveries[d])
    BY DEF NotificationInit, RowOK, DeliveryRow
  <2>2. TickOK(AtTimer)
    BY NotificationAssumption DEF TickOK, Tick, AtTimer
  <2> QED
    BY <2>1, <2>2 DEF NotificationInit, NotificationInv
<1>2. NotificationInv /\ [NotificationNext]_notificationVars => NotificationInv'
  <2>1. ASSUME NotificationInv, NotificationNext PROVE NotificationInv'
    BY <2>1, QueueSteps, RecoverKept, ClaimKept, SendSteps, FinalizeKept DEF NotificationNext, tick
  <2>2. ASSUME NotificationInv, UNCHANGED notificationVars PROVE NotificationInv'
    BY <2>2 DEF NotificationInv, notificationVars
  <2> QED
    BY <2>1, <2>2
<1> QED
  BY <1>1, <1>2, PTL DEF NotificationSpec

(***************************************************************************)
(* The rows of the back office and what its workers hold stay well formed, *)
(* for any number of rows, dispatchers and workers that are slow, stop or  *)
(* meet at one row: in particular a dispatcher holds rows exactly from its *)
(* claim to the end of its batch, never more than a batch of them, and a   *)
(* row that is being sent does not come due (claimPendingDeliveries,       *)
(* recoverStuckAuthNotifications).                                         *)
(***************************************************************************)
THEOREM BackOfficeTypeCorrect ==
    ChangeControlSpec /\ NotificationSpec /\ TenantWebhooksSpec => []BackOfficeTypeOK
<1>1. NotificationInv => NotificationTypeOK
  BY DEF NotificationInv, NotificationTypeOK, RowOK, DeliveryRow, TickOK
<1>2. WebhookInv => TenantWebhooksTypeOK
  BY DEF WebhookInv, TenantWebhooksTypeOK, PostRow
<1>3. ChangeControlTypeOK /\ NotificationInv /\ WebhookInv => BackOfficeTypeOK
  BY <1>1, <1>2 DEF BackOfficeTypeOK
<1> QED
  BY <1>3, ChangeControlTypeCorrect, NotificationInvAlways, WebhookInvAlways, PTL
=============================================================================
