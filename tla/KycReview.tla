----------------------------- MODULE KycReview -------------------------------
(***************************************************************************)
(* One user's KYC profile: submissions, their review, reverification when  *)
(* a document expires or a policy changes, and the freezes that go with    *)
(* them.  Freezes that other parts of the system make are left out.        *)
(*                                                                         *)
(* Every operation reads the profile, then the user's freezes, and writes, *)
(* without locking what it read.  The model keeps the three steps apart:   *)
(* "profile", "freezes" and the commit.  Only a review's commit checks the *)
(* profile's status again.                                                 *)
(***************************************************************************)
EXTENDS Integers, Sequences, FiniteSets, FiniteSetsExt

CONSTANTS
    Desks,              \* concurrent requests on the profile
    MaxAsked            \* bound on requests on the profile

ASSUME KycAssumption == MaxAsked \in Nat

VARIABLES
    profile,    \* kyc_profiles
    papers,     \* kyc_documents: the submission they belong to, whether expired
    freezes,    \* freeze_records
    desk,       \* what each request is doing
    sweep,      \* what the reverification sweep is doing
    asked       \* requests so far

kycVars == <<profile, papers, freezes, desk, sweep, asked>>

\* Tiers by rank; tier 0 is no verification.
Tiers == 0..2
scopeFor(tier) == IF tier = 2 THEN "withdrawal_lock" ELSE "gameplay_lock"
Scopes == {"gameplay_lock", "withdrawal_lock"}
KYC_FREEZE_REASON == "pending_kyc"

atRest == [op |-> "none"]

KycInit ==
    /\ profile = [status |-> "not_started", currentTier |-> 0, requestedTier |-> 0,
                  submissionVersion |-> 0, activeSubmissionVersion |-> 0, freezeRecordId |-> 0]
    /\ papers = {}
    /\ freezes = <<>>
    /\ desk = [k \in Desks |-> atRest]
    /\ sweep = atRest
    /\ asked = 0

-----------------------------------------------------------------------------
(* Freeze records *)

activeFreezes(scope) == {i \in DOMAIN freezes : freezes[i].active /\ freezes[i].scope = scope}

kycFreezes == {i \in DOMAIN freezes : freezes[i].active /\ freezes[i].reason = KYC_FREEZE_REASON}

\* The latest active record of the scope that is not in "gone", 0 if there is none.
latestFreeze(scope, gone) == Max({0} \cup (activeFreezes(scope) \ gone))

\* releaseUserFreeze and releaseUserFreezeByFilter
releaseUserFreeze(rows, ids) ==
    [i \in DOMAIN rows |-> IF i \in ids THEN [rows[i] EXCEPT !.active = FALSE] ELSE rows[i]]

\* One record per scope: the one that was found takes the new reason.
ensureUserFreeze(rows, found, scope, reason) ==
    IF found # 0 THEN [rows EXCEPT ![found].reason = reason]
    ELSE Append(rows, [scope |-> scope, reason |-> reason, active |-> TRUE])

ensuredId(rows, found) == IF found # 0 THEN found ELSE Len(rows) + 1

-----------------------------------------------------------------------------
(* The three operations on the profile *)

maySubmitProfile(p, tier) == p.status # "pending" /\ tier >= p.currentTier

mayReview(p) == p.status = "pending"

\* At tier 0 the request is refused, or finds that reverification is already due.
mayReverify(p) == p.currentTier # 0

\* The request reads the profile and passes the checks on it.
readsProfile(k, op, arg) ==
    /\ desk[k] = atRest
    /\ asked < MaxAsked
    /\ asked' = asked + 1
    /\ \/ op = "submit" /\ maySubmitProfile(profile, arg)
       \/ op = "review" /\ mayReview(profile)
       \/ op = "reverify" /\ mayReverify(profile)
    /\ desk' = [desk EXCEPT ![k] = [op |-> op, arg |-> arg, seen |-> profile, step |-> "profile"]]
    /\ UNCHANGED <<profile, papers, freezes, sweep>>

submitKycProfile(k, tier) == readsProfile(k, "submit", tier)

reviewKycProfile(k, decision) == readsProfile(k, "review", decision)

triggerKycReverification(k) == readsProfile(k, "reverify", "policy_update")

\* The tier a request is about, and so the scope it freezes.
requestTier(w) ==
    IF w.op = "submit" THEN w.arg
    ELSE IF w.op = "reverify" \/ w.seen.requestedTier = 0 THEN w.seen.currentTier
    ELSE w.seen.requestedTier

\* The records a request releases: a review the one the profile names, the
\* others all that are there for KYC.
releases(w) ==
    IF w.op # "review" THEN kycFreezes
    ELSE IF w.arg = "request_more_info" THEN {}
    ELSE IF w.seen.freezeRecordId # 0 THEN {w.seen.freezeRecordId} ELSE kycFreezes

\* Mutant: a reverification releases the freezes and makes none.
freezesAfterwardsUnlessReverified(w) == w.op = "submit" \/ w.arg = "request_more_info"

freezesAfterwards(w) == w.op # "review" \/ w.arg = "request_more_info"

readsFreezes(w) ==
    LET gone == releases(w) IN
    [op |-> w.op, arg |-> w.arg, seen |-> w.seen, step |-> "freezes", gone |-> gone,
     found |-> IF freezesAfterwards(w) THEN latestFreeze(scopeFor(requestTier(w)), gone) ELSE 0]

freezesAre(w) ==
    LET released == releaseUserFreeze(freezes, w.gone) IN
    freezes' = IF freezesAfterwards(w)
               THEN ensureUserFreeze(released, w.found, scopeFor(requestTier(w)), KYC_FREEZE_REASON)
               ELSE released

\* A submission writes back the tier and active submission it read.  Of two
\* first submissions the second fails on the user's unique index.
submitted(w) ==
    /\ w.seen.status = "not_started" => profile.status = "not_started"
    /\ profile' = [w.seen EXCEPT !.status = "pending", !.requestedTier = w.arg,
                                 !.submissionVersion = @ + 1,
                                 !.freezeRecordId = ensuredId(freezes, w.found)]
    /\ \E expires \in BOOLEAN :
        papers' = papers \cup {[version |-> w.seen.submissionVersion + 1,
                                expires |-> expires, expired |-> FALSE]}

reviewStatus(decision) == IF decision = "request_more_info" THEN "more_info_required" ELSE decision

tierAfter(seen, decision) ==
    IF decision = "approved" /\ seen.requestedTier > seen.currentTier
    THEN seen.requestedTier ELSE seen.currentTier

\* The update's WHERE asks for "pending" again, though not for the same submission.
reviewed(w) ==
    LET approved == w.arg = "approved" IN
    /\ profile.status = "pending"
    /\ profile' = [profile EXCEPT
                    !.currentTier = tierAfter(w.seen, w.arg),
                    !.requestedTier = IF approved THEN 0 ELSE w.seen.requestedTier,
                    !.activeSubmissionVersion =
                        IF approved THEN w.seen.submissionVersion ELSE w.seen.activeSubmissionVersion,
                    !.status = reviewStatus(w.arg),
                    !.freezeRecordId = IF freezesAfterwards(w) THEN ensuredId(freezes, w.found)
                                       ELSE w.seen.freezeRecordId]
    /\ UNCHANGED papers

withdrawn(w, p) ==
    [p EXCEPT !.currentTier = 0, !.requestedTier = w.seen.currentTier,
              !.activeSubmissionVersion = 0, !.status = "more_info_required"]

reverified(w) ==
    /\ profile' = [withdrawn(w, profile) EXCEPT !.freezeRecordId = ensuredId(freezes, w.found)]
    /\ UNCHANGED papers

commitOf(w) ==
    /\ w.step = "freezes"
    /\ freezesAre(w)
    /\ \/ w.op = "submit" /\ submitted(w)
       \/ w.op = "review" /\ reviewed(w)
       \/ w.op = "reverify" /\ reverified(w)

deskReadsFreezes(k) ==
    /\ desk[k] # atRest
    /\ desk[k].step = "profile"
    /\ desk' = [desk EXCEPT ![k] = readsFreezes(@)]
    /\ UNCHANGED <<profile, papers, freezes, sweep, asked>>

deskCommits(k) ==
    /\ desk[k] # atRest
    /\ commitOf(desk[k])
    /\ desk' = [desk EXCEPT ![k] = atRest]
    /\ UNCHANGED <<sweep, asked>>

\* A review whose profile is no longer pending, a lost connection.
deskRollsBack(k) ==
    /\ desk[k] # atRest
    /\ desk' = [desk EXCEPT ![k] = atRest]
    /\ UNCHANGED <<profile, papers, freezes, sweep, asked>>

-----------------------------------------------------------------------------
(* The reverification sweep *)

paperExpires(d) ==
    /\ d.expires /\ ~d.expired
    /\ papers' = (papers \ {d}) \cup {[d EXCEPT !.expired = TRUE]}
    /\ UNCHANGED <<profile, freezes, desk, sweep, asked>>

\* Mutant: the latest submission, reviewed or not.
latestSubmissionVersion(p) == p.submissionVersion

resolveActiveSubmissionVersion(p) ==
    IF p.activeSubmissionVersion # 0 THEN p.activeSubmissionVersion
    ELSE IF p.currentTier # 0 /\ p.status = "approved" THEN p.submissionVersion
    ELSE 0

expiredVersions == {d.version : d \in {d \in papers : d.expired}}

\* A cycle finds the active submission's document expired.
sweepFinds ==
    /\ sweep = atRest
    /\ profile.currentTier # 0
    /\ resolveActiveSubmissionVersion(profile) \in expiredVersions
    /\ sweep' = [op |-> "found"]
    /\ UNCHANGED <<profile, papers, freezes, desk, asked>>

\* It asks for reverification, which reads the profile again.
sweepReadsProfile ==
    /\ sweep.op = "found"
    /\ sweep' = IF mayReverify(profile)
                THEN [op |-> "reverify", arg |-> "document_expired", seen |-> profile, step |-> "profile"]
                ELSE atRest
    /\ UNCHANGED <<profile, papers, freezes, desk, asked>>

sweepReadsFreezes ==
    /\ sweep.op = "reverify"
    /\ sweep.step = "profile"
    /\ sweep' = readsFreezes(sweep)
    /\ UNCHANGED <<profile, papers, freezes, desk, asked>>

sweepCommits ==
    /\ sweep.op = "reverify"
    /\ commitOf(sweep)
    /\ sweep' = atRest
    /\ UNCHANGED <<desk, asked>>

runKycReverificationSweep == sweepFinds \/ sweepReadsProfile \/ sweepReadsFreezes \/ sweepCommits

KycNext ==
    \/ \E k \in Desks :
        \/ \E tier \in Tiers \ {0} : submitKycProfile(k, tier)
        \/ \E decision \in {"approved", "rejected", "request_more_info"} : reviewKycProfile(k, decision)
        \/ triggerKycReverification(k)
        \/ deskReadsFreezes(k)
        \/ deskCommits(k)
        \/ deskRollsBack(k)
    \/ \E d \in papers : paperExpires(d)
    \/ runKycReverificationSweep

KycSpec == KycInit /\ [][KycNext]_kycVars

-----------------------------------------------------------------------------
(***************************************************************************)
(* While a submission waits for review, or for more information, the user  *)
(* is frozen ("KYC pending states map to tier-based gameplay or withdrawal *)
(* freezes").  The scope may be another tier's: a review that was read     *)
(* before the submission it meets changes the tier that is asked for.      *)
(***************************************************************************)
OpenReviewIsFrozen ==
    profile.status \in {"pending", "more_info_required"} =>
        \E i \in DOMAIN freezes : freezes[i].active

(***************************************************************************)
(* A tier whose document has expired is withdrawn or rests on another      *)
(* submission in the end.                                                  *)
(***************************************************************************)
ExpiredIsReverified ==
    \A v \in 1..MaxAsked :
        (profile.activeSubmissionVersion = v /\ v \in expiredVersions)
            ~> (profile.activeSubmissionVersion # v)
=============================================================================
