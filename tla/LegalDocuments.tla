--------------------------- MODULE LegalDocuments ----------------------------
(***************************************************************************)
(* The versions of one legal document (one key, one locale), their         *)
(* publications, and which publication an audience is shown.               *)
(*                                                                         *)
(* A publication is full ("stable", or "rollback" to an older version) or  *)
(* "gray": shown to a share of the audience beside the full release it     *)
(* falls back to.  Publishing happens inside a change request              *)
(* (ChangeControl), on the active publications its transaction read.       *)
(***************************************************************************)
EXTENDS Integers, Sequences, FiniteSetsExt

CONSTANTS
    MaxDocuments,       \* bound on the versions written
    MaxEdits,           \* bound on edits of one version
    MaxPublications     \* bound on publications

ASSUME LegalAssumption ==
    /\ MaxDocuments \in Nat \ {0}
    /\ MaxEdits \in Nat
    /\ MaxPublications \in Nat

VARIABLES
    documents,      \* legal_documents, by id: the version number, how often its text was edited
    publications,   \* legal_document_publications, in the order of activatedAt
    cascaded        \* whether a deletion took a publication with it

legalVars == <<documents, publications, cascaded>>

Rollouts == {50, 100}

exists(d) == d \in DOMAIN documents /\ ~documents[d].deleted

NothingPublished == documents = <<>> /\ publications = <<>>

\* A first version is out in full.
FirstVersionIsOut(from) ==
    /\ documents = <<[version |-> 1, text |-> 0, deleted |-> FALSE]>>
    /\ publications = <<[document |-> 1, mode |-> "stable", rollout |-> 100, fallback |-> 0,
                         active |-> TRUE, request |-> from, text |-> 0]>>

-----------------------------------------------------------------------------
(* Which publication is current *)

\* The ids of the active publications; of several, the code takes the latest.
readActivePublications == {i \in DOMAIN publications : publications[i].active}

isGray(i) == publications[i].mode = "gray"

\* 0 if there is none.
latestOf(ids) == Max({0} \cup ids)

orElse(a, b) == IF a # 0 THEN a ELSE b

(***************************************************************************)
(* The publication an audience is shown, 0 if none is active.  inRollout:  *)
(* whether the audience's bucket lies below the gray release's share.      *)
(***************************************************************************)
resolvePublicationForAudience(ids, inRollout) ==
    LET gray == latestOf({i \in ids : isGray(i)})
        fallback == orElse(latestOf({i \in ids : i = publications[gray].fallback}),
                           latestOf(ids \ {gray}))
    IN  IF gray = 0 THEN latestOf(ids)
        ELSE IF fallback = 0 \/ inRollout THEN gray
        ELSE fallback

-----------------------------------------------------------------------------
(* Versions *)

\* The version after the latest one; a concurrent creation of the same one
\* fails on the unique index.
createLegalDocument ==
    LET latest == Max({0} \cup {documents[d].version : d \in {d \in DOMAIN documents : exists(d)}}) IN
    /\ Len(documents) < MaxDocuments
    /\ documents' = Append(documents, [version |-> latest + 1, text |-> 0, deleted |-> FALSE])
    /\ UNCHANGED <<publications, cascaded>>

published(d) == \E i \in DOMAIN publications : publications[i].document = d

updateLegalDocument(d) ==
    /\ exists(d)
    /\ documents[d].text < MaxEdits
    /\ documents' = [documents EXCEPT ![d].text = @ + 1]
    /\ UNCHANGED <<publications, cascaded>>

\* The foreign key deletes the document's publications with it.
deleteLegalDocument(d) ==
    /\ exists(d)
    /\ documents' = [documents EXCEPT ![d].deleted = TRUE]
    /\ publications' = [i \in DOMAIN publications |->
                            [publications[i] EXCEPT !.active = @ /\ publications[i].document # d]]
    /\ cascaded' = (cascaded \/ published(d))

-----------------------------------------------------------------------------
(* Publishing *)

alreadyActive(d, rollout, seen) ==
    \E i \in seen : publications[i].document = d /\ publications[i].rollout = rollout

fallbackFor(seen) == orElse(latestOf({i \in seen : ~isGray(i)}), latestOf(seen))

isOlder(d, seen) ==
    seen # {} /\ documents[d].version < documents[publications[latestOf(seen)].document].version

\* Mutant: an older version is a rollback even when it is released gray.
releaseModeRollbackFirst(d, rollout, seen) ==
    IF isOlder(d, seen) THEN "rollback" ELSE IF rollout < 100 THEN "gray" ELSE "stable"

releaseMode(d, rollout, seen) ==
    IF rollout < 100 THEN "gray" ELSE IF isOlder(d, seen) THEN "rollback" ELSE "stable"

\* Mutant: a gray release supersedes the full one it falls back to.
supersededBothWays(rollout, seen) == seen

\* A gray release leaves its fallback active; a full one replaces all it saw.
superseded(rollout, seen) ==
    IF rollout < 100 THEN seen \ {fallbackFor(seen)} ELSE seen

canPublish(d, rollout, seen) ==
    /\ exists(d)
    /\ ~alreadyActive(d, rollout, seen)
    /\ rollout < 100 => fallbackFor(seen) # 0

\* seen: the active publications the transaction read.
publishLegalDocumentVersion(d, rollout, seen, request) ==
    LET mode == releaseMode(d, rollout, seen)
        new == [document |-> d, mode |-> mode, rollout |-> rollout,
                fallback |-> IF mode = "gray" THEN fallbackFor(seen) ELSE 0,
                active |-> TRUE, request |-> request, text |-> documents[d].text] IN
    /\ canPublish(d, rollout, seen)
    /\ Len(publications) < MaxPublications
    /\ publications' =
        Append([i \in DOMAIN publications |->
                    IF i \in superseded(rollout, seen)
                    THEN [publications[i] EXCEPT !.active = FALSE] ELSE publications[i]],
               new)
    /\ UNCHANGED <<documents, cascaded>>

-----------------------------------------------------------------------------
LegalTypeOK ==
    /\ \A d \in DOMAIN documents : documents[d].version \in 1..d /\ documents[d].text \in 0..MaxEdits
    /\ cascaded \in BOOLEAN
    /\ \A i \in DOMAIN publications :
        LET p == publications[i] IN
        /\ p.document \in DOMAIN documents
        /\ p.rollout \in Rollouts
        /\ p.fallback \in 0..(i - 1)
        /\ (p.mode = "gray") = (p.rollout < 100)

(***************************************************************************)
(* Once a version has been published, a full release is active, whatever   *)
(* order concurrent publications read and commit in, and the audience that *)
(* is outside every rollout is shown something: no gray release ever takes *)
(* the last full one away.  A deletion that raced a publication and took   *)
(* it along is the exception the code has.                                 *)
(***************************************************************************)
AlwaysAFullRelease ==
    publications # <<>> /\ ~cascaded =>
        /\ \E i \in DOMAIN publications : publications[i].active /\ ~isGray(i)
        /\ resolvePublicationForAudience(readActivePublications, FALSE) # 0
=============================================================================
