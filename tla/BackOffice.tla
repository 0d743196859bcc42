----------------------------- MODULE BackOffice ------------------------------
(***************************************************************************)
(* The back office as one part of the system: change control with the      *)
(* legal documents, the two delivery queues and the KYC review.  They      *)
(* share no row.                                                           *)
(***************************************************************************)
EXTENDS ChangeControl, NotificationQueue, TenantWebhooks, KycReview

(***************************************************************************)
(* Types of the rows and of what administrators and workers hold; a        *)
(* dispatcher holds rows from its claim to the end of its batch, and never *)
(* more than a batch (claimPendingDeliveries).                             *)
(***************************************************************************)
BackOfficeTypeOK ==
    /\ ChangeControlTypeOK
    /\ NotificationTypeOK
    /\ TenantWebhooksTypeOK
==============================================================================
