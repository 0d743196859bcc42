--------------------------- MODULE StorePurchases ----------------------------
(***************************************************************************)
(* One app-store purchase: the order a verified receipt creates, and what  *)
(* later verifications, store notifications and administrators do to it.   *)
(*                                                                         *)
(* Each of them reads the order without locking it and decides from what   *)
(* it read, so a session has two steps, the read and the transaction's     *)
(* commit, and the order may change in between.  The ledger's idempotency  *)
(* keys, one per order and kind of movement, are checked at the commit.    *)
(***************************************************************************)
EXTENDS AssetLedger

CONSTANTS
    Sessions,           \* concurrent requests on the order
    PurchaseAmount,     \* what the product delivers
    MaxSessions         \* bound on requests on the order

ASSUME StorePurchasesAssumption ==
    /\ PurchaseAmount \in Nat \ {0}
    /\ MaxSessions \in Nat

VARIABLES
    order,      \* store_purchase_orders row
    session,    \* what each request is doing
    requests    \* requests so far

storeVars == <<order, session, requests>>

FINAL_STATUSES == {"refunded", "revoked"}

NoRequest == [call |-> "none", seen |-> "none"]

StoreInit ==
    /\ order = [status |-> "none", delivery |-> "voucher", manual |-> FALSE,
                account |-> CHOOSE a \in Accounts : TRUE]
    /\ session = [s \in Sessions |-> NoRequest]
    /\ requests = 0

-----------------------------------------------------------------------------
\* A voucher goes to the buyer, a gift pack's B_LUCK to the recipient.
deliveredTo(delivery, u) == <<u, IF delivery = "voucher" THEN "IAP_VOUCHER" ELSE "B_LUCK">>

assertGiftPackRecipientEligible(delivery, a) == delivery = "gift_pack" => a[1] \notin frozen

\* A movement under one of the order's keys; with an entry that has the key, an
\* earlier movement's or a gift's, it is a replay.
credited(a, key) ==
    /\ balances' = [balances EXCEPT ![a] = IF findLedgerEntry(a, key) THEN @ ELSE creditAsset(@, PurchaseAmount)]
    /\ keys' = [keys EXCEPT ![a] = @ \cup ({key} \ giftKeysOf(a))]
    /\ UNCHANGED <<giftTransfers, giftEnergy, frozen, adjusted, adjustments, days>>

(***************************************************************************)
(* The first verified receipt creates the order and delivers in the same   *)
(* transaction; an order that needs manual approval waits as "verified".   *)
(* A concurrent duplicate fails on the unique key or receipt.              *)
(***************************************************************************)
verifyIapPurchase(u, delivery, manual) ==
    LET a == deliveredTo(delivery, u) IN
    /\ order.status = "none"
    /\ order' = [status |-> IF manual THEN "verified" ELSE "fulfilled",
                 delivery |-> delivery, manual |-> manual, account |-> a]
    /\ IF manual THEN UNCHANGED ledgerVars
       ELSE /\ assertGiftPackRecipientEligible(delivery, a)
            /\ credited(a, "fulfill")
    /\ UNCHANGED <<session, requests>>

(***************************************************************************)
(* A repeated verification or a store notification ("purchased",           *)
(* "refunded", "revoked"), an administrator's reversal (the same two       *)
(* targets) or replay: the order as it is read.                            *)
(***************************************************************************)
requestReads(s, call) ==
    /\ order.status # "none"
    /\ session[s] = NoRequest
    /\ requests < MaxSessions
    /\ session' = [session EXCEPT ![s] = [call |-> call, seen |-> order.status]]
    /\ requests' = requests + 1
    /\ UNCHANGED <<ledgerVars, order>>

answered(s) == session' = [session EXCEPT ![s] = NoRequest]

\* A fulfilled order only has its metadata refreshed; a repeated reversal, nothing.
nothingToDo(s) ==
    /\ \/ session[s].call \in {"purchased", "replay"} /\ session[s].seen = "fulfilled"
       \/ session[s].call \in FINAL_STATUSES /\ session[s].seen = session[s].call
    /\ answered(s)
    /\ UNCHANGED <<ledgerVars, order, requests>>

\* A purchase that still needs approval is marked verified.
staysVerified(s) ==
    /\ session[s].call = "purchased"
    /\ session[s].seen = "verified"
    /\ order' = [order EXCEPT !.status = "verified"]
    /\ answered(s)
    /\ UNCHANGED <<ledgerVars, requests>>

\* The administrator's replay approves it.
fulfillStorePurchaseOrder(s) ==
    /\ session[s].call = "replay"
    /\ session[s].seen = "verified"
    /\ assertGiftPackRecipientEligible(order.delivery, order.account)
    /\ credited(order.account, "fulfill")
    /\ order' = [order EXCEPT !.status = "fulfilled"]
    /\ answered(s)
    /\ UNCHANGED requests

\* A purchase or a replay on a reversed order delivers again.
restoreStorePurchaseOrder(s) ==
    /\ session[s].call \in {"purchased", "replay"}
    /\ session[s].seen \in FINAL_STATUSES
    /\ credited(order.account, "restore")
    /\ order' = [order EXCEPT !.status = "fulfilled"]
    /\ answered(s)
    /\ UNCHANGED requests

\* Mutant: a balance that is too small is left alone and nobody is frozen.
unrecoveredIgnored(a, key) == UNCHANGED ledgerVars

\* The balance is too small to take the delivery back: the user is frozen.
unrecovered(a, key) ==
    /\ frozen' = frozen \cup {a[1]}
    /\ UNCHANGED <<balances, keys, giftTransfers, giftEnergy, adjusted, adjustments, days>>

takenBack(a, key) ==
    /\ balances' = [balances EXCEPT ![a] = IF findLedgerEntry(a, key) THEN @ ELSE debitAsset(@, PurchaseAmount)]
    /\ keys' = [keys EXCEPT ![a] = @ \cup ({key} \ giftKeysOf(a))]
    /\ UNCHANGED <<giftTransfers, giftEnergy, frozen, adjusted, adjustments, days>>

(***************************************************************************)
(* Only an order that was read as fulfilled is recovered; the key is the   *)
(* target status, so a second refund of the order replays the first.       *)
(***************************************************************************)
reverseStorePurchaseOrder(s) ==
    LET target == session[s].call
        a == order.account IN
    /\ target \in FINAL_STATUSES
    /\ session[s].seen # target
    /\ IF session[s].seen # "fulfilled" THEN UNCHANGED ledgerVars
       ELSE IF findLedgerEntry(a, target) \/ canDebit(balances[a], PurchaseAmount)
       THEN takenBack(a, target)
       ELSE unrecovered(a, target)
    /\ order' = [order EXCEPT !.status = target]
    /\ answered(s)
    /\ UNCHANGED requests

\* The transaction fails or its process stops, and nothing of it is kept: a
\* recipient that is frozen, a key inserted meanwhile, a lost connection.
requestFails(s) ==
    /\ session[s] # NoRequest
    /\ answered(s)
    /\ UNCHANGED <<ledgerVars, order, requests>>

StoreNext ==
    \/ \E u \in Users, d \in {"voucher", "gift_pack"}, m \in BOOLEAN : verifyIapPurchase(u, d, m)
    \/ \E s \in Sessions :
        \/ \E call \in {"purchased", "replay"} \cup FINAL_STATUSES : requestReads(s, call)
        \/ nothingToDo(s)
        \/ staysVerified(s)
        \/ fulfillStorePurchaseOrder(s)
        \/ restoreStorePurchaseOrder(s)
        \/ reverseStorePurchaseOrder(s)
        \/ requestFails(s)

-----------------------------------------------------------------------------
StoreTypeOK ==
    /\ order.status \in {"none", "verified", "fulfilled"} \cup FINAL_STATUSES
    /\ order.status # "none" => order.account \in Accounts
    /\ session \in [Sessions -> [call : {"none", "purchased", "replay"} \cup FINAL_STATUSES,
                                 seen : {"none", "verified", "fulfilled"} \cup FINAL_STATUSES]]

\* Deliveries of the order less the times it was taken back.
netDelivered ==
    LET posted == keys[order.account] IN
    IF order.status = "none" THEN 0
    ELSE Cardinality(posted \cap {"fulfill", "restore"}) - Cardinality(posted \cap FINAL_STATUSES)

(***************************************************************************)
(* A reversal of a delivered purchase takes the delivery back or freezes   *)
(* its owner, whatever other requests read before it commits (for orders   *)
(* that needed no approval, until the first restore, and unless a gift of  *)
(* the account has taken the key of a reversal, which then is a replay).   *)
(***************************************************************************)
UnrestoredRefundIsRecovered ==
    (/\ order.status \in FINAL_STATUSES
     /\ ~order.manual
     /\ "restore" \notin keys[order.account]
     /\ giftKeysOf(order.account) \cap FINAL_STATUSES = {})
        => netDelivered <= 0 \/ order.account[1] \in frozen
=============================================================================
