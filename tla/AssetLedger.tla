----------------------------- MODULE AssetLedger -----------------------------
(***************************************************************************)
(* The asset economy: one balance row per user and asset, the ledger that  *)
(* every movement of it writes to, and gifts between users.                *)
(*                                                                         *)
(* A movement first looks for a ledger entry with its idempotency key, and *)
(* then locks the balance row.  Two movements with one key may both find   *)
(* nothing; the unique index on (user, asset, key) makes the later one     *)
(* fail, so whichever way it goes a key moves a balance once.  Clients     *)
(* name the keys of their gifts freely, so a gift may take the very key    *)
(* another movement of the account would have used.                        *)
(*                                                                         *)
(* Amounts are in the smallest unit of money, two decimals.                *)
(***************************************************************************)
EXTENDS Integers, FiniteSets, FiniteSetsExt

CONSTANTS
    Users,
    GiftKeys,           \* idempotency keys of gift requests
    GiftAmounts,
    MaxGiftEnergy,
    MaxAdjustments,     \* bound on bonus grants and manual adjustments
    MaxDays             \* bound on gift-energy refills

ASSUME AssetLedgerAssumption ==
    /\ GiftAmounts \subseteq Nat \ {0}
    /\ MaxGiftEnergy \in Nat
    /\ MaxAdjustments \in Nat
    /\ MaxDays \in Nat

VARIABLES
    balances,           \* user_asset_balances
    keys,               \* keys of the ledger entries that are no gift's, per account
    giftTransfers,      \* gift_transfers rows, each with its two ledger entries
    giftEnergy,         \* gift_energy_accounts.current_energy
    frozen,             \* users with an active gameplay freeze
    adjusted,           \* net amount of bonus grants and manual adjustments
    adjustments,        \* how many of them so far
    days                \* refill intervals gone by

ledgerVars ==
    <<balances, keys, giftTransfers, giftEnergy, frozen, adjusted, adjustments, days>>

Assets == {"B_LUCK", "IAP_VOUCHER"}

Accounts == Users \X Assets

Luck(u) == <<u, "B_LUCK">>

\* What every account holds before anything else happens, a bonus granted earlier.
openingBalance(n) == [available |-> n, locked |-> 0, earned |-> n, spent |-> 0]

AssetLedgerInit(opening) ==
    /\ balances = [a \in Accounts |-> openingBalance(opening[a])]
    /\ keys = [a \in Accounts |-> {}]
    /\ giftTransfers = {}
    /\ giftEnergy = [u \in Users |-> MaxGiftEnergy]
    /\ frozen = {}
    /\ adjusted = opening
    /\ adjustments = 0
    /\ days = 0

-----------------------------------------------------------------------------
(***************************************************************************)
(* What each movement does to a balance row, and when it is refused.       *)
(***************************************************************************)
creditAsset(b, n) == [b EXCEPT !.available = @ + n, !.earned = @ + n]

\* Mutant: the balance is not checked.
canDebitUnchecked(b, n) == TRUE

canDebit(b, n) == b.available >= n

debitAsset(b, n) == [b EXCEPT !.available = @ - n, !.spent = @ + n]

lockAsset(b, n) == [b EXCEPT !.available = @ - n, !.locked = @ + n]

canUnlock(b, n) == b.locked >= n

unlockAsset(b, n) == [b EXCEPT !.available = @ + n, !.locked = @ - n]

positivePart(n) == IF n > 0 THEN n ELSE 0

settleLockedAsset(b, lockedAmount, payout) ==
    [b EXCEPT !.available = @ + payout,
              !.locked = @ - lockedAmount,
              !.earned = @ + positivePart(payout - lockedAmount),
              !.spent = @ + positivePart(lockedAmount - payout)]

-----------------------------------------------------------------------------
(***************************************************************************)
(* Bonus grants and manual adjustments carry no idempotency key.           *)
(***************************************************************************)
grantBonus(a, n) ==
    /\ adjustments < MaxAdjustments
    /\ balances' = [balances EXCEPT ![a] = creditAsset(@, n)]
    /\ adjusted' = [adjusted EXCEPT ![a] = @ + n]
    /\ adjustments' = adjustments + 1
    /\ UNCHANGED <<keys, giftTransfers, giftEnergy, frozen, days>>

createAdminEconomyAdjustment(a, n) ==
    /\ adjustments < MaxAdjustments
    /\ canDebit(balances[a], n)
    /\ balances' = [balances EXCEPT ![a] = debitAsset(@, n)]
    /\ adjusted' = [adjusted EXCEPT ![a] = @ - n]
    /\ adjustments' = adjustments + 1
    /\ UNCHANGED <<keys, giftTransfers, giftEnergy, frozen, days>>

\* Keys of the entries an account's gifts, sent and received, have in its ledger.
giftKeysOf(a) == {t.key : t \in {x \in giftTransfers : a \in {Luck(x.from), Luck(x.to)}}}

\* Mutant: the entry a key already has is not found.
findLedgerEntryNever(a, key) == FALSE

findLedgerEntry(a, key) == key \in keys[a] \cup giftKeysOf(a)

existingTransfer(key) == \E t \in giftTransfers : t.key = key

(***************************************************************************)
(* A gift whose key another gift has is a replay; one whose key any entry  *)
(* of the two accounts has fails on the unique index.  Neither changes     *)
(* anything.  Both rows are locked in user order, the freezes of both are  *)
(* read, then the sender's energy account.                                 *)
(***************************************************************************)
transferAssetGift(key, from, to, n) ==
    /\ from # to
    /\ ~existingTransfer(key)
    /\ \A u \in {from, to} : ~findLedgerEntry(Luck(u), key)
    /\ {from, to} \cap frozen = {}
    /\ canDebit(balances[Luck(from)], n)
    /\ giftEnergy[from] >= 1
    /\ giftEnergy' = [giftEnergy EXCEPT ![from] = @ - 1]
    /\ giftTransfers' = giftTransfers \cup {[key |-> key, from |-> from, to |-> to, amount |-> n]}
    /\ balances' = [balances EXCEPT ![Luck(from)] = debitAsset(@, n),
                                    ![Luck(to)] = creditAsset(@, n)]
    /\ UNCHANGED <<keys, frozen, adjusted, adjustments, days>>

(***************************************************************************)
(* The refill sets the energy to its maximum once an interval has passed,  *)
(* at the next use; with nothing else reading it, at the interval's end.   *)
(***************************************************************************)
applyGiftEnergyRefill ==
    /\ days < MaxDays
    /\ days' = days + 1
    /\ giftEnergy' = [u \in Users |-> MaxGiftEnergy]
    /\ UNCHANGED <<balances, keys, giftTransfers, frozen, adjusted, adjustments>>

LedgerNext ==
    \/ \E a \in Accounts, n \in GiftAmounts : grantBonus(a, n)
    \/ \E a \in Accounts, n \in GiftAmounts : createAdminEconomyAdjustment(a, n)
    \/ \E key \in GiftKeys, from, to \in Users, n \in GiftAmounts :
            transferAssetGift(key, from, to, n)
    \/ applyGiftEnergyRefill

-----------------------------------------------------------------------------
\* Net amount the gifts have brought a user.
giftedTo(u) ==
    SumFunctionOnSet([t \in giftTransfers |-> IF t.to = u THEN t.amount ELSE 0], giftTransfers)
        - SumFunctionOnSet([t \in giftTransfers |-> IF t.from = u THEN t.amount ELSE 0], giftTransfers)

GiftTransfer == [key : GiftKeys, from : Users, to : Users, amount : GiftAmounts]

Balance == [available : Nat, locked : Nat, earned : Nat, spent : Nat]

LedgerTypeOK ==
    /\ balances \in [Accounts -> Balance]
    /\ giftTransfers \in SUBSET GiftTransfer /\ IsFiniteSet(giftTransfers)
    /\ \A t \in giftTransfers : t.from # t.to
    /\ giftEnergy \in [Users -> 0..MaxGiftEnergy]
    /\ frozen \subseteq Users
    /\ adjusted \in [Accounts -> Int]
=============================================================================
