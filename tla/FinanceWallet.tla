---------------------------- MODULE FinanceWallet ----------------------------
(***************************************************************************)
(* The wallet row of a user and the ledger behind it.                      *)
(*                                                                         *)
(* user_wallets keeps running balances; ledger_entries keeps the history.  *)
(* The code reads the history only through per-user SUMs, so the model     *)
(* keeps those sums.  Money is counted in cents.  ledger_mutation_events   *)
(* has a unique business_event_id and payment_settlement_events a unique   *)
(* settlement_reference; both are sets here.                               *)
(*                                                                         *)
(* The operators below are the pieces of one database transaction: a       *)
(* conjunct that is FALSE is the exception that rolls the transaction back.*)
(***************************************************************************)
EXTENDS Integers

CONSTANTS
    Users,              \* accounts that own a wallet row
    Refs,               \* settlement references an operator or provider may send
    NoRef,              \* no settlement reference (SQL NULL)
    StrictInvariant     \* isStrictWalletInvariantMode()

ASSUME WalletAssumption ==
    /\ NoRef \notin Refs
    /\ StrictInvariant \in BOOLEAN

VARIABLES
    withdrawable,       \* user_wallets.withdrawable_balance
    locked,             \* user_wallets.locked_balance
    ledgerWithdrawable, \* SUM of ledger_entries that count as withdrawable
    ledgerLocked,       \* SUM of ledger_entries that count as locked
    mutations,          \* business_event_id values of ledger_mutation_events
    settlementRefs      \* settlement_reference values of payment_settlement_events

walletVars == <<withdrawable, locked, ledgerWithdrawable, ledgerLocked,
                mutations, settlementRefs>>

WalletInit ==
    /\ withdrawable = [u \in Users |-> 0]
    /\ locked = [u \in Users |-> 0]
    /\ ledgerWithdrawable = [u \in Users |-> 0]
    /\ ledgerLocked = [u \in Users |-> 0]
    /\ mutations = {}
    /\ settlementRefs = {}

(***************************************************************************)
(* What an entry of a given type adds to the two balances: the CASE        *)
(* expressions of loadWalletInvariantRows.                                 *)
(***************************************************************************)
WithdrawableEntryTypes ==
    {"deposit_credit", "deposit_reversed", "withdraw_request",
     "withdraw_rejected_refund", "withdraw_reversed_refund"}

\* Mutant: reversal refunds are missing from the withdrawable entry types.
withdrawableEffectNoReversal(entryType, amount) ==
    IF entryType \in WithdrawableEntryTypes \ {"withdraw_reversed_refund"}
    THEN amount ELSE 0

withdrawableEffect(entryType, amount) ==
    IF entryType \in WithdrawableEntryTypes THEN amount ELSE 0

LockedOutEntryTypes ==
    {"withdraw_request", "withdraw_rejected_refund", "withdraw_reversed_refund"}

lockedEffect(entryType, amount) ==
    IF entryType \in LockedOutEntryTypes THEN -amount
    ELSE IF entryType = "withdraw_paid" THEN amount
    ELSE 0

\* Mutant: the entry is written but the business event is not recorded.
applyLedgerMutationUnrecorded(event, u, entryType, amount) ==
    /\ ledgerWithdrawable' =
         [ledgerWithdrawable EXCEPT ![u] = @ + withdrawableEffect(entryType, amount)]
    /\ ledgerLocked' =
         [ledgerLocked EXCEPT ![u] = @ + lockedEffect(entryType, amount)]
    /\ UNCHANGED mutations

(***************************************************************************)
(* A duplicate business event is skipped silently: the ledger entry is     *)
(* written once, whatever the caller did to the wallet row before.         *)
(***************************************************************************)
applyLedgerMutation(event, u, entryType, amount) ==
    /\ mutations' = mutations \cup {event}
    /\ IF event \in mutations
       THEN UNCHANGED <<ledgerWithdrawable, ledgerLocked>>
       ELSE /\ ledgerWithdrawable' =
                 [ledgerWithdrawable EXCEPT ![u] = @ + withdrawableEffect(entryType, amount)]
            /\ ledgerLocked' =
                 [ledgerLocked EXCEPT ![u] = @ + lockedEffect(entryType, amount)]

(***************************************************************************)
(* Inserting a reference that is already there violates the unique index.  *)
(***************************************************************************)
insertPaymentSettlementEvent(ref) ==
    /\ ref \notin settlementRefs
    /\ settlementRefs' = settlementRefs \cup ({ref} \ {NoRef})

(***************************************************************************)
(* Strict environments refuse to commit a drifted wallet; the others log   *)
(* the drift and commit.                                                   *)
(***************************************************************************)
assertWalletLedgerInvariant(u) ==
    StrictInvariant => /\ withdrawable'[u] = ledgerWithdrawable'[u]
                       /\ locked'[u] = ledgerLocked'[u]

WalletTypeOK ==
    /\ withdrawable \in [Users -> Nat]
    /\ locked \in [Users -> Nat]
    /\ ledgerWithdrawable \in [Users -> Int]
    /\ ledgerLocked \in [Users -> Int]
    /\ settlementRefs \subseteq Refs
==============================================================================
