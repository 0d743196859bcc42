--------------------------- MODULE PrizeDrawProofs ---------------------------
(***************************************************************************)
(* Theorems about PrizeDraw: for any users, prizes, requests, limits and   *)
(* batch sizes, concurrent draw transactions keep their types, the pool    *)
(* its transactions and the prizes their budgets, and implement            *)
(* PrizeCustody.                                                           *)
(***************************************************************************)
EXTENDS PrizeDraw, SumTheorems, TLAPS

(* Draws a transaction has paid for, and decided, and the reward not yet booked. *)
taken(t) == IF t.pc \in {"prize", "house"} THEN t.draws + 1 ELSE t.draws

decided(t) == IF t.pc = "house" THEN t.draws + 1 ELSE t.draws

owed(t) == IF t.pc = "house" THEN t.reward ELSE 0

(* The control state of a transaction and the rows it holds. *)
TxShape(t) ==
    /\ t.pc = "idle" => t = NoTx
    /\ t.pc # "idle" => t.user \in Users
    /\ t.pc \in {"user", "prize", "house"} => t.left >= 1
    /\ t.left + t.draws <= MaxDrawPerRequest
    /\ t.pc = "prize" => t.pick \in Prizes /\ t.reward = 0
    /\ t.pc \in {"prize", "house", "commit"} => t.user \in t.locks
    /\ t.pc = "commit" => t.draws >= 1
    /\ t.draws > 0 => t.user \in t.locks
    /\ t.draws > 0 <=> House \in t.locks
    /\ \A p \in Prizes : t.wins[p] > 0 => p \in t.locks
    /\ \A p \in Prizes : t.wins[p] <= decided(t)

(* How its versions of the rows differ from the committed ones. *)
TxMoney(t) ==
    /\ House \in t.locks => t.pool = pool + t.delta
    /\ House \notin t.locks => t.delta = 0
    /\ t.pc # "idle" /\ t.user \in t.locks =>
        /\ t.wallet + taken(t) * effectiveDrawCost = wallet[t.user]
        /\ t.luck = luck[t.user] + t.draws * effectiveDrawCost - t.delta + owed(t)
        /\ t.luck >= luck[t.user]
        /\ t.luck # luck[t.user] => \E p \in Prizes : t.wins[p] > 0

TxBudget(t) ==
    \A p \in Prizes : PayoutBudget[p] > 0 /\ p \in t.locks => t.spent[p] <= PayoutBudget[p]

LocksExclusive ==
    \A r, q \in Requests : r # q => tx[r].locks \cap tx[q].locks = {}

(***************************************************************************)
(* The inductive invariant.                                                *)
(***************************************************************************)
DrawInv ==
    /\ DrawTypeOK
    /\ LocksExclusive
    /\ \A r \in Requests : TxShape(tx[r])
    /\ \A r \in Requests : TxMoney(tx[r])
    /\ \A r \in Requests : TxBudget(tx[r])
    /\ PoolMatchesTransactions
    /\ BudgetKept

-----------------------------------------------------------------------------
(* The draw cost is an amount whatever the clamps are. *)
LEMMA CostIsNat == effectiveDrawCost \in Nat
  BY DrawConstants DEF effectiveDrawCost

(* One more draw costs one more draw cost. *)
LEMMA OneMore == \A n, c \in Nat : (n + 1) * c = n * c + c /\ n * c \in Nat
  BY SMT

(* The empty transaction is well formed. *)
LEMMA NoTxOK == NoTx \in Txs /\ TxShape(NoTx) /\ TxMoney(NoTx) /\ TxBudget(NoTx)
  <1>1. NoTx \in Txs
    BY DrawConstants DEF NoTx, Txs, Rows
  <1>2. TxShape(NoTx)
    BY DrawConstants DEF NoTx, TxShape, decided
  <1>3. TxMoney(NoTx) /\ TxBudget(NoTx)
    BY DEF NoTx, TxMoney, TxBudget
  <1> QED BY <1>1, <1>2, <1>3

(***************************************************************************)
(* A step that changes one transaction and no table keeps the invariant if *)
(* the new transaction is well formed and takes only free locks.           *)
(***************************************************************************)
LEMMA LocalStep ==
  ASSUME DrawInv, NEW r \in Requests, NEW t \in Txs,
         tx' = [tx EXCEPT ![r] = t], UNCHANGED <<tables, cache>>,
         updates' \in Nat, ticks' \in Nat, failures' \in Nat,
         TxShape(t), TxMoney(t), TxBudget(t),
         \A p \in Prizes : stock[p] - t.wins[p] >= 0,
         \A row \in t.locks : free(r, row)
  PROVE  DrawInv'
  <1> USE DEF DrawInv
  <1>u. /\ UNCHANGED <<wallet, luck, userPool, stock, spent, active, expired>>
        /\ UNCHANGED <<pool, houseTransactions, drawn, won, recentDraw, recentWin, cache>>
    BY DEF tables, walletVars, prizeVars, houseVars, recordVars
  <1>t. tx \in [Requests -> Txs]
    BY DEF DrawTypeOK
  <1>a. tx'[r] = t /\ \A q \in Requests \ {r} : tx'[q] = tx[q]
    BY <1>t
  <1>1. DrawTypeOK'
    <2>1. \A q \in Requests, p \in Prizes : stock[p] - tx'[q].wins[p] >= 0
      BY <1>a DEF DrawTypeOK, stockSeen
    <2>2. tx' \in [Requests -> Txs]
      BY <1>t
    <2> QED BY <1>u, <2>1, <2>2 DEF DrawTypeOK, stockSeen
  <1>2. LocksExclusive'
    BY <1>a DEF LocksExclusive, free, held
  <1>3. \A q \in Requests : TxShape(tx[q])'
    BY <1>a DEF TxShape, decided
  <1>4. \A q \in Requests : TxMoney(tx[q])'
    BY <1>a, <1>u DEF TxMoney, taken, owed
  <1>5. \A q \in Requests : TxBudget(tx[q])'
    BY <1>a DEF TxBudget
  <1>6. PoolMatchesTransactions' /\ BudgetKept'
    BY <1>u DEF PoolMatchesTransactions, BudgetKept
  <1> QED BY <1>1, <1>2, <1>3, <1>4, <1>5, <1>6

-----------------------------------------------------------------------------
(* A transaction that is rolled back releases its locks and leaves the     *)
(* tables as they were.                                                    *)
LEMMA RollbackStep ==
  ASSUME DrawInv, NEW r \in Requests,
         tx' = [tx EXCEPT ![r] = NoTx], UNCHANGED <<tables, cache>>,
         updates' \in Nat, ticks' \in Nat, failures' \in Nat
  PROVE  DrawInv'
  <1>1. \A p \in Prizes : stock[p] - NoTx.wins[p] >= 0
    BY DEF DrawInv, DrawTypeOK, NoTx
  <1>2. \A row \in NoTx.locks : free(r, row)
    BY DEF NoTx
  <1> QED BY <1>1, <1>2, NoTxOK, LocalStep

LEMMA BeginStep ==
  ASSUME DrawInv, NEW r \in Requests, NEW u \in Users, NEW count \in 1..MaxDrawPerRequest,
         executeResolvedDrawPlay(r, u, count)
  PROVE  DrawInv'
  <1> DEFINE t == [NoTx EXCEPT !.pc = "user", !.user = u, !.left = count]
  <1>1. t \in Txs
    <2>1. count \in 0..MaxDrawPerRequest /\ u \in Users \cup {House}
      BY DrawConstants
    <2> QED BY NoTxOK, <2>1 DEF Txs
  <1>f. /\ t.pc = "user" /\ t.user = u /\ t.left = count /\ t.locks = {} /\ t.draws = 0
        /\ t.wins = [p \in Prizes |-> 0] /\ t.delta = 0
    BY DEF NoTx
  <1>m. MaxDrawPerRequest \in Nat /\ House \notin Users
    BY DrawConstants
  <1>2. tx' = [tx EXCEPT ![r] = t] /\ UNCHANGED <<tables, cache>>
    BY DEF executeResolvedDrawPlay
  <1>3. updates' \in Nat /\ ticks' \in Nat /\ failures' \in Nat
    BY DEF executeResolvedDrawPlay, counters, DrawInv, DrawTypeOK
  <1> HIDE DEF t
  <1>4. TxShape(t)
    BY <1>f, <1>m DEF TxShape, decided
  <1>5. TxMoney(t) /\ TxBudget(t)
    BY <1>f DEF TxMoney, TxBudget
  <1>6. \A p \in Prizes : stock[p] - t.wins[p] >= 0
    BY <1>f DEF DrawInv, DrawTypeOK
  <1>7. \A row \in t.locks : free(r, row)
    BY <1>f
  <1> QED BY <1>1, <1>2, <1>3, <1>4, <1>5, <1>6, <1>7, LocalStep

(* The guards passed: the user row is locked and the cost taken. *)
LEMMA DebitStep ==
  ASSUME DrawInv, NEW r \in Requests, debitDrawCost(r)
  PROVE  DrawInv'
  <1> DEFINE old == tx[r]
             u == old.user
  <1>t. tx \in [Requests -> Txs] /\ old \in Txs
    BY DEF DrawInv, DrawTypeOK
  <1>s. /\ TxShape(old) /\ TxMoney(old) /\ TxBudget(old)
        /\ wallet \in [Users -> Nat] /\ luck \in [Users -> Nat] /\ userPool \in [Users -> Nat]
        /\ pool \in Int /\ cache \subseteq Prizes
    BY DEF DrawInv, DrawTypeOK
  <1>g. old.pc = "user" /\ free(r, u) /\ funded(r)
    BY DEF debitDrawCost
  <1>u. u \in Users /\ u \in Rows /\ u # House /\ u \notin Prizes
    BY <1>g, <1>s, DrawConstants DEF TxShape, Rows
  <1>p. PICK pick \in cache \cup {Miss} : tx' = [tx EXCEPT ![r] = debited(r, pick)]
    BY DEF debitDrawCost
  <1> DEFINE t == debited(r, pick)
  <1>v. /\ walletSeen(r) \in Nat /\ luckSeen(r) \in Nat /\ userPoolSeen(r) \in Nat
        /\ poolSeen(r) \in Int /\ walletSeen(r) >= effectiveDrawCost
    BY <1>t, <1>s, <1>u, <1>g DEF walletSeen, luckSeen, userPoolSeen, poolSeen, funded, Txs
  <1>1. t \in Txs
    <2>1. walletSeen(r) - effectiveDrawCost \in Nat /\ userPoolSeen(r) + effectiveDrawCost \in Nat
      BY <1>v, CostIsNat
    <2>2. (IF pick = Miss THEN "house" ELSE "prize") \in {"idle", "user", "prize", "house", "commit"}
      OBVIOUS
    <2>3. /\ pick \in Prizes \cup {Miss} /\ cache \in SUBSET Prizes
          /\ luckSeen(r) \in Nat /\ poolSeen(r) \in Int /\ 0 \in Nat
          /\ expired \in SUBSET Prizes
      BY <1>v, <1>s DEF DrawInv, DrawTypeOK
    <2>4. tx[r].locks \cup {tx[r].user} \in SUBSET Rows
      BY <1>t, <1>u DEF Txs
    <2> QED BY <1>t, <2>1, <2>2, <2>3, <2>4, Zenon DEF Txs, debited
  <1>f. /\ t.pc = (IF pick = Miss THEN "house" ELSE "prize") /\ t.user = u /\ t.left = old.left
        /\ t.locks = old.locks \cup {u} /\ t.draws = old.draws /\ t.wins = old.wins
        /\ t.delta = old.delta /\ t.pool = old.pool /\ t.spent = old.spent /\ t.pick = pick
        /\ t.wallet = walletSeen(r) - effectiveDrawCost /\ t.luck = luckSeen(r) /\ t.reward = 0
    BY <1>t DEF Txs, debited
  <1>2. tx' = [tx EXCEPT ![r] = t] /\ UNCHANGED <<tables, cache>>
    <2>1. tx' = [tx EXCEPT ![r] = t]
      BY <1>p
    <2> QED BY <2>1 DEF debitDrawCost
  <1>3. updates' \in Nat /\ ticks' \in Nat /\ failures' \in Nat
    BY DEF debitDrawCost, counters, DrawInv, DrawTypeOK
  <1>d. /\ old.draws \in Nat /\ old.left \in Nat /\ old.delta \in Int /\ old.pool \in Int
        /\ old.wins \in [Prizes -> Nat] /\ MaxDrawPerRequest \in Nat
    BY <1>t, DrawConstants DEF Txs
  <1> HIDE DEF t
  <1>4. TxShape(t)
    BY <1>f, <1>s, <1>g, <1>u, <1>d, DrawConstants DEF TxShape, decided
  <1>5. TxMoney(t)
    <2>1. taken(t) = old.draws + 1 /\ owed(t) = 0 /\ taken(old) = old.draws /\ owed(old) = 0
      BY <1>f, <1>g DEF taken, owed
    <2>2. (old.draws + 1) * effectiveDrawCost = old.draws * effectiveDrawCost + effectiveDrawCost
      BY OneMore, CostIsNat, <1>d
    <2>c. old.draws * effectiveDrawCost \in Nat
      BY OneMore, CostIsNat, <1>d
    <2>3. CASE u \in old.locks
      <3>1. walletSeen(r) = old.wallet /\ luckSeen(r) = old.luck
        BY <2>3 DEF walletSeen, luckSeen, held
      <3>2. /\ old.wallet + old.draws * effectiveDrawCost = wallet[u]
            /\ old.luck = luck[u] + old.draws * effectiveDrawCost - old.delta + 0
            /\ old.luck >= luck[u]
            /\ old.luck # luck[u] => \E p \in Prizes : old.wins[p] > 0
        BY <1>s, <1>g, <2>1, <2>3 DEF TxMoney
      <3>3. t.wallet + taken(t) * effectiveDrawCost = wallet[u]
        BY <3>1, <3>2, <2>1, <2>2, <2>c, <1>f, <1>v, CostIsNat
      <3>4. House \in t.locks <=> House \in old.locks
        BY <1>f, <1>u
      <3>5. /\ House \in t.locks => t.pool = pool + t.delta
            /\ House \notin t.locks => t.delta = 0
        BY <3>4, <1>f, <1>s DEF TxMoney
      <3> QED BY <3>1, <3>2, <3>3, <3>5, <2>1, <1>f DEF TxMoney
    <2>4. CASE u \notin old.locks
      <3>1. walletSeen(r) = wallet[u] /\ luckSeen(r) = luck[u]
        BY <2>4 DEF walletSeen, luckSeen, held
      <3>2. old.draws = 0 /\ House \notin old.locks
        BY <1>s, <2>4, <1>d DEF TxShape
      <3>3. old.delta = 0
        BY <3>2, <1>s DEF TxMoney
      <3>4. t.wallet + taken(t) * effectiveDrawCost = wallet[u]
        BY <3>1, <3>2, <2>1, <1>f, <1>v, CostIsNat
      <3>5. House \notin t.locks
        BY <1>f, <1>u, <3>2
      <3>6. t.luck = luck[u] + t.draws * effectiveDrawCost - t.delta + owed(t)
        BY <3>1, <3>2, <3>3, <2>1, <1>f, <1>s, <1>u, CostIsNat
      <3> QED BY <3>1, <3>3, <3>4, <3>5, <3>6, <1>f, <1>s, <1>u DEF TxMoney
    <2> QED BY <2>3, <2>4
  <1>6. TxBudget(t)
    BY <1>f, <1>s, <1>u DEF TxBudget
  <1>7. \A p \in Prizes : stock[p] - t.wins[p] >= 0
    BY <1>f DEF DrawInv, DrawTypeOK, stockSeen
  <1>8. \A row \in t.locks : free(r, row)
    BY <1>f, <1>g DEF DrawInv, LocksExclusive, free, held
  <1> HIDE DEF old, u
  <1> QED BY <1>1, <1>2, <1>3, <1>4, <1>5, <1>6, <1>7, <1>8, LocalStep

(* The prize is locked, nothing else changes. *)
LEMMA WithholdStep ==
  ASSUME DrawInv, NEW r \in Requests, tx[r].pc = "prize", free(r, tx[r].pick),
         tx' = [tx EXCEPT ![r] = withhold(r, tx[r].pick)], UNCHANGED <<tables, cache, counters>>
  PROVE  DrawInv'
  <1> DEFINE old == tx[r]
             p == old.pick
             t == withhold(r, p)
  <1>t. tx \in [Requests -> Txs] /\ old \in Txs /\ spent \in [Prizes -> Nat] /\ BudgetKept
    BY DEF DrawInv, DrawTypeOK
  <1>s. TxShape(old) /\ TxMoney(old) /\ TxBudget(old)
    BY DEF DrawInv
  <1>p. p \in Prizes /\ p \in Rows /\ p # House /\ old.user \in Users /\ old.user # p
    BY <1>s, DrawConstants DEF TxShape, Rows
  <1>v. spentSeen(r, p) \in Nat
    BY <1>t, <1>p DEF spentSeen, Txs
  <1>1. t \in Txs
    BY <1>t, <1>p, <1>v DEF Txs, withhold
  <1>f. /\ t.pc = "house" /\ t.user = old.user /\ t.left = old.left /\ t.draws = old.draws
        /\ t.locks = old.locks \cup {p} /\ t.wins = old.wins /\ t.reward = old.reward
        /\ t.delta = old.delta /\ t.pool = old.pool /\ t.wallet = old.wallet
        /\ t.luck = old.luck /\ t.spent = [old.spent EXCEPT ![p] = spentSeen(r, p)]
    BY <1>t DEF Txs, withhold
  <1>3. updates' \in Nat /\ ticks' \in Nat /\ failures' \in Nat
    BY DEF counters, DrawInv, DrawTypeOK
  <1>4. TxShape(t)
    <2>1. old.draws \in Nat /\ old.wins \in [Prizes -> Nat]
      BY <1>t DEF Txs
    <2> QED BY <1>f, <1>s, <1>p, <2>1 DEF TxShape, decided
  <1>5. TxMoney(t)
    <2>1. old.reward = 0 /\ owed(t) = owed(old) /\ taken(t) = taken(old) /\ t.user \in t.locks
      BY <1>f, <1>s DEF TxShape, taken, owed
    <2> QED BY <1>f, <1>s, <1>p, <2>1 DEF TxMoney, TxShape
  <1>6. TxBudget(t)
    BY <1>f, <1>s, <1>p, <1>t DEF TxBudget, BudgetKept, spentSeen, held, Txs
  <1>7. \A q \in Prizes : stock[q] - t.wins[q] >= 0
    BY <1>f DEF DrawInv, DrawTypeOK, stockSeen
  <1>8. \A row \in t.locks : free(r, row)
    BY <1>f DEF DrawInv, LocksExclusive, free, held
  <1>9. tx' = [tx EXCEPT ![r] = t] /\ UNCHANGED <<tables, cache>>
    OBVIOUS
  <1> HIDE DEF old, p, t
  <1> QED BY <1>1, <1>3, <1>4, <1>5, <1>6, <1>7, <1>8, <1>9, LocalStep

(* The prize is paid: one piece less in stock, its reward owed by the pool. *)
LEMMA WinStep ==
  ASSUME DrawInv, NEW r \in Requests, NEW noise \in PoolNoise,
         tx[r].pc = "prize", free(r, tx[r].pick), payable(r, tx[r].pick, noise),
         tx' = [tx EXCEPT ![r] = persistWinningOutcome(r, tx[r].pick)],
         UNCHANGED <<tables, cache, counters>>
  PROVE  DrawInv'
  <1> DEFINE old == tx[r]
             p == old.pick
             t == persistWinningOutcome(r, p)
             paid == RewardAmount[p]
             base == IF PayoutBudget[p] > 0 /\ expiredSeen(r, p) THEN 0 ELSE spentSeen(r, p)
  <1>t. /\ tx \in [Requests -> Txs] /\ old \in Txs
        /\ spent \in [Prizes -> Nat] /\ luck \in [Users -> Nat]
    BY DEF DrawInv, DrawTypeOK
  <1>s. TxShape(old) /\ TxMoney(old) /\ TxBudget(old) /\ BudgetKept
    BY DEF DrawInv
  <1>p. p \in Prizes /\ p \in Rows /\ p # House /\ old.user \in Users /\ old.user # p
    BY <1>s, DrawConstants DEF TxShape, Rows
  <1>c. paid \in Nat /\ PayoutBudget[p] \in Nat
    BY <1>p, DrawConstants
  <1>v. base \in Nat /\ old.luck + paid \in Nat /\ max(old.userPool - paid, 0) \in Nat
    BY <1>t, <1>p, <1>c DEF spentSeen, Txs, max
  <1>w. old.wins[p] + 1 \in Nat /\ old.wins \in [Prizes -> Nat]
    BY <1>t, <1>p DEF Txs
  <1>1. t \in Txs
    <2> DEFINE locksNew == old.locks \cup {p}
               winsNew == [old.wins EXCEPT ![p] = @ + 1]
               spentNew == [old.spent EXCEPT ![p] =
                                IF PayoutBudget[p] > 0 THEN base + paid ELSE base]
               resetNew == IF PayoutBudget[p] > 0 /\ expiredSeen(r, p)
                           THEN old.reset \cup {p} ELSE old.reset
               userPoolNew == IF paid > 0 THEN max(old.userPool - paid, 0) ELSE old.userPool
               luckNew == old.luck + paid
    <2>1. (IF PayoutBudget[p] > 0 THEN base + paid ELSE base) \in Nat
      BY <1>v, <1>c
    <2>2. userPoolNew \in Nat /\ luckNew \in Nat
      BY <1>v, <1>t DEF Txs
    <2>3. spentNew \in [Prizes -> Nat] /\ winsNew \in [Prizes -> Nat]
      BY <1>t, <1>w, <2>1 DEF Txs
    <2>4. resetNew \in SUBSET Prizes /\ locksNew \in SUBSET Rows
      BY <1>t, <1>p DEF Txs
    <2>5. t = [old EXCEPT !.pc = "house", !.locks = locksNew, !.wins = winsNew,
                          !.spent = spentNew, !.reset = resetNew, !.reward = paid,
                          !.luck = luckNew, !.userPool = userPoolNew]
      BY <1>t DEF persistWinningOutcome, Txs
    <2> HIDE DEF t, base, paid, locksNew, winsNew, spentNew, resetNew, userPoolNew, luckNew
    <2> QED BY <1>t, <1>c, <2>2, <2>3, <2>4, <2>5 DEF Txs
  <1>f. /\ t.pc = "house" /\ t.user = old.user /\ t.left = old.left /\ t.draws = old.draws
        /\ t.locks = old.locks \cup {p} /\ t.wins = [old.wins EXCEPT ![p] = @ + 1]
        /\ t.reward = paid /\ t.luck = old.luck + paid
        /\ t.delta = old.delta /\ t.pool = old.pool /\ t.wallet = old.wallet
    BY <1>t DEF Txs, persistWinningOutcome
  <1>g. t.spent = [old.spent EXCEPT ![p] = IF PayoutBudget[p] > 0 THEN base + paid ELSE base]
    BY <1>t DEF Txs, persistWinningOutcome
  <1>d. /\ old.draws \in Nat /\ old.left \in Nat /\ old.delta \in Int /\ old.luck \in Nat
        /\ old.spent \in [Prizes -> Nat] /\ luck[old.user] \in Nat
    BY <1>t, <1>p DEF Txs
  <1>y. /\ stock[p] - old.wins[p] > 0
        /\ PayoutBudget[p] > 0 =>
              PayoutBudget[p] - (IF expiredSeen(r, p) THEN 0 ELSE spentSeen(r, p)) >= paid
    BY DEF payable, evaluateBudget, stockSeen
  <1>3. updates' \in Nat /\ ticks' \in Nat /\ failures' \in Nat
    BY DEF counters, DrawInv, DrawTypeOK
  <1>9. tx' = [tx EXCEPT ![r] = t] /\ UNCHANGED <<tables, cache>>
    OBVIOUS
  <1>b. PayoutBudget[p] > 0 => base + paid <= PayoutBudget[p]
    BY <1>y, <1>c, <1>v
  <1> HIDE DEF t, base, paid
  <1>4. TxShape(t)
    <2>1. \A q \in Prizes : t.wins[q] > 0 => q \in t.locks
      BY <1>f, <1>s, <1>p, <1>w DEF TxShape
    <2>2. \A q \in Prizes : t.wins[q] <= decided(t)
      BY <1>f, <1>s, <1>p, <1>w, <1>d DEF TxShape, decided
    <2> QED BY <1>f, <1>s, <1>p, <2>1, <2>2 DEF TxShape
  <1>5. TxMoney(t)
    <2>1. old.reward = 0 /\ owed(t) = paid /\ owed(old) = 0 /\ taken(t) = taken(old)
      BY <1>f, <1>s DEF TxShape, taken, owed
    <2>2. /\ old.user \in old.locks /\ t.user \in t.locks
          /\ House \in t.locks <=> House \in old.locks
      BY <1>f, <1>s, <1>p DEF TxShape
    <2>3. old.draws * effectiveDrawCost \in Nat
      BY <1>d, CostIsNat, OneMore
    <2>4. /\ t.luck = luck[t.user] + t.draws * effectiveDrawCost - t.delta + owed(t)
          /\ t.luck >= luck[t.user]
      BY <1>f, <1>s, <1>c, <1>d, <2>1, <2>2, <2>3 DEF TxMoney
    <2>5. t.wins[p] > 0
      BY <1>f, <1>w, <1>p
    <2> QED BY <1>f, <1>s, <1>p, <2>1, <2>2, <2>4, <2>5 DEF TxMoney
  <1>6. TxBudget(t)
    BY <1>f, <1>g, <1>s, <1>p, <1>d, <1>b DEF TxBudget
  <1>7. \A q \in Prizes : stock[q] - t.wins[q] >= 0
    <2>1. \A q \in Prizes : stock[q] - old.wins[q] >= 0 /\ stock[q] \in Nat
      BY DEF DrawInv, DrawTypeOK, stockSeen
    <2> QED BY <2>1, <1>f, <1>y, <1>w, <1>p
  <1>8. \A row \in t.locks : free(r, row)
    BY <1>f DEF DrawInv, LocksExclusive, free, held
  <1> HIDE DEF old, p
  <1> QED BY <1>1, <1>3, <1>4, <1>5, <1>6, <1>7, <1>8, <1>9, LocalStep

(* Cost and reward are booked on the locked pool. *)
LEMMA HouseStep ==
  ASSUME DrawInv, NEW r \in Requests, applyHouseDrawEntries(r)
  PROVE  DrawInv'
  <1> DEFINE old == tx[r]
             t == booked(r)
             c == effectiveDrawCost
  <1>t. tx \in [Requests -> Txs] /\ old \in Txs /\ pool \in Int /\ luck \in [Users -> Nat]
    BY DEF DrawInv, DrawTypeOK
  <1>s. TxShape(old) /\ TxMoney(old) /\ TxBudget(old)
    BY DEF DrawInv
  <1>g. old.pc = "house" /\ free(r, House)
    BY DEF applyHouseDrawEntries
  <1>d. /\ old.draws \in Nat /\ old.left \in Nat /\ old.delta \in Int /\ old.pool \in Int
        /\ old.reward \in Nat /\ old.luck \in Nat /\ old.wins \in [Prizes -> Nat]
        /\ old.wallet \in Nat /\ MaxDrawPerRequest \in Nat /\ c \in Nat
    BY <1>t, CostIsNat, DrawConstants DEF Txs
  <1>u. old.user \in Users /\ old.user \in old.locks /\ House \in Rows
    BY <1>g, <1>s DEF TxShape, Rows
  <1>l. old.left >= 1 /\ old.left + old.draws <= MaxDrawPerRequest
    BY <1>g, <1>s DEF TxShape
  <1>v. poolChange(r) = c - old.reward /\ poolSeen(r) \in Int
    BY <1>d, <1>t DEF poolChange, poolSeen
  <1>1. t \in Txs
    <2> DEFINE pcNew == IF old.left = 1 THEN "commit" ELSE "user"
               leftNew == old.left - 1
               locksNew == old.locks \cup {House}
               poolNew == poolSeen(r) + poolChange(r)
               deltaNew == old.delta + poolChange(r)
               drawsNew == old.draws + 1
    <2>1. /\ pcNew \in {"idle", "user", "prize", "house", "commit"}
          /\ leftNew \in 0..MaxDrawPerRequest /\ drawsNew \in 0..MaxDrawPerRequest
      BY <1>d, <1>l
    <2>2. locksNew \in SUBSET Rows
      BY <1>t, <1>u DEF Txs
    <2>3. poolNew \in Int /\ deltaNew \in Int
      BY <1>v, <1>d
    <2>4. t = [old EXCEPT !.pc = pcNew, !.left = leftNew, !.locks = locksNew,
                          !.pool = poolNew, !.delta = deltaNew, !.draws = drawsNew]
      BY DEF booked
    <2> HIDE DEF t, pcNew, leftNew, locksNew, poolNew, deltaNew, drawsNew
    <2> QED BY <1>t, <2>1, <2>2, <2>3, <2>4 DEF Txs
  <1>f. /\ t.pc = (IF old.left = 1 THEN "commit" ELSE "user") /\ t.user = old.user
        /\ t.left = old.left - 1 /\ t.draws = old.draws + 1
        /\ t.locks = old.locks \cup {House} /\ t.wins = old.wins /\ t.spent = old.spent
        /\ t.pool = poolSeen(r) + poolChange(r) /\ t.delta = old.delta + poolChange(r)
        /\ t.wallet = old.wallet /\ t.luck = old.luck
    BY <1>t DEF Txs, booked
  <1>3. updates' \in Nat /\ ticks' \in Nat /\ failures' \in Nat
    BY DEF applyHouseDrawEntries, counters, DrawInv, DrawTypeOK
  <1>9. tx' = [tx EXCEPT ![r] = t] /\ UNCHANGED <<tables, cache>>
    BY DEF applyHouseDrawEntries
  <1> HIDE DEF t
  <1>4. TxShape(t)
    <2>1. \A p \in Prizes : t.wins[p] <= decided(t) /\ (t.wins[p] > 0 => p \in t.locks)
      BY <1>f, <1>s, <1>g, <1>d DEF TxShape, decided
    <2> QED BY <1>f, <1>g, <1>u, <1>l, <1>d, <2>1 DEF TxShape
  <1>5. TxMoney(t)
    <2>1. taken(t) = old.draws + 1 /\ taken(old) = old.draws + 1 /\ owed(t) = 0
      BY <1>f, <1>g DEF taken, owed
    <2>2. owed(old) = old.reward
      BY <1>g DEF owed
    <2>3. (old.draws + 1) * c = old.draws * c + c /\ old.draws * c \in Nat
      BY OneMore, <1>d
    <2>4. /\ old.wallet + (old.draws + 1) * c = wallet[old.user]
          /\ old.luck = luck[old.user] + old.draws * c - old.delta + old.reward
          /\ old.luck >= luck[old.user]
          /\ old.luck # luck[old.user] => \E p \in Prizes : old.wins[p] > 0
      BY <1>s, <1>g, <1>u, <2>1, <2>2 DEF TxMoney
    <2>5. luck[old.user] \in Nat
      BY <1>t, <1>u
    <2>6. t.luck = luck[t.user] + t.draws * c - t.delta + owed(t)
      <3> DEFINE before == old.draws * c
                 after == (old.draws + 1) * c
      <3>1. t.draws * c = after
        BY <1>f
      <3>2. after = before + c /\ before \in Nat
        BY <2>3
      <3>3. old.luck = luck[old.user] + before - old.delta + old.reward
        BY <2>4
      <3>4. t.delta = old.delta + (c - old.reward) /\ t.luck = old.luck /\ t.user = old.user
        BY <1>f, <1>v
      <3> HIDE DEF before, after, c, old
      <3>5. old.luck = luck[old.user] + after - (old.delta + (c - old.reward)) + 0
        BY <3>2, <3>3, <2>5, <1>d
      <3> QED BY <3>1, <3>4, <3>5, <2>1
    <2>7. t.pool = pool + t.delta
      <3>1. CASE House \in old.locks
        <4>1. poolSeen(r) = old.pool /\ old.pool = pool + old.delta
          BY <3>1, <1>s DEF TxMoney, poolSeen, held
        <4> QED BY <4>1, <1>f, <1>v, <1>d, <1>t
      <3>2. CASE House \notin old.locks
        <4>1. poolSeen(r) = pool /\ old.delta = 0
          BY <3>2, <1>s DEF TxMoney, poolSeen, held
        <4> QED BY <4>1, <1>f, <1>v, <1>d, <1>t
      <3> QED BY <3>1, <3>2
    <2>8. House \in t.locks
      BY <1>f
    <2> QED BY <2>1, <2>4, <2>6, <2>7, <2>8, <1>f DEF TxMoney
  <1>6. TxBudget(t)
    BY <1>f, <1>s, DrawConstants DEF TxBudget
  <1>7. \A p \in Prizes : stock[p] - t.wins[p] >= 0
    BY <1>f DEF DrawInv, DrawTypeOK, stockSeen
  <1>8. \A row \in t.locks : free(r, row)
    BY <1>f, <1>g DEF DrawInv, LocksExclusive, free, held
  <1> HIDE DEF old, c
  <1> QED BY <1>1, <1>3, <1>4, <1>5, <1>6, <1>7, <1>8, <1>9, LocalStep

-----------------------------------------------------------------------------
(***************************************************************************)
(* What a commit does to the tables; used for the invariant and for the    *)
(* refinement.                                                             *)
(***************************************************************************)
LEMMA CommitEffect ==
  ASSUME DrawInv, NEW r \in Requests, commit(r)
  PROVE  /\ tx[r].user \in Users /\ tx[r].draws \in 1..MaxDrawPerRequest
         /\ tx[r].user \in tx[r].locks /\ House \in tx[r].locks
         /\ tx[r].wallet \in Nat /\ tx[r].luck \in Nat /\ tx[r].delta \in Int
         /\ wallet[tx[r].user] = tx[r].wallet + tx[r].draws * effectiveDrawCost
         /\ tx[r].luck = luck[tx[r].user] + tx[r].draws * effectiveDrawCost - tx[r].delta
         /\ tx[r].luck >= luck[tx[r].user]
         /\ tx[r].luck # luck[tx[r].user] => \E p \in Prizes : tx[r].wins[p] > 0
         /\ pool' = pool + tx[r].delta
         /\ stock' \in [Prizes -> Nat]
         /\ \A p \in Prizes : tx[r].wins[p] \in 0..tx[r].draws
         /\ \A p \in Prizes : stock'[p] = stock[p] - tx[r].wins[p]
         /\ \A p \in Prizes : tx[r].wins[p] > 0 => p \in tx[r].locks
  <1> DEFINE t == tx[r]
  <1>t. t \in Txs /\ TxShape(t) /\ TxMoney(t) /\ t.pc = "commit"
    BY DEF DrawInv, DrawTypeOK, commit
  <1>d. /\ t.draws \in Nat /\ t.left \in Nat /\ t.wins \in [Prizes -> Nat]
        /\ t.wallet \in Nat /\ t.luck \in Nat /\ t.delta \in Int
        /\ MaxDrawPerRequest \in Nat /\ effectiveDrawCost \in Nat
    BY <1>t, DrawConstants, CostIsNat DEF Txs
  <1>1. /\ t.user \in Users /\ t.user \in t.locks /\ House \in t.locks
        /\ t.draws \in 1..MaxDrawPerRequest
    BY <1>t, <1>d DEF TxShape
  <1>2. taken(t) = t.draws /\ owed(t) = 0 /\ decided(t) = t.draws
    BY <1>t DEF taken, owed, decided
  <1>3. /\ t.wallet + t.draws * effectiveDrawCost = wallet[t.user]
        /\ t.luck = luck[t.user] + t.draws * effectiveDrawCost - t.delta + 0
        /\ t.luck >= luck[t.user]
        /\ t.luck # luck[t.user] => \E p \in Prizes : t.wins[p] > 0
        /\ t.pool = pool + t.delta
    BY <1>t, <1>1, <1>2 DEF TxMoney
  <1>l. luck[t.user] \in Nat /\ t.draws * effectiveDrawCost \in Nat
    BY <1>1, <1>d, OneMore DEF DrawInv, DrawTypeOK
  <1>4. t.luck = luck[t.user] + t.draws * effectiveDrawCost - t.delta
    <2> DEFINE cost == t.draws * effectiveDrawCost
    <2>1. t.luck = luck[t.user] + cost - t.delta + 0 /\ cost \in Nat
      BY <1>3, <1>l
    <2> HIDE DEF cost, t
    <2>2. t.luck = luck[t.user] + cost - t.delta
      BY <2>1, <1>l, <1>d
    <2> QED BY <2>2 DEF cost
  <1>5. /\ \A p \in Prizes : t.wins[p] \in 0..t.draws
        /\ \A p \in Prizes : t.wins[p] > 0 => p \in t.locks
    BY <1>t, <1>2, <1>d DEF TxShape
  <1>6. stock' = [p \in Prizes |-> stock[p] - t.wins[p]] /\ pool' = t.pool
    BY DEF commit, stockSeen
  <1>7. \A p \in Prizes : stock[p] - t.wins[p] \in Nat
    BY <1>d DEF DrawInv, DrawTypeOK, stockSeen
  <1> QED BY <1>1, <1>3, <1>4, <1>5, <1>6, <1>7, <1>d

LEMMA CommitStep ==
  ASSUME DrawInv, NEW r \in Requests, commit(r)
  PROVE  DrawInv'
  <1> DEFINE t == tx[r]
             u == t.user
  <1>t. tx \in [Requests -> Txs] /\ t \in Txs
    BY DEF DrawInv, DrawTypeOK
  <1>e. /\ u \in Users /\ t.draws \in Nat /\ u \in t.locks /\ House \in t.locks
        /\ t.wallet \in Nat /\ t.luck \in Nat /\ t.delta \in Int
        /\ pool' = pool + t.delta /\ stock' \in [Prizes -> Nat]
        /\ t.wins \in [Prizes -> Nat]
        /\ \A p \in Prizes : stock'[p] = stock[p] - t.wins[p]
        /\ \A p \in Prizes : t.wins[p] > 0 => p \in t.locks
    <2>1. /\ u \in Users /\ u \in t.locks /\ House \in t.locks
          /\ t.wallet \in Nat /\ t.luck \in Nat /\ t.delta \in Int
          /\ pool' = pool + t.delta /\ stock' \in [Prizes -> Nat]
      BY CommitEffect
    <2>2. \A p \in Prizes : stock'[p] = stock[p] - t.wins[p]
      BY CommitEffect
    <2>w. \A p \in Prizes : t.wins[p] > 0 => p \in t.locks
      BY CommitEffect
    <2>3. t.draws \in Nat /\ t.wins \in [Prizes -> Nat]
      BY <1>t, DrawConstants DEF Txs
    <2> QED BY <2>1, <2>2, <2>w, <2>3
  <1>w. /\ wallet' = [wallet EXCEPT ![u] = t.wallet]
        /\ luck' = [luck EXCEPT ![u] = t.luck]
        /\ userPool' = [userPool EXCEPT ![u] = t.userPool]
        /\ spent' = [p \in Prizes |-> spentSeen(r, p)]
        /\ expired' = expired \ t.reset
        /\ houseTransactions' = houseTransactions + t.delta
        /\ tx' = [tx EXCEPT ![r] = NoTx]
        /\ UNCHANGED <<active, cache>>
        /\ recentDraw' = recentDraw \cup {u}
        /\ recentWin' \in {recentWin, recentWin \cup {u}}
    BY DEF commit
  <1>x. \A q \in Requests \ {r} : /\ tx'[q] = tx[q]
                                 /\ tx[q].locks \cap t.locks = {}
    BY <1>t, <1>w DEF DrawInv, LocksExclusive
  <1>n. tx'[r] = NoTx
    BY <1>t, <1>w
  <1>1. DrawTypeOK'
    <2>1. /\ wallet' \in [Users -> Nat] /\ luck' \in [Users -> Nat] /\ userPool' \in [Users -> Nat]
      BY <1>t, <1>e, <1>w DEF DrawInv, DrawTypeOK, Txs
    <2>2. spent' \in [Prizes -> Nat]
      <3>1. \A p \in Prizes : spentSeen(r, p) \in Nat
        BY <1>t DEF DrawInv, DrawTypeOK, spentSeen, Txs
      <3> QED BY <3>1, <1>w
    <2>3. active' \in [Prizes -> BOOLEAN] /\ expired' \subseteq Prizes /\ cache' \subseteq Prizes
      BY <1>w DEF DrawInv, DrawTypeOK
    <2>4. pool' \in Int /\ houseTransactions' \in Int
      BY <1>e, <1>w DEF DrawInv, DrawTypeOK
    <2>d. drawn \in [Users -> [today : Nat, yesterday : Nat]]
      BY DEF DrawInv, DrawTypeOK
    <2>5. drawn' \in [Users -> [today : Nat, yesterday : Nat]]
      <3>1. CASE t.startedToday
        <4>1. drawn' = [drawn EXCEPT ![u]["today"] = @ + t.draws]
          BY <3>1 DEF commit
        <4> QED BY <4>1, <2>d, <1>e
      <3>2. CASE ~t.startedToday
        <4>1. drawn' = [drawn EXCEPT ![u]["yesterday"] = @ + t.draws]
          BY <3>2 DEF commit
        <4> QED BY <4>1, <2>d, <1>e
      <3> QED BY <3>1, <3>2
    <2>6. won' \in [Prizes -> [hour : Nat, day : Nat]]
      <3>1. won' = [p \in Prizes |->
                      [hour |-> won[p].hour + t.wins[p],
                       day |-> IF t.startedToday THEN won[p].day + t.wins[p] ELSE won[p].day]]
        BY DEF commit
      <3>2. \A p \in Prizes : won[p].hour \in Nat /\ won[p].day \in Nat
        BY DEF DrawInv, DrawTypeOK
      <3>3. \A p \in Prizes : /\ won[p].hour + t.wins[p] \in Nat
                             /\ (IF t.startedToday THEN won[p].day + t.wins[p] ELSE won[p].day) \in Nat
        BY <3>2, <1>e
      <3> HIDE DEF t
      <3> QED BY <3>1, <3>3
    <2>7. recentDraw' \subseteq Users /\ recentWin' \subseteq Users
      BY <1>w, <1>e DEF DrawInv, DrawTypeOK
    <2>8. tx' \in [Requests -> Txs]
      BY <1>w, <1>t, NoTxOK
    <2>9. \A q \in Requests, p \in Prizes : stockSeen(q, p)' >= 0
      <3>1. \A p \in Prizes : stock'[p] - NoTx.wins[p] >= 0
        BY <1>e DEF NoTx
      <3>2. \A q \in Requests \ {r}, p \in Prizes : stock'[p] - tx[q].wins[p] >= 0
        <4> SUFFICES ASSUME NEW q \in Requests \ {r}, NEW p \in Prizes
                     PROVE  stock'[p] - tx[q].wins[p] >= 0
          OBVIOUS
        <4>1. tx[q].wins[p] \in Nat /\ stock[p] \in Nat /\ stock[p] - tx[q].wins[p] >= 0
          BY <1>t DEF DrawInv, DrawTypeOK, stockSeen, Txs
        <4>2. tx[q].wins[p] > 0 => p \in tx[q].locks
          BY DEF DrawInv, TxShape
        <4>3. /\ stock'[p] = stock[p] - t.wins[p] /\ t.wins[p] \in Nat /\ stock'[p] \in Nat
              /\ t.wins[p] > 0 => p \in t.locks
          BY <1>e
        <4>4. tx[q].locks \cap t.locks = {}
          BY <1>x
        <4> HIDE DEF t
        <4>5. tx[q].wins[p] > 0 => t.wins[p] = 0
          BY <4>2, <4>3, <4>4
        <4> QED BY <4>1, <4>3, <4>5
      <3> QED BY <3>1, <3>2, <1>n, <1>x DEF stockSeen
    <2>10. updates' \in Nat /\ ticks' \in Nat /\ failures' \in Nat
      BY DEF commit, counters, DrawInv, DrawTypeOK
    <2> HIDE DEF t, u
    <2> QED BY <1>e, <2>1, <2>2, <2>3, <2>4, <2>5, <2>6, <2>7, <2>8, <2>9, <2>10 DEF DrawTypeOK
  <1>2. LocksExclusive'
    BY <1>x, <1>n DEF DrawInv, LocksExclusive, NoTx
  <1>3. \A q \in Requests : TxShape(tx[q])'
    <2>1. \A q \in Requests \ {r} : TxShape(tx'[q])
      BY <1>x DEF DrawInv
    <2> QED BY <2>1, <1>n, NoTxOK DEF TxShape, decided
  <1>4. \A q \in Requests : TxMoney(tx[q])'
    <2>1. ASSUME NEW q \in Requests \ {r} PROVE TxMoney(tx[q])'
      <3>1. House \notin tx[q].locks /\ u \notin tx[q].locks
        BY <1>x, <1>e
      <3>2. TxMoney(tx[q]) /\ TxShape(tx[q])
        BY DEF DrawInv
      <3>3. tx[q].user \in tx[q].locks /\ tx[q].pc # "idle" =>
              wallet'[tx[q].user] = wallet[tx[q].user] /\ luck'[tx[q].user] = luck[tx[q].user]
        <4>1. tx[q].pc # "idle" => tx[q].user \in Users
          BY <3>2 DEF TxShape
        <4> QED BY <4>1, <3>1, <1>w DEF DrawInv, DrawTypeOK
      <3> HIDE DEF t, u
      <3> QED BY <3>1, <3>2, <3>3, <1>x DEF TxMoney, taken, owed
    <2>2. TxMoney(tx[r])'
      BY <1>n DEF TxMoney, NoTx
    <2> QED BY <2>1, <2>2
  <1>5. \A q \in Requests : TxBudget(tx[q])'
    <2>1. \A q \in Requests \ {r} : TxBudget(tx'[q])
      BY <1>x DEF DrawInv
    <2> QED BY <2>1, <1>n, NoTxOK DEF TxBudget
  <1>6. PoolMatchesTransactions'
    BY <1>e, <1>w, DrawConstants DEF DrawInv, DrawTypeOK, PoolMatchesTransactions
  <1>7. BudgetKept'
    <2>1. \A p \in Prizes : PayoutBudget[p] > 0 => spentSeen(r, p) <= PayoutBudget[p]
      BY DEF DrawInv, TxBudget, BudgetKept, spentSeen, held
    <2> QED BY <2>1, <1>w DEF BudgetKept
  <1> QED BY <1>1, <1>2, <1>3, <1>4, <1>5, <1>6, <1>7 DEF DrawInv

(* A prize is edited only while no transaction holds its row. *)
LEMMA UpdateStep ==
  ASSUME DrawInv, NEW p \in Prizes, NEW isActive \in BOOLEAN, NEW newStock \in 0..InitialStock,
         updatePrize(p, isActive, newStock)
  PROVE  DrawInv'
  <1>u. /\ UNCHANGED <<wallet, luck, userPool, spent, expired, pool, houseTransactions>>
        /\ UNCHANGED <<drawn, won, recentDraw, recentWin, tx, ticks, failures>>
        /\ active' = [active EXCEPT ![p] = isActive] /\ stock' = [stock EXCEPT ![p] = newStock]
        /\ updates' = updates + 1 /\ \A r \in Requests : p \notin tx[r].locks
        /\ cache' \subseteq Prizes
    BY DEF DrawInv, DrawTypeOK, updatePrize, walletVars, houseVars, recordVars, held
  <1>n. newStock \in Nat
    BY DrawConstants
  <1>1. DrawTypeOK'
    <2>1. active' \in [Prizes -> BOOLEAN] /\ stock' \in [Prizes -> Nat] /\ updates' \in Nat
      BY <1>u, <1>n DEF DrawInv, DrawTypeOK
    <2>2. \A r \in Requests, q \in Prizes : stockSeen(r, q)' >= 0
      <3> SUFFICES ASSUME NEW r \in Requests, NEW q \in Prizes
                   PROVE  stock'[q] - tx[r].wins[q] >= 0
        BY <1>u DEF stockSeen
      <3>1. /\ tx[r].wins[q] \in Nat /\ stock[q] - tx[r].wins[q] >= 0
            /\ stock \in [Prizes -> Nat]
        BY DEF DrawInv, DrawTypeOK, stockSeen, Txs
      <3>2. tx[r].wins[p] > 0 => p \in tx[r].locks
        BY DEF DrawInv, TxShape
      <3> QED BY <1>u, <1>n, <3>1, <3>2
    <2> QED BY <1>u, <2>1, <2>2 DEF DrawInv, DrawTypeOK
  <1>2. /\ LocksExclusive' /\ PoolMatchesTransactions' /\ BudgetKept'
    BY <1>u DEF DrawInv, LocksExclusive, PoolMatchesTransactions, BudgetKept
  <1>3. \A r \in Requests : TxShape(tx[r])' /\ TxBudget(tx[r])'
    BY <1>u DEF DrawInv, TxShape, TxBudget, decided
  <1>4. \A r \in Requests : TxMoney(tx[r])'
    BY <1>u DEF DrawInv, TxMoney, taken, owed
  <1> QED BY <1>1, <1>2, <1>3, <1>4 DEF DrawInv

LEMMA CacheStep ==
  ASSUME DrawInv, getProbabilityPool
  PROVE  DrawInv'
  <1>u. /\ UNCHANGED <<wallet, luck, userPool, stock, spent, active, expired, pool>>
        /\ UNCHANGED <<houseTransactions, drawn, won, recentDraw, recentWin, tx>>
        /\ UNCHANGED <<updates, ticks, failures>> /\ cache' \subseteq Prizes
    BY DEF getProbabilityPool, tables, walletVars, prizeVars, houseVars, recordVars, counters
  <1>1. DrawTypeOK'
    BY <1>u DEF DrawInv, DrawTypeOK, stockSeen
  <1>2. /\ LocksExclusive' /\ PoolMatchesTransactions' /\ BudgetKept'
    BY <1>u DEF DrawInv, LocksExclusive, PoolMatchesTransactions, BudgetKept
  <1>3. \A r \in Requests : TxShape(tx[r])' /\ TxBudget(tx[r])'
    BY <1>u DEF DrawInv, TxShape, TxBudget, decided
  <1>4. \A r \in Requests : TxMoney(tx[r])'
    BY <1>u DEF DrawInv, TxMoney, taken, owed
  <1> QED BY <1>1, <1>2, <1>3, <1>4 DEF DrawInv

(* What the passing of time may change of an open transaction. *)
Ticked(old, t) ==
    /\ old.pc # "idle"
    /\ \E b \in BOOLEAN, e \in SUBSET Prizes :
          t = [old EXCEPT !.startedToday = b, !.ended = e]

(***************************************************************************)
(* Time changes no money: a clock step that keeps the types and leaves     *)
(* each transaction alone except for startedToday and ended keeps the      *)
(* invariant.                                                              *)
(***************************************************************************)
LEMMA ClockStep ==
  ASSUME DrawInv, Tick,
         drawn' \in [Users -> [today : Nat, yesterday : Nat]],
         won' \in [Prizes -> [hour : Nat, day : Nat]],
         expired' \subseteq Prizes, recentDraw' \subseteq Users, recentWin' \subseteq Users,
         tx' \in [Requests -> Txs],
         \A r \in Requests : tx'[r] = tx[r] \/
             Ticked(tx[r], tx'[r])
  PROVE  DrawInv'
  <1>u. /\ UNCHANGED <<wallet, luck, userPool, stock, spent, active, pool, houseTransactions>>
        /\ UNCHANGED <<cache, updates, failures>> /\ ticks' = ticks + 1
    BY DEF Tick, walletVars, houseVars
  <1>t. tx \in [Requests -> Txs]
    BY DEF DrawInv, DrawTypeOK
  <1>f. \A r \in Requests :
          /\ tx'[r].pc = tx[r].pc /\ tx'[r].user = tx[r].user /\ tx'[r].left = tx[r].left
          /\ tx'[r].locks = tx[r].locks /\ tx'[r].pick = tx[r].pick
          /\ tx'[r].reward = tx[r].reward /\ tx'[r].draws = tx[r].draws
          /\ tx'[r].wallet = tx[r].wallet /\ tx'[r].luck = tx[r].luck
          /\ tx'[r].pool = tx[r].pool /\ tx'[r].delta = tx[r].delta
          /\ tx'[r].spent = tx[r].spent /\ tx'[r].wins = tx[r].wins
          /\ (tx[r].pc = "idle" => tx'[r] = tx[r])
    <2> SUFFICES ASSUME NEW r \in Requests, Ticked(tx[r], tx'[r])
                 PROVE  /\ tx[r].pc # "idle"
                        /\ \A f \in {"pc", "user", "left", "locks", "pick", "reward", "draws",
                                   "wallet", "luck", "pool", "delta", "spent", "wins"} :
                              tx'[r][f] = tx[r][f]
      OBVIOUS
    <2>1. tx[r] \in Txs
      BY <1>t
    <2> QED BY <2>1 DEF Txs, Ticked
  <1>1. DrawTypeOK'
    <2>1. \A r \in Requests, p \in Prizes : stockSeen(r, p)' >= 0
      BY <1>f, <1>u DEF DrawInv, DrawTypeOK, stockSeen
    <2>2. ticks' \in Nat
      BY <1>u DEF DrawInv, DrawTypeOK
    <2> QED BY <1>u, <2>1, <2>2 DEF DrawInv, DrawTypeOK
  <1>2. /\ LocksExclusive' /\ PoolMatchesTransactions' /\ BudgetKept'
    BY <1>u, <1>f DEF DrawInv, LocksExclusive, PoolMatchesTransactions, BudgetKept
  <1>3. \A r \in Requests : TxShape(tx[r])'
    BY <1>f DEF DrawInv, TxShape, decided
  <1>4. \A r \in Requests : TxMoney(tx[r])'
    BY <1>u, <1>f DEF DrawInv, TxMoney, taken, owed
  <1>5. \A r \in Requests : TxBudget(tx[r])'
    BY <1>f DEF DrawInv, TxBudget
  <1> QED BY <1>1, <1>2, <1>3, <1>4, <1>5 DEF DrawInv

LEMMA TimeStep ==
  ASSUME DrawInv, dayEnds \/ hourEnds \/ (\E p \in Prizes : periodEnds(p))
  PROVE  DrawInv'
  <1>t. /\ tx \in [Requests -> Txs] /\ drawn \in [Users -> [today : Nat, yesterday : Nat]]
        /\ won \in [Prizes -> [hour : Nat, day : Nat]]
        /\ expired \subseteq Prizes /\ recentDraw \subseteq Users /\ recentWin \subseteq Users
    BY DEF DrawInv, DrawTypeOK
  <1>1. CASE dayEnds
    <2>1. Tick /\ UNCHANGED <<expired, recentDraw, recentWin>>
      BY <1>1 DEF dayEnds
    <2>2. drawn' \in [Users -> [today : Nat, yesterday : Nat]]
      BY <1>1, <1>t DEF dayEnds
    <2>3. won' \in [Prizes -> [hour : Nat, day : Nat]]
      BY <1>1, <1>t DEF dayEnds
    <2>4. tx' = [r \in Requests |-> IF tx[r].pc = "idle" THEN tx[r]
                                    ELSE [tx[r] EXCEPT !.startedToday = FALSE]]
      BY <1>1 DEF dayEnds
    <2>5. \A r \in Requests : [tx[r] EXCEPT !.startedToday = FALSE] \in Txs
      <3> SUFFICES ASSUME NEW t \in Txs, NEW b \in BOOLEAN
                   PROVE  [t EXCEPT !.startedToday = b] \in Txs
        BY <1>t
      <3> QED BY DEF Txs
    <2>6. /\ tx' \in [Requests -> Txs]
          /\ \A r \in Requests : tx'[r] = tx[r] \/
                (tx[r].pc # "idle" /\ tx'[r] = [tx[r] EXCEPT !.startedToday = FALSE])
      BY <2>4, <2>5, <1>t
    <2>7. \A r \in Requests :
            /\ [tx[r] EXCEPT !.startedToday = FALSE] =
                  [tx[r] EXCEPT !.startedToday = FALSE, !.ended = tx[r].ended]
            /\ tx[r].ended \in SUBSET Prizes
      <3> SUFFICES ASSUME NEW t \in Txs
                   PROVE  /\ [t EXCEPT !.startedToday = FALSE] =
                                [t EXCEPT !.startedToday = FALSE, !.ended = t.ended]
                          /\ t.ended \in SUBSET Prizes
        BY <1>t
      <3> QED BY DEF Txs
    <2>8. \A r \in Requests : tx'[r] = tx[r] \/ Ticked(tx[r], tx'[r])
      BY <2>6, <2>7 DEF Ticked
    <2> QED BY <2>1, <2>2, <2>3, <2>6, <2>8, <1>t, ClockStep
  <1>2. CASE hourEnds
    <2>1. Tick /\ UNCHANGED <<expired, drawn, tx>> /\ recentDraw' = {} /\ recentWin' = {}
      BY <1>2 DEF hourEnds
    <2>2. won' \in [Prizes -> [hour : Nat, day : Nat]]
      BY <1>2, <1>t DEF hourEnds
    <2> QED BY <2>1, <2>2, <1>t, ClockStep
  <1>3. CASE \E p \in Prizes : periodEnds(p)
    <2>1. Tick /\ UNCHANGED <<drawn, won, recentDraw, recentWin>> /\ expired' \subseteq Prizes
      BY <1>3, <1>t DEF periodEnds, recordVars
    <2>2. PICK p \in Prizes :
            tx' = [r \in Requests |-> IF tx[r].pc = "idle" THEN tx[r]
                                      ELSE [tx[r] EXCEPT !.ended = @ \ {p}]]
      BY <1>3 DEF periodEnds
    <2>3. \A r \in Requests :
            LET t == [tx[r] EXCEPT !.ended = @ \ {p}]
            IN  /\ t \in Txs
                /\ \E b \in BOOLEAN, e \in SUBSET Prizes :
                       t = [tx[r] EXCEPT !.startedToday = b, !.ended = e]
      <3> SUFFICES ASSUME NEW old \in Txs
                   PROVE  /\ [old EXCEPT !.ended = @ \ {p}] \in Txs
                          /\ \E b \in BOOLEAN, e \in SUBSET Prizes :
                                [old EXCEPT !.ended = @ \ {p}] =
                                    [old EXCEPT !.startedToday = b, !.ended = e]
        BY <1>t
      <3>1. [old EXCEPT !.ended = @ \ {p}] =
              [old EXCEPT !.startedToday = old.startedToday, !.ended = old.ended \ {p}]
        BY DEF Txs
      <3>2. old.startedToday \in BOOLEAN /\ old.ended \ {p} \in SUBSET Prizes
        BY DEF Txs
      <3>3. [old EXCEPT !.ended = @ \ {p}] \in Txs
        BY DEF Txs
      <3> QED BY <3>1, <3>2, <3>3
    <2>4. /\ tx' \in [Requests -> Txs]
          /\ \A r \in Requests : tx'[r] = tx[r] \/ Ticked(tx[r], tx'[r])
      BY <2>2, <2>3, <1>t DEF Ticked
    <2> QED BY <2>1, <2>4, <1>t, ClockStep
  <1> QED BY <1>1, <1>2, <1>3

-----------------------------------------------------------------------------
(* The invariant holds initially. *)
LEMMA InitInv == DrawInit => DrawInv
  <1> SUFFICES ASSUME DrawInit PROVE DrawInv
    OBVIOUS
  <1>c. InitialWallet \in Nat /\ InitialPool \in Nat /\ InitialStock \in Nat
    BY DrawConstants
  <1>n. \A r \in Requests : tx[r] = NoTx
    BY DEF DrawInit
  <1>1. DrawTypeOK
    <2>1. tx \in [Requests -> Txs]
      BY NoTxOK DEF DrawInit
    <2>2. \A p \in Prizes : NoTx.wins[p] = 0
      BY DEF NoTx
    <2>3. \A r \in Requests, p \in Prizes : stockSeen(r, p) >= 0
      BY <1>c, <1>n, <2>2 DEF DrawInit, stockSeen
    <2> QED BY <1>c, <2>1, <2>3 DEF DrawInit, DrawTypeOK
  <1>2. LocksExclusive
    BY <1>n DEF LocksExclusive, NoTx
  <1>3. \A r \in Requests : TxShape(tx[r]) /\ TxMoney(tx[r]) /\ TxBudget(tx[r])
    BY <1>n, NoTxOK
  <1>4. PoolMatchesTransactions /\ BudgetKept
    BY <1>c, DrawConstants DEF DrawInit, PoolMatchesTransactions, BudgetKept
  <1> QED BY <1>1, <1>2, <1>3, <1>4 DEF DrawInv

(* A stuttering step keeps it. *)
LEMMA StutterInv ==
  ASSUME DrawInv, UNCHANGED drawVars
  PROVE  DrawInv'
  <1>u. /\ UNCHANGED <<wallet, luck, userPool, stock, spent, active, expired, pool>>
        /\ UNCHANGED <<houseTransactions, drawn, won, recentDraw, recentWin, cache, tx>>
        /\ UNCHANGED <<updates, ticks, failures>>
    BY DEF drawVars, tables, walletVars, prizeVars, houseVars, recordVars, counters
  <1>1. DrawTypeOK'
    BY <1>u DEF DrawInv, DrawTypeOK, stockSeen
  <1>2. /\ LocksExclusive' /\ PoolMatchesTransactions' /\ BudgetKept'
    BY <1>u DEF DrawInv, LocksExclusive, PoolMatchesTransactions, BudgetKept
  <1>3. \A r \in Requests : TxShape(tx[r])' /\ TxBudget(tx[r])'
    BY <1>u DEF DrawInv, TxShape, TxBudget, decided
  <1>4. \A r \in Requests : TxMoney(tx[r])'
    BY <1>u DEF DrawInv, TxMoney, taken, owed
  <1> QED BY <1>1, <1>2, <1>3, <1>4 DEF DrawInv

(* Every action keeps it. *)
LEMMA NextInv ==
  ASSUME DrawInv, DrawNext
  PROVE  DrawInv'
  <1>c. updates \in Nat /\ ticks \in Nat /\ failures \in Nat
    BY DEF DrawInv, DrawTypeOK
  <1>1. ASSUME NEW r \in Requests, DrawStep(r) PROVE DrawInv'
    <2>1. CASE debitDrawCost(r)
      BY <2>1, DebitStep
    <2>2. CASE drawRefused(r) \/ deadlockDetected(r)
      <3>1. /\ tx' = [tx EXCEPT ![r] = NoTx] /\ UNCHANGED <<tables, cache>>
            /\ updates' \in Nat /\ ticks' \in Nat /\ failures' \in Nat
        BY <2>2, <1>c DEF drawRefused, deadlockDetected, counters
      <3> QED BY <3>1, RollbackStep
    <2>3. CASE resolveDrawOutcome(r)
      <3>1. PICK noise \in PoolNoise :
              tx' = [tx EXCEPT ![r] = IF payable(r, tx[r].pick, noise)
                                      THEN persistWinningOutcome(r, tx[r].pick)
                                      ELSE withhold(r, tx[r].pick)]
        BY <2>3 DEF resolveDrawOutcome
      <3>2. tx[r].pc = "prize" /\ free(r, tx[r].pick) /\ UNCHANGED <<tables, cache, counters>>
        BY <2>3 DEF resolveDrawOutcome
      <3>3. CASE payable(r, tx[r].pick, noise)
        BY <3>1, <3>2, <3>3, WinStep
      <3>4. CASE ~payable(r, tx[r].pick, noise)
        BY <3>1, <3>2, <3>4, WithholdStep
      <3> QED BY <3>3, <3>4
    <2>4. CASE applyHouseDrawEntries(r)
      BY <2>4, HouseStep
    <2>5. CASE commit(r)
      BY <2>5, CommitStep
    <2> QED BY <1>1, <2>1, <2>2, <2>3, <2>4, <2>5 DEF DrawStep
  <1>2. ASSUME NEW r \in Requests, connectionLost(r) PROVE DrawInv'
    <2>1. /\ tx' = [tx EXCEPT ![r] = NoTx] /\ UNCHANGED <<tables, cache>>
          /\ updates' \in Nat /\ ticks' \in Nat /\ failures' \in Nat
      BY <1>2, <1>c DEF connectionLost
    <2> QED BY <2>1, RollbackStep
  <1> QED BY <1>1, <1>2, BeginStep, UpdateStep, CacheStep, TimeStep DEF DrawNext

(* The inductive invariant holds in every reachable state. *)
LEMMA DrawInvariant == DrawSpec => []DrawInv
  <1>1. DrawInv /\ [DrawNext]_drawVars => DrawInv'
    BY NextInv, StutterInv
  <1> QED BY <1>1, InitInv, PTL DEF DrawSpec

(***************************************************************************)
(* Type correctness, for any users, prizes, requests and limits: no        *)
(* interleaving of draws overdraws a wallet or oversells a prize.          *)
(***************************************************************************)
THEOREM DrawTypeCorrect == DrawSpec => []DrawTypeOK
  <1>1. DrawInv => DrawTypeOK
    BY DEF DrawInv
  <1> QED BY <1>1, DrawInvariant, PTL

(***************************************************************************)
(* The prize pool is always its initial balance plus its house_transactions*)
(* although each draw writes it as an absolute value.                      *)
(***************************************************************************)
THEOREM PoolAlwaysMatches == DrawSpec => []PoolMatchesTransactions
  <1>1. DrawInv => PoolMatchesTransactions
    BY DEF DrawInv
  <1> QED BY <1>1, DrawInvariant, PTL

(***************************************************************************)
(* No prize has more than its budget booked on a period, whenever the      *)
(* draws that wait for it read the clock.                                  *)
(***************************************************************************)
THEOREM BudgetAlwaysKept == DrawSpec => []BudgetKept
  <1>1. DrawInv => BudgetKept
    BY DEF DrawInv
  <1> QED BY <1>1, DrawInvariant, PTL

-----------------------------------------------------------------------------
(* A commit settles the draws of its user; every other step of a request   *)
(* leaves the committed money and stock alone.                             *)
LEMMA CommitSettles ==
  ASSUME DrawInv, NEW r \in Requests, commit(r)
  PROVE  Custody!Settle(tx[r].user, tx[r].draws)
  <1> DEFINE t == tx[r]
             u == t.user
             cost == t.draws * effectiveDrawCost
  <1>e. /\ u \in Users /\ t.draws \in Nat /\ t.wallet \in Nat /\ t.luck \in Nat /\ t.delta \in Int
        /\ wallet[u] = t.wallet + cost
        /\ t.luck = luck[u] + cost - t.delta
        /\ t.luck >= luck[u]
        /\ pool' = pool + t.delta
        /\ stock' \in [Prizes -> Nat]
    BY CommitEffect, DrawConstants
  <1>p. /\ \A p \in Prizes : t.wins[p] \in 0..t.draws
        /\ \A p \in Prizes : stock'[p] = stock[p] - t.wins[p]
        /\ t.luck # luck[u] => \E p \in Prizes : t.wins[p] > 0
    BY CommitEffect
  <1>w. wallet' = [wallet EXCEPT ![u] = t.wallet] /\ luck' = [luck EXCEPT ![u] = t.luck]
    BY DEF commit
  <1>t. /\ wallet \in [Users -> Nat] /\ luck \in [Users -> Nat] /\ pool \in Int
        /\ stock \in [Prizes -> Nat] /\ cost \in Nat
    BY <1>e, OneMore, CostIsNat DEF DrawInv, DrawTypeOK
  <1> HIDE DEF t, u, cost
  <1>1. cost <= wallet[u] /\ wallet' = [wallet EXCEPT ![u] = wallet[u] - cost]
    <2>1. wallet[u] - cost = t.wallet /\ cost <= wallet[u]
      BY <1>e, <1>t
    <2> QED BY <2>1, <1>w
  <1>2. luck'[u] = t.luck /\ luck' = [luck EXCEPT ![u] = luck'[u]]
    BY <1>w, <1>e, <1>t
  <1>3. luck'[u] - luck[u] \in Nat /\ pool' = pool + cost - (luck'[u] - luck[u])
    BY <1>2, <1>e, <1>t
  <1>4. \A p \in Prizes : stock'[p] <= stock[p] /\ stock[p] <= stock'[p] + t.draws
    BY <1>p, <1>t, <1>e
  <1>5. stock' = stock => luck'[u] - luck[u] = 0
    <2>1. stock' = stock => \A p \in Prizes : ~(t.wins[p] > 0)
      BY <1>p, <1>t, <1>e
    <2> QED BY <2>1, <1>p, <1>2, <1>e, <1>t
  <1> QED BY <1>1, <1>2, <1>3, <1>4, <1>5, <1>e DEF t, u, cost, Custody!Settle

(***************************************************************************)
(* Concurrent draw transactions implement PrizeCustody: each takes effect  *)
(* at its commit, all of it or nothing.                                    *)
(***************************************************************************)
THEOREM ImplementsPrizeCustody == DrawSpec => CustodyKept
  <1>1. DrawInit => Custody!CustodyInit
    BY DrawConstants DEF DrawInit, Custody!CustodyInit
  <1>2. ASSUME DrawInv, [DrawNext]_drawVars
        PROVE  [Custody!CustodyNext]_(Custody!custodyVars)
    <2> DEFINE same == UNCHANGED <<wallet, luck, pool, stock>>
    <2>s. same => UNCHANGED Custody!custodyVars
      BY DEF Custody!custodyVars
    <2>1. ASSUME NEW r \in Requests, commit(r) PROVE Custody!CustodyNext
      <3>1. tx[r].user \in Users /\ tx[r].draws \in 1..MaxDrawPerRequest
        BY <2>1, CommitEffect, <1>2
      <3>2. Custody!Settle(tx[r].user, tx[r].draws)
        BY <2>1, CommitSettles, <1>2
      <3> QED BY <3>1, <3>2 DEF Custody!CustodyNext
    <2>2. ASSUME NEW r \in Requests, DrawStep(r), ~commit(r) PROVE same
      BY <2>2 DEF DrawStep, debitDrawCost, drawRefused, resolveDrawOutcome,
                  applyHouseDrawEntries, deadlockDetected, tables, walletVars, prizeVars, houseVars
    <2>3. ASSUME NEW r \in Requests, connectionLost(r) PROVE same
      BY <2>3 DEF connectionLost, tables, walletVars, prizeVars, houseVars
    <2>4. ASSUME NEW r \in Requests, NEW u \in Users, NEW count \in 1..MaxDrawPerRequest,
                 executeResolvedDrawPlay(r, u, count)
          PROVE  same
      BY <2>4 DEF executeResolvedDrawPlay, tables, walletVars, prizeVars, houseVars
    <2>5. ASSUME NEW p \in Prizes, NEW isActive \in BOOLEAN, NEW newStock \in 0..InitialStock,
                 updatePrize(p, isActive, newStock)
          PROVE  Custody!CustodyNext
      <3>1. /\ stock' = [stock EXCEPT ![p] = newStock] /\ UNCHANGED <<wallet, luck, pool>>
        BY <2>5 DEF updatePrize, walletVars, houseVars
      <3>2. stock \in [Prizes -> Nat] /\ newStock \in Nat
        BY <1>2, DrawConstants DEF DrawInv, DrawTypeOK
      <3>3. stock'[p] = newStock
        BY <3>1, <3>2
      <3>4. Custody!Restock(p)
        BY <3>1, <3>2, <3>3 DEF Custody!Restock
      <3> QED BY <3>4 DEF Custody!CustodyNext
    <2>6. ASSUME getProbabilityPool \/ dayEnds \/ hourEnds \/ (\E p \in Prizes : periodEnds(p))
          PROVE  same
      BY <2>6 DEF getProbabilityPool, dayEnds, hourEnds, periodEnds, Tick,
                  tables, walletVars, prizeVars, houseVars
    <2>7. CASE UNCHANGED drawVars
      <3>1. same
        BY <2>7 DEF drawVars, tables, walletVars, prizeVars, houseVars
      <3> QED BY <3>1, <2>s
    <2>8. CASE DrawNext
      <3> HIDE DEF same
      <3> QED BY <2>8, <2>1, <2>2, <2>3, <2>4, <2>5, <2>6, <2>s DEF DrawNext
    <2> QED BY <1>2, <2>7, <2>8
  <1> QED BY <1>1, <1>2, DrawInvariant, PTL DEF DrawSpec, CustodyKept, Custody!CustodySpec

-----------------------------------------------------------------------------
(***************************************************************************)
(* The limits that are counted on the draw records.  An open transaction   *)
(* of today has room for the draws it holds, and every transaction for the *)
(* wins of the top prize it holds, whatever commits meanwhile: their rows  *)
(* are locked.                                                             *)
(***************************************************************************)
RoomToday(t) ==
    MaxDrawPerDay > 0 /\ t.pc # "idle" /\ t.startedToday =>
        drawn[t.user].today + taken(t) <= MaxDrawPerDay

RoomForWins(t) ==
    \A p \in Prizes : isTopPrize(p) =>
        /\ won[p].hour + t.wins[p] <= MaxBigPerHour
        /\ MaxBigPerDay > 0 /\ t.startedToday => won[p].day + t.wins[p] <= MaxBigPerDay

LimitInv == LimitsKept /\ \A r \in Requests : RoomToday(tx[r]) /\ RoomForWins(tx[r])

LEMMA LimitLocalStep ==
  ASSUME DrawInv, LimitInv, NEW r \in Requests, NEW t, RoomToday(t), RoomForWins(t),
         tx' = [tx EXCEPT ![r] = t], UNCHANGED drawn, UNCHANGED won
  PROVE  LimitInv'
  <1>t. tx \in [Requests -> Txs]
    BY DEF DrawInv, DrawTypeOK
  <1>1. ASSUME NEW q \in Requests PROVE RoomToday(tx[q])' /\ RoomForWins(tx[q])'
    <2>1. tx'[q] = t \/ tx'[q] = tx[q]
      BY <1>t
    <2>2. RoomToday(tx[q]) /\ RoomForWins(tx[q])
      BY DEF LimitInv
    <2> QED BY <2>1, <2>2 DEF RoomToday, RoomForWins, taken, isTopPrize
  <1>2. LimitsKept'
    BY DEF LimitInv, LimitsKept, TodayLimitKept, BigPrizeLimitKept, isTopPrize
  <1> QED BY <1>1, <1>2 DEF LimitInv

LEMMA LimitSame ==
  ASSUME DrawInv, LimitInv, UNCHANGED drawn, UNCHANGED won, UNCHANGED tx
  PROVE  LimitInv'
  BY DEF LimitInv, LimitsKept, TodayLimitKept, BigPrizeLimitKept, RoomToday, RoomForWins,
     taken, isTopPrize

LEMMA LimitEmptyTx ==
  ASSUME LimitsKept, DrawInv
  PROVE  RoomToday(NoTx) /\ RoomForWins(NoTx)
  <1>1. NoTx.pc = "idle" /\ \A p \in Prizes : NoTx.wins[p] = 0
    BY DEF NoTx
  <1>2. won \in [Prizes -> [hour : Nat, day : Nat]]
    BY DEF DrawInv, DrawTypeOK
  <1> QED BY <1>1, <1>2 DEF RoomToday, RoomForWins, LimitsKept, BigPrizeLimitKept

LEMMA LimitBegin ==
  ASSUME DrawInv, LimitInv, NEW r \in Requests, NEW u \in Users,
         NEW count \in 1..MaxDrawPerRequest, executeResolvedDrawPlay(r, u, count)
  PROVE  LimitInv'
  <1> DEFINE t == [NoTx EXCEPT !.pc = "user", !.user = u, !.left = count]
  <1>f. t.pc = "user" /\ t.user = u /\ t.draws = 0 /\ t.wins = NoTx.wins /\ t.startedToday
    BY DEF NoTx
  <1>u. tx' = [tx EXCEPT ![r] = t] /\ UNCHANGED drawn /\ UNCHANGED won
    BY DEF executeResolvedDrawPlay, tables, recordVars
  <1> HIDE DEF t
  <1>1. RoomToday(t)
    <2>1. MaxDrawPerDay > 0 => drawn[u].today <= MaxDrawPerDay
      BY DEF LimitInv, LimitsKept, TodayLimitKept
    <2>2. drawn[u].today \in Nat
      BY DEF DrawInv, DrawTypeOK
    <2> QED BY <1>f, <2>1, <2>2 DEF RoomToday, taken
  <1>2. RoomForWins(t)
    <2>1. RoomForWins(NoTx) /\ NoTx.startedToday
      BY LimitEmptyTx DEF NoTx, LimitInv
    <2> QED BY <1>f, <2>1 DEF RoomForWins
  <1> QED BY <1>u, <1>1, <1>2, LimitLocalStep

(* The draw that is paid for was counted against the day, with those the   *)
(* transaction holds.                                                      *)
LEMMA LimitDebit ==
  ASSUME DrawInv, LimitInv, NEW r \in Requests, debitDrawCost(r)
  PROVE  LimitInv'
  <1>t. tx \in [Requests -> Txs] /\ tx[r] \in Txs /\ tx[r].pc = "user"
    BY DEF DrawInv, DrawTypeOK, debitDrawCost
  <1>1. PICK pick : tx' = [tx EXCEPT ![r] = debited(r, pick)]
    BY DEF debitDrawCost
  <1>2. PICK t : t = debited(r, pick)
    OBVIOUS
  <1>f. /\ t.pc \in {"prize", "house"} /\ t.user = tx[r].user /\ t.draws = tx[r].draws
        /\ t.wins = tx[r].wins /\ t.startedToday = tx[r].startedToday
    BY <1>t, <1>2 DEF debited, Txs
  <1>u. UNCHANGED drawn /\ UNCHANGED won
    BY DEF debitDrawCost, tables, recordVars
  <1>3. RoomToday(t)
    <2>1. MaxDrawPerDay > 0 => drawnToday(r) < MaxDrawPerDay
      BY DEF debitDrawCost, enforceDrawGuards
    <2>2. tx[r].user \in Users
      BY <1>t DEF DrawInv, TxShape
    <2>3. /\ drawn[tx[r].user].today \in Nat /\ tx[r].draws \in Nat /\ MaxDrawPerDay \in Nat
          /\ drawn[tx[r].user]["today"] = drawn[tx[r].user].today
      BY <1>t, <2>2, DrawConstants DEF DrawInv, DrawTypeOK, Txs
    <2> QED BY <1>f, <2>1, <2>3 DEF RoomToday, taken, drawnToday
  <1>4. RoomForWins(t)
    BY <1>f DEF LimitInv, RoomForWins
  <1> QED BY <1>1, <1>2, <1>u, <1>3, <1>4, LimitLocalStep

(* The wins counted before the top prize is paid include those of r, and   *)
(* the top prize is among the largest whatever the cached candidates are.  *)
LEMMA TopPrizeCounted ==
  ASSUME DrawInv, NEW r \in Requests, NEW p \in Prizes, isTopPrize(p),
         resolvePayoutLimitReason(r, p)
  PROVE  /\ won[p].hour + tx[r].wins[p] < MaxBigPerHour
         /\ MaxBigPerDay > 0 /\ tx[r].startedToday => won[p].day + tx[r].wins[p] < MaxBigPerDay
  <1>t. /\ tx[r] \in Txs
        /\ won \in [Prizes -> [hour : Nat, day : Nat]]
        /\ tx[r].candidates \subseteq Prizes
        /\ \A q \in Prizes : tx[r].wins[q] \in Nat /\ won[q].hour \in Nat /\ won[q].day \in Nat
    BY DEF DrawInv, DrawTypeOK, Txs
  <1>1. isBigPrize(r, p)
    <2>1. \A q \in Prizes : RewardAmount[q] \in Nat
      BY DrawConstants
    <2> QED BY <1>t, <2>1 DEF isBigPrize, isTopPrize
  <1>2. /\ bigWins(r, "hour") < MaxBigPerHour
        /\ MaxBigPerDay > 0 => bigWins(r, "day") < MaxBigPerDay
    BY <1>1 DEF resolvePayoutLimitReason, isTopPrize
  <1>3. ASSUME NEW window \in {"hour", "day"}
        PROVE  winsSeen(r, window, p) <= bigWins(r, window) /\ bigWins(r, window) \in Nat
    <2> DEFINE f == [q \in Prizes |-> winsSeen(r, window, q)]
               S == {q \in Prizes : isBigPrize(r, q)}
    <2>1. IsFiniteSet(S) /\ p \in S
      BY <1>1, DrawConstants, FS_Subset
    <2>2. \A q \in Prizes : f[q] \in Nat
      <3>1. \A q \in Prizes : won[q][window] \in Nat
        BY <1>t
      <3> QED BY <1>t, <3>1 DEF winsSeen
    <2>3. bigWins(r, window) = SumFunctionOnSet(f, S) /\ f[p] = winsSeen(r, window, p)
      BY DEF bigWins
    <2>4. \A q \in S : f[q] \in Nat
      BY <2>2
    <2> HIDE DEF f, S
    <2>5. SumFunctionOnSet(f, S) \in Nat /\ f[p] <= SumFunctionOnSet(f, S)
      BY <2>1, <2>4, SumIsNat, TermIsAtMostSum
    <2> QED BY <2>3, <2>5
  <1>4. /\ winsSeen(r, "hour", p) = won[p].hour + tx[r].wins[p]
        /\ tx[r].startedToday => winsSeen(r, "day", p) = won[p].day + tx[r].wins[p]
    BY DEF winsSeen
  <1>5. MaxBigPerHour \in Nat /\ MaxBigPerDay \in Nat
    BY DrawConstants
  <1>6. ASSUME NEW a \in Nat, NEW b \in Nat, NEW c \in Nat, a <= b, b < c PROVE a < c
    BY <1>6
  <1>7. /\ won[p].hour + tx[r].wins[p] \in Nat /\ won[p].day + tx[r].wins[p] \in Nat
    BY <1>t
  <1> QED BY <1>2, <1>3, <1>4, <1>5, <1>6, <1>7

LEMMA LimitResolve ==
  ASSUME DrawInv, LimitInv, NEW r \in Requests, resolveDrawOutcome(r)
  PROVE  LimitInv'
  <1> DEFINE p == tx[r].pick
  <1>t. tx \in [Requests -> Txs] /\ tx[r] \in Txs /\ tx[r].pc = "prize"
    BY DEF DrawInv, DrawTypeOK, resolveDrawOutcome
  <1>p. p \in Prizes
    BY <1>t DEF DrawInv, TxShape
  <1>u. UNCHANGED drawn /\ UNCHANGED won
    BY DEF resolveDrawOutcome, tables, recordVars
  <1>1. PICK noise \in PoolNoise :
            tx' = [tx EXCEPT ![r] = IF payable(r, p, noise) THEN persistWinningOutcome(r, p)
                                                            ELSE withhold(r, p)]
    BY DEF resolveDrawOutcome
  <1>2. ASSUME NEW t, t.pc = "house", t.user = tx[r].user, t.draws = tx[r].draws,
               t.startedToday = tx[r].startedToday
        PROVE  RoomToday(t)
    BY <1>t, <1>2 DEF LimitInv, RoomToday, taken
  <1>3. CASE payable(r, p, noise)
    <2>1. PICK t : t = persistWinningOutcome(r, p)
      OBVIOUS
    <2>2. /\ t.pc = "house" /\ t.user = tx[r].user /\ t.draws = tx[r].draws
          /\ t.startedToday = tx[r].startedToday
          /\ t.wins = [tx[r].wins EXCEPT ![p] = @ + 1]
      BY <1>t, <2>1 DEF persistWinningOutcome, Txs
    <2>3. RoomForWins(t)
      <3> SUFFICES ASSUME NEW q \in Prizes, isTopPrize(q)
                   PROVE  /\ won[q].hour + t.wins[q] <= MaxBigPerHour
                          /\ MaxBigPerDay > 0 /\ t.startedToday =>
                                 won[q].day + t.wins[q] <= MaxBigPerDay
        BY DEF RoomForWins
      <3>1. /\ won[q].hour \in Nat /\ won[q].day \in Nat /\ tx[r].wins \in [Prizes -> Nat]
            /\ MaxBigPerHour \in Nat /\ MaxBigPerDay \in Nat
        BY <1>t, DrawConstants DEF DrawInv, DrawTypeOK, Txs
      <3>2. CASE q = p
        <4>1. resolvePayoutLimitReason(r, p)
          BY <1>3 DEF payable
        <4>2. /\ won[q].hour + tx[r].wins[q] < MaxBigPerHour
              /\ MaxBigPerDay > 0 /\ tx[r].startedToday =>
                     won[q].day + tx[r].wins[q] < MaxBigPerDay
          BY <3>2, <4>1, TopPrizeCounted
        <4>3. t.wins[q] = tx[r].wins[q] + 1
          BY <2>2, <3>1, <3>2
        <4> QED BY <2>2, <3>1, <4>2, <4>3
      <3>3. CASE q # p
        <4>1. t.wins[q] = tx[r].wins[q]
          BY <2>2, <3>1, <3>3
        <4> QED BY <2>2, <4>1 DEF LimitInv, RoomForWins
      <3> QED BY <3>2, <3>3
    <2>4. RoomToday(t)
      BY <1>2, <2>2
    <2> QED BY <1>1, <1>3, <1>u, <2>1, <2>3, <2>4, LimitLocalStep
  <1>4. CASE ~payable(r, p, noise)
    <2>1. PICK t : t = withhold(r, p)
      OBVIOUS
    <2>2. /\ t.pc = "house" /\ t.user = tx[r].user /\ t.draws = tx[r].draws
          /\ t.startedToday = tx[r].startedToday /\ t.wins = tx[r].wins
      BY <1>t, <2>1 DEF withhold, Txs
    <2>3. RoomForWins(t)
      BY <2>2 DEF LimitInv, RoomForWins
    <2>4. RoomToday(t)
      BY <1>2, <2>2
    <2> QED BY <1>1, <1>4, <1>u, <2>1, <2>3, <2>4, LimitLocalStep
  <1> QED BY <1>3, <1>4

LEMMA LimitBook ==
  ASSUME DrawInv, LimitInv, NEW r \in Requests, applyHouseDrawEntries(r)
  PROVE  LimitInv'
  <1>t. tx \in [Requests -> Txs] /\ tx[r] \in Txs /\ tx[r].pc = "house"
    BY DEF DrawInv, DrawTypeOK, applyHouseDrawEntries
  <1>1. PICK t : t = booked(r)
    OBVIOUS
  <1>2. /\ t.pc \in {"user", "commit"} /\ t.user = tx[r].user /\ t.draws = tx[r].draws + 1
        /\ t.startedToday = tx[r].startedToday /\ t.wins = tx[r].wins
    BY <1>t, <1>1 DEF booked, Txs
  <1>3. RoomToday(t)
    BY <1>t, <1>2 DEF LimitInv, RoomToday, taken
  <1>4. RoomForWins(t)
    BY <1>2 DEF LimitInv, RoomForWins
  <1>5. tx' = [tx EXCEPT ![r] = t] /\ UNCHANGED drawn /\ UNCHANGED won
    BY <1>1 DEF applyHouseDrawEntries, tables, recordVars
  <1> QED BY <1>3, <1>4, <1>5, LimitLocalStep

(* A commit adds the records that were counted; the locks of the user and  *)
(* of the prizes keep the counts of every other transaction as they are.   *)
LEMMA LimitCommit ==
  ASSUME DrawInv, LimitInv, NEW r \in Requests, commit(r)
  PROVE  LimitInv'
  <1> DEFINE t == tx[r]
             u == t.user
  <1>t. /\ tx \in [Requests -> Txs] /\ t \in Txs /\ t.pc = "commit"
        /\ drawn \in [Users -> [today : Nat, yesterday : Nat]]
        /\ won \in [Prizes -> [hour : Nat, day : Nat]]
        /\ MaxDrawPerDay \in Nat /\ MaxBigPerHour \in Nat /\ MaxBigPerDay \in Nat
    BY DrawConstants DEF DrawInv, DrawTypeOK, commit
  <1>s. \A q \in Requests : TxShape(tx[q])
    BY DEF DrawInv
  <1>e. /\ u \in Users /\ u \in t.locks /\ t.draws \in Nat /\ t.startedToday \in BOOLEAN
        /\ \A p \in Prizes : t.wins[p] \in Nat /\ (t.wins[p] > 0 => p \in t.locks)
    BY <1>t, <1>s DEF TxShape, Txs
  <1>i. LimitsKept /\ RoomToday(t) /\ RoomForWins(t)
    BY DEF LimitInv
  <1>1. /\ tx'[r] = NoTx
        /\ \A q \in Requests \ {r} : tx'[q] = tx[q] /\ tx[q].locks \cap t.locks = {}
    BY <1>t DEF commit, DrawInv, LocksExclusive
  <1>2. /\ \A v \in Users \ {u} : drawn'[v] = drawn[v]
        /\ drawn'[u].today = IF t.startedToday THEN drawn[u].today + t.draws ELSE drawn[u].today
    BY <1>t, <1>e DEF commit
  <1>3. \A p \in Prizes :
            /\ won'[p].hour = won[p].hour + t.wins[p]
            /\ won'[p].day = IF t.startedToday THEN won[p].day + t.wins[p] ELSE won[p].day
    BY DEF commit
  <1>4. TodayLimitKept'
    <2>1. MaxDrawPerDay > 0 => drawn'[u].today <= MaxDrawPerDay
      BY <1>t, <1>e, <1>i, <1>2 DEF RoomToday, taken, LimitsKept, TodayLimitKept
    <2> QED BY <1>2, <1>i, <2>1 DEF LimitsKept, TodayLimitKept
  <1>5. ASSUME NEW p \in Prizes, isTopPrize(p)
        PROVE  /\ won'[p].hour <= MaxBigPerHour
               /\ MaxBigPerDay > 0 => won'[p].day <= MaxBigPerDay
    BY <1>3, <1>5, <1>i DEF RoomForWins, LimitsKept, BigPrizeLimitKept
  <1>6. BigPrizeLimitKept'
    BY <1>5 DEF BigPrizeLimitKept, isTopPrize
  <1>7. ASSUME NEW q \in Requests PROVE RoomToday(tx[q])' /\ RoomForWins(tx[q])'
    <2>1. CASE q = r
      <3>1. NoTx.pc = "idle" /\ \A p \in Prizes : NoTx.wins[p] = 0
        BY DEF NoTx
      <3>2. \A p \in Prizes : won'[p].hour \in Nat /\ won'[p].day \in Nat
        BY <1>t, <1>e, <1>3
      <3> QED BY <1>1, <1>5, <2>1, <3>1, <3>2 DEF RoomToday, RoomForWins, isTopPrize
    <2>2. CASE q # r
      <3> DEFINE other == tx[q]
      <3>1. /\ other \in Txs /\ tx'[q] = other /\ other.locks \cap t.locks = {}
            /\ TxShape(other) /\ RoomToday(other) /\ RoomForWins(other)
        BY <1>1, <1>t, <1>s, <2>2 DEF LimitInv
      <3>2. RoomToday(other)'
        <4> SUFFICES ASSUME MaxDrawPerDay > 0, other.pc # "idle", other.startedToday
                     PROVE  drawn'[other.user].today + taken(other) <= MaxDrawPerDay
          BY <3>1 DEF RoomToday, taken
        <4>1. other.user \in Users /\ drawn[other.user].today + taken(other) <= MaxDrawPerDay
          BY <3>1 DEF TxShape, RoomToday
        <4>2. CASE other.user # u
          BY <1>2, <4>1, <4>2
        <4>3. CASE other.user = u
          <5>1. other.user \notin other.locks
            BY <1>e, <3>1, <4>3
          <5>2. taken(other) = 0
            BY <3>1, <5>1 DEF TxShape, taken, Txs
          <5> QED BY <1>t, <1>4, <4>1, <5>2, <1>2, <1>e, <4>3 DEF TodayLimitKept
        <4> QED BY <4>2, <4>3
      <3>3. RoomForWins(other)'
        <4> SUFFICES ASSUME NEW p \in Prizes, isTopPrize(p)
                     PROVE  /\ won'[p].hour + other.wins[p] <= MaxBigPerHour
                            /\ MaxBigPerDay > 0 /\ other.startedToday =>
                                   won'[p].day + other.wins[p] <= MaxBigPerDay
          BY <3>1 DEF RoomForWins, isTopPrize
        <4>1. other.wins[p] \in Nat /\ (other.wins[p] > 0 => p \in other.locks)
          BY <3>1 DEF Txs, TxShape
        <4>2. won[p].hour \in Nat /\ won[p].day \in Nat
          BY <1>t
        <4>3. CASE other.wins[p] = 0
          <5>1. won'[p].hour \in Nat /\ won'[p].day \in Nat
            BY <1>3, <1>e, <4>2
          <5> QED BY <1>5, <4>3, <5>1
        <4>4. CASE other.wins[p] > 0
          <5>1. t.wins[p] = 0
            BY <1>e, <3>1, <4>1, <4>4
          <5>2. won'[p].hour = won[p].hour /\ won'[p].day = won[p].day
            BY <1>3, <4>2, <5>1
          <5> QED BY <3>1, <5>2 DEF RoomForWins
        <4> QED BY <4>1, <4>3, <4>4
      <3> QED BY <3>1, <3>2, <3>3 DEF RoomToday, RoomForWins, taken, isTopPrize
    <2> QED BY <2>1, <2>2
  <1> QED BY <1>4, <1>6, <1>7 DEF LimitInv, LimitsKept

(* Midnight and the end of an hour start new counts.  A transaction that   *)
(* began yesterday counts for yesterday from then on.                      *)
LEMMA LimitTime ==
  ASSUME DrawInv, LimitInv, dayEnds \/ hourEnds \/ (\E p \in Prizes : periodEnds(p))
  PROVE  LimitInv'
  <1>t. /\ tx \in [Requests -> Txs]
        /\ drawn \in [Users -> [today : Nat, yesterday : Nat]]
        /\ won \in [Prizes -> [hour : Nat, day : Nat]]
        /\ \A r \in Requests, p \in Prizes : tx[r].wins[p] \in Nat
        /\ MaxDrawPerDay \in Nat /\ MaxBigPerHour \in Nat /\ MaxBigPerDay \in Nat
    BY DrawConstants DEF DrawInv, DrawTypeOK, Txs
  <1>i. LimitsKept /\ \A r \in Requests : RoomToday(tx[r]) /\ RoomForWins(tx[r])
    BY DEF LimitInv
  <1>1. CASE dayEnds
    <2>1. /\ \A u \in Users : drawn'[u].today = 0
          /\ \A p \in Prizes : won'[p].day = 0 /\ won'[p].hour = won[p].hour
          /\ \A r \in Requests : /\ tx'[r].wins = tx[r].wins /\ tx'[r].pc = tx[r].pc
                                 /\ tx[r].pc = "idle" => tx'[r] = tx[r]
                                 /\ tx[r].pc # "idle" => ~tx'[r].startedToday
      BY <1>1, <1>t DEF dayEnds, Txs
    <2>2. LimitsKept'
      BY <1>t, <1>i, <2>1 DEF LimitsKept, TodayLimitKept, BigPrizeLimitKept, isTopPrize
    <2>3. ASSUME NEW r \in Requests PROVE RoomToday(tx[r])'
      BY <2>1 DEF RoomToday
    <2>4. ASSUME NEW r \in Requests PROVE RoomForWins(tx[r])'
      <3>1. tx[r].pc = "idle" => \A p \in Prizes : tx[r].wins[p] = 0
        BY DEF DrawInv, TxShape, NoTx
      <3> QED BY <1>t, <1>i, <2>1, <3>1 DEF RoomForWins, isTopPrize
    <2> QED BY <2>2, <2>3, <2>4 DEF LimitInv
  <1>2. CASE hourEnds
    <2>1. /\ UNCHANGED drawn /\ UNCHANGED tx
          /\ \A p \in Prizes : won'[p].hour = 0 /\ won'[p].day = won[p].day
      BY <1>2, <1>t DEF hourEnds
    <2>2. LimitsKept'
      BY <1>t, <1>i, <2>1 DEF LimitsKept, TodayLimitKept, BigPrizeLimitKept, isTopPrize
    <2>3. ASSUME NEW r \in Requests PROVE RoomToday(tx[r])'
      BY <1>i, <2>1 DEF RoomToday, taken
    <2>4. ASSUME NEW r \in Requests PROVE RoomForWins(tx[r])'
      BY <1>t, <1>i, <2>1 DEF RoomForWins, isTopPrize
    <2> QED BY <2>2, <2>3, <2>4 DEF LimitInv
  <1>3. CASE \E p \in Prizes : periodEnds(p)
    <2>1. UNCHANGED drawn /\ UNCHANGED won
      BY <1>3 DEF periodEnds, recordVars
    <2>2. PICK p \in Prizes :
            tx' = [r \in Requests |-> IF tx[r].pc = "idle" THEN tx[r]
                                      ELSE [tx[r] EXCEPT !.ended = @ \ {p}]]
      BY <1>3 DEF periodEnds
    <2>3. \A r \in Requests :
            /\ tx'[r].pc = tx[r].pc /\ tx'[r].user = tx[r].user /\ tx'[r].draws = tx[r].draws
            /\ tx'[r].wins = tx[r].wins /\ tx'[r].startedToday = tx[r].startedToday
      BY <2>2, <1>t DEF Txs
    <2>4. ASSUME NEW r \in Requests PROVE (RoomToday(tx[r]) /\ RoomForWins(tx[r]))'
      BY <1>i, <2>1, <2>3 DEF RoomToday, RoomForWins, taken, isTopPrize
    <2>5. LimitsKept'
      BY <1>i, <2>1 DEF LimitsKept, TodayLimitKept, BigPrizeLimitKept, isTopPrize
    <2> QED BY <2>4, <2>5 DEF LimitInv
  <1> QED BY <1>1, <1>2, <1>3

LEMMA LimitInit == DrawInit => LimitInv
  <1> SUFFICES ASSUME DrawInit PROVE LimitInv
    OBVIOUS
  <1>1. LimitsKept
    BY DrawConstants DEF DrawInit, LimitsKept, TodayLimitKept, BigPrizeLimitKept
  <1>2. \A r \in Requests : tx[r] = NoTx
    BY DEF DrawInit
  <1> QED BY <1>1, <1>2, InitInv, LimitEmptyTx DEF LimitInv

LEMMA LimitNext ==
  ASSUME DrawInv, LimitInv, [DrawNext]_drawVars
  PROVE  LimitInv'
  <1>0. ASSUME NEW r \in Requests, tx' = [tx EXCEPT ![r] = NoTx], UNCHANGED tables
        PROVE  LimitInv'
    <2>1. UNCHANGED drawn /\ UNCHANGED won
      BY <1>0 DEF tables, recordVars
    <2> QED BY <1>0, <2>1, LimitEmptyTx, LimitLocalStep DEF LimitInv
  <1>1. ASSUME NEW r \in Requests, DrawStep(r) PROVE LimitInv'
    <2>1. drawRefused(r) \/ deadlockDetected(r) => LimitInv'
      BY <1>0 DEF drawRefused, deadlockDetected
    <2> QED BY <1>1, <2>1, LimitDebit, LimitResolve, LimitBook, LimitCommit DEF DrawStep
  <1>2. ASSUME NEW r \in Requests, connectionLost(r) PROVE LimitInv'
    BY <1>0, <1>2 DEF connectionLost
  <1>3. ASSUME \/ UNCHANGED drawVars
               \/ getProbabilityPool
               \/ \E p \in Prizes, isActive \in BOOLEAN, newStock \in 0..InitialStock :
                      updatePrize(p, isActive, newStock)
        PROVE  LimitInv'
    <2>1. UNCHANGED drawn /\ UNCHANGED won /\ UNCHANGED tx
      BY <1>3 DEF updatePrize, getProbabilityPool, drawVars, tables, recordVars
    <2> QED BY <2>1, LimitSame
  <1> QED BY <1>1, <1>2, <1>3, LimitBegin, LimitTime DEF DrawNext

(***************************************************************************)
(* The limits per day and hour are kept for every number of users and      *)
(* requests, however their draws, batches, midnights and crashes interleave*)
(* and however stale the list of candidates is.                            *)
(***************************************************************************)
THEOREM LimitsAlwaysKept == DrawSpec => []LimitsKept
  <1>1. LimitInv => LimitsKept
    BY DEF LimitInv
  <1>2. DrawInv /\ LimitInv /\ [DrawNext]_drawVars => LimitInv'
    BY LimitNext
  <1> QED BY <1>1, <1>2, DrawInvariant, LimitInit, PTL DEF DrawSpec
=============================================================================
