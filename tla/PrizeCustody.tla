---------------------------- MODULE PrizeCustody ----------------------------
(***************************************************************************)
(* What the prize draw promises about money and prizes, whatever runs      *)
(* concurrently: a user's draws take effect all at once or not at all,     *)
(* every cent of cost goes to the pool and every cent of reward comes from *)
(* it, and a prize is handed out only while it is in stock.                *)
(***************************************************************************)
EXTENDS Integers

CONSTANTS Users, Prizes, Cost, MaxDraws

VARIABLES
    wallet,     \* withdrawable money of each user
    luck,       \* reward balance of each user
    pool,       \* prize pool of the house
    stock       \* prizes left

custodyVars == <<wallet, luck, pool, stock>>

(***************************************************************************)
(* u draws n times: the cost goes to the pool, the rewards come from it,   *)
(* and there is no reward without a prize taken from stock.                *)
(***************************************************************************)
Settle(u, n) ==
    LET reward == luck'[u] - luck[u]
    IN  /\ n * Cost <= wallet[u]
        /\ wallet' = [wallet EXCEPT ![u] = @ - n * Cost]
        /\ luck' = [luck EXCEPT ![u] = luck'[u]]
        /\ reward \in Nat
        /\ pool' = pool + n * Cost - reward
        /\ stock' \in [Prizes -> Nat]
        /\ \A p \in Prizes : stock'[p] <= stock[p] /\ stock[p] <= stock'[p] + n
        /\ stock' = stock => reward = 0

(***************************************************************************)
(* An administrator sets the stock of a prize.                             *)
(***************************************************************************)
Restock(p) ==
    /\ stock' = [stock EXCEPT ![p] = stock'[p]]
    /\ stock'[p] \in Nat
    /\ UNCHANGED <<wallet, luck, pool>>

CustodyInit ==
    /\ wallet \in [Users -> Nat]
    /\ luck = [u \in Users |-> 0]
    /\ pool \in Int
    /\ stock \in [Prizes -> Nat]

CustodyNext ==
    \/ \E u \in Users, n \in 1..MaxDraws : Settle(u, n)
    \/ \E p \in Prizes : Restock(p)

CustodySpec == CustodyInit /\ [][CustodyNext]_custodyVars
=============================================================================
