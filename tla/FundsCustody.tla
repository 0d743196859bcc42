---------------------------- MODULE FundsCustody ----------------------------
(***************************************************************************)
(* What deposits and withdrawals promise about a user's spendable money,   *)
(* whatever providers, reviewers and workers do in between: the amount of  *)
(* a withdrawal is taken once when it is requested and given back at most  *)
(* once; the amount of a deposit is given once and taken back at most once.*)
(***************************************************************************)
EXTENDS Integers

CONSTANTS
    Users,
    WithdrawalIds,
    DepositIds,
    Amounts,        \* amounts users withdraw
    DepositAmounts  \* amounts users deposit

VARIABLES
    available,      \* spendable money of each user
    payout,         \* custody of each withdrawal: holder, user and amount
    topUp           \* custody of each deposit: holder, user and amount

vars == <<available, payout, topUp>>

Init ==
    /\ available = [u \in Users |-> 0]
    /\ \A w \in WithdrawalIds : payout[w].holder = "nobody"
    /\ \A d \in DepositIds : topUp[d].holder = "nobody"

(***************************************************************************)
(* A withdrawal's money: nobody -> platform -> receiver, and back to the   *)
(* user from the platform or, recalled, from the receiver.                 *)
(***************************************************************************)
Hold(w) ==
    \E u \in Users, a \in Amounts :
        /\ payout[w].holder = "nobody"
        /\ available[u] >= a
        /\ available' = [available EXCEPT ![u] = @ - a]
        /\ payout' = [payout EXCEPT ![w] = [holder |-> "platform", user |-> u, amount |-> a]]
        /\ UNCHANGED topUp

PayOut(w) ==
    /\ payout[w].holder = "platform"
    /\ payout' = [payout EXCEPT ![w].holder = "receiver"]
    /\ UNCHANGED <<available, topUp>>

GiveBack(w) ==
    /\ payout[w].holder \in {"platform", "receiver"}
    /\ payout' = [payout EXCEPT ![w].holder = "user"]
    /\ available' = [available EXCEPT ![payout[w].user] = @ + payout[w].amount]
    /\ UNCHANGED topUp

(***************************************************************************)
(* A deposit's money: nobody -> payer -> user, and back to the payer from  *)
(* the payer (never credited) or from the user.                            *)
(***************************************************************************)
Announce(d) ==
    \E u \in Users, a \in DepositAmounts :
        /\ topUp[d].holder = "nobody"
        /\ topUp' = [topUp EXCEPT ![d] = [holder |-> "payer", user |-> u, amount |-> a]]
        /\ UNCHANGED <<available, payout>>

Credit(d) ==
    /\ topUp[d].holder = "payer"
    /\ topUp' = [topUp EXCEPT ![d].holder = "user"]
    /\ available' = [available EXCEPT ![topUp[d].user] = @ + topUp[d].amount]
    /\ UNCHANGED payout

Abandon(d) ==
    /\ topUp[d].holder = "payer"
    /\ topUp' = [topUp EXCEPT ![d].holder = "closed"]
    /\ UNCHANGED <<available, payout>>

TakeBack(d) ==
    /\ topUp[d].holder = "user"
    /\ available[topUp[d].user] >= topUp[d].amount
    /\ topUp' = [topUp EXCEPT ![d].holder = "closed"]
    /\ available' = [available EXCEPT ![topUp[d].user] = @ - topUp[d].amount]
    /\ UNCHANGED payout

Next ==
    \/ \E w \in WithdrawalIds : Hold(w) \/ PayOut(w) \/ GiveBack(w)
    \/ \E d \in DepositIds : Announce(d) \/ Credit(d) \/ Abandon(d) \/ TakeBack(d)

Spec == Init /\ [][Next]_vars
=============================================================================
