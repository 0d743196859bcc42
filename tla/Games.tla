-------------------------------- MODULE Games --------------------------------
(***************************************************************************)
(* Hold'em and blackjack as one part of the system: each on tables of its  *)
(* own, their requests and workers interleaved in any order.               *)
(***************************************************************************)
EXTENDS HoldemTable, Blackjack

\* The games share nothing: each takes its own steps, in any order or at once.
GamesSpec == HoldemSpec /\ BlackjackSpec

\* Types of the rows of both games.
GamesTypeOK == HoldemTypeOK /\ BlackjackTypeOK

(***************************************************************************)
(* Money neither appears nor disappears: what wallets, stacks, pots, rake, *)
(* bankroll and prize pool hold adds up through hold'em's buy-ins, pots    *)
(* and cash-outs, and through blackjack's raised stakes, settlements and   *)
(* held-back payouts.                                                      *)
(***************************************************************************)
MoneyKept == TableMoneyKept /\ BlackjackMoneyKept
==============================================================================
