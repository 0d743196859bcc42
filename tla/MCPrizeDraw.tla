---------------------------- MODULE MCPrizeDraw ----------------------------
(***************************************************************************)
(* Instances of PrizeDraw for TLC: two prizes, "cash" of 2 within a budget *)
(* of 3 and "top" of 3.                                                    *)
(***************************************************************************)
EXTENDS PrizeDraw, TLC

CONSTANTS cash, top

Rewards == cash :> 2 @@ top :> 3

Budgets == cash :> 3 @@ top :> 0

NoGate == cash :> 0 @@ top :> 0

PoolGates == cash :> 1 @@ top :> 2

UserPoolGates == cash :> 1 @@ top :> 2

NoiseValues == {-1, 0}

NoNoise == {0}

SymRequestsUsers == Permutations(Requests) \cup Permutations(Users)

\* Prize edits and crashes are met on one day, midnight without them.
MidnightAlone == ticks > 0 => updates + failures = 0
=============================================================================
