----------------------------- MODULE PlayModes ------------------------------
(***************************************************************************)
(* Play modes of one user and one game (play-mode/service.ts,              *)
(* deferred-payouts.ts): the preference row, the sessions, and the payouts *)
(* a mode holds back.  A snapshot is kept in three places, the preference, *)
(* the session and the game, and the next request reads the session that   *)
(* started last.                                                           *)
(*                                                                         *)
(* Operators take and return the rows a transaction works on, a record     *)
(* with the fields preference, sessions, deferred, funds (the wallet) and  *)
(* bank (the prize pool), which funds what a game of blackjack holds back. *)
(* Streaks and multipliers are shown to the player and change no stake.    *)
(***************************************************************************)
EXTENDS Integers, Sequences, FiniteSetsExt

CONSTANT Modes      \* the play modes offered

ASSUME ModesAssumption ==
    "standard" \in Modes /\ Modes \subseteq {"standard", "dual_bet", "deferred_double", "snowball"}

VARIABLES
    preference,     \* the snapshot in user_play_modes
    sessions,       \* play_mode_sessions, in the order they started
    deferred        \* the sum of the pending deferred_payouts of each mode

createDefaultPlayModeSnapshot(mode) == [type |-> mode, pending |-> 0]

PlayModesInit ==
    /\ preference = createDefaultPlayModeSnapshot("standard")
    /\ sessions = <<>>
    /\ deferred = [m \in Modes |-> 0]

loadPlayModeSnapshotForMode(b, mode) ==
    LET started == {i \in DOMAIN b.sessions : b.sessions[i].mode = mode}
    IN  IF started = {}
        THEN createDefaultPlayModeSnapshot(mode)
        ELSE b.sessions[Max(started)].snapshot

\* No parent and no game yet are 0.
startPlayModeSession(b, snapshot, parent) ==
    [b EXCEPT !.sessions = Append(@,
        [mode |-> snapshot.type, status |-> "active", parent |-> parent, game |-> 0,
         snapshot |-> snapshot])]

settlePlayModeSession(b, i, snapshot) ==
    [b EXCEPT !.sessions[i] = [@ EXCEPT !.status = "settled", !.snapshot = snapshot]]

cancelPlayModeSession(b, i, snapshot) ==
    [b EXCEPT !.sessions[i] = [@ EXCEPT !.status = "cancelled", !.snapshot = snapshot]]

saveUserPlayModeState(b, snapshot) == [b EXCEPT !.preference = snapshot]

\* The active session of a game, child sessions included, or 0.
loadActivePlayModeSession(b, game) ==
    LET found == {i \in DOMAIN b.sessions :
                    b.sessions[i].status = "active" /\ b.sessions[i].game = game}
    IN  IF found = {} THEN 0 ELSE Max(found)

resolveSettledPlayMode(snapshot) ==
    IF snapshot.type \in {"standard", "dual_bet"}
    THEN createDefaultPlayModeSnapshot(snapshot.type)
    ELSE snapshot

(***************************************************************************)
(* Holding a payout back takes it from the wallet to the prize pool and    *)
(* records it; a release gives back everything the mode holds.             *)
(***************************************************************************)
withholdDeferredPayout(b, mode, amount) ==
    [b EXCEPT !.funds = @ - amount, !.bank = @ + amount, !.deferred[mode] = @ + amount]

\* A release that leaves the rows pending.
releasesRowsAgain(b, mode) ==
    [b EXCEPT !.funds = @ + b.deferred[mode], !.bank = @ - b.deferred[mode]]

releasePendingDeferredPayoutsForMode(b, mode) ==
    [b EXCEPT !.funds = @ + b.deferred[mode], !.bank = @ - b.deferred[mode],
              !.deferred[mode] = 0]

\* What becomes of the profit of a settled game: the rows and the snapshot after it.
applySettledPlayModePayoutPolicy(b, snapshot, outcome, profit) ==
    LET mode == snapshot.type
        kept == withholdDeferredPayout(b, mode, profit)
        pending == snapshot.pending + profit
        banked == mode = "snowball" /\ outcome = "lose"
    IN  CASE mode \notin {"deferred_double", "snowball"} ->
                [books |-> b, snapshot |-> snapshot]
          [] banked ->
                [books |-> IF pending > 0 THEN releasePendingDeferredPayoutsForMode(kept, mode) ELSE kept,
                 snapshot |-> createDefaultPlayModeSnapshot(mode)]
          [] OTHER ->
                [books |-> kept, snapshot |-> [snapshot EXCEPT !.pending = pending]]

PlayModesTypeOK ==
    /\ preference \in [type : Modes, pending : Nat]
    /\ sessions \in Seq([mode : Modes, status : {"active", "settled", "cancelled"},
                         parent : Nat, game : Nat, snapshot : [type : Modes, pending : Nat]])
    /\ \A i \in DOMAIN sessions : sessions[i].snapshot.type = sessions[i].mode
    /\ deferred \in [Modes -> Nat]
=============================================================================
