-------------------------- MODULE MCTelegramUpdates --------------------------
(***************************************************************************)
(* Instances of TelegramUpdates for TLC.                                   *)
(***************************************************************************)
EXTENDS TelegramUpdates

AllSettings == [mode : Modes, drop : BOOLEAN]

OnlyPolling == {[mode |-> "polling", drop |-> FALSE]}

=============================================================================
