----------------------------- MODULE MCChatCall -----------------------------
(***************************************************************************)
(* Instances of ChatCall for TLC.                                          *)
(***************************************************************************)
EXTENDS ChatCall

AllAsks == {"rejected", "plain", "stream"}
AllEnds == {"gone", "reloading", "signal"}

=============================================================================
