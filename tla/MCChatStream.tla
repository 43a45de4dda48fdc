---------------------------- MODULE MCChatStream ----------------------------
(***************************************************************************)
(* Instances of ChatStream for TLC.                                        *)
(***************************************************************************)
EXTENDS ChatStream

AllAsks == {"rejected", "plain", "stream"}
AllEnds == {"gone", "reloading", "signal"}

=============================================================================
