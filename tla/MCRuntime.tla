------------------------------ MODULE MCRuntime ------------------------------
(***************************************************************************)
(* Instances of Runtime for TLC.                                           *)
(***************************************************************************)
EXTENDS Runtime, TLC

CONSTANTS c1, c2

\* One configuration polls, the other one has a webhook.
BothModes == c1 :> "polling" @@ c2 :> "webhook"

=============================================================================
