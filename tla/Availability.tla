---------------------------- MODULE Availability ----------------------------
(***************************************************************************)
(* The availability store (internal/availability/store.go): whether each   *)
(* configured human may be given work, and how many requests in a row they *)
(* left unanswered.  Every method of the store runs under its mutex, so    *)
(* each is one atomic action here.                                         *)
(*                                                                         *)
(* A user stands for one entry of users together with its channel          *)
(* endpoint: NewStore refuses two users that share an endpoint, so an      *)
(* endpoint names its user.                                                *)
(***************************************************************************)
EXTENDS Parties

CONSTANTS Enabled,            \* Config.Enabled: auto-offline is switched on
          AfterMissedReplies  \* Config.AfterMissedReplies

ASSUME AvailabilityAssumption ==
  /\ Enabled \in BOOLEAN
  /\ AfterMissedReplies \in Nat \ {0}

VARIABLES online,  \* userState.online of every user
          missed   \* userState.missedReplies of every user

availabilityVars == <<online, missed>>

AvailabilityTypeOK ==
  /\ online \in [Users -> BOOLEAN]
  /\ missed \in [Users -> Nat]

AvailabilityInit ==
  /\ online = [u \in Users |-> TRUE]
  /\ missed = [u \in Users |-> 0]

-----------------------------------------------------------------------------

\* The miss that is about to be recorded for u is the one that takes u
\* offline: Transition.BecameOffline of RecordMissedReply.
BecomesOffline(u) ==
  Enabled /\ online[u] /\ missed[u] + 1 >= AfterMissedReplies

\* A miss is counted only while the feature is on and the user is online;
\* otherwise the store is left as it is.
RecordMissedReply(u) ==
  IF Enabled /\ online[u]
  THEN /\ missed' = [missed EXCEPT ![u] = @ + 1]
       /\ online' = [online EXCEPT ![u] = ~BecomesOffline(u)]
  ELSE UNCHANGED availabilityVars

\* Seeded fault: an answer also brings the human back online.
RecordReplyRestores(u) ==
  /\ missed' = [missed EXCEPT ![u] = 0]
  /\ online' = [online EXCEPT ![u] = TRUE]

\* An answer ends the run of misses; it does not bring the user back online.
RecordReply(u) ==
  /\ missed' = [missed EXCEPT ![u] = 0]
  /\ UNCHANGED online

\* The /online command of the user.
SetOnline(u) ==
  /\ online' = [online EXCEPT ![u] = TRUE]
  /\ missed' = [missed EXCEPT ![u] = 0]

AvailabilityNext ==
  \E u \in Users : RecordMissedReply(u) \/ RecordReply(u) \/ SetOnline(u)

AvailabilitySpec ==
  AvailabilityInit /\ [][AvailabilityNext]_availabilityVars

-----------------------------------------------------------------------------

\* A human who may be given work is strictly below the miss threshold, and a
\* counter never passes it: the miss that reaches the threshold is the one
\* that takes the human offline (RecordMissedReply), and both ways back,
\* RecordReply and SetOnline, leave the counter at zero.
OnlineBelowThreshold ==
  \A u \in Users : /\ missed[u] <= AfterMissedReplies
                   /\ online[u] => missed[u] < AfterMissedReplies

=============================================================================
