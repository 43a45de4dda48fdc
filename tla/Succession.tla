----------------------------- MODULE Succession -----------------------------
(***************************************************************************)
(* What the process promises about the configurations it serves, without   *)
(* workers, contexts, the watcher or failures by name: one configuration   *)
(* after the other; a replacement starts after its predecessor has ended;  *)
(* if it cannot be started the predecessor's configuration is tried, once; *)
(* and the process gives up only where there is nothing left to try, or    *)
(* once it has ended the service it was told to end.                       *)
(***************************************************************************)
EXTENDS Integers

CONSTANTS Configs,  \* configurations that can be served
          None      \* no configuration

VARIABLES stage,    \* "new", "starting", "up", "ending" or "over"
          current,  \* the configuration in charge, or the last one that was
          next,     \* the configuration to be started, if any
          turn      \* the number of the instance in charge or to be started

succession == <<stage, current, next, turn>>

Init == stage = "new" /\ current = None /\ next = None /\ turn = 1

Boot(c) ==
  /\ stage = "new"
  /\ stage' = "starting" /\ next' = c
  /\ UNCHANGED <<current, turn>>

\* Only now the new configuration takes over.
Up ==
  /\ stage = "starting"
  /\ stage' = "up" /\ current' = next /\ next' = None
  /\ UNCHANGED turn

Replace(c) ==
  /\ stage = "up" /\ c # current
  /\ stage' = "ending" /\ next' = c /\ turn' = turn + 1
  /\ UNCHANGED current

Finish ==
  /\ stage = "up"
  /\ stage' = "ending"
  /\ UNCHANGED <<current, next, turn>>

\* The predecessor is gone.
Start ==
  /\ stage = "ending" /\ next # None
  /\ stage' = "starting"
  /\ UNCHANGED <<current, next, turn>>

\* The replacement could not be started.
Restore ==
  /\ stage = "starting" /\ next # current /\ current # None
  /\ next' = current /\ turn' = turn + 1
  /\ UNCHANGED <<stage, current>>

\* Nothing left to try: no first configuration, one that could not be started,
\* or a predecessor's that could not be restored; or the service has ended.
GiveUp ==
  /\ stage \in {"new", "ending"} \/ (stage = "starting" /\ current \in {None, next})
  /\ stage' = "over" /\ next' = None
  /\ UNCHANGED <<current, turn>>

Next ==
  \/ \E c \in Configs : Boot(c) \/ Replace(c)
  \/ Up \/ Finish \/ Start \/ Restore \/ GiveUp

Spec == Init /\ [][Next]_succession

=============================================================================
