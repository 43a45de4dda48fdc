------------------------------ MODULE AtLeastOnce ------------------------------
(***************************************************************************)
(* What the program promises for the messages people send to the bot,      *)
(* whatever restarts, reloads and failures come in between: a message that *)
(* is no longer kept was handled or deliberately discarded, and a message  *)
(* is handled only by somebody who was handed it while it was kept.  It    *)
(* may be handled more than once.                                          *)
(***************************************************************************)
EXTENDS Naturals

VARIABLES arrived,   \* messages 1 .. arrived have been sent
          kept,      \* the messages that wait
          inHand,    \* those handed out and not handled since
          done,      \* the messages handled at least once
          discarded  \* the messages thrown away

queue == <<arrived, kept, inHand, done, discarded>>

Init == arrived = 0 /\ kept = {} /\ inHand = {} /\ done = {} /\ discarded = {}

Arrive ==
  /\ arrived' = arrived + 1
  /\ kept' = kept \cup {arrived + 1}
  /\ UNCHANGED <<inHand, done, discarded>>

\* Kept messages are handed out, and handed ones given back or lost; only what was
\* handled is forgotten.
HandOut ==
  /\ \E S \in SUBSET (kept \cap done) : kept' = kept \ S
  /\ inHand' \subseteq inHand \cup kept'
  /\ UNCHANGED <<arrived, done, discarded>>

\* Two may have been handed the same message.
Handle ==
  /\ \E u \in inHand : done' = done \cup {u} /\ inHand' \in {inHand, inHand \ {u}}
  /\ UNCHANGED <<arrived, kept, discarded>>

DiscardAll ==
  /\ kept' = {}
  /\ discarded' = discarded \cup kept
  /\ UNCHANGED <<arrived, inHand, done>>

Next == Arrive \/ HandOut \/ Handle \/ DiscardAll

Spec == Init /\ [][Next]_queue

=============================================================================
