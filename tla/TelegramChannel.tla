--------------------------- MODULE TelegramChannel ---------------------------
(***************************************************************************)
(* What the Telegram channel (internal/channel/telegram) keeps between its *)
(* calls: which tasks the human can already see, and the correlation store *)
(* (correlation.go), which maps the message that carried the last part of  *)
(* a task to the task's request.  A correlation is named by its request.   *)
(*                                                                         *)
(* Deliver is not atomic: Telegram shows a part to the human as soon as    *)
(* sendMessage succeeds, and the correlation is registered after the last  *)
(* part, so an answer can come before the correlation, or after a part was *)
(* shown and a later one failed.  Every part carries the request ID in its *)
(* text, and an answer whose correlation is missing is resolved by it.     *)
(***************************************************************************)
EXTENDS Parties

VARIABLES visible,    \* the requests of which the human sees some part
          correlated  \* the requests with an entry in correlationStore.requests

channelVars == <<visible, correlated>>

ChannelTypeOK ==
  /\ visible \subseteq Requests
  /\ correlated \subseteq Requests

ChannelInit ==
  /\ visible = {}
  /\ correlated = {}

\* sendMessage succeeded for a part of the task.  Telegram keeps the message.
ShowTask(r) ==
  /\ visible' = visible \cup {r}
  /\ UNCHANGED correlated

\* correlationStore.register, after the last part.
Correlate(r) ==
  /\ r \in visible
  /\ correlated' = correlated \cup {r}
  /\ UNCHANGED visible

\* correlationStore.consume: an answer to the last part takes the correlation
\* away if it is there; an answer to an earlier part has none.
Consume(r, lastPart) ==
  /\ r \in visible
  /\ correlated' = IF lastPart THEN correlated \ {r} ELSE correlated
  /\ UNCHANGED visible

\* Client.Forget
Forget(r) ==
  /\ correlated' = correlated \ {r}
  /\ UNCHANGED visible

=============================================================================
