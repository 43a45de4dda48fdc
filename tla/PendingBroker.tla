---------------------------- MODULE PendingBroker ----------------------------
(***************************************************************************)
(* The pending broker (internal/completion/pending.go): the map from       *)
(* request IDs to the channels on which completion goroutines wait for the *)
(* human's reply.                                                          *)
(*                                                                         *)
(* register and remove run under the broker's mutex and are atomic.        *)
(* resolve is not: it deletes the entry under the mutex and sends on the   *)
(* channel after unlocking, so it is two actions, ResolveTake and          *)
(* ResolveSend, and other goroutines run in between.                       *)
(*                                                                         *)
(* A channel is made by one call of register and has capacity one.  It is  *)
(* named by the request whose call made it; a reply is named by the        *)
(* Telegram update that carries it.                                        *)
(***************************************************************************)
EXTENDS Parties

CONSTANTS Ids,   \* request IDs
          IdOf   \* the ID each request carries

ASSUME BrokerAssumption == IdOf \in [Requests -> Ids]

VARIABLES entries,  \* pendingBroker.entries: the channel registered under an ID
          inbox,    \* the reply buffered in each channel
          sending   \* the channel each resolver took from the map and will send to

brokerVars == <<entries, inbox, sending>>

BrokerTypeOK ==
  /\ entries \in [Ids -> Requests \cup {None}]
  /\ inbox \in [Requests -> Updates \cup {None}]
  /\ sending \in [Updates -> Requests \cup {None}]

BrokerInit ==
  /\ entries = [i \in Ids |-> None]
  /\ inbox = [r \in Requests |-> None]
  /\ sending = [p \in Updates |-> None]

-----------------------------------------------------------------------------

\* errDuplicateRequest: the ID is already waiting.
Duplicate(r) == entries[IdOf[r]] # None

\* register, when the ID is free: a fresh channel under the request's ID.
RegisterChannel(r) ==
  /\ ~Duplicate(r)
  /\ entries' = [entries EXCEPT ![IdOf[r]] = r]
  /\ UNCHANGED <<inbox, sending>>

\* Seeded fault: the entry is read but not deleted.
ResolveTakeKeepsEntry(p, i) ==
  /\ entries[i] # None
  /\ sending' = [sending EXCEPT ![p] = entries[i]]
  /\ UNCHANGED <<entries, inbox>>

\* resolve, under the mutex: a reply to ID i takes the channel off the map.
ResolveTake(p, i) ==
  /\ entries[i] # None
  /\ sending' = [sending EXCEPT ![p] = entries[i]]
  /\ entries' = [entries EXCEPT ![i] = None]
  /\ UNCHANGED inbox

\* Seeded fault: the reply is dropped when nobody is receiving yet.
ResolveSendDrops(p) ==
  /\ sending[p] # None
  /\ sending' = [sending EXCEPT ![p] = None]
  /\ UNCHANGED <<entries, inbox>>

\* resolve, after the mutex is released: the send on the buffered channel,
\* which blocks while the buffer is full.
ResolveSend(p) ==
  /\ sending[p] # None
  /\ inbox[sending[p]] = None
  /\ inbox' = [inbox EXCEPT ![sending[p]] = p]
  /\ sending' = [sending EXCEPT ![p] = None]
  /\ UNCHANGED entries

\* The waiter's receive from its own channel.
ReceiveReply(r) ==
  /\ inbox[r] # None
  /\ inbox' = [inbox EXCEPT ![r] = None]
  /\ UNCHANGED <<entries, sending>>

\* Seeded fault: the deferred unregister is lost.
RemoveNothing(r) == UNCHANGED brokerVars

\* remove: by ID, whoever registered it.
RemoveEntry(r) ==
  /\ entries' = [entries EXCEPT ![IdOf[r]] = None]
  /\ UNCHANGED <<inbox, sending>>

-----------------------------------------------------------------------------

\* The channel of r can still be reached: from the map, from a resolver that
\* took it, or because a reply is buffered in it.
Reachable(r) ==
  \/ entries[IdOf[r]] = r
  \/ \E p \in Updates : sending[p] = r
  \/ inbox[r] # None

\* A channel is in the hands of at most one party at a time: registered in the
\* map, held by one resolver, or filled with one reply.  Hence the send that
\* resolve makes outside the lock on the channel of capacity one (pending.go
\* line 45) never finds the buffer full, and neither the polling loop nor a
\* webhook handler ever blocks in SubmitReply.  Holds whatever IDs callers
\* choose.
SendNeverBlocks ==
  /\ \A i \in Ids : entries[i] # None =>
       /\ IdOf[entries[i]] = i
       /\ inbox[entries[i]] = None
       /\ \A p \in Updates : sending[p] # entries[i]
  /\ \A p \in Updates : sending[p] # None =>
       /\ inbox[sending[p]] = None
       /\ \A q \in Updates : sending[q] = sending[p] => q = p

=============================================================================
