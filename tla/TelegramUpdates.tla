---------------------------- MODULE TelegramUpdates ----------------------------
(***************************************************************************)
(* How the bot's updates reach handleUpdateContext: Configure and Receive  *)
(* of channel/telegram/reply.go with the polling loop, and the webhook of  *)
(* webhook.go, over the instances that reloads, rollbacks and restarts of  *)
(* the process put one after the other (Runtime: never two at a time).     *)
(*                                                                         *)
(* Telegram is modelled from how the code uses it: it numbers updates in   *)
(* the order they come, keeps each until a getUpdates with a higher offset *)
(* or a 2xx answer of the webhook, or until it is told to drop them all.   *)
(*                                                                         *)
(* pc is where the instance stands: configure, receive (in getUpdates, or  *)
(* serving the webhook), handle (in the loop over a batch), retry, and     *)
(* stopped when Receive has returned.                                      *)
(***************************************************************************)
EXTENDS Integers, FiniteSets

CONSTANTS Settings,      \* configurations: update mode and drop_pending_updates
          MaxUpdates,    \* bound: updates
          BatchLimit,    \* updates in one answer of getUpdates
          ResponseLimit, \* updates that fit into what call reads of an answer
          MaxStarts,     \* bound: instances
          MaxFailures    \* bound: failures of calls

Modes == {"polling", "webhook"}

ASSUME UpdatesAssumption ==
  /\ Settings # {} /\ Settings \subseteq [mode : Modes, drop : BOOLEAN]
  /\ MaxUpdates \in Nat /\ MaxStarts \in Nat \ {0} /\ MaxFailures \in Nat
  /\ BatchLimit \in Nat \ {0} /\ ResponseLimit \in Nat

Ids == 1 .. MaxUpdates

VARIABLES
  \* Telegram
  sent,     \* updates 1 .. sent exist
  gone,     \* updates that Telegram no longer keeps
  dropped,  \* those of them it was told to drop
  \* the instance
  setting,  \* its configuration
  pc,       \* where it stands
  live,     \* its context has not ended
  offset,   \* offset of runPolling
  batch,    \* updates of the last answer that are still to be handled
  posted,   \* updates that handlers of the webhook are to handle
  serving,  \* updates they handled and have not answered
  straggling, \* updates that handlers of closed servers have read
  \* history
  handled,  \* updates handled by any instance
  times,    \* how often the present instance took each update from a batch
  \* bounds
  starts, failures

telegram == <<sent, gone, dropped>>
instance == <<setting, pc, live, offset, batch, posted, serving, straggling>>
history == <<handled, times>>
vars == <<telegram, instance, history, starts, failures>>

TypeOK ==
  /\ sent \in 0 .. MaxUpdates
  /\ gone \subseteq 1 .. sent /\ dropped \subseteq gone
  /\ setting \in Settings
  /\ pc \in {"configure", "receive", "handle", "retry", "stopped"}
  /\ live \in BOOLEAN
  /\ offset \in 0 .. sent + 1
  /\ batch \subseteq 1 .. sent
  /\ posted \subseteq 1 .. sent /\ serving \subseteq 1 .. sent
  /\ straggling \subseteq 1 .. sent
  /\ handled \subseteq 1 .. sent
  /\ times \in [Ids -> Nat]
  /\ starts \in 1 .. MaxStarts /\ failures \in 0 .. MaxFailures

Never == [u \in Ids |-> 0]

\* The first instance; messages may wait for it already, but then they were sent
\* after Init as far as the properties can tell.
Init ==
  /\ sent = 0 /\ gone = {} /\ dropped = {}
  /\ setting \in Settings /\ pc = "configure" /\ live = TRUE
  /\ offset = 0 /\ batch = {} /\ posted = {} /\ serving = {} /\ straggling = {}
  /\ handled = {} /\ times = Never
  /\ starts = 1 /\ failures = 0

Pending == (1 .. sent) \ gone

Polling == setting.mode = "polling"

Failure == failures < MaxFailures /\ failures' = failures + 1

\* A call fails, as it may for free once the context has ended.
CallFails == Failure \/ (~live /\ UNCHANGED failures)

-----------------------------------------------------------------------------
(* Configure                                                               *)

\* deleteWebhook or setWebhook takes effect at Telegram.
Register ==
  IF setting.drop
  THEN gone' = 1 .. sent /\ dropped' = dropped \cup Pending
  ELSE UNCHANGED <<gone, dropped>>

\* A call that failed, also because the context ended, or was not acknowledged
\* may have taken effect; start then gives this instance up.
Configure ==
  /\ pc = "configure"
  /\ \/ Register /\ live /\ pc' = "receive" /\ UNCHANGED failures
     \/ /\ Register \/ UNCHANGED <<gone, dropped>>
        /\ CallFails
        /\ pc' = "stopped"
  /\ UNCHANGED <<sent, setting, live, offset, batch, posted, serving, straggling,
                 history, starts>>

-----------------------------------------------------------------------------
(* runPolling                                                              *)

Waiting == {u \in Pending : u >= offset}

\* getUpdates answers with the oldest updates from offset on ...
Oldest == {u \in Waiting : Cardinality({v \in Waiting : v < u}) < BatchLimit}

\* ... and takes the offset as a receipt for all below.
Confirm == gone' = gone \cup {u \in Pending : u < offset}

\* An answer longer than call reads is not JSON any more.
Readable == Cardinality(Oldest) <= ResponseLimit

\* An empty batch is a long poll that ran out.
GetUpdates ==
  /\ pc = "receive" /\ Polling
  /\ Confirm /\ Readable
  /\ batch' = Oldest
  /\ pc' = IF Oldest = {} THEN "receive" ELSE "handle"
  /\ UNCHANGED <<sent, dropped, setting, live, offset, posted, serving, straggling,
                 history, starts, failures>>

\* The call fails: on its way there or back, or because its answer is too long.
\* A context that has ended is the end of the loop, anything else a pause.
GetUpdatesFails ==
  /\ pc = "receive" /\ Polling
  /\ \/ (Confirm \/ UNCHANGED gone) /\ CallFails
     \/ Confirm /\ ~Readable /\ UNCHANGED failures
  /\ pc' = IF live THEN "retry" ELSE "stopped"
  /\ UNCHANGED <<sent, dropped, setting, live, offset, batch, posted, serving,
                 straggling, history, starts>>

\* Seeded fault: the pause ends with the context only.
NeverRetries == ~live

PauseOver == TRUE

\* waitForRetry
Retry ==
  /\ pc = "retry" /\ PauseOver
  /\ \/ pc' = "receive"
     \/ ~live /\ pc' = "stopped"
  /\ UNCHANGED <<telegram, setting, live, offset, batch, posted, serving, straggling,
                 history, starts, failures>>

\* Seeded fault: an update is skipped once the context has ended.
HandleWhileLive(u) == handled' = IF live THEN handled \cup {u} ELSE handled

\* handleUpdateContext.  What it does is in Completion and TelegramChannel; an
\* error is logged and the update counts as handled.
HandleUpdate(u) == handled' = handled \cup {u}

\* Seeded fault: the newest update first.
NewestFirst(u) == \A v \in batch : v <= u

\* The order Telegram has put them in.
InTurn(u) == \A v \in batch : u <= v

\* Seeded fault: the offset is the update's own number.
SameOffset(u) == IF u >= offset THEN u ELSE offset

OffsetAfter(u) == IF u >= offset THEN u + 1 ELSE offset

\* The context is not looked at between the updates of a batch.
HandleNext ==
  /\ pc = "handle"
  /\ \E u \in batch :
       /\ InTurn(u)
       /\ offset' = OffsetAfter(u)
       /\ HandleUpdate(u)
       /\ times' = [times EXCEPT ![u] = @ + 1]
       /\ batch' = batch \ {u}
       /\ pc' = IF batch = {u} THEN "receive" ELSE "handle"
  /\ UNCHANGED <<telegram, setting, live, posted, serving, straggling, starts, failures>>

-----------------------------------------------------------------------------
(* The webhook                                                             *)

\* Telegram posts an update again as long as it has no answer; several handlers
\* may run.
WebhookUpdate(u) ==
  /\ pc = "receive" /\ ~Polling
  /\ u \in Pending \ (posted \cup serving)
  /\ posted' = posted \cup {u}
  /\ UNCHANGED <<telegram, setting, pc, live, offset, batch, serving, straggling,
                 history, starts, failures>>

\* ServeHTTP handles the update before it answers, also while the server shuts
\* down, or the connection breaks before it has read the update.
WebhookHandle(u) ==
  /\ u \in posted
  /\ posted' = posted \ {u}
  /\ \/ HandleUpdate(u) /\ serving' = serving \cup {u} /\ UNCHANGED failures
     \/ UNCHANGED <<handled, serving>> /\ CallFails
  /\ UNCHANGED <<telegram, setting, pc, live, offset, batch, straggling, times, starts>>

\* 204, also for an update that could not be used.  The answer is lost when the
\* connection breaks, or is closed after the shutdown timeout.
WebhookAnswer(u) ==
  /\ u \in serving
  /\ serving' = serving \ {u}
  /\ \/ gone' = gone \cup {u} /\ UNCHANGED failures
     \/ UNCHANGED gone /\ CallFails
  /\ UNCHANGED <<sent, dropped, setting, pc, live, offset, batch, posted, straggling,
                 history, starts>>

\* A handler outlives its server, which was closed after the shutdown timeout: it
\* handles the update it had read, and nobody gets its answer.
Straggle(u) ==
  /\ u \in straggling
  /\ HandleUpdate(u)
  /\ straggling' = straggling \ {u}
  /\ UNCHANGED <<telegram, setting, pc, live, offset, batch, posted, serving, times,
                 starts, failures>>

\* Receive waits for the context only.
WebhookEnds ==
  /\ pc = "receive" /\ ~Polling /\ ~live
  /\ pc' = "stopped"
  /\ UNCHANGED <<telegram, setting, live, offset, batch, posted, serving, straggling,
                 history, starts, failures>>

-----------------------------------------------------------------------------
(* The environment and the runtime                                         *)

\* Somebody writes to the bot.
Send ==
  /\ sent < MaxUpdates /\ sent' = sent + 1
  /\ UNCHANGED <<gone, dropped, instance, history, starts, failures>>

\* A reload or the signal.
ContextEnds ==
  /\ live /\ pc # "stopped" /\ live' = FALSE
  /\ UNCHANGED <<telegram, setting, pc, offset, batch, posted, serving, straggling,
                 history, starts, failures>>

\* The process dies.
Crash ==
  /\ pc # "stopped" /\ Failure
  /\ pc' = "stopped" /\ live' = FALSE
  /\ batch' = {} /\ posted' = {} /\ serving' = {} /\ straggling' = {}
  /\ UNCHANGED <<telegram, setting, offset, history, starts>>

\* The next instance, with the same or another configuration, knows nothing of
\* the one before it.  Its predecessor's server was given time to finish and then
\* closed its connections, but did not wait for handlers that had read an update;
\* only a process that ends takes them along.
NextInstance ==
  /\ pc = "stopped" /\ starts < MaxStarts
  /\ setting' \in Settings
  /\ pc' = "configure" /\ live' = TRUE /\ offset' = 0 /\ batch' = {} /\ posted' = {}
  /\ straggling' \in SUBSET (posted \cup straggling)
  /\ times' = Never
  /\ starts' = starts + 1
  /\ UNCHANGED <<telegram, serving, handled, failures>>

\* No further instance.
Down == pc = "stopped" /\ starts = MaxStarts

Rest == Down /\ UNCHANGED vars

-----------------------------------------------------------------------------
Worker == Configure \/ GetUpdates \/ GetUpdatesFails \/ Retry \/ HandleNext
          \/ WebhookEnds

Next ==
  \/ Worker
  \/ \E u \in Ids : \/ WebhookUpdate(u) \/ WebhookHandle(u)
                    \/ WebhookAnswer(u) \/ Straggle(u)
  \/ Send \/ ContextEnds \/ Crash \/ NextInstance \/ Rest

Spec == Init /\ [][Next]_vars

\* The goroutine runs, handlers answer, Telegram posts what it keeps, and someone
\* starts the next instance.  Failures are bounded, contexts need not end, and a
\* handler that outlives its server may come to nothing.
FairSpec ==
  /\ Spec
  /\ WF_vars(Worker) /\ WF_vars(NextInstance)
  /\ \A u \in Ids :
       WF_vars(WebhookUpdate(u)) /\ WF_vars(WebhookHandle(u)) /\ WF_vars(WebhookAnswer(u))

-----------------------------------------------------------------------------
(* Properties                                                              *)

Queue == INSTANCE AtLeastOnce WITH
  arrived <- sent, kept <- Pending, inHand <- batch \cup posted \cup straggling,
  done <- handled, discarded <- dropped

\* Telegram is never told to forget an update that was not handled, unless by
\* drop_pending_updates, and an update is handled only by an instance that Telegram
\* gave it to while it kept it: the offset, lost answers, reloads in the middle of a
\* batch, handlers that outlive their server and crashes notwithstanding.
KeepsPromise == Queue!Spec

\* One polling instance handles no update twice, though its offset is confirmed
\* one call late and calls are repeated.
OnceWhilePolling == Polling => \A u \in Ids : times[u] <= 1

\* A poller takes updates up in the order they were sent: it handles none while an
\* older one has neither been handled nor dropped.
HandledInOrder ==
  [][\A u \in Ids : times'[u] > times[u] =>
       1 .. u \subseteq handled' \cup dropped]_vars

\* Whatever is sent is handled by some instance, in spite of lost calls, reloads
\* and crashes, unless it is dropped or the service stays down.
EveryUpdateIsHandled ==
  \A u \in Ids : u <= sent ~> u \in handled \cup dropped \/ Down

\* "Receive consumes Telegram updates until ctx is canceled" (reply.go line 34):
\* an update that Telegram keeps is not kept for ever by a live instance.
ReceiveConsumes == \A u \in Ids : u \in Pending ~> u \notin Pending \/ ~live

=============================================================================
