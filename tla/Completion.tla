----------------------------- MODULE Completion -----------------------------
(***************************************************************************)
(* The completion service (internal/completion/service.go) with the stores *)
(* it works on: one process per call of execute, one per incoming Telegram *)
(* update, the goroutines that send offline notices, and an environment of *)
(* callers, deadlines, reloads and a human who answers when they like.     *)
(*                                                                         *)
(* pc[r] is where the goroutine of request r stands.  One action is what   *)
(* the goroutine does between two reads or writes that another goroutine   *)
(* could tell apart:                                                       *)
(*                                                                         *)
(*   accept    validateRequest, first look at the context                  *)
(*   admit     second look, Router.Resolve, IsOnline                       *)
(*   register  requestCtx, pendingBroker.register                          *)
(*   deliver   Deliver                                                     *)
(*   reasoning the reasoning chunk of a streaming request                  *)
(*   await     awaitReply                                                  *)
(*   cause     an error is there: context.Cause is read                    *)
(*   check     then ctx.Err is read and the error is classified            *)
(*   miss      RecordMissedReply, notifyOffline                            *)
(*   recheck   IsOnline is read again                                      *)
(*   fallback  generateFallback                                            *)
(*   reply     a reply was received: RecordReply                           *)
(*   respond   the observation "responded" is recorded                     *)
(*   emit      the answer chunks of a streaming request                    *)
(*   forget    deferred Forget                                             *)
(*   leave     deferred unregister                                         *)
(*   done      execute has returned                                        *)
(***************************************************************************)
EXTENDS Availability, PendingBroker, Stats, TelegramChannel, FiniteSets

CONSTANTS Malformed,    \* the requests validateRequest refuses
          TargetOf,     \* the human a request's model routes to, or None
          Streaming,    \* the requests made through Stream
          Causes,       \* how a caller's context can end: "canceled", "reload"
          LlmFallback,  \* an LLM precedes the template in the fallback chain
          Polling       \* updates are polled, hence handled one at a time

ASSUME CompletionAssumption ==
  /\ Malformed \subseteq Requests
  /\ Streaming \subseteq Requests
  /\ TargetOf \in [Requests -> Users \cup {None}]
  /\ Causes \subseteq {"canceled", "reload"}
  /\ LlmFallback \in BOOLEAN
  /\ Polling \in BOOLEAN

VARIABLES
  pc,       \* where execute stands, per request
  ctx,      \* the caller's context: "live", or the cause that ended it
  reqCtx,   \* requestCtx: "none" before it exists, "live", or its cause
  err,      \* where the error being classified came from
  outcome,  \* the observation execute recorded, if any
  result,   \* what execute returns
  answer,   \* the reply execute took from its channel
  notices,  \* the requests whose offline notice is being sent
  ustate,   \* where the handler of an update stands
  ureq      \* the request whose message an update answers

requestVars == <<pc, ctx, reqCtx, err, outcome, result, answer>>
updateVars == <<ustate, ureq>>
vars == <<availabilityVars, brokerVars, tally, channelVars,
          requestVars, notices, updateVars>>

Labels == {"accept", "admit", "register", "deliver", "reasoning", "await",
           "cause", "check", "miss", "recheck", "fallback", "reply",
           "respond", "emit", "forget", "leave", "done"}

\* The labels at which execute waits for the human with its channel open.
Waiting == {"deliver", "reasoning", "await"}

Results == {"invalid", "not_found", "duplicate", "delivery_failed", "timeout",
            "canceled", "reload", "emit_failed", "fallback_failed",
            "fallback", "answered"}

HandlerStates ==
  {"unsent", "resolving", "sending", "accepted", "rejected", "command"}

\* The calls of execute whose errors are classified.
Errors == {"deliver", "await", "fallback"}

ASSUME NoneAssumption == None \notin Outcomes \cup Results \cup Errors

TypeOK ==
  /\ AvailabilityTypeOK
  /\ BrokerTypeOK
  /\ StatsTypeOK
  /\ ChannelTypeOK
  /\ pc \in [Requests -> Labels]
  /\ ctx \in [Requests -> {"live"} \cup Causes]
  /\ reqCtx \in [Requests -> {"none", "live", "deadline"} \cup Causes]
  /\ err \in [Requests -> Errors \cup {None}]
  /\ outcome \in [Requests -> Outcomes \cup {None}]
  /\ result \in [Requests -> Results \cup {None}]
  /\ answer \in [Requests -> Updates \cup {None}]
  /\ notices \subseteq Requests
  /\ ustate \in [Updates -> HandlerStates]
  /\ ureq \in [Updates -> Requests \cup {None}]

Init ==
  /\ AvailabilityInit /\ BrokerInit /\ StatsInit /\ ChannelInit
  /\ pc = [r \in Requests |-> "accept"]
  /\ ctx = [r \in Requests |-> "live"]
  /\ reqCtx = [r \in Requests |-> "none"]
  /\ err = [r \in Requests |-> None]
  /\ outcome = [r \in Requests |-> None]
  /\ result = [r \in Requests |-> None]
  /\ answer = [r \in Requests |-> None]
  /\ notices = {}
  /\ ustate = [p \in Updates |-> "unsent"]
  /\ ureq = [p \in Updates |-> None]

-----------------------------------------------------------------------------
(* execute: admission                                                      *)

Human(r) == TargetOf[r]

Goto(r, label) == pc' = [pc EXCEPT ![r] = label]

\* The deferred calls of execute that are pending when it returns: none before
\* the request is registered, unregister after it, Forget first when Deliver
\* succeeded.
Cleanup(r) ==
  IF reqCtx[r] = "none" THEN "done"
  ELSE IF err[r] = "deliver" THEN "leave"
  ELSE "forget"

Return(r, res) ==
  /\ result' = [result EXCEPT ![r] = res]
  /\ Goto(r, Cleanup(r))

\* s.record: the terminal observation of r.
Observe(r, o) ==
  /\ Record(Human(r), o)
  /\ outcome' = [outcome EXCEPT ![r] = o]

\* validateRequest, then the first look at the caller's context, which is for
\* its cause only.
Accept(r) ==
  /\ pc[r] = "accept"
  /\ \/ r \in Malformed /\ Return(r, "invalid")
     \/ r \notin Malformed /\ ctx[r] = "reload" /\ Return(r, "reload")
     \/ /\ r \notin Malformed /\ ctx[r] # "reload"
        /\ Goto(r, "admit")
        /\ UNCHANGED result
  /\ UNCHANGED <<availabilityVars, brokerVars, tally, channelVars,
                 ctx, reqCtx, err, outcome, answer, notices, updateVars>>

\* The second look at the context, routing, and the human's availability.
Admit(r) ==
  /\ pc[r] = "admit"
  /\ \/ ctx[r] # "live" /\ Return(r, "canceled")
     \/ ctx[r] = "live" /\ Human(r) = None /\ Return(r, "not_found")
     \/ /\ ctx[r] = "live" /\ Human(r) # None
        /\ Goto(r, IF online[Human(r)] THEN "register" ELSE "fallback")
        /\ UNCHANGED result
  /\ UNCHANGED <<availabilityVars, brokerVars, tally, channelVars,
                 ctx, reqCtx, err, outcome, answer, notices, updateVars>>

\* requestCtx is derived from the caller's context, which may have ended since;
\* a duplicate ID is refused before any call is deferred but cancel.
Register(r) ==
  /\ pc[r] = "register"
  /\ reqCtx' = [reqCtx EXCEPT ![r] = ctx[r]]
  /\ \/ Duplicate(r) /\ Return(r, "duplicate") /\ UNCHANGED brokerVars
     \/ RegisterChannel(r) /\ Goto(r, "deliver") /\ UNCHANGED result
  /\ UNCHANGED <<availabilityVars, tally, channelVars,
                 ctx, err, outcome, answer, notices, updateVars>>

-----------------------------------------------------------------------------
(* execute: delivery and waiting                                           *)

\* One more part of the task reaches the human.
DeliverPart(r) ==
  /\ pc[r] = "deliver" /\ r \notin visible
  /\ ShowTask(r)
  /\ UNCHANGED <<availabilityVars, brokerVars, tally,
                 requestVars, notices, updateVars>>

\* The last part was sent: the correlation is in place before Deliver returns.
DeliverDone(r) ==
  /\ pc[r] = "deliver"
  /\ Correlate(r)
  /\ Goto(r, IF r \in Streaming THEN "reasoning" ELSE "await")
  /\ UNCHANGED <<availabilityVars, brokerVars, tally, ctx, reqCtx, err,
                 outcome, result, answer, notices, updateVars>>

\* Deliver failed: Telegram refused, did not answer, or requestCtx ended.  It
\* can fail before the human saw anything, between two parts, and after the
\* last part when only its response was lost.
DeliverFailed(r) ==
  /\ pc[r] = "deliver"
  /\ err' = [err EXCEPT ![r] = "deliver"]
  /\ Goto(r, "cause")
  /\ UNCHANGED <<availabilityVars, brokerVars, tally, channelVars, ctx,
                 reqCtx, outcome, result, answer, notices, updateVars>>

\* The emitter hands a chunk to the HTTP handler, or fails once the caller's
\* context ended; both are possible when it did.
EmitReasoning(r) ==
  /\ pc[r] = "reasoning"
  /\ \/ Goto(r, "await") /\ UNCHANGED <<tally, outcome, result>>
     \/ /\ ctx[r] # "live"
        /\ Observe(r, "canceled")
        /\ Return(r, "emit_failed")
  /\ UNCHANGED <<availabilityVars, brokerVars, channelVars, ctx, reqCtx, err,
                 answer, notices, updateVars>>

\* Seeded fault: the receive does not wait for the deadline.
EndedAtOnce(c) == c # "none"

Ended(c) == c \notin {"none", "live"}

\* awaitReply: the reply in the channel wins even when requestCtx has ended.
AwaitReply(r) ==
  /\ pc[r] = "await"
  /\ \/ /\ ReceiveReply(r)
        /\ answer' = [answer EXCEPT ![r] = inbox[r]]
        /\ Goto(r, "reply")
        /\ UNCHANGED err
     \/ /\ inbox[r] = None /\ Ended(reqCtx[r])
        /\ err' = [err EXCEPT ![r] = "await"]
        /\ Goto(r, "cause")
        /\ UNCHANGED <<brokerVars, answer>>
  /\ UNCHANGED <<availabilityVars, tally, channelVars, ctx, reqCtx, outcome,
                 result, notices, updateVars>>

-----------------------------------------------------------------------------
(* execute: classification of an error                                     *)

\* Seeded fault: a failed fallback records an outcome too.
FailAlwaysRecords(r, o, res) == Return(r, res) /\ Observe(r, o)

\* An outcome is recorded for the errors of Deliver and awaitReply; the errors
\* of generateFallback go through mapFallbackError, which records nothing.
Fail(r, o, res) ==
  /\ Return(r, res)
  /\ IF err[r] = "fallback" THEN UNCHANGED <<tally, outcome>>
                            ELSE Observe(r, o)

\* The context whose cause is looked at: requestCtx, or the caller's context
\* in mapFallbackError.
CauseOf(r) == IF err[r] = "fallback" THEN ctx[r] ELSE reqCtx[r]

\* Seeded fault: the caller's own context is not looked at.
CallerIgnored(r) == FALSE

CallerGone(r) == ctx[r] # "live"

\* First context.Cause ...
CheckCause(r) ==
  /\ pc[r] = "cause"
  /\ \/ CauseOf(r) = "reload" /\ Fail(r, "canceled", "reload")
     \/ /\ CauseOf(r) # "reload"
        /\ Goto(r, "check")
        /\ UNCHANGED <<tally, outcome, result>>
  /\ UNCHANGED <<availabilityVars, brokerVars, channelVars, ctx, reqCtx, err,
                 answer, notices, updateVars>>

\* ... then ctx.Err; the caller's context may end between the two reads.  With
\* the caller's context live, an error of awaitReply is the deadline: the
\* branch at service.go lines 229-230 cannot be reached.
CheckContext(r) ==
  /\ pc[r] = "check"
  /\ \/ CallerGone(r) /\ Fail(r, "canceled", "canceled")
     \/ /\ ~CallerGone(r) /\ err[r] = "deliver"
        /\ Fail(r, "delivery_failed", "delivery_failed")
     \/ /\ ~CallerGone(r) /\ err[r] = "fallback"
        /\ Fail(r, "canceled", "fallback_failed")
     \/ /\ ~CallerGone(r) /\ err[r] = "await"
        /\ Observe(r, "timed_out")
        /\ Goto(r, "miss")
        /\ UNCHANGED result
  /\ UNCHANGED <<availabilityVars, brokerVars, channelVars, ctx, reqCtx, err,
                 answer, notices, updateVars>>

\* RecordMissedReply, and the notice when this miss takes the human offline.
Miss(r) ==
  /\ pc[r] = "miss"
  /\ RecordMissedReply(Human(r))
  /\ notices' = IF BecomesOffline(Human(r)) THEN notices \cup {r} ELSE notices
  /\ Goto(r, "recheck")
  /\ UNCHANGED <<brokerVars, tally, channelVars, ctx, reqCtx, err, outcome,
                 result, answer, updateVars>>

\* The availability is read anew: another request or /online may have changed
\* it since the miss.
Recheck(r) ==
  /\ pc[r] = "recheck"
  /\ IF online[Human(r)]
     THEN Return(r, "timeout")
     ELSE Goto(r, "fallback") /\ UNCHANGED result
  /\ UNCHANGED <<availabilityVars, brokerVars, tally, channelVars, ctx,
                 reqCtx, err, outcome, answer, notices, updateVars>>

-----------------------------------------------------------------------------
(* execute: fallback, answer and deferred calls                            *)

\* The fallback chain ends in a template, which fails only when the caller's
\* context has ended; a stream of the LLM that broke off after its first chunk
\* is not repeated by the template and fails as well.
Fallback(r) ==
  /\ pc[r] = "fallback"
  /\ \/ /\ ctx[r] = "live"
        /\ Return(r, "fallback")
        /\ UNCHANGED err
     \/ /\ ctx[r] # "live" \/ (LlmFallback /\ r \in Streaming)
        /\ err' = [err EXCEPT ![r] = "fallback"]
        /\ Goto(r, "cause")
        /\ UNCHANGED result
  /\ UNCHANGED <<availabilityVars, brokerVars, tally, channelVars, ctx,
                 reqCtx, outcome, answer, notices, updateVars>>

ReplyReceived(r) ==
  /\ pc[r] = "reply"
  /\ RecordReply(Human(r))
  /\ Goto(r, "respond")
  /\ UNCHANGED <<brokerVars, tally, channelVars, ctx, reqCtx, err, outcome,
                 result, answer, notices, updateVars>>

Respond(r) ==
  /\ pc[r] = "respond"
  /\ Observe(r, "responded")
  /\ IF r \in Streaming
     THEN Goto(r, "emit") /\ UNCHANGED result
     ELSE Return(r, "answered")
  /\ UNCHANGED <<availabilityVars, brokerVars, channelVars, ctx, reqCtx, err,
                 answer, notices, updateVars>>

\* Seeded fault: an answer that could not be emitted is recorded again.
EmitAnswerRecords(r) ==
  /\ pc[r] = "emit"
  /\ \/ Return(r, "answered") /\ UNCHANGED <<tally, outcome>>
     \/ ctx[r] # "live" /\ Return(r, "emit_failed") /\ Observe(r, "canceled")
  /\ UNCHANGED <<availabilityVars, brokerVars, channelVars, ctx, reqCtx, err,
                 answer, notices, updateVars>>

EmitAnswer(r) ==
  /\ pc[r] = "emit"
  /\ \/ Return(r, "answered")
     \/ ctx[r] # "live" /\ Return(r, "emit_failed")
  /\ UNCHANGED <<availabilityVars, brokerVars, tally, channelVars, ctx,
                 reqCtx, err, outcome, answer, notices, updateVars>>

ForgetDelivery(r) ==
  /\ pc[r] = "forget"
  /\ Forget(r)
  /\ Goto(r, "leave")
  /\ UNCHANGED <<availabilityVars, brokerVars, tally, ctx, reqCtx, err,
                 outcome, result, answer, notices, updateVars>>

Unregister(r) ==
  /\ pc[r] = "leave"
  /\ RemoveEntry(r)
  /\ Goto(r, "done")
  /\ UNCHANGED <<availabilityVars, tally, channelVars, ctx, reqCtx, err,
                 outcome, result, answer, notices, updateVars>>

\* The notifyOffline goroutine: best effort, with a deadline of its own, and
\* without any effect on the request.
Notify(r) ==
  /\ r \in notices
  /\ notices' = notices \ {r}
  /\ UNCHANGED <<availabilityVars, brokerVars, tally, channelVars,
                 requestVars, updateVars>>

-----------------------------------------------------------------------------
(* Incoming updates: handleUpdateContext and SubmitReply                   *)

Handle(p, state) == ustate' = [ustate EXCEPT ![p] = state]

\* The polling loop handles one update after the other; webhook calls run
\* concurrently.
MayHandle == Polling => \A p \in Updates : ustate[p] \notin {"resolving", "sending"}

\* The human answers a task they see; the handler consumes the correlation,
\* or falls back to the request ID in the text they answered.
ReplyArrives(p, r) ==
  /\ ustate[p] = "unsent" /\ MayHandle
  /\ \E lastPart \in BOOLEAN : Consume(r, lastPart)
  /\ ureq' = [ureq EXCEPT ![p] = r]
  /\ Handle(p, "resolving")
  /\ UNCHANGED <<availabilityVars, brokerVars, tally, requestVars, notices>>

\* Seeded fault: an answer is attributed to whichever request is waiting.
AnyWaitingID(p) ==
  IF \E i \in Ids : entries[i] # None
  THEN CHOOSE i \in Ids : entries[i] # None
  ELSE IdOf[ureq[p]]

\* The request ID the handler found, in the correlation or in the task text.
AnsweredID(p) == IdOf[ureq[p]]

\* SubmitReply: taken off the broker, or refused as unknown.
Submit(p) ==
  /\ ustate[p] = "resolving"
  /\ LET i == AnsweredID(p) IN
       \/ ResolveTake(p, i) /\ Handle(p, "sending")
       \/ entries[i] = None /\ Handle(p, "rejected") /\ UNCHANGED brokerVars
  /\ UNCHANGED <<availabilityVars, tally, channelVars, requestVars, notices,
                 ureq>>

\* The send on the channel, after which SubmitReply returns nil.
SendReply(p) ==
  /\ ustate[p] = "sending"
  /\ ResolveSend(p)
  /\ Handle(p, "accepted")
  /\ UNCHANGED <<availabilityVars, tally, channelVars, requestVars, notices,
                 ureq>>

\* The human sends /online; the confirmation is best effort.
OnlineCommand(p, u) ==
  /\ ustate[p] = "unsent" /\ MayHandle
  /\ SetOnline(u)
  /\ Handle(p, "command")
  /\ UNCHANGED <<brokerVars, tally, channelVars, requestVars, notices, ureq>>

-----------------------------------------------------------------------------
(* Environment                                                             *)

\* Only the deferred calls of execute remain; they look at no context.
Returning(r) == pc[r] \in {"forget", "leave", "done"}

\* The caller goes away or the runtime reloads: the first cause of a context
\* stays, and requestCtx ends with its parent unless it had ended before.
CallerEnds(r, cause) ==
  /\ ctx[r] = "live" /\ ~Returning(r)
  /\ ctx' = [ctx EXCEPT ![r] = cause]
  /\ reqCtx' = [reqCtx EXCEPT ![r] = IF @ = "live" THEN cause ELSE @]
  /\ UNCHANGED <<availabilityVars, brokerVars, tally, channelVars, pc, err,
                 outcome, result, answer, notices, updateVars>>

\* Seeded fault: the timer fires and ends nothing.
NoDeadline(r) == reqCtx[r] = "live" /\ UNCHANGED vars

\* Seeded fault: the timer ends the caller's context as well.
DeadlineOnCaller(r) ==
  /\ reqCtx[r] = "live" /\ ~Returning(r)
  /\ reqCtx' = [reqCtx EXCEPT ![r] = "deadline"]
  /\ ctx' = [ctx EXCEPT ![r] = "deadline"]
  /\ UNCHANGED <<availabilityVars, brokerVars, tally, channelVars, pc,
                 err, outcome, result, answer, notices, updateVars>>

\* The timer of requestCtx fires.
Deadline(r) ==
  /\ reqCtx[r] = "live" /\ ~Returning(r)
  /\ reqCtx' = [reqCtx EXCEPT ![r] = "deadline"]
  /\ UNCHANGED <<availabilityVars, brokerVars, tally, channelVars, pc, ctx,
                 err, outcome, result, answer, notices, updateVars>>

-----------------------------------------------------------------------------

\* What the goroutine of r does on its own.
Execute(r) ==
  \/ Accept(r) \/ Admit(r) \/ Register(r)
  \/ DeliverPart(r) \/ DeliverDone(r) \/ DeliverFailed(r)
  \/ EmitReasoning(r) \/ AwaitReply(r)
  \/ CheckCause(r) \/ CheckContext(r) \/ Miss(r) \/ Recheck(r)
  \/ Fallback(r) \/ ReplyReceived(r) \/ Respond(r) \/ EmitAnswer(r)
  \/ ForgetDelivery(r) \/ Unregister(r)

HandleReply(p) == Submit(p) \/ SendReply(p)

\* All requests have returned; further updates may still come, or not.
Quiescent ==
  /\ \A r \in Requests : pc[r] = "done"
  /\ notices = {}

Rest == Quiescent /\ UNCHANGED vars

Next ==
  \/ \E r \in Requests : \/ Execute(r)
                         \/ Notify(r)
                         \/ Deadline(r)
                         \/ \E cause \in Causes : CallerEnds(r, cause)
  \/ \E p \in Updates : \/ HandleReply(p)
                        \/ \E r \in Requests : ReplyArrives(p, r)
                        \/ \E u \in Users : OnlineCommand(p, u)
  \/ Rest

\* Goroutines are scheduled, Deliver returns because requestCtx bounds it, an
\* emitter returns because the HTTP handler reads or the caller's context ends,
\* and timers fire.  Nothing makes a human answer or a caller go away.
Fairness ==
  /\ \A r \in Requests : /\ WF_vars(Execute(r))
                         /\ WF_vars(Deadline(r))
                         /\ WF_vars(Notify(r))
  /\ \A p \in Updates : WF_vars(HandleReply(p))

Spec == Init /\ [][Next]_vars

FairSpec == Spec /\ Fairness

-----------------------------------------------------------------------------
(* Safety                                                                  *)

\* A request that has returned leaves nothing behind: no entry of its own in
\* the broker and no correlation, whichever way it ended and whenever the
\* human answered (the deferred Forget and unregister of execute).
NothingRetained ==
  \A r \in Requests : pc[r] = "done" =>
    /\ entries[IdOf[r]] # r
    /\ r \notin correlated

\* Every request that was registered ends with one observation, and nothing
\* else is tallied: the counters of a human add up to the requests of theirs
\* that recorded an outcome (s.record on every path of execute).
OneObservationEach ==
  /\ \A u \in Users :
       Observed(u) = Cardinality({r \in Requests : Human(r) = u /\ outcome[r] # None})
  /\ \A r \in Requests :
       pc[r] = "done" =>
         (outcome[r] # None <=> reqCtx[r] # "none" /\ result[r] # "duplicate")

\* A caller is given an answer to a message that carried the ID of that
\* request, whatever mixture of correlations and IDs in texts, early, late and
\* repeated answers led to it; and one answer serves one request.
AnswerIsOwn ==
  \A r \in Requests : answer[r] # None =>
    /\ IdOf[ureq[answer[r]]] = IdOf[r]
    /\ \A q \in Requests : answer[q] = answer[r] => q = r

\* Auto-offline is earned: the misses the availability store counts are never
\* more than the timeouts the statistics know of, and a human who is offline
\* has let at least AfterMissedReplies requests time out.  The two stores are
\* written one after the other (service.go lines 216-217).
OfflineIsEarned ==
  \A u \in Users :
    /\ missed[u] <= tally[u].timedOut
    /\ ~online[u] => tally[u].timedOut >= AfterMissedReplies

\* Only a request that ran into its own deadline counts against the human: one
\* that the caller or a reload ended before, or that was answered, never does.
OnlyDeadlinesCount ==
  \A r \in Requests : outcome[r] = "timed_out" =>
    reqCtx[r] = "deadline" /\ answer[r] = None

\* What the caller is told and what is recorded about the human agree.
ResultMatchesOutcome ==
  \A r \in Requests :
    /\ result[r] = "answered" =>
         outcome[r] = "responded" /\ answer[r] # None
    /\ result[r] = "timeout" => outcome[r] = "timed_out"
    /\ result[r] = "delivery_failed" => outcome[r] = "delivery_failed"
    /\ result[r] \in {"fallback", "fallback_failed"} =>
         outcome[r] = IF reqCtx[r] = "none" THEN None ELSE "timed_out"
    /\ result[r] = "emit_failed" => outcome[r] \in {"canceled", "responded"}

\* Of the requests whose IDs no other request carries:
UniqueID(r) == \A q \in Requests : IdOf[q] = IdOf[r] => q = r

\* While execute waits for the human, their first answer can still get
\* through: the channel is registered, or a reply is on its way into it or
\* already there.  An early answer, before Deliver returned, is no exception.
OpenWhileWaiting ==
  \A r \in Requests : pc[r] \in Waiting /\ UniqueID(r) => Reachable(r)

\* An answer that SubmitReply accepted reaches the caller unless the request's
\* own context ended or its delivery failed: no interleaving of handlers,
\* deliveries and waiters drops it otherwise.
AcceptedReplyIsUsed ==
  \A p \in Updates : ustate[p] = "accepted" =>
    LET r == ureq[p] IN
      UniqueID(r) /\ pc[r] = "done" /\ answer[r] # p =>
        reqCtx[r] # "live" \/ err[r] = "deliver"

-----------------------------------------------------------------------------
(* Action and liveness properties                                          *)

\* The availability of a human changes for two reasons only: a request of
\* theirs that missed its deadline takes them offline, and then a notice is
\* sent; the /online command brings them back.  In particular an answer to an
\* old task does not.
AvailabilityChanges ==
  [][\A u \in Users :
       /\ online[u] /\ ~online'[u] =>
            \E r \in Requests : /\ Human(r) = u /\ outcome[r] = "timed_out"
                                /\ r \notin notices /\ r \in notices'
       /\ ~online[u] /\ online'[u] =>
            \E p \in Updates : ustate[p] = "unsent" /\ ustate'[p] = "command"
    ]_vars

\* Every call of execute returns, even if the human never answers, answers too
\* late, or answers twice.
EveryRequestReturns ==
  <>(\A r \in Requests : pc[r] = "done")

\* Every incoming answer is dealt with, the second one to a request and the one
\* to an ID registered anew included: time and again no handler is inside
\* SubmitReply, so none hangs there, and the polling loop, which takes its next
\* update when the handler returned, is never held up for good.
EveryReplyHandled ==
  []<>(\A p \in Updates : ustate[p] \notin {"resolving", "sending"})

-----------------------------------------------------------------------------
(* The service keeps the contract of HumanAnswer                           *)

Phase(r) ==
  IF answer[r] # None THEN "answered"
  ELSE IF pc[r] \in {"accept", "admit", "register"} THEN "new"
  ELSE IF pc[r] \in Waiting THEN "open"
  ELSE "closed"

\* The claim on an open request is the reply in its channel, or the one whose
\* handler has taken its channel off the map.
ClaimOf(r) ==
  IF answer[r] # None THEN answer[r]
  ELSE IF pc[r] \notin Waiting THEN None
  ELSE IF inbox[r] # None THEN inbox[r]
  ELSE IF \E p \in Updates : sending[p] = r
       THEN CHOOSE p \in Updates : sending[p] = r
  ELSE None

Contract == INSTANCE HumanAnswer
              WITH phase <- [r \in Requests |-> Phase(r)],
                   claim <- [r \in Requests |-> ClaimOf(r)]

\* The goroutines, the broker's map and its channels implement the contract:
\* one answer at most, the first that claimed the open request.
KeepsContract == Contract!Spec

=============================================================================
