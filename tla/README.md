# SotAPI: specifications and proofs

SotAPI offers an OpenAI-compatible chat API whose answers are written by people. A request for a
model is routed to a human, shown to them in Telegram, and answered with what they reply. When they
do not reply in time they can be taken offline, and a language model or a fixed template answers in
their place. This directory holds TLA+ models of the program, the TLC configurations that check
them and proofs that TLAPS checks.

Contents: [the system](#the-system), [modules](#modules-and-the-code-they-stand-for),
[runs](#runs), [fairness](#fairness), [findings](#where-code-and-documentation-disagree),
[proofs](#proofs), [limits](#what-is-not-modelled), [plan](#plan).

## The system

| Component | State | Operations | Correct when |
|---|---|---|---|
| Completion service `internal/completion/service.go` | one goroutine per request: position in `execute`, the caller's context and `requestCtx` with their causes | `Complete`, `Stream`, `SubmitReply`, `SetOnline` | each request is recorded once, is told what happened, gets only an answer to itself, leaves nothing behind, and returns |
| Pending broker `internal/completion/pending.go` | map from request ID to a channel of capacity one | `register`, `resolve`, `remove` | one reply per channel; the send outside the lock never blocks |
| Availability store `internal/availability/store.go` | per human: online, missed replies in a row | `RecordMissedReply`, `RecordReply`, `SetOnline`, `IsOnline` | offline is earned by timeouts and ends by `/online` only |
| Statistics store `internal/stats/stats.go` | per human: counters of outcomes | `Record`, `All` | the counters add up to the requests that ended |
| Telegram channel `internal/channel/telegram` | correlations from message to request, polling offset, the mode registered at Telegram | `Deliver`, `Forget`, `Notify`, `Configure`, `Receive`, the webhook | an answer reaches the request it answers; one receiver per bot; no update is lost, and none skipped |
| Fallback `internal/completion/fallback.go`, `internal/fallback/openai` | one call | `Generate`, `Stream` | an answer comes from one source and is complete |
| Chat endpoint `internal/protocol/openai/chatcompletions` | one handler and, for a stream, one producer goroutine with two channels | `ServeHTTP`, `serveStream` | the client sees one complete outcome; no goroutine is left |
| Runtime `cmd/sotapi/runtime.go` | the active instance, its context, workers and error channel | boot, reload, rollback, stop | one instance at a time; failures undone or fatal; nothing left at exit |
| Watcher `internal/config/watcher.go` | debounce timer, one-place channel | `Watch`, `watchFile` | no edit is forgotten |
| Configuration `internal/config/config.go`, routing `internal/routing`, authentication and models endpoint `internal/protocol/openai`, dispatch `cmd/sotapi/main.go` | immutable after construction | `Load`, `Validate`, `NewRouter` and the other constructors, `Resolve`, `Require`, `ServeHTTP` | what is accepted can be built; what is listed can be called; each request gets to the part it names |

How they interact. The endpoint calls the service with the HTTP request's context and, for a stream,
an emitter that hands chunks to the handler through a channel without a buffer. The service calls the
channel to deliver a task and waits on its broker entry. Telegram updates arrive through one polling
goroutine or through concurrent webhook handlers, find their request by correlation or by the ID
printed in the task, and call `SubmitReply` or `SetOnline`. All of this belongs to one runtime
instance. The runtime cancels an instance's context with the cause `ErrServiceReloading` when the
watcher announces another configuration, waits for its workers, and starts the next instance with
stores of its own.

What is hard:

* *Interleaving.* Requests, update handlers and notices share the broker and the stores; a human can
  answer before `Deliver` returns, twice, late, or another request.
* *Steps that are not atomic.* `resolve` sends after it unlocked; the cause and the error of a context
  are read one after the other; statistics and availability are written one after the other;
  availability is read again after the miss; a timeout ends a request whose broker entry stays until
  the deferred calls run.
* *Contexts.* Four things end a request: the caller, the deadline, a reload, the process. The first
  cause stays.
* *Partial failure.* A later part of a task fails after an earlier one was seen; the provider breaks
  off a stream; a candidate fails to start after its predecessor is gone.
* *Delivery.* Telegram repeats what was not confirmed; the offset dies with its instance, an answer of the
  webhook can be lost, a crash comes between handling and confirming.
* *Duplicated checks.* The configuration is checked by `Validate`, by a trial router and again by nine
  constructors, each a little differently.
* *Liveness.* A silent human, a silent provider, a client that leaves, a signal in the middle of a
  reload.

`PROJECT.json` lists each hazard at its line with the properties that cover it, or why none does.

## Modules and the code they stand for

```
Parties            sets of humans, requests, updates
 ├─ Availability   ─┐
 ├─ PendingBroker   ├─ Completion ── MCCompletion ── MCTimedCompletion
 ├─ Stats           │      │ implements HumanAnswer
 ├─ TelegramChannel ┘      └─ CompletionProofs (with AvailabilityProofs)

ChatStream ─────┬─ ChatCall ── MCChatCall         each of the three with its Proofs module
FallbackChain ──┘     (ChatStream alone: MCChatStream)

TelegramUpdates ── MCTelegramUpdates              implements AtLeastOnce; TelegramUpdatesProofs
Runtime ── MCRuntime                              implements Succession; RuntimeProofs
Routing ── Configuration ── Gateway ── MCGateway  GatewayProofs
```

**`Availability`, `PendingBroker`, `Stats`, `TelegramChannel`** hold one component's state and one
operator per method. Methods that run under one mutex are one action. `resolve` is two actions,
`ResolveTake` under the lock and `ResolveSend` after it. A channel is named by the request that
registered it and a reply by the update that carries it, so texts are not needed. A consumed channel
may be filled again in the model as in Go; that this never happens is a property.

**`Completion`** composes the four. `pc[r]` is where the goroutine of request `r` stands in `execute`;
one action is what it does between two accesses another goroutine could tell apart. `ustate[p]` is the
handler of update `p`. The environment ends contexts, fires deadlines and lets the human answer any
task they see, at any time, with the last part of the task or an earlier one. Decisions worth
knowing:

* The observation of an outcome is merged with the read of the context before it; no other goroutine
  reads the statistics in between.
* `Deliver` is two actions and a failure: a part becomes visible, the last part is sent and correlated.
  Several parts are one `DeliverPart`, since an answer to any of them resolves the same request. It
  fails at any point, whether or not Telegram showed the part.
* `Fallback` is one step here and a module of its own below; `FailsOnlyWhenBegun` of `FallbackChain` is
  the fact that justifies its guard. A template that loses its context between the check and its
  return is taken to return.
* A caller that goes away after the result is fixed is not modelled: only the deferred calls are left
  and they look at no context.
* Errors for a human the stores do not know cannot occur: router and stores are built from the same
  users. The branch at `service.go` 229–230 cannot be reached either, because with the caller's
  context live only the deadline ends `requestCtx`.
* IDs are chosen by `IdOf`: `OwnID` is what HTTP callers get (128 random bits), `PairID` gives two
  requests one ID, as a direct user of the package could.

**`HumanAnswer`** is the contract of the above for one caller: at most one reply claims an open request,
and the request ends with that reply or with none. `KeepsContract` states that `Completion` implements
it. The claim is the reply in the channel, or the one whose handler holds the channel.

**`FallbackChain`** is one call of the chain: the provider answers in one piece or event by event, breaks
off, ends without `[DONE]`, sends `[DONE]` without text, or stays silent until the timeout; the chain
notes an attempt before it passes a chunk on and takes the template if there was none. In template mode
the call begins with the template. `sent` is what the caller got. A body that cannot be decoded, an
HTTP error and a connection error are all `ProviderFails`.

**`ChatStream`** is one call of the endpoint. The handler is the event loop of `serveStream`, where any
branch that is ready may be taken; the producer runs a completer that emits content, then the finish
chunk, and returns. `execute` is one such completer: it returns the emitter's error unchanged, or the
error it classified (`Errors`). Decoding and validation of the body are one refusal. The role of the
first chunk and JSON are left out.

**`ChatCall`** is `ChatStream` with `FallbackChain` behind the human's path of `execute`: the producer emits
the reasoning and the human's answer, or hands over to the chain, whose emitter is the endpoint's. A
chunk the handler takes is a step of both modules, and so is one that `emit` refuses; the context the
chain looks at is the one the handler cancels when it leaves. What `ChatStream` leaves to any
completer is decided here. `Handover` is where `execute` calls `generateFallback`: the human is offline
before anything is emitted, or goes offline with this request's own timeout, after the reasoning.
`mapFallbackError` reads the cause of the context and then its error, so a reload in between may be
reported as a cancellation (`Mapped`).

**`TelegramUpdates`** is the way of an update from Telegram's queue to `handleUpdateContext`, over the
instances that follow one another: `Configure`, the polling loop with its offset and batches, the
webhook's handlers, and the next instance with any update mode and any `drop_pending_updates`. A call
can fail before or after it took effect; a handler's answer can be lost; the process can crash at any
point. Telegram is external: it numbers updates, keeps each until a higher offset or a 2xx answer
confirms it, and repeats it until then. What handling does is in `Completion`; here an update counts
as handled when `handleUpdateContext` returned, with an error or without, as in the code. After
the shutdown timeout `Close` drops connections and waits for no handler: those that have read an update
(`straggling`) may handle it while the next instance runs, or come to nothing.
**`AtLeastOnce`** is the promise it implements (`KeepsPromise`): what Telegram no longer keeps was
handled or dropped on request, and nothing is handled that was not handed out while it was kept.

**`Routing`, `Configuration`, `Gateway`** are the sequential part, as operators, and the steps from the
file to the answer. `Routing` is the graph with `NewRouter` and `Resolve`; `Configuration` derives and
validates; `Gateway` has an operator for what each constructor accepts, builds an instance as
`newRuntimeInstance` does, registers at Telegram, and answers requests: the webhook by its exact path,
then the mux, each endpoint with its checks in the order of the code. A URL is its scheme, whether it
has a host, a query or fragment, and the segments of its path; a key is a text that may end in
blanks, because the header is trimmed and the configured key is not; a secret is a text or derived
from the token. That the file is YAML with known fields, and a body JSON of the right shape, are
flags. Once built, an instance is served or stopped; reloading is `Runtime`'s.

**`Runtime`** is the process. `pc` is where `run` stands, including its calls of `start` and `stop`;
`Instances` are numbered in the order they are built, so a rollback is an instance of its own as in the
code. Building an instance has no effect but its existence; in a reload it shares a step with the load before
it. A file that `Load` accepts and `newRuntimeInstance` refuses counts as `Invalid`: a reload treats both
refusals alike, and at boot the second one comes after the watch has begun (`WatchAtBoot`).
`errs` counts the errors in the channel of capacity two. Handlers in flight are counted and may survive
`stop`, because after the shutdown timeout `Close` drops connections but waits for no handler.
`Configure` may fail after it took effect at Telegram. The second `reportError` call, for `Receive`,
cannot be reached: `Receive` never returns an error. Watcher and debounce timer are actions of their
own; one `EditFile` stands for one visible change of the file, a half-written file being `Invalid`.
All faults are named in `Faults` and bounded by `MaxFaults`.

**`Succession`** is what `Runtime` promises without all that: one configuration after the other; a
replacement starts after its predecessor has ended and takes over once it is up; if it cannot be started
the predecessor's configuration is tried, once; and the process gives up only with nothing left to try or
after it has ended the service. `Runtime` implements it with `Stage`, `Current` and `Upcoming` read off
`pc`, `purpose` and the two instances.

## Runs

Every run finishes within three minutes on two cores. Constants are model values; symmetry is used
on updates, and on requests where the run treats all alike; never in runs with liveness.

| Run | Instance | Shows |
|---|---|---|
| `race` | 1 human, 2 requests (1 streaming), 2 updates, webhook, cancel and reload, threshold 1, LLM fallback | replies reach the right caller, accepted replies are used, one record per request and the caller told accordingly; the whole implements `HumanAnswer` |
| `threshold` | 4 requests (two with one ID, one malformed), 2 concurrent updates, threshold 2 | offline is earned and ends by command only; with a shared ID the broker stays exclusive and is emptied |
| `live` | 3 requests (two with one ID, one of them streaming; one unroutable), 2 concurrent updates, no caller gives up | every request returns, every answer is handled |
| `chat` | plain, streaming and refused call, 3 ways to end, human or fallback with up to 6 events, both fallback modes | one complete outcome from one source, the template whenever it may stand in, stream closed, both goroutines end |
| `reload` | 2 configurations (polling, webhook), 2 edits, 2 failures, 1 handler per instance | one instance, clean exit, Telegram's mode, dead server noticed, no edit forgotten; the whole implements `Succession` |
| `reload_live` | the same, 2 edits, no failure | the file is applied, `stop` completes, the signal ends everything |
| `updates` | 3 updates, batches of 2, 3 instances with any settings, 1 failure | nothing lost, nothing repeated by one poller, order kept, every update handled in the end |
| `gateway` | some 150 configurations, each setting wrong in turn, 200 requests each | what loads can be built, the registered webhook is served, the API is reachable and its keys decide, every listed model has its human |
| `lost_race`, `reload_forgets`, `stream_reload`, `long_answer` | smallest instance that shows it | a statement of the repository the code does not keep; see below |

Why the bounds suffice. Requests interact only through a human's availability, the broker entry of
an ID and the updates. Two requests and two updates give every pairwise race (two answers to one
task, an answer to each, an answer and `/online`), and a third request is needed only to pass a
threshold of two with one more left to observe it. In `live` two handlers run at once and two requests
share an ID: an ID is registered again after its entry was taken, and two handlers hold channels at
once; a reply sent twice into one of them would meet it full, which is where a handler could hang. Its
updates are those of the webhook; polling only adds the guard `MayHandle`, so its behaviours are among them, and a handler that never ended
would be the loop that never takes the next update. The proofs below show for the main invariants
that the size does not matter. A stream needs three chunks for a first, a middle and a last one;
`chat` allows more because the instance is small. Two edits give an edit during the reload caused
by the other one, and a rollback in between; two failures make a candidate and its rollback fail.
Three updates with batches of two give a full batch, an update beyond it and one that comes while the
batch is handled; three instances give a change of the update mode and the change back. `gateway`
varies one setting at a time around two configurations that work, and pairs of settings that are
checked together (URL and secret, mode and keys, fallback mode and provider); its requests cover
every path, method, scheme, key and secret those configurations tell apart.

`MaxContent`, `MaxEvents`, `MaxWrites`, `MaxFaults`, `MaxRequests`, `MaxUpdates`, `MaxStarts` and
`MaxFailures` are all the bounds on counters there are. Requests and updates are finite sets, each used
once. The counters of the stores are
bounded by the number of requests.

Deadlock is checked in every run. `Rest`, `Idle`, `ChainIdle`, `CallIdle` and `Stopped` are the states
in which the system may stop, and say so.

Every property of a passing run is violated when one definition is replaced by a seeded fault (the
operators commented so, placed before the definition they replace). `PROJECT.json` lists the pairs.

## Fairness

* `Completion`: weak fairness per goroutine. `Deliver` ends because `requestCtx` bounds it; an emit ends
  because the HTTP handler reads, or its context ends and emit gives up (`CallEndsAndJoins` of `ChatCall`);
  the deadline timer fires. No fairness for humans and callers: `EveryRequestReturns` holds with a
  human who never answers. Weak fairness is enough, since a goroutine's enabled step stays enabled:
  locks are held for a bounded time, and no step waits for a condition that comes and goes.
* `ChatCall`: the handler, the producer with what it calls, and the timer of the provider's call. The
  provider owes nothing, nor does the client. That `execute` comes to an answer or to the fallback is
  what `EveryRequestReturns` of `Completion` shows. Here lies an assumption about the client: a write ends,
  if only with an error. The server has no write timeout, so a client that stays connected and reads
  nothing blocks the handler; the assumption excludes it and the hazards name it.
* `TelegramUpdates`: the instance's goroutine, the webhook's handlers, Telegram's posting of what it
  keeps, and whoever starts the next instance. Handlers that outlived
  their server owe nothing. Failures are bounded; neither updates nor ends of
  contexts are owed. An update may stay unhandled when no further instance is started (`Down`).
* `Runtime`: `run`, the workers, the watcher and the timer. Edits, signals, requests and failures are not
  owed. Handlers need not end, as `Shutdown` has a timeout.

## Where code and documentation disagree

1. *`lost_race`.* "Prefer a reply that won the broker race just before cancellation" (`service.go` 313).
   `resolve` removes the entry before it sends; a waiter that times out in between finds its channel
   empty, and a reply that was first is lost.
2. *`stream_reload`.* A stream ended by a reload should say `service_reloading`
   (`handler_test.go` 276). The emitter returns `ctx.Err()` without the cause, `execute` hands it on, and
   if the handler's `select` takes that result first the client reads `internal_error`.
3. *`reload_forgets`.* "Store keeps availability state for one process lifetime" (`availability/store.go`
   36). Each reload builds a new store, and offline humans are online again.
4. *`long_answer`.* "Receive consumes Telegram updates until ctx is canceled" (`reply.go` 34). `call` decodes
   at most 1 MiB of an answer (`telegram.go` 240) and `getUpdates` sets no limit; when the waiting updates
   are longer, decoding fails, the same offset is asked for again, and polling never gets past them.

More behaviours are in the models and worth knowing, though no run is spent on them:

* A reply that arrives while a timed-out request is being given its fallback is accepted and dropped,
  because the broker entry is removed only by the deferred `unregister`; `service.go` 130 calls late replies
  rejected, and its purpose, that no other caller gets them, is kept (`AnswerIsOwn`).
* An edit of the configuration between the first load and the watch (`runtime.go` 38 and 45) is
  announced to nobody; `ChangeIsNeverLost` and `FileIsApplied` speak of the watched file.
* When the deadline fires just before a reload, the cause of `requestCtx` is the deadline, and the reload
  that then ends the caller's context is reported as a cancellation (`service.go` 207, `errors.go` 10).
* A configured API key that ends in a blank is accepted and matches no request, since the header is
  trimmed (`auth.go` 81); `KeyDecides` says so.
* Two humans with one recipient pass `config validate` and fail at the start, or end in a rollback, and so
  does a webhook at the path of an API endpoint (`OnlyKnownRefusals`).
* A recipient that is not a numeric chat ID, say `@group`, is delivered to, but `/online` never finds its
  human, because updates carry the number (`reply.go` 103). `ServesWhatItLists` compares recipients as
  configured.

## Proofs

The theorems hold for every value of the constants: any sets of humans, requests, updates, IDs,
configurations and HTTP requests, any routing and threshold, any number of chunks, events, edits,
failures and instances. They assume only what the modules declare: `None` is not a request, update,
human or one of the strings used as states (`PartiesAssumption`, `NoneAssumption`), constants have
their types, the threshold is positive (`availability.NewStore` and the configuration refuse any
other), `ChatCall` has room for what the provider sends, and configurations and requests have the fields
the code reads. Nothing says that the requests are finitely many.

| Theorem | States |
|---|---|
| `StoreBelowThreshold` | the store alone, in any order of calls: online means below the threshold |
| `TypeCorrect` | `TypeOK` |
| `ResolveNeverBlocks` | `SendNeverBlocks`, for any choice of IDs |
| `ReturnReleases` | `NothingRetained` |
| `OnlyDeadlinesAreCounted` | `OnlyDeadlinesCount` |
| `WaitingIsOpen` | `OpenWhileWaiting` |
| `AcceptedReplyReachesCaller` | `AcceptedReplyIsUsed` |
| `HumansBelowThreshold` | `OnlineBelowThreshold` |
| `OnlyTimeoutsAndCommands` | `AvailabilityChanges` |
| `ResultAgrees` | `ResultMatchesOutcome` |
| `CountersAddUp` | `OneObservationEach` |
| `AnswersAreOwn` | `AnswerIsOwn`, for any choice of IDs |
| `OfflineWasEarned` | `OfflineIsEarned` |
| `ServiceKeepsContract` | `KeepsContract`: `Completion` implements `HumanAnswer` |
| `ServiceUsesStore` | `Completion` implements `AvailabilitySpec`, whence `HumansBelowThreshold` |
| `ExecuteMovesOn` | a bound on the steps `execute` has left never grows, and falls whenever its label changes |
| `ChatTypeCorrect`, `ChatCleanEndIsComplete`, `ChatOneOutcome`, `ChatStreamIsClosed` | the endpoint's `TypeOK`, `CleanEndIsComplete`, `OneOutcome`, `StreamIsClosed` |
| `ChainTypeCorrect`, `ChainOneSource`, `ChainSuccessIsComplete`, `ChainFailsOnlyWhenBegun` | the chain's `ChainTypeOK`, `OneSource`, `SuccessIsComplete`, `FailsOnlyWhenBegun` |
| `CallImplementsParts`, `CallCloses`, `CallFallsBack`, `CallHasOneAnswer` | a call of `ChatCall` is one of `ChatStream` and one of `FallbackChain`, so all of the above holds of it; `OneAnswer` |
| `UpdatesTypeOK`, `UpdatesOnceWhilePolling`, `UpdatesHandledInOrder` | `TypeOK`, `OnceWhilePolling`, `HandledInOrder` of `TelegramUpdates` |
| `UpdatesKeepPromise` | `TelegramUpdates` implements `AtLeastOnce` |
| `RuntimeTypeCorrect`, `RuntimeOneInstance`, `RuntimeExitIsClean`, `RuntimeModeMatches`, `RuntimeDeadServerIsReported` | `TypeOK` of `Runtime` and the invariants of the run `reload` |
| `RuntimeKeepsChanges` | `ChangeIsNeverLost` |
| `RuntimeReplacesOrRestores` | `ReplacesOrRestores`: `Runtime` implements `Succession` |
| `GatewayOnlyKnownRefusals`, `GatewayWebhookReachable`, `GatewayApiIsReachable`, `GatewayServesWhatItLists`, `GatewayKeyDecides` | the properties of these names |

*`Completion`.* All but the first of its theorems follow from one inductive invariant, `IInv`. None of
the properties is inductive by itself; the parts of `IInv` say why each holds:

* `TypeInv`: types, that a request past routing has a human, and that a handler holds a channel exactly
  while it is about to send. Without it a step could apply a store's operation to no human.
* `BrokerInv`: `SendNeverBlocks` together with the fact that a channel that has not been registered is in
  nobody's hands, so a fresh registration cannot meet an old reply.
* `Chronicle`: what the labels of `execute` say of the past, that is, which context had ended, which error
  is being classified, and whether an answer was taken when a given step is reached. Needed because
  `OnlyDeadlinesCount` speaks of a request long after its deadline was looked at.
* `Claims`: an accepted reply is in its channel or in the hands of its request, as long as the request
  has an ID of its own. Needed by `AcceptedReplyIsUsed`, where acceptance and use are far apart.
* `Released`: what is already released at each deferred call.
* `OpenWhileWaiting` as it stands.
* `Verdict`: what outcome and result a request has at each label. `ResultMatchesOutcome` looks at the end
  only, where the outcome may have been recorded several labels before; a timeout is recorded on the way
  to the fallback, so the fallback's success and its failure both need to know it was.
* `Tallied`: the counters of a human add up to the number of their requests with an outcome, which are
  finitely many at any time although the requests may be infinitely many. `Chronicle` says that an
  observation is the first of its request, so each adds one element and one count.
* `Earned`: a timeout is in the statistics before the miss is in the store, and between the two any
  number of requests may stand. So the misses are bounded by the timeouts less the requests at `miss`.
* `Held`: a reply is in one place at a time, with its handler, in one channel, or the answer of one
  request, and always under the ID it carries. `AnswerIsOwn` speaks of the last place only.

There is one lemma per part, with one step per action, and `Inductive` combines them. The action
property `AvailabilityChanges` is proved step by step under `IInv`.

`ServiceKeepsContract` is a refinement. The mapping takes the claim of a request from its answer, its
channel, or the handler that is about to send into it, and `ClaimOf` chooses that handler; `ClaimIs`
shows from `BrokerInv` that there is at most one, so the choice is none. A step of the service changes
what the contract sees of one request at most (`SamePlace` for the others), and in one of five ways
(`View`), which are the four actions of `HumanAnswer` and its stutter (`ViewIsStep`).

`HumansBelowThreshold` does not need `IInv` beyond types: each step of the service does to the store what
one of its methods does, or nothing (`StoreStep`), so what `AvailabilityProofs` says of the store alone
holds of it here. `ExecuteMovesOn` is the part of the liveness argument that a prover without liveness can
do: execute cannot go in circles, so that with the fairness assumed only a wait could keep it, and the
deadline ends every wait.

*`ChatStream`, `FallbackChain`, `ChatCall`.* The endpoint's invariant relates the frames the client has to
the chunks `emit` accepted and the one being written; that a sequence of chunks closed by `done` has one
end is proved once, for sequences. The chain's invariant says what `sent` holds at each stage. `ChatCall`
is proved by composition: every step of it is a step or a stutter of either part
(`CallImplementsParts`), so both invariants are there for the taking, and only the relation between the
chunks of the two (`CallInv`) is new.

*`TelegramUpdates`.* The invariant says that everything below the offset and not in the batch has been
handled or dropped, and that a batch is the beginning of what waits; the latter rests on a lemma about
`Oldest` that counts the elements below one of it. `KeepsPromise` is a refinement: initial states map to
initial states, and each action to one of `AtLeastOnce` or a stutter.

*`Runtime`.* `TypeInv` is types with a count: instances are numbered, and each edit that run may still
see needs two numbers, one for the candidate and one for its rollback, so there are always enough.
`Charge` says, for each place in `run`, which instance is in charge there and what its socket, workers and
context are, and that every other instance is idle or finished. `OneInstanceRuns` and `ExitIsClean` are
what it says of two places at once and of the last one. `ReplacesOrRestores` needs one more part,
`Errand`: what the present start or stop is for, and that a candidate's configuration differs from the one
in charge while a rollback's does not, which is how the promise tells the first try from the second. Only
`run` moves what the promise sees (`OnlyRunMoves`); each of its ten steps is a step of `Succession` or a
stutter. The types of `Runtime` are proved and no longer checked by a run.

*`Gateway`.* The invariant is short: what serves was built from the configuration `Load` accepted, and
Telegram knows its callback. The work is in comparing the checks of `Configuration` with those of the
constructors, and the dispatch with the four paths. `GatewayServesWhatItLists` takes a model through its
entry to the one human of the entry's pool, whose endpoint no other human shares because the instance would
not have been built; `GatewayKeyDecides` compares the trimmed header with the configured keys.

Model-checked only: liveness and what depends on fairness (`EveryRequestReturns`, `EveryReplyHandled`,
`FileIsApplied`, `StopCompletes`, `SignalStops`, `CallEndsAndJoins`, `EveryUpdateIsHandled`), which the
prover does not do, and the violations. Every other property of a passing run is stated by a theorem.

## What is not modelled

* Texts and their formats: task layout, splitting of long messages, JSON, SSE syntax, sizes.
* How YAML and the environment become a configuration, and defaults: `c.parses` and `Configs` stand for the
  outcome. `TargetOf` of `Completion` and `Configs` of `Runtime` stand for what passed the checks of
  `Gateway`.
* Latencies and the log.
* The loss of file events when the kernel queue overflows: watcher errors are modelled without it.
* The command line's flags and exit codes; build, packaging and CI, which are no part of the running
  program.

## Plan

Done, in this order: the stores and the broker; `Completion` with `HumanAnswer`; their proofs; the
runtime and its watcher; the endpoint's stream; the fallback chain; the composition of the two; the
update loop and `AtLeastOnce`; configuration, routing and dispatch; the proofs of all of these;
the refinements of `HumanAnswer`, `AvailabilitySpec` and `Succession`.

Next:

1. `SplitText` as a recursive function: parts within the limit whose concatenation is the text.
2. A client that stalls, with the server's timeouts as they are, to show what `Shutdown` and `Close` do to
   its handler.
