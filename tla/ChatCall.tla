------------------------------ MODULE ChatCall ------------------------------
(***************************************************************************)
(* One call of the endpoint together with what execute (service.go) does   *)
(* behind it: ChatStream's producer emits the human's answer or, when the  *)
(* human is offline, runs the fallback chain, whose emitter is the         *)
(* endpoint's.  The context the chain looks at is the one the endpoint     *)
(* cancels when its handler leaves.                                        *)
(*                                                                         *)
(* Every step is a step of ChatStream, of FallbackChain, or of both: a     *)
(* chunk that the handler receives is a chunk the chain has sent.  The     *)
(* choices ChatStream leaves to the completer are made here.               *)
(***************************************************************************)
EXTENDS ChatStream, FallbackChain

CONSTANTS Reasoning   \* a reasoning template is configured

\* Room for the reasoning and for every content event of the provider.
ASSUME ChatCallAssumption ==
  /\ Reasoning \in BOOLEAN
  /\ MaxContent >= MaxEvents + 1 /\ MaxContent >= 2

VARIABLE path   \* who answers: "human" or "fallback"

callVars == <<vars, chainVars, path>>

\* The chunks that come before the human's answer.
Preamble == IF Reasoning THEN 1 ELSE 0

CallInit ==
  /\ Init /\ ChainInit
  /\ streaming = (ask = "stream") /\ ctx = TRUE
  /\ path = "human"

\* The chain shares the producer's context, and has no other part in a step.
OnlyContext == IF Over' = Over THEN UNCHANGED chainVars ELSE CallerEnds

-----------------------------------------------------------------------------
(* execute until it returns or hands over to the fallback                  *)

\* The reasoning, the answer, and the chunk that ends the stream.
HumanOffer ==
  /\ path = "human"
  /\ Offer
  /\ \/ offered' = "content" /\ Len(emitted) <= Preamble
     \/ offered' = "finish" /\ Len(emitted) = Preamble + 1
  /\ UNCHANGED <<chainVars, path>>

\* An error of emit is returned as it is; once the answer is on its way nothing
\* else can fail.
HumanReturns ==
  /\ path = "human"
  /\ ProducerReturns
  /\ failure => result' = "emit"
  /\ Len(emitted) > Preamble => result' \in {"ok", "emit"}
  /\ UNCHANGED <<chainVars, path>>

\* Seeded fault: the fallback is tried for any failure of the human's answer.
HandOverAnyTime == TRUE

MayHandOver == Len(emitted) <= Preamble

\* The human is offline: before anything was emitted, or after this request's
\* own deadline took them there.
Handover ==
  /\ path = "human" /\ producer = "work" /\ ~failure
  /\ MayHandOver
  /\ path' = "fallback"
  /\ UNCHANGED <<vars, chainVars>>

-----------------------------------------------------------------------------
(* generateFallback                                                        *)

Running == path = "fallback" /\ producer = "work"

\* A step of the chain that emits nothing.
Alone(Step) == Running /\ Step /\ UNCHANGED <<vars, path>>

\* The provider has sent an event; the chain waits for the handler to take it.
BodyOffer ==
  /\ Running /\ stage = "body" /\ Native
  /\ Offer
  /\ IF offered' = "finish" THEN MayEnd ELSE events < MaxEvents
  /\ UNCHANGED <<chainVars, path>>

\* What the chain emits of its own accord.
ChainOffer ==
  /\ Running
  /\ Offer
  /\ stage \in IF offered' = "finish" THEN {"finish", "closing"}
                                      ELSE {"emit", "opening"}
  /\ UNCHANGED <<chainVars, path>>

\* mapFallbackError, whatever the chain returned: the cause of the context is read
\* first and ctx.Err after it, so a reload that comes in between is reported as a
\* cancellation.
Mapped ==
  {kind \in {"reload", "canceled", "own"} :
     /\ kind = "reload" => reqCtx = "reloading"
     /\ kind = "canceled" => Over
     /\ kind = "own" => ~Over}

FallbackReturns ==
  /\ Running
  /\ ProducerReturns
  /\ \/ stage = "answered" /\ result' = "ok"
     \/ stage = "error" /\ result' \in Mapped
  /\ UNCHANGED <<chainVars, path>>

-----------------------------------------------------------------------------
(* The emitter of the endpoint                                             *)

\* The chain's side of an emit.
Emission ==
  \/ offered = "finish" /\ (DoneEvent \/ FinishWhole \/ TemplateFinish)
  \/ offered = "content" /\ (EmitWhole \/ ContentEvent \/ TemplateEmit)

\* The handler takes the chunk.
Deliver ==
  /\ Receive
  /\ \/ path = "human" /\ UNCHANGED chainVars
     \/ path = "fallback" /\ Emission /\ sent' # sent
  /\ UNCHANGED path

\* emit gives up.
Refuse ==
  /\ EmitFails
  /\ \/ path = "human" /\ UNCHANGED chainVars
     \/ path = "fallback" /\ Emission /\ sent' = sent
  /\ UNCHANGED path

-----------------------------------------------------------------------------
(* The endpoint and the environment                                        *)

\* Steps of the endpoint that have no part in an emit; the handler's leave ends
\* the context.
Endpoint ==
  /\ ServeHTTP \/ Write \/ TakeResult \/ KeepAliveFails \/ SeeContext
  /\ OnlyContext
  /\ UNCHANGED path

Environment ==
  /\ ClientLeaves \/ ContextEnds
  /\ OnlyContext
  /\ UNCHANGED path

CallIdle == Idle /\ UNCHANGED <<chainVars, path>>

CallHandler == Endpoint \/ Deliver

CallProducer ==
  \/ HumanOffer \/ HumanReturns \/ Handover
  \/ ChainOffer \/ FallbackReturns \/ Refuse
  \/ Alone(ProviderFailed) \/ Alone(TemplateAnswer)

CallProvider ==
  BodyOffer \/ Alone(Respond) \/ Alone(ProviderFails) \/ Alone(WholeAnswer)

CallNext ==
  \/ CallHandler \/ CallProducer \/ CallProvider
  \/ Alone(Timeout) \/ Environment \/ CallIdle

CallSpec == CallInit /\ [][CallNext]_callVars

\* The goroutines run, and the timer of the provider's call fires.  execute comes
\* to an end before the fallback as EveryRequestReturns of Completion says; the
\* provider itself owes nothing.
CallFairSpec ==
  /\ CallSpec
  /\ WF_callVars(CallHandler)
  /\ WF_callVars(CallProducer)
  /\ WF_callVars(Alone(Timeout))

-----------------------------------------------------------------------------
(* Properties                                                              *)

CleanEnd ==
  status = "ok" /\ handler = "returned"
    /\ (ask = "stream" => Contains(frames, "done") /\ ~Contains(frames, "error"))

\* A call that ends as a success gave the client one answer, and all of it: the
\* human's, or what the chain takes to be answered, with nothing before it but
\* the reasoning; never the human's followed by the fallback's, nor a part of
\* either (service.go: execute hands over before it emits an answer).
OneAnswer ==
  CleanEnd =>
    IF path = "human"
    THEN ask = "stream" => Len(emitted) = Preamble + 2
    ELSE /\ stage = "answered"
         /\ ask = "stream" =>
              Len(emitted) - Len(sent) \in {0, Preamble}

\* Whatever the provider does, the handler returns and leaves no producer behind:
\* the stream ran to its end, the client left or the context ended.
CallEndsAndJoins == <>(handler = "returned" /\ producer \in {"off", "ended"})

=============================================================================
