--------------------------- MODULE ChatCallProofs ---------------------------
(***************************************************************************)
(* One call is a behaviour of the endpoint and of the fallback chain, so   *)
(* that what is proved of either holds of the call, and its client gets    *)
(* one answer.                                                             *)
(***************************************************************************)
EXTENDS ChatCall, ChatStreamProofs, FallbackChainProofs

-----------------------------------------------------------------------------
(* The call implements its two parts                                       *)

LEMMA StepOfEndpoint == [CallNext]_callVars => [Next]_vars
<1> SUFFICES ASSUME [CallNext]_callVars PROVE [Next]_vars
  OBVIOUS
<1>1. CASE Endpoint
  BY <1>1 DEF Endpoint, Next, Handler
<1>2. CASE Deliver
  BY <1>2 DEF Deliver, Next, Handler
<1>3. CASE HumanOffer \/ HumanReturns \/ ChainOffer \/ FallbackReturns \/ Refuse \/ BodyOffer
  BY <1>3 DEF HumanOffer, HumanReturns, ChainOffer, FallbackReturns, Refuse, BodyOffer, Next, Producer
<1>4. CASE Handover \/ Alone(ProviderFailed) \/ Alone(TemplateAnswer) \/ Alone(Respond)
           \/ Alone(ProviderFails) \/ Alone(WholeAnswer) \/ Alone(Timeout)
  BY <1>4 DEF Handover, Alone
<1>5. CASE Environment
  BY <1>5 DEF Environment, Next
<1>6. CASE CallIdle
  BY <1>6 DEF CallIdle, Next
<1>7. CASE UNCHANGED callVars
  BY <1>7 DEF callVars
<1> QED
  BY <1>1, <1>2, <1>3, <1>4, <1>5, <1>6, <1>7 DEF CallNext, CallHandler, CallProducer, CallProvider

LEMMA StepOfChain == [CallNext]_callVars => [ChainNext]_chainVars
<1> SUFFICES ASSUME [CallNext]_callVars PROVE [ChainNext]_chainVars
  OBVIOUS
<1>1. CASE Endpoint \/ Environment
  BY <1>1 DEF Endpoint, Environment, OnlyContext, ChainNext
<1>2. CASE Deliver \/ Refuse
  BY <1>2 DEF Deliver, Refuse, Emission, ChainNext, Provider, Chain
<1>3. CASE HumanOffer \/ HumanReturns \/ Handover \/ ChainOffer \/ FallbackReturns \/ BodyOffer \/ CallIdle
  BY <1>3 DEF HumanOffer, HumanReturns, Handover, ChainOffer, FallbackReturns, BodyOffer, CallIdle
<1>4. CASE Alone(ProviderFailed) \/ Alone(TemplateAnswer) \/ Alone(Respond)
           \/ Alone(ProviderFails) \/ Alone(WholeAnswer) \/ Alone(Timeout)
  BY <1>4 DEF Alone, ChainNext, Provider, Chain
<1>5. CASE UNCHANGED callVars
  BY <1>5 DEF callVars
<1> QED
  BY <1>1, <1>2, <1>3, <1>4, <1>5 DEF CallNext, CallHandler, CallProducer, CallProvider

\* The composition adds no behaviour to its parts: what the endpoint sees of a call
\* is a call of ChatStream, what the fallback sees is a call of FallbackChain.
THEOREM CallImplementsParts == CallSpec => Spec /\ ChainSpec
<1>1. CallInit => Init /\ ChainInit
  BY DEF CallInit
<1> QED
  BY <1>1, StepOfEndpoint, StepOfChain, PTL DEF CallSpec, Spec, ChainSpec

\* The endpoint's guarantees, whoever answers.
THEOREM CallCloses ==
  CallSpec => [](CleanEndIsComplete /\ OneOutcome /\ StreamIsClosed)
BY CallImplementsParts, ChatCleanEndIsComplete, ChatOneOutcome, ChatStreamIsClosed, PTL

\* The chain's guarantees, with the endpoint as its emitter.
THEOREM CallFallsBack ==
  CallSpec => [](OneSource /\ SuccessIsComplete /\ FailsOnlyWhenBegun)
BY CallImplementsParts, ChainOneSource, ChainSuccessIsComplete, ChainFailsOnlyWhenBegun, PTL

-----------------------------------------------------------------------------
(* One answer                                                              *)

\* Who answers, and how far they are.
Answering ==
  /\ path \in {"human", "fallback"}
  /\ streaming <=> ask = "stream"
  /\ producer \in {"off", "work", "emit"} => result = None
  /\ path = "human" => Len(sent) = 0
  /\ path = "human" /\ producer = "emit" /\ offered = "finish" => Len(emitted) = Preamble + 1
  /\ path = "human" /\ Finished => Len(emitted) = Preamble + 2
  /\ path = "fallback" =>
       /\ Finished \/ result = "ok" => stage = "answered"
       /\ ask = "stream" => Len(emitted) - Len(sent) \in {0, Preamble}
  /\ ask # "stream" => (status = "ok" => handler = "returned" /\ result = "ok")

CallInv == IInv /\ ChainInv /\ Answering

\* An answer that is complete stays so.
LEMMA AnsweredStays ==
  ASSUME [ChainNext]_chainVars, stage = "answered"
  PROVE  stage' = "answered"
  BY DEF ChainNext, Provider, Chain, Respond, ProviderFails, Timeout, CallEnds, Reading, WholeAnswer,
         ContentEvent, DoneEvent, EmitWhole, FinishWhole, ProviderFailed, TemplateAnswer,
         TemplateEmit, TemplateFinish, CallerEnds, ChainIdle, chainVars

\* A chunk the handler takes is one the chain has sent.
LEMMA EmissionTakes ==
  ASSUME ChainInv, Emission, sent' # sent
  PROVE  /\ Len(sent') = Len(sent) + 1
         /\ offered = "finish" => stage' = "answered"
         /\ UNCHANGED streaming
<1>1. sent \in Seq(Parts)
  BY DEF ChainInv, ChainType
<1>2. CASE offered = "finish" /\ (DoneEvent \/ FinishWhole \/ TemplateFinish)
  <2>1. sent' = Append(sent, "finish") /\ stage' = "answered" /\ UNCHANGED streaming
    BY <1>2 DEF DoneEvent, EndStream, FinishWhole, TemplateFinish, EmitFinish, Emit
  <2> QED
    BY <1>1, <2>1
<1>3. CASE offered = "content" /\ (EmitWhole \/ ContentEvent \/ TemplateEmit)
  <2>1. sent' \in {Append(sent, "llm"), Append(sent, "template")} /\ UNCHANGED streaming
    BY <1>3 DEF EmitWhole, ContentEvent, TemplateEmit, Emit
  <2> QED
    BY <1>1, <1>3, <2>1
<1> QED
  BY <1>2, <1>3 DEF Emission

LEMMA CallStep == CallInv /\ [CallNext]_callVars => Answering'
<1> SUFFICES ASSUME CallInv, [CallNext]_callVars PROVE Answering'
  OBVIOUS
<1>a. IInv /\ ChainInv /\ Answering /\ [ChainNext]_chainVars
  BY StepOfChain DEF CallInv
<1>b. /\ None \notin {"content", "finish", "ok", "error"}
      /\ Preamble \in {0, 1} /\ Len(emitted) \in Nat /\ Len(sent) \in Nat
  BY <1>a, ChatStreamAssumption, ChatCallAssumption
     DEF Preamble, IInv, ChatType, ChainInv, ChainType
<1>c. stage = "answered" => stage' = "answered"
  BY <1>a, AnsweredStays
<1>1. CASE Endpoint
  <2>1. /\ UNCHANGED <<ask, path, offered, emitted, result>>
        /\ UNCHANGED <<streaming, sent, stage>>
        /\ \/ producer' = producer
           \/ handler = "serve" /\ producer' = "work"
    <3>1. UNCHANGED <<path, streaming, sent, stage>>
      BY <1>1 DEF Endpoint, OnlyContext, CallerEnds, chainVars
    <3>2. CASE ServeHTTP
      <4>1. UNCHANGED <<ask, offered, emitted, result>>
        BY <3>2 DEF ServeHTTP
      <4>2. producer' = producer \/ (handler = "serve" /\ producer' = "work")
        BY <3>2 DEF ServeHTTP
      <4> QED
        BY <3>1, <4>1, <4>2
    <3>3. CASE Write \/ TakeResult \/ KeepAliveFails \/ SeeContext
      <4>1. UNCHANGED <<ask, producerVars>>
        BY <3>3 DEF Write, TakeResult, KeepAliveFails, SeeContext
      <4> QED
        BY <3>1, <4>1 DEF producerVars
    <3> QED
      BY <1>1, <3>2, <3>3 DEF Endpoint
  <2>2. ask # "stream" => (status' = "ok" => handler' = "returned" /\ result' = "ok")
    <3>1. ask # "stream" => handler # "write"
      BY <1>a, <1>b DEF IInv, Outcome, Open, Held, Answering
    <3>2. handler # "returned" => status # "error"
      BY <1>a DEF IInv, Outcome, Open
    <3>3. CASE ServeHTTP
      BY <1>a, <1>b, <2>1, <3>3 DEF ServeHTTP, Report, Started, Leave, Answering
    <3>4. CASE TakeResult
      BY <1>a, <1>b, <2>1, <3>4 DEF TakeResult, Report, Started, Leave, Answering
    <3>5. CASE Write \/ KeepAliveFails \/ SeeContext
      BY <1>a, <3>1, <3>5 DEF Write, KeepAliveFails, SeeContext
    <3> QED
      BY <1>1, <3>3, <3>4, <3>5 DEF Endpoint
  <2>3. handler = "serve" => producer = "off" /\ result = None
    BY <1>a DEF IInv, Ordered, Answering
  <2>4. producer' = "emit" => producer = "emit"
    BY <2>1
  <2>5. Finished' <=> Finished
    BY <2>1 DEF Finished
  <2>6. producer' \in {"off", "work", "emit"} => result' = None
    BY <1>a, <2>1, <2>3 DEF Answering
  <2> QED
    BY <1>a, <2>1, <2>2, <2>4, <2>5, <2>6 DEF Answering, Preamble
<1>2. CASE Deliver
  <2>1. /\ producer = "emit" /\ producer' = "work" /\ emitted' = Append(emitted, offered)
        /\ UNCHANGED <<ask, path, result>>
    BY <1>2 DEF Deliver, Receive
  <2>2. offered \in Chunks /\ ask = "stream" /\ emitted \in Seq(Chunks) /\ ~Finished
    BY <1>a, <2>1 DEF IInv, ChatType, Held, Ordered
  <2>3. Len(emitted') = Len(emitted) + 1 /\ (Finished' => offered = "finish")
    BY <2>1, <2>2, FinishIsLast DEF Finished
  <2>4. result' = None
    BY <1>a, <2>1 DEF Answering
  <2>5. CASE path = "human" /\ UNCHANGED chainVars
    <3>1. UNCHANGED <<streaming, sent>>
      BY <2>5 DEF chainVars
    <3>2. Finished' => Len(emitted') = Preamble + 2
      BY <1>a, <1>b, <2>1, <2>3, <2>5 DEF Answering
    <3> QED
      BY <1>a, <1>b, <2>1, <2>2, <2>4, <2>5, <3>1, <3>2 DEF Answering, Preamble
  <2>6. CASE path = "fallback" /\ Emission /\ sent' # sent
    <3>1. /\ Len(sent') = Len(sent) + 1 /\ UNCHANGED streaming
          /\ offered = "finish" => stage' = "answered"
      BY <1>a, <2>6, EmissionTakes
    <3>2. Len(emitted') - Len(sent') \in {0, Preamble}
      BY <1>a, <1>b, <2>2, <2>3, <2>6, <3>1 DEF Answering
    <3>3. Finished' \/ result' = "ok" => stage' = "answered"
      BY <1>b, <2>3, <2>4, <3>1
    <3> QED
      BY <1>a, <2>1, <2>2, <2>4, <2>6, <3>1, <3>2, <3>3 DEF Answering, Preamble
  <2> QED
    BY <1>2, <2>5, <2>6 DEF Deliver
<1>3. CASE Refuse
  <2>1. /\ producer = "emit" /\ producer' = "work"
        /\ UNCHANGED <<ask, path, result, emitted, status, handler, sent, streaming>>
    BY <1>3 DEF Refuse, EmitFails, EmitGivesUp, handlerVars, chainVars, Emission, DoneEvent,
                FinishWhole, TemplateFinish, EmitWhole, ContentEvent, TemplateEmit
  <2>2. Finished' <=> Finished
    BY <2>1 DEF Finished
  <2> QED
    BY <1>a, <1>b, <1>c, <2>1, <2>2 DEF Answering, Preamble
<1>4. CASE HumanOffer \/ ChainOffer \/ BodyOffer
  <2>1. /\ producer = "work" /\ ~Finished
        /\ UNCHANGED <<ask, path, result, emitted, status, handler, sent, streaming>>
        /\ path = "human" /\ offered' = "finish" => Len(emitted) = Preamble + 1
    BY <1>4 DEF HumanOffer, ChainOffer, BodyOffer, Offer, Running, handlerVars, chainVars
  <2>2. Finished' <=> Finished
    BY <2>1 DEF Finished
  <2>3. result = None
    BY <1>a, <2>1 DEF Answering
  <2> QED
    BY <1>a, <1>b, <1>c, <2>1, <2>2, <2>3 DEF Answering, Preamble
<1>5. CASE HumanReturns \/ FallbackReturns
  <2>1. /\ producer = "work" /\ producer' = "ended"
        /\ UNCHANGED <<ask, path, emitted, status, handler, sent, stage, streaming>>
        /\ path = "fallback" /\ result' = "ok" => stage = "answered"
    BY <1>5 DEF HumanReturns, FallbackReturns, ProducerReturns, Running, Mapped, handlerVars, chainVars
  <2>2. Finished' <=> Finished
    BY <2>1 DEF Finished
  <2>3. result = None
    BY <1>a, <2>1 DEF Answering
  <2> QED
    BY <1>a, <1>b, <2>1, <2>2, <2>3 DEF Answering, Preamble
<1>6. CASE Handover
  <2>1. /\ path = "human" /\ producer = "work" /\ Len(emitted) <= Preamble /\ path' = "fallback"
        /\ UNCHANGED <<ask, result, producer, emitted, status, handler, sent, streaming>>
    BY <1>6 DEF Handover, MayHandOver, vars, chainVars, handlerVars, producerVars
  <2>2. ~Finished'
    BY <1>a, <1>b, <2>1 DEF Finished, Answering
  <2>3. result' = None /\ Len(sent) = 0
    BY <1>a, <2>1 DEF Answering
  <2>4. Len(emitted') - Len(sent') \in {0, Preamble}
    BY <1>b, <2>1, <2>3
  <2> QED
    BY <1>a, <1>b, <2>1, <2>2, <2>3, <2>4 DEF Answering, Preamble
<1>7. CASE Alone(ProviderFailed) \/ Alone(TemplateAnswer) \/ Alone(Respond)
           \/ Alone(ProviderFails) \/ Alone(WholeAnswer) \/ Alone(Timeout)
  <2>1. /\ path = "fallback" /\ UNCHANGED <<path, vars>>
        /\ UNCHANGED streaming
        /\ sent' = sent \/ ~streaming
    BY <1>7 DEF Alone, Running, ProviderFailed, TemplateAnswer, Respond, ProviderFails, WholeAnswer,
                Timeout
  <2>2. UNCHANGED <<ask, result, producer, offered, emitted, status, handler>>
    BY <2>1 DEF vars, handlerVars, producerVars
  <2>3. Finished' <=> Finished
    BY <2>2 DEF Finished
  <2> QED
    BY <1>a, <1>c, <2>1, <2>2, <2>3 DEF Answering, Preamble
<1>8. CASE Environment \/ CallIdle \/ UNCHANGED callVars
  <2>1. UNCHANGED <<ask, path, producer, offered, emitted, result, status, handler, streaming, sent,
                    stage>>
    BY <1>8 DEF Environment, ClientLeaves, ContextEnds, OnlyContext, CallerEnds, CallIdle, Idle,
                callVars, vars, chainVars, handlerVars, producerVars
  <2>2. Finished' <=> Finished
    BY <2>1 DEF Finished
  <2> QED
    BY <1>a, <2>1, <2>2 DEF Answering, Preamble
<1> QED
  BY <1>1, <1>2, <1>3, <1>4, <1>5, <1>6, <1>7, <1>8
     DEF CallNext, CallHandler, CallProducer, CallProvider

\* The invariant of the call, from those of its parts.
THEOREM CallInvariant == CallSpec => []CallInv
<1>1. CallInit => Answering
  <2> SUFFICES ASSUME CallInit PROVE Answering
    OBVIOUS
  <2>1. /\ path = "human" /\ streaming = (ask = "stream") /\ result = None /\ producer = "off"
        /\ Len(sent) = 0 /\ status = None /\ emitted = <<>>
    BY DEF CallInit, Init, ChainInit
  <2>2. ~Finished
    BY <2>1 DEF Finished, Range
  <2> QED
    BY <2>1, <2>2, ChatStreamAssumption DEF Answering
<1>2. CallSpec => []IInv /\ []ChainInv
  BY CallImplementsParts, ChatInvariant, ChainInvariant, PTL
<1>3. CallInv /\ [CallNext]_callVars /\ IInv' /\ ChainInv' => CallInv'
  BY CallStep DEF CallInv
<1>4. CallInit => CallInv \/ ~IInv \/ ~ChainInv
  BY <1>1 DEF CallInv
<1> QED
  BY <1>2, <1>3, <1>4, PTL DEF CallSpec

\* A call that ends as a success gave the client one answer, and all of it (execute
\* and generateFallback of service.go).
THEOREM CallHasOneAnswer == CallSpec => []OneAnswer
<1>1. CallInv => OneAnswer
  <2> SUFFICES ASSUME CallInv, CleanEnd
               PROVE  IF path = "human"
                      THEN ask = "stream" => Len(emitted) = Preamble + 2
                      ELSE /\ stage = "answered"
                           /\ ask = "stream" => Len(emitted) - Len(sent) \in {0, Preamble}
    BY DEF OneAnswer
  <2>1. ask = "stream" => Finished
    <3> SUFFICES ASSUME ask = "stream" PROVE Finished
      OBVIOUS
    <3>1. frames \in Seq(Frame) /\ emitted \in Seq(Chunks) /\ Last(emitted) = "finish"
      BY DEF CleanEnd, CallInv, IInv, ChatType, Outcome, CleanEndIsComplete
    <3>2. emitted # <<>>
      BY DEF CleanEnd, CallInv, IInv, Outcome, CleanEndIsComplete
    <3> QED
      BY <3>1, <3>2 DEF Finished, Range, Last
  <2> QED
    BY <2>1 DEF CallInv, Answering, CleanEnd
<1> QED
  BY <1>1, CallInvariant, PTL

=============================================================================
