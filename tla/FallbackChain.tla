---------------------------- MODULE FallbackChain ----------------------------
(***************************************************************************)
(* One call of the fallback (completion/fallback.go): an LLM provider      *)
(* (fallback/openai/openai.go) whose place a fixed template takes when the *)
(* provider fails before it produced anything.  Completion's Fallback is   *)
(* this call in one step.                                                  *)
(*                                                                         *)
(* stage is where the call stands: call (the provider has the request),    *)
(* body (its response is being read), emit and finish (a buffered answer   *)
(* is emitted), failed (the chain looks at the provider's error), template *)
(* (the template looks at the context), opening and closing (it is         *)
(* emitted), then answered or error.                                       *)
(*                                                                         *)
(* ChatCall puts this call behind the endpoint; the names of the parts     *)
(* both modules have begin with Chain here.                                *)
(***************************************************************************)
EXTENDS Naturals, SequencesExt

CONSTANTS MaxEvents   \* bound: content events the provider sends

ASSUME FallbackAssumption == MaxEvents \in Nat

VARIABLES
  streaming, \* the caller gave an emitter
  native,    \* the provider's own stream is used (config Stream)
  ctx,       \* the caller's context is live
  stage,
  events,    \* content events received from the provider
  attempted, \* the emitter was called on the provider's behalf
  sent       \* what the emitter accepted, or the answer that was returned

chainVars == <<streaming, native, ctx, stage, events, attempted, sent>>

Reading == {"call", "body"}

Parts == {"llm", "template", "finish"}

ChainTypeOK ==
  /\ streaming \in BOOLEAN /\ native \in BOOLEAN /\ ctx \in BOOLEAN
  /\ stage \in Reading \cup {"emit", "finish", "failed", "template", "opening",
                              "closing", "answered", "error"}
  /\ events \in 0 .. MaxEvents
  /\ attempted \in BOOLEAN
  /\ sent \in Seq(Parts) /\ Len(sent) <= MaxEvents + 2

\* In template mode there is no provider: the template is all there is.
ChainInit ==
  /\ streaming \in BOOLEAN /\ native \in BOOLEAN /\ ctx \in BOOLEAN
  /\ stage \in {"call", "template"} /\ events = 0 /\ attempted = FALSE /\ sent = <<>>

\* The response is consumed event by event.
Native == streaming /\ native

-----------------------------------------------------------------------------
(* The emitter                                                             *)

Template == {"template", "opening", "closing"}

\* The emitter takes the part, or refuses it because the context is over; the
\* chain looks at an error of the provider's once more.
Emit(part, next) ==
  \/ sent' = Append(sent, part) /\ stage' = next
  \/ /\ ~ctx
     /\ UNCHANGED sent
     /\ stage' = IF stage \in Template THEN "error" ELSE "failed"

\* The chain notes that the provider produced something before it passes the
\* chunk on.
NoteAttempt == attempted' = TRUE

-----------------------------------------------------------------------------
(* The provider: openai.go                                                 *)

\* The request is answered with a success status.
Respond ==
  /\ stage = "call"
  /\ stage' = "body"
  /\ UNCHANGED <<streaming, native, ctx, events, attempted, sent>>

\* The provider refuses, breaks off, sends what cannot be decoded, or a response
\* that ends before [DONE] or without text.
ProviderFails ==
  /\ stage \in Reading
  /\ stage' = "failed"
  /\ UNCHANGED <<streaming, native, ctx, events, attempted, sent>>

\* Seeded fault: the provider is waited for without a limit.
NoTimeout == FALSE

\* The timeout of the call, or the end of the caller's context, ends it.
CallEnds == stage \in Reading

Timeout ==
  /\ CallEnds
  /\ stage' = "failed"
  /\ UNCHANGED <<streaming, native, ctx, events, attempted, sent>>

\* A whole answer, not blank: returned, or emitted in one piece.
WholeAnswer ==
  /\ stage = "body" /\ ~Native
  /\ IF streaming THEN stage' = "emit" /\ UNCHANGED sent
                  ELSE stage' = "answered" /\ sent' = <<"llm">>
  /\ UNCHANGED <<streaming, native, ctx, events, attempted>>

EmitWhole ==
  /\ stage = "emit"
  /\ Emit("llm", "finish") /\ NoteAttempt
  /\ UNCHANGED <<streaming, native, ctx, events>>

\* One event of the stream with text.
ContentEvent ==
  /\ stage = "body" /\ Native /\ events < MaxEvents
  /\ events' = events + 1
  /\ Emit("llm", "body") /\ NoteAttempt
  /\ UNCHANGED <<streaming, native, ctx>>

\* Seeded fault: [DONE] is believed whatever came before.
EmptyStreamEnds == TRUE

MayEnd == events > 0

EndStream == Emit("finish", "answered")

\* [DONE], which an answer without text must not send.
DoneEvent ==
  /\ stage = "body" /\ Native /\ MayEnd
  /\ EndStream /\ NoteAttempt
  /\ UNCHANGED <<streaming, native, ctx, events>>

\* The finish chunk of a buffered answer.
FinishWhole ==
  /\ stage = "finish"
  /\ Emit("finish", "answered") /\ NoteAttempt
  /\ UNCHANGED <<streaming, native, ctx, events>>

-----------------------------------------------------------------------------
(* The chain and the template: fallback.go                                 *)

\* Seeded fault: the template follows whatever the provider left.
TemplateAlways == ctx

\* Seeded fault: the template stands in for a buffered answer only.
TemplateForCallers == ctx /\ ~attempted /\ ~streaming

UseTemplate == ctx /\ ~attempted

ProviderFailed ==
  /\ stage = "failed"
  /\ stage' = IF UseTemplate THEN "template" ELSE "error"
  /\ UNCHANGED <<streaming, native, ctx, events, attempted, sent>>

\* The template looks at the context once more.
TemplateAnswer ==
  /\ stage = "template"
  /\ \/ ~ctx /\ stage' = "error" /\ UNCHANGED sent
     \/ ctx /\ ~streaming /\ stage' = "answered" /\ sent' = <<"template">>
     \/ ctx /\ streaming /\ stage' = "opening" /\ UNCHANGED sent
  /\ UNCHANGED <<streaming, native, ctx, events, attempted>>

\* The context may end while the emitter is still waited for.
TemplateEmit ==
  /\ stage = "opening"
  /\ Emit("template", "closing")
  /\ UNCHANGED <<streaming, native, ctx, events, attempted>>

EmitFinish == Emit("finish", "answered")

TemplateFinish ==
  /\ stage = "closing"
  /\ EmitFinish
  /\ UNCHANGED <<streaming, native, ctx, events, attempted>>

\* The caller leaves, or the runtime ends the request.
CallerEnds ==
  /\ ctx /\ ctx' = FALSE
  /\ UNCHANGED <<streaming, native, stage, events, attempted, sent>>

ChainIdle == stage \in {"answered", "error"} /\ UNCHANGED chainVars

Provider == Respond \/ ProviderFails \/ WholeAnswer \/ ContentEvent \/ DoneEvent

Chain == \/ EmitWhole \/ FinishWhole \/ ProviderFailed
         \/ TemplateAnswer \/ TemplateEmit \/ TemplateFinish

ChainNext == Provider \/ Timeout \/ Chain \/ CallerEnds \/ ChainIdle

ChainSpec == ChainInit /\ [][ChainNext]_chainVars

-----------------------------------------------------------------------------
(* Properties                                                              *)

\* "uses terminal when primary fails before producing a response" (fallback.go
\* lines 53-54): what the caller gets comes from one of the two, never from both.
OneSource == ~(Contains(sent, "llm") /\ Contains(sent, "template"))

\* A call that succeeds has delivered text and, to an emitter, one finish chunk
\* right after the last of it.
SuccessIsComplete ==
  stage = "answered" =>
    /\ sent # <<>> /\ Head(sent) # "finish"
    /\ streaming = (Last(sent) = "finish")
    /\ \A i \in 1 .. Len(sent) - 1 : sent[i] # "finish"

\* The template is there for every failure of the provider it can stand in for:
\* while the caller's context is live the chain fails only for a stream that had
\* begun.  This is what Completion's Fallback takes for granted.
FailsOnlyWhenBegun ==
  stage = "error" => ~ctx \/ (Native /\ Contains(sent, "llm"))

=============================================================================
