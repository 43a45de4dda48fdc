------------------------ MODULE FallbackChainProofs ------------------------
(***************************************************************************)
(* What one call of the fallback chain guarantees, for every number of     *)
(* content events.                                                         *)
(***************************************************************************)
EXTENDS FallbackChain, TLAPS

\* The number of parts the emitter has accepted.
Count == Len(sent)

\* What the emitter has accepted, by the place where the call stands: the provider's
\* text and nothing else while it is being read, nothing when the template looks at
\* the context, and the template alone after that.
Shape ==
  /\ stage \in {"call", "emit", "template", "opening"} => Count = 0
  /\ stage \in {"call", "emit"} => ~attempted /\ events = 0
  /\ stage \in {"emit", "finish"} => streaming /\ ~native /\ events = 0
  /\ stage \in {"opening", "closing"} => streaming
  /\ stage = "finish" => Count = 1 /\ sent[1] = "llm"
  /\ stage = "closing" => Count = 1 /\ sent[1] = "template"
  /\ stage = "body" => Count = events /\ (attempted <=> events > 0)
  /\ stage = "body" /\ ~Native => ~attempted
  /\ stage \in {"body", "failed"} =>
       /\ \A i \in 1 .. Count : sent[i] = "llm"
       /\ ~attempted => Count = 0

\* The chain fails while the context is live only after a stream has begun.
Begun ==
  /\ stage = "failed" /\ attempted /\ ctx => Native /\ Count > 0
  /\ stage = "error" => ~ctx \/ (Native /\ \E i \in 1 .. Count : sent[i] = "llm")

\* The template has nothing of the provider's before it or after it.
Pure ==
  \/ \A i \in 1 .. Count : sent[i] # "template"
  \/ \A i \in 1 .. Count : sent[i] # "llm"

ChainBounded ==
  /\ Count <= events + 2
  /\ stage # "answered" => Count <= events + 1

\* Text first, and a finish chunk at the end for an emitter alone.
Complete ==
  stage = "answered" =>
    /\ Count > 0 /\ sent[1] # "finish"
    /\ streaming <=> sent[Count] = "finish"
    /\ \A i \in 1 .. Count - 1 : sent[i] # "finish"

ChainType ==
  /\ streaming \in BOOLEAN /\ native \in BOOLEAN /\ ctx \in BOOLEAN
  /\ stage \in Reading \cup {"emit", "finish", "failed", "template", "opening",
                              "closing", "answered", "error"}
  /\ events \in 0 .. MaxEvents
  /\ attempted \in BOOLEAN
  /\ sent \in Seq(Parts)

ChainInv == ChainType /\ Shape /\ Begun /\ Pure /\ ChainBounded /\ Complete

\* An accepted chunk is the last of the sequence.
LEMMA AppendPart ==
  ASSUME NEW s \in Seq(Parts), NEW x \in Parts, NEW t, t = Append(s, x)
  PROVE  /\ t \in Seq(Parts)
         /\ Len(t) = Len(s) + 1
         /\ t[Len(s) + 1] = x
         /\ \A i \in 1 .. Len(s) : t[i] = s[i]
  OBVIOUS

\* An answer in one piece is a sequence of one part.
LEMMA OnePart ==
  ASSUME NEW x \in Parts
  PROVE  <<x>> \in Seq(Parts) /\ Len(<<x>>) = 1 /\ <<x>>[1] = x
  OBVIOUS

LEMMA SingleIndex == \A i \in 1 .. 1 : i = 1
  OBVIOUS

\* Every step of the chain keeps the invariant.
LEMMA ChainStep == ChainInv /\ [ChainNext]_chainVars => ChainInv'
<1> USE FallbackAssumption
<1> SUFFICES ASSUME ChainInv, [ChainNext]_chainVars PROVE ChainInv'
  OBVIOUS
<1>a. /\ ChainType /\ Shape /\ Begun /\ Pure /\ ChainBounded /\ Complete
      /\ Count \in Nat /\ MaxEvents \in Nat /\ events \in Nat
  BY DEF ChainInv, ChainType, Count
<1> USE DEF Native
<1>1. CASE Respond
  <2> USE <1>1 DEF Respond
  <2>0. sent' = sent /\ Count' = Count
    BY DEF Count
  <2>1. ChainType'
    BY <1>a, <2>0 DEF ChainType, Reading
  <2>2. Shape'
    BY <1>a, <2>0 DEF ChainType, Reading, Shape
  <2>3. Begun'
    BY <1>a, <2>0 DEF ChainType, Begun, Shape
  <2>4. Pure'
    BY <1>a, <2>0 DEF Pure, Shape
  <2>5. ChainBounded'
    BY <1>a, <2>0 DEF ChainBounded, Shape
  <2>6. Complete'
    BY <1>a, <2>0 DEF ChainType, Parts, Complete, Shape
  <2> QED
    BY <2>1, <2>2, <2>3, <2>4, <2>5, <2>6 DEF ChainInv
<1>2. CASE ProviderFails
  <2> USE <1>2 DEF ProviderFails, Reading
  <2>0. sent' = sent /\ Count' = Count
    BY DEF Count
  <2>1. ChainType'
    BY <1>a, <2>0 DEF ChainType, Reading
  <2>2. Shape'
    BY <1>a, <2>0 DEF ChainType, Reading, Shape
  <2>3. Begun'
    BY <1>a, <2>0 DEF ChainType, Begun, Shape
  <2>4. Pure'
    BY <1>a, <2>0 DEF Pure, Shape
  <2>5. ChainBounded'
    BY <1>a, <2>0 DEF ChainBounded, Shape
  <2>6. Complete'
    BY <1>a, <2>0 DEF ChainType, Parts, Complete, Shape
  <2> QED
    BY <2>1, <2>2, <2>3, <2>4, <2>5, <2>6 DEF ChainInv
<1>3. CASE Timeout
  <2> USE <1>3 DEF Timeout, CallEnds, Reading
  <2>0. sent' = sent /\ Count' = Count
    BY DEF Count
  <2>1. ChainType'
    BY <1>a, <2>0 DEF ChainType, Reading
  <2>2. Shape'
    BY <1>a, <2>0 DEF ChainType, Reading, Shape
  <2>3. Begun'
    BY <1>a, <2>0 DEF ChainType, Begun, Shape
  <2>4. Pure'
    BY <1>a, <2>0 DEF Pure, Shape
  <2>5. ChainBounded'
    BY <1>a, <2>0 DEF ChainBounded, Shape
  <2>6. Complete'
    BY <1>a, <2>0 DEF ChainType, Parts, Complete, Shape
  <2> QED
    BY <2>1, <2>2, <2>3, <2>4, <2>5, <2>6 DEF ChainInv
<1>4. CASE WholeAnswer
  <2>a. \/ streaming /\ stage' = "emit" /\ sent' = sent /\ Count' = Count
        \/ /\ ~streaming /\ stage' = "answered" /\ sent' \in Seq(Parts)
           /\ Count' = 1 /\ sent'[1] = "llm"
    BY <1>4, OnePart DEF WholeAnswer, Parts, Count
  <2>b. /\ stage = "body" /\ ~Native /\ events = 0 /\ Count = 0 /\ ~attempted
        /\ UNCHANGED <<streaming, native, ctx, events, attempted>>
    BY <1>a, <1>4 DEF WholeAnswer, Shape, ChainType
  <2>1. ChainType'
    BY <1>a, <2>a, <2>b DEF ChainType, Reading, Parts
  <2>2. Shape'
    BY <2>a, <2>b DEF Shape
  <2>3. Begun'
    BY <1>a, <2>a, <2>b DEF ChainType, Begun, Shape, Parts
  <2>4. Pure'
    BY <1>a, <2>a, <2>b DEF Pure, Shape, Parts
  <2>5. ChainBounded'
    BY <1>a, <2>a, <2>b DEF ChainBounded, Shape, Parts
  <2>6. Complete'
    BY <1>a, <2>a, <2>b DEF ChainType, Parts, Complete, Shape
  <2> QED
    BY <2>1, <2>2, <2>3, <2>4, <2>5, <2>6 DEF ChainInv
<1>5. CASE EmitWhole
  <2>a. /\ stage = "emit" /\ attempted' = TRUE /\ UNCHANGED <<streaming, native, ctx, events>>
        /\ \/ sent' = Append(sent, "llm") /\ stage' = "finish"
           \/ ~ctx /\ sent' = sent /\ Count' = Count /\ stage' = "failed"
    BY <1>5 DEF EmitWhole, Emit, Template, Count, NoteAttempt
  <2>b. CASE sent' = Append(sent, "llm") /\ stage' = "finish"
    <3>a. /\ sent' \in Seq(Parts) /\ Count' = Count + 1
          /\ sent'[Count + 1] = "llm"
          /\ \A i \in 1 .. Count : sent'[i] = sent[i]
      BY <1>a, <2>b, AppendPart DEF ChainType, Parts, Count
    <3>1. ChainType'
        BY <1>a, <2>a, <2>b, <3>a DEF ChainType, Reading
    <3>2. Shape'
        BY <1>a, <2>a, <2>b, <3>a DEF ChainType, Reading, Shape
    <3>3. Begun'
        BY <1>a, <2>a, <2>b, <3>a DEF ChainType, Begun, Shape
    <3>4. Pure'
        BY <1>a, <2>a, <2>b, <3>a DEF Pure, Shape
    <3>5. ChainBounded'
        BY <1>a, <2>a, <2>b, <3>a DEF ChainBounded, Shape
    <3>6. Complete'
        BY <1>a, <2>a, <2>b, <3>a DEF ChainType, Parts, Complete, Shape
    <3> QED
        BY <3>1, <3>2, <3>3, <3>4, <3>5, <3>6 DEF ChainInv
  <2>c. CASE ~ctx /\ sent' = sent /\ Count' = Count /\ stage' = "failed"
    <3>1. ChainType'
        BY <1>a, <2>a, <2>c DEF ChainType, Reading
    <3>a. \A i \in 1 .. Count : sent[i] = "llm"
      BY <1>a, <2>a, SingleIndex DEF Shape
    <3>2. Shape'
        BY <1>a, <2>a, <2>c, <3>a DEF ChainType, Reading, Shape
    <3>3. Begun'
        BY <1>a, <2>a, <2>c DEF ChainType, Begun, Shape
    <3>4. Pure'
        BY <1>a, <2>a, <2>c DEF Pure, Shape
    <3>5. ChainBounded'
        BY <1>a, <2>a, <2>c DEF ChainBounded, Shape
    <3>6. Complete'
        BY <1>a, <2>a, <2>c DEF ChainType, Parts, Complete, Shape
    <3> QED
        BY <3>1, <3>2, <3>3, <3>4, <3>5, <3>6 DEF ChainInv
  <2> QED
    BY <2>a, <2>b, <2>c
<1>6. CASE ContentEvent
  <2>a. /\ stage = "body" /\ Native /\ events < MaxEvents /\ events' = events + 1 /\ attempted' = TRUE
        /\ UNCHANGED <<streaming, native, ctx>>
        /\ \/ sent' = Append(sent, "llm") /\ stage' = "body"
           \/ ~ctx /\ sent' = sent /\ Count' = Count /\ stage' = "failed"
    BY <1>6 DEF ContentEvent, Emit, Template, Count, NoteAttempt
  <2>b. CASE sent' = Append(sent, "llm") /\ stage' = "body"
    <3>a. /\ sent' \in Seq(Parts) /\ Count' = Count + 1
          /\ sent'[Count + 1] = "llm"
          /\ \A i \in 1 .. Count : sent'[i] = sent[i]
      BY <1>a, <2>b, AppendPart DEF ChainType, Parts, Count
    <3>b. \A i \in 1 .. Count' : i \in 1 .. Count \/ i = Count + 1
      BY <1>a, <3>a
    <3>c. \A i \in 1 .. Count' : sent'[i] = "llm"
      BY <1>a, <2>a, <3>a, <3>b DEF Shape
    <3>d. Count' = events' /\ attempted' /\ events' > 0 /\ Native'
      BY <1>a, <2>a, <2>b, <3>a DEF Shape
    <3>1. ChainType'
        BY <1>a, <2>a, <2>b, <3>a DEF ChainType, Reading
    <3>2. Shape'
        BY <2>b, <3>c, <3>d DEF Shape
    <3>3. Begun'
        BY <1>a, <2>a, <2>b, <3>a DEF ChainType, Begun, Shape
    <3>4. Pure'
        BY <3>c DEF Pure
    <3>5. ChainBounded'
        BY <1>a, <2>a, <2>b, <3>a DEF ChainBounded, Shape
    <3>6. Complete'
        BY <1>a, <2>a, <2>b, <3>a DEF ChainType, Parts, Complete, Shape
    <3> QED
        BY <3>1, <3>2, <3>3, <3>4, <3>5, <3>6 DEF ChainInv
  <2>c. CASE ~ctx /\ sent' = sent /\ Count' = Count /\ stage' = "failed"
    <3>1. ChainType'
        BY <1>a, <2>a, <2>c DEF ChainType, Reading
    <3>a. \A i \in 1 .. Count : sent[i] = "llm"
      BY <1>a, <2>a, SingleIndex DEF Shape
    <3>2. Shape'
        BY <1>a, <2>a, <2>c, <3>a DEF ChainType, Reading, Shape
    <3>3. Begun'
        BY <1>a, <2>a, <2>c DEF ChainType, Begun, Shape
    <3>4. Pure'
        BY <1>a, <2>a, <2>c DEF Pure, Shape
    <3>5. ChainBounded'
        BY <1>a, <2>a, <2>c DEF ChainBounded, Shape
    <3>6. Complete'
        BY <1>a, <2>a, <2>c DEF ChainType, Parts, Complete, Shape
    <3> QED
        BY <3>1, <3>2, <3>3, <3>4, <3>5, <3>6 DEF ChainInv
  <2> QED
    BY <2>a, <2>b, <2>c
<1>7. CASE DoneEvent
  <2>a. /\ stage = "body" /\ Native /\ events > 0 /\ attempted' = TRUE
        /\ UNCHANGED <<streaming, native, ctx, events>>
        /\ \/ sent' = Append(sent, "finish") /\ stage' = "answered"
           \/ ~ctx /\ sent' = sent /\ Count' = Count /\ stage' = "failed"
    BY <1>7 DEF DoneEvent, Emit, Template, Count, NoteAttempt, EndStream, MayEnd
  <2>b. CASE sent' = Append(sent, "finish") /\ stage' = "answered"
    <3>a. /\ sent' \in Seq(Parts) /\ Count' = Count + 1
          /\ sent'[Count + 1] = "finish"
          /\ \A i \in 1 .. Count : sent'[i] = sent[i]
      BY <1>a, <2>b, AppendPart DEF ChainType, Parts, Count
    <3>b. streaming /\ Count > 0 /\ \A i \in 1 .. Count : sent[i] # "finish"
      BY <1>a, <2>a, SingleIndex DEF ChainType, Shape
    <3>c. /\ Count' > 0 /\ sent'[Count'] = "finish" /\ Count' - 1 = Count
          /\ \A i \in 1 .. Count : sent'[i] # "finish"
          /\ sent'[1] # "finish" /\ streaming'
      BY <1>a, <2>a, <3>a, <3>b
    <3>1. ChainType'
        BY <1>a, <2>a, <2>b, <3>a DEF ChainType, Reading
    <3>2. Shape'
        BY <1>a, <2>a, <2>b, <3>a DEF ChainType, Reading, Shape
    <3>3. Begun'
        BY <1>a, <2>a, <2>b, <3>a DEF ChainType, Begun, Shape
    <3>4. Pure'
        BY <1>a, <2>a, <2>b, <3>a DEF Pure, Shape
    <3>5. ChainBounded'
        BY <1>a, <2>a, <2>b, <3>a DEF ChainBounded, Shape
    <3>6. Complete'
        BY <3>c DEF Complete
    <3> QED
        BY <3>1, <3>2, <3>3, <3>4, <3>5, <3>6 DEF ChainInv
  <2>c. CASE ~ctx /\ sent' = sent /\ Count' = Count /\ stage' = "failed"
    <3>1. ChainType'
        BY <1>a, <2>a, <2>c DEF ChainType, Reading
    <3>a. \A i \in 1 .. Count : sent[i] = "llm"
      BY <1>a, <2>a, SingleIndex DEF Shape
    <3>2. Shape'
        BY <1>a, <2>a, <2>c, <3>a DEF ChainType, Reading, Shape
    <3>3. Begun'
        BY <1>a, <2>a, <2>c DEF ChainType, Begun, Shape
    <3>4. Pure'
        BY <1>a, <2>a, <2>c DEF Pure, Shape
    <3>5. ChainBounded'
        BY <1>a, <2>a, <2>c DEF ChainBounded, Shape
    <3>6. Complete'
        BY <1>a, <2>a, <2>c DEF ChainType, Parts, Complete, Shape
    <3> QED
        BY <3>1, <3>2, <3>3, <3>4, <3>5, <3>6 DEF ChainInv
  <2> QED
    BY <2>a, <2>b, <2>c
<1>8. CASE FinishWhole
  <2>a. /\ stage = "finish" /\ attempted' = TRUE /\ UNCHANGED <<streaming, native, ctx, events>>
        /\ \/ sent' = Append(sent, "finish") /\ stage' = "answered"
           \/ ~ctx /\ sent' = sent /\ Count' = Count /\ stage' = "failed"
    BY <1>8 DEF FinishWhole, Emit, Template, Count, NoteAttempt
  <2>b. CASE sent' = Append(sent, "finish") /\ stage' = "answered"
    <3>a. /\ sent' \in Seq(Parts) /\ Count' = Count + 1
          /\ sent'[Count + 1] = "finish"
          /\ \A i \in 1 .. Count : sent'[i] = sent[i]
      BY <1>a, <2>b, AppendPart DEF ChainType, Parts, Count
    <3>b. streaming /\ Count > 0 /\ \A i \in 1 .. Count : sent[i] # "finish"
      BY <1>a, <2>a, SingleIndex DEF ChainType, Shape
    <3>c. /\ Count' > 0 /\ sent'[Count'] = "finish" /\ Count' - 1 = Count
          /\ \A i \in 1 .. Count : sent'[i] # "finish"
          /\ sent'[1] # "finish" /\ streaming'
      BY <1>a, <2>a, <3>a, <3>b
    <3>1. ChainType'
        BY <1>a, <2>a, <2>b, <3>a DEF ChainType, Reading
    <3>2. Shape'
        BY <1>a, <2>a, <2>b, <3>a DEF ChainType, Reading, Shape
    <3>3. Begun'
        BY <1>a, <2>a, <2>b, <3>a DEF ChainType, Begun, Shape
    <3>4. Pure'
        BY <1>a, <2>a, <2>b, <3>a DEF Pure, Shape
    <3>5. ChainBounded'
        BY <1>a, <2>a, <2>b, <3>a DEF ChainBounded, Shape
    <3>6. Complete'
        BY <3>c DEF Complete
    <3> QED
        BY <3>1, <3>2, <3>3, <3>4, <3>5, <3>6 DEF ChainInv
  <2>c. CASE ~ctx /\ sent' = sent /\ Count' = Count /\ stage' = "failed"
    <3>1. ChainType'
        BY <1>a, <2>a, <2>c DEF ChainType, Reading
    <3>a. \A i \in 1 .. Count : sent[i] = "llm"
      BY <1>a, <2>a, SingleIndex DEF Shape
    <3>2. Shape'
        BY <1>a, <2>a, <2>c, <3>a DEF ChainType, Reading, Shape
    <3>3. Begun'
        BY <1>a, <2>a, <2>c DEF ChainType, Begun, Shape
    <3>4. Pure'
        BY <1>a, <2>a, <2>c DEF Pure, Shape
    <3>5. ChainBounded'
        BY <1>a, <2>a, <2>c DEF ChainBounded, Shape
    <3>6. Complete'
        BY <1>a, <2>a, <2>c DEF ChainType, Parts, Complete, Shape
    <3> QED
        BY <3>1, <3>2, <3>3, <3>4, <3>5, <3>6 DEF ChainInv
  <2> QED
    BY <2>a, <2>b, <2>c
<1>9. CASE ProviderFailed
  <2> USE <1>9 DEF ProviderFailed, UseTemplate
  <2>0. sent' = sent /\ Count' = Count
    BY DEF Count
  <2>1. ChainType'
    BY <1>a, <2>0 DEF ChainType, Reading
  <2>2. Shape'
    BY <1>a, <2>0 DEF ChainType, Reading, Shape
  <2>3. Begun'
    BY <1>a, <2>0 DEF ChainType, Begun, Shape
  <2>4. Pure'
    BY <1>a, <2>0 DEF Pure, Shape
  <2>5. ChainBounded'
    BY <1>a, <2>0 DEF ChainBounded, Shape
  <2>6. Complete'
    BY <1>a, <2>0 DEF ChainType, Parts, Complete, Shape
  <2> QED
    BY <2>1, <2>2, <2>3, <2>4, <2>5, <2>6 DEF ChainInv
<1>10. CASE TemplateAnswer
  <2>a. \/ stage' \in {"error", "opening"} /\ sent' = sent /\ Count' = Count
        \/ /\ ~streaming /\ stage' = "answered" /\ sent' \in Seq(Parts)
           /\ Count' = 1 /\ sent'[1] = "template"
    BY <1>10, OnePart DEF TemplateAnswer, Parts, Count
  <2>b. /\ stage = "template" /\ Count = 0
        /\ stage' = "error" => ~ctx
        /\ stage' = "opening" => streaming
        /\ UNCHANGED <<streaming, native, ctx, events, attempted>>
    BY <1>a, <1>10 DEF TemplateAnswer, Shape
  <2>1. ChainType'
    BY <1>a, <2>a, <2>b DEF ChainType, Reading, Parts
  <2>2. Shape'
    BY <1>a, <2>a, <2>b DEF ChainType, Reading, Shape, Parts
  <2>3. Begun'
    BY <1>a, <2>a, <2>b DEF ChainType, Begun, Shape, Parts
  <2>4. Pure'
    BY <1>a, <2>a, <2>b DEF Pure, Shape, Parts
  <2>5. ChainBounded'
    BY <1>a, <2>a, <2>b DEF ChainBounded, Shape, Parts
  <2>6. Complete'
    BY <1>a, <2>a, <2>b DEF ChainType, Parts, Complete, Shape
  <2> QED
    BY <2>1, <2>2, <2>3, <2>4, <2>5, <2>6 DEF ChainInv
<1>11. CASE TemplateEmit
  <2>a. /\ stage = "opening" /\ UNCHANGED <<streaming, native, ctx, events, attempted>>
        /\ \/ sent' = Append(sent, "template") /\ stage' = "closing"
           \/ ~ctx /\ sent' = sent /\ Count' = Count /\ stage' = "error"
    BY <1>11 DEF TemplateEmit, Emit, Template, Count
  <2>b. CASE sent' = Append(sent, "template") /\ stage' = "closing"
    <3>a. /\ sent' \in Seq(Parts) /\ Count' = Count + 1
          /\ sent'[Count + 1] = "template"
          /\ \A i \in 1 .. Count : sent'[i] = sent[i]
      BY <1>a, <2>b, AppendPart DEF ChainType, Parts, Count
    <3>1. ChainType'
        BY <1>a, <2>a, <2>b, <3>a DEF ChainType, Reading
    <3>2. Shape'
        BY <1>a, <2>a, <2>b, <3>a DEF ChainType, Reading, Shape
    <3>3. Begun'
        BY <1>a, <2>a, <2>b, <3>a DEF ChainType, Begun, Shape
    <3>4. Pure'
        BY <1>a, <2>a, <2>b, <3>a DEF Pure, Shape
    <3>5. ChainBounded'
        BY <1>a, <2>a, <2>b, <3>a DEF ChainBounded, Shape
    <3>6. Complete'
        BY <1>a, <2>a, <2>b, <3>a DEF ChainType, Parts, Complete, Shape
    <3> QED
        BY <3>1, <3>2, <3>3, <3>4, <3>5, <3>6 DEF ChainInv
  <2>c. CASE ~ctx /\ sent' = sent /\ Count' = Count /\ stage' = "error"
    <3>1. ChainType'
        BY <1>a, <2>a, <2>c DEF ChainType, Reading
    <3>2. Shape'
        BY <1>a, <2>a, <2>c DEF ChainType, Reading, Shape
    <3>3. Begun'
        BY <1>a, <2>a, <2>c DEF ChainType, Begun, Shape
    <3>4. Pure'
        BY <1>a, <2>a, <2>c DEF Pure, Shape
    <3>5. ChainBounded'
        BY <1>a, <2>a, <2>c DEF ChainBounded, Shape
    <3>6. Complete'
        BY <1>a, <2>a, <2>c DEF ChainType, Parts, Complete, Shape
    <3> QED
        BY <3>1, <3>2, <3>3, <3>4, <3>5, <3>6 DEF ChainInv
  <2> QED
    BY <2>a, <2>b, <2>c
<1>12. CASE TemplateFinish
  <2>a. /\ stage = "closing" /\ UNCHANGED <<streaming, native, ctx, events, attempted>>
        /\ \/ sent' = Append(sent, "finish") /\ stage' = "answered"
           \/ ~ctx /\ sent' = sent /\ Count' = Count /\ stage' = "error"
    BY <1>12 DEF TemplateFinish, Emit, Template, Count, EmitFinish
  <2>b. CASE sent' = Append(sent, "finish") /\ stage' = "answered"
    <3>a. /\ sent' \in Seq(Parts) /\ Count' = Count + 1
          /\ sent'[Count + 1] = "finish"
          /\ \A i \in 1 .. Count : sent'[i] = sent[i]
      BY <1>a, <2>b, AppendPart DEF ChainType, Parts, Count
    <3>b. streaming /\ Count > 0 /\ \A i \in 1 .. Count : sent[i] # "finish"
      BY <1>a, <2>a, SingleIndex DEF ChainType, Shape
    <3>c. /\ Count' > 0 /\ sent'[Count'] = "finish" /\ Count' - 1 = Count
          /\ \A i \in 1 .. Count : sent'[i] # "finish"
          /\ sent'[1] # "finish" /\ streaming'
      BY <1>a, <2>a, <3>a, <3>b
    <3>1. ChainType'
        BY <1>a, <2>a, <2>b, <3>a DEF ChainType, Reading
    <3>2. Shape'
        BY <1>a, <2>a, <2>b, <3>a DEF ChainType, Reading, Shape
    <3>3. Begun'
        BY <1>a, <2>a, <2>b, <3>a DEF ChainType, Begun, Shape
    <3>4. Pure'
        BY <1>a, <2>a, <2>b, <3>a DEF Pure, Shape
    <3>5. ChainBounded'
        BY <1>a, <2>a, <2>b, <3>a DEF ChainBounded, Shape
    <3>6. Complete'
        BY <3>c DEF Complete
    <3> QED
        BY <3>1, <3>2, <3>3, <3>4, <3>5, <3>6 DEF ChainInv
  <2>c. CASE ~ctx /\ sent' = sent /\ Count' = Count /\ stage' = "error"
    <3>1. ChainType'
        BY <1>a, <2>a, <2>c DEF ChainType, Reading
    <3>2. Shape'
        BY <1>a, <2>a, <2>c DEF ChainType, Reading, Shape
    <3>3. Begun'
        BY <1>a, <2>a, <2>c DEF ChainType, Begun, Shape
    <3>4. Pure'
        BY <1>a, <2>a, <2>c DEF Pure, Shape
    <3>5. ChainBounded'
        BY <1>a, <2>a, <2>c DEF ChainBounded, Shape
    <3>6. Complete'
        BY <1>a, <2>a, <2>c DEF ChainType, Parts, Complete, Shape
    <3> QED
        BY <3>1, <3>2, <3>3, <3>4, <3>5, <3>6 DEF ChainInv
  <2> QED
    BY <2>a, <2>b, <2>c
<1>13. CASE CallerEnds
  <2> USE <1>13 DEF CallerEnds
  <2>0. sent' = sent /\ Count' = Count
    BY DEF Count
  <2>1. ChainType'
    BY <1>a, <2>0 DEF ChainType, Reading
  <2>2. Shape'
    BY <1>a, <2>0 DEF ChainType, Reading, Shape
  <2>3. Begun'
    BY <1>a, <2>0 DEF ChainType, Begun, Shape
  <2>4. Pure'
    BY <1>a, <2>0 DEF Pure, Shape
  <2>5. ChainBounded'
    BY <1>a, <2>0 DEF ChainBounded, Shape
  <2>6. Complete'
    BY <1>a, <2>0 DEF ChainType, Parts, Complete, Shape
  <2> QED
    BY <2>1, <2>2, <2>3, <2>4, <2>5, <2>6 DEF ChainInv
<1>14. CASE ChainIdle
  <2> USE <1>14 DEF ChainIdle, chainVars
  <2>0. sent' = sent /\ Count' = Count
    BY DEF Count
  <2>1. ChainType'
    BY <1>a, <2>0 DEF ChainType, Reading
  <2>2. Shape'
    BY <1>a, <2>0 DEF ChainType, Reading, Shape
  <2>3. Begun'
    BY <1>a, <2>0 DEF ChainType, Begun, Shape
  <2>4. Pure'
    BY <1>a, <2>0 DEF Pure, Shape
  <2>5. ChainBounded'
    BY <1>a, <2>0 DEF ChainBounded, Shape
  <2>6. Complete'
    BY <1>a, <2>0 DEF ChainType, Parts, Complete, Shape
  <2> QED
    BY <2>1, <2>2, <2>3, <2>4, <2>5, <2>6 DEF ChainInv
<1>15. CASE UNCHANGED chainVars
  BY <1>15, <1>a DEF Count, chainVars, ChainInv, ChainType, Reading, Shape, Begun, Pure, ChainBounded, Complete
<1> QED
  BY <1>1, <1>2, <1>3, <1>4, <1>5, <1>6, <1>7, <1>8,
     <1>9, <1>10, <1>11, <1>12, <1>13, <1>14, <1>15 DEF ChainNext, Provider, Chain

\* The invariant holds in every reachable state.
THEOREM ChainInvariant == ChainSpec => []ChainInv
<1>1. ChainInit => ChainInv
  <2> SUFFICES ASSUME ChainInit PROVE ChainInv
    OBVIOUS
  <2>1. sent = <<>> /\ stage \in {"call", "template"} /\ events = 0 /\ ~attempted /\ Count = 0
    BY DEF ChainInit, Count
  <2>2. <<>> \in Seq(Parts)
    OBVIOUS
  <2>3. ChainType
    <3>1. streaming \in BOOLEAN /\ native \in BOOLEAN /\ ctx \in BOOLEAN /\ attempted \in BOOLEAN
      BY DEF ChainInit
    <3>2. events \in 0 .. MaxEvents
      BY <2>1, FallbackAssumption
    <3> QED
      BY <2>1, <2>2, <3>1, <3>2 DEF ChainType, Reading
  <2> QED
    BY <2>1, <2>3 DEF ChainInv, Shape, Begun, Pure, ChainBounded,
       Complete, Native
<1> QED
  BY <1>1, ChainStep, PTL DEF ChainSpec

\* Every variable keeps its type, and what is sent its bound.
THEOREM ChainTypeCorrect == ChainSpec => []ChainTypeOK
<1>1. ChainInv => ChainTypeOK
  BY FallbackAssumption DEF ChainInv, ChainType, ChainBounded, Count, ChainTypeOK
<1> QED
  BY <1>1, ChainInvariant, PTL

\* The caller gets the provider's text or the template, never both
\* (fallbackChain.Stream of fallback.go).
THEOREM ChainOneSource == ChainSpec => []OneSource
<1>1. ChainInv => OneSource
  BY DEF ChainInv, Pure, Count, OneSource, Contains
<1> QED
  BY <1>1, ChainInvariant, PTL

\* A success of the chain has text and exactly one finish chunk, the last.
THEOREM ChainSuccessIsComplete == ChainSpec => []SuccessIsComplete
<1>1. ChainInv => SuccessIsComplete
  BY DEF ChainInv, ChainType, Complete, Count, SuccessIsComplete, Last
<1> QED
  BY <1>1, ChainInvariant, PTL

\* With a live context only a stream that had begun makes the chain fail.
THEOREM ChainFailsOnlyWhenBegun == ChainSpec => []FailsOnlyWhenBegun
<1>1. ChainInv => FailsOnlyWhenBegun
  BY DEF ChainInv, Begun, Count, FailsOnlyWhenBegun, Contains
<1> QED
  BY <1>1, ChainInvariant, PTL

=============================================================================
