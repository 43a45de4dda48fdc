-------------------------- MODULE ChatStreamProofs --------------------------
(***************************************************************************)
(* What the client of one call gets, for every set of calls and of ways    *)
(* their contexts can end, and for answers of any length.                  *)
(***************************************************************************)
EXTENDS ChatStream, SequenceTheorems, TLAPS

Frame == Chunks \cup {"error", "done"}

\* Frames before the stream is closed.
Plain(s) == \A i \in 1 .. Len(s) : s[i] \in Chunks

\* [DONE] comes last and an error right before it.
Closed(s) ==
  \A i \in 1 .. Len(s) :
    /\ s[i] = "done" => i = Len(s)
    /\ s[i] = "error" => i + 1 = Len(s) /\ s[i + 1] = "done"

-----------------------------------------------------------------------------
(* Sequences of frames                                                     *)

\* A chunk extends what the client has.
LEMMA PlainAppend ==
  ASSUME NEW s \in Seq(Frame), NEW x \in Frame
  PROVE  /\ Append(s, x) \in Seq(Frame)
         /\ Append(s, x) # <<>>
         /\ Last(Append(s, x)) = x
         /\ Plain(s) /\ x \in Chunks => Plain(Append(s, x))
<1>1. /\ Append(s, x) \in Seq(Frame) /\ Len(Append(s, x)) = Len(s) + 1
      /\ Append(s, x)[Len(s) + 1] = x
      /\ \A i \in 1 .. Len(s) : Append(s, x)[i] = s[i]
  OBVIOUS
<1>2. Append(s, x) # <<>>
  BY <1>1
<1>3. Last(Append(s, x)) = x
  BY <1>1 DEF Last
<1>4. ASSUME Plain(s), x \in Chunks PROVE Plain(Append(s, x))
  <2>1. \A i \in 1 .. Len(s) + 1 : i \in 1 .. Len(s) \/ i = Len(s) + 1
    OBVIOUS
  <2> QED
    BY <1>1, <1>4, <2>1 DEF Plain
<1> QED
  BY <1>1, <1>2, <1>3, <1>4

\* A stream that is still open has neither [DONE] nor an error.
LEMMA PlainIsOpen ==
  ASSUME NEW s \in Seq(Frame), Plain(s)
  PROVE  Closed(s) /\ ~Contains(s, "done") /\ ~Contains(s, "error")
  BY DEF Plain, Closed, Contains, Chunks

\* [DONE] closes it.
LEMMA CloseWithDone ==
  ASSUME NEW s \in Seq(Frame), Plain(s)
  PROVE  LET t == Append(s, "done") IN
           /\ t \in Seq(Frame) /\ t # <<>> /\ Last(t) = "done" /\ Closed(t)
           /\ ~Contains(t, "error") /\ Front(t) = s
<1> DEFINE t == Append(s, "done")
<1>1. /\ t \in Seq(Frame) /\ Len(t) = Len(s) + 1 /\ t[Len(s) + 1] = "done"
      /\ \A i \in 1 .. Len(s) : t[i] = s[i]
  BY DEF Frame
<1>2. \A i \in 1 .. Len(t) : i \in 1 .. Len(s) \/ i = Len(t)
  BY <1>1
<1>3. \A i \in 1 .. Len(s) : t[i] # "done" /\ t[i] # "error"
  BY <1>1 DEF Plain, Chunks
<1>4. t # <<>> /\ Last(t) = "done"
  BY <1>1 DEF Last
<1>5. Closed(t)
  BY <1>1, <1>2, <1>3 DEF Closed
<1>6. ~Contains(t, "error")
  BY <1>1, <1>2, <1>3 DEF Contains
<1>7. Front(t) = s
  <2>1. /\ Front(t) \in Seq(Frame) /\ Len(Front(t)) = Len(s)
        /\ \A i \in 1 .. Len(s) : Front(t)[i] = t[i]
    BY <1>1 DEF Front
  <2> QED
    BY <1>1, <2>1, SeqEqual
<1> QED
  BY <1>1, <1>4, <1>5, <1>6, <1>7

\* An error and [DONE] close it.
LEMMA CloseWithError ==
  ASSUME NEW s \in Seq(Frame), Plain(s)
  PROVE  LET t == s \o <<"error", "done">> IN
           /\ t \in Seq(Frame) /\ t # <<>> /\ Last(t) = "done" /\ Closed(t)
           /\ Contains(t, "error")
<1> DEFINE e == <<"error", "done">>
           t == s \o e
<1>1. e \in Seq(Frame) /\ Len(e) = 2 /\ e[1] = "error" /\ e[2] = "done"
  BY DEF Frame
<1>2. /\ t \in Seq(Frame) /\ Len(t) = Len(s) + 2
      /\ t[Len(s) + 1] = "error" /\ t[Len(s) + 2] = "done"
      /\ \A i \in 1 .. Len(s) : t[i] = s[i]
  <2> HIDE DEF e
  <2>1. t \in Seq(Frame) /\ Len(t) = Len(s) + Len(e)
    BY <1>1, ConcatProperties
  <2>2. \A i \in 1 .. Len(s) + Len(e) : t[i] = IF i <= Len(s) THEN s[i] ELSE e[i - Len(s)]
    BY <1>1, ConcatProperties
  <2>3. t[Len(s) + 1] = e[1] /\ t[Len(s) + 2] = e[2]
    <3>1. /\ Len(s) + 1 \in 1 .. Len(s) + Len(e) /\ Len(s) + 2 \in 1 .. Len(s) + Len(e)
          /\ ~(Len(s) + 1 <= Len(s)) /\ ~(Len(s) + 2 <= Len(s))
          /\ Len(s) + 1 - Len(s) = 1 /\ Len(s) + 2 - Len(s) = 2
      BY <1>1
    <3> HIDE DEF t
    <3> QED
      BY <2>2, <3>1
  <2>4. \A i \in 1 .. Len(s) : t[i] = s[i]
    BY <1>1, <2>2
  <2> QED
    BY <1>1, <2>1, <2>3, <2>4
<1> HIDE DEF t
<1>3. \A i \in 1 .. Len(t) : i \in 1 .. Len(s) \/ i = Len(s) + 1 \/ i = Len(s) + 2
  BY <1>2
<1>4. \A i \in 1 .. Len(s) : t[i] # "done" /\ t[i] # "error"
  BY <1>2 DEF Plain, Chunks
<1>5. t # <<>> /\ Last(t) = "done"
  BY <1>2 DEF Last
<1>6. Closed(t)
  BY <1>2, <1>3, <1>4 DEF Closed
<1>7. Contains(t, "error")
  <2>1. Len(s) + 1 \in 1 .. Len(t)
    BY <1>2
  <2> QED
    BY <1>2, <2>1 DEF Contains
<1> QED
  BY <1>2, <1>5, <1>6, <1>7 DEF t

\* The finish chunk is the last one that is emitted.
LEMMA FinishIsLast ==
  ASSUME NEW s \in Seq(Chunks), NEW x \in Chunks
  PROVE  /\ Append(s, x) \in Seq(Chunks) /\ Append(s, x) # <<>>
         /\ Len(Append(s, x)) = Len(s) + 1
         /\ Last(Append(s, x)) = x
         /\ "finish" \in Range(Append(s, x)) => "finish" \in Range(s) \/ x = "finish"
<1>1. /\ Append(s, x) \in Seq(Chunks) /\ Len(Append(s, x)) = Len(s) + 1
      /\ Append(s, x)[Len(s) + 1] = x
      /\ \A i \in 1 .. Len(s) : Append(s, x)[i] = s[i]
  OBVIOUS
<1>2. Append(s, x) # <<>> /\ Last(Append(s, x)) = x
  BY <1>1 DEF Last
<1>3. \A i \in 1 .. Len(s) + 1 : i \in 1 .. Len(s) \/ i = Len(s) + 1
  OBVIOUS
<1>4. DOMAIN s = 1 .. Len(s) /\ DOMAIN Append(s, x) = 1 .. Len(s) + 1
  BY <1>1
<1> QED
  BY <1>1, <1>2, <1>3, <1>4 DEF Range

-----------------------------------------------------------------------------
(* The inductive invariant                                                 *)

ChatType ==
  /\ ask \in Asks /\ client \in BOOLEAN /\ canceled \in BOOLEAN
  /\ reqCtx \in {"live"} \cup Ends
  /\ handler \in {"serve", "select", "write", "returned"}
  /\ status \in {None, "ok", "error"}
  /\ code \in Codes \cup {None}
  /\ producer \in {"off", "work", "emit", "ended"}
  /\ failure \in BOOLEAN
  /\ result \in Kinds \cup {"ok", None}
  /\ frames \in Seq(Frame) /\ emitted \in Seq(Chunks)

\* A chunk is between the completer and the client only while someone handles it.
Held ==
  /\ offered = IF producer = "emit" THEN offered ELSE None
  /\ producer = "emit" => offered \in Chunks /\ ask = "stream"
  /\ taken = IF handler = "write" THEN taken ELSE None
  /\ handler = "write" => taken \in Chunks /\ status = "ok"

\* Chunks come in order and end with the finish chunk.
Ordered ==
  /\ Finished => emitted # <<>> /\ Last(emitted) = "finish" /\ producer # "emit"
  /\ result = "ok" /\ ask = "stream" => Finished
  /\ handler = "serve" => producer = "off"

\* The length of the answer is within its bound.
Bounded ==
  /\ Len(emitted) <= MaxContent + 1
  /\ ~Finished => Len(emitted) <= MaxContent
  /\ producer = "emit" /\ offered = "content" => Len(emitted) < MaxContent

\* Until the handler returns the client has what was emitted and no outcome.
Open ==
  /\ status # "error" /\ Plain(frames)
  /\ frames # <<>> => status = "ok"
  /\ handler = "write" => Append(frames, taken) = emitted
  /\ handler \in {"serve", "select"} => frames = emitted

Outcome ==
  /\ handler # "returned" => Open
  /\ status = "error" => frames = <<>>
  /\ Closed(frames)
  /\ StreamIsClosed /\ CleanEndIsComplete

IInv == ChatType /\ Held /\ Ordered /\ Bounded /\ Outcome

-----------------------------------------------------------------------------
(* Ways the handler returns                                                *)

\* An error is told as a status or closes the stream.
LEMMA ReportKeepsOutcome ==
  ASSUME ChatType, Outcome, handler # "returned", NEW c, Report(c),
         UNCHANGED <<ask, client, reqCtx, emitted>>
  PROVE  Outcome' /\ frames' \in Seq(Frame) /\ status' \in {None, "ok", "error"}
<1>1. Open /\ frames \in Seq(Frame) /\ handler' = "returned"
  BY DEF ChatType, Outcome, Report, Leave
<1>2. Plain(frames)
  BY <1>1 DEF Open
<1>3. CASE Started
  <2>1. frames' = frames \o <<"error", "done">> /\ status' = "ok"
    BY <1>3 DEF Report, Started
  <2>2. /\ frames' \in Seq(Frame) /\ frames' # <<>> /\ Last(frames') = "done"
        /\ Closed(frames') /\ Contains(frames', "error")
    BY <1>1, <1>2, <2>1, CloseWithError
  <2> QED
    BY <1>1, <2>1, <2>2 DEF Outcome, StreamIsClosed, CleanEndIsComplete
<1>4. CASE ~Started
  <2>1. frames' = frames /\ status' = "error"
    BY <1>4 DEF Report
  <2>2. frames = <<>>
    BY <1>1, <1>4 DEF Open, Started
  <2>3. Closed(frames) /\ ~Contains(frames, "done")
    BY <1>1, <1>2, PlainIsOpen
  <2> QED
    BY <1>1, <2>1, <2>2, <2>3 DEF Outcome, StreamIsClosed, CleanEndIsComplete
<1> QED
  BY <1>3, <1>4

\* Only a client that left or a process that stops is left without an answer.
LEMMA LeaveKeepsOutcome ==
  ASSUME ChatType, Outcome, handler # "returned", Leave,
         ~client \/ reqCtx \notin {"live", "reloading"},
         UNCHANGED <<ask, client, reqCtx, emitted, status, frames>>
  PROVE  Outcome'
<1>1. Open /\ frames \in Seq(Frame) /\ handler' = "returned"
  BY DEF ChatType, Outcome, Leave
<1>2. Closed(frames) /\ ~Contains(frames, "done")
  BY <1>1, PlainIsOpen DEF Open
<1> QED
  BY <1>1, <1>2 DEF Outcome, StreamIsClosed, CleanEndIsComplete, Open

\* Steps of the others do not change what the client has.
LEMMA OthersKeepOutcome ==
  ASSUME Outcome, UNCHANGED <<ask, handlerVars, emitted>>,
         client' => client,
         reqCtx' \in {"live", "reloading"} => reqCtx \in {"live", "reloading"}
  PROVE  Outcome'
<1>1. UNCHANGED <<ask, handler, taken, status, frames, emitted>>
  BY DEF handlerVars
<1>2. Open => Open'
  BY <1>1 DEF Open
<1>3. StreamIsClosed'
  BY <1>1 DEF Outcome, StreamIsClosed
<1>4. CleanEndIsComplete'
  BY <1>1 DEF Outcome, CleanEndIsComplete
<1> QED
  BY <1>1, <1>2, <1>3, <1>4 DEF Outcome

-----------------------------------------------------------------------------
(* Every step keeps the invariant                                          *)

LEMMA ChatStep == IInv /\ [Next]_vars => IInv'
<1> SUFFICES ASSUME IInv, [Next]_vars PROVE IInv'
  OBVIOUS
<1>a. ChatType /\ Held /\ Ordered /\ Bounded /\ Outcome
  BY DEF IInv
<1>b. MaxContent \in Nat /\ None \notin Chunks /\ Ends \subseteq {"gone", "reloading", "signal"}
  BY ChatStreamAssumption DEF Chunks
<1>c. Len(emitted) \in Nat
  BY <1>a DEF ChatType
<1>1. CASE Offer
  <2>1. /\ producer = "work" /\ ask = "stream" /\ ~Finished /\ producer' = "emit"
        /\ \/ offered' = "content" /\ Len(emitted) < MaxContent
           \/ offered' = "finish" /\ emitted # <<>>
        /\ UNCHANGED <<ask, client, reqCtx, handler, taken, status, frames, code, canceled,
                      emitted, failure, result>>
    BY <1>1 DEF Offer, handlerVars
  <2>2. ChatType'
    BY <1>a, <2>1 DEF ChatType
  <2>3. Held'
    BY <1>a, <2>1 DEF Held, Chunks
  <2>4. Ordered'
    BY <1>a, <2>1 DEF Ordered, Finished, ChatType
  <2>5. Bounded'
    BY <1>a, <2>1 DEF Bounded, Finished
  <2>6. Outcome'
    BY <1>a, <2>1, OthersKeepOutcome DEF handlerVars
  <2> QED
    BY <2>2, <2>3, <2>4, <2>5, <2>6 DEF IInv
<1>2. CASE EmitFails
  <2>1. /\ producer = "emit" /\ producer' = "work" /\ offered' = None /\ failure' = TRUE
        /\ UNCHANGED <<ask, client, reqCtx, handler, taken, status, frames, code, canceled,
                      emitted, result>>
    BY <1>2 DEF EmitFails, EmitGivesUp, handlerVars
  <2>2. ChatType'
    BY <1>a, <2>1 DEF ChatType
  <2>3. Held'
    BY <1>a, <2>1 DEF Held
  <2>4. Ordered'
    BY <1>a, <2>1 DEF Ordered, Finished
  <2>5. Bounded'
    BY <1>a, <2>1 DEF Bounded, Finished
  <2>6. Outcome'
    BY <1>a, <2>1, OthersKeepOutcome DEF handlerVars
  <2> QED
    BY <2>2, <2>3, <2>4, <2>5, <2>6 DEF IInv
<1>3. CASE ProducerReturns
  <2>1. /\ producer = "work" /\ producer' = "ended"
        /\ UNCHANGED <<ask, client, reqCtx, handler, taken, status, frames, code, canceled,
                      offered, emitted, failure>>
    BY <1>3 DEF ProducerReturns, handlerVars
  <2>2. \/ result' = "ok" /\ (ask = "stream" => Finished)
        \/ result' \in Kinds
    BY <1>3 DEF ProducerReturns, Completes, MayFail, Errors, Kinds
  <2>3. ChatType'
    BY <1>a, <2>1, <2>2 DEF ChatType
  <2>4. Held'
    BY <1>a, <2>1 DEF Held
  <2>5. Ordered'
    BY <1>a, <2>1, <2>2 DEF Ordered, Finished, Kinds
  <2>6. Bounded'
    BY <1>a, <2>1 DEF Bounded, Finished
  <2>7. Outcome'
    BY <1>a, <2>1, OthersKeepOutcome DEF handlerVars
  <2> QED
    BY <2>3, <2>4, <2>5, <2>6, <2>7 DEF IInv
<1>4. CASE ServeHTTP
  <2>1. /\ handler = "serve"
        /\ UNCHANGED <<ask, client, reqCtx, taken, offered, emitted, failure, result>>
    BY <1>4 DEF ServeHTTP
  <2>2. CASE ask = "rejected" /\ Report("rejected") /\ UNCHANGED producer
    <3>1. handler' = "returned" /\ canceled' = TRUE /\ code' = "rejected"
      BY <2>2 DEF Report, Leave
    <3>2. Outcome' /\ frames' \in Seq(Frame) /\ status' \in {None, "ok", "error"}
      BY <1>a, <2>1, <2>2, ReportKeepsOutcome
    <3>3. ChatType'
      BY <1>a, <2>1, <2>2, <3>1, <3>2 DEF ChatType, Codes
    <3>4. Held'
      BY <1>a, <2>1, <2>2, <3>1 DEF Held
    <3>5. Ordered' /\ Bounded'
      BY <1>a, <2>1, <2>2, <3>1 DEF Ordered, Bounded, Finished
    <3> QED
      BY <3>2, <3>3, <3>4, <3>5 DEF IInv
  <2>3. CASE producer' = "work" /\ handler' = "select" /\ UNCHANGED <<canceled, code, status, frames>>
    <3>1. ChatType'
      BY <1>a, <2>1, <2>3 DEF ChatType
    <3>2. Held'
      BY <1>a, <2>1, <2>3 DEF Held, Ordered
    <3>3. Ordered' /\ Bounded'
      BY <1>a, <2>1, <2>3 DEF Ordered, Bounded, Finished
    <3>4. Open'
      BY <1>a, <2>1, <2>3 DEF Outcome, Open
    <3>5. Outcome'
      BY <1>a, <2>1, <2>3, <3>4 DEF Outcome, StreamIsClosed, CleanEndIsComplete
    <3> QED
      BY <3>1, <3>2, <3>3, <3>5 DEF IInv
  <2> QED
    BY <1>4, <2>2, <2>3 DEF ServeHTTP
<1>5. CASE Receive
  <2>1. /\ handler = "select" /\ producer = "emit" /\ handler' = "write"
        /\ taken' = offered /\ status' = "ok" /\ producer' = "work" /\ offered' = None
        /\ emitted' = Append(emitted, offered)
        /\ UNCHANGED <<ask, client, reqCtx, frames, code, canceled, failure, result>>
    BY <1>5 DEF Receive
  <2>2. offered \in Chunks /\ ask = "stream" /\ ~Finished
    BY <1>a, <2>1 DEF Held, Ordered
  <2>3. /\ emitted' \in Seq(Chunks) /\ emitted' # <<>> /\ Last(emitted') = offered
        /\ Len(emitted') = Len(emitted) + 1
        /\ Finished' => offered = "finish"
    BY <1>a, <2>1, <2>2, FinishIsLast DEF ChatType, Finished
  <2>4. ChatType'
    BY <1>a, <2>1, <2>3 DEF ChatType
  <2>5. Held'
    BY <1>a, <2>1, <2>2 DEF Held
  <2>6. Ordered'
    BY <1>a, <2>1, <2>2, <2>3 DEF Ordered
  <2>7. offered = "content" \/ offered = "finish"
    BY <2>2 DEF Chunks
  <2>8. "finish" \in Range(emitted') \/ offered # "finish"
    <3>1. Len(emitted') \in DOMAIN emitted' /\ emitted'[Len(emitted')] = offered
      BY <1>c, <2>3 DEF Last
    <3> QED
      BY <3>1 DEF Range
  <2>9. Bounded'
    BY <1>a, <1>b, <1>c, <2>1, <2>2, <2>3, <2>7, <2>8 DEF Bounded, Finished
  <2>10. Open'
    BY <1>a, <2>1 DEF Outcome, Open
  <2>11. Outcome'
    <3>1. ~Contains(frames, "done") /\ Closed(frames)
      BY <1>a, <2>1, PlainIsOpen DEF Outcome, Open, ChatType
    <3> QED
      BY <2>1, <2>10, <3>1 DEF Outcome, StreamIsClosed, CleanEndIsComplete
  <2> QED
    BY <2>4, <2>5, <2>6, <2>9, <2>11 DEF IInv
<1>6. CASE Write
  <2>1. /\ handler = "write" /\ taken' = None
        /\ UNCHANGED <<ask, client, reqCtx, status, code, producer, offered, emitted, failure,
                      result>>
    BY <1>6 DEF Write, producerVars
  <2>2. Held' \/ handler' = "write"
    BY <1>a, <2>1 DEF Held
  <2>3. Ordered' \/ handler' = "serve"
    BY <1>a, <2>1 DEF Ordered, Finished
  <2>4. Bounded'
    BY <1>a, <2>1 DEF Bounded, Finished
  <2>5. Open /\ taken \in Chunks /\ status = "ok" /\ frames \in Seq(Frame)
    BY <1>a, <2>1 DEF Outcome, Held, ChatType
  <2>6. CASE frames' = Append(frames, taken) /\ handler' = "select" /\ UNCHANGED canceled
    <3>1. frames' \in Seq(Frame) /\ Plain(frames')
      BY <2>5, <2>6, PlainAppend DEF Open, Frame
    <3>2. ChatType'
      BY <1>a, <2>1, <2>6, <3>1 DEF ChatType
    <3>3. Open'
      BY <2>1, <2>5, <2>6, <3>1 DEF Open
    <3>4. ~Contains(frames', "done") /\ Closed(frames')
      BY <3>1, PlainIsOpen
    <3>5. Outcome'
      BY <2>1, <2>5, <2>6, <3>3, <3>4 DEF Outcome, StreamIsClosed, CleanEndIsComplete
    <3> QED
      BY <2>2, <2>3, <2>4, <2>6, <3>2, <3>5 DEF IInv
  <2>7. CASE ~client /\ Leave /\ UNCHANGED frames
    <3>1. Outcome'
      BY <1>a, <2>1, <2>7, LeaveKeepsOutcome
    <3>2. ChatType'
      BY <1>a, <2>1, <2>7 DEF ChatType, Leave
    <3> QED
      BY <2>2, <2>3, <2>4, <2>7, <3>1, <3>2 DEF IInv, Leave
  <2> QED
    BY <1>6, <2>6, <2>7 DEF Write
<1>7. CASE TakeResult
  <2>1. /\ handler = "select" /\ result # None /\ handler' = "returned" /\ canceled' = TRUE
        /\ UNCHANGED <<ask, client, reqCtx, taken, producer, offered, emitted, failure, result>>
    BY <1>7 DEF TakeResult, Report, Leave, producerVars
  <2>2. Held'
    BY <1>a, <2>1 DEF Held
  <2>3. Ordered' /\ Bounded'
    BY <1>a, <2>1 DEF Ordered, Bounded, Finished
  <2>4. CASE result # "ok" /\ Report(CodeOf(result))
    <3>1. Outcome' /\ frames' \in Seq(Frame) /\ status' \in {None, "ok", "error"}
      BY <1>a, <2>1, <2>4, ReportKeepsOutcome
    <3>2. code' \in Codes
      BY <1>a, <2>1, <2>4 DEF ChatType, Report, CodeOf, Kinds, Codes
    <3>3. ChatType'
      BY <1>a, <2>1, <3>1, <3>2 DEF ChatType
    <3> QED
      BY <2>2, <2>3, <3>1, <3>3 DEF IInv
  <2>5. CASE /\ result = "ok" /\ status' = "ok"
             /\ frames' = IF ask = "stream" THEN Append(frames, "done") ELSE frames
             /\ UNCHANGED code
    <3>1. Open /\ frames \in Seq(Frame) /\ Plain(frames) /\ frames = emitted
      BY <1>a, <2>1 DEF Outcome, Open, ChatType
    <3>2. CASE ask = "stream"
      <4>1. frames' = Append(frames, "done")
        BY <2>5, <3>2
      <4>2. /\ frames' \in Seq(Frame) /\ frames' # <<>> /\ Last(frames') = "done"
            /\ Closed(frames') /\ Front(frames') = frames
        BY <3>1, <4>1, CloseWithDone
      <4>3. emitted # <<>> /\ Last(emitted) = "finish"
        BY <1>a, <2>5, <3>2 DEF Ordered
      <4>4. ChatType'
        BY <1>a, <2>1, <2>5, <4>2 DEF ChatType
      <4>5. Outcome'
        BY <1>b, <2>1, <2>5, <3>1, <4>2, <4>3 DEF Outcome, StreamIsClosed, CleanEndIsComplete
      <4> QED
        BY <2>2, <2>3, <4>4, <4>5 DEF IInv
    <3>3. CASE ask # "stream"
      <4>1. frames' = frames /\ Closed(frames) /\ ~Contains(frames, "done")
        BY <2>5, <3>1, <3>3, PlainIsOpen
      <4>2. ChatType'
        BY <1>a, <2>1, <2>5, <4>1 DEF ChatType
      <4>3. Outcome'
        BY <2>1, <2>5, <3>3, <4>1 DEF Outcome, StreamIsClosed, CleanEndIsComplete
      <4> QED
        BY <2>2, <2>3, <4>2, <4>3 DEF IInv
    <3> QED
      BY <3>2, <3>3
  <2> QED
    BY <1>7, <2>4, <2>5 DEF TakeResult
<1>8. CASE KeepAliveFails
  <2>1. /\ handler = "select" /\ ~client /\ Leave /\ handler' = "returned"
        /\ UNCHANGED <<ask, client, reqCtx, taken, status, frames, code, producer, offered,
                      emitted, failure, result>>
    BY <1>8 DEF KeepAliveFails, Leave, producerVars
  <2>2. ChatType'
    BY <1>a, <2>1 DEF ChatType, Leave
  <2>3. Held'
    BY <1>a, <2>1 DEF Held
  <2>4. Ordered' /\ Bounded'
    BY <1>a, <2>1 DEF Ordered, Bounded, Finished
  <2>5. Outcome'
    BY <1>a, <2>1, LeaveKeepsOutcome
  <2> QED
    BY <2>2, <2>3, <2>4, <2>5 DEF IInv
<1>9. CASE SeeContext
  <2>1. /\ handler = "select" /\ reqCtx # "live" /\ ContextEnded
        /\ handler' = "returned" /\ canceled' = TRUE
        /\ UNCHANGED <<ask, client, reqCtx, taken, producer, offered, emitted, failure, result>>
    BY <1>9 DEF SeeContext, ContextEnded, Report, Leave, producerVars
  <2>2. Held'
    BY <1>a, <2>1 DEF Held
  <2>3. Ordered' /\ Bounded'
    BY <1>a, <2>1 DEF Ordered, Bounded, Finished
  <2>4. CASE reqCtx = "reloading" /\ Report("service_reloading")
    <3>1. Outcome' /\ frames' \in Seq(Frame) /\ status' \in {None, "ok", "error"}
      BY <1>a, <2>1, <2>4, ReportKeepsOutcome
    <3>2. ChatType'
      BY <1>a, <2>1, <2>4, <3>1 DEF ChatType, Report, Codes
    <3> QED
      BY <2>2, <2>3, <3>1, <3>2 DEF IInv
  <2>5. CASE reqCtx # "reloading" /\ Leave /\ UNCHANGED <<code, status, frames>>
    <3>1. reqCtx \notin {"live", "reloading"}
      BY <2>1, <2>5
    <3>2. Outcome'
      BY <1>a, <2>1, <2>5, <3>1, LeaveKeepsOutcome
    <3>3. ChatType'
      BY <1>a, <2>1, <2>5 DEF ChatType
    <3> QED
      BY <2>2, <2>3, <3>2, <3>3 DEF IInv
  <2> QED
    BY <2>1, <2>4, <2>5 DEF ContextEnded
<1>10. CASE ClientLeaves \/ ContextEnds
  <2>1. /\ client' \in BOOLEAN /\ (client' => client)
        /\ reqCtx' \in {"live"} \cup Ends
        /\ reqCtx' \in {"live", "reloading"} => reqCtx \in {"live", "reloading"}
        /\ UNCHANGED <<ask, handlerVars, producerVars>>
    <3>1. CASE ClientLeaves
      BY <1>a, <3>1 DEF ClientLeaves, ChatType
    <3>2. CASE ContextEnds
      BY <1>a, <3>2 DEF ContextEnds, ChatType
    <3> QED
      BY <1>10, <3>1, <3>2
  <2>2. UNCHANGED <<ask, handler, taken, status, frames, code, canceled, producer, offered, emitted,
                    failure, result>>
    BY <2>1 DEF handlerVars, producerVars
  <2>3. ChatType'
    BY <1>a, <2>1, <2>2 DEF ChatType
  <2>4. Held'
    BY <1>a, <2>2 DEF Held
  <2>5. Ordered' /\ Bounded'
    BY <1>a, <2>2 DEF Ordered, Bounded, Finished
  <2>6. Outcome'
    BY <1>a, <2>1, <2>2, OthersKeepOutcome
  <2> QED
    BY <2>3, <2>4, <2>5, <2>6 DEF IInv
<1>11. CASE UNCHANGED vars
  <2>1. UNCHANGED <<ask, client, reqCtx, handler, taken, status, frames, code, canceled, producer,
                    offered, emitted, failure, result>>
    BY <1>11 DEF vars, handlerVars, producerVars
  <2>2. ChatType' /\ Held'
    BY <1>a, <2>1 DEF ChatType, Held
  <2>3. Ordered' /\ Bounded'
    BY <1>a, <2>1 DEF Ordered, Bounded, Finished
  <2>4. Outcome'
    BY <1>a, <2>1, OthersKeepOutcome DEF handlerVars
  <2> QED
    BY <2>2, <2>3, <2>4 DEF IInv
<1> QED
  BY <1>1, <1>2, <1>3, <1>4, <1>5, <1>6, <1>7, <1>8, <1>9, <1>10, <1>11
     DEF Next, Handler, Producer, Idle

\* The invariant holds in every reachable state.
THEOREM ChatInvariant == Spec => []IInv
<1>1. Init => IInv
  <2> SUFFICES ASSUME Init PROVE IInv
    OBVIOUS
  <2>1. /\ frames = <<>> /\ emitted = <<>> /\ handler = "serve" /\ producer = "off"
        /\ status = None /\ result = None /\ taken = None /\ offered = None
        /\ frames \in Seq(Frame) /\ emitted \in Seq(Chunks) /\ Len(emitted) = 0 /\ Len(frames) = 0
    BY DEF Init
  <2>2. ~Finished
    BY <2>1 DEF Finished, Range
  <2>3. ChatType
    BY <2>1 DEF Init, ChatType
  <2>4. Held /\ Ordered
    BY <2>1, <2>2, ChatStreamAssumption DEF Held, Ordered
  <2>5. Bounded
    BY <2>1, ChatStreamAssumption DEF Bounded
  <2>6. Plain(frames)
    BY <2>1 DEF Plain
  <2>7. Closed(frames) /\ ~Contains(frames, "done")
    BY <2>1, <2>6, PlainIsOpen
  <2>8. status # "error"
    BY <2>1, ChatStreamAssumption
  <2>9. Outcome
    BY <2>1, <2>6, <2>7, <2>8 DEF Outcome, Open, StreamIsClosed, CleanEndIsComplete
  <2> QED
    BY <2>3, <2>4, <2>5, <2>9 DEF IInv
<1> QED
  BY <1>1, ChatStep, PTL DEF Spec

\* Every variable keeps its type, and the answer its bound.
THEOREM ChatTypeCorrect == Spec => []TypeOK
<1>1. IInv => TypeOK
  BY DEF IInv, ChatType, Held, Bounded, TypeOK, Frame, Chunks
<1> QED
  BY <1>1, ChatInvariant, PTL

\* The client sees one outcome: [DONE] is the last frame, an error comes right
\* before it, and an error status has no frames (stream.go, serveStream).
THEOREM ChatOneOutcome == Spec => []OneOutcome
<1>1. IInv => OneOutcome
  BY DEF IInv, ChatType, Outcome, Closed, OneOutcome
<1> QED
  BY <1>1, ChatInvariant, PTL

\* A client that stays, in a process that goes on, is answered and its stream is
\* closed, whatever the completer does.
THEOREM ChatStreamIsClosed == Spec => []StreamIsClosed
<1>1. IInv => StreamIsClosed
  BY DEF IInv, Outcome
<1> QED
  BY <1>1, ChatInvariant, PTL

\* [DONE] without an error means the whole answer, in order.
THEOREM ChatCleanEndIsComplete == Spec => []CleanEndIsComplete
<1>1. IInv => CleanEndIsComplete
  BY DEF IInv, Outcome
<1> QED
  BY <1>1, ChatInvariant, PTL

=============================================================================
