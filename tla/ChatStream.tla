----------------------------- MODULE ChatStream -----------------------------
(***************************************************************************)
(* One call of the chat completions endpoint: ServeHTTP of handler.go and  *)
(* the event loop of serveStream in stream.go, which runs in the goroutine *)
(* of the HTTP handler beside a producer goroutine that calls the          *)
(* completion service.  Chunks pass through a channel without a buffer,    *)
(* the service's result through one with a buffer of one.                  *)
(*                                                                         *)
(* What the client gets is a status and, when it asked for a stream, a     *)
(* sequence of frames.  The service is any completer that emits content,   *)
(* then the finish chunk, and may fail before that; ChatCall puts execute  *)
(* and the fallback in its place.                                          *)
(***************************************************************************)
EXTENDS Naturals, SequencesExt

CONSTANTS Asks,       \* calls considered: "rejected", "plain", "stream"
          Ends,       \* how the request's context can end: "gone" (the client
                      \* left), "reloading", "signal"
          MaxContent, \* bound: content chunks of one answer
          None

ASSUME ChatStreamAssumption ==
  /\ Asks \subseteq {"rejected", "plain", "stream"}
  /\ Ends \subseteq {"gone", "reloading", "signal"}
  /\ MaxContent \in Nat
  /\ None \notin {"content", "finish", "ok", "error"}

VARIABLES
  ask,      \* what the client asked for
  client,   \* the client is still connected
  reqCtx,   \* the request's context: "live", or how it ended
  canceled, \* the handler canceled, or left, the context it derived from it
  handler,  \* "serve", "select", "write", "returned"
  taken,    \* the chunk the handler is writing
  status,   \* the status line: None, "ok" or "error"
  frames,   \* the SSE frames after it
  code,     \* the error code the client was given
  producer, \* "off", "work", "emit", "ended"
  offered,  \* the chunk in emit
  emitted,  \* the chunks emit has accepted
  failure,  \* how an emit failed
  result    \* the result channel: None, "ok", or the kind of error

handlerVars == <<handler, taken, status, frames, code, canceled>>
producerVars == <<producer, offered, emitted, failure, result>>
vars == <<ask, client, reqCtx, handlerVars, producerVars>>

Chunks == {"content", "finish"}

\* The kinds of error a completer returns: the context's cause, what the emitter
\* gave back unchanged, or a failure of its own.
Kinds == {"reload", "canceled", "emit", "own"}

Codes == {"service_reloading", "request_canceled", "internal_error", "other",
          "rejected"}

TypeOK ==
  /\ ask \in Asks /\ client \in BOOLEAN /\ canceled \in BOOLEAN
  /\ reqCtx \in {"live"} \cup Ends
  /\ handler \in {"serve", "select", "write", "returned"}
  /\ taken \in Chunks \cup {None} /\ offered \in Chunks \cup {None}
  /\ status \in {None, "ok", "error"}
  /\ frames \in Seq(Chunks \cup {"error", "done"})
  /\ code \in Codes \cup {None}
  /\ producer \in {"off", "work", "emit", "ended"}
  /\ emitted \in Seq(Chunks) /\ Len(emitted) <= MaxContent + 1
  /\ failure \in BOOLEAN
  /\ result \in Kinds \cup {"ok", None}

Init ==
  /\ ask \in Asks /\ client = TRUE /\ reqCtx = "live" /\ canceled = FALSE
  /\ handler = "serve" /\ taken = None
  /\ status = None /\ frames = <<>> /\ code = None
  /\ producer = "off" /\ offered = None /\ emitted = <<>> /\ failure = FALSE
  /\ result = None

\* The context of the producer: derived from the request's.
Over == canceled \/ reqCtx # "live"

Finished == "finish" \in Range(emitted)

-----------------------------------------------------------------------------
(* The producer                                                            *)

\* The completer hands a chunk to emit; after the finish chunk it returns.
Offer ==
  /\ producer = "work" /\ ask = "stream" /\ ~Finished /\ ~failure
  /\ \/ offered' = "content" /\ Len(emitted) < MaxContent
     \/ offered' = "finish" /\ emitted # <<>>
  /\ producer' = "emit"
  /\ UNCHANGED <<ask, client, reqCtx, handlerVars, emitted, failure, result>>

\* Seeded fault: emit waits for the handler only.
EmitWaits == FALSE

EmitGivesUp == producer = "emit" /\ Over

\* emit gives up when its context is over, and returns ctx.Err as it is.
EmitFails ==
  /\ EmitGivesUp
  /\ producer' = "work" /\ offered' = None /\ failure' = TRUE
  /\ UNCHANGED <<ask, client, reqCtx, handlerVars, emitted, result>>

\* Seeded fault: the answer is not finished by a chunk of its own.
ContentSuffices == emitted # <<>>

Completes == Finished

MayFail == ~Finished

\* The error kinds a completer can return in the present state: the service
\* reports the end of its context, returns a failed emit unchanged or, from the
\* fallback, mapped, and fails for reasons of its own.
Errors ==
  (IF failure THEN {"emit"} ELSE {"own"})
  \cup (IF reqCtx = "reloading" THEN {"reload"} ELSE {})
  \cup (IF Over THEN {"canceled"} ELSE {})

\* The completer returns: always to a channel with room.
ProducerReturns ==
  /\ producer = "work"
  /\ \/ Completes /\ ask = "stream" /\ result' = "ok"
     \/ ask = "plain" /\ result' = "ok"
     \/ MayFail /\ result' \in Errors
  /\ producer' = "ended"
  /\ UNCHANGED <<ask, client, reqCtx, handlerVars, offered, emitted, failure>>

-----------------------------------------------------------------------------
(* The handler                                                             *)

\* mapCompletionError
CodeOf(kind) ==
  CASE kind = "reload" -> "service_reloading"
    [] kind = "canceled" -> "request_canceled"
    [] kind = "emit" -> "internal_error"
    [] kind = "own" -> "other"

\* The handler returns, and its deferred cancel ends the producer's context.
Leave == handler' = "returned" /\ canceled' = TRUE

Started == status = "ok"

\* Seeded fault: the error is always sent with a status of its own.
ReportAsStatus(c) ==
  /\ code' = c /\ status' = "error" /\ UNCHANGED frames
  /\ Leave

\* Before the stream has begun an error is a status; later it is a frame, and
\* the stream is closed all the same.  A client that has left gets neither.
Report(c) ==
  /\ code' = c
  /\ IF Started
     THEN frames' = frames \o <<"error", "done">> /\ UNCHANGED status
     ELSE status' = "error" /\ UNCHANGED frames
  /\ Leave

\* Method, authentication, content type, body and conversion come first; then a
\* plain call waits for the completer in the same goroutine, a stream starts the
\* producer and enters the loop.
ServeHTTP ==
  /\ handler = "serve"
  /\ \/ ask = "rejected" /\ Report("rejected") /\ UNCHANGED producer
     \/ /\ ask # "rejected"
        /\ producer' = "work"
        /\ handler' = "select"
        /\ UNCHANGED <<canceled, code, status, frames>>
  /\ UNCHANGED <<ask, client, reqCtx, taken, offered, emitted, failure, result>>

\* The chunk passes from emit to the handler: both go on.
Receive ==
  /\ handler = "select" /\ producer = "emit"
  /\ handler' = "write" /\ taken' = offered
  /\ status' = "ok"
  /\ producer' = "work" /\ offered' = None /\ emitted' = Append(emitted, offered)
  /\ UNCHANGED <<ask, client, reqCtx, frames, code, canceled, failure, result>>

\* writeStreamChunk; it can fail when the client has left.
Write ==
  /\ handler = "write"
  /\ \/ /\ frames' = Append(frames, taken)
        /\ handler' = "select" /\ UNCHANGED canceled
     \/ ~client /\ Leave /\ UNCHANGED frames
  /\ taken' = None
  /\ UNCHANGED <<ask, client, reqCtx, status, code, producerVars>>

\* The completer has returned.
TakeResult ==
  /\ handler = "select" /\ result # None
  /\ \/ result # "ok" /\ Report(CodeOf(result))
     \/ /\ result = "ok"
        /\ status' = "ok"
        /\ frames' = IF ask = "stream" THEN Append(frames, "done") ELSE frames
        /\ Leave /\ UNCHANGED code
  /\ UNCHANGED <<ask, client, reqCtx, taken, producerVars>>

\* The keep-alive of a stream that has started finds that the client has left.
KeepAliveFails ==
  /\ handler = "select" /\ ask = "stream" /\ Started /\ ~client
  /\ Leave
  /\ UNCHANGED <<ask, client, reqCtx, taken, status, frames, code, producerVars>>

\* Seeded fault: whatever ended the context, the handler just returns.
LeaveSilently == Leave /\ UNCHANGED <<code, status, frames>>

\* A reload is reported, whatever else ended the context is not.
ContextEnded ==
  \/ reqCtx = "reloading" /\ Report("service_reloading")
  \/ reqCtx # "reloading" /\ Leave /\ UNCHANGED <<code, status, frames>>

\* The loop of a stream looks at the request's context; a plain call relies on
\* the completer.
SeeContext ==
  /\ handler = "select" /\ ask = "stream" /\ reqCtx # "live"
  /\ ContextEnded
  /\ UNCHANGED <<ask, client, reqCtx, taken, producerVars>>

-----------------------------------------------------------------------------
(* The environment                                                         *)

ClientLeaves ==
  /\ "gone" \in Ends /\ client /\ client' = FALSE
  /\ UNCHANGED <<ask, reqCtx, handlerVars, producerVars>>

\* The server notices that the client left, or the runtime ends the context.
ContextEnds ==
  /\ reqCtx = "live"
  /\ reqCtx' \in Ends /\ (reqCtx' = "gone" => ~client)
  /\ UNCHANGED <<ask, client, handlerVars, producerVars>>

\* The call is over.
Idle == handler = "returned" /\ UNCHANGED vars

Handler == ServeHTTP \/ Receive \/ Write \/ TakeResult \/ KeepAliveFails
           \/ SeeContext

Producer == Offer \/ EmitFails \/ ProducerReturns

Next == Handler \/ Producer \/ ClientLeaves \/ ContextEnds \/ Idle

Spec == Init /\ [][Next]_vars

-----------------------------------------------------------------------------
(* Properties                                                              *)

\* A stream that ends with [DONE] and no error is the whole answer: every chunk
\* the service emitted is there, in order, and the last one is the finish chunk.
CleanEndIsComplete ==
  Contains(frames, "done") /\ ~Contains(frames, "error") =>
    /\ Front(frames) = emitted
    /\ emitted # <<>> /\ Last(emitted) = "finish"

\* The client sees one outcome: a status that is an error has no frames after it,
\* [DONE] is the last frame, and an error frame comes right before it.
OneOutcome ==
  /\ status = "error" => frames = <<>>
  /\ \A i \in DOMAIN frames :
       /\ frames[i] = "done" => i = Len(frames)
       /\ frames[i] = "error" => i + 1 = Len(frames) /\ frames[i + 1] = "done"

\* Unless the client left, or the process was told to stop, the handler does not
\* return before the client was answered and its stream closed by [DONE].
StreamIsClosed ==
  handler = "returned" /\ client /\ reqCtx \in {"live", "reloading"} =>
    \/ status = "error"
    \/ status = "ok" /\ (ask = "stream" => frames # <<>> /\ Last(frames) = "done")

\* TestHandlerStreamReportsReloadCancellation (handler_test.go line 266): a stream
\* that a reload ended says "service_reloading"; in any case it does not say
\* "internal_error".
ReloadIsReported == reqCtx = "reloading" => code # "internal_error"

=============================================================================
