-------------------------- MODULE MCTimedCompletion --------------------------
(***************************************************************************)
(* Completion with a history variable: the replies that took their channel *)
(* off the broker while requestCtx was still live.                         *)
(***************************************************************************)
EXTENDS MCCompletion

VARIABLE timely

TimedInit == Init /\ timely = {}

TimedNext ==
  /\ Next
  /\ timely' = timely \cup
       {p \in Updates : /\ sending[p] = None /\ sending'[p] # None
                        /\ reqCtx[sending'[p]] = "live"}

TimedSpec == TimedInit /\ [][TimedNext]_<<vars, timely>>

\* "Prefer a reply that won the broker race just before cancellation"
\* (service.go line 313): a request with such a reply does not time out.
\* pendingBroker.resolve sends after it unlocks, so awaitReply can find the
\* channel still empty.
RaceWinnerIsPreferred ==
  \A r \in Requests : outcome[r] = "timed_out" => \A p \in timely : ureq[p] # r

=============================================================================
