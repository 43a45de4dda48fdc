-------------------------------- MODULE Stats --------------------------------
(***************************************************************************)
(* The statistics store (internal/stats/stats.go): how many requests of    *)
(* each human ended in which way.  Record runs under the store's mutex.    *)
(* Latencies are left out: nothing reads them back but the log.            *)
(* Unanswered is always incremented with TimedOut and is not kept twice.   *)
(***************************************************************************)
EXTENDS Parties

\* completion.Outcome
Outcomes == {"responded", "timed_out", "canceled", "delivery_failed"}

VARIABLE tally  \* UserStats of every user, a missing entry being all zeros

Counters == [responded : Nat, timedOut : Nat, canceled : Nat,
             deliveryFailed : Nat, consecutive : Nat]

StatsTypeOK == tally \in [Users -> Counters]

StatsInit ==
  tally = [u \in Users |-> [responded |-> 0, timedOut |-> 0, canceled |-> 0,
                            deliveryFailed |-> 0, consecutive |-> 0]]

\* Seeded fault: a timeout is tallied as a cancellation.
CountedAsCanceled(c, o) == [c EXCEPT !.canceled = @ + 1]

\* UserStats c after one more observation with outcome o.
Counted(c, o) ==
  CASE o = "responded"       -> [c EXCEPT !.responded = @ + 1, !.consecutive = 0]
    [] o = "timed_out"       -> [c EXCEPT !.timedOut = @ + 1, !.consecutive = @ + 1]
    [] o = "canceled"        -> [c EXCEPT !.canceled = @ + 1]
    [] o = "delivery_failed" -> [c EXCEPT !.deliveryFailed = @ + 1]

Record(u, o) == tally' = [tally EXCEPT ![u] = Counted(@, o)]

\* All observations recorded for u.
Observed(u) == tally[u].responded + tally[u].timedOut
                 + tally[u].canceled + tally[u].deliveryFailed

=============================================================================
