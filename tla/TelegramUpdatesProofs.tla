------------------------ MODULE TelegramUpdatesProofs ------------------------
(***************************************************************************)
(* Proofs about TelegramUpdates, for any number of updates, instances and  *)
(* failures, any settings and any size of an answer.                       *)
(***************************************************************************)
EXTENDS TelegramUpdates, FiniteSetTheorems, TLAPS

\* What an update has become once nobody needs it any more.
Settled == handled \cup dropped

\* Telegram gives up nothing that is not settled, and neither does the offset;
\* a batch holds the oldest updates from the offset on; handlers of the webhook are
\* there in that mode only, and answer for updates they handled.
Inductive ==
  /\ gone \subseteq Settled
  /\ \A u \in 1 .. sent : u < offset => u \in Settled
  /\ batch # {} => pc = "handle" /\ Polling
  /\ \A u \in batch : u >= offset
  /\ \A u \in batch : \A v \in 1 .. sent : v < u => v \in batch \cup Settled
  /\ posted # {} => ~Polling /\ pc \in {"receive", "stopped"}
  /\ serving \subseteq handled /\ serving \cap posted = {}
  /\ \A u \in Ids : times[u] <= 1 /\ (times[u] > 0 => u < offset)

IInv == TypeOK /\ Inductive

\* getUpdates answers with a beginning of what is waiting.
LEMMA OldestIsABeginning ==
  ASSUME TypeOK, NEW u \in Oldest, NEW v \in Waiting, v < u
  PROVE  v \in Oldest
<1> DEFINE Below(w) == {x \in Waiting : x < w}
<1>1. IsFiniteSet(Below(u))
  <2>1. IsFiniteSet(1 .. sent)
    BY FS_Interval DEF TypeOK
  <2>2. Below(u) \subseteq 1 .. sent
    BY DEF Waiting, Pending
  <2> QED
    BY <2>1, <2>2, FS_Subset
<1>2. Below(v) \subseteq Below(u)
  BY DEF Waiting, Pending, TypeOK, Oldest
<1>3. Cardinality(Below(v)) <= Cardinality(Below(u))
  BY <1>1, <1>2, FS_Subset
<1>4. Cardinality(Below(u)) \in Nat /\ Cardinality(Below(v)) \in Nat
  BY <1>1, <1>2, FS_Subset, FS_CardinalityType
<1>5. Cardinality(Below(u)) < BatchLimit
  BY DEF Oldest
<1>6. Cardinality(Below(v)) < BatchLimit
  BY <1>3, <1>4, <1>5, UpdatesAssumption
<1> QED
  BY <1>6 DEF Oldest

LEMMA InitHolds == Init => IInv
BY UpdatesAssumption
DEF Init, IInv, TypeOK, Inductive, Never, Ids, Pending, Settled

LEMMA FailureType ==
  ASSUME TypeOK, CallFails \/ Failure
  PROVE  failures' \in 0 .. MaxFailures
<1>1. CASE Failure
  BY <1>1, UpdatesAssumption DEF Failure, TypeOK
<1>2. CASE UNCHANGED failures
  BY <1>2 DEF TypeOK
<1> QED
  BY <1>1, <1>2, Zenon DEF CallFails

LEMMA TypeHolds ==
  ASSUME TypeOK, [Next]_vars
  PROVE  TypeOK'
<1> USE UpdatesAssumption DEF TypeOK
<1>1. CASE Configure
  <2>1. failures' \in 0 .. MaxFailures
    BY <1>1, FailureType DEF Configure
  <2> QED
    BY <1>1, <2>1 DEF Configure, Register, history, Pending
<1>2. CASE GetUpdates
  BY <1>2 DEF GetUpdates, Confirm, Oldest, Waiting, Pending, history
<1>3. CASE GetUpdatesFails
  <2>1. failures' \in 0 .. MaxFailures
    BY <1>3, FailureType DEF GetUpdatesFails
  <2> QED
    BY <1>3, <2>1 DEF GetUpdatesFails, Confirm, Pending, history
<1>4. CASE Retry
  BY <1>4 DEF Retry, telegram, history
<1>5. CASE HandleNext
  <2> PICK u \in batch : /\ offset' = OffsetAfter(u)
                         /\ HandleUpdate(u)
                         /\ times' = [times EXCEPT ![u] = @ + 1]
                         /\ batch' = batch \ {u}
    BY <1>5 DEF HandleNext
  <2>1. u \in 1 .. sent /\ u \in Ids
    BY DEF Ids
  <2>2. offset' \in 0 .. sent + 1
    BY <2>1 DEF OffsetAfter
  <2>3. times' \in [Ids -> Nat]
    BY <2>1
  <2>4. handled' \subseteq 1 .. sent
    BY <2>1 DEF HandleUpdate
  <2> QED
    BY <1>5, <2>2, <2>3, <2>4 DEF HandleNext, telegram
<1>6. CASE WebhookEnds
  BY <1>6 DEF WebhookEnds, telegram, history
<1>7. ASSUME NEW u \in Ids, WebhookUpdate(u)
      PROVE  TypeOK'
  BY <1>7 DEF WebhookUpdate, Pending, telegram, history
<1>8. ASSUME NEW u \in Ids, WebhookHandle(u)
      PROVE  TypeOK'
  <2>1. failures' \in 0 .. MaxFailures
    BY <1>8, FailureType DEF WebhookHandle
  <2> QED
    BY <1>8, <2>1 DEF WebhookHandle, HandleUpdate, telegram
<1>9. ASSUME NEW u \in Ids, WebhookAnswer(u)
      PROVE  TypeOK'
  <2>1. failures' \in 0 .. MaxFailures
    BY <1>9, FailureType DEF WebhookAnswer
  <2> QED
    BY <1>9, <2>1 DEF WebhookAnswer, history
<1>10. CASE Send
  BY <1>10 DEF Send, instance, history
<1>11. CASE ContextEnds
  BY <1>11 DEF ContextEnds, telegram, history
<1>12. CASE Crash
  <2>1. failures' \in 0 .. MaxFailures
    BY <1>12, FailureType DEF Crash
  <2> QED
    BY <1>12, <2>1 DEF Crash, telegram, history
<1>13. CASE NextInstance
  BY <1>13 DEF NextInstance, Never, telegram
<1>14. CASE Rest \/ UNCHANGED vars
  BY <1>14 DEF Rest, vars, telegram, instance, history
<1>15. ASSUME NEW u \in Ids, Straggle(u)
       PROVE  TypeOK'
  BY <1>15 DEF Straggle, HandleUpdate, telegram
<1> QED
  BY <1>1, <1>2, <1>3, <1>4, <1>5, <1>6, <1>7, <1>8, <1>9, <1>10, <1>11, <1>12,
     <1>13, <1>14, <1>15 DEF Next, Worker

LEMMA BatchHolds ==
  ASSUME IInv, GetUpdates
  PROVE  Inductive'
<1> USE DEF IInv, TypeOK, Inductive, Settled
<1>1. gone' \subseteq Settled' /\ gone \subseteq gone' /\ offset' = offset
  BY DEF GetUpdates, Confirm, Pending, history
<1>2. /\ batch' = Oldest
      /\ UNCHANGED <<sent, dropped, handled, setting, posted, serving, times>>
  BY DEF GetUpdates, history
<1>3. posted = {}
  BY DEF GetUpdates
<1>4. \A u \in Oldest : u \in Pending /\ u >= offset /\ u \notin gone'
  BY DEF GetUpdates, Confirm, Oldest, Waiting, Pending
<1>5. ASSUME NEW u \in Oldest, NEW v \in 1 .. sent, v < u
      PROVE  v \in Oldest \cup Settled
  <2>1. CASE v \in Waiting
    BY <1>5, <2>1, OldestIsABeginning
  <2>2. CASE v \notin Waiting
    BY <2>2 DEF Waiting, Pending
  <2> QED
    BY <2>1, <2>2
<1>6. batch' # {} => pc' = "handle" /\ Polling'
  BY <1>2 DEF GetUpdates, Polling
<1> QED
  BY <1>1, <1>2, <1>3, <1>4, <1>5, <1>6

LEMMA HandlingHolds ==
  ASSUME IInv, HandleNext
  PROVE  /\ Inductive'
         /\ \A u \in Ids : times'[u] > times[u] =>
              1 .. u \subseteq handled' \cup dropped
<1> USE DEF IInv, TypeOK, Inductive, Settled
<1> PICK u \in batch : /\ InTurn(u)
                       /\ offset' = OffsetAfter(u)
                       /\ HandleUpdate(u)
                       /\ times' = [times EXCEPT ![u] = @ + 1]
                       /\ batch' = batch \ {u}
                       /\ pc' = IF batch = {u} THEN "receive" ELSE "handle"
  BY DEF HandleNext
<1>1. UNCHANGED <<sent, gone, dropped, setting, posted, serving>>
  BY DEF HandleNext, telegram
<1>2. /\ u \in 1 .. sent /\ u \in Ids /\ u >= offset
      /\ \A v \in batch : u <= v
  <2>1. u \in 1 .. sent /\ u \in Ids
    BY UpdatesAssumption DEF Ids
  <2> QED
    BY <2>1 DEF InTurn
<1>3. offset' = u + 1
  BY <1>2 DEF OffsetAfter
<1>4. handled' = handled \cup {u}
  BY DEF HandleUpdate
<1>5. \A v \in 1 .. sent : v < u => v \in Settled
  BY <1>2
<1>6. \A v \in 1 .. sent : v < offset' => v \in Settled'
  BY <1>1, <1>2, <1>3, <1>4, <1>5
<1>7. \A v \in Ids : times'[v] <= 1 /\ (times'[v] > 0 => v < offset')
  <2> TAKE v \in Ids
  <2>1. CASE v = u
    BY <1>2, <1>3, <2>1 DEF Ids
  <2>2. CASE v # u
    BY <1>2, <1>3, <2>2 DEF Ids
  <2> QED
    BY <2>1, <2>2
<1>8. \A v \in batch' : v >= offset'
  BY <1>2, <1>3
<1>9. \A v \in batch' : \A w \in 1 .. sent : w < v => w \in batch' \cup Settled'
  BY <1>1, <1>4
<1>10. batch' # {} => pc' = "handle" /\ Polling'
  BY <1>1 DEF Polling
<1>11. Inductive'
  BY <1>1, <1>2, <1>4, <1>6, <1>7, <1>8, <1>9, <1>10 DEF Pending, Polling
<1>12. 1 .. u \subseteq handled' \cup dropped
  BY <1>2, <1>4, <1>5
<1>13. \A w \in Ids : times'[w] > times[w] => w = u
  BY <1>2
<1> QED
  BY <1>11, <1>12, <1>13

LEMMA InductiveHolds ==
  ASSUME IInv, [Next]_vars
  PROVE  Inductive'
<1> USE DEF IInv, TypeOK, Inductive, Settled
<1>1. CASE Configure
  <2>1. batch = {}
    BY <1>1 DEF Configure
  <2>2. UNCHANGED <<sent, setting, offset, batch, posted, serving, handled, times>>
    BY <1>1 DEF Configure, history
  <2>3. posted = {}
    BY <1>1 DEF Configure
  <2>4. /\ gone' \subseteq gone \cup dropped'
        /\ dropped \subseteq dropped' /\ gone \subseteq gone'
    BY <1>1 DEF Configure, Register, Pending
  <2> QED
    BY <2>1, <2>2, <2>3, <2>4 DEF Pending, Polling
<1>2. CASE GetUpdates
  BY <1>2, BatchHolds
<1>3. CASE GetUpdatesFails
  BY <1>3 DEF GetUpdatesFails, Confirm, Pending, Polling, history
<1>4. CASE Retry
  BY <1>4 DEF Retry, Pending, Polling, telegram, history
<1>5. CASE HandleNext
  BY <1>5, HandlingHolds
<1>6. CASE WebhookEnds
  BY <1>6 DEF WebhookEnds, Pending, Polling, telegram, history
<1>7. ASSUME NEW u \in Ids, WebhookUpdate(u)
      PROVE  Inductive'
  BY <1>7 DEF WebhookUpdate, Pending, Polling, telegram, history
<1>8. ASSUME NEW u \in Ids, WebhookHandle(u)
      PROVE  Inductive'
  BY <1>8 DEF WebhookHandle, HandleUpdate, Pending, Polling, telegram
<1>9. ASSUME NEW u \in Ids, WebhookAnswer(u)
      PROVE  Inductive'
  <2>1. /\ u \in serving /\ serving' = serving \ {u}
        /\ gone \subseteq gone' /\ gone' \subseteq gone \cup {u}
        /\ UNCHANGED <<sent, dropped, setting, pc, offset, batch, posted, handled,
                       times>>
    BY <1>9 DEF WebhookAnswer, history
  <2> QED
    BY <2>1 DEF Pending, Polling
<1>10. CASE Send
  BY <1>10 DEF Send, Pending, Polling, instance, history
<1>11. CASE ContextEnds
  BY <1>11 DEF ContextEnds, Pending, Polling, telegram, history
<1>12. CASE Crash
  BY <1>12 DEF Crash, Pending, Polling, telegram, history
<1>13. CASE NextInstance
  BY <1>13 DEF NextInstance, Never, Ids, Pending, telegram
<1>14. CASE Rest \/ UNCHANGED vars
  BY <1>14 DEF Rest, Pending, Polling, vars, telegram, instance, history
<1>15. ASSUME NEW u \in Ids, Straggle(u)
       PROVE  Inductive'
  BY <1>15 DEF Straggle, HandleUpdate, Pending, Polling, telegram
<1> QED
  BY <1>1, <1>2, <1>3, <1>4, <1>5, <1>6, <1>7, <1>8, <1>9, <1>10, <1>11, <1>12,
     <1>13, <1>14, <1>15 DEF Next, Worker

\* The type invariant and the strengthening hold in every reachable state.
THEOREM UpdatesInvariant == Spec => []IInv
<1>1. IInv /\ [Next]_vars => IInv'
  BY TypeHolds, InductiveHolds DEF IInv
<1> QED
  BY InitHolds, <1>1, PTL DEF Spec

THEOREM UpdatesTypeOK == Spec => []TypeOK
<1>1. IInv => TypeOK
  BY DEF IInv
<1> QED
  BY UpdatesInvariant, <1>1, PTL

\* No polling instance handles an update twice.
THEOREM UpdatesOnceWhilePolling == Spec => []OnceWhilePolling
<1>1. IInv => OnceWhilePolling
  BY DEF IInv, Inductive, OnceWhilePolling
<1> QED
  BY UpdatesInvariant, <1>1, PTL

\* A poller takes updates up in the order they were sent.
THEOREM UpdatesHandledInOrder == Spec => HandledInOrder
<1> DEFINE Order == \A u \in Ids : times'[u] > times[u] =>
                      1 .. u \subseteq handled' \cup dropped
<1>1. ASSUME IInv, [Next]_vars
      PROVE  Order
  <2>1. CASE HandleNext
    BY <1>1, <2>1, HandlingHolds
  <2>2. CASE NextInstance
    <3>1. \A u \in Ids : times'[u] = 0 /\ times[u] \in Nat
      BY <1>1, <2>2 DEF NextInstance, Never, IInv, TypeOK
    <3> QED
      BY <3>1
  <2>3. CASE ~HandleNext /\ ~NextInstance
    <3>1. times' = times
      BY <1>1, <2>3
      DEF Next, Worker, vars, history, Configure, GetUpdates, GetUpdatesFails,
          Retry, WebhookEnds, WebhookUpdate, WebhookHandle, WebhookAnswer, Straggle,
          Send, ContextEnds, Crash, Rest
    <3>2. \A u \in Ids : times[u] \in Nat
      BY <1>1 DEF IInv, TypeOK
    <3> QED
      BY <3>1, <3>2
  <2> QED
    BY <2>1, <2>2, <2>3
<1>2. IInv /\ [Next]_vars => [Order]_vars
  BY <1>1
<1> QED
  BY UpdatesInvariant, <1>2, PTL DEF Spec, HandledInOrder

-----------------------------------------------------------------------------

\* The updates somebody was given to handle.
InHand == batch \cup posted \cup straggling

\* Every step is one of AtLeastOnce, or changes nothing it speaks of.
LEMMA StepKeepsPromise ==
  ASSUME IInv, [Next]_vars
  PROVE  [Queue!Next]_<<sent, Pending, InHand, handled, dropped>>
<1> DEFINE Step == [Queue!Next]_<<sent, Pending, InHand, handled, dropped>>
<1> USE DEF IInv, TypeOK, Inductive, Settled, Queue!Next, InHand
<1>1. CASE Configure
  <2>1. CASE UNCHANGED <<gone, dropped>>
    BY <1>1, <2>1 DEF Configure, Pending, history
  <2>2. CASE gone' = 1 .. sent /\ dropped' = dropped \cup Pending
    BY <1>1, <2>2 DEF Configure, Pending, history, Queue!DiscardAll
  <2> QED
    BY <1>1, <2>1, <2>2 DEF Configure, Register
<1>2. CASE GetUpdates \/ GetUpdatesFails
  <2>1. UNCHANGED <<sent, handled, dropped>>
    BY <1>2 DEF GetUpdates, GetUpdatesFails, history
  <2>2. CASE Confirm
    <3> DEFINE S == {u \in Pending : u < offset}
    <3>1. S \in SUBSET (Pending \cap handled)
      BY DEF Pending
    <3>2. Pending' = Pending \ S
      BY <2>1, <2>2 DEF Confirm, Pending
    <3>3. InHand' \subseteq InHand \cup Pending'
      <4>1. Oldest \subseteq Pending \ S
        BY DEF Oldest, Waiting, Pending
      <4>2. CASE GetUpdates
        BY <3>2, <4>1, <4>2 DEF GetUpdates
      <4>3. CASE GetUpdatesFails
        BY <4>3 DEF GetUpdatesFails
      <4> QED
        BY <1>2, <4>2, <4>3
    <3> QED
      BY <2>1, <3>1, <3>2, <3>3 DEF Queue!HandOut
  <2>3. CASE UNCHANGED gone /\ GetUpdatesFails
    BY <2>1, <2>3 DEF GetUpdatesFails, Pending
  <2> QED
    BY <1>2, <2>2, <2>3 DEF GetUpdates, GetUpdatesFails
<1>3. CASE HandleNext
  <2> PICK u \in batch : HandleUpdate(u) /\ batch' = batch \ {u}
    BY <1>3 DEF HandleNext
  <2>1. UNCHANGED <<sent, Pending, dropped>>
    BY <1>3 DEF HandleNext, Pending, telegram
  <2>2. InHand' \in {InHand, InHand \ {u}}
    BY <1>3 DEF HandleNext
  <2> QED
    BY <2>1, <2>2 DEF HandleUpdate, Queue!Handle
<1>4. ASSUME NEW u \in Ids, WebhookHandle(u)
      PROVE  Step
  <2>1. UNCHANGED <<sent, Pending, dropped>>
    BY <1>4 DEF WebhookHandle, Pending, telegram
  <2>2. u \in InHand /\ InHand' \in {InHand, InHand \ {u}}
    BY <1>4 DEF WebhookHandle
  <2>3. CASE HandleUpdate(u)
    BY <2>1, <2>2, <2>3 DEF HandleUpdate, Queue!Handle
  <2>4. CASE UNCHANGED handled
    <3>1. Pending' = Pending \ {} /\ {} \in SUBSET (Pending \cap handled)
      BY <2>1
    <3> QED
      BY <2>1, <2>2, <2>4, <3>1 DEF Queue!HandOut
  <2> QED
    BY <1>4, <2>3, <2>4 DEF WebhookHandle
<1>5. ASSUME NEW u \in Ids, WebhookAnswer(u)
      PROVE  Step
  <2>1. UNCHANGED <<sent, InHand, handled, dropped>>
    BY <1>5 DEF WebhookAnswer, history
  <2>2. CASE u \in Pending /\ gone' = gone \cup {u}
    <3>1. /\ {u} \in SUBSET (Pending \cap handled)
          /\ Pending' = Pending \ {u}
      BY <1>5, <2>2 DEF WebhookAnswer, Pending
    <3> QED
      BY <2>1, <3>1 DEF Queue!HandOut
  <2>3. CASE ~(u \in Pending /\ gone' = gone \cup {u})
    BY <1>5, <2>1, <2>3 DEF WebhookAnswer, Pending
  <2> QED
    BY <2>2, <2>3
<1>6. CASE Send
  <2>1. Pending' = Pending \cup {sent + 1}
    BY <1>6 DEF Send, Pending
  <2> QED
    BY <1>6, <2>1 DEF Send, instance, history, Queue!Arrive
<1>7. CASE Retry \/ WebhookEnds \/ ContextEnds \/ Rest \/ UNCHANGED vars
  BY <1>7 DEF Retry, WebhookEnds, ContextEnds, Rest, vars, telegram, instance,
              history, Pending
<1>8. ASSUME NEW u \in Ids, WebhookUpdate(u)
      PROVE  Step
  <2>1. UNCHANGED <<sent, Pending, handled, dropped>>
    BY <1>8 DEF WebhookUpdate, telegram, history, Pending
  <2>2. InHand' \subseteq InHand \cup Pending'
    BY <1>8, <2>1 DEF WebhookUpdate
  <2>3. Pending' = Pending \ {} /\ {} \in SUBSET (Pending \cap handled)
    BY <2>1
  <2> QED
    BY <2>1, <2>2, <2>3 DEF Queue!HandOut
<1>9. CASE Crash \/ NextInstance
  <2>1. UNCHANGED <<sent, Pending, handled, dropped>>
    BY <1>9 DEF Crash, NextInstance, telegram, history, Pending
  <2>2. InHand' \subseteq InHand
    BY <1>9 DEF Crash, NextInstance
  <2>3. Pending' = Pending \ {} /\ {} \in SUBSET (Pending \cap handled)
    BY <2>1
  <2> QED
    BY <2>1, <2>2, <2>3 DEF Queue!HandOut
<1>10. ASSUME NEW u \in Ids, Straggle(u)
       PROVE  Step
  <2>1. UNCHANGED <<sent, Pending, dropped>>
    BY <1>10 DEF Straggle, Pending, telegram
  <2>2. u \in InHand /\ InHand' \in {InHand, InHand \ {u}}
    BY <1>10 DEF Straggle
  <2>3. HandleUpdate(u)
    BY <1>10 DEF Straggle
  <2> QED
    BY <2>1, <2>2, <2>3 DEF HandleUpdate, Queue!Handle
<1> QED
  BY <1>1, <1>2, <1>3, <1>4, <1>5, <1>6, <1>7, <1>8, <1>9, <1>10 DEF Next, Worker

\* Polling and the webhook together implement the abstract queue: no message is
\* forgotten unhandled, through reloads, crashes and lost answers.
THEOREM UpdatesKeepPromise == Spec => KeepsPromise
<1>1. Init => Queue!Init
  BY DEF Init, Pending, Queue!Init
<1>2. IInv /\ [Next]_vars => [Queue!Next]_Queue!queue
  BY StepKeepsPromise DEF Queue!queue, InHand
<1> QED
  BY UpdatesInvariant, <1>1, <1>2, PTL DEF Spec, KeepsPromise, Queue!Spec

=============================================================================
