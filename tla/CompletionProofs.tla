-------------------------- MODULE CompletionProofs --------------------------
(***************************************************************************)
(* Proofs about Completion for any number of humans, requests, updates and *)
(* IDs, and any value of the other constants.                              *)
(***************************************************************************)
EXTENDS Completion, AvailabilityProofs, FiniteSetTheorems, TLAPS

\* The labels from Register to the end of a request's work: routing succeeded.
Served == Labels \ {"accept", "admit", "forget", "leave", "done"}

Routed == \A r \in Requests : pc[r] \in Served => Human(r) \in Users

\* A handler past its first step knows which request it answers, and holds a
\* channel exactly while it is about to send.
Addressed ==
  \A p \in Updates :
    /\ ustate[p] \in {"resolving", "sending", "accepted", "rejected"} =>
         ureq[p] \in Requests
    /\ ustate[p] = "sending" <=> sending[p] # None

TypeInv == TypeOK /\ Routed /\ Addressed

LEMMA TypeInit == Init => TypeInv
  BY PartiesAssumption, CompletionAssumption, AvailabilityAssumption, BrokerAssumption
  DEF Init, TypeInv, TypeOK, Routed, Addressed, Served, Labels, HandlerStates,
      AvailabilityInit, BrokerInit, StatsInit, ChannelInit,
      AvailabilityTypeOK, BrokerTypeOK, StatsTypeOK, ChannelTypeOK, Counters, Errors

LEMMA RecordType ==
  ASSUME StatsTypeOK, NEW u \in Users, NEW o \in Outcomes, Record(u, o)
  PROVE  StatsTypeOK'
<1>1. ASSUME NEW c \in Counters PROVE Counted(c, o) \in Counters
  <2>1. CASE o = "responded"
    <3> DEFINE d == [c EXCEPT !.responded = @ + 1]
    <3>1. d \in Counters
      BY DEF Counters
    <3>2. [d EXCEPT !.consecutive = 0] \in Counters
      <4> HIDE DEF d
      <4> QED
        BY <3>1 DEF Counters
    <3>3. Counted(c, o) = [d EXCEPT !.consecutive = 0]
      BY <2>1 DEF Counted
    <3> HIDE DEF d
    <3> QED
      BY <3>2, <3>3
  <2>2. CASE o = "timed_out"
    <3> DEFINE d == [c EXCEPT !.timedOut = @ + 1]
    <3>1. d \in Counters
      BY DEF Counters
    <3>2. [d EXCEPT !.consecutive = c.consecutive + 1] \in Counters
      <4>1. c.consecutive + 1 \in Nat
        BY DEF Counters
      <4> HIDE DEF d
      <4> QED
        BY <3>1, <4>1 DEF Counters
    <3>3. Counted(c, o) = [d EXCEPT !.consecutive = c.consecutive + 1]
      BY <2>2 DEF Counted
    <3> HIDE DEF d
    <3> QED
      BY <3>2, <3>3
  <2>3. CASE o = "canceled"
    BY <2>3 DEF Counted, Counters
  <2>4. CASE o = "delivery_failed"
    BY <2>4 DEF Counted, Counters
  <2> QED
    BY <2>1, <2>2, <2>3, <2>4 DEF Outcomes
<1>2. Counted(tally[u], o) \in Counters
  BY <1>1 DEF StatsTypeOK
<1> QED
  BY <1>2 DEF StatsTypeOK, Record

LEMMA TypeStep == TypeInv /\ [Next]_vars => TypeInv'
<1> USE PartiesAssumption, CompletionAssumption, AvailabilityAssumption, BrokerAssumption
    DEF TypeInv, TypeOK, Routed, Addressed, Served, Labels, HandlerStates,
        AvailabilityTypeOK, BrokerTypeOK, StatsTypeOK, ChannelTypeOK,
        availabilityVars, brokerVars, channelVars, requestVars, updateVars,
        Goto, Return, Cleanup, Results, Human, Outcomes, Errors
<1> SUFFICES ASSUME TypeInv, [Next]_vars PROVE TypeInv'
  OBVIOUS
<1>1. ASSUME NEW r \in Requests, Accept(r) PROVE TypeInv'
  <2>1. TypeOK'
    BY <1>1, SMTT(30) DEF Accept
  <2>2. Routed' /\ Addressed'
    BY <1>1 DEF Accept
  <2> QED
    BY <2>1, <2>2
<1>2. ASSUME NEW r \in Requests, Admit(r) PROVE TypeInv'
  <2>1. TypeOK'
    BY <1>2, SMTT(30) DEF Admit
  <2>2. Routed' /\ Addressed'
    BY <1>2 DEF Admit
  <2> QED
    BY <2>1, <2>2
<1>3. ASSUME NEW r \in Requests, Register(r) PROVE TypeInv'
  <2>1. TypeOK'
    BY <1>3, SMTT(30) DEF Register, Duplicate, RegisterChannel
  <2>2. Routed' /\ Addressed'
    BY <1>3 DEF Register, Duplicate, RegisterChannel
  <2> QED
    BY <2>1, <2>2
<1>4. ASSUME NEW r \in Requests, DeliverPart(r) PROVE TypeInv'
  BY <1>4 DEF DeliverPart, ShowTask
<1>5. ASSUME NEW r \in Requests, DeliverDone(r) PROVE TypeInv'
  BY <1>5 DEF DeliverDone, Correlate
<1>6. ASSUME NEW r \in Requests, DeliverFailed(r) PROVE TypeInv'
  BY <1>6 DEF DeliverFailed
<1>7. ASSUME NEW r \in Requests, EmitReasoning(r) PROVE TypeInv'
  <2>1. StatsTypeOK'
    BY <1>7, RecordType DEF EmitReasoning, Observe
  <2>2. TypeOK'
    BY <1>7, <2>1, SMTT(30) DEF EmitReasoning, Observe
  <2>3. Routed' /\ Addressed'
    BY <1>7 DEF EmitReasoning, Observe
  <2> QED
    BY <2>2, <2>3
<1>8. ASSUME NEW r \in Requests, AwaitReply(r) PROVE TypeInv'
  <2>1. TypeOK'
    BY <1>8, SMTT(30) DEF AwaitReply, ReceiveReply, Ended
  <2>2. Routed' /\ Addressed'
    BY <1>8 DEF AwaitReply, ReceiveReply, Ended
  <2> QED
    BY <2>1, <2>2
<1>9. ASSUME NEW r \in Requests, CheckCause(r) PROVE TypeInv'
  <2>1. StatsTypeOK'
    BY <1>9, RecordType DEF CheckCause, Fail, Observe
  <2>2. TypeOK'
    BY <1>9, <2>1, SMTT(30) DEF CheckCause, Fail, Observe
  <2>3. Routed' /\ Addressed'
    BY <1>9 DEF CheckCause, Fail, Observe
  <2> QED
    BY <2>2, <2>3
<1>10. ASSUME NEW r \in Requests, CheckContext(r) PROVE TypeInv'
  <2>1. StatsTypeOK'
    BY <1>10, RecordType DEF CheckContext, Fail, Observe
  <2>2. TypeOK'
    BY <1>10, <2>1, SMTT(30) DEF CheckContext, Fail, Observe
  <2>3. Routed' /\ Addressed'
    BY <1>10 DEF CheckContext, Fail, Observe
  <2> QED
    BY <2>2, <2>3
<1>11. ASSUME NEW r \in Requests, Miss(r) PROVE TypeInv'
  <2>1. AvailabilityTypeOK'
    BY <1>11, RecordMissedReplyType DEF Miss
  <2>2. TypeOK'
    BY <1>11, <2>1, SMTT(30) DEF Miss
  <2>3. Routed' /\ Addressed'
    BY <1>11 DEF Miss
  <2> QED
    BY <2>2, <2>3
<1>12. ASSUME NEW r \in Requests, Recheck(r) PROVE TypeInv'
  <2>1. TypeOK'
    BY <1>12, SMTT(30) DEF Recheck
  <2>2. Routed' /\ Addressed'
    BY <1>12 DEF Recheck
  <2> QED
    BY <2>1, <2>2
<1>13. ASSUME NEW r \in Requests, Fallback(r) PROVE TypeInv'
  <2>1. TypeOK'
    BY <1>13, SMTT(30) DEF Fallback
  <2>2. Routed' /\ Addressed'
    BY <1>13 DEF Fallback
  <2> QED
    BY <2>1, <2>2
<1>14. ASSUME NEW r \in Requests, ReplyReceived(r) PROVE TypeInv'
  BY <1>14 DEF ReplyReceived, RecordReply
<1>15. ASSUME NEW r \in Requests, Respond(r) PROVE TypeInv'
  <2>1. StatsTypeOK'
    BY <1>15, RecordType DEF Respond, Observe
  <2>2. TypeOK'
    BY <1>15, <2>1, SMTT(30) DEF Respond, Observe
  <2>3. Routed' /\ Addressed'
    BY <1>15 DEF Respond, Observe
  <2> QED
    BY <2>2, <2>3
<1>16. ASSUME NEW r \in Requests, EmitAnswer(r) PROVE TypeInv'
  <2>1. TypeOK'
    BY <1>16, SMTT(30) DEF EmitAnswer
  <2>2. Routed' /\ Addressed'
    BY <1>16 DEF EmitAnswer
  <2> QED
    BY <2>1, <2>2
<1>17. ASSUME NEW r \in Requests, ForgetDelivery(r) PROVE TypeInv'
  BY <1>17 DEF ForgetDelivery, Forget
<1>18. ASSUME NEW r \in Requests, Unregister(r) PROVE TypeInv'
  BY <1>18 DEF Unregister, RemoveEntry
<1>19. ASSUME NEW r \in Requests, Notify(r) PROVE TypeInv'
  BY <1>19 DEF Notify
<1>20. ASSUME NEW r \in Requests, Deadline(r) PROVE TypeInv'
  BY <1>20 DEF Deadline
<1>21. ASSUME NEW r \in Requests, NEW cause \in Causes, CallerEnds(r, cause) PROVE TypeInv'
  BY <1>21 DEF CallerEnds
<1>22. ASSUME NEW p \in Updates, NEW r \in Requests, ReplyArrives(p, r) PROVE TypeInv'
  BY <1>22 DEF ReplyArrives, Consume, Handle
<1>23. ASSUME NEW p \in Updates, Submit(p) PROVE TypeInv'
  BY <1>23 DEF Submit, AnsweredID, ResolveTake, Handle
<1>24. ASSUME NEW p \in Updates, SendReply(p) PROVE TypeInv'
  BY <1>24 DEF SendReply, ResolveSend, Handle
<1>25. ASSUME NEW p \in Updates, NEW u \in Users, OnlineCommand(p, u) PROVE TypeInv'
  BY <1>25 DEF OnlineCommand, SetOnline, Handle
<1>26. ASSUME UNCHANGED vars PROVE TypeInv'
  BY <1>26 DEF vars
<1> QED
  BY <1>1, <1>2, <1>3, <1>4, <1>5, <1>6, <1>7, <1>8, <1>9, <1>10, <1>11, <1>12, <1>13,
     <1>14, <1>15, <1>16, <1>17, <1>18, <1>19, <1>20, <1>21, <1>22, <1>23, <1>24, <1>25, <1>26
  DEF Next, Execute, HandleReply, Rest
\* Nobody holds the channel of r, and it is empty.
Unheld(r) ==
  /\ \A i \in Ids : entries[i] # r
  /\ \A p \in Updates : sending[p] # r
  /\ inbox[r] = None

\* requestCtx exists from Register on, and before it the channel does not.
Started ==
  \A r \in Requests :
    /\ pc[r] \in {"accept", "admit", "register"} => reqCtx[r] = "none"
    /\ pc[r] \in Waiting => reqCtx[r] # "none"
    /\ reqCtx[r] = "none" => Unheld(r)

BrokerInv == SendNeverBlocks /\ Started

LEMMA BrokerInitInv == Init => BrokerInv
  BY PartiesAssumption, BrokerAssumption
  DEF Init, BrokerInit, BrokerInv, SendNeverBlocks, Started, Unheld, Waiting

LEMMA BrokerStep == TypeInv /\ BrokerInv /\ [Next]_vars => BrokerInv'
<1> USE PartiesAssumption, BrokerAssumption, CompletionAssumption
    DEF TypeInv, TypeOK, BrokerTypeOK, ChannelTypeOK, Addressed,
        brokerVars, channelVars, requestVars, updateVars, Goto, Cleanup,
        BrokerInv, SendNeverBlocks, Started, Unheld, Waiting
<1> SUFFICES ASSUME TypeInv, BrokerInv, [Next]_vars PROVE BrokerInv'
  OBVIOUS
<1>1. ASSUME NEW r \in Requests, Accept(r) PROVE BrokerInv'
  BY <1>1 DEF Accept, Return
<1>2. ASSUME NEW r \in Requests, Admit(r) PROVE BrokerInv'
  BY <1>2 DEF Admit, Return
<1>3. ASSUME NEW r \in Requests, Register(r) PROVE BrokerInv'
  BY <1>3 DEF Register, Return, Duplicate, RegisterChannel
<1>4. ASSUME NEW r \in Requests, DeliverPart(r) PROVE BrokerInv'
  BY <1>4 DEF DeliverPart, ShowTask
<1>5. ASSUME NEW r \in Requests, DeliverDone(r) PROVE BrokerInv'
  BY <1>5 DEF DeliverDone, Correlate
<1>6. ASSUME NEW r \in Requests, DeliverFailed(r) PROVE BrokerInv'
  BY <1>6 DEF DeliverFailed
<1>7. ASSUME NEW r \in Requests, EmitReasoning(r) PROVE BrokerInv'
  BY <1>7 DEF EmitReasoning, Return
<1>8. ASSUME NEW r \in Requests, AwaitReply(r) PROVE BrokerInv'
  BY <1>8 DEF AwaitReply, ReceiveReply
<1>9. ASSUME NEW r \in Requests, CheckCause(r) PROVE BrokerInv'
  BY <1>9 DEF CheckCause, Fail, Return
<1>10. ASSUME NEW r \in Requests, CheckContext(r) PROVE BrokerInv'
  BY <1>10 DEF CheckContext, Fail, Return
<1>11. ASSUME NEW r \in Requests, Miss(r) PROVE BrokerInv'
  BY <1>11 DEF Miss
<1>12. ASSUME NEW r \in Requests, Recheck(r) PROVE BrokerInv'
  BY <1>12 DEF Recheck, Return
<1>13. ASSUME NEW r \in Requests, Fallback(r) PROVE BrokerInv'
  BY <1>13 DEF Fallback, Return
<1>14. ASSUME NEW r \in Requests, ReplyReceived(r) PROVE BrokerInv'
  BY <1>14 DEF ReplyReceived
<1>15. ASSUME NEW r \in Requests, Respond(r) PROVE BrokerInv'
  BY <1>15 DEF Respond, Return
<1>16. ASSUME NEW r \in Requests, EmitAnswer(r) PROVE BrokerInv'
  BY <1>16 DEF EmitAnswer, Return
<1>17. ASSUME NEW r \in Requests, ForgetDelivery(r) PROVE BrokerInv'
  BY <1>17 DEF ForgetDelivery, Forget
<1>18. ASSUME NEW r \in Requests, Unregister(r) PROVE BrokerInv'
  BY <1>18 DEF Unregister, RemoveEntry
<1>19. ASSUME NEW r \in Requests, Notify(r) PROVE BrokerInv'
  BY <1>19 DEF Notify
<1>20. ASSUME NEW r \in Requests, Deadline(r) PROVE BrokerInv'
  BY <1>20 DEF Deadline
<1>21. ASSUME NEW r \in Requests, NEW cause \in Causes, CallerEnds(r, cause) PROVE BrokerInv'
  BY <1>21 DEF CallerEnds
<1>22. ASSUME NEW p \in Updates, NEW r \in Requests, ReplyArrives(p, r) PROVE BrokerInv'
  BY <1>22 DEF ReplyArrives, Consume, Handle
<1>23. ASSUME NEW p \in Updates, Submit(p) PROVE BrokerInv'
  BY <1>23 DEF Submit, AnsweredID, ResolveTake, Handle
<1>24. ASSUME NEW p \in Updates, SendReply(p) PROVE BrokerInv'
  BY <1>24 DEF SendReply, ResolveSend, Handle
<1>25. ASSUME NEW p \in Updates, NEW u \in Users, OnlineCommand(p, u) PROVE BrokerInv'
  BY <1>25 DEF OnlineCommand, Handle
<1>26. ASSUME UNCHANGED vars PROVE BrokerInv'
  BY <1>26 DEF vars
<1> QED
  BY <1>1, <1>2, <1>3, <1>4, <1>5, <1>6, <1>7, <1>8, <1>9, <1>10, <1>11, <1>12, <1>13,
     <1>14, <1>15, <1>16, <1>17, <1>18, <1>19, <1>20, <1>21, <1>22, <1>23, <1>24, <1>25, <1>26
  DEF Next, Execute, HandleReply, Rest

\* The labels at which nothing has been decided about a request yet.
Undecided == {"accept", "admit", "register"} \cup Waiting

\* How the state of a request depends on where it stands: no error, outcome or
\* answer while it is undecided; an outcome is recorded once; a wait fails only
\* because requestCtx ended, and requestCtx ends with the caller's context.
Chronicle ==
  \A r \in Requests :
    /\ pc[r] \in Undecided => err[r] = None /\ outcome[r] = None /\ answer[r] = None
    /\ pc[r] \in {"cause", "check"} /\ err[r] # "fallback" =>
         outcome[r] = None /\ answer[r] = None
    /\ pc[r] \in {"cause", "check"} /\ err[r] = "await" => Ended(reqCtx[r])
    /\ pc[r] = "check" /\ err[r] = "await" => reqCtx[r] # "reload"
    /\ pc[r] \in {"reply", "respond"} => outcome[r] = None
    /\ pc[r] \in {"miss", "recheck", "fallback"} => err[r] # "deliver"
    /\ pc[r] = "miss" => outcome[r] = "timed_out" /\ r \notin notices
    /\ reqCtx[r] \in Causes => ctx[r] # "live"
    /\ outcome[r] = "timed_out" => reqCtx[r] = "deadline" /\ answer[r] = None
    /\ r \in notices => outcome[r] = "timed_out"

\* A correlation exists only between DeliverDone and Forget of its request, and
\* a broker entry is gone when its request has returned.
Released ==
  \A r \in Requests :
    /\ r \in correlated =>
         /\ pc[r] \notin {"accept", "admit", "register", "deliver", "leave", "done"}
         /\ err[r] # "deliver" /\ reqCtx[r] # "none"
    /\ pc[r] = "done" => entries[IdOf[r]] # r

LEMMA HistoryInit == Init => Chronicle /\ Released /\ OpenWhileWaiting
  BY PartiesAssumption, BrokerAssumption, CompletionAssumption, NoneAssumption
  DEF Init, Chronicle, Released, OpenWhileWaiting, Undecided,
      Waiting, Ended, Outcomes, Errors, BrokerInit, ChannelInit

LEMMA ChronicleStep == TypeInv /\ Chronicle /\ [Next]_vars => Chronicle'
<1> USE PartiesAssumption, BrokerAssumption, CompletionAssumption, NoneAssumption
    DEF TypeInv, TypeOK, BrokerTypeOK, ChannelTypeOK, Addressed,
        brokerVars, channelVars, requestVars, updateVars, Goto, Cleanup,
        Outcomes, Errors,
        Chronicle, Undecided, Waiting, Ended
<1> SUFFICES ASSUME TypeInv, Chronicle, [Next]_vars PROVE Chronicle'
  OBVIOUS
<1>1. ASSUME NEW r \in Requests, Accept(r) PROVE Chronicle'
  BY <1>1 DEF Accept, Return
<1>2. ASSUME NEW r \in Requests, Admit(r) PROVE Chronicle'
  BY <1>2 DEF Admit, Return
<1>3. ASSUME NEW r \in Requests, Register(r) PROVE Chronicle'
  BY <1>3 DEF Register, Return, Duplicate, RegisterChannel
<1>4. ASSUME NEW r \in Requests, DeliverPart(r) PROVE Chronicle'
  BY <1>4 DEF DeliverPart, ShowTask
<1>5. ASSUME NEW r \in Requests, DeliverDone(r) PROVE Chronicle'
  BY <1>5 DEF DeliverDone, Correlate
<1>6. ASSUME NEW r \in Requests, DeliverFailed(r) PROVE Chronicle'
  BY <1>6 DEF DeliverFailed
<1>7. ASSUME NEW r \in Requests, EmitReasoning(r) PROVE Chronicle'
  BY <1>7 DEF EmitReasoning, Return, Observe
<1>8. ASSUME NEW r \in Requests, AwaitReply(r) PROVE Chronicle'
  BY <1>8 DEF AwaitReply, ReceiveReply
<1>9. ASSUME NEW r \in Requests, CheckCause(r) PROVE Chronicle'
  BY <1>9 DEF CheckCause, Fail, Return, Observe, CauseOf
<1>10. ASSUME NEW r \in Requests, CheckContext(r) PROVE Chronicle'
  BY <1>10 DEF CheckContext, Fail, Return, Observe, CallerGone
<1>11. ASSUME NEW r \in Requests, Miss(r) PROVE Chronicle'
  BY <1>11 DEF Miss
<1>12. ASSUME NEW r \in Requests, Recheck(r) PROVE Chronicle'
  BY <1>12 DEF Recheck, Return
<1>13. ASSUME NEW r \in Requests, Fallback(r) PROVE Chronicle'
  BY <1>13 DEF Fallback, Return
<1>14. ASSUME NEW r \in Requests, ReplyReceived(r) PROVE Chronicle'
  BY <1>14 DEF ReplyReceived
<1>15. ASSUME NEW r \in Requests, Respond(r) PROVE Chronicle'
  BY <1>15 DEF Respond, Return, Observe
<1>16. ASSUME NEW r \in Requests, EmitAnswer(r) PROVE Chronicle'
  BY <1>16 DEF EmitAnswer, Return
<1>17. ASSUME NEW r \in Requests, ForgetDelivery(r) PROVE Chronicle'
  BY <1>17 DEF ForgetDelivery, Forget
<1>18. ASSUME NEW r \in Requests, Unregister(r) PROVE Chronicle'
  BY <1>18 DEF Unregister, RemoveEntry
<1>19. ASSUME NEW r \in Requests, Notify(r) PROVE Chronicle'
  BY <1>19 DEF Notify
<1>20. ASSUME NEW r \in Requests, Deadline(r) PROVE Chronicle'
  BY <1>20 DEF Deadline
<1>21. ASSUME NEW r \in Requests, NEW cause \in Causes, CallerEnds(r, cause) PROVE Chronicle'
  BY <1>21 DEF CallerEnds
<1>22. ASSUME NEW p \in Updates, NEW r \in Requests, ReplyArrives(p, r) PROVE Chronicle'
  BY <1>22 DEF ReplyArrives, Consume, Handle
<1>23. ASSUME NEW p \in Updates, Submit(p) PROVE Chronicle'
  BY <1>23 DEF Submit, AnsweredID, ResolveTake, Handle
<1>24. ASSUME NEW p \in Updates, SendReply(p) PROVE Chronicle'
  BY <1>24 DEF SendReply, ResolveSend, Handle
<1>25. ASSUME NEW p \in Updates, NEW u \in Users, OnlineCommand(p, u) PROVE Chronicle'
  BY <1>25 DEF OnlineCommand, Handle
<1>26. ASSUME UNCHANGED vars PROVE Chronicle'
  BY <1>26 DEF vars
<1> QED
  BY <1>1, <1>2, <1>3, <1>4, <1>5, <1>6, <1>7, <1>8, <1>9, <1>10, <1>11, <1>12, <1>13,
     <1>14, <1>15, <1>16, <1>17, <1>18, <1>19, <1>20, <1>21, <1>22, <1>23, <1>24, <1>25, <1>26
  DEF Next, Execute, HandleReply, Rest

LEMMA ReleasedStep == TypeInv /\ BrokerInv /\ Chronicle /\ Released /\ [Next]_vars => Released'
<1> USE PartiesAssumption, BrokerAssumption, CompletionAssumption, NoneAssumption
    DEF TypeInv, TypeOK, BrokerTypeOK, ChannelTypeOK, Addressed,
        brokerVars, channelVars, requestVars, updateVars, Goto, Cleanup,
        Outcomes, Errors,
        BrokerInv, Started, Unheld, Chronicle, Undecided, Waiting, Released
<1> SUFFICES ASSUME TypeInv, BrokerInv, Chronicle, Released, [Next]_vars PROVE Released'
  OBVIOUS
<1>1. ASSUME NEW r \in Requests, Accept(r) PROVE Released'
  BY <1>1 DEF Accept, Return
<1>2. ASSUME NEW r \in Requests, Admit(r) PROVE Released'
  BY <1>2 DEF Admit, Return
<1>3. ASSUME NEW r \in Requests, Register(r) PROVE Released'
  BY <1>3 DEF Register, Return, Duplicate, RegisterChannel
<1>4. ASSUME NEW r \in Requests, DeliverPart(r) PROVE Released'
  BY <1>4 DEF DeliverPart, ShowTask
<1>5. ASSUME NEW r \in Requests, DeliverDone(r) PROVE Released'
  BY <1>5 DEF DeliverDone, Correlate
<1>6. ASSUME NEW r \in Requests, DeliverFailed(r) PROVE Released'
  BY <1>6 DEF DeliverFailed
<1>7. ASSUME NEW r \in Requests, EmitReasoning(r) PROVE Released'
  BY <1>7 DEF EmitReasoning, Return
<1>8. ASSUME NEW r \in Requests, AwaitReply(r) PROVE Released'
  BY <1>8 DEF AwaitReply, ReceiveReply
<1>9. ASSUME NEW r \in Requests, CheckCause(r) PROVE Released'
  BY <1>9 DEF CheckCause, Fail, Return
<1>10. ASSUME NEW r \in Requests, CheckContext(r) PROVE Released'
  BY <1>10 DEF CheckContext, Fail, Return
<1>11. ASSUME NEW r \in Requests, Miss(r) PROVE Released'
  BY <1>11 DEF Miss
<1>12. ASSUME NEW r \in Requests, Recheck(r) PROVE Released'
  BY <1>12 DEF Recheck, Return
<1>13. ASSUME NEW r \in Requests, Fallback(r) PROVE Released'
  BY <1>13 DEF Fallback, Return
<1>14. ASSUME NEW r \in Requests, ReplyReceived(r) PROVE Released'
  BY <1>14 DEF ReplyReceived
<1>15. ASSUME NEW r \in Requests, Respond(r) PROVE Released'
  BY <1>15 DEF Respond, Return
<1>16. ASSUME NEW r \in Requests, EmitAnswer(r) PROVE Released'
  BY <1>16 DEF EmitAnswer, Return
<1>17. ASSUME NEW r \in Requests, ForgetDelivery(r) PROVE Released'
  BY <1>17 DEF ForgetDelivery, Forget
<1>18. ASSUME NEW r \in Requests, Unregister(r) PROVE Released'
  BY <1>18 DEF Unregister, RemoveEntry
<1>19. ASSUME NEW r \in Requests, Notify(r) PROVE Released'
  BY <1>19 DEF Notify
<1>20. ASSUME NEW r \in Requests, Deadline(r) PROVE Released'
  BY <1>20 DEF Deadline
<1>21. ASSUME NEW r \in Requests, NEW cause \in Causes, CallerEnds(r, cause) PROVE Released'
  BY <1>21 DEF CallerEnds
<1>22. ASSUME NEW p \in Updates, NEW r \in Requests, ReplyArrives(p, r) PROVE Released'
  BY <1>22 DEF ReplyArrives, Consume, Handle
<1>23. ASSUME NEW p \in Updates, Submit(p) PROVE Released'
  BY <1>23 DEF Submit, AnsweredID, ResolveTake, Handle
<1>24. ASSUME NEW p \in Updates, SendReply(p) PROVE Released'
  BY <1>24 DEF SendReply, ResolveSend, Handle
<1>25. ASSUME NEW p \in Updates, NEW u \in Users, OnlineCommand(p, u) PROVE Released'
  BY <1>25 DEF OnlineCommand, Handle
<1>26. ASSUME UNCHANGED vars PROVE Released'
  BY <1>26 DEF vars
<1> QED
  BY <1>1, <1>2, <1>3, <1>4, <1>5, <1>6, <1>7, <1>8, <1>9, <1>10, <1>11, <1>12, <1>13,
     <1>14, <1>15, <1>16, <1>17, <1>18, <1>19, <1>20, <1>21, <1>22, <1>23, <1>24, <1>25, <1>26
  DEF Next, Execute, HandleReply, Rest

LEMMA OpenStep == TypeInv /\ BrokerInv /\ OpenWhileWaiting /\ [Next]_vars => OpenWhileWaiting'
<1> USE PartiesAssumption, BrokerAssumption, CompletionAssumption, NoneAssumption
    DEF TypeInv, TypeOK, BrokerTypeOK, ChannelTypeOK, Addressed,
        brokerVars, channelVars, requestVars, updateVars, Goto, Cleanup,
        Outcomes, Errors,
        OpenWhileWaiting, Reachable, UniqueID, Waiting
<1> SUFFICES ASSUME TypeInv, BrokerInv, OpenWhileWaiting, [Next]_vars PROVE OpenWhileWaiting'
  OBVIOUS
<1>1. ASSUME NEW r \in Requests, Accept(r) PROVE OpenWhileWaiting'
  BY <1>1 DEF Accept, Return
<1>2. ASSUME NEW r \in Requests, Admit(r) PROVE OpenWhileWaiting'
  BY <1>2 DEF Admit, Return
<1>3. ASSUME NEW r \in Requests, Register(r) PROVE OpenWhileWaiting'
  BY <1>3 DEF Register, Return, Duplicate, RegisterChannel
<1>4. ASSUME NEW r \in Requests, DeliverPart(r) PROVE OpenWhileWaiting'
  BY <1>4 DEF DeliverPart, ShowTask
<1>5. ASSUME NEW r \in Requests, DeliverDone(r) PROVE OpenWhileWaiting'
  BY <1>5 DEF DeliverDone, Correlate
<1>6. ASSUME NEW r \in Requests, DeliverFailed(r) PROVE OpenWhileWaiting'
  BY <1>6 DEF DeliverFailed
<1>7. ASSUME NEW r \in Requests, EmitReasoning(r) PROVE OpenWhileWaiting'
  BY <1>7 DEF EmitReasoning, Return
<1>8. ASSUME NEW r \in Requests, AwaitReply(r) PROVE OpenWhileWaiting'
  BY <1>8 DEF AwaitReply, ReceiveReply
<1>9. ASSUME NEW r \in Requests, CheckCause(r) PROVE OpenWhileWaiting'
  BY <1>9 DEF CheckCause, Fail, Return
<1>10. ASSUME NEW r \in Requests, CheckContext(r) PROVE OpenWhileWaiting'
  BY <1>10 DEF CheckContext, Fail, Return
<1>11. ASSUME NEW r \in Requests, Miss(r) PROVE OpenWhileWaiting'
  BY <1>11 DEF Miss
<1>12. ASSUME NEW r \in Requests, Recheck(r) PROVE OpenWhileWaiting'
  BY <1>12 DEF Recheck, Return
<1>13. ASSUME NEW r \in Requests, Fallback(r) PROVE OpenWhileWaiting'
  BY <1>13 DEF Fallback, Return
<1>14. ASSUME NEW r \in Requests, ReplyReceived(r) PROVE OpenWhileWaiting'
  BY <1>14 DEF ReplyReceived
<1>15. ASSUME NEW r \in Requests, Respond(r) PROVE OpenWhileWaiting'
  BY <1>15 DEF Respond, Return
<1>16. ASSUME NEW r \in Requests, EmitAnswer(r) PROVE OpenWhileWaiting'
  BY <1>16 DEF EmitAnswer, Return
<1>17. ASSUME NEW r \in Requests, ForgetDelivery(r) PROVE OpenWhileWaiting'
  BY <1>17 DEF ForgetDelivery, Forget
<1>18. ASSUME NEW r \in Requests, Unregister(r) PROVE OpenWhileWaiting'
  BY <1>18 DEF Unregister, RemoveEntry
<1>19. ASSUME NEW r \in Requests, Notify(r) PROVE OpenWhileWaiting'
  BY <1>19 DEF Notify
<1>20. ASSUME NEW r \in Requests, Deadline(r) PROVE OpenWhileWaiting'
  BY <1>20 DEF Deadline
<1>21. ASSUME NEW r \in Requests, NEW cause \in Causes, CallerEnds(r, cause) PROVE OpenWhileWaiting'
  BY <1>21 DEF CallerEnds
<1>22. ASSUME NEW p \in Updates, NEW r \in Requests, ReplyArrives(p, r) PROVE OpenWhileWaiting'
  BY <1>22 DEF ReplyArrives, Consume, Handle
<1>23. ASSUME NEW p \in Updates, Submit(p) PROVE OpenWhileWaiting'
  BY <1>23 DEF Submit, AnsweredID, ResolveTake, Handle
<1>24. ASSUME NEW p \in Updates, SendReply(p) PROVE OpenWhileWaiting'
  BY <1>24 DEF SendReply, ResolveSend, Handle
<1>25. ASSUME NEW p \in Updates, NEW u \in Users, OnlineCommand(p, u) PROVE OpenWhileWaiting'
  BY <1>25 DEF OnlineCommand, Handle
<1>26. ASSUME UNCHANGED vars PROVE OpenWhileWaiting'
  BY <1>26 DEF vars
<1> QED
  BY <1>1, <1>2, <1>3, <1>4, <1>5, <1>6, <1>7, <1>8, <1>9, <1>10, <1>11, <1>12, <1>13,
     <1>14, <1>15, <1>16, <1>17, <1>18, <1>19, <1>20, <1>21, <1>22, <1>23, <1>24, <1>25, <1>26
  DEF Next, Execute, HandleReply, Rest

\* An answer takes the channel out of circulation; an accepted reply is in its
\* request's channel until it becomes the answer; and a request stops waiting
\* without an answer only because its context ended or its delivery failed.
Claims ==
  /\ \A r \in Requests :
       /\ answer[r] # None => Unheld(r)
       /\ reqCtx[r] = "live" => ctx[r] = "live"
       /\ pc[r] \notin Undecided /\ answer[r] = None =>
            Ended(reqCtx[r]) \/ err[r] = "deliver" \/ Unheld(r)
  /\ \A p \in Updates : UniqueID(ureq[p]) =>
       /\ ustate[p] = "sending" => sending[p] = ureq[p]
       /\ ustate[p] = "accepted" => answer[ureq[p]] = p \/ inbox[ureq[p]] = p

LEMMA ClaimsInit == Init => Claims
  BY PartiesAssumption, BrokerAssumption
  DEF Init, Claims, Unheld, Undecided, Waiting, BrokerInit

LEMMA ClaimsStep == TypeInv /\ BrokerInv /\ Chronicle /\ Claims /\ [Next]_vars => Claims'
<1> USE PartiesAssumption, BrokerAssumption, CompletionAssumption, NoneAssumption
    DEF TypeInv, TypeOK, BrokerTypeOK, ChannelTypeOK, Addressed,
        brokerVars, channelVars, requestVars, updateVars, Goto, Cleanup,
        Outcomes, Errors,
        BrokerInv, SendNeverBlocks, Started, Unheld, Chronicle, Undecided,
        Waiting, Ended, Claims, UniqueID
<1> SUFFICES ASSUME TypeInv, BrokerInv, Chronicle, Claims, [Next]_vars PROVE Claims'
  OBVIOUS
<1>1. ASSUME NEW r \in Requests, Accept(r) PROVE Claims'
  BY <1>1 DEF Accept, Return
<1>2. ASSUME NEW r \in Requests, Admit(r) PROVE Claims'
  BY <1>2 DEF Admit, Return
<1>3. ASSUME NEW r \in Requests, Register(r) PROVE Claims'
  BY <1>3 DEF Register, Return, Duplicate, RegisterChannel
<1>4. ASSUME NEW r \in Requests, DeliverPart(r) PROVE Claims'
  BY <1>4 DEF DeliverPart, ShowTask
<1>5. ASSUME NEW r \in Requests, DeliverDone(r) PROVE Claims'
  BY <1>5 DEF DeliverDone, Correlate
<1>6. ASSUME NEW r \in Requests, DeliverFailed(r) PROVE Claims'
  BY <1>6 DEF DeliverFailed
<1>7. ASSUME NEW r \in Requests, EmitReasoning(r) PROVE Claims'
  BY <1>7 DEF EmitReasoning, Return
<1>8. ASSUME NEW r \in Requests, AwaitReply(r) PROVE Claims'
  BY <1>8 DEF AwaitReply, ReceiveReply
<1>9. ASSUME NEW r \in Requests, CheckCause(r) PROVE Claims'
  BY <1>9 DEF CheckCause, Fail, Return
<1>10. ASSUME NEW r \in Requests, CheckContext(r) PROVE Claims'
  BY <1>10 DEF CheckContext, Fail, Return
<1>11. ASSUME NEW r \in Requests, Miss(r) PROVE Claims'
  BY <1>11 DEF Miss
<1>12. ASSUME NEW r \in Requests, Recheck(r) PROVE Claims'
  BY <1>12 DEF Recheck, Return
<1>13. ASSUME NEW r \in Requests, Fallback(r) PROVE Claims'
  BY <1>13 DEF Fallback, Return
<1>14. ASSUME NEW r \in Requests, ReplyReceived(r) PROVE Claims'
  BY <1>14 DEF ReplyReceived
<1>15. ASSUME NEW r \in Requests, Respond(r) PROVE Claims'
  BY <1>15 DEF Respond, Return
<1>16. ASSUME NEW r \in Requests, EmitAnswer(r) PROVE Claims'
  BY <1>16 DEF EmitAnswer, Return
<1>17. ASSUME NEW r \in Requests, ForgetDelivery(r) PROVE Claims'
  BY <1>17 DEF ForgetDelivery, Forget
<1>18. ASSUME NEW r \in Requests, Unregister(r) PROVE Claims'
  BY <1>18 DEF Unregister, RemoveEntry
<1>19. ASSUME NEW r \in Requests, Notify(r) PROVE Claims'
  BY <1>19 DEF Notify
<1>20. ASSUME NEW r \in Requests, Deadline(r) PROVE Claims'
  BY <1>20 DEF Deadline
<1>21. ASSUME NEW r \in Requests, NEW cause \in Causes, CallerEnds(r, cause) PROVE Claims'
  BY <1>21 DEF CallerEnds
<1>22. ASSUME NEW p \in Updates, NEW r \in Requests, ReplyArrives(p, r) PROVE Claims'
  BY <1>22 DEF ReplyArrives, Consume, Handle
<1>23. ASSUME NEW p \in Updates, Submit(p) PROVE Claims'
  BY <1>23 DEF Submit, AnsweredID, ResolveTake, Handle
<1>24. ASSUME NEW p \in Updates, SendReply(p) PROVE Claims'
  BY <1>24 DEF SendReply, ResolveSend, Handle
<1>25. ASSUME NEW p \in Updates, NEW u \in Users, OnlineCommand(p, u) PROVE Claims'
  BY <1>25 DEF OnlineCommand, Handle
<1>26. ASSUME UNCHANGED vars PROVE Claims'
  BY <1>26 DEF vars
<1> QED
  BY <1>1, <1>2, <1>3, <1>4, <1>5, <1>6, <1>7, <1>8, <1>9, <1>10, <1>11, <1>12, <1>13,
     <1>14, <1>15, <1>16, <1>17, <1>18, <1>19, <1>20, <1>21, <1>22, <1>23, <1>24, <1>25, <1>26
  DEF Next, Execute, HandleReply, Rest

-----------------------------------------------------------------------------
(* The availability store under many requests                              *)

\* Whatever a step of the service does to the store is one call of it, for a human
\* the store knows.
LEMMA StoreStep == TypeInv /\ [Next]_vars => [AvailabilityNext]_availabilityVars
<1> SUFFICES ASSUME TypeInv, [Next]_vars PROVE [AvailabilityNext]_availabilityVars
  OBVIOUS
<1>1. ASSUME NEW r \in Requests, Miss(r) PROVE AvailabilityNext
  <2>1. Human(r) \in Users
    BY <1>1 DEF Miss, TypeInv, Routed, Served, Labels
  <2> QED
    BY <1>1, <2>1 DEF Miss, AvailabilityNext
<1>2. ASSUME NEW r \in Requests, ReplyReceived(r) PROVE AvailabilityNext
  <2>1. Human(r) \in Users
    BY <1>2 DEF ReplyReceived, TypeInv, Routed, Served, Labels
  <2> QED
    BY <1>2, <2>1 DEF ReplyReceived, AvailabilityNext
<1>3. ASSUME NEW p \in Updates, NEW u \in Users, OnlineCommand(p, u)
      PROVE  AvailabilityNext
  BY <1>3 DEF OnlineCommand, AvailabilityNext
<1>4. \/ UNCHANGED availabilityVars
      \/ \E r \in Requests : Miss(r) \/ ReplyReceived(r)
      \/ \E p \in Updates, u \in Users : OnlineCommand(p, u)
  BY DEF Next, Execute, HandleReply, Rest, vars, Accept, Admit, Register,
     DeliverPart, DeliverDone, DeliverFailed, EmitReasoning, AwaitReply,
     CheckCause, CheckContext, Recheck, Fallback, Respond, EmitAnswer,
     ForgetDelivery, Unregister, Notify, Deadline, CallerEnds, ReplyArrives,
     Submit, SendReply
<1> QED
  BY <1>1, <1>2, <1>3, <1>4

\* What one step may do to the availability of u.
AvailabilityStep(u) ==
  /\ online[u] /\ ~online'[u] =>
       \E r \in Requests : /\ Human(r) = u /\ outcome[r] = "timed_out"
                           /\ r \notin notices /\ r \in notices'
  /\ ~online[u] /\ online'[u] =>
       \E p \in Updates : ustate[p] = "unsent" /\ ustate'[p] = "command"

LEMMA ChangesStep ==
  ASSUME TypeInv, Chronicle, [Next]_vars
  PROVE  \A u \in Users : AvailabilityStep(u)
<1> SUFFICES ASSUME NEW u \in Users PROVE AvailabilityStep(u)
  OBVIOUS
<1>1. ASSUME NEW r \in Requests, Miss(r) PROVE AvailabilityStep(u)
  <2>1. Human(r) \in Users /\ online \in [Users -> BOOLEAN]
    BY <1>1 DEF Miss, TypeInv, TypeOK, AvailabilityTypeOK, Routed, Served, Labels
  <2>2. CASE Enabled /\ online[Human(r)] /\ BecomesOffline(Human(r))
    <3>1. \A v \in Users : v # Human(r) => online'[v] = online[v]
      BY <1>1, <2>1, <2>2 DEF Miss, RecordMissedReply
    <3>2. ~online'[Human(r)]
      <4>1. online' = [online EXCEPT ![Human(r)] = ~BecomesOffline(Human(r))]
        BY <1>1, <2>2 DEF Miss, RecordMissedReply
      <4> QED
        BY <2>1, <2>2, <4>1, Zenon
    <3>3. outcome[r] = "timed_out" /\ r \notin notices /\ r \in notices'
      BY <1>1, <2>2 DEF Miss, Chronicle
    <3> QED
      BY <2>2, <3>1, <3>2, <3>3 DEF AvailabilityStep
  <2>3. CASE ~(Enabled /\ online[Human(r)] /\ BecomesOffline(Human(r)))
    <3>1. \A v \in Users : online'[v] = online[v]
      <4>1. CASE Enabled /\ online[Human(r)]
        <5>1. ~BecomesOffline(Human(r))
          BY <2>3, <4>1
        <5>2. online' = [online EXCEPT ![Human(r)] = ~BecomesOffline(Human(r))]
          BY <1>1, <4>1 DEF Miss, RecordMissedReply
        <5>3. (~BecomesOffline(Human(r))) = online[Human(r)]
          BY <2>1, <4>1, <5>1, Zenon
        <5> QED
          BY <2>1, <5>2, <5>3, Zenon
      <4>2. CASE ~(Enabled /\ online[Human(r)])
        BY <1>1, <4>2 DEF Miss, RecordMissedReply, availabilityVars
      <4> QED
        BY <4>1, <4>2
    <3> QED
      BY <3>1 DEF AvailabilityStep
  <2> QED
    BY <2>2, <2>3
<1>2. ASSUME NEW p \in Updates, NEW v \in Users, OnlineCommand(p, v)
      PROVE  AvailabilityStep(u)
  BY <1>2 DEF OnlineCommand, SetOnline, Handle, AvailabilityStep, TypeInv,
     TypeOK, AvailabilityTypeOK
<1>3. CASE UNCHANGED online
  BY <1>3 DEF AvailabilityStep
<1>4. \/ UNCHANGED online
      \/ \E r \in Requests : Miss(r)
      \/ \E p \in Updates, v \in Users : OnlineCommand(p, v)
  BY DEF Next, Execute, HandleReply, Rest, vars, availabilityVars, Accept,
     Admit, Register, DeliverPart, DeliverDone, DeliverFailed, EmitReasoning,
     AwaitReply, CheckCause, CheckContext, Recheck, Fallback, ReplyReceived,
     RecordReply, Respond, EmitAnswer, ForgetDelivery, Unregister, Notify,
     Deadline, CallerEnds, ReplyArrives, Submit, SendReply
<1> QED
  BY <1>1, <1>2, <1>3, <1>4

-----------------------------------------------------------------------------
(* What is recorded, and what the caller is told                           *)

\* The result and the outcome of a request, as it goes on: no result before it
\* returns; an answer in hand while it is recorded; the outcome "timed_out" on
\* the way to the fallback if there was a wait, and none if there was not.
Verdict ==
  /\ \A r \in Requests :
       /\ ~Returning(r) => result[r] = None
       /\ pc[r] \in {"reply", "respond", "emit"} => answer[r] # None /\ reqCtx[r] # "none"
       /\ pc[r] = "emit" => outcome[r] = "responded"
       /\ pc[r] \in {"miss", "recheck"} => outcome[r] = "timed_out"
       /\ pc[r] \in {"cause", "check"} /\ err[r] # "fallback" => reqCtx[r] # "none"
       /\ pc[r] = "fallback" \/ (pc[r] \in {"cause", "check"} /\ err[r] = "fallback") =>
            outcome[r] = IF reqCtx[r] = "none" THEN None ELSE "timed_out"
       /\ Returning(r) =>
            (outcome[r] # None <=> reqCtx[r] # "none" /\ result[r] # "duplicate")
  /\ ResultMatchesOutcome

LEMMA VerdictInit == Init => Verdict
  BY PartiesAssumption, CompletionAssumption, NoneAssumption
  DEF Init, Verdict, ResultMatchesOutcome, Returning, Results, Outcomes

LEMMA VerdictStep ==
  ASSUME TypeInv, BrokerInv, Chronicle, Verdict, [Next]_vars
  PROVE  Verdict'
<1> USE PartiesAssumption, CompletionAssumption, NoneAssumption
    DEF TypeInv, TypeOK, requestVars, updateVars, Goto, Return, Cleanup, Outcomes, Errors,
        Results, BrokerInv, Started, Chronicle, Undecided, Waiting, Returning, Verdict,
        ResultMatchesOutcome
<1>1. ASSUME NEW r \in Requests, Accept(r) PROVE Verdict'
  BY <1>1 DEF Accept
<1>2. ASSUME NEW r \in Requests, Admit(r) PROVE Verdict'
  BY <1>2 DEF Admit
<1>3. ASSUME NEW r \in Requests, Register(r) PROVE Verdict'
  BY <1>3 DEF Register
<1>4. ASSUME NEW r \in Requests, DeliverDone(r) \/ DeliverFailed(r) PROVE Verdict'
  BY <1>4 DEF DeliverDone, DeliverFailed
<1>5. ASSUME NEW r \in Requests, EmitReasoning(r) PROVE Verdict'
  BY <1>5 DEF EmitReasoning, Observe
<1>6. ASSUME NEW r \in Requests, AwaitReply(r) PROVE Verdict'
  BY <1>6 DEF AwaitReply, ReceiveReply
<1>7. ASSUME NEW r \in Requests, CheckCause(r) PROVE Verdict'
  BY <1>7 DEF CheckCause, Fail, Observe
<1>8. ASSUME NEW r \in Requests, CheckContext(r) PROVE Verdict'
  BY <1>8 DEF CheckContext, Fail, Observe
<1>9. ASSUME NEW r \in Requests, Miss(r) \/ Recheck(r) PROVE Verdict'
  BY <1>9 DEF Miss, Recheck
<1>10. ASSUME NEW r \in Requests, Fallback(r) PROVE Verdict'
  BY <1>10 DEF Fallback
<1>11. ASSUME NEW r \in Requests, ReplyReceived(r) PROVE Verdict'
  BY <1>11 DEF ReplyReceived
<1>12. ASSUME NEW r \in Requests, Respond(r) PROVE Verdict'
  BY <1>12 DEF Respond, Observe
<1>13. ASSUME NEW r \in Requests, EmitAnswer(r) PROVE Verdict'
  BY <1>13 DEF EmitAnswer
<1>14. ASSUME NEW r \in Requests, ForgetDelivery(r) \/ Unregister(r) PROVE Verdict'
  BY <1>14 DEF ForgetDelivery, Unregister
<1>15. ASSUME NEW r \in Requests, Deadline(r) PROVE Verdict'
  BY <1>15 DEF Deadline
<1>16. ASSUME NEW r \in Requests, NEW cause \in Causes, CallerEnds(r, cause) PROVE Verdict'
  BY <1>16 DEF CallerEnds
<1>17. CASE UNCHANGED requestVars
  BY <1>17
<1>18. \/ UNCHANGED requestVars
       \/ \E r \in Requests :
            \/ Accept(r) \/ Admit(r) \/ Register(r) \/ DeliverDone(r) \/ DeliverFailed(r)
            \/ EmitReasoning(r) \/ AwaitReply(r) \/ CheckCause(r) \/ CheckContext(r)
            \/ Miss(r) \/ Recheck(r) \/ Fallback(r) \/ ReplyReceived(r) \/ Respond(r)
            \/ EmitAnswer(r) \/ ForgetDelivery(r) \/ Unregister(r) \/ Deadline(r)
            \/ \E cause \in Causes : CallerEnds(r, cause)
  BY Zenon DEF Next, Execute, HandleReply, Rest, vars, DeliverPart, Notify, ReplyArrives, Submit,
     SendReply, OnlineCommand
<1> QED
  BY <1>1, <1>2, <1>3, <1>4, <1>5, <1>6, <1>7, <1>8, <1>9, <1>10, <1>11, <1>12, <1>13,
     <1>14, <1>15, <1>16, <1>17, <1>18

-----------------------------------------------------------------------------
(* The counters add up                                                     *)

\* The requests of u that recorded an outcome, and the counters of u.
Recorded(u) == {r \in Requests : Human(r) = u /\ outcome[r] # None}

Tallied ==
  \A u \in Users : /\ IsFiniteSet(Recorded(u))
                   /\ Observed(u) = Cardinality(Recorded(u))

\* One more observation adds one to the counters of its human, and to the
\* timeouts only when it is one.
LEMMA CountedAddsOne ==
  ASSUME NEW c \in Counters, NEW o \in Outcomes
  PROVE  LET d == Counted(c, o) IN
         /\ d.responded + d.timedOut + d.canceled + d.deliveryFailed
              = c.responded + c.timedOut + c.canceled + c.deliveryFailed + 1
         /\ d.timedOut = IF o = "timed_out" THEN c.timedOut + 1 ELSE c.timedOut
<1>1. CASE o = "responded"
  <2> DEFINE d == [c EXCEPT !.responded = @ + 1]
  <2>1. Counted(c, o) = [d EXCEPT !.consecutive = 0]
    BY <1>1 DEF Counted
  <2>2. /\ d \in Counters /\ d.responded = c.responded + 1 /\ d.timedOut = c.timedOut
        /\ d.canceled = c.canceled /\ d.deliveryFailed = c.deliveryFailed
    BY DEF Counters
  <2> HIDE DEF d
  <2> QED
    BY <1>1, <2>1, <2>2 DEF Counters
<1>2. CASE o = "timed_out"
  <2> DEFINE d == [c EXCEPT !.timedOut = @ + 1]
  <2>1. Counted(c, o) = [d EXCEPT !.consecutive = c.consecutive + 1]
    BY <1>2 DEF Counted
  <2>2. /\ d \in Counters /\ d.timedOut = c.timedOut + 1 /\ d.responded = c.responded
        /\ d.canceled = c.canceled /\ d.deliveryFailed = c.deliveryFailed
    BY DEF Counters
  <2> HIDE DEF d
  <2> QED
    BY <1>2, <2>1, <2>2 DEF Counters
<1>3. CASE o = "canceled"
  BY <1>3 DEF Counted, Counters
<1>4. CASE o = "delivery_failed"
  BY <1>4 DEF Counted, Counters
<1> QED
  BY <1>1, <1>2, <1>3, <1>4 DEF Outcomes

\* The first observation of a request is counted once, for its human.
LEMMA ObserveTallies ==
  ASSUME TypeOK, Tallied, NEW r \in Requests, Human(r) \in Users, outcome[r] = None,
         NEW o \in Outcomes, Observe(r, o)
  PROVE  Tallied'
<1> SUFFICES ASSUME NEW u \in Users
             PROVE  /\ IsFiniteSet(Recorded(u)')
                    /\ Observed(u)' = Cardinality(Recorded(u)')
  BY DEF Tallied
<1>1. IsFiniteSet(Recorded(u)) /\ Observed(u) = Cardinality(Recorded(u))
  BY DEF Tallied
<1>2. tally[u] \in Counters
  BY DEF TypeOK, StatsTypeOK
<1>3. o # None
  BY NoneAssumption
<1>4. CASE u = Human(r)
  <2>1. Recorded(u)' = Recorded(u) \cup {r} /\ r \notin Recorded(u)
    BY <1>3, <1>4 DEF TypeOK, Observe, Recorded, Human
  <2>2. IsFiniteSet(Recorded(u)') /\ Cardinality(Recorded(u)') = Cardinality(Recorded(u)) + 1
    BY <1>1, <2>1, FS_AddElement
  <2>3. tally'[u] = Counted(tally[u], o)
    BY <1>4 DEF TypeOK, StatsTypeOK, Observe, Record
  <2>4. Observed(u)' = Observed(u) + 1
    BY <1>2, <2>3, CountedAddsOne DEF Observed
  <2> QED
    BY <1>1, <2>2, <2>4
<1>5. CASE u # Human(r)
  <2>1. Recorded(u)' = Recorded(u)
    BY <1>5 DEF TypeOK, Observe, Recorded, Human
  <2>2. Observed(u)' = Observed(u)
    BY <1>5 DEF TypeOK, StatsTypeOK, Observe, Record, Observed
  <2> QED
    BY <1>1, <2>1, <2>2
<1> QED
  BY <1>4, <1>5

LEMMA TalliedInit == Init => Tallied
<1> SUFFICES ASSUME Init, NEW u \in Users
             PROVE  IsFiniteSet(Recorded(u)) /\ Observed(u) = Cardinality(Recorded(u))
  BY DEF Tallied
<1>1. Recorded(u) = {}
  BY DEF Init, Recorded
<1>2. Observed(u) = 0
  BY DEF Init, StatsInit, Observed
<1> QED
  BY <1>1, <1>2, FS_EmptySet

\* An observation is the first of its request.
LEMMA ObservesOnce ==
  ASSUME TypeInv, Chronicle, [Next]_vars
  PROVE  \/ UNCHANGED <<tally, outcome>>
         \/ \E r \in Requests, o \in Outcomes :
              /\ Human(r) \in Users /\ outcome[r] = None
              /\ pc[r] \in {"reasoning", "cause", "check", "respond"}
              /\ Observe(r, o)
              /\ o = "timed_out" <=> pc'[r] = "miss"
<1> USE DEF Outcomes, Undecided, Waiting, Served, Labels
<1>1. ASSUME NEW r \in Requests, EmitReasoning(r)
      PROVE  \/ UNCHANGED <<tally, outcome>>
             \/ /\ Human(r) \in Users /\ outcome[r] = None /\ pc[r] = "reasoning"
                /\ pc'[r] # "miss" /\ Observe(r, "canceled")
  BY <1>1 DEF EmitReasoning, Return, Goto, Cleanup, TypeInv, TypeOK, Routed, Chronicle
<1>2. ASSUME NEW r \in Requests, CheckCause(r)
      PROVE  \/ UNCHANGED <<tally, outcome>>
             \/ /\ Human(r) \in Users /\ outcome[r] = None /\ pc[r] = "cause"
                /\ pc'[r] # "miss" /\ Observe(r, "canceled")
  BY <1>2 DEF CheckCause, Fail, Return, Goto, Cleanup, TypeInv, TypeOK, Routed, Chronicle
<1>3. ASSUME NEW r \in Requests, CheckContext(r)
      PROVE  \/ UNCHANGED <<tally, outcome>>
             \/ /\ Human(r) \in Users /\ outcome[r] = None /\ pc[r] = "check"
                /\ \/ pc'[r] # "miss" /\ Observe(r, "canceled")
                   \/ pc'[r] # "miss" /\ Observe(r, "delivery_failed")
                   \/ pc'[r] = "miss" /\ Observe(r, "timed_out")
  BY <1>3 DEF CheckContext, Fail, Return, Goto, Cleanup, TypeInv, TypeOK, Routed, Chronicle
<1>4. ASSUME NEW r \in Requests, Respond(r)
      PROVE  /\ Human(r) \in Users /\ outcome[r] = None /\ pc[r] = "respond"
             /\ pc'[r] # "miss" /\ Observe(r, "responded")
  BY <1>4 DEF Respond, Return, Goto, Cleanup, TypeInv, TypeOK, Routed, Chronicle
<1>5. \/ UNCHANGED <<tally, outcome>>
      \/ \E r \in Requests : EmitReasoning(r) \/ CheckCause(r) \/ CheckContext(r) \/ Respond(r)
  BY DEF Next, Execute, HandleReply, Rest, vars, requestVars, Accept, Admit, Register,
     DeliverPart, DeliverDone, DeliverFailed, AwaitReply, Miss, Recheck, Fallback,
     ReplyReceived, EmitAnswer, ForgetDelivery, Unregister, Notify, Deadline, CallerEnds,
     ReplyArrives, Submit, SendReply, OnlineCommand
<1> QED
  BY <1>1, <1>2, <1>3, <1>4, <1>5

LEMMA TalliedStep ==
  ASSUME TypeInv, Chronicle, Tallied, [Next]_vars
  PROVE  Tallied'
<1>1. CASE UNCHANGED <<tally, outcome>>
  BY <1>1 DEF Tallied, Recorded, Observed, Human
<1> QED
  BY <1>1, ObservesOnce, ObserveTallies DEF TypeInv

-----------------------------------------------------------------------------
(* Misses and timeouts                                                     *)

\* The requests of u whose timeout is in the statistics and not yet in the
\* availability store.
Missing(u) == {r \in Requests : Human(r) = u /\ pc[r] = "miss"}

Earned ==
  \A u \in Users :
    /\ IsFiniteSet(Missing(u))
    /\ missed[u] + Cardinality(Missing(u)) <= tally[u].timedOut
    /\ ~online[u] => tally[u].timedOut >= AfterMissedReplies

\* How the requests whose miss is still to be recorded come and go, and what
\* happens to the availability store meanwhile.
LEMMA MissSteps ==
  ASSUME TypeInv, [Next]_vars
  PROVE  \/ \E r \in Requests : Miss(r) /\ Human(r) \in Users
         \/ \E r \in Requests :
              /\ pc[r] = "check" /\ Goto(r, "miss") /\ Human(r) \in Users
              /\ Observe(r, "timed_out") /\ UNCHANGED availabilityVars
         \/ /\ \A r \in Requests : pc'[r] = "miss" <=> pc[r] = "miss"
            /\ \/ UNCHANGED availabilityVars
               \/ \E u \in Users : RecordReply(u) \/ SetOnline(u)
<1> DEFINE Keeps == \A r \in Requests : pc'[r] = "miss" <=> pc[r] = "miss"
<1> USE DEF TypeInv, TypeOK, Routed, Served, Labels, Goto, Return, Cleanup
<1>1. ASSUME NEW r \in Requests,
             \/ Accept(r) \/ Admit(r) \/ Register(r) \/ DeliverDone(r) \/ DeliverFailed(r)
             \/ EmitReasoning(r) \/ AwaitReply(r) \/ CheckCause(r) \/ Recheck(r)
             \/ Fallback(r) \/ Respond(r) \/ EmitAnswer(r) \/ ForgetDelivery(r)
             \/ Unregister(r)
      PROVE  Keeps /\ UNCHANGED availabilityVars
  <2>1. UNCHANGED availabilityVars /\ pc[r] # "miss"
    BY <1>1 DEF Accept, Admit, Register, DeliverDone, DeliverFailed, EmitReasoning,
       AwaitReply, CheckCause, Recheck, Fallback, Respond, EmitAnswer, ForgetDelivery,
       Unregister
  <2>2. \E l \in Labels : l # "miss" /\ pc' = [pc EXCEPT ![r] = l]
    <3>1. CASE Accept(r) \/ Admit(r) \/ Register(r) \/ DeliverDone(r) \/ DeliverFailed(r)
      BY <3>1 DEF Accept, Admit, Register, DeliverDone, DeliverFailed
    <3>2. CASE EmitReasoning(r) \/ AwaitReply(r) \/ CheckCause(r) \/ Recheck(r)
      BY <3>2 DEF EmitReasoning, AwaitReply, CheckCause, Fail, Recheck
    <3>3. CASE \/ Fallback(r) \/ Respond(r) \/ EmitAnswer(r) \/ ForgetDelivery(r)
               \/ Unregister(r)
      BY <3>3 DEF Fallback, Respond, EmitAnswer, ForgetDelivery, Unregister
    <3> QED
      BY <1>1, <3>1, <3>2, <3>3
  <2> QED
    BY <2>1, <2>2
<1>2. ASSUME NEW r \in Requests, CheckContext(r)
      PROVE  /\ UNCHANGED availabilityVars
             /\ \/ Keeps
                \/ /\ pc[r] = "check" /\ pc' = [pc EXCEPT ![r] = "miss"] /\ Human(r) \in Users
                   /\ Observe(r, "timed_out")
  BY <1>2 DEF CheckContext, Fail
<1>3. ASSUME NEW r \in Requests, Miss(r)
      PROVE  Human(r) \in Users
  BY <1>3 DEF Miss
<1>4. ASSUME NEW r \in Requests, ReplyReceived(r)
      PROVE  Keeps /\ Human(r) \in Users /\ RecordReply(Human(r))
  BY <1>4 DEF ReplyReceived
<1>5. ASSUME NEW p \in Updates, NEW u \in Users, OnlineCommand(p, u)
      PROVE  Keeps /\ SetOnline(u)
  BY <1>5 DEF OnlineCommand, requestVars
<1>6. CASE UNCHANGED <<pc, availabilityVars>>
  BY <1>6
<1>7. \/ UNCHANGED <<pc, availabilityVars>>
      \/ \E r \in Requests :
           \/ \/ Accept(r) \/ Admit(r) \/ Register(r) \/ DeliverDone(r) \/ DeliverFailed(r)
              \/ EmitReasoning(r) \/ AwaitReply(r) \/ CheckCause(r) \/ Recheck(r)
              \/ Fallback(r) \/ Respond(r) \/ EmitAnswer(r) \/ ForgetDelivery(r)
              \/ Unregister(r)
           \/ CheckContext(r) \/ Miss(r) \/ ReplyReceived(r)
      \/ \E p \in Updates, u \in Users : OnlineCommand(p, u)
  BY DEF Next, Execute, HandleReply, Rest, vars, requestVars, DeliverPart, Notify, Deadline,
     CallerEnds, ReplyArrives, Submit, SendReply
<1> QED
  BY <1>1, <1>2, <1>3, <1>4, <1>5, <1>6, <1>7

LEMMA EarnedInit == Init => Earned
<1> SUFFICES ASSUME Init, NEW u \in Users
             PROVE  /\ IsFiniteSet(Missing(u))
                    /\ missed[u] + Cardinality(Missing(u)) <= tally[u].timedOut
                    /\ online[u]
  BY DEF Earned
<1>1. Missing(u) = {}
  BY DEF Init, Missing
<1>2. missed[u] = 0 /\ online[u] /\ tally[u].timedOut = 0
  BY DEF Init, AvailabilityInit, StatsInit
<1> QED
  BY <1>1, <1>2, FS_EmptySet

LEMMA EarnedStep ==
  ASSUME TypeInv, Chronicle, Earned, [Next]_vars
  PROVE  Earned'
<1> SUFFICES ASSUME NEW u \in Users
             PROVE  /\ IsFiniteSet(Missing(u)')
                    /\ missed'[u] + Cardinality(Missing(u)') <= tally'[u].timedOut
                    /\ ~online'[u] => tally'[u].timedOut >= AfterMissedReplies
  BY DEF Earned
<1>1. /\ IsFiniteSet(Missing(u)) /\ Cardinality(Missing(u)) \in Nat
      /\ missed[u] + Cardinality(Missing(u)) <= tally[u].timedOut
      /\ ~online[u] => tally[u].timedOut >= AfterMissedReplies
  BY FS_CardinalityType DEF Earned
<1>2. /\ missed[u] \in Nat /\ tally[u].timedOut \in Nat /\ tally[u] \in Counters
      /\ online[u] \in BOOLEAN /\ AfterMissedReplies \in Nat
  BY AvailabilityAssumption
  DEF TypeInv, TypeOK, AvailabilityTypeOK, StatsTypeOK, Counters
<1>3. ASSUME NEW r \in Requests, Miss(r), Human(r) \in Users
      PROVE  /\ IsFiniteSet(Missing(u)')
             /\ missed'[u] + Cardinality(Missing(u)') <= tally'[u].timedOut
             /\ ~online'[u] => tally'[u].timedOut >= AfterMissedReplies
  <2>1. UNCHANGED tally
    BY <1>3 DEF Miss
  <2>2. CASE Human(r) = u
    <3>1. Missing(u)' = Missing(u) \ {r} /\ r \in Missing(u)
      BY <1>3, <2>2 DEF Miss, Goto, Missing, Human, TypeInv, TypeOK
    <3>2. /\ IsFiniteSet(Missing(u)')
          /\ Cardinality(Missing(u)') = Cardinality(Missing(u)) - 1
      BY <1>1, <3>1, FS_RemoveElement
    <3>3. missed'[u] \in {missed[u], missed[u] + 1}
      BY <1>3, <2>2 DEF Miss, RecordMissedReply, availabilityVars, TypeInv, TypeOK,
         AvailabilityTypeOK
    <3>4. ASSUME ~online'[u]
          PROVE  \/ ~online[u]
                 \/ missed[u] + 1 >= AfterMissedReplies
      <4>1. CASE Enabled /\ online[u]
        <5>1. online'[u] = ~BecomesOffline(u)
          BY <1>3, <2>2, <4>1 DEF Miss, RecordMissedReply, TypeInv, TypeOK, AvailabilityTypeOK
        <5>2. BecomesOffline(u)
          BY <3>4, <5>1, Zenon
        <5> QED
          BY <5>2 DEF BecomesOffline
      <4>2. CASE ~(Enabled /\ online[u])
        <5>1. online' = online
          BY <1>3, <2>2, <4>2 DEF Miss, RecordMissedReply, availabilityVars
        <5> QED
          BY <3>4, <5>1
      <4> QED
        BY <4>1, <4>2
    <3>5. tally'[u].timedOut = tally[u].timedOut /\ Cardinality(Missing(u)) >= 1
      <4>1. Cardinality(Missing(u)') \in Nat
        BY <3>2, FS_CardinalityType
      <4> QED
        BY <1>1, <2>1, <3>2, <4>1
    <3>6. missed'[u] + Cardinality(Missing(u)') <= tally'[u].timedOut
      BY <1>1, <1>2, <3>2, <3>3, <3>5
    <3>7. ~online'[u] => tally'[u].timedOut >= AfterMissedReplies
      BY <1>1, <1>2, <3>4, <3>5
    <3> QED
      BY <3>2, <3>6, <3>7
  <2>3. CASE Human(r) # u
    <3>1. Missing(u)' = Missing(u)
      BY <1>3, <2>3 DEF Miss, Goto, Missing, Human, TypeInv, TypeOK
    <3>2. missed'[u] = missed[u] /\ online'[u] = online[u]
      BY <1>3, <2>3 DEF Miss, RecordMissedReply, availabilityVars, TypeInv, TypeOK,
         AvailabilityTypeOK
    <3> QED
      BY <1>1, <2>1, <3>1, <3>2
  <2> QED
    BY <2>2, <2>3
<1>4. ASSUME NEW r \in Requests, pc[r] = "check", Goto(r, "miss"), Human(r) \in Users,
             Observe(r, "timed_out"), UNCHANGED availabilityVars
      PROVE  /\ IsFiniteSet(Missing(u)')
             /\ missed'[u] + Cardinality(Missing(u)') <= tally'[u].timedOut
             /\ ~online'[u] => tally'[u].timedOut >= AfterMissedReplies
  <2>1. missed' = missed /\ online' = online
    BY <1>4 DEF availabilityVars
  <2>2. CASE Human(r) = u
    <3>1. Missing(u)' = Missing(u) \cup {r} /\ r \notin Missing(u)
      BY <1>4, <2>2 DEF Goto, Missing, Human, TypeInv, TypeOK
    <3>2. /\ IsFiniteSet(Missing(u)')
          /\ Cardinality(Missing(u)') = Cardinality(Missing(u)) + 1
      BY <1>1, <3>1, FS_AddElement
    <3>3. tally'[u] = Counted(tally[u], "timed_out")
      BY <1>4, <2>2 DEF Observe, Record, TypeInv, TypeOK, StatsTypeOK
    <3>4. tally'[u].timedOut = tally[u].timedOut + 1
      BY <1>2, <3>3, CountedAddsOne DEF Outcomes
    <3> QED
      BY <1>1, <1>2, <2>1, <3>2, <3>4
  <2>3. CASE Human(r) # u
    <3>1. Missing(u)' = Missing(u) /\ tally'[u] = tally[u]
      BY <1>4, <2>3
      DEF Goto, Missing, Human, Observe, Record, TypeInv, TypeOK, StatsTypeOK
    <3> QED
      BY <1>1, <2>1, <3>1
  <2> QED
    BY <2>2, <2>3
<1>5. ASSUME \A r \in Requests : pc'[r] = "miss" <=> pc[r] = "miss",
             \/ UNCHANGED availabilityVars
             \/ \E v \in Users : RecordReply(v) \/ SetOnline(v)
      PROVE  /\ IsFiniteSet(Missing(u)')
             /\ missed'[u] + Cardinality(Missing(u)') <= tally'[u].timedOut
             /\ ~online'[u] => tally'[u].timedOut >= AfterMissedReplies
  <2>1. Missing(u)' = Missing(u)
    BY <1>5 DEF Missing, Human
  <2>2. tally'[u].timedOut = tally[u].timedOut
    <3>1. CASE UNCHANGED <<tally, outcome>>
      BY <3>1
    <3>2. ASSUME NEW r \in Requests, NEW o \in Outcomes, Observe(r, o), o # "timed_out"
          PROVE  tally'[u].timedOut = tally[u].timedOut
      <4>1. tally'[u] \in {tally[u], Counted(tally[u], o)}
        BY <3>2 DEF Observe, Record, TypeInv, TypeOK, StatsTypeOK
      <4> QED
        BY <1>2, <3>2, <4>1, CountedAddsOne
    <3> QED
      BY <1>5, <3>1, <3>2, ObservesOnce
  <2>3. missed'[u] \in {missed[u], 0} /\ (~online'[u] => ~online[u])
    BY <1>5 DEF availabilityVars, RecordReply, SetOnline, TypeInv, TypeOK, AvailabilityTypeOK
  <2> QED
    BY <1>1, <1>2, <2>1, <2>2, <2>3
<1> QED
  BY <1>3, <1>4, <1>5, MissSteps

-----------------------------------------------------------------------------
(* Where a reply is                                                        *)

\* A reply is in one place at a time: with its handler, then in one channel,
\* then the answer to one request; and always under the ID it carries.
Held ==
  /\ \A p \in Updates :
       sending[p] # None => IdOf[ureq[p]] = IdOf[sending[p]]
  /\ \A r \in Requests : inbox[r] # None =>
       /\ ustate[inbox[r]] = "accepted"
       /\ IdOf[ureq[inbox[r]]] = IdOf[r]
       /\ \A q \in Requests : /\ answer[q] # inbox[r]
                              /\ inbox[q] = inbox[r] => q = r
  /\ \A r \in Requests : answer[r] # None => ustate[answer[r]] = "accepted"
  /\ AnswerIsOwn

LEMMA HeldInit == Init => Held
  BY PartiesAssumption DEF Init, BrokerInit, Held, AnswerIsOwn

LEMMA HeldStep ==
  ASSUME TypeInv, BrokerInv, Held, [Next]_vars
  PROVE  Held'
<1> USE PartiesAssumption, BrokerAssumption
    DEF TypeInv, TypeOK, BrokerTypeOK, Addressed, brokerVars, updateVars, requestVars, Handle,
        BrokerInv, SendNeverBlocks, Held, AnswerIsOwn
<1>1. ASSUME NEW r \in Requests, AwaitReply(r) PROVE Held'
  BY <1>1 DEF AwaitReply, ReceiveReply
<1>2. ASSUME NEW p \in Updates, NEW r \in Requests, ReplyArrives(p, r) PROVE Held'
  BY <1>2 DEF ReplyArrives
<1>3. ASSUME NEW p \in Updates, Submit(p) PROVE Held'
  BY <1>3 DEF Submit, AnsweredID, ResolveTake
<1>4. ASSUME NEW p \in Updates, SendReply(p) PROVE Held'
  BY <1>4 DEF SendReply, ResolveSend
<1>5. ASSUME NEW p \in Updates, NEW u \in Users, OnlineCommand(p, u) PROVE Held'
  BY <1>5 DEF OnlineCommand
<1>6. CASE UNCHANGED <<inbox, sending, answer, updateVars>>
  BY <1>6
<1>7. \/ UNCHANGED <<inbox, sending, answer, updateVars>>
      \/ \E r \in Requests : AwaitReply(r)
      \/ \E p \in Updates : \/ Submit(p) \/ SendReply(p)
                            \/ \E r \in Requests : ReplyArrives(p, r)
                            \/ \E u \in Users : OnlineCommand(p, u)
  BY DEF Next, Execute, HandleReply, Rest, vars, Accept, Admit, Register, RegisterChannel,
     DeliverPart, DeliverDone, DeliverFailed, EmitReasoning, CheckCause, CheckContext, Miss,
     Recheck, Fallback, ReplyReceived, Respond, EmitAnswer, ForgetDelivery, Unregister,
     RemoveEntry, Notify, Deadline, CallerEnds
<1> QED
  BY <1>1, <1>2, <1>3, <1>4, <1>5, <1>6, <1>7

-----------------------------------------------------------------------------
(* The inductive invariant and what follows from it                        *)

IInv == /\ TypeInv /\ BrokerInv /\ Chronicle /\ Claims
        /\ Released /\ OpenWhileWaiting
        /\ Verdict /\ Tallied /\ Earned /\ Held

THEOREM Inductive == Spec => []IInv
<1>1. Init => IInv
  BY TypeInit, BrokerInitInv, HistoryInit, ClaimsInit, VerdictInit, TalliedInit, EarnedInit,
     HeldInit DEF IInv
<1>2. IInv /\ [Next]_vars => IInv'
  BY TypeStep, BrokerStep, ChronicleStep, ClaimsStep, ReleasedStep, OpenStep,
     VerdictStep, TalliedStep, EarnedStep, HeldStep DEF IInv
<1> QED
  BY <1>1, <1>2, PTL DEF Spec

\* Every variable keeps its type.
THEOREM TypeCorrect == Spec => []TypeOK
<1>1. IInv => TypeOK
  BY DEF IInv, TypeInv
<1> QED
  BY <1>1, Inductive, PTL

\* The send of pendingBroker.resolve outside its lock never blocks, for any
\* number of requests and handlers and whatever IDs the requests carry.
THEOREM ResolveNeverBlocks == Spec => []SendNeverBlocks
<1>1. IInv => SendNeverBlocks
  BY DEF IInv, BrokerInv
<1> QED
  BY <1>1, Inductive, PTL

\* A request that has returned leaves neither a broker entry nor a correlation.
THEOREM ReturnReleases == Spec => []NothingRetained
<1>1. IInv => NothingRetained
  BY DEF IInv, Released, NothingRetained
<1> QED
  BY <1>1, Inductive, PTL

\* Only a request that ran into its own deadline, unanswered, is recorded as
\* timed out, and so counts against its human.
THEOREM OnlyDeadlinesAreCounted == Spec => []OnlyDeadlinesCount
<1>1. IInv => OnlyDeadlinesCount
  BY DEF IInv, Chronicle, OnlyDeadlinesCount
<1> QED
  BY <1>1, Inductive, PTL

\* While a request waits, the human's first answer can get through to it.
THEOREM WaitingIsOpen == Spec => []OpenWhileWaiting
<1>1. IInv => OpenWhileWaiting
  BY DEF IInv
<1> QED
  BY <1>1, Inductive, PTL

\* A reply that SubmitReply accepted reaches the caller unless the context of
\* the request ended or its delivery failed.
THEOREM AcceptedReplyReachesCaller == Spec => []AcceptedReplyIsUsed
<1>1. IInv => AcceptedReplyIsUsed
  <2> SUFFICES ASSUME IInv, NEW p \in Updates, ustate[p] = "accepted",
                      UniqueID(ureq[p]), pc[ureq[p]] = "done", answer[ureq[p]] # p
               PROVE  reqCtx[ureq[p]] # "live" \/ err[ureq[p]] = "deliver"
    BY DEF AcceptedReplyIsUsed
  <2> DEFINE r == ureq[p]
  <2>1. r \in Requests
    BY DEF IInv, TypeInv, Addressed
  <2>2. inbox[r] = p /\ p # None
    BY PartiesAssumption DEF IInv, Claims
  <2>3. answer[r] = None /\ ~Unheld(r)
    BY <2>1, <2>2 DEF IInv, Claims, Unheld
  <2> QED
    BY <2>1, <2>3 DEF IInv, Claims, Undecided, Waiting, Ended
<1> QED
  BY <1>1, Inductive, PTL

\* All that the service does to the availability store are calls of its methods:
\* whatever holds of the store alone holds of it here.
THEOREM ServiceUsesStore == Spec => AvailabilitySpec
<1>1. Init => AvailabilityInit
  BY DEF Init
<1>2. IInv /\ [Next]_vars => [AvailabilityNext]_availabilityVars
  BY StoreStep DEF IInv
<1> QED
  BY <1>1, <1>2, Inductive, PTL DEF Spec, AvailabilitySpec

\* A human who may be given work is strictly below the miss threshold, however
\* requests and /online commands interleave.
THEOREM HumansBelowThreshold == Spec => []OnlineBelowThreshold
BY ServiceUsesStore, StoreBelowThreshold, PTL

\* Only a request that timed out takes its human offline, with a notice, and
\* only /online brings a human back.
THEOREM OnlyTimeoutsAndCommands == Spec => AvailabilityChanges
<1>1. IInv /\ [Next]_vars => [\A u \in Users : AvailabilityStep(u)]_vars
  BY ChangesStep DEF IInv
<1>2. Spec => [][\A u \in Users : AvailabilityStep(u)]_vars
  BY <1>1, Inductive, PTL DEF Spec
<1> QED
  BY <1>2 DEF AvailabilityChanges, AvailabilityStep

\* What the caller is told and what is recorded about the human agree, on every
\* path of execute.
THEOREM ResultAgrees == Spec => []ResultMatchesOutcome
<1>1. IInv => ResultMatchesOutcome
  BY DEF IInv, Verdict
<1> QED
  BY <1>1, Inductive, PTL

\* The counters of a human add up to the requests of theirs that recorded an
\* outcome, and every registered request that has returned recorded one.
THEOREM CountersAddUp == Spec => []OneObservationEach
<1>1. IInv => OneObservationEach
  <2> SUFFICES ASSUME IInv PROVE OneObservationEach
    OBVIOUS
  <2>1. ASSUME NEW u \in Users
        PROVE  Observed(u) = Cardinality({r \in Requests : Human(r) = u /\ outcome[r] # None})
    BY DEF IInv, Tallied, Recorded
  <2>2. ASSUME NEW r \in Requests, pc[r] = "done"
        PROVE  outcome[r] # None <=> reqCtx[r] # "none" /\ result[r] # "duplicate"
    BY <2>2 DEF IInv, Verdict, Returning
  <2> QED
    BY <2>1, <2>2 DEF OneObservationEach
<1> QED
  BY <1>1, Inductive, PTL

\* The answer a caller gets was given to a message with the ID of their request,
\* and answers no other request, whatever IDs the requests carry.
THEOREM AnswersAreOwn == Spec => []AnswerIsOwn
<1>1. IInv => AnswerIsOwn
  BY DEF IInv, Held
<1> QED
  BY <1>1, Inductive, PTL

\* The store counts no miss the statistics do not know of as a timeout, and who is
\* offline let as many requests time out as the threshold says.
THEOREM OfflineWasEarned == Spec => []OfflineIsEarned
<1>1. IInv => OfflineIsEarned
  <2> SUFFICES ASSUME IInv, NEW u \in Users
               PROVE  /\ missed[u] <= tally[u].timedOut
                      /\ ~online[u] => tally[u].timedOut >= AfterMissedReplies
    BY DEF OfflineIsEarned
  <2>1. Cardinality(Missing(u)) \in Nat
    BY FS_CardinalityType DEF IInv, Earned
  <2>2. missed[u] \in Nat /\ tally[u].timedOut \in Nat
    BY DEF IInv, TypeInv, TypeOK, AvailabilityTypeOK, StatsTypeOK, Counters
  <2> QED
    BY <2>1, <2>2 DEF IInv, Earned
<1> QED
  BY <1>1, Inductive, PTL

-----------------------------------------------------------------------------
(* execute cannot loop                                                     *)

\* A bound on the steps execute has left.  The errors of generateFallback are
\* classified at the labels of those before it, but nearer to the return.
Place == [accept |-> 15, admit |-> 14, register |-> 13, deliver |-> 12, reasoning |-> 11,
          await |-> 10, cause |-> 9, check |-> 8, miss |-> 7, recheck |-> 6, fallback |-> 5,
          reply |-> 9, respond |-> 8, emit |-> 7, forget |-> 2, leave |-> 1, done |-> 0]

Left(r) == IF pc[r] \in {"cause", "check"} /\ err[r] = "fallback"
           THEN Place[pc[r]] - 5
           ELSE Place[pc[r]]

LEMMA LeftIsNat == TypeOK => \A r \in Requests : Left(r) \in Nat
BY DEF TypeOK, Left, Place, Labels

\* The request stays where it is or comes nearer to its return.
Forward(r) == IF pc'[r] = pc[r] THEN Left(r)' = Left(r) ELSE Left(r)' < Left(r)

LEMMA ForwardStep == TypeInv /\ TypeInv' /\ [Next]_vars => \A r \in Requests : Forward(r)
<1> SUFFICES ASSUME TypeInv, TypeInv', [Next]_vars, NEW r \in Requests PROVE Forward(r)
  OBVIOUS
<1> USE DEF TypeInv, TypeOK, Left, Place, Forward, Goto
<1>1. CASE pc'[r] = pc[r] /\ err'[r] = err[r]
  BY <1>1
<1>2. ASSUME ~Execute(r) PROVE pc'[r] = pc[r] /\ err'[r] = err[r]
  BY <1>2 DEF Next, Execute, HandleReply, Rest, vars, requestVars, Accept, Admit, Register,
     DeliverPart, DeliverDone, DeliverFailed, EmitReasoning, AwaitReply, CheckCause,
     CheckContext, Miss, Recheck, Fallback, ReplyReceived, Respond, EmitAnswer,
     ForgetDelivery, Unregister, Notify, Deadline, CallerEnds, ReplyArrives, Submit,
     SendReply, OnlineCommand, Return, Fail
<1>3. ASSUME Accept(r) PROVE Forward(r)
  BY <1>3 DEF Accept, Return, Cleanup
<1>4. ASSUME Admit(r) PROVE Forward(r)
  BY <1>4 DEF Admit, Return, Cleanup
<1>5. ASSUME Register(r) PROVE Forward(r)
  BY <1>5 DEF Register, Return, Cleanup
<1>6. ASSUME DeliverPart(r) PROVE Forward(r)
  BY <1>6 DEF DeliverPart, requestVars
<1>7. ASSUME DeliverDone(r) PROVE Forward(r)
  BY <1>7 DEF DeliverDone
<1>8. ASSUME DeliverFailed(r) PROVE Forward(r)
  BY <1>8 DEF DeliverFailed, Errors
<1>9. ASSUME EmitReasoning(r) PROVE Forward(r)
  BY <1>9 DEF EmitReasoning, Return, Cleanup
<1>10. ASSUME AwaitReply(r) PROVE Forward(r)
  BY <1>10 DEF AwaitReply, Errors
<1>11. ASSUME CheckCause(r) PROVE Forward(r)
  BY <1>11 DEF CheckCause, Fail, Return, Cleanup
<1>12. ASSUME CheckContext(r) PROVE Forward(r)
  BY <1>12 DEF CheckContext, Fail, Return, Cleanup
<1>13. ASSUME Miss(r) PROVE Forward(r)
  BY <1>13 DEF Miss
<1>14. ASSUME Recheck(r) PROVE Forward(r)
  BY <1>14 DEF Recheck, Return, Cleanup
<1>15. ASSUME Fallback(r) PROVE Forward(r)
  BY <1>15 DEF Fallback, Return, Cleanup
<1>16. ASSUME ReplyReceived(r) PROVE Forward(r)
  BY <1>16 DEF ReplyReceived
<1>17. ASSUME Respond(r) PROVE Forward(r)
  BY <1>17 DEF Respond, Return, Cleanup
<1>18. ASSUME EmitAnswer(r) PROVE Forward(r)
  BY <1>18 DEF EmitAnswer, Return, Cleanup
<1>19. ASSUME ForgetDelivery(r) PROVE Forward(r)
  BY <1>19 DEF ForgetDelivery
<1>20. ASSUME Unregister(r) PROVE Forward(r)
  BY <1>20 DEF Unregister
<1> QED
  BY <1>1, <1>2, <1>3, <1>4, <1>5, <1>6, <1>7, <1>8, <1>9, <1>10, <1>11, <1>12, <1>13,
     <1>14, <1>15, <1>16, <1>17, <1>18, <1>19, <1>20 DEF Execute

\* A request changes its label boundedly often: no step of anybody leads execute
\* back.  With fair scheduling, only a wait that never ends could keep it, and the
\* deadline ends every wait.
THEOREM ExecuteMovesOn ==
  Spec => /\ [](\A r \in Requests : Left(r) \in Nat)
          /\ [][\A r \in Requests : Forward(r)]_vars
<1>1. IInv => TypeInv
  BY DEF IInv
<1>2. TypeInv => \A r \in Requests : Left(r) \in Nat
  BY LeftIsNat DEF TypeInv
<1>3. TypeInv /\ TypeInv' /\ [Next]_vars => [\A r \in Requests : Forward(r)]_vars
  BY ForwardStep
<1> QED
  BY <1>1, <1>2, <1>3, Inductive, PTL DEF Spec

-----------------------------------------------------------------------------
(* The service implements the contract of HumanAnswer                      *)

\* p is the reply that claims r: ClaimOf without the choice of a handler.
Claimed(r, p) ==
  \/ answer[r] = p
  \/ /\ answer[r] = None /\ pc[r] \in Waiting
     /\ inbox[r] = p \/ (inbox[r] = None /\ sending[p] = r)

ClaimsAre ==
  \A r \in Requests : /\ ClaimOf(r) \in Updates \cup {None}
                      /\ \A p \in Updates : ClaimOf(r) = p <=> Claimed(r, p)

\* At most one handler holds the channel of a request, so the choice is none.
LEMMA ClaimIs == TypeInv /\ BrokerInv => ClaimsAre
<1> SUFFICES ASSUME TypeInv, BrokerInv, NEW r \in Requests
             PROVE  /\ ClaimOf(r) \in Updates \cup {None}
                    /\ \A p \in Updates : ClaimOf(r) = p <=> Claimed(r, p)
  BY DEF ClaimsAre
<1> USE PartiesAssumption
    DEF TypeInv, TypeOK, BrokerTypeOK, BrokerInv, SendNeverBlocks, ClaimOf, Claimed
<1>1. CASE answer[r] = None /\ pc[r] \in Waiting /\ inbox[r] = None
           /\ \E p \in Updates : sending[p] = r
  <2>1. PICK p \in Updates : sending[p] = r
    BY <1>1
  <2>2. \A q \in Updates : sending[q] = r => q = p
    BY <2>1
  <2>3. (CHOOSE q \in Updates : sending[q] = r) = p
    BY <2>1, <2>2
  <2>4. ClaimOf(r) = p
    BY <1>1, <2>3
  <2> QED
    BY <1>1, <2>1, <2>2, <2>4
<1>2. CASE ~(answer[r] = None /\ pc[r] \in Waiting /\ inbox[r] = None
             /\ \E p \in Updates : sending[p] = r)
  BY <1>2
<1> QED
  BY <1>1, <1>2

\* The same replies claim r, so the same one does.
LEMMA SameClaim ==
  ASSUME ClaimsAre, ClaimsAre', NEW r \in Requests,
         \A p \in Updates : Claimed(r, p)' <=> Claimed(r, p)
  PROVE  ClaimOf(r)' = ClaimOf(r)
<1>1. ClaimOf(r) \in Updates \cup {None} /\ ClaimOf(r)' \in Updates \cup {None}
  BY DEF ClaimsAre
<1>2. \A p \in Updates : ClaimOf(r)' = p <=> ClaimOf(r) = p
  BY DEF ClaimsAre
<1> QED
  BY <1>1, <1>2

\* The step leaves alone what the contract sees of r.
SamePlace(r) ==
  /\ pc'[r] = pc[r] /\ answer'[r] = answer[r] /\ inbox'[r] = inbox[r]
  /\ \A p \in Updates : sending'[p] = r <=> sending[p] = r

LEMMA SamePlaceSameView ==
  ASSUME ClaimsAre, ClaimsAre', NEW r \in Requests, SamePlace(r)
  PROVE  Phase(r)' = Phase(r) /\ ClaimOf(r)' = ClaimOf(r)
<1>1. \A p \in Updates : Claimed(r, p)' <=> Claimed(r, p)
  BY DEF SamePlace, Claimed
<1> QED
  BY <1>1, SameClaim DEF SamePlace, Phase

\* The ways the contract lets a request go on.
View(r) ==
  \/ Phase(r)' = Phase(r) /\ ClaimOf(r)' = ClaimOf(r)
  \/ Phase(r) = "new" /\ Phase(r)' = "open" /\ ClaimOf(r)' = ClaimOf(r)
  \/ /\ Phase(r) = "open" /\ ClaimOf(r) # None
     /\ Phase(r)' = "answered" /\ ClaimOf(r)' = ClaimOf(r)
  \/ Phase(r) \in {"new", "open"} /\ Phase(r)' = "closed" /\ ClaimOf(r)' = None
  \/ /\ Phase(r) = "open" /\ Phase(r)' = "open" /\ ClaimOf(r) = None
     /\ \E p \in Updates : ClaimOf(r)' = p /\ \A q \in Requests : ClaimOf(q) # p

LEMMA ViewIsStep ==
  ASSUME ClaimsAre, ClaimsAre', NEW r \in Requests, View(r),
         \A q \in Requests \ {r} : SamePlace(q)
  PROVE  [Contract!Next]_Contract!contract
<1> DEFINE ph == [q \in Requests |-> Phase(q)]
           cl == [q \in Requests |-> ClaimOf(q)]
<1>1. \A q \in Requests \ {r} : Phase(q)' = Phase(q) /\ ClaimOf(q)' = ClaimOf(q)
  BY SamePlaceSameView
<1>2. /\ ph[r] = Phase(r) /\ ph'[r] = Phase(r)'
      /\ cl[r] = ClaimOf(r) /\ cl'[r] = ClaimOf(r)'
  OBVIOUS
<1>3. ph' = [ph EXCEPT ![r] = Phase(r)'] /\ cl' = [cl EXCEPT ![r] = ClaimOf(r)']
  BY <1>1
<1>4. CASE Phase(r)' = Phase(r) /\ ClaimOf(r)' = ClaimOf(r)
  BY <1>3, <1>4 DEF Contract!contract
<1>5. CASE Phase(r) = "new" /\ Phase(r)' = "open" /\ ClaimOf(r)' = ClaimOf(r)
  <2>1. Contract!Open(r)
    BY <1>3, <1>5 DEF Contract!Open
  <2> QED
    BY <2>1 DEF Contract!Next
<1>6. CASE /\ Phase(r) = "open" /\ ClaimOf(r) # None
           /\ Phase(r)' = "answered" /\ ClaimOf(r)' = ClaimOf(r)
  <2>1. Contract!Answer(r)
    BY <1>3, <1>6 DEF Contract!Answer
  <2> QED
    BY <2>1 DEF Contract!Next
<1>7. CASE Phase(r) \in {"new", "open"} /\ Phase(r)' = "closed" /\ ClaimOf(r)' = None
  <2>1. Contract!Close(r)
    BY <1>3, <1>7 DEF Contract!Close
  <2> QED
    BY <2>1 DEF Contract!Next
<1>8. ASSUME Phase(r) = "open", Phase(r)' = "open", ClaimOf(r) = None,
             NEW p \in Updates, ClaimOf(r)' = p, \A q \in Requests : ClaimOf(q) # p
      PROVE  Contract!Next
  <2>1. Contract!Claim(r, p)
    BY <1>3, <1>8 DEF Contract!Claim
  <2> QED
    BY <2>1 DEF Contract!Next
<1> QED
  BY <1>4, <1>5, <1>6, <1>7, <1>8 DEF View

LEMMA AllSameIsStutter ==
  ASSUME ClaimsAre, ClaimsAre', \A q \in Requests : SamePlace(q)
  PROVE  UNCHANGED Contract!contract
BY SamePlaceSameView DEF Contract!contract

\* The labels after the wait.
Late == Labels \ Undecided

LEMMA LateSameView ==
  ASSUME ClaimsAre, ClaimsAre', NEW r \in Requests,
         pc[r] \in Late, pc'[r] \in Late, answer'[r] = answer[r]
  PROVE  View(r)
<1>1. \A p \in Updates : Claimed(r, p)' <=> Claimed(r, p)
  BY DEF Late, Undecided, Claimed
<1> QED
  BY <1>1, SameClaim DEF View, Phase, Late, Undecided

\* A request that is not yet registered, or whose wait ends without an answer.
LEMMA ClosingView ==
  ASSUME TypeInv, Chronicle, NEW r \in Requests,
         pc[r] \in Undecided, pc'[r] \in Late, answer' = answer
  PROVE  View(r)
BY DEF TypeInv, TypeOK, Chronicle, View, Phase, ClaimOf, Late, Undecided

\* A step inside the wait.
LEMMA WaitingSameView ==
  ASSUME ClaimsAre, ClaimsAre', NEW r \in Requests,
         pc[r] \in Waiting, pc'[r] \in Waiting, UNCHANGED <<answer, inbox, sending>>
  PROVE  View(r)
<1>1. \A p \in Updates : Claimed(r, p)' <=> Claimed(r, p)
  BY DEF Claimed
<1>2. pc[r] \notin {"accept", "admit", "register"} /\ pc'[r] \notin {"accept", "admit", "register"}
  BY DEF Waiting
<1> QED
  BY <1>1, <1>2, SameClaim DEF View, Phase

LEMMA ContractStep ==
  ASSUME TypeInv, BrokerInv, Chronicle, Claims, Held, ClaimsAre, ClaimsAre', [Next]_vars
  PROVE  [Contract!Next]_Contract!contract
<1> DEFINE Step(r) == View(r) /\ \A q \in Requests \ {r} : SamePlace(q)
<1> USE DEF Goto
<1>1. ASSUME NEW r \in Requests,
             pc[r] \in {"accept", "admit"}, UNCHANGED <<answer, inbox, sending>>,
             \E l \in {"admit", "register"} \cup Late : Goto(r, l)
      PROVE  Step(r)
  <2>1. PICK l \in {"admit", "register"} \cup Late : Goto(r, l)
    BY <1>1
  <2>2. pc'[r] = l /\ \A q \in Requests \ {r} : SamePlace(q)
    BY <1>1, <2>1 DEF TypeInv, TypeOK, SamePlace
  <2>3. answer[r] = None
    BY <1>1 DEF Chronicle, Undecided
  <2>4. CASE l \in Late
    BY <1>1, <2>2, <2>4, ClosingView DEF Undecided
  <2>5. CASE l \in {"admit", "register"}
    BY <1>1, <2>2, <2>3, <2>5 DEF View, Phase, ClaimOf, Waiting
  <2> QED
    BY <2>2, <2>4, <2>5
<1>2. ASSUME NEW r \in Requests, Register(r)
      PROVE  Step(r)
  <2>1. \A q \in Requests \ {r} : SamePlace(q)
    BY <1>2 DEF Register, Return, RegisterChannel, brokerVars, TypeInv, TypeOK, SamePlace
  <2>2. CASE Duplicate(r)
    <3>1. pc'[r] = "done" \/ pc'[r] \in {"leave", "forget"}
      BY <1>2, <2>2 DEF Register, Return, RegisterChannel, Cleanup, TypeInv, TypeOK
    <3> QED
      BY <1>2, <2>1, <3>1, ClosingView DEF Register, Late, Labels, Undecided, Waiting
  <2>3. CASE ~Duplicate(r)
    <3>1. pc[r] = "register" /\ pc'[r] = "deliver" /\ answer' = answer /\ answer[r] = None
          /\ UNCHANGED <<inbox, sending>> /\ Unheld(r)
      BY <1>2, <2>3 DEF Register, RegisterChannel, TypeInv, TypeOK, Chronicle, Undecided,
         BrokerInv, Started
    <3>2. \A p \in Updates : Claimed(r, p)' <=> Claimed(r, p)
      BY <3>1, PartiesAssumption DEF Claimed, Unheld, Waiting
    <3> QED
      BY <2>1, <3>1, <3>2, SameClaim DEF View, Phase, Waiting
  <2> QED
    BY <2>2, <2>3
<1>3. ASSUME NEW r \in Requests,
             pc[r] \in Waiting, UNCHANGED <<answer, inbox, sending>>,
             \E l \in Waiting \cup Late : Goto(r, l)
      PROVE  Step(r)
  <2>1. PICK l \in Waiting \cup Late : Goto(r, l)
    BY <1>3
  <2>2. pc'[r] = l /\ \A q \in Requests \ {r} : SamePlace(q)
    BY <1>3, <2>1 DEF TypeInv, TypeOK, SamePlace
  <2> QED
    BY <1>3, <2>2, ClosingView, WaitingSameView DEF Undecided
<1>4. ASSUME NEW r \in Requests, AwaitReply(r)
      PROVE  Step(r)
  <2>1. \A q \in Requests \ {r} : SamePlace(q)
    BY <1>4 DEF AwaitReply, ReceiveReply, brokerVars, TypeInv, TypeOK, BrokerTypeOK, SamePlace
  <2>2. CASE inbox[r] # None
    <3>1. /\ pc[r] = "await" /\ pc'[r] = "reply" /\ answer[r] = None
          /\ answer'[r] = inbox[r]
      BY <1>4, <2>2 DEF AwaitReply, TypeInv, TypeOK, Chronicle, Undecided, Waiting
    <3>2. ClaimOf(r) = inbox[r] /\ ClaimOf(r)' = inbox[r]
      BY <2>2, <3>1 DEF ClaimOf, Waiting
    <3> QED
      BY <2>1, <2>2, <3>1, <3>2 DEF View, Phase, Waiting
  <2>3. CASE inbox[r] = None
    <3>1. pc[r] \in Undecided /\ pc'[r] = "cause" /\ answer' = answer
      BY <1>4, <2>3 DEF AwaitReply, ReceiveReply, TypeInv, TypeOK, Undecided, Waiting
    <3> QED
      BY <2>1, <3>1, ClosingView DEF Late, Labels, Undecided, Waiting
  <2> QED
    BY <2>2, <2>3
<1>5. ASSUME NEW r \in Requests, pc[r] \in Late, UNCHANGED <<answer, inbox, sending>>,
             \E l \in Late : Goto(r, l)
      PROVE  Step(r)
  <2>1. PICK l \in Late : Goto(r, l)
    BY <1>5
  <2>2. pc'[r] = l /\ \A q \in Requests \ {r} : SamePlace(q)
    BY <1>5, <2>1 DEF TypeInv, TypeOK, SamePlace
  <2> QED
    BY <1>5, <2>2, LateSameView
<1>6. ASSUME NEW p \in Updates, Submit(p), entries[AnsweredID(p)] # None
      PROVE  \E r \in Requests : Step(r)
  <2>0. AnsweredID(p) \in Ids
    BY <1>6, BrokerAssumption DEF Submit, AnsweredID, TypeInv, TypeOK, Addressed
  <2>1. PICK r \in Requests : r = entries[AnsweredID(p)]
    BY <1>6, <2>0 DEF TypeInv, TypeOK, BrokerTypeOK
  <2>2. /\ ustate[p] = "resolving" /\ sending' = [sending EXCEPT ![p] = r]
        /\ UNCHANGED <<pc, answer, inbox>>
    BY <1>6, <2>1 DEF Submit, ResolveTake, requestVars
  <2>3. sending[p] = None /\ sending'[p] = r
    BY <2>2 DEF TypeInv, TypeOK, BrokerTypeOK, Addressed
  <2>4. \A q \in Requests \ {r} : SamePlace(q)
    BY <2>1, <2>2, <2>3, PartiesAssumption DEF SamePlace, TypeInv, TypeOK, BrokerTypeOK
  <2>5. CASE pc[r] \in Waiting
    <3>1. answer[r] = None /\ inbox[r] = None /\ \A q \in Updates : sending[q] # r
      BY <1>6, <2>0, <2>1, <2>5 DEF Chronicle, Undecided, BrokerInv, SendNeverBlocks
    <3>2. ClaimOf(r) = None
      BY <3>1 DEF ClaimOf
    <3>3. Claimed(r, p)'
      BY <2>2, <2>3, <2>5, <3>1 DEF Claimed
    <3>4. ClaimOf(r)' = p
      BY <2>1, <3>3 DEF ClaimsAre
    <3>5. ASSUME NEW q \in Requests PROVE ClaimOf(q) # p
      <4>1. ~Claimed(q, p)
        BY <2>2, <2>3, PartiesAssumption DEF Claimed, Held
      <4> QED
        BY <4>1 DEF ClaimsAre
    <3> QED
      BY <2>1, <2>2, <2>4, <2>5, <3>1, <3>2, <3>4, <3>5 DEF View, Phase, Waiting
  <2>6. CASE pc[r] \notin Waiting
    <3>1. \A x \in Updates : Claimed(r, x)' <=> Claimed(r, x)
      BY <2>2, <2>6 DEF Claimed
    <3> QED
      BY <2>1, <2>2, <2>4, <3>1, SameClaim DEF View, Phase
  <2> QED
    BY <2>5, <2>6
<1>7. ASSUME NEW p \in Updates, SendReply(p)
      PROVE  \E r \in Requests : Step(r)
  <2>1. PICK r \in Requests : r = sending[p] /\ inbox[r] = None
    BY <1>7 DEF SendReply, ResolveSend, TypeInv, TypeOK, BrokerTypeOK
  <2>2. /\ inbox' = [inbox EXCEPT ![r] = p] /\ sending' = [sending EXCEPT ![p] = None]
        /\ UNCHANGED <<pc, answer>>
    BY <1>7, <2>1 DEF SendReply, ResolveSend, requestVars
  <2>3. \A q \in Requests \ {r} : SamePlace(q)
    BY <2>1, <2>2, PartiesAssumption DEF SamePlace, TypeInv, TypeOK, BrokerTypeOK
  <2>4. inbox'[r] = p /\ sending[p] = r /\ \A q \in Updates : sending[q] = r => q = p
    BY <2>1, <2>2, PartiesAssumption
    DEF TypeInv, TypeOK, BrokerTypeOK, BrokerInv, SendNeverBlocks
  <2>5. \A x \in Updates : Claimed(r, x)' <=> Claimed(r, x)
    BY <2>1, <2>2, <2>4, PartiesAssumption DEF Claimed
  <2> QED
    BY <2>1, <2>2, <2>3, <2>5, SameClaim DEF View, Phase
<1>8. CASE UNCHANGED <<pc, answer, inbox, sending>>
  BY <1>8, AllSameIsStutter DEF SamePlace
<1> HIDE DEF Step
<1>9. \/ UNCHANGED <<pc, answer, inbox, sending>>
      \/ \E r \in Requests : Step(r)
  <2> USE DEF Return, Cleanup, Late, Labels, Undecided, Waiting, brokerVars
  <2>1. ASSUME NEW r \in Requests, Accept(r) \/ Admit(r)
        PROVE  Step(r)
    BY <1>1, <2>1 DEF Accept, Admit
  <2>2. ASSUME NEW r \in Requests, DeliverDone(r) \/ DeliverFailed(r) \/ EmitReasoning(r)
        PROVE  Step(r)
    BY <1>3, <2>2 DEF DeliverDone, DeliverFailed, EmitReasoning
  <2>3. ASSUME NEW r \in Requests,
               CheckCause(r) \/ CheckContext(r) \/ Miss(r) \/ Recheck(r) \/ Fallback(r)
        PROVE  Step(r)
    BY <1>5, <2>3 DEF CheckCause, CheckContext, Fail, Miss, Recheck, Fallback
  <2>4. ASSUME NEW r \in Requests,
               \/ ReplyReceived(r) \/ Respond(r) \/ EmitAnswer(r) \/ ForgetDelivery(r)
               \/ Unregister(r)
        PROVE  Step(r)
    BY <1>5, <2>4
    DEF ReplyReceived, Respond, EmitAnswer, ForgetDelivery, Unregister, RemoveEntry
  <2>5. ASSUME NEW p \in Updates, Submit(p) \/ SendReply(p)
        PROVE  UNCHANGED <<pc, answer, inbox, sending>> \/ \E r \in Requests : Step(r)
    <3>1. ASSUME Submit(p), entries[AnsweredID(p)] = None
          PROVE  UNCHANGED <<pc, answer, inbox, sending>>
      BY <3>1 DEF Submit, ResolveTake, requestVars
    <3> QED
      BY <1>6, <1>7, <2>5, <3>1
  <2>6. \/ UNCHANGED <<pc, answer, inbox, sending>>
        \/ \E r \in Requests :
             \/ Accept(r) \/ Admit(r) \/ Register(r)
             \/ DeliverDone(r) \/ DeliverFailed(r) \/ EmitReasoning(r) \/ AwaitReply(r)
             \/ CheckCause(r) \/ CheckContext(r) \/ Miss(r) \/ Recheck(r) \/ Fallback(r)
             \/ ReplyReceived(r) \/ Respond(r) \/ EmitAnswer(r) \/ ForgetDelivery(r)
             \/ Unregister(r)
        \/ \E p \in Updates : Submit(p) \/ SendReply(p)
    BY DEF Next, Execute, HandleReply, Rest, vars, requestVars, DeliverPart, Notify, Deadline,
       CallerEnds, ReplyArrives, OnlineCommand
  <2> QED
    BY <1>2, <1>4, <2>1, <2>2, <2>3, <2>4, <2>5, <2>6
<1> QED
  BY <1>8, <1>9, ViewIsStep DEF Step

LEMMA ContractInit == Init => Contract!Init
<1> SUFFICES ASSUME Init, NEW r \in Requests
             PROVE  Phase(r) = "new" /\ ClaimOf(r) = None
  BY DEF Contract!Init
<1> QED
  BY DEF Init, Phase, ClaimOf, Waiting

\* The goroutines, the map of the broker and its channels implement the contract:
\* each of their steps is a step of the contract, or none.
THEOREM ServiceKeepsContract == Spec => KeepsContract
<1>1. IInv => ClaimsAre
  BY ClaimIs DEF IInv
<1>2. IInv /\ ClaimsAre /\ ClaimsAre' /\ [Next]_vars => [Contract!Next]_Contract!contract
  BY ContractStep DEF IInv
<1> QED
  BY <1>1, <1>2, ContractInit, Inductive, PTL DEF Spec, KeepsContract, Contract!Spec

=============================================================================
