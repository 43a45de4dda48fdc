------------------------- MODULE AvailabilityProofs -------------------------
(***************************************************************************)
(* Proofs about the availability store, for any set of humans and any      *)
(* threshold.  The step lemmas are used again in CompletionProofs, where   *)
(* many requests work on the store.                                        *)
(***************************************************************************)
EXTENDS Availability, TLAPS

LEMMA RecordMissedReplyType ==
  ASSUME AvailabilityTypeOK, NEW u \in Users, RecordMissedReply(u)
  PROVE  AvailabilityTypeOK'
<1>1. online' \in [Users -> BOOLEAN]
  <2>1. (~BecomesOffline(u)) \in BOOLEAN
    OBVIOUS
  <2> QED
    BY <2>1, Zenon DEF AvailabilityTypeOK, RecordMissedReply, availabilityVars
<1>2. missed' \in [Users -> Nat]
  BY SMT DEF AvailabilityTypeOK, RecordMissedReply, availabilityVars
<1> QED
  BY <1>1, <1>2 DEF AvailabilityTypeOK

LEMMA RecordMissedReplyBelow ==
  ASSUME AvailabilityTypeOK, OnlineBelowThreshold,
         NEW u \in Users, RecordMissedReply(u)
  PROVE  OnlineBelowThreshold'
<1> USE AvailabilityAssumption DEF AvailabilityTypeOK, OnlineBelowThreshold
<1>1. CASE ~(Enabled /\ online[u])
  BY <1>1 DEF RecordMissedReply, availabilityVars
<1>2. CASE Enabled /\ online[u]
  <2>1. missed' = [missed EXCEPT ![u] = @ + 1]
    BY <1>2 DEF RecordMissedReply
  <2>2. online' = [online EXCEPT ![u] = ~BecomesOffline(u)]
    BY <1>2 DEF RecordMissedReply
  <2>3. ASSUME NEW v \in Users
        PROVE  /\ missed'[v] <= AfterMissedReplies
               /\ online'[v] => missed'[v] < AfterMissedReplies
    <3>1. CASE v # u
      BY <2>1, <2>2, <3>1
    <3>2. CASE v = u
      <4>1. online'[v] = ~BecomesOffline(u)
        BY <2>2, <3>2, Zenon
      <4>2. missed'[v] = missed[u] + 1 /\ missed[u] < AfterMissedReplies
        BY <1>2, <2>1, <3>2
      <4>3. BecomesOffline(u) <=> missed[u] + 1 >= AfterMissedReplies
        BY <1>2 DEF BecomesOffline
      <4>4. CASE BecomesOffline(u)
        <5>1. ~online'[v]
          BY <4>1, <4>4, Zenon
        <5> QED
          BY <4>2, <5>1
      <4>5. CASE ~BecomesOffline(u)
        BY <4>2, <4>3, <4>5
      <4> QED
        BY <4>4, <4>5
    <3> QED
      BY <3>1, <3>2
  <2> QED
    BY <2>3
<1> QED
  BY <1>1, <1>2

LEMMA ResetBelow ==
  ASSUME AvailabilityTypeOK, OnlineBelowThreshold,
         NEW u \in Users, RecordReply(u) \/ SetOnline(u)
  PROVE  AvailabilityTypeOK' /\ OnlineBelowThreshold'
<1> USE AvailabilityAssumption DEF AvailabilityTypeOK, OnlineBelowThreshold
<1>1. CASE RecordReply(u)
  BY <1>1 DEF RecordReply
<1>2. CASE SetOnline(u)
  BY <1>2 DEF SetOnline
<1> QED
  BY <1>1, <1>2

\* A human who may be given work is strictly below the miss threshold, for
\* every threshold and however calls of the store's methods follow each other.
THEOREM StoreBelowThreshold ==
  AvailabilitySpec => [](AvailabilityTypeOK /\ OnlineBelowThreshold)
<1>1. AvailabilityInit => AvailabilityTypeOK /\ OnlineBelowThreshold
  BY AvailabilityAssumption
  DEF AvailabilityInit, AvailabilityTypeOK, OnlineBelowThreshold
<1>2. /\ AvailabilityTypeOK /\ OnlineBelowThreshold
      /\ [AvailabilityNext]_availabilityVars
      => (AvailabilityTypeOK /\ OnlineBelowThreshold)'
  <2> SUFFICES ASSUME AvailabilityTypeOK, OnlineBelowThreshold,
                      [AvailabilityNext]_availabilityVars
               PROVE  (AvailabilityTypeOK /\ OnlineBelowThreshold)'
    OBVIOUS
  <2>1. ASSUME NEW u \in Users, RecordMissedReply(u)
        PROVE  (AvailabilityTypeOK /\ OnlineBelowThreshold)'
    BY <2>1, RecordMissedReplyType, RecordMissedReplyBelow
  <2>2. ASSUME NEW u \in Users, RecordReply(u) \/ SetOnline(u)
        PROVE  (AvailabilityTypeOK /\ OnlineBelowThreshold)'
    BY <2>2, ResetBelow
  <2>3. CASE UNCHANGED availabilityVars
    BY <2>3 DEF availabilityVars, AvailabilityTypeOK, OnlineBelowThreshold
  <2> QED
    BY <2>1, <2>2, <2>3 DEF AvailabilityNext
<1> QED
  BY <1>1, <1>2, PTL DEF AvailabilitySpec

=============================================================================
