----------------------------- MODULE HumanAnswer -----------------------------
(***************************************************************************)
(* What the completion service promises a caller about the human's answer, *)
(* without goroutines, maps, channels or clocks: a request is put before   *)
(* the human at most once; while it is open at most one reply claims it;   *)
(* it ends with exactly the reply that claimed it, or with none; and a     *)
(* reply claims at most one request.                                       *)
(***************************************************************************)
EXTENDS Parties

VARIABLES phase,  \* "new", "open", "answered" or "closed", per request
          claim   \* the reply that claimed the request

contract == <<phase, claim>>

Init ==
  /\ phase = [r \in Requests |-> "new"]
  /\ claim = [r \in Requests |-> None]

Open(r) ==
  /\ phase[r] = "new"
  /\ phase' = [phase EXCEPT ![r] = "open"]
  /\ UNCHANGED claim

\* The first reply claims an open request.
Claim(r, p) ==
  /\ phase[r] = "open" /\ claim[r] = None
  /\ \A q \in Requests : claim[q] # p
  /\ claim' = [claim EXCEPT ![r] = p]
  /\ UNCHANGED phase

\* The caller gets the reply that claimed the request.
Answer(r) ==
  /\ phase[r] = "open" /\ claim[r] # None
  /\ phase' = [phase EXCEPT ![r] = "answered"]
  /\ UNCHANGED claim

\* The request ends without an answer; a claim is forgotten with it.
Close(r) ==
  /\ phase[r] \in {"new", "open"}
  /\ phase' = [phase EXCEPT ![r] = "closed"]
  /\ claim' = [claim EXCEPT ![r] = None]

Next == \E r \in Requests :
  Open(r) \/ Answer(r) \/ Close(r) \/ \E p \in Updates : Claim(r, p)

Spec == Init /\ [][Next]_contract

=============================================================================
