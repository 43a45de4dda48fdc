---------------------------- MODULE MCCompletion ----------------------------
(***************************************************************************)
(* Instances of Completion for TLC.                                        *)
(***************************************************************************)
EXTENDS Completion, TLC

CONSTANTS u1, r1, r2, r3, r4, p1, p2

\* Fresh random IDs: every request has its own.
OwnID == [r \in Requests |-> r]
\* Callers of the package that chose one ID for two of their requests.
PairID == [r \in Requests |-> IF r \in {r1, r2} THEN "id" ELSE r]
PairIds == {PairID[r] : r \in Requests}

\* All requests go to one human.
OneHuman == [r \in Requests |-> u1]
\* r3 names a model that no human serves.
OneUnroutable == [r \in Requests |-> IF r = r3 THEN None ELSE u1]

BothCauses == {"canceled", "reload"}

\* Updates are interchangeable, and so are requests with one ID in a run that treats
\* them alike.
UpdateSymmetry == Permutations(Updates)
PairSymmetry == Permutations(Updates) \cup Permutations({r1, r2})

=============================================================================
