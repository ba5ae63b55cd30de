--------------------------- MODULE MCWorkerLease ---------------------------
(* An idempotent and an at-most-once step that compete for one assignment,   *)
(* or the idempotent one alone.                                              *)
EXTENDS WorkerLease, TLC

CONSTANTS a1, s1, s2

OneAssignment == {a1}
OneStep == {s1}
TwoSteps == {s1, s2}
SharedAssignment == [s \in Steps |-> a1]
MixedPolicies ==
    [s \in Steps |-> IF s = s1 THEN "IDEMPOTENT_WITH_KEY" ELSE "AT_MOST_ONCE"]
OneUnit == (a1 :> 1)
WorkersAlike == Permutations(Workers)
=============================================================================
