---------------------------- MODULE WorkerLease ----------------------------
(***************************************************************************)
(* The durable worker protocol: worker_protocol.py and worker_store.py over *)
(* the tables attention_worker_steps, _claims, _checkpoints and _results.   *)
(*                                                                          *)
(* Every public function of worker_store.py is one PostgreSQL transaction;  *)
(* each is one action here.  A call that raises rolls its transaction back  *)
(* and is a call that does nothing.                                         *)
(*                                                                          *)
(* Clock readings.  Every function reads the clock once before it takes its *)
(* first row lock and may then wait, so the reading a transaction works     *)
(* with is any time up to now, not now itself.                              *)
(*                                                                          *)
(* ...With... and ...Without... operators are the definitions they precede  *)
(* with a fault seeded; they show that the properties notice such a fault.  *)
(***************************************************************************)
EXTENDS Integers, FiniteSetsExt

CONSTANTS
    Assignments,        \* committed assignments of one scheduler key
    Steps,              \* worker steps that may be registered
    AssignmentOf,       \* WorkerStep.assignment_id
    EffectPolicy,       \* WorkerStep.effect_policy
    Workers,            \* worker ids
    NoWorker,           \* worker of a claim row that does not exist
    Units,              \* units an assignment's reservation holds in the pool
    Capacity,           \* admissible units of the pool (capacity - headroom)
    LeaseSeconds,       \* lease durations a caller may ask for
    ObservationMaxAge,  \* ResourceSafetyPolicy.observation_max_age_seconds
    MaxAttempts,        \* bound: lease attempts per step
    MaxRevisions,       \* bound: checkpoints per step
    MaxTime             \* bound: the clock

Policies == {"NO_EXTERNAL_EFFECT", "IDEMPOTENT_WITH_KEY", "AT_MOST_ONCE"}

ASSUME ConstantsAssumption ==
    /\ AssignmentOf \in [Steps -> Assignments]
    /\ EffectPolicy \in [Steps -> Policies]
    /\ Units \in [Assignments -> Nat]
    /\ Capacity \in Nat
    /\ LeaseSeconds \subseteq Nat \ {0}
    /\ ObservationMaxAge \in Nat \ {0}
    /\ MaxAttempts \in Nat
    /\ MaxRevisions \in Nat
    /\ MaxTime \in Nat

VARIABLES
    now,            \* the clock
    current,        \* assignment ids of the current committed epoch
    moved,          \* assignments whose task has a newer revision
    policyBound,    \* the current epoch binds the committed resource policy
    registered,     \* rows of attention_worker_steps
    attempts,       \* number of claims of each step: the latest attempt
    claims,         \* rows of attention_worker_claims by step and attempt
    checkpoints,    \* by step and revision, the attempt that wrote the row
    revision,       \* latest checkpoint revision of each step
    result          \* attempt that wrote the step's terminal result, or 0

vars == <<now, current, moved, policyBound, registered, attempts, claims,
          checkpoints, revision, result>>

Attempts == 1 .. MaxAttempts
Revisions == 1 .. MaxRevisions

Statuses == {"ACTIVE", "CHECKPOINTED", "COMPLETED", "ABANDONED", "RELEASED"}

NoClaim == [status |-> "NONE", worker |-> NoWorker, base |-> 0,
            claimedAt |-> 0, expires |-> 0]

(* base is WorkerClaim.checkpoint_revision, the checkpoint resumed from. *)
Claim == [status : Statuses \cup {"NONE"}, worker : Workers \cup {NoWorker},
          base : Nat, claimedAt : Nat, expires : Nat]

TypeOK ==
    /\ now \in Nat
    /\ current \subseteq Assignments
    /\ moved \subseteq Assignments
    /\ policyBound \in BOOLEAN
    /\ registered \subseteq Steps
    /\ attempts \in [Steps -> 0 .. MaxAttempts]
    /\ claims \in [Steps -> [Attempts -> Claim]]
    /\ checkpoints \in [Steps -> [Revisions -> 0 .. MaxAttempts]]
    /\ revision \in [Steps -> 0 .. MaxRevisions]
    /\ result \in [Steps -> 0 .. MaxAttempts]

Init ==
    /\ now = 0
    /\ current = {}
    /\ moved = {}
    /\ policyBound = FALSE
    /\ registered = {}
    /\ attempts = [s \in Steps |-> 0]
    /\ claims = [s \in Steps |-> [n \in Attempts |-> NoClaim]]
    /\ checkpoints = [s \in Steps |-> [r \in Revisions |-> 0]]
    /\ revision = [s \in Steps |-> 0]
    /\ result = [s \in Steps |-> 0]

-----------------------------------------------------------------------------
(* Reading the claim table. *)

Active(cl, s, n) == cl[s][n].status = "ACTIVE"

HeldAssignments(cl) ==
    {a \in Assignments : \E s \in Steps, n \in Attempts :
                            Active(cl, s, n) /\ AssignmentOf[s] = a}

AbandonWithOffByOne(at) ==
    [s \in Steps |-> [n \in Attempts |->
        IF Active(claims, s, n) /\ claims[s][n].expires <= at + 1
        THEN [claims[s][n] EXCEPT !.status = "ABANDONED"]
        ELSE claims[s][n]]]

(* The UPDATE that turns every lease that ended by `at` into ABANDONED. *)
AbandonExpired(at) ==
    [s \in Steps |-> [n \in Attempts |->
        IF Active(claims, s, n) /\ claims[s][n].expires <= at
        THEN [claims[s][n] EXCEPT !.status = "ABANDONED"]
        ELSE claims[s][n]]]

(* build_resource_observation: the units of live claims count against the   *)
(* pool; what the host offers on top never exceeds its admissible capacity. *)
Committed(cl) == MapThenSumSet(LAMBDA a : Units[a], HeldAssignments(cl))

AbandonedRetryIsSafe(s) ==
    EffectPolicy[s] \in {"NO_EXTERNAL_EFFECT", "IDEMPOTENT_WITH_KEY"}

AdmissibleWithoutAssignmentTest(cl, s, at) ==
    /\ policyBound
    /\ AssignmentOf[s] \in current \ moved
    /\ result[s] = 0
    /\ attempts[s] > 0 =>
         LET latest == cl[s][attempts[s]]
         IN  /\ ~(latest.status = "ACTIVE" /\ latest.expires > at)
             /\ ~(latest.status = "ABANDONED" /\ ~AbandonedRetryIsSafe(s))

AdmissibleWithoutResultTest(cl, s, at) ==
    /\ policyBound
    /\ AssignmentOf[s] \in current \ moved
    /\ \A t \in Steps, n \in Attempts :
         Active(cl, t, n) /\ AssignmentOf[t] = AssignmentOf[s]
         => cl[t][n].expires <= at

AdmissibleWithoutPolicyTest(cl, s, at) ==
    AdmissibleWithoutResultTest(cl, s, at) /\ result[s] = 0

(* _structural_claim_denial, evaluated on the claims left after abandonment, *)
(* for a caller that expects the committed policy.                          *)
StructurallyAdmissible(cl, s, at) ==
    /\ policyBound
    /\ AssignmentOf[s] \in current
    /\ AssignmentOf[s] \notin moved
    /\ result[s] = 0
    /\ attempts[s] > 0 =>
         LET latest == cl[s][attempts[s]]
         IN  /\ ~(latest.status = "ACTIVE" /\ latest.expires > at)
             /\ ~(latest.status = "ABANDONED" /\ ~AbandonedRetryIsSafe(s))
    /\ \A t \in Steps, n \in Attempts :
         Active(cl, t, n) /\ AssignmentOf[t] = AssignmentOf[s]
         => cl[t][n].expires <= at

(* _resource_claim_denial on a host that is not under pressure. *)
ResourcesAdmit(cl, s) == Committed(cl) + Units[AssignmentOf[s]] <= Capacity

(* The host sample is still valid at the second reading. *)
FreshReading(captured, evaluated) ==
    evaluated >= captured /\ evaluated <= captured + ObservationMaxAge
-----------------------------------------------------------------------------
(* The transactions of worker_store.py. *)

RegisterWorkerStep(s) ==
    /\ AssignmentOf[s] \in current
    /\ AssignmentOf[s] \notin moved
    /\ registered' = registered \cup {s}
    /\ UNCHANGED <<now, current, moved, policyBound, attempts, claims,
                   checkpoints, revision, result>>

ClaimWithoutCheckpoint(s, w, at, lease) ==
    [status |-> "ACTIVE", worker |-> w, base |-> 0,
     claimedAt |-> at, expires |-> at + lease]

ClaimWithWrongSign(s, w, at, lease) ==
    [status |-> "ACTIVE", worker |-> w, base |-> revision[s],
     claimedAt |-> at, expires |-> at - lease]

(* The latest checkpoint is loaded in the transaction that inserts the claim. *)
NewClaim(s, w, at, lease) ==
    [status |-> "ACTIVE", worker |-> w, base |-> revision[s],
     claimedAt |-> at, expires |-> at + lease]

(* A granted guarded_claim_worker_step.  The second reading is taken while  *)
(* the scheduler row is locked, just before the claim is inserted: it is now. *)
GrantClaim(s, w, captured, lease) ==
    LET cl == AbandonExpired(captured)
    IN  /\ s \in registered
        /\ attempts[s] < MaxAttempts
        /\ StructurallyAdmissible(cl, s, captured)
        /\ ResourcesAdmit(cl, s)
        /\ FreshReading(captured, now)
        /\ attempts' = [attempts EXCEPT ![s] = @ + 1]
        /\ claims' = [cl EXCEPT ![s][attempts[s] + 1] =
                                    NewClaim(s, w, now, lease)]
        /\ UNCHANGED <<now, current, moved, policyBound, registered,
                       checkpoints, revision, result>>

(* A denied one: the abandonments still commit.  A claim can be denied in   *)
(* any state, for a reason the worker tables do not show: the probe failed, *)
(* the host is under pressure, the caller expects another policy, the       *)
(* second reading is stale or lies before the first.                        *)
DenyClaim(s, captured) ==
    /\ s \in registered
    /\ claims' = AbandonExpired(captured)
    /\ UNCHANGED <<now, current, moved, policyBound, registered, attempts,
                   checkpoints, revision, result>>

(* _set_claim_status *)
SetClaimStatus(s, n, status) == [claims EXCEPT ![s][n].status = status]

ExpireWithoutTest(s, n, at) ==
    /\ claims' = SetClaimStatus(s, n, "ABANDONED")
    /\ UNCHANGED <<now, current, moved, policyBound, registered, attempts,
                   checkpoints, revision, result>>

(* A lease that ended by the caller's reading is abandoned, and only that. *)
ExpireClaim(s, n, at) ==
    /\ at >= claims[s][n].expires
    /\ claims' = SetClaimStatus(s, n, "ABANDONED")
    /\ UNCHANGED <<now, current, moved, policyBound, registered, attempts,
                   checkpoints, revision, result>>

(* _lock_claim, _require_worker and the status test of the claim functions. *)
OwnedActiveClaim(s, n, w) ==
    /\ n <= attempts[s]
    /\ claims[s][n].worker = w
    /\ Active(claims, s, n)

HeartbeatWorkerClaim(s, n, w, at, lease) ==
    /\ OwnedActiveClaim(s, n, w)
    /\ at >= claims[s][n].claimedAt
    /\ \/ ExpireClaim(s, n, at)
       \/ /\ at < claims[s][n].expires
          /\ claims' = [claims EXCEPT ![s][n].expires = at + lease]
          /\ UNCHANGED <<now, current, moved, policyBound, registered,
                         attempts, checkpoints, revision, result>>

CheckpointWithoutClosingClaim(s, n, w, at) ==
    /\ OwnedActiveClaim(s, n, w)
    /\ at < claims[s][n].expires
    /\ claims[s][n].base + 1 \in Revisions
    /\ checkpoints' = [checkpoints EXCEPT ![s][claims[s][n].base + 1] = n]
    /\ revision' = [revision EXCEPT ![s] = claims[s][n].base + 1]
    /\ UNCHANGED <<now, current, moved, policyBound, registered, attempts,
                   claims, result>>

CheckpointWorkerClaim(s, n, w, at) ==
    /\ OwnedActiveClaim(s, n, w)
    /\ \/ ExpireClaim(s, n, at)
       \/ LET rev == claims[s][n].base + 1
          IN  /\ at < claims[s][n].expires
              /\ rev \in Revisions
              \* INSERT ... ON CONFLICT DO NOTHING, then compare and raise.
              /\ checkpoints[s][rev] = 0
              /\ checkpoints' = [checkpoints EXCEPT ![s][rev] = n]
              /\ revision' = [revision EXCEPT ![s] = rev]
              /\ claims' = SetClaimStatus(s, n, "CHECKPOINTED")
              /\ UNCHANGED <<now, current, moved, policyBound, registered,
                             attempts, result>>

CompleteWorkerClaim(s, n, w, at) ==
    /\ OwnedActiveClaim(s, n, w)
    /\ result[s] = 0
    /\ \/ ExpireClaim(s, n, at)
       \/ /\ at < claims[s][n].expires
          /\ result' = [result EXCEPT ![s] = n]
          /\ claims' = SetClaimStatus(s, n, "COMPLETED")
          /\ UNCHANGED <<now, current, moved, policyBound, registered,
                         attempts, checkpoints, revision>>

(* Release does not look at the lease. *)
ReleaseWorkerClaim(s, n, w) ==
    /\ OwnedActiveClaim(s, n, w)
    /\ claims' = SetClaimStatus(s, n, "RELEASED")
    /\ UNCHANGED <<now, current, moved, policyBound, registered, attempts,
                   checkpoints, revision, result>>

SaveWithoutHeldTest(newCurrent, newMoved, bound, at) ==
    /\ MapThenSumSet(LAMBDA a : Units[a], newCurrent) <= Capacity
    /\ current' = newCurrent
    /\ moved' = newMoved
    /\ policyBound' = bound
    /\ claims' = AbandonExpired(at)
    /\ UNCHANGED <<now, registered, attempts, checkpoints, revision, result>>

(* save_scheduler as the worker tables see it: the epoch, the task          *)
(* revisions and the policy binding it publishes, and                       *)
(* _replace_resource_reservations, which first abandons expired leases and  *)
(* then refuses to drop an assignment a live claim holds.                   *)
SaveScheduler(newCurrent, newMoved, bound, at) ==
    LET cl == AbandonExpired(at)
    IN  /\ HeldAssignments(cl) \subseteq newCurrent
        /\ MapThenSumSet(LAMBDA a : Units[a], newCurrent) <= Capacity
        /\ current' = newCurrent
        /\ moved' = newMoved
        /\ policyBound' = bound
        /\ claims' = cl
        /\ UNCHANGED <<now, registered, attempts, checkpoints, revision,
                       result>>

Tick ==
    /\ now < MaxTime
    /\ now' = now + 1
    /\ UNCHANGED <<current, moved, policyBound, registered, attempts, claims,
                   checkpoints, revision, result>>

Claiming(s) ==
    \E captured \in 0 .. now :
        \/ \E w \in Workers, lease \in LeaseSeconds :
              GrantClaim(s, w, captured, lease)
        \/ DenyClaim(s, captured)

Working(s, n, w) ==
    \/ \E at \in 0 .. now, lease \in LeaseSeconds :
          HeartbeatWorkerClaim(s, n, w, at, lease)
    \/ \E at \in 0 .. now : CheckpointWorkerClaim(s, n, w, at)
    \/ \E at \in 0 .. now : CompleteWorkerClaim(s, n, w, at)
    \/ ReleaseWorkerClaim(s, n, w)

(* Task revisions only grow, so an assignment never becomes fresh again. *)
Scheduling ==
    \E newCurrent \in SUBSET Assignments,
       newMoved \in {moved} \cup {moved \cup {a} : a \in Assignments},
       bound \in BOOLEAN, at \in 0 .. now :
        SaveScheduler(newCurrent, newMoved, bound, at)

Next ==
    \/ Tick
    \/ Scheduling
    \/ \E s \in Steps : RegisterWorkerStep(s) \/ Claiming(s)
    \/ \E s \in Steps, n \in Attempts, w \in Workers : Working(s, n, w)

Spec == Init /\ [][Next]_vars
-----------------------------------------------------------------------------
(* At most one claim of an assignment is ACTIVE, whatever step it is for:   *)
(* guarded_claim_worker_step grants only when no live lease is left, so the *)
(* two partial unique indexes never have to refuse an insert.               *)
OneActiveClaimPerAssignment ==
    \A s, t \in Steps : \A m, n \in Attempts :
        /\ AssignmentOf[s] = AssignmentOf[t]
        /\ Active(claims, s, m)
        /\ Active(claims, t, n)
        => s = t /\ m = n

(* A terminal result belongs to the step's last attempt and to a COMPLETED  *)
(* claim, and a COMPLETED claim wrote the result: no late or superseded     *)
(* worker can close a step, and no completed step is claimed again.         *)
ResultClosesStep ==
    \A s \in Steps :
        /\ result[s] # 0 => /\ result[s] = attempts[s]
                            /\ claims[s][result[s]].status = "COMPLETED"
        /\ \A n \in Attempts :
              claims[s][n].status = "COMPLETED" => result[s] = n

(* A live claim resumes from the newest checkpoint, so the revision it will *)
(* write is the next free one and its checkpoint never conflicts.           *)
ResumesLatestCheckpoint ==
    \A s \in Steps, n \in Attempts :
        Active(claims, s, n) => claims[s][n].base = revision[s]

(* Checkpoint revisions have no gap, and each was written by the            *)
(* CHECKPOINTED claim that resumed from the revision just before it, a      *)
(* later attempt than the one that wrote that revision.                     *)
CheckpointChain ==
    \A s \in Steps :
        /\ \A r \in 1 .. revision[s] :
              LET n == checkpoints[s][r]
              IN  /\ n \in 1 .. attempts[s]
                  /\ claims[s][n].status = "CHECKPOINTED"
                  /\ claims[s][n].base = r - 1
                  /\ r > 1 => checkpoints[s][r - 1] < n
        /\ \A r \in Revisions : r > revision[s] => checkpoints[s][r] = 0

(* An abandoned AT_MOST_ONCE attempt stays the step's last attempt: the     *)
(* ambiguous effect fails closed and is never retried.                      *)
AmbiguousEffectNotRetried ==
    \A s \in Steps, n \in Attempts :
        /\ EffectPolicy[s] = "AT_MOST_ONCE"
        /\ claims[s][n].status = "ABANDONED"
        => n = attempts[s]

(* Capacity lent to a live worker does not disappear underneath it: every   *)
(* ACTIVE claim's assignment, and so its reservation, stays in the current  *)
(* epoch whatever save_scheduler publishes.                                 *)
LiveClaimsStayCurrent == HeldAssignments(claims) \subseteq current

(* A lease that was abandoned had ended before the step's next attempt      *)
(* began, although the abandoning and the granting transaction may work     *)
(* with old clock readings: a slow but live worker is never duplicated.     *)
LeasesDoNotOverlap ==
    \A s \in Steps : \A m, n \in Attempts :
        /\ m < n
        /\ n <= attempts[s]
        /\ claims[s][m].status = "ABANDONED"
        => claims[s][m].expires <= claims[s][n].claimedAt

(* A row exists exactly for the attempts counted so far; a live claim is    *)
(* its step's latest attempt; an abandoned lease has ended.  These three    *)
(* facts make the invariants above inductive.                               *)
ClaimTableShape ==
    /\ \A s \in Steps, n \in Attempts :
          claims[s][n].status = "NONE" <=> n > attempts[s]
    /\ \A s \in Steps, n \in Attempts : Active(claims, s, n) => n = attempts[s]
    /\ \A s \in Steps, n \in Attempts :
          claims[s][n].status = "ABANDONED" => claims[s][n].expires <= now

(* The inductive invariant: none of its safety parts is inductive alone. *)
IInv ==
    /\ TypeOK
    /\ ClaimTableShape
    /\ OneActiveClaimPerAssignment
    /\ ResultClosesStep
    /\ ResumesLatestCheckpoint
    /\ CheckpointChain
    /\ AmbiguousEffectNotRetried
    /\ LiveClaimsStayCurrent
    /\ LeasesDoNotOverlap

(* A lease is abandoned only when the clock has passed its end, whichever   *)
(* transaction abandons it and however old its clock reading is.            *)
AbandonsOnlyEndedLeases ==
    \A s \in Steps, n \in Attempts :
        /\ Active(claims, s, n)
        /\ claims'[s][n].status = "ABANDONED"
        => claims[s][n].expires <= now

NoEarlyAbandonment == [][AbandonsOnlyEndedLeases]_vars

(* What a worker was told stays true: a claim that is no longer ACTIVE      *)
(* never changes again, and neither does a checkpoint or a result row.      *)
KeepsClosedRows ==
    /\ \A s \in Steps, n \in Attempts :
          claims[s][n].status \notin {"NONE", "ACTIVE"}
          => claims'[s][n] = claims[s][n]
    /\ \A s \in Steps, r \in Revisions :
          checkpoints[s][r] # 0 => checkpoints'[s][r] = checkpoints[s][r]
    /\ \A s \in Steps : result[s] # 0 => result'[s] = result[s]

ClosedRowsAreImmutable == [][KeepsClosedRows]_vars
=============================================================================
