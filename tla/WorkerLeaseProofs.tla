------------------------- MODULE WorkerLeaseProofs -------------------------
(* Proofs about the durable worker protocol, for every set of steps,        *)
(* assignments and workers and every bound.                                 *)
EXTENDS WorkerLease, TLAPS

(* Changing the status or the end of a lease yields a claim row again. *)
LEMMA ClaimUpdateType ==
  ASSUME NEW c \in Claim
  PROVE  /\ \A st \in Statuses : [c EXCEPT !.status = st] \in Claim
         /\ \A t \in Nat : [c EXCEPT !.expires = t] \in Claim
  BY DEF Claim

(* _set_claim_status yields a claim table again. *)
LEMMA SetClaimStatusType ==
  ASSUME TypeOK, NEW s \in Steps, NEW n \in Attempts, NEW st \in Statuses
  PROVE  SetClaimStatus(s, n, st) \in [Steps -> [Attempts -> Claim]]
<1>1. [claims[s][n] EXCEPT !.status = st] \in Claim
  BY ClaimUpdateType DEF TypeOK
<1>2. SetClaimStatus(s, n, st)
        = [claims EXCEPT ![s] = [claims[s] EXCEPT ![n] =
                                    [claims[s][n] EXCEPT !.status = st]]]
  BY DEF SetClaimStatus, TypeOK
<1>3. QED
  BY <1>1, <1>2 DEF TypeOK

(* Abandoning expired leases yields a claim table again. *)
LEMMA AbandonType ==
  ASSUME TypeOK, NEW at
  PROVE  AbandonExpired(at) \in [Steps -> [Attempts -> Claim]]
<1>1. ASSUME NEW s \in Steps, NEW n \in Attempts
      PROVE  [claims[s][n] EXCEPT !.status = "ABANDONED"] \in Claim
  BY ClaimUpdateType DEF TypeOK, Statuses
<1>2. \A s \in Steps, n \in Attempts : claims[s][n] \in Claim
  BY DEF TypeOK
<1>3. QED
  BY <1>1, <1>2 DEF AbandonExpired

(* The initial worker tables are well typed. *)
LEMMA InitTypeOK == Init => TypeOK
<1>1. NoClaim \in Claim
  BY DEF NoClaim, Claim
<1>2. 0 \in 0 .. MaxAttempts /\ 0 \in 0 .. MaxRevisions
  BY ConstantsAssumption
<1> SUFFICES ASSUME Init PROVE TypeOK
  OBVIOUS
<1>3. attempts \in [Steps -> 0 .. MaxAttempts]
  BY <1>2 DEF Init
<1>4. claims \in [Steps -> [Attempts -> Claim]]
  BY <1>1 DEF Init
<1>5. checkpoints \in [Steps -> [Revisions -> 0 .. MaxAttempts]]
  BY <1>2 DEF Init
<1>6. revision \in [Steps -> 0 .. MaxRevisions]
  BY <1>2 DEF Init
<1>7. result \in [Steps -> 0 .. MaxAttempts]
  BY <1>2 DEF Init
<1>8. /\ now \in Nat
      /\ current \subseteq Assignments
      /\ moved \subseteq Assignments
      /\ registered \subseteq Steps
  BY DEF Init
<1>9. policyBound \in BOOLEAN
  BY Zenon DEF Init
<1>10. QED
  BY <1>3, <1>4, <1>5, <1>6, <1>7, <1>8, <1>9 DEF TypeOK

(* Every transaction of worker_store.py keeps the tables well typed. *)
LEMMA NextTypeOK == TypeOK /\ [Next]_vars => TypeOK'
<1> SUFFICES ASSUME TypeOK, [Next]_vars PROVE TypeOK'
  OBVIOUS
<1> USE ConstantsAssumption
<1>1. CASE Tick
  BY <1>1 DEF Tick, TypeOK
<1>2. ASSUME NEW newCurrent \in SUBSET Assignments,
             NEW newMoved \in {moved} \cup {moved \cup {a} : a \in Assignments},
             NEW bound \in BOOLEAN, NEW at \in 0 .. now,
             SaveScheduler(newCurrent, newMoved, bound, at)
      PROVE  TypeOK'
  <2>1. newMoved \subseteq Assignments
    BY DEF TypeOK
  <2>2. QED
    BY <1>2, <2>1, AbandonType DEF SaveScheduler, TypeOK
<1>3. ASSUME NEW s \in Steps, RegisterWorkerStep(s) PROVE TypeOK'
  BY <1>3 DEF RegisterWorkerStep, TypeOK
<1>4. ASSUME NEW s \in Steps, NEW captured \in 0 .. now, NEW w \in Workers,
             NEW lease \in LeaseSeconds, GrantClaim(s, w, captured, lease)
      PROVE  TypeOK'
  <2> DEFINE cl == AbandonExpired(captured)
  <2>1. cl \in [Steps -> [Attempts -> Claim]]
    BY AbandonType
  <2>2. NewClaim(s, w, now, lease) \in Claim
    BY DEF NewClaim, Claim, Statuses, TypeOK
  <2>3. attempts[s] + 1 \in Attempts
    BY <1>4 DEF GrantClaim, TypeOK, Attempts
  <2> HIDE DEF cl
  <2>4. [cl EXCEPT ![s][attempts[s] + 1] = NewClaim(s, w, now, lease)]
          \in [Steps -> [Attempts -> Claim]]
    BY <2>1, <2>2, <2>3
  <2>5. claims' \in [Steps -> [Attempts -> Claim]]
    BY <1>4, <2>4 DEF GrantClaim, cl
  <2>6. attempts' \in [Steps -> 0 .. MaxAttempts]
    BY <1>4 DEF GrantClaim, TypeOK
  <2>7. QED
    BY <1>4, <2>5, <2>6 DEF GrantClaim, TypeOK
<1>5. ASSUME NEW s \in Steps, NEW captured \in 0 .. now, DenyClaim(s, captured)
      PROVE  TypeOK'
  BY <1>5, AbandonType DEF DenyClaim, TypeOK
<1>6. ASSUME NEW s \in Steps, NEW n \in Attempts, NEW at \in 0 .. now,
             ExpireClaim(s, n, at)
      PROVE  TypeOK'
  BY <1>6, SetClaimStatusType DEF ExpireClaim, TypeOK, Statuses
<1>7. ASSUME NEW s \in Steps, NEW n \in Attempts, NEW w \in Workers,
             Working(s, n, w)
      PROVE  TypeOK'
  <2>1. CASE ReleaseWorkerClaim(s, n, w)
    BY <2>1, SetClaimStatusType DEF ReleaseWorkerClaim, TypeOK, Statuses
  <2>2. ASSUME NEW at \in 0 .. now, NEW lease \in LeaseSeconds,
               HeartbeatWorkerClaim(s, n, w, at, lease)
        PROVE  TypeOK'
    <3>1. CASE ExpireClaim(s, n, at)
      BY <1>6, <3>1
    <3>2. CASE /\ claims' = [claims EXCEPT ![s][n].expires = at + lease]
               /\ UNCHANGED <<now, current, moved, policyBound, registered,
                              attempts, checkpoints, revision, result>>
      <4>1. at + lease \in Nat /\ claims[s][n] \in Claim
        BY DEF TypeOK
      <4>2. [claims[s][n] EXCEPT !.expires = at + lease] \in Claim
        BY <4>1, ClaimUpdateType
      <4>3. claims' = [claims EXCEPT ![s] = [claims[s] EXCEPT ![n] =
                          [claims[s][n] EXCEPT !.expires = at + lease]]]
        BY <3>2 DEF TypeOK
      <4>4. claims' \in [Steps -> [Attempts -> Claim]]
        BY <4>2, <4>3 DEF TypeOK
      <4>5. QED
        BY <3>2, <4>4 DEF TypeOK
    <3>3. QED
      BY <2>2, <3>1, <3>2 DEF HeartbeatWorkerClaim
  <2>3. ASSUME NEW at \in 0 .. now, CheckpointWorkerClaim(s, n, w, at)
        PROVE  TypeOK'
    <3> DEFINE rev == claims[s][n].base + 1
    <3>1. SetClaimStatus(s, n, "CHECKPOINTED") \in [Steps -> [Attempts -> Claim]]
      BY SetClaimStatusType DEF Statuses
    <3>2. CASE ExpireClaim(s, n, at)
      BY <1>6, <3>2
    <3>3. CASE /\ rev \in Revisions
               /\ checkpoints' = [checkpoints EXCEPT ![s][rev] = n]
               /\ revision' = [revision EXCEPT ![s] = rev]
               /\ claims' = SetClaimStatus(s, n, "CHECKPOINTED")
               /\ UNCHANGED <<now, current, moved, policyBound, registered,
                              attempts, result>>
      <4>1. checkpoints' \in [Steps -> [Revisions -> 0 .. MaxAttempts]]
        BY <3>3 DEF TypeOK, Attempts
      <4>2. revision' \in [Steps -> 0 .. MaxRevisions]
        BY <3>3 DEF TypeOK, Revisions
      <4>3. QED
        BY <3>1, <3>3, <4>1, <4>2 DEF TypeOK
    <3>4. QED
      BY <2>3, <3>2, <3>3 DEF CheckpointWorkerClaim
  <2>4. ASSUME NEW at \in 0 .. now, CompleteWorkerClaim(s, n, w, at)
        PROVE  TypeOK'
    <3>1. SetClaimStatus(s, n, "COMPLETED") \in [Steps -> [Attempts -> Claim]]
      BY SetClaimStatusType DEF Statuses
    <3>2. CASE ExpireClaim(s, n, at)
      BY <1>6, <3>2
    <3>3. CASE /\ result' = [result EXCEPT ![s] = n]
               /\ claims' = SetClaimStatus(s, n, "COMPLETED")
               /\ UNCHANGED <<now, current, moved, policyBound, registered,
                              attempts, checkpoints, revision>>
      BY <3>1, <3>3 DEF TypeOK, Attempts
    <3>4. QED
      BY <2>4, <3>2, <3>3 DEF CompleteWorkerClaim
  <2>5. QED
    BY <1>7, <2>1, <2>2, <2>3, <2>4 DEF Working
<1>8. CASE UNCHANGED vars
  BY <1>8 DEF vars, TypeOK
<1>9. QED
  BY <1>1, <1>2, <1>3, <1>4, <1>5, <1>7, <1>8 DEF Next, Scheduling, Claiming

(* The worker tables stay well typed in every behaviour. *)
THEOREM TypeCorrect == Spec => []TypeOK
  BY InitTypeOK, NextTypeOK, PTL DEF Spec
-----------------------------------------------------------------------------
(* Where attempts, results and checkpoint writers point. *)
LEMMA Ranges ==
  ASSUME TypeOK
  PROVE  /\ \A s \in Steps : attempts[s] \in Nat /\ revision[s] \in Nat
         /\ \A s \in Steps : result[s] # 0 => result[s] \in Attempts
         /\ \A s \in Steps : \A n \in 1 .. attempts[s] : n \in Attempts
         /\ \A n \in Attempts : n \in Nat /\ n # 0
  BY ConstantsAssumption DEF TypeOK, Attempts

(* What the bulk UPDATE of expired leases does to one row: the rest of the  *)
(* row stays, a live lease that ended by `at` is abandoned, and after it no *)
(* live lease has ended by `at`.                                            *)
LEMMA AbandonRow ==
  ASSUME TypeOK, NEW at \in Nat, NEW s \in Steps, NEW n \in Attempts
  PROVE  LET c == claims[s][n]
             d == AbandonExpired(at)[s][n]
         IN  /\ d.base = c.base
             /\ d.claimedAt = c.claimedAt
             /\ d.expires = c.expires
             /\ c.status = "ACTIVE" /\ c.expires <= at => d.status = "ABANDONED"
             /\ ~(c.status = "ACTIVE" /\ c.expires <= at) => d = c
<1>1. claims[s][n] \in Claim
  BY DEF TypeOK
<1>2. AbandonExpired(at)[s][n] =
        IF claims[s][n].status = "ACTIVE" /\ claims[s][n].expires <= at
        THEN [claims[s][n] EXCEPT !.status = "ABANDONED"]
        ELSE claims[s][n]
  BY DEF AbandonExpired, Active
<1>3. QED
  BY <1>1, <1>2 DEF Claim

(* What _set_claim_status does to every row. *)
LEMMA SetStatusRow ==
  ASSUME TypeOK, NEW s \in Steps, NEW n \in Attempts, NEW st,
         NEW t \in Steps, NEW m \in Attempts
  PROVE  LET c == claims[t][m]
             d == SetClaimStatus(s, n, st)[t][m]
         IN  /\ d.base = c.base
             /\ d.claimedAt = c.claimedAt
             /\ d.expires = c.expires
             /\ t = s /\ m = n => d.status = st
             /\ ~(t = s /\ m = n) => d = c
<1>1. claims[t][m] \in Claim
  BY DEF TypeOK
<1>2. CASE t = s /\ m = n
  <2>1. SetClaimStatus(s, n, st)[t][m] = [claims[s][n] EXCEPT !.status = st]
    BY <1>2 DEF SetClaimStatus, TypeOK
  <2>2. QED
    BY <1>1, <1>2, <2>1 DEF Claim
<1>3. CASE ~(t = s /\ m = n)
  BY <1>3 DEF SetClaimStatus, TypeOK
<1>4. QED
  BY <1>2, <1>3
-----------------------------------------------------------------------------
(* The empty worker tables satisfy the inductive invariant. *)
LEMMA InitIInv == Init => IInv
<1> SUFFICES ASSUME Init PROVE IInv
  OBVIOUS
<1>1. TypeOK
  BY InitTypeOK
<1>2. \A s \in Steps, n \in Attempts : claims[s][n].status = "NONE"
  BY DEF Init, NoClaim
<1>3. \A s \in Steps : /\ attempts[s] = 0 /\ revision[s] = 0 /\ result[s] = 0
                       /\ \A r \in Revisions : checkpoints[s][r] = 0
  BY DEF Init
<1>4. ClaimTableShape
  BY <1>2, <1>3, ConstantsAssumption DEF ClaimTableShape, Active, Attempts
<1>5. CheckpointChain
  BY <1>3 DEF CheckpointChain
<1>6. LiveClaimsStayCurrent
  BY <1>2 DEF LiveClaimsStayCurrent, HeldAssignments, Active
<1>7. QED
  BY <1>1, <1>2, <1>3, <1>4, <1>5, <1>6
     DEF IInv, OneActiveClaimPerAssignment, ResultClosesStep,
         ResumesLatestCheckpoint, AmbiguousEffectNotRetried,
         LeasesDoNotOverlap, Active

(* A transaction that only abandons leases that ended by now, and leaves    *)
(* the assignments of the others current, keeps the invariant: a denied     *)
(* claim and a scheduler save.                                              *)
LEMMA AbandonKeepsIInv ==
  ASSUME IInv, TypeOK', NEW at \in 0 .. now,
         claims' = AbandonExpired(at),
         HeldAssignments(claims') \subseteq current',
         UNCHANGED <<now, attempts, checkpoints, revision, result>>
  PROVE  IInv'
<1> USE DEF IInv, Active
<1>1. at \in Nat /\ at <= now /\ now \in Nat
  BY DEF TypeOK
<1>2. \A s \in Steps, n \in Attempts :
        /\ claims'[s][n].base = claims[s][n].base
        /\ claims'[s][n].claimedAt = claims[s][n].claimedAt
        /\ claims'[s][n].expires = claims[s][n].expires
        /\ claims[s][n].status = "ACTIVE" /\ claims[s][n].expires <= at
           => claims'[s][n].status = "ABANDONED"
        /\ ~(claims[s][n].status = "ACTIVE" /\ claims[s][n].expires <= at)
           => claims'[s][n].status = claims[s][n].status
  BY <1>1, AbandonRow
<1>3. \A s \in Steps, n \in Attempts : claims[s][n].expires \in Nat
  BY DEF TypeOK, Claim
<1>4. ClaimTableShape'
  BY <1>1, <1>2, <1>3 DEF ClaimTableShape
<1>5. OneActiveClaimPerAssignment'
  BY <1>2 DEF OneActiveClaimPerAssignment
<1>6. ResultClosesStep'
  <2>1. \A s \in Steps : result[s] # 0 => result[s] \in Attempts
    BY ConstantsAssumption DEF TypeOK, Attempts
  <2>2. QED
    BY <1>2, <2>1 DEF ResultClosesStep
<1>7. ResumesLatestCheckpoint'
  BY <1>2 DEF ResumesLatestCheckpoint
<1>8. CheckpointChain'
  <2>1. \A s \in Steps : \A n \in 1 .. attempts[s] : n \in Attempts
    BY ConstantsAssumption DEF TypeOK, Attempts
  <2>2. QED
    BY <1>2, <2>1 DEF CheckpointChain
<1>9. AmbiguousEffectNotRetried'
  BY <1>2 DEF AmbiguousEffectNotRetried, ClaimTableShape
<1>10. LiveClaimsStayCurrent'
  BY DEF LiveClaimsStayCurrent
<1>11. LeasesDoNotOverlap'
  <2>1. \A s \in Steps, n \in Attempts : attempts[s] \in Nat /\ n \in Nat
    BY ConstantsAssumption DEF TypeOK, Attempts
  <2>2. QED
    BY <1>2, <2>1 DEF LeasesDoNotOverlap, ClaimTableShape
<1>12. QED
  BY <1>4, <1>5, <1>6, <1>7, <1>8, <1>9, <1>10, <1>11

(* Moving one live claim to a closed status, with the row it writes for     *)
(* it, keeps the invariant: expiry, release, checkpoint and completion.     *)
LEMMA CloseKeepsIInv ==
  ASSUME IInv, TypeOK', NEW s \in Steps, NEW n \in Attempts,
         NEW st \in Statuses \ {"ACTIVE"},
         Active(claims, s, n),
         claims' = SetClaimStatus(s, n, st),
         st = "ABANDONED" => claims[s][n].expires <= now,
         st = "COMPLETED" => /\ result[s] = 0
                             /\ result' = [result EXCEPT ![s] = n],
         st # "COMPLETED" => UNCHANGED result,
         st = "CHECKPOINTED" =>
           LET rev == claims[s][n].base + 1
           IN  /\ rev \in Revisions
               /\ checkpoints' = [checkpoints EXCEPT ![s][rev] = n]
               /\ revision' = [revision EXCEPT ![s] = rev],
         st # "CHECKPOINTED" => UNCHANGED <<checkpoints, revision>>,
         UNCHANGED <<now, current, attempts>>
  PROVE  IInv'
<1> USE DEF IInv, Active
<1>1. \A t \in Steps, m \in Attempts :
        /\ claims'[t][m].base = claims[t][m].base
        /\ claims'[t][m].claimedAt = claims[t][m].claimedAt
        /\ claims'[t][m].expires = claims[t][m].expires
        /\ t = s /\ m = n => claims'[t][m].status = st
        /\ ~(t = s /\ m = n) => claims'[t][m].status = claims[t][m].status
  BY SetStatusRow
<1>2. n = attempts[s]
  BY DEF ClaimTableShape
<1>3. \A t \in Steps : attempts[t] \in Nat /\ revision[t] \in Nat
  BY ConstantsAssumption DEF TypeOK
<1>4. st # "NONE" /\ st # "ACTIVE"
  BY DEF Statuses
<1>5. ClaimTableShape'
  <2>1. \A t \in Steps, m \in Attempts :
          claims'[t][m].status = "NONE" <=> m > attempts[t]
    BY <1>1, <1>4 DEF ClaimTableShape
  <2>2. \A t \in Steps, m \in Attempts :
          claims'[t][m].status = "ACTIVE" => m = attempts[t]
    BY <1>1, <1>4 DEF ClaimTableShape
  <2>3. \A t \in Steps, m \in Attempts :
          claims'[t][m].status = "ABANDONED" => claims'[t][m].expires <= now
    BY <1>1 DEF ClaimTableShape
  <2>4. QED
    BY <2>1, <2>2, <2>3 DEF ClaimTableShape
<1>6. OneActiveClaimPerAssignment'
  BY <1>1, <1>4 DEF OneActiveClaimPerAssignment
<1>7. ResultClosesStep'
  <2>1. \A t \in Steps : result[t] # 0 => result[t] \in Attempts
    BY Ranges
  <2>2. CASE st = "COMPLETED"
    <3>1. \A t \in Steps : result'[t] = IF t = s THEN n ELSE result[t]
      BY <2>2 DEF TypeOK
    <3>2. \A m \in Attempts : m # 0
      BY DEF Attempts
    <3>3. \A m \in Attempts : claims[s][m].status # "COMPLETED"
      BY <2>2, <3>2 DEF ResultClosesStep
    <3>4. QED
      BY <1>1, <1>2, <2>1, <2>2, <3>1, <3>3 DEF ResultClosesStep
  <2>3. CASE st # "COMPLETED"
    BY <1>1, <2>1, <2>3 DEF ResultClosesStep
  <2>4. QED
    BY <2>2, <2>3
<1>8. ResumesLatestCheckpoint'
  <2>1. \A t \in Steps : t # s => revision'[t] = revision[t]
    BY DEF TypeOK
  <2>2. \A m \in Attempts : claims'[s][m].status # "ACTIVE"
    BY <1>1, <1>2, <1>4 DEF ClaimTableShape
  <2>3. QED
    BY <1>1, <1>4, <2>1, <2>2 DEF ResumesLatestCheckpoint
<1>9. CheckpointChain'
  <2>1. \A t \in Steps : \A m \in 1 .. attempts[t] : m \in Attempts
    BY ConstantsAssumption DEF TypeOK, Attempts
  <2>2. CASE st # "CHECKPOINTED"
    BY <1>1, <2>1, <2>2 DEF CheckpointChain
  <2>3. CASE st = "CHECKPOINTED"
    <3> DEFINE rev == claims[s][n].base + 1
    <3>1. rev = revision[s] + 1 /\ rev \in Revisions
      BY <2>3 DEF ResumesLatestCheckpoint
    <3>2. \A t \in Steps : revision'[t] = IF t = s THEN rev ELSE revision[t]
      BY <2>3 DEF TypeOK
    <3>3. \A t \in Steps, r \in Revisions :
            checkpoints'[t][r] = IF t = s /\ r = rev THEN n
                                 ELSE checkpoints[t][r]
      BY <2>3 DEF TypeOK
    <3> HIDE DEF rev
    <3>4. \A t \in Steps : \A r \in 1 .. revision[t] : r \in Revisions
      BY ConstantsAssumption DEF TypeOK, Revisions
    <3>5. ASSUME NEW t \in Steps, NEW r \in 1 .. revision'[t]
          PROVE  LET m == checkpoints'[t][r]
                 IN  /\ m \in 1 .. attempts[t]
                     /\ claims'[t][m].status = "CHECKPOINTED"
                     /\ claims'[t][m].base = r - 1
                     /\ r > 1 => checkpoints'[t][r - 1] < m
      <4>1. CASE t = s /\ r = rev
        <5>1. checkpoints'[t][r] = n
          BY <3>1, <3>3, <4>1
        <5>2. n \in 1 .. attempts[s]
          BY <1>2, <1>3 DEF Attempts
        <5>3. claims'[s][n].base = r - 1
          BY <1>1, <1>3, <3>1, <4>1 DEF ResumesLatestCheckpoint
        <5>4. ASSUME r > 1 PROVE checkpoints'[s][r - 1] < n
          <6>1. r - 1 \in 1 .. revision[s] /\ r - 1 # rev
            BY <1>3, <3>1, <4>1, <5>4
          <6>2. checkpoints'[s][r - 1] = checkpoints[s][r - 1]
            BY <3>3, <3>4, <6>1
          <6>3. /\ checkpoints[s][r - 1] \in 1 .. attempts[s]
                /\ claims[s][checkpoints[s][r - 1]].status = "CHECKPOINTED"
            BY <6>1 DEF CheckpointChain
          <6>4. checkpoints[s][r - 1] # n
            BY <6>3
          <6>5. QED
            BY <1>2, <1>3, <6>2, <6>3, <6>4
        <5>5. QED
          BY <1>1, <2>3, <4>1, <5>1, <5>2, <5>3, <5>4
      <4>2. CASE ~(t = s /\ r = rev)
        <5>1. r \in 1 .. revision[t]
          BY <1>3, <3>1, <3>2, <4>2
        <5>2. checkpoints'[t][r] = checkpoints[t][r]
          BY <3>3, <3>4, <4>2, <5>1
        <5>3. r > 1 => checkpoints'[t][r - 1] = checkpoints[t][r - 1]
          <6>1. r > 1 => r - 1 \in 1 .. revision[t] /\ ~(t = s /\ r - 1 = rev)
            BY <1>3, <3>1, <5>1
          <6>2. QED
            BY <3>3, <3>4, <6>1
        <5>4. LET m == checkpoints[t][r]
              IN  /\ m \in 1 .. attempts[t]
                  /\ claims[t][m].status = "CHECKPOINTED"
                  /\ claims[t][m].base = r - 1
                  /\ r > 1 => checkpoints[t][r - 1] < m
          BY <5>1 DEF CheckpointChain
        <5>5. checkpoints[t][r] \in Attempts
          BY <2>1, <5>4
        <5>6. QED
          BY <1>1, <2>3, <5>2, <5>3, <5>4, <5>5
      <4>3. QED
        BY <4>1, <4>2
    <3>6. ASSUME NEW t \in Steps, NEW r \in Revisions, r > revision'[t]
          PROVE  checkpoints'[t][r] = 0
      BY <1>3, <3>1, <3>2, <3>3, <3>6 DEF CheckpointChain, Revisions
    <3>7. QED
      BY <3>5, <3>6 DEF CheckpointChain
  <2>4. QED
    BY <2>2, <2>3
<1>10. AmbiguousEffectNotRetried'
  BY <1>1, <1>2 DEF AmbiguousEffectNotRetried
<1>11. LiveClaimsStayCurrent'
  BY <1>1, <1>4 DEF LiveClaimsStayCurrent, HeldAssignments
<1>12. LeasesDoNotOverlap'
  BY <1>1, <1>2, <1>3 DEF LeasesDoNotOverlap, Attempts
<1>13. QED
  BY <1>5, <1>6, <1>7, <1>8, <1>9, <1>10, <1>11, <1>12

(* A granted claim keeps the invariant.  The bulk abandonment comes first,  *)
(* in the same transaction, and the new row is the step's next attempt.     *)
LEMMA GrantKeepsIInv ==
  ASSUME IInv, TypeOK', NEW s \in Steps, NEW w \in Workers,
         NEW captured \in 0 .. now, NEW lease \in LeaseSeconds,
         GrantClaim(s, w, captured, lease)
  PROVE  IInv'
<1> DEFINE cl == AbandonExpired(captured)
           k == attempts[s] + 1
<1> USE DEF IInv, Active
<1>1. captured \in Nat /\ captured <= now /\ now \in Nat
  BY DEF TypeOK
<1>2. \A t \in Steps, n \in Attempts :
        /\ cl[t][n].base = claims[t][n].base
        /\ cl[t][n].claimedAt = claims[t][n].claimedAt
        /\ cl[t][n].expires = claims[t][n].expires
        /\ claims[t][n].status = "ACTIVE" /\ claims[t][n].expires <= captured
           => cl[t][n].status = "ABANDONED"
        /\ ~(claims[t][n].status = "ACTIVE" /\ claims[t][n].expires <= captured)
           => cl[t][n].status = claims[t][n].status
  BY <1>1, AbandonRow
<1>3. \A t \in Steps, n \in Attempts : claims[t][n].expires \in Nat
  BY DEF TypeOK, Claim
<1>4. \A t \in Steps : attempts[t] \in Nat /\ revision[t] \in Nat
  BY ConstantsAssumption DEF TypeOK
<1>5. \A n \in Attempts : n \in Nat /\ n # 0
  BY DEF Attempts
<1>6. k \in Attempts
  BY ConstantsAssumption DEF GrantClaim, TypeOK, Attempts
<1>7. cl \in [Steps -> [Attempts -> Claim]]
  BY AbandonType
<1>8. /\ claims' = [cl EXCEPT ![s][k] = NewClaim(s, w, now, lease)]
      /\ attempts' = [attempts EXCEPT ![s] = k]
      /\ StructurallyAdmissible(cl, s, captured)
      /\ UNCHANGED <<now, current, checkpoints, revision, result>>
  BY DEF GrantClaim, TypeOK
<1> HIDE DEF cl
<1>9. /\ claims'[s][k].status = "ACTIVE"
      /\ claims'[s][k].base = revision[s]
      /\ claims'[s][k].claimedAt = now
  BY <1>6, <1>7, <1>8 DEF NewClaim
<1>10. \A t \in Steps, n \in Attempts :
         ~(t = s /\ n = k) => claims'[t][n] = cl[t][n]
  BY <1>6, <1>7, <1>8
<1>11. \A t \in Steps : attempts'[t] = IF t = s THEN k ELSE attempts[t]
  BY <1>8 DEF TypeOK
<1>12. \A t \in Steps, n \in Attempts :
         claims'[t][n].status = "ABANDONED" => claims'[t][n].expires <= now
  BY <1>1, <1>2, <1>3, <1>9, <1>10 DEF ClaimTableShape
<1>13. \A t \in Steps, n \in Attempts :
         AssignmentOf[t] = AssignmentOf[s] => cl[t][n].status # "ACTIVE"
  <2>1. \A t \in Steps, n \in Attempts :
          cl[t][n].status = "ACTIVE" => ~(cl[t][n].expires <= captured)
    BY <1>2
  <2>2. QED
    BY <1>8, <2>1 DEF StructurallyAdmissible
<1>14. ClaimTableShape'
  <2>1. \A t \in Steps, n \in Attempts :
          claims'[t][n].status = "NONE" <=> n > attempts'[t]
    BY <1>2, <1>4, <1>5, <1>9, <1>10, <1>11 DEF ClaimTableShape
  <2>2. \A t \in Steps, n \in Attempts :
          claims'[t][n].status = "ACTIVE" => n = attempts'[t]
    BY <1>2, <1>9, <1>10, <1>11, <1>13 DEF ClaimTableShape
  <2>3. QED
    BY <1>8, <1>12, <2>1, <2>2 DEF ClaimTableShape
<1>15. OneActiveClaimPerAssignment'
  BY <1>2, <1>6, <1>9, <1>10, <1>13 DEF OneActiveClaimPerAssignment
<1>16. ResultClosesStep'
  <2>1. \A t \in Steps : result[t] # 0 => result[t] \in Attempts
    BY Ranges
  <2>2. result[s] = 0
    BY <1>8 DEF StructurallyAdmissible
  <2>3. QED
    BY <1>2, <1>8, <1>9, <1>10, <1>11, <2>1, <2>2 DEF ResultClosesStep
<1>17. ResumesLatestCheckpoint'
  BY <1>2, <1>8, <1>9, <1>10 DEF ResumesLatestCheckpoint
<1>18. CheckpointChain'
  <2>1. ASSUME NEW t \in Steps, NEW r \in 1 .. revision[t]
        PROVE  /\ checkpoints[t][r] \in 1 .. attempts'[t]
               /\ claims'[t][checkpoints[t][r]].status = "CHECKPOINTED"
               /\ claims'[t][checkpoints[t][r]].base = r - 1
    <3> DEFINE m == checkpoints[t][r]
    <3>1. /\ m \in 1 .. attempts[t]
          /\ claims[t][m].status = "CHECKPOINTED"
          /\ claims[t][m].base = r - 1
      BY DEF CheckpointChain
    <3> HIDE DEF m
    <3>2. m \in Attempts /\ ~(t = s /\ m = k) /\ m \in 1 .. attempts'[t]
      BY <1>4, <1>11, <3>1, Ranges
    <3>3. QED
      BY <1>2, <1>10, <3>1, <3>2 DEF m
  <2>2. QED
    BY <1>8, <2>1 DEF CheckpointChain
<1>19. AmbiguousEffectNotRetried'
  <2>1. ASSUME NEW n \in Attempts, EffectPolicy[s] = "AT_MOST_ONCE",
               cl[s][n].status = "ABANDONED"
        PROVE  FALSE
    <3>1. n = attempts[s]
      BY <1>2, <2>1 DEF AmbiguousEffectNotRetried, ClaimTableShape
    <3>2. attempts[s] > 0
      BY <1>4, <1>5, <3>1
    <3>3. QED
      BY <1>8, <2>1, <3>1, <3>2 DEF StructurallyAdmissible, AbandonedRetryIsSafe
  <2>2. \A t \in Steps, n \in Attempts :
          t # s /\ claims'[t][n].status = "ABANDONED"
          => claims[t][n].status = "ABANDONED" \/ n = attempts[t]
    BY <1>2, <1>10 DEF ClaimTableShape
  <2>3. \A n \in Attempts :
          EffectPolicy[s] = "AT_MOST_ONCE" => claims'[s][n].status # "ABANDONED"
    BY <1>9, <1>10, <2>1
  <2>4. QED
    BY <1>11, <2>2, <2>3 DEF AmbiguousEffectNotRetried
<1>20. LiveClaimsStayCurrent'
  <2>1. AssignmentOf[s] \in current
    BY <1>8 DEF StructurallyAdmissible
  <2>2. \A t \in Steps, n \in Attempts :
          claims'[t][n].status = "ACTIVE" => AssignmentOf[t] \in current
    BY <1>2, <1>10, <2>1, ConstantsAssumption
       DEF LiveClaimsStayCurrent, HeldAssignments
  <2>3. QED
    BY <1>8, <2>2 DEF LiveClaimsStayCurrent, HeldAssignments
<1>21. LeasesDoNotOverlap'
  <2>1. ASSUME NEW t \in Steps, NEW m \in Attempts, NEW n \in Attempts,
               m < n, n <= attempts'[t], claims'[t][m].status = "ABANDONED"
        PROVE  claims'[t][m].expires <= claims'[t][n].claimedAt
    <3>1. CASE t = s /\ n = k
      <4>1. claims'[t][m].expires <= now
        BY <1>12, <2>1
      <4>2. QED
        BY <1>9, <3>1, <4>1
    <3>2. CASE ~(t = s /\ n = k)
      <4>1. n <= attempts[t] /\ ~(t = s /\ m = k)
        BY <1>4, <1>5, <1>11, <2>1, <3>2
      <4>2. claims[t][m].status = "ABANDONED"
        BY <1>2, <1>4, <1>5, <1>10, <2>1, <4>1 DEF ClaimTableShape
      <4>3. QED
        BY <1>2, <1>10, <2>1, <3>2, <4>1, <4>2 DEF LeasesDoNotOverlap
    <3>3. QED
      BY <3>1, <3>2
  <2>2. QED
    BY <2>1 DEF LeasesDoNotOverlap
<1>22. QED
  BY <1>14, <1>15, <1>16, <1>17, <1>18, <1>19, <1>20, <1>21

(* Extending a live lease keeps the invariant. *)
LEMMA HeartbeatKeepsIInv ==
  ASSUME IInv, TypeOK', NEW s \in Steps, NEW n \in Attempts, NEW e,
         Active(claims, s, n),
         claims' = [claims EXCEPT ![s][n].expires = e],
         UNCHANGED <<now, current, attempts, checkpoints, revision, result>>
  PROVE  IInv'
<1> USE DEF IInv, Active
<1>1. ASSUME NEW t \in Steps, NEW m \in Attempts
      PROVE  /\ claims'[t][m].base = claims[t][m].base
             /\ claims'[t][m].claimedAt = claims[t][m].claimedAt
             /\ claims'[t][m].status = claims[t][m].status
             /\ claims[t][m].status # "ACTIVE" => claims'[t][m] = claims[t][m]
  <2>1. claims[t][m] \in Claim
    BY DEF TypeOK
  <2>2. CASE t = s /\ m = n
    <3>1. claims'[t][m] = [claims[s][n] EXCEPT !.expires = e]
      BY <2>2 DEF TypeOK
    <3>2. QED
      BY <2>1, <2>2, <3>1 DEF Claim
  <2>3. CASE ~(t = s /\ m = n)
    BY <2>3 DEF TypeOK
  <2>4. QED
    BY <2>2, <2>3
<1>2. ClaimTableShape'
  BY <1>1 DEF ClaimTableShape
<1>3. OneActiveClaimPerAssignment' /\ ResumesLatestCheckpoint'
  BY <1>1 DEF OneActiveClaimPerAssignment, ResumesLatestCheckpoint
<1>4. ResultClosesStep'
  <2>1. \A t \in Steps : result[t] # 0 => result[t] \in Attempts
    BY Ranges
  <2>2. QED
    BY <1>1, <2>1 DEF ResultClosesStep
<1>5. CheckpointChain'
  <2>1. \A t \in Steps : \A m \in 1 .. attempts[t] : m \in Attempts
    BY ConstantsAssumption DEF TypeOK, Attempts
  <2>2. QED
    BY <1>1, <2>1 DEF CheckpointChain
<1>6. AmbiguousEffectNotRetried' /\ LeasesDoNotOverlap'
  BY <1>1 DEF AmbiguousEffectNotRetried, LeasesDoNotOverlap
<1>7. LiveClaimsStayCurrent'
  BY <1>1 DEF LiveClaimsStayCurrent, HeldAssignments
<1>8. QED
  BY <1>2, <1>3, <1>4, <1>5, <1>6, <1>7

(* Every transaction of worker_store.py and save_scheduler keeps the        *)
(* inductive invariant.                                                     *)
LEMMA NextIInv == IInv /\ [Next]_vars => IInv'
<1> SUFFICES ASSUME IInv, [Next]_vars PROVE IInv'
  OBVIOUS
<1>1. TypeOK /\ TypeOK'
  BY NextTypeOK DEF IInv
<1>2. CASE UNCHANGED vars
  BY <1>2 DEF vars, IInv, TypeOK, ClaimTableShape, OneActiveClaimPerAssignment,
     ResultClosesStep, ResumesLatestCheckpoint, CheckpointChain,
     AmbiguousEffectNotRetried, LiveClaimsStayCurrent, HeldAssignments,
     LeasesDoNotOverlap, Active
<1>3. CASE Tick
  <2>1. ClaimTableShape'
    <3>1. \A s \in Steps, n \in Attempts : claims[s][n].expires \in Nat
      BY <1>1 DEF TypeOK, Claim
    <3>2. QED
      BY <1>1, <1>3, <3>1 DEF Tick, IInv, ClaimTableShape, Active, TypeOK
  <2>2. QED
    BY <1>1, <1>3, <2>1 DEF Tick, IInv, OneActiveClaimPerAssignment,
       ResultClosesStep, ResumesLatestCheckpoint, CheckpointChain,
       AmbiguousEffectNotRetried, LiveClaimsStayCurrent, HeldAssignments,
       LeasesDoNotOverlap, Active
<1>4. ASSUME NEW newCurrent \in SUBSET Assignments, NEW newMoved,
             NEW bound \in BOOLEAN, NEW at \in 0 .. now,
             SaveScheduler(newCurrent, newMoved, bound, at)
      PROVE  IInv'
  BY <1>1, <1>4, AbandonKeepsIInv DEF SaveScheduler
<1>5. ASSUME NEW s \in Steps, RegisterWorkerStep(s) PROVE IInv'
  BY <1>1, <1>5 DEF RegisterWorkerStep, IInv, ClaimTableShape,
     OneActiveClaimPerAssignment, ResultClosesStep, ResumesLatestCheckpoint,
     CheckpointChain, AmbiguousEffectNotRetried, LiveClaimsStayCurrent,
     HeldAssignments, LeasesDoNotOverlap, Active
<1>6. ASSUME NEW s \in Steps, NEW captured \in 0 .. now, NEW w \in Workers,
             NEW lease \in LeaseSeconds, GrantClaim(s, w, captured, lease)
      PROVE  IInv'
  BY <1>1, <1>6, GrantKeepsIInv
<1>7. ASSUME NEW s \in Steps, NEW captured \in 0 .. now, DenyClaim(s, captured)
      PROVE  IInv'
  <2>1. captured \in Nat
    BY <1>1 DEF TypeOK
  <2>2. \A t \in Steps, n \in Attempts :
          AbandonExpired(captured)[t][n].status = "ACTIVE"
          => claims[t][n].status = "ACTIVE"
    BY <1>1, <2>1, AbandonRow
  <2>3. HeldAssignments(claims') \subseteq current'
    BY <1>7, <2>2
       DEF DenyClaim, IInv, LiveClaimsStayCurrent, HeldAssignments, Active
  <2>4. QED
    BY <1>1, <1>7, <2>3, AbandonKeepsIInv DEF DenyClaim
<1>8. ASSUME NEW s \in Steps, NEW n \in Attempts, NEW w \in Workers,
             Working(s, n, w)
      PROVE  IInv'
  <2>1. ASSUME NEW at \in 0 .. now, Active(claims, s, n), ExpireClaim(s, n, at)
        PROVE  IInv'
    <3>1. claims[s][n].expires <= now
      BY <1>1, <2>1 DEF ExpireClaim, TypeOK, Claim
    <3>2. QED
      BY <1>1, <2>1, <3>1, CloseKeepsIInv DEF ExpireClaim, Statuses
  <2>2. CASE ReleaseWorkerClaim(s, n, w)
    BY <1>1, <2>2, CloseKeepsIInv
       DEF ReleaseWorkerClaim, OwnedActiveClaim, Statuses
  <2>3. ASSUME NEW at \in 0 .. now, NEW lease \in LeaseSeconds,
               HeartbeatWorkerClaim(s, n, w, at, lease)
        PROVE  IInv'
    BY <1>1, <2>1, <2>3, HeartbeatKeepsIInv
       DEF HeartbeatWorkerClaim, OwnedActiveClaim
  <2>4. ASSUME NEW at \in 0 .. now, CheckpointWorkerClaim(s, n, w, at)
        PROVE  IInv'
    <3>1. Active(claims, s, n)
      BY <2>4 DEF CheckpointWorkerClaim, OwnedActiveClaim
    <3>2. CASE ExpireClaim(s, n, at)
      BY <2>1, <3>1, <3>2
    <3>3. CASE ~ExpireClaim(s, n, at)
      BY <1>1, <2>4, <3>1, <3>3, CloseKeepsIInv
         DEF CheckpointWorkerClaim, Statuses
    <3>4. QED
      BY <3>2, <3>3
  <2>5. ASSUME NEW at \in 0 .. now, CompleteWorkerClaim(s, n, w, at)
        PROVE  IInv'
    <3>1. Active(claims, s, n)
      BY <2>5 DEF CompleteWorkerClaim, OwnedActiveClaim
    <3>2. CASE ExpireClaim(s, n, at)
      BY <2>1, <3>1, <3>2
    <3>3. CASE ~ExpireClaim(s, n, at)
      BY <1>1, <2>5, <3>1, <3>3, CloseKeepsIInv
         DEF CompleteWorkerClaim, Statuses
    <3>4. QED
      BY <3>2, <3>3
  <2>6. QED
    BY <1>8, <2>2, <2>3, <2>4, <2>5 DEF Working
<1>9. QED
  BY <1>2, <1>3, <1>4, <1>5, <1>6, <1>7, <1>8 DEF Next, Scheduling, Claiming

(* The inductive invariant holds in every reachable state of the worker     *)
(* tables, whatever the callers of worker_store.py and the scheduler do.    *)
THEOREM IInvCorrect == Spec => []IInv
  BY InitIInv, NextIInv, PTL DEF Spec

(* guarded_claim_worker_step never leaves two live claims of an assignment. *)
THEOREM AtMostOneLiveClaim == Spec => []OneActiveClaimPerAssignment
<1>1. IInv => OneActiveClaimPerAssignment
  BY DEF IInv
<1>2. QED
  BY <1>1, IInvCorrect, PTL

(* complete_worker_claim: the terminal result is the last attempt's.        *)
THEOREM ResultIsTerminal == Spec => []ResultClosesStep
<1>1. IInv => ResultClosesStep
  BY DEF IInv
<1>2. QED
  BY <1>1, IInvCorrect, PTL

(* checkpoint_worker_claim: revisions form a chain of later and later       *)
(* attempts without a gap.                                                  *)
THEOREM CheckpointsChain == Spec => []CheckpointChain
<1>1. IInv => CheckpointChain
  BY DEF IInv
<1>2. QED
  BY <1>1, IInvCorrect, PTL

(* guarded_claim_worker_step: a live claim resumes from the end of the chain *)
(* of checkpoints, whoever wrote it.                                         *)
THEOREM RetriesResumeTheLatest == Spec => []ResumesLatestCheckpoint
<1>1. IInv => ResumesLatestCheckpoint
  BY DEF IInv
<1>2. QED
  BY <1>1, IInvCorrect, PTL

(* worker_claims: attempts are numbered without a gap and only the last one  *)
(* of a step can be live.                                                    *)
THEOREM ClaimRowsStayShaped == Spec => []ClaimTableShape
<1>1. IInv => ClaimTableShape
  BY DEF IInv
<1>2. QED
  BY <1>1, IInvCorrect, PTL

(* abandoned_retry_is_safe: an abandoned AT_MOST_ONCE step is never retried. *)
THEOREM AmbiguousEffectFailsClosed == Spec => []AmbiguousEffectNotRetried
<1>1. IInv => AmbiguousEffectNotRetried
  BY DEF IInv
<1>2. QED
  BY <1>1, IInvCorrect, PTL

(* _replace_resource_reservations never drops what a live claim holds.      *)
THEOREM LiveClaimsKeepReservations == Spec => []LiveClaimsStayCurrent
<1>1. IInv => LiveClaimsStayCurrent
  BY DEF IInv
<1>2. QED
  BY <1>1, IInvCorrect, PTL

(* A retry never starts before the lease it replaces has ended.             *)
THEOREM RetriesDoNotOverlap == Spec => []LeasesDoNotOverlap
<1>1. IInv => LeasesDoNotOverlap
  BY DEF IInv
<1>2. QED
  BY <1>1, IInvCorrect, PTL

(* What any step does to one claim row: nothing, unless the row is new or   *)
(* live; and a live row is abandoned only after its lease has ended.        *)
RowStep(s, n) ==
    \/ claims'[s][n] = claims[s][n]
    \/ claims[s][n].status = "NONE" /\ claims'[s][n].status = "ACTIVE"
    \/ /\ Active(claims, s, n)
       /\ claims'[s][n].status = "ABANDONED" => claims[s][n].expires <= now

(* Every transaction changes claim rows only in that way. *)
LEMMA NextRowStep ==
  ASSUME IInv, Next, NEW t \in Steps, NEW m \in Attempts
  PROVE  RowStep(t, m)
<1>1. TypeOK /\ now \in Nat
  BY DEF IInv, TypeOK
<1>2. claims[t][m].expires \in Nat
  BY <1>1 DEF TypeOK, Claim
<1>3. ASSUME NEW at \in 0 .. now
      PROVE  \/ AbandonExpired(at)[t][m] = claims[t][m]
             \/ /\ Active(claims, t, m)
                /\ AbandonExpired(at)[t][m].status = "ABANDONED"
                /\ claims[t][m].expires <= now
  <2>1. at \in Nat /\ at <= now
    BY <1>1
  <2>2. QED
    BY <1>1, <1>2, <2>1, AbandonRow DEF Active
<1>4. CASE Tick
  BY <1>4 DEF Tick, RowStep
<1>5. CASE Scheduling
  BY <1>3, <1>5 DEF Scheduling, SaveScheduler, RowStep
<1>6. ASSUME NEW s \in Steps, RegisterWorkerStep(s) PROVE RowStep(t, m)
  BY <1>6 DEF RegisterWorkerStep, RowStep
<1>7. ASSUME NEW s \in Steps, NEW captured \in 0 .. now, DenyClaim(s, captured)
      PROVE  RowStep(t, m)
  BY <1>3, <1>7 DEF DenyClaim, RowStep
<1>8. ASSUME NEW s \in Steps, NEW captured \in 0 .. now, NEW w \in Workers,
             NEW lease \in LeaseSeconds, GrantClaim(s, w, captured, lease)
      PROVE  RowStep(t, m)
  <2> DEFINE k == attempts[s] + 1
             cl == AbandonExpired(captured)
  <2>1. k \in Attempts /\ k > attempts[s]
    <3>1. attempts[s] \in 0 .. MaxAttempts
      BY <1>1 DEF TypeOK
    <3>2. attempts[s] < MaxAttempts
      BY <1>8 DEF GrantClaim
    <3>3. QED
      BY <3>1, <3>2, ConstantsAssumption DEF Attempts
  <2>2. cl \in [Steps -> [Attempts -> Claim]]
    BY <1>1, AbandonType
  <2>3. claims' = [cl EXCEPT ![s][k] = NewClaim(s, w, now, lease)]
    BY <1>8 DEF GrantClaim
  <2>4. CASE t = s /\ m = k
    <3>1. claims[t][m].status = "NONE"
      BY <2>1, <2>4 DEF IInv, ClaimTableShape
    <3>2. claims'[t][m].status = "ACTIVE"
      <4> HIDE DEF cl
      <4>1. QED
        BY <2>1, <2>2, <2>3, <2>4 DEF NewClaim
    <3>3. QED
      BY <3>1, <3>2 DEF RowStep
  <2>5. CASE ~(t = s /\ m = k)
    <3>1. claims'[t][m] = cl[t][m]
      <4> HIDE DEF cl
      <4>1. QED
        BY <2>1, <2>2, <2>3, <2>5
    <3>2. QED
      BY <1>3, <3>1 DEF RowStep
  <2>6. QED
    BY <2>4, <2>5
<1>9. ASSUME NEW s \in Steps, NEW n \in Attempts, NEW w \in Workers,
             Working(s, n, w)
      PROVE  RowStep(t, m)
  <2>1. Active(claims, s, n)
    BY <1>9 DEF Working, HeartbeatWorkerClaim, CheckpointWorkerClaim,
       CompleteWorkerClaim, ReleaseWorkerClaim, OwnedActiveClaim
  <2>2. ASSUME NEW st, claims' = SetClaimStatus(s, n, st),
               st = "ABANDONED" => claims[s][n].expires <= now
        PROVE  RowStep(t, m)
    BY <1>1, <2>1, <2>2, SetStatusRow DEF RowStep
  <2>3. ASSUME NEW at \in 0 .. now, ExpireClaim(s, n, at) PROVE RowStep(t, m)
    <3>1. claims[s][n].expires \in Nat
      BY <1>1 DEF TypeOK, Claim
    <3>2. claims[s][n].expires <= now
      BY <1>1, <2>3, <3>1 DEF ExpireClaim
    <3>3. QED
      BY <2>2, <2>3, <3>2 DEF ExpireClaim
  <2>4. CASE ReleaseWorkerClaim(s, n, w)
    BY <2>2, <2>4 DEF ReleaseWorkerClaim
  <2>5. ASSUME NEW at \in 0 .. now, NEW lease \in LeaseSeconds,
               HeartbeatWorkerClaim(s, n, w, at, lease)
        PROVE  RowStep(t, m)
    <3>1. CASE ExpireClaim(s, n, at)
      BY <2>3, <3>1
    <3>2. CASE claims' = [claims EXCEPT ![s][n].expires = at + lease]
      <4>1. CASE t = s /\ m = n
        <5>1. claims'[t][m] = [claims[s][n] EXCEPT !.expires = at + lease]
          BY <1>1, <3>2, <4>1 DEF TypeOK
        <5>2. claims[s][n] \in Claim
          BY <1>1 DEF TypeOK
        <5>3. claims'[t][m].status = "ACTIVE"
          BY <2>1, <5>1, <5>2 DEF Active, Claim
        <5>4. QED
          BY <2>1, <4>1, <5>3 DEF RowStep
      <4>2. CASE ~(t = s /\ m = n)
        BY <1>1, <3>2, <4>2 DEF TypeOK, RowStep
      <4>3. QED
        BY <4>1, <4>2
    <3>3. QED
      BY <2>5, <3>1, <3>2 DEF HeartbeatWorkerClaim
  <2>6. ASSUME NEW at \in 0 .. now, CheckpointWorkerClaim(s, n, w, at)
        PROVE  RowStep(t, m)
    BY <2>2, <2>3, <2>6 DEF CheckpointWorkerClaim
  <2>7. ASSUME NEW at \in 0 .. now, CompleteWorkerClaim(s, n, w, at)
        PROVE  RowStep(t, m)
    BY <2>2, <2>3, <2>7 DEF CompleteWorkerClaim
  <2>8. QED
    BY <1>9, <2>4, <2>5, <2>6, <2>7 DEF Working
<1>10. QED
  BY <1>4, <1>5, <1>6, <1>7, <1>8, <1>9 DEF Next, Claiming

(* No transaction abandons a lease before its end: the readings it uses are *)
(* never ahead of the clock.                                                *)
THEOREM AbandonmentIsLate == Spec => NoEarlyAbandonment
<1>1. IInv /\ [Next]_vars => [AbandonsOnlyEndedLeases]_vars
  BY NextRowStep DEF AbandonsOnlyEndedLeases, RowStep, Active
<1>2. QED
  BY <1>1, IInvCorrect, PTL DEF Spec, NoEarlyAbandonment

(* Closed claims, checkpoints and results are never rewritten.              *)
THEOREM ClosedRowsStay == Spec => ClosedRowsAreImmutable
<1>1. ASSUME IInv, Next PROVE KeepsClosedRows
  <2>1. \A s \in Steps, n \in Attempts :
          claims[s][n].status \notin {"NONE", "ACTIVE"}
          => claims'[s][n] = claims[s][n]
    BY <1>1, NextRowStep DEF RowStep, Active
  <2>2. CASE \E s \in Steps, n \in Attempts, w \in Workers : Working(s, n, w)
    <3>1. PICK s \in Steps, n \in Attempts, w \in Workers : Working(s, n, w)
      BY <2>2
    <3>2. \/ UNCHANGED result
          \/ result[s] = 0 /\ result' = [result EXCEPT ![s] = n]
      BY <3>1 DEF Working, HeartbeatWorkerClaim, CheckpointWorkerClaim,
         CompleteWorkerClaim, ReleaseWorkerClaim, ExpireClaim
    <3>3. \/ UNCHANGED checkpoints
          \/ \E r \in Revisions : /\ checkpoints[s][r] = 0
                                  /\ checkpoints' = [checkpoints EXCEPT ![s][r] = n]
      BY <3>1 DEF Working, HeartbeatWorkerClaim, CheckpointWorkerClaim,
         CompleteWorkerClaim, ReleaseWorkerClaim, ExpireClaim
    <3>4. \A t \in Steps : result[t] # 0 => result'[t] = result[t]
      BY <1>1, <3>2 DEF IInv, TypeOK
    <3>5. \A t \in Steps, r \in Revisions :
            checkpoints[t][r] # 0 => checkpoints'[t][r] = checkpoints[t][r]
      BY <1>1, <3>3 DEF IInv, TypeOK
    <3>6. QED
      BY <2>1, <3>4, <3>5 DEF KeepsClosedRows
  <2>3. CASE ~\E s \in Steps, n \in Attempts, w \in Workers : Working(s, n, w)
    <3>1. UNCHANGED <<checkpoints, result>>
      BY <1>1, <2>3 DEF Next, Tick, Scheduling, SaveScheduler,
         RegisterWorkerStep, Claiming, GrantClaim, DenyClaim
    <3>2. QED
      BY <2>1, <3>1 DEF KeepsClosedRows
  <2>4. QED
    BY <2>2, <2>3
<1>2. IInv /\ [Next]_vars => [KeepsClosedRows]_vars
  BY <1>1
<1>3. QED
  BY <1>2, IInvCorrect, PTL DEF Spec, ClosedRowsAreImmutable
=============================================================================
