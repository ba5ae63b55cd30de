------------------------------ MODULE StageRun ------------------------------
(***************************************************************************)
(* One task of the staged pipelines: a supervisor walks the stages, the     *)
(* launcher of worker_runtime.py claims a stage and starts a process for    *)
(* it, and the process journals its output before it commits the result.   *)
(* Supervisors and processes die, leases run out under a process that is    *)
(* still at work, and a later supervisor starts again from what is durable. *)
(*                                                                          *)
(* Everything has a derived identity: the step comes from the assignment    *)
(* and the stage, the claim from the step and the number of the attempt.    *)
(* When the execution tables are cleared and the task is admitted again,    *)
(* the same identities can come back, and a process of the old claim then   *)
(* finds a row that is its own as far as the store can tell.                *)
(*                                                                          *)
(* The claim table follows the rules WorkerLease establishes; time is       *)
(* reduced to whether a lease has run out.  The journal is outside the      *)
(* database and keeps the first output of each stage; it is one file, and a *)
(* process that dies in the middle of an append leaves a torn last line,    *)
(* behind which nothing is read any more.                                   *)
(*                                                                          *)
(* Some stages record, before their output, what they took from memory that *)
(* others write (working_self, memory packets), or an event under the next  *)
(* number of the conversation.  These notes have derived identities as      *)
(* well: an attempt that would note something else is refused.              *)
(***************************************************************************)
EXTENDS Naturals, Sequences, FiniteSets

CONSTANTS
    LastStage,      \* stages are 1 .. LastStage
    Needs,          \* the earlier stages whose results a stage works on
    Noting,         \* stages that record notes before their output
    Outputs,        \* what executing a stage may produce
    NoOutput,
    Assignments,    \* identities an admission may give the assignment
    NoAssignment,
    Supervisors,    \* processes that walk the stages
    Workers,        \* processes that execute one stage
    NoWorker,
    MaxTries,       \* claim_retry_attempts
    MaxAttempts     \* bound: claims of one stage

Stages == 1 .. LastStage

ASSUME StageAssumption ==
    /\ LastStage \in Nat \ {0}
    /\ Needs \in [Stages -> SUBSET Stages]
    /\ \A k \in Stages : \A j \in Needs[k] : j < k
    /\ Noting \subseteq Stages
    /\ NoOutput \notin Outputs
    /\ NoAssignment \notin Assignments
    /\ NoWorker \notin Workers
    /\ MaxTries \in Nat \ {0}
    /\ MaxAttempts \in Nat

VARIABLES
    journal,    \* stage-result artifacts: the output and the inputs it came from
    torn,       \* the last line of the interaction's file is incomplete
    notes,      \* whether a stage's notes are there, and another attempt would differ
    bound,      \* the assignment whose rows the execution tables hold
    registered, \* attention_worker_steps of that assignment
    rows,       \* attention_worker_claims: the claims of each stage, by attempt
    results,    \* attention_worker_results: the output and the attempt it is of
    workers,    \* the worker processes
    walk        \* what each supervisor is doing

kept == <<journal, torn, notes>>
stageVars == <<kept, bound, registered, rows, results, workers, walk>>
tables == <<bound, registered, rows, results>>

Values == Outputs \cup {NoOutput}
Inputs == [Stages -> Values]
NoInputs == [j \in Stages |-> NoOutput]

Artifact == [out : Values, from : Inputs, assignment : Assignments \cup {NoAssignment}]
NoArtifact == [out |-> NoOutput, from |-> NoInputs, assignment |-> NoAssignment]

Kinds == {"handle", "recover"}

Row == [kind : Kinds, status : {"ACTIVE", "COMPLETED", "ABANDONED", "RELEASED"},
        lapsed : BOOLEAN]

Result == [out : Values, attempt : 0 .. MaxAttempts]
NoResult == [out |-> NoOutput, attempt |-> 0]

Busy == {"spawned", "preparing", "executing", "computed", "journaled", "committed"}

Worker == [state : Busy \cup {"free", "ok", "failed"}, kind : Kinds, stage : Stages,
           assignment : Assignments \cup {NoAssignment},
           attempt : 0 .. MaxAttempts, made : Artifact]

FreeWorker == [state |-> "free", kind |-> "handle", stage |-> 1,
               assignment |-> NoAssignment, attempt |-> 0, made |-> NoArtifact]

(* The stages are walked within the call PerceptPipeline describes.         *)
StageStates == {"claiming", "claimed", "waiting", "stopping"}
CallStates == {"idle", "recording", "submitting", "binding", "registering",
               "finishing", "disposing"}

Walk == [at : StageStates \cup CallStates, kind : Kinds, stage : 1 .. LastStage + 1,
         assignment : Assignments \cup {NoAssignment},
         attempt : 0 .. MaxAttempts, worker : Workers \cup {NoWorker},
         tries : 0 .. MaxTries]

IdleWalk == [at |-> "idle", kind |-> "handle", stage |-> 1,
             assignment |-> NoAssignment, attempt |-> 0, worker |-> NoWorker,
             tries |-> 0]

StageTypeOK ==
    /\ journal \in [Stages -> Artifact]
    /\ torn \in BOOLEAN
    /\ notes \in [Stages -> {"none", "taken", "stale"}]
    /\ bound \in Assignments \cup {NoAssignment}
    /\ registered \subseteq Stages
    /\ rows \in [Stages -> Seq(Row)]
    /\ results \in [Stages -> Result]
    /\ workers \in [Workers -> Worker]
    /\ walk \in [Supervisors -> Walk]

StageInit ==
    /\ journal = [k \in Stages |-> NoArtifact]
    /\ torn = FALSE
    /\ notes = [k \in Stages |-> "none"]
    /\ bound = NoAssignment
    /\ registered = {}
    /\ rows = [k \in Stages |-> <<>>]
    /\ results = [k \in Stages |-> NoResult]
    /\ workers = [w \in Workers |-> FreeWorker]
    /\ walk = [v \in Supervisors |-> IdleWalk]

Journaled(k) == journal[k].out # NoOutput

HasResult(k) == results[k].out # NoOutput

LiveRow(row) == row.status = "ACTIVE" /\ ~row.lapsed

(* A finished process is kept until the supervisor that waits on it saw it. *)
AwaitedBy(v, w) == walk[v].at = "waiting" /\ walk[v].worker = w

Ended(w, outcome) ==
    IF \E v \in Supervisors : AwaitedBy(v, w)
    THEN [workers EXCEPT ![w].state = outcome, ![w].made = NoArtifact]
    ELSE [workers EXCEPT ![w] = FreeWorker]
-----------------------------------------------------------------------------
(* The supervisor and its launcher. *)

(* What dies while it appends to the file may leave a part of its line. *)
MayTear(appends) == torn' \in IF appends THEN {torn, TRUE} ELSE {torn}

(* The worker writes to the file in each of its states, the percept before  *)
(* its stage and errors after it included; behind its commit only the last  *)
(* stage does.                                                              *)
Appends(w) == workers[w].state = "committed" => workers[w].stage = LastStage

(* The end of a supervisor's call, by return, exception or death; a running *)
(* process goes on without it.                                              *)
Leaves(v) ==
    /\ walk' = [walk EXCEPT ![v] = IdleWalk]
    /\ workers' = IF walk[v].at = "waiting" /\ workers[walk[v].worker].state \notin Busy
                  THEN [workers EXCEPT ![walk[v].worker] = FreeWorker]
                  ELSE workers

NextStage(v) ==
    walk' = [walk EXCEPT ![v].at = "claiming", ![v].stage = walk[v].stage + 1,
                         ![v].attempt = 0, ![v].worker = NoWorker, ![v].tries = 0]

(* resume_interaction_from_artifacts passes over a stage with a result. *)
SkipStage(v) ==
    /\ walk[v].at = "claiming"
    /\ walk[v].kind = "recover"
    /\ walk[v].stage \in Stages
    /\ walk[v].assignment = bound
    /\ HasResult(walk[v].stage)
    /\ NextStage(v)
    /\ UNCHANGED <<kept, tables, workers>>

MustLaunch(v) ==
    /\ walk[v].at = "claiming"
    /\ walk[v].stage \in Stages
    /\ ~(walk[v].kind = "recover" /\ walk[v].assignment = bound /\ HasResult(walk[v].stage))

KnownStep(v) == walk[v].assignment = bound /\ walk[v].stage \in registered

(* guarded_claim_worker_step: expired leases are abandoned in any case. *)
AbandonLapsed ==
    [k \in Stages |-> [i \in DOMAIN rows[k] |->
        IF rows[k][i].status = "ACTIVE" /\ rows[k][i].lapsed
        THEN [rows[k][i] EXCEPT !.status = "ABANDONED"]
        ELSE rows[k][i]]]

(* A live lease on the assignment and a finished stage are denials. *)
NoLiveClaim == \A k \in Stages : \A i \in DOMAIN rows[k] : ~LiveRow(rows[k][i])

Claimable(v) == KnownStep(v) /\ ~HasResult(walk[v].stage) /\ NoLiveClaim

(* Of the bounded attempts one is left for the time when a process that is  *)
(* still at work has journaled the output of a stage whose other attempts   *)
(* are refused.                                                             *)
Spared(k) == IF notes[k] = "stale" /\ ~Journaled(k) THEN 1 ELSE 0

ClaimStage(v) ==
    LET k == walk[v].stage
    IN  /\ MustLaunch(v)
        /\ Claimable(v)
        /\ Len(rows[k]) + Spared(k) < MaxAttempts
        /\ rows' = [AbandonLapsed EXCEPT ![k] =
                        Append(@, [kind |-> walk[v].kind, status |-> "ACTIVE", lapsed |-> FALSE])]
        /\ walk' = [walk EXCEPT ![v].at = "claimed", ![v].attempt = Len(rows[k]) + 1]
        /\ UNCHANGED <<kept, bound, registered, results, workers>>

(* GuardedWorkerLauncher.claim: pressure on the host is observed again a    *)
(* few times, then the denial is raised.                                    *)
DenyForPressure(v) ==
    /\ MustLaunch(v)
    /\ Claimable(v)
    /\ rows' = AbandonLapsed
    /\ \/ /\ walk[v].tries + 1 < MaxTries
          /\ walk' = [walk EXCEPT ![v].tries = @ + 1]
          /\ UNCHANGED workers
       \/ walk[v].tries + 1 >= MaxTries /\ Leaves(v)
    /\ UNCHANGED <<kept, bound, registered, results>>

(* Every other denial, an unknown step included, is raised at once. *)
DenyForGood(v) ==
    /\ MustLaunch(v)
    /\ ~Claimable(v)
    /\ rows' = IF KnownStep(v) THEN AbandonLapsed ELSE rows
    /\ Leaves(v)
    /\ UNCHANGED <<kept, bound, registered, results>>

(* Processes are alike, so a new one takes the same free place each time.   *)
Spawn(v, w) ==
    /\ walk[v].at = "claimed"
    /\ workers[w].state = "free"
    /\ w = CHOOSE place \in Workers : workers[place].state = "free"
    /\ workers' = [workers EXCEPT ![w] =
                      [state |-> "spawned", kind |-> walk[v].kind, stage |-> walk[v].stage,
                       assignment |-> walk[v].assignment, attempt |-> walk[v].attempt,
                       made |-> NoArtifact]]
    /\ walk' = [walk EXCEPT ![v].at = "waiting", ![v].worker = w]
    /\ UNCHANGED <<kept, tables>>

(* The row of a claim, found by its identity and the name of its worker. *)
OwnRow(assignment, kind, k, i) ==
    assignment = bound /\ i \in DOMAIN rows[k] /\ rows[k][i].kind = kind

(* release_worker_claim: an ACTIVE claim is released, lapsed or not. *)
Release(assignment, kind, k, i) ==
    IF OwnRow(assignment, kind, k, i) /\ rows[k][i].status = "ACTIVE"
    THEN [rows EXCEPT ![k][i].status = "RELEASED"]
    ELSE rows

ReleaseOf(p) == Release(p.assignment, p.kind, p.stage, p.attempt)

(* The process does not start: the claim is released, unless the release    *)
(* fails as well.                                                           *)
SpawnFails(v) ==
    /\ walk[v].at = "claimed"
    /\ rows' \in {ReleaseOf(walk[v]), rows}
    /\ Leaves(v)
    /\ UNCHANGED <<kept, bound, registered, results>>

(* The process ended: the next stage after exit 0, an exception otherwise. *)
Reap(v) ==
    LET w == walk[v].worker
    IN  /\ walk[v].at = "waiting"
        /\ \/ /\ workers[w].state = "ok"
              /\ NextStage(v)
              /\ workers' = [workers EXCEPT ![w] = FreeWorker]
           \/ workers[w].state = "failed" /\ Leaves(v)
        /\ UNCHANGED <<kept, tables>>

(* The declared lifetime is over: the process is killed, whatever it has    *)
(* done by then ...                                                         *)
TimeOut(v) ==
    /\ walk[v].at = "waiting"
    /\ workers[walk[v].worker].state \in Busy
    /\ workers' = [workers EXCEPT ![walk[v].worker] = FreeWorker]
    /\ walk' = [walk EXCEPT ![v].at = "stopping", ![v].worker = NoWorker]
    /\ MayTear(Appends(walk[v].worker))
    /\ UNCHANGED <<journal, notes, tables>>

(* ... and terminate_owned_worker releases its claim; the recovery          *)
(* supervisor leaves the lease to run out.                                  *)
StopWorker(v) ==
    /\ walk[v].at = "stopping"
    /\ rows' = IF walk[v].kind = "handle" THEN ReleaseOf(walk[v]) ELSE rows
    /\ Leaves(v)
    /\ UNCHANGED <<kept, bound, registered, results>>

SupervisorDies(v) ==
    /\ walk[v].at # "idle"
    /\ Leaves(v)
    /\ MayTear(walk[v].at \in {"recording", "disposing"})
    /\ UNCHANGED <<journal, notes, tables>>
-----------------------------------------------------------------------------
(* The worker process w. *)

OwnsRow(w) ==
    OwnRow(workers[w].assignment, workers[w].kind, workers[w].stage, workers[w].attempt)

HoldsLease(w) == OwnsRow(w) /\ LiveRow(rows[workers[w].stage][workers[w].attempt])

Becomes(w, state, made) ==
    workers' = [workers EXCEPT ![w].state = state, ![w].made = made]

(* The error path journals the error under the identity of the claim,       *)
(* records an event and releases the claim if it is still ACTIVE; when one  *)
(* of these fails, because the identity is there with another error or the  *)
(* file is torn, the claim is left to its lease.                            *)
AfterError(w) == IF torn THEN {rows} ELSE {ReleaseOf(workers[w]), rows}

FailWorker(w) ==
    /\ rows' \in AfterError(w)
    /\ workers' = Ended(w, "failed")
    /\ UNCHANGED <<kept, bound, registered, results, walk>>

(* The results a stage works on, as the database has them now. *)
InputsOf(k) == [j \in Stages |-> IF j \in Needs[k] THEN results[j].out ELSE NoOutput]

Started(p) ==
    [out |-> NoOutput, from |-> InputsOf(p.stage), assignment |-> p.assignment]

(* load_worker_claim_envelope, then load_stage_result_artifact: a journaled *)
(* output is taken over, otherwise the stage is executed on the results of  *)
(* the stages before it.                                                    *)
Rehydrate(w) ==
    LET k == workers[w].stage
    IN  /\ workers[w].state = "spawned"
        /\ HoldsLease(w)
        /\ ~torn
        /\ IF Journaled(k)
           THEN Becomes(w, "journaled", journal[k])
           ELSE Becomes(w, IF k \in Noting THEN "preparing" ELSE "executing",
                        Started(workers[w]))
        /\ UNCHANGED <<kept, tables, walk>>

(* A claim that is not a live one of this worker stops it before it begins, *)
(* and so does a torn file: the percept artifact is looked for outside the  *)
(* error path, which leaves the claim to its lease.                         *)
RefuseEnvelope(w) ==
    /\ workers[w].state = "spawned"
    /\ ~HoldsLease(w) \/ torn
    /\ workers' = Ended(w, "failed")
    /\ UNCHANGED <<kept, tables, walk>>

HasInputs(w) == \A j \in Needs[workers[w].stage] : workers[w].made.from[j] # NoOutput

(* put_record and record_event under the identity of the interaction and    *)
(* the stage: notes that are there already must be the same ...             *)
TakeNotes(w) ==
    /\ workers[w].state = "preparing"
    /\ HasInputs(w)
    /\ notes' = [notes EXCEPT ![workers[w].stage] = "taken"]
    /\ Becomes(w, "executing", workers[w].made)
    /\ UNCHANGED <<journal, torn, tables, walk>>

(* ... and are refused once self memory, working state or the numbers of    *)
(* the conversation have moved on since an earlier attempt.                 *)
NotesConflict(w) ==
    /\ workers[w].state = "preparing"
    /\ notes[workers[w].stage] # "none"
    /\ notes' = [notes EXCEPT ![workers[w].stage] = "stale"]
    /\ rows' \in AfterError(w)
    /\ workers' = Ended(w, "failed")
    /\ UNCHANGED <<journal, torn, bound, registered, results, walk>>

Execute(w, out) ==
    /\ workers[w].state = "executing"
    /\ HasInputs(w)
    /\ Becomes(w, "computed", [workers[w].made EXCEPT !.out = out])
    /\ UNCHANGED <<journal, notes, tables, walk>>

(* A model call that fails, or a result the stage needs and does not find. *)
ExecuteFails(w) == workers[w].state \in {"preparing", "executing"} /\ FailWorker(w)

WriteWithoutConflictTest(w) ==
    /\ workers[w].state = "computed"
    /\ journal' = [journal EXCEPT ![workers[w].stage] = workers[w].made]
    /\ Becomes(w, "journaled", workers[w].made)
    /\ UNCHANGED <<torn, notes, tables, walk>>

(* _check_artifact_retry: the content and the assignment are compared. *)
SameArtifact(w) ==
    /\ journal[workers[w].stage].out = workers[w].made.out
    /\ journal[workers[w].stage].assignment = workers[w].made.assignment

(* write_stage_result_artifact under the lock of the stream: the first      *)
(* output stays, the same output again is a retry, another one is refused,  *)
(* and a torn file refuses everything.                                      *)
WriteArtifact(w) ==
    LET k == workers[w].stage
    IN  /\ workers[w].state = "computed"
        /\ ~torn
        /\ Journaled(k) => SameArtifact(w)
        /\ journal' = IF Journaled(k) THEN journal
                      ELSE [journal EXCEPT ![k] = workers[w].made]
        /\ Becomes(w, "journaled", journal'[k])
        /\ UNCHANGED <<torn, notes, tables, walk>>

WriteConflicts(w) ==
    /\ workers[w].state = "computed"
    /\ torn \/ (Journaled(workers[w].stage) /\ ~SameArtifact(w))
    /\ FailWorker(w)

CommitBeforeJournal(w) ==
    LET k == workers[w].stage
    IN  /\ workers[w].state \in {"computed", "journaled"}
        /\ HoldsLease(w) /\ ~HasResult(k)
        /\ results' = [results EXCEPT ![k] = [out |-> workers[w].made.out,
                                              attempt |-> workers[w].attempt]]
        /\ rows' = [rows EXCEPT ![k][workers[w].attempt].status = "COMPLETED"]
        /\ workers' = [workers EXCEPT ![w].state = "committed"]
        /\ UNCHANGED <<kept, bound, registered, walk>>

(* complete_worker_claim: the result and the end of the claim in one        *)
(* transaction, refused once the lease is over or the claim closed ...      *)
CommitResult(w) ==
    LET k == workers[w].stage
    IN  /\ workers[w].state = "journaled"
        /\ HoldsLease(w) /\ ~HasResult(k)
        /\ results' = [results EXCEPT ![k] = [out |-> workers[w].made.out,
                                              attempt |-> workers[w].attempt]]
        /\ rows' = [rows EXCEPT ![k][workers[w].attempt].status = "COMPLETED"]
        /\ workers' = [workers EXCEPT ![w].state = "committed"]
        /\ UNCHANGED <<kept, bound, registered, walk>>

(* ... the same result of the same claim again is a retry ...               *)
CommittedAlready(w) ==
    /\ OwnsRow(w)
    /\ results[workers[w].stage] = [out |-> workers[w].made.out,
                                    attempt |-> workers[w].attempt]

RepeatCommit(w) ==
    /\ workers[w].state = "journaled"
    /\ CommittedAlready(w)
    /\ workers' = [workers EXCEPT ![w].state = "committed"]
    /\ UNCHANGED <<kept, tables, walk>>

(* ... and an expired lease is recorded as abandoned with the refusal; a    *)
(* claim that is still active is left to the error path.                    *)
CommitRefused(w) ==
    LET k == workers[w].stage
        i == workers[w].attempt
    IN  /\ workers[w].state = "journaled"
        /\ ~CommittedAlready(w)
        /\ ~HoldsLease(w) \/ HasResult(k)
        /\ rows' \in IF OwnsRow(w) /\ rows[k][i].status = "ACTIVE" /\ ~HasResult(k)
                     THEN {[rows EXCEPT ![k][i].status = "ABANDONED"]}
                     ELSE AfterError(w)
        /\ workers' = Ended(w, "failed")
        /\ UNCHANGED <<kept, bound, registered, results, walk>>

ExitOk(w) ==
    /\ workers[w].state = "committed"
    /\ workers' = Ended(w, "ok")
    /\ UNCHANGED <<kept, tables, walk>>

WorkerDies(w) ==
    /\ workers[w].state \in Busy
    /\ workers' = Ended(w, "failed")
    /\ MayTear(Appends(w))
    /\ UNCHANGED <<journal, notes, tables, walk>>
-----------------------------------------------------------------------------
(* The clock reaches the end of a lease. *)
Lapse(k, i) ==
    /\ i \in DOMAIN rows[k]
    /\ LiveRow(rows[k][i])
    /\ rows' = [rows EXCEPT ![k][i].lapsed = TRUE]
    /\ UNCHANGED <<kept, bound, registered, results, workers, walk>>

(* reset_chat_execution_state: the rows of the scheduler's namespace go in  *)
(* one transaction; processes that are running are not told.                *)
ResetTables ==
    /\ bound' = NoAssignment
    /\ registered' = {}
    /\ rows' = [k \in Stages |-> <<>>]
    /\ results' = [k \in Stages |-> NoResult]
=============================================================================
