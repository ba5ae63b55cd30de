---------------------------- MODULE SituationFlow ----------------------------
(***************************************************************************)
(* Cognition about situations: the dispatcher of situation_runtime.py, the  *)
(* stages of situation_worker.py and the outcomes of registered actions,    *)
(* which come back as percepts through SituationIntake.                     *)
(*                                                                          *)
(* A tick ranks one page of candidates, saves the scheduler and runs the    *)
(* tasks that have an assignment, one after the other.  The worker protocol *)
(* of a stage is StageRun; here a stage either leaves its durable result or *)
(* ends the tick.                                                           *)
(***************************************************************************)
EXTENDS SituationIntake, FiniteSetsExt

CONSTANTS
    Ticks,          \* processes that run a tick
    Worlds,         \* which deliveries arrive and which ticks run together
    PageSize,       \* HEAD_PAGE_SIZE
    MaxFaults       \* bound: deaths, failed stages and late outcomes

ASSUME FlowAssumption ==
    /\ \A w \in Worlds : w.deliveries \subseteq Deliveries /\ w.ticks \subseteq Ticks
    /\ PageSize \in Nat \ {0}
    /\ MaxFaults \in Nat

VARIABLES
    task,       \* the status of each task in the scheduler, "none" without a row
    about,      \* the percept of each situation_task record
    stage,      \* how many stages of each task have a durable result
    active,     \* situation_active: a snapshot, 0 without a record
    progress,   \* situation_progress: the snapshots recorded, in order
    cursor,     \* candidate_cursor, 0 at the beginning
    late,       \* outcomes observed outside the validity of their expectation
    tick,       \* what each tick is doing
    world,      \* the surroundings of this behaviour, which do not change
    faults

flowVars == <<task, about, stage, active, progress, cursor, late, tick, world, faults>>
vars == <<intakeVars, flowVars>>

(* MEMORY and TRIAGE are one stage here, and so are the stages behind       *)
(* EXECUTE, which read results and end in PERSIST.                          *)
Execute == 2
Persist == 3

NoTask == <<0, 0>>
IdleTick == [at |-> "idle", page |-> {}, new |-> {}, todo |-> {}, task |-> NoTask, stale |-> FALSE]

Init ==
    /\ IntakeInit
    /\ task = [k \in Tasks |-> "none"]
    /\ about = [k \in Tasks |-> NoPercept]
    /\ stage = [k \in Tasks |-> 0]
    /\ active = [s \in Situations |-> 0]
    /\ progress = [s \in Situations |-> <<>>]
    /\ cursor = 0
    /\ late = {}
    /\ tick = [t \in Ticks |-> IdleTick]
    /\ world \in Worlds
    /\ faults = 0

TypeOK ==
    /\ IntakeTypeOK
    /\ \A k \in Tasks :
          /\ task[k] \in {"none", "QUEUED", "ADMITTED", "COMPLETED"}
          /\ stage[k] \in 0 .. Persist
          /\ task[k] = "COMPLETED" => stage[k] = Persist
          /\ stage[k] > 0 => about[k] \in Percepts
    /\ \A s \in Situations : active[s] \in 0 .. Snapshots(s)
    /\ cursor \in Situations \cup {0}
    /\ late \subseteq Outcomes
    /\ \A t \in Ticks :
          /\ tick[t].at \in {"idle", "page", "saved", "running", "stage", "executing",
                             "completed"}
          /\ tick[t].task \in Tasks \cup {NoTask}
          /\ tick[t].new \subseteq Tasks
    /\ faults \in 0 .. MaxFaults

Goes(t, at) == tick' = [tick EXCEPT ![t].at = at]
Aborts(t) == tick' = [tick EXCEPT ![t] = IdleTick]
-----------------------------------------------------------------------------
(* submit_situation_page. *)

Page ==
    LET rows == {s \in Situations : candidate[s] # <<>> /\ s > cursor}
    IN  {s \in rows : Cardinality({o \in rows : o < s}) < PageSize}

DispatchLocked == \E t \in Ticks : tick[t].at \in {"page", "saved"}

Poll(t) ==
    /\ t \in world.ticks
    /\ tick[t].at = "idle"
    /\ ~DispatchLocked
    /\ tick' = [tick EXCEPT ![t] = [IdleTick EXCEPT !.at = "page", !.page = Page, !.todo = Page]]
    /\ UNCHANGED <<intakeVars, task, about, stage, active, progress, cursor, late, world, faults>>

Recorded(s, n) == \E i \in DOMAIN progress[s] : progress[s][i] = n
Progress(s) == IF progress[s] = <<>> THEN 0 ELSE Last(progress[s])

(* put_record with the task as its revision. *)
WithProgress(s, n) ==
    IF Recorded(s, n) THEN progress ELSE [progress EXCEPT ![s] = Append(@, n)]

IsActive(s) == active[s] # 0 /\ task[<<s, active[s]>>] # "none"

(* The snapshot of the candidate is done, or the task of an earlier one is  *)
(* still at work.                                                           *)
PassOver(t, s) ==
    /\ tick[t].at = "page" /\ s \in tick[t].todo
    /\ \/ Progress(s) = Last(candidate[s]).snapshot
       \/ IsActive(s) /\ task[<<s, active[s]>>] # "COMPLETED"
    /\ tick' = [tick EXCEPT ![t].todo = @ \ {s}]
    /\ UNCHANGED <<intakeVars, task, about, stage, active, progress, cursor, late, world, faults>>

ForgetCompleted(t, s) ==
    LET k == <<s, Last(candidate[s]).snapshot>>
    IN  /\ tick[t].at = "page" /\ s \in tick[t].todo
        /\ Progress(s) # k[2]
        /\ IsActive(s) => task[<<s, active[s]>>] = "COMPLETED"
        /\ active' = [active EXCEPT ![s] = k[2]]
        /\ about' = [about EXCEPT ![k] = Last(candidate[s]).percept]
        /\ tick' = [tick EXCEPT ![t].todo = @ \ {s}, ![t].new = @ \cup {k}]
        /\ UNCHANGED <<intakeVars, task, stage, progress, cursor, late, world, faults>>

SubmitBesides(t, s) ==
    LET k == <<s, Last(candidate[s]).snapshot>>
    IN  /\ tick[t].at = "page" /\ s \in tick[t].todo
        /\ Progress(s) # k[2]
        /\ active' = [active EXCEPT ![s] = k[2]]
        /\ about' = [about EXCEPT ![k] = Last(candidate[s]).percept]
        /\ tick' = [tick EXCEPT ![t].todo = @ \ {s}, ![t].new = @ \cup {k}]
        /\ UNCHANGED <<intakeVars, task, stage, progress, cursor, late, world, faults>>

(* The bookkeeping of a completed task is finished before its situation is  *)
(* handed to a task of a newer snapshot.                                    *)
Submit(t, s) ==
    LET k == <<s, Last(candidate[s]).snapshot>>
        repair == IsActive(s) /\ task[<<s, active[s]>>] = "COMPLETED"
    IN  /\ tick[t].at = "page" /\ s \in tick[t].todo
        /\ Progress(s) # k[2]
        /\ ~IsActive(s) \/ repair
        /\ progress' = IF repair THEN WithProgress(s, active[s]) ELSE progress
        /\ IF repair /\ active[s] = k[2]
           THEN /\ tick' = [tick EXCEPT ![t].todo = @ \ {s}]
                /\ UNCHANGED <<active, about>>
           ELSE /\ active' = [active EXCEPT ![s] = k[2]]
                /\ about' = IF about[k] = NoPercept
                            THEN [about EXCEPT ![k] = Last(candidate[s]).percept] ELSE about
                /\ tick' = [tick EXCEPT ![t].todo = @ \ {s}, ![t].new = @ \cup {k}]
        /\ UNCHANGED <<intakeVars, task, stage, cursor, late, world, faults>>

(* The new tasks exist once the scheduler is saved; which of the waiting    *)
(* ones are admitted is the choice of the epoch, and one always fits an     *)
(* empty host.                                                              *)
Waiting(t) == {k \in Tasks : task[k] = "QUEUED" \/ (k \in tick[t].new /\ task[k] = "none")}

EpochAdmits(t, admitted) ==
    /\ admitted \subseteq Waiting(t)
    /\ \/ admitted # {}
       \/ Waiting(t) = {}
       \/ \E k \in Tasks : task[k] = "ADMITTED"

Others(t, f) == [u \in Ticks |-> IF u # t /\ tick[u].at = "page"
                                 THEN [tick[u] EXCEPT !.stale = TRUE] ELSE f[u]]

(* save_scheduler refuses a scheduler that was loaded before another save.  *)
SavePage(t) ==
    /\ tick[t].at = "page" /\ tick[t].todo = {}
    /\ IF tick[t].stale
       THEN Aborts(t) /\ UNCHANGED task
       ELSE /\ \E admitted \in SUBSET Waiting(t) :
                  /\ EpochAdmits(t, admitted)
                  /\ task' = [k \in Tasks |->
                                IF k \in admitted THEN "ADMITTED"
                                ELSE IF k \in Waiting(t) THEN "QUEUED" ELSE task[k]]
            /\ Goes(t, "saved")
    /\ UNCHANGED <<intakeVars, about, stage, active, progress, cursor, late, world, faults>>

AdvanceAlways(t) ==
    /\ tick[t].at = "saved"
    /\ cursor' = IF tick[t].page = {} THEN cursor ELSE Max(tick[t].page)
    /\ tick' = [tick EXCEPT ![t].at = "running",
                            ![t].todo = {k \in Tasks : task[k] = "ADMITTED"}]
    /\ UNCHANGED <<intakeVars, task, about, stage, active, progress, late, world, faults>>

(* The cursor moves behind the page, and behind an empty page to the        *)
(* beginning.  drain_situations then takes the tasks with assignments.      *)
AdvanceCursor(t) ==
    /\ tick[t].at = "saved"
    /\ cursor' = IF tick[t].page = {} THEN 0 ELSE Max(tick[t].page)
    /\ tick' = [tick EXCEPT ![t].at = "running",
                            ![t].todo = {k \in Tasks : task[k] = "ADMITTED"}]
    /\ UNCHANGED <<intakeVars, task, about, stage, active, progress, late, world, faults>>
-----------------------------------------------------------------------------
(* run_situation_task. *)

(* A task another tick has completed since only gets its bookkeeping. *)
Take(t, k) ==
    /\ tick[t].at = "running" /\ k \in tick[t].todo
    /\ tick' = [tick EXCEPT ![t].todo = @ \ {k}, ![t].task = k,
                            ![t].at = IF task[k] = "COMPLETED" THEN "completed" ELSE "stage"]
    /\ UNCHANGED <<intakeVars, task, about, stage, active, progress, cursor, late, world, faults>>

Claimed(k) == \E t \in Ticks : tick[t].at = "executing" /\ tick[t].task = k

(* The stage is claimed and its worker runs, unless all results are there.  *)
(* A claim another tick's worker holds is denied, which ends this tick.     *)
Launch(t) ==
    LET k == tick[t].task
    IN  /\ tick[t].at = "stage"
        /\ stage[k] < Persist
        /\ IF Claimed(k) THEN Aborts(t) ELSE Goes(t, "executing")
        /\ UNCHANGED <<intakeVars, task, about, stage, active, progress, cursor, late, world, faults>>

(* deterministic_triage: an outcome that met its expectation needs nothing; *)
(* otherwise a prediction error calls for a task.                           *)
TaskRequired(k) ==
    /\ about[k] \in Outcomes => about[k] \in late
    /\ PredictionError(k[1], k[2])

(* EXECUTE of a task that is required records the action, and ends when the *)
(* intake of its outcome has ended.                                         *)
Executed(k) == ~TaskRequired(k) \/ k \in receipted

ObserveOutcome(t) ==
    LET k == tick[t].task
    IN  /\ tick[t].at = "executing" /\ stage[k] + 1 = Execute
        /\ TaskRequired(k)
        /\ Deliver(k)
        /\ UNCHANGED flowVars

(* The outcome is recorded more than an hour after the task was created, or *)
(* before it by another clock: the comparison has no magnitude.             *)
ObserveLate(t) ==
    LET k == tick[t].task
    IN  /\ tick[t].at = "executing" /\ stage[k] + 1 = Execute
        /\ TaskRequired(k)
        /\ k \notin late /\ \A s \in Situations : ingest[s][k] = 0
        /\ faults < MaxFaults /\ faults' = faults + 1
        /\ late' = late \cup {k}
        /\ Deliver(k)
        /\ UNCHANGED <<task, about, stage, active, progress, cursor, tick, world>>

StageDone(t) ==
    LET k == tick[t].task
    IN  /\ tick[t].at = "executing"
        /\ stage[k] + 1 = Execute => Executed(k)
        /\ stage' = [stage EXCEPT ![k] = @ + 1]
        /\ Goes(t, "stage")
        /\ UNCHANGED <<intakeVars, task, about, active, progress, cursor, late, world, faults>>

CompleteOnExit(t) ==
    LET k == tick[t].task
    IN  /\ tick[t].at = "stage"
        /\ stage[k] >= Execute
        /\ task' = [task EXCEPT ![k] = "COMPLETED"]
        /\ tick' = Others(t, [tick EXCEPT ![t].at = "completed"])
        /\ UNCHANGED <<intakeVars, about, stage, active, progress, cursor, late, world, faults>>

(* _finalize_situation_artifacts over all results, then complete_task and   *)
(* the save, which leaves a page loaded before it stale.                    *)
CompleteTask(t) ==
    LET k == tick[t].task
    IN  /\ tick[t].at = "stage"
        /\ stage[k] = Persist
        /\ task' = [task EXCEPT ![k] = "COMPLETED"]
        /\ tick' = Others(t, [tick EXCEPT ![t].at = "completed"])
        /\ UNCHANGED <<intakeVars, about, stage, active, progress, cursor, late, world, faults>>

RecordAgain(t) ==
    LET k == tick[t].task
    IN  /\ tick[t].at = "completed"
        /\ progress' = [progress EXCEPT ![k[1]] = Append(@, k[2])]
        /\ tick' = [tick EXCEPT ![t].at = "running", ![t].task = NoTask]
        /\ UNCHANGED <<intakeVars, task, about, stage, active, cursor, late, world, faults>>

RecordProgress(t) ==
    LET k == tick[t].task
    IN  /\ tick[t].at = "completed"
        /\ progress' = WithProgress(k[1], k[2])
        /\ tick' = [tick EXCEPT ![t].at = "running", ![t].task = NoTask]
        /\ UNCHANGED <<intakeVars, task, about, stage, active, cursor, late, world, faults>>

EndTick(t) ==
    /\ tick[t].at = "running" /\ tick[t].todo = {}
    /\ Aborts(t)
    /\ UNCHANGED <<intakeVars, task, about, stage, active, progress, cursor, late, world, faults>>

(* An exception, a timeout of a stage or the death of the process ends the  *)
(* tick between two records; with it ends the intake its worker is in.      *)
TickFails(t) ==
    /\ tick[t].at # "idle"
    /\ faults < MaxFaults /\ faults' = faults + 1
    /\ Aborts(t)
    /\ intake' = IF tick[t].at = "executing"
                 THEN [intake EXCEPT ![tick[t].task] = IdleIntake] ELSE intake
    /\ UNCHANGED <<situation, ingest, candidate, receipted, task, about, stage, active,
                   progress, cursor, late, world>>

DeliveryDies(d) ==
    /\ faults < MaxFaults /\ faults' = faults + 1
    /\ IntakeDies(d)
    /\ UNCHANGED <<task, about, stage, active, progress, cursor, late, tick, world>>
-----------------------------------------------------------------------------
Arrive(d) == d \in world.deliveries /\ Deliver(d) /\ UNCHANGED flowVars

TickStep(t) ==
    \/ \E s \in Situations : PassOver(t, s) \/ Submit(t, s)
    \/ SavePage(t) \/ AdvanceCursor(t)
    \/ \E k \in Tasks : Take(t, k)
    \/ Launch(t) \/ ObserveOutcome(t) \/ StageDone(t)
    \/ CompleteTask(t) \/ RecordProgress(t) \/ EndTick(t)

Next ==
    \/ \E d \in Deliveries : Arrive(d)
    \/ \E p \in Percepts : IntakeStep(p) /\ UNCHANGED flowVars
    \/ \E t \in Ticks : Poll(t) \/ TickStep(t) \/ ObserveLate(t) \/ TickFails(t)
    \/ \E d \in Deliveries : DeliveryDies(d)

(* Adapters deliver again what has no receipt, calls run to their end, and  *)
(* a tick is started again and again.                                       *)
Fairness ==
    /\ \A d \in Deliveries : WF_vars(Arrive(d))
    /\ WF_vars(\E p \in Percepts : IntakeStep(p) /\ UNCHANGED flowVars)
    /\ \A t \in Ticks : WF_vars(TickStep(t)) /\ SF_vars(Poll(t))

Spec == Init /\ [][Next]_vars /\ Fairness
-----------------------------------------------------------------------------
(* "A crash after scheduler completion but before the progress cursor       *)
(* commits is repaired [...] before admitting a newer snapshot"             *)
(* (SITUATION_COGNITION.md): no task of a newer snapshot is in the          *)
(* scheduler before the progress of a completed one is recorded.            *)
RepairedBeforeNewer ==
    \A k, o \in Tasks :
        (/\ k[1] = o[1] /\ k[2] < o[2]
         /\ task[k] = "COMPLETED" /\ task[o] # "none") => Recorded(k[1], k[2])

(* One situation has at most one task at work, so cognition about it is not *)
(* split between two snapshots, with two ticks and any crash.               *)
OneTaskAtWork ==
    \A k, o \in Tasks :
        (/\ k[1] = o[1]
         /\ task[k] \in {"QUEUED", "ADMITTED"}
         /\ task[o] \in {"QUEUED", "ADMITTED"}) => k = o

(* Progress of a situation only goes to newer snapshots.                    *)
ProgressAdvances ==
    \A s \in Situations : \A i, j \in DOMAIN progress[s] : i < j => progress[s][i] < progress[s][j]

(* The latest snapshot of every situation is dealt with in the end: crashes *)
(* lose no situation, the cursor reaches every page, and the outcomes of    *)
(* actions do not call for actions without end.                             *)
EverySituationSettles ==
    \A s \in Situations : <>[](Progress(s) = Snapshots(s))

(* "Resume all post-admission steps if interrupted" (percept_intake.py):    *)
(* a delivery that is repeated gets its receipt.                            *)
DeliveryCompletes == \A d \in Deliveries : <>(d \in world.deliveries => d \in receipted)

(* What the dispatcher sees never goes back: the candidate follows the       *)
(* situation and the observed state is the newest, in every order of         *)
(* delivery, retry and death (percept_intake.py, situations.py).             *)
IntakeNeverGoesBack == CandidateIsLatest /\ CandidatesAdvance /\ NewestObservationStands

(* A situation's snapshots are worked off one at a time: one task at work,   *)
(* its progress recorded before a newer snapshot's task, and progress never  *)
(* moves back (submit_situation_page, _record_situation_progress).           *)
OneSnapshotAtATime == TypeOK /\ RepairedBeforeNewer /\ OneTaskAtWork /\ ProgressAdvances
=============================================================================
