----------------------------- MODULE FocusMode -----------------------------
(***************************************************************************)
(* The single-focus mode of the attention scheduler (attention.py): one     *)
(* task runs, the others queue, and a task that waited long enough is       *)
(* promoted.  It is what the scheduler does before its first epoch.         *)
(*                                                                          *)
(* Tasks are numbered by (deadline, created_seq), the last keys of the      *)
(* queue's order.  A queued task's enqueued_cycle is kept as the number of  *)
(* cycles it has waited, up to the number that makes it due.  A recurring   *)
(* task stands for an endless supply of equal ones: the next is submitted   *)
(* when the last is finished.                                               *)
(***************************************************************************)
EXTENDS Naturals, FiniteSets, SequencesExt, OrderedLists

CONSTANTS
    LastTask,       \* tasks are 1 .. LastTask
    Base,           \* [tasks -> priority of their criticality, lower is more urgent]
    PromotedTo,     \* [tasks -> guaranteed_priority]
    WaitLimit,      \* [tasks -> max_wait_cycles]
    Interruption,   \* [tasks -> interruption policy]
    After,          \* [tasks -> the tasks they depend on]
    Asks,           \* [tasks -> units of the one resource class]
    Endless,        \* tasks of which there is an endless supply
    Capacities      \* admissible capacities the resource may be configured with

Work == 1 .. LastTask
Nobody == 0

ASSUME FocusAssumption ==
    /\ LastTask \in Nat
    /\ {Base, PromotedTo, WaitLimit, Asks} \subseteq [Work -> Nat]
    /\ Interruption \in [Work -> {"PREEMPTIBLE", "CHECKPOINT_ONLY", "ATOMIC"}]
    /\ After \in [Work -> SUBSET Work]
    /\ Endless \subseteq Work /\ Capacities \subseteq Nat
    /\ \A t \in Work : After[t] \cap Endless = {}

VARIABLES
    status,     \* status of each task
    held,       \* active_task_id
    heldFor,    \* pending_preemption_task_id
    wait,       \* cycles each task has waited
    reserved,   \* admitted_task_ids, with their reservations
    capacity    \* configured capacity of the resource

focusVars == <<status, held, heldFor, wait, reserved, capacity>>

FocusInit ==
    /\ status = [t \in Work |-> "NEW"]
    /\ held = Nobody
    /\ heldFor = Nobody
    /\ wait = [t \in Work |-> 0]
    /\ reserved = {}
    /\ capacity \in Capacities
-----------------------------------------------------------------------------
(* The attention order, for given waiting times. *)

(* A mutant of IsDue: the guarantees are never due. *)
NeverDue(w, t) == FALSE

IsDue(w, t) == w[t] >= WaitLimit[t]

Effective(w, t) ==
    IF status[t] = "QUEUED" /\ IsDue(w, t) THEN Min({Base[t], PromotedTo[t]}) ELSE Base[t]

Outranks(w, t, active) == Effective(w, t) < Base[active]

(* _queue_key, without deadlines. *)
Earlier(w, t, u) ==
    \/ Effective(w, t) < Effective(w, u)
    \/ /\ Effective(w, t) = Effective(w, u)
       /\ IF IsDue(w, t) # IsDue(w, u) THEN IsDue(w, t) ELSE t < u

Waiting == {t \in Work : status[t] = "QUEUED" /\ \A d \in After[t] : status[d] = "COMPLETED"}

(* _ranked_queued_task_ids: those whose contract the resource could meet. *)
Runnable == {t \in Waiting : Asks[t] <= capacity}

BestOf(w) ==
    IF Runnable = {} THEN Nobody
    ELSE CHOOSE t \in Runnable : \A u \in Runnable \ {t} : Earlier(w, t, u)

(* advance_cycle *)
Longer == [t \in Work |-> IF status[t] = "QUEUED" THEN Min({wait[t] + 1, WaitLimit[t]}) ELSE 0]
-----------------------------------------------------------------------------
(* submit.  Every change makes a reservation-only admission stale. *)
SubmitTask(t) ==
    /\ \/ status[t] = "NEW"
       \/ t \in Endless /\ status[t] \in {"COMPLETED", "FAILED"}
    /\ status' = [status EXCEPT ![t] = "QUEUED"]
    /\ wait' = [wait EXCEPT ![t] = 0]
    /\ reserved' = {}
    /\ UNCHANGED <<held, heldFor, capacity>>

(* A mutant of StartTask: the old admission stays. *)
StartWithOldAdmission(t, yielding) ==
    /\ status' = [u \in Work |->
                    IF u = t THEN "RUNNING" ELSE IF u = yielding THEN "QUEUED" ELSE status[u]]
    /\ wait' = [Longer EXCEPT ![t] = 0]
    /\ held' = t
    /\ heldFor' = Nobody
    /\ UNCHANGED <<reserved, capacity>>

(* _start, after _requeue_active where a task yields. *)
StartTask(t, yielding) ==
    /\ status' = [u \in Work |->
                    IF u = t THEN "RUNNING" ELSE IF u = yielding THEN "QUEUED" ELSE status[u]]
    /\ wait' = [Longer EXCEPT ![t] = 0]
    /\ held' = t
    /\ heldFor' = Nobody
    /\ reserved' = {}
    /\ UNCHANGED capacity

GoOn(pending) ==
    /\ wait' = Longer
    /\ heldFor' = pending
    /\ reserved' = {}
    /\ UNCHANGED <<status, held, capacity>>

(* reconcile_focus: a new cycle, and then whoever should have the focus. *)
ReconcileFocus ==
    LET best == BestOf(Longer)
        outranked == held # Nobody /\ best # Nobody /\ Outranks(Longer, best, held)
    IN  \/ held = Nobody /\ best # Nobody /\ StartTask(best, Nobody)
        \/ held = Nobody /\ best = Nobody /\ GoOn(heldFor)
        \/ held # Nobody /\ ~outranked /\ GoOn(heldFor)
        \/ outranked /\ Interruption[held] = "ATOMIC" /\ GoOn(heldFor)
        \/ outranked /\ Interruption[held] = "CHECKPOINT_ONLY" /\ GoOn(best)
        \/ outranked /\ Interruption[held] = "PREEMPTIBLE" /\ StartTask(best, held)

(* checkpoint_active: a safe boundary of the running task. *)
CheckpointActive ==
    LET best == BestOf(Longer)
        outranked == best # Nobody /\ Outranks(Longer, best, held)
    IN  /\ held # Nobody
        /\ \/ Interruption[held] = "ATOMIC" /\ GoOn(heldFor)
           \/ Interruption[held] # "ATOMIC" /\ ~outranked /\ GoOn(Nobody)
           \/ Interruption[held] # "ATOMIC" /\ outranked /\ StartTask(best, held)

(* complete_active and fail_active. *)
EndActive(final) ==
    /\ held # Nobody
    /\ status' = [status EXCEPT ![held] = final]
    /\ held' = Nobody
    /\ heldFor' = Nobody
    /\ reserved' = {}
    /\ UNCHANGED <<wait, capacity>>

(* reconcile_resource_admission: the running task first, then the queue in   *)
(* its order, each task whole or not at all.                                 *)
UnitsOf(tasks) == MapThenSumSet(LAMBDA u : Asks[u], tasks)

ByAttention == InOrder(Waiting, LAMBDA t, u : Earlier(wait, t, u))

Admitted ==
    FoldLeft(LAMBDA chosen, t : IF UnitsOf(chosen \cup {t}) <= capacity THEN chosen \cup {t} ELSE chosen,
             {held} \ {Nobody}, ByAttention)

ReconcileAdmission ==
    /\ UnitsOf({held} \ {Nobody}) <= capacity
    /\ reserved' = Admitted
    /\ UNCHANGED <<status, held, heldFor, wait, capacity>>

(* configure_execution_resource, before the first epoch. *)
Configure(units) ==
    /\ units # capacity
    /\ capacity' = units
    /\ reserved' = {}
    /\ UNCHANGED <<status, held, heldFor, wait>>

FocusNext ==
    \/ \E t \in Work : SubmitTask(t)
    \/ ReconcileFocus
    \/ CheckpointActive
    \/ \E final \in {"COMPLETED", "FAILED"} : EndActive(final)
    \/ ReconcileAdmission
    \/ \E units \in Capacities : Configure(units)

FocusSpec == FocusInit /\ [][FocusNext]_focusVars

(* The driver reconciles again and again, and a running task ends. *)
FocusFairness ==
    /\ WF_focusVars(ReconcileFocus)
    /\ WF_focusVars(EndActive("COMPLETED"))
-----------------------------------------------------------------------------
(* from_snapshot accepts the state whatever was called before it was saved:  *)
(* one running task, which has the focus; a pending preemption by a task     *)
(* that is queued; an admission that holds the running task, fits and has no *)
(* task whose dependencies are open (_validate_snapshot).                    *)
SnapshotLoads ==
    /\ {t \in Work : status[t] = "RUNNING"} = {held} \ {Nobody}
    /\ heldFor # Nobody => status[heldFor] = "QUEUED" /\ held # Nobody
    /\ \A t \in reserved : status[t] \in {"QUEUED", "RUNNING"}
                            /\ \A d \in After[t] : status[d] = "COMPLETED"
    /\ reserved # {} => held \in reserved \cup {Nobody}
    /\ UnitsOf(reserved) <= capacity

(* Nobody starves: a task that can run, and whose guarantee reaches the      *)
(* priority of the work that keeps coming, gets the focus in the end         *)
(* (reconcile_focus, "A due guarantee wins tie-breaking").                   *)
QueuedTaskGetsFocus ==
    \A t \in Work :
        (\A u \in Endless : Min({Base[t], PromotedTo[t]}) <= Base[u])
            => (t \in Runnable ~> t \notin Runnable)
=============================================================================
