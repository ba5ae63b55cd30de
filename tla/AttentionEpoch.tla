--------------------------- MODULE AttentionEpoch ---------------------------
(***************************************************************************)
(* Deterministic scheduling epochs: plan_scheduling_epoch of attention.py   *)
(* over the observations of attention_observation.py, published by          *)
(* save_scheduler.                                                          *)
(*                                                                          *)
(* The state is the committed scheduler of one key.  A production writer    *)
(* loads it, submits or completes tasks, plans an epoch against a fresh     *)
(* observation and saves.  The sequence is one action: module               *)
(* SchedulerStore shows that the saves of several writers are serializable. *)
(* A plan its validators reject raises before anything is written and       *)
(* changes nothing.                                                         *)
(*                                                                          *)
(* Epoch numbers and hashed ids are left out: assignments keep their epoch  *)
(* order in the sequence `assigned`; intents requested in one epoch are     *)
(* resolved in the order of a hash, here any order.  Units are counted by   *)
(* resource class, as deficits and victims are; a task's requirement may be *)
(* spread over the resources of its class.                                  *)
(*                                                                          *)
(* ...Without... operators are the definitions they precede with a fault    *)
(* seeded; they show that the properties notice such a fault.               *)
(***************************************************************************)
EXTENDS Integers, Sequences, FiniteSets, SequencesExt, VictimSelection

CONSTANTS
    Tasks,
    Classes,      \* resource classes
    Measured,     \* classes whose free units the host probe measures
    Capacity,     \* admissible units by class (capacity - system headroom)
    Need,         \* quantitative_resource_requirements by task and class
    Priority,     \* derive_priority: lower is more important
    MaxWait,      \* ServiceGuarantee.max_wait_cycles
    Guaranteed,   \* ServiceGuarantee.guaranteed_priority
    Policy,       \* interruption policy
    Deadline,     \* deadline, as a rank
    Deps,         \* dependency_ids
    Recurring     \* tasks that stand for an endless supply of their kind

Policies == {"PREEMPTIBLE", "CHECKPOINT_ONLY", "ATOMIC"}

ASSUME AttentionConstants ==
    /\ Measured \subseteq Classes
    /\ Capacity \in [Classes -> Nat]
    /\ Need \in [Tasks -> [Classes -> Nat]]
    /\ Priority \in [Tasks -> 0 .. 5]
    /\ MaxWait \in [Tasks -> Nat \ {0}]
    /\ Guaranteed \in [Tasks -> 0 .. 5]
    /\ Policy \in [Tasks -> Policies]
    /\ Deadline \in [Tasks -> Nat]
    /\ Deps \in [Tasks -> SUBSET Tasks]
    /\ Recurring \subseteq Tasks
    /\ \A t \in Tasks : Deps[t] \cap Recurring = {}

VARIABLES
    arrivals,   \* submitted tasks by created_seq
    completed,  \* tasks with status COMPLETED; other submitted ones are QUEUED
    waited,     \* scheduler cycles since submission, counted to MaxWait
    assigned,   \* tasks of the current epoch's assignments, in epoch order
    intents     \* pending preemptions by requested epoch and id

vars == <<arrivals, completed, waited, assigned, intents>>

(* acked is checkpointed_victim_task_ids. *)
Intent == [target : Tasks, victims : Seq(Tasks), acked : SUBSET Tasks]

TypeOK ==
    /\ arrivals \in Seq(Tasks) /\ IsInjective(arrivals)
    /\ completed \subseteq ToSet(arrivals)
    /\ waited \in [Tasks -> Nat]
    /\ \A t \in Tasks : waited[t] <= MaxWait[t]
    /\ assigned \in Seq(Tasks) /\ IsInjective(assigned)
    /\ ToSet(assigned) \subseteq ToSet(arrivals)
    /\ intents \in Seq(Intent)

Init ==
    /\ arrivals = <<>>
    /\ completed = {}
    /\ waited = [t \in Tasks |-> 0]
    /\ assigned = <<>>
    /\ intents = <<>>
-----------------------------------------------------------------------------
(* Resources and observations. *)

Units(tasks) ==
    [c \in Classes |-> MapThenSumSet(LAMBDA t : Need[t][c], tasks)]

Fits(t, remaining) == \A c \in Classes : Need[t][c] <= remaining[c]

(* A healthy probe reports some free units of each measured class, of which *)
(* no more than the capacity count; a failed one reports nothing.           *)
Observations ==
    [healthy : {TRUE},
     free : {f \in [Measured -> UNION {0 .. Capacity[c] : c \in Measured}] :
                \A c \in Measured : f[c] <= Capacity[c]}]
    \cup [healthy : {FALSE}, free : [Measured -> {0}]]

IdleHost == [healthy |-> TRUE, free |-> [c \in Measured |-> Capacity[c]]]

(* build_resource_observation: what is committed stays admissible, more only *)
(* as far as it is measured and configured.  Classes that are not measured   *)
(* are admitted to their configured capacity.                                *)
AdmissionCapacity(obs) ==
    [c \in Classes |->
        LET committed == Units(ToSet(assigned))[c]
        IN  IF c \in Measured /\ committed + obs.free[c] < Capacity[c]
            THEN committed + obs.free[c]
            ELSE Capacity[c]]
-----------------------------------------------------------------------------
(* The scheduler a writer plans with: the loaded one after its own changes. *)
Loaded == [arrivals |-> arrivals, completed |-> completed, waited |-> waited]

WithSubmitted(new) == [Loaded EXCEPT !.arrivals = @ \o new]

WithCompleted(t) == [Loaded EXCEPT !.completed = @ \cup {t}]

Queued(m) == ToSet(m.arrivals) \ m.completed

DependenciesSatisfied(m, t) == Deps[t] \subseteq m.completed
-----------------------------------------------------------------------------
(* The attention order at the planned cycle, one after the committed one.   *)

DueWithoutGuarantee(m, t) == FALSE

(* _service_due *)
Due(m, t) == m.waited[t] + 1 >= MaxWait[t]

(* _effective_priority; in epoch mode a task is QUEUED while it runs, too. *)
EffectivePriority(m, t) ==
    IF Due(m, t) /\ Guaranteed[t] < Priority[t] THEN Guaranteed[t]
                                               ELSE Priority[t]

(* _strictly_outprioritizes *)
Outprioritizes(m, t, victim) == EffectivePriority(m, t) < Priority[victim]

QueueKey(m, t) ==
    <<EffectivePriority(m, t), IF Due(m, t) THEN 0 ELSE 1, Deadline[t],
      SelectInSeq(m.arrivals, LAMBDA u : u = t)>>

(* What _ranked_dependency_satisfied_queued_task_ids sorts, with the keys. *)
ReadyQueue(m) ==
    {[task |-> t, key |-> QueueKey(m, t)] :
        t \in {t \in Queued(m) : DependenciesSatisfied(m, t)}}
-----------------------------------------------------------------------------
(* plan_scheduling_epoch.  A plan in the making is a record: the assigned    *)
(* tasks, the remaining units, the intents carried over, the ones requested  *)
(* now, the victims of either (protected), the targets already dealt with    *)
(* (waiting) and the victims that had to go (released).                      *)

Kept(m) == Minus(assigned, m.completed)

StartOfPlan(m, obs) ==
    [assigned  |-> Kept(m),
     remaining |-> [c \in Classes |-> AdmissionCapacity(obs)[c]
                                      - Units(ToSet(Kept(m)))[c]],
     carried   |-> <<>>,
     requested |-> {},
     protected |-> {},
     waiting   |-> {},
     released  |-> {}]

(* admit_with_allocation *)
Admit(p, t) ==
    [p EXCEPT !.assigned = Append(@, t),
              !.remaining = [c \in Classes |-> @[c] - Need[t][c]]]

(* release_selected *)
Release(p, victims) ==
    LET freed == Units(victims \cap ToSet(p.assigned))
    IN  [p EXCEPT !.assigned = Minus(@, victims),
                  !.remaining = [c \in Classes |-> @[c] + freed[c]],
                  !.released = @ \cup victims]

HoldNothing(p, t) == p

(* _hold_available_task_capacity *)
Hold(p, t) ==
    [p EXCEPT !.remaining =
        [c \in Classes |-> IF Need[t][c] <= @[c] THEN @[c] - Need[t][c] ELSE 0]]

Settled(p, t) == [p EXCEPT !.waiting = @ \cup {t}]

Carry(p, i) ==
    [Settled(p, i.target) EXCEPT !.carried = Append(@, i),
                                 !.protected = @ \cup ToSet(i.victims)]

CheckpointVictims(i) == {v \in ToSet(i.victims) : Policy[v] = "CHECKPOINT_ONLY"}

ReadyWithoutCheckpoints(i) == TRUE

ReadyToExecute(i) == i.acked = CheckpointVictims(i)

(* One pending intent: kept while the host is unhealthy, dropped when its   *)
(* target fits without it, kept with the free part of its target's units    *)
(* held until the checkpoints are in, then executed, or dropped if that no  *)
(* longer helps.                                                            *)
ExecuteIntent(p, freed, i) ==
    IF Fits(i.target, freed.remaining)
    THEN Settled(Admit(freed, i.target), i.target)
    ELSE p

ResolveIntent(obs, p, i) ==
    IF ~obs.healthy THEN Carry(p, i)
    ELSE IF Fits(i.target, p.remaining) THEN Settled(Admit(p, i.target), i.target)
    ELSE IF ~ReadyToExecute(i) THEN Hold(Carry(p, i), i.target)
    ELSE ExecuteIntent(p, Release(p, ToSet(i.victims)), i)

(* _resource_class_deficits *)
DeficitsOf(t, remaining) ==
    [c \in {c \in Classes : Need[t][c] > remaining[c]} |->
        Need[t][c] - remaining[c]]

CandidatesWithoutProtection(m, p, t, deficits) ==
    LET yields(v) ==
            /\ v \in ToSet(Kept(m))
            /\ Policy[v] # "ATOMIC"
            /\ Outprioritizes(m, t, v)
            /\ \E c \in DOMAIN deficits : Need[v][c] > 0
    IN  {[task |-> p.assigned[k], order |-> k,
          priority |-> Priority[p.assigned[k]],
          checkpoint |-> Policy[p.assigned[k]] = "CHECKPOINT_ONLY",
          units |-> Need[p.assigned[k]]] :
            k \in {k \in DOMAIN p.assigned : yields(p.assigned[k])}}

(* Assignments of the previous epoch that may yield to t. *)
VictimCandidates(m, p, t, deficits) ==
    LET yields(v) ==
            /\ v \in ToSet(Kept(m)) \ p.protected
            /\ Policy[v] # "ATOMIC"
            /\ Outprioritizes(m, t, v)
            /\ \E c \in DOMAIN deficits : Need[v][c] > 0
    IN  {[task |-> p.assigned[k], order |-> k,
          priority |-> Priority[p.assigned[k]],
          checkpoint |-> Policy[p.assigned[k]] = "CHECKPOINT_ONLY",
          units |-> Need[p.assigned[k]]] :
            k \in {k \in DOMAIN p.assigned : yields(p.assigned[k])}}

(* REQUESTED: the intent is recorded and nothing is released. *)
Request(p, t, victims) ==
    [p EXCEPT !.requested = @ \cup {[target |-> t, victims |-> victims,
                                     acked |-> {}]},
              !.protected = @ \cup ToSet(victims)]

Displace(p, t, victims) ==
    IF \E v \in ToSet(victims) : Policy[v] = "CHECKPOINT_ONLY"
    THEN Hold(Request(p, t, victims), t)
    ELSE Admit(Release(p, ToSet(victims)), t)

(* One candidate of the attention order.  The outcome is a set of one plan. *)
ConsiderCandidate(m, p, t) ==
    LET deficits == DeficitsOf(t, p.remaining)
        chosen == SelectMinimumVictims(deficits,
                                       VictimCandidates(m, p, t, deficits))
    IN  IF Fits(t, p.remaining) THEN {Admit(p, t)}
        ELSE IF chosen = {} THEN {p}
        ELSE {Displace(p, t, [k \in DOMAIN sel |-> sel[k].task]) : sel \in chosen}

Candidates(queue, p) ==
    InOrder({c \in queue : c.task \notin ToSet(p.assigned) \cup p.waiting \cup p.released},
            LAMBDA c, d : Preferred(c.key, d.key))

(* The intents first, then, on a healthy host, the rest of the queue.  Each  *)
(* fold runs over the set that holds the plan so far.                        *)
IntentsResolved(m, obs) ==
    FoldLeft(LAMBDA P, i : {ResolveIntent(obs, p, i) : p \in P},
             {StartOfPlan(m, obs)}, intents)

PlanSchedulingEpoch(m, obs) ==
    IF ~obs.healthy THEN IntentsResolved(m, obs)
    ELSE UNION {FoldLeft(LAMBDA P, c : UNION {ConsiderCandidate(m, q, c.task) : q \in P},
                         {p}, Candidates(queue, p)) :
                    p \in IntentsResolved(m, obs), queue \in {ReadyQueue(m)}}

PlannedIntents(p) == ToSet(p.carried) \cup p.requested

(* The validators of SchedulingEpochPlan and _validate_snapshot, which raise *)
(* in plan_scheduling_epoch or in save_scheduler before it writes.           *)
Publishable(m, obs, p) ==
    LET admitted == ToSet(p.assigned)
        targets == {i.target : i \in PlannedIntents(p)}
        victims == UNION {ToSet(i.victims) : i \in PlannedIntents(p)}
    IN  /\ IsInjective(p.assigned)
        /\ \A c \in Classes :
              /\ Units(admitted)[c] <= Capacity[c]
              /\ Units(admitted)[c] <= AdmissionCapacity(obs)[c]
        /\ \A t \in admitted \cup targets : DependenciesSatisfied(m, t)
        /\ targets \subseteq Queued(m) \ admitted
        /\ targets \cap victims = {}
        /\ \A i, j \in PlannedIntents(p) :
              i = j \/ (/\ i.target # j.target
                        /\ ToSet(i.victims) \cap ToSet(j.victims) = {})
        /\ victims \subseteq admitted
        /\ \A v \in victims : Policy[v] # "ATOMIC"
-----------------------------------------------------------------------------
(* The writers. *)

(* Planning, save_scheduler and the publication it commits: one cycle later, *)
(* with the intents requested now after the older ones.  A completed task    *)
(* matters only to its dependents, so a recurring one is forgotten and its   *)
(* name stands for the next task of its kind.                                *)
Publish(m, obs) ==
    \E p \in PlanSchedulingEpoch(m, obs) :
        /\ Publishable(m, obs, p)
        /\ arrivals' = Minus(m.arrivals, m.completed \cap Recurring)
        /\ completed' = m.completed \ Recurring
        /\ waited' = [t \in Tasks |->
              IF t \in Queued(m) /\ m.waited[t] < MaxWait[t]
              THEN m.waited[t] + 1
              ELSE IF t \in Queued(m) THEN m.waited[t] ELSE 0]
        /\ assigned' = p.assigned
        /\ \E new \in SetToSeqs(p.requested) : intents' = p.carried \o new

(* begin_percept and a situation cycle: any number of new tasks, or none. *)
SubmitAndPlan(new, obs) == Publish(WithSubmitted(new), obs)

FinishWithoutTaskTest(t, obs) == Publish(WithCompleted(t), obs)

(* finish_percept and the end of a situation task: complete_task, then an   *)
(* epoch without the assignment.                                            *)
FinishTask(t, obs) ==
    /\ t \in ToSet(assigned)
    /\ Publish(WithCompleted(t), obs)

(* checkpoint_pending_preemption and a save that publishes no epoch. *)
CheckpointPendingPreemption(t) ==
    \E k \in DOMAIN intents :
        /\ t \in CheckpointVictims(intents[k]) \ intents[k].acked
        /\ intents' = [intents EXCEPT ![k].acked = @ \cup {t}]
        /\ UNCHANGED <<arrivals, completed, waited, assigned>>

Submitting ==
    \E S \in SUBSET (Tasks \ ToSet(arrivals)), obs \in Observations :
        /\ IsFiniteSet(S)
        /\ \E new \in SetToSeqs(S) : SubmitAndPlan(new, obs)

Finishing == \E t \in Tasks, obs \in Observations : FinishTask(t, obs)

Acknowledging == \E t \in Tasks : CheckpointPendingPreemption(t)

Next == Submitting \/ Finishing \/ Acknowledging

Spec == Init /\ [][Next]_vars

(* What runs in production.  Nothing there calls                            *)
(* checkpoint_pending_preemption: a victim yields by finishing.             *)
ProductionNext == Submitting \/ Finishing

(* The background cycle keeps planning and every worker that stays assigned  *)
(* finishes; now and then the host is idle when they do.                     *)
ProductionSpec ==
    /\ Init /\ [][ProductionNext]_vars
    /\ WF_vars(SubmitAndPlan(<<>>, IdleHost))
    /\ \A t \in Tasks : WF_vars(FinishTask(t, IdleHost))
-----------------------------------------------------------------------------
(* Whatever the host reports, the epoch planned from a committed state is    *)
(* one that the scheduler's own validators accept: it never overcommits a    *)
(* class, admits a task before its dependencies, or leaves an intent whose   *)
(* victims are gone or whose target is already running.                      *)
CommittedStateCanBePlanned ==
    \A obs \in Observations : \A p \in PlanSchedulingEpoch(Loaded, obs) :
        Publishable(Loaded, obs, p)

(* The same for the epoch that closes a task: a worker that finished can     *)
(* always publish it, which finish_percept takes for granted.                *)
FinishedTaskCanBePublished ==
    \A t \in ToSet(assigned), obs \in Observations :
        \A p \in PlanSchedulingEpoch(WithCompleted(t), obs) :
            Publishable(WithCompleted(t), obs, p)

(* What a waiting target's units are held for: once the victims of its        *)
(* intent have yielded, the target fits beside everything else assigned.     *)
HasRoom(i) ==
    \A c \in Classes :
        Units(ToSet(assigned) \ ToSet(i.victims))[c] + Need[i.target][c] <= Capacity[c]

(* No queued work takes that room, whatever its priority and whatever else    *)
(* finishes or arrives: an intent is requested with room for its target, and  *)
(* loses it only in an epoch that admits the target of another intent, which  *)
(* may be resolved first and is not bound by the hold.                        *)
KeepsRoom ==
    \A i \in ToSet(intents') : ~HasRoom(i)' =>
        \E j \in ToSet(intents) :
            /\ j.target = i.target
            /\ HasRoom(j) => \E k \in ToSet(intents) : k.target \in ToSet(assigned')

HeldRoomIsKept == [][KeepsRoom]_vars

(* Interruption policies hold across planning: an assignment ends before     *)
(* its task completed only if the task is PREEMPTIBLE, or CHECKPOINT_ONLY    *)
(* with its checkpoint acknowledged, never if it is ATOMIC; and only for a   *)
(* task admitted in the same epoch that strictly outprioritizes it.          *)
Displaced == (ToSet(assigned) \cap ToSet(arrivals'))
             \ (ToSet(assigned') \cup completed')

InterruptsByPolicy ==
    \A v \in Displaced :
        /\ \/ Policy[v] = "PREEMPTIBLE"
           \/ /\ Policy[v] = "CHECKPOINT_ONLY"
              /\ \E k \in DOMAIN intents : v \in intents[k].acked
        /\ \E t \in ToSet(assigned') \ ToSet(assigned) :
              Outprioritizes([waited |-> waited], t, v)

InterruptionIsJustified == [][InterruptsByPolicy]_vars

(* Anti-starvation: a submitted task whose dependencies are completed gets   *)
(* an assignment and completes, however many more urgent ones arrive.        *)
QueuedWorkIsServed ==
    \A t \in Tasks \ Recurring :
        (t \in Queued(Loaded) /\ DependenciesSatisfied(Loaded, t))
            ~> (t \in completed)

(* No endless preemption: a task that keeps being assigned finishes or is    *)
(* left in place in the end.                                                 *)
PreemptionSettles ==
    \A t \in Tasks :
        []<>(t \in ToSet(assigned))
            => <>[](t \in ToSet(assigned)) \/ <>(t \in completed)
=============================================================================
