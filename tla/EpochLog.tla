------------------------------ MODULE EpochLog ------------------------------
(***************************************************************************)
(* What the scheduler store promises its writers: the committed scheduler   *)
(* of one key changes as if every writer loaded it, changed it and saved it *)
(* in one indivisible step.                                                 *)
(*                                                                          *)
(* An epoch id is a hash over the epoch's contents, its predecessor's id    *)
(* and its resource observation; it is modelled by what it is injective in: *)
(* the sequence of epochs from the first to this one, each with the writer  *)
(* whose probe made the observation (no two observations coincide).         *)
(***************************************************************************)
EXTENDS Integers, Sequences

CONSTANTS
    Writers,    \* processes that load and save the scheduler
    Tasks,
    MaxEpochs   \* bound: epochs published

VARIABLE committed  \* the scheduler tables of the key

Epochs == [by : Writers, assigned : SUBSET Tasks]

(* A checkpoint-only task may be a victim of a pending preemption, and its   *)
(* checkpoint may have been acknowledged.                                    *)
Roles == {"none", "waiting", "acked"}

(* rev is preemption_state_revision. *)
Snapshots == [epoch : Seq(Epochs), rev : Nat, pending : [Tasks -> Roles],
              tasks : [Tasks -> {"NONE", "QUEUED", "COMPLETED"}]]

Empty == [epoch |-> <<>>, rev |-> 0, pending |-> [t \in Tasks |-> "none"],
          tasks |-> [t \in Tasks |-> "NONE"]]

AssignedIn(epoch) == IF epoch = <<>> THEN {} ELSE epoch[Len(epoch)].assigned

(* submit *)
Submissions(s) ==
    {[s.tasks EXCEPT ![t] = "QUEUED"] : t \in {u \in Tasks : s.tasks[u] = "NONE"}}

(* complete_task; it does not ask whether the task is assigned. *)
Completions(s) ==
    {[s.tasks EXCEPT ![t] = "COMPLETED"] :
        t \in {u \in Tasks : s.tasks[u] = "QUEUED"}}

(* A background cycle may also plan with no change of a task. *)
Changes(s) == {s.tasks} \cup Submissions(s) \cup Completions(s)

(* Whatever plan_scheduling_epoch decides (module AttentionEpoch): it        *)
(* assigns queued tasks, keeps the acknowledgements of the intents it        *)
(* carries and adds none.                                                    *)
IsPlan(s, tasks, assigned, pending) ==
    /\ \A t \in assigned : tasks[t] = "QUEUED"
    /\ \A t \in Tasks : pending[t] # "none" => t \in assigned
    /\ \A t \in Tasks : pending[t] = "acked" => s.pending[t] = "acked"

Published(s, w, tasks, assigned, pending) ==
    [epoch |-> Append(s.epoch, [by |-> w, assigned |-> assigned]),
     rev |-> s.rev + 1, pending |-> pending, tasks |-> tasks]

(* checkpoint_pending_preemption *)
Acknowledged(s, t) == [s EXCEPT !.rev = @ + 1, !.pending[t] = "acked"]

Init == committed = Empty

Publish(w) ==
    /\ Len(committed.epoch) < MaxEpochs
    /\ \E tasks \in Changes(committed), assigned \in SUBSET Tasks,
          pending \in [Tasks -> Roles] :
        /\ IsPlan(committed, tasks, assigned, pending)
        /\ committed' = Published(committed, w, tasks, assigned, pending)

Acknowledge(t) ==
    /\ committed.pending[t] = "waiting"
    /\ committed' = Acknowledged(committed, t)

Next == (\E w \in Writers : Publish(w)) \/ (\E t \in Tasks : Acknowledge(t))

Spec == Init /\ [][Next]_committed
=============================================================================
