--------------------------- MODULE SchedulerStore ---------------------------
(***************************************************************************)
(* load_scheduler and save_scheduler of attention_store.py with several     *)
(* writers.  A load reads the state row, the tasks and the reservations in  *)
(* separate READ COMMITTED statements.  A save locks the state row, checks  *)
(* the generation it was planned from, and writes everything in the same    *)
(* transaction; before the first save there is no row to lock.  A writer    *)
(* may lose its connection around the commit and save the same scheduler    *)
(* again without knowing whether the first attempt went through.            *)
(*                                                                          *)
(* ...Without... operators are the definitions they precede with a fault    *)
(* seeded; they show that the properties notice such a fault.               *)
(***************************************************************************)
EXTENDS Integers, Sequences

CONSTANTS
    Writers,    \* processes that load and save the scheduler
    NoWriter,   \* the state row is not locked
    Tasks,
    MaxEpochs   \* bound: epochs published

ASSUME StoreAssumption == NoWriter \notin Writers /\ MaxEpochs \in Nat

VARIABLES
    committed,  \* attention_scheduler_state, _tasks and _reservations
    epochs,     \* rows of attention_scheduling_epochs, by id
    holder,     \* the writer whose transaction has locked the state row
    phase,      \* what each writer is doing
    base,       \* the snapshot each writer loaded
    target      \* the snapshot each writer wants to save

vars == <<committed, epochs, holder, phase, base, target>>

(* The committed rows of the key are the value of the abstract log. *)
Log == INSTANCE EpochLog WITH committed <- committed, Writers <- Writers, Tasks <- Tasks,
                              MaxEpochs <- MaxEpochs

Phases == {"idle", "reading", "validating", "loaded", "ready", "checked", "unsure"}

TypeOK ==
    /\ committed \in Log!Snapshots
    /\ epochs \subseteq Seq(Log!Epochs)
    /\ holder \in Writers \cup {NoWriter}
    /\ phase \in [Writers -> Phases]
    /\ base \in [Writers -> Log!Snapshots]
    /\ target \in [Writers -> Log!Snapshots]

Init ==
    /\ committed = Log!Empty
    /\ epochs = {}
    /\ holder = NoWriter
    /\ phase = [w \in Writers |-> "idle"]
    /\ base = [w \in Writers |-> Log!Empty]
    /\ target = [w \in Writers |-> Log!Empty]

RowExists == committed.epoch # <<>>

(* A writer that goes idle drops its scheduler. *)
GoIdle(w) ==
    /\ phase' = [phase EXCEPT ![w] = "idle"]
    /\ base' = [base EXCEPT ![w] = Log!Empty]
    /\ target' = [target EXCEPT ![w] = Log!Empty]

(* A save ended; its caller gives up, or keeps the scheduler to retry.      *)
EndSave(w) ==
    \/ GoIdle(w)
    \/ /\ phase' = [phase EXCEPT ![w] = "unsure"]
       /\ UNCHANGED <<base, target>>
-----------------------------------------------------------------------------
(* load_scheduler. *)

(* The state row, or no row: then the load returns an empty scheduler. *)
LoadState(w) ==
    /\ phase[w] = "idle"
    /\ phase' = [phase EXCEPT ![w] = IF RowExists THEN "reading" ELSE "loaded"]
    /\ base' = [base EXCEPT ![w] = [Log!Empty EXCEPT !.epoch = committed.epoch,
                                                     !.rev = committed.rev,
                                                     !.pending = committed.pending]]
    /\ UNCHANGED <<committed, epochs, holder, target>>

(* The task rows, as they are by then. *)
LoadTasks(w) ==
    /\ phase[w] = "reading"
    /\ phase' = [phase EXCEPT ![w] = "validating"]
    /\ base' = [base EXCEPT ![w].tasks = committed.tasks]
    /\ UNCHANGED <<committed, epochs, holder, target>>

(* The reservation rows, as they are by then.  from_snapshot raises if they  *)
(* are not those of the epoch.                                               *)
LoadReservations(w) ==
    /\ phase[w] = "validating"
    /\ IF Log!AssignedIn(committed.epoch) = Log!AssignedIn(base[w].epoch)
       THEN /\ phase' = [phase EXCEPT ![w] = "loaded"]
            /\ UNCHANGED <<base, target>>
       ELSE GoIdle(w)
    /\ UNCHANGED <<committed, epochs, holder>>
-----------------------------------------------------------------------------
(* The loaded scheduler changes in memory. *)

Plan(w) ==
    /\ phase[w] = "loaded"
    /\ Len(base[w].epoch) < MaxEpochs
    /\ \E tasks \in Log!Changes(base[w]), assigned \in SUBSET Tasks,
          pending \in [Tasks -> Log!Roles] :
        /\ Log!IsPlan(base[w], tasks, assigned, pending)
        /\ target' = [target EXCEPT ![w] =
               Log!Published(base[w], w, tasks, assigned, pending)]
    /\ phase' = [phase EXCEPT ![w] = "ready"]
    /\ UNCHANGED <<committed, epochs, holder, base>>

CheckpointPendingPreemption(w, t) ==
    /\ phase[w] = "loaded"
    /\ base[w].pending[t] = "waiting"
    /\ target' = [target EXCEPT ![w] = Log!Acknowledged(base[w], t)]
    /\ phase' = [phase EXCEPT ![w] = "ready"]
    /\ UNCHANGED <<committed, epochs, holder, base>>
-----------------------------------------------------------------------------
(* save_scheduler. *)

GenerationWithoutRevision(w) ==
    committed.epoch \in {base[w].epoch, target[w].epoch}

(* _lock_scheduler_generation on an existing row: the epoch is the one       *)
(* planned from, or already the one to publish; the preemption state has     *)
(* not moved, or is already the one to save.                                 *)
GenerationMatches(w) ==
    /\ committed.epoch \in {base[w].epoch, target[w].epoch}
    /\ \/ committed.rev = base[w].rev
       \/ /\ committed.rev = target[w].rev
          /\ committed.pending = target[w].pending

SaveBegin(w) ==
    /\ phase[w] \in {"ready", "unsure"}
    /\ holder = NoWriter
    /\ \/ /\ RowExists
          /\ GenerationMatches(w)
          /\ holder' = w
          /\ phase' = [phase EXCEPT ![w] = "checked"]
          /\ UNCHANGED <<base, target>>
       \/ /\ ~RowExists
          /\ base[w].epoch = <<>>
          /\ phase' = [phase EXCEPT ![w] = "checked"]
          /\ UNCHANGED <<holder, base, target>>
       \/ /\ RowExists \/ base[w].epoch # <<>>
          /\ ~(RowExists /\ GenerationMatches(w))
          /\ GoIdle(w)
          /\ UNCHANGED holder
    /\ UNCHANGED <<committed, epochs>>

Unlocked(w) == IF holder = w THEN NoWriter ELSE holder

(* _insert_immutable_epoch: nobody has another epoch of this sequence. *)
EpochInsertable(w) ==
    \A e \in epochs : Len(e) = Len(target[w].epoch) => e = target[w].epoch

(* Task rows are upserted; the others belong to other writers and stay. *)
UpsertTasks(w) ==
    [t \in Tasks |-> IF target[w].tasks[t] = "NONE" THEN committed.tasks[t]
                                                   ELSE target[w].tasks[t]]

(* The writes and the commit.  The caller hears of it, or does not.          *)
SaveCommit(w) ==
    /\ phase[w] = "checked"
    /\ holder \in {w, NoWriter}
    /\ EpochInsertable(w)
    /\ committed' = [target[w] EXCEPT !.tasks = UpsertTasks(w)]
    /\ epochs' = epochs \cup {target[w].epoch}
    /\ holder' = Unlocked(w)
    /\ EndSave(w)

(* A rollback: an insert conflicts, a reservation is held by a live claim,   *)
(* or the connection is lost before the commit.                              *)
SaveFail(w) ==
    /\ phase[w] = "checked"
    /\ holder' = Unlocked(w)
    /\ EndSave(w)
    /\ UNCHANGED <<committed, epochs>>

(* The writer crashes or its caller gives up. *)
Abandon(w) ==
    /\ phase[w] \in {"loaded", "ready", "unsure"}
    /\ GoIdle(w)
    /\ UNCHANGED <<committed, epochs, holder>>

Next ==
    \E w \in Writers :
        \/ LoadState(w)
        \/ LoadTasks(w)
        \/ LoadReservations(w)
        \/ Plan(w)
        \/ \E t \in Tasks : CheckpointPendingPreemption(w, t)
        \/ SaveBegin(w)
        \/ SaveCommit(w)
        \/ SaveFail(w)
        \/ Abandon(w)

Spec == Init /\ [][Next]_vars
-----------------------------------------------------------------------------
(* Saves are serializable: although loads are torn, first saves take no lock *)
(* and saves are repeated, every commit changes the committed scheduler as   *)
(* one indivisible step from its current state would, or not at all.         *)
ImplementsEpochLog == Log!Spec

(* A writer that holds the row lock after the generation check knows the     *)
(* committed scheduler completely, every task row included, or has already   *)
(* saved what it is about to save.                                           *)
CheckedWriterIsCurrent ==
    holder # NoWriter => committed \in {base[holder], target[holder]}

(* No commit takes back what an earlier one made durable: a submitted task   *)
(* stays, a completed one stays completed, and an acknowledged checkpoint    *)
(* stays acknowledged until another epoch is published.                      *)
TakesNothingBack ==
    \A t \in Tasks :
        /\ committed.tasks[t] = "COMPLETED" => committed'.tasks[t] = "COMPLETED"
        /\ committed.tasks[t] = "QUEUED" => committed'.tasks[t] # "NONE"
        /\ /\ committed.pending[t] = "acked"
           /\ committed'.epoch = committed.epoch
           => committed'.pending[t] = "acked"

NothingIsTakenBack == [][TakesNothingBack]_vars

(* The epochs form one chain: the current epoch is only ever replaced by a   *)
(* successor, so the pointer never moves back and no history is lost.        *)
ExtendsChain ==
    \/ committed'.epoch = committed.epoch
    \/ /\ Len(committed'.epoch) = Len(committed.epoch) + 1
       /\ SubSeq(committed'.epoch, 1, Len(committed.epoch)) = committed.epoch

EpochsFormOneChain == [][ExtendsChain]_vars
-----------------------------------------------------------------------------
(* The inductive invariant behind these properties.                          *)

Holding(w) == phase[w] \in {"ready", "checked", "unsure"}

(* What the writer wants to save is what EpochLog allows from its base. *)
Successor(w, b, s) ==
    \/ /\ Len(b.epoch) < MaxEpochs
       /\ \E tasks \in Log!Changes(b), assigned \in SUBSET Tasks,
             pending \in [Tasks -> Log!Roles] :
           /\ Log!IsPlan(b, tasks, assigned, pending)
           /\ s = Log!Published(b, w, tasks, assigned, pending)
    \/ \E t \in Tasks : b.pending[t] = "waiting" /\ s = Log!Acknowledged(b, t)

TargetFollows(w) == Holding(w) => Successor(w, base[w], target[w])

TargetsAreSuccessors == \A w \in Writers : TargetFollows(w)

(* The revision numbers the commits.  A base with the committed revision is  *)
(* the committed scheduler; one commit later, with the same epoch, exactly   *)
(* one acknowledgement has been added.                                       *)
BaseIsRecent(w) ==
    phase[w] # "idle" =>
        /\ base[w].rev <= committed.rev
        /\ base[w].rev = committed.rev =>
              /\ base[w].epoch = committed.epoch
              /\ base[w].pending = committed.pending
              /\ phase[w] # "reading" => base[w].tasks = committed.tasks
        /\ base[w].rev + 1 = committed.rev /\ base[w].epoch = committed.epoch =>
              /\ \E t \in Tasks :
                    /\ base[w].pending[t] = "waiting"
                    /\ committed.pending = [base[w].pending EXCEPT ![t] = "acked"]
              /\ phase[w] # "reading" => base[w].tasks = committed.tasks

BaseByRevision == \A w \in Writers : BaseIsRecent(w)

(* Only w publishes an epoch by w, and it then knows what it has published. *)
KnowsOwnEpochs(w) ==
    /\ phase[w] \in {"reading", "validating", "loaded"} =>
          \A e \in Log!Epochs :
              e.by = w => committed.epoch # Append(base[w].epoch, e)
    /\ /\ Holding(w)
       /\ target[w].epoch # base[w].epoch
       /\ committed.epoch = target[w].epoch
       => /\ committed.rev >= target[w].rev
          /\ committed.rev = target[w].rev => committed = target[w]

OwnEpochs == \A w \in Writers : KnowsOwnEpochs(w)

(* A save without the row lock is a first save: the row appears only with    *)
(* an epoch of sequence 1, which such a save then finds in its way.          *)
RowMatchesEpochs ==
    /\ committed.epoch = <<>> => committed = Log!Empty /\ epochs = {}
    /\ committed.epoch # <<>> =>
          committed.epoch \in epochs /\ \E e \in epochs : Len(e) = 1

SavesFirst(w) ==
    phase[w] = "checked" /\ holder # w =>
        base[w] = Log!Empty /\ target[w].epoch \notin epochs

FirstSave == RowMatchesEpochs /\ \A w \in Writers : SavesFirst(w)

HolderIsChecked == holder # NoWriter => phase[holder] = "checked"

IInv ==
    /\ TypeOK
    /\ TargetsAreSuccessors
    /\ BaseByRevision
    /\ OwnEpochs
    /\ FirstSave
    /\ HolderIsChecked
    /\ CheckedWriterIsCurrent
=============================================================================
