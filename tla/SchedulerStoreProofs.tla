------------------------ MODULE SchedulerStoreProofs ------------------------
(***************************************************************************)
(* SchedulerStore implements EpochLog, and its safety properties hold, for  *)
(* any number of writers, tasks and epochs.                                 *)
(*                                                                          *)
(* The argument: a save that commits either repeats what is committed or    *)
(* replaces exactly the snapshot it was planned from (CommitEffect).  That  *)
(* the generation check guarantees this rests on BaseByRevision and         *)
(* OwnEpochs; that a first save without the lock does, on FirstSave.        *)
(***************************************************************************)
EXTENDS SchedulerStore, TLAPS

(* Appending to a sequence of epochs, as publication does to the chain. *)
LEMMA AppendFacts ==
    ASSUME NEW s \in Seq(Log!Epochs), NEW e \in Log!Epochs
    PROVE  /\ Append(s, e) \in Seq(Log!Epochs)
           /\ Len(Append(s, e)) = Len(s) + 1
           /\ Append(s, e)[Len(s) + 1] = e
           /\ Append(s, e) # s
           /\ Append(s, e) # <<>>
           /\ SubSeq(Append(s, e), 1, Len(s)) = s
<1> DEFINE E == Log!Epochs
<1> HIDE DEF E
<1> SUFFICES ASSUME NEW r \in Seq(E), NEW f \in E
             PROVE  /\ Append(r, f) \in Seq(E)
                    /\ Len(Append(r, f)) = Len(r) + 1
                    /\ Append(r, f)[Len(r) + 1] = f
                    /\ Append(r, f) # r
                    /\ Append(r, f) # <<>>
                    /\ SubSeq(Append(r, f), 1, Len(r)) = r
    BY DEF E
<1> QED
    OBVIOUS

(* Two chains that end in epochs of different writers are different. *)
LEMMA AppendedEpochIsLast ==
    ASSUME NEW s \in Seq(Log!Epochs), NEW e \in Log!Epochs,
           NEW r \in Seq(Log!Epochs), NEW f \in Log!Epochs,
           Append(s, e) = Append(r, f)
    PROVE  e = f
<1>1. Len(s) = Len(r)
    BY AppendFacts
<1> QED
    BY <1>1, AppendFacts

(* Snapshots are equal if their parts are. *)
LEMMA SnapshotEquality ==
    ASSUME NEW a \in Log!Snapshots, NEW b \in Log!Snapshots,
           a.epoch = b.epoch, a.rev = b.rev,
           a.pending = b.pending, a.tasks = b.tasks
    PROVE  a = b
    BY DEF Log!Snapshots

(* The empty scheduler a first load returns. *)
LEMMA EmptyFacts ==
    /\ Log!Empty \in Log!Snapshots
    /\ Log!Empty.epoch = <<>>
    /\ Log!Empty.rev = 0
    /\ \A t \in Tasks : Log!Empty.pending[t] = "none" /\ Log!Empty.tasks[t] = "NONE"
    BY DEF Log!Empty, Log!Snapshots, Log!Roles

(* The two ways in which a snapshot to save follows its base. *)
IsPublication(w, b, s) ==
    /\ \E e \in Log!Epochs : e.by = w /\ s.epoch = Append(b.epoch, e)
    /\ \A t \in Tasks : s.pending[t] = "acked" => b.pending[t] = "acked"

IsAcknowledgement(b, s) ==
    /\ s.epoch = b.epoch
    /\ s.tasks = b.tasks
    /\ \E t \in Tasks :
          /\ b.pending[t] = "waiting"
          /\ s.pending = [b.pending EXCEPT ![t] = "acked"]

(* What submit, complete_task and a background cycle do to the task rows. *)
LEMMA ChangesFacts ==
    ASSUME NEW b \in Log!Snapshots, NEW tasks \in Log!Changes(b)
    PROVE  /\ tasks \in [Tasks -> {"NONE", "QUEUED", "COMPLETED"}]
           /\ \A t \in Tasks : tasks[t] = "NONE" => b.tasks[t] = "NONE"
           /\ \A t \in Tasks : b.tasks[t] = "COMPLETED" => tasks[t] = "COMPLETED"
<1>0. b.tasks \in [Tasks -> {"NONE", "QUEUED", "COMPLETED"}]
    BY DEF Log!Snapshots
<1>1. CASE tasks = b.tasks
    BY <1>0, <1>1
<1>2. CASE tasks \in Log!Submissions(b)
    <2>1. PICK t \in Tasks : b.tasks[t] = "NONE" /\ tasks = [b.tasks EXCEPT ![t] = "QUEUED"]
        BY <1>2 DEF Log!Submissions
    <2> QED
        BY <1>0, <2>1
<1>3. CASE tasks \in Log!Completions(b)
    <2>1. PICK t \in Tasks : b.tasks[t] = "QUEUED" /\ tasks = [b.tasks EXCEPT ![t] = "COMPLETED"]
        BY <1>3 DEF Log!Completions
    <2> QED
        BY <1>0, <2>1
<1> QED
    BY <1>1, <1>2, <1>3 DEF Log!Changes

(* A snapshot to save publishes an epoch of its writer or acknowledges one   *)
(* checkpoint, and raises the revision by one either way.                    *)
LEMMA SuccessorFacts ==
    ASSUME NEW b \in Log!Snapshots, NEW w \in Writers, NEW s, Successor(w, b, s)
    PROVE  /\ s \in Log!Snapshots
           /\ s.rev = b.rev + 1
           /\ \A t \in Tasks : s.tasks[t] = "NONE" => b.tasks[t] = "NONE"
           /\ \A t \in Tasks : b.tasks[t] = "COMPLETED" => s.tasks[t] = "COMPLETED"
           /\ IsPublication(w, b, s) \/ IsAcknowledgement(b, s)
<1>0. /\ b.epoch \in Seq(Log!Epochs)
      /\ b.rev \in Nat
      /\ b.pending \in [Tasks -> Log!Roles]
      /\ b.tasks \in [Tasks -> {"NONE", "QUEUED", "COMPLETED"}]
    BY DEF Log!Snapshots
<1>1. ASSUME NEW tasks \in Log!Changes(b), NEW assigned \in SUBSET Tasks,
             NEW pending \in [Tasks -> Log!Roles],
             Log!IsPlan(b, tasks, assigned, pending),
             s = Log!Published(b, w, tasks, assigned, pending)
      PROVE  /\ s \in Log!Snapshots
             /\ s.rev = b.rev + 1
             /\ \A t \in Tasks : s.tasks[t] = "NONE" => b.tasks[t] = "NONE"
             /\ \A t \in Tasks : b.tasks[t] = "COMPLETED" => s.tasks[t] = "COMPLETED"
             /\ IsPublication(w, b, s)
    <2> DEFINE e == [by |-> w, assigned |-> assigned]
    <2>1. e \in Log!Epochs /\ e.by = w
        BY DEF Log!Epochs
    <2>2. /\ s.epoch = Append(b.epoch, e)
          /\ s.rev = b.rev + 1
          /\ s.pending = pending
          /\ s.tasks = tasks
        BY <1>1 DEF Log!Published
    <2>3. Append(b.epoch, e) \in Seq(Log!Epochs)
        BY <1>0, <2>1, AppendFacts
    <2>4. tasks \in [Tasks -> {"NONE", "QUEUED", "COMPLETED"}]
        BY <1>1, ChangesFacts
    <2>5. s \in Log!Snapshots
        BY <1>0, <1>1, <2>3, <2>4 DEF Log!Snapshots, Log!Published
    <2>6. IsPublication(w, b, s)
        BY <1>1, <2>1, <2>2 DEF IsPublication, Log!IsPlan
    <2>7. /\ \A t \in Tasks : s.tasks[t] = "NONE" => b.tasks[t] = "NONE"
          /\ \A t \in Tasks : b.tasks[t] = "COMPLETED" => s.tasks[t] = "COMPLETED"
        BY <1>1, <2>2, ChangesFacts
    <2> QED
        BY <2>2, <2>5, <2>6, <2>7
<1>2. ASSUME NEW t \in Tasks, b.pending[t] = "waiting", s = Log!Acknowledged(b, t)
      PROVE  /\ s \in Log!Snapshots
             /\ s.rev = b.rev + 1
             /\ s.tasks = b.tasks
             /\ IsAcknowledgement(b, s)
    <2>1. /\ s.epoch = b.epoch
          /\ s.rev = b.rev + 1
          /\ s.pending = [b.pending EXCEPT ![t] = "acked"]
          /\ s.tasks = b.tasks
        BY <1>2 DEF Log!Acknowledged, Log!Snapshots
    <2>2. [b.pending EXCEPT ![t] = "acked"] \in [Tasks -> Log!Roles]
        BY <1>0 DEF Log!Roles
    <2>3. s = [epoch |-> b.epoch, rev |-> b.rev + 1,
               pending |-> [b.pending EXCEPT ![t] = "acked"], tasks |-> b.tasks]
        BY <1>2 DEF Log!Acknowledged, Log!Snapshots
    <2>4. s \in Log!Snapshots
        BY <1>0, <2>2, <2>3 DEF Log!Snapshots
    <2> QED
        BY <1>2, <2>1, <2>4 DEF IsAcknowledgement
<1> QED
    BY <1>1, <1>2 DEF Successor
-----------------------------------------------------------------------------
(* A save that commits repeats what is committed, or replaces exactly the    *)
(* snapshot it was planned from; there is an epoch afterwards.               *)
LEMMA CommitEffect ==
    ASSUME IInv, NEW w \in Writers, SaveCommit(w)
    PROVE  /\ \/ committed' = committed /\ committed = target[w]
              \/ committed = base[w] /\ committed' = target[w]
           /\ target[w].epoch # <<>>
<1>0. /\ committed \in Log!Snapshots
      /\ base[w] \in Log!Snapshots
      /\ target[w] \in Log!Snapshots
    BY DEF IInv, TypeOK
<1>1. Successor(w, base[w], target[w])
    BY DEF IInv, TargetsAreSuccessors, TargetFollows, Holding, SaveCommit
<1>2. /\ IsPublication(w, base[w], target[w]) \/ IsAcknowledgement(base[w], target[w])
      /\ \A t \in Tasks : target[w].tasks[t] = "NONE" => base[w].tasks[t] = "NONE"
    BY <1>0, <1>1, SuccessorFacts
<1>3. committed \in {base[w], target[w]}
    <2>1. CASE holder = w
        BY <2>1, StoreAssumption DEF IInv, CheckedWriterIsCurrent
    <2>2. CASE holder # w
        <3>1. base[w] = Log!Empty /\ target[w].epoch \notin epochs
            BY <2>2 DEF IInv, FirstSave, SavesFirst, SaveCommit
        <3>2. IsPublication(w, base[w], target[w])
            BY <1>2, <3>1, EmptyFacts DEF IsAcknowledgement
        <3>3. Len(target[w].epoch) = 1
            <4>1. PICK e \in Log!Epochs : target[w].epoch = Append(base[w].epoch, e)
                BY <3>2 DEF IsPublication
            <4>2. base[w].epoch \in Seq(Log!Epochs)
                BY <1>0 DEF Log!Snapshots
            <4>3. Len(Append(base[w].epoch, e)) = Len(base[w].epoch) + 1
                BY <4>2, AppendFacts
            <4>4. Len(base[w].epoch) = 0
                BY <3>1, EmptyFacts
            <4> QED
                BY <4>1, <4>3, <4>4
        <3>4. committed.epoch = <<>>
            BY <3>1, <3>3 DEF IInv, FirstSave, RowMatchesEpochs, SaveCommit, EpochInsertable
        <3> QED
            BY <3>1, <3>4 DEF IInv, FirstSave, RowMatchesEpochs
    <2> QED
        BY <2>1, <2>2
<1>4. UpsertTasks(w) = target[w].tasks
    <2>1. \A t \in Tasks : target[w].tasks[t] = "NONE" => committed.tasks[t] = "NONE"
        BY <1>2, <1>3
    <2>2. target[w].tasks \in [Tasks -> {"NONE", "QUEUED", "COMPLETED"}]
        BY <1>0 DEF Log!Snapshots
    <2> QED
        BY <2>1, <2>2 DEF UpsertTasks
<1>5. committed' = target[w]
    BY <1>0, <1>4 DEF SaveCommit, Log!Snapshots
<1>6. target[w].epoch # <<>>
    <2>1. CASE IsPublication(w, base[w], target[w])
        <3>1. base[w].epoch \in Seq(Log!Epochs)
            BY <1>0 DEF Log!Snapshots
        <3>2. PICK e \in Log!Epochs : target[w].epoch = Append(base[w].epoch, e)
            BY <2>1 DEF IsPublication
        <3>3. Append(base[w].epoch, e) # <<>>
            BY <3>1, AppendFacts
        <3> QED
            BY <3>2, <3>3
    <2>2. CASE IsAcknowledgement(base[w], target[w])
        <3>1. PICK t \in Tasks : /\ base[w].pending[t] = "waiting"
                                 /\ target[w].pending = [base[w].pending EXCEPT ![t] = "acked"]
            BY <2>2 DEF IsAcknowledgement
        <3>2. target[w].pending[t] = "acked"
            BY <1>0, <3>1 DEF Log!Snapshots
        <3>3. committed # Log!Empty
            BY <1>3, <3>1, <3>2, EmptyFacts
        <3>4. committed.epoch # <<>>
            BY <3>3 DEF IInv, FirstSave, RowMatchesEpochs
        <3> QED
            BY <1>3, <2>2, <3>4 DEF IsAcknowledgement
    <2> QED
        BY <1>2, <2>1, <2>2
<1> QED
    BY <1>3, <1>5, <1>6

(* A step of one writer that commits nothing keeps the invariant if the      *)
(* writer's own part of it is kept.                                          *)
LEMMA StepOfOneWriter ==
    ASSUME IInv, NEW w \in Writers,
           TypeOK',
           UNCHANGED <<committed, epochs>>,
           \A u \in Writers \ {w} : /\ phase'[u] = phase[u]
                                    /\ base'[u] = base[u]
                                    /\ target'[u] = target[u],
           \/ holder' = holder /\ holder # w
           \/ holder \in {w, NoWriter} /\ holder' \in {w, NoWriter},
           holder' = w => /\ phase'[w] = "checked"
                          /\ committed \in {base'[w], target'[w]},
           TargetFollows(w)', BaseIsRecent(w)', KnowsOwnEpochs(w)', SavesFirst(w)'
    PROVE  IInv'
<1>1. ASSUME NEW u \in Writers, u # w
      PROVE  TargetFollows(u)' /\ BaseIsRecent(u)' /\ KnowsOwnEpochs(u)'
    <2>1. phase'[u] = phase[u] /\ base'[u] = base[u] /\ target'[u] = target[u]
        BY <1>1
    <2>2. TargetFollows(u) /\ BaseIsRecent(u) /\ KnowsOwnEpochs(u)
        BY DEF IInv, TargetsAreSuccessors, BaseByRevision, OwnEpochs
    <2>3. TargetFollows(u)'
        BY <2>1, <2>2 DEF TargetFollows, Holding
    <2>4. BaseIsRecent(u)'
        BY <2>1, <2>2 DEF BaseIsRecent
    <2>5. KnowsOwnEpochs(u)'
        BY <2>1, <2>2 DEF KnowsOwnEpochs, Holding
    <2> QED
        BY <2>3, <2>4, <2>5
<1>2. ASSUME NEW u \in Writers, u # w
      PROVE  SavesFirst(u)'
    <2>1. SavesFirst(u)
        BY DEF IInv, FirstSave
    <2>2. holder' # u => holder # u
        BY <1>2, StoreAssumption
    <2> QED
        BY <1>2, <2>1, <2>2 DEF SavesFirst
<1>3. RowMatchesEpochs'
    BY DEF IInv, FirstSave, RowMatchesEpochs
<1>4. HolderIsChecked'
    BY StoreAssumption DEF IInv, HolderIsChecked, TypeOK
<1>5. CheckedWriterIsCurrent'
    BY StoreAssumption DEF IInv, CheckedWriterIsCurrent, TypeOK
<1> QED
    BY <1>1, <1>2, <1>3, <1>4, <1>5
    DEF IInv, TargetsAreSuccessors, BaseByRevision, OwnEpochs, FirstSave
-----------------------------------------------------------------------------
(* The initial state: nothing saved, everybody idle. *)
LEMMA InitIsInvariant == Init => IInv
<1> SUFFICES ASSUME Init PROVE IInv
    OBVIOUS
<1>1. TypeOK
    BY EmptyFacts DEF Init, TypeOK, Phases
<1>2. \A w \in Writers : phase[w] = "idle"
    BY DEF Init
<1>3. TargetsAreSuccessors /\ BaseByRevision /\ OwnEpochs
    BY <1>2 DEF TargetsAreSuccessors, TargetFollows, BaseByRevision, BaseIsRecent,
               OwnEpochs, KnowsOwnEpochs, Holding
<1>4. FirstSave
    BY <1>2, EmptyFacts DEF Init, FirstSave, RowMatchesEpochs, SavesFirst
<1>5. HolderIsChecked /\ CheckedWriterIsCurrent
    BY DEF Init, HolderIsChecked, CheckedWriterIsCurrent
<1> QED
    BY <1>1, <1>3, <1>4, <1>5 DEF IInv

(* A writer that drops its scheduler has nothing left to be wrong about. *)
LEMMA IdleWriter ==
    ASSUME TypeOK, NEW w \in Writers, GoIdle(w)
    PROVE  /\ phase'[w] = "idle"
           /\ phase' \in [Writers -> Phases]
           /\ base' \in [Writers -> Log!Snapshots]
           /\ target' \in [Writers -> Log!Snapshots]
           /\ \A u \in Writers \ {w} : /\ phase'[u] = phase[u]
                                       /\ base'[u] = base[u]
                                       /\ target'[u] = target[u]
           /\ TargetFollows(w)' /\ BaseIsRecent(w)' /\ KnowsOwnEpochs(w)' /\ SavesFirst(w)'
<1>1. /\ phase'[w] = "idle"
      /\ phase' \in [Writers -> Phases]
      /\ base' \in [Writers -> Log!Snapshots]
      /\ target' \in [Writers -> Log!Snapshots]
      /\ \A u \in Writers \ {w} : /\ phase'[u] = phase[u]
                                  /\ base'[u] = base[u]
                                  /\ target'[u] = target[u]
    BY EmptyFacts DEF TypeOK, GoIdle, Phases
<1> QED
    BY <1>1 DEF TargetFollows, BaseIsRecent, KnowsOwnEpochs, SavesFirst, Holding

(* Only a checked writer holds the row lock. *)
LEMMA UncheckedWriterHoldsNothing ==
    ASSUME IInv, NEW w \in Writers, phase[w] # "checked"
    PROVE  holder # w
    BY StoreAssumption DEF IInv, HolderIsChecked

(* load_scheduler reads the state row. *)
LEMMA LoadStateKeeps ==
    ASSUME IInv, NEW w \in Writers, LoadState(w)
    PROVE  IInv'
<1> DEFINE b == [Log!Empty EXCEPT !.epoch = committed.epoch, !.rev = committed.rev,
                                  !.pending = committed.pending]
<1>0. TypeOK /\ committed \in Log!Snapshots
    BY DEF IInv, TypeOK
<1>1. /\ b \in Log!Snapshots
      /\ b.epoch = committed.epoch
      /\ b.rev = committed.rev
      /\ b.pending = committed.pending
      /\ b.tasks = Log!Empty.tasks
    BY <1>0 DEF Log!Snapshots, Log!Empty
<1>2. base' = [base EXCEPT ![w] = b] /\ UNCHANGED <<committed, epochs, holder, target>>
    BY DEF LoadState
<1> HIDE DEF b
<1>3. phase'[w] \in {"reading", "loaded"} /\ phase' \in [Writers -> Phases]
    BY <1>0 DEF LoadState, TypeOK, Phases
<1>4. TypeOK' /\ base'[w] = b
    BY <1>0, <1>1, <1>2, <1>3 DEF TypeOK
<1>5. \A u \in Writers \ {w} : /\ phase'[u] = phase[u]
                               /\ base'[u] = base[u]
                               /\ target'[u] = target[u]
    BY <1>0, <1>2 DEF LoadState, TypeOK
<1>6. holder # w
    BY UncheckedWriterHoldsNothing DEF LoadState
<1>7. BaseIsRecent(w)'
    <2>1. phase'[w] = "loaded" => committed.tasks = Log!Empty.tasks
        BY <1>0 DEF LoadState, RowExists, IInv, FirstSave, RowMatchesEpochs, TypeOK
    <2>2. committed.rev \in Nat
        BY <1>0 DEF Log!Snapshots
    <2> QED
        BY <1>1, <1>2, <1>3, <1>4, <2>1, <2>2 DEF BaseIsRecent
<1>8. KnowsOwnEpochs(w)'
    <2>1. \A e \in Log!Epochs : committed.epoch # Append(committed.epoch, e)
        BY <1>0, AppendFacts DEF Log!Snapshots
    <2> QED
        BY <1>1, <1>2, <1>3, <1>4, <2>1 DEF KnowsOwnEpochs, Holding
<1>9. TargetFollows(w)' /\ SavesFirst(w)'
    BY <1>3 DEF TargetFollows, Holding, SavesFirst
<1> QED
    BY <1>2, <1>4, <1>5, <1>6, <1>7, <1>8, <1>9, StepOfOneWriter

(* load_scheduler reads the task rows. *)
LEMMA LoadTasksKeeps ==
    ASSUME IInv, NEW w \in Writers, LoadTasks(w)
    PROVE  IInv'
<1>0. TypeOK /\ committed \in Log!Snapshots /\ base[w] \in Log!Snapshots
    BY DEF IInv, TypeOK
<1> DEFINE b == [base[w] EXCEPT !.tasks = committed.tasks]
<1>1. /\ b \in Log!Snapshots
      /\ b.epoch = base[w].epoch
      /\ b.rev = base[w].rev
      /\ b.pending = base[w].pending
      /\ b.tasks = committed.tasks
    BY <1>0 DEF Log!Snapshots
<1>2. base' = [base EXCEPT ![w] = b] /\ UNCHANGED <<committed, epochs, holder, target>>
    BY DEF LoadTasks
<1> HIDE DEF b
<1>3. phase' = [phase EXCEPT ![w] = "validating"] /\ phase[w] = "reading"
    BY DEF LoadTasks
<1>4. TypeOK' /\ base'[w] = b /\ phase'[w] = "validating"
    BY <1>0, <1>1, <1>2, <1>3 DEF TypeOK, Phases
<1>5. \A u \in Writers \ {w} : /\ phase'[u] = phase[u]
                               /\ base'[u] = base[u]
                               /\ target'[u] = target[u]
    BY <1>0, <1>2, <1>3 DEF TypeOK
<1>6. holder # w
    BY <1>3, UncheckedWriterHoldsNothing
<1>7. BaseIsRecent(w)'
    <2>1. BaseIsRecent(w)
        BY DEF IInv, BaseByRevision
    <2> QED
        BY <1>1, <1>2, <1>3, <1>4, <2>1 DEF BaseIsRecent
<1>8. KnowsOwnEpochs(w)'
    <2>1. KnowsOwnEpochs(w)
        BY DEF IInv, OwnEpochs
    <2> QED
        BY <1>1, <1>2, <1>3, <1>4, <2>1 DEF KnowsOwnEpochs, Holding
<1>9. TargetFollows(w)' /\ SavesFirst(w)'
    BY <1>4 DEF TargetFollows, Holding, SavesFirst
<1> QED
    BY <1>2, <1>4, <1>5, <1>6, <1>7, <1>8, <1>9, StepOfOneWriter

(* load_scheduler reads the reservations and validates the snapshot. *)
LEMMA LoadReservationsKeeps ==
    ASSUME IInv, NEW w \in Writers, LoadReservations(w)
    PROVE  IInv'
<1>0. TypeOK
    BY DEF IInv
<1>1. UNCHANGED <<committed, epochs, holder>> /\ holder # w
    BY UncheckedWriterHoldsNothing DEF LoadReservations
<1>2. CASE GoIdle(w)
    BY <1>0, <1>1, <1>2, IdleWriter, StepOfOneWriter DEF TypeOK
<1>3. CASE /\ phase' = [phase EXCEPT ![w] = "loaded"]
           /\ UNCHANGED <<base, target>>
    <2>1. TypeOK' /\ phase'[w] = "loaded" /\ phase[w] = "validating"
        BY <1>0, <1>1, <1>3 DEF TypeOK, Phases, LoadReservations
    <2>2. \A u \in Writers \ {w} : /\ phase'[u] = phase[u]
                                   /\ base'[u] = base[u]
                                   /\ target'[u] = target[u]
        BY <1>0, <1>3 DEF TypeOK
    <2>3. BaseIsRecent(w)'
        BY <1>1, <1>3, <2>1 DEF IInv, BaseByRevision, BaseIsRecent
    <2>4. KnowsOwnEpochs(w)'
        BY <1>1, <1>3, <2>1 DEF IInv, OwnEpochs, KnowsOwnEpochs, Holding
    <2>5. TargetFollows(w)' /\ SavesFirst(w)'
        BY <2>1 DEF TargetFollows, Holding, SavesFirst
    <2> QED
        BY <1>1, <2>1, <2>2, <2>3, <2>4, <2>5, StepOfOneWriter
<1> QED
    BY <1>2, <1>3 DEF LoadReservations

(* A writer crashes or gives up. *)
LEMMA AbandonKeeps ==
    ASSUME IInv, NEW w \in Writers, Abandon(w)
    PROVE  IInv'
<1>1. UNCHANGED <<committed, epochs, holder>> /\ holder # w /\ GoIdle(w)
    BY UncheckedWriterHoldsNothing DEF Abandon
<1>2. TypeOK
    BY DEF IInv
<1> QED
    BY <1>1, <1>2, IdleWriter, StepOfOneWriter DEF TypeOK

(* A loaded writer turns its snapshot into one to save. *)
LEMMA PreparedWriter ==
    ASSUME IInv, NEW w \in Writers, NEW s,
           phase[w] = "loaded",
           Successor(w, base[w], s),
           target' = [target EXCEPT ![w] = s],
           phase' = [phase EXCEPT ![w] = "ready"],
           UNCHANGED <<committed, epochs, holder, base>>
    PROVE  IInv'
<1>0. TypeOK /\ base[w] \in Log!Snapshots /\ base[w].epoch \in Seq(Log!Epochs)
    BY DEF IInv, TypeOK, Log!Snapshots
<1>1. s \in Log!Snapshots /\ (IsPublication(w, base[w], s) \/ IsAcknowledgement(base[w], s))
    BY <1>0, SuccessorFacts
<1>2. TypeOK' /\ target'[w] = s /\ phase'[w] = "ready"
    BY <1>0, <1>1 DEF TypeOK, Phases
<1>3. \A u \in Writers \ {w} : /\ phase'[u] = phase[u]
                               /\ base'[u] = base[u]
                               /\ target'[u] = target[u]
    BY <1>0 DEF TypeOK
<1>4. holder # w
    BY UncheckedWriterHoldsNothing
<1>5. TargetFollows(w)' /\ SavesFirst(w)'
    BY <1>2 DEF TargetFollows, SavesFirst
<1>6. BaseIsRecent(w)'
    BY <1>2 DEF IInv, BaseByRevision, BaseIsRecent
<1>7. KnowsOwnEpochs(w)'
    <2>1. s.epoch # base[w].epoch => committed.epoch # s.epoch
        <3> SUFFICES ASSUME s.epoch # base[w].epoch PROVE committed.epoch # s.epoch
            OBVIOUS
        <3>1. PICK e \in Log!Epochs : e.by = w /\ s.epoch = Append(base[w].epoch, e)
            BY <1>1 DEF IsPublication, IsAcknowledgement
        <3> QED
            BY <3>1 DEF IInv, OwnEpochs, KnowsOwnEpochs
    <2> QED
        BY <1>2, <2>1 DEF KnowsOwnEpochs
<1> QED
    BY <1>2, <1>3, <1>4, <1>5, <1>6, <1>7, StepOfOneWriter

(* A writer plans an epoch. *)
LEMMA PlanKeeps ==
    ASSUME IInv, NEW w \in Writers, Plan(w)
    PROVE  IInv'
<1>1. PICK tasks \in Log!Changes(base[w]), assigned \in SUBSET Tasks,
           pending \in [Tasks -> Log!Roles] :
        /\ Log!IsPlan(base[w], tasks, assigned, pending)
        /\ target' = [target EXCEPT ![w] =
               Log!Published(base[w], w, tasks, assigned, pending)]
    BY DEF Plan
<1>2. Successor(w, base[w], Log!Published(base[w], w, tasks, assigned, pending))
    BY <1>1 DEF Successor, Plan
<1> QED
    BY <1>1, <1>2, PreparedWriter DEF Plan

(* A writer acknowledges a checkpoint. *)
LEMMA CheckpointKeeps ==
    ASSUME IInv, NEW w \in Writers, NEW t \in Tasks, CheckpointPendingPreemption(w, t)
    PROVE  IInv'
<1>1. Successor(w, base[w], Log!Acknowledged(base[w], t))
    BY DEF Successor, CheckpointPendingPreemption
<1> QED
    BY <1>1, PreparedWriter DEF CheckpointPendingPreemption

(* The generation check admits only a writer that planned from what is       *)
(* committed, or that has already committed what it wants to save.           *)
LEMMA MatchingGenerationIsCurrent ==
    ASSUME IInv, NEW w \in Writers, Holding(w), GenerationMatches(w)
    PROVE  committed \in {base[w], target[w]}
<1>0. /\ committed \in Log!Snapshots
      /\ base[w] \in Log!Snapshots
      /\ target[w] \in Log!Snapshots
      /\ base[w].epoch \in Seq(Log!Epochs)
      /\ base[w].pending \in [Tasks -> Log!Roles]
      /\ base[w].rev \in Nat
    BY DEF IInv, TypeOK, Log!Snapshots
<1>1. Successor(w, base[w], target[w])
    BY DEF IInv, TargetsAreSuccessors, TargetFollows
<1>2. /\ IsPublication(w, base[w], target[w]) \/ IsAcknowledgement(base[w], target[w])
      /\ target[w].rev = base[w].rev + 1
    BY <1>0, <1>1, SuccessorFacts
<1>3. BaseIsRecent(w) /\ phase[w] # "idle" /\ phase[w] # "reading"
    BY DEF IInv, BaseByRevision, Holding
<1>4. CASE committed.rev = base[w].rev
    <2>1. /\ committed.epoch = base[w].epoch
          /\ committed.pending = base[w].pending
          /\ committed.tasks = base[w].tasks
        BY <1>3, <1>4 DEF BaseIsRecent
    <2> QED
        BY <1>0, <1>4, <2>1, SnapshotEquality
<1>5. CASE committed.rev = target[w].rev /\ committed.pending = target[w].pending
    <2>1. CASE committed.epoch = base[w].epoch
        <3>1. PICK t \in Tasks :
                /\ base[w].pending[t] = "waiting"
                /\ committed.pending = [base[w].pending EXCEPT ![t] = "acked"]
            BY <1>2, <1>3, <1>5, <2>1 DEF BaseIsRecent
        <3>2. committed.tasks = base[w].tasks
            BY <1>2, <1>3, <1>5, <2>1 DEF BaseIsRecent
        <3>3. target[w].pending[t] = "acked"
            BY <1>0, <1>5, <3>1
        <3>4. ~IsPublication(w, base[w], target[w])
            BY <3>1, <3>3 DEF IsPublication
        <3>5. IsAcknowledgement(base[w], target[w])
            BY <1>2, <3>4
        <3>6. committed.epoch = target[w].epoch /\ committed.tasks = target[w].tasks
            BY <2>1, <3>2, <3>5 DEF IsAcknowledgement
        <3> QED
            BY <1>0, <1>5, <3>6, SnapshotEquality
    <2>2. CASE committed.epoch # base[w].epoch
        <3>1. committed.epoch = target[w].epoch
            BY <2>2 DEF GenerationMatches
        <3> QED
            BY <1>5, <2>2, <3>1 DEF IInv, OwnEpochs, KnowsOwnEpochs
    <2> QED
        BY <2>1, <2>2
<1> QED
    BY <1>4, <1>5 DEF GenerationMatches

(* save_scheduler locks and checks the generation, or finds no row. *)
LEMMA SaveBeginKeeps ==
    ASSUME IInv, NEW w \in Writers, SaveBegin(w)
    PROVE  IInv'
<1>0. /\ TypeOK
      /\ committed \in Log!Snapshots
      /\ base[w] \in Log!Snapshots
      /\ holder = NoWriter
      /\ holder # w
      /\ UNCHANGED <<committed, epochs>>
      /\ Holding(w)
    BY StoreAssumption DEF IInv, TypeOK, SaveBegin, Holding
<1>1. CASE /\ phase' = [phase EXCEPT ![w] = "checked"]
           /\ UNCHANGED <<base, target>>
           /\ holder' \in {w, NoWriter}
           /\ holder' = w => committed \in {base[w], target[w]}
           /\ holder' # w => base[w] = Log!Empty /\ target[w].epoch \notin epochs
    <2>1. TypeOK' /\ phase'[w] = "checked"
        BY <1>0, <1>1 DEF TypeOK, Phases
    <2>2. \A u \in Writers \ {w} : /\ phase'[u] = phase[u]
                                   /\ base'[u] = base[u]
                                   /\ target'[u] = target[u]
        BY <1>0, <1>1 DEF TypeOK
    <2>3. TargetFollows(w)'
        BY <1>0, <1>1, <2>1 DEF IInv, TargetsAreSuccessors, TargetFollows
    <2>4. BaseIsRecent(w)'
        BY <1>0, <1>1, <2>1 DEF IInv, BaseByRevision, BaseIsRecent, Holding
    <2>5. KnowsOwnEpochs(w)'
        BY <1>0, <1>1, <2>1 DEF IInv, OwnEpochs, KnowsOwnEpochs
    <2>6. SavesFirst(w)'
        BY <1>0, <1>1 DEF SavesFirst
    <2> QED
        BY <1>0, <1>1, <2>1, <2>2, <2>3, <2>4, <2>5, <2>6, StepOfOneWriter
<1>2. CASE RowExists /\ GenerationMatches(w) /\ holder' = w
           /\ phase' = [phase EXCEPT ![w] = "checked"] /\ UNCHANGED <<base, target>>
    BY <1>0, <1>1, <1>2, MatchingGenerationIsCurrent
<1>3. CASE ~RowExists /\ base[w].epoch = <<>>
           /\ phase' = [phase EXCEPT ![w] = "checked"] /\ UNCHANGED <<holder, base, target>>
    <2>1. committed = Log!Empty /\ epochs = {}
        BY <1>3 DEF RowExists, IInv, FirstSave, RowMatchesEpochs
    <2>2. base[w].rev = committed.rev
        BY <1>0, <2>1, EmptyFacts
        DEF IInv, BaseByRevision, BaseIsRecent, Holding, Log!Snapshots
    <2>3. /\ base[w].epoch = committed.epoch
          /\ base[w].pending = committed.pending
          /\ base[w].tasks = committed.tasks
        BY <1>0, <2>2 DEF IInv, BaseByRevision, BaseIsRecent, Holding
    <2>4. base[w] = Log!Empty
        BY <1>0, <2>1, <2>2, <2>3, SnapshotEquality
    <2> QED
        BY <1>0, <1>1, <1>3, <2>1, <2>4
<1>4. CASE GoIdle(w) /\ UNCHANGED holder
    BY <1>0, <1>4, IdleWriter, StepOfOneWriter DEF TypeOK
<1> QED
    BY <1>2, <1>3, <1>4 DEF SaveBegin

(* The writer whose save ended: its own part of the invariant, as long as    *)
(* what it knows of the committed scheduler is still right.                  *)
LEMMA EndedSave ==
    ASSUME IInv, NEW w \in Writers, phase[w] = "checked", EndSave(w)
    PROVE  /\ phase'[w] \in {"idle", "unsure"}
           /\ phase'[w] = "unsure" => base'[w] = base[w] /\ target'[w] = target[w]
           /\ phase' \in [Writers -> Phases]
           /\ base' \in [Writers -> Log!Snapshots]
           /\ target' \in [Writers -> Log!Snapshots]
           /\ \A u \in Writers \ {w} : /\ phase'[u] = phase[u]
                                       /\ base'[u] = base[u]
                                       /\ target'[u] = target[u]
           /\ TargetFollows(w)' /\ SavesFirst(w)'
<1>0. TypeOK /\ Successor(w, base[w], target[w])
    BY DEF IInv, TargetsAreSuccessors, TargetFollows, Holding
<1>1. CASE GoIdle(w)
    BY <1>0, <1>1, IdleWriter
<1>2. CASE phase' = [phase EXCEPT ![w] = "unsure"] /\ UNCHANGED <<base, target>>
    <2>1. /\ phase'[w] = "unsure"
          /\ phase' \in [Writers -> Phases]
          /\ base' \in [Writers -> Log!Snapshots]
          /\ target' \in [Writers -> Log!Snapshots]
          /\ \A u \in Writers \ {w} : /\ phase'[u] = phase[u]
                                      /\ base'[u] = base[u]
                                      /\ target'[u] = target[u]
        BY <1>0, <1>2 DEF TypeOK, Phases
    <2>2. TargetFollows(w)' /\ SavesFirst(w)'
        BY <1>0, <1>2, <2>1 DEF TargetFollows, SavesFirst
    <2> QED
        BY <1>2, <2>1, <2>2
<1> QED
    BY <1>1, <1>2 DEF EndSave

(* save_scheduler rolls back. *)
LEMMA SaveFailKeeps ==
    ASSUME IInv, NEW w \in Writers, SaveFail(w)
    PROVE  IInv'
<1>1. /\ phase[w] = "checked"
      /\ EndSave(w)
      /\ UNCHANGED <<committed, epochs>>
      /\ holder' = Unlocked(w)
    BY DEF SaveFail
<1>2. /\ TypeOK'
      /\ holder' # w
      /\ \/ holder' = holder /\ holder # w
         \/ holder \in {w, NoWriter} /\ holder' \in {w, NoWriter}
    BY <1>1, EndedSave, StoreAssumption DEF IInv, TypeOK, Unlocked
<1>3. BaseIsRecent(w)'
    <2>1. /\ BaseIsRecent(w)
          /\ phase'[w] \in {"idle", "unsure"}
          /\ phase'[w] = "unsure" => base'[w] = base[w]
        BY <1>1, EndedSave DEF IInv, BaseByRevision
    <2> QED
        BY <1>1, <2>1 DEF BaseIsRecent
<1>4. KnowsOwnEpochs(w)'
    BY <1>1, EndedSave DEF IInv, OwnEpochs, KnowsOwnEpochs, Holding
<1> QED
    BY <1>1, <1>2, <1>3, <1>4, EndedSave, StepOfOneWriter

(* The one step that changes the committed scheduler. *)
LEMMA SaveCommitKeeps ==
    ASSUME IInv, NEW w \in Writers, SaveCommit(w)
    PROVE  IInv'
<1>0. /\ phase[w] = "checked"
      /\ holder \in {w, NoWriter}
      /\ holder' = NoWriter
      /\ EndSave(w)
      /\ epochs' = epochs \cup {target[w].epoch}
      /\ holder' # w
    BY StoreAssumption DEF SaveCommit, Unlocked
<1>1. /\ committed \in Log!Snapshots
      /\ base[w] \in Log!Snapshots
      /\ target[w] \in Log!Snapshots
      /\ target[w].epoch \in Seq(Log!Epochs)
      /\ base[w].epoch \in Seq(Log!Epochs)
      /\ base[w].rev \in Nat
      /\ committed.rev \in Nat
    BY DEF IInv, TypeOK, Log!Snapshots
<1>2. Successor(w, base[w], target[w])
    BY <1>0 DEF IInv, TargetsAreSuccessors, TargetFollows, Holding
<1>3. /\ IsPublication(w, base[w], target[w]) \/ IsAcknowledgement(base[w], target[w])
      /\ target[w].rev = base[w].rev + 1
    BY <1>1, <1>2, SuccessorFacts
<1>4. /\ committed' = target[w]
      /\ committed \in {base[w], target[w]}
      /\ target[w].epoch # <<>>
    BY CommitEffect
<1>5. TypeOK'
    BY <1>0, <1>1, <1>4, EndedSave DEF IInv, TypeOK
<1>6. ASSUME NEW u \in Writers
      PROVE  TargetFollows(u)'
    <2>1. CASE u = w
        BY <1>0, <2>1, EndedSave
    <2>2. CASE u # w
        BY <1>0, <2>2, EndedSave DEF IInv, TargetsAreSuccessors, TargetFollows, Holding
    <2> QED
        BY <2>1, <2>2
<1>7. ASSUME NEW u \in Writers
      PROVE  BaseIsRecent(u)'
    <2> SUFFICES ASSUME phase'[u] # "idle" PROVE BaseIsRecent(u)'
        BY DEF BaseIsRecent
    <2>1. /\ BaseIsRecent(u)
          /\ base'[u] = base[u]
          /\ phase[u] # "idle"
          /\ phase'[u] = "reading" <=> phase[u] = "reading"
        BY <1>0, EndedSave DEF IInv, BaseByRevision
    <2>2. base[u].rev \in Nat
        BY DEF IInv, TypeOK, Log!Snapshots
    <2>3. CASE committed = target[w]
        BY <1>4, <2>1, <2>3 DEF BaseIsRecent
    <2>4. CASE committed = base[w]
        <3>1. committed'.rev = committed.rev + 1 /\ base[u].rev <= committed.rev
            BY <1>3, <1>4, <2>1, <2>4 DEF BaseIsRecent
        <3>2. ASSUME base[u].rev + 1 = committed'.rev, base[u].epoch = committed'.epoch
              PROVE  /\ \E t \in Tasks :
                          /\ base[u].pending[t] = "waiting"
                          /\ committed'.pending = [base[u].pending EXCEPT ![t] = "acked"]
                     /\ phase[u] # "reading" => base[u].tasks = committed'.tasks
            <4>1. base[u].rev = committed.rev
                BY <1>1, <2>2, <3>1, <3>2
            <4>2. /\ base[u].epoch = committed.epoch
                  /\ base[u].pending = committed.pending
                  /\ phase[u] # "reading" => base[u].tasks = committed.tasks
                BY <2>1, <4>1 DEF BaseIsRecent
            <4>3. target[w].epoch = base[w].epoch
                BY <1>4, <2>4, <3>2, <4>2
            <4>4. IsAcknowledgement(base[w], target[w])
                BY <1>1, <1>3, <4>3, AppendFacts DEF IsPublication
            <4> QED
                BY <1>4, <2>4, <4>2, <4>4 DEF IsAcknowledgement
        <3> QED
            BY <1>1, <2>1, <2>2, <3>1, <3>2 DEF BaseIsRecent
    <2> QED
        BY <1>4, <2>3, <2>4
<1>8. ASSUME NEW u \in Writers
      PROVE  KnowsOwnEpochs(u)'
    <2>1. CASE u = w
        <3>1. phase'[w] \in {"idle", "unsure"}
            BY <1>0, EndedSave
        <3>2. phase'[w] = "unsure" => committed' = target'[w]
            BY <1>0, <1>4, EndedSave
        <3> QED
            BY <1>1, <1>3, <1>4, <2>1, <3>1, <3>2 DEF KnowsOwnEpochs, Holding
    <2>2. CASE u # w
        <3>1. /\ phase'[u] = phase[u]
              /\ base'[u] = base[u]
              /\ target'[u] = target[u]
              /\ KnowsOwnEpochs(u)
            BY <1>0, <2>2, EndedSave DEF IInv, OwnEpochs
        <3>2. /\ base[u] \in Log!Snapshots
              /\ base[u].epoch \in Seq(Log!Epochs)
              /\ target[u].rev \in Nat
            BY DEF IInv, TypeOK, Log!Snapshots
        <3>3. CASE committed' = committed
            BY <3>1, <3>3 DEF KnowsOwnEpochs, Holding
        <3>4. CASE committed = base[w] /\ IsAcknowledgement(base[w], target[w])
            <4>1. committed'.epoch = committed.epoch /\ committed'.rev = committed.rev + 1
                BY <1>3, <1>4, <3>4 DEF IsAcknowledgement
            <4> QED
                BY <1>1, <3>1, <3>2, <4>1 DEF KnowsOwnEpochs, Holding
        <3>5. CASE committed = base[w] /\ IsPublication(w, base[w], target[w])
            <4>1. PICK e \in Log!Epochs : e.by = w /\ committed'.epoch = Append(base[w].epoch, e)
                BY <1>4, <3>5 DEF IsPublication
            <4>2. \A f \in Log!Epochs : f.by = u => committed'.epoch # Append(base[u].epoch, f)
                BY <1>1, <2>2, <3>2, <4>1, AppendedEpochIsLast
            <4>3. Holding(u) /\ target[u].epoch # base[u].epoch => committed'.epoch # target[u].epoch
                <5> SUFFICES ASSUME Holding(u), target[u].epoch # base[u].epoch
                             PROVE  committed'.epoch # target[u].epoch
                    OBVIOUS
                <5>1. Successor(u, base[u], target[u])
                    BY DEF IInv, TargetsAreSuccessors, TargetFollows
                <5>2. IsPublication(u, base[u], target[u])
                    BY <3>2, <5>1, SuccessorFacts DEF IsAcknowledgement
                <5> QED
                    BY <4>2, <5>2 DEF IsPublication
            <4> QED
                BY <3>1, <4>2, <4>3 DEF KnowsOwnEpochs, Holding
        <3> QED
            BY <1>3, <1>4, <3>3, <3>4, <3>5
    <2> QED
        BY <2>1, <2>2
<1>9. RowMatchesEpochs'
    <2>1. committed'.epoch # <<>> /\ committed'.epoch \in epochs'
        BY <1>0, <1>4
    <2>2. \E e \in epochs' : Len(e) = 1
        <3>1. CASE committed.epoch # <<>>
            BY <1>0, <3>1 DEF IInv, FirstSave, RowMatchesEpochs
        <3>2. CASE committed.epoch = <<>>
            <4>1. committed = Log!Empty /\ committed = base[w]
                BY <1>4, <3>2 DEF IInv, FirstSave, RowMatchesEpochs
            <4>2. IsPublication(w, base[w], target[w])
                BY <1>3, <4>1, EmptyFacts DEF IsAcknowledgement
            <4>3. Len(target[w].epoch) = 1
                BY <1>1, <4>1, <4>2, EmptyFacts, AppendFacts DEF IsPublication
            <4> QED
                BY <1>0, <4>3
        <3> QED
            BY <3>1, <3>2
    <2> QED
        BY <2>1, <2>2 DEF RowMatchesEpochs
<1>10. ASSUME NEW u \in Writers
       PROVE  SavesFirst(u)'
    <2>1. CASE u = w
        BY <1>0, <2>1, EndedSave
    <2>2. CASE u # w
        <3> SUFFICES ASSUME phase'[u] = "checked"
                     PROVE  base'[u] = Log!Empty /\ target'[u].epoch \notin epochs'
            BY DEF SavesFirst
        <3>1. phase[u] = "checked" /\ base'[u] = base[u] /\ target'[u] = target[u]
            BY <1>0, <2>2, EndedSave
        <3>2. base[u] = Log!Empty /\ target[u].epoch \notin epochs
            BY <1>0, <2>2, <3>1, StoreAssumption DEF IInv, FirstSave, SavesFirst
        <3>3. Successor(u, base[u], target[u])
            BY <3>1 DEF IInv, TargetsAreSuccessors, TargetFollows, Holding
        <3>4. IsPublication(u, base[u], target[u])
            <4>1. IsPublication(u, base[u], target[u]) \/ IsAcknowledgement(base[u], target[u])
                BY <3>2, <3>3, SuccessorFacts, EmptyFacts
            <4> QED
                BY <3>2, <4>1, EmptyFacts DEF IsAcknowledgement
        <3>5. target[u].epoch # target[w].epoch
            <4>1. CASE IsPublication(w, base[w], target[w])
                <5>1. base[u].epoch \in Seq(Log!Epochs)
                    BY DEF IInv, TypeOK, Log!Snapshots
                <5> QED
                    BY <1>1, <2>2, <3>4, <4>1, <5>1, AppendedEpochIsLast DEF IsPublication
            <4>2. CASE IsAcknowledgement(base[w], target[w])
                <5>1. committed.epoch = target[w].epoch
                    BY <1>4, <4>2 DEF IsAcknowledgement
                <5>2. target[w].epoch \in epochs
                    BY <1>4, <5>1 DEF IInv, FirstSave, RowMatchesEpochs
                <5> QED
                    BY <3>2, <5>2
            <4> QED
                BY <1>3, <4>1, <4>2
        <3> QED
            BY <1>0, <3>1, <3>2, <3>5
    <2> QED
        BY <2>1, <2>2
<1>11. HolderIsChecked' /\ CheckedWriterIsCurrent'
    BY <1>0 DEF HolderIsChecked, CheckedWriterIsCurrent
<1> QED
    BY <1>5, <1>6, <1>7, <1>8, <1>9, <1>10, <1>11
    DEF IInv, TargetsAreSuccessors, BaseByRevision, OwnEpochs, FirstSave
-----------------------------------------------------------------------------
(* Every step keeps the invariant. *)
LEMMA NextKeeps == IInv /\ [Next]_vars => IInv'
<1> SUFFICES ASSUME IInv, [Next]_vars PROVE IInv'
    OBVIOUS
<1>1. ASSUME NEW w \in Writers, LoadState(w) PROVE IInv'
    BY <1>1, LoadStateKeeps
<1>2. ASSUME NEW w \in Writers, LoadTasks(w) PROVE IInv'
    BY <1>2, LoadTasksKeeps
<1>3. ASSUME NEW w \in Writers, LoadReservations(w) PROVE IInv'
    BY <1>3, LoadReservationsKeeps
<1>4. ASSUME NEW w \in Writers, Plan(w) PROVE IInv'
    BY <1>4, PlanKeeps
<1>5. ASSUME NEW w \in Writers, NEW t \in Tasks, CheckpointPendingPreemption(w, t) PROVE IInv'
    BY <1>5, CheckpointKeeps
<1>6. ASSUME NEW w \in Writers, SaveBegin(w) PROVE IInv'
    BY <1>6, SaveBeginKeeps
<1>7. ASSUME NEW w \in Writers, SaveCommit(w) PROVE IInv'
    BY <1>7, SaveCommitKeeps
<1>8. ASSUME NEW w \in Writers, SaveFail(w) PROVE IInv'
    BY <1>8, SaveFailKeeps
<1>9. ASSUME NEW w \in Writers, Abandon(w) PROVE IInv'
    BY <1>9, AbandonKeeps
<1>10. CASE UNCHANGED vars
    BY <1>10 DEF vars, IInv, TypeOK, TargetsAreSuccessors, TargetFollows, BaseByRevision,
        BaseIsRecent, OwnEpochs, KnowsOwnEpochs, FirstSave, RowMatchesEpochs, SavesFirst,
        Holding, HolderIsChecked, CheckedWriterIsCurrent
<1> QED
    BY <1>1, <1>2, <1>3, <1>4, <1>5, <1>6, <1>7, <1>8, <1>9, <1>10 DEF Next

(* The inductive invariant holds throughout. *)
THEOREM IInvHolds == Spec => []IInv
<1> QED
    BY InitIsInvariant, NextKeeps, PTL DEF Spec

(* The store keeps its types. *)
THEOREM StoreTypeCorrect == Spec => []TypeOK
<1>1. IInv => TypeOK
    BY DEF IInv
<1> QED
    BY <1>1, IInvHolds, PTL

(* A writer that holds the row lock after the generation check knows the     *)
(* committed scheduler, or has already saved what it is about to save.       *)
THEOREM LockHolderIsCurrent == Spec => []CheckedWriterIsCurrent
<1>1. IInv => CheckedWriterIsCurrent
    BY DEF IInv
<1> QED
    BY <1>1, IInvHolds, PTL

(* Whatever a step does to the committed scheduler, one indivisible step     *)
(* from the committed scheduler does.                                        *)
LEMMA StepsAreLogSteps ==
    ASSUME IInv, [Next]_vars
    PROVE  \/ committed' = committed
           \/ \E w \in Writers : Successor(w, committed, committed')
<1>1. ASSUME NEW w \in Writers, SaveCommit(w)
      PROVE  committed' = committed \/ Successor(w, committed, committed')
    <2>1. Successor(w, base[w], target[w])
        BY <1>1 DEF IInv, TargetsAreSuccessors, TargetFollows, Holding, SaveCommit
    <2> QED
        BY <1>1, <2>1, CommitEffect
<1> QED
    BY <1>1 DEF Next, vars, LoadState, LoadTasks, LoadReservations, Plan,
               CheckpointPendingPreemption, SaveBegin, SaveFail, Abandon

(* Saves are serializable: the store of several writers, with torn loads,    *)
(* unlocked first saves and repeated saves, implements the atomic log.       *)
THEOREM StoreImplementsLog == Spec => ImplementsEpochLog
<1>1. Init => Log!Init
    BY DEF Init, Log!Init
<1>2. IInv /\ [Next]_vars => [Log!Next]_committed
    <2> SUFFICES ASSUME IInv, [Next]_vars, committed' # committed
                 PROVE  Log!Next
        OBVIOUS
    <2>1. PICK w \in Writers : Successor(w, committed, committed')
        BY StepsAreLogSteps
    <2> QED
        BY <2>1 DEF Successor, Log!Next, Log!Publish, Log!Acknowledge
<1> QED
    BY <1>1, <1>2, IInvHolds, PTL DEF Spec, ImplementsEpochLog, Log!Spec

(* No commit takes back a submission, a completion or an acknowledgement. *)
THEOREM CommitsTakeNothingBack == Spec => NothingIsTakenBack
<1>1. IInv /\ [Next]_vars => [TakesNothingBack]_vars
    <2> SUFFICES ASSUME IInv, [Next]_vars
                 PROVE  TakesNothingBack
        OBVIOUS
    <2>0. committed \in Log!Snapshots /\ committed.epoch \in Seq(Log!Epochs)
          /\ committed.pending \in [Tasks -> Log!Roles]
        BY DEF IInv, TypeOK, Log!Snapshots
    <2>1. CASE committed' = committed
        BY <2>1 DEF TakesNothingBack
    <2>2. ASSUME NEW w \in Writers, Successor(w, committed, committed')
          PROVE  TakesNothingBack
        <3>1. /\ \A t \in Tasks : committed'.tasks[t] = "NONE" => committed.tasks[t] = "NONE"
              /\ \A t \in Tasks : committed.tasks[t] = "COMPLETED" => committed'.tasks[t] = "COMPLETED"
              /\ \/ IsPublication(w, committed, committed')
                 \/ IsAcknowledgement(committed, committed')
            BY <2>0, <2>2, SuccessorFacts
        <3>2. ASSUME NEW t \in Tasks, committed.pending[t] = "acked",
                     committed'.epoch = committed.epoch
              PROVE  committed'.pending[t] = "acked"
            <4>1. IsAcknowledgement(committed, committed')
                BY <2>0, <3>1, <3>2, AppendFacts DEF IsPublication
            <4> QED
                BY <2>0, <3>2, <4>1 DEF IsAcknowledgement
        <3> QED
            BY <3>1, <3>2 DEF TakesNothingBack
    <2> QED
        BY <2>1, <2>2, StepsAreLogSteps
<1> QED
    BY <1>1, IInvHolds, PTL DEF Spec, NothingIsTakenBack

(* The current epoch is only ever replaced by a successor. *)
THEOREM EpochsAreChained == Spec => EpochsFormOneChain
<1>1. IInv /\ [Next]_vars => [ExtendsChain]_vars
    <2> SUFFICES ASSUME IInv, [Next]_vars
                 PROVE  ExtendsChain
        OBVIOUS
    <2>0. committed \in Log!Snapshots /\ committed.epoch \in Seq(Log!Epochs)
        BY DEF IInv, TypeOK, Log!Snapshots
    <2>1. CASE committed' = committed
        BY <2>1 DEF ExtendsChain
    <2>2. ASSUME NEW w \in Writers, Successor(w, committed, committed')
          PROVE  ExtendsChain
        <3>1. CASE IsPublication(w, committed, committed')
            BY <2>0, <3>1, AppendFacts DEF IsPublication, ExtendsChain
        <3>2. CASE IsAcknowledgement(committed, committed')
            BY <3>2 DEF IsAcknowledgement, ExtendsChain
        <3> QED
            BY <2>0, <2>2, <3>1, <3>2, SuccessorFacts
    <2> QED
        BY <2>1, <2>2, StepsAreLogSteps
<1> QED
    BY <1>1, IInvHolds, PTL DEF Spec, EpochsFormOneChain
=============================================================================
