------------------------------ MODULE GuiJobs ------------------------------
(***************************************************************************)
(* The foreground jobs of the local app (gui_jobs.py): one at a time, each  *)
(* a worker process of its own with a receipt on disk.  The server may die  *)
(* between any two writes; the worker lives on in its own session, and the  *)
(* next server reads the receipts.                                          *)
(***************************************************************************)
EXTENDS Naturals, FiniteSets

CONSTANTS
    JobIds,         \* jobs that may be submitted
    NoJob,          \* no job
    MaxCrashes      \* bound on deaths of the server

ASSUME JobsAssumption == NoJob \notin JobIds /\ MaxCrashes \in Nat

VARIABLES
    receipt,    \* job.json: status, and whether the process id is in it
    worker,     \* the worker process of each job
    outcome,    \* jobs whose worker has written a result (result.json)
    server,     \* whether it is up, its active job, whether it adopted it, and what it is at
    crashes

jobVars == <<receipt, worker, outcome, server, crashes>>

ActiveStates == {"running", "cancelling"}
FinalStates == {"completed", "failed", "cancelled", "interrupted"}
NoReceipt == [status |-> "none", pid |-> FALSE]
IdleServer == [up |-> TRUE, active |-> NoJob, adopted |-> FALSE, at |-> "idle", job |-> NoJob]

JobsInit ==
    /\ receipt = [j \in JobIds |-> NoReceipt]
    /\ worker = [j \in JobIds |-> "none"]
    /\ outcome = {}
    /\ server = IdleServer
    /\ crashes = 0

Writes(j, status) == receipt' = [receipt EXCEPT ![j].status = status]
ServerFree == server.up /\ server.at = "idle"
-----------------------------------------------------------------------------
(* submit, under the lock of the manager: the receipt comes first ... *)
Submit(j) ==
    /\ ServerFree /\ server.active = NoJob
    /\ receipt[j] = NoReceipt
    /\ Writes(j, "running")
    /\ server' = [server EXCEPT !.at = "launch", !.job = j]
    /\ UNCHANGED <<worker, outcome, crashes>>

(* ... then the process ... *)
Launch ==
    /\ server.at = "launch"
    /\ worker' = [worker EXCEPT ![server.job] = "running"]
    /\ server' = [server EXCEPT !.at = "pid"]
    /\ UNCHANGED <<receipt, outcome, crashes>>

LaunchFails ==
    /\ server.at = "launch"
    /\ Writes(server.job, "failed")
    /\ server' = IdleServer
    /\ UNCHANGED <<worker, outcome, crashes>>

(* ... whose identity goes into the receipt before anyone waits for it. *)
RecordPid ==
    /\ server.at = "pid"
    /\ receipt' = [receipt EXCEPT ![server.job].pid = TRUE]
    /\ server' = [IdleServer EXCEPT !.active = server.job]
    /\ UNCHANGED <<worker, outcome, crashes>>

(* gui_worker: the worker writes its result and exits, or fails before or    *)
(* after that.                                                               *)
WorkerWrites(j) ==
    /\ worker[j] = "running" /\ j \notin outcome
    /\ outcome' = outcome \cup {j}
    /\ UNCHANGED <<receipt, worker, server, crashes>>

WorkerExits(j) ==
    /\ worker[j] = "running"
    /\ \E code \in {"succeeded", "failed"} :
          /\ code = "succeeded" => j \in outcome
          /\ worker' = [worker EXCEPT ![j] = code]
    /\ UNCHANGED <<receipt, outcome, server, crashes>>

(* A mutant of Settle: a process that left no exit code has succeeded. *)
SettleWithoutResult(j) ==
    /\ ServerFree /\ server.active = j
    /\ worker[j] \in {"succeeded", "failed", "killed"}
    /\ Writes(j, IF receipt[j].status = "cancelling" THEN "cancelled"
                 ELSE IF worker[j] = "succeeded" \/ server.adopted THEN "completed" ELSE "failed")
    /\ server' = IdleServer
    /\ UNCHANGED <<worker, outcome, crashes>>

(* A mutant of Settle: the server keeps the job as its active one. *)
SettleWithoutClearing(j) ==
    /\ ServerFree /\ server.active = j
    /\ worker[j] \in {"succeeded", "failed", "killed"}
    /\ Writes(j, IF receipt[j].status = "cancelling" THEN "cancelled"
                 ELSE IF worker[j] = "succeeded" THEN "completed" ELSE "failed")
    /\ UNCHANGED <<worker, outcome, server, crashes>>

(* _wait: the exit code, or the result where the server adopted the process  *)
(* and cannot read one, decides what becomes of the job.                     *)
Settle(j) ==
    /\ ServerFree /\ server.active = j
    /\ worker[j] \in {"succeeded", "failed", "killed"}
    /\ Writes(j, IF receipt[j].status = "cancelling" THEN "cancelled"
                 ELSE IF worker[j] = "succeeded" \/ (server.adopted /\ j \in outcome)
                 THEN "completed" ELSE "failed")
    /\ server' = IdleServer
    /\ UNCHANGED <<worker, outcome, crashes>>

(* cancel marks the receipt and then kills the process tree, under the lock. *)
Cancel(j) ==
    /\ ServerFree /\ server.active = j
    /\ Writes(j, "cancelling")
    /\ server' = [server EXCEPT !.at = "kill", !.job = j]
    /\ UNCHANGED <<worker, outcome, crashes>>

Kill ==
    /\ server.at = "kill"
    /\ worker' = [worker EXCEPT ![server.job] = IF @ = "running" THEN "killed" ELSE @]
    /\ server' = [server EXCEPT !.at = "idle", !.job = NoJob]
    /\ UNCHANGED <<receipt, outcome, crashes>>

ServerDies ==
    /\ server.up /\ crashes < MaxCrashes
    /\ crashes' = crashes + 1
    /\ server' = [IdleServer EXCEPT !.up = FALSE]
    /\ UNCHANGED <<receipt, worker, outcome>>

(* _owned_process: alive, and named by the receipt. *)
Owned == {j \in JobIds : receipt[j].status \in ActiveStates /\ receipt[j].pid /\ worker[j] = "running"}

(* A mutant of Restart: a job that was being cancelled is left as it is. *)
RestartRunningOnly ==
    /\ ~server.up
    /\ \E adopted \in IF Owned = {} THEN {NoJob} ELSE Owned :
          /\ receipt' = [j \in JobIds |->
                            IF receipt[j].status = "running" /\ j # adopted
                            THEN [receipt[j] EXCEPT !.status = "interrupted"] ELSE receipt[j]]
          /\ server' = [IdleServer EXCEPT !.active = adopted, !.adopted = adopted # NoJob]
    /\ UNCHANGED <<worker, outcome, crashes>>

(* A mutant of Restart: every receipt that is still active was interrupted. *)
RestartWithoutAdoption ==
    /\ ~server.up
    /\ receipt' = [j \in JobIds |->
                      IF receipt[j].status \in ActiveStates
                      THEN [receipt[j] EXCEPT !.status = "interrupted"] ELSE receipt[j]]
    /\ server' = IdleServer
    /\ UNCHANGED <<worker, outcome, crashes>>

(* The manager starts: it adopts an owned process, the first it meets, and   *)
(* every other active receipt is of an interrupted job.                      *)
Restart ==
    /\ ~server.up
    /\ \E adopted \in IF Owned = {} THEN {NoJob} ELSE Owned :
          /\ receipt' = [j \in JobIds |->
                            IF receipt[j].status \in ActiveStates /\ j # adopted
                            THEN [receipt[j] EXCEPT !.status = "interrupted"] ELSE receipt[j]]
          /\ server' = [IdleServer EXCEPT !.active = adopted, !.adopted = adopted # NoJob]
    /\ UNCHANGED <<worker, outcome, crashes>>

ServerStep == Launch \/ LaunchFails \/ RecordPid \/ Kill \/ Restart

JobsNext ==
    \/ ServerStep
    \/ ServerDies
    \/ \E j \in JobIds :
          Submit(j) \/ WorkerWrites(j) \/ WorkerExits(j) \/ Settle(j) \/ Cancel(j)

(* The server goes on with what it began and is started again; a worker that *)
(* runs ends; the thread that waits for it gets the lock in the end, however *)
(* often the operator cancels.                                               *)
JobsFairness ==
    /\ WF_jobVars(ServerStep)
    /\ \A j \in JobIds : WF_jobVars(WorkerExits(j)) /\ SF_jobVars(Settle(j))

JobsSpec == JobsInit /\ [][JobsNext]_jobVars /\ JobsFairness
-----------------------------------------------------------------------------
JobsTypeOK ==
    /\ \A j \in JobIds :
          /\ receipt[j].status \in {"none"} \cup ActiveStates \cup FinalStates
          /\ receipt[j].pid => worker[j] # "none"
    /\ outcome \subseteq JobIds
    /\ server.active = NoJob \/ receipt[server.active].status \in ActiveStates
    /\ server.at = "idle" <=> server.job = NoJob
    /\ crashes \in 0 .. MaxCrashes

(* A receipt says "completed" only for a worker that wrote its result,       *)
(* whoever was waiting when it ended.                                        *)
CompletedHasResult == \A j \in JobIds : receipt[j].status = "completed" => j \in outcome

(* Of the processes that their receipts name, at most one runs, and it is    *)
(* the active job of any server that is free: no second job starts beside    *)
(* it, across deaths of the server and whatever the receipt says by then.    *)
OneOwnedWorker ==
    LET named == {j \in JobIds : receipt[j].pid /\ worker[j] = "running"}
    IN  /\ Cardinality(named) <= 1
        /\ ServerFree => named \subseteq {server.active}

(* No receipt stays active for ever: every job is completed, failed,         *)
(* cancelled or interrupted in the end, across restarts of the server.       *)
EveryJobIsSettled ==
    \A j \in JobIds : (receipt[j].status \in ActiveStates) ~> (receipt[j].status \in FinalStates)

(* Receipts and processes agree across deaths of the server: one owned       *)
(* worker at most, and "completed" only with a result.                       *)
JobsAreOwned == JobsTypeOK /\ CompletedHasResult /\ OneOwnedWorker
=============================================================================
