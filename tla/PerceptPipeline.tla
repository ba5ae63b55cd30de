--------------------------- MODULE PerceptPipeline ---------------------------
(***************************************************************************)
(* One user interaction of percept_response_runtime.py, from the prompt to  *)
(* the final disposition, with the recovery of artifact_recovery.py and the *)
(* clearing of the execution tables of chat_startup.py.                     *)
(*                                                                          *)
(* The database holds the prompt and response events, the task, the         *)
(* interaction row and the tables of StageRun.  The journal holds the       *)
(* percept, the stage results and the final disposition.  The interaction   *)
(* is handled once; every later call about it is a recovery.                *)
(***************************************************************************)
EXTENDS StageRun

CONSTANTS
    Prompts,        \* texts a user may submit
    NoPrompt,
    Stripped,       \* user_text.strip() on each of them
    Chats,          \* the supervisors that take prompts; each of them recovers
    MaxFaults       \* bound: deaths, kills, failures and resets

ASSUME PerceptAssumption ==
    /\ LastStage >= 2
    /\ Chats \subseteq Supervisors
    /\ Needs[LastStage] = {LastStage - 1}
    /\ NoPrompt \notin DOMAIN Stripped
    /\ Prompts \subseteq DOMAIN Stripped
    /\ \A text \in DOMAIN Stripped : Stripped[text] \in DOMAIN Stripped
    /\ MaxFaults \in Nat

VARIABLES
    submitted,  \* the text the user submitted
    prompt,     \* the USER_PROMPT event
    response,   \* the INTERACTION_RESPONSE event
    task,       \* status of the attention task, "none" when there is no row
    row,        \* the assignment of the attention_interactions row
    percept,    \* user_text of the PERCEPT artifact
    final,      \* response_text of the FINAL_DISPOSITION artifact
    answered,   \* texts returned to callers
    faults

perceptVars == <<submitted, prompt, response, task, row, percept, final, answered, faults>>
vars == <<stageVars, perceptVars>>

Respond == LastStage - 1
Persist == LastStage

TypeOK ==
    /\ StageTypeOK
    /\ {submitted, prompt, percept} \subseteq DOMAIN Stripped \cup {NoPrompt}
    /\ {response, final} \subseteq Values
    /\ task \in {"none", "QUEUED", "ADMITTED", "COMPLETED"}
    /\ row \in Assignments \cup {NoAssignment}
    /\ answered \subseteq Outputs
    /\ faults \in 0 .. MaxFaults

Init ==
    /\ StageInit
    /\ submitted = NoPrompt /\ prompt = NoPrompt /\ percept = NoPrompt
    /\ response = NoOutput /\ final = NoOutput
    /\ task = "none"
    /\ row = NoAssignment
    /\ answered = {}
    /\ faults = 0

Fault == faults < MaxFaults /\ faults' = faults + 1

Goes(v, at) == walk' = [walk EXCEPT ![v].at = at]

(* A call that ends without touching a table. *)
Raises(v) == Leaves(v) /\ UNCHANGED <<kept, tables>>
-----------------------------------------------------------------------------
(* begin_percept. *)

(* handle_percept_in_worker_processes derives a new interaction each time,  *)
(* so it begins this one once.                                              *)
Handle(v, text) ==
    /\ v \in Chats
    /\ submitted = NoPrompt
    /\ walk[v].at = "idle"
    /\ submitted' = text
    /\ walk' = [walk EXCEPT ![v] = [IdleWalk EXCEPT !.at = "recording"]]
    /\ UNCHANGED <<kept, tables, workers, prompt, response, task, row, percept,
                   final, answered, faults>>

(* A recovery begins again with the text of the percept artifact. *)
TextOf(v) == IF walk[v].kind = "handle" THEN submitted ELSE percept

RecordPromptOnce(v) ==
    /\ walk[v].at = "recording"
    /\ IF prompt = NoPrompt
       THEN /\ prompt' = TextOf(v)
            /\ Goes(v, "submitting")
            /\ UNCHANGED <<kept, tables, workers>>
       ELSE Raises(v) /\ UNCHANGED prompt
    /\ UNCHANGED <<submitted, response, task, row, percept, final, answered, faults>>

(* record_event under the identity derived from the interaction: the same   *)
(* text is a retry, another one a conflict, and so is a torn line.          *)
RecordPrompt(v) ==
    /\ walk[v].at = "recording"
    /\ IF prompt \in {NoPrompt, TextOf(v)} /\ ~torn
       THEN /\ prompt' = TextOf(v)
            /\ Goes(v, "submitting")
            /\ UNCHANGED <<kept, tables, workers>>
       ELSE Raises(v) /\ UNCHANGED prompt
    /\ UNCHANGED <<submitted, response, task, row, percept, final, answered, faults>>

Admitted(a) == task' = "ADMITTED" /\ bound' = a

(* load_scheduler, submit, plan and save_scheduler: a task that exists is   *)
(* refused, and so is a save behind another planner's; a task that is not   *)
(* admitted has been saved before the call raises.                          *)
SubmitTask(v) ==
    /\ walk[v].at = "submitting"
    /\ \/ /\ task = "none"
          /\ \E a \in Assignments :
                /\ Admitted(a)
                /\ walk' = [walk EXCEPT ![v].at = "binding", ![v].assignment = a]
          /\ UNCHANGED <<workers, faults>>
       \/ task = "none" /\ task' = "QUEUED" /\ Leaves(v) /\ UNCHANGED bound /\ Fault
       \/ Leaves(v) /\ UNCHANGED <<task, bound>> /\ Fault
    /\ UNCHANGED <<kept, registered, rows, results, submitted, prompt, response, row,
                   percept, final, answered>>

RefuseDuplicateTask(v) ==
    /\ walk[v].at = "submitting"
    /\ task # "none"
    /\ Raises(v)
    /\ UNCHANGED perceptVars

(* A later epoch of whichever process plans next. *)
AdmitQueued ==
    /\ task = "QUEUED"
    /\ \E a \in Assignments : Admitted(a)
    /\ UNCHANGED <<kept, registered, rows, results, workers, walk, submitted, prompt,
                   response, row, percept, final, answered, faults>>

(* save_interaction: the row refers to the assignment, and a row for        *)
(* another assignment is a conflict.                                        *)
SaveInteraction(v) ==
    /\ walk[v].at = "binding"
    /\ IF walk[v].assignment = bound /\ row \in {NoAssignment, bound}
       THEN row' = bound /\ Goes(v, "registering") /\ UNCHANGED <<kept, tables, workers>>
       ELSE Raises(v) /\ UNCHANGED row
    /\ UNCHANGED <<submitted, prompt, response, task, percept, final, answered, faults>>

(* _ensure_steps: one transaction for each stage, then the walk begins. *)
RegisterStep(v) ==
    LET missing == Stages \ registered
        k == CHOOSE j \in missing : \A i \in missing : j <= i
    IN  /\ walk[v].at = "registering"
        /\ IF walk[v].assignment = bound /\ task = "ADMITTED"
           THEN /\ registered' = IF missing = {} THEN registered ELSE registered \cup {k}
                /\ Goes(v, IF Cardinality(missing) <= 1 THEN "claiming" ELSE "registering")
                /\ UNCHANGED workers
           ELSE Leaves(v) /\ UNCHANGED registered
        /\ UNCHANGED <<kept, bound, rows, results, perceptVars>>
-----------------------------------------------------------------------------
(* resume_interaction_from_artifacts. *)

(* The chain is read first, which raises behind a torn line.  A complete    *)
(* one is answered from the journal; an interaction row is continued;       *)
(* otherwise the interaction begins again from the percept, and without one *)
(* the call raises.                                                         *)
Recover(v) ==
    /\ submitted # NoPrompt
    /\ walk[v].at = "idle"
    /\ \/ torn /\ UNCHANGED <<walk, answered>>
       \/ /\ final # NoOutput /\ ~torn
          /\ answered' = answered \cup {final}
          /\ UNCHANGED walk
       \/ /\ final = NoOutput /\ ~torn
          /\ row # NoAssignment
          /\ walk' = [walk EXCEPT ![v] = [IdleWalk EXCEPT !.at = "claiming",
                                          !.kind = "recover", !.assignment = row]]
          /\ UNCHANGED answered
       \/ /\ final = NoOutput /\ ~torn
          /\ row = NoAssignment
          /\ walk' = IF percept = NoPrompt THEN walk
                     ELSE [walk EXCEPT ![v] = [IdleWalk EXCEPT !.at = "recording",
                                               !.kind = "recover"]]
          /\ UNCHANGED answered
    /\ UNCHANGED <<kept, tables, workers, submitted, prompt, response, task, row,
                   percept, final, faults>>

BeginFinish(v) ==
    /\ walk[v].at = "claiming"
    /\ walk[v].stage = LastStage + 1
    /\ Goes(v, "finishing")
    /\ UNCHANGED <<kept, tables, workers, perceptVars>>

FinishWithoutResult(v) ==
    /\ walk[v].at = "finishing"
    /\ task' = "COMPLETED"
    /\ answered' = answered \cup {results[Persist].out}
    /\ Leaves(v)
    /\ UNCHANGED <<kept, tables, submitted, prompt, response, row, percept, final, faults>>

(* finish_percept: the persisted result is read, the task completed unless  *)
(* it is, a new epoch planned and saved, and the response returned.         *)
FinishPercept(v) ==
    /\ walk[v].at = "finishing"
    /\ IF walk[v].assignment = bound /\ HasResult(Persist) /\ task # "none"
       THEN /\ task' = "COMPLETED"
            /\ answered' = IF walk[v].kind = "handle"
                           THEN answered \cup {results[Persist].out} ELSE answered
            /\ IF walk[v].kind = "handle"
               THEN Leaves(v)
               ELSE Goes(v, "disposing") /\ UNCHANGED workers
       ELSE Leaves(v) /\ UNCHANGED <<task, answered>>
    /\ UNCHANGED <<kept, tables, submitted, prompt, response, row, percept, final, faults>>

(* The save is refused because another planner's epoch came first. *)
FinishRefused(v) ==
    /\ walk[v].at = "finishing"
    /\ task # "COMPLETED"
    /\ Raises(v)
    /\ Fault
    /\ UNCHANGED <<submitted, prompt, response, task, row, percept, final, answered>>

(* write_final_disposition_artifact: an existing manifest of another        *)
(* assignment or another prefix of the chain is a conflict.                 *)
DisposeWith(text) == final' = IF final = NoOutput THEN text ELSE final

EnsureNothing(v) ==
    /\ walk[v].at = "disposing"
    /\ answered' = answered \cup ({results[Persist].out} \ {NoOutput})
    /\ Raises(v)
    /\ UNCHANGED <<submitted, prompt, response, task, row, percept, final, faults>>

(* _ensure_final_disposition reads the chain, then the response is          *)
(* returned.                                                                *)
EnsureFinal(v) ==
    /\ walk[v].at = "disposing"
    /\ \/ torn /\ UNCHANGED <<final, answered>>
       \/ /\ final # NoOutput /\ ~torn
          /\ answered' = answered \cup {final}
          /\ UNCHANGED final
       \/ /\ final = NoOutput /\ ~torn
          /\ walk[v].assignment = bound /\ HasResult(Persist)
          /\ DisposeWith(results[Persist].out)
          /\ answered' = answered \cup {results[Persist].out}
       \/ /\ final = NoOutput /\ ~torn
          /\ ~(walk[v].assignment = bound /\ HasResult(Persist))
          /\ UNCHANGED <<final, answered>>
    /\ Raises(v)
    /\ UNCHANGED <<submitted, prompt, response, task, row, percept, faults>>
-----------------------------------------------------------------------------
(* The worker process of percept_response_worker.py. *)

Others == <<submitted, prompt, response, task, row, answered>>

(* The percept artifact is written before the stage's own is looked for.    *)
(* Its content comes from the prompt event and the receipt of the intake,   *)
(* so it is the same for every attempt.                                     *)
BeginStage(w) ==
    /\ row # NoAssignment
    /\ Rehydrate(w)
    /\ percept' = Stripped[submitted]
    /\ UNCHANGED <<Others, final, faults>>

RefuseStage(w) ==
    /\ RefuseEnvelope(w)
    /\ UNCHANGED perceptVars

(* An event that has its row is not compared in its number. *)
HasResponse(w) ==
    workers[w].stage = Persist /\ response # NoOutput /\ response = workers[w].made.from[Respond]

(* The events of a stage go to the file of the percept.  The one line that  *)
(* is completed when it is found torn is the commit entry of the response,  *)
(* by an attempt that had begun before; which line is torn is not kept.     *)
CanRecord(w) == torn => HasResponse(w)

PrepareStage(w) ==
    /\ CanRecord(w)
    /\ TakeNotes(w)
    /\ UNCHANGED perceptVars

RefuseNotes(w) ==
    /\ ~HasResponse(w)
    /\ NotesConflict(w)
    /\ UNCHANGED perceptVars

ExecuteStage(w) ==
    /\ workers[w].stage # Persist
    /\ \E out \in Outputs : Execute(w, out)
    /\ UNCHANGED <<torn, perceptVars>>

(* V2_PERSIST_RESULT records the response event and passes the text on. *)
ExecutePersist(w) ==
    LET text == workers[w].made.from[Respond]
    IN  /\ workers[w].stage = Persist
        /\ response \in {NoOutput, text}
        /\ CanRecord(w)
        /\ Execute(w, text)
        /\ response' = text
        /\ torn' = FALSE
        /\ UNCHANGED <<submitted, prompt, task, row, percept, final, answered, faults>>

(* A result the stage needs is gone, the response event has another text,   *)
(* the file is torn, or the model call fails.                               *)
StageFails(w) ==
    /\ ExecuteFails(w)
    /\ IF /\ HasInputs(w) /\ CanRecord(w)
          /\ workers[w].stage = Persist
                => response \in {NoOutput, workers[w].made.from[Respond]}
       THEN Fault ELSE UNCHANGED faults
    /\ UNCHANGED <<Others, percept, final>>

(* The process exits after its commit, and after the last stage's commit it *)
(* writes the final disposition first.                                      *)
FinishStage(w) ==
    /\ workers[w].stage # Persist
    /\ ExitOk(w)
    /\ UNCHANGED perceptVars

WriteFinal(w) ==
    /\ workers[w].stage = Persist
    /\ ~torn
    /\ workers[w].assignment = bound /\ HasResult(Persist)
    /\ DisposeWith(results[Persist].out)
    /\ ExitOk(w)
    /\ UNCHANGED <<Others, percept, faults>>

WriteFinalFails(w) ==
    /\ workers[w].stage = Persist
    /\ workers[w].state = "committed"
    /\ \/ ~(workers[w].assignment = bound /\ HasResult(Persist))
       \/ final # NoOutput \/ torn
    /\ workers' = Ended(w, "failed")
    /\ UNCHANGED <<kept, tables, walk, perceptVars>>
-----------------------------------------------------------------------------
(* Faults. *)

(* Nobody is left who could still close the claim. *)
Orphaned(k, i) ==
    /\ \A w \in Workers : ~(workers[w].state \in Busy /\ workers[w].stage = k
                            /\ workers[w].attempt = i)
    /\ \A v \in Supervisors : ~(walk[v].at \in {"claimed", "stopping"}
                                /\ walk[v].stage = k /\ walk[v].attempt = i)

LeaseEnds ==
    \E k \in Stages : \E i \in DOMAIN rows[k] :
        /\ Lapse(k, i)
        /\ IF Orphaned(k, i) THEN UNCHANGED faults ELSE Fault
        /\ UNCHANGED <<Others, percept, final>>

(* A clean execution boundary, taken by the next chat whatever is running. *)
Reset ==
    /\ submitted # NoPrompt
    /\ Fault
    /\ ResetTables
    /\ task' = "none"
    /\ row' = NoAssignment
    /\ UNCHANGED <<kept, workers, walk, submitted, prompt, response, percept, final,
                   answered>>

Faulty ==
    \/ LeaseEnds
    \/ Reset
    \/ /\ \/ \E v \in Supervisors : SpawnFails(v) \/ TimeOut(v) \/ SupervisorDies(v)
          \/ \E w \in Workers : WorkerDies(w)
       /\ Fault
       /\ UNCHANGED <<Others, percept, final>>

Supervise(v) ==
    \/ \E text \in Prompts : Handle(v, text)
    \/ RecordPrompt(v) \/ SubmitTask(v) \/ RefuseDuplicateTask(v)
    \/ SaveInteraction(v) \/ RegisterStep(v)
    \/ Recover(v) \/ BeginFinish(v) \/ FinishPercept(v) \/ FinishRefused(v) \/ EnsureFinal(v)
    \/ /\ \/ SkipStage(v) \/ ClaimStage(v) \/ DenyForPressure(v) \/ DenyForGood(v)
          \/ \E w \in Workers : Spawn(v, w)
          \/ Reap(v) \/ StopWorker(v)
       /\ UNCHANGED perceptVars

Work(w) ==
    \/ BeginStage(w) \/ RefuseStage(w) \/ PrepareStage(w) \/ RefuseNotes(w)
    \/ ExecuteStage(w) \/ ExecutePersist(w) \/ StageFails(w)
    \/ FinishStage(w) \/ WriteFinal(w) \/ WriteFinalFails(w)
    \/ /\ WriteArtifact(w) \/ WriteConflicts(w) \/ CommitResult(w) \/ RepeatCommit(w)
          \/ CommitRefused(w)
       /\ UNCHANGED perceptVars

Next ==
    \/ \E v \in Supervisors : Supervise(v)
    \/ \E w \in Workers : Work(w)
    \/ AdmitQueued
    \/ Faulty

(* Calls run to their end and recovery is asked for again and again; some   *)
(* process of those that can goes on, which ends them all, as each has a    *)
(* bounded way to go; leases run out; and the host is not always under      *)
(* pressure at the moment a stage is claimed.                               *)
Fairness ==
    /\ \A v \in Supervisors : WF_vars(Supervise(v))
    /\ SF_vars((\E v \in Supervisors : ClaimStage(v)) /\ UNCHANGED perceptVars)
    /\ WF_vars(\E w \in Workers : Work(w))
    /\ WF_vars(LeaseEnds)

Spec == Init /\ [][Next]_vars /\ Fairness
-----------------------------------------------------------------------------
(* What the database says a stage produced is what the journal says, also   *)
(* when a replacement worker, a late worker of an expired lease or a worker *)
(* of a cleared claim whose identity came back commits it                   *)
(* (_execute_claimed_user_prompt_step: artifact before terminal).           *)
ResultMatchesJournal ==
    \A k \in Stages : HasResult(k) => results[k].out = journal[k].out

(* The journal is one computation: the output of a stage was made from the  *)
(* journaled outputs of the stages it needs, whoever made them and however  *)
(* often the tables were cleared in between.                                *)
JournalIsOneComputation ==
    \A k \in Stages : Journaled(k) =>
        \A j \in Needs[k] : journal[k].from[j] = journal[j].out /\ Journaled(j)

(* Every text that leaves the system is the one the responder journaled:    *)
(* the response event, the final disposition and every answer returned to a *)
(* caller, on the first run or by a recovery.                               *)
OneAnswer ==
    \A text \in (answered \cup {response, final}) \ {NoOutput} :
        text = journal[Respond].out

Attached == row # NoAssignment /\ registered = Stages

(* A stage was interrupted behind its notes, and an attempt since then      *)
(* would have noted something else (persist_working_self, record_event).    *)
Outdated == \E k \in Noting : notes[k] = "stale" /\ ~Journaled(k)

(* As long as its rows are there, an interrupted interaction is finished by *)
(* the recovery: leases, kills, timeouts and a lost final disposition only  *)
(* delay it.  Two things do stop it: a torn line in its file, which no      *)
(* reader gets past, and notes of an interrupted stage that can no longer   *)
(* be repeated.  When a process that had begun before gets past them all    *)
(* the same, the interaction is owed its end again.                         *)
AttachedIsFinished == Attached ~> (final # NoOutput \/ ~Attached \/ torn \/ Outdated)

(* An interaction whose rows were cleared begins again from its journal,    *)
(* unless the file is torn: "an interrupted interaction can be resumed from *)
(* its filesystem artifacts" (IMMUTABLE_ARTIFACT_JOURNAL.md, section 7).    *)
ClearedInteractionResumes ==
    (percept # NoPrompt /\ row = NoAssignment)
        ~> (final # NoOutput \/ row # NoAssignment \/ torn)

(* The stages of an interaction are one computation, and the tables say no  *)
(* different from the journal: no worker, replacement, late worker, or       *)
(* worker of a cleared claim leaves an output that the rest was not made of. *)
OneComputation == TypeOK /\ ResultMatchesJournal /\ JournalIsOneComputation
=============================================================================
