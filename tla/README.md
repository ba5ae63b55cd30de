# Prometheist: TLA+ specifications

Prometheist is a single-host cognitive runtime: percepts arrive, are admitted by a
just-in-time attention scheduler under a budget of host resources, and are worked
off by short-lived worker processes. All authority is in PostgreSQL and in a journal
on disk; processes may die at any moment and nothing that matters lives in memory.
These specifications cover the parts where concurrency, failure and ordering decide
correctness: the scheduler with its store, the worker protocol, the two pipelines that
run on them, the stores of record, the memories derived from those, and the state the
operator owns.

## 1. Inventory

Sources are under `src/src/prometheist/`.

| Component | State | Operations | Hard behaviour | Module |
|---|---|---|---|---|
| Worker protocol (`worker_protocol.py`, `worker_store.py`) | steps, claims (leases), checkpoints, results | register, guarded claim, heartbeat, checkpoint, complete, release | leases end while transactions wait; retries of effects; late results | `WorkerLease` |
| Attention scheduler (`attention.py`, `attention_assignments.py`) | tasks, current epoch, assignments, reservations, pending preemptions; before the first epoch one focus | submit, complete, plan epoch, acknowledge checkpoint, publish; reconcile focus, checkpoint, yield | preemption spans several epochs; starvation; invalid successor states | `AttentionEpoch`, `FocusMode` |
| Victim selection (`attention_preemption.py`) | none | `select_minimum_victims` | dynamic program over capped coverage vectors | `VictimSelection` |
| Dependency ordering (`attention_ordering.py`) | none | `deterministic_dependency_order` | readiness changes with every item | `DependencyOrder` |
| Host observation (`attention_observation.py`) | one observation per plan | build observation, admission controller | failed probes, stale samples | in `AttentionEpoch` |
| Scheduler store (`attention_store.py`) | the scheduler's tables | load, save | loads are not atomic; several writers; repeated saves | `SchedulerStore`, `EpochLog` |
| Worker launcher, reflexes (`worker_runtime.py`, `reflexes.py`) | child process | claim with retries, launch, time out, terminate, release | process fails after the claim committed; termination races completion | `StageRun` |
| Percept pipeline (`percept_response_*.py`, `interaction_store.py`, `artifact_recovery.py`, `chat_startup.py`) | prompt and response events, interaction, seven stages, artifacts | begin, run stages, recover, finish, clear the tables | each stage is a commit of its own; identities come back after the tables are cleared; a stage is interrupted behind records that another attempt would make differently; torn lines | `PerceptPipeline` |
| Percept intake, situations (`percept_intake.py`, `situations.py`, `expectations.py`) | snapshots, candidates, receipts | fold, offer, receipt | duplicate, late and interrupted delivery | `SituationIntake` |
| Situation pipeline (`situation_*.py`, `action_outcomes.py`) | page cursor, tasks, progress | page, submit, run, observe outcome, complete, record progress | crash between completion and progress record; two ticks at once | `SituationFlow` |
| Event and artifact stores (`event_store.py`, `event_artifact_store.py`, `percept_journal.py`) | event rows, files with a record and a commit entry | record, retry, restore | crash between file and database; torn lines | `EventJournal` |
| Consolidation, semantic memory (`consolidation.py`, `semantic_memory.py`, `cognitive_store.py`) | frozen page, assertions, evidence, head of the resolution | freeze, record, resolve, publish | evidence in any order; a session lock across commits | `SemanticMemory` |
| Self memory (`self_memory*.py`, `self_reflection.py`) | representations, evidence, rulings, predictions | propose, review, inherit, judge, activate | several paths resolve one representation; evidence is checked and put without a lock | `SelfMemory` |
| Memory projections (`jit_memory.py`, `projection_freshness.py`, `postgres_*.py`, `association_*.py`) | projected rows, associations, high-water marks | catch up, rebuild, spread | marks against events that commit out of order | `MemoryProjection` |
| Environment inventory (`environment_runtime.py`, `environment_contracts.py`) | map of the host, staged transition, receipts | record a scan | recorder dies between independent writes | `EnvironmentInventory` |
| GUI jobs and files (`gui_jobs.py`, `gui_files.py`, `gui_file_api.py`) | job receipts, worker process; managed files, trash, uploads | start, cancel, settle, restart; save, move, trash, restore, upload | the server dies between two writes; other programs write the folder | `GuiJobs`, `GuiFiles` |
| Consent and operator state (`operator_state.py`, `network_consent.py`, ...) | policy files | review, grant, revoke, permit | concurrent edits; terms change with the program | `OperatorConsent` |
| Capabilities, contracts, model access, providers, CLI, benchmarks | static tables or none | lookup, invoke | little state | see section 6 |

How they interact. A writer (`begin_percept`, `finish_percept`,
`submit_situation_page`, `run_situation_task`) loads the scheduler, submits or
completes tasks, probes the host, plans one epoch and saves it. The committed epoch
gives a task an assignment and reservations. A launcher claims a registered step of
that assignment; the worker process checkpoints, completes or dies; an expired lease
is abandoned by whichever transaction meets it first. `save_scheduler` and the claim
share the scheduler's state row as their lock, and the reservations are where they
meet: an epoch must not take away capacity a live claim uses. A stage journals its
output before it commits its result, and an interaction can be taken up again from the
journal alone. Other observations are folded into situations; a tick pages through the
candidates, runs one task of stages per situation, and an action's outcome comes back
as a percept. Situation records are consolidated into semantic facts and proposals
about the person. Everything recall reads is derived from canonical events.

What makes the components correct:

- worker protocol: one live claim per assignment; a result closes its step; checkpoints
  form a chain; an ambiguous effect is not repeated; a live lease is never abandoned;
- scheduler: every committed state can be planned from; work is interrupted only by policy
  and for something more important; nothing eligible waits for ever;
- victim selection and dependency order: the choice is the one a direct definition makes;
- store: concurrent load-change-save cycles are serializable;
- percept pipeline: whoever runs a stage, there is one computation and one answer, the
  tables agree with the journal, and an interrupted interaction is finished unless its file is torn or a stage cannot repeat its notes;
- situations: a delivery gets its receipt; the dispatcher sees the newest snapshot and the
  newest observation; every situation is dealt with, by one task at a time;
- records: no committed event without its record on disk, no record twice, one global order;
- derived memory: what was built step by step is what would be built at once; nothing is
  established that its evidence does not earn; a bounded recall sees nothing of its future;
- operator state: no edit is lost, nothing is done under terms that were not accepted, no
  managed content disappears, every job is settled.

The hazards of this code, each at its line, and the properties aimed at them are in
`PROJECT.json`.

## 2. Modules

| Module | Models |
|---|---|
| `WorkerLease`, `WorkerLeaseProofs` | the worker protocol; every public function of `worker_store.py` is one action |
| `VictimSelection` | `select_minimum_victims`, and the choice it is meant to make |
| `AttentionEpoch` | `plan_scheduling_epoch` and the writers that publish its epochs; extends `VictimSelection` |
| `FocusMode` | the scheduler before its first epoch |
| `OrderedLists` | sorted and filtered lists, for the three above |
| `AttentionProofs` | proofs about `AttentionEpoch`, `VictimSelection` and `FocusMode` |
| `DependencyOrder` | the ordering loop, against all legal orders |
| `EpochLog` | abstract: the committed scheduler changes in indivisible steps |
| `SchedulerStore`, `SchedulerStoreProofs` | `load_scheduler` and `save_scheduler` statement by statement with several writers; `INSTANCE EpochLog WITH ...` |
| `StageRun` | supervisors, launcher and worker processes over the stages of one task |
| `PerceptPipeline`, `PerceptPipelineProofs` | one user interaction; extends `StageRun` |
| `SituationIntake` | delivery of observations and folding into situations |
| `SituationFlow`, `SituationFlowProofs` | the background ticks; extends `SituationIntake` |
| `EventJournal` | canonical events and their files |
| `SemanticMemory` | consolidation and the semantic resolver |
| `SelfMemory` | reflection, review, predictions, activation |
| `MemoryProjection` | projections, associations, bounded recall |
| `MemoryProofs` | proofs about the three memories above |
| `EnvironmentInventory` | recording of host scans |
| `GuiJobs`, `GuiFiles` | foreground jobs; managed files |
| `FileProofs` | proofs about `EventJournal`, `GuiJobs` and `GuiFiles` |
| `OperatorConsent` | policy files and what they permit |
| `SafeguardProofs` | proofs about `OperatorConsent`, `EnvironmentInventory` and `DependencyOrder` |
| `MC*` | constants for TLC, and the composite runs |

Components that share no state are checked in one run where that saves one:
`MCRecords`, `MCSettling` and `MCSafeguards` extend several modules and add a variable
`part` that names the one a behaviour runs. The others keep their initial state, so each
part is checked exactly as it would be alone, with its own fairness.

Operators whose comment calls them a mutant are faults seeded next to a definition. No
specification uses them; they show that a property can fail.

### WorkerLease

`claims[s][n]` is the row of attempt `n` of step `s`; a row that does not exist has
status `NONE`. `checkpoints[s][r]` names the attempt that wrote revision `r`,
`result[s]` the attempt that wrote the terminal result. `current` is the set of
assignments of the committed epoch, `moved` those whose task has a newer revision
than the assignment, `policyBound` whether the epoch binds the resource policy the
claim expects.

Each function reads the clock once, before its first row lock, and may then wait.
So an action works with any reading up to `now`; only the second reading of a granted
claim, taken under the lock, is `now` itself, and `FreshReading` is the age test on the
pair. `guarded_claim_worker_step` abandons expired leases whether or not it grants, so
denial is an action (`DenyClaim`) and not a stutter. Claim functions that find the lease
ended commit the abandonment and return; that is the first disjunct of the heartbeat,
checkpoint and completion actions. A call that raises rolls back and is no step.
`SaveScheduler` is the scheduler as the worker tables see it:
`_replace_resource_reservations` abandons expired leases and refuses to drop a held one.

Left out: payloads, the recorded observations, resource kinds (one pool stands for a
resource class; the test is per class and independent).

### VictimSelection

The dynamic program keeps one selection per coverage vector, capped at the deficit, and
prefers fewer and then earlier victims. `IntendedVictims` says the same without rounds:
among all subsets that release enough, the smallest, and of those the one that yields
first. `None` is the empty set of selections. `MCVictimSelection` offers candidates one by one, so that
the program is run on every set of them in turn.

### AttentionEpoch

The state is the committed scheduler: submitted tasks by age, completed ones, waited
cycles (capped at the service guarantee, where they stop mattering), the assignments in
epoch order and the pending intents. A plan in the making is a record that
`ResolveIntent` and `ConsiderCandidate` transform, one task at a time, in the order of
the code. `Publishable` is the conjunction of the validators of `SchedulingEpochPlan` and
`_validate_snapshot`; a plan they reject raises before anything is written. Load, change,
plan and save are one action; `SchedulerStore` shows why that is sound. A writer submits any finite set of
tasks at once. `HasRoom` and `KeepsRoom` say what `_hold_available_task_capacity` is for.

A task in `Recurring` stands for an endless supply of tasks of its kind: once completed,
its name may be submitted again. Without it no finite model has a starvation hazard.

Left out: hashed ids (intents of one epoch come in any order), the event log,
single-focus mode (`FocusMode` has it), `FAILED` tasks (nothing in production sets them), resource
reconfiguration.

### EpochLog and SchedulerStore

A snapshot is the current epoch, `preemption_state_revision`, the role of each task in
the pending preemptions, and the task rows. An epoch id is a hash over the epoch's
contents and its predecessor; it is modelled as the chain of epochs itself, each marked
with the writer whose host sample it was planned from. Two writers therefore never
produce the same id. What is planned is left open (`IsPlan`), apart from what every plan
respects: it assigns queued tasks only and invents no acknowledgement.

`load_scheduler` runs separate statements under READ COMMITTED: the state row, the task
rows, the reservations. Another writer may commit in between; `from_snapshot` notices
only if the reservations are not those of the epoch. `save_scheduler` locks the state row
and checks the generation (`SaveBegin`), writes and commits (`SaveCommit`) or rolls back
(`SaveFail`). Without a row there is nothing to lock: two first saves run side by side
and meet in the immutable epoch insert. After either end the caller may not know the
outcome, keep the scheduler (`"unsure"`) and save it again. A writer that crashes goes
idle.

`EpochLog` is the promise: `Publish` or `Acknowledge`, from the committed state, in one
step. The refinement mapping is the identity on `committed`.

### FocusMode and DependencyOrder

Focus mode keeps one running task and a queue; a task is promoted when its wait reaches the
guarantee. Tasks are numbered by the last keys of the queue's order, there is one resource
class and no deadline. `reconcile_focus`, `checkpoint_active`, completion, failure, admission
and reconfiguration are actions. `DependencyOrder` takes one item per step and is compared
with the set of all legal orders of a work set.

### StageRun and PerceptPipeline

`journal` is what is on disk; `bound`, `registered`, `rows`, `results` are the tables;
`walk[v]` is a supervisor's place in its stages, `workers[w]` a process. A worker rehydrates
its claim, takes over a journaled output or computes one from the results before it, journals
it, commits it and exits; it may lose its lease, be killed or die between any two of these, and
its error path may fail as well. Whoever dies while it appends may leave the file `torn`, and then no reader of it goes on: a worker raises at its
percept artifact, outside the error path, so its claim is left to the lease; a recovery raises at the chain. A stage in `Noting` puts records under
the interaction's name before its output is journaled (`working_self` and the attention packet in the first stage, the response event in the last). An attempt that
would put the same continues (`TakeNotes`); `NotesConflict` is one that would not, because self memory or the numbers of the conversation have moved, and
`notes[k] = "stale"` records it. Of the bounded attempts one is kept back then (`Spared`), for a process of an earlier attempt that is still at work. Time is whether a lease has run out. Every identity is derived
(step from assignment and stage, claim from step and attempt), so after `Reset` a process of an
old claim meets a row that is its own as far as the store can tell: `ResultMatchesJournal` and
`JournalIsOneComputation` have to hold there too.

`PerceptPipeline` adds the prompt and response events, the task, the interaction row, the
percept artifact and the final disposition. Three of the seven stages are kept (`MCPerceptPipeline`), since the others repeat the
middle one or, in their notes, the first. One supervisor takes the prompt (`Chats`), the others recover; the percept artifact has the same content on every attempt, since it comes
from the prompt event and the receipt of the intake. Left out: records about the launch (denied admissions, terminations), which have names of their own
and which no stage reads, and LLM-invocation artifacts, which are keyed by claim. Model outputs are two values, so that two attempts of one stage can disagree.

### SituationIntake and SituationFlow

A snapshot is formed from its predecessor under the situation's lock, so a situation is the
sequence of its snapshots. An intake folds its percept into each situation it refers to
(snapshot, then receipt), offers each as a candidate unless a newer one is current, and writes
its receipt; a dead intake releases its locks and is delivered again. A tick walks one page of
candidates, submits, repairs or passes over, saves the scheduler, advances the cursor and runs
the admitted tasks; the outcome of an action is itself taken in. A stage is one step here, since
`StageRun` has its inside. All observations are of one property.

### EventJournal, SemanticMemory

`EventJournal` has the rows, the sequence behind `global_seq` and, per file, its whole lines and
a torn one. Recording is look-up, allocation, record, commit, commit entry; the faults are a torn
line, a dead process and a lost database, after which `restore_events` runs. Hashes and signatures are
taken to detect what they are meant to detect. A torn line is that line of which a part is missing, so `write_event_commit`'s test that the part is a prefix of
its own entry is equality of lines.

`SemanticMemory` is one property of one subject. `AdvanceResolution` is the incremental resolver and
`ResolutionAsOf` the one that looks at all evidence. A job puts evidence before it advances the resolution, so
evidence of a job that died in between counts only when its retry has got to its end: `ResolutionConverges` compares
the two whenever every piece of evidence is of some published job (`EvidenceIsProcessed`), whatever else is under way.
A consolidation freezes its page before it derives anything.

### SelfMemory, MemoryProjection

What the model proposes and objects is a script; it may propose one representation several times, which the review
passes over (`PassOverSeen`). The rest is the application's: admissibility of a root, the metrics over distinct roots and stored context tags, the verdict,
the name under which a ruling is put, the searches behind the self context and the round-robin over roots.

Three processes record evidence: the one that reflects, the judge of a prediction and the heir of a schema. `record_self_evidence` reads the
evidence and puts its record in another statement, and no lock keeps the two together, so what a recorder has checked is `inflight` until it is put; `overlap`
is history, the roots whose two sides were in flight at once. `resolve_self_prediction` puts the outcome, reads the standing, records the evidence and asks for the
standing it read; each is a step, and a second call finds the outcome recorded and returns, so what a dead one owed stays owed (`JudgeFails`). An heir
reads parent by parent and records root by root, and what is recorded when it fails stays (`HeirFails`).

Left out: one judge and one heir at a time; the refusal of a representation that exists with other fields (line 473), which makes a stage fail as
`ReflectionFails` does; the refusal of an evidence record that exists with another time (568), which only an heir can meet and which `HeirFails` covers.

`MemoryProjection` separates drawing a `global_seq` from the commit that makes it visible. Events that
commit after the mark has passed them are in `late`; `undone` records that a rebuild dropped rows added
since it read the events. Both do leave gaps until the next rebuild, and the properties are
stated for the rest.

### EnvironmentInventory, GuiJobs, GuiFiles, OperatorConsent

`EnvironmentInventory` writes map, posture, percept, latest and receipt one by one under the host lock; whoever
comes next completes a staged transition. `transitions` is the history of staged scans with the map each led to. `GuiJobs` has the receipt on disk, the process and the server, which
may die between `Popen`, the recorded pid and the settling. `GuiFiles` has the content of
each path (numbered by the write that made it), previous versions, trash and one upload, with other programs writing
between any two steps. `OperatorConsent` has the policy files, their locks and the
version of the program each process runs; the terms of a scope are a version.

## 3. Runs

Bounds are stated in the `.cfg` files. All runs that pass are exhaustive.

| Run | Shows | Bounds, and why they are enough |
|---|---|---|
| `WorkerLeaseSteps` | an idempotent and an at-most-once step of one assignment never hold it together; an abandoned at-most-once attempt is never followed by another; no published epoch drops an assignment that a live claim holds | 2 steps, 2 workers (interchangeable), 2 attempts, clock to 2: both orders of abandonment and retry; the theorems cover any number |
| `WorkerLeaseHistory` | one step's rows stay coherent: result, checkpoint chain, resumption, leases (the shape of the table and the immutability of closed rows are proved only) | 3 attempts and 2 revisions, clock to 3: a late first attempt meets a second and a third |
| `AttentionContention` | every committed state can be planned from; interruption is by policy and for something more important; queued work never takes the room of a waiting target (types are proved only) | 5 tasks with all policies, a dependency, 3 units of one class and 1 of another, measured one: mixed victim sets and two intents at once occur; every observation |
| `SchedulerStore` | the store implements `EpochLog` and the lock holder knows the committed scheduler (that epochs form one chain and nothing is taken back follows, and is proved) | 2 writers, 2 tasks, 2 epochs: two first saves, two acknowledgements from one base, a completed task, a repeated save; the theorems cover any number |
| `PerceptPipeline` | one computation (`OneComputation`) and one answer; an interaction whose rows are there is finished, one whose rows were cleared begins again, unless the file is torn for good or a stage cannot repeat its notes | 3 stages of which the first and the last take notes, 2 supervisors of which one takes the prompt, 2 workers, 3 attempts, one assignment identity, which comes back after the tables are cleared, 2 possible outputs, one fault of any kind (death, also in mid-append, time-out, lease lost under a running process, cleared tables): a late process, its replacement and a recovery overlap; 4 minutes |
| `SituationFlow` | candidates and observations never go back (`IntakeNeverGoesBack`), one task at a time and repair before anything newer (`OneSnapshotAtATime`), every delivery receipted and every situation settled | three worlds: two deliveries of which one is late, two ticks at once, a delivery to two situations with pages of one; one fault |
| `Records` | `EventJournal`: `EventsAreOnRecord`; the torn commit entry of an event with a file of its own is completed when the event is recorded again and again. `SemanticMemory`: `FactsFollowEvidence`, every job publishes | 2 events of which one shares the percept's file, 2 recorders, 2 faults; 5 observations of 3 assertions (two of equal value, one opposition) over 2 overlapping pages and a direct caller, 2 workers, 1 death |
| `Settling` | `AttentionEpoch`: a maintenance task is served although user work never stops. `FocusMode`: queued tasks get the focus, the snapshot loads. `GuiJobs`: `JobsAreOwned`, every job settled | 1 unit per class and 2 recurring tasks; 4 tasks of all policies with a dependency and 2 capacities; 2 jobs and 2 deaths of the server |
| `Safeguards` | safety of `VictimSelection`, `DependencyOrder`, `SelfMemory` (`SelfIsGrounded`), `MemoryProjection` (`RecallIsFaithful`), `EnvironmentInventory` (`InventoryFollowsScans`), `GuiFiles` (`FilesAreAccounted`, `ManagedContentSurvives`), `OperatorConsent` | up to 3 candidates over 2 classes, deficits to 3; all work sets of 3 items; 2 representations (a slow generalization and a self-report), 3 roots in 2 situations, 2 reflections of which one proposes a schema twice, a prediction whose caller names a context, an heir with a parent, an interruption; 3 events, 2 recalls; 3 scans, 2 recorders, a death; 2 paths, up to 3 operations and 3 contents (4 begun together), 2 chunks, a death; 2 processes, 3 scopes, 2 versions |
| `AttentionFinish`, `PerceptPadded`, `SituationWedge` | violations, see findings | smallest workload that shows each |

Deadlock is not checked in the worker runs and in the three composites: they stop when the
clock, the attempts, the faults or the inputs are used up. In `PerceptPipeline` and `SituationFlow`
it is checked.

**Fairness.**

- `ProductionSpec` of `AttentionEpoch`: `WF` of a plan with no submission on an idle host, since the
  background cycle plans again and again; `WF` of `FinishTask` per task, since the launcher bounds a
  worker's run time. Weak only: nothing says a task that is displaced every other epoch
  gets to finish. None on checkpoint acknowledgements, since no production code makes them.
- `PerceptPipeline`: `WF` of every call, recovery included, which is part of `Supervise`; `WF` of the worker processes together (some
  one of them goes on; each has a bounded way to go unless a fault ends it), and of the end of an orphaned lease; `SF` of a claim
  that is possible again and again, by whichever call, since the host is not always under pressure at the moment it is tried.
- `SituationFlow`: `WF` of redelivery (adapters repeat what has no receipt) and of the calls;
  `SF` of `Poll`, since the poll loop is restarted for ever and only waits for a tick under way.
- `EventJournal`: `WF` of a call that has begun. That an event is recorded again is the callers' affair, so
  `TornReceiptIsCompleted` has it as its condition, and speaks of events with a file of their own only: a line torn in the file of
  a percept stops the callers before they record anything. `SemanticMemory`: `WF` of a deriver.
- `FocusMode`: `WF` of `reconcile_focus`, which the driver calls in a loop, and of the end of the running
  task. `GuiJobs`: `WF` of the server's steps and of a worker's exit, `SF` of the waiting thread, which
  competes with cancellations for one lock.

Where a component has several safety invariants, the run checks their conjunction under one name
and each part is a definition of its own beside it. Every property of a passing run has a mutant that
the run then reports, a conjunction one for each of its parts.

## 4. Findings

1. `AttentionFinish`. A victim that completes before its checkpoint is acknowledged is
   dropped from the assignments while the carried intent still names it; the validators
   refuse that plan, so `finish_percept` cannot publish the completion
   (`attention.py:936`). Nothing in production acknowledges checkpoints, so an intent with two
   checkpoint-only victims blocks them and its target for good.
2. `PerceptPadded`. The prompt event keeps the text as it came, the percept artifact the stripped
   one. Recovery after the interaction row is lost begins with the latter, and `record_event` refuses it
   as a conflicting retry if the prompt had surrounding blanks (`percept_response_runtime.py:716`).
3. `SituationWedge`. After a crash between snapshot and receipt, a delivery recognises its own snapshot by
   the last of `percept_ids`; `_recent` leaves a repeated percept at its first place, so after a
   second crash the last one need not be the percept that formed the snapshot. The delivery then puts a conflicting
   candidate on every retry (`situations.py:162`).

`PROJECT.json` quotes the comment or document that each one contradicts.

Two more disagreements in the epoch planner are stated as properties or workloads of `AttentionEpoch` and
`MCAttentionEpoch` but have no run of their own:

- `QueuedWorkIsServed` with a task that needs two units (`MaintenanceNeedsTwo`) among recurring smaller ones: no capacity
  is held for a due task that does not fit (`attention.py:1104`). `ProductionSpec`.
- `PreemptionSettles` (against `attention.py:1789`): a due task's promoted priority is compared
  with its victim's base priority; two overdue preemptible tasks of one priority (`SamePriority`,
  `AllPreemptible`) displace each other in every epoch. `ProductionSpec`.

More of them show in the percept pipeline, in self memory and in their models. The properties are stated so that they say exactly what remains:

- An attempt of the first stage that dies behind its notes and is retried after self memory has moved puts another `working_self` under the same
  name; `put_record` refuses it, and every later attempt as well (`percept_response_runtime.py:934`). `AttachedIsFinished` excepts it
  (`Outdated`); without the exception TLC finds it. A process that had begun before can still journal the stage; then the end is owed again.
- A process that dies in mid-append leaves a torn line in the file of the percept. Replacement workers raise at
  `_ensure_percept_artifact` (`percept_response_worker.py:560`) and recovery at the chain (`artifact_recovery.py:252`); no code mends the
  line. Both liveness properties of the run except a torn file.
- "One canonical root cannot both support and oppose the same self representation" (`self_memory.py:547`): it can, when two recorders check before
  either puts. `OneStancePerRoot` allows it in just that case (`overlap`).
- The judge of a prediction asks for the standing it read before its evidence (`self_memory.py:970`). When the schema is proposed again in between, the
  request for `ESTABLISHED` is judged by the evidence and may establish the candidate before its review. `EstablishedIsEarned` holds all the same, since it asks for
  the evidence and not for the review.
- Context tags that the caller of a prediction names count as contexts of a slow schema (`self_memory.py:621`), so one situation and one such tag are enough
  for the "two contexts" of the rule.

`_hold_available_task_capacity` (`attention.py:1707`) holds free units for a pending target so that "later,
lower-ranked work" does not consume them. `HeldRoomIsKept` says exactly how far that goes: against queued work always, but not
against the target of another pending intent. Intents are resolved in the order of their hashed ids, so a less
urgent target that comes first is admitted into the units that a more urgent one waits for. TLC refutes the property
without that exception (every pending intent always `HasRoom`) in the instance of `AttentionContention`.

## 5. Proofs

TLAPS proves the theorems of the eight `*Proofs` modules for every value of the constants that the
assumptions of the component modules admit: any number of steps, workers, attempts and times, of writers,
tasks and epochs, of stages, deliveries, situations, events, files, observations, schemas, jobs and faults.
The assumptions say what kind of value a constant is. The ones that say more: sets that a running system has
finitely many of are finite (events, situations, observations, representations); a stage needs only
earlier stages; the stripped form of a text is a text (`PerceptAssumption`); times and numbers are naturals.
TLC evaluates them on every run. Every inductive invariant was model-checked on a run's instance before it was proved.

**WorkerLease.** `IInv` conjoins the type invariant and eight safety parts. None is
inductive alone. That a retry resumes from the latest checkpoint needs that no earlier claim
is still live, or it would write the next revision; that needs `ClaimTableShape` (a live
claim is the latest attempt); that the latest attempt closes the step needs both; that
abandoned leases do not overlap their successors needs that an abandoned lease has ended by
`now`, so that the grant, which reads the clock under the lock, comes later. Two lemmas carry
the work, one for bulk abandonment (`AbandonKeepsIInv`) and one for closing a live claim
(`CloseKeepsIInv`). `NoEarlyAbandonment` and `ClosedRowsAreImmutable` are action properties
proved from `IInv`.

**SchedulerStore.** The theorem that matters is `StoreImplementsLog`. It rests on
`CommitEffect`: a save that commits either repeats what is committed or replaces exactly the
snapshot it was planned from. The generation check compares epoch, revision and pending
preemptions, not the task rows, and the load that produced them may be torn. The invariant
says why this is enough:

- `BaseByRevision`: the revision numbers the commits, so a base of the committed revision is
  the committed scheduler, torn or not; a base one behind with the same epoch has missed
  exactly one acknowledgement;
- `OwnEpochs`: nobody else publishes an epoch of `w`, so if the target's epoch is committed
  already, `w` committed it, and unless the revision moved on, the target is what is
  committed;
- `FirstSave`: as soon as a row exists there is an epoch of sequence 1, and an unlocked
  save, which would insert another one, must fail.

With these the two ways through the check, "nothing happened since" and "my own save went
through", are the only ones (`MatchingGenerationIsCurrent`): a publication that finds its
revision taken by an acknowledgement on the old epoch is refused because a plan never
contains a new acknowledgement. The other theorems follow from `StepsAreLogSteps`.

**OperatorConsent.** `RevocationSticks` says that the policy is what the operator last said of each
scope. It is not inductive: an edit works on the file as it was read. The invariant adds that whoever is between reading
and replacing a policy file holds its lock (`EditorHoldsLock`) and that what it read is what the file still says
(`SeenIsCurrent`); the second needs the first, since another editor of the same file would change it.
`PermitsWhatWasAccepted` follows, because `Permits` compares the stored terms with those of the running version.

**DependencyOrder.** `OrderIsLeast` compares the result with every legal order. The invariant (`EachWasForemost`)
says of each item taken that it goes before whatever could have stood in its place; where a legal order first
differs from the result, its item could. That the loop stops early only on a cycle is the other half: in a legal order of
all items the first one that remains is ready.

**EnvironmentInventory.** `InventoryFollowsScans` needs what holds between the five writes of a transition
(`OneIsUnderWay`: all transitions but the last are complete, and the current map is that of the last or of the one before it)
and what the holder of the lock has written already (`AtHand`). Recorders that die leave the lock and no more, so the next one
meets a transition under way and completes it before it judges its own scan.

**PerceptPipeline.** `OneComputation` is about tables and journal, but what is written next is in a process. The
invariant adds that a process holds journaled outputs only (`Grounded`): the inputs it read, what it computed from all of
them, what it is about to commit. Since an output never changes once it is journaled, this survives other processes, deaths and
cleared tables; `PersistRepeatsResponse` links the last stage to the responder, from which `OneAnswer` follows for every caller.

**SituationFlow.** `IntakeNeverGoesBack`: the receipt of a fold names the last snapshot that its percept made (`FoldsAreLast`),
an intake past a situation has offered that snapshot or found a newer candidate (`Offers`), and one that is about to put a candidate
is alone and finds no newer one (`Puts`). `OneSnapshotAtATime`: no task is of a newer snapshot than the active one, only the
active one is at work, everything completed behind it is recorded (`ProgressIsOfCompleted`), and what a tick has in hand
agrees with that (`TicksKeep`). An outcome enters the intake from a task, so both parts are one invariant.

**EventJournal.** `EventsAreOnRecord`: a process between allocation and commit has the next number and is alone
(`OneAllocates`); what it knows of its event, its record on disk and its row, still holds when it uses it (`Knows`);
rows are numbered below the counters, also behind a restoration (`RowsAreNumbered`).

**SemanticMemory.** `FactsFollowEvidence`. Revisions lead up to the head in a strict order of observation time, candidates and
status (`RevisionsLeadUp`), so none is put twice. `HeadAccounts` says why the incremental resolution is the full one: every
observation that a job has behind it is older than the head or its value is at stake, and every value at stake was observed at the
time of the head. A worker past the lock holds it and has seen the current head (`Holds`).

**MemoryProjection.** `RecallIsFaithful`: what a recall has loaded is complete up to its last event, together with the rows it will
be added to (`Loads`), which makes the rows complete and the edges those of a derivation from scratch (`RowsStand`) whenever the two
kinds of rows agree. Rebuilds and late commits are where this ends, as `undone` and `late` say.

**SelfMemory.** `SelfIsGrounded`. Three processes record evidence by a check and a later put, so none of its parts is inductive. `Controlled`
says where each process is and what it may hold there: only a review holds objections, and only against the candidate it is at; the judge holds evidence of its own
prediction; an heir holds support. `SidesMeet` carries `OneStancePerRoot` over the gap between check and put: whenever the two sides of a root meet, one put and one in flight or both in
flight, the meeting is already in `overlap`. `Grounded` has what the rules ask of an established representation, which later records can only add to.
`Owing` is about opposition: a verdict counts all opposition that is put, so an established representation is opposed only by what was put after its
verdict, by a review that has its verdict still to take or by the judge of its prediction; `ReviewedBefore` says that what a review has behind itself can be opposed
by the judge alone. A judge that failed leaves its verdict owed for good (`VerdictIsOwed`). The other half is about the searches: `FirstKeys`, `FirstOf`, `Packet` and the round-robin of
`ExpandSelfRoots` take the members of a set whose rank in a strict order is small; the rank lemmas say that ranks differ, that few enough
members are all in, and that the first row of every hypothesis has one of the first turns.

**GuiJobs, GuiFiles.** `JobsAreOwned`: of the processes that receipts name one runs at most, its receipt is active, and a server that is up
has it as its active job (`NamedIsActive`); a server that comes up must adopt before it starts anything. `FilesAreAccounted` and the action property
`ManagedContentSurvives` share an invariant: contents are numbered as they come into being, so two files never confuse theirs, what is about to be
overwritten is not managed or is kept (`OverwritesNothing`), and chunks are the first ones in order.

**VictimSelection.** `SelectionIsIntended` is about any finite set of candidates and any deficits. The dynamic program keeps, for each
capped coverage, one selection; its table after `k` candidates is the set of the best selections from the first `k` of them, one
for every coverage they can reach. Best means fewest and then first in order, and the order is compatible with
adding a later candidate to both sides, so what the program forgets could not have become the answer. Capping is harmless because two
selections of one capped coverage release enough together with the same further candidates. `OffersAreAnswered` applies this to the
states of the run.

**AttentionEpoch.** `EpochInv` adds to the types: no completed task is assigned, the assigned ones fit the capacity and their
dependencies are completed, each intent is `Pending` (its target waits and may start, its victims run, may yield and are
outprioritized), and two intents are `Apart`: no two share a target or a victim. The last two are what the validators of
the next plan ask for, and they survive an epoch only because of what happens inside it. A plan is made by two folds, over
the pending intents and then over the queue, and `Sound` is the invariant of both: what is admitted fits beside what is kept, every victim
that still runs is kept and protected from later choices, tasks still to be dealt with are not yet in the plan. Each step of a fold keeps
it (`ResolvedPlansAreSound`, `QueuePlansAreSound`), a sound plan passes every validator of `Publishable`, and its publication
gives back `EpochInv`. Hence `EpochCanAlwaysBePlanned`, and `EpochWithSubmissionsCanBePlanned` for writers that
submit.

For a writer that completes a task the plan may be refused, and `EpochsThatFinishATask` says when: exactly if an intent that the
plan carries names the finished task as a victim. So the finding `AttentionFinish` is not one case of several; every other completion can be saved,
whatever is pending and whatever the host reports.

`InterruptionsAreJustified` follows a displaced task through the folds: only an intent whose victims are ready, or a
candidate whose victims yield at once, releases assignments, and both admit their target in the same step; nothing later
in the plan takes it out again. `HeldRoomStays` carries `RoomIsLeft` along the same folds: beside what the plan has given out and
may still give out, there is room for every waiting target once its victims have yielded, or another target was admitted. Holding
subtracts what the target lacks from the units still to be given (`HoldingLeavesRoom`), and later admissions only draw on those.

**FocusMode.** `SavedFocusLoads`: the snapshot has one running task at most, a preemption that waits, and admitted tasks that
fit. `FocusInv` adds that the dependencies of the running task are completed (`HeldIsReady`): it is admitted again
at every reconciliation, after the tasks that outrank it have been considered.

These three modules use folds, sums of units over tasks and sorted lists. What such a definition computes takes an induction, which the proofs
carry out through the least member of a set of naturals (`Induction`), for a fold over the first places of its list (`FoldExists`), and
for a sum from its value on a set with one element taken away (`SumLaws`).

**Only model-checked.** Liveness: `AttachedIsFinished`, `ClearedInteractionResumes`, `EverySituationSettles`, `DeliveryCompletes`,
`TornReceiptIsCompleted`, `EveryJobPublishes`, `QueuedWorkIsServed`, `QueuedTaskGetsFocus`, `EveryJobIsSettled`. They need fairness and
`ENABLED`, which the prover does not reason about. Every invariant and every action property that a passing run checks is proved.

## 6. Not modelled

Platform probes, HTTP transports and the GUI's HTTP layer (I/O); model access (budgets of text,
no shared state); ranking and retrieval over text and embeddings (numeric); capability, contract and
prompt registries (static tables); device providers (operating system queries); benchmarks, reports
and diagnostics (no state); data types and the database helper.

Within modelled parts: reconfiguration of resources between epochs and `FAILED` tasks; row locks
inside one worker transaction; situations of several properties and action-named ones; sensor readings;
copy jobs and folder creation of the file manager. `PROJECT.json` says so per component. In particular:

- `EpochLog`: one submitted task per save, where `submit_situation_page` submits a page of them;
- `FocusMode`: `complete_task` (`attention.py:1574`), which has no guard on the focus, and `max_wait_cycles=None`, under which no task is ever due;
- `SituationIntake`: the outcome of an action belongs to the situations its snapshot's percepts named; the subjects of their observations, which `form_situation` adds (`situations.py:126`), are left out;
- `SituationFlow`: the saved completion of `situation_runtime.py:386` and the reads of `135` are one step with what follows them;
- `SemanticMemory`: the heads a job reads are fixed per job (`consolidation.py:121`); the refusals at `semantic_memory.py:558` and `630`, which end a job as a death does;
- `GuiJobs`: exceptions at `gui_jobs.py:102` and `127`, which leave a receipt `running` until the next start of the server;
- `GuiFiles`: another program that moves a managed file onto the target of a step under way (it may write and delete);
- `MemoryProjection`: the two marks are read in one step; a torn pair causes a rebuild and nothing else;
- `DependencyOrder`: the refusal of duplicate ids, since a work set is a set; `OperatorConsent`: the exemption of loopback addresses, which need no consent.

## 7. What could come next

1. The parts of section 6 that have state: reconfiguration of resources between epochs, `FAILED` tasks, situations of several properties.
2. Row locks inside one worker transaction, for the order in which `guarded_claim_worker_step` and `complete_worker_claim` take them.
3. When the planner changes: the two disagreements at the end of section 4 as properties of a run, and `FinishedTaskCanBePublished` as a
   theorem in place of `EpochsThatFinishATask`.
