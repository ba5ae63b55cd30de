------------------------ MODULE PerceptPipelineProofs ------------------------
(* One interaction is one computation with one answer: proved for any number *)
(* of stages, supervisors, worker processes, retries, deaths and resets.     *)
EXTENDS PerceptPipeline, WellFoundedInduction, NaturalsInduction, TLAPS

(* A walk that has claimed a stage is at a stage, one that waits for a       *)
(* process names it.                                                         *)
WellFormed(r) ==
    /\ r \in Walk
    /\ r.at \in {"claimed", "waiting", "stopping"} => r.stage \in Stages
    /\ r.at = "waiting" => r.worker \in Workers

WalksAreWellFormed ==
    /\ walk \in [Supervisors -> Walk]
    /\ \A v \in Supervisors : WellFormed(walk[v])

(* Nothing is under way about an interaction nobody submitted.               *)
WorkIsSubmitted ==
    /\ \A v \in Supervisors : walk[v].at # "idle" => submitted # NoPrompt
    /\ row # NoAssignment => submitted # NoPrompt

WorkersTyped == workers \in [Workers -> Worker]
RowsTyped == rows \in [Stages -> Seq(Row)]

StoresTyped ==
    /\ journal \in [Stages -> Artifact]
    /\ bound \in Assignments \cup {NoAssignment}
    /\ registered \subseteq Stages
    /\ results \in [Stages -> Result]

(* What is kept beside the journal: only its type matters here. *)
FileTyped == torn \in BOOLEAN /\ notes \in [Stages -> {"none", "taken", "stale"}]

TextsTyped ==
    /\ {submitted, prompt, percept} \subseteq DOMAIN Stripped \cup {NoPrompt}
    /\ {response, final} \subseteq Values
    /\ task \in {"none", "QUEUED", "ADMITTED", "COMPLETED"}
    /\ row \in Assignments \cup {NoAssignment}
    /\ answered \subseteq Outputs
    /\ faults \in 0 .. MaxFaults

(* What a process holds comes from the journal J: the inputs it found are    *)
(* journaled outputs, what it computed was made of all of them, what it is   *)
(* about to commit is the journaled output of its stage.  Inputs may be      *)
(* missing: the tables can be cleared while the process reads them.          *)
Grounded(p, J) ==
    /\ p.state \in {"preparing", "executing", "computed"} =>
          \A j \in Needs[p.stage] : p.made.from[j] \in {NoOutput, J[j].out}
    /\ p.state = "computed" =>
          /\ p.made.out # NoOutput
          /\ \A j \in Needs[p.stage] : p.made.from[j] # NoOutput
          /\ p.stage = Persist => p.made.out = p.made.from[Respond]
    /\ p.state = "journaled" => p.made.out # NoOutput /\ p.made.out = J[p.stage].out

ProcessesAreGrounded == \A w \in Workers : Grounded(workers[w], journal)

(* V2_PERSIST_RESULT passes the text of the responder on.                    *)
PersistRepeatsResponse == Journaled(Persist) => journal[Persist].out = journal[Respond].out

TypeIInv ==
    /\ StoresTyped /\ RowsTyped /\ WorkersTyped /\ WalksAreWellFormed
    /\ TextsTyped /\ WorkIsSubmitted

Computation ==
    /\ ResultMatchesJournal /\ JournalIsOneComputation
    /\ PersistRepeatsResponse /\ ProcessesAreGrounded /\ OneAnswer

IInv == TypeIInv /\ Computation

USE DEF kept
-----------------------------------------------------------------------------
(* What the steps of the model are put together from. *)

LEMMA StageFacts ==
    /\ LastStage \in Nat /\ LastStage >= 2
    /\ Respond \in Stages /\ Persist \in Stages /\ 1 \in Stages
    /\ Needs[Persist] = {Respond}
BY StageAssumption, PerceptAssumption DEF Stages, Respond, Persist

LEMMA ConstantsAreTyped ==
    /\ NoArtifact \in Artifact /\ NoResult \in Result
    /\ FreeWorker \in Worker /\ IdleWalk \in Walk
<1> USE StageAssumption, StageFacts
<1>1. NoArtifact \in Artifact
    BY DEF NoArtifact, Artifact, NoInputs, Inputs, Values
<1>2. NoResult \in Result
    BY DEF NoResult, Result, Values
<1>3. FreeWorker \in Worker
    BY <1>1 DEF FreeWorker, Worker, Busy, Kinds
<1>4. 0 \in 0 .. MaxAttempts /\ 0 \in 0 .. MaxTries /\ 1 \in 1 .. LastStage + 1
    OBVIOUS
<1>5. IdleWalk \in Walk
    BY <1>4 DEF IdleWalk, Walk, Kinds, StageStates, CallStates
<1> QED
    BY <1>1, <1>2, <1>3, <1>5

LEMMA IdleWalkIsWellFormed == WellFormed(IdleWalk) /\ IdleWalk.at = "idle"
BY ConstantsAreTyped DEF WellFormed, IdleWalk

(* One supervisor moves. *)
LEMMA OneWalkMoves ==
    ASSUME WalksAreWellFormed, NEW v \in Supervisors, NEW r, WellFormed(r),
           walk' = [walk EXCEPT ![v] = r]
    PROVE  /\ WalksAreWellFormed'
           /\ \A u \in Supervisors : walk'[u] = IF u = v THEN r ELSE walk[u]
BY DEF WalksAreWellFormed, WellFormed

(* A supervisor's call ends: its walk is idle, and of the processes only the *)
(* finished one it waited for is freed.                                      *)
LEMMA LeavesFacts ==
    ASSUME WalksAreWellFormed, WorkersTyped, NEW v \in Supervisors, Leaves(v)
    PROVE  /\ WalksAreWellFormed' /\ WorkersTyped'
           /\ \A u \in Supervisors : walk'[u] = IF u = v THEN IdleWalk ELSE walk[u]
           /\ \A w \in Workers : workers'[w] \in {workers[w], FreeWorker}
<1>1. /\ WalksAreWellFormed'
      /\ \A u \in Supervisors : walk'[u] = IF u = v THEN IdleWalk ELSE walk[u]
    BY OneWalkMoves, IdleWalkIsWellFormed DEF Leaves
<1>2. /\ WorkersTyped'
      /\ \A w \in Workers : workers'[w] \in {workers[w], FreeWorker}
    BY ConstantsAreTyped DEF Leaves, WorkersTyped
<1> QED
    BY <1>1, <1>2

(* A process ends: it keeps its exit for the supervisor that waits, or is    *)
(* gone.                                                                     *)
LEMMA EndedFacts ==
    ASSUME WorkersTyped, NEW w \in Workers, NEW outcome \in {"ok", "failed"},
           workers' = Ended(w, outcome)
    PROVE  /\ WorkersTyped'
           /\ \A u \in Workers : \/ workers'[u] = workers[u]
                                 \/ workers'[u].state \in {"free", "ok", "failed"}
<1>1. [workers[w] EXCEPT !.state = outcome, !.made = NoArtifact] \in Worker
    BY ConstantsAreTyped DEF WorkersTyped, Worker
<1>2. CASE \E v \in Supervisors : AwaitedBy(v, w)
  <2>1. workers' = [workers EXCEPT ![w].state = outcome, ![w].made = NoArtifact]
      BY <1>2 DEF Ended
  <2> DEFINE r == [workers[w] EXCEPT !.state = outcome, !.made = NoArtifact]
  <2>2. workers' = [workers EXCEPT ![w] = r]
      BY <2>1 DEF WorkersTyped
  <2>3. r.state = outcome
      BY DEF WorkersTyped, Worker
  <2> HIDE DEF r
  <2> QED
      BY <1>1, <2>2, <2>3 DEF WorkersTyped, r
<1>3. CASE ~\E v \in Supervisors : AwaitedBy(v, w)
    BY <1>3, ConstantsAreTyped DEF Ended, WorkersTyped, FreeWorker
<1> QED
    BY <1>2, <1>3

(* A process changes its state and what it has made, and nothing else. *)
LEMMA OneWorkerBecomes ==
    ASSUME WorkersTyped, NEW w \in Workers, NEW state \in Busy, NEW made \in Artifact,
           Becomes(w, state, made)
    PROVE  /\ WorkersTyped'
           /\ \A u \in Workers \ {w} : workers'[u] = workers[u]
           /\ workers'[w].state = state /\ workers'[w].made = made
           /\ workers'[w].stage = workers[w].stage
<1> DEFINE r == [workers[w] EXCEPT !.state = state, !.made = made]
<1>1. workers' = [workers EXCEPT ![w] = r]
    BY DEF Becomes, WorkersTyped
<1>2. r \in Worker /\ r.state = state /\ r.made = made /\ r.stage = workers[w].stage
    BY DEF WorkersTyped, Worker
<1> QED
    BY <1>1, <1>2 DEF WorkersTyped

LEMMA RowStatus ==
    \A r \in Row : \A status \in {"ACTIVE", "COMPLETED", "ABANDONED", "RELEASED"} :
        [r EXCEPT !.status = status] \in Row
BY DEF Row

(* Expired claims become abandoned ones in place. *)
LEMMA AbandonLapsedTyped == RowsTyped => AbandonLapsed \in [Stages -> Seq(Row)]
<1> SUFFICES ASSUME RowsTyped, NEW k \in Stages
             PROVE  [i \in DOMAIN rows[k] |->
                        IF rows[k][i].status = "ACTIVE" /\ rows[k][i].lapsed
                        THEN [rows[k][i] EXCEPT !.status = "ABANDONED"]
                        ELSE rows[k][i]] \in Seq(Row)
    BY DEF AbandonLapsed
<1>1. rows[k] \in Seq(Row)
    BY DEF RowsTyped
<1>2. \A i \in DOMAIN rows[k] : /\ rows[k][i] \in Row
                                /\ [rows[k][i] EXCEPT !.status = "ABANDONED"] \in Row
  <2> SUFFICES ASSUME NEW i \in DOMAIN rows[k] PROVE rows[k][i] \in Row
      BY RowStatus
  <2> QED
      BY <1>1
<1>3. DOMAIN rows[k] = 1 .. Len(rows[k]) /\ Len(rows[k]) \in Nat
    BY <1>1
<1>4. [i \in 1 .. Len(rows[k]) |->
          IF rows[k][i].status = "ACTIVE" /\ rows[k][i].lapsed
          THEN [rows[k][i] EXCEPT !.status = "ABANDONED"] ELSE rows[k][i]]
      \in [1 .. Len(rows[k]) -> Row]
    BY <1>2, <1>3
<1>5. \A n \in Nat : \A f \in [1 .. n -> Row] : f \in Seq(Row)
    OBVIOUS
<1> QED
    BY <1>3, <1>4, <1>5

(* The status of one claim changes. *)
LEMMA RowUpdateTyped ==
    ASSUME RowsTyped, NEW k \in Stages, NEW i \in DOMAIN rows[k], NEW r \in Row
    PROVE  [rows EXCEPT ![k][i] = r] \in [Stages -> Seq(Row)]
<1>1. rows[k] \in Seq(Row)
    BY DEF RowsTyped
<1>2. [rows[k] EXCEPT ![i] = r] \in Seq(Row)
    BY <1>1
<1> QED
    BY <1>2 DEF RowsTyped

LEMMA ReleaseTyped ==
    ASSUME RowsTyped, NEW a, NEW kind, NEW k \in Stages, NEW i
    PROVE  Release(a, kind, k, i) \in [Stages -> Seq(Row)]
<1>1. CASE OwnRow(a, kind, k, i) /\ rows[k][i].status = "ACTIVE"
  <2>1. i \in DOMAIN rows[k] /\ rows[k] \in Seq(Row)
      BY <1>1 DEF OwnRow, RowsTyped
  <2>2. rows[k][i] \in Row
      BY <2>1
  <2>3. [rows[k][i] EXCEPT !.status = "RELEASED"] \in Row
      BY <2>2 DEF Row
  <2>4. Release(a, kind, k, i) =
            [rows EXCEPT ![k][i] = [rows[k][i] EXCEPT !.status = "RELEASED"]]
      BY <1>1, <2>1 DEF Release, RowsTyped
  <2> QED
      BY <2>1, <2>3, <2>4, RowUpdateTyped
<1>2. CASE ~(OwnRow(a, kind, k, i) /\ rows[k][i].status = "ACTIVE")
    BY <1>2 DEF Release, RowsTyped
<1> QED
    BY <1>1, <1>2

-----------------------------------------------------------------------------
(* How a step keeps the computation. *)

(* The journal keeps what it has, what it gains was made from what it has,   *)
(* results are journaled outputs, processes are left alone or grounded, and  *)
(* the texts that go out are old ones or the journaled response.             *)
JournalGrows ==
    /\ \A k \in Stages : Journaled(k) => journal'[k] = journal[k]
    /\ \A k \in Stages : journal'[k].out # NoOutput /\ ~Journaled(k) =>
          /\ \A j \in Needs[k] : journal'[k].from[j] = journal[j].out /\ Journaled(j)
          /\ k = Persist => journal'[k].out = journal[Respond].out

ResultsAreJournaled ==
    \A k \in Stages : results'[k].out \in {results[k].out, NoOutput, journal'[k].out}

ProcessesMove ==
    \A w \in Workers : workers'[w] = workers[w] \/ Grounded(workers'[w], journal')

TextsAreTheResponse ==
    \A text \in (answered' \cup {response', final'}) \ {NoOutput} :
        text \in answered \cup {response, final} \/ text = journal'[Respond].out

LEMMA GroundedStays ==
    ASSUME StoresTyped, StoresTyped', JournalGrows, NEW p \in Worker, Grounded(p, journal)
    PROVE  Grounded(p, journal')
<1>1. p.stage \in Stages /\ Needs[p.stage] \subseteq Stages
    BY StageAssumption DEF Worker
<1>2. \A j \in Stages : journal[j].out # NoOutput => journal'[j].out = journal[j].out
    BY DEF JournalGrows, Journaled
<1> QED
    BY <1>1, <1>2 DEF Grounded

LEMMA ComputationIsKept ==
    ASSUME IInv, StoresTyped', WorkersTyped', JournalGrows, ResultsAreJournaled,
           ProcessesMove, TextsAreTheResponse
    PROVE  Computation'
<1> USE StageAssumption, StageFacts
<1>1. \A k \in Stages : journal[k].out # NoOutput => journal'[k] = journal[k]
    BY DEF JournalGrows, Journaled
<1>2. ResultMatchesJournal'
  <2> SUFFICES ASSUME NEW k \in Stages, results'[k].out # NoOutput
               PROVE  results'[k].out = journal'[k].out
      BY DEF ResultMatchesJournal, HasResult
  <2>1. CASE results'[k].out = results[k].out
      BY <2>1, <1>1 DEF IInv, Computation, ResultMatchesJournal, HasResult
  <2> QED
      BY <2>1 DEF ResultsAreJournaled
<1>3. JournalIsOneComputation'
  <2> SUFFICES ASSUME NEW k \in Stages, journal'[k].out # NoOutput, NEW j \in Needs[k]
               PROVE  journal'[k].from[j] = journal'[j].out /\ journal'[j].out # NoOutput
      BY DEF JournalIsOneComputation, Journaled
  <2>1. j \in Stages
      OBVIOUS
  <2>2. journal'[k].from[j] = journal[j].out /\ journal[j].out # NoOutput
    <3>1. CASE journal[k].out # NoOutput
        BY <3>1, <1>1 DEF IInv, Computation, JournalIsOneComputation, Journaled
    <3>2. CASE journal[k].out = NoOutput
        BY <3>2 DEF JournalGrows, Journaled
    <3> QED
        BY <3>1, <3>2
  <2> QED
      BY <2>1, <2>2, <1>1
<1>4. PersistRepeatsResponse'
  <2> SUFFICES ASSUME journal'[Persist].out # NoOutput
               PROVE  journal'[Persist].out = journal'[Respond].out
      BY DEF PersistRepeatsResponse, Journaled, Persist, Respond
  <2>1. journal'[Persist].out = journal[Respond].out
    <3>1. CASE journal[Persist].out # NoOutput
        BY <3>1, <1>1 DEF IInv, Computation, PersistRepeatsResponse, Journaled
    <3>2. CASE journal[Persist].out = NoOutput
        BY <3>2 DEF JournalGrows, Journaled
    <3> QED
        BY <3>1, <3>2
  <2> QED
      BY <2>1, <1>1
<1>5. ProcessesAreGrounded'
  <2> SUFFICES ASSUME NEW w \in Workers PROVE Grounded(workers'[w], journal')
      BY DEF ProcessesAreGrounded
  <2>1. CASE workers'[w] = workers[w]
    <3>1. workers[w] \in Worker /\ Grounded(workers[w], journal) /\ StoresTyped
        BY DEF IInv, TypeIInv, WorkersTyped, Computation, ProcessesAreGrounded
    <3> QED
        BY <2>1, <3>1, GroundedStays
  <2> QED
      BY <2>1 DEF ProcessesMove
<1>6. OneAnswer'
  <2> SUFFICES ASSUME NEW text \in (answered' \cup {response', final'}) \ {NoOutput}
               PROVE  text = journal'[Respond].out
      BY DEF OneAnswer, Respond
  <2>1. CASE text \in answered \cup {response, final}
      BY <2>1, <1>1 DEF IInv, Computation, OneAnswer
  <2> QED
      BY <2>1 DEF TextsAreTheResponse
<1> QED
    BY <1>2, <1>3, <1>4, <1>5, <1>6 DEF Computation

(* Processes that are about to start or have ended hold nothing. *)
LEMMA QuietIsGrounded ==
    \A p, J : p.state \in {"free", "ok", "failed", "spawned", "committed"} => Grounded(p, J)
BY DEF Grounded

LEMMA QuietStep ==
    ASSUME IInv, WorkersTyped', UNCHANGED <<journal, results, response, final, answered>>,
           bound' \in Assignments \cup {NoAssignment}, registered' \subseteq Stages,
           \A w \in Workers : \/ workers'[w] = workers[w]
                              \/ workers'[w].state \in {"free", "ok", "failed", "spawned", "committed"}
    PROVE  StoresTyped' /\ Computation'
<1>1. StoresTyped'
    BY DEF IInv, TypeIInv, StoresTyped
<1>2. JournalGrows /\ ResultsAreJournaled /\ TextsAreTheResponse
    BY DEF JournalGrows, ResultsAreJournaled, TextsAreTheResponse, Journaled
<1>3. ProcessesMove
    BY QuietIsGrounded DEF ProcessesMove
<1> QED
    BY <1>1, <1>2, <1>3, ComputationIsKept

(* The interaction stays submitted while anything is under way. *)
LEMMA SubmittedStays ==
    ASSUME WorkIsSubmitted, UNCHANGED submitted,
           \/ submitted # NoPrompt
           \/ /\ row' \in {row, NoAssignment}
              /\ \A u \in Supervisors : walk'[u].at # "idle" => walk[u].at # "idle"
    PROVE  WorkIsSubmitted'
BY DEF WorkIsSubmitted

LEMMA InitEstablishes == Init => IInv
<1> SUFFICES ASSUME Init PROVE IInv
    OBVIOUS
<1> USE StageAssumption, PerceptAssumption, StageFacts, ConstantsAreTyped
<1>1. StoresTyped /\ WorkersTyped
    BY DEF Init, StageInit, StoresTyped, WorkersTyped
<1>2. RowsTyped
    BY DEF Init, StageInit, RowsTyped
<1>3. WalksAreWellFormed
    BY IdleWalkIsWellFormed DEF Init, StageInit, WalksAreWellFormed
<1>4. TextsTyped
    BY DEF Init, TextsTyped, Values
<1>5. WorkIsSubmitted
    BY IdleWalkIsWellFormed DEF Init, StageInit, WorkIsSubmitted
<1>6. ResultMatchesJournal /\ JournalIsOneComputation /\ PersistRepeatsResponse
    BY DEF Init, StageInit, ResultMatchesJournal, JournalIsOneComputation,
           PersistRepeatsResponse, HasResult, Journaled, NoResult, NoArtifact
<1>7. ProcessesAreGrounded
  <2>1. FreeWorker.state = "free"
      BY DEF FreeWorker
  <2> QED
      BY <2>1, QuietIsGrounded DEF Init, StageInit, ProcessesAreGrounded
<1>8. OneAnswer
    BY DEF Init, OneAnswer
<1> QED
    BY <1>1, <1>2, <1>3, <1>4, <1>5, <1>6, <1>7, <1>8 DEF IInv, TypeIInv, Computation
-----------------------------------------------------------------------------
(* The supervisor's call around the stages. *)

LEMMA HandleKeeps ==
    ASSUME IInv, NEW v \in Supervisors, NEW text \in Prompts, Handle(v, text)
    PROVE  IInv'
<1> DEFINE r == [IdleWalk EXCEPT !.at = "recording"]
<1>1. walk' = [walk EXCEPT ![v] = r]
    BY DEF Handle
<1>2. WellFormed(r)
    BY ConstantsAreTyped DEF WellFormed, Walk, IdleWalk, CallStates, Kinds
<1> HIDE DEF r
<1>3. WalksAreWellFormed'
    BY <1>1, <1>2, OneWalkMoves DEF IInv, TypeIInv
<1>4. RowsTyped' /\ WorkersTyped'
    BY DEF IInv, TypeIInv, Handle, tables, RowsTyped, WorkersTyped
<1>5. StoresTyped' /\ Computation'
    BY <1>4, QuietStep DEF Handle, tables, IInv, TypeIInv, StoresTyped
<1>6. TextsTyped' /\ WorkIsSubmitted'
    BY PerceptAssumption DEF Handle, IInv, TypeIInv, TextsTyped, WorkIsSubmitted
<1> QED
    BY <1>3, <1>4, <1>5, <1>6 DEF IInv, TypeIInv

(* What a call that ends without touching a table keeps. *)
LEMMA RaisesKeeps ==
    ASSUME IInv, NEW v \in Supervisors, Leaves(v), RowsTyped', TextsTyped',
           bound' \in Assignments \cup {NoAssignment}, registered' \subseteq Stages,
           row' \in {row, NoAssignment},
           UNCHANGED <<journal, results, submitted, response, final, answered>>
    PROVE  IInv'
<1>1. /\ WalksAreWellFormed' /\ WorkersTyped'
      /\ \A u \in Supervisors : walk'[u] = IF u = v THEN IdleWalk ELSE walk[u]
      /\ \A w \in Workers : workers'[w] \in {workers[w], FreeWorker}
    BY LeavesFacts DEF IInv, TypeIInv
<1>2. FreeWorker.state = "free"
    BY DEF FreeWorker
<1>3. StoresTyped' /\ Computation'
    BY <1>1, <1>2, QuietStep
<1>4. WorkIsSubmitted'
    BY <1>1, IdleWalkIsWellFormed, SubmittedStays DEF IInv, TypeIInv
<1> QED
    BY <1>1, <1>3, <1>4 DEF IInv, TypeIInv

(* What a call that goes on without touching a process keeps. *)
LEMMA GoesKeeps ==
    ASSUME IInv, NEW v \in Supervisors, NEW r, WellFormed(r), walk[v].at # "idle",
           walk' = [walk EXCEPT ![v] = r], RowsTyped', TextsTyped',
           bound' \in Assignments \cup {NoAssignment}, registered' \subseteq Stages,
           UNCHANGED <<journal, results, workers, submitted, response, final, answered>>
    PROVE  IInv'
<1>1. WalksAreWellFormed' /\ WorkersTyped'
    BY OneWalkMoves DEF IInv, TypeIInv, WorkersTyped
<1>2. StoresTyped' /\ Computation'
    BY <1>1, QuietStep
<1>3. WorkIsSubmitted'
    BY SubmittedStays DEF IInv, TypeIInv, WorkIsSubmitted
<1> QED
    BY <1>1, <1>2, <1>3 DEF IInv, TypeIInv

(* A supervisor goes to another part of its call. *)
LEMMA GoneWalk ==
    ASSUME WalksAreWellFormed, NEW v \in Supervisors, NEW at \in CallStates \cup {"claiming"},
           Goes(v, at)
    PROVE  \E r : WellFormed(r) /\ walk' = [walk EXCEPT ![v] = r] /\ r.at = at
<1> DEFINE r == [walk[v] EXCEPT !.at = at]
<1>1. walk' = [walk EXCEPT ![v] = r]
    BY DEF Goes, WalksAreWellFormed
<1>2. WellFormed(r) /\ r.at = at
    BY DEF WellFormed, WalksAreWellFormed, Walk, CallStates, StageStates
<1> HIDE DEF r
<1> QED
    BY <1>1, <1>2

LEMMA RecordPromptKeeps ==
    ASSUME IInv, NEW v \in Supervisors, RecordPrompt(v)
    PROVE  IInv'
<1>1. RowsTyped' /\ StoresTyped /\ walk[v].at # "idle"
    <2>1. RowsTyped'
        BY DEF IInv, TypeIInv, RowsTyped, RecordPrompt, Raises, tables
    <2> QED
        BY <2>1 DEF IInv, TypeIInv, RecordPrompt
<1>2. TextsTyped'
    BY DEF IInv, TypeIInv, TextsTyped, RecordPrompt, TextOf
<1>3. CASE prompt \in {NoPrompt, TextOf(v)} /\ ~torn
  <2>1. Goes(v, "submitting") /\ UNCHANGED <<journal, tables, workers>>
      BY <1>3 DEF RecordPrompt
  <2>2. PICK r : WellFormed(r) /\ walk' = [walk EXCEPT ![v] = r]
      BY <2>1, GoneWalk DEF IInv, TypeIInv, CallStates
  <2> QED
      BY <1>1, <1>2, <2>1, <2>2, GoesKeeps DEF RecordPrompt, tables, StoresTyped
<1>4. CASE prompt \notin {NoPrompt, TextOf(v)} \/ torn
    BY <1>1, <1>2, <1>4, RaisesKeeps DEF RecordPrompt, Raises, tables, StoresTyped
<1> QED
    BY <1>3, <1>4

LEMMA SubmitTaskKeeps ==
    ASSUME IInv, NEW v \in Supervisors, SubmitTask(v)
    PROVE  IInv'
<1>1. /\ RowsTyped' /\ StoresTyped /\ walk[v].at # "idle"
      /\ UNCHANGED <<journal, registered, results, submitted, response, row, final, answered>>
    <2>1. RowsTyped'
        BY DEF IInv, TypeIInv, RowsTyped, SubmitTask
    <2> QED
        BY <2>1 DEF IInv, TypeIInv, SubmitTask
<1>2. TextsTyped'
    BY PerceptAssumption DEF IInv, TypeIInv, TextsTyped, SubmitTask, Admitted, Fault
<1>3. ASSUME NEW a \in Assignments, Admitted(a), UNCHANGED workers,
             walk' = [walk EXCEPT ![v].at = "binding", ![v].assignment = a]
      PROVE  IInv'
  <2> DEFINE r == [walk[v] EXCEPT !.at = "binding", !.assignment = a]
  <2>1. walk' = [walk EXCEPT ![v] = r]
      BY <1>3 DEF IInv, TypeIInv, WalksAreWellFormed
  <2>2. WellFormed(r)
      BY DEF WellFormed, IInv, TypeIInv, WalksAreWellFormed, Walk, CallStates, StageStates
  <2> HIDE DEF r
  <2> QED
      BY <1>1, <1>2, <1>3, <2>1, <2>2, GoesKeeps DEF Admitted, StoresTyped
<1>4. CASE Leaves(v) /\ UNCHANGED bound
    BY <1>1, <1>2, <1>4, RaisesKeeps DEF StoresTyped
<1> QED
    BY <1>3, <1>4 DEF SubmitTask

LEMMA RefuseDuplicateTaskKeeps ==
    ASSUME IInv, NEW v \in Supervisors, RefuseDuplicateTask(v)
    PROVE  IInv'
<1>1. RowsTyped' /\ TextsTyped' /\ StoresTyped
    BY DEF IInv, TypeIInv, RowsTyped, TextsTyped, RefuseDuplicateTask, Raises, tables, perceptVars
<1> QED
    BY <1>1, RaisesKeeps DEF RefuseDuplicateTask, Raises, tables, perceptVars, StoresTyped

LEMMA AdmitQueuedKeeps ==
    ASSUME IInv, AdmitQueued
    PROVE  IInv'
<1>1. /\ RowsTyped' /\ WorkersTyped' /\ TextsTyped' /\ WalksAreWellFormed'
      /\ bound' \in Assignments \cup {NoAssignment} /\ registered' \subseteq Stages
    BY DEF IInv, TypeIInv, RowsTyped, WorkersTyped, TextsTyped, WalksAreWellFormed, WellFormed,
           StoresTyped, AdmitQueued, Admitted
<1>2. StoresTyped' /\ Computation'
    BY <1>1, QuietStep DEF AdmitQueued
<1>3. WorkIsSubmitted'
    BY DEF IInv, TypeIInv, WorkIsSubmitted, AdmitQueued
<1> QED
    BY <1>1, <1>2, <1>3 DEF IInv, TypeIInv

LEMMA SaveInteractionKeeps ==
    ASSUME IInv, NEW v \in Supervisors, SaveInteraction(v)
    PROVE  IInv'
<1>1. RowsTyped' /\ StoresTyped /\ walk[v].at # "idle"
    <2>1. RowsTyped'
        BY DEF IInv, TypeIInv, RowsTyped, SaveInteraction, Raises, tables
    <2> QED
        BY <2>1 DEF IInv, TypeIInv, SaveInteraction
<1>2. TextsTyped'
    BY DEF IInv, TypeIInv, TextsTyped, StoresTyped, SaveInteraction
<1>3. CASE walk[v].assignment = bound /\ row \in {NoAssignment, bound}
  <2>1. Goes(v, "registering") /\ UNCHANGED <<journal, tables, workers>>
      BY <1>3 DEF SaveInteraction
  <2>2. PICK r : WellFormed(r) /\ walk' = [walk EXCEPT ![v] = r]
      BY <2>1, GoneWalk DEF IInv, TypeIInv, CallStates
  <2> QED
      BY <1>1, <1>2, <2>1, <2>2, GoesKeeps DEF SaveInteraction, tables, StoresTyped
<1>4. CASE ~(walk[v].assignment = bound /\ row \in {NoAssignment, bound})
    BY <1>1, <1>2, <1>4, RaisesKeeps DEF SaveInteraction, Raises, tables, StoresTyped
<1> QED
    BY <1>3, <1>4

(* A set of stages has a first one. *)
LEMMA FirstStage ==
    ASSUME NEW S \in SUBSET Stages, S # {}
    PROVE  \E j \in S : \A i \in S : j <= i
<1>1. S \subseteq Nat
    BY StageFacts DEF Stages
<1>2. PICK j \in S : \A i \in S : <<i, j>> \notin OpToRel(<, Nat)
    BY <1>1, NatLessThanWellFounded, WFMin
<1>3. \A i \in S : ~(i < j)
    BY <1>1, <1>2 DEF OpToRel
<1> QED
    BY <1>1, <1>3

LEMMA RegisterStepKeeps ==
    ASSUME IInv, NEW v \in Supervisors, RegisterStep(v)
    PROVE  IInv'
<1> DEFINE missing == Stages \ registered
           k == CHOOSE j \in missing : \A i \in missing : j <= i
<1>1. /\ RowsTyped' /\ StoresTyped /\ walk[v].at # "idle"
      /\ UNCHANGED <<journal, bound, rows, results, perceptVars>>
    <2>1. RowsTyped'
        BY DEF IInv, TypeIInv, RowsTyped, RegisterStep
    <2> QED
        BY <2>1 DEF IInv, TypeIInv, RegisterStep
<1>2. TextsTyped'
    BY <1>1 DEF IInv, TypeIInv, TextsTyped, perceptVars
<1>3. CASE walk[v].assignment = bound /\ task = "ADMITTED"
  <2> DEFINE at == IF Cardinality(missing) <= 1 THEN "claiming" ELSE "registering"
  <2>1. /\ registered' = IF missing = {} THEN registered ELSE registered \cup {k}
        /\ Goes(v, at) /\ UNCHANGED workers
      BY <1>3 DEF RegisterStep
  <2>2. registered' \subseteq Stages
    <3>1. CASE missing = {}
        BY <1>1, <2>1, <3>1 DEF StoresTyped
    <3>2. CASE missing # {}
      <4>1. k \in missing
          BY <3>2, FirstStage
      <4> QED
          BY <1>1, <2>1, <3>2, <4>1 DEF StoresTyped
    <3> QED
        BY <3>1, <3>2
  <2>3. at \in CallStates \cup {"claiming"}
      BY DEF CallStates
  <2> HIDE DEF at
  <2>4. PICK r : WellFormed(r) /\ walk' = [walk EXCEPT ![v] = r]
      BY <2>1, <2>3, GoneWalk DEF IInv, TypeIInv
  <2> QED
      BY <1>1, <1>2, <2>1, <2>2, <2>4, GoesKeeps DEF perceptVars, StoresTyped
<1>4. CASE ~(walk[v].assignment = bound /\ task = "ADMITTED")
  <2>1. Leaves(v) /\ UNCHANGED registered
      BY <1>4 DEF RegisterStep
  <2> QED
      BY <1>1, <1>2, <2>1, RaisesKeeps DEF perceptVars, StoresTyped
<1> QED
    BY <1>3, <1>4

(* What the last stage left, in the tables or in the final disposition, is   *)
(* the journaled response.                                                   *)
LEMMA AnswerIsTheResponse ==
    ASSUME IInv
    PROVE  /\ HasResult(Persist) => /\ results[Persist].out = journal[Respond].out
                                    /\ results[Persist].out \in Outputs
           /\ final # NoOutput => final = journal[Respond].out /\ final \in Outputs
<1> USE StageFacts
<1>1. ASSUME HasResult(Persist) PROVE results[Persist].out = journal[Respond].out
    BY <1>1 DEF IInv, Computation, ResultMatchesJournal, PersistRepeatsResponse, HasResult,
                Journaled
<1>2. results[Persist].out \in Values /\ final \in Values
    BY DEF IInv, TypeIInv, StoresTyped, TextsTyped, Result
<1>3. final # NoOutput => final = journal[Respond].out
    BY DEF IInv, Computation, OneAnswer
<1> QED
    BY <1>1, <1>2, <1>3 DEF Values, HasResult

(* A step that leaves tables and journal alone and lets the response out.    *)
LEMMA AnsweringStep ==
    ASSUME IInv, WorkersTyped', UNCHANGED <<journal, bound, registered, results>>,
           TextsAreTheResponse,
           \A w \in Workers : \/ workers'[w] = workers[w]
                              \/ workers'[w].state \in {"free", "ok", "failed"}
    PROVE  StoresTyped' /\ Computation'
<1>1. StoresTyped'
    BY DEF IInv, TypeIInv, StoresTyped
<1>2. JournalGrows /\ ResultsAreJournaled
    BY DEF JournalGrows, ResultsAreJournaled, Journaled
<1>3. ProcessesMove
    BY QuietIsGrounded DEF ProcessesMove
<1> QED
    BY <1>1, <1>2, <1>3, ComputationIsKept

(* A call returns an answer and ends. *)
LEMMA AnswerKeeps ==
    ASSUME IInv, NEW v \in Supervisors, Leaves(v), TextsTyped', TextsAreTheResponse,
           UNCHANGED <<journal, tables, submitted, row>>
    PROVE  IInv'
<1>1. /\ WalksAreWellFormed' /\ WorkersTyped'
      /\ \A u \in Supervisors : walk'[u] = IF u = v THEN IdleWalk ELSE walk[u]
      /\ \A w \in Workers : workers'[w] \in {workers[w], FreeWorker}
    BY LeavesFacts DEF IInv, TypeIInv
<1>2. FreeWorker.state = "free"
    BY DEF FreeWorker
<1>3. StoresTyped' /\ Computation'
    BY <1>1, <1>2, AnsweringStep DEF tables
<1>4. WorkIsSubmitted'
    BY <1>1, IdleWalkIsWellFormed, SubmittedStays DEF IInv, TypeIInv
<1>5. RowsTyped'
    BY DEF IInv, TypeIInv, RowsTyped, tables
<1> QED
    BY <1>1, <1>3, <1>4, <1>5 DEF IInv, TypeIInv

LEMMA RecoverKeeps ==
    ASSUME IInv, NEW v \in Supervisors, Recover(v)
    PROVE  IInv'
<1>1. /\ submitted # NoPrompt
      /\ UNCHANGED <<journal, tables, workers, submitted, prompt, response, task, row,
                     percept, final, faults>>
    BY DEF Recover
<1>2. RowsTyped' /\ WorkersTyped' /\ WorkIsSubmitted'
    BY <1>1, SubmittedStays DEF IInv, TypeIInv, RowsTyped, WorkersTyped, tables
<1>3. WalksAreWellFormed'
  <2>1. CASE UNCHANGED walk
      BY <2>1 DEF IInv, TypeIInv, WalksAreWellFormed, WellFormed
  <2>2. ASSUME NEW r, walk' = [walk EXCEPT ![v] = r], WellFormed(r) PROVE WalksAreWellFormed'
      BY <2>2, OneWalkMoves DEF IInv, TypeIInv
  <2>3. /\ WellFormed([IdleWalk EXCEPT !.at = "recording", !.kind = "recover"])
        /\ WellFormed([IdleWalk EXCEPT !.at = "claiming", !.kind = "recover",
                                       !.assignment = row])
      BY ConstantsAreTyped
      DEF IInv, TypeIInv, TextsTyped, WellFormed, Walk, IdleWalk, StageStates, CallStates, Kinds
  <2> QED
      BY <2>1, <2>2, <2>3 DEF Recover
<1>4. answered' = answered \/ (final # NoOutput /\ answered' = answered \cup {final})
    BY DEF Recover
<1>5. TextsTyped'
    BY <1>1, <1>4, AnswerIsTheResponse DEF IInv, TypeIInv, TextsTyped
<1>6. TextsAreTheResponse
    BY <1>1, <1>4 DEF TextsAreTheResponse
<1>7. StoresTyped' /\ Computation'
    BY <1>1, <1>2, <1>6, AnsweringStep DEF tables
<1> QED
    BY <1>2, <1>3, <1>5, <1>7 DEF IInv, TypeIInv

LEMMA BeginFinishKeeps ==
    ASSUME IInv, NEW v \in Supervisors, BeginFinish(v)
    PROVE  IInv'
<1>1. RowsTyped' /\ TextsTyped' /\ StoresTyped
    BY DEF IInv, TypeIInv, RowsTyped, TextsTyped, BeginFinish, tables, perceptVars
<1>2. PICK r : WellFormed(r) /\ walk' = [walk EXCEPT ![v] = r]
    BY GoneWalk DEF BeginFinish, IInv, TypeIInv, CallStates
<1> QED
    BY <1>1, <1>2, GoesKeeps DEF BeginFinish, tables, perceptVars, StoresTyped

LEMMA FinishPerceptKeeps ==
    ASSUME IInv, NEW v \in Supervisors, FinishPercept(v)
    PROVE  IInv'
<1>1. /\ walk[v].at # "idle"
      /\ UNCHANGED <<journal, tables, submitted, prompt, response, row, percept, final, faults>>
    BY DEF FinishPercept
<1>2. /\ task' \in {task, "COMPLETED"}
      /\ \/ answered' = answered
         \/ HasResult(Persist) /\ answered' = answered \cup {results[Persist].out}
    BY DEF FinishPercept
<1>3. TextsTyped'
    BY <1>1, <1>2, AnswerIsTheResponse DEF IInv, TypeIInv, TextsTyped
<1>4. TextsAreTheResponse
    BY <1>1, <1>2, AnswerIsTheResponse DEF TextsAreTheResponse
<1>5. CASE Leaves(v)
    BY <1>1, <1>3, <1>4, <1>5, AnswerKeeps
<1>6. CASE Goes(v, "disposing") /\ UNCHANGED <<workers, answered>>
  <2>1. PICK r : WellFormed(r) /\ walk' = [walk EXCEPT ![v] = r]
      BY <1>6, GoneWalk DEF IInv, TypeIInv, CallStates
  <2>2. RowsTyped' /\ StoresTyped
      BY <1>1 DEF IInv, TypeIInv, RowsTyped, tables
  <2> QED
      BY <1>1, <1>3, <1>6, <2>1, <2>2, GoesKeeps DEF tables, StoresTyped
<1> QED
    BY <1>5, <1>6 DEF FinishPercept

LEMMA FinishRefusedKeeps ==
    ASSUME IInv, NEW v \in Supervisors, FinishRefused(v)
    PROVE  IInv'
<1>1. RowsTyped' /\ StoresTyped
    BY DEF IInv, TypeIInv, RowsTyped, FinishRefused, Raises, tables
<1>2. TextsTyped'
    BY PerceptAssumption DEF IInv, TypeIInv, TextsTyped, FinishRefused, Fault
<1> QED
    BY <1>1, <1>2, RaisesKeeps DEF FinishRefused, Raises, tables, StoresTyped

LEMMA EnsureFinalKeeps ==
    ASSUME IInv, NEW v \in Supervisors, EnsureFinal(v)
    PROVE  IInv'
<1>1. /\ Leaves(v) /\ UNCHANGED <<journal, tables>>
      /\ UNCHANGED <<submitted, prompt, response, task, row, percept, faults>>
    BY DEF EnsureFinal, Raises
<1>2. \/ UNCHANGED <<final, answered>>
      \/ final # NoOutput /\ answered' = answered \cup {final} /\ UNCHANGED final
      \/ /\ HasResult(Persist)
         /\ final' = results[Persist].out /\ answered' = answered \cup {results[Persist].out}
    BY DEF EnsureFinal, DisposeWith
<1>3. TextsTyped'
    BY <1>1, <1>2, AnswerIsTheResponse DEF IInv, TypeIInv, TextsTyped, Values
<1>4. TextsAreTheResponse
    BY <1>1, <1>2, AnswerIsTheResponse DEF TextsAreTheResponse
<1> QED
    BY <1>1, <1>3, <1>4, AnswerKeeps
-----------------------------------------------------------------------------
(* The supervisor at a stage. *)

TextsStay == TextsTyped' /\ UNCHANGED <<submitted, row, response, final, answered>>

LEMMA NextStageWalk ==
    ASSUME WalksAreWellFormed, NEW v \in Supervisors, walk[v].stage \in Stages, NextStage(v)
    PROVE  \E r : WellFormed(r) /\ walk' = [walk EXCEPT ![v] = r]
<1> DEFINE r == [walk[v] EXCEPT !.at = "claiming", !.stage = walk[v].stage + 1,
                                !.attempt = 0, !.worker = NoWorker, !.tries = 0]
<1>1. walk' = [walk EXCEPT ![v] = r]
    BY DEF NextStage, WalksAreWellFormed
<1>2. /\ walk[v].stage + 1 \in 1 .. LastStage + 1
      /\ 0 \in 0 .. MaxAttempts /\ 0 \in 0 .. MaxTries
    BY StageFacts, StageAssumption DEF Stages
<1>3. WellFormed(r)
    BY <1>2 DEF WellFormed, WalksAreWellFormed, Walk, StageStates
<1> HIDE DEF r
<1> QED
    BY <1>1, <1>3

LEMMA SkipStageKeeps ==
    ASSUME IInv, NEW v \in Supervisors, SkipStage(v), TextsStay
    PROVE  IInv'
<1>1. RowsTyped' /\ StoresTyped
    BY DEF IInv, TypeIInv, RowsTyped, SkipStage, tables
<1>2. PICK r : WellFormed(r) /\ walk' = [walk EXCEPT ![v] = r]
    BY NextStageWalk DEF SkipStage, IInv, TypeIInv
<1> QED
    BY <1>1, <1>2, GoesKeeps DEF SkipStage, TextsStay, tables, StoresTyped

LEMMA ClaimStageKeeps ==
    ASSUME IInv, NEW v \in Supervisors, ClaimStage(v), TextsStay
    PROVE  IInv'
<1> DEFINE k == walk[v].stage
           r == [walk[v] EXCEPT !.at = "claimed", !.attempt = Len(rows[k]) + 1]
<1>1. k \in Stages /\ walk[v].at # "idle" /\ rows[k] \in Seq(Row) /\ StoresTyped
    BY DEF ClaimStage, MustLaunch, IInv, TypeIInv, RowsTyped
<1>2. WellFormed(r)
  <2>1. Len(rows[k]) + 1 \in 0 .. MaxAttempts
    <3>1. Spared(k) \in 0 .. 1
        BY DEF Spared
    <3>2. Len(rows[k]) \in Nat /\ Len(rows[k]) + Spared(k) < MaxAttempts
        BY <1>1 DEF ClaimStage
    <3> QED
        BY <3>1, <3>2, StageAssumption
  <2> QED
      BY <1>1, <2>1 DEF WellFormed, IInv, TypeIInv, WalksAreWellFormed, Walk, StageStates
<1>3. walk' = [walk EXCEPT ![v] = r]
    BY DEF ClaimStage, IInv, TypeIInv, WalksAreWellFormed
<1>4. RowsTyped'
  <2> DEFINE new == [kind |-> walk[v].kind, status |-> "ACTIVE", lapsed |-> FALSE]
  <2>1. AbandonLapsed \in [Stages -> Seq(Row)]
      BY AbandonLapsedTyped DEF IInv, TypeIInv
  <2>2. new \in Row
      BY DEF IInv, TypeIInv, WalksAreWellFormed, Walk, Row
  <2>3. rows' = [AbandonLapsed EXCEPT ![k] = Append(AbandonLapsed[k], new)]
      BY <1>1, <2>1 DEF ClaimStage
  <2> HIDE DEF new
  <2>4. Append(AbandonLapsed[k], new) \in Seq(Row)
      BY <1>1, <2>1, <2>2
  <2> QED
      BY <1>1, <2>1, <2>3, <2>4 DEF RowsTyped
<1> HIDE DEF k, r
<1> QED
    BY <1>1, <1>2, <1>3, <1>4, GoesKeeps DEF ClaimStage, TextsStay, StoresTyped

LEMMA DenyForPressureKeeps ==
    ASSUME IInv, NEW v \in Supervisors, DenyForPressure(v), TextsStay
    PROVE  IInv'
<1>1. /\ RowsTyped' /\ StoresTyped /\ walk[v].at # "idle"
      /\ UNCHANGED <<journal, bound, registered, results>>
  <2>1. RowsTyped'
      BY AbandonLapsedTyped DEF DenyForPressure, IInv, TypeIInv, RowsTyped
  <2> QED
      BY <2>1 DEF DenyForPressure, MustLaunch, IInv, TypeIInv
<1>2. CASE /\ walk[v].tries + 1 < MaxTries /\ UNCHANGED workers
           /\ walk' = [walk EXCEPT ![v].tries = @ + 1]
  <2> DEFINE r == [walk[v] EXCEPT !.tries = walk[v].tries + 1]
  <2>1. walk' = [walk EXCEPT ![v] = r]
      BY <1>2 DEF IInv, TypeIInv, WalksAreWellFormed
  <2>2. walk[v].tries + 1 \in 0 .. MaxTries
      BY <1>2, StageAssumption DEF IInv, TypeIInv, WalksAreWellFormed, Walk
  <2>3. WellFormed(r)
      BY <2>2 DEF WellFormed, IInv, TypeIInv, WalksAreWellFormed, Walk
  <2> HIDE DEF r
  <2> QED
      BY <1>1, <1>2, <2>1, <2>3, GoesKeeps DEF TextsStay, StoresTyped
<1>3. CASE Leaves(v)
    BY <1>1, <1>3, RaisesKeeps DEF TextsStay, StoresTyped
<1> QED
    BY <1>2, <1>3 DEF DenyForPressure

LEMMA DenyForGoodKeeps ==
    ASSUME IInv, NEW v \in Supervisors, DenyForGood(v), TextsStay
    PROVE  IInv'
<1>1. RowsTyped' /\ StoresTyped
  <2>1. RowsTyped'
      BY AbandonLapsedTyped DEF DenyForGood, IInv, TypeIInv, RowsTyped
  <2> QED
      BY <2>1 DEF IInv, TypeIInv
<1> QED
    BY <1>1, RaisesKeeps DEF DenyForGood, TextsStay, StoresTyped

(* A step of a supervisor that leaves the tables alone and starts, reaps or  *)
(* kills a process.                                                          *)
LEMMA ProcessStepKeeps ==
    ASSUME IInv, NEW v \in Supervisors, NEW r, WellFormed(r), walk[v].at # "idle",
           walk' = [walk EXCEPT ![v] = r], TextsStay, UNCHANGED <<journal, tables>>,
           NEW w \in Workers, NEW p \in Worker, p.state \in {"free", "spawned"},
           workers' = [workers EXCEPT ![w] = p]
    PROVE  IInv'
<1>1. /\ WalksAreWellFormed'
      /\ \A u \in Supervisors : walk'[u] = IF u = v THEN r ELSE walk[u]
    BY OneWalkMoves DEF IInv, TypeIInv
<1>2. WorkersTyped'
    BY DEF IInv, TypeIInv, WorkersTyped
<1>3. RowsTyped' /\ StoresTyped
    BY DEF IInv, TypeIInv, RowsTyped, tables
<1>4. StoresTyped' /\ Computation'
  <2>1. \A u \in Workers : workers'[u] = workers[u] \/ workers'[u].state \in {"free", "spawned"}
      BY DEF IInv, TypeIInv, WorkersTyped
  <2> QED
      BY <1>2, <1>3, <2>1, QuietStep DEF TextsStay, tables, StoresTyped
<1>5. WorkIsSubmitted'
    BY SubmittedStays DEF IInv, TypeIInv, WorkIsSubmitted, TextsStay
<1> QED
    BY <1>1, <1>2, <1>3, <1>4, <1>5 DEF IInv, TypeIInv, TextsStay

LEMMA SpawnKeeps ==
    ASSUME IInv, NEW v \in Supervisors, NEW w \in Workers, Spawn(v, w), TextsStay
    PROVE  IInv'
<1> DEFINE p == [state |-> "spawned", kind |-> walk[v].kind, stage |-> walk[v].stage,
                 assignment |-> walk[v].assignment, attempt |-> walk[v].attempt,
                 made |-> NoArtifact]
           r == [walk[v] EXCEPT !.at = "waiting", !.worker = w]
<1>1. p \in Worker /\ p.state = "spawned"
    BY ConstantsAreTyped
    DEF Spawn, IInv, TypeIInv, WalksAreWellFormed, WellFormed, Walk, Worker, Busy
<1>2. WellFormed(r)
    BY DEF Spawn, WellFormed, IInv, TypeIInv, WalksAreWellFormed, Walk, StageStates
<1>3. walk' = [walk EXCEPT ![v] = r]
    BY DEF Spawn, IInv, TypeIInv, WalksAreWellFormed
<1>4. workers' = [workers EXCEPT ![w] = p] /\ walk[v].at # "idle" /\ UNCHANGED <<journal, tables>>
    BY DEF Spawn
<1> HIDE DEF p, r
<1> QED
    BY <1>1, <1>2, <1>3, <1>4, ProcessStepKeeps

LEMMA ReapKeeps ==
    ASSUME IInv, NEW v \in Supervisors, Reap(v), TextsStay
    PROVE  IInv'
<1>1. /\ walk[v].worker \in Workers /\ walk[v].stage \in Stages /\ walk[v].at # "idle"
      /\ UNCHANGED <<journal, tables>> /\ StoresTyped /\ WalksAreWellFormed
    BY DEF Reap, IInv, TypeIInv, WalksAreWellFormed, WellFormed
<1>2. CASE NextStage(v) /\ workers' = [workers EXCEPT ![walk[v].worker] = FreeWorker]
  <2>1. PICK r : WellFormed(r) /\ walk' = [walk EXCEPT ![v] = r]
      BY <1>1, <1>2, NextStageWalk
  <2>2. FreeWorker \in Worker /\ FreeWorker.state = "free"
      BY ConstantsAreTyped DEF FreeWorker
  <2> QED
      BY <1>1, <1>2, <2>1, <2>2, ProcessStepKeeps
<1>3. CASE Leaves(v)
  <2>1. RowsTyped'
      BY <1>1 DEF IInv, TypeIInv, RowsTyped, tables
  <2> QED
      BY <1>1, <1>3, <2>1, RaisesKeeps DEF TextsStay, tables, StoresTyped
<1> QED
    BY <1>2, <1>3 DEF Reap

LEMMA TimeOutKeeps ==
    ASSUME IInv, NEW v \in Supervisors, TimeOut(v), TextsStay
    PROVE  IInv'
<1> DEFINE r == [walk[v] EXCEPT !.at = "stopping", !.worker = NoWorker]
<1>1. /\ walk[v].worker \in Workers /\ walk[v].at # "idle" /\ UNCHANGED <<journal, tables>>
      /\ workers' = [workers EXCEPT ![walk[v].worker] = FreeWorker]
    BY DEF TimeOut, IInv, TypeIInv, WalksAreWellFormed, WellFormed
<1>2. WellFormed(r)
    BY DEF TimeOut, WellFormed, IInv, TypeIInv, WalksAreWellFormed, Walk, StageStates
<1>3. walk' = [walk EXCEPT ![v] = r]
    BY DEF TimeOut, IInv, TypeIInv, WalksAreWellFormed
<1>4. FreeWorker \in Worker /\ FreeWorker.state = "free"
    BY ConstantsAreTyped DEF FreeWorker
<1> HIDE DEF r
<1> QED
    BY <1>1, <1>2, <1>3, <1>4, ProcessStepKeeps

(* StopWorker and SpawnFails release the claim of the walk or leave it. *)
LEMMA ReleaseAndLeaveKeeps ==
    ASSUME IInv, NEW v \in Supervisors, walk[v].at \in {"claimed", "stopping"}, Leaves(v),
           rows' \in {ReleaseOf(walk[v]), rows}, UNCHANGED <<journal, bound, registered, results>>,
           TextsStay
    PROVE  IInv'
<1>1. walk[v].stage \in Stages /\ StoresTyped /\ RowsTyped
    BY DEF IInv, TypeIInv, WalksAreWellFormed, WellFormed
<1>2. ReleaseOf(walk[v]) \in [Stages -> Seq(Row)]
    BY <1>1, ReleaseTyped DEF ReleaseOf
<1>3. RowsTyped'
    BY <1>1, <1>2 DEF RowsTyped
<1> QED
    BY <1>1, <1>3, RaisesKeeps DEF TextsStay, StoresTyped

LEMMA SupervisorDiesKeeps ==
    ASSUME IInv, NEW v \in Supervisors, SupervisorDies(v), TextsStay
    PROVE  IInv'
<1>1. RowsTyped' /\ StoresTyped
    BY DEF IInv, TypeIInv, RowsTyped, SupervisorDies, tables
<1> QED
    BY <1>1, RaisesKeeps DEF SupervisorDies, TextsStay, tables, StoresTyped
-----------------------------------------------------------------------------
(* The worker process. *)

(* A step of a process that leaves the supervisors and the texts alone: the  *)
(* types of what it writes, and how it keeps the computation.                *)
LEMMA WorkStepKeeps ==
    ASSUME IInv, UNCHANGED walk, UNCHANGED <<submitted, row>>, TextsTyped', RowsTyped',
           StoresTyped', WorkersTyped', JournalGrows, ResultsAreJournaled, ProcessesMove,
           TextsAreTheResponse
    PROVE  IInv'
<1>1. Computation'
    BY ComputationIsKept
<1>2. WalksAreWellFormed' /\ WorkIsSubmitted'
    BY DEF IInv, TypeIInv, WalksAreWellFormed, WellFormed, WorkIsSubmitted
<1> QED
    BY <1>1, <1>2 DEF IInv, TypeIInv

(* A process ends, or changes to a state in which it holds nothing.          *)
LEMMA QuietWorkKeeps ==
    ASSUME IInv, UNCHANGED <<journal, bound, registered, results, walk>>, TextsStay, RowsTyped',
           WorkersTyped',
           \A u \in Workers : \/ workers'[u] = workers[u]
                              \/ workers'[u].state \in {"free", "ok", "failed", "committed"}
    PROVE  IInv'
<1>1. StoresTyped' /\ Computation'
  <2>1. StoresTyped
      BY DEF IInv, TypeIInv
  <2> QED
      BY <2>1, QuietStep DEF TextsStay, StoresTyped
<1>2. WalksAreWellFormed' /\ WorkIsSubmitted'
    BY DEF IInv, TypeIInv, WalksAreWellFormed, WellFormed, WorkIsSubmitted, TextsStay
<1> QED
    BY <1>1, <1>2 DEF IInv, TypeIInv, TextsStay

LEMMA EndKeeps ==
    ASSUME IInv, NEW w \in Workers, NEW outcome \in {"ok", "failed"},
           workers' = Ended(w, outcome), TextsStay, RowsTyped',
           UNCHANGED <<journal, bound, registered, results, walk>>
    PROVE  IInv'
<1>1. /\ WorkersTyped'
      /\ \A u \in Workers : \/ workers'[u] = workers[u]
                            \/ workers'[u].state \in {"free", "ok", "failed"}
    BY EndedFacts DEF IInv, TypeIInv
<1> QED
    BY <1>1, QuietWorkKeeps

(* A refusal, an exit or a death: the process ends without a write. *)
LEMMA PlainEndKeeps ==
    ASSUME IInv, NEW w \in Workers, NEW outcome \in {"ok", "failed"},
           workers' = Ended(w, outcome), TextsStay, UNCHANGED <<journal, tables, walk>>
    PROVE  IInv'
<1>1. RowsTyped'
    BY DEF IInv, TypeIInv, RowsTyped, tables
<1> QED
    BY <1>1, EndKeeps DEF tables

LEMMA AfterErrorTyped ==
    ASSUME IInv, NEW w \in Workers, rows' \in AfterError(w)
    PROVE  RowsTyped'
<1>1. workers[w].stage \in Stages /\ RowsTyped
    BY DEF IInv, TypeIInv, WorkersTyped, Worker
<1>2. ReleaseOf(workers[w]) \in [Stages -> Seq(Row)]
    BY <1>1, ReleaseTyped DEF ReleaseOf
<1> QED
    BY <1>1, <1>2 DEF AfterError, RowsTyped

LEMMA FailWorkerKeeps ==
    ASSUME IInv, NEW w \in Workers, FailWorker(w), TextsStay
    PROVE  IInv'
<1>1. RowsTyped'
    BY AfterErrorTyped DEF FailWorker
<1> QED
    BY <1>1, EndKeeps DEF FailWorker

(* A process moves on with what it made, journal and tables as they are. *)
LEMMA BecomesKeeps ==
    ASSUME IInv, NEW w \in Workers, NEW state \in Busy, NEW made \in Artifact,
           Becomes(w, state, made), UNCHANGED <<journal, tables, walk>>,
           UNCHANGED <<submitted, row>>, TextsTyped', TextsAreTheResponse,
           \A p : p.state = state /\ p.made = made /\ p.stage = workers[w].stage
                 => Grounded(p, journal)
    PROVE  IInv'
<1>1. /\ WorkersTyped'
      /\ \A u \in Workers \ {w} : workers'[u] = workers[u]
      /\ workers'[w].state = state /\ workers'[w].made = made
      /\ workers'[w].stage = workers[w].stage
    BY OneWorkerBecomes DEF IInv, TypeIInv
<1>2. ProcessesMove
    BY <1>1 DEF ProcessesMove
<1>3. RowsTyped' /\ StoresTyped'
    BY DEF IInv, TypeIInv, RowsTyped, StoresTyped, tables
<1>4. JournalGrows /\ ResultsAreJournaled
    BY DEF JournalGrows, ResultsAreJournaled, Journaled, tables
<1> QED
    BY <1>1, <1>2, <1>3, <1>4, WorkStepKeeps

LEMMA RehydrateKeeps ==
    ASSUME IInv, NEW w \in Workers, Rehydrate(w), TextsStay
    PROVE  IInv'
<1> DEFINE k == workers[w].stage
<1>1. /\ k \in Stages /\ workers[w].assignment \in Assignments \cup {NoAssignment}
      /\ Needs[k] \subseteq Stages
      /\ UNCHANGED <<journal, tables, walk>> /\ TextsTyped' /\ TextsAreTheResponse
      /\ UNCHANGED <<submitted, row>>
    BY StageAssumption
    DEF IInv, TypeIInv, WorkersTyped, Worker, Rehydrate, TextsStay, TextsAreTheResponse
<1>2. CASE Journaled(k)
  <2>1. journal[k] \in Artifact /\ Becomes(w, "journaled", journal[k])
      BY <1>1, <1>2 DEF IInv, TypeIInv, StoresTyped, Rehydrate
  <2>2. \A p : p.state = "journaled" /\ p.made = journal[k] /\ p.stage = k
              => Grounded(p, journal)
      BY <1>2 DEF Grounded, Journaled
  <2> QED
      BY <1>1, <2>1, <2>2, BecomesKeeps DEF Busy
<1>3. CASE ~Journaled(k)
  <2> DEFINE made == Started(workers[w])
  <2>1. \A j \in Stages : results[j].out \in Values
                         /\ results[j].out \in {NoOutput, journal[j].out}
      BY DEF IInv, TypeIInv, StoresTyped, Result, Computation, ResultMatchesJournal, HasResult
  <2>2. made \in Artifact
      BY <1>1, <2>1 DEF Started, InputsOf, Artifact, Inputs, Values
  <2>3. \A j \in Needs[k] : made.from[j] \in {NoOutput, journal[j].out}
      BY <1>1, <2>1 DEF Started, InputsOf
  <2> DEFINE state == IF k \in Noting THEN "preparing" ELSE "executing"
  <2>4. Becomes(w, state, made)
      BY <1>3 DEF Rehydrate
  <2>5. state \in Busy /\ state \in {"preparing", "executing"}
      BY DEF Busy
  <2> HIDE DEF made, state
  <2>6. \A p : p.state = state /\ p.made = made /\ p.stage = k => Grounded(p, journal)
      BY <2>3, <2>5 DEF Grounded
  <2> QED
      BY <1>1, <2>2, <2>4, <2>5, <2>6, BecomesKeeps
<1> QED
    BY <1>2, <1>3

(* The notes are taken on the inputs the process found. *)
LEMMA TakeNotesKeeps ==
    ASSUME IInv, NEW w \in Workers, TakeNotes(w), TextsStay
    PROVE  IInv'
<1> DEFINE made == workers[w].made
<1>1. /\ made \in Artifact /\ workers[w].state = "preparing"
      /\ Becomes(w, "executing", made) /\ UNCHANGED <<journal, tables, walk>>
      /\ TextsTyped' /\ TextsAreTheResponse /\ UNCHANGED <<submitted, row>>
    BY DEF IInv, TypeIInv, WorkersTyped, Worker, TakeNotes, TextsStay, TextsAreTheResponse
<1>2. \A j \in Needs[workers[w].stage] : made.from[j] \in {NoOutput, journal[j].out}
    BY <1>1 DEF IInv, Computation, ProcessesAreGrounded, Grounded
<1> HIDE DEF made
<1>3. \A p : p.state = "executing" /\ p.made = made /\ p.stage = workers[w].stage
            => Grounded(p, journal)
    BY <1>2 DEF Grounded
<1> QED
    BY <1>1, <1>3, BecomesKeeps DEF Busy

(* Executing a stage makes its output of the inputs the process found; the   *)
(* last stage may let the response out as an event.                          *)
LEMMA ExecuteKeeps ==
    ASSUME IInv, NEW w \in Workers, NEW out \in Outputs, Execute(w, out),
           workers[w].stage = Persist => out = workers[w].made.from[Respond],
           TextsTyped', TextsAreTheResponse, UNCHANGED <<submitted, row>>
    PROVE  IInv'
<1> DEFINE k == workers[w].stage
           made == [workers[w].made EXCEPT !.out = out]
<1>1. /\ workers[w].made \in Artifact /\ workers[w].state = "executing"
      /\ Becomes(w, "computed", made) /\ UNCHANGED <<journal, tables, walk>>
    BY DEF IInv, TypeIInv, WorkersTyped, Worker, Execute
<1>2. made \in Artifact /\ made.out = out /\ made.from = workers[w].made.from
    BY <1>1 DEF Artifact, Values
<1>3. out # NoOutput
    BY StageAssumption
<1>4. \A j \in Needs[k] : /\ made.from[j] \in {NoOutput, journal[j].out}
                          /\ made.from[j] # NoOutput
    BY <1>1, <1>2 DEF IInv, Computation, ProcessesAreGrounded, Grounded, Execute, HasInputs
<1>5. k = Persist => made.out = made.from[Respond]
    BY <1>2
<1> HIDE DEF made
<1>6. \A p : p.state = "computed" /\ p.made = made /\ p.stage = k => Grounded(p, journal)
    BY <1>2, <1>3, <1>4, <1>5 DEF Grounded
<1> QED
    BY <1>1, <1>2, <1>6, BecomesKeeps DEF Busy

LEMMA ExecutePersistKeeps ==
    ASSUME IInv, NEW w \in Workers, ExecutePersist(w)
    PROVE  IInv'
<1> DEFINE text == workers[w].made.from[Respond]
<1>1. /\ workers[w].stage = Persist /\ workers[w].state = "executing"
      /\ Execute(w, text) /\ response' = text
      /\ UNCHANGED <<submitted, prompt, task, row, percept, final, answered, faults, journal>>
    BY DEF ExecutePersist, Execute
<1>2. text # NoOutput /\ text \in {NoOutput, journal[Respond].out}
    BY <1>1, StageFacts DEF Execute, HasInputs, IInv, Computation, ProcessesAreGrounded, Grounded
<1>3. text \in Outputs
  <2>1. workers[w].made \in Artifact /\ Respond \in Stages
      BY StageFacts DEF IInv, TypeIInv, WorkersTyped, Worker
  <2>2. text \in Values
      BY <2>1 DEF Artifact, Inputs
  <2> QED
      BY <1>2, <2>2 DEF Values
<1>4. TextsTyped'
    BY <1>1, <1>3 DEF IInv, TypeIInv, TextsTyped, Values
<1>5. TextsAreTheResponse
    BY <1>1, <1>2 DEF TextsAreTheResponse
<1> HIDE DEF text
<1> QED
    BY <1>1, <1>3, <1>4, <1>5, ExecuteKeeps DEF text

LEMMA WriteArtifactKeeps ==
    ASSUME IInv, NEW w \in Workers, WriteArtifact(w), TextsStay
    PROVE  IInv'
<1> DEFINE k == workers[w].stage
           made == workers[w].made
<1>1. /\ k \in Stages /\ made \in Artifact /\ Needs[k] \subseteq Stages
      /\ workers[w].state = "computed"
      /\ UNCHANGED <<tables, walk>>
    BY StageAssumption DEF IInv, TypeIInv, WorkersTyped, Worker, WriteArtifact
<1>2. /\ made.out # NoOutput
      /\ \A j \in Needs[k] : made.from[j] = journal[j].out /\ Journaled(j)
      /\ k = Persist => made.out = journal[Respond].out
    BY <1>1, StageFacts
    DEF IInv, Computation, ProcessesAreGrounded, Grounded, Journaled
<1>3. /\ journal' \in [Stages -> Artifact]
      /\ \A j \in Stages : journal'[j] = IF j = k /\ ~Journaled(k) THEN made ELSE journal[j]
    BY <1>1 DEF IInv, TypeIInv, StoresTyped, WriteArtifact
<1>4. StoresTyped' /\ RowsTyped'
    BY <1>1, <1>3 DEF IInv, TypeIInv, StoresTyped, RowsTyped, tables
<1>5. JournalGrows
    BY <1>1, <1>2, <1>3 DEF JournalGrows, Journaled
<1>6. ResultsAreJournaled /\ TextsAreTheResponse
    BY <1>1 DEF ResultsAreJournaled, TextsAreTheResponse, TextsStay, tables
<1>7. journal'[k] \in Artifact /\ journal'[k].out # NoOutput
    BY <1>1, <1>2, <1>3 DEF Journaled
<1>8. /\ WorkersTyped'
      /\ \A u \in Workers \ {w} : workers'[u] = workers[u]
      /\ workers'[w].state = "journaled" /\ workers'[w].made = journal'[k]
      /\ workers'[w].stage = k
    BY <1>7, OneWorkerBecomes DEF WriteArtifact, IInv, TypeIInv, Busy
<1>9. ProcessesMove
    BY <1>7, <1>8 DEF ProcessesMove, Grounded
<1> QED
    BY <1>1, <1>4, <1>5, <1>6, <1>8, <1>9, WorkStepKeeps DEF TextsStay

(* The status of a claim of the process, in place. *)
LEMMA OwnRowUpdate ==
    ASSUME IInv, NEW w \in Workers, OwnsRow(w),
           NEW status \in {"ACTIVE", "COMPLETED", "ABANDONED", "RELEASED"},
           rows' = [rows EXCEPT ![workers[w].stage][workers[w].attempt].status = status]
    PROVE  RowsTyped'
<1> DEFINE k == workers[w].stage
           i == workers[w].attempt
           r == [rows[k][i] EXCEPT !.status = status]
<1>1. k \in Stages /\ RowsTyped /\ rows[k] \in Seq(Row) /\ i \in DOMAIN rows[k]
    BY DEF IInv, TypeIInv, WorkersTyped, Worker, RowsTyped, OwnsRow, OwnRow
<1>2. r \in Row
  <2>1. rows[k][i] \in Row
      BY <1>1
  <2> QED
      BY <2>1, RowStatus
<1>3. rows' = [rows EXCEPT ![k][i] = r]
    BY <1>1 DEF RowsTyped
<1>4. [rows EXCEPT ![k][i] = r] \in [Stages -> Seq(Row)]
    BY <1>1, <1>2, RowUpdateTyped
<1> QED
    BY <1>3, <1>4 DEF RowsTyped

LEMMA CommittedWorker ==
    ASSUME IInv, NEW w \in Workers, workers' = [workers EXCEPT ![w].state = "committed"]
    PROVE  /\ WorkersTyped'
           /\ \A u \in Workers : workers'[u] = workers[u] \/ workers'[u].state = "committed"
<1> DEFINE p == [workers[w] EXCEPT !.state = "committed"]
<1>1. p \in Worker /\ p.state = "committed"
    BY DEF IInv, TypeIInv, WorkersTyped, Worker, Busy
<1>2. workers' = [workers EXCEPT ![w] = p]
    BY DEF IInv, TypeIInv, WorkersTyped
<1> HIDE DEF p
<1> QED
    BY <1>1, <1>2 DEF IInv, TypeIInv, WorkersTyped

LEMMA CommitResultKeeps ==
    ASSUME IInv, NEW w \in Workers, CommitResult(w), TextsStay
    PROVE  IInv'
<1> DEFINE k == workers[w].stage
           result == [out |-> workers[w].made.out, attempt |-> workers[w].attempt]
<1>1. /\ k \in Stages /\ result \in Result
      /\ workers[w].made.out = journal[k].out
      /\ results' = [results EXCEPT ![k] = result]
      /\ UNCHANGED <<journal, bound, registered, walk>>
    BY DEF IInv, TypeIInv, WorkersTyped, Worker, Artifact, Result, CommitResult, Computation,
           ProcessesAreGrounded, Grounded
<1>2. RowsTyped'
    BY OwnRowUpdate DEF CommitResult, HoldsLease
<1>3. StoresTyped'
    BY <1>1 DEF IInv, TypeIInv, StoresTyped
<1>4. /\ WorkersTyped'
      /\ \A u \in Workers : workers'[u] = workers[u] \/ workers'[u].state = "committed"
    BY CommittedWorker DEF CommitResult
<1>5. ProcessesMove
    BY <1>4, QuietIsGrounded DEF ProcessesMove
<1>6. ResultsAreJournaled
  <2> SUFFICES ASSUME NEW j \in Stages
               PROVE  results'[j].out \in {results[j].out, NoOutput, journal'[j].out}
      BY DEF ResultsAreJournaled
  <2>1. CASE j = k
      BY <1>1, <2>1 DEF IInv, TypeIInv, StoresTyped
  <2>2. CASE j # k
      BY <1>1, <2>2 DEF IInv, TypeIInv, StoresTyped
  <2> QED
      BY <2>1, <2>2
<1>7. JournalGrows /\ TextsAreTheResponse
    BY <1>1 DEF JournalGrows, TextsAreTheResponse, TextsStay, Journaled
<1> QED
    BY <1>1, <1>2, <1>3, <1>4, <1>5, <1>6, <1>7, WorkStepKeeps DEF TextsStay

LEMMA RepeatCommitKeeps ==
    ASSUME IInv, NEW w \in Workers, RepeatCommit(w), TextsStay
    PROVE  IInv'
<1>1. RowsTyped'
    BY DEF IInv, TypeIInv, RowsTyped, RepeatCommit, tables
<1> QED
    BY <1>1, CommittedWorker, QuietWorkKeeps DEF RepeatCommit, tables

LEMMA CommitRefusedKeeps ==
    ASSUME IInv, NEW w \in Workers, CommitRefused(w), TextsStay
    PROVE  IInv'
<1>1. RowsTyped'
  <2>1. CASE /\ OwnsRow(w)
             /\ rows' = [rows EXCEPT ![workers[w].stage][workers[w].attempt].status = "ABANDONED"]
      BY <2>1, OwnRowUpdate
  <2>2. CASE rows' \in AfterError(w)
      BY <2>2, AfterErrorTyped
  <2> QED
      BY <2>1, <2>2 DEF CommitRefused
<1> QED
    BY <1>1, EndKeeps DEF CommitRefused

(* The final disposition is the persisted result. *)
LEMMA WriteFinalKeeps ==
    ASSUME IInv, NEW w \in Workers, WriteFinal(w)
    PROVE  IInv'
<1>1. /\ UNCHANGED <<journal, tables, walk>>
      /\ UNCHANGED <<submitted, prompt, response, task, row, answered, percept, faults>>
      /\ HasResult(Persist) /\ final' \in {final, results[Persist].out}
      /\ workers' = Ended(w, "ok")
    BY DEF WriteFinal, ExitOk, Others, DisposeWith
<1>2. TextsTyped'
    BY <1>1, AnswerIsTheResponse DEF IInv, TypeIInv, TextsTyped, Values
<1>3. TextsAreTheResponse
    BY <1>1, AnswerIsTheResponse DEF TextsAreTheResponse
<1>4. /\ WorkersTyped'
      /\ \A u \in Workers : \/ workers'[u] = workers[u]
                            \/ workers'[u].state \in {"free", "ok", "failed"}
    BY <1>1, EndedFacts DEF IInv, TypeIInv
<1>5. StoresTyped' /\ Computation'
    BY <1>1, <1>3, <1>4, AnsweringStep DEF tables
<1>6. RowsTyped' /\ WalksAreWellFormed' /\ WorkIsSubmitted'
    BY <1>1 DEF IInv, TypeIInv, RowsTyped, WalksAreWellFormed, WellFormed, WorkIsSubmitted, tables
<1> QED
    BY <1>2, <1>4, <1>5, <1>6 DEF IInv, TypeIInv

LEMMA LapseKeeps ==
    ASSUME IInv, NEW k \in Stages, NEW i \in DOMAIN rows[k], Lapse(k, i), TextsStay
    PROVE  IInv'
<1> DEFINE r == [rows[k][i] EXCEPT !.lapsed = TRUE]
<1>1. RowsTyped /\ rows[k] \in Seq(Row)
    BY DEF IInv, TypeIInv, RowsTyped
<1>2. r \in Row
  <2>1. rows[k][i] \in Row
      BY <1>1
  <2>2. \A q \in Row : [q EXCEPT !.lapsed = TRUE] \in Row
      BY DEF Row
  <2> QED
      BY <2>1, <2>2
<1>3. rows' = [rows EXCEPT ![k][i] = r]
    BY <1>1 DEF Lapse, RowsTyped
<1> HIDE DEF r
<1>4. RowsTyped'
    BY <1>1, <1>2, <1>3, RowUpdateTyped DEF RowsTyped
<1>5. WorkersTyped'
    BY DEF Lapse, IInv, TypeIInv, WorkersTyped
<1> QED
    BY <1>4, <1>5, QuietWorkKeeps DEF Lapse

(* A reset clears the tables and leaves journal, processes and texts alone. *)
LEMMA ResetKeeps ==
    ASSUME IInv, Reset
    PROVE  IInv'
<1>1. /\ UNCHANGED <<journal, workers, walk, submitted, prompt, response, percept, final,
                     answered>>
      /\ row' = NoAssignment /\ task' = "none"
      /\ bound' = NoAssignment /\ registered' = {}
      /\ results' = [k \in Stages |-> NoResult]
    BY DEF Reset, ResetTables
<1>2. RowsTyped'
    BY DEF Reset, ResetTables, RowsTyped
<1>3. StoresTyped' /\ WorkersTyped'
    BY <1>1, ConstantsAreTyped DEF IInv, TypeIInv, StoresTyped, WorkersTyped
<1>4. TextsTyped'
    BY <1>1, PerceptAssumption DEF IInv, TypeIInv, TextsTyped, Reset, Fault
<1>5. WalksAreWellFormed' /\ WorkIsSubmitted'
    BY <1>1 DEF IInv, TypeIInv, WalksAreWellFormed, WellFormed, WorkIsSubmitted
<1>6. JournalGrows /\ TextsAreTheResponse /\ ProcessesMove
    BY <1>1 DEF JournalGrows, TextsAreTheResponse, ProcessesMove, Journaled
<1>7. ResultsAreJournaled
    BY <1>1 DEF ResultsAreJournaled, NoResult
<1>8. Computation'
    BY <1>3, <1>6, <1>7, ComputationIsKept
<1> QED
    BY <1>2, <1>3, <1>4, <1>5, <1>8 DEF IInv, TypeIInv
-----------------------------------------------------------------------------
LEMMA FaultStays ==
    ASSUME IInv, Fault \/ UNCHANGED faults, UNCHANGED <<Others, percept, final>>
    PROVE  TextsStay
BY PerceptAssumption DEF IInv, TypeIInv, TextsStay, TextsTyped, Fault, Others

LEMMA PerceptStays ==
    ASSUME IInv, UNCHANGED perceptVars
    PROVE  TextsStay
BY DEF IInv, TypeIInv, TextsStay, TextsTyped, perceptVars

LEMMA SuperviseKeeps ==
    ASSUME IInv, NEW v \in Supervisors, Supervise(v)
    PROVE  IInv'
<1>1. ASSUME NEW text \in Prompts, Handle(v, text) PROVE IInv'
    BY <1>1, HandleKeeps
<1>2. CASE RecordPrompt(v) \/ SubmitTask(v) \/ RefuseDuplicateTask(v)
    BY <1>2, RecordPromptKeeps, SubmitTaskKeeps, RefuseDuplicateTaskKeeps
<1>3. CASE SaveInteraction(v) \/ RegisterStep(v)
    BY <1>3, SaveInteractionKeeps, RegisterStepKeeps
<1>4. CASE Recover(v) \/ BeginFinish(v) \/ FinishPercept(v) \/ FinishRefused(v) \/ EnsureFinal(v)
    BY <1>4, RecoverKeeps, BeginFinishKeeps, FinishPerceptKeeps, FinishRefusedKeeps,
       EnsureFinalKeeps
<1>5. ASSUME UNCHANGED perceptVars,
             \/ SkipStage(v) \/ ClaimStage(v) \/ DenyForPressure(v) \/ DenyForGood(v)
             \/ \E w \in Workers : Spawn(v, w)
             \/ Reap(v) \/ StopWorker(v)
      PROVE  IInv'
  <2>1. TextsStay
      BY <1>5, PerceptStays
  <2>2. StopWorker(v) => IInv'
      BY <2>1, ReleaseAndLeaveKeeps DEF StopWorker
  <2> QED
      BY <1>5, <2>1, <2>2, SkipStageKeeps, ClaimStageKeeps, DenyForPressureKeeps,
         DenyForGoodKeeps, SpawnKeeps, ReapKeeps
<1> QED
    BY <1>1, <1>2, <1>3, <1>4, <1>5 DEF Supervise

LEMMA WorkKeeps ==
    ASSUME IInv, NEW w \in Workers, Work(w)
    PROVE  IInv'
<1>1. CASE BeginStage(w)
  <2>1. submitted \in DOMAIN Stripped
      BY <1>1 DEF BeginStage, IInv, TypeIInv, WorkIsSubmitted, TextsTyped
  <2>2. TextsStay
      BY <1>1, <2>1, PerceptAssumption
      DEF BeginStage, Others, TextsStay, IInv, TypeIInv, TextsTyped
  <2> QED
      BY <1>1, <2>2, RehydrateKeeps DEF BeginStage
<1>2. CASE RefuseStage(w)
    BY <1>2, PerceptStays, PlainEndKeeps DEF RefuseStage, RefuseEnvelope
<1>10. CASE PrepareStage(w) \/ RefuseNotes(w)
  <2>1. TextsStay
      BY <1>10, PerceptStays DEF PrepareStage, RefuseNotes
  <2>2. CASE PrepareStage(w)
      BY <2>1, <2>2, TakeNotesKeeps DEF PrepareStage
  <2>3. CASE RefuseNotes(w)
    <3>1. RowsTyped'
        BY <2>3, AfterErrorTyped DEF RefuseNotes, NotesConflict
    <3> QED
        BY <2>1, <2>3, <3>1, EndKeeps DEF RefuseNotes, NotesConflict
  <2> QED
      BY <1>10, <2>2, <2>3
<1>3. CASE ExecuteStage(w)
  <2>1. TextsTyped' /\ TextsAreTheResponse /\ UNCHANGED <<submitted, row>>
      BY <1>3, PerceptStays DEF ExecuteStage, TextsStay, TextsAreTheResponse
  <2>2. PICK out \in Outputs : Execute(w, out)
      BY <1>3 DEF ExecuteStage
  <2> QED
      BY <1>3, <2>1, <2>2, ExecuteKeeps DEF ExecuteStage
<1>4. CASE ExecutePersist(w)
    BY <1>4, ExecutePersistKeeps
<1>5. CASE StageFails(w)
    BY <1>5, FaultStays, FailWorkerKeeps DEF StageFails, ExecuteFails
<1>6. CASE FinishStage(w)
    BY <1>6, PerceptStays, PlainEndKeeps DEF FinishStage, ExitOk
<1>7. CASE WriteFinal(w)
    BY <1>7, WriteFinalKeeps
<1>8. CASE WriteFinalFails(w)
    BY <1>8, PerceptStays, PlainEndKeeps DEF WriteFinalFails
<1>9. ASSUME UNCHANGED perceptVars,
             \/ WriteArtifact(w) \/ WriteConflicts(w) \/ CommitResult(w) \/ RepeatCommit(w)
             \/ CommitRefused(w)
      PROVE  IInv'
  <2>1. TextsStay
      BY <1>9, PerceptStays
  <2>2. WriteConflicts(w) => IInv'
      BY <2>1, FailWorkerKeeps DEF WriteConflicts
  <2> QED
      BY <1>9, <2>1, <2>2, WriteArtifactKeeps, CommitResultKeeps, RepeatCommitKeeps,
         CommitRefusedKeeps
<1> QED
    BY <1>1, <1>2, <1>3, <1>4, <1>5, <1>6, <1>7, <1>8, <1>9, <1>10 DEF Work

LEMMA FaultyKeeps ==
    ASSUME IInv, Faulty
    PROVE  IInv'
<1>1. CASE LeaseEnds
  <2>1. PICK k \in Stages : \E i \in DOMAIN rows[k] :
            /\ Lapse(k, i)
            /\ IF Orphaned(k, i) THEN UNCHANGED faults ELSE Fault
            /\ UNCHANGED <<Others, percept, final>>
      BY <1>1 DEF LeaseEnds
  <2> QED
      BY <2>1, FaultStays, LapseKeeps
<1>2. CASE Reset
    BY <1>2, ResetKeeps
<1>3. ASSUME Fault, UNCHANGED <<Others, percept, final>>,
             NEW v \in Supervisors, SpawnFails(v) \/ TimeOut(v) \/ SupervisorDies(v)
      PROVE  IInv'
  <2>1. TextsStay
      BY <1>3, FaultStays
  <2>2. SpawnFails(v) => IInv'
      BY <2>1, ReleaseAndLeaveKeeps DEF SpawnFails
  <2> QED
      BY <1>3, <2>1, <2>2, TimeOutKeeps, SupervisorDiesKeeps
<1>4. ASSUME Fault, UNCHANGED <<Others, percept, final>>, NEW w \in Workers, WorkerDies(w)
      PROVE  IInv'
    BY <1>4, FaultStays, PlainEndKeeps DEF WorkerDies
<1> QED
    BY <1>1, <1>2, <1>3, <1>4 DEF Faulty

LEMMA StutterKeeps == ASSUME IInv, UNCHANGED vars PROVE IInv'
<1>1. TypeIInv'
    BY DEF vars, stageVars, perceptVars, IInv, TypeIInv, StoresTyped, RowsTyped, WorkersTyped,
           WalksAreWellFormed, WellFormed, TextsTyped, WorkIsSubmitted
<1>2. Computation'
    BY DEF vars, stageVars, perceptVars, IInv, Computation, ResultMatchesJournal,
           JournalIsOneComputation, PersistRepeatsResponse, ProcessesAreGrounded, OneAnswer,
           HasResult, Journaled
<1> QED
    BY <1>1, <1>2 DEF IInv

LEMMA StepKeeps == IInv /\ [Next]_vars => IInv'
<1> SUFFICES ASSUME IInv, [Next]_vars PROVE IInv'
    OBVIOUS
<1> QED
    BY SuperviseKeeps, WorkKeeps, AdmitQueuedKeeps, FaultyKeeps, StutterKeeps DEF Next

(* Types of the file and the notes, which no other part rests on. *)
LEMMA FileStaysTyped == FileTyped /\ [Next]_vars => FileTyped'
<1> SUFFICES ASSUME FileTyped, [Next]_vars PROVE FileTyped'
    OBVIOUS
<1> USE DEF FileTyped
<1>1. ASSUME NEW v \in Supervisors, Supervise(v) PROVE FileTyped'
    BY <1>1
    DEF Supervise, Handle, RecordPrompt, SubmitTask, RefuseDuplicateTask, SaveInteraction,
        RegisterStep, Recover, BeginFinish, FinishPercept, FinishRefused, EnsureFinal, Raises,
        SkipStage, ClaimStage, DenyForPressure, DenyForGood, Spawn, Reap, StopWorker
<1>2. ASSUME NEW w \in Workers, Work(w) PROVE FileTyped'
    BY <1>2
    DEF Work, BeginStage, Rehydrate, RefuseStage, RefuseEnvelope, PrepareStage, TakeNotes,
        RefuseNotes, NotesConflict, ExecuteStage, ExecutePersist, Execute, StageFails,
        ExecuteFails, FailWorker, FinishStage, ExitOk, WriteFinal, WriteFinalFails,
        WriteArtifact, WriteConflicts, CommitResult, RepeatCommit, CommitRefused
<1>3. CASE Faulty
    BY <1>3 DEF Faulty, LeaseEnds, Lapse, Reset, SpawnFails, TimeOut, SupervisorDies, WorkerDies,
                MayTear
<1>4. CASE AdmitQueued \/ UNCHANGED vars
    BY <1>4 DEF AdmitQueued, vars, stageVars
<1> QED
    BY <1>1, <1>2, <1>3, <1>4 DEF Next

LEMMA FileHolds == Spec => []FileTyped
<1>1. Init => FileTyped
    BY DEF Init, StageInit, FileTyped
<1> QED
    BY <1>1, FileStaysTyped, PTL DEF Spec

LEMMA InvariantHolds == Spec => []IInv
BY InitEstablishes, StepKeeps, PTL DEF Spec

(* The stages of an interaction are one computation, whatever supervisors,   *)
(* workers, leases and resets do: tables and journal agree, and each output  *)
(* was made from the journaled outputs before it (percept_response_runtime   *)
(* .py, artifact_recovery.py).                                               *)
THEOREM StagesAreOneComputation == Spec => []OneComputation
<1>1. IInv /\ FileTyped => OneComputation
    BY DEF FileTyped, IInv, TypeIInv, StoresTyped, RowsTyped, WorkersTyped, WalksAreWellFormed, TextsTyped,
           Computation, OneComputation, TypeOK, StageTypeOK
<1> QED
    BY <1>1, InvariantHolds, FileHolds, PTL

(* Every text that leaves the system, by the first run or by any recovery,   *)
(* is the response the journal holds.                                        *)
THEOREM EveryAnswerIsTheResponse == Spec => []OneAnswer
<1>1. IInv => OneAnswer
    BY DEF IInv, Computation
<1> QED
    BY <1>1, InvariantHolds, PTL
=============================================================================
