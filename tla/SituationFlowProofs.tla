------------------------ MODULE SituationFlowProofs ------------------------
(***************************************************************************)
(* Proofs about SituationFlow and the intake it is built on.               *)
(*                                                                         *)
(* The intake keeps that the receipt of a fold names the last snapshot its *)
(* percept made, that an intake which is past a situation has offered that *)
(* snapshot or found a newer one, and that a put under the lock of the     *)
(* candidate never finds a newer entry; so a situation all of whose        *)
(* intakes are finished has its latest snapshot as candidate.  The         *)
(* dispatcher keeps that every task in the scheduler is of the active      *)
(* snapshot of its situation or of an older one, that only the active one  *)
(* is at work, and that everything completed behind it is recorded.  An    *)
(* outcome comes back into the intake from a task, whose snapshot is there *)
(* because the active one is no newer than the candidate: the two parts    *)
(* are one invariant.                                                      *)
(***************************************************************************)
EXTENDS SituationFlow, FiniteSetTheorems, WellFoundedInduction, NaturalsInduction, TLAPS

(* What intake keeps. *)

IntakeStates == {"idle", "folding", "written", "offering", "putting"}
Snapshot == [percept : Percepts, ids : Seq(Percepts), refs : SUBSET Situations,
             state : Deliveries \cup {NoPercept}]
Entry == [snapshot : Nat, percept : Percepts]
Intake == [at : IntakeStates, todo : SUBSET Situations, got : [Situations -> Nat]]

IntakeTyped ==
    /\ situation \in [Situations -> Seq(Snapshot)]
    /\ ingest \in [Situations -> [Percepts -> Nat]]
    /\ candidate \in [Situations -> Seq(Entry)]
    /\ receipted \subseteq Percepts
    /\ intake \in [Percepts -> Intake]

WithinSnapshots ==
    \A s \in Situations :
        /\ Snapshots(s) <= MaxSnapshots
        /\ \A p \in Percepts : ingest[s][p] <= Snapshots(s)
        /\ \A i \in DOMAIN candidate[s] : candidate[s][i].snapshot \in 1 .. Snapshots(s)

(* The snapshot that an outcome is about is there, so its keys are settled. *)
Known(p) == p \in Deliveries \/ p[2] <= Snapshots(p[1])

(* A percept is only in the situations it refers to. *)
PerceptsAreAtHome ==
    \A s \in Situations : \A n \in 1 .. Snapshots(s) :
        Known(situation[s][n].percept) /\ s \in KeysOf(situation[s][n].percept)

(* No later snapshot of the situation is of this percept. *)
IsLastOf(p, s, n) ==
    /\ n \in 1 .. Snapshots(s)
    /\ \A m \in n + 1 .. Snapshots(s) : situation[s][m].percept # p

Foremost(todo) == CHOOSE s \in todo : \A o \in todo : s <= o

(* A receipt of a fold names the last snapshot of its percept, and so does   *)
(* an intake that has yet to write it.                                       *)
FoldsAreLast ==
    \A s \in Situations : \A p \in Percepts :
        ingest[s][p] # 0 => IsLastOf(p, s, ingest[s][p])

Wrote(p, x) == x.at = "written" => IsLastOf(p, Foremost(x.todo), x.got[Foremost(x.todo)])

(* An intake at work has no receipt yet, goes through the situations of its  *)
(* percept, and holds the fold receipts of those behind it.                  *)
Follows(p, x) ==
    x.at # "idle" =>
        /\ Known(p) /\ p \notin receipted /\ x.todo \subseteq KeysOf(p)
        /\ \A s \in KeysOf(p) :
              x.at \in {"offering", "putting"} \/ s \notin x.todo =>
                  x.got[s] = ingest[s][p] /\ ingest[s][p] # 0
        /\ x.at \in {"written", "putting"} => x.todo # {}

(* If the percept made the latest snapshot of the situation, that one has    *)
(* been offered: the intake has looked at it, or is over.                    *)
HasOffered(p, s) ==
    situation[s] # <<>> /\ Latest(s).percept = p => Offered(s, Snapshots(s)) # {}

Offers(p, x) ==
    x.at \in {"offering", "putting"} => \A s \in KeysOf(p) \ x.todo : HasOffered(p, s)

FinishedHaveOffered == \A p \in receipted : \A s \in Situations : HasOffered(p, s)

(* One intake at a time puts a candidate of a situation, and no newer one is *)
(* there.                                                                    *)
Puts(p, x) ==
    x.at = "putting" =>
        /\ \A q \in Percepts \ {p} : intake[q].at = "putting" => First(q) # Foremost(x.todo)
        /\ \A i \in DOMAIN candidate[Foremost(x.todo)] :
              candidate[Foremost(x.todo)][i].snapshot <= x.got[Foremost(x.todo)]

IntakesKeep ==
    \A p \in Percepts : /\ Wrote(p, intake[p]) /\ Follows(p, intake[p])
                        /\ Offers(p, intake[p]) /\ Puts(p, intake[p])

IntakeParts ==
    /\ WithinSnapshots /\ PerceptsAreAtHome /\ FoldsAreLast /\ FinishedHaveOffered /\ IntakesKeep
    /\ CandidatesAdvance /\ NewestObservationStands
IntakeIInv == IntakeTyped /\ IntakeParts
-----------------------------------------------------------------------------
(* What the dispatcher keeps. *)

TickStates == {"idle", "page", "saved", "running", "stage", "executing", "completed"}
Tick == [at : TickStates, page : SUBSET Situations, new : SUBSET Tasks,
         todo : SUBSET (Situations \cup Tasks), task : Tasks \cup {NoTask}, stale : BOOLEAN]

FlowTyped ==
    /\ task \in [Tasks -> {"none", "QUEUED", "ADMITTED", "COMPLETED"}]
    /\ about \in [Tasks -> Percepts \cup {NoPercept}]
    /\ stage \in [Tasks -> 0 .. Persist]
    /\ active \in [Situations -> Nat]
    /\ progress \in [Situations -> Seq(Nat)]
    /\ cursor \in Situations \cup {0}
    /\ late \subseteq Outcomes
    /\ tick \in [Ticks -> Tick]
    /\ faults \in 0 .. MaxFaults

(* No task is of a snapshot newer than the active one, and that one is no    *)
(* newer than the candidate.                                                 *)
ActiveIsNewest ==
    /\ \A k \in Tasks : task[k] # "none" => k[2] <= active[k[1]] /\ about[k] \in Percepts
    /\ \A s \in Situations :
          active[s] # 0 => candidate[s] # <<>> /\ active[s] <= Last(candidate[s]).snapshot

AtWorkIsActive ==
    \A k \in Tasks : task[k] \in {"QUEUED", "ADMITTED"} => k[2] = active[k[1]]

(* Behind the active snapshot everything completed is recorded, and nothing  *)
(* ahead of it.                                                              *)
ProgressIsOfCompleted ==
    /\ \A k \in Tasks : task[k] = "COMPLETED" /\ k[2] < active[k[1]] => Recorded(k[1], k[2])
    /\ \A s \in Situations : \A i \in DOMAIN progress[s] : progress[s][i] <= active[s]

StagesAreOfTasks ==
    \A k \in Tasks : /\ task[k] = "COMPLETED" => stage[k] = Persist
                     /\ stage[k] > 0 => task[k] # "none"

FlowParts ==
    /\ ActiveIsNewest /\ AtWorkIsActive /\ ProgressIsOfCompleted /\ StagesAreOfTasks
    /\ ProgressAdvances

(* One tick at a time has the lock of the dispatcher.                        *)
OnPage(t, x) ==
    x.at \in {"page", "saved"} => \A u \in Ticks \ {t} : tick[u].at \notin {"page", "saved"}

(* A page goes through situations with a candidate, and what it has          *)
(* submitted is the active snapshot of a situation it is done with.          *)
Submits(x) ==
    x.at = "page" =>
        /\ \A s \in x.todo : s \in Situations /\ candidate[s] # <<>>
        /\ \A k \in x.new : /\ k[2] = active[k[1]] /\ k[1] \notin x.todo
                            /\ task[k] = "none" /\ about[k] \in Percepts

Assigned == {k \in Tasks : task[k] \in {"ADMITTED", "COMPLETED"}}

Works(x) ==
    /\ x.at \in {"running", "stage", "executing", "completed"} => x.todo \subseteq Assigned
    /\ x.at \in {"stage", "executing", "completed"} => x.task \in Assigned
    /\ x.at = "completed" => task[x.task] = "COMPLETED"

(* The workers of two ticks are not in the same task.                        *)
Claims(t, x) ==
    x.at = "executing" =>
        /\ stage[x.task] < Persist
        /\ \A u \in Ticks \ {t} : tick[u].at = "executing" => tick[u].task # x.task

TicksKeep ==
    \A t \in Ticks : /\ OnPage(t, tick[t]) /\ Submits(tick[t]) /\ Works(tick[t])
                     /\ Claims(t, tick[t])

FlowIInv == IntakeIInv /\ FlowTyped /\ FlowParts /\ TicksKeep
-----------------------------------------------------------------------------
(* Sets and sequences. *)

LEMMA LeastIsThere ==
    ASSUME NEW S \in SUBSET Nat, S # {}
    PROVE  \E s \in S : \A o \in S : s <= o
<1>1. IsWellFoundedOn(OpToRel(<, Nat), Nat)
    BY NatLessThanWellFounded
<1>2. PICK s \in S : \A o \in S : ~(<<o, s>> \in OpToRel(<, Nat))
    BY <1>1, WFMin
<1>3. \A o \in S : s <= o
  <2> SUFFICES ASSUME NEW o \in S, o < s PROVE FALSE
      OBVIOUS
  <2>1. <<o, s>> \in Nat \X Nat /\ <<o, s>>[1] < <<o, s>>[2]
      OBVIOUS
  <2>2. <<o, s>> \in {z \in Nat \X Nat : z[1] < z[2]}
      BY <2>1
  <2> QED
      BY <1>2, <2>2, Zenon DEF OpToRel
<1> QED
    BY <1>2, <1>3

LEMMA ForemostIsIn ==
    ASSUME NEW todo \in SUBSET Situations, todo # {}
    PROVE  Foremost(todo) \in todo
<1>1. \E s \in todo : \A o \in todo : s <= o
    BY IntakeAssumption, LeastIsThere
<1> QED
    BY <1>1 DEF Foremost

LEMMA MaxIsIn ==
    ASSUME NEW page \in SUBSET Situations, page # {}
    PROVE  Max(page) \in page
<1>1. IsFiniteSet(page) /\ page \subseteq Nat
    BY IntakeAssumption, FS_Subset
<1> DEFINE HasMax(S) == \E m \in S : \A o \in S : m >= o
           Bad == {n \in Nat : \E S \in SUBSET page : S # {} /\ Cardinality(S) = n /\ ~HasMax(S)}
<1>2. ASSUME NEW n \in Bad, \A o \in Bad : n <= o PROVE FALSE
  <2>1. PICK S \in SUBSET page : S # {} /\ Cardinality(S) = n /\ ~HasMax(S)
      BY <1>2
  <2>2. PICK s \in S : TRUE
      BY <2>1
  <2>3. IsFiniteSet(S) /\ IsFiniteSet(S \ {s})
      BY <1>1, FS_Subset
  <2>4. Cardinality(S \ {s}) = n - 1 /\ Cardinality(S \ {s}) \in Nat
      BY <2>1, <2>2, <2>3, FS_RemoveElement, FS_CardinalityType
  <2>5. CASE S \ {s} = {}
    <3>1. \A o \in S : s >= o
        BY <1>1, <2>2, <2>5
    <3> QED
        BY <2>1, <2>2, <3>1
  <2>6. CASE S \ {s} # {}
    <3>1. n - 1 \notin Bad /\ n - 1 \in Nat
        BY <1>2, <2>4
    <3>2. HasMax(S \ {s})
        BY <2>4, <2>6, <3>1
    <3>3. PICK m \in S \ {s} : \A o \in S \ {s} : m >= o
        BY <3>2
    <3>4. s >= m \/ m >= s
        BY <1>1, <2>2
    <3>5. CASE m >= s
      <4>1. \A o \in S : m >= o
          BY <3>3, <3>5
      <4> QED
          BY <2>1, <4>1
    <3>6. CASE s >= m
      <4>1. \A o \in S : s >= o
          BY <1>1, <2>2, <3>3, <3>6
      <4> QED
          BY <2>1, <2>2, <4>1
    <3> QED
        BY <3>4, <3>5, <3>6
  <2> QED
      BY <2>5, <2>6
<1>3. Bad = {}
  <2>1. Bad \subseteq Nat
      OBVIOUS
  <2> HIDE DEF Bad
  <2> QED
      BY <1>2, <2>1, LeastIsThere
<1>4. Cardinality(page) \in Nat
    BY <1>1, FS_CardinalityType
<1>5. HasMax(page)
    BY <1>3, <1>4
<1> QED
    BY <1>5 DEF Max

LEMMA Appending ==
    ASSUME NEW S, NEW u \in Seq(S), NEW x \in S
    PROVE  /\ Append(u, x) \in Seq(S) /\ Append(u, x) # <<>>
           /\ Len(Append(u, x)) = Len(u) + 1 /\ Append(u, x)[Len(u) + 1] = x
           /\ \A i \in 1 .. Len(u) : Append(u, x)[i] = u[i]
OBVIOUS

LEMMA LastIsThere ==
    ASSUME NEW S, NEW u \in Seq(S), u # <<>>
    PROVE  Last(u) = u[Len(u)] /\ Len(u) \in DOMAIN u /\ Last(u) \in S /\ Len(u) > 0
BY DEF Last

LEMMA SnapshotFacts ==
    ASSUME IntakeTyped, NEW s \in Situations
    PROVE  /\ Snapshots(s) \in Nat /\ DOMAIN situation[s] = 1 .. Snapshots(s)
           /\ \A n \in 1 .. Snapshots(s) : situation[s][n] \in Snapshot
           /\ situation[s] # <<>> <=> Snapshots(s) > 0
<1>1. PICK u \in Seq(Snapshot) : u = situation[s]
    BY DEF IntakeTyped
<1>2. /\ Len(u) \in Nat /\ DOMAIN u = 1 .. Len(u) /\ (u # <<>> <=> Len(u) > 0)
      /\ \A n \in 1 .. Len(u) : u[n] \in Snapshot
    BY <1>1
<1> QED
    BY <1>1, <1>2 DEF Snapshots

LEMMA KeysAreSituations ==
    ASSUME IntakeTyped, NEW p \in Percepts, Known(p)
    PROVE  KeysOf(p) \subseteq Situations
<1>1. CASE p \in Deliveries
    BY <1>1, IntakeAssumption DEF KeysOf
<1>2. CASE p \notin Deliveries
  <2>1. p \in Tasks /\ p[1] \in Situations /\ p[2] \in 1 .. Snapshots(p[1])
    <3>1. p \in Situations \X (1 .. MaxSnapshots)
        BY <1>2 DEF Percepts, Outcomes, Tasks
    <3>2. MaxSnapshots \in Nat
        BY IntakeAssumption
    <3>3. p[1] \in Situations /\ p[2] \in 1 .. MaxSnapshots
        BY <3>1
    <3>4. Snapshots(p[1]) \in Nat
        BY <3>3, SnapshotFacts
    <3> QED
        BY <1>2, <3>1, <3>2, <3>3, <3>4 DEF Known, Tasks
  <2>2. situation[p[1]][p[2]] \in Snapshot
      BY <2>1, SnapshotFacts
  <2> QED
      BY <1>2, <2>2 DEF KeysOf, Snapshot
<1> QED
    BY <1>1, <1>2

(* Snapshots stay, and those that come are of one percept. *)
Grows(p) ==
    \A s \in Situations :
        /\ Snapshots(s) <= Snapshots(s)'
        /\ \A n \in 1 .. Snapshots(s) : situation'[s][n] = situation[s][n]
        /\ \A n \in Snapshots(s) + 1 .. Snapshots(s)' : situation'[s][n].percept = p

LEMMA KeysStay ==
    ASSUME IntakeTyped, IntakeTyped', NEW p \in Percepts, NEW q, Known(p), Grows(q)
    PROVE  Known(p)' /\ KeysOf(p)' = KeysOf(p)
<1>1. CASE p \in Deliveries
    BY <1>1 DEF Known, KeysOf
<1>2. CASE p \notin Deliveries
  <2>1. p \in Situations \X (1 .. MaxSnapshots) /\ MaxSnapshots \in Nat
      BY <1>2, IntakeAssumption DEF Percepts, Outcomes, Tasks
  <2>2. PICK s \in Situations, n \in 1 .. MaxSnapshots : s = p[1] /\ n = p[2]
      BY <2>1
  <2>3. Snapshots(s) \in Nat /\ Snapshots(s)' \in Nat
      BY <2>2, SnapshotFacts DEF IntakeTyped, Snapshots
  <2>4. n \in 1 .. Snapshots(s)
      BY <1>2, <2>1, <2>2, <2>3 DEF Known
  <2>5. situation'[s][n] = situation[s][n] /\ n <= Snapshots(s)'
      BY <2>2, <2>3, <2>4 DEF Grows
  <2>6. KeysOf(p)' = situation'[s][n].refs /\ KeysOf(p) = situation[s][n].refs
      BY <1>2, <2>2 DEF KeysOf
  <2>7. Known(p)'
      BY <2>2, <2>5 DEF Known, Snapshots
  <2> QED
      BY <2>5, <2>6, <2>7
<1> QED
    BY <1>1, <1>2

LEMMA IsLastStays ==
    ASSUME IntakeTyped, IntakeTyped', NEW p \in Percepts, NEW q, q # p, Grows(q),
           NEW s \in Situations, NEW n, IsLastOf(p, s, n)
    PROVE  IsLastOf(p, s, n)'
<1>1. Snapshots(s) \in Nat /\ Snapshots(s)' \in Nat
    BY SnapshotFacts DEF IntakeTyped, Snapshots
<1>2. n \in 1 .. Snapshots(s)'
    BY <1>1 DEF IsLastOf, Grows
<1>3. ASSUME NEW m \in n + 1 .. Snapshots(s)' PROVE situation'[s][m].percept # p
  <2>1. CASE m <= Snapshots(s)
    <3>1. m \in 1 .. Snapshots(s) /\ m \in n + 1 .. Snapshots(s)
        BY <1>1, <1>2, <1>3, <2>1
    <3> QED
        BY <3>1 DEF IsLastOf, Grows
  <2>2. CASE ~(m <= Snapshots(s))
    <3>1. m \in Snapshots(s) + 1 .. Snapshots(s)'
        BY <1>1, <1>2, <1>3, <2>2
    <3> QED
        BY <3>1 DEF Grows
  <2> QED
      BY <2>1, <2>2
<1> QED
    BY <1>2, <1>3 DEF IsLastOf, Snapshots

LEMMA HasOfferedStays ==
    ASSUME IntakeTyped, IntakeTyped', NEW p \in Percepts, NEW q, q # p, Grows(q),
           NEW s \in Situations, HasOffered(p, s),
           \A n : Offered(s, n) # {} => Offered(s, n)' # {}
    PROVE  HasOffered(p, s)'
<1>1. Snapshots(s) \in Nat /\ Snapshots(s)' \in Nat /\ Snapshots(s) <= Snapshots(s)'
    BY SnapshotFacts DEF IntakeTyped, Snapshots, Grows
<1>2. situation'[s] # <<>> <=> Snapshots(s)' > 0
    BY SnapshotFacts DEF IntakeTyped, Snapshots
<1>3. CASE Snapshots(s)' > Snapshots(s)
  <2>1. situation'[s][Snapshots(s)'].percept = q
    <3>1. Snapshots(s)' \in Snapshots(s) + 1 .. Snapshots(s)'
        BY <1>1, <1>3
    <3> QED
        BY <3>1 DEF Grows
  <2> QED
      BY <2>1 DEF HasOffered, Latest, Snapshots
<1>4. CASE Snapshots(s)' = Snapshots(s)
  <2> SUFFICES ASSUME situation'[s] # <<>>, situation'[s][Snapshots(s)'].percept = p
               PROVE  Offered(s, Snapshots(s))' # {}
      BY DEF HasOffered, Latest, Snapshots
  <2>1. Snapshots(s) \in 1 .. Snapshots(s) /\ situation[s] # <<>>
      BY <1>1, <1>2, <1>4, SnapshotFacts
  <2>2. situation'[s][Snapshots(s)] = situation[s][Snapshots(s)]
      BY <2>1 DEF Grows
  <2>3. Offered(s, Snapshots(s)) # {}
      BY <1>4, <2>1, <2>2 DEF HasOffered, Latest
  <2>4. PICK n : n = Snapshots(s)
      OBVIOUS
  <2>5. Offered(s, n)' # {}
      BY <2>3, <2>4
  <2>6. Snapshots(s)' = n
      BY <1>4, <2>4
  <2> QED
      BY <2>5, <2>6 DEF Offered, Snapshots
<1> QED
    BY <1>1, <1>3, <1>4

(* One intake moves on: the others find everything they rely on, and it      *)
(* brings its own part of the invariant.                                     *)
LEMMA OneIntakeMoves ==
    ASSUME IntakeIInv, NEW p \in Percepts, NEW x \in Intake,
           intake' = [intake EXCEPT ![p] = x],
           IntakeTyped', WithinSnapshots', PerceptsAreAtHome', CandidatesAdvance',
           NewestObservationStands', Grows(p),
           \A s \in Situations : \A q \in Percepts \ {p} : ingest'[s][q] = ingest[s][q],
           \A s \in Situations : \A n : Offered(s, n) # {} => Offered(s, n)' # {},
           receipted' \in {receipted, receipted \cup {p}},
           \A s \in Situations :
               candidate'[s] = candidate[s]
                   \/ (intake[p].at = "putting" /\ s = First(p)),
           \A s \in Situations : ingest'[s][p] # 0 => IsLastOf(p, s, ingest[s][p])',
           p \in receipted' => \A s \in Situations : HasOffered(p, s)',
           Wrote(p, x)', Follows(p, x)', Offers(p, x)', Puts(p, x)'
    PROVE  IntakeIInv'
<1> USE DEF IntakeIInv, IntakeParts
<1>1. intake'[p] = x /\ \A q \in Percepts \ {p} : intake'[q] = intake[q]
    BY DEF IntakeTyped
<1>2. FoldsAreLast'
  <2> SUFFICES ASSUME NEW s \in Situations, NEW q \in Percepts, ingest'[s][q] # 0
               PROVE  IsLastOf(q, s, ingest[s][q])'
      BY DEF FoldsAreLast
  <2>1. CASE q = p
      BY <2>1
  <2>2. CASE q # p
    <3>1. PICK n : n = ingest[s][q]
        OBVIOUS
    <3>2. ingest'[s][q] = n /\ IsLastOf(q, s, n)
        BY <2>2, <3>1 DEF FoldsAreLast
    <3>3. IsLastOf(q, s, n)'
        BY <2>2, <3>2, IsLastStays
    <3> QED
        BY <3>2, <3>3 DEF IsLastOf, Snapshots
  <2> QED
      BY <2>1, <2>2
<1>3. FinishedHaveOffered'
  <2> SUFFICES ASSUME NEW q \in receipted', NEW s \in Situations PROVE HasOffered(q, s)'
      BY DEF FinishedHaveOffered
  <2>1. CASE q = p
      BY <2>1
  <2>2. CASE q # p
      BY <2>2, HasOfferedStays DEF FinishedHaveOffered, IntakeTyped
  <2> QED
      BY <2>1, <2>2
<1>4. ASSUME NEW q \in Percepts, q # p
      PROVE  Wrote(q, intake[q])' /\ Follows(q, intake[q])' /\ Offers(q, intake[q])'
             /\ Puts(q, intake[q])'
  <2>1. PICK y \in Intake : y = intake[q] /\ y = intake'[q]
      BY <1>1, <1>4 DEF IntakeTyped
  <2>2. Wrote(q, y) /\ Follows(q, y) /\ Offers(q, y) /\ Puts(q, y)
      BY <2>1 DEF IntakesKeep
  <2>3. y.todo \subseteq Situations /\ y.at \in IntakeStates
      BY <2>1 DEF Intake
  <2>4. y.at # "idle" => /\ Known(q) /\ Known(q)' /\ KeysOf(q)' = KeysOf(q)
                         /\ KeysOf(q) \subseteq Situations
      BY <2>2, KeysStay, KeysAreSituations DEF Follows
  <2>5. Wrote(q, y)'
    <3> SUFFICES ASSUME y.at = "written"
                 PROVE  IsLastOf(q, Foremost(y.todo), y.got[Foremost(y.todo)])'
        BY DEF Wrote
    <3>1. Foremost(y.todo) \in Situations
        BY <2>2, <2>3, ForemostIsIn DEF Follows
    <3> QED
        BY <1>4, <2>2, <3>1, IsLastStays DEF Wrote
  <2>6. Follows(q, y)'
      BY <1>4, <2>2, <2>4 DEF Follows
  <2>7. Offers(q, y)'
    <3> SUFFICES ASSUME y.at \in {"offering", "putting"}, NEW s \in KeysOf(q)', s \notin y.todo
                 PROVE  HasOffered(q, s)'
        BY DEF Offers
    <3>1. s \in Situations /\ s \in KeysOf(q)
        BY <2>4
    <3>2. HasOffered(q, s)
        BY <2>2, <3>1 DEF Offers
    <3> QED
        BY <1>4, <3>1, <3>2, HasOfferedStays
  <2>8. Puts(q, y)'
    <3> SUFFICES ASSUME y.at = "putting" PROVE Puts(q, y)'
        BY DEF Puts
    <3>1. PICK s \in Situations : s = Foremost(y.todo) /\ s = First(q)
      <4>1. Foremost(y.todo) \in Situations
          BY <2>2, <2>3, ForemostIsIn DEF Follows
      <4> QED
          BY <2>1, <4>1 DEF Foremost, First
    <3>2. intake[p].at = "putting" => First(p) # s
        BY <1>4, <2>1, <2>2, <3>1 DEF Puts
    <3>3. candidate'[s] = candidate[s]
        BY <3>2
    <3>4. \A i \in DOMAIN candidate'[s] : candidate'[s][i].snapshot <= y.got[s]
        BY <2>2, <3>1, <3>3 DEF Puts
    <3>5. ASSUME NEW r \in Percepts \ {q}, intake'[r].at = "putting" PROVE First(r)' # s
      <4>1. CASE r = p
        <5>1. First(p)' = Foremost(x.todo)
            BY <1>1 DEF First, Foremost
        <5>2. x.at = "putting" /\ First(q)' = s
            BY <1>1, <2>1, <3>1, <3>5, <4>1 DEF First
        <5> QED
            BY <1>4, <2>1, <4>1, <5>1, <5>2 DEF Puts
      <4>2. CASE r # p
        <5>1. intake'[r] = intake[r] /\ First(r)' = First(r)
            BY <1>1, <4>2 DEF First
        <5> QED
            BY <2>2, <3>1, <3>5, <5>1 DEF Puts
      <4> QED
          BY <4>1, <4>2
    <3> QED
        BY <3>1, <3>4, <3>5 DEF Puts
  <2> QED
      BY <2>1, <2>5, <2>6, <2>7, <2>8
<1>5. IntakesKeep'
  <2>1. Wrote(p, intake[p])' /\ Follows(p, intake[p])' /\ Offers(p, intake[p])' /\ Puts(p, intake[p])'
      BY <1>1
  <2> QED
      BY <1>4, <2>1 DEF IntakesKeep
<1> QED
    BY <1>2, <1>3, <1>5

(* What stays as it is while the situations and candidates do. *)
LEMMA NothingGrows ==
    ASSUME IntakeTyped, UNCHANGED situation
    PROVE  /\ \A p : Grows(p)
           /\ \A p \in Percepts : Known(p)' = Known(p) /\ KeysOf(p)' = KeysOf(p)
           /\ \A p, s, n : IsLastOf(p, s, n)' = IsLastOf(p, s, n)
           /\ PerceptsAreAtHome => PerceptsAreAtHome'
           /\ NewestObservationStands => NewestObservationStands'
<1>1. \A s \in Situations : Snapshots(s)' = Snapshots(s) /\ Snapshots(s) \in Nat
    BY SnapshotFacts DEF Snapshots
<1>2. \A p : Grows(p)
  <2> SUFFICES ASSUME NEW s \in Situations
               PROVE  Snapshots(s) <= Snapshots(s) /\ Snapshots(s) + 1 .. Snapshots(s) = {}
      BY <1>1 DEF Grows
  <2> QED
      BY <1>1
<1> QED
    BY <1>2 DEF Known, KeysOf, IsLastOf, PerceptsAreAtHome, NewestObservationStands, Snapshots

LEMMA OnlyIntakeMoves ==
    ASSUME IntakeIInv, UNCHANGED <<situation, ingest, candidate, receipted>>,
           NEW p \in Percepts, NEW x \in Intake, intake' = [intake EXCEPT ![p] = x],
           Wrote(p, x), Follows(p, x), Offers(p, x), Puts(p, x)
    PROVE  IntakeIInv'
<1>1. IntakeTyped /\ IntakeParts
    BY DEF IntakeIInv
<1>2. IntakeTyped'
    BY <1>1 DEF IntakeTyped
<1>3. WithinSnapshots' /\ CandidatesAdvance'
    BY <1>1 DEF IntakeParts, WithinSnapshots, CandidatesAdvance, Snapshots
<1>4. /\ Grows(p) /\ PerceptsAreAtHome' /\ NewestObservationStands'
      /\ \A q \in Percepts : Known(q)' = Known(q) /\ KeysOf(q)' = KeysOf(q)
      /\ \A q, s, n : IsLastOf(q, s, n)' = IsLastOf(q, s, n)
    BY <1>1, NothingGrows DEF IntakeParts
<1>5. \A s, n : Offered(s, n)' = Offered(s, n)
    BY DEF Offered
<1>6. \A q, s : HasOffered(q, s)' = HasOffered(q, s)
    BY <1>5 DEF HasOffered, Latest, Snapshots, Offered
<1>7. Wrote(p, x)' /\ Follows(p, x)' /\ Offers(p, x)'
    BY <1>4, <1>6 DEF Wrote, Follows, Offers
<1>8. Puts(p, x)'
  <2>1. \A q \in Percepts \ {p} : intake'[q] = intake[q] /\ First(q)' = First(q)
      BY <1>1 DEF IntakeTyped, First
  <2> QED
      BY <2>1 DEF Puts
<1>9. \A s \in Situations : ingest'[s][p] # 0 => IsLastOf(p, s, ingest[s][p])'
  <2> SUFFICES ASSUME NEW s \in Situations, ingest[s][p] # 0 PROVE IsLastOf(p, s, ingest[s][p])'
      OBVIOUS
  <2>1. PICK n : n = ingest[s][p]
      OBVIOUS
  <2>2. IsLastOf(p, s, n)'
      BY <1>1, <1>4, <2>1 DEF IntakeParts, FoldsAreLast
  <2> QED
      BY <2>1, <2>2 DEF IsLastOf, Snapshots
<1>10. p \in receipted' => \A s \in Situations : HasOffered(p, s)'
    BY <1>1, <1>6 DEF IntakeParts, FinishedHaveOffered
<1> QED
    BY <1>2, <1>3, <1>4, <1>5, <1>7, <1>8, <1>9, <1>10, OneIntakeMoves

(* The intake of a percept, and its next state. *)
LEMMA AtWork ==
    ASSUME IntakeIInv, NEW p \in Percepts
    PROVE  /\ intake[p] \in Intake /\ intake[p].at \in IntakeStates
           /\ intake[p].todo \subseteq Situations /\ intake[p].got \in [Situations -> Nat]
           /\ Wrote(p, intake[p]) /\ Follows(p, intake[p]) /\ Offers(p, intake[p])
           /\ Puts(p, intake[p])
           /\ intake[p].todo # {} =>
                 First(p) = Foremost(intake[p].todo) /\ First(p) \in intake[p].todo
           /\ Known(p) => KeysOf(p) \subseteq Situations
           /\ IntakeTyped
<1>1. intake[p] \in Intake /\ IntakeTyped
    BY DEF IntakeIInv, IntakeTyped
<1>2. PICK todo \in SUBSET Situations : todo = intake[p].todo
    BY <1>1 DEF Intake
<1>3. todo # {} => First(p) = Foremost(todo) /\ Foremost(todo) \in todo
    BY <1>2, ForemostIsIn DEF First, Foremost
<1>4. /\ intake[p].at \in IntakeStates /\ intake[p].todo \subseteq Situations
      /\ intake[p].got \in [Situations -> Nat]
    BY <1>1 DEF Intake
<1>5. /\ Wrote(p, intake[p]) /\ Follows(p, intake[p]) /\ Offers(p, intake[p])
      /\ Puts(p, intake[p])
    BY DEF IntakeIInv, IntakeParts, IntakesKeep
<1>6. Known(p) => KeysOf(p) \subseteq Situations
    BY <1>1, KeysAreSituations
<1> QED
    BY <1>1, <1>2, <1>3, <1>4, <1>5, <1>6

LEMMA IdleIntakeIsIdle == IdleIntake \in Intake /\ IdleIntake.at = "idle"
BY DEF IdleIntake, Intake, IntakeStates

LEMMA IntakeEnds ==
    ASSUME IntakeIInv, UNCHANGED <<situation, ingest, candidate, receipted>>,
           NEW p \in Percepts, intake' = [intake EXCEPT ![p] = IdleIntake]
    PROVE  IntakeIInv'
<1>1. Wrote(p, IdleIntake) /\ Follows(p, IdleIntake) /\ Offers(p, IdleIntake)
      /\ Puts(p, IdleIntake)
    BY IdleIntakeIsIdle DEF Wrote, Follows, Offers, Puts
<1> QED
    BY <1>1, IdleIntakeIsIdle, OnlyIntakeMoves

LEMMA DeliverKeeps ==
    ASSUME IntakeIInv, NEW p \in Percepts, Known(p), Deliver(p)
    PROVE  IntakeIInv'
<1>1. PICK keys \in SUBSET Situations : keys = KeysOf(p)
    BY AtWork
<1>2. PICK x : x = [IdleIntake EXCEPT !.at = "folding", !.todo = keys]
    OBVIOUS
<1>3. intake' = [intake EXCEPT ![p] = x]
    BY <1>1, <1>2 DEF Deliver
<1>4. x \in Intake /\ x.at = "folding" /\ x.todo = keys
    BY <1>1, <1>2 DEF IdleIntake, Intake, IntakeStates
<1>5. Wrote(p, x) /\ Follows(p, x) /\ Offers(p, x) /\ Puts(p, x)
    BY <1>1, <1>4 DEF Wrote, Follows, Offers, Puts, Deliver
<1> QED
    BY <1>3, <1>4, <1>5, OnlyIntakeMoves DEF Deliver

LEMMA FoldedBeforeKeeps ==
    ASSUME IntakeIInv, NEW p \in Percepts, FoldedBefore(p)
    PROVE  IntakeIInv'
<1>1. PICK s \in intake[p].todo : s = First(p)
    BY AtWork DEF FoldedBefore
<1>2. PICK n \in Nat : n = ingest[s][p] /\ n # 0
  <2>1. s \in Situations /\ IntakeTyped
      BY <1>1, AtWork
  <2> QED
      BY <1>1, <2>1 DEF IntakeTyped, FoldedBefore
<1>3. PICK y \in Intake : y = intake[p] /\ y.at = "folding"
    BY AtWork DEF FoldedBefore
<1>4. PICK x : x = [y EXCEPT !.got[s] = n, !.todo = @ \ {s}]
    OBVIOUS
<1>5. /\ x \in Intake /\ x.at = "folding" /\ x.todo = y.todo \ {s}
      /\ x.got = [y.got EXCEPT ![s] = n] /\ y.got \in [Situations -> Nat] /\ s \in Situations
    BY <1>1, <1>2, <1>3, <1>4 DEF Intake
<1>6. intake' = [intake EXCEPT ![p] = x]
    BY <1>1, <1>2, <1>3, <1>4 DEF FoldedBefore
<1>7. Follows(p, y) /\ (Known(p) => KeysOf(p) \subseteq Situations)
    BY <1>3, AtWork
<1>8. Follows(p, x)
  <2>1. Known(p) /\ p \notin receipted /\ x.todo \subseteq KeysOf(p)
      BY <1>3, <1>5, <1>7 DEF Follows
  <2>2. ASSUME NEW o \in KeysOf(p), o \notin x.todo
        PROVE  x.got[o] = ingest[o][p] /\ ingest[o][p] # 0
    <3>1. o \in Situations
        BY <1>7, <2>1
    <3>2. CASE o = s
        BY <1>2, <1>5, <3>2
    <3>3. CASE o # s
        BY <1>3, <1>5, <1>7, <2>2, <3>1, <3>3 DEF Follows
    <3> QED
        BY <3>2, <3>3
  <2> QED
      BY <1>5, <2>1, <2>2 DEF Follows
<1>9. Wrote(p, x) /\ Offers(p, x) /\ Puts(p, x)
    BY <1>5 DEF Wrote, Offers, Puts
<1> QED
    BY <1>5, <1>6, <1>8, <1>9, OnlyIntakeMoves DEF FoldedBefore

LEMMA FoldedKeeps ==
    ASSUME IntakeIInv, NEW p \in Percepts, Folded(p)
    PROVE  IntakeIInv'
<1>1. PICK y \in Intake : y = intake[p] /\ y.at = "folding" /\ y.todo = {}
    BY AtWork DEF Folded
<1>2. /\ Known(p) /\ p \notin receipted
      /\ \A s \in KeysOf(p) : y.got[s] = ingest[s][p] /\ ingest[s][p] # 0
  <2>1. Follows(p, y)
      BY <1>1, AtWork
  <2> QED
      BY <1>1, <2>1 DEF Follows
<1>3. PICK keys \in SUBSET Situations : keys = KeysOf(p)
    BY <1>2, AtWork
<1>4. PICK x : x = [y EXCEPT !.at = "offering", !.todo = keys]
    OBVIOUS
<1>5. x \in Intake /\ x.at = "offering" /\ x.todo = keys /\ x.got = y.got
    BY <1>3, <1>4 DEF Intake, IntakeStates
<1>6. intake' = [intake EXCEPT ![p] = x]
    BY <1>1, <1>3, <1>4 DEF Folded
<1>7. Follows(p, x) /\ Wrote(p, x) /\ Offers(p, x) /\ Puts(p, x)
    BY <1>2, <1>3, <1>5 DEF Follows, Wrote, Offers, Puts
<1> QED
    BY <1>5, <1>6, <1>7, OnlyIntakeMoves DEF Folded

(* An intake that has folded knows the last snapshot of its percept.         *)
LEMMA GotIsLast ==
    ASSUME IntakeIInv, NEW p \in Percepts, intake[p].at \in {"offering", "putting"},
           NEW s \in KeysOf(p)
    PROVE  /\ s \in Situations /\ intake[p].got[s] = ingest[s][p]
           /\ IsLastOf(p, s, intake[p].got[s])
<1>1. Follows(p, intake[p]) /\ (Known(p) => KeysOf(p) \subseteq Situations)
    BY AtWork
<1>2. s \in Situations /\ intake[p].got[s] = ingest[s][p] /\ ingest[s][p] # 0
    BY <1>1 DEF Follows
<1> QED
    BY <1>2 DEF IntakeIInv, IntakeParts, FoldsAreLast

LEMMA LastIsOffered ==
    ASSUME IntakeTyped, NEW p \in Percepts, NEW s \in Situations, NEW n, IsLastOf(p, s, n),
           n # Snapshots(s) \/ Offered(s, n) # {}
    PROVE  HasOffered(p, s)
<1>1. Snapshots(s) \in Nat /\ n \in 1 .. Snapshots(s)
    BY SnapshotFacts DEF IsLastOf
<1>2. CASE n # Snapshots(s)
  <2>1. Snapshots(s) \in n + 1 .. Snapshots(s)
      BY <1>1, <1>2
  <2>2. Latest(s).percept # p
      BY <2>1 DEF IsLastOf, Latest
  <2> QED
      BY <2>2 DEF HasOffered
<1>3. CASE n = Snapshots(s)
    BY <1>3 DEF HasOffered
<1> QED
    BY <1>2, <1>3

LEMMA DoneIs ==
    ASSUME IntakeTyped, NEW p \in Percepts, NEW s, intake' = Done(p, s),
           intake[p].at \in {"written", "offering", "putting"}
    PROVE  \E x \in Intake :
               /\ intake' = [intake EXCEPT ![p] = x]
               /\ x.at = IF intake[p].at = "written" THEN "folding" ELSE "offering"
               /\ x.todo = intake[p].todo \ {s} /\ x.got = intake[p].got
<1>1. PICK y \in Intake : y = intake[p]
    BY DEF IntakeTyped
<1>2. PICK x : x = [y EXCEPT !.at = IF @ = "written" THEN "folding" ELSE "offering",
                             !.todo = @ \ {s}]
    OBVIOUS
<1>3. PICK at \in IntakeStates :
          at = IF y.at = "written" THEN "folding" ELSE "offering"
    BY DEF IntakeStates
<1>4. x = [y EXCEPT !.at = at, !.todo = @ \ {s}]
    BY <1>2, <1>3 DEF Intake
<1>5. x \in Intake /\ x.at = at /\ x.todo = y.todo \ {s} /\ x.got = y.got
    BY <1>4 DEF Intake
<1>6. intake' = [intake EXCEPT ![p] = x]
    BY <1>1, <1>2 DEF Done
<1> QED
    BY <1>1, <1>3, <1>5, <1>6

LEMMA CheckCurrentKeeps ==
    ASSUME IntakeIInv, NEW p \in Percepts, CheckCurrent(p)
    PROVE  IntakeIInv'
<1>1. PICK y \in Intake : y = intake[p] /\ y.at = "offering" /\ y.todo # {}
    BY AtWork DEF CheckCurrent
<1>2. PICK s \in y.todo : s = First(p) /\ s = Foremost(y.todo)
    BY <1>1, AtWork
<1>3. Follows(p, y) /\ Offers(p, y)
    BY <1>1, AtWork
<1>4. s \in KeysOf(p)
    BY <1>1, <1>2, <1>3 DEF Follows
<1>5. s \in Situations /\ y.got[s] = ingest[s][p] /\ IsLastOf(p, s, y.got[s])
    BY <1>1, <1>4, GotIsLast
<1>6. CASE Snapshots(s) = y.got[s]
  <2>1. PICK x : x = [y EXCEPT !.at = "putting"]
      OBVIOUS
  <2>2. x \in Intake /\ x.at = "putting" /\ x.todo = y.todo /\ x.got = y.got
      BY <2>1 DEF Intake, IntakeStates
  <2>3. intake' = [intake EXCEPT ![p] = x]
      BY <1>1, <1>2, <1>6, <2>1 DEF CheckCurrent
  <2>4. Follows(p, x)
      BY <1>1, <1>3, <2>2 DEF Follows
  <2>5. Offers(p, x) /\ Wrote(p, x)
      BY <1>1, <1>3, <2>2 DEF Offers, Wrote
  <2>6. Puts(p, x)
    <3>1. \A q \in Percepts \ {p} : intake[q].at = "putting" => First(q) # s
        BY <1>2 DEF CheckCurrent, CandidateLocked
    <3>2. \A i \in DOMAIN candidate[s] : candidate[s][i].snapshot <= Snapshots(s)
        BY <1>5 DEF IntakeIInv, IntakeParts, WithinSnapshots
    <3> QED
        BY <1>2, <1>6, <2>2, <3>1, <3>2 DEF Puts
  <2> QED
      BY <2>2, <2>3, <2>4, <2>5, <2>6, OnlyIntakeMoves DEF CheckCurrent
<1>7. CASE Snapshots(s) # y.got[s]
  <2>1. intake' = Done(p, s) /\ IntakeTyped
      BY <1>1, <1>2, <1>7 DEF CheckCurrent, IntakeIInv
  <2>2. PICK x \in Intake : /\ intake' = [intake EXCEPT ![p] = x] /\ x.at = "offering"
                            /\ x.todo = y.todo \ {s} /\ x.got = y.got
      BY <1>1, <2>1, DoneIs
  <2>3. Follows(p, x)
      BY <1>1, <1>3, <2>2 DEF Follows
  <2>4. HasOffered(p, s)
      BY <1>5, <1>7, <2>1, LastIsOffered
  <2>5. Offers(p, x) /\ Wrote(p, x) /\ Puts(p, x)
      BY <1>1, <1>3, <2>2, <2>4 DEF Offers, Wrote, Puts
  <2> QED
      BY <2>2, <2>3, <2>5, OnlyIntakeMoves DEF CheckCurrent
<1> QED
    BY <1>6, <1>7

LEMMA PutCandidateKeeps ==
    ASSUME IntakeIInv, NEW p \in Percepts, PutCandidate(p)
    PROVE  IntakeIInv'
<1> USE DEF IntakeIInv, IntakeParts
<1>1. PICK y \in Intake : y = intake[p] /\ y.at = "putting"
    BY AtWork DEF PutCandidate
<1>2. Follows(p, y) /\ Offers(p, y) /\ Puts(p, y) /\ y.todo # {}
    BY <1>1, AtWork DEF Follows
<1>3. PICK s \in y.todo : s = First(p) /\ s = Foremost(y.todo)
    BY <1>1, <1>2, AtWork
<1>4. s \in KeysOf(p)
    BY <1>1, <1>2 DEF Follows
<1>5. PICK n : n = y.got[s]
    OBVIOUS
<1>6. s \in Situations /\ IsLastOf(p, s, n)
    BY <1>1, <1>4, <1>5, GotIsLast
<1>7. PICK entry : entry = [snapshot |-> n, percept |-> p]
    OBVIOUS
<1>8. Snapshots(s) \in Nat /\ n \in 1 .. Snapshots(s) /\ n \in Nat
    BY <1>6, SnapshotFacts DEF IsLastOf
<1>9. entry \in Entry /\ entry.snapshot = n /\ entry.percept = p
    BY <1>7, <1>8 DEF Entry
<1>10. UNCHANGED <<situation, ingest, receipted>>
    BY DEF PutCandidate
<1>11. CASE \E i \in Offered(s, n) : candidate[s][i] # entry
  <2>1. intake' = [intake EXCEPT ![p] = IdleIntake] /\ UNCHANGED candidate
      BY <1>1, <1>3, <1>5, <1>7, <1>11 DEF PutCandidate
  <2> QED
      BY <1>10, <2>1, IntakeEnds
<1>12. CASE ~\E i \in Offered(s, n) : candidate[s][i] # entry
  <2>1. /\ intake' = Done(p, s)
        /\ candidate' = IF Offered(s, n) # {} THEN candidate
                        ELSE [candidate EXCEPT ![s] = Append(@, entry)]
      BY <1>1, <1>3, <1>5, <1>7, <1>12 DEF PutCandidate
  <2>2. PICK x \in Intake : /\ intake' = [intake EXCEPT ![p] = x] /\ x.at = "offering"
                            /\ x.todo = y.todo \ {s} /\ x.got = y.got
      BY <1>1, <2>1, DoneIs
  <2>3. Follows(p, x) /\ Wrote(p, x) /\ Puts(p, x)
      BY <1>1, <1>2, <2>2 DEF Follows, Wrote, Puts
  <2>4. CASE Offered(s, n) # {}
    <3>1. HasOffered(p, s) /\ UNCHANGED candidate
        BY <1>6, <2>1, <2>4, LastIsOffered
    <3>2. Offers(p, x)
        BY <1>1, <1>2, <2>2, <3>1 DEF Offers
    <3> QED
        BY <1>10, <2>2, <2>3, <3>1, <3>2, OnlyIntakeMoves
  <2>5. CASE Offered(s, n) = {}
    <3>1. PICK u \in Seq(Entry) : u = candidate[s]
        BY <1>6 DEF IntakeTyped
    <3>2. candidate' = [candidate EXCEPT ![s] = Append(u, entry)]
        BY <2>1, <2>5, <3>1
    <3>3. /\ Append(u, entry) \in Seq(Entry) /\ Len(u) \in Nat
          /\ DOMAIN Append(u, entry) = 1 .. Len(u) + 1 /\ DOMAIN u = 1 .. Len(u)
          /\ Append(u, entry)[Len(u) + 1] = entry
          /\ \A i \in 1 .. Len(u) : Append(u, entry)[i] = u[i] /\ u[i] \in Entry
        BY <1>9
    <3>4. IntakeTyped'
        BY <1>10, <2>2, <3>2, <3>3 DEF IntakeTyped
    <3>5. /\ candidate'[s] = Append(u, entry)
          /\ \A o \in Situations \ {s} : candidate'[o] = candidate[o]
        BY <1>6, <3>2 DEF IntakeTyped
    <3>6. \A o \in Situations : Snapshots(o)' = Snapshots(o)
        BY <1>10 DEF Snapshots
    <3>7. WithinSnapshots'
      <4> SUFFICES ASSUME NEW o \in Situations
                   PROVE  \A i \in DOMAIN candidate'[o] : candidate'[o][i].snapshot \in 1 .. Snapshots(o)
          BY <1>10, <3>6 DEF WithinSnapshots
      <4>1. CASE o # s
          BY <3>5, <4>1 DEF WithinSnapshots
      <4>2. CASE o = s
        <5>1. \A i \in 1 .. Len(u) : u[i].snapshot \in 1 .. Snapshots(s)
            BY <3>1, <3>3, <4>2 DEF WithinSnapshots
        <5>2. ASSUME NEW i \in 1 .. Len(u) + 1
              PROVE  Append(u, entry)[i].snapshot \in 1 .. Snapshots(s)
          <6>1. i = Len(u) + 1 \/ i \in 1 .. Len(u)
              BY <3>3
          <6> QED
              BY <1>8, <1>9, <3>3, <5>1, <6>1
        <5> QED
            BY <3>3, <3>5, <4>2, <5>2
      <4> QED
          BY <4>1, <4>2
    <3>8. CandidatesAdvance'
      <4> SUFFICES ASSUME NEW o \in Situations, NEW i \in DOMAIN candidate'[o],
                          NEW j \in DOMAIN candidate'[o], i < j
                   PROVE  candidate'[o][i].snapshot < candidate'[o][j].snapshot
          BY DEF CandidatesAdvance
      <4>1. CASE o # s
          BY <3>5, <4>1 DEF CandidatesAdvance
      <4>2. CASE o = s
        <5>1. i \in 1 .. Len(u) + 1 /\ j \in 1 .. Len(u) + 1
            BY <3>3, <3>5, <4>2
        <5>2. i \in 1 .. Len(u)
            BY <3>3, <5>1
        <5>3. CASE j \in 1 .. Len(u)
            BY <3>1, <3>3, <3>5, <4>2, <5>2, <5>3 DEF CandidatesAdvance
        <5>4. CASE j = Len(u) + 1
          <6>1. u[i].snapshot <= n /\ u[i].snapshot # n /\ u[i].snapshot \in Nat
              BY <1>1, <1>2, <1>3, <1>5, <2>5, <3>1, <3>3, <5>2 DEF Puts, Offered, Entry
          <6>2. candidate'[o][i] = u[i] /\ candidate'[o][j] = entry
              BY <3>3, <3>5, <4>2, <5>2, <5>4
          <6> QED
              BY <1>8, <1>9, <6>1, <6>2
        <5> QED
            BY <3>3, <5>1, <5>3, <5>4
      <4> QED
          BY <4>1, <4>2
    <3>9. \A o \in Situations : \A m : Offered(o, m) # {} => Offered(o, m)' # {}
      <4> SUFFICES ASSUME NEW o \in Situations, NEW m, NEW i \in Offered(o, m)
                   PROVE  i \in Offered(o, m)'
          OBVIOUS
      <4>1. CASE o # s
          BY <3>5, <4>1 DEF Offered
      <4>2. CASE o = s
        <5>1. i \in 1 .. Len(u) /\ i \in 1 .. Len(u) + 1 /\ u[i].snapshot = m
            BY <3>1, <3>3, <4>2 DEF Offered
        <5>2. candidate'[o][i] = u[i] /\ i \in DOMAIN candidate'[o]
            BY <3>3, <3>5, <4>2, <5>1
        <5> QED
            BY <5>1, <5>2 DEF Offered
      <4> QED
          BY <4>1, <4>2
    <3>10. /\ Grows(p) /\ PerceptsAreAtHome' /\ NewestObservationStands'
           /\ \A q \in Percepts : Known(q)' = Known(q) /\ KeysOf(q)' = KeysOf(q)
           /\ \A q, o, m : IsLastOf(q, o, m)' = IsLastOf(q, o, m)
        BY <1>10, NothingGrows
    <3>11. Wrote(p, x)' /\ Follows(p, x)' /\ Puts(p, x)'
        BY <1>10, <2>2, <2>3, <3>10 DEF Wrote, Follows, Puts
    <3>12. HasOffered(p, s)'
      <4>1. Offered(s, n)' # {}
        <5>1. Len(u) + 1 \in DOMAIN candidate'[s] /\ candidate'[s][Len(u) + 1] = entry
            BY <3>3, <3>5
        <5> QED
            BY <1>9, <5>1 DEF Offered
      <4>2. CASE n = Snapshots(s)
          BY <3>6, <1>6, <4>1, <4>2 DEF HasOffered, Offered
      <4>3. CASE n # Snapshots(s)
        <5>1. Snapshots(s) \in n + 1 .. Snapshots(s)
            BY <1>8, <4>3
        <5>2. Latest(s).percept # p
            BY <1>6, <5>1 DEF IsLastOf, Latest
        <5> QED
            BY <1>10, <5>2 DEF HasOffered, Latest, Snapshots
      <4> QED
          BY <4>2, <4>3
    <3>13. Offers(p, x)'
      <4> SUFFICES ASSUME NEW o \in KeysOf(p), o \notin x.todo PROVE HasOffered(p, o)'
          BY <3>10 DEF Offers
      <4>1. o \in Situations
          BY <1>1, <1>2, AtWork DEF Follows
      <4>2. CASE o = s
          BY <3>12, <4>2 DEF HasOffered
      <4>3. CASE o # s
        <5>1. HasOffered(p, o)
            BY <1>1, <1>2, <2>2, <4>3 DEF Offers
        <5> QED
            BY <1>10, <3>5, <4>1, <4>3, <5>1 DEF HasOffered, Latest, Snapshots, Offered
      <4> QED
          BY <4>2, <4>3
    <3>14. /\ \A o \in Situations : \A q \in Percepts \ {p} : ingest'[o][q] = ingest[o][q]
           /\ receipted' \in {receipted, receipted \cup {p}} /\ p \notin receipted'
           /\ \A o \in Situations :
                 candidate'[o] = candidate[o] \/ (intake[p].at = "putting" /\ o = First(p))
        BY <1>1, <1>2, <1>3, <1>10, <3>5 DEF Follows
    <3>15. \A o \in Situations : ingest'[o][p] # 0 => IsLastOf(p, o, ingest[o][p])'
      <4> SUFFICES ASSUME NEW o \in Situations, ingest[o][p] # 0
                   PROVE  IsLastOf(p, o, ingest[o][p])'
          BY <1>10
      <4>1. PICK m : m = ingest[o][p]
          OBVIOUS
      <4>2. IsLastOf(p, o, m)'
          BY <3>10, <4>1 DEF FoldsAreLast
      <4> QED
          BY <1>10, <4>1, <4>2 DEF IsLastOf, Snapshots
    <3> QED
        BY <2>2, <3>4, <3>7, <3>8, <3>9, <3>10, <3>11, <3>13, <3>14, <3>15, OneIntakeMoves
  <2> QED
      BY <2>4, <2>5
<1> QED
    BY <1>11, <1>12

LEMMA FinishIntakeKeeps ==
    ASSUME IntakeIInv, NEW p \in Percepts, FinishIntake(p)
    PROVE  IntakeIInv'
<1> USE DEF IntakeIInv, IntakeParts
<1>1. /\ UNCHANGED <<situation, ingest, candidate>> /\ receipted' = receipted \cup {p}
      /\ intake' = [intake EXCEPT ![p] = IdleIntake]
    BY DEF FinishIntake
<1>2. IntakeTyped' /\ IdleIntake \in Intake
    BY <1>1, IdleIntakeIsIdle DEF IntakeTyped
<1>3. /\ Grows(p) /\ PerceptsAreAtHome' /\ NewestObservationStands'
      /\ \A q, o, m : IsLastOf(q, o, m)' = IsLastOf(q, o, m)
    BY <1>1, NothingGrows
<1>4. WithinSnapshots' /\ CandidatesAdvance'
    BY <1>1 DEF WithinSnapshots, CandidatesAdvance, Snapshots
<1>5. \A s \in Situations : HasOffered(p, s)'
  <2> SUFFICES ASSUME NEW s \in Situations PROVE HasOffered(p, s)
      BY <1>1 DEF HasOffered, Latest, Snapshots, Offered
  <2>1. CASE s \in KeysOf(p)
    <3>1. Offers(p, intake[p]) /\ intake[p].at = "offering" /\ intake[p].todo = {}
        BY AtWork DEF FinishIntake
    <3> QED
        BY <2>1, <3>1 DEF Offers
  <2>2. CASE s \notin KeysOf(p)
    <3>1. Snapshots(s) \in Nat /\ (situation[s] # <<>> => Snapshots(s) \in 1 .. Snapshots(s))
        BY SnapshotFacts
    <3> QED
        BY <2>2, <3>1 DEF HasOffered, PerceptsAreAtHome, Latest
  <2> QED
      BY <2>1, <2>2
<1>6. Wrote(p, IdleIntake)' /\ Follows(p, IdleIntake)' /\ Offers(p, IdleIntake)'
      /\ Puts(p, IdleIntake)'
  <2>1. IdleIntake' = IdleIntake
      BY DEF IdleIntake
  <2> QED
      BY <2>1, IdleIntakeIsIdle DEF Wrote, Follows, Offers, Puts
<1>7. \A s \in Situations : ingest'[s][p] # 0 => IsLastOf(p, s, ingest[s][p])'
    BY <1>1 DEF FoldsAreLast, IsLastOf, Snapshots
<1>8. \A s \in Situations : \A n : Offered(s, n)' = Offered(s, n)
    BY <1>1 DEF Offered
<1> QED
    BY <1>1, <1>2, <1>3, <1>4, <1>5, <1>6, <1>7, <1>8, OneIntakeMoves

LEMMA FoldReceiptKeeps ==
    ASSUME IntakeIInv, NEW p \in Percepts, FoldReceipt(p)
    PROVE  IntakeIInv'
<1> USE DEF IntakeIInv, IntakeParts
<1>1. PICK y \in Intake : y = intake[p] /\ y.at = "written"
    BY AtWork DEF FoldReceipt
<1>2. Follows(p, y) /\ Wrote(p, y) /\ y.todo # {}
    BY <1>1, AtWork DEF Follows
<1>3. PICK s \in y.todo : s = First(p) /\ s = Foremost(y.todo)
    BY <1>1, <1>2, AtWork
<1>4. PICK n : n = y.got[s]
    OBVIOUS
<1>5. s \in KeysOf(p) /\ IsLastOf(p, s, n) /\ KeysOf(p) \subseteq Situations
    BY <1>1, <1>2, <1>3, <1>4, AtWork DEF Follows, Wrote
<1>6. Snapshots(s) \in Nat /\ n \in 1 .. Snapshots(s) /\ n \in Nat /\ n # 0
    BY <1>5, SnapshotFacts DEF IsLastOf
<1>7. /\ UNCHANGED <<situation, candidate, receipted>> /\ intake' = Done(p, s)
      /\ ingest' = [ingest EXCEPT ![s][p] = n]
    BY <1>1, <1>3, <1>4 DEF FoldReceipt
<1>8. PICK x \in Intake : /\ intake' = [intake EXCEPT ![p] = x] /\ x.at = "folding"
                          /\ x.todo = y.todo \ {s} /\ x.got = y.got
    BY <1>1, <1>7, DoneIs
<1>9. IntakeTyped'
    BY <1>5, <1>6, <1>7, <1>8 DEF IntakeTyped
<1>10. /\ ingest'[s][p] = n
       /\ \A o \in Situations : \A q \in Percepts : o # s \/ q # p => ingest'[o][q] = ingest[o][q]
    BY <1>5, <1>7 DEF IntakeTyped
<1>11. \A o \in Situations : Snapshots(o)' = Snapshots(o)
    BY <1>7 DEF Snapshots
<1>12. WithinSnapshots'
  <2> SUFFICES ASSUME NEW o \in Situations, NEW q \in Percepts PROVE ingest'[o][q] <= Snapshots(o)
      BY <1>7, <1>11 DEF WithinSnapshots
  <2>1. CASE o = s /\ q = p
      BY <1>6, <1>10, <2>1
  <2>2. CASE o # s \/ q # p
      BY <1>10, <2>2 DEF WithinSnapshots
  <2> QED
      BY <2>1, <2>2
<1>13. CandidatesAdvance'
    BY <1>7 DEF CandidatesAdvance
<1>14. /\ Grows(p) /\ PerceptsAreAtHome' /\ NewestObservationStands'
       /\ \A q \in Percepts : Known(q)' = Known(q) /\ KeysOf(q)' = KeysOf(q)
       /\ \A q, o, m : IsLastOf(q, o, m)' = IsLastOf(q, o, m)
    BY <1>7, NothingGrows
<1>15. \A o \in Situations : ingest'[o][p] # 0 => IsLastOf(p, o, ingest[o][p])'
  <2> SUFFICES ASSUME NEW o \in Situations, ingest'[o][p] # 0
               PROVE  IsLastOf(p, o, ingest[o][p])'
      OBVIOUS
  <2>1. PICK m : m = ingest'[o][p]
      OBVIOUS
  <2>2. IsLastOf(p, o, m)
      BY <1>5, <1>10, <2>1 DEF FoldsAreLast
  <2>3. IsLastOf(p, o, m)'
      BY <1>14, <2>2
  <2> QED
      BY <2>1, <2>3 DEF IsLastOf, Snapshots
<1>16. Follows(p, x)'
  <2>1. Known(p) /\ p \notin receipted /\ x.todo \subseteq KeysOf(p)
      BY <1>1, <1>2, <1>8 DEF Follows
  <2>2. ASSUME NEW o \in KeysOf(p), o \notin x.todo
        PROVE  x.got[o] = ingest'[o][p] /\ ingest'[o][p] # 0
    <3>1. CASE o = s
        BY <1>4, <1>6, <1>8, <1>10, <3>1
    <3>2. CASE o # s
        BY <1>1, <1>2, <1>5, <1>8, <1>10, <2>2, <3>2 DEF Follows
    <3> QED
        BY <3>1, <3>2
  <2> QED
      BY <1>7, <1>8, <1>14, <2>1, <2>2 DEF Follows
<1>17. Wrote(p, x)' /\ Offers(p, x)' /\ Puts(p, x)'
    BY <1>8 DEF Wrote, Offers, Puts
<1>18. /\ \A o \in Situations : \A q \in Percepts \ {p} : ingest'[o][q] = ingest[o][q]
       /\ receipted' \in {receipted, receipted \cup {p}} /\ p \notin receipted'
       /\ \A o \in Situations : candidate'[o] = candidate[o]
       /\ \A o \in Situations : \A m : Offered(o, m)' = Offered(o, m)
    BY <1>1, <1>2, <1>7, <1>10 DEF Follows, Offered
<1> QED
    BY <1>8, <1>9, <1>12, <1>13, <1>14, <1>15, <1>16, <1>17, <1>18, OneIntakeMoves

(* What form_situation makes of the latest snapshot and a percept. *)
LEMMA FormSituationIs ==
    ASSUME IntakeIInv, NEW p \in Percepts, Known(p), NEW s \in Situations
    PROVE  /\ FormSituation(s, p) \in Snapshot /\ FormSituation(s, p).percept = p
           /\ p \in Deliveries =>
                 /\ FormSituation(s, p).state # NoPercept
                 /\ ObservedAt[FormSituation(s, p).state] >= ObservedAt[p]
           /\ situation[s] # <<>> /\ Latest(s).state # NoPercept =>
                 /\ FormSituation(s, p).state # NoPercept
                 /\ ObservedAt[FormSituation(s, p).state] >= ObservedAt[Latest(s).state]
<1>1. KeysOf(p) \subseteq Situations /\ IntakeTyped
    BY AtWork
<1>2. /\ \A d \in Deliveries : d # NoPercept /\ ObservedAt[d] \in Nat
      /\ Deliveries \subseteq Percepts
    BY IntakeAssumption DEF Percepts, Outcomes, Tasks
<1>3. CASE situation[s] = <<>>
  <2>1. FormSituation(s, p) = [percept |-> p, ids |-> <<p>>, refs |-> KeysOf(p),
                               state |-> IF p \in Deliveries THEN p ELSE NoPercept]
      BY <1>3 DEF FormSituation
  <2>2. <<p>> \in Seq(Percepts)
      OBVIOUS
  <2> QED
      BY <1>1, <1>2, <1>3, <2>1, <2>2 DEF Snapshot
<1>4. CASE situation[s] # <<>>
  <2>1. Snapshots(s) \in 1 .. Snapshots(s)
      BY <1>1, <1>4, SnapshotFacts
  <2>2. PICK old \in Snapshot : old = Latest(s)
      BY <1>1, <2>1, SnapshotFacts DEF Latest
  <2>3. FormSituation(s, p) = [percept |-> p, ids |-> Recent(old.ids, p),
                               refs |-> old.refs \cup KeysOf(p),
                               state |-> IF Newer(p, old.state) THEN p ELSE old.state]
      BY <1>4, <2>2 DEF FormSituation
  <2>4. old.ids \in Seq(Percepts) /\ old.refs \subseteq Situations
        /\ old.state \in Deliveries \cup {NoPercept}
      BY DEF Snapshot
  <2>5. Recent(old.ids, p) \in Seq(Percepts)
      BY <2>4 DEF Recent
  <2>6. PICK state \in Deliveries \cup {NoPercept} :
            state = IF Newer(p, old.state) THEN p ELSE old.state
      BY <2>4 DEF Newer
  <2>7. FormSituation(s, p) = [percept |-> p, ids |-> Recent(old.ids, p),
                               refs |-> old.refs \cup KeysOf(p), state |-> state]
      BY <2>3, <2>6
  <2>8. FormSituation(s, p) \in Snapshot /\ FormSituation(s, p).percept = p
        /\ FormSituation(s, p).state = state
      BY <1>1, <2>4, <2>5, <2>7 DEF Snapshot
  <2>9. p \in Deliveries => state # NoPercept /\ ObservedAt[state] >= ObservedAt[p]
      BY <1>2, <2>4, <2>6 DEF Newer
  <2>10. old.state # NoPercept => state # NoPercept /\ ObservedAt[state] >= ObservedAt[old.state]
      BY <1>2, <2>4, <2>6 DEF Newer
  <2> QED
      BY <2>2, <2>8, <2>9, <2>10
<1> QED
    BY <1>3, <1>4

LEMMA FoldAgainKeeps ==
    ASSUME IntakeIInv, NEW p \in Percepts, NEW s \in Situations,
           intake[p].at = "folding", intake[p].todo # {}, s = First(p),
           situation[s] # <<>>,
           UNCHANGED <<situation, ingest, candidate, receipted>>,
           intake' = [intake EXCEPT ![p].at = "written", ![p].got[s] = Snapshots(s)]
    PROVE  IntakeIInv'
<1>1. PICK y \in Intake : y = intake[p]
    BY AtWork
<1>2. Follows(p, y) /\ s = Foremost(y.todo) /\ s \in y.todo /\ IntakeTyped
      /\ (Known(p) => KeysOf(p) \subseteq Situations)
    BY <1>1, AtWork
<1>3. PICK n \in Nat : n = Snapshots(s) /\ n > 0
    BY <1>2, SnapshotFacts
<1>4. PICK x : x = [y EXCEPT !.at = "written", !.got[s] = n]
    OBVIOUS
<1>5. /\ x \in Intake /\ x.at = "written" /\ x.todo = y.todo
      /\ x.got = [y.got EXCEPT ![s] = n] /\ y.got \in [Situations -> Nat]
    BY <1>3, <1>4 DEF Intake, IntakeStates
<1>6. intake' = [intake EXCEPT ![p] = x]
    BY <1>1, <1>3, <1>4
<1>7. Wrote(p, x)
  <2>1. n \in 1 .. Snapshots(s) /\ n + 1 .. Snapshots(s) = {}
      BY <1>3
  <2> QED
      BY <1>2, <1>5, <2>1 DEF Wrote, IsLastOf
<1>8. Follows(p, x)
    BY <1>1, <1>2, <1>5 DEF Follows
<1>9. Offers(p, x) /\ Puts(p, x)
    BY <1>5 DEF Offers, Puts
<1> QED
    BY <1>5, <1>6, <1>7, <1>8, <1>9, OnlyIntakeMoves

(* The snapshots of a situation after one more. *)
LEMMA OneSnapshotMore ==
    ASSUME IntakeTyped, NEW s \in Situations, NEW f \in Snapshot,
           situation' = [situation EXCEPT ![s] = Append(@, f)]
    PROVE  /\ situation' \in [Situations -> Seq(Snapshot)]
           /\ Snapshots(s)' = Snapshots(s) + 1 /\ situation'[s][Snapshots(s) + 1] = f
           /\ \A n \in 1 .. Snapshots(s) : situation'[s][n] = situation[s][n]
           /\ \A o \in Situations \ {s} : situation'[o] = situation[o] /\ Snapshots(o)' = Snapshots(o)
<1>1. PICK u \in Seq(Snapshot) : u = situation[s]
    BY DEF IntakeTyped
<1>2. situation' = [situation EXCEPT ![s] = Append(u, f)]
    BY <1>1
<1>3. Append(u, f) \in Seq(Snapshot) /\ Len(Append(u, f)) = Len(u) + 1
      /\ Append(u, f)[Len(u) + 1] = f /\ \A n \in 1 .. Len(u) : Append(u, f)[n] = u[n]
    BY Appending
<1>4. situation'[s] = Append(u, f) /\ \A o \in Situations \ {s} : situation'[o] = situation[o]
    BY <1>2 DEF IntakeTyped
<1> QED
    BY <1>1, <1>2, <1>3, <1>4 DEF Snapshots, IntakeTyped

LEMMA FoldNewKeeps ==
    ASSUME IntakeIInv, NEW p \in Percepts, NEW s \in Situations,
           intake[p].at = "folding", intake[p].todo # {}, s = First(p),
           ingest[s][p] = 0, Snapshots(s) < MaxSnapshots,
           UNCHANGED <<ingest, candidate, receipted>>,
           situation' = [situation EXCEPT ![s] = Append(@, FormSituation(s, p))],
           intake' = [intake EXCEPT ![p].at = "written", ![p].got[s] = Snapshots(s) + 1]
    PROVE  IntakeIInv'
<1>0. /\ WithinSnapshots /\ PerceptsAreAtHome /\ FoldsAreLast /\ CandidatesAdvance
      /\ NewestObservationStands
    BY DEF IntakeIInv, IntakeParts
<1>1. PICK y \in Intake : y = intake[p]
    BY AtWork
<1>2. /\ Follows(p, y) /\ s = Foremost(y.todo) /\ s \in y.todo /\ IntakeTyped
      /\ Known(p) /\ KeysOf(p) \subseteq Situations /\ s \in KeysOf(p) /\ p \notin receipted
  <2>1. Follows(p, y) /\ s = Foremost(y.todo) /\ s \in y.todo /\ IntakeTyped
        /\ (Known(p) => KeysOf(p) \subseteq Situations)
      BY <1>1, AtWork
  <2> QED
      BY <1>1, <2>1 DEF Follows
<1>3. PICK n \in Nat : n = Snapshots(s)
    BY <1>2, SnapshotFacts
<1>4. PICK f : f = FormSituation(s, p)
    OBVIOUS
<1>5. f \in Snapshot /\ f.percept = p
    BY <1>2, <1>4, FormSituationIs
<1>6. PICK k \in Nat : k = n + 1
    BY <1>3
<1>7. PICK x : x = [y EXCEPT !.at = "written", !.got[s] = k]
    OBVIOUS
<1>8. /\ x \in Intake /\ x.at = "written" /\ x.todo = y.todo
      /\ x.got = [y.got EXCEPT ![s] = k] /\ y.got \in [Situations -> Nat]
      /\ intake' = [intake EXCEPT ![p] = x]
  <2>1. x \in Intake /\ x.at = "written" /\ x.todo = y.todo
        /\ x.got = [y.got EXCEPT ![s] = k] /\ y.got \in [Situations -> Nat]
      BY <1>6, <1>7 DEF Intake, IntakeStates
  <2>2. intake' = [intake EXCEPT ![p] = x]
      BY <1>1, <1>3, <1>6, <1>7
  <2> QED
      BY <2>1, <2>2
<1>9. /\ situation' \in [Situations -> Seq(Snapshot)]
      /\ Snapshots(s)' = n + 1 /\ situation'[s][n + 1] = f
      /\ \A m \in 1 .. n : situation'[s][m] = situation[s][m]
      /\ \A o \in Situations \ {s} : situation'[o] = situation[o] /\ Snapshots(o)' = Snapshots(o)
    BY <1>2, <1>3, <1>4, <1>5, OneSnapshotMore
<1>10. IntakeTyped'
  <2>1. intake' \in [Percepts -> Intake]
      BY <1>2, <1>8 DEF IntakeTyped
  <2> QED
      BY <1>2, <1>9, <2>1 DEF IntakeTyped
<1>11. \A o \in Situations : Snapshots(o) \in Nat
    BY <1>2, SnapshotFacts
<1>12. Grows(p)
  <2> SUFFICES ASSUME NEW o \in Situations
               PROVE  /\ Snapshots(o) <= Snapshots(o)'
                      /\ \A m \in 1 .. Snapshots(o) : situation'[o][m] = situation[o][m]
                      /\ \A m \in Snapshots(o) + 1 .. Snapshots(o)' : situation'[o][m].percept = p
      BY DEF Grows
  <2>1. CASE o = s
    <3>1. \A m \in n + 1 .. n + 1 : m = n + 1
        BY <1>3
    <3>2. Snapshots(o) = n /\ Snapshots(o)' = n + 1 /\ situation'[o][n + 1].percept = p
        BY <1>3, <1>5, <1>9, <2>1
    <3>3. \A m \in 1 .. n : situation'[o][m] = situation[o][m]
        BY <1>9, <2>1
    <3>4. \A m \in Snapshots(o) + 1 .. Snapshots(o)' : m = n + 1
        BY <3>1, <3>2
    <3>5. n <= n + 1
        BY <1>3
    <3> QED
        BY <3>2, <3>3, <3>4, <3>5
  <2>2. CASE o # s
    <3>1. Snapshots(o) + 1 .. Snapshots(o) = {}
        BY <1>11
    <3> QED
        BY <1>9, <1>11, <2>2, <3>1
  <2> QED
      BY <2>1, <2>2
<1>13. \A o \in Situations : Snapshots(o)' \in Nat /\ Snapshots(o) <= Snapshots(o)'
    BY <1>3, <1>9, <1>11
<1>14. WithinSnapshots'
  <2> SUFFICES ASSUME NEW o \in Situations
               PROVE  /\ Snapshots(o)' <= MaxSnapshots
                      /\ \A q \in Percepts : ingest[o][q] <= Snapshots(o)'
                      /\ \A i \in DOMAIN candidate[o] : candidate[o][i].snapshot \in 1 .. Snapshots(o)'
      BY DEF WithinSnapshots
  <2>1. Snapshots(o)' <= MaxSnapshots
    <3>1. MaxSnapshots \in Nat /\ Snapshots(o) <= MaxSnapshots
        BY <1>0, IntakeAssumption DEF WithinSnapshots
    <3> QED
        BY <1>3, <1>9, <3>1
  <2>2. ASSUME NEW q \in Percepts PROVE ingest[o][q] <= Snapshots(o)'
    <3>1. ingest[o][q] <= Snapshots(o) /\ ingest[o][q] \in Nat
        BY <1>0, <1>2 DEF WithinSnapshots, IntakeTyped
    <3> QED
        BY <1>11, <1>13, <3>1
  <2>3. ASSUME NEW i \in DOMAIN candidate[o]
        PROVE  candidate[o][i].snapshot \in 1 .. Snapshots(o)'
    <3>1. candidate[o][i].snapshot \in 1 .. Snapshots(o)
        BY <1>0 DEF WithinSnapshots
    <3> QED
        BY <1>11, <1>13, <3>1
  <2> QED
      BY <2>1, <2>2, <2>3
<1>15. /\ Known(p)' /\ KeysOf(p)' = KeysOf(p)
       /\ \A q \in Percepts : Known(q) => Known(q)' /\ KeysOf(q)' = KeysOf(q)
    BY <1>2, <1>10, <1>12, KeysStay
<1>16. PerceptsAreAtHome'
  <2> SUFFICES ASSUME NEW o \in Situations, NEW m \in 1 .. Snapshots(o)'
               PROVE  Known(situation[o][m].percept)' /\ o \in KeysOf(situation[o][m].percept)'
      BY DEF PerceptsAreAtHome
  <2>1. CASE m \in 1 .. Snapshots(o)
    <3>1. PICK q : q = situation[o][m].percept
        OBVIOUS
    <3>2. situation'[o][m] = situation[o][m]
        BY <1>12, <2>1 DEF Grows
    <3>3. q \in Percepts /\ Known(q) /\ o \in KeysOf(q)
        BY <1>0, <1>2, <2>1, <3>1, SnapshotFacts DEF PerceptsAreAtHome, Snapshot
    <3>4. Known(q)' /\ o \in KeysOf(q)'
        BY <1>15, <3>3
    <3> QED
        BY <3>1, <3>2, <3>4 DEF Known, KeysOf, Snapshots
  <2>2. CASE m \notin 1 .. Snapshots(o)
    <3>1. o = s /\ m = n + 1
        BY <1>3, <1>9, <1>11, <2>2
    <3>2. situation'[o][m].percept = p
        BY <1>5, <1>9, <3>1
    <3> QED
        BY <1>2, <1>15, <3>1, <3>2 DEF Known, KeysOf, Snapshots
  <2> QED
      BY <2>1, <2>2
<1>17. NewestObservationStands'
  <2> SUFFICES ASSUME NEW o \in Situations, NEW j \in 1 .. Snapshots(o)', NEW m \in 1 .. j,
                      situation'[o][m].percept \in Deliveries
               PROVE  /\ situation'[o][j].state # NoPercept
                      /\ ObservedAt[situation'[o][j].state] >= ObservedAt[situation'[o][m].percept]
      BY DEF NewestObservationStands
  <2>1. CASE j \in 1 .. Snapshots(o)
    <3>1. m \in 1 .. Snapshots(o)
        BY <1>11, <2>1
    <3>2. situation'[o][j] = situation[o][j] /\ situation'[o][m] = situation[o][m]
        BY <1>12, <2>1, <3>1 DEF Grows
    <3> QED
        BY <1>0, <2>1, <3>2 DEF NewestObservationStands
  <2>2. CASE j \notin 1 .. Snapshots(o)
    <3>1. o = s /\ j = n + 1 /\ situation'[o][j] = f
      <4>1. o = s
          BY <1>9, <1>11, <2>2
      <4>2. Snapshots(o)' = n + 1 /\ Snapshots(o) = n
          BY <1>3, <1>9, <4>1
      <4>3. j \in 1 .. n + 1 /\ j \notin 1 .. n
          BY <2>2, <4>2
      <4>4. j = n + 1
          BY <1>3, <4>3
      <4> QED
          BY <1>9, <4>1, <4>4
    <3>2. CASE m = j
      <4>1. p \in Deliveries /\ situation'[o][m].percept = p
          BY <1>5, <3>1, <3>2
      <4>2. f.state # NoPercept /\ ObservedAt[f.state] >= ObservedAt[p]
          BY <1>2, <1>4, <4>1, FormSituationIs
      <4> QED
          BY <3>1, <4>1, <4>2
    <3>3. CASE m # j
      <4>1. m \in 1 .. n /\ n \in 1 .. n
          BY <1>3, <3>1, <3>3
      <4>2. situation'[o][m] = situation[o][m]
          BY <1>9, <3>1, <4>1
      <4>3. Latest(s) = situation[s][n] /\ situation[s] # <<>>
          BY <1>2, <1>3, <4>1, SnapshotFacts DEF Latest
      <4>4. /\ Latest(s).state # NoPercept
            /\ ObservedAt[Latest(s).state] >= ObservedAt[situation[s][m].percept]
          BY <1>0, <1>3, <3>1, <4>1, <4>2, <4>3 DEF NewestObservationStands
      <4>5. f.state # NoPercept /\ ObservedAt[f.state] >= ObservedAt[Latest(s).state]
          BY <1>2, <1>4, <4>3, <4>4, FormSituationIs
      <4>6. /\ Latest(s).state \in Deliveries /\ f.state \in Deliveries
            /\ situation[s][m].percept \in Deliveries
        <5>1. situation[s][n] \in Snapshot
            BY <1>2, <1>3, <4>1, SnapshotFacts
        <5> QED
            BY <1>5, <3>1, <4>2, <4>3, <4>4, <4>5, <5>1 DEF Snapshot
      <4>7. \A d \in Deliveries : ObservedAt[d] \in Nat
          BY IntakeAssumption
      <4>8. ObservedAt[f.state] >= ObservedAt[situation[s][m].percept]
          BY <4>4, <4>5, <4>6, <4>7
      <4> QED
          BY <3>1, <4>2, <4>5, <4>8
    <3> QED
        BY <3>2, <3>3
  <2> QED
      BY <2>1, <2>2
<1>18. Wrote(p, x)'
  <2>1. x.got[s] = n + 1 /\ Foremost(x.todo) = s
      BY <1>2, <1>6, <1>8
  <2>2. n + 1 \in 1 .. n + 1 /\ (n + 1) + 1 .. n + 1 = {}
      BY <1>3
  <2>3. IsLastOf(p, s, n + 1)'
      BY <1>3, <1>9, <2>2 DEF IsLastOf
  <2> QED
      BY <1>3, <2>1, <2>3 DEF Wrote, IsLastOf, Snapshots
<1>19. Follows(p, x)'
  <2>1. x.todo \subseteq KeysOf(p) /\ x.todo # {} /\ Known(p)'
      BY <1>1, <1>2, <1>7, <1>8, <1>15 DEF Follows
  <2>2. ASSUME NEW o \in KeysOf(p), o \notin x.todo
        PROVE  x.got[o] = ingest[o][p] /\ ingest[o][p] # 0
      BY <1>1, <1>2, <1>7, <1>8, <2>2 DEF Follows
  <2> QED
      BY <1>2, <1>7, <1>8, <1>15, <2>1, <2>2 DEF Follows
<1>20. Offers(p, x)' /\ Puts(p, x)'
    BY <1>7, <1>8 DEF Offers, Puts
<1>21. \A o \in Situations : ingest'[o][p] # 0 => IsLastOf(p, o, ingest[o][p])'
  <2> SUFFICES ASSUME NEW o \in Situations, ingest[o][p] # 0 PROVE IsLastOf(p, o, ingest[o][p])'
      OBVIOUS
  <2>1. o # s /\ IsLastOf(p, o, ingest[o][p])
      BY <1>0 DEF FoldsAreLast
  <2> QED
      BY <1>9, <2>1 DEF IsLastOf
<1>22. CandidatesAdvance' /\ \A o \in Situations : \A m : Offered(o, m) # {} => Offered(o, m)' # {}
    BY <1>0 DEF CandidatesAdvance, Offered
<1>23. /\ \A o \in Situations : \A q \in Percepts \ {p} : ingest'[o][q] = ingest[o][q]
       /\ receipted' \in {receipted, receipted \cup {p}}
       /\ p \in receipted' => \A o \in Situations : HasOffered(p, o)'
       /\ \A o \in Situations :
             candidate'[o] = candidate[o] \/ (intake[p].at = "putting" /\ o = First(p))
    BY <1>2
<1>24. x \in Intake /\ intake' = [intake EXCEPT ![p] = x]
    BY <1>8
<1> QED
    BY <1>10, <1>12, <1>14, <1>16, <1>17, <1>18, <1>19, <1>20, <1>21, <1>22, <1>23, <1>24,
       OneIntakeMoves, Zenon

LEMMA FoldSnapshotKeeps ==
    ASSUME IntakeIInv, NEW p \in Percepts, FoldSnapshot(p)
    PROVE  IntakeIInv'
<1>1. First(p) \in Situations
    BY AtWork DEF FoldSnapshot
<1>2. PICK s \in Situations : s = First(p)
    BY <1>1
<1>3. CASE situation[s] # <<>> /\ Last(Latest(s).ids) = p
    BY <1>2, <1>3, FoldAgainKeeps DEF FoldSnapshot
<1>4. CASE ~(situation[s] # <<>> /\ Last(Latest(s).ids) = p)
    BY <1>2, <1>4, FoldNewKeeps DEF FoldSnapshot
<1> QED
    BY <1>3, <1>4

LEMMA IntakeStepKeeps ==
    ASSUME IntakeIInv, NEW p \in Percepts, IntakeStep(p)
    PROVE  IntakeIInv'
BY FoldSnapshotKeeps, FoldReceiptKeeps, FoldedBeforeKeeps, FoldedKeeps, CheckCurrentKeeps,
   PutCandidateKeeps, FinishIntakeKeeps DEF IntakeStep

LEMMA IntakeDiesKeeps ==
    ASSUME IntakeIInv, NEW p \in Percepts, IntakeDies(p)
    PROVE  IntakeIInv'
BY IntakeEnds DEF IntakeDies

LEMMA IntakeInitKeeps ==
    ASSUME IntakeInit
    PROVE  IntakeIInv
<1>1. <<>> \in Seq(Snapshot) /\ <<>> \in Seq(Entry) /\ Len(<<>>) = 0 /\ DOMAIN <<>> = {}
    OBVIOUS
<1>2. \A s \in Situations : situation[s] = <<>> /\ candidate[s] = <<>> /\ Snapshots(s) = 0
    BY <1>1 DEF IntakeInit, Snapshots
<1>3. /\ \A s \in Situations : \A p \in Percepts : ingest[s][p] = 0
      /\ receipted = {} /\ \A p \in Percepts : intake[p] = IdleIntake
    BY DEF IntakeInit
<1>4. IntakeTyped
    BY <1>1, IdleIntakeIsIdle DEF IntakeInit, IntakeTyped
<1>5. MaxSnapshots \in Nat /\ 1 .. 0 = {}
    BY IntakeAssumption
<1>6. WithinSnapshots
    BY <1>1, <1>2, <1>3, <1>5 DEF WithinSnapshots
<1>7. PerceptsAreAtHome /\ NewestObservationStands
    BY <1>2, <1>5 DEF PerceptsAreAtHome, NewestObservationStands
<1>8. FoldsAreLast /\ FinishedHaveOffered
    BY <1>3 DEF FoldsAreLast, FinishedHaveOffered
<1>9. CandidatesAdvance
    BY <1>1, <1>2 DEF CandidatesAdvance
<1>10. IntakesKeep
    BY <1>3, IdleIntakeIsIdle DEF IntakesKeep, Wrote, Follows, Offers, Puts
<1> QED
    BY <1>4, <1>6, <1>7, <1>8, <1>9, <1>10 DEF IntakeIInv, IntakeParts

(* Where there is a candidate, the last one is the newest. *)
LEMMA LastCandidate ==
    ASSUME IntakeIInv, NEW s \in Situations, candidate[s] # <<>>
    PROVE  /\ Last(candidate[s]) \in Entry /\ Last(candidate[s]).snapshot \in 1 .. Snapshots(s)
           /\ Last(candidate[s]).percept \in Percepts
           /\ \A i \in DOMAIN candidate[s] :
                 candidate[s][i].snapshot <= Last(candidate[s]).snapshot
<1>1. PICK u \in Seq(Entry) : u = candidate[s]
    BY DEF IntakeIInv, IntakeTyped
<1>2. /\ Last(u) = u[Len(u)] /\ Len(u) \in DOMAIN u /\ Last(u) \in Entry
      /\ DOMAIN u = 1 .. Len(u) /\ Len(u) \in Nat /\ \A i \in DOMAIN u : u[i] \in Entry
    BY <1>1, LastIsThere
<1>3. Last(u).snapshot \in 1 .. Snapshots(s)
    BY <1>1, <1>2 DEF IntakeIInv, IntakeParts, WithinSnapshots
<1>4. ASSUME NEW i \in DOMAIN u PROVE u[i].snapshot <= Last(u).snapshot
  <2>1. CASE i = Len(u)
      BY <1>2, <2>1 DEF Entry
  <2>2. CASE i # Len(u)
    <3>1. i < Len(u)
        BY <1>2, <1>4, <2>2
    <3>2. u[i].snapshot < u[Len(u)].snapshot
        BY <1>1, <1>2, <3>1 DEF IntakeIInv, IntakeParts, CandidatesAdvance
    <3> QED
        BY <1>2, <3>2 DEF Entry
  <2> QED
      BY <2>1, <2>2
<1> QED
    BY <1>1, <1>2, <1>3, <1>4 DEF Entry

LEMMA CandidatesAreLatest ==
    ASSUME IntakeIInv
    PROVE  CandidateIsLatest
<1> SUFFICES ASSUME \A p \in Percepts : Started(p) => p \in receipted,
                    NEW s \in Situations, situation[s] # <<>>
             PROVE  candidate[s] # <<>> /\ Last(candidate[s]).snapshot = Snapshots(s)
    BY DEF CandidateIsLatest
<1>1. IntakeTyped
    BY DEF IntakeIInv
<1>2. Snapshots(s) \in 1 .. Snapshots(s) /\ Snapshots(s) \in Nat
    BY <1>1, SnapshotFacts
<1>3. PICK p \in Percepts : p = Latest(s).percept
  <2>1. Latest(s) \in Snapshot
      BY <1>1, <1>2, SnapshotFacts DEF Latest
  <2> QED
      BY <2>1 DEF Snapshot
<1>4. Started(p)
    BY <1>2, <1>3 DEF Started, Latest
<1>5. HasOffered(p, s)
    BY <1>4 DEF IntakeIInv, IntakeParts, FinishedHaveOffered
<1>6. PICK i \in DOMAIN candidate[s] : candidate[s][i].snapshot = Snapshots(s)
    BY <1>3, <1>5 DEF HasOffered, Offered
<1>7. candidate[s] # <<>>
  <2>1. DOMAIN <<>> = {}
      OBVIOUS
  <2> QED
      BY <1>6, <2>1
<1>8. /\ Last(candidate[s]).snapshot \in 1 .. Snapshots(s)
      /\ Snapshots(s) <= Last(candidate[s]).snapshot
    BY <1>6, <1>7, LastCandidate
<1> QED
    BY <1>2, <1>7, <1>8

LEMMA IntakeIsTyped ==
    ASSUME IntakeIInv
    PROVE  IntakeTypeOK
<1>1. IntakeTyped
    BY DEF IntakeIInv
<1>2. ASSUME NEW s \in Situations
      PROVE  /\ Snapshots(s) \in 0 .. MaxSnapshots
             /\ \A n \in 1 .. Snapshots(s) :
                   /\ situation[s][n].percept \in Percepts
                   /\ situation[s][n].refs \subseteq Situations
             /\ \A p \in Percepts : ingest[s][p] \in 0 .. Snapshots(s)
             /\ \A i \in DOMAIN candidate[s] : candidate[s][i].snapshot \in 1 .. Snapshots(s)
  <2>1. Snapshots(s) \in Nat /\ \A n \in 1 .. Snapshots(s) : situation[s][n] \in Snapshot
      BY <1>1, SnapshotFacts
  <2>2. \A n \in 1 .. Snapshots(s) : situation[s][n].percept \in Percepts
                                     /\ situation[s][n].refs \subseteq Situations
      BY <2>1 DEF Snapshot
  <2>3. MaxSnapshots \in Nat /\ \A p \in Percepts : ingest[s][p] \in Nat
      BY <1>1, IntakeAssumption DEF IntakeTyped
  <2>4. /\ Snapshots(s) <= MaxSnapshots /\ \A p \in Percepts : ingest[s][p] <= Snapshots(s)
        /\ \A i \in DOMAIN candidate[s] : candidate[s][i].snapshot \in 1 .. Snapshots(s)
      BY DEF IntakeIInv, IntakeParts, WithinSnapshots
  <2>5. Snapshots(s) \in 0 .. MaxSnapshots /\ \A p \in Percepts : ingest[s][p] \in 0 .. Snapshots(s)
      BY <2>1, <2>3, <2>4
  <2> QED
      BY <2>2, <2>4, <2>5
<1>3. \A p \in Percepts : /\ intake[p].at \in {"idle", "folding", "written", "offering", "putting"}
                          /\ intake[p].todo \subseteq Situations
    BY <1>1 DEF IntakeTyped, Intake, IntakeStates
<1>4. receipted \subseteq Percepts
    BY <1>1 DEF IntakeTyped
<1> QED
    BY <1>2, <1>3, <1>4 DEF IntakeTypeOK
-----------------------------------------------------------------------------
(* The dispatcher. *)

CandidatesGrow ==
    \A s \in Situations :
        candidate[s] # <<>> =>
            candidate'[s] # <<>> /\ Last(candidate[s]).snapshot <= Last(candidate'[s]).snapshot

LEMMA PutCandidateGrows ==
    ASSUME IntakeIInv, NEW p \in Percepts, PutCandidate(p)
    PROVE  CandidatesGrow
<1>1. PICK s : s = First(p)
    OBVIOUS
<1>2. PICK n : n = intake[p].got[s]
    OBVIOUS
<1>3. PICK entry : entry = [snapshot |-> n, percept |-> p]
    OBVIOUS
<1>4. \A o \in Situations : candidate[o] # <<>> => Last(candidate[o]).snapshot \in Nat
    BY LastCandidate DEF Entry
<1>5. CASE UNCHANGED candidate
    BY <1>4, <1>5 DEF CandidatesGrow
<1>6. CASE candidate' = [candidate EXCEPT ![s] = Append(@, entry)]
  <2> SUFFICES ASSUME NEW o \in Situations, candidate[o] # <<>>
               PROVE  /\ candidate'[o] # <<>>
                      /\ Last(candidate[o]).snapshot <= Last(candidate'[o]).snapshot
      BY DEF CandidatesGrow
  <2>1. CASE o # s
      BY <1>4, <1>6, <2>1 DEF IntakeIInv, IntakeTyped
  <2>2. CASE o = s
    <3>1. PICK u \in Seq(Entry) : u = candidate[o]
        BY DEF IntakeIInv, IntakeTyped
    <3>2. candidate'[o] = Append(u, entry)
        BY <1>6, <2>2, <3>1 DEF IntakeIInv, IntakeTyped
    <3>3. /\ Append(u, entry) # <<>> /\ Len(Append(u, entry)) = Len(u) + 1
          /\ Append(u, entry)[Len(u) + 1] = entry
        OBVIOUS
    <3>4. Last(candidate'[o]) = entry
        BY <3>2, <3>3 DEF Last
    <3>5. Last(u) = u[Len(u)] /\ Len(u) \in DOMAIN u
        BY <3>1, LastIsThere
    <3>6. intake[p].at = "putting" /\ Puts(p, intake[p]) /\ intake[p].todo # {}
      <4>1. Follows(p, intake[p]) /\ Puts(p, intake[p])
          BY AtWork
      <4> QED
          BY <4>1 DEF Follows, PutCandidate
    <3>7. Foremost(intake[p].todo) = s
        BY <1>1, <3>6, AtWork
    <3>8. Last(u).snapshot <= n
        BY <1>2, <2>2, <3>1, <3>5, <3>6, <3>7 DEF Puts
    <3> QED
        BY <1>3, <3>1, <3>2, <3>3, <3>4, <3>8
  <2> QED
      BY <2>1, <2>2
<1> QED
    BY <1>1, <1>2, <1>3, <1>5, <1>6 DEF PutCandidate

LEMMA IntakeStepGrows ==
    ASSUME IntakeIInv, NEW p \in Percepts, IntakeStep(p)
    PROVE  CandidatesGrow
<1>1. CASE PutCandidate(p)
    BY <1>1, PutCandidateGrows
<1>2. CASE UNCHANGED candidate
  <2>1. \A s \in Situations : candidate[s] # <<>> => Last(candidate[s]).snapshot \in Nat
      BY LastCandidate DEF Entry
  <2> QED
      BY <1>2, <2>1 DEF CandidatesGrow
<1> QED
    BY <1>1, <1>2 DEF IntakeStep, FoldSnapshot, FoldReceipt, FoldedBefore, Folded, CheckCurrent,
                      FinishIntake

LEMMA CandidatesStay ==
    ASSUME IntakeIInv, UNCHANGED candidate
    PROVE  CandidatesGrow
<1>1. \A s \in Situations : candidate[s] # <<>> => Last(candidate[s]).snapshot \in Nat
    BY LastCandidate DEF Entry
<1> QED
    BY <1>1 DEF CandidatesGrow

(* A step of an intake, beside which the dispatcher stays as it is.          *)
LEMMA IntakeBesides ==
    ASSUME FlowIInv, IntakeIInv', CandidatesGrow, FlowTyped',
           UNCHANGED <<task, about, stage, active, progress, tick>>
    PROVE  FlowIInv'
<1> USE DEF FlowIInv
<1>1. /\ ActiveIsNewest /\ AtWorkIsActive /\ ProgressIsOfCompleted /\ StagesAreOfTasks
      /\ ProgressAdvances
    BY DEF FlowParts
<1>2. ActiveIsNewest'
  <2>1. \A k \in Tasks : task'[k] # "none" => k[2] <= active'[k[1]] /\ about'[k] \in Percepts
      BY <1>1 DEF ActiveIsNewest
  <2>2. ASSUME NEW s \in Situations, active'[s] # 0
        PROVE  candidate'[s] # <<>> /\ active'[s] <= Last(candidate'[s]).snapshot
    <3>1. candidate[s] # <<>> /\ active[s] <= Last(candidate[s]).snapshot /\ active[s] \in Nat
        BY <1>1, <2>2 DEF ActiveIsNewest, FlowTyped
    <3>2. /\ candidate'[s] # <<>> /\ Last(candidate[s]).snapshot <= Last(candidate'[s]).snapshot
        BY <3>1 DEF CandidatesGrow
    <3>3. Last(candidate[s]).snapshot \in Nat
        BY <3>1, LastCandidate DEF Entry
    <3>4. Last(candidate'[s]).snapshot \in Nat
      <4>1. PICK u \in Seq(Entry) : u = candidate'[s]
          BY DEF IntakeIInv, IntakeTyped
      <4>2. Last(u) \in Entry
          BY <3>2, <4>1, LastIsThere
      <4> QED
          BY <4>1, <4>2 DEF Entry
    <3> QED
        BY <3>1, <3>2, <3>3, <3>4
  <2> QED
      BY <2>1, <2>2 DEF ActiveIsNewest
<1>3. /\ AtWorkIsActive' /\ ProgressIsOfCompleted' /\ StagesAreOfTasks' /\ ProgressAdvances'
    BY <1>1 DEF AtWorkIsActive, ProgressIsOfCompleted, StagesAreOfTasks, ProgressAdvances, Recorded
<1>4. ASSUME NEW t \in Ticks
      PROVE  OnPage(t, tick[t])' /\ Submits(tick[t])' /\ Works(tick[t])' /\ Claims(t, tick[t])'
  <2>1. PICK x : x = tick[t]
      OBVIOUS
  <2>2. OnPage(t, x) /\ Submits(x) /\ Works(x) /\ Claims(t, x)
      BY <2>1 DEF TicksKeep
  <2>3. OnPage(t, x)' /\ Works(x)' /\ Claims(t, x)'
      BY <2>2 DEF OnPage, Works, Assigned, Claims
  <2>4. Submits(x)'
      BY <2>2 DEF Submits, CandidatesGrow
  <2> QED
      BY <2>1, <2>3, <2>4
<1>5. TicksKeep'
    BY <1>4 DEF TicksKeep
<1> QED
    BY <1>2, <1>3, <1>5 DEF FlowParts

(* The task of a tick is of a snapshot that is there. *)
LEMMA AssignedIsKnown ==
    ASSUME FlowIInv, NEW k \in Assigned
    PROVE  k \in Tasks /\ k \in Percepts /\ Known(k)
<1>1. k \in Tasks /\ k \in Situations \X (1 .. MaxSnapshots) /\ MaxSnapshots \in Nat
    BY IntakeAssumption DEF Assigned, Tasks
<1>2. PICK s \in Situations, n \in 1 .. MaxSnapshots : s = k[1] /\ n = k[2]
    BY <1>1
<1>3. n <= active[s] /\ active[s] \in Nat
    BY <1>2 DEF Assigned, FlowIInv, FlowParts, ActiveIsNewest, FlowTyped
<1>4. active[s] # 0
    BY <1>1, <1>3
<1>5. candidate[s] # <<>> /\ active[s] <= Last(candidate[s]).snapshot
    BY <1>4 DEF FlowIInv, FlowParts, ActiveIsNewest
<1>6. Last(candidate[s]).snapshot \in 1 .. Snapshots(s) /\ Snapshots(s) \in Nat
    BY <1>5, LastCandidate, SnapshotFacts DEF FlowIInv, IntakeIInv
<1>7. n <= Snapshots(s)
    BY <1>1, <1>3, <1>5, <1>6
<1> QED
    BY <1>1, <1>2, <1>7 DEF Known, Percepts, Outcomes

LEMMA ArriveKeeps ==
    ASSUME FlowIInv, NEW d \in Deliveries, Arrive(d)
    PROVE  FlowIInv'
<1>1. IntakeIInv' /\ UNCHANGED candidate
  <2>1. d \in Percepts /\ Known(d)
      BY DEF Percepts, Known
  <2> QED
      BY <2>1, DeliverKeeps DEF Arrive, Deliver, FlowIInv
<1> QED
    BY <1>1, IntakeBesides, CandidatesStay DEF Arrive, flowVars, FlowIInv, FlowTyped

LEMMA IntakeKeeps ==
    ASSUME FlowIInv, NEW p \in Percepts, IntakeStep(p), UNCHANGED flowVars
    PROVE  FlowIInv'
BY IntakeStepKeeps, IntakeStepGrows, IntakeBesides DEF flowVars, FlowIInv, FlowTyped

LEMMA DeliveryDiesKeeps ==
    ASSUME FlowIInv, NEW d \in Deliveries, DeliveryDies(d)
    PROVE  FlowIInv'
<1>1. IntakeIInv' /\ UNCHANGED candidate
    BY IntakeDiesKeeps DEF DeliveryDies, IntakeDies, FlowIInv, Percepts
<1>2. FlowTyped'
  <2>1. faults' \in 0 .. MaxFaults
      BY FlowAssumption DEF DeliveryDies, FlowIInv, FlowTyped
  <2> QED
      BY <2>1 DEF DeliveryDies, FlowIInv, FlowTyped
<1> QED
    BY <1>1, <1>2, IntakeBesides, CandidatesStay DEF DeliveryDies, FlowIInv

LEMMA ObserveOutcomeKeeps ==
    ASSUME FlowIInv, NEW t \in Ticks, ObserveOutcome(t)
    PROVE  FlowIInv'
<1>1. tick[t].task \in Assigned
    BY DEF ObserveOutcome, FlowIInv, TicksKeep, Works
<1>2. IntakeIInv' /\ UNCHANGED candidate
    BY <1>1, AssignedIsKnown, DeliverKeeps DEF ObserveOutcome, Deliver, FlowIInv
<1> QED
    BY <1>2, IntakeBesides, CandidatesStay DEF ObserveOutcome, flowVars, FlowIInv, FlowTyped

LEMMA ObserveLateKeeps ==
    ASSUME FlowIInv, NEW t \in Ticks, ObserveLate(t)
    PROVE  FlowIInv'
<1>1. tick[t].task \in Assigned
    BY DEF ObserveLate, FlowIInv, TicksKeep, Works
<1>2. IntakeIInv' /\ UNCHANGED candidate
    BY <1>1, AssignedIsKnown, DeliverKeeps DEF ObserveLate, Deliver, FlowIInv
<1>3. FlowTyped'
  <2>1. faults' \in 0 .. MaxFaults
      BY FlowAssumption DEF ObserveLate, FlowIInv, FlowTyped
  <2>2. late' \subseteq Outcomes
      BY <1>1, AssignedIsKnown DEF ObserveLate, FlowIInv, FlowTyped, Outcomes
  <2> QED
      BY <2>1, <2>2 DEF ObserveLate, FlowIInv, FlowTyped
<1> QED
    BY <1>2, <1>3, IntakeBesides, CandidatesStay DEF ObserveLate, FlowIInv

SameWork(u) ==
    /\ tick'[u].at = tick[u].at /\ tick'[u].new = tick[u].new /\ tick'[u].todo = tick[u].todo
    /\ tick'[u].task = tick[u].task

(* One tick moves on, and the others find what they rely on.                 *)
LEMMA OneTickMoves ==
    ASSUME FlowTyped, TicksKeep, NEW t \in Ticks, NEW x, tick'[t] = x, UNCHANGED candidate,
           \A u \in Ticks \ {t} : SameWork(u),
           \A u \in Ticks \ {t} : tick[u].at = "page" =>
               \A k \in tick[u].new : /\ active'[k[1]] = active[k[1]] /\ task'[k] = task[k]
                                      /\ about'[k] = about[k],
           Assigned \subseteq Assigned',
           \A k \in Tasks : task[k] = "COMPLETED" => task'[k] = "COMPLETED",
           \A u \in Ticks \ {t} : tick[u].at = "executing" =>
               stage'[tick[u].task] = stage[tick[u].task],
           OnPage(t, x)', Submits(x)', Works(x)', Claims(t, x)'
    PROVE  TicksKeep'
<1>1. ASSUME NEW u \in Ticks \ {t}
      PROVE  /\ OnPage(u, tick[u]) /\ Submits(tick[u]) /\ Works(tick[u]) /\ Claims(u, tick[u])
             /\ SameWork(u)
    BY DEF TicksKeep
<1>2. ASSUME NEW u \in Ticks \ {t} PROVE OnPage(u, tick[u])'
    BY <1>1 DEF OnPage, SameWork
<1>3. ASSUME NEW u \in Ticks \ {t} PROVE Submits(tick[u])'
  <2> SUFFICES ASSUME tick[u].at = "page"
               PROVE  /\ \A s \in tick[u].todo : s \in Situations /\ candidate[s] # <<>>
                      /\ \A k \in tick[u].new : /\ k[2] = active'[k[1]] /\ k[1] \notin tick[u].todo
                                                /\ task'[k] = "none" /\ about'[k] \in Percepts
      BY <1>1 DEF Submits, SameWork
  <2> QED
      BY <1>1 DEF Submits
<1>4. ASSUME NEW u \in Ticks \ {t} PROVE Works(tick[u])'
  <2>1. tick[u].at \in {"stage", "executing", "completed"} => tick[u].task \in Tasks
      BY <1>1 DEF Works, Assigned
  <2> QED
      BY <1>1, <2>1 DEF Works, SameWork
<1>5. ASSUME NEW u \in Ticks \ {t} PROVE Claims(u, tick[u])'
    BY <1>1 DEF Claims, SameWork
<1> QED
    BY <1>2, <1>3, <1>4, <1>5 DEF TicksKeep

LEMMA TickIs ==
    ASSUME FlowIInv, NEW t \in Ticks
    PROVE  /\ tick[t] \in Tick /\ OnPage(t, tick[t]) /\ Submits(tick[t]) /\ Works(tick[t])
           /\ Claims(t, tick[t])
BY DEF FlowIInv, FlowTyped, TicksKeep

LEMMA IdleTickIsIdle ==
    /\ IdleTick \in Tick /\ IdleTick.at = "idle" /\ IdleTick.new = {} /\ IdleTick.stale = FALSE
    /\ IdleTick.page = {} /\ IdleTick.todo = {}
<1>1. PICK task0 \in Tasks \cup {NoTask} : task0 = NoTask
    OBVIOUS
<1>2. IdleTick = [at |-> "idle", page |-> {}, new |-> {}, todo |-> {}, task |-> task0,
                  stale |-> FALSE]
    BY <1>1 DEF IdleTick
<1> QED
    BY <1>1, <1>2 DEF Tick, TickStates

(* The records of the dispatcher stay, and one tick goes on.                 *)
LEMMA OnlyTickMoves ==
    ASSUME FlowIInv, IntakeIInv', UNCHANGED <<candidate, task, about, stage, active, progress>>,
           NEW t \in Ticks, NEW x \in Tick, tick' = [tick EXCEPT ![t] = x],
           cursor' \in Situations \cup {0}, late' = late, faults' \in 0 .. MaxFaults,
           OnPage(t, x), Submits(x), Works(x), Claims(t, x)
    PROVE  FlowIInv'
<1>1. FlowTyped' /\ tick'[t] = x
    BY DEF FlowIInv, FlowTyped
<1>2. \A u \in Ticks \ {t} : tick'[u] = tick[u] /\ SameWork(u)
    BY DEF FlowIInv, FlowTyped, SameWork
<1>3. OnPage(t, x)' /\ Submits(x)' /\ Works(x)' /\ Claims(t, x)'
    BY <1>2 DEF OnPage, Submits, Works, Claims, Assigned
<1>4. Assigned' = Assigned
    BY DEF Assigned
<1>5. TicksKeep'
    BY <1>1, <1>2, <1>3, <1>4, OneTickMoves DEF FlowIInv
<1>6. FlowParts'
    BY DEF FlowIInv, FlowParts, ActiveIsNewest, AtWorkIsActive, ProgressIsOfCompleted,
           StagesAreOfTasks, ProgressAdvances, Recorded
<1> QED
    BY <1>1, <1>5, <1>6 DEF FlowIInv

LEMMA IntakeStays ==
    ASSUME IntakeIInv, UNCHANGED intakeVars
    PROVE  IntakeIInv'
<1>1. IntakeTyped'
    BY DEF IntakeIInv, IntakeTyped, intakeVars
<1>2. \A s \in Situations : Snapshots(s)' = Snapshots(s)
    BY DEF Snapshots, intakeVars
<1>3. /\ \A s, n : Offered(s, n)' = Offered(s, n)
      /\ \A p : KeysOf(p)' = KeysOf(p)
      /\ \A p : Known(p)' = Known(p)
      /\ \A p, s, n : IsLastOf(p, s, n)' = IsLastOf(p, s, n)
      /\ \A p, s : HasOffered(p, s)' = HasOffered(p, s)
      /\ \A p : First(p)' = First(p)
    BY DEF Offered, KeysOf, Known, IsLastOf, HasOffered, First, Snapshots, Latest, intakeVars
<1>4. WithinSnapshots' /\ CandidatesAdvance' /\ NewestObservationStands' /\ PerceptsAreAtHome'
      /\ FoldsAreLast' /\ FinishedHaveOffered'
    BY <1>2, <1>3 DEF IntakeIInv, IntakeParts, WithinSnapshots, CandidatesAdvance,
       NewestObservationStands, PerceptsAreAtHome, FoldsAreLast, FinishedHaveOffered, intakeVars
<1>5. IntakesKeep'
    BY <1>3 DEF IntakeIInv, IntakeParts, IntakesKeep, Wrote, Follows, Offers, Puts, intakeVars
<1> QED
    BY <1>1, <1>4, <1>5 DEF IntakeIInv, IntakeParts

LEMMA PollKeeps ==
    ASSUME FlowIInv, NEW t \in Ticks, Poll(t)
    PROVE  FlowIInv'
<1>1. PICK page : page = Page
    OBVIOUS
<1> page \in SUBSET Situations /\ \A s \in page : candidate[s] # <<>>
    BY <1>1 DEF Page
<1>2. PICK idle \in Tick : idle = IdleTick /\ idle.new = {}
    BY IdleTickIsIdle
<1>3. PICK x : x = [idle EXCEPT !.at = "page", !.page = page, !.todo = page]
    OBVIOUS
<1>4. x \in Tick /\ x.at = "page" /\ x.todo = page /\ x.new = {}
    BY <1>2, <1>3 DEF Tick, TickStates
<1>5. tick' = [tick EXCEPT ![t] = x]
    BY <1>1, <1>2, <1>3 DEF Poll
<1>6. OnPage(t, x) /\ Submits(x) /\ Works(x) /\ Claims(t, x)
    BY <1>1, <1>4 DEF OnPage, Submits, Works, Claims, Poll, DispatchLocked
<1> QED
    BY <1>4, <1>5, <1>6, IntakeStays, OnlyTickMoves DEF Poll, FlowIInv, FlowTyped, intakeVars

LEMMA PassOverKeeps ==
    ASSUME FlowIInv, NEW t \in Ticks, NEW s \in Situations, PassOver(t, s)
    PROVE  FlowIInv'
<1>1. PICK y \in Tick : y = tick[t] /\ y.at = "page"
    BY TickIs DEF PassOver
<1>2. PICK x : x = [y EXCEPT !.todo = @ \ {s}]
    OBVIOUS
<1>3. x \in Tick /\ x.at = "page" /\ x.todo = y.todo \ {s} /\ x.new = y.new
    BY <1>1, <1>2 DEF Tick
<1>4. tick' = [tick EXCEPT ![t] = x]
    BY <1>1, <1>2 DEF PassOver
<1>5. OnPage(t, y) /\ Submits(y)
    BY <1>1, TickIs
<1>6. OnPage(t, x) /\ Submits(x) /\ Works(x) /\ Claims(t, x)
    BY <1>1, <1>3, <1>5 DEF OnPage, Submits, Works, Claims
<1> QED
    BY <1>3, <1>4, <1>6, IntakeStays, OnlyTickMoves DEF PassOver, FlowIInv, FlowTyped, intakeVars

LEMMA AdvanceCursorKeeps ==
    ASSUME FlowIInv, NEW t \in Ticks, AdvanceCursor(t)
    PROVE  FlowIInv'
<1>1. PICK y \in Tick : y = tick[t]
    BY TickIs
<1>2. PICK todo \in SUBSET Tasks : todo = {k \in Tasks : task[k] = "ADMITTED"}
    OBVIOUS
<1>3. PICK x : x = [y EXCEPT !.at = "running", !.todo = todo]
    OBVIOUS
<1>4. x \in Tick /\ x.at = "running" /\ x.todo = todo
    BY <1>2, <1>3 DEF Tick, TickStates
<1>5. tick' = [tick EXCEPT ![t] = x]
    BY <1>1, <1>2, <1>3 DEF AdvanceCursor
<1>6. OnPage(t, x) /\ Submits(x) /\ Works(x) /\ Claims(t, x)
    BY <1>2, <1>4 DEF OnPage, Submits, Works, Claims, Assigned
<1>7. cursor' \in Situations \cup {0}
  <2>1. y.page \in SUBSET Situations
      BY <1>1 DEF Tick
  <2> QED
      BY <1>1, <2>1, MaxIsIn DEF AdvanceCursor
<1> QED
    BY <1>4, <1>5, <1>6, <1>7, IntakeStays, OnlyTickMoves
       DEF AdvanceCursor, FlowIInv, FlowTyped, intakeVars

LEMMA TakeKeeps ==
    ASSUME FlowIInv, NEW t \in Ticks, NEW k \in Tasks, Take(t, k)
    PROVE  FlowIInv'
<1>1. PICK y \in Tick : y = tick[t] /\ y.at = "running" /\ k \in y.todo
    BY TickIs DEF Take
<1>2. PICK at \in {"completed", "stage"} :
          at = IF task[k] = "COMPLETED" THEN "completed" ELSE "stage"
    OBVIOUS
<1>3. PICK x : x = [y EXCEPT !.todo = @ \ {k}, !.task = k, !.at = at]
    OBVIOUS
<1>4. x \in Tick /\ x.at = at /\ x.task = k /\ x.todo = y.todo \ {k}
    BY <1>1, <1>2, <1>3 DEF Tick, TickStates
<1>5. tick' = [tick EXCEPT ![t] = x]
    BY <1>1, <1>2, <1>3 DEF Take
<1>6. k \in Assigned /\ y.todo \subseteq Assigned
  <2>1. Works(y)
      BY <1>1, TickIs
  <2> QED
      BY <1>1, <2>1 DEF Works
<1>7. OnPage(t, x) /\ Submits(x) /\ Works(x) /\ Claims(t, x)
    BY <1>2, <1>4, <1>6 DEF OnPage, Submits, Works, Claims
<1> QED
    BY <1>4, <1>5, <1>7, IntakeStays, OnlyTickMoves DEF Take, FlowIInv, FlowTyped, intakeVars

LEMMA AbortKeeps ==
    ASSUME FlowIInv, IntakeIInv', NEW t \in Ticks, Aborts(t),
           UNCHANGED <<candidate, task, about, stage, active, progress, cursor, late>>,
           faults' \in 0 .. MaxFaults
    PROVE  FlowIInv'
<1>1. OnPage(t, IdleTick) /\ Submits(IdleTick) /\ Works(IdleTick) /\ Claims(t, IdleTick)
    BY IdleTickIsIdle DEF OnPage, Submits, Works, Claims
<1>2. cursor' \in Situations \cup {0}
    BY DEF FlowIInv, FlowTyped
<1> QED
    BY <1>1, <1>2, IdleTickIsIdle, OnlyTickMoves DEF Aborts

LEMMA LaunchKeeps ==
    ASSUME FlowIInv, NEW t \in Ticks, Launch(t)
    PROVE  FlowIInv'
<1>1. PICK y \in Tick : y = tick[t] /\ y.at = "stage" /\ Works(y)
    BY TickIs DEF Launch
<1>2. PICK k : k = tick[t].task
    OBVIOUS
<1>3. CASE Claimed(k)
    BY <1>2, <1>3, IntakeStays, AbortKeeps DEF Launch, FlowIInv, FlowTyped, intakeVars
<1>4. CASE ~Claimed(k)
  <2>1. PICK x : x = [y EXCEPT !.at = "executing"]
      OBVIOUS
  <2>2. x \in Tick /\ x.at = "executing" /\ x.task = k /\ x.todo = y.todo
      BY <1>1, <1>2, <2>1 DEF Tick, TickStates
  <2>3. tick' = [tick EXCEPT ![t] = x]
      BY <1>1, <1>2, <1>4, <2>1 DEF Launch, Goes
  <2>4. OnPage(t, x) /\ Submits(x)
      BY <2>2 DEF OnPage, Submits
  <2>5. Works(x)
      BY <1>1, <1>2, <2>2 DEF Works
  <2>6. Claims(t, x)
      BY <1>2, <1>4, <2>2 DEF Claims, Claimed, Launch
  <2> QED
      BY <2>2, <2>3, <2>4, <2>5, <2>6, IntakeStays, OnlyTickMoves
         DEF Launch, FlowIInv, FlowTyped, intakeVars
<1> QED
    BY <1>3, <1>4

LEMMA EndTickKeeps ==
    ASSUME FlowIInv, NEW t \in Ticks, EndTick(t)
    PROVE  FlowIInv'
BY IntakeStays, AbortKeeps DEF EndTick, FlowIInv, FlowTyped, intakeVars

LEMMA TickFailsKeeps ==
    ASSUME FlowIInv, NEW t \in Ticks, TickFails(t)
    PROVE  FlowIInv'
<1>1. IntakeIInv'
  <2>1. CASE tick[t].at = "executing"
    <3>1. tick[t].task \in Percepts
        BY <2>1, TickIs, AssignedIsKnown DEF Works
    <3> QED
        BY <2>1, <3>1, IntakeEnds DEF TickFails, FlowIInv
  <2>2. CASE tick[t].at # "executing"
      BY <2>2, IntakeStays DEF TickFails, FlowIInv, intakeVars
  <2> QED
      BY <2>1, <2>2
<1>2. faults' \in 0 .. MaxFaults
    BY FlowAssumption DEF TickFails, FlowIInv, FlowTyped
<1> QED
    BY <1>1, <1>2, AbortKeeps DEF TickFails

(* What recording a snapshot that none recorded is newer than does.          *)
LEMMA RecordingAdvances ==
    ASSUME FlowTyped, ProgressAdvances, NEW s \in Situations, NEW n \in Nat,
           \A i \in DOMAIN progress[s] : progress[s][i] <= n,
           progress' = WithProgress(s, n)
    PROVE  /\ progress' \in [Situations -> Seq(Nat)] /\ ProgressAdvances'
           /\ \A i \in DOMAIN progress'[s] : progress'[s][i] <= n
           /\ \A o \in Situations \ {s} : progress'[o] = progress[o]
           /\ Recorded(s, n)'
           /\ \A o \in Situations : \A m : Recorded(o, m) => Recorded(o, m)'
<1>1. CASE Recorded(s, n)
    BY <1>1 DEF WithProgress, FlowTyped, ProgressAdvances, Recorded
<1>2. CASE ~Recorded(s, n)
  <2>1. PICK u \in Seq(Nat) : u = progress[s]
      BY DEF FlowTyped
  <2>2. progress' = [progress EXCEPT ![s] = Append(u, n)]
      BY <1>2, <2>1 DEF WithProgress
  <2>3. /\ Append(u, n) \in Seq(Nat) /\ Len(u) \in Nat
        /\ DOMAIN Append(u, n) = 1 .. Len(u) + 1 /\ DOMAIN u = 1 .. Len(u)
        /\ Append(u, n)[Len(u) + 1] = n
        /\ \A i \in 1 .. Len(u) : Append(u, n)[i] = u[i] /\ u[i] \in Nat
      OBVIOUS
  <2>4. /\ progress'[s] = Append(u, n)
        /\ \A o \in Situations \ {s} : progress'[o] = progress[o]
        /\ progress' \in [Situations -> Seq(Nat)]
      BY <2>2, <2>3 DEF FlowTyped
  <2>5. \A i \in 1 .. Len(u) : u[i] <= n /\ u[i] # n
      BY <1>2, <2>1, <2>3 DEF Recorded
  <2>6. \A i \in 1 .. Len(u) + 1 : Append(u, n)[i] <= n
    <3> SUFFICES ASSUME NEW i \in 1 .. Len(u) + 1 PROVE Append(u, n)[i] <= n
        OBVIOUS
    <3>1. i = Len(u) + 1 \/ i \in 1 .. Len(u)
        BY <2>3
    <3> QED
        BY <2>3, <2>5, <3>1
  <2>7. ProgressAdvances'
    <3> SUFFICES ASSUME NEW o \in Situations, NEW i \in DOMAIN progress'[o],
                        NEW j \in DOMAIN progress'[o], i < j
                 PROVE  progress'[o][i] < progress'[o][j]
        BY DEF ProgressAdvances
    <3>1. CASE o # s
        BY <2>4, <3>1 DEF ProgressAdvances
    <3>2. CASE o = s
      <4>1. i \in 1 .. Len(u) + 1 /\ j \in 1 .. Len(u) + 1
          BY <2>3, <2>4, <3>2
      <4>2. i \in 1 .. Len(u)
          BY <2>3, <4>1
      <4>3. CASE j \in 1 .. Len(u)
          BY <2>1, <2>3, <2>4, <3>2, <4>2, <4>3 DEF ProgressAdvances
      <4>4. CASE j = Len(u) + 1
          BY <2>3, <2>4, <2>5, <3>2, <4>2, <4>4
      <4> QED
          BY <2>3, <4>1, <4>3, <4>4
    <3> QED
        BY <3>1, <3>2
  <2>8. Recorded(s, n)'
    <3>1. Len(u) + 1 \in DOMAIN progress'[s] /\ progress'[s][Len(u) + 1] = n
        BY <2>3, <2>4
    <3> QED
        BY <3>1 DEF Recorded
  <2>9. ASSUME NEW o \in Situations, NEW m, Recorded(o, m) PROVE Recorded(o, m)'
    <3>1. CASE o # s
        BY <2>4, <2>9, <3>1 DEF Recorded
    <3>2. CASE o = s
      <4>1. PICK i \in 1 .. Len(u) : u[i] = m
          BY <2>1, <2>3, <2>9, <3>2 DEF Recorded
      <4>2. i \in 1 .. Len(u) + 1 /\ Append(u, n)[i] = m
          BY <2>3, <4>1
      <4>3. i \in DOMAIN progress'[o] /\ progress'[o][i] = m
          BY <2>3, <2>4, <3>2, <4>2
      <4> QED
          BY <4>3 DEF Recorded
    <3> QED
        BY <3>1, <3>2
  <2> QED
      BY <2>3, <2>4, <2>6, <2>7, <2>8, <2>9
<1> QED
    BY <1>1, <1>2

LEMMA TaskIs ==
    ASSUME NEW k \in Tasks
    PROVE  k = <<k[1], k[2]>> /\ k[1] \in Situations /\ k[2] \in 1 .. MaxSnapshots /\ k[2] \in Nat
           /\ k[2] # 0
<1>1. MaxSnapshots \in Nat /\ k \in Situations \X (1 .. MaxSnapshots)
    BY IntakeAssumption DEF Tasks
<1> QED
    BY <1>1

LEMMA RecordProgressKeeps ==
    ASSUME FlowIInv, NEW t \in Ticks, RecordProgress(t)
    PROVE  FlowIInv'
<1>1. PICK y \in Tick : y = tick[t] /\ y.at = "completed" /\ Works(y)
    BY TickIs DEF RecordProgress
<1>2. PICK k \in Tasks : k = y.task /\ task[k] = "COMPLETED"
    BY <1>1 DEF Works, Assigned
<1>3. PICK s \in Situations, n \in Nat : s = k[1] /\ n = k[2] /\ k = <<s, n>>
    BY TaskIs
<1>4. progress' = WithProgress(s, n)
    BY <1>1, <1>2, <1>3 DEF RecordProgress
<1>5. /\ FlowTyped /\ IntakeIInv /\ ActiveIsNewest /\ AtWorkIsActive /\ ProgressIsOfCompleted
      /\ StagesAreOfTasks /\ ProgressAdvances
    BY DEF FlowIInv, FlowParts
<1>6. n <= active[s] /\ active[s] \in Nat
    BY <1>2, <1>3, <1>5 DEF ActiveIsNewest, FlowTyped
<1>7. PICK x : x = [y EXCEPT !.at = "running", !.task = NoTask]
    OBVIOUS
<1>8. PICK none \in Tasks \cup {NoTask} : none = NoTask
    OBVIOUS
<1>9. x = [y EXCEPT !.at = "running", !.task = none]
    BY <1>7, <1>8
<1>10. x \in Tick /\ x.at = "running" /\ x.todo = y.todo /\ x.new = y.new
    BY <1>9 DEF Tick, TickStates
<1>11. tick' = [tick EXCEPT ![t] = x]
    BY <1>1, <1>7 DEF RecordProgress
<1>12. /\ progress' \in [Situations -> Seq(Nat)] /\ ProgressAdvances'
       /\ \A o \in Situations : \A m : Recorded(o, m) => Recorded(o, m)'
       /\ \A o \in Situations : \A i \in DOMAIN progress'[o] : progress'[o][i] <= active[o]
  <2>1. CASE n < active[s]
    <3>1. Recorded(s, n)
        BY <1>2, <1>3, <1>5, <2>1 DEF ProgressIsOfCompleted
    <3> QED
        BY <1>4, <1>5, <3>1 DEF WithProgress, FlowTyped, ProgressIsOfCompleted, ProgressAdvances,
           Recorded
  <2>2. CASE n = active[s]
    <3>1. \A i \in DOMAIN progress[s] : progress[s][i] <= n
        BY <1>5, <2>2 DEF ProgressIsOfCompleted
    <3>2. /\ progress' \in [Situations -> Seq(Nat)] /\ ProgressAdvances'
          /\ \A i \in DOMAIN progress'[s] : progress'[s][i] <= n
          /\ \A o \in Situations \ {s} : progress'[o] = progress[o]
          /\ \A o \in Situations : \A m : Recorded(o, m) => Recorded(o, m)'
        BY <1>4, <1>5, <3>1, RecordingAdvances
    <3> QED
        BY <1>5, <2>2, <3>2 DEF ProgressIsOfCompleted
  <2> QED
      BY <1>6, <2>1, <2>2
<1>13. UNCHANGED <<intakeVars, task, about, stage, active, cursor, late, faults>>
    BY DEF RecordProgress
<1>14. FlowTyped'
    BY <1>5, <1>10, <1>11, <1>12, <1>13 DEF FlowTyped
<1>15. ActiveIsNewest' /\ AtWorkIsActive' /\ StagesAreOfTasks'
    BY <1>5, <1>13 DEF ActiveIsNewest, AtWorkIsActive, StagesAreOfTasks, intakeVars
<1>16. ProgressIsOfCompleted'
  <2>1. \A j \in Tasks : j[1] \in Situations
      BY TaskIs
  <2> QED
      BY <1>5, <1>12, <1>13, <2>1 DEF ProgressIsOfCompleted
<1>17. TicksKeep'
  <2>1. tick'[t] = x /\ \A u \in Ticks \ {t} : SameWork(u)
      BY <1>5, <1>11 DEF FlowTyped, SameWork
  <2>2. x.todo \subseteq Assigned
      BY <1>1, <1>10 DEF Works
  <2>3. OnPage(t, x)' /\ Submits(x)' /\ Works(x)' /\ Claims(t, x)'
      BY <1>10, <1>13, <2>2 DEF OnPage, Submits, Works, Claims, Assigned
  <2>4. Assigned' = Assigned /\ UNCHANGED candidate
      BY <1>13 DEF Assigned, intakeVars
  <2> QED
      BY <1>5, <1>13, <2>1, <2>3, <2>4, OneTickMoves DEF FlowIInv
<1> QED
    BY <1>5, <1>12, <1>13, <1>14, <1>15, <1>16, <1>17, IntakeStays DEF FlowIInv, FlowParts

LEMMA StageDoneKeeps ==
    ASSUME FlowIInv, NEW t \in Ticks, StageDone(t)
    PROVE  FlowIInv'
<1>1. PICK y \in Tick : y = tick[t] /\ y.at = "executing" /\ Works(y) /\ Claims(t, y)
    BY TickIs DEF StageDone
<1>2. PICK k \in Assigned : k = y.task /\ k \in Tasks
    BY <1>1 DEF Works, Assigned
<1>3. /\ FlowTyped /\ IntakeIInv /\ ActiveIsNewest /\ AtWorkIsActive /\ ProgressIsOfCompleted
      /\ StagesAreOfTasks /\ ProgressAdvances
    BY DEF FlowIInv, FlowParts
<1>4. stage[k] < Persist /\ stage[k] \in 0 .. Persist /\ Persist \in Nat
    BY <1>1, <1>2, <1>3 DEF Claims, FlowTyped, Persist
<1>5. stage' = [stage EXCEPT ![k] = @ + 1]
    BY <1>1, <1>2 DEF StageDone
<1>6. UNCHANGED <<intakeVars, task, about, active, progress, cursor, late, faults>>
    BY DEF StageDone
<1>7. PICK x : x = [y EXCEPT !.at = "stage"]
    OBVIOUS
<1>8. x \in Tick /\ x.at = "stage" /\ x.task = k /\ x.todo = y.todo
    BY <1>1, <1>2, <1>7 DEF Tick, TickStates
<1>9. tick' = [tick EXCEPT ![t] = x]
    BY <1>1, <1>7 DEF StageDone, Goes
<1>10. FlowTyped'
  <2>1. stage' \in [Tasks -> 0 .. Persist]
      BY <1>2, <1>3, <1>4, <1>5 DEF FlowTyped
  <2> QED
      BY <1>3, <1>6, <1>8, <1>9, <2>1 DEF FlowTyped
<1>11. ActiveIsNewest' /\ AtWorkIsActive' /\ ProgressIsOfCompleted' /\ ProgressAdvances'
    BY <1>3, <1>6 DEF ActiveIsNewest, AtWorkIsActive, ProgressIsOfCompleted, ProgressAdvances,
       Recorded, intakeVars
<1>12. StagesAreOfTasks'
  <2>1. task[k] # "COMPLETED" /\ task[k] # "none"
      BY <1>2, <1>3, <1>4 DEF StagesAreOfTasks, Assigned
  <2>2. \A j \in Tasks \ {k} : stage'[j] = stage[j]
      BY <1>3, <1>5 DEF FlowTyped
  <2> QED
      BY <1>3, <1>6, <2>1, <2>2 DEF StagesAreOfTasks
<1>13. TicksKeep'
  <2>1. tick'[t] = x /\ \A u \in Ticks \ {t} : SameWork(u)
      BY <1>3, <1>9 DEF FlowTyped, SameWork
  <2>2. OnPage(t, x)' /\ Submits(x)' /\ Works(x)' /\ Claims(t, x)'
      BY <1>1, <1>2, <1>6, <1>8 DEF OnPage, Submits, Works, Claims, Assigned
  <2>3. ASSUME NEW u \in Ticks \ {t}, tick[u].at = "executing"
        PROVE  stage'[tick[u].task] = stage[tick[u].task]
    <3>1. tick[u].task \in Tasks /\ tick[u].task # k
        BY <1>1, <1>2, <2>3, TickIs DEF Works, Assigned, Claims
    <3> QED
        BY <1>3, <1>5, <3>1 DEF FlowTyped
  <2>4. Assigned' = Assigned /\ UNCHANGED candidate
      BY <1>6 DEF Assigned, intakeVars
  <2> QED
      BY <1>3, <1>6, <2>1, <2>2, <2>3, <2>4, OneTickMoves DEF FlowIInv
<1> QED
    BY <1>3, <1>6, <1>10, <1>11, <1>12, <1>13, IntakeStays DEF FlowIInv, FlowParts

LEMMA CompleteTaskKeeps ==
    ASSUME FlowIInv, NEW t \in Ticks, CompleteTask(t)
    PROVE  FlowIInv'
<1>1. PICK y \in Tick : y = tick[t] /\ y.at = "stage" /\ Works(y)
    BY TickIs DEF CompleteTask
<1>2. PICK k \in Tasks : k = y.task /\ k \in Assigned
    BY <1>1 DEF Works, Assigned
<1>3. /\ FlowTyped /\ IntakeIInv /\ ActiveIsNewest /\ AtWorkIsActive /\ ProgressIsOfCompleted
      /\ StagesAreOfTasks /\ ProgressAdvances
    BY DEF FlowIInv, FlowParts
<1>4. stage[k] = Persist /\ task' = [task EXCEPT ![k] = "COMPLETED"]
    BY <1>1, <1>2 DEF CompleteTask
<1>5. UNCHANGED <<intakeVars, about, stage, active, progress, cursor, late, faults>>
    BY DEF CompleteTask
<1>6. PICK x : x = [y EXCEPT !.at = "completed"]
    OBVIOUS
<1>7. x \in Tick /\ x.at = "completed" /\ x.task = k /\ x.todo = y.todo
    BY <1>1, <1>2, <1>6 DEF Tick, TickStates
<1>8. tick' = Others(t, [tick EXCEPT ![t] = x])
    BY <1>1, <1>6 DEF CompleteTask
<1>9. tick'[t] = x /\ tick' \in [Ticks -> Tick] /\ \A u \in Ticks \ {t} : SameWork(u)
  <2>1. tick'[t] = x /\ DOMAIN tick' = Ticks
      BY <1>3, <1>8 DEF Others, FlowTyped
  <2>2. tick' = [u \in Ticks |-> tick'[u]]
      BY <1>8 DEF Others
  <2>3. ASSUME NEW u \in Ticks \ {t} PROVE tick'[u] \in Tick /\ SameWork(u)
    <3>1. PICK z \in Tick : z = tick[u]
        BY <1>3 DEF FlowTyped
    <3>2. CASE z.at # "page"
        BY <1>3, <1>8, <3>1, <3>2 DEF Others, FlowTyped, SameWork
    <3>3. CASE z.at = "page"
      <4>1. PICK w : w = [z EXCEPT !.stale = TRUE]
          OBVIOUS
      <4>2. w \in Tick /\ w.at = z.at /\ w.new = z.new /\ w.todo = z.todo /\ w.task = z.task
          BY <4>1 DEF Tick
      <4>3. tick'[u] = w
          BY <1>8, <3>1, <3>3, <4>1 DEF Others
      <4> QED
          BY <3>1, <4>2, <4>3 DEF SameWork
    <3> QED
        BY <3>2, <3>3
  <2> QED
      BY <1>7, <2>1, <2>2, <2>3
<1>10. task'[k] = "COMPLETED" /\ \A j \in Tasks \ {k} : task'[j] = task[j]
    BY <1>3, <1>4 DEF FlowTyped
<1>11. task[k] \in {"ADMITTED", "COMPLETED"}
    BY <1>2 DEF Assigned
<1>12. FlowTyped'
  <2>1. task' \in [Tasks -> {"none", "QUEUED", "ADMITTED", "COMPLETED"}]
      BY <1>3, <1>4 DEF FlowTyped
  <2> QED
      BY <1>3, <1>5, <1>9, <2>1 DEF FlowTyped
<1>13. ActiveIsNewest'
  <2>1. k[2] <= active[k[1]] /\ about[k] \in Percepts
      BY <1>3, <1>11 DEF ActiveIsNewest
  <2> QED
      BY <1>3, <1>5, <1>10, <2>1 DEF ActiveIsNewest, intakeVars
<1>14. AtWorkIsActive' /\ StagesAreOfTasks' /\ ProgressAdvances'
    BY <1>3, <1>4, <1>5, <1>10 DEF AtWorkIsActive, StagesAreOfTasks, ProgressAdvances
<1>15. ProgressIsOfCompleted'
  <2>1. k[2] < active[k[1]] => Recorded(k[1], k[2])
    <3>1. CASE task[k] = "COMPLETED"
        BY <1>3, <3>1 DEF ProgressIsOfCompleted
    <3>2. CASE task[k] = "ADMITTED"
      <4>1. k[2] = active[k[1]] /\ k[2] \in Nat
          BY <1>3, <3>2, TaskIs DEF AtWorkIsActive
      <4> QED
          BY <4>1
    <3> QED
        BY <1>11, <3>1, <3>2
  <2>2. \A j \in Tasks : task'[j] = "COMPLETED" /\ j[2] < active[j[1]] => Recorded(j[1], j[2])
      BY <1>3, <1>10, <2>1 DEF ProgressIsOfCompleted
  <2> QED
      BY <1>3, <1>5, <2>2 DEF ProgressIsOfCompleted, Recorded
<1>16. TicksKeep'
  <2>1. Assigned \subseteq Assigned' /\ k \in Assigned'
      BY <1>10 DEF Assigned
  <2>2. OnPage(t, x)' /\ Submits(x)' /\ Claims(t, x)'
      BY <1>7 DEF OnPage, Submits, Claims
  <2>3. Works(x)'
    <3>1. x.todo \subseteq Assigned
        BY <1>1, <1>7 DEF Works
    <3> QED
        BY <1>7, <1>10, <2>1, <3>1 DEF Works
  <2>4. \A u \in Ticks \ {t} : tick[u].at = "page" =>
            \A j \in tick[u].new : /\ active'[j[1]] = active[j[1]] /\ task'[j] = task[j]
                                   /\ about'[j] = about[j]
    <3> SUFFICES ASSUME NEW u \in Ticks \ {t}, tick[u].at = "page", NEW j \in tick[u].new
                 PROVE  task'[j] = task[j]
        BY <1>5
    <3>1. task[j] = "none" /\ j \in Tasks
        BY TickIs DEF Submits, Tick
    <3> QED
        BY <1>10, <1>11, <3>1
  <2>5. \A j \in Tasks : task[j] = "COMPLETED" => task'[j] = "COMPLETED"
      BY <1>10
  <2>6. UNCHANGED <<candidate, stage>>
      BY <1>5 DEF intakeVars
  <2> QED
      BY <1>3, <1>9, <2>1, <2>2, <2>3, <2>4, <2>5, <2>6, OneTickMoves DEF FlowIInv
<1> QED
    BY <1>3, <1>5, <1>12, <1>13, <1>14, <1>15, <1>16, IntakeStays DEF FlowIInv, FlowParts

LEMMA SavePageKeeps ==
    ASSUME FlowIInv, NEW t \in Ticks, SavePage(t)
    PROVE  FlowIInv'
<1>1. PICK y \in Tick : y = tick[t] /\ y.at = "page" /\ y.todo = {}
    BY TickIs DEF SavePage
<1>2. /\ FlowTyped /\ IntakeIInv /\ ActiveIsNewest /\ AtWorkIsActive /\ ProgressIsOfCompleted
      /\ StagesAreOfTasks /\ ProgressAdvances
    BY DEF FlowIInv, FlowParts
<1>3. UNCHANGED <<intakeVars, about, stage, active, progress, cursor, late, faults>>
    BY DEF SavePage
<1>4. CASE tick[t].stale
  <2>1. Aborts(t) /\ UNCHANGED task
      BY <1>4 DEF SavePage
  <2> QED
      BY <1>2, <1>3, <2>1, IntakeStays, AbortKeeps DEF FlowTyped, intakeVars
<1>5. CASE ~tick[t].stale
  <2>1. PICK admitted \in SUBSET Waiting(t) :
            task' = [k \in Tasks |-> IF k \in admitted THEN "ADMITTED"
                                     ELSE IF k \in Waiting(t) THEN "QUEUED" ELSE task[k]]
      BY <1>5 DEF SavePage
  <2>2. PICK x : x = [y EXCEPT !.at = "saved"]
      OBVIOUS
  <2>3. x \in Tick /\ x.at = "saved"
      BY <2>2 DEF Tick, TickStates
  <2>4. tick' = [tick EXCEPT ![t] = x]
      BY <1>1, <1>5, <2>2 DEF SavePage, Goes
  <2>5. ASSUME NEW k \in Waiting(t)
        PROVE  /\ k \in Tasks /\ task[k] \in {"none", "QUEUED"} /\ k[2] = active[k[1]]
               /\ about[k] \in Percepts /\ task'[k] \in {"ADMITTED", "QUEUED"}
    <3>1. k \in Tasks /\ (task[k] = "QUEUED" \/ (k \in y.new /\ task[k] = "none"))
        BY <1>1 DEF Waiting
    <3>2. Submits(y)
        BY <1>1, TickIs
    <3>3. k[2] = active[k[1]] /\ about[k] \in Percepts
        BY <1>1, <1>2, <3>1, <3>2 DEF Submits, ActiveIsNewest, AtWorkIsActive
    <3> QED
        BY <2>1, <3>1, <3>3
  <2>6. \A k \in Tasks : k \notin Waiting(t) => task'[k] = task[k]
      BY <2>1
  <2>7. FlowTyped'
    <3>1. task' \in [Tasks -> {"none", "QUEUED", "ADMITTED", "COMPLETED"}]
        BY <1>2, <2>1 DEF FlowTyped
    <3> QED
        BY <1>2, <1>3, <2>3, <2>4, <3>1 DEF FlowTyped
  <2>8. ActiveIsNewest'
    <3>1. ASSUME NEW k \in Tasks, task'[k] # "none"
          PROVE  k[2] <= active[k[1]] /\ about[k] \in Percepts
      <4>1. CASE k \in Waiting(t)
        <5>1. k[2] \in Nat
            BY TaskIs
        <5> QED
            BY <2>5, <4>1, <5>1
      <4>2. CASE k \notin Waiting(t)
          BY <1>2, <2>6, <3>1, <4>2 DEF ActiveIsNewest
      <4> QED
          BY <4>1, <4>2
    <3> QED
        BY <1>2, <1>3, <3>1 DEF ActiveIsNewest, intakeVars
  <2>9. AtWorkIsActive'
      BY <1>2, <1>3, <2>5, <2>6 DEF AtWorkIsActive
  <2>10. \A k \in Tasks : task'[k] = "COMPLETED" <=> task[k] = "COMPLETED"
      BY <2>5, <2>6
  <2>11. ProgressIsOfCompleted' /\ ProgressAdvances'
      BY <1>2, <1>3, <2>10 DEF ProgressIsOfCompleted, ProgressAdvances, Recorded
  <2>12. StagesAreOfTasks'
      BY <1>2, <1>3, <2>5, <2>6 DEF StagesAreOfTasks
  <2>13. TicksKeep'
    <3>1. tick'[t] = x /\ \A u \in Ticks \ {t} : tick'[u] = tick[u] /\ SameWork(u)
        BY <1>2, <2>4 DEF FlowTyped, SameWork
    <3>2. \A u \in Ticks \ {t} : tick[u].at \notin {"page", "saved"}
        BY <1>1, TickIs DEF OnPage
    <3>3. OnPage(t, x)' /\ Submits(x)' /\ Works(x)' /\ Claims(t, x)'
        BY <2>3, <3>1, <3>2 DEF OnPage, Submits, Works, Claims
    <3>4. Assigned \subseteq Assigned'
        BY <2>5, <2>6 DEF Assigned
    <3>5. UNCHANGED <<candidate, stage>>
        BY <1>3 DEF intakeVars
    <3> QED
        BY <1>2, <2>10, <3>1, <3>2, <3>3, <3>4, <3>5, OneTickMoves DEF FlowIInv
  <2> QED
      BY <1>2, <1>3, <2>7, <2>8, <2>9, <2>11, <2>12, <2>13, IntakeStays DEF FlowIInv, FlowParts
<1> QED
    BY <1>4, <1>5

(* Where a snapshot is submitted, no task of the situation is at work, and   *)
(* the completed ones are recorded with the step.                            *)
LEMMA SubmitRepairs ==
    ASSUME FlowIInv, NEW t \in Ticks, NEW s \in Situations, Submit(t, s)
    PROVE  /\ candidate[s] # <<>> /\ Last(candidate[s]).snapshot \in 1 .. MaxSnapshots
           /\ Last(candidate[s]).snapshot \in Nat /\ Last(candidate[s]).percept \in Percepts
           /\ active[s] \in Nat /\ active[s] <= Last(candidate[s]).snapshot
           /\ \A k \in Tasks : k[1] = s => /\ task[k] \in {"none", "COMPLETED"}
                                           /\ task[k] = "COMPLETED" => Recorded(s, k[2])'
           /\ progress' \in [Situations -> Seq(Nat)] /\ ProgressAdvances'
           /\ \A i \in DOMAIN progress'[s] : progress'[s][i] <= active[s]
           /\ \A o \in Situations \ {s} : progress'[o] = progress[o]
<1>1. /\ FlowTyped /\ IntakeIInv /\ ActiveIsNewest /\ AtWorkIsActive /\ ProgressIsOfCompleted
      /\ ProgressAdvances /\ IntakeTyped
    BY DEF FlowIInv, FlowParts, IntakeIInv
<1>2. candidate[s] # <<>>
    BY TickIs DEF Submit, Submits
<1>3. /\ Last(candidate[s]).snapshot \in 1 .. Snapshots(s)
      /\ Last(candidate[s]).percept \in Percepts
      /\ Snapshots(s) \in Nat /\ Snapshots(s) <= MaxSnapshots /\ MaxSnapshots \in Nat
    BY <1>1, <1>2, LastCandidate, SnapshotFacts, IntakeAssumption
       DEF IntakeIInv, IntakeParts, WithinSnapshots
<1>4. Last(candidate[s]).snapshot \in 1 .. MaxSnapshots /\ Last(candidate[s]).snapshot \in Nat
    BY <1>3
<1>5. active[s] \in Nat /\ active[s] <= Last(candidate[s]).snapshot
    BY <1>1, <1>4 DEF FlowTyped, ActiveIsNewest
<1>6. PICK n \in Nat : n = active[s]
    BY <1>5
<1>7. IsActive(s) => task[<<s, n>>] = "COMPLETED" /\ progress' = WithProgress(s, n)
    BY <1>6 DEF Submit
<1>8. ~IsActive(s) => UNCHANGED progress
    BY DEF Submit
<1>9. \A i \in DOMAIN progress[s] : progress[s][i] <= n
    BY <1>1, <1>6 DEF ProgressIsOfCompleted
<1>10. /\ progress' \in [Situations -> Seq(Nat)] /\ ProgressAdvances'
       /\ \A i \in DOMAIN progress'[s] : progress'[s][i] <= n
       /\ \A o \in Situations \ {s} : progress'[o] = progress[o]
       /\ IsActive(s) => Recorded(s, n)'
       /\ \A m : Recorded(s, m) => Recorded(s, m)'
  <2>1. CASE IsActive(s)
      BY <1>1, <1>7, <1>9, <2>1, RecordingAdvances
  <2>2. CASE ~IsActive(s)
      BY <1>1, <1>8, <1>9, <2>2 DEF FlowTyped, ProgressAdvances, Recorded
  <2> QED
      BY <2>1, <2>2
<1>11. ASSUME NEW k \in Tasks, k[1] = s
       PROVE  /\ task[k] \in {"none", "COMPLETED"}
              /\ task[k] = "COMPLETED" => Recorded(s, k[2])'
  <2>1. PICK m \in Nat : m = k[2] /\ k = <<s, m>> /\ m # 0
      BY <1>11, TaskIs
  <2>2. m = n /\ task[k] # "none" => IsActive(s)
      BY <1>6, <2>1 DEF IsActive
  <2>3. task[k] # "none" => m <= n
      BY <1>1, <1>6, <1>11, <2>1 DEF ActiveIsNewest
  <2>4. task[k] \in {"QUEUED", "ADMITTED"} => m = n
      BY <1>1, <1>6, <1>11, <2>1 DEF AtWorkIsActive
  <2>5. task[k] \notin {"QUEUED", "ADMITTED"}
      BY <1>7, <2>1, <2>2, <2>4
  <2>6. task[k] \in {"none", "COMPLETED"}
      BY <1>1, <2>5 DEF FlowTyped
  <2>7. ASSUME task[k] = "COMPLETED" PROVE Recorded(s, m)'
    <3>1. CASE m = n
      <4>1. Recorded(s, n)'
          BY <1>10, <2>2, <2>7, <3>1
      <4> QED
          BY <3>1, <4>1
    <3>2. CASE m < n
      <4>1. Recorded(s, m)
          BY <1>1, <1>6, <1>11, <2>1, <2>7, <3>2 DEF ProgressIsOfCompleted
      <4> QED
          BY <1>10, <4>1
    <3> QED
        BY <2>3, <2>7, <3>1, <3>2
  <2> QED
      BY <2>1, <2>6, <2>7 DEF Recorded
<1> QED
    BY <1>2, <1>3, <1>4, <1>5, <1>6, <1>10, <1>11

LEMMA SubmitKeeps ==
    ASSUME FlowIInv, NEW t \in Ticks, NEW s \in Situations, Submit(t, s)
    PROVE  FlowIInv'
<1>1. PICK y \in Tick : y = tick[t] /\ y.at = "page" /\ s \in y.todo /\ Submits(y)
    BY TickIs DEF Submit
<1>2. /\ FlowTyped /\ IntakeIInv /\ ActiveIsNewest /\ AtWorkIsActive /\ ProgressIsOfCompleted
      /\ StagesAreOfTasks /\ ProgressAdvances
    BY DEF FlowIInv, FlowParts
<1>3. UNCHANGED <<intakeVars, task, stage, cursor, late, faults>>
    BY DEF Submit
<1>4. PICK n \in 1 .. MaxSnapshots : n = Last(candidate[s]).snapshot /\ n \in Nat
    BY SubmitRepairs
<1>5. /\ candidate[s] # <<>> /\ Last(candidate[s]).percept \in Percepts
      /\ active[s] \in Nat /\ active[s] <= n
      /\ \A k \in Tasks : k[1] = s => /\ task[k] \in {"none", "COMPLETED"}
                                      /\ task[k] = "COMPLETED" => Recorded(s, k[2])'
      /\ progress' \in [Situations -> Seq(Nat)] /\ ProgressAdvances'
      /\ \A i \in DOMAIN progress'[s] : progress'[s][i] <= active[s]
      /\ \A o \in Situations \ {s} : progress'[o] = progress[o]
    BY <1>4, SubmitRepairs
<1>6. PICK k \in Tasks : k = <<s, n>> /\ k[1] = s /\ k[2] = n
  <2>1. <<s, n>> \in Tasks
      BY <1>4 DEF Tasks
  <2> QED
      BY <2>1
<1>7. PICK new \in SUBSET Tasks :
          /\ tick' = [tick EXCEPT ![t].todo = @ \ {s}, ![t].new = new]
          /\ new \in {y.new, y.new \cup {k}}
          /\ k \in new => k \in y.new \/ (task[k] = "none" /\ about'[k] \in Percepts)
          /\ active' = [active EXCEPT ![s] = n]
          /\ about' = about
             \/ (about[k] = NoPercept /\ about' = [about EXCEPT ![k] = Last(candidate[s]).percept])
  <2>1. y.new \subseteq Tasks
      BY DEF Tick
  <2>2. CASE IsActive(s) /\ active[s] = n
    <3>1. tick' = [tick EXCEPT ![t].todo = @ \ {s}] /\ UNCHANGED <<active, about>>
        BY <1>4, <2>2 DEF Submit
    <3>2. tick' = [tick EXCEPT ![t].todo = @ \ {s}, ![t].new = y.new]
      <4>1. PICK x : x = [y EXCEPT !.todo = @ \ {s}]
          OBVIOUS
      <4>2. x = [y EXCEPT !.todo = @ \ {s}, !.new = y.new]
          BY <4>1 DEF Tick
      <4> QED
          BY <1>1, <3>1, <4>1, <4>2
    <3>3. active' = [active EXCEPT ![s] = n]
        BY <1>2, <2>2, <3>1 DEF FlowTyped
    <3> QED
        BY <2>1, <3>1, <3>2, <3>3
  <2>3. CASE ~(IsActive(s) /\ active[s] = n)
    <3>1. /\ active' = [active EXCEPT ![s] = n]
          /\ about' = IF about[k] = NoPercept
                      THEN [about EXCEPT ![k] = Last(candidate[s]).percept] ELSE about
          /\ tick' = [tick EXCEPT ![t].todo = @ \ {s}, ![t].new = @ \cup {k}]
        BY <1>4, <1>6, <2>3 DEF Submit
    <3>2. task[k] = "none"
      <4>1. SUFFICES ASSUME task[k] # "none" PROVE FALSE
          OBVIOUS
      <4>2. n <= active[s] /\ n # 0
          BY <1>2, <1>4, <1>6, <4>1, TaskIs DEF ActiveIsNewest
      <4>3. n = active[s]
          BY <1>4, <1>5, <4>2
      <4> QED
          BY <1>6, <2>3, <4>1, <4>2, <4>3 DEF IsActive
    <3>3. tick' = [tick EXCEPT ![t].todo = @ \ {s}, ![t].new = y.new \cup {k}]
        BY <1>1, <3>1
    <3>4. about'[k] \in Percepts
        BY <1>2, <1>5, <3>1 DEF FlowTyped
    <3>5. PICK new \in SUBSET Tasks : new = y.new \cup {k}
        BY <2>1
    <3> QED
        BY <3>1, <3>2, <3>3, <3>4, <3>5
  <2> QED
      BY <2>2, <2>3
<1>8. PICK x : x = [y EXCEPT !.todo = @ \ {s}, !.new = new]
    OBVIOUS
<1>9. x \in Tick /\ x.at = "page" /\ x.todo = y.todo \ {s} /\ x.new = new
    BY <1>1, <1>7, <1>8 DEF Tick
<1>10. tick' = [tick EXCEPT ![t] = x]
    BY <1>1, <1>7, <1>8
<1>11. active'[s] = n /\ \A o \in Situations \ {s} : active'[o] = active[o]
    BY <1>2, <1>7 DEF FlowTyped
<1>12. /\ about' \in [Tasks -> Percepts \cup {NoPercept}]
       /\ \A j \in Tasks : about[j] \in Percepts => about'[j] \in Percepts
       /\ k \in new => about'[k] \in Percepts
  <2>1. \A j \in Tasks : about[j] \in Percepts \cup {NoPercept}
      BY <1>2 DEF FlowTyped
  <2>2. k \in y.new => about[k] \in Percepts
      BY <1>1 DEF Submits
  <2>3. CASE about' = about
      BY <1>2, <1>7, <2>1, <2>2, <2>3 DEF FlowTyped
  <2>4. CASE about' = [about EXCEPT ![k] = Last(candidate[s]).percept]
      BY <1>2, <1>5, <2>4 DEF FlowTyped
  <2> QED
      BY <1>7, <2>3, <2>4
<1>13. FlowTyped'
  <2>1. active' \in [Situations -> Nat]
      BY <1>2, <1>4, <1>7 DEF FlowTyped
  <2>2. tick' \in [Ticks -> Tick]
      BY <1>2, <1>9, <1>10 DEF FlowTyped
  <2> QED
      BY <1>2, <1>3, <1>5, <1>12, <2>1, <2>2 DEF FlowTyped
<1>14. ActiveIsNewest'
  <2>1. ASSUME NEW j \in Tasks, task'[j] # "none"
        PROVE  j[2] <= active'[j[1]] /\ about'[j] \in Percepts
    <3>1. /\ j[2] <= active[j[1]] /\ about[j] \in Percepts /\ j[1] \in Situations
          /\ j[2] \in Nat
        BY <1>2, <1>3, <2>1, TaskIs DEF ActiveIsNewest
    <3>2. j[2] <= active'[j[1]]
      <4>1. CASE j[1] = s
          BY <1>4, <1>5, <1>11, <3>1, <4>1
      <4>2. CASE j[1] # s
          BY <1>11, <3>1, <4>2
      <4> QED
          BY <4>1, <4>2
    <3> QED
        BY <1>12, <3>1, <3>2
  <2>2. ASSUME NEW o \in Situations, active'[o] # 0
        PROVE  candidate[o] # <<>> /\ active'[o] <= Last(candidate[o]).snapshot
    <3>1. CASE o = s
        BY <1>4, <1>5, <1>11, <3>1
    <3>2. CASE o # s
        BY <1>2, <1>11, <2>2, <3>2 DEF ActiveIsNewest
    <3> QED
        BY <3>1, <3>2
  <2> QED
      BY <1>3, <2>1, <2>2 DEF ActiveIsNewest, intakeVars
<1>15. AtWorkIsActive'
  <2> SUFFICES ASSUME NEW j \in Tasks, task[j] \in {"QUEUED", "ADMITTED"}
               PROVE  j[2] = active'[j[1]]
      BY <1>3 DEF AtWorkIsActive
  <2>1. j[1] \in Situations /\ j[1] # s
      BY <1>5, TaskIs
  <2> QED
      BY <1>2, <1>11, <2>1 DEF AtWorkIsActive
<1>16. ProgressIsOfCompleted'
  <2>1. ASSUME NEW j \in Tasks, task[j] = "COMPLETED", j[2] < active'[j[1]]
        PROVE  Recorded(j[1], j[2])'
    <3>1. CASE j[1] = s
      <4>1. Recorded(s, j[2])'
          BY <1>5, <2>1, <3>1
      <4> QED
          BY <3>1, <4>1
    <3>2. CASE j[1] # s
      <4>1. j[1] \in Situations
          BY TaskIs
      <4>2. Recorded(j[1], j[2])
          BY <1>2, <1>11, <2>1, <3>2, <4>1 DEF ProgressIsOfCompleted
      <4> QED
          BY <1>5, <3>2, <4>1, <4>2 DEF Recorded
    <3> QED
        BY <3>1, <3>2
  <2>2. ASSUME NEW o \in Situations, NEW i \in DOMAIN progress'[o]
        PROVE  progress'[o][i] <= active'[o]
    <3>1. CASE o = s
      <4>1. progress'[s][i] <= active[s] /\ progress'[s][i] \in Nat
        <5>1. PICK u \in Seq(Nat) : u = progress'[s]
            BY <1>5
        <5>2. \A m \in DOMAIN u : u[m] \in Nat
            OBVIOUS
        <5> QED
            BY <1>5, <2>2, <3>1, <5>1, <5>2
      <4> QED
          BY <1>4, <1>5, <1>11, <3>1, <4>1
    <3>2. CASE o # s
        BY <1>2, <1>5, <1>11, <2>2, <3>2 DEF ProgressIsOfCompleted
    <3> QED
        BY <3>1, <3>2
  <2> QED
      BY <1>3, <2>1, <2>2 DEF ProgressIsOfCompleted
<1>17. StagesAreOfTasks'
    BY <1>2, <1>3 DEF StagesAreOfTasks
<1>18. TicksKeep'
  <2>1. tick'[t] = x /\ \A u \in Ticks \ {t} : tick'[u] = tick[u] /\ SameWork(u)
      BY <1>2, <1>10 DEF FlowTyped, SameWork
  <2>2. OnPage(t, y)
      BY <1>1, TickIs
  <2>3. OnPage(t, x)' /\ Works(x)' /\ Claims(t, x)'
      BY <1>1, <1>9, <2>1, <2>2 DEF OnPage, Works, Claims
  <2>4. Submits(x)'
    <3>1. \A o \in x.todo : o \in Situations /\ candidate[o] # <<>>
        BY <1>1, <1>9 DEF Submits
    <3>2. ASSUME NEW j \in new
          PROVE  /\ j[2] = active'[j[1]] /\ j[1] \notin x.todo /\ task[j] = "none"
                 /\ about'[j] \in Percepts
      <4>1. CASE j \in y.new
        <5>1. /\ j[2] = active[j[1]] /\ j[1] \notin y.todo /\ task[j] = "none"
              /\ about[j] \in Percepts
            BY <1>1, <4>1 DEF Submits
        <5>2. j \in Tasks /\ j[1] \in Situations /\ j[1] # s
            BY <1>1, <5>1, TaskIs
        <5> QED
            BY <1>9, <1>11, <1>12, <5>1, <5>2
      <4>2. CASE j \notin y.new
        <5>1. j = k /\ task[k] = "none"
            BY <1>7, <4>2
        <5> QED
            BY <1>6, <1>9, <1>11, <1>12, <5>1
      <4> QED
          BY <4>1, <4>2
    <3> QED
        BY <1>3, <1>9, <3>1, <3>2 DEF Submits, intakeVars
  <2>5. \A u \in Ticks \ {t} : tick[u].at # "page"
      BY <1>1, <2>2 DEF OnPage
  <2>6. Assigned' = Assigned /\ UNCHANGED <<candidate, stage, task>>
      BY <1>3 DEF Assigned, intakeVars
  <2> QED
      BY <1>2, <2>1, <2>3, <2>4, <2>5, <2>6, OneTickMoves DEF FlowIInv
<1> QED
    BY <1>2, <1>3, <1>5, <1>13, <1>14, <1>15, <1>16, <1>17, <1>18, IntakeStays
       DEF FlowIInv, FlowParts
-----------------------------------------------------------------------------
LEMMA FlowInitKeeps ==
    ASSUME Init
    PROVE  FlowIInv
<1>1. IntakeIInv
    BY IntakeInitKeeps DEF Init
<1>2. /\ \A k \in Tasks : task[k] = "none" /\ about[k] = NoPercept /\ stage[k] = 0
      /\ \A s \in Situations : active[s] = 0 /\ progress[s] = <<>>
      /\ \A t \in Ticks : tick[t] = IdleTick
    BY DEF Init
<1>3. <<>> \in Seq(Nat) /\ DOMAIN <<>> = {} /\ 0 \in 0 .. Persist /\ 0 \in 0 .. MaxFaults
    BY FlowAssumption DEF Persist
<1>4. FlowTyped
    BY <1>3, IdleTickIsIdle DEF Init, FlowTyped
<1>5. FlowParts
    BY <1>2, <1>3 DEF FlowParts, ActiveIsNewest, AtWorkIsActive, ProgressIsOfCompleted,
       StagesAreOfTasks, ProgressAdvances
<1>6. TicksKeep
    BY <1>2, IdleTickIsIdle DEF TicksKeep, OnPage, Submits, Works, Claims
<1> QED
    BY <1>1, <1>4, <1>5, <1>6 DEF FlowIInv

LEMMA FlowStutters ==
    ASSUME FlowIInv, UNCHANGED vars
    PROVE  FlowIInv'
<1>1. IntakeIInv' /\ UNCHANGED <<candidate, task, about, stage, active, progress, tick>>
    BY IntakeStays DEF vars, intakeVars, flowVars, FlowIInv
<1>2. FlowTyped'
    BY DEF vars, flowVars, FlowIInv, FlowTyped
<1> QED
    BY <1>1, <1>2, IntakeBesides, CandidatesStay DEF FlowIInv

LEMMA FlowNextKeeps ==
    ASSUME FlowIInv, Next
    PROVE  FlowIInv'
<1>1. CASE \E d \in Deliveries : Arrive(d) \/ DeliveryDies(d)
    BY <1>1, ArriveKeeps, DeliveryDiesKeeps
<1>2. CASE \E p \in Percepts : IntakeStep(p) /\ UNCHANGED flowVars
    BY <1>2, IntakeKeeps
<1>3. CASE \E t \in Ticks : Poll(t) \/ ObserveLate(t) \/ TickFails(t)
    BY <1>3, PollKeeps, ObserveLateKeeps, TickFailsKeeps
<1>4. ASSUME NEW t \in Ticks, TickStep(t) PROVE FlowIInv'
  <2>1. CASE \E s \in Situations : PassOver(t, s) \/ Submit(t, s)
      BY <2>1, PassOverKeeps, SubmitKeeps
  <2>2. CASE SavePage(t) \/ AdvanceCursor(t) \/ \E k \in Tasks : Take(t, k)
      BY <2>2, SavePageKeeps, AdvanceCursorKeeps, TakeKeeps
  <2>3. CASE Launch(t) \/ ObserveOutcome(t) \/ StageDone(t)
      BY <2>3, LaunchKeeps, ObserveOutcomeKeeps, StageDoneKeeps
  <2>4. CASE CompleteTask(t) \/ RecordProgress(t) \/ EndTick(t)
      BY <2>4, CompleteTaskKeeps, RecordProgressKeeps, EndTickKeeps
  <2> QED
      BY <1>4, <2>1, <2>2, <2>3, <2>4 DEF TickStep
<1> QED
    BY <1>1, <1>2, <1>3, <1>4 DEF Next

LEMMA FlowIsTyped ==
    ASSUME FlowIInv
    PROVE  TypeOK
<1>1. /\ FlowTyped /\ IntakeIInv /\ ActiveIsNewest /\ StagesAreOfTasks /\ IntakeTyped
    BY DEF FlowIInv, FlowParts, IntakeIInv
<1>2. ASSUME NEW k \in Tasks
      PROVE  /\ task[k] \in {"none", "QUEUED", "ADMITTED", "COMPLETED"}
             /\ stage[k] \in 0 .. Persist
             /\ task[k] = "COMPLETED" => stage[k] = Persist
             /\ stage[k] > 0 => about[k] \in Percepts
    BY <1>1 DEF FlowTyped, StagesAreOfTasks, ActiveIsNewest
<1>3. ASSUME NEW s \in Situations PROVE active[s] \in 0 .. Snapshots(s)
  <2>1. Snapshots(s) \in Nat /\ active[s] \in Nat
      BY <1>1, SnapshotFacts DEF FlowTyped
  <2>2. CASE active[s] = 0
      BY <2>1, <2>2
  <2>3. CASE active[s] # 0
    <3>1. candidate[s] # <<>> /\ active[s] <= Last(candidate[s]).snapshot
        BY <1>1, <2>3 DEF ActiveIsNewest
    <3>2. Last(candidate[s]).snapshot \in 1 .. Snapshots(s)
        BY <1>1, <3>1, LastCandidate
    <3> QED
        BY <2>1, <3>1, <3>2
  <2> QED
      BY <2>2, <2>3
<1>4. ASSUME NEW t \in Ticks
      PROVE  /\ tick[t].at \in {"idle", "page", "saved", "running", "stage", "executing",
                                "completed"}
             /\ tick[t].task \in Tasks \cup {NoTask} /\ tick[t].new \subseteq Tasks
  <2>1. tick[t] \in Tick
      BY <1>1 DEF FlowTyped
  <2> QED
      BY <2>1 DEF Tick, TickStates
<1>5. cursor \in Situations \cup {0} /\ late \subseteq Outcomes /\ faults \in 0 .. MaxFaults
    BY <1>1 DEF FlowTyped
<1> QED
    BY <1>1, <1>2, <1>3, <1>4, <1>5, IntakeIsTyped DEF TypeOK

(* Behind the active snapshot everything completed is recorded. *)
LEMMA NewerComesAfterRepair ==
    ASSUME FlowIInv
    PROVE  RepairedBeforeNewer
<1> SUFFICES ASSUME NEW k \in Tasks, NEW o \in Tasks, k[1] = o[1], k[2] < o[2],
                    task[k] = "COMPLETED", task[o] # "none"
             PROVE  Recorded(k[1], k[2])
    BY DEF RepairedBeforeNewer
<1>1. ActiveIsNewest /\ ProgressIsOfCompleted /\ FlowTyped
    BY DEF FlowIInv, FlowParts
<1>2. k[1] \in Situations /\ k[2] \in Nat /\ o[2] \in Nat /\ active[k[1]] \in Nat
    BY <1>1, TaskIs DEF FlowTyped
<1>3. o[2] <= active[k[1]]
    BY <1>1 DEF ActiveIsNewest
<1>4. k[2] < active[k[1]]
    BY <1>2, <1>3
<1> QED
    BY <1>1, <1>4 DEF ProgressIsOfCompleted

LEMMA OnlyActiveIsAtWork ==
    ASSUME FlowIInv
    PROVE  OneTaskAtWork
<1> SUFFICES ASSUME NEW k \in Tasks, NEW o \in Tasks, k[1] = o[1],
                    task[k] \in {"QUEUED", "ADMITTED"}, task[o] \in {"QUEUED", "ADMITTED"}
             PROVE  k = o
    BY DEF OneTaskAtWork
<1>1. k[2] = active[k[1]] /\ o[2] = active[o[1]]
    BY DEF FlowIInv, FlowParts, AtWorkIsActive
<1>2. k = <<k[1], k[2]>> /\ o = <<o[1], o[2]>>
    BY TaskIs
<1> QED
    BY <1>1, <1>2

(* In every behaviour, with any number of deliveries, ticks and deaths:      *)
(* when all intakes begun are finished the candidate of a situation is its   *)
(* latest snapshot, candidates only advance, and the observed state is the   *)
(* newest observation (ingest_percept, persist_situations, form_situation).  *)
THEOREM IntakeAdvances == Spec => []IntakeNeverGoesBack
<1>1. Init => FlowIInv
    BY FlowInitKeeps
<1>2. FlowIInv /\ [Next]_vars => FlowIInv'
    BY FlowNextKeeps, FlowStutters
<1>3. FlowIInv => IntakeNeverGoesBack
    BY CandidatesAreLatest DEF FlowIInv, IntakeIInv, IntakeParts, IntakeNeverGoesBack
<1> QED
    BY <1>1, <1>2, <1>3, PTL DEF Spec

(* Two ticks and any crash leave one task of a situation at work, record the *)
(* progress of a completed task before a newer one is in the scheduler, and  *)
(* move progress forward only (submit_situation_page, run_situation_task,    *)
(* _record_situation_progress).                                              *)
THEOREM SituationsAreWorkedOff == Spec => []OneSnapshotAtATime
<1>1. Init => FlowIInv
    BY FlowInitKeeps
<1>2. FlowIInv /\ [Next]_vars => FlowIInv'
    BY FlowNextKeeps, FlowStutters
<1>3. FlowIInv => OneSnapshotAtATime
    BY FlowIsTyped, NewerComesAfterRepair, OnlyActiveIsAtWork
       DEF FlowIInv, FlowParts, OneSnapshotAtATime
<1> QED
    BY <1>1, <1>2, <1>3, PTL DEF Spec
=============================================================================
