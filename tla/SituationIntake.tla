--------------------------- MODULE SituationIntake ---------------------------
(***************************************************************************)
(* Intake of observations that are not user prompts (percept_intake.py) and *)
(* the situations they are folded into (situations.py), on the immutable    *)
(* records of cognitive_store.py.                                           *)
(*                                                                          *)
(* A snapshot of a situation is formed from its predecessor under the lock  *)
(* of the situation, so its snapshots are a sequence and the n-th one stands *)
(* for its identity.  All observations are of one property, which leaves    *)
(* one observed state per snapshot.                                         *)
(***************************************************************************)
EXTENDS Naturals, Sequences, FiniteSets, SequencesExt

CONSTANTS
    Situations,     \* their order is the order of their keys
    Deliveries,     \* observations adapters deliver, again and again
    Refs,           \* situation_keys of each delivery
    ObservedAt,     \* observed_at of each delivery
    Surprising,     \* deliveries that differ from what is expected
    NoPercept,
    MaxSnapshots    \* bound on the snapshots of a situation

ASSUME IntakeAssumption ==
    /\ Situations \subseteq Nat \ {0} /\ IsFiniteSet(Situations)
    /\ Refs \in [Deliveries -> SUBSET Situations]
    /\ \A d \in Deliveries : Refs[d] # {}
    /\ ObservedAt \in [Deliveries -> Nat]
    /\ Surprising \subseteq Deliveries
    /\ NoPercept \notin Deliveries
    /\ MaxSnapshots \in Nat \ {0}

VARIABLES
    situation,      \* the revisions of each situation record
    ingest,         \* situation_ingest receipts: the snapshot, 0 without one
    candidate,      \* the revisions of each situation_candidate record
    receipted,      \* percepts with an intake_receipt
    intake          \* what the intake of each percept is doing

intakeVars == <<situation, ingest, candidate, receipted, intake>>

(* A task is a snapshot, and an action outcome is known by its task. *)
Tasks == Situations \X (1 .. MaxSnapshots)
Outcomes == Tasks
Percepts == Deliveries \cup Outcomes

Snapshots(s) == Len(situation[s])
Latest(s) == situation[s][Snapshots(s)]

(* intention["entity_refs"] of an outcome are the references of its task's  *)
(* situation.                                                               *)
KeysOf(p) == IF p \in Deliveries THEN Refs[p] ELSE situation[p[1]][p[2]].refs

IdleIntake == [at |-> "idle", todo |-> {}, got |-> [s \in Situations |-> 0]]

IntakeInit ==
    /\ situation = [s \in Situations |-> <<>>]
    /\ ingest = [s \in Situations |-> [p \in Percepts |-> 0]]
    /\ candidate = [s \in Situations |-> <<>>]
    /\ receipted = {}
    /\ intake = [p \in Percepts |-> IdleIntake]

IntakeTypeOK ==
    /\ \A s \in Situations :
          /\ Snapshots(s) \in 0 .. MaxSnapshots
          /\ \A n \in 1 .. Snapshots(s) :
                /\ situation[s][n].percept \in Percepts
                /\ situation[s][n].refs \subseteq Situations
          /\ \A p \in Percepts : ingest[s][p] \in 0 .. Snapshots(s)
          /\ \A i \in DOMAIN candidate[s] : candidate[s][i].snapshot \in 1 .. Snapshots(s)
    /\ receipted \subseteq Percepts
    /\ \A p \in Percepts :
          /\ intake[p].at \in {"idle", "folding", "written", "offering", "putting"}
          /\ intake[p].todo \subseteq Situations
-----------------------------------------------------------------------------
(* form_situation. *)

Newer(p, old) == p \in Deliveries /\ (old = NoPercept \/ ObservedAt[old] <= ObservedAt[p])

(* _recent keeps the first place of a repeated value. *)
Recent(ids, p) == IF Contains(ids, p) THEN ids ELSE Append(ids, p)

LatestArrivalWins(s, p) ==
    LET keys == KeysOf(p) IN
    IF situation[s] = <<>>
    THEN [percept |-> p, ids |-> <<p>>, refs |-> keys,
          state |-> IF p \in Deliveries THEN p ELSE NoPercept]
    ELSE [percept |-> p, ids |-> Recent(Latest(s).ids, p), refs |-> Latest(s).refs \cup keys,
          state |-> IF p \in Deliveries THEN p ELSE Latest(s).state]

(* A late observation does not replace the state a newer one has left. *)
FormSituation(s, p) ==
    LET keys == KeysOf(p) IN
    IF situation[s] = <<>>
    THEN [percept |-> p, ids |-> <<p>>, refs |-> keys,
          state |-> IF p \in Deliveries THEN p ELSE NoPercept]
    ELSE [percept |-> p, ids |-> Recent(Latest(s).ids, p), refs |-> Latest(s).refs \cup keys,
          state |-> IF Newer(p, Latest(s).state) THEN p ELSE Latest(s).state]

(* compare_expectation on the observed state. *)
PredictionError(s, n) == situation[s][n].state \in Surprising
-----------------------------------------------------------------------------
(* ingest_percept and persist_situations. *)

First(p) == CHOOSE s \in intake[p].todo : \A o \in intake[p].todo : s <= o

Done(p, s) == [intake EXCEPT ![p].at = IF @ = "written" THEN "folding" ELSE "offering",
                             ![p].todo = @ \ {s}]

SituationLocked(s, p) ==
    \E q \in Percepts \ {p} : intake[q].at = "written" /\ First(q) = s

CandidateLocked(s, p) ==
    \E q \in Percepts \ {p} : intake[q].at = "putting" /\ First(q) = s

(* The observation event is recorded under the lock of the intake; one that *)
(* has its receipt returns.                                                 *)
Deliver(p) ==
    /\ intake[p].at = "idle"
    /\ p \notin receipted
    /\ intake' = [intake EXCEPT ![p] = [IdleIntake EXCEPT !.at = "folding", !.todo = KeysOf(p)]]
    /\ UNCHANGED <<situation, ingest, candidate, receipted>>

(* A crash after the snapshot but before its receipt is recognised by the   *)
(* last percept of the snapshot.                                            *)
FoldSnapshot(p) ==
    LET s == First(p)
        again == situation[s] # <<>> /\ Last(Latest(s).ids) = p
    IN  /\ intake[p].at = "folding" /\ intake[p].todo # {}
        /\ ~SituationLocked(s, p)
        /\ ingest[s][p] = 0
        /\ again \/ Snapshots(s) < MaxSnapshots
        /\ situation' = IF again THEN situation
                        ELSE [situation EXCEPT ![s] = Append(@, FormSituation(s, p))]
        /\ intake' = [intake EXCEPT ![p].at = "written",
                                    ![p].got[s] = IF again THEN Snapshots(s) ELSE Snapshots(s) + 1]
        /\ UNCHANGED <<ingest, candidate, receipted>>

FoldReceipt(p) ==
    LET s == First(p)
    IN  /\ intake[p].at = "written"
        /\ ingest' = [ingest EXCEPT ![s][p] = intake[p].got[s]]
        /\ intake' = Done(p, s)
        /\ UNCHANGED <<situation, candidate, receipted>>

(* A fold that has its receipt is not repeated. *)
FoldedBefore(p) ==
    LET s == First(p)
    IN  /\ intake[p].at = "folding" /\ intake[p].todo # {}
        /\ ~SituationLocked(s, p)
        /\ ingest[s][p] # 0
        /\ intake' = [intake EXCEPT ![p].got[s] = ingest[s][p], ![p].todo = @ \ {s}]
        /\ UNCHANGED <<situation, ingest, candidate, receipted>>

Folded(p) ==
    /\ intake[p].at = "folding" /\ intake[p].todo = {}
    /\ intake' = [intake EXCEPT ![p].at = "offering", ![p].todo = KeysOf(p)]
    /\ UNCHANGED <<situation, ingest, candidate, receipted>>

OfferWithoutCheck(p) ==
    LET s == First(p)
    IN  /\ intake[p].at = "offering" /\ intake[p].todo # {}
        /\ ~CandidateLocked(s, p)
        /\ intake' = [intake EXCEPT ![p].at = "putting"]
        /\ UNCHANGED <<situation, ingest, candidate, receipted>>

(* "An older retry cannot replace a candidate built from newer evidence":   *)
(* the situation is read under the candidate's lock, not its own.           *)
CheckCurrent(p) ==
    LET s == First(p)
    IN  /\ intake[p].at = "offering" /\ intake[p].todo # {}
        /\ ~CandidateLocked(s, p)
        /\ intake' = IF Snapshots(s) = intake[p].got[s]
                     THEN [intake EXCEPT ![p].at = "putting"]
                     ELSE Done(p, s)
        /\ UNCHANGED <<situation, ingest, candidate, receipted>>

Offered(s, n) == {i \in DOMAIN candidate[s] : candidate[s][i].snapshot = n}

PutOnce(p) ==
    LET s == First(p)
        entry == [snapshot |-> intake[p].got[s], percept |-> p]
    IN  /\ intake[p].at = "putting"
        /\ IF Offered(s, entry.snapshot) # {}
           THEN intake' = [intake EXCEPT ![p] = IdleIntake] /\ UNCHANGED candidate
           ELSE candidate' = [candidate EXCEPT ![s] = Append(@, entry)] /\ intake' = Done(p, s)
        /\ UNCHANGED <<situation, ingest, receipted>>

(* put_record: the same revision with the same content adds nothing, with   *)
(* other content it is a conflict, and the call raises.                     *)
PutCandidate(p) ==
    LET s == First(p)
        entry == [snapshot |-> intake[p].got[s], percept |-> p]
    IN  /\ intake[p].at = "putting"
        /\ IF \E i \in Offered(s, entry.snapshot) : candidate[s][i] # entry
           THEN intake' = [intake EXCEPT ![p] = IdleIntake] /\ UNCHANGED candidate
           ELSE /\ candidate' = IF Offered(s, entry.snapshot) # {} THEN candidate
                                ELSE [candidate EXCEPT ![s] = Append(@, entry)]
                /\ intake' = Done(p, s)
        /\ UNCHANGED <<situation, ingest, receipted>>

ReceiptFirst(p) ==
    /\ intake[p].at = "offering"
    /\ receipted' = receipted \cup {p}
    /\ intake' = [intake EXCEPT ![p] = IdleIntake]
    /\ UNCHANGED <<situation, ingest, candidate>>

FinishIntake(p) ==
    /\ intake[p].at = "offering" /\ intake[p].todo = {}
    /\ receipted' = receipted \cup {p}
    /\ intake' = [intake EXCEPT ![p] = IdleIntake]
    /\ UNCHANGED <<situation, ingest, candidate>>

IntakeStep(p) ==
    \/ FoldSnapshot(p) \/ FoldReceipt(p) \/ FoldedBefore(p) \/ Folded(p)
    \/ CheckCurrent(p) \/ PutCandidate(p) \/ FinishIntake(p)

(* The process of an intake dies: its session gives the locks back. *)
IntakeDies(p) ==
    /\ intake[p].at # "idle"
    /\ intake' = [intake EXCEPT ![p] = IdleIntake]
    /\ UNCHANGED <<situation, ingest, candidate, receipted>>
-----------------------------------------------------------------------------
Started(p) == \E s \in Situations : \E n \in 1 .. Snapshots(s) : situation[s][n].percept = p

(* Once every percept that is in a situation has its receipt, the           *)
(* candidate the dispatcher sees is the latest snapshot, whatever order the *)
(* intakes of overlapping situations took and wherever one was interrupted. *)
CandidateIsLatest ==
    (\A p \in Percepts : Started(p) => p \in receipted)
        => \A s \in Situations : situation[s] # <<>> =>
              candidate[s] # <<>> /\ Last(candidate[s]).snapshot = Snapshots(s)

(* The candidate never moves back to an older snapshot.                     *)
CandidatesAdvance ==
    \A s \in Situations : \A i, j \in DOMAIN candidate[s] :
        i < j => candidate[s][i].snapshot < candidate[s][j].snapshot

(* "Late evidence remains canonical; it cannot replace a newer observation" *)
(* (situations.py): the observed state is the newest of the observations    *)
(* folded so far, in every order of arrival, retries included.              *)
NewestObservationStands ==
    \A s \in Situations : \A n \in 1 .. Snapshots(s) :
        \A m \in 1 .. n :
            situation[s][m].percept \in Deliveries =>
                /\ situation[s][n].state # NoPercept
                /\ ObservedAt[situation[s][n].state] >= ObservedAt[situation[s][m].percept]
=============================================================================
