-------------------------- MODULE MemoryProjection --------------------------
(***************************************************************************)
(* The disposable memory projections and how recall keeps them fresh        *)
(* (jit_memory.py, projection_freshness.py, postgres_memory_kernel.py,      *)
(* association_projection.py).  Canonical events are numbered by their      *)
(* global_seq, which an INSERT allocates and a later COMMIT makes visible:  *)
(* two writers may commit in the other order.                               *)
(*                                                                          *)
(* All events have one source, one concept and one entity; what a rule      *)
(* tells apart is which events mention the concept, which are a change of   *)
(* it, and which leave something open or resolve it.  Every statement of a  *)
(* recall sees what is committed by then; the statements of one transaction *)
(* that write are one step.                                                 *)
(***************************************************************************)
EXTENDS Naturals, FiniteSetsExt

CONSTANTS
    LastSeq,        \* events are 1 .. LastSeq
    Mentions,       \* events that mention the concept
    Changes,        \* events with a change phrase
    Unresolved,     \* events with an unresolved phrase
    Resolved,       \* events with a resolved phrase
    MaxHops,        \* bound on spreading activation
    Recalls         \* concurrent recalls

Seqs == 1 .. LastSeq

ASSUME ProjectionAssumption ==
    /\ LastSeq \in Nat \ {0} /\ MaxHops \in Nat
    /\ Mentions \cup Changes \cup Unresolved \cup Resolved \subseteq Seqs

VARIABLES
    allocated,  \* events inserted and not yet committed
    visible,    \* committed events
    late,       \* events that committed after an event of a higher number
    undone,     \* a rebuild has replaced rows of events it had not loaded
    lexical,    \* events with a lexical row
    features,   \* events with an association_features row
    edges,      \* memory_association_entries
    recall      \* [Recalls -> where each is in _ensure_projection_fresh]

projectionVars == <<allocated, visible, late, undone, lexical, features, edges, recall>>

NoRecall == [at |-> "idle", cut |-> 0, target |-> 0, mark |-> 0, found |-> {}]

HighWater(S) == IF S = {} THEN 0 ELSE Max(S)

(* The database may hold lexical rows of a version that kept no features. *)
ProjectionInit ==
    /\ allocated = {}
    /\ visible \in {{}, {1}}
    /\ late = {}
    /\ undone = FALSE
    /\ lexical \in SUBSET visible
    /\ features = {}
    /\ edges = {}
    /\ recall = [r \in Recalls |-> NoRecall]
-----------------------------------------------------------------------------
(* record_event, as far as the numbers go. *)
InsertEvent ==
    LET e == HighWater(allocated \cup visible) + 1 IN
    /\ e \in Seqs
    /\ allocated' = allocated \cup {e}
    /\ UNCHANGED <<visible, late, undone, lexical, features, edges, recall>>

CommitEvent(e) ==
    /\ e \in allocated
    /\ allocated' = allocated \ {e}
    /\ visible' = visible \cup {e}
    /\ late' = IF e < HighWater(visible) THEN late \cup {e} ELSE late
    /\ UNCHANGED <<undone, lexical, features, edges, recall>>
-----------------------------------------------------------------------------
(* The rules.  A change leads to the latest earlier mention of its concept,  *)
(* the latest open matter to what resolves it.                               *)
PreviousState(e, S) ==
    IF e \in Changes \cap Mentions THEN {p \in S : p < e /\ p \in Mentions} ELSE {}

PreviousUnresolved(e, S) ==
    IF e \in Resolved THEN {p \in S : p < e /\ p \in Unresolved} ELSE {}

EdgesOf(e, S) ==
    LET before == PreviousState(e, S)
        open == PreviousUnresolved(e, S)
    IN  (IF before = {} THEN {} ELSE {<<e, Max(before)>>})
        \cup (IF open = {} THEN {} ELSE {<<Max(open), e>>})

DeriveAssociations(S) == UNION {EdgesOf(e, S) : e \in S}

(* load_reachable_associations: events reached from a seed by edges both     *)
(* whose ends lie before the boundary.                                       *)
(* A mutant of Crosses: only the source's end is looked at. *)
CrossesAtSource(edge, cut) == edge[1] >= cut

Crosses(edge, cut) == edge[1] >= cut \/ edge[2] >= cut

Spread(usable, seed) ==
    LET After[n \in 0 .. MaxHops] ==
            IF n = 0 THEN {seed}
            ELSE After[n - 1] \cup {edge[2] : edge \in {x \in usable : x[1] \in After[n - 1]}}
    IN  After[MaxHops]

Reachable(E, seed, cut) == Spread({x \in E : ~Crosses(x, cut)}, seed)
-----------------------------------------------------------------------------
(* _ensure_projection_fresh, one statement after the other. *)
Stop(r) == recall' = [recall EXCEPT ![r] = NoRecall]

(* canonical_high_water below the boundary. *)
ReadTarget(r, cut) ==
    LET target == HighWater({e \in visible : e < cut}) IN
    /\ recall[r].at = "idle"
    /\ target > 0
    /\ recall' = [recall EXCEPT ![r] = [NoRecall EXCEPT !.at = "marks", !.cut = cut, !.target = target]]
    /\ UNCHANGED <<allocated, visible, late, undone, lexical, features, edges>>

(* committed_projection_high_waters: marks that disagree call for a rebuild. *)
ReadMarks(r) ==
    LET mark == HighWater(lexical) IN
    /\ recall[r].at = "marks"
    /\ \/ mark # HighWater(features) /\ recall' = [recall EXCEPT ![r].at = "rebuild"]
       \/ mark = HighWater(features) /\ mark >= recall[r].target /\ Stop(r)
       \/ /\ mark = HighWater(features) /\ mark < recall[r].target
          /\ recall' = [recall EXCEPT ![r].at = "delta", ![r].mark = mark]
    /\ UNCHANGED <<allocated, visible, late, undone, lexical, features, edges>>

(* A mutant of Delta: an event right above the mark is left out. *)
DeltaAboveNext(r) == {e \in visible : e > recall[r].mark + 1 /\ e < recall[r].cut}

Delta(r) == {e \in visible : e > recall[r].mark /\ e < recall[r].cut}

(* load_event_delta: the call fails when it does not end at the target. *)
LoadDelta(r) ==
    /\ recall[r].at = "delta"
    /\ IF HighWater(Delta(r)) = recall[r].target
       THEN recall' = [recall EXCEPT ![r].at = "apply", ![r].found = Delta(r)]
       ELSE Stop(r)
    /\ UNCHANGED <<allocated, visible, late, undone, lexical, features, edges>>

(* A mutant of DeriveIncremental: predecessors are sought before the delta's *)
(* own features are written.                                                 *)
DeriveBeforeInsert(delta) == UNION {EdgesOf(e, features) : e \in delta}

(* derive_incremental_associations, over the features including the delta's. *)
DeriveIncremental(delta) == UNION {EdgesOf(e, features \cup delta) : e \in delta}

(* Rows and edges of the delta are committed together; what another recall   *)
(* has written already stays as it is.                                       *)
ApplyDelta(r) ==
    /\ recall[r].at = "apply"
    /\ lexical' = lexical \cup recall[r].found
    /\ features' = features \cup recall[r].found
    /\ edges' = edges \cup DeriveIncremental(recall[r].found)
    /\ Stop(r)
    /\ UNCHANGED <<allocated, visible, late, undone>>

(* rebuild: every event is loaded, and then everything derived is replaced. *)
RebuildLoad(r) ==
    /\ recall[r].at = "rebuild"
    /\ recall' = [recall EXCEPT ![r].at = "replace", ![r].found = visible]
    /\ UNCHANGED <<allocated, visible, late, undone, lexical, features, edges>>

RebuildReplace(r) ==
    /\ recall[r].at = "replace"
    /\ lexical' = recall[r].found
    /\ features' = recall[r].found
    /\ edges' = DeriveAssociations(recall[r].found)
    /\ undone' = (undone \/ ~(lexical \subseteq recall[r].found))
    /\ Stop(r)
    /\ UNCHANGED <<allocated, visible, late>>

(* The operator may rebuild at any time; a recall may fail or die anywhere,  *)
(* and its transaction is rolled back.                                       *)
OperatorRebuild(r) ==
    /\ recall[r].at = "idle"
    /\ recall' = [recall EXCEPT ![r].at = "rebuild"]
    /\ UNCHANGED <<allocated, visible, late, undone, lexical, features, edges>>

RecallDies(r) ==
    /\ recall[r].at # "idle"
    /\ Stop(r)
    /\ UNCHANGED <<allocated, visible, late, undone, lexical, features, edges>>

Freshen(r) ==
    \/ ReadMarks(r) \/ LoadDelta(r) \/ ApplyDelta(r) \/ RebuildLoad(r) \/ RebuildReplace(r)

ProjectionNext ==
    \/ InsertEvent
    \/ \E e \in allocated : CommitEvent(e)
    \/ \E r \in Recalls :
          \/ \E cut \in 2 .. LastSeq + 1 : ReadTarget(r, cut)
          \/ Freshen(r) \/ OperatorRebuild(r) \/ RecallDies(r)
-----------------------------------------------------------------------------
ProjectionSpec == ProjectionInit /\ [][ProjectionNext]_projectionVars

MarksAgree == HighWater(lexical) = HighWater(features)

(* The high-water mark does not lie: when the two marks agree, every event   *)
(* below them that committed in the order of the numbers has its rows,       *)
(* whichever recalls overlapped, failed or died - as long as no rebuild took *)
(* away rows that a recall had added since it loaded the events.             *)
NothingMissed ==
    ~undone /\ MarksAgree =>
        \A e \in visible \ late : e <= HighWater(lexical) => e \in lexical \cap features

(* What was derived piece by piece is what a rebuild would derive, as long   *)
(* as no event committed late and no rebuild undid a recall's work.          *)
EdgesAreDerived ==
    ~undone /\ late = {} /\ MarksAgree => edges = DeriveAssociations(lexical)

(* A recall bounded to the past reaches what it would have reached then: a   *)
(* projection of the whole ledger leads it to nothing that did not yet exist *)
(* ("must never reveal evidence newer than the caller's cutoff").            *)
RecallRespectsBoundary ==
    ~undone /\ late = {} /\ MarksAgree =>
        \A cut \in Seqs : \A seed \in {e \in lexical : e < cut} :
            Reachable(edges, seed, cut)
                = Reachable(DeriveAssociations({e \in lexical : e < cut}), seed, LastSeq + 1)

(* The projection that recall reads is the ledger's: no row is missed below  *)
(* the marks, its edges are those a rebuild derives, and a bounded recall    *)
(* reaches nothing newer than its bound.                                     *)
RecallIsFaithful == NothingMissed /\ EdgesAreDerived /\ RecallRespectsBoundary
=============================================================================
