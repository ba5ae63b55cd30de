--------------------------- MODULE SemanticMemory ---------------------------
(***************************************************************************)
(* What is believed of one property of one subject: consolidation.py reads  *)
(* a frozen page of situation records and turns every observation in it     *)
(* into evidence, and semantic_memory.py advances the current resolution    *)
(* with each piece of evidence under a lock of that property.               *)
(*                                                                          *)
(* A value and its validity interval make an assertion.  Two assertions may *)
(* hold the same value (another interval, or 1 and 1.0).  Times are small   *)
(* naturals and 0 stands for "none".                                        *)
(***************************************************************************)
EXTENDS Naturals, FiniteSets, FiniteSetsExt

CONSTANTS
    Assertions,     \* assertions about the subject and property
    ValueOf,        \* [Assertions -> the value and unit they state]
    ValidFrom,      \* [Assertions -> claim_valid_from]
    ValidUntil,     \* [Assertions -> claim_valid_until]
    Observations,   \* percepts that state an assertion
    AssertionOf,    \* [Observations -> Assertions]
    Relation,       \* [Observations -> {"SUPPORTS", "OPPOSES"}]
    ObservedAt,     \* [Observations -> observation times]
    Snapshots,      \* situation_ingest records, named by the order of their keys
    StatesIn,       \* [Snapshots -> the observations their situation holds]
    Consolidations, \* consolidation actions
    AfterKey,       \* [Consolidations -> the cursor they were scheduled with]
    PageSize,       \* HEAD_PAGE_SIZE
    Callers,        \* other callers of record_semantic_evidence
    Reports,        \* [Callers -> the observation they report]
    ResolvedAt,     \* [Consolidations \cup Callers -> their resolution time]
    Derivers,       \* worker processes
    None,           \* no assertion, job or worker
    MaxDeaths       \* bound on workers that die

Jobs == Consolidations \cup Callers

ASSUME SemanticAssumption ==
    /\ Snapshots \subseteq Nat \ {0} /\ IsFiniteSet(Snapshots)
    /\ IsFiniteSet(Observations)
    /\ ValidFrom \in [Assertions -> Nat] /\ ValidUntil \in [Assertions -> Nat]
    /\ ObservedAt \in [Observations -> Nat \ {0}]
    /\ AssertionOf \in [Observations -> Assertions]
    /\ Relation \in [Observations -> {"SUPPORTS", "OPPOSES"}]
    /\ StatesIn \in [Snapshots -> SUBSET Observations]
    /\ Reports \in [Callers -> Observations]
    /\ Consolidations \cap Callers = {}
    /\ ResolvedAt \in [Jobs -> Nat]
    /\ PageSize \in Nat \ {0}
    /\ MaxDeaths \in Nat
    /\ None \notin Assertions \cup Jobs \cup Derivers

VARIABLES
    ingested,   \* situation_ingest records in the store
    input,      \* consolidation_input: the keys an action froze
    stated,     \* semantic_assertion records
    evidence,   \* semantic_evidence records, by the observation they cite
    head,       \* the current semantic_resolution
    revisions,  \* every semantic_resolution ever put
    published,  \* jobs whose result is in the store
    lock,       \* holder of the advisory lock of the property
    deriver,    \* what each worker is doing
    deaths

semanticVars == <<ingested, input, stated, evidence, head, revisions,
                  published, lock, deriver, deaths>>

Support(status, candidates, selected, at) ==
    [status |-> status, candidates |-> candidates, selected |-> selected, at |-> at]

NoHead == Support("NONE", {}, None, 0)
Unknown == Support("UNKNOWN", {}, None, 0)
IdleDeriver == [at |-> "idle", job |-> None, todo |-> {}, seen |-> NoHead]

SemanticInit ==
    /\ ingested = {}
    /\ input = [c \in Consolidations |-> {}]
    /\ stated = {}
    /\ evidence = {}
    /\ head = NoHead
    /\ revisions = {}
    /\ published = {}
    /\ lock = None
    /\ deriver = [w \in Derivers |-> IdleDeriver]
    /\ deaths = 0
-----------------------------------------------------------------------------
(* The resolver. *)

OutOfForce(o, at) ==
    LET a == AssertionOf[o]
    IN  \/ ValidFrom[a] > at
        \/ ValidUntil[a] # 0 /\ at >= ValidUntil[a]

Unchanged(current) == IF current = NoHead THEN Unknown ELSE current

(* A mutant of AdvanceResolution: the latest arrival wins. *)
LatestArrivalWins(current, o, at) ==
    Support("ACCEPTED", {AssertionOf[o]}, AssertionOf[o], ObservedAt[o])

(* _advance_resolution: what one piece of evidence makes of the current      *)
(* resolution.                                                               *)
AdvanceResolution(current, o, at) ==
    LET a == AssertionOf[o]
        t == ObservedAt[o]
        supports == Relation[o] = "SUPPORTS"
        sameValue == current.selected # None /\ ValueOf[current.selected] = ValueOf[a]
    IN  IF OutOfForce(o, at) THEN Unchanged(current)
        ELSE IF supports /\ current.status = "ACCEPTED" /\ current.selected = a
        THEN [current EXCEPT !.at = Max({@, t})]
        ELSE IF ~supports
        THEN IF a \in current.candidates /\ t >= current.at
             THEN Support("AMBIGUOUS", current.candidates, None, t)
             ELSE Unchanged(current)
        ELSE IF t > current.at THEN Support("ACCEPTED", {a}, a, t)
        ELSE IF t < current.at THEN current
        ELSE IF current.status = "ACCEPTED" /\ sameValue
        THEN [current EXCEPT !.candidates = @ \cup {a}]
        ELSE IF a \in current.candidates THEN current
        ELSE Support("AMBIGUOUS", current.candidates \cup {a}, None, t)

(* _applies_at. *)
AppliesAt(o, valid) ==
    LET a == AssertionOf[o]
    IN  IF ValidFrom[a] # 0
        THEN ValidFrom[a] <= valid /\ (ValidUntil[a] # 0 => valid < ValidUntil[a])
        ELSE ObservedAt[o] <= valid

(* semantic_resolution_as_of over a set of evidence, everything known: the   *)
(* newest supported observations that apply, contested by an opposition that *)
(* is no older.                                                              *)
ResolutionAsOf(known, valid) ==
    LET applying == {o \in known : AppliesAt(o, valid)}
        supports == {o \in applying : Relation[o] = "SUPPORTS"}
        latest == Max({ObservedAt[o] : o \in supports})
        newest == {AssertionOf[o] : o \in {p \in supports : ObservedAt[p] = latest}}
        contested == \E o \in applying \ supports :
                        AssertionOf[o] \in newest /\ ObservedAt[o] >= latest
    IN  IF supports = {} THEN [status |-> "UNKNOWN", values |-> {}]
        ELSE [status |-> IF Cardinality({ValueOf[a] : a \in newest}) = 1 /\ ~contested
                         THEN "ACCEPTED" ELSE "AMBIGUOUS",
              values |-> {ValueOf[a] : a \in newest}]
-----------------------------------------------------------------------------
(* Situations arrive while consolidation runs; their keys are in no order.   *)
Ingest(k) ==
    /\ k \notin ingested
    /\ ingested' = ingested \cup {k}
    /\ UNCHANGED <<input, stated, evidence, head, revisions, published, lock, deriver, deaths>>

Becomes(w, d) == deriver' = [deriver EXCEPT ![w] = d]

(* list_records: the first PageSize keys after the cursor. *)
PageAfter(cursor) ==
    {k \in ingested : k > cursor
        /\ Cardinality({j \in ingested : j > cursor /\ j < k}) < PageSize}

(* A mutant of FreezeInput: a frozen page is taken for a finished one. *)
TakeFrozenForDone(w, c) ==
    LET page == PageAfter(AfterKey[c])
    IN  /\ deriver[w] = IdleDeriver
        /\ c \notin published
        /\ page # {}
        /\ input' = [input EXCEPT ![c] = IF @ # {} THEN @ ELSE page]
        /\ Becomes(w, [at |-> "next", job |-> c, seen |-> NoHead,
                       todo |-> IF input[c] # {} THEN {} ELSE UNION {StatesIn[k] : k \in page}])
        /\ UNCHANGED <<ingested, stated, evidence, head, revisions, published, lock, deaths>>

(* _load_or_create_consolidation_input and the unique states of the page: an *)
(* action that was interrupted reads the page it froze at first.  (An empty  *)
(* page derives nothing.)                                                    *)
FreezeInput(w, c) ==
    LET page == IF input[c] # {} THEN input[c] ELSE PageAfter(AfterKey[c])
    IN  /\ deriver[w] = IdleDeriver
        /\ c \notin published
        /\ page # {}
        /\ input' = [input EXCEPT ![c] = page]
        /\ Becomes(w, [at |-> "next", job |-> c, seen |-> NoHead,
                       todo |-> UNION {StatesIn[k] : k \in page}])
        /\ UNCHANGED <<ingested, stated, evidence, head, revisions, published, lock, deaths>>

(* Any other caller records one observation. *)
Report(w, c) ==
    /\ deriver[w] = IdleDeriver
    /\ c \notin published
    /\ Becomes(w, [at |-> "next", job |-> c, seen |-> NoHead, todo |-> {Reports[c]}])
    /\ UNCHANGED <<ingested, input, stated, evidence, head, revisions, published, lock, deaths>>

(* _record_page_semantic_evidence goes through the observations of a         *)
(* property by observation time.                                             *)
Earliest(todo) ==
    CHOOSE o \in todo : \A p \in todo : ObservedAt[o] <= ObservedAt[p]

(* A mutant of TakeLock: the lock does not exclude. *)
TakeWithoutWaiting(w) ==
    /\ deriver[w].at = "next" /\ deriver[w].todo # {}
    /\ lock' = w
    /\ Becomes(w, [deriver[w] EXCEPT !.at = "locked"])
    /\ UNCHANGED <<ingested, input, stated, evidence, head, revisions, published, deaths>>

(* record_lock: the advisory lock of the subject and property. *)
TakeLock(w) ==
    /\ deriver[w].at = "next" /\ deriver[w].todo # {}
    /\ lock = None
    /\ lock' = w
    /\ Becomes(w, [deriver[w] EXCEPT !.at = "locked"])
    /\ UNCHANGED <<ingested, input, stated, evidence, head, revisions, published, deaths>>

(* A mutant of PutAssertion: the evidence goes without its assertion. *)
PutNoAssertion(w) ==
    /\ deriver[w].at = "locked"
    /\ Becomes(w, [deriver[w] EXCEPT !.at = "asserted"])
    /\ UNCHANGED <<ingested, input, stated, evidence, head, revisions, published, lock, deaths>>

(* The assertion, once. *)
PutAssertion(w) ==
    /\ deriver[w].at = "locked"
    /\ stated' = stated \cup {AssertionOf[Earliest(deriver[w].todo)]}
    /\ Becomes(w, [deriver[w] EXCEPT !.at = "asserted"])
    /\ UNCHANGED <<ingested, input, evidence, head, revisions, published, lock, deaths>>

(* The evidence, once; a retry finds an equal record. *)
PutEvidence(w) ==
    /\ deriver[w].at = "asserted"
    /\ evidence' = evidence \cup {Earliest(deriver[w].todo)}
    /\ Becomes(w, [deriver[w] EXCEPT !.at = "resolving", !.seen = head])
    /\ UNCHANGED <<ingested, input, stated, head, revisions, published, lock, deaths>>

(* The name of a resolution record and what it says. *)
Revision(o, state, by, over) == [trigger |-> o, state |-> state, by |-> by, supersedes |-> over]

(* _persist_resolution and the release of the lock: a new resolution only    *)
(* when the state differs from the current one.                              *)
PersistResolution(w) ==
    LET d == deriver[w]
        o == Earliest(d.todo)
        state == AdvanceResolution(d.seen, o, ResolvedAt[d.job])
    IN  /\ d.at = "resolving"
        /\ IF state = head
           THEN UNCHANGED <<head, revisions>>
           ELSE /\ head' = state
                /\ revisions' = revisions \cup {Revision(o, state, d.job, head)}
        /\ lock' = IF lock = w THEN None ELSE lock
        /\ Becomes(w, [d EXCEPT !.at = "next", !.todo = @ \ {o}, !.seen = NoHead])
        /\ UNCHANGED <<ingested, input, stated, evidence, published, deaths>>

(* consolidate_page puts its result when every observation is recorded. *)
Publish(w) ==
    /\ deriver[w].at = "next" /\ deriver[w].todo = {}
    /\ published' = published \cup {deriver[w].job}
    /\ Becomes(w, IdleDeriver)
    /\ UNCHANGED <<ingested, input, stated, evidence, head, revisions, lock, deaths>>

(* A mutant of DeriverDies: the lock outlives the session. *)
DieHoldingLock(w) ==
    /\ deriver[w] # IdleDeriver
    /\ deaths < MaxDeaths
    /\ deaths' = deaths + 1
    /\ Becomes(w, IdleDeriver)
    /\ UNCHANGED <<ingested, input, stated, evidence, head, revisions, published, lock>>

(* The worker dies and its session gives the lock back; what it put stays.   *)
DeriverDies(w) ==
    /\ deriver[w] # IdleDeriver
    /\ deaths < MaxDeaths
    /\ deaths' = deaths + 1
    /\ lock' = IF lock = w THEN None ELSE lock
    /\ Becomes(w, IdleDeriver)
    /\ UNCHANGED <<ingested, input, stated, evidence, head, revisions, published>>

DeriverStep(w) ==
    \/ \E c \in Consolidations : FreezeInput(w, c)
    \/ \E c \in Callers : Report(w, c)
    \/ TakeLock(w)
    \/ PutAssertion(w)
    \/ PutEvidence(w)
    \/ PersistResolution(w)
    \/ Publish(w)

SemanticNext ==
    \/ \E k \in Snapshots : Ingest(k)
    \/ \E w \in Derivers : DeriverStep(w) \/ DeriverDies(w)
-----------------------------------------------------------------------------
SemanticTypeOK ==
    /\ ingested \subseteq Snapshots
    /\ input \in [Consolidations -> SUBSET Snapshots]
    /\ stated \subseteq Assertions
    /\ evidence \subseteq Observations
    /\ head.candidates \subseteq stated
    /\ head.selected \in head.candidates \cup {None}
    /\ (head.status = "ACCEPTED") <=> (head.selected # None)
    /\ published \subseteq Jobs
    /\ lock \in Derivers \cup {None}
    /\ \A w \in Derivers : deriver[w].todo \subseteq Observations
    /\ deaths \in 0 .. MaxDeaths

(* The observations a job goes through. *)
WorkOf(job) ==
    IF job \in Consolidations THEN UNION {StatesIn[k] : k \in input[job]} ELSE {Reports[job]}

(* Every piece of evidence is of some job that got to its end.  Evidence of  *)
(* a job that died before the resolution was advanced waits for its retry.   *)
EvidenceIsProcessed == \A o \in evidence : \E job \in published : o \in WorkOf(job)

PlainEvidence ==
    \A o \in evidence :
        Relation[o] = "SUPPORTS" /\ ValidFrom[AssertionOf[o]] = 0 /\ ValidUntil[AssertionOf[o]] = 0

Latest == Max({ObservedAt[o] : o \in Observations})

(* Whatever the pages, the order they were processed in, the workers that    *)
(* shared them, still do or died between two steps: the resolution that the  *)
(* incremental resolver kept is the one semantic_resolution_as_of computes   *)
(* from all the evidence, its status and the values at stake.                *)
ResolutionConverges ==
    EvidenceIsProcessed /\ PlainEvidence =>
        LET full == ResolutionAsOf(evidence, Latest)
        IN  IF head = NoHead THEN evidence = {}
            ELSE /\ head.status = full.status
                 /\ {ValueOf[a] : a \in head.candidates} = full.values

(* The result of a consolidation is put when every observation of the page   *)
(* it froze is evidence, and never for a page that moved under it.           *)
PublishedPageIsEvidence ==
    \A c \in Consolidations \cap published :
        WorkOf(c) \subseteq evidence

(* A resolution that was superseded never comes back: the identifier of a    *)
(* resolution record, its trigger and its state, is never used for two       *)
(* records, which put_record would refuse for ever.                          *)
ResolutionIdIsUnique ==
    \A r, s \in revisions : r.trigger = s.trigger /\ r.state = s.state => r = s

(* A consolidation that froze its page ends with a result: no lock stays     *)
(* with a dead worker and no retry meets a record it cannot accept.          *)
EveryJobPublishes ==
    \A c \in Consolidations : (input[c] # {}) ~> (c \in published)

SemanticFairness == \A w \in Derivers : WF_semanticVars(DeriverStep(w))
SemanticSpec == SemanticInit /\ [][SemanticNext]_semanticVars /\ SemanticFairness

(* What is believed is what the evidence says, however it came in: the head  *)
(* converges, a published page is evidence throughout, and no name of a      *)
(* resolution is used twice.                                                 *)
FactsFollowEvidence ==
    SemanticTypeOK /\ ResolutionConverges /\ PublishedPageIsEvidence /\ ResolutionIdIsUnique
=============================================================================
