----------------------------- MODULE SelfMemory -----------------------------
(***************************************************************************)
(* Self memory: representations of the person that reflection proposes over *)
(* the evidence of a consolidation, reviews against counterevidence and     *)
(* resolves under rules of the application (self_memory.py,                 *)
(* self_reflection.py and the SELF_PROPOSE and SELF_REVIEW stages of        *)
(* situation_worker.py), the predictions made from them, and the self       *)
(* context that an interaction activates.                                   *)
(*                                                                          *)
(* The situation pipeline runs one task at a time, so one process reflects; *)
(* the judge of a prediction and the heir of a schema run beside it, and    *)
(* record evidence as the reflection does, by a check and a put that no     *)
(* lock keeps together.  What the model proposes and objects is given by    *)
(* Script and Objections: the text of a statement is its representation,    *)
(* and representations are numbered by the order of their keys, canonical   *)
(* events by global_seq.                                                    *)
(***************************************************************************)
EXTENDS Naturals, Sequences, FiniteSets, FiniteSetsExt

CONSTANTS
    Reps,           \* self representations that may be proposed
    Generalized,    \* those of a generalized kind
    SelfReported,   \* those of a direct self-report perspective
    Slow,           \* those of slow or very slow plasticity
    LastRoot,       \* bound: canonical root events are 1 .. LastRoot
    UserPrompts,    \* roots that are user prompts
    Eligible,       \* roots that may seed identity
    Tags,           \* context tags: situations, and what a prediction names
    Reflections,    \* consolidations that reach the reflection stages
    ContextRefs,    \* [Reflections -> [Roots -> situations of the frozen page]]
    Script,         \* [Reflections -> the proposals of the model, in order]
    Objections,     \* [Reflections -> the roots the reviewer objects with]
    Parents,        \* [Reps -> the representations it is derived from]
    Predictions,    \* predictions, named by the representation they test
    PredictionTags, \* [Predictions -> the tags their caller gave them]
    Interactions,
    Matches,        \* [Interactions -> the representations its words match]
    Related,        \* [Interactions -> those about its entities]
    Limit,          \* MAX_SELF_CONTEXT_ITEMS
    MaxCore,        \* MAX_CORE_SELF_ITEMS
    MaxRoutes,      \* SELF_ROOT_CANDIDATE_LIMIT
    MaxInterrupts   \* bound: stages that fail or processes that die

Roots == 1 .. LastRoot
Centralities == 0 .. 2
Recorders == {"mind", "judge", "heir"}
Proposals == [rep : Reps, support : SUBSET Roots, centrality : Centralities]

ASSUME SelfAssumption ==
    /\ Reps \subseteq Nat \ {0} /\ IsFiniteSet(Reps)
    /\ LastRoot \in Nat
    /\ Generalized \subseteq Reps /\ SelfReported \subseteq Reps /\ Slow \subseteq Reps
    /\ UserPrompts \subseteq Roots /\ Eligible \subseteq Roots
    /\ IsFiniteSet(Tags)
    /\ Predictions \subseteq Reps /\ PredictionTags \in [Predictions -> SUBSET Tags]
    /\ Parents \in [Reps -> SUBSET Reps]
    /\ Reflections \subseteq Nat \ {0}
    /\ ContextRefs \in [Reflections -> [Roots -> SUBSET Tags]]
    /\ Objections \in [Reflections -> SUBSET Roots]
    /\ Script \in [Reflections -> Seq(Proposals)]
    /\ {Matches, Related} \subseteq [Interactions -> SUBSET Reps]
    /\ Limit \in Nat \ {0} /\ MaxCore \in Nat /\ MaxRoutes \in Nat /\ MaxInterrupts \in Nat

VARIABLES
    arrived,    \* global_seq of the last canonical root event
    links,      \* self_evidence records
    unrecorded, \* [Recorders -> the evidence still to record]
    inflight,   \* [Recorders -> the one checked and not yet put]
    overlap,    \* history: roots whose two sides were in flight at once
    known,      \* self_representation records
    standing,   \* the current self_resolution of each representation
    rulings,    \* every self_resolution ever put
    reflection, \* stage of each consolidation
    cutoff,     \* before_global_seq of its task
    mind,       \* the process that reflects
    prediction, \* self_prediction records
    judge,      \* the process that resolves a prediction
    heir,       \* the derivations whose parent's roots are still to be read
    interrupts

recorderVars == <<unrecorded, inflight, overlap>>
selfVars == <<arrived, links, recorderVars, known, standing, rulings, reflection, cutoff, mind,
              prediction, judge, heir, interrupts>>
evidenceVars == <<links, recorderVars>>
mindVars == <<reflection, cutoff, mind>>
otherVars == <<prediction, judge, heir>>

Link(r, root, relation, origin, tags) ==
    [rep |-> r, root |-> root, relation |-> relation, origin |-> origin, tags |-> tags]

NoMetrics == [support |-> 0, opposition |-> 0, contexts |-> 0, confirmed |-> 0, contradicted |-> 0]
NoStanding == [status |-> "NONE", centrality |-> 0, metrics |-> NoMetrics, checked |-> FALSE]
IdleMind == [at |-> "idle", task |-> 0, next |-> 1]
NoPrediction == [outcome |-> "none", cutoff |-> 0, root |-> 0]
IdleJudge == [at |-> "idle", rep |-> 0, asked |-> NoStanding]

SelfInit ==
    /\ arrived = 0
    /\ links = {} /\ overlap = {}
    /\ unrecorded = [w \in Recorders |-> {}] /\ inflight = [w \in Recorders |-> {}]
    /\ known = {}
    /\ standing = [r \in Reps |-> NoStanding]
    /\ rulings = {}
    /\ reflection = [c \in Reflections |-> "propose"]
    /\ cutoff = [c \in Reflections |-> 0]
    /\ mind = IdleMind
    /\ prediction = [p \in Predictions |-> NoPrediction]
    /\ judge = IdleJudge
    /\ heir = {}
    /\ interrupts = 0
-----------------------------------------------------------------------------
(* The evidence of a representation. *)

Linked(r, relation) == {l.root : l \in {k \in links : k.rep = r /\ k.relation = relation}}

Opposite(relation) == IF relation = "SUPPORTS" THEN "OPPOSES" ELSE "SUPPORTS"

(* record_self_evidence refuses a report that is not the person's own and a  *)
(* root that already stands on the other side ...                            *)
Admissible(link) ==
    /\ link.relation = "SUPPORTS" /\ link.rep \in SelfReported => link.root \in UserPrompts
    /\ link.root \notin Linked(link.rep, Opposite(link.relation))

(* A mutant of CheckSelfEvidence: the other side is not looked at. *)
CheckReportOnly(w) ==
    /\ inflight[w] = {}
    /\ \E link \in unrecorded[w] :
          /\ link.relation = "SUPPORTS" /\ link.rep \in SelfReported => link.root \in UserPrompts
          /\ unrecorded' = [unrecorded EXCEPT ![w] = @ \ {link}]
          /\ inflight' = [inflight EXCEPT ![w] = {link}]
    /\ UNCHANGED <<arrived, links, overlap, known, standing, rulings, mindVars, otherVars, interrupts>>

CheckSelfEvidence(w) ==
    /\ inflight[w] = {}
    /\ \E link \in unrecorded[w] :
          /\ Admissible(link)
          /\ unrecorded' = [unrecorded EXCEPT ![w] = @ \ {link}]
          /\ inflight' = [inflight EXCEPT ![w] = {link}]
          /\ overlap' = overlap \cup
                {<<k.rep, k.root>> : k \in {l \in UNION {inflight[v] : v \in Recorders} :
                    /\ l.rep = link.rep /\ l.root = link.root
                    /\ l.relation = Opposite(link.relation)}}
    /\ UNCHANGED <<arrived, links, known, standing, rulings, mindVars, otherVars, interrupts>>

(* ... and puts the record in a later statement, with the tags it was given. *)
PutSelfEvidence(w) ==
    /\ inflight[w] # {}
    /\ links' = links \cup inflight[w]
    /\ inflight' = [inflight EXCEPT ![w] = {}]
    /\ UNCHANGED <<arrived, unrecorded, overlap, known, standing, rulings, mindVars, otherVars, interrupts>>

Recorded(w) == unrecorded[w] = {} /\ inflight[w] = {}

(* The process of a recorder is gone, with what it had still to record. *)
Drop(w) ==
    /\ unrecorded' = [unrecorded EXCEPT ![w] = {}]
    /\ inflight' = [inflight EXCEPT ![w] = {}]
    /\ UNCHANGED overlap

Outcomes(r, outcome) ==
    IF r \in Predictions /\ prediction[r].outcome = outcome THEN 1 ELSE 0

SupportTags(r) == UNION {l.tags : l \in {k \in links : k.rep = r /\ k.relation = "SUPPORTS"}}

(* _evidence_metrics: distinct roots, and the tags stored with the support.  *)
EvidenceMetrics(r) ==
    [support |-> Cardinality(Linked(r, "SUPPORTS")),
     opposition |-> Cardinality(Linked(r, "OPPOSES")),
     contexts |-> Cardinality(SupportTags(r)),
     confirmed |-> Outcomes(r, "CONFIRMED"),
     contradicted |-> Outcomes(r, "CONTRADICTED")]

(* A mutant of Verdict: opposition does not count once there is support. *)
VerdictBySupport(r, requested) ==
    LET m == EvidenceMetrics(r)
    IN  IF requested # "ESTABLISHED" THEN requested
        ELSE IF r \in Generalized \ SelfReported /\ m.support < 2 THEN "CANDIDATE"
        ELSE IF r \in Slow \ SelfReported /\ m.contexts < 2 THEN "CANDIDATE"
        ELSE "ESTABLISHED"

(* The rules of resolve_self_representation on a request to establish. *)
Verdict(r, requested) ==
    LET m == EvidenceMetrics(r)
    IN  IF requested # "ESTABLISHED" THEN requested
        ELSE IF m.opposition > 0 THEN "CONTESTED"
        ELSE IF r \in Generalized \ SelfReported /\ m.support < 2 THEN "CANDIDATE"
        ELSE IF r \in Slow \ SelfReported /\ m.contexts < 2 THEN "CANDIDATE"
        ELSE "ESTABLISHED"

(* resolve_self_representation, under the lock of the representation: the    *)
(* state it puts, and the record; put_record refuses a record whose name,    *)
(* the state and the time of the reflection, was used with another           *)
(* predecessor.                                                              *)
Ruling(r, state, at, over) == [rep |-> r, state |-> state, at |-> at, over |-> over]

Resolve(r, requested, centrality, checked, at) ==
    LET state == [status |-> Verdict(r, requested), centrality |-> centrality,
                  metrics |-> EvidenceMetrics(r), checked |-> checked]
        ruling == Ruling(r, state, at, standing[r])
    IN  /\ requested = "ESTABLISHED" => checked /\ Linked(r, "SUPPORTS") \cup Linked(r, "OPPOSES") # {}
        /\ state # standing[r] =>
              \A old \in rulings : old.rep = r /\ old.state = state /\ old.at = at => old = ruling
        /\ standing' = [standing EXCEPT ![r] = state]
        /\ rulings' = IF state = standing[r] THEN rulings ELSE rulings \cup {ruling}
-----------------------------------------------------------------------------
(* Canonical events arrive; a task reads those before its cutoff.            *)
Arrive ==
    /\ arrived < LastRoot
    /\ arrived' = arrived + 1
    /\ UNCHANGED <<evidenceVars, known, standing, rulings, mindVars, otherVars, interrupts>>

(* SELF_PROPOSE.  collect_consolidation_evidence: the eligible roots of the  *)
(* frozen page with the situations that name them; without any root the      *)
(* stages are skipped.                                                       *)
Evidence(c) == {root \in Eligible : ContextRefs[c][root] # {}}

StartReflection(c) ==
    /\ mind = IdleMind
    /\ reflection[c] = "propose"
    /\ \A d \in Reflections : d < c => reflection[d] = "done"
    /\ Evidence(c) \subseteq 1 .. arrived
    /\ cutoff' = [cutoff EXCEPT ![c] = IF @ = 0 THEN arrived ELSE @]
    /\ IF Evidence(c) = {} \/ Script[c] = <<>>
       THEN /\ reflection' = [reflection EXCEPT ![c] = "done"]
            /\ UNCHANGED mind
       ELSE /\ mind' = [at |-> "propose", task |-> c, next |-> 1]
            /\ UNCHANGED reflection
    /\ UNCHANGED <<arrived, evidenceVars, known, standing, rulings, otherVars, interrupts>>

Proposal == Script[mind.task][mind.next]
ProposedSupport ==
    {Link(Proposal.rep, root, "SUPPORTS", "DIRECT", ContextRefs[mind.task][root]) :
        root \in Proposal.support}

(* A mutant of EnsureRepresentation: an old wording keeps the record. *)
EnsureWithoutRecord ==
    /\ mind.at = "propose"
    /\ Proposal.support \subseteq Evidence(mind.task)
    /\ mind' = [mind EXCEPT !.at = "support"]
    /\ unrecorded' = [unrecorded EXCEPT !["mind"] = ProposedSupport]
    /\ UNCHANGED <<arrived, links, inflight, overlap, known, standing, rulings, reflection, cutoff,
                   otherVars, interrupts>>

(* materialize_proposal: the indices name evidence of the batch, and the     *)
(* representation exists from then on.                                       *)
EnsureRepresentation ==
    /\ mind.at = "propose"
    /\ Proposal.support \subseteq Evidence(mind.task)
    /\ known' = known \cup {Proposal.rep}
    /\ mind' = [mind EXCEPT !.at = "support"]
    /\ unrecorded' = [unrecorded EXCEPT !["mind"] = ProposedSupport]
    /\ UNCHANGED <<arrived, links, inflight, overlap, standing, rulings, reflection, cutoff,
                   otherVars, interrupts>>

(* With its support recorded the proposal is a candidate again, whatever it  *)
(* was before, until the review of this task; then the next proposal, or the *)
(* result of the stage.                                                      *)
ResolveCandidate ==
    /\ mind.at = "support" /\ Recorded("mind")
    /\ Resolve(Proposal.rep, "CANDIDATE", Proposal.centrality, FALSE, mind.task)
    /\ IF mind.next < Len(Script[mind.task])
       THEN /\ mind' = [at |-> "propose", task |-> mind.task, next |-> mind.next + 1]
            /\ UNCHANGED reflection
       ELSE /\ mind' = IdleMind
            /\ reflection' = [reflection EXCEPT ![mind.task] = "review"]
    /\ UNCHANGED <<arrived, evidenceVars, known, cutoff, otherVars, interrupts>>

(* SELF_REVIEW, candidate by candidate; one that was proposed more than once *)
(* is reviewed once.  review_memory_packet shows related roots that are no   *)
(* support of the candidate; apply_review refuses an objection with a        *)
(* support, and names no context.                                            *)
StartReview(c) ==
    /\ mind = IdleMind
    /\ reflection[c] = "review"
    /\ mind' = [at |-> "review", task |-> c, next |-> 1]
    /\ UNCHANGED <<arrived, evidenceVars, known, standing, rulings, reflection, cutoff,
                   otherVars, interrupts>>

Seen == \E k \in 1 .. mind.next - 1 : Script[mind.task][k].rep = Proposal.rep

NextCandidate ==
    IF mind.next < Len(Script[mind.task])
    THEN /\ mind' = [at |-> "review", task |-> mind.task, next |-> mind.next + 1]
         /\ UNCHANGED reflection
    ELSE /\ mind' = IdleMind
         /\ reflection' = [reflection EXCEPT ![mind.task] = "done"]

PassOverSeen ==
    /\ mind.at = "review" /\ Seen
    /\ NextCandidate
    /\ UNCHANGED <<arrived, evidenceVars, known, standing, rulings, cutoff, otherVars, interrupts>>

ReviewCandidate ==
    LET shown == (Objections[mind.task] \cap 1 .. cutoff[mind.task]) \ Linked(Proposal.rep, "SUPPORTS")
    IN  /\ mind.at = "review" /\ ~Seen
        /\ mind' = [mind EXCEPT !.at = "oppose"]
        /\ unrecorded' = [unrecorded EXCEPT !["mind"] =
                       {Link(Proposal.rep, root, "OPPOSES", "DIRECT", {}) : root \in shown}]
        /\ UNCHANGED <<arrived, links, inflight, overlap, known, standing, rulings, reflection,
                       cutoff, otherVars, interrupts>>

ApplyReview ==
    /\ mind.at = "oppose" /\ Recorded("mind")
    /\ Resolve(Proposal.rep, "ESTABLISHED", standing[Proposal.rep].centrality, TRUE, mind.task)
    /\ NextCandidate
    /\ UNCHANGED <<arrived, evidenceVars, known, cutoff, otherVars, interrupts>>

(* The worker fails or dies: the stage starts again, its records stay. *)
ReflectionFails ==
    /\ mind # IdleMind
    /\ interrupts < MaxInterrupts
    /\ interrupts' = interrupts + 1
    /\ mind' = IdleMind
    /\ Drop("mind")
    /\ UNCHANGED <<arrived, links, known, standing, rulings, reflection, cutoff, otherVars>>

(* inherit_parent_roots: parent by parent an edge, and then root by root the *)
(* canonical roots of the parent, never the parent itself, as they are when  *)
(* the parent is read.  Nothing is resolved.                                 *)
InheritParentRoots(r) ==
    /\ heir = {} /\ Recorded("heir")
    /\ r \in known
    /\ heir' = {<<r, p>> : p \in Parents[r]}
    /\ UNCHANGED <<arrived, evidenceVars, known, standing, rulings, mindVars, prediction, judge, interrupts>>

ReadParent(edge) ==
    /\ edge \in heir /\ Recorded("heir")
    /\ edge[2] \in known
    /\ heir' = heir \ {edge}
    /\ unrecorded' = [unrecorded EXCEPT !["heir"] =
                   {Link(edge[1], l.root, "SUPPORTS", "INHERITED", l.tags) :
                       l \in {k \in links : k.rep = edge[2] /\ k.relation = "SUPPORTS"}}]
    /\ UNCHANGED <<arrived, links, inflight, overlap, known, standing, rulings, mindVars, prediction,
                   judge, interrupts>>

(* A parent is unknown, a root is refused, the record exists with another    *)
(* time or the process dies: the roots recorded so far stay.                 *)
HeirFails ==
    /\ heir # {} \/ ~Recorded("heir")
    /\ interrupts < MaxInterrupts
    /\ interrupts' = interrupts + 1
    /\ heir' = {}
    /\ Drop("heir")
    /\ UNCHANGED <<arrived, links, known, standing, rulings, mindVars, prediction, judge>>
-----------------------------------------------------------------------------
(* Predictions. *)

(* record_self_prediction: the cutoff is the last event known. *)
RecordPrediction(p) ==
    /\ prediction[p] = NoPrediction
    /\ standing[p] # NoStanding
    /\ prediction' = [prediction EXCEPT ![p] = [outcome |-> "open", cutoff |-> arrived, root |-> 0]]
    /\ UNCHANGED <<arrived, evidenceVars, known, standing, rulings, mindVars, judge, heir, interrupts>>

(* resolve_self_prediction puts the outcome first; a later event must show   *)
(* it.  An ambiguous outcome is no evidence.                                 *)
RecordOutcome(p, outcome, root) ==
    /\ judge = IdleJudge
    /\ prediction[p].outcome = "open"
    /\ root \in prediction[p].cutoff + 1 .. arrived
    /\ prediction' = [prediction EXCEPT ![p] = [@ EXCEPT !.outcome = outcome, !.root = root]]
    /\ judge' = IF outcome = "AMBIGUOUS" THEN IdleJudge ELSE [IdleJudge EXCEPT !.at = "read", !.rep = p]
    /\ UNCHANGED <<arrived, evidenceVars, known, standing, rulings, mindVars, heir, interrupts>>

(* Then it reads how the representation stands, and has the outcome to       *)
(* record as evidence ...                                                    *)
ReadStanding ==
    LET p == prediction[judge.rep]
        relation == IF p.outcome = "CONFIRMED" THEN "SUPPORTS" ELSE "OPPOSES"
    IN  /\ judge.at = "read"
        /\ judge' = [at |-> "resolve", rep |-> judge.rep, asked |-> standing[judge.rep]]
        /\ unrecorded' = [unrecorded EXCEPT !["judge"] =
              {Link(judge.rep, p.root, relation, "PREDICTION_OUTCOME", PredictionTags[judge.rep])}]
        /\ UNCHANGED <<arrived, links, inflight, overlap, known, standing, rulings, mindVars,
                       prediction, heir, interrupts>>

(* A mutant of ResolveByOutcome: what it stood at is put, not asked for. *)
RestoreStanding ==
    /\ judge.at = "resolve" /\ Recorded("judge")
    /\ standing' = [standing EXCEPT ![judge.rep] = judge.asked]
    /\ judge' = IdleJudge
    /\ UNCHANGED <<arrived, evidenceVars, known, rulings, mindVars, prediction, heir, interrupts>>

(* ... after which it asks for the standing that it read. *)
ResolveByOutcome ==
    /\ judge.at = "resolve" /\ Recorded("judge")
    /\ Resolve(judge.rep, judge.asked.status, judge.asked.centrality, judge.asked.checked, 0)
    /\ judge' = IdleJudge
    /\ UNCHANGED <<arrived, evidenceVars, known, mindVars, prediction, heir, interrupts>>

(* The evidence is refused, the ruling conflicts or the process dies: a      *)
(* second call finds the outcome recorded and returns, so that what is       *)
(* missing stays missing.                                                    *)
JudgeFails ==
    /\ judge.at \in {"read", "resolve"}
    /\ interrupts < MaxInterrupts
    /\ interrupts' = interrupts + 1
    /\ judge' = [at |-> "failed", rep |-> judge.rep, asked |-> NoStanding]
    /\ Drop("judge")
    /\ UNCHANGED <<arrived, links, known, standing, rulings, mindVars, prediction, heir>>
-----------------------------------------------------------------------------
(* The self context of an interaction. *)

Active(r) == standing[r].status \in {"ESTABLISHED", "CONTESTED"}

(* The first n of a set, most central first and then by key. *)
Before(r, s) ==
    \/ standing[r].centrality > standing[s].centrality
    \/ standing[r].centrality = standing[s].centrality /\ r < s

FirstOf(set, n) == {r \in set : Cardinality({s \in set : Before(s, r)}) < n}

(* The order of the packet: of equal centrality the contested come last. *)
Contested(r) == standing[r].status = "CONTESTED"
Outranks(r, s) ==
    \/ standing[r].centrality > standing[s].centrality
    \/ /\ standing[r].centrality = standing[s].centrality
       /\ IF Contested(r) # Contested(s) THEN Contested(s) ELSE r < s

Packet(set) == {r \in set : Cardinality({s \in set : Outranks(s, r)}) < Limit}

FirstKeys(set, n) == {r \in set : Cardinality({s \in set : s < r}) < n}

(* A mutant of SearchSelfCandidates: the fallback reads no more rows than it *)
(* may add.                                                                  *)
SearchTooFewRows(matches, related, fallback) ==
    LET lexical == FirstKeys({r \in matches : Active(r)}, Limit)
        entity == IF Cardinality(lexical) < Limit
                  THEN FirstKeys({r \in related : Active(r)}, Limit) ELSE {}
        found == lexical \cup entity
        core == IF fallback /\ Cardinality(found) < Limit
                THEN Min({MaxCore, Limit - Cardinality(found)}) ELSE 0
        rows == FirstOf({r \in Reps : standing[r].status = "ESTABLISHED"}, core)
    IN  Packet(found \cup rows)

(* _search_self_candidates: the words, then the entities, then the core; a   *)
(* negative room for the core (more related rows than the limit leaves) lets *)
(* every row through.                                                        *)
SearchSelfCandidates(matches, related, fallback) ==
    LET lexical == FirstKeys({r \in matches : Active(r)}, Limit)
        entity == IF Cardinality(lexical) < Limit
                  THEN FirstKeys({r \in related : Active(r)}, Limit) ELSE {}
        found == lexical \cup entity
        n == Cardinality(found)
        core == IF n > Limit THEN Limit ELSE Min({MaxCore, Limit - n})
        rows == IF fallback /\ core > 0
                THEN FirstOf({r \in Reps : standing[r].status = "ESTABLISHED"},
                             IF n > Limit THEN Limit ELSE core + n)
                ELSE {}
    IN  Packet(found \cup FirstOf(rows \ found, core))

SelfContext(i) == {standing[r] : r \in SearchSelfCandidates(Matches[i], Related[i], TRUE)}

(* expand_self_memory_roots: every hypothesis that matches, a candidate one  *)
(* too, leads to its roots, newest first, and one root of each is taken      *)
(* before a second one of any.                                               *)
Routes(matches) ==
    FirstKeys({r \in matches : standing[r].status \in {"CANDIDATE", "ESTABLISHED", "CONTESTED"}
                                /\ \E l \in links : l.rep = r}, MaxRoutes)

RootsOf(r) == Linked(r, "SUPPORTS") \cup Linked(r, "OPPOSES")
Row(r, root) == Cardinality({newer \in RootsOf(r) : newer > root})
Column(r, routes) == Cardinality({q \in routes : q < r})

(* A mutant of Turn: one hypothesis after the other. *)
TurnByHypothesis(routes, root) ==
    Min({Column(r, routes) * LastRoot + Row(r, root) : r \in {q \in routes : root \in RootsOf(q)}})

Turn(routes, root) ==
    Min({Row(r, root) * Cardinality(routes) + Column(r, routes) :
            r \in {q \in routes : root \in RootsOf(q)}})

ExpandSelfRoots(matches, base, limit) ==
    LET routes == Routes(matches)
        fresh == (UNION {RootsOf(r) : r \in routes}) \ base
        turn == [root \in fresh |-> Turn(routes, root)]
    IN  base \cup {root \in fresh :
            Cardinality({earlier \in fresh : turn[earlier] < turn[root]})
                < limit - Cardinality(base)}

MindStep ==
    \/ \E c \in Reflections : StartReflection(c) \/ StartReview(c)
    \/ EnsureRepresentation
    \/ ResolveCandidate
    \/ PassOverSeen
    \/ ReviewCandidate
    \/ ApplyReview

HeirStep ==
    \/ \E r \in Reps : InheritParentRoots(r)
    \/ \E edge \in heir : ReadParent(edge)

RecorderStep == \E w \in Recorders : CheckSelfEvidence(w) \/ PutSelfEvidence(w)

SelfNext ==
    \/ Arrive
    \/ MindStep \/ ReflectionFails
    \/ HeirStep \/ HeirFails
    \/ RecorderStep
    \/ \E p \in Predictions : RecordPrediction(p)
    \/ \E p \in Predictions, outcome \in {"CONFIRMED", "CONTRADICTED", "AMBIGUOUS"}, root \in Roots :
          RecordOutcome(p, outcome, root)
    \/ ReadStanding \/ ResolveByOutcome \/ JudgeFails

SelfSpec == SelfInit /\ [][SelfNext]_selfVars
-----------------------------------------------------------------------------
Evidences == links \cup UNION {unrecorded[w] \cup inflight[w] : w \in Recorders}

SelfTypeOK ==
    /\ arrived \in 0 .. LastRoot
    /\ {l.root : l \in Evidences} \subseteq 1 .. arrived
    /\ {l.rep : l \in Evidences} \subseteq known
    /\ \A r \in Reps : standing[r].centrality \in Centralities
    /\ reflection \in [Reflections -> {"propose", "review", "done"}]
    /\ mind.at \in {"idle", "propose", "support", "review", "oppose"}
    /\ judge.at \in {"idle", "read", "resolve", "failed"}
    /\ interrupts \in 0 .. MaxInterrupts

(* A verdict on r is still owed: a review has it among its candidates, or    *)
(* the outcome of its prediction is half applied.                            *)
Candidates(c) == {Script[c][k].rep : k \in 1 .. Len(Script[c])}

VerdictIsOwed(r) ==
    \/ judge.rep = r
    \/ \E c \in Reflections : reflection[c] = "review" /\ r \in Candidates(c)

(* What is established was earned by evidence that is in the store: two      *)
(* distinct roots under a generalization and two stored contexts under a     *)
(* slow schema, however often a root was inherited, proposed again or        *)
(* recorded before a worker died, and whatever stale standing the judge of a *)
(* prediction asks for; opposition leaves it established only as long as a   *)
(* verdict that will count it is owed.                                       *)
EstablishedIsEarned ==
    \A r \in Reps :
        standing[r].status = "ESTABLISHED"
        => /\ Linked(r, "SUPPORTS") # {}
           /\ r \in SelfReported => Linked(r, "SUPPORTS") \subseteq UserPrompts
           /\ r \in Generalized \ SelfReported => Cardinality(Linked(r, "SUPPORTS")) >= 2
           /\ r \in Slow \ SelfReported => Cardinality(SupportTags(r)) >= 2
           /\ Linked(r, "OPPOSES") # {} => VerdictIsOwed(r)

(* One canonical root both supports and opposes a representation only when   *)
(* the two records were checked before either was put: one call after the    *)
(* other never leaves it on both sides, whichever of proposal, review,       *)
(* inheritance and prediction met it first and whoever died in between.      *)
OneStancePerRoot ==
    \A r \in Reps, root \in Roots :
        root \in Linked(r, "SUPPORTS") \cap Linked(r, "OPPOSES") => <<r, root>> \in overlap

(* When the limit holds everything that matches, the context is exactly what *)
(* matches and the most central established representations besides, as many *)
(* as the core may add: a match that is itself central takes no core place.  *)
SelfContextIsComplete ==
    \A i \in Interactions :
        LET found == {r \in Matches[i] \cup Related[i] : Active(r)}
            core == Min({MaxCore, Limit - Cardinality(found)})
            rest == {r \in Reps : standing[r].status = "ESTABLISHED"} \ found
        IN  Cardinality(found) <= Limit =>
                SearchSelfCandidates(Matches[i], Related[i], TRUE) = found \cup FirstOf(rest, core)

(* However many roots a hypothesis has gathered, it crowds no other one out: *)
(* when the packet has a place for each, the newest root of every hypothesis *)
(* that matches is in it, and the packet never grows past its limit.         *)
EveryHypothesisLeadsToItsRoot ==
    \A base \in {{}, {1}} :
        LET routes == Routes(Reps)
            limit == Limit + Cardinality(base)
            packet == ExpandSelfRoots(Reps, base, limit)
        IN  /\ Cardinality(packet) <= limit
            /\ Limit >= Cardinality(routes) =>
                  \A r \in routes : Max(RootsOf(r)) \in packet

(* The self that is shown is grounded: what is established was earned, calls *)
(* in sequence leave no root on both sides, the context holds what matters,  *)
(* and every hypothesis leads back to its roots.                             *)
SelfIsGrounded ==
    /\ SelfTypeOK
    /\ EstablishedIsEarned /\ OneStancePerRoot
    /\ SelfContextIsComplete /\ EveryHypothesisLeadsToItsRoot
=============================================================================
