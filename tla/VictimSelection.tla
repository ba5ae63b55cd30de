-------------------------- MODULE VictimSelection --------------------------
(***************************************************************************)
(* select_minimum_victims of attention_preemption.py: the dynamic program   *)
(* that chooses which running assignments release capacity for a blocked    *)
(* task, and the choice it is meant to make.                                *)
(*                                                                          *)
(* A candidate is a record: task, base priority (lower is more important),  *)
(* whether it must reach a checkpoint first, its place in the current       *)
(* assignment order, and the units it would release by resource class.      *)
(* deficits maps each class of the blocked task to the units it lacks.      *)
(***************************************************************************)
EXTENDS Integers, Sequences, FiniteSets, SequencesExt, OrderedLists

Lesser(a, b) == IF a <= b THEN a ELSE b

(* _candidate_sort_key: least important, then able to yield at once, then newest. *)
YieldsBefore(a, b) ==
    \/ a.priority > b.priority
    \/ a.priority = b.priority /\ ~a.checkpoint /\ b.checkpoint
    \/ /\ a.priority = b.priority
       /\ a.checkpoint = b.checkpoint
       /\ a.order > b.order

Ordered(candidates) == InOrder(candidates, YieldsBefore)

(* _selection_key: fewer indices first, then the lexicographically smaller. *)
Preferred(p, q) ==
    \/ Len(p) < Len(q)
    \/ /\ Len(p) = Len(q)
       /\ \E i \in 1 .. Len(p) :
             p[i] < q[i] /\ \A j \in 1 .. i - 1 : p[j] = q[j]

Best(selections) ==
    CHOOSE p \in selections : \A q \in selections : p = q \/ Preferred(p, q)

RequiredClasses(deficits) == {c \in DOMAIN deficits : deficits[c] > 0}

(* Seeded fault: coverage is not capped. *)
CoverWithoutCap(target, coverage, candidate) ==
    [c \in DOMAIN target |-> coverage[c] + candidate.units[c]]

(* Coverage never counts more than the deficit. *)
Cover(target, coverage, candidate) ==
    [c \in DOMAIN target |->
        Lesser(target[c], coverage[c] + candidate.units[c])]

(* One round of the program: from the best selection of each coverage that  *)
(* the earlier candidates reach to those that candidate i reaches as well.  *)
Extend(target, states, candidate, i) ==
    IF \A c \in DOMAIN target : candidate.units[c] = 0
    THEN states
    ELSE LET To(v) == Cover(target, v, candidate)
             Options(w) ==
                 {Append(states[v], i) : v \in {x \in DOMAIN states : To(x) = w}}
                 \cup {states[v] : v \in {w} \cap DOMAIN states}
         IN  [w \in DOMAIN states \cup {To(v) : v \in DOMAIN states} |->
                 Best(Options(w))]

(* The selection in yielding order, or {} where the code returns None.  The  *)
(* fold runs over the set that holds the table of the rounds so far.         *)
SelectMinimumVictims(deficits, candidates) ==
    LET ordered == Ordered(candidates)
        target == [c \in RequiredClasses(deficits) |-> deficits[c]]
        nothing == [c \in DOMAIN target |-> 0]
        tables == FoldLeft(
            LAMBDA Tab, i : {Extend(target, tab, ordered[i], i) : tab \in Tab},
            {[w \in {nothing} |-> <<>>]}, [i \in 1 .. Len(ordered) |-> i])
    IN  {[k \in DOMAIN tab[target] |-> ordered[tab[target][k]]] :
            tab \in {x \in tables : target \in DOMAIN x}}
-----------------------------------------------------------------------------
(* The intended choice, without coverage vectors or rounds: of the sets of  *)
(* candidates that release every missing unit the smallest, and of those    *)
(* the first in yielding order.                                             *)

Releases(deficits, victims) ==
    \A c \in DOMAIN deficits :
        deficits[c] <= MapThenSumSet(LAMBDA v : v.units[c], victims)

MinimumReleasingSets(deficits, candidates) ==
    LET releasing == {S \in SUBSET candidates : Releases(deficits, S)}
    IN  {S \in releasing : \A T \in releasing : Cardinality(S) <= Cardinality(T)}

(* Of two sets of one size, the one that has the first candidate to yield   *)
(* among those in which they differ.                                        *)
YieldsFirst(S, T) ==
    \/ S = T
    \/ \E x \in S \ T : \A y \in (S \cup T) \ (S \cap T) :
          x = y \/ YieldsBefore(x, y)

IntendedVictims(deficits, candidates) ==
    LET minimum == MinimumReleasingSets(deficits, candidates)
    IN  {S \in minimum : \A T \in minimum : YieldsFirst(S, T)}
=============================================================================
