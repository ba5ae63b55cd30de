---------------------------- MODULE MemoryProofs -----------------------------
(***************************************************************************)
(* Proofs about the derived memories, for any number of observations,      *)
(* events, proposals, workers and deaths.                                  *)
(*                                                                         *)
(* SemanticMemory: the incremental resolver agrees with the one that looks *)
(* at all the evidence, and no resolution is put twice.  A worker past the *)
(* lock holds it, so the head it resolves from is the current one.  Every  *)
(* resolution is above the one it supersedes in an order of observation    *)
(* time, candidates and status, hence new.  While all evidence is plain    *)
(* the candidates have the values observed at the time of the head, and    *)
(* every observation that a job has behind it is older than that or has    *)
(* one of these values.                                                    *)
(*                                                                         *)
(* MemoryProjection: what a recall has loaded is complete, together with   *)
(* the rows it will be added to; so rows and edges stay those of the       *)
(* ledger up to the marks.                                                 *)
(*                                                                         *)
(* SelfMemory: a schema is established only at the end of its review, and  *)
(* a review has no objection left to what it established; searches and     *)
(* packets take a beginning of a strict order, so few enough are all in.   *)
(***************************************************************************)
EXTENDS SemanticMemory, MemoryProjection, SelfMemory,
        FiniteSetTheorems, WellFoundedInduction, NaturalsInduction, TLAPS

Statuses == {"NONE", "UNKNOWN", "ACCEPTED", "AMBIGUOUS"}
Resolution == [status : Statuses, candidates : SUBSET Assertions,
               selected : Assertions \cup {None}, at : Nat]
Deriver == [at : {"idle", "next", "locked", "asserted", "resolving"}, job : Jobs \cup {None},
            todo : SUBSET Observations, seen : Resolution]

SemanticTyped ==
    /\ ingested \subseteq Snapshots
    /\ input \in [Consolidations -> SUBSET Snapshots]
    /\ stated \subseteq Assertions
    /\ evidence \subseteq Observations
    /\ head \in Resolution
    /\ published \subseteq Jobs
    /\ lock \in Derivers \cup {None}
    /\ deriver \in [Derivers -> Deriver]
    /\ deaths \in 0 .. MaxDeaths

(* What the validators of a resolution ask for, and that its candidates are  *)
(* on record.                                                                *)
Coherent(s) ==
    /\ s.selected \in s.candidates \cup {None}
    /\ (s.status = "ACCEPTED") <=> (s.selected # None)
    /\ s.status = "NONE" => s = NoHead
    /\ s.status = "UNKNOWN" => s = Unknown
    /\ s.status \in {"ACCEPTED", "AMBIGUOUS"} => s.at > 0

HeadIsCoherent == Coherent(head) /\ head.candidates \subseteq stated

(* Where a worker is, and what it has put and holds there. *)
Holds(w, d) ==
    LET o == Earliest(d.todo)
    IN  /\ d.at = "idle" => d = IdleDeriver
        /\ d.at # "idle" => /\ d.job \in Jobs
                            /\ d.job \in Consolidations => input[d.job] # {}
        /\ d.at \in {"locked", "asserted", "resolving"} => lock = w /\ d.todo # {}
        /\ d.at \in {"asserted", "resolving"} => AssertionOf[o] \in stated
        /\ d.at = "resolving" => o \in evidence /\ d.seen = head

WorkersHold == \A w \in Derivers : Holds(w, deriver[w])

Work == [j \in Jobs |-> WorkOf(j)]

(* What a job has behind it is evidence. *)
WorkIsEvidence ==
    /\ \A w \in Derivers : deriver[w].at # "idle" =>
          Work[deriver[w].job] \ deriver[w].todo \subseteq evidence
    /\ \A j \in published : Work[j] \subseteq evidence

(* The order in which the resolver makes its resolutions. *)
Rank(status) ==
    IF status = "NONE" THEN 0
    ELSE IF status = "UNKNOWN" THEN 1
    ELSE IF status = "ACCEPTED" THEN 2 ELSE 3

Below(s, r) ==
    \/ s.at < r.at
    \/ /\ s.at = r.at
       /\ s.candidates \subseteq r.candidates
       /\ Rank(s.status) <= Rank(r.status)
       /\ s.candidates # r.candidates \/ Rank(s.status) < Rank(r.status)

(* The revisions lead up to the head, each state once. *)
RevisionsLeadUp ==
    /\ \A r \in revisions : r.state \in Resolution /\ (r.state = head \/ Below(r.state, head))
    /\ \A r, s \in revisions : r.state = s.state => r = s

(* An observation that the head accounts for: it is older, or its value is   *)
(* at stake.                                                                 *)
Covers(s, o) ==
    \/ ObservedAt[o] < s.at
    \/ ObservedAt[o] = s.at /\ \E a \in s.candidates : ValueOf[a] = ValueOf[AssertionOf[o]]

(* The values at stake are the ones observed at the time of the head, and    *)
(* the status says whether there is one or several.                          *)
Witnessed(s) ==
    /\ s.status # "UNKNOWN"
    /\ s.status # "NONE" => s.candidates # {}
    /\ \A a \in s.candidates :
          \E o \in evidence : ObservedAt[o] = s.at /\ ValueOf[AssertionOf[o]] = ValueOf[a]
    /\ s.status = "ACCEPTED" => \A a \in s.candidates : ValueOf[a] = ValueOf[s.selected]
    /\ s.status = "AMBIGUOUS" => \E a, b \in s.candidates : ValueOf[a] # ValueOf[b]

HeadAccounts ==
    PlainEvidence =>
        /\ Witnessed(head)
        /\ \A w \in Derivers : deriver[w].at # "idle" =>
              \A o \in Work[deriver[w].job] \ deriver[w].todo : Covers(head, o)
        /\ \A j \in published : \A o \in Work[j] : Covers(head, o)

SemanticIInv ==
    /\ SemanticTyped /\ HeadIsCoherent /\ WorkersHold /\ WorkIsEvidence
    /\ RevisionsLeadUp /\ HeadAccounts
-----------------------------------------------------------------------------
(* The operators. *)

(* Among naturals there is a least one, so Earliest picks an observation of  *)
(* the set.                                                                  *)
LEMMA LeastNumber ==
    ASSUME NEW S \in SUBSET Nat, S # {}
    PROVE  \E n \in S : \A m \in S : n <= m
<1>1. PICK n \in S : \A m \in S : ~(<<m, n>> \in OpToRel(<, Nat))
    BY NatLessThanWellFounded, WFMin
<1>2. ASSUME NEW m \in S, ~(n <= m) PROVE FALSE
  <2>1. <<m, n>> \in Nat \X Nat /\ <<m, n>>[1] < <<m, n>>[2]
      BY <1>2
  <2>2. <<m, n>> \in {z \in Nat \X Nat : z[1] < z[2]}
      BY <2>1
  <2> QED
      BY <1>1, <1>2, <2>2, Zenon DEF OpToRel
<1> QED
    BY <1>1, <1>2

LEMMA EarliestIsIn ==
    ASSUME NEW todo \in SUBSET Observations, todo # {}
    PROVE  Earliest(todo) \in todo
<1> DEFINE times == {ObservedAt[o] : o \in todo}
<1>1. times \in SUBSET Nat /\ times # {}
    BY SemanticAssumption
<1>2. PICK n \in times : \A m \in times : n <= m
    BY <1>1, LeastNumber
<1>3. PICK o \in todo : ObservedAt[o] = n
    OBVIOUS
<1>4. \A p \in todo : ObservedAt[o] <= ObservedAt[p]
    BY <1>2, <1>3
<1> QED
    BY <1>3, <1>4 DEF Earliest

(* A finite set of numbers that is not empty has a largest one. *)
LEMMA LargestNumber ==
    ASSUME NEW T \in SUBSET Nat, IsFiniteSet(T), T # {}
    PROVE  \E m \in T : \A n \in T : m >= n
<1> DEFINE Large(S) == \E m \in S : \A n \in S : m >= n
           Sizes == {Cardinality(S) : S \in {R \in SUBSET T : R # {} /\ ~Large(R)}}
<1>1. SUFFICES ASSUME Sizes # {} PROVE FALSE
  <2>1. T \in {R \in SUBSET T : R # {} /\ ~Large(R)} \/ Large(T)
      OBVIOUS
  <2> QED
      BY <1>1, <2>1
<1>2. \A S \in SUBSET T : IsFiniteSet(S) /\ Cardinality(S) \in Nat
    BY FS_Subset, FS_CardinalityType
<1>3. Sizes \in SUBSET Nat
    BY <1>2
<1>4. PICK k \in Sizes : \A m \in Sizes : k <= m
    BY <1>1, <1>3, LeastNumber
<1>5. PICK S \in SUBSET T : S # {} /\ ~Large(S) /\ Cardinality(S) = k
    OBVIOUS
<1>6. PICK s \in S : TRUE
    BY <1>5
<1>7. S \ {s} \in SUBSET T /\ Cardinality(S \ {s}) = k - 1
    BY <1>2, <1>5, <1>6, FS_RemoveElement
<1>8. k \in Nat /\ ~(k <= k - 1)
    BY <1>3
<1>9. S \ {s} = {} \/ Large(S \ {s})
  <2>1. SUFFICES ASSUME S \ {s} # {}, ~Large(S \ {s}) PROVE FALSE
      OBVIOUS
  <2>2. Cardinality(S \ {s}) \in Sizes
      BY <1>7, <2>1
  <2> QED
      BY <1>4, <1>7, <1>8, <2>2
<1>10. s \in Nat /\ S \subseteq Nat
    BY <1>6
<1>11. CASE S \ {s} = {}
  <2>1. \A n \in S : s >= n
      BY <1>10, <1>11
  <2> QED
      BY <1>5, <1>6, <2>1
<1>12. CASE Large(S \ {s})
  <2>1. PICK m \in S \ {s} : \A n \in S \ {s} : m >= n
      BY <1>12
  <2>2. (\A n \in S : m >= n) \/ (\A n \in S : s >= n)
      BY <1>10, <2>1
  <2> QED
      BY <1>5, <1>6, <2>1, <2>2
<1> QED
    BY <1>9, <1>11, <1>12

LEMMA NothingIsLater == \A o \in Observations : ObservedAt[o] <= Latest
<1> SUFFICES ASSUME NEW o \in Observations PROVE ObservedAt[o] <= Latest
    OBVIOUS
<1> DEFINE times == {ObservedAt[p] : p \in Observations}
<1>1. times \in SUBSET Nat /\ ObservedAt[o] \in times
    BY SemanticAssumption
<1>2. IsFiniteSet(times)
  <2>1. ObservedAt \in Surjection(Observations, times)
      BY SemanticAssumption DEF Surjection
  <2> QED
      BY <2>1, SemanticAssumption, FS_Surjection
<1>3. \E m \in times : \A n \in times : m >= n
    BY <1>1, <1>2, LargestNumber
<1>4. Max(times) \in times /\ \A n \in times : Max(times) >= n
    BY <1>3 DEF Max
<1> QED
    BY <1>1, <1>4 DEF Latest

LEMMA MaxOfTwo ==
    ASSUME NEW m \in Nat, NEW n \in Nat
    PROVE  Max({m, n}) = IF m >= n THEN m ELSE n
BY DEF Max

(* The values that some observations state are finitely many. *)
LEMMA ValuesAreFinite ==
    ASSUME NEW E \in SUBSET Observations
    PROVE  IsFiniteSet({ValueOf[AssertionOf[o]] : o \in E})
<1> DEFINE values == {ValueOf[AssertionOf[o]] : o \in E}
           f == [o \in E |-> ValueOf[AssertionOf[o]]]
<1>1. f \in Surjection(E, values)
    BY DEF Surjection
<1>2. IsFiniteSet(E)
    BY SemanticAssumption, FS_Subset
<1> QED
    BY <1>1, <1>2, FS_Surjection

(* A resolution with another time or other candidates. *)
LEMMA ChangedResolution ==
    ASSUME NEW s \in Resolution, NEW t, NEW C
    PROVE  /\ [s EXCEPT !.at = t] = Support(s.status, s.candidates, s.selected, t)
           /\ [s EXCEPT !.candidates = C] = Support(s.status, C, s.selected, s.at)
<1>1. PICK u, c, l, n : s = [status |-> u, candidates |-> c, selected |-> l, at |-> n]
  <2>1. s = [status |-> s.status, candidates |-> s.candidates, selected |-> s.selected, at |-> s.at]
      BY DEF Resolution
  <2> QED
      BY <2>1, Zenon
<1>2. s.status = u /\ s.candidates = c /\ s.selected = l /\ s.at = n
    BY <1>1
<1>3. /\ [s EXCEPT !.at = t] = [status |-> u, candidates |-> c, selected |-> l, at |-> t]
      /\ [s EXCEPT !.candidates = C] = [status |-> u, candidates |-> C, selected |-> l, at |-> n]
    BY <1>1
<1> QED
    BY <1>2, <1>3 DEF Support

(* What the resolver makes of a resolution, by cases: nothing, or one of six *)
(* others.                                                                   *)
Advances(s, o, at, r) ==
    LET a == AssertionOf[o]
        t == ObservedAt[o]
        supports == Relation[o] = "SUPPORTS"
    IN  \/ /\ r = s
           /\ supports /\ ~OutOfForce(o, at) =>
                 \/ t < s.at
                 \/ t = s.at /\ a \in s.candidates \cup {s.selected}
        \/ s = NoHead /\ r = Unknown /\ (supports => OutOfForce(o, at))
        \/ /\ supports /\ s.status = "ACCEPTED" /\ s.selected = a /\ t > s.at
           /\ r = Support("ACCEPTED", s.candidates, a, t)
        \/ /\ ~supports /\ a \in s.candidates /\ t >= s.at
           /\ r = Support("AMBIGUOUS", s.candidates, None, t)
        \/ supports /\ t > s.at /\ r = Support("ACCEPTED", {a}, a, t)
        \/ /\ supports /\ t = s.at /\ s.status = "ACCEPTED" /\ s.selected # None
           /\ ValueOf[s.selected] = ValueOf[a]
           /\ r = Support("ACCEPTED", s.candidates \cup {a}, s.selected, t)
        \/ /\ supports /\ t = s.at /\ a \notin s.candidates
           /\ ~(s.status = "ACCEPTED" /\ s.selected # None /\ ValueOf[s.selected] = ValueOf[a])
           /\ r = Support("AMBIGUOUS", s.candidates \cup {a}, None, t)

LEMMA AdvanceCases ==
    ASSUME NEW s \in Resolution, NEW o \in Observations, NEW at \in Nat
    PROVE  Advances(s, o, at, AdvanceResolution(s, o, at))
<1> DEFINE a == AssertionOf[o]
           t == ObservedAt[o]
           supports == Relation[o] = "SUPPORTS"
           r == AdvanceResolution(s, o, at)
<1>1. s.at \in Nat /\ t \in Nat /\ a \in Assertions
    BY SemanticAssumption DEF Resolution
<1>2. Unchanged(s) = s \/ (s = NoHead /\ Unchanged(s) = Unknown)
    BY DEF Unchanged
<1>3. CASE OutOfForce(o, at)
  <2>1. r = Unchanged(s)
      BY <1>3 DEF AdvanceResolution
  <2> QED
      BY <1>2, <1>3, <2>1 DEF Advances
<1>4. CASE ~OutOfForce(o, at) /\ supports /\ s.status = "ACCEPTED" /\ s.selected = a
  <2>1. r = [s EXCEPT !.at = Max({s.at, t})]
      BY <1>4 DEF AdvanceResolution
  <2>2. r = Support(s.status, s.candidates, s.selected, Max({s.at, t}))
      BY <2>1, ChangedResolution
  <2>3. CASE t > s.at
    <3>1. Max({s.at, t}) = t
        BY <1>1, <2>3, MaxOfTwo
    <3> QED
        BY <1>4, <2>2, <2>3, <3>1 DEF Advances
  <2>4. CASE ~(t > s.at)
    <3>1. Max({s.at, t}) = s.at
        BY <1>1, <2>4, MaxOfTwo
    <3>2. Support(s.status, s.candidates, s.selected, s.at) = s
        BY DEF Support, Resolution
    <3>3. t < s.at \/ (t = s.at /\ a \in s.candidates \cup {s.selected})
        BY <1>1, <1>4, <2>4
    <3> QED
        BY <2>2, <3>1, <3>2, <3>3 DEF Advances
  <2> QED
      BY <2>3, <2>4
<1>5. CASE ~OutOfForce(o, at) /\ ~supports
  <2>1. r = IF a \in s.candidates /\ t >= s.at
            THEN Support("AMBIGUOUS", s.candidates, None, t) ELSE Unchanged(s)
      BY <1>5 DEF AdvanceResolution
  <2> QED
      BY <1>2, <1>5, <2>1 DEF Advances
<1>6. CASE ~OutOfForce(o, at) /\ supports /\ ~(s.status = "ACCEPTED" /\ s.selected = a)
  <2> DEFINE sameValue == s.selected # None /\ ValueOf[s.selected] = ValueOf[a]
  <2>1. r = IF t > s.at THEN Support("ACCEPTED", {a}, a, t)
            ELSE IF t < s.at THEN s
            ELSE IF s.status = "ACCEPTED" /\ sameValue THEN [s EXCEPT !.candidates = @ \cup {a}]
            ELSE IF a \in s.candidates THEN s
            ELSE Support("AMBIGUOUS", s.candidates \cup {a}, None, t)
      BY <1>6 DEF AdvanceResolution
  <2>2. CASE t > s.at
      BY <1>6, <2>1, <2>2 DEF Advances
  <2>3. CASE t < s.at
    <3>1. r = s
        BY <1>1, <2>1, <2>3
    <3> QED
        BY <2>3, <3>1 DEF Advances
  <2>4. CASE t = s.at
    <3>1. ~(t > s.at) /\ ~(t < s.at)
        BY <1>1, <2>4
    <3>2. CASE s.status = "ACCEPTED" /\ sameValue
      <4>1. r = [s EXCEPT !.candidates = s.candidates \cup {a}]
          BY <2>1, <3>1, <3>2
      <4>2. r = Support(s.status, s.candidates \cup {a}, s.selected, s.at)
          BY <4>1, ChangedResolution
      <4> QED
          BY <1>6, <2>4, <3>2, <4>2 DEF Advances
    <3>3. CASE ~(s.status = "ACCEPTED" /\ sameValue)
        BY <1>6, <2>1, <2>4, <3>1, <3>3 DEF Advances
    <3> QED
        BY <3>2, <3>3
  <2> QED
      BY <1>1, <2>2, <2>3, <2>4
<1> QED
    BY <1>3, <1>4, <1>5, <1>6

(* The resolver keeps a resolution coherent, uses no candidate that is not   *)
(* stated, and goes up.                                                      *)
LEMMA AdvanceGoesUp ==
    ASSUME NEW s \in Resolution, Coherent(s), NEW o \in Observations, NEW at \in Nat, NEW r,
           Advances(s, o, at, r)
    PROVE  /\ r \in Resolution /\ Coherent(r)
           /\ r.candidates \subseteq s.candidates \cup {AssertionOf[o]}
           /\ r = s \/ Below(s, r)
<1> DEFINE a == AssertionOf[o]
           t == ObservedAt[o]
<1>1. /\ s.at \in Nat /\ t \in Nat /\ t > 0 /\ a \in Assertions /\ a # None
      /\ s.candidates \subseteq Assertions /\ None \notin Assertions
      /\ s.status \in Statuses
    BY SemanticAssumption DEF Resolution
<1> USE <1>1 DEF Resolution, Statuses, Coherent, Below, Rank, Support, NoHead, Unknown
<1>2. CASE r = s
    BY <1>2
<1>3. CASE s = NoHead /\ r = Unknown
    BY <1>3
<1>4. CASE /\ s.status = "ACCEPTED" /\ s.selected = a /\ t > s.at
           /\ r = Support("ACCEPTED", s.candidates, a, t)
    BY <1>4
<1>5. CASE a \in s.candidates /\ t >= s.at /\ r = Support("AMBIGUOUS", s.candidates, None, t)
    BY <1>5
<1>6. CASE t > s.at /\ r = Support("ACCEPTED", {a}, a, t)
    BY <1>6
<1>7. CASE /\ t = s.at /\ s.status = "ACCEPTED" /\ s.selected # None
           /\ r = Support("ACCEPTED", s.candidates \cup {a}, s.selected, t)
    BY <1>7
<1>8. CASE /\ t = s.at /\ a \notin s.candidates
           /\ r = Support("AMBIGUOUS", s.candidates \cup {a}, None, t)
    BY <1>8
<1> QED
    BY <1>2, <1>3, <1>4, <1>5, <1>6, <1>7, <1>8 DEF Advances

LEMMA BelowIsAnOrder ==
    ASSUME NEW s \in Resolution, NEW r \in Resolution, NEW q \in Resolution
    PROVE  /\ ~Below(s, s)
           /\ Below(s, r) /\ Below(r, q) => Below(s, q)
<1>1. /\ s.at \in Nat /\ r.at \in Nat /\ q.at \in Nat
      /\ Rank(s.status) \in Nat /\ Rank(r.status) \in Nat /\ Rank(q.status) \in Nat
    BY DEF Resolution, Rank
<1> DEFINE x == Rank(s.status)
           y == Rank(r.status)
           z == Rank(q.status)
<1>2. ~Below(s, s)
    BY <1>1 DEF Below
<1>3. ASSUME Below(s, r), Below(r, q) PROVE Below(s, q)
  <2>1. s.at <= r.at /\ r.at <= q.at
      BY <1>1, <1>3 DEF Below
  <2>2. CASE s.at < q.at
      BY <2>2 DEF Below
  <2>3. CASE ~(s.at < q.at)
    <3>1. s.at = r.at /\ r.at = q.at /\ ~(s.at < r.at) /\ ~(r.at < q.at)
        BY <1>1, <2>1, <2>3
    <3> HIDE DEF x, y, z
    <3>2. /\ s.candidates \subseteq r.candidates /\ r.candidates \subseteq q.candidates
          /\ x <= y /\ y <= z
          /\ s.candidates # r.candidates \/ x < y
          /\ r.candidates # q.candidates \/ y < z
        BY <1>3, <3>1 DEF Below, x, y, z
    <3>3. x \in Nat /\ y \in Nat /\ z \in Nat
        BY <1>1 DEF x, y, z
    <3>4. x <= z /\ (x < y \/ y < z => x < z)
        BY <3>2, <3>3
    <3>5. s.candidates \subseteq q.candidates /\ (s.candidates # q.candidates \/ x < z)
        BY <3>2, <3>4
    <3> QED
        BY <3>1, <3>4, <3>5 DEF Below, x, y, z
  <2> QED
      BY <2>2, <2>3
<1> QED
    BY <1>2, <1>3

(* Plain evidence is never out of force. *)
LEMMA PlainIsInForce ==
    ASSUME PlainEvidence, NEW o \in evidence, o \in Observations, NEW at \in Nat
    PROVE  Relation[o] = "SUPPORTS" /\ ~OutOfForce(o, at)
<1>1. /\ Relation[o] = "SUPPORTS"
      /\ ValidFrom[AssertionOf[o]] = 0 /\ ValidUntil[AssertionOf[o]] = 0
    BY DEF PlainEvidence
<1> QED
    BY <1>1 DEF OutOfForce

(* The resolver goes on accounting for what it has seen, and accounts for    *)
(* the new evidence as well.                                                 *)
LEMMA AdvanceAccounts ==
    ASSUME NEW s \in Resolution, Coherent(s), Witnessed(s), evidence \subseteq Observations,
           NEW o \in evidence, Relation[o] = "SUPPORTS", NEW at \in Nat, ~OutOfForce(o, at),
           NEW r, Advances(s, o, at, r)
    PROVE  /\ Witnessed(r) /\ Covers(r, o)
           /\ \A p \in Observations : Covers(s, p) => Covers(r, p)
<1> DEFINE a == AssertionOf[o]
           t == ObservedAt[o]
<1>1. /\ s.at \in Nat /\ t \in Nat /\ t > 0 /\ a \in Assertions /\ a # None
      /\ s.candidates \subseteq Assertions /\ None \notin Assertions
      /\ s.status \in Statuses /\ s.selected \in s.candidates \cup {None}
      /\ (s.status = "ACCEPTED") <=> (s.selected # None)
      /\ s.status = "NONE" => s.at = 0
    BY SemanticAssumption DEF Resolution, Coherent, NoHead, Support
<1>2. \A p \in Observations : ObservedAt[p] \in Nat
    BY SemanticAssumption
<1>3. CASE r = s /\ (t < s.at \/ (t = s.at /\ a \in s.candidates \cup {s.selected}))
  <2>1. Covers(s, o)
      BY <1>1, <1>3 DEF Covers
  <2> QED
      BY <1>3, <2>1
<1>4. CASE /\ s.status = "ACCEPTED" /\ s.selected = a /\ t > s.at
           /\ r = Support("ACCEPTED", s.candidates, a, t)
  <2>1. /\ r.status = "ACCEPTED" /\ r.candidates = s.candidates /\ r.selected = a /\ r.at = t
        /\ a \in s.candidates /\ \A b \in s.candidates : ValueOf[b] = ValueOf[a]
      BY <1>1, <1>4 DEF Support, Witnessed
  <2>2. Witnessed(r)
      BY <2>1 DEF Witnessed
  <2>3. Covers(r, o)
      BY <2>1 DEF Covers
  <2>4. \A p \in Observations : Covers(s, p) => Covers(r, p)
      BY <1>1, <1>2, <1>4, <2>1 DEF Covers
  <2> QED
      BY <2>2, <2>3, <2>4
<1>5. CASE t > s.at /\ r = Support("ACCEPTED", {a}, a, t)
  <2>1. r.status = "ACCEPTED" /\ r.candidates = {a} /\ r.selected = a /\ r.at = t
      BY <1>5 DEF Support
  <2>2. Witnessed(r)
      BY <2>1 DEF Witnessed
  <2>3. Covers(r, o)
      BY <2>1 DEF Covers
  <2>4. \A p \in Observations : Covers(s, p) => Covers(r, p)
      BY <1>1, <1>2, <1>5, <2>1 DEF Covers
  <2> QED
      BY <2>2, <2>3, <2>4
<1>6. CASE /\ t = s.at /\ s.status = "ACCEPTED" /\ ValueOf[s.selected] = ValueOf[a]
           /\ r = Support("ACCEPTED", s.candidates \cup {a}, s.selected, t)
  <2>1. /\ r.status = "ACCEPTED" /\ r.candidates = s.candidates \cup {a}
        /\ r.selected = s.selected /\ r.at = t
      BY <1>6 DEF Support
  <2>2. Witnessed(r)
      BY <1>6, <2>1 DEF Witnessed
  <2>3. Covers(r, o)
      BY <2>1 DEF Covers
  <2>4. \A p \in Observations : Covers(s, p) => Covers(r, p)
      BY <1>6, <2>1 DEF Covers
  <2> QED
      BY <2>2, <2>3, <2>4
<1>7. CASE /\ t = s.at /\ a \notin s.candidates
           /\ ~(s.status = "ACCEPTED" /\ s.selected # None /\ ValueOf[s.selected] = ValueOf[a])
           /\ r = Support("AMBIGUOUS", s.candidates \cup {a}, None, t)
  <2>1. /\ r.status = "AMBIGUOUS" /\ r.candidates = s.candidates \cup {a}
        /\ r.selected = None /\ r.at = t
      BY <1>7 DEF Support
  <2>2. s.status \in {"ACCEPTED", "AMBIGUOUS"}
      BY <1>1, <1>7 DEF Witnessed, Statuses
  <2>3. \E b, c \in r.candidates : ValueOf[b] # ValueOf[c]
    <3>1. CASE s.status = "ACCEPTED"
      <4>1. ValueOf[s.selected] # ValueOf[a] /\ s.selected \in r.candidates /\ a \in r.candidates
          BY <1>1, <1>7, <2>1, <3>1
      <4> QED
          BY <4>1
    <3>2. CASE s.status = "AMBIGUOUS"
        BY <2>1, <3>2 DEF Witnessed
    <3> QED
        BY <2>2, <3>1, <3>2
  <2>4. Witnessed(r)
    <3>1. \A b \in s.candidates :
             \E p \in evidence : ObservedAt[p] = t /\ ValueOf[AssertionOf[p]] = ValueOf[b]
        BY <1>7 DEF Witnessed
    <3>2. \A b \in r.candidates :
             \E p \in evidence : ObservedAt[p] = r.at /\ ValueOf[AssertionOf[p]] = ValueOf[b]
        BY <2>1, <3>1
    <3> QED
        BY <2>1, <2>3, <3>2 DEF Witnessed
  <2>5. Covers(r, o)
      BY <2>1 DEF Covers
  <2>6. \A p \in Observations : Covers(s, p) => Covers(r, p)
      BY <1>7, <2>1 DEF Covers
  <2> QED
      BY <2>4, <2>5, <2>6
<1> QED
    BY <1>3, <1>4, <1>5, <1>6, <1>7 DEF Advances
-----------------------------------------------------------------------------
(* The invariant. *)

LEMMA StartIsTyped == NoHead \in Resolution /\ Unknown \in Resolution /\ IdleDeriver \in Deriver
BY DEF NoHead, Unknown, Support, Resolution, Statuses, IdleDeriver, Deriver

(* At first nothing is known and nobody is at work. *)
LEMMA SemanticInitEstablishes == SemanticInit => SemanticIInv
<1> SUFFICES ASSUME SemanticInit PROVE SemanticIInv
    OBVIOUS
<1> USE DEF SemanticInit
<1>1. SemanticTyped
    BY StartIsTyped, SemanticAssumption DEF SemanticTyped
<1>2. HeadIsCoherent
    BY DEF HeadIsCoherent, Coherent, NoHead, Support
<1>3. \A w \in Derivers : deriver[w] = IdleDeriver /\ deriver[w].at = "idle"
    BY DEF IdleDeriver
<1>4. WorkersHold
    BY <1>3 DEF WorkersHold, Holds
<1>5. WorkIsEvidence /\ RevisionsLeadUp
    BY <1>3 DEF WorkIsEvidence, RevisionsLeadUp
<1>6. Witnessed(head)
    BY DEF Witnessed, NoHead, Support
<1>7. HeadAccounts
    BY <1>3, <1>6 DEF HeadAccounts
<1> QED
    BY <1>1, <1>2, <1>4, <1>5, <1>7 DEF SemanticIInv

(* What a step does to the work of a job: the page that a consolidation      *)
(* froze stays.                                                              *)
LEMMA WorkStays == UNCHANGED input => Work' = Work
BY DEF Work, WorkOf

LEMMA PlainBefore == evidence \subseteq evidence' /\ PlainEvidence' => PlainEvidence
BY DEF PlainEvidence

(* A step that leaves the records of the property alone. *)
LEMMA RecordsStay ==
    ASSUME SemanticIInv, UNCHANGED <<stated, evidence, head, revisions>>
    PROVE  /\ HeadIsCoherent' /\ RevisionsLeadUp'
           /\ PlainEvidence' => PlainEvidence /\ Witnessed(head)'
<1>1. HeadIsCoherent' /\ RevisionsLeadUp'
    BY DEF SemanticIInv, HeadIsCoherent, RevisionsLeadUp
<1>2. PlainEvidence' => PlainEvidence
    BY DEF PlainEvidence
<1>3. PlainEvidence => Witnessed(head)'
    BY DEF SemanticIInv, HeadAccounts, Witnessed
<1> QED
    BY <1>1, <1>2, <1>3

(* Two ways to begin a job. *)
LEMMA FreezePreserves ==
    ASSUME SemanticIInv, NEW w \in Derivers, NEW c \in Consolidations, FreezeInput(w, c)
    PROVE  SemanticIInv'
<1> USE SemanticAssumption
<1> DEFINE page == IF input[c] # {} THEN input[c] ELSE PageAfter(AfterKey[c])
           todo == UNION {StatesIn[k] : k \in page}
<1>1. /\ deriver[w] = IdleDeriver /\ c \notin published /\ page # {}
      /\ input' = [input EXCEPT ![c] = page]
      /\ deriver' = [deriver EXCEPT ![w] = [at |-> "next", job |-> c, seen |-> NoHead, todo |-> todo]]
      /\ UNCHANGED <<ingested, stated, evidence, head, revisions, published, lock, deaths>>
    BY DEF FreezeInput, Becomes
<1>2. SemanticTyped /\ WorkersHold /\ WorkIsEvidence /\ HeadAccounts
    BY DEF SemanticIInv
<1>3. page \subseteq Snapshots
    BY <1>2 DEF SemanticTyped, PageAfter
<1> HIDE DEF page
<1>4. todo \subseteq Observations
    BY <1>3
<1>5. PICK d : d = [at |-> "next", job |-> c, seen |-> NoHead, todo |-> todo]
    OBVIOUS
<1> HIDE DEF todo
<1>6. d \in Deriver /\ d.at = "next" /\ d.job = c /\ d.todo = todo
    BY <1>4, <1>5, StartIsTyped DEF Deriver, Jobs
<1>7. /\ deriver' \in [Derivers -> Deriver] /\ deriver'[w] = d
      /\ \A v \in Derivers \ {w} : deriver'[v] = deriver[v]
    BY <1>1, <1>2, <1>5, <1>6 DEF SemanticTyped
<1>8. /\ input' \in [Consolidations -> SUBSET Snapshots]
      /\ input'[c] = page /\ \A b \in Consolidations \ {c} : input'[b] = input[b]
    BY <1>1, <1>2, <1>3 DEF SemanticTyped
<1>9. input[c] # {} => page = input[c]
    BY DEF page
<1>10. SemanticTyped'
    BY <1>1, <1>2, <1>7, <1>8 DEF SemanticTyped
<1>11. Work'[c] = todo
    BY <1>8 DEF Work, WorkOf, Jobs, todo
<1>12. \A j \in Jobs : j # c \/ input[c] # {} => Work'[j] = Work[j]
    BY <1>8, <1>9 DEF Work, WorkOf, Jobs
<1>13. \A v \in Derivers \ {w} : deriver[v].at # "idle" =>
          /\ deriver[v].job \in Jobs /\ Work'[deriver[v].job] = Work[deriver[v].job]
          /\ deriver[v].job \in Consolidations => input'[deriver[v].job] # {}
    BY <1>1, <1>2, <1>8, <1>12 DEF WorkersHold, Holds
<1>14. \A j \in published : Work'[j] = Work[j]
    BY <1>1, <1>2, <1>12 DEF SemanticTyped
<1>15. WorkersHold'
  <2> SUFFICES ASSUME NEW v \in Derivers PROVE Holds(v, deriver[v])'
      BY DEF WorkersHold
  <2>1. CASE v = w
      BY <1>1, <1>6, <1>7, <1>8, <2>1 DEF Holds, Jobs
  <2>2. CASE v # w
      BY <1>1, <1>2, <1>7, <1>13, <2>2 DEF WorkersHold, Holds
  <2> QED
      BY <2>1, <2>2
<1>16. WorkIsEvidence'
  <2>1. ASSUME NEW v \in Derivers, deriver'[v].at # "idle"
        PROVE  Work'[deriver'[v].job] \ deriver'[v].todo \subseteq evidence'
    <3>1. CASE v = w
        BY <1>6, <1>7, <1>11, <3>1
    <3>2. CASE v # w
        BY <1>1, <1>2, <1>7, <1>13, <2>1, <3>2 DEF WorkIsEvidence
    <3> QED
        BY <3>1, <3>2
  <2>2. \A j \in published' : Work'[j] \subseteq evidence'
      BY <1>1, <1>2, <1>14 DEF WorkIsEvidence
  <2> QED
      BY <2>1, <2>2 DEF WorkIsEvidence
<1>17. /\ HeadIsCoherent' /\ RevisionsLeadUp'
       /\ PlainEvidence' => PlainEvidence /\ Witnessed(head)'
    BY <1>1, RecordsStay
<1>18. HeadAccounts'
  <2> SUFFICES ASSUME PlainEvidence'
               PROVE  /\ \A v \in Derivers : deriver'[v].at # "idle" =>
                            \A o \in Work'[deriver'[v].job] \ deriver'[v].todo : Covers(head', o)
                      /\ \A j \in published' : \A o \in Work'[j] : Covers(head', o)
      BY <1>17 DEF HeadAccounts
  <2>1. PlainEvidence
      BY <1>17
  <2>2. ASSUME NEW v \in Derivers, deriver'[v].at # "idle",
               NEW o \in Work'[deriver'[v].job] \ deriver'[v].todo
        PROVE  Covers(head', o)
    <3>1. v # w
        BY <1>6, <1>7, <1>11, <2>2
    <3> QED
        BY <1>1, <1>2, <1>7, <1>13, <2>1, <2>2, <3>1 DEF HeadAccounts
  <2>3. \A j \in published' : \A o \in Work'[j] : Covers(head', o)
      BY <1>1, <1>2, <1>14, <2>1 DEF HeadAccounts
  <2> QED
      BY <2>2, <2>3
<1> QED
    BY <1>10, <1>15, <1>16, <1>17, <1>18 DEF SemanticIInv

(* Any other step of a worker: the frozen pages stay, records are only       *)
(* added, and nobody else loses the lock or the head it has seen.            *)
LEMMA MovePreserves ==
    ASSUME SemanticIInv, NEW w \in Derivers, NEW d \in Deriver,
           deriver' = [deriver EXCEPT ![w] = d],
           UNCHANGED <<ingested, input>>, SemanticTyped',
           stated \subseteq stated', evidence \subseteq evidence', published \subseteq published',
           \A v \in Derivers \ {w} : lock = v => lock' = v,
           \A v \in Derivers \ {w} : deriver[v].at = "resolving" => head' = head,
           HeadIsCoherent', RevisionsLeadUp', Holds(w, d)',
           d.at # "idle" => Work[d.job] \ d.todo \subseteq evidence',
           \A j \in published' \ published : Work[j] \subseteq evidence',
           PlainEvidence' =>
               /\ Witnessed(head)'
               /\ \A p \in Observations : Covers(head, p) => Covers(head', p)
               /\ d.at # "idle" => \A p \in Work[d.job] \ d.todo : Covers(head', p)
               /\ \A j \in published' \ published : \A p \in Work[j] : Covers(head', p)
    PROVE  SemanticIInv'
<1>1. SemanticTyped /\ WorkersHold /\ WorkIsEvidence /\ HeadAccounts
    BY DEF SemanticIInv
<1>2. Work' = Work
    BY WorkStays
<1>3. /\ deriver'[w] = d
      /\ \A v \in Derivers \ {w} : deriver'[v] = deriver[v]
    BY <1>1 DEF SemanticTyped
<1>4. WorkersHold'
  <2> SUFFICES ASSUME NEW v \in Derivers PROVE Holds(v, deriver[v])'
      BY DEF WorkersHold
  <2>1. CASE v = w
      BY <1>3, <2>1 DEF Holds
  <2>2. CASE v # w
    <3>1. Holds(v, deriver[v]) /\ deriver'[v] = deriver[v] /\ input' = input
        BY <1>1, <1>3, <2>2 DEF WorkersHold
    <3>2. lock = v => lock' = v
        BY <2>2
    <3>3. deriver[v].at = "resolving" => head' = head
        BY <2>2
    <3> QED
        BY <3>1, <3>2, <3>3 DEF Holds
  <2> QED
      BY <2>1, <2>2
<1>5. WorkIsEvidence'
  <2>1. ASSUME NEW v \in Derivers, deriver'[v].at # "idle"
        PROVE  Work'[deriver'[v].job] \ deriver'[v].todo \subseteq evidence'
      BY <1>1, <1>2, <1>3, <2>1 DEF WorkIsEvidence
  <2>2. \A j \in published' : Work'[j] \subseteq evidence'
      BY <1>1, <1>2 DEF WorkIsEvidence
  <2> QED
      BY <2>1, <2>2 DEF WorkIsEvidence
<1>6. HeadAccounts'
  <2> SUFFICES ASSUME PlainEvidence'
               PROVE  /\ \A v \in Derivers : deriver'[v].at # "idle" =>
                            \A o \in Work'[deriver'[v].job] \ deriver'[v].todo : Covers(head', o)
                      /\ \A j \in published' : \A o \in Work'[j] : Covers(head', o)
      BY DEF HeadAccounts
  <2>1. /\ \A v \in Derivers : deriver[v].at # "idle" =>
              \A o \in Work[deriver[v].job] \ deriver[v].todo : Covers(head, o)
        /\ \A j \in published : \A o \in Work[j] : Covers(head, o)
      BY <1>1, PlainBefore DEF HeadAccounts
  <2>2. evidence \subseteq Observations
      BY <1>1 DEF SemanticTyped
  <2>3. ASSUME NEW v \in Derivers, deriver'[v].at # "idle",
               NEW o \in Work'[deriver'[v].job] \ deriver'[v].todo
        PROVE  Covers(head', o)
    <3>1. CASE v = w
        BY <1>2, <1>3, <2>3, <3>1
    <3>2. CASE v # w
      <4>1. /\ deriver[v].at # "idle" /\ o \in Work[deriver[v].job] \ deriver[v].todo
          BY <1>2, <1>3, <2>3, <3>2
      <4>2. o \in Observations
          BY <1>1, <2>2, <4>1 DEF WorkIsEvidence
      <4> QED
          BY <2>1, <4>1, <4>2
    <3> QED
        BY <3>1, <3>2
  <2>4. ASSUME NEW j \in published', NEW o \in Work'[j] PROVE Covers(head', o)
    <3>1. CASE j \in published
      <4>1. o \in Work[j] /\ o \in Observations
          BY <1>1, <1>2, <2>2, <2>4, <3>1 DEF WorkIsEvidence
      <4> QED
          BY <2>1, <3>1, <4>1
    <3>2. CASE j \notin published
        BY <1>2, <2>4, <3>2
    <3> QED
        BY <3>1, <3>2
  <2> QED
      BY <2>3, <2>4
<1> QED
    BY <1>4, <1>5, <1>6 DEF SemanticIInv

LEMMA ReportPreserves ==
    ASSUME SemanticIInv, NEW w \in Derivers, NEW c \in Callers, Report(w, c)
    PROVE  SemanticIInv'
<1>1. PICK d : d = [at |-> "next", job |-> c, seen |-> NoHead, todo |-> {Reports[c]}]
    OBVIOUS
<1>2. /\ deriver' = [deriver EXCEPT ![w] = d]
      /\ UNCHANGED <<ingested, input, stated, evidence, head, revisions, published, lock, deaths>>
    BY <1>1 DEF Report, Becomes
<1>3. c \in Jobs /\ c \notin Consolidations /\ Reports[c] \in Observations
    BY SemanticAssumption DEF Jobs
<1>4. d \in Deriver /\ d.at = "next" /\ d.job = c /\ d.todo = {Reports[c]}
    BY <1>1, <1>3, StartIsTyped DEF Deriver
<1>5. SemanticTyped'
    BY <1>2, <1>4 DEF SemanticIInv, SemanticTyped
<1>6. Holds(w, d)'
    BY <1>3, <1>4 DEF Holds
<1>7. Work[d.job] \ d.todo = {}
    BY <1>3, <1>4 DEF Work, WorkOf
<1>8. /\ HeadIsCoherent' /\ RevisionsLeadUp'
      /\ PlainEvidence' => Witnessed(head)'
    BY <1>2, RecordsStay
<1> QED
    BY <1>2, <1>4, <1>5, <1>6, <1>7, <1>8, MovePreserves

(* What the state of a busy worker says. *)
LEMMA Busy ==
    ASSUME SemanticIInv, NEW w \in Derivers, deriver[w].at # "idle"
    PROVE  /\ deriver[w] \in Deriver /\ Holds(w, deriver[w]) /\ deriver[w].job \in Jobs
           /\ Work[deriver[w].job] \ deriver[w].todo \subseteq evidence
           /\ PlainEvidence => \A p \in Work[deriver[w].job] \ deriver[w].todo : Covers(head, p)
<1>1. deriver[w] \in Deriver /\ Holds(w, deriver[w])
    BY DEF SemanticIInv, SemanticTyped, WorkersHold
<1>2. deriver[w].job \in Jobs
    BY <1>1 DEF Holds
<1> QED
    BY <1>1, <1>2 DEF SemanticIInv, WorkIsEvidence, HeadAccounts

LEMMA TakeLockPreserves ==
    ASSUME SemanticIInv, NEW w \in Derivers, TakeLock(w)
    PROVE  SemanticIInv'
<1>1. PICK d : d = [deriver[w] EXCEPT !.at = "locked"]
    OBVIOUS
<1>2. /\ deriver[w].at = "next" /\ deriver[w].todo # {} /\ lock = None /\ lock' = w
      /\ deriver' = [deriver EXCEPT ![w] = d]
      /\ UNCHANGED <<ingested, input, stated, evidence, head, revisions, published, deaths>>
    BY <1>1 DEF TakeLock, Becomes
<1>3. /\ deriver[w] \in Deriver /\ Holds(w, deriver[w])
      /\ Work[deriver[w].job] \ deriver[w].todo \subseteq evidence
      /\ PlainEvidence => \A p \in Work[deriver[w].job] \ deriver[w].todo : Covers(head, p)
    BY <1>2, Busy
<1>4. d \in Deriver /\ d.at = "locked" /\ d.job = deriver[w].job /\ d.todo = deriver[w].todo
    BY <1>1, <1>3 DEF Deriver
<1>5. SemanticTyped'
    BY <1>2, <1>4 DEF SemanticIInv, SemanticTyped
<1>6. Holds(w, d)'
    BY <1>2, <1>3, <1>4 DEF Holds
<1>7. \A v \in Derivers \ {w} : lock = v => lock' = v
    BY <1>2, SemanticAssumption
<1>8. /\ HeadIsCoherent' /\ RevisionsLeadUp'
      /\ PlainEvidence' => PlainEvidence /\ Witnessed(head)'
    BY <1>2, RecordsStay
<1> QED
    BY <1>2, <1>3, <1>4, <1>5, <1>6, <1>7, <1>8, MovePreserves

LEMMA PutAssertionPreserves ==
    ASSUME SemanticIInv, NEW w \in Derivers, PutAssertion(w)
    PROVE  SemanticIInv'
<1>1. PICK d : d = [deriver[w] EXCEPT !.at = "asserted"]
    OBVIOUS
<1>2. /\ deriver[w].at = "locked"
      /\ stated' = stated \cup {AssertionOf[Earliest(deriver[w].todo)]}
      /\ deriver' = [deriver EXCEPT ![w] = d]
      /\ UNCHANGED <<ingested, input, evidence, head, revisions, published, lock, deaths>>
    BY <1>1 DEF PutAssertion, Becomes
<1>3. /\ deriver[w] \in Deriver /\ Holds(w, deriver[w])
      /\ Work[deriver[w].job] \ deriver[w].todo \subseteq evidence
      /\ PlainEvidence => \A p \in Work[deriver[w].job] \ deriver[w].todo : Covers(head, p)
    BY <1>2, Busy
<1>4. d \in Deriver /\ d.at = "asserted" /\ d.job = deriver[w].job /\ d.todo = deriver[w].todo
    BY <1>1, <1>3 DEF Deriver
<1>5. AssertionOf[Earliest(deriver[w].todo)] \in Assertions
  <2>1. deriver[w].todo \in SUBSET Observations /\ deriver[w].todo # {}
      BY <1>2, <1>3 DEF Deriver, Holds
  <2> QED
      BY <2>1, EarliestIsIn, SemanticAssumption
<1>6. SemanticTyped'
    BY <1>2, <1>4, <1>5 DEF SemanticIInv, SemanticTyped
<1>7. Holds(w, d)'
    BY <1>2, <1>3, <1>4 DEF Holds
<1>8. HeadIsCoherent' /\ RevisionsLeadUp'
    BY <1>2 DEF SemanticIInv, HeadIsCoherent, RevisionsLeadUp
<1>9. PlainEvidence' => PlainEvidence /\ Witnessed(head)'
    BY <1>2 DEF SemanticIInv, HeadAccounts, Witnessed, PlainEvidence
<1>10. stated \subseteq stated'
    BY <1>2
<1> QED
    BY <1>2, <1>3, <1>4, <1>6, <1>7, <1>8, <1>9, <1>10, MovePreserves

LEMMA PutEvidencePreserves ==
    ASSUME SemanticIInv, NEW w \in Derivers, PutEvidence(w)
    PROVE  SemanticIInv'
<1>1. PICK d : d = [deriver[w] EXCEPT !.at = "resolving", !.seen = head]
    OBVIOUS
<1>2. /\ deriver[w].at = "asserted"
      /\ evidence' = evidence \cup {Earliest(deriver[w].todo)}
      /\ deriver' = [deriver EXCEPT ![w] = d]
      /\ UNCHANGED <<ingested, input, stated, head, revisions, published, lock, deaths>>
    BY <1>1 DEF PutEvidence, Becomes
<1>3. /\ deriver[w] \in Deriver /\ Holds(w, deriver[w]) /\ head \in Resolution
      /\ Work[deriver[w].job] \ deriver[w].todo \subseteq evidence
      /\ PlainEvidence => \A p \in Work[deriver[w].job] \ deriver[w].todo : Covers(head, p)
    BY <1>2, Busy DEF SemanticIInv, SemanticTyped
<1>4. /\ d \in Deriver /\ d.at = "resolving" /\ d.seen = head
      /\ d.job = deriver[w].job /\ d.todo = deriver[w].todo
    BY <1>1, <1>3 DEF Deriver
<1>5. Earliest(deriver[w].todo) \in Observations
  <2>1. deriver[w].todo \in SUBSET Observations /\ deriver[w].todo # {}
      BY <1>2, <1>3 DEF Deriver, Holds
  <2> QED
      BY <2>1, EarliestIsIn
<1>6. SemanticTyped'
    BY <1>2, <1>4, <1>5 DEF SemanticIInv, SemanticTyped
<1>7. Holds(w, d)'
    BY <1>2, <1>3, <1>4 DEF Holds
<1>8. HeadIsCoherent' /\ RevisionsLeadUp'
    BY <1>2 DEF SemanticIInv, HeadIsCoherent, RevisionsLeadUp
<1>9. evidence \subseteq evidence' /\ (PlainEvidence' => PlainEvidence)
    BY <1>2, PlainBefore
<1>10. PlainEvidence => Witnessed(head)'
    BY <1>2 DEF SemanticIInv, HeadAccounts, Witnessed
<1> QED
    BY <1>2, <1>3, <1>4, <1>6, <1>7, <1>8, <1>9, <1>10, MovePreserves

LEMMA PublishPreserves ==
    ASSUME SemanticIInv, NEW w \in Derivers, Publish(w)
    PROVE  SemanticIInv'
<1>1. /\ deriver[w].at = "next" /\ deriver[w].todo = {}
      /\ published' = published \cup {deriver[w].job}
      /\ deriver' = [deriver EXCEPT ![w] = IdleDeriver]
      /\ UNCHANGED <<ingested, input, stated, evidence, head, revisions, lock, deaths>>
    BY DEF Publish, Becomes
<1>2. /\ deriver[w].job \in Jobs
      /\ Work[deriver[w].job] \ deriver[w].todo \subseteq evidence
      /\ PlainEvidence => \A p \in Work[deriver[w].job] \ deriver[w].todo : Covers(head, p)
    BY <1>1, Busy
<1>3. IdleDeriver \in Deriver /\ IdleDeriver.at = "idle"
    BY StartIsTyped DEF IdleDeriver
<1>4. SemanticTyped'
    BY <1>1, <1>2, <1>3 DEF SemanticIInv, SemanticTyped
<1>5. PICK d \in Deriver : d = IdleDeriver /\ d.at = "idle"
    BY <1>3
<1>6. Holds(w, d)'
    BY <1>5 DEF Holds, IdleDeriver, NoHead
<1>7. /\ HeadIsCoherent' /\ RevisionsLeadUp'
      /\ PlainEvidence' => PlainEvidence /\ Witnessed(head)'
    BY <1>1, RecordsStay
<1>8. \A j \in published' \ published : j = deriver[w].job
    BY <1>1
<1>9. /\ \A j \in published' \ published : Work[j] \subseteq evidence'
      /\ PlainEvidence' => \A j \in published' \ published : \A p \in Work[j] : Covers(head', p)
    BY <1>1, <1>2, <1>7, <1>8
<1>10. published \subseteq published' /\ deriver' = [deriver EXCEPT ![w] = d]
    BY <1>1, <1>5
<1> QED
    BY <1>1, <1>4, <1>5, <1>6, <1>7, <1>9, <1>10, MovePreserves

LEMMA DeathPreserves ==
    ASSUME SemanticIInv, NEW w \in Derivers, DeriverDies(w)
    PROVE  SemanticIInv'
<1>1. /\ deaths < MaxDeaths /\ deaths' = deaths + 1
      /\ lock' = IF lock = w THEN None ELSE lock
      /\ deriver' = [deriver EXCEPT ![w] = IdleDeriver]
      /\ UNCHANGED <<ingested, input, stated, evidence, head, revisions, published>>
    BY DEF DeriverDies, Becomes
<1>2. PICK d \in Deriver : d = IdleDeriver /\ d.at = "idle"
    BY StartIsTyped DEF IdleDeriver
<1>3. deaths' \in 0 .. MaxDeaths
    BY <1>1, SemanticAssumption DEF SemanticIInv, SemanticTyped
<1>4. SemanticTyped'
    BY <1>1, <1>2, <1>3 DEF SemanticIInv, SemanticTyped
<1>5. Holds(w, d)'
    BY <1>2 DEF Holds, IdleDeriver, NoHead
<1>6. /\ HeadIsCoherent' /\ RevisionsLeadUp'
      /\ PlainEvidence' => PlainEvidence /\ Witnessed(head)'
    BY <1>1, RecordsStay
<1>7. \A v \in Derivers \ {w} : lock = v => lock' = v
    BY <1>1
<1>8. deriver' = [deriver EXCEPT ![w] = d]
    BY <1>1, <1>2
<1> QED
    BY <1>1, <1>2, <1>4, <1>5, <1>6, <1>7, <1>8, MovePreserves

(* The one step that moves the head.  The worker holds the lock, so it has   *)
(* seen the head, and nobody else is resolving.                              *)
LEMMA PersistPreserves ==
    ASSUME SemanticIInv, NEW w \in Derivers, PersistResolution(w)
    PROVE  SemanticIInv'
<1> DEFINE o == Earliest(deriver[w].todo)
           at == ResolvedAt[deriver[w].job]
<1>1. PICK d : d = [deriver[w] EXCEPT !.at = "next", !.todo = deriver[w].todo \ {o}, !.seen = NoHead]
    OBVIOUS
<1>2. deriver[w].at = "resolving"
    BY DEF PersistResolution
<1>3. /\ deriver[w] \in Deriver /\ Holds(w, deriver[w]) /\ deriver[w].job \in Jobs
      /\ Work[deriver[w].job] \ deriver[w].todo \subseteq evidence
      /\ PlainEvidence => \A p \in Work[deriver[w].job] \ deriver[w].todo : Covers(head, p)
    BY <1>2, Busy
<1>4. lock = w /\ o \in evidence /\ deriver[w].seen = head
    BY <1>2, <1>3 DEF Holds
<1>5. PICK r : r = AdvanceResolution(head, o, at)
    OBVIOUS
<1>6. /\ \/ r = head /\ UNCHANGED <<head, revisions>>
         \/ /\ r # head /\ head' = r
            /\ revisions' = revisions \cup {Revision(o, r, deriver[w].job, head)}
      /\ lock' = None
      /\ deriver' = [deriver EXCEPT ![w] = d]
      /\ UNCHANGED <<ingested, input, stated, evidence, published, deaths>>
    BY <1>1, <1>4, <1>5 DEF PersistResolution, Becomes
<1>7. /\ SemanticTyped /\ HeadIsCoherent /\ RevisionsLeadUp /\ HeadAccounts
      /\ head \in Resolution /\ Coherent(head) /\ evidence \subseteq Observations
    BY DEF SemanticIInv, SemanticTyped, HeadIsCoherent
<1>8. o \in Observations /\ at \in Nat /\ AssertionOf[o] \in stated
    BY <1>2, <1>3, <1>4, <1>7, SemanticAssumption DEF Holds
<1> HIDE DEF o, at
<1>9. Advances(head, o, at, r)
    BY <1>5, <1>7, <1>8, AdvanceCases
<1>10. /\ r \in Resolution /\ Coherent(r)
       /\ r.candidates \subseteq head.candidates \cup {AssertionOf[o]}
       /\ r = head \/ Below(head, r)
    BY <1>7, <1>8, <1>9, AdvanceGoesUp
<1>11. head' = r
    BY <1>6
<1>12. d \in Deriver /\ d.at = "next" /\ d.job = deriver[w].job /\ d.todo = deriver[w].todo \ {o}
    BY <1>1, <1>3, StartIsTyped DEF Deriver
<1>13. SemanticTyped'
    BY <1>6, <1>7, <1>10, <1>11, <1>12 DEF SemanticTyped
<1>14. HeadIsCoherent'
    BY <1>6, <1>7, <1>8, <1>10, <1>11 DEF HeadIsCoherent
<1>15. RevisionsLeadUp'
  <2>1. CASE r = head
    <3>1. head' = head /\ revisions' = revisions
        BY <1>6, <2>1
    <3> QED
        BY <1>7, <3>1 DEF RevisionsLeadUp
  <2>2. CASE r # head
    <3>1. PICK n : n = Revision(o, r, deriver[w].job, head)
        OBVIOUS
    <3>2. n.state = r /\ revisions' = revisions \cup {n}
        BY <1>6, <2>2, <3>1 DEF Revision
    <3>3. \A q \in revisions : q.state \in Resolution /\ Below(q.state, r)
      <4> SUFFICES ASSUME NEW q \in revisions PROVE q.state \in Resolution /\ Below(q.state, r)
          OBVIOUS
      <4>1. q.state \in Resolution /\ (q.state = head \/ Below(q.state, head)) /\ Below(head, r)
          BY <1>7, <1>10, <2>2 DEF RevisionsLeadUp
      <4> QED
          BY <1>7, <1>10, <4>1, BelowIsAnOrder
    <3>4. \A q \in revisions : q.state # r
        BY <1>10, <3>3, BelowIsAnOrder
    <3>5. \A q \in revisions' : q.state \in Resolution /\ (q.state = head' \/ Below(q.state, head'))
        BY <1>10, <1>11, <3>2, <3>3
    <3>6. \A p, q \in revisions' : p.state = q.state => p = q
        BY <1>7, <3>2, <3>4 DEF RevisionsLeadUp
    <3> QED
        BY <3>5, <3>6 DEF RevisionsLeadUp
  <2> QED
      BY <2>1, <2>2
<1>16. Holds(w, d)'
    BY <1>2, <1>3, <1>6, <1>12 DEF Holds
<1>17. \A v \in Derivers \ {w} : lock # v /\ deriver[v].at # "resolving"
    BY <1>4 DEF SemanticIInv, WorkersHold, Holds
<1>18. Work[d.job] \ d.todo \subseteq evidence
    BY <1>3, <1>4, <1>12
<1>19. ASSUME PlainEvidence'
       PROVE  /\ Witnessed(head)'
              /\ \A p \in Observations : Covers(head, p) => Covers(head', p)
              /\ \A p \in Work[d.job] \ d.todo : Covers(head', p)
  <2>1. PlainEvidence
      BY <1>6, <1>19, PlainBefore
  <2>2. Relation[o] = "SUPPORTS" /\ ~OutOfForce(o, at)
      BY <1>4, <1>8, <2>1, PlainIsInForce DEF o
  <2>3. Witnessed(head)
      BY <1>7, <2>1 DEF HeadAccounts
  <2>4. /\ Witnessed(r) /\ Covers(r, o)
        /\ \A p \in Observations : Covers(head, p) => Covers(r, p)
      BY <1>4, <1>7, <1>8, <1>9, <2>2, <2>3, AdvanceAccounts DEF o
  <2>5. Witnessed(head)'
      BY <1>6, <1>11, <2>4 DEF Witnessed
  <2>6. ASSUME NEW p \in Work[d.job] \ d.todo PROVE Covers(r, p)
    <3>1. p = o \/ p \in Work[deriver[w].job] \ deriver[w].todo
        BY <1>12
    <3>2. p \in Observations
        BY <1>7, <1>18
    <3> QED
        BY <1>3, <2>1, <2>4, <3>1, <3>2
  <2> QED
      BY <1>11, <2>4, <2>5, <2>6
<1> QED
    BY <1>6, <1>12, <1>13, <1>14, <1>15, <1>16, <1>17, <1>18, <1>19, MovePreserves

LEMMA SemanticStepPreserves == SemanticIInv /\ [SemanticNext]_semanticVars => SemanticIInv'
<1> SUFFICES ASSUME SemanticIInv, [SemanticNext]_semanticVars PROVE SemanticIInv'
    OBVIOUS
<1>1. ASSUME UNCHANGED <<input, stated, evidence, head, revisions, published, lock, deriver, deaths>>,
             ingested' \subseteq Snapshots
      PROVE  SemanticIInv'
  <2>1. Work' = Work
      BY <1>1, WorkStays
  <2>2. SemanticTyped'
      BY <1>1 DEF SemanticIInv, SemanticTyped
  <2>3. WorkersHold' /\ WorkIsEvidence'
      BY <1>1, <2>1 DEF SemanticIInv, WorkersHold, Holds, WorkIsEvidence
  <2>4. /\ HeadIsCoherent' /\ RevisionsLeadUp'
        /\ PlainEvidence' => PlainEvidence /\ Witnessed(head)'
      BY <1>1, RecordsStay
  <2>5. HeadAccounts'
      BY <1>1, <2>1, <2>4 DEF SemanticIInv, HeadAccounts
  <2> QED
      BY <2>2, <2>3, <2>4, <2>5 DEF SemanticIInv
<1>2. CASE UNCHANGED semanticVars
    BY <1>1, <1>2 DEF semanticVars, SemanticIInv, SemanticTyped
<1>3. ASSUME NEW k \in Snapshots, Ingest(k) PROVE SemanticIInv'
    BY <1>1, <1>3 DEF Ingest, SemanticIInv, SemanticTyped
<1>4. ASSUME NEW w \in Derivers, DeriverStep(w) PROVE SemanticIInv'
    BY <1>4, FreezePreserves, ReportPreserves, TakeLockPreserves, PutAssertionPreserves,
       PutEvidencePreserves, PersistPreserves, PublishPreserves DEF DeriverStep
<1>5. ASSUME NEW w \in Derivers, DeriverDies(w) PROVE SemanticIInv'
    BY <1>5, DeathPreserves
<1> QED
    BY <1>2, <1>3, <1>4, <1>5 DEF SemanticNext
-----------------------------------------------------------------------------
(* What the invariant is for. *)

(* A head that accounts for all evidence is what a look at all of it says. *)
LEMMA AccountsIsConverged == SemanticIInv => ResolutionConverges
<1> SUFFICES ASSUME SemanticIInv, EvidenceIsProcessed, PlainEvidence
             PROVE  LET full == ResolutionAsOf(evidence, Latest)
                    IN  IF head = NoHead THEN evidence = {}
                        ELSE /\ head.status = full.status
                             /\ {ValueOf[a] : a \in head.candidates} = full.values
    BY DEF ResolutionConverges
<1>1. /\ head \in Resolution /\ Coherent(head) /\ evidence \subseteq Observations
      /\ published \subseteq Jobs /\ Witnessed(head)
    BY DEF SemanticIInv, SemanticTyped, HeadIsCoherent, HeadAccounts
<1>2. \A o \in evidence : Covers(head, o)
    BY <1>1 DEF EvidenceIsProcessed, SemanticIInv, HeadAccounts, Work
<1>3. \A o \in evidence : ObservedAt[o] \in Nat /\ ObservedAt[o] > 0 /\ ObservedAt[o] <= Latest
    BY <1>1, SemanticAssumption, NothingIsLater
<1>4. CASE head = NoHead
  <2>1. head.at = 0
      BY <1>4 DEF NoHead, Support
  <2>2. \A o \in evidence : ~Covers(head, o)
      BY <1>3, <2>1 DEF Covers
  <2> QED
      BY <1>2, <1>4, <2>2
<1>5. CASE head # NoHead
  <2> DEFINE applying == {o \in evidence : AppliesAt(o, Latest)}
             supports == {o \in applying : Relation[o] = "SUPPORTS"}
             latest == Max({ObservedAt[o] : o \in supports})
             newest == {AssertionOf[o] : o \in {p \in supports : ObservedAt[p] = latest}}
             contested == \E o \in applying \ supports :
                             AssertionOf[o] \in newest /\ ObservedAt[o] >= latest
             values == {ValueOf[a] : a \in head.candidates}
  <2>1. \A o \in evidence : AppliesAt(o, Latest) /\ Relation[o] = "SUPPORTS"
      BY <1>3 DEF AppliesAt, PlainEvidence
  <2>2. applying = evidence /\ supports = evidence
      BY <2>1
  <2>3. head.status \in {"ACCEPTED", "AMBIGUOUS"} /\ head.candidates # {} /\ head.at \in Nat
      BY <1>1, <1>5 DEF Witnessed, Coherent, Resolution, Statuses
  <2>4. \A a \in head.candidates :
           \E o \in evidence : ObservedAt[o] = head.at /\ ValueOf[AssertionOf[o]] = ValueOf[a]
      BY <1>1 DEF Witnessed
  <2>5. evidence # {}
      BY <2>3, <2>4
  <2>6. latest = head.at
    <3> DEFINE times == {ObservedAt[o] : o \in evidence}
    <3>1. head.at \in times
        BY <2>3, <2>4
    <3>2. \A o \in evidence : ObservedAt[o] <= head.at
        BY <1>2, <1>3, <2>3 DEF Covers
    <3>3. times \subseteq Nat /\ \A n \in times : head.at >= n
        BY <1>3, <2>3, <3>2
    <3>4. Max(times) \in times /\ \A n \in times : Max(times) >= n
        BY <3>1, <3>3 DEF Max
    <3>5. Max(times) \in Nat /\ Max(times) >= head.at /\ head.at >= Max(times)
      <4> HIDE DEF times
      <4> QED
          BY <3>1, <3>3, <3>4
    <3>6. Max(times) = head.at
        BY <2>3, <3>5
    <3> QED
        BY <2>2, <3>6
  <2> HIDE DEF latest
  <2>7. newest = {AssertionOf[o] : o \in {p \in evidence : ObservedAt[p] = head.at}}
      BY <2>2, <2>6
  <2>8. {ValueOf[a] : a \in newest} = {ValueOf[AssertionOf[o]] : o \in {p \in evidence : ObservedAt[p] = head.at}}
      BY <2>7
  <2>9. {ValueOf[AssertionOf[o]] : o \in {p \in evidence : ObservedAt[p] = head.at}} = values
    <3>1. ASSUME NEW o \in evidence, ObservedAt[o] = head.at
          PROVE  ValueOf[AssertionOf[o]] \in values
        BY <1>2, <2>3, <3>1 DEF Covers
    <3>2. ASSUME NEW a \in head.candidates
          PROVE  ValueOf[a] \in {ValueOf[AssertionOf[o]] : o \in {p \in evidence : ObservedAt[p] = head.at}}
        BY <2>4
    <3> QED
        BY <3>1, <3>2
  <2>10. ~contested
      BY <2>2
  <2>11. IsFiniteSet(values)
    <3>1. {p \in evidence : ObservedAt[p] = head.at} \in SUBSET Observations
        BY <1>1
    <3> QED
        BY <2>9, <3>1, ValuesAreFinite
  <2>12. (Cardinality(values) = 1) <=> (head.status = "ACCEPTED")
    <3>1. CASE head.status = "ACCEPTED"
      <4>1. head.selected \in head.candidates /\ \A a \in head.candidates : ValueOf[a] = ValueOf[head.selected]
          BY <1>1, <3>1 DEF Coherent, Witnessed
      <4>2. values = {ValueOf[head.selected]}
          BY <4>1
      <4> QED
          BY <2>11, <3>1, <4>2, FS_Singleton
    <3>2. CASE head.status = "AMBIGUOUS"
      <4>1. PICK a \in head.candidates, b \in head.candidates : ValueOf[a] # ValueOf[b]
          BY <1>1, <3>2 DEF Witnessed
      <4>2. ValueOf[a] \in values /\ ValueOf[b] \in values
          OBVIOUS
      <4>3. ~\E x : values = {x}
          BY <4>1, <4>2
      <4> QED
          BY <2>11, <3>2, <4>3, FS_Singleton
    <3> QED
        BY <2>3, <3>1, <3>2
  <2>13. {ValueOf[a] : a \in newest} = values
      BY <2>8, <2>9
  <2>14. supports # {}
      BY <2>2, <2>5
  <2>15. ResolutionAsOf(evidence, Latest)
           = [status |-> IF Cardinality({ValueOf[a] : a \in newest}) = 1 /\ ~contested
                         THEN "ACCEPTED" ELSE "AMBIGUOUS",
              values |-> {ValueOf[a] : a \in newest}]
      BY <2>14 DEF ResolutionAsOf, latest
  <2> HIDE DEF newest, values, contested, supports, applying
  <2>16. ResolutionAsOf(evidence, Latest)
           = [status |-> IF Cardinality(values) = 1 THEN "ACCEPTED" ELSE "AMBIGUOUS",
              values |-> values]
      BY <2>10, <2>13, <2>15
  <2> QED
      BY <1>5, <2>3, <2>12, <2>16 DEF values
<1> QED
    BY <1>4, <1>5

LEMMA SemanticParts == SemanticIInv => FactsFollowEvidence
<1> SUFFICES ASSUME SemanticIInv PROVE FactsFollowEvidence
    OBVIOUS
<1>1. SemanticTypeOK
    BY DEF SemanticIInv, SemanticTyped, SemanticTypeOK, HeadIsCoherent, Coherent, Deriver
<1>2. PublishedPageIsEvidence
    BY DEF SemanticIInv, WorkIsEvidence, PublishedPageIsEvidence, Work, Jobs
<1>3. ResolutionIdIsUnique
    BY DEF SemanticIInv, RevisionsLeadUp, ResolutionIdIsUnique
<1> QED
    BY <1>1, <1>2, <1>3, AccountsIsConverged DEF FactsFollowEvidence

(* For any observations in any order, any pages, workers and deaths: what    *)
(* _advance_resolution has made step by step of the evidence that finished   *)
(* jobs put is what semantic_resolution_as_of makes of all of it, a          *)
(* published consolidation has turned its whole frozen page into evidence,   *)
(* and no resolution record is put under a name that was used before.        *)
THEOREM BeliefsFollowEvidence == SemanticSpec => []FactsFollowEvidence
<1>1. SemanticInit => SemanticIInv
    BY SemanticInitEstablishes
<1>2. SemanticIInv /\ [SemanticNext]_semanticVars => SemanticIInv'
    BY SemanticStepPreserves
<1>3. SemanticIInv => FactsFollowEvidence
    BY SemanticParts
<1> QED
    BY <1>1, <1>2, <1>3, PTL DEF SemanticSpec
-----------------------------------------------------------------------------
(* The projection. *)

Places == {"idle", "marks", "delta", "apply", "rebuild", "replace"}
Recall == [at : Places, cut : Nat, target : Nat, mark : Nat, found : SUBSET Seqs]

ProjectionTyped ==
    /\ allocated \subseteq Seqs /\ visible \subseteq Seqs
    /\ lexical \subseteq visible /\ features \subseteq lexical
    /\ recall \in [Recalls -> Recall]

(* A set of events that has every event which committed in order up to its   *)
(* last one.                                                                 *)
Reaches(S, e) == \E f \in S : e <= f
HasAllUpTo(S, T) == \A e \in visible \ late : Reaches(T, e) => e \in S

(* The two kinds of rows are the same, or there are none of one kind and no  *)
(* recall has gone past the marks.                                           *)
RowsAgree ==
    \/ lexical = features
    \/ features = {} /\ lexical # {} /\ \A r \in Recalls : recall[r].at \notin {"delta", "apply"}

(* What a recall has loaded is complete, together with the rows it will be   *)
(* added to, or by itself where it will replace them.                        *)
Loads(c) ==
    /\ c.at \in {"apply", "replace"} => c.found \subseteq visible
    /\ c.at = "replace" => HasAllUpTo(c.found, c.found)
    /\ ~undone /\ c.at = "delta" => /\ c.mark = 0 \/ c.mark \in visible
                                    /\ HasAllUpTo(lexical, {c.mark})
    /\ ~undone /\ c.at = "apply" => HasAllUpTo(lexical \cup c.found, c.found)

RecallsLoad == \A r \in Recalls : Loads(recall[r])

RowsStand ==
    ~undone /\ lexical = features =>
        /\ HasAllUpTo(lexical, lexical)
        /\ late = {} => edges = DeriveAssociations(lexical)

ProjectionIInv == ProjectionTyped /\ RowsAgree /\ RecallsLoad /\ RowsStand
-----------------------------------------------------------------------------
LEMMA LastOfSeqs ==
    ASSUME NEW S \in SUBSET Seqs, S # {}
    PROVE  Max(S) \in S /\ \A e \in S : e <= Max(S)
<1> DEFINE back == {LastSeq - e : e \in S}
<1>1. LastSeq \in Nat
    BY ProjectionAssumption
<1>a. \A e \in S : e \in Nat /\ LastSeq - e \in Nat
    BY <1>1 DEF Seqs
<1>2. back \in SUBSET Nat /\ back # {}
    BY <1>a
<1>3. PICK n \in back : \A m \in back : n <= m
    BY <1>2, LeastNumber
<1>4. PICK f \in S : n = LastSeq - f
    OBVIOUS
<1>5. ASSUME NEW e \in S PROVE f >= e
  <2>1. n <= LastSeq - e
      BY <1>3
  <2> QED
      BY <1>1, <1>a, <1>4, <2>1
<1>6. \E x \in S : \A y \in S : x >= y
    BY <1>5
<1>7. Max(S) \in S /\ \A y \in S : Max(S) >= y
    BY <1>6 DEF Max
<1> QED
    BY <1>1, <1>7 DEF Seqs

LEMMA HighWaterIsLast ==
    ASSUME NEW S \in SUBSET Seqs
    PROVE  /\ HighWater(S) \in Nat
           /\ S = {} => HighWater(S) = 0
           /\ S # {} => HighWater(S) \in S /\ HighWater(S) > 0
           /\ \A e \in S : e <= HighWater(S)
<1>1. \A e \in Seqs : e \in Nat /\ e > 0
    BY DEF Seqs
<1>2. CASE S = {}
    BY <1>2 DEF HighWater
<1>3. CASE S # {}
  <2>1. HighWater(S) \in S /\ \A e \in S : e <= HighWater(S)
      BY <1>3, LastOfSeqs DEF HighWater
  <2> QED
      BY <1>1, <1>3, <2>1
<1> QED
    BY <1>2, <1>3

(* An edge joins an event to an earlier one. *)
LEMMA EdgesOfJoin ==
    ASSUME NEW S \in SUBSET Seqs, NEW e \in Seqs, NEW x \in EdgesOf(e, S)
    PROVE  \E p \in S : p < e /\ (x = <<e, p>> \/ x = <<p, e>>)
<1>1. PreviousState(e, S) \in SUBSET Seqs /\ PreviousUnresolved(e, S) \in SUBSET Seqs
    BY DEF PreviousState, PreviousUnresolved
<1>2. CASE PreviousState(e, S) # {} /\ x = <<e, Max(PreviousState(e, S))>>
  <2>1. Max(PreviousState(e, S)) \in PreviousState(e, S)
      BY <1>1, <1>2, LastOfSeqs
  <2> QED
      BY <1>2, <2>1 DEF PreviousState
<1>3. CASE PreviousUnresolved(e, S) # {} /\ x = <<Max(PreviousUnresolved(e, S)), e>>
  <2>1. Max(PreviousUnresolved(e, S)) \in PreviousUnresolved(e, S)
      BY <1>1, <1>3, LastOfSeqs
  <2> QED
      BY <1>3, <2>1 DEF PreviousUnresolved
<1> QED
    BY <1>2, <1>3 DEF EdgesOf

(* Its edges depend on the events before it alone. *)
LEMMA EdgesOfLooksBack ==
    ASSUME NEW S, NEW T, NEW e, \A p : p < e => (p \in S <=> p \in T)
    PROVE  EdgesOf(e, S) = EdgesOf(e, T)
<1>1. PreviousState(e, S) = PreviousState(e, T)
    BY DEF PreviousState
<1>2. PreviousUnresolved(e, S) = PreviousUnresolved(e, T)
    BY DEF PreviousUnresolved
<1> QED
    BY <1>1, <1>2 DEF EdgesOf

(* What a bound leaves of the edges of all events are the edges of the       *)
(* events before it.                                                         *)
LEMMA BoundedEdges ==
    ASSUME NEW S \in SUBSET Seqs, NEW cut \in Seqs
    PROVE  {x \in DeriveAssociations(S) : ~Crosses(x, cut)}
             = {x \in DeriveAssociations({e \in S : e < cut}) : ~Crosses(x, LastSeq + 1)}
<1>1. PICK T \in SUBSET Seqs : T = {e \in S : e < cut}
    OBVIOUS
<1>2. LastSeq \in Nat /\ cut \in Nat /\ \A e \in Seqs : e \in Nat /\ e < LastSeq + 1
    BY ProjectionAssumption DEF Seqs
<1>3. ASSUME NEW e \in S, e < cut PROVE EdgesOf(e, S) = EdgesOf(e, T)
  <2>1. \A p \in S : p < e => p < cut
      BY <1>2, <1>3
  <2>2. \A p : p < e => (p \in S <=> p \in T)
      BY <1>1, <2>1
  <2> QED
      BY <2>2, EdgesOfLooksBack
<1>4. ASSUME NEW x \in DeriveAssociations(S), ~Crosses(x, cut)
      PROVE  x \in DeriveAssociations(T) /\ ~Crosses(x, LastSeq + 1)
  <2>1. PICK e \in S : x \in EdgesOf(e, S)
      BY <1>4 DEF DeriveAssociations
  <2>2. PICK p \in S : p < e /\ (x = <<e, p>> \/ x = <<p, e>>)
      BY <2>1, EdgesOfJoin
  <2>3. e < cut
      BY <1>2, <1>4, <2>2 DEF Crosses
  <2>4. x \in EdgesOf(e, T) /\ e \in T
      BY <1>1, <1>3, <2>1, <2>3
  <2>5. ~Crosses(x, LastSeq + 1)
      BY <1>2, <2>2 DEF Crosses
  <2> QED
      BY <2>4, <2>5 DEF DeriveAssociations
<1>5. ASSUME NEW x \in DeriveAssociations(T)
      PROVE  x \in DeriveAssociations(S) /\ ~Crosses(x, cut)
  <2>1. PICK e \in T : x \in EdgesOf(e, T)
      BY <1>5 DEF DeriveAssociations
  <2>2. e \in S /\ e < cut
      BY <1>1
  <2>3. PICK p \in T : p < e /\ (x = <<e, p>> \/ x = <<p, e>>)
      BY <2>1, EdgesOfJoin
  <2>4. ~Crosses(x, cut)
      BY <1>1, <1>2, <2>2, <2>3 DEF Crosses
  <2>5. x \in EdgesOf(e, S)
      BY <1>3, <2>1, <2>2
  <2> QED
      BY <2>2, <2>4, <2>5 DEF DeriveAssociations
<1> QED
    BY <1>1, <1>4, <1>5

(* Edges of a set that is complete up to its last event stay when later      *)
(* events join.                                                              *)
LEMMA EdgesGrow ==
    ASSUME NEW S \in SUBSET Seqs, NEW F \in SUBSET Seqs, \A e \in F : Reaches(S, e) => e \in S
    PROVE  DeriveAssociations(S) \cup UNION {EdgesOf(e, S \cup F) : e \in F} = DeriveAssociations(S \cup F)
<1>1. ASSUME NEW e \in S PROVE EdgesOf(e, S) = EdgesOf(e, S \cup F)
  <2>1. \A p \in F : p < e => p \in S
      BY ProjectionAssumption DEF Reaches, Seqs
  <2> QED
      BY <2>1, EdgesOfLooksBack
<1>2. PICK T : T = S \cup F
    OBVIOUS
<1>3. ASSUME NEW x PROVE x \in DeriveAssociations(T)
                         <=> (x \in DeriveAssociations(S) \/ \E e \in F : x \in EdgesOf(e, T))
  <2>1. x \in DeriveAssociations(T) <=> \E e \in T : x \in EdgesOf(e, T)
      BY DEF DeriveAssociations
  <2>2. x \in DeriveAssociations(S) <=> \E e \in S : x \in EdgesOf(e, S)
      BY DEF DeriveAssociations
  <2> QED
      BY <1>1, <1>2, <2>1, <2>2
<1>4. \A x : x \in UNION {EdgesOf(e, T) : e \in F} <=> \E e \in F : x \in EdgesOf(e, T)
    OBVIOUS
<1> QED
    BY <1>2, <1>3, <1>4
-----------------------------------------------------------------------------
LEMMA NoRecallIsARecall == NoRecall \in Recall /\ NoRecall.at = "idle"
BY DEF NoRecall, Recall, Places

LEMMA ProjectionInitEstablishes == ProjectionInit => ProjectionIInv
<1> SUFFICES ASSUME ProjectionInit PROVE ProjectionIInv
    OBVIOUS
<1>1. 1 \in Seqs
    BY ProjectionAssumption DEF Seqs
<1>2. /\ allocated = {} /\ visible \in {{}, {1}} /\ lexical \subseteq visible
      /\ late = {} /\ features = {} /\ edges = {}
      /\ recall = [r \in Recalls |-> NoRecall]
    BY DEF ProjectionInit
<1>3. ProjectionTyped
    BY <1>1, <1>2, NoRecallIsARecall DEF ProjectionTyped
<1>4. RowsAgree /\ RecallsLoad
    BY <1>2, NoRecallIsARecall DEF RowsAgree, RecallsLoad, Loads
<1>5. RowsStand
    BY <1>2 DEF RowsStand, HasAllUpTo, Reaches, DeriveAssociations
<1> QED
    BY <1>3, <1>4, <1>5 DEF ProjectionIInv

(* A step that moves one recall and leaves all rows alone. *)
LEMMA RecallMoves ==
    ASSUME ProjectionIInv, NEW r \in Recalls, NEW c \in Recall,
           recall' = [recall EXCEPT ![r] = c],
           UNCHANGED <<allocated, visible, late, undone, lexical, features, edges>>,
           Loads(c), c.at \in {"delta", "apply"} => lexical = features
    PROVE  ProjectionIInv'
<1>1. ProjectionTyped /\ RowsAgree /\ RecallsLoad /\ RowsStand
    BY DEF ProjectionIInv
<1>2. \A q \in Recalls : recall'[q] = IF q = r THEN c ELSE recall[q]
    BY <1>1 DEF ProjectionTyped
<1>3. ProjectionTyped' /\ RowsAgree'
    BY <1>1, <1>2 DEF ProjectionTyped, RowsAgree
<1>4. RecallsLoad'
  <2> SUFFICES ASSUME NEW q \in Recalls PROVE Loads(recall[q])'
      BY DEF RecallsLoad
  <2>1. PICK d : d = recall'[q] /\ Loads(d)
      BY <1>1, <1>2 DEF RecallsLoad
  <2> QED
      BY <2>1 DEF Loads, HasAllUpTo, Reaches
<1>5. RowsStand'
    BY <1>1 DEF RowsStand, HasAllUpTo, Reaches
<1> QED
    BY <1>3, <1>4, <1>5 DEF ProjectionIInv

(* A recall that commits rows: those of the delta in addition, or those of a *)
(* rebuild in place of all.                                                  *)
LEMMA RowsChange ==
    ASSUME ProjectionIInv, NEW r \in Recalls, NEW rows \in SUBSET visible,
           recall' = [recall EXCEPT ![r] = NoRecall],
           UNCHANGED <<allocated, visible, late>>,
           lexical' = rows, features' = rows,
           ~undone' => ~undone /\ lexical \subseteq rows /\ HasAllUpTo(rows, rows),
           ~undone' /\ late = {} => edges' = DeriveAssociations(rows)
    PROVE  ProjectionIInv'
<1>1. ProjectionTyped /\ RecallsLoad
    BY DEF ProjectionIInv
<1>2. \A q \in Recalls : recall'[q] = IF q = r THEN NoRecall ELSE recall[q]
    BY <1>1 DEF ProjectionTyped
<1>3. ProjectionTyped' /\ RowsAgree'
    BY <1>1, NoRecallIsARecall DEF ProjectionTyped, RowsAgree
<1>4. RecallsLoad'
  <2> SUFFICES ASSUME NEW q \in Recalls PROVE Loads(recall[q])'
      BY DEF RecallsLoad
  <2>1. CASE q = r
      BY <1>2, <2>1, NoRecallIsARecall DEF Loads
  <2>2. CASE q # r
    <3>1. PICK d : d = recall'[q] /\ Loads(d)
        BY <1>1, <1>2, <2>2 DEF RecallsLoad
    <3>2. \A S, T : HasAllUpTo(S, T)' <=> HasAllUpTo(S, T)
        BY DEF HasAllUpTo, Reaches
    <3>3. ~undone' /\ d.at = "delta" => /\ d.mark = 0 \/ d.mark \in visible
                                        /\ HasAllUpTo(rows, {d.mark})
        BY <3>1 DEF Loads, HasAllUpTo
    <3>4. ~undone' /\ d.at = "apply" => HasAllUpTo(rows \cup d.found, d.found)
        BY <3>1 DEF Loads, HasAllUpTo
    <3> QED
        BY <3>1, <3>2, <3>3, <3>4 DEF Loads, HasAllUpTo, Reaches
  <2> QED
      BY <2>1, <2>2
<1>5. RowsStand'
    BY DEF RowsStand, HasAllUpTo, Reaches
<1> QED
    BY <1>3, <1>4, <1>5 DEF ProjectionIInv

(* What was complete stays complete when an event commits: it lies above, or *)
(* it is late.                                                               *)
LEMMA CommitKeeps ==
    ASSUME ProjectionIInv, NEW e \in Seqs, CommitEvent(e),
           NEW S, NEW T, T \subseteq visible \cup {0}, HasAllUpTo(S, T)
    PROVE  \A x \in visible' \ late' : Reaches(T, x) => x \in S
<1> SUFFICES ASSUME NEW x \in visible' \ late', NEW t \in T, x <= t PROVE x \in S
    BY DEF Reaches
<1>1. visible \in SUBSET Seqs
    BY DEF ProjectionIInv, ProjectionTyped
<1>2. visible' = visible \cup {e} /\ late \subseteq late' /\ (e < HighWater(visible) => e \in late')
    BY DEF CommitEvent
<1>3. CASE x \in visible
    BY <1>2, <1>3 DEF HasAllUpTo, Reaches
<1>4. CASE x \notin visible
  <2>1. x = e /\ ~(e < HighWater(visible)) /\ HighWater(visible) \in Nat
      BY <1>1, <1>2, <1>4, HighWaterIsLast
  <2>2. e \in Nat /\ e > 0
      BY DEF Seqs
  <2>3. t \in visible
      BY <2>1, <2>2
  <2>4. t <= HighWater(visible) /\ t \in Nat
      BY <1>1, <2>3, HighWaterIsLast DEF Seqs
  <2>5. t = e
      BY <2>1, <2>2, <2>4
  <2> QED
      BY <1>4, <2>1, <2>3, <2>5
<1> QED
    BY <1>3, <1>4

LEMMA CommitPreserves ==
    ASSUME ProjectionIInv, NEW e \in Seqs, CommitEvent(e)
    PROVE  ProjectionIInv'
<1>1. ProjectionTyped /\ RowsAgree /\ RecallsLoad /\ RowsStand
    BY DEF ProjectionIInv
<1>2. /\ allocated' = allocated \ {e} /\ visible' = visible \cup {e} /\ late \subseteq late'
      /\ UNCHANGED <<undone, lexical, features, edges, recall>>
    BY DEF CommitEvent
<1>3. ProjectionTyped' /\ RowsAgree'
    BY <1>1, <1>2 DEF ProjectionTyped, RowsAgree
<1>4. RecallsLoad'
  <2> SUFFICES ASSUME NEW r \in Recalls PROVE Loads(recall[r])'
      BY DEF RecallsLoad
  <2>1. PICK d : d = recall[r] /\ Loads(d)
      BY <1>1 DEF RecallsLoad
  <2>2. d.at = "replace" => \A x \in visible' \ late' : Reaches(d.found, x) => x \in d.found
      BY <2>1, CommitKeeps DEF Loads
  <2>3. ~undone /\ d.at = "delta" => \A x \in visible' \ late' : Reaches({d.mark}, x) => x \in lexical
    <3>1. ~undone /\ d.at = "delta" => {d.mark} \subseteq visible \cup {0} /\ HasAllUpTo(lexical, {d.mark})
        BY <2>1 DEF Loads
    <3> QED
        BY <3>1, CommitKeeps
  <2>4. ~undone /\ d.at = "apply" =>
            \A x \in visible' \ late' : Reaches(d.found, x) => x \in lexical \cup d.found
    <3>1. ~undone /\ d.at = "apply" => d.found \subseteq visible \cup {0}
                                       /\ HasAllUpTo(lexical \cup d.found, d.found)
        BY <2>1 DEF Loads
    <3> QED
        BY <3>1, CommitKeeps
  <2>5. d = recall'[r]
      BY <1>2, <2>1
  <2> QED
      BY <1>2, <2>1, <2>2, <2>3, <2>4, <2>5 DEF Loads, HasAllUpTo, Reaches
<1>5. RowsStand'
  <2> SUFFICES ASSUME ~undone, lexical = features
               PROVE  /\ \A x \in visible' \ late' : Reaches(lexical, x) => x \in lexical
                      /\ late' = {} => edges = DeriveAssociations(lexical)
      BY <1>2 DEF RowsStand, HasAllUpTo, Reaches
  <2>1. HasAllUpTo(lexical, lexical) /\ (late = {} => edges = DeriveAssociations(lexical))
      BY <1>1 DEF RowsStand
  <2>2. lexical \subseteq visible \cup {0}
      BY <1>1 DEF ProjectionTyped
  <2> QED
      BY <1>2, <2>1, <2>2, CommitKeeps
<1> QED
    BY <1>3, <1>4, <1>5 DEF ProjectionIInv

LEMMA ReadTargetPreserves ==
    ASSUME ProjectionIInv, NEW r \in Recalls, NEW cut \in 2 .. LastSeq + 1, ReadTarget(r, cut)
    PROVE  ProjectionIInv'
<1>1. PICK target : target = HighWater({e \in visible : e < cut})
    OBVIOUS
<1>2. target \in Nat /\ cut \in Nat
  <2>1. {e \in visible : e < cut} \in SUBSET Seqs
      BY DEF ProjectionIInv, ProjectionTyped
  <2> QED
      BY <1>1, <2>1, HighWaterIsLast, ProjectionAssumption
<1>3. PICK d \in Recall : d = NoRecall
    BY NoRecallIsARecall
<1>4. PICK c : c = [d EXCEPT !.at = "marks", !.cut = cut, !.target = target]
    OBVIOUS
<1>5. c = [at |-> "marks", cut |-> cut, target |-> target, mark |-> d.mark, found |-> d.found]
    BY <1>4 DEF Recall
<1>6. c \in Recall /\ c.at = "marks"
    BY <1>2, <1>5 DEF Recall, Places
<1>7. /\ recall' = [recall EXCEPT ![r] = c]
      /\ UNCHANGED <<allocated, visible, late, undone, lexical, features, edges>>
    BY <1>1, <1>3, <1>4 DEF ReadTarget
<1>8. Loads(c)
    BY <1>6 DEF Loads
<1> QED
    BY <1>6, <1>7, <1>8, RecallMoves

(* A recall gives up, and what it did is rolled back. *)
LEMMA StopPreserves ==
    ASSUME ProjectionIInv, NEW r \in Recalls, Stop(r),
           UNCHANGED <<allocated, visible, late, undone, lexical, features, edges>>
    PROVE  ProjectionIInv'
<1>1. PICK c \in Recall : c = NoRecall /\ c.at = "idle"
    BY NoRecallIsARecall
<1>2. Loads(c)
    BY <1>1 DEF Loads
<1>3. recall' = [recall EXCEPT ![r] = c]
    BY <1>1 DEF Stop
<1> QED
    BY <1>1, <1>2, <1>3, RecallMoves

(* Two marks that agree are those of the same rows. *)
LEMMA MarksTellRows == ProjectionIInv /\ MarksAgree => lexical = features
<1> SUFFICES ASSUME ProjectionIInv, MarksAgree, lexical # features PROVE FALSE
    OBVIOUS
<1>1. features = {} /\ lexical # {} /\ lexical \in SUBSET Seqs
    BY DEF ProjectionIInv, ProjectionTyped, RowsAgree
<1>2. HighWater(lexical) \in Nat /\ HighWater(lexical) > 0 /\ HighWater(features) = 0
    BY <1>1, HighWaterIsLast
<1> QED
    BY <1>2 DEF MarksAgree

LEMMA ReadMarksPreserves ==
    ASSUME ProjectionIInv, NEW r \in Recalls, ReadMarks(r)
    PROVE  ProjectionIInv'
<1>1. ProjectionTyped /\ RowsStand /\ recall[r] \in Recall
    BY DEF ProjectionIInv, ProjectionTyped
<1>2. UNCHANGED <<allocated, visible, late, undone, lexical, features, edges>>
    BY DEF ReadMarks
<1>3. PICK d \in Recall : d = recall[r]
    BY <1>1
<1>4. CASE recall' = [recall EXCEPT ![r].at = "rebuild"]
  <2>1. PICK c : c = [d EXCEPT !.at = "rebuild"]
      OBVIOUS
  <2>2. c \in Recall /\ c.at = "rebuild"
      BY <2>1 DEF Recall, Places
  <2>3. recall' = [recall EXCEPT ![r] = c] /\ Loads(c)
      BY <1>3, <1>4, <2>1, <2>2 DEF Loads
  <2> QED
      BY <1>2, <2>2, <2>3, RecallMoves
<1>5. CASE Stop(r)
    BY <1>2, <1>5, StopPreserves
<1>6. CASE MarksAgree /\ recall' = [recall EXCEPT ![r].at = "delta", ![r].mark = HighWater(lexical)]
  <2>1. PICK m \in Nat : m = HighWater(lexical) /\ (m = 0 \/ m \in lexical)
      BY <1>1, HighWaterIsLast DEF ProjectionTyped
  <2>2. lexical = features
      BY <1>6, MarksTellRows
  <2>3. PICK c : c = [d EXCEPT !.at = "delta", !.mark = m]
      OBVIOUS
  <2>4. c = [at |-> "delta", cut |-> d.cut, target |-> d.target, mark |-> m, found |-> d.found]
      BY <2>3 DEF Recall
  <2>5. c \in Recall /\ c.at = "delta" /\ c.mark = m
      BY <2>4 DEF Recall, Places
  <2>6. recall' = [recall EXCEPT ![r] = c]
    <3>1. recall' = [recall EXCEPT ![r] = [recall[r] EXCEPT !.at = "delta", !.mark = HighWater(lexical)]]
        BY <1>1, <1>6 DEF ProjectionTyped
    <3> QED
        BY <1>3, <2>1, <2>3, <3>1
  <2>7. ~undone => HasAllUpTo(lexical, {m})
    <3> SUFFICES ASSUME ~undone, NEW e \in visible \ late, e <= m PROVE e \in lexical
        BY DEF HasAllUpTo, Reaches
    <3>1. e > 0 /\ e \in Nat
        BY <1>1 DEF ProjectionTyped, Seqs
    <3>2. m \in lexical
        BY <2>1, <3>1
    <3> QED
        BY <1>1, <2>2, <3>2 DEF RowsStand, HasAllUpTo, Reaches
  <2>8. Loads(c)
      BY <1>1, <2>1, <2>5, <2>7 DEF Loads, ProjectionTyped
  <2> QED
      BY <1>2, <2>2, <2>5, <2>6, <2>8, RecallMoves
<1> QED
    BY <1>4, <1>5, <1>6 DEF ReadMarks, MarksAgree

LEMMA LoadDeltaPreserves ==
    ASSUME ProjectionIInv, NEW r \in Recalls, LoadDelta(r)
    PROVE  ProjectionIInv'
<1>1. ProjectionTyped /\ RowsAgree /\ RecallsLoad /\ recall[r] \in Recall /\ recall[r].at = "delta"
    BY DEF ProjectionIInv, ProjectionTyped, LoadDelta
<1>2. UNCHANGED <<allocated, visible, late, undone, lexical, features, edges>>
    BY DEF LoadDelta
<1>3. PICK d \in Recall : d = recall[r] /\ Loads(d) /\ d.at = "delta"
    BY <1>1 DEF RecallsLoad
<1>4. CASE Stop(r)
    BY <1>2, <1>4, StopPreserves
<1>5. CASE recall' = [recall EXCEPT ![r].at = "apply", ![r].found = Delta(r)]
  <2>1. PICK F \in SUBSET visible : F = Delta(r) /\ F = {e \in visible : e > d.mark /\ e < d.cut}
      BY <1>3 DEF Delta
  <2>2. PICK c : c = [d EXCEPT !.at = "apply", !.found = F]
      OBVIOUS
  <2>3. c = [at |-> "apply", cut |-> d.cut, target |-> d.target, mark |-> d.mark, found |-> F]
      BY <2>2 DEF Recall
  <2>4. c \in Recall /\ c.at = "apply" /\ c.found = F
      BY <1>1, <2>3 DEF Recall, Places, ProjectionTyped
  <2>5. recall' = [recall EXCEPT ![r] = c]
    <3>1. recall' = [recall EXCEPT ![r] = [recall[r] EXCEPT !.at = "apply", !.found = Delta(r)]]
        BY <1>1, <1>5 DEF ProjectionTyped
    <3> QED
        BY <1>3, <2>1, <2>2, <3>1
  <2>6. ~undone => HasAllUpTo(lexical \cup F, F)
    <3> SUFFICES ASSUME ~undone, NEW e \in visible \ late, NEW f \in F, e <= f
                 PROVE  e \in lexical \cup F
        BY DEF HasAllUpTo, Reaches
    <3>1. e \in Nat /\ f \in Nat /\ d.mark \in Nat /\ d.cut \in Nat
        BY <1>1 DEF ProjectionTyped, Seqs, Recall
    <3>2. f < d.cut
        BY <2>1
    <3>3. CASE e > d.mark
        BY <2>1, <3>1, <3>2, <3>3
    <3>4. CASE e <= d.mark
        BY <1>3, <3>4 DEF Loads, HasAllUpTo, Reaches
    <3> QED
        BY <3>1, <3>3, <3>4
  <2>7. Loads(c)
      BY <2>4, <2>6 DEF Loads
  <2>8. lexical = features
      BY <1>1 DEF RowsAgree
  <2> QED
      BY <1>2, <2>4, <2>5, <2>7, <2>8, RecallMoves
<1> QED
    BY <1>4, <1>5 DEF LoadDelta

LEMMA ApplyDeltaPreserves ==
    ASSUME ProjectionIInv, NEW r \in Recalls, ApplyDelta(r)
    PROVE  ProjectionIInv'
<1>1. ProjectionTyped /\ RowsAgree /\ RecallsLoad /\ RowsStand /\ recall[r].at = "apply"
    BY DEF ProjectionIInv, ApplyDelta
<1>2. PICK F : F = recall[r].found
    OBVIOUS
<1>3. F \subseteq visible /\ (~undone => HasAllUpTo(lexical \cup F, F))
    BY <1>1, <1>2 DEF RecallsLoad, Loads
<1>4. lexical = features
    BY <1>1 DEF RowsAgree
<1>5. PICK L : L = lexical
    OBVIOUS
<1>6. L \in SUBSET Seqs /\ F \in SUBSET Seqs /\ L \subseteq visible
    BY <1>1, <1>3, <1>5 DEF ProjectionTyped
<1>7. /\ lexical' = L \cup F /\ features' = L \cup F
      /\ edges' = edges \cup UNION {EdgesOf(e, L \cup F) : e \in F}
      /\ recall' = [recall EXCEPT ![r] = NoRecall]
      /\ UNCHANGED <<allocated, visible, late, undone>>
    BY <1>2, <1>4, <1>5 DEF ApplyDelta, DeriveIncremental, Stop
<1>8. ~undone => HasAllUpTo(L \cup F, L \cup F)
    BY <1>1, <1>3, <1>4, <1>5 DEF RowsStand, HasAllUpTo, Reaches
<1>9. ~undone /\ late = {} => edges' = DeriveAssociations(L \cup F)
  <2> SUFFICES ASSUME ~undone, late = {} PROVE edges' = DeriveAssociations(L \cup F)
      OBVIOUS
  <2>1. edges = DeriveAssociations(L)
      BY <1>1, <1>4, <1>5 DEF RowsStand
  <2>2. \A e \in F : Reaches(L, e) => e \in L
      BY <1>1, <1>3, <1>4, <1>5 DEF RowsStand, HasAllUpTo
  <2>3. DeriveAssociations(L) \cup UNION {EdgesOf(e, L \cup F) : e \in F} = DeriveAssociations(L \cup F)
      BY <1>6, <2>2, EdgesGrow
  <2> QED
      BY <1>7, <2>1, <2>3
<1>10. PICK rows \in SUBSET visible : rows = L \cup F
    BY <1>3, <1>6
<1>11. ~undone' => ~undone /\ lexical \subseteq rows /\ HasAllUpTo(rows, rows)
    BY <1>5, <1>7, <1>8, <1>10
<1>12. ~undone' /\ late = {} => edges' = DeriveAssociations(rows)
    BY <1>7, <1>9, <1>10
<1> QED
    BY <1>7, <1>10, <1>11, <1>12, RowsChange

LEMMA RebuildPreserves ==
    ASSUME ProjectionIInv, NEW r \in Recalls, RebuildLoad(r) \/ RebuildReplace(r) \/ OperatorRebuild(r)
    PROVE  ProjectionIInv'
<1>1. ProjectionTyped /\ RecallsLoad
    BY DEF ProjectionIInv
<1>2. PICK d \in Recall : d = recall[r] /\ Loads(d)
    BY <1>1 DEF ProjectionTyped, RecallsLoad
<1>3. CASE OperatorRebuild(r)
  <2>1. PICK c : c = [d EXCEPT !.at = "rebuild"]
      OBVIOUS
  <2>2. c \in Recall /\ c.at = "rebuild"
      BY <2>1 DEF Recall, Places
  <2>3. /\ recall' = [recall EXCEPT ![r] = c] /\ Loads(c)
        /\ UNCHANGED <<allocated, visible, late, undone, lexical, features, edges>>
      BY <1>2, <1>3, <2>1, <2>2 DEF Loads, OperatorRebuild
  <2> QED
      BY <2>2, <2>3, RecallMoves
<1>4. CASE RebuildLoad(r)
  <2>1. PICK F \in SUBSET Seqs : F = visible
      BY <1>1 DEF ProjectionTyped
  <2>2. PICK c : c = [d EXCEPT !.at = "replace", !.found = F]
      OBVIOUS
  <2>3. c = [at |-> "replace", cut |-> d.cut, target |-> d.target, mark |-> d.mark, found |-> F]
      BY <2>2 DEF Recall
  <2>4. c \in Recall /\ c.at = "replace" /\ c.found = F
      BY <2>3 DEF Recall, Places
  <2>5. recall' = [recall EXCEPT ![r] = c]
    <3>1. recall' = [recall EXCEPT ![r] = [recall[r] EXCEPT !.at = "replace", !.found = visible]]
        BY <1>1, <1>4 DEF ProjectionTyped, RebuildLoad
    <3> QED
        BY <1>2, <2>1, <2>2, <3>1
  <2>6. Loads(c)
      BY <2>1, <2>4 DEF Loads, HasAllUpTo
  <2>7. UNCHANGED <<allocated, visible, late, undone, lexical, features, edges>>
      BY <1>4 DEF RebuildLoad
  <2> QED
      BY <2>4, <2>5, <2>6, <2>7, RecallMoves
<1>5. CASE RebuildReplace(r)
  <2>1. PICK rows \in SUBSET visible : rows = recall[r].found /\ HasAllUpTo(rows, rows)
      BY <1>2, <1>5 DEF RebuildReplace, Loads
  <2>2. /\ lexical' = rows /\ features' = rows /\ edges' = DeriveAssociations(rows)
        /\ recall' = [recall EXCEPT ![r] = NoRecall]
        /\ UNCHANGED <<allocated, visible, late>>
        /\ undone' = (undone \/ ~(lexical \subseteq rows))
      BY <1>5, <2>1 DEF RebuildReplace, Stop
  <2>3. ~undone' => ~undone /\ lexical \subseteq rows /\ HasAllUpTo(rows, rows)
      BY <2>1, <2>2
  <2> QED
      BY <2>2, <2>3, RowsChange
<1> QED
    BY <1>3, <1>4, <1>5

LEMMA ProjectionStepPreserves == ProjectionIInv /\ [ProjectionNext]_projectionVars => ProjectionIInv'
<1> SUFFICES ASSUME ProjectionIInv, [ProjectionNext]_projectionVars PROVE ProjectionIInv'
    OBVIOUS
<1>1. ASSUME UNCHANGED <<visible, late, undone, lexical, features, edges, recall>>, allocated' \subseteq Seqs
      PROVE  ProjectionIInv'
    BY <1>1 DEF ProjectionIInv, ProjectionTyped, RowsAgree, RecallsLoad, Loads, RowsStand, HasAllUpTo, Reaches
<1>2. ASSUME UNCHANGED projectionVars PROVE ProjectionIInv'
  <2>1. allocated' \subseteq Seqs
      BY <1>2 DEF projectionVars, ProjectionIInv, ProjectionTyped
  <2> QED
      BY <1>1, <1>2, <2>1 DEF projectionVars
<1>3. ASSUME InsertEvent PROVE ProjectionIInv'
  <2>1. allocated' \subseteq Seqs
      BY <1>3 DEF InsertEvent, ProjectionIInv, ProjectionTyped
  <2> QED
      BY <1>1, <1>3, <2>1 DEF InsertEvent
<1>4. ASSUME NEW e \in allocated, CommitEvent(e) PROVE ProjectionIInv'
  <2>1. e \in Seqs
      BY DEF ProjectionIInv, ProjectionTyped
  <2> QED
      BY <1>4, <2>1, CommitPreserves
<1>5. ASSUME NEW r \in Recalls, RecallDies(r) PROVE ProjectionIInv'
    BY <1>5, StopPreserves DEF RecallDies
<1> QED
    BY <1>2, <1>3, <1>4, <1>5, ReadTargetPreserves, ReadMarksPreserves, LoadDeltaPreserves,
       ApplyDeltaPreserves, RebuildPreserves DEF ProjectionNext, Freshen

(* However recalls, rebuilds and commits overlap and whichever of them die,  *)
(* for any ledger and any rules' matches: no row is missed below the         *)
(* high-water marks of two projections that agree, the edges are those a     *)
(* rebuild derives (derive_incremental_associations against                  *)
(* derive_associations), and a bounded recall reaches what it would have     *)
(* reached then (load_reachable_associations).                               *)
THEOREM ProjectionIsTheLedgers == ProjectionSpec => []RecallIsFaithful
<1>1. ProjectionIInv => RecallIsFaithful
  <2> SUFFICES ASSUME ProjectionIInv PROVE RecallIsFaithful
      OBVIOUS
  <2>1. ProjectionTyped /\ RowsStand /\ lexical \in SUBSET Seqs
      BY DEF ProjectionIInv, ProjectionTyped
  <2>2. NothingMissed
    <3> SUFFICES ASSUME ~undone, MarksAgree, NEW e \in visible \ late, e <= HighWater(lexical)
                 PROVE  e \in lexical \cap features
        BY DEF NothingMissed
    <3>1. e \in Nat /\ e > 0
        BY <2>1 DEF ProjectionTyped, Seqs
    <3>2. HighWater(lexical) \in lexical
        BY <2>1, <3>1, HighWaterIsLast
    <3>3. lexical = features
        BY MarksTellRows
    <3> QED
        BY <2>1, <3>2, <3>3 DEF RowsStand, HasAllUpTo, Reaches
  <2>3. EdgesAreDerived
      BY <2>1, MarksTellRows DEF EdgesAreDerived, RowsStand
  <2>4. RecallRespectsBoundary
    <3> SUFFICES ASSUME ~undone, late = {}, MarksAgree, NEW cut \in Seqs,
                        NEW seed \in {e \in lexical : e < cut}
                 PROVE  Reachable(edges, seed, cut)
                          = Reachable(DeriveAssociations({e \in lexical : e < cut}), seed, LastSeq + 1)
        BY DEF RecallRespectsBoundary
    <3>1. edges = DeriveAssociations(lexical)
        BY <2>3 DEF EdgesAreDerived
    <3>2. {x \in edges : ~Crosses(x, cut)}
            = {x \in DeriveAssociations({e \in lexical : e < cut}) : ~Crosses(x, LastSeq + 1)}
        BY <2>1, <3>1, BoundedEdges
    <3> QED
        BY <3>2 DEF Reachable
  <2> QED
      BY <2>2, <2>3, <2>4 DEF RecallIsFaithful
<1> QED
    BY <1>1, ProjectionInitEstablishes, ProjectionStepPreserves, PTL DEF ProjectionSpec
-----------------------------------------------------------------------------
(* Self memory. *)

Stances == {"NONE", "CANDIDATE", "ESTABLISHED", "CONTESTED"}
Sides == {"SUPPORTS", "OPPOSES"}
Origins == {"DIRECT", "INHERITED", "PREDICTION_OUTCOME"}
Links == [rep : Reps, root : Roots, relation : Sides, origin : Origins, tags : SUBSET Tags]
Mind == [at : {"idle", "propose", "support", "review", "oppose"}, task : Reflections \cup {0}, next : Nat]
Prediction == [outcome : {"none", "open", "CONFIRMED", "CONTRADICTED", "AMBIGUOUS"},
               cutoff : Nat, root : Nat]

(* What a recorder has in its hands. *)
Held(w) == unrecorded[w] \cup inflight[w]

SelfTyped ==
    /\ arrived \in 0 .. LastRoot
    /\ links \subseteq Links
    /\ unrecorded \in [Recorders -> SUBSET Links] /\ inflight \in [Recorders -> SUBSET Links]
    /\ known \subseteq Reps
    /\ standing = [r \in Reps |-> standing[r]]
    /\ reflection \in [Reflections -> {"propose", "review", "done"}]
    /\ cutoff \in [Reflections -> Nat]
    /\ mind \in Mind
    /\ prediction \in [Predictions -> Prediction]
    /\ judge = [at |-> judge.at, rep |-> judge.rep, asked |-> judge.asked]
    /\ judge.at \in {"idle", "read", "resolve", "failed"} /\ judge.rep \in Predictions \cup {0}
    /\ heir \subseteq Reps \X Reps
    /\ interrupts \in 0 .. MaxInterrupts

(* Records name what exists: links, put or in hand, name roots that have     *)
(* arrived and known representations, and so does what has been resolved or  *)
(* predicted.                                                                *)
RecordsNameRecords ==
    /\ \A l \in links : l.root <= arrived /\ l.rep \in known
    /\ \A w \in Recorders : \A l \in Held(w) : l.root <= arrived /\ l.rep \in known
    /\ \A edge \in heir : edge[1] \in known
    /\ \A r \in Reps : /\ standing[r].status \in Stances /\ standing[r].centrality \in Centralities
                       /\ standing[r] # NoStanding => r \in known
    /\ \A p \in Predictions : prediction[p] # NoPrediction => p \in known
    /\ \A c \in Reflections : cutoff[c] <= arrived

RepOf(c, k) == Script[c][k].rep

ReviewsAreKnown ==
    \A c \in Reflections : reflection[c] = "review" =>
        Len(Script[c]) > 0 /\ \A k \in 1 .. Len(Script[c]) : RepOf(c, k) \in known

(* Where the process that reflects is in its stage, and what it holds there. *)
AtStage(m) ==
    /\ m.at = "idle" => m = IdleMind
    /\ m.at # "idle" => m.task \in Reflections /\ m.next \in 1 .. Len(Script[m.task])
    /\ m.at \in {"propose", "support"} =>
          /\ reflection[m.task] = "propose"
          /\ \A root \in Evidence(m.task) : root <= arrived
          /\ \A k \in 1 .. m.next - 1 : RepOf(m.task, k) \in known
    /\ m.at = "support" => RepOf(m.task, m.next) \in known
    /\ m.at \in {"review", "oppose"} => reflection[m.task] = "review"
    /\ m.at = "oppose" => \A k \in 1 .. m.next - 1 : RepOf(m.task, k) # RepOf(m.task, m.next)
    /\ m.at \notin {"support", "oppose"} => Held("mind") = {}
    /\ \A l \in Held("mind") : l.relation = "OPPOSES" =>
          m.at = "oppose" /\ l.rep = RepOf(m.task, m.next)

(* Where the process that judges a prediction is. *)
AtJudgement(j) ==
    /\ j.at = "idle" => j = IdleJudge
    /\ j.at # "idle" => j.rep \in Predictions /\ j.rep \in known
    /\ j.at \in {"read", "resolve"} => prediction[j.rep].root \in 1 .. arrived
    /\ j.at = "resolve" => j.asked.status \in Stances /\ j.asked.centrality \in Centralities
    /\ j.at # "resolve" => Held("judge") = {}
    /\ \A l \in Held("judge") : l.rep = j.rep

HeirSupports == \A l \in Held("heir") : l.relation = "SUPPORTS"

(* The conjuncts that are about control. *)
Controlled ==
    /\ SelfTyped /\ RecordsNameRecords /\ ReviewsAreKnown
    /\ AtStage(mind) /\ AtJudgement(judge) /\ HeirSupports

(* The two sides: a root that is in flight against the other side was        *)
(* checked beside it.                                                        *)
SidesMeet ==
    /\ OneStancePerRoot
    /\ \A w \in Recorders : \A l \in inflight[w] :
          l.root \in Linked(l.rep, Opposite(l.relation)) => <<l.rep, l.root>> \in overlap
    /\ \A v, w \in Recorders : \A l \in inflight[v], k \in inflight[w] :
          l.rep = k.rep /\ l.root = k.root /\ l.relation = Opposite(k.relation)
              => <<l.rep, l.root>> \in overlap

(* The grounds: what the rules ask of an established representation apart    *)
(* from opposition, and reports that are the person's own.                   *)
Earned(r) ==
    /\ Linked(r, "SUPPORTS") # {}
    /\ r \in Generalized \ SelfReported => Cardinality(Linked(r, "SUPPORTS")) >= 2
    /\ r \in Slow \ SelfReported => Cardinality(SupportTags(r)) >= 2

ReportsAreOwn == \A r \in Reps : r \in SelfReported => Linked(r, "SUPPORTS") \subseteq UserPrompts

Grounded ==
    /\ ReportsAreOwn
    /\ \A w \in Recorders : \A l \in inflight[w] :
          l.relation = "SUPPORTS" /\ l.rep \in SelfReported => l.root \in UserPrompts
    /\ \A r \in Reps : standing[r].status = "ESTABLISHED" => Earned(r)

(* Opposition to what is established: a verdict is owed, by the judge when   *)
(* the review under way has it behind itself.                                *)
Troubled(r) == standing[r].status = "ESTABLISHED" /\ Linked(r, "OPPOSES") # {}

ReviewedBefore(m) ==
    m.at \in {"review", "oppose"} =>
        \A k \in 1 .. m.next - 1 : Troubled(RepOf(m.task, k)) => judge.rep = RepOf(m.task, k)

Owing ==
    /\ \A r \in Reps : Troubled(r) => VerdictIsOwed(r)
    /\ ReviewedBefore(mind)

SelfIInv == Controlled /\ SidesMeet /\ Grounded /\ Owing
-----------------------------------------------------------------------------
(* Ranks: how many members of a finite set come before one of them. *)

LEMMA FewerThanAll ==
    ASSUME NEW S, IsFiniteSet(S), NEW r \in S, NEW T \in SUBSET S, r \notin T
    PROVE  /\ IsFiniteSet(T) /\ Cardinality(T) \in Nat /\ Cardinality(S) \in Nat
           /\ Cardinality(T) < Cardinality(S)
<1>1. /\ IsFiniteSet(T) /\ Cardinality(T) <= Cardinality(S)
      /\ Cardinality(S) = Cardinality(T) => S = T
    BY FS_Subset
<1>2. Cardinality(T) \in Nat /\ Cardinality(S) \in Nat
    BY <1>1, FS_CardinalityType
<1> QED
    BY <1>1, <1>2

(* The members of a strictly ordered set have different ranks. *)
LEMMA RanksDiffer ==
    ASSUME NEW S, IsFiniteSet(S), NEW below \in [S -> SUBSET S],
           \A x \in S : x \notin below[x],
           \A x, y \in S : x \in below[y] => below[x] \subseteq below[y],
           \A x, y \in S : x # y => x \in below[y] \/ y \in below[x]
    PROVE  /\ \A x \in S : Cardinality(below[x]) \in Nat /\ Cardinality(below[x]) < Cardinality(S)
           /\ \A x, y \in S : Cardinality(below[x]) = Cardinality(below[y]) => x = y
<1>1. \A x \in S : /\ IsFiniteSet(below[x]) /\ Cardinality(below[x]) \in Nat
                   /\ Cardinality(below[x]) < Cardinality(S)
    BY FewerThanAll
<1>2. ASSUME NEW x \in S, NEW y \in S, x \in below[y]
      PROVE  Cardinality(below[x]) # Cardinality(below[y])
  <2>1. IsFiniteSet(below[y]) /\ below[x] \in SUBSET below[y] /\ x \notin below[x]
      BY <1>1, <1>2
  <2>2. /\ Cardinality(below[x]) \in Nat /\ Cardinality(below[y]) \in Nat
        /\ Cardinality(below[x]) < Cardinality(below[y])
      BY ONLY <1>2, <2>1, FewerThanAll
  <2> QED
      BY ONLY <2>2
<1> QED
    BY <1>1, <1>2

(* At most n of different numbers are below n. *)
LEMMA FewAreSmall ==
    ASSUME NEW S, NEW rank \in [S -> Nat], \A x, y \in S : rank[x] = rank[y] => x = y, NEW n \in Nat,
           NEW first, first = {x \in S : rank[x] < n}
    PROVE  IsFiniteSet(first) /\ Cardinality(first) \in Nat /\ Cardinality(first) <= n
<1>1. PICK place : place = [x \in first |-> rank[x] + 1]
    OBVIOUS
<1>2. place \in [first -> 1 .. n]
    BY <1>1
<1>3. ASSUME NEW x \in first, NEW y \in first, place[x] = place[y] PROVE x = y
  <2>1. rank[x] \in Nat /\ rank[y] \in Nat /\ rank[x] + 1 = rank[y] + 1
      BY <1>1, <1>3
  <2>2. rank[x] = rank[y]
      BY ONLY <2>1
  <2> QED
      BY <2>2
<1>4. place \in Injection(first, 1 .. n)
    BY <1>2, <1>3 DEF Injection, IsInjective
<1>5. IsFiniteSet(1 .. n) /\ Cardinality(1 .. n) = n
    BY FS_Interval
<1>6. IsFiniteSet(first) /\ Cardinality(first) <= n
    BY <1>4, <1>5, FS_Injection
<1> QED
    BY <1>6, FS_CardinalityType

(* At most n members of a strictly ordered set come after fewer than n. *)
LEMMA AtMostSoMany ==
    ASSUME NEW S, IsFiniteSet(S), NEW n \in Nat, NEW below \in [S -> SUBSET S],
           \A x \in S : x \notin below[x],
           \A x, y \in S : x \in below[y] => below[x] \subseteq below[y],
           \A x, y \in S : x # y => x \in below[y] \/ y \in below[x],
           NEW first, first = {r \in S : Cardinality(below[r]) < n}
    PROVE  IsFiniteSet(first) /\ Cardinality(first) \in Nat /\ Cardinality(first) <= n
<1>1. PICK rank : rank = [r \in S |-> Cardinality(below[r])]
    OBVIOUS
<1>2. /\ \A x \in S : Cardinality(below[x]) \in Nat
      /\ \A x, y \in S : Cardinality(below[x]) = Cardinality(below[y]) => x = y
    BY RanksDiffer
<1>3. rank \in [S -> Nat] /\ \A x, y \in S : rank[x] = rank[y] => x = y
    BY <1>1, <1>2
<1>4. first = {x \in S : rank[x] < n}
    BY <1>1
<1> QED
    BY <1>3, <1>4, FewAreSmall

(* What the invariant says of the order: centralities are numbers. *)
Ranked == \A r \in Reps : standing[r].centrality \in Nat

LEMMA RepsAreNumbers == IsFiniteSet(Reps) /\ Reps \subseteq Nat /\ Limit \in Nat /\ MaxCore \in Nat
BY SelfAssumption

LEMMA FirstKeysTakesAll ==
    ASSUME NEW S \in SUBSET Reps, NEW n \in Nat, Cardinality(S) <= n
    PROVE  FirstKeys(S, n) = S
<1> SUFFICES ASSUME NEW r \in S PROVE Cardinality({s \in S : s < r}) < n
    BY DEF FirstKeys
<1>1. IsFiniteSet(S)
    BY RepsAreNumbers, FS_Subset
<1>2. r \notin {s \in S : s < r}
    BY RepsAreNumbers
<1>3. /\ Cardinality({s \in S : s < r}) \in Nat /\ Cardinality(S) \in Nat
      /\ Cardinality({s \in S : s < r}) < Cardinality(S)
    BY <1>1, <1>2, FewerThanAll
<1> QED
    BY <1>3

LEMMA PacketTakesAll ==
    ASSUME Ranked, NEW S \in SUBSET Reps, Cardinality(S) <= Limit
    PROVE  Packet(S) = S
<1> SUFFICES ASSUME NEW r \in S PROVE Cardinality({s \in S : Outranks(s, r)}) < Limit
    BY DEF Packet
<1>1. IsFiniteSet(S)
    BY RepsAreNumbers, FS_Subset
<1>2. ~Outranks(r, r)
    BY RepsAreNumbers DEF Outranks, Ranked
<1>3. /\ Cardinality({s \in S : Outranks(s, r)}) \in Nat /\ Cardinality(S) \in Nat
      /\ Cardinality({s \in S : Outranks(s, r)}) < Cardinality(S)
    BY <1>1, <1>2, FewerThanAll
<1> QED
    BY <1>3, RepsAreNumbers

LEMMA BeforeIsAnOrder ==
    ASSUME Ranked
    PROVE  /\ \A x, y, z \in Reps : Before(x, y) /\ Before(y, z) => Before(x, z)
           /\ \A x \in Reps : ~Before(x, x)
           /\ \A x, y \in Reps : x # y => Before(x, y) \/ Before(y, x)
<1>1. ASSUME NEW x \in Reps PROVE x \in Nat /\ standing[x].centrality \in Nat
    BY RepsAreNumbers DEF Ranked
<1>2. ASSUME NEW x \in Reps, NEW y \in Reps, NEW z \in Reps, Before(x, y), Before(y, z)
      PROVE  Before(x, z)
  <2>1. /\ x \in Nat /\ standing[x].centrality \in Nat /\ y \in Nat /\ standing[y].centrality \in Nat
        /\ z \in Nat /\ standing[z].centrality \in Nat
      BY <1>1
  <2> QED
      BY ONLY <1>2, <2>1 DEF Before
<1>3. \A x \in Reps : ~Before(x, x)
    BY <1>1 DEF Before
<1>4. \A x, y \in Reps : x # y => Before(x, y) \/ Before(y, x)
    BY <1>1 DEF Before
<1> QED
    BY <1>2, <1>3, <1>4

LEMMA FirstOfIsSmall ==
    ASSUME Ranked, NEW S \in SUBSET Reps, NEW n \in Nat
    PROVE  IsFiniteSet(FirstOf(S, n)) /\ Cardinality(FirstOf(S, n)) \in Nat /\ Cardinality(FirstOf(S, n)) <= n
<1>1. PICK below, first : /\ below = [r \in S |-> {s \in S : Before(s, r)}]
                          /\ first = FirstOf(S, n)
    OBVIOUS
<1>2. IsFiniteSet(S) /\ below \in [S -> SUBSET S]
    BY <1>1, RepsAreNumbers, FS_Subset
<1>3. \A x \in S : x \notin below[x]
    BY <1>1, BeforeIsAnOrder
<1>4. \A x, y \in S : x \in below[y] => below[x] \subseteq below[y]
    BY <1>1, BeforeIsAnOrder
<1>5. \A x, y \in S : x # y => x \in below[y] \/ y \in below[x]
    BY <1>1, BeforeIsAnOrder
<1>6. first = {r \in S : Cardinality(below[r]) < n}
    BY <1>1 DEF FirstOf
<1>7. IsFiniteSet(first) /\ Cardinality(first) \in Nat /\ Cardinality(first) <= n
    BY <1>2, <1>3, <1>4, <1>5, <1>6, AtMostSoMany
<1> QED
    BY <1>1, <1>7

(* Reading as many rows more as there are matches is enough: the first ones  *)
(* besides the matches are among them.                                       *)
LEMMA EnoughRows ==
    ASSUME Ranked, NEW E \in SUBSET Reps, NEW F \in SUBSET Reps, NEW n \in Nat
    PROVE  FirstOf(FirstOf(E, n + Cardinality(F)) \ F, n) = FirstOf(E \ F, n)
<1>1. IsFiniteSet(E) /\ IsFiniteSet(F) /\ Cardinality(F) \in Nat
    BY RepsAreNumbers, FS_Subset, FS_CardinalityType
<1>2. PICK rows : rows = FirstOf(E, n + Cardinality(F))
    OBVIOUS
<1>3. PICK below : below = [r \in Reps |-> {s \in E : Before(s, r)}]
    OBVIOUS
<1>4. \A r \in Reps : /\ below[r] \in SUBSET E /\ IsFiniteSet(below[r]) /\ Cardinality(below[r]) \in Nat
                      /\ IsFiniteSet(below[r] \ F) /\ Cardinality(below[r] \ F) \in Nat
                      /\ Cardinality(below[r]) <= Cardinality(below[r] \ F) + Cardinality(F)
  <2> SUFFICES ASSUME NEW r \in Reps
               PROVE  /\ below[r] \in SUBSET E /\ IsFiniteSet(below[r]) /\ Cardinality(below[r]) \in Nat
                      /\ IsFiniteSet(below[r] \ F) /\ Cardinality(below[r] \ F) \in Nat
                      /\ Cardinality(below[r]) <= Cardinality(below[r] \ F) + Cardinality(F)
      OBVIOUS
  <2>1. below[r] \in SUBSET E /\ IsFiniteSet(below[r])
      BY <1>1, <1>3, FS_Subset
  <2>2. Cardinality(below[r]) \in Nat /\ IsFiniteSet(below[r] \ F)
      BY <2>1, FS_CardinalityType, FS_Difference
  <2>3. /\ Cardinality(below[r] \ F) = Cardinality(below[r]) - Cardinality(below[r] \cap F)
        /\ Cardinality(below[r] \ F) \in Nat
      BY <2>1, <2>2, FS_Difference, FS_CardinalityType
  <2>4. Cardinality(below[r] \cap F) <= Cardinality(F) /\ Cardinality(below[r] \cap F) \in Nat
    <3>1. IsFiniteSet(below[r] \cap F) /\ Cardinality(below[r] \cap F) <= Cardinality(F)
        BY <1>1, FS_Subset
    <3> QED
        BY <3>1, FS_CardinalityType
  <2> QED
      BY <1>1, <2>1, <2>2, <2>3, <2>4
<1>5. rows = {r \in E : Cardinality(below[r]) < n + Cardinality(F)}
    BY <1>2, <1>3 DEF FirstOf
<1>6. FirstOf(E \ F, n) = {r \in E \ F : Cardinality(below[r] \ F) < n}
  <2>1. \A r \in E \ F : {s \in E \ F : Before(s, r)} = below[r] \ F
      BY <1>3
  <2> QED
      BY <2>1 DEF FirstOf
<1>7. FirstOf(rows \ F, n) = {r \in rows \ F : Cardinality({s \in rows \ F : Before(s, r)}) < n}
    BY DEF FirstOf
<1>8. ASSUME NEW r \in rows PROVE {s \in rows \ F : Before(s, r)} = below[r] \ F
  <2>1. ASSUME NEW s \in below[r] PROVE s \in rows
    <3>1. s \in E /\ s \in Reps /\ r \in Reps /\ Before(s, r)
        BY <1>3, <1>5
    <3>2. below[s] \in SUBSET below[r] /\ s \notin below[s]
        BY <1>3, <3>1, BeforeIsAnOrder
    <3>3. PICK A, B : A = below[s] /\ B = below[r]
        OBVIOUS
    <3>4. IsFiniteSet(B) /\ s \in B /\ A \in SUBSET B /\ s \notin A
        BY <1>4, <2>1, <3>1, <3>2, <3>3
    <3>5. Cardinality(A) \in Nat /\ Cardinality(B) \in Nat /\ Cardinality(A) < Cardinality(B)
        BY ONLY <3>4, FewerThanAll
    <3>6. Cardinality(B) < n + Cardinality(F)
        BY <1>5, <3>3
    <3>7. Cardinality(A) < n + Cardinality(F)
        BY <1>1, <3>5, <3>6
    <3> QED
        BY <1>5, <3>1, <3>3, <3>7
  <2> QED
      BY <1>3, <1>5, <2>1
<1>9. ASSUME NEW r \in E \ F, Cardinality(below[r] \ F) < n PROVE r \in rows
  <2>1. PICK a, b, c : a = Cardinality(below[r]) /\ b = Cardinality(below[r] \ F) /\ c = Cardinality(F)
      OBVIOUS
  <2>2. a \in Nat /\ b \in Nat /\ c \in Nat /\ a <= b + c /\ b < n
      BY <1>1, <1>4, <1>9, <2>1
  <2>3. a < n + c
      BY ONLY <2>2, n \in Nat
  <2> QED
      BY <1>5, <2>1, <2>3
<1>10. FirstOf(rows \ F, n) = {r \in rows \ F : Cardinality(below[r] \ F) < n}
    BY <1>7, <1>8
<1> QED
    BY <1>2, <1>5, <1>6, <1>9, <1>10

LEMMA SmallerOfTwo ==
    ASSUME NEW a \in Nat, NEW b \in Nat
    PROVE  Min({a, b}) \in Nat /\ Min({a, b}) <= a /\ Min({a, b}) <= b
BY DEF Min

EstablishedReps == {r \in Reps : standing[r].status = "ESTABLISHED"}
ActiveOf(set) == {r \in set : Active(r)}

(* The search finds every match when the limit holds them, and completes     *)
(* them with the core.                                                       *)
Completes(matches, related) ==
    LET found == ActiveOf(matches \cup related)
        core == Min({MaxCore, Limit - Cardinality(found)})
    IN  Cardinality(found) <= Limit =>
            SearchSelfCandidates(matches, related, TRUE) = found \cup FirstOf(EstablishedReps \ found, core)

LEMMA SearchIsComplete ==
    ASSUME Ranked, NEW matches \in SUBSET Reps, NEW related \in SUBSET Reps
    PROVE  Completes(matches, related)
<1> SUFFICES ASSUME NEW found, found = ActiveOf(matches \cup related),
                    NEW core, core = Min({MaxCore, Limit - Cardinality(found)}),
                    Cardinality(found) <= Limit
             PROVE  SearchSelfCandidates(matches, related, TRUE) = found \cup FirstOf(EstablishedReps \ found, core)
    BY DEF Completes
<1>1. PICK n, established : n = Cardinality(found) /\ established = EstablishedReps
    OBVIOUS
<1>2. IsFiniteSet(found) /\ n \in Nat /\ found \in SUBSET Reps /\ established \in SUBSET Reps
    BY <1>1, RepsAreNumbers, FS_Subset, FS_CardinalityType DEF EstablishedReps, ActiveOf
<1>3. core \in Nat /\ core <= Limit - n /\ n <= Limit
    BY <1>1, <1>2, RepsAreNumbers, SmallerOfTwo
<1>4. PICK words : words = {r \in matches : Active(r)}
    OBVIOUS
<1>5. PICK about : about = {r \in related : Active(r)}
    OBVIOUS
<1>6. /\ found = words \cup about /\ words \in SUBSET Reps /\ about \in SUBSET Reps
    BY <1>4, <1>5 DEF ActiveOf
<1>7. /\ Cardinality(words) \in Nat /\ Cardinality(words) <= n
      /\ Cardinality(about) \in Nat /\ Cardinality(about) <= n
      /\ Cardinality(words) = n => words = found
  <2>1. words \in SUBSET found /\ about \in SUBSET found
      BY <1>6
  <2> QED
      BY <1>1, <1>2, <2>1, FS_Subset, FS_CardinalityType
<1>8. FirstKeys(words, Limit) = words /\ FirstKeys(about, Limit) = about
  <2>1. Cardinality(words) <= Limit /\ Cardinality(about) <= Limit
      BY <1>2, <1>3, <1>7, RepsAreNumbers
  <2> QED
      BY <1>6, <2>1, RepsAreNumbers, FirstKeysTakesAll
<1>9. words \cup (IF Cardinality(words) < Limit THEN about ELSE {}) = found
  <2>1. CASE Cardinality(words) < Limit
      BY <1>6, <2>1
  <2>2. CASE ~(Cardinality(words) < Limit)
    <3>1. Cardinality(words) = n
        BY <1>2, <1>3, <1>7, <2>2, RepsAreNumbers
    <3> QED
        BY <1>7, <2>2, <3>1
  <2> QED
      BY <2>1, <2>2
<1>10. PICK rows : rows = IF core > 0 THEN FirstOf(established, core + n) ELSE {}
    OBVIOUS
<1>11. SearchSelfCandidates(matches, related, TRUE) = Packet(found \cup FirstOf(rows \ found, core))
  <2>1. ~(n > Limit)
      BY <1>2, <1>3, RepsAreNumbers
  <2>2. SearchSelfCandidates(matches, related, TRUE)
          = LET all == words \cup (IF Cardinality(words) < Limit THEN about ELSE {})
                room == IF Cardinality(all) > Limit THEN Limit ELSE Min({MaxCore, Limit - Cardinality(all)})
                read == IF TRUE /\ room > 0
                        THEN FirstOf(established, IF Cardinality(all) > Limit THEN Limit ELSE room + Cardinality(all))
                        ELSE {}
            IN  Packet(all \cup FirstOf(read \ all, room))
      BY <1>1, <1>4, <1>5, <1>8 DEF SearchSelfCandidates, EstablishedReps
  <2>3. SearchSelfCandidates(matches, related, TRUE)
          = LET room == IF n > Limit THEN Limit ELSE core
                read == IF TRUE /\ room > 0 THEN FirstOf(established, IF n > Limit THEN Limit ELSE room + n) ELSE {}
            IN  Packet(found \cup FirstOf(read \ found, room))
      BY <1>1, <1>9, <2>2
  <2> QED
      BY <1>10, <2>1, <2>3
<1>12. PICK more : more = FirstOf(established \ found, core)
    OBVIOUS
<1>13. IsFiniteSet(more) /\ Cardinality(more) \in Nat /\ Cardinality(more) <= core /\ more \in SUBSET Reps
  <2>1. established \ found \in SUBSET Reps
      BY <1>2
  <2>2. IsFiniteSet(more) /\ Cardinality(more) \in Nat /\ Cardinality(more) <= core
      BY <1>3, <1>12, <2>1, FirstOfIsSmall
  <2> QED
      BY <1>2, <1>12, <2>2 DEF FirstOf
<1>14. FirstOf(rows \ found, core) = more
  <2>1. CASE core > 0
    <3>1. FirstOf(FirstOf(established, core + Cardinality(found)) \ found, core) = FirstOf(established \ found, core)
        BY ONLY <1>2, <1>3, Ranked, EnoughRows
    <3> QED
        BY <1>1, <1>10, <1>12, <2>1, <3>1
  <2>2. CASE ~(core > 0)
    <3>1. rows = {} /\ core = 0
        BY <1>3, <1>10, <2>2
    <3>2. more = {}
        BY <1>13, <3>1, FS_EmptySet
    <3> QED
        BY <3>1, <3>2 DEF FirstOf
  <2> QED
      BY <2>1, <2>2
<1>15. Packet(found \cup more) = found \cup more
  <2>1. IsFiniteSet(found \cup more) /\ Cardinality(found \cup more) <= Cardinality(found) + Cardinality(more)
    <3>1. /\ IsFiniteSet(found \cup more)
          /\ Cardinality(found \cup more) = Cardinality(found) + Cardinality(more) - Cardinality(found \cap more)
        BY <1>2, <1>13, FS_Union
    <3>2. Cardinality(found \cap more) \in Nat
        BY <1>2, FS_Subset, FS_CardinalityType
    <3> QED
        BY <1>1, <1>2, <1>13, <3>1, <3>2
  <2>2. Cardinality(found \cup more) \in Nat
      BY <2>1, FS_CardinalityType
  <2>3. Cardinality(found \cup more) <= Limit
      BY <1>1, <1>2, <1>3, <1>13, <2>1, <2>2, RepsAreNumbers
  <2> QED
      BY <1>2, <1>13, <2>3, PacketTakesAll
<1> QED
    BY <1>1, <1>11, <1>12, <1>14, <1>15

LEMMA ContextIsComplete ==
    ASSUME Ranked PROVE SelfContextIsComplete
<1>1. ASSUME NEW i \in Interactions PROVE Completes(Matches[i], Related[i])
    BY SelfAssumption, SearchIsComplete
<1> QED
    BY <1>1 DEF Completes, SelfContextIsComplete, ActiveOf, EstablishedReps
-----------------------------------------------------------------------------
(* The roots a hypothesis leads to. *)

(* What the invariant says of the evidence. *)
RootsAreRoots == \A l \in links : l.root \in Roots /\ l.relation \in {"SUPPORTS", "OPPOSES"}

LEMMA RootsAreNumbers == IsFiniteSet(Roots) /\ Roots \subseteq Nat
BY SelfAssumption, FS_Interval DEF Roots

LEMMA RootsOfAre == RootsAreRoots => \A r : RootsOf(r) \in SUBSET Roots
BY DEF RootsAreRoots, RootsOf, Linked

(* Two digits are read off the number they make. *)
LEMMA Digits ==
    ASSUME NEW N \in Nat, NEW a \in Nat, NEW b \in Nat, NEW c \in Nat, NEW d \in Nat,
           b < N, d < N, a * N + b = c * N + d
    PROVE  a = c /\ b = d
<1>1. ASSUME NEW x \in Nat, NEW y \in Nat, NEW u \in Nat, NEW v \in Nat, u < N, v < N, x < y
      PROVE  x * N + u < y * N + v
  <2>1. PICK k \in Nat : y = x + 1 + k
    <3>1. y - (x + 1) \in Nat /\ y = x + 1 + (y - (x + 1))
        BY <1>1
    <3> QED
        BY <3>1
  <2>2. x * N \in Nat /\ k * N \in Nat
      BY SMT
  <2>3. y * N = x * N + N + k * N
      BY <2>1, SMT
  <2> QED
      BY <1>1, <2>2, <2>3
<1>2. ~(a < c) /\ ~(c < a)
  <2>1. a * N + b \in Nat /\ c * N + d \in Nat
      BY SMT
  <2> QED
      BY <1>1, <2>1
<1>3. a = c
    BY <1>2
<1>4. a * N \in Nat
    BY SMT
<1> QED
    BY <1>3, <1>4

LEMMA ColumnsDiffer ==
    ASSUME NEW routes \in SUBSET Reps
    PROVE  /\ IsFiniteSet(routes) /\ Cardinality(routes) \in Nat
           /\ \A r \in routes : Column(r, routes) \in Nat /\ Column(r, routes) < Cardinality(routes)
           /\ \A r, q \in routes : Column(r, routes) = Column(q, routes) => r = q
<1>1. IsFiniteSet(routes) /\ Cardinality(routes) \in Nat /\ routes \subseteq Nat
    BY RepsAreNumbers, FS_Subset, FS_CardinalityType
<1>2. PICK below : below = [r \in routes |-> {q \in routes : q < r}]
    OBVIOUS
<1>3. /\ below \in [routes -> SUBSET routes] /\ \A r \in routes : r \notin below[r]
      /\ \A r, q \in routes : r \in below[q] => below[r] \subseteq below[q]
      /\ \A r, q \in routes : r # q => r \in below[q] \/ q \in below[r]
  <2>1. \A r, q \in routes : r \in below[q] <=> r < q
      BY <1>2
  <2>2. below \in [routes -> SUBSET routes]
      BY <1>2
  <2>3. ASSUME NEW r \in routes, NEW q \in routes, r \in below[q] PROVE below[r] \subseteq below[q]
    <3> SUFFICES ASSUME NEW s \in below[r] PROVE s \in below[q]
        OBVIOUS
    <3>1. s \in routes /\ s < r /\ r < q
        BY <2>1, <2>2, <2>3
    <3>2. s < q
        BY <1>1, <3>1
    <3> QED
        BY <2>1, <3>1, <3>2
  <2>4. \A r \in routes : r \notin below[r]
    <3>1. \A r \in routes : ~(r < r)
        BY <1>1
    <3> QED
        BY ONLY <2>1, <3>1
  <2>5. \A r, q \in routes : r # q => r \in below[q] \/ q \in below[r]
    <3>1. \A r, q \in routes : r # q => r < q \/ q < r
        BY <1>1
    <3> QED
        BY ONLY <2>1, <3>1
  <2> QED
      BY <2>2, <2>3, <2>4, <2>5
<1>4. /\ \A r \in routes : Cardinality(below[r]) \in Nat /\ Cardinality(below[r]) < Cardinality(routes)
      /\ \A r, q \in routes : Cardinality(below[r]) = Cardinality(below[q]) => r = q
    BY <1>1, <1>3, RanksDiffer
<1>5. \A r \in routes : Column(r, routes) = Cardinality(below[r])
    BY <1>2 DEF Column
<1> QED
    BY <1>1, <1>4, <1>5

LEMMA RowsDiffer ==
    ASSUME RootsAreRoots, NEW r
    PROVE  /\ \A x \in RootsOf(r) : Row(r, x) \in Nat
           /\ \A x, y \in RootsOf(r) : Row(r, x) = Row(r, y) => x = y
<1>1. PICK roots : roots = RootsOf(r)
    OBVIOUS
<1>2. IsFiniteSet(roots) /\ roots \subseteq Nat
    BY <1>1, RootsOfAre, RootsAreNumbers, FS_Subset
<1>3. PICK below : below = [x \in roots |-> {newer \in roots : newer > x}]
    OBVIOUS
<1>4. /\ below \in [roots -> SUBSET roots] /\ \A x \in roots : x \notin below[x]
      /\ \A x, y \in roots : x \in below[y] => below[x] \subseteq below[y]
      /\ \A x, y \in roots : x # y => x \in below[y] \/ y \in below[x]
  <2>1. \A x, y \in roots : x \in below[y] <=> x > y
      BY <1>3
  <2>2. below \in [roots -> SUBSET roots]
      BY <1>3
  <2>3. ASSUME NEW x \in roots, NEW y \in roots, x \in below[y] PROVE below[x] \subseteq below[y]
    <3> SUFFICES ASSUME NEW s \in below[x] PROVE s \in below[y]
        OBVIOUS
    <3>1. s \in roots /\ s > x /\ x > y
        BY <2>1, <2>2, <2>3
    <3>2. s > y
        BY <1>2, <3>1
    <3> QED
        BY <2>1, <3>1, <3>2
  <2>4. \A x \in roots : x \notin below[x]
    <3>1. \A x \in roots : ~(x > x)
        BY <1>2
    <3> QED
        BY ONLY <2>1, <3>1
  <2>5. \A x, y \in roots : x # y => x \in below[y] \/ y \in below[x]
    <3>1. \A x, y \in roots : x # y => x > y \/ y > x
        BY <1>2
    <3> QED
        BY ONLY <2>1, <3>1
  <2> QED
      BY <2>2, <2>3, <2>4, <2>5
<1>5. /\ \A x \in roots : Cardinality(below[x]) \in Nat
      /\ \A x, y \in roots : Cardinality(below[x]) = Cardinality(below[y]) => x = y
    BY <1>2, <1>4, RanksDiffer
<1>6. \A x \in roots : Row(r, x) = Cardinality(below[x])
    BY <1>1, <1>3 DEF Row
<1> QED
    BY <1>1, <1>5, <1>6

LEMMA NewestIsFirst ==
    ASSUME RootsAreRoots, NEW r, RootsOf(r) # {}
    PROVE  Max(RootsOf(r)) \in RootsOf(r) /\ Row(r, Max(RootsOf(r))) = 0
<1>1. PICK roots : roots = RootsOf(r)
    OBVIOUS
<1>2. IsFiniteSet(roots) /\ roots \in SUBSET Nat /\ roots # {}
    BY <1>1, RootsOfAre, RootsAreNumbers, FS_Subset
<1>3. \E m \in roots : \A n \in roots : m >= n
    BY <1>2, LargestNumber
<1>4. Max(roots) \in roots /\ \A n \in roots : Max(roots) >= n
    BY <1>3 DEF Max
<1>5. {newer \in roots : newer > Max(roots)} = {}
  <2>1. PICK m : m = Max(roots)
      OBVIOUS
  <2>2. \A n \in roots : n \in Nat /\ m \in Nat /\ m >= n
      BY <1>2, <1>4, <2>1
  <2>3. \A n \in roots : ~(n > m)
      BY <2>2
  <2> QED
      BY <2>1, <2>3
<1>6. Row(r, Max(roots)) = 0
    BY <1>1, <1>5, FS_EmptySet DEF Row
<1> QED
    BY <1>1, <1>4, <1>6

(* The turn of a root is a place of one of the hypotheses that lead to it,   *)
(* and no later than its place in any.                                       *)
LEMMA TurnIsAPlace ==
    ASSUME RootsAreRoots, NEW routes \in SUBSET Reps, NEW x, NEW q \in routes, x \in RootsOf(q)
    PROVE  /\ \E r \in routes : /\ x \in RootsOf(r)
                                /\ Turn(routes, x) = Row(r, x) * Cardinality(routes) + Column(r, routes)
           /\ Turn(routes, x) \in Nat
           /\ Turn(routes, x) <= Row(q, x) * Cardinality(routes) + Column(q, routes)
<1>1. PICK places : places = {Row(r, x) * Cardinality(routes) + Column(r, routes) :
                                r \in {p \in routes : x \in RootsOf(p)}}
    OBVIOUS
<1>2. \A r \in routes : x \in RootsOf(r) => Row(r, x) * Cardinality(routes) + Column(r, routes) \in Nat
  <2> SUFFICES ASSUME NEW r \in routes, x \in RootsOf(r)
               PROVE  Row(r, x) * Cardinality(routes) + Column(r, routes) \in Nat
      OBVIOUS
  <2>1. Row(r, x) \in Nat /\ Cardinality(routes) \in Nat /\ Column(r, routes) \in Nat
      BY RowsDiffer, ColumnsDiffer
  <2> QED
      BY ONLY <2>1, SMT
<1>3. places \in SUBSET Nat /\ Row(q, x) * Cardinality(routes) + Column(q, routes) \in places
    BY <1>1, <1>2
<1>4. \E n \in places : \A m \in places : n <= m
    BY <1>3, LeastNumber
<1>5. Turn(routes, x) = Min(places)
    BY <1>1 DEF Turn
<1>6. Min(places) \in places /\ \A m \in places : Min(places) <= m
    BY <1>4 DEF Min
<1> QED
    BY <1>1, <1>3, <1>5, <1>6

LEMMA TurnsDiffer ==
    ASSUME RootsAreRoots, NEW routes \in SUBSET Reps,
           NEW x, NEW y, NEW p \in routes, NEW q \in routes, x \in RootsOf(p), y \in RootsOf(q),
           Turn(routes, x) = Turn(routes, y)
    PROVE  x = y
<1>1. PICK r \in routes : /\ x \in RootsOf(r)
                          /\ Turn(routes, x) = Row(r, x) * Cardinality(routes) + Column(r, routes)
    BY TurnIsAPlace
<1>2. PICK s \in routes : /\ y \in RootsOf(s)
                          /\ Turn(routes, y) = Row(s, y) * Cardinality(routes) + Column(s, routes)
    BY TurnIsAPlace
<1>3. PICK N, a, b, c, d : /\ N = Cardinality(routes) /\ a = Row(r, x) /\ b = Column(r, routes)
                           /\ c = Row(s, y) /\ d = Column(s, routes)
    OBVIOUS
<1>4. /\ N \in Nat /\ a \in Nat /\ b \in Nat /\ c \in Nat /\ d \in Nat /\ b < N /\ d < N
      /\ a * N + b = c * N + d
    BY <1>1, <1>2, <1>3, RowsDiffer, ColumnsDiffer
<1>5. a = c /\ b = d
    BY ONLY <1>4, Digits
<1>6. r = s
    BY <1>3, <1>5, ColumnsDiffer
<1> QED
    BY <1>1, <1>2, <1>3, <1>5, <1>6, RowsDiffer

LEMMA RoutesAreRoutes ==
    ASSUME RootsAreRoots
    PROVE  Routes(Reps) \in SUBSET Reps /\ \A r \in Routes(Reps) : RootsOf(r) # {}
<1>1. Routes(Reps) \in SUBSET Reps /\ \A r \in Routes(Reps) : \E l \in links : l.rep = r
    BY DEF Routes, FirstKeys
<1>2. ASSUME NEW r, NEW l \in links, l.rep = r PROVE RootsOf(r) # {}
  <2>1. l.root \in Linked(r, l.relation)
      BY <1>2 DEF Linked
  <2> QED
      BY <2>1 DEF RootsAreRoots, RootsOf
<1> QED
    BY <1>1, <1>2

LEMMA EveryRouteLeads ==
    ASSUME RootsAreRoots PROVE EveryHypothesisLeadsToItsRoot
<1> SUFFICES ASSUME NEW base \in {{}, {1}}, NEW routes, routes = Routes(Reps),
                    NEW limit, limit = Limit + Cardinality(base),
                    NEW packet, packet = ExpandSelfRoots(Reps, base, limit)
             PROVE  /\ Cardinality(packet) <= limit
                    /\ Limit >= Cardinality(routes) => \A r \in routes : Max(RootsOf(r)) \in packet
    BY DEF EveryHypothesisLeadsToItsRoot
<1>1. IsFiniteSet(base) /\ Cardinality(base) \in Nat /\ limit - Cardinality(base) = Limit /\ limit \in Nat
  <2>1. IsFiniteSet(base)
    <3>1. IsFiniteSet({})
        BY FS_EmptySet
    <3>2. IsFiniteSet({1})
        BY FS_Singleton
    <3> QED
        BY <3>1, <3>2
  <2>2. PICK b : b = Cardinality(base) /\ b \in Nat
      BY <2>1, FS_CardinalityType
  <2>3. limit = Limit + b /\ Limit \in Nat
      BY <2>2, RepsAreNumbers
  <2>4. limit - b = Limit /\ limit \in Nat
      BY ONLY <2>2, <2>3
  <2> QED
      BY <2>1, <2>2, <2>4
<1>2. routes \in SUBSET Reps /\ \A r \in routes : RootsOf(r) # {}
    BY RoutesAreRoutes
<1>3. PICK fresh : fresh = (UNION {RootsOf(r) : r \in routes}) \ base
    OBVIOUS
<1>4. \A x \in fresh : \E r \in routes : x \in RootsOf(r)
    BY <1>3
<1>5. PICK turn : turn = [root \in fresh |-> Turn(routes, root)]
    OBVIOUS
<1>6. turn \in [fresh -> Nat]
  <2>1. \A x \in fresh : Turn(routes, x) \in Nat
      BY <1>2, <1>4, TurnIsAPlace
  <2> QED
      BY <1>5, <2>1
<1>7. \A x, y \in fresh : turn[x] = turn[y] => x = y
  <2> SUFFICES ASSUME NEW x \in fresh, NEW y \in fresh, turn[x] = turn[y] PROVE x = y
      OBVIOUS
  <2>1. PICK p \in routes : x \in RootsOf(p)
      BY <1>4
  <2>2. PICK q \in routes : y \in RootsOf(q)
      BY <1>4
  <2>3. Turn(routes, x) = Turn(routes, y)
      BY <1>5
  <2> QED
      BY <1>2, <2>1, <2>2, <2>3, TurnsDiffer
<1>8. PICK taken : taken = {root \in fresh : Cardinality({earlier \in fresh : turn[earlier] < turn[root]}) < Limit}
    OBVIOUS
<1>9. packet = base \cup taken
  <2>1. packet = LET goes == [root \in fresh |-> Turn(routes, root)]
                 IN  base \cup {root \in fresh : Cardinality({earlier \in fresh : goes[earlier] < goes[root]})
                                                     < limit - Cardinality(base)}
      BY <1>3 DEF ExpandSelfRoots
  <2> QED
      BY <1>1, <1>5, <1>8, <2>1
<1>10. IsFiniteSet(fresh)
  <2>1. fresh \subseteq Roots
      BY <1>3, RootsOfAre
  <2> QED
      BY <2>1, RootsAreNumbers, FS_Subset
<1>11. IsFiniteSet(taken) /\ Cardinality(taken) \in Nat /\ Cardinality(taken) <= Limit
  <2>1. PICK below : below = [x \in fresh |-> {e \in fresh : turn[e] < turn[x]}]
      OBVIOUS
  <2>2. below \in [fresh -> SUBSET fresh]
      BY <2>1
  <2>3. \A x, y \in fresh : x \in below[y] <=> turn[x] < turn[y]
      BY <2>1
  <2>4. \A x \in fresh : x \notin below[x]
      BY <1>6, <2>3
  <2>5. ASSUME NEW x \in fresh, NEW y \in fresh, x \in below[y] PROVE below[x] \subseteq below[y]
    <3> SUFFICES ASSUME NEW s \in below[x] PROVE s \in below[y]
        OBVIOUS
    <3>1. s \in fresh /\ turn[s] < turn[x] /\ turn[x] < turn[y]
        BY <2>2, <2>3, <2>5
    <3>2. turn[s] \in Nat /\ turn[x] \in Nat /\ turn[y] \in Nat
        BY <1>6, <3>1
    <3>3. turn[s] < turn[y]
        BY ONLY <3>1, <3>2
    <3> QED
        BY <2>3, <3>1, <3>3
  <2>6. ASSUME NEW x \in fresh, NEW y \in fresh, x # y PROVE x \in below[y] \/ y \in below[x]
    <3>1. turn[x] \in Nat /\ turn[y] \in Nat /\ turn[x] # turn[y]
        BY <1>6, <1>7, <2>6
    <3>2. turn[x] < turn[y] \/ turn[y] < turn[x]
        BY ONLY <3>1
    <3> QED
        BY <2>3, <3>2
  <2>7. taken = {r \in fresh : Cardinality(below[r]) < Limit}
      BY <1>8, <2>1
  <2> QED
      BY <1>10, <2>2, <2>4, <2>5, <2>6, <2>7, RepsAreNumbers, AtMostSoMany
<1>12. Cardinality(packet) <= limit
  <2>1. Cardinality(base \cup taken) = Cardinality(base) + Cardinality(taken) - Cardinality(base \cap taken)
      BY <1>1, <1>11, FS_Union
  <2>2. Cardinality(base \cap taken) \in Nat
      BY <1>1, FS_Subset, FS_CardinalityType
  <2> QED
      BY <1>1, <1>9, <1>11, <2>1, <2>2, RepsAreNumbers
<1>13. ASSUME Limit >= Cardinality(routes), NEW r \in routes PROVE Max(RootsOf(r)) \in packet
  <2>1. PICK top : top = Max(RootsOf(r))
      OBVIOUS
  <2>2. top \in RootsOf(r) /\ Row(r, top) = 0
      BY <1>2, <2>1, NewestIsFirst
  <2> SUFFICES ASSUME top \notin base PROVE top \in taken
      BY <1>9, <2>1
  <2>3. top \in fresh
      BY <1>3, <2>2
  <2>4. PICK N, c : N = Cardinality(routes) /\ c = Column(r, routes)
      OBVIOUS
  <2>5. N \in Nat /\ c \in Nat /\ c < N /\ N <= Limit
      BY <1>2, <1>13, <2>4, ColumnsDiffer, RepsAreNumbers
  <2>6. turn[top] <= 0 * N + c
      BY <1>2, <1>5, <2>2, <2>3, <2>4, TurnIsAPlace
  <2>7. turn[top] \in Nat /\ turn[top] < Limit
      BY <1>6, <2>3, <2>5, <2>6, RepsAreNumbers
  <2>8. PICK earlier : earlier = {e \in fresh : turn[e] < turn[top]}
      OBVIOUS
  <2>9. Cardinality(earlier) \in Nat /\ Cardinality(earlier) <= turn[top]
      BY <1>6, <1>7, <2>7, <2>8, FewAreSmall
  <2>10. Cardinality(earlier) < Limit
      BY <2>7, <2>9, RepsAreNumbers
  <2> QED
      BY <1>8, <2>3, <2>8, <2>10
<1> QED
    BY <1>12, <1>13
-----------------------------------------------------------------------------
(* The evidence of a representation before and after a step. *)

LEMMA LinksAreTyped == SelfTyped => RootsAreRoots
BY DEF SelfTyped, RootsAreRoots, Links, Sides

LEMMA LinkedIsFinite ==
    ASSUME SelfTyped, NEW r, NEW s
    PROVE  /\ Linked(r, s) \in SUBSET Roots /\ IsFiniteSet(Linked(r, s)) /\ Cardinality(Linked(r, s)) \in Nat
           /\ IsFiniteSet(SupportTags(r)) /\ Cardinality(SupportTags(r)) \in Nat
<1>1. Linked(r, s) \in SUBSET Roots
    BY LinksAreTyped DEF RootsAreRoots, Linked
<1>2. SupportTags(r) \in SUBSET Tags
    BY DEF SupportTags, SelfTyped, Links
<1>3. IsFiniteSet(Tags)
    BY SelfAssumption
<1> QED
    BY <1>1, <1>2, <1>3, RootsAreNumbers, FS_Subset, FS_CardinalityType

LEMMA MoreIsEnough ==
    ASSUME NEW A, NEW B, A \in SUBSET B, IsFiniteSet(B), Cardinality(A) >= 2
    PROVE  Cardinality(B) >= 2
<1>1. Cardinality(A) <= Cardinality(B) /\ Cardinality(A) \in Nat /\ Cardinality(B) \in Nat
    BY FS_Subset, FS_CardinalityType
<1> QED
    BY <1>1

LEMMA LinkedStays ==
    UNCHANGED links => /\ \A r, s : Linked(r, s)' = Linked(r, s)
                       /\ \A r : SupportTags(r)' = SupportTags(r)
BY DEF Linked, SupportTags

LEMMA LinkedGrows ==
    ASSUME NEW new, links' = links \cup new
    PROVE  /\ \A r, s : Linked(r, s)' = Linked(r, s) \cup {l.root : l \in {k \in new : k.rep = r /\ k.relation = s}}
           /\ \A r : SupportTags(r) \subseteq SupportTags(r)'
BY DEF Linked, SupportTags

LEMMA OpposesAre ==
    /\ Opposite("SUPPORTS") = "OPPOSES" /\ Opposite("OPPOSES") = "SUPPORTS"
    /\ \A a, b \in Sides : a = Opposite(b) => b = Opposite(a) /\ a # b
BY DEF Opposite, Sides

(* Nothing is checked and nothing is put: the sides stay as they are. *)
LEMMA SidesStay ==
    ASSUME SidesMeet, UNCHANGED <<links, overlap>>, \A w \in Recorders : inflight'[w] \subseteq inflight[w]
    PROVE  SidesMeet'
<1>1. \A r, s : Linked(r, s)' = Linked(r, s)
    BY LinkedStays
<1> QED
    BY <1>1 DEF SidesMeet, OneStancePerRoot

(* ... and the grounds with them, when what becomes established has earned it. *)
LEMMA GroundsStay ==
    ASSUME Grounded, UNCHANGED links, \A w \in Recorders : inflight'[w] \subseteq inflight[w],
           \A r \in Reps : standing'[r].status = "ESTABLISHED" =>
              standing[r].status = "ESTABLISHED" \/ Earned(r)
    PROVE  Grounded'
<1>1. /\ \A r, s : Linked(r, s)' = Linked(r, s)
      /\ \A r : SupportTags(r)' = SupportTags(r)
    BY LinkedStays
<1>2. ReportsAreOwn'
    BY <1>1 DEF Grounded, ReportsAreOwn
<1>3. \A r : Earned(r)' <=> Earned(r)
    BY <1>1 DEF Earned
<1>4. \A w \in Recorders : \A l \in inflight'[w] :
          l.relation = "SUPPORTS" /\ l.rep \in SelfReported => l.root \in UserPrompts
    BY DEF Grounded
<1> QED
    BY <1>2, <1>3, <1>4 DEF Grounded

(* No trouble begins and no duty ends: what is owed stays owed. *)
LEMMA OwingStays ==
    ASSUME Owing,
           \A r \in Reps : Troubled(r)' => Troubled(r) /\ (judge.rep = r => judge'.rep = r),
           \A c \in Reflections : reflection[c] = "review" => reflection'[c] = "review",
           mind' = mind \/ mind'.at \notin {"review", "oppose"}
             \/ (mind'.next = mind.next /\ mind'.task = mind.task /\ mind.at = "review") \/ mind'.next = 1,
           mind'.at \in {"review", "oppose"} =>
             mind'.task \in Reflections /\ mind'.next \in 1 .. Len(Script[mind'.task]),
           \A c \in Reflections : Len(Script[c]) \in Nat /\ \A k \in 1 .. Len(Script[c]) : RepOf(c, k) \in Reps
    PROVE  Owing'
<1>1. \A r \in Reps : Troubled(r)' => VerdictIsOwed(r)'
    BY DEF Owing, VerdictIsOwed
<1>2. ReviewedBefore(mind)'
  <2>1. PICK m : m = mind'
      OBVIOUS
  <2>2. SUFFICES ASSUME m.at \in {"review", "oppose"}, NEW k \in 1 .. m.next - 1, Troubled(RepOf(m.task, k))'
                 PROVE  judge'.rep = RepOf(m.task, k)
      BY <2>1 DEF ReviewedBefore, RepOf, Troubled
  <2>3. m.task \in Reflections /\ m.next \in 1 .. Len(Script[m.task]) /\ Len(Script[m.task]) \in Nat
      BY <2>1, <2>2
  <2>4. k \in 1 .. Len(Script[m.task]) /\ m.next # 1
      BY <2>3
  <2>5. m.next = mind.next /\ m.task = mind.task /\ mind.at \in {"review", "oppose"}
      BY <2>1, <2>2, <2>4
  <2>6. PICK r \in Reps : r = RepOf(m.task, k)
      BY <2>3, <2>4
  <2>7. Troubled(r)'
      BY <2>2, <2>6
  <2>8. Troubled(r) => judge.rep = r
      BY <2>5, <2>6 DEF Owing, ReviewedBefore
  <2> QED
      BY <2>6, <2>7, <2>8
<1> QED
    BY <1>1, <1>2 DEF Owing

LEMMA VerdictIsEarned ==
    ASSUME SelfTyped, NEW r \in Reps, NEW requested \in Stances,
           requested = "ESTABLISHED" => Linked(r, "SUPPORTS") \cup Linked(r, "OPPOSES") # {}
    PROVE  /\ Verdict(r, requested) \in Stances
           /\ Verdict(r, requested) = "ESTABLISHED" =>
                 requested = "ESTABLISHED" /\ Earned(r) /\ Linked(r, "OPPOSES") = {}
<1>1. PICK m : m = EvidenceMetrics(r)
    OBVIOUS
<1>2. Verdict(r, requested) = IF requested # "ESTABLISHED" THEN requested
                              ELSE IF m.opposition > 0 THEN "CONTESTED"
                              ELSE IF r \in Generalized \ SelfReported /\ m.support < 2 THEN "CANDIDATE"
                              ELSE IF r \in Slow \ SelfReported /\ m.contexts < 2 THEN "CANDIDATE"
                              ELSE "ESTABLISHED"
    BY <1>1 DEF Verdict
<1>3. /\ m.opposition = Cardinality(Linked(r, "OPPOSES"))
      /\ m.support = Cardinality(Linked(r, "SUPPORTS"))
      /\ m.contexts = Cardinality(SupportTags(r))
    BY <1>1 DEF EvidenceMetrics
<1>4. Verdict(r, requested) \in Stances
    BY <1>2 DEF Stances
<1>5. ASSUME Verdict(r, requested) = "ESTABLISHED"
      PROVE  requested = "ESTABLISHED" /\ Earned(r) /\ Linked(r, "OPPOSES") = {}
  <2>1. /\ requested = "ESTABLISHED" /\ ~(m.opposition > 0)
        /\ r \in Generalized \ SelfReported => ~(m.support < 2)
        /\ r \in Slow \ SelfReported => ~(m.contexts < 2)
      BY <1>2, <1>5
  <2>2. m.opposition \in Nat /\ m.support \in Nat /\ m.contexts \in Nat /\ IsFiniteSet(Linked(r, "OPPOSES"))
      BY <1>3, LinkedIsFinite
  <2>3. m.opposition = 0
      BY <2>1, <2>2
  <2>4. Linked(r, "OPPOSES") = {}
      BY <1>3, <2>2, <2>3, FS_EmptySet
  <2>5. Linked(r, "SUPPORTS") # {}
      BY <2>1, <2>4
  <2>6. /\ r \in Generalized \ SelfReported => m.support >= 2
        /\ r \in Slow \ SelfReported => m.contexts >= 2
      BY <2>1, <2>2
  <2> QED
      BY <1>3, <2>1, <2>4, <2>5, <2>6 DEF Earned
<1> QED
    BY <1>4, <1>5

(* What a resolution changes: what it establishes is earned and unopposed. *)
LEMMA ResolveChanges ==
    ASSUME SelfTyped, RecordsNameRecords, NEW r \in Reps, r \in known, NEW requested \in Stances,
           NEW centrality \in Centralities, NEW checked, NEW at,
           Resolve(r, requested, centrality, checked, at)
    PROVE  /\ standing' = [q \in Reps |-> standing'[q]]
           /\ \A q \in Reps : q # r => standing'[q] = standing[q]
           /\ \A q \in Reps : /\ standing'[q].status \in Stances /\ standing'[q].centrality \in Centralities
                              /\ standing'[q] # NoStanding => q \in known
           /\ standing'[r].status = "ESTABLISHED" => Earned(r) /\ Linked(r, "OPPOSES") = {}
<1>1. PICK state : state = [status |-> Verdict(r, requested), centrality |-> centrality,
                            metrics |-> EvidenceMetrics(r), checked |-> checked]
    OBVIOUS
<1>2. /\ standing' = [standing EXCEPT ![r] = state]
      /\ requested = "ESTABLISHED" => Linked(r, "SUPPORTS") \cup Linked(r, "OPPOSES") # {}
    BY <1>1 DEF Resolve
<1>3. state.status = Verdict(r, requested) /\ state.centrality = centrality
    BY <1>1
<1>4. /\ Verdict(r, requested) \in Stances
      /\ Verdict(r, requested) = "ESTABLISHED" => Earned(r) /\ Linked(r, "OPPOSES") = {}
    BY <1>2, VerdictIsEarned
<1>5. standing = [q \in Reps |-> standing[q]]
    BY DEF SelfTyped
<1>6. /\ standing' = [q \in Reps |-> standing'[q]] /\ standing'[r] = state
      /\ \A q \in Reps : q # r => standing'[q] = standing[q]
    BY <1>2, <1>5
<1> QED
    BY <1>3, <1>4, <1>6 DEF RecordsNameRecords

(* So a resolution keeps the grounds, the sides, and what else is in trouble. *)
LEMMA ResolveKeepsGrounds ==
    ASSUME Grounded, SidesMeet, NEW r \in Reps, UNCHANGED evidenceVars,
           \A q \in Reps : q # r => standing'[q] = standing[q],
           standing'[r].status = "ESTABLISHED" => Earned(r) /\ Linked(r, "OPPOSES") = {}
    PROVE  /\ Grounded' /\ SidesMeet'
           /\ \A q \in Reps : Troubled(q)' => Troubled(q) /\ q # r
<1>1. UNCHANGED <<links, inflight, overlap>>
    BY DEF evidenceVars, recorderVars
<1>2. \A q, s : Linked(q, s)' = Linked(q, s)
    BY <1>1, LinkedStays
<1>3. \A q \in Reps : Troubled(q)' => Troubled(q) /\ q # r
    BY <1>2 DEF Troubled
<1>4. \A q \in Reps : standing'[q].status = "ESTABLISHED" => standing[q].status = "ESTABLISHED" \/ Earned(q)
    OBVIOUS
<1> QED
    BY <1>1, <1>3, <1>4, SidesStay, GroundsStay
-----------------------------------------------------------------------------
(* What recorders hold before and after a step. *)

LEMMA HeldIsTyped ==
    ASSUME SelfTyped, NEW w \in Recorders
    PROVE  /\ Held(w) \subseteq Links /\ (Recorded(w) <=> Held(w) = {})
           /\ \A l \in Held(w) : /\ l.rep \in Reps /\ l.root \in Roots /\ l.relation \in Sides
                                 /\ l \in unrecorded[w] \/ l \in inflight[w]
BY DEF Held, Recorded, SelfTyped, Links

LEMMA HandTakes ==
    ASSUME SelfTyped, NEW w \in Recorders, NEW S, S \subseteq Links,
           unrecorded' = [unrecorded EXCEPT ![w] = S], UNCHANGED inflight, Held(w) = {}
    PROVE  /\ unrecorded' \in [Recorders -> SUBSET Links] /\ inflight' \in [Recorders -> SUBSET Links]
           /\ Held(w)' = S /\ \A v \in Recorders : v # w => Held(v)' = Held(v)
<1>1. /\ unrecorded' \in [Recorders -> SUBSET Links] /\ inflight' \in [Recorders -> SUBSET Links]
      /\ unrecorded'[w] = S /\ \A v \in Recorders : v # w => unrecorded'[v] = unrecorded[v]
    BY DEF SelfTyped
<1>2. inflight[w] = {}
    BY DEF Held
<1> QED
    BY <1>1, <1>2 DEF Held

LEMMA HandDrops ==
    ASSUME SelfTyped, NEW w \in Recorders, Drop(w)
    PROVE  /\ unrecorded' \in [Recorders -> SUBSET Links] /\ inflight' \in [Recorders -> SUBSET Links]
           /\ Held(w)' = {} /\ \A v \in Recorders : v # w => Held(v)' = Held(v)
           /\ \A v \in Recorders : inflight'[v] \subseteq inflight[v]
           /\ UNCHANGED overlap
<1>1. /\ unrecorded' \in [Recorders -> SUBSET Links] /\ inflight' \in [Recorders -> SUBSET Links]
      /\ unrecorded'[w] = {} /\ \A v \in Recorders : v # w => unrecorded'[v] = unrecorded[v]
      /\ inflight'[w] = {} /\ \A v \in Recorders : v # w => inflight'[v] = inflight[v]
      /\ UNCHANGED overlap
    BY DEF SelfTyped, Drop
<1> QED
    BY <1>1 DEF Held

LEMMA LinkIsTyped ==
    ASSUME NEW r \in Reps, NEW root \in Roots, NEW relation \in Sides, NEW origin \in Origins,
           NEW tags \in SUBSET Tags
    PROVE  /\ Link(r, root, relation, origin, tags) \in Links
           /\ Link(r, root, relation, origin, tags).rep = r
           /\ Link(r, root, relation, origin, tags).root = root
           /\ Link(r, root, relation, origin, tags).relation = relation
BY DEF Link, Links

LEMMA ScriptIsTyped ==
    \A c \in Reflections :
        /\ Len(Script[c]) \in Nat /\ (Script[c] # <<>> => Len(Script[c]) > 0)
        /\ \A k \in 1 .. Len(Script[c]) : /\ RepOf(c, k) \in Reps
                                          /\ Script[c][k].support \subseteq Roots
                                          /\ Script[c][k].centrality \in Centralities
<1> SUFFICES ASSUME NEW c \in Reflections
             PROVE  /\ Len(Script[c]) \in Nat /\ (Script[c] # <<>> => Len(Script[c]) > 0)
                    /\ \A k \in 1 .. Len(Script[c]) : /\ RepOf(c, k) \in Reps
                                                      /\ Script[c][k].support \subseteq Roots
                                                      /\ Script[c][k].centrality \in Centralities
    OBVIOUS
<1>1. Script[c] \in Seq(Proposals)
    BY SelfAssumption
<1>2. PICK s : s = Script[c]
    OBVIOUS
<1>3. Len(s) \in Nat /\ (s # <<>> => Len(s) > 0) /\ \A k \in 1 .. Len(s) : s[k] \in Proposals
    BY <1>1, <1>2
<1> QED
    BY <1>2, <1>3 DEF RepOf, Proposals

LEMMA ArrivedIsNat == SelfTyped => arrived \in Nat
BY SelfAssumption DEF SelfTyped

(* What a step that leaves a process alone keeps of it. *)
LEMMA ReflectionUntouched ==
    ASSUME Controlled, UNCHANGED <<mind, reflection>>, known \subseteq known',
           arrived' \in Nat, arrived <= arrived', Held("mind")' \subseteq Held("mind")
    PROVE  AtStage(mind)' /\ ReviewsAreKnown'
<1>1. \A root \in Roots : root <= arrived => root <= arrived'
    BY RootsAreNumbers, ArrivedIsNat DEF Controlled
<1>2. \A c \in Reflections : Evidence(c) \subseteq Roots
    BY SelfAssumption DEF Evidence
<1>3. PICK m : m = mind
    OBVIOUS
<1>4. AtStage(m) /\ mind' = m
    BY <1>3 DEF Controlled
<1>5. /\ m.at = "idle" => m = IdleMind
      /\ m.at # "idle" => m.task \in Reflections /\ m.next \in 1 .. Len(Script[m.task])
      /\ m.at \in {"propose", "support"} =>
            /\ reflection'[m.task] = "propose"
            /\ \A k \in 1 .. m.next - 1 : RepOf(m.task, k) \in known'
      /\ m.at = "support" => RepOf(m.task, m.next) \in known'
      /\ m.at \in {"review", "oppose"} => reflection'[m.task] = "review"
      /\ m.at = "oppose" => \A k \in 1 .. m.next - 1 : RepOf(m.task, k) # RepOf(m.task, m.next)
    BY <1>4 DEF AtStage
<1>6. m.at \in {"propose", "support"} => \A root \in Evidence(m.task) : root <= arrived'
  <2>1. m.at \in {"propose", "support"} => m.task \in Reflections /\ \A root \in Evidence(m.task) : root <= arrived
      BY <1>4 DEF AtStage
  <2> QED
      BY <1>1, <1>2, <2>1
<1>7. /\ m.at \notin {"support", "oppose"} => Held("mind")' = {}
      /\ \A l \in Held("mind")' : l.relation = "OPPOSES" =>
            m.at = "oppose" /\ l.rep = RepOf(m.task, m.next)
    BY <1>4 DEF AtStage
<1>8. AtStage(mind)'
    BY ONLY <1>4, <1>5, <1>6, <1>7 DEF AtStage, RepOf, Evidence
<1>9. ReviewsAreKnown'
    BY DEF Controlled, ReviewsAreKnown, RepOf
<1> QED
    BY <1>8, <1>9

LEMMA JudgementUntouched ==
    ASSUME Controlled, UNCHANGED judge, known \subseteq known', arrived' \in Nat, arrived <= arrived',
           judge.at \in {"read", "resolve"} => prediction'[judge.rep] = prediction[judge.rep],
           Held("judge")' \subseteq Held("judge")
    PROVE  AtJudgement(judge)'
<1>1. arrived \in Nat
    BY ArrivedIsNat DEF Controlled
<1> QED
    BY <1>1 DEF Controlled, AtJudgement

LEMMA HeirUntouched ==
    ASSUME Controlled, Held("heir")' \subseteq Held("heir") PROVE HeirSupports'
BY DEF Controlled, HeirSupports

(* A step that puts no evidence and resolves nothing. *)
LEMMA RecordsUntouched ==
    ASSUME Controlled, UNCHANGED <<links, standing>>, known \subseteq known', known' \subseteq Reps,
           arrived' \in 0 .. LastRoot, arrived <= arrived',
           unrecorded' \in [Recorders -> SUBSET Links], inflight' \in [Recorders -> SUBSET Links],
           \A w \in Recorders : \A l \in Held(w)' : l.root <= arrived' /\ l.rep \in known',
           heir' \subseteq Reps \X Reps, \A edge \in heir' : edge[1] \in known',
           reflection' \in [Reflections -> {"propose", "review", "done"}], mind' \in Mind,
           cutoff' \in [Reflections -> Nat], \A c \in Reflections : cutoff'[c] <= arrived',
           prediction' \in [Predictions -> Prediction],
           \A p \in Predictions : prediction'[p] # NoPrediction => p \in known',
           judge' = [at |-> judge'.at, rep |-> judge'.rep, asked |-> judge'.asked],
           judge'.at \in {"idle", "read", "resolve", "failed"}, judge'.rep \in Predictions \cup {0},
           interrupts' \in 0 .. MaxInterrupts
    PROVE  SelfTyped' /\ RecordsNameRecords'
<1>1. arrived \in Nat /\ arrived' \in Nat
    BY ArrivedIsNat, SelfAssumption DEF Controlled
<1>2. SelfTyped'
    BY DEF Controlled, SelfTyped
<1>3. \A l \in links : l.root \in Nat
    BY LinksAreTyped, RootsAreNumbers DEF Controlled, RootsAreRoots
<1>4. \A l \in links' : l.root <= arrived' /\ l.rep \in known'
    BY <1>1, <1>3 DEF Controlled, RecordsNameRecords
<1>5. \A r \in Reps : /\ standing'[r].status \in Stances /\ standing'[r].centrality \in Centralities
                      /\ standing'[r] # NoStanding => r \in known'
    BY DEF Controlled, RecordsNameRecords
<1>6. \A w \in Recorders : \A l \in Held(w)' : l.root <= arrived' /\ l.rep \in known'
    OBVIOUS
<1> QED
    BY <1>2, <1>4, <1>5, <1>6 DEF RecordsNameRecords

(* A step that checks, puts and resolves nothing, and ends no review, has    *)
(* only to keep control.                                                     *)
LEMMA QuietStep ==
    ASSUME SelfIInv, Controlled', UNCHANGED <<links, overlap, standing>>,
           \A w \in Recorders : inflight'[w] \subseteq inflight[w],
           judge'.rep = judge.rep \/ judge.rep = 0,
           \A c \in Reflections : reflection[c] = "review" => reflection'[c] = "review",
           mind' = mind \/ mind'.at \notin {"review", "oppose"}
             \/ (mind'.next = mind.next /\ mind'.task = mind.task /\ mind.at = "review") \/ mind'.next = 1
    PROVE  SelfIInv'
<1>1. SidesMeet'
    BY SidesStay DEF SelfIInv
<1>2. Grounded'
    BY GroundsStay DEF SelfIInv
<1>3. 0 \notin Reps
    BY SelfAssumption
<1>4. \A r \in Reps : Troubled(r)' => Troubled(r) /\ (judge.rep = r => judge'.rep = r)
    BY <1>3, LinkedStays DEF Troubled
<1>5. PICK m : m = mind'
    OBVIOUS
<1>6. m.at \in {"review", "oppose"} => m.task \in Reflections /\ m.next \in 1 .. Len(Script[m.task])
    BY <1>5 DEF Controlled, AtStage
<1>7. Owing'
    BY <1>4, <1>5, <1>6, ScriptIsTyped, OwingStays DEF SelfIInv
<1> QED
    BY <1>1, <1>2, <1>7 DEF SelfIInv

LEMMA SelfInitEstablishes == SelfInit => SelfIInv
<1> SUFFICES ASSUME SelfInit PROVE SelfIInv
    OBVIOUS
<1>1. /\ IdleMind \in Mind /\ IdleMind.at = "idle" /\ NoPrediction \in Prediction
      /\ IdleJudge = [at |-> "idle", rep |-> 0, asked |-> NoStanding]
      /\ IdleJudge.at = "idle" /\ IdleJudge.rep = 0 /\ IdleJudge.asked = NoStanding
      /\ NoStanding.status = "NONE" /\ NoStanding.centrality = 0
    BY DEF IdleMind, IdleJudge, NoPrediction, NoStanding, Mind, Prediction
<1>2. SelfTyped
    BY <1>1, SelfAssumption DEF SelfInit, SelfTyped
<1>3. \A w \in Recorders : Held(w) = {} /\ inflight[w] = {}
    BY DEF SelfInit, Held
<1>4. RecordsNameRecords
    BY <1>1, <1>3 DEF SelfInit, RecordsNameRecords, Stances, Centralities
<1>5. ReviewsAreKnown /\ HeirSupports
    BY <1>3 DEF SelfInit, ReviewsAreKnown, HeirSupports, Recorders
<1>6. AtStage(mind) /\ AtJudgement(judge)
    BY <1>1, <1>3 DEF SelfInit, AtStage, AtJudgement, Recorders
<1>7. SidesMeet
    BY <1>3 DEF SelfInit, SidesMeet, OneStancePerRoot, Linked
<1>8. \A r \in Reps : standing[r].status # "ESTABLISHED"
    BY <1>1 DEF SelfInit
<1>9. Grounded
    BY <1>3, <1>8 DEF SelfInit, Grounded, ReportsAreOwn, Linked
<1>10. Owing
    BY <1>1, <1>8 DEF SelfInit, Owing, Troubled, ReviewedBefore
<1> QED
    BY <1>2, <1>4, <1>5, <1>6, <1>7, <1>9, <1>10 DEF SelfIInv, Controlled

LEMMA ArrivePreserves == SelfIInv /\ Arrive => SelfIInv'
<1> SUFFICES ASSUME SelfIInv, Arrive PROVE SelfIInv'
    OBVIOUS
<1>1. /\ arrived \in Nat /\ arrived' \in 0 .. LastRoot /\ arrived' \in Nat /\ arrived <= arrived'
      /\ UNCHANGED <<links, unrecorded, inflight, overlap, known, standing, reflection, cutoff, mind,
                     prediction, judge, heir, interrupts>>
    BY SelfAssumption DEF SelfIInv, Controlled, SelfTyped, Arrive, evidenceVars, recorderVars, mindVars, otherVars
<1>2. \A w : Held(w)' = Held(w)
    BY <1>1 DEF Held
<1>3. SelfTyped' /\ RecordsNameRecords'
  <2>1. \A w \in Recorders : \A l \in Held(w)' : l.root <= arrived' /\ l.rep \in known'
    <3>1. \A w \in Recorders : \A l \in Held(w) : l.root \in Nat /\ l.root <= arrived /\ l.rep \in known
        BY HeldIsTyped, RootsAreNumbers DEF SelfIInv, Controlled, RecordsNameRecords
    <3> QED
        BY <1>1, <1>2, <3>1
  <2>2. \A c \in Reflections : cutoff'[c] <= arrived'
      BY <1>1 DEF SelfIInv, Controlled, SelfTyped, RecordsNameRecords
  <2> QED
      BY <1>1, <2>1, <2>2, RecordsUntouched DEF SelfIInv, Controlled, SelfTyped, RecordsNameRecords
<1>4. AtStage(mind)' /\ ReviewsAreKnown' /\ AtJudgement(judge)' /\ HeirSupports'
    BY <1>1, <1>2, ReflectionUntouched, JudgementUntouched, HeirUntouched DEF SelfIInv
<1> QED
    BY <1>1, <1>3, <1>4, QuietStep DEF Controlled

(* Inheritance. *)

(* A step of inheritance leaves the other processes alone. *)
LEMMA HeirStepPreserves ==
    ASSUME SelfIInv, UNCHANGED <<arrived, links, overlap, known, standing, reflection, cutoff, mind,
                                 prediction, judge>>,
           unrecorded' \in [Recorders -> SUBSET Links], inflight' \in [Recorders -> SUBSET Links],
           \A w \in Recorders : inflight'[w] \subseteq inflight[w],
           \A w \in Recorders \ {"heir"} : Held(w)' = Held(w),
           \A l \in Held("heir")' : l.relation = "SUPPORTS" /\ l.root <= arrived /\ l.rep \in known,
           heir' \subseteq Reps \X Reps, \A edge \in heir' : edge[1] \in known,
           interrupts' \in 0 .. MaxInterrupts
    PROVE  SelfIInv'
<1>1. arrived \in Nat /\ arrived \in 0 .. LastRoot
    BY ArrivedIsNat DEF SelfIInv, Controlled, SelfTyped
<1>2. \A w \in Recorders : \A l \in Held(w)' : l.root <= arrived' /\ l.rep \in known'
    BY DEF SelfIInv, Controlled, RecordsNameRecords
<1>3. SelfTyped' /\ RecordsNameRecords'
    BY <1>1, <1>2, RecordsUntouched DEF SelfIInv, Controlled, SelfTyped, RecordsNameRecords
<1>4. AtStage(mind)' /\ ReviewsAreKnown' /\ AtJudgement(judge)'
    BY <1>1, ReflectionUntouched, JudgementUntouched DEF SelfIInv, Recorders
<1>5. HeirSupports'
    BY DEF HeirSupports
<1> QED
    BY <1>3, <1>4, <1>5, QuietStep DEF Controlled

LEMMA InheritPreserves ==
    ASSUME SelfIInv, NEW r \in Reps, InheritParentRoots(r) PROVE SelfIInv'
<1>1. /\ r \in known /\ heir' = {<<r, p>> : p \in Parents[r]}
      /\ UNCHANGED <<arrived, links, unrecorded, inflight, overlap, known, standing, reflection, cutoff,
                     mind, prediction, judge, interrupts>>
    BY DEF InheritParentRoots, evidenceVars, recorderVars, mindVars
<1>2. \A w \in Recorders : Held(w)' = Held(w) /\ inflight'[w] \subseteq inflight[w]
    BY <1>1 DEF Held
<1>3. heir' \subseteq Reps \X Reps /\ \A edge \in heir' : edge[1] \in known
    BY <1>1, SelfAssumption
<1>4. \A l \in Held("heir")' : l.relation = "SUPPORTS" /\ l.root <= arrived /\ l.rep \in known
    BY <1>2 DEF SelfIInv, Controlled, HeirSupports, RecordsNameRecords, Recorders
<1> QED
    BY <1>1, <1>2, <1>3, <1>4, HeirStepPreserves DEF SelfIInv, Controlled, SelfTyped

LEMMA ReadParentPreserves ==
    ASSUME SelfIInv, NEW edge \in heir, ReadParent(edge) PROVE SelfIInv'
<1>1. PICK roots : roots = {k \in links : k.rep = edge[2] /\ k.relation = "SUPPORTS"}
    OBVIOUS
<1>2. PICK S : S = {Link(edge[1], l.root, "SUPPORTS", "INHERITED", l.tags) : l \in roots}
    OBVIOUS
<1>3. /\ Recorded("heir") /\ heir' = heir \ {edge} /\ unrecorded' = [unrecorded EXCEPT !["heir"] = S]
      /\ UNCHANGED <<arrived, links, inflight, overlap, known, standing, reflection, cutoff,
                     mind, prediction, judge, interrupts>>
    BY <1>1, <1>2 DEF ReadParent, mindVars
<1>4. SelfTyped /\ RecordsNameRecords
    BY DEF SelfIInv, Controlled
<1>5. edge[1] \in Reps /\ edge[1] \in known
    BY <1>4 DEF SelfTyped, RecordsNameRecords
<1>6. ASSUME NEW l \in S PROVE l \in Links /\ l.relation = "SUPPORTS" /\ l.root <= arrived /\ l.rep \in known
  <2>1. PICK k \in roots : l = Link(edge[1], k.root, "SUPPORTS", "INHERITED", k.tags)
      BY <1>2
  <2>2. k \in links /\ k.root \in Roots /\ k.tags \in SUBSET Tags /\ k.root <= arrived
      BY <1>1, <1>4 DEF SelfTyped, Links, RecordsNameRecords
  <2>3. "SUPPORTS" \in Sides /\ "INHERITED" \in Origins
      BY DEF Sides, Origins
  <2> QED
      BY <1>5, <2>1, <2>2, <2>3, LinkIsTyped
<1>7. Held("heir") = {} /\ "heir" \in Recorders
    BY <1>3 DEF Held, Recorded, Recorders
<1>8. S \subseteq Links
    BY <1>6
<1>9. /\ unrecorded' \in [Recorders -> SUBSET Links] /\ inflight' \in [Recorders -> SUBSET Links]
      /\ Held("heir")' = S /\ \A v \in Recorders : v # "heir" => Held(v)' = Held(v)
    BY <1>3, <1>4, <1>7, <1>8, HandTakes
<1>10. heir' \subseteq Reps \X Reps /\ \A e \in heir' : e[1] \in known
    BY <1>3, <1>4 DEF SelfTyped, RecordsNameRecords
<1>11. interrupts' \in 0 .. MaxInterrupts
    BY <1>3, <1>4 DEF SelfTyped
<1> QED
    BY <1>3, <1>6, <1>9, <1>10, <1>11, HeirStepPreserves

LEMMA HeirFailsPreserves == SelfIInv /\ HeirFails => SelfIInv'
<1> SUFFICES ASSUME SelfIInv, HeirFails PROVE SelfIInv'
    OBVIOUS
<1>1. /\ Drop("heir") /\ heir' = {} /\ interrupts < MaxInterrupts /\ interrupts' = interrupts + 1
      /\ UNCHANGED <<arrived, links, known, standing, reflection, cutoff, mind, prediction, judge>>
    BY DEF HeirFails, mindVars
<1>2. "heir" \in Recorders
    BY DEF Recorders
<1>3. /\ unrecorded' \in [Recorders -> SUBSET Links] /\ inflight' \in [Recorders -> SUBSET Links]
      /\ Held("heir")' = {} /\ \A v \in Recorders : v # "heir" => Held(v)' = Held(v)
      /\ \A v \in Recorders : inflight'[v] \subseteq inflight[v]
      /\ UNCHANGED overlap
    BY <1>1, <1>2, HandDrops DEF SelfIInv, Controlled
<1>4. interrupts' \in 0 .. MaxInterrupts
    BY <1>1, SelfAssumption DEF SelfIInv, Controlled, SelfTyped
<1> QED
    BY <1>1, <1>3, <1>4, HeirStepPreserves

(* Predictions. *)

(* A step that only moves predictions, their judge and what it holds. *)
LEMMA JudgeStepPreserves ==
    ASSUME SelfIInv, UNCHANGED <<arrived, links, overlap, known, standing, reflection, cutoff, mind, heir>>,
           unrecorded' \in [Recorders -> SUBSET Links], inflight' \in [Recorders -> SUBSET Links],
           \A w \in Recorders : inflight'[w] \subseteq inflight[w],
           \A w \in Recorders \ {"judge"} : Held(w)' = Held(w),
           \A l \in Held("judge")' : l.root <= arrived /\ l.rep \in known,
           prediction' \in [Predictions -> Prediction],
           \A p \in Predictions : prediction'[p] # NoPrediction => p \in known,
           judge' = [at |-> judge'.at, rep |-> judge'.rep, asked |-> judge'.asked],
           judge'.at \in {"idle", "read", "resolve", "failed"}, judge'.rep \in Predictions \cup {0},
           AtJudgement(judge)', judge'.rep = judge.rep \/ judge.rep = 0,
           interrupts' \in 0 .. MaxInterrupts
    PROVE  SelfIInv'
<1>1. arrived \in Nat /\ arrived \in 0 .. LastRoot
    BY ArrivedIsNat DEF SelfIInv, Controlled, SelfTyped
<1>2. \A w \in Recorders : \A l \in Held(w)' : l.root <= arrived' /\ l.rep \in known'
    BY DEF SelfIInv, Controlled, RecordsNameRecords
<1>3. SelfTyped' /\ RecordsNameRecords'
    BY <1>1, <1>2, RecordsUntouched DEF SelfIInv, Controlled, SelfTyped, RecordsNameRecords
<1>4. AtStage(mind)' /\ ReviewsAreKnown' /\ HeirSupports'
    BY <1>1, ReflectionUntouched, HeirUntouched DEF SelfIInv, Recorders
<1> QED
    BY <1>3, <1>4, QuietStep DEF Controlled

LEMMA RecordPredictionPreserves ==
    ASSUME SelfIInv, NEW p \in Predictions, RecordPrediction(p) PROVE SelfIInv'
<1>1. PICK new : new = [outcome |-> "open", cutoff |-> arrived, root |-> 0]
    OBVIOUS
<1>2. /\ prediction[p] = NoPrediction /\ standing[p] # NoStanding
      /\ prediction' = [prediction EXCEPT ![p] = new]
      /\ UNCHANGED <<arrived, links, unrecorded, inflight, overlap, known, standing, reflection, cutoff,
                     mind, judge, heir, interrupts>>
    BY <1>1 DEF RecordPrediction, evidenceVars, recorderVars, mindVars
<1>3. SelfTyped /\ RecordsNameRecords /\ AtJudgement(judge) /\ arrived \in Nat
    BY ArrivedIsNat DEF SelfIInv, Controlled
<1>4. new \in Prediction
    BY <1>1, <1>3 DEF Prediction
<1>5. prediction' \in [Predictions -> Prediction] /\ \A q \in Predictions : q # p => prediction'[q] = prediction[q]
    BY <1>2, <1>3, <1>4 DEF SelfTyped
<1>6. p \in known
    BY <1>2, <1>3, SelfAssumption DEF RecordsNameRecords
<1>7. \A q \in Predictions : prediction'[q] # NoPrediction => q \in known
    BY <1>3, <1>5, <1>6 DEF RecordsNameRecords
<1>8. judge.at \in {"read", "resolve"} => judge.rep \in Predictions /\ judge.rep # p
  <2>1. NoPrediction.root = 0
      BY DEF NoPrediction
  <2> QED
      BY <1>2, <1>3, <2>1 DEF AtJudgement
<1>9. \A w \in Recorders : Held(w)' = Held(w) /\ inflight'[w] \subseteq inflight[w]
    BY <1>2 DEF Held
<1>10. "judge" \in Recorders
    BY DEF Recorders
<1>11. AtJudgement(judge)'
    BY <1>2, <1>3, <1>5, <1>8, <1>9, <1>10, JudgementUntouched DEF SelfIInv
<1>12. \A l \in Held("judge")' : l.root <= arrived /\ l.rep \in known
    BY <1>3, <1>9, <1>10 DEF RecordsNameRecords
<1> QED
    BY <1>2, <1>3, <1>5, <1>7, <1>9, <1>11, <1>12, JudgeStepPreserves DEF SelfTyped

LEMMA RecordOutcomePreserves ==
    ASSUME SelfIInv, NEW p \in Predictions, NEW outcome \in {"CONFIRMED", "CONTRADICTED", "AMBIGUOUS"},
           NEW root \in Roots, RecordOutcome(p, outcome, root)
    PROVE  SelfIInv'
<1>1. PICK old : old = prediction[p]
    OBVIOUS
<1>2. PICK new : new = [old EXCEPT !.outcome = outcome, !.root = root]
    OBVIOUS
<1>3. PICK j : j = [IdleJudge EXCEPT !.at = "read", !.rep = p]
    OBVIOUS
<1>4. /\ judge = IdleJudge /\ old.outcome = "open" /\ root \in old.cutoff + 1 .. arrived
      /\ prediction' = [prediction EXCEPT ![p] = new]
      /\ judge' = IF outcome = "AMBIGUOUS" THEN IdleJudge ELSE j
      /\ UNCHANGED <<arrived, links, unrecorded, inflight, overlap, known, standing, reflection, cutoff,
                     mind, heir, interrupts>>
    BY <1>1, <1>2, <1>3 DEF RecordOutcome, evidenceVars, recorderVars, mindVars
<1>5. SelfTyped /\ RecordsNameRecords /\ AtJudgement(judge) /\ arrived \in Nat
    BY ArrivedIsNat DEF SelfIInv, Controlled
<1>6. old \in Prediction /\ old.cutoff \in Nat
    BY <1>1, <1>5 DEF SelfTyped, Prediction
<1>7. new = [outcome |-> outcome, cutoff |-> old.cutoff, root |-> root]
    BY <1>2, <1>6 DEF Prediction
<1>8. new \in Prediction /\ new.root = root
    BY <1>6, <1>7, RootsAreNumbers DEF Prediction
<1>9. /\ prediction' \in [Predictions -> Prediction] /\ prediction'[p] = new
      /\ \A q \in Predictions : q # p => prediction'[q] = prediction[q]
    BY <1>4, <1>5, <1>8 DEF SelfTyped
<1>10. p \in known
  <2>1. old # NoPrediction
      BY <1>4 DEF NoPrediction
  <2> QED
      BY <1>1, <1>5, <2>1 DEF RecordsNameRecords
<1>11. \A q \in Predictions : prediction'[q] # NoPrediction => q \in known
    BY <1>5, <1>9, <1>10 DEF RecordsNameRecords
<1>12. /\ IdleJudge = [at |-> "idle", rep |-> 0, asked |-> NoStanding]
       /\ IdleJudge.at = "idle" /\ IdleJudge.rep = 0 /\ IdleJudge.asked = NoStanding
    BY DEF IdleJudge
<1>13. j = [at |-> "read", rep |-> p, asked |-> NoStanding] /\ j.at = "read" /\ j.rep = p /\ j.asked = NoStanding
    BY <1>3, <1>12
<1>14. \A w \in Recorders : Held(w)' = Held(w) /\ inflight'[w] \subseteq inflight[w]
    BY <1>4 DEF Held
<1>15. Held("judge")' = {}
    BY <1>4, <1>5, <1>12, <1>14 DEF AtJudgement, Recorders
<1>16. judge' = IdleJudge \/ judge' = j
    BY <1>4
<1>17. AtJudgement(judge)'
  <2>1. root \in 1 .. arrived
      BY <1>4, <1>5, <1>6
  <2>2. CASE judge' = IdleJudge
      BY <1>12, <1>15, <2>2 DEF AtJudgement
  <2>3. CASE judge' = j
    <3>1. prediction'[j.rep].root \in 1 .. arrived'
        BY <1>4, <1>8, <1>9, <1>13, <2>1
    <3> QED
        BY <1>4, <1>10, <1>13, <1>15, <2>3, <3>1 DEF AtJudgement
  <2> QED
      BY <1>16, <2>2, <2>3
<1>18. /\ judge' = [at |-> judge'.at, rep |-> judge'.rep, asked |-> judge'.asked]
       /\ judge'.at \in {"idle", "read", "resolve", "failed"} /\ judge'.rep \in Predictions \cup {0}
    BY <1>12, <1>13, <1>16
<1> QED
    BY <1>4, <1>5, <1>9, <1>11, <1>12, <1>14, <1>15, <1>17, <1>18, JudgeStepPreserves DEF SelfTyped

LEMMA ReadStandingPreserves == SelfIInv /\ ReadStanding => SelfIInv'
<1> SUFFICES ASSUME SelfIInv, ReadStanding PROVE SelfIInv'
    OBVIOUS
<1>1. PICK r, root, relation :
          /\ r = judge.rep /\ root = prediction[judge.rep].root
          /\ relation = IF prediction[judge.rep].outcome = "CONFIRMED" THEN "SUPPORTS" ELSE "OPPOSES"
    OBVIOUS
<1>2. PICK l : l = Link(r, root, relation, "PREDICTION_OUTCOME", PredictionTags[r])
    OBVIOUS
<1>3. /\ judge.at = "read" /\ judge' = [at |-> "resolve", rep |-> judge.rep, asked |-> standing[judge.rep]]
      /\ unrecorded' = [unrecorded EXCEPT !["judge"] = {l}]
      /\ UNCHANGED <<arrived, links, inflight, overlap, known, standing, reflection, cutoff,
                     mind, prediction, heir, interrupts>>
    BY <1>1, <1>2 DEF ReadStanding, mindVars
<1>4. SelfTyped /\ RecordsNameRecords /\ AtJudgement(judge) /\ arrived \in Nat
    BY ArrivedIsNat DEF SelfIInv, Controlled
<1>5. r \in Predictions /\ r \in Reps /\ r \in known /\ root \in 1 .. arrived
    BY <1>1, <1>3, <1>4, SelfAssumption DEF AtJudgement
<1>6. root \in Roots /\ root <= arrived /\ relation \in Sides /\ PredictionTags[r] \in SUBSET Tags
      /\ "PREDICTION_OUTCOME" \in Origins
    BY <1>1, <1>4, <1>5, SelfAssumption DEF SelfTyped, Roots, Sides, Origins
<1>7. l \in Links /\ l.rep = r /\ l.root = root
    BY <1>2, <1>5, <1>6, LinkIsTyped
<1>8. "judge" \in Recorders /\ Held("judge") = {}
    BY <1>3, <1>4 DEF Recorders, AtJudgement
<1>9. PICK S : S = {l}
    OBVIOUS
<1>10. S \subseteq Links /\ unrecorded' = [unrecorded EXCEPT !["judge"] = S]
    BY <1>3, <1>7, <1>9
<1>11. /\ unrecorded' \in [Recorders -> SUBSET Links] /\ inflight' \in [Recorders -> SUBSET Links]
       /\ Held("judge")' = S /\ \A v \in Recorders : v # "judge" => Held(v)' = Held(v)
    BY <1>3, <1>4, <1>8, <1>10, HandTakes
<1>12. PICK j : j = [at |-> "resolve", rep |-> r, asked |-> standing[r]]
    OBVIOUS
<1>13. judge' = j /\ j.at = "resolve" /\ j.rep = r /\ j.asked = standing[r]
    BY <1>1, <1>3, <1>12
<1>14. AtJudgement(judge)'
  <2>1. standing[r].status \in Stances /\ standing[r].centrality \in Centralities
      BY <1>4, <1>5 DEF RecordsNameRecords
  <2>2. \A k \in Held("judge")' : k.rep = r
      BY <1>7, <1>9, <1>11
  <2>3. prediction'[r].root \in 1 .. arrived'
      BY <1>1, <1>3, <1>5
  <2> QED
      BY <1>3, <1>5, <1>13, <2>1, <2>2, <2>3 DEF AtJudgement
<1>15. \A k \in Held("judge")' : k.root <= arrived /\ k.rep \in known
    BY <1>5, <1>6, <1>7, <1>9, <1>11
<1>16. /\ judge' = [at |-> judge'.at, rep |-> judge'.rep, asked |-> judge'.asked]
       /\ judge'.at \in {"idle", "read", "resolve", "failed"} /\ judge'.rep \in Predictions \cup {0}
       /\ judge'.rep = judge.rep
    BY <1>1, <1>5, <1>12, <1>13
<1>17. \A q \in Predictions : prediction'[q] # NoPrediction => q \in known
    BY <1>3, <1>4 DEF RecordsNameRecords
<1> QED
    BY <1>3, <1>4, <1>11, <1>14, <1>15, <1>16, <1>17, JudgeStepPreserves DEF SelfTyped

LEMMA JudgeFailsPreserves == SelfIInv /\ JudgeFails => SelfIInv'
<1> SUFFICES ASSUME SelfIInv, JudgeFails PROVE SelfIInv'
    OBVIOUS
<1>1. /\ judge.at \in {"read", "resolve"} /\ judge' = [at |-> "failed", rep |-> judge.rep, asked |-> NoStanding]
      /\ Drop("judge") /\ interrupts < MaxInterrupts /\ interrupts' = interrupts + 1
      /\ UNCHANGED <<arrived, links, known, standing, reflection, cutoff, mind, prediction, heir>>
    BY DEF JudgeFails, mindVars
<1>2. SelfTyped /\ RecordsNameRecords /\ AtJudgement(judge)
    BY DEF SelfIInv, Controlled
<1>3. PICK j : j = [at |-> "failed", rep |-> judge.rep, asked |-> NoStanding]
    OBVIOUS
<1>4. judge' = j /\ j.at = "failed" /\ j.rep = judge.rep
    BY <1>1, <1>3
<1>5. "judge" \in Recorders
    BY DEF Recorders
<1>6. /\ unrecorded' \in [Recorders -> SUBSET Links] /\ inflight' \in [Recorders -> SUBSET Links]
      /\ Held("judge")' = {} /\ \A v \in Recorders : v # "judge" => Held(v)' = Held(v)
      /\ \A v \in Recorders : inflight'[v] \subseteq inflight[v]
      /\ UNCHANGED overlap
    BY <1>1, <1>2, <1>5, HandDrops
<1>7. judge.rep \in Predictions /\ judge.rep \in known
    BY <1>1, <1>2 DEF AtJudgement
<1>8. AtJudgement(judge)'
    BY <1>1, <1>4, <1>6, <1>7 DEF AtJudgement
<1>9. interrupts' \in 0 .. MaxInterrupts
    BY <1>1, <1>2, SelfAssumption DEF SelfTyped
<1>10. /\ judge' = [at |-> judge'.at, rep |-> judge'.rep, asked |-> judge'.asked]
       /\ judge'.at \in {"idle", "read", "resolve", "failed"} /\ judge'.rep \in Predictions \cup {0}
       /\ judge'.rep = judge.rep
    BY <1>3, <1>4, <1>7
<1>11. \A q \in Predictions : prediction'[q] # NoPrediction => q \in known
    BY <1>1, <1>2 DEF RecordsNameRecords
<1> QED
    BY <1>1, <1>2, <1>6, <1>8, <1>9, <1>10, <1>11, JudgeStepPreserves DEF SelfTyped

(* The judge asks for the standing that it read, however stale: the rules    *)
(* decide on the evidence of now.                                            *)
LEMMA ResolveByOutcomePreserves == SelfIInv /\ ResolveByOutcome => SelfIInv'
<1> SUFFICES ASSUME SelfIInv, ResolveByOutcome PROVE SelfIInv'
    OBVIOUS
<1>1. PICK r, requested, centrality, checked :
          /\ r = judge.rep /\ requested = judge.asked.status
          /\ centrality = judge.asked.centrality /\ checked = judge.asked.checked
    OBVIOUS
<1>2. /\ judge.at = "resolve" /\ Recorded("judge") /\ Resolve(r, requested, centrality, checked, 0)
      /\ judge' = IdleJudge /\ UNCHANGED evidenceVars
      /\ UNCHANGED <<arrived, links, unrecorded, inflight, overlap, known, reflection, cutoff, mind,
                     prediction, heir, interrupts>>
    BY <1>1 DEF ResolveByOutcome, evidenceVars, recorderVars, mindVars
<1>3. SelfTyped /\ RecordsNameRecords /\ AtJudgement(judge) /\ arrived \in Nat
    BY ArrivedIsNat DEF SelfIInv, Controlled
<1>4. r \in Reps /\ r \in known /\ requested \in Stances /\ centrality \in Centralities
    BY <1>1, <1>2, <1>3, SelfAssumption DEF AtJudgement
<1>5. /\ standing' = [q \in Reps |-> standing'[q]]
      /\ \A q \in Reps : q # r => standing'[q] = standing[q]
      /\ \A q \in Reps : /\ standing'[q].status \in Stances /\ standing'[q].centrality \in Centralities
                         /\ standing'[q] # NoStanding => q \in known
      /\ standing'[r].status = "ESTABLISHED" => Earned(r) /\ Linked(r, "OPPOSES") = {}
    BY <1>2, <1>3, <1>4, ResolveChanges
<1>6. Grounded' /\ SidesMeet' /\ \A q \in Reps : Troubled(q)' => Troubled(q) /\ q # r
    BY <1>2, <1>4, <1>5, ResolveKeepsGrounds DEF SelfIInv
<1>7. /\ IdleJudge = [at |-> "idle", rep |-> 0, asked |-> NoStanding]
      /\ IdleJudge.at = "idle" /\ IdleJudge.rep = 0
    BY DEF IdleJudge
<1>8. SelfTyped'
    BY <1>2, <1>3, <1>5, <1>7 DEF SelfTyped
<1>9. \A w : Held(w)' = Held(w)
    BY <1>2 DEF Held
<1>10. RecordsNameRecords'
    BY <1>2, <1>3, <1>5, <1>9 DEF RecordsNameRecords
<1>11. Held("judge") = {}
    BY <1>2 DEF Held, Recorded
<1>12. AtJudgement(judge)'
    BY <1>2, <1>7, <1>9, <1>11 DEF AtJudgement
<1>13. AtStage(mind)' /\ ReviewsAreKnown' /\ HeirSupports'
    BY <1>2, <1>3, <1>9, ReflectionUntouched, HeirUntouched DEF SelfIInv
<1>14. PICK m : m = mind
    OBVIOUS
<1>15. m.at \in {"review", "oppose"} => m.task \in Reflections /\ m.next \in 1 .. Len(Script[m.task])
    BY <1>14 DEF SelfIInv, Controlled, AtStage
<1>16. Owing'
    BY <1>1, <1>2, <1>6, <1>14, <1>15, ScriptIsTyped, OwingStays DEF SelfIInv
<1> QED
    BY <1>6, <1>8, <1>10, <1>12, <1>13, <1>16 DEF SelfIInv, Controlled
-----------------------------------------------------------------------------
(* The recorders: a check takes a link in hand, and a put makes it a record. *)

LEMMA CheckPreserves ==
    ASSUME SelfIInv, NEW w \in Recorders, CheckSelfEvidence(w) PROVE SelfIInv'
<1>1. PICK link \in unrecorded[w] :
          /\ inflight[w] = {} /\ Admissible(link)
          /\ unrecorded' = [unrecorded EXCEPT ![w] = @ \ {link}]
          /\ inflight' = [inflight EXCEPT ![w] = {link}]
          /\ overlap' = overlap \cup
                {<<k.rep, k.root>> : k \in {l \in UNION {inflight[v] : v \in Recorders} :
                    /\ l.rep = link.rep /\ l.root = link.root
                    /\ l.relation = Opposite(link.relation)}}
    BY DEF CheckSelfEvidence
<1>2. UNCHANGED <<arrived, links, known, standing, reflection, cutoff, mind, prediction, judge, heir, interrupts>>
    BY DEF CheckSelfEvidence, mindVars, otherVars
<1>3. SelfTyped /\ RecordsNameRecords /\ arrived \in Nat
    BY ArrivedIsNat DEF SelfIInv, Controlled
<1>4. link \in Links /\ link.rep \in Reps /\ link.relation \in Sides
    BY <1>1, <1>3 DEF SelfTyped, Links
<1>5. /\ unrecorded' \in [Recorders -> SUBSET Links] /\ inflight' \in [Recorders -> SUBSET Links]
      /\ inflight'[w] = {link} /\ unrecorded'[w] = unrecorded[w] \ {link}
      /\ \A v \in Recorders : v # w => inflight'[v] = inflight[v] /\ unrecorded'[v] = unrecorded[v]
    BY <1>1, <1>3, <1>4 DEF SelfTyped
<1>6. \A v \in Recorders : Held(v)' = Held(v)
    BY <1>1, <1>5 DEF Held
<1>7. Controlled'
  <2>1. SelfTyped' /\ RecordsNameRecords'
      BY <1>2, <1>3, <1>5, <1>6 DEF SelfTyped, RecordsNameRecords
  <2>2. AtStage(mind)' /\ ReviewsAreKnown' /\ AtJudgement(judge)' /\ HeirSupports'
      BY <1>2, <1>3, <1>6, ReflectionUntouched, JudgementUntouched, HeirUntouched DEF SelfIInv, Recorders
  <2> QED
      BY <2>1, <2>2 DEF Controlled
<1>8. \A r, s : Linked(r, s)' = Linked(r, s)
    BY <1>2, LinkedStays
<1>9. overlap \subseteq overlap'
    BY <1>1
<1>10. SidesMeet'
  <2>1. OneStancePerRoot'
      BY <1>8, <1>9 DEF SelfIInv, SidesMeet, OneStancePerRoot
  <2>2. ASSUME NEW v \in Recorders, NEW l \in inflight'[v], l.root \in Linked(l.rep, Opposite(l.relation))
        PROVE  <<l.rep, l.root>> \in overlap'
    <3>1. CASE v = w
        BY <1>1, <1>5, <2>2, <3>1 DEF Admissible
    <3>2. CASE v # w
        BY <1>5, <1>9, <2>2, <3>2 DEF SelfIInv, SidesMeet
    <3> QED
        BY <3>1, <3>2
  <2>3. ASSUME NEW v \in Recorders, v # w, NEW k \in inflight[v],
               k.rep = link.rep, k.root = link.root, k.relation = Opposite(link.relation)
        PROVE  <<k.rep, k.root>> \in overlap'
      BY <1>1, <2>3
  <2>4. ASSUME NEW u \in Recorders, NEW v \in Recorders, NEW l \in inflight'[u], NEW k \in inflight'[v],
               l.rep = k.rep, l.root = k.root, l.relation = Opposite(k.relation)
        PROVE  <<l.rep, l.root>> \in overlap'
    <3>1. l.relation \in Sides /\ k.relation \in Sides
        BY <1>5 DEF Links
    <3>2. k.relation = Opposite(l.relation) /\ l # k
        BY <2>4, <3>1, OpposesAre
    <3>3. CASE u = w
        BY <1>5, <2>3, <2>4, <3>2, <3>3
    <3>4. CASE v = w /\ u # w
        BY <1>5, <2>3, <2>4, <3>4
    <3>5. CASE u # w /\ v # w
        BY <1>5, <1>9, <2>4, <3>5 DEF SelfIInv, SidesMeet
    <3> QED
        BY <3>3, <3>4, <3>5
  <2>5. \A v \in Recorders : \A l \in inflight'[v] :
            l.root \in Linked(l.rep, Opposite(l.relation))' => <<l.rep, l.root>> \in overlap'
      BY <1>8, <2>2
  <2> QED
      BY <2>1, <2>4, <2>5 DEF SidesMeet, Opposite
<1>11. Grounded'
  <2>1. \A v \in Recorders : \A l \in inflight'[v] :
            l.relation = "SUPPORTS" /\ l.rep \in SelfReported => l.root \in UserPrompts
      BY <1>1, <1>5 DEF SelfIInv, Grounded, Admissible
  <2>2. \A r : Earned(r)' <=> Earned(r)
      BY <1>2, LinkedStays DEF Earned
  <2> QED
      BY <1>2, <1>8, <2>1, <2>2 DEF SelfIInv, Grounded, ReportsAreOwn
<1>12. Owing'
  <2>1. PICK m : m = mind
      OBVIOUS
  <2>2. m.at \in {"review", "oppose"} => m.task \in Reflections /\ m.next \in 1 .. Len(Script[m.task])
      BY <2>1 DEF SelfIInv, Controlled, AtStage
  <2>3. \A r \in Reps : Troubled(r)' => Troubled(r)
      BY <1>2, <1>8 DEF Troubled
  <2> QED
      BY <1>2, <2>1, <2>2, <2>3, ScriptIsTyped, OwingStays DEF SelfIInv
<1> QED
    BY <1>7, <1>10, <1>11, <1>12 DEF SelfIInv

LEMMA PutPreserves ==
    ASSUME SelfIInv, NEW w \in Recorders, PutSelfEvidence(w) PROVE SelfIInv'
<1>1. PICK new : new = inflight[w]
    OBVIOUS
<1>2. /\ links' = links \cup new /\ inflight' = [inflight EXCEPT ![w] = {}]
      /\ UNCHANGED <<arrived, unrecorded, overlap, known, standing, reflection, cutoff, mind, prediction,
                     judge, heir, interrupts>>
    BY <1>1 DEF PutSelfEvidence, mindVars, otherVars
<1>3. SelfTyped /\ RecordsNameRecords /\ arrived \in Nat
    BY ArrivedIsNat DEF SelfIInv, Controlled
<1>4. /\ inflight' \in [Recorders -> SUBSET Links] /\ inflight'[w] = {} /\ new \subseteq Links
      /\ \A v \in Recorders : v # w => inflight'[v] = inflight[v]
    BY <1>1, <1>2, <1>3 DEF SelfTyped
<1>5. \A v \in Recorders : inflight'[v] \subseteq inflight[v] /\ Held(v)' \subseteq Held(v)
    BY <1>2, <1>4 DEF Held
<1>6. new \subseteq Held(w)
    BY <1>1 DEF Held
<1>7. Controlled'
  <2>1. SelfTyped'
      BY <1>2, <1>3, <1>4 DEF SelfTyped
  <2>2. \A l \in links' : l.root <= arrived /\ l.rep \in known
      BY <1>2, <1>3, <1>6 DEF RecordsNameRecords
  <2>3. RecordsNameRecords'
      BY <1>2, <1>3, <1>5, <2>2 DEF RecordsNameRecords
  <2>4. AtStage(mind)' /\ ReviewsAreKnown' /\ AtJudgement(judge)' /\ HeirSupports'
      BY <1>2, <1>3, <1>5, ReflectionUntouched, JudgementUntouched, HeirUntouched DEF SelfIInv, Recorders
  <2> QED
      BY <2>1, <2>3, <2>4 DEF Controlled
<1>8. /\ \A r, s : Linked(r, s)' = Linked(r, s) \cup {l.root : l \in {k \in new : k.rep = r /\ k.relation = s}}
      /\ \A r : SupportTags(r) \subseteq SupportTags(r)'
    BY <1>2, LinkedGrows
<1>9. \A r, s, root : root \in Linked(r, s)' =>
          root \in Linked(r, s) \/ \E k \in new : k.rep = r /\ k.relation = s /\ k.root = root
    BY <1>8
<1>10. SidesMeet'
  <2>1. ASSUME NEW r \in Reps, NEW root \in Roots, root \in Linked(r, "SUPPORTS")', root \in Linked(r, "OPPOSES")'
        PROVE  <<r, root>> \in overlap
    <3>1. CASE root \in Linked(r, "SUPPORTS") /\ root \in Linked(r, "OPPOSES")
        BY <3>1 DEF SelfIInv, SidesMeet, OneStancePerRoot
    <3>2. ASSUME NEW k \in new, k.rep = r, k.root = root, k.relation = "SUPPORTS" PROVE <<r, root>> \in overlap
      <4>1. CASE root \in Linked(r, "OPPOSES")
          BY <1>1, <3>2, <4>1, OpposesAre DEF SelfIInv, SidesMeet
      <4>2. CASE root \notin Linked(r, "OPPOSES")
        <5>1. PICK l \in new : l.rep = r /\ l.relation = "OPPOSES" /\ l.root = root
            BY <1>9, <2>1, <4>2
        <5> QED
            BY <1>1, <3>2, <5>1, OpposesAre DEF SelfIInv, SidesMeet
      <4> QED
          BY <4>1, <4>2
    <3>3. ASSUME root \in Linked(r, "SUPPORTS"), NEW k \in new, k.rep = r, k.root = root, k.relation = "OPPOSES"
          PROVE  <<r, root>> \in overlap
        BY <1>1, <3>3, OpposesAre DEF SelfIInv, SidesMeet
    <3> QED
        BY <1>9, <2>1, <3>1, <3>2, <3>3
  <2>2. ASSUME NEW v \in Recorders, NEW l \in inflight'[v], l.root \in Linked(l.rep, Opposite(l.relation))'
        PROVE  <<l.rep, l.root>> \in overlap
    <3>1. l \in inflight[v]
        BY <1>5
    <3>2. CASE l.root \in Linked(l.rep, Opposite(l.relation))
        BY <3>1, <3>2 DEF SelfIInv, SidesMeet
    <3>3. ASSUME NEW k \in new, k.rep = l.rep, k.relation = Opposite(l.relation), k.root = l.root
          PROVE  <<l.rep, l.root>> \in overlap
        BY <1>1, <3>1, <3>3 DEF SelfIInv, SidesMeet
    <3> QED
        BY <1>9, <2>2, <3>2, <3>3 DEF Opposite
  <2>3. OneStancePerRoot'
      BY <1>2, <2>1 DEF OneStancePerRoot
  <2>4. \A u, v \in Recorders : \A l \in inflight'[u], k \in inflight'[v] :
            l.rep = k.rep /\ l.root = k.root /\ l.relation = Opposite(k.relation) => <<l.rep, l.root>> \in overlap
      BY <1>5 DEF SelfIInv, SidesMeet
  <2> QED
      BY <1>2, <2>2, <2>3, <2>4 DEF SidesMeet, Opposite
<1>11. Grounded'
  <2>1. ReportsAreOwn'
    <3> SUFFICES ASSUME NEW r \in SelfReported, r \in Reps, NEW root \in Linked(r, "SUPPORTS")'
                 PROVE  root \in UserPrompts
        BY DEF ReportsAreOwn
    <3>1. CASE root \in Linked(r, "SUPPORTS")
        BY <3>1 DEF SelfIInv, Grounded, ReportsAreOwn
    <3>2. CASE \E k \in new : k.rep = r /\ k.relation = "SUPPORTS" /\ k.root = root
        BY <1>1, <3>2 DEF SelfIInv, Grounded
    <3> QED
        BY <1>9, <3>1, <3>2
  <2>2. \A v \in Recorders : \A l \in inflight'[v] :
            l.relation = "SUPPORTS" /\ l.rep \in SelfReported => l.root \in UserPrompts
      BY <1>5 DEF SelfIInv, Grounded
  <2>3. ASSUME NEW r \in Reps, Earned(r) PROVE Earned(r)'
    <3>1. Linked(r, "SUPPORTS") \subseteq Linked(r, "SUPPORTS")' /\ SupportTags(r) \subseteq SupportTags(r)'
        BY <1>8
    <3>2. IsFiniteSet(Linked(r, "SUPPORTS")') /\ IsFiniteSet(SupportTags(r)')
      <4>1. Linked(r, "SUPPORTS")' \in SUBSET Roots /\ SupportTags(r)' \in SUBSET Tags
          BY <1>7 DEF Controlled, SelfTyped, Links, Linked, SupportTags
      <4> QED
          BY <4>1, RootsAreNumbers, SelfAssumption, FS_Subset
    <3>3. Cardinality(Linked(r, "SUPPORTS")) >= 2 => Cardinality(Linked(r, "SUPPORTS")') >= 2
        BY <3>1, <3>2, MoreIsEnough
    <3>4. Cardinality(SupportTags(r)) >= 2 => Cardinality(SupportTags(r)') >= 2
        BY <3>1, <3>2, MoreIsEnough
    <3> QED
        BY <2>3, <3>1, <3>3, <3>4 DEF Earned
  <2> QED
      BY <1>2, <2>1, <2>2, <2>3 DEF SelfIInv, Grounded
<1>12. Owing'
  <2>1. PICK m : m = mind
      OBVIOUS
  <2>2. AtStage(m) /\ AtJudgement(judge) /\ HeirSupports
      BY <2>1 DEF SelfIInv, Controlled
  <2>3. ASSUME NEW l \in new, l.relation = "OPPOSES"
        PROVE  \/ judge.rep = l.rep
               \/ /\ m.at = "oppose" /\ l.rep = RepOf(m.task, m.next) /\ reflection[m.task] = "review"
                  /\ m.task \in Reflections /\ m.next \in 1 .. Len(Script[m.task])
                  /\ \A k \in 1 .. m.next - 1 : RepOf(m.task, k) # l.rep
    <3>1. CASE w = "mind"
        BY <1>6, <2>2, <2>3, <3>1 DEF AtStage
    <3>2. CASE w = "judge"
        BY <1>6, <2>2, <2>3, <3>2 DEF AtJudgement
    <3>3. CASE w = "heir"
        BY <1>6, <2>2, <2>3, <3>3 DEF HeirSupports
    <3> QED
        BY <3>1, <3>2, <3>3 DEF Recorders
  <2>4. ASSUME NEW r \in Reps, Troubled(r)'
        PROVE  Troubled(r) \/ \E l \in new : l.relation = "OPPOSES" /\ l.rep = r
      BY <1>2, <1>9, <2>4 DEF Troubled
  <2>5. ASSUME NEW r \in Reps, Troubled(r)' PROVE VerdictIsOwed(r)
    <3>1. CASE Troubled(r)
        BY <3>1 DEF SelfIInv, Owing
    <3>2. CASE \E l \in new : l.relation = "OPPOSES" /\ l.rep = r
        BY <2>3, <3>2 DEF VerdictIsOwed, Candidates, RepOf
    <3> QED
        BY <2>4, <2>5, <3>1, <3>2
  <2>6. ASSUME m.at \in {"review", "oppose"}, NEW k \in 1 .. m.next - 1, Troubled(RepOf(m.task, k))'
        PROVE  judge.rep = RepOf(m.task, k)
    <3>1. k \in 1 .. Len(Script[m.task]) /\ m.task \in Reflections
        BY <2>2, <2>6, ScriptIsTyped DEF AtStage
    <3>2. PICK r \in Reps : r = RepOf(m.task, k)
        BY <3>1, ScriptIsTyped
    <3>3. Troubled(r)'
        BY <2>6, <3>2
    <3>4. CASE Troubled(r)
        BY <2>1, <2>6, <3>2, <3>4 DEF SelfIInv, Owing, ReviewedBefore
    <3>5. CASE \E l \in new : l.relation = "OPPOSES" /\ l.rep = r
        BY <2>3, <2>6, <3>2, <3>5
    <3> QED
        BY <2>4, <3>3, <3>4, <3>5
  <2>7. \A r \in Reps : Troubled(r)' => VerdictIsOwed(r)'
      BY <1>2, <2>5 DEF VerdictIsOwed
  <2>8. ReviewedBefore(mind)'
    <3>1. mind' = m /\ judge' = judge
        BY <1>2, <2>1
    <3> QED
        BY <2>6, <3>1 DEF ReviewedBefore, RepOf, Troubled
  <2> QED
      BY <2>7, <2>8 DEF Owing
<1> QED
    BY <1>7, <1>10, <1>11, <1>12 DEF SelfIInv
-----------------------------------------------------------------------------
(* The process that reflects. *)

(* A step of reflection that resolves nothing and puts nothing. *)
LEMMA MindStepPreserves ==
    ASSUME SelfIInv, UNCHANGED <<arrived, links, overlap, standing, prediction, judge, heir>>,
           known \subseteq known', known' \subseteq Reps,
           unrecorded' \in [Recorders -> SUBSET Links], inflight' \in [Recorders -> SUBSET Links],
           \A w \in Recorders : inflight'[w] \subseteq inflight[w],
           \A w \in Recorders \ {"mind"} : Held(w)' = Held(w),
           \A l \in Held("mind")' : l.root <= arrived /\ l.rep \in known',
           reflection' \in [Reflections -> {"propose", "review", "done"}], mind' \in Mind,
           cutoff' \in [Reflections -> Nat], \A c \in Reflections : cutoff'[c] <= arrived,
           AtStage(mind)', ReviewsAreKnown',
           \A c \in Reflections : reflection[c] = "review" => reflection'[c] = "review",
           mind' = mind \/ mind'.at \notin {"review", "oppose"}
             \/ (mind'.next = mind.next /\ mind'.task = mind.task /\ mind.at = "review") \/ mind'.next = 1,
           interrupts' \in 0 .. MaxInterrupts
    PROVE  SelfIInv'
<1>1. arrived \in Nat /\ arrived \in 0 .. LastRoot
    BY ArrivedIsNat DEF SelfIInv, Controlled, SelfTyped
<1>2. \A w \in Recorders : \A l \in Held(w)' : l.root <= arrived' /\ l.rep \in known'
    BY DEF SelfIInv, Controlled, RecordsNameRecords
<1>3. SelfTyped' /\ RecordsNameRecords'
  <2>1. /\ heir' \subseteq Reps \X Reps /\ \A edge \in heir' : edge[1] \in known'
        /\ prediction' \in [Predictions -> Prediction]
        /\ \A p \in Predictions : prediction'[p] # NoPrediction => p \in known'
      BY DEF SelfIInv, Controlled, SelfTyped, RecordsNameRecords
  <2>2. /\ judge' = [at |-> judge'.at, rep |-> judge'.rep, asked |-> judge'.asked]
        /\ judge'.at \in {"idle", "read", "resolve", "failed"} /\ judge'.rep \in Predictions \cup {0}
      BY DEF SelfIInv, Controlled, SelfTyped
  <2> QED
      BY <1>1, <1>2, <2>1, <2>2, RecordsUntouched DEF SelfIInv
<1>4. AtJudgement(judge)' /\ HeirSupports'
    BY <1>1, JudgementUntouched, HeirUntouched DEF SelfIInv, Recorders
<1> QED
    BY <1>3, <1>4, QuietStep DEF Controlled

LEMMA StartReflectionPreserves ==
    ASSUME SelfIInv, NEW c \in Reflections, StartReflection(c) PROVE SelfIInv'
<1>1. /\ mind = IdleMind /\ reflection[c] = "propose" /\ Evidence(c) \subseteq 1 .. arrived
      /\ cutoff' = [cutoff EXCEPT ![c] = IF @ = 0 THEN arrived ELSE @]
      /\ \/ reflection' = [reflection EXCEPT ![c] = "done"] /\ mind' = mind
         \/ /\ mind' = [at |-> "propose", task |-> c, next |-> 1] /\ reflection' = reflection
            /\ Script[c] # <<>>
      /\ UNCHANGED <<arrived, links, unrecorded, inflight, overlap, known, standing, prediction, judge,
                     heir, interrupts>>
    BY DEF StartReflection, evidenceVars, recorderVars, otherVars
<1>2. SelfTyped /\ RecordsNameRecords /\ AtStage(mind) /\ ReviewsAreKnown /\ arrived \in Nat
    BY ArrivedIsNat DEF SelfIInv, Controlled
<1>3. \A w \in Recorders : Held(w)' = Held(w) /\ inflight'[w] \subseteq inflight[w]
    BY <1>1 DEF Held
<1>4. "mind" \in Recorders /\ IdleMind.at = "idle"
    BY DEF Recorders, IdleMind
<1>5. Held("mind")' = {}
    BY <1>1, <1>2, <1>3, <1>4 DEF AtStage
<1>6. cutoff' \in [Reflections -> Nat] /\ \A d \in Reflections : cutoff'[d] <= arrived
    BY <1>1, <1>2 DEF SelfTyped, RecordsNameRecords
<1>7. /\ reflection' \in [Reflections -> {"propose", "review", "done"}]
      /\ \A d \in Reflections : reflection[d] = "review" <=> reflection'[d] = "review"
    BY <1>1, <1>2 DEF SelfTyped
<1>8. ReviewsAreKnown'
    BY <1>1, <1>2, <1>7 DEF ReviewsAreKnown, RepOf
<1>9. mind' \in Mind /\ AtStage(mind)' /\ (mind' = mind \/ mind'.at \notin {"review", "oppose"})
  <2>1. CASE mind' = mind
      BY <1>1, <1>2, <1>4, <1>5, <2>1 DEF AtStage, SelfTyped
  <2>2. CASE mind' = [at |-> "propose", task |-> c, next |-> 1] /\ reflection' = reflection /\ Script[c] # <<>>
    <3>1. mind'.at = "propose" /\ mind'.task = c /\ mind'.next = 1 /\ mind' \in Mind
        BY <2>2 DEF Mind
    <3>2. 1 \in 1 .. Len(Script[c])
        BY <2>2, ScriptIsTyped
    <3>3. \A root \in Evidence(c) : root <= arrived
        BY <1>1, <1>2
    <3> QED
        BY <1>1, <1>5, <2>2, <3>1, <3>2, <3>3 DEF AtStage, Evidence
  <2> QED
      BY <1>1, <2>1, <2>2
<1> QED
    BY <1>1, <1>2, <1>3, <1>5, <1>6, <1>7, <1>8, <1>9, MindStepPreserves DEF SelfTyped

LEMMA StartReviewPreserves ==
    ASSUME SelfIInv, NEW c \in Reflections, StartReview(c) PROVE SelfIInv'
<1>1. /\ mind = IdleMind /\ reflection[c] = "review" /\ mind' = [at |-> "review", task |-> c, next |-> 1]
      /\ UNCHANGED <<arrived, links, unrecorded, inflight, overlap, known, standing, reflection, cutoff,
                     prediction, judge, heir, interrupts>>
    BY DEF StartReview, evidenceVars, recorderVars, otherVars
<1>2. SelfTyped /\ RecordsNameRecords /\ AtStage(mind) /\ ReviewsAreKnown
    BY DEF SelfIInv, Controlled
<1>3. \A w \in Recorders : Held(w)' = Held(w) /\ inflight'[w] \subseteq inflight[w]
    BY <1>1 DEF Held
<1>4. "mind" \in Recorders /\ IdleMind.at = "idle"
    BY DEF Recorders, IdleMind
<1>5. Held("mind")' = {}
    BY <1>1, <1>2, <1>3, <1>4 DEF AtStage
<1>6. ReviewsAreKnown' /\ 1 \in 1 .. Len(Script[c])
    BY <1>1, <1>2, ScriptIsTyped DEF ReviewsAreKnown, RepOf
<1>7. mind'.at = "review" /\ mind'.task = c /\ mind'.next = 1 /\ mind' \in Mind
    BY <1>1 DEF Mind
<1>8. AtStage(mind)'
    BY <1>1, <1>5, <1>6, <1>7 DEF AtStage
<1> QED
    BY <1>1, <1>2, <1>3, <1>5, <1>6, <1>7, <1>8, MindStepPreserves DEF SelfTyped, RecordsNameRecords

LEMMA EnsurePreserves == SelfIInv /\ EnsureRepresentation => SelfIInv'
<1> SUFFICES ASSUME SelfIInv, EnsureRepresentation PROVE SelfIInv'
    OBVIOUS
<1>1. PICK c, k : c = mind.task /\ k = mind.next
    OBVIOUS
<1>2. PICK r, support : r = RepOf(c, k) /\ support = Script[c][k].support
    OBVIOUS
<1>3. PICK S : S = {Link(r, root, "SUPPORTS", "DIRECT", ContextRefs[c][root]) : root \in support}
    OBVIOUS
<1>4. /\ mind.at = "propose" /\ support \subseteq Evidence(c) /\ known' = known \cup {r}
      /\ mind' = [mind EXCEPT !.at = "support"] /\ unrecorded' = [unrecorded EXCEPT !["mind"] = S]
      /\ UNCHANGED <<arrived, links, inflight, overlap, standing, reflection, cutoff,
                     prediction, judge, heir, interrupts>>
    BY <1>1, <1>2, <1>3 DEF EnsureRepresentation, Proposal, ProposedSupport, RepOf, otherVars
<1>5. SelfTyped /\ RecordsNameRecords /\ AtStage(mind) /\ ReviewsAreKnown /\ arrived \in Nat
    BY ArrivedIsNat DEF SelfIInv, Controlled
<1>6. /\ c \in Reflections /\ k \in 1 .. Len(Script[c]) /\ reflection[c] = "propose"
      /\ \A root \in Evidence(c) : root <= arrived
      /\ \A j \in 1 .. k - 1 : RepOf(c, j) \in known
    BY <1>1, <1>4, <1>5 DEF AtStage
<1>7. r \in Reps /\ support \subseteq Roots
    BY <1>2, <1>6, ScriptIsTyped
<1>8. ASSUME NEW l \in S
      PROVE  l \in Links /\ l.relation = "SUPPORTS" /\ l.root <= arrived /\ l.rep = r
  <2>1. PICK root \in support : l = Link(r, root, "SUPPORTS", "DIRECT", ContextRefs[c][root])
      BY <1>3
  <2>2. root \in Roots /\ root <= arrived
      BY <1>4, <1>6, <1>7
  <2>3. ContextRefs[c][root] \in SUBSET Tags
      BY <1>6, <2>2, SelfAssumption
  <2>4. "SUPPORTS" \in Sides /\ "DIRECT" \in Origins
      BY DEF Sides, Origins
  <2> QED
      BY <1>7, <2>1, <2>2, <2>3, <2>4, LinkIsTyped
<1>9. "mind" \in Recorders /\ Held("mind") = {} /\ S \subseteq Links
    BY <1>4, <1>5, <1>8 DEF Recorders, AtStage
<1>10. /\ unrecorded' \in [Recorders -> SUBSET Links] /\ inflight' \in [Recorders -> SUBSET Links]
       /\ Held("mind")' = S /\ \A v \in Recorders : v # "mind" => Held(v)' = Held(v)
    BY <1>4, <1>5, <1>9, HandTakes
<1>11. mind'.at = "support" /\ mind'.task = c /\ mind'.next = k /\ mind' \in Mind
    BY <1>1, <1>4, <1>5 DEF SelfTyped, Mind
<1>12. AtStage(mind)'
  <2>1. \A l \in Held("mind")' : l.relation # "OPPOSES"
      BY <1>8, <1>10
  <2> QED
      BY <1>2, <1>4, <1>6, <1>11, <2>1 DEF AtStage, Evidence, RepOf
<1>13. ReviewsAreKnown'
    BY <1>4, <1>5 DEF ReviewsAreKnown, RepOf
<1>14. known' \subseteq Reps /\ \A l \in Held("mind")' : l.root <= arrived /\ l.rep \in known'
    BY <1>4, <1>5, <1>7, <1>8, <1>10 DEF SelfTyped
<1>15. \A w \in Recorders : inflight'[w] \subseteq inflight[w]
    BY <1>4
<1> QED
    BY <1>4, <1>5, <1>10, <1>11, <1>12, <1>13, <1>14, <1>15, MindStepPreserves DEF SelfTyped, RecordsNameRecords

LEMMA ReviewCandidatePreserves == SelfIInv /\ ReviewCandidate => SelfIInv'
<1> SUFFICES ASSUME SelfIInv, ReviewCandidate PROVE SelfIInv'
    OBVIOUS
<1>1. PICK c, k : c = mind.task /\ k = mind.next
    OBVIOUS
<1>2. PICK r, shown : r = RepOf(c, k) /\ shown = (Objections[c] \cap 1 .. cutoff[c]) \ Linked(r, "SUPPORTS")
    OBVIOUS
<1>3. PICK S : S = {Link(r, root, "OPPOSES", "DIRECT", {}) : root \in shown}
    OBVIOUS
<1>4. /\ mind.at = "review" /\ ~Seen
      /\ mind' = [mind EXCEPT !.at = "oppose"] /\ unrecorded' = [unrecorded EXCEPT !["mind"] = S]
      /\ UNCHANGED <<arrived, links, inflight, overlap, known, standing, reflection, cutoff,
                     prediction, judge, heir, interrupts>>
    BY <1>1, <1>2, <1>3 DEF ReviewCandidate, Proposal, RepOf, otherVars
<1>5. SelfTyped /\ RecordsNameRecords /\ AtStage(mind) /\ ReviewsAreKnown /\ arrived \in Nat
    BY ArrivedIsNat DEF SelfIInv, Controlled
<1>6. /\ c \in Reflections /\ k \in 1 .. Len(Script[c]) /\ reflection[c] = "review"
    BY <1>1, <1>4, <1>5 DEF AtStage
<1>7. r \in Reps /\ r \in known /\ cutoff[c] \in Nat /\ cutoff[c] <= arrived /\ Objections[c] \subseteq Roots
    BY <1>2, <1>5, <1>6, ScriptIsTyped, SelfAssumption DEF ReviewsAreKnown, SelfTyped, RecordsNameRecords
<1>8. ASSUME NEW l \in S PROVE l \in Links /\ l.root <= arrived /\ l.rep = r
  <2>1. PICK root \in shown : l = Link(r, root, "OPPOSES", "DIRECT", {})
      BY <1>3
  <2>2. root \in Roots /\ root <= arrived
      BY <1>2, <1>5, <1>7, RootsAreNumbers
  <2>3. "OPPOSES" \in Sides /\ "DIRECT" \in Origins /\ {} \in SUBSET Tags
      BY DEF Sides, Origins
  <2> QED
      BY <1>7, <2>1, <2>2, <2>3, LinkIsTyped
<1>9. "mind" \in Recorders /\ Held("mind") = {} /\ S \subseteq Links
    BY <1>4, <1>5, <1>8 DEF Recorders, AtStage
<1>10. /\ unrecorded' \in [Recorders -> SUBSET Links] /\ inflight' \in [Recorders -> SUBSET Links]
       /\ Held("mind")' = S /\ \A v \in Recorders : v # "mind" => Held(v)' = Held(v)
    BY <1>4, <1>5, <1>9, HandTakes
<1>11. mind'.at = "oppose" /\ mind'.task = c /\ mind'.next = k /\ mind' \in Mind
    BY <1>1, <1>4, <1>5 DEF SelfTyped, Mind
<1>12. \A j \in 1 .. k - 1 : RepOf(c, j) # r
    BY <1>1, <1>2, <1>4 DEF Seen, Proposal, RepOf
<1>13. AtStage(mind)'
    BY <1>2, <1>4, <1>6, <1>8, <1>10, <1>11, <1>12 DEF AtStage, RepOf
<1>14. ReviewsAreKnown'
    BY <1>4, <1>5 DEF ReviewsAreKnown, RepOf
<1>15. \A l \in Held("mind")' : l.root <= arrived /\ l.rep \in known'
    BY <1>4, <1>7, <1>8, <1>10
<1>16. \A w \in Recorders : inflight'[w] \subseteq inflight[w]
    BY <1>4
<1>17. mind'.next = mind.next /\ mind'.task = mind.task /\ mind.at = "review"
    BY <1>1, <1>4, <1>11
<1> QED
    BY <1>4, <1>5, <1>10, <1>11, <1>13, <1>14, <1>15, <1>16, <1>17, MindStepPreserves
    DEF SelfTyped, RecordsNameRecords

LEMMA ReflectionFailsPreserves == SelfIInv /\ ReflectionFails => SelfIInv'
<1> SUFFICES ASSUME SelfIInv, ReflectionFails PROVE SelfIInv'
    OBVIOUS
<1>1. /\ Drop("mind") /\ mind' = IdleMind /\ interrupts < MaxInterrupts /\ interrupts' = interrupts + 1
      /\ UNCHANGED <<arrived, links, known, standing, reflection, cutoff, prediction, judge, heir>>
    BY DEF ReflectionFails, otherVars
<1>2. SelfTyped /\ RecordsNameRecords /\ ReviewsAreKnown
    BY DEF SelfIInv, Controlled
<1>3. "mind" \in Recorders /\ IdleMind.at = "idle" /\ IdleMind \in Mind
    BY DEF Recorders, IdleMind, Mind
<1>4. /\ unrecorded' \in [Recorders -> SUBSET Links] /\ inflight' \in [Recorders -> SUBSET Links]
      /\ Held("mind")' = {} /\ \A v \in Recorders : v # "mind" => Held(v)' = Held(v)
      /\ \A v \in Recorders : inflight'[v] \subseteq inflight[v]
      /\ UNCHANGED overlap
    BY <1>1, <1>2, <1>3, HandDrops
<1>5. interrupts' \in 0 .. MaxInterrupts
    BY <1>1, <1>2, SelfAssumption DEF SelfTyped
<1>6. AtStage(mind)' /\ ReviewsAreKnown'
    BY <1>1, <1>2, <1>3, <1>4 DEF AtStage, ReviewsAreKnown, RepOf
<1>7. mind'.at \notin {"review", "oppose"} /\ mind' \in Mind
    BY <1>1, <1>3
<1> QED
    BY <1>1, <1>2, <1>4, <1>5, <1>6, <1>7, MindStepPreserves DEF SelfTyped, RecordsNameRecords

(* The proposal is a candidate again: no trouble begins. *)
LEMMA ResolveCandidatePreserves == SelfIInv /\ ResolveCandidate => SelfIInv'
<1> SUFFICES ASSUME SelfIInv, ResolveCandidate PROVE SelfIInv'
    OBVIOUS
<1>1. PICK c, k : c = mind.task /\ k = mind.next
    OBVIOUS
<1>2. PICK r, centrality : r = RepOf(c, k) /\ centrality = Script[c][k].centrality
    OBVIOUS
<1>3. /\ mind.at = "support" /\ Recorded("mind") /\ Resolve(r, "CANDIDATE", centrality, FALSE, c)
      /\ \/ /\ mind' = [at |-> "propose", task |-> c, next |-> k + 1] /\ UNCHANGED reflection
            /\ k < Len(Script[c])
         \/ /\ mind' = IdleMind /\ reflection' = [reflection EXCEPT ![c] = "review"]
            /\ ~(k < Len(Script[c]))
      /\ UNCHANGED evidenceVars
      /\ UNCHANGED <<arrived, links, unrecorded, inflight, overlap, known, cutoff, prediction, judge,
                     heir, interrupts>>
    BY <1>1, <1>2 DEF ResolveCandidate, Proposal, RepOf, evidenceVars, recorderVars, otherVars
<1>4. SelfTyped /\ RecordsNameRecords /\ AtStage(mind) /\ ReviewsAreKnown /\ arrived \in Nat
    BY ArrivedIsNat DEF SelfIInv, Controlled
<1>5. /\ c \in Reflections /\ k \in 1 .. Len(Script[c]) /\ reflection[c] = "propose" /\ r \in known
      /\ \A root \in Evidence(c) : root <= arrived
      /\ \A j \in 1 .. k - 1 : RepOf(c, j) \in known
    BY <1>1, <1>2, <1>3, <1>4 DEF AtStage
<1>6. Len(Script[c]) \in Nat /\ r \in Reps /\ centrality \in Centralities /\ "CANDIDATE" \in Stances
    BY <1>2, <1>5, ScriptIsTyped DEF Stances
<1>7. /\ standing' = [q \in Reps |-> standing'[q]]
      /\ \A q \in Reps : q # r => standing'[q] = standing[q]
      /\ \A q \in Reps : /\ standing'[q].status \in Stances /\ standing'[q].centrality \in Centralities
                         /\ standing'[q] # NoStanding => q \in known
      /\ standing'[r].status = "ESTABLISHED" => Earned(r) /\ Linked(r, "OPPOSES") = {}
    BY <1>3, <1>4, <1>5, <1>6, ResolveChanges
<1>8. Grounded' /\ SidesMeet' /\ \A q \in Reps : Troubled(q)' => Troubled(q) /\ q # r
    BY <1>3, <1>6, <1>7, ResolveKeepsGrounds DEF SelfIInv
<1>9. \A w : Held(w)' = Held(w)
    BY <1>3 DEF Held
<1>10. Held("mind")' = {}
    BY <1>3, <1>9 DEF Held, Recorded
<1>11. \A j \in 1 .. k : RepOf(c, j) \in known
    BY <1>2, <1>5
<1>12. /\ mind' \in Mind /\ AtStage(mind)' /\ ReviewsAreKnown' /\ mind'.at \notin {"review", "oppose"}
       /\ reflection' \in [Reflections -> {"propose", "review", "done"}]
       /\ \A d \in Reflections : reflection[d] = "review" => reflection'[d] = "review"
  <2>1. CASE /\ mind' = [at |-> "propose", task |-> c, next |-> k + 1] /\ UNCHANGED reflection
             /\ k < Len(Script[c])
    <3>1. mind'.at = "propose" /\ mind'.task = c /\ mind'.next = k + 1 /\ mind' \in Mind
        BY <1>1, <1>4, <2>1 DEF SelfTyped, Mind
    <3>2. k + 1 \in 1 .. Len(Script[c]) /\ (k + 1) - 1 = k
        BY <1>5, <1>6, <2>1
    <3>3. PICK m : m = mind'
        OBVIOUS
    <3>4. /\ m.at = "propose" /\ m.task = c /\ m.next = k + 1 /\ m.next - 1 = k
          /\ m.next \in 1 .. Len(Script[m.task]) /\ reflection'[m.task] = "propose"
          /\ \A root \in Evidence(m.task) : root <= arrived'
          /\ \A j \in 1 .. m.next - 1 : RepOf(m.task, j) \in known'
        BY <1>3, <1>5, <1>11, <2>1, <3>1, <3>2, <3>3
    <3>5. AtStage(mind)'
        BY <1>5, <1>10, <3>3, <3>4 DEF AtStage, Evidence, RepOf
    <3> QED
        BY <1>3, <1>4, <2>1, <3>1, <3>5 DEF SelfTyped, ReviewsAreKnown, RepOf
  <2>2. CASE /\ mind' = IdleMind /\ reflection' = [reflection EXCEPT ![c] = "review"]
             /\ ~(k < Len(Script[c]))
    <3>1. IdleMind.at = "idle" /\ IdleMind \in Mind
        BY DEF IdleMind, Mind
    <3>2. AtStage(mind)'
        BY <1>10, <2>2, <3>1 DEF AtStage
    <3>3. /\ reflection' \in [Reflections -> {"propose", "review", "done"}] /\ reflection'[c] = "review"
          /\ \A d \in Reflections : d # c => reflection'[d] = reflection[d]
        BY <1>4, <1>5, <2>2 DEF SelfTyped
    <3>4. Len(Script[c]) > 0 /\ k = Len(Script[c])
        BY <1>5, <1>6, <2>2
    <3>5. ReviewsAreKnown'
        BY <1>3, <1>4, <1>11, <3>3, <3>4 DEF ReviewsAreKnown, RepOf
    <3> QED
        BY <2>2, <3>1, <3>2, <3>3, <3>5
  <2> QED
      BY <1>3, <2>1, <2>2
<1>13. SelfTyped'
    BY <1>3, <1>4, <1>7, <1>12 DEF SelfTyped
<1>14. RecordsNameRecords'
    BY <1>3, <1>4, <1>7, <1>9 DEF RecordsNameRecords
<1>15. AtJudgement(judge)' /\ HeirSupports'
    BY <1>3, <1>4, <1>9, JudgementUntouched, HeirUntouched DEF SelfIInv
<1>16. Owing'
    BY <1>3, <1>8, <1>12, ScriptIsTyped, OwingStays DEF SelfIInv
<1> QED
    BY <1>8, <1>12, <1>13, <1>14, <1>15, <1>16 DEF SelfIInv, Controlled

(* The review of a candidate is over: what of the reviewed is in trouble is  *)
(* the judge's, and the next candidate or the end of the review comes.       *)
LEMMA NextCandidateKeeps ==
    ASSUME SelfIInv, mind.at \in {"review", "oppose"}, NextCandidate, NEW p, p = Proposal.rep,
           UNCHANGED <<arrived, known, judge>>, Held("mind")' = {},
           \A r \in Reps : Troubled(r)' => Troubled(r),
           Troubled(p)' => judge.rep = p
    PROVE  /\ mind' \in Mind /\ reflection' \in [Reflections -> {"propose", "review", "done"}]
           /\ AtStage(mind)' /\ ReviewsAreKnown' /\ Owing'
<1>1. PICK c, k : c = mind.task /\ k = mind.next
    OBVIOUS
<1>2. /\ \/ /\ mind' = [at |-> "review", task |-> c, next |-> k + 1] /\ UNCHANGED reflection
            /\ k < Len(Script[c])
         \/ /\ mind' = IdleMind /\ reflection' = [reflection EXCEPT ![c] = "done"]
            /\ ~(k < Len(Script[c]))
    BY <1>1 DEF NextCandidate
<1>3. SelfTyped /\ AtStage(mind) /\ ReviewsAreKnown
    BY DEF SelfIInv, Controlled
<1>4. /\ c \in Reflections /\ k \in 1 .. Len(Script[c]) /\ reflection[c] = "review"
      /\ Len(Script[c]) \in Nat /\ \A j \in 1 .. Len(Script[c]) : RepOf(c, j) \in Reps
    BY <1>1, <1>3, ScriptIsTyped DEF AtStage
<1>5. ASSUME NEW j \in 1 .. k, NEW r \in Reps, r = RepOf(c, j), Troubled(r)' PROVE judge.rep = r
  <2>1. CASE j = k
      BY <1>1, <1>5, <2>1 DEF Proposal, RepOf
  <2>2. CASE j # k
    <3>1. j \in 1 .. k - 1
        BY <1>4, <2>2
    <3> QED
        BY <1>1, <1>5, <3>1 DEF SelfIInv, Owing, ReviewedBefore
  <2> QED
      BY <2>1, <2>2
<1>6. CASE /\ mind' = [at |-> "review", task |-> c, next |-> k + 1] /\ UNCHANGED reflection
           /\ k < Len(Script[c])
  <2>1. mind'.at = "review" /\ mind'.task = c /\ mind'.next = k + 1 /\ mind' \in Mind
      BY <1>1, <1>3, <1>6 DEF SelfTyped, Mind
  <2>2. k + 1 \in 1 .. Len(Script[c]) /\ (k + 1) - 1 = k
      BY <1>4, <1>6
  <2>3. AtStage(mind)'
      BY <1>4, <1>6, <2>1, <2>2 DEF AtStage
  <2>4. ReviewsAreKnown'
      BY <1>3, <1>6 DEF ReviewsAreKnown, RepOf
  <2>5. \A r \in Reps : Troubled(r)' => VerdictIsOwed(r)'
      BY <1>6 DEF SelfIInv, Owing, VerdictIsOwed
  <2>6. ReviewedBefore(mind)'
    <3>1. SUFFICES ASSUME NEW j \in 1 .. k, Troubled(RepOf(c, j))' PROVE judge'.rep = RepOf(c, j)
        BY <2>1, <2>2 DEF ReviewedBefore, RepOf, Troubled
    <3>2. j \in 1 .. Len(Script[c])
        BY <1>4
    <3>3. PICK r \in Reps : r = RepOf(c, j)
        BY <1>4, <3>2
    <3>4. Troubled(r)'
        BY <3>1, <3>3
    <3> QED
        BY <1>5, <3>3, <3>4
  <2> QED
      BY <1>3, <1>6, <2>1, <2>3, <2>4, <2>5, <2>6 DEF Owing, SelfTyped
<1>7. CASE /\ mind' = IdleMind /\ reflection' = [reflection EXCEPT ![c] = "done"]
           /\ ~(k < Len(Script[c]))
  <2>1. IdleMind.at = "idle" /\ IdleMind \in Mind
      BY DEF IdleMind, Mind
  <2>2. AtStage(mind)' /\ ReviewedBefore(mind)'
      BY <1>7, <2>1 DEF AtStage, ReviewedBefore
  <2>3. /\ reflection' \in [Reflections -> {"propose", "review", "done"}] /\ reflection'[c] = "done"
        /\ \A d \in Reflections : d # c => reflection'[d] = reflection[d]
      BY <1>3, <1>4, <1>7 DEF SelfTyped
  <2>4. ReviewsAreKnown'
      BY <1>3, <2>3 DEF ReviewsAreKnown, RepOf
  <2>5. k = Len(Script[c])
      BY <1>4, <1>7
  <2>6. ASSUME NEW r \in Reps, Troubled(r)' PROVE VerdictIsOwed(r)'
    <3>1. CASE judge.rep = r
        BY <3>1 DEF VerdictIsOwed
    <3>2. ASSUME NEW d \in Reflections, reflection[d] = "review", r \in Candidates(d)
          PROVE  VerdictIsOwed(r)'
      <4>1. CASE d # c
          BY <2>3, <3>2, <4>1 DEF VerdictIsOwed, Candidates
      <4>2. CASE d = c
        <5>1. PICK j \in 1 .. Len(Script[c]) : r = RepOf(c, j)
            BY <3>2, <4>2 DEF Candidates, RepOf
        <5> QED
            BY <1>5, <2>5, <2>6, <3>1, <5>1
      <4> QED
          BY <4>1, <4>2
    <3>3. VerdictIsOwed(r)
        BY <2>6 DEF SelfIInv, Owing
    <3> QED
        BY <3>1, <3>2, <3>3 DEF VerdictIsOwed
  <2> QED
      BY <1>7, <2>1, <2>2, <2>3, <2>4, <2>6 DEF Owing
<1> QED
    BY <1>2, <1>6, <1>7

LEMMA PassOverSeenPreserves == SelfIInv /\ PassOverSeen => SelfIInv'
<1> SUFFICES ASSUME SelfIInv, PassOverSeen PROVE SelfIInv'
    OBVIOUS
<1>1. /\ mind.at = "review" /\ Seen /\ NextCandidate
      /\ UNCHANGED <<arrived, links, unrecorded, inflight, overlap, known, standing, cutoff, prediction,
                     judge, heir, interrupts>>
    BY DEF PassOverSeen, evidenceVars, recorderVars, otherVars
<1>2. SelfTyped /\ RecordsNameRecords /\ AtStage(mind) /\ arrived \in Nat
    BY ArrivedIsNat DEF SelfIInv, Controlled
<1>3. \A w : Held(w)' = Held(w)
    BY <1>1 DEF Held
<1>4. Held("mind")' = {}
    BY <1>1, <1>2, <1>3 DEF AtStage
<1>5. \A q, s : Linked(q, s)' = Linked(q, s)
    BY <1>1, LinkedStays
<1>6. \A r \in Reps : Troubled(r)' => Troubled(r)
    BY <1>1, <1>5 DEF Troubled
<1>7. PICK r \in Reps : r = Proposal.rep
  <2>1. mind.task \in Reflections /\ mind.next \in 1 .. Len(Script[mind.task])
      BY <1>1, <1>2 DEF AtStage
  <2> QED
      BY <2>1, ScriptIsTyped DEF Proposal, RepOf
<1>8. Troubled(r) => judge.rep = r
  <2>1. PICK j \in 1 .. mind.next - 1 : RepOf(mind.task, j) = r
      BY <1>1, <1>7 DEF Seen, RepOf
  <2> QED
      BY <1>1, <2>1 DEF SelfIInv, Owing, ReviewedBefore
<1>9. /\ mind' \in Mind /\ reflection' \in [Reflections -> {"propose", "review", "done"}]
      /\ AtStage(mind)' /\ ReviewsAreKnown' /\ Owing'
    BY <1>1, <1>4, <1>6, <1>7, <1>8, NextCandidateKeeps
<1>10. SelfTyped' /\ RecordsNameRecords'
    BY <1>1, <1>2, <1>3, <1>9 DEF SelfTyped, RecordsNameRecords
<1>11. AtJudgement(judge)' /\ HeirSupports'
    BY <1>1, <1>2, <1>3, JudgementUntouched, HeirUntouched DEF SelfIInv
<1>12. SidesMeet' /\ Grounded'
    BY <1>1, SidesStay, GroundsStay DEF SelfIInv
<1> QED
    BY <1>9, <1>10, <1>11, <1>12 DEF SelfIInv, Controlled

LEMMA ApplyReviewPreserves == SelfIInv /\ ApplyReview => SelfIInv'
<1> SUFFICES ASSUME SelfIInv, ApplyReview PROVE SelfIInv'
    OBVIOUS
<1>1. PICK r, centrality, at :
          r = Proposal.rep /\ centrality = standing[Proposal.rep].centrality /\ at = mind.task
    OBVIOUS
<1>2. /\ mind.at = "oppose" /\ Recorded("mind") /\ NextCandidate
      /\ Resolve(r, "ESTABLISHED", centrality, TRUE, at)
      /\ UNCHANGED evidenceVars
      /\ UNCHANGED <<arrived, links, unrecorded, inflight, overlap, known, cutoff, prediction, judge,
                     heir, interrupts>>
    BY <1>1 DEF ApplyReview, evidenceVars, recorderVars, otherVars
<1>3. SelfTyped /\ RecordsNameRecords /\ AtStage(mind) /\ ReviewsAreKnown /\ arrived \in Nat
    BY ArrivedIsNat DEF SelfIInv, Controlled
<1>4. r \in Reps /\ r \in known /\ centrality \in Centralities /\ "ESTABLISHED" \in Stances
  <2>1. /\ mind.task \in Reflections /\ mind.next \in 1 .. Len(Script[mind.task])
        /\ reflection[mind.task] = "review"
      BY <1>2, <1>3 DEF AtStage
  <2>2. r = RepOf(mind.task, mind.next) /\ centrality = standing[r].centrality
      BY <1>1 DEF Proposal, RepOf
  <2>3. r \in Reps /\ r \in known
      BY <1>3, <2>1, <2>2, ScriptIsTyped DEF ReviewsAreKnown
  <2> QED
      BY <1>3, <2>2, <2>3 DEF RecordsNameRecords, Stances
<1>5. /\ standing' = [q \in Reps |-> standing'[q]]
      /\ \A q \in Reps : q # r => standing'[q] = standing[q]
      /\ \A q \in Reps : /\ standing'[q].status \in Stances /\ standing'[q].centrality \in Centralities
                         /\ standing'[q] # NoStanding => q \in known
      /\ standing'[r].status = "ESTABLISHED" => Earned(r) /\ Linked(r, "OPPOSES") = {}
    BY <1>2, <1>3, <1>4, ResolveChanges
<1>6. Grounded' /\ SidesMeet' /\ \A q \in Reps : Troubled(q)' => Troubled(q) /\ q # r
    BY <1>2, <1>4, <1>5, ResolveKeepsGrounds DEF SelfIInv
<1>7. \A w : Held(w)' = Held(w)
    BY <1>2 DEF Held
<1>8. Held("mind")' = {}
    BY <1>2, <1>7 DEF Held, Recorded
<1>9. /\ mind' \in Mind /\ reflection' \in [Reflections -> {"propose", "review", "done"}]
      /\ AtStage(mind)' /\ ReviewsAreKnown' /\ Owing'
    BY <1>1, <1>2, <1>4, <1>6, <1>8, NextCandidateKeeps
<1>10. SelfTyped'
    BY <1>2, <1>3, <1>5, <1>9 DEF SelfTyped
<1>11. RecordsNameRecords'
    BY <1>2, <1>3, <1>5, <1>7 DEF RecordsNameRecords
<1>12. AtJudgement(judge)' /\ HeirSupports'
    BY <1>2, <1>3, <1>7, JudgementUntouched, HeirUntouched DEF SelfIInv
<1> QED
    BY <1>6, <1>9, <1>10, <1>11, <1>12 DEF SelfIInv, Controlled
-----------------------------------------------------------------------------
LEMMA SelfStepPreserves == SelfIInv /\ [SelfNext]_selfVars => SelfIInv'
<1> SUFFICES ASSUME SelfIInv, [SelfNext]_selfVars PROVE SelfIInv'
    OBVIOUS
<1>1. CASE UNCHANGED selfVars
  <2>1. /\ UNCHANGED <<arrived, links, unrecorded, inflight, overlap, known, standing, reflection, cutoff,
                       mind, prediction, judge, heir, interrupts>>
      BY <1>1 DEF selfVars, recorderVars
  <2>2. \A w \in Recorders : Held(w)' = Held(w) /\ inflight'[w] \subseteq inflight[w]
      BY <2>1 DEF Held
  <2>3. \A l \in Held("heir")' : l.relation = "SUPPORTS" /\ l.root <= arrived /\ l.rep \in known
      BY <2>2 DEF SelfIInv, Controlled, HeirSupports, RecordsNameRecords, Recorders
  <2> QED
      BY <2>1, <2>2, <2>3, HeirStepPreserves DEF SelfIInv, Controlled, SelfTyped, RecordsNameRecords
<1>2. CASE Arrive
    BY <1>2, ArrivePreserves
<1>3. CASE MindStep
    BY <1>3, StartReflectionPreserves, StartReviewPreserves, EnsurePreserves, ResolveCandidatePreserves,
       PassOverSeenPreserves, ReviewCandidatePreserves, ApplyReviewPreserves DEF MindStep
<1>4. CASE ReflectionFails
    BY <1>4, ReflectionFailsPreserves
<1>5. CASE HeirStep
    BY <1>5, InheritPreserves, ReadParentPreserves DEF HeirStep
<1>6. CASE HeirFails
    BY <1>6, HeirFailsPreserves
<1>7. CASE RecorderStep
    BY <1>7, CheckPreserves, PutPreserves DEF RecorderStep
<1>8. CASE \E p \in Predictions : RecordPrediction(p)
    BY <1>8, RecordPredictionPreserves
<1>9. CASE \E p \in Predictions, outcome \in {"CONFIRMED", "CONTRADICTED", "AMBIGUOUS"}, root \in Roots :
              RecordOutcome(p, outcome, root)
    BY <1>9, RecordOutcomePreserves
<1>10. CASE ReadStanding
    BY <1>10, ReadStandingPreserves
<1>11. CASE ResolveByOutcome
    BY <1>11, ResolveByOutcomePreserves
<1>12. CASE JudgeFails
    BY <1>12, JudgeFailsPreserves
<1> QED
    BY <1>1, <1>2, <1>3, <1>4, <1>5, <1>6, <1>7, <1>8, <1>9, <1>10, <1>11, <1>12 DEF SelfNext

(* The self that is shown is grounded: whatever reflection, inheritance and  *)
(* the judge of a prediction do beside each other, with a check and a put    *)
(* that no lock keeps together (record_self_evidence), and wherever workers  *)
(* die, what is established was earned on roots and context tags that are in *)
(* the store, and is opposed only while a verdict that will count it is owed *)
(* (resolve_self_representation); a root stands on both sides only where two *)
(* checks overlapped; the context of an interaction holds what matters       *)
(* (_search_self_candidates), and every hypothesis leads back to its roots   *)
(* (expand_self_memory_roots).                                               *)
THEOREM SelfStaysGrounded == SelfSpec => []SelfIsGrounded
<1>1. SelfIInv => SelfIsGrounded
  <2> SUFFICES ASSUME SelfIInv PROVE SelfIsGrounded
      OBVIOUS
  <2>1. SelfTyped /\ RecordsNameRecords /\ AtStage(mind) /\ AtJudgement(judge)
      BY DEF SelfIInv, Controlled
  <2>2. Ranked /\ RootsAreRoots
    <3>1. \A r \in Reps : standing[r].centrality \in Nat
        BY <2>1 DEF RecordsNameRecords, Centralities
    <3> QED
        BY <2>1, <3>1, LinksAreTyped DEF Ranked
  <2>3. SelfTypeOK
    <3>1. \A l \in Evidences : l \in links \/ \E w \in Recorders : l \in Held(w)
        BY DEF Evidences, Held
    <3>2. \A l \in Evidences : l.root \in 1 .. LastRoot /\ l.root <= arrived /\ l.rep \in known
      <4>1. \A l \in links : l.root \in 1 .. LastRoot /\ l.root <= arrived /\ l.rep \in known
          BY <2>1 DEF SelfTyped, Links, Roots, RecordsNameRecords
      <4>2. \A w \in Recorders : \A l \in Held(w) : l.root \in 1 .. LastRoot /\ l.root <= arrived /\ l.rep \in known
          BY <2>1, HeldIsTyped DEF Roots, RecordsNameRecords
      <4> QED
          BY <3>1, <4>1, <4>2
    <3>3. {l.root : l \in Evidences} \subseteq 1 .. arrived /\ {l.rep : l \in Evidences} \subseteq known
        BY <2>1, <3>2, SelfAssumption, ArrivedIsNat
    <3>4. mind.at \in {"idle", "propose", "support", "review", "oppose"}
        BY <2>1 DEF SelfTyped, Mind
    <3> QED
        BY <2>1, <3>3, <3>4 DEF SelfTypeOK, SelfTyped, RecordsNameRecords
  <2>4. EstablishedIsEarned /\ OneStancePerRoot
      BY DEF SelfIInv, SidesMeet, Grounded, ReportsAreOwn, Earned, Owing, Troubled, EstablishedIsEarned
  <2> QED
      BY <2>2, <2>3, <2>4, ContextIsComplete, EveryRouteLeads DEF SelfIsGrounded
<1> QED
    BY <1>1, SelfInitEstablishes, SelfStepPreserves, PTL DEF SelfSpec
=============================================================================
