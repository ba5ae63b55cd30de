--------------------------- MODULE AttentionProofs ---------------------------
(* The attention scheduler: proofs about its plans.                          *)
EXTENDS AttentionEpoch, FocusMode, MCVictimSelection, FiniteSetTheorems, FunctionTheorems, WellFoundedInduction, TLAPS

(* Every set of naturals that is not empty has a least member. *)
LEMMA LeastNumber ==
    ASSUME NEW S \in SUBSET Nat, S # {}
    PROVE  \E n \in S : \A m \in S : n <= m
<1>1. PICK n \in S : \A m \in S : ~(<<m, n>> \in OpToRel(<, Nat))
    BY NatLessThanWellFounded, WFMin
<1>2. ASSUME NEW m \in S, ~(n <= m) PROVE FALSE
  <2>1. <<m, n>> \in Nat \X Nat /\ <<m, n>>[1] < <<m, n>>[2]
      BY <1>2
  <2>2. <<m, n>> \in {z \in Nat \X Nat : z[1] < z[2]}
      BY <2>1
  <2> QED
      BY <1>1, <1>2, <2>2, Zenon DEF OpToRel
<1> QED
    BY <1>2

(* Induction over a set of naturals. *)
LEMMA Induction ==
    ASSUME NEW G \in SUBSET Nat, 0 \in G, \A k \in G : k + 1 \in G
    PROVE  G = Nat
<1> SUFFICES ASSUME NEW n \in Nat \ G PROVE FALSE
    OBVIOUS
<1>1. Nat \ G \in SUBSET Nat /\ Nat \ G # {}
    OBVIOUS
<1>2. PICK m \in Nat \ G : \A k \in Nat \ G : m <= k
    BY <1>1, LeastNumber
<1>3. m # 0 /\ m - 1 \in Nat /\ m - 1 \notin Nat \ G
    BY <1>2
<1> QED
    BY <1>2, <1>3

(* Induction over the subsets of a finite set, each from those with one       *)
(* element less.                                                             *)
LEMMA SubsetInduction ==
    ASSUME NEW S, IsFiniteSet(S), NEW G \in SUBSET SUBSET S, {} \in G,
           \A T \in SUBSET S : T # {} /\ (\A x \in T : T \ {x} \in G) => T \in G
    PROVE  G = SUBSET S
<1> DEFINE N == {n \in Nat : \A T \in SUBSET S : Cardinality(T) = n => T \in G}
<1>1. \A T \in SUBSET S : IsFiniteSet(T) /\ Cardinality(T) \in Nat
    BY FS_Subset, FS_CardinalityType
<1>2. 0 \in N
    BY <1>1, FS_EmptySet
<1>3. ASSUME NEW k \in N PROVE k + 1 \in N
  <2> SUFFICES ASSUME NEW T \in SUBSET S, Cardinality(T) = k + 1 PROVE T \in G
      OBVIOUS
  <2>1. T # {}
    <3>1. k \in Nat /\ Cardinality({}) = 0
        BY FS_EmptySet
    <3> QED
        BY <3>1
  <2>2. ASSUME NEW x \in T PROVE T \ {x} \in G
    <3>1. k \in Nat /\ IsFiniteSet(T)
        BY <1>1
    <3>2. Cardinality(T \ {x}) = Cardinality(T) - 1
        BY <3>1, FS_RemoveElement
    <3>3. T \ {x} \in SUBSET S /\ Cardinality(T \ {x}) = k
        BY <3>1, <3>2
    <3>4. \A U \in SUBSET S : Cardinality(U) = k => U \in G
        OBVIOUS
    <3> QED
        BY <3>3, <3>4
  <2> QED
      BY <2>1, <2>2
<1> HIDE DEF N
<1>4. N = Nat
  <2>1. N \in SUBSET Nat
      BY DEF N
  <2> QED
      BY <1>2, <1>3, <2>1, Induction
<1>5. ASSUME NEW T \in SUBSET S PROVE T \in G
    BY <1>1, <1>4 DEF N
<1> QED
    BY <1>5

(* A function on the subsets of a finite set may be defined from its value    *)
(* on the set with one element less.                                          *)
PicksFrom(last, S) == \A T \in SUBSET S : T # {} => last[T] \in T

Steps(step, S, A) == \A x \in S : \A a \in A : step[<<x, a>>] \in A

Follows(f, S, base, last, step) ==
    \A T \in SUBSET S :
        f[T] = IF T = {} THEN base ELSE step[<<last[T], f[T \ {last[T]}]>>]

LEMMA SetRecursion ==
    ASSUME NEW S, IsFiniteSet(S), NEW A, NEW base \in A,
           NEW last, PicksFrom(last, S), NEW step, Steps(step, S, A)
    PROVE  \E f \in [SUBSET S -> A] : Follows(f, S, base, last, step)
<1> USE DEF PicksFrom, Steps
<1> DEFINE Sub(n) == {T \in SUBSET S : Cardinality(T) <= n}
           Recurs(f, n) == /\ f \in [Sub(n) -> A]
                           /\ \A T \in Sub(n) : f[T] = IF T = {} THEN base
                                                  ELSE step[<<last[T], f[T \ {last[T]}]>>]
           N == {n \in Nat : \E f : Recurs(f, n)}
<1>1. \A T \in SUBSET S : IsFiniteSet(T) /\ Cardinality(T) \in Nat
    BY FS_Subset, FS_CardinalityType
<1>2. \A T \in SUBSET S : T # {} =>
          /\ T \ {last[T]} \in SUBSET S
          /\ Cardinality(T \ {last[T]}) = Cardinality(T) - 1
          /\ Cardinality(T) >= 1
  <2> SUFFICES ASSUME NEW T \in SUBSET S, T # {}
               PROVE  /\ T \ {last[T]} \in SUBSET S
                      /\ Cardinality(T \ {last[T]}) = Cardinality(T) - 1
                      /\ Cardinality(T) >= 1
      OBVIOUS
  <2>1. last[T] \in T
      OBVIOUS
  <2>2. Cardinality(T \ {last[T]}) = Cardinality(T) - 1
      BY <1>1, <2>1, FS_RemoveElement
  <2>3. Cardinality(T) # 0
      BY <1>1, FS_EmptySet
  <2> QED
      BY <1>1, <2>2, <2>3
<1>3. 0 \in N
  <2>1. Sub(0) = {{}}
    <3>1. ASSUME NEW T \in Sub(0), T # {} PROVE FALSE
      <4>1. T \in SUBSET S /\ Cardinality(T) <= 0 /\ Cardinality(T) >= 1
          BY <1>2, <3>1
      <4> QED
          BY <1>1, <4>1
    <3>2. {} \in Sub(0)
        BY FS_EmptySet
    <3> QED
        BY <3>1, <3>2
  <2>2. Recurs([T \in Sub(0) |-> base], 0)
      BY <2>1
  <2> QED
      BY <2>2
<1>4. ASSUME NEW k \in N PROVE k + 1 \in N
  <2>1. PICK g : Recurs(g, k)
      OBVIOUS
  <2> DEFINE f == [T \in Sub(k + 1) |-> IF T = {} THEN base
                                        ELSE step[<<last[T], g[T \ {last[T]}]>>]]
  <2>2. \A T \in Sub(k + 1) : T # {} => T \ {last[T]} \in Sub(k) /\ last[T] \in S
      BY <1>1, <1>2
  <2>3. f \in [Sub(k + 1) -> A]
    <3>1. ASSUME NEW T \in Sub(k + 1), T # {}
          PROVE  step[<<last[T], g[T \ {last[T]}]>>] \in A
        BY <2>1, <2>2, <3>1
    <3> QED
        BY <3>1
  <2>4. \A T \in Sub(k) : T \in Sub(k + 1) /\ f[T] = g[T]
      BY <1>1, <2>1
  <2>5. \A T \in Sub(k + 1) : f[T] = IF T = {} THEN base
                                     ELSE step[<<last[T], f[T \ {last[T]}]>>]
      BY <2>2, <2>4
  <2>6. Recurs(f, k + 1)
      BY <2>3, <2>5
  <2>7. k + 1 \in Nat
      OBVIOUS
  <2> HIDE DEF f, Recurs, Sub
  <2> QED
      BY <2>6, <2>7
<1>5. N = Nat
  <2>1. N \in SUBSET Nat
      OBVIOUS
  <2> HIDE DEF N
  <2> QED
      BY <1>3, <1>4, <2>1, Induction
<1>6. Cardinality(S) \in Nat /\ Sub(Cardinality(S)) = SUBSET S
  <2>1. \A T \in SUBSET S : Cardinality(T) <= Cardinality(S)
      BY FS_Subset
  <2> QED
      BY <1>1, <2>1
<1>7. PICK f : Recurs(f, Cardinality(S))
  <2> HIDE DEF Recurs, Sub
  <2> QED
      BY <1>5, <1>6
<1> QED
    BY <1>6, <1>7 DEF Follows

(* Such a function is determined by that. *)
LEMMA RecursionIsUnique ==
    ASSUME NEW S, IsFiniteSet(S), NEW base, NEW last, PicksFrom(last, S), NEW step,
           NEW f, Follows(f, S, base, last, step),
           NEW g, Follows(g, S, base, last, step)
    PROVE  \A T \in SUBSET S : f[T] = g[T]
<1> DEFINE G == {T \in SUBSET S : f[T] = g[T]}
<1>1. {} \in G
    BY DEF Follows
<1>2. ASSUME NEW T \in SUBSET S, T # {}, \A x \in T : T \ {x} \in G PROVE T \in G
  <2> DEFINE U == T \ {last[T]}
  <2>1. U \in G
    <3>1. last[T] \in T
        BY <1>2 DEF PicksFrom
    <3> HIDE DEF G
    <3> QED
        BY <1>2, <3>1
  <2>2. f[U] = g[U]
      BY <2>1
  <2>3. f[T] = step[<<last[T], f[U]>>]
      BY <1>2 DEF Follows
  <2>4. g[T] = step[<<last[T], g[U]>>]
      BY <1>2 DEF Follows
  <2> HIDE DEF U
  <2>5. f[T] = g[T]
      BY <2>2, <2>3, <2>4
  <2> QED
      BY <2>5
<1>3. G \in SUBSET SUBSET S
    OBVIOUS
<1>4. G = SUBSET S
  <2> HIDE DEF G
  <2>1. \A T \in SUBSET S : T # {} /\ (\A x \in T : T \ {x} \in G) => T \in G
      BY <1>2, Zenon
  <2> QED
      BY <1>1, <1>3, <2>1, SubsetInduction, Zenon
<1> QED
    BY <1>4
-----------------------------------------------------------------------------
(* Sums over finite sets, of weights that are naturals. *)

Some(T) == CHOOSE x \in T : TRUE

IsSum(f, w, S) ==
    /\ f \in [SUBSET S -> Nat]
    /\ \A T \in SUBSET S : f[T] = IF T = {} THEN 0 ELSE w[Some(T)] + f[T \ {Some(T)}]

Sum(w, S) == (CHOOSE f : IsSum(f, w, S))[S]

LEMMA SomeIsOne == ASSUME NEW T, T # {} PROVE Some(T) \in T
BY DEF Some

LEMMA SumExists ==
    ASSUME NEW S, IsFiniteSet(S), NEW w, \A x \in S : w[x] \in Nat
    PROVE  \E f : IsSum(f, w, S)
<1> DEFINE last == [T \in SUBSET S |-> Some(T)]
           step == [z \in S \X Nat |-> w[z[1]] + z[2]]
<1>1. ASSUME NEW T \in SUBSET S, T # {} PROVE last[T] \in T /\ last[T] = Some(T)
  <2>1. Some(T) \in T
      BY <1>1, SomeIsOne
  <2> QED
      BY <2>1
<1>2. \A x \in S : \A a \in Nat : step[<<x, a>>] \in Nat /\ step[<<x, a>>] = w[x] + a
    OBVIOUS
<1> HIDE DEF last, step
<1>3. PICK f \in [SUBSET S -> Nat] : Follows(f, S, 0, last, step)
  <2>1. PicksFrom(last, S)
      BY <1>1 DEF PicksFrom
  <2>2. Steps(step, S, Nat)
      BY <1>2 DEF Steps
  <2>3. 0 \in Nat
      OBVIOUS
  <2> QED
      BY <2>1, <2>2, <2>3, SetRecursion
<1>4. ASSUME NEW T \in SUBSET S, T # {} PROVE f[T] = w[Some(T)] + f[T \ {Some(T)}]
  <2>1. Some(T) \in S /\ T \ {Some(T)} \in SUBSET S
      BY <1>4, SomeIsOne
  <2>2. f[T \ {Some(T)}] \in Nat
      BY <2>1
  <2> QED
      BY <1>1, <1>2, <1>3, <1>4, <2>1, <2>2 DEF Follows
<1>5. IsSum(f, w, S)
    BY <1>3, <1>4 DEF IsSum, Follows
<1> QED
    BY <1>5

(* Any element may be taken out first. *)
LEMMA SumTakesOut ==
    ASSUME NEW S, IsFiniteSet(S), NEW w, \A x \in S : w[x] \in Nat, NEW f, IsSum(f, w, S)
    PROVE  \A T \in SUBSET S : \A x \in T : f[T] = w[x] + f[T \ {x}]
<1> DEFINE G == {T \in SUBSET S : \A x \in T : f[T] = w[x] + f[T \ {x}]}
<1>1. {} \in G
    OBVIOUS
<1>2. ASSUME NEW T \in SUBSET S, T # {}, \A x \in T : T \ {x} \in G PROVE T \in G
  <2> SUFFICES ASSUME NEW x \in T PROVE f[T] = w[x] + f[T \ {x}]
      OBVIOUS
  <2> DEFINE c == Some(T)
  <2>1. c \in T /\ f[T] = w[c] + f[T \ {c}]
      BY <1>2, SomeIsOne DEF IsSum
  <2>2. CASE x = c
      BY <2>1, <2>2
  <2>3. CASE x # c
    <3>1. f[T \ {c}] = w[x] + f[(T \ {c}) \ {x}]
      <4>1. T \ {c} \in G /\ x \in T \ {c}
          BY <1>2, <2>1, <2>3
      <4> HIDE DEF c
      <4> QED
          BY <4>1
    <3>2. f[T \ {x}] = w[c] + f[(T \ {x}) \ {c}]
      <4>1. T \ {x} \in G
          BY <1>2
      <4>2. c \in T \ {x}
          BY <2>1, <2>3
      <4> HIDE DEF c
      <4> QED
          BY <4>1, <4>2
    <3>3. (T \ {c}) \ {x} = (T \ {x}) \ {c}
        OBVIOUS
    <3>4. f[(T \ {x}) \ {c}] \in Nat /\ w[c] \in Nat /\ w[x] \in Nat
        BY <2>1 DEF IsSum
    <3> DEFINE a == w[c]
               b == w[x]
               r == f[(T \ {x}) \ {c}]
    <3>5. f[T] = a + (b + r)
        BY <2>1, <3>1, <3>3, Zenon
    <3>6. f[T \ {x}] = a + r
        BY <3>2
    <3>7. a \in Nat /\ b \in Nat /\ r \in Nat
        BY <3>4
    <3> HIDE DEF a, r
    <3>8. a + (b + r) = b + (a + r)
        BY <3>7
    <3> QED
        BY <3>5, <3>6, <3>8, Zenon
  <2> QED
      BY <2>2, <2>3
<1>3. G \in SUBSET SUBSET S
    OBVIOUS
<1>4. G = SUBSET S
  <2> HIDE DEF G
  <2> QED
      BY <1>1, <1>2, <1>3, SubsetInduction
<1> QED
    BY <1>4

(* A sum does not depend on the set it is a part of. *)
LEMMA SumIsLocal ==
    ASSUME NEW S, IsFiniteSet(S), NEW w, \A x \in S : w[x] \in Nat, NEW f, IsSum(f, w, S),
           NEW T \in SUBSET S
    PROVE  f[T] = Sum(w, T)
<1> DEFINE g == CHOOSE h : IsSum(h, w, T)
           G == {U \in SUBSET T : f[U] = g[U]}
<1>1. IsFiniteSet(T) /\ \A x \in T : w[x] \in Nat
    BY FS_Subset
<1>2. IsSum(g, w, T)
    BY <1>1, SumExists
<1> HIDE DEF g
<1>3. {} \in G
    BY <1>2 DEF IsSum
<1>4. ASSUME NEW U \in SUBSET T, U # {}, \A x \in U : U \ {x} \in G PROVE U \in G
  <2>1. f[U \ {Some(U)}] = g[U \ {Some(U)}]
      BY <1>4, SomeIsOne
  <2>2. f[U] = w[Some(U)] + f[U \ {Some(U)}]
      BY <1>4 DEF IsSum
  <2>3. g[U] = w[Some(U)] + g[U \ {Some(U)}]
      BY <1>2, <1>4 DEF IsSum
  <2> QED
      BY <2>1, <2>2, <2>3
<1>5. G \in SUBSET SUBSET T
    OBVIOUS
<1>6. G = SUBSET T
  <2> HIDE DEF G
  <2> QED
      BY <1>1, <1>3, <1>4, <1>5, SubsetInduction
<1>7. f[T] = g[T]
    BY <1>6
<1> QED
    BY <1>7 DEF Sum, g

LEMMA SumLaws ==
    ASSUME NEW S, IsFiniteSet(S), NEW w, \A x \in S : w[x] \in Nat
    PROVE  /\ Sum(w, {}) = 0
           /\ Sum(w, S) \in Nat
           /\ \A x \in S : Sum(w, S) = w[x] + Sum(w, S \ {x})
<1>1. PICK f : IsSum(f, w, S)
    BY SumExists
<1>2. f[{}] = 0 /\ f[S] \in Nat
    BY <1>1 DEF IsSum
<1>3. \A x \in S : f[S] = w[x] + f[S \ {x}]
    BY <1>1, SumTakesOut
<1>4. \A T \in SUBSET S : f[T] = Sum(w, T)
    BY <1>1, SumIsLocal
<1> QED
    BY <1>2, <1>3, <1>4

(* The sum of two sets without common elements. *)
LEMMA SumOfUnion ==
    ASSUME NEW S, IsFiniteSet(S), NEW T, IsFiniteSet(T), S \cap T = {},
           NEW w, \A x \in S \cup T : w[x] \in Nat
    PROVE  Sum(w, S \cup T) = Sum(w, S) + Sum(w, T)
<1> DEFINE G == {U \in SUBSET T : Sum(w, S \cup U) = Sum(w, S) + Sum(w, U)}
<1>1. Sum(w, {}) = 0 /\ Sum(w, S) \in Nat
    BY SumLaws
<1>2. {} \in G
  <2>1. S \cup {} = S
      OBVIOUS
  <2> QED
      BY <1>1, <2>1
<1>3. ASSUME NEW U \in SUBSET T, U # {}, \A x \in U : U \ {x} \in G PROVE U \in G
  <2>1. PICK x \in U : TRUE
      BY <1>3
  <2>2. Sum(w, S \cup (U \ {x})) = Sum(w, S) + Sum(w, U \ {x})
      BY <1>3
  <2>3. IsFiniteSet(U) /\ IsFiniteSet(S \cup U) /\ IsFiniteSet(U \ {x})
      BY FS_Subset, FS_Union
  <2>4. Sum(w, U) = w[x] + Sum(w, U \ {x}) /\ w[x] \in Nat
      BY <2>3, SumLaws
  <2>5. Sum(w, S \cup U) = w[x] + Sum(w, (S \cup U) \ {x})
      BY <2>3, SumLaws
  <2>6. (S \cup U) \ {x} = S \cup (U \ {x})
      OBVIOUS
  <2>7. Sum(w, U \ {x}) \in Nat
      BY <2>3, SumLaws
  <2>8. Sum(w, S \cup U) = Sum(w, S) + Sum(w, U)
    <3>1. Sum(w, S \cup U) = w[x] + (Sum(w, S) + Sum(w, U \ {x}))
        BY <2>2, <2>5, <2>6
    <3> DEFINE s == Sum(w, S)
               u == Sum(w, U \ {x})
               v == w[x]
    <3>2. s \in Nat /\ u \in Nat /\ v \in Nat
        BY <1>1, <2>4, <2>7
    <3> HIDE DEF s, u, v
    <3>3. v + (s + u) = s + (v + u)
        BY <3>2
    <3> QED
        BY <2>4, <3>1, <3>3 DEF s, u, v
  <2> QED
      BY <2>8
<1>4. G \in SUBSET SUBSET T
    OBVIOUS
<1>5. G = SUBSET T
  <2> HIDE DEF G
  <2> QED
      BY <1>2, <1>3, <1>4, SubsetInduction
<1> QED
    BY <1>5

LEMMA SumGrows ==
    ASSUME NEW S, IsFiniteSet(S), NEW T \in SUBSET S, NEW w, \A x \in S : w[x] \in Nat
    PROVE  /\ Sum(w, S) = Sum(w, T) + Sum(w, S \ T)
           /\ Sum(w, T) \in Nat /\ Sum(w, S \ T) \in Nat
<1>1. IsFiniteSet(T) /\ IsFiniteSet(S \ T)
    BY FS_Subset
<1>2. S = T \cup (S \ T) /\ T \cap (S \ T) = {}
    OBVIOUS
<1> QED
    BY <1>1, <1>2, SumOfUnion, SumLaws
-----------------------------------------------------------------------------
(* The sums of the models. *)

LEMMA AnyRecursionSums ==
    ASSUME NEW S, IsFiniteSet(S), NEW w, \A x \in S : w[x] \in Nat, NEW f,
           f = [T \in SUBSET S |-> IF T = {} THEN 0 ELSE w[Some(T)] + f[T \ {Some(T)}]]
    PROVE  f[S] = Sum(w, S)
<1> DEFINE G == {T \in SUBSET S : f[T] \in Nat}
<1>1. \A T \in SUBSET S :
          f[T] = IF T = {} THEN 0 ELSE w[Some(T)] + f[T \ {Some(T)}]
    OBVIOUS
<1>2. {} \in G
    BY <1>1
<1>3. ASSUME NEW T \in SUBSET S, T # {}, \A x \in T : T \ {x} \in G PROVE T \in G
  <2>1. Some(T) \in T
      BY <1>3, SomeIsOne
  <2>2. f[T \ {Some(T)}] \in Nat
      BY <1>3, <2>1
  <2>3. w[Some(T)] \in Nat
      BY <2>1
  <2>4. f[T] = w[Some(T)] + f[T \ {Some(T)}]
      BY <1>1, <1>3
  <2>5. f[T] \in Nat
    <3> HIDE DEF G
    <3> QED
        BY <2>2, <2>3, <2>4
  <2> QED
      BY <2>5
<1>4. G \in SUBSET SUBSET S
    OBVIOUS
<1>5. G = SUBSET S
  <2> HIDE DEF G
  <2> QED
      BY <1>2, <1>3, <1>4, SubsetInduction
<1>6. f \in [SUBSET S -> Nat]
    BY <1>5
<1>7. IsSum(f, w, S)
    BY <1>1, <1>6 DEF IsSum
<1> QED
    BY <1>7, SumIsLocal

LEMMA UnitsOfIsSum ==
    ASSUME NEW S, IsFiniteSet(S), \A x \in S : Asks[x] \in Nat
    PROVE  UnitsOf(S) = Sum(Asks, S)
<1> DEFINE h == CHOOSE f : f = [T \in SUBSET S |->
                              IF T = {} THEN 0 ELSE Asks[Some(T)] + f[T \ {Some(T)}]]
<1>1. UnitsOf(S) = h[S]
    BY DEF UnitsOf, MapThenSumSet, MapThenFoldSet, Some
<1>2. PICK f : IsSum(f, Asks, S)
    BY SumExists
<1>3. f = [T \in SUBSET S |-> IF T = {} THEN 0 ELSE Asks[Some(T)] + f[T \ {Some(T)}]]
    BY <1>2 DEF IsSum
<1>4. h = [T \in SUBSET S |-> IF T = {} THEN 0 ELSE Asks[Some(T)] + h[T \ {Some(T)}]]
    BY <1>3
<1> HIDE DEF h
<1> QED
    BY <1>1, <1>4, AnyRecursionSums
-----------------------------------------------------------------------------
(* Sorted lists: the order is a set of pairs, a strict total order of the set. *)

Orders(R, S) ==
    /\ \A x \in S : <<x, x>> \notin R
    /\ \A x, y \in S : x = y \/ <<x, y>> \in R \/ <<y, x>> \in R
    /\ \A x, y, z \in S : <<x, y>> \in R /\ <<y, z>> \in R => <<x, z>> \in R

Below(R, S, x) == {y \in S : <<y, x>> \in R}

Lists(g, R, S) ==
    /\ g \in [1 .. Cardinality(S) -> S]
    /\ \A k \in 1 .. Cardinality(S) : Cardinality(Below(R, S, g[k])) = k - 1

LEMMA RanksGrow ==
    ASSUME NEW S, IsFiniteSet(S), NEW R, Orders(R, S), NEW x \in S, NEW y \in S,
           <<x, y>> \in R
    PROVE  Cardinality(Below(R, S, x)) < Cardinality(Below(R, S, y))
<1>1. Below(R, S, x) \cup {x} \in SUBSET Below(R, S, y) /\ x \notin Below(R, S, x)
    BY DEF Orders, Below
<1>2. Below(R, S, x) \in SUBSET S /\ Below(R, S, y) \in SUBSET S
    BY DEF Below
<1>3. IsFiniteSet(Below(R, S, x)) /\ IsFiniteSet(Below(R, S, y))
    BY <1>2, FS_Subset
<1>4. Cardinality(Below(R, S, x) \cup {x}) = Cardinality(Below(R, S, x)) + 1
    BY <1>1, <1>3, FS_AddElement
<1>5. Cardinality(Below(R, S, x) \cup {x}) <= Cardinality(Below(R, S, y))
    BY <1>1, <1>3, FS_Subset
<1>6. Cardinality(Below(R, S, x)) \in Nat /\ Cardinality(Below(R, S, y)) \in Nat
    BY <1>3, FS_CardinalityType
<1> QED
    BY <1>4, <1>5, <1>6

LEMMA RankIsUnique ==
    ASSUME NEW S, IsFiniteSet(S), NEW R, Orders(R, S), NEW x \in S, NEW y \in S,
           Cardinality(Below(R, S, x)) = Cardinality(Below(R, S, y))
    PROVE  x = y
<1>1. \A z \in S : Cardinality(Below(R, S, z)) \in Nat
  <2>1. \A z \in S : Below(R, S, z) \in SUBSET S
      BY DEF Below
  <2> QED
      BY <2>1, FS_Subset, FS_CardinalityType
<1>2. <<x, y>> \notin R
    BY <1>1, RanksGrow
<1>3. <<y, x>> \notin R
    BY <1>1, RanksGrow
<1> QED
    BY <1>2, <1>3 DEF Orders

LEMMA RankExists ==
    ASSUME NEW S, IsFiniteSet(S), NEW R, Orders(R, S), NEW k \in 1 .. Cardinality(S)
    PROVE  \E x \in S : Cardinality(Below(R, S, x)) = k - 1
<1> DEFINE n == Cardinality(S)
           f == [x \in S |-> Cardinality(Below(R, S, x)) + 1]
<1>1. n \in Nat
    BY FS_CardinalityType
<1>2. ASSUME NEW x \in S
      PROVE  Cardinality(Below(R, S, x)) \in Nat /\ Cardinality(Below(R, S, x)) < n
  <2>1. Below(R, S, x) \in SUBSET S /\ Below(R, S, x) # S
      BY DEF Below, Orders
  <2>2. Cardinality(Below(R, S, x)) <= n /\ Cardinality(Below(R, S, x)) # n
      BY <2>1, FS_Subset
  <2>3. Cardinality(Below(R, S, x)) \in Nat
      BY <2>1, FS_Subset, FS_CardinalityType
  <2> QED
      BY <1>1, <2>2, <2>3
<1>3. f \in [S -> 1 .. n]
    BY <1>1, <1>2
<1>4. \A x, y \in S : f[x] = f[y] => x = y
    BY <1>2, RankIsUnique
<1>5. f \in Injection(S, 1 .. n)
    BY <1>3, <1>4, Fun_IsInj
<1>6. IsFiniteSet(1 .. n) /\ Cardinality(1 .. n) = n
    BY <1>1, FS_Interval
<1>7. f \in Surjection(S, 1 .. n)
    BY <1>5, <1>6, FS_Injection
<1>8. PICK x \in S : f[x] = k
  <2>1. k \in 1 .. n
      OBVIOUS
  <2> HIDE DEF f, n
  <2>2. \A t \in 1 .. n : \E s \in S : f[s] = t
      BY <1>7, Fun_SurjectionProperties
  <2> QED
      BY <2>1, <2>2
<1>9. Cardinality(Below(R, S, x)) + 1 = k
    BY <1>8
<1> QED
    BY <1>2, <1>9

LEMMA LeastExists ==
    ASSUME NEW S, IsFiniteSet(S), S # {}, NEW R, Orders(R, S)
    PROVE  \E x \in S : \A y \in S \ {x} : <<x, y>> \in R
<1>1. 1 \in 1 .. Cardinality(S)
  <2>1. Cardinality(S) \in Nat /\ Cardinality(S) # 0
      BY FS_CardinalityType, FS_EmptySet
  <2> QED
      BY <2>1
<1>2. PICK x \in S : Cardinality(Below(R, S, x)) = 1 - 1
    BY <1>1, RankExists
<1>3. Below(R, S, x) = {}
  <2>1. Below(R, S, x) \in SUBSET S
      BY DEF Below
  <2> QED
      BY <1>2, <2>1, FS_Subset, FS_EmptySet
<1> QED
    BY <1>3 DEF Below, Orders

LEMMA ListProperties ==
    ASSUME NEW S, IsFiniteSet(S), NEW R, Orders(R, S), NEW g, Lists(g, R, S)
    PROVE  /\ g \in Seq(S) /\ Len(g) = Cardinality(S) /\ Cardinality(S) \in Nat
           /\ IsInjective(g) /\ ToSet(g) = S
           /\ \A j, k \in DOMAIN g : j < k => <<g[j], g[k]>> \in R
<1> DEFINE n == Cardinality(S)
<1>1. n \in Nat
    BY FS_CardinalityType
<1>2. g \in [1 .. n -> S] /\ \A k \in 1 .. n : Cardinality(Below(R, S, g[k])) = k - 1
    BY DEF Lists
<1> HIDE DEF n
<1>3. g \in Seq(S) /\ Len(g) = n
    BY <1>1, <1>2
<1>4. IsInjective(g)
  <2> SUFFICES ASSUME NEW j \in 1 .. n, NEW k \in 1 .. n, g[j] = g[k] PROVE j = k
      BY <1>2 DEF IsInjective
  <2>1. j - 1 = k - 1
      BY <1>2
  <2> QED
      BY <1>1, <2>1
<1>5. ASSUME NEW x \in S PROVE x \in ToSet(g)
  <2> DEFINE c == Cardinality(Below(R, S, x))
  <2>1. Below(R, S, x) \in SUBSET S /\ Below(R, S, x) # S
      BY DEF Below, Orders
  <2>2. c \in Nat /\ c <= n /\ c # n
      BY <2>1, FS_Subset, FS_CardinalityType DEF n
  <2> HIDE DEF c
  <2>3. c + 1 \in 1 .. n
      BY <1>1, <2>2
  <2>4. Cardinality(Below(R, S, g[c + 1])) = c
      BY <1>2, <2>2, <2>3
  <2>5. g[c + 1] = x
      BY <1>2, <2>3, <2>4, RankIsUnique DEF c
  <2> QED
      BY <1>2, <2>3, <2>5 DEF ToSet
<1>6. ToSet(g) \subseteq S
    BY <1>2 DEF ToSet
<1>7. ASSUME NEW j \in 1 .. n, NEW k \in 1 .. n, j < k PROVE <<g[j], g[k]>> \in R
  <2>1. g[j] # g[k]
    <3>1. j # k
        BY <1>1, <1>7
    <3> QED
        BY <1>2, <1>4, <3>1 DEF IsInjective
  <2>2. <<g[k], g[j]>> \notin R
    <3>1. ASSUME <<g[k], g[j]>> \in R PROVE k - 1 < j - 1
        BY <1>2, <3>1, RanksGrow
    <3> QED
        BY <1>1, <1>7, <3>1
  <2> QED
      BY <1>2, <2>1, <2>2 DEF Orders
<1> QED
    BY <1>1, <1>2, <1>3, <1>4, <1>5, <1>6, <1>7 DEF n
-----------------------------------------------------------------------------
(* Folds over lists: one step after the other. *)

LEMMA MaxIsOne ==
    ASSUME NEW n \in Nat, NEW T \in SUBSET (1 .. n), T # {}
    PROVE  Max(T) \in T /\ \A x \in T : x <= Max(T)
<1> DEFINE N == {m \in Nat : \A x \in T : x <= m}
<1>1. n \in N /\ N \in SUBSET Nat
    OBVIOUS
<1>2. PICK m \in N : \A k \in N : m <= k
    BY <1>1, LeastNumber
<1>3. m \in T
  <2> SUFFICES ASSUME m \notin T PROVE FALSE
      OBVIOUS
  <2>1. PICK y \in T : TRUE
      OBVIOUS
  <2>2. m \in Nat /\ y \in 1 .. n /\ y <= m
      BY <2>1
  <2>3. \A x \in T : x <= m - 1
    <3>1. ASSUME NEW x \in T PROVE x <= m - 1
      <4>1. x \in 1 .. n /\ x <= m /\ x # m
          OBVIOUS
      <4> QED
          BY <2>2, <4>1
    <3> QED
        BY <3>1
  <2>4. m - 1 \in N
      BY <2>2, <2>3
  <2> QED
      BY <1>2, <2>2, <2>4
<1>4. \A x \in T : m >= x
    OBVIOUS
<1>5. Max(T) \in T /\ \A x \in T : Max(T) >= x
  <2> HIDE DEF N
  <2> QED
      BY <1>3, <1>4 DEF Max
<1>6. T \in SUBSET Nat
    OBVIOUS
<1> QED
    BY <1>5, <1>6

Accumulates(f, n, base, step) ==
    \A T \in SUBSET (1 .. n) :
        f[T] = IF T = {} THEN base ELSE step[<<Max(T), f[T \ {Max(T)}]>>]

LEMMA FoldExists ==
    ASSUME NEW n \in Nat, NEW A, NEW base \in A, NEW step, Steps(step, 1 .. n, A)
    PROVE  \E f \in [SUBSET (1 .. n) -> A] : Accumulates(f, n, base, step)
<1> DEFINE last == [T \in SUBSET (1 .. n) |-> Max(T)]
<1>1. \A T \in SUBSET (1 .. n) : last[T] = Max(T)
    OBVIOUS
<1>2. PicksFrom(last, 1 .. n)
    BY MaxIsOne DEF PicksFrom
<1>3. IsFiniteSet(1 .. n)
    BY FS_Interval
<1> HIDE DEF last
<1>4. PICK f \in [SUBSET (1 .. n) -> A] : Follows(f, 1 .. n, base, last, step)
    BY <1>2, <1>3, SetRecursion
<1>5. ASSUME NEW T \in SUBSET (1 .. n)
      PROVE  f[T] = IF T = {} THEN base ELSE step[<<Max(T), f[T \ {Max(T)}]>>]
  <2>1. f[T] = IF T = {} THEN base ELSE step[<<last[T], f[T \ {last[T]}]>>]
      BY <1>4, Zenon DEF Follows
  <2>2. last[T] = Max(T)
      BY <1>1
  <2> QED
      BY <2>1, <2>2, Zenon
<1>6. Accumulates(f, n, base, step)
    BY <1>5, Zenon DEF Accumulates
<1> QED
    BY <1>4, <1>6

LEMMA Segments ==
    ASSUME NEW n \in Nat
    PROVE  /\ 1 .. 0 = {}
           /\ \A k \in 1 .. n : /\ 1 .. k \in SUBSET (1 .. n) /\ 1 .. k # {}
                                /\ Max(1 .. k) = k /\ (1 .. k) \ {k} = 1 .. k - 1
<1>1. ASSUME NEW k \in 1 .. n PROVE Max(1 .. k) = k
  <2>1. Max(1 .. k) \in 1 .. k /\ \A x \in 1 .. k : x <= Max(1 .. k)
    <3>1. k \in Nat /\ 1 .. k \in SUBSET (1 .. k) /\ 1 .. k # {}
        OBVIOUS
    <3> QED
        BY <3>1, MaxIsOne
  <2> QED
      BY <2>1
<1> QED
    BY <1>1
-----------------------------------------------------------------------------
(* The focus mode. *)

FocusTypes ==
    /\ status \in [Work -> {"NEW", "QUEUED", "RUNNING", "COMPLETED", "FAILED"}]
    /\ held \in Work \cup {Nobody} /\ heldFor \in Work \cup {Nobody}
    /\ wait \in [Work -> Nat]
    /\ reserved \subseteq Work
    /\ capacity \in Nat

LEMMA WorkIsFinite ==
    /\ IsFiniteSet(Work) /\ Work \subseteq Nat /\ Nobody \notin Work
    /\ \A S \in SUBSET Work : IsFiniteSet(S)
<1>1. LastTask \in Nat
    BY FocusAssumption
<1>2. IsFiniteSet(Work)
    BY <1>1, FS_Interval DEF Work
<1>3. \A S \in SUBSET Work : IsFiniteSet(S)
    BY <1>2, FS_Subset
<1>4. Work \subseteq Nat /\ Nobody \notin Work
    BY <1>1 DEF Work, Nobody
<1> QED
    BY <1>2, <1>3, <1>4

LEMMA UnitsAreNatural ==
    ASSUME NEW S \in SUBSET Work
    PROVE  UnitsOf(S) = Sum(Asks, S) /\ UnitsOf(S) \in Nat
<1>1. IsFiniteSet(S) /\ \A x \in S : Asks[x] \in Nat
    BY WorkIsFinite, FocusAssumption
<1> QED
    BY <1>1, UnitsOfIsSum, SumLaws

LEMMA EarlierOrders ==
    ASSUME NEW w \in [Work -> Nat], NEW S \in SUBSET Work
    PROVE  Orders({z \in Work \X Work : Earlier(w, z[1], z[2])}, S)
<1>1. \A t \in Work : Effective(w, t) \in Nat
  <2> SUFFICES ASSUME NEW t \in Work PROVE Effective(w, t) \in Nat
      OBVIOUS
  <2>1. Base[t] \in Nat /\ PromotedTo[t] \in Nat
      BY FocusAssumption
  <2>2. Min({Base[t], PromotedTo[t]}) \in Nat
    <3>1. \E x \in {Base[t], PromotedTo[t]} : \A y \in {Base[t], PromotedTo[t]} : x <= y
        BY <2>1
    <3> QED
        BY <2>1, <3>1 DEF Min
  <2> QED
      BY <2>1, <2>2 DEF Effective
<1>2. \A t \in Work : IsDue(w, t) \in BOOLEAN
    BY FocusAssumption DEF IsDue
<1>3. S \subseteq Work /\ Work \subseteq Nat
    BY WorkIsFinite
<1> DEFINE R == {z \in Work \X Work : Earlier(w, z[1], z[2])}
<1>4. \A t, u \in S : <<t, u>> \in R <=> Earlier(w, t, u)
    BY <1>3
<1> HIDE DEF R
<1>5. \A t \in S : ~Earlier(w, t, t)
    BY <1>1, <1>3 DEF Earlier
<1>6. \A t, u \in S : t = u \/ Earlier(w, t, u) \/ Earlier(w, u, t)
    BY <1>1, <1>2, <1>3 DEF Earlier
<1>7. \A t, u, v \in S :
          Earlier(w, t, u) /\ Earlier(w, u, v) => Earlier(w, t, v)
    BY <1>1, <1>2, <1>3 DEF Earlier
<1>8. Orders(R, S)
    BY <1>4, <1>5, <1>6, <1>7 DEF Orders
<1> QED
    BY <1>8 DEF R

(* The queue in its order holds what waits, and nothing else. *)
LEMMA ByAttentionLists ==
    ASSUME FocusTypes
    PROVE  ByAttention \in Seq(Waiting) /\ ToSet(ByAttention) = Waiting
<1> DEFINE R == {z \in Work \X Work : Earlier(wait, z[1], z[2])}
<1>1. Orders(R, Waiting)
  <2>1. Waiting \in SUBSET Work /\ wait \in [Work -> Nat]
      BY DEF Waiting, FocusTypes
  <2> QED
      BY <2>1, EarlierOrders
<1>2. IsFiniteSet(Waiting) /\ Waiting \subseteq Work
    BY WorkIsFinite DEF Waiting
<1>3. \A t \in Waiting : Below(R, Waiting, t) = {u \in Waiting : Earlier(wait, u, t)}
    BY <1>2 DEF Below
<1> HIDE DEF R
<1>4. Lists(ByAttention, R, Waiting)
  <2>1. ASSUME NEW k \in 1 .. Cardinality(Waiting)
        PROVE  /\ ByAttention[k] \in Waiting
               /\ Cardinality(Below(R, Waiting, ByAttention[k])) = k - 1
    <3>1. \E t \in Waiting : Cardinality(Below(R, Waiting, t)) = k - 1
        BY <1>1, <1>2, RankExists
    <3>2. \E t \in Waiting : Cardinality({u \in Waiting : Earlier(wait, u, t)}) = k - 1
        BY <1>3, <3>1
    <3>3. ByAttention[k] = CHOOSE t \in Waiting :
                              Cardinality({u \in Waiting : Earlier(wait, u, t)}) = k - 1
        BY DEF ByAttention, InOrder
    <3>4. /\ ByAttention[k] \in Waiting
          /\ Cardinality({u \in Waiting : Earlier(wait, u, ByAttention[k])}) = k - 1
        BY <3>2, <3>3
    <3> QED
        BY <1>3, <3>4
  <2>2. DOMAIN ByAttention = 1 .. Cardinality(Waiting)
        /\ ByAttention = [k \in DOMAIN ByAttention |-> ByAttention[k]]
      BY SMTT(30) DEF ByAttention, InOrder
  <2> QED
      BY <2>1, <2>2 DEF Lists
<1> QED
    BY <1>1, <1>2, <1>4, ListProperties

(* The admission holds the running task, adds tasks that wait, and fits. *)
LEMMA AdmittedFits ==
    ASSUME FocusTypes, UnitsOf({held} \ {Nobody}) <= capacity
    PROVE  /\ Admitted \subseteq Waiting \cup ({held} \ {Nobody})
           /\ {held} \ {Nobody} \subseteq Admitted
           /\ UnitsOf(Admitted) <= capacity
<1> DEFINE L == ByAttention
           n == Len(L)
           base == {held} \ {Nobody}
           A == SUBSET Work
           More(chosen, t) == IF UnitsOf(chosen \cup {t}) <= capacity
                              THEN chosen \cup {t} ELSE chosen
           step == [z \in (1 .. n) \X A |-> More(z[2], L[z[1]])]
           Runs(f) == f = [T \in SUBSET DOMAIN L |->
                              IF T = {} THEN base ELSE More(f[T \ {Max(T)}], L[Max(T)])]
           h == CHOOSE f : Runs(f)
<1>1. /\ L \in Seq(Waiting) /\ n \in Nat /\ DOMAIN L = 1 .. n
      /\ \A k \in 1 .. n : L[k] \in Waiting
    BY ByAttentionLists
<1>2. Waiting \subseteq Work /\ base \in A
    BY DEF Waiting, FocusTypes
<1>3. \A chosen \in A, t \in Work : More(chosen, t) \in A
    OBVIOUS
<1>4. Admitted = h[DOMAIN L]
    BY DEF Admitted, FoldLeft, MapThenFoldSet
<1> HIDE DEF L, n, base, A, h, More
<1>5. \E f : Runs(f)
  <2>1. Steps(step, 1 .. n, A)
      BY <1>1, <1>2, <1>3 DEF Steps
  <2>2. PICK f \in [SUBSET (1 .. n) -> A] : Accumulates(f, n, base, step)
    <3> HIDE DEF step
    <3> QED
        BY <1>1, <1>2, <2>1, FoldExists
  <2>3. ASSUME NEW T \in SUBSET (1 .. n), T # {}
        PROVE  f[T] = More(f[T \ {Max(T)}], L[Max(T)])
    <3>1. Max(T) \in 1 .. n /\ f[T \ {Max(T)}] \in A
        BY <1>1, <2>2, <2>3, MaxIsOne
    <3> QED
        BY <2>2, <2>3, <3>1 DEF Accumulates
  <2>4. Runs(f)
    <3> HIDE DEF step
    <3> QED
        BY <1>1, <2>2, <2>3 DEF Accumulates
  <2> QED
      BY <2>4
<1>6. Runs(h)
    BY <1>5 DEF h
<1>7. h[{}] = base /\ \A k \in 1 .. n : h[1 .. k] = More(h[1 .. k - 1], L[k])
  <2>1. h[{}] = base
      BY <1>6
  <2>2. ASSUME NEW k \in 1 .. n PROVE h[1 .. k] = More(h[1 .. k - 1], L[k])
    <3>1. /\ 1 .. k \in SUBSET DOMAIN L /\ 1 .. k # {}
          /\ Max(1 .. k) = k /\ (1 .. k) \ {k} = 1 .. k - 1
        BY <1>1, Segments
    <3>2. h[1 .. k] = More(h[(1 .. k) \ {Max(1 .. k)}], L[Max(1 .. k)])
        BY <1>6, <3>1
    <3> QED
        BY <3>1, <3>2
  <2> QED
      BY <2>1, <2>2
<1> DEFINE Good(S) == /\ S \subseteq Waiting \cup base /\ base \subseteq S
                      /\ UnitsOf(S) <= capacity
           G == {k \in Nat : k <= n => Good(h[1 .. k])}
<1>8. 0 \in G
    BY <1>1, <1>7, Segments DEF base
<1>9. ASSUME NEW k \in G PROVE k + 1 \in G
  <2> SUFFICES ASSUME k + 1 <= n PROVE Good(h[1 .. k + 1])
      OBVIOUS
  <2>1. k + 1 \in 1 .. n /\ k <= n /\ (k + 1) - 1 = k
      BY <1>1
  <2>2. Good(h[1 .. k]) /\ L[k + 1] \in Waiting
      BY <1>1, <2>1
  <2>3. h[1 .. k + 1] = More(h[1 .. k], L[k + 1])
    <3>1. h[1 .. k + 1] = More(h[1 .. (k + 1) - 1], L[k + 1])
        BY <1>7, <2>1
    <3> QED
        BY <2>1, <3>1
  <2> HIDE DEF G
  <2> QED
      BY <2>2, <2>3 DEF More
<1>10. n \in G
  <2>1. G = Nat
    <3>1. G \in SUBSET Nat
        OBVIOUS
    <3> HIDE DEF G
    <3> QED
        BY <1>8, <1>9, <3>1, Induction
  <2> HIDE DEF G
  <2> QED
      BY <1>1, <2>1
<1>11. Good(Admitted)
    BY <1>1, <1>4, <1>10
<1> QED
    BY <1>11 DEF base

(* What the admission of the running task rests on: its dependencies were    *)
(* completed when it was started, and nothing submits them again.            *)
HeldIsReady == held # Nobody => \A d \in After[held] : status[d] = "COMPLETED"

FocusInv == FocusTypes /\ SnapshotLoads /\ HeldIsReady

LEMMA NothingFits == ASSUME NEW n \in Nat PROVE UnitsOf({}) <= n
BY UnitsAreNatural, SumLaws, FS_EmptySet

LEMMA LongerIsTyped == ASSUME FocusTypes PROVE Longer \in [Work -> Nat]
<1>1. ASSUME NEW t \in Work PROVE Min({wait[t] + 1, WaitLimit[t]}) \in Nat
  <2>1. wait[t] + 1 \in Nat /\ WaitLimit[t] \in Nat
      BY FocusAssumption DEF FocusTypes
  <2>2. \E x \in {wait[t] + 1, WaitLimit[t]} : \A y \in {wait[t] + 1, WaitLimit[t]} : x <= y
      BY <2>1
  <2> QED
      BY <2>1, <2>2 DEF Min
<1> QED
    BY <1>1 DEF Longer

(* The best task to run, where there is one, waits. *)
LEMMA BestWaits ==
    ASSUME FocusTypes, BestOf(Longer) # Nobody
    PROVE  BestOf(Longer) \in Waiting
<1> DEFINE R == {z \in Work \X Work : Earlier(Longer, z[1], z[2])}
<1>1. Runnable \subseteq Waiting /\ Runnable # {}
    BY DEF Runnable, BestOf
<1>2. \E t \in Runnable : \A u \in Runnable \ {t} : Earlier(Longer, t, u)
  <2>1. Runnable \in SUBSET Work /\ IsFiniteSet(Runnable)
      BY WorkIsFinite DEF Runnable, Waiting
  <2>2. Orders(R, Runnable)
      BY <2>1, LongerIsTyped, EarlierOrders
  <2>3. PICK t \in Runnable : \A u \in Runnable \ {t} : <<t, u>> \in R
    <3> HIDE DEF R
    <3> QED
        BY <1>1, <2>1, <2>2, LeastExists
  <2>4. \A u \in Runnable \ {t} : Earlier(Longer, t, u)
      BY <2>3
  <2> QED
      BY <2>4
<1> QED
    BY <1>1, <1>2 DEF BestOf

LEMMA StartKeeps ==
    ASSUME FocusInv, NEW t \in Waiting, NEW yielding \in {Nobody, held},
           held = Nobody \/ yielding = held, StartTask(t, yielding)
    PROVE  FocusInv'
<1>1. /\ t \in Work /\ status[t] = "QUEUED" /\ t # held /\ t # Nobody
      /\ \A d \in After[t] : status[d] = "COMPLETED"
    BY WorkIsFinite DEF Waiting, FocusInv, SnapshotLoads
<1>2. \A u \in Work : status'[u] = IF u = t THEN "RUNNING"
                                  ELSE IF u = yielding THEN "QUEUED" ELSE status[u]
    BY DEF StartTask
<1>3. FocusTypes'
  <2>1. wait' \in [Work -> Nat]
      BY LongerIsTyped DEF StartTask, FocusInv
  <2> QED
      BY <1>1, <2>1 DEF StartTask, FocusInv, FocusTypes
<1>4. {u \in Work : status'[u] = "RUNNING"} = {t}
    BY <1>1, <1>2 DEF FocusInv, SnapshotLoads
<1>5. held' = t /\ heldFor' = Nobody /\ reserved' = {} /\ capacity' = capacity
    BY DEF StartTask
<1>6. SnapshotLoads'
  <2>1. UnitsOf({}) <= capacity
      BY NothingFits DEF FocusInv, FocusTypes
  <2> QED
      BY <1>1, <1>4, <1>5, <2>1 DEF SnapshotLoads
<1>7. HeldIsReady'
  <2>1. After[t] \subseteq Work
      BY <1>1, FocusAssumption
  <2>2. ASSUME NEW d \in After[t] PROVE status'[d] = "COMPLETED"
    <3>1. status[d] = "COMPLETED" /\ d \in Work
        BY <1>1, <2>1
    <3>2. d # t /\ d # Nobody
        BY <1>1, <3>1, WorkIsFinite
    <3>3. held # Nobody => status[held] = "RUNNING"
        BY DEF FocusInv, SnapshotLoads
    <3>4. d # yielding
        BY <3>1, <3>2, <3>3
    <3> QED
        BY <1>2, <3>1, <3>2, <3>4
  <2> QED
      BY <1>5, <2>2 DEF HeldIsReady
<1> QED
    BY <1>3, <1>6, <1>7 DEF FocusInv

LEMMA GoOnKeeps ==
    ASSUME FocusInv, NEW pending \in Work \cup {Nobody}, GoOn(pending),
           pending # Nobody => status[pending] = "QUEUED" /\ held # Nobody
    PROVE  FocusInv'
<1>1. FocusTypes'
    BY LongerIsTyped DEF GoOn, FocusInv, FocusTypes
<1>2. UnitsOf({}) <= capacity
    BY NothingFits DEF FocusInv, FocusTypes
<1>3. SnapshotLoads'
  <2>1. status' = status /\ held' = held /\ heldFor' = pending /\ reserved' = {}
        /\ capacity' = capacity
      BY DEF GoOn
  <2>2. UnitsOf(reserved') <= capacity'
      BY <1>2, <2>1
  <2> QED
      BY <2>1, <2>2 DEF FocusInv, SnapshotLoads
<1>4. HeldIsReady'
    BY DEF GoOn, FocusInv, HeldIsReady
<1> QED
    BY <1>1, <1>3, <1>4 DEF FocusInv

LEMMA AdmissionKeeps ==
    ASSUME FocusInv, ReconcileAdmission
    PROVE  FocusInv'
<1>1. /\ reserved' = Admitted /\ UNCHANGED <<status, held, heldFor, wait, capacity>>
      /\ UnitsOf({held} \ {Nobody}) <= capacity
    BY DEF ReconcileAdmission
<1>2. /\ Admitted \subseteq Waiting \cup ({held} \ {Nobody})
      /\ {held} \ {Nobody} \subseteq Admitted
      /\ UnitsOf(Admitted) <= capacity
    BY <1>1, AdmittedFits DEF FocusInv
<1>3. FocusTypes'
    BY <1>1, <1>2 DEF FocusInv, FocusTypes, Waiting
<1>4. \A t \in Admitted : status[t] \in {"QUEUED", "RUNNING"}
                           /\ \A d \in After[t] : status[d] = "COMPLETED"
    BY <1>2 DEF FocusInv, SnapshotLoads, HeldIsReady, Waiting
<1>5. held \in Admitted \cup {Nobody}
    BY <1>2
<1>6. UnitsOf(reserved') <= capacity'
    BY <1>1, <1>2
<1>7. SnapshotLoads'
    BY <1>1, <1>4, <1>5, <1>2 DEF FocusInv, SnapshotLoads
<1>8. HeldIsReady'
    BY <1>1 DEF FocusInv, HeldIsReady
<1> QED
    BY <1>3, <1>7, <1>8 DEF FocusInv

LEMMA SubmissionKeeps ==
    ASSUME FocusInv, NEW t \in Work, SubmitTask(t)
    PROVE  FocusInv'
<1>1. /\ status' = [status EXCEPT ![t] = "QUEUED"] /\ status[t] # "RUNNING"
      /\ status[t] = "COMPLETED" => t \in Endless
      /\ reserved' = {} /\ UNCHANGED <<held, heldFor, capacity>>
    BY DEF SubmitTask
<1>2. FocusTypes'
    BY DEF SubmitTask, FocusInv, FocusTypes
<1>3. \A u \in Work : status'[u] = IF u = t THEN "QUEUED" ELSE status[u]
    BY <1>1 DEF FocusInv, FocusTypes
<1>4. {u \in Work : status'[u] = "RUNNING"} = {u \in Work : status[u] = "RUNNING"}
    BY <1>1, <1>3
<1>5. SnapshotLoads'
  <2>1. UnitsOf({}) <= capacity
      BY NothingFits DEF FocusInv, FocusTypes
  <2>2. heldFor # Nobody => status'[heldFor] = "QUEUED"
      BY <1>3 DEF FocusInv, SnapshotLoads, FocusTypes
  <2> QED
      BY <1>1, <1>4, <2>1, <2>2 DEF FocusInv, SnapshotLoads
<1>6. HeldIsReady'
  <2>1. ASSUME held # Nobody, NEW d \in After[held] PROVE status'[d] = "COMPLETED"
    <3>1. held \in Work
        BY <2>1 DEF FocusInv, FocusTypes
    <3>2. d \in Work /\ d \notin Endless
        BY <3>1, FocusAssumption
    <3>3. status[d] = "COMPLETED"
        BY <2>1 DEF FocusInv, HeldIsReady
    <3> QED
        BY <1>1, <1>3, <3>2, <3>3
  <2> QED
      BY <1>1, <2>1 DEF HeldIsReady
<1> QED
    BY <1>2, <1>5, <1>6 DEF FocusInv

LEMMA EndKeeps ==
    ASSUME FocusInv, NEW final \in {"COMPLETED", "FAILED"}, EndActive(final)
    PROVE  FocusInv'
<1>1. /\ held \in Work /\ status' = [status EXCEPT ![held] = final]
      /\ held' = Nobody /\ heldFor' = Nobody /\ reserved' = {}
      /\ UNCHANGED <<wait, capacity>>
    BY DEF EndActive, FocusInv, FocusTypes
<1>2. FocusTypes'
    BY <1>1 DEF FocusInv, FocusTypes
<1>3. {u \in Work : status'[u] = "RUNNING"} = {}
  <2>1. \A u \in Work : status'[u] = IF u = held THEN final ELSE status[u]
      BY <1>1 DEF FocusInv, FocusTypes
  <2>2. \A u \in Work : u # held => status[u] # "RUNNING"
      BY DEF FocusInv, SnapshotLoads
  <2> QED
      BY <2>1, <2>2
<1>4. UnitsOf({}) <= capacity
    BY NothingFits DEF FocusInv, FocusTypes
<1>5. SnapshotLoads'
    BY <1>1, <1>3, <1>4 DEF SnapshotLoads
<1>6. HeldIsReady'
    BY <1>1 DEF HeldIsReady
<1> QED
    BY <1>2, <1>5, <1>6 DEF FocusInv

LEMMA FocusStepKeeps ==
    ASSUME FocusInv, [FocusNext]_focusVars
    PROVE  FocusInv'
<1>1. CASE UNCHANGED focusVars
    BY <1>1 DEF focusVars, FocusInv, FocusTypes, SnapshotLoads, HeldIsReady
<1>2. CASE \E t \in Work : SubmitTask(t)
    BY <1>2, SubmissionKeeps
<1>3. BestOf(Longer) # Nobody => BestOf(Longer) \in Waiting /\ BestOf(Longer) \in Work
    BY BestWaits DEF FocusInv, Waiting
<1>4. heldFor \in Work \cup {Nobody} /\ Nobody \in Work \cup {Nobody}
    BY DEF FocusInv, FocusTypes
<1>5. heldFor # Nobody => status[heldFor] = "QUEUED" /\ held # Nobody
    BY DEF FocusInv, SnapshotLoads
<1>6. CASE ReconcileFocus
  <2> DEFINE best == BestOf(Longer)
  <2>1. CASE held = Nobody /\ best # Nobody /\ StartTask(best, Nobody)
      BY <1>3, <2>1, StartKeeps
  <2>2. CASE GoOn(heldFor)
      BY <1>4, <1>5, <2>2, GoOnKeeps
  <2>3. CASE held # Nobody /\ best # Nobody /\ GoOn(best)
      BY <1>3, <2>3, GoOnKeeps DEF Waiting
  <2>4. CASE best # Nobody /\ StartTask(best, held)
      BY <1>3, <2>4, StartKeeps
  <2> QED
      BY <1>6, <2>1, <2>2, <2>3, <2>4 DEF ReconcileFocus
<1>7. CASE CheckpointActive
  <2> DEFINE best == BestOf(Longer)
  <2>1. CASE GoOn(heldFor)
      BY <1>4, <1>5, <2>1, GoOnKeeps
  <2>2. CASE GoOn(Nobody)
      BY <1>4, <2>2, GoOnKeeps
  <2>3. CASE best # Nobody /\ StartTask(best, held)
      BY <1>3, <2>3, StartKeeps
  <2> QED
      BY <1>7, <2>1, <2>2, <2>3 DEF CheckpointActive
<1>8. CASE \E final \in {"COMPLETED", "FAILED"} : EndActive(final)
    BY <1>8, EndKeeps
<1>9. CASE ReconcileAdmission
    BY <1>9, AdmissionKeeps
<1>10. CASE \E units \in Capacities : Configure(units)
  <2>1. PICK units \in Capacities : Configure(units)
      BY <1>10
  <2>2. /\ capacity' = units /\ units \in Nat /\ reserved' = {}
        /\ UNCHANGED <<status, held, heldFor, wait>>
      BY <2>1, FocusAssumption DEF Configure
  <2>3. UnitsOf({}) <= units
      BY <2>2, NothingFits
  <2> QED
      BY <2>2, <2>3 DEF FocusInv, FocusTypes, SnapshotLoads, HeldIsReady
<1> QED
    BY <1>1, <1>2, <1>6, <1>7, <1>8, <1>9, <1>10 DEF FocusNext

(* from_snapshot accepts every state the single-focus mode can save: one      *)
(* running task, a pending preemption that still waits, and an admission that *)
(* fits, holds the running task and has no open dependency.                   *)
THEOREM SavedFocusLoads == FocusSpec => []SnapshotLoads
<1>1. FocusInit => FocusInv
  <2> SUFFICES ASSUME FocusInit PROVE FocusInv
      OBVIOUS
  <2>1. FocusTypes
      BY FocusAssumption DEF FocusInit, FocusTypes
  <2>2. UnitsOf({}) <= capacity
      BY <2>1, NothingFits DEF FocusTypes
  <2>3. SnapshotLoads
      BY <2>2 DEF FocusInit, SnapshotLoads
  <2> QED
      BY <2>1, <2>3 DEF FocusInit, FocusInv, HeldIsReady
<1>2. FocusInv /\ [FocusNext]_focusVars => FocusInv'
    BY FocusStepKeeps
<1>3. FocusInv => SnapshotLoads
    BY DEF FocusInv
<1> QED
    BY <1>1, <1>2, <1>3, PTL DEF FocusSpec
-----------------------------------------------------------------------------
(* The units of the epoch planner, and its lists without some tasks. *)

NeedOf(c) == [t \in Tasks |-> Need[t][c]]

LEMMA NeedIsNatural ==
    /\ \A t \in Tasks, c \in Classes : Need[t][c] \in Nat
    /\ \A t \in Tasks, c \in Classes : NeedOf(c)[t] = Need[t][c]
BY AttentionConstants DEF NeedOf

LEMMA UnitsIsSum ==
    ASSUME NEW S \in SUBSET Tasks, IsFiniteSet(S), NEW c \in Classes
    PROVE  Units(S)[c] = Sum(NeedOf(c), S)
<1> DEFINE w == NeedOf(c)
           h == CHOOSE f : f = [T \in SUBSET S |->
                              IF T = {} THEN 0 ELSE Need[Some(T)][c] + f[T \ {Some(T)}]]
<1>1. Units(S)[c] = h[S]
    BY DEF Units, MapThenSumSet, MapThenFoldSet, Some
<1>2. \A x \in S : w[x] \in Nat /\ w[x] = Need[x][c]
    BY NeedIsNatural
<1>3. \A T \in SUBSET S : T # {} => w[Some(T)] = Need[Some(T)][c]
    BY <1>2, SomeIsOne
<1> HIDE DEF w
<1>4. PICK f : IsSum(f, w, S)
    BY <1>2, SumExists
<1>5. f = [T \in SUBSET S |-> IF T = {} THEN 0 ELSE Need[Some(T)][c] + f[T \ {Some(T)}]]
    BY <1>3, <1>4 DEF IsSum
<1>6. h = [T \in SUBSET S |-> IF T = {} THEN 0 ELSE Need[Some(T)][c] + h[T \ {Some(T)}]]
    BY <1>5
<1> HIDE DEF h
<1>7. h = [T \in SUBSET S |-> IF T = {} THEN 0 ELSE w[Some(T)] + h[T \ {Some(T)}]]
    BY <1>3, <1>6
<1>8. h[S] = Sum(w, S)
    BY <1>2, <1>7, AnyRecursionSums
<1> QED
    BY <1>1, <1>8 DEF w

LEMMA UnitsLaws ==
    ASSUME NEW S \in SUBSET Tasks, IsFiniteSet(S), NEW c \in Classes
    PROVE  /\ Units(S)[c] \in Nat
           /\ \A t \in Tasks \ S : Units(S \cup {t})[c] = Units(S)[c] + Need[t][c]
           /\ \A T \in SUBSET S : Units(S)[c] = Units(T)[c] + Units(S \ T)[c]
<1>1. \A t \in Tasks : NeedOf(c)[t] \in Nat /\ NeedOf(c)[t] = Need[t][c]
    BY NeedIsNatural
<1>2. Units(S)[c] \in Nat
    BY <1>1, UnitsIsSum, SumLaws
<1>3. ASSUME NEW t \in Tasks \ S PROVE Units(S \cup {t})[c] = Units(S)[c] + Need[t][c]
  <2>1. IsFiniteSet(S \cup {t}) /\ S \cup {t} \in SUBSET Tasks /\ (S \cup {t}) \ {t} = S
      BY FS_AddElement
  <2>2. Units(S \cup {t})[c] = Sum(NeedOf(c), S \cup {t})
      BY <2>1, UnitsIsSum
  <2>3. Units(S)[c] = Sum(NeedOf(c), S)
      BY UnitsIsSum
  <2>4. Sum(NeedOf(c), S \cup {t}) = NeedOf(c)[t] + Sum(NeedOf(c), (S \cup {t}) \ {t})
    <3>1. t \in S \cup {t} /\ \A x \in S \cup {t} : NeedOf(c)[x] \in Nat
        BY <1>1
    <3> QED
        BY <2>1, <3>1, SumLaws
  <2>5. Sum(NeedOf(c), (S \cup {t}) \ {t}) = Units(S)[c]
      BY <2>1, <2>3
  <2>6. Units(S \cup {t})[c] = Need[t][c] + Units(S)[c]
      BY <1>1, <2>2, <2>4, <2>5
  <2>7. Need[t][c] \in Nat
      BY NeedIsNatural
  <2> QED
      BY <1>2, <2>6, <2>7
<1>4. ASSUME NEW T \in SUBSET S PROVE Units(S)[c] = Units(T)[c] + Units(S \ T)[c]
  <2>1. IsFiniteSet(T) /\ IsFiniteSet(S \ T) /\ T \in SUBSET Tasks /\ S \ T \in SUBSET Tasks
      BY FS_Subset
  <2>2. /\ Units(S)[c] = Sum(NeedOf(c), S) /\ Units(T)[c] = Sum(NeedOf(c), T)
        /\ Units(S \ T)[c] = Sum(NeedOf(c), S \ T)
      BY <2>1, UnitsIsSum
  <2> QED
      BY <1>1, <2>2, SumGrows
<1> QED
    BY <1>2, <1>3, <1>4

LEMMA NumbersInOrder ==
    ASSUME NEW S \in SUBSET Nat, IsFiniteSet(S)
    PROVE  /\ InOrder(S, <) \in Seq(S) /\ Len(InOrder(S, <)) = Cardinality(S)
           /\ IsInjective(InOrder(S, <)) /\ ToSet(InOrder(S, <)) = S
           /\ \A j, k \in DOMAIN InOrder(S, <) : j < k => InOrder(S, <)[j] < InOrder(S, <)[k]
<1> DEFINE R == {z \in Nat \X Nat : z[1] < z[2]}
           left == InOrder(S, <)
<1>1. \A x, y \in S : <<x, y>> \in R <=> x < y
    OBVIOUS
<1>2. \A x \in S : Below(R, S, x) = {y \in S : y < x}
    BY <1>1 DEF Below
<1> HIDE DEF R
<1>3. Orders(R, S)
    BY <1>1 DEF Orders
<1>4. Lists(left, R, S)
  <2>1. ASSUME NEW k \in 1 .. Cardinality(S)
        PROVE  left[k] \in S /\ Cardinality(Below(R, S, left[k])) = k - 1
    <3>1. \E x \in S : Cardinality(Below(R, S, x)) = k - 1
        BY <1>3, RankExists
    <3>2. \E x \in S : Cardinality({y \in S : y < x}) = k - 1
        BY <1>2, <3>1
    <3>3. left[k] = CHOOSE x \in S : Cardinality({y \in S : y < x}) = k - 1
        BY DEF InOrder
    <3>4. left[k] \in S /\ Cardinality({y \in S : y < left[k]}) = k - 1
        BY <3>2, <3>3
    <3> QED
        BY <1>2, <3>4
  <2> DEFINE e(k) == CHOOSE x \in S : Cardinality({y \in S : y < x}) = k - 1
  <2>2. left = [k \in 1 .. Cardinality(S) |-> e(k)]
      BY Zenon DEF InOrder
  <2> HIDE DEF left, e
  <2> QED
      BY <2>1, <2>2 DEF Lists
<1> HIDE DEF left
<1>5. /\ left \in Seq(S) /\ Len(left) = Cardinality(S) /\ IsInjective(left) /\ ToSet(left) = S
      /\ \A j, k \in DOMAIN left : j < k => <<left[j], left[k]>> \in R
    BY <1>3, <1>4, ListProperties
<1>6. \A j \in DOMAIN left : left[j] \in S
    BY <1>5
<1>7. \A j, k \in DOMAIN left : j < k => left[j] < left[k]
    BY <1>1, <1>5, <1>6
<1> QED
    BY <1>5, <1>7 DEF left

LEMMA MinusProperties ==
    ASSUME NEW X, NEW s \in Seq(X), NEW out
    PROVE  /\ Minus(s, out) \in Seq(X)
           /\ ToSet(Minus(s, out)) = ToSet(s) \ out
           /\ IsInjective(s) => IsInjective(Minus(s, out))
<1> DEFINE S == {i \in DOMAIN s : s[i] \notin out}
           left == InOrder(S, <)
<1>1. IsFiniteSet(S) /\ S \subseteq Nat /\ S \subseteq DOMAIN s
  <2>1. DOMAIN s = 1 .. Len(s) /\ Len(s) \in Nat
      OBVIOUS
  <2>2. IsFiniteSet(1 .. Len(s)) /\ S \in SUBSET (1 .. Len(s))
      BY <2>1, FS_Interval
  <2> QED
      BY <2>1, <2>2, FS_Subset
<1>2. Minus(s, out) = [k \in DOMAIN left |-> s[left[k]]]
    BY DEF Minus
<1>3. \A x \in S : s[x] \in X /\ s[x] \notin out /\ x \in DOMAIN s
    OBVIOUS
<1>4. \A x \in DOMAIN s : s[x] \notin out => x \in S
    OBVIOUS
<1>5. left \in Seq(S) /\ IsInjective(left) /\ ToSet(left) = S
  <2> HIDE DEF S
  <2> QED
      BY <1>1, NumbersInOrder
<1> HIDE DEF S, left
<1>6. DOMAIN left = 1 .. Len(left) /\ Len(left) \in Nat /\ \A k \in DOMAIN left : left[k] \in S
    BY <1>5
<1>7. Minus(s, out) \in Seq(X)
    BY <1>2, <1>3, <1>6
<1>8. ToSet(Minus(s, out)) = ToSet(s) \ out
  <2>1. ASSUME NEW x \in ToSet(s) \ out PROVE x \in ToSet(Minus(s, out))
    <3>1. PICK i \in DOMAIN s : x = s[i]
        BY DEF ToSet
    <3>2. PICK k \in DOMAIN left : i = left[k]
        BY <1>4, <1>5, <3>1 DEF ToSet
    <3> QED
        BY <1>2, <3>1, <3>2 DEF ToSet
  <2>2. ASSUME NEW x \in ToSet(Minus(s, out)) PROVE x \in ToSet(s) \ out
    <3>1. PICK k \in DOMAIN left : x = s[left[k]]
        BY <1>2 DEF ToSet
    <3> QED
        BY <1>3, <1>6, <3>1 DEF ToSet
  <2> QED
      BY <2>1, <2>2
<1>9. IsInjective(s) => IsInjective(Minus(s, out))
    BY <1>2, <1>3, <1>5, <1>6 DEF IsInjective
<1> QED
    BY <1>7, <1>8, <1>9
-----------------------------------------------------------------------------
(* The victim selection.  First the order of the selections. *)

LEMMA FunctionsDiffer ==
    ASSUME NEW D, NEW V, NEW f \in [D -> V], NEW g \in [D -> V], f # g
    PROVE  \E x \in D : f[x] # g[x]
<1>1. (\A x \in D : f[x] = g[x]) => f = g
    OBVIOUS
<1> QED
    BY <1>1

LEMMA FirstDifference ==
    ASSUME NEW p \in Seq(Int), NEW q \in Seq(Int), Len(p) = Len(q), p # q
    PROVE  \E i \in 1 .. Len(p) : p[i] # q[i] /\ \A j \in 1 .. i - 1 : p[j] = q[j]
<1> DEFINE N == {i \in 1 .. Len(p) : p[i] # q[i]}
<1>1. N \in SUBSET Nat /\ N # {}
  <2> DEFINE D == 1 .. Len(p)
  <2>1. p \in [D -> Int] /\ q \in [D -> Int]
      OBVIOUS
  <2>2. \E i \in D : p[i] # q[i]
    <3> HIDE DEF D
    <3> QED
        BY <2>1, FunctionsDiffer, SMTT(30)
  <2>3. N # {}
      BY <2>2
  <2>4. N \in SUBSET Nat
      OBVIOUS
  <2> QED
      BY <2>3, <2>4
<1>2. PICK i \in N : \A j \in N : i <= j
    BY <1>1, LeastNumber
<1>3. i \in 1 .. Len(p) /\ p[i] # q[i]
    OBVIOUS
<1>4. ASSUME NEW j \in 1 .. i - 1 PROVE p[j] = q[j]
  <2>1. j \in 1 .. Len(p) /\ ~(i <= j)
      BY <1>3
  <2>2. j \notin N
      BY <1>2, <2>1
  <2> QED
      BY <2>1, <2>2
<1> QED
    BY <1>3, <1>4

LEMMA PreferredTotal ==
    ASSUME NEW p \in Seq(Int), NEW q \in Seq(Int)
    PROVE  p = q \/ Preferred(p, q) \/ Preferred(q, p)
<1>1. CASE Len(p) # Len(q)
    BY <1>1 DEF Preferred
<1>2. CASE Len(p) = Len(q) /\ p # q
  <2>1. PICK i \in 1 .. Len(p) : p[i] # q[i] /\ \A j \in 1 .. i - 1 : p[j] = q[j]
      BY <1>2, FirstDifference
  <2>2. p[i] \in Int /\ q[i] \in Int /\ i \in 1 .. Len(q)
      BY <1>2, <2>1
  <2>3. p[i] < q[i] \/ q[i] < p[i]
      BY <2>1, <2>2
  <2> QED
      BY <1>2, <2>1, <2>2, <2>3 DEF Preferred
<1> QED
    BY <1>1, <1>2

LEMMA PreferredIrreflexive == ASSUME NEW p \in Seq(Int) PROVE ~Preferred(p, p)
<1>1. \A i \in 1 .. Len(p) : ~(p[i] < p[i])
    OBVIOUS
<1>2. ~(Len(p) < Len(p))
    OBVIOUS
<1> QED
    BY <1>1, <1>2 DEF Preferred

LEMMA PreferredTransitive ==
    ASSUME NEW p \in Seq(Int), NEW q \in Seq(Int), NEW r \in Seq(Int),
           Preferred(p, q), Preferred(q, r)
    PROVE  Preferred(p, r)
<1>1. CASE Len(p) < Len(q) \/ Len(q) < Len(r)
  <2>1. Len(p) <= Len(q) /\ Len(q) <= Len(r)
      BY DEF Preferred
  <2> QED
      BY <1>1, <2>1 DEF Preferred
<1>2. CASE Len(p) = Len(q) /\ Len(q) = Len(r)
  <2>1. PICK i \in 1 .. Len(p) : p[i] < q[i] /\ \A k \in 1 .. i - 1 : p[k] = q[k]
      BY <1>2 DEF Preferred
  <2>2. PICK j \in 1 .. Len(p) : q[j] < r[j] /\ \A k \in 1 .. j - 1 : q[k] = r[k]
      BY <1>2 DEF Preferred
  <2>3. /\ p[i] \in Int /\ q[i] \in Int /\ r[i] \in Int
        /\ p[j] \in Int /\ q[j] \in Int /\ r[j] \in Int
    <3>1. p \in [1 .. Len(p) -> Int] /\ q \in [1 .. Len(q) -> Int] /\ r \in [1 .. Len(r) -> Int]
        OBVIOUS
    <3>2. i \in 1 .. Len(q) /\ i \in 1 .. Len(r) /\ j \in 1 .. Len(q) /\ j \in 1 .. Len(r)
        BY <1>2, <2>1, <2>2
    <3>3. p[i] \in Int /\ q[i] \in Int /\ r[i] \in Int
        BY <2>1, <3>1, <3>2
    <3>4. p[j] \in Int /\ q[j] \in Int /\ r[j] \in Int
        BY <2>2, <3>1, <3>2
    <3> QED
        BY <3>3, <3>4
  <2> DEFINE m == IF i <= j THEN i ELSE j
  <2>4. m \in 1 .. Len(p) /\ p[m] < r[m]
    <3>1. CASE i < j
      <4>1. m = i /\ i \in 1 .. j - 1
          BY <2>1, <2>2, <3>1
      <4> QED
          BY <2>1, <2>2, <4>1
    <3>2. CASE i = j
      <4>1. m = i
          BY <3>2
      <4> QED
          BY <2>1, <2>2, <2>3, <3>2, <4>1
    <3>3. CASE j < i
      <4>1. m = j /\ j \in 1 .. i - 1
          BY <2>1, <2>2, <3>3
      <4> QED
          BY <2>1, <2>2, <4>1
    <3> QED
        BY <2>1, <2>2, <3>1, <3>2, <3>3
  <2>5. \A k \in 1 .. m - 1 : p[k] = r[k]
    <3>1. \A k \in 1 .. m - 1 : k \in 1 .. i - 1 /\ k \in 1 .. j - 1
        BY <2>1, <2>2
    <3> QED
        BY <2>1, <2>2, <3>1
  <2> HIDE DEF m
  <2> QED
      BY <1>2, <2>4, <2>5 DEF Preferred
<1>3. Len(p) <= Len(q) /\ Len(q) <= Len(r)
    BY DEF Preferred
<1> QED
    BY <1>1, <1>2, <1>3

LEMMA BestIsBest ==
    ASSUME NEW S \in SUBSET Seq(Int), IsFiniteSet(S), S # {}
    PROVE  Best(S) \in S /\ \A q \in S : Best(S) = q \/ Preferred(Best(S), q)
<1> DEFINE R == {z \in S \X S : Preferred(z[1], z[2])}
<1>1. \A p, q \in S : <<p, q>> \in R <=> Preferred(p, q)
    OBVIOUS
<1> HIDE DEF R
<1>2. \A p \in S : ~Preferred(p, p)
    BY PreferredIrreflexive
<1>3. \A p, q \in S : p = q \/ Preferred(p, q) \/ Preferred(q, p)
    BY PreferredTotal
<1>4. \A p, q, r \in S : Preferred(p, q) /\ Preferred(q, r) => Preferred(p, r)
    BY PreferredTransitive
<1>5. Orders(R, S)
    BY <1>1, <1>2, <1>3, <1>4 DEF Orders
<1>6. PICK p \in S : \A q \in S \ {p} : <<p, q>> \in R
    BY <1>5, LeastExists
<1>7. \A q \in S : p = q \/ Preferred(p, q)
    BY <1>1, <1>6
<1> QED
    BY <1>7 DEF Best

(* A selection that ends in the same candidate as another keeps its place. *)
LEMMA PreferredAppend ==
    ASSUME NEW p \in Seq(Int), NEW q \in Seq(Int), NEW i \in Int, Preferred(p, q)
    PROVE  Preferred(Append(p, i), Append(q, i))
<1>1. /\ Len(Append(p, i)) = Len(p) + 1 /\ Len(Append(q, i)) = Len(q) + 1
      /\ \A k \in 1 .. Len(p) : Append(p, i)[k] = p[k]
      /\ \A k \in 1 .. Len(q) : Append(q, i)[k] = q[k]
    OBVIOUS
<1>2. CASE Len(p) < Len(q)
    BY <1>1, <1>2 DEF Preferred
<1>3. CASE Len(p) = Len(q)
  <2>1. PICK k \in 1 .. Len(p) : p[k] < q[k] /\ \A j \in 1 .. k - 1 : p[j] = q[j]
      BY <1>3 DEF Preferred
  <2>2. k \in 1 .. Len(p) + 1 /\ Append(p, i)[k] < Append(q, i)[k]
      BY <1>1, <1>3, <2>1
  <2>3. \A j \in 1 .. k - 1 : Append(p, i)[j] = Append(q, i)[j]
    <3>1. \A j \in 1 .. k - 1 : j \in 1 .. Len(p) /\ j \in 1 .. Len(q)
        BY <1>3, <2>1
    <3> QED
        BY <1>1, <2>1, <3>1
  <2> HIDE DEF Preferred
  <2> QED
      BY <1>1, <1>3, <2>2, <2>3 DEF Preferred
<1> QED
    BY <1>2, <1>3 DEF Preferred
-----------------------------------------------------------------------------
(* The dynamic program.  Selections are rising lists of the candidates'      *)
(* places in yielding order.                                                 *)

Rising(q, k) ==
    /\ q \in Seq(Int) /\ \A a \in DOMAIN q : q[a] \in 1 .. k
    /\ \A a, b \in DOMAIN q : a < b => q[a] < q[b]

UnitsAt(ordered, c) == [i \in DOMAIN ordered |-> ordered[i].units[c]]

(* What a selection covers, counted as the program counts it. *)
Coverage(target, ordered, q) ==
    [c \in DOMAIN target |-> Lesser(target[c], Sum(UnitsAt(ordered, c), ToSet(q)))]

Offered(target, ordered, n) ==
    /\ n \in Nat /\ DOMAIN ordered = 1 .. n
    /\ \A c \in DOMAIN target : /\ target[c] \in Nat
                                /\ \A i \in 1 .. n : ordered[i].units[c] \in Nat

Tables(target) ==
    {tab \in UNION {[W -> Seq(Int)] : W \in SUBSET [DOMAIN target -> Nat]} :
        IsFiniteSet(DOMAIN tab)}

Options(target, tab, candidate, i, w) ==
    {Append(tab[v], i) : v \in {x \in DOMAIN tab : Cover(target, x, candidate) = w}}
    \cup {tab[v] : v \in {w} \cap DOMAIN tab}

(* Candidates that release nothing of what is missing are skipped. *)
Skipped(target, candidate) == \A c \in DOMAIN target : candidate.units[c] = 0

LEMMA ImageIsFinite ==
    ASSUME NEW S, IsFiniteSet(S), NEW f
    PROVE  IsFiniteSet({f[x] : x \in S})
<1> DEFINE T == {f[x] : x \in S}
           g == [x \in S |-> f[x]]
<1>1. g \in [S -> T] /\ \A t \in T : \E s \in S : g[s] = t
    OBVIOUS
<1>2. g \in Surjection(S, T)
  <2> HIDE DEF g, T
  <2> QED
      BY <1>1, Fun_IsSurj
<1>3. IsFiniteSet(T)
  <2> HIDE DEF g, T
  <2> QED
      BY <1>2, FS_Surjection
<1> QED
    BY <1>3

LEMMA TableForm ==
    ASSUME NEW target, NEW tab
    PROVE  tab \in Tables(target) <=>
              /\ tab = [w \in DOMAIN tab |-> tab[w]]
              /\ DOMAIN tab \subseteq [DOMAIN target -> Nat] /\ IsFiniteSet(DOMAIN tab)
              /\ \A w \in DOMAIN tab : tab[w] \in Seq(Int)
<1>1. ASSUME tab \in Tables(target)
      PROVE  /\ tab = [w \in DOMAIN tab |-> tab[w]]
             /\ DOMAIN tab \subseteq [DOMAIN target -> Nat] /\ IsFiniteSet(DOMAIN tab)
             /\ \A w \in DOMAIN tab : tab[w] \in Seq(Int)
  <2>1. PICK W \in SUBSET [DOMAIN target -> Nat] : tab \in [W -> Seq(Int)]
      BY <1>1 DEF Tables
  <2> QED
      BY <1>1, <2>1 DEF Tables
<1>2. ASSUME /\ tab = [w \in DOMAIN tab |-> tab[w]]
             /\ DOMAIN tab \subseteq [DOMAIN target -> Nat] /\ IsFiniteSet(DOMAIN tab)
             /\ \A w \in DOMAIN tab : tab[w] \in Seq(Int)
      PROVE  tab \in Tables(target)
  <2>1. tab \in [DOMAIN tab -> Seq(Int)]
      BY <1>2
  <2> QED
      BY <1>2, <2>1 DEF Tables
<1> QED
    BY <1>1, <1>2

LEMMA CoverIsTyped ==
    ASSUME NEW target, NEW candidate,
           \A c \in DOMAIN target : target[c] \in Nat /\ candidate.units[c] \in Nat,
           NEW v \in [DOMAIN target -> Nat]
    PROVE  Cover(target, v, candidate) \in [DOMAIN target -> Nat]
BY DEF Cover, Lesser

(* A round of the program: each coverage keeps the best of its options. *)
LEMMA ExtendTakesBest ==
    ASSUME NEW target, NEW ordered, NEW n, Offered(target, ordered, n),
           NEW tab \in Tables(target), NEW i \in 1 .. n
    PROVE  LET new == Extend(target, tab, ordered[i], i)
           IN  /\ new \in Tables(target)
               /\ Skipped(target, ordered[i]) => new = tab
               /\ ~Skipped(target, ordered[i]) =>
                     /\ DOMAIN new = DOMAIN tab \cup
                                     {Cover(target, v, ordered[i]) : v \in DOMAIN tab}
                     /\ \A w \in DOMAIN new :
                           /\ new[w] \in Options(target, tab, ordered[i], i, w)
                           /\ \A q \in Options(target, tab, ordered[i], i, w) :
                                 new[w] = q \/ Preferred(new[w], q)
<1> DEFINE cand == ordered[i]
           new == Extend(target, tab, cand, i)
           Opt(w) == Options(target, tab, cand, i, w)
           D == DOMAIN tab \cup {Cover(target, v, cand) : v \in DOMAIN tab}
<1>1. /\ tab = [w \in DOMAIN tab |-> tab[w]]
      /\ DOMAIN tab \subseteq [DOMAIN target -> Nat] /\ IsFiniteSet(DOMAIN tab)
      /\ \A w \in DOMAIN tab : tab[w] \in Seq(Int)
    BY TableForm
<1>2. \A c \in DOMAIN target : target[c] \in Nat /\ cand.units[c] \in Nat
    BY DEF Offered
<1>3. i \in Int
    BY DEF Offered
<1>4. CASE Skipped(target, cand)
  <2>1. new = tab
      BY <1>4 DEF Extend, Skipped
  <2> QED
      BY <1>4, <2>1
<1>5. CASE ~Skipped(target, cand)
  <2>1. new = [w \in D |-> Best(Opt(w))]
      BY <1>5 DEF Extend, Skipped, Options
  <2>2. ASSUME NEW w \in D
        PROVE  Opt(w) \in SUBSET Seq(Int) /\ IsFiniteSet(Opt(w)) /\ Opt(w) # {}
    <3> DEFINE V == {x \in DOMAIN tab : Cover(target, x, cand) = w}
               f == [v \in DOMAIN tab |-> Append(tab[v], i)]
    <3>1. Opt(w) = {f[v] : v \in V} \cup {tab[v] : v \in {w} \cap DOMAIN tab}
        BY DEF Options
    <3>2. Opt(w) \in SUBSET Seq(Int)
      <4>1. ASSUME NEW v \in DOMAIN tab PROVE f[v] \in Seq(Int) /\ tab[v] \in Seq(Int)
        <5>1. tab[v] \in Seq(Int)
            BY <1>1
        <5> QED
            BY <1>3, <5>1
      <4>2. V \subseteq DOMAIN tab
          OBVIOUS
      <4> HIDE DEF f, V, Opt
      <4> QED
          BY <3>1, <4>1, <4>2
    <3>3. IsFiniteSet(V) /\ IsFiniteSet({w} \cap DOMAIN tab)
        BY <1>1, FS_Subset
    <3>4. IsFiniteSet(Opt(w))
      <4> HIDE DEF V, f
      <4>1. IsFiniteSet({f[v] : v \in V})
          BY <3>3, ImageIsFinite
      <4>2. IsFiniteSet({tab[v] : v \in {w} \cap DOMAIN tab})
          BY <3>3, ImageIsFinite
      <4> QED
          BY <3>1, <4>1, <4>2, FS_Union, ZenonT(30)
    <3>5. Opt(w) # {}
        BY DEF Options
    <3> QED
        BY <3>2, <3>4, <3>5
  <2>3. \A w \in D : /\ new[w] \in Opt(w)
                     /\ \A q \in Opt(w) : new[w] = q \/ Preferred(new[w], q)
    <3> SUFFICES ASSUME NEW w \in D
                 PROVE  /\ new[w] \in Opt(w)
                        /\ \A q \in Opt(w) : new[w] = q \/ Preferred(new[w], q)
        OBVIOUS
    <3>1. new[w] = Best(Opt(w))
      <4> HIDE DEF new, D, Opt
      <4> QED
          BY <2>1
    <3> HIDE DEF new, D, Opt
    <3> QED
        BY <2>2, <3>1, BestIsBest
  <2>4. DOMAIN new = D
    <3> HIDE DEF D, Opt, new
    <3> QED
        BY <2>1
  <2>5. new \in Tables(target)
    <3>1. D \subseteq [DOMAIN target -> Nat]
      <4>1. ASSUME NEW v \in DOMAIN tab PROVE Cover(target, v, cand) \in [DOMAIN target -> Nat]
        <5>1. v \in [DOMAIN target -> Nat]
            BY <1>1
        <5> HIDE DEF cand
        <5> QED
            BY <1>2, <5>1, CoverIsTyped
      <4> QED
          BY <1>1, <4>1
    <3>2. IsFiniteSet(D)
      <4> DEFINE g == [v \in DOMAIN tab |-> Cover(target, v, cand)]
      <4>1. D = DOMAIN tab \cup {g[v] : v \in DOMAIN tab}
          OBVIOUS
      <4> HIDE DEF g
      <4>2. IsFiniteSet(DOMAIN tab)
          BY <1>1
      <4>3. IsFiniteSet({g[v] : v \in DOMAIN tab})
          BY <4>2, ImageIsFinite
      <4>4. IsFiniteSet(DOMAIN tab \cup {g[v] : v \in DOMAIN tab})
          BY <4>2, <4>3, FS_Union
      <4> HIDE DEF D
      <4> QED
          BY <4>1, <4>4, Zenon
    <3>3. \A w \in D : new[w] \in Seq(Int)
        BY <2>2, <2>3
    <3> HIDE DEF D, Opt
    <3>4. new = [w \in DOMAIN new |-> new[w]]
      <4> HIDE DEF new
      <4> QED
          BY <2>1
    <3> HIDE DEF new
    <3> QED
        BY <2>4, <3>1, <3>2, <3>3, <3>4, TableForm
  <2> QED
      BY <1>5, <2>3, <2>4, <2>5
<1> QED
    BY <1>4, <1>5

(* After k rounds the table holds, for each coverage that a selection of the  *)
(* first k candidates reaches, the best of these selections.                  *)
GoodTable(tab, target, ordered, k) ==
    /\ tab \in Tables(target)
    /\ \A w \in DOMAIN tab : Rising(tab[w], k) /\ Coverage(target, ordered, tab[w]) = w
    /\ \A q \in Seq(Int) :
          Rising(q, k) => /\ Coverage(target, ordered, q) \in DOMAIN tab
                          /\ \/ tab[Coverage(target, ordered, q)] = q
                             \/ Preferred(tab[Coverage(target, ordered, q)], q)

LEMMA RisingAppend ==
    ASSUME NEW k \in Nat, NEW q, Rising(q, k)
    PROVE  Rising(Append(q, k + 1), k + 1) /\ Rising(q, k + 1)
<1>1. /\ q \in Seq(Int) /\ DOMAIN q = 1 .. Len(q) /\ Len(q) \in Nat
      /\ \A a \in DOMAIN q : q[a] \in 1 .. k
      /\ \A a, b \in DOMAIN q : a < b => q[a] < q[b]
    BY DEF Rising
<1> DEFINE r == Append(q, k + 1)
<1>2. /\ r \in Seq(Int) /\ DOMAIN r = 1 .. Len(q) + 1
      /\ \A a \in 1 .. Len(q) : r[a] = q[a]
      /\ r[Len(q) + 1] = k + 1
    BY <1>1
<1> HIDE DEF r
<1>3. \A a \in DOMAIN r : r[a] \in 1 .. k + 1
  <2> SUFFICES ASSUME NEW a \in DOMAIN r PROVE r[a] \in 1 .. k + 1
      OBVIOUS
  <2>1. CASE a = Len(q) + 1
      BY <1>2, <2>1
  <2>2. CASE a \in 1 .. Len(q)
    <3>1. r[a] \in 1 .. k
        BY <1>1, <1>2, <2>2
    <3> QED
        BY <3>1
  <2> QED
      BY <1>1, <1>2, <2>1, <2>2
<1>4. ASSUME NEW a \in DOMAIN r, NEW b \in DOMAIN r, a < b PROVE r[a] < r[b]
  <2>1. a \in 1 .. Len(q)
      BY <1>1, <1>2, <1>4
  <2>2. r[a] = q[a] /\ q[a] \in 1 .. k
      BY <1>1, <1>2, <2>1
  <2>3. CASE b = Len(q) + 1
      BY <1>2, <2>2, <2>3
  <2>4. CASE b \in 1 .. Len(q)
    <3>1. r[b] = q[b]
        BY <1>2, <2>4
    <3> QED
        BY <1>1, <1>4, <2>1, <2>2, <2>4, <3>1
  <2> QED
      BY <1>1, <1>2, <2>3, <2>4
<1>5. Rising(r, k + 1)
    BY <1>2, <1>3, <1>4 DEF Rising
<1>6. Rising(q, k + 1)
  <2>1. \A a \in DOMAIN q : q[a] \in 1 .. k + 1
    <3> SUFFICES ASSUME NEW a \in DOMAIN q PROVE q[a] \in 1 .. k + 1
        OBVIOUS
    <3>1. q[a] \in 1 .. k
        BY <1>1
    <3> QED
        BY <3>1
  <2> QED
      BY <1>1, <2>1 DEF Rising
<1> QED
    BY <1>5, <1>6 DEF r

LEMMA RisingSplit ==
    ASSUME NEW k \in Nat, NEW q \in Seq(Int), Rising(q, k + 1), ~Rising(q, k)
    PROVE  \E p \in Seq(Int) : Rising(p, k) /\ q = Append(p, k + 1)
<1> DEFINE n == Len(q)
           p == [a \in 1 .. n - 1 |-> q[a]]
<1>1. /\ n \in Nat /\ DOMAIN q = 1 .. n
      /\ \A a \in 1 .. n : q[a] \in 1 .. k + 1
      /\ \A a, b \in 1 .. n : a < b => q[a] < q[b]
    BY DEF Rising
<1> HIDE DEF n
<1>2. PICK a \in 1 .. n : q[a] \notin 1 .. k
    BY <1>1 DEF Rising
<1>3. q[a] = k + 1
  <2>1. q[a] \in 1 .. k + 1 /\ q[a] \notin 1 .. k
      BY <1>1, <1>2
  <2> QED
      BY <2>1
<1>4. a = n
  <2> SUFFICES ASSUME a < n PROVE FALSE
      BY <1>1
  <2>1. n \in 1 .. n
      BY <1>1
  <2>2. q[a] < q[n] /\ q[n] \in 1 .. k + 1
      BY <1>1, <2>1
  <2> QED
      BY <1>3, <2>2
<1>5. n \in 1 .. n /\ n - 1 \in Nat
    BY <1>1, <1>4
<1>6. p \in Seq(Int) /\ Len(p) = n - 1 /\ DOMAIN p = 1 .. n - 1
  <2>1. \A b \in 1 .. n - 1 : q[b] \in Int
      BY <1>1, <1>5
  <2> QED
      BY <1>5, <2>1, SMTT(30)
<1>7. \A b \in 1 .. n - 1 : p[b] = q[b] /\ b \in 1 .. n /\ b < n
    BY <1>5
<1> HIDE DEF p
<1>8. \A b \in 1 .. n - 1 : p[b] \in 1 .. k
  <2> SUFFICES ASSUME NEW b \in 1 .. n - 1 PROVE p[b] \in 1 .. k
      OBVIOUS
  <2>1. p[b] = q[b] /\ q[b] < q[n] /\ q[b] \in 1 .. k + 1
      BY <1>1, <1>5, <1>7
  <2> QED
      BY <1>3, <1>4, <2>1
<1>9. Rising(p, k)
  <2>1. ASSUME NEW b \in 1 .. n - 1, NEW c \in 1 .. n - 1, b < c PROVE p[b] < p[c]
    <3>1. p[b] = q[b] /\ p[c] = q[c] /\ b \in 1 .. n /\ c \in 1 .. n
        BY <1>7
    <3> QED
        BY <1>1, <2>1, <3>1
  <2> QED
      BY <1>6, <1>8, <2>1 DEF Rising
<1>10. q = Append(p, k + 1)
  <2> DEFINE r == Append(p, k + 1)
  <2>1. /\ r \in [1 .. n -> Int]
        /\ \A b \in 1 .. n - 1 : r[b] = p[b]
        /\ r[n] = k + 1
    <3>1. /\ r \in Seq(Int) /\ Len(r) = Len(p) + 1
          /\ \A b \in 1 .. Len(p) : r[b] = p[b]
          /\ r[Len(p) + 1] = k + 1
        BY <1>6
    <3>2. Len(p) + 1 = n
        BY <1>1, <1>6
    <3> HIDE DEF r
    <3>3. r \in [1 .. Len(r) -> Int]
        BY <3>1
    <3> QED
        BY <1>6, <3>1, <3>2, <3>3
  <2>2. q \in [1 .. n -> Int]
      BY <1>1
  <2>3. \A b \in 1 .. n : b \in 1 .. n - 1 \/ b = n
      BY <1>5
  <2> HIDE DEF r, n
  <2>4. \A b \in 1 .. n : r[b] = q[b]
      BY <1>3, <1>4, <1>7, <2>1, <2>3
  <2>5. q = r
    <3> DEFINE D == 1 .. n
    <3>1. q \in [D -> Int] /\ r \in [D -> Int] /\ \A b \in D : r[b] = q[b]
        BY <2>1, <2>2, <2>4
    <3> HIDE DEF D
    <3> QED
        BY <3>1, FunctionsDiffer
  <2> QED
      BY <2>5 DEF r
<1> QED
    BY <1>6, <1>9, <1>10

LEMMA LesserTwice ==
    ASSUME NEW t \in Nat, NEW s \in Nat, NEW u \in Nat
    PROVE  Lesser(t, u + s) = Lesser(t, Lesser(t, s) + u)
BY DEF Lesser

LEMMA CoverageAppend ==
    ASSUME NEW target, NEW ordered, NEW n, Offered(target, ordered, n),
           NEW k \in Nat, k + 1 <= n, NEW q, Rising(q, k)
    PROVE  /\ Coverage(target, ordered, Append(q, k + 1))
              = Cover(target, Coverage(target, ordered, q), ordered[k + 1])
           /\ Coverage(target, ordered, q) \in [DOMAIN target -> Nat]
           /\ \A c \in DOMAIN target :
                 /\ Sum(UnitsAt(ordered, c), ToSet(q)) \in Nat
                 /\ Sum(UnitsAt(ordered, c), ToSet(Append(q, k + 1)))
                    = ordered[k + 1].units[c] + Sum(UnitsAt(ordered, c), ToSet(q))
<1> DEFINE i == k + 1
           S == ToSet(q)
<1>1. i \in 1 .. n /\ n \in Nat /\ DOMAIN ordered = 1 .. n
    BY DEF Offered
<1>2. /\ q \in Seq(Int) /\ DOMAIN q = 1 .. Len(q) /\ Len(q) \in Nat
      /\ \A a \in DOMAIN q : q[a] \in 1 .. k
    BY DEF Rising
<1>3. S \in SUBSET (1 .. k) /\ S \in SUBSET (1 .. n) /\ i \notin S
  <2>1. S \subseteq 1 .. k
      BY <1>2 DEF ToSet
  <2> HIDE DEF S
  <2> QED
      BY <1>1, <2>1
<1>4. IsFiniteSet(S) /\ IsFiniteSet(S \cup {i})
  <2>1. IsFiniteSet(1 .. n)
      BY <1>1, FS_Interval
  <2> HIDE DEF S, i
  <2>2. IsFiniteSet(S)
      BY <1>3, <2>1, FS_Subset
  <2> QED
      BY <2>2, FS_AddElement
<1>5. ToSet(Append(q, i)) = S \cup {i}
  <2> DEFINE r == Append(q, i)
  <2>1. /\ DOMAIN r = 1 .. Len(q) + 1 /\ r[Len(q) + 1] = i
        /\ \A a \in 1 .. Len(q) : r[a] = q[a]
      BY <1>2
  <2> HIDE DEF r
  <2>2. \A a \in 1 .. Len(q) + 1 : a \in 1 .. Len(q) \/ a = Len(q) + 1
      BY <1>2
  <2>3. ToSet(r) \subseteq S \cup {i}
      BY <1>2, <2>1, <2>2 DEF ToSet
  <2>4. S \subseteq ToSet(r)
    <3>1. \A a \in DOMAIN q : a \in DOMAIN r /\ r[a] = q[a]
        BY <1>2, <2>1
    <3> QED
        BY <3>1 DEF ToSet
  <2>5. i \in ToSet(r)
    <3>1. Len(q) + 1 \in DOMAIN r
        BY <1>2, <2>1
    <3> QED
        BY <2>1, <3>1 DEF ToSet
  <2> QED
      BY <2>3, <2>4, <2>5 DEF r
<1> HIDE DEF S
<1>6. ASSUME NEW c \in DOMAIN target
      PROVE  /\ Sum(UnitsAt(ordered, c), S) \in Nat
             /\ Sum(UnitsAt(ordered, c), S \cup {i})
                = ordered[i].units[c] + Sum(UnitsAt(ordered, c), S)
             /\ ordered[i].units[c] \in Nat /\ target[c] \in Nat
  <2> DEFINE w == UnitsAt(ordered, c)
  <2>1. \A x \in 1 .. n : w[x] \in Nat /\ w[x] = ordered[x].units[c]
      BY <1>1 DEF UnitsAt, Offered
  <2> HIDE DEF w
  <2>2. \A x \in S \cup {i} : w[x] \in Nat
      BY <1>1, <1>3, <2>1
  <2>3. Sum(w, S) \in Nat
      BY <1>4, <2>2, SumLaws
  <2>4. Sum(w, S \cup {i}) = w[i] + Sum(w, (S \cup {i}) \ {i})
    <3> HIDE DEF i
    <3> QED
        BY <1>4, <2>2, SumLaws
  <2>5. (S \cup {i}) \ {i} = S
      BY <1>3
  <2>6. w[i] = ordered[i].units[c] /\ ordered[i].units[c] \in Nat /\ target[c] \in Nat
      BY <1>1, <2>1 DEF Offered
  <2> HIDE DEF i
  <2> QED
      BY <2>3, <2>4, <2>5, <2>6 DEF w
<1> HIDE DEF i
<1>7. ASSUME NEW c \in DOMAIN target
      PROVE  Lesser(target[c], Sum(UnitsAt(ordered, c), S \cup {i}))
             = Lesser(target[c], Lesser(target[c], Sum(UnitsAt(ordered, c), S))
                                 + ordered[i].units[c])
  <2> DEFINE t == target[c]
             s == Sum(UnitsAt(ordered, c), S)
             u == ordered[i].units[c]
  <2>1. t \in Nat /\ s \in Nat /\ u \in Nat /\ Sum(UnitsAt(ordered, c), S \cup {i}) = u + s
      BY <1>6
  <2> HIDE DEF t, s, u
  <2>2. Lesser(t, u + s) = Lesser(t, Lesser(t, s) + u)
      BY <2>1, LesserTwice
  <2>3. Lesser(t, Sum(UnitsAt(ordered, c), S \cup {i})) = Lesser(t, Lesser(t, s) + u)
      BY <2>1, <2>2
  <2> QED
      BY <2>3 DEF t, s, u
<1>8. Coverage(target, ordered, q) \in [DOMAIN target -> Nat]
    BY <1>6 DEF Coverage, Lesser, S
<1>9. Coverage(target, ordered, Append(q, i))
      = Cover(target, Coverage(target, ordered, q), ordered[i])
  <2>1. \A c \in DOMAIN target :
            Coverage(target, ordered, q)[c] = Lesser(target[c], Sum(UnitsAt(ordered, c), S))
      BY DEF Coverage, S
  <2> QED
      BY <1>5, <1>7, <2>1 DEF Coverage, Cover
<1> QED
    BY <1>5, <1>6, <1>8, <1>9 DEF i, S

AtLeast(p, q) == p = q \/ Preferred(p, q)

LEMMA AtLeastTransitive ==
    ASSUME NEW p \in Seq(Int), NEW q \in Seq(Int), NEW r \in Seq(Int),
           AtLeast(p, q), AtLeast(q, r)
    PROVE  AtLeast(p, r)
BY PreferredTransitive DEF AtLeast

LEMMA AppendIsLess ==
    ASSUME NEW p \in Seq(Int), NEW q \in Seq(Int), NEW i \in Int, AtLeast(p, q)
    PROVE  AtLeast(p, Append(q, i)) /\ AtLeast(Append(p, i), Append(q, i))
<1>1. Append(q, i) \in Seq(Int) /\ Len(Append(q, i)) = Len(q) + 1 /\ Len(q) < Len(q) + 1
    OBVIOUS
<1>2. Len(p) <= Len(q)
    BY DEF AtLeast, Preferred
<1>3. Preferred(p, Append(q, i))
  <2>1. Len(p) < Len(Append(q, i))
      BY <1>1, <1>2
  <2> QED
      BY <2>1 DEF Preferred
<1> QED
    BY <1>3, PreferredAppend DEF AtLeast

(* A round extends what the table covers by one candidate. *)
LEMMA ExtendIsGood ==
    ASSUME NEW target, NEW ordered, NEW n, Offered(target, ordered, n),
           NEW k \in Nat, k + 1 <= n, NEW tab, GoodTable(tab, target, ordered, k)
    PROVE  GoodTable(Extend(target, tab, ordered[k + 1], k + 1), target, ordered, k + 1)
<1> DEFINE i == k + 1
           cand == ordered[i]
           new == Extend(target, tab, cand, i)
           Cov(q) == Coverage(target, ordered, q)
           To(v) == Cover(target, v, cand)
<1>1. /\ tab \in Tables(target)
      /\ \A w \in DOMAIN tab : Rising(tab[w], k) /\ Cov(tab[w]) = w
      /\ \A q \in Seq(Int) : Rising(q, k) => Cov(q) \in DOMAIN tab /\ AtLeast(tab[Cov(q)], q)
    BY DEF GoodTable, AtLeast
<1>2. i \in 1 .. n /\ i \in Int /\ i = k + 1
    BY DEF Offered
<1>3. \A q : Rising(q, k) => /\ q \in Seq(Int) /\ Rising(Append(q, i), i) /\ Rising(q, i)
                             /\ Append(q, i) \in Seq(Int)
                             /\ Cov(Append(q, i)) = To(Cov(q))
                             /\ Cov(q) \in [DOMAIN target -> Nat]
  <2> SUFFICES ASSUME NEW q, Rising(q, k)
               PROVE  /\ q \in Seq(Int) /\ Rising(Append(q, i), i) /\ Rising(q, i)
                      /\ Append(q, i) \in Seq(Int)
                      /\ Cov(Append(q, i)) = To(Cov(q))
                      /\ Cov(q) \in [DOMAIN target -> Nat]
      OBVIOUS
  <2>1. Rising(Append(q, i), i) /\ Rising(q, i)
      BY RisingAppend
  <2>2. Cov(Append(q, i)) = To(Cov(q)) /\ Cov(q) \in [DOMAIN target -> Nat]
      BY CoverageAppend
  <2> QED
      BY <2>1, <2>2 DEF Rising
<1>4. \A q \in Seq(Int) : Rising(q, i) =>
          Rising(q, k) \/ \E p \in Seq(Int) : Rising(p, k) /\ q = Append(p, i)
    BY RisingSplit
<1>5. /\ new \in Tables(target)
      /\ Skipped(target, cand) => new = tab
      /\ ~Skipped(target, cand) =>
            /\ DOMAIN new = DOMAIN tab \cup {To(v) : v \in DOMAIN tab}
            /\ \A w \in DOMAIN new :
                  /\ new[w] \in Options(target, tab, cand, i, w)
                  /\ \A q \in Options(target, tab, cand, i, w) : AtLeast(new[w], q)
    BY <1>1, <1>2, ExtendTakesBest DEF AtLeast
<1>6. ASSUME Skipped(target, cand), NEW q, Rising(q, k) PROVE To(Cov(q)) = Cov(q)
  <2>1. \A c \in DOMAIN target :
            /\ Sum(UnitsAt(ordered, c), ToSet(q)) \in Nat /\ target[c] \in Nat
            /\ cand.units[c] = 0
      BY <1>2, <1>6, CoverageAppend DEF Skipped, Offered
  <2>2. \A c \in DOMAIN target : Lesser(target[c], Cov(q)[c] + cand.units[c]) = Cov(q)[c]
      BY <2>1 DEF Coverage, Lesser
  <2>3. Cov(q) = [c \in DOMAIN target |-> Cov(q)[c]]
      BY DEF Coverage
  <2> HIDE DEF Cov, cand
  <2> QED
      BY <2>2, <2>3 DEF Cover
<1>7. \A w \in DOMAIN tab : tab[w] \in Seq(Int)
    BY <1>1 DEF Rising
<1> HIDE DEF new, Cov, To, cand, i
<1>8. CASE Skipped(target, cand)
  <2>1. \A w \in DOMAIN tab : Rising(tab[w], i) /\ Cov(tab[w]) = w
      BY <1>1, <1>3
  <2>2. ASSUME NEW q \in Seq(Int), Rising(q, i)
        PROVE  Cov(q) \in DOMAIN tab /\ AtLeast(tab[Cov(q)], q)
    <3>1. CASE Rising(q, k)
        BY <1>1, <3>1
    <3>2. CASE \E p \in Seq(Int) : Rising(p, k) /\ q = Append(p, i)
      <4>1. PICK p \in Seq(Int) : Rising(p, k) /\ q = Append(p, i)
          BY <3>2
      <4>2. Cov(q) = Cov(p) /\ Cov(p) \in DOMAIN tab /\ AtLeast(tab[Cov(p)], p)
          BY <1>1, <1>3, <1>6, <1>8, <4>1
      <4>3. AtLeast(tab[Cov(p)], q)
          BY <1>2, <1>7, <4>1, <4>2, AppendIsLess
      <4> QED
          BY <4>2, <4>3
    <3> QED
        BY <1>4, <2>2, <3>1, <3>2
  <2>3. GoodTable(tab, target, ordered, i)
      BY <1>1, <2>1, <2>2 DEF GoodTable, AtLeast, Cov
  <2> QED
      BY <1>5, <1>8, <2>3 DEF new, cand, i
<1>9. CASE ~Skipped(target, cand)
  <2>1. ASSUME NEW w \in DOMAIN new PROVE Rising(new[w], i) /\ Cov(new[w]) = w
    <3>1. new[w] \in Options(target, tab, cand, i, w)
        BY <1>5, <1>9
    <3>2. CASE \E v \in DOMAIN tab : To(v) = w /\ new[w] = Append(tab[v], i)
      <4>1. PICK v \in DOMAIN tab : To(v) = w /\ new[w] = Append(tab[v], i)
          BY <3>2
      <4>2. Rising(tab[v], k) /\ Cov(tab[v]) = v
          BY <1>1
      <4> QED
          BY <1>3, <4>1, <4>2
    <3>3. CASE w \in DOMAIN tab /\ new[w] = tab[w]
        BY <1>1, <1>3, <3>3
    <3> QED
        BY <3>1, <3>2, <3>3 DEF Options, To
  <2>2. ASSUME NEW q \in Seq(Int), Rising(q, i)
        PROVE  Cov(q) \in DOMAIN new /\ AtLeast(new[Cov(q)], q)
    <3>1. CASE Rising(q, k)
      <4>1. Cov(q) \in DOMAIN tab /\ AtLeast(tab[Cov(q)], q)
          BY <1>1, <3>1
      <4>2. Cov(q) \in DOMAIN new
          BY <1>5, <1>9, <4>1
      <4>3. tab[Cov(q)] \in Options(target, tab, cand, i, Cov(q))
          BY <4>1 DEF Options
      <4>4. AtLeast(new[Cov(q)], tab[Cov(q)])
          BY <1>5, <1>9, <4>2, <4>3
      <4>5. new[Cov(q)] \in Seq(Int) /\ tab[Cov(q)] \in Seq(Int)
          BY <1>7, <2>1, <4>1, <4>2 DEF Rising
      <4> QED
          BY <4>1, <4>2, <4>4, <4>5, AtLeastTransitive
    <3>2. CASE \E p \in Seq(Int) : Rising(p, k) /\ q = Append(p, i)
      <4>1. PICK p \in Seq(Int) : Rising(p, k) /\ q = Append(p, i)
          BY <3>2
      <4>2. Cov(p) \in DOMAIN tab /\ AtLeast(tab[Cov(p)], p) /\ Cov(q) = To(Cov(p))
          BY <1>1, <1>3, <4>1
      <4>3. Cov(q) \in DOMAIN new
          BY <1>5, <1>9, <4>2
      <4> DEFINE o == Append(tab[Cov(p)], i)
      <4>4. o \in Options(target, tab, cand, i, Cov(q))
          BY <4>2 DEF Options, To
      <4>5. AtLeast(new[Cov(q)], o)
          BY <1>5, <1>9, <4>3, <4>4
      <4>6. AtLeast(o, q)
          BY <1>2, <1>7, <4>1, <4>2, AppendIsLess
      <4>7. new[Cov(q)] \in Seq(Int)
          BY <2>1, <4>3 DEF Rising
      <4>8. o \in Seq(Int)
          BY <1>1, <1>3, <4>2
      <4> HIDE DEF o
      <4>9. AtLeast(new[Cov(q)], q)
          BY <4>5, <4>6, <4>7, <4>8, AtLeastTransitive
      <4> QED
          BY <4>3, <4>9
    <3> QED
        BY <1>4, <2>2, <3>1, <3>2
  <2>3. GoodTable(new, target, ordered, i)
      BY <1>5, <2>1, <2>2 DEF GoodTable, AtLeast, Cov
  <2> QED
      BY <2>3 DEF new, cand, i
<1> QED
    BY <1>8, <1>9
-----------------------------------------------------------------------------
(* What is offered to the selection: a finite set of candidates of different *)
(* places, and natural numbers of units missing and released.                *)
WellOffered(deficits, candidates) ==
    /\ IsFiniteSet(candidates)
    /\ \A a \in candidates : a.priority \in Int /\ a.order \in Int /\ a.checkpoint \in BOOLEAN
    /\ \A a, b \in candidates : a.order = b.order => a = b
    /\ \A c \in DOMAIN deficits : /\ deficits[c] \in Nat
                                  /\ \A a \in candidates : a.units[c] \in Nat

YieldOrder(candidates) == {z \in candidates \X candidates : YieldsBefore(z[1], z[2])}

LEMMA YieldsOrders ==
    ASSUME NEW deficits, NEW candidates, WellOffered(deficits, candidates)
    PROVE  /\ Orders(YieldOrder(candidates), candidates)
           /\ \A a, b \in candidates : <<a, b>> \in YieldOrder(candidates) <=> YieldsBefore(a, b)
<1>1. \A a, b \in candidates : <<a, b>> \in YieldOrder(candidates) <=> YieldsBefore(a, b)
    BY DEF YieldOrder
<1>2. \A a \in candidates : a.priority \in Int /\ a.order \in Int /\ a.checkpoint \in BOOLEAN
    BY DEF WellOffered
<1>3. \A a, b \in candidates : a.order = b.order => a = b
    BY DEF WellOffered
<1>4. \A a \in candidates : ~YieldsBefore(a, a)
    BY <1>2 DEF YieldsBefore
<1>5. \A a, b \in candidates : a = b \/ YieldsBefore(a, b) \/ YieldsBefore(b, a)
    BY <1>2, <1>3 DEF YieldsBefore
<1>6. \A a, b, c \in candidates : YieldsBefore(a, b) /\ YieldsBefore(b, c) => YieldsBefore(a, c)
    BY <1>2 DEF YieldsBefore
<1> QED
    BY <1>1, <1>4, <1>5, <1>6 DEF Orders

LEMMA OrderedListsCandidates ==
    ASSUME NEW deficits, NEW candidates, WellOffered(deficits, candidates)
    PROVE  /\ Ordered(candidates) \in Seq(candidates)
           /\ Len(Ordered(candidates)) = Cardinality(candidates)
           /\ Cardinality(candidates) \in Nat
           /\ IsInjective(Ordered(candidates)) /\ ToSet(Ordered(candidates)) = candidates
           /\ \A j, k \in DOMAIN Ordered(candidates) :
                 j < k => YieldsBefore(Ordered(candidates)[j], Ordered(candidates)[k])
<1> DEFINE C == candidates
           R == YieldOrder(C)
           L == Ordered(C)
           e(k) == CHOOSE x \in C : Cardinality({y \in C : YieldsBefore(y, x)}) = k - 1
<1>1. /\ Orders(R, C) /\ IsFiniteSet(C)
      /\ \A a, b \in C : <<a, b>> \in R <=> YieldsBefore(a, b)
    BY YieldsOrders DEF WellOffered
<1>2. \A x \in C : Below(R, C, x) = {y \in C : YieldsBefore(y, x)}
    BY <1>1 DEF Below
<1>3. L = [k \in 1 .. Cardinality(C) |-> e(k)]
    BY Zenon DEF Ordered, InOrder
<1> HIDE DEF R, L
<1>4. ASSUME NEW k \in 1 .. Cardinality(C)
      PROVE  L[k] \in C /\ Cardinality(Below(R, C, L[k])) = k - 1
  <2>1. \E x \in C : Cardinality(Below(R, C, x)) = k - 1
      BY <1>1, RankExists
  <2>2. \E x \in C : Cardinality({y \in C : YieldsBefore(y, x)}) = k - 1
      BY <1>2, <2>1
  <2>3. L[k] \in C /\ Cardinality({y \in C : YieldsBefore(y, L[k])}) = k - 1
    <3>1. L[k] = e(k)
        BY <1>3
    <3> QED
        BY <2>2, <3>1
  <2> QED
      BY <1>2, <2>3
<1>5. Lists(L, R, C)
  <2> HIDE DEF e, C
  <2> QED
      BY <1>3, <1>4 DEF Lists
<1>6. /\ L \in Seq(C) /\ Len(L) = Cardinality(C) /\ Cardinality(C) \in Nat
      /\ IsInjective(L) /\ ToSet(L) = C
      /\ \A j, k \in DOMAIN L : j < k => <<L[j], L[k]>> \in R
    BY <1>1, <1>5, ListProperties
<1>7. \A j, k \in DOMAIN L : j < k => YieldsBefore(L[j], L[k])
  <2>1. \A j \in DOMAIN L : L[j] \in C
      BY <1>6
  <2> QED
      BY <1>1, <1>6, <2>1
<1> QED
    BY <1>6, <1>7 DEF L

(* The table before the first round. *)
LEMMA FirstTableIsGood ==
    ASSUME NEW target, NEW ordered, NEW n, Offered(target, ordered, n)
    PROVE  GoodTable([w \in {[c \in DOMAIN target |-> 0]} |-> <<>>], target, ordered, 0)
<1> DEFINE nothing == [c \in DOMAIN target |-> 0]
           tab == [w \in {nothing} |-> <<>>]
<1>1. DOMAIN tab = {nothing} /\ tab[nothing] = <<>> /\ nothing \in [DOMAIN target -> Nat]
    OBVIOUS
<1>2. Rising(<<>>, 0) /\ <<>> \in Seq(Int)
    BY DEF Rising
<1>3. ASSUME NEW q \in Seq(Int), Rising(q, 0) PROVE q = <<>>
  <2>1. DOMAIN q = 1 .. Len(q) /\ Len(q) \in Nat /\ \A a \in DOMAIN q : q[a] \in 1 .. 0
      BY <1>3 DEF Rising
  <2>2. Len(q) = 0
      BY <2>1
  <2> QED
      BY <2>2
<1>4. Coverage(target, ordered, <<>>) = nothing
  <2>1. ToSet(<<>>) = {}
      BY DEF ToSet
  <2>2. ASSUME NEW c \in DOMAIN target PROVE Sum(UnitsAt(ordered, c), {}) = 0
    <3>1. IsFiniteSet({}) /\ \A x \in {} : UnitsAt(ordered, c)[x] \in Nat
        BY FS_EmptySet
    <3> QED
        BY <3>1, SumLaws
  <2>3. \A c \in DOMAIN target : Lesser(target[c], 0) = 0
      BY DEF Lesser, Offered
  <2> QED
      BY <2>1, <2>2, <2>3 DEF Coverage
<1>5. tab \in Tables(target)
  <2>1. IsFiniteSet({nothing})
      BY FS_Singleton
  <2>2. tab \in [{nothing} -> Seq(Int)]
      BY <1>2
  <2> HIDE DEF tab, nothing
  <2>3. {nothing} \in SUBSET [DOMAIN target -> Nat]
      BY <1>1
  <2> QED
      BY <1>1, <2>1, <2>2, <2>3, Zenon DEF Tables
<1> HIDE DEF tab, nothing
<1>6. GoodTable(tab, target, ordered, 0)
  <2> DEFINE none == <<>>
  <2>1. /\ DOMAIN tab = {nothing} /\ tab[nothing] = none
        /\ Rising(none, 0) /\ none \in Seq(Int)
        /\ \A q \in Seq(Int) : Rising(q, 0) => q = none
        /\ Coverage(target, ordered, none) = nothing
      BY <1>1, <1>2, <1>3, <1>4
  <2> HIDE DEF none
  <2> QED
      BY <1>5, <2>1 DEF GoodTable
<1> QED
    BY <1>6 DEF tab, nothing

Target(deficits) == [c \in RequiredClasses(deficits) |-> deficits[c]]

Chosen(ordered, q) == [k \in DOMAIN q |-> ordered[q[k]]]

LEMMA TargetIsOffered ==
    ASSUME NEW deficits, NEW candidates, WellOffered(deficits, candidates)
    PROVE  /\ Offered(Target(deficits), Ordered(candidates), Cardinality(candidates))
           /\ DOMAIN Target(deficits) \subseteq DOMAIN deficits
           /\ \A c \in DOMAIN Target(deficits) : Target(deficits)[c] = deficits[c] /\ deficits[c] > 0
           /\ \A c \in DOMAIN deficits : deficits[c] > 0 => c \in DOMAIN Target(deficits)
<1> DEFINE L == Ordered(candidates)
           n == Cardinality(candidates)
<1>1. L \in Seq(candidates) /\ Len(L) = n /\ n \in Nat
    BY OrderedListsCandidates
<1> HIDE DEF L, n
<1>2. DOMAIN L = 1 .. n /\ \A i \in 1 .. n : L[i] \in candidates
    BY <1>1
<1>3. /\ DOMAIN Target(deficits) \subseteq DOMAIN deficits
      /\ \A c \in DOMAIN Target(deficits) : Target(deficits)[c] = deficits[c] /\ deficits[c] > 0
      /\ \A c \in DOMAIN deficits : deficits[c] > 0 => c \in DOMAIN Target(deficits)
    BY DEF Target, RequiredClasses
<1>4. \A c \in DOMAIN deficits : deficits[c] \in Nat /\ \A a \in candidates : a.units[c] \in Nat
    BY DEF WellOffered
<1>5. Offered(Target(deficits), L, n)
    BY <1>1, <1>2, <1>3, <1>4 DEF Offered
<1> QED
    BY <1>3, <1>5 DEF L, n

(* The rounds leave one table, from which the selection is read. *)
LEMMA SelectionTable ==
    ASSUME NEW deficits, NEW candidates, WellOffered(deficits, candidates)
    PROVE  \E tab :
              /\ GoodTable(tab, Target(deficits), Ordered(candidates), Cardinality(candidates))
              /\ SelectMinimumVictims(deficits, candidates)
                 = {Chosen(Ordered(candidates), t[Target(deficits)]) :
                       t \in {x \in {tab} : Target(deficits) \in DOMAIN x}}
<1> DEFINE L == Ordered(candidates)
           n == Cardinality(candidates)
           target == Target(deficits)
           first == [w \in {[c \in DOMAIN target |-> 0]} |-> <<>>]
           base == {first}
           s == [i \in 1 .. Len(L) |-> i]
           A == SUBSET Tables(target)
           More(Tab, i) == {Extend(target, tab, L[i], i) : tab \in Tab}
           step == [z \in (1 .. n) \X A |-> More(z[2], z[1])]
           Runs(f) == f = [T \in SUBSET DOMAIN s |->
                              IF T = {} THEN base ELSE More(f[T \ {Max(T)}], s[Max(T)])]
           h == CHOOSE f : Runs(f)
           Read(tables) == {Chosen(L, t[target]) : t \in {x \in tables : target \in DOMAIN x}}
<1>1. Offered(target, L, n)
    BY TargetIsOffered
<1>2. n \in Nat /\ Len(L) = n
    BY OrderedListsCandidates
<1>3. SelectMinimumVictims(deficits, candidates) = Read(h[DOMAIN s])
    BY DEF SelectMinimumVictims, Target, FoldLeft, MapThenFoldSet, Chosen
<1>4. GoodTable(first, target, L, 0)
    BY <1>1, FirstTableIsGood
<1>5. first \in Tables(target)
    BY <1>4 DEF GoodTable
<1> HIDE DEF L, n, target, first
<1>6. base \in A
    BY <1>5
<1>7. \A Tab \in A, i \in 1 .. n : More(Tab, i) \in A
  <2>1. \A tab \in Tables(target), i \in 1 .. n : Extend(target, tab, L[i], i) \in Tables(target)
      BY <1>1, ExtendTakesBest
  <2> QED
      BY <2>1
<1>8. DOMAIN s = 1 .. n /\ \A i \in 1 .. n : s[i] = i
    BY <1>2
<1>9. \A tab : \A i : More({tab}, i) = {Extend(target, tab, L[i], i)}
    OBVIOUS
<1> HIDE DEF s, base, A, h, More
<1>10. \E f : Runs(f)
  <2>1. Steps(step, 1 .. n, A)
      BY <1>7 DEF Steps
  <2>2. PICK f \in [SUBSET (1 .. n) -> A] : Accumulates(f, n, base, step)
    <3> HIDE DEF step
    <3> QED
        BY <1>2, <1>6, <2>1, FoldExists
  <2>3. ASSUME NEW T \in SUBSET (1 .. n), T # {}
        PROVE  f[T] = More(f[T \ {Max(T)}], s[Max(T)])
    <3>1. Max(T) \in 1 .. n /\ f[T \ {Max(T)}] \in A
        BY <1>2, <2>2, <2>3, MaxIsOne
    <3> QED
        BY <1>8, <2>2, <2>3, <3>1 DEF Accumulates
  <2>4. Runs(f)
    <3> HIDE DEF step
    <3> QED
        BY <1>8, <2>2, <2>3 DEF Accumulates
  <2> QED
      BY <2>4
<1>11. Runs(h)
    BY <1>10 DEF h
<1>12. h[{}] = base
    BY <1>11
<1>13. ASSUME NEW k \in 1 .. n PROVE h[1 .. k] = More(h[1 .. k - 1], k)
  <2>1. /\ 1 .. k \in SUBSET DOMAIN s /\ 1 .. k # {}
        /\ Max(1 .. k) = k /\ (1 .. k) \ {k} = 1 .. k - 1
      BY <1>2, <1>8, Segments
  <2>2. h[1 .. k] = More(h[(1 .. k) \ {Max(1 .. k)}], s[Max(1 .. k)])
      BY <1>11, <2>1
  <2> QED
      BY <1>8, <2>1, <2>2
<1> DEFINE Good(tables, k) == \E tab : tables = {tab} /\ GoodTable(tab, target, L, k)
           G == {k \in Nat : k <= n => Good(h[1 .. k], k)}
<1>14. 0 \in G
    BY <1>2, <1>4, <1>12, Segments DEF base
<1>15. ASSUME NEW k \in G PROVE k + 1 \in G
  <2> SUFFICES ASSUME k + 1 <= n PROVE Good(h[1 .. k + 1], k + 1)
      OBVIOUS
  <2>1. k \in Nat /\ k + 1 \in 1 .. n /\ k <= n /\ (k + 1) - 1 = k
      BY <1>2
  <2>2. PICK tab : h[1 .. k] = {tab} /\ GoodTable(tab, target, L, k)
      BY <2>1
  <2>3. h[1 .. k + 1] = More(h[1 .. (k + 1) - 1], k + 1)
      BY <1>13, <2>1
  <2>4. h[1 .. k + 1] = More({tab}, k + 1)
      BY <2>1, <2>2, <2>3
  <2>5. h[1 .. k + 1] = {Extend(target, tab, L[k + 1], k + 1)}
      BY <1>9, <2>4
  <2>6. GoodTable(Extend(target, tab, L[k + 1], k + 1), target, L, k + 1)
      BY <1>1, <2>1, <2>2, ExtendIsGood
  <2> QED
      BY <2>5, <2>6
<1>16. n \in G
  <2>1. G \in SUBSET Nat
      OBVIOUS
  <2> HIDE DEF G
  <2>2. G = Nat
      BY <1>14, <1>15, <2>1, Induction
  <2> QED
      BY <1>2, <2>2
<1>17. PICK tab : h[DOMAIN s] = {tab} /\ GoodTable(tab, target, L, n)
    BY <1>2, <1>8, <1>16
<1> QED
    BY <1>3, <1>17 DEF L, n, target
-----------------------------------------------------------------------------
(* Sums over the places of a list and over what stands there. *)

LEMMA SumReindexed ==
    ASSUME NEW S, IsFiniteSet(S), NEW f, \A x, y \in S : f[x] = f[y] => x = y,
           NEW w, NEW u, \A x \in S : w[x] \in Nat /\ u[f[x]] = w[x]
    PROVE  Sum(w, S) = Sum(u, {f[x] : x \in S})
<1> DEFINE Img(T) == {f[x] : x \in T}
           G == {T \in SUBSET S : Sum(w, T) = Sum(u, Img(T))}
<1>1. \A T \in SUBSET S : IsFiniteSet(T) /\ IsFiniteSet(Img(T))
    BY FS_Subset, ImageIsFinite
<1>2. \A T \in SUBSET S : \A y \in Img(T) : u[y] \in Nat
    OBVIOUS
<1>3. {} \in G
  <2>1. Img({}) = {}
      OBVIOUS
  <2>2. Sum(w, {}) = 0 /\ Sum(u, {}) = 0
    <3>1. IsFiniteSet({}) /\ (\A x \in {} : w[x] \in Nat) /\ \A x \in {} : u[x] \in Nat
        BY FS_EmptySet
    <3> QED
        BY <3>1, SumLaws
  <2> QED
      BY <2>1, <2>2
<1>4. ASSUME NEW T \in SUBSET S, T # {}, \A x \in T : T \ {x} \in G PROVE T \in G
  <2>1. PICK x \in T : TRUE
      BY <1>4
  <2>2. Sum(w, T \ {x}) = Sum(u, Img(T \ {x}))
      BY <1>4
  <2>3. Img(T \ {x}) = Img(T) \ {f[x]} /\ f[x] \in Img(T) /\ u[f[x]] = w[x]
      OBVIOUS
  <2> HIDE DEF Img
  <2>4. Sum(w, T) = w[x] + Sum(w, T \ {x})
    <3>1. \A y \in T : w[y] \in Nat
        OBVIOUS
    <3> QED
        BY <1>1, <3>1, SumLaws
  <2>5. Sum(u, Img(T)) = u[f[x]] + Sum(u, Img(T) \ {f[x]})
    <3>1. \A y \in Img(T) : u[y] \in Nat
        BY <1>2
    <3> QED
        BY <1>1, <2>3, <3>1, SumLaws
  <2> QED
      BY <2>2, <2>3, <2>4, <2>5
<1>5. G \in SUBSET SUBSET S
    OBVIOUS
<1>6. G = SUBSET S
  <2> HIDE DEF G
  <2> QED
      BY <1>3, <1>4, <1>5, SubsetInduction
<1> QED
    BY <1>6

Released(c, V) == MapThenSumSet(LAMBDA v : v.units[c], V)

LEMMA ReleasedIsSum ==
    ASSUME NEW S, IsFiniteSet(S), NEW c, NEW u,
           \A v \in S : v.units[c] \in Nat /\ u[v] = v.units[c]
    PROVE  Released(c, S) = Sum(u, S)
<1> DEFINE h == CHOOSE f : f = [T \in SUBSET S |->
                              IF T = {} THEN 0 ELSE Some(T).units[c] + f[T \ {Some(T)}]]
<1>1. Released(c, S) = h[S]
    BY DEF Released, MapThenSumSet, MapThenFoldSet, Some
<1>2. \A x \in S : u[x] \in Nat
    OBVIOUS
<1>3. \A T \in SUBSET S : T # {} => u[Some(T)] = Some(T).units[c]
    BY SomeIsOne
<1>4. PICK f : IsSum(f, u, S)
    BY <1>2, SumExists
<1>5. f = [T \in SUBSET S |-> IF T = {} THEN 0 ELSE Some(T).units[c] + f[T \ {Some(T)}]]
    BY <1>3, <1>4 DEF IsSum
<1>6. h = [T \in SUBSET S |-> IF T = {} THEN 0 ELSE Some(T).units[c] + h[T \ {Some(T)}]]
    BY <1>5
<1> HIDE DEF h
<1>7. h = [T \in SUBSET S |-> IF T = {} THEN 0 ELSE u[Some(T)] + h[T \ {Some(T)}]]
    BY <1>3, <1>6
<1>8. h[S] = Sum(u, S)
    BY <1>2, <1>7, AnyRecursionSums
<1> QED
    BY <1>1, <1>8

LEMMA RisingIsListed ==
    ASSUME NEW n \in Nat, NEW q, Rising(q, n)
    PROVE  /\ q \in Seq(Int) /\ DOMAIN q = 1 .. Len(q) /\ Len(q) \in Nat
           /\ \A a, b \in DOMAIN q : q[a] = q[b] => a = b
           /\ ToSet(q) \in SUBSET (1 .. n)
<1>1. /\ q \in Seq(Int) /\ DOMAIN q = 1 .. Len(q) /\ Len(q) \in Nat
      /\ \A a \in DOMAIN q : q[a] \in 1 .. n
      /\ \A a, b \in DOMAIN q : a < b => q[a] < q[b]
    BY DEF Rising
<1>2. ToSet(q) \in SUBSET (1 .. n)
    BY <1>1 DEF ToSet
<1>3. ASSUME NEW a \in DOMAIN q, NEW b \in DOMAIN q, q[a] = q[b], a # b PROVE FALSE
  <2>1. a \in Nat /\ b \in Nat /\ q[a] \in Nat /\ q[b] \in Nat
      BY <1>1
  <2>2. a < b \/ b < a
      BY <1>3, <2>1
  <2>3. q[a] < q[b] \/ q[b] < q[a]
      BY <1>1, <2>2
  <2> QED
      BY <1>3, <2>1, <2>3
<1> QED
    BY <1>1, <1>2, <1>3

(* A rising list of places selects as many candidates, and covers the        *)
(* target when they release every missing unit.                              *)
LEMMA SelectionReleases ==
    ASSUME NEW deficits, NEW candidates, WellOffered(deficits, candidates),
           NEW q, Rising(q, Cardinality(candidates))
    PROVE  LET L == Ordered(candidates)
               V == ToSet(Chosen(L, q))
           IN  /\ Chosen(L, q) \in Seq(candidates) /\ IsInjective(Chosen(L, q))
               /\ V \in SUBSET candidates /\ V = {L[i] : i \in ToSet(q)}
               /\ Cardinality(V) = Len(q)
               /\ Coverage(Target(deficits), L, q) = Target(deficits) <=> Releases(deficits, V)
<1> DEFINE n == Cardinality(candidates)
           L == Ordered(candidates)
           V == ToSet(Chosen(L, q))
           target == Target(deficits)
<1>1. /\ n \in Nat /\ DOMAIN L = 1 .. n /\ (\A i \in 1 .. n : L[i] \in candidates)
      /\ \A i, j \in 1 .. n : L[i] = L[j] => i = j
  <2>1. L \in Seq(candidates) /\ Len(L) = n /\ n \in Nat /\ IsInjective(L)
      BY OrderedListsCandidates
  <2> HIDE DEF L, n
  <2> QED
      BY <2>1 DEF IsInjective
<1>2. /\ Rising(q, n) /\ q \in Seq(Int) /\ DOMAIN q = 1 .. Len(q) /\ Len(q) \in Nat
      /\ \A a, b \in DOMAIN q : q[a] = q[b] => a = b
      /\ ToSet(q) \in SUBSET (1 .. n)
    BY <1>1, RisingIsListed
<1>3. Offered(target, L, n)
    BY TargetIsOffered
<1>4. /\ DOMAIN target \subseteq DOMAIN deficits
      /\ \A c \in DOMAIN target : target[c] = deficits[c] /\ deficits[c] > 0
      /\ \A c \in DOMAIN deficits : deficits[c] > 0 => c \in DOMAIN target
    BY TargetIsOffered
<1>5. \A c \in DOMAIN deficits : deficits[c] \in Nat /\ \A a \in candidates : a.units[c] \in Nat
    BY DEF WellOffered
<1> DEFINE sel == Chosen(L, q)
<1>6. /\ DOMAIN sel = DOMAIN q /\ \A a \in DOMAIN q : sel[a] = L[q[a]]
      /\ sel = [k \in DOMAIN q |-> L[q[k]]]
    BY DEF Chosen
<1> HIDE DEF n, L, target, sel
<1>7. \A a \in DOMAIN q : q[a] \in ToSet(q) /\ q[a] \in 1 .. n
    BY <1>2 DEF ToSet
<1>8. sel \in Seq(candidates)
    BY <1>1, <1>2, <1>6, <1>7
<1>9. \A a, b \in DOMAIN sel : sel[a] = sel[b] => a = b
    BY <1>1, <1>2, <1>6, <1>7
<1>10. IsInjective(sel)
    BY <1>9 DEF IsInjective
<1>11. ToSet(sel) \in SUBSET candidates
    BY <1>1, <1>6, <1>7 DEF ToSet
<1>12. ToSet(sel) = {L[i] : i \in ToSet(q)}
    BY <1>6 DEF ToSet
<1>13. Cardinality(ToSet(sel)) = Len(q)
  <2>1. sel \in [1 .. Len(q) -> ToSet(sel)]
      BY <1>2, <1>6 DEF ToSet
  <2>2. \A y \in ToSet(sel) : \E a \in 1 .. Len(q) : sel[a] = y
      BY <1>2, <1>6 DEF ToSet
  <2>3. \A a, b \in 1 .. Len(q) : sel[a] = sel[b] => a = b
      BY <1>2, <1>6, <1>9
  <2>4. sel \in Surjection(1 .. Len(q), ToSet(sel)) /\ sel \in Injection(1 .. Len(q), ToSet(sel))
      BY <2>1, <2>2, <2>3, Fun_IsSurj, Fun_IsInj
  <2>5. IsFiniteSet(1 .. Len(q)) /\ Cardinality(1 .. Len(q)) = Len(q)
      BY <1>2, FS_Interval
  <2> DEFINE D == 1 .. Len(q)
             Selected == ToSet(sel)
  <2>6. IsFiniteSet(D) /\ sel \in Surjection(D, Selected) /\ sel \in Injection(D, Selected)
      BY <2>4, <2>5
  <2> HIDE DEF D, Selected
  <2>7. Cardinality(Selected) = Cardinality(D)
      BY <2>6, FS_Surjection
  <2> QED
      BY <2>5, <2>7 DEF D, Selected
<1>14. ASSUME NEW c \in DOMAIN target
       PROVE  /\ Sum(UnitsAt(L, c), ToSet(q)) = Released(c, ToSet(sel))
              /\ Released(c, ToSet(sel)) \in Nat
  <2> DEFINE w == UnitsAt(L, c)
             u == [v \in candidates |-> v.units[c]]
  <2>1. \A x \in 1 .. n : w[x] = L[x].units[c] /\ w[x] \in Nat
      BY <1>3 DEF UnitsAt, Offered
  <2>2. \A v \in candidates : u[v] = v.units[c] /\ v.units[c] \in Nat
      BY <1>4, <1>5
  <2> HIDE DEF w, u
  <2>3. \A x \in ToSet(q) : w[x] \in Nat /\ u[L[x]] = w[x]
      BY <1>1, <1>2, <2>1, <2>2
  <2>4. \A x, y \in ToSet(q) : L[x] = L[y] => x = y
      BY <1>1, <1>2
  <2>5. IsFiniteSet(ToSet(q)) /\ IsFiniteSet(ToSet(sel))
    <3>1. IsFiniteSet(1 .. n) /\ IsFiniteSet(candidates)
        BY <1>1, FS_Interval DEF WellOffered
    <3> QED
        BY <1>2, <1>11, <3>1, FS_Subset
  <2>6. Sum(w, ToSet(q)) = Sum(u, ToSet(sel))
      BY <1>12, <2>3, <2>4, <2>5, SumReindexed
  <2>7. \A v \in ToSet(sel) : v.units[c] \in Nat /\ u[v] = v.units[c]
      BY <1>11, <2>2
  <2>8. Released(c, ToSet(sel)) = Sum(u, ToSet(sel)) /\ Sum(u, ToSet(sel)) \in Nat
    <3>1. \A v \in ToSet(sel) : u[v] \in Nat
        BY <2>7
    <3> QED
        BY <2>5, <2>7, <3>1, ReleasedIsSum, SumLaws
  <2> QED
      BY <2>6, <2>8 DEF w
<1>15. Releases(deficits, ToSet(sel)) <=>
           \A c \in DOMAIN target : target[c] <= Released(c, ToSet(sel))
  <2>1. ASSUME NEW c \in DOMAIN deficits, c \notin DOMAIN target
        PROVE  deficits[c] <= Released(c, ToSet(sel))
    <3> DEFINE u == [v \in candidates |-> v.units[c]]
    <3>1. deficits[c] = 0
        BY <1>4, <1>5, <2>1
    <3>2. \A v \in ToSet(sel) : v.units[c] \in Nat /\ u[v] = v.units[c]
        BY <1>5, <1>11
    <3>3. IsFiniteSet(ToSet(sel))
      <4>1. IsFiniteSet(candidates)
          BY DEF WellOffered
      <4> QED
          BY <1>11, <4>1, FS_Subset
    <3>4. \A v \in ToSet(sel) : u[v] \in Nat
        BY <3>2
    <3> HIDE DEF u
    <3>5. Released(c, ToSet(sel)) = Sum(u, ToSet(sel)) /\ Sum(u, ToSet(sel)) \in Nat
        BY <3>2, <3>3, <3>4, ReleasedIsSum, SumLaws
    <3> QED
        BY <3>1, <3>5
  <2>2. Releases(deficits, ToSet(sel)) <=>
            \A c \in DOMAIN deficits : deficits[c] <= Released(c, ToSet(sel))
      BY DEF Releases, Released
  <2> QED
      BY <1>4, <2>1, <2>2
<1>16. Coverage(target, L, q) = target <=>
           \A c \in DOMAIN target : target[c] <= Released(c, ToSet(sel))
  <2>1. \A c \in DOMAIN target : target[c] \in Nat
      BY <1>3 DEF Offered
  <2>2. \A c \in DOMAIN target :
            Coverage(target, L, q)[c] = Lesser(target[c], Released(c, ToSet(sel)))
      BY <1>14 DEF Coverage
  <2>3. \A c \in DOMAIN target :
            Coverage(target, L, q)[c] = target[c] <=> target[c] <= Released(c, ToSet(sel))
      BY <1>14, <2>1, <2>2 DEF Lesser
  <2>4. /\ Coverage(target, L, q) \in [DOMAIN target -> Nat] /\ target \in [DOMAIN target -> Nat]
    <3>1. Coverage(target, L, q) \in [DOMAIN target -> Nat]
        BY <1>14, <2>1 DEF Coverage, Lesser
    <3>2. target = [c \in DOMAIN target |-> target[c]]
        BY DEF target, Target
    <3>3. target \in [DOMAIN target -> Nat]
        BY <2>1, <3>2
    <3> QED
        BY <3>1, <3>3
  <2> DEFINE K == Coverage(target, L, q)
  <2>5. (\A c \in DOMAIN target : K[c] = target[c]) => K = target
    <3> HIDE DEF K
    <3> QED
        BY <2>4, FunctionsDiffer DEF K
  <2> QED
      BY <2>3, <2>5
<1> QED
    BY <1>8, <1>10, <1>11, <1>12, <1>13, <1>15, <1>16 DEF L, target, sel

(* The selection is the best list of places that covers the target, if any    *)
(* list does.                                                                 *)
LEMMA SelectionIsBest ==
    ASSUME NEW deficits, NEW candidates, WellOffered(deficits, candidates)
    PROVE  LET L == Ordered(candidates)
               n == Cardinality(candidates)
               Good(q) == Rising(q, n) /\ Releases(deficits, ToSet(Chosen(L, q)))
               chosen == SelectMinimumVictims(deficits, candidates)
           IN  \/ chosen = {} /\ \A q : ~Good(q)
               \/ \E q : /\ Good(q) /\ chosen = {Chosen(L, q)}
                         /\ \A r : Good(r) => AtLeast(q, r)
<1> DEFINE L == Ordered(candidates)
           n == Cardinality(candidates)
           target == Target(deficits)
           Good(q) == Rising(q, n) /\ Releases(deficits, ToSet(Chosen(L, q)))
           chosen == SelectMinimumVictims(deficits, candidates)
<1>1. PICK tab : /\ GoodTable(tab, target, L, n)
                 /\ chosen = {Chosen(L, t[target]) : t \in {x \in {tab} : target \in DOMAIN x}}
    BY SelectionTable
<1>2. \A q : Rising(q, n) => /\ q \in Seq(Int)
                             /\ Coverage(target, L, q) = target <=> Releases(deficits, ToSet(Chosen(L, q)))
    BY SelectionReleases DEF Rising
<1> HIDE DEF L, n, target, chosen
<1>3. /\ \A w \in DOMAIN tab : Rising(tab[w], n) /\ Coverage(target, L, tab[w]) = w
      /\ \A q \in Seq(Int) : Rising(q, n) =>
            Coverage(target, L, q) \in DOMAIN tab /\ AtLeast(tab[Coverage(target, L, q)], q)
    BY <1>1 DEF GoodTable, AtLeast
<1>4. \A q : Good(q) => target \in DOMAIN tab /\ AtLeast(tab[target], q)
    BY <1>2, <1>3
<1>5. CASE target \in DOMAIN tab
  <2>1. chosen = {Chosen(L, tab[target])}
      BY <1>1, <1>5
  <2>2. Good(tab[target])
      BY <1>2, <1>3, <1>5
  <2> HIDE DEF Good
  <2>3. \E q : /\ Good(q) /\ chosen = {Chosen(L, q)}
               /\ \A r : Good(r) => AtLeast(q, r)
      BY <1>4, <2>1, <2>2
  <2> QED
      BY <2>3 DEF Good, L, n, chosen
<1>6. CASE target \notin DOMAIN tab
  <2>1. chosen = {}
      BY <1>1, <1>6
  <2>2. \A q : ~Good(q)
      BY <1>4, <1>6
  <2> QED
      BY <2>1, <2>2 DEF L, n, chosen
<1> QED
    BY <1>5, <1>6

LEMMA SelectedVictims ==
    ASSUME NEW deficits, NEW candidates, WellOffered(deficits, candidates),
           NEW sel \in SelectMinimumVictims(deficits, candidates)
    PROVE  sel \in Seq(candidates) /\ IsInjective(sel) /\ Releases(deficits, ToSet(sel))
<1>1. PICK q : /\ Rising(q, Cardinality(candidates))
               /\ Releases(deficits, ToSet(Chosen(Ordered(candidates), q)))
               /\ SelectMinimumVictims(deficits, candidates) = {Chosen(Ordered(candidates), q)}
    BY SelectionIsBest
<1> QED
    BY <1>1, SelectionReleases

(* Every set of candidates is selected by the rising list of its places. *)
LEMMA PlacesOf ==
    ASSUME NEW deficits, NEW candidates, WellOffered(deficits, candidates),
           NEW T \in SUBSET candidates
    PROVE  \E q : /\ Rising(q, Cardinality(candidates))
                  /\ ToSet(Chosen(Ordered(candidates), q)) = T
<1> DEFINE L == Ordered(candidates)
           n == Cardinality(candidates)
           S == {i \in 1 .. n : L[i] \in T}
           q == InOrder(S, <)
<1>1. n \in Nat /\ DOMAIN L = 1 .. n /\ ToSet(L) = candidates
  <2>1. L \in Seq(candidates) /\ Len(L) = n /\ n \in Nat /\ ToSet(L) = candidates
      BY OrderedListsCandidates
  <2> HIDE DEF L, n
  <2> QED
      BY <2>1
<1> HIDE DEF n, L
<1>2. S \in SUBSET (1 .. n) /\ S \in SUBSET Nat /\ IsFiniteSet(S)
  <2>1. S \in SUBSET (1 .. n)
      OBVIOUS
  <2>2. IsFiniteSet(1 .. n)
      BY <1>1, FS_Interval
  <2> HIDE DEF S
  <2>3. IsFiniteSet(S)
      BY <2>1, <2>2, FS_Subset
  <2>4. S \in SUBSET Nat
      BY <2>1
  <2> QED
      BY <2>1, <2>3, <2>4
<1>3. /\ \A i \in S : L[i] \in T
      /\ \A x \in T : \E i \in S : x = L[i]
    BY <1>1 DEF ToSet
<1> HIDE DEF S
<1>4. /\ q \in Seq(S) /\ ToSet(q) = S
      /\ \A j, k \in DOMAIN q : j < k => q[j] < q[k]
    BY <1>2, NumbersInOrder
<1> HIDE DEF q
<1>5. Rising(q, n)
  <2>1. \A a \in DOMAIN q : q[a] \in S
      BY <1>4
  <2>2. \A a \in DOMAIN q : q[a] \in 1 .. n
      BY <1>2, <2>1
  <2>3. q \in Seq(Int)
    <3>1. Len(q) \in Nat /\ q \in [1 .. Len(q) -> S]
        BY <1>4
    <3>2. S \in SUBSET Int
        BY <1>2
    <3>3. q \in [1 .. Len(q) -> Int]
        BY <3>1, <3>2
    <3> QED
        BY <3>1, <3>3
  <2> QED
      BY <1>4, <2>2, <2>3 DEF Rising
<1>6. ToSet(Chosen(L, q)) = {L[i] : i \in ToSet(q)}
    BY <1>5, SelectionReleases DEF L, n
<1>7. ToSet(Chosen(L, q)) = T
    BY <1>3, <1>4, <1>6
<1> QED
    BY <1>5, <1>7 DEF L, n

(* Of two lists of one length the preferred one selects the set whose         *)
(* members yield first.                                                       *)
LEMMA PreferredYieldsFirst ==
    ASSUME NEW deficits, NEW candidates, WellOffered(deficits, candidates),
           NEW p, Rising(p, Cardinality(candidates)), NEW q, Rising(q, Cardinality(candidates)),
           Len(p) = Len(q), Preferred(p, q)
    PROVE  YieldsFirst(ToSet(Chosen(Ordered(candidates), p)), ToSet(Chosen(Ordered(candidates), q)))
<1> DEFINE L == Ordered(candidates)
           n == Cardinality(candidates)
           V == ToSet(Chosen(L, p))
           T == ToSet(Chosen(L, q))
<1>1. /\ n \in Nat /\ DOMAIN L = 1 .. n
      /\ \A i, j \in 1 .. n : L[i] = L[j] => i = j
      /\ \A i, j \in 1 .. n : i < j => YieldsBefore(L[i], L[j])
  <2>1. /\ L \in Seq(candidates) /\ Len(L) = n /\ n \in Nat /\ IsInjective(L)
        /\ \A j, k \in DOMAIN L : j < k => YieldsBefore(L[j], L[k])
      BY OrderedListsCandidates
  <2> HIDE DEF L, n
  <2> QED
      BY <2>1 DEF IsInjective
<1>2. V = {L[i] : i \in ToSet(p)} /\ T = {L[i] : i \in ToSet(q)}
    BY SelectionReleases
<1>3. /\ DOMAIN p = 1 .. Len(p) /\ Len(p) \in Nat /\ DOMAIN q = 1 .. Len(p)
      /\ ToSet(p) \in SUBSET (1 .. n) /\ ToSet(q) \in SUBSET (1 .. n)
    BY <1>1, RisingIsListed
<1>4. /\ \A a \in DOMAIN p : p[a] \in 1 .. n /\ p[a] \in ToSet(p)
      /\ \A a \in DOMAIN q : q[a] \in 1 .. n /\ q[a] \in ToSet(q)
      /\ \A a, b \in DOMAIN p : a < b => p[a] < p[b]
      /\ \A a, b \in DOMAIN q : a < b => q[a] < q[b]
    BY DEF Rising, ToSet
<1>5. PICK i \in 1 .. Len(p) : p[i] < q[i] /\ \A j \in 1 .. i - 1 : p[j] = q[j]
    BY DEF Preferred
<1> HIDE DEF L, n, V, T
<1>6. i \in DOMAIN p /\ i \in DOMAIN q /\ p[i] \in 1 .. n /\ q[i] \in 1 .. n /\ p[i] \in ToSet(p)
    BY <1>3, <1>4
<1>7. ASSUME NEW a \in DOMAIN q, q[a] = p[i] PROVE FALSE
  <2>1. CASE a < i
    <3>1. a \in 1 .. i - 1 /\ a \in DOMAIN p
        BY <1>3, <1>6, <2>1
    <3>2. p[a] = q[a] /\ p[a] < p[i] /\ p[a] \in 1 .. n
        BY <1>4, <1>5, <1>6, <2>1, <3>1
    <3> QED
        BY <1>6, <1>7, <3>2
  <2>2. CASE a = i
      BY <1>5, <1>6, <1>7, <2>2
  <2>3. CASE i < a
    <3>1. q[i] < q[a] /\ q[a] \in 1 .. n
        BY <1>4, <1>6, <2>3
    <3> QED
        BY <1>5, <1>6, <1>7, <3>1
  <2> QED
      BY <1>3, <1>6, <2>1, <2>2, <2>3
<1>8. p[i] \notin ToSet(q)
    BY <1>7 DEF ToSet
<1>9. ASSUME NEW m \in 1 .. n, m \in (ToSet(p) \cup ToSet(q)) \ (ToSet(p) \cap ToSet(q))
      PROVE  m = p[i] \/ p[i] < m
  <2>1. CASE m \in ToSet(p)
    <3>1. PICK a \in DOMAIN p : m = p[a]
        BY <2>1 DEF ToSet
    <3>2. ASSUME a < i PROVE FALSE
      <4>1. a \in 1 .. i - 1 /\ a \in DOMAIN q
          BY <1>3, <1>6, <3>2
      <4> QED
          BY <1>4, <1>5, <1>9, <2>1, <3>1, <4>1
    <3>3. a = i \/ i < a
        BY <1>3, <1>6, <3>2
    <3> QED
        BY <1>4, <1>6, <3>1, <3>3
  <2>2. CASE m \in ToSet(q)
    <3>1. PICK a \in DOMAIN q : m = q[a]
        BY <2>2 DEF ToSet
    <3>2. ASSUME a < i PROVE FALSE
      <4>1. a \in 1 .. i - 1 /\ a \in DOMAIN p
          BY <1>3, <1>6, <3>2
      <4> QED
          BY <1>4, <1>5, <1>9, <2>2, <3>1, <4>1
    <3>3. a = i \/ i < a
        BY <1>3, <1>6, <3>2
    <3>4. q[i] <= m
        BY <1>4, <1>6, <3>1, <3>3
    <3> QED
        BY <1>5, <1>6, <3>4
  <2> QED
      BY <1>9, <2>1, <2>2
<1>10. L[p[i]] \in V \ T
  <2>1. L[p[i]] \in V
      BY <1>2, <1>6
  <2>2. ASSUME L[p[i]] \in T PROVE FALSE
    <3>1. PICK m \in ToSet(q) : L[p[i]] = L[m]
        BY <1>2, <2>2
    <3>2. m = p[i]
        BY <1>1, <1>3, <1>6, <3>1
    <3> QED
        BY <1>8, <3>2
  <2> QED
      BY <2>1, <2>2
<1>11. ASSUME NEW y \in (V \cup T) \ (V \cap T) PROVE L[p[i]] = y \/ YieldsBefore(L[p[i]], y)
  <2>1. PICK m \in ToSet(p) \cup ToSet(q) : y = L[m]
      BY <1>2
  <2>2. m \in 1 .. n /\ m \notin ToSet(p) \cap ToSet(q)
      BY <1>2, <1>3, <1>11, <2>1
  <2> QED
      BY <1>1, <1>6, <1>9, <2>1, <2>2
<1>12. YieldsFirst(V, T)
    BY <1>10, <1>11 DEF YieldsFirst
<1> QED
    BY <1>12 DEF V, T, L

LEMMA ReleasesGrows ==
    ASSUME NEW deficits, NEW candidates, WellOffered(deficits, candidates),
           NEW W \in SUBSET candidates, NEW V \in SUBSET W, Releases(deficits, V)
    PROVE  Releases(deficits, W)
<1>1. IsFiniteSet(V) /\ IsFiniteSet(W)
  <2>1. IsFiniteSet(candidates)
      BY DEF WellOffered
  <2>2. IsFiniteSet(W)
      BY <2>1, FS_Subset
  <2> QED
      BY <2>2, FS_Subset
<1>2. ASSUME NEW c \in DOMAIN deficits PROVE deficits[c] <= Released(c, W)
  <2> DEFINE u == [v \in candidates |-> v.units[c]]
  <2>1. \A v \in W : v.units[c] \in Nat /\ u[v] = v.units[c]
      BY DEF WellOffered
  <2>2. \A v \in V : v.units[c] \in Nat /\ u[v] = v.units[c]
      BY <2>1
  <2>3. \A v \in W : u[v] \in Nat
      BY <2>1
  <2> HIDE DEF u
  <2>4. Released(c, W) = Sum(u, W) /\ Released(c, V) = Sum(u, V)
      BY <1>1, <2>1, <2>2, ReleasedIsSum
  <2>5. Sum(u, W) = Sum(u, V) + Sum(u, W \ V) /\ Sum(u, V) \in Nat /\ Sum(u, W \ V) \in Nat
      BY <1>1, <2>3, SumGrows
  <2>6. deficits[c] <= Released(c, V) /\ deficits[c] \in Nat
      BY DEF Releases, Released, WellOffered
  <2> QED
      BY <2>4, <2>5, <2>6
<1> QED
    BY <1>2 DEF Releases, Released

LEMMA YieldsFirstAntisymmetric ==
    ASSUME NEW deficits, NEW candidates, WellOffered(deficits, candidates),
           NEW S \in SUBSET candidates, NEW T \in SUBSET candidates,
           YieldsFirst(S, T), YieldsFirst(T, S)
    PROVE  S = T
<1> SUFFICES ASSUME S # T PROVE FALSE
    OBVIOUS
<1>1. PICK x \in S \ T : \A y \in (S \cup T) \ (S \cap T) : x = y \/ YieldsBefore(x, y)
    BY DEF YieldsFirst
<1>2. PICK z \in T \ S : \A y \in (T \cup S) \ (T \cap S) : z = y \/ YieldsBefore(z, y)
    BY DEF YieldsFirst
<1>3. YieldsBefore(x, z) /\ YieldsBefore(z, x) /\ x \in candidates /\ z \in candidates
    BY <1>1, <1>2
<1>4. /\ Orders(YieldOrder(candidates), candidates)
      /\ \A a, b \in candidates : <<a, b>> \in YieldOrder(candidates) <=> YieldsBefore(a, b)
    BY YieldsOrders
<1> QED
    BY <1>3, <1>4 DEF Orders

(* Whatever the deficits and the candidates, the dynamic program chooses the  *)
(* smallest set of victims that releases every missing unit and, of the sets  *)
(* of that size, the one whose members yield first; and none if all           *)
(* candidates together release too little.                                    *)
THEOREM SelectionIsIntended ==
    ASSUME NEW deficits, NEW candidates, WellOffered(deficits, candidates)
    PROVE  IF Releases(deficits, candidates)
           THEN {ToSet(victims) : victims \in SelectMinimumVictims(deficits, candidates)}
                = IntendedVictims(deficits, candidates)
           ELSE SelectMinimumVictims(deficits, candidates) = {}
<1> DEFINE C == candidates
           L == Ordered(C)
           n == Cardinality(C)
           V(q) == ToSet(Chosen(L, q))
           Good(q) == Rising(q, n) /\ Releases(deficits, V(q))
           chosen == SelectMinimumVictims(deficits, C)
<1>1. \A q : Rising(q, n) => V(q) \in SUBSET C /\ Cardinality(V(q)) = Len(q) /\ Len(q) \in Nat
  <2> SUFFICES ASSUME NEW q, Rising(q, n)
               PROVE  V(q) \in SUBSET C /\ Cardinality(V(q)) = Len(q) /\ Len(q) \in Nat
      OBVIOUS
  <2>1. V(q) \in SUBSET C /\ Cardinality(V(q)) = Len(q)
      BY SelectionReleases
  <2>2. n \in Nat
      BY OrderedListsCandidates
  <2>3. Len(q) \in Nat
      BY DEF Rising
  <2> QED
      BY <2>1, <2>3
<1>2. \A T \in SUBSET C : \E q : Rising(q, n) /\ V(q) = T
    BY PlacesOf
<1>3. \/ chosen = {} /\ \A q : ~Good(q)
      \/ \E q : /\ Good(q) /\ chosen = {Chosen(L, q)}
                /\ \A r : Good(r) => AtLeast(q, r)
    BY SelectionIsBest
<1>4. CASE Releases(deficits, C)
  <2>1. PICK q : Rising(q, n) /\ V(q) = C
      BY <1>2
  <2>2. PICK p : /\ Good(p) /\ chosen = {Chosen(L, p)}
                 /\ \A r : Good(r) => AtLeast(p, r)
      BY <1>3, <1>4, <2>1
  <2>3. ASSUME NEW T \in SUBSET C, Releases(deficits, T)
        PROVE  \E r : /\ Rising(r, n) /\ V(r) = T /\ AtLeast(p, r)
                      /\ Len(p) <= Len(r) /\ Cardinality(T) = Len(r) /\ Len(r) \in Nat
    <3>1. PICK r : Rising(r, n) /\ V(r) = T
        BY <1>2
    <3>2. AtLeast(p, r) /\ Cardinality(T) = Len(r) /\ Len(r) \in Nat /\ Len(p) \in Nat
        BY <1>1, <2>2, <2>3, <3>1
    <3>3. Len(p) <= Len(r)
        BY <3>2 DEF AtLeast, Preferred
    <3> QED
        BY <3>1, <3>2, <3>3
  <2>4. /\ V(p) \in SUBSET C /\ Releases(deficits, V(p)) /\ Rising(p, n)
        /\ Cardinality(V(p)) = Len(p) /\ Len(p) \in Nat
      BY <1>1, <2>2
  <2>5. \A r : Rising(r, n) /\ Len(p) = Len(r) /\ Preferred(p, r) => YieldsFirst(V(p), V(r))
      BY <2>4, PreferredYieldsFirst
  <2> HIDE DEF V, L, n, chosen
  <2>6. V(p) \in MinimumReleasingSets(deficits, C)
    <3>1. \A T \in SUBSET C : Releases(deficits, T) => Cardinality(V(p)) <= Cardinality(T)
        BY <2>3, <2>4
    <3> QED
        BY <2>4, <3>1 DEF MinimumReleasingSets
  <2>7. ASSUME NEW T \in MinimumReleasingSets(deficits, C) PROVE YieldsFirst(V(p), T)
    <3>1. T \in SUBSET C /\ Releases(deficits, T) /\ Cardinality(T) <= Cardinality(V(p))
        BY <2>4, <2>7 DEF MinimumReleasingSets
    <3>2. PICK r : /\ Rising(r, n) /\ V(r) = T /\ AtLeast(p, r)
                   /\ Len(p) <= Len(r) /\ Cardinality(T) = Len(r) /\ Len(r) \in Nat
        BY <2>3, <3>1
    <3>3. Len(p) = Len(r)
        BY <2>4, <3>1, <3>2
    <3>4. CASE p = r
        BY <3>2, <3>4 DEF YieldsFirst
    <3>5. CASE Preferred(p, r)
        BY <2>5, <3>2, <3>3, <3>5
    <3> QED
        BY <3>2, <3>4, <3>5 DEF AtLeast
  <2>8. V(p) \in IntendedVictims(deficits, C)
      BY <2>6, <2>7 DEF IntendedVictims
  <2>9. ASSUME NEW T \in IntendedVictims(deficits, C) PROVE T = V(p)
    <3>1. T \in MinimumReleasingSets(deficits, C) /\ YieldsFirst(T, V(p))
        BY <2>6, <2>9 DEF IntendedVictims
    <3>2. T \in SUBSET C /\ YieldsFirst(V(p), T)
        BY <2>7, <3>1 DEF MinimumReleasingSets
    <3> QED
        BY <2>4, <3>1, <3>2, YieldsFirstAntisymmetric
  <2>10. IntendedVictims(deficits, C) = {V(p)}
      BY <2>8, <2>9
  <2>11. {ToSet(v) : v \in chosen} = {V(p)}
      BY <2>2 DEF V
  <2> QED
      BY <1>4, <2>10, <2>11 DEF chosen
<1>5. CASE ~Releases(deficits, C)
  <2>1. ASSUME NEW q, Good(q) PROVE FALSE
    <3>1. V(q) \in SUBSET C /\ Releases(deficits, V(q))
        BY <1>1, <2>1
    <3> HIDE DEF V
    <3>2. C \in SUBSET C
        OBVIOUS
    <3> QED
        BY <1>5, <3>1, <3>2, ReleasesGrows
  <2> QED
      BY <1>3, <1>5, <2>1
<1> QED
    BY <1>4, <1>5

(* What is offered one by one is well offered. *)
OfferInv ==
    /\ missing \in Deficits /\ IsFiniteSet(offered)
    /\ \A a \in offered : /\ a \in CandidatesAt(a.order)
                          /\ a.order \in 1 .. Cardinality(offered)
    /\ \A a, b \in offered : a.order = b.order => a = b

LEMMA OfferIsWell == ASSUME OfferInv PROVE WellOffered(missing, offered)
<1>1. DOMAIN missing = Lacking /\ \A c \in Lacking : missing[c] \in Nat
    BY OfferAssumption DEF OfferInv, Deficits
<1>2. ASSUME NEW a \in offered
      PROVE  /\ a.priority \in Int /\ a.order \in Int /\ a.checkpoint \in BOOLEAN
             /\ \A c \in Lacking : a.units[c] \in Nat
  <2>1. a \in CandidatesAt(a.order) /\ a.order \in 1 .. Cardinality(offered)
      BY DEF OfferInv
  <2>2. a.priority \in Priorities /\ a.checkpoint \in BOOLEAN /\ a.units \in [Lacking -> 0 .. 2]
      BY <2>1 DEF CandidatesAt
  <2>3. Cardinality(offered) \in Nat
      BY FS_CardinalityType DEF OfferInv
  <2>4. a.order \in Int
      BY <2>1, <2>3
  <2>5. a.priority \in Int
      BY <2>2, OfferAssumption
  <2>6. \A c \in Lacking : a.units[c] \in Nat
      BY <2>2
  <2> QED
      BY <2>2, <2>4, <2>5, <2>6
<1> QED
    BY <1>1, <1>2 DEF OfferInv, WellOffered

(* The dynamic program of select_minimum_victims makes the intended choice     *)
(* after every offer.                                                          *)
THEOREM OffersAreAnswered == OfferSpec => []SelectsIntendedVictims
<1>1. OfferInit => OfferInv
    BY FS_EmptySet DEF OfferInit, OfferInv
<1>2. OfferInv /\ [Offer]_offerVars => OfferInv'
  <2> SUFFICES ASSUME OfferInv, [Offer]_offerVars PROVE OfferInv'
      OBVIOUS
  <2>1. CASE UNCHANGED offerVars
      BY <2>1 DEF OfferInv, offerVars
  <2>2. CASE Offer
    <3> DEFINE n == Cardinality(offered)
    <3>1. PICK c \in CandidatesAt(n + 1) : offered' = offered \cup {c}
        BY <2>2 DEF Offer
    <3>2. n \in Nat /\ c.order = n + 1
        BY <3>1, FS_CardinalityType DEF OfferInv, CandidatesAt
    <3>3. missing' = missing
        BY <2>2 DEF Offer
    <3>4. \A a \in offered : a.order \in 1 .. n
        BY DEF OfferInv
    <3>5. c \notin offered
        BY <3>2, <3>4
    <3>6. IsFiniteSet(offered') /\ Cardinality(offered') = n + 1
        BY <3>1, <3>5, FS_AddElement DEF OfferInv
    <3> HIDE DEF n
    <3>7. \A a \in offered' : a \in CandidatesAt(a.order) /\ a.order \in 1 .. n + 1
      <4>1. \A a \in offered : a \in CandidatesAt(a.order)
          BY DEF OfferInv
      <4>2. c \in CandidatesAt(c.order)
          BY <3>1, <3>2
      <4> QED
          BY <3>1, <3>2, <3>4, <4>1, <4>2
    <3>8. \A a, b \in offered' : a.order = b.order => a = b
      <4>1. \A a \in offered : a.order # c.order
          BY <3>2, <3>4
      <4>2. \A a, b \in offered : a.order = b.order => a = b
          BY DEF OfferInv
      <4> QED
          BY <3>1, <4>1, <4>2
    <3> QED
        BY <3>3, <3>6, <3>7, <3>8 DEF OfferInv
  <2> QED
      BY <2>1, <2>2
<1>3. OfferInv => SelectsIntendedVictims
    BY OfferIsWell, SelectionIsIntended DEF SelectsIntendedVictims
<1> QED
    BY <1>1, <1>2, <1>3, PTL DEF OfferSpec
-----------------------------------------------------------------------------
(* The epoch planner: what holds of every committed scheduler. *)

(* Two intents that share neither their target nor a victim. *)
Apart(i, j) == i.target # j.target /\ ToSet(i.victims) \cap ToSet(j.victims) = {}

(* A pending intent: its target waits and may start, its victims run and may  *)
(* yield to it.                                                               *)
Pending(m, running, i) ==
    /\ i.target \in Queued(m) \ running
    /\ DependenciesSatisfied(m, i.target)
    /\ ToSet(i.victims) \subseteq running
    /\ i.acked \subseteq CheckpointVictims(i)
    /\ \A v \in ToSet(i.victims) : Policy[v] # "ATOMIC" /\ Outprioritizes(m, i.target, v)

EpochInv ==
    /\ TypeOK
    /\ completed \cap ToSet(assigned) = {}
    /\ \A c \in Classes : Units(ToSet(assigned))[c] <= Capacity[c]
    /\ \A t \in ToSet(assigned) : DependenciesSatisfied(Loaded, t)
    /\ \A k \in DOMAIN intents : Pending(Loaded, ToSet(assigned), intents[k])
    /\ \A k, l \in DOMAIN intents : k = l \/ Apart(intents[k], intents[l])

(* A scheduler that a writer has changed since it loaded it: tasks were added *)
(* or an assigned one was completed.                                          *)
Changed(m) ==
    /\ m.arrivals \in Seq(Tasks) /\ IsInjective(m.arrivals)
    /\ ToSet(arrivals) \subseteq ToSet(m.arrivals)
    /\ completed \subseteq m.completed /\ m.completed \subseteq ToSet(m.arrivals)
    /\ m.completed \subseteq completed \cup ToSet(assigned)
    /\ m.waited = waited

Plan == [assigned : Seq(Tasks), remaining : [Classes -> Int], carried : Seq(Intent),
         requested : SUBSET Intent, protected : SUBSET Tasks, waiting : SUBSET Tasks,
         released : SUBSET Tasks]

(* The plan's units: none missing, and no more given out than are admissible. *)
Room(obs, p) ==
    \A c \in Classes :
        /\ 0 <= p.remaining[c]
        /\ p.remaining[c] + Units(ToSet(p.assigned))[c] <= AdmissionCapacity(obs)[c]

Startable(m, t) == t \in Queued(m) /\ DependenciesSatisfied(m, t)

MayYield(m, t, v) == Policy[v] # "ATOMIC" /\ Outprioritizes(m, t, v)

Allowed(v) ==
    \/ Policy[v] = "PREEMPTIBLE"
    \/ Policy[v] = "CHECKPOINT_ONLY" /\ \E k \in DOMAIN intents : v \in intents[k].acked

(* An assignment that the plan ends: its policy allows it, and a task that    *)
(* outprioritizes it is admitted.                                             *)
Justified(m, p, v) ==
    /\ Allowed(v)
    /\ \E t \in ToSet(p.assigned) \ ToSet(assigned) : Outprioritizes(m, t, v)

(* An intent requested in this plan. *)
Asked(m, i) ==
    /\ i.acked = {} /\ Startable(m, i.target) /\ i.target \notin ToSet(assigned)
    /\ \A v \in ToSet(i.victims) : v \in ToSet(Kept(m)) /\ MayYield(m, i.target, v)

(* A plan in the making, with the tasks (todo) and the intents (later) that   *)
(* are still to be dealt with.                                                *)
Sound(m, obs, p, todo, later) ==
    /\ p \in Plan /\ IsInjective(p.assigned) /\ Room(obs, p)
    /\ \A t \in ToSet(p.assigned) : Startable(m, t)
    /\ \A t \in todo : /\ t \in Tasks /\ Startable(m, t)
                       /\ t \notin ToSet(assigned) \cup ToSet(p.assigned)
                       /\ \A i \in PlannedIntents(p) : i.target # t
    /\ later \subseteq ToSet(intents) /\ \A i \in later : i.target \in todo
    /\ IsInjective(p.carried) /\ ToSet(p.carried) \subseteq ToSet(intents)
    /\ \A i \in ToSet(p.carried) : i.target \in p.waiting /\ i \notin p.requested
    /\ IsFiniteSet(p.requested) /\ \A i \in p.requested : Asked(m, i)
    /\ \A i \in PlannedIntents(p) :
          i.target \notin ToSet(p.assigned) /\ ToSet(i.victims) \subseteq p.protected
    /\ \A i \in PlannedIntents(p) \cup later :
          ToSet(i.victims) \cap ToSet(Kept(m)) \subseteq ToSet(p.assigned)
    /\ \A i, j \in PlannedIntents(p) \cup later : i = j \/ Apart(i, j)
    /\ ToSet(Kept(m)) \subseteq ToSet(p.assigned) \cup p.released
    /\ \A v \in ToSet(Kept(m)) \ ToSet(p.assigned) : Justified(m, p, v)

LEMMA ListIsFinite ==
    ASSUME NEW X, NEW s \in Seq(X)
    PROVE  IsFiniteSet(ToSet(s)) /\ ToSet(s) \in SUBSET X
<1>1. DOMAIN s = 1 .. Len(s) /\ Len(s) \in Nat /\ \A a \in DOMAIN s : s[a] \in X
    OBVIOUS
<1>2. IsFiniteSet(DOMAIN s)
    BY <1>1, FS_Interval
<1>3. IsFiniteSet({s[a] : a \in DOMAIN s})
    BY <1>2, ImageIsFinite
<1> QED
    BY <1>1, <1>3 DEF ToSet

LEMMA AppendTo ==
    ASSUME NEW X, NEW s \in Seq(X), NEW x \in X
    PROVE  /\ Append(s, x) \in Seq(X) /\ ToSet(Append(s, x)) = ToSet(s) \cup {x}
           /\ IsInjective(s) /\ x \notin ToSet(s) => IsInjective(Append(s, x))
<1> DEFINE r == Append(s, x)
           n == Len(s)
<1>1. /\ r \in Seq(X) /\ DOMAIN r = 1 .. n + 1 /\ r[n + 1] = x /\ n \in Nat
      /\ DOMAIN s = 1 .. n /\ \A a \in 1 .. n : r[a] = s[a]
    OBVIOUS
<1>2. \A a \in 1 .. n + 1 : a \in 1 .. n \/ a = n + 1
    BY <1>1
<1>3. n + 1 \in 1 .. n + 1 /\ \A a \in 1 .. n : a \in 1 .. n + 1
    BY <1>1
<1> HIDE DEF r, n
<1>4. ToSet(r) = ToSet(s) \cup {x}
    BY <1>1, <1>2, <1>3 DEF ToSet
<1>5. ASSUME IsInjective(s), x \notin ToSet(s) PROVE IsInjective(r)
  <2> SUFFICES ASSUME NEW a \in 1 .. n + 1, NEW b \in 1 .. n + 1, r[a] = r[b] PROVE a = b
      BY <1>1 DEF IsInjective
  <2>1. \A k \in 1 .. n : s[k] # x
      BY <1>1, <1>5 DEF ToSet
  <2> QED
      BY <1>1, <1>2, <1>5, <2>1 DEF IsInjective
<1> QED
    BY <1>1, <1>4, <1>5 DEF r

LEMMA NeedIsTyped ==
    ASSUME NEW t \in Tasks, NEW c \in Classes PROVE Need[t][c] \in Nat
BY NeedIsNatural

LEMMA PlanIsRecord ==
    ASSUME NEW p \in Plan
    PROVE  /\ p.assigned \in Seq(Tasks) /\ p.remaining \in [Classes -> Int]
           /\ p.carried \in Seq(Intent) /\ p.requested \in SUBSET Intent
           /\ p.protected \in SUBSET Tasks /\ p.waiting \in SUBSET Tasks
           /\ p.released \in SUBSET Tasks
           /\ IsFiniteSet(ToSet(p.assigned)) /\ ToSet(p.assigned) \in SUBSET Tasks
           /\ \A c \in Classes : Units(ToSet(p.assigned))[c] \in Nat /\ p.remaining[c] \in Int
<1>1. /\ p.assigned \in Seq(Tasks) /\ p.remaining \in [Classes -> Int]
      /\ p.carried \in Seq(Intent) /\ p.requested \in SUBSET Intent
      /\ p.protected \in SUBSET Tasks /\ p.waiting \in SUBSET Tasks
      /\ p.released \in SUBSET Tasks
    BY DEF Plan
<1>2. IsFiniteSet(ToSet(p.assigned)) /\ ToSet(p.assigned) \in SUBSET Tasks
    BY <1>1, ListIsFinite
<1>3. \A c \in Classes : Units(ToSet(p.assigned))[c] \in Nat
    BY <1>2, UnitsLaws
<1> QED
    BY <1>1, <1>2, <1>3

(* What admitting, releasing and holding do to a plan. *)
LEMMA AdmitChanges ==
    ASSUME NEW p \in Plan, NEW t \in Tasks
    PROVE  /\ Admit(p, t) \in Plan
           /\ ToSet(Admit(p, t).assigned) = ToSet(p.assigned) \cup {t}
           /\ IsInjective(p.assigned) /\ t \notin ToSet(p.assigned)
                 => IsInjective(Admit(p, t).assigned)
           /\ Admit(p, t).carried = p.carried /\ Admit(p, t).requested = p.requested
           /\ Admit(p, t).protected = p.protected /\ Admit(p, t).waiting = p.waiting
           /\ Admit(p, t).released = p.released
           /\ \A obs : Room(obs, p) /\ Fits(t, p.remaining) /\ t \notin ToSet(p.assigned)
                 => Room(obs, Admit(p, t))
<1> DEFINE r == Admit(p, t)
           more == Append(p.assigned, t)
           less == [c \in Classes |-> p.remaining[c] - Need[t][c]]
<1>1. /\ more \in Seq(Tasks) /\ ToSet(more) = ToSet(p.assigned) \cup {t}
      /\ IsInjective(p.assigned) /\ t \notin ToSet(p.assigned) => IsInjective(more)
    BY PlanIsRecord, AppendTo
<1>2. /\ \A c \in Classes : less[c] = p.remaining[c] - Need[t][c]
      /\ less \in [Classes -> Int]
    BY PlanIsRecord, NeedIsTyped
<1>3. /\ r.assigned = more /\ r.remaining = less /\ r.carried = p.carried
      /\ r.requested = p.requested /\ r.protected = p.protected
      /\ r.waiting = p.waiting /\ r.released = p.released
    BY DEF Admit, Plan
<1>4. r \in Plan
  <2> HIDE DEF more, less
  <2> QED
      BY <1>1, <1>2 DEF Admit, Plan, more, less
<1> HIDE DEF r, more, less
<1>5. ASSUME NEW obs, Room(obs, p), Fits(t, p.remaining), t \notin ToSet(p.assigned)
      PROVE  Room(obs, r)
  <2> SUFFICES ASSUME NEW c \in Classes
               PROVE  0 <= less[c] /\ less[c] + Units(ToSet(more))[c] <= AdmissionCapacity(obs)[c]
      BY <1>3 DEF Room
  <2>1. Units(ToSet(more))[c] = Units(ToSet(p.assigned))[c] + Need[t][c]
      BY <1>1, <1>5, PlanIsRecord, UnitsLaws
  <2>2. /\ 0 <= p.remaining[c] /\ Need[t][c] <= p.remaining[c]
        /\ p.remaining[c] + Units(ToSet(p.assigned))[c] <= AdmissionCapacity(obs)[c]
      BY <1>5 DEF Room, Fits
  <2>3. Need[t][c] \in Nat /\ p.remaining[c] \in Int /\ Units(ToSet(p.assigned))[c] \in Nat
      BY PlanIsRecord, NeedIsTyped
  <2>4. p.remaining[c] - Need[t][c] + (Units(ToSet(p.assigned))[c] + Need[t][c])
        = p.remaining[c] + Units(ToSet(p.assigned))[c]
      BY <2>3
  <2> QED
      BY <1>2, <2>1, <2>2, <2>3, <2>4
<1> QED
    BY <1>1, <1>3, <1>4, <1>5 DEF r

LEMMA ReleaseChanges ==
    ASSUME NEW p \in Plan, NEW V \in SUBSET Tasks
    PROVE  /\ Release(p, V) \in Plan
           /\ ToSet(Release(p, V).assigned) = ToSet(p.assigned) \ V
           /\ IsInjective(p.assigned) => IsInjective(Release(p, V).assigned)
           /\ Release(p, V).carried = p.carried /\ Release(p, V).requested = p.requested
           /\ Release(p, V).protected = p.protected /\ Release(p, V).waiting = p.waiting
           /\ Release(p, V).released = p.released \cup V
           /\ \A c \in Classes : /\ Units(V \cap ToSet(p.assigned))[c] \in Nat
                                 /\ Release(p, V).remaining[c]
                                    = p.remaining[c] + Units(V \cap ToSet(p.assigned))[c]
           /\ \A obs : Room(obs, p) => Room(obs, Release(p, V))
<1> DEFINE r == Release(p, V)
           S == ToSet(p.assigned)
           freed == Units(V \cap S)
           fewer == Minus(p.assigned, V)
           more == [c \in Classes |-> p.remaining[c] + freed[c]]
<1>1. /\ fewer \in Seq(Tasks) /\ ToSet(fewer) = S \ V
      /\ IsInjective(p.assigned) => IsInjective(fewer)
    BY PlanIsRecord, MinusProperties
<1>2. S \in SUBSET Tasks /\ IsFiniteSet(S) /\ V \cap S \in SUBSET S /\ S \ (V \cap S) = S \ V
    BY PlanIsRecord
<1> HIDE DEF S
<1>3. IsFiniteSet(V \cap S) /\ V \cap S \in SUBSET Tasks
    BY <1>2, FS_Subset
<1>4. \A c \in Classes : freed[c] \in Nat
    BY <1>3, UnitsLaws
<1>5. \A c \in Classes : Units(S)[c] = freed[c] + Units(S \ V)[c]
  <2> SUFFICES ASSUME NEW c \in Classes PROVE Units(S)[c] = freed[c] + Units(S \ V)[c]
      OBVIOUS
  <2>1. Units(S)[c] = Units(V \cap S)[c] + Units(S \ (V \cap S))[c]
      BY <1>2, UnitsLaws
  <2> QED
      BY <1>2, <2>1
<1>6. \A c \in Classes : Units(S \ V)[c] \in Nat
  <2>1. IsFiniteSet(S \ V) /\ S \ V \in SUBSET Tasks
      BY <1>2, FS_Subset
  <2> QED
      BY <2>1, UnitsLaws
<1> HIDE DEF freed
<1>7. /\ \A c \in Classes : more[c] = p.remaining[c] + freed[c] /\ p.remaining[c] \in Int
      /\ more \in [Classes -> Int]
    BY <1>4, PlanIsRecord
<1>8. /\ r.assigned = fewer /\ r.remaining = more /\ r.carried = p.carried
      /\ r.requested = p.requested /\ r.protected = p.protected
      /\ r.waiting = p.waiting /\ r.released = p.released \cup V
    BY DEF Release, Plan, freed, S
<1>9. r \in Plan
    BY <1>1, <1>7 DEF Release, Plan, freed, S
<1> HIDE DEF r, fewer, more
<1>10. ASSUME NEW obs, Room(obs, p) PROVE Room(obs, r)
  <2> SUFFICES ASSUME NEW c \in Classes
               PROVE  0 <= more[c] /\ more[c] + Units(S \ V)[c] <= AdmissionCapacity(obs)[c]
      BY <1>1, <1>8 DEF Room
  <2>1. 0 <= p.remaining[c] /\ p.remaining[c] + Units(S)[c] <= AdmissionCapacity(obs)[c]
      BY <1>10 DEF Room, S
  <2> DEFINE a == p.remaining[c]
             b == freed[c]
             d == Units(S \ V)[c]
  <2>2. a \in Int /\ b \in Nat /\ d \in Nat /\ more[c] = a + b /\ Units(S)[c] = b + d
      BY <1>4, <1>5, <1>6, <1>7
  <2> HIDE DEF a, b, d
  <2>3. 0 <= a + b /\ (a + b) + d = a + (b + d)
      BY <2>1, <2>2 DEF a
  <2>4. 0 <= more[c] /\ more[c] + d = a + Units(S)[c]
      BY <2>2, <2>3
  <2> QED
      BY <2>1, <2>4 DEF a, d
<1> QED
    BY <1>1, <1>4, <1>7, <1>8, <1>9, <1>10 DEF r, S, freed

LEMMA HoldChanges ==
    ASSUME NEW p \in Plan, NEW t \in Tasks
    PROVE  /\ Hold(p, t) \in Plan
           /\ Hold(p, t).assigned = p.assigned
           /\ Hold(p, t).carried = p.carried /\ Hold(p, t).requested = p.requested
           /\ Hold(p, t).protected = p.protected /\ Hold(p, t).waiting = p.waiting
           /\ Hold(p, t).released = p.released
           /\ \A obs : Room(obs, p) /\ (\A c \in Classes : AdmissionCapacity(obs)[c] \in Int)
                 => Room(obs, Hold(p, t))
<1> DEFINE r == Hold(p, t)
           less == [c \in Classes |-> IF Need[t][c] <= p.remaining[c]
                                      THEN p.remaining[c] - Need[t][c] ELSE 0]
<1>1. \A c \in Classes : /\ Need[t][c] \in Nat /\ p.remaining[c] \in Int
                         /\ Units(ToSet(p.assigned))[c] \in Nat
    BY PlanIsRecord, NeedIsTyped
<1>2. less \in [Classes -> Int]
    BY <1>1
<1>3. \A c \in Classes : 0 <= p.remaining[c] => 0 <= less[c] /\ less[c] <= p.remaining[c]
    BY <1>1
<1>4. /\ r.assigned = p.assigned /\ r.remaining = less /\ r.carried = p.carried
      /\ r.requested = p.requested /\ r.protected = p.protected
      /\ r.waiting = p.waiting /\ r.released = p.released
    BY DEF Hold, Plan
<1>5. r \in Plan
    BY <1>2 DEF Hold, Plan
<1> HIDE DEF r, less
<1>6. ASSUME NEW obs, Room(obs, p), \A c \in Classes : AdmissionCapacity(obs)[c] \in Int
      PROVE  Room(obs, r)
  <2> SUFFICES ASSUME NEW c \in Classes
               PROVE  /\ 0 <= less[c]
                      /\ less[c] + Units(ToSet(p.assigned))[c] <= AdmissionCapacity(obs)[c]
      BY <1>4 DEF Room
  <2> DEFINE a == p.remaining[c]
             u == Units(ToSet(p.assigned))[c]
             b == less[c]
             d == AdmissionCapacity(obs)[c]
  <2>1. a \in Int /\ u \in Nat /\ b \in Int /\ d \in Int /\ 0 <= a /\ a + u <= d
      BY <1>1, <1>2, <1>6 DEF Room
  <2>2. 0 <= b /\ b <= a
      BY <1>3, <2>1
  <2> HIDE DEF a, b, u, d
  <2>3. 0 <= b /\ b + u <= d
      BY <2>1, <2>2
  <2> QED
      BY <2>3 DEF b, u, d
<1> QED
    BY <1>4, <1>5, <1>6 DEF r

LEMMA AssignedIsFinite ==
    ASSUME EpochInv
    PROVE  /\ assigned \in Seq(Tasks) /\ IsInjective(assigned)
           /\ IsFiniteSet(ToSet(assigned)) /\ ToSet(assigned) \in SUBSET Tasks
           /\ \A c \in Classes : Units(ToSet(assigned))[c] \in Nat
<1>1. assigned \in Seq(Tasks) /\ IsInjective(assigned)
    BY DEF EpochInv, TypeOK
<1>2. IsFiniteSet(ToSet(assigned)) /\ ToSet(assigned) \in SUBSET Tasks
    BY <1>1, ListIsFinite
<1> QED
    BY <1>1, <1>2, UnitsLaws

LEMMA KeptIsAssigned ==
    ASSUME EpochInv, NEW m
    PROVE  /\ Kept(m) \in Seq(Tasks) /\ IsInjective(Kept(m))
           /\ ToSet(Kept(m)) = ToSet(assigned) \ m.completed
BY AssignedIsFinite, MinusProperties DEF Kept

(* What is committed stays admissible, and the capacity bounds it. *)
LEMMA CapacityIsBounded ==
    ASSUME EpochInv, NEW obs \in Observations, NEW c \in Classes
    PROVE  /\ AdmissionCapacity(obs)[c] \in Int /\ Capacity[c] \in Nat
           /\ Units(ToSet(assigned))[c] <= AdmissionCapacity(obs)[c]
           /\ AdmissionCapacity(obs)[c] <= Capacity[c]
<1> DEFINE u == Units(ToSet(assigned))[c]
<1>1. u \in Nat /\ u <= Capacity[c]
    BY AssignedIsFinite DEF EpochInv
<1>2. Capacity[c] \in Nat
    BY AttentionConstants
<1>3. c \in Measured => obs.free[c] \in Nat
  <2> SUFFICES ASSUME c \in Measured PROVE obs.free[c] \in Nat
      OBVIOUS
  <2>1. \A x \in UNION {0 .. Capacity[d] : d \in Measured} : x \in Nat
      BY AttentionConstants
  <2>2. \/ obs.free \in [Measured -> UNION {0 .. Capacity[d] : d \in Measured}]
        \/ obs.free \in [Measured -> {0}]
      BY DEF Observations
  <2> QED
      BY <2>1, <2>2
<1>4. AdmissionCapacity(obs)[c]
      = IF c \in Measured /\ u + obs.free[c] < Capacity[c] THEN u + obs.free[c] ELSE Capacity[c]
    BY DEF AdmissionCapacity
<1> HIDE DEF u
<1>5. CASE c \in Measured /\ u + obs.free[c] < Capacity[c]
  <2> DEFINE f == obs.free[c]
  <2>1. f \in Nat /\ AdmissionCapacity(obs)[c] = u + f /\ u + f < Capacity[c]
      BY <1>3, <1>4, <1>5
  <2> HIDE DEF f
  <2> QED
      BY <1>1, <1>2, <2>1 DEF u
<1>6. CASE ~(c \in Measured /\ u + obs.free[c] < Capacity[c])
    BY <1>1, <1>2, <1>4, <1>6 DEF u
<1> QED
    BY <1>5, <1>6

LEMMA IntentsAreApart ==
    ASSUME EpochInv
    PROVE  /\ ToSet(intents) \in SUBSET Intent /\ intents \in Seq(Intent)
           /\ \A i \in ToSet(intents) : Pending(Loaded, ToSet(assigned), i) /\ i.target \in Tasks
           /\ \A i, j \in ToSet(intents) : i = j \/ Apart(i, j)
<1>1. intents \in Seq(Intent)
    BY DEF EpochInv, TypeOK
<1>2. ToSet(intents) \in SUBSET Intent
    BY <1>1, ListIsFinite
<1>3. \A i \in ToSet(intents) : Pending(Loaded, ToSet(assigned), i)
    BY DEF EpochInv, ToSet
<1>4. \A i, j \in ToSet(intents) : i = j \/ Apart(i, j)
    BY DEF EpochInv, ToSet
<1>5. \A i \in Intent : i.target \in Tasks
    BY DEF Intent
<1> QED
    BY <1>1, <1>2, <1>3, <1>4, <1>5

LEMMA StartIsSound ==
    ASSUME EpochInv, NEW m, Changed(m), NEW obs \in Observations
    PROVE  Sound(m, obs, StartOfPlan(m, obs), {i.target : i \in ToSet(intents)}, ToSet(intents))
<1> DEFINE p == StartOfPlan(m, obs)
           K == ToSet(Kept(m))
           todo == {i.target : i \in ToSet(intents)}
<1>1. /\ Kept(m) \in Seq(Tasks) /\ IsInjective(Kept(m)) /\ K = ToSet(assigned) \ m.completed
      /\ IsFiniteSet(ToSet(assigned)) /\ ToSet(assigned) \in SUBSET Tasks
    BY KeptIsAssigned, AssignedIsFinite
<1>2. \A c \in Classes : /\ Units(K)[c] \in Nat /\ Units(K)[c] <= Units(ToSet(assigned))[c]
                         /\ Units(ToSet(assigned))[c] \in Nat
  <2> SUFFICES ASSUME NEW c \in Classes
               PROVE  /\ Units(K)[c] \in Nat /\ Units(K)[c] <= Units(ToSet(assigned))[c]
                      /\ Units(ToSet(assigned))[c] \in Nat
      OBVIOUS
  <2>1. K \in SUBSET ToSet(assigned) /\ ToSet(assigned) \ K \in SUBSET ToSet(assigned)
      BY <1>1
  <2> HIDE DEF K
  <2>2. IsFiniteSet(K) /\ IsFiniteSet(ToSet(assigned) \ K)
      BY <1>1, <2>1, FS_Subset
  <2>3. Units(K)[c] \in Nat /\ Units(ToSet(assigned) \ K)[c] \in Nat
      BY <1>1, <2>1, <2>2, UnitsLaws
  <2>4. Units(ToSet(assigned))[c] = Units(K)[c] + Units(ToSet(assigned) \ K)[c]
      BY <1>1, <2>1, UnitsLaws
  <2> QED
      BY <2>3, <2>4
<1>3. \A c \in Classes : /\ AdmissionCapacity(obs)[c] \in Int
                         /\ Units(K)[c] <= AdmissionCapacity(obs)[c]
  <2> SUFFICES ASSUME NEW c \in Classes
               PROVE  /\ AdmissionCapacity(obs)[c] \in Int
                      /\ Units(K)[c] <= AdmissionCapacity(obs)[c]
      OBVIOUS
  <2>1. /\ AdmissionCapacity(obs)[c] \in Int
        /\ Units(ToSet(assigned))[c] <= AdmissionCapacity(obs)[c]
      BY CapacityIsBounded
  <2> HIDE DEF K
  <2> QED
      BY <1>2, <2>1
<1>4. /\ p.assigned = Kept(m) /\ p.carried = <<>> /\ p.requested = {} /\ p.protected = {}
      /\ p.waiting = {} /\ p.released = {}
      /\ p.remaining = [c \in Classes |-> AdmissionCapacity(obs)[c] - Units(K)[c]]
    BY DEF StartOfPlan
<1>5. p \in Plan
  <2>1. p.remaining \in [Classes -> Int]
      BY <1>2, <1>3, <1>4
  <2>2. <<>> \in Seq(Intent)
      OBVIOUS
  <2> QED
      BY <1>1, <2>1, <2>2 DEF Plan, StartOfPlan
<1> HIDE DEF p, K
<1>6. Room(obs, p)
  <2> SUFFICES ASSUME NEW c \in Classes
               PROVE  /\ 0 <= p.remaining[c]
                      /\ p.remaining[c] + Units(K)[c] <= AdmissionCapacity(obs)[c]
      BY <1>4 DEF Room, K
  <2>1. p.remaining[c] = AdmissionCapacity(obs)[c] - Units(K)[c]
      BY <1>4
  <2> QED
      BY <1>2, <1>3, <2>1
<1>7. ASSUME NEW t \in K PROVE Startable(m, t)
  <2>1. t \in ToSet(arrivals) /\ DependenciesSatisfied(Loaded, t)
      BY <1>1 DEF EpochInv, TypeOK
  <2>2. t \in ToSet(m.arrivals) \ m.completed
      BY <1>1, <2>1 DEF Changed
  <2> QED
      BY <2>1, <2>2 DEF Startable, DependenciesSatisfied, Queued, Changed, Loaded
<1>8. ASSUME NEW i \in ToSet(intents)
      PROVE  i.target \in Tasks /\ Startable(m, i.target) /\ i.target \notin ToSet(assigned) \cup K
  <2>1. Pending(Loaded, ToSet(assigned), i) /\ i.target \in Tasks
      BY IntentsAreApart
  <2>2. i.target \in ToSet(arrivals) /\ i.target \notin completed /\ i.target \notin ToSet(assigned)
      BY <2>1 DEF Pending, Queued, Loaded
  <2>3. i.target \in ToSet(m.arrivals) \ m.completed
      BY <2>2 DEF Changed
  <2>4. Deps[i.target] \subseteq m.completed
      BY <2>1 DEF Pending, DependenciesSatisfied, Loaded, Changed
  <2> QED
      BY <1>1, <2>1, <2>2, <2>3, <2>4 DEF Startable, DependenciesSatisfied, Queued
<1>9. PlannedIntents(p) = {} /\ ToSet(p.carried) = {} /\ IsInjective(p.carried)
  <2>1. ToSet(<<>>) = {} /\ IsInjective(<<>>)
      BY DEF ToSet, IsInjective
  <2> QED
      BY <1>4, <2>1 DEF PlannedIntents
<1>10. IsFiniteSet(p.requested)
    BY <1>4, FS_EmptySet
<1>11. \A t \in todo : t \in Tasks /\ Startable(m, t) /\ t \notin ToSet(assigned) \cup K
    BY <1>8
<1>12. \A i \in ToSet(intents) : i.target \in todo
    OBVIOUS
<1>13. \A i, j \in ToSet(intents) : i = j \/ Apart(i, j)
    BY IntentsAreApart
<1> HIDE DEF todo
<1>14. Sound(m, obs, p, todo, ToSet(intents))
    BY <1>1, <1>4, <1>5, <1>6, <1>7, <1>9, <1>10, <1>11, <1>12, <1>13 DEF Sound, K
<1> QED
    BY <1>14 DEF p, todo

(* A task is admitted, in the place of the tasks V that may yield to it. *)
LEMMA AdmissionIsSound ==
    ASSUME EpochInv, NEW m, NEW obs, NEW p, NEW todo, NEW later, Sound(m, obs, p, todo, later),
           NEW t \in todo, NEW V \in SUBSET ToSet(assigned),
           \A v \in V \cap ToSet(Kept(m)) : Allowed(v) /\ Outprioritizes(m, t, v),
           NEW rest \in SUBSET later, \A i \in rest : i.target # t,
           \A i \in PlannedIntents(p) \cup rest : ToSet(i.victims) \cap V = {},
           NEW r \in Plan, IsInjective(r.assigned), Room(obs, r),
           ToSet(r.assigned) = (ToSet(p.assigned) \ V) \cup {t},
           r.carried = p.carried, r.requested = p.requested, r.protected = p.protected,
           p.waiting \subseteq r.waiting, p.released \cup V \subseteq r.released
    PROVE  Sound(m, obs, r, todo \ {t}, rest)
<1> DEFINE S == ToSet(p.assigned)
           K == ToSet(Kept(m))
<1>1. PlannedIntents(r) = PlannedIntents(p)
    BY DEF PlannedIntents
<1>2. /\ t \in Tasks /\ Startable(m, t) /\ t \notin ToSet(assigned) \cup S
      /\ \A i \in PlannedIntents(p) : i.target # t
    BY DEF Sound
<1>3. \A u \in ToSet(r.assigned) : Startable(m, u)
    BY <1>2 DEF Sound
<1>4. \A u \in todo \ {t} : /\ u \in Tasks /\ Startable(m, u)
                            /\ u \notin ToSet(assigned) \cup ToSet(r.assigned)
                            /\ \A i \in PlannedIntents(r) : i.target # u
    BY <1>1 DEF Sound
<1>5. rest \subseteq ToSet(intents) /\ \A i \in rest : i.target \in todo \ {t}
    BY DEF Sound
<1>6. /\ IsInjective(r.carried) /\ ToSet(r.carried) \subseteq ToSet(intents)
      /\ \A i \in ToSet(r.carried) : i.target \in r.waiting /\ i \notin r.requested
      /\ IsFiniteSet(r.requested) /\ \A i \in r.requested : Asked(m, i)
    BY DEF Sound
<1>7. \A i \in PlannedIntents(r) :
          i.target \notin ToSet(r.assigned) /\ ToSet(i.victims) \subseteq r.protected
    BY <1>1, <1>2 DEF Sound
<1>8. \A i \in PlannedIntents(r) \cup rest : ToSet(i.victims) \cap K \subseteq ToSet(r.assigned)
  <2> SUFFICES ASSUME NEW i \in PlannedIntents(p) \cup rest, NEW v \in ToSet(i.victims) \cap K
               PROVE  v \in ToSet(r.assigned)
      BY <1>1
  <2>1. v \in S
      BY DEF Sound
  <2>2. v \notin V
      OBVIOUS
  <2> QED
      BY <2>1, <2>2
<1>9. \A i, j \in PlannedIntents(r) \cup rest : i = j \/ Apart(i, j)
    BY <1>1 DEF Sound
<1>10. K \subseteq ToSet(r.assigned) \cup r.released
  <2>1. K \subseteq S \cup p.released
      BY DEF Sound
  <2> QED
      BY <2>1
<1>11. ASSUME NEW v \in K \ ToSet(r.assigned) PROVE Justified(m, r, v)
  <2>1. CASE v \in V
    <3>1. Allowed(v) /\ Outprioritizes(m, t, v) /\ t \in ToSet(r.assigned) \ ToSet(assigned)
        BY <1>2, <2>1
    <3> QED
        BY <3>1 DEF Justified
  <2>2. CASE v \notin V
    <3>1. v \in K \ S
        BY <1>11, <2>2
    <3>2. Justified(m, p, v)
        BY <3>1 DEF Sound
    <3>3. PICK u \in S \ ToSet(assigned) : Outprioritizes(m, u, v)
        BY <3>2 DEF Justified
    <3>4. u \in ToSet(r.assigned) \ ToSet(assigned)
        BY <3>3
    <3> QED
        BY <3>2, <3>3, <3>4 DEF Justified
  <2> QED
      BY <2>1, <2>2
<1> HIDE DEF S, K
<1> QED
    BY <1>3, <1>4, <1>5, <1>6, <1>7, <1>8, <1>9, <1>10, <1>11 DEF Sound, K

(* Units are held, tasks are settled, or less remains to be dealt with. *)
LEMMA StillSound ==
    ASSUME NEW m, NEW obs, NEW p, NEW todo, NEW later, Sound(m, obs, p, todo, later),
           NEW less \in SUBSET todo, NEW rest \in SUBSET later, \A i \in rest : i.target \in less,
           NEW r \in Plan, Room(obs, r), r.assigned = p.assigned,
           r.carried = p.carried, r.requested = p.requested, r.protected = p.protected,
           r.released = p.released, p.waiting \subseteq r.waiting
    PROVE  Sound(m, obs, r, less, rest)
<1>1. PlannedIntents(r) = PlannedIntents(p)
    BY DEF PlannedIntents
<1>2. \A u \in less : /\ u \in Tasks /\ Startable(m, u)
                      /\ u \notin ToSet(assigned) \cup ToSet(r.assigned)
                      /\ \A i \in PlannedIntents(r) : i.target # u
    BY <1>1 DEF Sound
<1>3. rest \subseteq ToSet(intents)
    BY DEF Sound
<1>4. /\ IsInjective(r.assigned) /\ (\A t \in ToSet(r.assigned) : Startable(m, t))
      /\ IsInjective(r.carried) /\ ToSet(r.carried) \subseteq ToSet(intents)
      /\ \A i \in ToSet(r.carried) : i.target \in r.waiting /\ i \notin r.requested
      /\ IsFiniteSet(r.requested) /\ \A i \in r.requested : Asked(m, i)
    BY DEF Sound
<1>5. /\ \A i \in PlannedIntents(r) :
            i.target \notin ToSet(r.assigned) /\ ToSet(i.victims) \subseteq r.protected
      /\ \A i \in PlannedIntents(r) \cup rest :
            ToSet(i.victims) \cap ToSet(Kept(m)) \subseteq ToSet(r.assigned)
      /\ \A i, j \in PlannedIntents(r) \cup rest : i = j \/ Apart(i, j)
    BY <1>1 DEF Sound
<1>6. /\ ToSet(Kept(m)) \subseteq ToSet(r.assigned) \cup r.released
      /\ \A v \in ToSet(Kept(m)) \ ToSet(r.assigned) : Justified(m, r, v)
    BY DEF Sound, Justified
<1> QED
    BY <1>2, <1>3, <1>4, <1>5, <1>6 DEF Sound

LEMMA SettledChanges ==
    ASSUME NEW p \in Plan, NEW t \in Tasks
    PROVE  /\ Settled(p, t) \in Plan /\ Settled(p, t).assigned = p.assigned
           /\ Settled(p, t).remaining = p.remaining /\ Settled(p, t).requested = p.requested
           /\ Settled(p, t).released = p.released /\ Settled(p, t).carried = p.carried
           /\ Settled(p, t).protected = p.protected
           /\ Settled(p, t).waiting = p.waiting \cup {t}
BY DEF Settled, Plan

LEMMA CarryChanges ==
    ASSUME NEW p \in Plan, NEW i \in Intent
    PROVE  /\ Carry(p, i) \in Plan /\ Carry(p, i).assigned = p.assigned
           /\ Carry(p, i).remaining = p.remaining /\ Carry(p, i).requested = p.requested
           /\ Carry(p, i).released = p.released
           /\ Carry(p, i).carried = Append(p.carried, i)
           /\ Carry(p, i).protected = p.protected \cup ToSet(i.victims)
           /\ Carry(p, i).waiting = p.waiting \cup {i.target}
           /\ i.target \in Tasks /\ ToSet(i.victims) \in SUBSET Tasks /\ i.victims \in Seq(Tasks)
<1>1. i.target \in Tasks /\ i.victims \in Seq(Tasks)
    BY DEF Intent
<1>2. ToSet(i.victims) \in SUBSET Tasks
    BY <1>1, ListIsFinite
<1>3. Append(p.carried, i) \in Seq(Intent)
    BY PlanIsRecord, AppendTo
<1>4. /\ Carry(p, i).assigned = p.assigned
      /\ Carry(p, i).remaining = p.remaining /\ Carry(p, i).requested = p.requested
      /\ Carry(p, i).released = p.released
      /\ Carry(p, i).carried = Append(p.carried, i)
      /\ Carry(p, i).protected = p.protected \cup ToSet(i.victims)
      /\ Carry(p, i).waiting = p.waiting \cup {i.target}
    BY DEF Carry, Settled, Plan
<1> DEFINE more == Append(p.carried, i)
           vs == ToSet(i.victims)
           q == Settled(p, i.target)
<1>5. q \in Plan
    BY <1>1, SettledChanges
<1>6. q.carried = p.carried
    BY <1>1, SettledChanges
<1>7. Carry(p, i) = [q EXCEPT !.carried = Append(q.carried, i), !.protected = @ \cup vs]
    BY DEF Carry
<1> HIDE DEF q
<1>8. Carry(p, i) = [q EXCEPT !.carried = more, !.protected = @ \cup vs]
    BY <1>6, <1>7
<1> HIDE DEF more, vs
<1>9. Carry(p, i) \in Plan
    BY <1>2, <1>3, <1>5, <1>8 DEF Plan, more, vs
<1> QED
    BY <1>1, <1>2, <1>4, <1>9

LEMMA CarryIsSound ==
    ASSUME EpochInv, NEW m, NEW obs, NEW p, NEW todo, NEW later, Sound(m, obs, p, todo, later),
           NEW i \in later
    PROVE  Sound(m, obs, Carry(p, i), todo \ {i.target}, later \ {i})
<1> DEFINE r == Carry(p, i)
           t == i.target
<1>1. /\ p \in Plan /\ i \in ToSet(intents) /\ t \in todo
      /\ \A j \in PlannedIntents(p) : j.target # t
      /\ t \notin ToSet(p.assigned)
    BY DEF Sound
<1>2. i \in Intent
    BY <1>1, IntentsAreApart
<1>3. /\ r \in Plan /\ r.assigned = p.assigned
      /\ r.remaining = p.remaining /\ r.requested = p.requested
      /\ r.released = p.released
      /\ r.carried = Append(p.carried, i)
      /\ r.protected = p.protected \cup ToSet(i.victims)
      /\ r.waiting = p.waiting \cup {t}
    BY <1>1, <1>2, CarryChanges
<1>4. i \notin PlannedIntents(p)
    BY <1>1
<1>5. i \notin ToSet(p.carried) /\ i \notin p.requested
    BY <1>4 DEF PlannedIntents
<1>6. ToSet(r.carried) = ToSet(p.carried) \cup {i} /\ IsInjective(r.carried)
  <2>1. p.carried \in Seq(Intent) /\ IsInjective(p.carried)
      BY <1>1, PlanIsRecord DEF Sound
  <2> QED
      BY <1>2, <1>3, <1>5, <2>1, AppendTo
<1>7. PlannedIntents(r) = PlannedIntents(p) \cup {i}
    BY <1>3, <1>6 DEF PlannedIntents
<1> HIDE DEF r
<1>8. \A j \in later : j = i \/ j.target # t
    BY DEF Sound, Apart
<1>9. Room(obs, r) /\ IsInjective(r.assigned) /\ \A u \in ToSet(r.assigned) : Startable(m, u)
    BY <1>3 DEF Sound, Room
<1>10. \A u \in todo \ {t} : /\ u \in Tasks /\ Startable(m, u)
                             /\ u \notin ToSet(assigned) \cup ToSet(r.assigned)
                             /\ \A j \in PlannedIntents(r) : j.target # u
    BY <1>3, <1>7 DEF Sound
<1>11. later \ {i} \subseteq ToSet(intents) /\ \A j \in later \ {i} : j.target \in todo \ {t}
    BY <1>8 DEF Sound
<1>12. /\ ToSet(r.carried) \subseteq ToSet(intents)
       /\ \A j \in ToSet(r.carried) : j.target \in r.waiting /\ j \notin r.requested
       /\ IsFiniteSet(r.requested) /\ \A j \in r.requested : Asked(m, j)
    BY <1>1, <1>3, <1>5, <1>6 DEF Sound
<1>13. \A j \in PlannedIntents(r) :
           j.target \notin ToSet(r.assigned) /\ ToSet(j.victims) \subseteq r.protected
    BY <1>1, <1>3, <1>7 DEF Sound
<1>14. PlannedIntents(r) \cup (later \ {i}) \subseteq PlannedIntents(p) \cup later
    BY <1>7
<1>15. /\ \A j \in PlannedIntents(r) \cup (later \ {i}) :
             ToSet(j.victims) \cap ToSet(Kept(m)) \subseteq ToSet(r.assigned)
       /\ \A j, k \in PlannedIntents(r) \cup (later \ {i}) : j = k \/ Apart(j, k)
    BY <1>3, <1>14 DEF Sound
<1>16. /\ ToSet(Kept(m)) \subseteq ToSet(r.assigned) \cup r.released
       /\ \A v \in ToSet(Kept(m)) \ ToSet(r.assigned) : Justified(m, r, v)
    BY <1>3 DEF Sound, Justified
<1>17. r \in Plan
    BY <1>3
<1> HIDE DEF t
<1> QED
    BY <1>6, <1>9, <1>10, <1>11, <1>12, <1>13, <1>15, <1>16, <1>17 DEF Sound, r, t

(* A new intent is requested for t; nothing is released for it yet.           *)
LEMMA RequestChanges ==
    ASSUME NEW p \in Plan, NEW t \in Tasks, NEW vs \in Seq(Tasks)
    PROVE  LET i == [target |-> t, victims |-> vs, acked |-> {}]
               r == Request(p, t, vs)
           IN  /\ i \in Intent /\ r \in Plan /\ r.assigned = p.assigned
               /\ r.remaining = p.remaining /\ r.requested = p.requested \cup {i}
               /\ r.released = p.released /\ r.carried = p.carried
               /\ r.protected = p.protected \cup ToSet(vs) /\ r.waiting = p.waiting
<1> DEFINE i == [target |-> t, victims |-> vs, acked |-> {}]
           r == Request(p, t, vs)
           V == ToSet(vs)
<1>1. i \in Intent
    BY DEF Intent
<1>2. V \in SUBSET Tasks
    BY ListIsFinite
<1>3. r = [p EXCEPT !.requested = @ \cup {i}, !.protected = @ \cup V]
    BY DEF Request
<1> HIDE DEF i, r, V
<1>4. /\ r \in Plan /\ r.assigned = p.assigned
      /\ r.remaining = p.remaining /\ r.requested = p.requested \cup {i}
      /\ r.released = p.released /\ r.carried = p.carried
      /\ r.protected = p.protected \cup V /\ r.waiting = p.waiting
    BY <1>1, <1>2, <1>3 DEF Plan
<1> QED
    BY <1>1, <1>4 DEF i, r, V

LEMMA RequestIsSound ==
    ASSUME EpochInv, NEW m, NEW obs, NEW p, NEW todo, Sound(m, obs, p, todo, {}),
           NEW t \in todo, NEW vs \in Seq(Tasks),
           ToSet(vs) \subseteq ToSet(Kept(m)) \cap ToSet(p.assigned),
           ToSet(vs) \cap p.protected = {}, \A v \in ToSet(vs) : MayYield(m, t, v)
    PROVE  Sound(m, obs, Request(p, t, vs), todo \ {t}, {})
<1> DEFINE i == [target |-> t, victims |-> vs, acked |-> {}]
           r == Request(p, t, vs)
<1>1. /\ p \in Plan /\ t \in Tasks /\ Startable(m, t)
      /\ t \notin ToSet(assigned) \cup ToSet(p.assigned)
      /\ \A j \in PlannedIntents(p) : j.target # t
    BY DEF Sound
<1>2. i.target = t /\ i.victims = vs /\ i.acked = {}
    OBVIOUS
<1>3. /\ i \in Intent /\ r \in Plan /\ r.assigned = p.assigned
      /\ r.remaining = p.remaining /\ r.requested = p.requested \cup {i}
      /\ r.released = p.released /\ r.carried = p.carried
      /\ r.protected = p.protected \cup ToSet(vs) /\ r.waiting = p.waiting
    BY <1>1, RequestChanges
<1> HIDE DEF i, r
<1>4. PlannedIntents(r) = PlannedIntents(p) \cup {i}
    BY <1>3 DEF PlannedIntents
<1>5. Asked(m, i)
    BY <1>1, <1>2 DEF Asked
<1>6. Room(obs, r) /\ IsInjective(r.assigned) /\ \A u \in ToSet(r.assigned) : Startable(m, u)
    BY <1>3 DEF Sound, Room
<1>7. \A u \in todo \ {t} : /\ u \in Tasks /\ Startable(m, u)
                            /\ u \notin ToSet(assigned) \cup ToSet(r.assigned)
                            /\ \A j \in PlannedIntents(r) : j.target # u
    BY <1>2, <1>3, <1>4 DEF Sound
<1>8. IsInjective(r.carried) /\ ToSet(r.carried) \subseteq ToSet(intents)
    BY <1>3 DEF Sound
<1>9. \A j \in ToSet(r.carried) : j.target \in r.waiting /\ j \notin r.requested
  <2> SUFFICES ASSUME NEW j \in ToSet(p.carried) PROVE j.target \in p.waiting /\ j \notin r.requested
      BY <1>3
  <2>1. j \in PlannedIntents(p) /\ j.target # t
      BY <1>1 DEF PlannedIntents
  <2>2. j.target \in p.waiting /\ j \notin p.requested
      BY DEF Sound
  <2> QED
      BY <1>2, <1>3, <2>1, <2>2
<1>10. IsFiniteSet(r.requested) /\ \A j \in r.requested : Asked(m, j)
  <2>1. IsFiniteSet(p.requested) /\ \A j \in p.requested : Asked(m, j)
      BY DEF Sound
  <2>2. IsFiniteSet(p.requested \cup {i})
      BY <2>1, FS_AddElement
  <2>3. \A j \in p.requested \cup {i} : Asked(m, j)
      BY <1>5, <2>1
  <2> QED
      BY <1>3, <2>2, <2>3
<1>11. \A j \in PlannedIntents(r) :
           j.target \notin ToSet(r.assigned) /\ ToSet(j.victims) \subseteq r.protected
    BY <1>1, <1>2, <1>3, <1>4 DEF Sound
<1>12. \A j \in PlannedIntents(r) :
           ToSet(j.victims) \cap ToSet(Kept(m)) \subseteq ToSet(r.assigned)
    BY <1>2, <1>3, <1>4 DEF Sound
<1>13. \A j, k \in PlannedIntents(r) : j = k \/ Apart(j, k)
  <2>1. \A j, k \in PlannedIntents(p) : j = k \/ Apart(j, k)
      BY DEF Sound
  <2>2. ASSUME NEW j \in PlannedIntents(p) PROVE Apart(i, j) /\ Apart(j, i)
    <3>1. ToSet(j.victims) \subseteq p.protected /\ j.target # t
        BY <1>1 DEF Sound
    <3> QED
        BY <1>2, <3>1 DEF Apart
  <2> QED
      BY <1>4, <2>1, <2>2
<1>14. /\ ToSet(Kept(m)) \subseteq ToSet(r.assigned) \cup r.released
       /\ \A v \in ToSet(Kept(m)) \ ToSet(r.assigned) : Justified(m, r, v)
    BY <1>3 DEF Sound, Justified
<1>15. r \in Plan
    BY <1>3
<1>16. PlannedIntents(r) \cup {} = PlannedIntents(r)
    OBVIOUS
<1> QED
    BY <1>6, <1>7, <1>8, <1>9, <1>10, <1>11, <1>12, <1>13, <1>14, <1>15, <1>16 DEF Sound, r

(* One pending intent is dealt with: it is carried over, dropped, or executed *)
(* once its checkpoints are in.                                               *)
LEMMA VictimsAreAllowed ==
    ASSUME EpochInv, NEW m, Changed(m), NEW i \in ToSet(intents), ReadyToExecute(i)
    PROVE  /\ ToSet(i.victims) \in SUBSET ToSet(assigned)
           /\ \A v \in ToSet(i.victims) : Allowed(v) /\ Outprioritizes(m, i.target, v)
<1>1. Pending(Loaded, ToSet(assigned), i) /\ ToSet(intents) \in SUBSET Intent
    BY IntentsAreApart
<1>2. PICK k \in DOMAIN intents : i = intents[k]
    BY DEF ToSet
<1>3. ToSet(i.victims) \subseteq ToSet(assigned) /\ ToSet(assigned) \in SUBSET Tasks
    BY <1>1, AssignedIsFinite DEF Pending
<1>4. ASSUME NEW v \in ToSet(i.victims) PROVE Allowed(v) /\ Outprioritizes(m, i.target, v)
  <2>1. Policy[v] # "ATOMIC" /\ Outprioritizes(Loaded, i.target, v)
      BY <1>1 DEF Pending
  <2>2. Outprioritizes(m, i.target, v)
    <3>1. m.waited = Loaded.waited
        BY DEF Changed, Loaded
    <3> QED
        BY <2>1, <3>1 DEF Outprioritizes, EffectivePriority, Due
  <2>3. Policy[v] \in Policies
      BY <1>3, AttentionConstants
  <2>4. Policy[v] = "CHECKPOINT_ONLY" => v \in intents[k].acked
      BY <1>2 DEF ReadyToExecute, CheckpointVictims
  <2> QED
      BY <2>1, <2>2, <2>3, <2>4 DEF Allowed, Policies
<1> QED
    BY <1>3, <1>4

LEMMA ResolveIsSound ==
    ASSUME EpochInv, NEW m, Changed(m), NEW obs \in Observations, NEW p, NEW todo, NEW later,
           Sound(m, obs, p, todo, later), NEW i \in later
    PROVE  /\ Sound(m, obs, ResolveIntent(obs, p, i), todo \ {i.target}, later \ {i})
           /\ ResolveIntent(obs, p, i).requested = p.requested
<1> DEFINE t == i.target
           less == todo \ {t}
           rest == later \ {i}
           V == ToSet(i.victims)
           freed == Release(p, V)
<1>1. /\ p \in Plan /\ i \in ToSet(intents) /\ t \in todo /\ t \in Tasks
      /\ t \notin ToSet(assigned) \cup ToSet(p.assigned) /\ i \in Intent
  <2>1. ToSet(intents) \in SUBSET Intent
      BY IntentsAreApart
  <2> QED
      BY <2>1 DEF Sound
<1>2. \A j \in PlannedIntents(p) : j.target # t
    BY <1>1 DEF Sound
<1>3. \A j \in PlannedIntents(p) \cup rest : Apart(i, j)
  <2>1. \A j, k \in PlannedIntents(p) \cup later : j = k \/ Apart(j, k)
      BY DEF Sound
  <2> QED
      BY <1>2, <2>1
<1>4. /\ \A j \in rest : j.target \in less /\ j.target # t
      /\ less \in SUBSET todo /\ rest \in SUBSET later
  <2>1. \A j \in later : j.target \in todo
      BY DEF Sound
  <2> QED
      BY <1>3, <2>1 DEF Apart
<1>5. \A c \in Classes : AdmissionCapacity(obs)[c] \in Int
    BY CapacityIsBounded
<1>6. IsInjective(p.assigned) /\ Room(obs, p)
    BY DEF Sound
<1>7. Sound(m, obs, Carry(p, i), less, rest)
    BY CarryIsSound
<1>8. Carry(p, i) \in Plan /\ Carry(p, i).requested = p.requested
    BY <1>1, CarryChanges
<1>9. V \in SUBSET Tasks
    BY <1>1, CarryChanges
<1> HIDE DEF t, less, rest, V
<1>10. CASE ~obs.healthy
    BY <1>7, <1>8, <1>10 DEF ResolveIntent, t, less, rest
<1>11. CASE obs.healthy /\ Fits(t, p.remaining)
  <2> DEFINE a == Admit(p, t)
             r == Settled(a, t)
  <2>1. /\ a \in Plan /\ ToSet(a.assigned) = ToSet(p.assigned) \cup {t}
        /\ IsInjective(a.assigned) /\ a.carried = p.carried /\ a.requested = p.requested
        /\ a.protected = p.protected /\ a.waiting = p.waiting /\ a.released = p.released
        /\ Room(obs, a)
      BY <1>1, <1>6, <1>11, AdmitChanges
  <2> HIDE DEF a
  <2>2. /\ r \in Plan /\ r.assigned = a.assigned /\ r.remaining = a.remaining
        /\ r.requested = a.requested /\ r.released = a.released /\ r.carried = a.carried
        /\ r.protected = a.protected /\ r.waiting = a.waiting \cup {t}
      BY <1>1, <2>1, SettledChanges
  <2> HIDE DEF r
  <2>3. Room(obs, r) /\ IsInjective(r.assigned)
      BY <2>1, <2>2 DEF Room
  <2>4. \A j \in PlannedIntents(p) \cup rest : ToSet(j.victims) \cap {} = {}
      OBVIOUS
  <2>5. ToSet(r.assigned) = (ToSet(p.assigned) \ {}) \cup {t}
      BY <2>1, <2>2
  <2>6. /\ r.carried = p.carried /\ r.requested = p.requested /\ r.protected = p.protected
        /\ p.waiting \subseteq r.waiting /\ p.released \cup {} \subseteq r.released
      BY <2>1, <2>2
  <2>7. /\ {} \in SUBSET ToSet(assigned)
        /\ \A v \in {} \cap ToSet(Kept(m)) : Allowed(v) /\ Outprioritizes(m, t, v)
      OBVIOUS
  <2>8. Sound(m, obs, r, todo \ {t}, rest)
      BY <1>1, <1>4, <2>2, <2>3, <2>4, <2>5, <2>6, <2>7, AdmissionIsSound
  <2>9. ResolveIntent(obs, p, i) = r
      BY <1>11 DEF ResolveIntent, r, a, t
  <2> QED
      BY <2>6, <2>8, <2>9 DEF t, rest
<1>12. CASE obs.healthy /\ ~Fits(t, p.remaining) /\ ~ReadyToExecute(i)
  <2> DEFINE q == Carry(p, i)
             r == Hold(q, t)
  <2>1. q \in Plan /\ q.requested = p.requested /\ Sound(m, obs, q, less, rest) /\ Room(obs, q)
      BY <1>7, <1>8 DEF Sound
  <2> HIDE DEF q
  <2>2. /\ r \in Plan /\ r.assigned = q.assigned /\ r.carried = q.carried
        /\ r.requested = q.requested /\ r.protected = q.protected /\ r.waiting = q.waiting
        /\ r.released = q.released /\ Room(obs, r)
      BY <1>1, <1>5, <2>1, HoldChanges
  <2> HIDE DEF r
  <2>3. less \in SUBSET less /\ rest \in SUBSET rest /\ q.waiting \subseteq r.waiting
      BY <2>2
  <2>4. \A j \in rest : j.target \in less
      BY <1>4
  <2>5. Sound(m, obs, r, less, rest)
      BY <2>1, <2>2, <2>3, <2>4, StillSound
  <2>6. ResolveIntent(obs, p, i) = r
      BY <1>12 DEF ResolveIntent, r, q, t
  <2> QED
      BY <2>1, <2>2, <2>5, <2>6 DEF t, less, rest
<1>13. CASE /\ obs.healthy /\ ~Fits(t, p.remaining) /\ ReadyToExecute(i)
            /\ Fits(t, freed.remaining)
  <2> DEFINE a == Admit(freed, t)
             r == Settled(a, t)
  <2>1. /\ freed \in Plan /\ ToSet(freed.assigned) = ToSet(p.assigned) \ V
        /\ IsInjective(freed.assigned) /\ freed.carried = p.carried
        /\ freed.requested = p.requested /\ freed.protected = p.protected
        /\ freed.waiting = p.waiting /\ freed.released = p.released \cup V
        /\ Room(obs, freed)
      BY <1>1, <1>6, <1>9, ReleaseChanges
  <2>2. Fits(t, freed.remaining)
      BY <1>13
  <2>3. ResolveIntent(obs, p, i) = r
      BY <1>13 DEF ResolveIntent, ExecuteIntent, t, V
  <2> HIDE DEF freed
  <2>4. /\ a \in Plan /\ ToSet(a.assigned) = ToSet(freed.assigned) \cup {t}
        /\ IsInjective(a.assigned) /\ a.carried = freed.carried
        /\ a.requested = freed.requested /\ a.protected = freed.protected
        /\ a.waiting = freed.waiting /\ a.released = freed.released /\ Room(obs, a)
    <3>1. t \notin ToSet(freed.assigned)
        BY <1>1, <2>1
    <3> QED
        BY <1>1, <2>1, <2>2, <3>1, AdmitChanges
  <2> HIDE DEF a
  <2>5. /\ r \in Plan /\ r.assigned = a.assigned /\ r.remaining = a.remaining
        /\ r.requested = a.requested /\ r.released = a.released /\ r.carried = a.carried
        /\ r.protected = a.protected /\ r.waiting = a.waiting \cup {t}
      BY <1>1, <2>4, SettledChanges
  <2> HIDE DEF r
  <2>6. Room(obs, r) /\ IsInjective(r.assigned)
      BY <2>4, <2>5 DEF Room
  <2>7. \A j \in PlannedIntents(p) \cup rest : ToSet(j.victims) \cap V = {}
      BY <1>3 DEF Apart, V
  <2>8. ToSet(r.assigned) = (ToSet(p.assigned) \ V) \cup {t}
      BY <2>1, <2>4, <2>5
  <2>9. /\ r.carried = p.carried /\ r.requested = p.requested /\ r.protected = p.protected
        /\ p.waiting \subseteq r.waiting /\ p.released \cup V \subseteq r.released
      BY <2>1, <2>4, <2>5
  <2>10. /\ V \in SUBSET ToSet(assigned)
         /\ \A v \in V \cap ToSet(Kept(m)) : Allowed(v) /\ Outprioritizes(m, t, v)
      BY <1>1, <1>13, VictimsAreAllowed DEF t, V
  <2>11. Sound(m, obs, r, todo \ {t}, rest)
      BY <1>1, <1>4, <2>5, <2>6, <2>7, <2>8, <2>9, <2>10, AdmissionIsSound
  <2> QED
      BY <2>3, <2>9, <2>11 DEF t, rest
<1>14. CASE /\ obs.healthy /\ ~Fits(t, p.remaining) /\ ReadyToExecute(i)
            /\ ~Fits(t, freed.remaining)
  <2>1. ResolveIntent(obs, p, i) = p
      BY <1>14 DEF ResolveIntent, ExecuteIntent, t, V
  <2>2. Sound(m, obs, p, less, rest)
      BY <1>1, <1>4, <1>6, StillSound
  <2> QED
      BY <2>1, <2>2 DEF t, less, rest
<1> QED
    BY <1>10, <1>11, <1>12, <1>13, <1>14

LEMMA ResolveIsPlan ==
    ASSUME NEW obs, NEW p \in Plan, NEW i \in Intent
    PROVE  ResolveIntent(obs, p, i) \in Plan
<1>1. i.target \in Tasks /\ ToSet(i.victims) \in SUBSET Tasks /\ Carry(p, i) \in Plan
    BY CarryChanges
<1>2. Hold(Carry(p, i), i.target) \in Plan
    BY <1>1, HoldChanges
<1>3. \A q \in Plan : Settled(Admit(q, i.target), i.target) \in Plan
    BY <1>1, AdmitChanges, SettledChanges
<1>4. Release(p, ToSet(i.victims)) \in Plan
    BY <1>1, ReleaseChanges
<1> QED
    BY <1>1, <1>2, <1>3, <1>4 DEF ResolveIntent, ExecuteIntent

(* The room of the waiting targets.  Beside what the plan gives out and, on a *)
(* healthy host, may still give out, there is room for the target of i once   *)
(* its victims have yielded.                                                  *)
LeavesRoom(obs, p, i) ==
    \A c \in Classes :
        (IF obs.healthy THEN p.remaining[c] ELSE 0)
            + Units(ToSet(p.assigned) \ ToSet(i.victims))[c] + Need[i.target][c] <= Capacity[c]

TargetAdmitted(p) == \E k \in ToSet(intents) : k.target \in ToSet(p.assigned)

RoomIsLeft(obs, p) ==
    \A i \in PlannedIntents(p) :
        \/ LeavesRoom(obs, p, i)
        \/ i \in ToSet(intents) /\ (HasRoom(i) => TargetAdmitted(p))

(* While the intents are resolved, only their targets are admitted. *)
OnlyTargetsAdmitted(p) ==
    ToSet(p.assigned) \subseteq ToSet(assigned) \cup {k.target : k \in ToSet(intents)}

LEMMA UnitsBeside ==
    ASSUME NEW p \in Plan, NEW W, NEW c \in Classes
    PROVE  /\ Units(ToSet(p.assigned) \ W)[c] \in Nat
           /\ Units(ToSet(p.assigned) \ W)[c] <= Units(ToSet(p.assigned))[c]
<1> DEFINE S == ToSet(p.assigned)
<1>1. IsFiniteSet(S) /\ S \in SUBSET Tasks
    BY PlanIsRecord
<1> HIDE DEF S
<1>2. /\ IsFiniteSet(S \ W) /\ IsFiniteSet(S \ (S \ W)) /\ S \ W \in SUBSET S
      /\ S \ W \in SUBSET Tasks /\ S \ (S \ W) \in SUBSET Tasks
    BY <1>1, FS_Subset
<1>3. Units(S \ W)[c] \in Nat /\ Units(S \ (S \ W))[c] \in Nat /\ Units(S)[c] \in Nat
    BY <1>1, <1>2, UnitsLaws
<1>4. Units(S)[c] = Units(S \ W)[c] + Units(S \ (S \ W))[c]
    BY <1>1, <1>2, UnitsLaws
<1>5. Units(S \ W)[c] <= Units(S)[c]
    BY <1>3, <1>4
<1> QED
    BY <1>3, <1>5 DEF S

(* Room that is left stays when a task is admitted, *)
LEMMA AdmittingLeavesRoom ==
    ASSUME NEW obs, obs.healthy, NEW p \in Plan, NEW t \in Tasks, t \notin ToSet(p.assigned),
           NEW i \in Intent, LeavesRoom(obs, p, i)
    PROVE  LeavesRoom(obs, Admit(p, t), i)
<1> DEFINE r == Admit(p, t)
           W == ToSet(i.victims)
           S == ToSet(p.assigned)
<1>1. /\ r.remaining = [c \in Classes |-> p.remaining[c] - Need[t][c]]
      /\ ToSet(r.assigned) = S \cup {t}
  <2>1. r.remaining = [c \in Classes |-> p.remaining[c] - Need[t][c]]
      BY DEF Admit, Plan
  <2> QED
      BY <2>1, AdmitChanges
<1>2. IsFiniteSet(S) /\ S \in SUBSET Tasks /\ t \notin S
    BY PlanIsRecord
<1>3. i.target \in Tasks
    BY DEF Intent
<1> HIDE DEF r, W, S
<1>4. ASSUME NEW c \in Classes
      PROVE  (IF obs.healthy THEN r.remaining[c] ELSE 0)
                 + Units(ToSet(r.assigned) \ W)[c] + Need[i.target][c] <= Capacity[c]
  <2> DEFINE u == Units(S \ W)[c]
             v == Units(ToSet(r.assigned) \ W)[c]
             a == p.remaining[c]
             b == r.remaining[c]
             n == Need[t][c]
             g == Need[i.target][c]
             d == Capacity[c]
  <2>1. a \in Int /\ n \in Nat /\ g \in Nat /\ d \in Nat /\ b = a - n
      BY <1>1, <1>3, PlanIsRecord, NeedIsTyped, AttentionConstants
  <2>2. IsFiniteSet(S \ W) /\ S \ W \in SUBSET Tasks /\ t \in Tasks \ (S \ W)
      BY <1>2, FS_Subset
  <2>3. u \in Nat /\ Units((S \ W) \cup {t})[c] = u + n
      BY <2>2, UnitsLaws
  <2>4. v = u \/ v = u + n
    <3>1. CASE t \in W
      <4>1. ToSet(r.assigned) \ W = S \ W
          BY <1>1, <3>1
      <4> QED
          BY <4>1
    <3>2. CASE t \notin W
      <4>1. ToSet(r.assigned) \ W = (S \ W) \cup {t}
          BY <1>1, <3>2
      <4> QED
          BY <2>3, <4>1
    <3> QED
        BY <3>1, <3>2
  <2>5. a + u + g <= d
      BY DEF LeavesRoom, W, S
  <2> HIDE DEF u, v, a, b, n, g, d
  <2>6. b + v + g <= d
      BY <2>1, <2>3, <2>4, <2>5
  <2> QED
      BY <2>6 DEF b, v, g, d
<1> QED
    BY <1>4 DEF LeavesRoom, r, W

(* when tasks that are not its victims make room for another, *)
LEMMA ReleasingLeavesRoom ==
    ASSUME NEW obs, obs.healthy, NEW p \in Plan, NEW V \in SUBSET Tasks,
           NEW i \in Intent, ToSet(i.victims) \cap V = {}, LeavesRoom(obs, p, i)
    PROVE  LeavesRoom(obs, Release(p, V), i)
<1> DEFINE r == Release(p, V)
           W == ToSet(i.victims)
           S == ToSet(p.assigned)
           F == V \cap S
<1>1. /\ ToSet(r.assigned) = S \ V
      /\ \A c \in Classes : Units(F)[c] \in Nat /\ r.remaining[c] = p.remaining[c] + Units(F)[c]
    BY ReleaseChanges
<1>2. IsFiniteSet(S \ W) /\ S \ W \in SUBSET Tasks /\ F \in SUBSET (S \ W)
      /\ (S \ W) \ F = (S \ V) \ W /\ IsFiniteSet((S \ V) \ W) /\ (S \ V) \ W \in SUBSET Tasks
  <2>1. IsFiniteSet(S) /\ S \in SUBSET Tasks
      BY PlanIsRecord
  <2> QED
      BY <2>1, FS_Subset
<1>3. i.target \in Tasks
    BY DEF Intent
<1> HIDE DEF r, W, S, F
<1>4. ASSUME NEW c \in Classes
      PROVE  (IF obs.healthy THEN r.remaining[c] ELSE 0)
                 + Units(ToSet(r.assigned) \ W)[c] + Need[i.target][c] <= Capacity[c]
  <2> DEFINE u == Units(S \ W)[c]
             v == Units((S \ V) \ W)[c]
             a == p.remaining[c]
             f == Units(F)[c]
             g == Need[i.target][c]
             d == Capacity[c]
  <2>1. a \in Int /\ f \in Nat /\ g \in Nat /\ d \in Nat
      BY <1>1, <1>3, PlanIsRecord, NeedIsTyped, AttentionConstants
  <2>2. u \in Nat /\ v \in Nat /\ u = f + v
      BY <1>2, UnitsLaws
  <2>3. a + u + g <= d
      BY DEF LeavesRoom, W, S
  <2> HIDE DEF u, v, a, f, g, d
  <2>4. (a + f) + v + g <= d
      BY <2>1, <2>2, <2>3
  <2> QED
      BY <1>1, <2>4 DEF a, f, v, g, d
<1> QED
    BY <1>4 DEF LeavesRoom, r, W

(* and when units are held. *)
LEMMA HoldingLeavesRoom ==
    ASSUME NEW obs, obs.healthy, NEW p \in Plan, NEW t \in Tasks, Room(obs, p),
           NEW i \in Intent, LeavesRoom(obs, p, i)
    PROVE  LeavesRoom(obs, Hold(p, t), i)
<1> DEFINE r == Hold(p, t)
<1>1. /\ r.assigned = p.assigned
      /\ r.remaining = [c \in Classes |-> IF Need[t][c] <= p.remaining[c]
                                          THEN p.remaining[c] - Need[t][c] ELSE 0]
  <2>1. r.remaining = [c \in Classes |-> IF Need[t][c] <= p.remaining[c]
                                         THEN p.remaining[c] - Need[t][c] ELSE 0]
      BY DEF Hold, Plan
  <2> QED
      BY <2>1, HoldChanges
<1>2. i.target \in Tasks
    BY DEF Intent
<1> HIDE DEF r
<1>3. ASSUME NEW c \in Classes
      PROVE  (IF obs.healthy THEN r.remaining[c] ELSE 0)
                 + Units(ToSet(r.assigned) \ ToSet(i.victims))[c] + Need[i.target][c] <= Capacity[c]
  <2> DEFINE u == Units(ToSet(p.assigned) \ ToSet(i.victims))[c]
             a == p.remaining[c]
             b == r.remaining[c]
             g == Need[i.target][c]
             d == Capacity[c]
  <2>1. /\ a \in Int /\ Need[t][c] \in Nat /\ g \in Nat /\ d \in Nat /\ u \in Nat
        /\ b = IF Need[t][c] <= a THEN a - Need[t][c] ELSE 0
      BY <1>1, <1>2, PlanIsRecord, NeedIsTyped, AttentionConstants, UnitsBeside
  <2>2. 0 <= a
      BY DEF Room
  <2>3. b \in Int /\ b <= a
      BY <2>1, <2>2
  <2>4. a + u + g <= d
      BY DEF LeavesRoom
  <2> HIDE DEF u, a, b, g, d
  <2>5. b + u + g <= d
      BY <2>1, <2>3, <2>4
  <2> QED
      BY <1>1, <2>5 DEF u, b, g, d
<1> QED
    BY <1>3 DEF LeavesRoom, r

(* A target whose units are held has room: what it lacks, its victims have.   *)
LEMMA HeldTargetHasRoom ==
    ASSUME EpochInv, NEW obs \in Observations, obs.healthy, NEW p \in Plan, Room(obs, p),
           NEW i \in Intent,
           \A c \in Classes :
               Need[i.target][c] > p.remaining[c] =>
                   Units(ToSet(p.assigned) \ ToSet(i.victims))[c] + Need[i.target][c] <= Capacity[c]
    PROVE  LeavesRoom(obs, Hold(p, i.target), i)
<1> DEFINE t == i.target
           r == Hold(p, t)
<1>1. t \in Tasks
    BY DEF Intent
<1>2. /\ r.assigned = p.assigned
      /\ r.remaining = [c \in Classes |-> IF Need[t][c] <= p.remaining[c]
                                          THEN p.remaining[c] - Need[t][c] ELSE 0]
  <2>1. r.remaining = [c \in Classes |-> IF Need[t][c] <= p.remaining[c]
                                         THEN p.remaining[c] - Need[t][c] ELSE 0]
      BY DEF Hold, Plan
  <2> QED
      BY <1>1, <2>1, HoldChanges
<1> HIDE DEF r
<1>3. ASSUME NEW c \in Classes
      PROVE  (IF obs.healthy THEN r.remaining[c] ELSE 0)
                 + Units(ToSet(r.assigned) \ ToSet(i.victims))[c] + Need[t][c] <= Capacity[c]
  <2> DEFINE u == Units(ToSet(p.assigned) \ ToSet(i.victims))[c]
             s == Units(ToSet(p.assigned))[c]
             a == p.remaining[c]
             b == r.remaining[c]
             g == Need[t][c]
             d == Capacity[c]
             e == AdmissionCapacity(obs)[c]
  <2>1. /\ a \in Int /\ g \in Nat /\ d \in Nat /\ u \in Nat /\ s \in Nat /\ u <= s
        /\ b = IF g <= a THEN a - g ELSE 0
      BY <1>1, <1>2, PlanIsRecord, NeedIsTyped, AttentionConstants, UnitsBeside
  <2>2. e \in Int /\ e <= d
      BY CapacityIsBounded
  <2>3. a + s <= e
      BY DEF Room
  <2>4. g > a => u + g <= d
      OBVIOUS
  <2> HIDE DEF u, s, a, b, g, d, e
  <2>5. ASSUME g <= a PROVE b + u + g <= d
      BY <2>1, <2>2, <2>3, <2>5
  <2>6. ASSUME ~(g <= a) PROVE b + u + g <= d
    <3>1. g > a /\ b = 0
        BY <2>1, <2>6
    <3>2. u + g <= d
        BY <2>4, <3>1
    <3> QED
        BY <2>1, <3>1, <3>2
  <2>7. b + u + g <= d
      BY <2>1, <2>2, <2>3, <2>5, <2>6
  <2> QED
      BY <1>2, <2>7 DEF u, b, g, d
<1> QED
    BY <1>3 DEF LeavesRoom, r, t

(* One pending intent: if it is kept, its target still has the room it had.   *)
LEMMA ResolveLeavesRoom ==
    ASSUME EpochInv, NEW m, Changed(m), NEW obs \in Observations, NEW p, NEW todo, NEW later,
           Sound(m, obs, p, todo, later), NEW i \in later, p.requested = {},
           RoomIsLeft(obs, p), OnlyTargetsAdmitted(p)
    PROVE  /\ RoomIsLeft(obs, ResolveIntent(obs, p, i))
           /\ OnlyTargetsAdmitted(ResolveIntent(obs, p, i))
<1> DEFINE t == i.target
           V == ToSet(i.victims)
           freed == Release(p, V)
           q == Carry(p, i)
<1>1. p \in Plan /\ Room(obs, p) /\ i \in ToSet(intents) /\ ToSet(p.carried) \subseteq ToSet(intents)
    BY DEF Sound
<1>2. i \in Intent /\ t \in Tasks /\ V \in SUBSET Tasks /\ ToSet(intents) \in SUBSET Intent
  <2>1. ToSet(intents) \in SUBSET Intent
      BY IntentsAreApart
  <2> QED
      BY <1>1, <2>1, CarryChanges
<1>3. /\ q \in Plan /\ q.assigned = p.assigned /\ q.remaining = p.remaining
      /\ q.requested = {} /\ ToSet(q.carried) = ToSet(p.carried) \cup {i}
  <2>1. q.carried = Append(p.carried, i) /\ p.carried \in Seq(Intent)
      BY <1>1, <1>2, CarryChanges, PlanIsRecord
  <2>2. ToSet(q.carried) = ToSet(p.carried) \cup {i}
      BY <1>2, <2>1, AppendTo
  <2>3. /\ q \in Plan /\ q.assigned = p.assigned /\ q.remaining = p.remaining
        /\ q.requested = p.requested
      BY <1>1, <1>2, CarryChanges
  <2> QED
      BY <2>2, <2>3
<1>4. PlannedIntents(q) = PlannedIntents(p) \cup {i} /\ PlannedIntents(p) = ToSet(p.carried)
    BY <1>3 DEF PlannedIntents
<1> HIDE DEF t, V, q
<1>5. Room(obs, q) /\ TargetAdmitted(q) = TargetAdmitted(p) /\ OnlyTargetsAdmitted(q)
    BY <1>1, <1>3 DEF Room, TargetAdmitted, OnlyTargetsAdmitted
<1>6. ASSUME HasRoom(i), ~TargetAdmitted(p), NEW c \in Classes
      PROVE  Units(ToSet(p.assigned) \ V)[c] + Need[t][c] <= Capacity[c]
  <2> DEFINE A == ToSet(assigned) \ V
             B == ToSet(p.assigned) \ V
  <2>1. ToSet(p.assigned) \subseteq ToSet(assigned)
      BY <1>6 DEF TargetAdmitted, OnlyTargetsAdmitted
  <2>2. IsFiniteSet(A) /\ A \in SUBSET Tasks /\ B \in SUBSET A
      BY <2>1, AssignedIsFinite, FS_Subset
  <2> HIDE DEF A, B
  <2>3. IsFiniteSet(B) /\ IsFiniteSet(A \ B) /\ B \in SUBSET Tasks /\ A \ B \in SUBSET Tasks
      BY <2>2, FS_Subset
  <2>4. /\ Units(A)[c] \in Nat /\ Units(B)[c] \in Nat /\ Units(A \ B)[c] \in Nat
        /\ Units(A)[c] = Units(B)[c] + Units(A \ B)[c]
      BY <2>2, <2>3, UnitsLaws
  <2>5. Units(A)[c] + Need[t][c] <= Capacity[c]
      BY <1>6 DEF HasRoom, A, V, t
  <2>6. Need[t][c] \in Nat /\ Capacity[c] \in Nat
      BY <1>2, NeedIsTyped, AttentionConstants
  <2>7. Units(B)[c] + Need[t][c] <= Capacity[c]
      BY <2>4, <2>5, <2>6
  <2> QED
      BY <2>7 DEF B
<1>7. ASSUME NEW r \in Plan, TargetAdmitted(r), r.requested = {}, r.carried = p.carried
      PROVE  RoomIsLeft(obs, r)
    BY <1>1, <1>7 DEF RoomIsLeft, PlannedIntents
<1>8. CASE ~obs.healthy
  <2>1. ResolveIntent(obs, p, i) = q
      BY <1>8 DEF ResolveIntent, q
  <2>2. ASSUME NEW j \in PlannedIntents(p)
        PROVE  \/ LeavesRoom(obs, q, j)
               \/ j \in ToSet(intents) /\ (HasRoom(j) => TargetAdmitted(q))
      BY <1>3, <1>5 DEF RoomIsLeft, LeavesRoom
  <2>3. ASSUME HasRoom(i), ~TargetAdmitted(p) PROVE LeavesRoom(obs, q, i)
    <3>1. ASSUME NEW c \in Classes
          PROVE  0 + Units(ToSet(p.assigned) \ V)[c] + Need[t][c] <= Capacity[c]
      <4>1. Units(ToSet(p.assigned) \ V)[c] \in Nat
          BY <1>1, UnitsBeside
      <4>2. Units(ToSet(p.assigned) \ V)[c] + Need[t][c] <= Capacity[c]
          BY <1>6, <2>3
      <4> QED
          BY <4>1, <4>2
    <3> QED
        BY <1>3, <1>8, <3>1 DEF LeavesRoom, V, t
  <2>4. RoomIsLeft(obs, q)
      BY <1>1, <1>4, <1>5, <2>2, <2>3 DEF RoomIsLeft
  <2> QED
      BY <1>5, <2>1, <2>4
<1>9. CASE obs.healthy /\ Fits(t, p.remaining)
  <2> DEFINE a == Admit(p, t)
             r == Settled(a, t)
  <2>1. /\ r \in Plan /\ ToSet(r.assigned) = ToSet(p.assigned) \cup {t}
        /\ r.requested = {} /\ r.carried = p.carried
    <3>1. /\ a \in Plan /\ ToSet(a.assigned) = ToSet(p.assigned) \cup {t}
          /\ a.requested = {} /\ a.carried = p.carried
        BY <1>1, <1>2, AdmitChanges
    <3> HIDE DEF a
    <3> QED
        BY <1>2, <3>1, SettledChanges
  <2>2. ResolveIntent(obs, p, i) = r
      BY <1>9 DEF ResolveIntent, t
  <2> HIDE DEF r
  <2>3. TargetAdmitted(r) /\ OnlyTargetsAdmitted(r)
      BY <1>1, <2>1 DEF TargetAdmitted, OnlyTargetsAdmitted, t
  <2> QED
      BY <1>7, <2>1, <2>2, <2>3
<1>10. CASE obs.healthy /\ ~Fits(t, p.remaining) /\ ~ReadyToExecute(i)
  <2> DEFINE r == Hold(q, t)
  <2>1. /\ r \in Plan /\ r.assigned = q.assigned /\ r.carried = q.carried
        /\ r.requested = q.requested
      BY <1>2, <1>3, HoldChanges
  <2>2. ResolveIntent(obs, p, i) = r
      BY <1>10 DEF ResolveIntent, q, t
  <2>3. ASSUME NEW j \in PlannedIntents(p), LeavesRoom(obs, p, j) PROVE LeavesRoom(obs, r, j)
    <3>1. j \in Intent
        BY <1>1, <1>2, <1>4
    <3>2. LeavesRoom(obs, q, j)
        BY <1>3, <2>3 DEF LeavesRoom
    <3> QED
        BY <1>2, <1>3, <1>5, <1>10, <3>1, <3>2, HoldingLeavesRoom
  <2>4. ASSUME HasRoom(i), ~TargetAdmitted(p) PROVE LeavesRoom(obs, r, i)
    <3>1. \A c \in Classes : Units(ToSet(q.assigned) \ V)[c] + Need[t][c] <= Capacity[c]
        BY <1>3, <1>6, <2>4
    <3> QED
        BY <1>2, <1>3, <1>5, <1>10, <3>1, HeldTargetHasRoom DEF V, t
  <2> HIDE DEF r
  <2>5. /\ PlannedIntents(r) = PlannedIntents(p) \cup {i}
        /\ TargetAdmitted(r) = TargetAdmitted(p) /\ OnlyTargetsAdmitted(r)
      BY <1>4, <1>5, <2>1 DEF PlannedIntents, TargetAdmitted, OnlyTargetsAdmitted
  <2>6. RoomIsLeft(obs, r)
      BY <1>1, <2>3, <2>4, <2>5 DEF RoomIsLeft
  <2> QED
      BY <2>2, <2>5, <2>6
<1>11. CASE /\ obs.healthy /\ ~Fits(t, p.remaining) /\ ReadyToExecute(i)
            /\ Fits(t, freed.remaining)
  <2> DEFINE a == Admit(freed, t)
             r == Settled(a, t)
  <2>1. ResolveIntent(obs, p, i) = r
      BY <1>11 DEF ResolveIntent, ExecuteIntent, t, V
  <2>2. /\ freed \in Plan /\ ToSet(freed.assigned) = ToSet(p.assigned) \ V
        /\ freed.requested = {} /\ freed.carried = p.carried
      BY <1>1, <1>2, ReleaseChanges
  <2> HIDE DEF freed
  <2>3. /\ a \in Plan /\ ToSet(a.assigned) = (ToSet(p.assigned) \ V) \cup {t}
        /\ a.requested = {} /\ a.carried = p.carried
      BY <1>2, <2>2, AdmitChanges
  <2> HIDE DEF a
  <2>4. /\ r \in Plan /\ ToSet(r.assigned) = (ToSet(p.assigned) \ V) \cup {t}
        /\ r.requested = {} /\ r.carried = p.carried
      BY <1>2, <2>3, SettledChanges
  <2> HIDE DEF r
  <2>5. TargetAdmitted(r) /\ OnlyTargetsAdmitted(r)
      BY <1>1, <2>4 DEF TargetAdmitted, OnlyTargetsAdmitted, t
  <2> QED
      BY <1>7, <2>1, <2>4, <2>5
<1>12. CASE /\ obs.healthy /\ ~Fits(t, p.remaining) /\ ReadyToExecute(i)
            /\ ~Fits(t, freed.remaining)
  <2>1. ResolveIntent(obs, p, i) = p
      BY <1>12 DEF ResolveIntent, ExecuteIntent, t, V
  <2> QED
      BY <2>1
<1> QED
    BY <1>8, <1>9, <1>10, <1>11, <1>12

(* The plans with every pending intent dealt with.                            *)
LEMMA ResolvedPlansAreSound ==
    ASSUME EpochInv, NEW m, Changed(m), NEW obs \in Observations
    PROVE  \A p \in IntentsResolved(m, obs) :
               Sound(m, obs, p, {}, {}) /\ p.requested = {} /\ RoomIsLeft(obs, p)
<1> DEFINE L == intents
           n == Len(L)
           start == StartOfPlan(m, obs)
           base == {start}
           A == SUBSET Plan
           More(P, i) == {ResolveIntent(obs, p, i) : p \in P}
           step == [z \in (1 .. n) \X A |-> More(z[2], L[z[1]])]
           Runs(f) == f = [T \in SUBSET DOMAIN L |->
                              IF T = {} THEN base ELSE More(f[T \ {Max(T)}], L[Max(T)])]
           h == CHOOSE f : Runs(f)
           Left(k) == {L[j] : j \in k + 1 .. n}
           Todo(k) == {i.target : i \in Left(k)}
<1>1. /\ L \in Seq(Intent) /\ n \in Nat /\ DOMAIN L = 1 .. n
      /\ (\A k \in 1 .. n : L[k] \in Intent)
    BY IntentsAreApart
<1>2. IntentsResolved(m, obs) = h[DOMAIN L]
    BY DEF IntentsResolved, FoldLeft, MapThenFoldSet
<1>3. /\ Sound(m, obs, start, {i.target : i \in ToSet(L)}, ToSet(L)) /\ start.requested = {}
      /\ RoomIsLeft(obs, start) /\ OnlyTargetsAdmitted(start)
  <2>1. start.requested = {} /\ start.carried = <<>> /\ start.assigned = Kept(m)
      BY DEF StartOfPlan
  <2>2. PlannedIntents(start) = {}
      BY <2>1 DEF PlannedIntents, ToSet
  <2>3. OnlyTargetsAdmitted(start)
      BY <2>1, KeptIsAssigned DEF OnlyTargetsAdmitted
  <2> QED
      BY <2>1, <2>2, <2>3, StartIsSound DEF RoomIsLeft
<1>4. start \in Plan
    BY <1>3 DEF Sound
<1>5. \A k, l \in 1 .. n : k # l => L[k].target # L[l].target
  <2>1. \A k, l \in DOMAIN intents : k = l \/ Apart(intents[k], intents[l])
      BY DEF EpochInv
  <2> QED
      BY <1>1, <2>1 DEF Apart
<1>6. Left(0) = ToSet(L) /\ Left(n) = {}
    BY <1>1 DEF ToSet
<1>7. ASSUME NEW k \in 1 .. n
      PROVE  /\ L[k] \in Left(k - 1)
             /\ Left(k) \subseteq Left(k - 1) \ {L[k]}
             /\ \A i \in Left(k) : i.target # L[k].target
             /\ Todo(k) \subseteq Todo(k - 1) \ {L[k].target}
  <2>1. k \in (k - 1) + 1 .. n /\ \A j \in k + 1 .. n : j \in (k - 1) + 1 .. n /\ j \in 1 .. n /\ j # k
      BY <1>1
  <2>2. L[k] \in Left(k - 1)
      BY <2>1
  <2>3. \A i \in Left(k) : i \in Left(k - 1) /\ i.target # L[k].target
      BY <1>5, <2>1
  <2> QED
      BY <2>2, <2>3
<1> HIDE DEF L, n, start, A, h, More, Left
<1>8. base \in A
    BY <1>4 DEF A
<1>9. \A P \in A : \A i \in Intent : More(P, i) \in A
    BY ResolveIsPlan DEF A, More
<1> HIDE DEF base
<1>10. \E f : Runs(f)
  <2>1. Steps(step, 1 .. n, A)
      BY <1>1, <1>9 DEF Steps
  <2>2. PICK f \in [SUBSET (1 .. n) -> A] : Accumulates(f, n, base, step)
    <3> HIDE DEF step
    <3> QED
        BY <1>1, <1>8, <2>1, FoldExists
  <2>3. ASSUME NEW T \in SUBSET (1 .. n), T # {}
        PROVE  f[T] = More(f[T \ {Max(T)}], L[Max(T)])
    <3>1. Max(T) \in 1 .. n /\ f[T \ {Max(T)}] \in A
        BY <1>1, <2>2, <2>3, MaxIsOne
    <3> QED
        BY <2>2, <2>3, <3>1 DEF Accumulates
  <2>4. Runs(f)
    <3> HIDE DEF step
    <3> QED
        BY <1>1, <2>2, <2>3 DEF Accumulates
  <2> QED
      BY <2>4
<1>11. Runs(h)
    BY <1>10 DEF h
<1>12. h[{}] = base
    BY <1>11
<1>13. ASSUME NEW k \in 1 .. n PROVE h[1 .. k] = More(h[1 .. k - 1], L[k])
  <2>1. /\ 1 .. k \in SUBSET DOMAIN L /\ 1 .. k # {}
        /\ Max(1 .. k) = k /\ (1 .. k) \ {k} = 1 .. k - 1
      BY <1>1, Segments
  <2>2. h[1 .. k] = More(h[(1 .. k) \ {Max(1 .. k)}], L[Max(1 .. k)])
      BY <1>11, <2>1
  <2> QED
      BY <2>1, <2>2
<1> DEFINE Good(P, k) == \A p \in P : /\ Sound(m, obs, p, Todo(k), Left(k)) /\ p.requested = {}
                                      /\ RoomIsLeft(obs, p) /\ OnlyTargetsAdmitted(p)
           G == {k \in Nat : k <= n => Good(h[1 .. k], k)}
<1>14. 0 \in G
    BY <1>3, <1>6, <1>12, Segments DEF base
<1>15. ASSUME NEW k \in 1 .. n, NEW P, Good(P, k - 1) PROVE Good(More(P, L[k]), k)
  <2> SUFFICES ASSUME NEW p \in P
               PROVE  /\ Sound(m, obs, ResolveIntent(obs, p, L[k]), Todo(k), Left(k))
                      /\ ResolveIntent(obs, p, L[k]).requested = {}
                      /\ RoomIsLeft(obs, ResolveIntent(obs, p, L[k]))
                      /\ OnlyTargetsAdmitted(ResolveIntent(obs, p, L[k]))
      BY DEF More
  <2> DEFINE q == ResolveIntent(obs, p, L[k])
  <2>1. /\ Sound(m, obs, p, Todo(k - 1), Left(k - 1)) /\ p.requested = {} /\ L[k] \in Left(k - 1)
        /\ RoomIsLeft(obs, p) /\ OnlyTargetsAdmitted(p)
      BY <1>7, <1>15
  <2>2. /\ Sound(m, obs, q, Todo(k - 1) \ {L[k].target}, Left(k - 1) \ {L[k]})
        /\ q.requested = {} /\ RoomIsLeft(obs, q) /\ OnlyTargetsAdmitted(q)
    <3> HIDE DEF Todo
    <3>1. Sound(m, obs, q, Todo(k - 1) \ {L[k].target}, Left(k - 1) \ {L[k]})
        BY <2>1, ResolveIsSound
    <3>2. RoomIsLeft(obs, q) /\ OnlyTargetsAdmitted(q)
        BY <2>1, ResolveLeavesRoom
    <3>3. q.requested = {}
        BY <2>1, <3>1, ResolveIsSound
    <3> QED
        BY <3>1, <3>2, <3>3
  <2> HIDE DEF q
  <2>3. /\ Todo(k) \in SUBSET (Todo(k - 1) \ {L[k].target})
        /\ Left(k) \in SUBSET (Left(k - 1) \ {L[k]})
        /\ \A i \in Left(k) : i.target \in Todo(k)
      BY <1>7
  <2> HIDE DEF Todo
  <2>4. q \in Plan /\ Room(obs, q)
      BY <2>2 DEF Sound
  <2>5. Sound(m, obs, q, Todo(k), Left(k))
      BY <2>2, <2>3, <2>4, StillSound
  <2> QED
      BY <2>2, <2>5 DEF q
<1> HIDE DEF Good
<1>16. ASSUME NEW k \in G PROVE k + 1 \in G
  <2> SUFFICES ASSUME k + 1 <= n PROVE Good(h[1 .. k + 1], k + 1)
      OBVIOUS
  <2>1. k \in Nat /\ k + 1 \in 1 .. n /\ k <= n /\ (k + 1) - 1 = k
      BY <1>1
  <2>2. Good(h[1 .. k], k)
      BY <2>1
  <2>3. h[1 .. k + 1] = More(h[1 .. (k + 1) - 1], L[k + 1])
      BY <1>13, <2>1
  <2>4. Good(More(h[1 .. (k + 1) - 1], L[k + 1]), k + 1)
      BY <1>15, <2>1, <2>2
  <2> QED
      BY <2>3, <2>4
<1>17. n \in G
  <2>1. G \in SUBSET Nat
      OBVIOUS
  <2> HIDE DEF G
  <2>2. G = Nat
      BY <1>14, <1>16, <2>1, Induction
  <2> QED
      BY <1>1, <2>2
<1>18. Good(h[DOMAIN L], n)
    BY <1>1, <1>17
<1> QED
    BY <1>2, <1>6, <1>18 DEF Good

(* The assignments offered for a blocked task: running ones that may yield to *)
(* it and that no intent has as victims, each in its place.                   *)
MayYieldTo(m, p, t, deficits, candidates) ==
    /\ WellOffered(deficits, candidates)
    /\ DOMAIN deficits \subseteq Classes
    /\ \A c \in Classes : c \in DOMAIN deficits <=> Need[t][c] > p.remaining[c]
    /\ \A c \in DOMAIN deficits : deficits[c] = Need[t][c] - p.remaining[c]
    /\ \A v \in candidates :
          /\ v.order \in DOMAIN p.assigned /\ v.task = p.assigned[v.order]
          /\ v.task \in Tasks /\ v.task \in ToSet(p.assigned)
          /\ v.task \in ToSet(Kept(m)) \ p.protected
          /\ MayYield(m, t, v.task)
          /\ \A c \in Classes : v.units[c] = Need[v.task][c]

LEMMA OfferedVictims ==
    ASSUME NEW m, NEW p \in Plan, NEW t \in Tasks,
           NEW deficits, deficits = DeficitsOf(t, p.remaining),
           NEW candidates, candidates = VictimCandidates(m, p, t, deficits)
    PROVE  MayYieldTo(m, p, t, deficits, candidates)
<1> DEFINE s == p.assigned
           Offers(v) == /\ v \in ToSet(Kept(m)) \ p.protected
                        /\ Policy[v] # "ATOMIC"
                        /\ Outprioritizes(m, t, v)
                        /\ \E c \in DOMAIN deficits : Need[v][c] > 0
           D == {k \in DOMAIN s : Offers(s[k])}
           As(k) == [task |-> s[k], order |-> k, priority |-> Priority[s[k]],
                     checkpoint |-> Policy[s[k]] = "CHECKPOINT_ONLY", units |-> Need[s[k]]]
<1>1. /\ s \in Seq(Tasks) /\ DOMAIN s = 1 .. Len(s) /\ Len(s) \in Nat
      /\ \A k \in DOMAIN s : s[k] \in Tasks
    BY PlanIsRecord
<1>2. /\ DOMAIN deficits \subseteq Classes
      /\ \A c \in Classes : c \in DOMAIN deficits <=> Need[t][c] > p.remaining[c]
      /\ \A c \in DOMAIN deficits : deficits[c] = Need[t][c] - p.remaining[c]
    BY DEF DeficitsOf
<1>3. candidates = {As(k) : k \in D}
    BY DEF VictimCandidates
<1>4. \A k : /\ As(k).task = s[k] /\ As(k).order = k /\ As(k).priority = Priority[s[k]]
             /\ As(k).checkpoint = (Policy[s[k]] = "CHECKPOINT_ONLY") /\ As(k).units = Need[s[k]]
    OBVIOUS
<1>5. \A k \in D : k \in DOMAIN s /\ Offers(s[k])
    OBVIOUS
<1>6. IsFiniteSet(D)
  <2>1. IsFiniteSet(DOMAIN s) /\ D \in SUBSET DOMAIN s
      BY <1>1, FS_Interval
  <2> QED
      BY <2>1, FS_Subset
<1> HIDE DEF s, D, As
<1>7. IsFiniteSet(candidates)
  <2> DEFINE f == [k \in D |-> As(k)]
  <2>1. IsFiniteSet({f[k] : k \in D})
    <3> HIDE DEF f
    <3> QED
        BY <1>6, ImageIsFinite
  <2>2. {f[k] : k \in D} = candidates
      BY <1>3
  <2> QED
      BY <2>1, <2>2
<1>8. \A v \in candidates :
          /\ v.order \in DOMAIN s /\ v.task = s[v.order]
          /\ v.priority = Priority[v.task] /\ v.checkpoint = (Policy[v.task] = "CHECKPOINT_ONLY")
          /\ v.units = Need[v.task] /\ Offers(v.task)
  <2> SUFFICES ASSUME NEW v \in candidates
               PROVE  /\ v.order \in DOMAIN s /\ v.task = s[v.order]
                      /\ v.priority = Priority[v.task]
                      /\ v.checkpoint = (Policy[v.task] = "CHECKPOINT_ONLY")
                      /\ v.units = Need[v.task] /\ Offers(v.task)
      OBVIOUS
  <2>1. PICK k \in D : v = As(k)
      BY <1>3
  <2> HIDE DEF Offers
  <2> QED
      BY <1>4, <1>5, <2>1
<1>9. \A a, b \in candidates : a.order = b.order => a = b
    BY <1>3, <1>4
<1>10. \A v \in candidates : v.task \in Tasks /\ v.task \in ToSet(s) /\ v.order \in Nat
    BY <1>1, <1>8 DEF ToSet
<1>11. \A v \in candidates : /\ v.priority \in Int /\ v.order \in Int /\ v.checkpoint \in BOOLEAN
                             /\ \A c \in Classes : v.units[c] \in Nat
  <2>1. \A u \in Tasks : Priority[u] \in Int
      BY AttentionConstants
  <2>2. \A u \in Tasks, c \in Classes : Need[u][c] \in Nat
      BY NeedIsNatural
  <2>3. \A v \in candidates : v.checkpoint = TRUE \/ v.checkpoint = FALSE
      BY <1>8, Zenon
  <2>4. \A v \in candidates : /\ v.priority \in Int /\ v.order \in Int
                              /\ \A c \in Classes : v.units[c] \in Nat
    <3> HIDE DEF Offers
    <3> QED
        BY <1>8, <1>10, <2>1, <2>2
  <2> QED
      BY <2>3, <2>4
<1>12. \A c \in DOMAIN deficits : deficits[c] \in Nat
  <2> SUFFICES ASSUME NEW c \in DOMAIN deficits PROVE deficits[c] \in Nat
      OBVIOUS
  <2>1. c \in Classes /\ Need[t][c] \in Nat /\ p.remaining[c] \in Int
      BY <1>2, PlanIsRecord, NeedIsTyped
  <2>2. Need[t][c] > p.remaining[c] /\ deficits[c] = Need[t][c] - p.remaining[c]
      BY <1>2, <2>1
  <2> QED
      BY <2>1, <2>2
<1>13. WellOffered(deficits, candidates)
    BY <1>2, <1>7, <1>9, <1>11, <1>12 DEF WellOffered
<1>14. \A v \in candidates : /\ v.task \in ToSet(Kept(m)) \ p.protected /\ MayYield(m, t, v.task)
                             /\ \A c \in Classes : v.units[c] = Need[v.task][c]
    BY <1>8 DEF MayYield
<1> QED
    BY <1>2, <1>8, <1>10, <1>13, <1>14 DEF MayYieldTo, s

(* The tasks of the selected victims: they may yield, and with their units    *)
(* the blocked task fits.                                                     *)
MakesRoom(m, p, t, vs) ==
    /\ vs \in Seq(Tasks)
    /\ ToSet(vs) \subseteq (ToSet(Kept(m)) \cap ToSet(p.assigned)) \ p.protected
    /\ \A v \in ToSet(vs) : MayYield(m, t, v)
    /\ IsInjective(p.assigned) => Fits(t, Release(p, ToSet(vs)).remaining)

LEMMA SelectedTasks ==
    ASSUME NEW m, NEW p \in Plan, NEW t \in Tasks,
           NEW deficits, deficits = DeficitsOf(t, p.remaining),
           NEW sel \in SelectMinimumVictims(deficits, VictimCandidates(m, p, t, deficits))
    PROVE  MakesRoom(m, p, t, [k \in DOMAIN sel |-> sel[k].task])
<1> DEFINE candidates == VictimCandidates(m, p, t, deficits)
           vs == [k \in DOMAIN sel |-> sel[k].task]
           S == ToSet(sel)
           V == ToSet(vs)
<1>1. candidates = VictimCandidates(m, p, t, deficits)
    OBVIOUS
<1>2. sel \in SelectMinimumVictims(deficits, candidates)
    OBVIOUS
<1> HIDE DEF candidates
<1>3. MayYieldTo(m, p, t, deficits, candidates)
    BY <1>1, OfferedVictims
<1>4. /\ WellOffered(deficits, candidates)
      /\ DOMAIN deficits \subseteq Classes
      /\ \A c \in Classes : c \in DOMAIN deficits <=> Need[t][c] > p.remaining[c]
      /\ \A c \in DOMAIN deficits : deficits[c] = Need[t][c] - p.remaining[c]
      /\ \A v \in candidates :
            /\ v.order \in DOMAIN p.assigned /\ v.task = p.assigned[v.order]
            /\ v.task \in Tasks /\ v.task \in ToSet(p.assigned)
            /\ v.task \in ToSet(Kept(m)) \ p.protected
            /\ MayYield(m, t, v.task)
            /\ \A c \in Classes : v.units[c] = Need[v.task][c]
    BY <1>3 DEF MayYieldTo
<1>5. \A a, b \in candidates : a.order = b.order => a = b
    BY <1>4 DEF WellOffered
<1>6. sel \in Seq(candidates) /\ Releases(deficits, S)
    BY <1>4, <1>2, SelectedVictims
<1>7. /\ DOMAIN sel = 1 .. Len(sel) /\ Len(sel) \in Nat /\ \A k \in DOMAIN sel : sel[k] \in candidates
      /\ S \in SUBSET candidates /\ IsFiniteSet(S)
    BY <1>6, ListIsFinite
<1>8. vs \in Seq(Tasks)
    BY <1>4, <1>7
<1>9. V = {v.task : v \in S}
    BY DEF ToSet
<1> HIDE DEF vs, S, V
<1>10. \A v \in V : /\ v \in (ToSet(Kept(m)) \cap ToSet(p.assigned)) \ p.protected
                   /\ MayYield(m, t, v) /\ v \in Tasks
    BY <1>4, <1>7, <1>9
<1>11. V \in SUBSET Tasks /\ V \cap ToSet(p.assigned) = V
    BY <1>10
<1>12. \A c \in Classes :
          /\ Units(V \cap ToSet(p.assigned))[c] \in Nat
          /\ Release(p, V).remaining[c] = p.remaining[c] + Units(V \cap ToSet(p.assigned))[c]
    BY <1>11, ReleaseChanges
<1>13. ASSUME IsInjective(p.assigned), NEW c \in Classes
      PROVE  Need[t][c] <= Release(p, V).remaining[c]
  <2>1. /\ Units(V)[c] \in Nat /\ Release(p, V).remaining[c] = p.remaining[c] + Units(V)[c]
      BY <1>11, <1>12
  <2>2. Need[t][c] \in Nat /\ p.remaining[c] \in Int
      BY PlanIsRecord, NeedIsTyped
  <2>3. CASE c \notin DOMAIN deficits
    <3>1. ~(Need[t][c] > p.remaining[c])
        BY <1>4, <2>3
    <3> QED
        BY <2>1, <2>2, <3>1
  <2>4. CASE c \in DOMAIN deficits
    <3> DEFINE w == [v \in S |-> v.units[c]]
               f == [v \in S |-> v.task]
    <3>1. deficits[c] <= Released(c, S)
        BY <1>6, <2>4 DEF Releases, Released
    <3>2. \A v \in S : /\ w[v] \in Nat /\ w[v] = v.units[c] /\ f[v] = v.task
                       /\ NeedOf(c)[f[v]] = w[v] /\ v.units[c] \in Nat
        BY <1>4, <1>7, NeedIsNatural
    <3>3. \A x, y \in S : f[x] = f[y] => x = y
      <4> SUFFICES ASSUME NEW x \in S, NEW y \in S, f[x] = f[y] PROVE x = y
          OBVIOUS
      <4>1. x \in candidates /\ y \in candidates /\ x.task = y.task
          BY <1>7, <3>2
      <4>2. /\ x.order \in DOMAIN p.assigned /\ y.order \in DOMAIN p.assigned
            /\ p.assigned[x.order] = p.assigned[y.order]
          BY <1>4, <4>1
      <4>3. x.order = y.order
          BY <1>13, <4>2 DEF IsInjective
      <4> QED
          BY <1>5, <4>1, <4>3
    <3>4. {f[v] : v \in S} = V
        BY <1>9, <3>2
    <3> DEFINE u == NeedOf(c)
    <3> HIDE DEF w, f, u
    <3>5. Released(c, S) = Sum(w, S)
        BY <1>7, <3>2, ReleasedIsSum
    <3>6. Sum(w, S) = Sum(u, {f[v] : v \in S})
      <4>1. \A v \in S : w[v] \in Nat /\ u[f[v]] = w[v]
          BY <3>2 DEF u
      <4> QED
          BY <1>7, <3>3, <4>1, SumReindexed
    <3>7. IsFiniteSet(V)
      <4>1. IsFiniteSet({f[v] : v \in S})
          BY <1>7, ImageIsFinite
      <4> QED
          BY <3>4, <4>1
    <3>8. Released(c, S) = Units(V)[c]
        BY <1>11, <3>4, <3>5, <3>6, <3>7, UnitsIsSum DEF u
    <3>9. Need[t][c] - p.remaining[c] <= Units(V)[c]
        BY <1>4, <2>4, <3>1, <3>8
    <3> QED
        BY <2>1, <2>2, <3>9
  <2> QED
      BY <2>3, <2>4
<1>14. IsInjective(p.assigned) => Fits(t, Release(p, V).remaining)
    BY <1>13 DEF Fits
<1> QED
    BY <1>8, <1>10, <1>14 DEF MakesRoom, vs, V

(* One candidate of the queue: admitted, passed over, or admitted or promised *)
(* the units of the tasks that make room for it.                              *)
LEMMA CandidateOutcomes ==
    ASSUME NEW m, NEW p \in Plan, NEW t \in Tasks, NEW q \in ConsiderCandidate(m, p, t)
    PROVE  \/ Fits(t, p.remaining) /\ q = Admit(p, t)
           \/ q = p
           \/ \E vs : MakesRoom(m, p, t, vs) /\ q = Displace(p, t, vs)
<1> DEFINE deficits == DeficitsOf(t, p.remaining)
           chosen == SelectMinimumVictims(deficits, VictimCandidates(m, p, t, deficits))
<1>1. \/ Fits(t, p.remaining) /\ q = Admit(p, t)
      \/ q = p
      \/ \E sel \in chosen : q = Displace(p, t, [k \in DOMAIN sel |-> sel[k].task])
    BY DEF ConsiderCandidate
<1>2. ASSUME NEW sel \in chosen PROVE MakesRoom(m, p, t, [k \in DOMAIN sel |-> sel[k].task])
  <2>1. deficits = DeficitsOf(t, p.remaining)
      OBVIOUS
  <2>2. sel \in SelectMinimumVictims(deficits, VictimCandidates(m, p, t, deficits))
      OBVIOUS
  <2> HIDE DEF deficits
  <2> QED
      BY <2>1, <2>2, SelectedTasks
<1> HIDE DEF chosen
<1> QED
    BY <1>1, <1>2

LEMMA DisplaceIsPlan ==
    ASSUME NEW m, NEW p \in Plan, NEW t \in Tasks, NEW vs, MakesRoom(m, p, t, vs)
    PROVE  Displace(p, t, vs) \in Plan
<1>1. vs \in Seq(Tasks) /\ ToSet(vs) \in SUBSET Tasks
  <2>1. vs \in Seq(Tasks)
      BY DEF MakesRoom
  <2> QED
      BY <2>1, ListIsFinite
<1>2. Hold(Request(p, t, vs), t) \in Plan
  <2>1. Request(p, t, vs) \in Plan
      BY <1>1, RequestChanges
  <2> QED
      BY <2>1, HoldChanges
<1>3. Admit(Release(p, ToSet(vs)), t) \in Plan
  <2>1. Release(p, ToSet(vs)) \in Plan
      BY <1>1, ReleaseChanges
  <2> QED
      BY <2>1, AdmitChanges
<1> QED
    BY <1>2, <1>3 DEF Displace

LEMMA ConsiderIsPlan ==
    ASSUME NEW m, NEW p \in Plan, NEW t \in Tasks, NEW q \in ConsiderCandidate(m, p, t)
    PROVE  q \in Plan
<1>1. Admit(p, t) \in Plan
    BY AdmitChanges
<1> QED
    BY <1>1, CandidateOutcomes, DisplaceIsPlan

LEMMA DisplaceIsSound ==
    ASSUME EpochInv, NEW m, NEW obs \in Observations, NEW p, NEW todo,
           Sound(m, obs, p, todo, {}), NEW t \in todo, NEW vs, MakesRoom(m, p, t, vs)
    PROVE  Sound(m, obs, Displace(p, t, vs), todo \ {t}, {})
<1> DEFINE V == ToSet(vs)
<1>1. p \in Plan /\ t \in Tasks /\ t \notin ToSet(p.assigned) /\ IsInjective(p.assigned) /\ Room(obs, p)
    BY DEF Sound
<1>2. /\ vs \in Seq(Tasks) /\ V \subseteq (ToSet(Kept(m)) \cap ToSet(p.assigned)) \ p.protected
      /\ (\A v \in V : MayYield(m, t, v)) /\ Fits(t, Release(p, V).remaining)
    BY <1>1 DEF MakesRoom
<1>3. V \in SUBSET Tasks
    BY <1>2, ListIsFinite
<1> HIDE DEF V
<1>4. CASE \E v \in V : Policy[v] = "CHECKPOINT_ONLY"
  <2> DEFINE q == Request(p, t, vs)
             r == Hold(q, t)
  <2>1. Sound(m, obs, q, todo \ {t}, {})
      BY <1>2, RequestIsSound DEF V
  <2> HIDE DEF q
  <2>2. q \in Plan /\ Room(obs, q) /\ \A c \in Classes : AdmissionCapacity(obs)[c] \in Int
      BY <2>1, CapacityIsBounded DEF Sound
  <2>3. /\ r \in Plan /\ r.assigned = q.assigned /\ r.carried = q.carried
        /\ r.requested = q.requested /\ r.protected = q.protected /\ r.waiting = q.waiting
        /\ r.released = q.released /\ Room(obs, r)
      BY <1>1, <2>2, HoldChanges
  <2>4. Displace(p, t, vs) = r
      BY <1>4 DEF Displace, q, V
  <2> HIDE DEF r
  <2>5. Sound(m, obs, r, todo \ {t}, {})
      BY <2>1, <2>3, StillSound
  <2> QED
      BY <2>4, <2>5
<1>5. CASE ~\E v \in V : Policy[v] = "CHECKPOINT_ONLY"
  <2> DEFINE freed == Release(p, V)
             r == Admit(freed, t)
  <2>1. /\ freed \in Plan /\ ToSet(freed.assigned) = ToSet(p.assigned) \ V
        /\ IsInjective(freed.assigned) /\ freed.carried = p.carried
        /\ freed.requested = p.requested /\ freed.protected = p.protected
        /\ freed.waiting = p.waiting /\ freed.released = p.released \cup V
        /\ Room(obs, freed)
      BY <1>1, <1>3, ReleaseChanges
  <2>2. Fits(t, freed.remaining) /\ t \notin ToSet(freed.assigned)
      BY <1>1, <1>2, <2>1
  <2>3. Displace(p, t, vs) = r
      BY <1>5 DEF Displace, V
  <2> HIDE DEF freed
  <2>4. /\ r \in Plan /\ ToSet(r.assigned) = ToSet(freed.assigned) \cup {t}
        /\ IsInjective(r.assigned) /\ r.carried = freed.carried
        /\ r.requested = freed.requested /\ r.protected = freed.protected
        /\ r.waiting = freed.waiting /\ r.released = freed.released /\ Room(obs, r)
      BY <1>1, <2>1, <2>2, AdmitChanges
  <2> HIDE DEF r
  <2>5. V \in SUBSET ToSet(assigned)
      BY <1>2, KeptIsAssigned
  <2>6. ASSUME NEW v \in V PROVE Allowed(v) /\ Outprioritizes(m, t, v)
    <3>1. Policy[v] # "ATOMIC" /\ Policy[v] # "CHECKPOINT_ONLY" /\ Outprioritizes(m, t, v)
        BY <1>2, <1>5 DEF MayYield
    <3>2. Policy[v] \in Policies
        BY <1>3, AttentionConstants
    <3> QED
        BY <3>1, <3>2 DEF Allowed, Policies
  <2>7. \A i \in PlannedIntents(p) \cup {} : ToSet(i.victims) \cap V = {}
      BY <1>2 DEF Sound
  <2>8. ToSet(r.assigned) = (ToSet(p.assigned) \ V) \cup {t}
      BY <2>1, <2>4
  <2>9. /\ r.carried = p.carried /\ r.requested = p.requested /\ r.protected = p.protected
        /\ p.waiting \subseteq r.waiting /\ p.released \cup V \subseteq r.released
      BY <2>1, <2>4
  <2>10. \A v \in V \cap ToSet(Kept(m)) : Allowed(v) /\ Outprioritizes(m, t, v)
      BY <2>6
  <2>11. {} \in SUBSET {} /\ \A i \in {} : i.target # t
      OBVIOUS
  <2>12. Sound(m, obs, r, todo \ {t}, {})
      BY <2>4, <2>5, <2>7, <2>8, <2>9, <2>10, <2>11, AdmissionIsSound
  <2> QED
      BY <2>3, <2>12
<1> QED
    BY <1>4, <1>5

LEMMA ConsiderIsSound ==
    ASSUME EpochInv, NEW m, NEW obs \in Observations, NEW p, NEW todo,
           Sound(m, obs, p, todo, {}), NEW t \in todo, NEW q \in ConsiderCandidate(m, p, t)
    PROVE  Sound(m, obs, q, todo \ {t}, {})
<1>1. /\ p \in Plan /\ t \in Tasks /\ t \notin ToSet(p.assigned) /\ IsInjective(p.assigned)
      /\ Room(obs, p)
    BY DEF Sound
<1>2. CASE Fits(t, p.remaining) /\ q = Admit(p, t)
  <2>1. /\ q \in Plan /\ ToSet(q.assigned) = ToSet(p.assigned) \cup {t}
        /\ IsInjective(q.assigned) /\ q.carried = p.carried /\ q.requested = p.requested
        /\ q.protected = p.protected /\ q.waiting = p.waiting /\ q.released = p.released
        /\ Room(obs, q)
      BY <1>1, <1>2, AdmitChanges
  <2>2. /\ {} \in SUBSET ToSet(assigned)
        /\ \A v \in {} \cap ToSet(Kept(m)) : Allowed(v) /\ Outprioritizes(m, t, v)
      OBVIOUS
  <2>3. \A i \in PlannedIntents(p) \cup {} : ToSet(i.victims) \cap {} = {}
      OBVIOUS
  <2>4. ToSet(q.assigned) = (ToSet(p.assigned) \ {}) \cup {t}
      BY <2>1
  <2>5. {} \in SUBSET {} /\ \A i \in {} : i.target # t
      OBVIOUS
  <2>6. p.waiting \subseteq q.waiting /\ p.released \cup {} \subseteq q.released
      BY <2>1
  <2> QED
      BY <2>1, <2>2, <2>3, <2>4, <2>5, <2>6, AdmissionIsSound
<1>3. CASE q = p
  <2>1. todo \ {t} \in SUBSET todo /\ {} \in SUBSET {} /\ \A i \in {} : i.target \in todo \ {t}
      OBVIOUS
  <2> QED
      BY <1>1, <1>3, <2>1, StillSound
<1>4. ASSUME NEW vs, MakesRoom(m, p, t, vs), q = Displace(p, t, vs)
      PROVE  Sound(m, obs, q, todo \ {t}, {})
    BY <1>4, DisplaceIsSound
<1> QED
    BY <1>1, <1>2, <1>3, <1>4, CandidateOutcomes

(* What is requested or given out for one candidate leaves the other targets  *)
(* their room, and its own target has room once its victims have yielded.     *)
LEMMA DisplaceLeavesRoom ==
    ASSUME EpochInv, NEW m, NEW obs \in Observations, obs.healthy, NEW p, NEW todo,
           Sound(m, obs, p, todo, {}), NEW t \in todo, NEW vs, MakesRoom(m, p, t, vs),
           RoomIsLeft(obs, p)
    PROVE  RoomIsLeft(obs, Displace(p, t, vs))
<1> DEFINE V == ToSet(vs)
           i == [target |-> t, victims |-> vs, acked |-> {}]
           freed == Release(p, V)
<1>1. /\ p \in Plan /\ t \in Tasks /\ t \notin ToSet(p.assigned) /\ IsInjective(p.assigned)
      /\ Room(obs, p) /\ ToSet(p.carried) \subseteq ToSet(intents)
    BY DEF Sound
<1>2. /\ vs \in Seq(Tasks) /\ V \subseteq (ToSet(Kept(m)) \cap ToSet(p.assigned)) \ p.protected
      /\ Fits(t, freed.remaining)
    BY <1>1 DEF MakesRoom
<1>3. V \in SUBSET Tasks
    BY <1>2, ListIsFinite
<1>4. \A j \in PlannedIntents(p) : j \in Intent /\ ToSet(j.victims) \cap V = {}
  <2>1. PlannedIntents(p) \subseteq Intent
      BY <1>1, IntentsAreApart, PlanIsRecord DEF PlannedIntents
  <2>2. \A j \in PlannedIntents(p) : ToSet(j.victims) \subseteq p.protected
      BY DEF Sound
  <2> QED
      BY <1>2, <2>1, <2>2
<1>5. \A k \in ToSet(intents) : k.target \notin V
  <2>1. \A k \in ToSet(intents) : k.target \notin ToSet(assigned)
      BY IntentsAreApart DEF Pending
  <2>2. V \subseteq ToSet(assigned)
      BY <1>2, KeptIsAssigned
  <2> QED
      BY <2>1, <2>2
<1> HIDE DEF V, freed
<1>6. CASE \E v \in V : Policy[v] = "CHECKPOINT_ONLY"
  <2> DEFINE q == Request(p, t, vs)
             r == Hold(q, t)
  <2>1. /\ i \in Intent /\ q \in Plan /\ q.assigned = p.assigned /\ q.remaining = p.remaining
        /\ q.requested = p.requested \cup {i} /\ q.carried = p.carried
      BY <1>1, <1>2, RequestChanges
  <2>2. i.target = t /\ ToSet(i.victims) = V
      BY DEF V
  <2>3. Displace(p, t, vs) = r
      BY <1>6 DEF Displace, V
  <2> HIDE DEF q, i
  <2>4. Room(obs, q)
      BY <1>1, <2>1 DEF Room
  <2>5. r.assigned = p.assigned /\ r.requested = q.requested /\ r.carried = p.carried
      BY <1>1, <2>1, HoldChanges
  <2>6. ASSUME NEW j \in PlannedIntents(p), LeavesRoom(obs, p, j) PROVE LeavesRoom(obs, r, j)
    <3>1. LeavesRoom(obs, q, j)
        BY <2>1, <2>6 DEF LeavesRoom
    <3> QED
        BY <1>1, <1>4, <2>1, <2>4, <3>1, HoldingLeavesRoom
  <2>7. LeavesRoom(obs, r, i)
    <3>1. ASSUME NEW c \in Classes
          PROVE  Units(ToSet(q.assigned) \ V)[c] + Need[t][c] <= Capacity[c]
      <4> DEFINE S == ToSet(p.assigned)
                 u == Units(S \ V)[c]
                 f == Units(V \cap S)[c]
                 a == p.remaining[c]
                 g == Need[t][c]
                 d == Capacity[c]
                 e == AdmissionCapacity(obs)[c]
      <4>1. IsFiniteSet(S) /\ S \in SUBSET Tasks /\ V \cap S \in SUBSET S /\ S \ (V \cap S) = S \ V
          BY <1>1, PlanIsRecord
      <4>2. Units(S)[c] = f + u /\ f \in Nat /\ u \in Nat
        <5>1. Units(S)[c] = f + Units(S \ (V \cap S))[c]
            BY <4>1, UnitsLaws
        <5>2. f \in Nat
            BY <1>1, <1>3, ReleaseChanges
        <5> QED
            BY <1>1, <4>1, <5>1, <5>2, UnitsBeside
      <4>3. a \in Int /\ g \in Nat /\ d \in Nat /\ e \in Int /\ e <= d
          BY <1>1, PlanIsRecord, NeedIsTyped, CapacityIsBounded
      <4>4. a + Units(S)[c] <= e
          BY <1>1 DEF Room
      <4>5. g <= a + f
        <5>1. freed.remaining[c] = a + f
            BY <1>1, <1>3, ReleaseChanges DEF freed
        <5> QED
            BY <1>2, <5>1 DEF Fits
      <4> HIDE DEF u, f, a, g, d, e
      <4>6. u + g <= d
          BY <4>2, <4>3, <4>4, <4>5
      <4> QED
          BY <2>1, <4>6 DEF u, g, d
    <3> QED
        BY <2>1, <2>2, <2>4, <3>1, HeldTargetHasRoom
  <2> HIDE DEF r
  <2>8. PlannedIntents(r) = PlannedIntents(p) \cup {i} /\ TargetAdmitted(r) = TargetAdmitted(p)
      BY <2>1, <2>5 DEF PlannedIntents, TargetAdmitted
  <2> QED
      BY <2>3, <2>6, <2>7, <2>8 DEF RoomIsLeft
<1>7. CASE ~\E v \in V : Policy[v] = "CHECKPOINT_ONLY"
  <2> DEFINE r == Admit(freed, t)
  <2>1. /\ freed \in Plan /\ ToSet(freed.assigned) = ToSet(p.assigned) \ V
        /\ freed.carried = p.carried /\ freed.requested = p.requested
      BY <1>1, <1>3, ReleaseChanges DEF freed
  <2>2. /\ ToSet(r.assigned) = (ToSet(p.assigned) \ V) \cup {t}
        /\ r.carried = p.carried /\ r.requested = p.requested
      BY <1>1, <2>1, AdmitChanges
  <2>3. Displace(p, t, vs) = r
      BY <1>7 DEF Displace, V, freed
  <2>4. ASSUME NEW j \in PlannedIntents(p), LeavesRoom(obs, p, j) PROVE LeavesRoom(obs, r, j)
    <3>1. LeavesRoom(obs, freed, j)
        BY <1>1, <1>3, <1>4, <2>4, ReleasingLeavesRoom DEF freed
    <3> QED
        BY <1>1, <1>4, <2>1, <3>1, AdmittingLeavesRoom
  <2> HIDE DEF r
  <2>5. PlannedIntents(r) = PlannedIntents(p) /\ (TargetAdmitted(p) => TargetAdmitted(r))
      BY <1>5, <2>2 DEF PlannedIntents, TargetAdmitted
  <2> QED
      BY <2>3, <2>4, <2>5 DEF RoomIsLeft
<1> QED
    BY <1>6, <1>7

LEMMA ConsiderLeavesRoom ==
    ASSUME EpochInv, NEW m, NEW obs \in Observations, obs.healthy, NEW p, NEW todo,
           Sound(m, obs, p, todo, {}), NEW t \in todo, NEW q \in ConsiderCandidate(m, p, t),
           RoomIsLeft(obs, p)
    PROVE  RoomIsLeft(obs, q)
<1>1. /\ p \in Plan /\ t \in Tasks /\ t \notin ToSet(p.assigned)
      /\ ToSet(p.carried) \subseteq ToSet(intents)
    BY DEF Sound
<1>2. PlannedIntents(p) \subseteq Intent
    BY <1>1, IntentsAreApart, PlanIsRecord DEF PlannedIntents
<1>3. CASE Fits(t, p.remaining) /\ q = Admit(p, t)
  <2>1. /\ ToSet(q.assigned) = ToSet(p.assigned) \cup {t}
        /\ q.carried = p.carried /\ q.requested = p.requested
      BY <1>1, <1>3, AdmitChanges
  <2>2. ASSUME NEW j \in PlannedIntents(p), LeavesRoom(obs, p, j) PROVE LeavesRoom(obs, q, j)
      BY <1>1, <1>2, <1>3, <2>2, AdmittingLeavesRoom
  <2>3. PlannedIntents(q) = PlannedIntents(p) /\ (TargetAdmitted(p) => TargetAdmitted(q))
      BY <2>1 DEF PlannedIntents, TargetAdmitted
  <2> QED
      BY <2>2, <2>3 DEF RoomIsLeft
<1>4. ASSUME NEW vs, MakesRoom(m, p, t, vs), q = Displace(p, t, vs)
      PROVE  RoomIsLeft(obs, q)
    BY <1>4, DisplaceLeavesRoom
<1> QED
    BY <1>1, <1>3, <1>4, CandidateOutcomes

(* The queue in attention order: each waiting task once.                      *)
LEMMA KeysAreApart ==
    ASSUME EpochInv, NEW m, Changed(m), NEW t \in Queued(m)
    PROVE  /\ t \in Tasks /\ QueueKey(m, t) \in Seq(Int)
           /\ QueueKey(m, t)[4] \in DOMAIN m.arrivals /\ m.arrivals[QueueKey(m, t)[4]] = t
<1> DEFINE s == m.arrivals
           I == {i \in 1 .. Len(s) : s[i] = t}
           n == SelectInSeq(s, LAMBDA u : u = t)
           a == EffectivePriority(m, t)
           b == IF Due(m, t) THEN 0 ELSE 1
           d == Deadline[t]
<1>1. s \in Seq(Tasks) /\ t \in ToSet(s) /\ t \in Tasks
  <2>1. s \in Seq(Tasks) /\ t \in ToSet(s)
      BY DEF Changed, Queued
  <2> QED
      BY <2>1, ListIsFinite
<1>2. I # {} /\ I \in SUBSET Nat /\ \A i \in I : i \in DOMAIN s /\ s[i] = t
    BY <1>1 DEF ToSet
<1>3. n = Min(I)
    BY <1>2 DEF SelectInSeq
<1>4. Min(I) \in I
  <2>1. \E i \in I : \A j \in I : i <= j
    <3> HIDE DEF I
    <3> QED
        BY <1>2, LeastNumber
  <2> HIDE DEF I
  <2> QED
      BY <2>1 DEF Min
<1>5. n \in DOMAIN s /\ s[n] = t /\ n \in Int
  <2>1. n \in I
      BY <1>3, <1>4
  <2> HIDE DEF I, n, s
  <2>2. n \in DOMAIN s /\ s[n] = t
      BY <1>2, <2>1
  <2>3. n \in Nat
      BY <1>2, <2>1
  <2> QED
      BY <2>2, <2>3
<1>6. a \in Int /\ b \in Int /\ d \in Int
  <2>1. Guaranteed[t] \in 0 .. 5 /\ Priority[t] \in 0 .. 5 /\ Deadline[t] \in Nat
      BY <1>1, AttentionConstants
  <2> QED
      BY <2>1 DEF EffectivePriority
<1>7. QueueKey(m, t) = <<a, b, d, n>>
    BY DEF QueueKey
<1> HIDE DEF s, n, a, b, d
<1>8. <<a, b, d, n>> \in Seq(Int) /\ <<a, b, d, n>>[4] = n
    BY <1>5, <1>6
<1> QED
    BY <1>1, <1>5, <1>7, <1>8 DEF s

ListsWaiting(m, p, L) ==
    /\ DOMAIN L = 1 .. Len(L) /\ Len(L) \in Nat
    /\ \A k \in DOMAIN L :
          /\ L[k].task \in Tasks /\ Startable(m, L[k].task)
          /\ L[k].task \notin ToSet(p.assigned) \cup p.waiting \cup p.released
    /\ \A k, l \in DOMAIN L : k # l => L[k].task # L[l].task

LEMMA QueueIsListed ==
    ASSUME EpochInv, NEW m, Changed(m), NEW p, NEW L, L = Candidates(ReadyQueue(m), p)
    PROVE  ListsWaiting(m, p, L)
<1> DEFINE Q == {t \in Queued(m) : DependenciesSatisfied(m, t)}
           As(t) == [task |-> t, key |-> QueueKey(m, t)]
           S == {c \in ReadyQueue(m) : c.task \notin ToSet(p.assigned) \cup p.waiting \cup p.released}
           R == {z \in S \X S : Preferred(z[1].key, z[2].key)}
<1>1. ReadyQueue(m) = {As(t) : t \in Q}
    BY DEF ReadyQueue
<1>2. IsFiniteSet(ReadyQueue(m))
  <2> DEFINE f == [t \in Q |-> As(t)]
  <2>1. IsFiniteSet(ToSet(m.arrivals))
      BY ListIsFinite DEF Changed
  <2>2. Q \in SUBSET ToSet(m.arrivals)
      BY DEF Queued
  <2>3. IsFiniteSet(Q)
    <3> HIDE DEF Q
    <3> QED
        BY <2>1, <2>2, FS_Subset
  <2>4. IsFiniteSet({f[t] : t \in Q})
    <3> HIDE DEF Q, f
    <3> QED
        BY <2>3, ImageIsFinite
  <2>5. {f[t] : t \in Q} = {As(t) : t \in Q}
      OBVIOUS
  <2> QED
      BY <1>1, <2>4, <2>5
<1>3. \A t \in Q : As(t).task = t /\ As(t).key = QueueKey(m, t)
    OBVIOUS
<1>4. \A t \in Q : t \in Queued(m) /\ Startable(m, t)
    BY DEF Startable
<1> HIDE DEF Q, As
<1>5. \A c \in ReadyQueue(m) : /\ c = As(c.task) /\ c.task \in Q /\ c.key = QueueKey(m, c.task)
                               /\ Startable(m, c.task) /\ c.task \in Queued(m)
    BY <1>1, <1>3, <1>4
<1>6. \A c \in ReadyQueue(m) :
          /\ c.task \in Tasks /\ c.key \in Seq(Int) /\ m.arrivals[c.key[4]] = c.task
    BY <1>5, KeysAreApart
<1>7. S \in SUBSET ReadyQueue(m) /\ IsFiniteSet(S)
  <2>1. S \in SUBSET ReadyQueue(m)
      OBVIOUS
  <2> HIDE DEF S
  <2> QED
      BY <1>2, <2>1, FS_Subset
<1>8. \A c \in S : c.task \notin ToSet(p.assigned) \cup p.waiting \cup p.released
    OBVIOUS
<1>9. \A c, d \in S : c.key = d.key => c = d
    BY <1>5, <1>6, <1>7
<1>10. L = InOrder(S, LAMBDA c, d : Preferred(c.key, d.key))
    BY DEF Candidates
<1> HIDE DEF S
<1>11. \A c, d \in S : <<c, d>> \in R <=> Preferred(c.key, d.key)
    OBVIOUS
<1>12. \A x \in S : Below(R, S, x) = {y \in S : Preferred(y.key, x.key)}
    BY <1>11 DEF Below
<1> HIDE DEF R
<1>13. Orders(R, S)
  <2>1. \A c \in S : c.key \in Seq(Int)
      BY <1>6, <1>7
  <2>2. \A c \in S : <<c, c>> \notin R
      BY <1>11, <2>1, PreferredIrreflexive
  <2>3. \A c, d \in S : c = d \/ <<c, d>> \in R \/ <<d, c>> \in R
      BY <1>9, <1>11, <2>1, PreferredTotal
  <2>4. ASSUME NEW c \in S, NEW d \in S, NEW e \in S, <<c, d>> \in R, <<d, e>> \in R
        PROVE  <<c, e>> \in R
    <3>1. Preferred(c.key, d.key) /\ Preferred(d.key, e.key)
        BY <1>11, <2>4
    <3>2. c.key \in Seq(Int) /\ d.key \in Seq(Int) /\ e.key \in Seq(Int)
        BY <2>1
    <3>3. Preferred(c.key, e.key)
        BY <3>1, <3>2, PreferredTransitive
    <3> QED
        BY <1>11, <3>3
  <2> QED
      BY <2>2, <2>3, <2>4 DEF Orders
<1>14. Lists(L, R, S)
  <2> DEFINE e(k) == CHOOSE x \in S : Cardinality({y \in S : Preferred(y.key, x.key)}) = k - 1
  <2>1. ASSUME NEW k \in 1 .. Cardinality(S)
        PROVE  e(k) \in S /\ Cardinality(Below(R, S, e(k))) = k - 1
    <3>1. \E x \in S : Cardinality(Below(R, S, x)) = k - 1
        BY <1>7, <1>13, RankExists
    <3>2. \E x \in S : Cardinality({y \in S : Preferred(y.key, x.key)}) = k - 1
        BY <1>12, <3>1
    <3>3. e(k) \in S /\ Cardinality({y \in S : Preferred(y.key, e(k).key)}) = k - 1
        BY <3>2
    <3> HIDE DEF e
    <3> QED
        BY <1>12, <3>3
  <2>2. L = [k \in 1 .. Cardinality(S) |-> e(k)]
      BY <1>10, Zenon DEF InOrder
  <2> HIDE DEF e
  <2> QED
      BY <2>1, <2>2 DEF Lists
<1>15. L \in Seq(S) /\ IsInjective(L)
    BY <1>7, <1>13, <1>14, ListProperties
<1>16. DOMAIN L = 1 .. Len(L) /\ Len(L) \in Nat /\ \A k \in DOMAIN L : L[k] \in S
    BY <1>15
<1>17. \A k, l \in DOMAIN L : k # l => L[k].task # L[l].task
    BY <1>5, <1>7, <1>15, <1>16 DEF IsInjective
<1> QED
    BY <1>5, <1>6, <1>7, <1>8, <1>16, <1>17 DEF ListsWaiting

(* On a healthy host the queue follows; whatever is planned is sound.         *)
LEMMA QueueIsToDo ==
    ASSUME EpochInv, NEW m, Changed(m), NEW obs, NEW p, Sound(m, obs, p, {}, {}),
           p.requested = {}, NEW L, L = Candidates(ReadyQueue(m), p)
    PROVE  Sound(m, obs, p, {L[k].task : k \in DOMAIN L}, {})
<1> DEFINE todo == {L[k].task : k \in DOMAIN L}
<1>1. \A t \in todo : /\ t \in Tasks /\ Startable(m, t)
                      /\ t \notin ToSet(p.assigned) \cup p.waiting \cup p.released
  <2>1. ListsWaiting(m, p, L)
      BY QueueIsListed
  <2> QED
      BY <2>1 DEF ListsWaiting
<1> HIDE DEF todo
<1>2. ASSUME NEW t \in todo
      PROVE  /\ t \notin ToSet(assigned) \cup ToSet(p.assigned)
             /\ \A i \in PlannedIntents(p) : i.target # t
  <2>1. t \notin m.completed
      BY <1>1 DEF Startable, Queued
  <2>2. ToSet(Kept(m)) \subseteq ToSet(p.assigned) \cup p.released
      BY DEF Sound
  <2>3. ToSet(Kept(m)) = ToSet(assigned) \ m.completed
      BY KeptIsAssigned
  <2>4. t \notin ToSet(assigned)
      BY <1>1, <2>1, <2>2, <2>3
  <2>5. \A i \in ToSet(p.carried) : i.target \in p.waiting
      BY DEF Sound
  <2> QED
      BY <1>1, <2>4, <2>5 DEF PlannedIntents
<1> QED
    BY <1>1, <1>2 DEF Sound, todo

(* The plans of the queue L, from the plan p. *)
QueuePlans(m, p, L) ==
    FoldLeft(LAMBDA P, c : UNION {ConsiderCandidate(m, q, c.task) : q \in P}, {p}, L)

LEMMA QueuePlansAreSound ==
    ASSUME EpochInv, NEW m, Changed(m), NEW obs \in Observations, NEW p,
           Sound(m, obs, p, {}, {}), p.requested = {}, obs.healthy, RoomIsLeft(obs, p),
           NEW L, L = Candidates(ReadyQueue(m), p)
    PROVE  \A q \in QueuePlans(m, p, L) : Sound(m, obs, q, {}, {}) /\ RoomIsLeft(obs, q)
<1> DEFINE n == Len(L)
           base == {p}
           A == SUBSET Plan
           More(P, c) == UNION {ConsiderCandidate(m, q, c.task) : q \in P}
           step == [z \in (1 .. n) \X A |-> More(z[2], L[z[1]])]
           Runs(f) == f = [T \in SUBSET DOMAIN L |->
                              IF T = {} THEN base ELSE More(f[T \ {Max(T)}], L[Max(T)])]
           h == CHOOSE f : Runs(f)
           Todo(k) == {L[j].task : j \in k + 1 .. n}
<1>1. /\ n \in Nat /\ DOMAIN L = 1 .. n /\ \A k \in 1 .. n : L[k].task \in Tasks
      /\ \A k, l \in 1 .. n : k # l => L[k].task # L[l].task
  <2>1. ListsWaiting(m, p, L)
      BY QueueIsListed
  <2> QED
      BY <2>1 DEF ListsWaiting
<1>2. QueuePlans(m, p, L) = h[DOMAIN L]
    BY DEF QueuePlans, FoldLeft, MapThenFoldSet
<1>3. Sound(m, obs, p, Todo(0), {})
  <2>1. Todo(0) = {L[k].task : k \in DOMAIN L}
      BY <1>1
  <2> HIDE DEF Todo
  <2> QED
      BY <2>1, QueueIsToDo
<1>4. p \in Plan
    BY DEF Sound
<1>5. Todo(n) = {}
    BY <1>1
<1>6. ASSUME NEW k \in 1 .. n
      PROVE  L[k].task \in Todo(k - 1) /\ Todo(k) \subseteq Todo(k - 1) \ {L[k].task}
  <2>1. k \in (k - 1) + 1 .. n /\ \A j \in k + 1 .. n : j \in (k - 1) + 1 .. n /\ j \in 1 .. n /\ j # k
      BY <1>1
  <2> QED
      BY <1>1, <2>1
<1> HIDE DEF n, A, h, More, Todo
<1>7. base \in A
    BY <1>4 DEF A
<1>8. \A P \in A : \A k \in 1 .. n : More(P, L[k]) \in A
  <2> SUFFICES ASSUME NEW P \in A, NEW k \in 1 .. n, NEW q \in More(P, L[k]) PROVE q \in Plan
      BY DEF A
  <2>1. PICK r \in P : q \in ConsiderCandidate(m, r, L[k].task)
      BY DEF More
  <2>2. r \in Plan /\ L[k].task \in Tasks
      BY <1>1 DEF A
  <2> QED
      BY <2>1, <2>2, ConsiderIsPlan
<1> HIDE DEF base
<1>9. \E f : Runs(f)
  <2>1. Steps(step, 1 .. n, A)
      BY <1>8 DEF Steps
  <2>2. PICK f \in [SUBSET (1 .. n) -> A] : Accumulates(f, n, base, step)
    <3> HIDE DEF step
    <3> QED
        BY <1>1, <1>7, <2>1, FoldExists
  <2>3. ASSUME NEW T \in SUBSET (1 .. n), T # {}
        PROVE  f[T] = More(f[T \ {Max(T)}], L[Max(T)])
    <3>1. Max(T) \in 1 .. n /\ f[T \ {Max(T)}] \in A
        BY <1>1, <2>2, <2>3, MaxIsOne
    <3> QED
        BY <2>2, <2>3, <3>1 DEF Accumulates
  <2>4. Runs(f)
    <3> HIDE DEF step
    <3> QED
        BY <1>1, <2>2, <2>3 DEF Accumulates
  <2> QED
      BY <2>4
<1>10. Runs(h)
    BY <1>9 DEF h
<1>11. h[{}] = base
    BY <1>10
<1>12. ASSUME NEW k \in 1 .. n PROVE h[1 .. k] = More(h[1 .. k - 1], L[k])
  <2>1. /\ 1 .. k \in SUBSET DOMAIN L /\ 1 .. k # {}
        /\ Max(1 .. k) = k /\ (1 .. k) \ {k} = 1 .. k - 1
      BY <1>1, Segments
  <2>2. h[1 .. k] = More(h[(1 .. k) \ {Max(1 .. k)}], L[Max(1 .. k)])
      BY <1>10, <2>1
  <2> QED
      BY <2>1, <2>2
<1> DEFINE Good(P, k) == \A q \in P : Sound(m, obs, q, Todo(k), {}) /\ RoomIsLeft(obs, q)
           G == {k \in Nat : k <= n => Good(h[1 .. k], k)}
<1>13. 0 \in G
    BY <1>3, <1>11, Segments DEF base
<1>14. ASSUME NEW k \in 1 .. n, NEW P, Good(P, k - 1) PROVE Good(More(P, L[k]), k)
  <2> SUFFICES ASSUME NEW q \in More(P, L[k])
               PROVE  Sound(m, obs, q, Todo(k), {}) /\ RoomIsLeft(obs, q)
      OBVIOUS
  <2>1. PICK r \in P : q \in ConsiderCandidate(m, r, L[k].task)
      BY DEF More
  <2>2. /\ Sound(m, obs, r, Todo(k - 1), {}) /\ L[k].task \in Todo(k - 1)
        /\ RoomIsLeft(obs, r)
      BY <1>6, <1>14
  <2>3. Sound(m, obs, q, Todo(k - 1) \ {L[k].task}, {})
      BY <2>1, <2>2, ConsiderIsSound
  <2>4. /\ Todo(k) \in SUBSET (Todo(k - 1) \ {L[k].task}) /\ {} \in SUBSET {}
        /\ \A i \in {} : i.target \in Todo(k)
      BY <1>6
  <2>5. q \in Plan /\ Room(obs, q)
      BY <2>3 DEF Sound
  <2>6. Sound(m, obs, q, Todo(k), {})
      BY <2>3, <2>4, <2>5, StillSound
  <2>7. RoomIsLeft(obs, q)
      BY <2>1, <2>2, ConsiderLeavesRoom
  <2> QED
      BY <2>6, <2>7
<1> HIDE DEF Good
<1>15. ASSUME NEW k \in G PROVE k + 1 \in G
  <2> SUFFICES ASSUME k + 1 <= n PROVE Good(h[1 .. k + 1], k + 1)
      OBVIOUS
  <2>1. k \in Nat /\ k + 1 \in 1 .. n /\ k <= n /\ (k + 1) - 1 = k
      BY <1>1
  <2>2. Good(h[1 .. k], k)
      BY <2>1
  <2>3. h[1 .. k + 1] = More(h[1 .. (k + 1) - 1], L[k + 1])
      BY <1>12, <2>1
  <2>4. Good(More(h[1 .. (k + 1) - 1], L[k + 1]), k + 1)
      BY <1>14, <2>1, <2>2
  <2> QED
      BY <2>3, <2>4
<1>16. n \in G
  <2>1. G \in SUBSET Nat
      OBVIOUS
  <2> HIDE DEF G
  <2>2. G = Nat
      BY <1>13, <1>15, <2>1, Induction
  <2> QED
      BY <1>1, <2>2
<1>17. Good(h[DOMAIN L], n)
    BY <1>1, <1>16
<1> QED
    BY <1>2, <1>5, <1>17 DEF Good

LEMMA PlansAreSound ==
    ASSUME EpochInv, NEW m, Changed(m), NEW obs \in Observations,
           NEW p \in PlanSchedulingEpoch(m, obs)
    PROVE  Sound(m, obs, p, {}, {}) /\ RoomIsLeft(obs, p)
<1>1. PlanSchedulingEpoch(m, obs)
      = IF ~obs.healthy THEN IntentsResolved(m, obs)
        ELSE UNION {QueuePlans(m, q, Candidates(queue, q)) :
                        q \in IntentsResolved(m, obs), queue \in {ReadyQueue(m)}}
    BY DEF PlanSchedulingEpoch, QueuePlans, FoldLeft, MapThenFoldSet
<1>2. \A q \in IntentsResolved(m, obs) :
          Sound(m, obs, q, {}, {}) /\ q.requested = {} /\ RoomIsLeft(obs, q)
    BY ResolvedPlansAreSound
<1>3. ASSUME obs.healthy, NEW q \in IntentsResolved(m, obs)
      PROVE  \A r \in QueuePlans(m, q, Candidates(ReadyQueue(m), q)) :
                 Sound(m, obs, r, {}, {}) /\ RoomIsLeft(obs, r)
  <2> DEFINE L == Candidates(ReadyQueue(m), q)
  <2>1. L = Candidates(ReadyQueue(m), q)
      OBVIOUS
  <2> HIDE DEF L
  <2>2. \A r \in QueuePlans(m, q, L) : Sound(m, obs, r, {}, {}) /\ RoomIsLeft(obs, r)
      BY <1>2, <1>3, <2>1, QueuePlansAreSound
  <2> QED
      BY <2>1, <2>2
<1> QED
    BY <1>1, <1>2, <1>3
-----------------------------------------------------------------------------
(* What is published.                                                         *)

LEMMA JoinedLists ==
    ASSUME NEW X, NEW s \in Seq(X), NEW r \in Seq(X), IsInjective(s), IsInjective(r),
           ToSet(s) \cap ToSet(r) = {}
    PROVE  /\ s \o r \in Seq(X) /\ IsInjective(s \o r)
           /\ ToSet(s \o r) = ToSet(s) \cup ToSet(r)
<1> DEFINE a == Len(s)
           b == Len(r)
           q == s \o r
<1>1. /\ a \in Nat /\ b \in Nat /\ DOMAIN s = 1 .. a /\ DOMAIN r = 1 .. b
      /\ q \in Seq(X) /\ DOMAIN q = 1 .. a + b
      /\ \A k \in 1 .. a + b : q[k] = IF k <= a THEN s[k] ELSE r[k - a]
    OBVIOUS
<1> HIDE DEF a, b, q
<1>2. ASSUME NEW k \in 1 .. a + b
      PROVE  \/ k \in 1 .. a /\ q[k] = s[k] /\ q[k] \in ToSet(s)
             \/ k - a \in 1 .. b /\ q[k] = r[k - a] /\ q[k] \in ToSet(r)
  <2>1. k <= a \/ ~(k <= a)
      OBVIOUS
  <2>2. ASSUME k <= a PROVE k \in 1 .. a /\ q[k] = s[k]
      BY <1>1, <2>2
  <2>3. ASSUME ~(k <= a) PROVE k - a \in 1 .. b /\ q[k] = r[k - a]
      BY <1>1, <2>3
  <2> QED
      BY <1>1, <2>1, <2>2, <2>3 DEF ToSet
<1>3. ASSUME NEW k \in 1 .. a PROVE k \in 1 .. a + b /\ q[k] = s[k]
    BY <1>1
<1>4. ASSUME NEW k \in 1 .. b PROVE k + a \in 1 .. a + b /\ q[k + a] = r[k]
  <2>1. k + a \in 1 .. a + b /\ ~(k + a <= a) /\ (k + a) - a = k
      BY <1>1
  <2> QED
      BY <1>1, <2>1
<1>5. ToSet(q) = ToSet(s) \cup ToSet(r)
  <2>1. \A x \in ToSet(q) : x \in ToSet(s) \cup ToSet(r)
      BY <1>1, <1>2 DEF ToSet
  <2>2. ASSUME NEW x \in ToSet(s) PROVE x \in ToSet(q)
    <3>1. PICK k \in 1 .. a : s[k] = x
        BY <1>1 DEF ToSet
    <3>2. k \in DOMAIN q /\ q[k] = x
        BY <1>1, <1>3, <3>1
    <3> QED
        BY <3>2 DEF ToSet
  <2>3. ASSUME NEW x \in ToSet(r) PROVE x \in ToSet(q)
    <3>1. PICK k \in 1 .. b : r[k] = x
        BY <1>1 DEF ToSet
    <3>2. k + a \in DOMAIN q /\ q[k + a] = x
        BY <1>1, <1>4, <3>1
    <3> QED
        BY <3>2 DEF ToSet
  <2> QED
      BY <2>1, <2>2, <2>3
<1>6. ASSUME NEW j \in 1 .. a + b, NEW k \in 1 .. a + b, q[j] = q[k] PROVE j = k
  <2>1. CASE q[j] \in ToSet(s)
    <3>1. j \in 1 .. a /\ k \in 1 .. a /\ s[j] = s[k]
        BY <1>2, <1>6, <2>1
    <3> QED
        BY <1>1, <3>1 DEF IsInjective
  <2>2. CASE q[j] \in ToSet(r)
    <3>1. j - a \in 1 .. b /\ k - a \in 1 .. b /\ r[j - a] = r[k - a]
        BY <1>2, <1>6, <2>2
    <3>2. j - a = k - a
        BY <1>1, <3>1 DEF IsInjective
    <3> QED
        BY <1>1, <3>2
  <2> QED
      BY <1>2, <2>1, <2>2
<1> QED
    BY <1>1, <1>5, <1>6 DEF IsInjective, q

LEMMA ListedSets ==
    ASSUME NEW X, NEW S \in SUBSET X, IsFiniteSet(S), NEW new \in SetToSeqs(S)
    PROVE  new \in Seq(X) /\ IsInjective(new) /\ ToSet(new) \subseteq S
<1> DEFINE n == Cardinality(S)
<1>1. n \in Nat
    BY FS_CardinalityType
<1>2. new \in [1 .. n -> S] /\ \A i, j \in 1 .. n : i # j => new[i] # new[j]
    BY DEF SetToSeqs
<1> HIDE DEF n
<1>3. new \in Seq(S)
    BY <1>1, <1>2
<1>4. DOMAIN new = 1 .. n /\ \A k \in DOMAIN new : new[k] \in S
    BY <1>2
<1>5. new \in Seq(X)
    BY <1>3
<1> QED
    BY <1>2, <1>4, <1>5 DEF IsInjective, ToSet

(* The writers change the scheduler in one of these ways.                     *)
LEMMA WritersChange ==
    ASSUME EpochInv
    PROVE  /\ Changed(Loaded)
           /\ \A t \in ToSet(assigned) : Changed(WithCompleted(t))
           /\ \A S \in SUBSET (Tasks \ ToSet(arrivals)) : IsFiniteSet(S) =>
                 \A new \in SetToSeqs(S) : Changed(WithSubmitted(new))
<1>1. /\ arrivals \in Seq(Tasks) /\ IsInjective(arrivals) /\ completed \subseteq ToSet(arrivals)
      /\ ToSet(assigned) \subseteq ToSet(arrivals)
    BY DEF EpochInv, TypeOK
<1>2. Changed(Loaded)
    BY <1>1 DEF Changed, Loaded
<1>3. ASSUME NEW t \in ToSet(assigned) PROVE Changed(WithCompleted(t))
  <2>1. /\ WithCompleted(t).arrivals = arrivals /\ WithCompleted(t).waited = waited
        /\ WithCompleted(t).completed = completed \cup {t}
      BY DEF WithCompleted, Loaded
  <2> QED
      BY <1>1, <2>1 DEF Changed
<1>4. ASSUME NEW S \in SUBSET (Tasks \ ToSet(arrivals)), IsFiniteSet(S), NEW new \in SetToSeqs(S)
      PROVE  Changed(WithSubmitted(new))
  <2>1. new \in Seq(Tasks) /\ IsInjective(new) /\ ToSet(new) \subseteq S
      BY <1>4, ListedSets
  <2>2. ToSet(arrivals) \cap ToSet(new) = {}
      BY <2>1
  <2>3. /\ arrivals \o new \in Seq(Tasks) /\ IsInjective(arrivals \o new)
        /\ ToSet(arrivals \o new) = ToSet(arrivals) \cup ToSet(new)
      BY <1>1, <2>1, <2>2, JoinedLists
  <2>4. /\ WithSubmitted(new).arrivals = arrivals \o new /\ WithSubmitted(new).waited = waited
        /\ WithSubmitted(new).completed = completed
      BY DEF WithSubmitted, Loaded
  <2> QED
      BY <1>1, <2>3, <2>4 DEF Changed
<1> QED
    BY <1>2, <1>3, <1>4

LEMMA PlannedIntentsWait ==
    ASSUME EpochInv, NEW m, Changed(m), NEW obs, NEW p, Sound(m, obs, p, {}, {}),
           NEW i \in PlannedIntents(p)
    PROVE  /\ i \in Intent /\ i.acked \subseteq CheckpointVictims(i)
           /\ Startable(m, i.target) /\ i.target \in Tasks /\ i.target \notin ToSet(p.assigned)
           /\ ToSet(i.victims) \subseteq ToSet(assigned)
           /\ \A v \in ToSet(i.victims) : MayYield(m, i.target, v)
<1>1. i.target \notin ToSet(p.assigned)
    BY DEF Sound
<1>2. i \in ToSet(p.carried) \/ i \in p.requested
    BY DEF PlannedIntents
<1>3. CASE i \in ToSet(p.carried)
  <2>1. i \in ToSet(intents)
      BY <1>3 DEF Sound
  <2>2. Pending(Loaded, ToSet(assigned), i) /\ i.target \in Tasks /\ i \in Intent
      BY <2>1, IntentsAreApart
  <2>3. /\ i.target \in ToSet(arrivals) /\ i.target \notin completed
        /\ i.target \notin ToSet(assigned) /\ Deps[i.target] \subseteq completed
      BY <2>2 DEF Pending, Queued, Loaded, DependenciesSatisfied
  <2>4. i.target \in ToSet(m.arrivals) \ m.completed /\ Deps[i.target] \subseteq m.completed
      BY <2>3 DEF Changed
  <2>5. \A v \in ToSet(i.victims) : MayYield(m, i.target, v)
    <3>1. m.waited = Loaded.waited
        BY DEF Changed, Loaded
    <3> QED
        BY <2>2, <3>1 DEF Pending, MayYield, Outprioritizes, EffectivePriority, Due
  <2> QED
      BY <1>1, <2>2, <2>4, <2>5 DEF Pending, Startable, Queued, DependenciesSatisfied
<1>4. CASE i \in p.requested
  <2>1. Asked(m, i) /\ p \in Plan
      BY <1>4 DEF Sound
  <2>2. i \in Intent
      BY <1>4, <2>1, PlanIsRecord
  <2>3. i.target \in Tasks
      BY <2>2 DEF Intent
  <2>4. ToSet(i.victims) \subseteq ToSet(assigned)
      BY <2>1, KeptIsAssigned DEF Asked
  <2> QED
      BY <1>1, <2>1, <2>2, <2>3, <2>4 DEF Asked
<1> QED
    BY <1>2, <1>3, <1>4

LEMMA SoundIsPublishable ==
    ASSUME EpochInv, NEW m, Changed(m), NEW obs \in Observations, NEW p, Sound(m, obs, p, {}, {}),
           \A i \in ToSet(p.carried) : ToSet(i.victims) \cap m.completed = {}
    PROVE  Publishable(m, obs, p)
<1> DEFINE admitted == ToSet(p.assigned)
           targets == {i.target : i \in PlannedIntents(p)}
           victims == UNION {ToSet(i.victims) : i \in PlannedIntents(p)}
<1>1. \A i \in PlannedIntents(p) :
          /\ Startable(m, i.target) /\ i.target \notin admitted
          /\ ToSet(i.victims) \subseteq ToSet(assigned)
          /\ \A v \in ToSet(i.victims) : MayYield(m, i.target, v)
    BY PlannedIntentsWait
<1>2. \A i \in PlannedIntents(p) : ToSet(i.victims) \subseteq admitted
  <2>1. ToSet(Kept(m)) = ToSet(assigned) \ m.completed
      BY KeptIsAssigned
  <2>2. \A i \in p.requested : ToSet(i.victims) \subseteq ToSet(Kept(m))
      BY DEF Sound, Asked
  <2>3. \A i \in PlannedIntents(p) : ToSet(i.victims) \subseteq ToSet(Kept(m))
      BY <1>1, <2>1, <2>2 DEF PlannedIntents
  <2>4. \A i \in PlannedIntents(p) : ToSet(i.victims) \cap ToSet(Kept(m)) \subseteq admitted
      BY DEF Sound
  <2> QED
      BY <2>3, <2>4
<1>3. /\ p \in Plan /\ IsInjective(p.assigned) /\ Room(obs, p)
      /\ \A t \in admitted : Startable(m, t)
    BY DEF Sound
<1>4. ASSUME NEW c \in Classes
      PROVE  Units(admitted)[c] <= Capacity[c] /\ Units(admitted)[c] <= AdmissionCapacity(obs)[c]
  <2> DEFINE a == AdmissionCapacity(obs)[c]
             u == Units(admitted)[c]
             r == p.remaining[c]
  <2>1. a \in Int /\ Capacity[c] \in Nat /\ a <= Capacity[c]
      BY CapacityIsBounded
  <2>2. u \in Nat /\ r \in Int
      BY <1>3, PlanIsRecord
  <2>3. 0 <= r /\ r + u <= a
      BY <1>3 DEF Room
  <2> HIDE DEF a, u, r
  <2>4. u <= Capacity[c] /\ u <= a
      BY <2>1, <2>2, <2>3
  <2> QED
      BY <2>4 DEF u, a
<1>5. \A t \in admitted \cup targets : DependenciesSatisfied(m, t)
    BY <1>1, <1>3 DEF Startable
<1>6. targets \subseteq Queued(m) \ admitted
    BY <1>1 DEF Startable
<1>7. victims \subseteq admitted /\ \A v \in victims : Policy[v] # "ATOMIC"
    BY <1>1, <1>2 DEF MayYield
<1>8. \A i, j \in PlannedIntents(p) : i = j \/ (/\ i.target # j.target
                                                /\ ToSet(i.victims) \cap ToSet(j.victims) = {})
    BY DEF Sound, Apart
<1> HIDE DEF admitted, targets, victims
<1>9. targets \cap victims = {}
    BY <1>6, <1>7
<1> QED
    BY <1>3, <1>4, <1>5, <1>6, <1>7, <1>8, <1>9 DEF Publishable, admitted, targets, victims

(* The victims of the carried intents are assigned: they are all there unless *)
(* the writer completed one.                                                  *)
LEMMA CarriedVictimsRun ==
    ASSUME EpochInv, NEW m, Changed(m), NEW obs \in Observations, NEW p, Sound(m, obs, p, {}, {}),
           m.completed \cap ToSet(assigned) = {}
    PROVE  \A i \in ToSet(p.carried) : ToSet(i.victims) \cap m.completed = {}
<1>1. \A i \in PlannedIntents(p) : ToSet(i.victims) \subseteq ToSet(assigned)
    BY PlannedIntentsWait
<1> QED
    BY <1>1 DEF PlannedIntents

(* A published epoch leaves a scheduler of the same kind.                     *)
LEMMA PublishKeeps ==
    ASSUME EpochInv, NEW m, Changed(m), NEW obs \in Observations, Publish(m, obs)
    PROVE  EpochInv'
<1>1. PICK p \in PlanSchedulingEpoch(m, obs) :
          /\ Publishable(m, obs, p)
          /\ arrivals' = Minus(m.arrivals, m.completed \cap Recurring)
          /\ completed' = m.completed \ Recurring
          /\ waited' = [t \in Tasks |->
                IF t \in Queued(m) /\ m.waited[t] < MaxWait[t]
                THEN m.waited[t] + 1
                ELSE IF t \in Queued(m) THEN m.waited[t] ELSE 0]
          /\ assigned' = p.assigned
          /\ \E new \in SetToSeqs(p.requested) : intents' = p.carried \o new
    BY DEF Publish
<1>2. PICK new \in SetToSeqs(p.requested) : intents' = p.carried \o new
    BY <1>1
<1>3. Sound(m, obs, p, {}, {})
    BY PlansAreSound
<1>4. /\ p \in Plan /\ IsInjective(p.assigned) /\ (\A t \in ToSet(p.assigned) : Startable(m, t))
      /\ IsInjective(p.carried) /\ \A i \in ToSet(p.carried) : i \notin p.requested
      /\ IsFiniteSet(p.requested) /\ \A i, j \in PlannedIntents(p) : i = j \/ Apart(i, j)
    BY <1>3 DEF Sound
<1>5. /\ p.assigned \in Seq(Tasks) /\ p.carried \in Seq(Intent) /\ p.requested \in SUBSET Intent
      /\ ToSet(p.assigned) \in SUBSET Tasks
    BY <1>4, PlanIsRecord
<1>6. /\ m.arrivals \in Seq(Tasks) /\ IsInjective(m.arrivals) /\ m.waited = waited
      /\ m.completed \subseteq ToSet(m.arrivals)
    BY DEF Changed
<1>7. /\ arrivals' \in Seq(Tasks) /\ IsInjective(arrivals')
      /\ ToSet(arrivals') = ToSet(m.arrivals) \ (m.completed \cap Recurring)
    BY <1>1, <1>6, MinusProperties
<1>8. /\ intents' \in Seq(Intent) /\ IsInjective(intents')
      /\ ToSet(intents') \subseteq PlannedIntents(p)
  <2>1. new \in Seq(Intent) /\ IsInjective(new) /\ ToSet(new) \subseteq p.requested
      BY <1>4, <1>5, ListedSets
  <2>2. ToSet(p.carried) \cap ToSet(new) = {}
      BY <1>4, <2>1
  <2>3. /\ p.carried \o new \in Seq(Intent) /\ IsInjective(p.carried \o new)
        /\ ToSet(p.carried \o new) = ToSet(p.carried) \cup ToSet(new)
      BY <1>4, <1>5, <2>1, <2>2, JoinedLists
  <2> QED
      BY <1>2, <2>1, <2>3 DEF PlannedIntents
<1>9. /\ waited \in [Tasks -> Nat] /\ (\A t \in Tasks : waited[t] <= MaxWait[t])
      /\ \A t \in Tasks : MaxWait[t] \in Nat
    BY AttentionConstants DEF EpochInv, TypeOK
<1>10. /\ waited' \in [Tasks -> Nat]
       /\ \A t \in Tasks : waited'[t] <= MaxWait[t] /\ (t \in Queued(m) => waited[t] <= waited'[t])
  <2>1. ASSUME NEW t \in Tasks
        PROVE  /\ waited'[t] \in Nat /\ waited'[t] <= MaxWait[t]
               /\ t \in Queued(m) => waited[t] <= waited'[t]
    <3>1. waited'[t] = IF t \in Queued(m) /\ waited[t] < MaxWait[t]
                       THEN waited[t] + 1
                       ELSE IF t \in Queued(m) THEN waited[t] ELSE 0
        BY <1>1, <1>6
    <3>2. waited[t] \in Nat /\ waited[t] <= MaxWait[t] /\ MaxWait[t] \in Nat
        BY <1>9
    <3> QED
        BY <3>1, <3>2
  <2>2. waited' = [t \in Tasks |-> waited'[t]]
      BY <1>1
  <2> QED
      BY <2>1, <2>2
<1>11. ASSUME NEW t \in Tasks, Startable(m, t)
       PROVE  /\ t \in ToSet(arrivals') /\ t \notin completed'
              /\ DependenciesSatisfied(Loaded', t)
  <2>1. t \in ToSet(m.arrivals) /\ t \notin m.completed /\ Deps[t] \subseteq m.completed
      BY <1>11 DEF Startable, Queued, DependenciesSatisfied
  <2>2. Deps[t] \cap Recurring = {}
      BY AttentionConstants
  <2> QED
      BY <1>1, <1>7, <2>1, <2>2 DEF DependenciesSatisfied, Loaded
<1>12. TypeOK'
  <2>1. completed' \subseteq ToSet(arrivals')
      BY <1>1, <1>6, <1>7
  <2>2. assigned' \in Seq(Tasks) /\ IsInjective(assigned')
      BY <1>1, <1>4, <1>5
  <2>3. ToSet(assigned') \subseteq ToSet(arrivals')
      BY <1>1, <1>4, <1>5, <1>11
  <2>4. \A t \in Tasks : waited'[t] <= MaxWait[t]
      BY <1>10
  <2> QED
      BY <1>7, <1>8, <1>10, <2>1, <2>2, <2>3, <2>4 DEF TypeOK
<1>13. completed' \cap ToSet(assigned') = {}
    BY <1>1, <1>4, <1>5, <1>11
<1>14. \A c \in Classes : Units(ToSet(assigned'))[c] <= Capacity[c]
    BY <1>1 DEF Publishable
<1>15. \A t \in ToSet(assigned') : DependenciesSatisfied(Loaded', t)
    BY <1>1, <1>4, <1>5, <1>11
<1>16. ASSUME NEW i \in PlannedIntents(p) PROVE Pending(Loaded', ToSet(assigned'), i)
  <2>1. /\ i \in Intent /\ i.acked \subseteq CheckpointVictims(i)
        /\ Startable(m, i.target) /\ i.target \in Tasks /\ i.target \notin ToSet(p.assigned)
        /\ \A v \in ToSet(i.victims) : MayYield(m, i.target, v)
      BY <1>3, PlannedIntentsWait
  <2>2. i.target \in ToSet(arrivals') \ completed' /\ DependenciesSatisfied(Loaded', i.target)
      BY <1>11, <2>1
  <2>3. ToSet(i.victims) \subseteq ToSet(assigned')
      BY <1>1 DEF Publishable
  <2>4. ASSUME NEW v \in ToSet(i.victims)
        PROVE  Policy[v] # "ATOMIC" /\ Outprioritizes(Loaded', i.target, v)
    <3> DEFINE t == i.target
    <3>1. Policy[v] # "ATOMIC" /\ EffectivePriority(m, t) < Priority[v]
        BY <2>1 DEF MayYield, Outprioritizes
    <3>2. Loaded'.waited = waited' /\ t \in Tasks /\ waited[t] <= waited'[t]
        BY <1>10, <2>1 DEF Loaded, Startable
    <3>3. waited[t] \in Nat /\ waited'[t] \in Nat /\ MaxWait[t] \in Nat
        BY <1>9, <1>10, <3>2
    <3>4. waited[t] + 1 >= MaxWait[t] => waited'[t] + 1 >= MaxWait[t]
        BY <3>2, <3>3
    <3>5. /\ Guaranteed[t] \in Int /\ Priority[t] \in Int /\ Priority[v] \in Int
      <4>1. v \in Tasks
          BY <1>1, <1>5, <2>3
      <4>2. Guaranteed[t] \in 0 .. 5 /\ Priority[t] \in 0 .. 5 /\ Priority[v] \in 0 .. 5
          BY <3>2, <4>1, AttentionConstants
      <4> QED
          BY <4>2
    <3> HIDE DEF t
    <3>6. EffectivePriority(Loaded', t) <= EffectivePriority(m, t)
      <4>1. Due(m, t) => Due(Loaded', t)
          BY <1>6, <3>2, <3>4 DEF Due
      <4> QED
          BY <3>5, <4>1 DEF EffectivePriority
    <3>7. EffectivePriority(Loaded', t) \in Int /\ EffectivePriority(m, t) \in Int
        BY <3>5 DEF EffectivePriority
    <3>8. EffectivePriority(Loaded', t) < Priority[v]
        BY <3>1, <3>5, <3>6, <3>7
    <3> QED
        BY <3>1, <3>8 DEF Outprioritizes, t
  <2>5. i.target \in Queued(Loaded')
      BY <2>2 DEF Queued, Loaded
  <2>6. i.target \notin ToSet(assigned')
      BY <1>1, <2>1
  <2> QED
      BY <2>1, <2>2, <2>3, <2>4, <2>5, <2>6 DEF Pending
<1>17. DOMAIN intents' = 1 .. Len(intents') /\ \A k \in DOMAIN intents' : intents'[k] \in PlannedIntents(p)
    BY <1>8 DEF ToSet
<1>18. \A k \in DOMAIN intents' : Pending(Loaded', ToSet(assigned'), intents'[k])
    BY <1>16, <1>17
<1>19. \A k, l \in DOMAIN intents' : k = l \/ Apart(intents'[k], intents'[l])
    BY <1>4, <1>8, <1>17 DEF IsInjective
<1> QED
    BY <1>12, <1>13, <1>14, <1>15, <1>18, <1>19 DEF EpochInv

(* It interrupts only what may be interrupted.                                *)
LEMMA PublishJustifies ==
    ASSUME EpochInv, NEW m, Changed(m), NEW obs \in Observations, Publish(m, obs)
    PROVE  InterruptsByPolicy
<1>1. PICK p \in PlanSchedulingEpoch(m, obs) :
          /\ arrivals' = Minus(m.arrivals, m.completed \cap Recurring)
          /\ completed' = m.completed \ Recurring
          /\ assigned' = p.assigned
    BY DEF Publish
<1>2. Sound(m, obs, p, {}, {})
    BY PlansAreSound
<1>3. ToSet(arrivals') = ToSet(m.arrivals) \ (m.completed \cap Recurring)
    BY <1>1, MinusProperties DEF Changed
<1>4. ASSUME NEW v \in Displaced PROVE Justified(m, p, v)
  <2>1. v \in ToSet(assigned) /\ v \in ToSet(arrivals') /\ v \notin ToSet(p.assigned)
        /\ v \notin completed'
      BY <1>1 DEF Displaced
  <2>2. v \notin m.completed
      BY <1>1, <1>3, <2>1
  <2>3. v \in ToSet(Kept(m)) \ ToSet(p.assigned)
      BY <2>1, <2>2, KeptIsAssigned
  <2> QED
      BY <1>2, <2>3 DEF Sound
<1>5. \A t, v : Outprioritizes(m, t, v) <=> Outprioritizes([waited |-> waited], t, v)
    BY DEF Outprioritizes, EffectivePriority, Due, Changed
<1> QED
    BY <1>1, <1>4, <1>5 DEF InterruptsByPolicy, Justified, Allowed

(* A waiting target has the room its intent was recorded with, unless the     *)
(* target of another intent is admitted into it.                              *)
LEMMA PublishKeepsRoom ==
    ASSUME EpochInv, NEW m, Changed(m), NEW obs \in Observations, Publish(m, obs)
    PROVE  KeepsRoom
<1>1. PICK p \in PlanSchedulingEpoch(m, obs) :
          /\ assigned' = p.assigned
          /\ \E new \in SetToSeqs(p.requested) : intents' = p.carried \o new
    BY DEF Publish
<1>2. PICK new \in SetToSeqs(p.requested) : intents' = p.carried \o new
    BY <1>1
<1>3. Sound(m, obs, p, {}, {}) /\ RoomIsLeft(obs, p)
    BY PlansAreSound
<1>4. /\ p \in Plan /\ p.carried \in Seq(Intent) /\ p.requested \in SUBSET Intent
      /\ IsFiniteSet(p.requested) /\ IsInjective(p.carried)
      /\ \A i \in ToSet(p.carried) : i \notin p.requested
      /\ Room(obs, p)
    BY <1>3, PlanIsRecord DEF Sound
<1>5. ToSet(intents') \subseteq PlannedIntents(p)
  <2>1. new \in Seq(Intent) /\ IsInjective(new) /\ ToSet(new) \subseteq p.requested
      BY <1>4, ListedSets
  <2>2. ToSet(p.carried) \cap ToSet(new) = {}
      BY <1>4, <2>1
  <2>3. ToSet(p.carried \o new) = ToSet(p.carried) \cup ToSet(new)
      BY <1>4, <2>1, <2>2, JoinedLists
  <2> QED
      BY <1>2, <2>1, <2>3 DEF PlannedIntents
<1>6. ASSUME NEW i \in ToSet(intents'), LeavesRoom(obs, p, i) PROVE HasRoom(i)'
  <2> SUFFICES ASSUME NEW c \in Classes
               PROVE  Units(ToSet(p.assigned) \ ToSet(i.victims))[c] + Need[i.target][c]
                          <= Capacity[c]
      BY <1>1 DEF HasRoom
  <2> DEFINE a == IF obs.healthy THEN p.remaining[c] ELSE 0
             u == Units(ToSet(p.assigned) \ ToSet(i.victims))[c]
             g == Need[i.target][c]
             d == Capacity[c]
  <2>1. i.target \in Tasks
    <3>1. ToSet(p.carried) \in SUBSET Intent
        BY <1>4, ListIsFinite
    <3>2. i \in Intent
        BY <1>4, <1>5, <3>1 DEF PlannedIntents
    <3> QED
        BY <3>2 DEF Intent
  <2>2. u \in Nat /\ g \in Nat /\ d \in Nat
      BY <1>4, <2>1, UnitsBeside, NeedIsTyped, AttentionConstants
  <2>3. a \in Int /\ 0 <= a
      BY <1>4, PlanIsRecord DEF Room
  <2>4. a + u + g <= d
      BY <1>6 DEF LeavesRoom
  <2> HIDE DEF a, u, g, d
  <2>5. u + g <= d
      BY <2>2, <2>3, <2>4
  <2> QED
      BY <2>5 DEF u, g, d
<1>7. ASSUME NEW i \in ToSet(intents'), ~HasRoom(i)'
      PROVE  i \in ToSet(intents) /\ (HasRoom(i) => TargetAdmitted(p))
    BY <1>3, <1>5, <1>6, <1>7 DEF RoomIsLeft
<1> QED
    BY <1>1, <1>7 DEF KeepsRoom, TargetAdmitted

LEMMA AcknowledgeKeeps ==
    ASSUME EpochInv, NEW t \in Tasks, CheckpointPendingPreemption(t)
    PROVE  EpochInv' /\ InterruptsByPolicy /\ KeepsRoom
<1>1. PICK k \in DOMAIN intents :
          /\ t \in CheckpointVictims(intents[k]) \ intents[k].acked
          /\ intents' = [intents EXCEPT ![k].acked = @ \cup {t}]
          /\ UNCHANGED <<arrivals, completed, waited, assigned>>
    BY DEF CheckpointPendingPreemption
<1>2. intents \in Seq(Intent) /\ DOMAIN intents = 1 .. Len(intents)
      /\ \A l \in DOMAIN intents : intents[l] \in Intent
    BY IntentsAreApart
<1> DEFINE i == intents[k]
           j == [i EXCEPT !.acked = @ \cup {t}]
<1>3. /\ i \in Intent /\ j \in Intent /\ j.target = i.target /\ j.victims = i.victims
      /\ j.acked = i.acked \cup {t}
    BY <1>2 DEF Intent
<1>4. intents' = [intents EXCEPT ![k] = j]
    BY <1>1
<1> HIDE DEF i, j
<1>5. /\ intents' \in Seq(Intent) /\ DOMAIN intents' = DOMAIN intents
      /\ intents'[k] = j /\ \A l \in DOMAIN intents : l # k => intents'[l] = intents[l]
    BY <1>2, <1>3, <1>4
<1>6. \A l \in DOMAIN intents : /\ intents'[l].target = intents[l].target
                                /\ intents'[l].victims = intents[l].victims
    BY <1>3, <1>5 DEF i
<1>7. ASSUME NEW l \in DOMAIN intents PROVE intents'[l].acked \subseteq CheckpointVictims(intents'[l])
  <2>1. intents[l].acked \subseteq CheckpointVictims(intents[l])
      BY DEF EpochInv, Pending
  <2>2. CheckpointVictims(intents'[l]) = CheckpointVictims(intents[l])
      BY <1>6 DEF CheckpointVictims
  <2> QED
      BY <1>1, <1>3, <1>5, <2>1, <2>2 DEF i
<1>8. TypeOK'
    BY <1>1, <1>5 DEF EpochInv, TypeOK
<1>9. Loaded' = Loaded
    BY <1>1 DEF Loaded
<1>10. ASSUME NEW l \in DOMAIN intents PROVE Pending(Loaded', ToSet(assigned'), intents'[l])
  <2>1. Pending(Loaded, ToSet(assigned), intents[l])
      BY DEF EpochInv
  <2> QED
      BY <1>1, <1>6, <1>7, <1>9, <2>1 DEF Pending
<1>11. \A l, n \in DOMAIN intents : l = n \/ Apart(intents'[l], intents'[n])
  <2>1. \A l, n \in DOMAIN intents : l = n \/ Apart(intents[l], intents[n])
      BY DEF EpochInv
  <2> QED
      BY <1>6, <2>1 DEF Apart
<1>12. EpochInv'
    BY <1>1, <1>5, <1>8, <1>9, <1>10, <1>11 DEF EpochInv
<1>13. Displaced = {}
    BY <1>1 DEF Displaced
<1>14. ASSUME NEW x \in ToSet(intents'), ~HasRoom(x)'
       PROVE  \E y \in ToSet(intents) : y.target = x.target /\ ~HasRoom(y)
  <2>1. PICK l \in DOMAIN intents : x = intents'[l]
      BY <1>5 DEF ToSet
  <2>2. intents[l] \in ToSet(intents) /\ intents[l].target = x.target
      BY <1>6, <2>1 DEF ToSet
  <2>3. HasRoom(intents[l]) => HasRoom(x)'
      BY <1>1, <1>6, <2>1 DEF HasRoom
  <2> QED
      BY <1>14, <2>2, <2>3
<1> QED
    BY <1>12, <1>13, <1>14 DEF InterruptsByPolicy, KeepsRoom

LEMMA EpochStarts == Init => EpochInv
<1> SUFFICES ASSUME Init PROVE EpochInv
    OBVIOUS
<1>1. /\ arrivals = <<>> /\ completed = {} /\ waited = [t \in Tasks |-> 0]
      /\ assigned = <<>> /\ intents = <<>>
    BY DEF Init
<1>2. ToSet(<<>>) = {} /\ IsInjective(<<>>) /\ DOMAIN <<>> = {}
    BY DEF ToSet, IsInjective
<1>3. \A t \in Tasks : MaxWait[t] \in Nat
    BY AttentionConstants
<1>4. TypeOK
    BY <1>1, <1>2, <1>3 DEF TypeOK
<1>5. ASSUME NEW c \in Classes PROVE Units({})[c] <= Capacity[c]
  <2>1. IsFiniteSet({}) /\ {} \in SUBSET Tasks /\ Capacity[c] \in Nat
      BY FS_EmptySet, AttentionConstants
  <2>2. Units({})[c] = Sum(NeedOf(c), {})
      BY <2>1, UnitsIsSum
  <2>3. Sum(NeedOf(c), {}) = 0
    <3>1. \A t \in {} : NeedOf(c)[t] \in Nat
        OBVIOUS
    <3> QED
        BY <2>1, <3>1, SumLaws
  <2> QED
      BY <2>1, <2>2, <2>3
<1> QED
    BY <1>1, <1>2, <1>4, <1>5 DEF EpochInv

LEMMA EpochStepKeeps ==
    EpochInv /\ [Next]_vars => EpochInv' /\ [InterruptsByPolicy]_vars /\ [KeepsRoom]_vars
<1> SUFFICES ASSUME EpochInv, [Next]_vars
             PROVE  EpochInv' /\ [InterruptsByPolicy]_vars /\ [KeepsRoom]_vars
    OBVIOUS
<1>1. CASE Submitting
  <2>1. PICK S \in SUBSET (Tasks \ ToSet(arrivals)), obs \in Observations :
            IsFiniteSet(S) /\ \E new \in SetToSeqs(S) : SubmitAndPlan(new, obs)
      BY <1>1 DEF Submitting
  <2>2. PICK new \in SetToSeqs(S) : Publish(WithSubmitted(new), obs)
      BY <2>1 DEF SubmitAndPlan
  <2>3. Changed(WithSubmitted(new))
      BY <2>1, WritersChange
  <2> QED
      BY <2>2, <2>3, PublishKeeps, PublishJustifies, PublishKeepsRoom
<1>2. CASE Finishing
  <2>1. PICK t \in Tasks, obs \in Observations : FinishTask(t, obs)
      BY <1>2 DEF Finishing
  <2>2. t \in ToSet(assigned) /\ Publish(WithCompleted(t), obs)
      BY <2>1 DEF FinishTask
  <2>3. Changed(WithCompleted(t))
      BY <2>2, WritersChange
  <2> QED
      BY <2>2, <2>3, PublishKeeps, PublishJustifies, PublishKeepsRoom
<1>3. CASE Acknowledging
    BY <1>3, AcknowledgeKeeps DEF Acknowledging
<1>4. CASE UNCHANGED vars
    BY <1>4 DEF EpochInv, TypeOK, Loaded, vars
<1> QED
    BY <1>1, <1>2, <1>3, <1>4 DEF Next

(* Types: each submitted task has one place in the queue, each assigned one  *)
(* at most one assignment, and no task waits beyond the cycles counted.      *)
THEOREM EpochTypeCorrect == Spec => []TypeOK
<1>1. Init => EpochInv
    BY EpochStarts
<1>2. EpochInv /\ [Next]_vars => EpochInv'
    BY EpochStepKeeps
<1>3. EpochInv => TypeOK
    BY DEF EpochInv
<1> QED
    BY <1>1, <1>2, <1>3, PTL DEF Spec

(* plan_scheduling_epoch, for every committed scheduler and whatever the     *)
(* host reports: its plan passes the validators of SchedulingEpochPlan and   *)
(* of _validate_snapshot.                                                    *)
THEOREM EpochCanAlwaysBePlanned == Spec => []CommittedStateCanBePlanned
<1>1. Init => EpochInv
    BY EpochStarts
<1>2. EpochInv /\ [Next]_vars => EpochInv'
    BY EpochStepKeeps
<1>3. EpochInv => CommittedStateCanBePlanned
  <2> SUFFICES ASSUME EpochInv, NEW obs \in Observations,
                      NEW p \in PlanSchedulingEpoch(Loaded, obs)
               PROVE  Publishable(Loaded, obs, p)
      BY DEF CommittedStateCanBePlanned
  <2>1. Changed(Loaded)
      BY WritersChange
  <2>2. Loaded.completed \cap ToSet(assigned) = {}
      BY DEF EpochInv, Loaded
  <2>3. Sound(Loaded, obs, p, {}, {})
      BY <2>1, PlansAreSound
  <2> QED
      BY <2>1, <2>2, <2>3, CarriedVictimsRun, SoundIsPublishable
<1> QED
    BY <1>1, <1>2, <1>3, PTL DEF Spec

(* The same with the tasks a writer submits: begin_percept and the situation *)
(* cycle can always publish the epoch they plan.                             *)
SubmissionCanBePlanned ==
    \A S \in SUBSET (Tasks \ ToSet(arrivals)), obs \in Observations : IsFiniteSet(S) =>
        \A new \in SetToSeqs(S) : \A p \in PlanSchedulingEpoch(WithSubmitted(new), obs) :
            Publishable(WithSubmitted(new), obs, p)

THEOREM EpochWithSubmissionsCanBePlanned == Spec => []SubmissionCanBePlanned
<1>1. Init => EpochInv
    BY EpochStarts
<1>2. EpochInv /\ [Next]_vars => EpochInv'
    BY EpochStepKeeps
<1>3. EpochInv => SubmissionCanBePlanned
  <2> SUFFICES ASSUME EpochInv, NEW S \in SUBSET (Tasks \ ToSet(arrivals)),
                      NEW obs \in Observations, IsFiniteSet(S), NEW new \in SetToSeqs(S),
                      NEW p \in PlanSchedulingEpoch(WithSubmitted(new), obs)
               PROVE  Publishable(WithSubmitted(new), obs, p)
      BY DEF SubmissionCanBePlanned
  <2>1. Changed(WithSubmitted(new))
      BY WritersChange
  <2>2. WithSubmitted(new).completed \cap ToSet(assigned) = {}
      BY DEF EpochInv, WithSubmitted, Loaded
  <2>3. Sound(WithSubmitted(new), obs, p, {}, {})
      BY <2>1, PlansAreSound
  <2> QED
      BY <2>1, <2>2, <2>3, CarriedVictimsRun, SoundIsPublishable
<1> QED
    BY <1>1, <1>2, <1>3, PTL DEF Spec

(* The epoch that closes a task, which finish_percept takes for granted: it   *)
(* is refused exactly when it carries an intent that still names the finished *)
(* task as a victim.                                                          *)
FinishIsRefusedForItsIntent ==
    \A t \in ToSet(assigned), obs \in Observations :
        \A p \in PlanSchedulingEpoch(WithCompleted(t), obs) :
            Publishable(WithCompleted(t), obs, p)
                <=> \A i \in ToSet(p.carried) : t \notin ToSet(i.victims)

THEOREM EpochsThatFinishATask == Spec => []FinishIsRefusedForItsIntent
<1>1. Init => EpochInv
    BY EpochStarts
<1>2. EpochInv /\ [Next]_vars => EpochInv'
    BY EpochStepKeeps
<1>3. EpochInv => FinishIsRefusedForItsIntent
  <2> SUFFICES ASSUME EpochInv, NEW t \in ToSet(assigned), NEW obs \in Observations,
                      NEW p \in PlanSchedulingEpoch(WithCompleted(t), obs)
               PROVE  Publishable(WithCompleted(t), obs, p)
                          <=> \A i \in ToSet(p.carried) : t \notin ToSet(i.victims)
      BY DEF FinishIsRefusedForItsIntent
  <2> DEFINE m == WithCompleted(t)
  <2>1. Changed(m)
      BY WritersChange
  <2>2. Sound(m, obs, p, {}, {})
      BY <2>1, PlansAreSound
  <2>3. m.completed = completed \cup {t}
      BY DEF WithCompleted, Loaded
  <2> HIDE DEF m
  <2>4. \A i \in ToSet(p.carried) : ToSet(i.victims) \cap completed = {}
    <3>1. \A i \in PlannedIntents(p) : ToSet(i.victims) \subseteq ToSet(assigned)
        BY <2>1, <2>2, PlannedIntentsWait
    <3> QED
        BY <3>1 DEF PlannedIntents, EpochInv
  <2>5. ASSUME \A i \in ToSet(p.carried) : t \notin ToSet(i.victims)
        PROVE  Publishable(m, obs, p)
    <3>1. \A i \in ToSet(p.carried) : ToSet(i.victims) \cap m.completed = {}
        BY <2>3, <2>4, <2>5
    <3> QED
        BY <2>1, <2>2, <3>1, SoundIsPublishable
  <2>6. ASSUME Publishable(m, obs, p), NEW i \in ToSet(p.carried)
        PROVE  t \notin ToSet(i.victims)
    <3>1. ToSet(i.victims) \subseteq ToSet(p.assigned)
        BY <2>6 DEF Publishable, PlannedIntents
    <3>2. t \notin ToSet(p.assigned)
        BY <2>2, <2>3 DEF Sound, Startable, Queued
    <3> QED
        BY <3>1, <3>2
  <2> QED
      BY <2>5, <2>6 DEF m
<1> QED
    BY <1>1, <1>2, <1>3, PTL DEF Spec

(* Interruption policies: an assignment ends before its task completed only   *)
(* as the policy allows, and only for a task admitted in the same epoch that  *)
(* strictly outprioritizes it.                                                *)
THEOREM InterruptionsAreJustified == Spec => InterruptionIsJustified
<1>1. Init => EpochInv
    BY EpochStarts
<1>2. EpochInv /\ [Next]_vars => EpochInv' /\ [InterruptsByPolicy]_vars
    BY EpochStepKeeps
<1> QED
    BY <1>1, <1>2, PTL DEF Spec, InterruptionIsJustified

(* _hold_available_task_capacity: queued work never takes the room of a       *)
(* waiting target; only the target of another pending intent does.            *)
THEOREM HeldRoomStays == Spec => HeldRoomIsKept
<1>1. Init => EpochInv
    BY EpochStarts
<1>2. EpochInv /\ [Next]_vars => EpochInv' /\ [KeepsRoom]_vars
    BY EpochStepKeeps
<1> QED
    BY <1>1, <1>2, PTL DEF Spec, HeldRoomIsKept
=============================================================================
