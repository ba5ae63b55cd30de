---------------------------- MODULE OrderedLists ----------------------------
(* Sorted and filtered lists. *)
EXTENDS Naturals, Sequences, FiniteSets, SequencesExt

(* The elements of S, each after those that come before it. *)
InOrder(S, before(_, _)) ==
    [k \in 1 .. Cardinality(S) |->
        CHOOSE x \in S : Cardinality({y \in S : before(y, x)}) = k - 1]

(* The list s without the elements of `out`. *)
Minus(s, out) ==
    LET left == InOrder({i \in DOMAIN s : s[i] \notin out}, <)
    IN  [k \in DOMAIN left |-> s[left[k]]]
=============================================================================
