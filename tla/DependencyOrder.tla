-------------------------- MODULE DependencyOrder --------------------------
(***************************************************************************)
(* deterministic_dependency_order (attention_ordering.py): the order in     *)
(* which a bounded set of work items runs.  Items are numbered by their     *)
(* item_id; a work set gives each a priority and its dependencies, which    *)
(* may name an item that is not in the set.  One step takes one item.       *)
(***************************************************************************)
EXTENDS Naturals, FiniteSets, Sequences

CONSTANTS
    LastItem,       \* items are 1 .. LastItem
    MaxPriority     \* bound on the priority, lower goes first

Items == 1 .. LastItem
Stranger == LastItem + 1

ASSUME OrderAssumption == {LastItem, MaxPriority} \subseteq Nat

VARIABLES
    priority,   \* [Items -> 0 .. MaxPriority]
    needs,      \* [Items -> dependency_ids]
    remaining,  \* items not yet ordered
    ordered,    \* the order so far
    verdict     \* "ordering", or how the call ended

orderVars == <<priority, needs, remaining, ordered, verdict>>

(* The work items that AttentionWorkItem accepts: none depends on itself. *)
WorkSets == {d \in [Items -> SUBSET (Items \cup {Stranger})] : \A i \in Items : i \notin d[i]}

OrderInit ==
    /\ priority \in [Items -> 0 .. MaxPriority]
    /\ needs \in WorkSets
    /\ remaining = Items
    /\ ordered = <<>>
    /\ verdict = "ordering"
-----------------------------------------------------------------------------
Ready == {i \in remaining : needs[i] \cap remaining = {}}

GoesBefore(i, j) == priority[i] < priority[j] \/ (priority[i] = priority[j] /\ i < j)

(* A mutant of Foremost: the oldest of the runnable items. *)
Oldest(S) == CHOOSE i \in S : \A j \in S \ {i} : i < j

Foremost(S) == CHOOSE i \in S : \A j \in S \ {i} : GoesBefore(i, j)

RefuseStranger ==
    /\ verdict = "ordering"
    /\ \E i \in Items : Stranger \in needs[i]
    /\ verdict' = "missing"
    /\ UNCHANGED <<priority, needs, remaining, ordered>>

TakeNext ==
    /\ verdict = "ordering"
    /\ \A i \in Items : Stranger \notin needs[i]
    /\ Ready # {}
    /\ ordered' = Append(ordered, Foremost(Ready))
    /\ remaining' = remaining \ {Foremost(Ready)}
    /\ verdict' = IF remaining' = {} THEN "ordered" ELSE "ordering"
    /\ UNCHANGED <<priority, needs>>

RefuseCycle ==
    /\ verdict = "ordering"
    /\ \A i \in Items : Stranger \notin needs[i]
    /\ remaining # {} /\ Ready = {}
    /\ verdict' = "cycle"
    /\ UNCHANGED <<priority, needs, remaining, ordered>>

OrderNext == RefuseStranger \/ TakeNext \/ RefuseCycle

OrderSpec == OrderInit /\ [][OrderNext]_orderVars
-----------------------------------------------------------------------------
(* Every order of the whole set in which dependencies come first. *)
LegalOrders ==
    {o \in [Items -> Items] :
        /\ \A i, j \in Items : o[i] = o[j] => i = j
        /\ \A i, j \in Items : o[i] \in needs[o[j]] => i < j}

(* The order returned puts dependencies first and is, of all such orders,   *)
(* the least one item by item: no urgent item waits behind a batch of less  *)
(* urgent ones once it is unblocked ("Readiness is recomputed after every   *)
(* item").  The call refuses a set exactly when no such order exists.       *)
OrderIsLeast ==
    /\ verdict = "ordered" =>
           /\ ordered \in LegalOrders
           /\ \A o \in LegalOrders : o = ordered \/
                  \E k \in Items : GoesBefore(ordered[k], o[k]) /\ \A i \in 1 .. k - 1 : o[i] = ordered[i]
    /\ verdict = "cycle" => LegalOrders = {}
    /\ verdict = "missing" => (UNION {needs[i] : i \in Items}) \ Items # {}
=============================================================================
