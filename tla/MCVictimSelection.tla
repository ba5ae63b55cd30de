------------------------- MODULE MCVictimSelection -------------------------
(* Every set of up to MaxCandidates assignments, offered one by one to every *)
(* deficit: the selection is compared with the intended one at each size.    *)
EXTENDS VictimSelection

CONSTANTS
    MaxCandidates,  \* bound: assignments that may be victims
    MaxDeficit,     \* bound: units missing of the first class
    Priorities      \* base priorities that occur

ASSUME OfferAssumption ==
    MaxCandidates \in Nat /\ MaxDeficit \in Nat /\ Priorities \subseteq Int

Lacking == {"LLM_INFERENCE", "MEMORY_RAM"}

VARIABLES
    missing,  \* units the blocked task lacks, by class
    offered   \* the assignments that may yield to it

offerVars == <<missing, offered>>

(* _resource_class_deficits keeps the classes that lack something. *)
Deficits == {d \in [Lacking -> 0 .. MaxDeficit] :
                d["LLM_INFERENCE"] + d["MEMORY_RAM"] > 0 /\ d["MEMORY_RAM"] <= 1}

(* plan_scheduling_epoch offers only assignments that release something; the *)
(* newest is the last in order.                                              *)
CandidatesAt(order) ==
    [task : {order}, order : {order}, priority : Priorities,
     checkpoint : BOOLEAN,
     units : {u \in [Lacking -> 0 .. 2] :
                 u["LLM_INFERENCE"] + u["MEMORY_RAM"] > 0 /\ u["MEMORY_RAM"] <= 1}]

OfferInit == missing \in Deficits /\ offered = {}

Offer ==
    /\ Cardinality(offered) < MaxCandidates
    /\ \E c \in CandidatesAt(Cardinality(offered) + 1) : offered' = offered \cup {c}
    /\ UNCHANGED missing

OfferSpec == OfferInit /\ [][Offer]_offerVars

(* select_minimum_victims returns the intended victims: enough units of      *)
(* every class, no more victims than necessary, and of the smallest sets the *)
(* one whose members yield first; it returns None exactly when all           *)
(* candidates together release too little.                                   *)
SelectsIntendedVictims ==
    LET chosen == SelectMinimumVictims(missing, offered)
    IN  IF Releases(missing, offered)
        THEN {ToSet(victims) : victims \in chosen} = IntendedVictims(missing, offered)
        ELSE chosen = {}
=============================================================================
