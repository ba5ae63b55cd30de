---------------------------- MODULE MCSafeguards ----------------------------
(* What must never go wrong in seven components that share no state: victim  *)
(* selection, dependency order, self memory, the memory projection, the      *)
(* environment inventory, managed files and operator consent.  Each is       *)
(* checked on its own: a behaviour runs the one that part names and leaves   *)
(* the variables of the others at one initial value.                         *)
EXTENDS MCVictimSelection, DependencyOrder, SelfMemory, MemoryProjection,
        EnvironmentInventory, GuiFiles, OperatorConsent

(* Self memory: three roots, two reflections over overlapping pages, of      *)
(* which the second supports again what the first proposed, twice, from the  *)
(* root that lies in both situations.                                        *)
Proposes(r, support, centrality) == [rep |-> r, support |-> support, centrality |-> centrality]
TheContextRefs == << <<{"s1"}, {"s1"}, {}>>, <<{"s2"}, {}, {}>> >>
ThePredictionTags == [p \in Predictions |-> {"told"}]
TheScript == << <<Proposes(1, {1, 2}, 1)>>, <<Proposes(1, {1}, 2), Proposes(2, {1}, 1), Proposes(1, {1}, 1)>> >>
TheObjections == <<{3}, {3}>>
TheParents == <<{2}, {}>>
TheMatches == [i \in Interactions |-> {1}]
NothingRelated == [i \in Interactions |-> {}]

(* Consent: two network destinations in one file, one folder in another. *)
TheKeptIn == [s \in {"a", "b", "f"} |-> IF s = "f" THEN "folders" ELSE "network"]

VARIABLE part
Parts == {"victims", "order", "self", "projection", "inventory", "files", "consent"}

Only(p, initial) == part # p => initial

SafeguardsInit ==
    /\ part \in Parts
    /\ OfferInit /\ Only("victims", missing = CHOOSE d \in Deficits : TRUE)
    /\ OrderInit /\ Only("order", /\ priority = [i \in Items |-> 0]
                                  /\ needs = [i \in Items |-> {}])
    /\ SelfInit
    /\ ProjectionInit /\ Only("projection", visible = {} /\ lexical = {})
    /\ InventoryInit
    /\ FilesInit
    /\ ConsentInit

SafeguardsNext ==
    /\ UNCHANGED part
    /\ \/ part = "victims" /\ Offer
       \/ part = "order" /\ OrderNext
       \/ part = "self" /\ SelfNext
       \/ part = "projection" /\ ProjectionNext
       \/ part = "inventory" /\ InventoryNext
       \/ part = "files" /\ FilesNext
       \/ part = "consent" /\ ConsentNext
    /\ part # "victims" => UNCHANGED offerVars
    /\ part # "order" => UNCHANGED orderVars
    /\ part # "self" => UNCHANGED selfVars
    /\ part # "projection" => UNCHANGED projectionVars
    /\ part # "inventory" => UNCHANGED inventoryVars
    /\ part # "files" => UNCHANGED fileVars
    /\ part # "consent" => UNCHANGED consentVars

SafeguardsSpec ==
    SafeguardsInit /\ [][SafeguardsNext]_<<part, offerVars, orderVars, selfVars, projectionVars,
                                           inventoryVars, fileVars, consentVars>>
=============================================================================
