--------------------------- MODULE MCSituationFlow ---------------------------
(* Small instances of SituationFlow: two deliveries to one situation, one of *)
(* them late; two ticks at once; a delivery to two situations, which page by *)
(* page take two ticks in turn.                                             *)
EXTENDS SituationFlow, TLC

CONSTANTS d1, d2, d3, t1, t2

DeliveryRefs == d1 :> {1} @@ d2 :> {1} @@ d3 :> {1, 2}
DeliveryTimes == d1 :> 2 @@ d2 :> 1 @@ d3 :> 1

TwoDeliveries == [deliveries |-> {d1, d2}, ticks |-> {t1}]
TwoTicks == [deliveries |-> {d1}, ticks |-> {t1, t2}]
TwoSituations == [deliveries |-> {d3}, ticks |-> {t1}]

AllWorlds == {TwoDeliveries, TwoTicks, TwoSituations}
OnlyDeliveries == {TwoDeliveries}
=============================================================================
