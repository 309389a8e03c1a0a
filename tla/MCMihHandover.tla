--------------------------- MODULE MCMihHandover ---------------------------
(***************************************************************************)
(* Instances of MihHandover: the charts of scratch/mihtest10.cc (two WiFi  *)
(* access points 1000 m apart, a WiMAX base station between them, an LTE   *)
(* cell around all) with one or three devices and scaled capacities.       *)
(***************************************************************************)
EXTENDS MihHandover

CONSTANTS d1, d2, d3

MCChartId == <<1, 2, 1, 1>>
MCChartTech == <<1, 1, 2, 3>>
MCChartPath == <<1, 5, 3, 4>>
MCReach == <<110, 700, 2000>>
MCCapacity == <<1, 1>>
MCLmaInterfaces == {1, 3, 4, 5}

\* Distances to the four access points from x = 0, 500, 1000 and 2500 m.
MCPlaces == {"first", "middle", "second", "away"}
MCDistance ==
  [first  |-> <<0, 1000, 501, 0>>,
   middle |-> <<500, 500, 40, 500>>,
   second |-> <<1000, 0, 501, 1000>>,
   away   |-> <<2500, 1500, 2000, 2500>>]

\* Two WiFi access points (ids 1, 2) and the LTE cell only.
SmallId == <<1, 2, 1>>
SmallTech == <<1, 1, 3>>
SmallPath == <<1, 5, 4>>
SmallDistance == [p \in MCPlaces |-> [c \in 1..3 |-> MCDistance[p][<<1, 2, 4>>[c]]]]

UniformQos == [d \in Devices |-> 1]
MixedQos == [d \in Devices |-> IF d = d1 THEN 2 ELSE 1]

Crowded == d1 :> 1 @@ d2 :> 1 @@ d3 :> 3
Pair == d1 :> 1 @@ d2 :> 2
============================================================================
