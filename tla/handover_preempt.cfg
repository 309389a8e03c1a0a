SPECIFICATION Spec
CONSTANTS
  d1 = d1
  d2 = d2
  d3 = d3
  Devices = {d1, d2}
  NCharts = 3
  ChartId <- SmallId
  ChartTech <- SmallTech
  ChartPath <- SmallPath
  LmaInterfaces <- MCLmaInterfaces
  Garbage = 99
  Places <- MCPlaces
  Distance <- SmallDistance
  Reach <- MCReach
  Capacity <- MCCapacity
  Qos <- MixedQos
  Dependent = {d2}
  FirstChart <- Pair
  ActivateDelay = 1
  BackOff = 1
  ReturnDelay = 3
  MaxRoutes = 2
INVARIANTS OneAnchorRoute RoutedAtTarget
PROPERTY OnlyStrongerForces
CHECK_DEADLOCK FALSE
