SPECIFICATION Spec
CONSTANTS
  d1 = d1
  d2 = d2
  d3 = d3
  Devices = {d1, d2}
  NCharts = 4
  ChartId <- MCChartId
  ChartTech <- MCChartTech
  ChartPath <- MCChartPath
  LmaInterfaces <- MCLmaInterfaces
  Garbage = 99
  Places <- MCPlaces
  Distance <- MCDistance
  Reach <- MCReach
  Capacity <- MCCapacity
  Qos <- UniformQos
  Dependent = {d1, d2}
  FirstChart <- Pair
  ActivateDelay = 1
  BackOff = 1
  ReturnDelay = 3
  MaxRoutes = 2
INVARIANT AnchorFollows
CHECK_DEADLOCK FALSE
