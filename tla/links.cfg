SPECIFICATION DeviceSpec
CONSTANTS
  PerSecond = 2
  WarmUp = 1
  BackOff = 2
  ActivateDelay = 1
  WifiReports <- MCWifiReports
  WimaxReports <- MCWimaxReports
  LteRates <- MCLteRates
  MaxTime = 11
INVARIANTS TypeOK NoPingPong OnlyEscapesAreBlind OneAtATime ReportedOnce StackSeesActive
PROPERTY RequestsKept
