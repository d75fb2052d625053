SPECIFICATION LifeSpec
CONSTANTS
  z1 = z1
  z2 = z2
  main = main
  h1 = h1
  r1 = r1
  r2 = r2
  c1 = c1
  Zone <- OneZone
  Profile <- BaseProfile
  Config <- StrangerSettings
  Duty <- Duties
  Reading <- ColdReading
  Critical = {}
  EmergencySpeed = 100
  StartupMode = "percent"
  StartupPercent = 20
  ManualPercent = {70}
  Main = main
  Handler <- OneHandler
  Request <- TwoRequests
  Caller <- None
  BootMode = {"auto"}
  SafetySetting = {TRUE, FALSE}
  MaxStarts = 3
  World <- LifeWorld
INVARIANTS RunningHasLoop
PROPERTIES StopEndsLoops
\* The controller may be stopped for good once it was started MaxStarts times.
CHECK_DEADLOCK FALSE
