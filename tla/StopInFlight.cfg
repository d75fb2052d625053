SPECIFICATION Spec
CONSTANTS
  z1 = z1
  z2 = z2
  main = main
  h1 = h1
  r1 = r1
  r2 = r2
  c1 = c1
  Zone <- TwoZones
  Profile <- TwoProfiles
  Config <- Settings
  Duty <- Duties
  Reading <- MildReadings
  Critical = {}
  EmergencySpeed = 100
  StartupMode = "resume"
  StartupPercent = 20
  ManualPercent = {70}
  Main = main
  Handler <- None
  Request <- OneRequest
  Caller <- None
  BootMode = {"auto"}
  SafetySetting = {TRUE, FALSE}
  MaxStarts = 1
  World <- StopWorld
INVARIANTS StoppedFansAreSafe
