SPECIFICATION FairSpec
CONSTANTS
  z1 = z1
  z2 = z2
  main = main
  h1 = h1
  r1 = r1
  r2 = r2
  c1 = c1
  Zone <- OneZone
  Profile <- TwoProfiles
  Config <- Settings
  Duty <- Duties
  Reading <- AllReadings
  Critical <- Hot
  EmergencySpeed = 100
  StartupMode = "resume"
  StartupPercent = 20
  ManualPercent = {70}
  Main = main
  Handler <- None
  Request <- None
  Caller <- None
  BootMode = {"auto"}
  SafetySetting = {TRUE}
  MaxStarts = 1
  World <- WarmWorld
PROPERTIES ProfilesResume
