SPECIFICATION FairSpec
CONSTANTS
  z1 = z1
  z2 = z2
  c1 = c1
  c2 = c2
  Zone <- MCZone
  Caller <- MCCaller
  Percent <- MCPercent
  FirmwarePwm <- MCFirmwarePwm
  BootMode = {"manual", "auto"}
  Env <- MCEnv
INVARIANTS TypeOK OwnershipConsistent NothingLeftManual NoFalseAlarm
PROPERTIES ReleaseReachesFirmware OverrideReported
