SPECIFICATION FairSpec
CONSTANTS
  loop = loop
  page = page
  boot = boot
  s1 = s1
  s2 = s2
  Gpu = {0}
  Package = {0}
  Board = {1, 2}
  Drive <- Drives3
  Node <- Nodes
  Ctrl <- Ctrls
  Crit <- Crits
  TjMax <- NoTjMax
  BlockNodes = TRUE
  Saver = {s1, s2}
  Looker = {loop, page}
  Starter = boot
  Loop = loop
  Request <- Requests
  Scenes <- MCScenes
  MaxCrashes = 1
  Survey <- Machines
  FirstSurvey = "cool"
  CacheTime = 2
INVARIANTS TypeOK ControllerKnowsSettings EmergencyIsCritical EventsTellStatus
  InstallDecidesMode
PROPERTIES DevicesKeepIndex EmergencyFollows TwiceOnlyBriefly
