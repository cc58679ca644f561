CONSTANTS
  b = b  x = x  y = y  g = g
  ib = ib  i1 = i1  i2 = i2  m1 = m1  m2 = m2
  NONE = NONE
  Ifs <- MCIfsXY
  Ghosts <- MCGhosts
  Builtin <- MCNoBuiltin
  Order <- MCOrderXY
  Info <- MCInfo
  Kind <- MCKind
  Mac <- MCMac
  BootDbs <- MCBootDbsXY
  Models <- MCOneModel
  StackStates = {"unseen"}
  Flaky = FALSE
  LookupFails = FALSE
  WriteFails = FALSE
  MaxUnit = 4
  MaxEvents = 2
  PlatformSetFails = FALSE
  ModelFails = FALSE
  OpenFails = FALSE
  PrefsSetup = {"ok"}
  IOKitSetupFails = FALSE
  VKinds <- MCVKinds
  VConfigs <- MCVConfigs
  UpdateFails = FALSE
  MaxApplies = 2
  MaxBoots = 1
SPECIFICATION FairSpec
PROPERTY VirtualConfigApplied
CHECK_DEADLOCK FALSE
