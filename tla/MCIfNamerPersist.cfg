CONSTANTS
  b = b  x = x  y = y  g = g
  ib = ib  i1 = i1  i2 = i2  m1 = m1  m2 = m2
  NONE = NONE
  Ifs <- MCIfs
  Ghosts <- MCGhosts
  Builtin <- MCNoBuiltin
  Order <- MCOrder
  Info <- MCInfo
  Kind <- MCKind
  Mac <- MCMac
  BootDbs <- MCBootDbs
  Models <- MCModels
  StackStates = {"unseen"}
  Flaky = FALSE
  LookupFails = FALSE
  WriteFails = TRUE
  MaxUnit = 6
  MaxEvents = 2
  PlatformSetFails = FALSE
  ModelFails = FALSE
  OpenFails = TRUE
  PrefsSetup = {"ok", "fail"}
  IOKitSetupFails = FALSE
  VKinds = {}
  VConfigs = {}
  UpdateFails = FALSE
  MaxApplies = 0
  MaxBoots = 2
SPECIFICATION Spec
INVARIANT PersistentNames
CHECK_DEADLOCK FALSE
