CONSTANTS
  b = b  x = x  y = y  g = g
  ib = ib  i1 = i1  i2 = i2  m1 = m1  m2 = m2
  NONE = NONE
  Ifs <- MCIfs
  Ghosts <- MCGhosts
  Builtin <- MCBuiltin
  Order <- MCOrder
  Info <- MCInfo
  Kind <- MCKind
  Mac <- MCMac
  BootDbs <- MCBootDbs
  Models <- MCOneModel
  StackStates = {"absent", "unseen"}
  Flaky = TRUE
  LookupFails = FALSE
  WriteFails = FALSE
  MaxUnit = 6
  MaxEvents = 3
  PlatformSetFails = TRUE
  ModelFails = FALSE
  OpenFails = FALSE
  PrefsSetup = {"ok"}
  IOKitSetupFails = FALSE
  VKinds = {}
  VConfigs = {}
  UpdateFails = FALSE
  MaxApplies = 0
  MaxBoots = 1
SPECIFICATION Spec
INVARIANTS TypeOK DbUnique DbAgreesWithKernel
PROPERTIES NewNeverStealsKnown PlatformUUIDIsLowestMac
CHECK_DEADLOCK FALSE
