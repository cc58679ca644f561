CONSTANTS
  u1 = u1  u2 = u2  g1 = g1  g2 = g2
  EVERYONE = EVERYONE  NONE = NONE
  KAUTH_UID_NONE = KAUTH_UID_NONE  KAUTH_GID_NONE = KAUTH_GID_NONE
  Users = {u1, u2}
  Groups = {g1, g2}
  DstFlagsSupported = {TRUE}
  Destinations <- MCDestinationsOrNull
  Clones <- MCClones
SPECIFICATION Spec
CHECK_DEADLOCK FALSE
INVARIANT NoNullDvapDeref
