\* A filesystem that does not return va_uid: spec.md 5 promises a decision
\* (Deny(Invalid)) for an incomplete snapshot; the code panics.  The
\* panicked kernel stops, so no deadlock check.
CONSTANTS
  u1 = u1
  u2 = u2
  g1 = g1
  g2 = g2
  Users = {u1, u2}
  Groups = {g1, g2}
  EVERYONE = EVERYONE
  NONE = NONE
  Calls <- MCCalls
  Droppable = {"va_uid"}
SPECIFICATION FairSpec
CHECK_DEADLOCK FALSE
PROPERTY EveryCallAnswered
