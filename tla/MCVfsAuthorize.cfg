\* The authorizer pipeline against the Top-Level Gate decision function.
\* One behaviour is one call, which ends when it returns: no deadlock check.
CONSTANTS
  u1 = u1
  u2 = u2
  g1 = g1
  g2 = g2
  Users = {u1, u2}
  Groups = {g1, g2}
  EVERYONE = EVERYONE
  NONE = NONE
  Calls <- MCCalls
  Droppable = {}
SPECIFICATION Spec
CHECK_DEADLOCK FALSE
INVARIANT TypeOK
INVARIANT ImmutabilityVeto
PROPERTY RefinesDecision
