\* Three concurrent calls of route_to_agent, any label, exceptions anywhere.
SPECIFICATION SupervisorSpec
CONSTANTS
  c1 = c1
  c2 = c2
  c3 = c3
  Calls <- ThreeCalls
  Classifiable <- AllLabels
INVARIANTS
  SupervisorTypeOK
  CountersAccountForCalls
  FunnelNarrows
PROPERTY
  EveryCallSettles
CHECK_DEADLOCK FALSE
