CONSTANTS
  h1 = h1
  h2 = h2
  Hooks <- MCHooks
  Restless <- MCNoHooks
  MaxServices = 2
  MaxLinks = 4
  MaxItems = 2
  MaxFaults = 1
SPECIFICATION ClientSpec
CHECK_DEADLOCK FALSE
INVARIANT
  ConnectedClientsConverge
