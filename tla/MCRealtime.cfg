CONSTANTS
  alice = alice
  bob = bob
  w1 = w1
  k1 = k1
  k2 = k2
  h1 = h1
  h2 = h2
  NoRow = NoRow
  Users <- MCUsers
  Owner = alice
  Links <- MCNoLinks
  Clients <- MCClients
  Workers <- MCOneWorker
  RevokeAccess = {FALSE}
  MaxClock = 2
  MaxRevision = 2
  MaxRestarts = 1
  MaxTimers = 1
  Hooks <- MCHooks
  Restless <- MCOneHook
  MaxServices = 2
  MaxLinks = 4
  MaxItems = 3
  MaxFaults = 1
SPECIFICATION RealtimeSpec
CHECK_DEADLOCK FALSE
INVARIANTS
  RevertsReachTheRoom
  ServedSocketsHaveTheRoom
  SettledServicesAgree
PROPERTIES
  EditsAreAuthorised
  RolesConverge
  RevokedStaysAway
  PagesComeBack
