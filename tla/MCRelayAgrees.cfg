CONSTANTS
  alice = alice
  bob = bob
  w1 = w1
  w2 = w2
  l1 = l1
  k1 = k1
  k2 = k2
  NoRow = NoRow
  Users <- MCUsers
  Owner = alice
  Links <- MCLinks
  Clients <- MCClients
  Workers <- MCWorkers
  RevokeAccess = {TRUE, FALSE}
  MaxClock = 3
  MaxRevision = 1
  MaxRestarts = 0
  MaxTimers = 0
SPECIFICATION Spec
INVARIANT
  RelayAgreesWhenDelivered
