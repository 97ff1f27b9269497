CONSTANTS
  alice = alice
  bob = bob
  c1 = c1
  c2 = c2
  q1 = q1
  q2 = q2
  j1 = j1
  w1 = w1
  w2 = w2
  NoRow = NoRow
  Users <- MCUsers
  Owner = alice
  Contents <- MCContents
  InitialContent = c1
  RequestIds <- MCRequestIds
  MaxVersions = 4
  Limit = 1
  Window = 3
  MaxLag = 1
  MaxClock = 4
  MaxAttempts = 4
  Grants = {"none", "editor"}
  Jobs <- MCJobs
  Workers <- MCWorkers
  Policies <- MCNoPolicies
  Chunks = 1
  MaxDay = 0
  Me = alice
  Faults = TRUE
SPECIFICATION FastApiSpec
CHECK_DEADLOCK FALSE
INVARIANTS
  NoLostUpdate
  RepliesStayTrue
  AppliedAtMostOnce
  WindowAdmitsAtMostLimit
PROPERTIES
  KeepsAnswers
  ImplementsHistory
  StreamingEnds
  ConnectedSettles
