CONSTANTS
  p1 = p1
  p2 = p2
  Pages <- MCPages
  Reverters <- MCReverters
  Appliers <- MCAppliers
  MaxWork = 3
  alice = alice
  bob = bob
  root = root
  c1 = c1
  c2 = c2
  q1 = q1
  q2 = q2
  j1 = j1
  j2 = j2
  NoRow = NoRow
  Users <- MCUsers
  Owner = alice
  Admins <- MCAdmins
  Contents <- MCContents
  InitialContent = c1
  RequestIds <- MCRequestIds
  MaxRequests = 3
  Jobs <- MCJobs
  Chunks = 2
  Policies <- MCPolicies
  MaxRestarts = 1
SPECIFICATION BothSpec
CHECK_DEADLOCK FALSE
INVARIANTS
  AppliedIsKept
  VersionsAreChained
  RolesAreTold
  CancelledStays
PROPERTIES
  OfflineSavesKeepText
  AutosavesSettle
  JobsFinish
