CONSTANTS
  alice = alice
  bob = bob
  j1 = j1
  j2 = j2
  l1 = l1
  l2 = l2
  h1 = h1
  h2 = h2
  w1 = w1
  w2 = w2
  NoRow = NoRow
  None = None
  Jobs <- MCJobs
  Users <- MCUsers
  Owner = alice
  Links <- MCLinks
  Workers <- MCWorkers
  RevokeAccess = {TRUE, FALSE}
  MaxClock = 3
  Collaborators <- MCCollaborators
  ShareLinks <- MCLinks
  Absent = Absent
  Handlers <- MCHandlers
  MaxAttempts = 2
  MaxEdits = 2
  MaxRoles = 1
  MaxStops = 1
  MaxChanges = 2
SPECIFICATION PanelsSpec
CHECK_DEADLOCK FALSE
INVARIANT
  CutLinkGrantsNothing
