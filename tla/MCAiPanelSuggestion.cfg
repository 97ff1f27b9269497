CONSTANTS
  alice = alice
  j1 = j1
  j2 = j2
  w1 = w1
  NoRow = NoRow
  Users <- MCUsers
  Owner = alice
  Grants = {}
  Jobs <- MCJobs
  Workers <- MCWorkers
  Policies <- MCNoPolicies
  Chunks = 1
  MaxDay = 0
  Me = alice
  Faults = FALSE
SPECIFICATION PanelSpec
CHECK_DEADLOCK FALSE
INVARIANT
  SuggestionIsTheRuns
