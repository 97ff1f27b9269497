SPECIFICATION Spec
CONSTANTS
  d1 = d1  d2 = d2
  l1 = l1  l2 = l2
  Docs = {d1, d2}
  Links = {l1, l2}
  Leads <- MCLeads
  MaxEdits = 1
  MaxAwaited = 3
  None = None
CHECK_DEADLOCK FALSE
INVARIANTS TextStaysInItsDocument
