SPECIFICATION PageSpec
CONSTANTS
  p1 = p1
  p2 = p2
  Pages <- MCPages
  Reverters = {}
  Appliers = {}
  MaxWork = 2
CHECK_DEADLOCK FALSE
PROPERTIES
  RetriesKeepText
