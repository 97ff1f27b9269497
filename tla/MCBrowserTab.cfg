CONSTANTS
  t1 = t1
  t2 = t2
  d1 = d1
  d2 = d2
  l1 = l1
  l2 = l2
  NoTab = NoTab
  None = None
  Tabs <- MCTabs
  MaxSessions = 2
  MaxResets = 1
  MaxCalls = 2
  Limit = 1
  Window = 1
  MaxLag = 0
  MaxClock = 1
  MaxAttempts = 2
  Docs = {d1}
  Links = {l1, l2}
  Leads <- MCLeads
  MaxEdits = 1
  MaxAwaited = 2
  Texts <- MCTexts
  Formats = {"bold", "underline", "strike"}
  ListPrefixes = {"- ", "numbers"}
SPECIFICATION TabSpec
SYMMETRY AuthSymmetry
CHECK_DEADLOCK FALSE
INVARIANTS
  ResetCutsEarlierSignIns
  ReadyIsCurrent
  WidenedEnough
  OnAndOff
PROPERTIES
  ImplementsSignIns
  OnlyAwaitedAnswersSignIn
