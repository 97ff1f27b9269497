CONSTANTS
  alice = alice
  bob = bob
  j1 = j1
  j2 = j2
  w1 = w1
  NoRow = NoRow
  Users <- MCUsers
  Owner = alice
  Grants = {"none", "editor"}
  Jobs <- MCJobs
  Workers <- MCWorkers
  Policies <- MCPolicies
  Chunks = 1
  MaxDay = 1
  None = None
  s1 = s1
  s2 = s2
  c1 = c1
  c2 = c2
  hello = hello
  JobIds <- MCJobIds
  Calls <- MCCalls
  Inputs <- MCInputs
  Answers <- MCAnswers
SPECIFICATION BothSpec
SYMMETRY AiSymmetry
INVARIANTS
  AnswerAgreesWithRow
  QuotaRespected
  SnapshotsAreConsistent
  RunningIsUnderWay
