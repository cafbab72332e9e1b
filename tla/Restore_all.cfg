CONSTANTS
  Accounts = {a1, a2}
  Requests = {r1, r2}
  Previews = {p1}
  Cap = 1
  Limit = 2
  MaxFile = 3
  MaxHandle = 3
  MaxFaults = 2
  Images <- MCImages
  Kinds = {"restore", "import"}
SPECIFICATION FairSpec
INVARIANTS TokenStaysInDataSet FailureIsUndone OldDatabaseSurvives
PROPERTIES DeletedAsPreviewed WritesReachDatabase OperationEnds
\* Requests run out and operations end.
CHECK_DEADLOCK FALSE
