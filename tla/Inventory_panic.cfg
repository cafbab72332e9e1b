CONSTANTS
  Ops = {"o1", "o2"}
  Meetings <- MCMeetings
  Starts <- MCStarts
  Sources <- MCSources
  BaseOf <- MCBaseOf
  Faces <- MCFaces
  Officials = {}
  Refused = {"b3"}
  ExcludedUrls <- MCExcludedUrls
  Lower <- MCLower
  PageSize = 1
  MaxPages = 3
  FirstId = 10
  MaxChanges = 1
  MaxFaults = 1
SPECIFICATION Spec
INVARIANT FailedSyncAnswers
CHECK_DEADLOCK FALSE
