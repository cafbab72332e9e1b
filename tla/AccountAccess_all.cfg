CONSTANTS
  Ops = {"o1", "o2"}
  Meetings <- MCMeetings
  Sessions <- MCSessions
  Accounts <- MCAccounts
  Edits <- MCEdits
  Rules <- MCRules
  Preferred <- MCPreferred
  General <- MCGeneral
  CheckinBodies <- MCCheckinBodies
  BalanceDocs <- MCBalanceDocs
  Reported = {5}
  LoginDocs <- MCLoginDocs
  KeyDocs <- MCKeyDocs
  LoginTries = 2
  CheckinMaxNetworkAttempts = 2
  MaxDepth = 4
SPECIFICATION Spec
INVARIANTS StatusTruthful BalanceIsReported
PROPERTIES CredentialsKept OpenWindowIsKept
\* Every operation ends.
CHECK_DEADLOCK FALSE
