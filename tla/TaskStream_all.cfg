CONSTANTS
  Total = 2
  Buffer = 1
  MaxSubs = 2
  Nothing = Nothing
  Streams = {c1, c2, c3}
  Watched = c1
SPECIFICATION FairSpec
INVARIANTS NoSendOnClosed FinalStateShown
PROPERTIES ImplementsFeed
\* Requests run out.
CHECK_DEADLOCK FALSE
