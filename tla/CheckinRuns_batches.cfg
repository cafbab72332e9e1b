CONSTANTS
  a1 = a1
  a2 = a2
  s1 = s1
  s2 = s2
  NoAccount = NoAccount
  NoPreview = NoPreview
  Accounts = {a1}
  Sites = {s1}
  SiteOf <- MCOneSite
  Ability <- MCReady
  Tasks = {t1}
  RunAlls = {}
  Singles = {sg1}
  Schedulers = {sched}
  Previews = {p1}
  MaxPreviews = 1
  MaxDryRun = 2
  SiteResults = {"failed"}
SPECIFICATION FairSpec
 
PROPERTIES EveryBatchEnds ImplementsRunSlot
CHECK_DEADLOCK FALSE
