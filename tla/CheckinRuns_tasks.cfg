CONSTANTS
  a1 = a1
  a2 = a2
  s1 = s1
  s2 = s2
  NoAccount = NoAccount
  NoPreview = NoPreview
  Accounts = {a1, a2}
  Sites = {s1, s2}
  SiteOf <- MCOneSite
  Ability <- MCReady
  Tasks = {t1, t2}
  RunAlls = {}
  Singles = {}
  Schedulers = {}
  Previews = {p1, p2}
  MaxPreviews = 1
  MaxDryRun = 2
  SiteResults = {"failed"}
SPECIFICATION Spec
SYMMETRY MCSymmetry
INVARIANTS PreviewUsedOnce PlanIsFrozen
\* Tasks and previews run out.
CHECK_DEADLOCK FALSE
