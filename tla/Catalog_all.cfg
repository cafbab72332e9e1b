CONSTANTS
  Channels = {"c1", "c2", "c3"}
  Bases = {"b1", "b2"}
  BaseOf <- MCBaseOf
  Manual = {"c3"}
  Raw <- MCRaw
  Keyed = {"c1", "c2"}
  Answers <- MCAnswers
  Pricings <- MCPricings
  Records <- MCRecords
  Starts <- MCStarts
  Batches = {m1, m2}
  Loaders = {l1, l2}
  Limit = 1
  MaxRequests = 3
  MaxFaults = 1
  MaxDepth = 4
SYMMETRY MCSymmetry
SPECIFICATION CatalogSpec
INVARIANTS PricesHaveSites SettledWritesAreSeen
PROPERTIES RoundRobin
\* Every request is answered.
CHECK_DEADLOCK FALSE
