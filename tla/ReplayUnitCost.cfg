SPECIFICATION Spec
CONSTANTS
  Selectable = {"fifo", "lifo", "hifo", "average", "hybrid"}
  LastYear = 1
  MaxActivities <- TwoActivities
  Quantities = {1, 2, 3}
  Costs = {1, 3}
  Proceeds = {2}
  Scopes = {}
  Asset = asset
  Grain = 1
INVARIANT UnitCostFirst
CHECK_DEADLOCK FALSE
