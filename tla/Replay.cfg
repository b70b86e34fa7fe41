SPECIFICATION Spec
CONSTANTS
  Selectable = {"fifo", "lifo", "hifo", "average", "hybrid"}
  LastYear = 2
  MaxActivities <- MostActivities
  Quantities = {1, 2}
  Costs = {1}
  Proceeds = {2}
  Scopes = {A, B}
  Asset = asset
  Grain = 1
SYMMETRY ScopeSymmetry
INVARIANTS TypeOK BasisConserved BooksByHistory ReportsAgree SectionsByHistory FailsOnlyOversold
PROPERTY DearestTaken
\* The history is bounded and each report is made once.
CHECK_DEADLOCK FALSE
