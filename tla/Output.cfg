\* As many suffixes as old files and attempts can take together, so the bound is never
\* what stops the search.
SPECIFICATION FairSpec
CONSTANTS
  Attempts = {a1, a2}
  MaxSuffix = 3
  Taken = 1
  None = None
  Earlier = Earlier
CHECK_DEADLOCK FALSE
INVARIANTS TypeOK FolderAsTold
PROPERTIES OthersKept EveryAttemptReturns
