SPECIFICATION Spec
CONSTANTS
  Entries <- MCEntries
  NewEntries <- MCNewEntries
  Accounts <- MCAccounts
  PageSize = 1
  MaxEdits = 2
  Counts <- MCCounts
INVARIANT TimeoutReported
\* The run is over.
CHECK_DEADLOCK FALSE
