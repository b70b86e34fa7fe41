SPECIFICATION FairSpec
CONSTANTS
  Entries <- MCEntries
  NewEntries <- MCNewEntries
  Accounts <- MCAccounts
  PageSize = 1
  MaxEdits = 2
  Counts <- MCCounts
INVARIANTS TypeOK StoredByContents RetrievedAsListed StoredWhole NoIdentityOversold
PROPERTY RunEnds
\* The run is over.
CHECK_DEADLOCK FALSE
