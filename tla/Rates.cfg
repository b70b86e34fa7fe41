SPECIFICATION FairSpec
CONSTANTS
  Histories <- MCHistories
  Resynced <- MCResynced
  Codes <- MCCodes
  Directions <- MCDirections
  Days <- MCDays
  DaysPerYear = 3
  Lookback = 1
  Tables <- MCTables
  Cells <- MCCells
  MaxRevisions = 1
  MaxReports = 2
INVARIANTS TypeOK RatesAsPublished SessionAgrees ReportWhole AmountsAsValidated
PROPERTIES CauseNamed ReportEnds
\* The session is over.
CHECK_DEADLOCK FALSE
