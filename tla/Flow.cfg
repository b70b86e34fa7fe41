\* Two tokens and two servers: a context can be left for another of the same server,
\* and for one of another server.
SPECIFICATION FairSpec
CONSTANTS
  Servers = {s1, s2}
  Tokens = {t1, t2}
  Saves = {k1}
  Attempts = {n1, n2}
  Histories = {TRUE}
  None = None
INVARIANTS TypeOK JobKeepsContext NothingLeftBehind ReplacementConfirmed ShownDataHolds
PROPERTY BusyEnds
