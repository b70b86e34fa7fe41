SPECIFICATION Spec
CONSTANTS
  Apps = {a1}
  Ids = {1, 2, 3}
  s1 = s1
  s2 = s2
  t1 = t1
  t2 = t2
  Servers = {s1, s2}
  Tokens = {t1, t2}
  MaxStamp = 3
  None = None
  Damaged = Damaged
  Seeds <- MCSeeds
  FlakyReads = FALSE
INVARIANTS TypeOK OneSnapshotPerOwner ActiveHasFile
PROPERTIES NoForeignOverwrite ImplementsVault
