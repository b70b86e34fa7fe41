\* Windows: one call at a time, with failures, kills and power losses.
SPECIFICATION Spec
CONSTANTS
  Writers = {w1}
  Contents = {c1, c2}
  Absent = Absent
  Torn = Torn
  Windows = TRUE
INVARIANTS NeverTorn CopyHeld
