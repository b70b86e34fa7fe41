\* Windows: the comment's promise that the previous file stays readable.
SPECIFICATION Spec
CONSTANTS
  Writers = {w1}
  Contents = {c1}
  Absent = Absent
  Torn = Torn
  Windows = TRUE
INVARIANT PreviousFileFound
