\* POSIX: two calls on the same path, two different contents.
SPECIFICATION Spec
CONSTANTS
  Writers = {w1, w2}
  Contents = {c1, c2}
  Absent = Absent
  Torn = Torn
  Windows = FALSE
INVARIANT TypeOK
PROPERTY ImplementsAtomicReplace
