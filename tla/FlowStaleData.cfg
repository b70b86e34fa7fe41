SPECIFICATION Spec
CONSTANTS
  Servers = {s1, s2}
  Tokens = {t1, t2}
  Saves = {k1}
  Attempts = {n1, n2}
  Histories = {TRUE, FALSE}
  None = None
SYMMETRY FlowSymmetry
INVARIANT DataMatchesContext
