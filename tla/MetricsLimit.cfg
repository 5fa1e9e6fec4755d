SPECIFICATION Spec
CONSTANTS
  n1 = n1
  n2 = n2
  n3 = n3
  r1 = r1
  r2 = r2
  free = free
  Nodes = {n1, n2, n3}
  Reporters = {r1, r2}
  MaxNodes = 2
  Free = free
SYMMETRY Symmetry
INVARIANTS
  LimitEnforced
