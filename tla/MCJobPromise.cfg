CONSTANTS
  j1 = j1
  j2 = j2
  w1 = w1
  w2 = w2
  None = None
  Job = {j1, j2}
  Worker = {w1, w2}
  MaxReplicas = 2
  ListLength = 2
  MaxUpsets = 0
SPECIFICATION Spec
INVARIANTS
  PromiseKept
