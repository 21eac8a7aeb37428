CONSTANTS
  p1 = p1
  p2 = p2
  w1 = w1
  w2 = w2
  w3 = w3
  e1 = e1
  e2 = e2
  None = None
  ApiPod = {p1, p2}
  Run = {w1, w2, w3}
  Edge = {e1, e2}
  Graph <- MCGraph
  MaxUpsets = 1
SPECIFICATION FairSpec
INVARIANTS
  TypeOK
  SeededOnce
  LockIsTransactional
  ReadyIsSeeded
  GraphIsWhole
PROPERTIES
  CatalogueGetsReady
  RunsEnd
