CONSTANTS
  r1 = r1
  r2 = r2
  acme = acme
  globex = globex
  podA = podA
  podB = podB
  None = None
  Request = {r1, r2}
  Tenant = {acme, globex}
  Pod = {podA, podB}
  Question <- MCQuestion
  Call <- NearCalls
  Norm <- MCNorm
  Score <- MCScore
  Text <- MCText
  Word <- MCWord
  OneByte = {"a", "2", "4"}
  Number = {"2", "4", "500", "900"}
  Mark = {"", "?"}
  Bucket <- MCBucket
  Threshold = 90
  Limit <- MCLimit
  CacheCap = 1
  Tokens = {2}
  MaxMonth = 2
  MaxUpsets = 2
SPECIFICATION FairSpec
INVARIANTS
  LedgerExact
PROPERTIES
  ImplementsMetered
  EveryRequestEnds
