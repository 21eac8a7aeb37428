CONSTANTS
  r1 = r1
  r2 = r2
  r3 = r3
  acme = acme
  globex = globex
  podA = podA
  podB = podB
  None = None
  Request = {r1, r2, r3}
  Tenant = {acme, globex}
  Pod = {podA, podB}
  Question <- MCQuestion
  Call <- MixedCalls
  Norm <- MCNorm
  Score <- MCScore
  Text <- MCText
  Word <- MCWord
  OneByte = {"a", "2", "4"}
  Number = {"2", "4", "500", "900"}
  Mark = {"", "?"}
  Bucket <- MCBucket
  Threshold = 90
  Limit <- MCLimit
  CacheCap = 1
  Tokens = {2}
  MaxMonth = 1
  MaxUpsets = 1
SPECIFICATION Spec
SYMMETRY Symmetric
INVARIANTS
  TypeOK
  OneCallPerPrompt
  TenantIsolation
  AnswerMatchesQuestion
  ShortNumbersTellApart
  NoStrandedFollower
  CacheBounded
  AnswersWereBought
  UnbilledOnlyByRedis
  OvershootIsConcurrent
  RejectionIsEarned
