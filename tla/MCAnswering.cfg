CONSTANTS
  r1 = r1
  r2 = r2
  acme = acme
  podA = podA
  None = None
  Request = {r1, r2}
  Tenant = {acme}
  Pod = {podA}
  Question <- MCQuestion
  Call <- MCCall
  Norm <- MCNorm
  Score <- MCScore
  Threshold = 90
  Limit <- MCLimit
  CacheCap = 1
  Tokens = {2}
  PromptTokens <- MCPromptTokens
  AnswerTokens = {1}
  Reported = {1}
  MaxMonth = 2
  MaxUpsets = 1
SPECIFICATION FairAnswering
INVARIANTS
  NoBadGateway
  NoFreeAnswer
  NoAnswerFromACutSearch
PROPERTIES
  ImplementsGateway
