CONSTANTS
  Caller = {c1, c2}
  CacheKey <- CacheKeys
  Limit = 1
  Promise <- Promises
  None = None
  SecretLists <- Lists
  Weak = "weak"
SPECIFICATION FairSealingSpec
INVARIANTS TypeOK RejectedIsForgotten ListedSecretsWork
PROPERTIES FailureSparesOthers EveryWalkEnds
