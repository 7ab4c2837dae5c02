SPECIFICATION FairSpec
CONSTANTS
  Requests = {r1, r2, r3}
  b1 = b1
  b2 = b2
  v1 = v1
  v2 = v2
  i1 = i1
  i2 = i2
  i3 = i3
  Baskets = {b1}
  Variants = {v1, v2}
  ItemIds = {i1, i2}
  Amounts = {1}
  Currencies = {"GBP"}
  defaultCurrencyCode = "GBP"
  maxBasketQuantity = 3
  Commands <- Crowd
  SeedBaskets = {b1}
  SeedItems <- OneLine
  None = None
  maxIDGenerationAttempts = 2
  MaxOpenConns = 2
  ExternalStatuses = {}
  Faults = {"statement"}
INVARIANTS
  WaitersAreServed
PROPERTIES
  StepsRunOut
  EveryCallAnswered
