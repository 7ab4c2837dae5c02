SPECIFICATION Spec
CONSTANTS
  Requests = {r1, r2}
  b1 = b1
  b2 = b2
  v1 = v1
  v2 = v2
  i1 = i1
  i2 = i2
  i3 = i3
  Baskets = {b1, b2}
  Variants = {v1, v2}
  ItemIds = {i1, i2, i3}
  Amounts = {1, 2}
  Currencies = {"GBP", "EUR"}
  defaultCurrencyCode = "GBP"
  maxBasketQuantity = 3
  Commands <- Contended
  SeedBaskets = {b1}
  SeedItems <- OneLine
  None = None
  maxIDGenerationAttempts = 2
  MaxOpenConns = 2
  ExternalStatuses = {"CHECKED_OUT"}
  Faults = {}
INVARIANTS
  ClearAnswersEmpty
