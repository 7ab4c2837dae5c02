SPECIFICATION FairShopSpec
CONSTANTS
  Requests = {r1, r2}
  b1 = b1
  i1 = i1
  i2 = i2
  p1 = p1
  x1 = x1
  Baskets = {b1}
  Variants <- Pairs
  ItemIds = {i1, i2}
  Amounts = {1, 2}
  Currencies = {"GBP"}
  defaultCurrencyCode = "GBP"
  maxBasketQuantity = 3
  Commands <- SomeCommands
  SeedBaskets = {b1}
  SeedItems <- OneLine
  None = None
  maxIDGenerationAttempts = 1
  MaxOpenConns = 1
  ExternalStatuses = {}
  Faults = {}
  Products = {p1}
  VariantIds = {x1}
  ProductRows <- SomeProductRows
  VariantRows <- SomeVariantRows
  MaxEdits = 1
INVARIANTS
  PricesWereQuoted
  RefusedWasUnsold
PROPERTIES
  ServesBaskets
  EveryCallAnswered
