SPECIFICATION Spec
CONSTANTS
  Calls = {g1}
  k1 = k1
  k2 = k2
  v1 = v1
  v2 = v2
  i1 = i1
  i2 = i2
  Categories = {k1, k2}
  Variants = {v1, v2}
  Attributes = {1, 2, 3}
  Images = {i1, i2}
  Catalogs <- SomeCatalogs
  definitionLimit = 2
  MaxEdits = 2
  None = None
INVARIANTS
  OnlyVisibleShown
