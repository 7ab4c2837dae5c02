SPECIFICATION Spec
CONSTANTS
  Lookups = {l1}
  p1 = p1
  p2 = p2
  v1 = v1
  Products = {p1, p2}
  Variants = {v1}
  ProductRows <- SomeProductRows
  VariantRows <- SomeVariantRows
  MaxEdits = 0
  None = None
INVARIANTS
  MissingProductNamed
