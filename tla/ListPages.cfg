SPECIFICATION FairSpec
CONSTANTS
  Listings = {l1}
  Ids = {1, 2, 3}
  c1 = c1
  Categories = {c1}
  Times = {1, 2}
  TableRows <- SomeRows
  Filters <- SomeFilters
  Sizes = {0, 2, 3}
  defaultPageSize = 1
  maxPageSize = 2
  MaxEdits = 2
  None = None
INVARIANTS
  ListTypeOK
  NoRowTwice
  StayedListed
  NothingSkipped
PROPERTIES
  PagesMoveOn
  EveryListingEnds
