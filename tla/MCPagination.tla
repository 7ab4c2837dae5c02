----------------------------- MODULE MCPagination -----------------------------
(* Small instances of CatalogPagination for TLC. *)
EXTENDS CatalogPagination

CONSTANT c1

Stored(t) == [category |-> c1, active |-> TRUE, filterable |-> TRUE, created |-> t]

SomeRows ==
  {Stored(1), Stored(2), [Stored(1) EXCEPT !.active = FALSE],
   [Stored(2) EXCEPT !.filterable = FALSE], [Stored(1) EXCEPT !.category = None]}

Asks(kind, category, inactive, filterable) ==
  [kind |-> kind, category |-> category, includeInactive |-> inactive,
   filterableOnly |-> filterable]

SomeFilters ==
  {Asks("products", "", FALSE, FALSE), Asks("categories", c1, TRUE, FALSE),
   Asks("definitions", c1, FALSE, TRUE), Asks("definitions", "", TRUE, FALSE)}
=============================================================================
