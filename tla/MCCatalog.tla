------------------------------ MODULE MCCatalog ------------------------------
(* Small instances of CatalogValidation for TLC. *)
EXTENDS CatalogProperties

CONSTANTS p1, p2, v1

Active == [status |-> "active", named |-> TRUE]

Row(p, price) == [product |-> p, status |-> "active", named |-> TRUE, price |-> price]

SomeProductRows ==
  {Active, [Active EXCEPT !.status = "archived"], [Active EXCEPT !.named = FALSE]}

SomeVariantRows ==
  UNION {{Row(p, 0), Row(p, 1), Row(p, -1), [Row(p, 0) EXCEPT !.named = FALSE],
          [Row(p, 0) EXCEPT !.status = "inactive"]} : p \in {p1, p2}}
=============================================================================
