------------------------------- MODULE MCShop -------------------------------
(* A small instance of the two services for TLC: one pair that is for sale, *)
(* at changing prices, spelled in two ways.                                 *)
EXTENDS BasketWithCatalog

CONSTANTS b1, i1, i2, p1, x1

Pair(exact) == [product |-> p1, variant |-> x1, exact |-> exact]

Pairs == {Pair(TRUE), Pair(FALSE)}

Gbp(n) == [amount |-> n, currency |-> "GBP"]

Send(op, exact) ==
  [op |-> op, basket |-> b1, variant |-> Pair(exact), item |-> i1, qty |-> 1,
   currency |-> ""]

SomeCommands ==
  {Send("AddItem", TRUE), Send("AddItem", FALSE), Send("UpdateItemQuantity", TRUE)}

OneLine == {[id |-> i1, basket |-> b1, variant |-> Pair(TRUE), qty |-> 1,
             unit |-> Gbp(1), total |-> 1]}

SomeProductRows == {[status |-> "active", named |-> TRUE]}

Sold(price) == [product |-> p1, status |-> "active", named |-> TRUE, price |-> price]

SomeVariantRows == {Sold(1), Sold(2), [Sold(2) EXCEPT !.status = "inactive"]}
=============================================================================
