------------------------------ MODULE MCBasket ------------------------------
(* Small instances of BasketService for TLC. *)
EXTENDS BasketProperties, TLC

CONSTANTS b1, b2, v1, v2, i1, i2, i3

Command1(op, b, v, i, n) ==
  [op |-> op, basket |-> b, variant |-> v, item |-> i, qty |-> n, currency |-> ""]

Gbp(n) == [amount |-> n, currency |-> "GBP"]

Row(i, b, v, n, price) ==
  [id |-> i, basket |-> b, variant |-> v, qty |-> n, unit |-> Gbp(price),
   total |-> n * price]

\* One basket with a line, and the commands that meet on it.
OneLine == {Row(i1, b1, v1, 1, 1)}

Contended ==
  {Command1("AddItem", b1, v1, i1, 1), Command1("AddItem", b1, v2, i1, 2),
   Command1("UpdateItemQuantity", b1, v1, i1, 3),
   Command1("RemoveItem", b1, v1, i1, 1), Command1("ClearBasket", b1, v1, i1, 1)}

\* Every operation, on a basket that may not exist yet, arguments out of range.
AllCommands ==
  Contended \cup
  {Command1("GetBasket", b1, v1, i1, 1), Command1("AddItem", b1, v1, i1, 4),
   Command1("UpdateItemQuantity", b1, v1, i2, 2), Command1("RemoveItem", b2, v1, i1, 1),
   Command1("CreateBasket", b2, v1, i1, 1), Command1("AddItem", b2, v1, i1, 1),
   Command1("AddItem", b2, v1, i1, 3), Command1("ClearBasket", b2, v1, i1, 1),
   [Command1("CreateBasket", b1, v1, i1, 1) EXCEPT !.currency = "EUR"]}

\* Three callers on one basket, enough to fill a pool of two connections.
Crowd ==
  {Command1("AddItem", b1, v2, i1, 2), Command1("UpdateItemQuantity", b1, v1, i1, 2),
   Command1("RemoveItem", b1, v1, i1, 1)}

Symmetry == Permutations(Requests)
=============================================================================
