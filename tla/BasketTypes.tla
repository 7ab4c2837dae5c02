---------------------------- MODULE BasketTypes ----------------------------
(***************************************************************************)
(* Data of the basket-service: the rows of its two tables, the commands    *)
(* its six RPCs carry.  A product/variant pair is one element of Variants, *)
(* a generated basket item id one element of ItemIds; names, descriptions  *)
(* and created_at are left out.                                            *)
(***************************************************************************)
EXTENDS Integers, FiniteSets, BasketErrors

CONSTANTS
  Requests,             \* RPC handler goroutines
  Baskets,              \* basket ids
  Variants,             \* product/variant pairs
  ItemIds,              \* basket item ids NewBasketItemID can generate
  Amounts,              \* unit prices, in minor units
  Currencies,           \* ISO currency codes the catalog can answer
  defaultCurrencyCode,  \* the one currency a basket may have
  maxBasketQuantity,    \* 99 in the code
  Commands,             \* the inputs the clients may send
  SeedBaskets,          \* baskets created by earlier requests
  SeedItems,            \* basket_items rows those requests left
  None                  \* no row, no item, no request

minBasketQuantity == 1

Quantity == minBasketQuantity .. maxBasketQuantity

\* What the catalog quotes for a pair: Money{AmountMinor, CurrencyCode}.
Quote == [amount : Amounts, currency : Currencies]

BasketStatus == {"ACTIVE", "CLEARED", "EXPIRED", "CHECKED_OUT"}

\* A row of table baskets; version stands for updated_at.
BasketRow == [status : BasketStatus, currency : Currencies, version : Nat]

\* A row of table basket_items.
Item == [id : ItemIds, basket : Baskets, variant : Variants, qty : Quantity,
         unit : Quote, total : Nat]

Writes == {"AddItem", "UpdateItemQuantity", "RemoveItem", "ClearBasket"}

Ops == Writes \cup {"CreateBasket", "GetBasket"}

(***************************************************************************)
(* The fields of BasketQuery; an operation reads only those it needs.  A   *)
(* CreateBasket carries the id the service generates for it.  The currency *)
(* "" is the omitted one.                                                  *)
(***************************************************************************)
Command == [op : Ops, basket : Baskets, variant : Variants, item : ItemIds,
            qty : Int, currency : Currencies \cup {""}]

LineTotal(qty, unit) == qty * unit.amount

ItemsOf(table, b) == {x \in table : x.basket = b}

\* The rows "WHERE basket_id = ? AND product_id = ? AND variant_id = ?".
SamePair(table, c) == {x \in table : x.basket = c.basket /\ x.variant = c.variant}

\* The rows "WHERE basket_id = ? AND basket_item_id = ?".
SameId(table, c) == {x \in table : x.basket = c.basket /\ x.id = c.item}

(***************************************************************************)
(* What the database schema and the code guarantee of a stored item.       *)
(***************************************************************************)
IdsUnique(table) == \A x, y \in table : x.id = y.id => x = y

PairsUnique(table) ==
  \A x, y \in table : x.basket = y.basket /\ x.variant = y.variant => x = y

TotalsAgree(table) == \A x \in table : x.total = LineTotal(x.qty, x.unit)

OneCurrency(table) == \A x \in table : x.unit.currency = defaultCurrencyCode

ASSUME QuantityAssumption == maxBasketQuantity \in Nat

ASSUME AmountsAssumption == Amounts \subseteq Nat

ASSUME CurrencyAssumption ==
  defaultCurrencyCode \in Currencies /\ defaultCurrencyCode # ""

ASSUME CommandsAssumption == Commands \subseteq Command

ASSUME NoneAssumption ==
  None \notin Requests \cup ItemIds \cup Item \cup BasketRow \cup Quote

\* A database earlier requests can have left.
ASSUME SeedAssumption ==
  /\ SeedBaskets \subseteq Baskets
  /\ SeedItems \subseteq Item
  /\ \A x \in SeedItems : x.basket \in SeedBaskets
  /\ IdsUnique(SeedItems)
  /\ PairsUnique(SeedItems)
  /\ TotalsAgree(SeedItems)
  /\ OneCurrency(SeedItems)
=============================================================================
