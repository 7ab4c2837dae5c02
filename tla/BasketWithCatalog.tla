-------------------------- MODULE BasketWithCatalog --------------------------
(***************************************************************************)
(* The basket-service and the catalog-service together.  In BasketService  *)
(* the catalog answers AddItem with any quote or error; here it answers    *)
(* what CatalogValidation makes of its tables, by its own statements and   *)
(* while other programs change them.  A product/variant pair is what the   *)
(* catalog is asked for: two ids, and whether they are spelled as stored.  *)
(***************************************************************************)
EXTENDS BasketProperties

CONSTANTS
  Products,      \* product ids
  VariantIds,    \* variant ids
  ProductRows,   \* rows other programs may store in table products
  VariantRows,   \* rows they may store in table product_variants
  MaxEdits       \* bound: how often they change the tables

VARIABLES
  products,    \* tables of the catalog-service, see CatalogValidation
  variants,
  edits,
  catalogPc,   \* request -> where its call of the catalog-service is
  reply,
  outcome,     \* request -> what the catalog client returned to AddItem
  held         \* history: request -> what was true of its pair, since it asked

catalogVars == <<products, variants, edits, catalogPc, reply, outcome, held>>

allVars == <<vars, catalogVars>>

Catalog == INSTANCE CatalogProperties WITH
  Lookups <- Requests,
  Variants <- VariantIds,
  pc <- catalogPc,
  query <- [r \in Requests |-> cmd[r].variant]

ASSUME PairsAssumption ==
  Variants \subseteq [product : Products, variant : VariantIds, exact : BOOLEAN]

ASSUME PricesAssumption == \A v \in VariantRows : v.price >= 0 => v.price \in Amounts

(***************************************************************************)
(* AddItem, at its call of the catalog client.  The goroutine waits while  *)
(* the client and the catalog-service go on; if the process dies, the      *)
(* catalog-service goes on alone.                                          *)
(***************************************************************************)
AskCatalog(r) ==
  /\ pc[r] = "catalog"
  /\ UNCHANGED vars
  /\ Catalog!Call(r)

Await(r) ==
  /\ pc[r] = "catalog"
  /\ UNCHANGED vars
  /\ Catalog!Receive(r) \/ Catalog!CallBreaks(r)

Deadline(r) ==
  /\ pc[r] = "catalog"
  /\ UNCHANGED vars
  /\ Catalog!DeadlinePasses(r)

\* The client returned a snapshot: AddItem goes on with its price.
TakeQuote(r) ==
  /\ outcome[r] # None
  /\ outcome[r].err = "nil"
  /\ CatalogQuotes(r)
  /\ quote'[r].amount = outcome[r].price
  /\ UNCHANGED catalogVars

\* Wrong on purpose: AddItem goes on without a price when the catalog is away.
GiveUpOpen(r) ==
  /\ pc[r] = "catalog"
  /\ outcome[r] # None
  /\ outcome[r].err # "nil"
  /\ IF outcome[r].err = "ErrCatalogServiceUnavailable"
       THEN Goto(r, "begin") /\ UNCHANGED <<database, locals, loaded, result, applied>>
       ELSE Fail(r, outcome[r].err)
  /\ UNCHANGED catalogVars

\* The client returned an error: AddItem answers with it.
GiveUp(r) ==
  /\ pc[r] = "catalog"
  /\ outcome[r] # None
  /\ outcome[r].err # "nil"
  /\ Fail(r, outcome[r].err)
  /\ UNCHANGED catalogVars

(***************************************************************************)
(* The two services.                                                       *)
(***************************************************************************)
\* Every other step of a handler; each leaves the catalog-service alone.
BasketStep(r) ==
  /\ pc[r] # "catalog"
  /\ Handler(r)
  /\ UNCHANGED catalogVars

AddItemStep(r) == AskCatalog(r) \/ Await(r) \/ Deadline(r) \/ TakeQuote(r) \/ GiveUp(r)

CatalogStep ==
  /\ UNCHANGED vars
  /\ (\E r \in Requests : Catalog!CatalogHandler(r)) \/ Catalog!Maintain

BasketEvent ==
  /\ \/ \E r \in Requests : Accept(r) \/ StatementFails(r) \/ CommitAckLost(r)
     \/ \E b \in Baskets : LeaveActive(b)
     \/ Crash
     \/ Terminated
  /\ UNCHANGED catalogVars

ShopInit == Init /\ Catalog!Init

ShopNext ==
  \/ \E r \in Requests : BasketStep(r) \/ AddItemStep(r)
  \/ CatalogStep
  \/ BasketEvent

ShopSpec == ShopInit /\ [][ShopNext]_allVars

\* The basket-service's handlers run and its timer fires; the catalog-service and
\* its database owe nobody anything.
FairShopSpec ==
  /\ ShopSpec
  /\ \A r \in Requests :
       /\ WF_allVars(BasketStep(r))
       /\ WF_allVars(AskCatalog(r) \/ TakeQuote(r) \/ GiveUp(r))
       /\ WF_allVars(Deadline(r))

(***************************************************************************)
(* The properties.                                                         *)
(***************************************************************************)
\* The catalog-service, with its client, is the catalog BasketService assumes: any
\* behaviour of the two services is one of BasketService.
ServesBaskets == Spec

Sellable(price) == [is |-> "sellable", price |-> price]

QuotedTo(r, x) ==
  /\ cmd[r].op = "AddItem" /\ cmd[r].basket = x.basket /\ cmd[r].variant = x.variant
  /\ applied[r] # {}
  /\ Sellable(x.unit.amount) \in held[r]

\* The price of every line of a basket is one at which that very pair could be sold
\* at some moment of the catalog call of an AddItem that took effect, unless the
\* line has kept the price it had before.
PricesWereQuoted ==
  \A x \in items :
    \/ \E y \in SeedItems :
         y.basket = x.basket /\ y.variant = x.variant /\ y.unit = x.unit
    \/ \E r \in Requests : QuotedTo(r, x)

CatalogRefusals == {"ErrProductNotFound", "ErrVariantNotFound", "ErrProductNotSellable",
                    "ErrProductVariantMismatch"}

\* A caller is told that its pair is missing or not sold only if that was so at some
\* moment of its call, or it spelled the pair in another way.
RefusedWasUnsold ==
  \A r \in Requests : result[r] \in CatalogRefusals =>
    ~cmd[r].variant.exact \/ \E t \in held[r] : t.is # "sellable"

(***************************************************************************)
(* The inductive invariants of the proofs.                                 *)
(***************************************************************************)
\* What the catalog-service has replied was so at some moment of the call.
ReplyGrounded(r) ==
  /\ reply[r].err \in {"nil"} \cup Catalog!ServiceErrors
  /\ reply[r].err = "nil" => Sellable(reply[r].row.price) \in held[r]
  /\ Catalog!CatalogCode(reply[r].err) \in {"NotFound", "FailedPrecondition"} =>
       Catalog!Unsold(r)

\* So was what the client made of it.
OutcomeGrounded(r) ==
  /\ catalogPc[r] = "done"
  /\ outcome[r].err \in {"nil"} \cup CatalogErrors
  /\ outcome[r].err = "nil" => Sellable(outcome[r].price) \in held[r]
  /\ outcome[r].err \in CatalogRefusals => ~cmd[r].variant.exact \/ Catalog!Unsold(r)

\* What the steps of a catalog call have established of its pair.
Established(r) ==
  /\ Catalog!Open(r) => Catalog!Truth(products, variants, cmd[r].variant) \in held[r]
  /\ catalogPc[r] \in {"product", "variant"} => Catalog!Unsold(r)
  /\ catalogPc[r] = "replied" => ReplyGrounded(r)
  /\ outcome[r] # None => OutcomeGrounded(r)

CallInv ==
  /\ DOMAIN catalogPc = Requests /\ DOMAIN reply = Requests
  /\ DOMAIN outcome = Requests /\ DOMAIN held = Requests
  /\ \A r \in Requests : Established(r)

\* What AddItem does with the client's answer rests on it.
AnswerUsed(r) ==
  /\ quote[r] # None =>
       catalogPc[r] = "done" /\ Sellable(quote[r].amount) \in held[r]
  /\ result[r] \in CatalogRefusals =>
       outcome[r] # None /\ (~cmd[r].variant.exact \/ Catalog!Unsold(r))

ShopInv ==
  /\ CallInv
  /\ AnswerInv
  /\ \A r \in Requests : AnswerUsed(r)
  /\ PricesWereQuoted
=============================================================================
