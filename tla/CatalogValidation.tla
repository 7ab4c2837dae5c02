-------------------------- MODULE CatalogValidation --------------------------
(***************************************************************************)
(* How AddItem learns whether a product/variant pair may be sold and for   *)
(* how much: the catalog client of the basket-service, the RPC             *)
(* ValidateProductVariant of the catalog-service, and the tables it reads. *)
(* The catalog-service finds the pair with one SELECT and, when there is   *)
(* none, asks with two more what is missing.  Other programs change the    *)
(* tables between those statements; the client gives up at its deadline.   *)
(***************************************************************************)
EXTENDS Integers, BasketErrors, CatalogTypes

CONSTANTS
  Lookups,       \* calls of the client's ValidateProductVariant
  Products,      \* product ids
  Variants,      \* variant ids
  ProductRows,   \* rows other programs may store in table products
  VariantRows,   \* rows they may store in table product_variants
  MaxEdits,      \* bound: how often they change the tables
  None           \* no row, no price, no answer yet

\* named: the name, and a variant's currency code, are not blank.
ProductRow == [status : LifecycleStatus, named : BOOLEAN]

VariantRow == [product : Products, status : LifecycleStatus, named : BOOLEAN,
               price : Int]

ASSUME RowsAssumption ==
  /\ ProductRows \subseteq ProductRow
  /\ VariantRows \subseteq VariantRow
  /\ None \notin ProductRow \cup VariantRow \cup Int

ASSUME EditsAssumption == MaxEdits \in Nat

\* The ids asked for.  The tables' collation ignores case: exact says whether
\* the ids are spelled as they are stored.
Query == [product : Products, variant : Variants, exact : BOOLEAN]

VARIABLES
  products,   \* committed rows of table products, None where there is none
  variants,   \* committed rows of table product_variants
  edits,      \* how often other programs have changed them
  query,      \* lookup -> the ids it is about
  pc,         \* lookup -> next statement of the catalog's handler
  reply,      \* lookup -> what the catalog-service answered, or None
  outcome,    \* lookup -> what the client returned, or None
  held        \* history: lookup -> what was true of its pair, since it began

tables == <<products, variants, edits>>
vars == <<tables, query, pc, reply, outcome, held>>

(***************************************************************************)
(* What two tables say of a pair; no statement of the code reads it whole. *)
(***************************************************************************)
NotSold(why) == [is |-> why, price |-> None]

Truth(ps, vs, q) ==
  LET p == ps[q.product]
      v == vs[q.variant]
  IN CASE p = None -> NotSold("no product")
       [] p # None /\ v = None -> NotSold("no variant")
       [] p # None /\ v # None /\ v.product # q.product -> NotSold("mismatch")
       [] OTHER ->
            IF p.status # "active" \/ v.status # "active" THEN NotSold("not sellable")
            ELSE IF ~p.named \/ ~v.named \/ v.price < 0 THEN NotSold("incomplete")
            ELSE [is |-> "sellable", price |-> v.price]

ForeignKey(ps, vs) == \A v \in Variants : vs[v] # None => ps[vs[v].product] # None

Open(l) == pc[l] \notin {"idle", "done"}

Init ==
  /\ products \in [Products -> ProductRows \cup {None}]
  /\ variants \in [Variants -> VariantRows \cup {None}]
  /\ ForeignKey(products, variants)
  /\ edits = 0
  /\ query \in [Lookups -> Query]
  /\ pc = [l \in Lookups |-> "idle"]
  /\ reply = [l \in Lookups |-> None]
  /\ outcome = [l \in Lookups |-> None]
  /\ held = [l \in Lookups |-> {}]

\* A transaction of another program: any change of the two tables.
Maintain ==
  /\ edits < MaxEdits
  /\ \E l \in Lookups : Open(l)
  /\ products' \in [Products -> ProductRows \cup {None}]
  /\ variants' \in [Variants -> VariantRows \cup {None}]
  /\ ForeignKey(products', variants')
  /\ edits' = edits + 1
  /\ held' = [l \in Lookups |->
       IF Open(l) THEN held[l] \cup {Truth(products', variants', query[l])}
                  ELSE held[l]]
  /\ UNCHANGED <<query, pc, reply, outcome>>

Call(l) ==
  /\ pc[l] = "idle"
  /\ pc' = [pc EXCEPT ![l] = "join"]
  /\ held' = [held EXCEPT ![l] = {Truth(products, variants, query[l])}]
  /\ UNCHANGED <<tables, query, reply, outcome>>

(***************************************************************************)
(* The catalog-service.                                                    *)
(***************************************************************************)
RepositoryErrors == {"ErrProductNotFound", "ErrProductVariantNotFound",
                     "ErrProductVariantProductMismatch"}

ServiceErrors == RepositoryErrors
  \cup {"ErrProductNotSellable", "ErrProductVariantNotSellable",
        "invalid snapshot", "query failed"}

Reply(l, err, row) ==
  /\ pc' = [pc EXCEPT ![l] = "replied"]
  /\ reply' = [reply EXCEPT ![l] = [err |-> err, row |-> row]]
  /\ UNCHANGED <<tables, query, outcome, held>>

Goto(l, step) ==
  /\ pc' = [pc EXCEPT ![l] = step]
  /\ UNCHANGED <<tables, query, reply, outcome, held>>

\* Wrong on purpose: the status of the variant is not looked at.
SnapshotErrorProductOnly(p, v) ==
  CASE p.status # "active" -> "ErrProductNotSellable"
    [] p.status = "active" /\ (~p.named \/ ~v.named \/ v.price < 0) -> "invalid snapshot"
    [] OTHER -> "nil"

\* Wrong on purpose: a negative price is passed on.
SnapshotErrorAnyPrice(p, v) ==
  CASE p.status # "active" -> "ErrProductNotSellable"
    [] p.status = "active" /\ v.status # "active" -> "ErrProductVariantNotSellable"
    [] p.status = "active" /\ v.status = "active" /\ ~(p.named /\ v.named) ->
         "invalid snapshot"
    [] OTHER -> "nil"

\* The checks of the service, in their order, on the rows the SELECT joined.
SnapshotError(p, v) ==
  CASE p.status # "active" -> "ErrProductNotSellable"
    [] p.status = "active" /\ v.status # "active" -> "ErrProductVariantNotSellable"
    [] p.status = "active" /\ v.status = "active"
         /\ (~p.named \/ ~v.named \/ v.price < 0) -> "invalid snapshot"
    [] OTHER -> "nil"

\* The pair has a joined row.
Joined(q) ==
  /\ products[q.product] # None
  /\ variants[q.variant] # None
  /\ variants[q.variant].product = q.product

Join(l) ==
  /\ pc[l] = "join"
  /\ Joined(query[l])
  /\ LET p == products[query[l].product]
         v == variants[query[l].variant]
         err == SnapshotError(p, v)
     IN  Reply(l, err, IF err = "nil" THEN v ELSE None)

\* Wrong on purpose: a missing product is left to the lookup of the variant.
JoinMissesVariantOnly(l) ==
  /\ pc[l] = "join"
  /\ ~Joined(query[l])
  /\ Goto(l, "variant")

\* No row: classifyMissingProductVariant asks what is missing.
JoinMisses(l) ==
  /\ pc[l] = "join"
  /\ ~Joined(query[l])
  /\ Goto(l, "product")

ProductExists(l) ==
  /\ pc[l] = "product"
  /\ \/ /\ products[query[l].product] = None
        /\ Reply(l, "ErrProductNotFound", None)
     \/ /\ products[query[l].product] # None
        /\ Goto(l, "variant")

\* Both exist: then one does not belong to the other.
VariantExists(l) ==
  /\ pc[l] = "variant"
  /\ Reply(l, IF variants[query[l].variant] = None
                THEN "ErrProductVariantNotFound"
                ELSE "ErrProductVariantProductMismatch", None)

\* Wrong on purpose: any error of the first SELECT is taken for a missing row.
QueryFailsAsMiss(l) ==
  \/ pc[l] = "join" /\ Goto(l, "product")
  \/ pc[l] \in {"product", "variant"} /\ Reply(l, "query failed", None)

QueryFails(l) ==
  /\ pc[l] \in {"join", "product", "variant"}
  /\ Reply(l, "query failed", None)

(***************************************************************************)
(* The words of the status message the client looks for.  The service      *)
(* wraps what the repository returns in "validate product variant product  *)
(* ... variant ...: "; ids themselves are taken to hold none of the words. *)
(***************************************************************************)
Words(err) ==
  CASE err \in RepositoryErrors -> {"product", "variant"}
    [] err = "ErrProductNotSellable" -> {"product"}
    [] err = "ErrProductVariantNotSellable" -> {"product", "variant"}
    [] OTHER -> {}

(***************************************************************************)
(* The client.                                                             *)
(***************************************************************************)
\* mapCatalogValidationError.
ClientError(code, words) ==
  CASE code = "NotFound" ->
         IF "variant" \in words THEN "ErrVariantNotFound" ELSE "ErrProductNotFound"
    [] code = "InvalidArgument" -> "ErrProductVariantMismatch"
    [] code = "FailedPrecondition" ->
         IF "basket" \in words THEN "ErrBasketNotModifiable" ELSE "ErrProductNotSellable"
    [] code \in {"Unavailable", "DeadlineExceeded"} -> "ErrCatalogServiceUnavailable"
    [] OTHER -> "catalog validation failed"

\* The client's own checks of a response; ids come back as they are stored.
ResponseError(q, row) ==
  CASE ~q.exact -> "ErrProductVariantMismatch"
    [] q.exact /\ (~row.named \/ row.price < 0) -> "catalog validation failed"
    [] OTHER -> "nil"

Return(l, err, price) ==
  /\ pc' = [pc EXCEPT ![l] = "done"]
  /\ outcome' = [outcome EXCEPT ![l] = [err |-> err, price |-> price]]
  /\ UNCHANGED <<tables, query, reply, held>>

Receive(l) ==
  /\ pc[l] = "replied"
  /\ LET answer == reply[l]
         checked == ResponseError(query[l], answer.row)
     IN  \/ /\ answer.err = "nil"
            /\ Return(l, checked, IF checked = "nil" THEN answer.row.price ELSE None)
         \/ /\ answer.err # "nil"
            /\ Return(l, ClientError(CatalogCode(answer.err), Words(answer.err)), None)

\* Wrong on purpose: the deadline covers only the time until the SELECT ran.
DeadlinePassesEarly(l) ==
  /\ pc[l] = "join"
  /\ Return(l, ClientError("DeadlineExceeded", {}), None)

\* context.WithTimeout ends the call wherever the handler is; a reply that
\* comes later finds nobody.
DeadlinePasses(l) ==
  /\ Open(l)
  /\ Return(l, ClientError("DeadlineExceeded", {}), None)

\* The connection breaks, or AddItem's own caller goes away.
CallBreaks(l) ==
  /\ Open(l)
  /\ \E code \in {"Unavailable", "Canceled"} : Return(l, ClientError(code, {}), None)

CatalogHandler(l) ==
  Join(l) \/ JoinMisses(l) \/ ProductExists(l) \/ VariantExists(l) \/ QueryFails(l)

Client(l) == Call(l) \/ Receive(l) \/ DeadlinePasses(l) \/ CallBreaks(l)

Terminated == (\A l \in Lookups : pc[l] = "done") /\ UNCHANGED vars

Next ==
  \/ \E l \in Lookups : Client(l) \/ CatalogHandler(l)
  \/ Maintain
  \/ Terminated

Spec == Init /\ [][Next]_vars

\* Only the client's timer is fair: the catalog-service and its database may hang.
FairSpec == Spec /\ \A l \in Lookups : WF_vars(DeadlinePasses(l))
=============================================================================
