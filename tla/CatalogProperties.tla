-------------------------- MODULE CatalogProperties --------------------------
(***************************************************************************)
(* What AddItem may rely on when it asks the catalog about a pair.         *)
(***************************************************************************)
EXTENDS CatalogValidation

Truths == [is : {"no product", "no variant", "mismatch", "not sellable", "incomplete"},
           price : {None}]
            \cup [is : {"sellable"}, price : Nat]

\* A row the service lets through.
QuotableRow == {v \in VariantRows : v.status = "active" /\ v.named /\ v.price >= 0}

Replies == [err : {"nil"}, row : QuotableRow] \cup [err : ServiceErrors, row : {None}]

\* BasketService takes any of CatalogErrors and any price for the client's answer.
Outcomes == [err : {"nil"}, price : Nat] \cup [err : CatalogErrors, price : {None}]

Steps == {"idle", "join", "product", "variant", "replied", "done"}

\* The types of the variables: in particular, no reply carries a row that cannot
\* be quoted, and the client fails only with the errors AddItem knows.
TypeOK ==
  /\ products \in [Products -> ProductRows \cup {None}]
  /\ variants \in [Variants -> VariantRows \cup {None}]
  /\ edits \in 0 .. MaxEdits
  /\ query \in [Lookups -> Query]
  /\ pc \in [Lookups -> Steps]
  /\ reply \in [Lookups -> Replies \cup {None}]
  /\ outcome \in [Lookups -> Outcomes \cup {None}]
  /\ held \in [Lookups -> SUBSET Truths]

Answered(l) == outcome[l] # None

\* What AddItem's caller is answered, unless the lookup succeeds.
Code(l) == GrpcCode(outcome[l].err)

\* A price the client returns was the price of a variant that was sellable, for
\* the product asked for, at some moment of the call.
AcceptedWasSellable ==
  \A l \in Lookups : Answered(l) /\ outcome[l].err = "nil" =>
    [is |-> "sellable", price |-> outcome[l].price] \in held[l]

\* AddItem is told NotFound or FailedPrecondition only of a pair that could not be
\* sold at some moment of the call, or was asked for in another spelling.
RefusalHadCause ==
  \A l \in Lookups : Answered(l) /\ Code(l) \in {"NotFound", "FailedPrecondition"} =>
    ~query[l].exact \/ \E t \in held[l] : t.is # "sellable"

\* The codes of the table in docs/architecture/basket-product-validation.md.
ExpectedCode(t) ==
  CASE t.is \in {"no product", "no variant"} -> "NotFound"
    [] t.is \in {"mismatch", "not sellable"} -> "FailedPrecondition"
    [] t.is = "incomplete" -> "Internal"
    [] t.is = "sellable" -> "OK"

\* When the client takes a reply, the caller is told the documented code if nothing
\* about the pair changed during the call; only a query that failed may hide it.
SteadyCauseReported ==
  [][\A l \in Lookups : Receive(l) /\ query[l].exact /\ reply[l].err # "query failed" =>
       \A t \in held[l] : held[l] = {t} => Code(l)' = ExpectedCode(t)]_vars

\* AddItem does not wait for ever for a catalog-service that hangs.
EveryLookupAnswered == \A l \in Lookups : pc[l] = "join" ~> pc[l] = "done"

\* client_test.go: a product that is not found is reported as ErrProductNotFound.
MissingProductNamed ==
  \A l \in Lookups : Answered(l) /\ Code(l) = "NotFound"
                       /\ (\A t \in held[l] : t.is = "no product") =>
    outcome[l].err = "ErrProductNotFound"

(***************************************************************************)
(* The inductive invariant of the proofs.                                  *)
(***************************************************************************)
Unsold(l) == \E t \in held[l] : t.is # "sellable"

\* If nothing has changed since the call, the pair is in one of these conditions.
Steady(l, conditions) == \A t \in held[l] : held[l] = {t} => t.is \in conditions

\* What the reply on its way to the client says was true at some moment.
ReplyJustified(l) ==
  LET code == CatalogCode(reply[l].err) IN
  /\ reply[l] \in Replies
  /\ reply[l].err = "nil" =>
       [is |-> "sellable", price |-> reply[l].row.price] \in held[l]
  /\ code \in {"NotFound", "FailedPrecondition"} => Unsold(l)
  /\ code = "NotFound" => Steady(l, {"no product", "no variant"})
  /\ code = "FailedPrecondition" => Steady(l, {"mismatch", "not sellable"})
  /\ reply[l].err = "invalid snapshot" => Steady(l, {"incomplete"})

\* What the statements already run have established about the pair.
Learned(l) ==
  /\ Open(l) => Truth(products, variants, query[l]) \in held[l]
  /\ pc[l] \in {"product", "variant"} => Unsold(l)
  /\ pc[l] = "product" => Steady(l, {"no product", "no variant", "mismatch"})
  /\ pc[l] = "variant" => Steady(l, {"no variant", "mismatch"})
  /\ pc[l] = "replied" => ReplyJustified(l)
  /\ Answered(l) => pc[l] = "done"

CatalogInv ==
  /\ TypeOK
  /\ \A l \in Lookups : Learned(l)
  /\ AcceptedWasSellable
  /\ RefusalHadCause
=============================================================================
