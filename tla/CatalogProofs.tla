---------------------------- MODULE CatalogProofs ----------------------------
(***************************************************************************)
(* Proofs that CatalogValidation has the safety properties of              *)
(* CatalogProperties for every value of its constants.                     *)
(***************************************************************************)
EXTENDS CatalogProperties, TLAPS

\* A condition under which a pair is not sold says so.
LEMMA NotSoldIs == ASSUME NEW why PROVE NotSold(why).is = why
  BY DEF NotSold

\* What two well-typed tables say of a pair is one of the known conditions.
LEMMA TruthType ==
  ASSUME NEW ps \in [Products -> ProductRows \cup {None}],
         NEW vs \in [Variants -> VariantRows \cup {None}],
         NEW q \in Query
  PROVE  Truth(ps, vs, q) \in Truths
  <1> DEFINE p == ps[q.product]
             v == vs[q.variant]
  <1>1. p \in ProductRows \cup {None} /\ v \in VariantRows \cup {None}
    BY DEF Query
  <1>2. v # None => v.price \in Int
    BY <1>1, RowsAssumption DEF VariantRow
  <1> HIDE DEF p, v
  <1>3. Truth(ps, vs, q) =
          (CASE p = None -> NotSold("no product")
             [] p # None /\ v = None -> NotSold("no variant")
             [] p # None /\ v # None /\ v.product # q.product -> NotSold("mismatch")
             [] OTHER ->
                  IF p.status # "active" \/ v.status # "active" THEN NotSold("not sellable")
                  ELSE IF ~p.named \/ ~v.named \/ v.price < 0 THEN NotSold("incomplete")
                  ELSE [is |-> "sellable", price |-> v.price])
    BY DEF Truth, p, v
  <1>4. /\ NotSold("no product") \in Truths /\ NotSold("no variant") \in Truths
        /\ NotSold("mismatch") \in Truths /\ NotSold("not sellable") \in Truths
        /\ NotSold("incomplete") \in Truths
    BY DEF Truths, NotSold
  <1>5. v # None /\ ~(v.price < 0) => [is |-> "sellable", price |-> v.price] \in Truths
    BY <1>2 DEF Truths
  <1> QED BY <1>3, <1>4, <1>5

\* Before any call there is nothing to justify.
LEMMA InitCatalog == Init => CatalogInv
  <1> SUFFICES ASSUME Init PROVE CatalogInv OBVIOUS
  <1>1. TypeOK
    BY EditsAssumption DEF Init, TypeOK, Steps
  <1>2. \A l \in Lookups : pc[l] = "idle" /\ outcome[l] = None
    BY DEF Init
  <1>3. \A l \in Lookups : Learned(l)
    BY <1>2 DEF Learned, Open, Answered
  <1>4. AcceptedWasSellable /\ RefusalHadCause
    BY <1>2 DEF AcceptedWasSellable, RefusalHadCause, Answered
  <1> QED BY <1>1, <1>3, <1>4 DEF CatalogInv

\* What has been learned of a lookup stays learned while nothing of it changes.
LEMMA LearnedFrame ==
  ASSUME NEW l \in Lookups, Learned(l), UNCHANGED <<products, variants, query>>,
         pc'[l] = pc[l], reply'[l] = reply[l], outcome'[l] = outcome[l],
         held'[l] = held[l]
  PROVE  Learned(l)'
  BY DEF Learned, Open, Answered, Unsold, Steady, ReplyJustified

\* The properties of answers speak of outcome, query and held alone.
LEMMA AnswersFrame ==
  ASSUME CatalogInv, UNCHANGED <<query, outcome, held>>
  PROVE  /\ AcceptedWasSellable'
         /\ RefusalHadCause'
  BY DEF CatalogInv, AcceptedWasSellable, RefusalHadCause, Answered, Code

\* A miss sends the handler on to the next question, knowing more.
LEMMA GotoPreserves ==
  ASSUME CatalogInv, NEW l \in Lookups, NEW step \in {"product", "variant"},
         Open(l), ~Answered(l), Goto(l, step), Unsold(l),
         step = "product" => Steady(l, {"no product", "no variant", "mismatch"}),
         step = "variant" => Steady(l, {"no variant", "mismatch"})
  PROVE  CatalogInv'
  <1> USE DEF Goto, tables
  <1>1. TypeOK'
    BY DEF CatalogInv, TypeOK, Steps
  <1>2. pc'[l] = step /\ \A m \in Lookups \ {l} : pc'[m] = pc[m]
    BY DEF CatalogInv, TypeOK
  <1>3. ASSUME NEW m \in Lookups PROVE Learned(m)'
    <2>1. CASE m = l
      BY <1>2, <2>1 DEF CatalogInv, Learned, Open, Answered, Unsold, Steady
    <2>2. CASE m # l
      BY <1>2, <2>2, LearnedFrame DEF CatalogInv
    <2> QED BY <2>1, <2>2
  <1> QED BY <1>1, <1>3, AnswersFrame DEF CatalogInv

\* A reply is sent with its justification.
LEMMA ReplyPreserves ==
  ASSUME CatalogInv, NEW l \in Lookups, Open(l), ~Answered(l),
         NEW err, NEW row, Reply(l, err, row),
         [err |-> err, row |-> row] \in Replies,
         err = "nil" => [is |-> "sellable", price |-> row.price] \in held[l],
         CatalogCode(err) \in {"NotFound", "FailedPrecondition"} => Unsold(l),
         CatalogCode(err) = "NotFound" => Steady(l, {"no product", "no variant"}),
         CatalogCode(err) = "FailedPrecondition" =>
           Steady(l, {"mismatch", "not sellable"}),
         err = "invalid snapshot" => Steady(l, {"incomplete"})
  PROVE  CatalogInv'
  <1> USE DEF Reply, tables
  <1>1. TypeOK'
    BY DEF CatalogInv, TypeOK, Steps
  <1>2. /\ pc'[l] = "replied" /\ reply'[l] = [err |-> err, row |-> row]
        /\ \A m \in Lookups \ {l} : pc'[m] = pc[m] /\ reply'[m] = reply[m]
    BY DEF CatalogInv, TypeOK
  <1>3. ASSUME NEW m \in Lookups PROVE Learned(m)'
    <2>1. CASE m = l
      <3> DEFINE sent == [err |-> err, row |-> row]
      <3>0. sent.err = err /\ sent.row = row
        OBVIOUS
      <3>1. reply'[l].err = err /\ reply'[l].row = row /\ held' = held
        <4>1. reply'[l] = sent
          BY <1>2
        <4>2. held' = held
          OBVIOUS
        <4> HIDE DEF sent
        <4> QED BY <3>0, <4>1, <4>2
      <3>2. reply'[l] \in Replies'
        BY <1>2 DEF Replies, QuotableRow
      <3>3. Unsold(l)' = Unsold(l)
        BY <3>1 DEF Unsold
      <3>4. \A S : Steady(l, S) => Steady(l, S)'
        BY <3>1 DEF Steady
      <3>5. ReplyJustified(l)'
        BY <3>1, <3>2, <3>3, <3>4 DEF ReplyJustified
      <3> QED BY <1>2, <2>1, <3>5 DEF CatalogInv, Learned, Open, Answered
    <2>2. CASE m # l
      BY <1>2, <2>2, LearnedFrame DEF CatalogInv
    <2> QED BY <2>1, <2>2
  <1> QED BY <1>1, <1>3, AnswersFrame DEF CatalogInv

\* The client returns an answer that is true to what was held during the call.
LEMMA ReturnPreserves ==
  ASSUME CatalogInv, NEW l \in Lookups, NEW err, NEW price, Return(l, err, price),
         [err |-> err, price |-> price] \in Outcomes,
         err = "nil" => [is |-> "sellable", price |-> price] \in held[l],
         GrpcCode(err) \in {"NotFound", "FailedPrecondition"} =>
           ~query[l].exact \/ Unsold(l)
  PROVE  CatalogInv'
  <1> USE DEF Return, tables
  <1>1. TypeOK'
    BY DEF CatalogInv, TypeOK, Steps
  <1>2. /\ pc'[l] = "done" /\ outcome'[l] = [err |-> err, price |-> price]
        /\ \A m \in Lookups \ {l} : pc'[m] = pc[m] /\ outcome'[m] = outcome[m]
    BY DEF CatalogInv, TypeOK
  <1>3. ASSUME NEW m \in Lookups PROVE Learned(m)'
    <2>1. CASE m = l
      BY <1>2, <2>1 DEF Learned, Open, Answered
    <2>2. CASE m # l
      BY <1>2, <2>2, LearnedFrame DEF CatalogInv
    <2> QED BY <2>1, <2>2
  <1>4. AcceptedWasSellable'
    BY <1>2 DEF CatalogInv, AcceptedWasSellable, Answered
  <1>5. RefusalHadCause'
    BY <1>2 DEF CatalogInv, RefusalHadCause, Answered, Code, Unsold
  <1> QED BY <1>1, <1>3, <1>4, <1>5 DEF CatalogInv

\* One reading of the joined rows justifies what is made of it.
LEMMA JoinPreserves ==
  ASSUME CatalogInv, NEW l \in Lookups, Join(l)
  PROVE  CatalogInv'
  <1> DEFINE q == query[l]
             p == products[q.product]
             v == variants[q.variant]
             e == SnapshotError(p, v)
             now == Truth(products, variants, q)
  <1>1. q \in Query /\ Open(l) /\ ~Answered(l) /\ now \in held[l]
    BY DEF CatalogInv, TypeOK, Learned, Join, Open
  <1>2. p \in ProductRow /\ v \in VariantRows /\ v \in VariantRow /\ v.product = q.product
        /\ p # None /\ v # None
    BY <1>1, RowsAssumption DEF Join, Joined, CatalogInv, TypeOK, Query
  <1>3. v.price \in Int /\ v.named \in BOOLEAN /\ p.named \in BOOLEAN
    BY <1>2 DEF VariantRow, ProductRow
  <1>4. Reply(l, e, IF e = "nil" THEN v ELSE None)
    BY DEF Join
  <1>5. now = IF p.status # "active" \/ v.status # "active" THEN NotSold("not sellable")
              ELSE IF ~p.named \/ ~v.named \/ v.price < 0 THEN NotSold("incomplete")
              ELSE [is |-> "sellable", price |-> v.price]
    BY <1>2 DEF Truth
  <1>6. e \in {"ErrProductNotSellable", "ErrProductVariantNotSellable",
               "invalid snapshot", "nil"}
    BY DEF SnapshotError
  <1>7. ASSUME e = "nil"
        PROVE  v \in QuotableRow /\ now = [is |-> "sellable", price |-> v.price]
    <2>1. p.status = "active" /\ v.status = "active"
      BY <1>7 DEF SnapshotError
    <2>2. p.named /\ v.named /\ ~(v.price < 0)
      BY <1>7, <2>1 DEF SnapshotError
    <2>3. v \in QuotableRow
      BY <1>2, <1>3, <2>1, <2>2 DEF QuotableRow
    <2>4. now = [is |-> "sellable", price |-> v.price]
      BY <1>5, <2>1, <2>2
    <2> QED BY <2>3, <2>4
  <1>8. e \in {"ErrProductNotSellable", "ErrProductVariantNotSellable"} =>
          now = NotSold("not sellable")
    BY <1>5 DEF SnapshotError
  <1>13. e = "invalid snapshot" => now = NotSold("incomplete")
    BY <1>5 DEF SnapshotError
  <1> HIDE DEF q, p, v, e, now
  <1>9. [err |-> e, row |-> IF e = "nil" THEN v ELSE None] \in Replies
    BY <1>6, <1>7 DEF Replies, ServiceErrors
  <1>10. CatalogCode(e) # "NotFound"
         /\ (CatalogCode(e) = "FailedPrecondition" => now = NotSold("not sellable"))
    BY <1>6, <1>8 DEF CatalogCode
  <1>11. now = NotSold("not sellable") =>
           Unsold(l) /\ Steady(l, {"mismatch", "not sellable"})
    <2>1. now = NotSold("not sellable") => now.is = "not sellable"
      BY NotSoldIs
    <2> QED BY <1>1, <2>1 DEF Unsold, Steady
  <1>12. e = "nil" => [is |-> "sellable", price |-> v.price] \in held[l]
    BY <1>1, <1>7
  <1>14. e = "invalid snapshot" => Steady(l, {"incomplete"})
    <2>1. now = NotSold("incomplete") => now.is = "incomplete"
      BY NotSoldIs
    <2> QED BY <1>1, <1>13, <2>1 DEF Steady
  <1> QED BY <1>1, <1>4, <1>9, <1>10, <1>11, <1>12, <1>14, ReplyPreserves

\* A pair that has no joined row cannot be sold at that moment.
LEMMA JoinMissesPreserves ==
  ASSUME CatalogInv, NEW l \in Lookups, JoinMisses(l)
  PROVE  CatalogInv'
  <1> DEFINE now == Truth(products, variants, query[l])
  <1>1. Open(l) /\ ~Answered(l) /\ now \in held[l]
    BY DEF CatalogInv, Learned, JoinMisses, Open
  <1>2. now \in {NotSold("no product"), NotSold("no variant"), NotSold("mismatch")}
    BY DEF JoinMisses, Joined, Truth
  <1> HIDE DEF now
  <1>3. now.is \in {"no product", "no variant", "mismatch"}
    BY <1>2, NotSoldIs
  <1>4. Unsold(l) /\ Steady(l, {"no product", "no variant", "mismatch"})
    BY <1>1, <1>3 DEF Unsold, Steady
  <1>5. Goto(l, "product")
    BY DEF JoinMisses
  <1> QED BY <1>1, <1>4, <1>5, GotoPreserves

\* A product that exists is not what has always been missing.
LEMMA ProductExistsPreserves ==
  ASSUME CatalogInv, NEW l \in Lookups, ProductExists(l)
  PROVE  CatalogInv'
  <1> DEFINE now == Truth(products, variants, query[l])
  <1>1. Open(l) /\ ~Answered(l) /\ now \in held[l] /\ Unsold(l)
        /\ Steady(l, {"no product", "no variant", "mismatch"})
    BY DEF CatalogInv, Learned, ProductExists, Open
  <1>2. CASE products[query[l].product] = None
    <2>1. Reply(l, "ErrProductNotFound", None)
      BY <1>2 DEF ProductExists
    <2>2. now.is = "no product"
      BY <1>2 DEF Truth, NotSold
    <2>3. Steady(l, {"no product", "no variant"})
      BY <1>1, <2>2 DEF Steady
    <2>4. [err |-> "ErrProductNotFound", row |-> None] \in Replies
      BY DEF Replies, ServiceErrors, RepositoryErrors
    <2>5. CatalogCode("ErrProductNotFound") = "NotFound"
      BY DEF CatalogCode
    <2> QED BY <1>1, <2>1, <2>3, <2>4, <2>5, ReplyPreserves
  <1>3. CASE products[query[l].product] # None
    <2>1. Goto(l, "variant")
      BY <1>3 DEF ProductExists
    <2>2. now.is # "no product"
      BY <1>3 DEF Truth, NotSold
    <2>3. Steady(l, {"no variant", "mismatch"})
      BY <1>1, <2>2 DEF Steady
    <2> QED BY <1>1, <2>1, <2>3, GotoPreserves
  <1> QED BY <1>2, <1>3

\* The last read tells a missing variant from one of another product.
LEMMA VariantExistsPreserves ==
  ASSUME CatalogInv, NEW l \in Lookups, VariantExists(l)
  PROVE  CatalogInv'
  <1> DEFINE now == Truth(products, variants, query[l])
  <1>1. Open(l) /\ ~Answered(l) /\ now \in held[l] /\ Unsold(l)
        /\ Steady(l, {"no variant", "mismatch"})
    BY DEF CatalogInv, Learned, VariantExists, Open
  <1>2. CASE variants[query[l].variant] = None
    <2>1. Reply(l, "ErrProductVariantNotFound", None)
      BY <1>2 DEF VariantExists
    <2>2. now.is \in {"no product", "no variant"}
      BY <1>2 DEF Truth, NotSold
    <2>3. Steady(l, {"no product", "no variant"})
      BY <1>1, <2>2 DEF Steady
    <2>4. [err |-> "ErrProductVariantNotFound", row |-> None] \in Replies
      BY DEF Replies, ServiceErrors, RepositoryErrors
    <2>5. CatalogCode("ErrProductVariantNotFound") = "NotFound"
      BY DEF CatalogCode
    <2> QED BY <1>1, <2>1, <2>3, <2>4, <2>5, ReplyPreserves
  <1>3. CASE variants[query[l].variant] # None
    <2>1. Reply(l, "ErrProductVariantProductMismatch", None)
      BY <1>3 DEF VariantExists
    <2>2. now.is # "no variant"
      BY <1>3 DEF Truth, NotSold
    <2>3. Steady(l, {"mismatch", "not sellable"})
      BY <1>1, <2>2 DEF Steady
    <2>4. [err |-> "ErrProductVariantProductMismatch", row |-> None] \in Replies
      BY DEF Replies, ServiceErrors, RepositoryErrors
    <2>5. CatalogCode("ErrProductVariantProductMismatch") = "FailedPrecondition"
      BY DEF CatalogCode
    <2> QED BY <1>1, <2>1, <2>3, <2>4, <2>5, ReplyPreserves
  <1> QED BY <1>2, <1>3

\* A failed query is answered as Internal, which says nothing of the pair.
LEMMA QueryFailsPreserves ==
  ASSUME CatalogInv, NEW l \in Lookups, QueryFails(l)
  PROVE  CatalogInv'
  <1>1. Open(l) /\ ~Answered(l) /\ Reply(l, "query failed", None)
    BY DEF CatalogInv, Learned, QueryFails, Open
  <1>2. [err |-> "query failed", row |-> None] \in Replies
    BY DEF Replies, ServiceErrors
  <1>3. CatalogCode("query failed") = "Internal"
    BY DEF CatalogCode
  <1> QED BY <1>1, <1>2, <1>3, ReplyPreserves

\* The client's errors, by the code its caller gets.
LEMMA ClientErrorCodes ==
  ASSUME NEW code \in {"NotFound", "FailedPrecondition", "Internal", "Unavailable",
                       "DeadlineExceeded", "Canceled"},
         NEW words
  PROVE  /\ ClientError(code, words) \in CatalogErrors
         /\ ClientError(code, words) # "nil"
         /\ code = "NotFound" => GrpcCode(ClientError(code, words)) = "NotFound"
         /\ code = "FailedPrecondition" =>
              GrpcCode(ClientError(code, words)) = "FailedPrecondition"
         /\ code \notin {"NotFound", "FailedPrecondition"} =>
              GrpcCode(ClientError(code, words)) \in {"Unavailable", "Internal"}
  BY DEF ClientError, CatalogErrors, GrpcCode, ArgumentErrors, NotFoundErrors,
         PreconditionErrors

\* The client finds nothing wrong in a row the service lets through.
LEMMA QuotableFields ==
  ASSUME NEW row \in QuotableRow
  PROVE  /\ row.price \in Nat
         /\ ~(~row.named \/ row.price < 0)
  <1>1. row \in VariantRow
    BY RowsAssumption DEF QuotableRow
  <1> QED BY <1>1 DEF QuotableRow, VariantRow

\* The client passes on what the reply says, or finds other ids than it asked for.
LEMMA ReceivePreserves ==
  ASSUME CatalogInv, NEW l \in Lookups, Receive(l)
  PROVE  CatalogInv'
  <1> DEFINE a == reply[l]
             checked == ResponseError(query[l], a.row)
             code == CatalogCode(a.err)
  <1>1. ReplyJustified(l)
    BY DEF CatalogInv, Learned, Receive
  <1>2. a \in Replies
    BY <1>1 DEF ReplyJustified
  <1>3. CASE a.err = "nil"
    <2>1. a.row.price \in Nat /\ ~(~a.row.named \/ a.row.price < 0)
      <3>1. a.row \in QuotableRow
        BY <1>2, <1>3 DEF Replies, ServiceErrors, RepositoryErrors
      <3> QED BY <3>1, QuotableFields
    <2>2. Return(l, checked, IF checked = "nil" THEN a.row.price ELSE None)
      BY <1>3 DEF Receive
    <2>3. [is |-> "sellable", price |-> a.row.price] \in held[l]
      BY <1>1, <1>3 DEF ReplyJustified
    <2>4. query[l].exact \in BOOLEAN
      BY DEF CatalogInv, TypeOK, Query
    <2>5. /\ query[l].exact => checked = "nil"
          /\ ~query[l].exact => checked = "ErrProductVariantMismatch"
      <3> HIDE DEF a
      <3> QED BY <2>1 DEF ResponseError
    <2> HIDE DEF checked, a
    <2>6. CASE query[l].exact
      <3>1. [err |-> "nil", price |-> a.row.price] \in Outcomes
        BY <2>1 DEF Outcomes
      <3>2. GrpcCode("nil") = "OK"
        BY DEF GrpcCode, ArgumentErrors, NotFoundErrors, PreconditionErrors
      <3>3. Return(l, "nil", a.row.price)
        BY <2>2, <2>5, <2>6
      <3> QED BY <2>3, <3>1, <3>2, <3>3, ReturnPreserves
    <2>7. CASE ~query[l].exact
      <3>1. [err |-> "ErrProductVariantMismatch", price |-> None] \in Outcomes
        BY DEF Outcomes, CatalogErrors
      <3>2. Return(l, "ErrProductVariantMismatch", None)
        BY <2>2, <2>5, <2>7
      <3> QED BY <2>7, <3>1, <3>2, ReturnPreserves
    <2> QED BY <2>6, <2>7
  <1>4. CASE a.err # "nil"
    <2> DEFINE e == ClientError(code, Words(a.err))
    <2>1. Return(l, e, None)
      BY <1>4 DEF Receive
    <2>2. a.err \in ServiceErrors
      BY <1>2, <1>4 DEF Replies
    <2>3. code \in {"NotFound", "FailedPrecondition", "Internal"}
      BY <2>2 DEF CatalogCode, ServiceErrors, RepositoryErrors
    <2>4. code \in {"NotFound", "FailedPrecondition"} => Unsold(l)
      BY <1>1 DEF ReplyJustified
    <2> HIDE DEF code
    <2>5. /\ e \in CatalogErrors /\ e # "nil"
          /\ code = "NotFound" => GrpcCode(e) = "NotFound"
          /\ code = "FailedPrecondition" => GrpcCode(e) = "FailedPrecondition"
          /\ code = "Internal" => GrpcCode(e) \in {"Unavailable", "Internal"}
      BY <2>3, ClientErrorCodes
    <2> HIDE DEF e
    <2>6. [err |-> e, price |-> None] \in Outcomes
      BY <2>5 DEF Outcomes
    <2>7. GrpcCode(e) \in {"NotFound", "FailedPrecondition"} => Unsold(l)
      BY <2>3, <2>4, <2>5
    <2> QED BY <2>1, <2>5, <2>6, <2>7, ReturnPreserves
  <1> QED BY <1>3, <1>4

\* A deadline or a broken connection says nothing of the pair.
LEMMA GivingUpPreserves ==
  ASSUME CatalogInv, NEW l \in Lookups,
         NEW code \in {"Unavailable", "DeadlineExceeded", "Canceled"},
         Return(l, ClientError(code, {}), None)
  PROVE  CatalogInv'
  <1> DEFINE e == ClientError(code, {})
  <1>1. e \in CatalogErrors /\ e # "nil" /\ GrpcCode(e) \in {"Unavailable", "Internal"}
    BY ClientErrorCodes
  <1> HIDE DEF e
  <1>2. [err |-> e, price |-> None] \in Outcomes
    BY <1>1 DEF Outcomes
  <1>3. Return(l, e, None)
    BY DEF e
  <1> QED BY <1>1, <1>2, <1>3, ReturnPreserves

\* A call starts with what is true of its pair now.
LEMMA CallPreserves ==
  ASSUME CatalogInv, NEW l \in Lookups, Call(l)
  PROVE  CatalogInv'
  <1> USE DEF Call, tables
  <1>1. Truth(products, variants, query[l]) \in Truths
    BY TruthType DEF CatalogInv, TypeOK
  <1>2. TypeOK'
    BY <1>1 DEF CatalogInv, TypeOK, Steps
  <1>3. /\ pc'[l] = "join" /\ held'[l] = {Truth(products, variants, query[l])}
        /\ \A m \in Lookups \ {l} : pc'[m] = pc[m] /\ held'[m] = held[m]
    BY DEF CatalogInv, TypeOK
  <1>4. ~Answered(l)
    BY DEF CatalogInv, Learned
  <1>5. ASSUME NEW m \in Lookups PROVE Learned(m)'
    <2>1. CASE m = l
      BY <1>3, <1>4, <2>1 DEF Learned, Open, Answered, Truth
    <2>2. CASE m # l
      BY <1>3, <2>2, LearnedFrame DEF CatalogInv
    <2> QED BY <2>1, <2>2
  <1>6. \A m \in Lookups : Answered(m)' => Answered(m) /\ held'[m] = held[m]
    BY <1>3, <1>4 DEF Answered
  <1>7. AcceptedWasSellable' /\ RefusalHadCause'
    BY <1>6 DEF CatalogInv, AcceptedWasSellable, RefusalHadCause, Answered, Code
  <1> QED BY <1>2, <1>5, <1>7 DEF CatalogInv

\* Whatever other programs store, a call in progress remembers what was true, and
\* if nothing has changed in the end, nothing had changed before.
LEMMA MaintainPreserves ==
  ASSUME CatalogInv, Maintain
  PROVE  CatalogInv'
  <1> USE DEF Maintain
  <1> DEFINE now(l) == Truth(products', variants', query[l])
  <1>1. ASSUME NEW l \in Lookups PROVE now(l) \in Truths
    BY TruthType DEF CatalogInv, TypeOK
  <1> HIDE DEF now
  <1>2. held' = [l \in Lookups |-> IF Open(l) THEN held[l] \cup {now(l)} ELSE held[l]]
    BY DEF now
  <1>3. TypeOK'
    <2>1. held' \in [Lookups -> SUBSET Truths]
      BY <1>1, <1>2 DEF CatalogInv, TypeOK
    <2>2. edits' \in 0 .. MaxEdits
      BY EditsAssumption DEF CatalogInv, TypeOK
    <2> QED BY <2>1, <2>2 DEF CatalogInv, TypeOK
  <1>4. ASSUME NEW l \in Lookups PROVE Learned(l)'
    <2>1. CASE Open(l)
      <3>1. held'[l] = held[l] \cup {now(l)} /\ held[l] # {} /\ Learned(l)
        BY <1>2, <2>1 DEF CatalogInv, Learned
      <3>2. Unsold(l) => Unsold(l)'
        BY <3>1 DEF Unsold
      <3>3. \A S : Steady(l, S) => Steady(l, S)'
        <4> SUFFICES ASSUME NEW S, Steady(l, S), NEW t \in held'[l], held'[l] = {t}
                     PROVE  t.is \in S
          BY DEF Steady
        <4>1. held[l] = {t}
          BY <3>1
        <4> QED BY <4>1 DEF Steady
      <3>4. ReplyJustified(l) => ReplyJustified(l)'
        BY <3>1, <3>2, <3>3 DEF ReplyJustified
      <3>5. (Truth(products, variants, query[l]) \in held[l])'
        BY <3>1 DEF now
      <3> QED BY <3>1, <3>2, <3>3, <3>4, <3>5 DEF Learned, Open, Answered
    <2>2. CASE ~Open(l)
      <3>1. Learned(l) /\ pc[l] \in {"idle", "done"}
        BY <2>2 DEF CatalogInv, Open
      <3> QED BY <3>1 DEF Learned, Open, Answered
    <2> QED BY <2>1, <2>2
  <1>5. \A l \in Lookups : Answered(l)' => Answered(l) /\ held'[l] = held[l]
    BY <1>2 DEF CatalogInv, Learned, Open, Answered
  <1>6. AcceptedWasSellable' /\ RefusalHadCause'
    BY <1>5 DEF CatalogInv, AcceptedWasSellable, RefusalHadCause, Answered, Code
  <1> QED BY <1>3, <1>4, <1>6 DEF CatalogInv

\* Nothing changes.
LEMMA StutterCatalog == CatalogInv /\ UNCHANGED vars => CatalogInv'
  <1> SUFFICES ASSUME CatalogInv, UNCHANGED vars PROVE CatalogInv' OBVIOUS
  <1> USE DEF vars, tables
  <1>1. TypeOK'
    BY DEF CatalogInv, TypeOK
  <1>2. ASSUME NEW l \in Lookups PROVE Learned(l)'
    BY LearnedFrame DEF CatalogInv
  <1> QED BY <1>1, <1>2, AnswersFrame DEF CatalogInv

\* Every step of the client, the catalog-service and other programs preserves it.
LEMMA StepCatalog == CatalogInv /\ [Next]_vars => CatalogInv'
  <1> SUFFICES ASSUME CatalogInv, [Next]_vars PROVE CatalogInv' OBVIOUS
  <1>1. ASSUME NEW l \in Lookups, Client(l) PROVE CatalogInv'
    <2>1. CASE Call(l) BY <2>1, CallPreserves
    <2>2. CASE Receive(l) BY <2>2, ReceivePreserves
    <2>3. CASE DeadlinePasses(l)
      BY <2>3, GivingUpPreserves DEF DeadlinePasses
    <2>4. CASE CallBreaks(l)
      <3>1. PICK code \in {"Unavailable", "Canceled"} :
              Return(l, ClientError(code, {}), None)
        BY <2>4 DEF CallBreaks
      <3> QED BY <3>1, GivingUpPreserves
    <2> QED BY <1>1, <2>1, <2>2, <2>3, <2>4 DEF Client
  <1>2. ASSUME NEW l \in Lookups, CatalogHandler(l) PROVE CatalogInv'
    BY <1>2, JoinPreserves, JoinMissesPreserves, ProductExistsPreserves,
       VariantExistsPreserves, QueryFailsPreserves DEF CatalogHandler
  <1>3. CASE Maintain
    BY <1>3, MaintainPreserves
  <1>4. CASE UNCHANGED vars
    BY <1>4, StutterCatalog
  <1> QED BY <1>1, <1>2, <1>3, <1>4 DEF Next, Terminated

\* Every reachable state satisfies the inductive invariant.
THEOREM CatalogSafety == Spec => []CatalogInv
  <1> QED BY InitCatalog, StepCatalog, PTL DEF Spec

\* No reply carries a row that cannot be quoted, and the client fails only with the
\* errors BasketService expects of it.
THEOREM CatalogTypes == Spec => []TypeOK
  <1>1. CatalogInv => TypeOK
    BY DEF CatalogInv
  <1> QED BY <1>1, CatalogSafety, PTL

\* A price AddItem goes on with was that of a sellable pair during the call.
THEOREM AcceptedPrices == Spec => []AcceptedWasSellable
  <1>1. CatalogInv => AcceptedWasSellable
    BY DEF CatalogInv
  <1> QED BY <1>1, CatalogSafety, PTL

\* A pair that stays sellable is not refused, whatever else changes.
THEOREM NoGroundlessRefusal == Spec => []RefusalHadCause
  <1>1. CatalogInv => RefusalHadCause
    BY DEF CatalogInv
  <1> QED BY <1>1, CatalogSafety, PTL

\* The code a reply becomes at the client, if nothing about the pair has changed.
LEMMA ReceiveReports ==
  ASSUME CatalogInv, NEW l \in Lookups, Receive(l), query[l].exact,
         reply[l].err # "query failed", NEW t \in held[l], held[l] = {t}
  PROVE  Code(l)' = ExpectedCode(t)
  <1> DEFINE a == reply[l]
             checked == ResponseError(query[l], a.row)
             code == CatalogCode(a.err)
             e == ClientError(code, Words(a.err))
  <1>1. ReplyJustified(l) /\ a \in Replies
    BY DEF CatalogInv, Learned, Receive, ReplyJustified
  <1>2. ASSUME NEW err, NEW price, Return(l, err, price)
        PROVE  Code(l)' = GrpcCode(err)
    BY <1>2 DEF Return, Code, CatalogInv, TypeOK
  <1>3. CASE a.err = "nil"
    <2>1. a.row \in QuotableRow
      BY <1>1, <1>3 DEF Replies, ServiceErrors, RepositoryErrors
    <2>2. ~(~a.row.named \/ a.row.price < 0)
      BY <2>1, QuotableFields
    <2>3. checked = "nil"
      <3> HIDE DEF a
      <3> QED BY <2>2 DEF ResponseError
    <2>4. Return(l, checked, IF checked = "nil" THEN a.row.price ELSE None)
      BY <1>3 DEF Receive
    <2>5. [is |-> "sellable", price |-> a.row.price] = t
      BY <1>1, <1>3 DEF ReplyJustified
    <2>6. ExpectedCode(t) = "OK"
      <3>1. t.is = "sellable"
        BY <2>5
      <3> QED BY <3>1 DEF ExpectedCode
    <2>7. GrpcCode("nil") = "OK"
      BY DEF GrpcCode, ArgumentErrors, NotFoundErrors, PreconditionErrors
    <2> HIDE DEF checked, a
    <2> QED BY <1>2, <2>3, <2>4, <2>6, <2>7
  <1>4. CASE a.err # "nil"
    <2>1. Return(l, e, None)
      BY <1>4 DEF Receive
    <2>2. a.err \in ServiceErrors \ {"query failed"}
      BY <1>1, <1>4 DEF Replies
    <2>3. \/ code = "NotFound" /\ t.is \in {"no product", "no variant"}
          \/ code = "FailedPrecondition" /\ t.is \in {"mismatch", "not sellable"}
          \/ code = "Internal" /\ t.is = "incomplete"
      BY <1>1, <2>2 DEF ReplyJustified, Steady, CatalogCode, ServiceErrors,
                        RepositoryErrors
    <2> HIDE DEF code
    <2>4. /\ code = "NotFound" => GrpcCode(e) = "NotFound"
          /\ code = "FailedPrecondition" => GrpcCode(e) = "FailedPrecondition"
          /\ code = "Internal" => GrpcCode(e) = "Internal"
      BY DEF ClientError, GrpcCode, ArgumentErrors, NotFoundErrors, PreconditionErrors
    <2>5. GrpcCode(e) = ExpectedCode(t)
      BY <2>3, <2>4 DEF ExpectedCode
    <2> HIDE DEF e
    <2> QED BY <1>2, <2>1, <2>5
  <1> QED BY <1>3, <1>4

\* A pair about which nothing changes gets the documented code from every reply,
\* unless a query failed.
THEOREM SteadyPairsReported == Spec => SteadyCauseReported
  <1>1. CatalogInv /\ [Next]_vars =>
          [\A l \in Lookups :
             Receive(l) /\ query[l].exact /\ reply[l].err # "query failed" =>
               \A t \in held[l] : held[l] = {t} => Code(l)' = ExpectedCode(t)]_vars
    BY ReceiveReports
  <1> QED BY <1>1, CatalogSafety, PTL DEF Spec, SteadyCauseReported
=============================================================================
