------------------------------ MODULE ShopProofs ------------------------------
(***************************************************************************)
(* Proofs about the two services together.  First what the steps of one    *)
(* catalog call establish, while other programs change the catalog; from   *)
(* that, that the two behave as BasketService alone, so that all that is   *)
(* proved of it holds here; and from both, what prices and refusals        *)
(* callers see.                                                            *)
(***************************************************************************)
EXTENDS BasketWithCatalog, BasketAnswerProofs

(***************************************************************************)
(* One catalog call.                                                       *)
(***************************************************************************)
\* What has been established of a call stays so while nothing of it changes.
LEMMA EstablishedFrame ==
  ASSUME NEW r \in Requests, Established(r), UNCHANGED <<products, variants, cmd>>,
         catalogPc'[r] = catalogPc[r], reply'[r] = reply[r], outcome'[r] = outcome[r],
         held'[r] = held[r]
  PROVE  Established(r)'
  BY DEF Established, ReplyGrounded, OutcomeGrounded, Catalog!Open, Catalog!Unsold

\* A step of one call leaves the other calls alone.
LEMMA OneCall ==
  ASSUME CallInv, NEW r \in Requests, UNCHANGED <<products, variants, cmd>>,
         DOMAIN catalogPc' = Requests, DOMAIN reply' = Requests,
         DOMAIN outcome' = Requests, DOMAIN held' = Requests,
         \A s \in Requests \ {r} :
           /\ catalogPc'[s] = catalogPc[s] /\ reply'[s] = reply[s]
           /\ outcome'[s] = outcome[s] /\ held'[s] = held[s],
         Established(r)'
  PROVE  CallInv'
  <1>1. ASSUME NEW s \in Requests, s # r PROVE Established(s)'
    BY <1>1, EstablishedFrame DEF CallInv
  <1> QED BY <1>1 DEF CallInv

\* What is true of a pair that is sold, and of one that is not.
LEMMA TruthIs ==
  ASSUME NEW ps, NEW vs, NEW q
  PROVE  LET p == ps[q.product]
             v == vs[q.variant]
         IN  /\ p = None => Catalog!Truth(ps, vs, q).is # "sellable"
             /\ v = None => Catalog!Truth(ps, vs, q).is # "sellable"
             /\ v.product # q.product => Catalog!Truth(ps, vs, q).is # "sellable"
             /\ p # None /\ v # None /\ v.product = q.product =>
                  /\ Catalog!SnapshotError(p, v) = "nil" =>
                       Catalog!Truth(ps, vs, q) = Sellable(v.price)
                  /\ Catalog!SnapshotError(p, v) \in
                       {"ErrProductNotSellable", "ErrProductVariantNotSellable"} =>
                       Catalog!Truth(ps, vs, q).is # "sellable"
  BY DEF Catalog!Truth, Catalog!NotSold, Catalog!SnapshotError, Sellable

\* A call starts with what is true of its pair now.
LEMMA CallEstablishes ==
  ASSUME CallInv, NEW r \in Requests, Catalog!Call(r), UNCHANGED cmd
  PROVE  CallInv'
  <1>1. /\ catalogPc[r] = "idle" /\ catalogPc'[r] = "join"
        /\ held'[r] = {Catalog!Truth(products, variants, cmd[r].variant)}
        /\ UNCHANGED <<products, variants, reply, outcome>>
    BY DEF Catalog!Call, Catalog!tables, CallInv
  <1>2. outcome[r] = None
    BY <1>1 DEF CallInv, Established, OutcomeGrounded
  <1>3. Established(r)'
    BY <1>1, <1>2 DEF Established
  <1> QED BY <1>1, <1>3, OneCall DEF Catalog!Call, Catalog!tables, CallInv

\* A miss sends the handler on to the next question.
LEMMA GotoEstablishes ==
  ASSUME CallInv, NEW r \in Requests, NEW step \in {"product", "variant"},
         Catalog!Open(r), Catalog!Unsold(r), Catalog!Goto(r, step), UNCHANGED cmd
  PROVE  CallInv'
  <1>1. /\ catalogPc'[r] = step
        /\ UNCHANGED <<products, variants, reply, outcome, held>>
    BY DEF Catalog!Goto, Catalog!tables, CallInv
  <1>2. outcome[r] = None /\ Catalog!Truth(products, variants, cmd[r].variant) \in held[r]
    BY DEF CallInv, Established, OutcomeGrounded, Catalog!Open
  <1>3. Established(r)'
    BY <1>1, <1>2 DEF Established, Catalog!Open, Catalog!Unsold
  <1> QED BY <1>1, <1>3, OneCall DEF Catalog!Goto, Catalog!tables, CallInv

\* A reply is sent with its grounds.
LEMMA ReplyEstablishes ==
  ASSUME CallInv, NEW r \in Requests, NEW err, NEW row,
         Catalog!Open(r), Catalog!Reply(r, err, row), UNCHANGED cmd,
         err \in {"nil"} \cup Catalog!ServiceErrors,
         err = "nil" => Sellable(row.price) \in held[r],
         Catalog!CatalogCode(err) \in {"NotFound", "FailedPrecondition"} =>
           Catalog!Unsold(r)
  PROVE  CallInv'
  <1>1. /\ catalogPc'[r] = "replied" /\ reply'[r].err = err /\ reply'[r].row = row
        /\ UNCHANGED <<products, variants, outcome, held>>
    BY DEF Catalog!Reply, Catalog!tables, CallInv
  <1>2. outcome[r] = None /\ Catalog!Truth(products, variants, cmd[r].variant) \in held[r]
    BY DEF CallInv, Established, OutcomeGrounded, Catalog!Open
  <1>3. ReplyGrounded(r)'
    BY <1>1 DEF ReplyGrounded, Catalog!Unsold, Catalog!ServiceErrors,
       Catalog!RepositoryErrors, Sellable, Catalog!CatalogCode
  <1>4. Established(r)'
    BY <1>1, <1>2, <1>3 DEF Established
  <1> QED BY <1>1, <1>4, OneCall DEF Catalog!Reply, Catalog!tables, CallInv

\* The client returns an answer with its grounds.
LEMMA ReturnEstablishes ==
  ASSUME CallInv, NEW r \in Requests, NEW err, NEW price,
         Catalog!Return(r, err, price), UNCHANGED cmd,
         err \in {"nil"} \cup CatalogErrors,
         err = "nil" => Sellable(price) \in held[r],
         err \in CatalogRefusals => ~cmd[r].variant.exact \/ Catalog!Unsold(r)
  PROVE  CallInv'
  <1>1. /\ catalogPc'[r] = "done" /\ outcome'[r].err = err /\ outcome'[r].price = price
        /\ UNCHANGED <<products, variants, reply, held>>
    BY DEF Catalog!Return, Catalog!tables, CallInv
  <1>2. OutcomeGrounded(r)'
    BY <1>1 DEF OutcomeGrounded, Catalog!Unsold, Sellable
  <1>3. Established(r)'
    BY <1>1, <1>2 DEF Established, Catalog!Open
  <1> QED BY <1>1, <1>3, OneCall DEF Catalog!Return, Catalog!tables, CallInv

(***************************************************************************)
(* The statements of the catalog-service and of the client.                *)
(***************************************************************************)
\* The joined rows are the grounds of what is made of them.
LEMMA JoinEstablishes ==
  ASSUME CallInv, NEW r \in Requests, Catalog!Join(r), UNCHANGED cmd
  PROVE  CallInv'
  <1> DEFINE q == cmd[r].variant
             p == products[q.product]
             v == variants[q.variant]
             err == Catalog!SnapshotError(p, v)
             now == Catalog!Truth(products, variants, q)
  <1>1. /\ p # None /\ v # None /\ v.product = q.product
        /\ Catalog!Reply(r, err, IF err = "nil" THEN v ELSE None)
    BY DEF Catalog!Join, Catalog!Joined
  <1>2. Catalog!Open(r) /\ now \in held[r]
    BY DEF Catalog!Join, Catalog!Open, CallInv, Established
  <1>3. /\ err = "nil" => now = Sellable(v.price)
        /\ err \in {"ErrProductNotSellable", "ErrProductVariantNotSellable"} =>
             now.is # "sellable"
    BY <1>1, TruthIs
  <1>4. err \in {"nil", "invalid snapshot", "ErrProductNotSellable",
                 "ErrProductVariantNotSellable"}
    BY DEF Catalog!SnapshotError
  <1> HIDE DEF p, v, err, now
  <1>5. err \in {"nil"} \cup Catalog!ServiceErrors
    BY <1>4 DEF Catalog!ServiceErrors
  <1>6. Catalog!CatalogCode(err) \in {"NotFound", "FailedPrecondition"} =>
          err \in {"ErrProductNotSellable", "ErrProductVariantNotSellable"}
    BY <1>4 DEF Catalog!CatalogCode
  <1>7. Catalog!CatalogCode(err) \in {"NotFound", "FailedPrecondition"} => Catalog!Unsold(r)
    BY <1>2, <1>3, <1>6 DEF Catalog!Unsold
  <1> QED BY <1>1, <1>2, <1>3, <1>5, <1>7, ReplyEstablishes

\* So is the lack of a joined row: the pair is not sold at that moment.
LEMMA MissEstablishes ==
  ASSUME CallInv, NEW r \in Requests, UNCHANGED cmd,
         Catalog!JoinMisses(r) \/ Catalog!ProductExists(r) \/ Catalog!VariantExists(r)
         \/ Catalog!QueryFails(r)
  PROVE  CallInv'
  <1>1. Catalog!Open(r)
    BY DEF Catalog!JoinMisses, Catalog!ProductExists, Catalog!VariantExists,
       Catalog!QueryFails, Catalog!Open
  <1>2. CASE Catalog!JoinMisses(r)
    <2> DEFINE now == Catalog!Truth(products, variants, cmd[r].variant)
    <2>1. now \in held[r]
      BY <1>1 DEF CallInv, Established
    <2>2. now.is # "sellable"
      BY <1>2, TruthIs DEF Catalog!JoinMisses, Catalog!Joined
    <2>3. Catalog!Unsold(r)
      BY <2>1, <2>2 DEF Catalog!Unsold
    <2> QED BY <1>1, <1>2, <2>3, GotoEstablishes DEF Catalog!JoinMisses
  <1>3. CASE Catalog!ProductExists(r)
    <2>1. Catalog!Unsold(r)
      BY <1>3 DEF Catalog!ProductExists, CallInv, Established
    <2>2. "ErrProductNotFound" \in Catalog!ServiceErrors
      BY DEF Catalog!ServiceErrors, Catalog!RepositoryErrors
    <2> QED BY <1>1, <1>3, <2>1, <2>2, GotoEstablishes, ReplyEstablishes
        DEF Catalog!ProductExists
  <1>4. CASE Catalog!VariantExists(r)
    <2>1. Catalog!Unsold(r)
      BY <1>4 DEF Catalog!VariantExists, CallInv, Established
    <2>2. {"ErrProductVariantNotFound", "ErrProductVariantProductMismatch"}
            \subseteq Catalog!ServiceErrors
      BY DEF Catalog!ServiceErrors, Catalog!RepositoryErrors
    <2> QED BY <1>1, <1>4, <2>1, <2>2, ReplyEstablishes DEF Catalog!VariantExists
  <1>5. CASE Catalog!QueryFails(r)
    <2>1. "query failed" \in Catalog!ServiceErrors
      BY DEF Catalog!ServiceErrors
    <2>2. Catalog!CatalogCode("query failed") = "Internal"
      BY DEF Catalog!CatalogCode
    <2> QED BY <1>1, <1>5, <2>1, <2>2, ReplyEstablishes DEF Catalog!QueryFails
  <1> QED BY <1>2, <1>3, <1>4, <1>5

\* The client's errors are those AddItem knows; which of them are refusals.
LEMMA ClientErrors ==
  ASSUME NEW code \in {"NotFound", "FailedPrecondition", "Internal", "Unavailable",
                       "DeadlineExceeded", "Canceled"},
         NEW words
  PROVE  /\ Catalog!ClientError(code, words) \in CatalogErrors
         /\ Catalog!ClientError(code, words) # "nil"
         /\ code \notin {"NotFound", "FailedPrecondition"} =>
              Catalog!ClientError(code, words) \notin CatalogRefusals
  BY DEF Catalog!ClientError, CatalogErrors, CatalogRefusals

\* The client passes on what it was answered, unless it spelled the pair otherwise.
LEMMA ReceiveEstablishes ==
  ASSUME CallInv, NEW r \in Requests, Catalog!Receive(r), UNCHANGED cmd
  PROVE  CallInv'
  <1> DEFINE a == reply[r]
             checked == Catalog!ResponseError(cmd[r].variant, a.row)
             code == Catalog!CatalogCode(a.err)
             e == Catalog!ClientError(code, Catalog!Words(a.err))
  <1>1. /\ a.err \in {"nil"} \cup Catalog!ServiceErrors
        /\ a.err = "nil" => Sellable(a.row.price) \in held[r]
        /\ code \in {"NotFound", "FailedPrecondition"} => Catalog!Unsold(r)
    BY DEF Catalog!Receive, CallInv, Established, ReplyGrounded
  <1>2. /\ checked \in {"nil", "ErrProductVariantMismatch", "catalog validation failed"}
        /\ checked = "ErrProductVariantMismatch" => ~cmd[r].variant.exact
    BY DEF Catalog!ResponseError
  <1>3. /\ a.err = "nil" =>
             Catalog!Return(r, checked, IF checked = "nil" THEN a.row.price ELSE None)
        /\ a.err # "nil" => Catalog!Return(r, e, None)
    BY DEF Catalog!Receive
  <1>4. a.err \in Catalog!ServiceErrors => code \in {"NotFound", "FailedPrecondition", "Internal"}
    BY DEF Catalog!CatalogCode, Catalog!ServiceErrors, Catalog!RepositoryErrors
  <1> HIDE DEF checked, code
  <1>5. CASE a.err = "nil"
    <2>1. checked \in {"nil"} \cup CatalogErrors
      BY <1>2 DEF CatalogErrors
    <2>2. checked \in CatalogRefusals => ~cmd[r].variant.exact
      BY <1>2 DEF CatalogRefusals
    <2> QED BY <1>1, <1>3, <1>5, <2>1, <2>2, ReturnEstablishes
  <1>6. CASE a.err # "nil"
    <2>1. /\ e \in CatalogErrors /\ e # "nil"
          /\ e \in CatalogRefusals => code \in {"NotFound", "FailedPrecondition"}
      BY <1>1, <1>4, <1>6, ClientErrors
    <2> HIDE DEF e
    <2> QED BY <1>1, <1>3, <1>6, <2>1, ReturnEstablishes
  <1> QED BY <1>5, <1>6

\* The timer and a broken connection end the call; they are no refusals.
LEMMA GivingUpEstablishes ==
  ASSUME CallInv, NEW r \in Requests, UNCHANGED cmd,
         Catalog!DeadlinePasses(r) \/ Catalog!CallBreaks(r)
  PROVE  CallInv'
  <1>1. PICK code \in {"DeadlineExceeded", "Unavailable", "Canceled"} :
          Catalog!Return(r, Catalog!ClientError(code, {}), None)
    BY DEF Catalog!DeadlinePasses, Catalog!CallBreaks
  <1> DEFINE e == Catalog!ClientError(code, {})
  <1>2. e \in CatalogErrors /\ e # "nil" /\ e \notin CatalogRefusals
    BY ClientErrors
  <1> HIDE DEF e
  <1>3. Catalog!Return(r, e, None)
    BY <1>1 DEF e
  <1> QED BY <1>2, <1>3, ReturnEstablishes

\* Whatever other programs store, an open call remembers what was true before and
\* what is true now.
LEMMA MaintainEstablishes ==
  ASSUME CallInv, Catalog!Maintain, UNCHANGED cmd
  PROVE  CallInv'
  <1>1. UNCHANGED <<catalogPc, reply, outcome>>
    BY DEF Catalog!Maintain
  <1>2. /\ DOMAIN held' = Requests
        /\ \A r \in Requests :
             held'[r] = IF Catalog!Open(r)
                          THEN held[r] \cup
                                 {Catalog!Truth(products', variants', cmd[r].variant)}
                          ELSE held[r]
    BY DEF Catalog!Maintain
  <1>3. ASSUME NEW r \in Requests PROVE Established(r)'
    <2>1. held[r] \subseteq held'[r]
      BY <1>2
    <2>2. Catalog!Unsold(r) => Catalog!Unsold(r)'
      BY <2>1 DEF Catalog!Unsold
    <2>3. Catalog!Open(r)' =>
            Catalog!Truth(products', variants', cmd[r].variant) \in held'[r]
      BY <1>1, <1>2 DEF Catalog!Open
    <2>4. ReplyGrounded(r) => ReplyGrounded(r)'
      BY <1>1, <2>1, <2>2 DEF ReplyGrounded, Sellable
    <2>5. OutcomeGrounded(r) => OutcomeGrounded(r)'
      BY <1>1, <2>1, <2>2 DEF OutcomeGrounded, Sellable
    <2> QED BY <1>1, <2>2, <2>3, <2>4, <2>5 DEF CallInv, Established
  <1> QED BY <1>1, <1>2, <1>3 DEF CallInv

(***************************************************************************)
(* The two services behave as BasketService does alone.                    *)
(***************************************************************************)
\* No step changes a command that was sent.
LEMMA CommandsStay == [Next]_vars => UNCHANGED cmd
  <1> USE DEF vars, database, locals, Fail
  <1>1. ASSUME NEW r \in Requests, Handler(r) PROVE UNCHANGED cmd
    <2>1. CASE Reject(r) \/ InsertBasket(r) \/ InsertBasketDuplicate(r) \/ LoadRow(r)
               \/ LoadItems(r) \/ Precheck(r) \/ CatalogQuotes(r) \/ CatalogRefuses(r)
      BY <2>1 DEF Reject, InsertBasket, InsertBasketRow, InsertBasketDuplicate, LoadRow,
         LoadItems, Precheck, CatalogQuotes, CatalogRefuses
    <2>2. CASE BeginTx(r) \/ LockBasket(r) \/ LockBasketRefused(r) \/ FindItem(r)
               \/ LockItem(r) \/ InsertItem(r) \/ InsertCollides(r)
      BY <2>2 DEF BeginTx, LockBasket, LockBasketRefused, FindItem, LockItem, InsertItem,
         InsertCollides
    <2>3. CASE UpdateExistingItem(r) \/ UpdateQuantity(r) \/ DeleteItem(r) \/ DeleteItems(r)
               \/ TouchBasket(r) \/ Commit(r) \/ ReportLostAck(r)
      BY <2>3 DEF UpdateExistingItem, UpdateQuantity, DeleteItem, DeleteItems, TouchBasket,
         Commit, CommitTx, ReportLostAck
    <2> QED BY <1>1, <2>1, <2>2, <2>3 DEF Handler
  <1>2. ASSUME NEW r \in Requests, Accept(r) \/ StatementFails(r) \/ CommitAckLost(r)
        PROVE  UNCHANGED cmd
    BY <1>2 DEF Accept, StatementFails, CommitAckLost, InsertBasketRow, CommitTx
  <1>3. ASSUME (\E b \in Baskets : LeaveActive(b)) \/ Crash \/ UNCHANGED vars
        PROVE  UNCHANGED cmd
    BY <1>3 DEF LeaveActive, Crash
  <1> QED BY <1>1, <1>2, <1>3 DEF Next, Terminated

\* AddItem goes on only with answers BasketService knows.
LEMMA StepServes ==
  ASSUME CallInv, [ShopNext]_allVars
  PROVE  [Next]_vars
  <1>1. ASSUME NEW r \in Requests, BasketStep(r) PROVE Next
    BY <1>1 DEF BasketStep, Next
  <1>2. ASSUME NEW r \in Requests, AskCatalog(r) \/ Await(r) \/ Deadline(r)
        PROVE  UNCHANGED vars
    BY <1>2 DEF AskCatalog, Await, Deadline
  <1>3. ASSUME NEW r \in Requests, TakeQuote(r) PROVE Next
    BY <1>3 DEF TakeQuote, Next, Handler
  <1>4. ASSUME NEW r \in Requests, GiveUp(r) PROVE Next
    <2>1. outcome[r].err \in CatalogErrors
      BY <1>4 DEF GiveUp, CallInv, Established, OutcomeGrounded
    <2>2. CatalogRefuses(r)
      BY <1>4, <2>1 DEF GiveUp, CatalogRefuses
    <2> QED BY <2>2 DEF Next, Handler
  <1>5. CatalogStep => UNCHANGED vars
    BY DEF CatalogStep
  <1>6. BasketEvent => Next
    BY DEF BasketEvent, Next
  <1>7. UNCHANGED allVars => UNCHANGED vars
    BY DEF allVars
  <1> QED BY <1>1, <1>2, <1>3, <1>4, <1>5, <1>6, <1>7 DEF ShopNext, AddItemStep

\* Nothing of a catalog call changes at the steps of the basket-service.
LEMMA CallStays ==
  ASSUME CallInv, UNCHANGED <<catalogVars, cmd>>
  PROVE  CallInv'
  <1>1. UNCHANGED <<products, variants, catalogPc, reply, outcome, held>>
    BY DEF catalogVars
  <1> QED BY <1>1, EstablishedFrame DEF CallInv

LEMMA InitCall == ShopInit => CallInv
  <1> SUFFICES ASSUME ShopInit PROVE CallInv OBVIOUS
  <1>1. /\ catalogPc = [r \in Requests |-> "idle"] /\ reply = [r \in Requests |-> None]
        /\ outcome = [r \in Requests |-> None] /\ held = [r \in Requests |-> {}]
    BY DEF ShopInit, Catalog!Init
  <1> QED BY <1>1 DEF CallInv, Established, Catalog!Open

LEMMA StepCall ==
  ASSUME CallInv, [ShopNext]_allVars
  PROVE  CallInv'
  <1>1. UNCHANGED cmd
    BY StepServes, CommandsStay
  <1>2. ASSUME NEW r \in Requests, BasketStep(r) \/ TakeQuote(r) \/ GiveUp(r)
        PROVE  CallInv'
    BY <1>1, <1>2, CallStays DEF BasketStep, TakeQuote, GiveUp
  <1>3. ASSUME NEW r \in Requests, AskCatalog(r) \/ Await(r) \/ Deadline(r)
        PROVE  CallInv'
    BY <1>1, <1>3, CallEstablishes, ReceiveEstablishes, GivingUpEstablishes
    DEF AskCatalog, Await, Deadline
  <1>4. CASE CatalogStep
    <2>1. CASE Catalog!Maintain
      BY <1>1, <2>1, MaintainEstablishes
    <2>2. ASSUME NEW r \in Requests, Catalog!CatalogHandler(r) PROVE CallInv'
      BY <1>1, <2>2, JoinEstablishes, MissEstablishes DEF Catalog!CatalogHandler
    <2> QED BY <1>4, <2>1, <2>2 DEF CatalogStep
  <1>5. CASE BasketEvent \/ UNCHANGED allVars
    BY <1>1, <1>5, CallStays DEF BasketEvent, allVars
  <1> QED BY <1>2, <1>3, <1>4, <1>5 DEF ShopNext, AddItemStep

\* The catalog-service and the client establish the grounds of what they answer.
THEOREM CallsEstablish == ShopSpec => []CallInv
  <1> QED BY InitCall, StepCall, PTL DEF ShopSpec

\* The catalog-service with its client is the catalog that BasketService, and all
\* that is proved of it, takes for granted.
THEOREM BasketsServed == ShopSpec => ServesBaskets
  <1>1. ShopInit => Init
    BY DEF ShopInit
  <1>2. CallInv /\ [ShopNext]_allVars => [Next]_vars
    BY StepServes
  <1> QED BY <1>1, <1>2, CallsEstablish, PTL DEF ShopSpec, ServesBaskets, Spec

\* The two services together keep the promise of the basket-service.
THEOREM ShopKeepsPromise == ShopSpec => KeepsPromise
  <1>1. Spec => KeepsPromise
    BY PromiseKept
  <1> QED BY <1>1, BasketsServed DEF ServesBaskets

(***************************************************************************)
(* What AddItem makes of the answer.                                       *)
(***************************************************************************)
\* What was true during a call is remembered; an answer stays.
LEMMA CallRemembered ==
  ASSUME CallInv, [ShopNext]_allVars, NEW r \in Requests
  PROVE  /\ held[r] \subseteq held'[r] \/ (pc[r] = "catalog" /\ catalogPc[r] = "idle")
         /\ catalogPc[r] = "done" => catalogPc'[r] = "done" /\ outcome'[r] = outcome[r]
  <1>1. ASSUME UNCHANGED catalogVars
        PROVE  held' = held /\ catalogPc' = catalogPc /\ outcome' = outcome
    BY <1>1 DEF catalogVars
  <1>2. ASSUME NEW s \in Requests, BasketStep(s) \/ TakeQuote(s) \/ GiveUp(s)
        PROVE  UNCHANGED catalogVars
    BY <1>2 DEF BasketStep, TakeQuote, GiveUp
  <1>3. BasketEvent \/ UNCHANGED allVars => UNCHANGED catalogVars
    BY DEF BasketEvent, allVars
  <1>4. ASSUME NEW s \in Requests, AskCatalog(s)
        PROVE  /\ pc[s] = "catalog" /\ catalogPc[s] = "idle" /\ outcome' = outcome
               /\ s # r => held'[r] = held[r] /\ catalogPc'[r] = catalogPc[r]
    BY <1>4 DEF AskCatalog, Catalog!Call, CallInv
  <1>5. ASSUME NEW s \in Requests, NEW err, NEW price, Catalog!Return(s, err, price),
               catalogPc[s] # "done"
        PROVE  /\ held' = held
               /\ s # r => outcome'[r] = outcome[r] /\ catalogPc'[r] = catalogPc[r]
    BY <1>5 DEF Catalog!Return, CallInv
  <1>6. ASSUME NEW s \in Requests, Await(s) \/ Deadline(s)
        PROVE  \E err, price : Catalog!Return(s, err, price) /\ catalogPc[s] # "done"
    BY <1>6 DEF Await, Deadline, Catalog!Receive, Catalog!CallBreaks,
       Catalog!DeadlinePasses, Catalog!Open
  <1>7. ASSUME NEW s \in Requests, Catalog!CatalogHandler(s)
        PROVE  /\ held' = held /\ outcome' = outcome /\ catalogPc[s] # "done"
               /\ s # r => catalogPc'[r] = catalogPc[r]
    BY <1>7 DEF Catalog!CatalogHandler, Catalog!Join, Catalog!JoinMisses,
       Catalog!ProductExists, Catalog!VariantExists, Catalog!QueryFails, Catalog!Reply,
       Catalog!Goto, CallInv
  <1>8. ASSUME Catalog!Maintain
        PROVE  held[r] \subseteq held'[r] /\ catalogPc' = catalogPc /\ outcome' = outcome
    BY <1>8 DEF Catalog!Maintain
  <1> QED BY <1>1, <1>2, <1>3, <1>4, <1>5, <1>6, <1>7, <1>8
      DEF ShopNext, AddItemStep, CatalogStep

\* No error of the basket-service's own is taken for a refusal of the catalog.
LEMMA OwnErrors ==
  ASSUME NEW r \in Requests
  PROVE  /\ ArgumentError(cmd[r]) \notin CatalogRefusals
         /\ LockError(r) \notin CatalogRefusals
         /\ {"ErrBasketNotFound", "ErrBasketNotModifiable", "ErrInvalidQuantity",
             "ErrBasketItemNotFound", "ErrCouldNotAllocateItemID", "statement failed",
             "nil", "lost", "pending"} \cap CatalogRefusals = {}
  BY DEF ArgumentError, LockError, CatalogRefusals

\* Only AddItem's call of the catalog sets its quote, or answers with a refusal.
LEMMA HandlerUses ==
  ASSUME SafeInv, NEW s \in Requests, Handler(s), pc[s] # "catalog"
  PROVE  /\ UNCHANGED quote
         /\ \A r \in Requests : result'[r] \in CatalogRefusals => result'[r] = result[r]
  <1> USE DEF locals, database
  <1>1. result \in [Requests -> Errors \cup {"pending", "nil", "lost"}]
    BY DEF SafeInv, TypeInv, TypeOK
  <1>2. ASSUME NEW err, err \notin CatalogRefusals, Fail(s, err)
        PROVE  /\ UNCHANGED quote
               /\ \A r \in Requests : result'[r] \in CatalogRefusals => result'[r] = result[r]
    BY <1>1, <1>2 DEF Fail
  <1>3. CASE Reject(s) \/ InsertBasketDuplicate(s) \/ LockBasketRefused(s) \/ ReportLostAck(s)
    BY <1>2, <1>3, OwnErrors DEF Reject, InsertBasketDuplicate, LockBasketRefused,
       ReportLostAck
  <1>4. CASE LoadRow(s) \/ Precheck(s)
    BY <1>2, <1>4, OwnErrors DEF LoadRow, Precheck
  <1>5. CASE LoadItems(s)
    BY <1>1, <1>5, OwnErrors DEF LoadItems
  <1>6. CASE LockItem(s) \/ InsertCollides(s) \/ UpdateExistingItem(s) \/ DeleteItem(s)
    BY <1>2, <1>6, OwnErrors DEF LockItem, InsertCollides, UpdateExistingItem, DeleteItem
  <1>7. CASE InsertBasket(s) \/ BeginTx(s) \/ LockBasket(s) \/ FindItem(s) \/ InsertItem(s)
             \/ UpdateQuantity(s) \/ DeleteItems(s) \/ TouchBasket(s) \/ Commit(s)
    BY <1>7 DEF InsertBasket, InsertBasketRow, BeginTx, LockBasket, FindItem, InsertItem,
       UpdateQuantity, DeleteItems, TouchBasket, Commit, CommitTx
  <1>8. ~CatalogQuotes(s) /\ ~CatalogRefuses(s)
    BY DEF CatalogQuotes, CatalogRefuses
  <1> QED BY <1>3, <1>4, <1>5, <1>6, <1>7, <1>8 DEF Handler

\* The same of every step but the two that take the client's answer.
LEMMA OthersUse ==
  ASSUME SafeInv, [ShopNext]_allVars,
         ~\E s \in Requests : TakeQuote(s) \/ GiveUp(s)
  PROVE  /\ UNCHANGED quote
         /\ \A r \in Requests : result'[r] \in CatalogRefusals => result'[r] = result[r]
  <1> USE DEF locals, database
  <1>1. result \in [Requests -> Errors \cup {"pending", "nil", "lost"}]
    BY DEF SafeInv, TypeInv, TypeOK
  <1>2. ASSUME NEW s \in Requests, BasketStep(s)
        PROVE  /\ UNCHANGED quote
               /\ \A r \in Requests : result'[r] \in CatalogRefusals => result'[r] = result[r]
    BY <1>2, HandlerUses DEF BasketStep
  <1>3. ASSUME UNCHANGED vars PROVE UNCHANGED <<quote, result>>
    BY <1>3 DEF vars
  <1>4. ASSUME NEW s \in Requests, AskCatalog(s) \/ Await(s) \/ Deadline(s)
        PROVE  UNCHANGED vars
    BY <1>4 DEF AskCatalog, Await, Deadline
  <1>5. CatalogStep \/ UNCHANGED allVars => UNCHANGED vars
    BY DEF CatalogStep, allVars
  <1>6. ASSUME NEW s \in Requests, Accept(s) \/ StatementFails(s) \/ CommitAckLost(s)
        PROVE  /\ UNCHANGED quote
               /\ \A r \in Requests : result'[r] \in CatalogRefusals => result'[r] = result[r]
    BY <1>1, <1>6, OwnErrors DEF Accept, StatementFails, CommitAckLost, CommitTx,
       InsertBasketRow, Fail
  <1>7. ASSUME NEW b \in Baskets, LeaveActive(b) PROVE UNCHANGED <<quote, result>>
    BY <1>7 DEF LeaveActive
  <1>8. ASSUME Crash
        PROVE  /\ UNCHANGED quote
               /\ \A r \in Requests : result'[r] \in CatalogRefusals => result'[r] = result[r]
    BY <1>8, OwnErrors DEF Crash
  <1> QED BY <1>2, <1>3, <1>4, <1>5, <1>6, <1>7, <1>8
      DEF ShopNext, AddItemStep, BasketEvent, Terminated

\* The price AddItem goes on with, and the refusal it answers with, are grounded.
LEMMA StepUses ==
  ASSUME ShopInv, [ShopNext]_allVars, NEW r \in Requests
  PROVE  AnswerUsed(r)'
  <1>1. SafeInv /\ CallInv /\ AnswerUsed(r) /\ Established(r) /\ UNCHANGED cmd
    BY StepServes, CommandsStay DEF ShopInv, AnswerInv, CallInv
  <1>2. /\ quote \in [Requests -> Quote \cup {None}]
        /\ result \in [Requests -> Errors \cup {"pending", "nil", "lost"}]
    BY <1>1 DEF SafeInv, TypeInv, TypeOK
  <1>3. catalogPc[r] = "done" =>
          catalogPc'[r] = "done" /\ outcome'[r] = outcome[r] /\ held[r] \subseteq held'[r]
    BY <1>1, CallRemembered
  <1>4. outcome[r] # None => catalogPc[r] = "done"
    BY <1>1 DEF Established, OutcomeGrounded
  <1>5. ASSUME quote'[r] = quote[r], result'[r] \in CatalogRefusals => result'[r] = result[r]
        PROVE  AnswerUsed(r)'
    BY <1>1, <1>3, <1>4, <1>5 DEF AnswerUsed, Catalog!Unsold, Sellable
  <1>6. ASSUME NEW s \in Requests, TakeQuote(s) PROVE AnswerUsed(r)'
    <2>1. UNCHANGED <<catalogPc, held, outcome, result>>
      BY <1>6 DEF TakeQuote, catalogVars, CatalogQuotes
    <2>2. CASE s = r
      <3>1. OutcomeGrounded(r) /\ Sellable(outcome[r].price) \in held[r]
        BY <1>1, <1>6, <2>2 DEF TakeQuote, Established, OutcomeGrounded
      <3>2. quote'[r].amount = outcome[r].price
        BY <1>6, <2>2 DEF TakeQuote
      <3> QED BY <1>1, <2>1, <3>1, <3>2 DEF AnswerUsed, OutcomeGrounded, Sellable, Catalog!Unsold
    <2>3. CASE s # r
      BY <1>2, <1>5, <1>6, <2>1, <2>3 DEF TakeQuote, CatalogQuotes
    <2> QED BY <2>2, <2>3
  <1>7. ASSUME NEW s \in Requests, GiveUp(s) PROVE AnswerUsed(r)'
    <2>1. UNCHANGED <<catalogPc, held, outcome, quote>>
      BY <1>7 DEF GiveUp, Fail, locals, catalogVars
    <2>2. CASE s = r
      <3>1. OutcomeGrounded(r) /\ outcome[r] # None
        BY <1>1, <1>7, <2>2 DEF GiveUp, Established
      <3>2. result'[r] = outcome[r].err
        BY <1>2, <1>7, <2>2 DEF GiveUp, Fail
      <3> QED BY <1>1, <2>1, <3>1, <3>2 DEF AnswerUsed, OutcomeGrounded, Sellable, Catalog!Unsold
    <2>3. CASE s # r
      BY <1>2, <1>5, <1>7, <2>1, <2>3 DEF GiveUp, Fail
    <2> QED BY <2>2, <2>3
  <1> QED BY <1>1, <1>5, <1>6, <1>7, OthersUse

\* What a request has committed is never forgotten.
LEMMA AppliedGrows ==
  ASSUME SafeInv, [Next]_vars, NEW r \in Requests
  PROVE  applied[r] \subseteq applied'[r]
  <1> USE DEF vars, database, locals, Fail
  <1>1. applied \in [Requests -> SUBSET Nat]
    BY DEF SafeInv, TypeInv, TypeOK
  <1>2. ASSUME NEW s \in Requests, NEW next, CommitTx(s, next) \/ InsertBasketRow(s, next)
        PROVE  applied[r] \subseteq applied'[r]
    BY <1>1, <1>2 DEF CommitTx, InsertBasketRow
  <1>3. ASSUME NEW s \in Requests, Handler(s) PROVE applied[r] \subseteq applied'[r]
    <2>1. CASE Reject(s) \/ InsertBasketDuplicate(s) \/ LoadRow(s) \/ LoadItems(s)
               \/ Precheck(s) \/ CatalogQuotes(s) \/ CatalogRefuses(s)
      BY <2>1 DEF Reject, InsertBasketDuplicate, LoadRow, LoadItems, Precheck,
         CatalogQuotes, CatalogRefuses
    <2>2. CASE BeginTx(s) \/ LockBasket(s) \/ LockBasketRefused(s) \/ FindItem(s)
               \/ LockItem(s) \/ InsertItem(s) \/ InsertCollides(s)
      BY <2>2 DEF BeginTx, LockBasket, LockBasketRefused, FindItem, LockItem, InsertItem,
         InsertCollides
    <2>3. CASE UpdateExistingItem(s) \/ UpdateQuantity(s) \/ DeleteItem(s) \/ DeleteItems(s)
               \/ TouchBasket(s) \/ ReportLostAck(s)
      BY <2>3 DEF UpdateExistingItem, UpdateQuantity, DeleteItem, DeleteItems, TouchBasket,
         ReportLostAck
    <2>4. CASE InsertBasket(s) \/ Commit(s)
      BY <1>2, <2>4 DEF InsertBasket, Commit
    <2> QED BY <1>3, <2>1, <2>2, <2>3, <2>4 DEF Handler
  <1>4. ASSUME NEW s \in Requests, Accept(s) \/ StatementFails(s) \/ CommitAckLost(s)
        PROVE  applied[r] \subseteq applied'[r]
    BY <1>2, <1>4 DEF Accept, StatementFails, CommitAckLost
  <1>5. ASSUME (\E b \in Baskets : LeaveActive(b)) \/ Crash \/ UNCHANGED vars
        PROVE  applied' = applied
    BY <1>5 DEF LeaveActive, Crash
  <1> QED BY <1>3, <1>4, <1>5 DEF Next, Terminated

\* A price that was quoted stays one that was quoted.
LEMMA QuotedStays ==
  ASSUME ShopInv, [ShopNext]_allVars, NEW r \in Requests, NEW x, QuotedTo(r, x)
  PROVE  QuotedTo(r, x)'
  <1>1. SafeInv /\ CallInv /\ Committed(r) /\ UNCHANGED cmd
    BY StepServes, CommandsStay DEF ShopInv, AnswerInv
  <1>2. applied[r] \subseteq applied'[r]
    BY <1>1, StepServes, AppliedGrows
  <1>3. pc[r] # "catalog"
    BY <1>1 DEF QuotedTo, Committed
  <1>4. held[r] \subseteq held'[r]
    BY <1>1, <1>3, CallRemembered
  <1> QED BY <1>1, <1>2, <1>4 DEF QuotedTo, Sellable

\* A line a commit leaves has the basket, pair and price of one that was there, or
\* is of the committing AddItem, at its quote.
LEMMA WrittenPrices ==
  ASSUME SafeInv, NEW r \in Requests, pc[r] = "commit", NEW y \in Written(r)
  PROVE  \/ \E x \in items : x.basket = y.basket /\ x.variant = y.variant /\ x.unit = y.unit
         \/ /\ cmd[r].op = "AddItem" /\ cmd[r].basket = y.basket /\ cmd[r].variant = y.variant
            /\ y.unit = quote[r]
  <1>1. items \subseteq Item /\ IdsUnique(items) /\ ReadIsCurrent(r)
    BY DEF SafeInv, TypeInv, TypeOK, StoredItemsConsistent, LockedReadIsCurrent
  <1>2. CASE Inserts(r) /\ Written(r) = items \cup {InsertedItem(r)}
    BY <1>2 DEF Inserts, InsertedItem
  <1>3. CASE /\ Grows(r)
             /\ Written(r) = {IF x.basket = cmd[r].basket /\ x.id = found[r].id
                                THEN Grown(r, x) ELSE x : x \in items}
    <2>1. PICK x \in items : y = IF x.basket = cmd[r].basket /\ x.id = found[r].id
                                   THEN Grown(r, x) ELSE x
      BY <1>3
    <2>2. CASE x.basket = cmd[r].basket /\ x.id = found[r].id
      <3>1. found[r] \in items /\ found[r].variant = cmd[r].variant
        BY <1>1, <1>3 DEF ReadIsCurrent, SamePair
      <3>2. x = found[r]
        BY <1>1, <2>2, <3>1 DEF IdsUnique
      <3> QED BY <1>1, <1>3, <2>1, <2>2, <3>1, <3>2, GrownFields DEF Grows
    <2>3. CASE ~(x.basket = cmd[r].basket /\ x.id = found[r].id)
      BY <2>1, <2>3
    <2> QED BY <2>2, <2>3
  <1>4. CASE Written(r) = {IF x \in SameId(items, cmd[r])
                             THEN Requantified(r, x) ELSE x : x \in items}
    <2>1. PICK x \in items : y = IF x \in SameId(items, cmd[r])
                                   THEN Requantified(r, x) ELSE x
      BY <1>4
    <2> QED BY <1>1, <2>1, RequantifiedFields
  <1>5. CASE Written(r) = items \ SameId(items, cmd[r])
             \/ Written(r) = items \ ItemsOf(items, cmd[r].basket)
    BY <1>5
  <1> QED BY <1>2, <1>3, <1>4, <1>5, WrittenCases

\* A commit writes only prices that were quoted.
LEMMA StepPrices ==
  ASSUME ShopInv, [ShopNext]_allVars
  PROVE  PricesWereQuoted'
  <1> DEFINE Seeded(x) == \E y \in SeedItems :
               y.basket = x.basket /\ y.variant = x.variant /\ y.unit = x.unit
  <1>1. SafeInv /\ CallInv /\ PricesWereQuoted /\ [Next]_vars /\ UNCHANGED cmd
    BY StepServes, CommandsStay DEF ShopInv, AnswerInv
  <1>2. ASSUME NEW x \in items, NEW y,
               y.basket = x.basket, y.variant = x.variant, y.unit = x.unit
        PROVE  Seeded(y) \/ \E r \in Requests : QuotedTo(r, y)'
    <2>1. Seeded(x) \/ \E r \in Requests : QuotedTo(r, x)
      BY <1>1 DEF PricesWereQuoted
    <2>2. ASSUME NEW r \in Requests, QuotedTo(r, x) PROVE QuotedTo(r, y)'
      <3>1. QuotedTo(r, y)
        BY <1>2, <2>2 DEF QuotedTo
      <3> QED BY <3>1, QuotedStays
    <2> QED BY <1>2, <2>1, <2>2
  <1>3. CASE items' = items
    BY <1>2, <1>3 DEF PricesWereQuoted
  <1>4. CASE items' # items
    <2>1. PICK r \in Requests : \E next \in {"row", "ackLost"} : CommitTx(r, next)
      BY <1>1, <1>4, ItemsChangeByCommit
    <2>2. /\ pc[r] = "commit" /\ items' = Written(r) /\ applied'[r] # {}
      BY <1>1, <2>1 DEF CommitTx, SafeInv, TypeInv, TypeOK
    <2>3. ASSUME NEW y \in items', cmd[r].op = "AddItem", cmd[r].basket = y.basket,
                 cmd[r].variant = y.variant, y.unit = quote[r]
          PROVE  QuotedTo(r, y)'
      <3>1. quote[r] # None
        BY <1>1, <2>2, <2>3 DEF SafeInv, TypeInv, Control, InTransaction
      <3>2. Sellable(quote[r].amount) \in held[r]
        BY <3>1 DEF ShopInv, AnswerUsed
      <3>3. held[r] \subseteq held'[r]
        BY <1>1, <2>2, CallRemembered
      <3> QED BY <1>1, <2>2, <2>3, <3>2, <3>3 DEF QuotedTo, Sellable
    <2>4. ASSUME NEW y \in items'
          PROVE  Seeded(y) \/ \E s \in Requests : QuotedTo(s, y)'
      BY <1>1, <1>2, <2>2, <2>3, <2>4, WrittenPrices
    <2> QED BY <2>4 DEF PricesWereQuoted
  <1> QED BY <1>3, <1>4

(***************************************************************************)
(* The theorems.                                                           *)
(***************************************************************************)
LEMMA InitShop == ShopInit => ShopInv
  <1> SUFFICES ASSUME ShopInit PROVE ShopInv OBVIOUS
  <1>1. CallInv /\ AnswerInv
    BY InitCall, InitAnswers DEF ShopInit
  <1>2. ASSUME NEW r \in Requests PROVE AnswerUsed(r)
    BY DEF ShopInit, Init, AnswerUsed, CatalogRefusals
  <1>3. PricesWereQuoted
    BY DEF ShopInit, Init, PricesWereQuoted
  <1> QED BY <1>1, <1>2, <1>3 DEF ShopInv

\* Every reachable state of the two services satisfies the inductive invariant.
THEOREM ShopSafety == ShopSpec => []ShopInv
  <1>1. ShopInv /\ [ShopNext]_allVars => ShopInv'
    <2> SUFFICES ASSUME ShopInv, [ShopNext]_allVars PROVE ShopInv' OBVIOUS
    <2>1. CallInv' /\ AnswerInv'
      BY StepCall, StepServes, StepAnswers DEF ShopInv
    <2> QED BY <2>1, StepUses, StepPrices DEF ShopInv
  <1> QED BY InitShop, <1>1, PTL DEF ShopSpec

\* However long AddItem has waited, and whatever has changed since, the price it
\* stores is one at which that very pair was for sale while it asked.
THEOREM PricesQuoted == ShopSpec => []PricesWereQuoted
  <1>1. ShopInv => PricesWereQuoted
    BY DEF ShopInv
  <1> QED BY <1>1, ShopSafety, PTL

\* A caller is not turned away from a pair that was for sale all along.
THEOREM RefusalsGrounded == ShopSpec => []RefusedWasUnsold
  <1>1. ShopInv => RefusedWasUnsold
    BY DEF ShopInv, AnswerUsed, RefusedWasUnsold, Catalog!Unsold
  <1> QED BY <1>1, ShopSafety, PTL
==============================================================================
