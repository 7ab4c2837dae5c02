-------------------------- MODULE BasketAnswerProofs --------------------------
(***************************************************************************)
(* Proofs of what the callers of the basket-service are answered.  First   *)
(* the invariant: a request commits once at most, the code tells whether   *)
(* it did, and the basket it is answered with is no older than its own     *)
(* write.  Then the refinement: each step of a handler is a step of        *)
(* BasketSpec or none at all; commits are where commands take effect.      *)
(***************************************************************************)
EXTENDS BasketSafetyProofs

(***************************************************************************)
(* The invariant, request by request.                                      *)
(***************************************************************************)
Told(r) ==
  pc[r] = "done" =>
    /\ Code(r) = "OK" /\ cmd[r].op # "GetBasket" => applied[r] # {}
    /\ Code(r) \in DefiniteCodes => applied[r] = {}
    /\ Code(r) = "OK" => /\ loaded[r].version <= loaded[r].asOf
                         /\ \A v \in applied[r] : v <= loaded[r].version
    /\ Code(r) = "OK" /\ loaded[r].asOf \in applied[r] =>
         ShowsEffect(cmd[r], quote[r], loaded[r].items)

Kept(r) == Committed(r) /\ Told(r)

ItemsInBaskets == \A x \in items : baskets[x.basket] # None

LEMMA Answers1 ==
  ASSUME AnswerInv
  PROVE  SafeInv /\ ItemsInBaskets /\ \A r \in Requests : Kept(r)
  BY DEF AnswerInv, Kept, Told, ItemsInBaskets, AnswerTellsEffect, ReadBackNotStale,
         OwnEffectVisible

LEMMA Answers2 ==
  ASSUME SafeInv', ItemsInBaskets', \A r \in Requests : Kept(r)'
  PROVE  AnswerInv'
  BY DEF AnswerInv, Kept, Told, ItemsInBaskets, AnswerTellsEffect, ReadBackNotStale,
         OwnEffectVisible

\* A row is never taken back, and its items change only with its version.
RowMovesOn(b) ==
  baskets[b] # None =>
    /\ baskets'[b] # None
    /\ \/ baskets'[b].version > baskets[b].version
       \/ /\ baskets'[b].version = baskets[b].version
          /\ ItemsOf(items', b) = ItemsOf(items, b)

\* What a request may rely on outlasts the steps of the others.
LEMMA KeptFrame ==
  ASSUME TypeInv, TypeInv', NEW s \in Requests, Kept(s), cmd'[s] = cmd[s], pc'[s] = pc[s],
         quote'[s] = quote[s], loaded'[s] = loaded[s], result'[s] = result[s],
         applied'[s] = applied[s], RowMovesOn(cmd[s].basket)
  PROVE  Kept(s)'
  <1> DEFINE b == cmd[s].basket
  <1>1. Told(s)'
    BY DEF Kept, Told, Code
  <1>2. CASE baskets[b] = None
    <2>1. applied[s] = {}
      BY <1>2 DEF Kept, Committed
    <2>2. pc[s] # "items"
      BY <1>2 DEF TypeInv, Control
    <2> QED BY <1>1, <2>1, <2>2 DEF Kept, Committed
  <1>3. CASE baskets[b] # None
    <2>1. /\ baskets[b].version \in Nat /\ baskets'[b].version \in Nat
          /\ baskets'[b] # None
      BY <1>3, CommandType DEF TypeInv, TypeOK, BasketRow, RowMovesOn
    <2>2. applied[s] \subseteq Nat
      BY DEF TypeInv, TypeOK
    <2>3. pc[s] = "items" => loaded[s].version \in Nat
      BY DEF TypeInv, TypeOK, Control, LoadedBasket
    <2>4. baskets'[b].version >= baskets[b].version
      BY <1>3, <2>1 DEF RowMovesOn
    <2>5. \A v \in applied[s] :
            baskets'[b] # None /\ v <= baskets'[b].version /\ applied[s] = {v}
      BY <2>1, <2>2, <2>4 DEF Kept, Committed
    <2>6. pc[s] = "items" => /\ loaded[s].version <= baskets'[b].version
                            /\ \A v \in applied[s] : v <= loaded[s].version
      BY <2>1, <2>3, <2>4 DEF Kept, Committed
    <2>7. ASSUME pc[s] \in {"row", "items"}, baskets'[b].version \in applied[s]
          PROVE  ShowsEffect(cmd[s], quote[s], ItemsOf(items', b))
      <3>1. baskets'[b].version <= baskets[b].version
        BY <2>7 DEF Kept, Committed
      <3>2. /\ baskets'[b].version = baskets[b].version
            /\ ItemsOf(items', b) = ItemsOf(items, b)
        BY <1>3, <2>1, <3>1 DEF RowMovesOn
      <3> QED BY <2>7, <3>2 DEF Kept, Committed
    <2>8. Committed(s)'
      <3>1. ShowsEffect(cmd[s], quote[s], ItemsOf(items, cmd[s].basket))'
              <=> ShowsEffect(cmd[s], quote[s], ItemsOf(items', b))
        BY DEF ShowsEffect, SamePair, SameId, ItemsOf
      <3> QED BY <2>5, <2>6, <2>7, <3>1 DEF Kept, Committed
    <2> QED BY <1>1, <2>8 DEF Kept
  <1> QED BY <1>2, <1>3

\* A step of r that changes neither table.
LEMMA LocalKept ==
  ASSUME AnswerInv, SafeInv', NEW r \in Requests, UNCHANGED <<baskets, items, cmd>>,
         \A s \in Requests \ {r} :
           /\ pc'[s] = pc[s] /\ quote'[s] = quote[s] /\ loaded'[s] = loaded[s]
           /\ result'[s] = result[s] /\ applied'[s] = applied[s],
         Kept(r)'
  PROVE  AnswerInv'
  <1>1. ItemsInBaskets'
    BY Answers1 DEF ItemsInBaskets
  <1>2. ASSUME NEW s \in Requests, s # r PROVE Kept(s)'
    <2>1. TypeInv /\ TypeInv'
      BY DEF AnswerInv, SafeInv
    <2>2. RowMovesOn(cmd[s].basket)
      BY DEF RowMovesOn
    <2> QED BY <1>2, <2>1, <2>2, Answers1, KeptFrame
  <1> QED BY <1>1, <1>2, Answers2

\* A step of r before it has committed anything.
LEMMA QuietKept ==
  ASSUME AnswerInv, SafeInv', NEW r \in Requests,
         UNCHANGED <<baskets, items, cmd, applied, result>>,
         \A s \in Requests \ {r} :
           pc'[s] = pc[s] /\ quote'[s] = quote[s] /\ loaded'[s] = loaded[s],
         pc[r] \notin {"row", "items", "ackLost", "done"},
         pc'[r] \notin {"insertBasket", "row", "items", "done"}
  PROVE  AnswerInv'
  <1>1. applied[r] = {}
    BY DEF AnswerInv, Committed
  <1>2. Kept(r)'
    BY <1>1 DEF Kept, Committed, Told
  <1> QED BY <1>2, LocalKept

\* An error return: nothing was committed, or the error leaves it open.
LEMMA FailKept ==
  ASSUME AnswerInv, SafeInv', NEW r \in Requests, NEW err, Fail(r, err),
         GrpcCode(err) # "OK",
         applied[r] = {} \/ GrpcCode(err) \notin DefiniteCodes
  PROVE  AnswerInv'
  <1>1. /\ pc'[r] = "done" /\ result'[r] = err
        /\ UNCHANGED <<baskets, items, cmd, quote, applied>>
        /\ \A s \in Requests \ {r} :
             pc'[s] = pc[s] /\ loaded'[s] = loaded[s] /\ result'[s] = result[s]
    BY DEF Fail, Goto, locals, AnswerInv, SafeInv, TypeInv, TypeOK
  <1>2. Told(r)'
    BY <1>1 DEF Told, Code
  <1>3. Committed(r)'
    BY <1>1 DEF AnswerInv, Committed
  <1> QED BY <1>1, <1>2, <1>3, LocalKept DEF Kept

(***************************************************************************)
(* Steps that leave the tables alone.                                      *)
(***************************************************************************)
\* The codes of the errors: OK is no error's, and a failed statement or an id that
\* could not be allocated is Internal.
LEMMA ErrorCodes ==
  /\ \A err \in Errors : GrpcCode(err) # "OK"
  /\ \A err \in {"statement failed", "ErrCouldNotAllocateItemID"} :
       err \in Errors /\ GrpcCode(err) = "Internal"
  /\ "Internal" \notin DefiniteCodes /\ "Lost" \notin DefiniteCodes
  /\ GrpcCode("lost") = "Lost" /\ GrpcCode("nil") = "OK"
  /\ CatalogErrors \subseteq Errors
  BY DEF GrpcCode, DefiniteCodes, Errors, ArgumentErrors, NotFoundErrors, PreconditionErrors,
         OtherErrors, CatalogErrors

\* The errors returned before a commit.
LEMMA NamedErrors ==
  /\ {"ErrBasketNotFound", "ErrBasketItemNotFound", "ErrBasketNotModifiable",
      "ErrInvalidQuantity", "ErrBasketCurrencyMismatch"} \subseteq Errors
  /\ \A c : ArgumentError(c) \in Errors
  /\ \A r : LockError(r) # "nil" => LockError(r) \in Errors
  BY DEF Errors, ArgumentErrors, NotFoundErrors, PreconditionErrors, ArgumentError, LockError

\* An error return of a request that has not committed.
LEMMA EarlyFailKept ==
  ASSUME AnswerInv, SafeInv', NEW r \in Requests, NEW err \in Errors, Fail(r, err),
         pc[r] \notin {"row", "items", "ackLost", "done"}
  PROVE  AnswerInv'
  <1>1. applied[r] = {}
    BY DEF AnswerInv, Committed
  <1> QED BY <1>1, ErrorCodes, FailKept

LEMMA AcceptKept ==
  ASSUME AnswerInv, SafeInv', NEW r \in Requests, Accept(r)
  PROVE  AnswerInv'
  <1>1. /\ pc[r] = "idle" /\ \A s \in Requests \ {r} : pc'[s] = pc[s]
        /\ pc'[r] = IF ValidArguments(cmd[r]) THEN FirstStep(cmd[r]) ELSE "invalid"
        /\ UNCHANGED <<baskets, items, cmd, quote, loaded, result, applied>>
    BY DEF Accept, Goto, database, locals, AnswerInv, SafeInv, TypeInv, TypeOK
  <1>2. applied[r] = {}
    BY <1>1 DEF AnswerInv, Committed
  <1>3. /\ pc'[r] \notin {"items", "done"}
        /\ pc'[r] = "insertBasket" => cmd[r].op = "CreateBasket"
        /\ pc'[r] = "row" => cmd[r].op = "GetBasket"
    BY <1>1 DEF FirstStep
  <1>4. Kept(r)'
    BY <1>1, <1>2, <1>3 DEF Kept, Committed, Told
  <1> QED BY <1>1, <1>4, LocalKept

\* The row GetBasket reads is as new as any commit of this request.
LEMMA LoadRowKept ==
  ASSUME AnswerInv, SafeInv', NEW r \in Requests, LoadRow(r)
  PROVE  AnswerInv'
  <1> DEFINE row == baskets[cmd[r].basket]
  <1>1. TypeOK /\ Committed(r) /\ cmd[r].basket \in Baskets
    BY CommandType DEF AnswerInv, SafeInv, TypeInv
  <1>2. CASE row = None
    <2>1. Fail(r, "ErrBasketNotFound") /\ applied[r] = {}
      BY <1>1, <1>2 DEF LoadRow, Committed
    <2> QED BY <2>1, ErrorCodes, NamedErrors, FailKept
  <1>3. CASE row # None
    <2> DEFINE new == [status |-> row.status, version |-> row.version, items |-> {},
                       asOf |-> row.version]
    <2>1. /\ loaded' = [loaded EXCEPT ![r] = new]
          /\ Goto(r, IF pc[r] = "row" THEN "items" ELSE "precheckItems")
          /\ UNCHANGED <<database, locals, result, applied>>
      BY <1>3 DEF LoadRow
    <2>2. loaded'[r].version = row.version
      BY <1>1, <2>1 DEF TypeOK
    <2>3. /\ pc'[r] = IF pc[r] = "row" THEN "items" ELSE "precheckItems"
          /\ \A s \in Requests \ {r} : pc'[s] = pc[s] /\ loaded'[s] = loaded[s]
          /\ UNCHANGED <<baskets, items, cmd, quote, result, applied>>
      BY <1>1, <2>1 DEF TypeOK, Goto, database, locals
    <2>4. CASE pc[r] = "row"
      <3>1. row.version \in Nat
        BY <1>1, <1>3 DEF TypeOK, BasketRow
      <3>2. ShowsEffect(cmd[r], quote[r], ItemsOf(items, cmd[r].basket))'
              <=> ShowsEffect(cmd[r], quote[r], ItemsOf(items, cmd[r].basket))
        BY <2>3 DEF ShowsEffect, SamePair, SameId, ItemsOf
      <3>3. Kept(r)'
        BY <1>1, <2>2, <2>3, <2>4, <3>1, <3>2 DEF Kept, Committed, Told
      <3> QED BY <2>3, <3>3, LocalKept
    <2>5. CASE pc[r] # "row"
      BY <2>3, <2>5, QuietKept DEF LoadRow
    <2> QED BY <2>4, <2>5
  <1> QED BY <1>2, <1>3

\* The items are as new as the row, and if the row is still the one this request
\* committed, they show what it did.
LEMMA LoadItemsKept ==
  ASSUME AnswerInv, SafeInv', NEW r \in Requests, LoadItems(r)
  PROVE  AnswerInv'
  <1> DEFINE row == baskets[cmd[r].basket]
             lines == ItemsOf(items, cmd[r].basket)
  <1>1. TypeOK /\ Committed(r) /\ loaded[r] # None /\ pc[r] = "items"
    BY DEF LoadItems, AnswerInv, SafeInv, TypeInv, Control
  <1>2. loaded[r] \in LoadedBasket
    BY <1>1 DEF TypeOK
  <1>3. /\ loaded'[r] = [loaded[r] EXCEPT !.items = lines, !.asOf = row.version]
        /\ result'[r] = "nil" /\ pc'[r] = "done"
        /\ UNCHANGED <<baskets, items, cmd, quote, applied>>
        /\ \A s \in Requests \ {r} :
             pc'[s] = pc[s] /\ loaded'[s] = loaded[s] /\ result'[s] = result[s]
    BY <1>1 DEF LoadItems, Goto, database, locals, TypeOK
  <1>4. /\ loaded'[r].version = loaded[r].version
        /\ loaded'[r].items = lines /\ loaded'[r].asOf = row.version
    BY <1>2, <1>3 DEF LoadedBasket
  <1>5. Code(r)' = "OK" /\ "OK" \notin DefiniteCodes
    BY <1>3, ErrorCodes DEF Code, DefiniteCodes
  <1>6. Told(r)'
    BY <1>1, <1>3, <1>4, <1>5 DEF Told, Committed
  <1>7. Committed(r)'
    BY <1>1, <1>3 DEF Committed
  <1> QED BY <1>3, <1>6, <1>7, LocalKept DEF Kept

\* The statements before a commit.
LEMMA EarlyKept ==
  ASSUME AnswerInv, SafeInv', NEW r \in Requests
  PROVE  /\ Precheck(r) => AnswerInv'
         /\ CatalogQuotes(r) => AnswerInv'
         /\ BeginTx(r) => AnswerInv'
         /\ LockBasket(r) => AnswerInv'
         /\ FindItem(r) => AnswerInv'
         /\ LockItem(r) => AnswerInv'
         /\ InsertItem(r) => AnswerInv'
         /\ InsertCollides(r) => AnswerInv'
  <1> USE DEF Goto, database, locals
  <1>0. TypeOK
    BY DEF AnswerInv, SafeInv, TypeInv
  <1>1. CASE Precheck(r)
    <2>1. CASE Fail(r, "ErrBasketNotModifiable") \/ Fail(r, "ErrInvalidQuantity")
      BY <1>1, <2>1, EarlyFailKept, NamedErrors DEF Precheck
    <2>2. CASE ~Fail(r, "ErrBasketNotModifiable") /\ ~Fail(r, "ErrInvalidQuantity")
      BY <1>0, <1>1, <2>2, QuietKept DEF Precheck, TypeOK
    <2> QED BY <2>1, <2>2
  <1>2. CASE CatalogQuotes(r)
    BY <1>0, <1>2, QuietKept DEF CatalogQuotes, TypeOK
  <1>3. CASE BeginTx(r)
    BY <1>0, <1>3, QuietKept DEF BeginTx, TypeOK
  <1>4. CASE LockBasket(r)
    BY <1>0, <1>4, QuietKept DEF LockBasket, TypeOK
  <1>5. CASE FindItem(r)
    BY <1>0, <1>5, QuietKept DEF FindItem, TypeOK
  <1>6. CASE LockItem(r)
    <2>1. CASE Fail(r, "ErrBasketItemNotFound")
      BY <1>6, <2>1, EarlyFailKept, NamedErrors DEF LockItem
    <2>2. CASE ~Fail(r, "ErrBasketItemNotFound")
      BY <1>0, <1>6, <2>2, QuietKept DEF LockItem, TypeOK
    <2> QED BY <2>1, <2>2
  <1>7. CASE InsertItem(r)
    BY <1>0, <1>7, QuietKept DEF InsertItem, TypeOK
  <1>8. CASE InsertCollides(r)
    <2>1. CASE Fail(r, "ErrCouldNotAllocateItemID")
      BY <1>8, <2>1, EarlyFailKept, ErrorCodes DEF InsertCollides
    <2>2. CASE ~Fail(r, "ErrCouldNotAllocateItemID")
      BY <1>0, <1>8, <2>2, QuietKept DEF InsertCollides, TypeOK
    <2> QED BY <2>1, <2>2
  <1> QED BY <1>1, <1>2, <1>3, <1>4, <1>5, <1>6, <1>7, <1>8

LEMMA WritesKept ==
  ASSUME AnswerInv, SafeInv', NEW r \in Requests
  PROVE  /\ UpdateExistingItem(r) => AnswerInv'
         /\ UpdateQuantity(r) => AnswerInv'
         /\ DeleteItem(r) => AnswerInv'
         /\ DeleteItems(r) => AnswerInv'
         /\ TouchBasket(r) => AnswerInv'
  <1> USE DEF Goto, database, locals
  <1>0. TypeOK
    BY DEF AnswerInv, SafeInv, TypeInv
  <1>1. CASE UpdateExistingItem(r)
    <2>1. CASE Fail(r, "ErrInvalidQuantity")
      BY <1>1, <2>1, EarlyFailKept, NamedErrors DEF UpdateExistingItem
    <2>2. CASE ~Fail(r, "ErrInvalidQuantity")
      BY <1>0, <1>1, <2>2, QuietKept DEF UpdateExistingItem, TypeOK
    <2> QED BY <2>1, <2>2
  <1>2. CASE UpdateQuantity(r)
    BY <1>0, <1>2, QuietKept DEF UpdateQuantity, TypeOK
  <1>3. CASE DeleteItem(r)
    <2>1. CASE Fail(r, "ErrBasketItemNotFound")
      BY <1>3, <2>1, EarlyFailKept, NamedErrors DEF DeleteItem
    <2>2. CASE ~Fail(r, "ErrBasketItemNotFound")
      BY <1>0, <1>3, <2>2, QuietKept DEF DeleteItem, TypeOK
    <2> QED BY <2>1, <2>2
  <1>4. CASE DeleteItems(r)
    BY <1>0, <1>4, QuietKept DEF DeleteItems, TypeOK
  <1>5. CASE TouchBasket(r)
    BY <1>0, <1>5, QuietKept DEF TouchBasket, TypeOK
  <1> QED BY <1>1, <1>2, <1>3, <1>4, <1>5

(***************************************************************************)
(* Steps that change the tables.                                           *)
(***************************************************************************)
\* A step of r that changes a table, or of nobody.
LEMMA TableKept ==
  ASSUME AnswerInv, SafeInv', ItemsInBaskets', UNCHANGED cmd,
         \A b \in Baskets : RowMovesOn(b), NEW R \in SUBSET Requests,
         \A s \in Requests \ R :
           /\ pc'[s] = pc[s] /\ quote'[s] = quote[s] /\ loaded'[s] = loaded[s]
           /\ result'[s] = result[s] /\ applied'[s] = applied[s],
         \A r \in R : Kept(r)'
  PROVE  AnswerInv'
  <1>1. ASSUME NEW s \in Requests \ R PROVE Kept(s)'
    <2>1. TypeInv /\ TypeInv' /\ Kept(s)
      BY Answers1 DEF AnswerInv, SafeInv
    <2>2. RowMovesOn(cmd[s].basket)
      BY <2>1, CommandType DEF TypeInv
    <2> QED BY <2>1, <2>2, KeptFrame
  <1> QED BY <1>1, Answers2

LEMMA InsertBasketKept ==
  ASSUME AnswerInv, SafeInv', NEW r \in Requests, NEW next \in {"row", "ackLost"},
         InsertBasketRow(r, next)
  PROVE  AnswerInv'
  <1> DEFINE b == cmd[r].basket
             row == [status |-> "ACTIVE", currency |-> defaultCurrencyCode, version |-> 0]
  <1>1. TypeOK /\ Committed(r) /\ b \in Baskets /\ pc[r] = "insertBasket"
    BY CommandType DEF InsertBasketRow, AnswerInv, SafeInv, TypeInv
  <1>2. /\ baskets[b] = None /\ baskets' = [baskets EXCEPT ![b] = row]
        /\ pc'[r] = next /\ applied'[r] = {0} /\ cmd[r].op = "CreateBasket"
        /\ \A s \in Requests \ {r} : pc'[s] = pc[s] /\ applied'[s] = applied[s]
        /\ UNCHANGED <<items, cmd, quote, loaded, result>>
    BY <1>1 DEF InsertBasketRow, Goto, locals, TypeOK, Committed
  <1>3. baskets'[b] = row /\ row # None
    <2>1. row \in BasketRow
      BY CurrencyAssumption DEF BasketRow, BasketStatus
    <2> QED BY <1>1, <1>2, <2>1, NoneAssumption DEF TypeOK
  <1>4. \A c \in Baskets : RowMovesOn(c)
    BY <1>1, <1>2 DEF RowMovesOn, TypeOK
  <1>5. \A x \in items : x.basket \in Baskets /\ x.basket # b
    BY <1>1, <1>2, Answers1 DEF ItemsInBaskets, TypeOK, Item
  <1>6. ItemsInBaskets'
    BY <1>1, <1>2, <1>5, Answers1 DEF ItemsInBaskets, TypeOK
  <1>7. ShowsEffect(cmd[r], quote[r], ItemsOf(items, cmd[r].basket))'
    BY <1>2, <1>5 DEF ShowsEffect, ItemsOf
  <1>8. Kept(r)'
    BY <1>2, <1>3, <1>7 DEF Kept, Committed, Told
  <1>9. {r} \in SUBSET Requests /\ \A s \in {r} : Kept(s)'
    BY <1>8
  <1> QED BY <1>2, <1>4, <1>6, <1>9, TableKept

LEMMA LeaveActiveKept ==
  ASSUME AnswerInv, SafeInv', NEW b \in Baskets, LeaveActive(b)
  PROVE  AnswerInv'
  <1>1. /\ baskets[b] \in BasketRow /\ baskets[b] # None
        /\ UNCHANGED <<items, pc, cmd, quote, loaded, result, applied>>
    BY DEF LeaveActive, locals, AnswerInv, SafeInv, TypeInv, TypeOK
  <1>2. PICK st \in ExternalStatuses :
          baskets' = [baskets EXCEPT ![b].status = st, ![b].version = @ + 1]
    BY DEF LeaveActive
  <1>3. /\ \A c \in Baskets \ {b} : baskets'[c] = baskets[c]
        /\ baskets'[b] \in BasketRow /\ baskets'[b].version = baskets[b].version + 1
    BY <1>1, <1>2, ExternalAssumption DEF AnswerInv, SafeInv, TypeInv, TypeOK, BasketRow
  <1>4. baskets'[b] # None
    BY <1>3, NoneAssumption
  <1>5. baskets[b].version \in Nat
    BY <1>1 DEF BasketRow
  <1>6. \A c \in Baskets : RowMovesOn(c)
    BY <1>1, <1>3, <1>4, <1>5 DEF RowMovesOn
  <1>7. ItemsInBaskets'
    BY <1>1, <1>3, <1>4, Answers1 DEF ItemsInBaskets, AnswerInv, SafeInv, TypeInv, TypeOK, Item
  <1>8. {} \in SUBSET Requests /\ \A s \in {} : Kept(s)'
    OBVIOUS
  <1> QED BY <1>1, <1>6, <1>7, <1>8, TableKept DEF LeaveActive, locals

LEMMA CrashKept ==
  ASSUME AnswerInv, SafeInv', Crash
  PROVE  AnswerInv'
  <1>1. /\ UNCHANGED <<baskets, items, cmd, quote, applied>>
        /\ InFlight \in SUBSET Requests
        /\ \A r \in InFlight : pc'[r] = "done" /\ result'[r] = "lost"
        /\ \A r \in Requests \ InFlight :
             pc'[r] = pc[r] /\ result'[r] = result[r] /\ loaded'[r] = loaded[r]
    BY DEF Crash, locals, InFlight
  <1>2. ASSUME NEW r \in InFlight PROVE Kept(r)'
    <2>1. Code(r)' = "Lost" /\ "Lost" # "OK" /\ "Lost" \notin DefiniteCodes
      BY <1>1, ErrorCodes DEF Code
    <2>2. Committed(r)
      BY <1>1 DEF AnswerInv
    <2> QED BY <1>1, <2>1, <2>2 DEF Kept, Told, Committed
  <1>3. ItemsInBaskets' /\ \A b \in Baskets : RowMovesOn(b)
    BY <1>1, Answers1 DEF ItemsInBaskets, RowMovesOn
  <1> QED BY <1>1, <1>2, <1>3, TableKept

(***************************************************************************)
(* The commit.                                                             *)
(***************************************************************************)
\* What a commit leaves in its basket shows what its command asked for.
LEMMA WrittenShows ==
  ASSUME SafeInv, NEW r \in Requests, pc[r] = "commit"
  PROVE  ShowsEffect(cmd[r], quote[r], ItemsOf(Written(r), cmd[r].basket))
  <1> DEFINE c == cmd[r]
             lines == ItemsOf(Written(r), c.basket)
  <1>1. /\ items \subseteq Item /\ cmd[r].qty \in Int /\ cmd[r].op \in Writes
        /\ found[r] \in Item \cup {None} /\ ReadIsCurrent(r)
    BY CommandType DEF SafeInv, TypeInv, TypeOK, Control, InTransaction, LockedReadIsCurrent
  <1>2. ASSUME Inserts(r), Written(r) = items \cup {InsertedItem(r)}
        PROVE  ShowsEffect(c, quote[r], lines)
    <2>1. InsertedItem(r) \in SamePair(lines, c)
      BY <1>2 DEF SamePair, ItemsOf, InsertedItem
    <2>2. InsertedItem(r).qty >= c.qty /\ InsertedItem(r).unit = quote[r]
      BY <1>1 DEF InsertedItem
    <2> HIDE DEF lines
    <2> QED BY <1>2, <2>1, <2>2 DEF ShowsEffect, Inserts
  <1>3. ASSUME Grows(r),
               Written(r) = {IF x.basket = cmd[r].basket /\ x.id = found[r].id
                               THEN Grown(r, x) ELSE x : x \in items}
        PROVE  ShowsEffect(c, quote[r], lines)
    <2>1. found[r] \in items /\ found[r].basket = c.basket /\ found[r].variant = c.variant
      BY <1>1, <1>3 DEF ReadIsCurrent, SamePair
    <2>2. found[r] \in Item /\ found[r].qty \in Nat
      BY <1>1, <2>1, QuantityAssumption DEF Item, Quantity, minBasketQuantity
    <2>3. Grown(r, found[r]) \in Written(r)
      BY <1>3, <2>1
    <2>4. Grown(r, found[r]) \in SamePair(lines, c)
      BY <2>1, <2>2, <2>3, GrownFields DEF SamePair, ItemsOf
    <2>5. Grown(r, found[r]).unit = quote[r] /\ Grown(r, found[r]).qty >= c.qty
      BY <1>1, <2>2 DEF Grown, Item
    <2> HIDE DEF lines
    <2> QED BY <1>3, <2>4, <2>5 DEF ShowsEffect, Grows
  <1>4. ASSUME c.op = "UpdateItemQuantity",
               Written(r) = {IF x \in SameId(items, cmd[r])
                               THEN Requantified(r, x) ELSE x : x \in items}
        PROVE  ShowsEffect(c, quote[r], lines)
    <2>1. found[r] \in SameId(items, c) /\ found[r] \in items
      BY <1>1, <1>4 DEF ReadIsCurrent, SameId
    <2>2. Requantified(r, found[r]) \in Written(r)
      BY <1>4, <2>1
    <2>3. Requantified(r, found[r]) \in SameId(lines, c)
      BY <1>1, <2>1, <2>2, RequantifiedFields DEF SameId, ItemsOf
    <2>4. Requantified(r, found[r]).qty = c.qty
      BY <1>1, <2>1, RequantifiedFields
    <2> HIDE DEF lines
    <2> QED BY <1>4, <2>3, <2>4 DEF ShowsEffect
  <1>5. ASSUME c.op = "RemoveItem", Written(r) = items \ SameId(items, cmd[r])
        PROVE  ShowsEffect(c, quote[r], lines)
    <2>1. SameId(lines, c) = {}
      BY <1>5 DEF SameId, ItemsOf
    <2> HIDE DEF lines
    <2> QED BY <1>5, <2>1 DEF ShowsEffect
  <1>6. ASSUME c.op = "ClearBasket", Written(r) = items \ ItemsOf(items, cmd[r].basket)
        PROVE  ShowsEffect(c, quote[r], lines)
    <2>1. lines = {}
      BY <1>6 DEF ItemsOf
    <2> HIDE DEF lines
    <2> QED BY <1>6, <2>1 DEF ShowsEffect
  <1> QED BY <1>2, <1>3, <1>4, <1>5, <1>6, WrittenCases

LEMMA CommitKept ==
  ASSUME AnswerInv, SafeInv', NEW r \in Requests, NEW next \in {"row", "ackLost"},
         CommitTx(r, next)
  PROVE  AnswerInv'
  <1> DEFINE b == cmd[r].basket
  <1>1. /\ TypeOK /\ Committed(r) /\ b \in Baskets /\ pc[r] = "commit"
        /\ cmd[r].op \in Writes /\ baskets[b] # None
    BY CommandType
    DEF CommitTx, AnswerInv, SafeInv, TypeInv, Control, InTransaction, HoldsLock
  <1>2. baskets[b] \in BasketRow /\ baskets[b].version \in Nat
    BY <1>1 DEF TypeOK, BasketRow
  <1>3. /\ \A d \in Baskets \ {b} : baskets'[d] = baskets[d]
        /\ baskets'[b] \in BasketRow /\ baskets'[b].version = baskets[b].version + 1
    BY <1>1, <1>2 DEF CommitTx, TypeOK, BasketRow
  <1>4. baskets'[b] # None
    BY <1>3, NoneAssumption
  <1>5. /\ items' = Written(r) /\ pc'[r] = next
        /\ applied'[r] = {baskets[b].version + 1}
        /\ \A s \in Requests \ {r} : pc'[s] = pc[s] /\ applied'[s] = applied[s]
        /\ UNCHANGED <<cmd, quote, loaded, result>>
    BY <1>1 DEF CommitTx, Goto, locals, TypeOK, Committed
  <1>6. \A d \in Baskets : RowMovesOn(d)
    <2>1. \A d \in Baskets \ {b} : ItemsOf(items', d) = ItemsOf(items, d)
      BY <1>1, <1>5, WrittenElsewhere DEF ItemsOf, AnswerInv
    <2> QED BY <1>2, <1>3, <1>4, <2>1 DEF RowMovesOn
  <1>7. ItemsInBaskets'
    <2>1. ASSUME NEW y \in items', y.basket # b PROVE baskets'[y.basket] # None
      <3>1. y \in items
        BY <1>1, <1>5, <2>1, WrittenElsewhere DEF AnswerInv
      <3>2. y.basket \in Baskets \ {b} /\ baskets[y.basket] # None
        BY <1>1, <2>1, <3>1, Answers1 DEF ItemsInBaskets, TypeOK, Item
      <3> QED BY <1>3, <3>2
    <2> QED BY <1>4, <2>1 DEF ItemsInBaskets
  <1>8. ShowsEffect(cmd[r], quote[r], ItemsOf(items, cmd[r].basket))'
    <2>1. ShowsEffect(cmd[r], quote[r], ItemsOf(items', b))
      BY <1>1, <1>5, WrittenShows DEF AnswerInv
    <2> QED BY <1>5, <2>1 DEF ShowsEffect, SamePair, SameId, ItemsOf
  <1>9. Kept(r)'
    BY <1>1, <1>2, <1>3, <1>4, <1>5, <1>8 DEF Kept, Committed, Told, Writes
  <1>10. {r} \in SUBSET Requests /\ \A s \in {r} : Kept(s)'
    BY <1>9
  <1> QED BY <1>5, <1>6, <1>7, <1>10, TableKept

(***************************************************************************)
(* The invariant and its consequences.                                     *)
(***************************************************************************)
\* Before the first call nothing has been committed or answered.
LEMMA InitAnswers == Init => AnswerInv
  <1> SUFFICES ASSUME Init PROVE AnswerInv OBVIOUS
  <1>1. SafeInv
    BY InitSafe
  <1>2. \A x \in items : baskets[x.basket] # None
    <2>1. [status |-> "ACTIVE", currency |-> defaultCurrencyCode, version |-> 0] \in BasketRow
      BY CurrencyAssumption DEF BasketRow, BasketStatus
    <2> QED BY <2>1, SeedAssumption, NoneAssumption DEF Init
  <1>3. \A r \in Requests : Committed(r)
    BY DEF Init, Committed
  <1>4. \A r \in Requests : pc[r] # "done"
    BY DEF Init
  <1> QED
    BY <1>1, <1>2, <1>3, <1>4
    DEF AnswerInv, AnswerTellsEffect, ReadBackNotStale, OwnEffectVisible

\* Every step of a handler keeps AnswerInv.
LEMMA HandlerKept ==
  ASSUME AnswerInv, SafeInv', NEW r \in Requests, Handler(r)
  PROVE  AnswerInv'
  <1>1. CASE Reject(r)
    BY <1>1, EarlyFailKept, NamedErrors DEF Reject
  <1>2. CASE InsertBasketDuplicate(r)
    BY <1>2, EarlyFailKept, ErrorCodes DEF InsertBasketDuplicate
  <1>3. CASE CatalogRefuses(r)
    BY <1>3, EarlyFailKept, ErrorCodes DEF CatalogRefuses
  <1>4. CASE LockBasketRefused(r)
    BY <1>4, EarlyFailKept, NamedErrors DEF LockBasketRefused
  <1>5. CASE ReportLostAck(r)
    BY <1>5, FailKept, ErrorCodes DEF ReportLostAck
  <1>6. CASE InsertBasket(r) \/ Commit(r)
    BY <1>6, InsertBasketKept, CommitKept DEF InsertBasket, Commit
  <1>7. CASE LoadRow(r) \/ LoadItems(r)
    BY <1>7, LoadRowKept, LoadItemsKept
  <1>8. CASE Precheck(r) \/ CatalogQuotes(r) \/ BeginTx(r) \/ LockBasket(r) \/ FindItem(r)
             \/ LockItem(r) \/ InsertItem(r) \/ InsertCollides(r)
    BY <1>8, EarlyKept
  <1>9. CASE UpdateExistingItem(r) \/ UpdateQuantity(r) \/ DeleteItem(r)
             \/ DeleteItems(r) \/ TouchBasket(r)
    BY <1>9, WritesKept
  <1> QED BY <1>1, <1>2, <1>3, <1>4, <1>5, <1>6, <1>7, <1>8, <1>9 DEF Handler

\* AnswerInv is inductive.
LEMMA StepAnswers == ASSUME AnswerInv, [Next]_vars PROVE AnswerInv'
  <1>1. SafeInv'
    BY StepSafe DEF AnswerInv
  <1>2. ASSUME NEW r \in Requests, Accept(r) \/ Handler(r) PROVE AnswerInv'
    BY <1>1, <1>2, AcceptKept, HandlerKept
  <1>3. ASSUME NEW r \in Requests, StatementFails(r) \/ CommitAckLost(r) PROVE AnswerInv'
    BY <1>1, <1>3, FailKept, ErrorCodes, CommitKept, InsertBasketKept
    DEF StatementFails, CommitAckLost
  <1>4. ASSUME NEW b \in Baskets, LeaveActive(b) PROVE AnswerInv'
    BY <1>1, <1>4, LeaveActiveKept
  <1>5. CASE Crash
    BY <1>1, <1>5, CrashKept
  <1>6. CASE UNCHANGED vars
    <2>1. UNCHANGED <<baskets, items, cmd, pc, quote, loaded, result, applied>>
      BY <1>6 DEF vars, database, locals
    <2>2. ItemsInBaskets' /\ \A b \in Baskets : RowMovesOn(b)
      BY <2>1, Answers1 DEF ItemsInBaskets, RowMovesOn
    <2>3. {} \in SUBSET Requests /\ \A s \in {} : Kept(s)'
      OBVIOUS
    <2> QED BY <1>1, <2>1, <2>2, <2>3, TableKept
  <1> QED BY <1>2, <1>3, <1>4, <1>5, <1>6 DEF Next, Terminated

\* Every reachable state satisfies AnswerInv.
THEOREM Answers == Spec => []AnswerInv
  <1>1. Init => AnswerInv
    BY InitAnswers
  <1>2. AnswerInv /\ [Next]_vars => AnswerInv'
    BY StepAnswers
  <1> QED BY <1>1, <1>2, PTL DEF Spec

\* A request commits at most once, whatever is retried, fails or is lost.
THEOREM AppliedOnce == Spec => []AppliedAtMostOnce
  <1>1. AnswerInv => AppliedAtMostOnce
    <2> SUFFICES ASSUME AnswerInv, NEW r \in Requests PROVE Cardinality(applied[r]) <= 1
      BY DEF AppliedAtMostOnce
    <2>1. applied[r] = {} \/ \E v \in applied[r] : applied[r] = {v}
      BY DEF AnswerInv, Committed
    <2>2. CASE applied[r] = {}
      BY <2>2, FS_EmptySet
    <2>3. ASSUME NEW v \in applied[r], applied[r] = {v} PROVE Cardinality(applied[r]) <= 1
      <3>1. Cardinality({v}) = 1
        BY FS_Singleton
      <3> QED BY <2>3, <3>1
    <2> QED BY <2>1, <2>2, <2>3
  <1> QED BY <1>1, Answers, PTL

\* The gRPC code of an answer tells whether the command took effect.
THEOREM AnswersTell == Spec => []AnswerTellsEffect
  <1>1. AnswerInv => AnswerTellsEffect
    BY DEF AnswerInv
  <1> QED BY <1>1, Answers, PTL

\* The basket a write answers with was read after its commit, row before items.
THEOREM ReadBackFresh == Spec => []ReadBackNotStale
  <1>1. AnswerInv => ReadBackNotStale
    BY DEF AnswerInv
  <1> QED BY <1>1, Answers, PTL

\* A caller whom no later commit has overtaken sees its own command's effect.
THEOREM OwnEffectSeen == Spec => []OwnEffectVisible
  <1>1. AnswerInv => OwnEffectVisible
    BY DEF AnswerInv
  <1> QED BY <1>1, Answers, PTL

(***************************************************************************)
(* The service implements BasketSpec: the mapping.                         *)
(***************************************************************************)
\* A step of r moves r's stage and code only.
LEMMA MappedStep ==
  ASSUME NEW r \in Requests,
         \A s \in Requests \ {r} :
           pc'[s] = pc[s] /\ applied'[s] = applied[s] /\ result'[s] = result[s]
  PROVE  /\ PromisedStage' = [PromisedStage EXCEPT ![r] = Stage(r)']
         /\ PromisedCode' = [PromisedCode EXCEPT ![r] = CodeSoFar(r)']
  <1>1. \A s \in Requests \ {r} : Stage(s)' = Stage(s) /\ CodeSoFar(s)' = CodeSoFar(s)
    BY DEF Stage, CodeSoFar, Code
  <1> QED BY <1>1 DEF PromisedStage, PromisedCode

\* Tables that are left alone stay the same basket lines.
LEMMA MappedTables ==
  ASSUME UNCHANGED <<baskets, items>>
  PROVE  UNCHANGED <<PromisedStatus, PromisedLines>>
  BY DEF PromisedStatus, PromisedLines

\* The stage of a request that is being handled.
LEMMA Stages ==
  ASSUME NEW r \in Requests, pc[r] \notin {"idle", "done"}
  PROVE  /\ applied[r] = {} => Stage(r) = "called"
         /\ applied[r] # {} => Stage(r) = "applied"
         /\ CodeSoFar(r) = "pending"
  BY DEF Stage, CodeSoFar

\* A step of r that the caller cannot see.
LEMMA HiddenStep ==
  ASSUME NEW r \in Requests, UNCHANGED <<baskets, items, cmd, applied, result>>,
         \A s \in Requests \ {r} : pc'[s] = pc[s],
         pc[r] \notin {"idle", "done"}, pc'[r] \notin {"idle", "done"}
  PROVE  UNCHANGED Promise!vars
  <1>1. Stage(r)' = Stage(r) /\ CodeSoFar(r)' = CodeSoFar(r)
    BY DEF Stage, CodeSoFar
  <1>2. UNCHANGED <<PromisedStage, PromisedCode>>
    <2>1. PromisedStage[r] = Stage(r) /\ PromisedCode[r] = CodeSoFar(r)
      BY DEF PromisedStage, PromisedCode
    <2> QED BY <1>1, <2>1, MappedStep DEF PromisedStage, PromisedCode
  <1> QED BY <1>2, MappedTables DEF Promise!vars

\* An answer.
LEMMA AnswerStep ==
  ASSUME NEW r \in Requests, UNCHANGED <<baskets, items, cmd, applied>>,
         \A s \in Requests \ {r} : pc'[s] = pc[s] /\ result'[s] = result[s],
         pc[r] \notin {"idle", "done"}, pc'[r] = "done",
         NEW c \in {"OK", "Internal"} \cup DefiniteCodes, Code(r)' = c,
         c = "OK" => cmd[r].op = "GetBasket" \/ applied[r] # {},
         c \in DefiniteCodes => applied[r] = {}
  PROVE  Promise!Answer(r)
  <1>1. Stage(r)' = "answered" /\ CodeSoFar(r)' = c
    BY DEF Stage, CodeSoFar
  <1>2. PromisedStage[r] = Stage(r)
    BY DEF PromisedStage
  <1>3. Promise!DefiniteCodes = DefiniteCodes
    BY DEF Promise!DefiniteCodes, DefiniteCodes
  <1> QED BY <1>1, <1>2, <1>3, Stages, MappedStep, MappedTables DEF Promise!Answer

(***************************************************************************)
(* Calls and answers.                                                      *)
(***************************************************************************)
\* Every error has one of the promised codes.
LEMMA PromisedCodes ==
  /\ \A err \in Errors : GrpcCode(err) \in {"Internal"} \cup DefiniteCodes
  /\ "OK" \notin DefiniteCodes
  BY DEF GrpcCode, DefiniteCodes, Errors, ArgumentErrors, NotFoundErrors, PreconditionErrors,
         OtherErrors

LEMMA AcceptStep ==
  ASSUME AnswerInv, NEW r \in Requests, Accept(r)
  PROVE  Promise!Call(r)
  <1>1. /\ pc[r] = "idle" /\ pc'[r] \notin {"idle", "done"}
        /\ \A s \in Requests \ {r} : pc'[s] = pc[s]
        /\ UNCHANGED <<baskets, items, cmd, result, applied>>
    BY DEF Accept, Goto, FirstStep, database, locals, AnswerInv, SafeInv, TypeInv, TypeOK
  <1>2. applied[r] = {}
    BY <1>1 DEF AnswerInv, Committed
  <1>3. Stage(r)' = "called" /\ CodeSoFar(r)' = "pending"
    BY <1>1, <1>2 DEF Stage, CodeSoFar
  <1>4. PromisedStage[r] = "idle" /\ PromisedCode[r] = "pending"
    BY <1>1 DEF PromisedStage, PromisedCode, Stage, CodeSoFar
  <1>5. PromisedCode' = PromisedCode
    BY <1>1, <1>3, <1>4, MappedStep DEF PromisedCode
  <1> QED BY <1>1, <1>3, <1>4, <1>5, MappedStep, MappedTables DEF Promise!Call

\* An error return answers.
LEMMA FailStep ==
  ASSUME AnswerInv, NEW r \in Requests, NEW err \in Errors, Fail(r, err),
         pc[r] \notin {"idle", "done"},
         applied[r] = {} \/ GrpcCode(err) \notin DefiniteCodes
  PROVE  Promise!Answer(r)
  <1>1. /\ pc'[r] = "done" /\ result'[r] = err
        /\ \A s \in Requests \ {r} : pc'[s] = pc[s] /\ result'[s] = result[s]
        /\ UNCHANGED <<baskets, items, cmd, applied>>
    BY DEF Fail, Goto, locals, AnswerInv, SafeInv, TypeInv, TypeOK
  <1> DEFINE c == GrpcCode(err)
  <1>2. Code(r)' = c /\ c \in {"OK", "Internal"} \cup DefiniteCodes /\ c # "OK"
    BY <1>1, PromisedCodes, ErrorCodes DEF Code
  <1> HIDE DEF c
  <1>3. c \in DefiniteCodes => applied[r] = {}
    BY DEF c
  <1> QED BY <1>1, <1>2, <1>3, AnswerStep

\* An error return before a commit.
LEMMA EarlyFailStep ==
  ASSUME AnswerInv, NEW r \in Requests, NEW err \in Errors, Fail(r, err),
         pc[r] \notin {"idle", "row", "items", "ackLost", "done"}
  PROVE  Promise!Answer(r)
  <1>1. applied[r] = {}
    BY DEF AnswerInv, Committed
  <1> QED BY <1>1, FailStep

\* What the mapping does to a step of a request: an answer, or nothing.
AnsweredOrHidden(r) == Promise!Answer(r) \/ UNCHANGED Promise!vars

LEMMA ReadSteps ==
  ASSUME AnswerInv, NEW r \in Requests
  PROVE  /\ LoadRow(r) => AnsweredOrHidden(r)
         /\ LoadItems(r) => AnsweredOrHidden(r)
  <1>0. TypeOK /\ Committed(r)
    BY DEF AnswerInv, SafeInv, TypeInv
  <1>1. CASE LoadRow(r)
    <2>1. CASE Fail(r, "ErrBasketNotFound") /\ baskets[cmd[r].basket] = None
      <3>1. applied[r] = {}
        BY <1>0, <2>1 DEF Committed
      <3> QED BY <1>1, <2>1, <3>1, NamedErrors, FailStep DEF LoadRow, AnsweredOrHidden
    <2>2. CASE baskets[cmd[r].basket] # None
      BY <1>0, <1>1, <2>2, HiddenStep
      DEF LoadRow, Goto, database, locals, TypeOK, AnsweredOrHidden
    <2> QED BY <1>1, <2>1, <2>2 DEF LoadRow
  <1>2. CASE LoadItems(r)
    <2>1. /\ pc[r] = "items" /\ pc'[r] = "done" /\ result'[r] = "nil"
          /\ \A s \in Requests \ {r} : pc'[s] = pc[s] /\ result'[s] = result[s]
          /\ UNCHANGED <<baskets, items, cmd, applied>>
      BY <1>0, <1>2 DEF LoadItems, Goto, database, locals, TypeOK
    <2>2. Code(r)' = "OK" /\ "OK" \notin DefiniteCodes
      BY <2>1, ErrorCodes, PromisedCodes DEF Code
    <2>3. cmd[r].op = "GetBasket" \/ applied[r] # {}
      BY <1>0, <2>1 DEF Committed
    <2> QED BY <2>1, <2>2, <2>3, AnswerStep DEF AnsweredOrHidden
  <1> QED BY <1>1, <1>2

LEMMA EarlySteps ==
  ASSUME AnswerInv, NEW r \in Requests
  PROVE  /\ Precheck(r) => AnsweredOrHidden(r)
         /\ CatalogQuotes(r) => AnsweredOrHidden(r)
         /\ BeginTx(r) => AnsweredOrHidden(r)
         /\ LockBasket(r) => AnsweredOrHidden(r)
         /\ FindItem(r) => AnsweredOrHidden(r)
         /\ LockItem(r) => AnsweredOrHidden(r)
         /\ InsertItem(r) => AnsweredOrHidden(r)
         /\ InsertCollides(r) => AnsweredOrHidden(r)
  <1> USE DEF Goto, database, locals, AnsweredOrHidden
  <1>0. TypeOK
    BY DEF AnswerInv, SafeInv, TypeInv
  <1>1. CASE Precheck(r)
    <2>1. CASE Fail(r, "ErrBasketNotModifiable") \/ Fail(r, "ErrInvalidQuantity")
      BY <1>1, <2>1, EarlyFailStep, NamedErrors DEF Precheck
    <2>2. CASE ~Fail(r, "ErrBasketNotModifiable") /\ ~Fail(r, "ErrInvalidQuantity")
      BY <1>0, <1>1, <2>2, HiddenStep DEF Precheck, TypeOK
    <2> QED BY <2>1, <2>2
  <1>2. CASE CatalogQuotes(r)
    BY <1>0, <1>2, HiddenStep DEF CatalogQuotes, TypeOK
  <1>3. CASE BeginTx(r)
    BY <1>0, <1>3, HiddenStep DEF BeginTx, TypeOK
  <1>4. CASE LockBasket(r)
    BY <1>0, <1>4, HiddenStep DEF LockBasket, TypeOK
  <1>5. CASE FindItem(r)
    BY <1>0, <1>5, HiddenStep DEF FindItem, TypeOK
  <1>6. CASE LockItem(r)
    <2>1. CASE Fail(r, "ErrBasketItemNotFound")
      BY <1>6, <2>1, EarlyFailStep, NamedErrors DEF LockItem
    <2>2. CASE ~Fail(r, "ErrBasketItemNotFound")
      BY <1>0, <1>6, <2>2, HiddenStep DEF LockItem, TypeOK
    <2> QED BY <2>1, <2>2
  <1>7. CASE InsertItem(r)
    BY <1>0, <1>7, HiddenStep DEF InsertItem, TypeOK
  <1>8. CASE InsertCollides(r)
    <2>1. CASE Fail(r, "ErrCouldNotAllocateItemID")
      BY <1>8, <2>1, EarlyFailStep, ErrorCodes DEF InsertCollides
    <2>2. CASE ~Fail(r, "ErrCouldNotAllocateItemID")
      BY <1>0, <1>8, <2>2, HiddenStep DEF InsertCollides, TypeOK
    <2> QED BY <2>1, <2>2
  <1> QED BY <1>1, <1>2, <1>3, <1>4, <1>5, <1>6, <1>7, <1>8

LEMMA WriteSteps ==
  ASSUME AnswerInv, NEW r \in Requests
  PROVE  /\ UpdateExistingItem(r) => AnsweredOrHidden(r)
         /\ UpdateQuantity(r) => AnsweredOrHidden(r)
         /\ DeleteItem(r) => AnsweredOrHidden(r)
         /\ DeleteItems(r) => AnsweredOrHidden(r)
         /\ TouchBasket(r) => AnsweredOrHidden(r)
  <1> USE DEF Goto, database, locals, AnsweredOrHidden
  <1>0. TypeOK
    BY DEF AnswerInv, SafeInv, TypeInv
  <1>1. CASE UpdateExistingItem(r)
    <2>1. CASE Fail(r, "ErrInvalidQuantity")
      BY <1>1, <2>1, EarlyFailStep, NamedErrors DEF UpdateExistingItem
    <2>2. CASE ~Fail(r, "ErrInvalidQuantity")
      BY <1>0, <1>1, <2>2, HiddenStep DEF UpdateExistingItem, TypeOK
    <2> QED BY <2>1, <2>2
  <1>2. CASE UpdateQuantity(r)
    BY <1>0, <1>2, HiddenStep DEF UpdateQuantity, TypeOK
  <1>3. CASE DeleteItem(r)
    <2>1. CASE Fail(r, "ErrBasketItemNotFound")
      BY <1>3, <2>1, EarlyFailStep, NamedErrors DEF DeleteItem
    <2>2. CASE ~Fail(r, "ErrBasketItemNotFound")
      BY <1>0, <1>3, <2>2, HiddenStep DEF DeleteItem, TypeOK
    <2> QED BY <2>1, <2>2
  <1>4. CASE DeleteItems(r)
    BY <1>0, <1>4, HiddenStep DEF DeleteItems, TypeOK
  <1>5. CASE TouchBasket(r)
    BY <1>0, <1>5, HiddenStep DEF TouchBasket, TypeOK
  <1> QED BY <1>1, <1>2, <1>3, <1>4, <1>5

(***************************************************************************)
(* Other programs, and crashes.                                            *)
(***************************************************************************)
LEMMA LeaveActiveStep ==
  ASSUME AnswerInv, NEW b \in Baskets, LeaveActive(b)
  PROVE  Promise!LeaveActive(b)
  <1>1. /\ baskets[b] \in BasketRow /\ baskets[b] # None /\ baskets[b].status = "ACTIVE"
        /\ UNCHANGED <<items, pc, cmd, result, applied>>
    BY DEF LeaveActive, locals, AnswerInv, SafeInv, TypeInv, TypeOK
  <1>2. PICK st \in ExternalStatuses :
          baskets' = [baskets EXCEPT ![b].status = st, ![b].version = @ + 1]
    BY DEF LeaveActive
  <1>3. /\ \A c \in Baskets \ {b} : baskets'[c] = baskets[c]
        /\ baskets'[b] \in BasketRow /\ baskets'[b].status = st
    BY <1>1, <1>2, ExternalAssumption DEF AnswerInv, SafeInv, TypeInv, TypeOK, BasketRow
  <1>4. baskets'[b] # None
    BY <1>3, NoneAssumption
  <1>5. PromisedStatus' = [PromisedStatus EXCEPT ![b] = st]
    BY <1>3, <1>4 DEF PromisedStatus
  <1>6. PromisedStatus[b] = "ACTIVE" /\ st \in Promise!BasketStatus \ {"ACTIVE"}
    BY <1>1, ExternalAssumption DEF PromisedStatus, BasketStatus, Promise!BasketStatus
  <1>7. UNCHANGED <<PromisedLines, PromisedStage, PromisedCode>>
    BY <1>1 DEF PromisedLines, PromisedStage, PromisedCode, Stage, CodeSoFar, Code
  <1> QED BY <1>1, <1>5, <1>6, <1>7 DEF Promise!LeaveActive

LEMMA CrashStep ==
  ASSUME AnswerInv, Crash
  PROVE  Promise!Crash
  <1>1. /\ InFlight # {} /\ UNCHANGED <<baskets, items, cmd, applied>>
        /\ \A r \in InFlight : pc'[r] = "done" /\ result'[r] = "lost"
        /\ \A r \in Requests \ InFlight : pc'[r] = pc[r] /\ result'[r] = result[r]
    BY DEF Crash, locals, InFlight
  <1>2. \A r \in Requests : r \in InFlight <=> PromisedStage[r] \in {"called", "applied"}
    BY DEF InFlight, PromisedStage, Stage
  <1>3. \A r \in InFlight : Stage(r)' = "answered" /\ CodeSoFar(r)' = "Lost"
    BY <1>1, ErrorCodes DEF Stage, CodeSoFar, Code
  <1>4. \A r \in Requests \ InFlight : Stage(r)' = Stage(r) /\ CodeSoFar(r)' = CodeSoFar(r)
    BY <1>1 DEF Stage, CodeSoFar, Code
  <1>5. InFlight \subseteq Requests
    BY DEF InFlight
  <1>6. {r \in Requests : PromisedStage[r] \in {"called", "applied"}} = InFlight
    BY <1>2, <1>5
  <1>7. /\ PromisedStage' = [r \in Requests |->
              IF r \in InFlight THEN "answered" ELSE PromisedStage[r]]
        /\ PromisedCode' = [r \in Requests |->
              IF r \in InFlight THEN "Lost" ELSE PromisedCode[r]]
    BY <1>3, <1>4 DEF PromisedStage, PromisedCode
  <1> QED BY <1>1, <1>6, <1>7, MappedTables DEF Promise!Crash

(***************************************************************************)
(* Commits.                                                                *)
(***************************************************************************)
\* A request that commits is applied from then on.
LEMMA AppliedStep ==
  ASSUME AnswerInv, NEW r \in Requests, applied[r] = {}, applied'[r] # {},
         UNCHANGED <<cmd, result>>,
         \A s \in Requests \ {r} : pc'[s] = pc[s] /\ applied'[s] = applied[s],
         pc[r] \notin {"idle", "done"}, pc'[r] \notin {"idle", "done"}
  PROVE  /\ PromisedStage[r] = "called"
         /\ PromisedStage' = [PromisedStage EXCEPT ![r] = "applied"]
         /\ UNCHANGED <<cmd, PromisedCode>>
  <1>1. PromisedStage[r] = "called" /\ PromisedCode[r] = "pending"
    BY DEF PromisedStage, PromisedCode, Stage, CodeSoFar
  <1>2. Stage(r)' = "applied" /\ CodeSoFar(r)' = "pending"
    BY DEF Stage, CodeSoFar
  <1>3. PromisedCode' = PromisedCode
    BY <1>1, <1>2, MappedStep DEF PromisedCode
  <1> QED BY <1>1, <1>2, <1>3, MappedStep

LEMMA InsertBasketStep ==
  ASSUME AnswerInv, NEW r \in Requests, NEW next \in {"row", "ackLost"},
         InsertBasketRow(r, next)
  PROVE  Promise!CreateBasket(r)
  <1> DEFINE b == cmd[r].basket
             row == [status |-> "ACTIVE", currency |-> defaultCurrencyCode, version |-> 0]
  <1>1. TypeOK /\ Committed(r) /\ b \in Baskets /\ pc[r] = "insertBasket"
    BY CommandType DEF InsertBasketRow, AnswerInv, SafeInv, TypeInv
  <1>2. /\ baskets[b] = None /\ baskets' = [baskets EXCEPT ![b] = row]
        /\ applied[r] = {} /\ applied'[r] = {0} /\ cmd[r].op = "CreateBasket"
        /\ pc'[r] = next
        /\ \A s \in Requests \ {r} : pc'[s] = pc[s] /\ applied'[s] = applied[s]
        /\ UNCHANGED <<items, cmd, result>>
    BY <1>1 DEF InsertBasketRow, Goto, locals, TypeOK, Committed
  <1>3. row # None
    <2>1. row \in BasketRow
      BY CurrencyAssumption DEF BasketRow, BasketStatus
    <2> QED BY <2>1, NoneAssumption
  <1>4. /\ PromisedStatus[b] = None
        /\ PromisedStatus' = [PromisedStatus EXCEPT ![b] = "ACTIVE"]
        /\ PromisedLines' = PromisedLines
    BY <1>1, <1>2, <1>3 DEF PromisedStatus, PromisedLines, TypeOK
  <1> QED
    BY <1>1, <1>2, <1>4, AppliedStep DEF Promise!CreateBasket, Promise!Applies

\* The lines of a table in which one row was replaced.
LEMMA ReplacedLine ==
  ASSUME IdsUnique(items), NEW old \in items, NEW new, NEW table,
         table = (items \ {old}) \cup {new}
  PROVE  {PromisedLine(x) : x \in table}
           = (PromisedLines \ {PromisedLine(old)}) \cup {PromisedLine(new)}
  <1>1. ASSUME NEW x \in items, x # old PROVE PromisedLine(x) # PromisedLine(old)
    <2>1. x.id # old.id
      BY <1>1 DEF IdsUnique
    <2> QED BY <2>1 DEF PromisedLine
  <1>2. \A x \in items \ {old} : PromisedLine(x) # PromisedLine(old)
    BY <1>1
  <1> HIDE DEF PromisedLine
  <1> QED BY <1>2 DEF PromisedLines

LEMMA LineFields ==
  \A x : /\ PromisedLine(x).id = x.id /\ PromisedLine(x).basket = x.basket
         /\ PromisedLine(x).variant = x.variant /\ PromisedLine(x).qty = x.qty
         /\ PromisedLine(x).unit = x.unit
  BY DEF PromisedLine

\* A line that grows takes the new price and the larger quantity.
LEMMA RegrownLine ==
  ASSUME NEW x, NEW n, NEW u
  PROVE  [PromisedLine(x) EXCEPT !.qty = @ + n, !.unit = u]
         = [id |-> x.id, basket |-> x.basket, variant |-> x.variant, qty |-> x.qty + n,
            unit |-> u]
  <1> DEFINE g == [PromisedLine(x) EXCEPT !.qty = @ + n, !.unit = u]
             h == [id |-> x.id, basket |-> x.basket, variant |-> x.variant,
                   qty |-> x.qty + n, unit |-> u]
             fields == {"id", "basket", "variant", "qty", "unit"}
  <1>1. /\ DOMAIN g = fields /\ g = [f \in DOMAIN g |-> g[f]]
        /\ g.id = x.id /\ g.basket = x.basket /\ g.variant = x.variant
        /\ g.qty = x.qty + n /\ g.unit = u
    BY DEF PromisedLine
  <1>2. /\ DOMAIN h = fields /\ h = [f \in DOMAIN h |-> h[f]]
        /\ h.id = x.id /\ h.basket = x.basket /\ h.variant = x.variant
        /\ h.qty = x.qty + n /\ h.unit = u
    OBVIOUS
  <1> HIDE DEF g, h
  <1>3. \A f \in fields : g[f] = h[f]
    BY <1>1, <1>2
  <1>4. [f \in DOMAIN g |-> g[f]] = [f \in DOMAIN h |-> h[f]]
    BY <1>1, <1>2, <1>3
  <1>5. g = h
    BY <1>1, <1>2, <1>4
  <1> QED BY <1>5 DEF g, h

\* The lines a command names are those of the rows it names.
LEMMA NamedLines ==
  ASSUME NEW r \in Requests
  PROVE  /\ Promise!LineOfPair(cmd[r]) = {PromisedLine(x) : x \in SamePair(items, cmd[r])}
         /\ Promise!LineNamed(cmd[r]) = {PromisedLine(x) : x \in SameId(items, cmd[r])}
  <1>1. \A x : /\ <<PromisedLine(x).basket, PromisedLine(x).variant>> = <<x.basket, x.variant>>
               /\ <<PromisedLine(x).basket, PromisedLine(x).id>> = <<x.basket, x.id>>
    BY LineFields
  <1> QED
    BY <1>1, LineFields
    DEF Promise!LineOfPair, Promise!LineNamed, PromisedLines, SamePair, SameId

LEMMA CommitStep ==
  ASSUME AnswerInv, NEW r \in Requests, NEW next \in {"row", "ackLost"}, CommitTx(r, next)
  PROVE  Promise!Apply(r)
  <1> DEFINE c == cmd[r]
             b == cmd[r].basket
  <1>1. /\ TypeOK /\ Committed(r) /\ ReadIsCurrent(r) /\ b \in Baskets /\ pc[r] = "commit"
        /\ c.op \in Writes /\ IdsUnique(items) /\ ValidArguments(c)
    BY CommandType
    DEF CommitTx, AnswerInv, SafeInv, TypeInv, Control, InTransaction, LockedReadIsCurrent,
        StoredItemsConsistent
  <1>2. baskets[b] # None /\ baskets[b] \in BasketRow /\ baskets[b].status = "ACTIVE"
    BY <1>1 DEF ReadIsCurrent, HoldsLock, TypeOK
  <1>3. /\ items' = Written(r) /\ pc'[r] = next
        /\ applied[r] = {} /\ applied'[r] # {}
        /\ \A s \in Requests \ {r} : pc'[s] = pc[s] /\ applied'[s] = applied[s]
        /\ UNCHANGED <<cmd, result>>
    BY <1>1 DEF CommitTx, Goto, locals, TypeOK, Committed
  <1>4. PromisedStatus[b] = "ACTIVE" /\ PromisedStatus' = PromisedStatus
    <2>1. /\ \A d \in Baskets \ {b} : baskets'[d] = baskets[d]
          /\ baskets'[b] \in BasketRow /\ baskets'[b].status = baskets[b].status
      BY <1>1, <1>2 DEF CommitTx, TypeOK, BasketRow
    <2>2. baskets'[b] # None
      BY <2>1, NoneAssumption
    <2> QED BY <1>1, <1>2, <2>1, <2>2 DEF PromisedStatus
  <1>5. Promise!Modifies(r, c.op)
    BY <1>1, <1>3, <1>4, AppliedStep DEF Promise!Modifies, Promise!Applies
  <1>6. PromisedLines' = {PromisedLine(x) : x \in Written(r)}
    BY <1>3 DEF PromisedLines, PromisedLine
  <1>7. c.op = "AddItem" =>
          quote[r] \in {q \in Promise!Quote : q.currency = defaultCurrencyCode}
    BY <1>1 DEF AnswerInv, SafeInv, TypeInv, TypeOK, Control, InTransaction, CurrenciesAgree,
               HoldsLock, Quote, Promise!Quote
  <1>8. Promise!Quantity = Quantity
    BY DEF Promise!Quantity, Quantity, Promise!minBasketQuantity, minBasketQuantity
  <1>9. items \subseteq Item /\ found[r] \in Item \cup {None}
    BY <1>1 DEF TypeOK
  <1>10. ASSUME Inserts(r), Written(r) = items \cup {InsertedItem(r)}
         PROVE  Promise!AddNewLine(r)
    <2>1. Promise!LineOfPair(c) = {}
      BY <1>1, <1>10, NamedLines DEF ReadIsCurrent
    <2>2. newId[r] \in ItemIds /\ newId[r] \notin IdsInUse
      BY <1>1, <1>10
      DEF AnswerInv, SafeInv, NewIdsFresh, Inserting, TypeInv, TypeOK, Control
    <2>3. newId[r] \in ItemIds \ {x.id : x \in PromisedLines}
      BY <2>2, LineFields DEF IdsInUse, PromisedLines
    <2>4. PromisedLines' = PromisedLines \cup {PromisedLine(InsertedItem(r))}
      BY <1>6, <1>10 DEF PromisedLines
    <2>5. PromisedLine(InsertedItem(r))
            = [id |-> newId[r], basket |-> c.basket, variant |-> c.variant, qty |-> c.qty,
               unit |-> quote[r]]
      BY DEF PromisedLine, InsertedItem
    <2>6. c.op = "AddItem" /\ c.qty \in Quantity
      BY <1>1, <1>10 DEF Inserts, ValidArguments
    <2> QED
      BY <1>5, <1>7, <1>8, <2>1, <2>3, <2>4, <2>5, <2>6 DEF Promise!AddNewLine
  <1>11. ASSUME Grows(r),
                Written(r) = {IF x.basket = cmd[r].basket /\ x.id = found[r].id
                                THEN Grown(r, x) ELSE x : x \in items}
         PROVE  Promise!GrowLine(r)
    <2> DEFINE old == PromisedLine(found[r])
               new == PromisedLine(Grown(r, found[r]))
    <2>1. found[r] \in SamePair(items, c) /\ found[r] \in items /\ found[r] \in Item
      BY <1>1, <1>9, <1>11 DEF ReadIsCurrent, SamePair
    <2>2. \A x \in items : x.basket = c.basket /\ x.id = found[r].id <=> x = found[r]
      BY <1>1, <2>1 DEF IdsUnique, SamePair
    <2>3. Written(r) = (items \ {found[r]}) \cup {Grown(r, found[r])}
      BY <1>11, <2>1, <2>2
    <2>4. PromisedLines' = (PromisedLines \ {old}) \cup {new}
      BY <1>1, <1>6, <2>1, <2>3, ReplacedLine
    <2>5. new = [old EXCEPT !.qty = @ + c.qty, !.unit = quote[r]]
      <3>1. Grown(r, found[r]).qty = found[r].qty + c.qty
        BY <2>1 DEF Grown, Item
      <3>2. new = [id |-> found[r].id, basket |-> found[r].basket,
                   variant |-> found[r].variant, qty |-> found[r].qty + c.qty,
                   unit |-> quote[r]]
        BY <2>1, <3>1, GrownFields DEF PromisedLine
      <3> HIDE DEF new
      <3> QED BY <3>2, RegrownLine
    <2>6. old \in Promise!LineOfPair(c) /\ old.qty + c.qty \in Quantity
      <3>1. old.qty = found[r].qty
        BY LineFields
      <3>2. found[r].qty + c.qty \in Quantity
        BY <1>1, <1>11 DEF AnswerInv, SafeInv, TypeInv, Control
      <3> QED BY <2>1, <3>1, <3>2, NamedLines
    <2> HIDE DEF old, new
    <2> QED BY <1>5, <1>7, <1>8, <1>11, <2>4, <2>5, <2>6 DEF Promise!GrowLine, Grows
  <1>12. ASSUME c.op = "UpdateItemQuantity",
                Written(r) = {IF x \in SameId(items, cmd[r])
                                THEN Requantified(r, x) ELSE x : x \in items}
         PROVE  Promise!SetLineQuantity(r)
    <2> DEFINE old == PromisedLine(found[r])
               new == PromisedLine(Requantified(r, found[r]))
    <2>1. found[r] \in SameId(items, c) /\ found[r] \in items /\ found[r] \in Item
      BY <1>1, <1>9, <1>12 DEF ReadIsCurrent, SameId
    <2>2. \A x \in items : x \in SameId(items, c) <=> x = found[r]
      BY <1>1, <2>1 DEF IdsUnique, SameId
    <2>3. Written(r) = (items \ {found[r]}) \cup {Requantified(r, found[r])}
      BY <1>12, <2>1, <2>2
    <2>4. PromisedLines' = (PromisedLines \ {old}) \cup {new}
      BY <1>1, <1>6, <2>1, <2>3, ReplacedLine
    <2>5. new = [old EXCEPT !.qty = c.qty]
      BY <2>1 DEF PromisedLine, Requantified, Item
    <2>6. old \in Promise!LineNamed(c) /\ c.qty \in Quantity
      BY <1>1, <1>12, <2>1, NamedLines DEF ValidArguments
    <2> HIDE DEF old, new
    <2> QED BY <1>5, <1>8, <1>12, <2>4, <2>5, <2>6 DEF Promise!SetLineQuantity
  <1>13. ASSUME c.op = "RemoveItem", Written(r) = items \ SameId(items, cmd[r])
         PROVE  Promise!RemoveLine(r)
    <2>1. SameId(items, c) # {}
      BY <1>1, <1>13 DEF ReadIsCurrent
    <2>2. Promise!LineNamed(c) # {}
      BY <2>1, NamedLines
    <2>3. PromisedLines' = PromisedLines \ Promise!LineNamed(c)
      <3>1. ASSUME NEW x \in items, NEW y \in SameId(items, c),
                   PromisedLine(x) = PromisedLine(y)
            PROVE  x \in SameId(items, c)
        BY <3>1, LineFields DEF SameId
      <3> QED BY <1>6, <1>13, <3>1, NamedLines DEF PromisedLines
    <2> QED BY <1>5, <1>13, <2>2, <2>3 DEF Promise!RemoveLine
  <1>14. ASSUME c.op = "ClearBasket", Written(r) = items \ ItemsOf(items, cmd[r].basket)
         PROVE  Promise!RemoveAllLines(r)
    <2>1. PromisedLines' = {x \in PromisedLines : x.basket # c.basket}
      <3>1. \A x \in items :
              x \in Written(r) <=> PromisedLine(x).basket # c.basket
        BY <1>14, LineFields DEF ItemsOf
      <3>2. Written(r) \subseteq items
        BY <1>14
      <3> QED BY <1>6, <3>1, <3>2 DEF PromisedLines
    <2> QED BY <1>5, <1>14, <2>1 DEF Promise!RemoveAllLines
  <1> QED
    BY <1>1, <1>10, <1>11, <1>12, <1>13, <1>14, WrittenCases DEF Promise!Apply, AnswerInv

(***************************************************************************)
(* The theorem.                                                            *)
(***************************************************************************)
LEMMA InitPromise == Init => Promise!Init
  <1> SUFFICES ASSUME Init PROVE Promise!Init OBVIOUS
  <1>1. [status |-> "ACTIVE", currency |-> defaultCurrencyCode, version |-> 0] # None
    <2>1. [status |-> "ACTIVE", currency |-> defaultCurrencyCode, version |-> 0] \in BasketRow
      BY CurrencyAssumption DEF BasketRow, BasketStatus
    <2> QED BY <2>1, NoneAssumption
  <1>2. PromisedStatus = [b \in Baskets |-> IF b \in SeedBaskets THEN "ACTIVE" ELSE None]
    BY <1>1 DEF Init, PromisedStatus
  <1>3. PromisedLines = {Promise!Line(x) : x \in SeedItems}
    BY DEF Init, PromisedLines, PromisedLine, Promise!Line
  <1>4. /\ PromisedStage = [r \in Requests |-> "idle"]
        /\ PromisedCode = [r \in Requests |-> "pending"]
    BY DEF Init, PromisedStage, PromisedCode, Stage, CodeSoFar
  <1> QED BY <1>2, <1>3, <1>4 DEF Init, Promise!Init

LEMMA HandlerStep ==
  ASSUME AnswerInv, NEW r \in Requests, Handler(r)
  PROVE  AnsweredOrHidden(r) \/ Promise!Apply(r)
  <1>1. CASE Reject(r)
    BY <1>1, EarlyFailStep, NamedErrors DEF Reject, AnsweredOrHidden
  <1>2. CASE InsertBasketDuplicate(r)
    BY <1>2, EarlyFailStep, ErrorCodes DEF InsertBasketDuplicate, AnsweredOrHidden
  <1>3. CASE CatalogRefuses(r)
    BY <1>3, EarlyFailStep, ErrorCodes DEF CatalogRefuses, AnsweredOrHidden
  <1>4. CASE LockBasketRefused(r)
    BY <1>4, EarlyFailStep, NamedErrors DEF LockBasketRefused, AnsweredOrHidden
  <1>5. CASE ReportLostAck(r)
    BY <1>5, FailStep, ErrorCodes DEF ReportLostAck, AnsweredOrHidden
  <1>6. CASE InsertBasket(r) \/ Commit(r)
    BY <1>6, InsertBasketStep, CommitStep DEF InsertBasket, Commit, Promise!Apply
  <1>7. CASE LoadRow(r) \/ LoadItems(r)
    BY <1>7, ReadSteps
  <1>8. CASE Precheck(r) \/ CatalogQuotes(r) \/ BeginTx(r) \/ LockBasket(r) \/ FindItem(r)
             \/ LockItem(r) \/ InsertItem(r) \/ InsertCollides(r)
    BY <1>8, EarlySteps
  <1>9. CASE UpdateExistingItem(r) \/ UpdateQuantity(r) \/ DeleteItem(r)
             \/ DeleteItems(r) \/ TouchBasket(r)
    BY <1>9, WriteSteps
  <1> QED BY <1>1, <1>2, <1>3, <1>4, <1>5, <1>6, <1>7, <1>8, <1>9 DEF Handler

LEMMA StepPromise ==
  ASSUME AnswerInv, [Next]_vars
  PROVE  [Promise!Next]_(Promise!vars)
  <1> USE DEF Promise!Next
  <1>1. ASSUME NEW r \in Requests, Accept(r) PROVE Promise!Next
    BY <1>1, AcceptStep
  <1>2. ASSUME NEW r \in Requests, Handler(r) PROVE [Promise!Next]_(Promise!vars)
    BY <1>2, HandlerStep DEF AnsweredOrHidden
  <1>3. ASSUME NEW r \in Requests, StatementFails(r) PROVE Promise!Next
    BY <1>3, FailStep, ErrorCodes DEF StatementFails, RunsStatement
  <1>4. ASSUME NEW r \in Requests, CommitAckLost(r) PROVE Promise!Next
    BY <1>4, CommitStep, InsertBasketStep DEF CommitAckLost, Promise!Apply
  <1>5. ASSUME NEW b \in Baskets, LeaveActive(b) PROVE Promise!Next
    BY <1>5, LeaveActiveStep
  <1>6. CASE Crash
    BY <1>6, CrashStep
  <1>7. CASE UNCHANGED vars
    BY <1>7
    DEF vars, database, locals, Promise!vars, PromisedStatus, PromisedLines, PromisedStage,
        PromisedCode, Stage, CodeSoFar, Code
  <1> QED BY <1>1, <1>2, <1>3, <1>4, <1>5, <1>6, <1>7 DEF Next, Terminated

\* Whatever interleavings, retries, failures, lost acknowledgements and crashes there
\* are, the callers of the basket-service see commands that take effect atomically,
\* at most once, between call and answer.
THEOREM PromiseKept == Spec => KeepsPromise
  <1>1. Init => Promise!Init
    BY InitPromise
  <1>2. AnswerInv /\ [Next]_vars => [Promise!Next]_(Promise!vars)
    BY StepPromise
  <1> QED BY <1>1, <1>2, Answers, PTL DEF Spec, Promise!Spec, KeepsPromise
=============================================================================
