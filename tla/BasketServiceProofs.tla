------------------------ MODULE BasketServiceProofs ------------------------
(***************************************************************************)
(* Proofs that BasketService has the safety properties of                  *)
(* BasketProperties for every value of its constants.                      *)
(***************************************************************************)
EXTENDS BasketProperties, TLAPS

\* A product of naturals is one; the SMT backend needs it alone.
LEMMA ProductNat == ASSUME NEW m \in Nat, NEW n \in Nat PROVE m * n \in Nat
  OBVIOUS

\* A line total is a natural number.
LEMMA LineTotalNat ==
  ASSUME NEW n \in Quantity, NEW q \in Quote
  PROVE  LineTotal(n, q) \in Nat
  <1>1. n \in Nat
    BY QuantityAssumption DEF Quantity, minBasketQuantity
  <1>2. q.amount \in Nat
    BY AmountsAssumption DEF Quote
  <1> QED BY <1>1, <1>2, ProductNat DEF LineTotal

\* The tables earlier requests left, and handlers that have not started, are well typed.
LEMMA InitType == Init => TypeInv
  <1> SUFFICES ASSUME Init PROVE TypeInv OBVIOUS
  <1> USE DEF Init
  <1>1. TypeOK
    <2>1. baskets \in [Baskets -> BasketRow \cup {None}]
      BY CurrencyAssumption DEF BasketRow, BasketStatus
    <2>2. items \subseteq Item
      BY SeedAssumption
    <2>3. pc \in [Requests -> Steps]
      BY DEF Steps
    <2>4. attempt \in [Requests -> 1 .. maxIDGenerationAttempts]
      BY AttemptsAssumption
    <2>5. result \in [Requests -> Errors \cup {"pending", "nil", "lost"}]
      OBVIOUS
    <2> QED BY <2>1, <2>2, <2>3, <2>4, <2>5 DEF TypeOK
  <1>2. \A r \in Requests : Control(r)
    BY DEF Control, InTransaction, HoldsLock
  <1> QED BY <1>1, <1>2 DEF TypeInv

\* A request's command has the fields BasketQuery gives it.
LEMMA CommandType ==
  ASSUME TypeOK, NEW r \in Requests
  PROVE  /\ cmd[r] \in Command
         /\ cmd[r].op \in Ops /\ cmd[r].basket \in Baskets /\ cmd[r].variant \in Variants
         /\ cmd[r].item \in ItemIds /\ cmd[r].qty \in Int
  <1>1. cmd[r] \in Command
    BY CommandsAssumption DEF TypeOK
  <1> QED BY <1>1 DEF Command

\* Control(s) speaks of s's own state, and of a basket that is never deleted.
LEMMA ControlFrame ==
  ASSUME NEW s \in Requests, Control(s), cmd[s].basket \in Baskets,
         pc'[s] = pc[s], cmd'[s] = cmd[s], quote'[s] = quote[s], found'[s] = found[s],
         newId'[s] = newId[s], loaded'[s] = loaded[s],
         \A b \in Baskets : baskets[b] # None => baskets'[b] # None
  PROVE  Control(s)'
  BY DEF Control, InTransaction, HoldsLock, Inserts, Grows

\* Returning an error is safe wherever it happens.
LEMMA FailType ==
  ASSUME TypeInv, NEW r \in Requests, NEW err \in Errors, Fail(r, err)
  PROVE  TypeInv'
  <1> USE DEF Fail, Goto, locals
  <1>1. TypeOK'
    BY DEF TypeInv, TypeOK, Steps, Release
  <1>2. Control(r)'
    BY DEF TypeInv, TypeOK, Control, InTransaction, HoldsLock
  <1>3. ASSUME NEW s \in Requests, s # r PROVE Control(s)'
    BY <1>3, CommandType, ControlFrame DEF TypeInv, TypeOK
  <1> QED BY <1>1, <1>2, <1>3 DEF TypeInv

\* A step that only moves on to the next statement.
LEMMA MoveType ==
  ASSUME TypeInv, NEW r \in Requests, NEW step \in Steps, Goto(r, step),
         UNCHANGED <<database, locals, loaded, result, applied>>, Control(r)'
  PROVE  TypeInv'
  <1> USE DEF Goto, database, locals
  <1>1. TypeOK'
    BY DEF TypeInv, TypeOK
  <1>2. ASSUME NEW s \in Requests, s # r PROVE Control(s)'
    BY <1>2, CommandType, ControlFrame DEF TypeInv, TypeOK
  <1> QED BY <1>1, <1>2 DEF TypeInv

\* A step of r that leaves the basket rows alone; only r's own facts are at stake.
LEMMA OthersControl ==
  ASSUME TypeInv, NEW r \in Requests, TypeOK', Control(r)',
         UNCHANGED cmd,
         \A s \in Requests \ {r} :
           /\ pc'[s] = pc[s] /\ quote'[s] = quote[s] /\ found'[s] = found[s]
           /\ newId'[s] = newId[s] /\ loaded'[s] = loaded[s],
         \A b \in Baskets : baskets[b] # None => baskets'[b] # None
  PROVE  TypeInv'
  <1>1. ASSUME NEW s \in Requests, s # r PROVE Control(s)'
    BY <1>1, CommandType, ControlFrame DEF TypeInv
  <1> QED BY <1>1 DEF TypeInv

\* An accepted call goes to the first statement of its own operation.
LEMMA AcceptType == ASSUME TypeInv, NEW r \in Requests, Accept(r) PROVE TypeInv'
  <1> DEFINE step == IF ValidArguments(cmd[r]) THEN FirstStep(cmd[r]) ELSE "invalid"
  <1>1. step \in Steps
    BY DEF FirstStep, Steps
  <1>2. Goto(r, step) /\ UNCHANGED <<database, locals, loaded, result, applied>>
    BY DEF Accept
  <1>3. Control(r)'
    <2>1. pc'[r] = step /\ UNCHANGED cmd
      BY <1>2 DEF Goto, TypeInv, TypeOK, locals
    <2>2. CASE ValidArguments(cmd[r])
      <3>1. cmd[r].op \in Ops
        BY CommandType DEF TypeInv
      <3> QED BY <2>1, <2>2, <3>1 DEF Control, FirstStep, InTransaction, HoldsLock, Ops, Writes
    <2>3. CASE ~ValidArguments(cmd[r])
      BY <2>1, <2>3 DEF Control, ValidArguments, InTransaction, HoldsLock
    <2> QED BY <2>2, <2>3
  <1> QED BY <1>1, <1>2, <1>3, MoveType

\* The statements that only move on keep what Control says.
LEMMA MovesType ==
  ASSUME TypeInv, NEW r \in Requests
  PROVE  /\ BeginTx(r) => TypeInv'
         /\ UpdateQuantity(r) => TypeInv'
         /\ DeleteItems(r) => TypeInv'
         /\ TouchBasket(r) => TypeInv'
  <1> USE DEF Control, Inserts, Grows, InTransaction, HoldsLock, Goto, locals, database,
              TypeInv, TypeOK, Steps
  <1>1. CASE BeginTx(r)
    <2>1. Control(r)' BY <1>1 DEF BeginTx
    <2> QED BY <1>1, <2>1, MoveType DEF BeginTx
  <1>2. CASE UpdateQuantity(r)
    <2>1. Control(r)' BY <1>2 DEF UpdateQuantity
    <2> QED BY <1>2, <2>1, MoveType DEF UpdateQuantity
  <1>3. CASE DeleteItems(r)
    <2>1. Control(r)' BY <1>3 DEF DeleteItems
    <2> QED BY <1>3, <2>1, MoveType DEF DeleteItems
  <1>4. CASE TouchBasket(r)
    <2>1. Control(r)' BY <1>4 DEF TouchBasket
    <2> QED BY <1>4, <2>1, MoveType DEF TouchBasket
  <1> QED BY <1>1, <1>2, <1>3, <1>4

\* GetBasket's two reads, and the pre-check of AddItem.
LEMMA ReadsType ==
  ASSUME TypeInv, NEW r \in Requests
  PROVE  /\ LoadRow(r) => TypeInv'
         /\ LoadItems(r) => TypeInv'
         /\ Precheck(r) => TypeInv'
  <1> USE DEF Control, Inserts, Grows, InTransaction, HoldsLock, Goto, locals, database,
              TypeInv
  <1>1. CASE LoadRow(r)
    <2>1. CASE baskets[cmd[r].basket] = None
      <3>1. Fail(r, "ErrBasketNotFound")
        BY <1>1, <2>1 DEF LoadRow
      <3> QED BY <3>1, FailType DEF Errors, NotFoundErrors
    <2>2. CASE baskets[cmd[r].basket] # None
      <3> DEFINE row == baskets[cmd[r].basket]
      <3>1. row \in BasketRow
        BY <2>2, CommandType DEF TypeOK
      <3>2. [status |-> row.status, version |-> row.version, items |-> {},
             asOf |-> row.version] \in LoadedBasket
        BY <3>1 DEF BasketRow, LoadedBasket
      <3>3. /\ loaded' = [loaded EXCEPT ![r] = [status |-> row.status,
                 version |-> row.version, items |-> {}, asOf |-> row.version]]
            /\ Goto(r, IF pc[r] = "row" THEN "items" ELSE "precheckItems")
            /\ pc[r] \in {"row", "precheckRow"}
            /\ UNCHANGED <<database, locals, result, applied>>
        BY <1>1, <2>2 DEF LoadRow, Fail
      <3>4. TypeOK'
        BY <3>2, <3>3 DEF TypeOK, Steps
      <3>5. loaded'[r] # None
        BY <3>2, <3>3, NoBasketAssumption DEF TypeOK
      <3>6. Control(r)'
        BY <3>3, <3>5, <2>2 DEF TypeOK
      <3> QED BY <3>3, <3>4, <3>6, OthersControl DEF TypeOK
    <2> QED BY <2>1, <2>2
  <1>2. CASE LoadItems(r)
    <2> DEFINE row == baskets[cmd[r].basket]
    <2>1. row \in BasketRow /\ loaded[r] \in LoadedBasket
      BY <1>2, CommandType DEF TypeOK, LoadItems
    <2>2. [loaded[r] EXCEPT !.items = ItemsOf(items, cmd[r].basket),
                            !.asOf = row.version] \in LoadedBasket
      BY <2>1 DEF TypeOK, ItemsOf, LoadedBasket, BasketRow
    <2>3. loaded' = [loaded EXCEPT ![r] =
            [loaded[r] EXCEPT !.items = ItemsOf(items, cmd[r].basket), !.asOf = row.version]]
      BY <1>2 DEF LoadItems, TypeOK
    <2>4. TypeOK'
      BY <1>2, <2>2, <2>3 DEF TypeOK, LoadItems, Steps
    <2>5. Control(r)'
      BY <1>2 DEF TypeOK, LoadItems
    <2> QED BY <1>2, <2>4, <2>5, OthersControl DEF TypeOK, LoadItems
  <1>3. CASE Precheck(r)
    <2>1. CASE Fail(r, "ErrBasketNotModifiable") \/ Fail(r, "ErrInvalidQuantity")
      BY <2>1, FailType DEF Errors, ArgumentErrors, PreconditionErrors
    <2>2. CASE /\ Goto(r, "catalog")
               /\ loaded' = [loaded EXCEPT ![r] = None]
               /\ UNCHANGED <<database, locals, result, applied>>
      <3>1. TypeOK'
        BY <2>2 DEF TypeOK, Steps
      <3>2. Control(r)'
        BY <1>3, <2>2 DEF TypeOK, Precheck
      <3> QED BY <2>2, <3>1, <3>2, OthersControl DEF TypeOK
    <2> QED BY <1>3, <2>1, <2>2 DEF Precheck
  <1> QED BY <1>1, <1>2, <1>3

\* Whatever the catalog answers, AddItem goes on with a quote or fails.
LEMMA CatalogType ==
  ASSUME TypeInv, NEW r \in Requests
  PROVE  /\ CatalogQuotes(r) => TypeInv'
         /\ CatalogRefuses(r) => TypeInv'
  <1> USE DEF Control, Inserts, Grows, InTransaction, HoldsLock, Goto, locals, database,
              TypeInv
  <1>1. CASE CatalogQuotes(r)
    <2>1. TypeOK'
      BY <1>1 DEF CatalogQuotes, TypeOK, Steps
    <2>2. quote'[r] # None
      BY <1>1, NoneAssumption DEF CatalogQuotes, TypeOK
    <2>3. Control(r)'
      BY <1>1, <2>2 DEF CatalogQuotes, TypeOK, Writes
    <2> QED BY <1>1, <2>1, <2>3, OthersControl DEF CatalogQuotes, TypeOK
  <1>2. CASE CatalogRefuses(r)
    <2>1. CatalogErrors \subseteq Errors
      BY DEF CatalogErrors, Errors, NotFoundErrors, PreconditionErrors, OtherErrors
    <2> QED BY <1>2, <2>1, FailType DEF CatalogRefuses
  <1> QED BY <1>1, <1>2

\* CreateBasket's INSERT adds a well-typed row.
LEMMA InsertBasketType ==
  ASSUME TypeInv, NEW r \in Requests, NEW next \in {"row", "ackLost"},
         InsertBasketRow(r, next)
  PROVE  TypeInv'
  <1> DEFINE row == [status |-> "ACTIVE", currency |-> defaultCurrencyCode, version |-> 0]
  <1>1. row \in BasketRow
    BY CurrencyAssumption DEF BasketRow, BasketStatus
  <1>2. baskets' = [baskets EXCEPT ![cmd[r].basket] = row]
    BY DEF InsertBasketRow
  <1>3. TypeOK'
    <2>1. baskets' \in [Baskets -> BasketRow \cup {None}]
      BY <1>1, <1>2 DEF TypeInv, TypeOK
    <2>2. applied' \in [Requests -> SUBSET Nat]
      BY DEF InsertBasketRow, TypeInv, TypeOK
    <2>3. pc' \in [Requests -> Steps]
      BY DEF InsertBasketRow, Goto, TypeInv, TypeOK, Steps
    <2> QED BY <2>1, <2>2, <2>3 DEF InsertBasketRow, locals, TypeInv, TypeOK
  <1>4. Control(r)'
    BY DEF InsertBasketRow, Goto, locals, TypeInv, TypeOK, Control, InTransaction, HoldsLock
  <1>5. \A b \in Baskets : baskets[b] # None => baskets'[b] # None
    BY <1>2 DEF InsertBasketRow, TypeInv, TypeOK
  <1> QED
    BY <1>3, <1>4, <1>5, OthersControl DEF InsertBasketRow, Goto, locals, TypeInv, TypeOK

\* lockBasketForUpdate, granted or refused.
LEMMA LocksType ==
  ASSUME TypeInv, NEW r \in Requests
  PROVE  /\ LockBasket(r) => TypeInv'
         /\ LockBasketRefused(r) => TypeInv'
  <1> USE DEF Control, Inserts, Grows, InTransaction, HoldsLock, Goto, locals, TypeInv
  <1>1. CASE LockBasket(r)
    <2>1. TypeOK'
      <3>1. lockedBy' \in [Baskets -> Requests \cup {None}]
        BY <1>1 DEF LockBasket, TypeOK
      <3>2. pc' \in [Requests -> Steps]
        BY <1>1 DEF LockBasket, TypeOK, Steps
      <3> QED BY <1>1, <3>1, <3>2 DEF LockBasket, TypeOK
    <2>2. Control(r)'
      BY <1>1 DEF LockBasket, LockError, TypeOK
    <2> QED BY <1>1, <2>1, <2>2, OthersControl DEF LockBasket, TypeOK
  <1>2. CASE LockBasketRefused(r)
    <2>1. LockError(r) \in Errors
      BY <1>2 DEF LockBasketRefused, LockError, Errors, NotFoundErrors, PreconditionErrors
    <2> QED BY <1>2, <2>1, FailType DEF LockBasketRefused
  <1> QED BY <1>1, <1>2

\* The item a transaction reads FOR UPDATE is a row, or None.
LEMMA FindsType ==
  ASSUME TypeInv, NEW r \in Requests
  PROVE  /\ FindItem(r) => TypeInv'
         /\ LockItem(r) => TypeInv'
  <1> USE DEF Control, Inserts, Grows, InTransaction, HoldsLock, Goto, locals, database,
              TypeInv
  <1>1. CASE FindItem(r)
    <2>1. PICK x \in Item \cup {None} : found' = [found EXCEPT ![r] = x]
      BY <1>1 DEF FindItem, SamePair, TypeOK
    <2>2. TypeOK'
      <3>1. found' \in [Requests -> Item \cup {None}]
        BY <2>1 DEF TypeOK
      <3>2. pc' \in [Requests -> Steps]
        BY <1>1 DEF FindItem, TypeOK, Steps
      <3> QED BY <1>1, <3>1, <3>2 DEF FindItem, TypeOK
    <2>3. Control(r)'
      BY <1>1, <2>1 DEF FindItem, TypeOK
    <2> QED BY <1>1, <2>1, <2>2, <2>3, OthersControl DEF FindItem, TypeOK
  <1>2. CASE LockItem(r)
    <2>1. CASE Fail(r, "ErrBasketItemNotFound")
      BY <2>1, FailType DEF Errors, NotFoundErrors
    <2>2. CASE ~Fail(r, "ErrBasketItemNotFound")
      <3>1. PICK x \in items : found' = [found EXCEPT ![r] = x]
        BY <1>2, <2>2 DEF LockItem, SameId
      <3>2. x \in Item /\ x # None
        BY NoneAssumption DEF TypeOK
      <3>3. TypeOK'
        BY <1>2, <2>2, <3>1, <3>2 DEF LockItem, TypeOK, Steps
      <3>4. Control(r)'
        BY <1>2, <2>2, <3>1, <3>2 DEF LockItem, TypeOK
      <3> QED BY <1>2, <2>2, <3>1, <3>3, <3>4, OthersControl DEF LockItem, TypeOK
    <2> QED BY <2>1, <2>2
  <1> QED BY <1>1, <1>2

\* The writing statements: the new id, the retry, the combined quantity, the row to delete.
LEMMA WritesType ==
  ASSUME TypeInv, NEW r \in Requests
  PROVE  /\ InsertItem(r) => TypeInv'
         /\ InsertCollides(r) => TypeInv'
         /\ UpdateExistingItem(r) => TypeInv'
         /\ DeleteItem(r) => TypeInv'
  <1> USE DEF Control, Inserts, Grows, InTransaction, HoldsLock, Goto, locals, database,
              TypeInv
  <1>1. CASE InsertItem(r)
    <2>1. PICK id \in ItemIds : newId' = [newId EXCEPT ![r] = id]
      BY <1>1 DEF InsertItem
    <2>2. TypeOK'
      BY <1>1, <2>1 DEF InsertItem, TypeOK, Steps
    <2>3. Control(r)'
      BY <1>1, <2>1, NoneAssumption DEF InsertItem, TypeOK
    <2> QED BY <1>1, <2>1, <2>2, <2>3, OthersControl DEF InsertItem, TypeOK
  <1>2. CASE InsertCollides(r)
    <2>1. CASE Fail(r, "ErrCouldNotAllocateItemID")
      BY <2>1, FailType DEF Errors, OtherErrors
    <2>2. CASE ~Fail(r, "ErrCouldNotAllocateItemID")
      <3>1. TypeOK'
        <4>1. attempt' \in [Requests -> 1 .. maxIDGenerationAttempts]
          BY <1>2, <2>2, AttemptsAssumption DEF InsertCollides, TypeOK
        <4>2. lockedBy' \in [Baskets -> Requests \cup {None}]
          BY <1>2, <2>2 DEF InsertCollides, TypeOK, Release
        <4>3. pc' \in [Requests -> Steps]
          BY <1>2, <2>2 DEF InsertCollides, TypeOK, Steps
        <4> QED BY <1>2, <2>2, <4>1, <4>2, <4>3 DEF InsertCollides, TypeOK
      <3>2. Control(r)'
        BY <1>2, <2>2 DEF InsertCollides, TypeOK
      <3> QED BY <1>2, <2>2, <3>1, <3>2, OthersControl DEF InsertCollides, TypeOK
    <2> QED BY <2>1, <2>2
  <1>3. CASE UpdateExistingItem(r)
    <2>1. CASE Fail(r, "ErrInvalidQuantity")
      BY <2>1, FailType DEF Errors, ArgumentErrors
    <2>2. CASE ~Fail(r, "ErrInvalidQuantity")
      <3>1. Control(r)'
        BY <1>3, <2>2 DEF UpdateExistingItem, TypeOK
      <3> QED BY <1>3, <2>2, <3>1, MoveType DEF UpdateExistingItem, Steps
    <2> QED BY <2>1, <2>2
  <1>4. CASE DeleteItem(r)
    <2>1. CASE Fail(r, "ErrBasketItemNotFound")
      BY <2>1, FailType DEF Errors, NotFoundErrors
    <2>2. CASE ~Fail(r, "ErrBasketItemNotFound")
      <3>1. Control(r)'
        BY <1>4, <2>2 DEF DeleteItem, TypeOK
      <3> QED BY <1>4, <2>2, <3>1, MoveType DEF DeleteItem, Steps
    <2> QED BY <2>1, <2>2
  <1> QED BY <1>1, <1>2, <1>3, <1>4

(***************************************************************************)
(* A commit writes rows of the right shape.                                *)
(***************************************************************************)
\* A new line is a well-typed row.
LEMMA InsertedItemType ==
  ASSUME TypeInv, NEW r \in Requests, pc[r] = "commit", Inserts(r)
  PROVE  InsertedItem(r) \in Item
  <1>1. /\ newId[r] \in ItemIds /\ quote[r] \in Quote /\ cmd[r].qty \in Quantity
        /\ cmd[r].basket \in Baskets /\ cmd[r].variant \in Variants
    BY CommandType DEF TypeInv, TypeOK, Control, InTransaction, Inserts, ValidArguments
  <1>2. LineTotal(cmd[r].qty, quote[r]) \in Nat
    BY <1>1, LineTotalNat
  <1> QED BY <1>1, <1>2 DEF InsertedItem, Item

\* A line that grows stays in range: the sum was checked under the lock.
LEMMA GrownType ==
  ASSUME TypeInv, NEW r \in Requests, pc[r] = "commit", Grows(r), NEW x \in items
  PROVE  Grown(r, x) \in Item
  <1> DEFINE qty == found[r].qty + cmd[r].qty
  <1>1. x \in Item /\ quote[r] \in Quote /\ qty \in Quantity
    BY DEF TypeInv, TypeOK, Control, InTransaction, Grows
  <1>2. LineTotal(qty, quote[r]) \in Nat
    BY <1>1, LineTotalNat
  <1> HIDE DEF qty
  <1>3. [x EXCEPT !.qty = qty, !.unit = quote[r], !.total = LineTotal(qty, quote[r])] \in Item
    BY <1>1, <1>2 DEF Item
  <1> QED BY <1>3 DEF Grown, qty

\* A line whose quantity is replaced stays in range.
LEMMA RequantifiedType ==
  ASSUME TypeInv, NEW r \in Requests, pc[r] = "commit",
         cmd[r].op = "UpdateItemQuantity", NEW x \in items
  PROVE  Requantified(r, x) \in Item
  <1>1. x \in Item /\ found[r] \in Item /\ cmd[r].qty \in Quantity
    BY DEF TypeInv, TypeOK, Control, InTransaction, ValidArguments
  <1>2. found[r].unit \in Quote
    BY <1>1 DEF Item
  <1>3. LineTotal(cmd[r].qty, found[r].unit) \in Nat
    BY <1>1, <1>2, LineTotalNat
  <1> QED BY <1>1, <1>3 DEF Requantified, Item

\* The table a commit leaves is well typed.
LEMMA WrittenType ==
  ASSUME TypeInv, NEW r \in Requests, pc[r] = "commit"
  PROVE  Written(r) \subseteq Item
  <1>1. items \subseteq Item
    BY DEF TypeInv, TypeOK
  <1>2. cmd[r].op \in Writes
    BY DEF TypeInv, Control, InTransaction
  <1>3. CASE Inserts(r)
    <2>1. Written(r) = items \cup {InsertedItem(r)}
      BY <1>3 DEF Written, Inserts, Grows
    <2> QED BY <1>1, <1>3, <2>1, InsertedItemType
  <1>4. CASE Grows(r)
    <2>1. Written(r) = {IF x.basket = cmd[r].basket /\ x.id = found[r].id
                          THEN Grown(r, x) ELSE x : x \in items}
      BY <1>4 DEF Written, Inserts, Grows
    <2> QED BY <1>1, <1>4, <2>1, GrownType
  <1>5. CASE cmd[r].op = "UpdateItemQuantity"
    <2>1. Written(r) =
            {IF x \in SameId(items, cmd[r]) THEN Requantified(r, x) ELSE x : x \in items}
      BY <1>5 DEF Written, Inserts, Grows
    <2> QED BY <1>1, <1>5, <2>1, RequantifiedType
  <1>6. CASE cmd[r].op \in {"RemoveItem", "ClearBasket"}
    BY <1>1, <1>6 DEF Written, Inserts, Grows
  <1> QED BY <1>2, <1>3, <1>4, <1>5, <1>6 DEF Writes, Inserts, Grows

\* A commit keeps every type, with or without its acknowledgement.
LEMMA CommitType ==
  ASSUME TypeInv, NEW r \in Requests, NEW next \in {"row", "ackLost"}, CommitTx(r, next)
  PROVE  TypeInv'
  <1> DEFINE b == cmd[r].basket
  <1>1. b \in Baskets /\ baskets[b] \in BasketRow
    BY CommandType DEF CommitTx, TypeInv, TypeOK, Control, HoldsLock
  <1>2. baskets[b].version + 1 \in Nat
    BY <1>1 DEF BasketRow
  <1>3. [baskets[b] EXCEPT !.version = @ + 1] \in BasketRow
    BY <1>1, <1>2 DEF BasketRow
  <1>4. baskets' = [baskets EXCEPT ![b] = [baskets[b] EXCEPT !.version = @ + 1]]
    BY <1>1 DEF CommitTx, TypeInv, TypeOK
  <1>5. TypeOK'
    <2>1. baskets' \in [Baskets -> BasketRow \cup {None}]
      BY <1>1, <1>3, <1>4 DEF TypeInv, TypeOK
    <2>2. items' \subseteq Item
      BY WrittenType DEF CommitTx
    <2>3. lockedBy' \in [Baskets -> Requests \cup {None}]
      BY DEF CommitTx, Release, TypeInv, TypeOK
    <2>4. pc' \in [Requests -> Steps]
      BY DEF CommitTx, Goto, TypeInv, TypeOK, Steps
    <2>5. applied' \in [Requests -> SUBSET Nat]
      BY <1>2 DEF CommitTx, TypeInv, TypeOK
    <2> QED BY <2>1, <2>2, <2>3, <2>4, <2>5 DEF CommitTx, locals, TypeInv, TypeOK
  <1>6. Control(r)'
    BY DEF CommitTx, Goto, locals, TypeInv, TypeOK, Control, InTransaction, HoldsLock
  <1>7. \A x \in Baskets : baskets[x] # None => baskets'[x] # None
    BY <1>1, <1>3, <1>4, NoneAssumption DEF TypeInv, TypeOK
  <1> QED BY <1>5, <1>6, <1>7, OthersControl DEF CommitTx, Goto, locals, TypeInv, TypeOK

\* Checkout and expiry only change the status and version of a row.
LEMMA LeaveActiveType ==
  ASSUME TypeInv, NEW b \in Baskets, LeaveActive(b)
  PROVE  TypeInv'
  <1>1. baskets[b] \in BasketRow /\ baskets[b].version + 1 \in Nat
    BY DEF LeaveActive, TypeInv, TypeOK, BasketRow
  <1>2. PICK s \in ExternalStatuses :
          baskets' = [baskets EXCEPT ![b].status = s, ![b].version = @ + 1]
    BY DEF LeaveActive
  <1> DEFINE row == [baskets[b] EXCEPT !.status = s, !.version = @ + 1]
  <1>3. row \in BasketRow
    BY <1>1, ExternalAssumption DEF BasketRow
  <1>4. baskets' = [baskets EXCEPT ![b] = row]
    BY <1>2 DEF TypeInv, TypeOK
  <1>5. TypeOK'
    BY <1>3, <1>4 DEF LeaveActive, locals, TypeInv, TypeOK
  <1>6. \A x \in Baskets : baskets[x] # None => baskets'[x] # None
    BY <1>3, <1>4, NoneAssumption DEF TypeInv, TypeOK
  <1>7. ASSUME NEW s1 \in Requests PROVE Control(s1)'
    BY <1>6, CommandType, ControlFrame DEF LeaveActive, locals, TypeInv
  <1> QED BY <1>5, <1>7 DEF TypeInv

\* A crash ends every call in flight.
LEMMA CrashType == ASSUME TypeInv, Crash PROVE TypeInv'
  <1>1. TypeOK'
    BY DEF Crash, locals, TypeInv, TypeOK, Steps
  <1>2. ASSUME NEW r \in Requests, r \in InFlight PROVE Control(r)'
    BY <1>2 DEF Crash, Control, InTransaction, HoldsLock
  <1>3. ASSUME NEW r \in Requests, r \notin InFlight PROVE Control(r)'
    BY <1>3, CommandType, ControlFrame DEF Crash, locals, TypeInv, TypeOK
  <1> QED BY <1>1, <1>2, <1>3 DEF TypeInv

\* TypeInv is inductive.
LEMMA StepType == ASSUME TypeInv, [Next]_vars PROVE TypeInv'
  <1>1. ASSUME NEW r \in Requests, Accept(r) PROVE TypeInv'
    BY <1>1, AcceptType
  <1>2. ASSUME NEW r \in Requests, Handler(r) PROVE TypeInv'
    <2>1. ArgumentError(cmd[r]) \in Errors
      BY DEF ArgumentError, Errors, ArgumentErrors
    <2>2. "statement failed" \in Errors
      BY DEF Errors, OtherErrors
    <2>3. CASE Reject(r) \/ InsertBasketDuplicate(r) \/ ReportLostAck(r)
      BY <2>1, <2>2, <2>3, FailType DEF Reject, InsertBasketDuplicate, ReportLostAck
    <2>4. CASE InsertBasket(r) \/ Commit(r)
      BY <2>4, InsertBasketType, CommitType DEF InsertBasket, Commit
    <2>5. CASE LoadRow(r) \/ LoadItems(r) \/ Precheck(r)
      BY <2>5, ReadsType
    <2>6. CASE CatalogQuotes(r) \/ CatalogRefuses(r)
      BY <2>6, CatalogType
    <2>7. CASE LockBasket(r) \/ LockBasketRefused(r)
      BY <2>7, LocksType
    <2>8. CASE FindItem(r) \/ LockItem(r)
      BY <2>8, FindsType
    <2>9. CASE InsertItem(r) \/ InsertCollides(r) \/ UpdateExistingItem(r) \/ DeleteItem(r)
      BY <2>9, WritesType
    <2>10. CASE BeginTx(r) \/ UpdateQuantity(r) \/ DeleteItems(r) \/ TouchBasket(r)
      BY <2>10, MovesType
    <2> QED
      BY <1>2, <2>3, <2>4, <2>5, <2>6, <2>7, <2>8, <2>9, <2>10 DEF Handler
  <1>3. ASSUME NEW r \in Requests, StatementFails(r) PROVE TypeInv'
    BY <1>3, FailType DEF StatementFails, Errors, OtherErrors
  <1>4. ASSUME NEW r \in Requests, CommitAckLost(r) PROVE TypeInv'
    BY <1>4, CommitType, InsertBasketType DEF CommitAckLost
  <1>5. ASSUME NEW b \in Baskets, LeaveActive(b) PROVE TypeInv'
    BY <1>5, LeaveActiveType
  <1>6. CASE Crash
    BY <1>6, CrashType
  <1>7. CASE UNCHANGED vars
    BY <1>7 DEF vars, database, locals, TypeInv, TypeOK, Control, InTransaction, HoldsLock,
            Inserts, Grows
  <1> QED
    BY <1>1, <1>2, <1>3, <1>4, <1>5, <1>6, <1>7 DEF Next, Terminated

\* Every variable keeps its type, for any number of requests, baskets and items.
THEOREM TypeCorrect == Spec => []TypeOK
  <1>1. Init => TypeInv
    BY InitType
  <1>2. TypeInv /\ [Next]_vars => TypeInv'
    BY StepType
  <1>3. TypeInv => TypeOK
    BY DEF TypeInv
  <1> QED BY <1>1, <1>2, <1>3, PTL DEF Spec
=============================================================================
