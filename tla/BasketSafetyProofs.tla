------------------------- MODULE BasketSafetyProofs -------------------------
(***************************************************************************)
(* Proofs of the safety properties of BasketProperties: row locks, the     *)
(* reads made under them, the consistency of the stored items, and that    *)
(* requests neither wait for one another in a circle nor run for ever.     *)
(***************************************************************************)
EXTENDS BasketServiceProofs, FiniteSetTheorems

\* Before the first call nothing is locked and the stored items are consistent.
LEMMA InitSafe == Init => SafeInv
  <1> SUFFICES ASSUME Init PROVE SafeInv OBVIOUS
  <1>1. TypeInv
    BY InitType
  <1>2. LockOwnership
    BY NoneAssumption DEF Init, LockOwnership, HoldsLock
  <1>3. LockedReadIsCurrent
    BY DEF Init, LockedReadIsCurrent, ReadIsCurrent, HoldsLock
  <1>4. StoredItemsConsistent
    BY SeedAssumption DEF Init, StoredItemsConsistent
  <1>5. NewIdsFresh
    BY DEF Init, NewIdsFresh, Inserting
  <1>6. CurrenciesAgree
    BY DEF Init, CurrenciesAgree, HoldsLock
  <1> QED BY <1>1, <1>2, <1>3, <1>4, <1>5, <1>6 DEF SafeInv

(***************************************************************************)
(* What one request relies on is disturbed only through its own state, its *)
(* basket's row and its basket's items.                                    *)
(***************************************************************************)
LEMMA ReadFrame ==
  ASSUME NEW s \in Requests, ReadIsCurrent(s), UNCHANGED cmd,
         pc'[s] = pc[s], found'[s] = found[s],
         HoldsLock(s) =>
           /\ baskets'[cmd[s].basket] = baskets[cmd[s].basket]
           /\ SamePair(items', cmd[s]) = SamePair(items, cmd[s])
           /\ SameId(items', cmd[s]) = SameId(items, cmd[s])
  PROVE  ReadIsCurrent(s)'
  <1> USE DEF ReadIsCurrent, HoldsLock, Inserts, Grows
  <1>1. CASE HoldsLock(s)
    <2>1. /\ SamePair(items, cmd[s])' = SamePair(items, cmd[s])
          /\ SameId(items, cmd[s])' = SameId(items, cmd[s])
      BY <1>1 DEF SamePair, SameId
    <2> HIDE DEF ReadIsCurrent
    <2> QED BY <1>1, <2>1 DEF ReadIsCurrent
  <1>2. CASE ~HoldsLock(s)
    BY <1>2
  <1> QED BY <1>1, <1>2

\* A step of r that changes neither table.
LEMMA LocalSafe ==
  ASSUME SafeInv, TypeInv', NEW r \in Requests,
         UNCHANGED <<baskets, items, cmd>>,
         \A s \in Requests \ {r} :
           /\ pc'[s] = pc[s] /\ quote'[s] = quote[s] /\ found'[s] = found[s]
           /\ newId'[s] = newId[s],
         LockOwnership', ReadIsCurrent(r)',
         Inserting(r)' =>
           /\ newId'[r] \notin IdsInUse
           /\ \A s \in Requests \ {r} : Inserting(s) => newId[s] # newId'[r],
         HoldsLock(r)' /\ cmd[r].op = "AddItem" => quote'[r].currency = defaultCurrencyCode
  PROVE  SafeInv'
  <1>1. LockedReadIsCurrent'
    <2>1. ASSUME NEW s \in Requests, s # r PROVE ReadIsCurrent(s)'
      BY <2>1, ReadFrame DEF SafeInv, LockedReadIsCurrent
    <2> QED BY <2>1 DEF LockedReadIsCurrent
  <1>2. StoredItemsConsistent'
    BY DEF SafeInv, StoredItemsConsistent, IdsUnique, PairsUnique, TotalsAgree, OneCurrency
  <1>3. NewIdsFresh'
    <2>1. IdsInUse' = IdsInUse
      BY DEF IdsInUse
    <2>2. \A s \in Requests \ {r} : Inserting(s)' <=> Inserting(s)
      BY DEF Inserting, Inserts
    <2> QED BY <2>1, <2>2 DEF SafeInv, NewIdsFresh
  <1>4. CurrenciesAgree'
    BY DEF SafeInv, CurrenciesAgree, HoldsLock
  <1> QED BY <1>1, <1>2, <1>3, <1>4 DEF SafeInv

\* Locks given back: r holds none afterwards, the others hold theirs.
LEMMA ReleaseSafe ==
  ASSUME SafeInv, NEW r \in Requests, lockedBy' = Release(r), UNCHANGED cmd,
         ~HoldsLock(r)', \A s \in Requests \ {r} : pc'[s] = pc[s]
  PROVE  LockOwnership'
  BY NoneAssumption DEF SafeInv, LockOwnership, HoldsLock, Release

\* A request that keeps its locks.
LEMMA KeepSafe ==
  ASSUME SafeInv, NEW r \in Requests, UNCHANGED <<lockedBy, cmd>>,
         HoldsLock(r)' <=> HoldsLock(r), \A s \in Requests \ {r} : pc'[s] = pc[s]
  PROVE  LockOwnership'
  BY DEF SafeInv, LockOwnership, HoldsLock

\* An error return rolls back and gives the lock back.
LEMMA FailSafe ==
  ASSUME SafeInv, TypeInv', NEW r \in Requests, NEW err, Fail(r, err)
  PROVE  SafeInv'
  <1>1. pc'[r] = "done" /\ \A s \in Requests \ {r} : pc'[s] = pc[s]
    BY DEF Fail, Goto, SafeInv, TypeInv, TypeOK
  <1>2. LockOwnership'
    BY <1>1, ReleaseSafe DEF Fail, locals, HoldsLock
  <1>3. ReadIsCurrent(r)' /\ ~Inserting(r)' /\ ~HoldsLock(r)'
    BY <1>1 DEF ReadIsCurrent, Inserting, HoldsLock
  <1> QED BY <1>1, <1>2, <1>3, LocalSafe DEF Fail, locals

\* A step of r before its lock or after it.
LEMMA OutsideSafe ==
  ASSUME SafeInv, TypeInv', NEW r \in Requests,
         UNCHANGED <<baskets, items, lockedBy, cmd>>,
         \A s \in Requests \ {r} :
           /\ pc'[s] = pc[s] /\ quote'[s] = quote[s] /\ found'[s] = found[s]
           /\ newId'[s] = newId[s],
         ~HoldsLock(r), ~HoldsLock(r)'
  PROVE  SafeInv'
  <1>1. LockOwnership'
    BY KeepSafe
  <1>2. ReadIsCurrent(r)' /\ ~Inserting(r)'
    BY DEF ReadIsCurrent, HoldsLock, Inserting
  <1> QED BY <1>1, <1>2, LocalSafe

\* A step of r under its lock.
LEMMA InsideSafe ==
  ASSUME SafeInv, TypeInv', NEW r \in Requests,
         UNCHANGED <<baskets, items, lockedBy, cmd, quote>>,
         \A s \in Requests \ {r} :
           /\ pc'[s] = pc[s] /\ found'[s] = found[s] /\ newId'[s] = newId[s],
         HoldsLock(r), HoldsLock(r)', ReadIsCurrent(r)',
         Inserting(r)' =>
           /\ newId'[r] \notin IdsInUse
           /\ \A s \in Requests \ {r} : Inserting(s) => newId[s] # newId'[r]
  PROVE  SafeInv'
  <1>1. LockOwnership'
    BY KeepSafe
  <1>2. cmd[r].op = "AddItem" => quote'[r].currency = defaultCurrencyCode
    BY DEF SafeInv, CurrenciesAgree
  <1> QED BY <1>1, <1>2, LocalSafe

\* An accepted call has no lock yet.
LEMMA AcceptSafe ==
  ASSUME SafeInv, TypeInv', NEW r \in Requests, Accept(r)
  PROVE  SafeInv'
  <1>1. FirstStep(cmd[r]) \notin {"find", "write", "touch", "commit"}
    BY DEF FirstStep
  <1>2. ~HoldsLock(r) /\ ~HoldsLock(r)'
    BY <1>1 DEF Accept, Goto, HoldsLock, SafeInv, TypeInv, TypeOK
  <1> QED
    BY <1>2, OutsideSafe DEF Accept, Goto, database, locals, SafeInv, TypeInv, TypeOK

\* Everything AddItem does before its transaction, and every read back after one.
LEMMA BeforeLockSafe ==
  ASSUME SafeInv, TypeInv', NEW r \in Requests
  PROVE  /\ LoadRow(r) => SafeInv'
         /\ LoadItems(r) => SafeInv'
         /\ Precheck(r) => SafeInv'
         /\ CatalogQuotes(r) => SafeInv'
         /\ BeginTx(r) => SafeInv'
  <1> USE DEF Goto, database, locals, HoldsLock, SafeInv, TypeInv, TypeOK
  <1>1. CASE LoadRow(r)
    <2>1. CASE Fail(r, "ErrBasketNotFound")
      BY <2>1, FailSafe
    <2>2. CASE ~Fail(r, "ErrBasketNotFound")
      BY <1>1, <2>2, OutsideSafe DEF LoadRow
    <2> QED BY <2>1, <2>2
  <1>2. CASE LoadItems(r)
    BY <1>2, OutsideSafe DEF LoadItems
  <1>3. CASE Precheck(r)
    <2>1. CASE Fail(r, "ErrBasketNotModifiable") \/ Fail(r, "ErrInvalidQuantity")
      BY <2>1, FailSafe
    <2>2. CASE ~Fail(r, "ErrBasketNotModifiable") /\ ~Fail(r, "ErrInvalidQuantity")
      BY <1>3, <2>2, OutsideSafe DEF Precheck
    <2> QED BY <2>1, <2>2
  <1>4. CASE CatalogQuotes(r)
    BY <1>4, OutsideSafe DEF CatalogQuotes
  <1>5. CASE BeginTx(r)
    BY <1>5, OutsideSafe DEF BeginTx
  <1> QED BY <1>1, <1>2, <1>3, <1>4, <1>5

\* Nobody holds a free lock, and everyone else keeps the one it has.
LEMMA LockBasketSafe ==
  ASSUME SafeInv, TypeInv', NEW r \in Requests, LockBasket(r)
  PROVE  SafeInv'
  <1> DEFINE c == cmd[r]
  <1>1. c.basket \in Baskets /\ c.op \in Ops
    BY CommandType DEF SafeInv, TypeInv
  <1>2. /\ pc'[r] \in {"find", "write"} /\ pc[r] = "lock"
        /\ c.op = "AddItem" => pc'[r] = "find"
        /\ c.op = "UpdateItemQuantity" => pc'[r] = "find"
        /\ \A s \in Requests \ {r} : pc'[s] = pc[s]
    BY DEF LockBasket, Goto, SafeInv, TypeInv, TypeOK
  <1>3. LockOwnership'
    <2>1. ASSUME NEW s \in Requests, s # r, NEW b \in Baskets
          PROVE  (lockedBy[b] = s <=> HoldsLock(s) /\ cmd[s].basket = b)'
      BY <1>1, <1>2, <2>1, NoneAssumption
      DEF LockBasket, LockFree, locals, HoldsLock, SafeInv, TypeInv, TypeOK, LockOwnership
    <2>2. ASSUME NEW b \in Baskets
          PROVE  (lockedBy[b] = r <=> HoldsLock(r) /\ cmd[r].basket = b)'
      BY <1>1, <1>2, <2>2
      DEF LockBasket, locals, HoldsLock, SafeInv, TypeInv, TypeOK, LockOwnership
    <2> QED BY <2>1, <2>2 DEF LockOwnership
  <1>4. /\ baskets[c.basket] # None /\ baskets[c.basket].status = "ACTIVE"
        /\ c.op = "AddItem" => quote[r].currency = baskets[c.basket].currency
    BY DEF LockBasket, LockError
  <1>5. ReadIsCurrent(r)'
    BY <1>2, <1>4 DEF ReadIsCurrent, HoldsLock, Inserts, Grows, LockBasket, locals
  <1>6. c.op = "AddItem" => quote[r].currency = defaultCurrencyCode
    BY <1>1, <1>4 DEF SafeInv, CurrenciesAgree
  <1>7. ~Inserting(r)'
    BY <1>2 DEF Inserting
  <1> QED BY <1>2, <1>3, <1>5, <1>6, <1>7, LocalSafe DEF LockBasket, locals

\* The row FindItem chooses is one of the pair's, and None only if there is none.
LEMMA FindItemSafe ==
  ASSUME SafeInv, TypeInv', NEW r \in Requests, FindItem(r)
  PROVE  SafeInv'
  <1> DEFINE rows == SamePair(items, cmd[r])
  <1>1. /\ pc[r] = "find" /\ pc'[r] = "write" /\ cmd[r].op = "AddItem"
        /\ found'[r] = IF rows = {} THEN None ELSE CHOOSE x \in rows : TRUE
        /\ \A s \in Requests \ {r} : pc'[s] = pc[s] /\ found'[s] = found[s]
        /\ UNCHANGED <<database, cmd, quote, newId>>
    BY DEF FindItem, Goto, SafeInv, TypeInv, TypeOK
  <1>2. rows \subseteq Item
    BY DEF SamePair, SafeInv, TypeInv, TypeOK
  <1>3. /\ found'[r] = None => rows = {}
        /\ found'[r] # None => found'[r] \in rows
    <2>1. CASE rows = {}
      BY <1>1, <2>1
    <2>2. CASE rows # {}
      <3>1. found'[r] \in rows
        BY <1>1, <2>2
      <3> QED BY <1>2, <3>1, NoneAssumption
    <2> QED BY <2>1, <2>2
  <1>4. SamePair(items, cmd[r])' = rows
    BY <1>1 DEF SamePair, database
  <1>5. baskets[cmd[r].basket] # None /\ baskets[cmd[r].basket].status = "ACTIVE"
    BY <1>1 DEF SafeInv, LockedReadIsCurrent, ReadIsCurrent, HoldsLock
  <1>6. ReadIsCurrent(r)'
    BY <1>1, <1>3, <1>4, <1>5 DEF ReadIsCurrent, HoldsLock, Inserts, Grows, database
  <1>7. HoldsLock(r) /\ HoldsLock(r)' /\ ~Inserting(r)'
    BY <1>1 DEF HoldsLock, Inserting
  <1> QED BY <1>1, <1>6, <1>7, InsideSafe DEF database

\* The item UpdateItemQuantity locks is the one its command names.
LEMMA LockItemSafe ==
  ASSUME SafeInv, TypeInv', NEW r \in Requests, LockItem(r)
  PROVE  SafeInv'
  <1>1. CASE Fail(r, "ErrBasketItemNotFound")
    BY <1>1, FailSafe
  <1>2. CASE ~Fail(r, "ErrBasketItemNotFound")
    <2>1. /\ pc[r] = "find" /\ pc'[r] = "write" /\ cmd[r].op = "UpdateItemQuantity"
          /\ found'[r] \in SameId(items, cmd[r])
          /\ \A s \in Requests \ {r} : pc'[s] = pc[s] /\ found'[s] = found[s]
          /\ UNCHANGED <<database, cmd, quote, newId>>
      BY <1>2 DEF LockItem, Goto, SafeInv, TypeInv, TypeOK
    <2>2. SameId(items, cmd[r])' = SameId(items, cmd[r])
      BY <2>1 DEF SameId, database
    <2>3. baskets[cmd[r].basket] # None /\ baskets[cmd[r].basket].status = "ACTIVE"
      BY <2>1 DEF SafeInv, LockedReadIsCurrent, ReadIsCurrent, HoldsLock
    <2>4. ReadIsCurrent(r)'
      BY <2>1, <2>2, <2>3 DEF ReadIsCurrent, HoldsLock, Inserts, Grows, database
    <2>5. HoldsLock(r) /\ HoldsLock(r)' /\ ~Inserting(r)'
      BY <2>1 DEF HoldsLock, Inserting
    <2> QED BY <2>1, <2>4, <2>5, InsideSafe DEF database
  <1> QED BY <1>1, <1>2

\* The id InsertItem draws is in no row and in no open transaction.
LEMMA InsertItemSafe ==
  ASSUME SafeInv, TypeInv', NEW r \in Requests, InsertItem(r)
  PROVE  SafeInv'
  <1>1. /\ pc[r] = "write" /\ pc'[r] = "touch" /\ Inserts(r) /\ Inserts(r)'
        /\ newId'[r] \notin IdsInUse \cup IdsBeingInserted
        /\ \A s \in Requests \ {r} : pc'[s] = pc[s] /\ newId'[s] = newId[s]
        /\ UNCHANGED <<database, cmd, quote, found>>
    BY DEF InsertItem, Inserts, Goto, SafeInv, TypeInv, TypeOK
  <1>2. ASSUME NEW s \in Requests, Inserting(s) PROVE newId[s] # newId'[r]
    <2>1. InTransaction(s) /\ newId[s] # None
      BY <1>2 DEF Inserting, InTransaction, SafeInv, TypeInv, Control
    <2>2. newId[s] \in IdsBeingInserted
      BY <2>1 DEF IdsBeingInserted
    <2> QED BY <1>1, <2>2
  <1>3. ReadIsCurrent(r)'
    <2>1. SamePair(items, cmd[r])' = SamePair(items, cmd[r])
      BY <1>1 DEF SamePair, database
    <2>2. ReadIsCurrent(r)
      BY DEF SafeInv, LockedReadIsCurrent
    <2> QED BY <1>1, <2>1, <2>2 DEF ReadIsCurrent, HoldsLock, Inserts, Grows, database
  <1>4. HoldsLock(r) /\ HoldsLock(r)'
    BY <1>1 DEF HoldsLock
  <1> QED BY <1>1, <1>2, <1>3, <1>4, InsideSafe DEF database

\* A colliding id gives the lock back before the next attempt.
LEMMA InsertCollidesSafe ==
  ASSUME SafeInv, TypeInv', NEW r \in Requests, InsertCollides(r)
  PROVE  SafeInv'
  <1>1. CASE Fail(r, "ErrCouldNotAllocateItemID")
    BY <1>1, FailSafe
  <1>2. CASE ~Fail(r, "ErrCouldNotAllocateItemID")
    <2>1. /\ pc'[r] = "begin" /\ lockedBy' = Release(r)
          /\ \A s \in Requests \ {r} : pc'[s] = pc[s]
          /\ UNCHANGED <<baskets, items, cmd, quote, found, newId>>
      BY <1>2 DEF InsertCollides, Goto, SafeInv, TypeInv, TypeOK
    <2>2. ~HoldsLock(r)' /\ ReadIsCurrent(r)' /\ ~Inserting(r)'
      BY <2>1 DEF ReadIsCurrent, HoldsLock, Inserting
    <2>3. LockOwnership'
      BY <2>1, <2>2, ReleaseSafe
    <2> QED BY <2>1, <2>2, <2>3, LocalSafe
  <1> QED BY <1>1, <1>2

\* The remaining statements of a transaction only move on.
LEMMA MoveOnSafe ==
  ASSUME SafeInv, TypeInv', NEW r \in Requests, NEW step \in {"touch", "commit"},
         pc[r] \in {"write", "touch"}, Goto(r, step),
         UNCHANGED <<database, locals>>,
         step = "touch" => ~Inserts(r),
         step = "commit" => pc[r] = "touch",
         cmd[r].op = "RemoveItem" => SameId(items, cmd[r]) # {}
  PROVE  SafeInv'
  <1>1. /\ pc'[r] = step
        /\ \A s \in Requests \ {r} : pc'[s] = pc[s]
        /\ UNCHANGED <<baskets, items, lockedBy, cmd, quote, found, newId>>
    BY DEF Goto, database, locals, SafeInv, TypeInv, TypeOK
  <1>2. ReadIsCurrent(r)'
    <2>1. /\ SamePair(items, cmd[r])' = SamePair(items, cmd[r])
          /\ SameId(items, cmd[r])' = SameId(items, cmd[r])
      BY <1>1 DEF SamePair, SameId
    <2>2. ReadIsCurrent(r)
      BY DEF SafeInv, LockedReadIsCurrent
    <2> QED BY <1>1, <2>1, <2>2 DEF ReadIsCurrent, HoldsLock, Inserts, Grows
  <1>3. HoldsLock(r) /\ HoldsLock(r)'
    BY <1>1 DEF HoldsLock
  <1>4. Inserting(r)' => Inserting(r)
    BY <1>1 DEF Inserting, Inserts
  <1>5. Inserting(r)' =>
          /\ newId'[r] \notin IdsInUse
          /\ \A s \in Requests \ {r} : Inserting(s) => newId[s] # newId'[r]
    BY <1>1, <1>4 DEF SafeInv, NewIdsFresh
  <1> QED BY <1>1, <1>2, <1>3, <1>5, InsideSafe

\* The statements under the lock that only move on.
LEMMA WritesSafe ==
  ASSUME SafeInv, TypeInv', NEW r \in Requests
  PROVE  /\ UpdateExistingItem(r) => SafeInv'
         /\ UpdateQuantity(r) => SafeInv'
         /\ DeleteItem(r) => SafeInv'
         /\ DeleteItems(r) => SafeInv'
         /\ TouchBasket(r) => SafeInv'
  <1>1. CASE UpdateExistingItem(r)
    <2>1. CASE Fail(r, "ErrInvalidQuantity")
      BY <2>1, FailSafe
    <2>2. CASE ~Fail(r, "ErrInvalidQuantity")
      BY <1>1, <2>2, MoveOnSafe DEF UpdateExistingItem, Inserts
    <2> QED BY <2>1, <2>2
  <1>2. CASE UpdateQuantity(r)
    BY <1>2, MoveOnSafe DEF UpdateQuantity, Inserts
  <1>3. CASE DeleteItem(r)
    <2>1. CASE Fail(r, "ErrBasketItemNotFound")
      BY <2>1, FailSafe
    <2>2. CASE ~Fail(r, "ErrBasketItemNotFound")
      BY <1>3, <2>2, MoveOnSafe DEF DeleteItem, Inserts
    <2> QED BY <2>1, <2>2
  <1>4. CASE DeleteItems(r)
    BY <1>4, MoveOnSafe DEF DeleteItems, Inserts
  <1>5. CASE TouchBasket(r)
    <2>1. cmd[r].op = "RemoveItem" => SameId(items, cmd[r]) # {}
      BY <1>5 DEF TouchBasket, SafeInv, LockedReadIsCurrent, ReadIsCurrent
    <2> QED BY <1>5, <2>1, MoveOnSafe DEF TouchBasket
  <1> QED BY <1>1, <1>2, <1>3, <1>4, <1>5

(***************************************************************************)
(* Steps that change the tables.                                           *)
(***************************************************************************)
\* A basket that does not exist yet is locked by nobody.
LEMMA InsertBasketSafe ==
  ASSUME SafeInv, TypeInv', NEW r \in Requests, NEW next \in {"row", "ackLost"},
         InsertBasketRow(r, next)
  PROVE  SafeInv'
  <1> DEFINE row == [status |-> "ACTIVE", currency |-> defaultCurrencyCode, version |-> 0]
  <1>1. /\ baskets[cmd[r].basket] = None
        /\ baskets' = [baskets EXCEPT ![cmd[r].basket] = row]
        /\ pc[r] = "insertBasket" /\ pc'[r] = next
        /\ \A s \in Requests \ {r} : pc'[s] = pc[s]
        /\ UNCHANGED <<items, lockedBy, cmd, quote, found, newId>>
    BY DEF InsertBasketRow, Goto, locals, SafeInv, TypeInv, TypeOK
  <1>2. ~HoldsLock(r) /\ ~HoldsLock(r)'
    BY <1>1 DEF HoldsLock
  <1>3. LockOwnership'
    BY <1>1, <1>2, KeepSafe
  <1>4. LockedReadIsCurrent'
    <2>1. ReadIsCurrent(r)'
      BY <1>1 DEF ReadIsCurrent, HoldsLock
    <2>2. ASSUME NEW s \in Requests, s # r PROVE ReadIsCurrent(s)'
      <3>1. HoldsLock(s) => cmd[s].basket # cmd[r].basket
        BY <1>1 DEF SafeInv, LockedReadIsCurrent, ReadIsCurrent
      <3>2. cmd[s].basket \in Baskets
        BY CommandType DEF SafeInv, TypeInv
      <3>3. HoldsLock(s) => baskets'[cmd[s].basket] = baskets[cmd[s].basket]
        BY <1>1, <3>1, <3>2 DEF SafeInv, TypeInv, TypeOK
      <3>4. /\ SamePair(items', cmd[s]) = SamePair(items, cmd[s])
            /\ SameId(items', cmd[s]) = SameId(items, cmd[s])
        BY <1>1
      <3> QED
        BY <1>1, <2>2, <3>3, <3>4, ReadFrame DEF SafeInv, LockedReadIsCurrent
    <2> QED BY <2>1, <2>2 DEF LockedReadIsCurrent
  <1>5. StoredItemsConsistent'
    BY <1>1 DEF SafeInv, StoredItemsConsistent, IdsUnique, PairsUnique, TotalsAgree,
       OneCurrency
  <1>6. NewIdsFresh'
    <2>1. IdsInUse' = IdsInUse
      BY <1>1 DEF IdsInUse
    <2>2. \A s \in Requests : Inserting(s)' => Inserting(s)
      BY <1>1 DEF Inserting, Inserts
    <2> QED BY <1>1, <2>1, <2>2 DEF SafeInv, NewIdsFresh
  <1>7. CurrenciesAgree'
    <2>1. \A b \in Baskets : baskets'[b] # None => baskets'[b].currency = defaultCurrencyCode
      BY <1>1 DEF SafeInv, CurrenciesAgree, TypeInv, TypeOK
    <2>2. \A s \in Requests : HoldsLock(s)' => HoldsLock(s)
      BY <1>1 DEF HoldsLock
    <2> QED BY <1>1, <2>1, <2>2 DEF SafeInv, CurrenciesAgree
  <1> QED BY <1>3, <1>4, <1>5, <1>6, <1>7 DEF SafeInv

\* Another program changes a status only under the row lock.
LEMMA LeaveActiveSafe ==
  ASSUME SafeInv, TypeInv', NEW b \in Baskets, LeaveActive(b)
  PROVE  SafeInv'
  <1>1. PICK st \in ExternalStatuses :
          baskets' = [baskets EXCEPT ![b].status = st, ![b].version = @ + 1]
    BY DEF LeaveActive
  <1>2. /\ lockedBy[b] = None
        /\ UNCHANGED <<items, lockedBy, pc, cmd, quote, found, newId>>
    BY DEF LeaveActive, LockFree, locals
  <1>3. \A x \in Baskets \ {b} : baskets'[x] = baskets[x]
    BY <1>1 DEF SafeInv, TypeInv, TypeOK
  <1>4. LockOwnership'
    BY <1>2 DEF SafeInv, LockOwnership, HoldsLock
  <1>5. LockedReadIsCurrent'
    <2>1. ASSUME NEW s \in Requests PROVE ReadIsCurrent(s)'
      <3>1. HoldsLock(s) => cmd[s].basket # b
        BY <1>2, NoneAssumption DEF SafeInv, LockOwnership
      <3>2. cmd[s].basket \in Baskets
        BY CommandType DEF SafeInv, TypeInv
      <3>3. /\ SamePair(items', cmd[s]) = SamePair(items, cmd[s])
            /\ SameId(items', cmd[s]) = SameId(items, cmd[s])
        BY <1>2
      <3>4. HoldsLock(s) => baskets'[cmd[s].basket] = baskets[cmd[s].basket]
        BY <1>3, <3>1, <3>2
      <3> QED
        BY <1>2, <3>3, <3>4, ReadFrame DEF SafeInv, LockedReadIsCurrent
    <2> QED BY <2>1 DEF LockedReadIsCurrent
  <1>6. StoredItemsConsistent'
    BY <1>2 DEF SafeInv, StoredItemsConsistent, IdsUnique, PairsUnique, TotalsAgree,
       OneCurrency
  <1>7. NewIdsFresh'
    BY <1>2 DEF SafeInv, NewIdsFresh, IdsInUse, Inserting, Inserts
  <1>8. CurrenciesAgree'
    <2>1. baskets[b] \in BasketRow /\ baskets[b] # None
      BY DEF LeaveActive, SafeInv, TypeInv, TypeOK
    <2>2. baskets'[b].currency = baskets[b].currency
      BY <1>1, <2>1 DEF SafeInv, TypeInv, TypeOK, BasketRow
    <2>3. \A x \in Baskets : baskets'[x] # None => baskets'[x].currency = defaultCurrencyCode
      BY <1>3, <2>1, <2>2 DEF SafeInv, CurrenciesAgree
    <2> QED BY <1>2, <2>3 DEF SafeInv, CurrenciesAgree, HoldsLock
  <1> QED BY <1>4, <1>5, <1>6, <1>7, <1>8 DEF SafeInv

\* After a crash nobody holds a lock, and MySQL has released them all.
LEMMA CrashSafe ==
  ASSUME SafeInv, TypeInv', Crash
  PROVE  SafeInv'
  <1>1. /\ \A s \in Requests : pc'[s] \in {"idle", "done"}
        /\ lockedBy' = [b \in Baskets |-> None]
        /\ UNCHANGED <<baskets, items, cmd, quote, found, newId>>
    BY DEF Crash, InFlight, locals, SafeInv, TypeInv, TypeOK
  <1>2. \A s \in Requests : ~HoldsLock(s)' /\ ~Inserting(s)'
    BY <1>1 DEF HoldsLock, Inserting
  <1>3. LockOwnership'
    BY <1>1, <1>2, NoneAssumption DEF LockOwnership
  <1>4. LockedReadIsCurrent'
    BY <1>1, <1>2 DEF LockedReadIsCurrent, ReadIsCurrent
  <1>5. StoredItemsConsistent'
    BY <1>1 DEF SafeInv, StoredItemsConsistent, IdsUnique, PairsUnique, TotalsAgree,
       OneCurrency
  <1>6. NewIdsFresh' /\ CurrenciesAgree'
    BY <1>1, <1>2 DEF SafeInv, NewIdsFresh, CurrenciesAgree
  <1> QED BY <1>3, <1>4, <1>5, <1>6 DEF SafeInv

(***************************************************************************)
(* What a commit writes.                                                   *)
(***************************************************************************)
\* The table a commit leaves, by the kind of its command.
LEMMA WrittenCases ==
  ASSUME SafeInv, NEW r \in Requests, pc[r] = "commit"
  PROVE  \/ Inserts(r) /\ Written(r) = items \cup {InsertedItem(r)}
         \/ /\ Grows(r)
            /\ Written(r) = {IF x.basket = cmd[r].basket /\ x.id = found[r].id
                               THEN Grown(r, x) ELSE x : x \in items}
         \/ /\ cmd[r].op = "UpdateItemQuantity"
            /\ Written(r) = {IF x \in SameId(items, cmd[r])
                               THEN Requantified(r, x) ELSE x : x \in items}
         \/ cmd[r].op = "RemoveItem" /\ Written(r) = items \ SameId(items, cmd[r])
         \/ /\ cmd[r].op = "ClearBasket"
            /\ Written(r) = items \ ItemsOf(items, cmd[r].basket)
  <1>1. cmd[r].op \in Writes
    BY DEF SafeInv, TypeInv, Control, InTransaction
  <1>2. CASE Inserts(r)
    BY <1>2 DEF Written, Inserts, Grows
  <1>3. CASE Grows(r)
    BY <1>3 DEF Written, Inserts, Grows
  <1>4. CASE cmd[r].op = "UpdateItemQuantity"
    BY <1>4 DEF Written, Inserts, Grows
  <1>5. CASE cmd[r].op = "RemoveItem"
    BY <1>5 DEF Written, Inserts, Grows
  <1>6. CASE cmd[r].op = "ClearBasket"
    BY <1>6 DEF Written, Inserts, Grows
  <1> QED BY <1>1, <1>2, <1>3, <1>4, <1>5, <1>6 DEF Writes, Inserts, Grows

\* A line that is changed stays the same line.
LEMMA GrownFields ==
  ASSUME NEW r \in Requests, NEW x \in Item
  PROVE  /\ Grown(r, x).id = x.id /\ Grown(r, x).basket = x.basket
         /\ Grown(r, x).variant = x.variant /\ Grown(r, x).unit = quote[r]
         /\ Grown(r, x).total = LineTotal(Grown(r, x).qty, Grown(r, x).unit)
  BY DEF Grown, Item

\* A line whose quantity is replaced keeps its unit price.
LEMMA RequantifiedFields ==
  ASSUME NEW r \in Requests, NEW x \in Item
  PROVE  /\ Requantified(r, x).id = x.id /\ Requantified(r, x).basket = x.basket
         /\ Requantified(r, x).variant = x.variant /\ Requantified(r, x).unit = x.unit
         /\ Requantified(r, x).qty = cmd[r].qty
         /\ Requantified(r, x).total = LineTotal(cmd[r].qty, found[r].unit)
  BY DEF Requantified, Item

\* A commit leaves the items of other baskets alone.
LEMMA WrittenElsewhere ==
  ASSUME SafeInv, NEW r \in Requests, pc[r] = "commit",
         NEW y, y.basket # cmd[r].basket
  PROVE  y \in Written(r) <=> y \in items
  <1>1. items \subseteq Item
    BY DEF SafeInv, TypeInv, TypeOK
  <1>2. CASE Inserts(r) /\ Written(r) = items \cup {InsertedItem(r)}
    BY <1>2 DEF InsertedItem
  <1>3. CASE Grows(r) /\ Written(r) = {IF x.basket = cmd[r].basket /\ x.id = found[r].id
                               THEN Grown(r, x) ELSE x : x \in items}
    BY <1>1, <1>3, GrownFields
  <1>4. CASE Written(r) = {IF x \in SameId(items, cmd[r])
                               THEN Requantified(r, x) ELSE x : x \in items}
    BY <1>1, <1>4, RequantifiedFields DEF SameId
  <1>5. CASE Written(r) = items \ SameId(items, cmd[r])
    BY <1>5 DEF SameId
  <1>6. CASE Written(r) = items \ ItemsOf(items, cmd[r].basket)
    BY <1>6 DEF ItemsOf
  <1> QED BY <1>2, <1>3, <1>4, <1>5, <1>6, WrittenCases

\* A table whose rows are changed one by one, each staying the same line.
LEMMA ChangeConsistent ==
  ASSUME StoredItemsConsistent, NEW table, NEW f, table = {f[x] : x \in items},
         \A x \in items :
           /\ f[x].id = x.id /\ f[x].basket = x.basket /\ f[x].variant = x.variant
           /\ f[x].total = LineTotal(f[x].qty, f[x].unit)
           /\ f[x].unit.currency = defaultCurrencyCode
  PROVE  IdsUnique(table) /\ PairsUnique(table) /\ TotalsAgree(table) /\ OneCurrency(table)
  BY DEF StoredItemsConsistent, IdsUnique, PairsUnique, TotalsAgree, OneCurrency

\* A new line brings a fresh id, a pair that was not there, and its own total.
LEMMA InsertConsistent ==
  ASSUME SafeInv, NEW r \in Requests, pc[r] = "commit", Inserts(r)
  PROVE  LET table == items \cup {InsertedItem(r)} IN
         IdsUnique(table) /\ PairsUnique(table) /\ TotalsAgree(table) /\ OneCurrency(table)
  <1> DEFINE new == InsertedItem(r)
             table == items \cup {new}
  <1>1. /\ new.id = newId[r] /\ new.basket = cmd[r].basket /\ new.variant = cmd[r].variant
        /\ new.total = LineTotal(new.qty, new.unit) /\ new.unit = quote[r]
    BY DEF InsertedItem
  <1>2. \A x \in items : x.id # new.id
    BY <1>1 DEF SafeInv, NewIdsFresh, Inserting, IdsInUse
  <1>3. \A x \in items : ~(x.basket = new.basket /\ x.variant = new.variant)
    BY <1>1 DEF SafeInv, LockedReadIsCurrent, ReadIsCurrent, SamePair
  <1>4. new.unit.currency = defaultCurrencyCode
    BY <1>1 DEF SafeInv, CurrenciesAgree, HoldsLock, Inserts
  <1> HIDE DEF new
  <1>5. IdsUnique(table)
    BY <1>2 DEF SafeInv, StoredItemsConsistent, IdsUnique
  <1>6. PairsUnique(table)
    BY <1>3 DEF SafeInv, StoredItemsConsistent, PairsUnique
  <1>7. TotalsAgree(table)
    BY <1>1 DEF SafeInv, StoredItemsConsistent, TotalsAgree
  <1>8. OneCurrency(table)
    BY <1>4 DEF SafeInv, StoredItemsConsistent, OneCurrency
  <1> QED BY <1>5, <1>6, <1>7, <1>8 DEF new

\* Whatever a commit writes is consistent: the new price with the new total, the
\* old price with a total computed from it, because it is still the row's price.
LEMMA WrittenConsistent ==
  ASSUME SafeInv, NEW r \in Requests, pc[r] = "commit"
  PROVE  /\ IdsUnique(Written(r)) /\ PairsUnique(Written(r))
         /\ TotalsAgree(Written(r)) /\ OneCurrency(Written(r))
  <1>1. items \subseteq Item
    BY DEF SafeInv, TypeInv, TypeOK
  <1>2. CASE Inserts(r) /\ Written(r) = items \cup {InsertedItem(r)}
    BY <1>2, InsertConsistent
  <1>3. CASE Grows(r) /\ Written(r) = {IF x.basket = cmd[r].basket /\ x.id = found[r].id
                               THEN Grown(r, x) ELSE x : x \in items}
    <2> DEFINE f == [x \in items |-> IF x.basket = cmd[r].basket /\ x.id = found[r].id
                               THEN Grown(r, x) ELSE x]
    <2>1. quote[r].currency = defaultCurrencyCode
      BY <1>3 DEF SafeInv, CurrenciesAgree, HoldsLock, Grows
    <2>2. ASSUME NEW x \in items
          PROVE  /\ f[x].id = x.id /\ f[x].basket = x.basket /\ f[x].variant = x.variant
                 /\ f[x].total = LineTotal(f[x].qty, f[x].unit)
                 /\ f[x].unit.currency = defaultCurrencyCode
      <3>1. x.total = LineTotal(x.qty, x.unit) /\ x.unit.currency = defaultCurrencyCode
        BY DEF SafeInv, StoredItemsConsistent, TotalsAgree, OneCurrency
      <3> QED BY <1>1, <2>1, <3>1, GrownFields
    <2>3. Written(r) = {f[x] : x \in items}
      BY <1>3
    <2> HIDE DEF f
    <2> QED BY <2>2, <2>3, ChangeConsistent DEF SafeInv
  <1>4. CASE /\ cmd[r].op = "UpdateItemQuantity"
             /\ Written(r) = {IF x \in SameId(items, cmd[r])
                               THEN Requantified(r, x) ELSE x : x \in items}
    <2> DEFINE f == [x \in items |-> IF x \in SameId(items, cmd[r])
                               THEN Requantified(r, x) ELSE x]
    <2>1. found[r] \in SameId(items, cmd[r])
      BY <1>4 DEF SafeInv, LockedReadIsCurrent, ReadIsCurrent
    <2>2. \A x \in SameId(items, cmd[r]) : x = found[r]
      BY <2>1 DEF SameId, SafeInv, StoredItemsConsistent, IdsUnique
    <2>3. ASSUME NEW x \in items
          PROVE  /\ f[x].id = x.id /\ f[x].basket = x.basket /\ f[x].variant = x.variant
                 /\ f[x].total = LineTotal(f[x].qty, f[x].unit)
                 /\ f[x].unit.currency = defaultCurrencyCode
      <3>1. x.total = LineTotal(x.qty, x.unit) /\ x.unit.currency = defaultCurrencyCode
        BY DEF SafeInv, StoredItemsConsistent, TotalsAgree, OneCurrency
      <3>2. CASE x \in SameId(items, cmd[r])
        <4>1. f[x] = Requantified(r, x) /\ found[r].unit = x.unit
          BY <2>2, <3>2
        <4> QED BY <1>1, <3>1, <4>1, RequantifiedFields
      <3>3. CASE x \notin SameId(items, cmd[r])
        BY <3>1, <3>3
      <3> QED BY <3>2, <3>3
    <2>4. Written(r) = {f[x] : x \in items}
      BY <1>4
    <2> HIDE DEF f
    <2> QED BY <2>3, <2>4, ChangeConsistent DEF SafeInv
  <1>5. CASE Written(r) \subseteq items
    BY <1>5 DEF SafeInv, StoredItemsConsistent, IdsUnique, PairsUnique, TotalsAgree,
       OneCurrency
  <1> QED BY <1>2, <1>3, <1>4, <1>5, WrittenCases

\* A commit adds at most the id its INSERT drew.
LEMMA WrittenIds ==
  ASSUME SafeInv, NEW r \in Requests, pc[r] = "commit", NEW y \in Written(r)
  PROVE  y.id \in IdsInUse \/ (Inserting(r) /\ y.id = newId[r])
  <1>1. items \subseteq Item
    BY DEF SafeInv, TypeInv, TypeOK
  <1>2. CASE Inserts(r) /\ Written(r) = items \cup {InsertedItem(r)}
    BY <1>2 DEF IdsInUse, InsertedItem, Inserting
  <1>3. CASE Grows(r) /\ Written(r) = {IF x.basket = cmd[r].basket /\ x.id = found[r].id
                               THEN Grown(r, x) ELSE x : x \in items}
    BY <1>1, <1>3, GrownFields DEF IdsInUse
  <1>4. CASE Written(r) = {IF x \in SameId(items, cmd[r])
                               THEN Requantified(r, x) ELSE x : x \in items}
    BY <1>1, <1>4, RequantifiedFields DEF IdsInUse
  <1>5. CASE Written(r) \subseteq items
    BY <1>5 DEF IdsInUse
  <1> QED BY <1>2, <1>3, <1>4, <1>5, WrittenCases

\* A commit changes one basket, whose lock nobody else has.
LEMMA CommitSafe ==
  ASSUME SafeInv, TypeInv', NEW r \in Requests, NEW next \in {"row", "ackLost"},
         CommitTx(r, next)
  PROVE  SafeInv'
  <1> DEFINE b == cmd[r].basket
  <1>1. /\ pc[r] = "commit" /\ pc'[r] = next
        /\ \A s \in Requests \ {r} : pc'[s] = pc[s]
        /\ items' = Written(r) /\ lockedBy' = Release(r)
        /\ UNCHANGED <<cmd, quote, found, newId>>
    BY DEF CommitTx, Goto, locals, SafeInv, TypeInv, TypeOK
  <1>2. HoldsLock(r) /\ ~HoldsLock(r)' /\ ~Inserting(r)'
    BY <1>1 DEF HoldsLock, Inserting
  <1>3. b \in Baskets /\ baskets[b] \in BasketRow
    BY <1>1, CommandType DEF SafeInv, TypeInv, TypeOK, Control, HoldsLock
  <1>4. /\ \A x \in Baskets \ {b} : baskets'[x] = baskets[x]
        /\ baskets'[b].currency = baskets[b].currency
    BY <1>3 DEF CommitTx, SafeInv, TypeInv, TypeOK, BasketRow
  <1>5. LockOwnership'
    BY <1>1, <1>2, ReleaseSafe
  <1>6. LockedReadIsCurrent'
    <2>1. ReadIsCurrent(r)'
      BY <1>1 DEF ReadIsCurrent, HoldsLock
    <2>2. ASSUME NEW s \in Requests, s # r PROVE ReadIsCurrent(s)'
      <3>1. HoldsLock(s) => cmd[s].basket # b
        BY <1>2, <1>3, <2>2 DEF SafeInv, LockOwnership
      <3>2. cmd[s].basket \in Baskets
        BY CommandType DEF SafeInv, TypeInv
      <3>3. HoldsLock(s) => /\ SamePair(items', cmd[s]) = SamePair(items, cmd[s])
                            /\ SameId(items', cmd[s]) = SameId(items, cmd[s])
        BY <1>1, <3>1, WrittenElsewhere DEF SamePair, SameId
      <3>4. HoldsLock(s) => baskets'[cmd[s].basket] = baskets[cmd[s].basket]
        BY <1>4, <3>1, <3>2
      <3> QED
        BY <1>1, <2>2, <3>3, <3>4, ReadFrame DEF SafeInv, LockedReadIsCurrent
    <2> QED BY <2>1, <2>2 DEF LockedReadIsCurrent
  <1>7. StoredItemsConsistent'
    <2>1. /\ IdsUnique(items') /\ PairsUnique(items')
          /\ TotalsAgree(items') /\ OneCurrency(items')
      BY <1>1, WrittenConsistent
    <2> QED BY <2>1 DEF StoredItemsConsistent, IdsUnique, PairsUnique, TotalsAgree,
            OneCurrency, LineTotal
  <1>8. NewIdsFresh'
    <2>1. ASSUME NEW s \in Requests, Inserting(s)'
          PROVE  /\ newId[s] \notin IdsInUse'
                 /\ \A s1 \in Requests : Inserting(s1)' /\ newId[s1] = newId[s] => s1 = s
      <3>1. s # r /\ Inserting(s) /\ \A s1 \in Requests : Inserting(s1)' => Inserting(s1)
        BY <1>1, <1>2, <2>1 DEF Inserting, Inserts
      <3>2. \A y \in items' : y.id # newId[s]
        BY <1>1, <3>1, WrittenIds DEF SafeInv, NewIdsFresh
      <3> QED BY <3>1, <3>2 DEF SafeInv, NewIdsFresh, IdsInUse
    <2> QED BY <1>1, <2>1 DEF NewIdsFresh
  <1>9. CurrenciesAgree'
    <2>1. baskets[b] # None
      BY <1>3, NoneAssumption
    <2>2. \A x \in Baskets : baskets'[x] # None => baskets'[x].currency = defaultCurrencyCode
      BY <1>3, <1>4, <2>1 DEF SafeInv, CurrenciesAgree
    <2>3. \A s \in Requests : HoldsLock(s)' => HoldsLock(s)
      BY <1>1, <1>2 DEF HoldsLock
    <2> QED BY <1>1, <2>2, <2>3 DEF SafeInv, CurrenciesAgree
  <1> QED BY <1>5, <1>6, <1>7, <1>8, <1>9 DEF SafeInv

(***************************************************************************)
(* The invariant and its consequences.                                     *)
(***************************************************************************)
\* Every step of a handler keeps SafeInv.
LEMMA HandlerSafe ==
  ASSUME SafeInv, TypeInv', NEW r \in Requests, Handler(r)
  PROVE  SafeInv'
  <1>1. CASE Reject(r) \/ InsertBasketDuplicate(r) \/ CatalogRefuses(r)
             \/ LockBasketRefused(r) \/ ReportLostAck(r)
    BY <1>1, FailSafe DEF Reject, InsertBasketDuplicate, CatalogRefuses,
       LockBasketRefused, ReportLostAck
  <1>2. CASE InsertBasket(r) \/ Commit(r)
    BY <1>2, InsertBasketSafe, CommitSafe DEF InsertBasket, Commit
  <1>3. CASE LoadRow(r) \/ LoadItems(r) \/ Precheck(r) \/ CatalogQuotes(r) \/ BeginTx(r)
    BY <1>3, BeforeLockSafe
  <1>4. CASE LockBasket(r) \/ FindItem(r) \/ LockItem(r)
    BY <1>4, LockBasketSafe, FindItemSafe, LockItemSafe
  <1>5. CASE InsertItem(r) \/ InsertCollides(r)
    BY <1>5, InsertItemSafe, InsertCollidesSafe
  <1>6. CASE UpdateExistingItem(r) \/ UpdateQuantity(r) \/ DeleteItem(r)
             \/ DeleteItems(r) \/ TouchBasket(r)
    BY <1>6, WritesSafe
  <1> QED BY <1>1, <1>2, <1>3, <1>4, <1>5, <1>6 DEF Handler

\* So does doing nothing.
LEMMA StutterSafe ==
  ASSUME SafeInv, TypeInv', UNCHANGED vars
  PROVE  SafeInv'
  <1>1. UNCHANGED <<baskets, items, lockedBy, pc, cmd, quote, found, newId>>
    BY DEF vars, database, locals
  <1>2. LockOwnership'
    BY <1>1 DEF SafeInv, LockOwnership, HoldsLock
  <1>3. LockedReadIsCurrent'
    BY <1>1, ReadFrame DEF SafeInv, LockedReadIsCurrent
  <1>4. StoredItemsConsistent'
    BY <1>1 DEF SafeInv, StoredItemsConsistent, IdsUnique, PairsUnique, TotalsAgree,
       OneCurrency
  <1>5. NewIdsFresh' /\ CurrenciesAgree'
    BY <1>1 DEF SafeInv, NewIdsFresh, CurrenciesAgree, IdsInUse, Inserting, Inserts, HoldsLock
  <1> QED BY <1>2, <1>3, <1>4, <1>5 DEF SafeInv

\* SafeInv is inductive.
LEMMA StepSafe == ASSUME SafeInv, [Next]_vars PROVE SafeInv'
  <1>1. TypeInv'
    BY StepType DEF SafeInv
  <1>2. ASSUME NEW r \in Requests, Accept(r) \/ Handler(r) PROVE SafeInv'
    BY <1>1, <1>2, AcceptSafe, HandlerSafe
  <1>3. ASSUME NEW r \in Requests, StatementFails(r) \/ CommitAckLost(r) PROVE SafeInv'
    BY <1>1, <1>3, FailSafe, CommitSafe, InsertBasketSafe DEF StatementFails, CommitAckLost
  <1>4. ASSUME NEW b \in Baskets, LeaveActive(b) PROVE SafeInv'
    BY <1>1, <1>4, LeaveActiveSafe
  <1>5. CASE Crash
    BY <1>1, <1>5, CrashSafe
  <1>6. CASE UNCHANGED vars
    BY <1>1, <1>6, StutterSafe
  <1> QED BY <1>2, <1>3, <1>4, <1>5, <1>6 DEF Next, Terminated

\* Every reachable state satisfies the inductive invariant.
THEOREM Safety == Spec => []SafeInv
  <1>1. Init => SafeInv
    BY InitSafe
  <1>2. SafeInv /\ [Next]_vars => SafeInv'
    BY StepSafe
  <1> QED BY <1>1, <1>2, PTL DEF Spec

\* A basket's row lock is held exactly by the one transaction past
\* lockBasketForUpdate on it, for any number of requests, failures and crashes.
THEOREM LocksAreOwned == Spec => []LockOwnership
  <1>1. SafeInv => LockOwnership
    BY DEF SafeInv
  <1> QED BY <1>1, Safety, PTL

\* What a transaction of repository.go reads under the lock holds until it commits.
THEOREM LockedReadsStay == Spec => []LockedReadIsCurrent
  <1>1. SafeInv => LockedReadIsCurrent
    BY DEF SafeInv
  <1> QED BY <1>1, Safety, PTL

\* The items table is consistent between any two statements of any requests.
THEOREM ItemsStayConsistent == Spec => []StoredItemsConsistent
  <1>1. SafeInv => StoredItemsConsistent
    BY DEF SafeInv
  <1> QED BY <1>1, Safety, PTL

(***************************************************************************)
(* Steps.                                                                  *)
(***************************************************************************)
\* Only a commit changes the items.
LEMMA ItemsChangeByCommit ==
  ASSUME [Next]_vars, items' # items
  PROVE  \E r \in Requests : \E next \in {"row", "ackLost"} : CommitTx(r, next)
  <1> USE DEF database, locals, vars, Fail
  <1>1. ASSUME NEW r \in Requests, Handler(r) PROVE CommitTx(r, "row")
    <2>1. CASE Reject(r) \/ InsertBasket(r) \/ InsertBasketDuplicate(r) \/ LoadRow(r)
               \/ LoadItems(r) \/ Precheck(r) \/ CatalogQuotes(r) \/ CatalogRefuses(r)
      BY <2>1 DEF Reject, InsertBasket, InsertBasketRow, InsertBasketDuplicate, LoadRow,
         LoadItems, Precheck, CatalogQuotes, CatalogRefuses
    <2>2. CASE BeginTx(r) \/ LockBasket(r) \/ LockBasketRefused(r) \/ FindItem(r)
               \/ LockItem(r) \/ InsertItem(r) \/ InsertCollides(r)
      BY <2>2 DEF BeginTx, LockBasket, LockBasketRefused, FindItem, LockItem, InsertItem,
         InsertCollides
    <2>3. CASE UpdateExistingItem(r) \/ UpdateQuantity(r) \/ DeleteItem(r) \/ DeleteItems(r)
               \/ TouchBasket(r) \/ ReportLostAck(r)
      BY <2>3 DEF UpdateExistingItem, UpdateQuantity, DeleteItem, DeleteItems, TouchBasket,
         ReportLostAck
    <2> QED BY <1>1, <2>1, <2>2, <2>3 DEF Handler, Commit
  <1>2. ASSUME NEW r \in Requests, Accept(r) \/ StatementFails(r) \/ CommitAckLost(r)
        PROVE  CommitTx(r, "ackLost")
    BY <1>2 DEF Accept, StatementFails, CommitAckLost, InsertBasketRow
  <1>3. \A b \in Baskets : ~LeaveActive(b)
    BY DEF LeaveActive
  <1>4. ~Crash /\ ~UNCHANGED vars
    BY DEF Crash
  <1> QED BY <1>1, <1>2, <1>3, <1>4 DEF Next, Terminated

\* It changes those of one ACTIVE basket, and moves its version.
LEMMA CommitChanges ==
  ASSUME SafeInv, NEW r \in Requests, NEW next, CommitTx(r, next), NEW b \in Baskets,
         ItemsOf(items', b) # ItemsOf(items, b)
  PROVE  /\ baskets[b].status = "ACTIVE" /\ baskets'[b].status = "ACTIVE"
         /\ baskets'[b].version > baskets[b].version
  <1>1. pc[r] = "commit" /\ items' = Written(r)
    BY DEF CommitTx
  <1>2. cmd[r].basket = b
    <2>1. SUFFICES ASSUME cmd[r].basket # b PROVE ItemsOf(items', b) = ItemsOf(items, b)
      OBVIOUS
    <2> QED BY <1>1, <2>1, WrittenElsewhere DEF ItemsOf
  <1>3. baskets[b] # None /\ baskets[b].status = "ACTIVE"
    BY <1>1, <1>2 DEF SafeInv, LockedReadIsCurrent, ReadIsCurrent, HoldsLock
  <1>4. baskets[b] \in BasketRow
    BY <1>3 DEF SafeInv, TypeInv, TypeOK
  <1>5. baskets'[b] = [baskets[b] EXCEPT !.version = @ + 1]
    BY <1>2 DEF CommitTx, SafeInv, TypeInv, TypeOK
  <1> QED BY <1>3, <1>4, <1>5 DEF BasketRow

\* A basket that is not ACTIVE keeps its items, and an ACTIVE one is ACTIVE still
\* when a write to it commits, whatever other programs do to its status.
THEOREM OnlyActiveChange == Spec => OnlyActiveBasketsChange
  <1>1. SafeInv /\ [Next]_vars =>
          [\A b \in Baskets : ItemsOf(items', b) # ItemsOf(items, b) =>
             baskets[b].status = "ACTIVE" /\ baskets'[b].status = "ACTIVE"]_vars
    <2> SUFFICES ASSUME SafeInv, [Next]_vars, NEW b \in Baskets,
                        ItemsOf(items', b) # ItemsOf(items, b)
                 PROVE  baskets[b].status = "ACTIVE" /\ baskets'[b].status = "ACTIVE"
      OBVIOUS
    <2>1. items' # items
      BY DEF ItemsOf
    <2> QED BY <2>1, ItemsChangeByCommit, CommitChanges
  <1> QED BY <1>1, Safety, PTL DEF Spec, OnlyActiveBasketsChange

\* Items and updated_at of a basket change in the same commit.
THEOREM ItemsAndVersionMove == Spec => ItemsMoveWithVersion
  <1>1. SafeInv /\ [Next]_vars =>
          [\A b \in Baskets : ItemsOf(items', b) # ItemsOf(items, b) =>
             baskets'[b].version > baskets[b].version]_vars
    <2> SUFFICES ASSUME SafeInv, [Next]_vars, NEW b \in Baskets,
                        ItemsOf(items', b) # ItemsOf(items, b)
                 PROVE  baskets'[b].version > baskets[b].version
      OBVIOUS
    <2>1. items' # items
      BY DEF ItemsOf
    <2> QED BY <2>1, ItemsChangeByCommit, CommitChanges
  <1> QED BY <1>1, Safety, PTL DEF Spec, ItemsMoveWithVersion

(***************************************************************************)
(* Waiting.                                                                *)
(***************************************************************************)
\* Steps that draw no id keep DrawnLast if they go on from where there was none, or
\* to where there may be one.
LEMMA DrawnFrame ==
  ASSUME DrawnLast, NEW r \in Requests, UNCHANGED newId,
         \A s \in Requests \ {r} : pc'[s] = pc[s],
         \/ pc[r] \notin {"touch", "commit", "row", "items", "ackLost", "done"}
         \/ pc'[r] \in {"touch", "commit", "row", "items", "ackLost", "done"}
  PROVE  DrawnLast'
  BY DEF DrawnLast

LEMMA StepDrawn ==
  ASSUME SafeInv, DrawnLast, [Next]_vars
  PROVE  DrawnLast'
  <1> USE DEF locals
  <1>1. pc \in [Requests -> Steps] /\ newId \in [Requests -> ItemIds \cup {None}]
    BY DEF SafeInv, TypeInv, TypeOK
  <1>2. ASSUME NEW r \in Requests, NEW err, Fail(r, err) PROVE DrawnLast'
    BY <1>1, <1>2, DrawnFrame DEF Fail, Goto
  <1>3. ASSUME NEW r \in Requests, NEW step, Goto(r, step), UNCHANGED newId,
               \/ pc[r] \notin {"touch", "commit", "row", "items", "ackLost", "done"}
               \/ step \in {"touch", "commit", "row", "items", "ackLost", "done"}
        PROVE  DrawnLast'
    BY <1>1, <1>3, DrawnFrame DEF Goto
  <1>4. ASSUME NEW r \in Requests, Handler(r) PROVE DrawnLast'
    <2>1. CASE Reject(r) \/ InsertBasketDuplicate(r) \/ CatalogRefuses(r)
               \/ LockBasketRefused(r) \/ ReportLostAck(r)
      BY <1>2, <2>1 DEF Reject, InsertBasketDuplicate, CatalogRefuses, LockBasketRefused,
         ReportLostAck
    <2>2. CASE LoadRow(r) \/ LoadItems(r) \/ Precheck(r)
      BY <1>2, <1>3, <2>2 DEF LoadRow, LoadItems, Precheck
    <2>3. CASE InsertBasket(r) \/ CatalogQuotes(r) \/ BeginTx(r) \/ LockBasket(r)
               \/ FindItem(r)
      BY <1>3, <2>3 DEF InsertBasket, InsertBasketRow, CatalogQuotes, BeginTx, LockBasket,
         FindItem
    <2>4. CASE LockItem(r) \/ InsertCollides(r)
      BY <1>2, <1>3, <2>4 DEF LockItem, InsertCollides
    <2>5. CASE InsertItem(r)
      BY <1>1, <2>5 DEF InsertItem, Goto, DrawnLast
    <2>6. CASE UpdateExistingItem(r) \/ DeleteItem(r)
      BY <1>2, <1>3, <2>6 DEF UpdateExistingItem, DeleteItem
    <2>7. CASE UpdateQuantity(r) \/ DeleteItems(r) \/ TouchBasket(r) \/ Commit(r)
      BY <1>3, <2>7 DEF UpdateQuantity, DeleteItems, TouchBasket, Commit, CommitTx
    <2> QED BY <1>4, <2>1, <2>2, <2>3, <2>4, <2>5, <2>6, <2>7 DEF Handler
  <1>5. ASSUME NEW r \in Requests, Accept(r) \/ StatementFails(r) \/ CommitAckLost(r)
        PROVE  DrawnLast'
    BY <1>2, <1>3, <1>5 DEF Accept, StatementFails, CommitAckLost, CommitTx, InsertBasketRow
  <1>6. ASSUME NEW b \in Baskets, LeaveActive(b) PROVE DrawnLast'
    BY <1>6 DEF LeaveActive, DrawnLast
  <1>7. CASE Crash
    BY <1>1, <1>7 DEF Crash, InFlight, DrawnLast
  <1>8. CASE UNCHANGED vars
    BY <1>8 DEF vars, DrawnLast
  <1> QED BY <1>4, <1>5, <1>6, <1>7, <1>8 DEF Next, Terminated

\* A pool without a free connection has an open transaction.
LEMMA ConnectionHolder ==
  ASSUME ~ConnectionFree
  PROVE  \E s \in Requests : InTransaction(s)
  <1> SUFFICES ASSUME \A s \in Requests : ~InTransaction(s) PROVE FALSE OBVIOUS
  <1>1. {s \in Requests : InTransaction(s)} = {}
    OBVIOUS
  <1>2. Cardinality({}) = 0
    BY FS_EmptySet
  <1> QED BY <1>1, <1>2, ConnectionsAssumption DEF ConnectionFree

\* A row lock that is taken is held by a transaction that is past its lock.
LEMMA LockHolder ==
  ASSUME SafeInv, NEW r \in Requests, ~LockFree(cmd[r].basket)
  PROVE  \E s \in Requests : HoldsLock(s)
  <1>1. cmd[r].basket \in Baskets
    BY CommandType DEF SafeInv, TypeInv
  <1>2. lockedBy[cmd[r].basket] \in Requests
    BY <1>1 DEF SafeInv, TypeInv, TypeOK, LockFree
  <1> QED BY <1>1, <1>2 DEF SafeInv, LockOwnership

\* A transaction past its lock goes on, or waits for one that has drawn an id, and
\* that one goes on.
LEMMA HolderServed ==
  ASSUME SafeInv, DrawnLast, NEW r \in Requests, HoldsLock(r)
  PROVE  \E s \in Requests : InTransaction(s) /\ ~Waiting(s)
  <1>1. CASE ~Waiting(r)
    BY <1>1 DEF HoldsLock, InTransaction
  <1>2. CASE Waiting(r)
    <2>1. ItemIds \subseteq IdsBeingInserted
      BY <1>2 DEF Waiting, HoldsLock
    <2>2. cmd[r].item \in ItemIds
      <3>1. cmd[r] \in Command
        BY CommandsAssumption DEF SafeInv, TypeInv, TypeOK
      <3> QED BY <3>1 DEF Command
    <2>3. PICK s \in Requests : InTransaction(s) /\ newId[s] # None
      BY <2>1, <2>2 DEF IdsBeingInserted
    <2>4. pc[s] \in {"touch", "commit"}
      BY <2>3 DEF DrawnLast, InTransaction
    <2> QED BY <2>3, <2>4 DEF Waiting
  <1> QED BY <1>1, <1>2

LEMMA Served == SafeInv /\ DrawnLast => WaitersAreServed
  <1> SUFFICES ASSUME SafeInv, DrawnLast, NEW r \in Requests, Waiting(r)
               PROVE  \E s \in Requests : InTransaction(s) /\ ~Waiting(s)
    BY DEF WaitersAreServed
  <1>1. ASSUME NEW t \in Requests, InTransaction(t)
        PROVE  \E s \in Requests : InTransaction(s) /\ ~Waiting(s)
    <2>1. CASE HoldsLock(t)
      BY <2>1, HolderServed
    <2>2. CASE pc[t] = "lock" /\ ~LockFree(cmd[t].basket)
      BY <2>2, LockHolder, HolderServed
    <2>3. CASE pc[t] = "lock" /\ LockFree(cmd[t].basket)
      BY <1>1, <2>3 DEF Waiting
    <2> QED BY <1>1, <2>1, <2>2, <2>3 DEF InTransaction, HoldsLock
  <1>2. CASE ~ConnectionFree
    BY <1>1, <1>2, ConnectionHolder
  <1>3. CASE ConnectionFree
    BY <1>1, <1>3 DEF Waiting, InTransaction
  <1> QED BY <1>2, <1>3

\* Connections and row locks never deadlock, for any number of requests, baskets and
\* connections: whoever waits, some open transaction can go on.
THEOREM WaitersServed == Spec => []WaitersAreServed
  <1>1. Init => DrawnLast
    BY DEF Init, DrawnLast
  <1>2. SafeInv /\ DrawnLast /\ [Next]_vars => DrawnLast'
    BY StepDrawn
  <1>3. SafeInv /\ DrawnLast => WaitersAreServed
    BY Served
  <1> QED BY <1>1, <1>2, <1>3, Safety, PTL DEF Spec

(***************************************************************************)
(* No handler runs for ever.                                               *)
(***************************************************************************)
\* A step that counts no attempt uses up steps if it leads towards the answer.
LEMMA TowardsAnswer ==
  ASSUME TypeOK, NEW r \in Requests, NEW step \in Steps, Goto(r, step), UNCHANGED attempt,
         StepsAfter(step) < StepsAfter(pc[r])
  PROVE  \A s \in Requests : pc'[s] # pc[s] => StepsLeft(s)' < StepsLeft(s)
  <1> SUFFICES ASSUME NEW s \in Requests, pc'[s] # pc[s]
               PROVE  StepsLeft(s)' < StepsLeft(s)
    OBVIOUS
  <1>1. s = r /\ pc'[r] = step
    BY DEF Goto, TypeOK
  <1>2. attempt[r] \in Nat /\ maxIDGenerationAttempts \in Nat
    BY AttemptsAssumption DEF TypeOK
  <1>3. StepsAfter(step) \in Nat /\ StepsAfter(pc[r]) \in Nat
    BY DEF StepsAfter, Steps, TypeOK
  <1> HIDE DEF StepsAfter
  <1>4. StepsAfter(pc[r])' = StepsAfter(step)
    BY <1>1 DEF StepsAfter
  <1> QED BY <1>1, <1>2, <1>3, <1>4 DEF StepsLeft

\* How many steps there are after each.
LEMMA StepOrder ==
  /\ StepsAfter("done") = 0
  /\ StepsAfter("invalid") = 1 /\ StepsAfter("items") = 1 /\ StepsAfter("ackLost") = 1
  /\ StepsAfter("row") = 2
  /\ StepsAfter("insertBasket") = 3 /\ StepsAfter("commit") = 3
  /\ StepsAfter("touch") = 4
  /\ StepsAfter("write") = 5
  /\ StepsAfter("find") = 6
  /\ StepsAfter("lock") = 7
  /\ StepsAfter("begin") = 8
  /\ StepsAfter("catalog") = 9
  /\ StepsAfter("precheckItems") = 10
  /\ StepsAfter("precheckRow") = 11
  /\ StepsAfter("idle") = 12
  BY DEF StepsAfter

\* A retry is one attempt less, and four steps back.
LEMMA RetryUsesUp ==
  ASSUME TypeOK, NEW r \in Requests, pc[r] = "write", Goto(r, "begin"),
         attempt' = [attempt EXCEPT ![r] = @ + 1]
  PROVE  \A s \in Requests : pc'[s] # pc[s] => StepsLeft(s)' < StepsLeft(s)
  <1> SUFFICES ASSUME NEW s \in Requests, pc'[s] # pc[s]
               PROVE  StepsLeft(s)' < StepsLeft(s)
    OBVIOUS
  <1>1. s = r /\ pc'[r] = "begin"
    BY DEF Goto, TypeOK
  <1>2. attempt[r] \in Nat /\ maxIDGenerationAttempts \in Nat /\ attempt'[r] = attempt[r] + 1
    BY AttemptsAssumption DEF TypeOK
  <1>3. StepsAfter(pc[r]) = 5 /\ StepsAfter(pc[r])' = 8
    <2>1. StepsAfter(pc[r])' = StepsAfter(pc'[r])
      BY DEF StepsAfter
    <2> QED BY <1>1, <2>1, StepOrder
  <1> QED BY <1>1, <1>2, <1>3 DEF StepsLeft

LEMMA StepUsesUp ==
  ASSUME TypeOK, [Next]_vars
  PROVE  \A s \in Requests : pc'[s] # pc[s] => StepsLeft(s)' < StepsLeft(s)
  <1> DEFINE UsesUp == \A s \in Requests : pc'[s] # pc[s] => StepsLeft(s)' < StepsLeft(s)
  <1> USE StepOrder DEF locals
  <1>1. ASSUME NEW r \in Requests, NEW step \in Steps, Goto(r, step), UNCHANGED attempt,
               StepsAfter(step) < StepsAfter(pc[r])
        PROVE  UsesUp
    BY <1>1, TowardsAnswer
  <1>2. ASSUME NEW r \in Requests, NEW err, Fail(r, err), pc[r] # "done"
        PROVE  UsesUp
    <2>1. StepsAfter(pc[r]) > 0
      BY <1>2 DEF TypeOK, Steps
    <2>2. Goto(r, "done") /\ UNCHANGED attempt /\ "done" \in Steps
      BY <1>2 DEF Fail, Steps
    <2> QED BY <1>1, <2>1, <2>2
  <1> HIDE DEF UsesUp
  <1>3. ASSUME NEW r \in Requests, Handler(r) PROVE UsesUp
    <2>1. CASE Reject(r) \/ InsertBasketDuplicate(r) \/ CatalogRefuses(r)
               \/ LockBasketRefused(r) \/ ReportLostAck(r)
      BY <1>2, <2>1 DEF Reject, InsertBasketDuplicate, CatalogRefuses, LockBasketRefused,
         ReportLostAck
    <2>2. CASE LoadRow(r) \/ LoadItems(r) \/ Precheck(r)
      BY <1>1, <1>2, <2>2 DEF LoadRow, LoadItems, Precheck, Steps
    <2>3. CASE InsertBasket(r) \/ CatalogQuotes(r) \/ BeginTx(r) \/ LockBasket(r)
               \/ FindItem(r)
      BY <1>1, <2>3 DEF InsertBasket, InsertBasketRow, CatalogQuotes, BeginTx, LockBasket,
         FindItem, Steps
    <2>4. CASE LockItem(r) \/ InsertItem(r)
      BY <1>1, <1>2, <2>4 DEF LockItem, InsertItem, Steps
    <2>5. CASE InsertCollides(r)
      BY <1>2, <2>5, RetryUsesUp DEF InsertCollides, UsesUp
    <2>6. CASE UpdateExistingItem(r) \/ DeleteItem(r)
      BY <1>1, <1>2, <2>6 DEF UpdateExistingItem, DeleteItem, Steps
    <2>7. CASE UpdateQuantity(r) \/ DeleteItems(r) \/ TouchBasket(r) \/ Commit(r)
      BY <1>1, <2>7 DEF UpdateQuantity, DeleteItems, TouchBasket, Commit, CommitTx, Steps
    <2> QED BY <1>3, <2>1, <2>2, <2>3, <2>4, <2>5, <2>6, <2>7 DEF Handler
  <1>4. ASSUME NEW r \in Requests, Accept(r) PROVE UsesUp
    <2> DEFINE step == IF ValidArguments(cmd[r]) THEN FirstStep(cmd[r]) ELSE "invalid"
    <2>1. step \in {"insertBasket", "row", "precheckRow", "begin", "invalid"}
      BY DEF FirstStep
    <2>2. pc[r] = "idle" /\ Goto(r, step) /\ UNCHANGED attempt
      BY <1>4 DEF Accept
    <2> HIDE DEF step
    <2> QED BY <1>1, <2>1, <2>2 DEF Steps
  <1>5. ASSUME NEW r \in Requests, StatementFails(r) \/ CommitAckLost(r) PROVE UsesUp
    <2>1. CASE StatementFails(r)
      BY <1>2, <2>1 DEF StatementFails, RunsStatement
    <2>2. CASE CommitAckLost(r)
      <3>1. pc[r] \in {"commit", "insertBasket"} /\ Goto(r, "ackLost") /\ UNCHANGED attempt
        BY <2>2 DEF CommitAckLost, CommitTx, InsertBasketRow
      <3> QED BY <1>1, <3>1 DEF Steps
    <2> QED BY <1>5, <2>1, <2>2
  <1>6. CASE Crash
    <2> SUFFICES ASSUME NEW s \in Requests, pc'[s] # pc[s]
                 PROVE  StepsLeft(s)' < StepsLeft(s)
      BY DEF UsesUp
    <2>1. pc[s] \in Steps \ {"done"} /\ pc'[s] = "done" /\ attempt' = attempt
      BY <1>6 DEF Crash, InFlight, TypeOK
    <2>2. attempt[s] \in Nat /\ maxIDGenerationAttempts \in Nat
      BY AttemptsAssumption DEF TypeOK
    <2>3. StepsAfter(pc[s]) \in Nat /\ StepsAfter(pc[s]) > 0
      BY <2>1 DEF Steps
    <2>4. StepsAfter(pc[s])' = 0
      BY <2>1 DEF StepsAfter
    <2> QED BY <2>1, <2>2, <2>3, <2>4 DEF StepsLeft
  <1>7. ASSUME NEW b \in Baskets, LeaveActive(b) PROVE UsesUp
    BY <1>7 DEF LeaveActive, UsesUp
  <1>8. CASE UNCHANGED vars
    BY <1>8 DEF vars, UsesUp
  <1> QED BY <1>3, <1>4, <1>5, <1>6, <1>7, <1>8 DEF Next, Terminated, UsesUp

\* Every step of a handler uses up one of finitely many, for any number of attempts
\* that AddItem is allowed and however often ids collide.
THEOREM NobodyRunsForever == Spec => StepsRunOut
  <1>1. SafeInv /\ [Next]_vars =>
          [\A r \in Requests : pc'[r] # pc[r] => StepsLeft(r)' < StepsLeft(r)]_vars
    BY StepUsesUp DEF SafeInv, TypeInv
  <1> QED BY <1>1, Safety, PTL DEF Spec, StepsRunOut
=============================================================================
