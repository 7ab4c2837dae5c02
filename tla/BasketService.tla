---------------------------- MODULE BasketService ----------------------------
(***************************************************************************)
(* The basket-service: its RPC handlers, one goroutine per request, over   *)
(* the MySQL tables baskets and basket_items.  Each step is one statement  *)
(* (or one catalog call) of service.go and repository.go; other requests   *)
(* run between any two steps.  A write locks the row of its basket         *)
(* (SELECT ... FOR UPDATE), so what its transaction will have written is a *)
(* function of its local state and shows in the tables when it commits.    *)
(***************************************************************************)
EXTENDS BasketTypes

CONSTANTS
  maxIDGenerationAttempts,   \* 3 in the code
  MaxOpenConns,              \* db.SetMaxOpenConns, 15 in the code
  ExternalStatuses,          \* statuses another program may set
  Faults                     \* subset of {"statement", "ack", "crash"}

ASSUME AttemptsAssumption == maxIDGenerationAttempts \in Nat \ {0}

ASSUME ConnectionsAssumption == MaxOpenConns \in Nat \ {0}

ASSUME ExternalAssumption == ExternalStatuses \subseteq BasketStatus \ {"ACTIVE"}

VARIABLES
  baskets,    \* committed rows of table baskets, None where there is none
  items,      \* committed rows of table basket_items
  lockedBy,   \* basket -> the request that holds its row lock, or None
  pc,         \* request -> its next statement
  cmd,        \* request -> the command it was sent
  quote,      \* request -> unit price in AddValidatedItemCommand, or None
  found,      \* request -> row its transaction read FOR UPDATE, or None
  newId,      \* request -> basket_item_id it is inserting, or None
  attempt,    \* request -> AddItem's attempt counter
  loaded,     \* request -> basket GetBasket is building, or None
  result,     \* request -> error it answered with, or "pending"
  applied     \* history: request -> row versions it committed

database == <<baskets, items, lockedBy>>
locals == <<cmd, quote, found, newId, attempt>>
vars == <<database, pc, locals, loaded, result, applied>>

(***************************************************************************)
(* Transactions and connections.                                           *)
(***************************************************************************)
\* Wrong on purpose: the connection is kept while the basket is read back.
InTransactionTooLong(r) ==
  pc[r] \in {"lock", "find", "write", "touch", "commit", "row", "items"}

InTransaction(r) == pc[r] \in {"lock", "find", "write", "touch", "commit"}

\* The row lock is held from a successful lockBasketForUpdate on.
HoldsLock(r) == pc[r] \in {"find", "write", "touch", "commit"}

\* A transaction keeps its connection; a statement outside one needs a free one.
ConnectionFree == Cardinality({r \in Requests : InTransaction(r)}) < MaxOpenConns

\* Wrong on purpose: SELECT without FOR UPDATE.
LockFreeAlways(b) == TRUE

LockFree(b) == lockedBy[b] = None

\* Wrong on purpose: a path that neither commits nor rolls back.
ReleaseNothing(r) == lockedBy

Release(r) == [b \in Baskets |-> IF lockedBy[b] = r THEN None ELSE lockedBy[b]]

\* A loaded basket; asOf is history: the row version its items belong to.
LoadedBasket == [status : BasketStatus, version : Nat, items : SUBSET Item, asOf : Nat]

ASSUME NoBasketAssumption == None \notin LoadedBasket

(***************************************************************************)
(* Ways for a handler to go on: to its next statement, or to its answer.   *)
(* Returning an error runs the deferred Rollback of an open transaction.   *)
(***************************************************************************)
Goto(r, step) == pc' = [pc EXCEPT ![r] = step]

Fail(r, err) ==
  /\ Goto(r, "done")
  /\ result' = [result EXCEPT ![r] = err]
  /\ loaded' = [loaded EXCEPT ![r] = None]
  /\ lockedBy' = Release(r)
  /\ UNCHANGED <<baskets, items, locals, applied>>

FirstStep(c) ==
  CASE c.op = "CreateBasket" -> "insertBasket"
    [] c.op = "GetBasket" -> "row"
    [] c.op = "AddItem" -> "precheckRow"
    [] OTHER -> "begin"

Init ==
  /\ baskets = [b \in Baskets |->
       IF b \in SeedBaskets
         THEN [status |-> "ACTIVE", currency |-> defaultCurrencyCode, version |-> 0]
         ELSE None]
  /\ items = SeedItems
  /\ lockedBy = [b \in Baskets |-> None]
  /\ pc = [r \in Requests |-> "idle"]
  /\ cmd \in [Requests -> Commands]
  /\ quote = [r \in Requests |-> None]
  /\ found = [r \in Requests |-> None]
  /\ newId = [r \in Requests |-> None]
  /\ attempt = [r \in Requests |-> 1]
  /\ loaded = [r \in Requests |-> None]
  /\ result = [r \in Requests |-> "pending"]
  /\ applied = [r \in Requests |-> {}]

(***************************************************************************)
(* A call arrives: the service validates its arguments.                    *)
(***************************************************************************)
ValidArguments(c) ==
  CASE c.op \in {"AddItem", "UpdateItemQuantity"} -> c.qty \in Quantity
    [] c.op = "CreateBasket" -> c.currency \in {"", defaultCurrencyCode}
    [] OTHER -> TRUE

ArgumentError(c) ==
  IF c.op = "CreateBasket" THEN "ErrInvalidCurrencyCode" ELSE "ErrInvalidQuantity"

\* Bad arguments are answered before the repository is asked anything.
Accept(r) ==
  /\ pc[r] = "idle"
  /\ Goto(r, IF ValidArguments(cmd[r]) THEN FirstStep(cmd[r]) ELSE "invalid")
  /\ UNCHANGED <<database, locals, loaded, result, applied>>

Reject(r) ==
  /\ pc[r] = "invalid"
  /\ Fail(r, ArgumentError(cmd[r]))

(***************************************************************************)
(* CreateBasket: one autocommitted INSERT; a duplicate id is not retried.  *)
(***************************************************************************)
InsertBasketRow(r, next) ==
  /\ pc[r] = "insertBasket"
  /\ ConnectionFree
  /\ baskets[cmd[r].basket] = None
  /\ baskets' = [baskets EXCEPT ![cmd[r].basket] =
       [status |-> "ACTIVE", currency |-> defaultCurrencyCode, version |-> 0]]
  /\ applied' = [applied EXCEPT ![r] = @ \cup {0}]
  /\ Goto(r, next)
  /\ UNCHANGED <<items, lockedBy, locals, loaded, result>>

InsertBasket(r) == InsertBasketRow(r, "row")

InsertBasketDuplicate(r) ==
  /\ pc[r] = "insertBasket"
  /\ ConnectionFree
  /\ baskets[cmd[r].basket] # None
  /\ Fail(r, "statement failed")

(***************************************************************************)
(* GetBasket: two autocommitted SELECTs, first the row, then the items.    *)
(* AddItem also runs it before its transaction, every write after it.      *)
(***************************************************************************)
LoadRow(r) ==
  /\ pc[r] \in {"row", "precheckRow"}
  /\ ConnectionFree
  /\ LET row == baskets[cmd[r].basket] IN
       \/ /\ row = None
          /\ Fail(r, "ErrBasketNotFound")
       \/ /\ row # None
          /\ loaded' = [loaded EXCEPT ![r] = [status |-> row.status,
               version |-> row.version, items |-> {}, asOf |-> row.version]]
          /\ Goto(r, IF pc[r] = "row" THEN "items" ELSE "precheckItems")
          /\ UNCHANGED <<database, locals, result, applied>>

LoadItems(r) ==
  /\ pc[r] = "items"
  /\ ConnectionFree
  /\ loaded' = [loaded EXCEPT ![r].items = ItemsOf(items, cmd[r].basket),
                              ![r].asOf = baskets[cmd[r].basket].version]
  /\ result' = [result EXCEPT ![r] = "nil"]
  /\ Goto(r, "done")
  /\ UNCHANGED <<database, locals, applied>>

(***************************************************************************)
(* AddItem before its transaction: the unlocked check of the basket it     *)
(* loaded, then the catalog's answer, which may be any quote or error.     *)
(***************************************************************************)
Precheck(r) ==
  /\ pc[r] = "precheckItems"
  /\ ConnectionFree
  /\ LET tooMany == \E x \in SamePair(items, cmd[r]) : x.qty + cmd[r].qty \notin Quantity
         active == loaded[r].status = "ACTIVE"
     IN  \/ ~active /\ Fail(r, "ErrBasketNotModifiable")
         \/ active /\ tooMany /\ Fail(r, "ErrInvalidQuantity")
         \/ /\ active /\ ~tooMany
            /\ Goto(r, "catalog")
            /\ loaded' = [loaded EXCEPT ![r] = None]
            /\ UNCHANGED <<database, locals, result, applied>>

CatalogQuotes(r) ==
  /\ pc[r] = "catalog"
  /\ \E q \in Quote : quote' = [quote EXCEPT ![r] = q]
  /\ Goto(r, "begin")
  /\ UNCHANGED <<database, cmd, found, newId, attempt, loaded, result, applied>>

CatalogRefuses(r) ==
  /\ pc[r] = "catalog"
  /\ \E err \in CatalogErrors : Fail(r, err)

(***************************************************************************)
(* The transaction.                                                        *)
(***************************************************************************)
BeginTx(r) ==
  /\ pc[r] = "begin"
  /\ ConnectionFree
  /\ Goto(r, "lock")
  /\ UNCHANGED <<database, locals, loaded, result, applied>>

\* Wrong on purpose: the status is left to the service's unlocked check.
LockErrorNoStatus(r) ==
  LET row == baskets[cmd[r].basket] IN
  CASE row = None -> "ErrBasketNotFound"
    [] row # None /\ cmd[r].op = "AddItem" /\ row.currency # quote[r].currency ->
         "ErrBasketCurrencyMismatch"
    [] OTHER -> "nil"

\* Why lockBasketForUpdate, or addItemOnce right after it, gives up.
LockError(r) ==
  LET row == baskets[cmd[r].basket] IN
  CASE row = None -> "ErrBasketNotFound"
    [] row # None /\ row.status # "ACTIVE" -> "ErrBasketNotModifiable"
    [] row # None /\ row.status = "ACTIVE" /\ cmd[r].op = "AddItem"
         /\ row.currency # quote[r].currency -> "ErrBasketCurrencyMismatch"
    [] OTHER -> "nil"

LockBasket(r) ==
  /\ pc[r] = "lock"
  /\ LockFree(cmd[r].basket)
  /\ LockError(r) = "nil"
  /\ lockedBy' = [lockedBy EXCEPT ![cmd[r].basket] = r]
  /\ Goto(r, IF cmd[r].op \in {"AddItem", "UpdateItemQuantity"} THEN "find" ELSE "write")
  /\ UNCHANGED <<baskets, items, locals, loaded, result, applied>>

LockBasketRefused(r) ==
  /\ pc[r] = "lock"
  /\ LockFree(cmd[r].basket)
  /\ LockError(r) # "nil"
  /\ Fail(r, LockError(r))

\* findBasketItemForUpdate: the row of the pair, if there is one.
FindItem(r) ==
  /\ pc[r] = "find"
  /\ cmd[r].op = "AddItem"
  /\ LET rows == SamePair(items, cmd[r]) IN
       found' = [found EXCEPT ![r] = IF rows = {} THEN None ELSE CHOOSE x \in rows : TRUE]
  /\ Goto(r, "write")
  /\ UNCHANGED <<database, cmd, quote, newId, attempt, loaded, result, applied>>

\* lockBasketItemForUpdate: the row of the item, which must be there.
LockItem(r) ==
  /\ pc[r] = "find"
  /\ cmd[r].op = "UpdateItemQuantity"
  /\ \/ /\ SameId(items, cmd[r]) = {}
        /\ Fail(r, "ErrBasketItemNotFound")
     \/ /\ \E x \in SameId(items, cmd[r]) : found' = [found EXCEPT ![r] = x]
        /\ Goto(r, "write")
        /\ UNCHANGED <<database, cmd, quote, newId, attempt, loaded, result, applied>>

(***************************************************************************)
(* insertNewBasketItem draws an id.  One that another open transaction is  *)
(* inserting makes this INSERT wait for it, so it is drawn afterwards.     *)
(***************************************************************************)
IdsInUse == {x.id : x \in items}

IdsBeingInserted == {newId[s] : s \in {s \in Requests : InTransaction(s)}} \ {None}

InsertItem(r) ==
  /\ pc[r] = "write"
  /\ cmd[r].op = "AddItem" /\ found[r] = None
  /\ \E id \in ItemIds \ (IdsInUse \cup IdsBeingInserted) :
       newId' = [newId EXCEPT ![r] = id]
  /\ Goto(r, "touch")
  /\ UNCHANGED <<database, cmd, quote, found, attempt, loaded, result, applied>>

\* Wrong on purpose: a retry that is not counted.
InsertCollidesForever(r) ==
  /\ pc[r] = "write"
  /\ cmd[r].op = "AddItem" /\ found[r] = None
  /\ IdsInUse # {}
  /\ lockedBy' = Release(r)
  /\ Goto(r, "begin")
  /\ UNCHANGED <<baskets, items, locals, loaded, result, applied>>

\* A duplicate basket_item_id: roll back and try again from BeginTx.
InsertCollides(r) ==
  /\ pc[r] = "write"
  /\ cmd[r].op = "AddItem" /\ found[r] = None
  /\ IdsInUse # {}
  /\ \/ /\ attempt[r] = maxIDGenerationAttempts
        /\ Fail(r, "ErrCouldNotAllocateItemID")
     \/ /\ attempt[r] < maxIDGenerationAttempts
        /\ attempt' = [attempt EXCEPT ![r] = @ + 1]
        /\ lockedBy' = Release(r)
        /\ Goto(r, "begin")
        /\ UNCHANGED <<baskets, items, cmd, quote, found, newId, loaded, result, applied>>

\* Wrong on purpose: the combined quantity is left to the unlocked check.
UpdateExistingItemUnchecked(r) ==
  /\ pc[r] = "write"
  /\ cmd[r].op = "AddItem" /\ found[r] # None
  /\ Goto(r, "touch")
  /\ UNCHANGED <<database, locals, loaded, result, applied>>

\* updateExistingBasketItem checks the combined quantity again, under the lock.
UpdateExistingItem(r) ==
  /\ pc[r] = "write"
  /\ cmd[r].op = "AddItem" /\ found[r] # None
  /\ \/ /\ found[r].qty + cmd[r].qty \notin Quantity
        /\ Fail(r, "ErrInvalidQuantity")
     \/ /\ found[r].qty + cmd[r].qty \in Quantity
        /\ Goto(r, "touch")
        /\ UNCHANGED <<database, locals, loaded, result, applied>>

UpdateQuantity(r) ==
  /\ pc[r] = "write"
  /\ cmd[r].op = "UpdateItemQuantity"
  /\ Goto(r, "touch")
  /\ UNCHANGED <<database, locals, loaded, result, applied>>

DeleteItem(r) ==
  /\ pc[r] = "write"
  /\ cmd[r].op = "RemoveItem"
  /\ \/ /\ SameId(items, cmd[r]) = {}
        /\ Fail(r, "ErrBasketItemNotFound")
     \/ /\ SameId(items, cmd[r]) # {}
        /\ Goto(r, "touch")
        /\ UNCHANGED <<database, locals, loaded, result, applied>>

DeleteItems(r) ==
  /\ pc[r] = "write"
  /\ cmd[r].op = "ClearBasket"
  /\ Goto(r, "touch")
  /\ UNCHANGED <<database, locals, loaded, result, applied>>

TouchBasket(r) ==
  /\ pc[r] = "touch"
  /\ Goto(r, "commit")
  /\ UNCHANGED <<database, locals, loaded, result, applied>>

(***************************************************************************)
(* The table basket_items as the statements of r's transaction leave it.   *)
(***************************************************************************)
InsertedItem(r) ==
  [id |-> newId[r], basket |-> cmd[r].basket, variant |-> cmd[r].variant,
   qty |-> cmd[r].qty, unit |-> quote[r], total |-> LineTotal(cmd[r].qty, quote[r])]

\* Wrong on purpose: a line that grows keeps the unit price it had.
GrownOldPrice(r, x) ==
  LET qty == found[r].qty + cmd[r].qty IN
  [x EXCEPT !.qty = qty, !.total = LineTotal(qty, found[r].unit)]

\* AddItem overwrites the unit price of the whole line with its quote.
Grown(r, x) ==
  LET qty == found[r].qty + cmd[r].qty IN
  [x EXCEPT !.qty = qty, !.unit = quote[r], !.total = LineTotal(qty, quote[r])]

\* UpdateItemQuantity keeps the stored unit price it read under the lock.
Requantified(r, x) ==
  [x EXCEPT !.qty = cmd[r].qty, !.total = LineTotal(cmd[r].qty, found[r].unit)]

Inserts(r) == cmd[r].op = "AddItem" /\ found[r] = None
Grows(r) == cmd[r].op = "AddItem" /\ found[r] # None

Written(r) ==
  CASE Inserts(r) -> items \cup {InsertedItem(r)}
    [] Grows(r) -> {IF x.basket = cmd[r].basket /\ x.id = found[r].id
                      THEN Grown(r, x) ELSE x : x \in items}
    [] cmd[r].op = "UpdateItemQuantity" ->
         {IF x \in SameId(items, cmd[r]) THEN Requantified(r, x) ELSE x : x \in items}
    [] cmd[r].op = "RemoveItem" -> items \ SameId(items, cmd[r])
    [] cmd[r].op = "ClearBasket" -> items \ ItemsOf(items, cmd[r].basket)

\* Wrong on purpose: no touchBasket.
CommitTxUntouched(r, next) ==
  /\ pc[r] = "commit"
  /\ items' = Written(r)
  /\ applied' = [applied EXCEPT ![r] = @ \cup {baskets[cmd[r].basket].version}]
  /\ lockedBy' = Release(r)
  /\ Goto(r, next)
  /\ UNCHANGED <<baskets, locals, loaded, result>>

CommitTx(r, next) ==
  LET b == cmd[r].basket IN
  /\ pc[r] = "commit"
  /\ items' = Written(r)
  /\ baskets' = [baskets EXCEPT ![b].version = @ + 1]
  /\ applied' = [applied EXCEPT ![r] = @ \cup {baskets[b].version + 1}]
  /\ lockedBy' = Release(r)
  /\ Goto(r, next)
  /\ UNCHANGED <<locals, loaded, result>>

\* Wrong on purpose: the answer is read, outside the transaction, before it commits.
CommitReadsBefore(r) ==
  LET b == cmd[r].basket IN
  /\ pc[r] = "commit"
  /\ items' = Written(r)
  /\ baskets' = [baskets EXCEPT ![b].version = @ + 1]
  /\ applied' = [applied EXCEPT ![r] = @ \cup {baskets[b].version + 1}]
  /\ lockedBy' = Release(r)
  /\ loaded' = [loaded EXCEPT ![r] = [status |-> baskets[b].status,
       version |-> baskets[b].version, items |-> ItemsOf(items, b),
       asOf |-> baskets[b].version]]
  /\ result' = [result EXCEPT ![r] = "nil"]
  /\ Goto(r, "done")
  /\ UNCHANGED locals

\* Every write answers with the basket it reads back after the commit.
Commit(r) == CommitTx(r, "row")

(***************************************************************************)
(* What can go wrong.  A statement fails: a lost connection, a deadlock    *)
(* victim, a cancelled context.  A commit takes effect and its             *)
(* acknowledgement is lost.  The process dies, and MySQL rolls its open    *)
(* transactions back.                                                      *)
(***************************************************************************)
RunsStatement(r) == pc[r] \notin {"idle", "invalid", "catalog", "ackLost", "done"}

StatementFails(r) ==
  /\ "statement" \in Faults
  /\ RunsStatement(r)
  /\ Fail(r, "statement failed")

CommitAckLost(r) ==
  /\ "ack" \in Faults
  /\ \/ CommitTx(r, "ackLost")
     \/ InsertBasketRow(r, "ackLost")

\* Wrong on purpose: AddItem's loop retries whatever error it gets.
ReportLostAckRetries(r) ==
  /\ pc[r] = "ackLost"
  /\ \/ /\ cmd[r].op = "AddItem" /\ attempt[r] < maxIDGenerationAttempts
        /\ attempt' = [attempt EXCEPT ![r] = @ + 1]
        /\ Goto(r, "begin")
        /\ UNCHANGED <<database, cmd, quote, found, newId, loaded, result, applied>>
     \/ /\ cmd[r].op # "AddItem" \/ attempt[r] = maxIDGenerationAttempts
        /\ Fail(r, "statement failed")

ReportLostAck(r) ==
  /\ pc[r] = "ackLost"
  /\ Fail(r, "statement failed")

InFlight == {r \in Requests : pc[r] \notin {"idle", "done"}}

Crash ==
  /\ "crash" \in Faults
  /\ InFlight # {}
  /\ pc' = [r \in Requests |-> IF r \in InFlight THEN "done" ELSE pc[r]]
  /\ result' = [r \in Requests |-> IF r \in InFlight THEN "lost" ELSE result[r]]
  /\ loaded' = [r \in Requests |-> IF r \in InFlight THEN None ELSE loaded[r]]
  /\ lockedBy' = [b \in Baskets |-> None]
  /\ UNCHANGED <<baskets, items, locals, applied>>

\* Another program checks the basket out or expires it, under the row lock.
LeaveActive(b) ==
  /\ baskets[b] # None
  /\ LockFree(b)
  /\ baskets[b].status = "ACTIVE"
  /\ \E s \in ExternalStatuses :
       baskets' = [baskets EXCEPT ![b].status = s, ![b].version = @ + 1]
  /\ UNCHANGED <<items, lockedBy, pc, locals, loaded, result, applied>>

(***************************************************************************)
(* The specification.                                                      *)
(***************************************************************************)
Handler(r) ==
  \/ Reject(r)
  \/ InsertBasket(r) \/ InsertBasketDuplicate(r)
  \/ LoadRow(r) \/ LoadItems(r)
  \/ Precheck(r) \/ CatalogQuotes(r) \/ CatalogRefuses(r)
  \/ BeginTx(r) \/ LockBasket(r) \/ LockBasketRefused(r)
  \/ FindItem(r) \/ LockItem(r)
  \/ InsertItem(r) \/ InsertCollides(r) \/ UpdateExistingItem(r)
  \/ UpdateQuantity(r) \/ DeleteItem(r) \/ DeleteItems(r)
  \/ TouchBasket(r) \/ Commit(r) \/ ReportLostAck(r)

AllDone == \A r \in Requests : pc[r] = "done"

Terminated == AllDone /\ UNCHANGED vars

Next ==
  \/ \E r \in Requests : Accept(r) \/ Handler(r)
                           \/ StatementFails(r) \/ CommitAckLost(r)
  \/ \E b \in Baskets : LeaveActive(b)
  \/ Crash
  \/ Terminated

Spec == Init /\ [][Next]_vars

\* The Go scheduler and MySQL run every handler that can take a step; clients
\* need not call, and faults and other programs need not act.
FairSpec == Spec /\ \A r \in Requests : WF_vars(Handler(r))
=============================================================================
