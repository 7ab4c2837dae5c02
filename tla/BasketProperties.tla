-------------------------- MODULE BasketProperties --------------------------
(***************************************************************************)
(* What should hold of BasketService.                                      *)
(***************************************************************************)
EXTENDS BasketService

Steps == {"idle", "invalid", "insertBasket", "row", "items", "precheckRow",
          "precheckItems", "catalog", "begin", "lock", "find", "write", "touch",
          "commit", "ackLost", "done"}

\* Every variable has the shape the code gives it.
TypeOK ==
  /\ baskets \in [Baskets -> BasketRow \cup {None}]
  /\ items \subseteq Item
  /\ lockedBy \in [Baskets -> Requests \cup {None}]
  /\ pc \in [Requests -> Steps]
  /\ cmd \in [Requests -> Commands]
  /\ quote \in [Requests -> Quote \cup {None}]
  /\ found \in [Requests -> Item \cup {None}]
  /\ newId \in [Requests -> ItemIds \cup {None}]
  /\ attempt \in [Requests -> 1 .. maxIDGenerationAttempts]
  /\ loaded \in [Requests -> LoadedBasket \cup {None}]
  /\ result \in [Requests -> Errors \cup {"pending", "nil", "lost"}]
  /\ applied \in [Requests -> SUBSET Nat]

(***************************************************************************)
(* Row locks.                                                              *)
(***************************************************************************)
\* A basket's row lock belongs to exactly the request whose transaction is past
\* lockBasketForUpdate on it, and is given back on every way out (commit,
\* deferred rollback, retry, crash).
LockOwnership ==
  \A r \in Requests, b \in Baskets :
    lockedBy[b] = r <=> HoldsLock(r) /\ cmd[r].basket = b

ReadIsCurrent(r) ==
  LET c == cmd[r] IN
  /\ HoldsLock(r) =>
       baskets[c.basket] # None /\ baskets[c.basket].status = "ACTIVE"
  /\ pc[r] \in {"write", "touch", "commit"} =>
       /\ Inserts(r) => SamePair(items, c) = {}
       /\ Grows(r) => found[r] \in SamePair(items, c)
       /\ c.op = "UpdateItemQuantity" => found[r] \in SameId(items, c)
  /\ pc[r] \in {"touch", "commit"} =>
       (c.op = "RemoveItem" => SameId(items, c) # {})

\* What a transaction read under the lock is still so when its write commits:
\* the basket is ACTIVE, the row it found is unchanged, and the pair or id it
\* did not find, or deletes, is still missing, or there.
LockedReadIsCurrent == \A r \in Requests : ReadIsCurrent(r)

(***************************************************************************)
(* The stored basket.                                                      *)
(***************************************************************************)
\* No interleaving leaves two lines for one product/variant pair, one id on two
\* lines, a line total that is not quantity * unit price (AddItem overwrites the
\* price, UpdateItemQuantity keeps the one it read), or a line in a currency the
\* subtotal of getBasket would add to another.
StoredItemsConsistent ==
  /\ IdsUnique(items)
  /\ PairsUnique(items)
  /\ TotalsAgree(items)
  /\ OneCurrency(items)

(***************************************************************************)
(* Answers.                                                                *)
(***************************************************************************)
Code(r) == GrpcCode(result[r])

\* A request takes effect at most once: AddItem's retry loop repeats only a
\* transaction that was rolled back, whatever fails after a commit.
AppliedAtMostOnce == \A r \in Requests : Cardinality(applied[r]) <= 1

\* The code a caller gets tells it whether its command took effect: OK means it
\* did, an argument, not-found, precondition or unavailable error that it did
\* not.  Only Internal and a lost answer leave it open.
AnswerTellsEffect ==
  \A r \in Requests : pc[r] = "done" =>
    /\ Code(r) = "OK" /\ cmd[r].op # "GetBasket" => applied[r] # {}
    /\ Code(r) \in DefiniteCodes => applied[r] = {}

\* The basket a write answers with is read after its own commit, and its items
\* never before its row: updated_at is never newer than the items it comes with.
ReadBackNotStale ==
  \A r \in Requests : pc[r] = "done" /\ Code(r) = "OK" =>
    /\ loaded[r].version <= loaded[r].asOf
    /\ \A v \in applied[r] : v <= loaded[r].version

ShowsEffect(c, q, lines) ==
  CASE c.op = "AddItem" ->
         \E x \in SamePair(lines, c) : x.qty >= c.qty /\ x.unit = q
    [] c.op = "UpdateItemQuantity" -> \E x \in SameId(lines, c) : x.qty = c.qty
    [] c.op = "RemoveItem" -> SameId(lines, c) = {}
    [] c.op \in {"ClearBasket", "CreateBasket"} -> lines = {}

\* A caller no later commit has overtaken finds its own command's effect in the
\* basket it is answered with.
OwnEffectVisible ==
  \A r \in Requests : pc[r] = "done" /\ Code(r) = "OK" /\ loaded[r].asOf \in applied[r]
    => ShowsEffect(cmd[r], quote[r], loaded[r].items)

\* "ClearBasketResponse returns the updated empty basket."
ClearAnswersEmpty ==
  \A r \in Requests : pc[r] = "done" /\ Code(r) = "OK" /\ cmd[r].op = "ClearBasket"
    => loaded[r].items = {}

(***************************************************************************)
(* Steps.                                                                  *)
(***************************************************************************)
\* A basket that is checked out, expired or cleared is not mutated, although
\* AddItem checks its status before a catalog call and other programs change it.
OnlyActiveBasketsChange ==
  [][\A b \in Baskets : ItemsOf(items', b) # ItemsOf(items, b) =>
       baskets[b].status = "ACTIVE" /\ baskets'[b].status = "ACTIVE"]_vars

\* Whenever a basket's items change its updated_at moves with them, so that a
\* reader who saw both can tell.
ItemsMoveWithVersion ==
  [][\A b \in Baskets : ItemsOf(items', b) # ItemsOf(items, b) =>
       baskets'[b].version > baskets[b].version]_vars

(***************************************************************************)
(* Progress.                                                               *)
(***************************************************************************)
\* Every call is answered: no handler waits for ever for a row lock or for one
\* of the pool's connections.
EveryCallAnswered == \A r \in Requests : pc[r] # "idle" ~> pc[r] = "done"

\* r's next statement cannot run yet: the pool has no connection left, another
\* transaction has the row lock, or every id r could draw is being inserted.
Waiting(r) ==
  \/ /\ pc[r] \in {"insertBasket", "row", "items", "precheckRow", "precheckItems", "begin"}
     /\ ~ConnectionFree
  \/ pc[r] = "lock" /\ ~LockFree(cmd[r].basket)
  \/ /\ pc[r] = "write" /\ Inserts(r)
     /\ IdsInUse = {} /\ ItemIds \subseteq IdsBeingInserted

\* Row locks and the pool's connections are two resources, taken by requests of two
\* kinds of need: still nobody waits for requests that all wait themselves.  Some
\* open transaction can take its next statement.
WaitersAreServed ==
  \A r \in Requests : Waiting(r) =>
    \E s \in Requests : InTransaction(s) /\ ~Waiting(s)

StepsAfter(step) ==
  CASE step = "done" -> 0
    [] step \in {"invalid", "items", "ackLost"} -> 1
    [] step = "row" -> 2
    [] step \in {"insertBasket", "commit"} -> 3
    [] step = "touch" -> 4
    [] step = "write" -> 5
    [] step = "find" -> 6
    [] step = "lock" -> 7
    [] step = "begin" -> 8
    [] step = "catalog" -> 9
    [] step = "precheckItems" -> 10
    [] step = "precheckRow" -> 11
    [] step = "idle" -> 12

\* The steps r can still take: those of this attempt, and the four from BeginTx to
\* the INSERT again for each attempt it has left.
StepsLeft(r) == 4 * (maxIDGenerationAttempts - attempt[r]) + StepsAfter(pc[r])

\* No handler runs for ever: each step it takes, the repetitions of AddItem's
\* transaction included, uses up one of finitely many, and nothing gives them back.
StepsRunOut ==
  [][\A r \in Requests : pc'[r] # pc[r] => StepsLeft(r)' < StepsLeft(r)]_vars

(***************************************************************************)
(* The inductive invariant of the proofs: what each step of a handler may  *)
(* rely on, beside the properties above.                                   *)
(***************************************************************************)
\* What a request's own earlier steps have established.
Control(r) ==
  LET c == cmd[r] IN
  /\ pc[r] \notin {"idle", "invalid", "done"} => ValidArguments(c)
  /\ pc[r] = "invalid" => c.op \in {"AddItem", "UpdateItemQuantity", "CreateBasket"}
  /\ pc[r] \in {"precheckRow", "precheckItems", "catalog"} => c.op = "AddItem"
  /\ pc[r] \in {"precheckItems", "items"} => loaded[r] # None
  /\ pc[r] \in {"precheckItems", "items"} \/ HoldsLock(r) => baskets[c.basket] # None
  /\ pc[r] = "begin" \/ InTransaction(r) =>
       c.op \in Writes /\ (c.op = "AddItem" => quote[r] # None)
  /\ pc[r] = "find" => c.op \in {"AddItem", "UpdateItemQuantity"}
  /\ pc[r] \in {"write", "touch", "commit"} /\ c.op = "UpdateItemQuantity" =>
       found[r] # None
  /\ pc[r] \in {"touch", "commit"} =>
       /\ Inserts(r) => newId[r] # None
       /\ Grows(r) => found[r].qty + c.qty \in Quantity

TypeInv == TypeOK /\ \A r \in Requests : Control(r)

\* A row about to be inserted.
Inserting(r) == pc[r] \in {"touch", "commit"} /\ Inserts(r)

\* An id drawn for an INSERT stays unused until it commits.
NewIdsFresh ==
  \A r \in Requests : Inserting(r) =>
    /\ newId[r] \notin IdsInUse
    /\ \A s \in Requests : Inserting(s) /\ newId[s] = newId[r] => s = r

\* Past the lock, an AddItem's quote is in the currency of the basket.
CurrenciesAgree ==
  /\ \A b \in Baskets : baskets[b] # None => baskets[b].currency = defaultCurrencyCode
  /\ \A r \in Requests : HoldsLock(r) /\ cmd[r].op = "AddItem" =>
       quote[r].currency = defaultCurrencyCode

\* An id is drawn by the last statement of a transaction that can wait.
DrawnLast ==
  \A r \in Requests : newId[r] # None =>
    pc[r] \in {"touch", "commit", "row", "items", "ackLost", "done"}

SafeInv ==
  /\ TypeInv
  /\ LockOwnership
  /\ LockedReadIsCurrent
  /\ StoredItemsConsistent
  /\ NewIdsFresh
  /\ CurrenciesAgree

\* What a request has committed and what it is about to answer: nothing before
\* its commit; after it, versions its basket has reached.
Committed(r) ==
  LET c == cmd[r]
      row == baskets[c.basket]
  IN
  /\ pc[r] \notin {"row", "items", "ackLost", "done"} => applied[r] = {}
  /\ pc[r] = "insertBasket" => c.op = "CreateBasket"
  /\ c.op = "GetBasket" => applied[r] = {}
  /\ pc[r] \in {"row", "items"} /\ c.op # "GetBasket" => applied[r] # {}
  /\ \A v \in applied[r] : row # None /\ v <= row.version /\ applied[r] = {v}
  /\ pc[r] = "items" =>
       loaded[r].version <= row.version /\ \A v \in applied[r] : v <= loaded[r].version
  /\ pc[r] \in {"row", "items"} /\ row.version \in applied[r] =>
       ShowsEffect(c, quote[r], ItemsOf(items, c.basket))

AnswerInv ==
  /\ SafeInv
  /\ \A x \in items : baskets[x.basket] # None
  /\ \A r \in Requests : Committed(r)
  /\ AnswerTellsEffect
  /\ ReadBackNotStale
  /\ OwnEffectVisible

(***************************************************************************)
(* The service keeps its promise: BasketSpec with a line for each row, and *)
(* a request applied from its commit on.                                   *)
(***************************************************************************)
Stage(r) ==
  CASE pc[r] = "idle" -> "idle"
    [] pc[r] = "done" -> "answered"
    [] pc[r] \notin {"idle", "done"} /\ applied[r] # {} -> "applied"
    [] OTHER -> "called"

CodeSoFar(r) == IF pc[r] = "done" THEN Code(r) ELSE "pending"

PromisedLine(x) ==
  [id |-> x.id, basket |-> x.basket, variant |-> x.variant, qty |-> x.qty, unit |-> x.unit]

PromisedStatus ==
  [b \in Baskets |-> IF baskets[b] = None THEN None ELSE baskets[b].status]
PromisedLines == {PromisedLine(x) : x \in items}
PromisedStage == [r \in Requests |-> Stage(r)]
PromisedCode == [r \in Requests |-> CodeSoFar(r)]

Promise == INSTANCE BasketSpec WITH
  status <- PromisedStatus,
  lines <- PromisedLines,
  stage <- PromisedStage,
  code <- PromisedCode

\* Every command takes effect atomically, at most once, between its call and its
\* answer, and the answer tells which.
KeepsPromise == Promise!Spec
=============================================================================
