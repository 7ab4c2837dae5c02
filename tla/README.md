# bfstore in TLA+

TLA+ models of bfstore, a set of Go microservices for a furniture shop, with
the TLC runs that check them and the proofs TLAPS checks. Two services have
code, basket-service and catalog-service, on a shared platform library. Modelled
are the basket-service, the only one that writes; the lookup by which AddItem
asks the catalog-service what a product costs; the two services together; the
catalog's lists and product pages; and the life of a service process, which both
share.

## 1. Inventory

### basket-service (`src/services/basket-service`)

| part | state it keeps | operations | what makes it correct |
|---|---|---|---|
| gRPC handlers (`internal/grpcadapter`) | none | six RPCs; errors to gRPC codes | the code tells the caller whether its command took effect |
| service (`internal/basket/service.go`) | none | validate arguments, pre-check the basket, ask the catalog, call the repository | a pre-check on stale data decides nothing by itself |
| repository (`internal/basket/repository.go`) | tables `baskets`, `basket_items` in MySQL | autocommitted reads; one transaction per write, opened with `SELECT ... FOR UPDATE` on the basket row; retry of a colliding item id | writes to one basket are serial, all or nothing, only while it is `ACTIVE`; one line for a product/variant pair; totals agree with prices |
| catalog client (`internal/basket/client.go`) | none | `ValidateProductVariant` with a timeout; statuses to errors | a catalog error is reported as what it was |
| ids (`internal/basket/ids.go`) | none | prefix, ULID payload, checksum | every generated id validates; collisions are retried |
| process (`cmd/basket-service`) | health status, connection pool of 15 | start, readiness monitor every 10 s, graceful stop with a limit of 10 s, then forced | not serving once shutdown has begun; nothing half written |

### catalog-service (`src/services/catalog-service`)

| part | state it keeps | operations | what makes it correct |
|---|---|---|---|
| validation | reads tables only | joined lookup; two more reads to tell why it missed | product, variant and mismatch are told apart |
| pagination | none; the cursor is in the page token | `ListProducts`, `ListCategories`, `ListProductAttributeDefinitions` by keyset | a row that stays is listed exactly once |
| product details | none | `GetProduct`: four reads, hydrated with at most 500 definitions from a fifth | a product that nobody changes is shown whole; one that is changed shows nothing that never was |

### platform (`src/pkg/platform`)

Health manager (serving status per service, under a `RWMutex`), graceful
shutdown, interceptors (recovery, correlation id, logging, request metrics,
authentication, the last not wired in), database metrics, telemetry.

### Interaction

A client calls the basket-service over gRPC, one goroutine per request. AddItem
calls the catalog-service. Requests meet only in MySQL: on row locks, on unique
keys, and on the connection pool. Checkout and expiry belong to services that
have no code here; they change a basket's status in the same table.

### What is hard here

Every hazard is listed at its line in `PROJECT.json`. The main ones: checks
made before a lock and used after it; the answer of a write, read after its
lock is gone; failures after a commit; a retry loop around a transaction; a
lock or connection left behind on one of many error returns; statuses changed
by another program; a reader that sees a row and its items at two moments, or a
product at five; a price that changes while AddItem waits for it.

## 2. Modules

| module | what it is |
|---|---|
| `BasketErrors` | errors of the basket-service and their gRPC codes |
| `BasketTypes` | rows, commands, line totals, constants and their assumptions |
| `BasketSpec` | what the service promises: each command takes effect atomically, at most once, between its call and its answer |
| `BasketService` | the service: handlers as processes, one action per SQL statement or catalog call |
| `BasketProperties` | type invariant, safety, step and liveness properties, the inductive invariant, the refinement mapping to `BasketSpec` |
| `MCBasket` | commands and seed rows for TLC |
| `BasketServiceProofs` | type correctness, proved |
| `BasketSafetyProofs` | locks, reads under them, stored items, step properties, and that nobody waits in a circle or runs for ever, proved |
| `BasketAnswerProofs` | what requests commit and are answered with, and that `BasketService` implements `BasketSpec`, proved |
| `CatalogTypes` | lifecycle statuses, and the gRPC codes of the catalog-service's errors |
| `CatalogValidation` | the catalog client of the basket-service, the RPC `ValidateProductVariant`, and the tables it reads |
| `CatalogProperties`, `MCCatalog` | its properties and inductive invariant; rows for TLC |
| `CatalogProofs` | all its safety properties, proved |
| `CatalogPagination`, `MCPagination` | the list RPCs, with their properties; rows and filters for TLC |
| `PaginationProofs` | all their safety properties, proved |
| `CatalogProduct` | `GetProduct` and the five tables it reads |
| `ProductProperties`, `MCProduct` | its properties and inductive invariant; states of the tables for TLC |
| `ProductProofs` | all its safety properties, proved |
| `BasketWithCatalog`, `MCShop` | `BasketService` and `CatalogValidation` composed: AddItem calls the catalog client; a small shop for TLC |
| `ShopProofs` | that the two together are a behaviour of `BasketService`, and what prices and refusals callers see, proved |
| `ServiceLifecycle` | main of either service, its readiness monitor, the health manager, and requests inside the chain of interceptors |
| `LifecycleProperties`, `MCLifecycle` | its properties and inductive invariant; names and requests for TLC |
| `LifecycleProofs` | its safety properties, proved |

`BasketService` takes any price and any of `CatalogErrors` for the answer of the
catalog client; `BasketWithCatalog` puts the real client and catalog-service in
that place and shows (`ServesBaskets`) that they give no other. It EXTENDS
`BasketProperties` and instantiates `CatalogProperties` with the requests for
lookups and the pair of each command for its query. `ServiceLifecycle` cuts
requests off (`"cut"`); `BasketService` says in `Crash` what that means to a
transaction.

### How BasketService corresponds to the code

`baskets` and `items` are the committed tables. `version` of a basket row stands
for `updated_at`: every commit that touches the row moves it. `lockedBy` is the
InnoDB row lock taken by `lockBasketForUpdate`. The other variables are locals
of a handler: `pc` (its next statement), `cmd` (its request), `quote` (the
price from the catalog), `found` (the item row it read `FOR UPDATE`), `newId`,
`attempt`, `loaded` (the basket it is reading), `result`. `applied` is a history
variable: the row versions a request has committed.

| code | actions |
|---|---|
| argument checks in handler and service | `Accept`, `Reject` |
| `CreateBasket` | `InsertBasket`, `InsertBasketDuplicate`, then `LoadRow`, `LoadItems` |
| `GetBasket` | `LoadRow`, `LoadItems` |
| `AddItem` before its transaction | `LoadRow`, `Precheck`, `CatalogQuotes`, `CatalogRefuses` |
| `addItemOnce` | `BeginTx`, `LockBasket` / `LockBasketRefused`, `FindItem`, `InsertItem` / `InsertCollides` / `UpdateExistingItem`, `TouchBasket`, `Commit`, `LoadRow`, `LoadItems` |
| `UpdateItemQuantity` | `BeginTx`, `LockBasket`, `LockItem`, `UpdateQuantity`, `TouchBasket`, `Commit`, reads |
| `RemoveItem`, `ClearBasket` | the same with `DeleteItem`, `DeleteItems` and no item lock |
| deferred `Rollback` | part of `Fail`: every error return gives the lock back |
| forced `Stop`, death of the process | `Crash` |

Two abstractions carry weight. First, a transaction's writes appear in the
tables at `CommitTx`: until then InnoDB shows them to nobody else, and rollback
undoes them. `Written(r)` computes them from the committed table and the
locals, so the model does not assume that what a transaction read under the
lock still holds when it commits; `LockedReadIsCurrent` says it does. Second, a
second `INSERT` of an id that an open transaction is inserting waits for it;
the model lets it draw its id afterwards, which has the same outcomes.

Left out: names, descriptions and `created_at`; ordering of items; malformed
ids and blank arguments, which are answered before anything is read, as an
out-of-range quantity is; widths of integers; timeouts of a context, which show
as failing statements or as catalog errors; gap locks, whose deadlock victims
also show as failing statements (so the deadlock itself is nowhere checked).

### How CatalogValidation corresponds to the code

`products` and `variants` are the tables; `Maintain` is a transaction of any
other program on them. A lookup is one call of the client: `pc` is the next
statement of the catalog's handler, `reply` the status or response on its way
back, `outcome` what AddItem gets. `held` is history: what was true of the pair
at each moment of the call.

| code | actions |
|---|---|
| client: `ValidateProductVariant`, `context.WithTimeout` | `Call`, `DeadlinePasses`, `CallBreaks` |
| repository: joined `SELECT` and the service's checks of its row | `Join` (`SnapshotError`), `JoinMisses` |
| `classifyMissingProductVariant` | `ProductExists`, `VariantExists` |
| errors of any of the three statements | `QueryFails` |
| `mapServiceError`, message text | `CatalogCode`, `Words` |
| client: `mapCatalogValidationError`, checks of the response | `Receive` (`ClientError`, `ResponseError`) |

A message is the set of words the client looks for in it. Ids hold none of
these words. MySQL compares ids in a collation that ignores case, and the
answer spells them as they are stored: `exact` of a query says whether the
caller spelled them so too. Blank ids are answered before anything is read and
are left out, as are the client's checks of a nil response or price, which the
catalog-service does not send.

### How BasketWithCatalog corresponds to the code

The goroutine of AddItem makes the client's calls, so a request at `"catalog"`
moves by `AskCatalog` (it sends the RPC), `Await` and `Deadline` (the client's
three ways to return), and then `TakeQuote` (a snapshot: go on with its price)
or `GiveUp` (an error: answer with it). These two are `CatalogQuotes` and the
error return of `BasketService`, bound to the outcome the client returned. Every
other step of a handler (`BasketStep`) leaves the catalog alone, and the
catalog-service's steps and its tables' changes (`CatalogStep`) leave the baskets
alone; if the basket-service dies, a call under way goes on in the catalog.

### How CatalogProduct corresponds to the code

`catalog` is one committed state of the tables as far as they concern the product
asked for: its row, which of the variants are its own, its attribute values, its
images, and the definitions of attributes. `Maintain` is a transaction of any
other program. A call is at its next statement (`pc`); `got` is what it has read;
`past` is history: the states of the tables since it began.

| code | actions and operators |
|---|---|
| handler and service before the first read | `Call`, `CallWithoutId` |
| `getProductRow`, `listProductVariants`, `listProductAttributeValues`, `listProductImages` | `ReadProduct`, `ReadVariants`, `ReadValues`, `ReadImages` |
| `ListProductAttributeDefinitions` with limit 500, `hydrateProduct`, `productDetailsToProto` | `ReadDefinitions` |
| `ORDER BY created_at DESC, attribute_id DESC LIMIT` | `Newer`, `Known` |
| values sorted to the product and to its variants | `ShownValues`, `AttributesOf` |
| "missing attribute definition", "has no value set" | `ValueError` |
| errors of any statement, a caller that has gone | `StatementFails` |

Hydration and conversion read no shared state, so they are part of the step of
the last statement. The schema makes statuses and data types ones of the code's,
and numbers parse: those errors cannot happen and are left out, as are names,
prices and the order of the lists. The options of an attribute are always empty
in an answer, for the repository never loads them; the model has none.

### How CatalogPagination corresponds to the code

One module for the three RPCs, which differ in their WHERE clause (`Matches`).
`Page` is one call: `normalisePageSize`, the query `ORDER BY created_at DESC, id
DESC LIMIT n + 1` behind the cursor, the cut to `n` rows and the token for the
next. The token holds the last row's `created_at` and id (`cursor`); nothing is
kept on the server. `shown` counts how often a row was listed, `stayed` is
history: the rows that matched at every moment since the first page.
`RefuseArguments`, `RefuseToken` and `PageFails` are the error returns.
`Maintain` inserts, changes and deletes rows; `created_at` is never updated, and
ids are not used again, but a late commit may store an early `created_at`.

### How ServiceLifecycle corresponds to the code

| code | actions |
|---|---|
| start of `main`, readiness check, `os.Exit(1)` | `Start`, `StartFails` |
| `select` on signal and `serverErr`, `stop()` | `Signal`, `SeeStop` |
| `MarkNotServing`, `Shutdown` of the health manager | `Unmark`, `Unmarked`, `HealthShutdown` |
| `telemetryRuntime.Shutdown` | `TelemetryShutdown` |
| `GracefulStop` in its goroutine; timeout, `Stop`; return | `Drain`, `Drained`, `Exit`, `ForceStop` |
| `monitorReadiness` | `Tick`, `Check`, `MonitorMarks`, `MonitorMarked`, `Leave` |
| interceptors and handler | `Arrive`, `Refuse`, `Finish`, `Panic` |

`MarkServing` and `MarkNotServing` take the manager's lock shared, so main and
the monitor set names in turn, the whole server (`""`) first and the others in
the order of a Go map. `toMark` holds what each has still to set. Before `Serve`
nobody can ask, and the first marking is one step. A ping of the database is one
look at it; it fails at once when the context is done. When ticker and context
are both ready, `select` may take either. The `shutdown` package does the same
steps without telemetry; no main calls it yet.

Left out: the time between ticks, logging, correlation ids, health watchers.

## 3. Properties

| property | says |
|---|---|
| `LockOwnership` | a row lock is held exactly by the transaction past `lockBasketForUpdate`, and given back on every way out |
| `LockedReadIsCurrent` | what was read under the lock is still so at the commit: `ACTIVE`, the line found unchanged, the pair not found still missing |
| `StoredItemsConsistent` | one line per pair, one row per id, total = quantity * price, one currency |
| `AppliedAtMostOnce` | a request commits once at most, whatever is retried or fails |
| `AnswerTellsEffect` | OK: it took effect; a definite error: it did not; only Internal or no answer leaves it open |
| `ReadBackNotStale` | a write's answer is read after its own commit; items are never older than the row |
| `OwnEffectVisible` | unless overtaken, a caller sees its own command in its answer |
| `OnlyActiveBasketsChange` | no step changes the items of a basket that is not `ACTIVE` (BR-BAS-005 in `src/docs/requirements/business-rules.md`) |
| `ItemsMoveWithVersion` | items and `updated_at` change together |
| `WaitersAreServed` | whoever waits for a connection, a row lock or an id, some open transaction can go on |
| `StepsRunOut` | every step of a handler, retries included, uses up one of finitely many |
| `EveryCallAnswered` | every call that arrived is answered |
| `KeepsPromise` | the service implements `BasketSpec` |
| `ClearAnswersEmpty` | violated, see section 6 |
| `AcceptedWasSellable` | a price AddItem gets was that of the pair, sellable, at some moment of the call |
| `RefusalHadCause` | NotFound or FailedPrecondition: the pair could not be sold at some moment of the call, or was spelled differently |
| `SteadyCauseReported` | the client turns a reply about a pair that has not changed during the call into the code of the table in `src/docs/architecture/basket-product-validation.md`; only a failed query is excepted |
| `EveryLookupAnswered` | AddItem is answered, though the catalog hang |
| `MissingProductNamed` | violated, see section 6 |
| `ServesBaskets` | both services together are a behaviour of `BasketService`: the catalog it assumes is the one there is |
| `PricesWereQuoted` | the price of a stored line is one the catalog had for that very pair, sellable, during the call of an AddItem that took effect |
| `RefusedWasUnsold` | an AddItem refused because of its pair asked for one that could not be sold at some moment of its call, or spelled it differently |
| `SteadyProductShown` | of a product nobody changes, GetProduct shows exactly what the tables hold, and all of it if its values are sound and its category has at most 500 definitions |
| `StayedShown` | an image, a variant with its status, or a value that is there at every moment of the call is shown |
| `ShownWasThere` | every part of an answer was in the tables at some moment of the call |
| `RowEditsHarmless` | edits of variants, values and images, each leaving all values explained, never make a call fail |
| `OnlyVisibleShown` | violated, see section 6 |
| `NoRowTwice` | no row is on two pages |
| `StayedListed` | a row that matched all the time is on a page |
| `NothingSkipped` | at each page: what stayed is listed or still ahead of the cursor |
| `PagesMoveOn` | each page but the last gives a cursor strictly further down the order |
| `EveryListingEnds` | a client that goes on reading comes to the last page |
| `BadTokenRefused` | violated, see section 6 |
| `DrainsNotServing` | no name is SERVING from before draining begins, although the monitor may be in the middle of `MarkServing` |
| `StatusIsLastCheck` | between two checks every name shows the last one's result |
| `CutOnlyByForce` | only the forced stop ends a request before its answer |
| `StopEndsProcess` | once asked to stop, the process ends, though handlers hang |
| `OutageShown` | a lasting outage, or recovery, of the database reaches every status |
| `FinishedAreCounted` | violated, see section 6 |

`OK` for GetBasket says nothing of `applied`; an OK answer to a write does.

`AnswerTellsEffect` takes the codes from the code: whatever fails in the database is
Internal (the default of `grpcadapter/errors.go:40`), which leaves open whether a
command took effect. The documents disagree about it.
`docs/architecture/basket-product-validation.md:197` says Internal for a failed
statement; `docs/api/error-model.md:177` says UNAVAILABLE for a basket database
that is down (as `:163` for the catalogue's), and `:366` the same of MySQL in general.
The models follow the code. With the other mapping a commit whose acknowledgement is
lost would be answered with a code that otherwise means that nothing happened:
`GrpcCodeOutage` is that mapping, and `AnswerTellsEffect` fails with it.

`SteadyCauseReported` is about the step `Receive`: an Internal for a pair that the
table calls NotFound or FailedPrecondition breaks it, while a deadline, a broken call or
a failed query, which say nothing of the pair, are other steps or excepted. It asks
nothing when the pair changes during the call, and cannot: between the joined `SELECT` and the two that classify its miss, a
missing product may be stored with its variant, and AddItem is then told of a
mismatch that never was. `RefusalHadCause` is what remains true.

`RowEditsHarmless` leaves out a product that is moved to another category together with
its values. Between the first statement and the third that fails the call, although
the product could be shown before and after; no document promises otherwise.

## 4. Runs and bounds

The basket runs use `MCBasket`. Two amounts tell prices apart; two variants and two
baskets make commands meet or miss; `maxBasketQuantity` 3 puts the combined
quantity at its limit within two AddItems; `maxIDGenerationAttempts` 2 gives one
retry and one giving up; a pool of 2 connections can be exhausted.

| run | instance | checks |
|---|---|---|
| `basket_faults` | 2 requests, every command on an existing and a missing basket, bad arguments, a second currency, failing statements, lost acknowledgements, crashes, checkout (109 thousand states) | all invariants and step properties, `KeepsPromise` |
| `basket_progress` | 3 callers that add, update and remove in one basket, 2 connections, failing statements (302 thousand states) | `WaitersAreServed`, `StepsRunOut`, `EveryCallAnswered` |
| `basket_clear` | 2 writers on one basket | `ClearAnswersEmpty`, expected to fail |
| `catalog_lookup` | 1 lookup, 2 products, 1 variant, rows of every kind, 2 changes of the tables (309 thousand states) | the lookup's safety and `EveryLookupAnswered` |
| `catalog_missing` | the same without changes | expected to fail |
| `catalog_product` | 1 call, 23 states of the tables, a limit of 2 definitions, 2 changes (355 thousand states) | `SteadyProductShown`, `StayedShown`, `ShownWasThere`, `RowEditsHarmless` |
| `product_visible` | the same | `OnlyVisibleShown`, expected to fail |
| `shop` | 2 requests, 1 pair spelled in two ways, prices 1 and 2 and not for sale, 1 change of the tables, 1 connection (321 thousand states) | `ServesBaskets`, `PricesWereQuoted`, `RefusedWasUnsold`, `EveryCallAnswered` |
| `list_pages` | 1 client, 3 rows, pages of 1 and 2, every kind of list, 2 changes (39 thousand states) | the lists' safety, `PagesMoveOn` and `EveryListingEnds` |
| `list_token` | 1 row | `BadTokenRefused`, expected to fail |
| `lifecycle` | 3 names, 2 requests (30 thousand states) | the process's safety, `StopEndsProcess`, `OutageShown` |
| `lifecycle_telemetry` | the same | expected to fail |

One lookup and one listing are enough: lookups share nothing but the tables,
which they only read. Two changes put a different pair of tables before any two
of the lookup's statements. Two products let a variant move from one to the
other. Three rows and pages of one give two places between pages, one for each
change: one may remove the row the cursor names, the other store or change one
next to it; two of the rows may share their `created_at`. The process needs no
bound: its state is finite.

The 23 states of `catalog_product` are two full products, one active and one a draft, and
what becomes of them by one difference each: no product, a variant or value or
image less or more, a value that is not set, another status, another category, a
definition that is older or in the other category, a value of a variant that is not the
product's. Any two and any three of them may follow one another, in any order,
between any two of the five statements. Three definitions and a limit of 2 stand
for 501 and 500. In `shop` two requests and one pair are enough for a quote to be
overtaken by a newer one; the faults of `basket_faults` are left to that run.

Two requests are enough for a pair of handlers to overtake each other at every
step; the third in `basket_progress` commits while two others wait for the lock
or a connection. Requests are symmetric in the safety runs. The
progress run has no symmetry and no crashes: a crash answers nobody, and
liveness with it would say less.

Every run ends in states where all requests are answered. `Terminated` makes
that a legal stutter, so TLC's deadlock check stays on and would report a
handler stuck on a lock.

**Fairness.** `FairSpec` of `BasketService` asks weak fairness of each `Handler(r)`: the Go
scheduler runs a goroutine that can take a step, and MySQL answers. It does not
ask for `Accept` (nobody need call), faults, checkout or crashes. Weak fairness
is enough although locks and connections come and go, since a handler makes
finitely many steps and nobody new arrives once every request has been
answered. With an unbounded stream of callers the queue of InnoDB for a row
lock would matter; the model has no such stream.

In `CatalogValidation` only `DeadlinePasses` is fair: a timer of the client's
own process. `FairShopSpec` joins the two: handlers and the deadline are fair,
the catalog-service and its database are not. In `CatalogProduct` nothing is asked of
anyone: GetProduct has no deadline of its own. In `CatalogPagination` the
client's own calls are: a client that stops reading needs no end. Changes of the
tables are bounded in both. In `ServiceLifecycle` main and the monitor are fair,
with their timers; handlers, `GracefulStop` and the database are not.

## 5. Proofs

`BasketServiceProofs` proves `TypeCorrect`: `TypeOK` holds in every reachable
state, for every value of the constants the assumptions of `BasketTypes` and
`BasketService` allow. `TypeOK` alone is not inductive: that a stored quantity
is in range depends on the check of the combined quantity made one step before
the commit, that a total is a natural number on a quote being there. `Control`
records, for each request, what its own earlier steps have established, and
`TypeInv` (types and `Control`) is inductive.

`BasketSafetyProofs` goes on from there. Its invariant `SafeInv` adds to
`TypeInv`:

- `LockOwnership` and `LockedReadIsCurrent`. The second is what makes the write
  at the commit correct, and needs the first: while a transaction holds the lock
  of its row, no other commits to that basket. What is left are a checkout, which
  waits for the lock too, and a crash, which ends the transaction;
- `StoredItemsConsistent`, which at a commit follows from `LockedReadIsCurrent`:
  the pair not found is still missing, the line found is unchanged;
- `NewIdsFresh`: an id about to be stored is in no row, and no other open
  transaction is about to store it;
- `CurrenciesAgree`: the quote was compared with the currency of the basket under
  the lock, and a basket's currency never changes.

From it follow `LocksAreOwned`, `LockedReadsStay`, `ItemsStayConsistent` and the
step properties `OnlyActiveChange` and `ItemsAndVersionMove`.

Two theorems of `BasketSafetyProofs` are the safety half of `EveryCallAnswered`.
`WaitersServed`: row locks and connections are taken by requests that may hold one
while they wait for the other, and still some open transaction can take its next
statement. If the pool is empty somebody has a transaction; one that waits for a
lock waits for a holder, by `LockOwnership`; one that holds its lock waits at most
for an id, and who has drawn one (`DrawnLast`) waits for nothing more.
`NobodyRunsForever`: a retry goes four steps back and uses up an attempt, so no
handler runs for ever. That a handler which does not wait has a step, and that it
takes it, is what TLC adds.

`BasketAnswerProofs` extends `SafeInv` to `AnswerInv`, which says of each request
(`Committed`) that it has committed nothing before its commit, that what it has
committed is a version its basket has reached, and that the row it reads back is
no older. A failed commit needs no case of its own: a request goes back to
`BeginTx` only from `InsertCollides`, where nothing is committed. That an answer
shows the caller's own effect is carried from the commit to the read by one
fact: while the version stays what it was, so do the items (`RowMovesOn`). It
is `ItemsMoveWithVersion` seen by a request that waits.

The module then proves `PromiseKept`, `Spec => KeepsPromise`. A line of
the promise is a row without its total, and a request is applied from its commit
on. The steps of a handler before and after map to a stutter (`HiddenStep`), its
error returns and the last `SELECT` to `Answer`, and a commit to the one action
of its command (`CommitStep`), whose guards are `LockedReadIsCurrent`,
`NewIdsFresh` and `CurrenciesAgree`.

`ShopProofs` is about the composition. `CallInv` says what the steps of one catalog
call have established, in the variables of the composition: a reply or an outcome
that holds a price, or refuses the pair, rests on something that was true in `held`.
With it every step of the two services is a step of `BasketService` or a stutter:
`TakeQuote` takes a price that some variant had, and such prices are `Amounts`;
`GiveUp` answers with one of `CatalogErrors` (`StepServes`). So `BasketsServed`,
`ShopSpec => ServesBaskets`, carries everything proved of `BasketService` over, with
`ShopKeepsPromise` as one example. `ShopInv` then joins `CallInv` and `AnswerInv`:
what AddItem does with the client's answer rests on it (`AnswerUsed`), and once a
request has taken effect what it was quoted stays on record, as a line keeps the
price it had, or takes that of the request that commits (`WrittenPrices`).
`PricesQuoted` and `RefusalsGrounded` follow. The prover does not take theorems
through `INSTANCE`, so what `CatalogProofs` shows of a lookup cannot be cited for
`Catalog`; `CallInv` is the part of it that is needed, proved of the composed
steps.

`CatalogProofs` proves `CatalogSafety`: `CatalogInv` is invariant. `Learned` is
its core: what each statement, once run, has established about the pair. The
truth of this moment is always in `held`; past `JoinMisses` some moment was one
at which the pair could not be sold; if there has been only one truth, then in
`"product"` it is one of three, in `"variant"` one of two; and a reply on its way
is justified by what was learned. `CatalogTypes`, `AcceptedPrices` and
`NoGroundlessRefusal` follow; so does the step property `SteadyPairsReported`, by going
through what the client makes of each reply (`ReceiveReports`).

`LifecycleProofs` proves `LifecycleSafety`: `LifecycleInv` is invariant.
`DrainsNotServing` needs that the health server has been shut down before main
goes on (`HealthShutInOrder`): then the monitor's late marks change nothing, and
no lock of the manager is needed for that. `StatusIsLastCheck` needs to be true
in the middle of a marking, of the names already set (`MarkedAreCurrent`), and
`CutOnlyByForce` that nothing runs once `GracefulStop` has returned
(`StoppedIsIdle`).

`ProductProofs` shows first that `ProductInv` is invariant. It says that
each part a call has read was so in some state of `past` (`PartsWereThere`), and
of an answer that it is what five of those states, one for each statement, put
together (`Justified`). The four properties then no longer speak of steps: they
follow from what `View` and `ValueError` make of five states of which nothing is
known but that they are in `past`. If `past` has one element the five are the
same, which gives `SteadyProductAlways`; if it has many, each part still comes
from one of them.

`PaginationProofs` proves `ListSafety`: `ListInv` is invariant. `NoRowTwice` is
not inductive: a page lists what is behind the cursor, so everything listed
earlier must lie before it, or be gone (`ShownAreBefore`). That outlasts a change
between two pages because `created_at` is never updated and an id is not used
again. For `StayedListed` the invariant is `NothingSkipped`. Both rest on what
`ORDER BY ... LIMIT n` returns for any finite set of rows: the rows it leaves
come after those it takes (`TopClosed`), it takes some (`TopNonEmpty`), and all
of them if there are no more than `n` (`TopAll`). First and last rows exist since
strict inclusion of finite sets is well-founded. The last row of a page is behind the
cursor the page was asked for, which gives `TokensMoveOn`: the client's cursors
descend, in pairs of numbers, however often the table changes, while the runs bound
the changes.

The proofs use the named assumptions of the modules and nothing else: basket and
product ids are sets of anything, ids of lists and times are numbers, of which the
table has finitely many; limits are numbers, `None` is not a row.

Left to TLC: `EveryCallAnswered`, `EveryLookupAnswered`, `EveryListingEnds`,
`StopEndsProcess` and `OutageShown`, since liveness under fairness is out of the
prover's reach. Every safety invariant and action property of a passing run is a
theorem.

## 6. Findings

**ClearBasket may answer with items.** It commits, which releases the row lock,
and then reads the basket back with two autocommitted statements
(`repository.go:416`). An AddItem that commits in between is in the answer. The
proto file promises "the updated empty basket" (`basket_service.proto:212`), the
service's comment "the active empty basket" (`service.go:423`). Run
`basket_clear` shows the trace. What does hold is `OwnEffectVisible`: unless
another commit got in between, the answer is empty.

**A missing product is called a missing variant.** `mapCatalogValidationError`
(`client.go:178`) returns `ErrVariantNotFound` if the message holds the word
"variant". The catalog-service's message always does: `service.go:245` wraps
every error in "validate product variant product ... variant ...". The client's
test (`client_test.go:118`) uses the message "product not found", which the
catalog-service never sends. Both errors become NotFound, so only the text the
caller sees is wrong. Run `catalog_missing`.

**A bad page token is Internal.** The three list methods wrap the decoder's
error in the words of `ErrInvalidPageToken` but not in the error itself
(`service.go:92`), so the case for it in `grpcadapter/errors.go:17` is never
taken. Run `list_token`.

**The last requests are not counted.** Both mains shut telemetry down before
they call `GracefulStop` (basket `main.go:178`, catalog `main.go:157`); requests
that finish in between are recorded by a meter that exports no more.
`docs/deployment/graceful-shutdown.md:51-54` lists the flush after the drain.
Run `lifecycle_telemetry`.

**GetProduct shows drafts.** `getProductRow` (`repository.go:597` of the
catalog-service) selects a product by its id, whatever its status, and nobody
looks at the status later. The proto file calls the answer "a single
customer-visible product" (`catalog_service.proto:22`) and says of DRAFT that it
"is not customer-visible" (`product.proto:14`). Run `product_visible`.

## 7. Plan

Built so far: the basket-service, with the proof that it implements its abstract
specification; the catalog lookup, the lists and the product pages with their
proofs; basket-service and catalog-service together, with the proof that the two are
a basket-service; the service process with its proofs. What is left, in this order:

1. `BasketIds` (encoding, checksum) and `MoneyArithmetic` (width of a line total and
   of the subtotal) as pure operators, with the bound below which no total wraps as
   a theorem.
2. `GapLocks`: the deadlock of two AddItems of one new pair in InnoDB, whose victim is
   a failing statement so far.

Not planned: configuration, field-by-field mapping to protobuf, generated code,
telemetry exporters, authentication interceptors that no server uses, and the
services that exist as documents only. `PROJECT.json` lists each with its reason.
