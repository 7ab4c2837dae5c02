--------------------------- MODULE CatalogProduct ---------------------------
(***************************************************************************)
(* GetProduct of the catalog-service.  The repository reads the product,   *)
(* its variants, its attribute values and its images with four SELECTs of  *)
(* their own, the service then the attribute definitions of the category   *)
(* the first one found; no transaction holds them together, and other      *)
(* programs change the tables in between.  The service sorts the values to *)
(* the product and its variants and explains each by its definition; the   *)
(* handler converts the whole, or answers an error if one value cannot be. *)
(* The tables are modelled as far as they concern the one product that is  *)
(* asked for; names, prices and the order of rows are left out.            *)
(***************************************************************************)
EXTENDS Integers, FiniteSets, CatalogTypes

CONSTANTS
  Calls,            \* calls of GetProduct
  Categories,       \* category ids
  Variants,         \* variant ids
  Attributes,       \* attribute ids, as ordered by the database
  Images,           \* image ids
  Catalogs,         \* what other programs may make of the tables
  definitionLimit,  \* definitions GetProduct asks for, 500 in the code
  MaxEdits,         \* bound: how often they change the tables
  None              \* no row, no id, no answer yet

\* A row of product_attribute_values.  variant: the variant it is about, or None
\* for the product as a whole.  filled: one of its value columns holds a value (a
\* string that is not empty, a number, a boolean, a JSON text).
Value == [attribute : Attributes, variant : Variants \cup {None}, filled : BOOLEAN]

Definition == [category : Categories, created : Nat]

(***************************************************************************)
(* The five tables.  variants: the variants of the product, by their       *)
(* status; a value may be about a variant that is not among them, for the  *)
(* schema lets it be another product's.                                    *)
(***************************************************************************)
Catalog == [category : Categories \cup {None}, status : LifecycleStatus,
            variants : [Variants -> LifecycleStatus \cup {None}],
            values : SUBSET Value, images : SUBSET Images,
            definitions : [Attributes -> Definition \cup {None}]]

\* There is a row of the product.
Exists(c) == c.category # None

\* The schema's foreign keys.
ForeignKeys(c) ==
  /\ ~Exists(c) => /\ c.variants = [v \in Variants |-> None]
                   /\ c.values = {} /\ c.images = {}
  /\ \A x \in c.values : c.definitions[x.attribute] # None

ASSUME CatalogsAssumption ==
  Catalogs \subseteq Catalog /\ \A c \in Catalogs : ForeignKeys(c)

ASSUME AttributesAssumption == Attributes \subseteq Nat /\ IsFiniteSet(Attributes)

ASSUME BoundsAssumption == definitionLimit \in Nat /\ MaxEdits \in Nat

ASSUME NoneAssumption ==
  None \notin Categories \cup Variants \cup LifecycleStatus \cup Definition

VARIABLES
  catalog,   \* the committed tables
  edits,     \* how often other programs have changed them
  pc,        \* call -> its next statement
  got,       \* call -> what its statements have read
  answer,    \* call -> its answer, or None
  past       \* history: call -> the tables at each moment since it began

vars == <<catalog, edits, pc, got, answer, past>>

(***************************************************************************)
(* hydrateProduct and productDetailsToProto.                               *)
(***************************************************************************)
Listed(variants) == {v \in Variants : variants[v] # None}

\* A value about a variant that was not read is passed over.
ShownValues(variants, values) ==
  {x \in values : x.variant = None \/ x.variant \in Listed(variants)}

\* Wrong on purpose: the values are not sorted to their variants.
AttributesOfAny(values, v) == {x.attribute : x \in values}

AttributesOf(values, v) == {x.attribute : x \in {y \in values : y.variant = v}}

View(category, status, variants, values, images) ==
  [category |-> category, status |-> status,
   attributes |-> AttributesOf(values, None),
   variants |-> {[id |-> v, status |-> variants[v], attributes |-> AttributesOf(values, v)] :
                   v \in Listed(variants)},
   images |-> images]

\* ORDER BY created_at DESC, attribute_id DESC: a's definition comes before b's.
Newer(definitions, a, b) ==
  \/ definitions[a].created > definitions[b].created
  \/ definitions[a].created = definitions[b].created /\ a > b

DefinedFor(definitions, category) ==
  {a \in Attributes : definitions[a] # None /\ definitions[a].category = category}

\* Wrong on purpose: the limit is one short.
KnownOneShort(definitions, category) ==
  LET here == DefinedFor(definitions, category) IN
  {a \in here : Cardinality({b \in here : Newer(definitions, b, a)}) < definitionLimit - 1}

\* The attributes GetProduct finds the definition of, whatever its status.
Known(definitions, category) ==
  LET here == DefinedFor(definitions, category) IN
  {a \in here : Cardinality({b \in here : Newer(definitions, b, a)}) < definitionLimit}

\* The first error of the service, or else of the mapper.
ValueError(shown, known) ==
  CASE \E x \in shown : x.attribute \notin known -> "missing attribute definition"
    [] (\A x \in shown : x.attribute \in known) /\ (\E x \in shown : ~x.filled) ->
         "no value set"
    [] OTHER -> "nil"

(***************************************************************************)
(* The call.                                                               *)
(***************************************************************************)
NothingRead == [category |-> None, status |-> None, variants |-> [v \in Variants |-> None],
                values |-> {}, images |-> {}]

Open(g) == pc[g] \notin {"idle", "done"}

Init ==
  /\ catalog \in Catalogs
  /\ edits = 0
  /\ pc = [g \in Calls |-> "idle"]
  /\ got = [g \in Calls |-> NothingRead]
  /\ answer = [g \in Calls |-> None]
  /\ past = [g \in Calls |-> {}]

\* A transaction of another program.
Maintain ==
  /\ edits < MaxEdits
  /\ \E g \in Calls : Open(g)
  /\ catalog' \in Catalogs
  /\ edits' = edits + 1
  /\ past' = [g \in Calls |-> IF Open(g) THEN past[g] \cup {catalog'} ELSE past[g]]
  /\ UNCHANGED <<pc, got, answer>>

Goto(g, step) == pc' = [pc EXCEPT ![g] = step]

Answer(g, err, shown) ==
  /\ Goto(g, "done")
  /\ answer' = [answer EXCEPT ![g] = [err |-> err, shown |-> shown]]
  /\ UNCHANGED <<catalog, edits, got, past>>

Refuse(g, err) == Answer(g, err, None)

Call(g) ==
  /\ pc[g] = "idle"
  /\ Goto(g, "product")
  /\ past' = [past EXCEPT ![g] = {catalog}]
  /\ UNCHANGED <<catalog, edits, got, answer>>

\* A blank id is refused before anything is read.
CallWithoutId(g) ==
  /\ pc[g] = "idle"
  /\ Refuse(g, "ErrInvalidProductID")

\* Wrong on purpose: a query that finds no row is not told from one that does.
ReadProductUnchecked(g) ==
  /\ pc[g] = "product"
  /\ Goto(g, "variants")
  /\ got' = [got EXCEPT ![g].category = catalog.category, ![g].status = catalog.status]
  /\ UNCHANGED <<catalog, edits, answer, past>>

ReadProduct(g) ==
  /\ pc[g] = "product"
  /\ \/ ~Exists(catalog) /\ Refuse(g, "ErrProductNotFound")
     \/ /\ Exists(catalog)
        /\ Goto(g, "variants")
        /\ got' = [got EXCEPT ![g].category = catalog.category,
                              ![g].status = catalog.status]
        /\ UNCHANGED <<catalog, edits, answer, past>>

\* Wrong on purpose: variants are read like the rows of a list, active ones only.
ReadVariantsActive(g) ==
  /\ pc[g] = "variants"
  /\ Goto(g, "values")
  /\ got' = [got EXCEPT ![g].variants =
       [v \in Variants |-> IF catalog.variants[v] = "active" THEN "active" ELSE None]]
  /\ UNCHANGED <<catalog, edits, answer, past>>

ReadVariants(g) ==
  /\ pc[g] = "variants"
  /\ Goto(g, "values")
  /\ got' = [got EXCEPT ![g].variants = catalog.variants]
  /\ UNCHANGED <<catalog, edits, answer, past>>

ReadValues(g) ==
  /\ pc[g] = "values"
  /\ Goto(g, "images")
  /\ got' = [got EXCEPT ![g].values = catalog.values]
  /\ UNCHANGED <<catalog, edits, answer, past>>

ReadImages(g) ==
  /\ pc[g] = "images"
  /\ Goto(g, "definitions")
  /\ got' = [got EXCEPT ![g].images = catalog.images]
  /\ UNCHANGED <<catalog, edits, answer, past>>

\* Wrong on purpose: a value about a variant that was not read is an error.
ReadDefinitionsStrict(g) ==
  /\ pc[g] = "definitions"
  /\ LET read == got[g]
         shown == ShownValues(read.variants, read.values)
         err == ValueError(shown, Known(catalog.definitions, read.category))
     IN  \/ /\ err # "nil" \/ shown # read.values
            /\ Refuse(g, "missing attribute definition")
         \/ /\ err = "nil" /\ shown = read.values
            /\ Answer(g, "nil", View(read.category, read.status, read.variants,
                                     read.values, read.images))

\* The last statement; hydration, conversion and the answer follow it.
ReadDefinitions(g) ==
  /\ pc[g] = "definitions"
  /\ LET read == got[g]
         err == ValueError(ShownValues(read.variants, read.values),
                           Known(catalog.definitions, read.category))
     IN  \/ err # "nil" /\ Refuse(g, err)
         \/ /\ err = "nil"
            /\ Answer(g, "nil", View(read.category, read.status, read.variants,
                                     read.values, read.images))

\* A statement fails, or the caller has gone.
StatementFails(g) ==
  /\ Open(g)
  /\ Refuse(g, "query failed")

GetProduct(g) ==
  \/ Call(g) \/ CallWithoutId(g) \/ StatementFails(g)
  \/ ReadProduct(g) \/ ReadVariants(g) \/ ReadValues(g) \/ ReadImages(g)
  \/ ReadDefinitions(g)

Terminated == (\A g \in Calls : pc[g] = "done") /\ UNCHANGED vars

Next == (\E g \in Calls : GetProduct(g)) \/ Maintain \/ Terminated

Spec == Init /\ [][Next]_vars
=============================================================================
