-------------------------- MODULE ProductProperties --------------------------
(***************************************************************************)
(* What a caller of GetProduct may rely on, although the product it is     *)
(* shown was put together from five tables at five different moments.      *)
(***************************************************************************)
EXTENDS CatalogProduct

Reading == [category : Categories \cup {None}, status : LifecycleStatus \cup {None},
            variants : [Variants -> LifecycleStatus \cup {None}],
            values : SUBSET Value, images : SUBSET Images]

VariantView == [id : Variants, status : LifecycleStatus, attributes : SUBSET Attributes]

ProductView == [category : Categories, status : LifecycleStatus,
                attributes : SUBSET Attributes, variants : SUBSET VariantView,
                images : SUBSET Images]

ProductErrors == {"ErrInvalidProductID", "ErrProductNotFound", "query failed",
                  "missing attribute definition", "no value set"}

Answers == [err : {"nil"}, shown : ProductView] \cup [err : ProductErrors, shown : {None}]

ASSUME NoAnswerAssumption == None \notin Answers

Steps == {"idle", "product", "variants", "values", "images", "definitions", "done"}

\* The types of the variables: in particular, a product is shown only whole, with
\* the category and status of a row that was there.
ProductTypeOK ==
  /\ catalog \in Catalogs
  /\ edits \in 0 .. MaxEdits
  /\ pc \in [Calls -> Steps]
  /\ got \in [Calls -> Reading]
  /\ answer \in [Calls -> Answers \cup {None}]
  /\ past \in [Calls -> SUBSET Catalogs]

Answered(g) == answer[g] # None

Code(g) == CatalogCode(answer[g].err)

ShownTo(g) == Answered(g) /\ answer[g].err = "nil"

(***************************************************************************)
(* One state of the tables.                                                *)
(***************************************************************************)
\* The values that are about the product or a variant it has.
OwnValues(c) == {x \in c.values : x.variant # None => c.variants[x.variant] # None}

\* Every value is set, and its attribute one of the product's category.
Sound(c) == \A x \in OwnValues(c) :
  x.filled /\ c.definitions[x.attribute].category = c.category

\* The category has no more definitions than GetProduct asks for.
Small(c) == Cardinality(DefinedFor(c.definitions, c.category)) <= definitionLimit

WholeView(c) == View(c.category, c.status, c.variants, c.values, c.images)

(***************************************************************************)
(* The properties.                                                         *)
(***************************************************************************)
\* Of a product that nobody changes during the call the answer is exactly what the
\* tables hold: NotFound if there is no such product; the whole product if its
\* values are sound and its category small; an error, and never a part of the
\* product, if a value is not sound.
SteadyProductShown ==
  \A g \in Calls : Answered(g) /\ answer[g].err # "query failed" =>
    \A c \in past[g] : past[g] = {c} =>
      /\ ~Exists(c) => Code(g) = "NotFound"
      /\ Exists(c) /\ Sound(c) /\ Small(c) => answer[g].shown = WholeView(c)
      /\ Exists(c) /\ ~Sound(c) => Code(g) = "Internal"
      /\ ShownTo(g) => answer[g].shown = WholeView(c)

\* The variant of the answer with this id shows the attribute; without a variant,
\* the product itself does.
Shows(view, a, v) ==
  IF v = None THEN a \in view.attributes
              ELSE \E x \in view.variants : x.id = v /\ a \in x.attributes

Holds(c, a, v) == \E x \in c.values : x.attribute = a /\ x.variant = v

\* What was there all the time is not lost by being read at different moments: an
\* image, a variant with its status, a value of the product or of such a variant.
StayedShown ==
  \A g \in Calls : ShownTo(g) =>
    LET view == answer[g].shown IN
    /\ \A i \in Images : (\A c \in past[g] : i \in c.images) => i \in view.images
    /\ \A v \in Variants : \A s \in LifecycleStatus :
         (\A c \in past[g] : c.variants[v] = s) =>
           \E x \in view.variants : x.id = v /\ x.status = s
    /\ \A a \in Attributes, v \in Variants \cup {None} :
         (\A c \in past[g] : /\ v # None => c.variants[v] # None
                             /\ Holds(c, a, v)) => Shows(view, a, v)

\* Nothing is shown that never was: at some moment of the call the product had this
\* category and status, this variant this status, the product or this very variant
\* this value, and the product this image.
ShownWasThere ==
  \A g \in Calls : ShownTo(g) =>
    LET view == answer[g].shown IN
    /\ \E c \in past[g] : c.category = view.category /\ c.status = view.status
    /\ \A x \in view.variants : \E c \in past[g] : c.variants[x.id] = x.status
    /\ \A a \in Attributes, v \in Variants \cup {None} :
         Shows(view, a, v) => \E c \in past[g] : Holds(c, a, v)
    /\ view.images \subseteq UNION {c.images : c \in past[g]}

\* All values of the tables, also those of variants that are not the product's,
\* are set and explained.
Explained(c) == \A x \in c.values :
  x.filled /\ x.attribute \in Known(c.definitions, c.category)

\* The product was there all the time, with its category, its definitions, and
\* values that can be shown.
OnlyRowsEdited(g) ==
  \A c, d \in past[g] : /\ Exists(c) /\ Explained(c)
                        /\ c.category = d.category /\ c.definitions = d.definitions

\* Edits of variants, values and images alone never make a call fail: a value whose
\* variant was added after the variants were read is passed over.
RowEditsHarmless ==
  \A g \in Calls : Answered(g) /\ OnlyRowsEdited(g) =>
    answer[g].err \in {"nil", "query failed", "ErrInvalidProductID"}

\* "GetProduct returns a single customer-visible product by ID."
OnlyVisibleShown ==
  \A g \in Calls : ShownTo(g) => answer[g].shown.status = "active"

(***************************************************************************)
(* The inductive invariant of the proofs.                                  *)
(***************************************************************************)
\* An answer as the five statements put it together, each having found one of the
\* past states of the tables.
Assembled(c1, c2, c3, c4, c5) ==
  LET err == ValueError(ShownValues(c2.variants, c3.values),
                        Known(c5.definitions, c1.category))
  IN [err |-> err,
      shown |-> IF err = "nil"
                  THEN View(c1.category, c1.status, c2.variants, c3.values, c4.images)
                  ELSE None]

JustifiedBy(a, states) ==
  \/ a = [err |-> "query failed", shown |-> None]
  \/ a = [err |-> "ErrInvalidProductID", shown |-> None] /\ states = {}
  \/ /\ a = [err |-> "ErrProductNotFound", shown |-> None]
     /\ \E c \in states : ~Exists(c)
  \/ \E c1, c2, c3, c4, c5 \in states :
       Exists(c1) /\ a = Assembled(c1, c2, c3, c4, c5)

Justified(g) == JustifiedBy(answer[g], past[g])

\* Each part a call has read was so in one of the past states.
PartsWereThere(g) ==
  /\ pc[g] \in {"variants", "values", "images", "definitions"} =>
       \E c \in past[g] : /\ Exists(c)
                          /\ got[g].category = c.category /\ got[g].status = c.status
  /\ pc[g] \in {"values", "images", "definitions"} =>
       \E c \in past[g] : got[g].variants = c.variants
  /\ pc[g] \in {"images", "definitions"} =>
       \E c \in past[g] : got[g].values = c.values
  /\ pc[g] = "definitions" => \E c \in past[g] : got[g].images = c.images

ProductInv ==
  /\ ProductTypeOK
  /\ \A g \in Calls :
       /\ Open(g) => catalog \in past[g]
       /\ pc[g] = "idle" => past[g] = {}
       /\ Answered(g) <=> pc[g] = "done"
       /\ PartsWereThere(g)
       /\ Answered(g) => Justified(g)
=============================================================================
