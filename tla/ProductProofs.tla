---------------------------- MODULE ProductProofs ----------------------------
(***************************************************************************)
(* The properties of GetProduct, proved for every set of calls, rows and   *)
(* definitions and for any number of edits.  The inductive invariant says  *)
(* that each part a call has read is that part of some past state of the   *)
(* tables, and hence that an answer is put together from five of them; the *)
(* properties then follow from what hydrateProduct makes of five states.   *)
(***************************************************************************)
EXTENDS ProductProperties, FiniteSetTheorems, TLAPS

(***************************************************************************)
(* Types.                                                                  *)
(***************************************************************************)
LEMMA CatalogTyped ==
  ASSUME NEW c \in Catalogs
  PROVE  /\ c \in Catalog
         /\ ForeignKeys(c)
         /\ c.category \in Categories \cup {None}
         /\ c.status \in LifecycleStatus
         /\ c.variants \in [Variants -> LifecycleStatus \cup {None}]
         /\ c.values \in SUBSET Value
         /\ c.images \in SUBSET Images
         /\ c.definitions \in [Attributes -> Definition \cup {None}]
  <1>1. c \in Catalog /\ ForeignKeys(c)
    BY CatalogsAssumption
  <1>2. QED
    BY <1>1 DEF Catalog

LEMMA ViewTyped ==
  ASSUME NEW k \in Categories, NEW s \in LifecycleStatus,
         NEW variants \in [Variants -> LifecycleStatus \cup {None}],
         NEW values \in SUBSET Value, NEW images \in SUBSET Images
  PROVE  View(k, s, variants, values, images) \in ProductView
  <1>1. \A v : AttributesOf(values, v) \in SUBSET Attributes
    BY DEF AttributesOf, Value
  <1>2. \A v \in Listed(variants) : v \in Variants /\ variants[v] \in LifecycleStatus
    BY DEF Listed
  <1>3. \A v \in Listed(variants) :
          [id |-> v, status |-> variants[v], attributes |-> AttributesOf(values, v)]
            \in VariantView
    BY <1>1, <1>2 DEF VariantView
  <1>4. {[id |-> v, status |-> variants[v], attributes |-> AttributesOf(values, v)] :
           v \in Listed(variants)} \in SUBSET VariantView
    BY <1>3
  <1>5. QED
    BY <1>1, <1>4 DEF View, ProductView

LEMMA ValueErrorTyped ==
  ASSUME NEW shown \in SUBSET Value, NEW known
  PROVE  /\ ValueError(shown, known)
              \in {"nil", "missing attribute definition", "no value set"}
         /\ ValueError(shown, known) = "nil" <=>
              \A x \in shown : x.attribute \in known /\ x.filled
  <1> DEFINE unknown == \E x \in shown : x.attribute \notin known
             unset == \E x \in shown : ~x.filled
  <1>1. (\A x \in shown : x.attribute \in known) <=> ~unknown
    OBVIOUS
  <1>2. ValueError(shown, known) =
          CASE unknown -> "missing attribute definition"
            [] ~unknown /\ unset -> "no value set"
            [] OTHER -> "nil"
    BY <1>1 DEF ValueError
  <1>3. (\A x \in shown : x.attribute \in known /\ x.filled) <=> ~unknown /\ ~unset
    OBVIOUS
  <1>4. CASE unknown
    <2>1. ValueError(shown, known) = "missing attribute definition"
      BY <1>2, <1>4
    <2>2. QED
      BY <2>1, <1>3, <1>4
  <1>5. CASE ~unknown /\ unset
    <2>1. ValueError(shown, known) = "no value set"
      BY <1>2, <1>5
    <2>2. QED
      BY <2>1, <1>3, <1>5
  <1>6. CASE ~unknown /\ ~unset
    <2>1. ValueError(shown, known) = "nil"
      BY <1>2, <1>6
    <2>2. QED
      BY <2>1, <1>3, <1>6
  <1>7. QED
    BY <1>4, <1>5, <1>6

\* Five states of the tables put together are an answer.
LEMMA AssembledTyped ==
  ASSUME NEW c1 \in Catalogs, NEW c2 \in Catalogs, NEW c3 \in Catalogs,
         NEW c4 \in Catalogs, NEW c5 \in Catalogs, Exists(c1)
  PROVE  Assembled(c1, c2, c3, c4, c5) \in Answers
  <1> DEFINE shown == ShownValues(c2.variants, c3.values)
             known == Known(c5.definitions, c1.category)
             view == View(c1.category, c1.status, c2.variants, c3.values, c4.images)
             err == ValueError(shown, known)
  <1>1. shown \in SUBSET Value
    BY CatalogTyped DEF ShownValues
  <1>2. err \in {"nil", "missing attribute definition", "no value set"}
    <2> HIDE DEF shown, known
    <2> QED BY <1>1, ValueErrorTyped
  <1>3. view \in ProductView
    <2>1. c1.category \in Categories
      BY CatalogTyped DEF Exists
    <2>2. QED
      BY <2>1, CatalogTyped, ViewTyped
  <1>4. Assembled(c1, c2, c3, c4, c5) =
          [err |-> err, shown |-> IF err = "nil" THEN view ELSE None]
    BY DEF Assembled
  <1> HIDE DEF err, view
  <1>5. CASE err = "nil"
    <2>1. Assembled(c1, c2, c3, c4, c5) = [err |-> "nil", shown |-> view]
      BY <1>4, <1>5
    <2>2. QED
      BY <2>1, <1>3 DEF Answers
  <1>6. CASE err # "nil"
    <2>1. Assembled(c1, c2, c3, c4, c5) = [err |-> err, shown |-> None]
      BY <1>4, <1>6
    <2>2. err \in ProductErrors
      BY <1>2, <1>6 DEF ProductErrors
    <2>3. QED
      BY <2>1, <2>2 DEF Answers
  <1>7. QED
    BY <1>5, <1>6

(***************************************************************************)
(* The inductive invariant.                                                *)
(***************************************************************************)
LEMMA InitInv == Init => ProductInv
  <1> SUFFICES ASSUME Init PROVE ProductInv
    OBVIOUS
  <1> USE DEF Init
  <1>1. got \in [Calls -> Reading]
    BY DEF NothingRead, Reading
  <1>2. ProductTypeOK
    BY <1>1, BoundsAssumption DEF ProductTypeOK, Steps
  <1>3. ASSUME NEW g \in Calls
        PROVE  /\ ~Open(g) /\ answer[g] = None /\ pc[g] = "idle" /\ past[g] = {}
               /\ PartsWereThere(g)
    BY <1>3 DEF Open, PartsWereThere
  <1>4. QED
    BY <1>2, <1>3 DEF ProductInv, Answered

\* A step that leaves the tables alone keeps the types of what it leaves alone.
LEMMA AnswerStep ==
  ASSUME ProductInv, NEW g \in Calls, NEW err, NEW shown, pc[g] # "done",
         Answer(g, err, shown), [err |-> err, shown |-> shown] \in Answers,
         Justified(g)'
  PROVE  ProductInv'
  <1> USE DEF ProductInv
  <1>1. /\ pc' = [pc EXCEPT ![g] = "done"]
        /\ answer' = [answer EXCEPT ![g] = [err |-> err, shown |-> shown]]
        /\ UNCHANGED <<catalog, edits, got, past>>
    BY DEF Answer, Goto
  <1>2. ProductTypeOK'
    BY <1>1 DEF ProductTypeOK, Steps
  <1>3. [err |-> err, shown |-> shown] # None
    BY NoAnswerAssumption
  <1>4. ASSUME NEW h \in Calls
        PROVE  /\ Open(h)' => catalog' \in past'[h]
               /\ pc'[h] = "idle" => past'[h] = {}
               /\ Answered(h)' <=> pc'[h] = "done"
               /\ PartsWereThere(h)'
               /\ Answered(h)' => Justified(h)'
    <2>1. CASE h = g
      BY <2>1, <1>1, <1>3 DEF Open, Answered, PartsWereThere, ProductTypeOK
    <2>2. CASE h # g
      <3>1. /\ pc'[h] = pc[h] /\ answer'[h] = answer[h]
            /\ got'[h] = got[h] /\ past'[h] = past[h] /\ catalog' = catalog
        BY <2>2, <1>1 DEF ProductTypeOK
      <3>2. Justified(h) => Justified(h)'
        BY <3>1 DEF Justified
      <3>3. PartsWereThere(h)'
        BY <3>1 DEF PartsWereThere
      <3>4. QED
        BY <3>1, <3>2, <3>3 DEF Open, Answered
    <2>3. QED
      BY <2>1, <2>2
  <1>5. QED
    BY <1>2, <1>4
\* A step by which call g reads one more part.
LEMMA ReadStep ==
  ASSUME ProductInv, NEW g \in Calls, NEW step \in Steps \ {"idle", "done"},
         Open(g), pc' = [pc EXCEPT ![g] = step],
         got' \in [Calls -> Reading], \A h \in Calls : h # g => got'[h] = got[h],
         UNCHANGED <<catalog, edits, answer, past>>,
         PartsWereThere(g)'
  PROVE  ProductInv'
  <1> USE DEF ProductInv
  <1>1. ProductTypeOK'
    BY DEF ProductTypeOK, Steps
  <1>2. ASSUME NEW h \in Calls
        PROVE  /\ Open(h)' => catalog' \in past'[h]
               /\ pc'[h] = "idle" => past'[h] = {}
               /\ Answered(h)' <=> pc'[h] = "done"
               /\ PartsWereThere(h)'
               /\ Answered(h)' => Justified(h)'
    <2>1. CASE h = g
      <3>1. pc[g] # "done" /\ answer'[g] = answer[g] /\ past'[g] = past[g]
        BY DEF Open
      <3>2. pc'[g] = step
        BY DEF ProductTypeOK
      <3>3. QED
        BY <2>1, <3>1, <3>2 DEF Open, Answered
    <2>2. CASE h # g
      <3>1. /\ pc'[h] = pc[h] /\ answer'[h] = answer[h]
            /\ got'[h] = got[h] /\ past'[h] = past[h] /\ catalog' = catalog
        BY <2>2 DEF ProductTypeOK
      <3>2. Justified(h) => Justified(h)'
        BY <3>1 DEF Justified
      <3>3. PartsWereThere(h)'
        BY <3>1 DEF PartsWereThere
      <3>4. QED
        BY <3>1, <3>2, <3>3 DEF Open, Answered
    <2>3. QED
      BY <2>1, <2>2
  <1>3. QED
    BY <1>1, <1>2

\* The tables change: the history of every call grows by the new state.
LEMMA MaintainStep ==
  ASSUME ProductInv, Maintain
  PROVE  ProductInv'
  <1> USE DEF ProductInv
  <1>1. /\ edits < MaxEdits /\ catalog' \in Catalogs /\ edits' = edits + 1
        /\ past' = [g \in Calls |-> IF Open(g) THEN past[g] \cup {catalog'} ELSE past[g]]
        /\ UNCHANGED <<pc, got, answer>>
    BY DEF Maintain
  <1>2. ProductTypeOK'
    <2>1. edits' \in 0 .. MaxEdits
      BY <1>1, BoundsAssumption DEF ProductTypeOK
    <2>2. past' \in [Calls -> SUBSET Catalogs]
      BY <1>1 DEF ProductTypeOK
    <2>3. QED
      BY <1>1, <2>1, <2>2 DEF ProductTypeOK
  <1>3. ASSUME NEW h \in Calls
        PROVE  /\ Open(h)' => catalog' \in past'[h]
               /\ pc'[h] = "idle" => past'[h] = {}
               /\ Answered(h)' <=> pc'[h] = "done"
               /\ PartsWereThere(h)'
               /\ Answered(h)' => Justified(h)'
    <2>1. /\ past[h] \subseteq past'[h]
          /\ Open(h) => catalog' \in past'[h]
      BY <1>1
    <2>2. PartsWereThere(h)'
      BY <1>1, <2>1 DEF PartsWereThere
    <2>3. Answered(h) => past'[h] = past[h]
      BY <1>1 DEF Open
    <2>4. Answered(h) => (Justified(h) <=> Justified(h)')
      BY <1>1, <2>3 DEF Justified
    <2>5. QED
      BY <1>1, <2>1, <2>2, <2>4 DEF Open, Answered
  <1>4. QED
    BY <1>2, <1>3

\* Every call that is open has seen the present tables.
LEMMA Present ==
  ASSUME ProductInv, NEW g \in Calls, Open(g)
  PROVE  /\ catalog \in Catalogs /\ catalog \in past[g]
         /\ past[g] \in SUBSET Catalogs /\ got[g] \in Reading
         /\ pc[g] \in Steps \ {"idle", "done"}
  BY DEF ProductInv, ProductTypeOK, Open

LEMMA RefuseStep ==
  ASSUME ProductInv, NEW g \in Calls, pc[g] # "done",
         NEW err \in {"query failed", "ErrInvalidProductID"}, Refuse(g, err),
         err = "ErrInvalidProductID" => pc[g] = "idle"
  PROVE  ProductInv'
  <1>1. Answer(g, err, None)
    BY DEF Refuse
  <1>2. [err |-> err, shown |-> None] \in Answers
    BY DEF Answers, ProductErrors
  <1>3. answer'[g] = [err |-> err, shown |-> None]
    BY <1>1 DEF Answer, ProductInv, ProductTypeOK
  <1>4. JustifiedBy([err |-> err, shown |-> None], past'[g])
    BY <1>1 DEF Answer, ProductInv, JustifiedBy
  <1>5. Justified(g)'
    BY <1>3, <1>4 DEF Justified
  <1>6. QED
    BY <1>1, <1>2, <1>5, AnswerStep

LEMMA CallStep ==
  ASSUME ProductInv, NEW g \in Calls, Call(g)
  PROVE  ProductInv'
  <1> USE DEF ProductInv
  <1>1. /\ pc[g] = "idle" /\ pc' = [pc EXCEPT ![g] = "product"]
        /\ past' = [past EXCEPT ![g] = {catalog}]
        /\ UNCHANGED <<catalog, edits, got, answer>>
    BY DEF Call, Goto
  <1>2. ProductTypeOK'
    BY <1>1 DEF ProductTypeOK, Steps
  <1>3. ASSUME NEW h \in Calls
        PROVE  /\ Open(h)' => catalog' \in past'[h]
               /\ pc'[h] = "idle" => past'[h] = {}
               /\ Answered(h)' <=> pc'[h] = "done"
               /\ PartsWereThere(h)'
               /\ Answered(h)' => Justified(h)'
    <2>1. CASE h = g
      BY <2>1, <1>1 DEF Open, Answered, PartsWereThere, ProductTypeOK
    <2>2. CASE h # g
      <3>1. /\ pc'[h] = pc[h] /\ answer'[h] = answer[h]
            /\ got'[h] = got[h] /\ past'[h] = past[h] /\ catalog' = catalog
        BY <2>2, <1>1 DEF ProductTypeOK
      <3>2. Justified(h) <=> Justified(h)'
        BY <3>1 DEF Justified
      <3>3. PartsWereThere(h)'
        BY <3>1 DEF PartsWereThere
      <3>4. QED
        BY <3>1, <3>2, <3>3 DEF Open, Answered
    <2>3. QED
      BY <2>1, <2>2
  <1>4. QED
    BY <1>2, <1>3

LEMMA ReadProductStep ==
  ASSUME ProductInv, NEW g \in Calls, ReadProduct(g)
  PROVE  ProductInv'
  <1>1. pc[g] = "product" /\ Open(g)
    BY DEF ReadProduct, Open
  <1>2. catalog \in Catalogs /\ catalog \in past[g] /\ got[g] \in Reading
    BY <1>1, Present
  <1>3. CASE ~Exists(catalog)
    <2>1. Answer(g, "ErrProductNotFound", None)
      BY <1>3 DEF ReadProduct, Refuse
    <2>2. [err |-> "ErrProductNotFound", shown |-> None] \in Answers
      BY DEF Answers, ProductErrors
    <2>3. /\ answer'[g] = [err |-> "ErrProductNotFound", shown |-> None]
          /\ past' = past
      BY <2>1 DEF Answer, ProductInv, ProductTypeOK
    <2>4. Justified(g)'
      BY <2>3, <1>2, <1>3 DEF Justified, JustifiedBy
    <2>5. QED
      BY <2>1, <2>2, <2>4, <1>1, AnswerStep
  <1>4. CASE Exists(catalog)
    <2>1. /\ pc' = [pc EXCEPT ![g] = "variants"]
          /\ got' = [got EXCEPT ![g].category = catalog.category,
                                ![g].status = catalog.status]
          /\ UNCHANGED <<catalog, edits, answer, past>>
      BY <1>4 DEF ReadProduct, Goto
    <2>2. got'[g] = [got[g] EXCEPT !.category = catalog.category,
                                   !.status = catalog.status]
      BY <2>1 DEF ProductInv, ProductTypeOK
    <2>3. got'[g] \in Reading /\ got'[g].category = catalog.category
            /\ got'[g].status = catalog.status
      BY <2>2, <1>2, CatalogTyped DEF Reading
    <2>4. got' \in [Calls -> Reading] /\ \A h \in Calls : h # g => got'[h] = got[h]
      BY <2>1, <2>3 DEF ProductInv, ProductTypeOK
    <2>5. pc'[g] = "variants"
      BY <2>1 DEF ProductInv, ProductTypeOK
    <2>6. PartsWereThere(g)'
      BY <2>1, <2>3, <2>5, <1>2, <1>4 DEF PartsWereThere
    <2>7. "variants" \in Steps \ {"idle", "done"}
      BY DEF Steps
    <2>8. QED
      BY <2>1, <2>4, <2>6, <2>7, <1>1, ReadStep
  <1>5. QED
    BY <1>3, <1>4

LEMMA ReadVariantsStep ==
  ASSUME ProductInv, NEW g \in Calls, ReadVariants(g)
  PROVE  ProductInv'
  <1>1. /\ pc[g] = "variants" /\ Open(g)
        /\ pc' = [pc EXCEPT ![g] = "values"]
        /\ got' = [got EXCEPT ![g].variants = catalog.variants]
        /\ UNCHANGED <<catalog, edits, answer, past>>
    BY DEF ReadVariants, Goto, Open
  <1>2. catalog \in Catalogs /\ catalog \in past[g] /\ got[g] \in Reading
    BY <1>1, Present
  <1>3. got'[g] = [got[g] EXCEPT !.variants = catalog.variants]
    BY <1>1 DEF ProductInv, ProductTypeOK
  <1>4. got'[g] \in Reading /\ got'[g].variants = catalog.variants
    BY <1>2, <1>3, CatalogTyped DEF Reading
  <1>5. got' \in [Calls -> Reading] /\ \A h \in Calls : h # g => got'[h] = got[h]
    BY <1>1, <1>4 DEF ProductInv, ProductTypeOK
  <1>6. pc'[g] = "values" /\ past'[g] = past[g]
    BY <1>1 DEF ProductInv, ProductTypeOK
  <1>7. \A part \in {"category", "status", "variants", "values", "images"} \ {"variants"} :
          got'[g][part] = got[g][part]
    BY <1>2, <1>3 DEF Reading
  <1>8. PartsWereThere(g)
    BY DEF ProductInv
  <1>9. PartsWereThere(g)'
    BY <1>1, <1>2, <1>4, <1>6, <1>7, <1>8 DEF PartsWereThere
  <1>10. "values" \in Steps \ {"idle", "done"}
    BY DEF Steps
  <1>11. QED
    BY <1>1, <1>5, <1>9, <1>10, ReadStep

LEMMA ReadValuesStep ==
  ASSUME ProductInv, NEW g \in Calls, ReadValues(g)
  PROVE  ProductInv'
  <1>1. /\ pc[g] = "values" /\ Open(g)
        /\ pc' = [pc EXCEPT ![g] = "images"]
        /\ got' = [got EXCEPT ![g].values = catalog.values]
        /\ UNCHANGED <<catalog, edits, answer, past>>
    BY DEF ReadValues, Goto, Open
  <1>2. catalog \in Catalogs /\ catalog \in past[g] /\ got[g] \in Reading
    BY <1>1, Present
  <1>3. got'[g] = [got[g] EXCEPT !.values = catalog.values]
    BY <1>1 DEF ProductInv, ProductTypeOK
  <1>4. got'[g] \in Reading /\ got'[g].values = catalog.values
    BY <1>2, <1>3, CatalogTyped DEF Reading
  <1>5. got' \in [Calls -> Reading] /\ \A h \in Calls : h # g => got'[h] = got[h]
    BY <1>1, <1>4 DEF ProductInv, ProductTypeOK
  <1>6. pc'[g] = "images" /\ past'[g] = past[g]
    BY <1>1 DEF ProductInv, ProductTypeOK
  <1>7. \A part \in {"category", "status", "variants", "values", "images"} \ {"values"} :
          got'[g][part] = got[g][part]
    BY <1>2, <1>3 DEF Reading
  <1>8. PartsWereThere(g)
    BY DEF ProductInv
  <1>9. PartsWereThere(g)'
    BY <1>1, <1>2, <1>4, <1>6, <1>7, <1>8 DEF PartsWereThere
  <1>10. "images" \in Steps \ {"idle", "done"}
    BY DEF Steps
  <1>11. QED
    BY <1>1, <1>5, <1>9, <1>10, ReadStep

LEMMA ReadImagesStep ==
  ASSUME ProductInv, NEW g \in Calls, ReadImages(g)
  PROVE  ProductInv'
  <1>1. /\ pc[g] = "images" /\ Open(g)
        /\ pc' = [pc EXCEPT ![g] = "definitions"]
        /\ got' = [got EXCEPT ![g].images = catalog.images]
        /\ UNCHANGED <<catalog, edits, answer, past>>
    BY DEF ReadImages, Goto, Open
  <1>2. catalog \in Catalogs /\ catalog \in past[g] /\ got[g] \in Reading
    BY <1>1, Present
  <1>3. got'[g] = [got[g] EXCEPT !.images = catalog.images]
    BY <1>1 DEF ProductInv, ProductTypeOK
  <1>4. got'[g] \in Reading /\ got'[g].images = catalog.images
    BY <1>2, <1>3, CatalogTyped DEF Reading
  <1>5. got' \in [Calls -> Reading] /\ \A h \in Calls : h # g => got'[h] = got[h]
    BY <1>1, <1>4 DEF ProductInv, ProductTypeOK
  <1>6. pc'[g] = "definitions" /\ past'[g] = past[g]
    BY <1>1 DEF ProductInv, ProductTypeOK
  <1>7. \A part \in {"category", "status", "variants", "values", "images"} \ {"images"} :
          got'[g][part] = got[g][part]
    BY <1>2, <1>3 DEF Reading
  <1>8. PartsWereThere(g)
    BY DEF ProductInv
  <1>9. PartsWereThere(g)'
    BY <1>1, <1>2, <1>4, <1>6, <1>7, <1>8 DEF PartsWereThere
  <1>10. "definitions" \in Steps \ {"idle", "done"}
    BY DEF Steps
  <1>11. QED
    BY <1>1, <1>5, <1>9, <1>10, ReadStep

LEMMA ReadDefinitionsStep ==
  ASSUME ProductInv, NEW g \in Calls, ReadDefinitions(g)
  PROVE  ProductInv'
  <1> DEFINE err == ValueError(ShownValues(got[g].variants, got[g].values),
                               Known(catalog.definitions, got[g].category))
             view == View(got[g].category, got[g].status, got[g].variants,
                          got[g].values, got[g].images)
             shown == IF err = "nil" THEN view ELSE None
  <1>1. pc[g] = "definitions" /\ Open(g)
    BY DEF ReadDefinitions, Open
  <1>2. catalog \in past[g] /\ past[g] \in SUBSET Catalogs
    BY <1>1, Present
  <1>3. Answer(g, err, shown)
    BY DEF ReadDefinitions, Refuse
  <1>4. PICK c1 \in past[g] :
          Exists(c1) /\ got[g].category = c1.category /\ got[g].status = c1.status
    BY <1>1 DEF ProductInv, PartsWereThere
  <1>5. PICK c2 \in past[g] : got[g].variants = c2.variants
    BY <1>1 DEF ProductInv, PartsWereThere
  <1>6. PICK c3 \in past[g] : got[g].values = c3.values
    BY <1>1 DEF ProductInv, PartsWereThere
  <1>7. PICK c4 \in past[g] : got[g].images = c4.images
    BY <1>1 DEF ProductInv, PartsWereThere
  <1>8. [err |-> err, shown |-> shown] = Assembled(c1, c2, c3, c4, catalog)
    BY <1>4, <1>5, <1>6, <1>7 DEF Assembled
  <1> HIDE DEF err, shown
  <1>9. [err |-> err, shown |-> shown] \in Answers
    BY <1>2, <1>4, <1>8, AssembledTyped
  <1>10. JustifiedBy([err |-> err, shown |-> shown], past[g])
    BY <1>2, <1>4, <1>8 DEF JustifiedBy
  <1>11. answer'[g] = [err |-> err, shown |-> shown] /\ past' = past
    BY <1>3 DEF Answer, ProductInv, ProductTypeOK
  <1>12. Justified(g)'
    BY <1>10, <1>11 DEF Justified
  <1>13. QED
    BY <1>1, <1>3, <1>9, <1>12, AnswerStep

\* Every step of the specification keeps the invariant.
LEMMA StepInv == ProductInv /\ [Next]_vars => ProductInv'
  <1> SUFFICES ASSUME ProductInv, [Next]_vars PROVE ProductInv'
    OBVIOUS
  <1>1. CASE UNCHANGED vars
    <2>1. ASSUME NEW g \in Calls
          PROVE  /\ Justified(g) <=> Justified(g)'
                 /\ PartsWereThere(g) <=> PartsWereThere(g)'
      BY <1>1 DEF vars, Justified, PartsWereThere
    <2>2. QED
      BY <1>1, <2>1 DEF vars, ProductInv, ProductTypeOK, Open, Answered
  <1>2. CASE Maintain
    BY <1>2, MaintainStep
  <1>3. ASSUME NEW g \in Calls, GetProduct(g)
        PROVE  ProductInv'
    <2>1. CASE Call(g)
      BY <2>1, CallStep
    <2>2. CASE CallWithoutId(g)
      BY <2>2, RefuseStep DEF CallWithoutId
    <2>3. CASE StatementFails(g)
      BY <2>3, RefuseStep DEF StatementFails, Open
    <2>4. CASE ReadProduct(g)
      BY <2>4, ReadProductStep
    <2>5. CASE ReadVariants(g)
      BY <2>5, ReadVariantsStep
    <2>6. CASE ReadValues(g)
      BY <2>6, ReadValuesStep
    <2>7. CASE ReadImages(g)
      BY <2>7, ReadImagesStep
    <2>8. CASE ReadDefinitions(g)
      BY <2>8, ReadDefinitionsStep
    <2>9. QED
      BY <1>3, <2>1, <2>2, <2>3, <2>4, <2>5, <2>6, <2>7, <2>8 DEF GetProduct
  <1>4. QED
    BY <1>1, <1>2, <1>3 DEF Next, Terminated

\* GetProduct keeps the types of its variables, for every value of the constants.
THEOREM ProductTypeCorrect == Spec => []ProductTypeOK
  <1>1. ProductInv => ProductTypeOK
    BY DEF ProductInv
  <1>2. QED
    BY InitInv, StepInv, <1>1, PTL DEF Spec

(***************************************************************************)
(* What an answer was put together from.                                   *)
(***************************************************************************)
\* A product that is shown comes from five past states of the tables.
LEMMA ShownParts ==
  ASSUME ProductInv, NEW g \in Calls, ShownTo(g)
  PROVE  /\ past[g] \in SUBSET Catalogs
         /\ \E c1, c2, c3, c4, c5 \in past[g] :
              answer[g].shown =
                View(c1.category, c1.status, c2.variants, c3.values, c4.images)
  <1>1. JustifiedBy(answer[g], past[g]) /\ answer[g].err = "nil"
    BY DEF ProductInv, ShownTo, Justified
  <1>2. PICK c1, c2, c3, c4, c5 \in past[g] :
          answer[g] = Assembled(c1, c2, c3, c4, c5)
    <2>1. \A err : err # "nil" => answer[g] # [err |-> err, shown |-> None]
      BY <1>1
    <2>2. QED
      BY <1>1, <2>1 DEF JustifiedBy
  <1>3. answer[g].shown = View(c1.category, c1.status, c2.variants, c3.values, c4.images)
    BY <1>1, <1>2 DEF Assembled
  <1>4. QED
    BY <1>2, <1>3 DEF ProductInv, ProductTypeOK

\* The attributes a view shows under a variant, or under the product itself.
LEMMA ViewShows ==
  ASSUME NEW k, NEW s, NEW variants \in [Variants -> LifecycleStatus \cup {None}],
         NEW values \in SUBSET Value, NEW images,
         NEW a \in Attributes, NEW v \in Variants \cup {None}
  PROVE  LET view == View(k, s, variants, values, images) IN
         /\ Shows(view, a, v) => \E x \in values : x.attribute = a /\ x.variant = v
         /\ (v # None => variants[v] # None)
              /\ (\E x \in values : x.attribute = a /\ x.variant = v) => Shows(view, a, v)
  <1> DEFINE view == View(k, s, variants, values, images)
             entry(w) == [id |-> w, status |-> variants[w],
                          attributes |-> AttributesOf(values, w)]
  <1>1. view.attributes = AttributesOf(values, None)
        /\ view.variants = {entry(w) : w \in Listed(variants)}
    BY DEF View
  <1>2. \A w : a \in AttributesOf(values, w) <=>
          \E x \in values : x.attribute = a /\ x.variant = w
    BY DEF AttributesOf
  <1>3. CASE v = None
    BY <1>1, <1>2, <1>3 DEF Shows
  <1>4. CASE v # None
    <2>1. Shows(view, a, v) <=> \E w \in Listed(variants) :
            w = v /\ a \in AttributesOf(values, w)
      <3>1. \A w : entry(w).id = w /\ entry(w).attributes = AttributesOf(values, w)
        OBVIOUS
      <3>2. Shows(view, a, v) <=> \E x \in view.variants : x.id = v /\ a \in x.attributes
        BY <1>4 DEF Shows
      <3> HIDE DEF view, entry
      <3>3. QED
        BY <1>1, <3>1, <3>2
    <2>2. v \in Listed(variants) <=> variants[v] # None
      BY <1>4 DEF Listed
    <2>3. QED
      BY <2>1, <2>2, <1>2, <1>4
  <1>5. QED
    BY <1>3, <1>4

\* Everything a product is shown with was there at some moment of the call.
THEOREM ShownWasThereAlways == Spec => []ShownWasThere
  <1>1. ASSUME ProductInv PROVE ShownWasThere
    <2> SUFFICES ASSUME NEW g \in Calls, ShownTo(g)
                 PROVE  LET view == answer[g].shown IN
      /\ \E c \in past[g] : c.category = view.category /\ c.status = view.status
      /\ \A x \in view.variants : \E c \in past[g] : c.variants[x.id] = x.status
      /\ \A a \in Attributes, v \in Variants \cup {None} :
           Shows(view, a, v) => \E c \in past[g] : Holds(c, a, v)
      /\ view.images \subseteq UNION {c.images : c \in past[g]}
      BY DEF ShownWasThere
    <2>1. past[g] \in SUBSET Catalogs
      BY <1>1, ShownParts
    <2>2. PICK c1, c2, c3, c4, c5 \in past[g] : answer[g].shown =
            View(c1.category, c1.status, c2.variants, c3.values, c4.images)
      BY <1>1, ShownParts
    <2> DEFINE view == answer[g].shown
    <2>3. c1.category = view.category /\ c1.status = view.status
      BY <2>2 DEF View
    <2>4. \A x \in view.variants : c2.variants[x.id] = x.status
      BY <2>2 DEF View
    <2>5. \A a \in Attributes, v \in Variants \cup {None} :
            Shows(view, a, v) => Holds(c3, a, v)
      <3>1. /\ c2.variants \in [Variants -> LifecycleStatus \cup {None}]
            /\ c3.values \in SUBSET Value
        BY <2>1, CatalogTyped
      <3>2. QED
        BY <2>2, <3>1, ViewShows DEF Holds
    <2>6. view.images = c4.images
      BY <2>2 DEF View
    <2> HIDE DEF view
    <2>7. QED
      BY <2>3, <2>4, <2>5, <2>6 DEF view
  <1>2. QED
    BY InitInv, StepInv, <1>1, PTL DEF Spec

\* Nothing that was there throughout the call is missing from a product shown.
THEOREM StayedShownAlways == Spec => []StayedShown
  <1>1. ASSUME ProductInv PROVE StayedShown
    <2> SUFFICES ASSUME NEW g \in Calls, ShownTo(g)
                 PROVE  LET view == answer[g].shown IN
      /\ \A i \in Images : (\A c \in past[g] : i \in c.images) => i \in view.images
      /\ \A v \in Variants : \A s \in LifecycleStatus :
           (\A c \in past[g] : c.variants[v] = s) =>
             \E x \in view.variants : x.id = v /\ x.status = s
      /\ \A a \in Attributes, v \in Variants \cup {None} :
           (\A c \in past[g] : /\ v # None => c.variants[v] # None
                               /\ Holds(c, a, v)) => Shows(view, a, v)
      BY DEF StayedShown
    <2>1. past[g] \in SUBSET Catalogs
      BY <1>1, ShownParts
    <2>2. PICK c1, c2, c3, c4, c5 \in past[g] : answer[g].shown =
            View(c1.category, c1.status, c2.variants, c3.values, c4.images)
      BY <1>1, ShownParts
    <2> DEFINE view == answer[g].shown
    <2>3. view.images = c4.images
      BY <2>2 DEF View
    <2>4. ASSUME NEW v \in Variants, NEW s \in LifecycleStatus, c2.variants[v] = s
          PROVE  \E x \in view.variants : x.id = v /\ x.status = s
      <3>1. v \in Listed(c2.variants)
        BY <2>4, NoneAssumption DEF Listed
      <3>2. [id |-> v, status |-> c2.variants[v], attributes |-> AttributesOf(c3.values, v)]
              \in view.variants
        BY <2>2, <3>1 DEF View
      <3>3. QED
        BY <3>2, <2>4
    <2>5. ASSUME NEW a \in Attributes, NEW v \in Variants \cup {None},
                 v # None => c2.variants[v] # None, Holds(c3, a, v)
          PROVE  Shows(view, a, v)
      <3>1. /\ c2.variants \in [Variants -> LifecycleStatus \cup {None}]
            /\ c3.values \in SUBSET Value
        BY <2>1, CatalogTyped
      <3>2. QED
        BY <2>2, <2>5, <3>1, ViewShows DEF Holds
    <2> HIDE DEF view
    <2>6. QED
      BY <2>3, <2>4, <2>5 DEF view
  <1>2. QED
    BY InitInv, StepInv, <1>1, PTL DEF Spec

(***************************************************************************)
(* Which calls fail.                                                       *)
(***************************************************************************)
LEMMA RefusalError == \A a, err : a = [err |-> err, shown |-> None] => a.err = err
  OBVIOUS

\* What a call answered, of which no statement failed, is decided by the tables.
LEMMA AnswerCases ==
  ASSUME ProductInv, NEW g \in Calls, Answered(g)
  PROVE  /\ past[g] \in SUBSET Catalogs
         /\ \/ answer[g] = [err |-> "query failed", shown |-> None]
            \/ answer[g] = [err |-> "ErrInvalidProductID", shown |-> None] /\ past[g] = {}
            \/ /\ answer[g] = [err |-> "ErrProductNotFound", shown |-> None]
               /\ \E c \in past[g] : ~Exists(c)
            \/ \E c1, c2, c3, c4, c5 \in past[g] :
                 Exists(c1) /\ answer[g] = Assembled(c1, c2, c3, c4, c5)
  <1>1. JustifiedBy(answer[g], past[g])
    BY DEF ProductInv, Justified
  <1>2. QED
    BY <1>1 DEF JustifiedBy, ProductInv, ProductTypeOK

\* Edits of variants, values and images alone do not make a call fail.
THEOREM RowEditsHarmlessAlways == Spec => []RowEditsHarmless
  <1>1. ASSUME ProductInv PROVE RowEditsHarmless
    <2> SUFFICES ASSUME NEW g \in Calls, Answered(g), OnlyRowsEdited(g)
                 PROVE  answer[g].err \in {"nil", "query failed", "ErrInvalidProductID"}
      BY DEF RowEditsHarmless
    <2>1. CASE answer[g] = [err |-> "query failed", shown |-> None]
      <3>1. answer[g].err = "query failed"
        BY <2>1, RefusalError
      <3>2. QED
        BY <3>1
    <2>2. CASE answer[g] = [err |-> "ErrInvalidProductID", shown |-> None]
      <3>1. answer[g].err = "ErrInvalidProductID"
        BY <2>2
      <3>2. QED
        BY <3>1
    <2>3. ASSUME NEW c1 \in past[g], NEW c2 \in past[g], NEW c3 \in past[g],
                 NEW c4 \in past[g], NEW c5 \in past[g],
                 answer[g] = Assembled(c1, c2, c3, c4, c5)
          PROVE  answer[g].err = "nil"
      <3> DEFINE shown == ShownValues(c2.variants, c3.values)
                 known == Known(c5.definitions, c1.category)
      <3>1. /\ Explained(c3)
            /\ c3.category = c1.category /\ c3.definitions = c5.definitions
        BY DEF OnlyRowsEdited
      <3>2. \A x \in c3.values : x.filled /\ x.attribute \in known
        BY <3>1 DEF Explained
      <3>3. shown \subseteq c3.values
        BY DEF ShownValues
      <3>4. c3.values \in SUBSET Value
        BY <1>1, AnswerCases, CatalogTyped
      <3>5. answer[g].err = ValueError(shown, known)
        BY <2>3 DEF Assembled
      <3> HIDE DEF shown, known
      <3>6. shown \in SUBSET Value
        BY <3>3, <3>4
      <3>7. \A x \in shown : x.attribute \in known /\ x.filled
        BY <3>2, <3>3
      <3>8. QED
        BY <3>5, <3>6, <3>7, ValueErrorTyped
    <2>4. \A c \in past[g] : Exists(c)
      BY DEF OnlyRowsEdited
    <2>5. \/ answer[g] = [err |-> "query failed", shown |-> None]
          \/ answer[g] = [err |-> "ErrInvalidProductID", shown |-> None]
          \/ \E c1, c2, c3, c4, c5 \in past[g] :
               answer[g] = Assembled(c1, c2, c3, c4, c5)
      BY <1>1, <2>4, AnswerCases
    <2>6. QED
      BY <2>1, <2>2, <2>3, <2>5
  <1>2. QED
    BY InitInv, StepInv, <1>1, PTL DEF Spec

\* A category with no more definitions than the limit is known whole.
LEMMA SmallKnown ==
  ASSUME NEW definitions \in [Attributes -> Definition \cup {None}], NEW category,
         Cardinality(DefinedFor(definitions, category)) <= definitionLimit
  PROVE  Known(definitions, category) = DefinedFor(definitions, category)
  <1> DEFINE here == DefinedFor(definitions, category)
             before(a) == {b \in here : Newer(definitions, b, a)}
  <1>1. here \subseteq Attributes /\ IsFiniteSet(here)
    BY AttributesAssumption, FS_Subset DEF DefinedFor
  <1>2. ASSUME NEW a \in here PROVE Cardinality(before(a)) < definitionLimit
    <2>1. ~Newer(definitions, a, a)
      <3>1. a \in Nat /\ definitions[a].created \in Nat
        BY <1>1, AttributesAssumption DEF DefinedFor, Definition
      <3>2. QED
        BY <3>1 DEF Newer
    <2>2. before(a) \subseteq here \ {a}
      BY <2>1
    <2>3. /\ IsFiniteSet(here \ {a})
          /\ Cardinality(here \ {a}) = Cardinality(here) - 1
      BY <1>1, FS_RemoveElement
    <2>4. Cardinality(before(a)) <= Cardinality(here \ {a})
      BY <2>2, <2>3, FS_Subset
    <2>5. /\ Cardinality(before(a)) \in Nat
          /\ Cardinality(here) \in Nat
      BY <1>1, <2>2, <2>3, FS_Subset, FS_CardinalityType
    <2> HIDE DEF here, before
    <2>6. Cardinality(here) <= definitionLimit
      BY DEF here
    <2>7. QED
      BY <2>3, <2>4, <2>5, <2>6, BoundsAssumption
  <1>3. Known(definitions, category) = {a \in here : Cardinality(before(a)) < definitionLimit}
    BY DEF Known
  <1>4. QED
    BY <1>2, <1>3

\* One unchanging state of the tables: the whole product, or an error.
LEMMA SteadyAssembled ==
  ASSUME NEW c \in Catalogs, Exists(c)
  PROVE  /\ Sound(c) /\ Small(c) => Assembled(c, c, c, c, c).shown = WholeView(c)
         /\ ~Sound(c) => Assembled(c, c, c, c, c).err
                           \in {"missing attribute definition", "no value set"}
         /\ Assembled(c, c, c, c, c).err = "nil" =>
              Assembled(c, c, c, c, c).shown = WholeView(c)
  <1> DEFINE shown == ShownValues(c.variants, c.values)
             known == Known(c.definitions, c.category)
             made == Assembled(c, c, c, c, c)
  <1>1. shown = OwnValues(c)
    <2>1. \A x \in c.values : x.variant \in Variants \cup {None}
      BY CatalogTyped DEF Value
    <2>2. QED
      BY <2>1 DEF ShownValues, OwnValues, Listed
  <1>2. shown \in SUBSET Value /\ \A x \in shown : x.attribute \in Attributes
    BY CatalogTyped DEF ShownValues, Value
  <1>3. made.err = ValueError(shown, known)
        /\ (made.err = "nil" => made.shown = WholeView(c))
    BY DEF Assembled, WholeView
  <1>4. known \subseteq DefinedFor(c.definitions, c.category)
    BY DEF Known
  <1>5. \A x \in shown : x.attribute \in DefinedFor(c.definitions, c.category) <=>
                           c.definitions[x.attribute].category = c.category
    <2>1. \A x \in shown : c.definitions[x.attribute] # None
      BY CatalogTyped DEF ForeignKeys, ShownValues
    <2>2. QED
      BY <1>2, <2>1 DEF DefinedFor
  <1>6. c.definitions \in [Attributes -> Definition \cup {None}]
    BY CatalogTyped
  <1>7. Small(c) => known = DefinedFor(c.definitions, c.category)
    BY <1>6, SmallKnown DEF Small
  <1>8. Sound(c) <=> \A x \in shown :
          x.filled /\ c.definitions[x.attribute].category = c.category
    BY <1>1 DEF Sound
  <1> HIDE DEF shown, known, made
  <1>9. made.err \in {"nil", "missing attribute definition", "no value set"}
        /\ (made.err = "nil" <=> \A x \in shown : x.attribute \in known /\ x.filled)
    BY <1>2, <1>3, ValueErrorTyped
  <1>10. Sound(c) /\ Small(c) => made.err = "nil"
    BY <1>5, <1>7, <1>8, <1>9
  <1>11. ~Sound(c) => made.err # "nil"
    BY <1>4, <1>5, <1>8, <1>9
  <1>12. QED
    BY <1>3, <1>9, <1>10, <1>11 DEF made

\* A product nobody changes is shown whole, or not at all.
THEOREM SteadyProductAlways == Spec => []SteadyProductShown
  <1>1. ASSUME ProductInv PROVE SteadyProductShown
    <2> SUFFICES ASSUME NEW g \in Calls, Answered(g), answer[g].err # "query failed",
                        NEW c \in past[g], past[g] = {c}
                 PROVE  /\ ~Exists(c) => Code(g) = "NotFound"
                        /\ Exists(c) /\ Sound(c) /\ Small(c) =>
                             answer[g].shown = WholeView(c)
                        /\ Exists(c) /\ ~Sound(c) => Code(g) = "Internal"
                        /\ ShownTo(g) => answer[g].shown = WholeView(c)
      BY DEF SteadyProductShown
    <2>1. \/ /\ answer[g] = [err |-> "ErrProductNotFound", shown |-> None]
             /\ ~Exists(c)
          \/ Exists(c) /\ answer[g] = Assembled(c, c, c, c, c)
      <3>1. answer[g] # [err |-> "query failed", shown |-> None]
        BY RefusalError
      <3>2. past[g] # {} /\ \A d \in past[g] : d = c
        OBVIOUS
      <3>3. \/ /\ answer[g] = [err |-> "ErrProductNotFound", shown |-> None]
               /\ \E d \in past[g] : ~Exists(d)
            \/ \E c1, c2, c3, c4, c5 \in past[g] :
                 Exists(c1) /\ answer[g] = Assembled(c1, c2, c3, c4, c5)
        BY <1>1, <3>1, <3>2, AnswerCases
      <3>4. QED
        BY <3>2, <3>3
    <2>2. c \in Catalogs
      BY <1>1, AnswerCases
    <2>3. CASE /\ answer[g] = [err |-> "ErrProductNotFound", shown |-> None]
               /\ ~Exists(c)
      <3>1. answer[g].err = "ErrProductNotFound"
        BY <2>3
      <3>2. Code(g) = "NotFound"
        BY <3>1 DEF Code, CatalogCode
      <3>3. QED
        BY <2>3, <3>1, <3>2 DEF ShownTo
    <2>4. CASE Exists(c) /\ answer[g] = Assembled(c, c, c, c, c)
      <3>1. answer[g].err \in {"missing attribute definition", "no value set"} =>
              Code(g) = "Internal"
        BY DEF Code, CatalogCode
      <3>2. QED
        BY <2>2, <2>4, <3>1, SteadyAssembled DEF ShownTo
    <2>5. QED
      BY <2>1, <2>3, <2>4
  <1>2. QED
    BY InitInv, StepInv, <1>1, PTL DEF Spec

=============================================================================
