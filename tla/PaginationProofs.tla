--------------------------- MODULE PaginationProofs ---------------------------
(***************************************************************************)
(* Proofs that the lists of CatalogPagination have their safety properties *)
(* for every value of the constants: any table, any page size, any number  *)
(* of clients and of changes between two pages.                            *)
(***************************************************************************)
EXTENDS CatalogPagination, FiniteSetTheorems, WellFoundedInduction, TLAPS

(***************************************************************************)
(* The order of the rows.                                                  *)
(***************************************************************************)
\* A stored row has a key that can be compared.
LEMMA KeyTypes ==
  ASSUME ListTypeOK, NEW i \in StoredIds
  PROVE  i \in Nat /\ table[i] \in Row /\ table[i].created \in Nat
  BY KeysAssumption, ListRowsAssumption DEF ListTypeOK, StoredIds, Row

\* Of two stored rows one precedes the other.
LEMMA OrderTotal ==
  ASSUME ListTypeOK, NEW i \in StoredIds, NEW j \in StoredIds, i # j
  PROVE  Precedes(i, j) \/ Precedes(j, i)
  BY KeyTypes DEF Precedes

LEMMA OrderTransitive ==
  ASSUME ListTypeOK, NEW i \in StoredIds, NEW j \in StoredIds, NEW k \in StoredIds,
         Precedes(i, j), Precedes(j, k)
  PROVE  Precedes(i, k)
  BY KeyTypes DEF Precedes

LEMMA OrderIrreflexive ==
  ASSUME ListTypeOK, NEW i \in StoredIds
  PROVE  ~Precedes(i, i)
  BY KeyTypes DEF Precedes

\* Sets of stored rows are finite, and so are the rows before one of them.
LEMMA RowsFinite ==
  ASSUME NEW T \in SUBSET StoredIds
  PROVE  IsFiniteSet(T) /\ Cardinality(T) \in Nat
  <1>1. T \in SUBSET Ids
    BY DEF StoredIds
  <1> QED BY <1>1, TableAssumption, FS_Subset, FS_CardinalityType

Before(T, i) == {j \in T : Precedes(j, i)}

After(T, i) == {j \in T : Precedes(i, j)}

\* Of any stored rows there are, one is first.
LEMMA FirstExists ==
  ASSUME ListTypeOK, NEW T \in SUBSET StoredIds, T # {}
  PROVE  \E i \in T : Before(T, i) = {}
  <1> DEFINE Sets == {Before(T, i) : i \in T}
  <1>1. Sets \subseteq FiniteSubsetsOf(T) /\ Sets # {}
    BY RowsFinite DEF FiniteSubsetsOf, Before
  <1>2. PICK B \in Sets : \A C \in Sets : ~(<<C, B>> \in StrictSubsetOrdering(T))
    BY <1>1, FS_StrictSubsetOrderingWellFounded, WFMin
  <1>3. PICK i \in T : B = Before(T, i)
    BY <1>2
  <1>4. ASSUME NEW j \in Before(T, i) PROVE FALSE
    <2>1. j \in T /\ Precedes(j, i)
      BY <1>4 DEF Before
    <2>2. Before(T, j) \subseteq Before(T, i)
      BY <2>1, OrderTransitive DEF Before
    <2>3. j \notin Before(T, j)
      BY <2>1, OrderIrreflexive DEF Before
    <2>4. <<Before(T, j), B>> \in StrictSubsetOrdering(T)
      BY <1>3, <1>4, <2>2, <2>3 DEF StrictSubsetOrdering, Before
    <2> QED BY <1>2, <2>1, <2>4
  <1> QED BY <1>4

\* ... and one is last.
LEMMA LastExists ==
  ASSUME ListTypeOK, NEW T \in SUBSET StoredIds, T # {}
  PROVE  \E i \in T : \A j \in T \ {i} : Precedes(j, i)
  <1> DEFINE Sets == {After(T, i) : i \in T}
  <1>1. Sets \subseteq FiniteSubsetsOf(T) /\ Sets # {}
    BY RowsFinite DEF FiniteSubsetsOf, After
  <1>2. PICK A \in Sets : \A C \in Sets : ~(<<C, A>> \in StrictSubsetOrdering(T))
    BY <1>1, FS_StrictSubsetOrderingWellFounded, WFMin
  <1>3. PICK i \in T : A = After(T, i)
    BY <1>2
  <1>4. ASSUME NEW j \in After(T, i) PROVE FALSE
    <2>1. j \in T /\ Precedes(i, j)
      BY <1>4 DEF After
    <2>2. After(T, j) \subseteq After(T, i)
      BY <2>1, OrderTransitive DEF After
    <2>3. j \notin After(T, j)
      BY <2>1, OrderIrreflexive DEF After
    <2>4. <<After(T, j), A>> \in StrictSubsetOrdering(T)
      BY <1>3, <1>4, <2>2, <2>3 DEF StrictSubsetOrdering, After
    <2> QED BY <1>2, <2>1, <2>4
  <1> QED BY <1>4, OrderTotal DEF After

(***************************************************************************)
(* ORDER BY ... LIMIT n.                                                   *)
(***************************************************************************)
LEMMA TopBefore == \A T, n : Top(T, n) = {i \in T : Cardinality(Before(T, i)) < n}
  BY DEF Top, Before

\* A row that precedes one of the first n is one of them too.
LEMMA TopClosed ==
  ASSUME ListTypeOK, NEW T \in SUBSET StoredIds, NEW n \in Nat,
         NEW i \in Top(T, n), NEW k \in T, Precedes(k, i)
  PROVE  k \in Top(T, n)
  <1>1. i \in T /\ Cardinality(Before(T, i)) < n
    BY TopBefore
  <1>2. Before(T, k) \in SUBSET Before(T, i)
    BY <1>1, OrderTransitive DEF Before
  <1>3. /\ IsFiniteSet(Before(T, i))
        /\ Cardinality(Before(T, i)) \in Nat /\ Cardinality(Before(T, k)) \in Nat
    BY RowsFinite DEF Before
  <1>4. Cardinality(Before(T, k)) <= Cardinality(Before(T, i))
    BY <1>2, <1>3, FS_Subset
  <1> QED BY <1>1, <1>3, <1>4, TopBefore

\* There is a first row, unless there is none.
LEMMA TopNonEmpty ==
  ASSUME ListTypeOK, NEW T \in SUBSET StoredIds, T # {}, NEW n \in Nat, n > 0
  PROVE  Top(T, n) # {}
  BY FirstExists, FS_EmptySet, TopBefore

\* If fewer rows came than were asked for, they are all there are.
LEMMA TopAll ==
  ASSUME ListTypeOK, NEW T \in SUBSET StoredIds, NEW n \in Nat,
         Cardinality(Top(T, n + 1)) <= n
  PROVE  Top(T, n + 1) = T
  <1> DEFINE rest == T \ Top(T, n + 1)
  <1>1. Top(T, n + 1) \subseteq T
    BY DEF Top
  <1>2. SUFFICES ASSUME rest # {} PROVE FALSE
    BY <1>1
  <1>3. PICK i \in rest : Before(rest, i) = {}
    BY <1>2, FirstExists
  <1>4. Before(T, i) \in SUBSET Top(T, n + 1)
    BY <1>3 DEF Before
  <1>5. /\ IsFiniteSet(Top(T, n + 1)) /\ Cardinality(Top(T, n + 1)) \in Nat
        /\ Cardinality(Before(T, i)) \in Nat
    BY <1>1, RowsFinite DEF Before
  <1>6. Cardinality(Before(T, i)) <= Cardinality(Top(T, n + 1))
    BY <1>4, <1>5, FS_Subset
  <1>7. Cardinality(Before(T, i)) < n + 1
    BY <1>5, <1>6
  <1> QED BY <1>3, <1>7, TopBefore

(***************************************************************************)
(* The invariant, listing by listing.                                      *)
(***************************************************************************)
ListingInv(l) ==
  /\ pc[l] = "first" => cursor[l] = None /\ \A i \in Ids : shown[l][i] = 0
  /\ pc[l] = "next" => /\ cursor[l] # None
                      /\ stayed[l] \subseteq Matching(table, filter[l])
                      /\ ShownAreBefore(l)
                      /\ \A i \in stayed[l] : shown[l][i] > 0 \/ Behind(i, cursor[l])
  /\ \A i \in Ids : shown[l][i] # 2
  /\ pc[l] = "done" /\ code[l] = "OK" => \A i \in stayed[l] : shown[l][i] > 0

LEMMA Listings1 ==
  ListInv <=> /\ ListTypeOK
              /\ StoredIds \subseteq used
              /\ \A l \in Listings : ListingInv(l)
  BY DEF ListInv, ListingInv, NoRowTwice, StayedListed, NothingSkipped

LEMMA Listings2 ==
  ListInv' <=> /\ ListTypeOK'
               /\ (StoredIds \subseteq used)'
               /\ \A l \in Listings : ListingInv(l)'
  BY DEF ListInv, ListingInv, NoRowTwice, StayedListed, NothingSkipped

\* A listing keeps its invariant while nothing of it and of the table changes.
LEMMA ListingFrame ==
  ASSUME NEW l \in Listings, ListingInv(l), UNCHANGED <<table, used, filter>>,
         pc'[l] = pc[l], cursor'[l] = cursor[l], shown'[l] = shown[l],
         code'[l] = code[l], stayed'[l] = stayed[l]
  PROVE  ListingInv(l)'
  BY DEF ListingInv, ShownAreBefore, StoredIds, Behind, Matching

LEMMA InitList == Init => ListInv
  <1> SUFFICES ASSUME Init PROVE ListInv OBVIOUS
  <1>1. ListTypeOK
    BY TableAssumption DEF Init, ListTypeOK
  <1>2. StoredIds \subseteq used
    BY DEF Init, StoredIds
  <1>3. \A l \in Listings : ListingInv(l)
    BY DEF Init, ListingInv
  <1> QED BY <1>1, <1>2, <1>3, Listings1

LEMMA CodeOf == /\ CatalogCode("query failed") = "Internal"
                /\ CatalogCode("decode cursor") = "Internal"
                /\ CatalogCode("ErrInvalidPageSize") = "InvalidArgument"
  BY DEF CatalogCode

\* A listing that is refused ends with an error, and nothing more of it is shown.
LEMMA RefusedStep ==
  ASSUME ListInv, NEW l \in Listings, NEW c \in {"InvalidArgument", "Internal"},
         Refused(l, c)
  PROVE  ListInv'
  <1> USE DEF Refused, storage, asked
  <1>1. ListTypeOK /\ ListTypeOK'
    BY DEF ListInv, ListTypeOK
  <1>2. (StoredIds \subseteq used)'
    BY DEF ListInv, StoredIds
  <1>3. ASSUME NEW m \in Listings PROVE ListingInv(m)'
    <2>1. CASE m = l
      <3>1. pc'[l] = "done" /\ code'[l] # "OK"
        BY <1>1 DEF ListTypeOK
      <3> QED BY <2>1, <3>1, Listings1 DEF ListingInv
    <2>2. CASE m # l
      <3>1. pc'[m] = pc[m] /\ code'[m] = code[m]
        BY <1>1, <2>2 DEF ListTypeOK
      <3> QED BY <3>1, Listings1, ListingFrame
    <2> QED BY <2>1, <2>2
  <1> QED BY <1>1, <1>2, <1>3, Listings2

LEMMA PageFailsStep ==
  ASSUME ListInv, NEW l \in Listings, PageFails(l)
  PROVE  ListInv'
  <1> USE DEF PageFails, storage, asked
  <1>0. PICK step \in {pc[l], "done"} : pc' = [pc EXCEPT ![l] = step]
    OBVIOUS
  <1>1. ListTypeOK /\ ListTypeOK'
    BY <1>0, CodeOf DEF ListInv, ListTypeOK
  <1>2. (StoredIds \subseteq used)'
    BY DEF ListInv, StoredIds
  <1>3. ASSUME NEW m \in Listings PROVE ListingInv(m)'
    <2>1. CASE m = l
      <3>1. pc'[l] = step /\ code'[l] = "Internal"
        BY <1>0, <1>1, CodeOf DEF ListTypeOK
      <3>2. ListingInv(l)
        BY Listings1
      <3>3. \A i \in Ids : Behind(i, cursor[l])' = Behind(i, cursor[l])
        BY DEF Behind
      <3>4. ShownAreBefore(l)' <=> ShownAreBefore(l)
        BY <3>3 DEF ShownAreBefore, StoredIds
      <3>5. \A i \in stayed[l] : i \in Ids
        BY <1>1 DEF ListTypeOK
      <3> QED BY <2>1, <3>1, <3>2, <3>3, <3>4, <3>5 DEF ListingInv, Matching
    <2>2. CASE m # l
      <3>1. pc'[m] = pc[m] /\ code'[m] = code[m]
        BY <1>0, <1>1, <2>2 DEF ListTypeOK
      <3> QED BY <3>1, Listings1, ListingFrame
    <2> QED BY <2>1, <2>2
  <1> QED BY <1>1, <1>2, <1>3, Listings2

(***************************************************************************)
(* Changes of the table between two pages.                                 *)
(***************************************************************************)
LEMMA MaintainStep ==
  ASSUME ListInv, Maintain
  PROVE  ListInv'
  <1> USE DEF Maintain, asked
  <1>1. PICK i0 \in Ids, row \in TableRows \cup {None} :
          /\ table[i0] = None => i0 \notin used
          /\ table[i0] # None /\ row # None => row.created = table[i0].created
          /\ table' = [table EXCEPT ![i0] = row]
          /\ used' = used \cup {i0}
    OBVIOUS
  <1>2. ListTypeOK /\ StoredIds \subseteq used /\ \A l \in Listings : ListingInv(l)
    BY Listings1
  <1>3. ListTypeOK'
    BY <1>1, <1>2, TableAssumption DEF ListTypeOK
  <1>4. (StoredIds \subseteq used)'
    BY <1>1, <1>2 DEF StoredIds, ListTypeOK
  <1>5. ASSUME NEW l \in Listings PROVE ListingInv(l)'
    <2>1. CASE pc[l] = "next"
      <3>1. /\ stayed'[l] = stayed[l] \cap Matching(table', filter'[l])
            /\ cursor'[l] = cursor[l] /\ cursor[l] # None
        BY <1>2, <2>1 DEF ListingInv
      <3>2. \A i \in stayed'[l] : i \in used /\ i \in StoredIds' /\ i \in Ids
        BY <1>2, <2>1, <3>1 DEF ListingInv, Matching, Matches, StoredIds
      \* A row that was stored before and is stored now keeps its place in the order.
      <3>3. \A i \in used : i \in StoredIds' =>
              i \in StoredIds /\ (Behind(i, cursor[l])' <=> Behind(i, cursor[l]))
        <4> SUFFICES ASSUME NEW i \in used, i \in StoredIds'
                     PROVE  i \in StoredIds /\ (Behind(i, cursor[l])' <=> Behind(i, cursor[l]))
          OBVIOUS
        <4>1. i \in StoredIds /\ table'[i].created = table[i].created
          BY <1>1, <1>2 DEF StoredIds, ListTypeOK
        <4> QED BY <3>1, <4>1 DEF Behind
      <3>4. ShownAreBefore(l)'
        BY <1>1, <1>2, <2>1, <3>3 DEF ListingInv, ShownAreBefore
      <3>5. \A i \in stayed'[l] : shown'[l][i] > 0 \/ Behind(i, cursor[l])'
        BY <1>2, <2>1, <3>1, <3>2, <3>3 DEF ListingInv
      <3> QED BY <1>2, <2>1, <3>1, <3>4, <3>5 DEF ListingInv
    <2>2. CASE pc[l] # "next"
      BY <1>2, <2>2 DEF ListingInv
    <2> QED BY <2>1, <2>2
  <1> QED BY <1>3, <1>4, <1>5, Listings2

(***************************************************************************)
(* A page.                                                                 *)
(***************************************************************************)
\* A row after one behind the cursor is behind it too.
LEMMA BehindClosed ==
  ASSUME ListTypeOK, NEW c \in Cursor \cup {None}, NEW i \in StoredIds, NEW k \in StoredIds,
         Behind(k, c), Precedes(k, i)
  PROVE  Behind(i, c)
  <1>1. c # None => c.created \in Nat /\ c.id \in Nat
    BY KeysAssumption DEF Cursor
  <1> QED BY <1>1, KeyTypes DEF Behind, Precedes

\* What is behind the cursor that names a row comes after that row.
LEMMA BehindRow ==
  ASSUME ListTypeOK, NEW i \in StoredIds, NEW k \in StoredIds
  PROVE  LET c == [created |-> table[k].created, id |-> k]
         IN  c \in Cursor /\ c # None /\ (Behind(i, c) <=> Precedes(k, i))
  <1> DEFINE c == [created |-> table[k].created, id |-> k]
  <1>1. c \in Cursor
    BY KeyTypes DEF Cursor, Row, StoredIds
  <1>2. c # None
    BY <1>1, ListRowsAssumption
  <1>3. c.created = table[k].created /\ c.id = k
    OBVIOUS
  <1> HIDE DEF c
  <1>4. Behind(i, c) <=> Precedes(k, i)
    BY <1>2, <1>3, KeyTypes DEF Behind, Precedes
  <1> QED BY <1>1, <1>2, <1>4 DEF c

LEMMA OrderAsymmetric ==
  ASSUME ListTypeOK, NEW i \in StoredIds, NEW k \in StoredIds, Precedes(k, i)
  PROVE  ~Precedes(i, k)
  BY KeyTypes DEF Precedes

\* The rows of one page: behind the cursor, the first of those, and all of them if
\* there is no page to follow.
LEMMA PageRows ==
  ASSUME ListTypeOK, NEW S \in SUBSET StoredIds, NEW n \in Nat, n > 0,
         NEW fetched, fetched = Top(S, n + 1),
         NEW page, page = (IF Cardinality(fetched) > n THEN Top(fetched, n) ELSE fetched)
  PROVE  /\ page \subseteq S
         /\ Cardinality(fetched) > n => page # {}
         /\ \A i \in S \ page, j \in page : Precedes(j, i)
         /\ ~(Cardinality(fetched) > n) => page = S
  <1>1. fetched \subseteq S /\ page \subseteq fetched
    BY DEF Top
  <1>2. fetched \in SUBSET StoredIds /\ IsFiniteSet(fetched) /\ Cardinality(fetched) \in Nat
    BY <1>1, RowsFinite
  <1>3. Cardinality(fetched) > n => page # {}
    <2> SUFFICES ASSUME Cardinality(fetched) > n PROVE page # {} OBVIOUS
    <2>1. fetched # {}
      BY FS_EmptySet
    <2> QED BY <1>2, <2>1, TopNonEmpty
  <1>4. ~(Cardinality(fetched) > n) => page = S
    BY <1>2, TopAll
  <1>5. ASSUME NEW i \in S \ page, NEW j \in page PROVE Precedes(j, i)
    <2>1. j \in fetched /\ i # j /\ i \in StoredIds /\ j \in StoredIds
      BY <1>1
    <2>2. ASSUME Precedes(i, j) PROVE FALSE
      <3>1. i \in fetched
        BY <2>1, <2>2, TopClosed
      <3>2. CASE Cardinality(fetched) > n
        BY <1>2, <2>2, <3>1, <3>2, TopClosed
      <3>3. CASE ~(Cardinality(fetched) > n)
        BY <3>1, <3>3
      <3> QED BY <3>2, <3>3
    <2> QED BY <2>1, <2>2, OrderTotal
  <1> QED BY <1>1, <1>3, <1>4, <1>5

LEMMA PageSizeRange ==
  ASSUME NEW k \in Int, ~TooLarge(k)
  PROVE  PageSize(k) \in 1 .. maxPageSize /\ PageSize(k) \in Nat /\ PageSize(k) > 0
  BY PageSizeAssumption DEF PageSize, TooLarge

LEMMA PageStep ==
  ASSUME ListInv, NEW l \in Listings, Page(l)
  PROVE  ListInv'
  <1> DEFINE matching == Matching(table, filter[l])
             n == PageSize(size[l])
             S == {i \in matching : Behind(i, cursor[l])}
             fetched == Top(S, n + 1)
             more == Cardinality(fetched) > n
             page == IF more THEN Top(fetched, n) ELSE fetched
             last == CHOOSE i \in page : \A j \in page \ {i} : Precedes(j, i)
             next == [created |-> table[last].created, id |-> last]
  <1>1. /\ pc[l] # "done" /\ ~TooLarge(size[l])
        /\ shown' = [shown EXCEPT ![l] =
             [i \in Ids |-> IF i \in page /\ shown[l][i] < 2 THEN shown[l][i] + 1
                                                             ELSE shown[l][i]]]
        /\ cursor' = [cursor EXCEPT ![l] = IF more THEN next ELSE None]
        /\ pc' = [pc EXCEPT ![l] = IF more THEN "next" ELSE "done"]
        /\ stayed' = [stayed EXCEPT ![l] = IF pc[l] = "first" THEN matching ELSE stayed[l]]
        /\ code' = [code EXCEPT ![l] = "OK"]
        /\ UNCHANGED <<table, used, edits, filter, size>>
    BY DEF Page, storage, asked
  <1>2. ListTypeOK /\ StoredIds \subseteq used /\ \A m \in Listings : ListingInv(m)
    BY Listings1
  <1>3. n \in 1 .. maxPageSize /\ n \in Nat /\ n > 0
    <2>1. size[l] \in Int /\ ~TooLarge(size[l])
      BY <1>1, <1>2, ListFiltersAssumption DEF ListTypeOK
    <2> HIDE DEF matching, S, fetched, more, page, last, next
    <2> QED BY <2>1, PageSizeRange
  <1>4. S \in SUBSET StoredIds /\ matching \subseteq StoredIds /\ StoredIds \subseteq Ids
    BY DEF Matching, Matches, StoredIds
  <1>5. /\ page \subseteq S
        /\ more => page # {}
        /\ \A i \in S \ page, j \in page : Precedes(j, i)
        /\ ~more => page = S
    <2> HIDE DEF n, S
    <2> QED BY <1>2, <1>3, <1>4, PageRows
  <1>6. cursor[l] \in Cursor \cup {None} /\ pc[l] \in {"first", "next"}
    BY <1>1, <1>2 DEF ListTypeOK
  <1> HIDE DEF matching, n, fetched, more, page, last, next
  <1>7. more => last \in page /\ \A j \in page \ {last} : Precedes(j, last)
    <2> SUFFICES ASSUME more PROVE \E i \in page : \A j \in page \ {i} : Precedes(j, i)
      BY DEF last
    <2>1. page \in SUBSET StoredIds /\ page # {}
      BY <1>4, <1>5
    <2> QED BY <1>2, <2>1, LastExists
  <1>8. more => /\ last \in StoredIds /\ next \in Cursor /\ next # None
                /\ \A i \in StoredIds : Behind(i, next) <=> Precedes(last, i)
    BY <1>2, <1>4, <1>5, <1>7, BehindRow DEF next
  \* What is on this page has been on none before.
  <1>9. \A i \in page : shown[l][i] = 0
    <2> SUFFICES ASSUME NEW i \in page PROVE shown[l][i] = 0 OBVIOUS
    <2>1. i \in S /\ i \in StoredIds /\ i \in Ids /\ Behind(i, cursor[l])
      BY <1>4, <1>5
    <2>2. shown[l][i] \in 0 .. 2
      BY <1>2, <2>1 DEF ListTypeOK
    <2>3. CASE pc[l] = "first"
      BY <1>2, <2>1, <2>3 DEF ListingInv
    <2>4. CASE pc[l] = "next"
      BY <1>2, <2>1, <2>2, <2>4 DEF ListingInv, ShownAreBefore
    <2> QED BY <1>6, <2>3, <2>4
  <1>10. /\ shown'[l] = [i \in Ids |-> IF i \in page THEN 1 ELSE shown[l][i]]
         /\ cursor'[l] = IF more THEN next ELSE None
         /\ pc'[l] = IF more THEN "next" ELSE "done"
         /\ stayed'[l] = IF pc[l] = "first" THEN matching ELSE stayed[l]
         /\ code'[l] = "OK"
    <2>1. \A i \in Ids : (IF i \in page /\ shown[l][i] < 2 THEN shown[l][i] + 1 ELSE shown[l][i])
                        = (IF i \in page THEN 1 ELSE shown[l][i])
      BY <1>9
    <2> QED BY <1>1, <1>2, <2>1 DEF ListTypeOK
  <1>11. \A m \in Listings \ {l} :
           /\ shown'[m] = shown[m] /\ cursor'[m] = cursor[m] /\ pc'[m] = pc[m]
           /\ stayed'[m] = stayed[m] /\ code'[m] = code[m]
    BY <1>1, <1>2 DEF ListTypeOK
  <1>12. ListTypeOK'
    <2>1. shown'[l] \in [Ids -> 0 .. 2]
      BY <1>2, <1>10 DEF ListTypeOK
    <2>2. shown' \in [Listings -> [Ids -> 0 .. 2]]
      BY <1>1, <1>2, <2>1 DEF ListTypeOK
    <2>3. cursor' \in [Listings -> Cursor \cup {None}]
      BY <1>1, <1>2, <1>8 DEF ListTypeOK
    <2>4. stayed' \in [Listings -> SUBSET Ids]
      BY <1>1, <1>2, <1>4 DEF ListTypeOK
    <2>5. pc' \in [Listings -> {"first", "next", "done"}]
      BY <1>1, <1>2 DEF ListTypeOK
    <2>6. \A m \in Listings, i \in Ids :
            shown'[m][i] > 0 => PageSize(size'[m]) \in 1 .. maxPageSize
      BY <1>1, <1>2, <1>3, <1>11 DEF ListTypeOK, n
    <2> QED BY <1>1, <1>2, <2>2, <2>3, <2>4, <2>5, <2>6 DEF ListTypeOK, PageSize
  <1>13. (StoredIds \subseteq used)'
    BY <1>1, <1>2 DEF StoredIds
  \* What stayed since the first page is on a page or behind the cursor.
  <1>14. /\ stayed'[l] \subseteq matching
         /\ \A i \in stayed'[l] : shown[l][i] > 0 \/ i \in S
    BY <1>2, <1>4, <1>6, <1>10 DEF ListingInv, Behind, matching
  <1>15. ListingInv(l)'
    <2>1. CASE more
      <3>1. pc'[l] = "next" /\ cursor'[l] = next /\ next # None
        BY <1>8, <1>10, <2>1
      <3>2. \A i \in StoredIds : Behind(i, cursor[l])' <=> Precedes(last, i)
        BY <1>1, <1>8, <2>1, <3>1 DEF Behind
      <3>3. ASSUME NEW i \in Ids, shown'[l][i] > 0
            PROVE  i \in used /\ (i \in StoredIds => ~Precedes(last, i))
        <4>1. CASE i \in page
          BY <1>2, <1>4, <1>5, <1>7, <2>1, <4>1, OrderIrreflexive, OrderAsymmetric
        <4>2. CASE i \notin page
          <5>1. shown[l][i] > 0
            BY <1>10, <3>3, <4>2
          <5>2. pc[l] = "next"
            BY <1>2, <1>6, <5>1 DEF ListingInv
          <5>3. i \in used /\ (i \in StoredIds => ~Behind(i, cursor[l]))
            BY <1>2, <5>1, <5>2 DEF ListingInv, ShownAreBefore
          <5>4. Behind(last, cursor[l]) /\ last \in StoredIds
            BY <1>5, <1>7, <1>8, <2>1
          <5> QED BY <1>2, <1>6, <5>3, <5>4, BehindClosed
        <4> QED BY <4>1, <4>2
      <3>4. ShownAreBefore(l)'
        BY <1>1, <3>2, <3>3 DEF ShownAreBefore, StoredIds
      <3>5. ASSUME NEW i \in stayed'[l] PROVE shown'[l][i] > 0 \/ Behind(i, cursor[l])'
        <4>1. i \in StoredIds /\ i \in Ids
          BY <1>4, <1>14
        <4>2. i \in page \/ shown[l][i] > 0 => shown'[l][i] > 0
          BY <1>10, <4>1
        <4>3. i \in S \ page => Precedes(last, i)
          BY <1>5, <1>7, <2>1
        <4> QED BY <1>14, <3>2, <4>1, <4>2, <4>3
      <3>6. \A i \in Ids : shown'[l][i] # 2
        BY <1>2, <1>10 DEF ListingInv
      <3>7. stayed'[l] \subseteq Matching(table', filter'[l])
        BY <1>1, <1>14 DEF matching
      <3> QED BY <3>1, <3>4, <3>5, <3>6, <3>7 DEF ListingInv
    <2>2. CASE ~more
      <3>1. pc'[l] = "done"
        BY <1>10, <2>2
      <3>2. \A i \in Ids : shown'[l][i] # 2
        BY <1>2, <1>10 DEF ListingInv
      <3>3. \A i \in stayed'[l] : shown'[l][i] > 0
        BY <1>4, <1>5, <1>10, <1>14, <2>2
      <3> QED BY <3>1, <3>2, <3>3 DEF ListingInv
    <2> QED BY <2>1, <2>2
  <1>16. ASSUME NEW m \in Listings PROVE ListingInv(m)'
    BY <1>1, <1>2, <1>11, <1>15, ListingFrame
  <1> QED BY <1>12, <1>13, <1>16, Listings2

\* A page that is not the last has a last row, and that row is behind the cursor.
LEMMA PageMovesOn ==
  ASSUME ListInv, NEW l \in Listings, Page(l), pc[l] = "next", pc'[l] = "next"
  PROVE  Older(cursor'[l], cursor[l])
  <1> DEFINE n == PageSize(size[l])
             S == {i \in Matching(table, filter[l]) : Behind(i, cursor[l])}
             fetched == Top(S, n + 1)
             more == Cardinality(fetched) > n
             page == IF more THEN Top(fetched, n) ELSE fetched
             last == CHOOSE i \in page : \A j \in page \ {i} : Precedes(j, i)
  <1>1. /\ ~TooLarge(size[l])
        /\ cursor' = [cursor EXCEPT ![l] =
             IF more THEN [created |-> table[last].created, id |-> last] ELSE None]
        /\ pc' = [pc EXCEPT ![l] = IF more THEN "next" ELSE "done"]
    BY DEF Page
  <1>2. ListTypeOK /\ ListingInv(l)
    BY Listings1
  <1>3. n \in Nat /\ n > 0
    <2>1. size[l] \in Int
      BY <1>2, ListFiltersAssumption DEF ListTypeOK
    <2> HIDE DEF fetched, more, page, last
    <2> QED BY <1>1, <2>1, PageSizeRange
  <1>4. S \in SUBSET StoredIds
    BY DEF Matching, Matches, StoredIds
  <1>5. page \subseteq S /\ (more => page # {})
    <2> HIDE DEF n, S
    <2> QED BY <1>2, <1>3, <1>4, PageRows
  <1> HIDE DEF n, fetched, more, page, last
  <1>6. more
    BY <1>1, <1>2 DEF ListTypeOK
  <1>7. last \in page
    <2>1. page \in SUBSET StoredIds /\ page # {}
      BY <1>4, <1>5, <1>6
    <2>2. \E i \in page : \A j \in page \ {i} : Precedes(j, i)
      BY <1>2, <2>1, LastExists
    <2> QED BY <2>2 DEF last
  <1>8. Behind(last, cursor[l]) /\ cursor[l] # None
    BY <1>2, <1>5, <1>7 DEF ListingInv
  <1>9. cursor'[l] = [created |-> table[last].created, id |-> last]
    BY <1>1, <1>2, <1>6 DEF ListTypeOK
  <1> QED BY <1>8, <1>9 DEF Behind, Older

(***************************************************************************)
(* The theorems.                                                           *)
(***************************************************************************)
LEMMA StepList == ListInv /\ [Next]_vars => ListInv'
  <1> SUFFICES ASSUME ListInv, [Next]_vars PROVE ListInv' OBVIOUS
  <1>1. CASE UNCHANGED vars
    BY <1>1 DEF vars, storage, asked, ListInv, ListTypeOK, StoredIds, ShownAreBefore, Behind,
                NoRowTwice, StayedListed, NothingSkipped
  <1>2. ASSUME NEW l \in Listings, Client(l) \/ RefuseToken(l) \/ PageFails(l)
        PROVE  ListInv'
    <2>1. CASE RefuseArguments(l)
      BY <2>1, CodeOf, RefusedStep DEF RefuseArguments
    <2>2. CASE Page(l)
      BY <2>2, PageStep
    <2>3. CASE RefuseToken(l)
      BY <2>3, CodeOf, RefusedStep DEF RefuseToken
    <2>4. CASE PageFails(l)
      BY <2>4, PageFailsStep
    <2> QED BY <1>2, <2>1, <2>2, <2>3, <2>4 DEF Client
  <1>3. CASE Maintain
    BY <1>3, MaintainStep
  <1> QED BY <1>1, <1>2, <1>3 DEF Next, Terminated

THEOREM ListSafety == Spec => []ListInv
  BY InitList, StepList, PTL DEF Spec

\* The lists keep the types of their variables, and no page is longer than allowed.
THEOREM ListTypeCorrect == Spec => []ListTypeOK
  <1>1. ListInv => ListTypeOK
    BY DEF ListInv
  <1> QED BY <1>1, ListSafety, PTL

\* However the table changes between two pages, no row is listed twice.
THEOREM NothingTwice == Spec => []NoRowTwice
  <1>1. ListInv => NoRowTwice
    BY DEF ListInv
  <1> QED BY <1>1, ListSafety, PTL

\* A row that matches from the first page to the last is listed.
THEOREM StayersListed == Spec => []StayedListed
  <1>1. ListInv => StayedListed
    BY DEF ListInv
  <1> QED BY <1>1, ListSafety, PTL

\* At every page, what stayed has been listed or is still ahead of the cursor.
THEOREM NothingPassedBy == Spec => []NothingSkipped
  <1>1. ListInv => NothingSkipped
    BY DEF ListInv
  <1> QED BY <1>1, ListSafety, PTL

\* Page tokens lead ever further down the order, so no listing goes round in circles,
\* however often the table changes.
THEOREM TokensMoveOn == Spec => PagesMoveOn
  <1>1. ListInv /\ [Next]_vars =>
          [\A l \in Listings : Page(l) /\ pc[l] = "next" /\ pc'[l] = "next" =>
             Older(cursor'[l], cursor[l])]_vars
    BY PageMovesOn
  <1> QED BY <1>1, ListSafety, PTL DEF Spec, PagesMoveOn
=============================================================================
