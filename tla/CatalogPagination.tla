-------------------------- MODULE CatalogPagination --------------------------
(***************************************************************************)
(* The list RPCs of the catalog-service: ListProducts, ListCategories and  *)
(* ListProductAttributeDefinitions.  A client reads a list page by page;   *)
(* each page is one SELECT behind the cursor in its page token, and other  *)
(* programs insert, change and delete rows between two pages.  The service *)
(* keeps nothing: the cursor names the last row of the page before.        *)
(***************************************************************************)
EXTENDS Integers, FiniteSets, CatalogTypes

CONSTANTS
  Listings,          \* clients reading a list
  Ids,               \* product, category or attribute ids, in their order
  Categories,        \* category ids
  Times,             \* values of created_at
  TableRows,         \* rows other programs may store
  Filters,           \* what the clients ask for
  Sizes,             \* page sizes they ask for
  defaultPageSize,   \* 20 in the code
  maxPageSize,       \* 100 in the code
  MaxEdits,          \* bound: how often other programs change the table
  None               \* no row, no parent category, no cursor

Kinds == {"products", "categories", "definitions"}

Row == [category : Categories \cup {None}, active : BOOLEAN, filterable : BOOLEAN,
        created : Times]

Filter == [kind : Kinds, category : Categories \cup {""}, includeInactive : BOOLEAN,
           filterableOnly : BOOLEAN]

Cursor == [created : Times, id : Ids]

ASSUME KeysAssumption == Ids \subseteq Nat /\ Times \subseteq Nat

ASSUME ListRowsAssumption == TableRows \subseteq Row /\ None \notin Row \cup Cursor

ASSUME ListFiltersAssumption == Filters \subseteq Filter /\ Sizes \subseteq Int

ASSUME TableAssumption == IsFiniteSet(Ids) /\ MaxEdits \in Nat

ASSUME PageSizeAssumption ==
  /\ maxPageSize \in Nat
  /\ defaultPageSize \in 1 .. maxPageSize

VARIABLES
  table,    \* id -> row, None where there is none
  used,     \* ids that have ever been stored; they are not used again
  edits,    \* how often the table has been changed
  filter,   \* listing -> its filter
  size,     \* listing -> the page size it asks for
  pc,       \* listing -> "first", "next" or "done"
  cursor,   \* listing -> the cursor in its page token, or None
  shown,    \* listing -> id -> 0, 1 or 2: not listed, once, more often
  code,     \* listing -> gRPC code of the answer to its last page
  stayed    \* history: listing -> ids that matched ever since its first page

storage == <<table, used, edits>>
asked == <<filter, size>>
vars == <<storage, asked, pc, cursor, shown, code, stayed>>

(***************************************************************************)
(* The WHERE clauses.  Only the two lists that need no category read a     *)
(* missing one as any.                                                     *)
(***************************************************************************)
Matches(f, row) ==
  /\ row # None
  /\ row.active \/ f.includeInactive
  /\ \/ f.kind # "definitions" /\ f.category = ""
     \/ row.category = f.category
  /\ f.kind = "definitions" /\ f.filterableOnly => row.filterable

Matching(tab, f) == {i \in Ids : Matches(f, tab[i])}

\* Wrong on purpose: the row the cursor names is listed again.
BehindInclusive(i, c) ==
  \/ c = None
  \/ table[i].created < c.created
  \/ table[i].created = c.created /\ i <= c.id

\* Wrong on purpose: rows created in the same microsecond are not told apart.
BehindNoTieBreak(i, c) == c = None \/ table[i].created < c.created

Behind(i, c) ==
  \/ c = None
  \/ table[i].created < c.created
  \/ table[i].created = c.created /\ i < c.id

\* ORDER BY created_at DESC, id DESC.
Precedes(i, j) ==
  \/ table[i].created > table[j].created
  \/ table[i].created = table[j].created /\ i > j

\* ... LIMIT n.
Top(rows, n) == {i \in rows : Cardinality({j \in rows : Precedes(j, i)}) < n}

\* normalisePageSize, of a size that is not too large.
PageSize(n) == IF n <= 0 THEN defaultPageSize ELSE n

\* Wrong on purpose: no limit.
TooLargeNever(n) == FALSE

TooLarge(n) == n > maxPageSize

Init ==
  /\ table \in [Ids -> TableRows \cup {None}]
  /\ used = {i \in Ids : table[i] # None}
  /\ edits = 0
  /\ filter \in [Listings -> Filters]
  /\ size \in [Listings -> Sizes]
  /\ pc = [l \in Listings |-> "first"]
  /\ cursor = [l \in Listings |-> None]
  /\ shown = [l \in Listings |-> [i \in Ids |-> 0]]
  /\ code = [l \in Listings |-> "OK"]
  /\ stayed = [l \in Listings |-> {}]

Refused(l, c) ==
  /\ pc' = [pc EXCEPT ![l] = "done"]
  /\ code' = [code EXCEPT ![l] = c]
  /\ UNCHANGED <<storage, asked, cursor, shown, stayed>>

MissingCategory(f) == f.kind = "definitions" /\ f.category = ""

\* Bad arguments are answered before the table is read.
RefuseArguments(l) ==
  /\ pc[l] = "first"
  /\ \/ MissingCategory(filter[l]) /\ Refused(l, "InvalidArgument")
     \/ /\ ~MissingCategory(filter[l])
        /\ TooLarge(size[l])
        /\ Refused(l, CatalogCode("ErrInvalidPageSize"))

\* A token that cannot be decoded: the decoder's own error is wrapped.
RefuseToken(l) ==
  /\ pc[l] # "done"
  /\ ~MissingCategory(filter[l]) /\ ~TooLarge(size[l])
  /\ Refused(l, CatalogCode("decode cursor"))

(***************************************************************************)
(* One page: the rows behind the cursor, one more than fit to see whether  *)
(* there are more, and a token for the next page if there are.             *)
(***************************************************************************)
Page(l) ==
  LET matching == Matching(table, filter[l])
      n == PageSize(size[l])
      fetched == Top({i \in matching : Behind(i, cursor[l])}, n + 1)
      more == Cardinality(fetched) > n
      page == IF more THEN Top(fetched, n) ELSE fetched
      last == CHOOSE i \in page : \A j \in page \ {i} : Precedes(j, i)
  IN
  /\ pc[l] # "done"
  /\ ~MissingCategory(filter[l]) /\ ~TooLarge(size[l])
  /\ shown' = [shown EXCEPT ![l] =
       [i \in Ids |-> IF i \in page /\ shown[l][i] < 2 THEN shown[l][i] + 1
                                                       ELSE shown[l][i]]]
  /\ cursor' = [cursor EXCEPT ![l] =
       IF more THEN [created |-> table[last].created, id |-> last] ELSE None]
  /\ pc' = [pc EXCEPT ![l] = IF more THEN "next" ELSE "done"]
  /\ stayed' = [stayed EXCEPT ![l] = IF pc[l] = "first" THEN matching ELSE stayed[l]]
  /\ code' = [code EXCEPT ![l] = "OK"]
  /\ UNCHANGED <<storage, asked>>

\* The query fails; the client asks for the page again, or gives up.
PageFails(l) ==
  /\ pc[l] # "done"
  /\ ~MissingCategory(filter[l]) /\ ~TooLarge(size[l])
  /\ code' = [code EXCEPT ![l] = CatalogCode("query failed")]
  /\ \E step \in {pc[l], "done"} : pc' = [pc EXCEPT ![l] = step]
  /\ UNCHANGED <<storage, asked, cursor, shown, stayed>>

(***************************************************************************)
(* Another program inserts, changes or deletes a row.  created_at is set   *)
(* once, at any time: a transaction that commits late stores an older one. *)
(***************************************************************************)
Maintain ==
  /\ edits < MaxEdits
  /\ \E l \in Listings : pc[l] = "next"
  /\ \E i \in Ids, row \in TableRows \cup {None} :
       /\ row # table[i]
       /\ table[i] = None => i \notin used
       /\ table[i] # None /\ row # None => row.created = table[i].created
       /\ table' = [table EXCEPT ![i] = row]
       /\ used' = used \cup {i}
  /\ edits' = edits + 1
  /\ stayed' = [l \in Listings |->
       IF pc[l] = "next" THEN stayed[l] \cap Matching(table', filter[l]) ELSE stayed[l]]
  /\ UNCHANGED <<asked, pc, cursor, shown, code>>

Client(l) == RefuseArguments(l) \/ Page(l)

Terminated == (\A l \in Listings : pc[l] = "done") /\ UNCHANGED vars

Next ==
  \/ \E l \in Listings : Client(l) \/ RefuseToken(l) \/ PageFails(l)
  \/ Maintain
  \/ Terminated

Spec == Init /\ [][Next]_vars

\* A client that goes on reading is answered.
FairSpec == Spec /\ \A l \in Listings : WF_vars(Client(l))

(***************************************************************************)
(* Properties.                                                             *)
(***************************************************************************)
\* The types of the variables; a client that was shown a row had asked for a page
\* of at most maxPageSize rows.
ListTypeOK ==
  /\ table \in [Ids -> TableRows \cup {None}]
  /\ used \subseteq Ids
  /\ edits \in 0 .. MaxEdits
  /\ filter \in [Listings -> Filters]
  /\ size \in [Listings -> Sizes]
  /\ pc \in [Listings -> {"first", "next", "done"}]
  /\ cursor \in [Listings -> Cursor \cup {None}]
  /\ shown \in [Listings -> [Ids -> 0 .. 2]]
  /\ code \in [Listings -> {"OK", "InvalidArgument", "Internal"}]
  /\ stayed \in [Listings -> SUBSET Ids]
  /\ \A l \in Listings, i \in Ids :
       shown[l][i] > 0 => PageSize(size[l]) \in 1 .. maxPageSize

\* No row is listed twice, whatever is stored between two pages.
NoRowTwice == \A l \in Listings, i \in Ids : shown[l][i] # 2

\* A row that matched from the first page to the last is listed, although rows
\* around it, and the one the cursor names, came and went.
StayedListed ==
  \A l \in Listings : pc[l] = "done" /\ code[l] = "OK" =>
    \A i \in stayed[l] : shown[l][i] > 0

\* Nothing that was passed by is left for later: what still matches ahead of the
\* cursor has been listed or was not there when its page was read.
NothingSkipped ==
  \A l \in Listings : pc[l] = "next" =>
    \A i \in stayed[l] : shown[l][i] > 0 \/ Behind(i, cursor[l])

\* Reading on, page after page, comes to an end.
EveryListingEnds == \A l \in Listings : pc[l] = "next" ~> pc[l] = "done"

Older(c, d) == c.created < d.created \/ (c.created = d.created /\ c.id < d.id)

\* Every page but the last leaves the client with a cursor that is strictly further
\* down the order: whatever is stored meanwhile, no token leads in a circle.
PagesMoveOn ==
  [][\A l \in Listings : Page(l) /\ pc[l] = "next" /\ pc'[l] = "next" =>
       Older(cursor'[l], cursor[l])]_vars

\* errors.go maps an invalid page token to InvalidArgument.
BadTokenRefused ==
  [][\A l \in Listings : RefuseToken(l) => code'[l] = "InvalidArgument"]_vars

(***************************************************************************)
(* The inductive invariant of the proofs.                                  *)
(***************************************************************************)
StoredIds == {i \in Ids : table[i] # None}

\* What a listing has shown lies before its cursor, or is gone for good.
ShownAreBefore(l) ==
  \A i \in Ids : shown[l][i] > 0 => i \in used /\ (i \in StoredIds => ~Behind(i, cursor[l]))

ListInv ==
  /\ ListTypeOK
  /\ StoredIds \subseteq used
  /\ \A l \in Listings :
       /\ pc[l] = "first" => cursor[l] = None /\ \A i \in Ids : shown[l][i] = 0
       /\ pc[l] = "next" => /\ cursor[l] # None
                           /\ stayed[l] \subseteq Matching(table, filter[l])
                           /\ ShownAreBefore(l)
  /\ NoRowTwice
  /\ StayedListed
  /\ NothingSkipped
=============================================================================
