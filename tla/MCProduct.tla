------------------------------ MODULE MCProduct ------------------------------
(* A small instance of CatalogProduct for TLC: two full products and every    *)
(* catalog that differs from one of them in one respect.                      *)
EXTENDS ProductProperties

CONSTANTS k1, k2, v1, v2, i1, i2

Defined(k, t) == [category |-> k, created |-> t]

Of(a, v) == [attribute |-> a, variant |-> v, filled |-> TRUE]

\* Attributes 1 and 2 are the category's; 2 and 3 are as old as each other.
OldDefinitions == <<Defined(k1, 1), Defined(k1, 2), Defined(k2, 2)>>

NoVariants == [v \in Variants |-> None]

Plain == [category |-> k1, status |-> "active",
          variants |-> [NoVariants EXCEPT ![v1] = "active"],
          values |-> {Of(1, None), Of(2, v1)}, images |-> {i1},
          definitions |-> OldDefinitions]

Rich == [category |-> k1, status |-> "draft",
         variants |-> [v \in Variants |-> IF v = v1 THEN "archived" ELSE "active"],
         values |-> {Of(2, None), Of(2, v1), Of(2, v2)}, images |-> {i1, i2},
         definitions |-> [OldDefinitions EXCEPT ![3] = Defined(k1, 2)]]

Absent == [Plain EXCEPT !.category = None, !.variants = NoVariants, !.values = {},
                        !.images = {}]

Variations(c) ==
  {[c EXCEPT !.category = k2], [c EXCEPT !.status = "inactive"],
   [c EXCEPT !.variants = NoVariants], [c EXCEPT !.variants[v2] = "draft"],
   [c EXCEPT !.values = {}], [c EXCEPT !.values = @ \cup {Of(1, v2)}],
   [c EXCEPT !.values = @ \cup {Of(3, None)}],
   [c EXCEPT !.values = @ \cup {[Of(2, v2) EXCEPT !.filled = FALSE]}],
   [c EXCEPT !.images = {i2}],
   [c EXCEPT !.definitions = [OldDefinitions EXCEPT ![3] = Defined(k1, 2)]],
   [c EXCEPT !.definitions = OldDefinitions]}

SomeCatalogs ==
  {Absent, Plain, Rich} \cup Variations(Plain) \cup Variations(Rich)
=============================================================================
