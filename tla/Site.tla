---------------------------------- MODULE Site ----------------------------------
(***************************************************************************)
(* A paginated public listing, as the collectors meet it: items in the     *)
(* order the site shows them, PageSize to a page, changing whenever it     *)
(* likes.  (External: the university's web sites.)                         *)
(***************************************************************************)
EXTENDS Integers, Sequences, FiniteSets

CONSTANTS
  Item,       \* the things the site may list
  PageSize

ASSUME FiniteItemAssumption == IsFiniteSet(Item)
ASSUME PageSizeAssumption == PageSize \in Nat \ {0}

Shown(items) == {items[i] : i \in DOMAIN items}

\* Listings of at most n items, none of them twice.
Sites(n) ==
  UNION {{s \in [1..k -> Item] : \A i, j \in 1..k : s[i] = s[j] => i = j} : k \in 0..n}

\* The items of a page that are in S, in the order the page shows them.
Filtered(items, S) ==
  LET kept == {k \in DOMAIN items : items[k] \in S}
      Rank(k) == Cardinality({j \in kept : j <= k})
  IN [n \in 1..Cardinality(kept) |-> items[CHOOSE k \in kept : Rank(k) = n]]

\* The k-th page, counted from 0.
Page(items, k) ==
  LET last == (k + 1) * PageSize
  IN SubSeq(items, k * PageSize + 1, IF last < Len(items) THEN last ELSE Len(items))

\* x arrives behind the first i items.
Inserted(items, i, x) == SubSeq(items, 1, i) \o <<x>> \o SubSeq(items, i + 1, Len(items))

Arrivals(items) ==
  {Inserted(items, i, x) : i \in 0..Len(items), x \in Item \ Shown(items)}

Departures(items) ==
  {SubSeq(items, 1, i - 1) \o SubSeq(items, i + 1, Len(items)) : i \in 1..Len(items)}
=================================================================================
