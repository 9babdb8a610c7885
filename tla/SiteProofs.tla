------------------------------- MODULE SiteProofs -------------------------------
(***************************************************************************)
(* Lemmas about the paginated listing of Site: what a page and a filtered  *)
(* page contain, and what an arrival and a departure do to the first n     *)
(* places of the listing.  The proofs about the collectors rest on them.   *)
(***************************************************************************)
EXTENDS Site, FiniteSetTheorems, SequenceTheorems, TLAPS

\* No item is listed twice.
Distinct(items) == \A i, j \in DOMAIN items : items[i] = items[j] => i = j

\* What the first n places of the listing show.
FirstPlaces(items, n) == {items[i] : i \in {j \in DOMAIN items : j <= n}}

(***************************************************************************)
(* Sequences and what they show.                                           *)
(***************************************************************************)
LEMMA ShownInRange ==
  ASSUME NEW S, NEW items \in Seq(S)
  PROVE  Shown(items) \subseteq S
  BY LenProperties DEF Shown

\* A listing shows at most as many things as it has places, and as many if
\* nothing is listed twice.
LEMMA ShownCount ==
  ASSUME NEW S, NEW items \in Seq(S)
  PROVE  /\ IsFiniteSet(Shown(items))
         /\ Cardinality(Shown(items)) \in Nat
         /\ Cardinality(Shown(items)) <= Len(items)
         /\ Distinct(items) => Cardinality(Shown(items)) = Len(items)
  <1>1. /\ Len(items) \in Nat /\ items \in [1..Len(items) -> S]
        /\ DOMAIN items = 1..Len(items)
    BY LenProperties
  <1>2. IsFiniteSet(1..Len(items)) /\ Cardinality(1..Len(items)) = Len(items)
    BY <1>1, FS_Interval
  <1>3. items \in Surjection(1..Len(items), Shown(items))
    BY <1>1 DEF Surjection, Shown
  <1>4. /\ IsFiniteSet(Shown(items))
        /\ Cardinality(Shown(items)) <= Cardinality(1..Len(items))
        /\ Cardinality(Shown(items)) = Cardinality(1..Len(items)) <=>
             items \in Injection(1..Len(items), Shown(items))
    BY <1>2, <1>3, FS_Surjection
  <1>5. ASSUME Distinct(items) PROVE items \in Injection(1..Len(items), Shown(items))
    BY <1>1, <1>3, <1>5 DEF Injection, IsInjective, Surjection, Distinct
  <1> QED BY <1>2, <1>4, <1>5, FS_CardinalityType

LEMMA ConcatShown ==
  ASSUME NEW S, NEW s \in Seq(S), NEW t \in Seq(S)
  PROVE  /\ Shown(s \o t) = Shown(s) \cup Shown(t)
         /\ Distinct(s) /\ Distinct(t) /\ Shown(s) \cap Shown(t) = {} => Distinct(s \o t)
  <1>1. /\ Len(s) \in Nat /\ Len(t) \in Nat
        /\ DOMAIN s = 1..Len(s) /\ DOMAIN t = 1..Len(t)
    BY LenProperties
  <1>2. /\ s \o t \in Seq(S) /\ Len(s \o t) = Len(s) + Len(t)
        /\ \A i \in 1..Len(s) + Len(t) :
             (s \o t)[i] = IF i <= Len(s) THEN s[i] ELSE t[i - Len(s)]
    BY ConcatProperties
  <1>3. DOMAIN (s \o t) = 1..Len(s) + Len(t)
    BY <1>2, LenProperties
  <1> HIDE DEF Distinct
  <1>4. Shown(s \o t) \subseteq Shown(s) \cup Shown(t)
    <2> SUFFICES ASSUME NEW i \in 1..Len(s) + Len(t)
                 PROVE  (s \o t)[i] \in Shown(s) \cup Shown(t)
      BY <1>3 DEF Shown
    <2>1. CASE i <= Len(s)
      BY <1>1, <1>2, <2>1 DEF Shown
    <2>2. CASE ~(i <= Len(s))
      <3>1. i - Len(s) \in DOMAIN t
        BY <1>1, <2>2
      <3> QED BY <1>2, <2>2, <3>1 DEF Shown
    <2> QED BY <2>1, <2>2
  <1>5. Shown(s) \subseteq Shown(s \o t)
    <2> SUFFICES ASSUME NEW i \in 1..Len(s) PROVE s[i] \in Shown(s \o t)
      BY <1>1 DEF Shown
    <2>1. i \in 1..Len(s) + Len(t) /\ (s \o t)[i] = s[i]
      BY <1>1, <1>2
    <2> QED BY <1>3, <2>1 DEF Shown
  <1>6. Shown(t) \subseteq Shown(s \o t)
    <2> SUFFICES ASSUME NEW i \in 1..Len(t) PROVE t[i] \in Shown(s \o t)
      BY <1>1 DEF Shown
    <2>1. i + Len(s) \in 1..Len(s) + Len(t) /\ (s \o t)[i + Len(s)] = t[i]
      BY <1>1, <1>2
    <2> QED BY <1>3, <2>1 DEF Shown
  <1>7. ASSUME Distinct(s), Distinct(t), Shown(s) \cap Shown(t) = {},
               NEW i \in 1..Len(s) + Len(t), NEW j \in 1..Len(s) + Len(t),
               (s \o t)[i] = (s \o t)[j]
        PROVE  i = j
    <2>1. CASE i <= Len(s) /\ j <= Len(s)
      <3>1. i \in DOMAIN s /\ j \in DOMAIN s /\ s[i] = s[j]
        BY <1>1, <1>2, <1>7, <2>1
      <3> QED BY <1>7, <3>1 DEF Distinct
    <2>2. CASE i <= Len(s) /\ ~(j <= Len(s))
      <3>1. i \in DOMAIN s /\ j - Len(s) \in DOMAIN t /\ s[i] = t[j - Len(s)]
        BY <1>1, <1>2, <1>7, <2>2
      <3> QED BY <1>7, <3>1 DEF Shown
    <2>3. CASE ~(i <= Len(s)) /\ j <= Len(s)
      <3>1. j \in DOMAIN s /\ i - Len(s) \in DOMAIN t /\ s[j] = t[i - Len(s)]
        BY <1>1, <1>2, <1>7, <2>3
      <3> QED BY <1>7, <3>1 DEF Shown
    <2>4. CASE ~(i <= Len(s)) /\ ~(j <= Len(s))
      <3>1. i - Len(s) \in DOMAIN t /\ j - Len(s) \in DOMAIN t /\ t[i - Len(s)] = t[j - Len(s)]
        BY <1>1, <1>2, <1>7, <2>4
      <3>2. i - Len(s) = j - Len(s)
        BY <1>7, <3>1 DEF Distinct
      <3> QED BY <1>1, <3>2
    <2> QED BY <1>1, <2>1, <2>2, <2>3, <2>4
  <1>8. Distinct(s) /\ Distinct(t) /\ Shown(s) \cap Shown(t) = {} => Distinct(s \o t)
    BY <1>3, <1>7 DEF Distinct
  <1> QED BY <1>4, <1>5, <1>6, <1>8

(***************************************************************************)
(* A filtered page.                                                        *)
(***************************************************************************)
\* Filtered keeps exactly the items in S, as many as there are places with one.
LEMMA FilteredFacts ==
  ASSUME NEW T, NEW items \in Seq(T), NEW S
  PROVE  /\ Filtered(items, S) \in Seq(T \cap S)
         /\ Shown(Filtered(items, S)) = Shown(items) \cap S
         /\ Len(Filtered(items, S)) <= Len(items)
         /\ Distinct(items) => Distinct(Filtered(items, S))
  <1> DEFINE kept == {k \in DOMAIN items : items[k] \in S}
             upto(k) == {j \in kept : j <= k}
             rank == [k \in kept |-> Cardinality(upto(k))]
             size == Cardinality(kept)
             place(n) == CHOOSE k \in kept : Cardinality(upto(k)) = n
  <1>1. /\ Len(items) \in Nat /\ items \in [1..Len(items) -> T]
        /\ DOMAIN items = 1..Len(items)
    BY LenProperties
  <1>2. IsFiniteSet(1..Len(items)) /\ Cardinality(1..Len(items)) = Len(items)
    BY <1>1, FS_Interval
  <1>3. kept \in SUBSET (1..Len(items))
    BY <1>1
  <1>4. IsFiniteSet(kept) /\ size \in Nat /\ size <= Len(items)
    BY <1>2, <1>3, FS_Subset, FS_CardinalityType
  <1>5. ASSUME NEW k \in kept
        PROVE  /\ upto(k) \in SUBSET kept /\ k \in upto(k)
               /\ IsFiniteSet(upto(k))
               /\ Cardinality(upto(k)) \in 1..size
    <2>1. upto(k) \in SUBSET kept /\ k \in upto(k)
      BY <1>3
    <2>2. IsFiniteSet(upto(k)) /\ Cardinality(upto(k)) <= size
      BY <1>4, <2>1, FS_Subset
    <2>3. Cardinality(upto(k)) \in Nat /\ Cardinality(upto(k)) # 0
      BY <2>1, <2>2, FS_CardinalityType, FS_EmptySet
    <2> QED BY <1>4, <2>1, <2>2, <2>3
  <1>6. ASSUME NEW k \in kept, NEW l \in kept, k < l
        PROVE  Cardinality(upto(k)) # Cardinality(upto(l))
    <2>1. upto(k) \in SUBSET upto(l) /\ l \in upto(l) /\ l \notin upto(k)
      BY <1>3, <1>6
    <2> QED BY <1>5, <2>1, FS_Subset
  <1>7. rank \in Injection(kept, 1..size)
    <2>1. rank \in [kept -> 1..size]
      BY <1>5
    <2>2. ASSUME NEW k \in kept, NEW l \in kept, rank[k] = rank[l] PROVE k = l
      <3>1. Cardinality(upto(k)) = Cardinality(upto(l))
        BY <2>2
      <3>2. ~(k < l) /\ ~(l < k)
        BY <1>6, <3>1
      <3>3. k \in Int /\ l \in Int
        BY <1>1
      <3> QED BY <3>2, <3>3
    <2> HIDE DEF rank, size
    <2> QED BY <2>1, <2>2 DEF Injection, IsInjective
  <1>8. IsFiniteSet(1..size) /\ Cardinality(1..size) = size
    BY <1>4, FS_Interval
  <1>9. rank \in Surjection(kept, 1..size)
    <2> HIDE DEF rank, kept, size
    <2> SUFFICES Cardinality(kept) = Cardinality(1..size)
      BY <1>7, <1>8, FS_Injection
    <2> QED BY <1>8 DEF size
  <1>10. ASSUME NEW n \in 1..size
         PROVE  place(n) \in kept /\ rank[place(n)] = n
    <2>1. \E k \in kept : rank[k] = n
      BY <1>9 DEF Surjection
    <2> QED BY <2>1
  <1>11. Filtered(items, S) = [n \in 1..size |-> items[place(n)]]
    BY DEF Filtered
  <1> HIDE DEF rank, place
  <1>12. ASSUME NEW n \in 1..size PROVE items[place(n)] \in T \cap S
    BY <1>1, <1>10
  <1>13. Filtered(items, S) \in [1..size -> T \cap S]
    BY <1>11, <1>12
  <1> HIDE DEF size
  <1>14. Filtered(items, S) \in Seq(T \cap S)
    BY <1>4, <1>13, SeqDef
  <1>15. Len(Filtered(items, S)) = size /\ DOMAIN Filtered(items, S) = 1..size
    BY <1>4, <1>13, <1>14, LenProperties
  <1>16. Shown(Filtered(items, S)) \subseteq Shown(items) \cap S
    <2> SUFFICES ASSUME NEW n \in 1..size
                 PROVE  Filtered(items, S)[n] \in Shown(items) \cap S
      BY <1>15 DEF Shown
    <2> QED BY <1>10, <1>11, <1>12 DEF Shown
  <1>17. Shown(items) \cap S \subseteq Shown(Filtered(items, S))
    <2> SUFFICES ASSUME NEW k \in kept PROVE items[k] \in Shown(Filtered(items, S))
      BY DEF Shown
    <2>1. rank[k] \in 1..size
      BY <1>7 DEF Injection
    <2>2. place(rank[k]) = k
      BY <1>7, <1>10, <2>1 DEF Injection, IsInjective
    <2> QED BY <1>11, <1>15, <2>1, <2>2 DEF Shown
  <1>18. ASSUME Distinct(items) PROVE Distinct(Filtered(items, S))
    <2> SUFFICES ASSUME NEW m \in 1..size, NEW n \in 1..size,
                        items[place(m)] = items[place(n)]
                 PROVE  m = n
      BY <1>11, <1>15 DEF Distinct
    <2>1. place(m) = place(n)
      BY <1>10, <1>18 DEF Distinct
    <2> QED BY <1>10, <2>1
  <1> QED BY <1>4, <1>14, <1>15, <1>16, <1>17, <1>18

(***************************************************************************)
(* Pages.                                                                  *)
(***************************************************************************)
LEMMA Places ==
  ASSUME NEW k \in Nat
  PROVE  /\ k * PageSize \in Nat
         /\ (k + 1) * PageSize = k * PageSize + PageSize
  BY PageSizeAssumption

\* The last place of the k-th page.
PageEnd(items, k) ==
  IF (k + 1) * PageSize < Len(items) THEN (k + 1) * PageSize ELSE Len(items)

\* The k-th page is the places behind the first k * PageSize, as far as they go.
LEMMA PageShape ==
  ASSUME NEW T, NEW items \in Seq(T), NEW k \in Nat
  PROVE  /\ Page(items, k) \in Seq(T)
         /\ PageEnd(items, k) \in Int
         /\ PageEnd(items, k) <= Len(items) /\ PageEnd(items, k) <= (k + 1) * PageSize
         /\ PageEnd(items, k) = Len(items) \/ PageEnd(items, k) = (k + 1) * PageSize
         /\ Len(Page(items, k)) \in Nat
         /\ Len(Page(items, k)) = IF k * PageSize < PageEnd(items, k)
                                    THEN PageEnd(items, k) - k * PageSize ELSE 0
         /\ DOMAIN Page(items, k) = 1..Len(Page(items, k))
         /\ \A i \in 1..Len(Page(items, k)) :
              /\ Page(items, k)[i] = items[k * PageSize + i]
              /\ k * PageSize + i \in DOMAIN items
  <1> DEFINE before == k * PageSize
             last == (k + 1) * PageSize
             shown == Page(items, k)
             end == PageEnd(items, k)
  <1>1. /\ Len(items) \in Nat /\ items \in [1..Len(items) -> T]
        /\ DOMAIN items = 1..Len(items)
    BY LenProperties
  <1>2. before \in Nat /\ last = before + PageSize /\ PageSize \in Nat
    BY Places, PageSizeAssumption
  <1>3. shown = SubSeq(items, before + 1, end)
    BY DEF Page, PageEnd
  <1>0. end = IF last < Len(items) THEN last ELSE Len(items)
    BY DEF PageEnd
  <1> HIDE DEF before, last, shown, end
  <1>5. /\ end = Len(items) \/ end = last
        /\ end \in Int /\ end <= last /\ end <= Len(items)
    <2>1. last \in Int /\ Len(items) \in Int
      BY <1>1, <1>2
    <2>2. CASE last < Len(items)
      BY <1>0, <2>1, <2>2
    <2>3. CASE ~(last < Len(items))
      BY <1>0, <2>1, <2>3
    <2> QED BY <2>2, <2>3
  <1>4. /\ end \in Int /\ end <= Len(items) /\ end <= before + PageSize
        /\ \A i \in before + 1..end : i \in DOMAIN items
    <2>1. end \in Int /\ end <= Len(items) /\ end <= last /\ before \in Nat
      BY <1>2, <1>5
    <2>2. end <= before + PageSize
      BY <1>2, <2>1
    <2>3. ASSUME NEW i \in before + 1..end PROVE i \in 1..Len(items)
      BY <1>1, <2>1
    <2> QED BY <1>1, <2>1, <2>2, <2>3
  <1>6. \A i \in before + 1..end : items[i] \in T
    BY <1>1, <1>4
  <1>7. /\ shown \in Seq(T)
        /\ Len(shown) = IF before + 1 <= end THEN end - (before + 1) + 1 ELSE 0
        /\ \A i \in 1..end - (before + 1) + 1 : shown[i] = items[before + 1 + i - 1]
    BY <1>2, <1>3, <1>4, <1>6, SubSeqProperties
  <1>8. /\ Len(shown) \in Nat
        /\ Len(shown) = IF before < end THEN end - before ELSE 0
        /\ DOMAIN shown = 1..Len(shown)
        /\ \A i \in 1..Len(shown) :
             shown[i] = items[before + i] /\ before + i \in DOMAIN items
    <2>1. Len(shown) \in Nat /\ DOMAIN shown = 1..Len(shown)
      BY <1>7, LenProperties
    <2>2. Len(shown) = IF before < end THEN end - before ELSE 0
      BY <1>2, <1>4, <1>7
    <2>3. ASSUME NEW i \in 1..Len(shown)
          PROVE  shown[i] = items[before + i] /\ before + i \in DOMAIN items
      <3>1. /\ i \in 1..end - (before + 1) + 1
            /\ before + i \in before + 1..end
            /\ before + 1 + i - 1 = before + i
        BY <1>2, <1>4, <2>2, <2>3
      <3> QED BY <1>4, <1>7, <3>1
    <2> QED BY <2>1, <2>2, <2>3
  <1> QED BY <1>4, <1>5, <1>7, <1>8 DEF before, last, shown, end

\* The pages before the k-th and the k-th together show the first
\* (k + 1) * PageSize places, and an empty page is beyond the end.
LEMMA PageFacts ==
  ASSUME NEW T, NEW items \in Seq(T), NEW k \in Nat
  PROVE  /\ Page(items, k) \in Seq(T)
         /\ Len(Page(items, k)) \in Nat /\ Len(Page(items, k)) <= PageSize
         /\ Shown(Page(items, k)) \subseteq Shown(items)
         /\ FirstPlaces(items, (k + 1) * PageSize) =
              FirstPlaces(items, k * PageSize) \cup Shown(Page(items, k))
         /\ Distinct(items) => Distinct(Page(items, k))
         /\ Page(items, k) = <<>> => Len(items) <= k * PageSize
         /\ Len(Page(items, k)) = 0 => Len(items) <= k * PageSize
  <1> DEFINE before == k * PageSize
             last == (k + 1) * PageSize
             end == PageEnd(items, k)
             shown == Page(items, k)
  <1>1. /\ Len(items) \in Nat /\ items \in [1..Len(items) -> T]
        /\ DOMAIN items = 1..Len(items)
    BY LenProperties
  <1>2. before \in Nat /\ last = before + PageSize /\ PageSize \in Nat
    BY Places, PageSizeAssumption
  <1> HIDE DEF before, last, shown, end
  <1>4. /\ end \in Int /\ end <= Len(items) /\ end <= before + PageSize
    BY <1>2, PageShape DEF last, end
  <1>5. /\ end = Len(items) \/ end = last
        /\ end <= last
    BY <1>2, PageShape, PageSizeAssumption DEF last, end
  <1>7. shown \in Seq(T)
    BY PageShape DEF shown
  <1>8. /\ Len(shown) \in Nat
        /\ Len(shown) = IF before < end THEN end - before ELSE 0
        /\ DOMAIN shown = 1..Len(shown)
        /\ \A i \in 1..Len(shown) :
             shown[i] = items[before + i] /\ before + i \in DOMAIN items
    BY PageShape DEF before, shown, end
  <1>9. Len(shown) <= PageSize
    BY <1>2, <1>4, <1>8
  <1>10. Shown(shown) \subseteq Shown(items)
    BY <1>8 DEF Shown
  <1>11. FirstPlaces(items, last) \subseteq FirstPlaces(items, before) \cup Shown(shown)
    <2> SUFFICES ASSUME NEW j \in DOMAIN items, j <= last
                 PROVE  items[j] \in FirstPlaces(items, before) \cup Shown(shown)
      BY DEF FirstPlaces
    <2>1. CASE j <= before
      BY <2>1 DEF FirstPlaces
    <2>2. CASE ~(j <= before)
      <3>1. before < j /\ j <= end
        BY <1>1, <1>2, <1>5, <2>2
      <3>2. j - before \in 1..Len(shown) /\ before + (j - before) = j
        BY <1>1, <1>2, <1>4, <1>8, <3>1
      <3>3. shown[j - before] = items[j]
        BY <1>8, <3>2
      <3> QED BY <1>8, <3>2, <3>3 DEF Shown
    <2> QED BY <2>1, <2>2
  <1>12. FirstPlaces(items, before) \subseteq FirstPlaces(items, last)
    <2>1. \A j \in DOMAIN items : j <= before => j <= last
      BY <1>1, <1>2
    <2> QED BY <2>1 DEF FirstPlaces
  <1>13. Shown(shown) \subseteq FirstPlaces(items, last)
    <2> SUFFICES ASSUME NEW i \in 1..Len(shown)
                 PROVE  shown[i] \in FirstPlaces(items, last)
      BY <1>8 DEF Shown
    <2>1. before + i <= last
      BY <1>2, <1>4, <1>5, <1>8
    <2> QED BY <1>8, <2>1 DEF FirstPlaces
  <1>14. ASSUME Distinct(items) PROVE Distinct(shown)
    <2> SUFFICES ASSUME NEW i \in 1..Len(shown), NEW j \in 1..Len(shown),
                        shown[i] = shown[j]
                 PROVE  i = j
      BY <1>8 DEF Distinct
    <2>1. before + i = before + j
      BY <1>8, <1>14 DEF Distinct
    <2> QED BY <1>2, <2>1
  <1>15. ASSUME Len(shown) = 0 PROVE Len(items) <= before
    <2>1. ~(before < end)
      BY <1>2, <1>4, <1>8, <1>15
    <2>2. end # last
      BY <1>2, <2>1, PageSizeAssumption
    <2> QED BY <1>1, <1>2, <1>5, <2>1, <2>2
  <1>16. shown = <<>> => Len(shown) = 0
    BY EmptySeq
  <1> QED
    BY <1>7, <1>8, <1>9, <1>10, <1>11, <1>12, <1>13, <1>14, <1>15, <1>16
    DEF before, last, shown, end

\* Nothing is beyond the end of the listing.
LEMMA AllPlaces ==
  ASSUME NEW T, NEW items \in Seq(T), NEW n \in Nat
  PROVE  /\ FirstPlaces(items, n) \subseteq Shown(items)
         /\ Len(items) <= n => FirstPlaces(items, n) = Shown(items)
         /\ IsFiniteSet(FirstPlaces(items, n))
         /\ Cardinality(Shown(items) \ FirstPlaces(items, n)) \in Nat
         /\ n <= Len(items) =>
              Cardinality(Shown(items) \ FirstPlaces(items, n)) <= Len(items) - n
  <1>1. /\ Len(items) \in Nat /\ items \in [1..Len(items) -> T]
        /\ DOMAIN items = 1..Len(items)
    BY LenProperties
  <1>2. FirstPlaces(items, n) \subseteq Shown(items)
    BY DEF FirstPlaces, Shown
  <1>3. Len(items) <= n => FirstPlaces(items, n) = Shown(items)
    BY <1>1 DEF FirstPlaces, Shown
  <1>4. IsFiniteSet(Shown(items))
    BY ShownCount
  <1>5. /\ IsFiniteSet(FirstPlaces(items, n))
        /\ IsFiniteSet(Shown(items) \ FirstPlaces(items, n))
    BY <1>2, <1>4, FS_Subset, FS_Difference
  <1>6. ASSUME n <= Len(items)
        PROVE  Cardinality(Shown(items) \ FirstPlaces(items, n)) <= Len(items) - n
    <2> DEFINE rest == SubSeq(items, n + 1, Len(items))
    <2>1. \A i \in n + 1..Len(items) : items[i] \in T
      BY <1>1
    <2>2. /\ rest \in Seq(T)
          /\ Len(rest) = IF n + 1 <= Len(items) THEN Len(items) - (n + 1) + 1 ELSE 0
          /\ \A i \in 1..Len(items) - (n + 1) + 1 : rest[i] = items[n + 1 + i - 1]
      BY <1>1, <2>1, SubSeqProperties
    <2>3. Len(rest) = Len(items) - n /\ DOMAIN rest = 1..Len(items) - n
      <3> HIDE DEF rest
      <3>1. Len(rest) = Len(items) - n
        <4>1. Len(items) \in Int
          BY <1>1
        <4>2. Len(rest) = IF n + 1 <= Len(items) THEN Len(items) - (n + 1) + 1 ELSE 0
          BY <2>2, Zenon
        <4> QED BY <1>6, <4>1, <4>2
      <3> QED BY <2>2, <3>1, LenProperties
    <2> HIDE DEF rest
    <2>4. Shown(items) \ FirstPlaces(items, n) \subseteq Shown(rest)
      <3> SUFFICES ASSUME NEW i \in DOMAIN items, ~(i <= n)
                   PROVE  items[i] \in Shown(rest)
        BY DEF Shown, FirstPlaces
      <3>1. i - n \in 1..Len(items) - n /\ n + 1 + (i - n) - 1 = i
        BY <1>1
      <3>2. i - n \in 1..Len(items) - (n + 1) + 1
        BY <1>1, <3>1
      <3>3. rest[i - n] = items[i]
        BY <2>2, <3>1, <3>2
      <3> QED BY <2>3, <3>1, <3>3 DEF Shown
    <2>5. IsFiniteSet(Shown(rest)) /\ Cardinality(Shown(rest)) <= Len(rest)
          /\ Cardinality(Shown(rest)) \in Nat
      BY <2>2, ShownCount
    <2>6. Cardinality(Shown(items) \ FirstPlaces(items, n)) <= Cardinality(Shown(rest))
      BY <2>4, <2>5, FS_Subset
    <2>7. Cardinality(Shown(items) \ FirstPlaces(items, n)) \in Nat
      BY <1>5, FS_CardinalityType
    <2> QED BY <1>1, <2>3, <2>5, <2>6, <2>7
  <1> QED BY <1>2, <1>3, <1>5, <1>6, FS_CardinalityType

\* How many places are behind the first k pages.
Ahead(items, k) ==
  IF Len(items) <= k * PageSize THEN 0 ELSE Len(items) - k * PageSize

\* A page shows what it takes from the places ahead.
LEMMA PageLength ==
  ASSUME NEW T, NEW items \in Seq(T), NEW k \in Nat
  PROVE  /\ Ahead(items, k) \in Nat
         /\ Len(Page(items, k)) + Ahead(items, k + 1) = Ahead(items, k)
  <1> DEFINE before == k * PageSize
             last == (k + 1) * PageSize
             end == PageEnd(items, k)
             length == Len(Page(items, k))
             all == Len(items)
  <1>1. all \in Nat
    BY LenProperties
  <1>2. before \in Nat /\ last = before + PageSize /\ PageSize \in Nat
    BY Places, PageSizeAssumption
  <1>3. end = IF last < all THEN last ELSE all
    BY DEF PageEnd
  <1>4. length = IF before < end THEN end - before ELSE 0
    BY PageShape
  <1>5. /\ Ahead(items, k) = IF all <= before THEN 0 ELSE all - before
        /\ Ahead(items, k + 1) = IF all <= last THEN 0 ELSE all - last
    BY DEF Ahead
  <1> HIDE DEF before, last, end, length, all
  <1>6. CASE all <= before
    <2>1. all <= last
      BY <1>1, <1>2, <1>6
    <2>2. end = all
      BY <1>1, <1>2, <1>3, <2>1
    <2>3. length = 0
      BY <1>1, <1>2, <1>4, <1>6, <2>2
    <2> QED BY <1>5, <1>6, <2>1, <2>3 DEF length
  <1>7. CASE before < all /\ all <= last
    <2>1. end = all
      BY <1>1, <1>2, <1>3, <1>7
    <2>2. length = all - before /\ ~(all <= before) /\ all - before \in Nat
      BY <1>1, <1>2, <1>4, <1>7, <2>1
    <2>3. Ahead(items, k) = all - before /\ Ahead(items, k + 1) = 0
      BY <1>5, <1>7, <2>2
    <2> QED BY <2>2, <2>3 DEF length
  <1>8. CASE last < all
    <2>1. end = last
      BY <1>3, <1>8
    <2>2. /\ length = last - before /\ ~(all <= before) /\ ~(all <= last)
          /\ all - before \in Nat
      BY <1>1, <1>2, <1>4, <1>8, <2>1, PageSizeAssumption
    <2>3. Ahead(items, k) = all - before /\ Ahead(items, k + 1) = all - last
      BY <1>5, <2>2
    <2>4. length + (all - last) = all - before
      BY <1>1, <1>2, <2>2
    <2> QED BY <2>2, <2>3, <2>4 DEF length
  <1> QED
    BY <1>1, <1>2, <1>6, <1>7, <1>8

(***************************************************************************)
(* Changes of the listing.                                                 *)
(***************************************************************************)
\* An arrival pushes items back: the first n places show nothing new but the
\* item that arrived.
LEMMA ArrivalFacts ==
  ASSUME NEW items \in Seq(Item), Distinct(items), NEW s \in Arrivals(items)
  PROVE  /\ s \in Seq(Item) /\ Distinct(s)
         /\ Len(s) = Len(items) + 1
         /\ \E x \in Item :
              /\ x \notin Shown(items)
              /\ Shown(s) = Shown(items) \cup {x}
              /\ \A n \in Nat : FirstPlaces(s, n) \subseteq FirstPlaces(items, n) \cup {x}
  <1>1. /\ Len(items) \in Nat /\ items \in [1..Len(items) -> Item]
        /\ DOMAIN items = 1..Len(items)
    BY LenProperties
  <1>2. PICK i \in 0..Len(items), x \in Item \ Shown(items) :
          s = SubSeq(items, 1, i) \o <<x>> \o SubSeq(items, i + 1, Len(items))
    <2>1. \E i \in 0..Len(items), x \in Item \ Shown(items) : s = Inserted(items, i, x)
      BY DEF Arrivals
    <2> QED BY <2>1 DEF Inserted
  <1> DEFINE head == SubSeq(items, 1, i)
             tail == SubSeq(items, i + 1, Len(items))
             front == head \o <<x>>
  <1>3. /\ head \in Seq(Item) /\ Len(head) = i
        /\ \A j \in 1..i : head[j] = items[j]
    <2>1. \A j \in 1..i : items[j] \in Item
      BY <1>1
    <2>2. /\ head \in Seq(Item)
          /\ Len(head) = IF 1 <= i THEN i - 1 + 1 ELSE 0
          /\ \A j \in 1..i - 1 + 1 : head[j] = items[1 + j - 1]
      BY <2>1, SubSeqProperties
    <2> HIDE DEF head
    <2>3. Len(head) = IF 1 <= i THEN i - 1 + 1 ELSE 0
      BY <2>2, Zenon
    <2>4. Len(head) = i
      BY <2>3
    <2>5. ASSUME NEW j \in 1..i PROVE head[j] = items[j]
      <3>1. j \in 1..i - 1 + 1 /\ 1 + j - 1 = j
        OBVIOUS
      <3> QED BY <2>2, <3>1
    <2> QED BY <2>2, <2>4, <2>5
  <1>4. /\ tail \in Seq(Item) /\ Len(tail) = Len(items) - i
        /\ \A j \in 1..Len(items) - i : tail[j] = items[i + j]
    <2>1. \A j \in i + 1..Len(items) : items[j] \in Item
      BY <1>1
    <2>2. /\ tail \in Seq(Item)
          /\ Len(tail) = IF i + 1 <= Len(items) THEN Len(items) - (i + 1) + 1 ELSE 0
          /\ \A j \in 1..Len(items) - (i + 1) + 1 : tail[j] = items[i + 1 + j - 1]
      BY <1>1, <2>1, SubSeqProperties
    <2> HIDE DEF tail
    <2>3. Len(tail) = IF i + 1 <= Len(items) THEN Len(items) - (i + 1) + 1 ELSE 0
      BY <2>2, Zenon
    <2>4. Len(items) \in Nat
      BY <1>1
    <2>5. Len(tail) = Len(items) - i
      BY <2>3, <2>4
    <2>6. ASSUME NEW j \in 1..Len(items) - i PROVE tail[j] = items[i + j]
      <3>1. j \in 1..Len(items) - (i + 1) + 1 /\ i + 1 + j - 1 = i + j
        BY <2>4
      <3> QED BY <2>2, <3>1
    <2> QED BY <2>2, <2>5, <2>6
  <1>5. s = front \o tail
    BY <1>2
  <1> HIDE DEF head, tail, front
  <1>6. /\ <<x>> \in Seq(Item) /\ Len(<<x>>) = 1 /\ <<x>>[1] = x
    OBVIOUS
  <1>7. /\ front \in Seq(Item) /\ Len(front) = i + 1
        /\ \A j \in 1..i + 1 : front[j] = IF j <= i THEN head[j] ELSE <<x>>[j - i]
    BY <1>3, <1>6, ConcatProperties DEF front
  <1>8. /\ s \in Seq(Item) /\ Len(s) = i + 1 + (Len(items) - i)
        /\ \A j \in 1..i + 1 + (Len(items) - i) :
             s[j] = IF j <= i + 1 THEN front[j] ELSE tail[j - (i + 1)]
    <2>1. /\ front \o tail \in Seq(Item)
          /\ Len(front \o tail) = Len(front) + Len(tail)
          /\ \A j \in 1..Len(front) + Len(tail) :
               (front \o tail)[j] = IF j <= Len(front) THEN front[j] ELSE tail[j - Len(front)]
      BY <1>4, <1>7, ConcatProperties
    <2> QED BY <1>4, <1>5, <1>7, <2>1, Zenon
  <1>9. Len(s) = Len(items) + 1 /\ DOMAIN s = 1..Len(items) + 1
    <2>1. i + 1 + (Len(items) - i) = Len(items) + 1
      BY <1>1
    <2> QED BY <1>8, <2>1, LenProperties
  <1>10. ASSUME NEW j \in 1..Len(items) + 1
         PROVE  /\ j <= i => s[j] = items[j] /\ j \in DOMAIN items
                /\ j = i + 1 => s[j] = x
                /\ j > i + 1 => s[j] = items[j - 1] /\ j - 1 \in DOMAIN items
    <2>1. j \in 1..i + 1 + (Len(items) - i) /\ Len(items) \in Nat
      BY <1>1
    <2>2. CASE j <= i
      <3>1. j <= i + 1 /\ j \in 1..i + 1 /\ j \in 1..i /\ ~(j = i + 1) /\ ~(j > i + 1)
        BY <2>2
      <3> QED BY <1>1, <1>3, <1>7, <1>8, <2>1, <2>2, <3>1
    <2>3. CASE j = i + 1
      <3>1. j <= i + 1 /\ j \in 1..i + 1 /\ ~(j <= i) /\ j - i = 1 /\ ~(j > i + 1)
        BY <2>3
      <3> QED BY <1>6, <1>7, <1>8, <2>1, <2>3, <3>1
    <2>4. CASE j > i + 1
      <3>1. /\ ~(j <= i + 1) /\ ~(j <= i) /\ ~(j = i + 1)
            /\ j - (i + 1) \in 1..Len(items) - i /\ i + (j - (i + 1)) = j - 1
            /\ j - 1 \in 1..Len(items)
        BY <2>1, <2>4
      <3> QED BY <1>1, <1>4, <1>8, <2>1, <3>1
    <2> QED BY <2>2, <2>3, <2>4
  <1>11. ASSUME NEW j \in 1..Len(items) + 1, NEW k \in 1..Len(items) + 1, s[j] = s[k], j < k
         PROVE  FALSE
    <2>1. x \notin Shown(items) /\ Len(items) \in Nat
      BY <1>1
    <2>2. \A l \in DOMAIN items : items[l] # x
      BY <2>1 DEF Shown
    <2>3. CASE j <= i /\ k <= i
      BY <1>10, <1>11, <2>3 DEF Distinct
    <2>4. CASE j = i + 1
      <3>1. k > i + 1
        BY <1>11, <2>4
      <3> QED BY <1>10, <1>11, <2>2, <2>4, <3>1
    <2>5. CASE k = i + 1
      <3>1. j <= i
        BY <1>11, <2>5
      <3> QED BY <1>10, <1>11, <2>2, <2>5, <3>1
    <2>6. CASE j <= i /\ k > i + 1
      <3>1. items[j] = items[k - 1] /\ j \in DOMAIN items /\ k - 1 \in DOMAIN items
        BY <1>10, <1>11, <2>6
      <3>2. j = k - 1
        BY <3>1 DEF Distinct
      <3> QED BY <2>6, <3>2
    <2>7. CASE j > i + 1 /\ k > i + 1
      <3>1. items[j - 1] = items[k - 1] /\ j - 1 \in DOMAIN items /\ k - 1 \in DOMAIN items
        BY <1>10, <1>11, <2>7
      <3>2. j - 1 = k - 1
        BY <3>1 DEF Distinct
      <3> QED BY <1>11, <3>2
    <2> QED BY <1>11, <2>1, <2>3, <2>4, <2>5, <2>6, <2>7
  <1>12. Distinct(s)
    <2> SUFFICES ASSUME NEW j \in 1..Len(items) + 1, NEW k \in 1..Len(items) + 1, s[j] = s[k]
                 PROVE  j = k
      BY <1>9 DEF Distinct
    <2>1. ~(j < k) /\ ~(k < j)
      BY <1>11
    <2>2. j \in Int /\ k \in Int
      OBVIOUS
    <2> QED BY <2>1, <2>2
  <1>13. ASSUME NEW n \in Nat
         PROVE  FirstPlaces(s, n) \subseteq FirstPlaces(items, n) \cup {x}
    <2> SUFFICES ASSUME NEW j \in 1..Len(items) + 1, j <= n
                 PROVE  s[j] \in FirstPlaces(items, n) \cup {x}
      BY <1>9 DEF FirstPlaces
    <2>1. CASE j <= i
      BY <1>10, <2>1 DEF FirstPlaces
    <2>2. CASE j > i + 1
      <3>1. s[j] = items[j - 1] /\ j - 1 \in DOMAIN items /\ j - 1 <= n
        BY <1>10, <2>2
      <3> QED BY <3>1 DEF FirstPlaces
    <2>3. CASE j = i + 1
      BY <1>10, <2>3
    <2> QED BY <2>1, <2>2, <2>3
  <1>14. Shown(s) \subseteq Shown(items) \cup {x}
    <2> SUFFICES ASSUME NEW j \in 1..Len(items) + 1 PROVE s[j] \in Shown(items) \cup {x}
      BY <1>9 DEF Shown
    <2>1. j <= i \/ j = i + 1 \/ j > i + 1
      OBVIOUS
    <2> QED BY <1>10, <2>1 DEF Shown
  <1>15. Shown(items) \cup {x} \subseteq Shown(s)
    <2>1. x \in Shown(s)
      <3>1. i + 1 \in 1..Len(items) + 1
        BY <1>1
      <3> QED BY <1>9, <1>10, <3>1 DEF Shown
    <2>2. ASSUME NEW k \in 1..Len(items) PROVE items[k] \in Shown(s)
      <3>1. CASE k <= i
        <4>1. k \in 1..Len(items) + 1
          BY <1>1
        <4> QED BY <1>9, <1>10, <3>1, <4>1 DEF Shown
      <3>2. CASE k > i
        <4>1. k + 1 \in 1..Len(items) + 1 /\ k + 1 > i + 1 /\ k + 1 - 1 = k
          BY <1>1, <3>2
        <4> QED BY <1>9, <1>10, <4>1 DEF Shown
      <3> QED BY <3>1, <3>2
    <2> QED BY <1>1, <2>1, <2>2 DEF Shown
  <1> QED BY <1>2, <1>8, <1>9, <1>12, <1>13, <1>14, <1>15

\* A departure draws items forward: the first n places show at most one more.
LEMMA DepartureFacts ==
  ASSUME NEW items \in Seq(Item), Distinct(items), NEW s \in Departures(items)
  PROVE  /\ s \in Seq(Item) /\ Distinct(s)
         /\ Len(s) = Len(items) - 1
         /\ Shown(s) \subseteq Shown(items)
         /\ \A n \in Nat : \E y : FirstPlaces(s, n) \subseteq FirstPlaces(items, n) \cup {y}
  <1>1. /\ Len(items) \in Nat /\ items \in [1..Len(items) -> Item]
        /\ DOMAIN items = 1..Len(items)
    BY LenProperties
  <1>2. PICK i \in 1..Len(items) :
          s = SubSeq(items, 1, i - 1) \o SubSeq(items, i + 1, Len(items))
    BY DEF Departures
  <1> DEFINE head == SubSeq(items, 1, i - 1)
             tail == SubSeq(items, i + 1, Len(items))
  <1>3. /\ head \in Seq(Item) /\ Len(head) = i - 1
        /\ \A j \in 1..i - 1 : head[j] = items[j]
    <2>1. \A j \in 1..i - 1 : items[j] \in Item
      BY <1>1
    <2>2. /\ head \in Seq(Item)
          /\ Len(head) = IF 1 <= i - 1 THEN i - 1 - 1 + 1 ELSE 0
          /\ \A j \in 1..i - 1 - 1 + 1 : head[j] = items[1 + j - 1]
      BY <2>1, SubSeqProperties
    <2> HIDE DEF head
    <2>3. Len(head) = IF 1 <= i - 1 THEN i - 1 - 1 + 1 ELSE 0
      BY <2>2, Zenon
    <2>4. Len(head) = i - 1
      BY <2>3
    <2>5. ASSUME NEW j \in 1..i - 1 PROVE head[j] = items[j]
      <3>1. j \in 1..i - 1 - 1 + 1 /\ 1 + j - 1 = j
        OBVIOUS
      <3> QED BY <2>2, <3>1
    <2> QED BY <2>2, <2>4, <2>5
  <1>4. /\ tail \in Seq(Item) /\ Len(tail) = Len(items) - i
        /\ \A j \in 1..Len(items) - i : tail[j] = items[i + j]
    <2>1. \A j \in i + 1..Len(items) : items[j] \in Item
      BY <1>1
    <2>2. /\ tail \in Seq(Item)
          /\ Len(tail) = IF i + 1 <= Len(items) THEN Len(items) - (i + 1) + 1 ELSE 0
          /\ \A j \in 1..Len(items) - (i + 1) + 1 : tail[j] = items[i + 1 + j - 1]
      BY <1>1, <2>1, SubSeqProperties
    <2> HIDE DEF tail
    <2>3. Len(tail) = IF i + 1 <= Len(items) THEN Len(items) - (i + 1) + 1 ELSE 0
      BY <2>2, Zenon
    <2>4. Len(items) \in Nat
      BY <1>1
    <2>5. Len(tail) = Len(items) - i
      BY <2>3, <2>4
    <2>6. ASSUME NEW j \in 1..Len(items) - i PROVE tail[j] = items[i + j]
      <3>1. j \in 1..Len(items) - (i + 1) + 1 /\ i + 1 + j - 1 = i + j
        BY <2>4
      <3> QED BY <2>2, <3>1
    <2> QED BY <2>2, <2>5, <2>6
  <1>5. s = head \o tail
    BY <1>2
  <1> HIDE DEF head, tail
  <1>6. /\ head \o tail \in Seq(Item)
        /\ Len(head \o tail) = Len(head) + Len(tail)
        /\ \A j \in 1..Len(head) + Len(tail) :
             (head \o tail)[j] = IF j <= Len(head) THEN head[j] ELSE tail[j - Len(head)]
    BY <1>3, <1>4, ConcatProperties
  <1>7. /\ s \in Seq(Item) /\ Len(s) = i - 1 + (Len(items) - i)
        /\ \A j \in 1..i - 1 + (Len(items) - i) :
             s[j] = IF j <= i - 1 THEN head[j] ELSE tail[j - (i - 1)]
    BY <1>3, <1>4, <1>5, <1>6, Zenon
  <1>8. Len(s) = Len(items) - 1 /\ DOMAIN s = 1..Len(items) - 1
    <2>1. i - 1 + (Len(items) - i) = Len(items) - 1
      BY <1>1
    <2> QED BY <1>7, <2>1, LenProperties
  <1>9. ASSUME NEW j \in 1..Len(items) - 1
        PROVE  /\ j < i => s[j] = items[j] /\ j \in DOMAIN items
               /\ j >= i => s[j] = items[j + 1] /\ j + 1 \in DOMAIN items
    <2>1. j \in 1..i - 1 + (Len(items) - i) /\ Len(items) \in Nat
      BY <1>1
    <2>2. CASE j < i
      <3>1. j <= i - 1 /\ j \in 1..i - 1 /\ ~(j >= i) /\ j \in 1..Len(items)
        BY <2>1, <2>2
      <3> QED BY <1>1, <1>3, <1>7, <2>1, <3>1
    <2>3. CASE j >= i
      <3>1. /\ ~(j <= i - 1) /\ ~(j < i)
            /\ j - (i - 1) \in 1..Len(items) - i /\ i + (j - (i - 1)) = j + 1
            /\ j + 1 \in 1..Len(items)
        BY <2>1, <2>3
      <3> QED BY <1>1, <1>4, <1>7, <2>1, <3>1
    <2> QED BY <2>2, <2>3
  <1>10. ASSUME NEW j \in 1..Len(items) - 1, NEW k \in 1..Len(items) - 1, s[j] = s[k], j < k
         PROVE  FALSE
    <2>1. CASE j < i /\ k < i
      BY <1>9, <1>10, <2>1 DEF Distinct
    <2>2. CASE j < i /\ k >= i
      <3>1. j = k + 1
        BY <1>9, <1>10, <2>2 DEF Distinct
      <3> QED BY <1>10, <3>1
    <2>3. CASE j >= i /\ k >= i
      <3>1. j + 1 = k + 1
        BY <1>9, <1>10, <2>3 DEF Distinct
      <3> QED BY <1>10, <3>1
    <2> QED BY <1>10, <2>1, <2>2, <2>3
  <1>11. Distinct(s)
    <2> SUFFICES ASSUME NEW j \in 1..Len(items) - 1, NEW k \in 1..Len(items) - 1, s[j] = s[k]
                 PROVE  j = k
      BY <1>8 DEF Distinct
    <2>1. ~(j < k) /\ ~(k < j)
      BY <1>10
    <2>2. j \in Int /\ k \in Int
      OBVIOUS
    <2> QED BY <2>1, <2>2
  <1>12. Shown(s) \subseteq Shown(items)
    <2> SUFFICES ASSUME NEW j \in 1..Len(items) - 1 PROVE s[j] \in Shown(items)
      BY <1>8 DEF Shown
    <2>1. j < i \/ j >= i
      OBVIOUS
    <2> QED BY <1>9, <2>1 DEF Shown
  <1>13. ASSUME NEW n \in Nat
         PROVE  FirstPlaces(s, n) \subseteq FirstPlaces(items, n) \cup {items[n + 1]}
    <2> SUFFICES ASSUME NEW j \in 1..Len(items) - 1, j <= n
                 PROVE  s[j] \in FirstPlaces(items, n) \cup {items[n + 1]}
      BY <1>8 DEF FirstPlaces
    <2>1. CASE j < i
      BY <1>9, <2>1 DEF FirstPlaces
    <2>2. CASE j >= i /\ j = n
      BY <1>9, <2>2
    <2>3. CASE j >= i /\ j # n
      <3>1. s[j] = items[j + 1] /\ j + 1 \in DOMAIN items /\ j + 1 <= n
        BY <1>9, <2>3
      <3> QED BY <3>1 DEF FirstPlaces
    <2> QED BY <2>1, <2>2, <2>3
  <1> QED BY <1>7, <1>8, <1>11, <1>12, <1>13

(***************************************************************************)
(* Counting what is missed.                                                *)
(***************************************************************************)
\* A smaller set, and a set with at most one thing more.
LEMMA CountWithin ==
  ASSUME NEW S, NEW T, IsFiniteSet(T), S \subseteq T
  PROVE  /\ IsFiniteSet(S)
         /\ Cardinality(S) \in Nat /\ Cardinality(T) \in Nat
         /\ Cardinality(S) <= Cardinality(T)
  BY FS_Subset, FS_CardinalityType

LEMMA CountOneMore ==
  ASSUME NEW S, NEW T, NEW y, IsFiniteSet(T), S \subseteq T \cup {y}
  PROVE  /\ IsFiniteSet(S)
         /\ Cardinality(S) \in Nat /\ Cardinality(T) \in Nat
         /\ Cardinality(S) <= Cardinality(T) + 1
  <1>1. /\ IsFiniteSet(T \cup {y})
        /\ Cardinality(T \cup {y}) \in {Cardinality(T), Cardinality(T) + 1}
    BY FS_AddElement
  <1>2. IsFiniteSet(S) /\ Cardinality(S) <= Cardinality(T \cup {y})
    BY <1>1, CountWithin
  <1>3. Cardinality(S) \in Nat /\ Cardinality(T) \in Nat
    BY <1>2, FS_CardinalityType
  <1> QED BY <1>1, <1>2, <1>3

\* What is in S or in T, counted apart.
LEMMA CountUnion ==
  ASSUME NEW S, NEW T, IsFiniteSet(S), IsFiniteSet(T)
  PROVE  /\ IsFiniteSet(S \cup T)
         /\ Cardinality(S \cup T) \in Nat
         /\ Cardinality(S) \in Nat /\ Cardinality(T) \in Nat
         /\ Cardinality(S \cup T) <= Cardinality(S) + Cardinality(T)
         /\ S \cap T = {} => Cardinality(S \cup T) = Cardinality(S) + Cardinality(T)
  <1>1. /\ IsFiniteSet(S \cup T)
        /\ Cardinality(S \cup T) = Cardinality(S) + Cardinality(T) - Cardinality(S \cap T)
    BY FS_Union
  <1>2. IsFiniteSet(S \cap T)
    BY FS_Intersection
  <1>3. /\ Cardinality(S \cup T) \in Nat /\ Cardinality(S) \in Nat
        /\ Cardinality(T) \in Nat /\ Cardinality(S \cap T) \in Nat
    BY <1>1, <1>2, FS_CardinalityType
  <1>4. S \cap T = {} => Cardinality(S \cap T) = 0
    BY FS_EmptySet
  <1> QED BY <1>1, <1>3, <1>4

\* The listings an execution may find are finite sequences without repetition.
LEMMA SiteFacts ==
  ASSUME NEW n \in Nat, NEW s \in Sites(n)
  PROVE  s \in Seq(Item) /\ Distinct(s)
  <1>1. PICK k \in 0..n :
          s \in {t \in [1..k -> Item] : \A i, j \in 1..k : t[i] = t[j] => i = j}
    BY DEF Sites
  <1>2. s \in [1..k -> Item] /\ \A i, j \in 1..k : s[i] = s[j] => i = j
    BY <1>1
  <1>3. s \in Seq(Item)
    BY <1>2, SeqDef
  <1> QED BY <1>2, <1>3 DEF Distinct

(***************************************************************************)
(* What a traversal misses: of the items t, those that are in the first    *)
(* pages and were not found there, and those that are still ahead.         *)
(***************************************************************************)
Skipped(t, items, k, f) == (t \cap FirstPlaces(items, k * PageSize)) \ Shown(f)

Sweep(t, items, k, f) == Cardinality(Skipped(t, items, k, f)) + Ahead(items, k)

LEMMA SweepFacts ==
  ASSUME NEW items \in Seq(Item), NEW k \in Nat, NEW t, t \subseteq Shown(items), NEW f
  PROVE  /\ IsFiniteSet(Skipped(t, items, k, f))
         /\ Cardinality(Skipped(t, items, k, f)) \in Nat
         /\ Sweep(t, items, k, f) \in Nat
         /\ IsFiniteSet(t \ Shown(f))
         /\ Cardinality(t \ Shown(f)) \in Nat
         /\ Cardinality(t \ Shown(f)) <= Sweep(t, items, k, f)
  <1> DEFINE n == k * PageSize
             skipped == Skipped(t, items, k, f)
             rest == Shown(items) \ FirstPlaces(items, n)
  <1>1. n \in Nat /\ Len(items) \in Nat
    BY Places, LenProperties
  <1>2. IsFiniteSet(Shown(items))
    BY ShownCount
  <1>3. skipped \subseteq Shown(items) /\ IsFiniteSet(rest) /\ t \ Shown(f) \subseteq Shown(items)
    BY <1>2, FS_Subset DEF Skipped
  <1>4. /\ IsFiniteSet(skipped) /\ Cardinality(skipped) \in Nat
        /\ IsFiniteSet(t \ Shown(f)) /\ Cardinality(t \ Shown(f)) \in Nat
    BY <1>2, <1>3, CountWithin
  <1>5. Ahead(items, k) \in Nat
    BY PageLength
  <1>6. Cardinality(rest) \in Nat /\ Cardinality(rest) <= Ahead(items, k)
    <2>1. CASE Len(items) <= n
      <3>1. rest = {}
        BY <1>1, <2>1, AllPlaces
      <3>2. Cardinality(rest) = 0
        BY <3>1, FS_EmptySet
      <3> HIDE DEF rest
      <3> QED BY <1>5, <3>2
    <2>2. CASE ~(Len(items) <= n)
      <3>1. n <= Len(items) /\ Ahead(items, k) = Len(items) - n
        BY <1>1, <2>2 DEF Ahead
      <3> QED BY <1>1, <3>1, AllPlaces
    <2> QED BY <2>1, <2>2
  <1>7. t \ Shown(f) \subseteq skipped \cup rest
    BY DEF Skipped
  <1> HIDE DEF skipped, rest
  <1>8. /\ IsFiniteSet(skipped \cup rest)
        /\ Cardinality(skipped \cup rest) \in Nat
        /\ Cardinality(skipped \cup rest) <= Cardinality(skipped) + Cardinality(rest)
    BY <1>3, <1>4, CountUnion
  <1>9. Cardinality(t \ Shown(f)) <= Cardinality(skipped \cup rest)
    BY <1>7, <1>8, CountWithin
  <1>10. Cardinality(t \ Shown(f)) <= Cardinality(skipped) + Ahead(items, k)
    BY <1>4, <1>5, <1>6, <1>8, <1>9
  <1> QED BY <1>4, <1>5, <1>10 DEF Sweep, skipped

\* Before the first page everything is ahead.
LEMMA SweepStart ==
  ASSUME NEW items \in Seq(Item), NEW t, NEW f
  PROVE  /\ Skipped(t, items, 0, f) = {}
         /\ Sweep(t, items, 0, f) = Len(items)
  <1>1. 0 * PageSize = 0 /\ Len(items) \in Nat
    BY PageSizeAssumption, LenProperties
  <1>2. \A j \in DOMAIN items : ~(j <= 0)
    BY LenProperties
  <1>3. Skipped(t, items, 0, f) = {}
    BY <1>1, <1>2 DEF Skipped, FirstPlaces
  <1>4. Cardinality(Skipped(t, items, 0, f)) = 0
    BY <1>3, FS_EmptySet
  <1>5. Ahead(items, 0) = Len(items)
    BY <1>1 DEF Ahead
  <1> QED BY <1>1, <1>3, <1>4, <1>5 DEF Sweep

\* An arrival hides nothing that was there; it may be ahead itself.
LEMMA SweepArrival ==
  ASSUME NEW items \in Seq(Item), Distinct(items), NEW s \in Arrivals(items), NEW k \in Nat,
         NEW t, t \subseteq Shown(items), NEW u, u \subseteq t, NEW f
  PROVE  /\ Cardinality(Skipped(u, s, k, f)) <= Cardinality(Skipped(t, items, k, f))
         /\ Sweep(u, s, k, f) <= Sweep(t, items, k, f) + 1
  <1>1. k * PageSize \in Nat
    BY Places
  <1>2. PICK x \in Item :
          /\ x \notin Shown(items)
          /\ \A n \in Nat : FirstPlaces(s, n) \subseteq FirstPlaces(items, n) \cup {x}
    BY ArrivalFacts
  <1>3. Skipped(u, s, k, f) \subseteq Skipped(t, items, k, f)
    BY <1>1, <1>2 DEF Skipped
  <1>4. /\ Cardinality(Skipped(u, s, k, f)) \in Nat
        /\ Cardinality(Skipped(t, items, k, f)) \in Nat
        /\ Cardinality(Skipped(u, s, k, f)) <= Cardinality(Skipped(t, items, k, f))
    BY <1>3, SweepFacts, CountWithin
  <1>5. s \in Seq(Item) /\ Len(s) = Len(items) + 1 /\ Len(items) \in Nat
    BY ArrivalFacts, LenProperties
  <1>6. Ahead(s, k) \in Nat /\ Ahead(items, k) \in Nat
    BY <1>5, PageLength
  <1>7. Ahead(s, k) <= Ahead(items, k) + 1
    <2> DEFINE n == k * PageSize
    <2>1. /\ n \in Nat /\ Ahead(s, k) = IF Len(s) <= n THEN 0 ELSE Len(s) - n
          /\ Ahead(items, k) = IF Len(items) <= n THEN 0 ELSE Len(items) - n
      BY <1>1 DEF Ahead
    <2> HIDE DEF n
    <2> QED BY <1>5, <2>1
  <1> QED BY <1>4, <1>6, <1>7 DEF Sweep

\* A departure can hide one item that moves to a page already read, and then
\* there is one less ahead.
LEMMA SweepDeparture ==
  ASSUME NEW items \in Seq(Item), Distinct(items), NEW s \in Departures(items), NEW k \in Nat,
         NEW t, t \subseteq Shown(items), NEW u, u \subseteq t, NEW f
  PROVE  /\ Cardinality(Skipped(u, s, k, f)) <= Cardinality(Skipped(t, items, k, f)) + 1
         /\ Sweep(u, s, k, f) <= Sweep(t, items, k, f)
  <1> DEFINE n == k * PageSize
             after == Cardinality(Skipped(u, s, k, f))
             before == Cardinality(Skipped(t, items, k, f))
  <1>1. n \in Nat
    BY Places
  <1>2. /\ s \in Seq(Item) /\ Len(s) = Len(items) - 1 /\ Shown(s) \subseteq Shown(items)
        /\ Len(items) \in Nat /\ Len(s) \in Nat
    BY DepartureFacts, LenProperties
  <1>3. IsFiniteSet(Skipped(t, items, k, f)) /\ before \in Nat
    BY SweepFacts
  <1>4. after \in Nat /\ after <= before + 1
    <2>1. PICK y : FirstPlaces(s, n) \subseteq FirstPlaces(items, n) \cup {y}
      BY <1>1, DepartureFacts
    <2>2. Skipped(u, s, k, f) \subseteq Skipped(t, items, k, f) \cup {y}
      BY <2>1 DEF Skipped
    <2> QED BY <1>3, <2>2, CountOneMore
  <1>5. ASSUME Len(items) <= n PROVE after <= before
    <2>1. /\ FirstPlaces(items, n) = Shown(items)
          /\ FirstPlaces(s, n) \subseteq Shown(s)
      BY <1>1, <1>2, <1>5, AllPlaces
    <2>2. Skipped(u, s, k, f) \subseteq Skipped(t, items, k, f)
      BY <1>2, <2>1 DEF Skipped
    <2> QED BY <1>3, <2>2, CountWithin
  <1>6. /\ Ahead(s, k) = IF Len(s) <= n THEN 0 ELSE Len(s) - n
        /\ Ahead(items, k) = IF Len(items) <= n THEN 0 ELSE Len(items) - n
        /\ Sweep(u, s, k, f) = after + Ahead(s, k)
        /\ Sweep(t, items, k, f) = before + Ahead(items, k)
    BY DEF Ahead, Sweep
  <1> HIDE DEF n, after, before
  <1>7. CASE Len(items) <= n
    <2>1. Ahead(s, k) = 0 /\ Ahead(items, k) = 0
      BY <1>1, <1>2, <1>6, <1>7
    <2> QED BY <1>3, <1>4, <1>5, <1>6, <1>7, <2>1 DEF after, before
  <1>8. CASE n < Len(items)
    <2>1. /\ Ahead(items, k) \in Nat /\ Ahead(s, k) \in Nat
          /\ Ahead(items, k) = Ahead(s, k) + 1
      BY <1>1, <1>2, <1>6, <1>8
    <2> QED BY <1>3, <1>4, <1>6, <2>1 DEF after, before
  <1> QED BY <1>1, <1>2, <1>7, <1>8

\* The next page takes what it shows from what is ahead, and skips nothing.
LEMMA SweepPage ==
  ASSUME NEW items \in Seq(Item), NEW k \in Nat, NEW t, t \subseteq Shown(items), NEW f, NEW g,
         Shown(f) \subseteq Shown(g), Shown(Page(items, k)) \cap t \subseteq Shown(g)
  PROVE  /\ Cardinality(Skipped(t, items, k + 1, g)) <= Cardinality(Skipped(t, items, k, f))
         /\ Sweep(t, items, k + 1, g) + Len(Page(items, k)) <= Sweep(t, items, k, f)
  <1>1. FirstPlaces(items, (k + 1) * PageSize) =
          FirstPlaces(items, k * PageSize) \cup Shown(Page(items, k))
    BY PageFacts
  <1>2. Skipped(t, items, k + 1, g) \subseteq Skipped(t, items, k, f)
    BY <1>1 DEF Skipped
  <1>3. /\ IsFiniteSet(Skipped(t, items, k, f))
        /\ Cardinality(Skipped(t, items, k, f)) \in Nat
    BY SweepFacts
  <1>4. /\ Cardinality(Skipped(t, items, k + 1, g)) \in Nat
        /\ Cardinality(Skipped(t, items, k + 1, g)) <= Cardinality(Skipped(t, items, k, f))
    BY <1>2, <1>3, CountWithin
  <1>5. /\ Len(Page(items, k)) + Ahead(items, k + 1) = Ahead(items, k)
        /\ Ahead(items, k) \in Nat
    BY PageLength
  <1>6. Ahead(items, k + 1) \in Nat /\ Len(Page(items, k)) \in Nat
    <2>1. k + 1 \in Nat
      OBVIOUS
    <2>2. Ahead(items, k + 1) \in Nat
      BY <2>1, PageLength
    <2>3. Len(Page(items, k)) \in Nat
      BY PageFacts
    <2> QED BY <2>2, <2>3
  <1> QED BY <1>3, <1>4, <1>5, <1>6 DEF Sweep
=================================================================================
