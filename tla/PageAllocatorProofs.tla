------------------------ MODULE PageAllocatorProofs ------------------------
(***************************************************************************)
(* Proofs about PageAllocator, for every size of the table, every memory   *)
(* map with disjoint descriptors, every list of reserved regions and every *)
(* pattern of calls.                                                       *)
(***************************************************************************)
EXTENDS PageAllocator, TLAPS, Numbers, FiniteSetTheorems

-----------------------------------------------------------------------------
(* Tables: what each move of the array does to the set of free pages.      *)

\* A table t of n slots that satisfies what memory.c relies on.
GoodTable(t, n) ==
  /\ n \in Nat
  /\ t \in [0 .. (n - 1) -> FreePageRange]
  /\ \A i \in 0 .. (n - 1) : t[i].pages > 0
  /\ \A i, j \in 0 .. (n - 1) : i < j => RangeEnd(t[i]) < t[j].base

Covered(t, n) == UNION {PagesOf(t[i]) : i \in 0 .. (n - 1)}

\* The fields of a slot of a table, in the form the provers use.
LEMMA SlotFacts ==
  ASSUME NEW t, NEW n, GoodTable(t, n), NEW i \in 0 .. (n - 1)
  PROVE  /\ t[i] \in FreePageRange
         /\ t[i].base \in Nat
         /\ t[i].pages \in Nat
         /\ t[i].pages > 0
         /\ RangeEnd(t[i]) = t[i].base + t[i].pages
         /\ RangeEnd(t[i]) \in Nat
         /\ n \in Nat
         /\ i \in Nat
BY DEF GoodTable, FreePageRange, RangeEnd

\* A range that shares no page with a table lies before or after each slot.
LEMMA DisjointMeansApart ==
  ASSUME NEW t, NEW n, GoodTable(t, n),
         NEW r \in FreePageRange, r.pages > 0,
         PagesOf(r) \cap Covered(t, n) = {},
         NEW i \in 0 .. (n - 1)
  PROVE  RangeEnd(r) <= t[i].base \/ RangeEnd(t[i]) <= r.base
<1>1. /\ t[i].base \in Nat /\ t[i].pages \in Nat /\ t[i].pages > 0
      /\ r.base \in Nat /\ r.pages \in Nat
  BY SlotFacts DEF FreePageRange
<1>2. SUFFICES ASSUME RangeEnd(r) > t[i].base, RangeEnd(t[i]) > r.base
               PROVE  \E p \in Nat : p \in PagesOf(r) /\ p \in PagesOf(t[i])
  BY <1>1 DEF RangeEnd, Covered
<1>3. CASE r.base >= t[i].base
  <2>1. r.base \in PagesOf(r) /\ r.base \in PagesOf(t[i])
    BY <1>1, <1>2, <1>3 DEF PagesOf, RangeEnd
  <2> QED BY <2>1, <1>1
<1>4. CASE r.base < t[i].base
  <2>1. t[i].base \in PagesOf(r) /\ t[i].base \in PagesOf(t[i])
    BY <1>1, <1>2, <1>4 DEF PagesOf, RangeEnd
  <2> QED BY <2>1, <1>1
<1> QED BY <1>1, <1>3, <1>4

\* A table with one slot rewritten (an operator of its own, so that the
\* provers match the lemma by name).
WithNewSlot(t, s, r) == [t EXCEPT ![s] = r]

\* Rewriting one slot, its neighbours being far enough away.
LEMMA ReplaceSlot ==
  ASSUME NEW t, NEW n, GoodTable(t, n),
         NEW s \in 0 .. (n - 1), NEW r \in FreePageRange, r.pages > 0,
         \A i \in 0 .. (s - 1) : RangeEnd(t[i]) < r.base,
         \A i \in (s + 1) .. (n - 1) : RangeEnd(r) < t[i].base
  PROVE  /\ GoodTable(WithNewSlot(t, s, r), n)
         /\ Covered(WithNewSlot(t, s, r), n)
              = (Covered(t, n) \ PagesOf(t[s])) \cup PagesOf(r)
<1> DEFINE u == WithNewSlot(t, s, r)
<1>1. /\ n \in Nat
      /\ DOMAIN t = 0 .. (n - 1)
      /\ u[s] = r
      /\ \A i \in 0 .. (n - 1) : i # s => u[i] = t[i]
  BY DEF GoodTable, WithNewSlot
<1> HIDE DEF u
<1>2. GoodTable(u, n)
  <2>1. u \in [0 .. (n - 1) -> FreePageRange]
    BY DEF GoodTable, WithNewSlot, u
  <2>2. \A i \in 0 .. (n - 1) : u[i].pages > 0
    BY <1>1 DEF GoodTable
  <2>3. ASSUME NEW i \in 0 .. (n - 1), NEW j \in 0 .. (n - 1), i < j
        PROVE  RangeEnd(u[i]) < u[j].base
    <3>1. CASE i = s
      BY <3>1, <2>3, <1>1
    <3>2. CASE j = s
      BY <3>2, <2>3, <1>1
    <3>3. CASE i # s /\ j # s
      BY <3>3, <2>3, <1>1 DEF GoodTable
    <3> QED BY <3>1, <3>2, <3>3
  <2> QED BY <2>1, <2>2, <2>3, <1>1 DEF GoodTable
<1>3. \A i \in 0 .. (n - 1) : i # s => PagesOf(t[i]) \cap PagesOf(t[s]) = {}
  <2> SUFFICES ASSUME NEW i \in 0 .. (n - 1), i # s
               PROVE  PagesOf(t[i]) \cap PagesOf(t[s]) = {}
    OBVIOUS
  <2>1. RangeEnd(t[i]) < t[s].base \/ RangeEnd(t[s]) < t[i].base
    BY <1>1 DEF GoodTable
  <2>2. /\ t[i].base \in Nat /\ RangeEnd(t[i]) \in Nat
        /\ t[s].base \in Nat /\ RangeEnd(t[s]) \in Nat
    BY SlotFacts
  <2> QED BY <2>1, <2>2 DEF PagesOf
<1>4. Covered(u, n) = (Covered(t, n) \ PagesOf(t[s])) \cup PagesOf(r)
  <2>1. ASSUME NEW p \in Covered(u, n)
        PROVE  p \in (Covered(t, n) \ PagesOf(t[s])) \cup PagesOf(r)
    <3>1. PICK i \in 0 .. (n - 1) : p \in PagesOf(u[i])
      BY <2>1 DEF Covered
    <3> QED BY <3>1, <1>1, <1>3 DEF Covered
  <2>2. ASSUME NEW p \in Covered(t, n), p \notin PagesOf(t[s])
        PROVE  p \in Covered(u, n)
    <3>1. PICK i \in 0 .. (n - 1) : p \in PagesOf(t[i])
      BY <2>2 DEF Covered
    <3> QED BY <3>1, <2>2, <1>1 DEF Covered
  <2>3. PagesOf(r) \subseteq Covered(u, n)
    BY <1>1 DEF Covered
  <2> QED BY <2>1, <2>2, <2>3
<1> QED BY <1>2, <1>4 DEF u

\* Closing a slot takes exactly its pages out of the table.
LEMMA RemoveSlot ==
  ASSUME NEW t, NEW n, GoodTable(t, n), NEW s \in 0 .. (n - 1)
  PROVE  /\ GoodTable(WithoutSlot(t, n, s), n - 1)
         /\ Covered(WithoutSlot(t, n, s), n - 1) = Covered(t, n) \ PagesOf(t[s])
<1> DEFINE u == WithoutSlot(t, n, s)
<1>1. n \in Nat /\ n > 0 /\ n - 1 \in Nat /\ s \in Nat
  BY DEF GoodTable
<1>2. /\ u = [k \in 0 .. (n - 1 - 1) |-> IF k < s THEN t[k] ELSE t[k + 1]]
      /\ \A k \in 0 .. (n - 1 - 1) :
           /\ k < s  => u[k] = t[k] /\ k \in 0 .. (n - 1)
           /\ k >= s => u[k] = t[k + 1] /\ (k + 1) \in 0 .. (n - 1)
  BY <1>1 DEF WithoutSlot
<1> HIDE DEF u
<1>3. GoodTable(u, n - 1)
  <2>1. u \in [0 .. (n - 1 - 1) -> FreePageRange]
    BY <1>1, <1>2 DEF GoodTable
  <2>2. \A i \in 0 .. (n - 1 - 1) : u[i].pages > 0
    BY <1>1, <1>2 DEF GoodTable
  <2>3. ASSUME NEW i \in 0 .. (n - 1 - 1), NEW j \in 0 .. (n - 1 - 1), i < j
        PROVE  RangeEnd(u[i]) < u[j].base
    <3>1. CASE j < s
      BY <3>1, <2>3, <1>1, <1>2 DEF GoodTable
    <3>2. CASE i < s /\ j >= s
      BY <3>2, <2>3, <1>1, <1>2 DEF GoodTable
    <3>3. CASE i >= s
      BY <3>3, <2>3, <1>1, <1>2 DEF GoodTable
    <3> QED BY <3>1, <3>2, <3>3, <1>1
  <2> QED BY <2>1, <2>2, <2>3, <1>1 DEF GoodTable
<1>4. Covered(u, n - 1) = Covered(t, n) \ PagesOf(t[s])
  <2>1. ASSUME NEW p \in Covered(u, n - 1)
        PROVE  p \in Covered(t, n) /\ p \notin PagesOf(t[s])
    <3>1. PICK k \in 0 .. (n - 1 - 1) : p \in PagesOf(u[k])
      BY <2>1 DEF Covered
    <3>2. PICK i \in 0 .. (n - 1) : u[k] = t[i] /\ i # s
      BY <1>1, <1>2
    <3>3. RangeEnd(t[i]) < t[s].base \/ RangeEnd(t[s]) < t[i].base
      BY <3>2, <1>1 DEF GoodTable
    <3>4. /\ t[i].base \in Nat /\ RangeEnd(t[i]) \in Nat
          /\ t[s].base \in Nat /\ RangeEnd(t[s]) \in Nat
      BY SlotFacts
    <3>5. p \notin PagesOf(t[s])
      BY <3>1, <3>2, <3>3, <3>4 DEF PagesOf
    <3> QED BY <3>1, <3>2, <3>5 DEF Covered
  <2>2. ASSUME NEW p \in Covered(t, n), p \notin PagesOf(t[s])
        PROVE  p \in Covered(u, n - 1)
    <3>1. PICK i \in 0 .. (n - 1) : p \in PagesOf(t[i])
      BY <2>2 DEF Covered
    <3>2. i < s => i \in 0 .. (n - 1 - 1) /\ u[i] = t[i]
      BY <1>1, <1>2
    <3>3. i > s => (i - 1) \in 0 .. (n - 1 - 1) /\ u[i - 1] = t[i]
      BY <1>1, <1>2
    <3> QED BY <3>1, <3>2, <3>3, <2>2, <1>1 DEF Covered
  <2> QED BY <2>1, <2>2
<1> QED BY <1>3, <1>4 DEF u

\* Opening a slot for a range that fits between its neighbours.
LEMMA InsertSlot ==
  ASSUME NEW t, NEW n, GoodTable(t, n),
         NEW s \in 0 .. n, NEW r \in FreePageRange, r.pages > 0,
         \A i \in 0 .. (s - 1) : RangeEnd(t[i]) < r.base,
         \A i \in s .. (n - 1) : RangeEnd(r) < t[i].base
  PROVE  /\ GoodTable(WithSlot(t, n, s, r), n + 1)
         /\ Covered(WithSlot(t, n, s, r), n + 1) = Covered(t, n) \cup PagesOf(r)
<1> DEFINE u == WithSlot(t, n, s, r)
<1>1. n \in Nat /\ n + 1 \in Nat /\ s \in Nat /\ n + 1 - 1 = n
  BY DEF GoodTable
<1>2. /\ u = [k \in 0 .. n |->
                IF k < s THEN t[k] ELSE IF k = s THEN r ELSE t[k - 1]]
      /\ \A k \in 0 .. n :
           /\ k < s => u[k] = t[k] /\ k \in 0 .. (n - 1)
           /\ k = s => u[k] = r
           /\ k > s => u[k] = t[k - 1] /\ (k - 1) \in s .. (n - 1)
                       /\ (k - 1) \in 0 .. (n - 1)
  BY <1>1 DEF WithSlot
<1> HIDE DEF u
<1>3. GoodTable(u, n + 1)
  <2>1. u \in [0 .. n -> FreePageRange]
    BY <1>1, <1>2 DEF GoodTable
  <2>2. \A i \in 0 .. n : u[i].pages > 0
    BY <1>1, <1>2 DEF GoodTable
  <2>3. ASSUME NEW i \in 0 .. n, NEW j \in 0 .. n, i < j
        PROVE  RangeEnd(u[i]) < u[j].base
    <3>1. CASE j < s
      BY <3>1, <2>3, <1>1, <1>2 DEF GoodTable
    <3>2. CASE j = s
      BY <3>2, <2>3, <1>1, <1>2
    <3>3. CASE i < s /\ j > s
      BY <3>3, <2>3, <1>1, <1>2 DEF GoodTable
    <3>4. CASE i = s
      BY <3>4, <2>3, <1>1, <1>2
    <3>5. CASE i > s
      BY <3>5, <2>3, <1>1, <1>2 DEF GoodTable
    <3> QED BY <3>1, <3>2, <3>3, <3>4, <3>5, <1>1
  <2> QED BY <2>1, <2>2, <2>3, <1>1 DEF GoodTable
<1>4. Covered(u, n + 1) = Covered(t, n) \cup PagesOf(r)
  <2>1. ASSUME NEW p \in Covered(u, n + 1)
        PROVE  p \in Covered(t, n) \cup PagesOf(r)
    <3>1. PICK k \in 0 .. n : p \in PagesOf(u[k])
      BY <2>1, <1>1 DEF Covered
    <3> QED BY <3>1, <1>1, <1>2 DEF Covered
  <2>2. ASSUME NEW p \in Covered(t, n)
        PROVE  p \in Covered(u, n + 1)
    <3>1. PICK i \in 0 .. (n - 1) : p \in PagesOf(t[i])
      BY <2>2 DEF Covered
    <3>2. i < s => i \in 0 .. n /\ u[i] = t[i]
      BY <1>1, <1>2
    <3>3. i >= s => (i + 1) \in 0 .. n /\ u[i + 1] = t[i]
      BY <1>1, <1>2
    <3> QED BY <3>1, <3>2, <3>3, <1>1 DEF Covered
  <2>3. PagesOf(r) \subseteq Covered(u, n + 1)
    BY <1>1, <1>2 DEF Covered
  <2> QED BY <2>1, <2>2, <2>3
<1> QED BY <1>3, <1>4 DEF u

-----------------------------------------------------------------------------
(* append_free_range and alloc_pages on the table.                         *)

TableOK == GoodTable(ranges, count) /\ count <= MaxRanges

\* append_free_range keeps the table sorted and coalesced and adds exactly
\* the pages it is given, when none of them is free already.
LEMMA AppendCorrect ==
  ASSUME TableOK,
         NEW base \in Nat, NEW pages \in Nat, pages > 0,
         PagesOf([base |-> base, pages |-> pages]) \cap FreePages = {},
         append_free_range(base, pages)
  PROVE  /\ TableOK'
         /\ FreePages' = FreePages \cup PagesOf([base |-> base, pages |-> pages])
<1> DEFINE r == [base |-> base, pages |-> pages]
<1>0. /\ GoodTable(ranges, count)
      /\ count \in Nat /\ MaxRanges \in Nat /\ count < MaxRanges
      /\ r \in FreePageRange /\ r.base = base /\ r.pages = pages
      /\ RangeEnd(r) = base + pages
      /\ FreePages = Covered(ranges, count)
      /\ PagesOf(r) \cap Covered(ranges, count) = {}
  BY ConstantsAssumption
  DEF TableOK, GoodTable, append_free_range, AppendRefused, FreePageRange, RangeEnd,
      FreePages, Covered
<1> HIDE DEF r
<1>1. \A i \in 0 .. (count - 1) :
        RangeEnd(r) <= ranges[i].base \/ RangeEnd(ranges[i]) <= base
  BY <1>0, DisjointMeansApart
<1>2. \A i \in 0 .. (count - 1) :
        /\ ranges[i].base \in Nat /\ ranges[i].pages \in Nat
        /\ ranges[i].pages > 0
        /\ RangeEnd(ranges[i]) = ranges[i].base + ranges[i].pages
  BY <1>0, SlotFacts
<1>3. PICK at \in 0 .. count :
        /\ IsInsertIndex(at, base)
        /\ \/ MergePrev(at, base, pages)
           \/ MergeNext(at, base, pages)
           \/ InsertNew(at, base, pages)
  BY DEF append_free_range
<1>4. \A i, j \in 0 .. (count - 1) : i < j => RangeEnd(ranges[i]) < ranges[j].base
  BY <1>0 DEF GoodTable
<1>5. \A k \in 0 .. (at - 1) : k \in 0 .. (count - 1) /\ RangeEnd(ranges[k]) <= base
  BY <1>0, <1>1, <1>2, <1>3 DEF IsInsertIndex
<1>6. \A k \in at .. (count - 1) :
        k \in 0 .. (count - 1) /\ RangeEnd(r) <= ranges[k].base
  <2> SUFFICES ASSUME NEW k \in at .. (count - 1)
               PROVE  k \in 0 .. (count - 1) /\ RangeEnd(r) <= ranges[k].base
    OBVIOUS
  <2>1. at \in 0 .. (count - 1) /\ k \in 0 .. (count - 1)
    BY <1>0
  <2>2. ranges[at].base >= base
    BY <2>1, <1>0, <1>3 DEF IsInsertIndex
  <2>3. k > at => RangeEnd(ranges[at]) < ranges[k].base
    BY <2>1, <1>4
  <2>4. ranges[k].base >= base
    BY <2>1, <2>2, <2>3, <1>2
  <2> QED BY <2>1, <2>4, <1>0, <1>1, <1>2
\* The slots that do not touch the new range keep their distance from it.
<1>7. \A k \in 0 .. (at - 2) : RangeEnd(ranges[k]) < ranges[at - 1].base
  BY <1>0, <1>4
<1>8. \A k \in (at + 1) .. (count - 1) : RangeEnd(ranges[at]) < ranges[k].base
  BY <1>0, <1>4
<1>9. ~ TouchesPrev(at, base) => \A k \in 0 .. (at - 1) : RangeEnd(ranges[k]) < base
  <2> SUFFICES ASSUME ~ TouchesPrev(at, base), NEW k \in 0 .. (at - 1)
               PROVE  RangeEnd(ranges[k]) < base
    OBVIOUS
  <2>1. (at - 1) \in 0 .. (at - 1) /\ at > 0
    BY <1>0
  <2>2. RangeEnd(ranges[at - 1]) < base
    BY <2>1, <1>2, <1>5 DEF TouchesPrev
  <2>3. k # at - 1 => RangeEnd(ranges[k]) < ranges[at - 1].base
    BY <1>7, <1>0
  <2> QED BY <2>1, <2>2, <2>3, <1>2, <1>5
<1>10. ~ TouchesNext(at, RangeEnd(r)) =>
         \A k \in at .. (count - 1) : RangeEnd(r) < ranges[k].base
  <2> SUFFICES ASSUME ~ TouchesNext(at, RangeEnd(r)), NEW k \in at .. (count - 1)
               PROVE  RangeEnd(r) < ranges[k].base
    OBVIOUS
  <2>1. at \in at .. (count - 1) /\ at < count
    BY <1>0
  <2>2. RangeEnd(r) < ranges[at].base
    BY <2>1, <1>0, <1>2, <1>6 DEF TouchesNext
  <2>3. k # at => RangeEnd(ranges[at]) < ranges[k].base
    BY <1>8, <1>0
  <2> QED BY <2>1, <2>2, <2>3, <1>0, <1>2, <1>6
<1>11. CASE InsertNew(at, base, pages)
  <2>1. /\ ranges' = WithSlot(ranges, count, at, r)
        /\ count' = count + 1
        /\ ~ TouchesPrev(at, base) /\ ~ TouchesNext(at, RangeEnd(r))
    BY <1>11, <1>0 DEF InsertNew, r
  <2>2. /\ GoodTable(ranges', count')
        /\ Covered(ranges', count') = Covered(ranges, count) \cup PagesOf(r)
    BY <2>1, <1>0, <1>9, <1>10, InsertSlot
  <2>3. count' <= MaxRanges
    BY <2>1, <1>0, ConstantsAssumption
  <2>4. FreePages' = Covered(ranges', count') /\ FreePages = Covered(ranges, count)
    BY DEF FreePages, Covered
  <2> QED BY <2>2, <2>3, <2>4 DEF TableOK, r
<1>12. CASE MergeNext(at, base, pages)
  <2> DEFINE q == [base |-> base, pages |-> ranges[at].pages + pages]
  <2>1. /\ at \in 0 .. (count - 1)
        /\ RangeEnd(r) = ranges[at].base
        /\ ranges' = [ranges EXCEPT ![at] = q]
        /\ count' = count
        /\ ~ TouchesPrev(at, base)
    BY <1>12, <1>0 DEF MergeNext, TouchesNext
  <2>2. /\ q \in FreePageRange /\ q.pages > 0 /\ q.base = base
        /\ RangeEnd(q) = RangeEnd(ranges[at])
        /\ PagesOf(q) = PagesOf(r) \cup PagesOf(ranges[at])
    BY <2>1, <1>0, <1>2 DEF RangeEnd, PagesOf, FreePageRange
  <2> HIDE DEF q
  <2>3. /\ GoodTable(ranges', count')
        /\ Covered(ranges', count')
             = (Covered(ranges, count) \ PagesOf(ranges[at])) \cup PagesOf(q)
    <3>1. \A i \in 0 .. (at - 1) : RangeEnd(ranges[i]) < q.base
      BY <2>1, <2>2, <1>9
    <3>2. \A i \in (at + 1) .. (count - 1) : RangeEnd(q) < ranges[i].base
      BY <2>2, <1>8
    <3>3. /\ ranges' = WithNewSlot(ranges, at, q)
          /\ count' = count
          /\ at \in 0 .. (count - 1)
      BY <2>1 DEF WithNewSlot
    <3> QED BY <3>1, <3>2, <3>3, <2>2, <1>0, ReplaceSlot
  <2>4. PagesOf(ranges[at]) \subseteq Covered(ranges, count)
    BY <2>1 DEF Covered
  <2> QED BY <2>1, <2>2, <2>3, <2>4, <1>0 DEF TableOK, FreePages, Covered, r
<1>13. CASE MergePrev(at, base, pages)
  <2> DEFINE prev == [base  |-> ranges[at - 1].base,
                      pages |-> ranges[at - 1].pages + pages]
  <2>1. /\ (at - 1) \in 0 .. (count - 1) /\ (at - 1) \in 0 .. (at - 1)
        /\ RangeEnd(ranges[at - 1]) = base
    BY <1>13, <1>0 DEF MergePrev, TouchesPrev
  <2>2. /\ prev \in FreePageRange /\ prev.pages > 0 /\ prev.base = ranges[at - 1].base
        /\ prev.pages = ranges[at - 1].pages + pages
        /\ RangeEnd(prev) = RangeEnd(r)
        /\ PagesOf(prev) = PagesOf(r) \cup PagesOf(ranges[at - 1])
    BY <2>1, <1>0, <1>2 DEF RangeEnd, PagesOf, FreePageRange
  <2>3. \/ /\ TouchesNext(at, RangeEnd(prev))
           /\ ranges' = [WithoutSlot(ranges, count, at) EXCEPT ![at - 1] =
                           [base  |-> prev.base,
                            pages |-> prev.pages + ranges[at].pages]]
           /\ count' = count - 1
        \/ /\ ~ TouchesNext(at, RangeEnd(prev))
           /\ ranges' = [ranges EXCEPT ![at - 1] = prev]
           /\ count' = count
    BY <1>13 DEF MergePrev
  <2> HIDE DEF prev
  <2>4. PagesOf(ranges[at - 1]) \subseteq Covered(ranges, count)
    BY <2>1 DEF Covered
  <2>5. CASE ~ TouchesNext(at, RangeEnd(prev))
    <3>1. ranges' = WithNewSlot(ranges, at - 1, prev) /\ count' = count
      BY <2>3, <2>5 DEF WithNewSlot
    <3>2. \A i \in (at - 1 + 1) .. (count - 1) : RangeEnd(prev) < ranges[i].base
      BY <2>2, <2>5, <1>10, <1>0
    <3>3. \A i \in 0 .. (at - 1 - 1) : RangeEnd(ranges[i]) < prev.base
      BY <2>2, <1>7, <1>0
    <3>4. /\ GoodTable(ranges', count')
          /\ Covered(ranges', count')
               = (Covered(ranges, count) \ PagesOf(ranges[at - 1])) \cup PagesOf(prev)
      BY <3>1, <3>2, <3>3, <2>1, <2>2, <1>0, ReplaceSlot
    <3> QED BY <3>1, <3>4, <2>2, <2>4, <1>0 DEF TableOK, FreePages, Covered, r
  <2>6. CASE TouchesNext(at, RangeEnd(prev))
    <3> DEFINE t == WithoutSlot(ranges, count, at)
               q == [base |-> prev.base, pages |-> prev.pages + ranges[at].pages]
    <3>1. /\ ranges' = WithNewSlot(t, at - 1, q)
          /\ count' = count - 1
          /\ at \in 0 .. (count - 1)
          /\ RangeEnd(r) = ranges[at].base
      BY <2>2, <2>3, <2>6, <1>0 DEF TouchesNext, WithNewSlot
    <3>2. /\ GoodTable(t, count - 1)
          /\ Covered(t, count - 1) = Covered(ranges, count) \ PagesOf(ranges[at])
      BY <3>1, <1>0, RemoveSlot
    <3>3. /\ t[at - 1] = ranges[at - 1]
          /\ (at - 1) \in 0 .. (count - 1 - 1)
          /\ \A i \in 0 .. (at - 1 - 1) : t[i] = ranges[i]
          /\ \A i \in (at - 1 + 1) .. (count - 1 - 1) : t[i] = ranges[i + 1]
      BY <3>1, <2>1, <1>0 DEF WithoutSlot
    <3>4. /\ q \in FreePageRange /\ q.pages > 0 /\ q.base = ranges[at - 1].base
          /\ RangeEnd(q) = RangeEnd(ranges[at])
          /\ PagesOf(q) = PagesOf(prev) \cup PagesOf(ranges[at])
      BY <3>1, <2>1, <2>2, <1>0, <1>2 DEF RangeEnd, PagesOf, FreePageRange
    <3> HIDE DEF t, q
    <3>5. \A i \in 0 .. (at - 1 - 1) : RangeEnd(t[i]) < q.base
      BY <3>3, <3>4, <1>7, <1>0
    <3>6. \A i \in (at - 1 + 1) .. (count - 1 - 1) : RangeEnd(q) < t[i].base
      BY <3>3, <3>4, <1>8, <1>0
    <3>7. /\ GoodTable(ranges', count')
          /\ Covered(ranges', count')
               = (Covered(t, count - 1) \ PagesOf(t[at - 1])) \cup PagesOf(q)
      BY <3>1, <3>2, <3>3, <3>4, <3>5, <3>6, ReplaceSlot
    <3>8. PagesOf(ranges[at]) \subseteq Covered(ranges, count)
      BY <3>1 DEF Covered
    <3>9. Covered(ranges', count') = Covered(ranges, count) \cup PagesOf(r)
      BY <3>2, <3>3, <3>4, <3>7, <3>8, <2>2, <2>4
    <3>10. count' <= MaxRanges
      BY <3>1, <1>0
    <3> QED BY <3>7, <3>9, <3>10, <1>0 DEF TableOK, FreePages, Covered, r
  <2> QED BY <2>5, <2>6
<1> QED BY <1>3, <1>11, <1>12, <1>13

\* alloc_pages takes the block it returns, and nothing else, from the table.
LEMMA AllocCorrect ==
  ASSUME TableOK, NEW n \in Nat, NEW b, alloc_pages(n, b)
  PROVE  /\ TableOK'
         /\ b \in FreePageRange /\ b.pages = n /\ n > 0
         /\ PagesOf(b) \subseteq FreePages
         /\ FreePages' = FreePages \ PagesOf(b)
         /\ live' = live \cup {b}
         /\ lost' = lost
<1>1. PICK i \in 0 .. (count - 1) :
        /\ ranges[i].pages >= n
        /\ b = [base |-> ranges[i].base, pages |-> n]
        /\ TakeFront(i, n)
  BY DEF alloc_pages, IsFirstFit
<1>2. /\ GoodTable(ranges, count) /\ count \in Nat /\ MaxRanges \in Nat
      /\ count <= MaxRanges
      /\ FreePages = Covered(ranges, count)
      /\ FreePages' = Covered(ranges', count')
  BY ConstantsAssumption DEF TableOK, GoodTable, FreePages, Covered
<1>3. /\ ranges[i].base \in Nat /\ ranges[i].pages \in Nat /\ ranges[i].pages > 0
      /\ RangeEnd(ranges[i]) = ranges[i].base + ranges[i].pages
  BY <1>2, SlotFacts
<1>4. /\ n > 0 /\ live' = live \cup {b} /\ lost' = lost
  BY DEF alloc_pages
<1>5. /\ b \in FreePageRange /\ b.pages = n /\ b.base = ranges[i].base
      /\ PagesOf(b) \subseteq PagesOf(ranges[i])
  BY <1>1, <1>3, <1>4 DEF FreePageRange, PagesOf, RangeEnd
<1>6. PagesOf(ranges[i]) \subseteq FreePages
  BY <1>2 DEF Covered
<1>7. CASE ranges[i].pages = n
  <2>1. ranges' = WithoutSlot(ranges, count, i) /\ count' = count - 1
    BY <1>1, <1>7 DEF TakeFront
  <2>2. PagesOf(b) = PagesOf(ranges[i])
    BY <1>1, <1>3, <1>7 DEF PagesOf, RangeEnd
  <2>3. /\ GoodTable(ranges', count')
        /\ Covered(ranges', count') = Covered(ranges, count) \ PagesOf(ranges[i])
    BY <2>1, <1>2, RemoveSlot
  <2>4. count' <= MaxRanges
    BY <2>1, <1>2
  <2> QED BY <2>2, <2>3, <2>4, <1>2, <1>4, <1>5, <1>6 DEF TableOK
<1>8. CASE ranges[i].pages # n
  <2> DEFINE r == [base |-> ranges[i].base + n, pages |-> ranges[i].pages - n]
  <2>1. ranges' = WithNewSlot(ranges, i, r) /\ count' = count
    BY <1>1, <1>8 DEF TakeFront, WithNewSlot
  <2>2. /\ r \in FreePageRange /\ r.pages > 0 /\ r.base = ranges[i].base + n
        /\ RangeEnd(r) = RangeEnd(ranges[i])
        /\ PagesOf(r) = PagesOf(ranges[i]) \ PagesOf(b)
    BY <1>1, <1>3, <1>4, <1>5, <1>8 DEF FreePageRange, PagesOf, RangeEnd
  <2> HIDE DEF r
  <2>3. \A k \in 0 .. (i - 1) : RangeEnd(ranges[k]) < r.base
    <3> SUFFICES ASSUME NEW k \in 0 .. (i - 1)
                 PROVE  RangeEnd(ranges[k]) < r.base
      OBVIOUS
    <3>1. k \in 0 .. (count - 1) /\ RangeEnd(ranges[k]) < ranges[i].base
      BY <1>2 DEF GoodTable
    <3>2. RangeEnd(ranges[k]) \in Nat
      BY <3>1, <1>2, SlotFacts
    <3> QED BY <3>1, <3>2, <2>2, <1>3
  <2>4. \A k \in (i + 1) .. (count - 1) : RangeEnd(r) < ranges[k].base
    BY <2>2, <1>2 DEF GoodTable
  <2>5. /\ GoodTable(ranges', count')
        /\ Covered(ranges', count')
             = (Covered(ranges, count) \ PagesOf(ranges[i])) \cup PagesOf(r)
    BY <2>1, <2>2, <2>3, <2>4, <1>2, ReplaceSlot
  <2> QED BY <2>1, <2>2, <2>5, <1>2, <1>4, <1>5, <1>6 DEF TableOK
<1> QED BY <1>7, <1>8

-----------------------------------------------------------------------------
(* reserve_range on the table.                                             *)

RegionPages(r) == ReserveFirst(r) .. (ReserveEnd(r) - 1)

\* The bounds of a region, in pages.
LEMMA RegionBounds ==
  ASSUME NEW r \in Region
  PROVE  ReserveFirst(r) \in Nat /\ ReserveEnd(r) \in Nat
<1>1. r.start \in Nat /\ r.end \in Nat /\ PageSize \in Nat /\ PageSize > 0
  BY ConstantsAssumption DEF Region
<1>2. \A x \in Nat : x \div PageSize \in Nat
  BY <1>1
<1> QED BY <1>1, <1>2
        DEF ReserveFirst, ReserveEnd, AlignDownToPage, AlignUpToPage

\* The slots the loop of reserve_range has passed hold no page of the region.
PassedClear ==
  \A k \in 0 .. (index - 1) :
    k < count => PagesOf(ranges[k]) \cap RegionPages(Regions[cursor]) = {}

\* What an iteration that finds an overlap starts from.
LEMMA OverlapFacts ==
  ASSUME TableOK, cursor \in Nat \ {0}, index \in Nat,
         NEW left, NEW right, AtOverlap(left, right)
  PROVE  /\ index \in 0 .. (count - 1)
         /\ Regions[cursor] \in Region
         /\ ReserveFirst(Regions[cursor]) \in Nat
         /\ ReserveEnd(Regions[cursor]) \in Nat
         /\ ReserveFirst(Regions[cursor]) < ReserveEnd(Regions[cursor])
         /\ ReserveFirst(Regions[cursor]) < RangeEnd(ranges[index])
         /\ ranges[index].base < ReserveEnd(Regions[cursor])
         /\ GoodTable(ranges, count) /\ count \in Nat /\ count <= MaxRanges
         /\ FreePages = Covered(ranges, count)
         /\ PagesOf(ranges[index]) \subseteq FreePages
<1>1. /\ cursor \in 1 .. Len(Regions) /\ index < count
      /\ GoodTable(ranges, count) /\ count \in Nat /\ count <= MaxRanges
      /\ FreePages = Covered(ranges, count)
  BY ConstantsAssumption
  DEF AtOverlap, TableOK, GoodTable, FreePages, Covered
<1>2. index \in 0 .. (count - 1) /\ Regions[cursor] \in Region
  BY <1>1, ConstantsAssumption
<1>3. /\ ReserveFirst(Regions[cursor]) \in Nat
      /\ ReserveEnd(Regions[cursor]) \in Nat
  BY <1>2, RegionBounds
<1>4. /\ ReserveFirst(Regions[cursor]) < ReserveEnd(Regions[cursor])
      /\ ReserveFirst(Regions[cursor]) < RangeEnd(ranges[index])
      /\ ReserveEnd(Regions[cursor]) > ranges[index].base
  BY DEF AtOverlap
<1>5. ranges[index].base \in Nat
  BY <1>1, <1>2, SlotFacts
<1>6. PagesOf(ranges[index]) \subseteq FreePages
  BY <1>1, <1>2 DEF Covered
<1> QED BY <1>1, <1>2, <1>3, <1>4, <1>5, <1>6

\* A range inside the region goes.
LEMMA ReserveDeleteCorrect ==
  ASSUME TableOK, cursor \in Nat \ {0}, index \in Nat, PassedClear,
         ReserveDelete
  PROVE  TableOK' /\ FreePages' \subseteq FreePages /\ PassedClear'
<1>1. /\ AtOverlap(FALSE, FALSE)
      /\ ranges' = WithoutSlot(ranges, count, index)
      /\ count' = count - 1 /\ index' = index /\ cursor' = cursor
  BY DEF ReserveDelete
<1>2. /\ index \in 0 .. (count - 1)
      /\ GoodTable(ranges, count) /\ count \in Nat /\ count <= MaxRanges
      /\ FreePages = Covered(ranges, count)
  BY <1>1, OverlapFacts
<1>3. /\ GoodTable(ranges', count')
      /\ Covered(ranges', count') = Covered(ranges, count) \ PagesOf(ranges[index])
  BY <1>1, <1>2, RemoveSlot
<1>4. FreePages' = Covered(ranges', count')
  BY DEF FreePages, Covered
<1>5. count' <= MaxRanges
  BY <1>1, <1>2, ConstantsAssumption
<1>6. \A k \in 0 .. (index - 1) : k < count' => ranges'[k] = ranges[k] /\ k < count
  BY <1>1, <1>2 DEF WithoutSlot
<1>7. PassedClear'
  BY <1>1, <1>6 DEF PassedClear, RegionPages, PagesOf, RangeEnd, ReserveFirst,
                    ReserveEnd, AlignUpToPage, AlignDownToPage
<1> QED BY <1>2, <1>3, <1>4, <1>5, <1>7 DEF TableOK

\* A range that sticks out of the region at one end is cut at that end.
LEMMA ReserveTrimCorrect ==
  ASSUME TableOK, cursor \in Nat \ {0}, index \in Nat, PassedClear,
         ReserveTrim
  PROVE  TableOK' /\ FreePages' \subseteq FreePages /\ PassedClear'
<1> DEFINE first == ReserveFirst(Regions[cursor])
           end   == ReserveEnd(Regions[cursor])
<1>1. PICK r : /\ \/ AtOverlap(FALSE, TRUE) /\ r = RightPart(index)
                  \/ AtOverlap(TRUE, FALSE) /\ r = LeftPart(index)
               /\ ranges' = [ranges EXCEPT ![index] = r]
               /\ count' = count /\ index' = index + 1 /\ cursor' = cursor
  BY DEF ReserveTrim
<1>2. /\ index \in 0 .. (count - 1)
      /\ first \in Nat /\ end \in Nat /\ first < end
      /\ first < RangeEnd(ranges[index]) /\ ranges[index].base < end
      /\ GoodTable(ranges, count) /\ count \in Nat /\ count <= MaxRanges
      /\ FreePages = Covered(ranges, count)
      /\ PagesOf(ranges[index]) \subseteq FreePages
  BY <1>1, OverlapFacts
<1>3. /\ ranges[index].base \in Nat /\ ranges[index].pages \in Nat
      /\ RangeEnd(ranges[index]) = ranges[index].base + ranges[index].pages
      /\ RangeEnd(ranges[index]) \in Nat
  BY <1>2, SlotFacts
<1>4. /\ r \in FreePageRange /\ r.pages > 0
      /\ r.base >= ranges[index].base /\ RangeEnd(r) <= RangeEnd(ranges[index])
      /\ RangeEnd(r) <= first \/ end <= r.base
  <2>1. CASE AtOverlap(FALSE, TRUE) /\ r = RightPart(index)
    <3>1. end < RangeEnd(ranges[index])
      BY <2>1 DEF AtOverlap
    <3>2. r.base = end /\ r.pages = RangeEnd(ranges[index]) - end
          /\ r = [base |-> end, pages |-> RangeEnd(ranges[index]) - end]
      BY <2>1 DEF RightPart
    <3> QED BY <3>1, <3>2, <1>2, <1>3 DEF FreePageRange, RangeEnd
  <2>2. CASE AtOverlap(TRUE, FALSE) /\ r = LeftPart(index)
    <3>1. first > ranges[index].base
      BY <2>2 DEF AtOverlap
    <3>2. r.base = ranges[index].base /\ r.pages = first - ranges[index].base
          /\ r = [base |-> ranges[index].base, pages |-> first - ranges[index].base]
      BY <2>2 DEF LeftPart
    <3> QED BY <3>1, <3>2, <1>2, <1>3 DEF FreePageRange, RangeEnd
  <2> QED BY <1>1, <2>1, <2>2
<1>5. r.base \in Nat /\ RangeEnd(r) \in Nat
  BY <1>4 DEF FreePageRange, RangeEnd
<1>6. \A k \in 0 .. (index - 1) : RangeEnd(ranges[k]) < r.base
  <2> SUFFICES ASSUME NEW k \in 0 .. (index - 1)
               PROVE  RangeEnd(ranges[k]) < r.base
    OBVIOUS
  <2>1. k \in 0 .. (count - 1) /\ RangeEnd(ranges[k]) < ranges[index].base
    BY <1>2 DEF GoodTable
  <2>2. RangeEnd(ranges[k]) \in Nat
    BY <2>1, <1>2, SlotFacts
  <2> QED BY <2>1, <2>2, <1>3, <1>4, <1>5
<1>7. \A k \in (index + 1) .. (count - 1) : RangeEnd(r) < ranges[k].base
  <2> SUFFICES ASSUME NEW k \in (index + 1) .. (count - 1)
               PROVE  RangeEnd(r) < ranges[k].base
    OBVIOUS
  <2>1. k \in 0 .. (count - 1) /\ RangeEnd(ranges[index]) < ranges[k].base
    BY <1>2 DEF GoodTable
  <2>2. ranges[k].base \in Nat
    BY <2>1, <1>2, SlotFacts
  <2> QED BY <2>1, <2>2, <1>3, <1>4, <1>5
<1>8. ranges' = WithNewSlot(ranges, index, r) /\ count' = count
  BY <1>1 DEF WithNewSlot
<1>9. /\ GoodTable(ranges', count')
      /\ Covered(ranges', count')
           = (Covered(ranges, count) \ PagesOf(ranges[index])) \cup PagesOf(r)
  BY <1>2, <1>4, <1>6, <1>7, <1>8, ReplaceSlot
<1>10. FreePages' = Covered(ranges', count')
  BY DEF FreePages, Covered
<1>11. PagesOf(r) \subseteq PagesOf(ranges[index])
  BY <1>3, <1>4, <1>5 DEF PagesOf
<1>12. PagesOf(r) \cap RegionPages(Regions[cursor]) = {}
  BY <1>2, <1>4, <1>5 DEF PagesOf, RegionPages
<1>13. /\ ranges'[index] = r
       /\ \A k \in 0 .. (index - 1) : k < count => ranges'[k] = ranges[k]
  BY <1>1, <1>2 DEF GoodTable
<1>14. \A k \in 0 .. index :
         k < count => PagesOf(ranges'[k]) \cap RegionPages(Regions[cursor]) = {}
  BY <1>12, <1>13, <1>2 DEF PassedClear
<1>15. PassedClear'
  BY <1>14, <1>1, <1>2
  DEF PassedClear, RegionPages, PagesOf, RangeEnd, ReserveFirst, ReserveEnd,
      AlignUpToPage, AlignDownToPage
<1> QED BY <1>2, <1>8, <1>9, <1>10, <1>11, <1>15 DEF TableOK

\* A range around the region becomes the two ranges beside it.
LEMMA ReserveSplitCorrect ==
  ASSUME TableOK, cursor \in Nat \ {0}, index \in Nat, PassedClear,
         ReserveSplit, pc' = pc
  PROVE  TableOK' /\ FreePages' \subseteq FreePages /\ PassedClear'
<1> DEFINE first == ReserveFirst(Regions[cursor])
           end   == ReserveEnd(Regions[cursor])
           left  == LeftPart(index)
           right == RightPart(index)
           t     == WithNewSlot(ranges, index, left)
<1>1. /\ AtOverlap(TRUE, TRUE) /\ count < MaxRanges
      /\ ranges' = WithSlot(t, count, index + 1, right)
      /\ count' = count + 1 /\ index' = index + 2 /\ cursor' = cursor
  BY DEF ReserveSplit, AtOverlap, WithNewSlot
<1>2. /\ index \in 0 .. (count - 1)
      /\ first \in Nat /\ end \in Nat /\ first < end
      /\ GoodTable(ranges, count) /\ count \in Nat /\ MaxRanges \in Nat
      /\ FreePages = Covered(ranges, count)
      /\ PagesOf(ranges[index]) \subseteq FreePages
  BY <1>1, OverlapFacts, ConstantsAssumption
<1>3. /\ ranges[index].base \in Nat /\ ranges[index].pages \in Nat
      /\ RangeEnd(ranges[index]) = ranges[index].base + ranges[index].pages
      /\ RangeEnd(ranges[index]) \in Nat
  BY <1>2, SlotFacts
<1>4. first > ranges[index].base /\ end < RangeEnd(ranges[index])
  BY <1>1 DEF AtOverlap
<1>5. /\ left \in FreePageRange /\ left.pages > 0 /\ left.base = ranges[index].base
      /\ RangeEnd(left) = first
  BY <1>2, <1>3, <1>4 DEF LeftPart, FreePageRange, RangeEnd
<1>6. /\ right \in FreePageRange /\ right.pages > 0 /\ right.base = end
      /\ RangeEnd(right) = RangeEnd(ranges[index])
  BY <1>2, <1>3, <1>4 DEF RightPart, FreePageRange, RangeEnd
<1> HIDE DEF left, right, first, end
<1>7. \A k \in (index + 1) .. (count - 1) :
        /\ k \in 0 .. (count - 1) /\ RangeEnd(ranges[index]) < ranges[k].base
        /\ RangeEnd(left) < ranges[k].base
  <2> SUFFICES ASSUME NEW k \in (index + 1) .. (count - 1)
               PROVE  /\ k \in 0 .. (count - 1)
                      /\ RangeEnd(ranges[index]) < ranges[k].base
                      /\ RangeEnd(left) < ranges[k].base
    OBVIOUS
  <2>1. k \in 0 .. (count - 1) /\ RangeEnd(ranges[index]) < ranges[k].base
    BY <1>2 DEF GoodTable
  <2>2. ranges[k].base \in Nat
    BY <2>1, <1>2, SlotFacts
  <2> QED BY <2>1, <2>2, <1>2, <1>3, <1>4, <1>5
<1>8. \A k \in 0 .. (index - 1) :
        k \in 0 .. (count - 1) /\ RangeEnd(ranges[k]) < left.base
  BY <1>2, <1>5 DEF GoodTable
<1>9. /\ GoodTable(t, count)
      /\ Covered(t, count)
           = (Covered(ranges, count) \ PagesOf(ranges[index])) \cup PagesOf(left)
  BY <1>2, <1>5, <1>7, <1>8, ReplaceSlot
<1>10. /\ t[index] = left
       /\ \A k \in 0 .. (count - 1) : k # index => t[k] = ranges[k]
  BY <1>2 DEF WithNewSlot, GoodTable
<1> HIDE DEF t
<1>11. \A k \in 0 .. (index + 1 - 1) : RangeEnd(t[k]) < right.base
  <2> SUFFICES ASSUME NEW k \in 0 .. index
               PROVE  RangeEnd(t[k]) < right.base
    BY <1>2
  <2>1. CASE k = index
    BY <2>1, <1>2, <1>5, <1>6, <1>10
  <2>2. CASE k # index
    <3>1. k \in 0 .. (count - 1) /\ RangeEnd(ranges[k]) < left.base
      BY <2>2, <1>2, <1>8
    <3>2. RangeEnd(ranges[k]) \in Nat
      BY <3>1, <1>2, SlotFacts
    <3> QED BY <3>1, <3>2, <2>2, <1>2, <1>3, <1>4, <1>5, <1>6, <1>10
  <2> QED BY <2>1, <2>2
<1>12. \A k \in (index + 1) .. (count - 1) : RangeEnd(right) < t[k].base
  BY <1>2, <1>6, <1>7, <1>10
<1>13. index + 1 \in 0 .. count
  BY <1>2
<1>14. /\ GoodTable(ranges', count')
       /\ Covered(ranges', count') = Covered(t, count) \cup PagesOf(right)
  BY <1>1, <1>6, <1>9, <1>11, <1>12, <1>13, InsertSlot
<1>15. FreePages' = Covered(ranges', count')
  BY DEF FreePages, Covered
<1>16. /\ PagesOf(left) \subseteq PagesOf(ranges[index])
       /\ PagesOf(right) \subseteq PagesOf(ranges[index])
  BY <1>2, <1>3, <1>4, <1>5, <1>6 DEF PagesOf
<1>17. FreePages' \subseteq FreePages
  BY <1>2, <1>9, <1>14, <1>15, <1>16
<1>18. /\ PagesOf(left) \cap RegionPages(Regions[cursor]) = {}
       /\ PagesOf(right) \cap RegionPages(Regions[cursor]) = {}
  <2>1. RegionPages(Regions[cursor]) = first .. (end - 1)
    BY DEF RegionPages, first, end
  <2>2. RangeEnd(right) \in Nat /\ left.base \in Nat
    BY <1>3, <1>5, <1>6
  <2> QED BY <2>1, <2>2, <1>2, <1>5, <1>6 DEF PagesOf
<1>19. /\ \A k \in 0 .. (index - 1) : ranges'[k] = ranges[k]
       /\ ranges'[index] = left
       /\ ranges'[index + 1] = right
  <2>1. \A k \in 0 .. count :
          ranges'[k] = IF k < index + 1 THEN t[k]
                       ELSE IF k = index + 1 THEN right ELSE t[k - 1]
    BY <1>1 DEF WithSlot
  <2>2. \A k \in 0 .. (index - 1) :
          /\ k \in 0 .. count /\ k < index + 1 /\ t[k] = ranges[k]
    BY <1>2, <1>8, <1>10
  <2>3. /\ index \in 0 .. count /\ index < index + 1
        /\ index + 1 \in 0 .. count /\ ~ (index + 1 < index + 1)
    BY <1>2
  <2> QED BY <2>1, <2>2, <2>3, <1>10
<1>20. \A k \in 0 .. (index + 1) :
         PagesOf(ranges'[k]) \cap RegionPages(Regions[cursor]) = {}
  <2>1. \A k \in 0 .. (index - 1) :
          PagesOf(ranges[k]) \cap RegionPages(Regions[cursor]) = {}
    BY <1>2, <1>8 DEF PassedClear
  <2> SUFFICES ASSUME NEW k \in 0 .. (index + 1)
               PROVE  PagesOf(ranges'[k]) \cap RegionPages(Regions[cursor]) = {}
    OBVIOUS
  <2>2. k \in 0 .. (index - 1) \/ k = index \/ k = index + 1
    BY <1>2
  <2> QED BY <2>1, <2>2, <1>18, <1>19
<1>21. PassedClear'
  BY <1>20, <1>1, <1>2
  DEF PassedClear, RegionPages, PagesOf, RangeEnd, ReserveFirst, ReserveEnd,
      AlignUpToPage, AlignDownToPage
<1>22. count' <= MaxRanges
  BY <1>1, <1>2
<1> QED BY <1>14, <1>17, <1>21, <1>22 DEF TableOK

-----------------------------------------------------------------------------
(* The inductive invariant.  Ownership is about pages: the table, the      *)
(* blocks callers hold and the pages that were dropped share nothing and   *)
(* add up to what memory_init left.  Control ties the phases of kmain() to *)
(* it.                                                                     *)

Ownership ==
  /\ TableOK
  /\ live \subseteq FreePageRange
  /\ \A b \in live : b.pages > 0
  /\ lost \subseteq Nat
  /\ managed \subseteq Nat
  /\ PagesExclusive
  /\ PagesConserved

ControlType ==
  /\ pc \in Phases
  /\ memory_map \in MemoryMaps
  /\ cursor \in Nat \ {0}
  /\ index \in Nat
  /\ total_pages \in Nat
  /\ test \in [first : FreePageRange, second : FreePageRange]

\* Nothing is handed out before memory_init is done, and from then on the
\* table was filled with something.
ControlReady ==
  /\ pc \in {"map", "reserve"} => managed = {}
  /\ managed = {} => live = {} /\ lost = {}
  /\ pc \notin {"map", "reserve", "panic"} => managed # {}

\* While the map is read, the table holds pages of the descriptors read so
\* far only: the next descriptor cannot overlap a range before it, which
\* append_free_range does not check.
ControlMap ==
  pc = "map" =>
    \A p \in FreePages :
      \E d \in 1 .. (cursor - 1) :
        d \in DOMAIN memory_map /\ p \in DescriptorPages(memory_map[d])

\* While regions are cut out, those done and the passed part of the current
\* one are clear of free pages; in the end all are.
ControlReserve ==
  /\ pc = "reserve" =>
       /\ \A r \in 1 .. Len(Regions) :
            r < cursor => RegionPages(Regions[r]) \cap FreePages = {}
       /\ cursor <= Len(Regions) => PassedClear
  /\ \A r \in 1 .. Len(Regions) : RegionPages(Regions[r]) \cap managed = {}

\* The blocks memory_self_test is about to free are its own.
ControlTest ==
  /\ pc \in {"test_second", "test_free_second", "test_free_first"} =>
       test.first \in live /\ test.first.pages = 1
  /\ pc = "test_free_second" => test.second \in live /\ test.second.pages = 2
  /\ pc = "test_free_scratch" => test.second \in live

IInv ==
  /\ Ownership
  /\ ControlType /\ ControlReady /\ ControlMap /\ ControlReserve /\ ControlTest

\* Steps that touch neither the table nor the owners.
LEMMA OwnershipUnchanged ==
  ASSUME Ownership, UNCHANGED <<ranges, count, live, lost, managed>>
  PROVE  Ownership' /\ FreePages' = FreePages
BY DEF Ownership, TableOK, GoodTable, PagesExclusive, PagesConserved, FreePages,
       LivePages, PagesOf, RangeEnd

\* alloc_pages moves a block from the table to its caller.
LEMMA OwnershipAlloc ==
  ASSUME Ownership, managed # {}, managed' = managed,
         NEW n \in Nat, NEW b, alloc_pages(n, b)
  PROVE  /\ Ownership' /\ b \in FreePageRange /\ b.pages = n /\ n > 0
         /\ PagesOf(b) \subseteq FreePages /\ FreePages' = FreePages \ PagesOf(b)
         /\ live' = live \cup {b} /\ lost' = lost
<1>1. /\ TableOK'
      /\ b \in FreePageRange /\ b.pages = n /\ n > 0
      /\ PagesOf(b) \subseteq FreePages
      /\ FreePages' = FreePages \ PagesOf(b)
      /\ live' = live \cup {b}
      /\ lost' = lost
  BY AllocCorrect DEF Ownership
<1>2. LivePages' = LivePages \cup PagesOf(b)
  BY <1>1 DEF LivePages, PagesOf, RangeEnd
<1>3. \A c \in live : PagesOf(c) \subseteq LivePages
  BY DEF LivePages
<1>4. PagesExclusive'
  <2>1. (FreePages \cap LivePages = {}) /\ lost \cap (FreePages \cup LivePages) = {}
        /\ \A x, y \in live : x # y => PagesOf(x) \cap PagesOf(y) = {}
    BY DEF Ownership, PagesExclusive
  <2>2. \A c \in live : PagesOf(c) \cap PagesOf(b) = {}
    BY <2>1, <1>1, <1>3
  <2>3. \A x, y \in live' : x # y => PagesOf(x) \cap PagesOf(y) = {}
    BY <2>1, <2>2, <1>1
  <2>4. FreePages' \cap LivePages' = {}
    BY <2>1, <1>1, <1>2
  <2>5. lost' \cap (FreePages' \cup LivePages') = {}
    BY <2>1, <1>1, <1>2
  <2> QED BY <2>3, <2>4, <2>5 DEF PagesExclusive, PagesOf, RangeEnd
<1>5. PagesConserved'
  BY <1>1, <1>2 DEF Ownership, PagesConserved
<1> QED BY <1>1, <1>4, <1>5 DEF Ownership

\* free_pages moves a block from its caller to the table; when it drops it
\* the table is full.
LEMMA OwnershipFree ==
  ASSUME Ownership, managed # {}, managed' = managed,
         NEW b \in live, free_pages(b)
  PROVE  /\ Ownership'
         /\ live' = live \ {b}
         /\ \/ FreePages' = FreePages \cup PagesOf(b) /\ lost' = lost
            \/ FreePages' = FreePages /\ count = MaxRanges
<1>1. /\ b \in FreePageRange /\ b.base \in Nat /\ b.pages \in Nat /\ b.pages > 0
      /\ b = [base |-> b.base, pages |-> b.pages]
      /\ live' = live \ {b}
  BY DEF Ownership, FreePageRange, free_pages
<1>2. /\ PagesOf(b) \cap FreePages = {} /\ PagesOf(b) \cap lost = {}
      /\ PagesOf(b) \subseteq LivePages
      /\ FreePages \cap LivePages = {} /\ lost \cap (FreePages \cup LivePages) = {}
      /\ \A x, y \in live : x # y => PagesOf(x) \cap PagesOf(y) = {}
  BY DEF Ownership, PagesExclusive, LivePages
<1>3. LivePages' = LivePages \ PagesOf(b)
  <2>1. LivePages' = UNION {PagesOf(c) : c \in live \ {b}}
    BY <1>1 DEF LivePages, PagesOf, RangeEnd
  <2>2. ASSUME NEW p \in LivePages' PROVE p \in LivePages /\ p \notin PagesOf(b)
    <3>1. PICK c \in live \ {b} : p \in PagesOf(c)
      BY <2>1, <2>2
    <3> QED BY <3>1, <1>2 DEF LivePages
  <2>3. ASSUME NEW p \in LivePages, p \notin PagesOf(b) PROVE p \in LivePages'
    BY <2>1, <2>3 DEF LivePages
  <2> QED BY <2>2, <2>3
<1>4. PagesOf(b) \subseteq Nat /\ LivePages \subseteq Nat /\ b.pages # 0
  BY <1>1 DEF PagesOf, RangeEnd, LivePages, Ownership, FreePageRange
<1>5. CASE append_free_range(b.base, b.pages) /\ lost' = lost
  <2>1. TableOK' /\ FreePages' = FreePages \cup PagesOf(b)
    BY <1>1, <1>2, <1>5, AppendCorrect DEF Ownership
  <2>2. PagesExclusive'
    <3>1. FreePages' \cap LivePages' = {}
      BY <2>1, <1>2, <1>3
    <3>2. lost' \cap (FreePages' \cup LivePages') = {}
      BY <2>1, <1>2, <1>3, <1>5
    <3>3. \A x, y \in live' : x # y => PagesOf(x) \cap PagesOf(y) = {}
      BY <1>1, <1>2
    <3> QED BY <3>1, <3>2, <3>3 DEF PagesExclusive, PagesOf, RangeEnd
  <2>3. PagesConserved'
    BY <2>1, <1>2, <1>3, <1>5 DEF Ownership, PagesConserved
  <2> QED BY <2>1, <2>2, <2>3, <1>1, <1>5 DEF Ownership
<1>6. CASE /\ AppendRefused(b.base, b.pages)
           /\ lost' = lost \cup PagesOf(b)
           /\ UNCHANGED tableVars
  <2>1. /\ ranges' = ranges /\ count' = count
        /\ FreePages' = FreePages
    BY <1>6 DEF tableVars, FreePages, PagesOf, RangeEnd
  <2>2. TableOK'
    BY <2>1 DEF Ownership, TableOK, GoodTable, RangeEnd
  <2>3. count = MaxRanges
    <3>1. TableOK /\ count \in Nat /\ MaxRanges \in Nat /\ count <= MaxRanges
          /\ GoodTable(ranges, count) /\ FreePages = Covered(ranges, count)
      BY ConstantsAssumption DEF Ownership, TableOK, GoodTable, FreePages, Covered
    <3>2. ASSUME NEW at \in 0 .. count, IsInsertIndex(at, b.base), at < count,
                 b.base + b.pages > ranges[at].base
          PROVE  FALSE
      <4>1. at \in 0 .. (count - 1) /\ ranges[at].base >= b.base
        BY <3>1, <3>2 DEF IsInsertIndex
      <4>2. RangeEnd(b) <= ranges[at].base \/ RangeEnd(ranges[at]) <= b.base
        BY <4>1, <3>1, <1>1, <1>2, DisjointMeansApart
      <4>3. /\ ranges[at].base \in Nat /\ ranges[at].pages \in Nat
            /\ ranges[at].pages > 0
            /\ RangeEnd(ranges[at]) = ranges[at].base + ranges[at].pages
        BY <4>1, <3>1, SlotFacts
      <4> QED BY <4>1, <4>2, <4>3, <3>2, <1>1 DEF RangeEnd
    <3> QED BY <3>1, <3>2, <1>6 DEF AppendRefused
  <2>4. PagesExclusive'
    <3>1. FreePages' \cap LivePages' = {}
      BY <2>1, <1>2, <1>3
    <3>2. lost' \cap (FreePages' \cup LivePages') = {}
      BY <2>1, <1>2, <1>3, <1>6
    <3>3. \A x, y \in live' : x # y => PagesOf(x) \cap PagesOf(y) = {}
      BY <1>1, <1>2
    <3> QED BY <3>1, <3>2, <3>3 DEF PagesExclusive, PagesOf, RangeEnd
  <2>5. PagesConserved'
    BY <2>1, <1>2, <1>3, <1>6 DEF Ownership, PagesConserved
  <2> QED BY <2>1, <2>2, <2>3, <2>4, <2>5, <1>1, <1>4, <1>6 DEF Ownership
<1> QED BY <1>5, <1>6 DEF free_pages

-----------------------------------------------------------------------------
(* The invariant is inductive.                                             *)

\* The state kmain() starts in satisfies it.
LEMMA InitIInv == Init => IInv
<1> SUFFICES ASSUME Init PROVE IInv
  OBVIOUS
<1>1. count = 0 /\ 0 .. (count - 1) = {} /\ FreePages = {} /\ LivePages = {}
      /\ MaxRanges \in Nat
  BY ConstantsAssumption DEF Init, FreePages, LivePages
<1>2. TableOK
  BY <1>1 DEF Init, TableOK, GoodTable
<1>3. NoBlock \in FreePageRange
  BY DEF NoBlock, FreePageRange
<1> QED BY <1>1, <1>2, <1>3
        DEF Init, IInv, Ownership, ControlType, ControlReady, ControlMap,
            ControlReserve, ControlTest, PagesExclusive, PagesConserved, Phases

\* The pages a descriptor that is neither empty nor clipped away adds.
LEMMA DescriptorFacts ==
  ASSUME NEW d \in Descriptor, d.conventional,
         DescriptorEnd(d) > DescriptorFirst(d)
  PROVE  LET r == [base  |-> DescriptorFirst(d),
                   pages |-> DescriptorEnd(d) - DescriptorFirst(d)]
         IN  /\ r.base \in Nat /\ r.pages \in Nat /\ r.pages > 0
             /\ PagesOf(r) = DescriptorPages(d)
<1>1. /\ d.start \in Nat /\ d.pages \in Nat /\ PageSize \in Nat /\ PageSize > 0
      /\ MaxPhysPage \in Nat
  BY ConstantsAssumption DEF Descriptor
<1>2. \A x \in Nat : x \div PageSize \in Nat
  BY <1>1
<1>3. d.start + d.pages * PageSize \in Nat
  BY <1>1
<1>4. DescriptorFirst(d) \in Nat /\ DescriptorEnd(d) \in Nat
  BY <1>1, <1>2, <1>3
  DEF DescriptorFirst, DescriptorEnd, AlignUpToPage, AlignDownToPage
<1> QED BY <1>4 DEF PagesOf, RangeEnd, DescriptorPages

\* A descriptor of the map, added or refused.
LEMMA AddDescriptorIInv == IInv /\ AddDescriptor => IInv'
<1> SUFFICES ASSUME IInv, AddDescriptor PROVE IInv'
  OBVIOUS
<1> DEFINE d     == memory_map[cursor]
           base  == DescriptorFirst(d)
           pages == DescriptorEnd(d) - base
           r     == [base |-> base, pages |-> pages]
<1>1. /\ pc = "map" /\ cursor \in 1 .. Len(memory_map)
      /\ memory_map \in Seq(Descriptor) /\ d \in Descriptor
      /\ DOMAIN memory_map = 1 .. Len(memory_map)
      /\ managed = {} /\ live = {} /\ lost = {}
  BY ConstantsAssumption
  DEF AddDescriptor, IInv, ControlType, ControlReady
<1>2. /\ d.conventional /\ DescriptorEnd(d) > DescriptorFirst(d)
      /\ index' = index /\ test' = test /\ live' = live /\ lost' = lost
      /\ memory_map' = memory_map /\ managed' = managed
  BY DEF AddDescriptor, testVars
<1>3. base \in Nat /\ pages \in Nat /\ pages > 0 /\ PagesOf(r) = DescriptorPages(d)
  BY <1>1, <1>2, DescriptorFacts
<1> HIDE DEF d, base, pages, r
<1>4. PagesOf(r) \cap FreePages = {}
  <2> SUFFICES ASSUME NEW p \in PagesOf(r), p \in FreePages
               PROVE  FALSE
    OBVIOUS
  <2>1. PICK k \in 1 .. (cursor - 1) :
          k \in DOMAIN memory_map /\ p \in DescriptorPages(memory_map[k])
    BY <1>1 DEF IInv, ControlMap
  <2>2. k # cursor /\ cursor \in DOMAIN memory_map /\ memory_map \in MemoryMaps
    BY <1>1, <2>1 DEF IInv, ControlType
  <2>3. DescriptorPages(memory_map[k]) \cap DescriptorPages(memory_map[cursor]) = {}
    BY <2>1, <2>2, ConstantsAssumption
  <2> QED BY <2>1, <2>3, <1>3 DEF d
<1>5. LivePages' = {}
  BY <1>1, <1>2 DEF LivePages
<1>6. CASE /\ append_free_range(base, pages)
           /\ total_pages' = total_pages + pages
           /\ cursor' = cursor + 1
           /\ pc' = pc
  <2>1. TableOK' /\ FreePages' = FreePages \cup PagesOf(r)
    BY <1>3, <1>4, <1>6, AppendCorrect DEF IInv, Ownership, r
  <2>2. Ownership'
    BY <2>1, <1>1, <1>2, <1>5 DEF Ownership, PagesExclusive, PagesConserved
  <2>3. ControlType'
    BY <1>1, <1>2, <1>3, <1>6 DEF IInv, ControlType
  <2>4. ControlReady' /\ ControlTest' /\ ControlReserve'
    BY <1>1, <1>2, <1>6 DEF ControlReady, ControlTest, ControlReserve
  <2>5. ControlMap'
    <3> SUFFICES ASSUME NEW p \in FreePages'
                 PROVE  \E k \in 1 .. cursor :
                          k \in DOMAIN memory_map
                          /\ p \in DescriptorPages(memory_map[k])
      <4>1. \A k \in 1 .. cursor : k \in 1 .. (cursor' - 1)
        BY <1>1, <1>6
      <4> QED BY <4>1, <1>2 DEF ControlMap, DescriptorPages, DescriptorFirst,
            DescriptorEnd, AlignUpToPage, AlignDownToPage
    <3>1. CASE p \in FreePages
      BY <3>1, <1>1 DEF IInv, ControlMap
    <3>2. CASE p \in PagesOf(r)
      BY <3>2, <1>1, <1>3 DEF d
    <3> QED BY <3>1, <3>2, <2>1
  <2> QED BY <2>2, <2>3, <2>4, <2>5 DEF IInv
<1>7. CASE /\ AppendRefused(base, pages)
           /\ pc' = "panic"
           /\ UNCHANGED <<total_pages, cursor, tableVars>>
  <2>1. Ownership'
    BY <1>2, <1>7, OwnershipUnchanged DEF IInv, tableVars
  <2> QED BY <2>1, <1>1, <1>2, <1>7
          DEF IInv, ControlType, ControlReady, ControlMap, ControlReserve,
              ControlTest, Phases
<1> QED BY <1>6, <1>7 DEF AddDescriptor, d, base, pages

\* The other steps of memory_init.
LEMMA MemoryInitIInv ==
  IInv /\ (SkipDescriptor \/ MapDone \/ ReserveSkip \/ ReserveDone \/ InitDone)
    => IInv'
<1>1. ASSUME IInv, SkipDescriptor PROVE IInv'
  <2>1. Ownership' /\ FreePages' = FreePages
    BY <1>1, OwnershipUnchanged DEF SkipDescriptor, IInv, tableVars, initVars
  <2>2. /\ pc = "map" /\ pc' = "map" /\ cursor' = cursor + 1 /\ memory_map' = memory_map
        /\ cursor \in Nat \ {0}
        /\ UNCHANGED <<index, test, live, lost, managed, total_pages>>
    BY <1>1 DEF SkipDescriptor, initVars, testVars, IInv, ControlType
  <2>3. ControlMap'
    <3> SUFFICES ASSUME NEW p \in FreePages
                 PROVE  \E k \in 1 .. (cursor' - 1) :
                          k \in DOMAIN memory_map
                          /\ p \in DescriptorPages(memory_map[k])
      BY <2>1, <2>2 DEF ControlMap, DescriptorPages, DescriptorFirst,
            DescriptorEnd, AlignUpToPage, AlignDownToPage
    <3>1. \A k \in 1 .. (cursor - 1) : k \in 1 .. (cursor' - 1)
      BY <2>2
    <3> QED BY <3>1, <2>2, <1>1 DEF IInv, ControlMap
  <2> QED BY <2>1, <2>2, <2>3, <1>1
          DEF IInv, ControlType, ControlReady, ControlReserve, ControlTest
<1>2. ASSUME IInv, MapDone PROVE IInv'
  <2>1. Ownership'
    BY <1>2, OwnershipUnchanged DEF MapDone, IInv, tableVars, initVars
  <2>2. pc' = "reserve" /\ cursor' = 1 /\ index' = 0 /\ managed = {} /\ managed' = {}
    BY <1>2 DEF MapDone, IInv, ControlReady, initVars
  <2>3. ControlReserve'
    BY <2>2 DEF ControlReserve, PassedClear
  <2> QED BY <2>1, <2>3, <1>2
          DEF MapDone, IInv, ControlType, ControlReady, ControlMap, ControlTest,
              Phases, initVars, testVars
<1>3. ASSUME IInv, ReserveSkip PROVE IInv'
  <2>1. Ownership' /\ FreePages' = FreePages
    BY <1>3, OwnershipUnchanged DEF ReserveSkip, IInv, tableVars, initVars
  <2>2. /\ pc = "reserve" /\ cursor \in 1 .. Len(Regions) /\ index \in 0 .. (count - 1)
        /\ index' = index + 1
        /\ UNCHANGED <<pc, cursor, ranges, count, managed>>
        /\ Regions[cursor] \in Region /\ GoodTable(ranges, count)
    BY <1>3, ConstantsAssumption
    DEF ReserveSkip, IInv, ControlType, tableVars, initVars, Ownership, TableOK,
        GoodTable
  <2>3. \/ ReserveEnd(Regions[cursor]) <= ranges[index].base
        \/ ReserveFirst(Regions[cursor]) >= RangeEnd(ranges[index])
    BY <1>3 DEF ReserveSkip
  <2>4. PagesOf(ranges[index]) \cap RegionPages(Regions[cursor]) = {}
    <3>1. /\ ReserveEnd(Regions[cursor]) \in Nat
          /\ ReserveFirst(Regions[cursor]) \in Nat
      BY <2>2, RegionBounds
    <3>2. ranges[index].base \in Nat /\ RangeEnd(ranges[index]) \in Nat
      BY <2>2, SlotFacts
    <3> QED BY <3>1, <3>2, <2>3 DEF PagesOf, RegionPages
  <2>5. \A k \in 0 .. index :
          k < count => PagesOf(ranges[k]) \cap RegionPages(Regions[cursor]) = {}
    <3>1. PassedClear
      BY <1>3, <2>2 DEF IInv, ControlReserve
    <3> QED BY <3>1, <2>2, <2>4 DEF PassedClear
  <2>6. PassedClear'
    BY <2>2, <2>5
    DEF PassedClear, RegionPages, PagesOf, RangeEnd, ReserveFirst, ReserveEnd,
        AlignUpToPage, AlignDownToPage
  <2>7. ControlReserve'
    BY <1>3, <2>1, <2>2, <2>6 DEF IInv, ControlReserve
  <2> QED BY <2>1, <2>7, <1>3
          DEF ReserveSkip, IInv, ControlType, ControlReady, ControlMap, ControlTest,
              Phases, initVars, testVars
<1>4. ASSUME IInv, ReserveDone PROVE IInv'
  <2>1. Ownership' /\ FreePages' = FreePages
    BY <1>4, OwnershipUnchanged DEF ReserveDone, IInv, tableVars, initVars
  <2>2. /\ pc = "reserve" /\ cursor \in 1 .. Len(Regions) /\ index \in Nat
        /\ cursor' = cursor + 1 /\ index' = 0
        /\ UNCHANGED <<pc, managed>>
        /\ Regions[cursor] \in Region /\ count \in Nat
    BY <1>4, ConstantsAssumption
    DEF ReserveDone, IInv, ControlType, initVars, Ownership, TableOK, GoodTable
  <2>3. RegionPages(Regions[cursor]) \cap FreePages = {}
    <3>1. CASE index >= count
      <4>1. PassedClear
        BY <1>4, <2>2 DEF IInv, ControlReserve
      <4>2. \A k \in 0 .. (count - 1) :
              PagesOf(ranges[k]) \cap RegionPages(Regions[cursor]) = {}
        BY <4>1, <3>1, <2>2 DEF PassedClear
      <4> QED BY <4>2 DEF FreePages
    <3>2. CASE ReserveEnd(Regions[cursor]) <= ReserveFirst(Regions[cursor])
      <4>1. /\ ReserveEnd(Regions[cursor]) \in Nat
            /\ ReserveFirst(Regions[cursor]) \in Nat
        BY <2>2, RegionBounds
      <4> QED BY <4>1, <3>2 DEF RegionPages
    <3> QED BY <3>1, <3>2, <1>4 DEF ReserveDone
  <2>4. \A r \in 1 .. Len(Regions) :
          r < cursor + 1 => RegionPages(Regions[r]) \cap FreePages = {}
    BY <2>2, <2>3, <1>4 DEF IInv, ControlReserve
  <2>5. PassedClear'
    BY <2>2 DEF PassedClear
  <2>6. ControlReserve'
    BY <1>4, <2>1, <2>2, <2>4, <2>5 DEF IInv, ControlReserve
  <2> QED BY <2>1, <2>6, <1>4
          DEF ReserveDone, IInv, ControlType, ControlReady, ControlMap, ControlTest,
              Phases, initVars, testVars
<1>5. ASSUME IInv, InitDone PROVE IInv'
  <2>1. /\ pc = "reserve" /\ managed = {} /\ live = {} /\ lost = {}
        /\ UNCHANGED <<ranges, count, live, lost, cursor, index, test, memory_map,
                       total_pages>>
        /\ managed' = FreePages
        /\ pc' = IF count # 0 THEN "test_first" ELSE "panic"
    BY <1>5 DEF InitDone, IInv, ControlReady, tableVars
  <2>2. FreePages' = FreePages /\ LivePages = {} /\ LivePages' = {}
    BY <2>1 DEF FreePages, LivePages, PagesOf, RangeEnd
  <2>3. TableOK' /\ TableOK
    BY <2>1, <1>5 DEF IInv, Ownership, TableOK, GoodTable, RangeEnd
  <2>4. FreePages \subseteq Nat /\ (count # 0 => FreePages # {})
    <3>1. GoodTable(ranges, count) /\ count \in Nat
      BY <2>3 DEF TableOK, GoodTable
    <3>2. \A i \in 0 .. (count - 1) :
            /\ ranges[i].base \in Nat /\ ranges[i].pages \in Nat
            /\ ranges[i].pages > 0
            /\ RangeEnd(ranges[i]) = ranges[i].base + ranges[i].pages
      BY <3>1, SlotFacts
    <3>3. FreePages \subseteq Nat
      BY <3>2 DEF FreePages, PagesOf
    <3>4. ASSUME count # 0 PROVE FreePages # {}
      <4>1. 0 \in 0 .. (count - 1)
        BY <3>1, <3>4
      <4>2. ranges[0].base \in PagesOf(ranges[0])
        BY <4>1, <3>2 DEF PagesOf
      <4> QED BY <4>1, <4>2 DEF FreePages
    <3> QED BY <3>3, <3>4
  <2>5. Ownership'
    BY <2>1, <2>2, <2>3, <2>4 DEF Ownership, PagesExclusive, PagesConserved
  <2>6. ControlReserve'
    <3>1. cursor > Len(Regions) /\ cursor \in Nat /\ Len(Regions) \in Nat
      BY <1>5, ConstantsAssumption DEF InitDone, IInv, ControlType
    <3>2. \A r \in 1 .. Len(Regions) : RegionPages(Regions[r]) \cap FreePages = {}
      BY <3>1, <2>1, <1>5 DEF IInv, ControlReserve
    <3> QED BY <3>2, <2>1 DEF ControlReserve
  <2> QED BY <2>1, <2>4, <2>5, <2>6, <1>5
          DEF IInv, ControlType, ControlReady, ControlMap, ControlTest, Phases
<1> QED BY <1>1, <1>2, <1>3, <1>4, <1>5

\* The steps of reserve_range that cut a range.
LEMMA ReserveCutIInv ==
  IInv /\ (ReserveDelete \/ ReserveTrim \/ ReserveSplit) => IInv'
<1> SUFFICES ASSUME IInv, ReserveDelete \/ ReserveTrim \/ ReserveSplit
             PROVE  IInv'
  OBVIOUS
<1>1. /\ pc = "reserve" /\ cursor <= Len(Regions)
      /\ UNCHANGED <<cursor, test, live, lost, memory_map, managed, total_pages>>
      /\ managed = {} /\ live = {} /\ lost = {}
  BY DEF ReserveDelete, ReserveTrim, ReserveSplit, AtOverlap, initVars, testVars,
         IInv, ControlReady
<1>2. TableOK /\ cursor \in Nat \ {0} /\ index \in Nat /\ PassedClear
  BY <1>1 DEF IInv, Ownership, ControlType, ControlReserve
<1>3. CASE pc' = pc
  <2>1. TableOK' /\ FreePages' \subseteq FreePages /\ PassedClear'
    BY <1>2, <1>3, ReserveDeleteCorrect, ReserveTrimCorrect, ReserveSplitCorrect
  <2>2. LivePages' = {}
    BY <1>1 DEF LivePages
  <2>3. Ownership'
    BY <2>1, <2>2, <1>1 DEF Ownership, PagesExclusive, PagesConserved
  <2>4. index' \in Nat
    <3>1. index' \in {index, index + 1, index + 2}
      BY DEF ReserveDelete, ReserveTrim, ReserveSplit
    <3> QED BY <3>1, <1>2
  <2>5. ControlReserve'
    BY <2>1, <1>1, <1>3 DEF IInv, ControlReserve
  <2> QED BY <2>3, <2>4, <2>5, <1>1, <1>3
          DEF IInv, ControlType, ControlReady, ControlMap, ControlTest
<1>4. CASE pc' # pc
  <2>1. pc' = "panic" /\ index' = index /\ ranges' = ranges /\ count' = count
    BY <1>4 DEF ReserveDelete, ReserveTrim, ReserveSplit, tableVars
  <2>2. Ownership'
    BY <2>1, <1>1, OwnershipUnchanged DEF IInv
  <2> QED BY <2>1, <2>2, <1>1
          DEF IInv, ControlType, ControlReady, ControlMap, ControlReserve,
              ControlTest, Phases
<1> QED BY <1>3, <1>4

\* memory_self_test.
LEMMA SelfTestIInv == IInv /\ SelfTest => IInv'
<1>1. ASSUME IInv, NEW at \in {"test_first", "test_second", "test_scratch"},
             NEW field \in {"first", "second"}, NEW n \in {1, 2, 3}, NEW next,
             \/ at = "test_first" /\ field = "first" /\ n = 1 /\ next = "test_second"
             \/ at = "test_second" /\ field = "second" /\ n = 2
                /\ next = "test_free_second"
             \/ at = "test_scratch" /\ field = "second" /\ n = 3
                /\ next = "test_free_scratch",
             TestAlloc(at, field, n, next)
      PROVE  IInv'
  <2>1. /\ pc = at /\ managed # {}
        /\ UNCHANGED <<cursor, index, memory_map, managed, total_pages>>
    BY <1>1 DEF TestAlloc, initVars, IInv, ControlReady
  <2>2. CASE \E b \in Fronts(n) :
               /\ alloc_pages(n, b)
               /\ test' = [test EXCEPT ![field] = b]
               /\ pc' = next
    <3>1. PICK b : /\ alloc_pages(n, b)
                   /\ test' = [test EXCEPT ![field] = b]
                   /\ pc' = next
      BY <2>2
    <3>2. /\ Ownership' /\ b \in FreePageRange /\ b.pages = n /\ live' = live \cup {b}
      BY <3>1, <2>1, <1>1, OwnershipAlloc DEF IInv
    <3>3. /\ test' \in [first : FreePageRange, second : FreePageRange]
          /\ field = "first" => test'.first = b
          /\ field = "second" => test'.second = b /\ test'.first = test.first
      BY <3>1, <3>2, <1>1 DEF IInv, ControlType
    <3>4. ControlType' /\ ControlReady' /\ ControlMap' /\ ControlReserve'
      BY <3>1, <3>3, <2>1, <1>1
      DEF IInv, ControlType, ControlReady, ControlMap, ControlReserve, Phases
    <3>5. ControlTest'
      BY <3>1, <3>2, <3>3, <2>1, <1>1 DEF IInv, ControlTest
    <3> QED BY <3>2, <3>4, <3>5 DEF IInv
  <2>3. CASE AllocFails(n) /\ pc' = "panic" /\ UNCHANGED <<test, live, lost, tableVars>>
    <3>1. Ownership'
      BY <2>1, <2>3, <1>1, OwnershipUnchanged DEF IInv, tableVars
    <3> QED BY <3>1, <2>1, <2>3, <1>1
            DEF IInv, ControlType, ControlReady, ControlMap, ControlReserve,
                ControlTest, Phases
  <2> QED BY <2>2, <2>3, <1>1 DEF TestAlloc
<1>2. ASSUME IInv,
             NEW at \in {"test_free_second", "test_free_first", "test_free_scratch"},
             NEW field \in {"first", "second"}, NEW next,
             \/ at = "test_free_second" /\ field = "second"
                /\ next = "test_free_first"
             \/ at = "test_free_first" /\ field = "first" /\ next = "test_compare"
             \/ at = "test_free_scratch" /\ field = "second" /\ next = "test_final",
             TestFree(at, field, next)
      PROVE  IInv'
  <2>1. /\ pc = at /\ pc' = next /\ managed # {}
        /\ UNCHANGED <<cursor, index, memory_map, managed, total_pages>>
        /\ test' = [test EXCEPT ![field] = NoBlock]
        /\ free_pages(test[field])
    BY <1>2 DEF TestFree, initVars, IInv, ControlReady
  <2>2. test[field] \in live
    BY <2>1, <1>2 DEF IInv, ControlTest
  <2>3. Ownership' /\ live' = live \ {test[field]}
    BY <2>1, <2>2, <1>2, OwnershipFree DEF IInv
  <2>4. NoBlock \in FreePageRange
    BY DEF NoBlock, FreePageRange
  <2>5. /\ test' \in [first : FreePageRange, second : FreePageRange]
        /\ field = "second" => test'.first = test.first
    BY <2>1, <2>4, <1>2 DEF IInv, ControlType
  <2>6. ControlType' /\ ControlReady' /\ ControlMap' /\ ControlReserve'
    BY <2>1, <2>5, <1>2
    DEF IInv, ControlType, ControlReady, ControlMap, ControlReserve, Phases
  <2>7. ControlTest'
    <3>1. at = "test_free_second" => test.first # test.second /\ test.first \in live
                                     /\ test.first.pages = 1
      BY <2>1, <1>2 DEF IInv, ControlTest
    <3> QED BY <3>1, <2>1, <2>3, <2>5, <1>2 DEF ControlTest
  <2> QED BY <2>3, <2>6, <2>7 DEF IInv
<1>3. ASSUME IInv, NEW at, NEW next,
             \/ at = "test_compare" /\ next = "test_scratch"
             \/ at = "test_final" /\ next = "ready",
             TestCompare(at, next)
      PROVE  IInv'
  <2>1. /\ pc = at /\ pc' \in {next, "panic"}
        /\ UNCHANGED <<cursor, index, test, live, lost, memory_map, managed,
                       total_pages, ranges, count>>
    BY <1>3 DEF TestCompare, initVars, tableVars
  <2>2. Ownership'
    BY <2>1, <1>3, OwnershipUnchanged DEF IInv
  <2> QED BY <2>1, <2>2, <1>3
          DEF IInv, ControlType, ControlReady, ControlMap, ControlReserve,
              ControlTest, Phases
<1> QED BY <1>1, <1>2, <1>3 DEF SelfTest

\* The callers of the running system.
LEMMA ServeIInv == IInv /\ Serve => IInv'
<1> SUFFICES ASSUME IInv, Serve PROVE IInv'
  OBVIOUS
<1>1. /\ pc = "ready" /\ managed # {}
      /\ UNCHANGED <<pc, cursor, index, test, memory_map, managed, total_pages>>
  BY DEF Serve, Alloc, Free, initVars, testVars, IInv, ControlReady
<1>2. Ownership'
  <2>1. ASSUME NEW n \in AllocSizes, Alloc(n) PROVE Ownership'
    <3>1. n \in Nat
      BY ConstantsAssumption
    <3> QED BY <3>1, <2>1, <1>1, OwnershipAlloc DEF Alloc, IInv
  <2>2. ASSUME NEW b \in live, Free(b) PROVE Ownership'
    BY <2>2, <1>1, OwnershipFree DEF Free, IInv
  <2> QED BY <2>1, <2>2 DEF Serve
<1> QED BY <1>1, <1>2
        DEF IInv, ControlType, ControlReady, ControlMap, ControlReserve, ControlTest

\* Every step preserves it.
LEMMA NextIInv == IInv /\ [Next]_vars => IInv'
<1>1. ASSUME IInv, UNCHANGED vars PROVE IInv'
  <2>1. UNCHANGED <<pc, cursor, index, test, live, lost, memory_map, managed,
                    total_pages, ranges, count>>
    BY <1>1 DEF vars, testVars, initVars, tableVars
  <2>2. Ownership' /\ FreePages' = FreePages
    BY <1>1, <2>1, OwnershipUnchanged DEF IInv
  <2>3. PassedClear' <=> PassedClear
    BY <2>1 DEF PassedClear, RegionPages, PagesOf, RangeEnd, ReserveFirst,
                ReserveEnd, AlignUpToPage, AlignDownToPage
  <2>4. ControlReserve' /\ ControlType' /\ ControlReady' /\ ControlTest'
    BY <1>1, <2>1, <2>2, <2>3
    DEF IInv, ControlReserve, ControlType, ControlReady, ControlTest
  <2>5. ControlMap'
    BY <1>1, <2>1, <2>2
    DEF IInv, ControlMap, DescriptorPages, DescriptorFirst, DescriptorEnd,
        AlignUpToPage, AlignDownToPage
  <2> QED BY <2>2, <2>4, <2>5 DEF IInv
<1>2. ASSUME IInv, Boot PROVE IInv'
  BY <1>2, AddDescriptorIInv, MemoryInitIInv, ReserveCutIInv, SelfTestIInv DEF Boot
<1> QED BY <1>1, <1>2, ServeIInv DEF Next

\* Every state of the allocator satisfies the inductive invariant.
THEOREM Invariance == Spec => []IInv
<1>1. Init => IInv
  BY InitIInv
<1>2. IInv /\ [Next]_vars => IInv'
  BY NextIInv
<1> QED BY <1>1, <1>2, PTL DEF Spec

-----------------------------------------------------------------------------
(* What follows.                                                           *)

\* The variables keep their types: in particular the table never outgrows
\* its MaxRanges slots.
THEOREM TypeCorrect == Spec => []TypeOK
<1>1. IInv => TypeOK
  BY ConstantsAssumption
  DEF IInv, TypeOK, Ownership, TableOK, GoodTable, ControlType
<1> QED BY <1>1, Invariance, PTL

\* The table stays sorted and coalesced whatever is allocated and freed.
THEOREM TableStaysSeparated == Spec => []TableSeparated
<1>1. IInv => TableSeparated
  BY DEF IInv, Ownership, TableOK, GoodTable, TableSeparated
<1> QED BY <1>1, Invariance, PTL

\* No page is handed out twice.
THEOREM NoPageShared == Spec => []PagesExclusive
<1>1. IInv => PagesExclusive
  BY DEF IInv, Ownership
<1> QED BY <1>1, Invariance, PTL

\* No page appears or disappears, except through free_pages.
THEOREM NoPageVanishes == Spec => []PagesConserved
<1>1. IInv => PagesConserved
  BY DEF IInv, Ownership
<1> QED BY <1>1, Invariance, PTL

\* free_pages drops a block only when every slot of the table is in use.
THEOREM LossMeansFull == Spec => LostOnlyWhenFull
<1>1. ASSUME IInv, [Next]_vars PROVE [lost' # lost => count = MaxRanges]_vars
  <2> SUFFICES ASSUME lost' # lost PROVE count = MaxRanges
    OBVIOUS
  <2>1. PICK b \in live : free_pages(b) /\ managed' = managed /\ managed # {}
    <3>1. CASE Serve
      BY <3>1, <1>1
      DEF Serve, Alloc, alloc_pages, Free, initVars, IInv, ControlReady
    <3>2. CASE SelfTest
      <4>1. ASSUME NEW at, NEW field, NEW n, NEW next, TestAlloc(at, field, n, next)
            PROVE  lost' = lost
        BY <4>1 DEF TestAlloc, alloc_pages
      <4>2. ASSUME NEW at, NEW next, TestCompare(at, next)
            PROVE  lost' = lost
        BY <4>2 DEF TestCompare
      <4>3. \/ TestFree("test_free_second", "second", "test_free_first")
            \/ TestFree("test_free_first", "first", "test_compare")
            \/ TestFree("test_free_scratch", "second", "test_final")
        BY <3>2, <4>1, <4>2 DEF SelfTest
      <4>4. /\ TestFree("test_free_second", "second", "test_free_first")
                 => test.second \in live /\ free_pages(test.second)
            /\ TestFree("test_free_first", "first", "test_compare")
                 => test.first \in live /\ free_pages(test.first)
            /\ TestFree("test_free_scratch", "second", "test_final")
                 => test.second \in live /\ free_pages(test.second)
        BY <1>1 DEF TestFree, IInv, ControlTest
      <4>5. managed' = managed /\ managed # {}
        BY <4>3, <1>1 DEF TestFree, initVars, IInv, ControlReady
      <4> QED BY <4>3, <4>4, <4>5
    <3>3. CASE Boot /\ ~ SelfTest
      BY <3>3 DEF Boot, SkipDescriptor, AddDescriptor, MapDone, ReserveSkip,
                  ReserveDelete, ReserveTrim, ReserveSplit, ReserveDone, InitDone
    <3>4. CASE UNCHANGED vars
      BY <3>4 DEF vars
    <3> QED BY <3>1, <3>2, <3>3, <3>4, <1>1 DEF Next
  <2>2. \/ FreePages' = FreePages \cup PagesOf(b) /\ lost' = lost
        \/ FreePages' = FreePages /\ count = MaxRanges
    BY <2>1, <1>1, OwnershipFree DEF IInv
  <2> QED BY <2>2
<1> QED BY <1>1, Invariance, PTL DEF Spec, LostOnlyWhenFull

\* Rounding to pages: a page below the rounded-down address ends at or below
\* it, a page from the rounded-up address on starts at or above it.
LEMMA Rounding ==
  ASSUME NEW x \in Nat, NEW p \in Nat
  PROVE  /\ p < AlignDownToPage(x) => (p + 1) * PageSize <= x
         /\ p >= AlignUpToPage(x) => p * PageSize >= x
<1>1. PageSize \in Nat /\ PageSize > 0
  BY ConstantsAssumption
<1>2. \A y \in Nat : /\ y \div PageSize \in Nat
                     /\ (y \div PageSize) * PageSize <= y
                     /\ y < (y \div PageSize) * PageSize + PageSize
  BY <1>1
<1>3. \A a, b \in Nat : a <= b => a * PageSize <= b * PageSize
  BY <1>1
<1>4. ASSUME p < AlignDownToPage(x) PROVE (p + 1) * PageSize <= x
  <2>1. p + 1 \in Nat /\ x \div PageSize \in Nat /\ p + 1 <= x \div PageSize
    BY <1>2, <1>4 DEF AlignDownToPage
  <2>2. (p + 1) * PageSize <= (x \div PageSize) * PageSize
    BY <2>1, <1>3
  <2>3. (x \div PageSize) * PageSize <= x
    BY <1>2
  <2>4. (p + 1) * PageSize \in Nat /\ (x \div PageSize) * PageSize \in Nat
    BY <2>1, <1>1
  <2> QED BY <2>2, <2>3, <2>4
<1>5. ASSUME p >= AlignUpToPage(x) PROVE p * PageSize >= x
  <2> DEFINE y == x + PageSize - 1
             q == y \div PageSize
  <2>1. y \in Nat /\ y = x + PageSize - 1
    BY <1>1
  <2>2. q \in Nat /\ q * PageSize \in Nat /\ y < q * PageSize + PageSize
    BY <2>1, <1>1, <1>2
  <2>3. p >= q
    BY <1>5 DEF AlignUpToPage
  <2> HIDE DEF y, q
  <2>4. q * PageSize <= p * PageSize /\ p * PageSize \in Nat
    BY <2>2, <2>3, <1>1, <1>3
  <2> QED BY <2>1, <2>2, <2>4, <1>1
<1> QED BY <1>4, <1>5

\* No byte of a reserved region is in a page that is free or handed out.
THEOREM ReservedStaysKept == Spec => []ReservedKept
<1>1. ASSUME IInv PROVE ReservedKept
  <2> SUFFICES ASSUME managed # {},
                      NEW p \in FreePages \cup LivePages, NEW r \in 1 .. Len(Regions)
               PROVE  \/ (p + 1) * PageSize <= Regions[r].start
                      \/ p * PageSize >= Regions[r].end
    BY DEF ReservedKept
  <2>1. p \in managed /\ p \in Nat
    BY <1>1 DEF IInv, Ownership, PagesConserved
  <2>2. Regions[r] \in Region /\ Regions[r].start \in Nat /\ Regions[r].end \in Nat
    <3>1. Regions[r] \in Region
      BY ConstantsAssumption
    <3> QED BY <3>1 DEF Region
  <2>3. p \notin RegionPages(Regions[r])
    BY <2>1, <1>1 DEF IInv, ControlReserve
  <2>4. /\ ReserveFirst(Regions[r]) \in Nat /\ ReserveEnd(Regions[r]) \in Nat
    BY <2>2, RegionBounds
  <2>5. \/ p < AlignDownToPage(Regions[r].start)
        \/ p >= AlignUpToPage(Regions[r].end)
    BY <2>1, <2>3, <2>4 DEF RegionPages, ReserveFirst, ReserveEnd
  <2> QED BY <2>1, <2>2, <2>5, Rounding
<1> QED BY <1>1, Invariance, PTL

-----------------------------------------------------------------------------
(* The table implements a set of free pages.                               *)

\* Every step of the allocator is a step of the store, or changes nothing in it.
LEMMA StoreStep ==
  ASSUME IInv, [Next]_vars
  PROVE  [Store!StoreNext]_(Store!storeVars)
<1> DEFINE open == managed # {}
           free == IF managed # {} THEN FreePages ELSE {}
<1>0. \A b \in FreePageRange : Store!RunPages(b) = PagesOf(b)
  BY DEF Store!RunPages, PagesOf, RangeEnd, FreePageRange
<1>1. ASSUME managed' = managed, managed # {}, NEW n \in Nat, NEW b, alloc_pages(n, b)
      PROVE  Store!StoreNext
  <2>1. /\ b \in FreePageRange /\ b.pages > 0 /\ PagesOf(b) \subseteq FreePages
        /\ FreePages' = FreePages \ PagesOf(b) /\ live' = live \cup {b}
    BY <1>1, OwnershipAlloc DEF IInv
  <2>2. Store!Lend(b) /\ b \in live'
    BY <2>1, <1>1, <1>0 DEF Store!Lend
  <2> QED BY <2>2 DEF Store!StoreNext
<1>2. ASSUME managed' = managed, managed # {}, NEW b \in live, free_pages(b)
      PROVE  Store!StoreNext
  <2>1. /\ b \in FreePageRange /\ live' = live \ {b}
        /\ FreePages' = FreePages \/ FreePages' = FreePages \cup PagesOf(b)
    BY <1>2, OwnershipFree DEF IInv, Ownership
  <2>2. Store!TakeBack(b)
    BY <2>1, <1>2, <1>0 DEF Store!TakeBack
  <2> QED BY <2>2 DEF Store!StoreNext
<1>3. ASSUME UNCHANGED <<managed, live>>, managed = {} \/ UNCHANGED <<ranges, count>>
      PROVE  UNCHANGED Store!storeVars
  BY <1>3 DEF Store!storeVars, FreePages, PagesOf, RangeEnd
<1>4. CASE Serve
  <2>1. managed' = managed /\ managed # {}
    BY <1>4 DEF Serve, Alloc, Free, initVars, IInv, ControlReady
  <2> QED BY <2>1, <1>1, <1>2, <1>4, ConstantsAssumption DEF Serve, Alloc, Free
<1>5. CASE SelfTest
  <2>1. managed' = managed /\ managed # {}
    BY <1>5 DEF SelfTest, TestAlloc, TestFree, TestCompare, initVars, IInv, ControlReady
  <2>2. ASSUME NEW at, NEW field, NEW n \in {1, 2, 3}, NEW next,
               TestAlloc(at, field, n, next)
        PROVE  Store!StoreNext \/ UNCHANGED Store!storeVars
    BY <2>1, <2>2, <1>1, <1>3 DEF TestAlloc, tableVars
  <2>3. ASSUME NEW at, NEW next, TestCompare(at, next)
        PROVE  UNCHANGED Store!storeVars
    BY <2>1, <2>3, <1>3 DEF TestCompare, tableVars
  <2>4. /\ TestFree("test_free_second", "second", "test_free_first")
             => test.second \in live /\ free_pages(test.second)
        /\ TestFree("test_free_first", "first", "test_compare")
             => test.first \in live /\ free_pages(test.first)
        /\ TestFree("test_free_scratch", "second", "test_final")
             => test.second \in live /\ free_pages(test.second)
    BY DEF TestFree, IInv, ControlTest
  <2> QED BY <2>1, <2>2, <2>3, <2>4, <1>2, <1>5 DEF SelfTest
<1>6. CASE InitDone
  <2>1. managed = {} /\ managed' = FreePages /\ live' = live /\ FreePages' = FreePages
        /\ FreePages' \subseteq Nat
    <3>1. managed = {} /\ managed' = FreePages /\ live' = live
          /\ ranges' = ranges /\ count' = count
      BY <1>6 DEF InitDone, IInv, ControlReady, tableVars
    <3>2. FreePages' = FreePages
      BY <3>1 DEF FreePages, PagesOf, RangeEnd
    <3>3. managed' \subseteq Nat
      BY NextIInv DEF IInv, Ownership
    <3> QED BY <3>1, <3>2, <3>3
  <2>2. CASE FreePages = {}
    BY <2>1, <2>2 DEF Store!storeVars
  <2>3. CASE FreePages # {}
    <3>1. Store!Fill
      BY <2>1, <2>3 DEF Store!Fill
    <3> QED BY <3>1 DEF Store!StoreNext
  <2> QED BY <2>2, <2>3
<1>7. CASE Boot /\ ~ SelfTest /\ ~ InitDone
  <2>1. managed = {} /\ UNCHANGED <<managed, live>>
    BY <1>7
    DEF Boot, SkipDescriptor, AddDescriptor, MapDone, ReserveSkip, ReserveDelete,
        ReserveTrim, ReserveSplit, ReserveDone, AtOverlap, initVars, IInv,
        ControlReady
  <2> QED BY <2>1, <1>3
<1>8. CASE UNCHANGED vars
  BY <1>8, <1>3 DEF vars, initVars, tableVars
<1> QED BY <1>4, <1>5, <1>6, <1>7, <1>8 DEF Next

\* Refinement: alloc_pages and free_pages behave like a store of pages that
\* lends runs of them.
THEOREM Refinement == Spec => ImplementsStore
<1>1. Init => Store!StoreInit
  BY DEF Init, Store!StoreInit
<1>2. IInv /\ [Next]_vars => [Store!StoreNext]_(Store!storeVars)
  BY StoreStep
<1> QED BY <1>1, <1>2, Invariance, PTL DEF Spec, ImplementsStore, Store!Spec

-----------------------------------------------------------------------------
(* The count of free pages.                                                *)

\* The slots before n, one after the other, and their pages.
Before(t, n) == UNION {PagesOf(t[k]) : k \in 0 .. (n - 1)}

\* The sum over a table is the number of its pages.
LEMMA SumIsCount ==
  ASSUME NEW t, NEW n, GoodTable(t, n), NEW f, f[0] = 0,
         \A k \in 1 .. n : f[k] = f[k - 1] + t[k - 1].pages
  PROVE  IsFiniteSet(Covered(t, n)) /\ f[n] = Cardinality(Covered(t, n))
<1> DEFINE S == {k \in 0 .. n : /\ IsFiniteSet(Before(t, k))
                                /\ f[k] = Cardinality(Before(t, k))}
<1>1. n \in Nat
  BY DEF GoodTable
<1>2. 0 \in S
  <2>1. Before(t, 0) = {}
    BY DEF Before
  <2> QED BY <1>1, <2>1, FS_EmptySet
<1>3. ASSUME NEW k \in 0 .. n - 1, k \in S PROVE k + 1 \in S
  <2> DEFINE P == PagesOf(t[k])
             B == Before(t, k)
  <2>0. t[k].base \in Nat /\ t[k].pages \in Nat
    BY <1>3, SlotFacts
  <2>1. /\ t[k].base \in Nat /\ t[k].pages \in Nat /\ k \in Nat /\ k + 1 \in 1 .. n
        /\ (k + 1) - 1 = k /\ k + 1 \in 0 .. n
    BY <1>1, <1>3, <2>0
  <2>2. P = t[k].base .. (t[k].base + t[k].pages - 1)
    BY <2>0 DEF PagesOf, RangeEnd
  <2>3. IsFiniteSet(P) /\ Cardinality(P) = t[k].pages
    <3> DEFINE a == t[k].base
               b == t[k].base + t[k].pages - 1
    <3>1. a \in Int /\ b \in Int
      BY <2>1
    <3> HIDE DEF a, b
    <3>2. IsFiniteSet(a .. b) /\ Cardinality(a .. b) = IF a > b THEN 0 ELSE b - a + 1
      BY <3>1, FS_Interval
    <3>3. (IF a > b THEN 0 ELSE b - a + 1) = t[k].pages
      BY <2>1 DEF a, b
    <3> QED BY <2>2, <3>2, <3>3 DEF a, b
  <2>4. IsFiniteSet(B) /\ f[k] = Cardinality(B)
    BY <1>3
  <2>5. B \cap P = {}
    <3> SUFFICES ASSUME NEW j \in 0 .. (k - 1), NEW p \in PagesOf(t[j]), p \in P PROVE FALSE
      BY DEF Before
    <3>1. j \in 0 .. (n - 1) /\ j < k
      BY <1>1, <2>1
    <3>2. RangeEnd(t[j]) < t[k].base
      BY <3>1 DEF GoodTable
    <3>3. t[j].base \in Nat /\ t[j].pages \in Nat /\ RangeEnd(t[j]) = t[j].base + t[j].pages
      BY <3>1, SlotFacts
    <3>4. p \in Nat /\ p < RangeEnd(t[j])
      BY <3>3 DEF PagesOf
    <3>5. p >= t[k].base
      BY <2>1, <2>2, <3>4
    <3> QED BY <2>1, <3>2, <3>3, <3>4, <3>5
  <2>6. Before(t, k + 1) = B \cup P
    <3>1. 0 .. ((k + 1) - 1) = (0 .. (k - 1)) \cup {k}
      BY <2>1
    <3> QED BY <3>1 DEF Before
  <2> HIDE DEF P, B
  <2>7. IsFiniteSet(B \cup P) /\ Cardinality(B \cup P) = Cardinality(B) + t[k].pages
    <3>1. IsFiniteSet(B \cup P) /\ Cardinality(B \cup P) =
             Cardinality(B) + Cardinality(P) - Cardinality(B \cap P)
      BY <2>3, <2>4, FS_Union
    <3>2. Cardinality(B \cap P) = 0
      BY <2>5, FS_EmptySet
    <3>3. Cardinality(B) \in Nat
      BY <2>4, FS_CardinalityType
    <3> QED BY <2>1, <2>3, <3>1, <3>2, <3>3
  <2>8. f[k + 1] = f[k] + t[k].pages
    BY <2>1
  <2> QED BY <2>1, <2>4, <2>6, <2>7, <2>8
<1> HIDE DEF S
<1>4. 0 .. n \subseteq S
  BY <1>1, <1>2, <1>3, InductUpTo
<1>5. n \in S
  BY <1>1, <1>4
<1> QED BY <1>5 DEF S, Before, Covered

\* memory_free_pages is the number of free pages.
LEMMA FreePagesCounted ==
  ASSUME TableOK
  PROVE  IsFiniteSet(FreePages) /\ memory_free_pages = Cardinality(FreePages)
<1> DEFINE V == Nat
           Def(f) == [k \in 0 .. count |->
                         IF k = 0 THEN 0 ELSE f[k - 1] + ranges[k - 1].pages]
           F == [k \in Nat |-> [x \in V |->
                    IF k \in 0 .. count - 1 THEN x + ranges[k].pages ELSE x]]
           total == CHOOSE f : f = Def(f)
<1>1. GoodTable(ranges, count) /\ count \in Nat /\ FreePages = Covered(ranges, count)
  BY DEF TableOK, GoodTable, FreePages, Covered
<1>2. \A k \in 0 .. count - 1 : ranges[k].pages \in Nat
  BY <1>1, SlotFacts
<1>3. F \in [Nat -> [V -> V]]
  <2> SUFFICES ASSUME NEW k \in Nat, NEW x \in V PROVE F[k][x] \in V
    OBVIOUS
  <2> QED BY <1>2
<1>4. PICK f \in [0 .. count -> V] : Follows(f, 0, F, count)
  <2>1. 0 \in V
    OBVIOUS
  <2> HIDE DEF F, V
  <2> QED BY <1>1, <1>3, <2>1, FiniteRecursion
<1>5. ASSUME NEW i \in 0 .. count PROVE f[i] = Def(f)[i]
  <2>1. CASE i = 0
    BY <1>4, <2>1 DEF Follows
  <2>2. CASE i # 0
    <3>1. i - 1 \in 0 .. count - 1 /\ (i - 1) + 1 = i /\ f[i - 1] \in V /\ i - 1 \in Nat
          /\ i - 1 \in 0 .. count
      BY <1>1, <2>2
    <3>2. f[i] = F[i - 1][f[i - 1]]
      BY <1>4, <3>1 DEF Follows
    <3>3. F[i - 1][f[i - 1]] = f[i - 1] + ranges[i - 1].pages
      BY <3>1
    <3> QED BY <2>2, <3>2, <3>3
  <2> QED BY <2>1, <2>2
<1>6. f = Def(f)
  BY <1>5
<1>7. total = Def(total)
  BY <1>6
<1> HIDE DEF total
<1>8. total[0] = 0 /\ \A k \in 1 .. count : total[k] = total[k - 1] + ranges[k - 1].pages
  <2>1. \A k \in 0 .. count :
           Def(total)[k] = IF k = 0 THEN 0 ELSE total[k - 1] + ranges[k - 1].pages
    OBVIOUS
  <2>2. 0 \in 0 .. count /\ \A k \in 1 .. count : k \in 0 .. count /\ k # 0
    BY <1>1
  <2> HIDE DEF Def
  <2> QED BY <1>7, <2>1, <2>2
<1>9. IsFiniteSet(Covered(ranges, count)) /\ total[count] = Cardinality(Covered(ranges, count))
  BY <1>1, <1>8, SumIsCount
<1>10. memory_free_pages = total[count]
  BY DEF memory_free_pages, total
<1> QED BY <1>1, <1>9, <1>10

\* The pages that were ever free, and how many they are at most.
Given == IF managed = {} THEN FreePages ELSE managed
GivenBounded ==
  IsFiniteSet(Given) /\ Cardinality(Given) \in Nat /\ Cardinality(Given) <= total_pages

\* Pages are only added with the descriptor they are counted for.
LEMMA GivenStep ==
  ASSUME IInv, IInv', GivenBounded, [Next]_vars
  PROVE  GivenBounded'
<1>0. TableOK /\ total_pages \in Nat /\ TableOK' /\ IsFiniteSet(FreePages)
      /\ Cardinality(FreePages) \in Nat
  BY FreePagesCounted, FS_CardinalityType DEF IInv, Ownership, ControlType
<1>1. ASSUME Given' \subseteq Given, total_pages' = total_pages PROVE GivenBounded'
  <2> DEFINE G == Given
             H == Given'
  <2>1. IsFiniteSet(G) /\ Cardinality(G) \in Nat /\ Cardinality(G) <= total_pages
        /\ H \in SUBSET G
    BY <1>1 DEF GivenBounded
  <2> HIDE DEF G, H
  <2>2. IsFiniteSet(H) /\ Cardinality(H) <= Cardinality(G) /\ Cardinality(H) \in Nat
    BY <2>1, FS_Subset, FS_CardinalityType
  <2>3. Cardinality(H) <= total_pages
    BY <1>0, <2>1, <2>2
  <2> QED BY <1>1, <2>2, <2>3 DEF GivenBounded, H
<1>2. ASSUME managed # {}, managed' = managed, total_pages' = total_pages
      PROVE  GivenBounded'
  BY <1>1, <1>2 DEF Given
<1>3. CASE UNCHANGED vars
  <2>1. Given' = Given /\ total_pages' = total_pages
    BY <1>3 DEF Given, FreePages, PagesOf, RangeEnd, vars, initVars, tableVars
  <2> QED BY <1>1, <2>1
<1>4. CASE SkipDescriptor \/ MapDone \/ ReserveSkip \/ ReserveDone
  <2>1. Given' = Given /\ total_pages' = total_pages
    BY <1>4 DEF SkipDescriptor, MapDone, ReserveSkip, ReserveDone, Given, FreePages,
                PagesOf, RangeEnd, initVars, tableVars
  <2> QED BY <1>1, <2>1
<1>5. CASE ReserveDelete \/ ReserveTrim \/ ReserveSplit
  <2>1. managed = {} /\ managed' = managed /\ total_pages' = total_pages
        /\ pc = "reserve" /\ cursor <= Len(Regions)
    BY <1>5 DEF ReserveDelete, ReserveTrim, ReserveSplit, AtOverlap, initVars, IInv,
                ControlReady
  <2>2. cursor \in Nat \ {0} /\ index \in Nat /\ PassedClear
    BY <2>1 DEF IInv, ControlType, ControlReserve
  <2>3. FreePages' \subseteq FreePages
    <3>1. CASE pc' = pc
      BY <1>0, <1>5, <2>2, <3>1, ReserveDeleteCorrect, ReserveTrimCorrect,
         ReserveSplitCorrect
    <3>2. CASE pc' # pc
      <4>1. ranges' = ranges /\ count' = count
        BY <1>5, <3>2 DEF ReserveDelete, ReserveTrim, ReserveSplit, tableVars
      <4> QED BY <4>1 DEF FreePages, PagesOf, RangeEnd
    <3> QED BY <3>1, <3>2
  <2> QED BY <1>1, <2>1, <2>3 DEF Given
<1>6. CASE InitDone
  <2>1. managed = {} /\ managed' = FreePages /\ total_pages' = total_pages
        /\ ranges' = ranges /\ count' = count
    BY <1>6 DEF InitDone, IInv, ControlReady, tableVars
  <2>2. FreePages' = FreePages
    BY <2>1 DEF FreePages, PagesOf, RangeEnd
  <2> QED BY <1>1, <2>1, <2>2 DEF Given
<1>7. CASE SelfTest \/ Serve
  <2>1. managed # {} /\ managed' = managed /\ total_pages' = total_pages
    BY <1>7 DEF SelfTest, Serve, TestAlloc, TestFree, TestCompare, Alloc, Free, initVars,
                IInv, ControlReady
  <2> QED BY <1>2, <2>1
<1>8. CASE AddDescriptor
  <2> DEFINE d     == memory_map[cursor]
             base  == DescriptorFirst(d)
             pages == DescriptorEnd(d) - base
             r     == [base |-> base, pages |-> pages]
  <2>1. /\ pc = "map" /\ d \in Descriptor /\ managed = {} /\ managed' = managed
        /\ d.conventional /\ DescriptorEnd(d) > DescriptorFirst(d)
        /\ cursor \in 1 .. Len(memory_map) /\ memory_map \in Seq(Descriptor)
        /\ DOMAIN memory_map = 1 .. Len(memory_map)
    BY <1>8, ConstantsAssumption DEF AddDescriptor, IInv, ControlType, ControlReady
  <2>2. base \in Nat /\ pages \in Nat /\ pages > 0 /\ PagesOf(r) = DescriptorPages(d)
    BY <2>1, DescriptorFacts
  <2> HIDE DEF d, base, pages, r
  <2>3. PagesOf(r) \cap FreePages = {}
    <3> SUFFICES ASSUME NEW p \in PagesOf(r), p \in FreePages
                 PROVE  FALSE
      OBVIOUS
    <3>1. PICK k \in 1 .. (cursor - 1) :
            k \in DOMAIN memory_map /\ p \in DescriptorPages(memory_map[k])
      BY <2>1 DEF IInv, ControlMap
    <3>2. k # cursor /\ cursor \in DOMAIN memory_map /\ memory_map \in MemoryMaps
      BY <2>1, <3>1 DEF IInv, ControlType
    <3>3. DescriptorPages(memory_map[k]) \cap DescriptorPages(memory_map[cursor]) = {}
      BY <3>1, <3>2, ConstantsAssumption
    <3> QED BY <2>2, <3>1, <3>3 DEF d
  <2>4. CASE append_free_range(base, pages) /\ total_pages' = total_pages + pages
    <3> DEFINE P == PagesOf(r)
               G == FreePages
    <3>0. FreePages' = FreePages \cup PagesOf([base |-> base, pages |-> pages])
      BY <1>0, <2>2, <2>3, <2>4, AppendCorrect DEF r
    <3>1. FreePages' = G \cup P
      BY <3>0 DEF r
    <3>2. P = base .. (base + pages - 1)
      BY <2>2 DEF PagesOf, RangeEnd, r
    <3>3. IsFiniteSet(P) /\ Cardinality(P) = pages
      <4> DEFINE b == base + pages - 1
      <4>1. base \in Int /\ b \in Int
        BY <2>2
      <4> HIDE DEF b, P
      <4>2. IsFiniteSet(base .. b) /\ Cardinality(base .. b) =
               IF base > b THEN 0 ELSE b - base + 1
        BY <4>1, FS_Interval
      <4>3. (IF base > b THEN 0 ELSE b - base + 1) = pages
        BY <2>2 DEF b
      <4> QED BY <3>2, <4>2, <4>3 DEF b
    <3>4. Cardinality(G) <= total_pages
      BY <2>1 DEF GivenBounded, Given
    <3>5. G \cap P = {} /\ IsFiniteSet(G) /\ Cardinality(G) \in Nat
      BY <1>0, <2>3
    <3>6. Given' = FreePages'
      BY <2>1 DEF Given
    <3> HIDE DEF P, G
    <3>7. IsFiniteSet(G \cup P) /\ Cardinality(G \cup P) = Cardinality(G) + pages
      <4>1. IsFiniteSet(G \cup P) /\ Cardinality(G \cup P) =
               Cardinality(G) + Cardinality(P) - Cardinality(G \cap P)
        BY <3>3, <3>5, FS_Union
      <4>2. Cardinality(G \cap P) = 0
        BY <3>5, FS_EmptySet
      <4> QED BY <2>2, <3>3, <3>5, <4>1, <4>2
    <3>8. Cardinality(G \cup P) \in Nat /\ Cardinality(G \cup P) <= total_pages'
      BY <1>0, <2>2, <2>4, <3>4, <3>5, <3>7
    <3> QED BY <3>1, <3>6, <3>7, <3>8 DEF GivenBounded
  <2>5. CASE UNCHANGED <<total_pages, cursor, tableVars>>
    <3>1. Given' = Given /\ total_pages' = total_pages
      BY <2>1, <2>5 DEF Given, FreePages, PagesOf, RangeEnd, tableVars
    <3> QED BY <1>1, <3>1
  <2> QED BY <1>8, <2>4, <2>5 DEF AddDescriptor, d, base, pages
<1> QED BY <1>3, <1>4, <1>5, <1>6, <1>7, <1>8 DEF Next, Boot

\* memory_free_pages counts each free page once, and it never counts more than
\* the map gave, also while reserve_range is cutting (memory.c,
\* memory_free_pages and memory_total_pages).
THEOREM CountsStayRight == Spec => []CountsAgree
<1>1. Init => GivenBounded
  <2> SUFFICES ASSUME Init PROVE GivenBounded
    OBVIOUS
  <2>1. managed = {} /\ count = 0 /\ total_pages = 0
    BY DEF Init
  <2>2. FreePages = {}
    BY <2>1 DEF FreePages
  <2> QED BY <2>1, <2>2, FS_EmptySet DEF GivenBounded, Given
<1>2. IInv /\ IInv' /\ GivenBounded /\ [Next]_vars => GivenBounded'
  BY GivenStep
<1>3. IInv /\ GivenBounded => CountsAgree
  <2> SUFFICES ASSUME IInv, GivenBounded PROVE CountsAgree
    OBVIOUS
  <2>1. memory_free_pages = Cardinality(FreePages) /\ IsFiniteSet(FreePages)
    BY FreePagesCounted DEF IInv, Ownership
  <2>2. FreePages \in SUBSET Given
    BY DEF Given, IInv, Ownership, PagesConserved
  <2> DEFINE G == Given
             H == FreePages
  <2>3. IsFiniteSet(G) /\ Cardinality(G) \in Nat /\ Cardinality(G) <= total_pages
        /\ H \in SUBSET G /\ total_pages \in Nat
    BY <2>2 DEF GivenBounded, IInv, ControlType
  <2> HIDE DEF G, H
  <2>4. Cardinality(H) <= Cardinality(G) /\ Cardinality(H) \in Nat
    BY <2>3, FS_Subset, FS_CardinalityType
  <2>5. Cardinality(H) <= total_pages
    BY <2>3, <2>4
  <2> QED BY <2>1, <2>5 DEF CountsAgree, H
<1> QED BY <1>1, <1>2, <1>3, Invariance, PTL DEF Spec

=============================================================================
