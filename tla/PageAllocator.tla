--------------------------- MODULE PageAllocator ---------------------------
(***************************************************************************)
(* The physical page allocator of the kernel (kernel/memory.c).            *)
(*                                                                         *)
(* The allocator keeps one table, g_free_ranges, of at most MaxRanges      *)
(* ranges of free pages.  kmain() fills it from the UEFI memory map        *)
(* (memory_init), cuts the regions the kernel must not hand out from it    *)
(* (reserve_range), checks it (memory_self_test), and from then on serves  *)
(* alloc_pages and free_pages to the drivers, the page tables and the      *)
(* processes.                                                              *)
(*                                                                         *)
(* Pages are numbered; bytes appear only where the code aligns them (the   *)
(* descriptors of the map and the reserved regions).  Page 0 is the page   *)
(* at address NULL.                                                        *)
(***************************************************************************)
EXTENDS Integers, Sequences, FiniteSets

CONSTANTS
  MaxRanges,     \* MEMORY_MAX_FREE_RANGES, the slots of the table
  PageSize,      \* PAGE_SIZE in bytes
  MaxPhysPage,   \* MEMORY_MAX_PHYS_ADDR / PAGE_SIZE
  MemoryMaps,    \* the memory maps the firmware may hand over
  Regions,       \* the regions memory_init reserves, in the order it does
  AllocSizes     \* the page counts the callers of alloc_pages ask for

(***************************************************************************)
(* A descriptor of the memory map, a reserved region (in bytes), a range   *)
(* of the table and a block a caller holds (in pages).                     *)
(***************************************************************************)
Descriptor == [conventional : BOOLEAN, start : Nat, pages : Nat]
Region == [start : Nat, end : Nat]
FreePageRange == [base : Nat, pages : Nat]

AlignUpToPage(byte)   == (byte + PageSize - 1) \div PageSize
AlignDownToPage(byte) == byte \div PageSize

\* The first page of a descriptor, and the page after its last, after
\* add_descriptor_range has clipped it at 4 GiB.
DescriptorFirst(d) == AlignUpToPage(d.start)
DescriptorEnd(d) ==
  LET end == AlignDownToPage(d.start + d.pages * PageSize)
  IN  IF end > MaxPhysPage THEN MaxPhysPage ELSE end

\* The pages a descriptor adds to the table; an ill-formed or empty one, or
\* one that is not conventional memory, adds none.
DescriptorPages(d) ==
  {p \in DescriptorFirst(d) .. (DescriptorEnd(d) - 1) : d.conventional}

\* UEFI maps describe every page at most once.
ASSUME ConstantsAssumption ==
  /\ MaxRanges \in Nat \ {0}
  /\ PageSize \in Nat \ {0}
  /\ MaxPhysPage \in Nat
  /\ Regions \in Seq(Region)
  /\ AllocSizes \subseteq Nat
  /\ \A m \in MemoryMaps :
       /\ m \in Seq(Descriptor)
       /\ \A i, j \in DOMAIN m :
            i # j => DescriptorPages(m[i]) \cap DescriptorPages(m[j]) = {}

VARIABLES
  pc,           \* where kmain() is: see the phases below
  memory_map,   \* boot_info->memory_map
  cursor,       \* the next descriptor, then the next region, to process
  index,        \* the index of the loop of reserve_range
  ranges,       \* g_free_ranges[0 .. g_free_range_count - 1]
  count,        \* g_free_range_count
  total_pages,  \* g_total_pages
  test,         \* the blocks memory_self_test holds
  pages_before, \* its count of the free pages at its start
  managed,      \* ghost: the pages that were free when memory_init returned
  live,         \* ghost: the blocks callers hold
  lost          \* ghost: the pages of blocks that free_pages dropped

initVars == <<memory_map, managed, total_pages>>
tableVars == <<ranges, count>>
testVars == <<test, pages_before>>
vars == <<pc, cursor, index, testVars, live, lost, initVars, tableVars>>

\* The phases of kmain() up to shell_run().  "map" and "reserve" are
\* memory_init, the "test" phases are memory_self_test; g_memory_ready is
\* set from there on.
Phases == {"map", "reserve", "test_first", "test_second", "test_free_second",
           "test_free_first", "test_compare", "test_scratch",
           "test_free_scratch", "test_final", "ready", "panic"}
memory_ready == pc \notin {"map", "reserve"}

-----------------------------------------------------------------------------
(* Pages of ranges, blocks and the table.                                  *)

RangeEnd(r)   == r.base + r.pages
PagesOf(r)    == r.base .. (RangeEnd(r) - 1)
FreePages     == UNION {PagesOf(ranges[i]) : i \in 0 .. (count - 1)}
LivePages     == UNION {PagesOf(b) : b \in live}

\* memory_free_pages(): the sum over the table.
memory_free_pages ==
  LET total[n \in 0 .. count] ==
        IF n = 0 THEN 0 ELSE total[n - 1] + ranges[n - 1].pages
  IN  total[count]

(***************************************************************************)
(* The array moves on a table t of n slots: closing the slot at i, opening *)
(* one for r there.                                                        *)
(***************************************************************************)
WithoutSlot(t, n, i) ==
  [k \in 0 .. (n - 2) |-> IF k < i THEN t[k] ELSE t[k + 1]]

WithSlot(t, n, i, r) ==
  [k \in 0 .. n |-> IF k < i THEN t[k] ELSE IF k = i THEN r ELSE t[k - 1]]

-----------------------------------------------------------------------------
(* append_free_range(base, pages).                                         *)

\* The index at which the search loop stops.
IsInsertIndex(at, base) ==
  /\ at \in 0 .. count
  /\ \A k \in 0 .. (at - 1) : ranges[k].base < base
  /\ at < count => ranges[at].base >= base

\* Mutant: the overlap test refuses a range that ends where the next begins.
AppendRefused_Touching(base, pages) ==
  \/ count >= MaxRanges
  \/ \E at \in 0 .. count :
       /\ IsInsertIndex(at, base)
       /\ at < count
       /\ base + pages >= ranges[at].base

\* It returns false: the table is full (whether or not the range would have
\* merged with a neighbour), or the range overlaps the one after it.
AppendRefused(base, pages) ==
  \/ count >= MaxRanges
  \/ \E at \in 0 .. count :
       /\ IsInsertIndex(at, base)
       /\ at < count
       /\ base + pages > ranges[at].base

TouchesPrev(at, base) == at > 0 /\ RangeEnd(ranges[at - 1]) = base
TouchesNext(at, end)  == at < count /\ end = ranges[at].base

\* Mutant: the range before grows but never absorbs the one it now meets.
MergePrev_NoAbsorb(at, base, pages) ==
  /\ TouchesPrev(at, base)
  /\ ranges' = [ranges EXCEPT ![at - 1].pages = @ + pages]
  /\ count' = count

\* Mutant: the absorbed range is deleted before its pages are added.
MergePrev_Drop(at, base, pages) ==
  /\ TouchesPrev(at, base)
  /\ IF TouchesNext(at, base + pages)
       THEN /\ ranges' = [WithoutSlot(ranges, count, at) EXCEPT
                            ![at - 1].pages = @ + pages]
            /\ count' = count - 1
       ELSE /\ ranges' = [ranges EXCEPT ![at - 1].pages = @ + pages]
            /\ count' = count

\* It extends the range before, and absorbs the one after when they meet.
MergePrev(at, base, pages) ==
  LET prev == [base  |-> ranges[at - 1].base,
               pages |-> ranges[at - 1].pages + pages]
  IN  /\ TouchesPrev(at, base)
      /\ IF TouchesNext(at, RangeEnd(prev))
           THEN /\ ranges' = [WithoutSlot(ranges, count, at) EXCEPT
                               ![at - 1] =
                                 [base  |-> prev.base,
                                  pages |-> prev.pages + ranges[at].pages]]
                /\ count' = count - 1
           ELSE /\ ranges' = [ranges EXCEPT ![at - 1] = prev]
                /\ count' = count

MergeNext(at, base, pages) ==
  /\ ~ TouchesPrev(at, base)
  /\ TouchesNext(at, base + pages)
  /\ ranges' = [ranges EXCEPT ![at] =
                  [base |-> base, pages |-> ranges[at].pages + pages]]
  /\ count' = count

InsertNew(at, base, pages) ==
  /\ ~ TouchesPrev(at, base)
  /\ ~ TouchesNext(at, base + pages)
  /\ ranges' = WithSlot(ranges, count, at, [base |-> base, pages |-> pages])
  /\ count' = count + 1

\* It returns true, having added a non-empty range.
append_free_range(base, pages) ==
  /\ ~ AppendRefused(base, pages)
  /\ \E at \in 0 .. count :
       /\ IsInsertIndex(at, base)
       /\ \/ MergePrev(at, base, pages)
          \/ MergeNext(at, base, pages)
          \/ InsertNew(at, base, pages)

-----------------------------------------------------------------------------
(* memory_init: one step per descriptor.                                   *)

SkipDescriptor ==
  /\ pc = "map"
  /\ cursor <= Len(memory_map)
  /\ LET d == memory_map[cursor]
     IN  \/ ~ d.conventional
         \/ d.pages = 0
         \/ DescriptorEnd(d) <= DescriptorFirst(d)
  /\ cursor' = cursor + 1
  /\ UNCHANGED <<pc, index, testVars, live, lost, initVars, tableVars>>

\* A descriptor the table has no room for ends memory_init with false, and
\* kmain() panics.
AddDescriptor ==
  /\ pc = "map"
  /\ cursor <= Len(memory_map)
  /\ LET d     == memory_map[cursor]
         base  == DescriptorFirst(d)
         pages == DescriptorEnd(d) - base
     IN  /\ d.conventional
         /\ d.pages # 0
         /\ DescriptorEnd(d) > DescriptorFirst(d)
         /\ \/ /\ append_free_range(base, pages)
               /\ total_pages' = total_pages + pages
               /\ cursor' = cursor + 1
               /\ pc' = pc
            \/ /\ AppendRefused(base, pages)
               /\ pc' = "panic"
               /\ UNCHANGED <<total_pages, cursor, tableVars>>
  /\ UNCHANGED <<index, testVars, live, lost, memory_map, managed>>

MapDone ==
  /\ pc = "map"
  /\ cursor > Len(memory_map)
  /\ pc' = "reserve"
  /\ cursor' = 1
  /\ index' = 0
  /\ UNCHANGED <<testVars, live, lost, initVars, tableVars>>

-----------------------------------------------------------------------------
(* reserve_range: one step per iteration of its loop.                      *)

ReserveFirst(r) == AlignDownToPage(r.start)

\* Mutant: the end of a region is rounded down, as its start is.
ReserveEnd_Down(r) == AlignDownToPage(r.end)

ReserveEnd(r) == AlignUpToPage(r.end)

\* reserve_range is in its loop at slot `index', whose range overlaps the
\* region: `kept' says which of its ends stay free.
AtOverlap(leftKept, rightKept) ==
  /\ pc = "reserve"
  /\ cursor <= Len(Regions)
  /\ index < count
  /\ LET region == Regions[cursor]
         range  == ranges[index]
     IN  /\ ReserveFirst(region) < ReserveEnd(region)
         /\ ReserveEnd(region) > range.base
         /\ ReserveFirst(region) < RangeEnd(range)
         /\ leftKept  <=> ReserveFirst(region) > range.base
         /\ rightKept <=> ReserveEnd(region) < RangeEnd(range)

\* Mutant: a split leaves the left range at its old length.
LeftPart_Whole(i) == ranges[i]

LeftPart(i)  == [base  |-> ranges[i].base,
                 pages |-> ReserveFirst(Regions[cursor]) - ranges[i].base]
RightPart(i) == [base  |-> ReserveEnd(Regions[cursor]),
                 pages |-> RangeEnd(ranges[i]) - ReserveEnd(Regions[cursor])]

\* Mutant: the loop skips a range without advancing.
ReserveSkip_Stuck ==
  /\ pc = "reserve"
  /\ cursor <= Len(Regions)
  /\ index < count
  /\ LET region == Regions[cursor]
     IN  /\ ReserveFirst(region) < ReserveEnd(region)
         /\ \/ ReserveEnd(region) <= ranges[index].base
            \/ ReserveFirst(region) >= RangeEnd(ranges[index])
  /\ UNCHANGED vars

ReserveSkip ==
  /\ pc = "reserve"
  /\ cursor <= Len(Regions)
  /\ index < count
  /\ LET region == Regions[cursor]
     IN  /\ ReserveFirst(region) < ReserveEnd(region)
         /\ \/ ReserveEnd(region) <= ranges[index].base
            \/ ReserveFirst(region) >= RangeEnd(ranges[index])
  /\ index' = index + 1
  /\ UNCHANGED <<pc, cursor, testVars, live, lost, initVars, tableVars>>

ReserveDelete ==
  /\ AtOverlap(FALSE, FALSE)
  /\ ranges' = WithoutSlot(ranges, count, index)
  /\ count' = count - 1
  /\ UNCHANGED <<pc, cursor, index, testVars, live, lost, initVars>>

ReserveTrim ==
  /\ \/ /\ AtOverlap(FALSE, TRUE)
        /\ ranges' = [ranges EXCEPT ![index] = RightPart(index)]
     \/ /\ AtOverlap(TRUE, FALSE)
        /\ ranges' = [ranges EXCEPT ![index] = LeftPart(index)]
  /\ index' = index + 1
  /\ UNCHANGED <<pc, cursor, count, testVars, live, lost, initVars>>

\* Mutant: a split does not ask whether a slot is left.
ReserveSplit_Unchecked ==
  /\ AtOverlap(TRUE, TRUE)
  /\ ranges' = WithSlot([ranges EXCEPT ![index] = LeftPart(index)],
                        count, index + 1, RightPart(index))
  /\ count' = count + 1
  /\ index' = index + 2
  /\ UNCHANGED <<pc, cursor, testVars, live, lost, initVars>>

\* A region inside a range needs a second slot; without one memory_init
\* fails and kmain() panics.
ReserveSplit ==
  /\ AtOverlap(TRUE, TRUE)
  /\ \/ /\ count < MaxRanges
        /\ ranges' = WithSlot([ranges EXCEPT ![index] = LeftPart(index)],
                              count, index + 1, RightPart(index))
        /\ count' = count + 1
        /\ index' = index + 2
        /\ pc' = pc
     \/ /\ count >= MaxRanges
        /\ pc' = "panic"
        /\ UNCHANGED <<index, tableVars>>
  /\ UNCHANGED <<cursor, testVars, live, lost, initVars>>

ReserveDone ==
  /\ pc = "reserve"
  /\ cursor <= Len(Regions)
  /\ \/ index >= count
     \/ ReserveEnd(Regions[cursor]) <= ReserveFirst(Regions[cursor])
  /\ cursor' = cursor + 1
  /\ index' = 0
  /\ UNCHANGED <<pc, testVars, live, lost, initVars, tableVars>>

\* memory_init returns g_memory_ready, and memory_self_test notes
\* pages_before.
InitDone ==
  /\ pc = "reserve"
  /\ cursor > Len(Regions)
  /\ pc' = IF count # 0 THEN "test_first" ELSE "panic"
  /\ managed' = FreePages
  /\ pages_before' = memory_free_pages
  /\ UNCHANGED <<cursor, index, test, live, lost, memory_map, total_pages, tableVars>>

-----------------------------------------------------------------------------
(* alloc_pages and free_pages, as used by every caller.                    *)

\* Mutant: first fit takes a range that is one page too short.
IsFirstFit_Short(i, n) ==
  /\ i \in 0 .. (count - 1)
  /\ ranges[i].pages + 1 >= n
  /\ \A k \in 0 .. (i - 1) : ranges[k].pages + 1 < n

\* The first range that is large enough.
IsFirstFit(i, n) ==
  /\ i \in 0 .. (count - 1)
  /\ ranges[i].pages >= n
  /\ \A k \in 0 .. (i - 1) : ranges[k].pages < n

AllocFails(n) == n = 0 \/ \A i \in 0 .. (count - 1) : ranges[i].pages < n

\* Mutant: the range shrinks but keeps its base.
TakeFront_SameBase(i, n) ==
  IF ranges[i].pages = n
    THEN /\ ranges' = WithoutSlot(ranges, count, i)
         /\ count' = count - 1
    ELSE /\ ranges' = [ranges EXCEPT ![i].pages = @ - n]
         /\ count' = count

\* Cut n pages off the front of range i, dropping it when nothing is left.
TakeFront(i, n) ==
  IF ranges[i].pages = n
    THEN /\ ranges' = WithoutSlot(ranges, count, i)
         /\ count' = count - 1
    ELSE /\ ranges' = [ranges EXCEPT ![i] = [base  |-> ranges[i].base + n,
                                             pages |-> ranges[i].pages - n]]
         /\ count' = count

\* alloc_pages(n) returns the block b.
alloc_pages(n, b) ==
  /\ memory_ready
  /\ n # 0
  /\ \E i \in 0 .. (count - 1) :
       /\ IsFirstFit(i, n)
       /\ b = [base |-> ranges[i].base, pages |-> n]
       /\ TakeFront(i, n)
  /\ live' = live \cup {b}
  /\ lost' = lost

\* The blocks alloc_pages(n) could return: the fronts of the ranges.
Fronts(n) == {[base |-> ranges[i].base, pages |-> n] : i \in 0 .. (count - 1)}

\* free_pages(b.base, b.pages) ignores the result of append_free_range: the
\* pages of a refused block belong to nobody any more.
free_pages(b) ==
  /\ memory_ready
  /\ \/ /\ append_free_range(b.base, b.pages)
        /\ lost' = lost
     \/ /\ AppendRefused(b.base, b.pages)
        /\ lost' = lost \cup PagesOf(b)
        /\ UNCHANGED tableVars
  /\ live' = live \ {b}

-----------------------------------------------------------------------------
(* memory_self_test: alloc 1, alloc 2, free both, compare, then the same   *)
(* with the 3 pages its scratch heap lives in.                             *)

NoBlock == [base |-> 0, pages |-> 0]

\* A test block that cannot be had fails the test.  (When the first page is
\* missing so are the next two, and the test fails in the same state.)
TestAlloc(at, field, n, next) ==
  /\ pc = at
  /\ \/ \E b \in Fronts(n) :
          /\ alloc_pages(n, b)
          /\ test' = [test EXCEPT ![field] = b]
          /\ pc' = next
     \/ /\ AllocFails(n)
        /\ pc' = "panic"
        /\ UNCHANGED <<test, live, lost, tableVars>>
  /\ UNCHANGED <<cursor, index, pages_before, initVars>>

TestFree(at, field, next) ==
  /\ pc = at
  /\ free_pages(test[field])
  /\ pc' = next
  /\ test' = [test EXCEPT ![field] = NoBlock]
  /\ UNCHANGED <<cursor, index, pages_before, initVars>>

TestCompare(at, next) ==
  /\ pc = at
  /\ pc' = IF memory_free_pages = pages_before THEN next ELSE "panic"
  /\ UNCHANGED <<cursor, index, test, pages_before, live, lost, initVars,
                 tableVars>>

SelfTest ==
  \/ TestAlloc("test_first", "first", 1, "test_second")
  \/ TestAlloc("test_second", "second", 2, "test_free_second")
  \/ TestFree("test_free_second", "second", "test_free_first")
  \/ TestFree("test_free_first", "first", "test_compare")
  \/ TestCompare("test_compare", "test_scratch")
  \/ TestAlloc("test_scratch", "second", 3, "test_free_scratch")
  \/ TestFree("test_free_scratch", "second", "test_final")
  \/ TestCompare("test_final", "ready")

-----------------------------------------------------------------------------
(* The callers, once the shell runs: ahci.c, paging.c and process.c free   *)
(* what they allocated, whole, and at most once.                           *)

Alloc(n) ==
  /\ pc = "ready"
  /\ \E b \in Fronts(n) : alloc_pages(n, b)
  /\ UNCHANGED <<pc, cursor, index, testVars, initVars>>

Free(b) ==
  /\ pc = "ready"
  /\ b \in live
  /\ free_pages(b)
  /\ UNCHANGED <<pc, cursor, index, testVars, initVars>>

-----------------------------------------------------------------------------
Init ==
  /\ pc = "map"
  /\ memory_map \in MemoryMaps
  /\ cursor = 1
  /\ index = 0
  /\ ranges = [k \in 0 .. -1 |-> [base |-> 0, pages |-> 0]]
  /\ count = 0
  /\ total_pages = 0
  /\ test = [first |-> NoBlock, second |-> NoBlock]
  /\ pages_before = 0
  /\ managed = {}
  /\ live = {}
  /\ lost = {}

Boot ==
  \/ SkipDescriptor \/ AddDescriptor \/ MapDone
  \/ ReserveSkip \/ ReserveDelete \/ ReserveTrim \/ ReserveSplit
  \/ ReserveDone \/ InitDone
  \/ SelfTest

Serve ==
  \/ \E n \in AllocSizes : Alloc(n)
  \/ \E b \in live : Free(b)

Next == Boot \/ Serve

Spec == Init /\ [][Next]_vars

\* kmain() runs alone and never waits: its boot steps do not stop.
FairSpec == Spec /\ WF_vars(Boot)

-----------------------------------------------------------------------------
(* Properties.                                                             *)

\* The types of the variables.  (pages_before is only ever compared.)
TypeOK ==
  /\ pc \in Phases
  /\ memory_map \in MemoryMaps
  /\ cursor \in Nat \ {0}
  /\ index \in Nat
  /\ count \in 0 .. MaxRanges
  /\ ranges \in [0 .. (count - 1) -> FreePageRange]
  /\ total_pages \in Nat
  /\ test \in [first : FreePageRange, second : FreePageRange]
  /\ managed \subseteq Nat
  /\ live \subseteq FreePageRange
  /\ lost \subseteq Nat

\* The table stays sorted, without empty ranges, and maximally coalesced: at
\* least one page that is not free lies between two ranges.  The searches of
\* append_free_range and the slot arithmetic of reserve_range rely on it.
TableSeparated ==
  /\ \A i \in 0 .. (count - 1) : ranges[i].pages > 0
  /\ \A i, j \in 0 .. (count - 1) :
       i < j => RangeEnd(ranges[i]) < ranges[j].base

\* No page is handed out twice: a page is in at most one block a caller
\* holds, is not in the table while somebody holds it, and a page that
\* free_pages dropped never comes back.
PagesExclusive ==
  /\ FreePages \cap LivePages = {}
  /\ \A b, c \in live : b # c => PagesOf(b) \cap PagesOf(c) = {}
  /\ lost \cap (FreePages \cup LivePages) = {}

\* Every page memory_init left in the table is afterwards free, held by a
\* caller, or was dropped by free_pages, and no other page appears.
PagesConserved ==
  managed # {} => managed = FreePages \cup LivePages \cup lost

\* free_pages loses a block only because the table is full, never because
\* append_free_range takes a block its owner returns for an overlap.
LostOnlyWhenFull == [][lost' # lost => count = MaxRanges]_vars

\* From the end of memory_init on, no byte of a reserved region (the first
\* MiB with page 0, the kernel image, the process window, the framebuffer)
\* is in a page that is free or handed out.
ReservedKept ==
  managed # {} =>
    \A p \in FreePages \cup LivePages, r \in 1 .. Len(Regions) :
      \/ (p + 1) * PageSize <= Regions[r].start
      \/ p * PageSize >= Regions[r].end
      \/ Regions[r].end <= Regions[r].start

\* memory_free_pages counts each free page once, and never more pages than
\* the map gave (g_total_pages), also while reserve_range is cutting.
CountsAgree ==
  /\ memory_free_pages = Cardinality(FreePages)
  /\ memory_free_pages <= total_pages

\* kmain() gets past the allocator: it panics or serves, after finitely many
\* steps (the loop of reserve_range, which changes the table it scans,
\* ends).
BootEnds == <>(pc \in {"ready", "panic"})

\* memory_self_test compares memory_free_pages() with pages_before after it
\* has freed everything it allocated, and kmain() panics when they differ:
\* freeing all that was allocated gives the table back its pages.
SelfTestRestoresPages ==
  pc \in {"test_compare", "test_final"} => memory_free_pages = pages_before

-----------------------------------------------------------------------------
(* What callers may rely on.                                               *)

Store == INSTANCE PageStore WITH
           open <- managed # {},
           free <- IF managed # {} THEN FreePages ELSE {},
           held <- live

\* The table with its slots implements a plain set of free pages: alloc_pages
\* takes a run of pages that is free, free_pages gives back the run or drops
\* it, and nothing else moves a page.
ImplementsStore == Store!Spec

=============================================================================
