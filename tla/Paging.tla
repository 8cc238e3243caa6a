------------------------------- MODULE Paging -------------------------------
(***************************************************************************)
(* The page tables of the kernel (kernel/paging.c): the identity map that  *)
(* paging_init builds for the kernel, the mapping of a range page by page  *)
(* with tables allocated on the way, the copy of the kernel's root that    *)
(* each process gets, and the tear-down of that copy.                      *)
(*                                                                         *)
(* Pages, virtual and physical, are numbered; a table has TableEntries     *)
(* entries (512 in the code), so a large page is TableEntries pages.       *)
(* Page tables live in physical pages that alloc_pages lends; the store    *)
(* they come from is the one PageAllocator implements.                     *)
(***************************************************************************)
EXTENDS Integers, Sequences, FiniteSets

CONSTANTS
  TableEntries,   \* PAGE_TABLE_ENTRIES
  Pools,          \* the sets of physical pages memory_init may leave free
  MaxDrops,       \* how often free_pages may find the table of ranges full
  LowLimit,       \* LOW_IDENTITY_LIMIT, a multiple of a large page
  Sections,       \* the linker's text, rodata and data: [first, end, w, x]
  Framebuffers,   \* where the framebuffer may be: sets [first, end] of pages
  MmioRange       \* what the drivers map with paging_map_range

\* The space of a root holds low memory; the linker puts text, rodata and
\* data one after the other, above the first large page and none of them empty.
ASSUME PagingAssumption ==
  /\ TableEntries \in Nat \ {0, 1}
  /\ LowLimit \in Nat /\ LowLimit % TableEntries = 0
  /\ LowLimit <= TableEntries * TableEntries * TableEntries * TableEntries
  /\ \A pool \in Pools : pool # {} /\ pool \subseteq 1 .. (LowLimit - 1)
  /\ MaxDrops \in Nat
  /\ Len(Sections) = 3
  /\ \A i \in 1 .. 3 :
       /\ {Sections[i].first, Sections[i].end} \subseteq Nat
       /\ Sections[i].first < Sections[i].end
       /\ {Sections[i].w, Sections[i].x} \subseteq BOOLEAN
  /\ Sections[1].end <= Sections[2].first /\ Sections[2].end <= Sections[3].first
  /\ Sections[1].first >= TableEntries /\ Sections[3].end <= LowLimit
  /\ \A f \in Framebuffers : {f.first, f.end} \subseteq Nat
  /\ {MmioRange.first, MmioRange.end} \subseteq Nat
  /\ MmioRange.first < MmioRange.end

\* What the drivers and the screen use has addresses of its own, in the space of
\* a root: neither page 0 nor pages of the kernel's image.
ASSUME DeviceAssumption ==
  \A r \in Framebuffers \cup {MmioRange} : r.first < r.end =>
    /\ r.first > 0
    /\ r.end <= TableEntries * TableEntries * TableEntries * TableEntries
    /\ r.end <= Sections[1].first \/ r.first >= Sections[3].end

VARIABLES
  pc,             \* where the kernel is
  free,           \* the pages alloc_pages can lend
  held,           \* the blocks [base, pages] it has lent
  drops,          \* how often free_pages has dropped a block
  wrong_frees,    \* ghost: blocks freed that nobody held
  tables,         \* the contents of the pages in use, read as tables
  g_pml4,         \* the root of the kernel
  cr3,            \* the root the CPU uses; 0 stands for the firmware's
  job,            \* the range map_range_in_root is mapping
  doomed,         \* the entries paging_destroy_address_space has yet to free
  framebuffer     \* the pages of the framebuffer, empty when there is none

storeVars  == <<free, held, drops, wrong_frees>>
pagingVars == <<storeVars, tables, g_pml4, cr3, job, doomed, framebuffer>>

-----------------------------------------------------------------------------
(* Entries and walks.                                                      *)

Slots == 0 .. (TableEntries - 1)

\* An entry: absent, a page (at level 2 a large one) or a table below.  `a'
\* is the accessed bit, which the CPU sets; it matters in the roots only,
\* where paging_destroy_address_space compares whole entries.
Entry == [kind : {"none", "page", "table"}, page : Nat,
          w : BOOLEAN, x : BOOLEAN, u : BOOLEAN, a : BOOLEAN]

NoEntry == [kind |-> "none", page |-> 0,
            w |-> FALSE, x |-> FALSE, u |-> FALSE, a |-> FALSE]
PageEntry(page, w, x, u) ==
  [kind |-> "page", page |-> page, w |-> w, x |-> x, u |-> u, a |-> FALSE]
TableEntry(page, u) ==
  [kind |-> "table", page |-> page, w |-> TRUE, x |-> TRUE, u |-> u,
   a |-> FALSE]
EmptyTable == [i \in Slots |-> NoEntry]

\* pml4_index, pdpt_index, pd_index and pt_index are levels 4 to 1.
Span(level) ==
  <<1, TableEntries, TableEntries * TableEntries,
    TableEntries * TableEntries * TableEntries>>[level]
IndexAt(v, level) == (v \div Span(level)) % TableEntries
IsTable(t, v, level) == tables[t][IndexAt(v, level)].kind = "table"
Below(t, v, level)   == tables[t][IndexAt(v, level)].page

\* Where the walk for v stops under a root: the first entry that is not a
\* table, or the entry of a level-1 table.
Stop(root, v) ==
  LET t3 == Below(root, v, 4)
      t2 == Below(t3, v, 3)
      t1 == Below(t2, v, 2)
      At(t, level) == [table |-> t, index |-> IndexAt(v, level), level |-> level]
  IN  IF ~ IsTable(root, v, 4) THEN At(root, 4)
      ELSE IF ~ IsTable(t3, v, 3) THEN At(t3, 3)
      ELSE IF ~ IsTable(t2, v, 2) THEN At(t2, 2)
      ELSE At(t1, 1)

StopEntry(root, v) ==
  LET s == Stop(root, v) IN tables[s.table][s.index]

\* Every table entry on the way to the stop lets ring 3 through.
UserPath(root, v) ==
  LET s  == Stop(root, v)
      t3 == Below(root, v, 4)
      t2 == Below(t3, v, 3)
  IN  /\ s.level < 4 => tables[root][IndexAt(v, 4)].u
      /\ s.level < 3 => tables[t3][IndexAt(v, 3)].u
      /\ s.level < 2 => tables[t2][IndexAt(v, 2)].u

\* The mapping of v: its page and permissions, or NoEntry.
Mapping(root, v) ==
  LET s == Stop(root, v)
      e == tables[s.table][s.index]
  IN  IF e.kind = "none" THEN NoEntry
      ELSE [e EXCEPT !.page = @ + (v % Span(s.level)),
                     !.u = @ /\ UserPath(root, v)]

Mapped(root, v) == Mapping(root, v).kind = "page"

\* The CPU walks the root r for the pages vs and sets the accessed bits.
Accessed(t, r, vs) ==
  [t EXCEPT ![r] = [i \in Slots |->
     IF @[i].kind = "table" /\ \E v \in vs : IndexAt(v, 4) = i
       THEN [@[i] EXCEPT !.a = TRUE] ELSE @[i]]]

-----------------------------------------------------------------------------
(* Pages from the page allocator.                                          *)

Store == INSTANCE PageStore WITH open <- TRUE

Block(base, n) == [base |-> base, pages |-> n]
NULL == Block(0, 0)

Fits(base, n) == base .. (base + n - 1) \subseteq free

\* alloc_pages(n) returns b: the first fit.
alloc_pages(n, b) ==
  /\ \E base \in free :
       /\ Fits(base, n)
       /\ \A p \in free : p < base => ~ Fits(p, n)
       /\ b = Block(base, n)
  /\ Store!Lend(b)
  /\ UNCHANGED <<drops, wrong_frees>>

AllocFails(n) == \A base \in free : ~ Fits(base, n)

\* The blocks alloc_pages(n) could return.
Candidates(n) == {Block(base, n) : base \in free}

\* free_pages(b): the store takes the block back, or drops it for want of a
\* slot.  Freeing what is not held is recorded.  What a free page contains is
\* not modelled (alloc_page_table clears a page before anybody reads it), so
\* tables forgets it.
free_pages(b) ==
  IF b \in held
    THEN /\ Store!TakeBack(b)
         /\ drops' = IF free' = free THEN drops + 1 ELSE drops
         /\ drops' <= MaxDrops
         /\ tables' = [p \in DOMAIN tables |->
              IF p \in Store!RunPages(b) THEN EmptyTable ELSE tables[p]]
         /\ UNCHANGED wrong_frees
    ELSE /\ wrong_frees' = wrong_frees \cup {b}
         /\ UNCHANGED <<free, held, drops, tables>>

-----------------------------------------------------------------------------
(* map_range_in_root: `job' holds its cursor; one step per table it has to *)
(* allocate and per page it maps.  It ends at `next', or at `fail' when    *)
(* map_page_4k returns false.                                              *)

Job(root, first, end, phys, w, x, u) ==
  [root |-> root, virt |-> first, end |-> end, phys |-> phys,
   w |-> w, x |-> x, u |-> u]
NoJob == Job(0, 0, 0, 0, FALSE, FALSE, FALSE)

\* get_or_create_table meets a large page above level 2 or, mapping for ring
\* 3, a table that is not for ring 3.
MapRefused ==
  \/ Stop(job.root, job.virt).level >= 3 /\ StopEntry(job.root, job.virt).kind = "page"
  \/ job.u /\ ~ UserPath(job.root, job.virt)

\* The table that replaces the entry where the walk stops: an empty one, or
\* the pages of the large page that split_large_page breaks up.
SplitTable_Same(e) ==   \* Mutant: every small page gets the large one's base.
  [i \in Slots |-> [e EXCEPT !.a = FALSE]]
SplitTable(e) ==
  [i \in Slots |-> [e EXCEPT !.page = @ + i, !.a = FALSE]]
NewTable(e)    == IF e.kind = "page" THEN SplitTable(e) ELSE EmptyTable
NewTableUser(e) == IF e.kind = "page" THEN e.u ELSE job.u

MapTable(at, fail) ==
  LET s == Stop(job.root, job.virt)
      e == tables[s.table][s.index]
  IN  /\ pc = at
      /\ job.virt < job.end
      /\ ~ MapRefused
      /\ s.level > 1
      /\ \/ \E b \in Candidates(1) :
              /\ alloc_pages(1, b)
              /\ tables' = [tables EXCEPT
                    ![b.base] = NewTable(e),
                    ![s.table][s.index] = TableEntry(b.base, NewTableUser(e))]
              /\ pc' = pc
         \/ /\ AllocFails(1)
            /\ pc' = fail
            /\ UNCHANGED <<storeVars, tables>>
      /\ UNCHANGED <<g_pml4, cr3, job, doomed, framebuffer>>

\* Mutant: phys_cursor does not advance.
MapPage_SamePhys(at) ==
  LET s == Stop(job.root, job.virt)
  IN  /\ pc = at
      /\ job.virt < job.end
      /\ ~ MapRefused
      /\ s.level = 1
      /\ tables' = [tables EXCEPT ![s.table][s.index] =
                      PageEntry(job.phys, job.w, job.x, job.u)]
      /\ job' = [job EXCEPT !.virt = @ + 1]
      /\ UNCHANGED <<pc, storeVars, g_pml4, cr3, doomed, framebuffer>>

MapPage(at) ==
  LET s == Stop(job.root, job.virt)
  IN  /\ pc = at
      /\ job.virt < job.end
      /\ ~ MapRefused
      /\ s.level = 1
      /\ tables' = [tables EXCEPT ![s.table][s.index] =
                      PageEntry(job.phys, job.w, job.x, job.u)]
      /\ job' = [job EXCEPT !.virt = @ + 1, !.phys = @ + 1]
      /\ UNCHANGED <<pc, storeVars, g_pml4, cr3, doomed, framebuffer>>

MapFails(at, fail) ==
  /\ pc = at
  /\ job.virt < job.end
  /\ MapRefused
  /\ pc' = fail
  /\ UNCHANGED pagingVars

\* The loop ends.  (No caller maps an empty range.)
JobDone(at, next) ==
  /\ pc = at
  /\ job.virt >= job.end
  /\ pc' = next

-----------------------------------------------------------------------------
(* paging_init, then the mappings of the drivers.                          *)

Identity(r, w, x) == Job(g_pml4, r.first, r.end, r.first, w, x, FALSE)

\* The range map_range_in_root is given at each phase of the boot.
SectionAt == [text |-> 1, rodata |-> 2, data |-> 3]
JobAt(phase) ==
  CASE phase \in DOMAIN SectionAt ->
         LET s == Sections[SectionAt[phase]] IN Identity(s, s.w, s.x)
    [] phase = "framebuffer" -> Identity(framebuffer, TRUE, FALSE)
    [] phase = "mmio" -> Identity(MmioRange, TRUE, FALSE)

\* After memory_self_test there is at least one page for the root.
AllocKernelRoot ==
  /\ pc = "pml4"
  /\ \E b \in Candidates(1) :
       /\ alloc_pages(1, b)
       /\ g_pml4' = b.base
       /\ tables' = [tables EXCEPT ![b.base] = EmptyTable]
       /\ job' = Job(b.base, 1, TableEntries, 1, TRUE, TRUE, FALSE)
  /\ pc' = "low"
  /\ UNCHANGED <<cr3, doomed, framebuffer>>

LowMapped ==
  /\ JobDone("low", "large")
  /\ job' = Job(g_pml4, TableEntries, LowLimit, TableEntries, TRUE, TRUE, FALSE)
  /\ UNCHANGED <<storeVars, tables, g_pml4, cr3, doomed, framebuffer>>

\* get_or_create_pd for the cursor: the tables above level 2.
LargeTable ==
  LET s == Stop(g_pml4, job.virt)
  IN  /\ pc = "large"
      /\ job.virt < job.end
      /\ s.level > 2
      /\ \/ \E b \in Candidates(1) :
              /\ alloc_pages(1, b)
              /\ tables' = [tables EXCEPT
                              ![b.base] = EmptyTable,
                              ![s.table][s.index] = TableEntry(b.base, FALSE)]
              /\ pc' = pc
         \/ /\ AllocFails(1)
            /\ pc' = "panic"
            /\ UNCHANGED <<storeVars, tables>>
      /\ UNCHANGED <<g_pml4, cr3, job, doomed, framebuffer>>

\* map_page_2m(cursor).
MapLarge ==
  LET s == Stop(g_pml4, job.virt)
  IN  /\ pc = "large"
      /\ job.virt < job.end
      /\ s.level = 2
      /\ tables' = [tables EXCEPT ![s.table][s.index] =
                      PageEntry(job.phys, TRUE, TRUE, FALSE)]
      /\ job' = [job EXCEPT !.virt = @ + TableEntries, !.phys = @ + TableEntries]
      /\ UNCHANGED <<pc, storeVars, g_pml4, cr3, doomed, framebuffer>>

\* map_kernel_image starts with the large pages that the image touches.
KernelChunks ==
  LET first == Sections[1].first
      end   == Sections[3].end
  IN  Job(g_pml4, first - (first % TableEntries),
          ((end + TableEntries - 1) \div TableEntries) * TableEntries,
          0, FALSE, FALSE, FALSE)

LargeMapped ==
  /\ JobDone("large", "split")
  /\ job' = KernelChunks
  /\ UNCHANGED <<storeVars, tables, g_pml4, cr3, doomed, framebuffer>>

\* split_large_page on the chunk at the cursor.  The image starts above the
\* first large page, so its chunks are mapped, large and not yet split.
SplitChunk ==
  LET s == Stop(g_pml4, job.virt)
      e == tables[s.table][s.index]
  IN  /\ pc = "split"
      /\ job.virt < job.end
      /\ \/ \E b \in Candidates(1) :
              /\ alloc_pages(1, b)
              /\ tables' = [tables EXCEPT
                   ![b.base] = SplitTable(e),
                   ![s.table][s.index] = TableEntry(b.base, e.u)]
              /\ job' = [job EXCEPT !.virt = @ + TableEntries]
              /\ pc' = pc
         \/ /\ AllocFails(1)
            /\ pc' = "panic"
            /\ UNCHANGED <<storeVars, tables, job>>
      /\ UNCHANGED <<g_pml4, cr3, doomed, framebuffer>>

\* From one range of the boot to the next.
NextRange(at, next) ==
  /\ JobDone(at, next)
  /\ job' = JobAt(next)
  /\ UNCHANGED <<storeVars, tables, g_pml4, cr3, doomed, framebuffer>>

HasFramebuffer == framebuffer.end > framebuffer.first

\* The data section is mapped; without a framebuffer map_framebuffer is done.
DataMapped ==
  /\ JobDone("data", IF HasFramebuffer THEN "framebuffer" ELSE "load_cr3")
  /\ job' = IF HasFramebuffer THEN JobAt("framebuffer") ELSE NoJob
  /\ UNCHANGED <<storeVars, tables, g_pml4, cr3, doomed, framebuffer>>

FramebufferMapped ==
  /\ JobDone("framebuffer", "load_cr3")
  /\ job' = NoJob
  /\ UNCHANGED <<storeVars, tables, g_pml4, cr3, doomed, framebuffer>>

\* paging_init ends.  From here on the CPU walks the kernel's own tables.
LoadCr3 ==
  /\ pc = "load_cr3"
  /\ cr3' = g_pml4
  /\ tables' = Accessed(tables, g_pml4, {Sections[1].first})
  /\ job' = JobAt("mmio")
  /\ pc' = "mmio"
  /\ UNCHANGED <<storeVars, g_pml4, doomed, framebuffer>>

FramebufferPages == framebuffer.first .. (framebuffer.end - 1)
MmioPages == MmioRange.first .. (MmioRange.end - 1)

\* paging_map_range returns; the driver reads its registers and the shell
\* draws its first prompt.
BootDone ==
  /\ JobDone("mmio", "idle")
  /\ tables' = Accessed(tables, cr3, FramebufferPages \cup MmioPages)
  /\ job' = NoJob
  /\ UNCHANGED <<storeVars, g_pml4, cr3, doomed, framebuffer>>

BootPhases == {"pml4", "low", "large", "split", "text", "rodata", "data",
               "framebuffer", "load_cr3", "mmio"}

Boot ==
  \/ AllocKernelRoot
  \/ \E phase \in {"low", "text", "rodata", "data", "framebuffer", "mmio"} :
       MapTable(phase, "panic") \/ MapPage(phase)
  \/ LowMapped
  \/ LargeTable \/ MapLarge \/ LargeMapped \/ SplitChunk
  \/ NextRange("split", "text") \/ NextRange("text", "rodata")
  \/ NextRange("rodata", "data") \/ DataMapped \/ FramebufferMapped
  \/ LoadCr3 \/ BootDone

-----------------------------------------------------------------------------
(* Address spaces of processes.                                            *)

\* paging_create_address_space returns the root b: a copy of the kernel's.
paging_create_address_space(b) ==
  /\ alloc_pages(1, b)
  /\ tables' = [tables EXCEPT ![b.base] = tables[g_pml4]]

\* The entries, as paths from the root, whose tables
\* paging_destroy_address_space and destroy_table_tree free: those that are
\* not the kernel's, and the tables below them.
OwnSlots_All(root) ==   \* Mutant: the kernel's entries are not left out.
  {i \in Slots : tables[root][i].kind = "table"}
OwnSlots(root) ==
  {i \in Slots : /\ tables[root][i].kind = "table"
                 /\ tables[root][i] # tables[g_pml4][i]}
ChildSlots(t) == {i \in Slots : tables[t][i].kind = "table"}
TableAt(root, path) ==
  LET t3 == tables[root][path[1]].page
      t2 == tables[t3][path[2]].page
  IN  CASE Len(path) = 1 -> t3
        [] Len(path) = 2 -> t2
        [] Len(path) = 3 -> tables[t2][path[3]].page
OwnTables_Shallow(root) ==   \* Mutant: the recursion ends a level early.
  LET one == {<<i>> : i \in OwnSlots(root)}
  IN  one \cup UNION {{Append(p, i) : i \in ChildSlots(TableAt(root, p))} : p \in one}
OwnTables(root) ==
  LET one == {<<i>> : i \in OwnSlots(root)}
      two == UNION {{Append(p, i) : i \in ChildSlots(TableAt(root, p))} : p \in one}
      three == UNION {{Append(p, i) : i \in ChildSlots(TableAt(root, p))} : p \in two}
  IN  one \cup two \cup three

\* The next table to go: nothing below it is left.
IsLeafmost(path) ==
  \A q \in doomed : Len(q) > Len(path) => SubSeq(q, 1, Len(path)) # path

\* Mutant: the loop does not advance to the next entry.
DestroyTable_Stuck(root) ==
  /\ \E path \in doomed :
       /\ IsLeafmost(path)
       /\ free_pages(Block(TableAt(root, path), 1))
  /\ UNCHANGED <<pc, g_pml4, cr3, job, doomed, framebuffer>>

DestroyTable(root) ==
  /\ \E path \in doomed :
       /\ IsLeafmost(path)
       /\ free_pages(Block(TableAt(root, path), 1))
       /\ doomed' = doomed \ {path}
  /\ UNCHANGED <<pc, g_pml4, cr3, job, framebuffer>>

-----------------------------------------------------------------------------
AllPages == UNION Pools

PagingInit ==
  /\ pc = "pml4"
  /\ free \in Pools
  /\ held = {}
  /\ drops = 0
  /\ wrong_frees = {}
  /\ tables = [p \in AllPages |-> EmptyTable]
  /\ g_pml4 = 0
  /\ cr3 = 0
  /\ job = NoJob
  /\ doomed = {}
  /\ framebuffer \in Framebuffers

=============================================================================
