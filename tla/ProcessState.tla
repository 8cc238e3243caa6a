---------------------------- MODULE ProcessState ----------------------------
(***************************************************************************)
(* What is true of Process at each place of the code: the inductive        *)
(* invariants Inv and View, and what they are made of.                     *)
(*                                                                         *)
(* Inv says who holds each page.  Every block that was lent is a table of  *)
(* the kernel, a table of the program's address space, or a buffer the     *)
(* process record names, and never two of these.                           *)
(*                                                                         *)
(* View says what the roots map.  The kernel's root maps what paging_init  *)
(* said it should, at each moment of the boot and ever after; the          *)
(* program's root maps the same, and the pages of the program that have    *)
(* been mapped so far.                                                     *)
(***************************************************************************)
EXTENDS Process

\* The pages of a block, as PageStore has them.
RunPages(b) == Store!RunPages(b)
\* The root of the program's address space, 0 if there is none.
Root == process.page_table_root

-----------------------------------------------------------------------------
(* Trees of tables.                                                        *)

\* Entry i of the table t leads to a table of the tree under root.  Of the
\* root only the entries W count.
Edge(tab, root, W, t, i) == tab[t][i].kind = "table" /\ (t = root => i \in W)

\* The tables N form a tree under root: lev is the level of each, every table
\* but the root is the child of exactly one entry.
IsTree(tab, root, W, N, lev) ==
  /\ root \in N
  /\ lev \in [N -> 1 .. 4]
  /\ lev[root] = 4
  /\ \A t \in N, i \in Slots :
       Edge(tab, root, W, t, i) =>
         /\ lev[t] > 1
         /\ tab[t][i].page \in N
         /\ lev[tab[t][i].page] = lev[t] - 1
  /\ \A n \in N : n # root =>
       \E t \in N, i \in Slots : Edge(tab, root, W, t, i) /\ tab[t][i].page = n
  /\ \A t, u \in N : \A i, j \in Slots :
       /\ Edge(tab, root, W, t, i) /\ Edge(tab, root, W, u, j)
       /\ tab[t][i].page = tab[u][j].page
       => t = u /\ i = j

-----------------------------------------------------------------------------
(* The inductive invariant.                                                *)

\* The blocks of the tables ts, those the process record names, and the places
\* where paging_destroy_user_tree is under way.
Blocks(ts) == {Block(t, 1) : t \in ts}
Fields == {process.image_backing, process.stack_backing, process.file_buffer} \ {NULL}
Destroying == pc \in {"fail_tables", "release_tables"}

\* What PageStore promises: blocks are disjoint and not free.
StoreOK ==
  /\ free \subseteq AllPages
  /\ held \subseteq [base : AllPages, pages : Nat \ {0}]
  /\ \A b \in held : RunPages(b) \subseteq AllPages \ free
  /\ \A b, c \in held : b # c => RunPages(b) \cap RunPages(c) = {}

\* The kernel's tables are N, and none of its root's entries is for ring 3.
KernelTree(N, lev) ==
  IF pc = "pml4" THEN N = {}
  ELSE /\ IsTree(tables, g_pml4, Slots, N, lev)
       /\ \A i \in Slots : ~ tables[g_pml4][i].u

\* An entry of the program's root is the kernel's, or it leads to a table for
\* ring 3 where the kernel has none.
RootShared ==
  \A i \in Slots :
    \/ tables[Root][i] = tables[g_pml4][i]
    \/ /\ tables[Root][i].kind = "table"
       /\ tables[Root][i].u
       /\ tables[g_pml4][i].kind # "table"

\* While the address space is torn down: the tables that are left are those of
\* the paths in doomed, which are closed under taking the path above.
DoomedTree(M) ==
  /\ M = {Root} \cup {TableAt(Root, q) : q \in doomed}
  /\ \A q \in doomed :
       /\ q \in Seq(Slots)
       /\ Len(q) \in 1 .. 3
       /\ Len(q) > 1 => <<q[1]>> \in doomed
       /\ Len(q) > 2 => <<q[1], q[2]>> \in doomed
       /\ TableAt(Root, q) # Root
  /\ \A q, r \in doomed : TableAt(Root, q) = TableAt(Root, r) => q = r

\* The program's tables are M.
UserTree(M, lev) ==
  IF Root = 0 THEN M = {}
  ELSE IF Destroying THEN DoomedTree(M)
  ELSE RootShared /\ IsTree(tables, Root, OwnSlots(Root), M, lev)

\* Every block has one owner: the kernel's tables N, the program's tables M, or
\* a field of the process.
Accounts(N, M) ==
  /\ held = Blocks(N) \cup Blocks(M) \cup Fields
  /\ N \cap M = {}
  /\ Fields \cap Blocks(N \cup M) = {}
  /\ process.image_backing # NULL =>
       process.image_backing \notin {process.stack_backing, process.file_buffer}
  /\ process.stack_backing # NULL => process.stack_backing # process.file_buffer

\* Types, as far as the steps need them.
Rows == [Slots -> Entry]
Tables == [AllPages -> Rows]
Run0 == [base : Nat, pages : Nat]
JobTypes == [root : Nat, virt : Nat, end : Nat, phys : Nat,
             w : BOOLEAN, x : BOOLEAN, u : BOOLEAN]
ProcessTypes ==
  [state : {"idle", "loaded", "running", "exited"},
   page_table_root : AllPages \cup {0}, image_base : Nat, image_pages : Nat,
   image_backing : Run0, stack_backing : Run0, file_buffer : Run0,
   exit_requested : BOOLEAN, failed : BOOLEAN]
LineTypes == [buffer : Nat, capacity : Nat, len : Nat]
Types ==
  /\ pc \in BootPhases \cup LoadPhases \cup LeavePhases
            \cup {"idle", "user", "read_line", "panic", "fault"}
  /\ drops \in 0 .. MaxDrops
  /\ wrong_frees = {}
  /\ tables \in Tables
  /\ {g_pml4, cr3, saved_root} \subseteq AllPages \cup {0}
  /\ job \in JobTypes
  /\ process \in ProcessTypes
  /\ active \in BOOLEAN
  /\ line \in LineTypes
  /\ line.len <= line.capacity
  /\ framebuffer \in Framebuffers

\* The program has no pages.
NoBacking == process.image_backing = NULL /\ process.stack_backing = NULL

\* What the place in the code says about roots and fields.
Control ==
  /\ (g_pml4 = 0) = (pc = "pml4")
  /\ pc \in BootPhases \cup {"panic", "idle", "file_buffer"} =>
       NoBacking /\ process.file_buffer = NULL /\ Root = 0
  /\ pc \in {"load", "create_root"} => NoBacking /\ Root = 0
  /\ pc = "image_backing" => NoBacking /\ Root # 0
  /\ pc = "stack_backing" => process.stack_backing = NULL /\ Root # 0
  /\ pc \in {"map_image", "mapping_image", "mapping_stack", "stage", "copy",
             "start", "user", "read_line", "returned", "fault", "fail_stack"}
       => Root # 0
  /\ pc = "fail_image" => process.stack_backing = NULL /\ Root # 0
  /\ pc \in {"fail_root", "fail_tables"} => NoBacking /\ Root # 0
  /\ pc = "release_stack" => process.image_backing = NULL
  /\ pc = "release_file" => NoBacking
  /\ pc \in {"release_root", "release_tables"} =>
       NoBacking /\ process.file_buffer = NULL
  /\ pc = "release_tables" => Root # 0
  /\ ~ Destroying => doomed = {}

\* Which root is active, and which one comes back.
InSpace == {"copy", "user", "read_line", "returned"}
Active ==
  /\ pc \notin BootPhases \cup {"panic", "fault"} \cup InSpace => cr3 = g_pml4
  /\ pc = "mmio" => cr3 = g_pml4
  /\ pc \in InSpace => cr3 = Root /\ saved_root = g_pml4
  /\ pc = "fault" => cr3 \in {g_pml4, Root}
  /\ active => pc \in {"user", "read_line", "returned", "fault"} /\ saved_root = g_pml4

\* Pages split_large_page may be called for: the walk stops at level 2.
LargeStops(first, end) ==
  \A v \in first .. (end - 1) : v % TableEntries = 0 => Stop(g_pml4, v).level = 2

\* The entry of the kernel's root for a page; the program's, where it leads to a
\* table for ring 3; the first page of the kernel's text.
KernelSlot(v) == tables[g_pml4][IndexAt(v, 4)]
UserSlot(v) == /\ tables[Root][IndexAt(v, 4)].kind = "table"
               /\ tables[Root][IndexAt(v, 4)].u
Text == Sections[1].first

\* Where the mapping is.  The root's entry for the kernel's text is a table,
\* and it has been accessed, before a program's root is made of it; so are those
\* for the framebuffer; those for the program's pages are for ring 3.
BootJob ==
  /\ pc \in BootPhases \ {"pml4", "load_cr3"} => job.root = g_pml4 /\ ~ job.u
  /\ pc = "large" => /\ job.virt % TableEntries = 0
                     /\ job.end = LowLimit
                     /\ LargeStops(TableEntries, job.virt)
  /\ pc = "split" => /\ job.virt % TableEntries = 0
                     /\ job.end <= LowLimit
                     /\ LargeStops(job.virt, job.end)
  /\ pc = "text" => /\ job.end = Sections[1].end
                    /\ job.virt > Text => KernelSlot(Text).kind = "table"
  /\ pc \in {"rodata", "data", "framebuffer", "load_cr3"} =>
       KernelSlot(Text).kind = "table"
  /\ pc = "mmio" \/ Booted => KernelSlot(Text).kind = "table" /\ KernelSlot(Text).a
  /\ Booted => \A v \in FramebufferPages :
                 KernelSlot(v).kind = "table" => KernelSlot(v).a

\* While a program is loaded, its entries for the pages mapped so far are in
\* place; afterwards, those for all its pages are.
Placed == {"create_root", "image_backing", "stack_backing", "map_image",
           "mapping_image", "mapping_stack", "stage", "copy", "start"}
UserJobs ==
  /\ \E k \in Nat : process.image_base = k * PageSize
  /\ pc \in LoadPhases => program \in Programs
  /\ pc \in Placed =>
       /\ LayoutAccepted(program)
       /\ process.image_base = ImageFirst(program) * PageSize
       /\ process.image_pages = ImageEnd(program) - ImageFirst(program)
  /\ pc \in {"mapping_image", "mapping_stack"} => job.root = Root /\ job.u
  /\ pc = "mapping_image" =>
       /\ job.end = PageOf(process.image_base) + process.image_pages
       /\ \A v \in PageOf(process.image_base) .. (job.virt - 1) : UserSlot(v)
  /\ pc = "mapping_stack" =>
       /\ job.end = PageOf(StackBase) + StackPages
       /\ \A v \in ImagePages : UserSlot(v)
       /\ \A v \in PageOf(StackBase) .. (job.virt - 1) : UserSlot(v)
  /\ pc \in {"stage", "start"} \cup InSpace =>
       \A v \in ImagePages \cup StackRange : UserSlot(v)
  /\ pc = "read_line" =>
       /\ process_user_range_valid(line.buffer, line.capacity)
       /\ line.len < line.capacity

\* There are trees of tables that account for every block.
Memory ==
  /\ StoreOK
  /\ \E N, lev, M, mlev : KernelTree(N, lev) /\ UserTree(M, mlev) /\ Accounts(N, M)

\* The inductive invariant.
Inv == Types /\ Control /\ Active /\ Memory /\ BootJob /\ UserJobs

-----------------------------------------------------------------------------
(* Trees that grow.                                                        *)

\* In the tables tb the entry i of t, which led to no table, leads to b; b is
\* a table without tables below.
Grown(tab, root, W, N, lev, t, i, b, tb, V) ==
  /\ t \in N /\ i \in Slots /\ lev[t] > 1 /\ ~ Edge(tab, root, W, t, i)
  /\ b \notin N
  /\ V = W \cup (IF t = root THEN {i} ELSE {})
  /\ tb[t][i].kind = "table" /\ tb[t][i].page = b
  /\ \A n \in N, j \in Slots :
       ~ (n = t /\ j = i) =>
         tb[n][j].kind = tab[n][j].kind /\ tb[n][j].page = tab[n][j].page
  /\ \A j \in Slots : tb[b][j].kind # "table"

-----------------------------------------------------------------------------
(* The boot.                                                               *)

\* From one range to the next.
RangeDone ==
  \/ LowMapped \/ LargeMapped \/ NextRange("split", "text")
  \/ NextRange("text", "rodata") \/ NextRange("rodata", "data")
  \/ DataMapped \/ FramebufferMapped

\* A walk over the tables tab.
Has(tab, t, v, l) == tab[t][IndexAt(v, l)].kind = "table"
Down(tab, t, v, l) == tab[t][IndexAt(v, l)].page
T3(tab, root, v) == Down(tab, root, v, 4)
T2(tab, root, v) == Down(tab, T3(tab, root, v), v, 3)
T1(tab, root, v) == Down(tab, T2(tab, root, v), v, 2)
StopIn(tab, root, v) ==
  IF ~ Has(tab, root, v, 4)
    THEN [table |-> root, index |-> IndexAt(v, 4), level |-> 4]
  ELSE IF ~ Has(tab, T3(tab, root, v), v, 3)
    THEN [table |-> T3(tab, root, v), index |-> IndexAt(v, 3), level |-> 3]
  ELSE IF ~ Has(tab, T2(tab, root, v), v, 2)
    THEN [table |-> T2(tab, root, v), index |-> IndexAt(v, 2), level |-> 2]
  ELSE [table |-> T1(tab, root, v), index |-> IndexAt(v, 1), level |-> 1]

\* The tables with the row nt for b, and with the entry e at t[i].
WithTable(tab, b, nt, t, i, e) == [tab EXCEPT ![b] = nt, ![t][i] = e]
WithEntry(tab, t, i, e) == [tab EXCEPT ![t][i] = e]

\* During the boot the blocks that were lent are the tables of the kernel.
KernelOnly(N, lev) ==
  /\ IsTree(tables, g_pml4, Slots, N, lev)
  /\ \A i \in Slots : ~ tables[g_pml4][i].u
  /\ held = Blocks(N)

\* The block b becomes a table, and the entry where the walk for v stops leads
\* to it.
KernelAdds(N, lev, v, b, nt, e) ==
  /\ tables \in Tables /\ StoreOK /\ KernelOnly(N, lev)
  /\ v \in Nat /\ Stop(g_pml4, v).level > 1
  /\ b \in Candidates(1) /\ alloc_pages(1, b)
  /\ nt \in Rows /\ \A i \in Slots : nt[i].kind # "table"
  /\ e \in Entry /\ e.kind = "table" /\ e.page = b.base
  /\ Stop(g_pml4, v).level = 4 => ~ e.u
  /\ tables' = WithTable(tables, b.base, nt, Stop(g_pml4, v).table, Stop(g_pml4, v).index, e)
  /\ g_pml4' = g_pml4

\* Of the entries of the tables N only the entry i0 of t0 is another one.
OneChanged(N, t0, i0) ==
  \A t \in N, i \in Slots : ~ (t = t0 /\ i = i0) => tables'[t][i] = tables[t][i]

\* The entry where the walk for v stops, below the root, is set to a page.
KernelPuts(N, lev, v, e) ==
  /\ tables \in Tables /\ StoreOK /\ KernelOnly(N, lev)
  /\ v \in Nat /\ Stop(g_pml4, v).level < 4
  /\ e \in Entry /\ e.kind # "table"
  /\ tables' = WithEntry(tables, Stop(g_pml4, v).table, Stop(g_pml4, v).index, e)
  /\ g_pml4' = g_pml4 /\ held' = held

\* The entries that lead to tables are those that did.
SameTables(N) ==
  \A t \in N, i \in Slots :
    /\ tables[t][i].kind = "table" => tables'[t][i] = tables[t][i]
    /\ tables[t][i].kind # "table" => tables'[t][i].kind # "table"

\* A walk that stops at level 2 still does when no table on it goes away and its
\* entry gets none.
TablesStay(N) ==
  \A t \in N, i \in Slots : tables[t][i].kind = "table" => tables'[t][i] = tables[t][i]

-----------------------------------------------------------------------------
(* Blocks of the process.                                                  *)

\* The fields of the process that hold blocks.
FieldNames == {"image_backing", "stack_backing", "file_buffer"}

\* One `if (... != NULL) free_pages' of the way out.
FreesField ==
  \/ FreeField("fail_stack", "stack_backing", "fail_image")
  \/ FreeField("fail_image", "image_backing", "fail_root")
  \/ FreeField("release_image", "image_backing", "release_stack")
  \/ FreeField("release_stack", "stack_backing", "release_file")
  \/ FreeField("release_file", "file_buffer", "release_root")

-----------------------------------------------------------------------------
(* The address space of a program.                                         *)

\* The two trees, and who owns the blocks.
Owned(N, lev, M, mlev) == KernelTree(N, lev) /\ UserTree(M, mlev) /\ Accounts(N, M)

-----------------------------------------------------------------------------
(* What the kernel touches while the program's root is active.             *)

\* The two trees while there is an address space: they are apart, and account,
\* with the process record, for every block.
Space(N, lev, M, mlev) ==
  /\ Owned(N, lev, M, mlev)
  /\ StoreOK /\ tables \in Tables
  /\ IsTree(tables, g_pml4, Slots, N, lev)
  /\ \A i \in Slots : ~ tables[g_pml4][i].u
  /\ RootShared
  /\ IsTree(tables, Root, OwnSlots(Root), M, mlev)
  /\ N \subseteq AllPages /\ M \subseteq AllPages /\ N \cap M = {}
  /\ g_pml4 \in N /\ Root \in M
  /\ held = Blocks(N) \cup Blocks(M) \cup Fields
  /\ Fields \cap Blocks(N \cup M) = {}
  /\ \A t \in N \cup M : Block(t, 1) \in held

\* The phases in which the program's pages are all mapped.
Loaded == {"stage", "start"} \cup InSpace

\* The step touches pages of the program, or of the framebuffer, under its root.
Touches ==
  \E pages, next :
    /\ pc \in Loaded \ {"returned"}
    /\ pages \subseteq ImagePages \cup StackRange \cup FramebufferPages
    /\ next \in {"copy", "start", "user", "read_line"}
    /\ Touch(Root, pages, next)
    /\ UNCHANGED <<free, held, g_pml4, job, framebuffer>>
    /\ Root' = Root
    /\ process'.image_backing = process.image_backing
    /\ process'.stack_backing = process.stack_backing
    /\ process'.image_base = process.image_base
    /\ process'.image_pages = process.image_pages

-----------------------------------------------------------------------------
(* The paths of a tree, and the tables torn down.                          *)

\* The tables one, two and three entries below a root.
P1(tab, root, i) == tab[root][i].page
P2(tab, root, i, j) == tab[P1(tab, root, i)][j].page
P3(tab, root, i, j, k) == tab[P2(tab, root, i, j)][k].page

\* A path of entries of the tree.
Path1(tab, root, W, i) == i \in Slots /\ Edge(tab, root, W, root, i)
Path2(tab, root, W, i, j) ==
  Path1(tab, root, W, i) /\ j \in Slots /\ tab[P1(tab, root, i)][j].kind = "table"
Path3(tab, root, W, i, j, k) ==
  Path2(tab, root, W, i, j) /\ k \in Slots /\ tab[P2(tab, root, i, j)][k].kind = "table"

\* The path q leads from the root to the table t.
Leads(tab, root, W, q, t) ==
  \/ \E i : Path1(tab, root, W, i) /\ q = <<i>> /\ t = P1(tab, root, i)
  \/ \E i, j : Path2(tab, root, W, i, j) /\ q = <<i, j>> /\ t = P2(tab, root, i, j)
  \/ \E i, j, k : Path3(tab, root, W, i, j, k) /\ q = <<i, j, k>> /\ t = P3(tab, root, i, j, k)

\* TableAt, over the tables tab.
TableIn(tab, root, path) ==
  LET t3 == tab[root][path[1]].page
      t2 == tab[t3][path[2]].page
  IN  CASE Len(path) = 1 -> t3
        [] Len(path) = 2 -> t2
        [] Len(path) = 3 -> tab[t2][path[3]].page

\* The tables M but t are the same in tab and in tb.
AllBut(tab, tb, M, t) == \A p \in M : p # t => tb[p] = tab[p]

-----------------------------------------------------------------------------
(* Tables below tables.                                                    *)

\* The tables that the tables ts lead to.
Kids(ts) == {tables[p[1]][p[2]].page : p \in
              {q \in ts \X Slots : tables[q[1]][q[2]].kind = "table"}}

-----------------------------------------------------------------------------
(* Walks over the tables tab.                                              *)

\* The mapping of v by the entry e, where the walk ends at this level; up says
\* whether the entries above let ring 3 through.
Final(e, v, level, up) ==
  IF e.kind = "none" THEN NoEntry
  ELSE [e EXCEPT !.page = @ + (v % Span(level)), !.u = @ /\ up]

\* The entry where the walk for v stops, and what those above it allow.
EntryIn(tab, root, v) ==
  tab[StopIn(tab, root, v).table][StopIn(tab, root, v).index]
PathIn(tab, root, v) ==
  /\ StopIn(tab, root, v).level < 4 => tab[root][IndexAt(v, 4)].u
  /\ StopIn(tab, root, v).level < 3 => tab[T3(tab, root, v)][IndexAt(v, 3)].u
  /\ StopIn(tab, root, v).level < 2 => tab[T2(tab, root, v)][IndexAt(v, 2)].u
MapIn(tab, root, v) ==
  Final(EntryIn(tab, root, v), v, StopIn(tab, root, v).level, PathIn(tab, root, v))

\* The tables of a root, each with its level.
Graded(tab, root, X, lev) ==
  /\ tab \in Tables
  /\ X \subseteq AllPages
  /\ lev \in [X -> 1 .. 4]
  /\ root \in X
  /\ lev[root] = 4
  /\ \A t \in X, i \in Slots :
       tab[t][i].kind = "table" =>
         /\ lev[t] > 1
         /\ tab[t][i].page \in X
         /\ lev[tab[t][i].page] = lev[t] - 1

-----------------------------------------------------------------------------
(* What a walk makes of a change.                                          *)

\* Of the tables X, those entries that lead to a table still do, to the same one.
Alike(tab, tb, X) ==
  \A t \in X, i \in Slots : tab[t][i].kind = "table" =>
    /\ tb[t][i].kind = "table"
    /\ tb[t][i].page = tab[t][i].page
    /\ tb[t][i].u = tab[t][i].u

\* In the tables tb the entry i of t, which led to no table, leads to d, whose
\* entries are nt; the others are those of tab.
Spliced(tab, tb, X, t, i, d, nt) ==
  /\ t \in X /\ i \in Slots
  /\ tab[t][i].kind # "table"
  /\ tb[t][i].kind = "table" /\ tb[t][i].page = d
  /\ tb[d] = nt
  /\ \A p \in X, j \in Slots : ~ (p = t /\ j = i) => tb[p][j] = tab[p][j]

\* The entry i of t, which leads to no table, is e in the tables tb.
Put(tab, tb, X, t, i, e) ==
  /\ t \in X /\ i \in Slots
  /\ tab[t][i].kind # "table" /\ e.kind # "table" /\ e \in Entry
  /\ tb[t][i] = e
  /\ \A p \in X, j \in Slots : ~ (p = t /\ j = i) => tb[p][j] = tab[p][j]

\* The tables M form a tree under root by its entries W; the other entries lead
\* to the tables N, which lead to nothing else.
Grafted(tab, root, W, M, lev, N) ==
  /\ IsTree(tab, root, W, M, lev)
  /\ N \cap M = {}
  /\ \A t \in N, i \in Slots : tab[t][i].kind = "table" => tab[t][i].page \in N
  /\ \A i \in Slots \ W : tab[root][i].kind = "table" => tab[root][i].page \in N

-----------------------------------------------------------------------------
(* What the kernel's root maps.                                            *)

\* The order of the places of the boot; the last number is that of all others.
Place(ph) ==
  CASE ph = "low" -> 1
    [] ph = "large" -> 2
    [] ph = "split" -> 3
    [] ph = "text" -> 4
    [] ph = "rodata" -> 5
    [] ph = "data" -> 6
    [] ph = "framebuffer" -> 7
    [] ph = "load_cr3" -> 8
    [] ph = "mmio" -> 9
    [] OTHER -> 10

\* The ranges that are mapped page by page at each place, with their permissions.
Extent(first, end, w, x) == [first |-> first, end |-> end, w |-> w, x |-> x]
ExtentAt(n, fb) ==
  CASE n = 1 -> Extent(1, TableEntries, TRUE, TRUE)
    [] n = 4 -> Extent(Sections[1].first, Sections[1].end, Sections[1].w, Sections[1].x)
    [] n = 5 -> Extent(Sections[2].first, Sections[2].end, Sections[2].w, Sections[2].x)
    [] n = 6 -> Extent(Sections[3].first, Sections[3].end, Sections[3].w, Sections[3].x)
    [] n = 7 -> Extent(fb.first, fb.end, TRUE, FALSE)
    [] n = 9 -> Extent(MmioRange.first, MmioRange.end, TRUE, FALSE)
ByPage == {1, 4, 5, 6, 7, 9}

\* At place n, v is one of the pages of the range of place k that are mapped: those
\* before c, while the boot is at this place, all of them afterwards.
Done(k, n, c, v) == n > k \/ (n = k /\ v < c)

\* v is in a section, in the framebuffer or a device, in low memory, and mapped.
Image(i, n, c, v) == InSection(v, i) /\ Done(i + 3, n, c, v)
Device(n, c, fb, v) ==
  \/ v \in fb.first .. (fb.end - 1) /\ Done(7, n, c, v)
  \/ v \in MmioRange.first .. (MmioRange.end - 1) /\ Done(9, n, c, v)
LowMemory(n, c, v) == v \in 1 .. (LowLimit - 1) /\ (n > 2 \/ v < c)

\* What v is mapped to at place n; fb is the framebuffer.
Sees(n, c, fb, v) ==
  IF Image(1, n, c, v) THEN PageEntry(v, Sections[1].w, Sections[1].x, FALSE)
  ELSE IF Image(2, n, c, v) THEN PageEntry(v, Sections[2].w, Sections[2].x, FALSE)
  ELSE IF Image(3, n, c, v) THEN PageEntry(v, Sections[3].w, Sections[3].x, FALSE)
  ELSE IF Device(n, c, fb, v) THEN PageEntry(v, TRUE, FALSE, FALSE)
  ELSE IF LowMemory(n, c, v) THEN PageEntry(v, TRUE, TRUE, FALSE)
  ELSE NoEntry

\* The cursor of the boot is in its range, which is mapped to itself.
Cursor ==
  /\ Place(pc) \in ByPage =>
       LET r == ExtentAt(Place(pc), framebuffer)
       IN  /\ job.virt \in r.first .. r.end /\ job.end = r.end
           /\ job.phys = job.virt /\ job.w = r.w /\ job.x = r.x
  /\ pc = "framebuffer" => HasFramebuffer
  /\ pc = "large" => job.virt \in TableEntries .. LowLimit /\ job.phys = job.virt

\* The kernel's root maps what it should; its entries lead to tables.
KernelSees ==
  pc \notin {"pml4", "panic"} =>
    /\ \A v \in VirtualPages :
         MapIn(tables, g_pml4, v) = Sees(Place(pc), job.virt, framebuffer, v)
    /\ \A i \in Slots : tables[g_pml4][i].kind # "page"

\* The same is mapped for v at two places.
Same(n, c, m, d, fb, v) ==
  /\ Image(1, n, c, v) <=> Image(1, m, d, v)
  /\ Image(2, n, c, v) <=> Image(2, m, d, v)
  /\ Image(3, n, c, v) <=> Image(3, m, d, v)
  /\ Device(n, c, fb, v) <=> Device(m, d, fb, v)
  /\ LowMemory(n, c, v) <=> LowMemory(m, d, v)

-----------------------------------------------------------------------------
(* The kernel's root after the boot.                                       *)

\* The boot is over, and did not end in a panic.
Later == pc \notin BootPhases \cup {"panic"}

\* The kernel's tables, and that they are held.
KernelHas(N, lev) ==
  /\ StoreOK
  /\ IsTree(tables, g_pml4, Slots, N, lev)
  /\ \A t \in N : Block(t, 1) \in held
  /\ Graded(tables, g_pml4, N, lev)

-----------------------------------------------------------------------------
(* What the program's root maps.                                           *)

\* Before, during and after the two calls of paging_map_user_range.
Part(ph) ==
  CASE ph = "mapping_image" -> 1
    [] ph = "mapping_stack" -> 2
    [] ph \in {"stage", "copy", "start", "user", "read_line", "returned"} -> 3
    [] OTHER -> 0

\* The program's pages and the memory they get.
Layout == [first |-> PageOf(process.image_base), pages |-> process.image_pages,
           image |-> process.image_backing.base, stack |-> process.stack_backing.base]

\* v is a page of the image, or of the stack, and mapped at part s.
OfImage(s, c, q, v) == v \in q.first .. (q.first + q.pages - 1) /\ (s > 1 \/ (s = 1 /\ v < c))
OfStack(s, c, v) ==
  /\ v \in PageOf(StackBase) .. (PageOf(StackBase) + StackPages - 1)
  /\ s > 2 \/ (s = 2 /\ v < c)

\* What a page of the image and of the stack are mapped to.
ImageEntry(q, v) == PageEntry(q.image + (v - q.first), TRUE, TRUE, TRUE)
StackEntry(q, v) == PageEntry(q.stack + (v - PageOf(StackBase)), TRUE, FALSE, TRUE)

\* What v is mapped to at part s; q is the layout, fb the framebuffer.
UserSees(s, c, q, fb, v) ==
  IF OfImage(s, c, q, v) THEN ImageEntry(q, v)
  ELSE IF OfStack(s, c, v) THEN StackEntry(q, v)
  ELSE Sees(10, 0, fb, v)

\* The phases in which there is an address space.
Shown == (Placed \ {"create_root"}) \cup InSpace

\* The cursor of the two calls is in its range.
UserCursor ==
  /\ pc \in Shown => Layout.first + Layout.pages <= PageOf(StackBase)
  /\ pc = "mapping_image" =>
       /\ job.virt \in Layout.first .. (Layout.first + Layout.pages)
       /\ job.phys = Layout.image + (job.virt - Layout.first)
       /\ job.w /\ job.x
  /\ pc = "mapping_stack" =>
       /\ job.virt \in PageOf(StackBase) .. (PageOf(StackBase) + StackPages)
       /\ job.phys = Layout.stack + (job.virt - PageOf(StackBase))
       /\ job.w /\ ~ job.x

\* The program's root maps what it should.
UserShown ==
  pc \in Shown =>
    \A v \in VirtualPages :
      MapIn(tables, Root, v) = UserSees(Part(pc), job.virt, Layout, framebuffer, v)

\* What the roots map, at every moment; nothing has faulted in the kernel.
View == Cursor /\ KernelSees /\ UserCursor /\ UserShown /\ pc # "fault"

\* The levels l2 of the tables M are mlev.
Extends(l2, mlev, M) == \A t \in M : l2[t] = mlev[t]

-----------------------------------------------------------------------------
(* Steps of paging_map_user_range.                                         *)

\* An entry that maps its page for ring 3, where the way does.
Small(e) == e \in Entry /\ e.kind # "table" /\ \A v \in Nat : \A up : up => Final(e, v, 1, up) = e

=============================================================================
