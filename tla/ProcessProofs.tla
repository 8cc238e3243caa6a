--------------------------- MODULE ProcessProofs ---------------------------
(***************************************************************************)
(* Proofs about Process: who holds each page, and what the roots map.      *)
(* ProcessState defines the invariants.                                    *)
(***************************************************************************)
EXTENDS ProcessState, TLAPS, FiniteSetTheorems, SequenceTheorems, Numbers

-----------------------------------------------------------------------------
(* Lemmas about trees. *)

\* The indices of a page are slots.
LEMMA IndexFacts ==
  /\ \A v \in Nat, l \in 1 .. 4 : IndexAt(v, l) \in Slots
  /\ \A v \in Nat : /\ IndexAt(v, 1) \in Slots /\ IndexAt(v, 2) \in Slots
                    /\ IndexAt(v, 3) \in Slots /\ IndexAt(v, 4) \in Slots
<1>1. TableEntries \in Nat /\ TableEntries > 0
  BY PagingAssumption
<1>2. TableEntries * TableEntries \in Nat /\ TableEntries * TableEntries > 0
  BY <1>1
<1> DEFINE P == TableEntries * TableEntries
<1>3. P * TableEntries \in Nat /\ P * TableEntries > 0
  <2>1. P \in Nat /\ P > 0
    BY <1>2
  <2> HIDE DEF P
  <2> QED BY <1>1, <2>1
<1>4. ASSUME NEW l \in 1 .. 4 PROVE Span(l) \in Nat /\ Span(l) > 0
  BY <1>1, <1>2, <1>3 DEF Span
<1>5. ASSUME NEW v \in Nat, NEW s \in Nat, s > 0
      PROVE  (v \div s) % TableEntries \in Slots
  <2>1. v \div s \in Int
    BY <1>5
  <2> DEFINE q == v \div s
  <2> HIDE DEF q
  <2>2. q % TableEntries \in 0 .. (TableEntries - 1)
    BY <1>1, <2>1 DEF q
  <2> QED BY <2>2 DEF q, Slots
<1>6. \A v \in Nat, l \in 1 .. 4 : IndexAt(v, l) \in Slots
  BY <1>4, <1>5 DEF IndexAt
<1> QED BY <1>6

\* A tree whose edges stay where they are is still that tree.
LEMMA TreeKept ==
  ASSUME NEW tab, NEW root, NEW W, NEW N, NEW lev, IsTree(tab, root, W, N, lev),
         NEW tb, NEW V,
         \A t \in N, i \in Slots :
           /\ Edge(tb, root, V, t, i) <=> Edge(tab, root, W, t, i)
           /\ Edge(tab, root, W, t, i) => tb[t][i].page = tab[t][i].page
  PROVE  IsTree(tb, root, V, N, lev)
<1> USE DEF IsTree
<1>1. \A n \in N : n # root =>
        \E t \in N, i \in Slots : Edge(tb, root, V, t, i) /\ tb[t][i].page = n
  <2> SUFFICES ASSUME NEW n \in N, n # root
               PROVE  \E t \in N, i \in Slots :
                        Edge(tb, root, V, t, i) /\ tb[t][i].page = n
    OBVIOUS
  <2>1. PICK t \in N, i \in Slots : Edge(tab, root, W, t, i) /\ tab[t][i].page = n
    OBVIOUS
  <2> QED BY <2>1
<1> QED BY <1>1

\* A tree with a new table where there was none.
LEMMA TreeGrows ==
  ASSUME NEW tab, NEW root, NEW W, NEW N, NEW lev, IsTree(tab, root, W, N, lev),
         NEW t, NEW i, NEW b, NEW tb, NEW V,
         Grown(tab, root, W, N, lev, t, i, b, tb, V)
  PROVE  \E l2 : IsTree(tb, root, V, N \cup {b}, l2)
<1>0. /\ t \in N /\ i \in Slots /\ lev[t] > 1 /\ ~ Edge(tab, root, W, t, i)
      /\ b \notin N
      /\ V = W \cup (IF t = root THEN {i} ELSE {})
      /\ tb[t][i].kind = "table" /\ tb[t][i].page = b
      /\ \A n \in N, j \in Slots :
           ~ (n = t /\ j = i) =>
             tb[n][j].kind = tab[n][j].kind /\ tb[n][j].page = tab[n][j].page
      /\ \A j \in Slots : tb[b][j].kind # "table"
  BY DEF Grown
<1> DEFINE l2 == [n \in N \cup {b} |-> IF n = b THEN lev[t] - 1 ELSE lev[n]]
           E1(n, j) == Edge(tab, root, W, n, j)
           E2(n, j) == Edge(tb, root, V, n, j)
<1>1. /\ root \in N /\ lev[root] = 4 /\ lev \in [N -> 1 .. 4]
      /\ \A n \in N, j \in Slots :
           E1(n, j) => /\ lev[n] > 1
                       /\ tab[n][j].page \in N
                       /\ lev[tab[n][j].page] = lev[n] - 1
      /\ \A n \in N : n # root => \E m \in N, j \in Slots : E1(m, j) /\ tab[m][j].page = n
      /\ \A m, n \in N : \A j, k \in Slots :
           E1(m, j) /\ E1(n, k) /\ tab[m][j].page = tab[n][k].page => m = n /\ j = k
  BY DEF IsTree
<1>2. ASSUME NEW n \in N, NEW j \in Slots, ~ (n = t /\ j = i)
      PROVE  (E2(n, j) <=> E1(n, j)) /\ tb[n][j].page = tab[n][j].page
  BY <1>0, <1>2 DEF Edge
<1>3. E2(t, i) /\ ~ E1(t, i)
  BY <1>0 DEF Edge
<1>4. \A j \in Slots : ~ E2(b, j)
  BY <1>0 DEF Edge
<1> HIDE DEF E1, E2
<1>5. l2 \in [N \cup {b} -> 1 .. 4] /\ l2[root] = 4 /\ l2[b] = lev[t] - 1
      /\ \A n \in N : l2[n] = lev[n]
  BY <1>0, <1>1
<1> HIDE DEF l2
<1>6. ASSUME NEW n \in N \cup {b}, NEW j \in Slots, E2(n, j)
      PROVE  l2[n] > 1 /\ tb[n][j].page \in N \cup {b} /\ l2[tb[n][j].page] = l2[n] - 1
  <2>1. n \in N
    BY <1>0, <1>4, <1>6
  <2>2. CASE n = t /\ j = i
    BY <1>0, <2>1, <2>2, <1>5
  <2>3. CASE ~ (n = t /\ j = i)
    <3>1. E1(n, j) /\ tb[n][j].page = tab[n][j].page
      BY <1>0, <1>2, <1>6, <2>1, <2>3
    <3> QED BY <1>0, <1>1, <1>5, <2>1, <3>1
  <2> QED BY <1>0, <2>2, <2>3
<1>7. ASSUME NEW n \in N \cup {b}, n # root
      PROVE  \E m \in N \cup {b}, j \in Slots : E2(m, j) /\ tb[m][j].page = n
  <2>1. CASE n = b
    BY <1>0, <1>3, <2>1
  <2>2. CASE n \in N
    <3>1. PICK m \in N, j \in Slots : E1(m, j) /\ tab[m][j].page = n
      BY <1>0, <1>1, <1>7, <2>2
    <3>2. ~ (m = t /\ j = i)
      BY <1>0, <1>3, <3>1
    <3> QED BY <1>0, <1>2, <3>1, <3>2
  <2> QED BY <1>0, <2>1, <2>2
<1>8. ASSUME NEW m \in N \cup {b}, NEW n \in N \cup {b}, NEW j \in Slots, NEW k \in Slots,
             E2(m, j), E2(n, k), tb[m][j].page = tb[n][k].page
      PROVE  m = n /\ j = k
  <2>1. m \in N /\ n \in N
    BY <1>0, <1>4, <1>8
  <2>2. CASE ~ (m = t /\ j = i) /\ ~ (n = t /\ k = i)
    <3>1. E1(m, j) /\ E1(n, k) /\ tab[m][j].page = tab[n][k].page
      BY <1>0, <1>2, <1>8, <2>1, <2>2
    <3> QED BY <1>0, <1>1, <2>1, <3>1
  <2>3. CASE m = t /\ j = i /\ ~ (n = t /\ k = i)
    <3>1. E1(n, k) /\ tab[n][k].page = b
      BY <1>0, <1>2, <1>8, <2>1, <2>3
    <3> QED BY <1>0, <1>1, <2>1, <3>1
  <2>4. CASE n = t /\ k = i /\ ~ (m = t /\ j = i)
    <3>1. E1(m, j) /\ tab[m][j].page = b
      BY <1>0, <1>2, <1>8, <2>1, <2>4
    <3> QED BY <1>0, <1>1, <2>1, <3>1
  <2> QED BY <1>0, <2>2, <2>3, <2>4
<1>9. IsTree(tb, root, V, N \cup {b}, l2)
  <2>1. \A n \in N \cup {b}, j \in Slots : E2(n, j) =>
          l2[n] > 1 /\ tb[n][j].page \in N \cup {b} /\ l2[tb[n][j].page] = l2[n] - 1
    BY <1>0, <1>6
  <2>2. \A n \in N \cup {b} : n # root =>
          \E m \in N \cup {b}, j \in Slots : E2(m, j) /\ tb[m][j].page = n
    BY <1>0, <1>7
  <2>3. \A m, n \in N \cup {b} : \A j, k \in Slots :
          E2(m, j) /\ E2(n, k) /\ tb[m][j].page = tb[n][k].page => m = n /\ j = k
    BY <1>0, <1>8
  <2> QED BY <1>0, <1>1, <1>5, <2>1, <2>2, <2>3 DEF IsTree, E2
<1> QED BY <1>0, <1>9

\* A walk stays in the tree, at the level it counts, and stops at an entry that
\* leads to no table.
LEMMA WalkStops ==
  ASSUME NEW root, NEW W, NEW N, NEW lev, IsTree(tables, root, W, N, lev),
         NEW v \in Nat, IsTable(root, v, 4) => IndexAt(v, 4) \in W
  PROVE  /\ Stop(root, v).table \in N
         /\ Stop(root, v).index \in Slots
         /\ Stop(root, v).level \in 1 .. 4
         /\ lev[Stop(root, v).table] = Stop(root, v).level
         /\ Stop(root, v).index = IndexAt(v, Stop(root, v).level)
         /\ ~ Edge(tables, root, W, Stop(root, v).table, Stop(root, v).index)
         /\ Stop(root, v).level > 1 => StopEntry(root, v).kind # "table"
         /\ Stop(root, v).level = 4 <=> Stop(root, v).table = root
         /\ Stop(root, v).level < 4 <=> IsTable(root, v, 4)
<1> DEFINE t3 == Below(root, v, 4)
           t2 == Below(t3, v, 3)
           t1 == Below(t2, v, 2)
           At(t, level) == [table |-> t, index |-> IndexAt(v, level), level |-> level]
<1>0. /\ IndexAt(v, 1) \in Slots /\ IndexAt(v, 2) \in Slots
      /\ IndexAt(v, 3) \in Slots /\ IndexAt(v, 4) \in Slots
  BY IndexFacts
<1>1. /\ root \in N /\ lev[root] = 4
      /\ \A t \in N : lev[t] \in 1 .. 4
      /\ \A t \in N, i \in Slots :
           tables[t][i].kind = "table" /\ (t = root => i \in W) =>
             lev[t] > 1 /\ tables[t][i].page \in N /\ lev[tables[t][i].page] = lev[t] - 1
  BY DEF IsTree, Edge
<1>2. Stop(root, v) = IF ~ IsTable(root, v, 4) THEN At(root, 4)
                      ELSE IF ~ IsTable(t3, v, 3) THEN At(t3, 3)
                      ELSE IF ~ IsTable(t2, v, 2) THEN At(t2, 2)
                      ELSE At(t1, 1)
  BY DEF Stop
<1>3. IsTable(root, v, 4) => t3 \in N /\ lev[t3] = 3
  BY <1>0, <1>1 DEF IsTable, Below
<1>4. IsTable(root, v, 4) /\ IsTable(t3, v, 3) => t2 \in N /\ lev[t2] = 2
  <2> HIDE DEF t3
  <2> QED BY <1>0, <1>1, <1>3 DEF IsTable, Below
<1>5. IsTable(root, v, 4) /\ IsTable(t3, v, 3) /\ IsTable(t2, v, 2) => t1 \in N /\ lev[t1] = 1
  <2> HIDE DEF t2
  <2> QED BY <1>0, <1>1, <1>4 DEF IsTable, Below
<1> HIDE DEF t3, t2, t1
<1>6. CASE ~ IsTable(root, v, 4)
  BY <1>0, <1>1, <1>2, <1>6 DEF Edge, IsTable, StopEntry
<1>7. CASE IsTable(root, v, 4) /\ ~ IsTable(t3, v, 3)
  BY <1>0, <1>1, <1>2, <1>3, <1>7 DEF Edge, IsTable, StopEntry
<1>8. CASE IsTable(root, v, 4) /\ IsTable(t3, v, 3) /\ ~ IsTable(t2, v, 2)
  BY <1>0, <1>1, <1>2, <1>4, <1>8 DEF Edge, IsTable, StopEntry
<1>9. CASE IsTable(root, v, 4) /\ IsTable(t3, v, 3) /\ IsTable(t2, v, 2)
  BY <1>0, <1>1, <1>2, <1>5, <1>9 DEF Edge, IsTable, StopEntry
<1> QED BY <1>6, <1>7, <1>8, <1>9

-----------------------------------------------------------------------------
(* Lemmas about the store. *)

\* The pages are those of a finite set of numbers without 0.
LEMMA PageFacts ==
  /\ AllPages \subseteq 1 .. (LowLimit - 1)
  /\ AllPages \subseteq Nat
  /\ 0 \notin AllPages
  /\ IsFiniteSet(AllPages)
<1>1. AllPages \subseteq 1 .. (LowLimit - 1) /\ LowLimit \in Nat
  BY PagingAssumption DEF AllPages
<1> DEFINE S == 1 .. (LowLimit - 1)
<1>2. IsFiniteSet(S)
  BY <1>1, FS_Interval
<1>3. AllPages \subseteq Nat /\ 0 \notin AllPages /\ AllPages \in SUBSET S
  BY <1>1
<1>4. IsFiniteSet(AllPages)
  <2> HIDE DEF S
  <2> QED BY <1>2, <1>3, FS_Subset
<1> QED BY <1>1, <1>3, <1>4

\* A block that is lent was free, and so shares no page with another.
LEMMA AllocFacts ==
  ASSUME StoreOK, NEW n, NEW b \in Candidates(n), alloc_pages(n, b), n \in Nat
  PROVE  /\ StoreOK'
         /\ held' = held \cup {b}
         /\ b \notin held
         /\ b # NULL
         /\ b \in [base : AllPages, pages : Nat \ {0}]
         /\ b = Block(b.base, n)
         /\ n > 0
         /\ b.base \in free
         /\ b.base \in RunPages(b)
         /\ \A c \in held : RunPages(c) \cap RunPages(b) = {}
         /\ UNCHANGED <<drops, wrong_frees>>
<1>1. PICK base \in free : b = Block(base, n)
  BY DEF Candidates
<1>2. /\ b.pages > 0 /\ RunPages(b) \subseteq free /\ free' = free \ RunPages(b)
      /\ held' = held \cup {b} /\ UNCHANGED <<drops, wrong_frees>>
  BY DEF alloc_pages, Store!Lend, RunPages
<1>3. b.base = base /\ b.pages = n /\ base \in AllPages /\ base \in Nat /\ n > 0
  BY <1>1, <1>2, PageFacts DEF Block, StoreOK
<1>4. b \in [base : AllPages, pages : Nat \ {0}] /\ b # NULL
  <2>1. b = [base |-> base, pages |-> n]
    BY <1>1 DEF Block
  <2> QED BY <2>1, <1>3 DEF NULL, Block
<1>5. b.base \in RunPages(b)
  BY <1>3 DEF RunPages, Store!RunPages
<1>6. \A c \in held : RunPages(c) \cap RunPages(b) = {}
  BY <1>2 DEF StoreOK
<1>7. b \notin held
  BY <1>5, <1>6
<1>8. StoreOK'
  <2>1. free' \subseteq AllPages
    BY <1>2 DEF StoreOK
  <2>2. held' \subseteq [base : AllPages, pages : Nat \ {0}]
    BY <1>2, <1>4 DEF StoreOK
  <2>3. \A c \in held' : RunPages(c) \subseteq AllPages \ free'
    BY <1>2 DEF StoreOK
  <2>4. \A c, d \in held' : c # d => RunPages(c) \cap RunPages(d) = {}
    <3> SUFFICES ASSUME NEW c \in held', NEW d \in held', c # d
                 PROVE  RunPages(c) \cap RunPages(d) = {}
      OBVIOUS
    <3>1. (c = b /\ d \in held) \/ (d = b /\ c \in held) \/ (c \in held /\ d \in held)
      BY <1>2
    <3>2. CASE c \in held /\ d \in held
      BY <3>2 DEF StoreOK
    <3> QED BY <3>1, <3>2, <1>6
  <2> QED BY <2>1, <2>2, <2>3, <2>4 DEF StoreOK, RunPages, Store!RunPages
<1> QED BY <1>1, <1>2, <1>3, <1>4, <1>5, <1>6, <1>7, <1>8

\* A block that is held goes back, and only its pages change.
LEMMA FreeFacts ==
  ASSUME StoreOK, drops \in 0 .. MaxDrops, NEW b \in held, free_pages(b),
         tables \in Tables
  PROVE  /\ StoreOK'
         /\ held' = held \ {b}
         /\ drops' \in 0 .. MaxDrops
         /\ wrong_frees' = wrong_frees
         /\ tables' \in Tables
         /\ \A p \in AllPages : p \notin RunPages(b) => tables'[p] = tables[p]
<1> USE DEF Tables, Rows
<1>1. /\ free' \in {free, free \cup RunPages(b)}
      /\ held' = held \ {b}
      /\ drops' = (IF free' = free THEN drops + 1 ELSE drops) /\ drops' <= MaxDrops
      /\ tables' = [p \in DOMAIN tables |-> IF p \in RunPages(b) THEN EmptyTable ELSE tables[p]]
      /\ wrong_frees' = wrong_frees
  BY DEF free_pages, Store!TakeBack, RunPages
<1>2. drops' \in 0 .. MaxDrops
  BY <1>1, PagingAssumption
<1>3. EmptyTable \in [Slots -> Entry]
  BY DEF EmptyTable, NoEntry, Entry
<1>4. tables' \in Tables
  BY <1>1, <1>3
<1>5. StoreOK'
  <2>1. RunPages(b) \subseteq AllPages /\ free' \subseteq AllPages
    BY <1>1 DEF StoreOK
  <2>2. \A c \in held' : RunPages(c) \subseteq AllPages \ free'
    BY <1>1 DEF StoreOK
  <2> QED BY <1>1, <2>1, <2>2 DEF StoreOK, RunPages, Store!RunPages
<1> QED BY <1>1, <1>2, <1>4, <1>5

-----------------------------------------------------------------------------
(* Steps that leave the tables, or their shape, alone. *)

\* Nobody's pages change hands.
LEMMA SameMemory ==
  ASSUME Memory, UNCHANGED <<free, held, tables, g_pml4, doomed>>,
         Root' = Root,
         process'.image_backing = process.image_backing,
         process'.stack_backing = process.stack_backing,
         process'.file_buffer = process.file_buffer,
         (pc = "pml4") <=> (pc' = "pml4"),
         Root = 0 \/ (Destroying <=> Destroying')
  PROVE  Memory'
<1>1. PICK N, lev, M, mlev : KernelTree(N, lev) /\ UserTree(M, mlev) /\ Accounts(N, M)
  BY DEF Memory
<1>2. KernelTree(N, lev)'
  BY <1>1 DEF KernelTree
<1>3. Accounts(N, M)'
  BY <1>1 DEF Accounts, Fields, NULL, Block, Blocks
<1>4. UserTree(M, mlev)'
  <2>1. OwnSlots(Root)' = OwnSlots(Root)
    BY DEF OwnSlots
  <2>2. RootShared => RootShared'
    BY DEF RootShared
  <2>3. DoomedTree(M) => DoomedTree(M)'
    <3>1. \A q : TableAt(Root, q)' = TableAt(Root, q)
      BY DEF TableAt
    <3> QED BY <3>1 DEF DoomedTree
  <2> QED BY <1>1, <2>1, <2>2, <2>3 DEF UserTree
<1>5. StoreOK'
  BY DEF Memory, StoreOK, RunPages, Store!RunPages
<1> QED BY <1>2, <1>3, <1>4, <1>5 DEF Memory

\* What the kernel relies on in its own root, after the boot.
LEMMA SameKernel ==
  ASSUME BootJob, Booted, Booted', UNCHANGED <<g_pml4, framebuffer>>,
         framebuffer \in Framebuffers,
         \A i \in Slots : tables'[g_pml4][i] = tables[g_pml4][i]
  PROVE  BootJob'
<1> USE DEF Tables, Rows
<1>1. Text \in Nat /\ \A v \in FramebufferPages : v \in Nat
  BY PagingAssumption DEF Text, FramebufferPages
<1>2. \A v \in Nat : KernelSlot(v)' = KernelSlot(v)
  BY IndexFacts DEF KernelSlot
<1>3. FramebufferPages' = FramebufferPages /\ Text' = Text
  BY DEF FramebufferPages, Text
<1>4. pc' \notin BootPhases /\ pc' # "mmio"
  BY DEF Booted, BootPhases
<1>5. /\ KernelSlot(Text)'.kind = "table" /\ KernelSlot(Text)'.a
      /\ \A v \in FramebufferPages :
           KernelSlot(v)'.kind = "table" => KernelSlot(v)'.a
  BY <1>1, <1>2 DEF BootJob
<1>7. (KernelSlot(Text).kind = "table" /\ KernelSlot(Text).a)'
  BY <1>1, <1>2 DEF BootJob
<1>8. (\A v \in FramebufferPages : KernelSlot(v).kind = "table" => KernelSlot(v).a)'
  BY <1>5, <1>3
<1> QED BY <1>4, <1>7, <1>8 DEF BootJob, BootPhases

\* The CPU sets accessed bits in the entries of one root that lead to tables,
\* and changes nothing else.
LEMMA AccessedFacts ==
  ASSUME tables \in Tables, NEW r \in AllPages, NEW vs,
         tables' = Accessed(tables, r, vs)
  PROVE  /\ tables' \in Tables
         /\ \A t \in AllPages : t # r => tables'[t] = tables[t]
         /\ \A t \in AllPages, i \in Slots :
              /\ tables'[t][i].kind = tables[t][i].kind
              /\ tables'[t][i].page = tables[t][i].page
              /\ tables'[t][i].u = tables[t][i].u
         /\ \A i \in Slots :
              IF tables[r][i].kind = "table" /\ \E v \in vs : IndexAt(v, 4) = i
                THEN /\ tables'[r][i].a
                     /\ tables[r][i].a => tables'[r][i] = tables[r][i]
                ELSE tables'[r][i] = tables[r][i]
<1> USE DEF Tables, Rows
<1> DEFINE e(i) == tables[r][i]
           hit(i) == tables[r][i].kind = "table" /\ \E v \in vs : IndexAt(v, 4) = i
           new == [i \in Slots |-> IF hit(i) THEN [e(i) EXCEPT !.a = TRUE] ELSE e(i)]
<1>1. tables' = [tables EXCEPT ![r] = new]
  BY DEF Accessed
<1>2. ASSUME NEW x \in Entry
      PROVE  LET y == [x EXCEPT !.a = TRUE]
             IN  /\ y \in Entry /\ y.kind = x.kind /\ y.page = x.page /\ y.u = x.u /\ y.a
                 /\ x.a => y = x
  <2>1. [x EXCEPT !.a = TRUE] \in Entry
    BY DEF Entry
  <2>2. LET y == [x EXCEPT !.a = TRUE]
        IN  y.kind = x.kind /\ y.page = x.page /\ y.u = x.u /\ y.a
    BY DEF Entry
  <2>3. x.a => [x EXCEPT !.a = TRUE] = x
    <3> SUFFICES ASSUME x.a PROVE [x EXCEPT !.a = TRUE] = x
      OBVIOUS
    <3>1. x.a = TRUE
      BY DEF Entry
    <3> QED BY <3>1 DEF Entry
  <2> QED BY <2>1, <2>2, <2>3
<1>3. \A i \in Slots : e(i) \in Entry
  OBVIOUS
<1>4. ASSUME NEW i \in Slots
      PROVE  /\ new[i] \in Entry
             /\ new[i].kind = e(i).kind /\ new[i].page = e(i).page /\ new[i].u = e(i).u
             /\ IF hit(i) THEN new[i].a /\ (e(i).a => new[i] = e(i)) ELSE new[i] = e(i)
  <2>1. new[i] = IF hit(i) THEN [e(i) EXCEPT !.a = TRUE] ELSE e(i)
    OBVIOUS
  <2>2. e(i) \in Entry
    BY <1>3
  <2> HIDE DEF new, e, hit
  <2>3. CASE hit(i)
    BY <2>1, <2>2, <2>3, <1>2
  <2>4. CASE ~ hit(i)
    BY <2>1, <2>2, <2>4
  <2> QED BY <2>3, <2>4
<1>5. new \in [Slots -> Entry]
  BY <1>4
<1> HIDE DEF new
<1>6. /\ tables' \in Tables
      /\ tables'[r] = new
      /\ \A t \in AllPages : t # r => tables'[t] = tables[t]
  BY <1>1, <1>5
<1>7. \A t \in AllPages, i \in Slots :
        /\ tables'[t][i].kind = tables[t][i].kind
        /\ tables'[t][i].page = tables[t][i].page
        /\ tables'[t][i].u = tables[t][i].u
  BY <1>4, <1>6
<1> QED BY <1>4, <1>6, <1>7

-----------------------------------------------------------------------------
(* The boot. *)

\* Low memory is part of the space of a root.
LEMMA LowPages == \A v \in Nat : v < LowLimit => v \in VirtualPages
<1> DEFINE n4 == TableEntries * TableEntries * TableEntries * TableEntries
<1>1. LowLimit \in Nat /\ LowLimit <= n4
  BY PagingAssumption
<1>2. VirtualPages = 0 .. (n4 - 1)
  BY DEF VirtualPages
<1>3. n4 \in Nat
  <2>1. TableEntries \in Nat
    BY PagingAssumption
  <2> QED BY <2>1, Products
<1> HIDE DEF n4
<1> QED BY <1>1, <1>2, <1>3

\* Two pages with the same indices are the same page.
LEMMA SameIndices ==
  ASSUME NEW v \in VirtualPages, NEW w \in VirtualPages,
         IndexAt(v, 1) = IndexAt(w, 1), IndexAt(v, 2) = IndexAt(w, 2),
         IndexAt(v, 3) = IndexAt(w, 3), IndexAt(v, 4) = IndexAt(w, 4)
  PROVE  v = w
<1> DEFINE n == TableEntries
           n2 == n * n
           n3 == n2 * n
           n4 == n3 * n
<1>1. n \in Nat \ {0}
  BY PagingAssumption
<1>2. v \in Nat /\ w \in Nat /\ v < n4 /\ w < n4
  <2>1. VirtualPages = 0 .. (n4 - 1)
    BY DEF VirtualPages
  <2> QED BY <1>1, <2>1
<1>3. /\ v % n = w % n /\ (v \div n) % n = (w \div n) % n
      /\ (v \div n2) % n = (w \div n2) % n /\ (v \div n3) % n = (w \div n3) % n
  BY <1>2 DEF IndexAt, Span
<1>4. n2 \in Nat \ {0}
  BY <1>1
<1>5. n3 \in Nat \ {0}
  <2> HIDE DEF n2, n
  <2> QED BY <1>1, <1>4
<1> HIDE DEF n
<1>6. v < n * n3 /\ w < n * n3
  <2>1. n4 = n * n3
    <3> HIDE DEF n3
    <3> QED BY <1>1, <1>5
  <2> HIDE DEF n3, n4
  <2> QED BY <1>2, <2>1
<1>7. \A x \in Nat : /\ (x \div n) \div n = x \div n2 /\ (x \div n2) \div n = x \div n3
  BY <1>1, <1>4, <1>5, NestedDiv DEF n2, n3
<1> HIDE DEF n2, n3, n4
<1>8. v \div n3 < n /\ w \div n3 < n
  BY <1>1, <1>2, <1>5, <1>6, Quotients
<1>9. /\ (v \div n) \div n = v \div n2 /\ (v \div n2) \div n = v \div n3
      /\ (w \div n) \div n = w \div n2 /\ (w \div n2) \div n = w \div n3
  BY <1>2, <1>7
<1> QED BY <1>1, <1>2, <1>3, <1>8, <1>9, FourDigits

\* During the boot there is no process.
LEMMA BootControl ==
  ASSUME Types, Control, Active, UserJobs,
         pc \in BootPhases, pc' \in (BootPhases \cup {"panic"}) \ {"pml4"},
         pc' = "mmio" => cr3' = g_pml4',
         g_pml4' # 0, UNCHANGED <<processVars, doomed>>
  PROVE  Control' /\ Active' /\ UserJobs'
<1>1. /\ UNCHANGED <<process, active, program, saved_root, line>>
      /\ Root' = Root /\ Root = 0 /\ doomed = {} /\ doomed' = {}
      /\ NoBacking /\ process.file_buffer = NULL /\ ~ active
  BY DEF processVars, Root, Control, Active, BootPhases, Destroying
<1>2. /\ pc' \in BootPhases \cup {"panic"} /\ pc' # "pml4"
      /\ pc' \notin LoadPhases /\ pc' \notin LeavePhases /\ pc' \notin InSpace
      /\ pc' \notin Placed
      /\ pc' \notin {"idle", "user", "read_line", "fault", "stage", "start", "mapping_image",
                     "mapping_stack"}
  BY DEF BootPhases, LoadPhases, LeavePhases, InSpace, Placed
<1>3. Control'
  BY <1>1, <1>2 DEF Control, NoBacking, Root, Destroying, NULL, Block, LeavePhases, LoadPhases
<1>4. Active'
  BY <1>1, <1>2 DEF Active
<1>5. UserJobs'
  BY <1>1, <1>2 DEF UserJobs
<1> QED BY <1>3, <1>4, <1>5

\* No range is left to map.
LEMMA NoJobTyped == NoJob \in JobTypes /\ ~ NoJob.u
BY DEF NoJob, Job, JobTypes

\* Going from one range to the next changes no table.
LEMMA RangeDoneKeeps ==
  ASSUME Inv, RangeDone, UNCHANGED processVars
  PROVE  Inv'
<1> USE DEF RangeDone
<1>1. /\ UNCHANGED <<storeVars, tables, g_pml4, cr3, doomed, framebuffer>>
      /\ UNCHANGED <<process, active, program, saved_root, line>>
      /\ UNCHANGED <<free, held, drops, wrong_frees>>
  BY DEF LowMapped, LargeMapped, NextRange, DataMapped, FramebufferMapped, processVars,
         storeVars
<1>2. /\ pc \in BootPhases /\ pc # "pml4" /\ pc \notin {"fail_tables", "release_tables"}
      /\ pc' \in BootPhases /\ pc' # "pml4" /\ pc' \notin {"mmio", "fail_tables", "release_tables"}
  BY DEF LowMapped, LargeMapped, NextRange, DataMapped, FramebufferMapped, JobDone, BootPhases
<1>3. g_pml4 \in AllPages /\ g_pml4 \in Nat /\ g_pml4' # 0
  BY <1>1, <1>2, PageFacts DEF Inv, Types, Control
<1>4. Control' /\ Active' /\ UserJobs'
  BY <1>1, <1>2, <1>3, BootControl DEF Inv
<1>5. Memory'
  BY <1>1, <1>2, SameMemory DEF Inv, Root, Destroying
<1>6. TableEntries \in Nat \ {0} /\ LowLimit \in Nat /\ TableEntries % TableEntries = 0
  BY PagingAssumption
<1>7. CASE LowMapped
  <2>1. pc' = "large" /\ job' = Job(g_pml4, TableEntries, LowLimit, TableEntries, TRUE, TRUE, FALSE)
    BY <1>7 DEF LowMapped, JobDone
  <2>2. job' \in JobTypes
    BY <1>3, <1>6, <2>1 DEF Job, JobTypes
  <2>3. job'.virt = TableEntries /\ job'.end = LowLimit /\ job'.root = g_pml4 /\ ~ job'.u
    BY <2>1 DEF Job
  <2>4. BootJob'
    <3>1. LargeStops(TableEntries, job.virt)'
      BY <1>6, <2>3 DEF LargeStops
    <3> QED BY <1>1, <1>6, <2>1, <2>3, <3>1 DEF BootJob, Booted, BootPhases
  <2>5. Types'
    BY <1>1, <1>2, <2>2 DEF Inv, Types
  <2> QED BY <1>4, <1>5, <2>4, <2>5 DEF Inv
<1>8. CASE LargeMapped
  <2> DEFINE first == Sections[1].first
             end == Sections[3].end
             a == first - (first % TableEntries)
             b == ((end + TableEntries - 1) \div TableEntries) * TableEntries
  <2>1. pc = "large" /\ pc' = "split" /\ job.virt >= job.end
        /\ job' = Job(g_pml4, a, b, 0, FALSE, FALSE, FALSE)
    BY <1>8 DEF LargeMapped, JobDone, KernelChunks
  <2>2. first \in Nat /\ end \in Nat /\ first >= TableEntries /\ end <= LowLimit
        /\ LowLimit % TableEntries = 0
    BY PagingAssumption
  <2> HIDE DEF first, end
  <2>3. a \in Nat /\ a % TableEntries = 0 /\ a >= TableEntries
    BY <1>6, <2>2, Multiples
  <2>4. b \in Nat /\ b <= LowLimit
    <3>1. b <= LowLimit
      BY <1>6, <2>2, Multiples
    <3>2. end + TableEntries - 1 \in Nat
      BY <1>6, <2>2
    <3>3. (end + TableEntries - 1) \div TableEntries \in Nat
      BY <1>6, <3>2, DivMod
    <3>4. b \in Nat
      BY <1>6, <3>3, Products
    <3> QED BY <3>1, <3>4
  <2> HIDE DEF a, b
  <2>5. job' \in JobTypes
    BY <1>3, <2>1, <2>3, <2>4 DEF Job, JobTypes
  <2>6. job'.virt = a /\ job'.end = b /\ job'.root = g_pml4 /\ ~ job'.u
    BY <2>1 DEF Job
  <2>7. job.end = LowLimit /\ job.virt \in Nat /\ LargeStops(TableEntries, job.virt)
    BY <2>1 DEF Inv, BootJob, Types, JobTypes
  <2>8. \A v : Stop(g_pml4, v)' = Stop(g_pml4, v)
    BY <1>1 DEF Stop, Below, IsTable
  <2>9. LargeStops(job.virt, job.end)'
    <3> SUFFICES ASSUME NEW v \in a .. (b - 1), v % TableEntries = 0
                 PROVE  Stop(g_pml4, v)'.level = 2
      BY <2>6 DEF LargeStops
    <3>1. v \in TableEntries .. (job.virt - 1)
      BY <1>6, <2>1, <2>3, <2>4, <2>7
    <3> QED BY <2>7, <2>8, <3>1 DEF LargeStops
  <2>10. BootJob'
    BY <1>1, <2>1, <2>3, <2>4, <2>6, <2>9 DEF BootJob, Booted, BootPhases
  <2>11. Types'
    BY <1>1, <1>2, <2>5 DEF Inv, Types
  <2> QED BY <1>4, <1>5, <2>10, <2>11 DEF Inv
<1>9. CASE ~ LowMapped /\ ~ LargeMapped
  <2>1. \/ pc = "split" /\ pc' = "text" /\ job' = JobAt("text")
        \/ pc = "text" /\ pc' = "rodata" /\ job' = JobAt("rodata") /\ job.virt >= job.end
        \/ pc = "rodata" /\ pc' = "data" /\ job' = JobAt("data")
        \/ pc = "data" /\ pc' = "framebuffer" /\ job' = JobAt("framebuffer")
        \/ pc \in {"data", "framebuffer"} /\ pc' = "load_cr3" /\ job' = NoJob
    BY <1>9 DEF NextRange, DataMapped, FramebufferMapped, JobDone
  <2>2. /\ JobAt("text") =
                [root |-> g_pml4, virt |-> Sections[1].first, end |-> Sections[1].end, phys |-> Sections[1].first,
                 w |-> Sections[1].w, x |-> Sections[1].x, u |-> FALSE]
        /\ JobAt("rodata") =
                [root |-> g_pml4, virt |-> Sections[2].first, end |-> Sections[2].end, phys |-> Sections[2].first,
                 w |-> Sections[2].w, x |-> Sections[2].x, u |-> FALSE]
        /\ JobAt("data") =
                [root |-> g_pml4, virt |-> Sections[3].first, end |-> Sections[3].end, phys |-> Sections[3].first,
                 w |-> Sections[3].w, x |-> Sections[3].x, u |-> FALSE]
        /\ JobAt("framebuffer") =
                [root |-> g_pml4, virt |-> framebuffer.first, end |-> framebuffer.end, phys |-> framebuffer.first,
                 w |-> TRUE, x |-> FALSE, u |-> FALSE]
    BY DEF JobAt, SectionAt, Identity, Job
  <2>3. /\ \A i \in 1 .. 3 : {Sections[i].first, Sections[i].end} \subseteq Nat
                             /\ {Sections[i].w, Sections[i].x} \subseteq BOOLEAN
        /\ framebuffer.first \in Nat /\ framebuffer.end \in Nat
        /\ Text < Sections[1].end /\ Text \in Nat
    BY PagingAssumption DEF Inv, Types, Text
  <2>4. job' \in JobTypes /\ ~ job'.u /\ (pc' # "load_cr3" => job'.root = g_pml4)
        /\ (pc' = "text" => job'.virt = Text /\ job'.end = Sections[1].end)
    <3>1. CASE pc' = "text"
      <4>1. job' = JobAt("text")
        BY <2>1, <3>1
      <4>2. job' = [root |-> g_pml4, virt |-> Sections[1].first, end |-> Sections[1].end, phys |-> Sections[1].first,
                    w |-> Sections[1].w, x |-> Sections[1].x, u |-> FALSE]
        BY <2>2, <4>1
      <4>3. /\ Sections[1].first \in Nat /\ Sections[1].end \in Nat
            /\ Sections[1].w \in BOOLEAN /\ Sections[1].x \in BOOLEAN
        BY <2>3
      <4> QED BY <1>3, <3>1, <4>2, <4>3 DEF JobTypes, Text
    <3>2. CASE pc' = "rodata"
      <4>1. job' = JobAt("rodata")
        BY <2>1, <3>2
      <4>2. job' = [root |-> g_pml4, virt |-> Sections[2].first, end |-> Sections[2].end, phys |-> Sections[2].first,
                    w |-> Sections[2].w, x |-> Sections[2].x, u |-> FALSE]
        BY <2>2, <4>1
      <4>3. /\ Sections[2].first \in Nat /\ Sections[2].end \in Nat
            /\ Sections[2].w \in BOOLEAN /\ Sections[2].x \in BOOLEAN
        BY <2>3
      <4> QED BY <1>3, <3>2, <4>2, <4>3 DEF JobTypes, Text
    <3>3. CASE pc' = "data"
      <4>1. job' = JobAt("data")
        BY <2>1, <3>3
      <4>2. job' = [root |-> g_pml4, virt |-> Sections[3].first, end |-> Sections[3].end, phys |-> Sections[3].first,
                    w |-> Sections[3].w, x |-> Sections[3].x, u |-> FALSE]
        BY <2>2, <4>1
      <4>3. /\ Sections[3].first \in Nat /\ Sections[3].end \in Nat
            /\ Sections[3].w \in BOOLEAN /\ Sections[3].x \in BOOLEAN
        BY <2>3
      <4> QED BY <1>3, <3>3, <4>2, <4>3 DEF JobTypes, Text
    <3>4. CASE pc' = "framebuffer"
      <4>1. job' = JobAt("framebuffer")
        BY <2>1, <3>4
      <4>2. job' = [root |-> g_pml4, virt |-> framebuffer.first, end |-> framebuffer.end, phys |-> framebuffer.first,
                    w |-> TRUE, x |-> FALSE, u |-> FALSE]
        BY <2>2, <4>1
      <4> QED BY <1>3, <2>3, <3>4, <4>2 DEF JobTypes
    <3>5. CASE pc' = "load_cr3"
      <4>1. job' = NoJob
        BY <2>1, <3>5
      <4> QED BY <3>5, <4>1, NoJobTyped
    <3> QED BY <2>1, <3>1, <3>2, <3>3, <3>4, <3>5
  <2>5. Types'
    BY <1>1, <1>2, <2>4 DEF Inv, Types
  <2>6. pc' # "text" => KernelSlot(Text)'.kind = "table"
    <3> SUFFICES ASSUME pc' # "text" PROVE KernelSlot(Text)'.kind = "table"
      OBVIOUS
    <3>1. KernelSlot(Text).kind = "table"
      BY <2>1, <2>3 DEF Inv, BootJob, Types, JobTypes
    <3> QED BY <3>1, <1>1 DEF KernelSlot, Text
  <2>7. BootJob'
    BY <1>1, <1>2, <2>1, <2>3, <2>4, <2>6 DEF BootJob, Booted, BootPhases, Text
  <2> QED BY <1>4, <1>5, <2>5, <2>7 DEF Inv
<1> QED BY <1>7, <1>8, <1>9

\* Tables that are held are pages of their own.
LEMMA TablesApart ==
  ASSUME StoreOK, NEW N, \A t \in N : Block(t, 1) \in held
  PROVE  /\ N \subseteq AllPages
         /\ \A b \in held, t \in N : b # Block(t, 1) => t \notin RunPages(b)
         /\ \A n, b : b \in Candidates(n) /\ n \in Nat /\ alloc_pages(n, b) => b.base \notin N
         /\ \A t \in AllPages : RunPages(Block(t, 1)) = {t}
<1>1. \A t \in N : t \in AllPages
  BY DEF StoreOK, Block
<1>2. \A t \in AllPages : RunPages(Block(t, 1)) = {t}
  BY PageFacts DEF RunPages, Store!RunPages, Block
<1>3. \A b \in held, t \in N : b # Block(t, 1) => t \notin RunPages(b)
  <2> SUFFICES ASSUME NEW b \in held, NEW t \in N, b # Block(t, 1), t \in RunPages(b)
               PROVE  FALSE
    OBVIOUS
  <2>1. RunPages(b) \cap RunPages(Block(t, 1)) = {}
    BY DEF StoreOK
  <2> QED BY <1>1, <1>2, <2>1
<1>4. \A n, b : b \in Candidates(n) /\ n \in Nat /\ alloc_pages(n, b) => b.base \notin N
  <2> SUFFICES ASSUME NEW n, NEW b, b \in Candidates(n), n \in Nat, alloc_pages(n, b), b.base \in N
               PROVE  FALSE
    OBVIOUS
  <2>1. Block(b.base, 1) \in held /\ b.base \in RunPages(b)
        /\ \A c \in held : RunPages(c) \cap RunPages(b) = {}
    BY AllocFacts
  <2>2. RunPages(Block(b.base, 1)) = {b.base}
    BY <1>1, <1>2
  <2> QED BY <2>1, <2>2
<1> QED BY <1>1, <1>2, <1>3, <1>4

\* Stop is that walk over the tables there are.
LEMMA StopIs ==
  /\ \A root, v : Stop(root, v) = StopIn(tables, root, v)
  /\ \A root, v : Stop(root, v)' = StopIn(tables', root, v)
<1>1. \A root, v : Stop(root, v) = StopIn(tables, root, v)
  BY DEF Stop, StopIn, IsTable, Below, Has, Down, T1, T2, T3
<1>2. \A root, v : Stop(root, v)' = StopIn(tables', root, v)
  BY DEF Stop, StopIn, IsTable, Below, Has, Down, T1, T2, T3
<1> QED BY <1>1, <1>2

\* A walk stops where it did when no entry on it changes.
LEMMA StopKept ==
  ASSUME NEW tab, NEW tb, NEW root, NEW N, NEW lev, IsTree(tab, root, Slots, N, lev),
         NEW w \in Nat,
         \A t \in N, i \in Slots : tab[t][i].kind = "table" =>
           tb[t][i].kind = "table" /\ tb[t][i].page = tab[t][i].page,
         \/ StopIn(tab, root, w).level = 1
         \/ tb[StopIn(tab, root, w).table][StopIn(tab, root, w).index].kind # "table"
  PROVE  StopIn(tb, root, w) = StopIn(tab, root, w)
<1> DEFINE t3 == T3(tab, root, w)
           t2 == T2(tab, root, w)
           H(t, l) == Has(tab, t, w, l)
<1>0. /\ IndexAt(w, 1) \in Slots /\ IndexAt(w, 2) \in Slots
      /\ IndexAt(w, 3) \in Slots /\ IndexAt(w, 4) \in Slots
  BY IndexFacts
<1>1. root \in N
  BY DEF IsTree
<1>2. ASSUME NEW t \in N, NEW l \in {2, 3, 4}, H(t, l)
      PROVE  Has(tb, t, w, l) /\ Down(tb, t, w, l) = Down(tab, t, w, l) /\ Down(tab, t, w, l) \in N
  BY <1>0, <1>2 DEF IsTree, Edge, Has, Down
<1>3. /\ H(root, 4) => T3(tb, root, w) = t3 /\ t3 \in N
      /\ H(root, 4) /\ H(t3, 3) => T2(tb, root, w) = t2 /\ t2 \in N
      /\ H(root, 4) /\ H(t3, 3) /\ H(t2, 2) => T1(tb, root, w) = T1(tab, root, w)
  <2>1. H(root, 4) => T3(tb, root, w) = t3 /\ t3 \in N
    BY <1>1, <1>2 DEF T3
  <2>2. H(root, 4) /\ H(t3, 3) => T2(tb, root, w) = t2 /\ t2 \in N
    BY <1>2, <2>1 DEF T2
  <2>3. H(root, 4) /\ H(t3, 3) /\ H(t2, 2) => T1(tb, root, w) = T1(tab, root, w)
    BY <1>2, <2>2 DEF T1
  <2> QED BY <2>1, <2>2, <2>3
<1>4. CASE ~ H(root, 4)
  <2>1. StopIn(tab, root, w) = [table |-> root, index |-> IndexAt(w, 4), level |-> 4]
    BY <1>4 DEF StopIn
  <2>2. ~ Has(tb, root, w, 4)
    BY <2>1 DEF Has
  <2> QED BY <2>1, <2>2 DEF StopIn
<1>5. CASE H(root, 4) /\ ~ H(t3, 3)
  <2>1. StopIn(tab, root, w) = [table |-> t3, index |-> IndexAt(w, 3), level |-> 3]
    BY <1>5 DEF StopIn
  <2>2. ~ Has(tb, t3, w, 3)
    BY <2>1 DEF Has
  <2> QED BY <1>1, <1>2, <1>3, <1>5, <2>1, <2>2 DEF StopIn
<1>6. CASE H(root, 4) /\ H(t3, 3) /\ ~ H(t2, 2)
  <2>1. StopIn(tab, root, w) = [table |-> t2, index |-> IndexAt(w, 2), level |-> 2]
    BY <1>6 DEF StopIn
  <2>2. ~ Has(tb, t2, w, 2)
    BY <2>1 DEF Has
  <2>3. Has(tb, root, w, 4) /\ Has(tb, t3, w, 3) /\ T3(tb, root, w) = t3 /\ T2(tb, root, w) = t2
    BY <1>1, <1>2, <1>3, <1>6
  <2> QED BY <2>1, <2>2, <2>3 DEF StopIn
<1>7. CASE H(root, 4) /\ H(t3, 3) /\ H(t2, 2)
  <2>1. StopIn(tab, root, w) = [table |-> T1(tab, root, w), index |-> IndexAt(w, 1), level |-> 1]
    BY <1>7 DEF StopIn
  <2>2. /\ Has(tb, root, w, 4) /\ Has(tb, t3, w, 3) /\ Has(tb, t2, w, 2)
        /\ T3(tb, root, w) = t3 /\ T2(tb, root, w) = t2 /\ T1(tb, root, w) = T1(tab, root, w)
    BY <1>1, <1>2, <1>3, <1>7
  <2> QED BY <2>1, <2>2 DEF StopIn
<1> QED BY <1>4, <1>5, <1>6, <1>7

\* Two walks that stop at one entry of level 2 came the same way.
LEMMA SameWay ==
  ASSUME NEW tab, NEW root, NEW N, NEW lev, IsTree(tab, root, Slots, N, lev),
         NEW v \in Nat, NEW w \in Nat,
         StopIn(tab, root, v).level = 2, StopIn(tab, root, w) = StopIn(tab, root, v)
  PROVE  /\ IndexAt(v, 2) = IndexAt(w, 2)
         /\ IndexAt(v, 3) = IndexAt(w, 3)
         /\ IndexAt(v, 4) = IndexAt(w, 4)
<1>0. ASSUME NEW x \in Nat
      PROVE  IndexAt(x, 2) \in Slots /\ IndexAt(x, 3) \in Slots /\ IndexAt(x, 4) \in Slots
  BY IndexFacts
<1>1. /\ root \in N
      /\ \A t \in N, i \in Slots : tab[t][i].kind = "table" => tab[t][i].page \in N
      /\ \A t, u \in N : \A i, j \in Slots :
           tab[t][i].kind = "table" /\ tab[u][j].kind = "table"
             /\ tab[t][i].page = tab[u][j].page => t = u /\ i = j
  BY DEF IsTree, Edge
<1>2. ASSUME NEW x \in Nat, StopIn(tab, root, x).level = 2
      PROVE  /\ Has(tab, root, x, 4) /\ Has(tab, T3(tab, root, x), x, 3)
             /\ StopIn(tab, root, x).table = T2(tab, root, x)
             /\ StopIn(tab, root, x).index = IndexAt(x, 2)
             /\ T3(tab, root, x) \in N
  <2>1. /\ Has(tab, root, x, 4) /\ Has(tab, T3(tab, root, x), x, 3)
        /\ StopIn(tab, root, x).table = T2(tab, root, x)
        /\ StopIn(tab, root, x).index = IndexAt(x, 2)
    BY <1>2 DEF StopIn
  <2> QED BY <1>0, <1>1, <2>1 DEF Has, T3, Down
<1>3. T2(tab, root, v) = T2(tab, root, w) /\ IndexAt(v, 2) = IndexAt(w, 2)
  BY <1>2
<1>4. T3(tab, root, v) = T3(tab, root, w) /\ IndexAt(v, 3) = IndexAt(w, 3)
  <2> DEFINE a == T3(tab, root, v)
             b == T3(tab, root, w)
  <2>1. /\ a \in N /\ b \in N /\ IndexAt(v, 3) \in Slots /\ IndexAt(w, 3) \in Slots
        /\ Has(tab, a, v, 3) /\ Has(tab, b, w, 3)
        /\ Down(tab, a, v, 3) = Down(tab, b, w, 3)
    BY <1>0, <1>2, <1>3 DEF T2
  <2> HIDE DEF a, b
  <2>2. a = b /\ IndexAt(v, 3) = IndexAt(w, 3)
    BY <1>1, <2>1 DEF Has, Down
  <2> QED BY <2>2 DEF a, b
<1>5. IndexAt(v, 4) = IndexAt(w, 4)
  BY <1>0, <1>1, <1>2, <1>4 DEF T3, Has, Down
<1> QED BY <1>3, <1>4, <1>5

\* A new table b, and an entry that leads to it.
LEMMA TableAdded ==
  ASSUME NEW tab \in Tables,
         NEW t \in AllPages, NEW i \in Slots, NEW b \in AllPages, b # t,
         NEW nt \in Rows, NEW e \in Entry
  PROVE  LET tb == WithTable(tab, b, nt, t, i, e)
         IN  /\ tb \in Tables
             /\ tb[b] = nt
             /\ tb[t][i] = e
             /\ \A j \in Slots : j # i => tb[t][j] = tab[t][j]
             /\ \A p \in AllPages : p # b /\ p # t => tb[p] = tab[p]
<1> USE DEF Tables, Rows
<1> DEFINE t1 == [tab EXCEPT ![b] = nt]
           row == [tab[t] EXCEPT ![i] = e]
           tb == WithTable(tab, b, nt, t, i, e)
<1>1. t1 \in Tables /\ t1[t] = tab[t] /\ t1[b] = nt
      /\ \A p \in AllPages : p # b => t1[p] = tab[p]
  OBVIOUS
<1>2. row \in Rows /\ row[i] = e /\ \A j \in Slots : j # i => row[j] = tab[t][j]
  OBVIOUS
<1>3. tb = [t1 EXCEPT ![t] = row]
  BY <1>1 DEF WithTable
<1> HIDE DEF t1, row, tb
<1>4. /\ tb \in Tables
      /\ tb[b] = nt
      /\ tb[t][i] = e
      /\ \A j \in Slots : j # i => tb[t][j] = tab[t][j]
      /\ \A p \in AllPages : p # b /\ p # t => tb[p] = tab[p]
  BY <1>1, <1>2, <1>3
<1> QED BY <1>4 DEF tb

\* An entry alone.
LEMMA EntrySet ==
  ASSUME NEW tab \in Tables,
         NEW t \in AllPages, NEW i \in Slots, NEW e \in Entry
  PROVE  LET tb == WithEntry(tab, t, i, e)
         IN  /\ tb \in Tables
             /\ tb[t][i] = e
             /\ \A j \in Slots : j # i => tb[t][j] = tab[t][j]
             /\ \A p \in AllPages : p # t => tb[p] = tab[p]
<1> USE DEF Tables, Rows
<1> DEFINE row == [tab[t] EXCEPT ![i] = e]
<1>1. row \in Rows /\ row[i] = e /\ \A j \in Slots : j # i => row[j] = tab[t][j]
  OBVIOUS
<1>2. WithEntry(tab, t, i, e) = [tab EXCEPT ![t] = row]
  BY DEF WithEntry
<1> HIDE DEF row
<1> QED BY <1>1, <1>2

\* Inv says that during the boot ...
LEMMA BootTree ==
  ASSUME Inv, pc \in BootPhases, pc # "pml4"
  PROVE  /\ StoreOK /\ Root = 0 /\ Fields = {} /\ g_pml4 \in AllPages /\ g_pml4 \in Nat
         /\ \E N, lev : KernelOnly(N, lev)
<1>1. PICK N, lev, M, mlev : KernelTree(N, lev) /\ UserTree(M, mlev) /\ Accounts(N, M)
  BY DEF Inv, Memory
<1>2. Root = 0 /\ Fields = {} /\ StoreOK
  BY DEF Inv, Control, Fields, NoBacking, Memory
<1>3. M = {} /\ Blocks(M) = {}
  BY <1>1, <1>2 DEF UserTree, Blocks
<1>4. KernelOnly(N, lev)
  BY <1>1, <1>2, <1>3 DEF KernelTree, KernelOnly, Accounts
<1>5. g_pml4 \in AllPages /\ g_pml4 \in Nat
  BY PageFacts DEF Inv, Control, Types
<1> QED BY <1>2, <1>4, <1>5

\* ... and a step after which it is so keeps Memory.
LEMMA BootMemory ==
  ASSUME StoreOK', pc' # "pml4", Control', Root' = 0, Fields' = {},
         NEW N, NEW lev, KernelOnly(N, lev)'
  PROVE  Memory'
<1>1. KernelTree(N, lev)'
  BY DEF KernelTree, KernelOnly
<1>2. UserTree({}, lev)'
  BY DEF UserTree
<1>3. Accounts(N, {})'
  <2>1. Fields' = {} /\ Blocks({}) = {} /\ held' = Blocks(N)
    BY DEF Blocks, KernelOnly
  <2>2. process'.image_backing = NULL /\ process'.stack_backing = NULL
        /\ process'.file_buffer = NULL
    BY <2>1 DEF Fields
  <2> QED BY <2>1, <2>2 DEF Accounts, Blocks
<1> QED BY <1>1, <1>2, <1>3 DEF Memory

\* The kernel's tree gets a table where the walk for v stops.
LEMMA KernelGrows ==
  ASSUME NEW N, NEW lev, NEW v, NEW b, NEW nt, NEW e, KernelAdds(N, lev, v, b, nt, e)
  PROVE  /\ tables' \in Tables
         /\ StoreOK'
         /\ UNCHANGED <<drops, wrong_frees>>
         /\ \E l2 : KernelOnly(N \cup {b.base}, l2)'
         /\ tables'[Stop(g_pml4, v).table][Stop(g_pml4, v).index] = e
         /\ OneChanged(N, Stop(g_pml4, v).table, Stop(g_pml4, v).index)
<1>0. /\ tables \in Tables /\ StoreOK /\ KernelOnly(N, lev)
      /\ v \in Nat /\ Stop(g_pml4, v).level > 1
      /\ b \in Candidates(1) /\ alloc_pages(1, b)
      /\ nt \in Rows /\ (\A i \in Slots : nt[i].kind # "table")
      /\ e \in Entry /\ e.kind = "table" /\ e.page = b.base
      /\ (Stop(g_pml4, v).level = 4 => ~ e.u)
      /\ tables' = WithTable(tables, b.base, nt, Stop(g_pml4, v).table, Stop(g_pml4, v).index, e)
      /\ g_pml4' = g_pml4
  BY DEF KernelAdds
<1> USE <1>0
<1> DEFINE s == Stop(g_pml4, v)
<1>1. /\ IsTree(tables, g_pml4, Slots, N, lev) /\ held = Blocks(N)
      /\ \A t \in N : Block(t, 1) \in held
      /\ \A i \in Slots : ~ tables[g_pml4][i].u
  BY DEF KernelOnly, Blocks
<1>2. /\ s.table \in N /\ s.index \in Slots /\ lev[s.table] = s.level
      /\ ~ Edge(tables, g_pml4, Slots, s.table, s.index)
      /\ s.level = 4 <=> s.table = g_pml4
  <2>1. IsTable(g_pml4, v, 4) => IndexAt(v, 4) \in Slots
    BY IndexFacts
  <2> QED BY <1>1, <2>1, WalkStops
<1>3. N \subseteq AllPages /\ b.base \notin N /\ 1 \in Nat
  BY <1>1, TablesApart
<1>4. /\ StoreOK' /\ held' = held \cup {b} /\ b = Block(b.base, 1) /\ b.base \in AllPages
      /\ UNCHANGED <<drops, wrong_frees>>
  BY <1>3, AllocFacts
<1>5. s.level > 1 /\ tables' = WithTable(tables, b.base, nt, s.table, s.index, e)
      /\ (s.level = 4 => ~ e.u)
  OBVIOUS
<1> HIDE DEF s
<1>6. s.table \in AllPages /\ b.base # s.table
  BY <1>2, <1>3
<1>7. /\ tables' \in Tables
      /\ tables'[b.base] = nt
      /\ tables'[s.table][s.index] = e
      /\ \A j \in Slots : j # s.index => tables'[s.table][j] = tables[s.table][j]
      /\ \A p \in AllPages : p # b.base /\ p # s.table => tables'[p] = tables[p]
  <2> DEFINE tb == WithTable(tables, b.base, nt, s.table, s.index, e)
  <2>1. tables' = tb
    BY <1>5
  <2>2. /\ tb \in Tables
        /\ tb[b.base] = nt
        /\ tb[s.table][s.index] = e
        /\ \A j \in Slots : j # s.index => tb[s.table][j] = tables[s.table][j]
        /\ \A p \in AllPages : p # b.base /\ p # s.table => tb[p] = tables[p]
    BY <1>2, <1>4, <1>6, TableAdded
  <2> HIDE DEF tb
  <2> QED BY <2>1, <2>2
<1>8. \A t \in N, i \in Slots : ~ (t = s.table /\ i = s.index) => tables'[t][i] = tables[t][i]
  BY <1>3, <1>7
<1>9. \E l2 : IsTree(tables', g_pml4, Slots, N \cup {b.base}, l2)
  <2>1. Grown(tables, g_pml4, Slots, N, lev, s.table, s.index, b.base, tables', Slots)
    <3>1. Slots = Slots \cup (IF s.table = g_pml4 THEN {s.index} ELSE {})
      BY <1>2
    <3>2. lev[s.table] > 1
      BY <1>2, <1>5
    <3> QED BY <1>2, <1>3, <1>7, <1>8, <3>1, <3>2 DEF Grown
  <2> QED BY <1>1, <2>1, TreeGrows
<1>10. \A i \in Slots : ~ tables'[g_pml4][i].u
  <2>1. g_pml4 \in N
    BY <1>1 DEF IsTree
  <2> QED BY <1>1, <1>2, <1>5, <1>7, <1>8, <2>1
<1>11. held' = Blocks(N \cup {b.base})
  BY <1>1, <1>4 DEF Blocks
<1>12. \E l2 : KernelOnly(N \cup {b.base}, l2)'
  BY <1>9, <1>10, <1>11 DEF KernelOnly
<1> QED BY <1>4, <1>7, <1>8, <1>12 DEF s, OneChanged

\* The kernel's tree keeps its shape when a page is mapped.
LEMMA KernelPut ==
  ASSUME NEW N, NEW lev, NEW v, NEW e, KernelPuts(N, lev, v, e)
  PROVE  /\ tables' \in Tables
         /\ KernelOnly(N, lev)'
         /\ tables'[g_pml4] = tables[g_pml4]
         /\ SameTables(N)
<1>0. /\ tables \in Tables /\ StoreOK /\ KernelOnly(N, lev)
      /\ v \in Nat /\ Stop(g_pml4, v).level < 4
      /\ e \in Entry /\ e.kind # "table"
      /\ tables' = WithEntry(tables, Stop(g_pml4, v).table, Stop(g_pml4, v).index, e)
      /\ g_pml4' = g_pml4 /\ held' = held
  BY DEF KernelPuts
<1> USE <1>0
<1> DEFINE s == Stop(g_pml4, v)
<1>1. /\ IsTree(tables, g_pml4, Slots, N, lev) /\ held = Blocks(N)
      /\ \A t \in N : Block(t, 1) \in held
      /\ \A i \in Slots : ~ tables[g_pml4][i].u
  BY DEF KernelOnly, Blocks
<1>2. /\ s.table \in N /\ s.index \in Slots /\ s.level < 4
      /\ ~ Edge(tables, g_pml4, Slots, s.table, s.index)
      /\ s.level = 4 <=> s.table = g_pml4
  <2>1. IsTable(g_pml4, v, 4) => IndexAt(v, 4) \in Slots
    BY IndexFacts
  <2> QED BY <1>1, <2>1, WalkStops
<1>3. N \subseteq AllPages /\ g_pml4 \in N
  BY <1>1, TablesApart DEF IsTree
<1>4. tables' = WithEntry(tables, s.table, s.index, e)
  OBVIOUS
<1> HIDE DEF s
<1>5. s.table \in AllPages /\ s.table # g_pml4
  BY <1>2, <1>3
<1>6. /\ tables' \in Tables
      /\ tables'[s.table][s.index] = e
      /\ \A j \in Slots : j # s.index => tables'[s.table][j] = tables[s.table][j]
      /\ \A p \in AllPages : p # s.table => tables'[p] = tables[p]
  <2> DEFINE tb == WithEntry(tables, s.table, s.index, e)
  <2>1. tables' = tb
    BY <1>4
  <2>2. /\ tb \in Tables
        /\ tb[s.table][s.index] = e
        /\ \A j \in Slots : j # s.index => tb[s.table][j] = tables[s.table][j]
        /\ \A p \in AllPages : p # s.table => tb[p] = tables[p]
    BY <1>2, <1>5, EntrySet
  <2> HIDE DEF tb
  <2> QED BY <2>1, <2>2
<1>7. tables[s.table][s.index].kind # "table"
  BY <1>2 DEF Edge
<1>8. \A t \in N, i \in Slots :
        /\ tables[t][i].kind = "table" => tables'[t][i] = tables[t][i]
        /\ tables[t][i].kind # "table" => tables'[t][i].kind # "table"
  BY <1>3, <1>6, <1>7
<1>9. IsTree(tables', g_pml4, Slots, N, lev)
  <2>1. \A t \in N, i \in Slots :
          /\ Edge(tables', g_pml4, Slots, t, i) <=> Edge(tables, g_pml4, Slots, t, i)
          /\ Edge(tables, g_pml4, Slots, t, i) => tables'[t][i].page = tables[t][i].page
    BY <1>8 DEF Edge
  <2> QED BY <1>1, <2>1, TreeKept
<1>10. tables'[g_pml4] = tables[g_pml4]
  BY <1>3, <1>5, <1>6
<1>11. KernelOnly(N, lev)'
  BY <1>1, <1>9, <1>10 DEF KernelOnly
<1> QED BY <1>6, <1>8, <1>10, <1>11 DEF SameTables

\* The tables that are put in: nothing below them, and made of entries.
LEMMA NewRows ==
  /\ EmptyTable \in Rows
  /\ \A i \in Slots : EmptyTable[i].kind = "none"
  /\ \A e \in Entry : e.kind # "table" =>
       /\ SplitTable(e) \in Rows
       /\ \A i \in Slots : SplitTable(e)[i].kind # "table"
       /\ NewTable(e) \in Rows
       /\ \A i \in Slots : NewTable(e)[i].kind # "table"
  /\ \A p \in Nat, u \in BOOLEAN :
       /\ TableEntry(p, u) \in Entry
       /\ TableEntry(p, u).kind = "table"
       /\ TableEntry(p, u).page = p
       /\ TableEntry(p, u).u = u
  /\ \A p \in Nat, w, x, u \in BOOLEAN :
       PageEntry(p, w, x, u) \in Entry /\ PageEntry(p, w, x, u).kind = "page"
<1>1. EmptyTable \in Rows /\ \A i \in Slots : EmptyTable[i].kind = "none"
  BY DEF EmptyTable, Rows, NoEntry, Entry
<1>2. ASSUME NEW e \in Entry, e.kind # "table"
      PROVE  /\ SplitTable(e) \in Rows
             /\ \A i \in Slots : SplitTable(e)[i].kind # "table"
  <2>1. Slots \subseteq Nat
    BY PagingAssumption DEF Slots
  <2>2. \A i \in Slots : [e EXCEPT !.page = @ + i, !.a = FALSE] \in Entry
                         /\ [e EXCEPT !.page = @ + i, !.a = FALSE].kind = e.kind
    <3> SUFFICES ASSUME NEW i \in Slots
                 PROVE  [e EXCEPT !.page = @ + i, !.a = FALSE] \in Entry
                        /\ [e EXCEPT !.page = @ + i, !.a = FALSE].kind = e.kind
      OBVIOUS
    <3>1. e.page + i \in Nat
      BY <2>1 DEF Entry
    <3> DEFINE q == e.page + i
    <3> HIDE DEF q
    <3>2. [e EXCEPT !.page = q, !.a = FALSE] \in Entry
          /\ [e EXCEPT !.page = q, !.a = FALSE].kind = e.kind
      BY <3>1 DEF Entry, q
    <3> QED BY <3>2 DEF q
  <2> QED BY <1>2, <2>2 DEF SplitTable, Rows
<1>3. ASSUME NEW p \in Nat, NEW u \in BOOLEAN
      PROVE  /\ TableEntry(p, u) \in Entry
             /\ TableEntry(p, u).kind = "table"
             /\ TableEntry(p, u).page = p
             /\ TableEntry(p, u).u = u
  BY DEF TableEntry, Entry
<1>4. ASSUME NEW p \in Nat, NEW w \in BOOLEAN, NEW x \in BOOLEAN, NEW u \in BOOLEAN
      PROVE  PageEntry(p, w, x, u) \in Entry /\ PageEntry(p, w, x, u).kind = "page"
  BY DEF PageEntry, Entry
<1>5. ASSUME NEW e \in Entry, e.kind # "table"
      PROVE  NewTable(e) \in Rows /\ \A i \in Slots : NewTable(e)[i].kind # "table"
  BY <1>1, <1>2, <1>5 DEF NewTable
<1> QED BY <1>1, <1>2, <1>3, <1>4, <1>5

\* What a step of the boot has to show.
LEMMA BootStep ==
  ASSUME Inv, pc \in BootPhases \ {"pml4"}, pc' \in (BootPhases \cup {"panic"}) \ {"pml4"},
         UNCHANGED <<processVars, doomed, g_pml4, framebuffer, drops, wrong_frees>>,
         cr3' \in {cr3, g_pml4}, pc' = "mmio" => cr3' = g_pml4,
         tables' \in Tables, job' \in JobTypes, StoreOK',
         NEW N, NEW lev, KernelOnly(N, lev)', BootJob'
  PROVE  Inv'
<1>1. Root = 0 /\ Fields = {} /\ g_pml4 \in AllPages /\ g_pml4 # 0
  BY BootTree, PageFacts
<1>2. UNCHANGED <<process, active, program, saved_root, line>>
  BY DEF processVars
<1>3. Root' = 0 /\ Fields' = {}
  BY <1>1, <1>2 DEF Root, Fields, NULL, Block
<1>4. Control' /\ Active' /\ UserJobs'
  BY <1>1, BootControl DEF Inv
<1>5. Memory'
  BY <1>3, <1>4, BootMemory
<1>6. Types'
  BY <1>1, <1>2 DEF Inv, Types, BootPhases
<1> QED BY <1>4, <1>5, <1>6 DEF Inv

\* Nothing but the place in the code changes: an allocation of the boot failed.
LEMMA BootPanics ==
  ASSUME Inv, pc \in BootPhases \ {"pml4"}, pc' = "panic",
         UNCHANGED <<processVars, storeVars, tables, g_pml4, cr3, job, doomed, framebuffer>>
  PROVE  Inv'
<1>1. PICK N, lev : KernelOnly(N, lev)
  BY BootTree
<1>2. UNCHANGED <<free, held, drops, wrong_frees>>
  BY DEF storeVars
<1>3. KernelOnly(N, lev)'
  BY <1>1, <1>2 DEF KernelOnly
<1>4. StoreOK'
  BY <1>2, BootTree DEF StoreOK, RunPages, Store!RunPages
<1>5. BootJob'
  BY DEF BootJob, BootPhases, Booted
<1>6. tables' \in Tables /\ job' \in JobTypes
  BY DEF Inv, Types
<1> QED BY <1>2, <1>3, <1>4, <1>5, <1>6, BootStep DEF BootPhases

\* map_page_4k gets a table on the way, in the boot.
LEMMA BootMapTable ==
  ASSUME Inv, NEW phase \in {"low", "text", "rodata", "data", "framebuffer", "mmio"},
         MapTable(phase, "panic"), UNCHANGED processVars
  PROVE  Inv'
<1> DEFINE s == Stop(job.root, job.virt)
           e == tables[s.table][s.index]
<1>1. /\ pc = phase /\ pc \in BootPhases \ {"pml4"} /\ ~ MapRefused /\ s.level > 1
      /\ UNCHANGED <<g_pml4, cr3, job, doomed, framebuffer>>
      /\ \/ /\ pc' = "panic"
            /\ UNCHANGED <<storeVars, tables>>
         \/ /\ pc' = pc
            /\ \E b \in Candidates(1) :
                 /\ alloc_pages(1, b)
                 /\ tables' = WithTable(tables, b.base, NewTable(e), s.table, s.index,
                                        TableEntry(b.base, NewTableUser(e)))
  BY DEF MapTable, BootPhases, WithTable
<1>2. job.root = g_pml4 /\ ~ job.u /\ job.virt \in Nat /\ job.u \in BOOLEAN /\ job \in JobTypes
      /\ tables \in Tables
  BY <1>1 DEF Inv, BootJob, Types, JobTypes
<1>3. CASE pc' = "panic" /\ UNCHANGED <<storeVars, tables>>
  BY <1>1, <1>3, BootPanics
<1>4. CASE pc' = pc
  <2>1. PICK b \in Candidates(1) :
          /\ alloc_pages(1, b)
          /\ tables' = WithTable(tables, b.base, NewTable(e), s.table, s.index,
                                 TableEntry(b.base, NewTableUser(e)))
    BY <1>1, <1>4 DEF BootPhases
  <2>2. PICK N, lev : KernelOnly(N, lev)
    BY <1>1, BootTree
  <2>3. StoreOK /\ IsTree(tables, g_pml4, Slots, N, lev) /\ N \subseteq AllPages
    <3>1. StoreOK /\ IsTree(tables, g_pml4, Slots, N, lev) /\ \A t \in N : Block(t, 1) \in held
      BY <1>1, <2>2, BootTree DEF KernelOnly, Blocks
    <3> QED BY <3>1, TablesApart
  <2>4. /\ s.table \in N /\ s.index \in Slots /\ s.level \in 1 .. 4
        /\ e.kind # "table"
    <3>1. IsTable(g_pml4, job.virt, 4) => IndexAt(job.virt, 4) \in Slots
      BY <1>2, IndexFacts
    <3> QED BY <1>1, <1>2, <2>3, <3>1, WalkStops DEF StopEntry
  <2>5. e \in Entry
    BY <1>2, <2>3, <2>4 DEF Tables, Rows
  <2>6. NewTableUser(e) \in BOOLEAN /\ (s.level = 4 => ~ NewTableUser(e))
    <3>1. s.level = 4 => e.kind # "page"
      <4>1. ~ (s.level >= 3 /\ e.kind = "page")
        BY <1>1 DEF MapRefused, StopEntry
      <4> HIDE DEF s, e
      <4> QED BY <4>1
    <3>2. e.u \in BOOLEAN
      BY <2>5 DEF Entry
    <3> QED BY <1>2, <3>1, <3>2 DEF NewTableUser
  <2>7. b.base \in Nat
    BY <2>1, <2>3, AllocFacts, PageFacts
  <2> DEFINE nt == NewTable(e)
             ne == TableEntry(b.base, NewTableUser(e))
  <2>8. /\ nt \in Rows /\ (\A i \in Slots : nt[i].kind # "table")
        /\ ne \in Entry /\ ne.kind = "table" /\ ne.page = b.base /\ (s.level = 4 => ~ ne.u)
    <3>1. nt \in Rows /\ (\A i \in Slots : nt[i].kind # "table")
      BY <2>4, <2>5, NewRows
    <3>2. PICK u \in BOOLEAN : u = NewTableUser(e) /\ (s.level = 4 => ~ u)
      BY <2>6
    <3>3. ne = TableEntry(b.base, u)
      BY <3>2
    <3> HIDE DEF ne, nt
    <3>4. ne \in Entry /\ ne.kind = "table" /\ ne.page = b.base /\ ne.u = u
      BY <2>7, <3>3, NewRows
    <3> QED BY <3>1, <3>2, <3>4
  <2>9. tables' = WithTable(tables, b.base, nt, s.table, s.index, ne)
    BY <2>1
  <2> HIDE DEF nt, ne
  <2>10. /\ tables' \in Tables /\ StoreOK' /\ UNCHANGED <<drops, wrong_frees>>
         /\ \E l2 : KernelOnly(N \cup {b.base}, l2)'
         /\ \A t \in N, i \in Slots :
              ~ (t = s.table /\ i = s.index) => tables'[t][i] = tables[t][i]
    <3>1. s = Stop(g_pml4, job.virt) /\ s.level > 1
      BY <1>1, <1>2
    <3> HIDE DEF s
    <3>2. Stop(g_pml4, job.virt).level > 1 /\ (Stop(g_pml4, job.virt).level = 4 => ~ ne.u)
          /\ tables' = WithTable(tables, b.base, nt, Stop(g_pml4, job.virt).table,
                                 Stop(g_pml4, job.virt).index, ne)
      BY <2>8, <2>9, <3>1
    <3>3. g_pml4' = g_pml4
      BY <1>1
    <3>4. KernelAdds(N, lev, job.virt, b, nt, ne)
      BY <1>2, <2>1, <2>2, <2>3, <2>8, <3>2, <3>3 DEF KernelAdds
    <3>5. /\ tables' \in Tables /\ StoreOK' /\ UNCHANGED <<drops, wrong_frees>>
          /\ \E l2 : KernelOnly(N \cup {b.base}, l2)'
      BY <3>4, KernelGrows
    <3>6. OneChanged(N, Stop(g_pml4, job.virt).table, Stop(g_pml4, job.virt).index)
      BY <3>4, KernelGrows
    <3> QED BY <3>1, <3>5, <3>6 DEF OneChanged
  <2>11. \A t \in N, i \in Slots : tables[t][i].kind = "table" => tables'[t][i] = tables[t][i]
    BY <2>4, <2>10
  <2>12. BootJob'
    <3>1. g_pml4 \in N /\ Text \in Nat
      BY <2>3, PagingAssumption DEF IsTree, Text
    <3>2. KernelSlot(Text).kind = "table" => KernelSlot(Text)' = KernelSlot(Text)
      BY <1>1, <2>11, <3>1, IndexFacts DEF KernelSlot, Text
    <3> QED BY <1>1, <1>4, <3>2 DEF Inv, BootJob, BootPhases, Booted, Text
  <2> QED BY <1>1, <1>2, <1>4, <2>10, <2>12, BootStep DEF Inv, Active
<1> QED BY <1>1, <1>3, <1>4

\* The cursor moves on.
LEMMA JobMoves ==
  ASSUME NEW j \in JobTypes, NEW n \in Nat
  PROVE  LET k == [j EXCEPT !.virt = @ + n, !.phys = @ + n]
             l == [j EXCEPT !.virt = @ + n]
         IN  /\ k \in JobTypes /\ k.virt = j.virt + n /\ k.root = j.root
             /\ k.u = j.u /\ k.end = j.end
             /\ l \in JobTypes /\ l.virt = j.virt + n /\ l.root = j.root
             /\ l.u = j.u /\ l.end = j.end
<1> DEFINE p == j.virt + n
           q == j.phys + n
<1>1. p \in Nat /\ q \in Nat
  BY DEF JobTypes
<1> HIDE DEF p, q
<1>2. LET k == [j EXCEPT !.virt = p, !.phys = q]
          l == [j EXCEPT !.virt = p]
      IN  /\ k \in JobTypes /\ k.virt = p /\ k.root = j.root
          /\ k.u = j.u /\ k.end = j.end
          /\ l \in JobTypes /\ l.virt = p /\ l.root = j.root
          /\ l.u = j.u /\ l.end = j.end
  BY <1>1 DEF JobTypes
<1> QED BY <1>2 DEF p, q

\* map_page_4k writes the entry, in the boot.
LEMMA BootMapPage ==
  ASSUME Inv, NEW phase \in {"low", "text", "rodata", "data", "framebuffer", "mmio"},
         MapPage(phase), UNCHANGED processVars
  PROVE  Inv'
<1> DEFINE e == PageEntry(job.phys, job.w, job.x, job.u)
<1>1. /\ pc = phase /\ pc \in BootPhases \ {"pml4"} /\ pc' = pc
      /\ Stop(job.root, job.virt).level = 1
      /\ UNCHANGED <<storeVars, g_pml4, cr3, doomed, framebuffer>>
      /\ tables' = WithEntry(tables, Stop(job.root, job.virt).table,
                             Stop(job.root, job.virt).index, e)
      /\ job' = [job EXCEPT !.virt = @ + 1, !.phys = @ + 1]
  BY DEF MapPage, BootPhases, WithEntry
<1>2. /\ job.root = g_pml4 /\ ~ job.u /\ job.virt \in Nat /\ job.phys \in Nat
      /\ job.w \in BOOLEAN /\ job.x \in BOOLEAN /\ job.u \in BOOLEAN
      /\ job \in JobTypes /\ tables \in Tables
  BY <1>1 DEF Inv, BootJob, Types, JobTypes
<1>3. e \in Entry /\ e.kind # "table"
  BY <1>2, NewRows
<1>4. /\ job' \in JobTypes /\ job'.virt = job.virt + 1 /\ job'.root = job.root
      /\ job'.u = job.u /\ job'.end = job.end
  BY <1>1, <1>2, JobMoves
<1>5. UNCHANGED <<free, held, drops, wrong_frees>>
  BY <1>1 DEF storeVars
<1> HIDE DEF e
<1>6. PICK N, lev : KernelOnly(N, lev)
  BY <1>1, BootTree
<1>7. KernelPuts(N, lev, job.virt, e)
  BY <1>1, <1>2, <1>3, <1>5, <1>6, BootTree DEF KernelPuts
<1>8. tables' \in Tables /\ KernelOnly(N, lev)' /\ tables'[g_pml4] = tables[g_pml4]
  BY <1>7, KernelPut
<1>9. StoreOK'
  BY <1>1, <1>5, BootTree DEF StoreOK, RunPages, Store!RunPages
<1>10. BootJob'
  <2>1. KernelSlot(Text)' = KernelSlot(Text) /\ Text \in Nat
    BY <1>1, <1>8, PagingAssumption DEF KernelSlot, Text
  <2>2. pc = "text" /\ job'.virt > Text => KernelSlot(Text).kind = "table"
    <3> SUFFICES ASSUME pc = "text", job'.virt > Text PROVE KernelSlot(Text).kind = "table"
      OBVIOUS
    <3>1. CASE job.virt > Text
      BY <3>1 DEF Inv, BootJob
    <3>2. CASE job.virt = Text
      <4>1. Stop(g_pml4, Text).level = 1
        BY <1>1, <1>2, <3>2
      <4>2. IsTable(g_pml4, Text, 4)
        BY <4>1 DEF Stop
      <4> QED BY <4>2 DEF IsTable, KernelSlot
    <3> QED BY <1>2, <1>4, <2>1, <3>1, <3>2
  <2>3. Text' = Text
    BY DEF Text
  <2> QED BY <1>1, <1>2, <1>4, <2>1, <2>2, <2>3 DEF Inv, BootJob, BootPhases, Booted
<1> QED BY <1>1, <1>4, <1>5, <1>8, <1>9, <1>10, BootStep DEF Inv, Active

\* The walks that stop at level 2 still do so after a step that sets one entry.
LEMMA LargeKept ==
  ASSUME NEW N, NEW lev, IsTree(tables, g_pml4, Slots, N, lev), TablesStay(N),
         g_pml4' = g_pml4, NEW w \in Nat, Stop(g_pml4, w).level = 2,
         tables'[Stop(g_pml4, w).table][Stop(g_pml4, w).index].kind # "table"
  PROVE  Stop(g_pml4, w)'.level = 2
<1>1. Stop(g_pml4, w) = StopIn(tables, g_pml4, w)
      /\ Stop(g_pml4, w)' = StopIn(tables', g_pml4, w)
  BY StopIs
<1>2. StopIn(tables', g_pml4, w) = StopIn(tables, g_pml4, w)
  <2>1. \A t \in N, i \in Slots : tables[t][i].kind = "table" =>
          tables'[t][i].kind = "table" /\ tables'[t][i].page = tables[t][i].page
    BY DEF TablesStay
  <2>2. tables'[StopIn(tables, g_pml4, w).table][StopIn(tables, g_pml4, w).index].kind # "table"
    BY <1>1
  <2>3. PICK tb : tb = tables'
    OBVIOUS
  <2>4. /\ \A t \in N, i \in Slots : tables[t][i].kind = "table" =>
             tb[t][i].kind = "table" /\ tb[t][i].page = tables[t][i].page
        /\ tb[StopIn(tables, g_pml4, w).table][StopIn(tables, g_pml4, w).index].kind # "table"
    BY <2>1, <2>2, <2>3
  <2>5. StopIn(tb, g_pml4, w) = StopIn(tables, g_pml4, w)
    BY <2>4, StopKept
  <2> QED BY <2>3, <2>5
<1> QED BY <1>1, <1>2

\* The step of get_or_create_pd in the boot.
LEMMA LargeTableKeeps ==
  ASSUME Inv, LargeTable, UNCHANGED processVars
  PROVE  Inv'
<1> DEFINE s == Stop(g_pml4, job.virt)
<1>1. /\ pc = "large" /\ pc \in BootPhases \ {"pml4"} /\ s.level > 2
      /\ UNCHANGED <<g_pml4, cr3, job, doomed, framebuffer>>
      /\ \/ /\ pc' = "panic"
            /\ UNCHANGED <<storeVars, tables>>
         \/ /\ pc' = pc
            /\ \E b \in Candidates(1) :
                 /\ alloc_pages(1, b)
                 /\ tables' = WithTable(tables, b.base, EmptyTable, s.table, s.index,
                                        TableEntry(b.base, FALSE))
  BY DEF LargeTable, BootPhases, WithTable
<1>2. job.root = g_pml4 /\ job.virt \in Nat /\ job \in JobTypes /\ tables \in Tables
      /\ job.virt % TableEntries = 0 /\ job.end = LowLimit
      /\ LargeStops(TableEntries, job.virt) /\ ~ job.u
  BY <1>1 DEF Inv, BootJob, Types, JobTypes, BootPhases
<1>3. CASE pc' = "panic" /\ UNCHANGED <<storeVars, tables>>
  BY <1>1, <1>3, BootPanics
<1>4. CASE pc' = pc
  <2>1. PICK b \in Candidates(1) :
          /\ alloc_pages(1, b)
          /\ tables' = WithTable(tables, b.base, EmptyTable, s.table, s.index,
                                 TableEntry(b.base, FALSE))
    BY <1>1, <1>4
  <2>2. PICK N, lev : KernelOnly(N, lev)
    BY <1>1, BootTree
  <2>3. StoreOK /\ IsTree(tables, g_pml4, Slots, N, lev)
    BY <1>1, <2>2, BootTree DEF KernelOnly
  <2>4. ASSUME NEW w \in Nat
        PROVE  /\ Stop(g_pml4, w).table \in N /\ Stop(g_pml4, w).index \in Slots
               /\ Stop(g_pml4, w).level \in 1 .. 4
               /\ lev[Stop(g_pml4, w).table] = Stop(g_pml4, w).level
               /\ Stop(g_pml4, w).level > 1 =>
                    tables[Stop(g_pml4, w).table][Stop(g_pml4, w).index].kind # "table"
    <3>1. IsTable(g_pml4, w, 4) => IndexAt(w, 4) \in Slots
      BY IndexFacts
    <3> QED BY <2>3, <3>1, WalkStops DEF StopEntry
  <2>5. s.level \in 1 .. 4 /\ s.level > 1
    BY <1>1, <1>2, <2>4
  <2>6. b.base \in Nat /\ FALSE \in BOOLEAN
    BY <2>1, <2>3, AllocFacts, PageFacts
  <2> DEFINE ne == TableEntry(b.base, FALSE)
  <2>7. /\ ne \in Entry /\ ne.kind = "table" /\ ne.page = b.base /\ ~ ne.u
        /\ EmptyTable \in Rows /\ \A i \in Slots : EmptyTable[i].kind # "table"
    BY <2>6, NewRows
  <2>8. tables' = WithTable(tables, b.base, EmptyTable, s.table, s.index, ne)
    BY <2>1
  <2> HIDE DEF ne
  <2>9. KernelAdds(N, lev, job.virt, b, EmptyTable, ne)
    BY <1>1, <1>2, <2>1, <2>2, <2>3, <2>7, <2>8, <2>5 DEF KernelAdds
  <2>10. /\ tables' \in Tables /\ StoreOK' /\ UNCHANGED <<drops, wrong_frees>>
         /\ \E l2 : KernelOnly(N \cup {b.base}, l2)'
    <3> HIDE DEF s
    <3> QED BY <2>9, KernelGrows
  <2>11. OneChanged(N, s.table, s.index)
    BY <2>9, KernelGrows
  <2>12. TablesStay(N)
    <3>1. tables[s.table][s.index].kind # "table"
      BY <1>2, <2>4, <2>5
    <3> QED BY <2>11, <3>1 DEF OneChanged, TablesStay
  <2>13. ASSUME NEW w \in Nat, Stop(g_pml4, w).level = 2
         PROVE  Stop(g_pml4, w)'.level = 2
    <3>1. Stop(g_pml4, w).table # s.table
      BY <1>1, <1>2, <2>4, <2>13
    <3>2. tables'[Stop(g_pml4, w).table][Stop(g_pml4, w).index].kind # "table"
      BY <2>11, <2>4, <2>13, <3>1 DEF OneChanged
    <3>3. g_pml4' = g_pml4
      BY <1>1
    <3> QED BY <2>3, <2>12, <2>13, <3>2, <3>3, LargeKept
  <2>14. LargeStops(TableEntries, job.virt)'
    <3>1. TableEntries \in Nat /\ job' = job
      BY <1>1, PagingAssumption
    <3>2. ASSUME NEW w \in TableEntries .. (job.virt - 1), w % TableEntries = 0
          PROVE  Stop(g_pml4, w)'.level = 2
      BY <1>2, <2>13, <3>1, <3>2 DEF LargeStops
    <3> QED BY <1>1, <3>1, <3>2 DEF LargeStops
  <2>15. BootJob'
    BY <1>1, <1>2, <1>4, <2>14 DEF BootJob, BootPhases, Booted
  <2> QED BY <1>1, <1>2, <1>4, <2>10, <2>15, BootStep DEF Inv, Active
<1> QED BY <1>1, <1>3, <1>4

\* map_page_2m in the boot.
LEMMA MapLargeKeeps ==
  ASSUME Inv, MapLarge, UNCHANGED processVars
  PROVE  Inv'
<1> DEFINE s == Stop(g_pml4, job.virt)
           e == PageEntry(job.phys, TRUE, TRUE, FALSE)
<1>1. /\ pc = "large" /\ pc \in BootPhases \ {"pml4"} /\ s.level = 2 /\ pc' = pc
      /\ UNCHANGED <<storeVars, g_pml4, cr3, doomed, framebuffer>>
      /\ tables' = WithEntry(tables, s.table, s.index, e)
      /\ job' = [job EXCEPT !.virt = @ + TableEntries, !.phys = @ + TableEntries]
  BY DEF MapLarge, BootPhases, WithEntry
<1>2. job.root = g_pml4 /\ job.virt \in Nat /\ job.phys \in Nat /\ job \in JobTypes
      /\ job.virt % TableEntries = 0 /\ job.end = LowLimit
      /\ LargeStops(TableEntries, job.virt) /\ ~ job.u /\ tables \in Tables
      /\ TableEntries \in Nat \ {0}
  BY <1>1, PagingAssumption DEF Inv, BootJob, Types, JobTypes, BootPhases
<1>3. e \in Entry /\ e.kind # "table"
  BY <1>2, NewRows
<1>4. /\ job' \in JobTypes /\ job'.virt = job.virt + TableEntries /\ job'.root = job.root
      /\ job'.u = job.u /\ job'.end = job.end
  BY <1>1, <1>2, JobMoves
<1>5. UNCHANGED <<free, held, drops, wrong_frees>>
  BY <1>1 DEF storeVars
<1> HIDE DEF e
<1>6. PICK N, lev : KernelOnly(N, lev)
  BY <1>1, BootTree
<1>7. KernelPuts(N, lev, job.virt, e)
  BY <1>1, <1>2, <1>3, <1>5, <1>6, BootTree DEF KernelPuts
<1>8. tables' \in Tables /\ KernelOnly(N, lev)' /\ SameTables(N)
  BY <1>7, KernelPut
<1>9. StoreOK' /\ IsTree(tables, g_pml4, Slots, N, lev)
  BY <1>1, <1>5, <1>6, BootTree DEF StoreOK, RunPages, Store!RunPages, KernelOnly
<1>10. TablesStay(N)
  BY <1>8 DEF SameTables, TablesStay
<1>11. ASSUME NEW w \in Nat, Stop(g_pml4, w).level = 2
       PROVE  Stop(g_pml4, w)'.level = 2
  <2>1. /\ Stop(g_pml4, w).table \in N /\ Stop(g_pml4, w).index \in Slots
        /\ tables[Stop(g_pml4, w).table][Stop(g_pml4, w).index].kind # "table"
    <3>1. IsTable(g_pml4, w, 4) => IndexAt(w, 4) \in Slots
      BY IndexFacts
    <3> QED BY <1>9, <1>11, <3>1, WalkStops DEF StopEntry
  <2>2. tables'[Stop(g_pml4, w).table][Stop(g_pml4, w).index].kind # "table" /\ g_pml4' = g_pml4
    BY <1>1, <1>8, <2>1 DEF SameTables
  <2> QED BY <1>9, <1>10, <1>11, <2>2, LargeKept
<1>12. LargeStops(TableEntries, job.virt)'
  <2>1. ASSUME NEW w \in TableEntries .. (job.virt + TableEntries - 1), w % TableEntries = 0
        PROVE  Stop(g_pml4, w)'.level = 2
    <3>0. w \in Nat
      BY <1>2
    <3>1. CASE w < job.virt
      <4>1. w \in TableEntries .. (job.virt - 1)
        BY <1>2, <3>1
      <4> QED BY <1>2, <1>11, <2>1, <3>0, <4>1 DEF LargeStops
    <3>2. CASE w >= job.virt
      <4>1. w < job.virt + TableEntries
        BY <1>2, <3>0
      <4>2. w = job.virt
        BY <1>2, <2>1, <3>0, <3>2, <4>1, Multiples
      <4> QED BY <1>1, <1>2, <1>11, <4>2
    <3> QED BY <1>2, <3>0, <3>1, <3>2
  <2>2. TableEntries .. (job'.virt - 1) = TableEntries .. (job.virt + TableEntries - 1)
    BY <1>2, <1>4
  <2> QED BY <1>4, <2>1, <2>2 DEF LargeStops
<1>13. BootJob'
  <2>1. job'.virt % TableEntries = 0
    BY <1>2, <1>4, Multiples
  <2> QED BY <1>1, <1>2, <1>4, <1>12, <2>1 DEF BootJob, BootPhases, Booted
<1> QED BY <1>1, <1>4, <1>5, <1>8, <1>9, <1>13, BootStep DEF Inv, Active

\* split_large_page on a chunk of the kernel's image.
LEMMA SplitChunkKeeps ==
  ASSUME Inv, SplitChunk, UNCHANGED processVars
  PROVE  Inv'
<1> DEFINE s == Stop(g_pml4, job.virt)
           e == tables[s.table][s.index]
<1>1. /\ pc = "split" /\ pc \in BootPhases \ {"pml4"} /\ job.virt < job.end
      /\ UNCHANGED <<g_pml4, cr3, doomed, framebuffer>>
      /\ \/ /\ pc' = "panic"
            /\ UNCHANGED <<storeVars, tables, job>>
         \/ /\ pc' = pc
            /\ job' = [job EXCEPT !.virt = @ + TableEntries]
            /\ \E b \in Candidates(1) :
                 /\ alloc_pages(1, b)
                 /\ tables' = WithTable(tables, b.base, SplitTable(e), s.table, s.index,
                                        TableEntry(b.base, e.u))
  BY DEF SplitChunk, BootPhases, WithTable
<1>2. job.root = g_pml4 /\ job.virt \in Nat /\ job.end \in Nat /\ job \in JobTypes
      /\ job.virt % TableEntries = 0 /\ job.end <= LowLimit /\ ~ job.u
      /\ LargeStops(job.virt, job.end) /\ tables \in Tables
      /\ TableEntries \in Nat \ {0} /\ LowLimit \in Nat
  BY <1>1, PagingAssumption DEF Inv, BootJob, Types, JobTypes, BootPhases
<1>3. CASE pc' = "panic" /\ UNCHANGED <<storeVars, tables, job>>
  BY <1>1, <1>3, BootPanics
<1>4. CASE pc' = pc /\ job' = [job EXCEPT !.virt = @ + TableEntries]
  <2>1. PICK b \in Candidates(1) :
          /\ alloc_pages(1, b)
          /\ tables' = WithTable(tables, b.base, SplitTable(e), s.table, s.index,
                                 TableEntry(b.base, e.u))
    BY <1>1, <1>4
  <2>2. PICK N, lev : KernelOnly(N, lev)
    BY <1>1, BootTree
  <2>3. StoreOK /\ IsTree(tables, g_pml4, Slots, N, lev) /\ N \subseteq AllPages
    <3>1. StoreOK /\ IsTree(tables, g_pml4, Slots, N, lev) /\ \A t \in N : Block(t, 1) \in held
      BY <1>1, <2>2, BootTree DEF KernelOnly, Blocks
    <3> QED BY <3>1, TablesApart
  <2>4. ASSUME NEW w \in Nat
        PROVE  /\ Stop(g_pml4, w).table \in N /\ Stop(g_pml4, w).index \in Slots
               /\ Stop(g_pml4, w).level > 1 =>
                    tables[Stop(g_pml4, w).table][Stop(g_pml4, w).index].kind # "table"
    <3>1. IsTable(g_pml4, w, 4) => IndexAt(w, 4) \in Slots
      BY IndexFacts
    <3> QED BY <2>3, <3>1, WalkStops DEF StopEntry
  <2>5. s.level = 2
    <3>1. job.virt \in job.virt .. (job.end - 1)
      BY <1>1, <1>2
    <3> QED BY <1>2, <3>1 DEF LargeStops
  <2>6. e \in Entry /\ e.kind # "table" /\ e.u \in BOOLEAN
    <3>1. e \in Entry /\ e.kind # "table"
      BY <1>2, <2>3, <2>4, <2>5 DEF Tables, Rows
    <3> QED BY <3>1 DEF Entry
  <2>7. b.base \in Nat
    BY <2>1, <2>3, AllocFacts, PageFacts
  <2> DEFINE nt == SplitTable(e)
             ne == TableEntry(b.base, e.u)
  <2>8. /\ ne \in Entry /\ ne.kind = "table" /\ ne.page = b.base
        /\ nt \in Rows /\ \A i \in Slots : nt[i].kind # "table"
    <3>1. nt \in Rows /\ \A i \in Slots : nt[i].kind # "table"
      BY <2>6, NewRows
    <3>2. PICK u \in BOOLEAN : u = e.u
      BY <2>6
    <3>3. ne = TableEntry(b.base, u)
      BY <3>2
    <3> HIDE DEF ne, nt
    <3>4. ne \in Entry /\ ne.kind = "table" /\ ne.page = b.base
      BY <2>7, <3>3, NewRows
    <3> QED BY <3>1, <3>4
  <2>9. tables' = WithTable(tables, b.base, nt, s.table, s.index, ne)
    BY <2>1
  <2> HIDE DEF ne, nt
  <2>10. KernelAdds(N, lev, job.virt, b, nt, ne)
    BY <1>1, <1>2, <2>1, <2>2, <2>3, <2>5, <2>8, <2>9 DEF KernelAdds
  <2>11. /\ tables' \in Tables /\ StoreOK' /\ UNCHANGED <<drops, wrong_frees>>
         /\ \E l2 : KernelOnly(N \cup {b.base}, l2)'
    <3> HIDE DEF s
    <3> QED BY <2>10, KernelGrows
  <2>12. OneChanged(N, s.table, s.index)
    BY <2>10, KernelGrows
  <2>13. TablesStay(N)
    <3>1. tables[s.table][s.index].kind # "table"
      BY <2>6
    <3> QED BY <2>12, <3>1 DEF OneChanged, TablesStay
  <2>14. /\ job' \in JobTypes /\ job'.virt = job.virt + TableEntries /\ job'.root = job.root
         /\ job'.u = job.u /\ job'.end = job.end
    BY <1>2, <1>4, JobMoves
  <2>15. ASSUME NEW w \in (job.virt + TableEntries) .. (job.end - 1), w % TableEntries = 0
         PROVE  Stop(g_pml4, w)'.level = 2
    <3>1. w \in Nat /\ w \in job.virt .. (job.end - 1) /\ w # job.virt /\ w < LowLimit
          /\ job.virt < LowLimit
      BY <1>1, <1>2
    <3>2. Stop(g_pml4, w).level = 2
      BY <1>2, <2>15, <3>1 DEF LargeStops
    <3>3. ~ (Stop(g_pml4, w).table = s.table /\ Stop(g_pml4, w).index = s.index)
      <4> SUFFICES ASSUME Stop(g_pml4, w).table = s.table, Stop(g_pml4, w).index = s.index
                   PROVE  FALSE
        OBVIOUS
      <4>1. /\ StopIn(tables, g_pml4, w).level = 2 /\ StopIn(tables, g_pml4, job.virt).level = 2
            /\ StopIn(tables, g_pml4, w).table = StopIn(tables, g_pml4, job.virt).table
            /\ StopIn(tables, g_pml4, w).index = StopIn(tables, g_pml4, job.virt).index
        BY <2>5, <3>2, StopIs
      <4>2. StopIn(tables, g_pml4, w) = StopIn(tables, g_pml4, job.virt)
        <5>1. \A v : LET z == StopIn(tables, g_pml4, v)
                     IN  z = [table |-> z.table, index |-> z.index, level |-> z.level]
          BY DEF StopIn
        <5> QED BY <4>1, <5>1
      <4>3. /\ IndexAt(job.virt, 2) = IndexAt(w, 2)
            /\ IndexAt(job.virt, 3) = IndexAt(w, 3)
            /\ IndexAt(job.virt, 4) = IndexAt(w, 4)
        BY <1>2, <2>3, <3>1, <4>1, <4>2, SameWay
      <4>4. IndexAt(job.virt, 1) = IndexAt(w, 1)
        BY <1>2, <2>15, <3>1 DEF IndexAt, Span
      <4>5. job.virt \in VirtualPages /\ w \in VirtualPages
        BY <1>2, <3>1, PagingAssumption, LowPages
      <4>6. job.virt = w
        BY <4>3, <4>4, <4>5, SameIndices
      <4> QED BY <3>1, <4>6
    <3>4. tables'[Stop(g_pml4, w).table][Stop(g_pml4, w).index].kind # "table"
      BY <2>4, <2>12, <3>1, <3>2, <3>3 DEF OneChanged
    <3>5. g_pml4' = g_pml4
      BY <1>1
    <3> QED BY <2>3, <2>13, <3>1, <3>2, <3>4, <3>5, LargeKept
  <2>16. LargeStops(job.virt, job.end)'
    <3>1. job'.virt .. (job'.end - 1) = (job.virt + TableEntries) .. (job.end - 1)
      BY <2>14
    <3> QED BY <2>15, <3>1 DEF LargeStops
  <2>17. BootJob'
    <3>1. job'.virt % TableEntries = 0
      BY <1>2, <2>14, Multiples
    <3> QED BY <1>1, <1>2, <1>4, <2>14, <2>16, <3>1 DEF BootJob, BootPhases, Booted
  <2> QED BY <1>1, <1>4, <2>11, <2>14, <2>17, BootStep DEF Inv, Active
<1> QED BY <1>1, <1>3, <1>4

\* The boot takes the first page for the root.
LEMMA AllocKernelRootKeeps ==
  ASSUME Inv, AllocKernelRoot, UNCHANGED processVars
  PROVE  Inv'
<1>1. PICK b \in Candidates(1) :
        /\ alloc_pages(1, b)
        /\ g_pml4' = b.base
        /\ tables' = [tables EXCEPT ![b.base] = EmptyTable]
        /\ job' = Job(b.base, 1, TableEntries, 1, TRUE, TRUE, FALSE)
  BY DEF AllocKernelRoot
<1>2. pc = "pml4" /\ pc' = "low" /\ UNCHANGED <<cr3, doomed, framebuffer>>
      /\ UNCHANGED <<process, active, program, saved_root, line>>
  BY DEF AllocKernelRoot, processVars
<1>3. StoreOK /\ Root = 0 /\ Fields = {} /\ held = {} /\ tables \in Tables
  <2>1. Root = 0 /\ Fields = {} /\ StoreOK /\ tables \in Tables
    BY <1>2 DEF Inv, Control, Fields, NoBacking, Memory, Types, BootPhases
  <2>2. PICK N, lev, M, mlev : KernelTree(N, lev) /\ UserTree(M, mlev) /\ Accounts(N, M)
    BY DEF Inv, Memory
  <2>3. N = {} /\ M = {}
    BY <1>2, <2>1, <2>2 DEF KernelTree, UserTree
  <2> QED BY <2>1, <2>2, <2>3 DEF Accounts, Blocks
<1>4. /\ StoreOK' /\ held' = {b} /\ b = Block(b.base, 1) /\ b.base \in AllPages
      /\ UNCHANGED <<drops, wrong_frees>> /\ b.base \in Nat /\ b.base # 0
  <2>1. /\ StoreOK' /\ held' = held \cup {b} /\ b = Block(b.base, 1)
        /\ b.base \in free /\ UNCHANGED <<drops, wrong_frees>>
    BY <1>1, <1>3, AllocFacts
  <2>2. b.base \in AllPages
    BY <1>3, <2>1 DEF StoreOK
  <2> QED BY <1>3, <2>1, <2>2, PageFacts
<1>5. tables' \in Tables /\ tables'[g_pml4'] = EmptyTable
  <2>1. EmptyTable \in Rows
    BY NewRows
  <2> QED BY <1>1, <1>3, <1>4, <2>1 DEF Tables
<1>6. Control' /\ Active' /\ UserJobs'
  <2>1. /\ pc \in BootPhases /\ pc' \in (BootPhases \cup {"panic"}) \ {"pml4"} /\ pc' # "mmio"
        /\ g_pml4' # 0 /\ Types /\ Control /\ Active /\ UserJobs
    BY <1>1, <1>2, <1>4 DEF Inv, BootPhases
  <2> QED BY <1>2, <2>1, BootControl
<1>7. Memory'
  <2> DEFINE N == {b.base}
             lev == [n \in N |-> 4]
  <2>1. \A i \in Slots : ~ Edge(tables', g_pml4', Slots, g_pml4', i)
    BY <1>5, NewRows DEF Edge
  <2>2. N = {g_pml4'} /\ lev \in [N -> 1 .. 4] /\ lev[g_pml4'] = 4
    BY <1>1
  <2> HIDE DEF N, lev
  <2>3. IsTree(tables', g_pml4', Slots, N, lev)
    BY <2>1, <2>2 DEF IsTree
  <2>4. \A i \in Slots : ~ tables'[g_pml4'][i].u
    BY <1>5 DEF EmptyTable, NoEntry
  <2>5. held' = Blocks(N)
    BY <1>4 DEF Blocks, N
  <2>6. KernelOnly(N, lev)'
    BY <2>3, <2>4, <2>5 DEF KernelOnly
  <2>7. Root' = 0 /\ Fields' = {}
    BY <1>2, <1>3 DEF Root, Fields, NULL, Block
  <2> QED BY <1>2, <1>4, <1>6, <2>6, <2>7, BootMemory
<1>8. job' \in JobTypes /\ job'.root = g_pml4' /\ ~ job'.u
  BY <1>1, <1>4, PagingAssumption DEF Job, JobTypes
<1>9. BootJob'
  BY <1>2, <1>8 DEF BootJob, BootPhases, Booted
<1>10. Types'
  BY <1>1, <1>2, <1>4, <1>5, <1>8 DEF Inv, Types, BootPhases
<1> QED BY <1>6, <1>7, <1>9, <1>10 DEF Inv

\* Accessed bits in the kernel's root do not change the kernel's tree.
LEMMA KernelTouched ==
  ASSUME tables \in Tables, StoreOK, g_pml4 \in AllPages,
         NEW N, NEW lev, KernelOnly(N, lev), NEW vs,
         tables' = Accessed(tables, g_pml4, vs), UNCHANGED <<g_pml4, held>>
  PROVE  tables' \in Tables /\ KernelOnly(N, lev)'
<1>1. tables' \in Tables
      /\ \A t \in AllPages, i \in Slots :
           /\ tables'[t][i].kind = tables[t][i].kind
           /\ tables'[t][i].page = tables[t][i].page
           /\ tables'[t][i].u = tables[t][i].u
  BY AccessedFacts
<1>2. N \subseteq AllPages /\ IsTree(tables, g_pml4, Slots, N, lev)
  <2>1. \A t \in N : Block(t, 1) \in held
    BY DEF KernelOnly, Blocks
  <2> QED BY <2>1, TablesApart DEF KernelOnly
<1>3. IsTree(tables', g_pml4, Slots, N, lev)
  <2>1. \A t \in N, i \in Slots :
          /\ Edge(tables', g_pml4, Slots, t, i) <=> Edge(tables, g_pml4, Slots, t, i)
          /\ Edge(tables, g_pml4, Slots, t, i) => tables'[t][i].page = tables[t][i].page
    BY <1>1, <1>2 DEF Edge
  <2> QED BY <1>2, <2>1, TreeKept
<1>4. \A i \in Slots : ~ tables'[g_pml4][i].u
  BY <1>1 DEF KernelOnly
<1> QED BY <1>1, <1>3, <1>4 DEF KernelOnly

\* paging_init ends: the CPU walks the kernel's root.
LEMMA LoadCr3Keeps ==
  ASSUME Inv, LoadCr3, UNCHANGED processVars
  PROVE  Inv'
<1>1. /\ pc = "load_cr3" /\ pc' = "mmio" /\ pc \in BootPhases \ {"pml4"} /\ cr3' = g_pml4
      /\ tables' = Accessed(tables, g_pml4, {Text}) /\ job' = JobAt("mmio")
      /\ UNCHANGED <<storeVars, g_pml4, doomed, framebuffer>>
  BY DEF LoadCr3, BootPhases, Text
<1>2. PICK N, lev : KernelOnly(N, lev)
  BY <1>1, BootTree
<1>3. StoreOK /\ g_pml4 \in AllPages /\ g_pml4 \in Nat /\ tables \in Tables
      /\ UNCHANGED <<free, held, drops, wrong_frees>>
  BY <1>1, BootTree DEF Inv, Types, storeVars
<1>4. tables' \in Tables /\ KernelOnly(N, lev)'
  BY <1>1, <1>2, <1>3, KernelTouched
<1>5. job' = [root |-> g_pml4, virt |-> MmioRange.first, end |-> MmioRange.end,
              phys |-> MmioRange.first, w |-> TRUE, x |-> FALSE, u |-> FALSE]
  BY <1>1 DEF JobAt, SectionAt, Identity, Job
<1>6. job' \in JobTypes /\ job'.root = g_pml4 /\ ~ job'.u
  BY <1>3, <1>5, PagingAssumption DEF JobTypes
<1>7. KernelSlot(Text)'.kind = "table" /\ KernelSlot(Text)'.a
  <2>1. Text \in Nat /\ KernelSlot(Text).kind = "table" /\ IndexAt(Text, 4) \in Slots /\ Text' = Text
    BY <1>1, PagingAssumption, IndexFacts DEF Inv, BootJob, Text
  <2> DEFINE vs == {Text}
  <2> HIDE DEF vs
  <2>2. tables' = Accessed(tables, g_pml4, vs)
    BY <1>1 DEF vs
  <2>3. \A i \in Slots :
          IF tables[g_pml4][i].kind = "table" /\ \E v \in vs : IndexAt(v, 4) = i
            THEN tables'[g_pml4][i].a ELSE tables'[g_pml4][i] = tables[g_pml4][i]
    BY <1>3, <2>2, AccessedFacts
  <2>4. \A i \in Slots : tables'[g_pml4][i].kind = tables[g_pml4][i].kind
    BY <1>3, <2>2, AccessedFacts
  <2> QED BY <1>1, <2>1, <2>3, <2>4 DEF KernelSlot, vs
<1>8. BootJob'
  BY <1>1, <1>6, <1>7 DEF BootJob, BootPhases, Booted
<1>9. StoreOK'
  BY <1>3 DEF StoreOK, RunPages, Store!RunPages
<1> QED BY <1>1, <1>3, <1>4, <1>6, <1>8, <1>9, BootStep DEF BootPhases

\* The boot ends: the drivers and the shell have used their pages.
LEMMA BootDoneKeeps ==
  ASSUME Inv, BootDone, UNCHANGED processVars
  PROVE  Inv'
<1>1. /\ pc = "mmio" /\ pc' = "idle" /\ pc \in BootPhases \ {"pml4"}
      /\ tables' = Accessed(tables, cr3, FramebufferPages \cup MmioPages) /\ job' = NoJob
      /\ UNCHANGED <<storeVars, g_pml4, cr3, doomed, framebuffer>>
  BY DEF BootDone, JobDone, BootPhases
<1>2. PICK N, lev : KernelOnly(N, lev)
  BY <1>1, BootTree
<1>3. /\ StoreOK /\ g_pml4 \in AllPages /\ tables \in Tables /\ cr3 = g_pml4
      /\ Root = 0 /\ Fields = {} /\ g_pml4 # 0
      /\ UNCHANGED <<free, held, drops, wrong_frees>>
      /\ UNCHANGED <<process, active, program, saved_root, line>>
  BY <1>1, BootTree, PageFacts DEF Inv, Types, storeVars, processVars, Active
<1>4. tables' \in Tables /\ KernelOnly(N, lev)'
  BY <1>1, <1>2, <1>3, KernelTouched
<1>5. StoreOK'
  BY <1>3 DEF StoreOK, RunPages, Store!RunPages
<1>6. Control' /\ Active' /\ UserJobs'
  <2>1. NoBacking /\ process.file_buffer = NULL /\ doomed = {} /\ ~ active
    BY <1>1 DEF Inv, Control, Active, BootPhases, Destroying
  <2>2. Control'
    BY <1>1, <1>3, <2>1 DEF Control, NoBacking, Root, Destroying, NULL, Block, BootPhases
  <2>3. Active'
    BY <1>1, <1>3, <2>1 DEF Active, BootPhases, InSpace
  <2>4. UserJobs'
    BY <1>1, <1>3 DEF Inv, UserJobs, LoadPhases, Placed, InSpace
  <2> QED BY <2>2, <2>3, <2>4
<1>7. Memory'
  <2>1. Root' = 0 /\ Fields' = {}
    BY <1>3 DEF Root, Fields, NULL, Block
  <2> QED BY <1>1, <1>4, <1>5, <1>6, <2>1, BootMemory
<1>8. BootJob'
  <2>1. Text \in Nat /\ KernelSlot(Text).kind = "table" /\ KernelSlot(Text).a /\ Text' = Text
    BY <1>1, PagingAssumption DEF Inv, BootJob, Text
  <2>2. FramebufferPages' = FramebufferPages /\ FramebufferPages \subseteq Nat
    BY <1>1, PagingAssumption DEF Inv, Types, FramebufferPages
  <2> DEFINE vs == FramebufferPages \cup MmioPages
  <2> HIDE DEF vs
  <2>3. tables' = Accessed(tables, g_pml4, vs)
    BY <1>1, <1>3 DEF vs
  <2>4. \A i \in Slots :
          IF tables[g_pml4][i].kind = "table" /\ \E v \in vs : IndexAt(v, 4) = i
            THEN tables'[g_pml4][i].a ELSE tables'[g_pml4][i] = tables[g_pml4][i]
    BY <1>3, <2>3, AccessedFacts
  <2>5. \A i \in Slots : tables'[g_pml4][i].kind = tables[g_pml4][i].kind
    BY <1>3, <2>3, AccessedFacts
  <2>6. KernelSlot(Text)'.kind = "table" /\ KernelSlot(Text)'.a
    BY <1>1, <2>1, <2>4, <2>5, IndexFacts DEF KernelSlot
  <2>7. \A v \in FramebufferPages : KernelSlot(v)'.kind = "table" => KernelSlot(v)'.a
    BY <1>1, <2>2, <2>4, <2>5, IndexFacts DEF KernelSlot, vs
  <2>8. (\A v \in FramebufferPages : KernelSlot(v).kind = "table" => KernelSlot(v).a)'
    BY <2>2, <2>7
  <2> QED BY <1>1, <2>6, <2>8 DEF BootJob, BootPhases, Booted
<1>9. Types'
  BY <1>1, <1>3, <1>4, NoJobTyped DEF Inv, Types, BootPhases
<1> QED BY <1>6, <1>7, <1>8, <1>9 DEF Inv

\* The boot keeps the invariant.
LEMMA BootKeeps ==
  ASSUME Inv, Boot, UNCHANGED processVars
  PROVE  Inv'
BY AllocKernelRootKeeps, BootMapTable, BootMapPage, RangeDoneKeeps, LargeTableKeeps,
   MapLargeKeeps, SplitChunkKeeps, LoadCr3Keeps, BootDoneKeeps DEF Boot, RangeDone

-----------------------------------------------------------------------------
(* Where a program may be placed. *)

\* Counting in pages: a multiple of the page size is its page, rounding up never
\* loses a byte, and a byte before an end is on a page before it.
LEMMA PageArithmetic ==
  /\ PageSize \in Nat \ {0}
  /\ \A b \in Nat : PageOf(b) \in Nat /\ PageAfter(b) \in Nat
  /\ \A q \in Nat : q * PageSize \in Nat /\ PageOf(q * PageSize) = q
  /\ \A q, b \in Nat : b >= q * PageSize => PageOf(b) >= q
  /\ \A q, b \in Nat : b < q * PageSize => PageOf(b) < q
  /\ \A b, c \in Nat : b <= c => PageOf(b) <= PageOf(c) /\ PageAfter(b) <= PageAfter(c)
<1>1. PageSize \in Nat \ {0}
  BY LayoutAssumption
<1>2. ASSUME NEW b \in Nat PROVE PageAfter(b) = PageOf(b + PageSize - 1) /\ b + PageSize - 1 \in Nat
  BY <1>1 DEF PageAfter, PageOf
<1>3. ASSUME NEW b \in Nat, NEW c \in Nat, b <= c PROVE PageAfter(b) <= PageAfter(c)
  <2>1. b + PageSize - 1 <= c + PageSize - 1
    BY <1>1, <1>3
  <2>2. PageOf(b + PageSize - 1) <= PageOf(c + PageSize - 1)
    BY <1>1, <1>2, <2>1, Quotients DEF PageOf
  <2> QED BY <1>2, <2>2
<1>4. /\ \A q \in Nat : q * PageSize \in Nat /\ PageOf(q * PageSize) = q
      /\ \A q, b \in Nat : b >= q * PageSize => PageOf(b) >= q
      /\ \A q, b \in Nat : b < q * PageSize => PageOf(b) < q
  BY <1>1, Quotients DEF PageOf
<1>5. \A b, c \in Nat : PageOf(b) \in Nat /\ (b <= c => PageOf(b) <= PageOf(c))
  BY <1>1, Quotients DEF PageOf
<1> QED BY <1>1, <1>2, <1>3, <1>4, <1>5

\* The image process_configure_image_layout accepts: its first page and its end
\* exist, and every segment and the entry point lie between them.
LEMMA LayoutFacts ==
  ASSUME NEW f \in Programs, LayoutAccepted(f)
  PROVE  /\ ImageFirst(f) \in Nat /\ ImageEnd(f) \in Nat /\ ImageFirst(f) < ImageEnd(f)
         /\ \A s \in LoadSegments(f) :
              SegmentPages(s) \subseteq ImageFirst(f) .. (ImageEnd(f) - 1)
         /\ PageOf(f.entry) \in ImageFirst(f) .. (ImageEnd(f) - 1)
         /\ ImageEnd(f) <= PageAfter(ImageLimit)
<1> DEFINE L == LoadSegments(f)
           A == {PageOf(s.vaddr) : s \in L}
           B == {PageAfter(s.vaddr + s.memsz) : s \in L}
           top == PageAfter(ImageLimit)
           C == {top - x : x \in B}
<1>1. L # {} /\ ImageFirst(f) < ImageEnd(f) /\ f.entry \in Nat
      /\ f.entry >= ImageFirst(f) * PageSize /\ f.entry < ImageEnd(f) * PageSize
  BY LayoutAssumption DEF LayoutAccepted
<1>2. ImageLimit \in Nat
  BY LayoutAssumption DEF ImageLimit
<1>3. ASSUME NEW s \in L
      PROVE  s.vaddr \in Nat /\ s.memsz \in Nat /\ s.vaddr + s.memsz \in Nat
             /\ s.vaddr + s.memsz <= ImageLimit
  <2>1. s \in f.segments /\ ~ SegmentRejected(f, s)
    BY DEF LayoutAccepted, LoadSegments
  <2>2. s.vaddr \in Nat /\ s.memsz \in Nat
    BY <2>1, LayoutAssumption
  <2> QED BY <1>2, <2>1, <2>2 DEF SegmentRejected
<1>4. ASSUME NEW s \in L
      PROVE  PageOf(s.vaddr) \in Nat /\ PageAfter(s.vaddr + s.memsz) \in Nat
             /\ PageAfter(s.vaddr + s.memsz) <= top
  BY <1>2, <1>3, PageArithmetic
<1>5. top \in Nat
  BY <1>2, PageArithmetic
<1>6. A \in SUBSET Nat /\ A # {} /\ B \in SUBSET Nat /\ B # {}
  BY <1>1, <1>4
<1>7. C \in SUBSET Nat /\ C # {}
  <2>1. \A x \in B : x \in Nat /\ x <= top
    BY <1>4
  <2> HIDE DEF B, top
  <2>2. \A x \in B : top - x \in Nat
    BY <1>5, <2>1
  <2>3. \A y \in C : y \in Nat
    BY <2>2
  <2>4. C # {}
    BY <1>6
  <2> HIDE DEF C
  <2> QED BY <2>3, <2>4
<1>8. PICK a \in A : \A y \in A : a <= y
  BY <1>6, LeastElement
<1>9. PICK c \in C : \A y \in C : c <= y
  BY <1>7, LeastElement
<1>10. PICK z \in B : c = top - z
  OBVIOUS
<1>11. \A y \in B : z >= y
  <2>1. \A y \in B : top - z <= top - y
    BY <1>9, <1>10
  <2>2. z \in B
    BY <1>10
  <2> HIDE DEF B, top
  <2> QED BY <1>5, <1>6, <2>1, <2>2
<1>12. ImageFirst(f) \in A /\ \A s \in L : ImageFirst(f) <= PageOf(s.vaddr)
  <2>1. \E p \in A : \A s \in L : p <= PageOf(s.vaddr)
    BY <1>8
  <2> QED BY <2>1 DEF ImageFirst
<1>13. ImageEnd(f) \in B /\ \A s \in L : ImageEnd(f) >= PageAfter(s.vaddr + s.memsz)
  <2>1. \E p \in B : \A s \in L : p >= PageAfter(s.vaddr + s.memsz)
    BY <1>11
  <2> QED BY <2>1 DEF ImageEnd
<1>14. ImageFirst(f) \in Nat /\ ImageEnd(f) \in Nat
  BY <1>6, <1>12, <1>13
<1>15. ImageEnd(f) <= PageAfter(ImageLimit)
  BY <1>4, <1>13
<1> HIDE DEF L
<1>16. ASSUME NEW s \in L PROVE SegmentPages(s) \subseteq ImageFirst(f) .. (ImageEnd(f) - 1)
  BY <1>4, <1>12, <1>13, <1>14 DEF SegmentPages
<1>17. PageOf(f.entry) \in ImageFirst(f) .. (ImageEnd(f) - 1)
  <2>1. PageOf(f.entry) \in Nat /\ PageOf(f.entry) >= ImageFirst(f) /\ PageOf(f.entry) < ImageEnd(f)
    BY <1>1, <1>14, PageArithmetic
  <2> QED BY <1>14, <2>1
<1> QED BY <1>1, <1>14, <1>16, <1>17, <1>15 DEF L

-----------------------------------------------------------------------------
(* Steps of the process that move no page. *)

\* What a step that moves no page has to show.
LEMMA QuietStep ==
  ASSUME Inv, Booted, Booted',
         UNCHANGED <<free, held, tables, g_pml4, doomed, framebuffer>>,
         Root' = Root,
         process'.image_backing = process.image_backing,
         process'.stack_backing = process.stack_backing,
         process'.file_buffer = process.file_buffer,
         Root = 0 \/ (Destroying <=> Destroying'),
         Types', Control', Active', UserJobs'
  PROVE  Inv'
<1>1. pc # "pml4" /\ pc' # "pml4"
  BY DEF Booted, BootPhases
<1>2. Memory'
  BY <1>1, SameMemory DEF Inv
<1>3. BootJob'
  BY SameKernel DEF Inv, Types
<1> QED BY <1>2, <1>3 DEF Inv

\* Nothing about the program's pages changes.
LEMMA SamePages ==
  ASSUME Root' = Root, process'.image_base = process.image_base,
         process'.image_pages = process.image_pages, tables' = tables
  PROVE  /\ ImagePages' = ImagePages
         /\ \A v : UserSlot(v)' <=> UserSlot(v)
         /\ (\A v \in ImagePages \cup StackRange : UserSlot(v)) =>
              (\A v \in ImagePages \cup StackRange : UserSlot(v))'
<1>1. ImagePages' = ImagePages /\ \A v : UserSlot(v)' <=> UserSlot(v)
  BY DEF ImagePages, UserSlot
<1>2. (\A v \in ImagePages \cup StackRange : UserSlot(v)) =>
              (\A v \in ImagePages \cup StackRange : UserSlot(v))'
  BY <1>1
<1> QED BY <1>1, <1>2

\* The shell starts a program, or its arguments are rejected.
LEMMA RunForegroundKeeps ==
  ASSUME Inv, RunForeground
  PROVE  Inv'
<1>1. /\ pc = "idle" /\ process' = IdleProcess
      /\ (pc' = "file_buffer" /\ program' \in Programs) \/ (pc' = pc /\ program' = program)
      /\ UNCHANGED <<free, held, drops, wrong_frees, tables, g_pml4, cr3, job, doomed, framebuffer>>
      /\ UNCHANGED <<active, saved_root, line>>
  BY DEF RunForeground, pagingVars, storeVars
<1>2. Booted /\ Booted' /\ ~ Destroying /\ ~ Destroying'
  BY <1>1 DEF Booted, BootPhases, Destroying
<1>3. NoBacking /\ process.file_buffer = NULL /\ Root = 0 /\ doomed = {} /\ cr3 = g_pml4 /\ ~ active
      /\ g_pml4 # 0
  BY <1>1, <1>2 DEF Inv, Control, Active, BootPhases, InSpace
<1>4. Root' = 0 /\ process'.image_backing = NULL /\ process'.stack_backing = NULL
      /\ process'.file_buffer = NULL /\ process'.image_base = 0
  BY <1>1 DEF Root, IdleProcess
<1>5. Types'
  <2>1. process' \in ProcessTypes
    BY <1>1 DEF IdleProcess, ProcessTypes, NULL, Block, Run0
  <2> QED BY <1>1, <2>1 DEF Inv, Types, LoadPhases
<1>6. Control'
  BY <1>1, <1>2, <1>3, <1>4 DEF Control, NoBacking, NULL, Block, BootPhases
<1>7. Active'
  BY <1>1, <1>3 DEF Active, InSpace, BootPhases
<1>8. UserJobs'
  <2>1. 0 \in Nat /\ process'.image_base = 0 * PageSize
    BY <1>4, LayoutAssumption
  <2> QED BY <1>1, <2>1 DEF UserJobs, Placed, InSpace, LoadPhases
<1> QED BY <1>1, <1>2, <1>3, <1>4, <1>5, <1>6, <1>7, <1>8, QuietStep DEF NoBacking

\* The file could not be loaded.
LEMMA LoadFailsKeeps ==
  ASSUME Inv, LoadFails
  PROVE  Inv'
<1>1. /\ pc = "load" /\ pc' = "release_image"
      /\ UNCHANGED <<free, held, drops, wrong_frees, tables, g_pml4, cr3, job, doomed, framebuffer>>
      /\ UNCHANGED <<process, active, program, saved_root, line>> /\ Root' = Root
  BY DEF LoadFails, pagingVars, storeVars, processVars, Root
<1>2. Booted /\ Booted' /\ ~ Destroying /\ ~ Destroying'
  BY <1>1 DEF Booted, BootPhases, Destroying
<1>3. Types'
  BY <1>1 DEF Inv, Types, LeavePhases
<1>4. Control'
  BY <1>1, <1>2 DEF Inv, Control, NoBacking, NULL, Block, BootPhases
<1>5. Active'
  BY <1>1 DEF Inv, Active, InSpace, BootPhases
<1>6. UserJobs'
  BY <1>1 DEF Inv, UserJobs, Placed, InSpace, LoadPhases
<1> QED BY <1>1, <1>2, <1>3, <1>4, <1>5, <1>6, QuietStep

\* The layout is accepted and remembered.
LEMMA LoadFileKeeps ==
  ASSUME Inv, LoadFile
  PROVE  Inv'
<1> DEFINE base == ImageFirst(program) * PageSize
           n == ImageEnd(program) - ImageFirst(program)
<1>1. /\ pc = "load" /\ pc' = "create_root" /\ LayoutAccepted(program)
      /\ process' = [process EXCEPT !.image_base = base, !.image_pages = n]
      /\ UNCHANGED <<free, held, drops, wrong_frees, tables, g_pml4, cr3, job, doomed, framebuffer>>
      /\ UNCHANGED <<active, program, saved_root, line>>
  BY DEF LoadFile, pagingVars, storeVars
<1>2. Booted /\ Booted' /\ ~ Destroying /\ ~ Destroying'
  BY <1>1 DEF Booted, BootPhases, Destroying
<1>3. program \in Programs /\ process \in ProcessTypes
  BY <1>1 DEF Inv, UserJobs, LoadPhases, Types
<1>4. base \in Nat /\ n \in Nat /\ ImageFirst(program) \in Nat
  BY <1>1, <1>3, LayoutFacts, PageArithmetic
<1>5. process'.image_base = base /\ process'.image_pages = n
  BY <1>1, <1>3 DEF ProcessTypes
<1>6. LayoutAccepted(program)' /\ (ImageFirst(program) * PageSize)' = base
      /\ (ImageEnd(program) - ImageFirst(program))' = n
  BY <1>1
<1>7. UserJobs'
  BY <1>1, <1>3, <1>4, <1>5, <1>6 DEF UserJobs, Placed, InSpace, LoadPhases
<1> HIDE DEF base, n
<1>8. /\ process' \in ProcessTypes
      /\ Root' = Root /\ process'.image_backing = process.image_backing
      /\ process'.stack_backing = process.stack_backing
      /\ process'.file_buffer = process.file_buffer
  BY <1>1, <1>3, <1>4 DEF Root, ProcessTypes
<1>9. Types'
  BY <1>1, <1>8 DEF Inv, Types, LoadPhases
<1>10. Control'
  BY <1>1, <1>2, <1>8 DEF Inv, Control, NoBacking, NULL, Block, BootPhases
<1>11. Active'
  BY <1>1 DEF Inv, Active, InSpace, BootPhases
<1> QED BY <1>1, <1>2, <1>7, <1>8, <1>9, <1>10, <1>11, QuietStep

\* An allocation or a mapping of the loader fails.
LEMMA LoaderFails ==
  ASSUME Inv,
         \/ /\ pc \in {"image_backing", "stack_backing", "mapping_image", "mapping_stack"}
            /\ pc' = "fail_stack"
         \/ pc \in {"file_buffer", "create_root"} /\ pc' = "release_image",
         UNCHANGED <<free, held, drops, wrong_frees, tables, g_pml4, cr3, job, doomed, framebuffer>>,
         UNCHANGED <<process, active, program, saved_root, line>>
  PROVE  Inv'
<1>1. Root' = Root
  BY DEF Root
<1>2. Booted /\ Booted' /\ ~ Destroying /\ ~ Destroying'
  BY DEF Booted, BootPhases, Destroying
<1>3. Types'
  BY DEF Inv, Types, LeavePhases
<1>4. Control'
  BY <1>1, <1>2 DEF Inv, Control, NoBacking, NULL, Block, BootPhases
<1>5. Active'
  BY DEF Inv, Active, InSpace, BootPhases
<1>6. UserJobs'
  BY DEF Inv, UserJobs, Placed, InSpace, LoadPhases
<1> QED BY <1>1, <1>2, <1>3, <1>4, <1>5, <1>6, QuietStep

\* The calls of paging_map_user_range begin and end.
LEMMA JobsKeep ==
  ASSUME Inv, BeginMapImage \/ ImageMapped \/ StackMapped
  PROVE  Inv'
<1>1. /\ UNCHANGED <<free, held, drops, wrong_frees, tables, g_pml4, cr3, doomed, framebuffer>>
      /\ UNCHANGED <<process, active, program, saved_root, line>> /\ Root' = Root
      /\ \/ pc = "map_image" /\ pc' = "mapping_image"
         \/ pc = "mapping_image" /\ pc' = "mapping_stack"
         \/ pc = "mapping_stack" /\ pc' = "stage"
  BY DEF BeginMapImage, ImageMapped, StackMapped, JobDone, pagingVars, storeVars, processVars, Root
<1>2. Booted /\ Booted' /\ ~ Destroying /\ ~ Destroying'
  BY <1>1 DEF Booted, BootPhases, Destroying
<1>3. Root # 0 /\ Root \in Nat /\ process \in ProcessTypes /\ program \in Programs
  BY <1>1, PageFacts DEF Inv, Control, Types, ProcessTypes, UserJobs, LoadPhases, Root
<1>4. /\ PageOf(process.image_base) \in Nat /\ process.image_pages \in Nat
      /\ process.image_backing.base \in Nat /\ process.stack_backing.base \in Nat
      /\ PageOf(StackBase) \in Nat /\ StackPages \in Nat
  <2>1. process.image_base \in Nat /\ process.image_pages \in Nat
        /\ process.image_backing \in Run0 /\ process.stack_backing \in Run0
    BY <1>3 DEF ProcessTypes
  <2> QED BY <2>1, PageArithmetic, LayoutAssumption DEF Run0
<1>5. Control'
  BY <1>1, <1>2, <1>3 DEF Inv, Control, NoBacking, NULL, Block, BootPhases
<1>6. Active'
  BY <1>1 DEF Inv, Active, InSpace, BootPhases
<1>7. /\ pc' = "mapping_image" =>
           /\ job'.root = Root /\ job'.u /\ job' \in JobTypes
           /\ job'.virt = PageOf(process.image_base)
           /\ job'.end = PageOf(process.image_base) + process.image_pages
      /\ pc' = "mapping_stack" =>
           /\ job'.root = Root /\ job'.u /\ job' \in JobTypes
           /\ job'.virt = PageOf(StackBase)
           /\ job'.end = PageOf(StackBase) + StackPages
      /\ pc' = "stage" => job' \in JobTypes
  <2>1. CASE BeginMapImage
    <3>1. job' = [root |-> Root, virt |-> PageOf(process.image_base),
                  end |-> PageOf(process.image_base) + process.image_pages,
                  phys |-> process.image_backing.base, w |-> TRUE, x |-> TRUE, u |-> TRUE]
      BY <2>1 DEF BeginMapImage, UserJob, Job, Root
    <3>2. pc' = "mapping_image" /\ PageOf(process.image_base) + process.image_pages \in Nat
      BY <1>4, <2>1 DEF BeginMapImage
    <3> QED BY <1>3, <1>4, <3>1, <3>2 DEF JobTypes
  <2>2. CASE ImageMapped
    <3>1. job' = [root |-> Root, virt |-> PageOf(StackBase),
                  end |-> PageOf(StackBase) + StackPages,
                  phys |-> process.stack_backing.base, w |-> TRUE, x |-> FALSE, u |-> TRUE]
      BY <2>2 DEF ImageMapped, UserJob, Job, Root
    <3>2. pc' = "mapping_stack" /\ PageOf(StackBase) + StackPages \in Nat
      BY <1>4, <2>2 DEF ImageMapped, JobDone
    <3> QED BY <1>3, <1>4, <3>1, <3>2 DEF JobTypes
  <2>3. CASE StackMapped
    BY <2>3, NoJobTyped DEF StackMapped, JobDone
  <2> QED BY <2>1, <2>2, <2>3
<1>8. Types'
  BY <1>1, <1>7 DEF Inv, Types, LoadPhases
<1>9. /\ pc = "mapping_image" \/ pc = "mapping_stack" => job.virt >= job.end
      /\ job.virt \in Nat /\ job.end \in Nat
  BY <1>1 DEF BeginMapImage, ImageMapped, StackMapped, JobDone, Inv, Types, JobTypes
<1>10. /\ \A v : UserSlot(v)' <=> UserSlot(v)
       /\ ImagePages' = ImagePages
  BY <1>1, SamePages
<1>11. pc = "mapping_image" => \A v \in ImagePages : UserSlot(v)
  <2> SUFFICES ASSUME pc = "mapping_image", NEW v \in ImagePages PROVE UserSlot(v)
    OBVIOUS
  <2>1. /\ job.end = PageOf(process.image_base) + process.image_pages
        /\ \A w \in PageOf(process.image_base) .. (job.virt - 1) : UserSlot(w)
    BY DEF Inv, UserJobs
  <2>2. v \in PageOf(process.image_base) .. (job.virt - 1)
    BY <1>4, <1>9, <2>1 DEF ImagePages
  <2> QED BY <2>1, <2>2
<1>12. pc = "mapping_stack" => \A v \in ImagePages \cup StackRange : UserSlot(v)
  <2> SUFFICES ASSUME pc = "mapping_stack", NEW v \in StackRange PROVE UserSlot(v)
    BY DEF Inv, UserJobs
  <2>1. /\ job.end = PageOf(StackBase) + StackPages
        /\ \A w \in PageOf(StackBase) .. (job.virt - 1) : UserSlot(w)
    BY DEF Inv, UserJobs
  <2>2. v \in PageOf(StackBase) .. (job.virt - 1)
    BY <1>4, <1>9, <2>1 DEF StackRange
  <2> QED BY <2>1, <2>2
<1>13. /\ pc \in Placed /\ LayoutAccepted(program)
       /\ process.image_base = ImageFirst(program) * PageSize
       /\ process.image_pages = ImageEnd(program) - ImageFirst(program)
       /\ \E k \in Nat : process.image_base = k * PageSize
  BY <1>1 DEF Inv, UserJobs, Placed
<1>14. pc' = "mapping_image" => \A v : v \notin PageOf(process'.image_base) .. (job'.virt - 1)
  BY <1>1, <1>4, <1>7
<1>15. pc' = "mapping_stack" => \A v : v \notin PageOf(StackBase) .. (job'.virt - 1)
  BY <1>1, <1>4, <1>7
<1>16. UserJobs'
  <2>1. CASE pc = "map_image" /\ pc' = "mapping_image"
    BY <1>1, <1>3, <1>7, <1>13, <1>14, <2>1 DEF UserJobs, Placed, InSpace, LoadPhases
  <2>2. CASE pc = "mapping_image" /\ pc' = "mapping_stack"
    <3>1. (\A v \in ImagePages : UserSlot(v))'
      BY <1>10, <1>11, <2>2
    <3> QED BY <1>1, <1>3, <1>7, <1>13, <1>15, <2>2, <3>1 DEF UserJobs, Placed, InSpace, LoadPhases
  <2>3. CASE pc = "mapping_stack" /\ pc' = "stage"
    <3>1. (\A v \in ImagePages \cup StackRange : UserSlot(v))'
      BY <1>1, <1>12, <2>3, SamePages
    <3> QED BY <1>1, <1>3, <1>13, <2>3, <3>1 DEF UserJobs, Placed, InSpace, LoadPhases
  <2> QED BY <1>1, <2>1, <2>2, <2>3
<1> QED BY <1>1, <1>2, <1>5, <1>6, <1>8, <1>16, QuietStep

\* The program ends, or a system call is refused or starts to read a line.
LEMMA CallsKeep ==
  ASSUME Inv, SyscallExit \/ UserFault \/ SyscallRefused \/ SyscallReadLine
  PROVE  Inv'
<1>1. /\ pc = "user" /\ pc' \in {"user", "returned", "read_line"}
      /\ UNCHANGED <<free, held, drops, wrong_frees, tables, g_pml4, cr3, job, doomed, framebuffer>>
      /\ UNCHANGED <<active, program, saved_root>>
  BY DEF SyscallExit, UserFault, FinishExit, SyscallRefused, SyscallReadLine, pagingVars,
         storeVars, processVars, vars
<1>2. process \in ProcessTypes /\ line \in LineTypes
  BY DEF Inv, Types
<1>3. /\ process' \in ProcessTypes
      /\ Root' = Root /\ process'.image_backing = process.image_backing
      /\ process'.stack_backing = process.stack_backing
      /\ process'.file_buffer = process.file_buffer
      /\ process'.image_base = process.image_base /\ process'.image_pages = process.image_pages
  <2>1. CASE SyscallExit \/ UserFault
    <3>1. PICK b \in BOOLEAN : process' = [process EXCEPT !.state = "exited",
                                             !.exit_requested = TRUE, !.failed = b]
      BY <2>1 DEF SyscallExit, UserFault, FinishExit
    <3> QED BY <1>2, <3>1 DEF ProcessTypes, Root
  <2>2. CASE SyscallRefused \/ SyscallReadLine
    BY <1>2, <2>2 DEF SyscallRefused, SyscallReadLine, processVars, vars, Root
  <2> QED BY <2>1, <2>2
<1>4. /\ line' \in LineTypes /\ line'.len <= line'.capacity
      /\ pc' = "read_line" => /\ process_user_range_valid(line'.buffer, line'.capacity)
                              /\ line'.len < line'.capacity
  <2>1. CASE ~ SyscallReadLine
    BY <2>1 DEF SyscallExit, UserFault, FinishExit, SyscallRefused, processVars, vars, Inv, Types
  <2>2. CASE SyscallReadLine
    <3>1. PICK ptr \in Pointers, length \in Lengths \ {0} :
            /\ process_user_range_valid(ptr, length)
            /\ line' = [buffer |-> ptr, capacity |-> length, len |-> 0]
      BY <2>2 DEF SyscallReadLine
    <3>2. ptr \in Nat /\ length \in Nat /\ length > 0
      BY LayoutAssumption
    <3> QED BY <3>1, <3>2 DEF LineTypes
  <2> QED BY <2>1, <2>2
<1>5. Booted /\ Booted' /\ ~ Destroying /\ ~ Destroying'
  BY <1>1 DEF Booted, BootPhases, Destroying
<1>6. Types'
  BY <1>1, <1>3, <1>4 DEF Inv, Types, LeavePhases
<1>7. Control'
  BY <1>1, <1>3, <1>5 DEF Inv, Control, NoBacking, NULL, Block, BootPhases
<1>8. Active'
  BY <1>1, <1>3 DEF Inv, Active, InSpace, BootPhases
<1>9. UserJobs'
  <2>1. (\A v \in ImagePages \cup StackRange : UserSlot(v))'
    BY <1>1, <1>3, SamePages DEF Inv, UserJobs, InSpace
  <2>2. pc' = "read_line" =>
          (process_user_range_valid(line.buffer, line.capacity) /\ line.len < line.capacity)'
    BY <1>3, <1>4 DEF process_user_range_valid, process_range_contains, ImageBytes
  <2> QED BY <1>1, <1>3, <2>1, <2>2 DEF Inv, UserJobs, Placed, InSpace, LoadPhases
<1> QED BY <1>1, <1>3, <1>5, <1>6, <1>7, <1>8, <1>9, QuietStep

-----------------------------------------------------------------------------
(* Blocks of the process. *)

\* The two trees stay when their tables do.
LEMMA TreesKept ==
  ASSUME NEW N, NEW lev, NEW M, NEW mlev, KernelTree(N, lev), UserTree(M, mlev),
         pc # "pml4", pc' # "pml4", ~ Destroying, ~ Destroying',
         g_pml4' = g_pml4, Root' = Root,
         \A t \in N \cup M : tables'[t] = tables[t]
  PROVE  KernelTree(N, lev)' /\ UserTree(M, mlev)'
<1>1. IsTree(tables, g_pml4, Slots, N, lev) /\ g_pml4 \in N
      /\ \A i \in Slots : ~ tables[g_pml4][i].u
  BY DEF KernelTree, IsTree
<1>2. IsTree(tables', g_pml4, Slots, N, lev)
  <2>1. \A t \in N, i \in Slots :
          /\ Edge(tables', g_pml4, Slots, t, i) <=> Edge(tables, g_pml4, Slots, t, i)
          /\ Edge(tables, g_pml4, Slots, t, i) => tables'[t][i].page = tables[t][i].page
    BY DEF Edge
  <2> QED BY <1>1, <2>1, TreeKept
<1>3. KernelTree(N, lev)'
  BY <1>1, <1>2 DEF KernelTree
<1>4. CASE Root = 0
  BY <1>3, <1>4 DEF UserTree
<1>5. CASE Root # 0
  <2>1. RootShared /\ IsTree(tables, Root, OwnSlots(Root), M, mlev) /\ Root \in M
    BY <1>5 DEF UserTree, IsTree
  <2>2. OwnSlots(Root)' = OwnSlots(Root)
    BY <1>1, <2>1 DEF OwnSlots
  <2>3. RootShared'
    BY <1>1, <2>1 DEF RootShared
  <2> DEFINE W == OwnSlots(Root)
  <2> HIDE DEF W
  <2>4. IsTree(tables', Root, W, M, mlev)
    <3>1. \A t \in M, i \in Slots :
            /\ Edge(tables', Root, W, t, i) <=> Edge(tables, Root, W, t, i)
            /\ Edge(tables, Root, W, t, i) => tables'[t][i].page = tables[t][i].page
      BY DEF Edge
    <3> QED BY <2>1, <3>1, TreeKept DEF W
  <2>5. IsTree(tables, Root, OwnSlots(Root), M, mlev)'
    BY <2>2, <2>4 DEF W
  <2> QED BY <1>3, <1>5, <2>3, <2>5 DEF UserTree
<1> QED BY <1>4, <1>5

\* A field of the process gets a block or loses it; the others stay.
LEMMA FieldFacts ==
  ASSUME process \in ProcessTypes, NEW field \in FieldNames, NEW b \in Run0,
         process' = [process EXCEPT ![field] = b]
  PROVE  /\ process' \in ProcessTypes
         /\ process'[field] = b
         /\ \A g \in FieldNames : g # field => process'[g] = process[g]
         /\ Root' = Root
         /\ process'.image_base = process.image_base
         /\ process'.image_pages = process.image_pages
<1>1. CASE field = "image_backing"
  BY <1>1 DEF ProcessTypes, FieldNames, Root
<1>2. CASE field = "stack_backing"
  BY <1>2 DEF ProcessTypes, FieldNames, Root
<1>3. CASE field = "file_buffer"
  BY <1>3 DEF ProcessTypes, FieldNames, Root
<1> QED BY <1>1, <1>2, <1>3 DEF FieldNames

\* The blocks of the fields, by name.
LEMMA FieldNamed ==
  /\ Fields = {process[g] : g \in FieldNames} \ {NULL}
  /\ Fields' = {process'[g] : g \in FieldNames} \ {NULL}
BY DEF Fields, FieldNames, NULL, Block

\* What a step has to show for Accounts.
LEMMA AccountsNext ==
  ASSUME NEW N, NEW M,
         held' = Blocks(N) \cup Blocks(M) \cup Fields',
         N \cap M = {},
         Fields' \cap Blocks(N \cup M) = {},
         \A g, h \in FieldNames : process'[g] = process'[h] /\ process'[g] # NULL => g = h
  PROVE  Accounts(N, M)'
<1>1. /\ process'.image_backing # NULL =>
           process'.image_backing \notin {process'.stack_backing, process'.file_buffer}
      /\ process'.stack_backing # NULL => process'.stack_backing # process'.file_buffer
  BY DEF FieldNames
<1>2. NULL' = NULL /\ \A S : Blocks(S)' = Blocks(S)
  BY DEF NULL, Block, Blocks
<1> QED BY <1>1, <1>2 DEF Accounts

\* What Accounts says, by name.
LEMMA AccountsSay ==
  ASSUME NEW N, NEW M, Accounts(N, M)
  PROVE  /\ held = Blocks(N) \cup Blocks(M) \cup Fields
         /\ N \cap M = {}
         /\ Fields \cap Blocks(N \cup M) = {}
         /\ \A g, h \in FieldNames : process[g] = process[h] /\ process[g] # NULL => g = h
<1>1. \A g, h \in FieldNames : process[g] = process[h] /\ process[g] # NULL => g = h
  BY DEF FieldNames, Accounts
<1> QED BY <1>1 DEF Accounts

\* A block that is lent to a field that had none.
LEMMA FieldGains ==
  ASSUME Memory, process \in ProcessTypes, pc # "pml4", pc' # "pml4",
         ~ Destroying, ~ Destroying',
         NEW field \in FieldNames, process[field] = NULL,
         NEW n \in Nat, NEW b \in Candidates(n), alloc_pages(n, b),
         process' = [process EXCEPT ![field] = b],
         UNCHANGED <<tables, g_pml4, doomed>>
  PROVE  /\ Memory'
         /\ process' \in ProcessTypes
         /\ \A g \in FieldNames : g # field => process'[g] = process[g]
         /\ Root' = Root
         /\ process'.image_base = process.image_base
         /\ process'.image_pages = process.image_pages
         /\ UNCHANGED <<drops, wrong_frees>>
<1>1. PICK N, lev, M, mlev : KernelTree(N, lev) /\ UserTree(M, mlev) /\ Accounts(N, M)
  BY DEF Memory
<1>2. /\ StoreOK' /\ held' = held \cup {b} /\ b \notin held /\ b # NULL
      /\ b \in [base : AllPages, pages : Nat \ {0}] /\ UNCHANGED <<drops, wrong_frees>>
  BY AllocFacts DEF Memory
<1>3. b \in Run0
  BY <1>2, PageFacts DEF Run0
<1>4. /\ process' \in ProcessTypes /\ process'[field] = b
      /\ \A g \in FieldNames : g # field => process'[g] = process[g]
      /\ Root' = Root /\ process'.image_base = process.image_base
      /\ process'.image_pages = process.image_pages
  BY <1>3, FieldFacts
<1>5. KernelTree(N, lev)' /\ UserTree(M, mlev)'
  BY <1>1, <1>4, TreesKept
<1>6. /\ held = Blocks(N) \cup Blocks(M) \cup Fields
      /\ N \cap M = {}
      /\ Fields \cap Blocks(N \cup M) = {}
      /\ \A g, h \in FieldNames : process[g] = process[h] /\ process[g] # NULL => g = h
  <2>1. Accounts(N, M)
    BY <1>1
  <2> QED BY <2>1, AccountsSay
<1>7. Fields' = Fields \cup {b}
  BY <1>2, <1>4, FieldNamed
<1>8. \A g \in FieldNames : process[g] # b
  BY <1>2, <1>6, FieldNamed
<1>9. Blocks(N \cup M) = Blocks(N) \cup Blocks(M)
  BY DEF Blocks
<1>10. /\ held' = Blocks(N) \cup Blocks(M) \cup Fields'
       /\ N \cap M = {}
       /\ Fields' \cap Blocks(N \cup M) = {}
       /\ \A g, h \in FieldNames : process'[g] = process'[h] /\ process'[g] # NULL => g = h
  <2>1. held' = Blocks(N) \cup Blocks(M) \cup Fields'
    BY <1>2, <1>6, <1>7
  <2>2. b \notin Blocks(N \cup M)
    BY <1>2, <1>6, <1>9
  <2>3. Fields' \cap Blocks(N \cup M) = {}
    BY <1>6, <1>7, <2>2
  <2>4. \A g, h \in FieldNames : process'[g] = process'[h] /\ process'[g] # NULL => g = h
    BY <1>4, <1>6, <1>8
  <2> QED BY <1>6, <2>1, <2>3, <2>4
<1>11. Accounts(N, M)'
  BY <1>10, AccountsNext
<1>12. Memory'
  BY <1>2, <1>5, <1>11 DEF Memory
<1> QED BY <1>2, <1>4, <1>12

\* A field of the process that gives its block back, if it has one.
LEMMA FieldLoses ==
  ASSUME Memory, process \in ProcessTypes, tables \in Tables, drops \in 0 .. MaxDrops,
         pc # "pml4", pc' # "pml4", ~ Destroying, ~ Destroying',
         NEW field \in FieldNames,
         IF process[field] # NULL
           THEN free_pages(process[field]) /\ process' = [process EXCEPT ![field] = NULL]
           ELSE UNCHANGED <<storeVars, tables, process>>,
         UNCHANGED <<g_pml4, doomed>>
  PROVE  /\ Memory'
         /\ process' \in ProcessTypes /\ tables' \in Tables
         /\ drops' \in 0 .. MaxDrops /\ wrong_frees' = wrong_frees
         /\ process'[field] = NULL
         /\ \A g \in FieldNames : g # field => process'[g] = process[g]
         /\ Root' = Root
         /\ process'.image_base = process.image_base
         /\ process'.image_pages = process.image_pages
         /\ tables'[g_pml4] = tables[g_pml4]
<1>1. PICK N, lev, M, mlev : KernelTree(N, lev) /\ UserTree(M, mlev) /\ Accounts(N, M)
  BY DEF Memory
<1>2. g_pml4 \in N
  BY <1>1 DEF KernelTree, IsTree
<1>3. /\ held = Blocks(N) \cup Blocks(M) \cup Fields
      /\ N \cap M = {}
      /\ Fields \cap Blocks(N \cup M) = {}
      /\ \A g, h \in FieldNames : process[g] = process[h] /\ process[g] # NULL => g = h
  <2>1. Accounts(N, M)
    BY <1>1
  <2> QED BY <2>1, AccountsSay
<1>4. Blocks(N \cup M) = Blocks(N) \cup Blocks(M) /\ \A t \in N \cup M : Block(t, 1) \in Blocks(N \cup M)
  BY DEF Blocks
<1>5. CASE process[field] = NULL
  <2>1. UNCHANGED <<free, held, drops, wrong_frees, tables, process>> /\ Root' = Root
    BY <1>5 DEF storeVars, Root
  <2>2. Memory'
    BY <2>1, SameMemory
  <2> QED BY <1>5, <2>1, <2>2
<1>6. CASE process[field] # NULL
  <2> DEFINE b == process[field]
  <2>1. free_pages(b) /\ process' = [process EXCEPT ![field] = NULL] /\ StoreOK
    BY <1>6 DEF Memory
  <2>2. b \in Fields /\ b \in held /\ b \notin Blocks(N \cup M) /\ b # NULL
    BY <1>3, <1>6, FieldNamed
  <2> HIDE DEF b
  <2>3. /\ StoreOK' /\ held' = held \ {b} /\ drops' \in 0 .. MaxDrops
        /\ wrong_frees' = wrong_frees /\ tables' \in Tables
        /\ \A p \in AllPages : p \notin RunPages(b) => tables'[p] = tables[p]
    BY <2>1, <2>2, FreeFacts
  <2>4. NULL \in Run0
    BY DEF NULL, Block, Run0
  <2>5. /\ process' \in ProcessTypes /\ process'[field] = NULL
        /\ \A g \in FieldNames : g # field => process'[g] = process[g]
        /\ Root' = Root /\ process'.image_base = process.image_base
        /\ process'.image_pages = process.image_pages
    BY <2>1, <2>4, FieldFacts
  <2>6. \A t \in N \cup M : tables'[t] = tables[t]
    <3> DEFINE K == N \cup M
    <3>1. \A t \in K : Block(t, 1) \in held /\ b # Block(t, 1)
      BY <1>3, <1>4, <2>2
    <3> HIDE DEF K
    <3>2. K \subseteq AllPages /\ \A t \in K : t \notin RunPages(b)
      BY <2>1, <2>2, <3>1, TablesApart
    <3>3. \A t \in K : tables'[t] = tables[t]
      BY <2>3, <3>2
    <3> QED BY <3>3 DEF K
  <2>7. KernelTree(N, lev)' /\ UserTree(M, mlev)'
    BY <1>1, <2>5, <2>6, TreesKept
  <2>8. Fields' = Fields \ {b}
    BY <1>3, <2>2, <2>5, FieldNamed DEF b
  <2>9. /\ held' = Blocks(N) \cup Blocks(M) \cup Fields'
        /\ N \cap M = {}
        /\ Fields' \cap Blocks(N \cup M) = {}
        /\ \A g, h \in FieldNames : process'[g] = process'[h] /\ process'[g] # NULL => g = h
    <3>1. held' = Blocks(N) \cup Blocks(M) \cup Fields' /\ Fields' \cap Blocks(N \cup M) = {}
      BY <1>3, <1>4, <2>2, <2>3, <2>8
    <3>2. \A g, h \in FieldNames : process'[g] = process'[h] /\ process'[g] # NULL => g = h
      BY <1>3, <2>5
    <3> QED BY <1>3, <3>1, <3>2
  <2>10. Accounts(N, M)'
    BY <2>9, AccountsNext
  <2>11. Memory'
    BY <2>3, <2>7, <2>10 DEF Memory
  <2> QED BY <1>2, <2>3, <2>5, <2>6, <2>11
<1> QED BY <1>5, <1>6

\* The loader gets a block.
LEMMA AllocForKeeps ==
  ASSUME Inv, AllocFileBuffer \/ AllocImage \/ AllocStack
  PROVE  Inv'
<1>1. PICK at, field, n, next, fail :
        /\ AllocFor(at, field, n, next, fail)
        /\ \/ at = "file_buffer" /\ field = "file_buffer" /\ n = FilePages /\ next = "load"
              /\ fail = "release_image"
           \/ at = "image_backing" /\ field = "image_backing" /\ n = process.image_pages
              /\ next = "stack_backing" /\ fail = "fail_stack"
           \/ at = "stack_backing" /\ field = "stack_backing" /\ n = StackPages
              /\ next = "map_image" /\ fail = "fail_stack"
  BY DEF AllocFileBuffer, AllocImage, AllocStack
<1>2. /\ pc = at
      /\ UNCHANGED <<tables, g_pml4, cr3, job, doomed, framebuffer, active, program, saved_root, line>>
      /\ \/ \E b \in Candidates(n) :
              /\ alloc_pages(n, b)
              /\ process' = [process EXCEPT ![field] = b]
              /\ pc' = next
         \/ pc' = fail /\ UNCHANGED <<storeVars, process>>
  BY <1>1 DEF AllocFor
<1>3. CASE pc' = fail /\ UNCHANGED <<storeVars, process>>
  BY <1>1, <1>2, <1>3, LoaderFails DEF storeVars
<1>4. CASE \E b \in Candidates(n) :
              /\ alloc_pages(n, b)
              /\ process' = [process EXCEPT ![field] = b]
              /\ pc' = next
  <2>1. PICK b \in Candidates(n) :
              /\ alloc_pages(n, b)
              /\ process' = [process EXCEPT ![field] = b]
              /\ pc' = next
    BY <1>4
  <2>2. /\ Memory /\ process \in ProcessTypes /\ n \in Nat /\ field \in FieldNames
    BY <1>1, LayoutAssumption DEF Inv, Types, ProcessTypes, FieldNames
  <2>3. Booted /\ Booted' /\ ~ Destroying /\ ~ Destroying' /\ pc # "pml4" /\ pc' # "pml4"
    BY <1>1, <1>2, <2>1 DEF Booted, BootPhases, Destroying
  <2>4. process[field] = NULL
    BY <1>1, <1>2 DEF Inv, Control, NoBacking, BootPhases
  <2>5. /\ Memory' /\ process' \in ProcessTypes /\ Root' = Root
        /\ \A g \in FieldNames : g # field => process'[g] = process[g]
        /\ process'.image_base = process.image_base
        /\ process'.image_pages = process.image_pages
        /\ UNCHANGED <<drops, wrong_frees>>
    BY <1>2, <2>1, <2>2, <2>3, <2>4, FieldGains
  <2>6. /\ field # "image_backing" => process'.image_backing = process.image_backing
        /\ field # "stack_backing" => process'.stack_backing = process.stack_backing
        /\ field # "file_buffer" => process'.file_buffer = process.file_buffer
    BY <2>5 DEF FieldNames
  <2>7. Types'
    BY <1>1, <1>2, <2>1, <2>5 DEF Inv, Types, LoadPhases
  <2>8. Control'
    BY <1>1, <1>2, <2>1, <2>3, <2>5, <2>6 DEF Inv, Control, NoBacking, NULL, Block, BootPhases
  <2>9. Active'
    BY <1>1, <1>2, <2>1, <2>5 DEF Inv, Active, InSpace, BootPhases
  <2>10. UserJobs'
    BY <1>1, <1>2, <2>1, <2>5 DEF Inv, UserJobs, Placed, InSpace, LoadPhases
  <2>11. BootJob'
    BY <1>2, <2>3, SameKernel DEF Inv, Types
  <2> QED BY <2>5, <2>7, <2>8, <2>9, <2>10, <2>11 DEF Inv
<1> QED BY <1>2, <1>3, <1>4

\* The way out gives a block back.
LEMMA FreeFieldKeeps ==
  ASSUME Inv, FreesField
  PROVE  Inv'
<1>1. PICK at, field, next :
        /\ FreeField(at, field, next)
        /\ \/ at = "fail_stack" /\ field = "stack_backing" /\ next = "fail_image"
           \/ at = "fail_image" /\ field = "image_backing" /\ next = "fail_root"
           \/ at = "release_image" /\ field = "image_backing" /\ next = "release_stack"
           \/ at = "release_stack" /\ field = "stack_backing" /\ next = "release_file"
           \/ at = "release_file" /\ field = "file_buffer" /\ next = "release_root"
  BY DEF FreesField
<1>2. /\ pc = at /\ pc' = next
      /\ UNCHANGED <<g_pml4, cr3, job, doomed, framebuffer, active, program, saved_root, line>>
      /\ IF process[field] # NULL
           THEN free_pages(process[field]) /\ process' = [process EXCEPT ![field] = NULL]
           ELSE UNCHANGED <<storeVars, tables, process>>
  BY <1>1 DEF FreeField
<1>3. /\ Memory /\ process \in ProcessTypes /\ tables \in Tables /\ drops \in 0 .. MaxDrops
      /\ field \in FieldNames
  BY <1>1 DEF Inv, Types, FieldNames
<1>4. Booted /\ Booted' /\ ~ Destroying /\ ~ Destroying' /\ pc # "pml4" /\ pc' # "pml4"
  BY <1>1, <1>2 DEF Booted, BootPhases, Destroying
<1>5. /\ Memory' /\ process' \in ProcessTypes /\ tables' \in Tables
      /\ drops' \in 0 .. MaxDrops /\ wrong_frees' = wrong_frees
      /\ process'[field] = NULL /\ Root' = Root
      /\ \A g \in FieldNames : g # field => process'[g] = process[g]
      /\ process'.image_base = process.image_base
      /\ process'.image_pages = process.image_pages
      /\ tables'[g_pml4] = tables[g_pml4]
  BY <1>2, <1>3, <1>4, FieldLoses
<1>6. /\ field # "image_backing" => process'.image_backing = process.image_backing
      /\ field # "stack_backing" => process'.stack_backing = process.stack_backing
      /\ field # "file_buffer" => process'.file_buffer = process.file_buffer
  BY <1>5 DEF FieldNames
<1>7. Types'
  BY <1>1, <1>2, <1>5 DEF Inv, Types, LeavePhases
<1>8. Control'
  BY <1>1, <1>2, <1>4, <1>5, <1>6 DEF Inv, Control, NoBacking, NULL, Block, BootPhases
<1>9. Active'
  BY <1>1, <1>2, <1>5 DEF Inv, Active, InSpace, BootPhases
<1>10. UserJobs'
  BY <1>1, <1>2, <1>5 DEF Inv, UserJobs, Placed, InSpace, LoadPhases
<1>11. BootJob'
  BY <1>2, <1>4, <1>5, SameKernel DEF Inv, Types
<1> QED BY <1>5, <1>7, <1>8, <1>9, <1>10, <1>11 DEF Inv

-----------------------------------------------------------------------------
(* The address space of a program. *)

\* The kernel's tree stays when its tables do.
LEMMA KernelKept ==
  ASSUME NEW N, NEW lev, KernelTree(N, lev), pc # "pml4", pc' # "pml4",
         g_pml4' = g_pml4, \A t \in N : tables'[t] = tables[t]
  PROVE  KernelTree(N, lev)' /\ tables'[g_pml4] = tables[g_pml4] /\ g_pml4 \in N
<1>1. IsTree(tables, g_pml4, Slots, N, lev) /\ g_pml4 \in N
      /\ \A i \in Slots : ~ tables[g_pml4][i].u
  BY DEF KernelTree, IsTree
<1>2. IsTree(tables', g_pml4, Slots, N, lev)
  <2>1. \A t \in N, i \in Slots :
          /\ Edge(tables', g_pml4, Slots, t, i) <=> Edge(tables, g_pml4, Slots, t, i)
          /\ Edge(tables, g_pml4, Slots, t, i) => tables'[t][i].page = tables[t][i].page
    BY DEF Edge
  <2> QED BY <1>1, <2>1, TreeKept
<1> QED BY <1>1, <1>2 DEF KernelTree

\* paging_create_address_space.
LEMMA CreateRootKeeps ==
  ASSUME Inv, CreateRoot
  PROVE  Inv'
<1>1. /\ pc = "create_root"
      /\ UNCHANGED <<g_pml4, cr3, job, doomed, framebuffer, active, program, saved_root, line>>
      /\ \/ \E b \in Candidates(1) :
              /\ alloc_pages(1, b)
              /\ tables' = [tables EXCEPT ![b.base] = tables[g_pml4]]
              /\ process' = [process EXCEPT !.page_table_root = b.base]
              /\ pc' = "image_backing"
         \/ pc' = "release_image" /\ UNCHANGED <<storeVars, tables, process>>
  BY DEF CreateRoot, paging_create_address_space
<1>2. CASE pc' = "release_image" /\ UNCHANGED <<storeVars, tables, process>>
  BY <1>1, <1>2, LoaderFails DEF storeVars
<1>3. CASE \E b \in Candidates(1) :
              /\ alloc_pages(1, b)
              /\ tables' = [tables EXCEPT ![b.base] = tables[g_pml4]]
              /\ process' = [process EXCEPT !.page_table_root = b.base]
              /\ pc' = "image_backing"
  <2>1. PICK b \in Candidates(1) :
              /\ alloc_pages(1, b)
              /\ tables' = [tables EXCEPT ![b.base] = tables[g_pml4]]
              /\ process' = [process EXCEPT !.page_table_root = b.base]
              /\ pc' = "image_backing"
    BY <1>3
  <2>2. /\ StoreOK /\ tables \in Tables /\ process \in ProcessTypes /\ Root = 0
        /\ NoBacking /\ doomed = {}
    BY <1>1 DEF Inv, Memory, Types, Control, Destroying
  <2>3. PICK N, lev, M, mlev : KernelTree(N, lev) /\ UserTree(M, mlev) /\ Accounts(N, M)
    BY DEF Inv, Memory
  <2>4. M = {} /\ g_pml4 \in N /\ Blocks(M) = {}
    BY <1>1, <2>2, <2>3 DEF UserTree, KernelTree, IsTree, Blocks
  <2>5. /\ held = Blocks(N) \cup Fields /\ Fields \cap Blocks(N) = {}
        /\ \A g, h \in FieldNames : process[g] = process[h] /\ process[g] # NULL => g = h
        /\ \A t \in N : Block(t, 1) \in held
    <3>1. Accounts(N, M)
      BY <2>3
    <3>2. /\ held = Blocks(N) \cup Blocks(M) \cup Fields
          /\ Fields \cap Blocks(N \cup M) = {}
          /\ \A g, h \in FieldNames : process[g] = process[h] /\ process[g] # NULL => g = h
      BY <3>1, AccountsSay
    <3>3. N \cup M = N /\ \A t \in N : Block(t, 1) \in Blocks(N)
      BY <2>4 DEF Blocks
    <3> QED BY <2>4, <3>2, <3>3
  <2>6. /\ StoreOK' /\ held' = held \cup {b} /\ b \notin held /\ b = Block(b.base, 1)
        /\ b.base \in free /\ UNCHANGED <<drops, wrong_frees>>
    BY <2>1, <2>2, AllocFacts
  <2>7. N \subseteq AllPages /\ b.base \notin N
    BY <2>1, <2>2, <2>5, TablesApart
  <2>8. b.base \in AllPages /\ b.base \in Nat /\ b.base # 0
    BY <2>2, <2>6, PageFacts DEF StoreOK
  <2>9. /\ process' \in ProcessTypes /\ Root' = b.base
        /\ \A g \in FieldNames : process'[g] = process[g]
        /\ process'.image_base = process.image_base
        /\ process'.image_pages = process.image_pages
    BY <2>1, <2>2, <2>8 DEF ProcessTypes, Root, FieldNames
  <2>10. /\ tables' \in Tables /\ tables'[b.base] = tables[g_pml4]
         /\ \A p \in AllPages : p # b.base => tables'[p] = tables[p]
    BY <2>1, <2>2, <2>4, <2>7, <2>8 DEF Tables
  <2>11. \A t \in N : tables'[t] = tables[t]
    BY <2>7, <2>10
  <2>12. pc # "pml4" /\ pc' # "pml4" /\ g_pml4' = g_pml4
    BY <1>1, <2>1
  <2>13. KernelTree(N, lev)' /\ tables'[g_pml4] = tables[g_pml4]
    BY <2>3, <2>11, <2>12, KernelKept
  <2> DEFINE M2 == {b.base}
             l2 == [t \in M2 |-> 4]
             W == OwnSlots(Root)'
  <2>14. W = {}
    BY <1>1, <2>9, <2>10, <2>13 DEF OwnSlots
  <2>15. M2 = {Root'} /\ l2 \in [M2 -> 1 .. 4] /\ l2[Root'] = 4
    BY <2>9
  <2> HIDE DEF M2, l2, W
  <2>16. IsTree(tables', Root', W, M2, l2)
    BY <2>14, <2>15 DEF IsTree, Edge
  <2>17. RootShared'
    BY <1>1, <2>9, <2>10, <2>13 DEF RootShared
  <2>18. ~ Destroying' /\ Root' # 0 /\ ~ Destroying
    BY <1>1, <2>1, <2>8, <2>9 DEF Destroying
  <2>19. UserTree(M2, l2)'
    BY <2>16, <2>17, <2>18 DEF UserTree, W
  <2>20. Fields' = Fields
    BY <2>9, FieldNamed
  <2>21. Blocks(M2) = {b} /\ Blocks(N \cup M2) = Blocks(N) \cup {b}
    BY <2>6 DEF Blocks, M2
  <2>22. Accounts(N, M2)'
    <3>1. /\ held' = Blocks(N) \cup Blocks(M2) \cup Fields'
          /\ N \cap M2 = {}
          /\ Fields' \cap Blocks(N \cup M2) = {}
          /\ \A g, h \in FieldNames : process'[g] = process'[h] /\ process'[g] # NULL => g = h
      <4>1. held' = Blocks(N) \cup Blocks(M2) \cup Fields'
        BY <2>5, <2>6, <2>20, <2>21
      <4>2. N \cap M2 = {}
        BY <2>7 DEF M2
      <4>3. Fields' \cap Blocks(N \cup M2) = {}
        BY <2>5, <2>6, <2>20, <2>21
      <4>4. \A g, h \in FieldNames : process'[g] = process'[h] /\ process'[g] # NULL => g = h
        BY <2>5, <2>9
      <4> QED BY <4>1, <4>2, <4>3, <4>4
    <3> QED BY <3>1, AccountsNext
  <2>23. Memory'
    BY <2>6, <2>13, <2>19, <2>22 DEF Memory
  <2>24. /\ process'.image_backing = process.image_backing
         /\ process'.stack_backing = process.stack_backing
    BY <2>9 DEF FieldNames
  <2>25. Booted /\ Booted'
    BY <1>1, <2>1 DEF Booted, BootPhases
  <2>26. Types'
    BY <1>1, <2>1, <2>6, <2>9, <2>10 DEF Inv, Types, LoadPhases
  <2>27. Control'
    BY <1>1, <2>1, <2>2, <2>18, <2>24 DEF Inv, Control, NoBacking, NULL, Block, BootPhases
  <2>28. Active'
    BY <1>1, <2>1 DEF Inv, Active, InSpace, BootPhases
  <2>29. UserJobs'
    BY <1>1, <2>1, <2>9 DEF Inv, UserJobs, Placed, InSpace, LoadPhases
  <2>30. BootJob'
    BY <1>1, <2>13, <2>25, SameKernel DEF Inv, Types
  <2> QED BY <2>23, <2>26, <2>27, <2>28, <2>29, <2>30 DEF Inv
<1> QED BY <1>1, <1>2, <1>3

\* What the invariant says while there is an address space.
LEMMA SpaceFacts ==
  ASSUME Inv, pc # "pml4", ~ Destroying, Root # 0,
         NEW N, NEW lev, NEW M, NEW mlev, Owned(N, lev, M, mlev)
  PROVE  /\ StoreOK /\ tables \in Tables
         /\ IsTree(tables, g_pml4, Slots, N, lev)
         /\ \A i \in Slots : ~ tables[g_pml4][i].u
         /\ RootShared
         /\ IsTree(tables, Root, OwnSlots(Root), M, mlev)
         /\ N \subseteq AllPages /\ M \subseteq AllPages /\ N \cap M = {}
         /\ g_pml4 \in N /\ Root \in M
         /\ held = Blocks(N) \cup Blocks(M) \cup Fields
         /\ Fields \cap Blocks(N \cup M) = {}
         /\ \A g, h \in FieldNames : process[g] = process[h] /\ process[g] # NULL => g = h
         /\ \A t \in N \cup M : Block(t, 1) \in held
<1>1. KernelTree(N, lev) /\ UserTree(M, mlev) /\ Accounts(N, M) /\ StoreOK /\ tables \in Tables
  BY DEF Owned, Inv, Memory, Types
<1>2. /\ IsTree(tables, g_pml4, Slots, N, lev)
      /\ \A i \in Slots : ~ tables[g_pml4][i].u
  BY <1>1 DEF KernelTree
<1>3. RootShared /\ IsTree(tables, Root, OwnSlots(Root), M, mlev)
  BY <1>1 DEF UserTree
<1>4. /\ held = Blocks(N) \cup Blocks(M) \cup Fields
      /\ N \cap M = {}
      /\ Fields \cap Blocks(N \cup M) = {}
      /\ \A g, h \in FieldNames : process[g] = process[h] /\ process[g] # NULL => g = h
  BY <1>1, AccountsSay
<1>5. \A t \in N \cup M : Block(t, 1) \in held
  BY <1>4 DEF Blocks
<1>6. N \subseteq AllPages /\ M \subseteq AllPages
  BY <1>1, <1>5, TablesApart
<1>7. g_pml4 \in N /\ Root \in M
  BY <1>2, <1>3 DEF IsTree
<1> QED BY <1>1, <1>2, <1>3, <1>4, <1>5, <1>6, <1>7

\* The walk for a page of the program stays in the tables of its own.
LEMMA UserWalk ==
  ASSUME Inv, pc # "pml4", ~ Destroying, Root # 0,
         NEW N, NEW lev, NEW M, NEW mlev, Owned(N, lev, M, mlev),
         NEW v \in Nat, UserPath(Root, v)
  PROVE  /\ Stop(Root, v).table \in M
         /\ Stop(Root, v).index \in Slots
         /\ Stop(Root, v).level \in 1 .. 4
         /\ mlev[Stop(Root, v).table] = Stop(Root, v).level
         /\ ~ Edge(tables, Root, OwnSlots(Root), Stop(Root, v).table, Stop(Root, v).index)
         /\ Stop(Root, v).level > 1 =>
              tables[Stop(Root, v).table][Stop(Root, v).index].kind # "table"
         /\ Stop(Root, v).level = 4 <=> Stop(Root, v).table = Root
         /\ Stop(Root, v).level < 4 => UserSlot(v)
<1>1. /\ IsTree(tables, Root, OwnSlots(Root), M, mlev)
      /\ \A i \in Slots : ~ tables[g_pml4][i].u
  BY SpaceFacts
<1>2. IndexAt(v, 4) \in Slots
  BY IndexFacts
<1>3. Stop(Root, v).level < 4 <=> IsTable(Root, v, 4)
  BY DEF Stop
<1>4. Stop(Root, v).level < 4 => tables[Root][IndexAt(v, 4)].u
  BY DEF UserPath
<1>5. IsTable(Root, v, 4) => UserSlot(v)
  BY <1>3, <1>4 DEF UserSlot, IsTable
<1>6. IsTable(Root, v, 4) => IndexAt(v, 4) \in OwnSlots(Root)
  BY <1>1, <1>2, <1>3, <1>4 DEF OwnSlots, IsTable
<1> DEFINE W == OwnSlots(Root)
<1> HIDE DEF W
<1>7. IsTree(tables, Root, W, M, mlev) /\ (IsTable(Root, v, 4) => IndexAt(v, 4) \in W)
  BY <1>1, <1>6 DEF W
<1>8. /\ Stop(Root, v).table \in M
      /\ Stop(Root, v).index \in Slots
      /\ Stop(Root, v).level \in 1 .. 4
      /\ mlev[Stop(Root, v).table] = Stop(Root, v).level
      /\ ~ Edge(tables, Root, W, Stop(Root, v).table, Stop(Root, v).index)
      /\ Stop(Root, v).level > 1 => StopEntry(Root, v).kind # "table"
      /\ Stop(Root, v).level = 4 <=> Stop(Root, v).table = Root
  BY <1>7, WalkStops
<1> QED BY <1>3, <1>5, <1>8 DEF W, StopEntry

\* What a step that maps pages of a program has to show, besides the trees.
LEMMA UserMapStep ==
  ASSUME Inv, pc \in {"mapping_image", "mapping_stack"}, pc' = pc,
         UNCHANGED <<g_pml4, cr3, doomed, framebuffer, drops, wrong_frees>>,
         UNCHANGED <<process, active, program, saved_root, line>>,
         tables' \in Tables, job' \in JobTypes, job'.root = Root, job'.u, job'.end = job.end,
         Memory', tables'[g_pml4] = tables[g_pml4],
         \A v \in Nat : UserSlot(v) => UserSlot(v)',
         job'.virt = job.virt \/ (job'.virt = job.virt + 1 /\ UserSlot(job.virt))
  PROVE  Inv'
<1>1. Booted /\ Booted' /\ ~ Destroying /\ ~ Destroying' /\ Root' = Root
  BY DEF Booted, BootPhases, Destroying, Root
<1>2. Types'
  BY DEF Inv, Types
<1>3. Control'
  BY <1>1 DEF Inv, Control, NoBacking, NULL, Block, BootPhases
<1>4. Active'
  BY DEF Inv, Active, InSpace, BootPhases
<1>5. BootJob'
  BY <1>1, SameKernel DEF Inv, Types
<1>6. /\ job.virt \in Nat /\ PageOf(process.image_base) \in Nat /\ PageOf(StackBase) \in Nat
      /\ process.image_pages \in Nat
  <2>1. job.virt \in Nat /\ process.image_base \in Nat /\ StackBase \in Nat
        /\ process.image_pages \in Nat
    BY LayoutAssumption DEF Inv, Types, JobTypes, ProcessTypes
  <2> QED BY <2>1, PageArithmetic
<1>7. ASSUME NEW first \in Nat, \A v \in first .. (job.virt - 1) : UserSlot(v)
      PROVE  \A v \in first .. (job'.virt - 1) : UserSlot(v)'
  <2> SUFFICES ASSUME NEW v \in first .. (job'.virt - 1) PROVE UserSlot(v)'
    OBVIOUS
  <2>1. CASE job'.virt = job.virt
    <3>1. v \in first .. (job.virt - 1) /\ v \in Nat
      BY <1>6, <2>1
    <3> QED BY <1>7, <3>1
  <2>2. CASE job'.virt = job.virt + 1 /\ UserSlot(job.virt)
    <3>1. v \in Nat /\ (v \in first .. (job.virt - 1) \/ v = job.virt)
      BY <1>6, <2>2
    <3> QED BY <1>7, <2>2, <3>1
  <2> QED BY <2>1, <2>2
<1>8. ImagePages \subseteq Nat /\ ImagePages' = ImagePages
  BY <1>6 DEF ImagePages
<1>9. /\ pc = "mapping_image" => \A v \in PageOf(process.image_base) .. (job'.virt - 1) : UserSlot(v)'
      /\ pc = "mapping_stack" => \A v \in PageOf(StackBase) .. (job'.virt - 1) : UserSlot(v)'
      /\ pc = "mapping_stack" => \A v \in ImagePages : UserSlot(v)'
  <2>1. pc = "mapping_image" => \A v \in PageOf(process.image_base) .. (job.virt - 1) : UserSlot(v)
    BY DEF Inv, UserJobs
  <2>2. /\ pc = "mapping_stack" => \A v \in PageOf(StackBase) .. (job.virt - 1) : UserSlot(v)
        /\ pc = "mapping_stack" => \A v \in ImagePages : UserSlot(v)
    BY DEF Inv, UserJobs
  <2>3. pc = "mapping_stack" => \A v \in ImagePages : UserSlot(v)'
    BY <1>8, <2>2
  <2> QED BY <1>6, <1>7, <2>1, <2>2, <2>3
<1>10. /\ pc = "mapping_image" =>
            (\A v \in PageOf(process.image_base) .. (job.virt - 1) : UserSlot(v))'
       /\ pc = "mapping_stack" => (\A v \in PageOf(StackBase) .. (job.virt - 1) : UserSlot(v))'
       /\ pc = "mapping_stack" => (\A v \in ImagePages : UserSlot(v))'
  BY <1>8, <1>9
<1>11. UserJobs'
  <2>1. /\ \E k \in Nat : process.image_base = k * PageSize
        /\ program \in Programs /\ LayoutAccepted(program)
        /\ process.image_base = ImageFirst(program) * PageSize
        /\ process.image_pages = ImageEnd(program) - ImageFirst(program)
        /\ pc = "mapping_image" => job.end = PageOf(process.image_base) + process.image_pages
        /\ pc = "mapping_stack" => job.end = PageOf(StackBase) + StackPages
    BY DEF Inv, UserJobs, LoadPhases, Placed
  <2>2. CASE pc = "mapping_image"
    BY <1>1, <1>10, <2>1, <2>2 DEF UserJobs, LoadPhases, Placed, InSpace
  <2>3. CASE pc = "mapping_stack"
    BY <1>1, <1>10, <2>1, <2>3 DEF UserJobs, LoadPhases, Placed, InSpace
  <2> QED BY <2>2, <2>3
<1> QED BY <1>2, <1>3, <1>4, <1>5, <1>11 DEF Inv

\* map_page_4k writes the entry, for a program.
LEMMA UserMapPage ==
  ASSUME Inv, NEW phase \in {"mapping_image", "mapping_stack"},
         MapPage(phase), UNCHANGED processVars
  PROVE  Inv'
<1> DEFINE e == PageEntry(job.phys, job.w, job.x, job.u)
           s == Stop(Root, job.virt)
<1>1. /\ pc = phase /\ pc' = pc /\ ~ MapRefused
      /\ Stop(job.root, job.virt).level = 1
      /\ UNCHANGED <<storeVars, g_pml4, cr3, doomed, framebuffer>>
      /\ tables' = WithEntry(tables, Stop(job.root, job.virt).table,
                             Stop(job.root, job.virt).index, e)
      /\ job' = [job EXCEPT !.virt = @ + 1, !.phys = @ + 1]
  BY DEF MapPage, WithEntry
<1>2. /\ job.root = Root /\ job.u /\ job.virt \in Nat /\ job.phys \in Nat
      /\ job.w \in BOOLEAN /\ job.x \in BOOLEAN /\ job.u \in BOOLEAN
      /\ job \in JobTypes /\ Root # 0 /\ pc # "pml4" /\ ~ Destroying /\ ~ Destroying'
  BY <1>1 DEF Inv, UserJobs, Types, JobTypes, Control, Destroying
<1>3. e \in Entry /\ e.kind # "table"
  BY <1>2, NewRows
<1>4. /\ job' \in JobTypes /\ job'.virt = job.virt + 1 /\ job'.root = job.root
      /\ job'.u = job.u /\ job'.end = job.end
  BY <1>1, <1>2, JobMoves
<1>5. UNCHANGED <<free, held, drops, wrong_frees>> /\ Root' = Root
      /\ UNCHANGED <<process, active, program, saved_root, line>>
  BY <1>1 DEF storeVars, processVars, Root
<1> HIDE DEF e
<1>6. PICK N, lev, M, mlev : Owned(N, lev, M, mlev)
  BY DEF Inv, Memory, Owned
<1>7. UserPath(Root, job.virt)
  BY <1>1, <1>2 DEF MapRefused
<1>8. /\ s.table \in M /\ s.index \in Slots /\ s.level = 1 /\ s.table # Root
      /\ ~ Edge(tables, Root, OwnSlots(Root), s.table, s.index)
      /\ UserSlot(job.virt)
      /\ tables' = WithEntry(tables, s.table, s.index, e)
  <2>1. s.level = 1 /\ tables' = WithEntry(tables, s.table, s.index, e)
    BY <1>1, <1>2
  <2> QED BY <1>2, <1>6, <1>7, <2>1, UserWalk
<1>9. /\ StoreOK /\ tables \in Tables /\ RootShared
      /\ IsTree(tables, Root, OwnSlots(Root), M, mlev)
      /\ N \subseteq AllPages /\ M \subseteq AllPages /\ N \cap M = {}
      /\ g_pml4 \in N /\ Root \in M
  <2> HIDE DEF s
  <2>1. Inv /\ pc # "pml4" /\ ~ Destroying /\ Root # 0 /\ Owned(N, lev, M, mlev)
    BY <1>2, <1>6
  <2> QED BY <2>1, SpaceFacts
<1> HIDE DEF s
<1>10. /\ tables' \in Tables
       /\ tables'[s.table][s.index] = e
       /\ \A j \in Slots : j # s.index => tables'[s.table][j] = tables[s.table][j]
       /\ \A p \in AllPages : p # s.table => tables'[p] = tables[p]
  <2> DEFINE tb == WithEntry(tables, s.table, s.index, e)
  <2>1. tables' = tb
    BY <1>8
  <2>2. /\ tb \in Tables
        /\ tb[s.table][s.index] = e
        /\ \A j \in Slots : j # s.index => tb[s.table][j] = tables[s.table][j]
        /\ \A p \in AllPages : p # s.table => tb[p] = tables[p]
    <3>1. s.table \in AllPages
      BY <1>8, <1>9
    <3> QED BY <1>3, <1>8, <1>9, <3>1, EntrySet
  <2> HIDE DEF tb
  <2> QED BY <2>1, <2>2
<1>11. (\A t \in N : tables'[t] = tables[t]) /\ tables'[Root] = tables[Root]
  BY <1>8, <1>9, <1>10
<1>12. KernelTree(N, lev)' /\ tables'[g_pml4] = tables[g_pml4]
  BY <1>1, <1>2, <1>6, <1>11, KernelKept DEF Owned
<1>13. OwnSlots(Root)' = OwnSlots(Root) /\ RootShared'
  BY <1>1, <1>5, <1>9, <1>11, <1>12 DEF OwnSlots, RootShared
<1> DEFINE W == OwnSlots(Root)
<1> HIDE DEF W
<1>14. IsTree(tables', Root, W, M, mlev)
  <2>1. IsTree(tables, Root, W, M, mlev) /\ ~ Edge(tables, Root, W, s.table, s.index)
    BY <1>8, <1>9 DEF W
  <2>2. ~ Edge(tables', Root, W, s.table, s.index)
    BY <1>3, <1>10 DEF Edge
  <2>3. \A t \in M, i \in Slots :
          /\ Edge(tables', Root, W, t, i) <=> Edge(tables, Root, W, t, i)
          /\ Edge(tables, Root, W, t, i) => tables'[t][i].page = tables[t][i].page
    <3> SUFFICES ASSUME NEW t \in M, NEW i \in Slots
                 PROVE  /\ Edge(tables', Root, W, t, i) <=> Edge(tables, Root, W, t, i)
                        /\ Edge(tables, Root, W, t, i) => tables'[t][i].page = tables[t][i].page
      OBVIOUS
    <3>1. CASE t = s.table /\ i = s.index
      BY <2>1, <2>2, <3>1
    <3>2. CASE ~ (t = s.table /\ i = s.index)
      <4>1. tables'[t][i] = tables[t][i]
        BY <1>9, <1>10, <3>2
      <4> QED BY <4>1 DEF Edge
    <3> QED BY <3>1, <3>2
  <2> QED BY <2>1, <2>3, TreeKept
<1>15. UserTree(M, mlev)'
  <2>1. IsTree(tables, Root, OwnSlots(Root), M, mlev)'
    BY <1>5, <1>13, <1>14 DEF W
  <2> QED BY <1>2, <1>5, <1>13, <2>1 DEF UserTree
<1>16. Accounts(N, M)'
  BY <1>5, <1>6 DEF Owned, Accounts, Fields, NULL, Block, Blocks
<1>17. StoreOK'
  BY <1>5, <1>9 DEF StoreOK, RunPages, Store!RunPages
<1>18. Memory'
  BY <1>12, <1>15, <1>16, <1>17 DEF Memory
<1>19. \A v \in Nat : UserSlot(v) => UserSlot(v)'
  BY <1>5, <1>11 DEF UserSlot
<1> QED BY <1>1, <1>2, <1>4, <1>5, <1>8, <1>10, <1>12, <1>18, <1>19, UserMapStep

\* map_page_4k gets a table on the way, for a program.
LEMMA UserMapTable ==
  ASSUME Inv, NEW phase \in {"mapping_image", "mapping_stack"},
         MapTable(phase, "fail_stack"), UNCHANGED processVars
  PROVE  Inv'
<1> DEFINE s == Stop(Root, job.virt)
           e == tables[s.table][s.index]
<1>1. /\ pc = phase /\ job.root = Root /\ job.u /\ job.u \in BOOLEAN /\ job.virt \in Nat
      /\ job \in JobTypes /\ Root # 0 /\ pc # "pml4" /\ ~ Destroying
  BY DEF MapTable, Inv, UserJobs, Types, JobTypes, Control, Destroying
<1>2. /\ ~ MapRefused /\ s.level > 1
      /\ UNCHANGED <<g_pml4, cr3, job, doomed, framebuffer>>
      /\ \/ pc' = "fail_stack" /\ UNCHANGED <<storeVars, tables>>
         \/ /\ pc' = pc
            /\ \E b \in Candidates(1) :
                 /\ alloc_pages(1, b)
                 /\ tables' = WithTable(tables, b.base, NewTable(e), s.table, s.index,
                                        TableEntry(b.base, NewTableUser(e)))
  BY <1>1 DEF MapTable, WithTable
<1>3. UNCHANGED <<process, active, program, saved_root, line>> /\ Root' = Root
  BY DEF processVars, Root
<1>4. CASE pc' = "fail_stack" /\ UNCHANGED <<storeVars, tables>>
  BY <1>1, <1>2, <1>3, <1>4, LoaderFails DEF storeVars
<1>5. CASE /\ pc' = pc
           /\ \E b \in Candidates(1) :
                /\ alloc_pages(1, b)
                /\ tables' = WithTable(tables, b.base, NewTable(e), s.table, s.index,
                                       TableEntry(b.base, NewTableUser(e)))
  <2>1. PICK b \in Candidates(1) :
          /\ alloc_pages(1, b)
          /\ tables' = WithTable(tables, b.base, NewTable(e), s.table, s.index,
                                 TableEntry(b.base, NewTableUser(e)))
    BY <1>5
  <2>2. PICK N, lev, M, mlev : Owned(N, lev, M, mlev)
    BY DEF Inv, Memory, Owned
  <2>3. UserPath(Root, job.virt) /\ (s.level >= 3 => e.kind # "page")
    BY <1>1, <1>2 DEF MapRefused, StopEntry
  <2>4. /\ s.table \in M /\ s.index \in Slots /\ s.level \in 1 .. 4
        /\ mlev[s.table] = s.level
        /\ ~ Edge(tables, Root, OwnSlots(Root), s.table, s.index)
        /\ (s.level = 4 <=> s.table = Root)
    BY <1>1, <2>2, <2>3, UserWalk
  <2>5. e.kind # "table"
    BY <1>1, <1>2, <2>2, <2>3, UserWalk
  <2>6. /\ StoreOK /\ tables \in Tables /\ RootShared
        /\ IsTree(tables, Root, OwnSlots(Root), M, mlev)
        /\ N \subseteq AllPages /\ M \subseteq AllPages /\ N \cap M = {}
        /\ g_pml4 \in N /\ Root \in M
        /\ held = Blocks(N) \cup Blocks(M) \cup Fields
        /\ Fields \cap Blocks(N \cup M) = {}
        /\ (\A g, h \in FieldNames : process[g] = process[h] /\ process[g] # NULL => g = h)
        /\ \A t \in N \cup M : Block(t, 1) \in held
    <3> HIDE DEF s, e
    <3>1. Inv /\ pc # "pml4" /\ ~ Destroying /\ Root # 0 /\ Owned(N, lev, M, mlev)
      BY <1>1, <2>2
    <3> QED BY <3>1, SpaceFacts
  <2>7. e \in Entry
    BY <2>4, <2>6 DEF Tables, Rows
  <2>8. NewTableUser(e) \in BOOLEAN /\ (s.level = 4 => NewTableUser(e) = TRUE)
    <3>1. e.u \in BOOLEAN
      BY <2>7 DEF Entry
    <3>2. s.level = 4 => e.kind # "page"
      BY <2>3, <2>4
    <3>3. CASE e.kind = "page"
      BY <3>1, <3>2, <3>3 DEF NewTableUser
    <3>4. CASE e.kind # "page"
      BY <1>1, <3>4 DEF NewTableUser
    <3> QED BY <3>3, <3>4
  <2>9. /\ StoreOK' /\ held' = held \cup {b} /\ b \notin held /\ b = Block(b.base, 1)
        /\ b.base \in free /\ UNCHANGED <<drops, wrong_frees>>
    BY <2>1, <2>6, AllocFacts
  <2>10. b.base \in AllPages /\ b.base \in Nat
    BY <2>6, <2>9, PageFacts DEF StoreOK
  <2>11. b.base \notin N \cup M
    <3> DEFINE K == N \cup M
    <3>1. \A t \in K : Block(t, 1) \in held
      BY <2>6
    <3> HIDE DEF K
    <3>2. b.base \notin K
      BY <2>1, <2>6, <3>1, TablesApart
    <3> QED BY <3>2 DEF K
  <2> DEFINE nt == NewTable(e)
             ne == TableEntry(b.base, NewTableUser(e))
  <2>12. /\ nt \in Rows /\ (\A i \in Slots : nt[i].kind # "table")
         /\ ne \in Entry /\ ne.kind = "table" /\ ne.page = b.base /\ (s.level = 4 => ne.u)
    <3>1. nt \in Rows /\ (\A i \in Slots : nt[i].kind # "table")
      BY <2>5, <2>7, NewRows
    <3>2. PICK u \in BOOLEAN : u = NewTableUser(e) /\ (s.level = 4 => u)
      BY <2>8
    <3>3. ne = TableEntry(b.base, u)
      BY <3>2
    <3> HIDE DEF ne, nt
    <3>4. ne \in Entry /\ ne.kind = "table" /\ ne.page = b.base /\ ne.u = u
      BY <2>10, <3>3, NewRows
    <3> QED BY <3>1, <3>2, <3>4
  <2>13. tables' = WithTable(tables, b.base, nt, s.table, s.index, ne) /\ s.level > 1
    BY <1>2, <2>1
  <2> HIDE DEF nt, ne, e, s
  <2>14. /\ tables' \in Tables
         /\ tables'[b.base] = nt
         /\ tables'[s.table][s.index] = ne
         /\ \A j \in Slots : j # s.index => tables'[s.table][j] = tables[s.table][j]
         /\ \A p \in AllPages : p # b.base /\ p # s.table => tables'[p] = tables[p]
    <3> DEFINE tb == WithTable(tables, b.base, nt, s.table, s.index, ne)
    <3>1. tables' = tb
      BY <2>13
    <3>2. s.table \in AllPages /\ b.base # s.table
      BY <2>4, <2>6, <2>11
    <3>3. /\ tb \in Tables
          /\ tb[b.base] = nt
          /\ tb[s.table][s.index] = ne
          /\ \A j \in Slots : j # s.index => tb[s.table][j] = tables[s.table][j]
          /\ \A p \in AllPages : p # b.base /\ p # s.table => tb[p] = tables[p]
      BY <2>4, <2>6, <2>10, <2>12, <3>2, TableAdded
    <3> HIDE DEF tb
    <3> QED BY <3>1, <3>3
  <2>15. \A t \in N : tables'[t] = tables[t]
    BY <2>4, <2>6, <2>11, <2>14
  <2>16. KernelTree(N, lev)' /\ tables'[g_pml4] = tables[g_pml4]
    <3>1. KernelTree(N, lev) /\ pc # "pml4" /\ pc' # "pml4" /\ g_pml4' = g_pml4
      BY <1>1, <1>2, <1>5, <2>2 DEF Owned
    <3> QED BY <2>15, <3>1, KernelKept
  <2>17. \A t \in M, i \in Slots : ~ (t = s.table /\ i = s.index) => tables'[t][i] = tables[t][i]
    BY <2>6, <2>11, <2>14
  <2>18. s.table = Root => tables[g_pml4][s.index].kind # "table" /\ ne.u
    <3>1. s.table = Root => tables[Root][s.index].kind # "table"
      BY <2>5 DEF e
    <3>2. tables[Root][s.index] = tables[g_pml4][s.index] \/ tables[Root][s.index].kind = "table"
      BY <2>4, <2>6 DEF RootShared
    <3> QED BY <2>4, <2>12, <3>1, <3>2
  <2>19. OwnSlots(Root)' = OwnSlots(Root) \cup (IF s.table = Root THEN {s.index} ELSE {})
    <3>1. \A i \in Slots : ~ (s.table = Root /\ i = s.index) => tables'[Root][i] = tables[Root][i]
      BY <2>6, <2>17
    <3>2. s.table = Root => tables'[Root][s.index] = ne /\ ne.kind = "table"
      BY <2>12, <2>14
    <3>3. OwnSlots(Root)' = {i \in Slots : tables'[Root][i].kind = "table"
                                           /\ tables'[Root][i] # tables[g_pml4][i]}
      BY <1>2, <1>3, <2>16 DEF OwnSlots
    <3>4. OwnSlots(Root) = {i \in Slots : tables[Root][i].kind = "table"
                                           /\ tables[Root][i] # tables[g_pml4][i]}
      BY DEF OwnSlots
    <3>5. CASE s.table = Root
      <4>1. tables'[Root][s.index].kind = "table" /\ tables'[Root][s.index] # tables[g_pml4][s.index]
        BY <2>18, <3>2, <3>5
      <4> QED BY <2>4, <3>1, <3>3, <3>4, <3>5, <4>1
    <3>6. CASE s.table # Root
      BY <3>1, <3>3, <3>4, <3>6
    <3> QED BY <3>5, <3>6
  <2>20. RootShared'
    <3> SUFFICES ASSUME NEW i \in Slots
                 PROVE  \/ tables'[Root][i] = tables[g_pml4][i]
                        \/ /\ tables'[Root][i].kind = "table"
                           /\ tables'[Root][i].u
                           /\ tables[g_pml4][i].kind # "table"
      BY <1>2, <1>3, <2>16 DEF RootShared
    <3>1. CASE s.table = Root /\ i = s.index
      BY <2>12, <2>14, <2>18, <3>1
    <3>2. CASE ~ (s.table = Root /\ i = s.index)
      <4>1. tables'[Root][i] = tables[Root][i]
        BY <2>6, <2>17, <3>2
      <4> QED BY <2>6, <4>1 DEF RootShared
    <3> QED BY <3>1, <3>2
  <2> DEFINE W == OwnSlots(Root)
             V == OwnSlots(Root)'
  <2> HIDE DEF W, V
  <2>21. \E l2 : IsTree(tables', Root, V, M \cup {b.base}, l2)
    <3>1. mlev[s.table] > 1
      BY <2>4, <2>13
    <3>2. /\ V = W \cup (IF s.table = Root THEN {s.index} ELSE {})
          /\ ~ Edge(tables, Root, W, s.table, s.index)
          /\ IsTree(tables, Root, W, M, mlev)
      BY <2>4, <2>6, <2>19 DEF W, V
    <3>3. Grown(tables, Root, W, M, mlev, s.table, s.index, b.base, tables', V)
      BY <2>4, <2>11, <2>12, <2>14, <2>17, <3>1, <3>2 DEF Grown
    <3> QED BY <3>2, <3>3, TreeGrows
  <2>22. PICK l2 : IsTree(tables', Root, V, M \cup {b.base}, l2)
    BY <2>21
  <2>23. UserTree(M \cup {b.base}, l2)'
    <3>1. ~ Destroying' /\ Root' # 0
      BY <1>1, <1>3, <1>5 DEF Destroying
    <3> QED BY <1>3, <2>20, <2>22, <3>1 DEF UserTree, V
  <2>24. Accounts(N, M \cup {b.base})'
    <3> DEFINE M2 == M \cup {b.base}
    <3>1. Fields' = Fields
      BY <1>3 DEF Fields, NULL, Block
    <3>2. /\ Blocks(M2) = Blocks(M) \cup {b} /\ Blocks(N \cup M2) = Blocks(N) \cup Blocks(M) \cup {b}
          /\ Blocks(N \cup M) = Blocks(N) \cup Blocks(M)
      BY <2>9 DEF Blocks
    <3>3. N \cap M2 = {}
      BY <2>6, <2>11
    <3> HIDE DEF M2
    <3>4. held' = Blocks(N) \cup Blocks(M2) \cup Fields' /\ Fields' \cap Blocks(N \cup M2) = {}
      BY <2>6, <2>9, <3>1, <3>2
    <3>5. \A g, h \in FieldNames : process'[g] = process'[h] /\ process'[g] # NULL => g = h
      BY <1>3, <2>6
    <3>6. Accounts(N, M2)'
      BY <3>3, <3>4, <3>5, AccountsNext
    <3> QED BY <3>6 DEF M2
  <2>25. Memory'
    BY <2>9, <2>16, <2>23, <2>24 DEF Memory
  <2>26. \A v \in Nat : UserSlot(v) => UserSlot(v)'
    <3> SUFFICES ASSUME NEW v \in Nat, UserSlot(v) PROVE UserSlot(v)'
      OBVIOUS
    <3>1. IndexAt(v, 4) \in Slots
      BY IndexFacts
    <3>2. ~ (s.table = Root /\ IndexAt(v, 4) = s.index)
      BY <2>5 DEF UserSlot, e
    <3>3. tables'[Root][IndexAt(v, 4)] = tables[Root][IndexAt(v, 4)]
      BY <2>6, <2>17, <3>1, <3>2
    <3> QED BY <1>3, <3>3 DEF UserSlot
  <2>27. job' = job
    BY <1>2
  <2> QED BY <1>1, <1>2, <1>3, <1>5, <2>9, <2>14, <2>16, <2>25, <2>26, <2>27, UserMapStep
<1> QED BY <1>2, <1>4, <1>5

\* The loader maps a page of the program, or cannot.
LEMMA MapUserKeeps ==
  ASSUME Inv, MapUser
  PROVE  Inv'
<1>1. PICK phase \in {"mapping_image", "mapping_stack"} :
        MapTable(phase, "fail_stack") \/ MapPage(phase) \/ MapFails(phase, "fail_stack")
  BY DEF MapUser
<1>2. UNCHANGED processVars
  BY DEF MapUser
<1>3. CASE MapTable(phase, "fail_stack")
  BY <1>2, <1>3, UserMapTable
<1>4. CASE MapPage(phase)
  BY <1>2, <1>4, UserMapPage
<1>5. CASE MapFails(phase, "fail_stack")
  BY <1>2, <1>5, LoaderFails DEF MapFails, pagingVars, storeVars, processVars
<1> QED BY <1>1, <1>3, <1>4, <1>5

-----------------------------------------------------------------------------
(* What the kernel touches while the program's root is active. *)

\* While there is an address space it has a tree, and so has the kernel.
LEMMA SpaceExists ==
  ASSUME Inv, pc # "pml4", ~ Destroying, Root # 0
  PROVE  \E N, lev, M, mlev : Space(N, lev, M, mlev)
<1>1. PICK N, lev, M, mlev : Owned(N, lev, M, mlev)
  BY DEF Inv, Memory, Owned
<1>2. /\ StoreOK /\ tables \in Tables
      /\ IsTree(tables, g_pml4, Slots, N, lev)
      /\ \A i \in Slots : ~ tables[g_pml4][i].u
      /\ RootShared
      /\ IsTree(tables, Root, OwnSlots(Root), M, mlev)
  <2>1. KernelTree(N, lev) /\ UserTree(M, mlev) /\ StoreOK /\ tables \in Tables
    BY <1>1 DEF Owned, Inv, Memory, Types
  <2>2. /\ IsTree(tables, g_pml4, Slots, N, lev)
        /\ \A i \in Slots : ~ tables[g_pml4][i].u
    BY <2>1 DEF KernelTree
  <2>3. RootShared /\ IsTree(tables, Root, OwnSlots(Root), M, mlev)
    BY <2>1 DEF UserTree
  <2> QED BY <2>1, <2>2, <2>3
<1>3. /\ N \subseteq AllPages /\ M \subseteq AllPages /\ N \cap M = {}
      /\ g_pml4 \in N /\ Root \in M
      /\ held = Blocks(N) \cup Blocks(M) \cup Fields
      /\ Fields \cap Blocks(N \cup M) = {}
      /\ \A t \in N \cup M : Block(t, 1) \in held
  BY <1>1, SpaceFacts
<1>4. Space(N, lev, M, mlev)
  BY <1>1, <1>2, <1>3 DEF Space
<1> QED BY <1>4

\* A walk of the program's root for its own pages, for the kernel's text and for
\* the framebuffer changes no entry that the kernel shares with it: those have
\* been accessed before the root was copied.
LEMMA UserTouched ==
  ASSUME Inv, Booted, Booted', ~ Destroying, ~ Destroying', Root # 0, Root' = Root,
         UNCHANGED <<free, held, g_pml4, doomed, framebuffer>>,
         process'.image_backing = process.image_backing,
         process'.stack_backing = process.stack_backing,
         process'.file_buffer = process.file_buffer,
         NEW vs, \A v \in vs : v \in Nat /\ (UserSlot(v) \/ v = Text \/ v \in FramebufferPages),
         tables' = Accessed(tables, Root, vs)
  PROVE  /\ Memory' /\ BootJob' /\ tables' \in Tables
         /\ \A v \in Nat : UserSlot(v) => UserSlot(v)'
<1>1. pc # "pml4" /\ pc' # "pml4"
  BY DEF Booted, BootPhases
<1>2. PICK N, lev, M, mlev : Space(N, lev, M, mlev)
  BY <1>1, SpaceExists
<1>3. /\ StoreOK /\ tables \in Tables /\ RootShared
      /\ IsTree(tables, Root, OwnSlots(Root), M, mlev)
      /\ N \subseteq AllPages /\ M \subseteq AllPages /\ N \cap M = {}
      /\ g_pml4 \in N /\ Root \in M
      /\ \A i \in Slots : ~ tables[g_pml4][i].u
  BY <1>2 DEF Space
<1>4. /\ tables' \in Tables
      /\ \A t \in AllPages : t # Root => tables'[t] = tables[t]
      /\ \A t \in AllPages, i \in Slots :
           /\ tables'[t][i].kind = tables[t][i].kind
           /\ tables'[t][i].page = tables[t][i].page
           /\ tables'[t][i].u = tables[t][i].u
  BY <1>3, AccessedFacts
<1>5. \A i \in Slots :
        IF tables[Root][i].kind = "table" /\ \E v \in vs : IndexAt(v, 4) = i
          THEN tables[Root][i].a => tables'[Root][i] = tables[Root][i]
          ELSE tables'[Root][i] = tables[Root][i]
  BY <1>3, AccessedFacts
<1>6. \A t \in N : tables'[t] = tables[t]
  BY <1>3, <1>4
<1>7. KernelTree(N, lev)' /\ tables'[g_pml4] = tables[g_pml4]
  <2>1. KernelTree(N, lev)
    BY <1>2 DEF Space, Owned
  <2> QED BY <1>1, <1>6, <2>1, KernelKept
<1>8. ASSUME NEW i \in Slots, tables[Root][i] = tables[g_pml4][i]
      PROVE  tables'[Root][i] = tables[Root][i]
  <2> SUFFICES ASSUME tables[Root][i].kind = "table", NEW v \in vs, IndexAt(v, 4) = i
               PROVE  tables[Root][i].a
    BY <1>5
  <2>1. ~ UserSlot(v)
    BY <1>3, <1>8 DEF UserSlot
  <2>2. KernelSlot(v) = tables[Root][i]
    BY <1>8 DEF KernelSlot
  <2>3. v = Text \/ v \in FramebufferPages
    BY <2>1
  <2>4. /\ KernelSlot(Text).a
        /\ \A w \in FramebufferPages : KernelSlot(w).kind = "table" => KernelSlot(w).a
    BY DEF Inv, BootJob
  <2> QED BY <2>2, <2>3, <2>4
<1>9. RootShared'
  <2> SUFFICES ASSUME NEW i \in Slots
               PROVE  \/ tables'[Root][i] = tables[g_pml4][i]
                      \/ /\ tables'[Root][i].kind = "table"
                         /\ tables'[Root][i].u
                         /\ tables[g_pml4][i].kind # "table"
    BY <1>7 DEF RootShared
  <2>1. CASE tables[Root][i] = tables[g_pml4][i]
    BY <1>8, <2>1
  <2>2. CASE tables[Root][i] # tables[g_pml4][i]
    BY <1>3, <1>4, <2>2 DEF RootShared
  <2> QED BY <2>1, <2>2
<1>10. OwnSlots(Root)' = OwnSlots(Root)
  <2>1. \A i \in Slots : tables'[Root][i].kind = tables[Root][i].kind
    BY <1>3, <1>4
  <2>2. \A i \in Slots : tables'[Root][i] # tables[g_pml4][i] <=> tables[Root][i] # tables[g_pml4][i]
    <3> SUFFICES ASSUME NEW i \in Slots
                 PROVE  tables'[Root][i] # tables[g_pml4][i] <=> tables[Root][i] # tables[g_pml4][i]
      OBVIOUS
    <3>1. CASE tables[Root][i] = tables[g_pml4][i]
      BY <1>8, <3>1
    <3>2. CASE tables[Root][i] # tables[g_pml4][i]
      BY <1>3, <2>1, <3>2 DEF RootShared
    <3> QED BY <3>1, <3>2
  <2> QED BY <1>7, <2>1, <2>2 DEF OwnSlots
<1> DEFINE W == OwnSlots(Root)
<1> HIDE DEF W
<1>11. IsTree(tables', Root, W, M, mlev)
  <2>1. IsTree(tables, Root, W, M, mlev)
    BY <1>3 DEF W
  <2>2. \A t \in M, i \in Slots :
          /\ Edge(tables', Root, W, t, i) <=> Edge(tables, Root, W, t, i)
          /\ Edge(tables, Root, W, t, i) => tables'[t][i].page = tables[t][i].page
    BY <1>3, <1>4 DEF Edge
  <2> QED BY <2>1, <2>2, TreeKept
<1>12. UserTree(M, mlev)'
  <2>1. IsTree(tables, Root, OwnSlots(Root), M, mlev)'
    BY <1>10, <1>11 DEF W
  <2> QED BY <1>9, <2>1 DEF UserTree
<1>13. Accounts(N, M)'
  BY <1>2 DEF Space, Owned, Accounts, Fields, NULL, Block, Blocks
<1>14. StoreOK'
  BY <1>3 DEF StoreOK, RunPages, Store!RunPages
<1>15. Memory'
  BY <1>7, <1>12, <1>13, <1>14 DEF Memory
<1>16. BootJob'
  BY <1>7, SameKernel DEF Inv, Types
<1>17. \A v \in Nat : UserSlot(v) => UserSlot(v)'
  BY <1>3, <1>4, IndexFacts DEF UserSlot
<1> QED BY <1>4, <1>15, <1>16, <1>17

\* The bytes of a range that process_range_contains accepts, in a region that
\* begins with a page and is made of whole pages, are on pages of the region.
LEMMA RegionPages ==
  ASSUME NEW q \in Nat, NEW m \in Nat, NEW ptr \in Nat, NEW n \in Nat,
         process_range_contains(q * PageSize, m * PageSize, ptr, n)
  PROVE  BytePages(ptr, n) \subseteq q .. (q + m - 1)
<1> SUFFICES ASSUME NEW k \in 0 .. (n - 1)
             PROVE  PageOf(ptr + k) \in q .. (q + m - 1)
  BY DEF BytePages
<1> DEFINE base == q * PageSize
           size == m * PageSize
           end == (q + m) * PageSize
<1>1. base \in Nat /\ size \in Nat /\ end \in Nat /\ end = base + size /\ n # 0 /\ q + m \in Nat
  BY LayoutAssumption, Products
<1>2. ptr >= base /\ ptr - base <= size /\ n <= size - (ptr - base)
  BY <1>1 DEF process_range_contains
<1>3. ptr + k \in Nat /\ ptr + k >= base /\ ptr + k < end
  <2> HIDE DEF base, size, end
  <2> QED BY <1>1, <1>2
<1>4. PageOf(ptr + k) \in Nat /\ PageOf(ptr + k) >= q /\ PageOf(ptr + k) < q + m
  BY <1>1, <1>3, PageArithmetic
<1> QED BY <1>4

\* What process_user_range_valid accepts lies on pages of the program.
LEMMA ValidPages ==
  ASSUME Inv, NEW ptr \in Nat, NEW n \in Nat, process_user_range_valid(ptr, n)
  PROVE  BytePages(ptr, n) \subseteq ImagePages \cup StackRange
<1>1. PICK q \in Nat : process.image_base = q * PageSize
  BY DEF Inv, UserJobs
<1>2. process.image_pages \in Nat /\ StackBase \in Nat /\ StackPages \in Nat
  BY LayoutAssumption DEF Inv, Types, ProcessTypes
<1>3. PageOf(process.image_base) = q
  BY <1>1, PageArithmetic
<1>4. CASE process_range_contains(process.image_base, ImageBytes, ptr, n)
  <2>1. process_range_contains(q * PageSize, process.image_pages * PageSize, ptr, n)
    BY <1>1, <1>4 DEF ImageBytes
  <2>2. BytePages(ptr, n) \subseteq q .. (q + process.image_pages - 1)
    BY <1>2, <2>1, RegionPages
  <2> QED BY <1>3, <2>2 DEF ImagePages
<1>5. CASE process_range_contains(StackBase, StackSize, ptr, n)
  <2> DEFINE r == PageOf(StackBase)
  <2>1. r \in Nat /\ StackBase = r * PageSize
    <3>1. StackBase % PageSize = 0 /\ PageSize \in Nat \ {0}
      BY LayoutAssumption
    <3>2. /\ r \in Nat /\ r * PageSize \in Nat
          /\ StackBase = r * PageSize + (StackBase % PageSize)
      BY <1>2, <3>1, DivMod, Products DEF PageOf
    <3> HIDE DEF r
    <3> QED BY <3>1, <3>2
  <2>2. process_range_contains(r * PageSize, StackPages * PageSize, ptr, n)
    BY <1>5, <2>1 DEF StackSize
  <2>3. BytePages(ptr, n) \subseteq r .. (r + StackPages - 1)
    BY <1>2, <2>1, <2>2, RegionPages
  <2> QED BY <2>3 DEF StackRange
<1> QED BY <1>4, <1>5 DEF process_user_range_valid

\* Some of the bytes are on some of the pages.
LEMMA BytesWithin ==
  ASSUME NEW ptr \in Nat, NEW off \in Nat, NEW n \in Nat, NEW cap \in Nat, off + n <= cap
  PROVE  BytePages(ptr + off, n) \subseteq BytePages(ptr, cap)
<1> SUFFICES ASSUME NEW k \in 0 .. (n - 1)
             PROVE  \E j \in 0 .. (cap - 1) : PageOf(ptr + off + k) = PageOf(ptr + j)
  BY DEF BytePages
<1>1. off + k \in 0 .. (cap - 1) /\ ptr + off + k = ptr + (off + k)
  OBVIOUS
<1> QED BY <1>1

\* The pages of the program and of the framebuffer are numbers.
LEMMA PagesAreNumbers ==
  ASSUME Inv
  PROVE  /\ ImagePages \subseteq Nat /\ StackRange \subseteq Nat
         /\ FramebufferPages \subseteq Nat /\ Text \in Nat
<1>1. process.image_base \in Nat /\ process.image_pages \in Nat /\ StackBase \in Nat
      /\ StackPages \in Nat
  BY LayoutAssumption DEF Inv, Types, ProcessTypes
<1>2. PageOf(process.image_base) \in Nat /\ PageOf(StackBase) \in Nat
  BY <1>1, PageArithmetic
<1>3. ImagePages \subseteq Nat /\ StackRange \subseteq Nat
  BY <1>1, <1>2 DEF ImagePages, StackRange
<1>4. FramebufferPages \subseteq Nat /\ Text \in Nat
  BY PagingAssumption DEF FramebufferPages, Text, Inv, Types
<1> QED BY <1>3, <1>4

\* What a step that touches pages under the program's root has to show.
LEMMA TouchStep ==
  ASSUME Inv, pc \in Loaded \ {"returned"},
         NEW pages, pages \subseteq ImagePages \cup StackRange \cup FramebufferPages,
         NEW next \in {"copy", "start", "user", "read_line"},
         next \in {"copy", "start"} => pc \in Placed,
         Touch(Root, pages, next),
         UNCHANGED <<free, held, drops, wrong_frees, g_pml4, job, doomed, framebuffer, program>>,
         process' \in ProcessTypes, Root' = Root,
         process'.image_backing = process.image_backing,
         process'.stack_backing = process.stack_backing,
         process'.file_buffer = process.file_buffer,
         process'.image_base = process.image_base,
         process'.image_pages = process.image_pages,
         line' \in LineTypes, line'.len <= line'.capacity, active' \in BOOLEAN,
         {cr3', saved_root'} \subseteq AllPages \cup {0},
         Active',
         next = "read_line" =>
           process_user_range_valid(line'.buffer, line'.capacity) /\ line'.len < line'.capacity
  PROVE  Inv' /\ Touches
<1>1. pc' = next \/ pc' = "fault"
  BY DEF Touch
<1>2. Booted /\ Booted' /\ ~ Destroying /\ ~ Destroying' /\ pc # "pml4" /\ pc' # "pml4"
  BY <1>1 DEF Loaded, InSpace, Booted, BootPhases, Destroying
<1>3. Root # 0 /\ \A v \in ImagePages \cup StackRange : UserSlot(v)
  BY DEF Loaded, InSpace, Inv, Control, UserJobs
<1>4. /\ Memory' /\ BootJob' /\ tables' \in Tables
      /\ \A v \in Nat : UserSlot(v) => UserSlot(v)'
  <2>1. CASE pc' = next /\ tables' = Accessed(tables, Root, pages \cup {Text})
    <3> DEFINE vs == pages \cup {Text}
    <3>1. \A v \in vs : v \in Nat /\ (UserSlot(v) \/ v = Text \/ v \in FramebufferPages)
      BY <1>3, PagesAreNumbers
    <3>2. tables' = Accessed(tables, Root, vs)
      BY <2>1
    <3> HIDE DEF vs
    <3> QED BY <1>2, <1>3, <3>1, <3>2, UserTouched
  <2>2. CASE tables' = tables
    <3>1. Memory'
      BY <1>2, <2>2, SameMemory DEF Inv
    <3>2. BootJob'
      BY <1>2, <2>2, SameKernel DEF Inv, Types
    <3>3. \A v : UserSlot(v)' <=> UserSlot(v)
      BY <2>2, SamePages
    <3> QED BY <2>2, <3>1, <3>2, <3>3 DEF Inv, Types
  <2> QED BY <2>1, <2>2 DEF Touch, Text
<1>5. Types'
  BY <1>1, <1>4 DEF Inv, Types, LoadPhases
<1>6. Control'
  BY <1>1, <1>2, <1>3 DEF Inv, Control, NoBacking, NULL, Block, BootPhases
<1>7. UserJobs'
  <2>1. ImagePages' = ImagePages /\ ImagePages \subseteq Nat /\ StackRange \subseteq Nat
    BY PagesAreNumbers DEF ImagePages
  <2>2. (\A v \in ImagePages \cup StackRange : UserSlot(v))'
    BY <1>3, <1>4, <2>1
  <2>3. pc' = "read_line" =>
          (process_user_range_valid(line.buffer, line.capacity) /\ line.len < line.capacity)'
    BY <1>1 DEF process_user_range_valid, process_range_contains, ImageBytes
  <2>4. /\ \E k \in Nat : process.image_base = k * PageSize
        /\ pc' \in {"copy", "start"} =>
             /\ program \in Programs /\ LayoutAccepted(program)
             /\ process.image_base = ImageFirst(program) * PageSize
             /\ process.image_pages = ImageEnd(program) - ImageFirst(program)
    BY <1>1 DEF Inv, UserJobs, Placed, LoadPhases
  <2> QED BY <1>1, <2>2, <2>3, <2>4 DEF UserJobs, Placed, InSpace, LoadPhases
<1>8. Touches
  BY DEF Touches
<1> QED BY <1>4, <1>5, <1>6, <1>7, <1>8 DEF Inv

\* process_stage_user_context.
LEMMA StageKeeps ==
  ASSUME Inv, Stage
  PROVE  Inv' /\ Touches
<1> DEFINE pages == BytePages(StackBase, ContextSize)
<1>1. /\ pc = "stage" /\ saved_root' = cr3 /\ cr3' = Root
      /\ Touch(Root, pages, "copy")
      /\ UNCHANGED <<free, held, drops, wrong_frees, g_pml4, job, doomed, framebuffer, program>>
      /\ UNCHANGED <<process, active, line>> /\ Root' = Root
  BY DEF Stage, storeVars, Root
<1>2. pages \subseteq ImagePages \cup StackRange
  <2>1. StackBase \in Nat /\ ContextSize \in Nat /\ StackSize \in Nat /\ ContextSize <= StackSize
    BY LayoutAssumption, Products DEF StackSize
  <2>2. process_user_range_valid(StackBase, ContextSize)
    BY <2>1 DEF process_user_range_valid, process_range_contains
  <2> QED BY <2>1, <2>2, ValidPages
<1> HIDE DEF pages
<1>3. /\ pc \in Loaded \ {"returned"} /\ pc \in Placed
      /\ cr3 = g_pml4 /\ ~ active
      /\ {cr3, Root} \subseteq AllPages \cup {0} /\ process \in ProcessTypes
      /\ line \in LineTypes /\ line.len <= line.capacity /\ active \in BOOLEAN
  BY <1>1 DEF Loaded, InSpace, Placed, Inv, Active, BootPhases, Types, ProcessTypes, Root
<1>4. pc' = "copy" \/ pc' = "fault"
  BY <1>1 DEF Touch
<1>5. Active'
  BY <1>1, <1>3, <1>4 DEF Active, BootPhases, InSpace
<1> QED BY <1>1, <1>2, <1>3, <1>5, TouchStep

\* process_copy_image_segments.
LEMMA CopyImageKeeps ==
  ASSUME Inv, CopyImage
  PROVE  Inv' /\ Touches
<1> DEFINE pages == ImagePages \cup UNION {SegmentPages(s) : s \in LoadSegments(program)}
<1>1. /\ pc = "copy" /\ Touch(cr3, pages, "start") /\ cr3' = saved_root
      /\ process' = [process EXCEPT !.state = "loaded"]
      /\ UNCHANGED <<free, held, drops, wrong_frees, g_pml4, job, doomed, framebuffer, program>>
      /\ UNCHANGED <<active, saved_root, line>>
  BY DEF CopyImage, storeVars
<1>2. /\ pc \in Loaded \ {"returned"} /\ pc \in Placed
      /\ cr3 = Root /\ saved_root = g_pml4 /\ ~ active /\ program \in Programs
      /\ LayoutAccepted(program)
      /\ process.image_base = ImageFirst(program) * PageSize
      /\ process.image_pages = ImageEnd(program) - ImageFirst(program)
      /\ {saved_root, Root} \subseteq AllPages \cup {0} /\ process \in ProcessTypes
      /\ line \in LineTypes /\ line.len <= line.capacity /\ active \in BOOLEAN
  BY <1>1 DEF Loaded, InSpace, Placed, Inv, Active, BootPhases, Types, ProcessTypes, Root,
              UserJobs, LoadPhases
<1>3. pages \subseteq ImagePages
  <2>1. /\ ImageFirst(program) \in Nat /\ ImageEnd(program) \in Nat
        /\ \A s \in LoadSegments(program) :
             SegmentPages(s) \subseteq ImageFirst(program) .. (ImageEnd(program) - 1)
    BY <1>2, LayoutFacts
  <2>2. PageOf(process.image_base) = ImageFirst(program)
    BY <1>2, <2>1, PageArithmetic
  <2>3. ImagePages = ImageFirst(program) .. (ImageEnd(program) - 1)
    BY <1>2, <2>1, <2>2 DEF ImagePages
  <2> QED BY <2>1, <2>3
<1>4. pc' = "start" \/ pc' = "fault"
  BY <1>1 DEF Touch
<1>5. /\ process' \in ProcessTypes /\ Root' = Root
      /\ process'.image_backing = process.image_backing
      /\ process'.stack_backing = process.stack_backing
      /\ process'.file_buffer = process.file_buffer
      /\ process'.image_base = process.image_base
      /\ process'.image_pages = process.image_pages
  BY <1>1, <1>2 DEF ProcessTypes, Root
<1> HIDE DEF pages
<1>6. Touch(Root, pages, "start") /\ Active'
  BY <1>1, <1>2, <1>4, <1>5 DEF Active, BootPhases, InSpace
<1> QED BY <1>1, <1>2, <1>3, <1>5, <1>6, TouchStep

\* program_invoke.
LEMMA StartKeeps ==
  ASSUME Inv, Start
  PROVE  Inv' /\ Touches
<1> DEFINE pages == {PageOf(program.entry)}
<1>1. /\ pc = "start" /\ active' = TRUE /\ saved_root' = cr3 /\ cr3' = Root
      /\ Touch(Root, pages, "user")
      /\ process' = [process EXCEPT !.state = "running",
                                    !.exit_requested = FALSE, !.failed = FALSE]
      /\ UNCHANGED <<free, held, drops, wrong_frees, g_pml4, job, doomed, framebuffer, program>>
      /\ UNCHANGED line
  BY DEF Start, storeVars, Root
<1>2. /\ pc \in Loaded \ {"returned"} /\ pc \in Placed
      /\ cr3 = g_pml4 /\ program \in Programs /\ LayoutAccepted(program)
      /\ process.image_base = ImageFirst(program) * PageSize
      /\ process.image_pages = ImageEnd(program) - ImageFirst(program)
      /\ {cr3, Root} \subseteq AllPages \cup {0} /\ process \in ProcessTypes
      /\ line \in LineTypes /\ line.len <= line.capacity
  BY <1>1 DEF Loaded, InSpace, Placed, Inv, Active, BootPhases, Types, ProcessTypes, Root,
              UserJobs, LoadPhases
<1>3. pages \subseteq ImagePages
  <2>1. /\ ImageFirst(program) \in Nat /\ ImageEnd(program) \in Nat
        /\ PageOf(program.entry) \in ImageFirst(program) .. (ImageEnd(program) - 1)
    BY <1>2, LayoutFacts
  <2>2. PageOf(process.image_base) = ImageFirst(program)
    BY <1>2, <2>1, PageArithmetic
  <2>3. ImagePages = ImageFirst(program) .. (ImageEnd(program) - 1)
    BY <1>2, <2>1, <2>2 DEF ImagePages
  <2> QED BY <2>1, <2>3
<1>4. pc' = "user" \/ pc' = "fault"
  BY <1>1 DEF Touch
<1>5. /\ process' \in ProcessTypes /\ Root' = Root
      /\ process'.image_backing = process.image_backing
      /\ process'.stack_backing = process.stack_backing
      /\ process'.file_buffer = process.file_buffer
      /\ process'.image_base = process.image_base
      /\ process'.image_pages = process.image_pages
  BY <1>1, <1>2 DEF ProcessTypes, Root
<1> HIDE DEF pages
<1>6. Active'
  BY <1>1, <1>2, <1>4, <1>5 DEF Active, BootPhases, InSpace
<1> QED BY <1>1, <1>2, <1>3, <1>5, <1>6, TouchStep

\* The kernel reads what the program writes, and draws it.
LEMMA SyscallWriteKeeps ==
  ASSUME Inv, SyscallWrite
  PROVE  Inv' /\ Touches
<1>1. PICK ptr \in Pointers, length \in Lengths :
        /\ process_user_range_valid(ptr, length)
        /\ Touch(cr3, BytePages(ptr, length) \cup
                       (IF length > 0 THEN FramebufferPages ELSE {}), "user")
  BY DEF SyscallWrite
<1> DEFINE pages == BytePages(ptr, length) \cup (IF length > 0 THEN FramebufferPages ELSE {})
<1>2. /\ pc = "user" /\ Touch(cr3, pages, "user")
      /\ UNCHANGED <<free, held, drops, wrong_frees, g_pml4, job, doomed, framebuffer, program>>
      /\ UNCHANGED <<cr3, process, active, saved_root, line>> /\ Root' = Root
  BY <1>1 DEF SyscallWrite, storeVars, processVars, Root
<1>3. pages \subseteq ImagePages \cup StackRange \cup FramebufferPages
  <2>1. ptr \in Nat /\ length \in Nat
    BY LayoutAssumption
  <2>2. BytePages(ptr, length) \subseteq ImagePages \cup StackRange
    BY <1>1, <2>1, ValidPages
  <2> QED BY <2>2
<1> HIDE DEF pages
<1>4. /\ pc \in Loaded \ {"returned"} /\ cr3 = Root /\ saved_root = g_pml4
      /\ {saved_root, Root} \subseteq AllPages \cup {0} /\ process \in ProcessTypes
      /\ line \in LineTypes /\ line.len <= line.capacity /\ active \in BOOLEAN
  BY <1>2 DEF Loaded, InSpace, Inv, Active, Types, ProcessTypes, Root
<1>5. pc' = "user" \/ pc' = "fault"
  BY <1>2 DEF Touch
<1>6. Touch(Root, pages, "user") /\ Active'
  BY <1>2, <1>4, <1>5 DEF Active, BootPhases, InSpace
<1> QED BY <1>2, <1>3, <1>4, <1>6, TouchStep

\* keyboard_read_line stores a character, takes one back or ends the line.
LEMMA KeysKeep ==
  ASSUME Inv, KeyChar \/ KeyBackspace \/ KeyEnter
  PROVE  Inv' /\ Touches
<1>1. /\ pc = "read_line"
      /\ UNCHANGED <<free, held, drops, wrong_frees, g_pml4, job, doomed, framebuffer, program>>
      /\ UNCHANGED <<cr3, process, active, saved_root>> /\ Root' = Root
  BY DEF KeyChar, KeyBackspace, KeyEnter, storeVars, Root
<1>2. /\ line.buffer \in Nat /\ line.len \in Nat /\ line.capacity \in Nat
      /\ line.len < line.capacity /\ line \in LineTypes
      /\ process_user_range_valid(line.buffer, line.capacity)
  BY <1>1 DEF Inv, Types, LineTypes, UserJobs
<1>3. BytePages(line.buffer, line.capacity) \subseteq ImagePages \cup StackRange
  BY <1>2, ValidPages
<1>4. ASSUME NEW off \in Nat, NEW n \in Nat, off + n <= line.capacity
      PROVE  BytePages(line.buffer + off, n) \cup FramebufferPages
               \subseteq ImagePages \cup StackRange \cup FramebufferPages
  BY <1>2, <1>3, <1>4, BytesWithin
<1>5. PICK pages, next :
        /\ Touch(cr3, pages, next)
        /\ pages \subseteq ImagePages \cup StackRange \cup FramebufferPages
        /\ line' \in LineTypes /\ line'.len <= line'.capacity
        /\ \/ next = "user"
           \/ /\ next = "read_line" /\ line'.buffer = line.buffer
              /\ line'.capacity = line.capacity /\ line'.len < line'.capacity
  <2>1. CASE KeyChar
    <3>1. /\ Touch(cr3, BytePages(line.buffer + line.len, 2) \cup FramebufferPages, "read_line")
          /\ line.len + 2 <= line.capacity /\ line' = [line EXCEPT !.len = @ + 1]
      BY <1>2, <2>1 DEF KeyChar
    <3>2. /\ line' \in LineTypes /\ line'.len = line.len + 1 /\ line'.buffer = line.buffer
          /\ line'.capacity = line.capacity
      BY <1>2, <3>1 DEF LineTypes
    <3>3. BytePages(line.buffer + line.len, 2) \cup FramebufferPages
            \subseteq ImagePages \cup StackRange \cup FramebufferPages
      BY <1>2, <1>4, <3>1
    <3> QED BY <1>2, <3>1, <3>2, <3>3
  <2>2. CASE KeyBackspace
    <3>1. /\ Touch(cr3, BytePages(line.buffer + line.len - 1, 1) \cup FramebufferPages, "read_line")
          /\ line.len # 0 /\ line' = [line EXCEPT !.len = @ - 1]
      BY <2>2 DEF KeyBackspace
    <3>2. /\ line' \in LineTypes /\ line'.len = line.len - 1 /\ line'.buffer = line.buffer
          /\ line'.capacity = line.capacity
      BY <1>2, <3>1 DEF LineTypes
    <3>3. line.len - 1 \in Nat /\ line.buffer + line.len - 1 = line.buffer + (line.len - 1)
          /\ (line.len - 1) + 1 <= line.capacity
      BY <1>2, <3>1
    <3>4. BytePages(line.buffer + line.len - 1, 1) \cup FramebufferPages
            \subseteq ImagePages \cup StackRange \cup FramebufferPages
      BY <1>4, <3>3
    <3> QED BY <1>2, <3>1, <3>2, <3>4
  <2>3. CASE KeyEnter
    <3>1. /\ Touch(cr3, BytePages(line.buffer + line.len, 1) \cup FramebufferPages, "user")
          /\ line' = [buffer |-> 0, capacity |-> 0, len |-> 0]
      BY <2>3 DEF KeyEnter, NoLine
    <3>2. line' \in LineTypes /\ line'.len <= line'.capacity
      BY <3>1 DEF LineTypes
    <3>3. BytePages(line.buffer + line.len, 1) \cup FramebufferPages
            \subseteq ImagePages \cup StackRange \cup FramebufferPages
      BY <1>2, <1>4
    <3> QED BY <3>1, <3>2, <3>3
  <2> QED BY <2>1, <2>2, <2>3
<1>6. /\ pc \in Loaded \ {"returned"} /\ cr3 = Root /\ saved_root = g_pml4
      /\ {saved_root, Root} \subseteq AllPages \cup {0} /\ process \in ProcessTypes
      /\ active \in BOOLEAN
  BY <1>1 DEF Loaded, InSpace, Inv, Active, Types, ProcessTypes, Root
<1>7. pc' = next \/ pc' = "fault"
  BY <1>5 DEF Touch
<1>8. Touch(Root, pages, next) /\ Active'
  BY <1>1, <1>5, <1>6, <1>7 DEF Active, BootPhases, InSpace
<1>9. next = "read_line" =>
        process_user_range_valid(line'.buffer, line'.capacity) /\ line'.len < line'.capacity
  BY <1>2, <1>5
<1>10. next \in {"user", "read_line"}
  BY <1>5
<1> QED BY <1>1, <1>5, <1>6, <1>8, <1>9, <1>10, TouchStep

-----------------------------------------------------------------------------
(* The way out. *)

\* The kernel's root is active again; its walks set no bit that is not set.
LEMMA ReturnKeeps ==
  ASSUME Inv, Return
  PROVE  Inv'
<1> DEFINE vs == {Text} \cup FramebufferPages
<1>1. /\ pc = "returned" /\ pc' = "release_image" /\ cr3' = saved_root /\ active' = FALSE
      /\ tables' = Accessed(tables, saved_root, vs)
      /\ UNCHANGED <<free, held, drops, wrong_frees, g_pml4, job, doomed, framebuffer>>
      /\ UNCHANGED <<process, program, saved_root, line>> /\ Root' = Root
  BY DEF Return, storeVars, Root, Text
<1>2. Booted /\ Booted' /\ ~ Destroying /\ ~ Destroying'
  BY <1>1 DEF Booted, BootPhases, Destroying
<1>3. saved_root = g_pml4 /\ tables \in Tables /\ g_pml4 \in AllPages
  BY <1>1 DEF Inv, Active, InSpace, Types, Control
<1>4. /\ KernelSlot(Text).a
      /\ \A w \in FramebufferPages : KernelSlot(w).kind = "table" => KernelSlot(w).a
  BY <1>2 DEF Inv, BootJob
<1>5. \A v \in vs : KernelSlot(v).kind = "table" => KernelSlot(v).a
  BY <1>4
<1> HIDE DEF vs
<1>6. tables' = Accessed(tables, g_pml4, vs)
  BY <1>1, <1>3
<1>7. /\ tables' \in Tables
      /\ \A t \in AllPages : t # g_pml4 => tables'[t] = tables[t]
  BY <1>3, <1>6, AccessedFacts
<1>8. \A i \in Slots :
        IF tables[g_pml4][i].kind = "table" /\ \E v \in vs : IndexAt(v, 4) = i
          THEN tables[g_pml4][i].a => tables'[g_pml4][i] = tables[g_pml4][i]
          ELSE tables'[g_pml4][i] = tables[g_pml4][i]
  BY <1>3, <1>6, AccessedFacts
<1>9. \A i \in Slots : tables'[g_pml4][i] = tables[g_pml4][i]
  BY <1>5, <1>8 DEF KernelSlot
<1>10. tables' = tables
  <2>1. tables'[g_pml4] = tables[g_pml4]
    BY <1>3, <1>7, <1>9 DEF Tables, Rows
  <2>2. \A t \in AllPages : tables'[t] = tables[t]
    BY <1>7, <2>1
  <2> QED BY <1>3, <1>7, <2>2 DEF Tables
<1>11. Types'
  BY <1>1, <1>3, <1>10 DEF Inv, Types, LeavePhases
<1>12. Control'
  BY <1>1, <1>2 DEF Inv, Control, NoBacking, NULL, Block, BootPhases
<1>13. Active'
  BY <1>1, <1>3 DEF Active, InSpace, BootPhases
<1>14. UserJobs'
  BY <1>1 DEF Inv, UserJobs, Placed, InSpace, LoadPhases
<1> QED BY <1>1, <1>2, <1>10, <1>11, <1>12, <1>13, <1>14, QuietStep

\* The paths of a tree lead to all its tables but the root, each to one.
LEMMA TreePaths ==
  ASSUME NEW tab, NEW root, NEW W, NEW N, NEW lev, IsTree(tab, root, W, N, lev)
  PROVE  /\ \A i : Path1(tab, root, W, i) =>
              P1(tab, root, i) \in N /\ lev[P1(tab, root, i)] = 3
         /\ \A i, j : Path2(tab, root, W, i, j) =>
              P2(tab, root, i, j) \in N /\ lev[P2(tab, root, i, j)] = 2
         /\ \A i, j, k : Path3(tab, root, W, i, j, k) =>
              P3(tab, root, i, j, k) \in N /\ lev[P3(tab, root, i, j, k)] = 1
         /\ \A n \in N :
              \/ n = root
              \/ \E i : Path1(tab, root, W, i) /\ n = P1(tab, root, i)
              \/ \E i, j : Path2(tab, root, W, i, j) /\ n = P2(tab, root, i, j)
              \/ \E i, j, k : Path3(tab, root, W, i, j, k) /\ n = P3(tab, root, i, j, k)
         /\ \A i, a : Path1(tab, root, W, i) /\ Path1(tab, root, W, a)
                        /\ P1(tab, root, i) = P1(tab, root, a) => i = a
         /\ \A i, j, a, b : Path2(tab, root, W, i, j) /\ Path2(tab, root, W, a, b)
                              /\ P2(tab, root, i, j) = P2(tab, root, a, b) => i = a /\ j = b
         /\ \A i, j, k, a, b, c :
              Path3(tab, root, W, i, j, k) /\ Path3(tab, root, W, a, b, c)
                /\ P3(tab, root, i, j, k) = P3(tab, root, a, b, c) => i = a /\ j = b /\ k = c
<1> DEFINE E(t, i) == Edge(tab, root, W, t, i)
           A1(i) == P1(tab, root, i)
           A2(i, j) == P2(tab, root, i, j)
           A3(i, j, k) == P3(tab, root, i, j, k)
           Q1(i) == Path1(tab, root, W, i)
           Q2(i, j) == Path2(tab, root, W, i, j)
           Q3(i, j, k) == Path3(tab, root, W, i, j, k)
<1>1. /\ root \in N /\ lev \in [N -> 1 .. 4] /\ lev[root] = 4
      /\ \A t \in N, i \in Slots :
           E(t, i) => lev[t] > 1 /\ tab[t][i].page \in N /\ lev[tab[t][i].page] = lev[t] - 1
  BY DEF IsTree
<1>2. \A n \in N : n # root => \E t \in N, i \in Slots : E(t, i) /\ tab[t][i].page = n
  BY DEF IsTree
<1>3. \A t, u \in N : \A i, j \in Slots :
        E(t, i) /\ E(u, j) /\ tab[t][i].page = tab[u][j].page => t = u /\ i = j
  BY DEF IsTree
<1>4. \A t \in N, i \in Slots : t # root /\ tab[t][i].kind = "table" => E(t, i)
  BY DEF Edge
<1>5. \A t \in N, i \in Slots : E(t, i) => tab[t][i].kind = "table"
  BY DEF Edge
<1>6. \A i : Q1(i) <=> i \in Slots /\ E(root, i)
  BY DEF Path1
<1>7. /\ \A i, j : Q2(i, j) <=> Q1(i) /\ j \in Slots /\ tab[A1(i)][j].kind = "table"
      /\ \A i, j, k : Q3(i, j, k) <=> Q2(i, j) /\ k \in Slots /\ tab[A2(i, j)][k].kind = "table"
      /\ \A i : A1(i) = tab[root][i].page
      /\ \A i, j : A2(i, j) = tab[A1(i)][j].page
      /\ \A i, j, k : A3(i, j, k) = tab[A2(i, j)][k].page
  BY DEF Path2, Path3, P1, P2, P3
<1> HIDE DEF E, A1, A2, A3, Q1, Q2, Q3
<1>8. ASSUME NEW i, Q1(i) PROVE A1(i) \in N /\ lev[A1(i)] = 3 /\ A1(i) # root
  BY <1>1, <1>6, <1>7, <1>8
<1>9. ASSUME NEW i, NEW j, Q2(i, j)
      PROVE  A2(i, j) \in N /\ lev[A2(i, j)] = 2 /\ A2(i, j) # root /\ E(A1(i), j) /\ j \in Slots
             /\ Q1(i)
  <2>1. Q1(i) /\ j \in Slots /\ tab[A1(i)][j].kind = "table" /\ A2(i, j) = tab[A1(i)][j].page
    BY <1>7, <1>9
  <2>2. A1(i) \in N /\ lev[A1(i)] = 3 /\ A1(i) # root
    BY <1>8, <2>1
  <2>3. E(A1(i), j)
    BY <1>4, <2>1, <2>2
  <2> QED BY <1>1, <2>1, <2>2, <2>3
<1>10. ASSUME NEW i, NEW j, NEW k, Q3(i, j, k)
       PROVE  A3(i, j, k) \in N /\ lev[A3(i, j, k)] = 1 /\ E(A2(i, j), k) /\ k \in Slots /\ Q2(i, j)
  <2>1. Q2(i, j) /\ k \in Slots /\ tab[A2(i, j)][k].kind = "table" /\ A3(i, j, k) = tab[A2(i, j)][k].page
    BY <1>7, <1>10
  <2>2. A2(i, j) \in N /\ lev[A2(i, j)] = 2 /\ A2(i, j) # root
    BY <1>9, <2>1
  <2>3. E(A2(i, j), k)
    BY <1>4, <2>1, <2>2
  <2> QED BY <1>1, <2>1, <2>2, <2>3
<1>11. ASSUME NEW n \in N, lev[n] = 4 PROVE n = root
  <2> SUFFICES ASSUME n # root PROVE FALSE
    OBVIOUS
  <2>1. PICK t \in N, i \in Slots : E(t, i) /\ tab[t][i].page = n
    BY <1>2
  <2>2. lev[t] \in 1 .. 4 /\ lev[n] = lev[t] - 1
    BY <1>1, <2>1
  <2> QED BY <1>11, <2>2
<1>12. ASSUME NEW n \in N, lev[n] = 3 PROVE \E i : Q1(i) /\ n = A1(i)
  <2>1. PICK t \in N, i \in Slots : E(t, i) /\ tab[t][i].page = n
    BY <1>1, <1>2, <1>12
  <2>2. lev[t] \in 1 .. 4 /\ lev[n] = lev[t] - 1
    BY <1>1, <2>1
  <2>3. lev[t] = 4
    BY <1>12, <2>2
  <2>4. t = root
    BY <1>11, <2>3
  <2> QED BY <1>6, <1>7, <2>1, <2>4
<1>13. ASSUME NEW n \in N, lev[n] = 2 PROVE \E i, j : Q2(i, j) /\ n = A2(i, j)
  <2>1. PICK t \in N, j \in Slots : E(t, j) /\ tab[t][j].page = n
    BY <1>1, <1>2, <1>13
  <2>2. lev[t] \in 1 .. 4 /\ lev[n] = lev[t] - 1
    BY <1>1, <2>1
  <2>3. lev[t] = 3
    BY <1>13, <2>2
  <2>4. PICK i : Q1(i) /\ t = A1(i)
    BY <1>12, <2>3
  <2>5. Q2(i, j) /\ n = A2(i, j)
    BY <1>5, <1>7, <2>1, <2>4
  <2> QED BY <2>5
<1>14. ASSUME NEW n \in N, lev[n] = 1 PROVE \E i, j, k : Q3(i, j, k) /\ n = A3(i, j, k)
  <2>1. PICK t \in N, k \in Slots : E(t, k) /\ tab[t][k].page = n
    BY <1>1, <1>2, <1>14
  <2>2. lev[t] \in 1 .. 4 /\ lev[n] = lev[t] - 1
    BY <1>1, <2>1
  <2>3. lev[t] = 2
    BY <1>14, <2>2
  <2>4. PICK i, j : Q2(i, j) /\ t = A2(i, j)
    BY <1>13, <2>3
  <2>5. Q3(i, j, k) /\ n = A3(i, j, k)
    BY <1>5, <1>7, <2>1, <2>4
  <2> QED BY <2>5
<1>15. ASSUME NEW n \in N
       PROVE  \/ n = root
              \/ \E i : Q1(i) /\ n = A1(i)
              \/ \E i, j : Q2(i, j) /\ n = A2(i, j)
              \/ \E i, j, k : Q3(i, j, k) /\ n = A3(i, j, k)
  <2>1. lev[n] \in 1 .. 4
    BY <1>1
  <2>2. lev[n] = 1 \/ lev[n] = 2 \/ lev[n] = 3 \/ lev[n] = 4
    BY <2>1
  <2> QED BY <1>11, <1>12, <1>13, <1>14, <2>2
<1>16. \A i, a : Q1(i) /\ Q1(a) /\ A1(i) = A1(a) => i = a
  BY <1>1, <1>3, <1>6, <1>7
<1>17. \A i, j, a, b : Q2(i, j) /\ Q2(a, b) /\ A2(i, j) = A2(a, b) => i = a /\ j = b
  <2> SUFFICES ASSUME NEW i, NEW j, NEW a, NEW b, Q2(i, j), Q2(a, b), A2(i, j) = A2(a, b)
               PROVE  i = a /\ j = b
    OBVIOUS
  <2>1. /\ E(A1(i), j) /\ j \in Slots /\ Q1(i) /\ A1(i) \in N
        /\ E(A1(a), b) /\ b \in Slots /\ Q1(a) /\ A1(a) \in N
    BY <1>8, <1>9
  <2>2. A1(i) = A1(a) /\ j = b
    BY <1>3, <1>7, <2>1
  <2> QED BY <1>16, <2>1, <2>2
<1>18. \A i, j, k, a, b, c : Q3(i, j, k) /\ Q3(a, b, c) /\ A3(i, j, k) = A3(a, b, c)
         => i = a /\ j = b /\ k = c
  <2> SUFFICES ASSUME NEW i, NEW j, NEW k, NEW a, NEW b, NEW c,
                      Q3(i, j, k), Q3(a, b, c), A3(i, j, k) = A3(a, b, c)
               PROVE  i = a /\ j = b /\ k = c
    OBVIOUS
  <2>1. /\ E(A2(i, j), k) /\ k \in Slots /\ Q2(i, j) /\ A2(i, j) \in N
        /\ E(A2(a, b), c) /\ c \in Slots /\ Q2(a, b) /\ A2(a, b) \in N
    BY <1>9, <1>10
  <2>2. A2(i, j) = A2(a, b) /\ k = c
    BY <1>3, <1>7, <2>1
  <2> QED BY <1>17, <2>1, <2>2
<1>19. /\ \A i : Q1(i) => A1(i) \in N /\ lev[A1(i)] = 3
       /\ \A i, j : Q2(i, j) => A2(i, j) \in N /\ lev[A2(i, j)] = 2
       /\ \A i, j, k : Q3(i, j, k) => A3(i, j, k) \in N /\ lev[A3(i, j, k)] = 1
  BY <1>8, <1>9, <1>10
<1> QED BY <1>15, <1>16, <1>17, <1>18, <1>19 DEF A1, A2, A3, Q1, Q2, Q3

\* The same, by the length of the path.
LEMMA TableInIs ==
  /\ \A tab, r, i : TableIn(tab, r, <<i>>) = P1(tab, r, i)
  /\ \A tab, r, i, j : TableIn(tab, r, <<i, j>>) = P2(tab, r, i, j)
  /\ \A tab, r, i, j, k : TableIn(tab, r, <<i, j, k>>) = P3(tab, r, i, j, k)
<1>1. \A tab, r, i : TableIn(tab, r, <<i>>) = P1(tab, r, i)
  BY DEF TableIn, P1
<1>2. \A tab, r, i, j : TableIn(tab, r, <<i, j>>) = P2(tab, r, i, j)
  BY DEF TableIn, P1, P2
<1>3. \A tab, r, i, j, k : TableIn(tab, r, <<i, j, k>>) = P3(tab, r, i, j, k)
  BY DEF TableIn, P1, P2, P3
<1> QED BY <1>1, <1>2, <1>3

\* TableAt, by the length of the path.
LEMMA TableAtIs ==
  /\ \A r, i : TableAt(r, <<i>>) = P1(tables, r, i)
  /\ \A r, i, j : TableAt(r, <<i, j>>) = P2(tables, r, i, j)
  /\ \A r, i, j, k : TableAt(r, <<i, j, k>>) = P3(tables, r, i, j, k)
<1>1. \A r, i : TableAt(r, <<i>>) = P1(tables, r, i)
  BY DEF TableAt, P1
<1>2. \A r, i, j : TableAt(r, <<i, j>>) = P2(tables, r, i, j)
  BY DEF TableAt, P1, P2
<1>3. \A r, i, j, k : TableAt(r, <<i, j, k>>) = P3(tables, r, i, j, k)
  BY DEF TableAt, P1, P2, P3
<1> QED BY <1>1, <1>2, <1>3

\* OwnTables are the paths of the tree, and TableAt where they lead.
LEMMA OwnPaths ==
  ASSUME NEW r
  PROVE  /\ \A q \in OwnTables(r) : Leads(tables, r, OwnSlots(r), q, TableAt(r, q))
         /\ \A q, t : Leads(tables, r, OwnSlots(r), q, t) => q \in OwnTables(r) /\ t = TableAt(r, q)
<1> DEFINE W == OwnSlots(r)
           one == {<<i>> : i \in W}
           two == UNION {{Append(p, i) : i \in ChildSlots(TableAt(r, p))} : p \in one}
           three == UNION {{Append(p, i) : i \in ChildSlots(TableAt(r, p))} : p \in two}
<1>1. OwnTables(r) = one \cup two \cup three
  BY DEF OwnTables
<1>2. \A i : Path1(tables, r, W, i) <=> i \in W
  BY DEF Path1, Edge, OwnSlots
<1>3. \A i, j : Path2(tables, r, W, i, j) <=> i \in W /\ j \in ChildSlots(TableAt(r, <<i>>))
  BY <1>2, TableAtIs DEF Path2, ChildSlots
<1>4. \A i, j, k : Path3(tables, r, W, i, j, k) <=>
                     /\ i \in W /\ j \in ChildSlots(TableAt(r, <<i>>))
                     /\ k \in ChildSlots(TableAt(r, <<i, j>>))
  BY <1>3, TableAtIs DEF Path3, ChildSlots
<1>5. \A i, j \in Slots : Append(<<i>>, j) = <<i, j>>
  <2> SUFFICES ASSUME NEW i \in Slots, NEW j \in Slots PROVE Append(<<i>>, j) = <<i, j>>
    OBVIOUS
  <2>1. <<i>> \in Seq(Slots) /\ Len(<<i>>) = 1 /\ <<i>>[1] = i
    OBVIOUS
  <2> DEFINE s == Append(<<i>>, j)
             t == <<i, j>>
  <2>2. s \in Seq(Slots) /\ Len(s) = 2 /\ s[1] = i /\ s[2] = j
    BY <2>1, AppendProperties
  <2>3. t \in Seq(Slots) /\ Len(t) = 2 /\ t[1] = i /\ t[2] = j
    OBVIOUS
  <2> HIDE DEF s, t
  <2>4. s = t
    BY <2>2, <2>3, SeqEqual
  <2> QED BY <2>4 DEF s, t
<1>6. \A i, j, k \in Slots : Append(<<i, j>>, k) = <<i, j, k>>
  <2> SUFFICES ASSUME NEW i \in Slots, NEW j \in Slots, NEW k \in Slots
               PROVE  Append(<<i, j>>, k) = <<i, j, k>>
    OBVIOUS
  <2>1. <<i, j>> \in Seq(Slots) /\ Len(<<i, j>>) = 2 /\ <<i, j>>[1] = i /\ <<i, j>>[2] = j
    OBVIOUS
  <2> DEFINE s == Append(<<i, j>>, k)
             t == <<i, j, k>>
  <2>2. s \in Seq(Slots) /\ Len(s) = 3 /\ s[1] = i /\ s[2] = j /\ s[3] = k
    BY <2>1, AppendProperties
  <2>3. t \in Seq(Slots) /\ Len(t) = 3 /\ t[1] = i /\ t[2] = j /\ t[3] = k
    OBVIOUS
  <2> HIDE DEF s, t
  <2>4. s = t
    BY <2>2, <2>3, SeqEqual
  <2> QED BY <2>4 DEF s, t
<1>7. W \subseteq Slots /\ \A t : ChildSlots(t) \subseteq Slots
  BY DEF OwnSlots, ChildSlots
<1> HIDE DEF W
<1>8. \A q : q \in one <=> \E i \in W : q = <<i>>
  OBVIOUS
<1>9. \A q : q \in two <=> \E p \in one : \E j \in ChildSlots(TableAt(r, p)) : q = Append(p, j)
  <2> HIDE DEF one
  <2> QED OBVIOUS
<1>10. \A q : q \in three <=> \E p \in two : \E j \in ChildSlots(TableAt(r, p)) : q = Append(p, j)
  <2> HIDE DEF two
  <2> QED OBVIOUS
<1> HIDE DEF one, two, three
<1>11. \A q : q \in two <=> \E i \in W : \E j \in ChildSlots(TableAt(r, <<i>>)) : q = <<i, j>>
  <2>1. ASSUME NEW q \in two
        PROVE  \E i \in W : \E j \in ChildSlots(TableAt(r, <<i>>)) : q = <<i, j>>
    <3>1. PICK p \in one : \E j \in ChildSlots(TableAt(r, p)) : q = Append(p, j)
      BY <1>9
    <3>2. PICK i \in W : p = <<i>>
      BY <1>8
    <3> QED BY <1>5, <1>7, <3>1, <3>2
  <2>2. ASSUME NEW i \in W, NEW j \in ChildSlots(TableAt(r, <<i>>)) PROVE <<i, j>> \in two
    <3>1. <<i>> \in one /\ <<i, j>> = Append(<<i>>, j)
      BY <1>5, <1>8, <1>7
    <3> QED BY <1>9, <3>1
  <2> QED BY <2>1, <2>2
<1>12. \A q : q \in three <=>
                \E i \in W : \E j \in ChildSlots(TableAt(r, <<i>>)) :
                  \E k \in ChildSlots(TableAt(r, <<i, j>>)) : q = <<i, j, k>>
  <2>1. ASSUME NEW q \in three
        PROVE  \E i \in W : \E j \in ChildSlots(TableAt(r, <<i>>)) :
                  \E k \in ChildSlots(TableAt(r, <<i, j>>)) : q = <<i, j, k>>
    <3>1. PICK p \in two : \E k \in ChildSlots(TableAt(r, p)) : q = Append(p, k)
      BY <1>10
    <3>2. PICK i \in W : \E j \in ChildSlots(TableAt(r, <<i>>)) : p = <<i, j>>
      BY <1>11
    <3>3. PICK j \in ChildSlots(TableAt(r, <<i>>)) : p = <<i, j>>
      BY <3>2
    <3> QED BY <1>6, <1>7, <3>1, <3>3
  <2>2. ASSUME NEW i \in W, NEW j \in ChildSlots(TableAt(r, <<i>>)),
               NEW k \in ChildSlots(TableAt(r, <<i, j>>))
        PROVE  <<i, j, k>> \in three
    <3>1. <<i, j>> \in two /\ <<i, j, k>> = Append(<<i, j>>, k)
      BY <1>6, <1>11, <1>7
    <3> QED BY <1>10, <3>1
  <2> QED BY <2>1, <2>2
<1>13. ASSUME NEW q \in OwnTables(r) PROVE Leads(tables, r, W, q, TableAt(r, q))
  <2>1. CASE q \in one
    BY <1>2, <1>8, <2>1, TableAtIs DEF Leads
  <2>2. CASE q \in two
    <3>1. PICK i, j : i \in W /\ j \in ChildSlots(TableAt(r, <<i>>)) /\ q = <<i, j>>
      BY <1>11, <2>2
    <3>2. Path2(tables, r, W, i, j) /\ TableAt(r, q) = P2(tables, r, i, j)
      BY <1>3, <3>1, TableAtIs
    <3> QED BY <3>1, <3>2 DEF Leads
  <2>3. CASE q \in three
    <3>1. PICK i, j, k : /\ i \in W /\ j \in ChildSlots(TableAt(r, <<i>>))
                         /\ k \in ChildSlots(TableAt(r, <<i, j>>)) /\ q = <<i, j, k>>
      <4>1. PICK i \in W : \E j \in ChildSlots(TableAt(r, <<i>>)) :
              \E k \in ChildSlots(TableAt(r, <<i, j>>)) : q = <<i, j, k>>
        BY <1>12, <2>3
      <4>2. PICK j \in ChildSlots(TableAt(r, <<i>>)) :
              \E k \in ChildSlots(TableAt(r, <<i, j>>)) : q = <<i, j, k>>
        BY <4>1
      <4> QED BY <4>2
    <3>2. Path3(tables, r, W, i, j, k) /\ TableAt(r, q) = P3(tables, r, i, j, k)
      BY <1>4, <3>1, TableAtIs
    <3> QED BY <3>1, <3>2 DEF Leads
  <2> QED BY <1>1, <2>1, <2>2, <2>3
<1>14. ASSUME NEW q, NEW t, Leads(tables, r, W, q, t) PROVE q \in OwnTables(r) /\ t = TableAt(r, q)
  <2>1. CASE \E i : Path1(tables, r, W, i) /\ q = <<i>> /\ t = P1(tables, r, i)
    BY <1>1, <1>2, <1>8, <2>1, TableAtIs
  <2>2. CASE \E i, j : Path2(tables, r, W, i, j) /\ q = <<i, j>> /\ t = P2(tables, r, i, j)
    BY <1>1, <1>3, <1>11, <2>2, TableAtIs
  <2>3. CASE \E i, j, k : Path3(tables, r, W, i, j, k) /\ q = <<i, j, k>> /\ t = P3(tables, r, i, j, k)
    <3>1. PICK i, j, k : Path3(tables, r, W, i, j, k) /\ q = <<i, j, k>> /\ t = P3(tables, r, i, j, k)
      BY <2>3
    <3>2. q \in three
      BY <1>4, <1>12, <3>1
    <3> QED BY <1>1, <3>1, <3>2, TableAtIs
  <2> QED BY <1>14, <2>1, <2>2, <2>3 DEF Leads
<1> QED BY <1>13, <1>14 DEF W

\* The paths of a program's tree, as paging_destroy_address_space finds them.
LEMMA DoomedIs ==
  ASSUME NEW M, NEW lev, IsTree(tables, Root, OwnSlots(Root), M, lev),
         doomed' = OwnTables(Root), UNCHANGED <<tables, process, g_pml4>>
  PROVE  DoomedTree(M)'
<1> DEFINE W == OwnSlots(Root)
           D == OwnTables(Root)
           L(q, t) == Leads(tables, Root, W, q, t)
           At(q) == TableAt(Root, q)
           Q1(i) == Path1(tables, Root, W, i)
           Q2(i, j) == Path2(tables, Root, W, i, j)
           Q3(i, j, k) == Path3(tables, Root, W, i, j, k)
           A1(i) == P1(tables, Root, i)
           A2(i, j) == P2(tables, Root, i, j)
           A3(i, j, k) == P3(tables, Root, i, j, k)
<1>1. (\A q \in D : L(q, At(q))) /\ (\A q, t : L(q, t) => q \in D /\ t = At(q))
  BY OwnPaths
<1> HIDE DEF W
<1>2. IsTree(tables, Root, W, M, lev)
  BY DEF W
<1>3. /\ \A i : Q1(i) => A1(i) \in M /\ lev[A1(i)] = 3
      /\ \A i, j : Q2(i, j) => A2(i, j) \in M /\ lev[A2(i, j)] = 2
      /\ \A i, j, k : Q3(i, j, k) => A3(i, j, k) \in M /\ lev[A3(i, j, k)] = 1
  BY <1>2, TreePaths
<1>4. \A n \in M : \/ n = Root
                   \/ \E i : Q1(i) /\ n = A1(i)
                   \/ \E i, j : Q2(i, j) /\ n = A2(i, j)
                   \/ \E i, j, k : Q3(i, j, k) /\ n = A3(i, j, k)
  BY <1>2, TreePaths
<1>5. /\ \A i, a : Q1(i) /\ Q1(a) /\ A1(i) = A1(a) => i = a
      /\ \A i, j, a, b : Q2(i, j) /\ Q2(a, b) /\ A2(i, j) = A2(a, b) => i = a /\ j = b
  BY <1>2, TreePaths
<1>6. \A i, j, k, a, b, c : Q3(i, j, k) /\ Q3(a, b, c) /\ A3(i, j, k) = A3(a, b, c)
        => i = a /\ j = b /\ k = c
  BY <1>2, TreePaths
<1>7. Root \in M /\ lev[Root] = 4
  BY <1>2 DEF IsTree
<1>8. \A q, t : L(q, t) <=> \/ \E i : Q1(i) /\ q = <<i>> /\ t = A1(i)
                            \/ \E i, j : Q2(i, j) /\ q = <<i, j>> /\ t = A2(i, j)
                            \/ \E i, j, k : Q3(i, j, k) /\ q = <<i, j, k>> /\ t = A3(i, j, k)
  BY DEF Leads
<1>9. /\ \A i : Q1(i) => i \in Slots
      /\ \A i, j : Q2(i, j) => Q1(i) /\ j \in Slots
      /\ \A i, j, k : Q3(i, j, k) => Q2(i, j) /\ k \in Slots
  BY DEF Path1, Path2, Path3
<1> HIDE DEF D, L, At, Q1, Q2, Q3, A1, A2, A3
<1>10. ASSUME NEW q \in D
       PROVE  \/ \E i : Q1(i) /\ q = <<i>> /\ At(q) = A1(i)
              \/ \E i, j : Q2(i, j) /\ q = <<i, j>> /\ At(q) = A2(i, j)
              \/ \E i, j, k : Q3(i, j, k) /\ q = <<i, j, k>> /\ At(q) = A3(i, j, k)
  BY <1>1, <1>8
<1>11. /\ \A i : Q1(i) => <<i>> \in D /\ At(<<i>>) = A1(i)
       /\ \A i, j : Q2(i, j) => <<i, j>> \in D /\ At(<<i, j>>) = A2(i, j)
       /\ \A i, j, k : Q3(i, j, k) => <<i, j, k>> \in D /\ At(<<i, j, k>>) = A3(i, j, k)
  BY <1>1, <1>8
<1>12. M = {Root} \cup {At(q) : q \in D}
  <2>1. \A q \in D : At(q) \in M
    BY <1>3, <1>10
  <2>2. \A n \in M : n = Root \/ \E q \in D : n = At(q)
    <3> SUFFICES ASSUME NEW n \in M, n # Root PROVE \E q \in D : n = At(q)
      OBVIOUS
    <3>1. CASE \E i : Q1(i) /\ n = A1(i)
      BY <1>11, <3>1
    <3>2. CASE \E i, j : Q2(i, j) /\ n = A2(i, j)
      BY <1>11, <3>2
    <3>3. CASE \E i, j, k : Q3(i, j, k) /\ n = A3(i, j, k)
      <4>1. PICK i, j, k : Q3(i, j, k) /\ n = A3(i, j, k)
        BY <3>3
      <4>2. <<i, j, k>> \in D /\ n = At(<<i, j, k>>)
        BY <1>11, <4>1
      <4> QED BY <4>2
    <3> QED BY <1>4, <3>1, <3>2, <3>3
  <2> QED BY <1>7, <2>1, <2>2
<1>13. \A q \in D : At(q) # Root
  BY <1>3, <1>7, <1>10
<1>14. \A q, s \in D : At(q) = At(s) => q = s
  <2> SUFFICES ASSUME NEW q \in D, NEW s \in D, At(q) = At(s) PROVE q = s
    OBVIOUS
  <2>1. CASE \E i : Q1(i) /\ q = <<i>> /\ At(q) = A1(i)
    <3>1. lev[At(s)] = 3
      BY <1>3, <2>1
    <3>2. \E i : Q1(i) /\ s = <<i>> /\ At(s) = A1(i)
      BY <1>3, <1>10, <3>1
    <3> QED BY <1>5, <2>1, <3>2
  <2>2. CASE \E i, j : Q2(i, j) /\ q = <<i, j>> /\ At(q) = A2(i, j)
    <3>1. lev[At(s)] = 2
      BY <1>3, <2>2
    <3>2. \E i, j : Q2(i, j) /\ s = <<i, j>> /\ At(s) = A2(i, j)
      BY <1>3, <1>10, <3>1
    <3> QED BY <1>5, <2>2, <3>2
  <2>3. CASE \E i, j, k : Q3(i, j, k) /\ q = <<i, j, k>> /\ At(q) = A3(i, j, k)
    <3>1. lev[At(s)] = 1
      BY <1>3, <2>3
    <3>2. \E i, j, k : Q3(i, j, k) /\ s = <<i, j, k>> /\ At(s) = A3(i, j, k)
      BY <1>3, <1>10, <3>1
    <3> QED BY <1>6, <2>3, <3>2
  <2> QED BY <1>10, <2>1, <2>2, <2>3
<1>15. ASSUME NEW q \in D
       PROVE  /\ q \in Seq(Slots)
              /\ Len(q) \in 1 .. 3
              /\ Len(q) > 1 => <<q[1]>> \in D
              /\ Len(q) > 2 => <<q[1], q[2]>> \in D
  <2>1. CASE \E i : Q1(i) /\ q = <<i>>
    BY <1>9, <2>1
  <2>2. CASE \E i, j : Q2(i, j) /\ q = <<i, j>>
    BY <1>9, <1>11, <2>2
  <2>3. CASE \E i, j, k : Q3(i, j, k) /\ q = <<i, j, k>>
    BY <1>9, <1>11, <2>3
  <2> QED BY <1>10, <2>1, <2>2, <2>3
<1>16. Root' = Root /\ doomed' = D /\ \A q : TableAt(Root, q)' = At(q)
  BY DEF Root, D, At, TableAt
<1>17. /\ M = {Root'} \cup {TableAt(Root, q)' : q \in doomed'}
       /\ \A q \in doomed' : TableAt(Root, q)' # Root'
       /\ \A q, r \in doomed' : TableAt(Root, q)' = TableAt(Root, r)' => q = r
  BY <1>12, <1>13, <1>14, <1>16
<1> QED BY <1>15, <1>16, <1>17 DEF DoomedTree

\* paging_destroy_address_space begins, if there is a root.
LEMMA BeginDestroyKeeps ==
  ASSUME Inv, \/ BeginDestroy("fail_root", "fail_tables", "release_image")
              \/ BeginDestroy("release_root", "release_tables", "idle")
  PROVE  Inv'
<1>1. PICK at, destroying, next :
        /\ BeginDestroy(at, destroying, next)
        /\ \/ at = "fail_root" /\ destroying = "fail_tables" /\ next = "release_image"
           \/ at = "release_root" /\ destroying = "release_tables" /\ next = "idle"
  OBVIOUS
<1>2. /\ pc = at
      /\ IF Root # 0 /\ Root # g_pml4
           THEN doomed' = OwnTables(Root) /\ pc' = destroying
           ELSE pc' = next /\ doomed' = doomed
      /\ UNCHANGED <<free, held, drops, wrong_frees, tables, g_pml4, cr3, job, framebuffer>>
      /\ UNCHANGED <<process, active, program, saved_root, line>> /\ Root' = Root
  BY <1>1 DEF BeginDestroy, storeVars, processVars, Root
<1>3. /\ Booted /\ ~ Destroying /\ pc # "pml4" /\ doomed = {} /\ cr3 = g_pml4 /\ ~ active
      /\ NoBacking /\ (at = "fail_root" => Root # 0)
      /\ (at = "release_root" => process.file_buffer = NULL)
      /\ g_pml4 # 0
  BY <1>1, <1>2 DEF Booted, BootPhases, Destroying, Inv, Control, Active, InSpace
<1>4. CASE Root = 0
  <2>1. at = "release_root" /\ pc' = "idle" /\ doomed' = doomed /\ Booted' /\ ~ Destroying'
    BY <1>1, <1>2, <1>3, <1>4 DEF Booted, BootPhases, Destroying
  <2>2. Types'
    BY <1>2, <2>1 DEF Inv, Types
  <2>3. Control'
    BY <1>2, <1>3, <1>4, <2>1 DEF Control, NoBacking, NULL, Block, BootPhases
  <2>4. Active'
    BY <1>2, <1>3, <2>1 DEF Active, InSpace, BootPhases
  <2>5. UserJobs'
    BY <1>2, <2>1 DEF Inv, UserJobs, Placed, InSpace, LoadPhases
  <2> QED BY <1>2, <1>3, <1>4, <2>1, <2>2, <2>3, <2>4, <2>5, QuietStep
<1>5. CASE Root # 0
  <2>1. PICK N, lev, M, mlev : Space(N, lev, M, mlev)
    BY <1>3, <1>5, SpaceExists
  <2>2. /\ Owned(N, lev, M, mlev) /\ StoreOK /\ Root # g_pml4
        /\ IsTree(tables, Root, OwnSlots(Root), M, mlev)
    <3>1. Root \in M /\ g_pml4 \in N /\ N \cap M = {}
      BY <2>1 DEF Space
    <3> QED BY <2>1, <3>1 DEF Space
  <2>3. doomed' = OwnTables(Root) /\ pc' = destroying
    BY <1>2, <1>5, <2>2
  <2>4. pc' # "pml4" /\ Destroying' /\ Booted'
    BY <1>1, <2>3 DEF Destroying, Booted, BootPhases
  <2>5. DoomedTree(M)'
    BY <1>2, <2>2, <2>3, DoomedIs
  <2>6. UserTree(M, mlev)'
    BY <1>2, <1>5, <2>4, <2>5 DEF UserTree
  <2>7. KernelTree(N, lev)'
    BY <1>2, <1>3, <2>2, <2>4 DEF Owned, KernelTree
  <2>8. Accounts(N, M)' /\ StoreOK'
    BY <1>2, <2>2 DEF Owned, Accounts, Fields, NULL, Block, Blocks, StoreOK, RunPages,
                      Store!RunPages
  <2>9. Memory'
    BY <2>6, <2>7, <2>8 DEF Memory
  <2>10. Types'
    BY <1>1, <1>2, <2>3 DEF Inv, Types, LeavePhases
  <2>11. Control'
    BY <1>1, <1>2, <1>3, <1>5, <2>3, <2>4 DEF Control, NoBacking, NULL, Block, BootPhases
  <2>12. Active'
    BY <1>1, <1>2, <1>3, <2>3 DEF Active, InSpace, BootPhases
  <2>13. UserJobs'
    BY <1>1, <1>2, <2>3 DEF Inv, UserJobs, Placed, InSpace, LoadPhases
  <2>14. BootJob'
    BY <1>2, <1>3, <2>4, SameKernel DEF Inv, Types
  <2> QED BY <2>9, <2>10, <2>11, <2>12, <2>13, <2>14 DEF Inv
<1> QED BY <1>4, <1>5

\* A table of the program goes back to the store; the kernel's are not it.
LEMMA TableFreed ==
  ASSUME Inv, Destroying, pc' # "pml4", g_pml4' = g_pml4,
         NEW N, NEW lev, NEW M, Accounts(N, M), KernelTree(N, lev),
         NEW t \in M, free_pages(Block(t, 1)), \A g \in FieldNames : process'[g] = process[g]
  PROVE  /\ StoreOK' /\ KernelTree(N, lev)' /\ Accounts(N, M \ {t})'
         /\ tables' \in Tables /\ drops' \in 0 .. MaxDrops /\ wrong_frees' = wrong_frees
         /\ tables'[g_pml4] = tables[g_pml4]
         /\ AllBut(tables, tables', M, t)
<1>1. /\ held = Blocks(N) \cup Blocks(M) \cup Fields
      /\ N \cap M = {}
      /\ Fields \cap Blocks(N \cup M) = {}
      /\ \A g, h \in FieldNames : process[g] = process[h] /\ process[g] # NULL => g = h
  BY AccountsSay
<1>2. StoreOK /\ tables \in Tables /\ drops \in 0 .. MaxDrops /\ pc # "pml4"
  BY DEF Inv, Memory, Types, Destroying
<1> DEFINE b == Block(t, 1)
           K == N \cup M
<1>3. \A p \in K : Block(p, 1) \in held /\ (p # t => b # Block(p, 1))
  BY <1>1 DEF Blocks, Block
<1>4. b \in held
  BY <1>3
<1> HIDE DEF b, K
<1>5. K \subseteq AllPages /\ \A p \in K : b # Block(p, 1) => p \notin RunPages(b)
  BY <1>2, <1>3, <1>4, TablesApart
<1>6. /\ StoreOK' /\ held' = held \ {b} /\ drops' \in 0 .. MaxDrops
      /\ wrong_frees' = wrong_frees /\ tables' \in Tables
      /\ \A p \in AllPages : p \notin RunPages(b) => tables'[p] = tables[p]
  BY <1>2, <1>4, FreeFacts DEF b
<1>7. \A p \in K : p # t => tables'[p] = tables[p]
  BY <1>3, <1>5, <1>6
<1>8. \A p \in N : tables'[p] = tables[p]
  BY <1>1, <1>7 DEF K
<1>9. KernelTree(N, lev)' /\ tables'[g_pml4] = tables[g_pml4]
  BY <1>2, <1>8, KernelKept
<1>10. Fields' = Fields
  BY FieldNamed
<1> DEFINE M2 == M \ {t}
<1>11. /\ Blocks(M2) = Blocks(M) \ {b} /\ b \notin Blocks(N) /\ b \in Blocks(N \cup M)
       /\ Blocks(N \cup M2) \subseteq Blocks(N \cup M) /\ N \cap M2 = {}
  <2>1. \A p, q : Block(p, 1) = Block(q, 1) => p = q
    BY DEF Block
  <2>2. \A S, x : x \in Blocks(S) <=> \E p \in S : x = Block(p, 1)
    BY DEF Blocks
  <2>3. Blocks(M2) = Blocks(M) \ {b}
    <3>1. ASSUME NEW x PROVE x \in Blocks(M2) <=> x \in Blocks(M) /\ x # b
      BY <2>1, <2>2 DEF b
    <3> QED BY <3>1
  <2>4. b \notin Blocks(N) /\ b \in Blocks(N \cup M)
    BY <1>1, <2>1, <2>2 DEF b
  <2>5. Blocks(N \cup M2) \subseteq Blocks(N \cup M) /\ N \cap M2 = {}
    BY <1>1, <2>2
  <2> QED BY <2>3, <2>4, <2>5
<1> HIDE DEF M2
<1>12. held' = Blocks(N) \cup Blocks(M2) \cup Fields' /\ Fields' \cap Blocks(N \cup M2) = {}
  BY <1>1, <1>6, <1>10, <1>11
<1>13. \A g, h \in FieldNames : process'[g] = process'[h] /\ process'[g] # NULL => g = h
  BY <1>1
<1>14. Accounts(N, M2)'
  BY <1>11, <1>12, <1>13, AccountsNext
<1> QED BY <1>6, <1>7, <1>9, <1>14 DEF M2, K, AllBut

\* The rest of the invariant while tables go.
LEMMA DestroyStep ==
  ASSUME Inv, Destroying, pc' = pc \/ (pc = "fail_tables" /\ pc' = "release_image")
                                   \/ (pc = "release_tables" /\ pc' = "idle"),
         UNCHANGED <<g_pml4, cr3, job, framebuffer, active, program, saved_root, line>>,
         process' \in ProcessTypes, process'.image_base = process.image_base,
         \A g \in FieldNames : process'[g] = process[g],
         IF pc' = pc THEN Root' = Root ELSE Root' = 0 /\ doomed' = {},
         tables' \in Tables, drops' \in 0 .. MaxDrops, wrong_frees' = wrong_frees,
         tables'[g_pml4] = tables[g_pml4], Memory'
  PROVE  Inv'
<1>1. pc \in {"fail_tables", "release_tables"} /\ Booted /\ Booted' /\ (Destroying' <=> pc' = pc)
  BY DEF Destroying, Booted, BootPhases
<1>2. /\ process'.image_backing = process.image_backing
      /\ process'.stack_backing = process.stack_backing
      /\ process'.file_buffer = process.file_buffer
  BY DEF FieldNames
<1>3. /\ NoBacking /\ Root # 0 /\ (pc = "release_tables" => process.file_buffer = NULL)
      /\ cr3 = g_pml4 /\ ~ active /\ g_pml4 # 0
  BY <1>1 DEF Inv, Control, Active, InSpace, BootPhases
<1>4. Types'
  BY <1>1 DEF Inv, Types, LeavePhases
<1>5. Control'
  BY <1>1, <1>2, <1>3 DEF Control, NoBacking, NULL, Block, BootPhases
<1>6. Active'
  BY <1>1, <1>3 DEF Active, InSpace, BootPhases
<1>7. UserJobs'
  BY <1>1 DEF Inv, UserJobs, Placed, InSpace, LoadPhases
<1>8. BootJob'
  BY <1>1, SameKernel DEF Inv, Types
<1> QED BY <1>4, <1>5, <1>6, <1>7, <1>8 DEF Inv

\* A path without a longer one below it goes; the others lead where they did.
LEMMA DoomedLess ==
  ASSUME NEW M, DoomedTree(M), NEW path \in doomed, IsLeafmost(path),
         doomed' = doomed \ {path}, Root' = Root, NEW t, t = TableAt(Root, path),
         \A p \in M : p # t => tables'[p] = tables[p]
  PROVE  DoomedTree(M \ {t})'
<1> DEFINE At(q) == TableAt(Root, q)
<1>1. /\ M = {Root} \cup {At(q) : q \in doomed}
      /\ \A q \in doomed : At(q) # Root
      /\ \A q, r \in doomed : At(q) = At(r) => q = r
  BY DEF DoomedTree
<1>2. \A q \in doomed : /\ q \in Seq(Slots)
                        /\ Len(q) \in 1 .. 3
                        /\ Len(q) > 1 => <<q[1]>> \in doomed
                        /\ Len(q) > 2 => <<q[1], q[2]>> \in doomed
  BY DEF DoomedTree
<1>3. ASSUME NEW q \in doomed
      PROVE  /\ Len(q) = 1 => q = <<q[1]>>
             /\ Len(q) = 2 => q = <<q[1], q[2]>>
             /\ Len(q) = 3 => q = <<q[1], q[2], q[3]>>
             /\ Len(q) > 1 => SubSeq(q, 1, 1) = <<q[1]>>
             /\ Len(q) > 2 => SubSeq(q, 1, 2) = <<q[1], q[2]>>
             /\ Len(q) \in 1 .. 3
  <2>1. q \in Seq(Slots) /\ Len(q) \in 1 .. 3
    BY <1>2
  <2>2. Len(q) > 1 => SubSeq(q, 1, 1) = <<q[1]>>
    <3> SUFFICES ASSUME Len(q) > 1 PROVE SubSeq(q, 1, 1) = <<q[1]>>
      OBVIOUS
    <3> DEFINE a == SubSeq(q, 1, 1)
               b == <<q[1]>>
    <3>1. \A i \in 1 .. 1 : q[i] \in Slots
      BY <2>1
    <3>2. a \in Seq(Slots) /\ Len(a) = 1 /\ a[1] = q[1]
      BY <3>1, SubSeqProperties
    <3>3. b \in Seq(Slots) /\ Len(b) = 1 /\ b[1] = q[1]
      BY <3>1
    <3> HIDE DEF a, b
    <3>4. a = b
      BY <3>2, <3>3, SeqEqual
    <3> QED BY <3>4 DEF a, b
  <2>3. Len(q) > 2 => SubSeq(q, 1, 2) = <<q[1], q[2]>>
    <3> SUFFICES ASSUME Len(q) > 2 PROVE SubSeq(q, 1, 2) = <<q[1], q[2]>>
      OBVIOUS
    <3> DEFINE a == SubSeq(q, 1, 2)
               b == <<q[1], q[2]>>
    <3>1. \A i \in 1 .. 2 : q[i] \in Slots
      BY <2>1
    <3>2. a \in Seq(Slots) /\ Len(a) = 2 /\ a[1] = q[1] /\ a[2] = q[2]
      BY <3>1, SubSeqProperties
    <3>3. b \in Seq(Slots) /\ Len(b) = 2 /\ b[1] = q[1] /\ b[2] = q[2]
      BY <3>1
    <3> HIDE DEF a, b
    <3>4. a = b
      BY <3>2, <3>3, SeqEqual
    <3> QED BY <3>4 DEF a, b
  <2>4. Len(q) = 1 => q = <<q[1]>>
    BY <2>1
  <2>5. Len(q) = 2 => q = <<q[1], q[2]>>
    BY <2>1
  <2>6. Len(q) = 3 => q = <<q[1], q[2], q[3]>>
    BY <2>1
  <2> QED BY <2>1, <2>2, <2>3, <2>4, <2>5, <2>6
<1>4. ASSUME NEW q \in doomed
      PROVE  /\ Len(q) > 1 => <<q[1]>> # path
             /\ Len(q) > 2 => <<q[1], q[2]>> # path
  <2>1. \A p \in doomed : Len(p) > Len(path) => SubSeq(p, 1, Len(path)) # path
    BY DEF IsLeafmost
  <2>2. ASSUME Len(q) > 1, <<q[1]>> = path PROVE FALSE
    <3>1. Len(path) = 1
      BY <2>2
    <3> QED BY <1>3, <2>1, <2>2, <3>1
  <2>3. ASSUME Len(q) > 2, <<q[1], q[2]>> = path PROVE FALSE
    <3>1. Len(path) = 2
      BY <2>3
    <3> QED BY <1>3, <2>1, <2>3, <3>1
  <2> QED BY <2>2, <2>3
<1>5. t = At(path)
  OBVIOUS
<1>6. tables'[Root] = tables[Root] /\ \A q \in doomed : q # path => tables'[At(q)] = tables[At(q)]
  BY <1>1
<1>7. \A q \in doomed : TableAt(Root, q)' = At(q)
  <2> SUFFICES ASSUME NEW q \in doomed PROVE TableAt(Root, q)' = At(q)
    OBVIOUS
  <2>1. /\ \A i : At(<<i>>) = P1(tables, Root, i) /\ TableAt(Root, <<i>>)' = P1(tables', Root, i)
        /\ \A i, j : At(<<i, j>>) = P2(tables, Root, i, j)
                     /\ TableAt(Root, <<i, j>>)' = P2(tables', Root, i, j)
        /\ \A i, j, k : At(<<i, j, k>>) = P3(tables, Root, i, j, k)
                        /\ TableAt(Root, <<i, j, k>>)' = P3(tables', Root, i, j, k)
    <3>1. \A p : TableAt(Root, p)' = TableIn(tables', Root, p)
      BY DEF TableAt, TableIn
    <3> QED BY <3>1, TableAtIs, TableInIs
  <2>2. \A i : P1(tables', Root, i) = P1(tables, Root, i)
    BY <1>6 DEF P1
  <2>3. CASE Len(q) = 1
    BY <1>3, <2>1, <2>2, <2>3
  <2>4. CASE Len(q) = 2
    <3>1. <<q[1]>> \in doomed /\ <<q[1]>> # path /\ q = <<q[1], q[2]>>
      BY <1>2, <1>3, <1>4, <2>4
    <3>2. tables'[P1(tables, Root, q[1])] = tables[P1(tables, Root, q[1])]
      BY <1>6, <2>1, <3>1
    <3>3. P2(tables', Root, q[1], q[2]) = P2(tables, Root, q[1], q[2])
      BY <2>2, <3>2 DEF P2
    <3> QED BY <2>1, <3>1, <3>3
  <2>5. CASE Len(q) = 3
    <3>1. /\ <<q[1]>> \in doomed /\ <<q[1]>> # path /\ q = <<q[1], q[2], q[3]>>
          /\ <<q[1], q[2]>> \in doomed /\ <<q[1], q[2]>> # path
      BY <1>2, <1>3, <1>4, <2>5
    <3>2. /\ tables'[P1(tables, Root, q[1])] = tables[P1(tables, Root, q[1])]
          /\ tables'[P2(tables, Root, q[1], q[2])] = tables[P2(tables, Root, q[1], q[2])]
      BY <1>6, <2>1, <3>1
    <3>3. P2(tables', Root, q[1], q[2]) = P2(tables, Root, q[1], q[2])
      BY <2>2, <3>2 DEF P2
    <3>4. P3(tables', Root, q[1], q[2], q[3]) = P3(tables, Root, q[1], q[2], q[3])
      BY <3>2, <3>3 DEF P3
    <3> QED BY <2>1, <3>1, <3>4
  <2>6. Len(q) = 1 \/ Len(q) = 2 \/ Len(q) = 3
    BY <1>3
  <2> QED BY <2>3, <2>4, <2>5, <2>6
<1> HIDE DEF At
<1>8. M \ {t} = {Root} \cup {At(q) : q \in doomed \ {path}}
  BY <1>1, <1>5
<1>9. \A q \in doomed' : q \in doomed /\ TableAt(Root, q)' = At(q)
  BY <1>7
<1>10. M \ {t} = {Root'} \cup {TableAt(Root, q)' : q \in doomed'}
  BY <1>8, <1>9
<1>11. \A q \in doomed' : /\ q \in Seq(Slots)
                          /\ Len(q) \in 1 .. 3
                          /\ Len(q) > 1 => <<q[1]>> \in doomed'
                          /\ Len(q) > 2 => <<q[1], q[2]>> \in doomed'
                          /\ TableAt(Root, q)' # Root'
  BY <1>1, <1>2, <1>4, <1>9
<1>12. \A q, r \in doomed' : TableAt(Root, q)' = TableAt(Root, r)' => q = r
  BY <1>1, <1>9
<1> QED BY <1>10, <1>11, <1>12 DEF DoomedTree

\* destroy_table_tree frees a table.
LEMMA DestroyKeeps ==
  ASSUME Inv, Destroy("fail_tables") \/ Destroy("release_tables")
  PROVE  Inv'
<1>1. /\ Destroying /\ pc' = pc /\ pc' # "pml4"
      /\ UNCHANGED <<g_pml4, cr3, job, framebuffer>>
      /\ UNCHANGED <<process, active, program, saved_root, line>> /\ Root' = Root
  BY DEF Destroy, DestroyTable, Destroying, processVars, Root
<1>2. PICK path \in doomed : /\ IsLeafmost(path)
                             /\ free_pages(Block(TableAt(Root, path), 1))
                             /\ doomed' = doomed \ {path}
  BY DEF Destroy, DestroyTable, Root
<1>3. PICK N, lev, M, mlev : Owned(N, lev, M, mlev)
  BY DEF Inv, Memory, Owned
<1>4. Root # 0 /\ process \in ProcessTypes
  BY <1>1 DEF Destroying, Inv, Control, Types
<1>5. Accounts(N, M) /\ KernelTree(N, lev) /\ DoomedTree(M)
  BY <1>1, <1>3, <1>4 DEF Owned, UserTree
<1>6. PICK t : t = TableAt(Root, path)
  OBVIOUS
<1>7. t \in M
  BY <1>5, <1>6 DEF DoomedTree
<1>8. free_pages(Block(t, 1)) /\ \A g \in FieldNames : process'[g] = process[g]
  BY <1>1, <1>2, <1>6
<1>9. /\ StoreOK' /\ KernelTree(N, lev)' /\ Accounts(N, M \ {t})'
      /\ tables' \in Tables /\ drops' \in 0 .. MaxDrops /\ wrong_frees' = wrong_frees
      /\ tables'[g_pml4] = tables[g_pml4]
      /\ \A p \in M : p # t => tables'[p] = tables[p]
  <2>1. /\ StoreOK' /\ KernelTree(N, lev)' /\ Accounts(N, M \ {t})'
        /\ tables' \in Tables /\ drops' \in 0 .. MaxDrops /\ wrong_frees' = wrong_frees
        /\ tables'[g_pml4] = tables[g_pml4]
    BY <1>1, <1>5, <1>7, <1>8, TableFreed
  <2>2. AllBut(tables, tables', M, t)
    BY <1>1, <1>5, <1>7, <1>8, TableFreed
  <2> QED BY <2>1, <2>2 DEF AllBut
<1>10. DoomedTree(M \ {t})'
  BY <1>1, <1>2, <1>5, <1>9, <1>6, DoomedLess
<1>11. UserTree(M \ {t}, mlev)'
  BY <1>1, <1>4, <1>10 DEF UserTree, Destroying
<1>12. Memory'
  BY <1>9, <1>11 DEF Memory
<1> QED BY <1>1, <1>4, <1>8, <1>9, <1>12, DestroyStep

\* paging_destroy_address_space frees the root.
LEMMA FreeRootKeeps ==
  ASSUME Inv, FreeRoot("fail_tables", "release_image") \/ FreeRoot("release_tables", "idle")
  PROVE  Inv'
<1>1. /\ Destroying /\ doomed = {} /\ doomed' = {}
      /\ \/ pc = "fail_tables" /\ pc' = "release_image"
         \/ pc = "release_tables" /\ pc' = "idle"
      /\ free_pages(Block(Root, 1))
      /\ process' = [process EXCEPT !.page_table_root = 0]
      /\ UNCHANGED <<g_pml4, cr3, job, framebuffer, active, program, saved_root, line>>
  BY DEF FreeRoot, Destroying, Root
<1>2. PICK N, lev, M, mlev : Owned(N, lev, M, mlev)
  BY DEF Inv, Memory, Owned
<1>3. Root # 0 /\ process \in ProcessTypes /\ pc' # "pml4"
  BY <1>1 DEF Destroying, Inv, Control, Types
<1>4. /\ process' \in ProcessTypes /\ Root' = 0 /\ process'.image_base = process.image_base
      /\ \A g \in FieldNames : process'[g] = process[g]
  BY <1>1, <1>3 DEF ProcessTypes, Root, FieldNames
<1>5. Accounts(N, M) /\ KernelTree(N, lev) /\ DoomedTree(M)
  BY <1>1, <1>2, <1>3 DEF Owned, UserTree
<1>6. M = {Root}
  BY <1>1, <1>5 DEF DoomedTree
<1>7. PICK t : t = Root
  OBVIOUS
<1>8. t \in M /\ free_pages(Block(t, 1)) /\ M \ {t} = {}
  BY <1>1, <1>6, <1>7
<1>9. /\ StoreOK' /\ KernelTree(N, lev)' /\ Accounts(N, M \ {t})'
      /\ tables' \in Tables /\ drops' \in 0 .. MaxDrops /\ wrong_frees' = wrong_frees
      /\ tables'[g_pml4] = tables[g_pml4]
  BY <1>1, <1>3, <1>4, <1>5, <1>8, TableFreed
<1>10. UserTree(M \ {t}, mlev)'
  BY <1>4, <1>8 DEF UserTree
<1>11. Memory'
  BY <1>9, <1>10 DEF Memory
<1>12. IF pc' = pc THEN Root' = Root ELSE Root' = 0 /\ doomed' = {}
  BY <1>1, <1>4
<1> QED BY <1>1, <1>4, <1>9, <1>11, <1>12, DestroyStep

-----------------------------------------------------------------------------
(* The invariant, and what follows from it. *)

\* The machine starts with all pages free and no table.
LEMMA InitInv ==
  ASSUME Init
  PROVE  Inv
<1>1. /\ pc = "pml4" /\ free \in Pools /\ held = {} /\ drops = 0 /\ wrong_frees = {}
      /\ tables = [p \in AllPages |-> EmptyTable] /\ g_pml4 = 0 /\ cr3 = 0 /\ job = NoJob
      /\ doomed = {} /\ framebuffer \in Framebuffers
      /\ process = IdleProcess /\ active = FALSE /\ saved_root = 0 /\ line = NoLine
  BY DEF Init, PagingInit
<1>2. /\ process \in ProcessTypes /\ Root = 0 /\ process.image_base = 0
      /\ process.image_backing = NULL /\ process.stack_backing = NULL
      /\ process.file_buffer = NULL
  <2>1. process \in ProcessTypes
    BY <1>1 DEF IdleProcess, ProcessTypes, NULL, Block, Run0
  <2> QED BY <1>1, <2>1 DEF IdleProcess, Root
<1>3. Types
  <2>1. EmptyTable \in Rows
    BY DEF EmptyTable, NoEntry, Entry, Rows
  <2>2. tables \in Tables
    BY <1>1, <2>1 DEF Tables
  <2>3. line \in LineTypes /\ line.len <= line.capacity
    BY <1>1 DEF NoLine, LineTypes
  <2>4. drops \in 0 .. MaxDrops
    BY <1>1, PagingAssumption
  <2> QED BY <1>1, <1>2, <2>2, <2>3, <2>4, NoJobTyped DEF Types, BootPhases
<1>4. Control
  BY <1>1, <1>2 DEF Control, NoBacking, Destroying, BootPhases
<1>5. Active
  BY <1>1 DEF Active, BootPhases, InSpace
<1>6. Memory
  <2>1. StoreOK
    BY <1>1 DEF StoreOK, AllPages
  <2>2. Fields = {} /\ Blocks({}) = {}
    BY <1>2 DEF Fields, Blocks
  <2>3. Accounts({}, {})
    BY <1>1, <1>2, <2>2 DEF Accounts
  <2>4. KernelTree({}, 0) /\ UserTree({}, 0)
    BY <1>1, <1>2 DEF KernelTree, UserTree
  <2> QED BY <2>1, <2>3, <2>4 DEF Memory
<1>7. BootJob
  BY <1>1 DEF BootJob, BootPhases, Booted
<1>8. UserJobs
  <2>1. 0 \in Nat /\ process.image_base = 0 * PageSize
    BY <1>2, LayoutAssumption
  <2> QED BY <1>1, <2>1 DEF UserJobs, LoadPhases, Placed, InSpace
<1> QED BY <1>3, <1>4, <1>5, <1>6, <1>7, <1>8 DEF Inv

\* Nothing happens.
LEMMA StutterInv ==
  ASSUME Inv, UNCHANGED vars
  PROVE  Inv'
<1>1. /\ pc' = pc
      /\ UNCHANGED <<free, held, drops, wrong_frees, tables, g_pml4, cr3, job, doomed, framebuffer>>
      /\ UNCHANGED <<process, active, program, saved_root, line>> /\ Root' = Root
  BY DEF vars, pagingVars, storeVars, processVars, Root
<1>2. Memory'
  BY <1>1, SameMemory DEF Inv, Destroying
<1>3. Types'
  BY <1>1 DEF Inv, Types
<1>4. Control'
  BY <1>1 DEF Inv, Control, NoBacking, NULL, Block, Destroying
<1>5. Active'
  BY <1>1 DEF Inv, Active
<1>6. BootJob'
  <2>1. \A v : KernelSlot(v)' = KernelSlot(v)
    BY <1>1 DEF KernelSlot
  <2>2. FramebufferPages' = FramebufferPages /\ (Booted' <=> Booted)
    BY <1>1 DEF FramebufferPages, Booted
  <2>3. LargeStops(TableEntries, job.virt) => LargeStops(TableEntries, job.virt)'
    BY <1>1 DEF LargeStops, Stop, IsTable, Below
  <2>4. LargeStops(job.virt, job.end) => LargeStops(job.virt, job.end)'
    BY <1>1 DEF LargeStops, Stop, IsTable, Below
  <2>5. (Booted => \A v \in FramebufferPages : KernelSlot(v).kind = "table" => KernelSlot(v).a)'
    BY <1>1, <2>1, <2>2 DEF Inv, BootJob
  <2> QED BY <1>1, <2>1, <2>2, <2>3, <2>4, <2>5 DEF Inv, BootJob
<1>7. UserJobs'
  <2>1. \A v : UserSlot(v)' <=> UserSlot(v)
    BY <1>1, SamePages
  <2>2. ImagePages' = ImagePages
    BY <1>1 DEF ImagePages
  <2>3. (pc = "read_line" => process_user_range_valid(line.buffer, line.capacity)
                             /\ line.len < line.capacity)'
    BY <1>1 DEF Inv, UserJobs, process_user_range_valid, process_range_contains, ImageBytes
  <2>4. (pc \in {"stage", "start"} \cup InSpace =>
           \A v \in ImagePages \cup StackRange : UserSlot(v))'
    BY <1>1, <2>1, <2>2 DEF Inv, UserJobs, InSpace
  <2>5. (pc = "mapping_stack" =>
           /\ job.end = PageOf(StackBase) + StackPages
           /\ \A v \in ImagePages : UserSlot(v)
           /\ \A v \in PageOf(StackBase) .. (job.virt - 1) : UserSlot(v))'
    BY <1>1, <2>1, <2>2 DEF Inv, UserJobs
  <2>6. (pc = "mapping_image" =>
           /\ job.end = PageOf(process.image_base) + process.image_pages
           /\ \A v \in PageOf(process.image_base) .. (job.virt - 1) : UserSlot(v))'
    BY <1>1, <2>1, <2>2 DEF Inv, UserJobs
  <2> QED BY <1>1, <2>3, <2>4, <2>5, <2>6 DEF Inv, UserJobs
<1> QED BY <1>2, <1>3, <1>4, <1>5, <1>6, <1>7 DEF Inv

\* Every step keeps the invariant.
LEMMA NextInv ==
  ASSUME Inv, [Next]_vars
  PROVE  Inv'
<1>1. CASE Kernel
  <2>1. CASE Boot /\ UNCHANGED processVars
    BY <2>1, BootKeeps
  <2>2. CASE AllocFileBuffer \/ AllocImage \/ AllocStack
    BY <2>2, AllocForKeeps
  <2>3. CASE LoadFails \/ LoadFile \/ CreateRoot
    BY <2>3, LoadFailsKeeps, LoadFileKeeps, CreateRootKeeps
  <2>4. CASE BeginMapImage \/ ImageMapped \/ StackMapped
    BY <2>4, JobsKeep
  <2>5. CASE MapUser
    BY <2>5, MapUserKeeps
  <2>6. CASE Stage \/ CopyImage \/ Start
    BY <2>6, StageKeeps, CopyImageKeeps, StartKeeps
  <2>7. CASE Return
    BY <2>7, ReturnKeeps
  <2>8. CASE PrepareFails \/ Release
    <3>1. CASE FreesField
      BY <3>1, FreeFieldKeeps
    <3>2. CASE \/ BeginDestroy("fail_root", "fail_tables", "release_image")
               \/ BeginDestroy("release_root", "release_tables", "idle")
      BY <3>2, BeginDestroyKeeps
    <3>3. CASE Destroy("fail_tables") \/ Destroy("release_tables")
      BY <3>3, DestroyKeeps
    <3>4. CASE FreeRoot("fail_tables", "release_image") \/ FreeRoot("release_tables", "idle")
      BY <3>4, FreeRootKeeps
    <3> QED BY <2>8, <3>1, <3>2, <3>3, <3>4 DEF PrepareFails, Release, FreesField
  <2> QED BY <1>1, <2>1, <2>2, <2>3, <2>4, <2>5, <2>6, <2>7, <2>8 DEF Kernel
<1>2. CASE User
  <2>1. CASE RunForeground
    BY <2>1, RunForegroundKeeps
  <2>2. CASE SyscallExit \/ UserFault \/ SyscallRefused \/ SyscallReadLine
    BY <2>2, CallsKeep
  <2>3. CASE SyscallWrite
    BY <2>3, SyscallWriteKeeps
  <2>4. CASE KeyChar \/ KeyBackspace \/ KeyEnter
    BY <2>4, KeysKeep
  <2> QED BY <1>2, <2>1, <2>2, <2>3, <2>4 DEF User
<1>3. CASE UNCHANGED vars
  BY <1>3, StutterInv
<1> QED BY <1>1, <1>2, <1>3 DEF Next

\* In every state of every run, every block that was lent has one owner, and the
\* tables of the kernel and of the program are trees: the invariant above.
THEOREM PagesAreOwned == Spec => []Inv
<1>1. Init => Inv
  BY InitInv
<1>2. Inv /\ [Next]_vars => Inv'
  BY NextInv
<1> QED BY <1>1, <1>2, PTL DEF Spec

\* free_pages is only called for a block that alloc_pages lent and nobody has
\* freed, whichever step of process_prepare_address_space failed.
THEOREM NoWrongFree == Spec => []FreesExact
<1>1. Inv => FreesExact
  BY DEF Inv, Types, FreesExact
<1> QED BY <1>1, PagesAreOwned, PTL

\* The number of pages of a block that is lent.
LEMMA HeldSizes ==
  ASSUME StoreOK
  PROVE  held \subseteq [base : AllPages, pages : 1 .. Cardinality(AllPages)]
<1> SUFFICES ASSUME NEW b \in held
             PROVE  b \in [base : AllPages, pages : 1 .. Cardinality(AllPages)]
  OBVIOUS
<1>1. b \in [base : AllPages, pages : Nat \ {0}] /\ RunPages(b) \subseteq AllPages
  BY DEF StoreOK
<1>2. b.base \in Nat /\ b.pages \in Nat \ {0} /\ b.base + b.pages - 1 \in Nat
  <2>1. b.base \in AllPages /\ b.pages \in Nat \ {0}
    BY <1>1
  <2>2. b.base \in Nat
    BY <2>1, PageFacts
  <2> QED BY <2>1, <2>2
<1> DEFINE S == b.base .. (b.base + b.pages - 1)
<1>3. RunPages(b) = S
  BY DEF RunPages, Store!RunPages
<1>4. Cardinality(S) = b.pages
  <2>1. b.base \in Int /\ b.base + b.pages - 1 \in Int /\ b.base <= b.base + b.pages - 1
    BY <1>2
  <2>2. Cardinality(S) = (b.base + b.pages - 1) - b.base + 1
    BY <2>1, FS_Interval
  <2> QED BY <1>2, <2>2
<1> HIDE DEF S
<1>5. Cardinality(S) <= Cardinality(AllPages) /\ Cardinality(AllPages) \in Nat
  <2>1. S \in SUBSET AllPages /\ IsFiniteSet(AllPages)
    BY <1>1, <1>3, PageFacts
  <2> QED BY <2>1, FS_Subset, FS_CardinalityType
<1>6. b.pages \in 1 .. Cardinality(AllPages)
  BY <1>2, <1>4, <1>5
<1> QED BY <1>1, <1>6

\* The variables keep their types: no block leaves the pages memory_init found,
\* and the line editor stays inside the buffer the program gave it.
THEOREM ProcessTypeCorrect == Spec => []TypeOK
<1>1. Inv => TypeOK
  <2> SUFFICES ASSUME Inv PROVE TypeOK
    OBVIOUS
  <2>1. held \subseteq [base : AllPages, pages : 1 .. Cardinality(AllPages)]
    BY HeldSizes DEF Inv, Memory
  <2>2. free \subseteq AllPages
    BY DEF Inv, Memory, StoreOK
  <2>3. process.page_table_root \in AllPages \cup {0}
    BY DEF Inv, Types, ProcessTypes
  <2>4. line.len \in 0 .. line.capacity
    BY DEF Inv, Types, LineTypes
  <2> QED BY <2>1, <2>2, <2>3, <2>4 DEF Inv, Types, TypeOK, Tables, Rows
<1> QED BY <1>1, PagesAreOwned, PTL

\* The same, entry by entry.
LEMMA KidsAre ==
  ASSUME NEW ts
  PROVE  \A x : x \in Kids(ts) <=>
           \E t \in ts, i \in Slots : tables[t][i].kind = "table" /\ x = tables[t][i].page
<1>1. ASSUME NEW x \in Kids(ts)
      PROVE  \E t \in ts, i \in Slots : tables[t][i].kind = "table" /\ x = tables[t][i].page
  <2>1. PICK p \in ts \X Slots : tables[p[1]][p[2]].kind = "table" /\ x = tables[p[1]][p[2]].page
    BY DEF Kids
  <2>2. p[1] \in ts /\ p[2] \in Slots
    BY <2>1
  <2> QED BY <2>1, <2>2
<1>2. ASSUME NEW t \in ts, NEW i \in Slots, tables[t][i].kind = "table"
      PROVE  tables[t][i].page \in Kids(ts)
  <2> DEFINE p == <<t, i>>
  <2>1. p \in ts \X Slots /\ p[1] = t /\ p[2] = i
    OBVIOUS
  <2> HIDE DEF p
  <2>2. tables[p[1]][p[2]].page \in Kids(ts)
    BY <1>2, <2>1 DEF Kids
  <2> QED BY <2>1, <2>2
<1> QED BY <1>1, <1>2

\* What a walk may read, level by level.
LEMMA ReachableIs ==
  ASSUME NEW root
  PROVE  Reachable(root) = {root} \cup Kids({root}) \cup Kids(Kids({root}))
                             \cup Kids(Kids(Kids({root})))
BY DEF Reachable, Kids

\* A set of tables that holds the root and, with a table, the tables below it
\* holds all that a walk may read.
LEMMA ReachableWithin ==
  ASSUME NEW root, NEW S, root \in S,
         \A t \in S, i \in Slots : tables[t][i].kind = "table" => tables[t][i].page \in S
  PROVE  Reachable(root) \subseteq S
<1>1. ASSUME NEW ts \in SUBSET S PROVE Kids(ts) \in SUBSET S
  BY KidsAre
<1>2. {root} \in SUBSET S
  OBVIOUS
<1>3. Kids({root}) \in SUBSET S
  BY <1>1, <1>2
<1>4. Kids(Kids({root})) \in SUBSET S
  BY <1>1, <1>3
<1>5. Kids(Kids(Kids({root}))) \in SUBSET S
  BY <1>1, <1>4
<1> QED BY <1>3, <1>4, <1>5, ReachableIs

\* A walk from the kernel's root reads the tables of its tree, all of them.
LEMMA KernelReach ==
  ASSUME NEW N, NEW lev, IsTree(tables, g_pml4, Slots, N, lev)
  PROVE  Reachable(g_pml4) = N
<1>1. Reachable(g_pml4) \subseteq N
  <2>1. /\ g_pml4 \in N
        /\ \A t \in N, i \in Slots : tables[t][i].kind = "table" => tables[t][i].page \in N
    BY DEF IsTree, Edge
  <2> QED BY <2>1, ReachableWithin
<1> DEFINE r == g_pml4
           Q1(i) == Path1(tables, r, Slots, i)
           Q2(i, j) == Path2(tables, r, Slots, i, j)
           Q3(i, j, k) == Path3(tables, r, Slots, i, j, k)
           A1(i) == P1(tables, r, i)
           A2(i, j) == P2(tables, r, i, j)
           A3(i, j, k) == P3(tables, r, i, j, k)
           K1 == Kids({r})
           K2 == Kids(K1)
           K3 == Kids(K2)
<1>2. \A n \in N : \/ n = r
                   \/ \E i : Q1(i) /\ n = A1(i)
                   \/ \E i, j : Q2(i, j) /\ n = A2(i, j)
                   \/ \E i, j, k : Q3(i, j, k) /\ n = A3(i, j, k)
  BY TreePaths
<1>3. \A i : Q1(i) => i \in Slots /\ tables[r][i].kind = "table" /\ A1(i) = tables[r][i].page
  BY DEF Path1, Edge, P1
<1>4. \A i, j : Q2(i, j) => /\ Q1(i) /\ j \in Slots /\ tables[A1(i)][j].kind = "table"
                            /\ A2(i, j) = tables[A1(i)][j].page
  BY DEF Path2, P2
<1>5. \A i, j, k : Q3(i, j, k) => /\ Q2(i, j) /\ k \in Slots /\ tables[A2(i, j)][k].kind = "table"
                                  /\ A3(i, j, k) = tables[A2(i, j)][k].page
  BY DEF Path3, P3
<1>6. Reachable(g_pml4) = {r} \cup K1 \cup K2 \cup K3
  BY ReachableIs
<1>7. /\ \A x : x \in K1 <=> \E i \in Slots : tables[r][i].kind = "table" /\ x = tables[r][i].page
      /\ \A x : x \in K2 <=> \E t \in K1, i \in Slots :
                               tables[t][i].kind = "table" /\ x = tables[t][i].page
      /\ \A x : x \in K3 <=> \E t \in K2, i \in Slots :
                               tables[t][i].kind = "table" /\ x = tables[t][i].page
  BY KidsAre
<1> HIDE DEF r, Q1, Q2, Q3, A1, A2, A3, K1, K2, K3
<1>8. \A i : Q1(i) => A1(i) \in K1
  BY <1>3, <1>7
<1>9. \A i, j : Q2(i, j) => A2(i, j) \in K2
  BY <1>4, <1>7, <1>8
<1>10. \A i, j, k : Q3(i, j, k) => A3(i, j, k) \in K3
  BY <1>5, <1>7, <1>9
<1>11. N \subseteq Reachable(g_pml4)
  BY <1>2, <1>6, <1>8, <1>9, <1>10
<1> QED BY <1>1, <1>11

\* A walk from the program's root reads its own tables and the kernel's.
LEMMA UserReach ==
  ASSUME NEW N, NEW lev, NEW M, NEW mlev, Space(N, lev, M, mlev)
  PROVE  Reachable(Root) \subseteq N \cup M
<1>1. /\ IsTree(tables, g_pml4, Slots, N, lev) /\ RootShared
      /\ IsTree(tables, Root, OwnSlots(Root), M, mlev) /\ g_pml4 \in N /\ Root \in M
  BY DEF Space
<1> DEFINE S == N \cup M
<1>2. \A t \in N, i \in Slots : tables[t][i].kind = "table" => tables[t][i].page \in N
  BY <1>1 DEF IsTree, Edge
<1>3. \A t \in M, i \in Slots :
        tables[t][i].kind = "table" /\ (t = Root => i \in OwnSlots(Root)) => tables[t][i].page \in M
  BY <1>1 DEF IsTree, Edge
<1>4. \A i \in Slots : tables[Root][i].kind = "table" /\ i \notin OwnSlots(Root)
                         => tables[Root][i].page \in N
  <2>1. \A i \in Slots : tables[Root][i].kind = "table" /\ i \notin OwnSlots(Root)
                           => tables[Root][i] = tables[g_pml4][i]
    BY DEF OwnSlots
  <2> QED BY <1>1, <1>2, <2>1
<1>5. Root \in S /\ \A t \in S, i \in Slots : tables[t][i].kind = "table" => tables[t][i].page \in S
  BY <1>1, <1>2, <1>3, <1>4
<1> HIDE DEF S
<1>6. Reachable(Root) \subseteq S
  BY <1>5, ReachableWithin
<1> QED BY <1>6 DEF S

\* Whatever root the CPU walks, every table it may read is one nobody has freed.
THEOREM WalksAreSafe == Spec => []WalkedTablesHeld
<1>1. Inv => WalkedTablesHeld
  <2> SUFFICES ASSUME Inv, Booted,
                      NEW root \in {cr3, g_pml4} \cup (IF active THEN {saved_root} ELSE {}),
                      NEW t \in Reachable(root)
               PROVE  Block(t, 1) \in held
    BY DEF WalkedTablesHeld
  <2>1. pc # "pml4" /\ pc \notin BootPhases \cup {"panic"}
    BY DEF Booted, BootPhases
  <2>2. root = g_pml4 \/ (root = Root /\ Root # 0 /\ ~ Destroying)
    BY <2>1 DEF Inv, Active, Control, InSpace, Destroying
  <2>3. CASE root = g_pml4
    <3>1. PICK N, lev, M, mlev : KernelTree(N, lev) /\ UserTree(M, mlev) /\ Accounts(N, M)
      BY DEF Inv, Memory
    <3>2. Reachable(g_pml4) = N
      BY <2>1, <3>1, KernelReach DEF KernelTree
    <3> QED BY <2>3, <3>1, <3>2 DEF Accounts, Blocks
  <2>4. CASE root = Root /\ Root # 0 /\ ~ Destroying
    <3>1. PICK N, lev, M, mlev : Space(N, lev, M, mlev)
      BY <2>1, <2>4, SpaceExists
    <3>2. Reachable(Root) \subseteq N \cup M
      BY <3>1, UserReach
    <3> QED BY <2>4, <3>1, <3>2 DEF Space
  <2> QED BY <2>2, <2>3, <2>4
<1> QED BY <1>1, PagesAreOwned, PTL

\* At the prompt the kernel's page tables are the only memory in use, whatever
\* the last program did and wherever its loading failed.
THEOREM NoPageLeaks == Spec => []NothingLeaked
<1>1. Inv => NothingLeaked
  <2> SUFFICES ASSUME Inv, pc = "idle"
               PROVE  /\ held = {Block(t, 1) : t \in Reachable(g_pml4)}
                      /\ cr3 = g_pml4
                      /\ ~ active
    BY DEF NothingLeaked
  <2>1. PICK N, lev, M, mlev : KernelTree(N, lev) /\ UserTree(M, mlev) /\ Accounts(N, M)
    BY DEF Inv, Memory
  <2>2. NoBacking /\ process.file_buffer = NULL /\ Root = 0
    BY DEF Inv, Control
  <2>3. M = {} /\ Fields = {}
    BY <2>1, <2>2 DEF UserTree, Fields, NoBacking
  <2>4. held = Blocks(N)
    BY <2>1, <2>3 DEF Accounts, Blocks
  <2>5. Reachable(g_pml4) = N
    BY <2>1, KernelReach DEF KernelTree
  <2>6. cr3 = g_pml4 /\ ~ active
    BY DEF Inv, Active, BootPhases, InSpace
  <2> QED BY <2>4, <2>5, <2>6 DEF Blocks
<1> QED BY <1>1, PagesAreOwned, PTL

-----------------------------------------------------------------------------
(* Walks over the tables tab. *)

\* The tables the walk for v meets, and their levels.
LEMMA WayGraded ==
  ASSUME NEW tab, NEW root, NEW X, NEW lev, Graded(tab, root, X, lev), NEW v \in Nat
  PROVE  /\ Has(tab, root, v, 4) =>
              T3(tab, root, v) \in X /\ lev[T3(tab, root, v)] = 3
         /\ Has(tab, root, v, 4) /\ Has(tab, T3(tab, root, v), v, 3) =>
              T2(tab, root, v) \in X /\ lev[T2(tab, root, v)] = 2
         /\ Has(tab, root, v, 4) /\ Has(tab, T3(tab, root, v), v, 3)
              /\ Has(tab, T2(tab, root, v), v, 2) =>
              /\ T1(tab, root, v) \in X /\ lev[T1(tab, root, v)] = 1
              /\ tab[T1(tab, root, v)][IndexAt(v, 1)].kind # "table"
<1>1. \A l \in 1 .. 4 : IndexAt(v, l) \in Slots
  BY IndexFacts
<1>2. ASSUME NEW t \in X, NEW l \in 2 .. 4, Has(tab, t, v, l)
      PROVE  Down(tab, t, v, l) \in X /\ lev[Down(tab, t, v, l)] = lev[t] - 1
  BY <1>1, <1>2 DEF Graded, Has, Down
<1>3. root \in X /\ lev[root] = 4
  BY DEF Graded
<1>4. Has(tab, root, v, 4) => T3(tab, root, v) \in X /\ lev[T3(tab, root, v)] = 3
  BY <1>2, <1>3 DEF T3
<1> DEFINE a == T3(tab, root, v)
<1>5. Has(tab, root, v, 4) /\ Has(tab, a, v, 3) =>
        T2(tab, root, v) \in X /\ lev[T2(tab, root, v)] = 2
  <2>1. T2(tab, root, v) = Down(tab, a, v, 3)
    BY DEF T2
  <2> HIDE DEF a
  <2> QED BY <1>2, <1>4, <2>1 DEF a
<1> DEFINE b == T2(tab, root, v)
<1>6. Has(tab, root, v, 4) /\ Has(tab, a, v, 3) /\ Has(tab, b, v, 2) =>
        T1(tab, root, v) \in X /\ lev[T1(tab, root, v)] = 1
  <2>1. T1(tab, root, v) = Down(tab, b, v, 2)
    BY DEF T1
  <2> HIDE DEF b
  <2>2. Has(tab, root, v, 4) /\ Has(tab, a, v, 3) => b \in X /\ lev[b] = 2
    BY <1>5 DEF b
  <2> HIDE DEF a
  <2> QED BY <1>2, <2>1, <2>2
<1>7. ASSUME NEW t \in X, lev[t] = 1 PROVE tab[t][IndexAt(v, 1)].kind # "table"
  BY <1>1, <1>7 DEF Graded
<1> QED BY <1>4, <1>5, <1>6, <1>7

\* Mapping is that of a walk over the tables there are.
LEMMA MappingIs ==
  /\ \A root, v : Mapping(root, v) = MapIn(tables, root, v)
  /\ \A root, v : Mapping(root, v)' = MapIn(tables', root, v)
  /\ \A root, v : UserPath(root, v) <=> PathIn(tables, root, v)
<1>1. \A root, v : /\ Stop(root, v) = StopIn(tables, root, v)
                   /\ Stop(root, v)' = StopIn(tables', root, v)
  BY StopIs
<1>2. \A root, v : UserPath(root, v) <=> PathIn(tables, root, v)
  BY <1>1 DEF UserPath, PathIn, Below, T3, T2, Down
<1>3. \A root, v : UserPath(root, v)' <=> PathIn(tables', root, v)
  BY <1>1 DEF UserPath, PathIn, Below, T3, T2, Down
<1>4. \A root, v : Mapping(root, v) = MapIn(tables, root, v)
  <2> TAKE root, v
  <2>1. CASE UserPath(root, v)
    BY <1>1, <1>2, <2>1 DEF Mapping, MapIn, Final, EntryIn
  <2>2. CASE ~ UserPath(root, v)
    BY <1>1, <1>2, <2>2 DEF Mapping, MapIn, Final, EntryIn
  <2> QED BY <2>1, <2>2
<1>5. \A root, v : Mapping(root, v)' = MapIn(tables', root, v)
  <2> TAKE root, v
  <2>1. CASE UserPath(root, v)'
    BY <1>1, <1>3, <2>1 DEF Mapping, MapIn, Final, EntryIn
  <2>2. CASE ~ UserPath(root, v)'
    BY <1>1, <1>3, <2>2 DEF Mapping, MapIn, Final, EntryIn
  <2> QED BY <2>1, <2>2
<1> QED BY <1>2, <1>4, <1>5

-----------------------------------------------------------------------------
(* What a walk makes of a change. *)

\* One step of a walk through such tables.
LEMMA StepKept ==
  ASSUME NEW tab, NEW tb, NEW root, NEW X, NEW lev, Graded(tab, root, X, lev),
         Alike(tab, tb, X), NEW v \in Nat, NEW t \in X, NEW l \in {2, 3, 4},
         Has(tab, t, v, l)
  PROVE  /\ Has(tb, t, v, l)
         /\ Down(tb, t, v, l) = Down(tab, t, v, l)
         /\ tb[t][IndexAt(v, l)].u = tab[t][IndexAt(v, l)].u
BY IndexFacts DEF Alike, Has, Down

\* The walk for w takes the same way as far as it went.
LEMMA WayAlike ==
  ASSUME NEW tab, NEW tb, NEW root, NEW X, NEW lev, Graded(tab, root, X, lev),
         Alike(tab, tb, X), NEW v \in Nat
  PROVE  /\ Has(tab, root, v, 4) =>
              /\ Has(tb, root, v, 4)
              /\ T3(tb, root, v) = T3(tab, root, v)
              /\ tb[root][IndexAt(v, 4)].u = tab[root][IndexAt(v, 4)].u
         /\ Has(tab, root, v, 4) /\ Has(tab, T3(tab, root, v), v, 3) =>
              /\ Has(tb, T3(tab, root, v), v, 3)
              /\ T2(tb, root, v) = T2(tab, root, v)
              /\ tb[T3(tab, root, v)][IndexAt(v, 3)].u = tab[T3(tab, root, v)][IndexAt(v, 3)].u
         /\ Has(tab, root, v, 4) /\ Has(tab, T3(tab, root, v), v, 3)
              /\ Has(tab, T2(tab, root, v), v, 2) =>
              /\ Has(tb, T2(tab, root, v), v, 2)
              /\ T1(tb, root, v) = T1(tab, root, v)
              /\ tb[T2(tab, root, v)][IndexAt(v, 2)].u = tab[T2(tab, root, v)][IndexAt(v, 2)].u
<1> DEFINE a == T3(tab, root, v)
           b == T2(tab, root, v)
<1>1. root \in X
  BY DEF Graded
<1>2. /\ Has(tab, root, v, 4) => a \in X
      /\ Has(tab, root, v, 4) /\ Has(tab, a, v, 3) => b \in X
  BY WayGraded
<1>3. Has(tab, root, v, 4) =>
        /\ Has(tb, root, v, 4) /\ T3(tb, root, v) = a
        /\ tb[root][IndexAt(v, 4)].u = tab[root][IndexAt(v, 4)].u
  BY <1>1, StepKept DEF T3
<1>4. Has(tab, root, v, 4) /\ Has(tab, a, v, 3) =>
        /\ Has(tb, a, v, 3) /\ T2(tb, root, v) = b
        /\ tb[a][IndexAt(v, 3)].u = tab[a][IndexAt(v, 3)].u
  <2>1. T2(tab, root, v) = Down(tab, a, v, 3) /\ T2(tb, root, v) = Down(tb, T3(tb, root, v), v, 3)
    BY DEF T2
  <2> HIDE DEF a
  <2>2. Has(tab, root, v, 4) => T3(tb, root, v) = a /\ a \in X
    BY <1>2, <1>3
  <2> QED BY <2>1, <2>2, StepKept
<1>5. Has(tab, root, v, 4) /\ Has(tab, a, v, 3) /\ Has(tab, b, v, 2) =>
        /\ Has(tb, b, v, 2) /\ T1(tb, root, v) = T1(tab, root, v)
        /\ tb[b][IndexAt(v, 2)].u = tab[b][IndexAt(v, 2)].u
  <2>1. T1(tab, root, v) = Down(tab, b, v, 2) /\ T1(tb, root, v) = Down(tb, T2(tb, root, v), v, 2)
    BY DEF T1
  <2> HIDE DEF b
  <2>2. Has(tab, root, v, 4) /\ Has(tab, a, v, 3) => T2(tb, root, v) = b /\ b \in X
    BY <1>2, <1>4
  <2> HIDE DEF a
  <2> QED BY <2>1, <2>2, StepKept
<1> QED BY <1>3, <1>4, <1>5

\* Where the walk for v stops: a table of X, at the level it counts.
LEMMA StopGraded ==
  ASSUME NEW tab, NEW root, NEW X, NEW lev, Graded(tab, root, X, lev), NEW v \in Nat
  PROVE  /\ StopIn(tab, root, v).table \in X
         /\ StopIn(tab, root, v).level \in 1 .. 4
         /\ StopIn(tab, root, v).level = lev[StopIn(tab, root, v).table]
         /\ StopIn(tab, root, v).index \in Slots
         /\ StopIn(tab, root, v).index = IndexAt(v, StopIn(tab, root, v).level)
         /\ EntryIn(tab, root, v) \in Entry
         /\ EntryIn(tab, root, v).kind # "table"
<1> DEFINE a == T3(tab, root, v)
           b == T2(tab, root, v)
           c == T1(tab, root, v)
           s == StopIn(tab, root, v)
<1>1. root \in X /\ lev[root] = 4
  BY DEF Graded
<1>2. \A l \in 1 .. 4 : IndexAt(v, l) \in Slots
  BY IndexFacts
<1>3. \A t \in X, i \in Slots : tab[t][i] \in Entry
  BY DEF Graded, Tables, Rows
<1>4. /\ Has(tab, root, v, 4) => a \in X /\ lev[a] = 3
      /\ Has(tab, root, v, 4) /\ Has(tab, a, v, 3) => b \in X /\ lev[b] = 2
      /\ Has(tab, root, v, 4) /\ Has(tab, a, v, 3) /\ Has(tab, b, v, 2) =>
           c \in X /\ lev[c] = 1 /\ tab[c][IndexAt(v, 1)].kind # "table"
  BY WayGraded
<1>5. s = IF ~ Has(tab, root, v, 4) THEN [table |-> root, index |-> IndexAt(v, 4), level |-> 4]
          ELSE IF ~ Has(tab, a, v, 3) THEN [table |-> a, index |-> IndexAt(v, 3), level |-> 3]
          ELSE IF ~ Has(tab, b, v, 2) THEN [table |-> b, index |-> IndexAt(v, 2), level |-> 2]
          ELSE [table |-> c, index |-> IndexAt(v, 1), level |-> 1]
  BY DEF StopIn
<1>6. EntryIn(tab, root, v) = tab[s.table][s.index]
  BY DEF EntryIn
<1> HIDE DEF a, b, c, s
<1>7. /\ s.table \in X /\ s.level \in 1 .. 4 /\ s.level = lev[s.table]
      /\ s.index \in Slots /\ s.index = IndexAt(v, s.level)
      /\ tab[s.table][s.index].kind # "table"
  <2>1. CASE ~ Has(tab, root, v, 4)
    BY <1>1, <1>2, <1>5, <2>1 DEF Has
  <2>2. CASE Has(tab, root, v, 4) /\ ~ Has(tab, a, v, 3)
    BY <1>2, <1>4, <1>5, <2>2 DEF Has
  <2>3. CASE Has(tab, root, v, 4) /\ Has(tab, a, v, 3) /\ ~ Has(tab, b, v, 2)
    BY <1>2, <1>4, <1>5, <2>3 DEF Has
  <2>4. CASE Has(tab, root, v, 4) /\ Has(tab, a, v, 3) /\ Has(tab, b, v, 2)
    BY <1>2, <1>4, <1>5, <2>4
  <2> QED BY <2>1, <2>2, <2>3, <2>4
<1> QED BY <1>3, <1>6, <1>7 DEF s

\* The four ways a walk can end, over the tables of X and over those that are
\* alike: there a walk that ended may go on.
LEMMA WayKept ==
  ASSUME NEW tab, NEW tb, NEW root, NEW X, NEW lev, Graded(tab, root, X, lev),
         Alike(tab, tb, X), NEW v \in Nat,
         \/ StopIn(tab, root, v).level = 1
         \/ EntryIn(tab, root, v).kind # "table"
              /\ tb[StopIn(tab, root, v).table][StopIn(tab, root, v).index].kind # "table"
  PROVE  /\ StopIn(tb, root, v) = StopIn(tab, root, v)
         /\ PathIn(tb, root, v) <=> PathIn(tab, root, v)
<1> DEFINE a == T3(tab, root, v)
           b == T2(tab, root, v)
           c == T1(tab, root, v)
           s == StopIn(tab, root, v)
           H4 == Has(tab, root, v, 4)
           H3 == Has(tab, a, v, 3)
           H2 == Has(tab, b, v, 2)
           At(t, l) == [table |-> t, index |-> IndexAt(v, l), level |-> l]
<1>1. /\ H4 => /\ Has(tb, root, v, 4) /\ T3(tb, root, v) = a
               /\ tb[root][IndexAt(v, 4)].u = tab[root][IndexAt(v, 4)].u
      /\ H4 /\ H3 => /\ Has(tb, a, v, 3) /\ T2(tb, root, v) = b
                     /\ tb[a][IndexAt(v, 3)].u = tab[a][IndexAt(v, 3)].u
      /\ H4 /\ H3 /\ H2 => /\ Has(tb, b, v, 2) /\ T1(tb, root, v) = c
                           /\ tb[b][IndexAt(v, 2)].u = tab[b][IndexAt(v, 2)].u
  BY WayAlike
<1>2. s = IF ~ H4 THEN At(root, 4) ELSE IF ~ H3 THEN At(a, 3)
          ELSE IF ~ H2 THEN At(b, 2) ELSE At(c, 1)
  BY DEF StopIn
<1>3. StopIn(tb, root, v) =
        IF ~ Has(tb, root, v, 4) THEN At(root, 4)
        ELSE IF ~ Has(tb, T3(tb, root, v), v, 3) THEN At(T3(tb, root, v), 3)
        ELSE IF ~ Has(tb, T2(tb, root, v), v, 2) THEN At(T2(tb, root, v), 2)
        ELSE At(T1(tb, root, v), 1)
  BY DEF StopIn
<1>4. s.level = 1 \/ tb[s.table][s.index].kind # "table"
  OBVIOUS
<1>5. PathIn(tab, root, v) <=>
        /\ s.level < 4 => tab[root][IndexAt(v, 4)].u
        /\ s.level < 3 => tab[a][IndexAt(v, 3)].u
        /\ s.level < 2 => tab[b][IndexAt(v, 2)].u
  BY DEF PathIn
<1>6. StopIn(tb, root, v) = s =>
        (PathIn(tb, root, v) <=>
          /\ s.level < 4 => tb[root][IndexAt(v, 4)].u
          /\ s.level < 3 => tb[T3(tb, root, v)][IndexAt(v, 3)].u
          /\ s.level < 2 => tb[T2(tb, root, v)][IndexAt(v, 2)].u)
  BY DEF PathIn
<1> HIDE DEF s, a, b, c
<1>7. CASE ~ H4
  <2>1. s = At(root, 4)
    BY <1>2, <1>7
  <2>2. ~ Has(tb, root, v, 4)
    BY <1>4, <2>1 DEF Has
  <2>3. StopIn(tb, root, v) = s
    BY <1>3, <2>1, <2>2
  <2> QED BY <1>5, <1>6, <2>1, <2>3 DEF s
<1>8. CASE H4 /\ ~ H3
  <2>1. s = At(a, 3)
    BY <1>2, <1>8
  <2>2. ~ Has(tb, a, v, 3)
    BY <1>4, <2>1 DEF Has
  <2>3. StopIn(tb, root, v) = s
    BY <1>1, <1>3, <1>8, <2>1, <2>2
  <2> QED BY <1>1, <1>5, <1>6, <1>8, <2>1, <2>3 DEF s
<1>9. CASE H4 /\ H3 /\ ~ H2
  <2>1. s = At(b, 2)
    BY <1>2, <1>9
  <2>2. ~ Has(tb, b, v, 2)
    BY <1>4, <2>1 DEF Has
  <2>3. StopIn(tb, root, v) = s
    BY <1>1, <1>3, <1>9, <2>1, <2>2
  <2> QED BY <1>1, <1>5, <1>6, <1>9, <2>1, <2>3 DEF s
<1>10. CASE H4 /\ H3 /\ H2
  <2>1. s = At(c, 1)
    BY <1>2, <1>10
  <2>2. StopIn(tb, root, v) = s
    BY <1>1, <1>3, <1>10, <2>1
  <2> QED BY <1>1, <1>5, <1>6, <1>10, <2>1, <2>2 DEF s
<1> QED BY <1>7, <1>8, <1>9, <1>10

\* Where the walk for v stopped there is now the table d, without tables below.
LEMMA WaySpliced ==
  ASSUME NEW tab, NEW tb, NEW root, NEW X, NEW lev, Graded(tab, root, X, lev),
         Alike(tab, tb, X), NEW v \in Nat, NEW d, NEW l \in 2 .. 4,
         StopIn(tab, root, v).level = l,
         tb[StopIn(tab, root, v).table][StopIn(tab, root, v).index].kind = "table",
         tb[StopIn(tab, root, v).table][StopIn(tab, root, v).index].page = d,
         \A i \in Slots : tb[d][i].kind # "table"
  PROVE  /\ StopIn(tb, root, v) = [table |-> d, index |-> IndexAt(v, l - 1), level |-> l - 1]
         /\ PathIn(tb, root, v) <=>
              /\ PathIn(tab, root, v)
              /\ tb[StopIn(tab, root, v).table][StopIn(tab, root, v).index].u
<1> DEFINE a == T3(tab, root, v)
           b == T2(tab, root, v)
           c == T1(tab, root, v)
           s == StopIn(tab, root, v)
           H4 == Has(tab, root, v, 4)
           H3 == Has(tab, a, v, 3)
           H2 == Has(tab, b, v, 2)
           At(t, k) == [table |-> t, index |-> IndexAt(v, k), level |-> k]
<1>1. /\ H4 => /\ Has(tb, root, v, 4) /\ T3(tb, root, v) = a
               /\ tb[root][IndexAt(v, 4)].u = tab[root][IndexAt(v, 4)].u
      /\ H4 /\ H3 => /\ Has(tb, a, v, 3) /\ T2(tb, root, v) = b
                     /\ tb[a][IndexAt(v, 3)].u = tab[a][IndexAt(v, 3)].u
      /\ H4 /\ H3 /\ H2 => /\ Has(tb, b, v, 2) /\ T1(tb, root, v) = c
                           /\ tb[b][IndexAt(v, 2)].u = tab[b][IndexAt(v, 2)].u
  BY WayAlike
<1>2. s = IF ~ H4 THEN At(root, 4) ELSE IF ~ H3 THEN At(a, 3)
          ELSE IF ~ H2 THEN At(b, 2) ELSE At(c, 1)
  BY DEF StopIn
<1>3. StopIn(tb, root, v) =
        IF ~ Has(tb, root, v, 4) THEN At(root, 4)
        ELSE IF ~ Has(tb, T3(tb, root, v), v, 3) THEN At(T3(tb, root, v), 3)
        ELSE IF ~ Has(tb, T2(tb, root, v), v, 2) THEN At(T2(tb, root, v), 2)
        ELSE At(T1(tb, root, v), 1)
  BY DEF StopIn
<1>4. tb[s.table][s.index].kind = "table" /\ tb[s.table][s.index].page = d /\ s.level = l
  OBVIOUS
<1>5. PathIn(tab, root, v) <=>
        /\ s.level < 4 => tab[root][IndexAt(v, 4)].u
        /\ s.level < 3 => tab[a][IndexAt(v, 3)].u
        /\ s.level < 2 => tab[b][IndexAt(v, 2)].u
  BY DEF PathIn
<1> DEFINE z == StopIn(tb, root, v)
           e == tb[s.table][s.index]
<1>6. PathIn(tb, root, v) <=>
        /\ z.level < 4 => tb[root][IndexAt(v, 4)].u
        /\ z.level < 3 => tb[T3(tb, root, v)][IndexAt(v, 3)].u
        /\ z.level < 2 => tb[T2(tb, root, v)][IndexAt(v, 2)].u
  BY DEF PathIn
<1>7. \A k \in 1 .. 3 : ~ Has(tb, d, v, k)
  BY IndexFacts DEF Has
<1>8. /\ T2(tb, root, v) = Down(tb, T3(tb, root, v), v, 3)
      /\ T1(tb, root, v) = Down(tb, T2(tb, root, v), v, 2)
      /\ T3(tb, root, v) = Down(tb, root, v, 4)
  BY DEF T3, T2, T1
<1> SUFFICES z = At(d, l - 1) /\ (PathIn(tb, root, v) <=> PathIn(tab, root, v) /\ e.u)
  OBVIOUS
<1> HIDE DEF s, a, b, c
<1>9. CASE ~ H4
  <2>1. s = At(root, 4) /\ l = 4
    BY <1>2, <1>4, <1>9
  <2>2. Has(tb, root, v, 4) /\ T3(tb, root, v) = d /\ e = tb[root][IndexAt(v, 4)]
    BY <1>4, <1>8, <2>1 DEF Has, Down
  <2>3. z = At(d, 3)
    BY <1>7, <1>3, <2>2
  <2>4. PathIn(tab, root, v)
    BY <1>5, <2>1
  <2>5. PathIn(tb, root, v) <=> e.u
    <3> HIDE DEF e, z
    <3> QED BY <1>6, <2>2, <2>3
  <2> QED BY <2>1, <2>3, <2>4, <2>5
<1>10. CASE H4 /\ ~ H3
  <2>1. s = At(a, 3) /\ l = 3
    BY <1>2, <1>4, <1>10
  <2>2. /\ Has(tb, root, v, 4) /\ T3(tb, root, v) = a /\ Has(tb, a, v, 3)
        /\ T2(tb, root, v) = d /\ e = tb[a][IndexAt(v, 3)]
    BY <1>1, <1>4, <1>10, <1>8, <2>1 DEF Has, Down
  <2>3. z = At(d, 2)
    BY <1>7, <1>3, <2>2
  <2>4. PathIn(tab, root, v) <=> tab[root][IndexAt(v, 4)].u
    BY <1>5, <2>1
  <2>5. PathIn(tb, root, v) <=> tb[root][IndexAt(v, 4)].u /\ e.u
    <3> HIDE DEF e, z
    <3> QED BY <1>6, <2>2, <2>3
  <2> QED BY <1>1, <1>10, <2>1, <2>3, <2>4, <2>5
<1>11. CASE H4 /\ H3 /\ ~ H2
  <2>1. s = At(b, 2) /\ l = 2
    BY <1>2, <1>4, <1>11
  <2>2. /\ Has(tb, root, v, 4) /\ T3(tb, root, v) = a /\ Has(tb, a, v, 3)
        /\ T2(tb, root, v) = b /\ Has(tb, b, v, 2)
        /\ T1(tb, root, v) = d /\ e = tb[b][IndexAt(v, 2)]
    BY <1>1, <1>4, <1>11, <1>8, <2>1 DEF Has, Down
  <2>3. z = At(d, 1)
    BY <1>3, <2>2
  <2>4. PathIn(tab, root, v) <=> tab[root][IndexAt(v, 4)].u /\ tab[a][IndexAt(v, 3)].u
    BY <1>5, <2>1
  <2>5. PathIn(tb, root, v) <=>
          (tb[root][IndexAt(v, 4)].u /\ tb[a][IndexAt(v, 3)].u) /\ e.u
    <3> HIDE DEF e, z
    <3> QED BY <1>6, <2>2, <2>3
  <2> QED BY <1>1, <1>11, <2>1, <2>3, <2>4, <2>5
<1>12. CASE H4 /\ H3 /\ H2
  BY <1>2, <1>4, <1>12
<1> QED BY <1>9, <1>10, <1>11, <1>12

\* The mapping depends on the entry, the level and whether the way is for ring 3.
LEMMA FinalSame ==
  ASSUME NEW e \in Entry, NEW v \in Nat, NEW l \in 1 .. 4, NEW up, NEW uq, up <=> uq
  PROVE  Final(e, v, l, up) = Final(e, v, l, uq)
<1>1. CASE up
  BY <1>1 DEF Final
<1>2. CASE ~ up
  BY <1>2 DEF Final
<1> QED BY <1>1, <1>2

\* A page whose walk stops at the entry it stopped at is mapped as it was.
LEMMA MapKept ==
  ASSUME NEW tab, NEW tb, NEW root, NEW X, NEW lev, Graded(tab, root, X, lev),
         Alike(tab, tb, X), NEW v \in Nat,
         tb[StopIn(tab, root, v).table][StopIn(tab, root, v).index] = EntryIn(tab, root, v)
  PROVE  MapIn(tb, root, v) = MapIn(tab, root, v)
<1>1. EntryIn(tab, root, v) \in Entry /\ EntryIn(tab, root, v).kind # "table"
      /\ StopIn(tab, root, v).level \in 1 .. 4
  BY StopGraded
<1>2. /\ StopIn(tb, root, v) = StopIn(tab, root, v)
      /\ PathIn(tb, root, v) <=> PathIn(tab, root, v)
  BY <1>1, WayKept
<1>3. EntryIn(tb, root, v) = EntryIn(tab, root, v)
  BY <1>2 DEF EntryIn
<1> QED BY <1>1, <1>2, <1>3, FinalSame DEF MapIn

\* A small page of a split large one maps what the large one did.
LEMMA SplitFinal ==
  ASSUME NEW e \in Entry, NEW v \in Nat, e.kind # "none" => ~ e.a,
         NEW up, NEW uq, uq <=> up /\ e.u
  PROVE  Final(SplitTable(e)[IndexAt(v, 1)], v, 1, uq) = Final(e, v, 2, up)
<1>1. TableEntries \in Nat \ {0}
  BY PagingAssumption
<1>2. IndexAt(v, 1) = v % TableEntries /\ v % Span(1) = 0 /\ v % Span(2) = v % TableEntries
  BY <1>1 DEF IndexAt, Span
<1>3. IndexAt(v, 1) \in Slots /\ IndexAt(v, 1) \in Nat
  BY <1>1, IndexFacts DEF Slots
<1> DEFINE i == IndexAt(v, 1)
           f == SplitTable(e)[i]
<1>4. f = [e EXCEPT !.page = @ + i, !.a = FALSE]
  BY <1>3 DEF SplitTable
<1>5. e.page \in Nat /\ (e.kind # "none" => e.a = FALSE)
  BY DEF Entry
<1>6. v % Span(1) = 0 /\ v % Span(2) = i /\ i \in Nat
  BY <1>2, <1>3
<1> SUFFICES Final(f, v, 1, uq) = Final(e, v, 2, up)
  OBVIOUS
<1> HIDE DEF i, f
<1>7. e.kind # "none" => f = [e EXCEPT !.page = @ + i]
  BY <1>4, <1>5 DEF Entry
<1>8. /\ f.kind = e.kind
      /\ e.kind # "none" =>
           /\ f \in Entry /\ f.page = e.page + i
           /\ f.w = e.w /\ f.x = e.x /\ f.u = e.u /\ f.a = e.a
  <2>1. e.page + i \in Nat
    BY <1>5, <1>6
  <2> DEFINE q == e.page + i
  <2>2. /\ f = [e EXCEPT !.page = q, !.a = FALSE] /\ q \in Nat
        /\ e.kind # "none" => f = [e EXCEPT !.page = q]
    BY <1>4, <1>7, <2>1
  <2> HIDE DEF q
  <2>3. f.kind = e.kind
    BY <2>2 DEF Entry
  <2>4. e.kind # "none" =>
          /\ f \in Entry /\ f.page = q
          /\ f.w = e.w /\ f.x = e.x /\ f.u = e.u /\ f.a = e.a
    BY <2>2 DEF Entry
  <2> QED BY <2>3, <2>4 DEF q
<1>9. CASE e.kind = "none"
  BY <1>8, <1>9 DEF Final
<1>10. CASE e.kind # "none"
  <2>0. /\ f \in Entry /\ f.page = e.page + i /\ f.kind # "none"
        /\ f.w = e.w /\ f.x = e.x /\ f.u = e.u /\ f.a = e.a
        /\ f = [e EXCEPT !.page = @ + i]
    BY <1>7, <1>8, <1>10
  <2> DEFINE q == e.page + i
  <2>1. q \in Nat /\ f.page + 0 = q /\ f.page = q
    BY <1>5, <1>6, <2>0
  <2>2. Final(e, v, 2, up) = [e EXCEPT !.page = q, !.u = @ /\ up]
    BY <1>6, <1>10 DEF Final
  <2>3. Final(f, v, 1, uq) = [f EXCEPT !.page = q, !.u = @ /\ uq]
    BY <1>6, <2>0, <2>1 DEF Final
  <2> HIDE DEF q
  <2>4. CASE e.u /\ up
    <3>1. e.u = TRUE /\ f.u = TRUE /\ uq /\ up
      BY <2>0, <2>4 DEF Entry
    <3>2. [e EXCEPT !.page = q, !.u = @ /\ up] = [e EXCEPT !.page = q]
      BY <3>1 DEF Entry
    <3>3. [f EXCEPT !.page = q, !.u = @ /\ uq] = f
      BY <2>0, <2>1, <3>1 DEF Entry
    <3>4. f = [e EXCEPT !.page = q]
      BY <2>0, <2>1 DEF Entry
    <3> QED BY <2>2, <2>3, <3>2, <3>3, <3>4
  <2>5. CASE ~ (e.u /\ up)
    <3>1. ~ (e.u /\ up) /\ ~ (f.u /\ uq)
      BY <2>5
    <3>2. [e EXCEPT !.page = q, !.u = @ /\ up] = [e EXCEPT !.page = q, !.u = FALSE]
      BY <3>1 DEF Entry
    <3>3. [f EXCEPT !.page = q, !.u = @ /\ uq] = [f EXCEPT !.u = FALSE]
      BY <2>0, <2>1, <3>1 DEF Entry
    <3>4. f = [e EXCEPT !.page = q]
      BY <2>0, <2>1 DEF Entry
    <3>5. [f EXCEPT !.u = FALSE] = [e EXCEPT !.page = q, !.u = FALSE]
      BY <3>4 DEF Entry
    <3> QED BY <2>2, <2>3, <3>2, <3>3, <3>5
  <2> QED BY <2>4, <2>5
<1> QED BY <1>9, <1>10

\* The new table maps what the entry did.
LEMMA MapSpliced ==
  ASSUME NEW tab, NEW tb, NEW root, NEW X, NEW lev, Graded(tab, root, X, lev),
         NEW t, NEW i, NEW d, NEW nt, Spliced(tab, tb, X, t, i, d, nt), lev[t] > 1,
         \/ nt = EmptyTable /\ tab[t][i].kind = "none"
         \/ /\ nt = SplitTable(tab[t][i]) /\ lev[t] = 2
            /\ tb[t][i].u = tab[t][i].u
            /\ tab[t][i].kind # "none" => ~ tab[t][i].a,
         NEW v \in Nat
  PROVE  MapIn(tb, root, v) = MapIn(tab, root, v)
<1> DEFINE s == StopIn(tab, root, v)
<1>1. /\ s.table \in X /\ s.index \in Slots
      /\ s.level \in 1 .. 4 /\ s.level = lev[s.table] /\ s.index = IndexAt(v, s.level)
      /\ EntryIn(tab, root, v) \in Entry
      /\ EntryIn(tab, root, v) = tab[s.table][s.index]
  BY StopGraded DEF EntryIn
<1>2. Alike(tab, tb, X)
  BY DEF Alike, Spliced
<1>3. CASE ~ (s.table = t /\ s.index = i)
  <2>1. tb[s.table][s.index] = EntryIn(tab, root, v)
    BY <1>1, <1>3 DEF Spliced
  <2> QED BY <1>2, <2>1, MapKept
<1>4. CASE s.table = t /\ s.index = i
  <2> DEFINE l == lev[t]
             e == tab[t][i]
             j == IndexAt(v, l - 1)
  <2>1. l \in 2 .. 4 /\ l - 1 \in 1 .. 3 /\ s.level = l /\ e \in Entry
        /\ EntryIn(tab, root, v) = e
    BY <1>1, <1>4 DEF Graded
  <2>2. j \in Slots
    BY <2>1, IndexFacts
  <2>3. \A k \in Slots : nt[k].kind # "table"
    <3>1. e.kind # "table"
      BY DEF Spliced
    <3> QED BY <2>1, <3>1, NewRows
  <2>4. /\ tb[s.table][s.index].kind = "table" /\ tb[s.table][s.index].page = d
        /\ tb[d] = nt /\ tb[s.table][s.index] = tb[t][i]
    BY <1>4 DEF Spliced
  <2>5. /\ StopIn(tb, root, v) = [table |-> d, index |-> IndexAt(v, l - 1), level |-> l - 1]
        /\ PathIn(tb, root, v) <=> PathIn(tab, root, v) /\ tb[s.table][s.index].u
    <3>1. \A k \in Slots : tb[d][k].kind # "table"
      BY <2>3, <2>4
    <3> HIDE DEF l
    <3> QED BY <1>2, <2>1, <2>4, <3>1, WaySpliced, SMTT(60)
  <2>6. EntryIn(tb, root, v) = nt[j] /\ StopIn(tb, root, v).level = l - 1
    BY <2>4, <2>5 DEF EntryIn
  <2>7. CASE nt = EmptyTable /\ e.kind = "none"
    <3>1. nt[j].kind = "none"
      BY <2>2, <2>7, NewRows
    <3>2. Final(nt[j], v, l - 1, PathIn(tb, root, v)) = NoEntry
      BY <3>1 DEF Final
    <3>3. Final(e, v, l, PathIn(tab, root, v)) = NoEntry
      BY <2>7 DEF Final
    <3> QED BY <2>1, <2>6, <3>2, <3>3 DEF MapIn
  <2>8. CASE /\ nt = SplitTable(e) /\ l = 2 /\ tb[t][i].u = e.u
             /\ e.kind # "none" => ~ e.a
    <3>1. PathIn(tb, root, v) <=> PathIn(tab, root, v) /\ e.u
      BY <2>4, <2>5, <2>8
    <3>2. Final(SplitTable(e)[IndexAt(v, 1)], v, 1, PathIn(tb, root, v))
            = Final(e, v, 2, PathIn(tab, root, v))
      BY <2>1, <2>8, <3>1, SplitFinal
    <3>3. j = IndexAt(v, 1)
      BY <2>8
    <3> QED BY <2>1, <2>6, <2>8, <3>2, <3>3 DEF MapIn
  <2> QED BY <2>7, <2>8
<1> QED BY <1>3, <1>4

\* The pages whose walks stop there are mapped by e, the others as they were.
LEMMA MapPut ==
  ASSUME NEW tab, NEW tb, NEW root, NEW X, NEW lev, Graded(tab, root, X, lev),
         NEW t, NEW i, NEW e, Put(tab, tb, X, t, i, e), NEW v \in Nat
  PROVE  MapIn(tb, root, v) =
           IF StopIn(tab, root, v).table = t /\ StopIn(tab, root, v).index = i
             THEN Final(e, v, StopIn(tab, root, v).level, PathIn(tab, root, v))
             ELSE MapIn(tab, root, v)
<1> DEFINE s == StopIn(tab, root, v)
<1>1. /\ s.table \in X /\ s.index \in Slots /\ s.level \in 1 .. 4
      /\ EntryIn(tab, root, v) \in Entry
      /\ EntryIn(tab, root, v).kind # "table"
      /\ EntryIn(tab, root, v) = tab[s.table][s.index]
  BY StopGraded DEF EntryIn
<1>2. Alike(tab, tb, X)
  BY DEF Alike, Put
<1>3. CASE ~ (s.table = t /\ s.index = i)
  <2>1. tb[s.table][s.index] = EntryIn(tab, root, v)
    BY <1>1, <1>3 DEF Put
  <2>2. MapIn(tb, root, v) = MapIn(tab, root, v)
    BY <1>2, <2>1, MapKept
  <2> QED BY <1>3, <2>2
<1>4. CASE s.table = t /\ s.index = i
  <2>1. tb[s.table][s.index] = e /\ e.kind # "table" /\ e \in Entry
    BY <1>4 DEF Put
  <2>2. /\ StopIn(tb, root, v) = s
        /\ PathIn(tb, root, v) <=> PathIn(tab, root, v)
    BY <1>1, <1>2, <2>1, WayKept
  <2>3. EntryIn(tb, root, v) = e
    BY <2>1, <2>2 DEF EntryIn
  <2>4. Final(e, v, s.level, PathIn(tb, root, v)) = Final(e, v, s.level, PathIn(tab, root, v))
    BY <1>1, <2>1, <2>2, FinalSame
  <2>5. MapIn(tb, root, v) = Final(e, v, s.level, PathIn(tb, root, v))
    BY <2>2, <2>3 DEF MapIn
  <2> QED BY <1>4, <2>4, <2>5
<1> QED BY <1>3, <1>4

\* A walk that ends at level 1 in a table of the tree did not leave it.
LEMMA WayInTree ==
  ASSUME NEW tab, NEW root, NEW W, NEW M, NEW lev, NEW N, Grafted(tab, root, W, M, lev, N),
         NEW v \in Nat, StopIn(tab, root, v).level = 1, StopIn(tab, root, v).table \in M
  PROVE  /\ StopIn(tab, root, v).table = T1(tab, root, v)
         /\ StopIn(tab, root, v).index = IndexAt(v, 1)
         /\ Edge(tab, root, W, root, IndexAt(v, 4))
         /\ T3(tab, root, v) = tab[root][IndexAt(v, 4)].page
         /\ T3(tab, root, v) \in M
         /\ Edge(tab, root, W, T3(tab, root, v), IndexAt(v, 3))
         /\ T2(tab, root, v) = tab[T3(tab, root, v)][IndexAt(v, 3)].page
         /\ T2(tab, root, v) \in M
         /\ Edge(tab, root, W, T2(tab, root, v), IndexAt(v, 2))
         /\ T1(tab, root, v) = tab[T2(tab, root, v)][IndexAt(v, 2)].page
<1> DEFINE a == T3(tab, root, v)
           b == T2(tab, root, v)
           c == T1(tab, root, v)
           Pg(t, l) == tab[t][IndexAt(v, l)].page
           Tb(t, l) == tab[t][IndexAt(v, l)].kind = "table"
<1>1. /\ IndexAt(v, 1) \in Slots /\ IndexAt(v, 2) \in Slots
      /\ IndexAt(v, 3) \in Slots /\ IndexAt(v, 4) \in Slots
  BY IndexFacts
<1>2. /\ StopIn(tab, root, v).table = c /\ StopIn(tab, root, v).index = IndexAt(v, 1)
      /\ Tb(root, 4) /\ Tb(a, 3) /\ Tb(b, 2)
  BY DEF StopIn, Has
<1>3. a = Pg(root, 4) /\ b = Pg(a, 3) /\ c = Pg(b, 2)
  BY DEF T3, T2, T1, Down
<1>4. /\ root \in M /\ lev[root] = 4
      /\ \A t \in M, i \in Slots :
           Edge(tab, root, W, t, i) =>
             lev[t] > 1 /\ tab[t][i].page \in M /\ lev[tab[t][i].page] = lev[t] - 1
  BY DEF Grafted, IsTree
<1>5. c \in M
  BY <1>2
<1> HIDE DEF a, b, c
<1>6. IndexAt(v, 4) \in W
  <2> SUFFICES ASSUME IndexAt(v, 4) \notin W PROVE FALSE
    OBVIOUS
  <2>1. a \in N
    BY <1>1, <1>2, <1>3 DEF Grafted
  <2>2. b \in N
    BY <1>1, <1>2, <1>3, <2>1 DEF Grafted
  <2>3. c \in N
    BY <1>1, <1>2, <1>3, <2>2 DEF Grafted
  <2> QED BY <1>5, <2>3 DEF Grafted
<1>7. Edge(tab, root, W, root, IndexAt(v, 4)) /\ a \in M /\ lev[a] = 3
  <2>1. Edge(tab, root, W, root, IndexAt(v, 4))
    BY <1>2, <1>6 DEF Edge
  <2>2. 4 - 1 = 3
    OBVIOUS
  <2> QED BY <1>1, <1>3, <1>4, <2>1, <2>2
<1>8. Edge(tab, root, W, a, IndexAt(v, 3)) /\ b \in M /\ lev[b] = 2
  <2>1. a # root
    BY <1>4, <1>7
  <2>2. Edge(tab, root, W, a, IndexAt(v, 3))
    BY <1>2, <2>1 DEF Edge
  <2>3. a \in M /\ lev[a] = 3
    BY <1>7
  <2>4. PICK i \in Slots : i = IndexAt(v, 3)
    BY <1>1
  <2>5. tab[a][i].page = b /\ Edge(tab, root, W, a, i)
    BY <1>3, <2>2, <2>4
  <2>6. b \in M /\ lev[b] = 3 - 1
    BY <1>4, <2>3, <2>5
  <2> QED BY <2>2, <2>6
<1>9. Edge(tab, root, W, b, IndexAt(v, 2))
  <2>1. b # root
    BY <1>4, <1>8
  <2> QED BY <1>2, <2>1 DEF Edge
<1> QED BY <1>2, <1>3, <1>7, <1>8, <1>9 DEF a, b, c

\* Two pages whose walks end at one entry of a table of level 1 of the tree are
\* the same page.
LEMMA SameStop ==
  ASSUME NEW tab, NEW root, NEW W, NEW M, NEW lev, NEW N, Grafted(tab, root, W, M, lev, N),
         NEW v \in VirtualPages, NEW w \in VirtualPages, v \in Nat, w \in Nat,
         StopIn(tab, root, v).level = 1, StopIn(tab, root, v).table \in M,
         StopIn(tab, root, w) = StopIn(tab, root, v)
  PROVE  v = w
<1> DEFINE a(x) == T3(tab, root, x)
           b(x) == T2(tab, root, x)
           c(x) == T1(tab, root, x)
           I(x, l) == IndexAt(x, l)
<1>1. ASSUME NEW x \in {v, w}
      PROVE  /\ StopIn(tab, root, x).table = c(x)
             /\ StopIn(tab, root, x).index = I(x, 1)
             /\ Edge(tab, root, W, root, I(x, 4))
             /\ a(x) = tab[root][I(x, 4)].page
             /\ a(x) \in M
             /\ Edge(tab, root, W, a(x), I(x, 3))
             /\ b(x) = tab[a(x)][I(x, 3)].page
             /\ b(x) \in M
             /\ Edge(tab, root, W, b(x), I(x, 2))
             /\ c(x) = tab[b(x)][I(x, 2)].page
  BY WayInTree
<1>2. \A x \in Nat : I(x, 2) \in Slots /\ I(x, 3) \in Slots /\ I(x, 4) \in Slots
  BY IndexFacts
<1>3. /\ root \in M
      /\ \A t, u \in M : \A i, j \in Slots :
           /\ Edge(tab, root, W, t, i) /\ Edge(tab, root, W, u, j)
           /\ tab[t][i].page = tab[u][j].page
           => t = u /\ i = j
  BY DEF Grafted, IsTree
<1> HIDE DEF a, b, c, I
<1>4. c(v) = c(w) /\ I(v, 1) = I(w, 1)
  BY <1>1
<1>5. b(v) = b(w) /\ I(v, 2) = I(w, 2)
  BY <1>1, <1>2, <1>3, <1>4
<1>6. a(v) = a(w) /\ I(v, 3) = I(w, 3)
  BY <1>1, <1>2, <1>3, <1>5
<1>7. I(v, 4) = I(w, 4)
  BY <1>1, <1>2, <1>3, <1>6
<1> QED BY <1>4, <1>5, <1>6, <1>7, SameIndices DEF I

-----------------------------------------------------------------------------
(* What the kernel's root maps. *)

\* What the linker, the firmware and the drivers give.
LEMMA ExtentFacts ==
  /\ TableEntries \in Nat /\ TableEntries > 1 /\ LowLimit \in Nat /\ TableEntries <= LowLimit
  /\ \A i \in 1 .. 3 : /\ Sections[i].first \in Nat /\ Sections[i].end \in Nat
                       /\ Sections[i].first < Sections[i].end
                       /\ Sections[i].w \in BOOLEAN /\ Sections[i].x \in BOOLEAN
  /\ TableEntries <= Sections[1].first /\ Sections[1].end <= Sections[2].first
  /\ Sections[2].end <= Sections[3].first /\ Sections[3].end <= LowLimit
  /\ MmioRange.first \in Nat /\ MmioRange.end \in Nat /\ MmioRange.first < MmioRange.end
  /\ MmioRange.first > 0
  /\ MmioRange.end <= Sections[1].first \/ MmioRange.first >= Sections[3].end
  /\ \A v \in MmioPages : v \in VirtualPages
  /\ \A f \in Framebuffers :
       /\ f.first \in Nat /\ f.end \in Nat
       /\ f.first < f.end => /\ f.first > 0
                             /\ f.end <= Sections[1].first \/ f.first >= Sections[3].end
       /\ \A v \in f.first .. (f.end - 1) : v \in VirtualPages
<1>1. /\ TableEntries \in Nat /\ TableEntries > 1 /\ LowLimit \in Nat
      /\ \A i \in 1 .. 3 : /\ Sections[i].first \in Nat /\ Sections[i].end \in Nat
                           /\ Sections[i].first < Sections[i].end
                           /\ Sections[i].w \in BOOLEAN /\ Sections[i].x \in BOOLEAN
      /\ TableEntries <= Sections[1].first /\ Sections[1].end <= Sections[2].first
      /\ Sections[2].end <= Sections[3].first /\ Sections[3].end <= LowLimit
      /\ MmioRange.first \in Nat /\ MmioRange.end \in Nat /\ MmioRange.first < MmioRange.end
      /\ \A f \in Framebuffers : f.first \in Nat /\ f.end \in Nat
  BY PagingAssumption
<1>2. TableEntries <= LowLimit
  <2>1. /\ Sections[1].first \in Nat /\ Sections[1].end \in Nat /\ Sections[2].first \in Nat
        /\ Sections[2].end \in Nat /\ Sections[3].first \in Nat /\ Sections[3].end \in Nat
        /\ Sections[1].first < Sections[1].end /\ Sections[2].first < Sections[2].end
        /\ Sections[3].first < Sections[3].end
    BY <1>1
  <2> QED BY <1>1, <2>1
<1> DEFINE n4 == TableEntries * TableEntries * TableEntries * TableEntries
<1>3. \A r \in Framebuffers \cup {MmioRange} : r.first < r.end =>
        /\ r.first > 0
        /\ r.end <= n4
        /\ r.end <= Sections[1].first \/ r.first >= Sections[3].end
  BY DeviceAssumption
<1>4. VirtualPages = 0 .. (n4 - 1) /\ n4 \in Nat
  <2>1. VirtualPages = 0 .. (n4 - 1)
    BY DEF VirtualPages
  <2> QED BY <1>1, <2>1, Products
<1> HIDE DEF n4
<1>5. ASSUME NEW r \in Framebuffers \cup {MmioRange}, NEW v \in r.first .. (r.end - 1)
      PROVE  v \in VirtualPages
  <2>1. r.first \in Nat /\ r.end \in Nat
    BY <1>1
  <2>2. r.first < r.end /\ v \in Nat /\ v < r.end
    BY <2>1
  <2>3. r.end <= n4
    BY <1>3, <2>2
  <2> QED BY <1>4, <2>1, <2>2, <2>3
<1> QED BY <1>1, <1>2, <1>3, <1>5 DEF MmioPages

\* Then the kernel's root maps v alike there.
LEMMA SeesSame ==
  ASSUME NEW n, NEW c, NEW m, NEW d, NEW fb, NEW v, Same(n, c, m, d, fb, v)
  PROVE  Sees(n, c, fb, v) = Sees(m, d, fb, v)
BY DEF Same, Sees

\* A page more is mapped.
LEMMA SeesNext ==
  ASSUME NEW n \in ByPage, NEW fb \in Framebuffers, NEW c \in Nat,
         ExtentAt(n, fb).first <= c, c < ExtentAt(n, fb).end,
         NEW v \in Nat
  PROVE  Sees(n, c + 1, fb, v) =
           IF v = c THEN PageEntry(v, ExtentAt(n, fb).w, ExtentAt(n, fb).x, FALSE)
           ELSE Sees(n, c, fb, v)
<1>1. fb.first \in Nat /\ fb.end \in Nat
      /\ (fb.first < fb.end => fb.first > 0
            /\ (fb.end <= Sections[1].first \/ fb.first >= Sections[3].end))
  BY ExtentFacts
<1>2. v < c + 1 <=> (v < c \/ v = c)
  OBVIOUS
<1>3. /\ Sections[1].first \in Nat /\ Sections[1].end \in Nat
      /\ Sections[2].first \in Nat /\ Sections[2].end \in Nat
      /\ Sections[3].first \in Nat /\ Sections[3].end \in Nat
      /\ Sections[1].first < Sections[1].end /\ Sections[2].first < Sections[2].end
      /\ Sections[3].first < Sections[3].end
      /\ Sections[1].end <= Sections[2].first /\ Sections[2].end <= Sections[3].first
      /\ TableEntries <= Sections[1].first /\ Sections[3].end <= LowLimit
      /\ TableEntries \in Nat /\ LowLimit \in Nat
      /\ MmioRange.first \in Nat /\ MmioRange.end \in Nat
      /\ MmioRange.end <= Sections[1].first \/ MmioRange.first >= Sections[3].end
  BY ExtentFacts
<1>4. ASSUME v # c PROVE Same(n, c + 1, n, c, fb, v)
  BY <1>2, <1>4 DEF Same, Image, Device, LowMemory, Done
<1>5. ASSUME v # c PROVE Sees(n, c + 1, fb, v) = Sees(n, c, fb, v)
  BY <1>4, <1>5, SeesSame
<1>6. ASSUME v = c
      PROVE  Sees(n, c + 1, fb, c) = PageEntry(c, ExtentAt(n, fb).w, ExtentAt(n, fb).x, FALSE)
  <2> USE DEF Image, Device, LowMemory, Done, InSection
  <2>1. CASE n = 1
    <3>1. /\ ~ Image(1, n, c + 1, c) /\ ~ Image(2, n, c + 1, c) /\ ~ Image(3, n, c + 1, c)
          /\ ~ Device(n, c + 1, fb, c)
      BY <2>1
    <3>2. LowMemory(n, c + 1, c)
      BY <1>3, <2>1 DEF ExtentAt, Extent
    <3>3. ExtentAt(n, fb).w = TRUE /\ ExtentAt(n, fb).x = TRUE
      BY <2>1 DEF ExtentAt, Extent
    <3> HIDE DEF Image, Device, LowMemory
    <3> QED BY <3>1, <3>2, <3>3 DEF Sees
  <2>2. CASE n = 4
    <3>1. Image(1, n, c + 1, c)
      BY <1>3, <2>2 DEF ExtentAt, Extent
    <3>2. ExtentAt(n, fb).w = Sections[1].w /\ ExtentAt(n, fb).x = Sections[1].x
      BY <2>2 DEF ExtentAt, Extent
    <3> HIDE DEF Image, Device, LowMemory
    <3> QED BY <3>1, <3>2 DEF Sees
  <2>3. CASE n = 5
    <3>1. c >= Sections[2].first /\ c < Sections[2].end
      BY <2>3 DEF ExtentAt, Extent
    <3>2. ~ Image(1, n, c + 1, c) /\ Image(2, n, c + 1, c)
      BY <1>3, <2>3, <3>1
    <3>3. ExtentAt(n, fb).w = Sections[2].w /\ ExtentAt(n, fb).x = Sections[2].x
      BY <2>3 DEF ExtentAt, Extent
    <3> HIDE DEF Image, Device, LowMemory
    <3> QED BY <3>2, <3>3 DEF Sees
  <2>4. CASE n = 6
    <3>1. c >= Sections[3].first /\ c < Sections[3].end
      BY <2>4 DEF ExtentAt, Extent
    <3>2. ~ Image(1, n, c + 1, c) /\ ~ Image(2, n, c + 1, c) /\ Image(3, n, c + 1, c)
      BY <1>3, <2>4, <3>1
    <3>3. ExtentAt(n, fb).w = Sections[3].w /\ ExtentAt(n, fb).x = Sections[3].x
      BY <2>4 DEF ExtentAt, Extent
    <3> HIDE DEF Image, Device, LowMemory
    <3> QED BY <3>2, <3>3 DEF Sees
  <2>5. CASE n = 7
    <3>1. c >= fb.first /\ c < fb.end
      BY <2>5 DEF ExtentAt, Extent
    <3>2. /\ ~ Image(1, n, c + 1, c) /\ ~ Image(2, n, c + 1, c) /\ ~ Image(3, n, c + 1, c)
          /\ Device(n, c + 1, fb, c)
      BY <1>1, <1>3, <2>5, <3>1
    <3>3. ExtentAt(n, fb).w = TRUE /\ ExtentAt(n, fb).x = FALSE
      BY <2>5 DEF ExtentAt, Extent
    <3> HIDE DEF Image, Device, LowMemory
    <3> QED BY <3>2, <3>3 DEF Sees
  <2>6. CASE n = 9
    <3>1. c >= MmioRange.first /\ c < MmioRange.end
      BY <2>6 DEF ExtentAt, Extent
    <3>2. /\ ~ Image(1, n, c + 1, c) /\ ~ Image(2, n, c + 1, c) /\ ~ Image(3, n, c + 1, c)
          /\ Device(n, c + 1, fb, c)
      BY <1>1, <1>3, <2>6, <3>1
    <3>3. ExtentAt(n, fb).w = TRUE /\ ExtentAt(n, fb).x = FALSE
      BY <2>6 DEF ExtentAt, Extent
    <3> HIDE DEF Image, Device, LowMemory
    <3> QED BY <3>2, <3>3 DEF Sees
  <2> QED BY <2>1, <2>2, <2>3, <2>4, <2>5, <2>6 DEF ByPage
<1> QED BY <1>5, <1>6

\* From one place to the next nothing changes.
LEMMA SeesMoves ==
  ASSUME NEW fb \in Framebuffers, NEW c \in Nat, NEW d \in Nat, NEW v \in Nat
  PROVE  /\ c = TableEntries => Sees(2, c, fb, v) = Sees(1, c, fb, v)
         /\ c >= LowLimit => Sees(3, d, fb, v) = Sees(2, c, fb, v)
         /\ Sees(4, Sections[1].first, fb, v) = Sees(3, c, fb, v)
         /\ c >= Sections[1].end => Sees(5, Sections[2].first, fb, v) = Sees(4, c, fb, v)
         /\ c >= Sections[2].end => Sees(6, Sections[3].first, fb, v) = Sees(5, c, fb, v)
         /\ c >= Sections[3].end => Sees(7, fb.first, fb, v) = Sees(6, c, fb, v)
         /\ c >= Sections[3].end /\ fb.end <= fb.first => Sees(8, d, fb, v) = Sees(6, c, fb, v)
         /\ c >= fb.end => Sees(8, d, fb, v) = Sees(7, c, fb, v)
         /\ Sees(9, MmioRange.first, fb, v) = Sees(8, c, fb, v)
         /\ c >= MmioRange.end => Sees(10, d, fb, v) = Sees(9, c, fb, v)
         /\ Sees(3, d, fb, v) = Sees(3, c, fb, v)
<1>1. fb.first \in Nat /\ fb.end \in Nat
  BY ExtentFacts
<1>2. /\ Sections[1].first \in Nat /\ Sections[1].end \in Nat
      /\ Sections[2].first \in Nat /\ Sections[2].end \in Nat
      /\ Sections[3].first \in Nat /\ Sections[3].end \in Nat
      /\ TableEntries \in Nat /\ LowLimit \in Nat /\ TableEntries <= LowLimit
      /\ MmioRange.first \in Nat /\ MmioRange.end \in Nat
  BY ExtentFacts
<1> USE DEF Same, Image, Device, LowMemory, InSection, Done
<1>3. c = TableEntries => Same(2, c, 1, c, fb, v)
  BY <1>1, <1>2
<1>4. c >= LowLimit => Same(3, d, 2, c, fb, v)
  BY <1>1, <1>2
<1>5. Same(4, Sections[1].first, 3, c, fb, v)
  BY <1>1, <1>2
<1>6. c >= Sections[1].end => Same(5, Sections[2].first, 4, c, fb, v)
  BY <1>1, <1>2
<1>7. c >= Sections[2].end => Same(6, Sections[3].first, 5, c, fb, v)
  BY <1>1, <1>2
<1>8. c >= Sections[3].end => Same(7, fb.first, 6, c, fb, v)
  BY <1>1, <1>2
<1>9. c >= Sections[3].end /\ fb.end <= fb.first => Same(8, d, 6, c, fb, v)
  BY <1>1, <1>2
<1>10. c >= fb.end => Same(8, d, 7, c, fb, v)
  BY <1>1, <1>2
<1>11. Same(9, MmioRange.first, 8, c, fb, v)
  BY <1>1, <1>2
<1>12. c >= MmioRange.end => Same(10, d, 9, c, fb, v)
  BY <1>1, <1>2
<1>13. Same(3, d, 3, c, fb, v)
  OBVIOUS
<1> HIDE DEF Same
<1> QED BY <1>3, <1>4, <1>5, <1>6, <1>7, <1>8, <1>9, <1>10, <1>11, <1>12, <1>13, SeesSame

\* Pages are numbers.
LEMMA VirtualNat == VirtualPages \subseteq Nat
BY DEF VirtualPages

\* The numbers of the places.
LEMMA Places ==
  /\ Place("low") = 1 /\ Place("large") = 2 /\ Place("split") = 3 /\ Place("text") = 4
  /\ Place("rodata") = 5 /\ Place("data") = 6 /\ Place("framebuffer") = 7
  /\ Place("load_cr3") = 8 /\ Place("mmio") = 9
  /\ \A ph : ph \notin {"low", "large", "split", "text", "rodata", "data", "framebuffer",
                        "load_cr3", "mmio"} => Place(ph) = 10
<1>1. /\ Place("low") = 1 /\ Place("large") = 2 /\ Place("split") = 3 /\ Place("text") = 4
      /\ Place("rodata") = 5 /\ Place("data") = 6 /\ Place("framebuffer") = 7
      /\ Place("load_cr3") = 8 /\ Place("mmio") = 9
  BY DEF Place
<1>2. \A ph : ph \notin {"low", "large", "split", "text", "rodata", "data", "framebuffer",
                         "load_cr3", "mmio"} => Place(ph) = 10
  BY DEF Place
<1> QED BY <1>1, <1>2

\* The pages of the ranges are pages of a root.
LEMMA ExtentPages ==
  ASSUME NEW n \in ByPage, NEW fb \in Framebuffers, NEW v \in Nat,
         ExtentAt(n, fb).first <= v, v < ExtentAt(n, fb).end
  PROVE  v \in VirtualPages
<1>1. /\ Sections[1].first \in Nat /\ Sections[1].end \in Nat
      /\ Sections[2].first \in Nat /\ Sections[2].end \in Nat
      /\ Sections[3].first \in Nat /\ Sections[3].end \in Nat
      /\ Sections[1].end <= Sections[2].first /\ Sections[2].end <= Sections[3].first
      /\ Sections[2].first < Sections[2].end /\ Sections[3].first < Sections[3].end
      /\ TableEntries <= LowLimit /\ Sections[3].end <= LowLimit
      /\ TableEntries \in Nat /\ LowLimit \in Nat
      /\ MmioRange.first \in Nat /\ MmioRange.end \in Nat
      /\ fb.first \in Nat /\ fb.end \in Nat
  BY ExtentFacts
<1>2. CASE n = 7 \/ n = 9
  <2>1. n = 7 => v \in fb.first .. (fb.end - 1)
    BY <1>1 DEF ExtentAt, Extent
  <2>2. n = 9 => v \in MmioPages
    BY <1>1 DEF ExtentAt, Extent, MmioPages
  <2> QED BY <1>2, <2>1, <2>2, ExtentFacts
<1>3. CASE n \in {1, 4, 5, 6}
  <2>1. v < LowLimit
    BY <1>1, <1>3 DEF ExtentAt, Extent
  <2> QED BY <2>1, LowPages
<1> QED BY <1>2, <1>3 DEF ByPage

\* A page entry maps its page, for ring 3 if the way does.
LEMMA FinalSmall ==
  ASSUME NEW p \in Nat, NEW w \in BOOLEAN, NEW x \in BOOLEAN, NEW v \in Nat, NEW up
  PROVE  /\ Final(PageEntry(p, w, x, FALSE), v, 1, up) = PageEntry(p, w, x, FALSE)
         /\ up => Final(PageEntry(p, w, x, TRUE), v, 1, up) = PageEntry(p, w, x, TRUE)
<1>1. v % Span(1) = 0 /\ p + 0 = p
  BY DEF Span
<1>2. Final(PageEntry(p, w, x, FALSE), v, 1, up) = PageEntry(p, w, x, FALSE)
  BY <1>1 DEF Final, PageEntry
<1>3. up => Final(PageEntry(p, w, x, TRUE), v, 1, up) = PageEntry(p, w, x, TRUE)
  BY <1>1 DEF Final, PageEntry
<1> QED BY <1>2, <1>3

\* The kernel's tables make a graded tree.
LEMMA KernelGraded ==
  ASSUME tables \in Tables, StoreOK, NEW N, NEW lev,
         IsTree(tables, g_pml4, Slots, N, lev), \A t \in N : Block(t, 1) \in held
  PROVE  /\ N \subseteq AllPages /\ g_pml4 \in N /\ lev[g_pml4] = 4
         /\ Graded(tables, g_pml4, N, lev)
         /\ Grafted(tables, g_pml4, Slots, N, lev, {})
<1>1. N \subseteq AllPages
  BY TablesApart
<1>2. Graded(tables, g_pml4, N, lev)
  BY <1>1 DEF Graded, IsTree, Edge
<1>3. Grafted(tables, g_pml4, Slots, N, lev, {})
  BY DEF Grafted
<1> QED BY <1>1, <1>2, <1>3 DEF IsTree

\* What a walk gives is a record of its table, index and level.
LEMMA SameRecord ==
  ASSUME NEW tab, NEW root, NEW X, NEW lev, Graded(tab, root, X, lev),
         NEW v \in Nat, NEW w \in Nat,
         StopIn(tab, root, v).table = StopIn(tab, root, w).table,
         StopIn(tab, root, v).index = StopIn(tab, root, w).index
  PROVE  StopIn(tab, root, v) = StopIn(tab, root, w)
<1>1. StopIn(tab, root, v).level = StopIn(tab, root, w).level
  BY StopGraded
<1>2. \A u : LET z == StopIn(tab, root, u)
             IN  z = [table |-> z.table, index |-> z.index, level |-> z.level]
  BY DEF StopIn
<1> QED BY <1>1, <1>2

\* One more page of a range of the boot.
LEMMA MapPageSees ==
  ASSUME Inv, Cursor, KernelSees,
         NEW phase \in {"low", "text", "rodata", "data", "framebuffer", "mmio"},
         MapPage(phase), UNCHANGED processVars
  PROVE  Cursor' /\ KernelSees'
<1> DEFINE s == StopIn(tables, g_pml4, job.virt)
           e == PageEntry(job.phys, job.w, job.x, job.u)
           n == Place(pc)
           r == ExtentAt(n, framebuffer)
<1>1. /\ pc = phase /\ pc \in BootPhases \ {"pml4"} /\ pc' = pc /\ job.virt < job.end
      /\ Stop(job.root, job.virt).level = 1
      /\ UNCHANGED <<storeVars, g_pml4, cr3, doomed, framebuffer>>
      /\ tables' = WithEntry(tables, Stop(job.root, job.virt).table,
                             Stop(job.root, job.virt).index, e)
      /\ job' = [job EXCEPT !.virt = @ + 1, !.phys = @ + 1]
  BY DEF MapPage, BootPhases, WithEntry
<1>2. /\ job.root = g_pml4 /\ job.u = FALSE /\ job.virt \in Nat /\ job.phys \in Nat
      /\ job.w \in BOOLEAN /\ job.x \in BOOLEAN
      /\ job \in JobTypes /\ tables \in Tables /\ framebuffer \in Framebuffers
  BY <1>1 DEF Inv, BootJob, Types, JobTypes
<1>3. n \in ByPage
  BY <1>1, Places DEF ByPage
<1>4. /\ job.virt \in r.first .. r.end /\ job.end = r.end
      /\ job.phys = job.virt /\ job.w = r.w /\ job.x = r.x
  BY <1>3 DEF Cursor
<1>5. /\ job.virt \in VirtualPages /\ r.first <= job.virt /\ job.virt < r.end
      /\ r.first \in Int /\ r.end \in Int
  <2>1. r.first \in Int /\ r.end \in Int
    <3>1. /\ Sections[1].first \in Nat /\ Sections[1].end \in Nat
          /\ Sections[2].first \in Nat /\ Sections[2].end \in Nat
          /\ Sections[3].first \in Nat /\ Sections[3].end \in Nat
          /\ MmioRange.first \in Nat /\ MmioRange.end \in Nat
          /\ framebuffer.first \in Nat /\ framebuffer.end \in Nat
          /\ TableEntries \in Nat
      BY <1>2, ExtentFacts
    <3> QED BY <1>3, <3>1 DEF ExtentAt, Extent, ByPage
  <2>2. r.first <= job.virt /\ job.virt < r.end
    BY <1>1, <1>2, <1>4, <2>1
  <2> QED BY <1>2, <1>3, <2>1, <2>2, ExtentPages
<1>6. PICK N, lev : KernelOnly(N, lev)
  BY <1>1, BootTree
<1>7. /\ StoreOK /\ IsTree(tables, g_pml4, Slots, N, lev)
      /\ \A t \in N : Block(t, 1) \in held
  BY <1>1, <1>6, BootTree DEF KernelOnly, Blocks
<1>8. /\ N \subseteq AllPages /\ g_pml4 \in N /\ lev[g_pml4] = 4
      /\ Graded(tables, g_pml4, N, lev)
      /\ Grafted(tables, g_pml4, Slots, N, lev, {})
  BY <1>2, <1>7, KernelGraded
<1>9. /\ s.table \in N /\ s.index \in Slots /\ s.level = 1 /\ lev[s.table] = 1
      /\ tables[s.table][s.index].kind # "table"
  <2>1. s.level = 1
    BY <1>1, <1>2, StopIs
  <2>2. EntryIn(tables, g_pml4, job.virt) = tables[s.table][s.index]
    BY DEF EntryIn
  <2>3. /\ s.table \in N /\ s.level = lev[s.table] /\ s.index \in Slots
        /\ EntryIn(tables, g_pml4, job.virt).kind # "table"
    BY <1>2, <1>8, StopGraded
  <2> HIDE DEF s
  <2> QED BY <2>1, <2>2, <2>3
<1>10. e \in Entry /\ e.kind = "page" /\ e = PageEntry(job.virt, r.w, r.x, FALSE)
  <2>1. e = PageEntry(job.virt, r.w, r.x, FALSE)
    BY <1>2, <1>4
  <2>2. PICK w \in BOOLEAN, x \in BOOLEAN, u \in BOOLEAN :
          w = job.w /\ x = job.x /\ u = job.u
    BY <1>2
  <2>3. e = PageEntry(job.phys, w, x, u)
    BY <2>2
  <2> HIDE DEF e
  <2>4. e \in Entry /\ e.kind = "page"
    BY <1>2, <2>3, NewRows, SMTT(30)
  <2> QED BY <2>1, <2>4
<1>11. tables' = WithEntry(tables, s.table, s.index, e)
  BY <1>1, <1>2, StopIs
<1> HIDE DEF s, e, r, n
<1>12. /\ tables'[s.table][s.index] = e
       /\ \A j \in Slots : j # s.index => tables'[s.table][j] = tables[s.table][j]
       /\ \A p \in AllPages : p # s.table => tables'[p] = tables[p]
  <2> DEFINE tb == WithEntry(tables, s.table, s.index, e)
  <2>1. s.table \in AllPages
    BY <1>8, <1>9
  <2>2. /\ tb[s.table][s.index] = e
        /\ \A j \in Slots : j # s.index => tb[s.table][j] = tables[s.table][j]
        /\ \A p \in AllPages : p # s.table => tb[p] = tables[p]
    <3>1. PICK e0 \in Entry, t0 \in AllPages, i0 \in Slots :
            e0 = e /\ t0 = s.table /\ i0 = s.index
      BY <1>9, <1>10, <2>1
    <3> QED BY <1>2, <3>1, EntrySet
  <2>3. tables' = tb
    BY <1>11
  <2> HIDE DEF tb
  <2> QED BY <2>2, <2>3
<1>13. Put(tables, tables', N, s.table, s.index, e)
  BY <1>8, <1>9, <1>10, <1>12 DEF Put
<1>14. ASSUME NEW v \in VirtualPages
       PROVE  MapIn(tables', g_pml4, v) = Sees(n, job.virt + 1, framebuffer, v)
  <2>1. v \in Nat
    BY VirtualNat
  <2>2. MapIn(tables, g_pml4, v) = Sees(n, job.virt, framebuffer, v)
    BY <1>1 DEF KernelSees, n
  <2>3. Sees(n, job.virt + 1, framebuffer, v) =
          IF v = job.virt THEN PageEntry(v, r.w, r.x, FALSE)
          ELSE Sees(n, job.virt, framebuffer, v)
    BY <1>2, <1>3, <1>5, <2>1, SeesNext DEF r
  <2>4. MapIn(tables', g_pml4, v) =
          IF StopIn(tables, g_pml4, v).table = s.table /\ StopIn(tables, g_pml4, v).index = s.index
            THEN Final(e, v, StopIn(tables, g_pml4, v).level, PathIn(tables, g_pml4, v))
            ELSE MapIn(tables, g_pml4, v)
    BY <1>8, <1>13, <2>1, MapPut
  <2>5. CASE v = job.virt
    <3>1. StopIn(tables, g_pml4, v) = s
      BY <2>5 DEF s
    <3>2. MapIn(tables', g_pml4, v) = Final(e, v, 1, PathIn(tables, g_pml4, v))
      BY <1>9, <2>4, <3>1
    <3>3. e = PageEntry(v, r.w, r.x, FALSE) /\ r.w \in BOOLEAN /\ r.x \in BOOLEAN
      BY <1>2, <1>4, <1>10, <2>5
    <3>4. PICK w \in BOOLEAN, x \in BOOLEAN : w = r.w /\ x = r.x
      BY <3>3
    <3>5. Final(PageEntry(v, w, x, FALSE), v, 1, PathIn(tables, g_pml4, v))
            = PageEntry(v, w, x, FALSE)
      BY <2>1, FinalSmall, ZenonT(60)
    <3> QED BY <2>3, <2>5, <3>2, <3>3, <3>4, <3>5
  <2>6. CASE v # job.virt
    <3>1. ~ (StopIn(tables, g_pml4, v).table = s.table /\ StopIn(tables, g_pml4, v).index = s.index)
      <4> SUFFICES ASSUME StopIn(tables, g_pml4, v).table = s.table,
                          StopIn(tables, g_pml4, v).index = s.index
                   PROVE  FALSE
        OBVIOUS
      <4>1. StopIn(tables, g_pml4, v) = StopIn(tables, g_pml4, job.virt)
        BY <1>2, <1>8, <2>1, SameRecord DEF s
      <4>2. /\ StopIn(tables, g_pml4, job.virt).level = 1
            /\ StopIn(tables, g_pml4, job.virt).table \in N
        BY <1>9 DEF s
      <4>3. v = job.virt
        BY <1>2, <1>5, <1>8, <2>1, <4>1, <4>2, SameStop
      <4> QED BY <2>6, <4>3
    <3> QED BY <2>2, <2>3, <2>4, <2>6, <3>1
  <2> QED BY <2>5, <2>6
<1>15. /\ job'.virt = job.virt + 1 /\ job'.end = job.end
       /\ job'.phys = job.phys + 1 /\ job'.w = job.w /\ job'.x = job.x
  BY <1>1, <1>2 DEF JobTypes
<1>16. Place(pc)' = n /\ framebuffer' = framebuffer /\ g_pml4' = g_pml4
  BY <1>1 DEF n
<1>17. \A i \in Slots : tables'[g_pml4][i].kind # "page"
  <2>1. g_pml4 # s.table
    BY <1>8, <1>9
  <2> QED BY <1>1, <1>8, <1>12, <2>1 DEF KernelSees
<1>18. KernelSees'
  BY <1>14, <1>15, <1>16, <1>17 DEF KernelSees
<1>19. Cursor'
  <2>1. ExtentAt(n, framebuffer)' = r
    BY <1>16 DEF r, n
  <2>2. job'.virt \in r.first .. r.end
    BY <1>2, <1>4, <1>5, <1>15
  <2>3. pc' = "framebuffer" => HasFramebuffer'
    BY <1>1 DEF Cursor, HasFramebuffer
  <2>4. pc' # "large"
    BY <1>1
  <2>5. ExtentAt(Place(pc), framebuffer)' = r
    BY <1>16 DEF r, n
  <2> QED BY <1>4, <1>15, <2>2, <2>3, <2>4, <2>5 DEF Cursor
<1> QED BY <1>18, <1>19

\* What the kernel sees is a page that has not been accessed, or nothing.
LEMMA SeesPlain ==
  ASSUME NEW n, NEW c, NEW fb, NEW v
  PROVE  /\ ~ Sees(n, c, fb, v).a
         /\ ~ Sees(n, c, fb, v).u
BY DEF Sees, PageEntry, NoEntry

\* A mapping has the kind and the accessed bit of its entry.
LEMMA FinalKind ==
  ASSUME NEW e \in Entry, NEW v, NEW l, NEW up
  PROVE  /\ Final(e, v, l, up).kind = e.kind
         /\ e.kind # "none" => Final(e, v, l, up).a = e.a
BY DEF Final, NoEntry, Entry

\* The kernel's root gets a table b where the walk for w stops.
LEMMA KernelSplices ==
  ASSUME Inv, KernelSees, pc \in BootPhases, pc # "pml4", g_pml4' = g_pml4,
         NEW w \in Nat, NEW b \in Candidates(1), alloc_pages(1, b),
         NEW e, e = EntryIn(tables, g_pml4, w), NEW nt, NEW ne \in Entry,
         StopIn(tables, g_pml4, w).level > 1,
         ne.kind = "table", ne.page = b.base,
         \/ nt = EmptyTable /\ e.kind = "none"
         \/ /\ nt = SplitTable(e) /\ StopIn(tables, g_pml4, w).level = 2
            /\ ne.u = e.u /\ (e.kind # "none" => ~ e.a),
         tables' = WithTable(tables, b.base, nt, StopIn(tables, g_pml4, w).table,
                             StopIn(tables, g_pml4, w).index, ne)
  PROVE  /\ \A v \in VirtualPages : MapIn(tables', g_pml4, v) = MapIn(tables, g_pml4, v)
         /\ \A i \in Slots : tables'[g_pml4][i].kind # "page"
<1>1. tables \in Tables
  BY DEF Inv, Types
<1>2. PICK N, lev : KernelOnly(N, lev)
  BY BootTree
<1>3. /\ StoreOK /\ IsTree(tables, g_pml4, Slots, N, lev)
      /\ \A t \in N : Block(t, 1) \in held
  BY <1>2, BootTree DEF KernelOnly, Blocks
<1>4. /\ N \subseteq AllPages /\ g_pml4 \in N
      /\ Graded(tables, g_pml4, N, lev)
  BY <1>1, <1>3, KernelGraded
<1>5. PICK t, i, l : /\ t = StopIn(tables, g_pml4, w).table
                     /\ i = StopIn(tables, g_pml4, w).index
                     /\ l = StopIn(tables, g_pml4, w).level
  OBVIOUS
<1>6. /\ t \in N /\ i \in Slots /\ l = lev[t] /\ l > 1 /\ t \in AllPages
      /\ e \in Entry /\ e.kind # "table" /\ e = tables[t][i]
  BY <1>4, <1>5, StopGraded DEF EntryIn
<1>7. b.base \in AllPages /\ b.base \notin N /\ b.base # t
  BY <1>3, <1>6, AllocFacts, TablesApart
<1>8. nt \in Rows
  BY <1>6, NewRows
<1>9. /\ tables'[b.base] = nt
      /\ tables'[t][i] = ne
      /\ \A j \in Slots : j # i => tables'[t][j] = tables[t][j]
      /\ \A p \in AllPages : p # b.base /\ p # t => tables'[p] = tables[p]
  <2> DEFINE tb == WithTable(tables, b.base, nt, t, i, ne)
  <2>1. tables' = tb
    BY <1>5
  <2>2. /\ tb[b.base] = nt
        /\ tb[t][i] = ne
        /\ \A j \in Slots : j # i => tb[t][j] = tables[t][j]
        /\ \A p \in AllPages : p # b.base /\ p # t => tb[p] = tables[p]
    BY <1>1, <1>6, <1>7, <1>8, TableAdded
  <2> HIDE DEF tb
  <2> QED BY <2>1, <2>2
<1>10. \A p \in N, j \in Slots : ~ (p = t /\ j = i) => tables'[p][j] = tables[p][j]
  BY <1>4, <1>7, <1>9
<1>11. Spliced(tables, tables', N, t, i, b.base, nt)
  BY <1>6, <1>9, <1>10 DEF Spliced
<1>12. \/ nt = EmptyTable /\ tables[t][i].kind = "none"
       \/ /\ nt = SplitTable(tables[t][i]) /\ lev[t] = 2
          /\ tables'[t][i].u = tables[t][i].u
          /\ tables[t][i].kind # "none" => ~ tables[t][i].a
  BY <1>5, <1>6, <1>9
<1>13. ASSUME NEW v \in VirtualPages
       PROVE  MapIn(tables', g_pml4, v) = MapIn(tables, g_pml4, v)
  <2>1. v \in Nat /\ lev[t] > 1
    BY <1>6, VirtualNat
  <2>2. PICK tb : tb = tables'
    OBVIOUS
  <2>3. Spliced(tables, tb, N, t, i, b.base, nt)
    BY <1>11, <2>2
  <2>4. \/ nt = EmptyTable /\ tables[t][i].kind = "none"
        \/ /\ nt = SplitTable(tables[t][i]) /\ lev[t] = 2
           /\ tb[t][i].u = tables[t][i].u
           /\ tables[t][i].kind # "none" => ~ tables[t][i].a
    BY <1>12, <2>2
  <2>5. MapIn(tb, g_pml4, v) = MapIn(tables, g_pml4, v)
    BY <1>4, <2>1, <2>3, <2>4, MapSpliced, ZenonT(60)
  <2> QED BY <2>2, <2>5
<1>14. ASSUME NEW j \in Slots PROVE tables'[g_pml4][j].kind # "page"
  <2>1. tables[g_pml4][j].kind # "page"
    BY DEF KernelSees, BootPhases
  <2> QED BY <1>4, <1>9, <1>10, <2>1
<1> QED BY <1>13, <1>14

\* The kernel's root maps what it did, and that is what it should.
LEMMA KernelStays ==
  ASSUME KernelSees, pc \notin {"pml4", "panic"}, UNCHANGED <<framebuffer, g_pml4>>,
         \A v \in VirtualPages : MapIn(tables', g_pml4, v) = MapIn(tables, g_pml4, v),
         \A i \in Slots : tables'[g_pml4][i].kind # "page",
         \A v \in VirtualPages :
           Sees(Place(pc'), job'.virt, framebuffer, v) = Sees(Place(pc), job.virt, framebuffer, v)
  PROVE  KernelSees'
<1>1. ASSUME NEW v \in VirtualPages
      PROVE  MapIn(tables', g_pml4', v) = Sees(Place(pc)', job'.virt, framebuffer', v)
  <2>1. MapIn(tables, g_pml4, v) = Sees(Place(pc), job.virt, framebuffer, v)
    BY DEF KernelSees
  <2>2. Place(pc)' = Place(pc')
    OBVIOUS
  <2> QED BY <2>1, <2>2
<1> QED BY <1>1 DEF KernelSees

\* In a panic there is nothing to show.
LEMMA PanicSees ==
  ASSUME pc' = "panic"
  PROVE  Cursor' /\ KernelSees'
<1>1. Place(pc)' = 10
  BY Places
<1>2. Place(pc)' \notin ByPage
  BY <1>1 DEF ByPage
<1> QED BY <1>2 DEF Cursor, KernelSees

\* A table on the way, in the boot, maps what was there.
LEMMA MapTableSees ==
  ASSUME Inv, Cursor, KernelSees,
         NEW phase \in {"low", "text", "rodata", "data", "framebuffer", "mmio"},
         MapTable(phase, "panic"), UNCHANGED processVars
  PROVE  Cursor' /\ KernelSees'
<1> DEFINE s == Stop(job.root, job.virt)
           e == tables[s.table][s.index]
<1>1. /\ pc = phase /\ pc \in BootPhases \ {"pml4"} /\ ~ MapRefused /\ s.level > 1
      /\ UNCHANGED <<g_pml4, cr3, job, doomed, framebuffer>>
      /\ job.virt < job.end
      /\ \/ pc' = "panic"
         \/ /\ pc' = pc
            /\ \E b \in Candidates(1) :
                 /\ alloc_pages(1, b)
                 /\ tables' = WithTable(tables, b.base, NewTable(e), s.table, s.index,
                                        TableEntry(b.base, NewTableUser(e)))
  BY DEF MapTable, BootPhases, WithTable
<1>2. /\ job.root = g_pml4 /\ job.u = FALSE /\ job.virt \in Nat /\ job.end \in Nat
      /\ tables \in Tables /\ framebuffer \in Framebuffers
  BY <1>1 DEF Inv, BootJob, Types, JobTypes
<1>3. CASE pc' = "panic"
  BY <1>3, PanicSees
<1>4. CASE pc' = pc
  <2>1. PICK b \in Candidates(1) :
          /\ alloc_pages(1, b)
          /\ tables' = WithTable(tables, b.base, NewTable(e), s.table, s.index,
                                 TableEntry(b.base, NewTableUser(e)))
    BY <1>1, <1>4
  <2>2. s = StopIn(tables, g_pml4, job.virt) /\ e = EntryIn(tables, g_pml4, job.virt)
    BY <1>2, StopIs DEF EntryIn
  <2>3. ~ (s.level >= 3 /\ e.kind = "page")
    BY <1>1 DEF MapRefused, StopEntry
  <2>4. PICK l, t, i : l = s.level /\ t = s.table /\ i = s.index
    OBVIOUS
  <2> HIDE DEF s, e
  <2>5. job.virt \in VirtualPages
    <3>1. Place(pc) \in ByPage
      BY <1>1, Places DEF ByPage
    <3> DEFINE r == ExtentAt(Place(pc), framebuffer)
    <3>2. job.virt \in r.first .. r.end /\ job.end = r.end
      BY <3>1 DEF Cursor
    <3>3. r.first <= job.virt /\ job.virt < r.end
      <4> HIDE DEF r
      <4> QED BY <1>1, <1>2, <3>2
    <3> QED BY <1>2, <3>1, <3>3, ExtentPages
  <2>6. /\ e \in Entry /\ e.kind # "table" /\ l \in 1 .. 4
        /\ e.kind # "none" => ~ e.a
    <3>1. PICK N, lev : KernelOnly(N, lev)
      BY <1>1, BootTree
    <3>2. /\ StoreOK /\ IsTree(tables, g_pml4, Slots, N, lev)
          /\ \A n \in N : Block(n, 1) \in held
      BY <1>1, <3>1, BootTree DEF KernelOnly, Blocks
    <3>3. Graded(tables, g_pml4, N, lev)
      BY <1>2, <3>2, KernelGraded
    <3>4. e \in Entry /\ e.kind # "table" /\ l \in 1 .. 4
      BY <1>2, <2>2, <2>4, <3>3, StopGraded
    <3>5. MapIn(tables, g_pml4, job.virt) = Sees(Place(pc), job.virt, framebuffer, job.virt)
      BY <1>1, <2>5 DEF KernelSees
    <3>6. ~ MapIn(tables, g_pml4, job.virt).a
      BY <3>5, SeesPlain
    <3>7. MapIn(tables, g_pml4, job.virt)
            = Final(e, job.virt, l, PathIn(tables, g_pml4, job.virt))
      BY <2>2, <2>4 DEF MapIn
    <3>8. e.kind # "none" => ~ e.a
      BY <3>4, <3>6, <3>7, FinalKind
    <3> QED BY <3>4, <3>8
  <2>7. PICK nt : nt = NewTable(e)
    OBVIOUS
  <2>8. PICK u \in BOOLEAN : u = NewTableUser(e)
    <3>1. e.u \in BOOLEAN
      BY <2>6 DEF Entry
    <3> QED BY <1>2, <3>1 DEF NewTableUser
  <2>9. PICK ne : ne = TableEntry(b.base, u)
    OBVIOUS
  <2>10. /\ ne \in Entry /\ ne.kind = "table" /\ ne.page = b.base /\ ne.u = u
    <3>1. b.base \in Nat
      BY <1>1, <2>1, BootTree, AllocFacts, PageFacts
    <3> QED BY <2>9, <3>1, NewRows
  <2>11. \/ nt = EmptyTable /\ e.kind = "none"
         \/ /\ nt = SplitTable(e) /\ l = 2
            /\ ne.u = e.u /\ (e.kind # "none" => ~ e.a)
    <3>1. CASE e.kind = "page"
      <4>1. nt = SplitTable(e) /\ u = e.u
        BY <2>7, <2>8, <3>1 DEF NewTable, NewTableUser
      <4>2. l = 2
        BY <1>1, <2>3, <2>4, <2>6, <3>1
      <4> QED BY <2>6, <2>10, <4>1, <4>2
    <3>2. CASE e.kind # "page"
      <4>1. e.kind = "none"
        BY <2>6, <3>2 DEF Entry
      <4> QED BY <2>7, <3>2, <4>1 DEF NewTable
    <3> QED BY <3>1, <3>2
  <2>12. /\ \A v \in VirtualPages : MapIn(tables', g_pml4, v) = MapIn(tables, g_pml4, v)
         /\ \A j \in Slots : tables'[g_pml4][j].kind # "page"
    <3>1. StopIn(tables, g_pml4, job.virt).level = l /\ l > 1
      BY <1>1, <2>2, <2>4
    <3>2. tables' = WithTable(tables, b.base, nt, StopIn(tables, g_pml4, job.virt).table,
                              StopIn(tables, g_pml4, job.virt).index, ne)
      BY <2>1, <2>2, <2>7, <2>8, <2>9
    <3>3. g_pml4' = g_pml4
      BY <1>1
    <3>4. StopIn(tables, g_pml4, job.virt).level > 1
      BY <3>1
    <3>5. \/ nt = EmptyTable /\ e.kind = "none"
          \/ /\ nt = SplitTable(e) /\ StopIn(tables, g_pml4, job.virt).level = 2
             /\ ne.u = e.u /\ (e.kind # "none" => ~ e.a)
      BY <2>11, <3>1
    <3> QED BY <1>1, <1>2, <2>1, <2>2, <2>10, <3>2, <3>3, <3>4, <3>5, KernelSplices, ZenonT(90)
  <2>13. job' = job /\ framebuffer' = framebuffer /\ g_pml4' = g_pml4
    BY <1>1
  <2>14. KernelSees'
    BY <1>1, <1>4, <2>12, <2>13, KernelStays
  <2>15. Cursor'
    BY <1>4, <2>13 DEF Cursor, HasFramebuffer
  <2> QED BY <2>14, <2>15
<1> QED BY <1>1, <1>3, <1>4

\* Before the large pages of low memory are mapped nothing is there; afterwards
\* each page is mapped to itself.
LEMMA SeesLarge ==
  ASSUME NEW c \in Nat, NEW fb, NEW v \in Nat
  PROVE  Sees(2, c, fb, v) = IF v < c /\ v \in 1 .. (LowLimit - 1)
                               THEN PageEntry(v, TRUE, TRUE, FALSE) ELSE NoEntry
<1>1. /\ ~ Image(1, 2, c, v) /\ ~ Image(2, 2, c, v) /\ ~ Image(3, 2, c, v)
      /\ ~ Device(2, c, fb, v)
  BY DEF Image, Device, Done
<1>2. LowMemory(2, c, v) <=> (v < c /\ v \in 1 .. (LowLimit - 1))
  BY DEF LowMemory
<1>3. CASE LowMemory(2, c, v)
  BY <1>1, <1>2, <1>3 DEF Sees
<1>4. CASE ~ LowMemory(2, c, v)
  BY <1>1, <1>2, <1>4 DEF Sees
<1> QED BY <1>3, <1>4

\* A table above level 2, in the boot.
LEMMA LargeTableSees ==
  ASSUME Inv, Cursor, KernelSees, LargeTable, UNCHANGED processVars
  PROVE  Cursor' /\ KernelSees'
<1> DEFINE s == Stop(g_pml4, job.virt)
<1>1. /\ pc = "large" /\ pc \in BootPhases \ {"pml4"} /\ s.level > 2
      /\ UNCHANGED <<g_pml4, cr3, job, doomed, framebuffer>>
      /\ job.virt < job.end
      /\ \/ pc' = "panic"
         \/ /\ pc' = pc
            /\ \E b \in Candidates(1) :
                 /\ alloc_pages(1, b)
                 /\ tables' = WithTable(tables, b.base, EmptyTable, s.table, s.index,
                                        TableEntry(b.base, FALSE))
  BY DEF LargeTable, BootPhases, WithTable
<1>2. /\ job.virt \in Nat /\ job.virt < LowLimit /\ tables \in Tables
  BY <1>1 DEF Inv, BootJob, Types, JobTypes, BootPhases
<1>3. CASE pc' = "panic"
  BY <1>3, PanicSees
<1>4. CASE pc' = pc
  <2>1. PICK b \in Candidates(1) :
          /\ alloc_pages(1, b)
          /\ tables' = WithTable(tables, b.base, EmptyTable, s.table, s.index,
                                 TableEntry(b.base, FALSE))
    BY <1>1, <1>4
  <2>2. s = StopIn(tables, g_pml4, job.virt)
    BY StopIs
  <2>3. PICK l : l = s.level
    OBVIOUS
  <2>4. PICK e : e = EntryIn(tables, g_pml4, job.virt)
    OBVIOUS
  <2> HIDE DEF s
  <2>5. e.kind = "none" /\ l \in 1 .. 4
    <3>1. PICK N, lev : KernelOnly(N, lev)
      BY <1>1, BootTree
    <3>2. /\ StoreOK /\ IsTree(tables, g_pml4, Slots, N, lev)
          /\ \A n \in N : Block(n, 1) \in held
      BY <1>1, <3>1, BootTree DEF KernelOnly, Blocks
    <3>3. Graded(tables, g_pml4, N, lev)
      BY <1>2, <3>2, KernelGraded
    <3>4. e \in Entry /\ l \in 1 .. 4
      BY <1>2, <2>2, <2>3, <2>4, <3>3, StopGraded
    <3>5. job.virt \in VirtualPages
      BY <1>2, LowPages
    <3>6. MapIn(tables, g_pml4, job.virt) = Sees(2, job.virt, framebuffer, job.virt)
      BY <1>1, <3>5, Places DEF KernelSees
    <3>7. MapIn(tables, g_pml4, job.virt) = NoEntry
      <4>1. ~ (job.virt < job.virt)
        BY <1>2
      <4> QED BY <1>2, <3>6, <4>1, SeesLarge
    <3>8. MapIn(tables, g_pml4, job.virt)
            = Final(e, job.virt, l, PathIn(tables, g_pml4, job.virt))
      BY <2>2, <2>3, <2>4 DEF MapIn
    <3>9. Final(e, job.virt, l, PathIn(tables, g_pml4, job.virt)).kind = e.kind
      BY <3>4, FinalKind
    <3> QED BY <3>4, <3>7, <3>8, <3>9 DEF NoEntry
  <2>6. PICK ne : ne = TableEntry(b.base, FALSE)
    OBVIOUS
  <2>7. /\ ne \in Entry /\ ne.kind = "table" /\ ne.page = b.base
    <3>1. b.base \in Nat /\ FALSE \in BOOLEAN
      BY <1>1, <2>1, BootTree, AllocFacts, PageFacts, ZenonT(60)
    <3> QED BY <2>6, <3>1, NewRows
  <2>8. PICK nt : nt = EmptyTable
    OBVIOUS
  <2>9. /\ \A v \in VirtualPages : MapIn(tables', g_pml4, v) = MapIn(tables, g_pml4, v)
        /\ \A j \in Slots : tables'[g_pml4][j].kind # "page"
    <3>1. StopIn(tables, g_pml4, job.virt).level > 1
      BY <1>1, <2>2, <2>3, <2>5
    <3>2. tables' = WithTable(tables, b.base, nt, StopIn(tables, g_pml4, job.virt).table,
                              StopIn(tables, g_pml4, job.virt).index, ne)
      BY <2>1, <2>2, <2>6, <2>8
    <3>3. g_pml4' = g_pml4
      BY <1>1
    <3>4. \/ nt = EmptyTable /\ e.kind = "none"
          \/ /\ nt = SplitTable(e) /\ StopIn(tables, g_pml4, job.virt).level = 2
             /\ ne.u = e.u /\ (e.kind # "none" => ~ e.a)
      BY <2>5, <2>8
    <3> QED BY <1>1, <1>2, <2>1, <2>4, <2>7, <3>1, <3>2, <3>3, <3>4, KernelSplices
  <2>10. job' = job /\ framebuffer' = framebuffer /\ g_pml4' = g_pml4
    BY <1>1
  <2>11. KernelSees'
    BY <1>1, <1>4, <2>9, <2>10, KernelStays
  <2>12. Cursor'
    BY <1>4, <2>10 DEF Cursor, HasFramebuffer
  <2> QED BY <2>11, <2>12
<1> QED BY <1>1, <1>3, <1>4

\* split_large_page on a chunk of the image.
LEMMA SplitChunkSees ==
  ASSUME Inv, Cursor, KernelSees, SplitChunk, UNCHANGED processVars
  PROVE  Cursor' /\ KernelSees'
<1> DEFINE s == Stop(g_pml4, job.virt)
           e == tables[s.table][s.index]
<1>1. /\ pc = "split" /\ pc \in BootPhases \ {"pml4"} /\ job.virt < job.end
      /\ UNCHANGED <<g_pml4, cr3, doomed, framebuffer>>
      /\ \/ pc' = "panic"
         \/ /\ pc' = pc
            /\ job' = [job EXCEPT !.virt = @ + TableEntries]
            /\ \E b \in Candidates(1) :
                 /\ alloc_pages(1, b)
                 /\ tables' = WithTable(tables, b.base, SplitTable(e), s.table, s.index,
                                        TableEntry(b.base, e.u))
  BY DEF SplitChunk, BootPhases, WithTable
<1>2. /\ job.virt \in Nat /\ job.end \in Nat /\ job \in JobTypes /\ tables \in Tables
      /\ job.virt % TableEntries = 0 /\ job.virt < LowLimit
      /\ LargeStops(job.virt, job.end) /\ framebuffer \in Framebuffers
      /\ TableEntries \in Nat \ {0} /\ LowLimit \in Nat
  BY <1>1, PagingAssumption DEF Inv, BootJob, Types, JobTypes, BootPhases
<1>3. CASE pc' = "panic"
  BY <1>3, PanicSees
<1>4. CASE pc' = pc /\ job' = [job EXCEPT !.virt = @ + TableEntries]
  <2>1. PICK b \in Candidates(1) :
          /\ alloc_pages(1, b)
          /\ tables' = WithTable(tables, b.base, SplitTable(e), s.table, s.index,
                                 TableEntry(b.base, e.u))
    BY <1>1, <1>4
  <2>2. s = StopIn(tables, g_pml4, job.virt) /\ e = EntryIn(tables, g_pml4, job.virt)
    BY StopIs DEF EntryIn
  <2>3. s.level = 2
    <3>1. job.virt \in job.virt .. (job.end - 1)
      BY <1>1, <1>2
    <3> QED BY <1>2, <3>1 DEF LargeStops
  <2>4. PICK l, t, i : l = s.level /\ t = s.table /\ i = s.index
    OBVIOUS
  <2> HIDE DEF s, e
  <2>5. e \in Entry /\ (e.kind # "none" => ~ e.a)
    <3>1. PICK N, lev : KernelOnly(N, lev)
      BY <1>1, BootTree
    <3>2. /\ StoreOK /\ IsTree(tables, g_pml4, Slots, N, lev)
          /\ \A n \in N : Block(n, 1) \in held
      BY <1>1, <3>1, BootTree DEF KernelOnly, Blocks
    <3>3. Graded(tables, g_pml4, N, lev)
      BY <1>2, <3>2, KernelGraded
    <3>4. e \in Entry
      BY <1>2, <2>2, <3>3, StopGraded
    <3>5. MapIn(tables, g_pml4, job.virt) = Sees(Place(pc), job.virt, framebuffer, job.virt)
      BY <1>1, <1>2, LowPages DEF KernelSees
    <3>6. ~ MapIn(tables, g_pml4, job.virt).a
      BY <3>5, SeesPlain
    <3>7. MapIn(tables, g_pml4, job.virt)
            = Final(e, job.virt, l, PathIn(tables, g_pml4, job.virt))
      BY <2>2, <2>4 DEF MapIn
    <3> QED BY <3>4, <3>6, <3>7, FinalKind
  <2>6. PICK nt : nt = SplitTable(e)
    OBVIOUS
  <2>7. PICK u \in BOOLEAN : u = e.u
    BY <2>5 DEF Entry
  <2>8. PICK ne : ne = TableEntry(b.base, u)
    OBVIOUS
  <2>9. /\ ne \in Entry /\ ne.kind = "table" /\ ne.page = b.base /\ ne.u = u
    <3>1. b.base \in Nat
      BY <1>1, <2>1, BootTree, AllocFacts, PageFacts
    <3> QED BY <2>8, <3>1, NewRows
  <2>10. /\ \A v \in VirtualPages : MapIn(tables', g_pml4, v) = MapIn(tables, g_pml4, v)
         /\ \A j \in Slots : tables'[g_pml4][j].kind # "page"
    <3>1. StopIn(tables, g_pml4, job.virt).level = 2
      BY <2>2, <2>3, <2>4
    <3>2. tables' = WithTable(tables, b.base, nt, StopIn(tables, g_pml4, job.virt).table,
                              StopIn(tables, g_pml4, job.virt).index, ne)
      BY <2>1, <2>2, <2>6, <2>7, <2>8
    <3>3. g_pml4' = g_pml4
      BY <1>1
    <3>4. StopIn(tables, g_pml4, job.virt).level > 1
      BY <3>1
    <3>5. \/ nt = EmptyTable /\ e.kind = "none"
          \/ /\ nt = SplitTable(e) /\ StopIn(tables, g_pml4, job.virt).level = 2
             /\ ne.u = e.u /\ (e.kind # "none" => ~ e.a)
      BY <2>5, <2>6, <2>7, <2>9, <3>1
    <3>6. pc \in BootPhases /\ pc # "pml4" /\ job.virt \in Nat /\ alloc_pages(1, b)
      BY <1>1, <1>2, <2>1
    <3> QED BY <2>2, <2>9, <3>2, <3>3, <3>4, <3>5, <3>6, KernelSplices
  <2>11. framebuffer' = framebuffer /\ g_pml4' = g_pml4
         /\ job' \in JobTypes /\ job'.virt \in Nat
    <3>1. job' \in JobTypes
      BY <1>2, <1>4, JobMoves
    <3> QED BY <1>1, <3>1 DEF JobTypes
  <2>12. \A v \in VirtualPages :
           Sees(Place(pc'), job'.virt, framebuffer, v) = Sees(Place(pc), job.virt, framebuffer, v)
    <3>1. Place(pc') = 3 /\ Place(pc) = 3
      BY <1>1, <1>4, Places
    <3> QED BY <1>2, <2>11, <3>1, SeesMoves, VirtualNat
  <2>13. KernelSees'
    BY <1>1, <2>10, <2>11, <2>12, KernelStays
  <2>14. Cursor'
    <3>1. Place(pc)' = 3
      BY <1>1, <1>4, Places
    <3> QED BY <1>1, <1>4, <3>1 DEF Cursor, ByPage
  <2> QED BY <2>13, <2>14
<1> QED BY <1>1, <1>3, <1>4

\* The pages of a large page differ in their lowest index only.
LEMMA ChunkIndices ==
  ASSUME NEW c \in Nat, c % TableEntries = 0, NEW v \in Nat, c <= v, v < c + TableEntries
  PROVE  /\ v % Span(2) = v - c
         /\ IndexAt(v, 2) = IndexAt(c, 2)
         /\ IndexAt(v, 3) = IndexAt(c, 3)
         /\ IndexAt(v, 4) = IndexAt(c, 4)
<1> DEFINE n == TableEntries
           n2 == n * n
           n3 == n2 * n
<1>1. n \in Nat \ {0} /\ n2 \in Nat \ {0}
  BY PagingAssumption
<1>2. \A x \in Nat : /\ IndexAt(x, 2) = (x \div n) % n
                     /\ IndexAt(x, 3) = (x \div n2) % n
                     /\ IndexAt(x, 4) = (x \div n3) % n
  BY DEF IndexAt, Span
<1>3. v % Span(2) = v % n /\ c % n = 0 /\ c <= v /\ v < c + n
  BY DEF Span
<1> HIDE DEF n
<1>4. v \div n = c \div n /\ v % n = v - c
  BY <1>1, <1>3, InBlock
<1>5. \A x \in Nat : x \div n2 = (x \div n) \div n /\ x \div n3 = (x \div n2) \div n
  BY <1>1, NestedDiv DEF n2, n3
<1>6. v \div n2 = c \div n2 /\ v \div n3 = c \div n3
  BY <1>4, <1>5
<1> QED BY <1>2, <1>3, <1>4, <1>6

\* Walks for pages with the same upper indices that end above level 1 end together.
LEMMA SameUpper ==
  ASSUME NEW tab, NEW root, NEW v, NEW w, StopIn(tab, root, w).level > 1,
         IndexAt(v, 2) = IndexAt(w, 2), IndexAt(v, 3) = IndexAt(w, 3),
         IndexAt(v, 4) = IndexAt(w, 4)
  PROVE  StopIn(tab, root, v) = StopIn(tab, root, w)
<1>1. T3(tab, root, v) = T3(tab, root, w) /\ (Has(tab, root, v, 4) <=> Has(tab, root, w, 4))
  BY DEF T3, Has, Down
<1>2. \A t : /\ Has(tab, t, v, 3) <=> Has(tab, t, w, 3)
             /\ Has(tab, t, v, 2) <=> Has(tab, t, w, 2)
  BY DEF Has
<1>3. T2(tab, root, v) = T2(tab, root, w)
  BY <1>1 DEF T2, Down
<1>4. ~ (Has(tab, root, w, 4) /\ Has(tab, T3(tab, root, w), w, 3) /\ Has(tab, T2(tab, root, w), w, 2))
  BY DEF StopIn
<1> QED BY <1>1, <1>2, <1>3, <1>4 DEF StopIn

\* A large page maps each of its pages.
LEMMA FinalLarge ==
  ASSUME NEW c \in Nat, NEW v \in Nat, v % Span(2) = v - c, NEW up
  PROVE  Final(PageEntry(c, TRUE, TRUE, FALSE), v, 2, up) = PageEntry(v, TRUE, TRUE, FALSE)
<1>1. c + (v % Span(2)) = v
  OBVIOUS
<1> QED BY <1>1 DEF Final, PageEntry

\* Every page whose walk ends where that of a large page does is on that page.
LEMMA OnChunk ==
  ASSUME NEW tab, NEW root, NEW N, NEW lev, IsTree(tab, root, Slots, N, lev),
         NEW c \in VirtualPages, c % TableEntries = 0, NEW v \in VirtualPages,
         StopIn(tab, root, c).level = 2
  PROVE  StopIn(tab, root, v) = StopIn(tab, root, c) <=> c <= v /\ v < c + TableEntries
<1>1. TableEntries \in Nat \ {0} /\ v \in Nat /\ c \in Nat
  BY PagingAssumption, VirtualNat
<1>2. ASSUME c <= v, v < c + TableEntries
      PROVE  StopIn(tab, root, v) = StopIn(tab, root, c)
  <2>1. IndexAt(v, 2) = IndexAt(c, 2) /\ IndexAt(v, 3) = IndexAt(c, 3) /\ IndexAt(v, 4) = IndexAt(c, 4)
    BY <1>1, <1>2, ChunkIndices
  <2>2. StopIn(tab, root, c).level > 1
    OBVIOUS
  <2> QED BY <2>1, <2>2, SameUpper
<1>3. ASSUME StopIn(tab, root, v) = StopIn(tab, root, c)
      PROVE  c <= v /\ v < c + TableEntries
  <2> DEFINE n == TableEntries
             r == v % n
             w == v - r
  <2>1. r \in 0 .. n - 1 /\ w \in Nat /\ w % n = 0
    BY <1>1, DivMod, Multiples
  <2>2. w \in Nat /\ w % TableEntries = 0 /\ w <= v /\ v < w + TableEntries
    <3>1. v = w + r
      BY <1>1, <2>1
    <3> HIDE DEF r, w
    <3> QED BY <1>1, <2>1, <3>1
  <2> HIDE DEF w, r
  <2>3. IndexAt(v, 2) = IndexAt(w, 2) /\ IndexAt(v, 3) = IndexAt(w, 3) /\ IndexAt(v, 4) = IndexAt(w, 4)
    BY <1>1, <2>2, ChunkIndices
  <2>4. /\ IndexAt(c, 2) = IndexAt(v, 2) /\ IndexAt(c, 3) = IndexAt(v, 3)
        /\ IndexAt(c, 4) = IndexAt(v, 4)
    BY <1>1, <1>3, SameWay
  <2>5. w \in VirtualPages
    BY <1>1, <2>2, Products, PagingAssumption DEF VirtualPages
  <2>6. IndexAt(c, 1) = IndexAt(w, 1)
    <3>1. \A x \in Nat : IndexAt(x, 1) = x % TableEntries
      BY <1>1 DEF IndexAt, Span
    <3> QED BY <1>1, <2>2, <3>1
  <2>7. c = w
    BY <2>3, <2>4, <2>5, <2>6, SameIndices
  <2> QED BY <2>2, <2>7
<1> QED BY <1>2, <1>3

\* A large page of low memory.
LEMMA MapLargeSees ==
  ASSUME Inv, Cursor, KernelSees, MapLarge, UNCHANGED processVars
  PROVE  Cursor' /\ KernelSees'
<1> DEFINE s == StopIn(tables, g_pml4, job.virt)
           e == PageEntry(job.phys, TRUE, TRUE, FALSE)
           c == job.virt
<1>1. /\ pc = "large" /\ pc \in BootPhases \ {"pml4"} /\ Stop(g_pml4, job.virt).level = 2
      /\ pc' = pc /\ job.virt < job.end
      /\ UNCHANGED <<storeVars, g_pml4, cr3, doomed, framebuffer>>
      /\ tables' = WithEntry(tables, Stop(g_pml4, job.virt).table, Stop(g_pml4, job.virt).index, e)
      /\ job' = [job EXCEPT !.virt = @ + TableEntries, !.phys = @ + TableEntries]
  BY DEF MapLarge, BootPhases, WithEntry
<1>2. /\ job.virt \in Nat /\ job.phys = job.virt /\ job \in JobTypes
      /\ job.virt % TableEntries = 0 /\ job.end = LowLimit
      /\ tables \in Tables /\ TableEntries <= job.virt
      /\ TableEntries \in Nat \ {0} /\ LowLimit \in Nat /\ LowLimit % TableEntries = 0
      /\ framebuffer \in Framebuffers
  <2>1. TableEntries \in Nat \ {0} /\ LowLimit \in Nat /\ LowLimit % TableEntries = 0
    BY PagingAssumption
  <2>2. job \in JobTypes /\ job.virt % TableEntries = 0 /\ job.end = LowLimit
        /\ tables \in Tables /\ framebuffer \in Framebuffers
    BY <1>1 DEF Inv, BootJob, Types
  <2>3. job.virt \in TableEntries .. LowLimit /\ job.phys = job.virt
    BY <1>1 DEF Cursor
  <2>4. job.virt \in Nat
    BY <2>2 DEF JobTypes
  <2> QED BY <2>1, <2>2, <2>3, <2>4
<1>3. c < LowLimit /\ c + TableEntries <= LowLimit /\ c > 0 /\ c \in Nat /\ c \in VirtualPages
  BY <1>1, <1>2, RoomAbove, LowPages
<1>4. PICK N, lev : KernelOnly(N, lev)
  BY <1>1, BootTree
<1>5. /\ StoreOK /\ IsTree(tables, g_pml4, Slots, N, lev)
      /\ \A t \in N : Block(t, 1) \in held
  BY <1>1, <1>4, BootTree DEF KernelOnly, Blocks
<1>6. /\ N \subseteq AllPages /\ g_pml4 \in N /\ lev[g_pml4] = 4
      /\ Graded(tables, g_pml4, N, lev)
  BY <1>2, <1>5, KernelGraded
<1>7. /\ s.level = 2 /\ tables' = WithEntry(tables, s.table, s.index, e)
  BY <1>1, StopIs
<1>8. /\ s.table \in N /\ s.index \in Slots /\ lev[s.table] = 2
      /\ tables[s.table][s.index].kind # "table"
  <2>1. EntryIn(tables, g_pml4, job.virt) = tables[s.table][s.index]
    BY DEF EntryIn
  <2>2. /\ s.table \in N /\ s.level = lev[s.table] /\ s.index \in Slots
        /\ EntryIn(tables, g_pml4, job.virt).kind # "table"
    BY <1>2, <1>6, StopGraded
  <2> HIDE DEF s
  <2> QED BY <1>7, <2>1, <2>2
<1>9. e \in Entry /\ e.kind = "page" /\ e = PageEntry(c, TRUE, TRUE, FALSE)
  BY <1>2, NewRows
<1> HIDE DEF s, e
<1>10. /\ tables'[s.table][s.index] = e
       /\ \A j \in Slots : j # s.index => tables'[s.table][j] = tables[s.table][j]
       /\ \A p \in AllPages : p # s.table => tables'[p] = tables[p]
  <2> DEFINE tb == WithEntry(tables, s.table, s.index, e)
  <2>1. s.table \in AllPages
    BY <1>6, <1>8
  <2>2. /\ tb[s.table][s.index] = e
        /\ \A j \in Slots : j # s.index => tb[s.table][j] = tables[s.table][j]
        /\ \A p \in AllPages : p # s.table => tb[p] = tables[p]
    <3>1. PICK e0 \in Entry, t0 \in AllPages, i0 \in Slots :
            e0 = e /\ t0 = s.table /\ i0 = s.index
      BY <1>8, <1>9, <2>1
    <3> QED BY <1>2, <3>1, EntrySet
  <2>3. tables' = tb
    BY <1>7
  <2> HIDE DEF tb
  <2> QED BY <2>2, <2>3
<1>11. Put(tables, tables', N, s.table, s.index, e)
  BY <1>6, <1>8, <1>9, <1>10 DEF Put
<1>12. ASSUME NEW v \in VirtualPages
       PROVE  MapIn(tables', g_pml4, v) = Sees(2, c + TableEntries, framebuffer, v)
  <2>1. v \in Nat
    BY VirtualNat
  <2>2. MapIn(tables, g_pml4, v) = Sees(2, c, framebuffer, v)
    BY <1>1, Places DEF KernelSees
  <2>3. Sees(2, c + TableEntries, framebuffer, v) =
          IF c <= v /\ v < c + TableEntries THEN PageEntry(v, TRUE, TRUE, FALSE)
          ELSE Sees(2, c, framebuffer, v)
    <3>1. PICK d \in Nat : d = c + TableEntries /\ d <= LowLimit /\ c <= d
      BY <1>2, <1>3
    <3>2. PICK k \in Nat : k = c /\ k <= d /\ k > 0
      BY <1>3, <3>1
    <3>3. /\ Sees(2, k, framebuffer, v) = IF v < k /\ v \in 1 .. (LowLimit - 1)
                                            THEN PageEntry(v, TRUE, TRUE, FALSE) ELSE NoEntry
          /\ Sees(2, d, framebuffer, v) = IF v < d /\ v \in 1 .. (LowLimit - 1)
                                            THEN PageEntry(v, TRUE, TRUE, FALSE) ELSE NoEntry
      BY <2>1, SeesLarge
    <3>4. CASE k <= v /\ v < d
      <4>1. v \in 1 .. (LowLimit - 1)
        BY <1>2, <2>1, <3>1, <3>2, <3>4
      <4> QED BY <3>1, <3>2, <3>3, <3>4, <4>1
    <3>5. CASE ~ (k <= v /\ v < d)
      <4>1. (v < k /\ v \in 1 .. (LowLimit - 1)) <=> (v < d /\ v \in 1 .. (LowLimit - 1))
        BY <2>1, <3>2, <3>5
      <4>2. Sees(2, k, framebuffer, v) = Sees(2, d, framebuffer, v)
        <5>1. CASE v < k /\ v \in 1 .. (LowLimit - 1)
          BY <3>3, <4>1, <5>1
        <5>2. CASE ~ (v < k /\ v \in 1 .. (LowLimit - 1))
          BY <3>3, <4>1, <5>2
        <5> QED BY <5>1, <5>2
      <4> QED BY <3>1, <3>2, <3>5, <4>2
    <3> QED BY <3>4, <3>5
  <2>4. MapIn(tables', g_pml4, v) =
          IF StopIn(tables, g_pml4, v).table = s.table /\ StopIn(tables, g_pml4, v).index = s.index
            THEN Final(e, v, StopIn(tables, g_pml4, v).level, PathIn(tables, g_pml4, v))
            ELSE MapIn(tables, g_pml4, v)
    BY <1>6, <1>11, <2>1, MapPut
  <2>5. StopIn(tables, g_pml4, v) = s <=> c <= v /\ v < c + TableEntries
    BY <1>2, <1>3, <1>5, <1>7, OnChunk DEF s
  <2>6. CASE c <= v /\ v < c + TableEntries
    <3>1. MapIn(tables', g_pml4, v) = Final(e, v, 2, PathIn(tables, g_pml4, v))
      BY <1>7, <2>4, <2>5, <2>6
    <3>2. v % Span(2) = v - c
      BY <1>2, <1>3, <2>1, <2>6, ChunkIndices
    <3>3. Final(PageEntry(c, TRUE, TRUE, FALSE), v, 2, PathIn(tables, g_pml4, v))
            = PageEntry(v, TRUE, TRUE, FALSE)
      BY <1>3, <2>1, <3>2, FinalLarge
    <3> QED BY <1>9, <2>3, <2>6, <3>1, <3>3
  <2>7. CASE ~ (c <= v /\ v < c + TableEntries)
    <3>1. ~ (StopIn(tables, g_pml4, v).table = s.table /\ StopIn(tables, g_pml4, v).index = s.index)
      <4> SUFFICES ASSUME StopIn(tables, g_pml4, v).table = s.table,
                          StopIn(tables, g_pml4, v).index = s.index
                   PROVE  FALSE
        OBVIOUS
      <4>1. StopIn(tables, g_pml4, v) = StopIn(tables, g_pml4, job.virt)
        BY <1>2, <1>6, <2>1, SameRecord DEF s
      <4> QED BY <2>5, <2>7, <4>1 DEF s
    <3> QED BY <2>2, <2>3, <2>4, <2>7, <3>1
  <2> QED BY <2>6, <2>7
<1>13. /\ job'.virt = c + TableEntries /\ job'.phys = c + TableEntries
  BY <1>1, <1>2 DEF JobTypes
<1>14. Place(pc)' = 2 /\ framebuffer' = framebuffer /\ g_pml4' = g_pml4
  BY <1>1, Places
<1>15. \A i \in Slots : tables'[g_pml4][i].kind # "page"
  <2>1. g_pml4 # s.table
    BY <1>6, <1>8
  <2> QED BY <1>1, <1>6, <1>10, <2>1 DEF KernelSees
<1>16. KernelSees'
  BY <1>12, <1>13, <1>14, <1>15 DEF KernelSees
<1>17. Cursor'
  <2>1. job'.virt \in TableEntries .. LowLimit /\ job'.phys = job'.virt
    BY <1>2, <1>3, <1>13
  <2>2. Place(pc)' \notin ByPage /\ pc' # "framebuffer"
    BY <1>1, <1>14 DEF ByPage
  <2> QED BY <2>1, <2>2 DEF Cursor
<1> QED BY <1>16, <1>17

\* The kernel's root is empty at first.
LEMMA AllocKernelRootSees ==
  ASSUME Inv, AllocKernelRoot, UNCHANGED processVars
  PROVE  Cursor' /\ KernelSees'
<1>1. PICK b \in Candidates(1) :
        /\ alloc_pages(1, b)
        /\ g_pml4' = b.base
        /\ tables' = [tables EXCEPT ![b.base] = EmptyTable]
        /\ job' = Job(b.base, 1, TableEntries, 1, TRUE, TRUE, FALSE)
  BY DEF AllocKernelRoot
<1>2. pc = "pml4" /\ pc' = "low" /\ framebuffer' = framebuffer
  BY DEF AllocKernelRoot
<1>3. b.base \in AllPages /\ tables \in Tables /\ TableEntries \in Nat /\ TableEntries > 1
  <2>1. StoreOK /\ tables \in Tables
    BY DEF Inv, Memory, Types
  <2>2. b.base \in free
    BY <1>1, <2>1, AllocFacts
  <2> QED BY <2>1, <2>2, ExtentFacts DEF StoreOK
<1>4. tables'[g_pml4'] = EmptyTable
  BY <1>1, <1>3 DEF Tables
<1>5. ASSUME NEW v \in VirtualPages
      PROVE  MapIn(tables', g_pml4', v) = Sees(1, 1, framebuffer, v)
  <2>1. v \in Nat /\ IndexAt(v, 4) \in Slots
    BY VirtualNat, IndexFacts
  <2>2. EmptyTable[IndexAt(v, 4)].kind = "none"
    BY <2>1, NewRows
  <2>3. EntryIn(tables', g_pml4', v).kind = "none"
    BY <1>4, <2>2 DEF EntryIn, StopIn, Has
  <2>4. MapIn(tables', g_pml4', v) = NoEntry
    BY <2>3 DEF MapIn, Final
  <2>5. /\ ~ Image(1, 1, 1, v) /\ ~ Image(2, 1, 1, v) /\ ~ Image(3, 1, 1, v)
        /\ ~ Device(1, 1, framebuffer, v)
    BY DEF Image, Device, Done
  <2>6. ~ LowMemory(1, 1, v)
    BY <2>1, ExtentFacts DEF LowMemory
  <2> QED BY <2>4, <2>5, <2>6 DEF Sees
<1>6. Place(pc)' = 1 /\ job'.virt = 1 /\ job'.end = TableEntries /\ job'.phys = 1
      /\ job'.w = TRUE /\ job'.x = TRUE
  BY <1>1, <1>2, Places DEF Job
<1>7. \A i \in Slots : tables'[g_pml4'][i].kind # "page"
  BY <1>4, NewRows
<1>8. KernelSees'
  BY <1>2, <1>5, <1>6, <1>7 DEF KernelSees
<1>9. Cursor'
  <2>1. /\ ExtentAt(1, framebuffer').first = 1 /\ ExtentAt(1, framebuffer').end = TableEntries
        /\ ExtentAt(1, framebuffer').w = TRUE /\ ExtentAt(1, framebuffer').x = TRUE
    BY DEF ExtentAt, Extent
  <2>2. 1 \in 1 .. TableEntries
    BY <1>3
  <2>3. pc' # "framebuffer" /\ pc' # "large"
    BY <1>2
  <2> QED BY <1>6, <2>1, <2>2, <2>3 DEF Cursor
<1> QED BY <1>8, <1>9

\* From one range of the boot to the next.
LEMMA RangeDoneSees ==
  ASSUME Inv, Cursor, KernelSees, RangeDone, UNCHANGED processVars
  PROVE  Cursor' /\ KernelSees'
<1>1. UNCHANGED <<tables, g_pml4, framebuffer>>
  BY DEF RangeDone, LowMapped, LargeMapped, NextRange, DataMapped, FramebufferMapped
<1>2. /\ pc \notin {"pml4", "panic"} /\ framebuffer \in Framebuffers
      /\ job \in JobTypes /\ job.virt \in Nat /\ job.end \in Nat
  BY DEF Inv, Types, JobTypes, RangeDone, LowMapped, LargeMapped, NextRange, DataMapped,
         FramebufferMapped, JobDone
<1>3. job' \in JobTypes /\ job'.virt \in Nat
  <2>1. job' \in JobTypes
    BY RangeDoneKeeps DEF Inv, Types
  <2> QED BY <2>1 DEF JobTypes
<1>4. \A v \in VirtualPages : MapIn(tables', g_pml4, v) = MapIn(tables, g_pml4, v)
  BY <1>1
<1>5. \A i \in Slots : tables'[g_pml4][i].kind # "page"
  BY <1>1, <1>2 DEF KernelSees
<1>6. Place(pc)' = Place(pc')
  OBVIOUS
<1>7. /\ \A i \in 1 .. 3 : Sections[i].first \in Nat /\ Sections[i].end \in Nat
                           /\ Sections[i].first < Sections[i].end
      /\ framebuffer.first \in Nat /\ framebuffer.end \in Nat
      /\ TableEntries \in Nat /\ LowLimit \in Nat /\ TableEntries <= LowLimit
  BY <1>2, ExtentFacts
<1>8. \/ /\ pc = "low" /\ pc' = "large" /\ job.virt >= job.end
         /\ job' = Job(g_pml4, TableEntries, LowLimit, TableEntries, TRUE, TRUE, FALSE)
      \/ pc = "large" /\ pc' = "split" /\ job.virt >= job.end
      \/ pc = "split" /\ pc' = "text" /\ job' = JobAt("text")
      \/ pc = "text" /\ pc' = "rodata" /\ job.virt >= job.end /\ job' = JobAt("rodata")
      \/ pc = "rodata" /\ pc' = "data" /\ job.virt >= job.end /\ job' = JobAt("data")
      \/ /\ pc = "data" /\ pc' = "framebuffer" /\ job.virt >= job.end /\ HasFramebuffer
         /\ job' = JobAt("framebuffer")
      \/ pc = "data" /\ pc' = "load_cr3" /\ job.virt >= job.end /\ ~ HasFramebuffer
      \/ pc = "framebuffer" /\ pc' = "load_cr3" /\ job.virt >= job.end
  BY DEF RangeDone, LowMapped, LargeMapped, NextRange, DataMapped, FramebufferMapped, JobDone
<1>9. /\ JobAt("text") = Identity(Sections[1], Sections[1].w, Sections[1].x)
      /\ JobAt("rodata") = Identity(Sections[2], Sections[2].w, Sections[2].x)
      /\ JobAt("data") = Identity(Sections[3], Sections[3].w, Sections[3].x)
      /\ JobAt("framebuffer") = Identity(framebuffer, TRUE, FALSE)
  BY DEF JobAt, SectionAt
<1>10. /\ \A r, w, x : /\ Identity(r, w, x).virt = r.first /\ Identity(r, w, x).end = r.end
                       /\ Identity(r, w, x).phys = r.first
                       /\ Identity(r, w, x).w = w /\ Identity(r, w, x).x = x
       /\ \A r : /\ Identity(r, TRUE, FALSE).virt = r.first
                 /\ Identity(r, TRUE, FALSE).end = r.end
                 /\ Identity(r, TRUE, FALSE).phys = r.first
                 /\ Identity(r, TRUE, FALSE).w = TRUE /\ Identity(r, TRUE, FALSE).x = FALSE
  BY DEF Identity, Job
<1> DEFINE Shows == \A v \in VirtualPages :
             Sees(Place(pc'), job'.virt, framebuffer, v) = Sees(Place(pc), job.virt, framebuffer, v)
<1>11. ASSUME Shows PROVE KernelSees'
  BY <1>1, <1>2, <1>4, <1>5, <1>11, KernelStays
<1>12. CASE pc = "low" /\ pc' = "large"
  <2>1. job.virt >= job.end /\ job'.virt = TableEntries /\ job'.phys = TableEntries
    BY <1>8, <1>12 DEF Job
  <2>2. Place(pc) = 1 /\ Place(pc') = 2
    BY <1>12, Places
  <2>3. job.virt = TableEntries
    <3>1. job.virt \in 1 .. TableEntries /\ job.end = TableEntries
      BY <2>2 DEF Cursor, ByPage, ExtentAt, Extent
    <3> QED BY <1>7, <2>1, <3>1
  <2>4. Shows
    BY <1>2, <1>7, <2>1, <2>2, <2>3, SeesMoves, VirtualNat
  <2>5. Cursor'
    <3>1. TableEntries \in TableEntries .. LowLimit
      BY <1>7
    <3> QED BY <1>12, <2>1, <2>2, <3>1 DEF Cursor, ByPage
  <2> QED BY <1>11, <2>4, <2>5
<1>13. CASE pc = "large" /\ pc' = "split"
  <2>1. job.virt >= LowLimit
    BY <1>8, <1>13 DEF Inv, BootJob
  <2>2. Place(pc) = 2 /\ Place(pc') = 3
    BY <1>13, Places
  <2>3. Shows
    BY <1>2, <1>3, <2>1, <2>2, SeesMoves, VirtualNat
  <2>4. Cursor'
    BY <1>13, <2>2 DEF Cursor, ByPage
  <2> QED BY <1>11, <2>3, <2>4
<1>14. CASE pc = "split" /\ pc' = "text"
  <2>1. job' = Identity(Sections[1], Sections[1].w, Sections[1].x)
    BY <1>8, <1>9, <1>14
  <2>2. Place(pc) = 3 /\ Place(pc') = 4
    BY <1>14, Places
  <2>3. Shows
    BY <1>2, <2>1, <2>2, <1>10, SeesMoves, VirtualNat
  <2>4. Cursor'
    <3>1. ExtentAt(4, framebuffer') =
            Extent(Sections[1].first, Sections[1].end, Sections[1].w, Sections[1].x)
      BY DEF ExtentAt
    <3>2. Sections[1].first \in Sections[1].first .. Sections[1].end
      BY <1>7
    <3> QED BY <1>10, <1>14, <2>1, <2>2, <3>1, <3>2 DEF Cursor, Extent
  <2> QED BY <1>11, <2>3, <2>4
<1>15. CASE pc = "text" /\ pc' = "rodata"
  <2>1. /\ job.virt >= job.end
        /\ job' = Identity(Sections[2], Sections[2].w, Sections[2].x)
    BY <1>8, <1>9, <1>15
  <2>2. Place(pc) = 4 /\ Place(pc') = 5
    BY <1>15, Places
  <2>3. job.end = Sections[1].end
    BY <2>2 DEF Cursor, ByPage, ExtentAt, Extent
  <2>4. Shows
    BY <1>2, <2>1, <2>2, <2>3, <1>10, SeesMoves, VirtualNat
  <2>5. Cursor'
    <3>1. ExtentAt(5, framebuffer') =
            Extent(Sections[2].first, Sections[2].end, Sections[2].w, Sections[2].x)
      BY DEF ExtentAt
    <3>2. Sections[2].first \in Sections[2].first .. Sections[2].end
      BY <1>7
    <3> QED BY <1>10, <1>15, <2>1, <2>2, <3>1, <3>2 DEF Cursor, Extent
  <2> QED BY <1>11, <2>4, <2>5
<1>16. CASE pc = "rodata" /\ pc' = "data"
  <2>1. /\ job.virt >= job.end
        /\ job' = Identity(Sections[3], Sections[3].w, Sections[3].x)
    BY <1>8, <1>9, <1>16
  <2>2. Place(pc) = 5 /\ Place(pc') = 6
    BY <1>16, Places
  <2>3. job.end = Sections[2].end
    BY <2>2 DEF Cursor, ByPage, ExtentAt, Extent
  <2>4. Shows
    BY <1>2, <2>1, <2>2, <2>3, <1>10, SeesMoves, VirtualNat
  <2>5. Cursor'
    <3>1. ExtentAt(6, framebuffer') =
            Extent(Sections[3].first, Sections[3].end, Sections[3].w, Sections[3].x)
      BY DEF ExtentAt
    <3>2. Sections[3].first \in Sections[3].first .. Sections[3].end
      BY <1>7
    <3> QED BY <1>10, <1>16, <2>1, <2>2, <3>1, <3>2 DEF Cursor, Extent
  <2> QED BY <1>11, <2>4, <2>5
<1>17. CASE pc = "data" /\ pc' \in {"framebuffer", "load_cr3"}
  <2>1. Place(pc) = 6 /\ job.virt >= job.end
    BY <1>8, <1>17, Places
  <2>2. job.end = Sections[3].end
    BY <2>1 DEF Cursor, ByPage, ExtentAt, Extent
  <2>3. CASE pc' = "framebuffer"
    <3>1. HasFramebuffer /\ job' = Identity(framebuffer, TRUE, FALSE) /\ Place(pc') = 7
      BY <1>8, <1>9, <1>17, <2>3, Places
    <3>2. job'.virt = framebuffer.first
      BY <1>10, <3>1
    <3>3. Shows
      <4>1. SUFFICES ASSUME NEW v \in VirtualPages
                     PROVE  Sees(7, framebuffer.first, framebuffer, v)
                              = Sees(6, job.virt, framebuffer, v)
        BY <2>1, <3>1, <3>2
      <4>2. v \in Nat /\ job.virt >= Sections[3].end
        BY <2>1, <2>2, VirtualNat
      <4> QED BY <1>2, <4>2, SeesMoves
    <3>4. Cursor'
      <4>1. /\ ExtentAt(7, framebuffer').first = framebuffer.first
            /\ ExtentAt(7, framebuffer').end = framebuffer.end
            /\ ExtentAt(7, framebuffer').w = TRUE /\ ExtentAt(7, framebuffer').x = FALSE
        BY <1>1 DEF ExtentAt, Extent
      <4>2. framebuffer.first \in framebuffer.first .. framebuffer.end /\ HasFramebuffer'
        BY <1>1, <1>7, <3>1 DEF HasFramebuffer
      <4>3. /\ job'.virt = framebuffer.first /\ job'.end = framebuffer.end
            /\ job'.phys = framebuffer.first /\ job'.w = TRUE /\ job'.x = FALSE
        BY <1>10, <3>1
      <4> QED BY <2>3, <3>1, <4>1, <4>2, <4>3 DEF Cursor
    <3> QED BY <1>11, <3>3, <3>4
  <2>4. CASE pc' = "load_cr3"
    <3>1. ~ HasFramebuffer /\ Place(pc') = 8
      BY <1>8, <1>17, <2>4, Places
    <3>2. framebuffer.end <= framebuffer.first
      BY <1>7, <3>1 DEF HasFramebuffer
    <3>3. Shows
      BY <1>2, <1>3, <2>1, <2>2, <3>1, <3>2, SeesMoves, VirtualNat
    <3>4. Cursor'
      BY <2>4, <3>1 DEF Cursor, ByPage
    <3> QED BY <1>11, <3>3, <3>4
  <2> QED BY <1>17, <2>3, <2>4
<1>18. CASE pc = "framebuffer" /\ pc' = "load_cr3"
  <2>1. Place(pc) = 7 /\ job.virt >= job.end /\ Place(pc') = 8
    BY <1>8, <1>18, Places
  <2>2. job.end = framebuffer.end
    BY <2>1 DEF Cursor, ByPage, ExtentAt, Extent
  <2>3. Shows
    BY <1>2, <1>3, <2>1, <2>2, SeesMoves, VirtualNat
  <2>4. Cursor'
    BY <1>18, <2>1 DEF Cursor, ByPage
  <2> QED BY <1>11, <2>3, <2>4
<1> QED BY <1>8, <1>12, <1>13, <1>14, <1>15, <1>16, <1>17, <1>18

\* Accessed bits change no mapping: they are set in entries that lead to tables.
LEMMA AccessedMaps ==
  ASSUME tables \in Tables, NEW r \in AllPages, NEW vs,
         tables' = Accessed(tables, r, vs),
         NEW root, NEW X, NEW lev, Graded(tables, root, X, lev)
  PROVE  /\ \A v \in Nat : MapIn(tables', root, v) = MapIn(tables, root, v)
         /\ \A t \in X, i \in Slots : tables'[t][i].kind = tables[t][i].kind
<1>1. X \subseteq AllPages
  BY DEF Graded
<1>2. /\ \A t \in AllPages : t # r => tables'[t] = tables[t]
      /\ \A t \in AllPages, i \in Slots :
           /\ tables'[t][i].kind = tables[t][i].kind
           /\ tables'[t][i].page = tables[t][i].page
           /\ tables'[t][i].u = tables[t][i].u
      /\ \A i \in Slots : tables[r][i].kind # "table" => tables'[r][i] = tables[r][i]
  BY AccessedFacts
<1>3. PICK tb : tb = tables'
  OBVIOUS
<1>4. Alike(tables, tb, X)
  BY <1>1, <1>2, <1>3 DEF Alike
<1>5. ASSUME NEW v \in Nat
      PROVE  MapIn(tb, root, v) = MapIn(tables, root, v)
  <2>1. /\ StopIn(tables, root, v).table \in X
        /\ StopIn(tables, root, v).index \in Slots
        /\ EntryIn(tables, root, v).kind # "table"
    BY StopGraded
  <2>2. tb[StopIn(tables, root, v).table][StopIn(tables, root, v).index]
          = EntryIn(tables, root, v)
    BY <1>1, <1>2, <1>3, <2>1 DEF EntryIn
  <2> QED BY <1>4, <2>2, MapKept
<1> QED BY <1>1, <1>2, <1>3, <1>5

\* paging_init ends.
LEMMA LoadCr3Sees ==
  ASSUME Inv, Cursor, KernelSees, LoadCr3, UNCHANGED processVars
  PROVE  Cursor' /\ KernelSees'
<1>1. /\ pc = "load_cr3" /\ pc' = "mmio" /\ framebuffer' = framebuffer /\ g_pml4' = g_pml4
      /\ tables' = Accessed(tables, g_pml4, {Sections[1].first})
      /\ job' = JobAt("mmio")
  BY DEF LoadCr3
<1>2. tables \in Tables /\ framebuffer \in Framebuffers /\ job.virt \in Nat
  BY DEF Inv, Types, JobTypes
<1>3. StoreOK /\ g_pml4 \in AllPages
  BY <1>1, BootTree DEF BootPhases
<1>4. PICK N, lev : KernelOnly(N, lev)
  BY <1>1, BootTree DEF BootPhases
<1>5. IsTree(tables, g_pml4, Slots, N, lev) /\ \A t \in N : Block(t, 1) \in held
  BY <1>4 DEF KernelOnly, Blocks
<1>6. Graded(tables, g_pml4, N, lev) /\ g_pml4 \in N
  BY <1>2, <1>3, <1>5, KernelGraded
<1>7. /\ \A v \in Nat : MapIn(tables', g_pml4, v) = MapIn(tables, g_pml4, v)
      /\ \A t \in N, i \in Slots : tables'[t][i].kind = tables[t][i].kind
  BY <1>1, <1>2, <1>3, <1>6, AccessedMaps
<1>8. Place(pc) = 8 /\ Place(pc') = 9
  BY <1>1, Places
<1>9. /\ job'.virt = MmioRange.first /\ job'.phys = MmioRange.first
      /\ job'.end = MmioRange.end /\ job'.w = TRUE /\ job'.x = FALSE
  BY <1>1 DEF JobAt, SectionAt, Identity, Job
<1>10. /\ MmioRange.first \in Nat /\ MmioRange.end \in Nat
       /\ MmioRange.first < MmioRange.end
  BY ExtentFacts
<1>11. Cursor'
  <2>1. /\ ExtentAt(9, framebuffer').first = MmioRange.first
        /\ ExtentAt(9, framebuffer').end = MmioRange.end
        /\ ExtentAt(9, framebuffer').w = TRUE /\ ExtentAt(9, framebuffer').x = FALSE
    BY DEF ExtentAt, Extent
  <2>2. MmioRange.first \in MmioRange.first .. MmioRange.end
    BY <1>10
  <2> QED BY <1>1, <1>8, <1>9, <2>1, <2>2 DEF Cursor
<1>12. ASSUME NEW v \in VirtualPages
       PROVE  Sees(Place(pc'), job'.virt, framebuffer, v)
                = Sees(Place(pc), job.virt, framebuffer, v)
  <2>1. v \in Nat
    BY VirtualNat
  <2>2. Sees(9, MmioRange.first, framebuffer, v) = Sees(8, job.virt, framebuffer, v)
    BY <1>2, <2>1, SeesMoves
  <2> QED BY <1>8, <1>9, <2>2
<1>13. \A i \in Slots : tables'[g_pml4][i].kind # "page"
  BY <1>1, <1>6, <1>7 DEF KernelSees
<1>14. KernelSees'
  BY <1>1, <1>7, <1>12, <1>13, KernelStays, VirtualNat
<1> QED BY <1>11, <1>14

\* The boot ends.
LEMMA BootDoneSees ==
  ASSUME Inv, Cursor, KernelSees, BootDone, UNCHANGED processVars
  PROVE  Cursor' /\ KernelSees'
<1>1. /\ pc = "mmio" /\ pc' = "idle" /\ framebuffer' = framebuffer /\ g_pml4' = g_pml4
      /\ tables' = Accessed(tables, cr3, FramebufferPages \cup MmioPages)
      /\ job' = NoJob /\ job.virt >= job.end
  BY DEF BootDone, JobDone
<1>2. /\ tables \in Tables /\ framebuffer \in Framebuffers /\ job.virt \in Nat
      /\ cr3 = g_pml4
  BY <1>1 DEF Inv, Types, JobTypes, Active
<1>3. StoreOK /\ g_pml4 \in AllPages
  BY <1>1, BootTree DEF BootPhases
<1>4. PICK N, lev : KernelOnly(N, lev)
  BY <1>1, BootTree DEF BootPhases
<1>5. IsTree(tables, g_pml4, Slots, N, lev) /\ \A t \in N : Block(t, 1) \in held
  BY <1>4 DEF KernelOnly, Blocks
<1>6. Graded(tables, g_pml4, N, lev) /\ g_pml4 \in N
  BY <1>2, <1>3, <1>5, KernelGraded
<1>7. /\ \A v \in Nat : MapIn(tables', g_pml4, v) = MapIn(tables, g_pml4, v)
      /\ \A t \in N, i \in Slots : tables'[t][i].kind = tables[t][i].kind
  BY <1>1, <1>2, <1>3, <1>6, AccessedMaps
<1>8. Place(pc) = 9 /\ Place(pc') = 10
  BY <1>1, Places
<1>9. job.virt >= MmioRange.end /\ MmioRange.end \in Nat
  <2>1. job.end = ExtentAt(9, framebuffer).end
    BY <1>8 DEF Cursor, ByPage
  <2>2. ExtentAt(9, framebuffer).end = MmioRange.end
    BY DEF ExtentAt, Extent
  <2> QED BY <1>1, <2>1, <2>2, ExtentFacts
<1>10. Cursor'
  BY <1>1, <1>8 DEF Cursor, ByPage
<1>11. ASSUME NEW v \in VirtualPages
       PROVE  Sees(Place(pc'), job'.virt, framebuffer, v)
                = Sees(Place(pc), job.virt, framebuffer, v)
  <2>1. v \in Nat /\ NoJob.virt \in Nat
    BY VirtualNat DEF NoJob, Job
  <2>2. PICK d \in Nat : d = NoJob.virt
    BY <2>1
  <2>3. Sees(10, d, framebuffer, v) = Sees(9, job.virt, framebuffer, v)
    BY <1>2, <1>9, <2>1, SeesMoves
  <2> QED BY <1>1, <1>8, <2>2, <2>3
<1>12. \A i \in Slots : tables'[g_pml4][i].kind # "page"
  BY <1>1, <1>6, <1>7 DEF KernelSees
<1>13. KernelSees'
  BY <1>1, <1>7, <1>11, <1>12, KernelStays, VirtualNat
<1> QED BY <1>10, <1>13

\* Every step of the boot maps what it should.
LEMMA BootSees ==
  ASSUME Inv, Cursor, KernelSees, Boot, UNCHANGED processVars
  PROVE  Cursor' /\ KernelSees'
<1>1. CASE AllocKernelRoot
  BY <1>1, AllocKernelRootSees
<1>2. CASE \E phase \in {"low", "text", "rodata", "data", "framebuffer", "mmio"} :
             MapTable(phase, "panic") \/ MapPage(phase)
  BY <1>2, MapTableSees, MapPageSees
<1>3. CASE RangeDone
  BY <1>3, RangeDoneSees
<1>4. CASE LargeTable
  BY <1>4, LargeTableSees
<1>5. CASE MapLarge
  BY <1>5, MapLargeSees
<1>6. CASE SplitChunk
  BY <1>6, SplitChunkSees
<1>7. CASE LoadCr3
  BY <1>7, LoadCr3Sees
<1>8. CASE BootDone
  BY <1>8, BootDoneSees
<1> QED BY <1>1, <1>2, <1>3, <1>4, <1>5, <1>6, <1>7, <1>8 DEF Boot, RangeDone

-----------------------------------------------------------------------------
(* The kernel's root after the boot. *)

\* The places of the boot are numbered; all others have one number.
LEMMA LaterPlace ==
  ASSUME NEW ph, ph \notin BootPhases \cup {"panic"}
  PROVE  Place(ph) = 10
BY Places DEF BootPhases

\* At the end all is mapped, wherever the cursor is.
LEMMA SeesEnd ==
  ASSUME NEW c, NEW d, NEW fb, NEW v
  PROVE  Sees(10, c, fb, v) = Sees(10, d, fb, v)
<1>1. Same(10, c, 10, d, fb, v)
  BY DEF Same, Image, Device, LowMemory, Done
<1> QED BY <1>1, SeesSame

\* Once paging_init has its root, the invariant gives such tables.
LEMMA KernelHasTables ==
  ASSUME Inv, pc # "pml4"
  PROVE  \E N, lev, M, mlev :
           KernelHas(N, lev) /\ KernelTree(N, lev) /\ UserTree(M, mlev) /\ Accounts(N, M)
<1>1. StoreOK /\ tables \in Tables
  BY DEF Inv, Memory, Types
<1>2. PICK N, lev, M, mlev : KernelTree(N, lev) /\ UserTree(M, mlev) /\ Accounts(N, M)
  BY DEF Inv, Memory
<1>3. IsTree(tables, g_pml4, Slots, N, lev)
  BY <1>2 DEF KernelTree
<1>4. \A t \in N : Block(t, 1) \in held
  BY <1>2 DEF Accounts, Blocks
<1>5. Graded(tables, g_pml4, N, lev)
  BY <1>1, <1>3, <1>4, KernelGraded
<1>6. KernelHas(N, lev)
  BY <1>1, <1>3, <1>4, <1>5 DEF KernelHas
<1> QED BY <1>2, <1>6

\* While its tables stay, the kernel's root maps what it did.
LEMMA KernelLater ==
  ASSUME KernelSees, Later, Later', UNCHANGED <<g_pml4, framebuffer>>,
         NEW N, NEW lev, KernelHas(N, lev), \A t \in N : tables'[t] = tables[t]
  PROVE  Cursor' /\ KernelSees'
<1>1. Place(pc) = 10 /\ Place(pc') = 10 /\ pc # "pml4" /\ pc # "panic" /\ pc' # "pml4"
      /\ pc' # "framebuffer" /\ pc' # "large"
  BY LaterPlace DEF Later, BootPhases
<1>2. Graded(tables, g_pml4, N, lev) /\ g_pml4 \in N
  BY DEF KernelHas, Graded
<1>3. PICK tb : tb = tables'
  OBVIOUS
<1>4. Alike(tables, tb, N)
  BY <1>3 DEF Alike
<1>5. ASSUME NEW v \in VirtualPages
      PROVE  MapIn(tb, g_pml4, v) = MapIn(tables, g_pml4, v)
  <2>1. v \in Nat
    BY VirtualNat
  <2>2. StopIn(tables, g_pml4, v).table \in N
    BY <1>2, <2>1, StopGraded
  <2>3. tb[StopIn(tables, g_pml4, v).table][StopIn(tables, g_pml4, v).index]
          = EntryIn(tables, g_pml4, v)
    BY <1>3, <2>2 DEF EntryIn
  <2> QED BY <1>2, <1>4, <2>1, <2>3, MapKept
<1>6. \A i \in Slots : tables'[g_pml4][i].kind # "page"
  BY <1>1, <1>2 DEF KernelSees
<1>7. ASSUME NEW v \in VirtualPages
      PROVE  Sees(Place(pc'), job'.virt, framebuffer, v)
               = Sees(Place(pc), job.virt, framebuffer, v)
  BY <1>1, SeesEnd
<1>8. KernelSees'
  BY <1>1, <1>3, <1>5, <1>6, <1>7, KernelStays
<1>9. Cursor'
  BY <1>1 DEF Cursor, ByPage
<1> QED BY <1>8, <1>9

\* A page that is lent is none of its tables.
LEMMA KernelLends ==
  ASSUME NEW N, NEW lev, KernelHas(N, lev), NEW n \in Nat, NEW b \in Candidates(n),
         alloc_pages(n, b)
  PROVE  b.base \notin N
BY TablesApart DEF KernelHas

\* What is freed is none of its tables.
LEMMA KernelFrees ==
  ASSUME Inv, NEW N, NEW lev, KernelHas(N, lev),
         NEW b, b \notin Blocks(N), free_pages(b)
  PROVE  \A t \in N : tables'[t] = tables[t]
<1>1. CASE b \in held
  <2>1. \A p \in AllPages : p \notin RunPages(b) => tables'[p] = tables[p]
    BY <1>1, FreeFacts DEF Inv, Types, KernelHas
  <2>2. N \subseteq AllPages /\ \A t \in N : b # Block(t, 1) => t \notin RunPages(b)
    BY <1>1, TablesApart DEF KernelHas
  <2> QED BY <2>1, <2>2 DEF Blocks
<1>2. CASE b \notin held
  BY <1>2 DEF free_pages
<1> QED BY <1>1, <1>2

\* Nothing that ends a process changes the kernel's tables.
LEMMA WayOutSees ==
  ASSUME Inv, KernelSees, PrepareFails \/ Release
  PROVE  Cursor' /\ KernelSees'
<1>1. /\ Later /\ Later' /\ UNCHANGED <<g_pml4, framebuffer>>
  BY DEF PrepareFails, Release, FreeField, BeginDestroy, Destroy, DestroyTable, FreeRoot,
         Later, BootPhases
<1>2. PICK N, lev, M, mlev :
        KernelHas(N, lev) /\ KernelTree(N, lev) /\ UserTree(M, mlev) /\ Accounts(N, M)
  BY <1>1, KernelHasTables DEF Later, BootPhases
<1>3. /\ Fields \cap Blocks(N \cup M) = {} /\ N \cap M = {}
  BY <1>2 DEF Accounts
<1>4. CASE FreesField
  <2>1. PICK field \in FieldNames :
          IF process[field] # NULL THEN free_pages(process[field])
          ELSE UNCHANGED <<storeVars, tables>>
    BY <1>4 DEF FreesField, FreeField, FieldNames
  <2>2. CASE process[field] # NULL
    <3>1. process[field] \in Fields
      BY <2>2, FieldNamed
    <3>2. process[field] \notin Blocks(N)
      BY <1>3, <3>1 DEF Blocks
    <3> QED BY <1>1, <1>2, <2>1, <2>2, <3>2, KernelFrees, KernelLater
  <2>3. CASE process[field] = NULL
    BY <1>1, <1>2, <2>1, <2>3, KernelLater
  <2> QED BY <2>2, <2>3
<1>5. CASE \/ BeginDestroy("fail_root", "fail_tables", "release_image")
           \/ BeginDestroy("release_root", "release_tables", "idle")
  <2>1. tables' = tables
    BY <1>5 DEF BeginDestroy
  <2> QED BY <1>1, <1>2, <2>1, KernelLater
<1>6. ASSUME NEW t, t \in M, free_pages(Block(t, 1)) PROVE Cursor' /\ KernelSees'
  <2>1. Block(t, 1) \notin Blocks(N)
    BY <1>3, <1>6 DEF Blocks, Block
  <2> QED BY <1>1, <1>2, <1>6, <2>1, KernelFrees, KernelLater
<1>7. Destroying /\ Root # 0 => DoomedTree(M)
  BY <1>2 DEF UserTree
<1>8. CASE Destroy("fail_tables") \/ Destroy("release_tables")
  <2>1. Destroying /\ Root # 0
    <3>1. pc \in {"fail_tables", "release_tables"}
      BY <1>8 DEF Destroy
    <3> QED BY <3>1 DEF Destroying, Inv, Control
  <2>2. PICK path \in doomed : free_pages(Block(TableAt(Root, path), 1))
    BY <1>8 DEF Destroy, DestroyTable, Root
  <2>3. TableAt(Root, path) \in M
    BY <1>7, <2>1 DEF DoomedTree
  <2> QED BY <1>6, <2>2, <2>3
<1>9. CASE FreeRoot("fail_tables", "release_image") \/ FreeRoot("release_tables", "idle")
  <2>1. Destroying /\ Root # 0
    <3>1. pc \in {"fail_tables", "release_tables"}
      BY <1>9 DEF FreeRoot
    <3> QED BY <3>1 DEF Destroying, Inv, Control
  <2>2. free_pages(Block(Root, 1))
    BY <1>9 DEF FreeRoot, Root
  <2>3. Root \in M
    BY <1>7, <2>1 DEF DoomedTree
  <2> QED BY <1>6, <2>2, <2>3
<1> QED BY <1>4, <1>5, <1>8, <1>9 DEF PrepareFails, Release, FreesField

\* The kernel's root is active again.
LEMMA ReturnSees ==
  ASSUME Inv, KernelSees, Return
  PROVE  Cursor' /\ KernelSees'
<1>1. /\ Later /\ Later' /\ UNCHANGED <<g_pml4, framebuffer>>
      /\ pc = "returned"
      /\ tables' = Accessed(tables, saved_root, {Sections[1].first} \cup FramebufferPages)
  BY DEF Return, Later, BootPhases
<1>2. PICK N, lev : KernelHas(N, lev)
  BY <1>1, KernelHasTables DEF Later, BootPhases
<1>3. tables \in Tables /\ saved_root = g_pml4 /\ g_pml4 \in N /\ N \subseteq AllPages
      /\ Graded(tables, g_pml4, N, lev)
  BY <1>1, <1>2 DEF Inv, Types, Active, InSpace, KernelHas, Graded
<1>4. /\ \A v \in Nat : MapIn(tables', g_pml4, v) = MapIn(tables, g_pml4, v)
      /\ \A t \in N, i \in Slots : tables'[t][i].kind = tables[t][i].kind
  BY <1>1, <1>3, AccessedMaps
<1>5. Place(pc) = 10 /\ Place(pc') = 10 /\ pc # "pml4" /\ pc # "panic" /\ pc' # "pml4"
      /\ pc' # "framebuffer" /\ pc' # "large"
  BY <1>1, LaterPlace DEF Later, BootPhases
<1>6. \A i \in Slots : tables'[g_pml4][i].kind # "page"
  BY <1>3, <1>4, <1>5 DEF KernelSees
<1>7. ASSUME NEW v \in VirtualPages
      PROVE  Sees(Place(pc'), job'.virt, framebuffer, v)
               = Sees(Place(pc), job.virt, framebuffer, v)
  BY <1>5, SeesEnd
<1>8. KernelSees'
  BY <1>1, <1>4, <1>5, <1>6, <1>7, KernelStays, VirtualNat
<1>9. Cursor'
  BY <1>5 DEF Cursor, ByPage
<1> QED BY <1>8, <1>9

-----------------------------------------------------------------------------
(* What the program's root maps. *)

\* The pages of the stack, and of an image below it, are pages of a root.
LEMMA WindowFacts ==
  /\ PageOf(StackBase) \in Nat /\ StackPages \in Nat
  /\ PageAfter(ImageLimit) <= PageOf(StackBase)
  /\ \A v \in Nat : v < PageOf(StackBase) + StackPages => v \in VirtualPages
<1> DEFINE n4 == TableEntries * TableEntries * TableEntries * TableEntries
           q == PageOf(StackBase)
<1>1. /\ PageSize \in Nat \ {0} /\ StackPages \in Nat /\ StackBase \in Nat
      /\ StackBase % PageSize = 0 /\ ImageLimit \in Nat
  BY LayoutAssumption DEF ImageLimit
<1>2. StackBase + StackPages * PageSize <= n4 * PageSize
  BY WindowAssumption DEF StackSize
<1>3. VirtualPages = 0 .. (n4 - 1) /\ n4 \in Nat
  BY ExtentFacts, Products DEF VirtualPages
<1>4. q \in Nat /\ q * PageSize \in Nat /\ StackBase = q * PageSize
  <2>1. /\ StackBase \div PageSize \in Nat
        /\ StackBase = (StackBase \div PageSize) * PageSize + (StackBase % PageSize)
    BY <1>1, DivMod
  <2>2. (StackBase \div PageSize) * PageSize \in Nat
    BY <1>1, <2>1, Products
  <2> QED BY <1>1, <2>1, <2>2 DEF PageOf
<1> HIDE DEF n4, q
<1>5. q + StackPages <= n4
  <2> DEFINE e == q + StackPages
  <2>1. e * PageSize = q * PageSize + StackPages * PageSize
    BY <1>1, <1>4
  <2>2. e * PageSize <= n4 * PageSize /\ e \in Nat
    BY <1>1, <1>2, <1>4, <2>1
  <2> HIDE DEF e
  <2> SUFFICES ASSUME n4 < e PROVE FALSE
    BY <1>3, <2>2 DEF e
  <2>3. (n4 + 1) * PageSize <= e * PageSize /\ (n4 + 1) * PageSize = n4 * PageSize + PageSize
        /\ n4 * PageSize \in Nat /\ e * PageSize \in Nat
    BY <1>1, <1>3, <2>2, Products
  <2> QED BY <1>1, <2>2, <2>3
<1>6. PageAfter(ImageLimit) <= q
  <2>1. StackBase - PageSize = ImageLimit
    BY DEF ImageLimit
  <2>2. ImageLimit + PageSize - 1 < q * PageSize /\ ImageLimit + PageSize - 1 \in Nat
    BY <1>1, <1>4, <2>1
  <2>3. PageOf(ImageLimit + PageSize - 1) < q
    BY <1>4, <2>2, PageArithmetic
  <2>4. PageAfter(ImageLimit) = PageOf(ImageLimit + PageSize - 1)
    BY DEF PageAfter, PageOf
  <2>5. PageAfter(ImageLimit) \in Nat
    BY <1>1, PageArithmetic
  <2> QED BY <1>4, <2>3, <2>4, <2>5
<1>7. \A v \in Nat : v < q + StackPages => v \in VirtualPages
  BY <1>1, <1>3, <1>4, <1>5
<1> QED BY <1>1, <1>4, <1>6, <1>7 DEF q

\* The numbers of the parts.
LEMMA Parts ==
  /\ Part("image_backing") = 0 /\ Part("stack_backing") = 0 /\ Part("map_image") = 0
  /\ Part("mapping_image") = 1 /\ Part("mapping_stack") = 2
  /\ \A ph \in {"stage", "copy", "start", "user", "read_line", "returned"} : Part(ph) = 3
BY DEF Part

\* The layout is made of numbers.
LEMMA LayoutTyped ==
  ASSUME Inv
  PROVE  /\ Layout.first \in Nat /\ Layout.pages \in Nat
         /\ Layout.image \in Nat /\ Layout.stack \in Nat
         /\ ImagePages = Layout.first .. (Layout.first + Layout.pages - 1)
         /\ Layout.first = PageOf(process.image_base) /\ Layout.pages = process.image_pages
         /\ Layout.image = process.image_backing.base
         /\ Layout.stack = process.stack_backing.base
<1>1. process \in ProcessTypes
  BY DEF Inv, Types
<1>2. /\ process.image_base \in Nat /\ process.image_pages \in Nat
      /\ process.image_backing.base \in Nat /\ process.stack_backing.base \in Nat
  BY <1>1 DEF ProcessTypes, Run0
<1> QED BY <1>2, PageArithmetic DEF Layout, ImagePages

\* What is mapped from one part to the next is the same.
LEMMA UserMoves ==
  ASSUME NEW q, NEW c \in Nat, NEW fb, NEW v \in Nat, q.first \in Nat, q.pages \in Nat
  PROVE  /\ UserSees(0, c, q, fb, v) = Sees(10, 0, fb, v)
         /\ UserSees(1, q.first, q, fb, v) = UserSees(0, c, q, fb, v)
         /\ c >= q.first + q.pages =>
              UserSees(2, PageOf(StackBase), q, fb, v) = UserSees(1, c, q, fb, v)
<1>1. PageOf(StackBase) \in Nat /\ StackPages \in Nat
  BY WindowFacts
<1>2. ~ OfImage(0, c, q, v) /\ ~ OfStack(0, c, v)
  BY DEF OfImage, OfStack
<1>3. ~ OfImage(1, q.first, q, v) /\ ~ OfStack(1, q.first, v)
  BY DEF OfImage, OfStack
<1>4. c >= q.first + q.pages =>
        /\ OfImage(2, PageOf(StackBase), q, v) <=> OfImage(1, c, q, v)
        /\ ~ OfStack(2, PageOf(StackBase), v) /\ ~ OfStack(1, c, v)
  BY <1>1 DEF OfImage, OfStack
<1> QED BY <1>2, <1>3, <1>4 DEF UserSees

\* At the end all is mapped, wherever the cursor is.
LEMMA UserEnds ==
  ASSUME NEW q, NEW c \in Nat, NEW d \in Nat, NEW fb, NEW v \in Nat,
         q.first \in Nat, q.pages \in Nat, q.first + q.pages <= PageOf(StackBase)
  PROVE  /\ c >= PageOf(StackBase) + StackPages =>
              UserSees(3, d, q, fb, v) = UserSees(2, c, q, fb, v)
         /\ UserSees(3, d, q, fb, v) = UserSees(3, c, q, fb, v)
<1>1. PageOf(StackBase) \in Nat /\ StackPages \in Nat
  BY WindowFacts
<1>2. c >= PageOf(StackBase) + StackPages =>
        /\ OfImage(3, d, q, v) <=> OfImage(2, c, q, v)
        /\ OfStack(3, d, v) <=> OfStack(2, c, v)
  BY <1>1 DEF OfImage, OfStack
<1>3. /\ OfImage(3, d, q, v) <=> OfImage(3, c, q, v)
      /\ OfStack(3, d, v) <=> OfStack(3, c, v)
  BY DEF OfImage, OfStack
<1> QED BY <1>2, <1>3 DEF UserSees

\* A page more is mapped.
LEMMA UserNext ==
  ASSUME NEW q, NEW c \in Nat, NEW fb, NEW v \in Nat, q.first \in Nat, q.pages \in Nat,
         q.first + q.pages <= PageOf(StackBase)
  PROVE  /\ c \in q.first .. (q.first + q.pages - 1) =>
              UserSees(1, c + 1, q, fb, v) =
                IF v = c THEN ImageEntry(q, v)
                ELSE UserSees(1, c, q, fb, v)
         /\ c \in PageOf(StackBase) .. (PageOf(StackBase) + StackPages - 1) =>
              UserSees(2, c + 1, q, fb, v) =
                IF v = c THEN StackEntry(q, v)
                ELSE UserSees(2, c, q, fb, v)
<1>1. PageOf(StackBase) \in Nat /\ StackPages \in Nat
  BY WindowFacts
<1>2. ASSUME c \in q.first .. (q.first + q.pages - 1)
      PROVE  /\ v = c => OfImage(1, c + 1, q, v)
             /\ v # c => (OfImage(1, c + 1, q, v) <=> OfImage(1, c, q, v))
             /\ ~ OfStack(1, c + 1, v) /\ ~ OfStack(1, c, v)
  BY <1>1, <1>2 DEF OfImage, OfStack
<1>3. ASSUME c \in PageOf(StackBase) .. (PageOf(StackBase) + StackPages - 1)
      PROVE  /\ OfImage(2, c + 1, q, v) <=> OfImage(2, c, q, v)
             /\ v = c => OfStack(2, c + 1, v) /\ ~ OfImage(2, c + 1, q, v)
             /\ v # c => (OfStack(2, c + 1, v) <=> OfStack(2, c, v))
  BY <1>1, <1>3 DEF OfImage, OfStack
<1> QED BY <1>2, <1>3 DEF UserSees

\* The walks from the program's root meet its own tables and the kernel's.
LEMMA SpaceGraded ==
  ASSUME NEW N, NEW lev, NEW M, NEW mlev, Space(N, lev, M, mlev)
  PROVE  /\ \E l2 : /\ Graded(tables, Root, N \cup M, l2)
                    /\ Extends(l2, mlev, M)
         /\ Grafted(tables, Root, OwnSlots(Root), M, mlev, N)
         /\ KernelHas(N, lev)
<1>1. /\ StoreOK /\ tables \in Tables
      /\ IsTree(tables, g_pml4, Slots, N, lev)
      /\ IsTree(tables, Root, OwnSlots(Root), M, mlev)
      /\ N \subseteq AllPages /\ M \subseteq AllPages /\ N \cap M = {}
      /\ g_pml4 \in N /\ Root \in M /\ RootShared
      /\ \A t \in N \cup M : Block(t, 1) \in held
  BY DEF Space
<1>2. KernelHas(N, lev)
  BY <1>1, KernelGraded DEF KernelHas
<1>3. Graded(tables, g_pml4, N, lev)
  BY <1>2 DEF KernelHas
<1> DEFINE W == OwnSlots(Root)
           l2 == [t \in N \cup M |-> IF t \in M THEN mlev[t] ELSE lev[t]]
<1>4. \A i \in Slots \ W : tables[Root][i].kind = "table" =>
        tables[Root][i].page \in N /\ lev[tables[Root][i].page] = 3
  <2>1. SUFFICES ASSUME NEW i \in Slots, i \notin W, tables[Root][i].kind = "table"
                 PROVE  tables[Root][i].page \in N /\ lev[tables[Root][i].page] = 3
    OBVIOUS
  <2>2. tables[Root][i] = tables[g_pml4][i]
    BY <2>1 DEF OwnSlots
  <2> QED BY <1>3, <2>1, <2>2 DEF Graded
<1>5. \A t \in N, i \in Slots : tables[t][i].kind = "table" =>
        /\ lev[t] > 1 /\ tables[t][i].page \in N /\ lev[tables[t][i].page] = lev[t] - 1
  BY <1>3 DEF Graded
<1>6. /\ mlev \in [M -> 1 .. 4] /\ mlev[Root] = 4
      /\ \A t \in M, i \in Slots : Edge(tables, Root, W, t, i) =>
           mlev[t] > 1 /\ tables[t][i].page \in M /\ mlev[tables[t][i].page] = mlev[t] - 1
  BY <1>1 DEF IsTree
<1> HIDE DEF W
<1>7. lev \in [N -> 1 .. 4]
  BY <1>3 DEF Graded
<1>8. /\ l2 \in [N \cup M -> 1 .. 4]
      /\ \A t \in M : l2[t] = mlev[t]
      /\ \A t \in N : l2[t] = lev[t]
  BY <1>1, <1>6, <1>7
<1> HIDE DEF l2
<1>9. \A t \in N \cup M, i \in Slots : tables[t][i].kind = "table" =>
        l2[t] > 1 /\ tables[t][i].page \in N \cup M /\ l2[tables[t][i].page] = l2[t] - 1
  <2>1. SUFFICES ASSUME NEW t \in N \cup M, NEW i \in Slots, tables[t][i].kind = "table"
                 PROVE  l2[t] > 1 /\ tables[t][i].page \in N \cup M
                        /\ l2[tables[t][i].page] = l2[t] - 1
    OBVIOUS
  <2>2. CASE t \in N
    BY <1>5, <1>8, <2>1, <2>2
  <2>3. CASE t \in M /\ (t = Root => i \in W)
    <3>1. Edge(tables, Root, W, t, i)
      BY <2>1, <2>3 DEF Edge
    <3> QED BY <1>6, <1>8, <2>3, <3>1
  <2>4. CASE t = Root /\ i \notin W
    <3>1. tables[t][i].page \in N /\ lev[tables[t][i].page] = 3
      BY <1>4, <2>1, <2>4
    <3>2. l2[t] = 4 /\ l2[tables[t][i].page] = 3
      BY <1>1, <1>6, <1>8, <2>4, <3>1
    <3> QED BY <3>1, <3>2
  <2> QED BY <2>2, <2>3, <2>4
<1>10. l2[Root] = 4
  BY <1>1, <1>6, <1>8
<1>11. Graded(tables, Root, N \cup M, l2)
  BY <1>1, <1>8, <1>9, <1>10 DEF Graded
<1>12. Grafted(tables, Root, W, M, mlev, N)
  BY <1>1, <1>4, <1>5 DEF Grafted, W
<1>13. Extends(l2, mlev, M)
  BY <1>8 DEF Extends
<1> QED BY <1>2, <1>11, <1>12, <1>13 DEF W

\* A copy of a root maps what the root does.
LEMMA CopyMaps ==
  ASSUME NEW tab, NEW tb, NEW root, NEW N, NEW lev, Graded(tab, root, N, lev),
         \A t \in N : tb[t] = tab[t], NEW b, tb[b] = tab[root], NEW v \in Nat
  PROVE  MapIn(tb, b, v) = MapIn(tab, root, v)
<1>1. root \in N
  BY DEF Graded
<1>2. Alike(tab, tb, N)
  BY DEF Alike
<1>3. /\ Has(tab, root, v, 4) =>
           T3(tab, root, v) \in N
      /\ Has(tab, root, v, 4) /\ Has(tab, T3(tab, root, v), v, 3) =>
           T2(tab, root, v) \in N
      /\ Has(tab, root, v, 4) /\ Has(tab, T3(tab, root, v), v, 3)
           /\ Has(tab, T2(tab, root, v), v, 2) => T1(tab, root, v) \in N
  BY WayGraded
<1>4. Has(tb, b, v, 4) <=> Has(tab, root, v, 4)
  BY DEF Has
<1>5. T3(tb, b, v) = T3(tab, root, v)
  BY DEF T3, Down
<1> DEFINE t3 == T3(tab, root, v)
           t2 == T2(tab, root, v)
           t1 == T1(tab, root, v)
<1>6. Has(tab, root, v, 4) =>
        /\ Has(tb, t3, v, 3) <=> Has(tab, t3, v, 3)
        /\ T2(tb, b, v) = t2
        /\ tb[t3] = tab[t3]
  BY <1>3, <1>5 DEF Has, T2, Down
<1>7. Has(tab, root, v, 4) /\ Has(tab, t3, v, 3) =>
        /\ Has(tb, t2, v, 2) <=> Has(tab, t2, v, 2)
        /\ T1(tb, b, v) = t1
        /\ tb[t2] = tab[t2]
  BY <1>3, <1>6 DEF Has, T1, Down
<1>8. Has(tab, root, v, 4) /\ Has(tab, t3, v, 3) /\ Has(tab, t2, v, 2) => tb[t1] = tab[t1]
  BY <1>3
<1>9. CASE ~ Has(tab, root, v, 4)
  <2>1. /\ StopIn(tab, root, v) = [table |-> root, index |-> IndexAt(v, 4), level |-> 4]
        /\ StopIn(tb, b, v) = [table |-> b, index |-> IndexAt(v, 4), level |-> 4]
    BY <1>4, <1>9 DEF StopIn
  <2>2. EntryIn(tb, b, v) = EntryIn(tab, root, v)
    BY <2>1 DEF EntryIn
  <2>3. PathIn(tb, b, v) /\ PathIn(tab, root, v)
    BY <2>1 DEF PathIn
  <2>4. EntryIn(tab, root, v) \in Entry
    BY StopGraded
  <2> QED BY <2>1, <2>2, <2>3, <2>4, FinalSame DEF MapIn
<1>10. CASE Has(tab, root, v, 4) /\ ~ Has(tab, t3, v, 3)
  <2>1. /\ StopIn(tab, root, v) = [table |-> t3, index |-> IndexAt(v, 3), level |-> 3]
        /\ StopIn(tb, b, v) = [table |-> t3, index |-> IndexAt(v, 3), level |-> 3]
    BY <1>4, <1>5, <1>6, <1>10 DEF StopIn
  <2>2. EntryIn(tb, b, v) = EntryIn(tab, root, v)
    BY <1>6, <1>10, <2>1 DEF EntryIn
  <2>3. PathIn(tb, b, v) <=> PathIn(tab, root, v)
    BY <2>1 DEF PathIn
  <2>4. EntryIn(tab, root, v) \in Entry
    BY StopGraded
  <2> QED BY <2>1, <2>2, <2>3, <2>4, FinalSame DEF MapIn
<1>11. CASE Has(tab, root, v, 4) /\ Has(tab, t3, v, 3) /\ ~ Has(tab, t2, v, 2)
  <2>1. /\ StopIn(tab, root, v) = [table |-> t2, index |-> IndexAt(v, 2), level |-> 2]
        /\ StopIn(tb, b, v) = [table |-> t2, index |-> IndexAt(v, 2), level |-> 2]
    BY <1>4, <1>5, <1>6, <1>7, <1>11 DEF StopIn
  <2>2. EntryIn(tb, b, v) = EntryIn(tab, root, v)
    BY <1>7, <1>11, <2>1 DEF EntryIn
  <2>3. PathIn(tb, b, v) <=> PathIn(tab, root, v)
    BY <1>5, <1>6, <1>11, <2>1 DEF PathIn
  <2>4. EntryIn(tab, root, v) \in Entry
    BY StopGraded
  <2> QED BY <2>1, <2>2, <2>3, <2>4, FinalSame DEF MapIn
<1>12. CASE Has(tab, root, v, 4) /\ Has(tab, t3, v, 3) /\ Has(tab, t2, v, 2)
  <2>1. /\ StopIn(tab, root, v) = [table |-> t1, index |-> IndexAt(v, 1), level |-> 1]
        /\ StopIn(tb, b, v) = [table |-> t1, index |-> IndexAt(v, 1), level |-> 1]
    BY <1>4, <1>5, <1>6, <1>7, <1>12 DEF StopIn
  <2>2. EntryIn(tb, b, v) = EntryIn(tab, root, v)
    BY <1>8, <1>12, <2>1 DEF EntryIn
  <2>3. PathIn(tb, b, v) <=> PathIn(tab, root, v)
    BY <1>5, <1>6, <1>7, <1>12, <2>1 DEF PathIn
  <2>4. EntryIn(tab, root, v) \in Entry
    BY StopGraded
  <2> QED BY <2>1, <2>2, <2>3, <2>4, FinalSame DEF MapIn
<1> QED BY <1>9, <1>10, <1>11, <1>12

-----------------------------------------------------------------------------
(* The steps that leave the tables alone. *)

\* The program's root maps what it did, and that is what it should.
LEMMA UserStays ==
  ASSUME UserShown, pc \in Shown, UNCHANGED framebuffer, Root' = Root,
         \A v \in VirtualPages : MapIn(tables', Root, v) = MapIn(tables, Root, v),
         \A v \in VirtualPages :
           UserSees(Part(pc'), job'.virt, Layout', framebuffer, v)
             = UserSees(Part(pc), job.virt, Layout, framebuffer, v)
  PROVE  UserShown'
<1>1. PICK tb, r, f, n, c, q : tb = tables' /\ r = Root' /\ f = framebuffer' /\ n = Part(pc)'
                               /\ c = job'.virt /\ q = Layout'
  OBVIOUS
<1>2. \A v \in VirtualPages : MapIn(tb, r, v) = UserSees(n, c, q, f, v)
  BY <1>1 DEF UserShown
<1> QED BY <1>1, <1>2 DEF UserShown

\* Without an address space there is nothing to show.
LEMMA NoSpaceSees ==
  ASSUME pc' \notin Shown
  PROVE  UserCursor' /\ UserShown'
BY DEF UserCursor, UserShown, Shown, Placed, InSpace

\* Where there is an address space the boot is over.
LEMMA ShownLater ==
  ASSUME NEW ph \in Shown
  PROVE  ph \notin BootPhases \cup {"panic"} /\ ph # "fault"
BY DEF Shown, Placed, InSpace, BootPhases

\* A step that changes no table.
LEMMA QuietView ==
  ASSUME Inv, View, pc \in Shown, pc' \in Shown, UNCHANGED <<tables, g_pml4, framebuffer>>,
         Root' = Root, UserCursor',
         \A v \in VirtualPages :
           UserSees(Part(pc'), job'.virt, Layout', framebuffer, v)
             = UserSees(Part(pc), job.virt, Layout, framebuffer, v)
  PROVE  View'
<1>1. Later /\ Later' /\ pc' # "fault" /\ pc # "pml4"
  BY ShownLater DEF Later, BootPhases
<1>2. PICK N, lev : KernelHas(N, lev)
  BY <1>1, KernelHasTables
<1>3. Cursor' /\ KernelSees'
  BY <1>1, <1>2, KernelLater DEF View
<1>4. UserShown'
  BY UserStays DEF View
<1> QED BY <1>1, <1>3, <1>4 DEF View

\* The loader before there is an address space, and the shell.
LEMMA OutsideSees ==
  ASSUME Inv, View, RunForeground \/ AllocFileBuffer \/ LoadFails \/ LoadFile
  PROVE  View'
<1>1. /\ pc \in {"idle", "file_buffer", "load"}
      /\ pc' \in {"idle", "file_buffer", "load", "release_image", "create_root"}
      /\ UNCHANGED <<tables, g_pml4, framebuffer>>
  BY DEF RunForeground, AllocFileBuffer, AllocFor, LoadFails, LoadFile, pagingVars
<1>2. Later /\ Later' /\ pc' # "fault" /\ pc # "pml4" /\ pc' \notin Shown
  BY <1>1 DEF Later, BootPhases, Shown, Placed, InSpace
<1>3. PICK N, lev : KernelHas(N, lev)
  BY <1>2, KernelHasTables
<1>4. Cursor' /\ KernelSees'
  BY <1>1, <1>2, <1>3, KernelLater DEF View
<1> QED BY <1>2, <1>4, NoSpaceSees DEF View

\* An allocation or a mapping of the loader fails.
LEMMA FailsSees ==
  ASSUME Inv, View, pc \in Shown \/ pc = "create_root", pc' \in {"fail_stack", "release_image"},
         UNCHANGED <<tables, g_pml4, framebuffer>>
  PROVE  View'
<1>1. Later /\ Later' /\ pc' # "fault" /\ pc # "pml4" /\ pc' \notin Shown
  BY ShownLater DEF Later, BootPhases, Shown, Placed, InSpace
<1>2. PICK N, lev : KernelHas(N, lev)
  BY <1>1, KernelHasTables
<1>3. Cursor' /\ KernelSees'
  BY <1>1, <1>2, KernelLater DEF View
<1> QED BY <1>1, <1>3, NoSpaceSees DEF View

\* The memory for the image and for the stack.
LEMMA BackingSees ==
  ASSUME Inv, View, AllocImage \/ AllocStack
  PROVE  View'
<1>1. /\ pc \in {"image_backing", "stack_backing"}
      /\ pc' \in {"stack_backing", "map_image", "fail_stack"}
      /\ UNCHANGED <<tables, g_pml4, framebuffer, job>>
  BY DEF AllocImage, AllocStack, AllocFor
<1>2. CASE pc' = "fail_stack"
  BY <1>1, <1>2, FailsSees DEF Shown, Placed
<1>3. CASE pc' # "fail_stack"
  <2>1. PICK b : \/ process' = [process EXCEPT !.image_backing = b]
                 \/ process' = [process EXCEPT !.stack_backing = b]
    <3>1. CASE AllocImage
      <4>1. \E b \in Candidates(process.image_pages) :
              process' = [process EXCEPT !.image_backing = b]
        BY <1>3, <3>1 DEF AllocImage, AllocFor
      <4> QED BY <4>1
    <3>2. CASE AllocStack
      <4>1. \E b \in Candidates(StackPages) :
              process' = [process EXCEPT !.stack_backing = b]
        BY <1>3, <3>2 DEF AllocStack, AllocFor
      <4> QED BY <4>1
    <3> QED BY <3>1, <3>2
  <2>2. /\ Root' = Root /\ process'.image_base = process.image_base
        /\ process'.image_pages = process.image_pages
    <3>1. process \in ProcessTypes
      BY DEF Inv, Types
    <3> QED BY <2>1, <3>1 DEF Root, ProcessTypes
  <2>3. Layout'.first = Layout.first /\ Layout'.pages = Layout.pages
    BY <2>2 DEF Layout
  <2>4. pc \in Shown /\ pc' \in Shown /\ Part(pc) = 0 /\ Part(pc') = 0
    BY <1>1, <1>3, Parts DEF Shown, Placed
  <2>5. UserCursor'
    BY <1>1, <1>3, <2>3, <2>4 DEF View, UserCursor
  <2>6. ASSUME NEW v \in VirtualPages
        PROVE  UserSees(Part(pc'), job'.virt, Layout', framebuffer, v)
                 = UserSees(Part(pc), job.virt, Layout, framebuffer, v)
    <3>1. v \in Nat /\ job.virt \in Nat
      BY VirtualNat DEF Inv, Types, JobTypes
    <3>2. \A r : UserSees(0, job.virt, r, framebuffer, v) = Sees(10, 0, framebuffer, v)
      BY <3>1 DEF UserSees, OfImage, OfStack
    <3> QED BY <1>1, <2>4, <3>2
  <2> QED BY <1>1, <2>2, <2>4, <2>5, <2>6, QuietView
<1> QED BY <1>2, <1>3

\* The calls of paging_map_user_range begin and end.
LEMMA JobsSee ==
  ASSUME Inv, View, BeginMapImage \/ ImageMapped \/ StackMapped
  PROVE  View'
<1>1. /\ UNCHANGED <<tables, g_pml4, framebuffer, process>>
      /\ \/ /\ pc = "map_image" /\ pc' = "mapping_image"
            /\ job' = UserJob(PageOf(process.image_base), process.image_pages,
                              process.image_backing, TRUE)
         \/ /\ pc = "mapping_image" /\ pc' = "mapping_stack" /\ job.virt >= job.end
            /\ job' = UserJob(PageOf(StackBase), StackPages, process.stack_backing, FALSE)
         \/ /\ pc = "mapping_stack" /\ pc' = "stage" /\ job.virt >= job.end
            /\ job' = NoJob
  BY DEF BeginMapImage, ImageMapped, StackMapped, JobDone, processVars
<1>2. Root' = Root /\ Layout' = Layout
  BY <1>1 DEF Root, Layout
<1>3. pc \in Shown /\ pc' \in Shown
  BY <1>1 DEF Shown, Placed
<1>4. /\ Layout.first \in Nat /\ Layout.pages \in Nat
      /\ Layout.image \in Nat /\ Layout.stack \in Nat
      /\ Layout.first = PageOf(process.image_base) /\ Layout.pages = process.image_pages
      /\ Layout.image = process.image_backing.base
      /\ Layout.stack = process.stack_backing.base
  BY LayoutTyped
<1>5. /\ PageOf(StackBase) \in Nat /\ StackPages \in Nat /\ job.virt \in Nat
      /\ Layout.first + Layout.pages <= PageOf(StackBase)
  BY <1>3, WindowFacts DEF Inv, Types, JobTypes, View, UserCursor
<1>6. PICK q : q = Layout
  OBVIOUS
<1>7. CASE pc = "map_image" /\ pc' = "mapping_image"
  <2>1. /\ job'.virt = Layout.first /\ job'.phys = Layout.image /\ job'.w = TRUE
        /\ job'.x = TRUE
    BY <1>1, <1>4, <1>7 DEF UserJob, Job
  <2>2. Part(pc) = 0 /\ Part(pc') = 1
    BY <1>7, Parts
  <2>3. Layout.first \in Layout.first .. (Layout.first + Layout.pages)
        /\ Layout.image = Layout.image + (Layout.first - Layout.first)
    BY <1>4
  <2>4. UserCursor'
    BY <1>2, <1>5, <1>7, <2>1, <2>3 DEF UserCursor
  <2>5. ASSUME NEW v \in VirtualPages
        PROVE  UserSees(1, q.first, q, framebuffer, v)
                 = UserSees(0, job.virt, q, framebuffer, v)
    <3>1. v \in Nat
      BY VirtualNat
    <3> QED BY <1>4, <1>5, <1>6, <3>1, UserMoves
  <2> QED BY <1>1, <1>2, <1>3, <1>6, <2>1, <2>2, <2>4, <2>5, QuietView
<1>8. CASE pc = "mapping_image" /\ pc' = "mapping_stack"
  <2>1. /\ job'.virt = PageOf(StackBase) /\ job'.phys = Layout.stack /\ job'.w = TRUE
        /\ job'.x = FALSE
    BY <1>1, <1>4, <1>8 DEF UserJob, Job
  <2>2. Part(pc) = 1 /\ Part(pc') = 2
    BY <1>8, Parts
  <2>3. job.virt >= Layout.first + Layout.pages
    <3>1. job.end = PageOf(process.image_base) + process.image_pages
      BY <1>8 DEF Inv, UserJobs
    <3> QED BY <1>1, <1>4, <1>8, <3>1
  <2>4. PageOf(StackBase) \in PageOf(StackBase) .. (PageOf(StackBase) + StackPages)
        /\ Layout.stack = Layout.stack + (PageOf(StackBase) - PageOf(StackBase))
    BY <1>4, <1>5
  <2>5. UserCursor'
    BY <1>2, <1>5, <1>8, <2>1, <2>4 DEF UserCursor
  <2>6. ASSUME NEW v \in VirtualPages
        PROVE  UserSees(2, PageOf(StackBase), q, framebuffer, v)
                 = UserSees(1, job.virt, q, framebuffer, v)
    <3>1. v \in Nat
      BY VirtualNat
    <3>2. q.first \in Nat /\ q.pages \in Nat /\ job.virt >= q.first + q.pages
      BY <1>4, <1>6, <2>3
    <3> QED BY <1>5, <3>1, <3>2, UserMoves
  <2> QED BY <1>1, <1>2, <1>3, <1>6, <2>1, <2>2, <2>5, <2>6, QuietView
<1>9. CASE pc = "mapping_stack" /\ pc' = "stage"
  <2>1. job'.virt \in Nat
    BY <1>1, <1>9 DEF NoJob, Job
  <2>2. Part(pc) = 2 /\ Part(pc') = 3
    BY <1>9, Parts
  <2>3. job.virt >= PageOf(StackBase) + StackPages
    <3>1. job.end = PageOf(StackBase) + StackPages
      BY <1>9 DEF Inv, UserJobs
    <3> QED BY <1>1, <1>9, <3>1
  <2>4. UserCursor'
    BY <1>2, <1>5, <1>9 DEF UserCursor
  <2>5. PICK d \in Nat : d = job'.virt
    BY <2>1
  <2>6. ASSUME NEW v \in VirtualPages
        PROVE  UserSees(3, d, q, framebuffer, v) = UserSees(2, job.virt, q, framebuffer, v)
    <3>1. v \in Nat
      BY VirtualNat
    <3>2. q.first \in Nat /\ q.pages \in Nat /\ q.first + q.pages <= PageOf(StackBase)
      BY <1>4, <1>5, <1>6
    <3> QED BY <1>5, <2>3, <3>1, <3>2, UserEnds
  <2> QED BY <1>1, <1>2, <1>3, <1>6, <2>2, <2>4, <2>5, <2>6, QuietView
<1> QED BY <1>1, <1>7, <1>8, <1>9

\* A step between places where all pages of the program are mapped.
LEMMA LoadedSees ==
  ASSUME Inv, pc \in Loaded, pc' \in Loaded, Layout' = Layout, job' \in JobTypes, UserCursor
  PROVE  /\ \A v \in VirtualPages :
              UserSees(Part(pc'), job'.virt, Layout', framebuffer, v)
                = UserSees(Part(pc), job.virt, Layout, framebuffer, v)
         /\ UserCursor'
         /\ pc \in Shown /\ pc' \in Shown
<1>1. pc \in Shown /\ pc' \in Shown
  BY DEF Loaded, Shown, Placed, InSpace
<1>2. Part(pc) = 3 /\ Part(pc') = 3
  BY Parts DEF Loaded, InSpace
<1>3. pc' # "mapping_image" /\ pc' # "mapping_stack"
  BY DEF Loaded, InSpace
<1>4. UserCursor'
  BY <1>1, <1>3 DEF UserCursor
<1>5. PICK q : q = Layout
  OBVIOUS
<1>6. PICK d \in Nat : d = job'.virt
  BY DEF JobTypes
<1>7. job.virt \in Nat
  BY DEF Inv, Types, JobTypes
<1>8. ASSUME NEW v \in VirtualPages
      PROVE  UserSees(3, d, q, framebuffer, v) = UserSees(3, job.virt, q, framebuffer, v)
  <2>1. v \in Nat
    BY VirtualNat
  <2>2. q.first \in Nat /\ q.pages \in Nat /\ q.first + q.pages <= PageOf(StackBase)
    BY <1>1, <1>5, LayoutTyped DEF UserCursor
  <2> QED BY <1>7, <2>1, <2>2, UserEnds
<1> QED BY <1>1, <1>2, <1>4, <1>5, <1>6, <1>8

\* The program ends, or a system call is refused or starts to read a line.
LEMMA CallsSee ==
  ASSUME Inv, View, SyscallExit \/ UserFault \/ SyscallRefused \/ SyscallReadLine
  PROVE  View'
<1>1. /\ pc = "user" /\ pc' \in {"user", "read_line", "returned"}
      /\ UNCHANGED <<tables, g_pml4, framebuffer, job>>
      /\ \/ process' = process
         \/ \E f \in BOOLEAN : process' = [process EXCEPT !.state = "exited",
                                     !.exit_requested = TRUE, !.failed = f]
  BY DEF SyscallExit, UserFault, FinishExit, SyscallRefused, SyscallReadLine, pagingVars,
         vars, processVars
<1>2. process \in ProcessTypes /\ job \in JobTypes
  BY DEF Inv, Types
<1>3. Root' = Root /\ Layout' = Layout
  BY <1>1, <1>2 DEF Root, Layout, ProcessTypes
<1>4. pc \in Loaded /\ pc' \in Loaded
  BY <1>1 DEF Loaded, InSpace
<1> QED BY <1>1, <1>2, <1>3, <1>4, LoadedSees, QuietView DEF View

\* paging_create_address_space: the program's root maps what the kernel's does.
LEMMA CreateRootSees ==
  ASSUME Inv, View, CreateRoot
  PROVE  View'
<1>1. /\ pc = "create_root" /\ UNCHANGED <<g_pml4, framebuffer, job>>
      /\ \/ \E b \in Candidates(1) :
              /\ alloc_pages(1, b)
              /\ tables' = [tables EXCEPT ![b.base] = tables[g_pml4]]
              /\ process' = [process EXCEPT !.page_table_root = b.base]
              /\ pc' = "image_backing"
         \/ pc' = "release_image" /\ tables' = tables
  BY DEF CreateRoot, paging_create_address_space
<1>2. CASE pc' = "release_image" /\ tables' = tables
  BY <1>1, <1>2, FailsSees
<1>3. CASE \E b \in Candidates(1) :
             /\ alloc_pages(1, b)
             /\ tables' = [tables EXCEPT ![b.base] = tables[g_pml4]]
             /\ process' = [process EXCEPT !.page_table_root = b.base]
             /\ pc' = "image_backing"
  <2>1. PICK b \in Candidates(1) :
             /\ alloc_pages(1, b)
             /\ tables' = [tables EXCEPT ![b.base] = tables[g_pml4]]
             /\ process' = [process EXCEPT !.page_table_root = b.base]
             /\ pc' = "image_backing"
    BY <1>3
  <2>2. Later /\ Later' /\ pc # "pml4" /\ pc' \in Shown /\ pc' # "fault"
    BY <1>1, <2>1 DEF Later, BootPhases, Shown, Placed
  <2>3. PICK N, lev : KernelHas(N, lev)
    BY <2>2, KernelHasTables
  <2>4. StoreOK /\ Graded(tables, g_pml4, N, lev) /\ N \subseteq AllPages /\ g_pml4 \in N
        /\ tables \in Tables
    BY <2>3 DEF KernelHas, Graded
  <2>5. b.base \notin N /\ b.base \in AllPages
    BY <2>1, <2>3, <2>4, KernelLends, AllocFacts DEF StoreOK
  <2>6. (\A t \in N : tables'[t] = tables[t]) /\ tables'[b.base] = tables[g_pml4]
    BY <2>1, <2>4, <2>5 DEF Tables
  <2>7. Cursor' /\ KernelSees'
    BY <1>1, <2>2, <2>3, <2>6, KernelLater DEF View
  <2>8. /\ Root' = b.base /\ process'.image_base = process.image_base
        /\ process'.image_pages = process.image_pages
    <3>1. process \in ProcessTypes
      BY DEF Inv, Types
    <3> QED BY <2>1, <3>1 DEF Root, ProcessTypes
  <2>9. Layout'.first + Layout'.pages <= PageOf(StackBase)
    <3>1. /\ LayoutAccepted(program) /\ program \in Programs
          /\ process.image_base = ImageFirst(program) * PageSize
          /\ process.image_pages = ImageEnd(program) - ImageFirst(program)
      BY <1>1 DEF Inv, UserJobs, Placed, LoadPhases
    <3>2. /\ ImageFirst(program) \in Nat /\ ImageEnd(program) \in Nat
          /\ ImageEnd(program) <= PageAfter(ImageLimit)
      BY <3>1, LayoutFacts
    <3>3. PageOf(process.image_base) = ImageFirst(program)
      BY <3>1, <3>2, PageArithmetic
    <3>4. PageAfter(ImageLimit) <= PageOf(StackBase) /\ PageOf(StackBase) \in Nat
          /\ PageAfter(ImageLimit) \in Nat
      <4>1. ImageLimit \in Nat
        BY LayoutAssumption DEF ImageLimit
      <4> QED BY <4>1, WindowFacts, PageArithmetic
    <3>5. Layout'.first = ImageFirst(program)
          /\ Layout'.pages = ImageEnd(program) - ImageFirst(program)
      BY <2>8, <3>1, <3>3 DEF Layout
    <3> QED BY <3>2, <3>4, <3>5
  <2>10. UserCursor'
    BY <2>1, <2>9 DEF UserCursor
  <2>11. PICK tb, q : tb = tables' /\ q = Layout'
    OBVIOUS
  <2>12. ASSUME NEW v \in VirtualPages
         PROVE  MapIn(tb, b.base, v) = UserSees(0, job.virt, q, framebuffer, v)
    <3>1. v \in Nat
      BY VirtualNat
    <3>2. MapIn(tb, b.base, v) = MapIn(tables, g_pml4, v)
      BY <2>4, <2>6, <2>11, <3>1, CopyMaps
    <3>3. MapIn(tables, g_pml4, v) = Sees(10, job.virt, framebuffer, v)
      BY <1>1, <2>2, LaterPlace DEF View, KernelSees, Later
    <3>4. UserSees(0, job.virt, q, framebuffer, v) = Sees(10, 0, framebuffer, v)
      BY DEF UserSees, OfImage, OfStack
    <3>5. Sees(10, job.virt, framebuffer, v) = Sees(10, 0, framebuffer, v)
      BY SeesEnd
    <3> QED BY <3>2, <3>3, <3>4, <3>5
  <2>13. Part(pc') = 0
    BY <2>1, Parts
  <2>14. UserShown'
    BY <1>1, <2>8, <2>11, <2>12, <2>13 DEF UserShown
  <2> QED BY <2>2, <2>7, <2>10, <2>14 DEF View
<1> QED BY <1>1, <1>2, <1>3

-----------------------------------------------------------------------------
(* paging_map_user_range. *)

\* Entries of small pages that ring 3 may use are such entries.
LEMMA SmallEntry ==
  ASSUME NEW p \in Nat, NEW w \in BOOLEAN, NEW x \in BOOLEAN, NEW u \in BOOLEAN, u
  PROVE  Small(PageEntry(p, w, x, u))
<1>1. PageEntry(p, w, x, u) \in Entry /\ PageEntry(p, w, x, u).kind = "page"
  BY DEF PageEntry, Entry
<1>2. ASSUME NEW v \in Nat, NEW up, up
      PROVE  Final(PageEntry(p, w, x, u), v, 1, up) = PageEntry(p, w, x, u)
  <2>1. v % Span(1) = 0 /\ p + 0 = p
    BY DEF Span
  <2> QED BY <1>2, <2>1 DEF Final, PageEntry
<1> QED BY <1>1, <1>2 DEF Small

\* Such an entry for the page c in a table of level 1 of the program maps c alone.
LEMMA UserPuts ==
  ASSUME Inv, pc # "pml4", ~ Destroying, Root # 0,
         NEW N, NEW lev, NEW M, NEW mlev, Space(N, lev, M, mlev),
         NEW c \in VirtualPages, UserPath(Root, c), Stop(Root, c).level = 1,
         NEW e, Small(e),
         tables' = WithEntry(tables, Stop(Root, c).table, Stop(Root, c).index, e)
  PROVE  /\ \A t \in N : tables'[t] = tables[t]
         /\ \A v \in VirtualPages :
              MapIn(tables', Root, v) = IF v = c THEN e ELSE MapIn(tables, Root, v)
<1> DEFINE X == N \cup M
<1>1. PICK s : s = StopIn(tables, Root, c) /\ s = Stop(Root, c)
  BY StopIs
<1>2. c \in Nat
  BY VirtualNat
<1>3. /\ tables \in Tables /\ N \subseteq AllPages /\ M \subseteq AllPages /\ N \cap M = {}
      /\ Root \in M /\ Owned(N, lev, M, mlev)
  BY DEF Space
<1>4. /\ s.table \in M /\ s.index \in Slots /\ s.level = 1
  BY <1>1, <1>2, <1>3, UserWalk
<1>5. PICK l2 : Graded(tables, Root, X, l2)
  BY SpaceGraded
<1>6. Grafted(tables, Root, OwnSlots(Root), M, mlev, N)
  BY SpaceGraded
<1>7. e \in Entry /\ e.kind # "table"
  BY DEF Small
<1>8. tables[s.table][s.index].kind # "table"
  <2>1. EntryIn(tables, Root, c) = tables[s.table][s.index]
    BY <1>1 DEF EntryIn
  <2>2. EntryIn(tables, Root, c).kind # "table"
    BY <1>2, <1>5, StopGraded
  <2> QED BY <2>1, <2>2
<1>9. s.table \in AllPages
  BY <1>3, <1>4
<1>10. PICK tb : tb = tables'
  OBVIOUS
<1>11. /\ tb[s.table][s.index] = e
       /\ \A j \in Slots : j # s.index => tb[s.table][j] = tables[s.table][j]
       /\ \A q \in AllPages : q # s.table => tb[q] = tables[q]
  <2>1. PICK t0 \in AllPages, i0 \in Slots : t0 = s.table /\ i0 = s.index
    BY <1>4, <1>9
  <2>2. tb = WithEntry(tables, t0, i0, e)
    BY <1>1, <1>10, <2>1
  <2>3. tables \in Tables /\ e \in Entry
    BY <1>3, <1>7
  <2>4. PICK ta : ta = tables
    OBVIOUS
  <2>5. ta \in Tables /\ tb = WithEntry(ta, t0, i0, e)
    BY <2>2, <2>3, <2>4
  <2>6. /\ tb[t0][i0] = e
        /\ \A j \in Slots : j # i0 => tb[t0][j] = ta[t0][j]
        /\ \A q \in AllPages : q # t0 => tb[q] = ta[q]
    BY <2>3, <2>5, EntrySet
  <2> QED BY <2>1, <2>4, <2>6
<1>12. \A t \in N : tb[t] = tables[t]
  BY <1>3, <1>4, <1>11
<1>13. Put(tables, tb, X, s.table, s.index, e)
  BY <1>3, <1>4, <1>7, <1>8, <1>11 DEF Put
<1> HIDE DEF X
<1>14. ASSUME NEW v \in VirtualPages
       PROVE  MapIn(tb, Root, v) = IF v = c THEN e ELSE MapIn(tables, Root, v)
  <2>1. v \in Nat
    BY VirtualNat
  <2>2. MapIn(tb, Root, v) =
          IF StopIn(tables, Root, v).table = s.table /\ StopIn(tables, Root, v).index = s.index
            THEN Final(e, v, StopIn(tables, Root, v).level, PathIn(tables, Root, v))
            ELSE MapIn(tables, Root, v)
    <3>1. Graded(tables, Root, X, l2) /\ Put(tables, tb, X, s.table, s.index, e) /\ v \in Nat
      BY <1>5, <1>13, <2>1
    <3>2. PICK t0, i0, ta, r0 : t0 = s.table /\ i0 = s.index /\ ta = tables /\ r0 = Root
      OBVIOUS
    <3>3. Graded(ta, r0, X, l2) /\ Put(ta, tb, X, t0, i0, e)
      BY <3>1, <3>2
    <3>4. MapIn(tb, r0, v) =
            IF StopIn(ta, r0, v).table = t0 /\ StopIn(ta, r0, v).index = i0
              THEN Final(e, v, StopIn(ta, r0, v).level, PathIn(ta, r0, v))
              ELSE MapIn(ta, r0, v)
      BY <3>1, <3>3, MapPut
    <3> QED BY <3>2, <3>4
  <2>3. CASE v = c
    <3>1. StopIn(tables, Root, v) = s
      BY <1>1, <2>3
    <3>2. MapIn(tb, Root, v) = Final(e, v, 1, PathIn(tables, Root, v))
      BY <1>4, <2>2, <3>1
    <3>3. PathIn(tables, Root, v)
      BY <2>3, MappingIs
    <3>4. PICK up : up = PathIn(tables, Root, v)
      OBVIOUS
    <3>5. Final(e, v, 1, up) = e
      BY <2>1, <3>3, <3>4 DEF Small
    <3> QED BY <2>3, <3>2, <3>4, <3>5
  <2>4. CASE v # c
    <3>1. ~ (StopIn(tables, Root, v).table = s.table /\ StopIn(tables, Root, v).index = s.index)
      <4> SUFFICES ASSUME StopIn(tables, Root, v).table = s.table,
                          StopIn(tables, Root, v).index = s.index
                   PROVE  FALSE
        OBVIOUS
      <4>1. StopIn(tables, Root, v) = StopIn(tables, Root, c)
        BY <1>1, <1>2, <1>5, <2>1, SameRecord
      <4>2. StopIn(tables, Root, c).level = 1 /\ StopIn(tables, Root, c).table \in M
        BY <1>1, <1>4
      <4>3. v = c
        BY <1>2, <1>6, <2>1, <4>1, <4>2, SameStop
      <4> QED BY <2>4, <4>3
    <3> QED BY <2>2, <2>4, <3>1
  <2> QED BY <2>3, <2>4
<1> QED BY <1>10, <1>12, <1>14

\* map_page_4k writes the entry, for a program.
LEMMA UserMapPageSees ==
  ASSUME Inv, View, NEW phase \in {"mapping_image", "mapping_stack"},
         MapPage(phase), UNCHANGED processVars
  PROVE  View'
<1>1. /\ pc = phase /\ pc' = pc /\ ~ MapRefused /\ job.virt < job.end
      /\ Stop(job.root, job.virt).level = 1
      /\ UNCHANGED <<g_pml4, framebuffer>>
      /\ tables' = WithEntry(tables, Stop(job.root, job.virt).table,
                             Stop(job.root, job.virt).index,
                             PageEntry(job.phys, job.w, job.x, job.u))
      /\ job' = [job EXCEPT !.virt = @ + 1, !.phys = @ + 1]
  BY DEF MapPage, WithEntry
<1>2. /\ job.root = Root /\ job.u = TRUE /\ job.virt \in Nat /\ job.phys \in Nat
      /\ job.w \in BOOLEAN /\ job.x \in BOOLEAN
      /\ job \in JobTypes /\ Root # 0 /\ pc # "pml4" /\ ~ Destroying
  BY <1>1 DEF Inv, UserJobs, Types, JobTypes, Control, Destroying
<1>3. Root' = Root /\ Layout' = Layout
  BY DEF processVars, Root, Layout
<1>4. PICK q : q = Layout
  OBVIOUS
<1>5. /\ q.first \in Nat /\ q.pages \in Nat /\ q.image \in Nat /\ q.stack \in Nat
      /\ q.first + q.pages <= PageOf(StackBase)
      /\ PageOf(StackBase) \in Nat /\ StackPages \in Nat
      /\ q.first = PageOf(process.image_base) /\ q.pages = process.image_pages
  <2>1. pc \in Shown
    BY <1>1 DEF Shown, Placed
  <2> QED BY <1>4, <2>1, LayoutTyped, WindowFacts DEF View, UserCursor
<1>6. PICK c \in Nat, p \in Nat, w \in BOOLEAN, x \in BOOLEAN :
        c = job.virt /\ p = job.phys /\ w = job.w /\ x = job.x
  BY <1>2
<1>7. \/ /\ pc = "mapping_image" /\ Part(pc) = 1
         /\ c \in q.first .. (q.first + q.pages - 1)
         /\ p = q.image + (c - q.first) /\ w = TRUE /\ x = TRUE
      \/ /\ pc = "mapping_stack" /\ Part(pc) = 2
         /\ c \in PageOf(StackBase) .. (PageOf(StackBase) + StackPages - 1)
         /\ p = q.stack + (c - PageOf(StackBase)) /\ w = TRUE /\ x = FALSE
  <2>1. CASE pc = "mapping_image"
    <3>1. job.end = q.first + q.pages
      BY <1>5, <2>1 DEF Inv, UserJobs
    <3>2. job.virt \in q.first .. (q.first + q.pages)
          /\ job.phys = q.image + (job.virt - q.first) /\ job.w /\ job.x
      BY <1>4, <2>1 DEF View, UserCursor
    <3> QED BY <1>1, <1>5, <1>6, <2>1, <3>1, <3>2, Parts
  <2>2. CASE pc = "mapping_stack"
    <3>1. job.end = PageOf(StackBase) + StackPages
      BY <2>2 DEF Inv, UserJobs
    <3>2. job.virt \in PageOf(StackBase) .. (PageOf(StackBase) + StackPages)
          /\ job.phys = q.stack + (job.virt - PageOf(StackBase)) /\ job.w /\ ~ job.x
      BY <1>4, <2>2 DEF View, UserCursor
    <3> QED BY <1>1, <1>5, <1>6, <2>2, <3>1, <3>2, Parts
  <2> QED BY <1>1, <2>1, <2>2
<1>8. c \in VirtualPages
  <2>1. c < PageOf(StackBase) + StackPages
    BY <1>5, <1>7
  <2> QED BY <2>1, WindowFacts
<1>9. PICK N, lev, M, mlev : Space(N, lev, M, mlev)
  BY <1>2, SpaceExists
<1>10. PICK e : e = PageEntry(p, w, x, TRUE)
  OBVIOUS
<1>11. /\ UserPath(Root, c) /\ Stop(Root, c).level = 1
       /\ tables' = WithEntry(tables, Stop(Root, c).table, Stop(Root, c).index, e)
  BY <1>1, <1>2, <1>6, <1>10 DEF MapRefused
<1>12. /\ \A t \in N : tables'[t] = tables[t]
       /\ \A v \in VirtualPages :
            MapIn(tables', Root, v) = IF v = c THEN e ELSE MapIn(tables, Root, v)
  <2>1. /\ Inv /\ pc # "pml4" /\ ~ Destroying /\ Root # 0 /\ Space(N, lev, M, mlev)
        /\ c \in VirtualPages /\ Small(e)
    <3>1. PICK u \in BOOLEAN : u = TRUE
      OBVIOUS
    <3>2. Small(PageEntry(p, w, x, u))
      BY <3>1, SmallEntry
    <3> QED BY <1>2, <1>6, <1>8, <1>9, <1>10, <3>1, <3>2
  <2> QED BY <2>1, <1>11, UserPuts
<1>13. pc \in Shown /\ pc' \in Shown /\ Later /\ Later' /\ pc' # "fault"
  BY <1>1 DEF Shown, Placed, Later, BootPhases
<1>14. Cursor' /\ KernelSees'
  <2>1. KernelHas(N, lev)
    BY <1>9, SpaceGraded
  <2> QED BY <1>1, <1>12, <1>13, <2>1, KernelLater DEF View
<1>15. job'.virt = c + 1 /\ job'.phys = p + 1 /\ job'.w = w /\ job'.x = x
  BY <1>1, <1>2, <1>6 DEF JobTypes
<1>16. UserCursor'
  <2>1. pc = "mapping_image" =>
          c + 1 \in q.first .. (q.first + q.pages) /\ p + 1 = q.image + (c + 1 - q.first)
    BY <1>5, <1>7
  <2>2. pc = "mapping_stack" =>
          /\ c + 1 \in PageOf(StackBase) .. (PageOf(StackBase) + StackPages)
          /\ p + 1 = q.stack + (c + 1 - PageOf(StackBase))
    BY <1>5, <1>7
  <2> QED BY <1>1, <1>3, <1>4, <1>5, <1>7, <1>15, <2>1, <2>2 DEF UserCursor
<1>17. ASSUME NEW v \in VirtualPages
       PROVE  UserSees(Part(pc), c + 1, q, framebuffer, v) =
                IF v = c THEN e ELSE UserSees(Part(pc), c, q, framebuffer, v)
  <2>1. v \in Nat
    BY VirtualNat
  <2>2. CASE pc = "mapping_image"
    <3>1. UserSees(1, c + 1, q, framebuffer, v) =
            IF v = c THEN ImageEntry(q, v)
            ELSE UserSees(1, c, q, framebuffer, v)
      <4>1. /\ c \in q.first .. (q.first + q.pages - 1) /\ c \in Nat /\ v \in Nat
            /\ q.first \in Nat /\ q.pages \in Nat /\ q.first + q.pages <= PageOf(StackBase)
        BY <1>5, <1>7, <2>1, <2>2
      <4>2. PICK fb : fb = framebuffer
        OBVIOUS
      <4>3. UserSees(1, c + 1, q, fb, v) =
              IF v = c THEN ImageEntry(q, v)
              ELSE UserSees(1, c, q, fb, v)
        BY <4>1, UserNext
      <4> QED BY <4>2, <4>3
    <3>2. v = c => e = ImageEntry(q, v)
      <4>1. p = q.image + (c - q.first) /\ w = TRUE /\ x = TRUE
        BY <1>7, <2>2
      <4>2. e = PageEntry(q.image + (c - q.first), TRUE, TRUE, TRUE)
        BY <1>10, <4>1
      <4> QED BY <4>2 DEF ImageEntry
    <3> QED BY <1>7, <2>2, <3>1, <3>2
  <2>3. CASE pc = "mapping_stack"
    <3>1. UserSees(2, c + 1, q, framebuffer, v) =
            IF v = c THEN StackEntry(q, v)
            ELSE UserSees(2, c, q, framebuffer, v)
      <4>1. /\ c \in PageOf(StackBase) .. (PageOf(StackBase) + StackPages - 1)
            /\ c \in Nat /\ v \in Nat
            /\ q.first \in Nat /\ q.pages \in Nat /\ q.first + q.pages <= PageOf(StackBase)
        BY <1>5, <1>7, <2>1, <2>3
      <4>2. PICK fb : fb = framebuffer
        OBVIOUS
      <4>3. UserSees(2, c + 1, q, fb, v) =
              IF v = c THEN StackEntry(q, v)
              ELSE UserSees(2, c, q, fb, v)
        BY <4>1, UserNext
      <4> QED BY <4>2, <4>3
    <3>2. v = c => e = StackEntry(q, v)
      <4>1. p = q.stack + (c - PageOf(StackBase)) /\ w = TRUE /\ x = FALSE
        BY <1>7, <2>3
      <4>2. e = PageEntry(q.stack + (c - PageOf(StackBase)), TRUE, FALSE, TRUE)
        BY <1>10, <4>1
      <4> QED BY <4>2 DEF StackEntry
    <3> QED BY <1>7, <2>3, <3>1, <3>2
  <2> QED BY <1>7, <2>2, <2>3
<1>18. PICK tb, d : tb = tables' /\ d = c + 1
  OBVIOUS
<1>19. ASSUME NEW v \in VirtualPages
       PROVE  MapIn(tb, Root, v) = UserSees(Part(pc), d, q, framebuffer, v)
  <2>1. MapIn(tables, Root, v) = UserSees(Part(pc), c, q, framebuffer, v)
    BY <1>4, <1>6, <1>13 DEF View, UserShown
  <2> QED BY <1>12, <1>17, <1>18, <2>1
<1>20. UserShown'
  BY <1>1, <1>3, <1>4, <1>15, <1>18, <1>19 DEF UserShown
<1> QED BY <1>13, <1>14, <1>16, <1>20 DEF View

\* The program's root gets a table b where the walk for w stops.
LEMMA UserSplices ==
  ASSUME Inv, pc # "pml4", ~ Destroying, Root # 0,
         NEW N, NEW lev, NEW M, NEW mlev, Space(N, lev, M, mlev),
         NEW w \in Nat, UserPath(Root, w),
         NEW b \in Candidates(1), alloc_pages(1, b),
         NEW e, e = EntryIn(tables, Root, w), NEW nt, NEW ne \in Entry,
         StopIn(tables, Root, w).level > 1,
         ne.kind = "table", ne.page = b.base,
         \/ nt = EmptyTable /\ e.kind = "none"
         \/ /\ nt = SplitTable(e) /\ StopIn(tables, Root, w).level = 2
            /\ ne.u = e.u /\ (e.kind # "none" => ~ e.a),
         tables' = WithTable(tables, b.base, nt, StopIn(tables, Root, w).table,
                             StopIn(tables, Root, w).index, ne)
  PROVE  /\ \A t \in N : tables'[t] = tables[t]
         /\ \A v \in VirtualPages : MapIn(tables', Root, v) = MapIn(tables, Root, v)
<1>1. /\ tables \in Tables /\ StoreOK /\ N \subseteq AllPages /\ M \subseteq AllPages
      /\ N \cap M = {} /\ Owned(N, lev, M, mlev)
      /\ \A t \in N \cup M : Block(t, 1) \in held
  BY DEF Space
<1>2. PICK X, r : X = N \cup M /\ r = Root
  OBVIOUS
<1>3. PICK l2 : Graded(tables, r, X, l2) /\ \A t \in M : l2[t] = mlev[t]
  <2>1. PICK l2 : Graded(tables, Root, N \cup M, l2) /\ Extends(l2, mlev, M)
    BY SpaceGraded
  <2> QED BY <1>2, <2>1 DEF Extends
<1>4. PICK t, i, l : /\ t = StopIn(tables, Root, w).table
                     /\ i = StopIn(tables, Root, w).index
                     /\ l = StopIn(tables, Root, w).level
  OBVIOUS
<1>5. t \in M
  <2>1. Stop(Root, w).table \in M
    BY <1>1, UserWalk
  <2> QED BY <1>4, <2>1, StopIs
<1>6. /\ t \in X /\ i \in Slots /\ l = l2[t] /\ l > 1 /\ t \in AllPages
      /\ e \in Entry /\ e.kind # "table" /\ e = tables[t][i]
  <2>1. /\ StopIn(tables, r, w).table \in X
        /\ StopIn(tables, r, w).level = l2[StopIn(tables, r, w).table]
        /\ StopIn(tables, r, w).index \in Slots
        /\ EntryIn(tables, r, w) \in Entry
        /\ EntryIn(tables, r, w).kind # "table"
    BY <1>3, StopGraded
  <2> QED BY <1>1, <1>2, <1>4, <1>5, <2>1 DEF EntryIn
<1>7. b.base \in AllPages /\ b.base \notin X /\ b.base # t
  <2>1. \A q \in X : Block(q, 1) \in held
    BY <1>1, <1>2
  <2>2. b.base \notin X
    BY <1>1, <2>1, TablesApart
  <2> QED BY <1>1, <1>6, <2>2, AllocFacts
<1>8. nt \in Rows
  BY <1>6, NewRows
<1>9. PICK tb : tb = tables'
  OBVIOUS
<1>10. /\ tb[b.base] = nt
       /\ tb[t][i] = ne
       /\ \A j \in Slots : j # i => tb[t][j] = tables[t][j]
       /\ \A p \in AllPages : p # b.base /\ p # t => tb[p] = tables[p]
  <2> DEFINE tc == WithTable(tables, b.base, nt, t, i, ne)
  <2>1. tb = tc
    BY <1>4, <1>9
  <2>2. /\ tc[b.base] = nt
        /\ tc[t][i] = ne
        /\ \A j \in Slots : j # i => tc[t][j] = tables[t][j]
        /\ \A p \in AllPages : p # b.base /\ p # t => tc[p] = tables[p]
    BY <1>1, <1>6, <1>7, <1>8, TableAdded
  <2> HIDE DEF tc
  <2> QED BY <2>1, <2>2
<1>11. \A q \in N : tb[q] = tables[q]
  BY <1>1, <1>2, <1>5, <1>7, <1>10
<1>12. \A p \in X, j \in Slots : ~ (p = t /\ j = i) => tb[p][j] = tables[p][j]
  BY <1>1, <1>2, <1>7, <1>10
<1>13. Spliced(tables, tb, X, t, i, b.base, nt)
  BY <1>6, <1>10, <1>12 DEF Spliced
<1>14. \/ nt = EmptyTable /\ tables[t][i].kind = "none"
       \/ /\ nt = SplitTable(tables[t][i]) /\ l2[t] = 2
          /\ tb[t][i].u = tables[t][i].u
          /\ tables[t][i].kind # "none" => ~ tables[t][i].a
  BY <1>4, <1>6, <1>10
<1>15. ASSUME NEW v \in VirtualPages
       PROVE  MapIn(tb, r, v) = MapIn(tables, r, v)
  <2>1. v \in Nat /\ l2[t] > 1
    BY <1>6, VirtualNat
  <2> QED BY <1>3, <1>13, <1>14, <2>1, MapSpliced, ZenonT(60)
<1> QED BY <1>2, <1>9, <1>11, <1>15

\* get_or_create_table or split_large_page on the way, for a program, maps what
\* was there.
LEMMA UserMapTableSees ==
  ASSUME Inv, View, NEW phase \in {"mapping_image", "mapping_stack"},
         MapTable(phase, "fail_stack"), UNCHANGED processVars
  PROVE  View'
<1> DEFINE s == Stop(Root, job.virt)
           e == tables[s.table][s.index]
<1>1. /\ pc = phase /\ job.root = Root /\ job.u = TRUE /\ job.virt \in Nat
      /\ Root # 0 /\ pc # "pml4" /\ ~ Destroying
  BY DEF MapTable, Inv, UserJobs, Types, JobTypes, Control, Destroying
<1>2. /\ ~ MapRefused /\ s.level > 1
      /\ UNCHANGED <<g_pml4, cr3, job, doomed, framebuffer>>
      /\ job.virt < job.end
      /\ \/ pc' = "fail_stack" /\ UNCHANGED tables
         \/ /\ pc' = pc
            /\ \E b \in Candidates(1) :
                 /\ alloc_pages(1, b)
                 /\ tables' = WithTable(tables, b.base, NewTable(e), s.table, s.index,
                                        TableEntry(b.base, NewTableUser(e)))
  BY <1>1 DEF MapTable, WithTable
<1>3. Root' = Root /\ Layout' = Layout
  BY DEF processVars, Root, Layout
<1>4. pc \in Shown
  BY <1>1 DEF Shown, Placed
<1>5. CASE pc' = "fail_stack" /\ UNCHANGED tables
  BY <1>2, <1>4, <1>5, FailsSees
<1>6. CASE pc' = pc /\ \E b \in Candidates(1) :
                 /\ alloc_pages(1, b)
                 /\ tables' = WithTable(tables, b.base, NewTable(e), s.table, s.index,
                                        TableEntry(b.base, NewTableUser(e)))
  <2>1. PICK b \in Candidates(1) :
          /\ alloc_pages(1, b)
          /\ tables' = WithTable(tables, b.base, NewTable(e), s.table, s.index,
                                 TableEntry(b.base, NewTableUser(e)))
    BY <1>6
  <2>2. s = StopIn(tables, Root, job.virt) /\ e = EntryIn(tables, Root, job.virt)
    BY StopIs DEF EntryIn
  <2>3. UserPath(Root, job.virt) /\ ~ (s.level >= 3 /\ e.kind = "page")
    BY <1>1, <1>2 DEF MapRefused, StopEntry
  <2>4. PICK l, t, i : l = s.level /\ t = s.table /\ i = s.index
    OBVIOUS
  <2> HIDE DEF s, e
  <2>5. job.virt \in VirtualPages
    <3>1. /\ Layout.first \in Nat /\ Layout.pages \in Nat
          /\ Layout.first = PageOf(process.image_base) /\ Layout.pages = process.image_pages
      BY LayoutTyped
    <3>2. Layout.first + Layout.pages <= PageOf(StackBase)
      BY <1>4 DEF View, UserCursor
    <3>3. job.end <= PageOf(StackBase) + StackPages /\ job.end \in Nat
      <4>1. /\ pc = "mapping_image" => job.end = Layout.first + Layout.pages
            /\ pc = "mapping_stack" => job.end = PageOf(StackBase) + StackPages
        BY <3>1 DEF Inv, UserJobs
      <4> QED BY <1>1, <3>1, <3>2, <4>1, WindowFacts
    <3>4. job.virt < PageOf(StackBase) + StackPages
      BY <1>1, <1>2, <3>3, WindowFacts
    <3> QED BY <1>1, <3>4, WindowFacts
  <2>6. PICK N, lev, M, mlev : Space(N, lev, M, mlev)
    BY <1>1, SpaceExists
  <2>7. /\ e \in Entry /\ e.kind # "table" /\ l \in 1 .. 4
        /\ e.kind # "none" => ~ e.a
    <3>1. PICK X, l2 : X = N \cup M /\ Graded(tables, Root, X, l2)
      BY <2>6, SpaceGraded
    <3>2. e \in Entry /\ e.kind # "table" /\ l \in 1 .. 4
      BY <1>1, <2>2, <2>4, <3>1, StopGraded
    <3>3. MapIn(tables, Root, job.virt)
            = UserSees(Part(pc), job.virt, Layout, framebuffer, job.virt)
      BY <1>4, <2>5 DEF View, UserShown
    <3>4. ~ MapIn(tables, Root, job.virt).a
      <4>1. ~ UserSees(Part(pc), job.virt, Layout, framebuffer, job.virt).a
        BY SeesPlain DEF UserSees, ImageEntry, StackEntry, PageEntry
      <4> QED BY <3>3, <4>1
    <3>5. MapIn(tables, Root, job.virt) = Final(e, job.virt, l, PathIn(tables, Root, job.virt))
      BY <2>2, <2>4 DEF MapIn
    <3>6. e.kind # "none" => ~ e.a
      BY <3>2, <3>4, <3>5, FinalKind
    <3> QED BY <3>2, <3>6
  <2>8. PICK nt : nt = NewTable(e)
    OBVIOUS
  <2>9. PICK u \in BOOLEAN : u = NewTableUser(e)
    <3>1. e.u \in BOOLEAN
      BY <2>7 DEF Entry
    <3> QED BY <1>1, <3>1 DEF NewTableUser
  <2>10. PICK ne : ne = TableEntry(b.base, u)
    OBVIOUS
  <2>11. /\ ne \in Entry /\ ne.kind = "table" /\ ne.page = b.base /\ ne.u = u
    <3>1. StoreOK
      BY <2>6 DEF Space
    <3>2. b.base \in Nat
      BY <2>1, <3>1, AllocFacts, PageFacts
    <3> QED BY <2>10, <3>2, NewRows
  <2>12. \/ nt = EmptyTable /\ e.kind = "none"
         \/ /\ nt = SplitTable(e) /\ l = 2
            /\ ne.u = e.u /\ (e.kind # "none" => ~ e.a)
    <3>1. CASE e.kind = "page"
      <4>1. nt = SplitTable(e) /\ u = e.u
        BY <2>8, <2>9, <3>1 DEF NewTable, NewTableUser
      <4>2. l = 2
        BY <1>2, <2>3, <2>4, <2>7, <3>1
      <4> QED BY <2>7, <2>11, <4>1, <4>2
    <3>2. CASE e.kind # "page"
      <4>1. e.kind = "none"
        BY <2>7, <3>2 DEF Entry
      <4> QED BY <2>8, <3>2, <4>1 DEF NewTable
    <3> QED BY <3>1, <3>2
  <2>13. PICK w \in Nat : w = job.virt
    BY <1>1
  <2>14. StopIn(tables, Root, w).level = l /\ l > 1 /\ StopIn(tables, Root, w).level > 1
    BY <1>2, <2>2, <2>4, <2>13
  <2>15. /\ tables' = WithTable(tables, b.base, nt, StopIn(tables, Root, w).table,
                                StopIn(tables, Root, w).index, ne)
         /\ UserPath(Root, w) /\ e = EntryIn(tables, Root, w)
    BY <2>1, <2>2, <2>3, <2>8, <2>9, <2>10, <2>13
  <2>16. \/ nt = EmptyTable /\ e.kind = "none"
         \/ /\ nt = SplitTable(e) /\ StopIn(tables, Root, w).level = 2
            /\ ne.u = e.u /\ (e.kind # "none" => ~ e.a)
    BY <2>12, <2>14
  <2>17. /\ \A q \in N : tables'[q] = tables[q]
         /\ \A v \in VirtualPages : MapIn(tables', Root, v) = MapIn(tables, Root, v)
    BY <1>1, <2>1, <2>6, <2>11, <2>14, <2>15, <2>16, UserSplices
  <2>18. Later /\ Later' /\ pc' # "fault"
    BY <1>4, <1>6, ShownLater DEF Later
  <2>19. Cursor' /\ KernelSees'
    <3>1. KernelHas(N, lev)
      BY <2>6, SpaceGraded
    <3> QED BY <1>2, <2>17, <2>18, <3>1, KernelLater DEF View
  <2>20. job' = job /\ framebuffer' = framebuffer
    BY <1>2
  <2>21. UserCursor'
    BY <1>3, <1>6, <2>20 DEF View, UserCursor
  <2>22. UserShown'
    <3>1. \A v \in VirtualPages :
            UserSees(Part(pc'), job'.virt, Layout', framebuffer, v)
              = UserSees(Part(pc), job.virt, Layout, framebuffer, v)
      BY <1>3, <1>6, <2>20
    <3> QED BY <1>3, <1>4, <2>17, <2>20, <3>1, UserStays DEF View
  <2> QED BY <2>18, <2>19, <2>21, <2>22 DEF View
<1> QED BY <1>2, <1>5, <1>6

\* paging_map_user_range maps the pages of the program, one by one.
LEMMA MapUserSees ==
  ASSUME Inv, View, MapUser
  PROVE  View'
<1>1. PICK phase \in {"mapping_image", "mapping_stack"} :
        \/ MapTable(phase, "fail_stack")
        \/ MapPage(phase)
        \/ MapFails(phase, "fail_stack")
  BY DEF MapUser
<1>2. UNCHANGED processVars
  BY DEF MapUser
<1>3. CASE MapTable(phase, "fail_stack")
  BY <1>2, <1>3, UserMapTableSees
<1>4. CASE MapPage(phase)
  BY <1>2, <1>4, UserMapPageSees
<1>5. CASE MapFails(phase, "fail_stack")
  <2>1. pc \in Shown /\ pc' = "fail_stack" /\ UNCHANGED <<tables, g_pml4, framebuffer>>
    BY <1>5 DEF MapFails, Shown, Placed, pagingVars
  <2> QED BY <2>1, FailsSees
<1> QED BY <1>1, <1>3, <1>4, <1>5

-----------------------------------------------------------------------------
(* The steps that touch pages under the program's root. *)

\* Every page the kernel touches for a loaded program is mapped.
LEMMA AllMapped ==
  ASSUME Inv, View, pc \in Loaded \ {"returned"},
         NEW v \in ImagePages \cup StackRange \cup FramebufferPages
  PROVE  Mapped(Root, v)
<1>1. pc \in Shown /\ Part(pc) = 3
  BY Parts DEF Loaded, Shown, Placed, InSpace
<1>2. PICK q, fb, c : q = Layout /\ fb = framebuffer /\ c = job.virt
  OBVIOUS
<1>3. /\ q.first \in Nat /\ q.pages \in Nat
      /\ ImagePages = q.first .. (q.first + q.pages - 1)
      /\ q.first + q.pages <= PageOf(StackBase)
      /\ PageOf(StackBase) \in Nat /\ StackPages \in Nat
  BY <1>1, <1>2, LayoutTyped, WindowFacts DEF View, UserCursor
<1>4. fb \in Framebuffers /\ fb.first \in Nat /\ fb.end \in Nat
      /\ FramebufferPages = fb.first .. (fb.end - 1)
  <2>1. fb \in Framebuffers
    BY <1>2 DEF Inv, Types
  <2> QED BY <1>2, <2>1, ExtentFacts DEF FramebufferPages
<1>5. v \in VirtualPages
  <2>1. CASE v \in FramebufferPages
    BY <1>4, <2>1, ExtentFacts
  <2>2. CASE v \in ImagePages \cup StackRange
    <3>1. v \in Nat /\ v < PageOf(StackBase) + StackPages
      BY <1>3, <2>2 DEF StackRange
    <3> QED BY <3>1, WindowFacts
  <2> QED BY <2>1, <2>2
<1>6. MapIn(tables, Root, v) = UserSees(3, c, q, fb, v)
  BY <1>1, <1>2, <1>5 DEF View, UserShown
<1>7. UserSees(3, c, q, fb, v).kind = "page"
  <2>1. OfImage(3, c, q, v) \/ OfStack(3, c, v) \/ Device(10, 0, fb, v)
    <3>1. CASE v \in ImagePages
      BY <1>3, <3>1 DEF OfImage
    <3>2. CASE v \in StackRange
      BY <3>2 DEF OfStack, StackRange
    <3>3. CASE v \in FramebufferPages
      BY <1>4, <3>3 DEF Device, Done
    <3> QED BY <3>1, <3>2, <3>3
  <2>2. ImageEntry(q, v).kind = "page" /\ StackEntry(q, v).kind = "page"
    BY DEF ImageEntry, StackEntry, PageEntry
  <2>3. Device(10, 0, fb, v) => Sees(10, 0, fb, v).kind = "page"
    BY DEF Sees, PageEntry
  <2> QED BY <2>1, <2>2, <2>3 DEF UserSees
<1>8. Mapping(Root, v) = MapIn(tables, Root, v)
  BY MappingIs
<1> QED BY <1>2, <1>6, <1>7, <1>8 DEF Mapped

\* They set accessed bits, in the program's root only; what the roots map stays.
LEMMA TouchSees ==
  ASSUME Inv, Inv', View, Touches
  PROVE  View'
<1>1. PICK pages, next :
        /\ pc \in Loaded \ {"returned"}
        /\ pages \subseteq ImagePages \cup StackRange \cup FramebufferPages
        /\ next \in {"copy", "start", "user", "read_line"}
        /\ Touch(Root, pages, next)
        /\ UNCHANGED <<free, held, g_pml4, job, framebuffer>>
        /\ Root' = Root
        /\ process'.image_backing = process.image_backing
        /\ process'.stack_backing = process.stack_backing
        /\ process'.image_base = process.image_base
        /\ process'.image_pages = process.image_pages
  BY DEF Touches
<1>2. \A v \in pages : Mapped(Root, v)
  BY <1>1, AllMapped
<1>3. PICK vs : pc' = next /\ tables' = Accessed(tables, Root, vs)
  BY <1>1, <1>2 DEF Touch
<1>4. pc \in Loaded /\ pc' \in Loaded /\ Layout' = Layout
  BY <1>1, <1>3 DEF Loaded, InSpace, Layout
<1>5. Root # 0 /\ pc # "pml4" /\ ~ Destroying
  BY <1>1 DEF Inv, Control, Loaded, InSpace, Destroying
<1>6. PICK N, lev, M, mlev : Space(N, lev, M, mlev)
  BY <1>5, SpaceExists
<1>7. /\ tables \in Tables /\ Root \in AllPages /\ Root \notin N /\ N \subseteq AllPages
      /\ KernelHas(N, lev)
  <2>1. KernelHas(N, lev)
    BY <1>6, SpaceGraded
  <2> QED BY <1>6, <2>1 DEF Space
<1>8. \A t \in N : tables'[t] = tables[t]
  <2>1. \A t \in AllPages : t # Root => tables'[t] = tables[t]
    BY <1>3, <1>7, AccessedFacts
  <2> QED BY <1>7, <2>1
<1>9. pc \in Shown /\ pc' \in Shown
  BY <1>4 DEF Loaded, Shown, Placed, InSpace
<1>10. Later /\ Later' /\ pc' # "fault"
  BY <1>9, ShownLater DEF Later
<1>11. Cursor' /\ KernelSees'
  BY <1>1, <1>7, <1>8, <1>10, KernelLater DEF View
<1>12. \A v \in VirtualPages : MapIn(tables', Root, v) = MapIn(tables, Root, v)
  <2>1. PICK X, l2 : X = N \cup M /\ Graded(tables, Root, X, l2)
    BY <1>6, SpaceGraded
  <2>2. \A v \in Nat : MapIn(tables', Root, v) = MapIn(tables, Root, v)
    BY <1>3, <1>7, <2>1, AccessedMaps
  <2> QED BY <2>2, VirtualNat
<1>13. job' \in JobTypes
  BY DEF Inv, Types
<1>14. /\ \A v \in VirtualPages :
            UserSees(Part(pc'), job'.virt, Layout', framebuffer, v)
              = UserSees(Part(pc), job.virt, Layout, framebuffer, v)
       /\ UserCursor'
  BY <1>4, <1>13, LoadedSees DEF View
<1>15. UserShown'
  BY <1>1, <1>9, <1>12, <1>14, UserStays DEF View
<1> QED BY <1>10, <1>11, <1>14, <1>15 DEF View

\* The pages of the context, the image, the entry point, a buffer or a line are
\* touched.
LEMMA TouchesSee ==
  ASSUME Inv, View, Stage \/ CopyImage \/ Start \/ SyscallWrite
                    \/ KeyChar \/ KeyBackspace \/ KeyEnter
  PROVE  View'
<1>1. Inv' /\ Touches
  BY StageKeeps, CopyImageKeeps, StartKeeps, SyscallWriteKeeps, KeysKeep
<1> QED BY <1>1, TouchSees

-----------------------------------------------------------------------------
(* The invariant. *)

\* The way out leaves no address space to show.
LEMMA LeaveSees ==
  ASSUME Inv, View, Return \/ PrepareFails \/ Release
  PROVE  View'
<1>1. pc' \notin Shown /\ pc' # "fault"
  <2>1. CASE Return
    BY <2>1 DEF Return, Shown, Placed, InSpace
  <2>2. CASE PrepareFails
    BY <2>2 DEF PrepareFails, FreeField, BeginDestroy, Destroy, DestroyTable, FreeRoot,
                Shown, Placed, InSpace
  <2>3. CASE Release
    BY <2>3 DEF Release, FreeField, BeginDestroy, Destroy, DestroyTable, FreeRoot,
                Shown, Placed, InSpace
  <2> QED BY <2>1, <2>2, <2>3
<1>2. Cursor' /\ KernelSees'
  BY ReturnSees, WayOutSees DEF View
<1> QED BY <1>1, <1>2, NoSpaceSees DEF View

\* The boot comes before.
LEMMA BootView ==
  ASSUME Inv, View, Boot, UNCHANGED processVars
  PROVE  View'
<1>1. pc' \in BootPhases \cup {"idle", "panic"}
  BY DEF Boot, BootPhases, AllocKernelRoot, MapTable, MapPage, LowMapped, LargeTable, MapLarge,
         LargeMapped, SplitChunk, NextRange, DataMapped, FramebufferMapped, LoadCr3, BootDone,
         JobDone
<1>2. pc' \notin Shown /\ pc' # "fault"
  BY <1>1 DEF BootPhases, Shown, Placed, InSpace
<1>3. Cursor' /\ KernelSees'
  BY BootSees DEF View
<1> QED BY <1>2, <1>3, NoSpaceSees DEF View

\* At the start there is no root yet.
LEMMA InitView ==
  ASSUME Init
  PROVE  View
<1>1. pc = "pml4"
  BY DEF Init, PagingInit
<1>2. pc \notin Shown /\ pc # "fault" /\ Place(pc) = 10
  BY <1>1, Places DEF Shown, Placed, InSpace
<1> QED BY <1>1, <1>2 DEF View, Cursor, KernelSees, UserCursor, UserShown, ByPage, InSpace,
                          Placed, Shown

\* The view reads nothing a stuttering step changes.
LEMMA StutterView ==
  ASSUME View, UNCHANGED vars
  PROVE  View'
<1>1. /\ UNCHANGED <<pc, tables, g_pml4, job, framebuffer, process>>
      /\ Root' = Root /\ Layout' = Layout
  BY DEF vars, pagingVars, processVars, Root, Layout
<1>2. Cursor'
  BY <1>1 DEF View, Cursor, HasFramebuffer
<1>3. KernelSees'
  BY <1>1 DEF View, KernelSees
<1>4. UserCursor' /\ UserShown'
  BY <1>1 DEF View, UserCursor, UserShown
<1> QED BY <1>1, <1>2, <1>3, <1>4 DEF View

\* Every step of the kernel and of the program keeps the view.
LEMMA NextView ==
  ASSUME Inv, View, [Next]_vars
  PROVE  View'
<1>1. CASE Kernel
  <2>1. CASE Boot /\ UNCHANGED processVars
    BY <2>1, BootView
  <2>2. CASE AllocFileBuffer \/ LoadFails \/ LoadFile
    BY <2>2, OutsideSees
  <2>3. CASE CreateRoot
    BY <2>3, CreateRootSees
  <2>4. CASE AllocImage \/ AllocStack
    BY <2>4, BackingSees
  <2>5. CASE BeginMapImage \/ ImageMapped \/ StackMapped
    BY <2>5, JobsSee
  <2>6. CASE MapUser
    BY <2>6, MapUserSees
  <2>7. CASE Stage \/ CopyImage \/ Start
    BY <2>7, TouchesSee
  <2>8. CASE Return \/ PrepareFails \/ Release
    BY <2>8, LeaveSees
  <2> QED BY <1>1, <2>1, <2>2, <2>3, <2>4, <2>5, <2>6, <2>7, <2>8 DEF Kernel
<1>2. CASE User
  <2>1. CASE RunForeground
    BY <2>1, OutsideSees
  <2>2. CASE SyscallExit \/ UserFault \/ SyscallRefused \/ SyscallReadLine
    BY <2>2, CallsSee
  <2>3. CASE SyscallWrite \/ KeyChar \/ KeyBackspace \/ KeyEnter
    BY <2>3, TouchesSee
  <2> QED BY <1>2, <2>1, <2>2, <2>3 DEF User
<1>3. CASE UNCHANGED vars
  BY <1>3, StutterView
<1> QED BY <1>1, <1>2, <1>3 DEF Next

\* In every state of every run the roots map what the code means them to map.
THEOREM RootsMap == Spec => []View
<1>1. Init => View
  BY InitView
<1>2. Inv /\ View /\ [Next]_vars => View'
  BY NextView
<1> QED BY <1>1, <1>2, PagesAreOwned, PTL DEF Spec

\* No page the kernel touches under a program's root is unmapped.
THEOREM KernelDoesNotFault == Spec => []NoKernelFault
<1>1. View => NoKernelFault
  BY DEF View, NoKernelFault
<1> QED BY <1>1, RootsMap, PTL

-----------------------------------------------------------------------------
(* What the program and the kernel find under the active root. *)

\* In ring 3 the program reaches its image and its stack, where
\* process_prepare_address_space put them, and nothing else.
THEOREM ProgramIsConfined == Spec => []UserView
<1>1. Inv /\ View => UserView
  <2> SUFFICES ASSUME Inv, View, pc = "user", NEW v \in VirtualPages
               PROVE  LET m == Mapping(cr3, v)
                          at(first, block) == block.base + (v - first)
                      IN  IF v \in ImagePages
                            THEN /\ m.u
                                 /\ m.page = at(PageOf(process.image_base),
                                                process.image_backing)
                          ELSE IF v \in StackRange
                            THEN /\ m.u /\ ~ m.x
                                 /\ m.page = at(PageOf(StackBase), process.stack_backing)
                          ELSE ~ m.u
    BY DEF UserView
  <2>1. pc \in Shown /\ Part(pc) = 3 /\ cr3 = Root
    BY Parts DEF Shown, InSpace, Inv, Active
  <2>2. PICK q, fb, c : q = Layout /\ fb = framebuffer /\ c = job.virt
    OBVIOUS
  <2>3. PICK m : m = Mapping(cr3, v) /\ m = UserSees(3, c, q, fb, v)
    <3>1. Mapping(cr3, v) = MapIn(tables, Root, v)
      BY <2>1, MappingIs
    <3>2. MapIn(tables, Root, v) = UserSees(3, c, q, fb, v)
      BY <2>1, <2>2 DEF View, UserShown
    <3> QED BY <3>1, <3>2
  <2>4. /\ OfImage(3, c, q, v) <=> v \in ImagePages
        /\ OfStack(3, c, v) <=> v \in StackRange
    BY <2>2, LayoutTyped DEF OfImage, OfStack, StackRange
  <2>5. /\ q.first = PageOf(process.image_base) /\ q.image = process.image_backing.base
        /\ q.stack = process.stack_backing.base
    BY <2>2, LayoutTyped
  <2>6. CASE v \in ImagePages
    <3>1. m = ImageEntry(q, v)
      BY <2>3, <2>4, <2>6 DEF UserSees
    <3>2. m.u /\ m.page = q.image + (v - q.first)
      BY <3>1 DEF ImageEntry, PageEntry
    <3> QED BY <2>3, <2>5, <2>6, <3>2
  <2>7. CASE v \notin ImagePages /\ v \in StackRange
    <3>1. m = StackEntry(q, v)
      BY <2>3, <2>4, <2>7 DEF UserSees
    <3>2. m.u /\ ~ m.x /\ m.page = q.stack + (v - PageOf(StackBase))
      BY <3>1 DEF StackEntry, PageEntry
    <3> QED BY <2>3, <2>5, <2>7, <3>2
  <2>8. CASE v \notin ImagePages /\ v \notin StackRange
    <3>1. m = Sees(10, 0, fb, v)
      BY <2>3, <2>4, <2>8 DEF UserSees
    <3>2. ~ m.u
      BY <3>1, SeesPlain
    <3> QED BY <2>3, <2>8, <3>2
  <2> QED BY <2>6, <2>7, <2>8
<1> QED BY <1>1, PagesAreOwned, RootsMap, PTL

\* No page of the program shares an entry of the roots with a page the kernel maps.
LEMMA KernelApart ==
  ASSUME Inv, View, pc \in InSpace,
         NEW k \in VirtualPages, MapIn(tables, g_pml4, k).kind = "page",
         NEW v \in Nat, IndexAt(v, 4) = IndexAt(k, 4)
  PROVE  v \notin ImagePages \cup StackRange
<1> SUFFICES ASSUME v \in ImagePages \cup StackRange
             PROVE  FALSE
  OBVIOUS
<1>1. UserSlot(v)
  BY DEF InSpace, Inv, UserJobs
<1>2. Root # 0 /\ pc # "pml4" /\ ~ Destroying /\ k \in Nat /\ pc # "panic"
  BY VirtualNat DEF Inv, Control, InSpace, Destroying
<1>3. PICK N, lev, M, mlev : Space(N, lev, M, mlev)
  BY <1>2, SpaceExists
<1>4. PICK i \in Slots : i = IndexAt(k, 4)
  BY <1>2, IndexFacts
<1>5. tables[g_pml4][i].kind \notin {"table", "page"}
  <2>1. /\ RootShared /\ ~ tables[g_pml4][i].u
    BY <1>3, <1>4 DEF Space
  <2>2. tables[Root][i].u
    BY <1>1, <1>4 DEF UserSlot
  <2>3. tables[g_pml4][i].kind # "page"
    BY <1>2, <1>4 DEF View, KernelSees
  <2> QED BY <1>4, <2>1, <2>2, <2>3 DEF RootShared
<1>6. EntryIn(tables, g_pml4, k) = tables[g_pml4][i]
  BY <1>4, <1>5 DEF EntryIn, StopIn, Has
<1>7. tables[g_pml4][i] \in Entry
  BY <1>3, <1>4 DEF Space, Tables, Rows
<1>8. tables[g_pml4][i].kind = "none"
  BY <1>5, <1>7 DEF Entry
<1>9. MapIn(tables, g_pml4, k) = NoEntry
  BY <1>6, <1>8 DEF MapIn, Final
<1> QED BY <1>9 DEF NoEntry

\* The mapping the kernel relies on is the one paging_init makes.
LEMMA SeesKernel ==
  ASSUME Inv, NEW c, NEW v \in 1 .. (LowLimit - 1) \cup FramebufferPages \cup MmioPages
  PROVE  Sees(10, c, framebuffer, v) = KernelMapping(v)
<1>1. PICK fb \in Framebuffers : fb = framebuffer
  BY DEF Inv, Types
<1>2. /\ Image(1, 10, c, v) <=> InSection(v, 1)
      /\ Image(2, 10, c, v) <=> InSection(v, 2)
      /\ Image(3, 10, c, v) <=> InSection(v, 3)
  BY DEF Image, Done
<1>3. Device(10, c, fb, v) <=> v \in FramebufferPages \cup MmioPages
  BY <1>1 DEF Device, Done, FramebufferPages, MmioPages
<1>4. v \notin FramebufferPages \cup MmioPages => LowMemory(10, c, v)
  BY DEF LowMemory
<1>5. /\ ~ (InSection(v, 1) /\ InSection(v, 2))
      /\ ~ (InSection(v, 1) /\ InSection(v, 3))
      /\ ~ (InSection(v, 2) /\ InSection(v, 3))
  BY ExtentFacts DEF InSection
<1>6. ASSUME NEW i \in 1 .. 3, InSection(v, i)
      PROVE  KernelMapping(v) = PageEntry(v, Sections[i].w, Sections[i].x, FALSE)
  <2>1. \A j \in 1 .. 3 : InSection(v, j) => j = i
    BY <1>5, <1>6
  <2>2. (CHOOSE j \in 1 .. 3 : InSection(v, j)) = i
    BY <1>6, <2>1
  <2> QED BY <1>6, <2>2 DEF KernelMapping
<1>7. CASE InSection(v, 1)
  <2>1. PICK e : e = PageEntry(v, Sections[1].w, Sections[1].x, FALSE)
    OBVIOUS
  <2>2. KernelMapping(v) = e
    BY <1>6, <1>7, <2>1
  <2>3. Sees(10, c, fb, v) = e
    BY <1>2, <1>5, <1>7, <2>1 DEF Sees
  <2> QED BY <1>1, <2>2, <2>3
<1>8. CASE InSection(v, 2)
  <2>1. PICK e : e = PageEntry(v, Sections[2].w, Sections[2].x, FALSE)
    OBVIOUS
  <2>2. KernelMapping(v) = e
    BY <1>6, <1>8, <2>1
  <2>3. Sees(10, c, fb, v) = e
    BY <1>2, <1>5, <1>8, <2>1 DEF Sees
  <2> QED BY <1>1, <2>2, <2>3
<1>9. CASE InSection(v, 3)
  <2>1. PICK e : e = PageEntry(v, Sections[3].w, Sections[3].x, FALSE)
    OBVIOUS
  <2>2. KernelMapping(v) = e
    BY <1>6, <1>9, <2>1
  <2>3. Sees(10, c, fb, v) = e
    BY <1>2, <1>5, <1>9, <2>1 DEF Sees
  <2> QED BY <1>1, <2>2, <2>3
<1>10. CASE ~ \E i \in 1 .. 3 : InSection(v, i)
  <2>1. ~ InSection(v, 1) /\ ~ InSection(v, 2) /\ ~ InSection(v, 3)
    BY <1>10
  <2>2. KernelMapping(v) = IF v \in FramebufferPages \cup MmioPages
                             THEN PageEntry(v, TRUE, FALSE, FALSE)
                             ELSE PageEntry(v, TRUE, TRUE, FALSE)
    BY <1>10 DEF KernelMapping
  <2>3. Sees(10, c, fb, v) = IF Device(10, c, fb, v) THEN PageEntry(v, TRUE, FALSE, FALSE)
                             ELSE IF LowMemory(10, c, v) THEN PageEntry(v, TRUE, TRUE, FALSE)
                             ELSE NoEntry
    BY <1>2, <2>1 DEF Sees
  <2> QED BY <1>1, <1>3, <1>4, <2>2, <2>3
<1>11. CASE \E i \in 1 .. 3 : InSection(v, i)
  <2>1. InSection(v, 1) \/ InSection(v, 2) \/ InSection(v, 3)
    BY <1>11
  <2> QED BY <1>7, <1>8, <1>9, <2>1
<1> QED BY <1>10, <1>11

\* Page 0 is not mapped.
LEMMA ZeroUnmapped ==
  ASSUME NEW c, NEW fb \in Framebuffers
  PROVE  Sees(10, c, fb, 0) = NoEntry
<1>1. /\ ~ InSection(0, 1) /\ ~ InSection(0, 2) /\ ~ InSection(0, 3)
  BY ExtentFacts DEF InSection
<1>2. ~ Device(10, c, fb, 0) /\ ~ LowMemory(10, c, 0)
  <2>1. fb.first \in Nat /\ fb.end \in Nat /\ (fb.first < fb.end => fb.first > 0)
    BY ExtentFacts
  <2>2. MmioRange.first \in Nat /\ MmioRange.end \in Nat /\ MmioRange.first > 0
    BY ExtentFacts
  <2> QED BY <2>1, <2>2 DEF Device, LowMemory
<1>3. ~ Image(1, 10, c, 0) /\ ~ Image(2, 10, c, 0) /\ ~ Image(3, 10, c, 0)
  BY <1>1 DEF Image
<1> QED BY <1>2, <1>3 DEF Sees

\* Whatever root is active, the kernel finds its memory where it left it.
THEOREM KernelIsMapped == Spec => []KernelView
<1>1. Inv /\ View => KernelView
  <2> SUFFICES ASSUME Inv, View, Booted
               PROVE  /\ ~ Mapped(cr3, 0)
                      /\ \A v \in 1 .. (LowLimit - 1) \cup FramebufferPages \cup MmioPages :
                           Mapping(cr3, v) = KernelMapping(v)
    BY DEF KernelView
  <2> DEFINE Own == 1 .. (LowLimit - 1) \cup FramebufferPages \cup MmioPages
  <2>1. framebuffer \in Framebuffers /\ Own \subseteq VirtualPages
    <3>1. framebuffer \in Framebuffers
      BY DEF Inv, Types
    <3>2. \A v \in FramebufferPages : v \in VirtualPages
      BY <3>1, ExtentFacts DEF FramebufferPages
    <3>3. \A v \in MmioPages : v \in VirtualPages
      BY ExtentFacts
    <3>4. \A v \in 1 .. (LowLimit - 1) : v \in VirtualPages
      BY LowPages, ExtentFacts
    <3> QED BY <3>1, <3>2, <3>3, <3>4
  <2>2. 0 \in VirtualPages /\ 1 \in Own
    BY LowPages, ExtentFacts
  <2>3. PICK fb, c : fb = framebuffer /\ c = job.virt
    OBVIOUS
  <2>4. \A v \in VirtualPages : MapIn(tables, g_pml4, v) = Sees(10, c, fb, v)
    <3>1. Place(pc) = 10 /\ pc \notin {"pml4", "panic"}
      BY LaterPlace DEF Booted, BootPhases
    <3> QED BY <2>3, <3>1 DEF View, KernelSees
  <2>5. \A v \in Own : Sees(10, c, fb, v) = KernelMapping(v)
    BY <2>3, SeesKernel
  <2>6. \A v \in Own : KernelMapping(v).kind = "page"
    BY DEF KernelMapping, PageEntry
  <2>7. Sees(10, c, fb, 0) = NoEntry
    BY <2>1, <2>3, ZeroUnmapped
  <2> HIDE DEF Own
  <2>8. CASE cr3 = g_pml4
    <3>1. \A v : Mapping(cr3, v) = MapIn(tables, g_pml4, v)
      BY <2>8, MappingIs
    <3>2. ~ Mapped(cr3, 0)
      BY <2>2, <2>4, <2>7, <3>1 DEF Mapped, NoEntry
    <3>3. \A v \in Own : Mapping(cr3, v) = KernelMapping(v)
      BY <2>1, <2>4, <2>5, <3>1
    <3> QED BY <3>2, <3>3 DEF Own
  <2>9. CASE pc \in InSpace
    <3>1. pc \in Shown /\ Part(pc) = 3 /\ cr3 = Root
      BY <2>9, Parts DEF Shown, InSpace, Inv, Active
    <3>2. PICK q : q = Layout
      OBVIOUS
    <3>3. ASSUME NEW v \in VirtualPages, NEW k \in Own, IndexAt(v, 4) = IndexAt(k, 4)
          PROVE  Mapping(cr3, v) = Sees(10, c, fb, v)
      <4>1. k \in VirtualPages /\ MapIn(tables, g_pml4, k).kind = "page" /\ v \in Nat
        BY <2>1, <2>4, <2>5, <2>6, <3>3, VirtualNat
      <4>2. v \notin ImagePages \cup StackRange
        BY <2>9, <3>3, <4>1, KernelApart
      <4>3. ~ OfImage(3, c, q, v) /\ ~ OfStack(3, c, v)
        BY <3>2, <4>2, LayoutTyped DEF OfImage, OfStack, StackRange
      <4>4. UserSees(3, c, q, fb, v) = Sees(10, 0, fb, v)
        BY <4>3 DEF UserSees
      <4>5. MapIn(tables, Root, v) = UserSees(3, c, q, fb, v)
        BY <2>3, <3>1, <3>2 DEF View, UserShown
      <4>6. Mapping(cr3, v) = MapIn(tables, Root, v)
        BY <3>1, MappingIs
      <4>7. Sees(10, 0, fb, v) = Sees(10, c, fb, v)
        BY SeesEnd
      <4> QED BY <4>4, <4>5, <4>6, <4>7
    <3>4. \A v \in Own : Mapping(cr3, v) = KernelMapping(v)
      BY <2>1, <2>5, <3>3
    <3>5. IndexAt(0, 4) = IndexAt(1, 4)
      <4>1. Span(4) \in Nat /\ Span(4) > 1
        <5>1. TableEntries \in Nat /\ TableEntries > 1
          BY ExtentFacts
        <5>2. TableEntries * TableEntries \in Nat /\ TableEntries * TableEntries > 1
          BY <5>1
        <5>3. TableEntries * TableEntries * TableEntries \in Nat
              /\ TableEntries * TableEntries * TableEntries > 1
          BY <5>1, <5>2
        <5> QED BY <5>3 DEF Span
      <4> DEFINE n == Span(4)
      <4>2. n \in Nat /\ n > 1
        BY <4>1
      <4> HIDE DEF n
      <4>3. 0 \div n = 0 /\ 1 \div n = 0
        BY <4>2
      <4> QED BY <4>3 DEF IndexAt, n
    <3>6. Mapping(cr3, 0) = NoEntry
      BY <2>2, <2>7, <3>3, <3>5
    <3> QED BY <3>4, <3>6 DEF Mapped, NoEntry, Own
  <2>10. cr3 = g_pml4 \/ pc \in InSpace
    BY DEF View, Inv, Active, Booted, BootPhases
  <2> QED BY <2>8, <2>9, <2>10 DEF Own
<1> QED BY <1>1, PagesAreOwned, RootsMap, PTL

=============================================================================
