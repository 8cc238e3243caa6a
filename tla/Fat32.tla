------------------------------- MODULE Fat32 -------------------------------
(***************************************************************************)
(* The FAT32 file system of the kernel (kernel/fat32.c).                   *)
(*                                                                         *)
(* The kernel is single-threaded, so between two disk writes of an         *)
(* operation nothing else runs.  What can happen is that a write fails, or *)
(* that the machine stops and the volume is mounted again.  An operation   *)
(* is therefore modelled as the sequence of its disk writes: the operators *)
(* named after the functions of fat32.c compute, from the FAT in memory    *)
(* and the disk, that sequence and the result, and each write is a step of *)
(* its own.                                                                *)
(*                                                                         *)
(* A cluster is a sequence of cells.  A cell is a directory entry or a     *)
(* unit of file data; the zero cell is both the entry that ends a          *)
(* directory and zeroed data.  Names are upper-case: path_normalize folds  *)
(* every path the kernel uses.                                             *)
(***************************************************************************)
EXTENDS Integers, Sequences, FiniteSets, SequencesExt

CONSTANTS
  Clusters,      \* the data clusters, 2 .. g_total_clusters - 1
  Root,          \* g_root_cluster
  ClusterCells,  \* cells to a cluster
  FatSectors,    \* the sectors of the FAT: which clusters each one describes
  ExactShort,    \* the 8.3 form of the names that have one
  Alias,         \* the names build_short_alias makes of a name, by ordinal
  LfnCount,      \* lfn_entry_count_for_name
  Volumes,       \* the volumes that may be mounted first: [fat, disk]
  Paths,         \* the paths whose contents are followed
  Requests,      \* the operations the shell asks for
  MaxSize,       \* bound: the longest file
  MaxOps,        \* bound: the number of operations
  MaxCrashes,    \* bound: how often the machine stops
  MaxIoErrors    \* bound: how many reads or writes fail

\* A name has at most FAT32_MAX_NAME_ENTRIES entries, fewer than the smallest
\* cluster has room for, and "." and ".." fit into one.
ASSUME NamesFit ==
  /\ ClusterCells >= 2
  /\ \A n \in DOMAIN LfnCount : LfnCount[n] + 1 <= ClusterCells
ASSUME RootIsCluster == Root \in Clusters

VARIABLES
  mounted,       \* g_mounted
  g_fat,         \* the FAT in memory
  fat,           \* its first copy on the disk, the one fat32_mount reads
  disk,          \* the data clusters on the disk
  request,       \* the operation under way
  todo,          \* the disk writes it has still to make
  outcome,       \* the FAT in memory and the result it ends with
  reply,         \* the result of the last operation
  ops, crashes, io_errors,   \* what the bounds count
  files,         \* ghost: the tree that is read between operations
  damaged,       \* ghost: the paths an interrupted operation was working on
  lost           \* ghost: the allocated clusters that nothing refers to

diskVars == <<fat, disk>>
opVars == <<request, todo, outcome>>
ghostVars == <<files, damaged, lost>>
countVars == <<ops, crashes, io_errors>>
vars == <<mounted, g_fat, diskVars, opVars, reply, countVars, ghostVars>>

-----------------------------------------------------------------------------
(* Cells of a directory.                                                   *)

EndOfChain == 268435448     \* FAT32_END_OF_CHAIN; 0 is a free cluster

End          == [kind |-> "end"]
Data(value)  == [kind |-> "data", value |-> value]
Deleted(lfn) == [kind |-> "deleted", lfn |-> lfn]
Entry(short, dir, first, size) ==
  [kind |-> "entry", short |-> short, dir |-> dir, first |-> first, size |-> size]

\* A part of a long name.  The checksum of the short name it belongs to is
\* represented by that short name.
Lfn(name, order, last, short) ==
  [kind |-> "lfn", name |-> name, order |-> order, last |-> last, short |-> short]

Zeros == [i \in 1 .. ClusterCells |-> End]

IsFree(cell)  == cell.kind \in {"end", "deleted"}
IsLfn(cell)   == cell.kind = "lfn" \/ cell = Deleted(TRUE)

Least(S) == CHOOSE n \in S : \A k \in S : n <= k
Most(S)  == CHOOSE n \in S : \A k \in S : n >= k

\* A loop of n rounds over x.
Loop(x, n, Round(_, _)) ==
  LET after[i \in 0 .. n] == IF i = 0 THEN x ELSE Round(after[i - 1], i)
  IN  after[n]

-----------------------------------------------------------------------------
(* Chains.                                                                 *)

is_valid_data_cluster(c) == c \in Clusters

fat32_next_cluster(f, c) ==
  IF is_valid_data_cluster(c) THEN f[c] ELSE EndOfChain

\* The clusters a walk from `first' visits; a walk that does not end stops
\* after as many rounds as there are clusters.
Chain(f, first) ==
  LET Go(seen, i, next) ==
        IF Len(seen) = i - 1 /\ is_valid_data_cluster(next)
          THEN Append(seen, next) ELSE seen
      Visit(seen, i) ==
        Go(seen, i, IF seen = <<>> THEN first
                    ELSE fat32_next_cluster(f, seen[Len(seen)]))
  IN  Loop(<<>>, Cardinality(Clusters), Visit)

FreeClusters(f) == {c \in Clusters : f[c] = 0}
find_free_cluster(f) == Least(FreeClusters(f))

\* Mutant: the walk reads the next cluster after it has freed this one.
free_cluster_chain_in_memory_First(f, first) ==
  IF is_valid_data_cluster(first) THEN [f EXCEPT ![first] = 0] ELSE f

free_cluster_chain_in_memory(f, first) ==
  [c \in Clusters |-> IF c \in ToSet(Chain(f, first)) THEN 0 ELSE f[c]]

clusters_for_size(size) == (size + ClusterCells - 1) \div ClusterCells

-----------------------------------------------------------------------------
(* An operation in progress, m: the FAT in memory and the disk as they are *)
(* once the writes in m.log are made, the result so far, and the values    *)
(* the functions return by reference.                                      *)

Machine(f, d) ==
  [fat |-> f, disk |-> d, log |-> <<>>, result |-> "OK", first |-> 0, slot |-> 0]

Now == Machine(g_fat, disk)

Fails(m, result) == [m EXCEPT !.result = result]
Then(m, Stage(_)) == IF m.result = "OK" THEN Stage(m) ELSE m

\* One disk write.  `fat' is g_fat when it is made, `onfail' what the code
\* leaves in g_fat when it fails; `grows' marks the writes that enlarge a
\* directory.
Step(to, at, cells, f, onfail, grows) ==
  [to |-> to, at |-> at, cells |-> cells, fat |-> f, onfail |-> onfail,
   grows |-> grows]

WriteCluster(m, c, cells, onfail, grows) ==
  [m EXCEPT !.disk[c] = cells,
            !.log = Append(@, Step("cluster", c, cells, m.fat, onfail, grows))]

\* Mutant: the first copy is skipped.
flush_fat_Mirror(m, grows) ==
  [m EXCEPT !.log = Append(@, Step("mirror", 1, <<>>, m.fat, m.fat, grows))]

\* flush_fat writes the sectors of the first copy, then the other copies,
\* which nothing ever reads.
flush_fat(m, grows) ==
  [m EXCEPT !.log = @ \o
     [i \in 1 .. (Len(FatSectors) + 1) |->
        Step(IF i <= Len(FatSectors) THEN "fat" ELSE "mirror",
             i, <<>>, m.fat, m.fat, grows)]]

zero_cluster(m, c, onfail, grows) == WriteCluster(m, c, Zeros, onfail, grows)

\* f with the clusters of a sequence linked into a chain.
Linked(f, new) ==
  [c \in Clusters |->
     IF c \notin ToSet(new) THEN f[c]
     ELSE IF c = Last(new) THEN EndOfChain
     ELSE new[1 + CHOOSE i \in DOMAIN new : new[i] = c]]

\* Links and zeroes the clusters; when a write fails they are freed again.
ZeroChain(m, new) ==
  LET Zero(x, i) == zero_cluster(x, new[i], m.fat, FALSE)
  IN  [Loop([m EXCEPT !.fat = Linked(@, new)], Len(new), Zero) EXCEPT !.first = new[1]]

allocate_cluster_chain(m, count) ==
  LET Take(taken, i) == Append(taken, Least(FreeClusters(m.fat) \ ToSet(taken)))
  IN  IF Cardinality(FreeClusters(m.fat)) < count THEN Fails(m, "NO_SPACE")
      ELSE ZeroChain(m, Loop(<<>>, count, Take))

\* Mutant: the new cluster is linked but not marked as used.
append_cluster_to_chain_NotMarked(m, first) ==
  IF FreeClusters(m.fat) = {} THEN Fails(m, "NO_SPACE")
  ELSE LET new == find_free_cluster(m.fat)
       IN  [m EXCEPT !.fat[Last(Chain(m.fat, first))] = new, !.slot = new]

\* Links a free cluster, which it leaves in m.slot, behind the last of a
\* chain.
append_cluster_to_chain(m, first) ==
  IF FreeClusters(m.fat) = {} THEN Fails(m, "NO_SPACE")
  ELSE LET new == find_free_cluster(m.fat)
       IN  [m EXCEPT !.fat[new] = EndOfChain,
                     !.fat[Last(Chain(m.fat, first))] = new,
                     !.slot = new]

\* A cluster that cannot be zeroed is freed, but stays linked.
ensure_cluster_chain_length(m, current, required) ==
  LET Zero(x) == zero_cluster(x, x.slot, [x.fat EXCEPT ![x.slot] = 0], FALSE)
      Grow(x, i) ==
        IF x.result = "OK" THEN Then(append_cluster_to_chain(x, x.first), Zero) ELSE x
  IN  IF required <= current THEN m
      ELSE IF current = 0 THEN allocate_cluster_chain(m, required)
      ELSE Loop(m, required - current, Grow)

\* f with the first n clusters of a chain kept and the others freed.
Cut(f, chain, n) ==
  [c \in Clusters |->
     IF c = chain[n] THEN EndOfChain
     ELSE IF \E i \in (n + 1) .. Len(chain) : c = chain[i] THEN 0
     ELSE f[c]]

trim_cluster_chain(m, required) ==
  IF required = 0
    THEN [m EXCEPT !.fat = free_cluster_chain_in_memory(@, m.first), !.first = 0]
  ELSE IF m.first = 0 THEN m
  ELSE IF Len(Chain(m.fat, m.first)) < required THEN Fails(m, "IO_ERROR")
  ELSE [m EXCEPT !.fat = Cut(@, Chain(@, m.first), required)]

\* One write per cluster of the chain that the bytes from `offset' on touch.
FillChain(m, chain, offset, data) ==
  LET from == offset \div ClusterCells
      upto == (offset + Len(data) - 1) \div ClusterCells
      byte(k, i) == (from + k - 1) * ClusterCells + i - offset
      Piece(x, k) ==
        WriteCluster(x, chain[from + k],
          [i \in 1 .. ClusterCells |->
             IF byte(k, i) \in DOMAIN data THEN Data(data[byte(k, i)])
             ELSE x.disk[chain[from + k]][i]],
          x.fat, FALSE)
      Fill(x, k) == IF from + k \in DOMAIN chain THEN Piece(x, k)
                    ELSE Fails(x, "IO_ERROR")
  IN  Loop(m, upto - from + 1, Fill)

write_data_to_chain(m, offset, data) ==
  IF data = <<>> THEN m ELSE FillChain(m, Chain(m.fat, m.first), offset, data)

-----------------------------------------------------------------------------
(* Directories.  The cells of all the clusters of a directory in a row;    *)
(* indices start at 1.                                                     *)

\* The i-th cell of the clusters of a chain.
ClusterIndex(i) == 1 + ((i - 1) \div ClusterCells)
CellIndex(i)    == 1 + ((i - 1) % ClusterCells)
CellAt(d, chain, i) == d[chain[ClusterIndex(i)]][CellIndex(i)]

CellsOf(d, chain) ==
  [i \in 1 .. (ClusterCells * Len(chain)) |-> CellAt(d, chain, i)]
Cells(m, dir) == CellsOf(m.disk, Chain(m.fat, dir))

\* Scans stop at the first zero entry.
Scanned(cells) ==
  {i \in DOMAIN cells : \A k \in 1 .. i : cells[k] # End}

\* The entries of the long name that belong to the entry at i, if any: from
\* the one marked last down to order 1, all with its checksum.
LfnRuns(cells, i) ==
  {n \in 1 .. (i - 1) :
     \A k \in 1 .. n :
       /\ cells[i - k].kind = "lfn"
       /\ cells[i - k].order = k
       /\ cells[i - k].last <=> k = n
       /\ cells[i - k].short = cells[i].short
       /\ cells[i - k].name = cells[i - 1].name}

decode_directory_entry_name(cells, i) ==
  IF LfnRuns(cells, i) # {} THEN cells[i - 1].name ELSE cells[i].short

\* The loop counts every long-name entry before the entry at i, deleted ones
\* included.
lfn_entry_count(cells, i) ==
  IF LfnRuns(cells, i) = {} THEN 0
  ELSE Most({n \in 1 .. (i - 1) : \A k \in 1 .. n : IsLfn(cells[i - k])})

\* The EntryRef of the entry of a name.
RefAt(cells, at) ==
  IF at = {} THEN [found |-> FALSE, index |-> 0, lfns |-> 0,
                   entry |-> Entry("", FALSE, 0, 0)]
  ELSE LET i == Least(at)
       IN  [found |-> TRUE, index |-> i, lfns |-> lfn_entry_count(cells, i),
            entry |-> cells[i]]
RefIn(cells, name) ==
  RefAt(cells, {i \in Scanned(cells) :
                  /\ cells[i].kind = "entry"
                  /\ decode_directory_entry_name(cells, i) = name})
find_entry_in_cluster_dir(m, dir, name) == RefIn(Cells(m, dir), name)

WriteCell(m, c, index, cell) ==
  WriteCluster(m, c, [m.disk[c] EXCEPT ![CellIndex(index)] = cell], m.fat, FALSE)
write_directory_entry(m, dir, index, cell) ==
  WriteCell(m, Chain(m.fat, dir)[ClusterIndex(index)], index, cell)

write_entry_span_at(m, dir, start, entries) ==
  LET Put(x, i) == write_directory_entry(x, dir, start + i - 1, entries[i])
  IN  Loop(m, Len(entries), Put)

mark_entry_range_deleted(m, dir, start, count) ==
  LET Delete(x, i) ==
        write_directory_entry(x, dir, start + i - 1,
                              Deleted(IsLfn(Cells(m, dir)[start + i - 1])))
  IN  Loop(m, count, Delete)

\* The entry's own cells: its long-name entries and itself.
mark_entry_deleted(m, dir, ref) ==
  mark_entry_range_deleted(m, dir, ref.index - ref.lfns, ref.lfns + 1)

FreeRuns(cells, needed) ==
  {s \in 1 .. (Len(cells) - needed + 1) :
     \A k \in s .. (s + needed - 1) : IsFree(cells[k])}

\* Where the run of free entries at the end of a directory begins.
TailRun(cells) ==
  Least({s \in 1 .. (Len(cells) + 1) : \A k \in s .. Len(cells) : IsFree(cells[k])})

\* Mutant: the FAT is not written when a directory grows.
GrowDirectory_NoFlush(m, dir, slot) ==
  LET Zero(x) == [zero_cluster(x, x.slot, x.fat, TRUE) EXCEPT !.slot = slot]
  IN  Then(append_cluster_to_chain(m, dir), Zero)

\* The directory grows by a cluster and the run at its end goes on there.  A
\* cluster that cannot be zeroed stays linked as it is.
GrowDirectory(m, dir, slot) ==
  LET Zero(x)  == zero_cluster(x, x.slot, x.fat, TRUE)
      Flush(x) == [flush_fat(x, TRUE) EXCEPT !.slot = slot]
  IN  Then(Then(append_cluster_to_chain(m, dir), Zero), Flush)

\* Leaves the first run of free entries that is long enough in m.slot.
find_free_entry_in_cluster_dir(m, dir, needed) ==
  IF FreeRuns(Cells(m, dir), needed) # {}
    THEN [m EXCEPT !.slot = Least(FreeRuns(Cells(m, dir), needed))]
    ELSE GrowDirectory(m, dir, TailRun(Cells(m, dir)))

EntriesIn(cells) == {cells[i] : i \in {k \in Scanned(cells) : cells[k].kind = "entry"}}

directory_is_empty(m, dir) ==
  \A e \in EntriesIn(Cells(m, dir)) : e.short \in {".", ".."}

-----------------------------------------------------------------------------
(* Names.                                                                  *)

short_names(m, dir) == {e.short : e \in EntriesIn(Cells(m, dir))}

FreeAlias(name, taken) ==
  Alias[name][Least({o \in DOMAIN Alias[name] : Alias[name][o] \notin taken})]

\* The entries of a name: its long-name entries, if any, and the entry.
NameEntries(name, lfns, entry) ==
  [i \in 1 .. (lfns + 1) |->
     IF i <= lfns THEN Lfn(name, lfns - i + 1, i = 1, entry.short) ELSE entry]

\* Mutant: an 8.3 name is used as it is, also when it is taken.
build_name_entries_Exact(name, entry, taken) ==
  IF name \in DOMAIN ExactShort
    THEN NameEntries(name, 0, [entry EXCEPT !.short = ExactShort[name]])
    ELSE NameEntries(name, LfnCount[name],
                     [entry EXCEPT !.short = FreeAlias(name, taken)])

\* A name that is no 8.3 name, or whose 8.3 form is taken, gets the first
\* free alias and long-name entries.
build_name_entries(name, entry, taken) ==
  IF name \in DOMAIN ExactShort /\ ExactShort[name] \notin taken
    THEN NameEntries(name, 0, [entry EXCEPT !.short = ExactShort[name]])
    ELSE NameEntries(name, LfnCount[name],
                     [entry EXCEPT !.short = FreeAlias(name, taken)])

RootEntry == Entry("", TRUE, Root, 0)

\* The entry at a path, given by its names, with the result of the walk.
resolve_path(m, names) ==
  LET Enter(x, ref) == IF ref.found THEN [x EXCEPT !.entry = ref.entry]
                       ELSE [x EXCEPT !.result = "NOT_FOUND"]
      Component(x, i) ==
        IF x.result # "OK" THEN x
        ELSE IF ~ x.entry.dir THEN [x EXCEPT !.result = "NOT_A_DIRECTORY"]
        ELSE Enter(x, find_entry_in_cluster_dir(m, x.entry.first, names[i]))
  IN  Loop([result |-> "OK", entry |-> RootEntry], Len(names), Component)

\* resolve_directory of the parent of a path.
lookup_parent_and_name(m, path) ==
  LET Check(parent) == IF parent.result = "OK" /\ ~ parent.entry.dir
                         THEN [parent EXCEPT !.result = "NOT_A_DIRECTORY"]
                         ELSE parent
  IN  IF path = <<>> THEN [result |-> "INVALID_NAME", entry |-> RootEntry]
      ELSE Check(resolve_path(m, SubSeq(path, 1, Len(path) - 1)))

\* How every operation begins: the parent directory of the path, the name,
\* and the entry of that name in the directory.
RefBelow(m, parent, path) ==
  IF parent.result # "OK"
    THEN [result |-> parent.result, dir |-> 0, name |-> "", ref |-> RefAt(<<>>, {})]
    ELSE [result |-> "OK", dir |-> parent.entry.first, name |-> Last(path),
          ref |-> find_entry_in_cluster_dir(m, parent.entry.first, Last(path))]
LookUp(m, path) == RefBelow(m, lookup_parent_and_name(m, path), path)

path_is_descendant_of(path, parent) == IsPrefix(parent, path)

-----------------------------------------------------------------------------
(* The operations, on what LookUp found.                                   *)

\* The entries of a new name into the directory, wherever there is room.
PlaceEntries(m, dir, entries) ==
  LET Span(x) == write_entry_span_at(x, dir, x.slot, entries)
  IN  Then(find_free_entry_in_cluster_dir(m, dir, Len(entries)), Span)

fat32_write_file(m, p, data, append) ==
  LET old    == p.ref.entry
      offset == IF append THEN old.size ELSE 0
      size   == offset + Len(data)
      Ensure(x) == ensure_cluster_chain_length(x, clusters_for_size(old.size),
                                               clusters_for_size(size))
      Trim(x)   == IF append THEN x
                   ELSE trim_cluster_chain(x, clusters_for_size(size))
      Flush(x)  == flush_fat(x, FALSE)
      Fill(x)   == write_data_to_chain(x, offset, data)
      Update(x) ==
        IF p.ref.found
          THEN write_directory_entry(x, p.dir, p.ref.index,
                 [old EXCEPT !.first = x.first, !.size = size])
          ELSE PlaceEntries(x, p.dir,
                 build_name_entries(p.name, Entry("", FALSE, x.first, size),
                                    short_names(x, p.dir)))
  IN  IF p.result # "OK" THEN Fails(m, p.result)
      ELSE IF old.dir THEN Fails(m, "IS_A_DIRECTORY")
      ELSE Then(Then(Then(Then(Then([m EXCEPT !.first = old.first],
                                    Ensure), Trim), Flush), Fill), Update)

\* What ".." of a directory in dir says.
DotDot(dir) == IF dir = Root THEN 0 ELSE dir

fat32_make_dir(m, p) ==
  LET Flush(x) == flush_fat(x, FALSE)
      Dots(x) ==
        WriteCluster(x, x.first,
          [Zeros EXCEPT ![1] = Entry(".", TRUE, x.first, 0),
                        ![2] = Entry("..", TRUE, DotDot(p.dir), 0)],
          x.fat, FALSE)
      Add(x) == PlaceEntries(x, p.dir,
                  build_name_entries(p.name, Entry("", TRUE, x.first, 0),
                                     short_names(x, p.dir)))
  IN  IF p.result # "OK" THEN Fails(m, p.result)
      ELSE IF p.ref.found THEN Fails(m, "ALREADY_EXISTS")
      ELSE Then(Then(Then(allocate_cluster_chain(m, 1), Flush), Dots), Add)

RemoveRefused(m, p) ==
  IF p.result # "OK" THEN p.result
  ELSE IF ~ p.ref.found THEN "NOT_FOUND"
  ELSE IF p.ref.entry.dir /\ ~ directory_is_empty(m, p.ref.entry.first)
    THEN "DIRECTORY_NOT_EMPTY"
  ELSE "OK"

FreeChain(m, first) ==
  flush_fat([m EXCEPT !.fat = free_cluster_chain_in_memory(@, first)], FALSE)

\* Mutant: the clusters go first.
RemoveNode_ClustersFirst(m, p) ==
  mark_entry_deleted(FreeChain(m, p.ref.entry.first), p.dir, p.ref)

\* The entry goes first, its clusters after it.
RemoveNode(m, p) ==
  FreeChain(mark_entry_deleted(m, p.dir, p.ref), p.ref.entry.first)

fat32_remove(m, p) ==
  IF RemoveRefused(m, p) # "OK" THEN Fails(m, RemoveRefused(m, p))
  ELSE RemoveNode(m, p)

\* Mutant: what is left of the old name's entries stays.
RenameInPlace_Rest(m, p, entries) ==
  write_entry_span_at(m, p.dir, p.ref.index - p.ref.lfns, entries)

\* In place when the new name needs no more entries than the old one.
RenameInPlace(m, p, entries) ==
  mark_entry_range_deleted(
    write_entry_span_at(m, p.dir, p.ref.index - p.ref.lfns, entries),
    p.dir, p.ref.index - p.ref.lfns + Len(entries), p.ref.lfns + 1 - Len(entries))

\* Otherwise the new entries are placed first, then the old ones go.
RenameEntries(m, p, q, entries) ==
  LET Delete(x) == mark_entry_deleted(x, p.dir, p.ref)
  IN  IF p.dir = q.dir /\ Len(entries) <= p.ref.lfns + 1
        THEN RenameInPlace(m, p, entries)
        ELSE Then(PlaceEntries(m, q.dir, entries), Delete)

update_directory_parent(m, dir, parent) ==
  WriteCluster(m, dir, [m.disk[dir] EXCEPT ![2].first = DotDot(parent)], m.fat, FALSE)

\* p and q are what LookUp found for the path and for its new name.
fat32_rename(m, path, to, p, q) ==
  LET taken == short_names(m, q.dir) \
                 (IF p.dir = q.dir THEN {p.ref.entry.short} ELSE {})
      Parent(x) == IF p.ref.entry.dir
                     THEN update_directory_parent(x, p.ref.entry.first, q.dir) ELSE x
  IN  IF path = to THEN m
      ELSE IF p.result # "OK" THEN Fails(m, p.result)
      ELSE IF q.result # "OK" THEN Fails(m, q.result)
      ELSE IF ~ p.ref.found THEN Fails(m, "NOT_FOUND")
      ELSE IF /\ p.ref.entry.dir
              /\ path_is_descendant_of(SubSeq(to, 1, Len(to) - 1), path)
        THEN Fails(m, "INVALID_NAME")
      ELSE IF q.ref.found THEN Fails(m, "ALREADY_EXISTS")
      ELSE Then(RenameEntries(m, p, q, build_name_entries(q.name, p.ref.entry, taken)),
                Parent)

Operation(m, r) ==
  CASE r.op = "write"  -> fat32_write_file(m, LookUp(m, r.path), r.data, FALSE)
    [] r.op = "append" -> fat32_write_file(m, LookUp(m, r.path), r.data, TRUE)
    [] r.op = "mkdir"  -> fat32_make_dir(m, LookUp(m, r.path))
    [] r.op = "remove" -> fat32_remove(m, LookUp(m, r.path))
    [] r.op = "rename" -> fat32_rename(m, r.path, r.to,
                                       LookUp(m, r.path), LookUp(m, r.to))

-----------------------------------------------------------------------------
(* What a reader sees: fat32_stat and fat32_read_file.                     *)

Store == INSTANCE FileStore WITH
           Siblings <- LAMBDA n : ToSet(Alias[n])

ValueOf(cell) == IF cell.kind = "data" THEN cell.value ELSE cell.kind

ReadChain(d, chain, size) ==
  IF Len(chain) < clusters_for_size(size) THEN [kind |-> "unreadable"]
  ELSE Store!File([i \in 1 .. size |-> ValueOf(CellAt(d, chain, i))])

fat32_read_file(m, entry) ==
  ReadChain(m.disk, Chain(m.fat, entry.first), entry.size)

NodeOf(m, r) ==
  IF r.result # "OK" THEN Store!None
  ELSE IF r.entry.dir THEN Store!Directory
  ELSE fat32_read_file(m, r.entry)

fat32_stat(m, p) == NodeOf(m, resolve_path(m, p))

\* The tree that is on the disk d under the FAT f, but for damaged paths.
Tree(f, d, gone) ==
  [p \in Store!Intact(gone) |-> fat32_stat(Machine(f, d), p)]

-----------------------------------------------------------------------------
(* Bookkeeping of the model.                                               *)

\* What a cluster holds that is free in memory and on the disk does not
\* matter any more; whoever reads it reads junk.
Junk == [i \in 1 .. ClusterCells |-> [kind |-> "junk"]]
Forget(d, f, g) ==
  [c \in Clusters |-> IF f[c] = 0 /\ g[c] = 0 THEN Junk ELSE d[c]]

\* The entries of a directory that refer to a file or a directory.
Children(m, dir) == {e \in EntriesIn(Cells(m, dir)) : e.short \notin {".", ".."}}
DirectoriesOf(m) ==
  LET Level(S, i) == S \cup UNION {{e.first : e \in {x \in Children(m, d) : x.dir}} :
                                    d \in S}
  IN  Loop({Root}, Cardinality(Clusters), Level)
ChainsOf(m) ==
  {Root} \cup {e.first : e \in UNION {Children(m, d) : d \in DirectoriesOf(m)}}

\* The allocated clusters that no entry leads to.
LostClusters(m) ==
  {c \in Clusters : m.fat[c] # 0} \ UNION {ToSet(Chain(m.fat, f)) : f \in ChainsOf(m)}

NoOutcome == [fat |-> <<>>, result |-> "OK"]

-----------------------------------------------------------------------------
Init ==
  /\ \E v \in Volumes : fat = v.fat /\ disk = Forget(v.disk, v.fat, v.fat)
  /\ mounted = FALSE
  /\ g_fat = [c \in Clusters |-> 0]
  /\ request = Store!NoRequest
  /\ todo = <<>>
  /\ outcome = NoOutcome
  /\ reply = "OK"
  /\ ops = 0
  /\ crashes = 0
  /\ io_errors = 0
  /\ files = Tree(fat, disk, {})
  /\ damaged = {}
  /\ lost = {}

\* fat32_mount of a sound volume.
Mount ==
  /\ ~ mounted
  /\ mounted' = TRUE
  /\ g_fat' = fat
  /\ files' = Tree(g_fat', disk, damaged)
  /\ UNCHANGED <<diskVars, opVars, reply, countVars, damaged, lost>>

Begin(r) ==
  LET m == Operation(Now, r)
  IN  /\ mounted
      /\ request = Store!NoRequest
      /\ ops < MaxOps
      /\ Store!AvoidsDamage(damaged, r)
      /\ Store!WithinBounds(files, r)
      /\ request' = r
      /\ todo' = m.log
      /\ outcome' = [fat |-> m.fat, result |-> m.result]
      /\ ops' = ops + 1
      /\ UNCHANGED <<mounted, g_fat, diskVars, reply, crashes, io_errors, ghostVars>>

Write ==
  /\ todo # <<>>
  /\ LET s == Head(todo)
     IN  /\ g_fat' = s.fat
         /\ disk' = IF s.to = "cluster" THEN [disk EXCEPT ![s.at] = s.cells] ELSE disk
         /\ fat' = IF s.to # "fat" THEN fat
                   ELSE [c \in Clusters |->
                           IF c \in FatSectors[s.at] THEN s.fat[c] ELSE fat[c]]
  /\ todo' = Tail(todo)
  /\ UNCHANGED <<mounted, request, outcome, reply, countVars, ghostVars>>

\* The operation returns to its caller.
Finish ==
  /\ request # Store!NoRequest
  /\ todo = <<>>
  /\ g_fat' = outcome.fat
  /\ reply' = outcome.result
  /\ disk' = Forget(disk, fat, g_fat')
  /\ request' = Store!NoRequest
  /\ outcome' = NoOutcome
  /\ files' = Tree(g_fat', disk', damaged)
  /\ lost' = LostClusters(Machine(g_fat', disk'))
  /\ UNCHANGED <<mounted, fat, todo, countVars, damaged>>

\* The operation under way is cut short.
Interrupt ==
  /\ request' = Store!NoRequest
  /\ todo' = <<>>
  /\ outcome' = NoOutcome
  /\ reply' = "IO_ERROR"
  /\ damaged' = damaged \cup Store!Affected(request)
                \cup (IF todo # <<>> /\ Head(todo).grows THEN Store!Grown(request) ELSE {})

\* A disk write fails and the operation returns.
WriteFails ==
  /\ io_errors < MaxIoErrors
  /\ todo # <<>>
  /\ g_fat' = Head(todo).onfail
  /\ disk' = Forget(disk, fat, g_fat')
  /\ io_errors' = io_errors + 1
  /\ Interrupt
  /\ files' = Tree(g_fat', disk', damaged')
  /\ UNCHANGED <<mounted, fat, ops, crashes, lost>>

\* A read fails.  Clusters are read before they are written, but not when
\* new ones are zeroed or the FAT is flushed.
ReadFails ==
  /\ io_errors < MaxIoErrors
  /\ todo # <<>>
  /\ Head(todo).to = "cluster"
  /\ Head(todo).cells = Zeros => Head(todo).grows
  /\ disk' = Forget(disk, fat, g_fat)
  /\ io_errors' = io_errors + 1
  /\ Interrupt
  /\ files' = Tree(g_fat, disk', damaged')
  /\ UNCHANGED <<mounted, g_fat, fat, ops, crashes, lost>>

\* directory_is_empty takes a directory it cannot read for one that is not
\* empty; nothing has been written yet.
EmptyReadFails ==
  /\ io_errors < MaxIoErrors
  /\ request.op = "remove"
  /\ todo # <<>>
  /\ LET p == LookUp(Now, request.path)
     IN  p.result = "OK" /\ p.ref.found /\ p.ref.entry.dir
  /\ io_errors' = io_errors + 1
  /\ reply' = "DIRECTORY_NOT_EMPTY"
  /\ request' = Store!NoRequest
  /\ todo' = <<>>
  /\ outcome' = NoOutcome
  /\ UNCHANGED <<mounted, g_fat, diskVars, ops, crashes, ghostVars>>

\* The machine stops, with or without an operation under way.
Crash ==
  /\ crashes < MaxCrashes
  /\ mounted
  /\ mounted' = FALSE
  /\ g_fat' = [c \in Clusters |-> 0]
  /\ disk' = Forget(disk, fat, fat)
  /\ crashes' = crashes + 1
  /\ \/ request # Store!NoRequest /\ Interrupt
     \/ request = Store!NoRequest /\ UNCHANGED <<opVars, reply, damaged>>
  /\ files' = Tree(fat, disk', damaged')
  /\ UNCHANGED <<fat, ops, io_errors, lost>>

Next ==
  \/ Mount
  \/ \E r \in Requests : Begin(r)
  \/ Write \/ Finish
  \/ WriteFails \/ ReadFails \/ EmptyReadFails \/ Crash

Spec == Init /\ [][Next]_vars

-----------------------------------------------------------------------------
(* Properties.                                                             *)

Idle == mounted /\ request = Store!NoRequest

\* The nodes that are not damaged, as paths with their entries.
IntactEntries ==
  LET found == [p \in Store!Intact(damaged) |-> resolve_path(Now, p)]
  IN  {<<p, found[p].entry>> : p \in {q \in DOMAIN found : found[q].result = "OK"}}

\* A chain that ends, visits no cluster twice and holds `needed' clusters.
Proper(chain, needed) ==
  /\ Len(chain) >= needed
  /\ Cardinality(ToSet(chain)) = Len(chain)
  /\ chain # <<>> => g_fat[Last(chain)] = EndOfChain
ClustersNeeded(entry) == IF entry.dir THEN 1 ELSE clusters_for_size(entry.size)

\* Between operations every file and directory has a chain of its own, as
\* long as its size says: no cluster belongs to two of them, none is free
\* while it is in use, and no chain runs into another.  Interrupted
\* operations may damage this only for the paths they named.
ChainsSeparate ==
  Idle =>
    LET extents == {<<e, Chain(g_fat, e[2].first)>> : e \in IntactEntries}
    IN  /\ \A x \in extents : Proper(x[2], ClustersNeeded(x[1][2]))
        /\ \A x, y \in extents : x # y => ToSet(x[2]) \cap ToSet(y[2]) = {}

\* The entries at these indices have different names, long and short ones.
NamesDiffer(cells, live) ==
  \A i, k \in live : i # k =>
    /\ cells[i].short # cells[k].short
    /\ decode_directory_entry_name(cells, i) # decode_directory_entry_name(cells, k)

\* Every long-name entry belongs to one of these entries.
LfnsOwned(cells, live) ==
  \A i \in Scanned(cells) : cells[i].kind = "lfn" =>
    \E k \in live : \E n \in LfnRuns(cells, k) : i \in (k - n) .. (k - 1)

DotsRight(cells, dir, parent) ==
  /\ cells[1] = Entry(".", TRUE, dir, 0)
  /\ cells[2] = Entry("..", TRUE, DotDot(parent), 0)

\* Between operations the names of a directory are different, long and short
\* ones, every long-name entry belongs to an entry, and "." and ".." lead
\* where they should.
DirectoriesSound ==
  LET Live(cells)  == {i \in Scanned(cells) : cells[i].kind = "entry"}
      Sound(cells) == NamesDiffer(cells, Live(cells)) /\ LfnsOwned(cells, Live(cells))
  IN  Idle => \A d \in DirectoriesOf(Now) :
                /\ Sound(Cells(Now, d))
                /\ \A e \in Children(Now, d) :
                     e.dir => DotsRight(Cells(Now, e.first), e.first, d)

\* Clusters that nothing refers to appear only when the volume is full: a
\* new node's clusters are allocated before its directory turns out not to
\* have room.  No operation that succeeds, or is refused for another reason,
\* loses space.
SpaceLostOnlyWhenFull == [][lost' # lost => reply' = "NO_SPACE"]_vars

\* A crash or an I/O error in the middle of an append, the creation of a
\* file or directory, or a removal leaves the path as it was or as it was
\* going to be; one in the middle of a rename leaves the node under its old
\* name, its new one, or its 8.3 alias.  (Overwriting promises nothing.)
InterruptedOldOrNew ==
  [][ /\ request # Store!NoRequest
      /\ reply' = "IO_ERROR" /\ request' = Store!NoRequest
      /\ Store!ReplyTo(files, request) = "OK"
      /\ ~ (todo # <<>> /\ Head(todo).grows)
      => LET p     == request.path
             after == Store!TreeAfter(files, request)
             m     == Machine(IF mounted' THEN g_fat' ELSE fat', disk')
             now   == [q \in Store!Affected(request) |-> fat32_stat(m, q)]
         IN  CASE request.op \in {"append", "mkdir", "remove"} ->
                    now[p] \in {files[p], after[p]}
               [] request.op = "write" ->
                    files[p] = Store!None => now[p] \in {files[p], after[p]}
               [] request.op = "rename" ->
                    \E q \in DOMAIN now : now[q] = files[p]
    ]_vars

\* The clusters, the FAT and the directory entries implement a tree of files:
\* every operation changes the tree as its reply says, what was completed
\* survives a crash, and an interrupted operation damages nothing but what
\* it was working on.
ImplementsFiles == Store!Spec

=============================================================================
