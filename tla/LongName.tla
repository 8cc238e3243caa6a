------------------------------ MODULE LongName ------------------------------
(***************************************************************************)
(* Long names in a directory, src/kernel/fat32.c: build_name_entries cuts  *)
(* a name into entries of thirteen characters, the last part first, and a  *)
(* scan puts it together again, entry by entry (process_lfn_entry).  What  *)
(* the scan meets need not have been written by this kernel, or not to the *)
(* end: parts may be missing, out of order, of another entry, or hold      *)
(* characters that cannot be decoded.                                      *)
(*                                                                         *)
(* Characters are numbers.  A short name is known by its number; different *)
(* short names may have the same checksum.                                 *)
(***************************************************************************)
EXTENDS Integers, Sequences

CONSTANTS
    Part,       \* characters in one entry (13)
    Capacity,   \* FAT32_NAME_CAPACITY, the terminator included (128)
    MaxOrder,   \* FAT32_LFN_ENTRY_MASK (31)
    LongNames,  \* names that validate_long_name accepts
    Shorts,     \* short names
    Checksum,   \* Checksum[s]: short_name_checksum
    DiskCells,  \* entries of long names that a scan may meet
    MaxRun      \* bound on the entries of long names in a row

VARIABLES
    lfn, \* the LfnState of the scan
    run  \* history: the entries of long names since the last other entry

vars == <<lfn, run>>

NUL == 0
Padding == -1     \* 0xFFFF
Undecodable == -2 \* not ASCII, or not allowed in a name

Lfn(order, last, sum, part) ==
    [order |-> order, last |-> last, sum |-> sum, part |-> part]

-----------------------------------------------------------------------------
\* Writing: build_name_entries.

lfn_entry_count_for_name(n) == (Len(n) + Part - 1) \div Part

\* fill_lfn_name_segment: the characters from an offset on, a terminator if
\* there is room, and padding.
fill_lfn_name_segment(n, offset) ==
    [i \in 1 .. Part |->
        IF offset + i <= Len(n) THEN n[offset + i]
        ELSE IF offset + i = Len(n) + 1 THEN NUL
        ELSE Padding]

\* The entries of a long name: the last part comes first.
LfnEntries(n, s) ==
    LET count == lfn_entry_count_for_name(n) IN
    [i \in 1 .. count |->
        LET order == count - i + 1 IN
        Lfn(order, i = 1, Checksum[s],
            fill_lfn_name_segment(n, (order - 1) * Part))]

-----------------------------------------------------------------------------
\* Reading.

Blank == [i \in 0 .. Capacity - 1 |-> NUL]

\* lfn_state_reset; only the first character of the name is cleared.
lfn_state_reset(st) ==
    [active |-> FALSE, valid |-> FALSE, sum |-> 0, expected |-> 0,
     name |-> [st.name EXCEPT ![0] = NUL]]

decode_lfn_character(c) == IF c = Padding THEN NUL ELSE c

\* A character beyond the capacity is dropped, the terminator's place is left.
lfn_store_character(name, index, c) ==
    [i \in DOMAIN name |->
        IF i = index /\ index + 1 < Capacity THEN c ELSE name[i]]

\* The characters of one entry, up to the first that cannot be decoded.
\* (lfn_terminate_name then finds a terminator: the last place is never
\* written.)
StorePart(st, cell) ==
    LET bad == {i \in 1 .. Part : cell.part[i] = Undecodable}
        stop == IF bad = {} THEN Part + 1
                ELSE CHOOSE i \in bad : \A j \in bad : i <= j
        name[i \in 0 .. Part] ==
            IF i = 0 THEN st.name
            ELSE IF i >= stop THEN name[i - 1]
            ELSE lfn_store_character(name[i - 1], (cell.order - 1) * Part + i - 1,
                                     decode_lfn_character(cell.part[i]))
    IN  [st EXCEPT !.name = name[Part], !.valid = bad = {}]

\* The state after the entry of the last part of a name.
Start(cell) ==
    [active |-> TRUE, valid |-> TRUE, sum |-> cell.sum,
     expected |-> cell.order, name |-> Blank]

Continues(st, cell) ==
    /\ st.active
    /\ st.valid
    /\ cell.sum = st.sum
    /\ cell.order # 0
    /\ cell.order = st.expected - 1

\* Mutant of process_lfn_entry: the name is not cleared when a new one starts.
process_lfn_entry_Stale(st, cell) ==
    IF cell.last
    THEN IF cell.order = 0 THEN lfn_state_reset(st)
         ELSE StorePart([Start(cell) EXCEPT !.name = st.name], cell)
    ELSE IF Continues(st, cell)
    THEN StorePart([st EXCEPT !.expected = cell.order], cell)
    ELSE lfn_state_reset(st)

process_lfn_entry(st, cell) ==
    IF cell.last
    THEN IF cell.order = 0 THEN lfn_state_reset(st)
         ELSE StorePart(Start(cell), cell)
    ELSE IF Continues(st, cell)
    THEN StorePart([st EXCEPT !.expected = cell.order], cell)
    ELSE lfn_state_reset(st)

\* The string in a buffer.
Text(name) ==
    LET n == CHOOSE k \in DOMAIN name :
                 name[k] = NUL /\ \A j \in 0 .. k - 1 : name[j] # NUL
    IN  [i \in 1 .. n |-> name[i - 1]]

\* The name shown for the short entry s when the scan gets to it.
decode_directory_entry_name(st, s) ==
    IF /\ st.active
       /\ st.valid
       /\ st.expected = 1
       /\ st.sum = Checksum[s]
       /\ st.name[0] # NUL
    THEN [long |-> TRUE, text |-> Text(st.name)]
    ELSE [long |-> FALSE, text |-> <<s>>]

-----------------------------------------------------------------------------
\* The scan, find_entry_in_cluster_dir and list_cluster_dir.

Init ==
    /\ lfn = [active |-> FALSE, valid |-> FALSE, sum |-> 0, expected |-> 0,
              name |-> Blank]
    /\ run = <<>>

\* An entry of a long name.
LfnEntry ==
    /\ Len(run) < MaxRun
    /\ \E cell \in DiskCells :
           /\ lfn' = process_lfn_entry(lfn, cell)
           /\ run' = Append(run, cell)

\* A deleted entry, a volume label, or an entry that is not the one looked for.
OtherEntry ==
    /\ lfn' = lfn_state_reset(lfn)
    /\ run' = <<>>

Next == LfnEntry \/ OtherEntry

-----------------------------------------------------------------------------
\* The part with order k of a name of n parts that ends a run.
PartOf(k) == run[Len(run) - k + 1]

\* The run ends in a whole name for s: parts n to 1, the first marked, all with
\* the checksum of s and decodable.
WholeName(n, s) ==
    \A k \in 1 .. n :
        /\ PartOf(k).order = k
        /\ PartOf(k).last <=> k = n
        /\ PartOf(k).sum = Checksum[s]
        /\ \A i \in 1 .. Part : PartOf(k).part[i] # Undecodable

\* Its characters as far as they fit, up to the first terminator.
WholeText(n) ==
    LET char(i) == PartOf(((i - 1) \div Part) + 1).part[((i - 1) % Part) + 1]
        size == CHOOSE k \in 0 .. n * Part :
                    /\ k < Capacity
                    /\ \A i \in 1 .. k : char(i) > NUL
                    /\ \/ k = Capacity - 1
                       \/ k = n * Part
                       \/ char(k + 1) \in {NUL, Padding}
    IN  [i \in 1 .. size |-> char(i)]

\* Whatever parts precede an entry, the scan shows the long name if they end in
\* a whole, decodable, non-empty one with the entry's checksum, and the short
\* name otherwise (fat32.c, process_lfn_entry and decode_directory_entry_name).
DecodesWholeNames ==
    \A s \in Shorts :
        LET whole == {n \in 1 .. Len(run) :
                         WholeName(n, s) /\ WholeText(n) # <<>>}
        IN  decode_directory_entry_name(lfn, s) =
                IF whole = {} THEN [long |-> FALSE, text |-> <<s>>]
                ELSE [long |-> TRUE,
                      text |-> WholeText(CHOOSE n \in whole : TRUE)]

\* The scan of a sequence of cells from a state on.
Scan(st, cells) ==
    LET after[i \in 0 .. Len(cells)] ==
            IF i = 0 THEN st ELSE process_lfn_entry(after[i - 1], cells[i])
    IN  after[Len(cells)]

\* A name that is written comes back as it was, whatever the scan met before
\* it: of one character, filling its entries exactly, or as long as a name may
\* be, and behind the rest of a longer one (fat32.c, build_name_entries).
NameComesBack ==
    \A n \in LongNames, s \in Shorts :
        decode_directory_entry_name(Scan(lfn, LfnEntries(n, s)), s)
            = [long |-> TRUE, text |-> n]
=============================================================================
