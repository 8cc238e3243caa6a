-------------------------------- MODULE Names -------------------------------
(***************************************************************************)
(* Names in a directory, src/kernel/fat32.c.  build_name_entries chooses a *)
(* short name: the exact 8.3 form if the name has one and it is not taken, *)
(* otherwise the first alias with a number that is not taken (ShortName).  *)
(* The directory is read again, cluster by cluster, for each candidate,    *)
(* and a cluster that cannot be read makes the candidate count as taken.   *)
(* A scan of a directory puts long names together again (LongName).        *)
(***************************************************************************)
EXTENDS ShortName, FiniteSets

CONSTANTS
    Cases,      \* calls of build_name_entries: [name, dir, ignored]
    MaxErrors,  \* bound on the reads that fail
    Part, NameBuffer, MaxOrder, LongNames, Shorts, Checksum, DiskCells, MaxRun

VARIABLES
    pc,      \* idle, search, chosen, invalid, scan
    name,    \* the name passed to build_name_entries
    dir,     \* the directory: a sequence of clusters, sequences of cells
    ignored, \* ignore_short_name (a rename's own), or NoEntry
    short,   \* short_name, the candidate
    exact,   \* exact_short
    ordinal, \* the next ordinal
    at,      \* the cluster to be read
    errors,  \* history: reads that failed
    lfn, run \* the scan, see LongName

search == <<name, dir, ignored, short, exact, ordinal, at, errors>>
vars == <<pc, name, dir, ignored, short, exact, ordinal, at, errors, lfn, run>>

Long == INSTANCE LongName WITH Capacity <- NameBuffer

\* Cells without a short name: a deleted entry, a part of a long name or a
\* volume label; and the first entry that was never used.
NoEntry == <<>>
EndMark == <<"END">>

\* The short names a look-up would find in a directory: those before the first
\* entry that was never used.
Before(d, k, i) ==
    \A m \in 1 .. k : \A j \in DOMAIN d[m] : m < k \/ j < i => d[m][j] # EndMark
NamesIn(d) ==
    {x \in UNION {Range(d[k]) : k \in DOMAIN d} :
        /\ x \notin {NoEntry, EndMark}
        /\ \E k \in DOMAIN d : \E i \in DOMAIN d[k] : d[k][i] = x /\ Before(d, k, i)}

IsSequence(s) == s \in Seq(Range(s))

\* Names and directories are sequences; the numbers of aliases that could be
\* taken fit in an 8.3 name.
ASSUME CasesAssumption ==
    /\ MaxErrors \in Nat
    /\ \A c \in Cases :
           /\ IsSequence(c.name)
           /\ IsSequence(c.dir)
           /\ \A k \in DOMAIN c.dir : IsSequence(c.dir[k])
           /\ Len(Digits[Cardinality(NamesIn(c.dir)) + MaxErrors + 1]) < BaseSize

\* k_toupper keeps apart what the names keep apart, and changes no capital and no
\* character of its own.
Own == {Dot, Tilde, Fallback} \cup Range(DigitOf)
ASSUME UpperAssumption ==
    /\ \A x \in Own : Upper(x) = x
    /\ \A c \in Cases : \A i \in DOMAIN c.name :
           LET x == c.name[i] IN
           /\ Upper(Upper(x)) = Upper(x)
           /\ x \notin Invalid => Upper(x) \notin Invalid
           /\ Upper(x) = Dot <=> x = Dot
           /\ Upper(x) = Space <=> x = Space

ASSUME LongNameAssumption ==
    /\ {MaxOrder, MaxRun} \subseteq Nat
    /\ {Part, NameBuffer} \subseteq Nat \ {0}
    /\ \A n \in LongNames :
           /\ n \in Seq(Nat \ {0})
           /\ Len(n) \in 1 .. NameBuffer - 1
    /\ Checksum \in [Shorts -> Int]
    /\ \A c \in DiskCells :
           /\ c.order \in 0 .. MaxOrder
           /\ c.last \in BOOLEAN
           /\ c.sum \in Int
           /\ c.part \in [1 .. Part -> Nat \cup {Long!Padding, Long!Undecodable}]

Init ==
    /\ Long!Init
    /\ pc = "idle"
    /\ name = <<>>
    /\ dir = <<>>
    /\ ignored = NoEntry
    /\ short = <<>>
    /\ exact = FALSE
    /\ ordinal = 1
    /\ at = 1
    /\ errors = 0

-----------------------------------------------------------------------------
\* build_name_entries up to its choice.

\* A call with a name that is not valid.
Reject ==
    /\ pc = "idle"
    /\ \E c \in Cases :
           /\ ~validate_long_name(c.name)
           /\ name' = c.name
    /\ pc' = "invalid"
    /\ UNCHANGED <<dir, ignored, short, exact, ordinal, at, errors, lfn, run>>

\* A call: the first candidate is the exact form or the first alias.
Begin ==
    /\ pc = "idle"
    /\ \E c \in Cases :
           /\ validate_long_name(c.name)
           /\ name' = c.name
           /\ dir' = c.dir
           /\ ignored' = c.ignored
           /\ exact' = HasExactForm(c.name)
           /\ short' = IF HasExactForm(c.name)
                       THEN make_short_name_if_possible(c.name)
                       ELSE build_short_alias(c.name, 1)
           /\ ordinal' = IF HasExactForm(c.name) THEN 1 ELSE 2
    /\ pc' = "search"
    /\ UNCHANGED <<at, errors, lfn, run>>

\* Mutant of Taken: the next candidate is looked for from here on.
Taken_GoesOn ==
    /\ exact' = FALSE
    /\ short' = build_short_alias(name, ordinal)
    /\ ordinal' = ordinal + 1
    /\ UNCHANGED <<pc, at>>

\* Mutant of Taken: the ordinal stays.
Taken_SameOrdinal ==
    /\ exact' = FALSE
    /\ short' = build_short_alias(name, ordinal)
    /\ at' = 1
    /\ UNCHANGED <<pc, ordinal>>

\* short_name_exists_in_directory returns true: on to the next alias.
Taken ==
    /\ exact' = FALSE
    /\ short' = build_short_alias(name, ordinal)
    /\ ordinal' = ordinal + 1
    /\ at' = 1
    /\ UNCHANGED pc

\* It returns false.
Unused ==
    /\ pc' = "chosen"
    /\ UNCHANGED <<short, exact, ordinal, at>>

HasEnd(cells) == EndMark \in Range(cells)

\* The candidate is among the cells before the end mark, and not the one to be
\* ignored.
Hit(cells) ==
    /\ short # ignored
    /\ \E i \in DOMAIN cells :
           cells[i] = short /\ \A j \in 1 .. i : cells[j] # EndMark

\* One cluster of the scan.
ReadCluster ==
    /\ pc = "search"
    /\ at <= Len(dir)
    /\ \/ Hit(dir[at]) /\ Taken
       \/ ~Hit(dir[at]) /\ HasEnd(dir[at]) /\ Unused
       \/ /\ ~Hit(dir[at])
          /\ ~HasEnd(dir[at])
          /\ at' = at + 1
          /\ UNCHANGED <<pc, short, exact, ordinal>>
    /\ UNCHANGED <<name, dir, ignored, errors, lfn, run>>

\* The chain ends.
EndOfChain ==
    /\ pc = "search"
    /\ at > Len(dir)
    /\ Unused
    /\ UNCHANGED <<name, dir, ignored, errors, lfn, run>>

\* read_cluster fails.
ReadFails ==
    /\ pc = "search"
    /\ at <= Len(dir)
    /\ errors < MaxErrors
    /\ Taken
    /\ errors' = errors + 1
    /\ UNCHANGED <<name, dir, ignored, lfn, run>>

\* build_name_entries returns.
Return ==
    /\ pc \in {"chosen", "invalid"}
    /\ pc' = "idle"
    /\ name' = <<>>
    /\ dir' = <<>>
    /\ ignored' = NoEntry
    /\ short' = <<>>
    /\ exact' = FALSE
    /\ ordinal' = 1
    /\ at' = 1
    /\ errors' = 0
    /\ UNCHANGED <<lfn, run>>

Search == ReadCluster \/ EndOfChain \/ ReadFails

-----------------------------------------------------------------------------
\* find_entry_in_cluster_dir and list_cluster_dir: a scan starts with a fresh
\* LfnState and meets one entry after the other.
StartScan ==
    /\ pc = "idle"
    /\ pc' = "scan"
    /\ UNCHANGED <<search, lfn, run>>

ScanStep ==
    /\ pc = "scan"
    /\ Long!Next
    /\ UNCHANGED <<pc, search>>

Next == Reject \/ Begin \/ Search \/ Return \/ StartScan \/ ScanStep

\* The kernel runs alone; reads fail a bounded number of times.
Spec == Init /\ [][Next]_vars /\ WF_vars(Search)

-----------------------------------------------------------------------------
\* The short name chosen is no other entry's, even when clusters of the
\* directory could not be read on the way.
NameIsFree == short \notin NamesIn(dir) \ {ignored}

\* A name stored in its exact 8.3 form, and so without entries for a long
\* name, reads back as the name, in capitals.
ExactReadsBack == exact => format_short_name(short) = Uppercase(name)

\* The short name can be typed again: it is shown as a valid name and nothing
\* of it is lost on the screen.
ShortNameable ==
    LET text == format_short_name(short) IN
    /\ validate_long_name(text)
    /\ text = Uppercase(text)
    /\ Pad(BaseOf(text), BaseSize) \o Pad(ExtOf(text), ExtSize) = short

\* The search never gets to a number that does not fit in an 8.3 name: every
\* alias it has left behind is in the directory or cost a read error, so it
\* never tries one twice, and it chooses a name that is free, reads back and
\* can be typed (fat32.c, build_name_entries, build_short_alias and
\* short_name_exists_in_directory).
ChosenRight ==
    /\ ordinal <= Cardinality(NamesIn(dir)) + errors + 2
    /\ pc = "chosen" => NameIsFree /\ ExactReadsBack /\ ShortNameable

\* Long names are put together right: whatever parts precede an entry, the scan
\* shows the long name exactly if they end in a whole one with the entry's
\* checksum, and a name this kernel writes comes back as it was whatever the
\* scan met before it (fat32.c, process_lfn_entry, decode_directory_entry_name
\* and build_name_entries).
NamesReadBack ==
    pc = "scan" => Long!DecodesWholeNames /\ Long!NameComesBack

\* The search ends when the reads that fail come to an end; on a disk that
\* never answers again it does not.
SearchEnds == pc = "search" ~> pc # "search"
=============================================================================
