# FunnyOS in TLA+

A verification project for the FunnyOS kernel: TLA+ modules that model its
components, TLC configurations that check them on small instances, and TLAPS
proofs that hold for every instance. Paths below are relative to the
repository; the kernel is `src/kernel`.

## The system

FunnyOS boots from UEFI, runs a single-threaded kernel with a shell at a
prompt, keeps files on a FAT32 volume and runs one ELF program at a time in
ring 3. There are no threads and interrupts stay off in the kernel. What is
hard is not concurrency between kernel threads but long sequences of legal
operations, failure of one step of several, numeric edges, the program in
ring 3, which may ask for anything at any time, and the devices, which run on
their own: a disk that answers after the driver gave up, a serial port that
goes away, firmware that changes its memory map.

| Component | State | Operations | Talks to |
|---|---|---|---|
| page allocator (`memory.c`) | `g_free_ranges`, `g_free_range_count`, `g_total_pages` | `memory_init`, `reserve_range`, `memory_self_test`, `alloc_pages`, `free_pages` | called by paging, process, ahci |
| kernel heap (`memory.c`) | list of blocks | `kmalloc`, `kfree` | page allocator; nothing calls it |
| page tables (`paging.c`) | the tables, `g_pml4`, CR3 | `paging_init`, `map_range`, `split_large_page`, `paging_create_address_space`, `paging_destroy_address_space` | page allocator |
| process (`process.c`) | `g_foreground_process`, `g_active_process` | `process_run_foreground` and what it calls, the system calls | paging, allocator, FAT32, traps |
| traps (`trap.c`, `program_entry.asm`) | IDT, saved kernel context | `interrupt_dispatch`, `program_invoke`, `program_return_to_kernel` | process |
| line input (`keyboard.c`, `serial.c`) | the line under edit, `g_serial_enabled` | `keyboard_read_line`, polling and echo | process, shell, console |
| FAT32 (`fat32.c`, `fs.c`) | cached FAT, the disk | mount, read, list, stat, write, mkdir, rm, mv | block layer |
| path, program, shell (`path.c`, `program.c`, `shell.c`) | `g_cwd` | normalise, look up, commands | FAT32, process |
| block layer (`block.c`, `driver.c`) | registered drivers, `g_block_device` | resolve the boot path, probe, bind | PCI, AHCI, ATA |
| AHCI, ATA (`ahci.c`, `ata.c`) | command slot, port registers | read, write, poll, time-out | the drive |
| PCI, ACPI (`pci.c`, `acpi.c`) | tables found at boot | walk the buses, search the tables | kmain, block layer, shell |
| APIC, timer (`apic.c`, `timer.c`) | frequencies | set-up at boot | kmain |
| console, panic (`console.c`, `panic.c`) | cursor, screen | output, scroll, erase | everyone |
| UEFI loader (`src/boot/uefi`) | memory map, boot info | load kernel, `ExitBootServices` with retry | firmware |

What makes each of them correct, and what is hard about it:

* **Page allocator.** A page is never handed out twice, never disappears,
  never overlaps a reserved region; the table is always sorted and merged.
  Hard: the table is bounded, `reserve_range` edits the array it scans,
  `free_pages` cannot report failure, the ends of regions lie inside pages.
* **Page tables.** Whatever root is active the kernel finds its own memory;
  tearing a root down frees the program's tables and none of the kernel's.
  Hard: the two kinds of entry are told apart by comparing whole entries,
  accessed bit included, and any table allocation can fail half way.
* **Process.** The program sees its image and stack and nothing else; every
  failing path frees each block exactly once; no file and no argument makes
  the kernel fault; the prompt comes back.
* **FAT32.** Chains are disjoint and as long as the size says, the tree is a
  tree, names are unique in a directory; a failed or interrupted operation
  damages at most what it was working on.
  A name that is written is the name that is read, and no two entries of a
  directory answer to one name.
* **Drivers.** A call that returns true has moved its own sectors; a command
  that timed out may complete later and must not be taken for another's; every
  call returns.
* **Block layer.** The disk that is mounted is the one the firmware booted from.
* **Boot loader.** The kernel is entered with its segments whole and with the
  memory map that is in force; every failure on the way frees what was held.
* **Shell.** The working directory is text; what it names may be gone.
* **Console and line input.** What one sees is what will be executed; no key
  press is lost, whatever the serial port does.
* **ACPI, PCI.** Whatever the firmware left in memory, the search ends, reads
  only mapped memory and finds what is there.

`PROJECT.json` lists the hazards line by line, with the properties that cover
them; a note says what a property leaves out, or why there is none.

## Modules

| Module | Models |
|---|---|
| `PageAllocator` | the table of free ranges, from `memory_init` to a running system |
| `PageStore` | abstract specification: a set of free pages and the blocks lent |
| `PageAllocatorProofs` | the theorems about `PageAllocator` |
| `MCPageAllocator` | small memory maps and regions |
| `Paging` | page tables, splitting, address spaces, over `PageStore` |
| `Process` | extends `Paging`: loader, ring 3, system calls, line editor, tear-down |
| `MCProcess` | a small machine and a set of ELF files |
| `Fat32` | the FAT, directories, long names and operations of `fat32.c`, one disk write at a time |
| `FileStore` | abstract specification: a tree of files and directories, and what an interruption may damage |
| `MCFat32` | small volumes, names and requests |
| `Names` | `build_name_entries` with its search for a free short name, and scans of a directory; extends `ShortName`, uses `LongName` |
| `ShortName` | valid names, their 8.3 forms and their aliases, as operators |
| `LongName` | entries of long names: cutting up and putting together |
| `SectorStore` | abstract specification: what a disk driver promises the file system |
| `Ahci` | `ahci_issue_io` against a controller |
| `Ata` | `ata_read_sectors` and `ata_write_sectors` against a drive |
| `Block` | `block_init`: device path, PCI path, candidates, probes |
| `Storage` | composes `Block`, `Ahci` and `Ata`: the disk as the file system gets it |
| `Boot` | the UEFI loader |
| `Acpi` | `acpi_init` |
| `Pci` | `pci_enumerate` |
| `Startup` | composes `Boot`, `Acpi` and `Pci` along `kmain()`: from the firmware to the prompt |
| `Path` | `path_normalize`, as operators, and what a path means |
| `Args` | the arguments of a program, from the line to its stack, as operators |
| `Shell` | extends `Path` and `Args`: the commands and the program look-up, over `FileStore` |
| `Console` | cursor and screen, and the line editor's echo |
| `Input` | where the characters of a line come from: keyboard and serial port |
| `Numbers` | induction, recursion and division over numbers, as lemmas without operator parameters |
| `ProcessState` | the inductive invariants of `Process` |
| `ProcessProofs` | the theorems about `Process`: who owns which page, and what the roots map |
| `StorageProofs` | the theorems about `Storage`: drivers, and the choice of the disk |
| `StartupProofs` | the theorems about `Startup` |
| `ConsoleProofs`, `InputProofs` | the theorems about `Console` and `Input` |
| `NamesProofs` | the theorems about `Names`: the short name chosen, and long names |

`MCStorage`, `MCStartup`, `MCShell`, `MCNames`, `MCConsole` and `MCInput` hold the
small instances. Components meet through calls that return and through the
abstract specifications: `Process` extends `Paging`, which uses that of the page
allocator; `Shell` uses that of the file system; `Storage` hands each transfer
to the driver that was bound; `Startup` runs its parts one after the other,
and keeps of each what the code keeps.

### PageAllocator

`ranges` and `count` are `g_free_ranges` and `g_free_range_count`; the array is
a function on `0 .. count-1`, and `WithSlot`/`WithoutSlot` are the `for` loops
that open and close a slot. `pc` is where `kmain()` is. One step of "map" is one
descriptor of `memory_init`, one step of "reserve" is one iteration of the loop
of `reserve_range`, and the "test" phases are the allocations, frees and
comparisons of `memory_self_test`, which runs on the live allocator. In "ready"
any caller allocates (`Alloc`) and frees what it holds, whole and once (`Free`):
this is what `ahci.c`, `paging.c` and `process.c` do, and `Process` checks it
(`FreesExact`). Bytes appear only where the code aligns. `managed`, `live` and
`lost` are ghosts: the pages free when `memory_init` returned, the blocks lent,
and the pages of blocks `free_pages` dropped.

`PageStore` says what a caller may rely on: `alloc_pages` returns a run of pages
that was free, `free_pages` gives back a block or drops it, nothing else moves a
page. The refinement mapping reads the set of free pages off the table.

### Paging and Process

`Paging` does not use the table of ranges but its abstract specification
(`INSTANCE PageStore`), with its nondeterminism resolved as far as the module
needs: a request fails exactly when no run is long enough, and a free may drop
the block at most `MaxDrops` times. A table is a function from its
`TableEntries` slots to entries (absent, a table, a page, or a large page at
level 2) with the bits the code tests: present, writable, executable, user,
accessed. Mapping is a job (`job`) that walks `map_range` page by page, one step
per table it allocates, per large page it splits and per entry it writes, so
running out of memory can happen at each. Content of freed pages is arbitrary
(modelled by clearing); a table is cleared when it is allocated because
`alloc_page_table` does so. The CPU sets accessed bits: `Accessed` marks the
entries on the walks the kernel is known to make.

`Process` has one action per step of `process_run_foreground` with its callees.
The fail label of `process_prepare_address_space` and
`process_release_address_space` free the same fields one after the other, as the
code does. An ELF file is a record: whether its header is sound, its size, its
entry point and its segments. The program may make any system call with any
pointer and length of `Pointers` and `Lengths`, read lines, exit or fault.
`Touch` is a memory access of the kernel: on an unmapped page it leads to
"fault", which stands for the panic of `interrupt_dispatch`.

### Fat32

The kernel is single-threaded and `fat32.c` keeps no locks, so between two disk
writes of an operation nothing but a failing disk or a power loss can happen.
`Begin` therefore computes what the operation does: the operators are named
after the functions of `fat32.c` and pass along a record `m` with the FAT in
memory (`m.fat`), the disk as it will be, and the list of disk writes
(`m.log`). Each write is then a step: `Write` makes it, `WriteFails` makes the
operation return, `Crash` stops the machine. A write carries the FAT in memory
at that moment and the one the code leaves when the write fails (`onfail`):
`allocate_cluster_chain` frees its clusters again, `ensure_cluster_chain_length`
frees the cluster but leaves it linked, `find_free_entry_in_cluster_dir` leaves
it linked. `flush_fat` is one write per sector of the first copy of the FAT and
one for the other copies, which no code reads. `Mount` reads the FAT back.
`ReadFails` is a read that makes the operation return with an I/O error;
`EmptyReadFails` the one in `directory_is_empty` that makes `fat32_remove` answer
"directory not empty" (`TakenForFull` in `FileStore`).

A cluster is a few cells, each a directory entry, a part of a long name, or a
unit of data. Checksums of long-name entries are represented by the short name
they are computed from; `Alias` and `ExactShort` give the results of
`build_short_alias` and `make_short_name_if_possible`. Case is left out:
`path_normalize` upper-cases every path before `fs.c` sees it, which is also what
keeps the byte-wise comparison of `path_is_descendant_of` in step with look-ups
that ignore case.
A cluster that is free in memory and on the disk holds junk: the code never
reads one, and if it did the junk would show up in a file.

`files` is what `fat32_stat` and `fat32_read_file` return for every path of
`Paths` between operations. It is computed from the FAT and the clusters, and
the refinement to `FileStore` says that it changes only as the replies say.
`damaged` holds the paths an interrupted operation was working on: the paths it
named, the alias next to them, and the directory it was extending at that
moment. `FileStore` promises nothing of these from then on and lets no operation
name them; of all other paths it promises everything. `lost` holds the clusters
that are in use and that no entry leads to.

### Names, ShortName, LongName

`Fat32` takes the short name and the entries of a name as given; these modules
say how they come about. The operators of `ShortName` are the functions of the
code: `HasExactForm` and `make_short_name_if_possible`, `build_short_alias` with
`AliasBase` and `AliasText`, `format_short_name`, `validate_long_name`. Digits
have base `Radix`, so that numbers get longer within the bound. `Names` follows
`build_name_entries` from candidate to candidate, and for each the scan of the
directory, one cluster at a time; a cluster that cannot be read makes the
candidate count as taken (`ReadFails`). `LongName` is the state of a scan
(`LfnState`) over any sequence of entries, not only those this kernel writes,
and `LfnEntries` are those it does write; `Names` starts such a scan whenever no
name is being chosen.

### Storage: Block, Ahci, Ata, SectorStore

`Block` is `block_init` over the PCI bridges and the device path the firmware
reported. `BootDisks` are the disks that path can mean, said without the code's
walk. AHCI is bound only to the disk the path names. When the path names a SATA
disk that does not come up, or no disk, the code tries ATA channel 0, drive 0,
and `ata_init` asks no drive: another disk than the boot disk may be bound then,
and `BindsBootDisk` does not exclude it.

`Storage` drops what `block_init` worked with once it returns (`Bind`), and from
then on the bound driver serves any sequence of transfers.

`SectorStore` is the promise of `block_read_sectors` and `block_write_sectors`: a
call that succeeds has moved every sector and leaves nothing behind, a call that
fails may leave its command behind, and that command may still move data. `Ahci`
implements it. One step of the driver is one access to the registers or to the
command table; the controller (external) fetches the table, moves one sector at
a time, completes, or fails and halts. Polls that run out are `ReadyTimeout` and
`PollTimeout`; they may happen whenever the drive is slow or halted. A controller
that is running is assumed to have fetched a command that was issued a million
polls ago: a time-out finds it executing or halted.

`Ata` does not implement `SectorStore`, and the properties say where it stops: a
command that was abandoned is not reset, so the DRQ it raises late is taken for
the next command's; a write the drive fails after taking the data is reported as
done; and a transfer that runs over the last address of 28 bits wraps.
`abandoned` and `lost` record the first two; without them success means done for
every transfer that fits. The drive may see a command late, since the driver
reads the status without a delay.

### Startup: Boot, Acpi, Pci

In `Boot` one step is one call of the firmware with the clean-up its result
needs, and each may fail. Program headers are records with the pages they cover.
`epoch` counts the changes of the firmware's memory map, `key` is the one the
loader holds, and `FirmwareEvent` may come between any two steps until the boot
services have ended. `ExitBootServices` may fail although the key is right. `Scan` is the loop of `select_graphics_mode`.

`Acpi` has addresses and lengths as small numbers and tables that hold what
firmware may leave there; `reads` is what the last step read. `Pci` is the triple
loop with its widths: a bus counts in a wider type than the last bus needs.

`Startup` is the way from one to the next. The jump to the kernel ends the
loader; what tables and what devices there are shows when `kmain()` gets to
`acpi_init` and when the user types `lspci`, so these are chosen there. A failing
`acpi_init` is a panic. The steps of `kmain()` in between are other modules
(`PageAllocator`, `Paging`, `Storage`, `Fat32`).

### Shell, Path, Args

`Path` keeps, besides the components, the numbers the code computes with: the
write position and where each component starts. `Meaning` is the reference: a
name counts unless as many ".." as names follow it. `Args` folds over the
characters of the line and keeps pointers as offsets; its reference, `WordsOf`,
are the longest stretches without a space. `Shell` reads a line and executes it;
the tree is changed by the operators of `FileStore` (`ReplyTo`, `TreeAfter`), so
the two agree on what a command of the file system does; a request that leaves
the bounded tree changes nothing and answers "out of bounds". `ran` holds the program that was started, with the
strings its `argv` points to. Whether loading it succeeds is `Process`.

### Console and Input

`Console` keeps pixel lines, because a framebuffer scrolls by pixel lines and may
have some below its last row. The kernel starts without wiping those lines: `console_clear`
paints cells, the loader may find the wanted mode already set and sets none, and
the firmware prints until the boot services end. So they hold anything (`Firmware`)
at `Init`. The first scroll brings them into the last row, where they stay visible
until they are written over, cleared, or taken out of that row by the second
scroll. `ScreenRight` says so: `Leftover`, in the last row, while the ghost
`scrolled` is 1, is the only thing that may show from the cursor on. `Input` has
the devices as actors of their own: keys go down and up, bytes arrive and the port
fails at any time.

## Runs

| Run | Question | Result |
|---|---|---|
| `page_allocator` | is the table of ranges sound from boot through any sequence of allocations and frees, and does it implement a set of free pages? | passes |
| `page_allocator_full` | does the self-test get its pages back when the memory map fills the table? | violated: `append_free_range` refuses every range when the table is full, also one that would merge, and `free_pages` ignores it |
| `process` | isolation, conservation of memory, no kernel fault, control returns, for any number of programs with memory running out anywhere | passes |
| `fat32` | do the operations keep chains apart and directories sound, lose no space, and implement a tree of files? | passes; space is lost only when the volume is full |
| `fat32_faults` | what do a crash and an I/O error before any disk write damage? | passes: only what was being worked on; appends, creations and removals leave the old or the new state |
| `process_single_space` | "single address space", as the repository's README says | violated: a program has a root of its own |
| `storage` | is the disk that is bound the one the firmware booted from? can a command that timed out, or an error, be taken for the success of another call? does every call return? | passes up to the exceptions above, and AHCI implements `SectorStore` |
| `startup` | what is the kernel entered with, whatever the firmware does, and what is left held when a call fails? is anything unmapped read, is what is found right, does each stage end? | passes; a MADT shorter than its fixed part is read past its end |
| `shell` | what can commands do to the tree when the working directory is gone? does a path mean what it should, and is it refused only if it does not fit? which program runs, and with which words? | passes |
| `names` | is the short name that was chosen free, does it read back, does the search end? which long names does a scan show? | passes, while read errors come to an end |
| `console` | does the screen show the line being edited, and nothing after it? | passes; what the firmware left below the last row shows in that row from the first scroll to the second |
| `input` | is every key press taken once, in order and in the end, whatever the serial port does? | passes |

**Bounds.** `page_allocator`: two bytes per page, so that a region or descriptor
can end inside a page; twelve pages below the limit, so that a descriptor can be
clipped; three slots, so that the table is full in many states; fourteen maps
chosen so that each branch of `memory_init` and of the self-test is taken, and
sizes 1 to 3. After boot the state space is complete: every order of
allocations and frees. `process`: four entries to a table and four levels, so a
root spans 256 pages and each level has more than one slot in use; pools from
too small for the boot to large enough, so that each allocation fails in some
behaviour; framebuffers absent, inside low memory, alone in a slot and in the
slot of the process window; images at, past and below the limits; lengths up to
one that wraps the address width. Programs run one after another without bound.
`MaxDrops` is 1: one lost block in a whole behaviour.
`fat32`, `fat32_faults`: six clusters of four cells, so a directory of two entries
with long names has to grow and a file of nine cells half fills the volume; a
FAT of two sectors, so a chain can be torn between them; an 8.3 name and a long
one, in `fat32` with the 8.3 name as the long one's first alias; paths three
deep. The volumes the runs start from are made by the model's own operations
from a formatted one: empty, full, with deleted entries and holes, with nested
directories. `MaxOps` operations follow (3 without faults, 2 with), each any of
the requests of `MCRequests`, which are those of the interface `fs.h`: they may be
longer than a line of the shell, today's only writer; `MaxSize` bounds files at three clusters,
`MaxCrashes` and `MaxIoErrors` allow one of each in a behaviour, in either order.
A cluster is written whole or not at all, which holds for clusters of one
sector.

`storage`: two buses of two slots, with a controller and a bridge that may be
missing or not set up; device paths of up to four nodes of every kind, so up to
one hop more than `MaxHops`; a disk of two sectors and requests up to twice that
for ATA, so that addresses wrap; transfers of up to two sectors, one buffer the
controller can reach and one above 4 GiB; any number of calls.
`startup`: images of up to two segments, apart, sharing a page, invalid and not
to be loaded, on pages that may belong to the firmware; two attempts and two
events, so that the attempts can run out; up to two graphics modes. ACPI tables
at, below and across the limit, and `MaxScan` shorter than the longest MADT; every
MADT content of up to five cells. Two buses of two devices of three functions.
`shell`: trees of depth two that any line may change, from three of them;
relative and absolute arguments with ".."; `cd` with every path of up to two
parts; a path capacity and an argument buffer of ten and three words, so that
paths and lines fit exactly and just do not. `names`: four and two cells instead
of eight and three, base 2 instead of 10, every name of up to four characters
and longer ones with dots; directories of two clusters, with and without an end
mark, and two read errors; long names in parts of two characters and a buffer of
six, three entries of any kind in a row. `console`: screens of one to three rows,
with no, one or two lines to spare below them that hold the background or not, and
none; a line longer than the
screen. `input`: three key events and one byte, a line of one character.

**Deadlock** is not checked where the machine may stop: `Process` and
`PageAllocator` when `kmain()` panics, `Startup` and `Storage` when the loader,
`acpi_init` or `block_init` fails, `Shell` after `panic` or `fault`; nor in `Fat32`,
which ends at its bound on operations.

**Fairness.** Weak fairness of `Boot` in `PageAllocator`, of `Kernel` in `Process`
and in `Storage`, of `Processor` in `Startup`, of `Search` in `Names` and of `Reader`
in `Input`: the kernel and the loader run alone, with interrupts off, and each of
these steps waits for nothing or for a poll that is counted. Nothing is assumed
of the user, of the program in ring 3, of the drives, or of the serial port: a
program may compute forever and `read_line` may wait forever, so `KernelReturns`
speaks only of programs that are being loaded or have ended, and a drive may
never answer. Three assumptions limit the devices. The AHCI controller, unless
halted, fetches a command that was issued (`WF_vars(Fetch)`). Read errors in
`Names` are bounded by `MaxErrors`: with a disk that always fails the search would
not end. Serial bytes in `Input` are bounded by `MaxBytes`: the loop asks the serial
port first, so a stream without a gap keeps the keyboard waiting.

## Proofs

The theorems hold for every value of the constants that satisfies the module's
assumption; TLC evaluates that assumption in the module's run. No invariant of a
run is inductive as it stands, so each proof module defines the invariant that
is, one named part for each kind of fact it needs, and has a lemma for each action
or group of actions that shows which parts it keeps.

**Page allocator** (`PageAllocatorProofs`; `ConstantsAssumption`: positive sizes,
and maps in which no page is described twice, which UEFI guarantees).
`TypeCorrect`, `TableStaysSeparated`, `NoPageShared`, `NoPageVanishes`,
`LossMeansFull`, `ReservedStaysKept` and `CountsStayRight` are the invariants and
the action property of the run `page_allocator`; `Refinement` says that
`PageAllocator` implements `PageStore`. That a freed block does not overlap
the table needs exclusivity of pages; exclusivity needs the table sorted, or the
insertion index would not tell the neighbours; and both need to know what the
boot phases established. `IInv` is the conjunction of

* `Ownership`: the types, the separated table, exclusivity of free, live and
  lost pages, conservation of `managed`, reserved pages kept out;
* `ControlType`, `ControlReady`: what `pc` says about the ghosts (nothing is
  lent before the allocator is ready);
* `ControlMap`: in "map", the free pages are pages of descriptors already
  processed, so the next descriptor is disjoint from them;
* `ControlReserve`: the regions before `cursor` are cut, and the current one is
  cut from the slots before `index`;
* `ControlTest`: the blocks of the self-test are live and different.

The array moves have lemmas of their own (`WithSlot`, `WithoutSlot`: length,
order, and the set of pages), cited by every action that edits the table. For
the counts, `SumIsCount` shows by induction over the slots that the sum of a
separated table is the number of its pages, and `GivenBounded` that pages become
free only together with the descriptor that is added to `total_pages`.

**Disk** (`StorageProofs`; `StorageAssumption`: positive sizes,
requests that differ from `None`, device paths and bridges over the buses and
slots there are). `AhciRefines`: the driver with its controller implements
`SectorStore`. The refinement mapping reads `moved` off the place of the call, so
the proof needs `AhciControl` (when the command-issue bit, the engine and the
table belong to the call and when to an earlier one) and `AhciData` (what the
sectors moved so far hold). `TransfersAreDone` follows for AHCI from the same
invariant and for ATA from `AtaInv`: without an abandoned command the drive is
executing the call's own command, its counter is the driver's, and addresses
wrap for both alike. `BootDiskIsBound`: `ResolvedIsReached` relates the walk
over the PCI nodes of the device path to `BootDisks`, which says the same without
a walk, and `BlockInv` says which candidates have been collected and which probe
is under way.

**Start-up** (`StartupProofs`; `StartupAssumption`: segments lie in pages there
are, sizes of the ACPI structures are ordered as their definitions are, and a
table that lies below the limit has the bytes its length says). `HandoverIsRight`:
`LoaderHolds` says for each place of `read_file` which buffers and files are held,
`LoaderPlaces` which segments are in place, `LoaderMap` that an equal key means an
equal map; `ScanResult` proves by induction over the modes what the loop of
`select_graphics_mode` computes. `HardwareIsFound`: `WalkInv` says that the walk over
the buses has seen exactly the functions before its position, `TablesInv` that
what `acpi_init` has found is what the entries before `next`, and the MADT up to
the cursor, contain; `ScanFinds` shows that the scan of a MADT meets the places a
reader following lengths would meet and no other.

**Screen and keyboard** (`ConsoleProofs`; `ConsoleAssumption`: a screen has room for
a row, blanks and background are no characters of a line, and the firmware leaves
something, whatever it is. `InputProofs`;
`InputAssumption`: a key's code has seven bits, so it is not the prefix).
`ScreenIsRight`: the first half turns pixel lines into cells (`PutShows`,
`ScrollShows`, and `Positions` for the arithmetic of rows and columns), the second
half is `ConsoleInv`: the line ends at the cursor (`LineAt`), everything after it
is blank or, once the picture has moved up once, what the firmware left (`AheadAt`,
`Bare`; `Below` follows those lines: the first scroll clears them, so a later one
has nothing to bring), and a line begun in a row that has text after the cursor
has not left that row (`RowKept`), so erasing does not step back over its start. `KeysStayInOrder`: `Presses` reads
the presses off a queue of scancodes; `PressesMore` and `PressesFirst` say what it
gives when codes are added behind or one is taken in front. A prefix gives nothing,
so one that was taken before its code does no harm.

**Processes and page tables** (`ProcessProofs`, over the invariants of `ProcessState`; `PagingAssumption`: the linker's
sections follow each other in low memory, above the first large page, and low
memory fits in the space of a root; `LayoutAssumption`: the user range begins at a
page above low memory). `PagesAreOwned` proves the inductive invariant `Inv`, from
which the rest follows at once, for any number of entries in a table, any
program and any place at which memory runs out. Its parts:

* `Memory`: `held`, the blocks lent by `PageStore`, is the disjoint union of the
  kernel's tables, the program's tables and the blocks the process record names
  (`Accounts`), and the tables under each root are a tree (`IsTree`): every table
  has a level, one entry leads to it, and an entry of a table at level 1 leads to
  none. Without the tree, a table freed once could be met a second time by the
  walk that tears it down. The tables themselves are existential, since nothing
  in the code lists them;
* `RootShared`, part of it: an entry of a program's root is the kernel's, or leads
  to a table for ring 3 where the kernel has none. So the tear-down, which takes
  the entries that differ, takes no table of the kernel;
* `DoomedTree`: while `paging_destroy_user_tree` is under way, the tables left are
  those of the paths not yet freed; children go before their parents;
* `Control` and `Active`: which field of the process and which root is set at each
  place, on the way in, on the fail label and on the way out, and which root CR3
  holds;
* `BootJob`: the kernel's root has a table for its text, and the processor has set
  that entry's accessed bit, before a program's root is made of it. The
  processor would otherwise set it in one of two copies, and the comparison
  that tells own entries from shared ones would fail;
* `UserJobs`: the pages mapped so far are reached through tables for ring 3, so
  the kernel's reads and writes for the program change no entry of its own.

`NoWrongFree` is the type of `wrong_frees` in `Inv`, which every step keeps because
of `Accounts`; `NoPageLeaks` reads `Accounts` where the process record is empty;
`WalksAreSafe` says that a walk over a tree stays in it (`ReachableWithin`).

**What the roots map** (`ProcessProofs`, over `Inv`; `DeviceAssumption`: framebuffer
and devices leave out page 0, lie outside the kernel's image and end within the
space of a root; `WindowAssumption`: so does the user range). `RootsMap` proves
the inductive invariant `View`, from which `ProgramIsConfined`, `KernelIsMapped` and
`KernelDoesNotFault` follow. `KernelView` alone is not inductive: what a root maps
at the end depends on what it mapped when the last range was begun. So `Sees` says
what the kernel's root maps at each place of the boot, for a cursor anywhere in
the range under way, and `UserSees` what the program's root maps at each place of
a load. `View` has these parts:

* `KernelSees` and `UserShown`: every page is mapped as `Sees` and `UserSees` say,
  those a walk finds through a large page included;
* `Cursor` and `UserCursor`: the cursor of a mapping loop is in its range, and the
  physical page and the rights it carries are those of the page;
* nothing has faulted: a page that the kernel touches for a program is one that
  `UserSees` has.

The lemmas are about walks over a tree of tables with levels (`Graded`): a walk
passes each table at its level and only one entry leads to a table, so an entry
written where the walk for one page stops changes the walk for no other page
(`MapPut`), a new table in place of an empty or a large entry, with the pages of
the large one in it, changes none at all (`MapSpliced`), and neither do the
accessed bits the processor sets (`AccessedMaps`). While a program's root is
active, `KernelApart` shows that no page of the program shares a root entry with a
page of the kernel: entries of the kernel's root never map pages themselves, and by
`RootShared` an entry for the program is one the kernel does not have.

**Names of files** (`NamesProofs`). It assumes `ShortNameAssumption`: the sizes of the
fields, and that dot, tilde and digits are allowed in names; `UpperAssumption`:
`k_toupper` makes no character a dot, a blank or a forbidden one; `LongNameAssumption`:
the types of what is on the disk; `CasesAssumption`: names and directories are
sequences, and a number one above the names in the directory and the failed
reads together fits in the base with its tilde. In eight characters that is true of
ten million; a FAT directory holds at most 65536 entries.

`LongNamesReadBack` proves `LongInv`, for parts of any order and length and in any
sequence. `NamesReadBack` is not inductive: it says what a scan shows when it
meets an entry. `Tracks` says what the state of the scan means before: a scan that is
collecting has just met a run of parts with descending orders and one checksum
(`Collected`), and its buffer holds the characters of those parts, each at its
place; and after such a run (`IsTail`) the scan is collecting, with the order it
expects next and the checksum.

`ShortNamesAreRight` proves `SearchInv`. `ChosenRight` speaks of the end of the search;
during it, `Candidate` says that the name under test
is the exact form or the alias of the number before `ordinal`, `PassedOver` that
no cluster read so far has it, and `Missed` that the aliases left behind which no
entry has are no more than the failed reads. From the last, `FewOrdinals` bounds
`ordinal` by the pigeonhole principle: aliases of different numbers are different
(`AliasInjective`, from `DigitsInjective`), so there are no more of them than names in
the directory. With the bound, the digits fit (`DigitsMonotone`), and `NameableIs` shows
that the alias can be typed.

**Numbers.** The library's induction theorems take an operator as a parameter,
which the provers at hand cannot instantiate. `Numbers` has them over sets
instead: `Induct` and `InductUpTo` show that a set of numbers contains them all,
`FiniteRecursion` that a recursive definition has a function that satisfies it,
`RecursionByDivision` the same for one that divides its argument, as writing a number
in digits does. The rest is about quotients, remainders and multiples.

**Only model-checked:** liveness (`BootEnds`, `KernelReturns`, `DiskAnswers`,
`StartupEnds`, `SearchEnds`, `InputServed`), which is out of the prover's reach; the
properties of `Fat32` (`ChainsSeparate`, `DirectoriesSound`, `SpaceLostOnlyWhenFull`,
`InterruptedOldOrNew`, `ImplementsFiles`) and of `Shell` (`StaleCwdHarmless`,
`ResolvesRight`, `RunsRight`). An operation of `Fat32` is a plan of disk writes that folds
over chains and directories compute, and `Shell` folds over paths and lines:
what these compute for every input needs an induction for each fold.

## Not modelled

The kernel heap: `kmalloc` and `kfree` have no caller, so no state of the running
system has a heap in it. The set-up of the local APIC and of the timer, whose results nothing reads
(the calibration waits for the timer chip without a bound); access to PCI
configuration registers through ports; frame layout of traps; the table of
scancodes, glyphs and colours; the panic screen; the sample programs, for which
`Process` takes any program; string helpers; the image builder. Of the boot
loader: printing, the translation of pixel formats, and what
`gather_boot_device_info` and `gather_block_info` look at before they succeed or
fail. Of FAT32: volume labels,
the checks of the boot sector, torn writes of a cluster, and the read errors
that the count of long-name entries swallows. An operation
on a path that an earlier one left damaged is outside `FileStore`; the code does
not protect itself there: after an append that failed in `zero_cluster`, the
file's chain leads to a cluster that the next file gets, and a second append or
a removal of the first file reaches into it.
Timing and the contents of program memory are abstracted away.

## Plan

1. Proofs: the chain invariant of `Fat32`, then the look-ups of `Shell`.
2. `Fat32` over `SectorStore` with late commands, and operations on damaged paths
   as a specification of what they may destroy.
