------------------------------ MODULE Startup -------------------------------
(***************************************************************************)
(* From the firmware to the prompt: the boot loader (Boot) reads the       *)
(* kernel, leaves the boot services and jumps; kmain (kmain.c) brings the  *)
(* machine up and panics when acpi_init (Acpi) finds no local APIC; at the *)
(* prompt, lspci walks the PCI buses (Pci).  Each part works on what the   *)
(* firmware and the hardware present, and keeps nothing of the part before *)
(* it but its result.                                                      *)
(***************************************************************************)
EXTENDS Integers, Sequences

CONSTANTS
    Pages, Images, ModeLists, MaxAttempts, MaxEvents,
    Machines,   \* what firmware leaves for acpi_init
    Limit, RsdpSize, Rsdp2Size, HeaderSize, MadtSize, EntrySize, IoApicSize,
    MaxScan,
    BusCount, BusValues, DeviceCount, FunctionCount,
    Topologies  \* what may answer on the PCI buses

VARIABLES
    stage, \* loader, kernel, acpi, prompt, lspci
    lpc, image, segment, owner, pool, open, misuse, modes, shown, flags, epoch,
    key, mapped, attempts, exited,
    machine, apc, xsdt, root, next, cursor, info, reads,
    pci, wpc, at, limit, visited, stopped

loader == <<lpc, image, segment, owner, pool, open, misuse, modes, shown, flags,
            epoch, key, mapped, attempts, exited>>
tables == <<machine, apc, xsdt, root, next, cursor, info, reads>>
walk == <<pci, wpc, at, limit, visited, stopped>>
vars == <<stage, loader, tables, walk>>

Loader == INSTANCE Boot WITH pc <- lpc
Tables == INSTANCE Acpi WITH pc <- apc
Walk == INSTANCE Pci WITH pc <- wpc

\* The root tables and the MADT of a machine can be read as far as they say they
\* reach and as far as memory is mapped: whatever is there, it is numbers.
Readable(t) ==
    /\ t.entries \in Seq(Nat)
    /\ t.bytes \in Seq(Nat)
    /\ t.sig = "XSDT" => Len(t.entries) >= (t.length - HeaderSize) \div 2
    /\ t.sig = "RSDT" => Len(t.entries) >= t.length - HeaderSize
    /\ t.sig = "APIC" => \/ Len(t.bytes) >= t.length - MadtSize
                         \/ Len(t.bytes) >= MaxScan

MachineOk(m) ==
    LET Named == {m.rsdp.xsdt, m.rsdp.rsdt} \cup
                     UNION {{m.tables[a].entries[i] : i \in DOMAIN m.tables[a].entries} :
                                a \in DOMAIN m.tables}
    IN  /\ {m.rsdp.address, m.rsdp.length, m.rsdp.xsdt, m.rsdp.rsdt} \subseteq Nat
        /\ \A a \in Named : a \in 1 .. Limit - HeaderSize => a \in DOMAIN m.tables
        /\ \A a \in DOMAIN m.tables :
               /\ m.tables[a].length \in Nat
               /\ a + m.tables[a].length <= Limit => Readable(m.tables[a])

ASSUME StartupAssumption ==
    /\ MaxAttempts \in Nat \ {0}
    /\ MaxEvents \in Nat
    /\ \A i \in Images :
           /\ i \in Seq({i[s] : s \in DOMAIN i})
           /\ \A s \in DOMAIN i : i[s].pages \subseteq Pages
    /\ \A l \in ModeLists :
           /\ l \in Seq({l[m] : m \in DOMAIN l})
           /\ \A m \in DOMAIN l : {l[m].width, l[m].height} \subseteq Nat
    /\ {Limit, RsdpSize, HeaderSize, MaxScan} \subseteq Nat \ {0}
    /\ {Rsdp2Size, MadtSize, IoApicSize, BusValues} \subseteq Nat
    /\ Rsdp2Size >= RsdpSize
    /\ MadtSize >= HeaderSize
    /\ EntrySize = 2
    /\ IoApicSize > EntrySize
    /\ {BusCount, DeviceCount, FunctionCount} \subseteq Nat \ {0}
    /\ BusValues > BusCount
    /\ \A m \in Machines : MachineOk(m)

Init ==
    /\ stage = "loader"
    /\ Loader!Init
    /\ machine = <<>>
    /\ Tables!Init
    /\ pci = <<>>
    /\ Walk!Init

-----------------------------------------------------------------------------
\* A step of efi_main.
LoaderStep ==
    /\ stage = "loader"
    /\ Loader!Loader
    /\ UNCHANGED <<stage, tables, walk>>

\* A timer of the firmware, while there is one.
FirmwareStep ==
    /\ stage = "loader"
    /\ Loader!FirmwareEvent
    /\ UNCHANGED <<stage, tables, walk>>

\* The jump to _start; the memory of the loader is free from now on.
EnterKernel ==
    /\ stage = "loader"
    /\ lpc = "kernel"
    /\ stage' = "kernel"
    /\ lpc' = "jumped"
    /\ image' = <<>>
    /\ segment' = 1
    /\ owner' = [p \in Pages |-> 0]
    /\ pool' = {}
    /\ open' = 0
    /\ misuse' = FALSE
    /\ modes' = <<>>
    /\ shown' = 0
    /\ flags' = {}
    /\ epoch' = 0
    /\ key' = 0
    /\ mapped' = 0
    /\ attempts' = 0
    /\ exited' = TRUE
    /\ UNCHANGED <<tables, walk>>

\* kmain comes to acpi_init; which tables the firmware left shows only now.
CallAcpi ==
    /\ stage = "kernel"
    /\ stage' = "acpi"
    /\ machine' \in Machines
    /\ UNCHANGED <<loader, apc, xsdt, root, next, cursor, info, reads, walk>>

\* A step of acpi_init; when it returns false, kmain panics and nothing more
\* happens.
AcpiStep ==
    /\ stage = "acpi"
    /\ Tables!Next
    /\ UNCHANGED <<stage, loader, walk>>

\* acpi_init has returned true, and kmain goes on to shell_run.
ShellRun ==
    /\ stage = "acpi"
    /\ apc = "ok"
    /\ stage' = "prompt"
    /\ machine' = <<>>
    /\ xsdt' = FALSE
    /\ root' = 0
    /\ next' = 1
    /\ cursor' = 0
    /\ reads' = {}
    /\ info' = Tables!NoInfo
    /\ UNCHANGED <<apc, loader, walk>>

\* The user types lspci.
Lspci ==
    /\ stage = "prompt"
    /\ stage' = "lspci"
    /\ pci' \in Topologies
    /\ UNCHANGED <<loader, tables, wpc, at, limit, visited, stopped>>

WalkStep ==
    /\ stage = "lspci"
    /\ Walk!Next
    /\ UNCHANGED <<stage, loader, tables>>

\* pci_enumerate has returned, and the shell shows its prompt.
LspciDone ==
    /\ stage = "lspci"
    /\ wpc = "done"
    /\ stage' = "prompt"
    /\ pci' = <<>>
    /\ wpc' = "walk"
    /\ at' = <<0, 0, 0>>
    /\ limit' = 1
    /\ visited' = <<>>
    /\ stopped' = FALSE
    /\ UNCHANGED <<loader, tables>>

Next ==
    \/ LoaderStep \/ FirmwareStep \/ EnterKernel
    \/ CallAcpi \/ AcpiStep \/ ShellRun
    \/ Lspci \/ WalkStep \/ LspciDone

\* What the processor does once the inputs of a stage are known.
Processor ==
    \/ LoaderStep \/ EnterKernel
    \/ AcpiStep \/ ShellRun
    \/ WalkStep \/ LspciDone

\* Nothing but the firmware's own timers runs beside the code.
Spec == Init /\ [][Next]_vars /\ WF_vars(Processor)

-----------------------------------------------------------------------------
\* What the loader hands over is right, whichever firmware call failed and
\* however often the firmware changed its map: files and buffers are released
\* exactly once, every segment of the kernel is whole in pages that were free,
\* the memory map is the one in force when the boot services ended, and the
\* graphics mode is the one select_graphics_mode is meant to choose (boot.c).
Handover ==
    /\ Loader!ReadFileReleases
    /\ Loader!SegmentsIntact
    /\ Loader!MapIsCurrent
    /\ Loader!ModeIsBest

\* What the kernel finds is there: the tables it takes the APICs from are
\* valid and read only where memory is mapped, and lspci shows every function
\* behind a present function 0 exactly once (acpi.c, acpi_init; pci.c,
\* pci_enumerate).
FindsHardware ==
    /\ stage = "acpi" => Tables!ReadsMapped /\ Tables!FoundIsThere
    /\ stage = "lspci" => Walk!SeesAllOnce

\* A stage is at work: the loader has not given up, acpi_init has not failed, or
\* lspci is walking.
AtWork ==
    \/ stage = "loader" /\ lpc # "error"
    \/ stage = "acpi" /\ apc # "failed"
    \/ stage = "lspci"

\* Every stage ends, with an error or in the next stage, on whatever the firmware
\* does and leaves in memory, and so does every lspci: the exit loop is bounded, a
\* malformed table is left, and the last bus does not wrap to the first.
StartupEnds == AtWork ~> ~AtWork
=============================================================================
