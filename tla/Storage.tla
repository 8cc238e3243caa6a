------------------------------ MODULE Storage -------------------------------
(***************************************************************************)
(* The disk as the file system gets it: block_init chooses a disk and its  *)
(* driver (Block), and from then on every transfer goes to that driver     *)
(* (Ahci or Ata).  What block_init worked with is on its stack or is not   *)
(* looked at again, so only the choice is kept.                            *)
(***************************************************************************)
EXTENDS Naturals, Sequences

CONSTANTS
    Buses, PciSlots, Ports, DevicePaths, Topologies, MaxHops, NoBus,
    AddressSpace, Buffers, HighBuffers, Data, Blank, MaxCount, None

VARIABLES
    backend, \* the backend of g_block_device: none, ahci, ata
    path, pci, drives, bpc, registered, candidates, next, gport, target,
    disk, mem, pc, call, outcome, table, ci, tfes, engine, moved, halted,
    pdisk, pmem, ppc, pcall, psector, poutcome, pending, phase, cmd, latch,
    err, abandoned, lost

search == <<path, pci, drives, bpc, registered, candidates, next, gport, target>>
ahci == <<disk, mem, pc, call, outcome, table, ci, tfes, engine, moved, halted>>
pio == <<pdisk, pmem, ppc, pcall, psector, poutcome, pending, phase, cmd, latch,
         err, abandoned, lost>>
vars == <<backend, search, ahci, pio>>

Choice == INSTANCE Block WITH pc <- bpc
AhciDriver == INSTANCE Ahci WITH Lbas <- 0 .. AddressSpace - 1
AtaDriver == INSTANCE Ata WITH
    disk <- pdisk, mem <- pmem, pc <- ppc, call <- pcall, sector <- psector,
    outcome <- poutcome

ASSUME StorageAssumption ==
    /\ 0 \in Buses
    /\ NoBus \notin Buses
    /\ {AddressSpace, MaxCount} \subseteq Nat \ {0}
    /\ HighBuffers \subseteq Buffers
    /\ Blank \in Data
    /\ None \notin AhciDriver!Requests
    /\ None \notin [req : AhciDriver!Requests, ok : BOOLEAN]
    /\ None \notin AtaDriver!Requests
    /\ None \notin [req : AtaDriver!Requests, ok : BOOLEAN]
    /\ None \notin AtaDriver!Commands
    /\ \A p \in DevicePaths :
           /\ p \in Seq({p[i] : i \in DOMAIN p})
           /\ \A i \in DOMAIN p : p[i].kind = "pci" => p[i].slot \in PciSlots
    /\ \A t \in Topologies : \A a \in Buses \X PciSlots :
           t[a].class = "bridge" => t[a].secondary \in Buses \cup {NoBus}

Init ==
    /\ backend = "none"
    /\ Choice!Init
    /\ AhciDriver!Init
    /\ AtaDriver!Init

-----------------------------------------------------------------------------
\* A step of block_init.
BlockInit ==
    /\ backend = "none"
    /\ Choice!Next
    /\ UNCHANGED <<backend, ahci, pio>>

\* block_init returns true, and fs_init goes on with the disk.
Bind ==
    /\ backend = "none"
    /\ bpc = "bound"
    /\ backend' = target[1].backend
    /\ path' = <<>>
    /\ pci' = <<>>
    /\ drives' = {}
    /\ bpc' = "returned"
    /\ registered' = <<>>
    /\ candidates' = <<>>
    /\ next' = <<1, 1>>
    /\ gport' = <<>>
    /\ target' = <<>>
    /\ UNCHANGED <<ahci, pio>>

\* block_read_sectors and block_write_sectors call the functions that the
\* probe put into g_block_device.
ServeAhci ==
    /\ backend = "ahci"
    /\ AhciDriver!Next
    /\ UNCHANGED <<backend, search, pio>>

ServeAta ==
    /\ backend = "ata"
    /\ AtaDriver!Next
    /\ UNCHANGED <<backend, search, ahci>>

Next == BlockInit \/ Bind \/ ServeAhci \/ ServeAta

\* The steps of the kernel's one thread, but for the decision to make a call.
Kernel ==
    \/ BlockInit
    \/ Bind
    \/ backend = "ahci" /\ AhciDriver!DriverStep /\ UNCHANGED <<backend, search, pio>>
    \/ backend = "ata" /\ AtaDriver!DriverStep /\ UNCHANGED <<backend, search, ahci>>

Fetch ==
    backend = "ahci" /\ AhciDriver!Fetch /\ UNCHANGED <<backend, search, pio>>

\* The kernel runs alone, and the loops of the drivers are bounded, so they
\* keep going whatever the disk does; a controller that is not halted fetches
\* what is issued.  Nothing is assumed of the drives.
Fairness == WF_vars(Kernel) /\ WF_vars(Fetch)

Spec == Init /\ [][Next]_vars /\ Fairness

-----------------------------------------------------------------------------
\* The disk that is bound is the one the firmware booted from, if the path it
\* reported leads to one that works: AHCI is never bound to another disk, a
\* path to a SATA disk that works is never served by another driver, and one
\* to an ATA drive only by that drive (block.c, block_init).
BindsBootDisk ==
    bpc # "returned" => Choice!AhciIsBootDisk /\ Choice!NamedDiskWins

\* Whichever driver serves, a transfer that was reported done is done, and no
\* command of an earlier call is taken for the one at hand; for ATA, as long
\* as no command was abandoned and no write failed after its data (ahci.c,
\* ahci_issue_io; ata.c, ata_read_sectors and ata_write_sectors).
TransfersDone ==
    /\ AhciDriver!SuccessMeansDone
    /\ AhciDriver!TableStable
    /\ AtaDriver!SuccessMeansDone
    /\ AtaDriver!OneCommandAtATime

\* The AHCI call as SectorStore sees it.  An abandoned command is what the
\* controller is still executing when no call, or another call, is active.
Store == INSTANCE SectorStore WITH
    Lbas <- 0 .. AddressSpace - 1,
    moved <- IF pc = "poll" /\ ~ci THEN (IF tfes THEN 0 ELSE call.count)
             ELSE IF pc = "poll" /\ engine # None THEN moved
             ELSE 0,
    late <- IF engine # None /\ pc # "poll" THEN engine ELSE None,
    result <- IF outcome = None THEN "none"
              ELSE IF outcome.ok THEN "true" ELSE "false"

\* The AHCI driver keeps the promise of SectorStore: data moves only for a call
\* or for a command a failed call left behind, a call moves data only when
\* nothing is left behind, and a call that returns true has moved everything
\* and leaves nothing behind (ahci.c, ahci_issue_io).
StoreSpec == Store!Spec

\* block_init is at work, or a call of a driver is.
Working ==
    \/ bpc \notin {"failed", "returned"}
    \/ pc # "idle"
    \/ ppc # "idle"

\* The disk answers: block_init decides, and then every call returns, even if
\* the drive never does (block.c, driver_core_probe; the bounded polls of ahci.c
\* and ata.c).
DiskAnswers == Working ~> ~Working
=============================================================================
