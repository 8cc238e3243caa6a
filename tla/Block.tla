------------------------------- MODULE Block --------------------------------
(***************************************************************************)
(* The choice of the runtime disk: block_init of src/kernel/block.c with   *)
(* the driver registry (driver.c), the PCI path walk and the probes of the *)
(* two disk drivers.  The boot loader hands over the firmware's device     *)
(* path of the boot disk; block_init turns it into candidates, tries them  *)
(* in order and binds the first that probes.                               *)
(***************************************************************************)
EXTENDS Naturals, Sequences, FiniteSets

CONSTANTS
    Buses,      \* PCI bus numbers, 0 the root bus
    PciSlots,   \* device and function numbers on a bus
    Ports,      \* ports of an AHCI controller, those below 32
    DevicePaths,\* the device paths the firmware may report
    Topologies, \* what may sit on the PCI buses
    MaxHops,    \* BLOCK_MAX_PCI_PATH_DEPTH
    NoBus       \* a secondary bus register that reads 0xFF

VARIABLES
    path,       \* BootInfo.boot_device_path, a sequence of nodes
    pci,        \* pci[<<bus, slot>>]: what answers there
    drives,     \* the <<controller, port>> pairs with a drive that starts
    pc,         \* start, collect, probe, bound, failed
    registered, \* g_registered
    candidates, \* the candidates of block_init
    next,       \* the <<device, driver>> indices driver_core_probe is at
    gport,      \* g_port of ahci.c, or <<>>
    target      \* g_block_device: the disk its functions reach, or <<>>

vars == <<path, pci, drives, pc, registered, candidates, next, gport, target>>

Addresses == Buses \X PciSlots

\* A node of a device path: a PCI hop, a SATA port, an ATAPI drive, the end
\* node, a node with a length that does not fit, or any other node.
Hop(slot) == [kind |-> "pci", slot |-> slot]
Sata(p, valid) == [kind |-> "sata", port |-> p, valid |-> valid]
Atapi(c, d) == [kind |-> "atapi", channel |-> c, drive |-> d]
Node(k) == [kind |-> k]

AhciDisk(a, p) == [backend |-> "ahci", controller |-> a, port |-> p]
AtaDisk(c, d) == [backend |-> "ata", channel |-> c, drive |-> d]

Init ==
    /\ path \in DevicePaths
    /\ pci \in Topologies
    /\ drives \in SUBSET {d \in Addresses \X Ports : pci[d[1]].class = "ahci"}
    /\ pc = "start"
    /\ registered = <<>>
    /\ candidates = <<>>
    /\ next = <<1, 1>>
    /\ gport = <<>>
    /\ target = <<>>

-----------------------------------------------------------------------------
\* The device path.

\* The index of the first node of one of the kinds, or one past the end.
First(p, kinds) ==
    CHOOSE i \in 1 .. Len(p) + 1 :
        /\ i <= Len(p) => p[i].kind \in kinds
        /\ \A j \in 1 .. i - 1 : p[j].kind \notin kinds

\* The nodes a scan visits.
Visited(p) == SubSeq(p, 1, First(p, {"end"}) - 1)

\* The nodes of a kind that a scan collects, in order: after i nodes it has
\* taken take[i].
Taken(nodes, kind) ==
    LET take[i \in 0 .. Len(nodes)] ==
            IF i = 0 THEN <<>>
            ELSE IF nodes[i].kind = kind THEN Append(take[i - 1], nodes[i])
            ELSE take[i - 1]
    IN  take[Len(nodes)]

Hops(p) == Taken(Visited(p), "pci")
Satas(p) == Taken(Visited(p), "sata")

\* block_boot_path_to_ata: the first ATAPI node decides.
block_boot_path_to_ata(p) ==
    LET i == First(p, {"atapi", "bad", "end"}) IN
    IF i > Len(p) \/ p[i].kind = "end" THEN [result |-> "ABSENT"]
    ELSE IF p[i].kind = "bad" \/ p[i].channel > 1 \/ p[i].drive > 1
    THEN [result |-> "INVALID"]
    ELSE [result |-> "FOUND", disk |-> AtaDisk(p[i].channel, p[i].drive)]

\* Mutant of WalkBus: bridges are not followed.
WalkBus_Flat(hops) == [i \in 1 .. Len(hops) |-> 0]

\* The buses a walk along the hops passes: bus i is the bus of hop i, NoBus
\* once a hop is absent or is no bridge to another bus.
WalkBus(hops) ==
    LET bus[i \in 1 .. Len(hops)] ==
            IF i = 1 THEN 0
            ELSE IF bus[i - 1] = NoBus THEN NoBus
            ELSE LET at == pci[<<bus[i - 1], hops[i - 1].slot>>] IN
                 IF at.class = "bridge" THEN at.secondary ELSE NoBus
    IN  bus

\* block_resolve_pci_path: the set of addresses it may yield, one or none.
block_resolve_pci_path(hops) ==
    {a \in Addresses :
        /\ hops # <<>>
        /\ a = <<WalkBus(hops)[Len(hops)], hops[Len(hops)].slot>>
        /\ pci[a].class # "absent"}

\* block_boot_path_to_ahci: the last SATA node gives the port, all PCI nodes
\* together the controller.
block_boot_path_to_ahci(p) ==
    {AhciDisk(a, Satas(p)[Len(Satas(p))].port) :
        a \in {b \in block_resolve_pci_path(Hops(p)) :
                  /\ \A i \in DOMAIN Visited(p) : Visited(p)[i].kind # "bad"
                  /\ Satas(p) # <<>>
                  /\ \A i \in DOMAIN Satas(p) : Satas(p)[i].valid
                  /\ Len(Hops(p)) <= MaxHops}}

-----------------------------------------------------------------------------
\* block_init.

\* g_block_device and the registry are reset and both drivers registered; the
\* registry has room for sixteen.
Register ==
    /\ pc = "start"
    /\ target' = <<>>
    /\ registered' = <<"ahci", "ata">>
    /\ pc' = "collect"
    /\ UNCHANGED <<path, pci, drives, candidates, next, gport>>

\* The candidates: the AHCI disk of the path if it names one, then the ATA
\* drive of the path, or the first drive if the path names none.
Collect ==
    LET ata == block_boot_path_to_ata(path)
        ahci == block_boot_path_to_ahci(path)
    IN
    /\ pc = "collect"
    /\ ata.result # "INVALID"
    /\ \E sata \in {<<>>} \cup {<<d>> : d \in ahci} :
           /\ (sata = <<>>) = (ahci = {})
           /\ candidates' =
                  Append(sata, IF ata.result = "FOUND" THEN ata.disk
                               ELSE AtaDisk(0, 0))
    /\ pc' = "probe"
    /\ UNCHANGED <<path, pci, drives, registered, next, gport, target>>

CollectInvalid ==
    /\ pc = "collect"
    /\ block_boot_path_to_ata(path).result = "INVALID"
    /\ pc' = "failed"
    /\ UNCHANGED <<path, pci, drives, registered, candidates, next, gport,
                   target>>

\* driver_core_probe goes to the next driver, then to the next device.
Advance ==
    next' = IF next[2] < Len(registered) THEN <<next[1], next[2] + 1>>
            ELSE <<next[1] + 1, 1>>

Device == candidates[next[1]]
Matches == Device.backend = registered[next[2]]

\* The driver at hand does not match the device at hand.
Mismatch ==
    /\ pc = "probe"
    /\ next[1] <= Len(candidates)
    /\ ~Matches
    /\ Advance
    /\ UNCHANGED <<path, pci, drives, pc, registered, candidates, gport, target>>

\* The port comes up: it is implemented, has a drive, memory for its commands
\* can be had, and it becomes ready.
ahci_configure_port(d) == <<d.controller, d.port>> \in drives

\* ahci_init wants an AHCI controller with the port; g_port is set before the
\* drive is looked at, and stays set when the port does not come up.
ahci_init ==
    \/ /\ pci[Device.controller].class = "ahci"
       /\ gport' = <<Device>>
    \/ /\ ~ahci_configure_port(Device)
       /\ UNCHANGED gport

\* block_driver_probe_ahci.
ProbeAhci ==
    /\ pc = "probe"
    /\ next[1] <= Len(candidates)
    /\ Matches
    /\ Device.backend = "ahci"
    /\ ahci_init
    /\ IF ahci_configure_port(Device)
       THEN /\ target' = <<Device>>
            /\ pc' = "bound"
            /\ UNCHANGED next
       ELSE /\ Advance
            /\ UNCHANGED <<pc, target>>
    /\ UNCHANGED <<path, pci, drives, registered, candidates>>

\* block_driver_probe_ata: ata_init selects the ports and asks no drive, so
\* this always binds, and driver_core_probe never runs out of candidates.
ProbeAta ==
    /\ pc = "probe"
    /\ next[1] <= Len(candidates)
    /\ Matches
    /\ Device.backend = "ata"
    /\ target' = <<Device>>
    /\ pc' = "bound"
    /\ UNCHANGED <<path, pci, drives, registered, candidates, next, gport>>

Next ==
    \/ Register
    \/ Collect
    \/ CollectInvalid
    \/ Mismatch
    \/ ProbeAhci
    \/ ProbeAta

-----------------------------------------------------------------------------
\* The disk a path stands for, said without the code's scan: an AHCI port
\* reached by stepping from bus 0 through one bridge per PCI node.
Reaches(p, bus, a) ==
    \E route \in [1 .. Len(Hops(p)) -> Buses] :
        /\ Hops(p) # <<>>
        /\ route[1] = bus
        /\ \A i \in 1 .. Len(Hops(p)) - 1 :
               LET at == pci[<<route[i], Hops(p)[i].slot>>] IN
               at.class = "bridge" /\ at.secondary = route[i + 1]
        /\ a = <<route[Len(Hops(p))], Hops(p)[Len(Hops(p))].slot>>

BootDisks ==
    {AhciDisk(a, Satas(path)[i].port) :
        a \in {b \in Addresses : Reaches(path, 0, b)},
        i \in DOMAIN Satas(path)}
    \cup {AtaDisk(n.channel, n.drive) :
             n \in {m \in {Visited(path)[i] : i \in DOMAIN Visited(path)} :
                       m.kind = "atapi"}}

\* The AHCI driver is never bound to a disk other than the one the firmware
\* booted from: its controller is the one the path's bridges lead to, its
\* port the path's, and it has a drive (block.c, block_boot_path_to_ahci and
\* block_resolve_pci_path).
AhciIsBootDisk ==
    target # <<>> /\ target[1].backend = "ahci" =>
        /\ target[1] \in BootDisks
        /\ <<target[1].controller, target[1].port>> \in drives
        /\ gport = target

\* A path that names a SATA disk that works is never served by another
\* driver, and one that names an ATA drive only by that drive, or by nothing.
NamedDiskWins ==
    pc = "bound" =>
        /\ \A d \in block_boot_path_to_ahci(path) :
               <<d.controller, d.port>> \in drives => target = <<d>>
        /\ (target[1].backend = "ata"
               /\ \E i \in DOMAIN Visited(path) :
                      Visited(path)[i].kind = "atapi")
               => target[1] \in BootDisks

=============================================================================
