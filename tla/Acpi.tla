-------------------------------- MODULE Acpi --------------------------------
(***************************************************************************)
(* The search of the firmware's tables, acpi_init of src/kernel/acpi.c:    *)
(* from the root pointer (RSDP) to a root table (XSDT or RSDT), through    *)
(* its entries to the MADT and the FADT, and through the entries of the    *)
(* MADT, whose lengths are bytes of the table, to the first I/O APIC.  The *)
(* kernel reads physical addresses below Limit, which paging_init maps.    *)
(***************************************************************************)
EXTENDS Integers, Sequences

CONSTANTS
    Limit,       \* ACPI_MAX_IDENTITY_ADDRESS (4 GiB)
    RsdpSize,    \* sizeof(AcpiRsdpV1) and sizeof(AcpiRsdpV2)
    Rsdp2Size,
    HeaderSize,  \* sizeof(AcpiSdtHeader)
    MadtSize,    \* sizeof(AcpiMadt): header, local APIC address, flags
    EntrySize,   \* sizeof(AcpiMadtEntryHeader): a type and a length
    IoApicSize,  \* sizeof(AcpiMadtIoApic)
    MaxScan      \* ACPI_MAX_MADT_SCAN_BYTES

VARIABLES
    machine, \* the root pointer and the tables by address
    pc,      \* rsdp, root, tables, madt, ok, failed
    xsdt,    \* use_xsdt
    root,    \* sdt_root
    next,    \* the loop variable over the root's entries
    cursor,  \* the cursor in the MADT, from the end of its fixed part
    info,    \* g_acpi
    reads    \* history: what the last step read, as <<address, size>>

vars == <<machine, pc, xsdt, root, next, cursor, info, reads>>

IoApicType == 1 \* ACPI_MADT_ENTRY_IOAPIC
NoInfo == [present |-> FALSE, root |-> 0, madt |-> 0, fadt |-> 0, lapic |-> 0,
           ioapic |-> 0]

Rsdp == machine.rsdp
Table(a) == machine.tables[a]

\* Addresses and sizes are 64 bits wide; a sum that wraps is too large too.
acpi_memory_readable(a, size) == a # 0 /\ size # 0 /\ a + size <= Limit

\* Mutant of acpi_validate_header: the checksum is not looked at.
acpi_validate_header_NoSum(a, sig) ==
    /\ acpi_memory_readable(a, HeaderSize)
    /\ Table(a).sig = sig
    /\ Table(a).length >= HeaderSize
    /\ acpi_memory_readable(a, Table(a).length)

\* acpi_validate_header.  It reads the header and, for the checksum, at most
\* the whole table.
acpi_validate_header(a, sig) ==
    /\ acpi_memory_readable(a, HeaderSize)
    /\ Table(a).sig = sig
    /\ Table(a).length >= HeaderSize
    /\ acpi_memory_readable(a, Table(a).length)
    /\ Table(a).sum
HeaderReads(a) ==
    {<<a, HeaderSize>>} \cup
        IF acpi_memory_readable(a, Table(a).length) THEN {<<a, Table(a).length>>}
        ELSE {}

\* g_acpi and the locals of acpi_init at its start; what machine it runs on is
\* up to Startup.
Init ==
    /\ pc = "rsdp"
    /\ xsdt = FALSE
    /\ root = 0
    /\ next = 1
    /\ cursor = 0
    /\ info = NoInfo
    /\ reads = {}

-----------------------------------------------------------------------------
\* The root pointer.

ValidV1 ==
    /\ acpi_memory_readable(Rsdp.address, RsdpSize)
    /\ Rsdp.signed
    /\ Rsdp.sum
ValidV2 ==
    /\ acpi_memory_readable(Rsdp.address, Rsdp2Size)
    /\ Rsdp.length >= Rsdp2Size
    /\ acpi_memory_readable(Rsdp.address, Rsdp.length)
    /\ Rsdp.extendedSum
RsdpAccepted == ValidV1 /\ (Rsdp.revision >= 2 => ValidV2)
RsdpReads ==
    IF ~acpi_memory_readable(Rsdp.address, RsdpSize) THEN {}
    ELSE {<<Rsdp.address, RsdpSize>>} \cup
            IF ValidV1 /\ Rsdp.revision >= 2
               /\ acpi_memory_readable(Rsdp.address, Rsdp.length)
            THEN {<<Rsdp.address, Rsdp.length>>} ELSE {}

\* An XSDT beyond the mapped addresses is passed over for the RSDT.
UsesXsdt == Rsdp.revision >= 2 /\ Rsdp.xsdt # 0 /\ Rsdp.xsdt < Limit

FindRoot ==
    /\ pc = "rsdp"
    /\ RsdpAccepted
    /\ xsdt' = UsesXsdt
    /\ root' = IF UsesXsdt THEN Rsdp.xsdt ELSE Rsdp.rsdt
    /\ pc' = IF root' = 0 THEN "failed" ELSE "root"
    /\ reads' = RsdpReads
    /\ UNCHANGED <<machine, next, cursor, info>>

RejectRsdp ==
    /\ pc = "rsdp"
    /\ ~RsdpAccepted
    /\ pc' = "failed"
    /\ reads' = RsdpReads
    /\ UNCHANGED <<machine, xsdt, root, next, cursor, info>>

RootSig == IF xsdt THEN "XSDT" ELSE "RSDT"

ReadRoot ==
    /\ pc = "root"
    /\ reads' = IF acpi_memory_readable(root, HeaderSize) THEN HeaderReads(root)
                ELSE {}
    /\ IF acpi_validate_header(root, RootSig)
       THEN /\ pc' = "tables"
            /\ info' = [NoInfo EXCEPT !.present = TRUE, !.root = root]
       ELSE /\ pc' = "failed"
            /\ UNCHANGED info
    /\ UNCHANGED <<machine, xsdt, root, next, cursor>>

-----------------------------------------------------------------------------
\* The tables.

\* entries_count: what is left of a whole entry at the end is not looked at.
EntryCount ==
    (Table(root).length - HeaderSize) \div (IF xsdt THEN 2 ELSE 1)
Entry == Table(root).entries[next]

\* An address beyond the mapped ones, a table that is not valid, or one of
\* no interest.
SkipTable ==
    /\ pc = "tables"
    /\ next <= EntryCount
    /\ \/ ~acpi_memory_readable(Entry, HeaderSize)
       \/ \A sig \in {"APIC", "FACP"} : ~acpi_validate_header(Entry, sig)
    /\ next' = next + 1
    /\ reads' = IF acpi_memory_readable(Entry, HeaderSize)
                THEN HeaderReads(Entry) ELSE {}
    /\ UNCHANGED <<machine, pc, xsdt, root, cursor, info>>

Fadt ==
    /\ pc = "tables"
    /\ next <= EntryCount
    /\ acpi_validate_header(Entry, "FACP")
    /\ info' = [info EXCEPT !.fadt = Entry]
    /\ next' = next + 1
    /\ reads' = HeaderReads(Entry)
    /\ UNCHANGED <<machine, pc, xsdt, root, cursor>>

\* acpi_scan_madt up to its loop.  The local APIC's address is read from the
\* fixed part even if the table is shorter.
Madt ==
    /\ pc = "tables"
    /\ next <= EntryCount
    /\ acpi_validate_header(Entry, "APIC")
    /\ info' = [info EXCEPT !.madt = Entry, !.lapic = Table(Entry).lapic]
    /\ cursor' = 0
    /\ pc' = "madt"
    /\ reads' = HeaderReads(Entry) \cup {<<Entry, MadtSize>>}
    /\ UNCHANGED <<machine, xsdt, root, next>>

\* Where the scan ends, from the end of the fixed part; below 0 for a table
\* that is too short.
ScanEnd ==
    LET rest == Table(Entry).length - MadtSize
    IN  IF rest > MaxScan THEN MaxScan ELSE rest

TypeAt(c) == Table(Entry).bytes[c + 1]
LengthAt(c) == Table(Entry).bytes[c + 2]

\* Mutant of EntryFits: an entry of no length is passed over.
EntryFits_Empty == cursor + LengthAt(cursor) <= ScanEnd

EntryFits == LengthAt(cursor) >= EntrySize /\ cursor + LengthAt(cursor) <= ScanEnd

IsIoApic == TypeAt(cursor) = IoApicType /\ LengthAt(cursor) >= IoApicSize

AtEntry(size) == {<<Entry + MadtSize + cursor, size>>}

\* The scan ends; on with the next table.
MadtDone ==
    /\ pc' = "tables"
    /\ next' = next + 1
    /\ UNCHANGED cursor

\* One round of the loop over the entries of the MADT.
MadtEntry ==
    /\ pc = "madt"
    /\ \/ /\ cursor + EntrySize > ScanEnd
          /\ MadtDone
          /\ reads' = {}
          /\ UNCHANGED info
       \/ /\ cursor + EntrySize <= ScanEnd
          /\ ~EntryFits
          /\ MadtDone
          /\ reads' = AtEntry(EntrySize)
          /\ UNCHANGED info
       \/ /\ cursor + EntrySize <= ScanEnd
          /\ EntryFits
          /\ IsIoApic
          /\ info' = [info EXCEPT !.ioapic = Table(Entry).bytes[cursor + 3]]
          /\ MadtDone
          /\ reads' = AtEntry(IoApicSize)
       \/ /\ cursor + EntrySize <= ScanEnd
          /\ EntryFits
          /\ ~IsIoApic
          /\ cursor' = cursor + LengthAt(cursor)
          /\ reads' = AtEntry(EntrySize)
          /\ UNCHANGED <<pc, next, info>>
    /\ UNCHANGED <<machine, xsdt, root>>

\* acpi_init returns; without a local APIC kmain panics.
Finish ==
    /\ pc = "tables"
    /\ next > EntryCount
    /\ pc' = IF info.madt # 0 /\ info.lapic # 0 THEN "ok" ELSE "failed"
    /\ reads' = {}
    /\ UNCHANGED <<machine, xsdt, root, next, cursor, info>>

Next ==
    \/ FindRoot \/ RejectRsdp \/ ReadRoot
    \/ SkipTable \/ Fadt \/ Madt \/ MadtEntry \/ Finish

-----------------------------------------------------------------------------
\* Nothing is read that paging_init did not map: neither by a table that
\* straddles the limit, nor by an entry of a table that claims to be longer
\* than it is (acpi.c, acpi_memory_readable).  The fixed part of a MADT that is
\* shorter than that part is the exception.
ReadsMapped ==
    \A r \in reads :
        \/ r[1] > 0 /\ r[1] + r[2] <= Limit
        \/ /\ pc = "madt"
           /\ r = <<Entry, MadtSize>>
           /\ Table(Entry).length < MadtSize

\* The entries of the root table that lead to a correct table below the limit.
Named(sig) ==
    {i \in 1 .. EntryCount :
        LET a == Table(root).entries[i] IN
        /\ a \in 1 .. Limit - HeaderSize
        /\ Table(a).sig = sig
        /\ Table(a).sum
        /\ Table(a).length \in HeaderSize .. Limit - a}
Latest(s) == CHOOSE i \in s : \A j \in s : j <= i

\* The places of the entries of a MADT: each at the end of the one before,
\* all within the part that is scanned.
Places(t) ==
    LET end == IF t.length - MadtSize > MaxScan THEN MaxScan
               ELSE t.length - MadtSize
        Fits(c) == /\ c + EntrySize <= end
                   /\ t.bytes[c + 2] >= EntrySize
                   /\ c + t.bytes[c + 2] <= end
        Closed(s) == \A c \in s : c = 0 \/ \E d \in s : c = d + t.bytes[d + 2]
    IN  UNION {s \in SUBSET {c \in 0 .. end - EntrySize : Fits(c)} : Closed(s)}
IoApics(t) ==
    {c \in Places(t) : t.bytes[c + 1] = IoApicType /\ t.bytes[c + 2] >= IoApicSize}

\* When acpi_init succeeds, what it found is what valid tables say: the local
\* APIC of the last MADT, its first I/O APIC (or an earlier MADT's, if it has
\* none), the last FADT.
FoundIsThere ==
    pc = "ok" =>
        LET madts == Named("APIC")
            fadts == Named("FACP")
            At(i) == Table(root).entries[i]
            with == {i \in madts : IoApics(Table(At(i))) # {}}
            First(s) == CHOOSE c \in s : \A d \in s : c <= d
        IN  /\ madts # {}
            /\ info.madt = At(Latest(madts))
            /\ info.lapic = Table(info.madt).lapic
            /\ info.fadt = IF fadts = {} THEN 0 ELSE At(Latest(fadts))
            /\ info.ioapic =
                   IF with = {} THEN 0
                   ELSE LET t == Table(At(Latest(with)))
                        IN  t.bytes[First(IoApics(t)) + 3]

=============================================================================
