-------------------------------- MODULE Ata ---------------------------------
(***************************************************************************)
(* The ATA PIO driver, src/kernel/ata.c.  One command per sector: wait     *)
(* until the drive is not busy, select it, write the address and the       *)
(* command, wait for DRQ, move 256 words through the data port.  Every     *)
(* wait is bounded; when one runs out the call fails and the drive is not  *)
(* reset, so the command stays with the drive.                             *)
(*                                                                         *)
(* The drive (external) may take a moment to see a command (the driver     *)
(* reads the status without the 400 ns delay), may be slow, and may fail.  *)
(* A command written while the drive is busy or has DRQ set is undefined:  *)
(* some drives start it, some (and QEMU) ignore it.                        *)
(***************************************************************************)
EXTENDS Naturals

CONSTANTS
    AddressSpace, \* number of addresses that fit in the registers (2^28)
    Data,         \* contents of one sector
    Blank,        \* what sectors and the buffer hold at first
    MaxCount,     \* the longest transfer, in sectors
    None          \* no call, no command

VARIABLES
    disk,      \* disk[l]: the contents of sector l
    mem,       \* mem[i]: the contents of slot i of the caller's buffer
    pc,        \* idle, select, drq, data, settle (after the data of a write)
    call,      \* the arguments of ata_read_sectors or ata_write_sectors
    sector,    \* the loop variable
    outcome,   \* the last call and what it returned, or None
    pending,   \* a command written to the register, not yet seen, or None
    phase,     \* the drive: idle, busy, drq, flush (has the data of a write)
    cmd,       \* the command the drive is executing
    latch,     \* the data the drive has buffered for a transfer
    err,       \* status ERR or DF
    abandoned, \* history: a call has failed with its command still alive
    lost       \* history: the drive has failed a write after taking its data

program == <<pc, call, sector, outcome>>
drive == <<pending, phase, cmd, latch, err>>
vars == <<disk, mem, pc, call, sector, outcome,
          pending, phase, cmd, latch, err, abandoned, lost>>

Lbas == 0 .. AddressSpace - 1
Slots == 0 .. MaxCount - 1

\* A caller may ask for any 32-bit sector number; twice the address space
\* stands for the numbers that do not fit.
Requests ==
    [lba : 0 .. 2 * AddressSpace - 1, count : 0 .. MaxCount, write : BOOLEAN]

Commands == [lba : Lbas, write : BOOLEAN]

Init ==
    /\ disk = [l \in Lbas |-> Blank]
    /\ mem = [i \in Slots |-> Blank]
    /\ pc = "idle"
    /\ call = None
    /\ sector = 0
    /\ outcome = None
    /\ pending = None
    /\ phase = "idle"
    /\ cmd = None
    /\ latch = Blank
    /\ err = FALSE
    /\ abandoned = FALSE
    /\ lost = FALSE

-----------------------------------------------------------------------------
\* The driver.

\* A command is alive: it waits in the register or the drive works on it.
Alive == pending # None \/ phase # "idle"

\* The address registers hold 28 bits of lba + sector.
Address == (call.lba + sector) % AddressSpace

Return(ok) ==
    /\ pc' = "idle"
    /\ call' = None
    /\ sector' = 0
    /\ outcome' = [req |-> call, ok |-> ok]
    /\ abandoned' = (abandoned \/ (~ok /\ Alive))

\* Entry of ata_read_sectors and ata_write_sectors.
IoSectors(r) ==
    /\ pc = "idle"
    /\ IF r.count = 0 \/ r.lba >= AddressSpace
       THEN /\ outcome' = [req |-> r, ok |-> r.count = 0]
            /\ UNCHANGED <<pc, call>>
       ELSE /\ pc' = "select"
            /\ call' = r
            /\ outcome' = None
    /\ UNCHANGED <<disk, mem, sector, drive, abandoned, lost>>

\* BSY as the status register shows it.
Busy == phase \in {"busy", "flush"}

\* ata_wait_not_busy succeeds; the registers and the command are written.
Command ==
    /\ pc = "select"
    /\ ~Busy
    /\ pending' = [lba |-> Address, write |-> call.write]
    /\ pc' = "drq"
    /\ UNCHANGED <<disk, mem, call, sector, outcome, phase, cmd, latch, err,
                   abandoned, lost>>

\* Mutant of BusyTimeout: the wait starts over.
BusyTimeout_Forever ==
    /\ pc \in {"select", "settle"}
    /\ Busy
    /\ UNCHANGED vars

\* ata_wait_not_busy runs out, before a command or after the data of a write.
BusyTimeout ==
    /\ pc \in {"select", "settle"}
    /\ Busy
    /\ Return(FALSE)
    /\ UNCHANGED <<disk, mem, drive, lost>>

\* ata_wait_drq sees ERR or DF, possibly those of an earlier command.
DrqError ==
    /\ pc = "drq"
    /\ err
    /\ Return(FALSE)
    /\ UNCHANGED <<disk, mem, drive, lost>>

\* ata_wait_drq runs out.
DrqTimeout ==
    /\ pc = "drq"
    /\ ~err
    /\ phase # "drq"
    /\ Return(FALSE)
    /\ UNCHANGED <<disk, mem, drive, lost>>

\* ata_wait_drq sees DRQ.
DrqReady ==
    /\ pc = "drq"
    /\ ~err
    /\ phase = "drq"
    /\ pc' = "data"
    /\ UNCHANGED <<disk, mem, call, sector, outcome, drive, abandoned, lost>>

\* The loop goes on to its next sector or ends.
NextSector ==
    IF sector + 1 < call.count
    THEN /\ sector' = sector + 1
         /\ pc' = "select"
         /\ UNCHANGED <<call, outcome, abandoned>>
    ELSE Return(TRUE)

\* 256 words from the data port.  A drive that has no data to give (its
\* command was a write, or it left the data phase) gives anything.
ReadData ==
    /\ pc = "data"
    /\ ~call.write
    /\ IF phase = "drq" /\ ~cmd.write
       THEN /\ mem' = [mem EXCEPT ![sector] = latch]
            /\ phase' = "idle"
       ELSE /\ \E d \in Data : mem' = [mem EXCEPT ![sector] = d]
            /\ UNCHANGED phase
    /\ NextSector
    /\ UNCHANGED <<disk, pending, cmd, latch, err, lost>>

\* 256 words to the data port, taken by a drive that waits for them.
WriteData ==
    /\ pc = "data"
    /\ call.write
    /\ IF phase = "drq" /\ cmd.write
       THEN /\ latch' = mem[sector]
            /\ phase' = "flush"
       ELSE UNCHANGED <<latch, phase>>
    /\ pc' = "settle"
    /\ UNCHANGED <<disk, mem, call, sector, outcome, pending, cmd, err,
                   abandoned, lost>>

\* ata_wait_not_busy after the data of a write: only BSY is looked at.
WriteSettled ==
    /\ pc = "settle"
    /\ ~Busy
    /\ NextSector
    /\ UNCHANGED <<disk, mem, drive, lost>>

DriverStep ==
    \/ Command
    \/ BusyTimeout
    \/ DrqError
    \/ DrqTimeout
    \/ DrqReady
    \/ ReadData
    \/ WriteData
    \/ WriteSettled

-----------------------------------------------------------------------------
\* The drive (external).

\* The drive sees a command: it starts it and drops its old status.
Start ==
    /\ pending # None
    /\ cmd' = pending
    /\ pending' = None
    /\ phase' = "busy"
    /\ err' = FALSE
    /\ UNCHANGED <<disk, mem, program, latch, abandoned, lost>>

\* The drive was not ready for a command and ignores it.
Ignore ==
    /\ pending # None
    /\ phase # "idle"
    /\ pending' = None
    /\ UNCHANGED <<disk, mem, program, phase, cmd, latch, err, abandoned, lost>>

\* The drive has read the sector, or has room for the data of a write.
RaiseDrq ==
    /\ phase = "busy"
    /\ phase' = "drq"
    /\ latch' = IF cmd.write THEN latch ELSE disk[cmd.lba]
    /\ UNCHANGED <<disk, mem, program, pending, cmd, err, abandoned, lost>>

\* The data of a write reaches the disk.
Store ==
    /\ phase = "flush"
    /\ disk' = [disk EXCEPT ![cmd.lba] = latch]
    /\ phase' = "idle"
    /\ UNCHANGED <<mem, program, pending, cmd, latch, err, abandoned, lost>>

DeviceError ==
    /\ Busy
    /\ phase' = "idle"
    /\ err' = TRUE
    /\ lost' = (lost \/ phase = "flush")
    /\ UNCHANGED <<disk, mem, program, pending, cmd, latch, abandoned>>

Drive == Start \/ Ignore \/ RaiseDrq \/ Store \/ DeviceError

\* The file system (external) uses its buffer for something else.
Fill ==
    /\ pc = "idle"
    /\ \E i \in Slots, d \in Data : mem' = [mem EXCEPT ![i] = d]
    /\ outcome' = None
    /\ UNCHANGED <<disk, pc, call, sector, drive, abandoned, lost>>

Next ==
    \/ \E r \in Requests : IoSectors(r)
    \/ DriverStep
    \/ Drive
    \/ Fill

-----------------------------------------------------------------------------
\* The transfer does not run over the last address.
Fits(r) == r.lba + r.count <= AddressSpace

\* As long as no call has given up on a command that was still alive, and the
\* drive has failed no write after taking its data, a call that returned true
\* has done its work: each sector of a transfer that fits in 28 bits and its
\* slot of the buffer hold the same.  Either exception is real: a late DRQ of
\* an abandoned command is taken for the next command's, and the status after
\* the data of a write is not looked at (ata.c, ata_write_sectors).
SuccessMeansDone ==
    outcome # None /\ outcome.ok /\ Fits(outcome.req)
            /\ ~abandoned /\ ~lost =>
        \A i \in 0 .. outcome.req.count - 1 :
            disk[outcome.req.lba + i] = mem[i]

\* Without an abandoned command the drive executes nothing but the command of
\* the sector the call is at: whatever the file system calls, and however the
\* commands before it ended, no command starts before the last one is over.
OneCommandAtATime ==
    ~abandoned /\ Alive =>
        /\ pc # "idle"
        /\ ~(pending # None /\ phase # "idle")
        /\ pc \in {"drq", "data", "settle"}
        /\ (pending # None => pending.lba = Address)
        /\ (phase # "idle" => cmd.lba = Address /\ cmd.write = call.write)

=============================================================================
