------------------------------- MODULE Ahci --------------------------------
(***************************************************************************)
(* The AHCI driver, src/kernel/ahci.c.  The driver owns one command slot   *)
(* of one port: a command header and table in memory that every transfer   *)
(* rewrites, and the port registers CI, IS and TFD.  It polls; a poll that *)
(* runs out makes the call fail, and the command stays with the controller.*)
(* How the port was found and started is in Block.                         *)
(*                                                                         *)
(* The controller (external) fetches the table when it finds CI set, moves *)
(* the sectors by DMA, and clears CI at the end.  After an error it sets   *)
(* TFES, keeps CI and halts until the port is restarted.                   *)
(***************************************************************************)
EXTENDS Naturals

CONSTANTS
    Lbas,        \* sector numbers
    Buffers,     \* buffers of the callers
    HighBuffers, \* those that lie above 4 GiB
    Data,        \* contents of one sector
    Blank,       \* what sectors and buffers hold at first
    MaxCount,    \* the longest transfer, in sectors
    None         \* no call, no command

VARIABLES
    disk,    \* disk[l]: the contents of sector l
    mem,     \* mem[b][i]: the contents of slot i of buffer b
    pc,      \* where ahci_issue_io is: idle, ready, build, clear, issue, poll
    call,    \* its arguments, or None
    outcome, \* the last call and what it returned, or None
    table,   \* g_command_table with its header: a command, or None (zeroed)
    ci,      \* PxCI, bit AHCI_COMMAND_SLOT
    tfes,    \* PxIS, bit TFES
    engine,  \* the command the controller is executing, or None
    moved,   \* how many sectors of it have been moved
    halted   \* the controller has stopped after an error

driver == <<pc, call, outcome, table>>
hba == <<ci, tfes, engine, moved, halted>>
data == <<disk, mem>>
vars == <<disk, mem, pc, call, outcome, table,
          ci, tfes, engine, moved, halted>>

Slots == 0 .. MaxCount - 1

\* The arguments of a transfer.  A transfer stays on the disk; count is 0
\* for a call that moves nothing.
Requests ==
    {r \in [lba : Lbas, count : 0 .. MaxCount, buf : Buffers,
            write : BOOLEAN] :
        \A i \in 0 .. r.count - 1 : r.lba + i \in Lbas}

\* ahci_configure_port leaves the command memory zeroed, IS and CI clear and the
\* port started.
Init ==
    /\ disk = [l \in Lbas |-> Blank]
    /\ mem = [b \in Buffers |-> [i \in Slots |-> Blank]]
    /\ pc = "idle"
    /\ call = None
    /\ outcome = None
    /\ table = None
    /\ ci = FALSE
    /\ tfes = FALSE
    /\ engine = None
    /\ moved = 0
    /\ halted = FALSE

-----------------------------------------------------------------------------
\* ahci_issue_io, step by step.

Return(ok) ==
    /\ pc' = "idle"
    /\ call' = None
    /\ outcome' = [req |-> call, ok |-> ok]

\* Entry.  The block layer calls the driver only after a probe that
\* succeeded.  An empty transfer succeeds, a buffer whose address does not
\* fit in 32 bits is refused.
IssueIo(r) ==
    /\ pc = "idle"
    /\ IF r.count = 0 \/ r.buf \in HighBuffers
       THEN /\ outcome' = [req |-> r, ok |-> r.count = 0]
            /\ UNCHANGED <<pc, call>>
       ELSE /\ pc' = "ready"
            /\ call' = r
            /\ outcome' = None
    /\ UNCHANGED <<data, hba, table>>

\* TFD.BSY: the device is executing a command.
Busy == engine # None

\* Mutant of WaitReady: the status is not looked at.
WaitReady_Blind ==
    /\ pc = "ready"
    /\ pc' = "build"
    /\ UNCHANGED <<data, hba, call, outcome, table>>

\* ahci_wait_port_ready sees BSY and DRQ clear.
WaitReady ==
    /\ pc = "ready"
    /\ ~Busy
    /\ pc' = "build"
    /\ UNCHANGED <<data, hba, call, outcome, table>>

\* ahci_wait_port_ready runs out of spins.
ReadyTimeout ==
    /\ pc = "ready"
    /\ Busy
    /\ Return(FALSE)
    /\ UNCHANGED <<data, hba, table>>

\* The header, the PRDT entry and the command FIS are written.
BuildCommand ==
    /\ pc = "build"
    /\ table' = call
    /\ pc' = "clear"
    /\ UNCHANGED <<data, hba, call, outcome>>

\* is = 0xFFFFFFFF
ClearStatus ==
    /\ pc = "clear"
    /\ tfes' = FALSE
    /\ pc' = "issue"
    /\ UNCHANGED <<data, call, outcome, table, ci, engine, moved, halted>>

\* ci = 1 << AHCI_COMMAND_SLOT
SetCi ==
    /\ pc = "issue"
    /\ ci' = TRUE
    /\ pc' = "poll"
    /\ UNCHANGED <<data, call, outcome, table, tfes, engine, moved,
                   halted>>

\* The poll loop finds the slot free and leaves; the status decides.
PollDone ==
    /\ pc = "poll"
    /\ ~ci
    /\ Return(~tfes)
    /\ UNCHANGED <<data, hba, table>>

\* The poll loop finds an error.
PollError ==
    /\ pc = "poll"
    /\ ci
    /\ tfes
    /\ Return(FALSE)
    /\ UNCHANGED <<data, hba, table>>

\* Mutant of PollTimeout: CI is not looked at after the loop.
PollTimeout_Done ==
    /\ pc = "poll"
    /\ ci
    /\ ~tfes
    /\ Busy \/ halted
    /\ Return(TRUE)
    /\ UNCHANGED <<data, hba, table>>

\* The poll loop runs out of spins with the slot still taken.  A running
\* controller fetches a command long before that (see the README).
PollTimeout ==
    /\ pc = "poll"
    /\ ci
    /\ ~tfes
    /\ Busy \/ halted
    /\ Return(FALSE)
    /\ UNCHANGED <<data, hba, table>>

DriverStep ==
    \/ WaitReady
    \/ ReadyTimeout
    \/ BuildCommand
    \/ ClearStatus
    \/ SetCi
    \/ PollDone
    \/ PollError
    \/ PollTimeout

-----------------------------------------------------------------------------
\* The controller and the drive (external).

Fetch ==
    /\ ci
    /\ engine = None
    /\ ~halted
    /\ engine' = table
    /\ moved' = 0
    /\ UNCHANGED <<data, driver, ci, tfes, halted>>

\* One sector moves between the disk and the buffer the command names.
Dma ==
    /\ engine # None
    /\ moved < engine.count
    /\ IF engine.write
       THEN /\ disk' = [disk EXCEPT ![engine.lba + moved] =
                                        mem[engine.buf][moved]]
            /\ UNCHANGED mem
       ELSE /\ mem' = [mem EXCEPT ![engine.buf][moved] =
                                      disk[engine.lba + moved]]
            /\ UNCHANGED disk
    /\ moved' = moved + 1
    /\ UNCHANGED <<driver, ci, tfes, engine, halted>>

Complete ==
    /\ engine # None
    /\ moved = engine.count
    /\ engine' = None
    /\ moved' = 0
    /\ ci' = FALSE
    /\ UNCHANGED <<data, driver, tfes, halted>>

DeviceError ==
    /\ engine # None
    /\ engine' = None
    /\ moved' = 0
    /\ tfes' = TRUE
    /\ halted' = TRUE
    /\ UNCHANGED <<data, driver, ci>>

Controller == Fetch \/ Dma \/ Complete \/ DeviceError

-----------------------------------------------------------------------------
\* The file system (external): between two calls it uses its buffers for
\* something else.
Fill ==
    /\ pc = "idle"
    /\ \E b \in Buffers, i \in Slots, d \in Data :
           mem' = [mem EXCEPT ![b][i] = d]
    /\ outcome' = None
    /\ UNCHANGED <<disk, hba, pc, call, table>>

Next ==
    \/ \E r \in Requests : IssueIo(r)
    \/ DriverStep
    \/ Controller
    \/ Fill

-----------------------------------------------------------------------------
\* After ahci_read_sectors or ahci_write_sectors returned true, each sector
\* of the transfer and its slot of the buffer hold the same, and they keep
\* doing so until the caller moves on: neither a completion that belongs to
\* an earlier, timed-out command nor a status left by one is taken for this
\* command's (ahci.c, ahci_issue_io).
SuccessMeansDone ==
    outcome # None /\ outcome.ok =>
        \A i \in 0 .. outcome.req.count - 1 :
            disk[outcome.req.lba + i] = mem[outcome.req.buf][i]

\* A command the controller executes is the one in the command table: the
\* driver rewrites the table, whose PRDT the controller reads during the
\* transfer, only when no earlier command is still running.
TableStable == engine # None => engine = table
=============================================================================
