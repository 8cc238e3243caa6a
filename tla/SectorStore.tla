---------------------------- MODULE SectorStore ----------------------------
(***************************************************************************)
(* What a disk driver promises the file system: block_read_sectors and     *)
(* block_write_sectors of block.c, one call at a time.  Data moves only    *)
(* between sector lba + i and slot i of the buffer of a call.  A call that *)
(* succeeds has moved every sector and leaves nothing behind; a call that  *)
(* fails may leave its command behind, and that command may still move     *)
(* data, from or to a buffer its owner already uses for something else.    *)
(***************************************************************************)
EXTENDS Naturals

CONSTANTS
    Lbas,     \* sector numbers
    Buffers,  \* buffers of the callers
    Data,     \* contents of one sector
    MaxCount, \* the longest transfer, in sectors
    None      \* no call

VARIABLES
    disk,   \* disk[l]: the contents of sector l
    mem,    \* mem[b][i]: the contents of slot i of buffer b
    call,   \* the call being served, or None
    moved,  \* how many sectors of it have been moved
    late,   \* the command a failed call left behind, or None
    result  \* what the last call returned: none, true, false

vars == <<disk, mem, call, moved, late, result>>

Slots == 0 .. MaxCount - 1

\* A call: a transfer of count sectors from lba on.
Requests ==
    [lba : Lbas, count : 1 .. MaxCount, buf : Buffers, write : BOOLEAN]

Move(c, i) ==
    IF c.write
    THEN /\ disk' = [disk EXCEPT ![c.lba + i] = mem[c.buf][i]]
         /\ UNCHANGED mem
    ELSE /\ mem' = [mem EXCEPT ![c.buf][i] = disk[c.lba + i]]
         /\ UNCHANGED disk

Init ==
    /\ disk \in [Lbas -> Data]
    /\ mem \in [Buffers -> [Slots -> Data]]
    /\ call = None
    /\ moved = 0
    /\ late = None
    /\ result = "none"

\* The owner of a buffer changes it between two calls.
Fill ==
    /\ call = None
    /\ \E b \in Buffers, i \in Slots, d \in Data :
           mem' = [mem EXCEPT ![b][i] = d]
    /\ result' = "none"
    /\ UNCHANGED <<disk, call, moved, late>>

\* A transfer of no sectors succeeds, one that is not possible is refused.
Answer ==
    /\ call = None
    /\ result' \in {"true", "false"}
    /\ UNCHANGED <<disk, mem, call, moved, late>>

Invoke ==
    /\ call = None
    /\ call' \in Requests
    /\ moved' = 0
    /\ result' = "none"
    /\ UNCHANGED <<disk, mem, late>>

\* The call moves its next sector, which it does only when nothing is left
\* behind by an earlier call.
Transfer ==
    /\ call # None
    /\ late = None
    /\ moved < call.count
    /\ Move(call, moved)
    /\ moved' = moved + 1
    /\ UNCHANGED <<call, late, result>>

\* The transfer of the call breaks off; it can only fail or start over.
Break ==
    /\ call # None
    /\ moved' = 0
    /\ UNCHANGED <<disk, mem, call, late, result>>

\* What a failed call left behind moves a sector after all.
LateTransfer ==
    /\ late # None
    /\ \E i \in 0 .. late.count - 1 : Move(late, i)
    /\ UNCHANGED <<call, moved, late, result>>

\* The command left behind ends.
Settle ==
    /\ late' = None
    /\ UNCHANGED <<disk, mem, call, moved, result>>

Succeed ==
    /\ call # None
    /\ moved = call.count
    /\ late = None
    /\ call' = None
    /\ moved' = 0
    /\ result' = "true"
    /\ UNCHANGED <<disk, mem, late>>

Fail ==
    /\ call # None
    /\ late' \in {late, call, None}
    /\ call' = None
    /\ moved' = 0
    /\ result' = "false"
    /\ UNCHANGED <<disk, mem>>

Next ==
    \/ Fill
    \/ Answer
    \/ Invoke
    \/ Transfer
    \/ Break
    \/ LateTransfer
    \/ Settle
    \/ Succeed
    \/ Fail

Spec == Init /\ [][Next]_vars
=============================================================================
