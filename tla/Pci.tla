-------------------------------- MODULE Pci ---------------------------------
(***************************************************************************)
(* The walk over the PCI buses, pci_enumerate of src/kernel/pci.c, as the  *)
(* shell's lspci uses it: bus by bus and device by device, the functions   *)
(* from 1 on only behind a function 0 that answers and says it has more.   *)
(* A callback sees each function and may end the walk.                     *)
(***************************************************************************)
EXTENDS Naturals, Sequences, SequencesExt

CONSTANTS
    BusCount,      \* 256
    BusValues,     \* values of the variable bus, a uint16_t
    DeviceCount,   \* PCI_MAX_DEVICE_COUNT
    FunctionCount  \* PCI_MAX_FUNCTION_COUNT

VARIABLES
    pci,     \* pci[a]: "none" (the vendor reads 0xFFFF), "single" or "multi"
    pc,      \* walk, done
    at,      \* <<bus, device, function>>
    limit,   \* function_limit
    visited, \* the functions the callback has seen
    stopped  \* the callback has returned false

vars == <<pci, pc, at, limit, visited, stopped>>

Addresses ==
    (0 .. BusCount - 1) \X (0 .. DeviceCount - 1) \X (0 .. FunctionCount - 1)

\* The start of a walk; what is on the buses is up to Startup.
Init ==
    /\ pc = "walk"
    /\ at = <<0, 0, 0>>
    /\ limit = 1
    /\ visited = <<>>
    /\ stopped = FALSE

-----------------------------------------------------------------------------
\* pci_read_device_info: a vendor of 0xFFFF means that nothing is there.
Answers(a) == pci[a] # "none"

NextBus(bus) == (bus + 1) % BusValues

\* The loops over devices and buses go on.
NextDevice ==
    LET next == IF at[2] + 1 < DeviceCount THEN <<at[1], at[2] + 1, 0>>
                ELSE <<NextBus(at[1]), 0, 0>>
    IN  /\ at' = next
        /\ limit' = 1
        /\ pc' = IF next[1] < BusCount THEN "walk" ELSE "done"

\* The loop over functions goes on.
NextFunction(bound) ==
    IF at[3] + 1 < bound
    THEN /\ at' = [at EXCEPT ![3] = @ + 1]
         /\ limit' = bound
         /\ UNCHANGED pc
    ELSE NextDevice

\* Nothing answers: on to the next device, or to the next function of this.
Absent ==
    /\ pc = "walk"
    /\ ~Answers(at)
    /\ IF at[3] = 0 THEN NextDevice ELSE NextFunction(limit)
    /\ UNCHANGED <<pci, visited, stopped>>

\* Function 0 decides how many functions there are.
Bound ==
    IF at[3] # 0 THEN limit ELSE IF pci[at] = "multi" THEN FunctionCount ELSE 1

\* A function answers and the callback wants more.
Visit ==
    /\ pc = "walk"
    /\ Answers(at)
    /\ visited' = Append(visited, at)
    /\ NextFunction(Bound)
    /\ UNCHANGED <<pci, stopped>>

\* The callback has seen enough.
VisitLast ==
    /\ pc = "walk"
    /\ Answers(at)
    /\ visited' = Append(visited, at)
    /\ pc' = "done"
    /\ stopped' = TRUE
    /\ UNCHANGED <<pci, at, limit>>

Next == Absent \/ Visit \/ VisitLast

-----------------------------------------------------------------------------
\* The functions a walk is to find: those of function 0, and the others of a
\* device whose function 0 says that it has more.
Visible ==
    {a \in Addresses :
        /\ Answers(a)
        /\ a[3] # 0 => pci[<<a[1], a[2], 0>>] = "multi"}

Before(a, b) ==
    \/ a[1] < b[1]
    \/ a[1] = b[1] /\ a[2] < b[2]
    \/ a[1] = b[1] /\ a[2] = b[2] /\ a[3] < b[3]

\* The callback sees every visible function once and in order, whatever is
\* missing in between, and nothing else; a walk it did not end has seen them
\* all.
SeesAllOnce ==
    /\ \A i \in 1 .. Len(visited) - 1 : Before(visited[i], visited[i + 1])
    /\ ToSet(visited) =
           IF pc = "done" /\ ~stopped THEN Visible
           ELSE {a \in Visible : Before(a, at) \/ (stopped /\ a = at)}

=============================================================================
