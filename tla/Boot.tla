-------------------------------- MODULE Boot --------------------------------
(***************************************************************************)
(* The UEFI boot loader, src/boot/uefi/boot.c: read KERNEL.ELF, place its  *)
(* segments at their physical addresses, gather what the kernel needs,     *)
(* leave the boot services with a memory map the firmware still agrees     *)
(* with, and jump.  Every firmware call may fail, and the firmware's own   *)
(* events may change the memory map until the boot services have ended.    *)
(***************************************************************************)
EXTENDS Integers, Sequences

CONSTANTS
    Pages,       \* physical pages
    Images,      \* kernel images: sequences of program headers
    ModeLists,   \* lists of graphics modes a display may offer
    MaxAttempts, \* rounds of the exit loop (8)
    MaxEvents    \* bound on the firmware's own changes of the map

VARIABLES
    pc,        \* the next step of efi_main
    image,     \* the program headers of KERNEL.ELF
    segment,   \* the loop variable of load_kernel_elf
    owner,     \* owner[p]: Free, Firmware, or the segment in page p
    pool,      \* pool memory the loader holds
    open,      \* number of open files (KERNEL.ELF)
    misuse,    \* something was freed or closed that was not held
    modes,     \* the graphics modes of the display
    shown,     \* the mode set, 0 when the loader did not choose one
    flags,     \* console_flags of the BootInfo
    epoch,     \* version of the firmware's memory map
    key,       \* map_key, with the map in g_memory_map_buffer
    mapped,    \* memory_map of the BootInfo
    attempts,  \* rounds of the exit loop
    exited     \* the boot services have ended

files == <<pool, open, misuse>>
display == <<modes, shown, flags>>
exit == <<key, mapped, attempts, exited>>
vars == <<pc, image, segment, owner, pool, open, misuse, modes, shown, flags,
          epoch, key, mapped, attempts, exited>>

Free == 0
Firmware == -1

Init ==
    /\ pc = "open"
    /\ image \in Images
    /\ segment = 1
    /\ owner \in [Pages -> {Free, Firmware}]
    /\ pool = {}
    /\ open = 0
    /\ misuse = FALSE
    /\ modes = <<>>
    /\ shown = 0
    /\ flags = {}
    /\ epoch = 0
    /\ key = 0
    /\ mapped = 0
    /\ attempts = 0
    /\ exited = FALSE

-----------------------------------------------------------------------------
\* read_file.  A step is one firmware call and the clean-up its result needs.

\* Free and close a set of things, noting what was not held.
Release(held, close) ==
    /\ pool' = pool \ held
    /\ open' = IF close /\ open > 0 THEN open - 1 ELSE open
    /\ misuse' = (misuse \/ ~(held \subseteq pool) \/ (close /\ open = 0))

Goto(l) ==
    /\ pc' = l
    /\ UNCHANGED <<image, segment, owner, display, epoch, exit>>

OpenFile ==
    /\ pc = "open"
    /\ \/ /\ Goto("info")
          /\ open' = open + 1
          /\ UNCHANGED <<pool, misuse>>
       \/ Goto("error") /\ UNCHANGED files

\* AllocatePool, which may fail: then the clean-up and an error return.
Allocate(what, held, close, ok) ==
    \/ /\ pool' = pool \cup {what}
       /\ UNCHANGED <<open, misuse>>
       /\ Goto(ok)
    \/ /\ Release(held, close)
       /\ Goto("error")

AllocateInfo == pc = "info" /\ Allocate("info", {}, TRUE, "getinfo")

\* GetInfo.  A buffer that is too small is replaced by a larger one, once.
GetInfo ==
    /\ pc = "getinfo"
    /\ \/ Goto("data") /\ UNCHANGED files
       \/ Goto("larger") /\ Release({"info"}, FALSE)
       \/ Goto("error") /\ Release({"info"}, TRUE)

AllocateLarger == pc = "larger" /\ Allocate("info", {}, TRUE, "getinfo2")

GetInfoAgain ==
    /\ pc = "getinfo2"
    /\ \/ Goto("data") /\ UNCHANGED files
       \/ Goto("error") /\ Release({"info"}, TRUE)

AllocateData == pc = "data" /\ Allocate("data", {"info"}, TRUE, "read")

\* Read, then the file and the information are released in any case.
ReadFile ==
    /\ pc = "read"
    /\ \/ Goto("load") /\ Release({"info"}, TRUE)
       \/ Goto("error") /\ Release({"info", "data"}, TRUE)

-----------------------------------------------------------------------------
\* load_kernel_elf, one program header per step.

Segment == image[segment]

\* The header is checked, and a segment that does not fit its file refused.
RejectImage ==
    /\ pc = "load"
    /\ \/ segment = 1
       \/ segment <= Len(image) /\ Segment.load /\ ~Segment.valid
    /\ Goto("error")
    /\ UNCHANGED files

SkipSegment ==
    /\ pc = "load"
    /\ segment <= Len(image)
    /\ ~Segment.load
    /\ segment' = segment + 1
    /\ UNCHANGED <<pc, image, owner, files, display, epoch, exit>>

\* AllocatePages at the address of the segment; only free pages are given.
LoadSegment ==
    /\ pc = "load"
    /\ segment <= Len(image)
    /\ Segment.load
    /\ Segment.valid
    /\ \A p \in Segment.pages : owner[p] = Free
    /\ owner' = [p \in Pages |->
                     IF p \in Segment.pages THEN segment ELSE owner[p]]
    /\ segment' = segment + 1
    /\ UNCHANGED <<pc, image, files, display, epoch, exit>>

PagesTaken ==
    /\ pc = "load"
    /\ segment <= Len(image)
    /\ Segment.load
    /\ Segment.valid
    /\ \E p \in Segment.pages : owner[p] # Free
    /\ Goto("error")
    /\ UNCHANGED files

Loaded ==
    /\ pc = "load"
    /\ segment > Len(image)
    /\ Goto("bootinfo")
    /\ UNCHANGED files

AllocateBootInfo ==
    pc = "bootinfo" /\ Allocate("bootinfo", {}, FALSE, "graphics")

-----------------------------------------------------------------------------
\* gather_graphics_info.

Area(m) == m.width * m.height

\* Preferred modes fit in 1024 x 768 (here 2 x 2).
Preferred(m) == m.width <= 2 /\ m.height <= 2

\* The loop of select_graphics_mode after n modes: the best preferred and the
\* best fallback mode, 0 when there is none.
Scan(list) ==
    LET best[n \in 0 .. Len(list)] ==
            IF n = 0 THEN <<0, 0>>
            ELSE LET b == best[n - 1]
                     m == list[n]
                 IN  IF ~m.supported THEN b
                     ELSE IF Preferred(m)
                     THEN IF b[1] = 0 \/ Area(m) > Area(list[b[1]])
                          THEN <<n, b[2]>> ELSE b
                     ELSE IF b[2] = 0 \/ Area(m) < Area(list[b[2]])
                          THEN <<b[1], n>> ELSE b
    IN  best[Len(list)]

select_graphics_mode(list) ==
    IF Scan(list)[1] # 0 THEN Scan(list)[1] ELSE Scan(list)[2]

\* Graphics are optional: without a display or a mode, or when setting or
\* checking the mode fails, the text console stays.
GatherGraphics ==
    /\ pc = "graphics"
    /\ modes' \in ModeLists
    /\ \/ /\ select_graphics_mode(modes') # 0
          /\ shown' = select_graphics_mode(modes')
          /\ flags' = {"text", "framebuffer"}
       \/ /\ shown' = 0
          /\ flags' = {"text", "vga"}
    /\ pc' = "device"
    /\ UNCHANGED <<image, segment, owner, files, epoch, exit>>

\* gather_boot_device_info and gather_block_info may fail, gather_acpi_info
\* is optional.
GatherDevice ==
    /\ pc = "device"
    /\ Goto("map") \/ Goto("error")
    /\ UNCHANGED files

-----------------------------------------------------------------------------
\* exit_boot_services_with_map.

\* Mutant of GetMemoryMap: a later round takes the new key but keeps the
\* first map.
GetMemoryMap_FirstMap ==
    /\ pc = "map"
    /\ attempts < MaxAttempts
    /\ attempts' = attempts + 1
    /\ key' = epoch
    /\ mapped' = IF attempts = 0 THEN epoch ELSE mapped
    /\ pc' = "exit"
    /\ UNCHANGED <<image, segment, owner, files, display, epoch, exited>>

GetMemoryMap ==
    /\ pc = "map"
    /\ attempts < MaxAttempts
    /\ attempts' = attempts + 1
    /\ key' = epoch
    /\ mapped' = epoch
    /\ pc' = "exit"
    /\ UNCHANGED <<image, segment, owner, files, display, epoch, exited>>

MapError ==
    /\ pc = "map"
    /\ Goto("error")
    /\ UNCHANGED files

\* The boot services end only if the key is the one of the map in force.  A
\* call that fails, for a stale key or for any other reason, is tried again with
\* a new map.
ExitBootServices ==
    /\ pc = "exit"
    /\ \/ key = epoch /\ pc' = "kernel" /\ exited' = TRUE
       \/ pc' = "map" /\ UNCHANGED exited
    /\ UNCHANGED <<image, segment, owner, files, display, epoch,
                   key, mapped, attempts>>

\* The firmware (external): one of its timers allocates or frees memory.
FirmwareEvent ==
    /\ ~exited
    /\ epoch < MaxEvents
    /\ epoch' = epoch + 1
    /\ UNCHANGED <<pc, image, segment, owner, files, display, exit>>

Loader ==
    \/ OpenFile
    \/ AllocateInfo
    \/ GetInfo
    \/ AllocateLarger
    \/ GetInfoAgain
    \/ AllocateData
    \/ ReadFile
    \/ RejectImage
    \/ SkipSegment
    \/ LoadSegment
    \/ PagesTaken
    \/ Loaded
    \/ AllocateBootInfo
    \/ GatherGraphics
    \/ GatherDevice
    \/ GetMemoryMap
    \/ MapError
    \/ ExitBootServices

Next == Loader \/ FirmwareEvent

-----------------------------------------------------------------------------
InReadFile == {"open", "info", "getinfo", "larger", "getinfo2", "data", "read"}

\* Whichever firmware call fails, read_file has closed the file and freed its
\* buffers exactly once when it returns.  A failure of read_file hands out no
\* data, and efi_main, which frees nothing, gives up with no more than the file
\* and the BootInfo in its pool.
ReadFileReleases ==
    /\ ~misuse
    /\ pc \notin InReadFile =>
           /\ open = 0
           /\ "info" \notin pool
    /\ pc = "error" => pool \in {{}, {"data"}, {"data", "bootinfo"}}

\* The kernel is entered only with every loadable segment in place: no
\* segment has been overwritten by a later one that shares a page with it and
\* none has been placed over memory of the firmware.
SegmentsIntact ==
    pc = "kernel" =>
        \A s \in DOMAIN image :
            image[s].load =>
                image[s].valid /\ \A p \in image[s].pages : owner[p] = s

\* The memory map the kernel gets is the one in force when the boot services
\* ended, however often the firmware changed it between GetMemoryMap and
\* ExitBootServices.
MapIsCurrent == pc = "kernel" => exited /\ mapped = epoch

\* The mode chosen by the scan of select_graphics_mode is, said without the
\* scan: the first of the largest supported modes within 1024 x 768, or, if
\* there is none, the first of the smallest supported modes.
BestMode(list, m) ==
    LET usable == {i \in DOMAIN list : list[i].supported}
        small == {i \in usable : Preferred(list[i])}
    IN  IF small # {}
        THEN /\ m \in small
             /\ \A i \in small :
                    /\ Area(list[i]) <= Area(list[m])
                    /\ i < m => Area(list[i]) < Area(list[m])
        ELSE /\ m \in usable
             /\ \A i \in usable :
                    /\ Area(list[i]) >= Area(list[m])
                    /\ i < m => Area(list[i]) > Area(list[m])

ModeIsBest == shown # 0 => BestMode(modes, shown)

=============================================================================
