------------------------------ MODULE Process ------------------------------
(***************************************************************************)
(* The foreground process (kernel/process.c) with the traps that reach it  *)
(* (kernel/trap.c, kernel/program_entry.asm) and the line editor it reads  *)
(* from (kernel/keyboard.c), on the page tables of Paging.                 *)
(*                                                                         *)
(* The shell runs one program at a time: process_run_foreground reads the  *)
(* ELF file, gives it an address space, enters ring 3 and, when the        *)
(* program exits or faults, tears everything down.  Every allocation and   *)
(* every read can fail.  Addresses are bytes, PageSize to a page.          *)
(***************************************************************************)
EXTENDS Paging

CONSTANTS
  PageSize,       \* PAGE_SIZE in bytes
  FilePages,      \* pages of PROCESS_MAX_FILE_SIZE
  ImageBase,      \* PROCESS_ABI_IMAGE_BASE, in bytes, page aligned
  StackBase,      \* PROCESS_ABI_STACK_BASE, likewise
  StackPages,     \* pages of PROCESS_ABI_STACK_SIZE
  ContextSize,    \* sizeof(ProcessUserContext)
  Programs,       \* the files a command may name
  Pointers,       \* the addresses a program passes to the kernel
  Lengths         \* the lengths it passes

StackSize  == StackPages * PageSize
ImageLimit == StackBase - PageSize      \* PROCESS_ABI_IMAGE_LIMIT

ASSUME LayoutAssumption ==
  /\ PageSize \in Nat \ {0}
  /\ StackPages \in Nat \ {0}
  /\ FilePages \in Nat \ {0}
  /\ {ImageBase, StackBase, ContextSize} \subseteq Nat
  /\ ImageBase % PageSize = 0 /\ StackBase % PageSize = 0
  /\ ImageBase >= LowLimit * PageSize
  /\ ImageBase < ImageLimit
  /\ ContextSize <= StackSize
  /\ Lengths \subseteq Nat /\ Pointers \subseteq Nat
  /\ \A f \in Programs :
       /\ f.entry \in Nat
       /\ \A s \in f.segments : {s.vaddr, s.memsz} \subseteq Nat

\* The stack ends, and so the image does, within the space of a root.
ASSUME WindowAssumption ==
  StackBase + StackSize <=
    TableEntries * TableEntries * TableEntries * TableEntries * PageSize

VARIABLES
  process,        \* g_foreground_process
  active,         \* g_active_process # NULL
  program,        \* the file being run
  saved_root,     \* previous_root, then kernel_root
  line            \* the buffer of keyboard_read_line and its length

processVars == <<process, active, program, saved_root, line>>
vars == <<pc, pagingVars, processVars>>

-----------------------------------------------------------------------------
(* process_configure_image_layout: a file is a header that is sound or     *)
(* not, an entry point and its program headers.                            *)

PageOf(byte)      == byte \div PageSize
PageAfter(byte)   == (byte + PageSize - 1) \div PageSize

NoProgram == [sound |-> FALSE, size |-> 0, entry |-> 0, segments |-> {}]
LoadSegments(f) == {s \in f.segments : s.load}

SegmentRejected(f, s) ==
  \/ s.offset > f.size
  \/ s.filesz > f.size - s.offset
  \/ s.filesz > s.memsz
  \/ s.vaddr < ImageBase
  \/ s.vaddr >= ImageLimit
  \/ s.memsz > ImageLimit - s.vaddr

\* The image: the pages from the lowest start to the highest end.
SegmentPages(s) == PageOf(s.vaddr) .. (PageAfter(s.vaddr + s.memsz) - 1)
ImageFirst(f) ==
  CHOOSE p \in {PageOf(s.vaddr) : s \in LoadSegments(f)} :
    \A s \in LoadSegments(f) : p <= PageOf(s.vaddr)
ImageEnd(f) ==
  CHOOSE p \in {PageAfter(s.vaddr + s.memsz) : s \in LoadSegments(f)} :
    \A s \in LoadSegments(f) : p >= PageAfter(s.vaddr + s.memsz)

LayoutAccepted(f) ==
  /\ f.sound
  /\ \A s \in LoadSegments(f) : ~ SegmentRejected(f, s)
  /\ LoadSegments(f) # {}
  /\ ImageFirst(f) >= Sections[3].end
  /\ f.entry >= ImageFirst(f) * PageSize
  /\ f.entry < ImageEnd(f) * PageSize
  /\ ImageEnd(f) > ImageFirst(f)

\* What the process remembers of the layout.
ImageBytes == process.image_pages * PageSize
ImagePages == PageOf(process.image_base) ..
                (PageOf(process.image_base) + process.image_pages - 1)
StackRange == PageOf(StackBase) .. (PageOf(StackBase) + StackPages - 1)

-----------------------------------------------------------------------------
(* What the kernel touches while a root is active.  A page that is not     *)
(* mapped raises an exception in ring 0: process_handle_fault refuses it   *)
(* and interrupt_dispatch panics.                                          *)

BytePages(ptr, n) == {PageOf(ptr + k) : k \in 0 .. (n - 1)}

Touch(root, pages, next) ==
  IF \A v \in pages : Mapped(root, v)
    THEN /\ pc' = next
         /\ tables' = Accessed(tables, root, pages \cup {Sections[1].first})
    ELSE /\ pc' = "fault"
         /\ tables' = tables

-----------------------------------------------------------------------------
(* process_run_foreground.                                                 *)

\* process_reset_fields.
IdleProcess ==
  [state |-> "idle", page_table_root |-> 0, image_base |-> 0,
   image_pages |-> 0, image_backing |-> NULL, stack_backing |-> NULL,
   file_buffer |-> NULL, exit_requested |-> FALSE, failed |-> FALSE]

\* The shell runs a command; process_tokenize_args may reject its arguments.
RunForeground ==
  /\ pc = "idle"
  /\ process' = IdleProcess
  /\ \/ /\ program' \in Programs
        /\ pc' = "file_buffer"
     \/ UNCHANGED <<pc, program>>
  /\ UNCHANGED <<pagingVars, active, saved_root, line>>

\* An allocation of process_prepare_address_space, or of its caller.
AllocFor(at, field, n, next, fail) ==
  /\ pc = at
  /\ \/ \E b \in Candidates(n) :
          /\ alloc_pages(n, b)
          /\ process' = [process EXCEPT ![field] = b]
          /\ pc' = next
     \/ /\ AllocFails(n)
        /\ pc' = fail
        /\ UNCHANGED <<storeVars, process>>
  /\ UNCHANGED <<tables, g_pml4, cr3, job, doomed, framebuffer,
                 active, program, saved_root, line>>

AllocFileBuffer ==
  AllocFor("file_buffer", "file_buffer", FilePages, "load", "release_image")

\* process_load_binary up to process_configure_image_layout: the file may be
\* missing, no file, too large, unreadable, or change size under the read.
LoadFails ==
  /\ pc = "load"
  /\ pc' = "release_image"
  /\ UNCHANGED <<pagingVars, processVars>>

LoadFile ==
  /\ pc = "load"
  /\ program.size <= FilePages * PageSize
  /\ LayoutAccepted(program)
  /\ process' = [process EXCEPT
                   !.image_base = ImageFirst(program) * PageSize,
                   !.image_pages = ImageEnd(program) - ImageFirst(program)]
  /\ pc' = "create_root"
  /\ UNCHANGED <<pagingVars, active, program, saved_root, line>>

CreateRoot ==
  /\ pc = "create_root"
  /\ \/ \E b \in Candidates(1) :
          /\ paging_create_address_space(b)
          /\ process' = [process EXCEPT !.page_table_root = b.base]
          /\ pc' = "image_backing"
     \/ /\ AllocFails(1)
        /\ pc' = "release_image"
        /\ UNCHANGED <<storeVars, tables, process>>
  /\ UNCHANGED <<g_pml4, cr3, job, doomed, framebuffer,
                 active, program, saved_root, line>>

AllocImage ==
  AllocFor("image_backing", "image_backing", process.image_pages,
           "stack_backing", "fail_stack")
AllocStack ==
  AllocFor("stack_backing", "stack_backing", StackPages,
           "map_image", "fail_stack")

\* The calls of paging_map_user_range for the image and for the stack.
UserJob(first, n, backing, x) ==
  Job(process.page_table_root, first, first + n, backing.base, TRUE, x, TRUE)

BeginMapImage ==
  /\ pc = "map_image"
  /\ job' = UserJob(PageOf(process.image_base), process.image_pages,
                    process.image_backing, TRUE)
  /\ pc' = "mapping_image"
  /\ UNCHANGED <<storeVars, tables, g_pml4, cr3, doomed, framebuffer,
                 processVars>>

ImageMapped ==
  /\ JobDone("mapping_image", "mapping_stack")
  /\ job' = UserJob(PageOf(StackBase), StackPages, process.stack_backing, FALSE)
  /\ UNCHANGED <<storeVars, tables, g_pml4, cr3, doomed, framebuffer,
                 processVars>>

StackMapped ==
  /\ JobDone("mapping_stack", "stage")
  /\ job' = NoJob
  /\ UNCHANGED <<storeVars, tables, g_pml4, cr3, doomed, framebuffer,
                 processVars>>

MapUser ==
  /\ \E phase \in {"mapping_image", "mapping_stack"} :
       \/ MapTable(phase, "fail_stack")
       \/ MapPage(phase)
       \/ MapFails(phase, "fail_stack")
  /\ UNCHANGED processVars

\* process_stage_user_context, under the new root.
Stage ==
  /\ pc = "stage"
  /\ saved_root' = cr3
  /\ cr3' = process.page_table_root
  /\ Touch(cr3', BytePages(StackBase, ContextSize), "copy")
  /\ UNCHANGED <<storeVars, g_pml4, job, doomed, framebuffer,
                 process, active, program, line>>

\* process_copy_image_segments, and back to the previous root.
CopyImage ==
  /\ pc = "copy"
  /\ Touch(cr3, ImagePages \cup
                  UNION {SegmentPages(s) : s \in LoadSegments(program)}, "start")
  /\ cr3' = saved_root
  /\ process' = [process EXCEPT !.state = "loaded"]
  /\ UNCHANGED <<storeVars, g_pml4, job, doomed, framebuffer,
                 active, program, saved_root, line>>

\* program_invoke: ring 3, with the program's stack and entry point.
Start ==
  /\ pc = "start"
  /\ process' = [process EXCEPT !.state = "running",
                                !.exit_requested = FALSE, !.failed = FALSE]
  /\ active' = TRUE
  /\ saved_root' = cr3
  /\ cr3' = process.page_table_root
  /\ Touch(cr3', {PageOf(program.entry)}, "user")
  /\ UNCHANGED <<storeVars, g_pml4, job, doomed, framebuffer, program, line>>

-----------------------------------------------------------------------------
(* Ring 3: interrupt_dispatch on a system call or an exception.            *)

\* Mutant: compares the ends of the ranges, in the address width.
process_range_contains_Wrap(base, size, ptr, length) ==
  \/ length = 0
  \/ /\ ptr >= base
     /\ (ptr + length) % (TableEntries ^ 4 * PageSize) <= base + size

process_range_contains(base, size, ptr, length) ==
  \/ length = 0
  \/ /\ ptr >= base
     /\ ptr - base <= size
     /\ length <= size - (ptr - base)

process_user_range_valid(ptr, length) ==
  \/ process_range_contains(process.image_base, ImageBytes, ptr, length)
  \/ process_range_contains(StackBase, StackSize, ptr, length)

\* process_finish_exit, then program_return_to_kernel.
FinishExit(failed) ==
  /\ pc = "user"
  /\ active
  /\ process' = [process EXCEPT !.state = "exited",
                                !.exit_requested = TRUE, !.failed = failed]
  /\ pc' = "returned"
  /\ UNCHANGED <<pagingVars, active, program, saved_root, line>>

SyscallExit == \E status \in BOOLEAN : FinishExit(status)

\* Any other exception in ring 3, a device interrupt included.
UserFault == FinishExit(TRUE)

\* PROGRAM_SYSCALL_WRITE: console_write_n reads the buffer, and draws.
SyscallWrite ==
  /\ pc = "user"
  /\ \E ptr \in Pointers, length \in Lengths :
       /\ process_user_range_valid(ptr, length)
       /\ Touch(cr3, BytePages(ptr, length) \cup
                       (IF length > 0 THEN FramebufferPages ELSE {}), "user")
  /\ UNCHANGED <<storeVars, g_pml4, cr3, job, doomed, framebuffer, processVars>>

\* A rejected range, an unknown number or a read of nothing: rax = 0.
SyscallRefused ==
  /\ pc = "user"
  /\ \E ptr \in Pointers, length \in Lengths :
       ~ process_user_range_valid(ptr, length)
  /\ UNCHANGED vars

\* PROGRAM_SYSCALL_READ_LINE enters keyboard_read_line.
SyscallReadLine ==
  /\ pc = "user"
  /\ \E ptr \in Pointers, length \in Lengths \ {0} :
       /\ process_user_range_valid(ptr, length)
       /\ line' = [buffer |-> ptr, capacity |-> length, len |-> 0]
  /\ pc' = "read_line"
  /\ UNCHANGED <<pagingVars, process, active, program, saved_root>>

\* A character that fits is stored with a terminator after it and echoed;
\* the others are dropped.
KeyChar ==
  /\ pc = "read_line"
  /\ line.len + 1 < line.capacity
  /\ line' = [line EXCEPT !.len = @ + 1]
  /\ Touch(cr3, BytePages(line.buffer + line.len, 2) \cup FramebufferPages,
           "read_line")
  /\ UNCHANGED <<storeVars, g_pml4, cr3, job, doomed, framebuffer,
                 process, active, program, saved_root>>

\* Mutant: a backspace in an empty line.
KeyBackspace_Empty ==
  /\ pc = "read_line"
  /\ line' = [line EXCEPT !.len = @ - 1]
  /\ UNCHANGED <<pc, pagingVars, process, active, program, saved_root>>

KeyBackspace ==
  /\ pc = "read_line"
  /\ line.len # 0
  /\ line' = [line EXCEPT !.len = @ - 1]
  /\ Touch(cr3, BytePages(line.buffer + line.len - 1, 1) \cup FramebufferPages,
           "read_line")
  /\ UNCHANGED <<storeVars, g_pml4, cr3, job, doomed, framebuffer,
                 process, active, program, saved_root>>

NoLine == [buffer |-> 0, capacity |-> 0, len |-> 0]

KeyEnter ==
  /\ pc = "read_line"
  /\ line' = NoLine
  /\ Touch(cr3, BytePages(line.buffer + line.len, 1) \cup FramebufferPages,
           "user")
  /\ UNCHANGED <<storeVars, g_pml4, cr3, job, doomed, framebuffer,
                 process, active, program, saved_root>>

-----------------------------------------------------------------------------
(* The way out.                                                            *)

\* program_invoke has returned 1, and exit_requested is set: the status only
\* decides what is printed.
Return ==
  /\ pc = "returned"
  /\ cr3' = saved_root
  /\ active' = FALSE
  /\ tables' = Accessed(tables, saved_root,
                        {Sections[1].first} \cup FramebufferPages)
  /\ pc' = "release_image"
  /\ UNCHANGED <<storeVars, g_pml4, job, doomed, framebuffer,
                 process, program, saved_root, line>>

\* Mutant: the pointer is not cleared.
FreeField_Dangling(at, field, next) ==
  /\ pc = at
  /\ pc' = next
  /\ IF process[field] # NULL
       THEN free_pages(process[field])
       ELSE UNCHANGED <<storeVars, tables>>
  /\ UNCHANGED <<g_pml4, cr3, job, doomed, framebuffer, processVars>>

\* One `if (... != NULL) free_pages' of the fail path of
\* process_prepare_address_space or of process_release_address_space.
FreeField(at, field, next) ==
  /\ pc = at
  /\ pc' = next
  /\ IF process[field] # NULL
       THEN /\ free_pages(process[field])
            /\ process' = [process EXCEPT ![field] = NULL]
       ELSE UNCHANGED <<storeVars, tables, process>>
  /\ UNCHANGED <<g_pml4, cr3, job, doomed, framebuffer,
                 active, program, saved_root, line>>

\* paging_destroy_address_space(page_table_root), when there is a root.
BeginDestroy(at, destroying, next) ==
  /\ pc = at
  /\ IF process.page_table_root # 0 /\ process.page_table_root # g_pml4
       THEN /\ doomed' = OwnTables(process.page_table_root)
            /\ pc' = destroying
       ELSE /\ pc' = next
            /\ UNCHANGED doomed
  /\ UNCHANGED <<storeVars, tables, g_pml4, cr3, job, framebuffer, processVars>>

Destroy(at) ==
  /\ pc = at
  /\ DestroyTable(process.page_table_root)
  /\ UNCHANGED processVars

FreeRoot(at, next) ==
  /\ pc = at
  /\ doomed = {}
  /\ free_pages(Block(process.page_table_root, 1))
  /\ process' = [process EXCEPT !.page_table_root = 0]
  /\ pc' = next
  /\ UNCHANGED <<g_pml4, cr3, job, doomed, framebuffer,
                 active, program, saved_root, line>>

\* The fail label of process_prepare_address_space.
PrepareFails ==
  \/ FreeField("fail_stack", "stack_backing", "fail_image")
  \/ FreeField("fail_image", "image_backing", "fail_root")
  \/ BeginDestroy("fail_root", "fail_tables", "release_image")
  \/ Destroy("fail_tables")
  \/ FreeRoot("fail_tables", "release_image")

\* process_release_address_space, and back in the shell.
Release ==
  \/ FreeField("release_image", "image_backing", "release_stack")
  \/ FreeField("release_stack", "stack_backing", "release_file")
  \/ FreeField("release_file", "file_buffer", "release_root")
  \/ BeginDestroy("release_root", "release_tables", "idle")
  \/ Destroy("release_tables")
  \/ FreeRoot("release_tables", "idle")

-----------------------------------------------------------------------------
Init ==
  /\ PagingInit
  /\ process = IdleProcess
  /\ active = FALSE
  /\ program = NoProgram
  /\ saved_root = 0
  /\ line = NoLine

\* The steps the kernel takes on its own.
Kernel ==
  \/ Boot /\ UNCHANGED processVars
  \/ AllocFileBuffer \/ LoadFails \/ LoadFile \/ CreateRoot
  \/ AllocImage \/ AllocStack
  \/ BeginMapImage \/ MapUser \/ ImageMapped \/ StackMapped
  \/ Stage \/ CopyImage \/ Start
  \/ Return \/ PrepareFails \/ Release

\* The steps the user, the program and the keyboard take.
User ==
  \/ RunForeground
  \/ SyscallExit \/ UserFault \/ SyscallWrite \/ SyscallRefused
  \/ SyscallReadLine \/ KeyChar \/ KeyBackspace \/ KeyEnter

Next == Kernel \/ User

Spec == Init /\ [][Next]_vars

\* The kernel runs alone, with interrupts off, and nothing it does waits.
FairSpec == Spec /\ WF_vars(Kernel)

-----------------------------------------------------------------------------
(* Properties.                                                             *)

LoadPhases == {"file_buffer", "load", "create_root", "image_backing",
               "stack_backing", "map_image", "mapping_image", "mapping_stack",
               "stage", "copy", "start"}
LeavePhases == {"returned", "fail_stack", "fail_image", "fail_root",
                "fail_tables", "release_image", "release_stack",
                "release_file", "release_root", "release_tables"}
Booted == pc \notin BootPhases \cup {"panic"}

\* The types of the variables; the line editor stays inside its buffer.
TypeOK ==
  /\ pc \in BootPhases \cup LoadPhases \cup LeavePhases
            \cup {"idle", "user", "read_line", "panic", "fault"}
  /\ free \subseteq AllPages
  /\ held \subseteq [base : AllPages, pages : 1 .. Cardinality(AllPages)]
  /\ drops \in 0 .. MaxDrops
  /\ tables \in [AllPages -> [Slots -> Entry]]
  /\ {g_pml4, cr3, saved_root, process.page_table_root} \subseteq AllPages \cup {0}
  /\ line.len \in 0 .. line.capacity
  /\ active \in BOOLEAN

VirtualPages == 0 .. (TableEntries * TableEntries * TableEntries * TableEntries - 1)

\* In ring 3 the program reaches the pages of its image and of its stack,
\* each at its place in the memory that process_prepare_address_space
\* allocated, and nothing else: not the kernel, not its page tables, not the
\* framebuffer, not pages of an earlier program.
UserView ==
  pc = "user" =>
    \A v \in VirtualPages :
      LET m == Mapping(cr3, v)
          at(first, block) == block.base + (v - first)
      IN  IF v \in ImagePages
            THEN m.u /\ m.page = at(PageOf(process.image_base), process.image_backing)
          ELSE IF v \in StackRange
            THEN m.u /\ ~ m.x /\ m.page = at(PageOf(StackBase), process.stack_backing)
          ELSE ~ m.u

InSection(v, i) == v \in Sections[i].first .. (Sections[i].end - 1)

\* The mapping the kernel relies on for its own page v.
KernelMapping(v) ==
  IF \E i \in 1 .. 3 : InSection(v, i)
    THEN LET i == CHOOSE i \in 1 .. 3 : InSection(v, i)
         IN  PageEntry(v, Sections[i].w, Sections[i].x, FALSE)
  ELSE IF v \in FramebufferPages \cup MmioPages
    THEN PageEntry(v, TRUE, FALSE, FALSE)
  ELSE PageEntry(v, TRUE, TRUE, FALSE)

\* Whatever root is active, the kernel finds its memory where it left it: low
\* memory is mapped to itself with page 0 absent, the sections of the image
\* keep the permissions map_kernel_image gave them, and the framebuffer and
\* the devices stay mapped.
KernelView ==
  Booted =>
    /\ ~ Mapped(cr3, 0)
    /\ \A v \in 1 .. (LowLimit - 1) \cup FramebufferPages \cup MmioPages :
         Mapping(cr3, v) = KernelMapping(v)

\* The tables a walk from a root may read.
Reachable(root) ==
  LET level(ts) == {tables[p[1]][p[2]].page : p \in
                     {q \in ts \X Slots : tables[q[1]][q[2]].kind = "table"}}
      three == level({root})
      two   == level(three)
  IN  {root} \cup three \cup two \cup level(two)

\* Every table that a walk from the active root, from the kernel's root or
\* from the root that is going to be restored may read is a page nobody has
\* freed: no root is destroyed while it is in use, and destroying one frees
\* no table of the kernel.
WalkedTablesHeld ==
  Booted =>
    \A root \in {cr3, g_pml4} \cup (IF active THEN {saved_root} ELSE {}) :
      \A t \in Reachable(root) : Block(t, 1) \in held

\* Every block the loader or paging.c frees is a block alloc_pages lent, and
\* it is freed once, whichever step of the loading failed.
FreesExact == wrong_frees = {}

\* At the prompt nothing is left of the last program: the kernel's page
\* tables are the only memory in use, and its root is active.
NothingLeaked ==
  pc = "idle" =>
    /\ held = {Block(t, 1) : t \in Reachable(g_pml4)}
    /\ cr3 = g_pml4
    /\ ~ active

\* No file and no argument of a system call makes the kernel touch a page
\* that is not mapped: what process_user_range_valid and
\* process_configure_image_layout accept is mapped, to the last byte.
NoKernelFault == pc # "fault"

\* A program that is being loaded or has ended gives control back: to the
\* program or to the shell.
KernelReturns ==
  pc \in LoadPhases \cup LeavePhases ~> pc \in {"user", "idle"}

\* "single address space": the kernel's root is the only one there is.
SingleAddressSpace == cr3 \in {0, g_pml4}

=============================================================================
