----------------------------- MODULE MCProcess -----------------------------
(***************************************************************************)
(* A small machine for Process: two bytes to a page, four entries to a     *)
(* table, so that a root spans 256 pages and each of its slots 64.         *)
(***************************************************************************)
EXTENDS Process

Range(first, end) == [first |-> first, end |-> end]

\* The kernel image fills the second large page: text, rodata, data.
MCSections ==
  << [first |-> 4, end |-> 5, w |-> FALSE, x |-> TRUE],
     [first |-> 5, end |-> 6, w |-> FALSE, x |-> FALSE],
     [first |-> 6, end |-> 7, w |-> TRUE,  x |-> FALSE] >>

\* No framebuffer, one inside low memory, one in a slot of its own, and one
\* in the slot of the process window.
MCFramebuffers == {Range(0, 0), Range(8, 10), Range(130, 131), Range(100, 101)}
MCMmio == Range(40, 41)

\* From too little memory for the boot to enough for every program.
MCPools == {10 .. n : n \in {12, 13, 14, 17, 20, 21, 23, 25, 28, 31}}

Seg(vaddr, memsz, filesz) ==
  [load |-> TRUE, vaddr |-> vaddr, memsz |-> memsz, offset |-> 1,
   filesz |-> filesz]
File(size, entry, segments) ==
  [sound |-> TRUE, size |-> size, entry |-> entry, segments |-> segments]

\* The process window starts at byte 128 (page 64); the image ends before
\* byte 136, the stack is pages 69 and 70.
MCPrograms ==
  { NoProgram,
    File(4, 128, {Seg(128, 3, 2)}),
    File(4, 133, {Seg(129, 1, 1), Seg(133, 3, 2)}),      \* up to the limit
    File(4, 134, {Seg(134, 1, 0), [Seg(0, 0, 0) EXCEPT !.load = FALSE]}),
    File(4, 128, {Seg(128, 9, 2)}),                      \* past the limit
    File(4, 127, {Seg(127, 2, 2)}),                      \* below the window
    File(4, 130, {Seg(128, 2, 1)}),                      \* entry outside
    File(4, 128, {Seg(128, 0, 0)}),                      \* an empty image
    File(4, 128, {Seg(128, 2, 3)}),
    File(2, 128, {Seg(128, 4, 3)}),
    File(5, 128, {Seg(128, 2, 2)}) }

=============================================================================
