-------------------------- MODULE MCPageAllocator --------------------------
(***************************************************************************)
(* Small instances of PageAllocator: two bytes per page, a dozen pages,    *)
(* and a table of three or four slots.                                     *)
(***************************************************************************)
EXTENDS PageAllocator

Conventional(start, pages) ==
  [conventional |-> TRUE, start |-> start, pages |-> pages]
Other(start, pages) ==
  [conventional |-> FALSE, start |-> start, pages |-> pages]

\* The low memory and the kernel image, whose ends lie inside pages, the
\* process window above the end of memory, and an empty framebuffer.
MCRegions ==
  << [start |-> 0, end |-> 3], [start |-> 11, end |-> 13],
     [start |-> 40, end |-> 44], [start |-> 18, end |-> 18] >>

\* Maps that reach every branch of memory_init and of the self-test.
MCMaps ==
  { << Conventional(0, 12) >>,                             \* a split
    << Conventional(12, 5), Other(8, 2), Conventional(0, 4) >>,
    << Conventional(4, 3), Conventional(14, 3), Conventional(10, 2) >>,
    << Conventional(14, 2), Conventional(2, 3), Conventional(8, 3) >>,
    << Conventional(5, 4), Conventional(18, 9), Conventional(16, 0) >>,
    << Conventional(0, 2), Conventional(6, 1), Conventional(16, 1),
       Conventional(20, 1) >>,                             \* too many ranges
    << Conventional(0, 3), Conventional(8, 4), Conventional(20, 2) >>,
    << Conventional(0, 1), Conventional(10, 2) >>,         \* nothing left
    << Conventional(4, 2), Conventional(14, 1) >>,         \* too little
    << Conventional(4, 1), Conventional(14, 2), Conventional(20, 2) >>,
    << Conventional(30, 2), Conventional(14, 6), Conventional(4, 1) >>,
    << Conventional(2, 2), Conventional(6, 2), Conventional(10, 7) >>,
    << Conventional(12, 3), Conventional(4, 4) >>,
    << Conventional(4, 3), Conventional(14, 2), Conventional(20, 2) >> }

\* Maps that leave memory_init with every slot of the table in use.
FullMaps ==
  { << Conventional(4, 3), Conventional(14, 2), Conventional(20, 2) >> }

=============================================================================
