----------------------------- MODULE MCConsole ------------------------------
(* A text page, a framebuffer that its rows fill, one with a line to spare, a
   screen of a single row with two lines to spare, and one that cannot be used.
   What the firmware left is the background of the console or not. *)
EXTENDS Console

Geometry(kind, columns, height, cell) ==
    [kind |-> kind, columns |-> columns, height |-> height, cell |-> cell]

MCGeometries ==
    {Geometry("vga", 2, 2, 1), Geometry("framebuffer", 2, 4, 2),
     Geometry("framebuffer", 2, 7, 2), Geometry("framebuffer", 3, 5, 3),
     Geometry("none", 2, 2, 1)}

MCFirmware == {Background, <<"firmware", 0>>}
=============================================================================
