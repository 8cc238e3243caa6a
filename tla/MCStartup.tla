----------------------------- MODULE MCStartup ------------------------------
(* The loader: three pages, images of up to two segments that may share a page,
   displays of up to two modes, and two rounds of the exit loop with a firmware
   that can spoil both.

   The tables: a header of two bytes, four kinds of byte, a scan of at most four
   of them.  Every root pointer meets a plain set of tables; every content of a
   MADT, alone and before another one, a plain root pointer.  What starts at 39
   may just fit below the limit or reach across it.

   The buses: two of two devices with three functions each, present or missing
   in any combination; the first devices of both buses look the same, and only
   the answer of a function 0 matters beyond its presence. *)
EXTENDS Startup

MCPages == 1 .. 3

MCHeaders ==
    {[load |-> TRUE, valid |-> TRUE, pages |-> p] :
        p \in {{1}, {1, 2}, {2, 3}}}
    \cup {[load |-> TRUE, valid |-> FALSE, pages |-> {3}],
          [load |-> FALSE, valid |-> TRUE, pages |-> {1}]}

MCImages == UNION {[1 .. n -> MCHeaders] : n \in 0 .. 2}

MCModes ==
    {[width |-> w, height |-> h, supported |-> TRUE] :
        w \in 2 .. 3, h \in 1 .. 2}
    \cup {[width |-> 1, height |-> 2, supported |-> TRUE]}
    \cup {[width |-> 2, height |-> 2, supported |-> FALSE]}

MCModeLists == UNION {[1 .. n -> MCModes] : n \in 0 .. 2}

Pointer ==
    [address |-> 1, signed |-> TRUE, sum |-> TRUE, revision |-> 2,
     length |-> 3, extendedSum |-> TRUE, xsdt |-> 10, rsdt |-> 6]
Pointers ==
    {[Pointer EXCEPT !.address = a, !.signed = s, !.sum = c, !.revision = r,
                     !.length = l, !.extendedSum = e, !.xsdt = x, !.rsdt = t] :
        a \in {0, 1, 38, 39}, s \in BOOLEAN, c \in BOOLEAN, r \in {0, 2},
        l \in {2, 3, 60}, e \in BOOLEAN, x \in {0, 10, 50}, t \in {0, 6, 39}}

NoTable == [sig |-> "none", length |-> 2, sum |-> TRUE, lapic |-> 0,
            bytes |-> <<>>, entries |-> <<>>]
Root(sig, length, entries) ==
    [NoTable EXCEPT !.sig = sig, !.length = length, !.entries = entries]
MadtTable(length, sum, lapic, bytes) ==
    [NoTable EXCEPT !.sig = "APIC", !.length = length, !.sum = sum,
                    !.lapic = lapic, !.bytes = bytes]

\* An XSDT at 10 with the tables at 20 and 30, an RSDT at 6 with the one at 20.
TablesAt(at20, at30, at39) ==
    [a \in {6, 10, 20, 30, 39} |->
        CASE a = 6 -> Root("RSDT", 3, <<20>>)
          [] a = 10 -> Root("XSDT", 11, <<50, 20, 30, 39>>)
          [] a = 20 -> at20
          [] a = 30 -> at30
          [] a = 39 -> at39]

FadtTable(length, sum) ==
    [NoTable EXCEPT !.sig = "FACP", !.length = length, !.sum = sum]
Bytes(n) == [1 .. n -> 0 .. 3]

MCMachines ==
    LET plain == MadtTable(6, TRUE, 5, <<1, 3, 2>>)
        other == MadtTable(3, TRUE, 6, <<>>)
        madts == UNION {{MadtTable(3 + n, s, l, b) : b \in Bytes(n)} :
                           n \in {0, 2, 3, 4, 5}, s \in {TRUE}, l \in {5}}
    IN  {[rsdp |-> p, tables |-> TablesAt(plain, FadtTable(3, TRUE), NoTable)] :
            p \in Pointers}
        \cup {[rsdp |-> Pointer, tables |-> TablesAt(m, t, FadtTable(l, TRUE))] :
                 m \in madts, t \in {NoTable, other, plain, FadtTable(3, FALSE)},
                 l \in {1, 2}}
        \cup {[rsdp |-> Pointer, tables |-> TablesAt(plain, NoTable, m)] :
                 m \in {MadtTable(2, TRUE, l, <<>>) : l \in {0, 7}}}
        \cup {[rsdp |-> Pointer, tables |-> TablesAt(m, NoTable, NoTable)] :
                 m \in {MadtTable(6, FALSE, 5, <<1, 3, 2>>), other,
                        MadtTable(1, TRUE, 5, <<>>), MadtTable(60, TRUE, 5, <<>>)}}

\* What the three functions of a device answer.
Devices ==
    {<<f, g, h>> : f \in {"none", "single", "multi"}, g \in {"none", "single"},
                   h \in {"none", "multi"}}

MCTopologies ==
    {[a \in (0 .. 1) \X (0 .. 1) \X (0 .. 2) |->
        IF a[2] = 0 THEN d[1][a[3] + 1] ELSE d[a[1] + 2][a[3] + 1]] :
            d \in Devices \X Devices \X Devices}
=============================================================================
