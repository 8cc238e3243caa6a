------------------------------ MODULE MCNames -------------------------------
(* Short names have four characters and an extension of two; numbers are
   binary, so that they grow to three digits.  Every name of up to five
   characters over an alphabet with one character of each kind, and longer ones
   that fill and overrun both parts, meets a few directories; three kinds of
   name meet every directory of up to two clusters with two cells each.

   Long names have two characters to an entry and a buffer of six: the third
   entry of a name does not quite fit.  Two of the three short names share a
   checksum. *)
EXTENDS Names

MCUpper(c) == IF c = "a" THEN "A" ELSE c
MCInvalid == {"/"}
MCUnfit == {" ", "+"}
Alphabet == {"a", "A", ".", " ", "+", "/", "~"}

Typed ==
    UNION {[1 .. n -> Alphabet] : n \in 0 .. 4}
    \cup [1 .. 5 -> {"a", ".", " "}] \cup [1 .. 7 -> {"a", "."}] \cup [1 .. 8 -> {"a", "."}]
    \cup {<<"a", "a", "~", "1">>, <<"a", "a", "~", "1", ".", "a", "+">>}

\* What a cell may hold for a name: its exact form, one of its aliases, another
\* short name, or no short name.
Cells(n) ==
    (IF HasExactForm(n) THEN {make_short_name_if_possible(n)} ELSE {})
    \cup {build_short_alias(n, k) : k \in 1 .. 3}
    \cup {<<"Z", " ", " ", " ", " ", " ">>, NoEntry, EndMark}

Call(n, d, i) == [name |-> n, dir |-> d, ignored |-> i]

\* The directories with two cells to a cluster, up to k clusters.
Directories(cells, k) ==
    LET clusters == [1 .. 2 -> cells] IN UNION {[1 .. j -> clusters] : j \in 0 .. k}

FewDirectories(n) ==
    LET a1 == build_short_alias(n, 1)
        a2 == build_short_alias(n, 2)
        a3 == build_short_alias(n, 3)
    IN  {<<>>, <<<<a1, make_short_name_if_possible(n)>>>>,
         <<<<a1, a2>>, <<a3, EndMark>>>>}

MCCases ==
    UNION {{Call(n, d, NoEntry) :
               d \in IF validate_long_name(n) THEN FewDirectories(n) ELSE {<<>>}} :
           n \in Typed}
    \cup UNION {{Call(n, d, i) : d \in Directories(Cells(n), 2),
                                 i \in {NoEntry, build_short_alias(n, 1)}} :
                n \in {<<"a", "a", ".", "a">>, <<"a", " ", "a", "a", "+">>}}

MCLongNames == {<<1>>, <<2, 1>>, <<1, 1, 2>>, <<2, 2, 1, 2>>, <<1, 2, 2, 1, 1>>}
MCShorts == 1 .. 3
MCChecksum == [s \in MCShorts |-> IF s = 3 THEN 8 ELSE 7]

Cell(o, l, sum, part) == [order |-> o, last |-> l, sum |-> sum, part |-> part]
Foreign(orders, sum, part) == {Cell(o, l, sum, part) : o \in orders, l \in BOOLEAN}
MCDiskCells ==
    UNION {Foreign(0 .. 3, 7, <<1, 2>>),
           Foreign({1, 2}, 7, <<0, -1>>),
           Foreign({1, 2}, 7, <<1, -2>>),
           Foreign({1, 2}, 8, <<2, 2>>)}
=============================================================================
