------------------------------ MODULE ShortName -----------------------------
(***************************************************************************)
(* Names and their 8.3 forms, src/kernel/fat32.c: which names are valid,   *)
(* which have an exact 8.3 form, what the numbered aliases of the others   *)
(* look like, and how an 8.3 name is shown.  The search for a free one is  *)
(* in Names.                                                               *)
(*                                                                         *)
(* A name is a sequence of characters.  An 8.3 name is the text of its     *)
(* BaseSize + ExtSize cells.                                               *)
(***************************************************************************)
EXTENDS Integers, Sequences, SequencesExt

CONSTANTS
    Upper(_),   \* k_toupper
    Invalid,    \* is_invalid_lfn_character
    Unfit,      \* characters of long names that an exact 8.3 name may not have
    BaseSize,   \* 8
    ExtSize,    \* 3
    Capacity,   \* FAT32_NAME_CAPACITY
    Radix       \* 10

Dot == "."
Space == " "
Tilde == "~"
Fallback == "F"
DigitOf == <<"0", "1", "2", "3", "4", "5", "6", "7", "8", "9">>

ASSUME ShortNameAssumption ==
    /\ {BaseSize, ExtSize, Capacity} \subseteq Nat \ {0}
    /\ BaseSize + 1 + ExtSize < Capacity
    /\ Radix \in 2 .. Len(DigitOf)
    /\ Space \in Unfit
    /\ Invalid \cap ({Space, Dot, Tilde, Fallback} \cup Range(DigitOf)) = {}

-----------------------------------------------------------------------------
\* validate_long_name
validate_long_name(n) ==
    /\ n \notin {<<>>, <<Dot>>, <<Dot, Dot>>}
    /\ Len(n) < Capacity
    /\ \A i \in DOMAIN n : n[i] \notin Invalid
    /\ Last(n) \notin {Space, Dot}

\* The place of the dot before the extension, 0 if there is none: the last
\* dot, if it is neither the first nor the last character.
LastDot(n) ==
    LET dots == {i \in DOMAIN n : n[i] = Dot}
        last == CHOOSE i \in dots : \A j \in dots : j <= i
    IN  IF dots = {} \/ last \in {1, Len(n)} THEN 0 ELSE last

BaseOf(n) == IF LastDot(n) = 0 THEN n ELSE SubSeq(n, 1, LastDot(n) - 1)
ExtOf(n) == IF LastDot(n) = 0 THEN <<>> ELSE SubSeq(n, LastDot(n) + 1, Len(n))

Uppercase(n) == [i \in DOMAIN n |-> Upper(n[i])]
Pad(s, size) == s \o [i \in 1 .. size - Len(s) |-> Space]
Upto(s, size) == SubSeq(s, 1, IF Len(s) < size THEN Len(s) ELSE size)

\* The characters of s that are not in T, in order.
Without(s, T) ==
    LET kept[i \in 0 .. Len(s)] ==
            IF i = 0 THEN <<>>
            ELSE IF s[i] \in T THEN kept[i - 1]
            ELSE Append(kept[i - 1], s[i])
    IN  kept[Len(s)]

\* make_short_name_if_possible returns true.
HasExactForm(n) ==
    /\ validate_long_name(n)
    /\ \A i \in DOMAIN n : n[i] \notin Unfit
    /\ \A i \in DOMAIN n : n[i] = Dot => i = LastDot(n)
    /\ Len(BaseOf(n)) \in 1 .. BaseSize
    /\ Len(ExtOf(n)) <= ExtSize

\* What it fills in.
make_short_name_if_possible(n) ==
    LET Text(s) == Uppercase(Without(s, {Dot}))
    IN  Pad(Text(BaseOf(n)), BaseSize) \o Pad(Text(ExtOf(n)), ExtSize)

\* The decimal digits of an ordinal, which is divided until nothing is left.
Digits[n \in Nat] ==
    IF n < Radix THEN <<DigitOf[n + 1]>>
    ELSE Append(Digits[n \div Radix], DigitOf[(n % Radix) + 1])

\* The characters of a name that go into an alias.
AliasText(s) ==
    Uppercase(Without(s, Invalid \cup {Dot, Space}))

\* As much of the base as leaves room for the tilde and the number.  (A number of
\* BaseSize digits or more would make copy_len wrap; Names bounds the numbers.)
AliasBase(n, ord) ==
    LET text == AliasText(BaseOf(n))
        base == IF text = <<>> THEN <<Fallback>> ELSE text
    IN  Upto(base, BaseSize - (Len(Digits[ord]) + 1)) \o <<Tilde>> \o Digits[ord]

build_short_alias(n, ord) ==
    Pad(AliasBase(n, ord), BaseSize)
        \o Pad(Upto(AliasText(ExtOf(n)), ExtSize), ExtSize)

\* format_short_name: both parts end at their first space.
format_short_name(raw) ==
    LET UptoSpace(s) ==
            LET spaces == {i \in DOMAIN s : s[i] = Space}
            IN  IF spaces = {} THEN s
                ELSE SubSeq(s, 1, (CHOOSE i \in spaces :
                                       \A j \in spaces : i <= j) - 1)
        base == UptoSpace(SubSeq(raw, 1, BaseSize))
        ext == SubSeq(raw, BaseSize + 1, BaseSize + ExtSize)
    IN  IF \A i \in DOMAIN ext : ext[i] = Space THEN base
        ELSE base \o <<Dot>> \o UptoSpace(ext)
=============================================================================
