-------------------------------- MODULE Path --------------------------------
(***************************************************************************)
(* Path normalisation, src/kernel/path.c.  A path is a sequence of         *)
(* components; runs of slashes separate them and a leading slash makes the *)
(* path absolute.  The text of the result is represented by its components *)
(* together with what the code computes about it: the write position and   *)
(* where each component starts.                                            *)
(***************************************************************************)
EXTENDS Naturals, Sequences, SequencesExt

CONSTANTS
    Names,        \* components other than "." and ".."
    Upper(_),     \* k_toupper on a component
    Spelling(_)   \* a component as a sequence of characters

LengthOf(n) == Len(Spelling(n))

ASSUME PathAssumption ==
    \A n \in Names :
        /\ Upper(n) \in Names
        /\ Upper(Upper(n)) = Upper(n)
        /\ Spelling(n) # <<>>
        /\ LengthOf(Upper(n)) = LengthOf(n)

\* The state of a normalisation: the components written so far, pos, starts,
\* and whether a component has been refused.
Fresh == [out |-> <<>>, pos |-> 1, starts |-> <<>>, ok |-> TRUE]

\* Mutant of push_component: no room is kept for the NUL.
push_component_NoNul(s, n, capacity) ==
    LET at == IF s.pos = 1 THEN 1 ELSE s.pos + 1
    IN  IF at + LengthOf(n) > capacity
        THEN [s EXCEPT !.ok = FALSE]
        ELSE [out |-> Append(s.out, Upper(n)), pos |-> at + LengthOf(n),
              starts |-> Append(s.starts, at), ok |-> TRUE]

push_component(s, n, capacity) ==
    LET at == IF s.pos = 1 THEN 1 ELSE s.pos + 1
    IN  IF \/ s.pos # 1 /\ s.pos + 1 >= capacity
           \/ at + LengthOf(n) >= capacity
        THEN [s EXCEPT !.ok = FALSE]
        ELSE [out |-> Append(s.out, Upper(n)), pos |-> at + LengthOf(n),
              starts |-> Append(s.starts, at), ok |-> TRUE]

pop_component(s) ==
    IF s.starts = <<>> THEN [s EXCEPT !.pos = 1]
    ELSE [s EXCEPT !.out = Front(s.out),
                   !.pos = IF Last(s.starts) > 1 THEN Last(s.starts) - 1 ELSE 1,
                   !.starts = Front(s.starts)]

\* One round of the loop of absorb_path.
Absorb(s, c, capacity) ==
    IF ~s.ok \/ c = "." THEN s
    ELSE IF c = ".." THEN pop_component(s)
    ELSE push_component(s, c, capacity)

absorb_path(s, parts, capacity) ==
    LET Round(t, c) == Absorb(t, c, capacity) IN FoldLeft(Round, s, parts)

\* path_normalize.  An input is [abs, parts]; a working directory is a
\* sequence of components.
path_normalize(cwd, input, capacity) ==
    LET base == IF input.abs THEN Fresh ELSE absorb_path(Fresh, cwd, capacity)
    IN  absorb_path(base, input.parts, capacity)

-----------------------------------------------------------------------------
\* The length of a path's text without its terminating NUL.
TextLength(comps) ==
    IF comps = <<>> THEN 1
    ELSE FoldLeft(LAMBDA n, c : n + 1 + LengthOf(c), 0, comps)

\* What a path means, said without a stack: a name is kept unless at some
\* later place as many ".." have followed it as names, itself included.
Count(parts, i, j, T) ==
    Len(SelectSeq(SubSeq(parts, i, j), LAMBDA c : c \in T))

Kept(parts, i) ==
    /\ parts[i] \in Names
    /\ \A j \in i .. Len(parts) :
           Count(parts, i, j, Names) > Count(parts, i, j, {".."})

Meaning(parts) ==
    LET kept == SelectSeq([i \in 1 .. Len(parts) |-> i],
                          LAMBDA i : Kept(parts, i))
    IN  [k \in 1 .. Len(kept) |-> Upper(parts[kept[k]])]

\* Every path on the way to the result has to fit with its NUL.
FitsOnTheWay(parts, capacity) ==
    \A k \in 1 .. Len(parts) :
        parts[k] \in Names =>
            TextLength(Meaning(SubSeq(parts, 1, k))) < capacity

Whole(cwd, input) == IF input.abs THEN input.parts ELSE cwd \o input.parts

\* path_normalize accepts a path exactly if it and every path on the way to
\* it fit in the buffer, and then yields its meaning; pos is the length of
\* the text, never more than the buffer holds, and starts are the offsets of
\* the components, so a later ".." cuts at a component boundary.
NormalizeCorrect(cwd, input, capacity) ==
    LET s == path_normalize(cwd, input, capacity)
        parts == Whole(cwd, input)
    IN  /\ s.ok <=> FitsOnTheWay(parts, capacity)
        /\ s.ok =>
               /\ s.out = Meaning(parts)
               /\ s.pos = TextLength(s.out)
               /\ s.pos < capacity
               /\ Len(s.starts) = Len(s.out)
               /\ \A i \in DOMAIN s.starts :
                      s.starts[i] + LengthOf(s.out[i])
                          = TextLength(SubSeq(s.out, 1, i))

\* A normalised path stands for itself: as an absolute path from anywhere,
\* and as a working directory.
NormalizeStable(path, cwd, capacity) ==
    LET again == path_normalize(cwd, [abs |-> TRUE, parts |-> path], capacity)
        here == path_normalize(path, [abs |-> FALSE, parts |-> <<>>], capacity)
    IN  again.ok /\ again.out = path /\ here.ok /\ here.out = path
=============================================================================
