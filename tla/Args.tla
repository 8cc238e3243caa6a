-------------------------------- MODULE Args --------------------------------
(***************************************************************************)
(* The arguments of a program, src/kernel/process.c: process_tokenize_args *)
(* cuts the rest of the command line into words in a buffer of the kernel, *)
(* and process_stage_user_context copies the buffer to the program's stack *)
(* and moves the pointers into the copy.  A pointer into a buffer is its   *)
(* offset; of the buffer, which starts out zeroed, the part written so far *)
(* is kept.                                                                *)
(***************************************************************************)
EXTENDS Integers, Sequences, FiniteSets
LOCAL INSTANCE SequencesExt

CONSTANTS
    Space,      \* the character for which k_is_space holds
    NUL,        \* the character that ends a string
    ArgBuffer,  \* PROCESS_ARG_BUFFER_SIZE (256)
    MaxArgs     \* PROCESS_MAX_ARGS (8)

ASSUME ArgsAssumption ==
    /\ {ArgBuffer, MaxArgs} \subseteq Nat \ {0}
    /\ Space # NUL

\* arg_buffer, argv, arg_start (-1 between words), and whether all is well.
NoTokens == [buffer |-> <<>>, argv |-> <<>>, start |-> -1, ok |-> TRUE]

\* A character goes to the buffer if a terminator still fits behind it.
PutChar(t, c) ==
    IF Len(t.buffer) + 1 >= ArgBuffer THEN [t EXCEPT !.ok = FALSE]
    ELSE [t EXCEPT !.buffer = Append(@, c)]

\* A word begins, unless argv is full.
StartWord(t) ==
    IF Len(t.argv) >= MaxArgs THEN [t EXCEPT !.ok = FALSE]
    ELSE [t EXCEPT !.start = Len(t.buffer)]

\* A word ends, if there is one: the terminator, and the pointer to it.
EndWord(t) ==
    IF ~t.ok \/ t.start = -1 THEN t
    ELSE [buffer |-> Append(t.buffer, NUL), argv |-> Append(t.argv, t.start),
          start |-> -1, ok |-> TRUE]

\* One character of the argument line.
Token(t, c) ==
    IF ~t.ok THEN t
    ELSE IF c = Space THEN EndWord(t)
    ELSE IF t.start # -1 THEN PutChar(t, c)
    ELSE LET s == StartWord(t) IN IF s.ok THEN PutChar(s, c) ELSE s

\* The command is the first argument, whatever it consists of.
process_tokenize_args(command, line) ==
    LET Char(t, c) == IF t.ok THEN PutChar(t, c) ELSE t
        named == EndWord(FoldLeft(Char, StartWord(NoTokens), command))
    IN  IF command = <<>> THEN [NoTokens EXCEPT !.ok = FALSE]
        ELSE EndWord(FoldLeft(Token, named, line))

\* The string at an offset of a buffer.
StringAt(b, o) ==
    LET n == CHOOSE k \in o + 1 .. Len(b) :
                 b[k] = NUL /\ \A m \in o + 1 .. k - 1 : b[m] # NUL
    IN  SubSeq(b, o + 1, n - 1)

\* process_stage_user_context: the strings the program's argv points to.
process_stage_user_context(t) ==
    [n \in DOMAIN t.argv |-> StringAt(t.buffer, t.argv[n])]

-----------------------------------------------------------------------------
\* The words of a line, said without a scan: the longest stretches without a
\* space, in order.
IsWord(l, i, j) ==
    /\ i <= j
    /\ \A k \in i .. j : l[k] # Space
    /\ i = 1 \/ l[i - 1] = Space
    /\ j = Len(l) \/ l[j + 1] = Space

WordsOf(l) ==
    LET stretches ==
            {<<i, j>> \in (1 .. Len(l)) \X (1 .. Len(l)) : IsWord(l, i, j)}
        at == SetToSortSeq(stretches, LAMBDA v, w : v[1] < w[1])
    IN  [n \in DOMAIN at |-> SubSeq(l, at[n][1], at[n][2])]

\* Too many words, or too many characters with a terminator for each word.
TooLong(command, line) ==
    \/ 1 + Len(WordsOf(line)) > MaxArgs
    \/ Len(command) + 1 + Cardinality({k \in DOMAIN line : line[k] # Space})
           + Len(WordsOf(line)) > ArgBuffer
=============================================================================
