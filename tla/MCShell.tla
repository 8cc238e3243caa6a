------------------------------- MODULE MCShell ------------------------------
(* A directory D, a program PG.ELF and the names that lead to them, two levels
   deep.  A path has room for nine characters: D/PG.ELF just fits, PG.ELF/PG is
   one too long.  The argument buffer has ten places and argv three: argument
   lines that just fit and that are one word or one character too long occur
   with either name of the program. *)
EXTENDS Shell

MCNames == {"d", "D", "PG.ELF", "PG"}
MCUpper(n) == IF n = "d" THEN "D" ELSE n
MCSpelling(n) ==
    CASE n = "PG.ELF" -> <<"P", "G", ".", "E", "L", "F">>
      [] n = "PG" -> <<"P", "G">>
      [] n = ".." -> <<".", ".">>
      [] OTHER -> <<n>>
MCProgramName(n) == IF n \in {"PG", "PG.ELF"} THEN "PG.ELF" ELSE "D.ELF"

Stored == {"D", "PG.ELF"}
MCTreePaths == {<<x>> : x \in Stored} \cup {<<x, y>> : x, y \in Stored}

MCProgramData == <<"elf">>
MCText == <<"txt">>

Empty == [p \in MCTreePaths |-> [kind |-> "none"]]
Program == [kind |-> "file", data |-> MCProgramData]
MCTrees ==
    {Empty,
     [Empty EXCEPT ![<<"PG.ELF">>] = Program],
     [Empty EXCEPT ![<<"D">>] = [kind |-> "dir"], ![<<"D", "PG.ELF">>] = Program]}

Relative(s) == [abs |-> FALSE, parts |-> s]
Absolute(s) == [abs |-> TRUE, parts |-> s]
MCInputs ==
    {Relative(<<"d">>), Relative(<<"PG.ELF">>), Relative(<<"..">>),
     Relative(<<"..", "PG.ELF">>), Relative(<<"D", "..", "PG.ELF">>),
     Relative(<<"D", "PG.ELF">>), Absolute(<<"D">>), Absolute(<<"PG.ELF">>),
     Absolute(<<"D", "D">>), Absolute(<<>>)}

Strings(chars, n) == UNION {[1 .. k -> chars] : k \in 0 .. n}

MCCdInputs ==
    [abs : BOOLEAN, parts : Strings({"d", "PG.ELF", "PG", "..", "."}, 2)]
    \cup {Relative(<<"D", "..", x>>) : x \in {"D", "PG", ".."}}

MCArgLines ==
    Strings({"x", " "}, 3)
    \cup {<<"x", " ", "x", " ", "x">>, <<"x", " ", "x", "x", " ">>,
          <<"x", "x", "x", "x", "x", "x">>, <<"x", " ", "x", "x", "x", "x">>,
          <<"x", "x", "x", "x", " ", "x">>, <<"x", "x", "x", " ", "x">>}
=============================================================================
