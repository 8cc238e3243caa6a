------------------------------- MODULE Shell --------------------------------
(***************************************************************************)
(* The shell, src/kernel/shell.c, and the program lookup, program.c, over  *)
(* the promise of the file system (FileStore).  One command at a time; the *)
(* only state the shell keeps is its working directory, a path as text:    *)
(* nothing ties it to the directory it once named.                         *)
(***************************************************************************)
EXTENDS Path, Args

CONSTANTS
    Capacity,     \* PATH_CAPACITY
    Inputs,       \* path arguments: [abs, parts]
    CdInputs,     \* those of cd
    ArgLines,     \* what may follow the name of a program: characters
    Commands,     \* program names typed without a slash
    ProgramName(_),\* a command with ".ELF" appended unless it ends in it
    Trees,        \* file systems at start
    TreePaths,    \* paths of the tree
    ProgramData,  \* content of a file that is a valid program
    Text          \* content the shell writes

VARIABLES
    tree,     \* what is at each path
    cwd,      \* g_cwd
    command,  \* the last command line
    said,     \* what the shell printed about it
    ran,      \* the program it ran, if any: its path and its arguments
    running   \* FALSE once "panic" or "fault" has stopped the machine

vars == <<tree, cwd, command, said, ran, running>>

\* Nothing fails below the file system here (see Fat32 for that).
NoSiblings(n) == {}
FS == INSTANCE FileStore WITH
    files <- tree, damaged <- {}, request <- [op |-> "none"], reply <- "OK",
    Siblings <- NoSiblings, Paths <- TreePaths, Requests <- {}, MaxSize <- 1

\* A line with no argument.
NoArgument == [abs |-> FALSE, parts |-> <<>>]

\* No line yet, and a line that has been dealt with.
NoLine == [name |-> "none"]
DoneLine == [name |-> "done"]

Init ==
    /\ tree \in Trees
    /\ cwd = <<>>
    /\ command = NoLine
    /\ said = "nothing"
    /\ ran = <<>>
    /\ running = TRUE

-----------------------------------------------------------------------------
\* fs_stat: a path that cannot be looked up is simply not there.
Stat(p) ==
    IF p = <<>> THEN FS!Directory
    ELSE IF p \notin TreePaths \/ FS!ParentResult(tree, p) # "OK" THEN FS!None
    ELSE tree[p]

\* shell_print_fs_result
Message(result) ==
    CASE result = "OK" -> "nothing"
      [] result = "NOT_FOUND" -> "not found"
      [] result = "ALREADY_EXISTS" -> "already exists"
      [] result \in {"NOT_A_DIRECTORY"} -> "not a directory"
      [] result = "IS_A_DIRECTORY" -> "not a file"
      [] result = "DIRECTORY_NOT_EMPTY" -> "directory not empty"
      [] result = "INVALID_NAME" -> "invalid path"

\* The lines a user can type; command is NoLine while the prompt is up.
Arguments == Inputs \cup {NoArgument}
Lines ==
    [name : {"cd"}, path : CdInputs \cup {NoArgument}]
    \cup [name : {"ls", "cat", "mkdir", "write", "append", "rm"},
          path : Arguments]
    \cup [name : {"mv"}, path : Arguments, to : Arguments]
    \cup [name : {"run"}, path : {a \in Inputs : a.abs \/ Len(a.parts) > 1},
          args : ArgLines]
    \cup [name : {"run"}, program : Commands, args : ArgLines]
    \cup [name : {"report", "stop"}]

\* shell_run: the loop prints the prompt.
Prompt ==
    /\ running
    /\ command = DoneLine
    /\ command' = NoLine
    /\ said' = "nothing"
    /\ ran' = <<>>
    /\ UNCHANGED <<tree, cwd, running>>

\* shell_run: keyboard_read_line fills the line.
ReadLine ==
    /\ running
    /\ command = NoLine
    /\ command' \in Lines
    /\ UNCHANGED <<tree, cwd, said, ran, running>>

\* The command ends with a message and changes nothing but the screen.
Say(message) ==
    /\ command' = DoneLine
    /\ said' = message
    /\ UNCHANGED <<tree, cwd, ran, running>>

Arg == command.path

\* resolve_path_or_print
Resolve(arg) == path_normalize(cwd, arg, Capacity)

\* A command that needs a path and has none prints its usage; a path that is
\* too long is invalid.
NoPath == Arg = NoArgument /\ Say("usage")
BadPath == Arg # NoArgument /\ ~Resolve(Arg).ok /\ Say("invalid path")
GoodPath == Arg # NoArgument /\ Resolve(Arg).ok

\* cd: a directory becomes the working directory.
shell_command_cd ==
    /\ command.name = "cd"
    /\ \/ NoPath
       \/ BadPath
       \/ /\ GoodPath
          /\ Stat(Resolve(Arg).out) = FS!Directory
          /\ cwd' = Resolve(Arg).out
          /\ command' = DoneLine
          /\ UNCHANGED <<tree, said, ran, running>>
       \/ /\ GoodPath
          /\ Stat(Resolve(Arg).out) # FS!Directory
          /\ Say(IF Stat(Resolve(Arg).out) = FS!None THEN "not found"
                 ELSE "not a directory")

\* What ls says of a path; the root is listed without looking it up.
Listing(p) ==
    CASE Stat(p) = FS!Directory -> "listing"
      [] Stat(p) = FS!None -> "not found"
      [] OTHER -> "not a directory"

\* ls without an argument lists g_cwd as it is.
shell_command_ls ==
    /\ command.name = "ls"
    /\ \/ Arg = NoArgument /\ Say(Listing(cwd))
       \/ BadPath
       \/ GoodPath /\ Say(Listing(Resolve(Arg).out))

shell_command_cat ==
    /\ command.name = "cat"
    /\ \/ NoPath
       \/ BadPath
       \/ /\ GoodPath
          /\ Say(LET node == Stat(Resolve(Arg).out)
                 IN  CASE node = FS!Directory -> "not a file"
                       [] node = FS!None -> "not found"
                       [] OTHER -> "contents")

\* Mutant of Submit: the result is not printed.
Submit_Silent(r) ==
    LET result == FS!ReplyTo(tree, r) IN
    /\ \A p \in FS!Named(r) : p \in TreePaths
    /\ FS!WithinBounds(tree, r)
    /\ said' = "nothing"
    /\ tree' = IF result = "OK" THEN FS!TreeAfter(tree, r) ELSE tree
    /\ command' = DoneLine
    /\ UNCHANGED <<cwd, ran, running>>

\* A request handed to the file system, and what fs.c makes of its result.
\* Bound: trees deeper than TreePaths and files longer than one text are left
\* out.
Submit(r) ==
    LET result == FS!ReplyTo(tree, r) IN
    /\ IF /\ \A p \in FS!Named(r) : p = <<>> \/ p \in TreePaths
          /\ FS!WithinBounds(tree, r)
       THEN /\ said' = Message(result)
            /\ tree' = IF result = "OK" THEN FS!TreeAfter(tree, r) ELSE tree
       ELSE /\ said' = "out of bounds"
            /\ UNCHANGED tree
    /\ command' = DoneLine
    /\ UNCHANGED <<cwd, ran, running>>

Request(op, p, q) == [op |-> op, path |-> p, to |-> q, data |-> Text]

\* mkdir, write, append and rm: one path.
OnePath(name, op) ==
    /\ command.name = name
    /\ \/ NoPath
       \/ BadPath
       \/ GoodPath /\ Submit(Request(op, Resolve(Arg).out, <<>>))

shell_command_mkdir == OnePath("mkdir", "mkdir")
shell_command_write == OnePath("write", "write")
shell_command_append == OnePath("append", "append")
shell_command_rm == OnePath("rm", "remove")

\* mv resolves both paths against the same working directory.
shell_command_mv ==
    /\ command.name = "mv"
    /\ \/ NoArgument \in {Arg, command.to} /\ Say("usage")
       \/ /\ NoArgument \notin {Arg, command.to}
          /\ ~(Resolve(Arg).ok /\ Resolve(command.to).ok)
          /\ Say("invalid path")
       \/ /\ NoArgument \notin {Arg, command.to}
          /\ Resolve(Arg).ok
          /\ Resolve(command.to).ok
          /\ Submit(Request("rename", Resolve(Arg).out,
                            Resolve(command.to).out))

-----------------------------------------------------------------------------
\* program_dispatch.

\* The program as it was typed: a name, or a path with its slashes.
Typed(c) ==
    IF "program" \in DOMAIN c THEN Spelling(c.program)
    ELSE LET text == FoldLeft(LAMBDA t, p : Append(t, "/") \o Spelling(p),
                              <<>>, c.path.parts)
         IN  IF ~c.path.abs THEN Tail(text)
             ELSE IF text = <<>> THEN <<"/">> ELSE text

\* process_run_foreground cuts the arguments, then loads and runs a file that
\* is a valid program (see Process) and refuses anything else.
IsProgram(p) == Stat(p) = FS!File(ProgramData)

Execute(p) ==
    LET tokens == process_tokenize_args(Typed(command), command.args) IN
    /\ ran' = IF tokens.ok /\ IsProgram(p)
              THEN <<[path |-> p, argv |-> process_stage_user_context(tokens)]>>
              ELSE <<>>
    /\ said' = IF Stat(p) = FS!None THEN "program not found"
               ELSE IF ~tokens.ok THEN "program args invalid"
               ELSE IF IsProgram(p) THEN "nothing"
               ELSE "failed"
    /\ command' = DoneLine
    /\ UNCHANGED <<tree, cwd, running>>

\* build_lookup_path
LookupPath(base, name) ==
    path_normalize(base, [abs |-> FALSE, parts |-> <<ProgramName(name)>>],
                   Capacity)

Found(base, name) ==
    /\ LookupPath(base, name).ok
    /\ Stat(LookupPath(base, name).out) # FS!None

\* Mutant of RunByName: the working directory is searched first.
RunByName_CwdFirst ==
    /\ command.name = "run"
    /\ "program" \in DOMAIN command
    /\ LET name == command.program IN
       \/ Found(cwd, name) /\ Execute(LookupPath(cwd, name).out)
       \/ ~Found(cwd, name) /\ Execute(LookupPath(<<>>, name).out)

\* A name without a slash: the root directory first, then the working
\* directory.
RunByName ==
    /\ command.name = "run"
    /\ "program" \in DOMAIN command
    /\ LET name == command.program IN
       \/ Found(<<>>, name) /\ Execute(LookupPath(<<>>, name).out)
       \/ /\ ~Found(<<>>, name)
          /\ Found(cwd, name)
          /\ Execute(LookupPath(cwd, name).out)
       \/ /\ ~Found(<<>>, name)
          /\ ~Found(cwd, name)
          /\ Say("unknown command")

\* path_has_program_suffix, of a normalised path.
IsElf(p) == p # <<>> /\ ProgramName(Last(p)) = Last(p)

\* A name with a slash is a path and must end in ".ELF".
RunByPath ==
    /\ command.name = "run"
    /\ "path" \in DOMAIN command
    /\ IF Resolve(Arg).ok /\ IsElf(Resolve(Arg).out)
       THEN Execute(Resolve(Arg).out)
       ELSE Say("program not found")

\* help, pwd, clear, memstat, blockinfo and lspci only report.
Report == command.name = "report" /\ Say("report")

\* panic and fault stop the machine.
Stop ==
    /\ command.name = "stop"
    /\ running' = FALSE
    /\ command' = DoneLine
    /\ UNCHANGED <<tree, cwd, said, ran>>

\* shell_execute: the command table, or a program.
shell_execute ==
    \/ shell_command_cd
    \/ shell_command_ls
    \/ shell_command_cat
    \/ shell_command_mkdir
    \/ shell_command_write
    \/ shell_command_append
    \/ shell_command_rm
    \/ shell_command_mv
    \/ RunByName
    \/ RunByPath
    \/ Report
    \/ Stop

Next == Prompt \/ ReadLine \/ shell_execute

Spec == Init /\ [][Next]_vars

-----------------------------------------------------------------------------
\* The directory the shell believes it is in is gone, moved away, or a file.
Stale == Stat(cwd) # FS!Directory

\* The paths a command names, and those of them below the working directory.
Uses(c) ==
    {Resolve(a) : a \in {c.path} \cup (IF c.name = "mv" THEN {c.to} ELSE {})}
BelowCwd(c) ==
    {u \in Uses(c) : u.ok /\ u.out # cwd /\ FS!Below(u.out, cwd)}

\* With a stale working directory no command that names something below it
\* changes anything, and it says so, unless it renames a path to itself: the
\* shell never creates, moves or removes anything under a directory that is
\* not there, and never pretends to have.
StaleCwdHarmless ==
    [][/\ Stale
       /\ command.name \in {"mkdir", "write", "append", "rm", "mv"}
       /\ BelowCwd(command) # {}
       => /\ tree' = tree
          /\ said' = "nothing" => Cardinality(Uses(command)) = 1
                                  /\ command.name = "mv"]_vars

\* Every path a command names is resolved to what it means, or refused because
\* it does not fit, from every working directory a session can come to; and the
\* working directory stays a normalised path that fits its buffer, so that
\* later resolutions start from a path they can take (path.c, path_normalize;
\* shell.c, resolve_path_or_print and shell_command_cd).
ResolvesRight ==
    [][/\ "path" \in DOMAIN command =>
              \A a \in {command.path}
                       \cup (IF command.name = "mv" THEN {command.to} ELSE {}) :
                  NormalizeCorrect(cwd, a, Capacity)
       /\ cwd' # cwd => /\ TextLength(cwd') < Capacity
                        /\ NormalizeStable(cwd', cwd, Capacity)]_vars

\* A program started by its name is the one in the root directory if there is
\* an entry of that name there, and otherwise the one in the working
\* directory: a program in the directory the user happens to be in never
\* replaces a system program.
RightProgram(p) ==
    "program" \in DOMAIN command =>
        LET name == Upper(ProgramName(command.program))
        IN  p = IF Stat(<<name>>) # FS!None THEN <<name>> ELSE Append(cwd, name)

\* The right program runs, and finds what was typed and then the words of the
\* line, in order, none missing and none joined, in its own copy of the buffer;
\* arguments are refused only if they do not fit in argv and the buffer
\* (program.c, program_dispatch; process.c, process_tokenize_args).
RunsRight ==
    [][/\ ran' # <<>> =>
              /\ RightProgram(ran'[1].path)
              /\ ran'[1].argv = <<Typed(command)>> \o WordsOf(command.args)
              /\ ~TooLong(Typed(command), command.args)
       /\ said' = "program args invalid" =>
              TooLong(Typed(command), command.args)]_vars
=============================================================================
