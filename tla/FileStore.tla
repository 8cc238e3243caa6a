----------------------------- MODULE FileStore -----------------------------
(***************************************************************************)
(* What fat32.c promises its callers: a tree of files and directories, one *)
(* operation at a time.  An operation does what it was asked, or is        *)
(* refused and changes nothing.  One that is cut short, by a crash or by   *)
(* an I/O error, may damage the paths it names, or the directory it was    *)
(* adding an entry to, and nothing else; nothing is promised of a damaged  *)
(* path from then on, nor of an operation that names one.                  *)
(***************************************************************************)
EXTENDS Integers, Sequences, SequencesExt

CONSTANTS
  Siblings(_),   \* the names an interrupted operation on a name may leave
  Paths,         \* the paths of the tree that are looked at
  Requests,      \* the operations callers ask for
  MaxSize        \* bound: the longest file

VARIABLES
  files,         \* what is at each path that is not damaged
  damaged,       \* the paths nothing is promised of
  request,       \* the operation under way
  reply          \* the result of the last one

fileVars == <<files, damaged, request, reply>>

NoRequest == [op |-> "none"]

None          == [kind |-> "none"]
Directory     == [kind |-> "dir"]
File(content) == [kind |-> "file", data |-> content]

Below(p, q) == IsPrefix(q, p)
ParentOf(p) == SubSeq(p, 1, Len(p) - 1)

Intact(d) == {p \in Paths : ~ \E q \in d : Below(p, q)}

At(f, p) == IF p = <<>> THEN Directory ELSE f[p]

\* Looking a path's parent up: the first component that is no directory.
ParentResult(f, p) ==
  IF p = <<>> THEN "INVALID_NAME"
  ELSE LET bad == {n \in 1 .. (Len(p) - 1) : At(f, SubSeq(p, 1, n)) # Directory}
       IN  IF bad = {} THEN "OK"
           ELSE LET n == CHOOSE n \in bad : \A k \in bad : n <= k
                IN  IF At(f, SubSeq(p, 1, n)) = None
                      THEN "NOT_FOUND" ELSE "NOT_A_DIRECTORY"

Put(f, p, node) == [q \in DOMAIN f |-> IF q = p THEN node ELSE f[q]]

\* The tree with what is at p, and below it, moved to q.
Move(f, p, q) ==
  LET rest(s, t) == SubSeq(s, Len(t) + 1, Len(s))
  IN  [s \in DOMAIN f |->
         IF Below(s, q)
           THEN IF p \o rest(s, q) \in DOMAIN f THEN f[p \o rest(s, q)] ELSE None
         ELSE IF Below(s, p) THEN None
         ELSE f[s]]

HasChild(f, p) == \E q \in DOMAIN f : Below(q, p) /\ q # p /\ f[q] # None

-----------------------------------------------------------------------------
(* What each operation replies, and the tree it leaves when that is OK.    *)

ReplyTo(f, r) ==
  LET p == r.path
      q == r.to
  IN  IF r.op = "rename" /\ r.path = r.to THEN "OK"
      ELSE IF ParentResult(f, p) # "OK" THEN ParentResult(f, p)
      ELSE IF r.op = "rename" /\ ParentResult(f, q) # "OK" THEN ParentResult(f, q)
      ELSE CASE r.op \in {"write", "append"} ->
                  IF f[p] = Directory THEN "IS_A_DIRECTORY" ELSE "OK"
             [] r.op = "mkdir" ->
                  IF f[p] # None THEN "ALREADY_EXISTS" ELSE "OK"
             [] r.op = "remove" ->
                  IF f[p] = None THEN "NOT_FOUND"
                  ELSE IF HasChild(f, p) THEN "DIRECTORY_NOT_EMPTY" ELSE "OK"
             [] r.op = "rename" ->
                  IF f[p] = None THEN "NOT_FOUND"
                  ELSE IF f[p] = Directory /\ Below(ParentOf(q), p)
                    THEN "INVALID_NAME"
                  ELSE IF f[q] # None THEN "ALREADY_EXISTS" ELSE "OK"

TreeAfter(f, r) ==
  LET p == r.path
  IN  CASE r.op = "write"  -> Put(f, p, File(r.data))
        [] r.op = "append" ->
             Put(f, p, File((IF f[p].kind = "file" THEN f[p].data ELSE <<>>) \o r.data))
        [] r.op = "mkdir"  -> Put(f, p, Directory)
        [] r.op = "remove" -> Put(f, p, None)
        [] r.op = "rename" ->
             IF r.path = r.to THEN f ELSE Move(f, p, r.to)

-----------------------------------------------------------------------------
\* The paths an operation names.
Named(r) == {r.path} \cup (IF r.op = "rename" THEN {r.to} ELSE {})

\* The paths an interrupted operation may leave damaged, and the directories
\* it adds an entry to.
Affected(r) ==
  UNION {{p} \cup (IF p = <<>> THEN {}
                   ELSE {Append(ParentOf(p), n) : n \in Siblings(p[Len(p)])}) :
         p \in Named(r)}
Grown(r) ==
  IF r.op = "rename" THEN {ParentOf(r.to)} ELSE {ParentOf(r.path)}

\* Bounds: files stay short, and a moved tree stays inside Paths.
WithinBounds(f, r) ==
  CASE r.op = "append" ->
         r.path \in DOMAIN f /\ f[r.path].kind = "file"
           => Len(f[r.path].data) + Len(r.data) <= MaxSize
    [] r.op = "rename" ->
         \A p \in DOMAIN f :
           Below(p, r.path) /\ f[p] # None =>
             r.to \o SubSeq(p, Len(r.path) + 1, Len(p)) \in Paths
    [] OTHER -> TRUE

\* No operation names a damaged path, one above it or one below it.
AvoidsDamage(d, r) ==
  \A p \in Named(r), q \in d : ~ Below(p, q) /\ ~ Below(q, p)

-----------------------------------------------------------------------------
StoreInit ==
  /\ DOMAIN files = Paths
  /\ damaged = {}
  /\ request = NoRequest
  /\ reply = "OK"

Submit(r) ==
  /\ request = NoRequest
  /\ AvoidsDamage(damaged, r)
  /\ request' = r
  /\ UNCHANGED <<files, damaged, reply>>

Complete ==
  /\ request # NoRequest
  /\ reply' = ReplyTo(files, request)
  /\ files' = IF reply' = "OK" THEN TreeAfter(files, request) ELSE files
  /\ request' = NoRequest
  /\ damaged' = damaged

OutOfSpace ==
  /\ request # NoRequest
  /\ request.op # "remove"
  /\ ReplyTo(files, request) = "OK"
  /\ reply' = "NO_SPACE"
  /\ request' = NoRequest
  /\ UNCHANGED <<files, damaged>>

\* An empty directory that cannot be read is not removed.
TakenForFull ==
  /\ request.op = "remove"
  /\ ReplyTo(files, request) = "OK"
  /\ files[request.path] = Directory
  /\ reply' = "DIRECTORY_NOT_EMPTY"
  /\ request' = NoRequest
  /\ UNCHANGED <<files, damaged>>

Interrupted ==
  /\ request # NoRequest
  /\ reply' = "IO_ERROR"
  /\ request' = NoRequest
  /\ damaged' \in {damaged \cup Affected(request),
                   damaged \cup Affected(request) \cup Grown(request)}
  /\ files' = [p \in Intact(damaged') |-> files[p]]

StoreNext ==
  \/ \E r \in Requests : Submit(r)
  \/ Complete
  \/ OutOfSpace
  \/ TakenForFull
  \/ Interrupted

Spec == StoreInit /\ [][StoreNext]_fileVars

=============================================================================
