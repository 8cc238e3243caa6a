------------------------------ MODULE MCFat32 ------------------------------
(***************************************************************************)
(* Small volumes for Fat32: six clusters of four cells, a FAT of two       *)
(* sectors.                                                                *)
(***************************************************************************)
EXTENDS Fat32

\* "a" is an 8.3 name and "long" is not.  In PlainAlias they have nothing to
\* do with each other; in ClashAlias "a" is just what build_short_alias makes
\* of "long" (as LONGNA~1.TXT is of longname1.txt).
MCExactShort == [n \in {"a"} |-> n]
PlainAlias == [n \in {"a", "long"} |-> IF n = "a" THEN <<"a1", "a2">>
                                                ELSE <<"long1", "long2">>]
ClashAlias == [n \in {"a", "long"} |-> <<"a", "b", "c">>]
MCLfnCount == [n \in {"a", "long"} |-> 1]

\* The sectors of the FAT; a chain may cross from one to the other.
Sectors == << {2, 3, 4}, {5, 6, 7} >>

Names == {"a", "long"}
Depth1 == {<<n>> : n \in Names}
Depth2 == {<<n, k>> : n, k \in Names}
Depth3 == {<<n, k, l>> : n, k, l \in Names}
MCPaths == Depth1 \cup Depth2 \cup Depth3

Req(op, path, to, data) == [op |-> op, path |-> path, to |-> to, data |-> data]
Overwrite(path, data) == Req("write", path, <<>>, data)
Append1(path)      == Req("append", path, <<>>, <<3, 3, 3, 3>>)
MkDir(path)        == Req("mkdir", path, <<>>, <<>>)
Rm(path)           == Req("remove", path, <<>>, <<>>)
Mv(path, to)       == Req("rename", path, to, <<>>)
Big == <<2, 2, 2, 2, 2>>

Huge == <<4, 4, 4, 4, 4, 4, 4, 4, 4>>

MCRequests ==
  LET ps == Depth1 \cup (Depth2 \ {<<"a", "a">>})
  IN  {Overwrite(p, d) : p \in ps, d \in {<<1>>, Big}}
      \cup {Overwrite(<<n>>, <<>>) : n \in Names} \cup {Overwrite(<<"long">>, Huge)}
      \cup {Append1(p) : p \in ps} \cup {MkDir(p) : p \in ps \cup {<<>>}}
      \cup {Rm(p) : p \in ps} \cup {Mv(p, q) : p, q \in ps}

\* A freshly formatted volume, and what a sequence of operations makes of it.
Empty ==
  [fat  |-> [c \in Clusters |-> IF c = Root THEN EndOfChain ELSE 0],
   disk |-> [c \in Clusters |-> IF c = Root THEN Zeros ELSE Junk]]
After(requests) ==
  LET Apply(v, i) == LET m == Operation(Machine(v.fat, v.disk), requests[i])
                     IN  [fat |-> m.fat, disk |-> m.disk]
  IN  Loop(Empty, Len(requests), Apply)

\* Empty; a directory about to grow; a full volume; deleted entries and free
\* clusters in between; directories in directories.
MCVolumes ==
  { Empty,
    After(<< MkDir(<<"a">>), Overwrite(<<"a", "long">>, Big), Overwrite(<<"long">>, <<1>>) >>),
    After(<< MkDir(<<"long">>), Overwrite(<<"long", "long">>, Big), Append1(<<"a">>),
             Overwrite(<<"a">>, Big) >>),
    After(<< Overwrite(<<"a">>, Big), MkDir(<<"long">>), Rm(<<"a">>),
             Overwrite(<<"long", "a">>, <<1>>) >>),
    After(<< MkDir(<<"long">>), MkDir(<<"long", "a">>), MkDir(<<"a">>),
             Overwrite(<<"a", "long">>, <<>>) >>) }

=============================================================================
