--------------------------- MODULE StartupProofs ----------------------------
(***************************************************************************)
(* Proofs about Startup: what the boot loader hands over, what acpi_init   *)
(* reads and finds, and what lspci shows, for every image, display, set of *)
(* tables and arrangement of PCI functions, and for every pattern of       *)
(* failing firmware calls.                                                 *)
(***************************************************************************)
EXTENDS Startup, Numbers, SequenceTheorems

-----------------------------------------------------------------------------
(* The boot loader.                                                        *)

\* What read_file and efi_main hold at each of their steps.
LoaderHolds ==
    /\ misuse = FALSE
    /\ lpc \in {"open", "info", "getinfo", "larger", "getinfo2", "data", "read", "load",
                "bootinfo", "graphics", "device", "map", "exit", "kernel", "error",
                "jumped"}
    /\ lpc = "open" => open = 0 /\ pool = {}
    /\ lpc \in {"info", "larger"} => open = 1 /\ pool = {}
    /\ lpc \in {"getinfo", "getinfo2", "data"} => open = 1 /\ pool = {"info"}
    /\ lpc = "read" => open = 1 /\ pool = {"info", "data"}
    /\ lpc \in {"load", "bootinfo"} => open = 0 /\ pool = {"data"}
    /\ lpc \in {"graphics", "device", "map", "exit", "kernel"} =>
           open = 0 /\ pool = {"data", "bootinfo"}
    /\ lpc = "error" => open = 0 /\ pool \in {{}, {"data"}, {"data", "bootinfo"}}
    /\ lpc = "jumped" => open = 0 /\ pool = {}

\* The segments before the one at hand are in place.
LoaderPlaces ==
    /\ lpc # "jumped" => image \in Images
    /\ segment \in Nat \ {0}
    /\ owner \in [Pages -> Int]
    /\ lpc \notin {"jumped", "error"} =>
           \A s \in DOMAIN image :
               s < segment /\ image[s].load =>
                   image[s].valid /\ \A p \in image[s].pages : owner[p] = s
    /\ lpc \in {"bootinfo", "graphics", "device", "map", "exit", "kernel"} =>
           segment > Len(image)

\* The map of the BootInfo belongs to the key ExitBootServices is given.
LoaderMap ==
    /\ lpc = "exit" => mapped = key
    /\ lpc = "kernel" => exited /\ mapped = epoch

LoaderInv == LoaderHolds /\ LoaderPlaces /\ LoaderMap /\ Loader!ModeIsBest

\* Freeing what is held, and closing the open file or leaving it open.
LEMMA ReleaseHeld ==
  ASSUME NEW held, NEW close \in BOOLEAN,
         held \subseteq pool, open = 1, misuse = FALSE, Loader!Release(held, close)
  PROVE  /\ pool' = pool \ held
         /\ open' = IF close THEN 0 ELSE 1
         /\ misuse' = FALSE
<1>1. pool' = pool \ held /\ open' = IF close /\ open > 0 THEN open - 1 ELSE open
  BY DEF Loader!Release
<1>2. open' = IF close THEN 0 ELSE 1
  <2>1. open > 0 /\ open - 1 = 0
    OBVIOUS
  <2> QED BY <1>1, <2>1
<1>3. misuse' = FALSE
  <2>1. misuse' = (misuse \/ ~(held \subseteq pool) \/ (close /\ open = 0))
    BY DEF Loader!Release
  <2>2. ~(misuse \/ ~(held \subseteq pool) \/ (close /\ open = 0))
    OBVIOUS
  <2> QED BY <2>1, <2>2, Zenon
<1> QED BY <1>1, <1>2, <1>3

\* Every step of efi_main keeps what is held in order.
LEMMA HoldsStep ==
  ASSUME LoaderHolds, Loader!Next \/ EnterKernel
  PROVE  LoaderHolds'
<1> USE DEF LoaderHolds, Loader!files
<1>1. CASE Loader!OpenFile
  BY <1>1 DEF Loader!OpenFile, Loader!Goto
<1> DEFINE Failed == lpc' = "error" /\ open' = 0 /\ pool' = {} /\ misuse' = FALSE
           GotInfo == open' = 1 /\ pool' = {"info"} /\ misuse' = FALSE
<1>f. ASSUME Failed PROVE LoaderHolds'
  BY <1>f
<1>g. ASSUME GotInfo, lpc' \in {"getinfo", "getinfo2", "data"} PROVE LoaderHolds'
  BY <1>g
<1> HIDE DEF Failed, GotInfo
\* An allocation of the information block, the first or the larger one.
<1>2. CASE Loader!AllocateInfo \/ Loader!AllocateLarger
  <2> DEFINE Got == /\ pool' = pool \cup {"info"}
                    /\ UNCHANGED <<open, misuse>>
                    /\ lpc' \in {"getinfo", "getinfo2"}
  <2>1. open = 1 /\ pool = {} /\ misuse = FALSE
    BY <1>2 DEF Loader!AllocateInfo, Loader!AllocateLarger
  <2>2. CASE Got
    <3>1. pool' = {"info"}
      BY <2>1, <2>2
    <3> QED BY <1>g, <2>1, <2>2, <3>1 DEF GotInfo
  <2>3. CASE Loader!Release({}, TRUE) /\ lpc' = "error"
    <3>1. pool' = pool \ {} /\ open' = 0 /\ misuse' = FALSE
      BY <2>1, <2>3, ReleaseHeld
    <3>2. pool' = {}
      BY <2>1, <3>1
    <3> QED BY <1>f, <2>3, <3>1, <3>2 DEF Failed
  <2>4. Got \/ (Loader!Release({}, TRUE) /\ lpc' = "error")
    BY <1>2 DEF Loader!AllocateInfo, Loader!AllocateLarger, Loader!Allocate, Loader!Goto
  <2> QED BY <2>2, <2>3, <2>4
\* The information block is given up, with the file or to be replaced.
<1>4. ASSUME open = 1, pool = {"info"}, misuse = FALSE,
             NEW close \in BOOLEAN, Loader!Release({"info"}, close)
      PROVE  open' = (IF close THEN 0 ELSE 1) /\ pool' = {} /\ misuse' = FALSE
  <2>1. pool' = pool \ {"info"} /\ open' = (IF close THEN 0 ELSE 1) /\ misuse' = FALSE
    BY <1>4, ReleaseHeld
  <2> QED BY <1>4, <2>1
<1>5. CASE Loader!GetInfo \/ Loader!GetInfoAgain
  <2>1. open = 1 /\ pool = {"info"} /\ misuse = FALSE
    BY <1>5 DEF Loader!GetInfo, Loader!GetInfoAgain
  <2>2. CASE Loader!Goto("data") /\ UNCHANGED Loader!files
    BY <1>g, <2>1, <2>2 DEF Loader!Goto, GotInfo
  <2>3. CASE Loader!Goto("larger") /\ Loader!Release({"info"}, FALSE)
    <3>1. open' = 1 /\ pool' = {} /\ misuse' = FALSE
      BY <1>4, <2>1, <2>3
    <3> QED BY <2>3, <3>1 DEF Loader!Goto
  <2>4. CASE Loader!Goto("error") /\ Loader!Release({"info"}, TRUE)
    <3>1. open' = 0 /\ pool' = {} /\ misuse' = FALSE
      BY <1>4, <2>1, <2>4
    <3> QED BY <1>f, <2>4, <3>1 DEF Loader!Goto, Failed
  <2> QED BY <1>5, <2>2, <2>3, <2>4 DEF Loader!GetInfo, Loader!GetInfoAgain
<1>6. CASE Loader!AllocateData
  <2>1. open = 1 /\ pool = {"info"} /\ misuse = FALSE
    BY <1>6 DEF Loader!AllocateData
  <2>2. CASE pool' = pool \cup {"data"} /\ UNCHANGED <<open, misuse>>
             /\ Loader!Goto("read")
    <3>1. pool' = {"info", "data"}
      BY <2>1, <2>2
    <3> QED BY <2>1, <2>2, <3>1 DEF Loader!Goto
  <2>3. CASE Loader!Release({"info"}, TRUE) /\ Loader!Goto("error")
    <3>1. open' = 0 /\ pool' = {} /\ misuse' = FALSE
      BY <1>4, <2>1, <2>3
    <3> QED BY <1>f, <2>3, <3>1 DEF Loader!Goto, Failed
  <2> QED BY <1>6, <2>2, <2>3 DEF Loader!AllocateData, Loader!Allocate
<1>7. CASE Loader!ReadFile
  <2>1. open = 1 /\ pool = {"info", "data"} /\ misuse = FALSE
    BY <1>7 DEF Loader!ReadFile
  <2>2. {"info"} \subseteq pool /\ {"info", "data"} \subseteq pool
    BY <2>1
  <2>3. CASE Loader!Goto("load") /\ Loader!Release({"info"}, TRUE)
    <3>1. pool' = pool \ {"info"} /\ open' = 0 /\ misuse' = FALSE
      BY <2>1, <2>2, <2>3, ReleaseHeld
    <3>2. pool' = {"data"}
      BY <2>1, <3>1
    <3> QED BY <2>3, <3>1, <3>2 DEF Loader!Goto
  <2>4. CASE Loader!Goto("error") /\ Loader!Release({"info", "data"}, TRUE)
    <3>1. pool' = pool \ {"info", "data"} /\ open' = 0 /\ misuse' = FALSE
      BY <2>1, <2>2, <2>4, ReleaseHeld
    <3>2. pool' = {}
      BY <2>1, <3>1
    <3> QED BY <1>f, <2>4, <3>1, <3>2 DEF Loader!Goto, Failed
  <2> QED BY <1>7, <2>3, <2>4 DEF Loader!ReadFile
<1>8. CASE Loader!RejectImage \/ Loader!PagesTaken \/ Loader!Loaded
  BY <1>8 DEF Loader!RejectImage, Loader!PagesTaken, Loader!Loaded, Loader!Goto
<1>9. CASE Loader!SkipSegment \/ Loader!LoadSegment
  BY <1>9 DEF Loader!SkipSegment, Loader!LoadSegment
<1>10. CASE Loader!AllocateBootInfo
  <2>1. open = 0 /\ pool = {"data"} /\ misuse = FALSE
    BY <1>10 DEF Loader!AllocateBootInfo
  <2>2. CASE pool' = pool \cup {"bootinfo"} /\ UNCHANGED <<open, misuse>>
             /\ Loader!Goto("graphics")
    <3>1. pool' = {"data", "bootinfo"}
      BY <2>1, <2>2
    <3> QED BY <2>1, <2>2, <3>1 DEF Loader!Goto
  <2>3. CASE Loader!Release({}, FALSE) /\ Loader!Goto("error")
    <3>1. pool' = {"data"} /\ open' = 0
      BY <2>1, <2>3 DEF Loader!Release
    <3>2. misuse' = FALSE
      <4>1. misuse' = (misuse \/ ~({} \subseteq pool) \/ (FALSE /\ open = 0))
        BY <2>3 DEF Loader!Release
      <4> QED BY <2>1, <4>1
    <3> QED BY <2>3, <3>1, <3>2 DEF Loader!Goto
  <2> QED BY <1>10, <2>2, <2>3 DEF Loader!AllocateBootInfo, Loader!Allocate
<1>11. CASE Loader!GatherGraphics \/ Loader!GatherDevice
  BY <1>11 DEF Loader!GatherGraphics, Loader!GatherDevice, Loader!Goto
<1>12. CASE Loader!GetMemoryMap \/ Loader!MapError \/ Loader!ExitBootServices
  BY <1>12 DEF Loader!GetMemoryMap, Loader!MapError, Loader!ExitBootServices, Loader!Goto
<1>13. CASE Loader!FirmwareEvent
  BY <1>13 DEF Loader!FirmwareEvent
<1>14. CASE EnterKernel
  BY <1>14 DEF EnterKernel
<1> QED
  BY <1>1, <1>2, <1>5, <1>6, <1>7, <1>8, <1>9, <1>10, <1>11, <1>12, <1>13, <1>14
  DEF Loader!Next, Loader!Loader

\* A kernel image is a sequence of program headers.
LEMMA ImageFacts ==
  ASSUME NEW i \in Images
  PROVE  /\ Len(i) \in Nat
         /\ DOMAIN i = 1 .. Len(i)
         /\ \A s \in DOMAIN i : i[s].pages \subseteq Pages
<1> DEFINE H == {i[s] : s \in DOMAIN i}
<1>1. i \in Seq(H) /\ \A s \in DOMAIN i : i[s].pages \subseteq Pages
  BY StartupAssumption
<1> HIDE DEF H
<1> QED BY <1>1

\* Every step keeps the placed segments in place: a later segment only takes
\* pages that were free.
LEMMA PlacesStep ==
  ASSUME LoaderPlaces, LoaderHolds, Loader!Next \/ EnterKernel
  PROVE  LoaderPlaces'
<1> USE DEF LoaderPlaces
\* Steps that leave the image, the segments and the pages alone.
<1>1. ASSUME UNCHANGED <<image, segment, owner>>, lpc # "jumped",
             lpc' # "jumped",
             lpc' \notin {"jumped", "error"} => lpc # "error",
             lpc' \in {"graphics", "device", "map", "exit", "kernel"} =>
                 lpc \in {"bootinfo", "graphics", "device", "map", "exit", "kernel"},
             lpc' = "bootinfo" => segment > Len(image)
      PROVE  LoaderPlaces'
  BY <1>1
<1>2. CASE \/ Loader!OpenFile \/ Loader!AllocateInfo \/ Loader!GetInfo
           \/ Loader!AllocateLarger \/ Loader!GetInfoAgain \/ Loader!AllocateData
           \/ Loader!ReadFile
  <2>1. UNCHANGED <<image, segment, owner>>
    BY <1>2 DEF Loader!OpenFile, Loader!AllocateInfo, Loader!GetInfo,
      Loader!AllocateLarger, Loader!GetInfoAgain, Loader!AllocateData,
      Loader!ReadFile, Loader!Allocate, Loader!Goto
  <2>2. lpc \in {"open", "info", "getinfo", "larger", "getinfo2", "data", "read"}
    BY <1>2 DEF Loader!OpenFile, Loader!AllocateInfo, Loader!GetInfo,
      Loader!AllocateLarger, Loader!GetInfoAgain, Loader!AllocateData, Loader!ReadFile
  <2>3. lpc' \in {"info", "getinfo", "larger", "getinfo2", "data", "read", "load",
                  "error"}
    BY <1>2 DEF Loader!OpenFile, Loader!AllocateInfo, Loader!GetInfo,
      Loader!AllocateLarger, Loader!GetInfoAgain, Loader!AllocateData,
      Loader!ReadFile, Loader!Allocate, Loader!Goto
  <2> QED BY <1>1, <2>1, <2>2, <2>3
<1>3. CASE Loader!RejectImage \/ Loader!PagesTaken \/ Loader!Loaded
  BY <1>1, <1>3 DEF Loader!RejectImage, Loader!PagesTaken, Loader!Loaded, Loader!Goto
<1>4. CASE Loader!SkipSegment
  <2>1. lpc = "load" /\ lpc' = "load" /\ UNCHANGED <<image, owner>>
        /\ segment' = segment + 1 /\ ~image[segment].load
    BY <1>4 DEF Loader!SkipSegment, Loader!Segment
  <2>2. ASSUME NEW t \in DOMAIN image, t < segment + 1, image[t].load
        PROVE  image[t].valid /\ \A p \in image[t].pages : owner[p] = t
    <3>1. t \in Nat
      BY <2>1, ImageFacts
    <3>2. t < segment
      BY <2>1, <2>2, <3>1
    <3> QED BY <2>1, <2>2, <3>2
  <2> QED BY <2>1, <2>2
<1>5. CASE Loader!LoadSegment
  <2>1. /\ lpc = "load" /\ lpc' = "load" /\ UNCHANGED image
        /\ segment' = segment + 1
        /\ image[segment].valid
        /\ \A p \in image[segment].pages : owner[p] = 0
        /\ owner' = [p \in Pages |->
                        IF p \in image[segment].pages THEN segment ELSE owner[p]]
    BY <1>5 DEF Loader!LoadSegment, Loader!Segment, Loader!Free
  <2>2. owner' \in [Pages -> Int]
    BY <2>1
  <2>3. ASSUME NEW t \in DOMAIN image, t < segment + 1, image[t].load
        PROVE  image[t].valid /\ \A p \in image[t].pages : owner'[p] = t
    <3>1. t \in Nat \ {0} /\ image[t].pages \subseteq Pages
      BY <2>1, ImageFacts
    <3>2. CASE t = segment
      BY <2>1, <3>1, <3>2
    <3>3. CASE t < segment
      <4>1. image[t].valid /\ \A p \in image[t].pages : owner[p] = t
        BY <2>1, <2>3, <3>3
      <4>2. ASSUME NEW p \in image[t].pages PROVE owner'[p] = t
        <5>1. owner[p] # 0 /\ p \in Pages
          BY <3>1, <4>1
        <5> QED BY <2>1, <4>1, <5>1
      <4> QED BY <4>1, <4>2
    <3> QED BY <2>3, <3>1, <3>2, <3>3
  <2> QED BY <2>1, <2>2, <2>3
<1>6. CASE \/ Loader!AllocateBootInfo \/ Loader!GatherGraphics \/ Loader!GatherDevice
           \/ Loader!GetMemoryMap \/ Loader!MapError \/ Loader!ExitBootServices
  <2>1. UNCHANGED <<image, segment, owner>>
    BY <1>6 DEF Loader!AllocateBootInfo, Loader!GatherGraphics, Loader!GatherDevice,
      Loader!GetMemoryMap, Loader!MapError, Loader!ExitBootServices,
      Loader!Allocate, Loader!Goto
  <2>2. lpc \in {"bootinfo", "graphics", "device", "map", "exit", "kernel"}
    BY <1>6 DEF Loader!AllocateBootInfo, Loader!GatherGraphics, Loader!GatherDevice,
      Loader!GetMemoryMap, Loader!MapError, Loader!ExitBootServices
  <2>3. lpc' \in {"graphics", "device", "map", "exit", "kernel", "error"}
    BY <1>6 DEF Loader!AllocateBootInfo, Loader!GatherGraphics, Loader!GatherDevice,
      Loader!GetMemoryMap, Loader!MapError, Loader!ExitBootServices,
      Loader!Allocate, Loader!Goto
  <2> QED BY <1>1, <2>1, <2>2, <2>3
<1>7. CASE Loader!FirmwareEvent
  BY <1>7 DEF Loader!FirmwareEvent
<1>8. CASE EnterKernel
  BY <1>8 DEF EnterKernel
<1> QED
  BY <1>2, <1>3, <1>4, <1>5, <1>6, <1>7, <1>8 DEF Loader!Next, Loader!Loader

\* Every step keeps the map and its key together: only GetMemoryMap sets them,
\* and ExitBootServices succeeds only if the firmware's map is still that one.
LEMMA MapStep ==
  ASSUME LoaderMap, Loader!Next \/ EnterKernel
  PROVE  LoaderMap'
<1> USE DEF LoaderMap, Loader!exit
<1>1. CASE Loader!GetMemoryMap
  BY <1>1 DEF Loader!GetMemoryMap
<1>2. CASE Loader!ExitBootServices
  BY <1>2 DEF Loader!ExitBootServices
<1>3. CASE Loader!FirmwareEvent
  BY <1>3 DEF Loader!FirmwareEvent
<1>4. CASE EnterKernel
  BY <1>4 DEF EnterKernel
<1>5. CASE \/ Loader!OpenFile \/ Loader!AllocateInfo \/ Loader!GetInfo
           \/ Loader!AllocateLarger \/ Loader!GetInfoAgain \/ Loader!AllocateData
           \/ Loader!ReadFile
  <2>1. lpc' \notin {"exit", "kernel"}
    BY <1>5 DEF Loader!OpenFile, Loader!AllocateInfo, Loader!GetInfo,
      Loader!AllocateLarger, Loader!GetInfoAgain, Loader!AllocateData,
      Loader!ReadFile, Loader!Allocate, Loader!Goto
  <2> QED BY <2>1
<1>6. CASE \/ Loader!RejectImage \/ Loader!SkipSegment \/ Loader!LoadSegment
           \/ Loader!PagesTaken \/ Loader!Loaded \/ Loader!AllocateBootInfo
           \/ Loader!GatherGraphics \/ Loader!GatherDevice \/ Loader!MapError
  <2>1. lpc' \notin {"exit", "kernel"}
    BY <1>6 DEF Loader!RejectImage, Loader!SkipSegment, Loader!LoadSegment,
      Loader!PagesTaken, Loader!Loaded, Loader!AllocateBootInfo,
      Loader!GatherGraphics, Loader!GatherDevice, Loader!MapError,
      Loader!Allocate, Loader!Goto
  <2> QED BY <2>1
<1> QED
  BY <1>1, <1>2, <1>3, <1>4, <1>5, <1>6 DEF Loader!Next, Loader!Loader

-----------------------------------------------------------------------------
(* The graphics mode.                                                      *)

\* The supported modes among the first n, within the preferred size or not.
Smalls(list, n) == {i \in 1 .. n : list[i].supported /\ Loader!Preferred(list[i])}
Larges(list, n) == {i \in 1 .. n : list[i].supported /\ ~Loader!Preferred(list[i])}

\* m is the first of the largest, or of the smallest, modes of s; 0 for no mode.
FirstLargest(list, s, m) ==
    IF s = {} THEN m = 0
    ELSE /\ m \in s
         /\ \A i \in s : /\ Loader!Area(list[i]) <= Loader!Area(list[m])
                         /\ i < m => Loader!Area(list[i]) < Loader!Area(list[m])
FirstSmallest(list, s, m) ==
    IF s = {} THEN m = 0
    ELSE /\ m \in s
         /\ \A i \in s : /\ Loader!Area(list[i]) >= Loader!Area(list[m])
                         /\ i < m => Loader!Area(list[i]) > Loader!Area(list[m])

\* What the loop of select_graphics_mode knows after n modes.
ScanGood(list, n, b) ==
    /\ b \in Nat \X Nat
    /\ FirstLargest(list, Smalls(list, n), b[1])
    /\ FirstSmallest(list, Larges(list, n), b[2])

\* One round of that loop.
Round(list, n, b) ==
    IF ~list[n].supported THEN b
    ELSE IF Loader!Preferred(list[n])
    THEN IF b[1] = 0 \/ Loader!Area(list[n]) > Loader!Area(list[b[1]])
         THEN <<n, b[2]>> ELSE b
    ELSE IF b[2] = 0 \/ Loader!Area(list[n]) < Loader!Area(list[b[2]])
         THEN <<b[1], n>> ELSE b

\* The areas of a list of modes are natural numbers.
LEMMA ModeFacts ==
  ASSUME NEW list \in ModeLists
  PROVE  /\ Len(list) \in Nat
         /\ DOMAIN list = 1 .. Len(list)
         /\ \A i \in 1 .. Len(list) : Loader!Area(list[i]) \in Nat
<1> DEFINE M == {list[m] : m \in DOMAIN list}
<1>1. list \in Seq(M) /\ \A m \in DOMAIN list : list[m].width \in Nat /\ list[m].height \in Nat
  BY StartupAssumption
<1> HIDE DEF M
<1>2. \A x, y \in Nat : x * y \in Nat
  OBVIOUS
<1>3. Len(list) \in Nat /\ DOMAIN list = 1 .. Len(list)
  BY <1>1
<1> QED BY <1>1, <1>2, <1>3 DEF Loader!Area

\* A round keeps what the loop knows.
LEMMA RoundGood ==
  ASSUME NEW list \in ModeLists, NEW n \in 0 .. Len(list) - 1, NEW b,
         ScanGood(list, n, b)
  PROVE  ScanGood(list, n + 1, Round(list, n + 1, b))
<1> DEFINE A(i) == Loader!Area(list[i])
           r == Round(list, n + 1, b)
<1>1. Len(list) \in Nat /\ n \in Nat /\ \A i \in 1 .. Len(list) : A(i) \in Nat
  BY ModeFacts
<1>2. b \in Nat \X Nat /\ b[1] \in Nat /\ b[2] \in Nat
  BY DEF ScanGood
<1>3. Smalls(list, n) \subseteq 1 .. n /\ Larges(list, n) \subseteq 1 .. n
  BY DEF Smalls, Larges
<1>4. 1 .. n \subseteq 1 .. Len(list) /\ n + 1 \in 1 .. Len(list) /\ 1 .. n + 1 = (1 .. n) \cup {n + 1}
  BY <1>1
<1>5. FirstLargest(list, Smalls(list, n), b[1]) /\ FirstSmallest(list, Larges(list, n), b[2])
  BY DEF ScanGood
<1>6. CASE ~list[n + 1].supported
  <2>1. Smalls(list, n + 1) = Smalls(list, n) /\ Larges(list, n + 1) = Larges(list, n)
    BY <1>4, <1>6 DEF Smalls, Larges
  <2>2. r = b
    BY <1>6 DEF Round
  <2> QED BY <1>2, <1>5, <2>1, <2>2 DEF ScanGood
<1>7. CASE list[n + 1].supported /\ Loader!Preferred(list[n + 1])
  <2>1. Smalls(list, n + 1) = Smalls(list, n) \cup {n + 1}
    BY <1>4, <1>7 DEF Smalls
  <2>2. Larges(list, n + 1) = Larges(list, n)
    BY <1>4, <1>7 DEF Larges
  <2>3. r = IF b[1] = 0 \/ A(n + 1) > A(b[1]) THEN <<n + 1, b[2]>> ELSE b
    BY <1>7 DEF Round
  <2>4. r \in Nat \X Nat /\ r[2] = b[2]
        /\ r[1] = IF b[1] = 0 \/ A(n + 1) > A(b[1]) THEN n + 1 ELSE b[1]
    BY <1>1, <1>2, <2>3
  <2> HIDE DEF A, r
  <2>5. FirstLargest(list, Smalls(list, n + 1), r[1])
    <3> SUFFICES /\ r[1] \in Smalls(list, n) \cup {n + 1}
                 /\ \A i \in Smalls(list, n) \cup {n + 1} :
                       A(i) <= A(r[1]) /\ (i < r[1] => A(i) < A(r[1]))
      BY <2>1 DEF FirstLargest, A
    <3>1. CASE Smalls(list, n) = {}
      BY <1>1, <1>4, <1>5, <2>4, <3>1 DEF FirstLargest
    <3>2. CASE Smalls(list, n) # {}
      <4>1. /\ b[1] \in Smalls(list, n)
            /\ \A i \in Smalls(list, n) : A(i) <= A(b[1]) /\ (i < b[1] => A(i) < A(b[1]))
        BY <1>5, <3>2 DEF FirstLargest, A
      <4>2. b[1] # 0 /\ b[1] < n + 1 /\ A(b[1]) \in Nat /\ A(n + 1) \in Nat
            /\ \A i \in Smalls(list, n) : A(i) \in Nat
        BY <1>1, <1>3, <1>4, <4>1
      <4>3. CASE A(n + 1) > A(b[1])
        BY <2>4, <4>1, <4>2, <4>3
      <4>4. CASE ~(A(n + 1) > A(b[1]))
        BY <1>1, <2>4, <4>1, <4>2, <4>4
      <4> QED BY <4>3, <4>4
    <3> QED BY <3>1, <3>2
  <2> QED BY <1>5, <2>2, <2>4, <2>5 DEF ScanGood, r
<1>8. CASE list[n + 1].supported /\ ~Loader!Preferred(list[n + 1])
  <2>1. Smalls(list, n + 1) = Smalls(list, n)
    BY <1>4, <1>8 DEF Smalls
  <2>2. Larges(list, n + 1) = Larges(list, n) \cup {n + 1}
    BY <1>4, <1>8 DEF Larges
  <2>3. r = IF b[2] = 0 \/ A(n + 1) < A(b[2]) THEN <<b[1], n + 1>> ELSE b
    BY <1>8 DEF Round
  <2>4. r \in Nat \X Nat /\ r[1] = b[1]
        /\ r[2] = IF b[2] = 0 \/ A(n + 1) < A(b[2]) THEN n + 1 ELSE b[2]
    BY <1>1, <1>2, <2>3
  <2> HIDE DEF A, r
  <2>5. FirstSmallest(list, Larges(list, n + 1), r[2])
    <3> SUFFICES /\ r[2] \in Larges(list, n) \cup {n + 1}
                 /\ \A i \in Larges(list, n) \cup {n + 1} :
                       A(i) >= A(r[2]) /\ (i < r[2] => A(i) > A(r[2]))
      BY <2>2 DEF FirstSmallest, A
    <3>1. CASE Larges(list, n) = {}
      BY <1>1, <1>4, <1>5, <2>4, <3>1 DEF FirstSmallest
    <3>2. CASE Larges(list, n) # {}
      <4>1. /\ b[2] \in Larges(list, n)
            /\ \A i \in Larges(list, n) : A(i) >= A(b[2]) /\ (i < b[2] => A(i) > A(b[2]))
        BY <1>5, <3>2 DEF FirstSmallest, A
      <4>2. b[2] # 0 /\ b[2] < n + 1 /\ A(b[2]) \in Nat /\ A(n + 1) \in Nat
            /\ \A i \in Larges(list, n) : A(i) \in Nat
        BY <1>1, <1>3, <1>4, <4>1
      <4>3. CASE A(n + 1) < A(b[2])
        BY <2>4, <4>1, <4>2, <4>3
      <4>4. CASE ~(A(n + 1) < A(b[2]))
        BY <1>1, <2>4, <4>1, <4>2, <4>4
      <4> QED BY <4>3, <4>4
    <3> QED BY <3>1, <3>2
  <2> QED BY <1>5, <2>1, <2>4, <2>5 DEF ScanGood, r
<1> QED BY <1>6, <1>7, <1>8

\* The whole loop: the scan ends with the best modes of either size.
LEMMA ScanResult ==
  ASSUME NEW list \in ModeLists
  PROVE  ScanGood(list, Len(list), Loader!Scan(list))
<1> DEFINE V == Nat \X Nat
           m == Len(list)
           Def(f) == [n \in 0 .. Len(list) |->
                         IF n = 0 THEN <<0, 0>> ELSE Round(list, n, f[n - 1])]
           F == [k \in Nat |-> [b \in V |-> Round(list, k + 1, b)]]
           best == CHOOSE f : f = Def(f)
<1>1. m \in Nat /\ <<0, 0>> \in V
  BY ModeFacts
<1>2. F \in [Nat -> [V -> V]]
  <2> SUFFICES ASSUME NEW k \in Nat, NEW b \in V PROVE Round(list, k + 1, b) \in V
    OBVIOUS
  <2>1. <<k + 1, b[2]>> \in V /\ <<b[1], k + 1>> \in V
    OBVIOUS
  <2> QED BY <2>1 DEF Round
<1>3. PICK f \in [0 .. m -> V] : Follows(f, <<0, 0>>, F, m)
  <2> HIDE DEF F, V, m
  <2> QED BY <1>1, <1>2, FiniteRecursion
<1>4. ASSUME NEW n \in 0 .. m PROVE f[n] = Def(f)[n]
  <2>1. CASE n = 0
    BY <1>3, <2>1 DEF Follows
  <2>2. CASE n # 0
    <3>1. n - 1 \in 0 .. m - 1 /\ (n - 1) + 1 = n /\ f[n - 1] \in V
      <4> HIDE DEF m, V, F, Def
      <4>1. n - 1 \in 0 .. m /\ n - 1 \in 0 .. m - 1 /\ (n - 1) + 1 = n
        BY <1>1, <2>2
      <4> QED BY <4>1
    <3>2. f[n] = F[n - 1][f[n - 1]]
      BY <1>3, <3>1 DEF Follows
    <3>3. F[n - 1][f[n - 1]] = Round(list, n, f[n - 1])
      BY <3>1
    <3> QED BY <2>2, <3>2, <3>3
  <2> QED BY <2>1, <2>2
<1>5. f = Def(f)
  BY <1>4
<1>6. best = Def(best)
  BY <1>5
<1>7. best[0] = <<0, 0>> /\ \A n \in 1 .. m : best[n] = Round(list, n, best[n - 1])
  <2>1. Def(best)[0] = <<0, 0>>
    BY <1>1
  <2>2. \A n \in 1 .. m : Def(best)[n] = Round(list, n, best[n - 1])
    BY <1>1
  <2> HIDE DEF best, Def
  <2> QED BY <1>6, <2>1, <2>2
<1> DEFINE S == {n \in 0 .. m : ScanGood(list, n, best[n])}
<1>8. 0 .. m \subseteq S
  <2> HIDE DEF best
  <2>1. 0 \in S
    <3>1. Smalls(list, 0) = {} /\ Larges(list, 0) = {}
      BY DEF Smalls, Larges
    <3>2. best[0] \in Nat \X Nat /\ best[0][1] = 0 /\ best[0][2] = 0
      BY <1>7
    <3>3. ScanGood(list, 0, best[0])
      BY <3>1, <3>2 DEF ScanGood, FirstLargest, FirstSmallest
    <3> QED BY <1>1, <3>3
  <2>2. ASSUME NEW n \in 0 .. m - 1, n \in S PROVE n + 1 \in S
    <3>1. ScanGood(list, n, best[n]) /\ n \in 0 .. Len(list) - 1
      BY <2>2
    <3>2. ScanGood(list, n + 1, Round(list, n + 1, best[n]))
      BY <3>1, RoundGood
    <3>3. n + 1 \in 1 .. m /\ (n + 1) - 1 = n
      BY <1>1
    <3>4. best[n + 1] = Round(list, n + 1, best[n])
      BY <1>7, <3>3
    <3> QED BY <1>1, <3>2, <3>3, <3>4
  <2> HIDE DEF S, m
  <2> QED BY <1>1, <2>1, <2>2, InductUpTo
<1>9. ScanGood(list, m, best[m])
  BY <1>1, <1>8
<1>10. Loader!Scan(list) = best[m]
  BY DEF Loader!Scan, Round
<1> QED BY <1>9, <1>10

\* The mode select_graphics_mode chooses, if any, is the best one.
LEMMA SelectIsBest ==
  ASSUME NEW list \in ModeLists, Loader!select_graphics_mode(list) # 0
  PROVE  Loader!BestMode(list, Loader!select_graphics_mode(list))
<1> DEFINE b == Loader!Scan(list)
           usable == {i \in DOMAIN list : list[i].supported}
           small == {i \in usable : Loader!Preferred(list[i])}
<1>1. ScanGood(list, Len(list), b)
  BY ScanResult
<1>2. DOMAIN list = 1 .. Len(list)
  BY ModeFacts
<1>3. small = Smalls(list, Len(list))
  BY <1>2 DEF Smalls
<1>4. small = {} => usable = Larges(list, Len(list))
  BY <1>2 DEF Larges
<1> HIDE DEF b
<1>5. FirstLargest(list, small, b[1])
      /\ FirstSmallest(list, Larges(list, Len(list)), b[2]) /\ 0 \notin small
  <2>1. 0 \notin small
    BY <1>2
  <2> HIDE DEF small
  <2> QED BY <1>1, <1>3, <2>1 DEF ScanGood
<1>6. Loader!select_graphics_mode(list) = IF b[1] # 0 THEN b[1] ELSE b[2]
  BY DEF Loader!select_graphics_mode, b
<1>7. CASE small # {}
  <2>1. b[1] # 0 /\ b[1] \in small
        /\ \A i \in small : /\ Loader!Area(list[i]) <= Loader!Area(list[b[1]])
                            /\ i < b[1] => Loader!Area(list[i]) < Loader!Area(list[b[1]])
    BY <1>5, <1>7 DEF FirstLargest
  <2> QED BY <1>6, <1>7, <2>1 DEF Loader!BestMode
<1>8. CASE small = {}
  <2>1. b[1] = 0 /\ Loader!select_graphics_mode(list) = b[2] /\ b[2] # 0
    BY <1>5, <1>6, <1>8 DEF FirstLargest
  <2>2. FirstSmallest(list, usable, b[2])
    BY <1>4, <1>5, <1>8
  <2>3. b[2] \in usable
        /\ \A i \in usable : /\ Loader!Area(list[i]) >= Loader!Area(list[b[2]])
                             /\ i < b[2] => Loader!Area(list[i]) > Loader!Area(list[b[2]])
    BY <2>1, <2>2 DEF FirstSmallest
  <2> QED BY <1>8, <2>1, <2>3 DEF Loader!BestMode
<1> QED BY <1>7, <1>8

\* Every step keeps the mode the best one of the display: only
\* gather_graphics_info sets it.
LEMMA ModeStep ==
  ASSUME Loader!ModeIsBest, Loader!Next \/ EnterKernel
  PROVE  Loader!ModeIsBest'
<1> USE DEF Loader!display
<1>1. ASSUME UNCHANGED <<modes, shown>> PROVE Loader!ModeIsBest'
  BY <1>1 DEF Loader!ModeIsBest, Loader!BestMode
<1>2. CASE Loader!GatherGraphics
  <2>1. modes' \in ModeLists
    BY <1>2 DEF Loader!GatherGraphics
  <2>2. CASE shown' = 0
    BY <2>2 DEF Loader!ModeIsBest
  <2>3. CASE shown' # 0
    <3>1. shown' = Loader!select_graphics_mode(modes')
          /\ Loader!select_graphics_mode(modes') # 0
      BY <1>2, <2>3 DEF Loader!GatherGraphics
    <3>2. Loader!BestMode(modes', shown')
      BY <2>1, <3>1, SelectIsBest
    <3> QED BY <3>2 DEF Loader!ModeIsBest, Loader!BestMode
  <2> QED BY <2>2, <2>3
<1>3. CASE EnterKernel
  BY <1>3 DEF EnterKernel, Loader!ModeIsBest
<1>4. CASE \/ Loader!OpenFile \/ Loader!AllocateInfo \/ Loader!GetInfo
           \/ Loader!AllocateLarger \/ Loader!GetInfoAgain \/ Loader!AllocateData
           \/ Loader!ReadFile
  BY <1>1, <1>4 DEF Loader!OpenFile, Loader!AllocateInfo, Loader!GetInfo,
      Loader!AllocateLarger, Loader!GetInfoAgain, Loader!AllocateData,
      Loader!ReadFile, Loader!Allocate, Loader!Goto
<1>5. CASE \/ Loader!RejectImage \/ Loader!SkipSegment \/ Loader!LoadSegment
           \/ Loader!PagesTaken \/ Loader!Loaded \/ Loader!AllocateBootInfo
  BY <1>1, <1>5 DEF Loader!RejectImage, Loader!SkipSegment, Loader!LoadSegment,
      Loader!PagesTaken, Loader!Loaded, Loader!AllocateBootInfo, Loader!Allocate,
      Loader!Goto
<1>6. CASE \/ Loader!GatherDevice \/ Loader!MapError \/ Loader!GetMemoryMap
           \/ Loader!ExitBootServices \/ Loader!FirmwareEvent
  BY <1>1, <1>6 DEF Loader!GatherDevice, Loader!MapError, Loader!GetMemoryMap,
      Loader!ExitBootServices, Loader!FirmwareEvent, Loader!Goto
<1> QED
  BY <1>2, <1>3, <1>4, <1>5, <1>6 DEF Loader!Next, Loader!Loader

-----------------------------------------------------------------------------
\* Whatever firmware calls fail and however often the firmware changes its
\* memory map, the loader releases what it took exactly once, enters the kernel
\* only with every segment whole and with the map in force when the boot services
\* ended, and sets the mode select_graphics_mode is meant to choose.
THEOREM HandoverIsRight == Spec => []Handover
<1>1. Init => LoaderInv
  <2> SUFFICES ASSUME Init PROVE LoaderInv
    OBVIOUS
  <2> USE DEF Init, Loader!Init
  <2>1. LoaderHolds
    BY DEF LoaderHolds
  <2>2. LoaderPlaces
    <3>1. owner \in [Pages -> Int]
      BY DEF Loader!Free, Loader!Firmware
    <3>2. image \in Images /\ segment = 1 /\ lpc = "open"
      OBVIOUS
    <3>3. \A s \in DOMAIN image : ~(s < segment)
      BY <3>2, ImageFacts
    <3> QED BY <3>1, <3>2, <3>3 DEF LoaderPlaces
  <2>3. LoaderMap /\ Loader!ModeIsBest
    BY DEF LoaderMap, Loader!ModeIsBest
  <2> QED BY <2>1, <2>2, <2>3 DEF LoaderInv
<1>2. LoaderInv /\ [Next]_vars => LoaderInv'
  <2> SUFFICES ASSUME LoaderInv, [Next]_vars PROVE LoaderInv'
    OBVIOUS
  <2>1. CASE Loader!Next \/ EnterKernel
    BY <2>1, HoldsStep, PlacesStep, MapStep, ModeStep DEF LoaderInv
  <2>2. CASE UNCHANGED loader
    BY <2>2 DEF LoaderInv, LoaderHolds, LoaderPlaces, LoaderMap, Loader!ModeIsBest,
      Loader!BestMode, loader
  <2>3. (Loader!Next \/ EnterKernel) \/ UNCHANGED loader
    BY DEF Next, vars, LoaderStep, FirmwareStep, CallAcpi, AcpiStep, ShellRun, Lspci,
      WalkStep, LspciDone, Loader!Next
  <2> QED BY <2>1, <2>2, <2>3
<1>3. LoaderInv => Handover
  <2> SUFFICES ASSUME LoaderInv PROVE Handover
    OBVIOUS
  <2>1. Loader!ReadFileReleases
    BY DEF LoaderInv, LoaderHolds, Loader!ReadFileReleases, Loader!InReadFile
  <2>2. Loader!SegmentsIntact
    <3> SUFFICES ASSUME lpc = "kernel", NEW s \in DOMAIN image, image[s].load
                 PROVE  image[s].valid /\ \A p \in image[s].pages : owner[p] = s
      BY DEF Loader!SegmentsIntact
    <3>1. image \in Images /\ segment > Len(image) /\ segment \in Nat
      BY DEF LoaderInv, LoaderPlaces
    <3>2. s \in 1 .. Len(image) /\ Len(image) \in Nat
      BY <3>1, ImageFacts
    <3>3. s < segment
      BY <3>1, <3>2
    <3> QED BY <3>3 DEF LoaderInv, LoaderPlaces
  <2>3. Loader!MapIsCurrent
    BY DEF LoaderInv, LoaderMap, Loader!MapIsCurrent
  <2> QED BY <2>1, <2>2, <2>3 DEF Handover, LoaderInv
<1> QED BY <1>1, <1>2, <1>3, PTL DEF Spec

-----------------------------------------------------------------------------
(* The walk over the PCI buses.                                            *)

\* Where the walk is: at an address, or past the last bus.  A function above 0
\* is only reached through a function 0 that has more.
WalkAt ==
    /\ IF wpc = "done" /\ ~stopped THEN at = <<BusCount, 0, 0>>
       ELSE at \in Walk!Addresses
    /\ wpc \in {"walk", "done"}
    /\ stopped \in BOOLEAN
    /\ stopped => wpc = "done"
    /\ wpc = "walk" /\ at[3] # 0 =>
           limit = FunctionCount /\ pci[<<at[1], at[2], 0>>] = "multi"

\* What the callback has seen: the visible functions before the present one.
WalkSaw ==
    /\ visited \in Seq(Walk!Addresses)
    /\ \A i \in 1 .. Len(visited) - 1 : Walk!Before(visited[i], visited[i + 1])
    /\ Walk!ToSet(visited) =
           {a \in Walk!Visible : Walk!Before(a, at) \/ (stopped /\ a = at)}

\* Between two walks everything is at its start.
WalkIdle ==
    /\ wpc = "walk"
    /\ at = <<0, 0, 0>>
    /\ limit = 1
    /\ visited = <<>>
    /\ stopped = FALSE

WalkInv ==
    /\ stage # "lspci" => WalkIdle
    /\ stage = "lspci" => WalkAt /\ WalkSaw

\* The bounds of the walk.
LEMMA PciFacts ==
  /\ BusCount \in Nat \ {0} /\ DeviceCount \in Nat \ {0} /\ FunctionCount \in Nat \ {0}
  /\ <<0, 0, 0>> \in Walk!Addresses
  /\ \A b \in 0 .. BusCount - 1 : Walk!NextBus(b) = b + 1
<1>1. BusCount \in Nat \ {0} /\ DeviceCount \in Nat \ {0} /\ FunctionCount \in Nat \ {0}
      /\ BusValues \in Nat /\ BusValues > BusCount
  BY StartupAssumption
<1>2. \A n, x \in Nat : x < n => x % n = x
  OBVIOUS
<1>3. ASSUME NEW b \in 0 .. BusCount - 1 PROVE (b + 1) % BusValues = b + 1
  BY <1>1, <1>2
<1> QED BY <1>1, <1>3 DEF Walk!Addresses, Walk!NextBus

\* An address is three numbers in their ranges.
LEMMA AddressFacts ==
  ASSUME NEW a \in Walk!Addresses
  PROVE  /\ a[1] \in 0 .. BusCount - 1 /\ a[2] \in 0 .. DeviceCount - 1
         /\ a[3] \in 0 .. FunctionCount - 1
         /\ a = <<a[1], a[2], a[3]>>
BY DEF Walk!Addresses

\* On to the next device: what then lies behind is what lay behind, and the
\* rest of this device.
LEMMA NextDeviceFacts ==
  ASSUME at \in Walk!Addresses, Walk!NextDevice
  PROVE  /\ \/ wpc' = "walk" /\ at' \in Walk!Addresses
            \/ wpc' = "done" /\ at' = <<BusCount, 0, 0>>
         /\ at'[3] = 0
         /\ \A a \in Walk!Addresses :
               Walk!Before(a, at') <=>
                  Walk!Before(a, at) \/ (a[1] = at[1] /\ a[2] = at[2] /\ a[3] >= at[3])
<1> DEFINE b == at[1]
           d == at[2]
           f == at[3]
<1>1. b \in 0 .. BusCount - 1 /\ d \in 0 .. DeviceCount - 1 /\ f \in 0 .. FunctionCount - 1
  BY AddressFacts
<1>2. BusCount \in Nat \ {0} /\ DeviceCount \in Nat \ {0} /\ FunctionCount \in Nat \ {0}
      /\ Walk!NextBus(b) = b + 1
  BY <1>1, PciFacts
<1>3. CASE d + 1 < DeviceCount
  <2>1. at' = <<b, d + 1, 0>>
    BY <1>3 DEF Walk!NextDevice
  <2>2. wpc' = "walk"
    BY <1>1, <1>2, <1>3 DEF Walk!NextDevice
  <2>3. at' \in Walk!Addresses
    BY <1>1, <1>2, <1>3, <2>1 DEF Walk!Addresses
  <2>4. ASSUME NEW a \in Walk!Addresses
        PROVE Walk!Before(a, at') <=>
                 Walk!Before(a, at) \/ (a[1] = b /\ a[2] = d /\ a[3] >= f)
    <3>1. a[1] \in Nat /\ a[2] \in Nat /\ a[3] \in Nat
      BY <1>2, AddressFacts
    <3>2. at'[1] = b /\ at'[2] = d + 1 /\ at'[3] = 0
      BY <2>1
    <3> QED BY <1>1, <1>2, <3>1, <3>2 DEF Walk!Before
  <2> QED BY <2>1, <2>2, <2>3, <2>4
<1>4. CASE ~(d + 1 < DeviceCount)
  <2>1. at' = <<b + 1, 0, 0>>
    BY <1>2, <1>4 DEF Walk!NextDevice
  <2>2. wpc' = IF b + 1 < BusCount THEN "walk" ELSE "done"
    BY <1>2, <1>4 DEF Walk!NextDevice
  <2>3. IF b + 1 < BusCount THEN at' \in Walk!Addresses ELSE at' = <<BusCount, 0, 0>>
    <3>1. CASE b + 1 < BusCount
      BY <1>1, <1>2, <2>1, <3>1 DEF Walk!Addresses
    <3>2. CASE ~(b + 1 < BusCount)
      <4>1. b + 1 = BusCount
        BY <1>1, <1>2, <3>2
      <4> QED BY <2>1, <3>2, <4>1
    <3> QED BY <3>1, <3>2
  <2>4. ASSUME NEW a \in Walk!Addresses
        PROVE Walk!Before(a, at') <=>
                 Walk!Before(a, at) \/ (a[1] = b /\ a[2] = d /\ a[3] >= f)
    <3>1. a[1] \in Nat /\ a[2] \in 0 .. DeviceCount - 1 /\ a[3] \in Nat
      BY <1>2, AddressFacts
    <3>2. at'[1] = b + 1 /\ at'[2] = 0 /\ at'[3] = 0
      BY <2>1
    <3> QED BY <1>1, <1>2, <1>4, <3>1, <3>2 DEF Walk!Before
  <2> QED BY <2>1, <2>2, <2>3, <2>4
<1> QED BY <1>3, <1>4

\* On to the next function below a bound, or else to the next device: nothing
\* visible is passed over, if no function from the bound on is visible.
LEMMA NextFunctionFacts ==
  ASSUME NEW bound, wpc = "walk", at \in Walk!Addresses, Walk!NextFunction(bound),
         bound \in 1 .. FunctionCount,
         bound > 1 => bound = FunctionCount /\ pci[<<at[1], at[2], 0>>] = "multi",
         \A a \in Walk!Visible :
             a[1] = at[1] /\ a[2] = at[2] /\ a[3] > at[3] => a[3] < bound
  PROVE  /\ \/ wpc' = "walk" /\ at' \in Walk!Addresses
            \/ wpc' = "done" /\ at' = <<BusCount, 0, 0>>
         /\ wpc' = "walk" /\ at'[3] # 0 =>
               limit' = FunctionCount /\ pci[<<at'[1], at'[2], 0>>] = "multi"
         /\ \A a \in Walk!Visible :
               Walk!Before(a, at') <=> Walk!Before(a, at) \/ a = at
<1>1. at[1] \in 0 .. BusCount - 1 /\ at[2] \in 0 .. DeviceCount - 1
      /\ at[3] \in 0 .. FunctionCount - 1 /\ at = <<at[1], at[2], at[3]>>
  BY AddressFacts
<1>2. BusCount \in Nat \ {0} /\ DeviceCount \in Nat \ {0} /\ FunctionCount \in Nat \ {0}
  BY PciFacts
<1>3. \A a \in Walk!Visible :
         /\ a \in Walk!Addresses /\ a = <<a[1], a[2], a[3]>>
         /\ a[1] \in Nat /\ a[2] \in Nat /\ a[3] \in Nat
  <2> SUFFICES ASSUME NEW a \in Walk!Visible
               PROVE  /\ a \in Walk!Addresses /\ a = <<a[1], a[2], a[3]>>
                      /\ a[1] \in Nat /\ a[2] \in Nat /\ a[3] \in Nat
    OBVIOUS
  <2>1. a \in Walk!Addresses
    BY DEF Walk!Visible
  <2> QED BY <1>2, <2>1, AddressFacts
<1>4. CASE at[3] + 1 < bound
  <2>1. at' = [at EXCEPT ![3] = @ + 1] /\ limit' = bound /\ wpc' = "walk"
    BY <1>4 DEF Walk!NextFunction
  <2>2. at' = <<at[1], at[2], at[3] + 1>>
    BY <1>1, <2>1
  <2>3. at'[1] = at[1] /\ at'[2] = at[2] /\ at'[3] = at[3] + 1
    BY <2>2
  <2>4. at' \in Walk!Addresses
    BY <1>1, <1>2, <1>4, <2>2 DEF Walk!Addresses
  <2>5. bound > 1
    BY <1>1, <1>2, <1>4
  <2>6. ASSUME NEW a \in Walk!Visible
        PROVE  Walk!Before(a, at') <=> Walk!Before(a, at) \/ a = at
    <3>1. a = at <=> a[1] = at[1] /\ a[2] = at[2] /\ a[3] = at[3]
      BY <1>1, <1>3
    <3> QED BY <1>1, <1>2, <1>3, <2>3, <3>1 DEF Walk!Before
  <2> QED BY <2>1, <2>3, <2>4, <2>5, <2>6
<1>5. CASE ~(at[3] + 1 < bound)
  <2>1. Walk!NextDevice
    BY <1>5 DEF Walk!NextFunction
  <2>2. ASSUME NEW a \in Walk!Visible
        PROVE  Walk!Before(a, at') <=> Walk!Before(a, at) \/ a = at
    <3>1. a = at <=> a[1] = at[1] /\ a[2] = at[2] /\ a[3] = at[3]
      BY <1>1, <1>3
    <3>2. Walk!Before(a, at') <=>
             Walk!Before(a, at) \/ (a[1] = at[1] /\ a[2] = at[2] /\ a[3] >= at[3])
      BY <1>3, <2>1, NextDeviceFacts
    <3>3. ~(a[1] = at[1] /\ a[2] = at[2] /\ a[3] > at[3])
      BY <1>1, <1>2, <1>3, <1>5
    <3> QED BY <1>1, <1>2, <1>3, <3>1, <3>2, <3>3
  <2> QED BY <2>1, <2>2, NextDeviceFacts
<1> QED BY <1>4, <1>5

\* The callback sees one more function: the sequence stays in order.
LEMMA SeesOneMore ==
  ASSUME at \in Walk!Addresses, ~stopped, WalkSaw, visited' = Append(visited, at)
  PROVE  /\ visited' \in Seq(Walk!Addresses)
         /\ \A i \in 1 .. Len(visited') - 1 : Walk!Before(visited'[i], visited'[i + 1])
         /\ Walk!ToSet(visited') = {a \in Walk!Visible : Walk!Before(a, at)} \cup {at}
<1>1. visited \in Seq(Walk!Addresses) /\ Len(visited) \in Nat
  BY DEF WalkSaw
<1> DEFINE A == Walk!Addresses
           B(a, b) == Walk!Before(a, b)
<1>2. \A i \in 1 .. Len(visited) - 1 : B(visited[i], visited[i + 1])
  BY DEF WalkSaw
<1>3. Walk!ToSet(visited) = {a \in Walk!Visible : B(a, at)}
  BY DEF WalkSaw
<1> HIDE DEF A, B
<1>4. /\ visited' \in Seq(A) /\ Len(visited') = Len(visited) + 1
      /\ \A i \in 1 .. Len(visited) : visited'[i] = visited[i]
      /\ visited'[Len(visited) + 1] = at
  BY <1>1 DEF A
<1>5. ASSUME NEW i \in 1 .. Len(visited') - 1 PROVE B(visited'[i], visited'[i + 1])
  <2>1. CASE i < Len(visited)
    <3>1. i \in 1 .. Len(visited) - 1 /\ i + 1 \in 1 .. Len(visited) /\ i \in 1 .. Len(visited)
      BY <1>1, <1>4, <2>1
    <3> QED BY <1>2, <1>4, <3>1
  <2>2. CASE i = Len(visited)
    <3>1. i \in 1 .. Len(visited)
      BY <1>1, <1>4, <2>2
    <3>2. visited[i] \in Walk!ToSet(visited)
      BY <1>1, <3>1 DEF Walk!ToSet
    <3>3. B(visited[i], at)
      BY <1>3, <3>2
    <3> QED BY <1>4, <2>2, <3>1, <3>3
  <2> QED BY <1>1, <1>4, <2>1, <2>2
<1>6. Walk!ToSet(visited') = Walk!ToSet(visited) \cup {at}
  <2>1. DOMAIN visited = 1 .. Len(visited) /\ DOMAIN visited' = 1 .. Len(visited) + 1
    BY <1>1, <1>4
  <2>2. 1 .. Len(visited) + 1 = (1 .. Len(visited)) \cup {Len(visited) + 1}
    BY <1>1
  <2> QED BY <1>4, <2>1, <2>2 DEF Walk!ToSet
<1> QED BY <1>3, <1>4, <1>5, <1>6 DEF A, B

\* A step of pci_enumerate keeps what the callback has seen right.
LEMMA WalkKeeps ==
  ASSUME WalkAt, WalkSaw, Walk!Next
  PROVE  WalkAt' /\ WalkSaw'
<1>1. wpc = "walk" /\ at \in Walk!Addresses /\ stopped = FALSE /\ UNCHANGED pci
  BY DEF WalkAt, Walk!Next, Walk!Absent, Walk!Visit, Walk!VisitLast
<1>2. Walk!Visible' = Walk!Visible
  BY <1>1 DEF Walk!Visible, Walk!Answers
<1>3. at[3] # 0 => limit = FunctionCount /\ pci[<<at[1], at[2], 0>>] = "multi"
  BY <1>1 DEF WalkAt
<1>4. at[1] \in Nat /\ at[2] \in Nat /\ at[3] \in 0 .. FunctionCount - 1
      /\ at = <<at[1], at[2], at[3]>> /\ FunctionCount \in Nat \ {0}
  BY <1>1, AddressFacts, PciFacts
<1>5. ASSUME NEW a \in Walk!Visible
      PROVE  /\ a \in Walk!Addresses /\ a = <<a[1], a[2], a[3]>>
             /\ a[3] \in 0 .. FunctionCount - 1
             /\ Walk!Answers(a)
             /\ a[3] # 0 => pci[<<a[1], a[2], 0>>] = "multi"
  <2>1. a \in Walk!Addresses /\ Walk!Answers(a)
        /\ (a[3] # 0 => pci[<<a[1], a[2], 0>>] = "multi")
    BY DEF Walk!Visible
  <2> QED BY <2>1, AddressFacts
<1>6. Walk!Answers(at) => at \in Walk!Visible
  BY <1>1, <1>3 DEF Walk!Visible
<1> DEFINE Behind == {a \in Walk!Visible : Walk!Before(a, at)}
<1>7. Walk!ToSet(visited) = Behind
  BY <1>1 DEF WalkSaw
<1>8. ASSUME stopped' = FALSE,
             \/ wpc' = "walk" /\ at' \in Walk!Addresses
             \/ wpc' = "done" /\ at' = <<BusCount, 0, 0>>,
             wpc' = "walk" /\ at'[3] # 0 =>
               limit' = FunctionCount /\ pci[<<at'[1], at'[2], 0>>] = "multi"
      PROVE  WalkAt'
  <2>1. Walk!Addresses' = Walk!Addresses
    BY DEF Walk!Addresses
  <2> QED BY <1>1, <1>8, <2>1 DEF WalkAt
<1>9. CASE Walk!Absent
  <2>1. stopped' = FALSE /\ UNCHANGED visited /\ ~Walk!Answers(at) /\ at \notin Walk!Visible
    BY <1>1, <1>5, <1>9 DEF Walk!Absent
  <2>2. /\ \/ wpc' = "walk" /\ at' \in Walk!Addresses
           \/ wpc' = "done" /\ at' = <<BusCount, 0, 0>>
        /\ wpc' = "walk" /\ at'[3] # 0 =>
               limit' = FunctionCount /\ pci[<<at'[1], at'[2], 0>>] = "multi"
        /\ \A a \in Walk!Visible : Walk!Before(a, at') <=> Walk!Before(a, at)
    <3>1. CASE at[3] = 0
      <4>1. Walk!NextDevice
        BY <1>9, <3>1 DEF Walk!Absent
      <4>2. pci[at] # "multi" /\ at = <<at[1], at[2], 0>>
        BY <1>4, <2>1, <3>1 DEF Walk!Answers
      <4>3. ASSUME NEW a \in Walk!Visible
            PROVE  ~(a[1] = at[1] /\ a[2] = at[2] /\ a[3] >= at[3])
        <5>1. CASE a[3] = 0 /\ a[1] = at[1] /\ a[2] = at[2]
          <6>1. a = at
            BY <1>5, <4>2, <5>1
          <6> QED BY <2>1, <6>1
        <5>2. CASE a[3] # 0 /\ a[1] = at[1] /\ a[2] = at[2]
          <6>1. pci[<<at[1], at[2], 0>>] = "multi"
            BY <1>5, <5>2
          <6> QED BY <4>2, <6>1
        <5> QED BY <5>1, <5>2
      <4>4. \A a \in Walk!Visible : Walk!Before(a, at') <=> Walk!Before(a, at)
        BY <1>1, <1>5, <4>1, <4>3, NextDeviceFacts
      <4> QED BY <1>1, <4>1, <4>4, NextDeviceFacts
    <3>2. CASE at[3] # 0
      <4>1. Walk!NextFunction(limit) /\ limit = FunctionCount
            /\ pci[<<at[1], at[2], 0>>] = "multi"
        BY <1>3, <1>9, <3>2 DEF Walk!Absent
      <4>2. limit \in 1 .. FunctionCount /\ \A a \in Walk!Visible : a[3] < limit
        <5>1. limit \in 1 .. FunctionCount
          BY <1>4, <4>1
        <5>2. ASSUME NEW a \in Walk!Visible PROVE a[3] < limit
          <6>1. a[3] \in 0 .. FunctionCount - 1
            BY <1>5
          <6> QED BY <1>4, <4>1, <6>1
        <5> QED BY <5>1, <5>2
      <4>3. /\ \/ wpc' = "walk" /\ at' \in Walk!Addresses
               \/ wpc' = "done" /\ at' = <<BusCount, 0, 0>>
            /\ wpc' = "walk" /\ at'[3] # 0 =>
                  limit' = FunctionCount /\ pci[<<at'[1], at'[2], 0>>] = "multi"
            /\ \A a \in Walk!Visible :
                  Walk!Before(a, at') <=> Walk!Before(a, at) \/ a = at
        BY <1>1, <4>1, <4>2, NextFunctionFacts
      <4> QED BY <2>1, <4>3
    <3> QED BY <3>1, <3>2
  <2>3. WalkAt'
    BY <1>8, <2>1, <2>2
  <2>4. Walk!ToSet(visited) =
           {a \in Walk!Visible : Walk!Before(a, at') \/ (stopped' /\ a = at')}
    BY <1>7, <2>1, <2>2
  <2>5. WalkSaw'
    BY <1>2, <2>1, <2>4 DEF WalkSaw, Walk!ToSet, Walk!Addresses, Walk!Before
  <2> QED BY <2>3, <2>5
<1>10. ASSUME visited' = Append(visited, at), Walk!Answers(at),
              {a \in Walk!Visible : Walk!Before(a, at') \/ (stopped' /\ a = at')}
                = Behind \cup {at}
       PROVE  WalkSaw'
  <2>1. /\ visited' \in Seq(Walk!Addresses)
        /\ \A i \in 1 .. Len(visited') - 1 : Walk!Before(visited'[i], visited'[i + 1])
        /\ Walk!ToSet(visited') = Behind \cup {at}
    BY <1>1, <1>10, SeesOneMore
  <2> HIDE DEF Behind
  <2> QED BY <1>2, <1>10, <2>1 DEF WalkSaw, Walk!ToSet, Walk!Addresses, Walk!Before
<1>11. CASE Walk!Visit
  <2>1. stopped' = FALSE /\ visited' = Append(visited, at) /\ Walk!Answers(at)
        /\ Walk!NextFunction(Walk!Bound)
    BY <1>1, <1>11 DEF Walk!Visit
  <2>2. Walk!Bound \in 1 .. FunctionCount
        /\ (Walk!Bound > 1 =>
              Walk!Bound = FunctionCount /\ pci[<<at[1], at[2], 0>>] = "multi")
    BY <1>3, <1>4 DEF Walk!Bound
  <2>3. ASSUME NEW a \in Walk!Visible, a[1] = at[1], a[2] = at[2], a[3] > at[3]
        PROVE  a[3] < Walk!Bound
    <3>1. a[3] # 0 /\ a[3] < FunctionCount /\ pci[<<at[1], at[2], 0>>] = "multi"
      BY <1>4, <1>5, <2>3
    <3>2. Walk!Bound = FunctionCount
      BY <1>3, <1>4, <3>1 DEF Walk!Bound
    <3> QED BY <3>1, <3>2
  <2>4. /\ \/ wpc' = "walk" /\ at' \in Walk!Addresses
           \/ wpc' = "done" /\ at' = <<BusCount, 0, 0>>
        /\ wpc' = "walk" /\ at'[3] # 0 =>
               limit' = FunctionCount /\ pci[<<at'[1], at'[2], 0>>] = "multi"
        /\ \A a \in Walk!Visible :
               Walk!Before(a, at') <=> Walk!Before(a, at) \/ a = at
    BY <1>1, <2>1, <2>2, <2>3, NextFunctionFacts
  <2>5. WalkAt'
    BY <1>8, <2>1, <2>4
  <2>6. {a \in Walk!Visible : Walk!Before(a, at') \/ (stopped' /\ a = at')}
          = Behind \cup {at}
    BY <1>6, <2>1, <2>4
  <2> QED BY <1>10, <2>1, <2>5, <2>6
<1>12. CASE Walk!VisitLast
  <2>1. stopped' = TRUE /\ visited' = Append(visited, at) /\ Walk!Answers(at)
        /\ wpc' = "done" /\ at' = at
    BY <1>12 DEF Walk!VisitLast
  <2>2. WalkAt'
    BY <1>1, <2>1 DEF WalkAt, Walk!Addresses
  <2>3. {a \in Walk!Visible : Walk!Before(a, at') \/ (stopped' /\ a = at')}
          = Behind \cup {at}
    BY <1>6, <2>1
  <2> QED BY <1>10, <2>1, <2>2, <2>3
<1> QED BY <1>9, <1>11, <1>12 DEF Walk!Next

\* From the prompt to the prompt: every step keeps WalkInv.
LEMMA WalkInvStep ==
  ASSUME WalkInv, [Next]_vars
  PROVE  WalkInv'
<1>1. CASE UNCHANGED walk /\ (stage' = "lspci" <=> stage = "lspci")
  <2>1. WalkIdle => WalkIdle'
    BY <1>1 DEF walk, WalkIdle
  <2>2. WalkAt /\ WalkSaw => WalkAt' /\ WalkSaw'
    <3>1. UNCHANGED <<pci, wpc, at, limit, visited, stopped>>
      BY <1>1 DEF walk
    <3>2. Walk!Visible' = Walk!Visible /\ Walk!ToSet(visited)' = Walk!ToSet(visited)
          /\ Walk!Addresses' = Walk!Addresses
      BY <3>1 DEF Walk!Visible, Walk!Answers, Walk!ToSet, Walk!Addresses
    <3>3. WalkAt => WalkAt'
      BY <3>1, <3>2 DEF WalkAt
    <3>4. WalkSaw => WalkSaw'
      BY <3>1, <3>2 DEF WalkSaw, Walk!Before
    <3> QED BY <3>3, <3>4
  <2> QED BY <1>1, <2>1, <2>2 DEF WalkInv
<1>2. CASE Lspci
  <2>1. stage # "lspci" /\ stage' = "lspci" /\ wpc' = "walk" /\ at' = <<0, 0, 0>>
        /\ visited' = <<>> /\ stopped' = FALSE
    BY <1>2 DEF Lspci, WalkInv, WalkIdle
  <2>2. WalkAt'
    <3>1. <<0, 0, 0>> \in Walk!Addresses
      BY PciFacts
    <3>2. at'[3] = 0
      BY <2>1
    <3> QED BY <2>1, <3>1, <3>2 DEF WalkAt, Walk!Addresses
  <2>3. WalkSaw'
    <3>1. \A a \in Walk!Addresses : ~Walk!Before(a, <<0, 0, 0>>)
      <4> SUFFICES ASSUME NEW a \in Walk!Addresses PROVE ~Walk!Before(a, <<0, 0, 0>>)
        OBVIOUS
      <4>1. a[1] \in Nat /\ a[2] \in Nat /\ a[3] \in Nat
        BY AddressFacts, PciFacts
      <4> QED BY <4>1 DEF Walk!Before
    <3>2. Walk!Visible' \subseteq Walk!Addresses
      BY DEF Walk!Visible, Walk!Addresses
    <3>3. {a \in Walk!Visible' : Walk!Before(a, at') \/ (stopped' /\ a = at')} = {}
      BY <2>1, <3>1, <3>2
    <3>4. Walk!ToSet(visited') = {}
      BY <2>1 DEF Walk!ToSet
    <3>5. Len(visited') = 0 /\ visited' \in Seq(Walk!Addresses)
      BY <2>1
    <3> QED BY <3>3, <3>4, <3>5 DEF WalkSaw, Walk!Addresses, Walk!ToSet, Walk!Before
  <2> QED BY <2>1, <2>2, <2>3 DEF WalkInv
<1>3. CASE WalkStep
  <2>1. stage = "lspci" /\ stage' = "lspci" /\ Walk!Next
    BY <1>3 DEF WalkStep
  <2> QED BY <2>1, WalkKeeps DEF WalkInv
<1>4. CASE LspciDone
  BY <1>4 DEF LspciDone, WalkInv, WalkIdle
<1>5. CASE ~(Lspci \/ WalkStep \/ LspciDone)
  BY <1>1, <1>5 DEF Next, vars, walk, LoaderStep, FirmwareStep, EnterKernel, CallAcpi,
    AcpiStep, ShellRun
<1> QED BY <1>2, <1>3, <1>4, <1>5

-----------------------------------------------------------------------------
(* The entries of a MADT.                                                  *)

\* The end of the part of a MADT that is scanned, and where an entry fits in it.
Extent(t) == IF t.length - MadtSize > MaxScan THEN MaxScan ELSE t.length - MadtSize
FitsAt(t, c) ==
    /\ c + EntrySize <= Extent(t)
    /\ t.bytes[c + 2] >= EntrySize
    /\ c + t.bytes[c + 2] <= Extent(t)
Slots(t) == {c \in 0 .. Extent(t) - EntrySize : FitsAt(t, c)}

\* A place at the start or at the end of an entry of s.
Follow(t, s, c) == c = 0 \/ \E d \in s : c = d + t.bytes[d + 2]

\* A MADT whose entries can be read.
ScanTyped(t) ==
    /\ t.length \in Nat
    /\ \A c \in 0 .. Extent(t) - EntrySize : t.bytes[c + 2] \in Nat

\* The places of the entries are the least set that holds the start and with
\* each entry the one after it: whatever fits and follows is a place.
LEMMA PlacesFacts ==
  ASSUME NEW t
  PROVE  /\ Tables!Places(t) \subseteq Slots(t)
         /\ \A c \in Tables!Places(t) : Follow(t, Tables!Places(t), c)
         /\ \A c \in Slots(t) : Follow(t, Tables!Places(t), c) => c \in Tables!Places(t)
<1> DEFINE Closed(s) == \A c \in s : Follow(t, s, c)
           C == {s \in SUBSET Slots(t) : Closed(s)}
           P == UNION C
<1>1. Tables!Places(t) = P
  BY DEF Tables!Places, Slots, FitsAt, Extent, Follow
<1>2. P \subseteq Slots(t)
  OBVIOUS
<1>3. ASSUME NEW s \in C, NEW c \in s PROVE Follow(t, P, c)
  <2>1. Follow(t, s, c) /\ s \subseteq P
    BY <1>3
  <2> HIDE DEF P
  <2> QED BY <2>1 DEF Follow
<1>4. Closed(P)
  BY <1>3
<1>5. ASSUME NEW c \in Slots(t), Follow(t, P, c) PROVE c \in P
  <2> DEFINE Q == P \cup {c}
  <2>1. Q \in SUBSET Slots(t)
    BY <1>2
  <2>2. ASSUME NEW e \in Q PROVE Follow(t, Q, e)
    <3>1. Follow(t, P, e)
      BY <1>4, <1>5
    <3> HIDE DEF P
    <3> QED BY <3>1 DEF Follow
  <2>3. Q \in C
    BY <2>1, <2>2
  <2>4. c \in Q
    OBVIOUS
  <2> HIDE DEF Q, C
  <2> QED BY <2>3, <2>4
<1> HIDE DEF P
<1> QED BY <1>1, <1>2, <1>4, <1>5

\* How far a scan has come: at a place that may hold an entry, with every entry
\* before it passed and none of these an I/O APIC.
ScannedTo(t, c) ==
    /\ c \in Nat
    /\ Follow(t, Tables!Places(t), c)
    /\ \A d \in Tables!Places(t) : d < c => d + t.bytes[d + 2] <= c
    /\ \A d \in Tables!IoApics(t) : ~(d < c)

\* Behind the entry at hand comes nothing before its end, and behind a place
\* that holds no entry nothing at all.
LEMMA NothingBetween ==
  ASSUME NEW t, ScanTyped(t), NEW c, ScannedTo(t, c), NEW d \in Tables!Places(t), d > c
  PROVE  c \in Tables!Places(t) /\ d >= c + t.bytes[c + 2]
<1> DEFINE P == Tables!Places(t)
           L(e) == t.bytes[e + 2]
           T == {e \in P : e > c /\ ~(c \in P /\ e >= c + L(c))}
<1>1. EntrySize = 2
  BY StartupAssumption
<1>2. P \subseteq Nat
  BY PlacesFacts DEF Slots
<1>3. \A e \in P : L(e) \in Nat /\ L(e) >= 2
  BY <1>1, PlacesFacts DEF Slots, FitsAt, ScanTyped
<1>4. \A e \in P : e = 0 \/ \E g \in P : e = g + L(g)
  BY PlacesFacts DEF Follow
<1>5. c \in Nat /\ \A e \in P : e < c => e + L(e) <= c
  BY DEF ScannedTo
<1> HIDE DEF P, L
<1>6. SUFFICES ASSUME d \in T PROVE FALSE
  BY DEF P, L
<1>7. T \in SUBSET Nat /\ T # {}
  BY <1>2, <1>6
<1>8. PICK e \in T : \A g \in T : e <= g
  BY <1>7, LeastElement
<1>9. e \in P /\ e > c /\ e \in Nat /\ ~(c \in P /\ e >= c + L(c))
  BY <1>2, <1>8
<1>10. PICK g \in P : e = g + L(g)
  BY <1>4, <1>5, <1>9
<1>11. g \in Nat /\ L(g) \in Nat /\ g < e
  BY <1>2, <1>3, <1>10
<1>12. CASE g < c
  BY <1>5, <1>9, <1>10, <1>12
<1>13. CASE g = c
  BY <1>9, <1>10, <1>13
<1>14. CASE g > c
  <2>1. g \notin T
    BY <1>8, <1>9, <1>11
  <2>2. c \in P /\ g >= c + L(c)
    BY <1>14, <2>1
  <2>3. L(c) \in Nat
    BY <1>3, <2>2
  <2>4. e >= c + L(c)
    BY <1>5, <1>9, <1>11, <2>2, <2>3
  <2> QED BY <1>9, <2>2, <2>4
<1> QED BY <1>5, <1>11, <1>12, <1>13, <1>14

\* Where an entry fits, the place scanned to is the place of an entry, and
\* otherwise it is not.
LEMMA ScannedPlace ==
  ASSUME NEW t, ScanTyped(t), NEW c, ScannedTo(t, c)
  PROVE  c \in Tables!Places(t) <=> FitsAt(t, c)
<1>1. t.length \in Nat /\ MadtSize \in Nat /\ MaxScan \in Nat /\ EntrySize = 2
  BY StartupAssumption DEF ScanTyped
<1>2. Extent(t) \in Int /\ c \in Nat
  BY <1>1 DEF Extent, ScannedTo
<1>3. c \in Tables!Places(t) => FitsAt(t, c)
  BY PlacesFacts DEF Slots
<1>4. ASSUME FitsAt(t, c) PROVE c \in Tables!Places(t)
  <2>1. c + 2 <= Extent(t)
    BY <1>1, <1>4 DEF FitsAt
  <2>2. c \in Slots(t)
    BY <1>1, <1>2, <1>4, <2>1 DEF Slots
  <2> QED BY <2>2, PlacesFacts DEF ScannedTo
<1> QED BY <1>3, <1>4

\* A scan starts at the end of the fixed part.
LEMMA ScanStarts ==
  ASSUME NEW t, ScanTyped(t)
  PROVE  ScannedTo(t, 0)
<1>1. Tables!Places(t) \subseteq Nat
  BY PlacesFacts DEF Slots
<1>2. Tables!IoApics(t) \subseteq Nat
  BY <1>1 DEF Tables!IoApics
<1>3. \A d \in Nat : ~(d < 0)
  OBVIOUS
<1> QED BY <1>1, <1>2, <1>3 DEF ScannedTo, Follow

\* A scan passes an entry that is no I/O APIC.
LEMMA ScanGoesOn ==
  ASSUME NEW t, ScanTyped(t), NEW c, ScannedTo(t, c), FitsAt(t, c),
         c \notin Tables!IoApics(t)
  PROVE  ScannedTo(t, c + t.bytes[c + 2])
<1> DEFINE P == Tables!Places(t)
           L(e) == t.bytes[e + 2]
<1>1. c \in P
  BY ScannedPlace
<1>2. P \subseteq Nat
  BY PlacesFacts DEF Slots
<1>3. \A e \in P : L(e) \in Nat /\ L(e) >= 2
  <2>1. EntrySize = 2
    BY StartupAssumption
  <2> QED BY <2>1, PlacesFacts DEF Slots, FitsAt, ScanTyped
<1>4. \A e \in P : e > c => e >= c + L(c)
  BY NothingBetween
<1>5. c \in Nat /\ (\A e \in P : e < c => e + L(e) <= c)
      /\ \A e \in Tables!IoApics(t) : e \in P /\ ~(e < c)
  BY DEF ScannedTo, Tables!IoApics
<1>6. Follow(t, P, c + L(c))
  BY <1>1 DEF Follow
<1> HIDE DEF P, L
<1>7. ASSUME NEW e \in P, e < c + L(c) PROVE e + L(e) <= c + L(c)
  <2>1. e <= c
    BY <1>1, <1>2, <1>3, <1>4, <1>7
  <2>2. e \in Nat /\ L(e) \in Nat /\ L(c) \in Nat
    BY <1>1, <1>2, <1>3
  <2> QED BY <1>5, <2>1, <2>2
<1>8. ASSUME NEW e \in Tables!IoApics(t) PROVE ~(e < c + L(c))
  <2>1. e \in P /\ e # c /\ ~(e < c)
    BY <1>5
  <2>2. e \in Nat /\ L(c) \in Nat
    BY <1>1, <1>2, <1>3, <2>1
  <2> QED BY <1>4, <1>5, <2>1, <2>2
<1>9. c + L(c) \in Nat
  BY <1>1, <1>3, <1>5
<1> QED BY <1>6, <1>7, <1>8, <1>9 DEF ScannedTo, P, L

\* A scan that stops where no entry fits has seen them all; there is no I/O APIC.
LEMMA ScanEnds ==
  ASSUME NEW t, ScanTyped(t), NEW c, ScannedTo(t, c), ~FitsAt(t, c)
  PROVE  Tables!IoApics(t) = {}
<1>1. c \notin Tables!Places(t)
  BY ScannedPlace
<1>2. SUFFICES ASSUME NEW d \in Tables!IoApics(t) PROVE FALSE
  OBVIOUS
<1>3. d \in Tables!Places(t) /\ ~(d < c) /\ c \in Nat
  BY DEF ScannedTo, Tables!IoApics
<1>4. d \in Nat
  BY <1>3, PlacesFacts DEF Slots
<1>5. ~(d > c)
  BY <1>1, <1>3, NothingBetween
<1> QED BY <1>1, <1>3, <1>4, <1>5

\* The first I/O APIC is the one a scan comes to first.
LEMMA ScanFinds ==
  ASSUME NEW t, ScanTyped(t), NEW c, ScannedTo(t, c), c \in Tables!IoApics(t)
  PROVE  (CHOOSE x \in Tables!IoApics(t) : \A d \in Tables!IoApics(t) : x <= d) = c
<1> DEFINE I == Tables!IoApics(t)
<1>1. I \subseteq Nat
  BY PlacesFacts DEF Slots, Tables!IoApics
<1>2. c \in Nat /\ \A d \in I : ~(d < c)
  BY DEF ScannedTo
<1>3. c \in I
  OBVIOUS
<1> HIDE DEF I
<1>4. \A d \in I : c <= d
  BY <1>1, <1>2
<1>5. \A x \in I : (\A d \in I : x <= d) => x = c
  BY <1>1, <1>3, <1>4
<1>6. (CHOOSE x \in I : \A d \in I : x <= d) = c
  BY <1>3, <1>4, <1>5
<1> QED BY <1>6 DEF I

-----------------------------------------------------------------------------
(* The tables.                                                             *)

\* The addresses a machine's root pointer and tables name.
Addressed(m) ==
    {m.rsdp.xsdt, m.rsdp.rsdt} \cup
        UNION {{m.tables[a].entries[i] : i \in DOMAIN m.tables[a].entries} :
                   a \in DOMAIN m.tables}

\* The root table acpi_init goes through has been validated.
RootValid ==
    /\ machine \in Machines
    /\ root \in {machine.rsdp.xsdt, machine.rsdp.rsdt}
    /\ Tables!acpi_validate_header(root, Tables!RootSig)

At(i) == Tables!Table(root).entries[i]

\* The sizes and limits are numbers.
LEMMA SizeFacts ==
  /\ Limit \in Nat \ {0} /\ RsdpSize \in Nat \ {0} /\ HeaderSize \in Nat \ {0}
  /\ MaxScan \in Nat \ {0} /\ Rsdp2Size \in Nat /\ MadtSize \in Nat /\ IoApicSize \in Nat
  /\ MadtSize >= HeaderSize /\ EntrySize = 2 /\ IoApicSize > 2
BY StartupAssumption

\* A named address in mapped memory leads to a table that can be read.
LEMMA TableTyped ==
  ASSUME machine \in Machines, NEW a \in Addressed(machine), a \in Nat,
         Tables!acpi_memory_readable(a, HeaderSize)
  PROVE  /\ a \in DOMAIN machine.tables
         /\ Tables!Table(a).length \in Nat
         /\ a + Tables!Table(a).length <= Limit => Readable(Tables!Table(a))
<1>1. MachineOk(machine)
  BY StartupAssumption
<1>2. a \in 1 .. Limit - HeaderSize
  BY SizeFacts DEF Tables!acpi_memory_readable
<1>3. a \in DOMAIN machine.tables
  BY <1>1, <1>2 DEF MachineOk, Addressed
<1> QED BY <1>1, <1>3 DEF MachineOk, Tables!Table

\* A root pointer names addresses.
LEMMA RootTyped ==
  ASSUME machine \in Machines
  PROVE  /\ {machine.rsdp.xsdt, machine.rsdp.rsdt} \subseteq Addressed(machine)
         /\ machine.rsdp.xsdt \in Nat /\ machine.rsdp.rsdt \in Nat
         /\ machine.rsdp.address \in Nat /\ machine.rsdp.length \in Nat
<1>1. MachineOk(machine)
  BY StartupAssumption
<1> QED BY <1>1 DEF MachineOk, Addressed

\* The entries of the root table are addresses of tables that can be read.
LEMMA EntryTyped ==
  ASSUME RootValid
  PROVE  /\ Tables!EntryCount \in Int
         /\ \A i \in 1 .. Tables!EntryCount :
               /\ At(i) \in Nat
               /\ Tables!acpi_memory_readable(At(i), HeaderSize) =>
                     /\ Tables!Table(At(i)).length \in Nat
                     /\ At(i) + Tables!Table(At(i)).length <= Limit =>
                           Readable(Tables!Table(At(i)))
<1> DEFINE t == Tables!Table(root)
<1>1. root \in Addressed(machine) /\ root \in Nat
      /\ Tables!acpi_memory_readable(root, HeaderSize)
  BY RootTyped DEF RootValid, Tables!acpi_validate_header
<1>2. t.length \in Nat /\ t.sig = Tables!RootSig /\ root + t.length <= Limit
      /\ root \in DOMAIN machine.tables
  BY <1>1, TableTyped
  DEF RootValid, Tables!acpi_validate_header, Tables!acpi_memory_readable
<1>3. Readable(t)
  BY <1>1, <1>2, TableTyped DEF RootValid
<1>4. HeaderSize \in Nat
  BY SizeFacts
<1>5. Tables!EntryCount \in Int
  BY <1>2, <1>4 DEF Tables!EntryCount
<1>6. ASSUME NEW i \in 1 .. Tables!EntryCount PROVE i \in DOMAIN t.entries
  <2>1. t.entries \in Seq(Nat) /\ Len(t.entries) \in Nat
        /\ DOMAIN t.entries = 1 .. Len(t.entries)
    BY <1>3 DEF Readable
  <2>2. Tables!EntryCount <= Len(t.entries)
    <3>1. CASE xsdt
      <4>1. t.sig = "XSDT"
        BY <1>2, <3>1 DEF Tables!RootSig
      <4>2. Tables!EntryCount = (t.length - HeaderSize) \div 2
        BY <3>1 DEF Tables!EntryCount
      <4> QED BY <1>2, <1>3, <1>4, <2>1, <4>1, <4>2 DEF Readable
    <3>2. CASE ~xsdt
      <4>1. t.sig = "RSDT"
        BY <1>2, <3>2 DEF Tables!RootSig
      <4>2. Tables!EntryCount = (t.length - HeaderSize) \div 1
        BY <3>2 DEF Tables!EntryCount
      <4>3. Tables!EntryCount = t.length - HeaderSize
        BY <1>2, <1>4, <4>2
      <4> QED BY <1>2, <1>3, <1>4, <2>1, <4>1, <4>3 DEF Readable
    <3> QED BY <3>1, <3>2
  <2> QED BY <1>5, <2>1, <2>2
<1>7. ASSUME NEW i \in 1 .. Tables!EntryCount
      PROVE  At(i) \in Nat /\ At(i) \in Addressed(machine)
  <2>1. i \in DOMAIN t.entries
    BY <1>6
  <2>2. t.entries \in Seq(Nat)
    BY <1>3 DEF Readable
  <2>3. t.entries[i] \in Nat
    BY <2>1, <2>2
  <2>4. t.entries[i] \in Addressed(machine)
    BY <1>2, <2>1 DEF Addressed, Tables!Table
  <2> QED BY <2>3, <2>4 DEF At
<1> QED BY <1>5, <1>7, TableTyped DEF RootValid

\* The entries that lead to correct tables are those that pass validation.
LEMMA NamedIff ==
  ASSUME RootValid, NEW sig, NEW i \in 1 .. Tables!EntryCount
  PROVE  i \in Tables!Named(sig) <=> Tables!acpi_validate_header(At(i), sig)
<1>1. At(i) \in Nat /\ Limit \in Nat /\ HeaderSize \in Nat \ {0}
  BY EntryTyped, SizeFacts
<1>2. At(i) \in 1 .. Limit - HeaderSize <=> Tables!acpi_memory_readable(At(i), HeaderSize)
  BY <1>1 DEF Tables!acpi_memory_readable
<1>3. CASE Tables!acpi_memory_readable(At(i), HeaderSize)
  <2>1. Tables!Table(At(i)).length \in Nat
    BY <1>3, EntryTyped
  <2>2. Tables!Table(At(i)).length \in HeaderSize .. Limit - At(i) <=>
           /\ Tables!Table(At(i)).length >= HeaderSize
           /\ Tables!acpi_memory_readable(At(i), Tables!Table(At(i)).length)
    BY <1>1, <1>3, <2>1 DEF Tables!acpi_memory_readable
  <2> QED BY <1>2, <2>2 DEF Tables!Named, Tables!acpi_validate_header, At
<1>4. CASE ~Tables!acpi_memory_readable(At(i), HeaderSize)
  BY <1>2, <1>4 DEF Tables!Named, Tables!acpi_validate_header, At
<1> QED BY <1>3, <1>4

\* A table that passes as a MADT lies in mapped memory, and its entries can be
\* read.
LEMMA MadtTyped ==
  ASSUME RootValid, NEW i \in 1 .. Tables!EntryCount,
         Tables!acpi_validate_header(At(i), "APIC")
  PROVE  /\ ScanTyped(Tables!Table(At(i)))
         /\ At(i) \in Nat \ {0}
         /\ At(i) + Tables!Table(At(i)).length <= Limit
<1> DEFINE t == Tables!Table(At(i))
<1>1. At(i) \in Nat \ {0} /\ t.length \in Nat /\ At(i) + t.length <= Limit /\ t.sig = "APIC"
      /\ Readable(t)
  BY EntryTyped DEF Tables!acpi_validate_header, Tables!acpi_memory_readable
<1>2. ASSUME NEW c \in 0 .. Extent(t) - EntrySize PROVE t.bytes[c + 2] \in Nat
  <2>1. t.bytes \in Seq(Nat) /\ Len(t.bytes) \in Nat
        /\ (Len(t.bytes) >= t.length - MadtSize \/ Len(t.bytes) >= MaxScan)
    BY <1>1 DEF Readable
  <2>2. Extent(t) <= Len(t.bytes) /\ Extent(t) \in Int
    <3> DEFINE n == Len(t.bytes)
               rest == t.length - MadtSize
    <3>1. /\ n \in Int /\ rest \in Int /\ MaxScan \in Int
          /\ n >= rest \/ n >= MaxScan
      BY <1>1, <2>1, SizeFacts
    <3>2. Extent(t) = IF rest > MaxScan THEN MaxScan ELSE rest
      BY DEF Extent
    <3> HIDE DEF n, rest
    <3>3. Extent(t) <= n /\ Extent(t) \in Int
      BY <3>1, <3>2
    <3> QED BY <3>3 DEF n
  <2>3. c + 2 \in 1 .. Len(t.bytes)
    BY <2>1, <2>2, SizeFacts
  <2> QED BY <2>1, <2>3
<1> QED BY <1>1, <1>2 DEF ScanTyped

\* The entries below n that lead to a correct table, and the MADTs among them
\* with an I/O APIC.
Below(sig, n) == {i \in Tables!Named(sig) : i < n}
WithIoApic(n) == {i \in Below("APIC", n) : Tables!IoApics(Tables!Table(At(i))) # {}}
FirstOf(s) == CHOOSE c \in s : \A d \in s : c <= d

\* What g_acpi, here f, says of the entries below n.
FoundMadt(f, n) ==
    IF Below("APIC", n) = {} THEN f.madt = 0
    ELSE /\ f.madt = At(Tables!Latest(Below("APIC", n)))
         /\ f.lapic = Tables!Table(f.madt).lapic
FoundFadt(f, n) ==
    f.fadt = IF Below("FACP", n) = {} THEN 0 ELSE At(Tables!Latest(Below("FACP", n)))
FoundIoApic(f, n) ==
    IF WithIoApic(n) = {} THEN f.ioapic = 0
    ELSE LET t == Tables!Table(At(Tables!Latest(WithIoApic(n))))
         IN  f.ioapic = t.bytes[FirstOf(Tables!IoApics(t)) + 3]

\* g_acpi is a record of these fields.
Shape(f) ==
    f = [present |-> f.present, root |-> f.root, madt |-> f.madt, fadt |-> f.fadt,
         lapic |-> f.lapic, ioapic |-> f.ioapic]

\* In the middle of a MADT, at entry next, its fixed part has been read already.
MadtsRead == IF apc = "madt" THEN next + 1 ELSE next

\* Where acpi_init is.
AcpiAt ==
    /\ machine \in Machines
    /\ apc \in {"rsdp", "root", "tables", "madt", "ok", "failed"}
    /\ next \in Nat \ {0}
    /\ apc \in {"rsdp", "root"} => next = 1
    /\ apc = "root" => root \in {machine.rsdp.xsdt, machine.rsdp.rsdt}
    /\ apc \in {"tables", "madt", "ok"} => RootValid
    /\ apc = "madt" =>
           /\ next <= Tables!EntryCount
           /\ Tables!acpi_validate_header(At(next), "APIC")
           /\ ScannedTo(Tables!Table(At(next)), cursor)
    /\ apc = "ok" => next > Tables!EntryCount /\ info.madt # 0

\* What it has found.
AcpiFound ==
    apc \in {"tables", "madt", "ok"} =>
        /\ Shape(info)
        /\ FoundMadt(info, MadtsRead)
        /\ FoundFadt(info, next)
        /\ FoundIoApic(info, next)

\* Nothing has been done before kmain comes to acpi_init.
AcpiIdle ==
    /\ apc = "rsdp"
    /\ xsdt = FALSE
    /\ root = 0
    /\ next = 1
    /\ cursor = 0
    /\ info = Tables!NoInfo
    /\ reads = {}

TablesInv ==
    /\ stage \in {"loader", "kernel"} => AcpiIdle
    /\ stage = "acpi" => AcpiAt /\ AcpiFound /\ Tables!ReadsMapped

\* While the machine, the root table and its kind stay, so do all the tables.
LEMMA SameTables ==
  ASSUME UNCHANGED <<machine, root, xsdt>>
  PROVE  /\ RootValid' <=> RootValid
         /\ Tables!EntryCount' = Tables!EntryCount
         /\ \A i : At(i)' = At(i)
         /\ \A a : Tables!Table(a)' = Tables!Table(a)
         /\ \A a, sig : Tables!acpi_validate_header(a, sig)' <=>
                           Tables!acpi_validate_header(a, sig)
         /\ \A f, n : FoundMadt(f, n)' <=> FoundMadt(f, n)
         /\ \A f, n : FoundFadt(f, n)' <=> FoundFadt(f, n)
         /\ \A f, n : FoundIoApic(f, n)' <=> FoundIoApic(f, n)
<1>1. \A a : Tables!Table(a)' = Tables!Table(a)
  BY DEF Tables!Table
<1>2. \A a, sig : Tables!acpi_validate_header(a, sig)' <=>
                     Tables!acpi_validate_header(a, sig)
  BY <1>1 DEF Tables!acpi_validate_header, Tables!acpi_memory_readable
<1>3. Tables!EntryCount' = Tables!EntryCount
  BY <1>1 DEF Tables!EntryCount
<1>4. \A i : At(i)' = At(i)
  BY <1>1 DEF At
<1>5. RootValid' <=> RootValid
  BY <1>2 DEF RootValid, Tables!RootSig
<1>6. \A sig : Tables!Named(sig)' = Tables!Named(sig)
  BY <1>1, <1>3 DEF Tables!Named
<1>7. \A sig, n : Below(sig, n)' = Below(sig, n)
  BY <1>6 DEF Below
<1>8. \A n : WithIoApic(n)' = WithIoApic(n)
  BY <1>1, <1>4, <1>7 DEF WithIoApic
<1>9. \A f, n : FoundMadt(f, n)' <=> FoundMadt(f, n)
  BY <1>1, <1>4, <1>7 DEF FoundMadt
<1>10. \A f, n : FoundFadt(f, n)' <=> FoundFadt(f, n)
  BY <1>1, <1>4, <1>7 DEF FoundFadt
<1>11. \A f, n : FoundIoApic(f, n)' <=> FoundIoApic(f, n)
  BY <1>1, <1>4, <1>8 DEF FoundIoApic
<1> QED BY <1>1, <1>2, <1>3, <1>4, <1>5, <1>9, <1>10, <1>11

\* The latest of a set of entries.
LEMMA LatestIs ==
  ASSUME NEW s \in SUBSET Nat, NEW n \in s, \A j \in s : j <= n
  PROVE  Tables!Latest(s) = n
<1>1. \A i \in s : (\A j \in s : j <= i) => i = n
  OBVIOUS
<1> QED BY <1>1 DEF Tables!Latest

\* One entry more: it joins the correct tables of its signature or changes nothing.
LEMMA OneMore ==
  ASSUME RootValid, NEW n \in 1 .. Tables!EntryCount, NEW sig
  PROVE  /\ Tables!acpi_validate_header(At(n), sig) =>
               /\ Below(sig, n + 1) = Below(sig, n) \cup {n}
               /\ Tables!Latest(Below(sig, n + 1)) = n
         /\ ~Tables!acpi_validate_header(At(n), sig) => Below(sig, n + 1) = Below(sig, n)
<1>1. Tables!EntryCount \in Int /\ n \in Nat
  BY EntryTyped
<1>2. Tables!Named(sig) \subseteq 1 .. Tables!EntryCount
  BY DEF Tables!Named
<1>3. n \in Tables!Named(sig) <=> Tables!acpi_validate_header(At(n), sig)
  BY NamedIff
<1>4. Below(sig, n + 1) = Below(sig, n) \cup
         (IF Tables!acpi_validate_header(At(n), sig) THEN {n} ELSE {})
  BY <1>1, <1>2, <1>3 DEF Below
<1>5. Below(sig, n + 1) \subseteq Nat /\ \A j \in Below(sig, n + 1) : j <= n
  BY <1>1, <1>2 DEF Below
<1>6. Tables!acpi_validate_header(At(n), sig) => Tables!Latest(Below(sig, n + 1)) = n
  <2> SUFFICES ASSUME Tables!acpi_validate_header(At(n), sig)
               PROVE  Tables!Latest(Below(sig, n + 1)) = n
    OBVIOUS
  <2>1. n \in Below(sig, n + 1) /\ Below(sig, n + 1) \in SUBSET Nat
    BY <1>4, <1>5
  <2> QED BY <1>5, <2>1, LatestIs
<1> QED BY <1>4, <1>6

\* The same for the MADTs with an I/O APIC.
LEMMA OneMoreMadt ==
  ASSUME RootValid, NEW n \in 1 .. Tables!EntryCount
  PROVE  /\ Tables!acpi_validate_header(At(n), "APIC")
               /\ Tables!IoApics(Tables!Table(At(n))) # {} =>
               /\ WithIoApic(n + 1) = WithIoApic(n) \cup {n}
               /\ Tables!Latest(WithIoApic(n + 1)) = n
         /\ ~Tables!acpi_validate_header(At(n), "APIC")
               \/ Tables!IoApics(Tables!Table(At(n))) = {} =>
               WithIoApic(n + 1) = WithIoApic(n)
<1>1. Tables!EntryCount \in Int /\ n \in Nat
  BY EntryTyped
<1>2. Tables!Named("APIC") \subseteq 1 .. Tables!EntryCount
  BY DEF Tables!Named
<1>3. CASE Tables!acpi_validate_header(At(n), "APIC")
           /\ Tables!IoApics(Tables!Table(At(n))) # {}
  <2>1. Below("APIC", n + 1) = Below("APIC", n) \cup {n}
    BY <1>3, OneMore
  <2>2. WithIoApic(n + 1) = WithIoApic(n) \cup {n}
    BY <1>3, <2>1 DEF WithIoApic
  <2>3. WithIoApic(n + 1) \in SUBSET Nat /\ n \in WithIoApic(n + 1)
        /\ \A j \in WithIoApic(n + 1) : j <= n
    BY <1>1, <1>2, <2>2 DEF WithIoApic, Below
  <2>4. Tables!Latest(WithIoApic(n + 1)) = n
    BY <2>3, LatestIs
  <2> QED BY <1>3, <2>2, <2>4
<1>4. CASE ~Tables!acpi_validate_header(At(n), "APIC")
  <2>1. Below("APIC", n + 1) = Below("APIC", n)
    BY <1>4, OneMore
  <2> QED BY <1>4, <2>1 DEF WithIoApic
<1>5. CASE Tables!acpi_validate_header(At(n), "APIC")
           /\ Tables!IoApics(Tables!Table(At(n))) = {}
  <2>1. Below("APIC", n + 1) = Below("APIC", n) \cup {n}
    BY <1>5, OneMore
  <2> QED BY <1>5, <2>1 DEF WithIoApic
<1> QED BY <1>3, <1>4, <1>5

\* Every step of acpi_init keeps track of where it is and what it has found.
LEMMA AcpiKeeps ==
  ASSUME AcpiAt, AcpiFound, Tables!Next
  PROVE  AcpiAt' /\ AcpiFound'
<1> DEFINE Later == {"tables", "madt", "ok"}
\* What is to be shown when the root table stays.
<1>1. ASSUME UNCHANGED <<machine, root, xsdt>>, RootValid,
             apc' \in Later, next' \in Nat \ {0},
             apc' = "madt" =>
                 /\ next' <= Tables!EntryCount
                 /\ Tables!acpi_validate_header(At(next'), "APIC")
                 /\ ScannedTo(Tables!Table(At(next')), cursor'),
             apc' = "ok" => next' > Tables!EntryCount /\ info'.madt # 0,
             Shape(info'),
             FoundMadt(info', IF apc' = "madt" THEN next' + 1 ELSE next'),
             FoundFadt(info', next'),
             FoundIoApic(info', next')
      PROVE  AcpiAt' /\ AcpiFound'
  <2>1. /\ RootValid' <=> RootValid
        /\ Tables!EntryCount' = Tables!EntryCount
        /\ \A i : At(i)' = At(i)
        /\ \A a : Tables!Table(a)' = Tables!Table(a)
        /\ \A a, sig : Tables!acpi_validate_header(a, sig)' <=>
                          Tables!acpi_validate_header(a, sig)
        /\ \A f, n : FoundMadt(f, n)' <=> FoundMadt(f, n)
        /\ \A f, n : FoundFadt(f, n)' <=> FoundFadt(f, n)
        /\ \A f, n : FoundIoApic(f, n)' <=> FoundIoApic(f, n)
    BY <1>1, SameTables
  <2>2. machine' \in Machines /\ RootValid'
    BY <1>1, <2>1 DEF AcpiAt
  <2>3. apc' = "madt" =>
           /\ next' <= Tables!EntryCount'
           /\ Tables!acpi_validate_header(At(next), "APIC")'
           /\ ScannedTo(Tables!Table(At(next))', cursor')
    BY <1>1, <2>1
  <2>4. AcpiAt'
    BY <1>1, <2>1, <2>2, <2>3 DEF AcpiAt
  <2>5. FoundMadt(info, MadtsRead)' /\ FoundFadt(info, next)' /\ FoundIoApic(info, next)'
    BY <1>1, <2>1 DEF MadtsRead
  <2> QED BY <1>1, <2>4, <2>5 DEF AcpiFound, Shape
<1>2. CASE Tables!FindRoot
  <2>1. apc' \in {"failed", "root"} /\ next' = 1 /\ UNCHANGED machine
        /\ root' \in {machine.rsdp.xsdt, machine.rsdp.rsdt}
    BY <1>2 DEF Tables!FindRoot, Tables!Rsdp, AcpiAt
  <2> QED BY <2>1 DEF AcpiAt, AcpiFound
<1>3. CASE Tables!RejectRsdp
  BY <1>3 DEF Tables!RejectRsdp, AcpiAt, AcpiFound
<1>4. CASE Tables!ReadRoot
  <2>1. UNCHANGED <<machine, xsdt, root, next, cursor>> /\ apc = "root" /\ next = 1
        /\ machine \in Machines /\ root \in {machine.rsdp.xsdt, machine.rsdp.rsdt}
    BY <1>4 DEF Tables!ReadRoot, AcpiAt
  <2>2. CASE apc' = "failed"
    BY <2>1, <2>2 DEF AcpiAt, AcpiFound
  <2>3. CASE apc' # "failed"
    <3>1. Tables!acpi_validate_header(root, Tables!RootSig) /\ apc' = "tables"
          /\ info' = [Tables!NoInfo EXCEPT !.present = TRUE, !.root = root]
      BY <1>4, <2>3 DEF Tables!ReadRoot
    <3>2. RootValid
      BY <2>1, <3>1 DEF RootValid
    <3>3. info' = [present |-> TRUE, root |-> root, madt |-> 0, fadt |-> 0,
                   lapic |-> 0, ioapic |-> 0]
      BY <3>1 DEF Tables!NoInfo
    <3>4. Shape(info') /\ info'.madt = 0 /\ info'.fadt = 0 /\ info'.ioapic = 0
      BY <3>3 DEF Shape
    <3>5. \A sig : Below(sig, 1) = {}
      BY <3>2, EntryTyped DEF Below, Tables!Named
    <3>6. WithIoApic(1) = {}
      BY <3>5 DEF WithIoApic
    <3>7. FoundMadt(info', 1) /\ FoundFadt(info', 1) /\ FoundIoApic(info', 1)
      BY <3>4, <3>5, <3>6 DEF FoundMadt, FoundFadt, FoundIoApic
    <3> QED BY <1>1, <2>1, <3>1, <3>2, <3>4, <3>7
  <2> QED BY <2>2, <2>3
<1>5. ASSUME apc \in {"tables", "madt"}
      PROVE  /\ RootValid /\ Tables!EntryCount \in Int /\ next \in Nat \ {0}
             /\ Shape(info) /\ FoundMadt(info, IF apc = "madt" THEN next + 1 ELSE next)
             /\ FoundFadt(info, next) /\ FoundIoApic(info, next)
             /\ next <= Tables!EntryCount => next \in 1 .. Tables!EntryCount
  <2>1. RootValid /\ next \in Nat \ {0}
    BY <1>5 DEF AcpiAt
  <2>2. Tables!EntryCount \in Int
    BY <2>1, EntryTyped
  <2> QED BY <1>5, <2>1, <2>2 DEF AcpiFound, MadtsRead
<1>6. CASE Tables!SkipTable
  <2>1. apc = "tables" /\ apc' = "tables" /\ next <= Tables!EntryCount /\ next' = next + 1
        /\ UNCHANGED <<machine, xsdt, root, info>>
    BY <1>6 DEF Tables!SkipTable
  <2>2. ~Tables!acpi_validate_header(At(next), "APIC")
        /\ ~Tables!acpi_validate_header(At(next), "FACP")
    BY <1>6 DEF Tables!SkipTable, Tables!Entry, At, Tables!acpi_validate_header
  <2>3. Below("APIC", next + 1) = Below("APIC", next)
        /\ Below("FACP", next + 1) = Below("FACP", next)
        /\ WithIoApic(next + 1) = WithIoApic(next)
    BY <1>5, <2>1, <2>2, OneMore, OneMoreMadt
  <2>4. FoundMadt(info, next + 1) /\ FoundFadt(info, next + 1)
        /\ FoundIoApic(info, next + 1)
    BY <1>5, <2>1, <2>3 DEF FoundMadt, FoundFadt, FoundIoApic
  <2> QED BY <1>1, <1>5, <2>1, <2>4
<1>7. CASE Tables!Fadt
  <2>1. apc = "tables" /\ apc' = "tables" /\ next <= Tables!EntryCount /\ next' = next + 1
        /\ UNCHANGED <<machine, xsdt, root>>
        /\ Tables!acpi_validate_header(At(next), "FACP")
        /\ info' = [info EXCEPT !.fadt = At(next)]
    BY <1>7 DEF Tables!Fadt, Tables!Entry, At
  <2>2. ~Tables!acpi_validate_header(At(next), "APIC")
    BY <2>1 DEF Tables!acpi_validate_header
  <2>3. Below("APIC", next + 1) = Below("APIC", next)
        /\ WithIoApic(next + 1) = WithIoApic(next)
    BY <1>5, <2>1, <2>2, OneMore, OneMoreMadt
  <2>4. Below("FACP", next + 1) # {} /\ Tables!Latest(Below("FACP", next + 1)) = next
    BY <1>5, <2>1, OneMore
  <2>5. info' = [present |-> info.present, root |-> info.root, madt |-> info.madt,
                 fadt |-> At(next), lapic |-> info.lapic, ioapic |-> info.ioapic]
    BY <1>5, <2>1 DEF Shape
  <2>6. Shape(info') /\ info'.madt = info.madt /\ info'.lapic = info.lapic
        /\ info'.fadt = At(next) /\ info'.ioapic = info.ioapic
    BY <2>5 DEF Shape
  <2>7. FoundMadt(info', next + 1) /\ FoundFadt(info', next + 1)
        /\ FoundIoApic(info', next + 1)
    BY <1>5, <2>1, <2>3, <2>4, <2>6 DEF FoundMadt, FoundFadt, FoundIoApic
  <2> QED BY <1>1, <1>5, <2>1, <2>6, <2>7
<1>8. CASE Tables!Madt
  <2>1. apc = "tables" /\ apc' = "madt" /\ next <= Tables!EntryCount /\ next' = next
        /\ UNCHANGED <<machine, xsdt, root>> /\ cursor' = 0
        /\ Tables!acpi_validate_header(At(next), "APIC")
        /\ info' = [info EXCEPT !.madt = At(next), !.lapic = Tables!Table(At(next)).lapic]
    BY <1>8 DEF Tables!Madt, Tables!Entry, At
  <2>2. ScannedTo(Tables!Table(At(next)), 0)
    BY <1>5, <2>1, MadtTyped, ScanStarts
  <2>3. Below("APIC", next + 1) # {} /\ Tables!Latest(Below("APIC", next + 1)) = next
    BY <1>5, <2>1, OneMore
  <2>4. info' = [present |-> info.present, root |-> info.root, madt |-> At(next),
                 fadt |-> info.fadt, lapic |-> Tables!Table(At(next)).lapic,
                 ioapic |-> info.ioapic]
    BY <1>5, <2>1 DEF Shape
  <2>5. Shape(info') /\ info'.madt = At(next) /\ info'.fadt = info.fadt
        /\ info'.lapic = Tables!Table(At(next)).lapic /\ info'.ioapic = info.ioapic
    BY <2>4 DEF Shape
  <2>6. FoundMadt(info', next + 1)
    BY <2>3, <2>5 DEF FoundMadt
  <2>7. FoundFadt(info', next) /\ FoundIoApic(info', next)
    BY <1>5, <2>1, <2>5 DEF FoundFadt, FoundIoApic
  <2> QED BY <1>1, <1>5, <2>1, <2>2, <2>5, <2>6, <2>7
<1>9. CASE Tables!MadtEntry
  <2> DEFINE t == Tables!Table(At(next))
  <2>1. apc = "madt" /\ UNCHANGED <<machine, xsdt, root>> /\ next <= Tables!EntryCount
        /\ Tables!acpi_validate_header(At(next), "APIC") /\ ScannedTo(t, cursor)
    BY <1>9 DEF Tables!MadtEntry, AcpiAt
  <2>2. ScanTyped(t) /\ next \in 1 .. Tables!EntryCount
    BY <1>5, <2>1, MadtTyped
  <2>3. cursor \in Nat /\ Extent(t) \in Int /\ EntrySize = 2
    BY <2>1, <2>2, SizeFacts DEF ScannedTo, ScanTyped, Extent
  <2>4. Tables!Entry = At(next) /\ Tables!ScanEnd = Extent(t)
        /\ Tables!LengthAt(cursor) = t.bytes[cursor + 2]
        /\ Tables!TypeAt(cursor) = t.bytes[cursor + 1]
    BY DEF Tables!Entry, Tables!ScanEnd, Extent, Tables!LengthAt, Tables!TypeAt, At
  <2>5. (cursor + EntrySize <= Tables!ScanEnd /\ Tables!EntryFits) <=> FitsAt(t, cursor)
    BY <2>4 DEF Tables!EntryFits, FitsAt
  <2>6. FitsAt(t, cursor) => (Tables!IsIoApic <=> cursor \in Tables!IoApics(t))
    <3>1. FitsAt(t, cursor) => cursor \in Tables!Places(t)
      BY <2>1, <2>2, ScannedPlace
    <3> QED BY <2>4, <3>1 DEF Tables!IsIoApic, Tables!IoApics
  <2>7. ~Tables!acpi_validate_header(At(next), "FACP")
    BY <2>1 DEF Tables!acpi_validate_header
  <2>8. Below("FACP", next + 1) = Below("FACP", next)
    BY <1>5, <2>2, <2>1, <2>7, OneMore
  \* The scan ends at a place that holds no entry.
  <2>9. CASE Tables!MadtDone /\ UNCHANGED info /\ ~FitsAt(t, cursor)
    <3>1. apc' = "tables" /\ next' = next + 1
      BY <2>9 DEF Tables!MadtDone
    <3>2. Tables!IoApics(t) = {}
      BY <2>1, <2>2, <2>9, ScanEnds
    <3>3. WithIoApic(next + 1) = WithIoApic(next)
      BY <1>5, <2>1, <2>2, <3>2, OneMoreMadt
    <3>4. FoundMadt(info', next + 1) /\ FoundFadt(info', next + 1)
          /\ FoundIoApic(info', next + 1)
      BY <1>5, <2>1, <2>8, <2>9, <3>3 DEF FoundMadt, FoundFadt, FoundIoApic
    <3> QED BY <1>1, <1>5, <2>1, <2>9, <3>1, <3>4
  \* It ends at an I/O APIC.
  <2>10. CASE /\ Tables!MadtDone
              /\ info' = [info EXCEPT !.ioapic = t.bytes[cursor + 3]]
              /\ cursor \in Tables!IoApics(t)
    <3>1. apc' = "tables" /\ next' = next + 1
      BY <2>10 DEF Tables!MadtDone
    <3>2. FirstOf(Tables!IoApics(t)) = cursor
      BY <2>1, <2>2, <2>10, ScanFinds DEF FirstOf
    <3>3. WithIoApic(next + 1) # {} /\ Tables!Latest(WithIoApic(next + 1)) = next
      BY <1>5, <2>1, <2>2, <2>10, OneMoreMadt
    <3>4. info' = [present |-> info.present, root |-> info.root, madt |-> info.madt,
                   fadt |-> info.fadt, lapic |-> info.lapic,
                   ioapic |-> t.bytes[cursor + 3]]
      BY <1>5, <2>1, <2>10 DEF Shape
    <3>5. Shape(info') /\ info'.madt = info.madt /\ info'.fadt = info.fadt
          /\ info'.lapic = info.lapic /\ info'.ioapic = t.bytes[cursor + 3]
      BY <3>4 DEF Shape
    <3>6. FoundMadt(info', next + 1) /\ FoundFadt(info', next + 1)
      BY <1>5, <2>1, <2>8, <3>5 DEF FoundMadt, FoundFadt
    <3>7. FoundIoApic(info', next + 1)
      BY <3>2, <3>3, <3>5 DEF FoundIoApic
    <3> QED BY <1>1, <1>5, <2>1, <3>1, <3>5, <3>6, <3>7
  \* It goes on behind another entry.
  <2>11. CASE /\ cursor' = cursor + t.bytes[cursor + 2]
              /\ UNCHANGED <<apc, next, info>>
              /\ FitsAt(t, cursor) /\ cursor \notin Tables!IoApics(t)
    <3>1. ScannedTo(t, cursor')
      BY <2>1, <2>2, <2>11, ScanGoesOn
    <3> QED BY <1>1, <1>5, <2>1, <2>11, <3>1
  <2>12. \/ Tables!MadtDone /\ UNCHANGED info /\ ~FitsAt(t, cursor)
         \/ /\ Tables!MadtDone
            /\ info' = [info EXCEPT !.ioapic = t.bytes[cursor + 3]]
            /\ cursor \in Tables!IoApics(t)
         \/ /\ cursor' = cursor + t.bytes[cursor + 2]
            /\ UNCHANGED <<apc, next, info>>
            /\ FitsAt(t, cursor) /\ cursor \notin Tables!IoApics(t)
    <3>1. CASE cursor + EntrySize > Tables!ScanEnd
      <4>1. ~FitsAt(t, cursor)
        BY <2>3, <2>4, <3>1 DEF FitsAt
      <4>2. ~(cursor + EntrySize <= Tables!ScanEnd)
        BY <2>3, <2>4, <3>1
      <4> QED BY <1>9, <4>1, <4>2 DEF Tables!MadtEntry
    <3>2. CASE cursor + EntrySize <= Tables!ScanEnd /\ ~Tables!EntryFits
      <4>1. ~(cursor + EntrySize > Tables!ScanEnd) /\ ~FitsAt(t, cursor)
        BY <2>3, <2>4, <2>5, <3>2
      <4> QED BY <1>9, <3>2, <4>1 DEF Tables!MadtEntry
    <3>3. CASE cursor + EntrySize <= Tables!ScanEnd /\ Tables!EntryFits
      <4>1. ~(cursor + EntrySize > Tables!ScanEnd) /\ FitsAt(t, cursor)
        BY <2>3, <2>4, <2>5, <3>3
      <4> QED BY <1>9, <2>4, <2>6, <3>3, <4>1 DEF Tables!MadtEntry
    <3> QED BY <2>3, <2>4, <3>1, <3>2, <3>3
  <2> QED BY <2>9, <2>10, <2>11, <2>12
<1>10. CASE Tables!Finish
  <2>1. apc = "tables" /\ next > Tables!EntryCount /\ apc' \in {"ok", "failed"}
        /\ (apc' = "ok" => info.madt # 0) /\ UNCHANGED <<machine, xsdt, root, next, info>>
    BY <1>10 DEF Tables!Finish
  <2>2. CASE apc' = "ok"
    BY <1>1, <1>5, <2>1, <2>2
  <2>3. CASE apc' = "failed"
    BY <2>1, <2>3 DEF AcpiAt, AcpiFound
  <2> QED BY <2>1, <2>2, <2>3
<1> QED
  BY <1>2, <1>3, <1>4, <1>6, <1>7, <1>8, <1>9, <1>10 DEF Tables!Next

\* A read of mapped memory.
Mapped(r) == r[1] > 0 /\ r[1] + r[2] <= Limit

\* Validating a table reads mapped memory only.
LEMMA HeaderReadsMapped ==
  ASSUME NEW a \in Nat, Tables!acpi_memory_readable(a, HeaderSize)
  PROVE  \A r \in Tables!HeaderReads(a) : Mapped(r)
<1>1. a > 0 /\ a + HeaderSize <= Limit
  BY DEF Tables!acpi_memory_readable
<1>2. \A r \in {<<a, HeaderSize>>} : Mapped(r)
  BY <1>1 DEF Mapped
<1>3. CASE Tables!acpi_memory_readable(a, Tables!Table(a).length)
  <2>1. a + Tables!Table(a).length <= Limit
    BY <1>3 DEF Tables!acpi_memory_readable
  <2>2. \A r \in {<<a, Tables!Table(a).length>>} : Mapped(r)
    BY <1>1, <2>1 DEF Mapped
  <2>3. Tables!HeaderReads(a) = {<<a, HeaderSize>>} \cup {<<a, Tables!Table(a).length>>}
    BY <1>3 DEF Tables!HeaderReads
  <2> QED BY <1>2, <2>2, <2>3
<1>4. CASE ~Tables!acpi_memory_readable(a, Tables!Table(a).length)
  <2>1. Tables!HeaderReads(a) = {<<a, HeaderSize>>} \cup {}
    BY <1>4 DEF Tables!HeaderReads
  <2> QED BY <1>2, <2>1
<1> QED BY <1>3, <1>4

\* Whatever a step of acpi_init reads is mapped, but for the fixed part of a MADT
\* that is too short.
LEMMA ReadsKeep ==
  ASSUME AcpiAt, Tables!Next
  PROVE  Tables!ReadsMapped'
<1> USE SizeFacts
<1>1. ASSUME \A r \in reads' : Mapped(r) PROVE Tables!ReadsMapped'
  BY <1>1 DEF Tables!ReadsMapped, Mapped
<1>2. CASE Tables!FindRoot \/ Tables!RejectRsdp
  <2>1. reads' = Tables!RsdpReads /\ machine \in Machines
    BY <1>2 DEF Tables!FindRoot, Tables!RejectRsdp, AcpiAt
  <2>2. machine.rsdp.address \in Nat /\ machine.rsdp.length \in Nat
    BY <2>1, RootTyped
  <2>3. ASSUME NEW size \in Nat,
               Tables!acpi_memory_readable(machine.rsdp.address, size)
        PROVE  Mapped(<<machine.rsdp.address, size>>)
    BY <2>2, <2>3 DEF Tables!acpi_memory_readable, Mapped
  <2>4. ASSUME NEW r \in Tables!RsdpReads PROVE Mapped(r)
    <3>1. Tables!acpi_memory_readable(machine.rsdp.address, RsdpSize)
      BY <2>4 DEF Tables!RsdpReads, Tables!Rsdp
    <3>2. \/ r = <<machine.rsdp.address, RsdpSize>>
          \/ /\ r = <<machine.rsdp.address, machine.rsdp.length>>
             /\ Tables!acpi_memory_readable(machine.rsdp.address, machine.rsdp.length)
      BY <2>4, <3>1 DEF Tables!RsdpReads, Tables!Rsdp
    <3> QED BY <2>2, <2>3, <3>1, <3>2
  <2> QED BY <1>1, <2>1, <2>4
<1>3. CASE Tables!ReadRoot
  <2>1. root \in Nat
    BY <1>3, RootTyped DEF Tables!ReadRoot, AcpiAt
  <2>2. \/ reads' = {}
        \/ /\ reads' = Tables!HeaderReads(root)
           /\ Tables!acpi_memory_readable(root, HeaderSize)
    BY <1>3 DEF Tables!ReadRoot
  <2> QED BY <1>1, <2>1, <2>2, HeaderReadsMapped
<1>4. ASSUME apc \in {"tables", "madt"}, next <= Tables!EntryCount
      PROVE  RootValid /\ next \in 1 .. Tables!EntryCount /\ At(next) \in Nat
             /\ Tables!Entry = At(next)
  <2>1. RootValid /\ next \in Nat \ {0}
    BY <1>4 DEF AcpiAt
  <2>2. Tables!EntryCount \in Int
    BY <2>1, EntryTyped
  <2>3. next \in 1 .. Tables!EntryCount
    BY <1>4, <2>1, <2>2
  <2> QED BY <2>1, <2>3, EntryTyped DEF Tables!Entry, At
<1>5. CASE Tables!SkipTable \/ Tables!Fadt
  <2>1. apc = "tables" /\ next <= Tables!EntryCount
    BY <1>5 DEF Tables!SkipTable, Tables!Fadt
  <2>2. \/ reads' = {}
        \/ /\ reads' = Tables!HeaderReads(At(next))
           /\ Tables!acpi_memory_readable(At(next), HeaderSize)
    BY <1>4, <1>5, <2>1 DEF Tables!SkipTable, Tables!Fadt, Tables!acpi_validate_header
  <2> QED BY <1>1, <1>4, <2>1, <2>2, HeaderReadsMapped
<1>6. CASE Tables!Madt
  <2> DEFINE t == Tables!Table(At(next))
  <2>1. apc = "tables" /\ next <= Tables!EntryCount /\ apc' = "madt"
        /\ UNCHANGED <<machine, root, xsdt, next>>
    BY <1>6 DEF Tables!Madt
  <2>2. At(next) \in Nat \ {0} /\ RootValid /\ next \in 1 .. Tables!EntryCount
        /\ Tables!acpi_validate_header(At(next), "APIC")
        /\ reads' = Tables!HeaderReads(At(next)) \cup {<<At(next), MadtSize>>}
    BY <1>4, <1>6, <2>1
    DEF Tables!Madt, Tables!acpi_validate_header, Tables!acpi_memory_readable
  <2>3. At(next) + t.length <= Limit /\ t.length \in Nat
        /\ Tables!acpi_memory_readable(At(next), HeaderSize)
    BY <2>2, MadtTyped DEF ScanTyped, Tables!acpi_validate_header
  <2>4. \A r \in Tables!HeaderReads(At(next)) : Mapped(r)
    BY <2>2, <2>3, HeaderReadsMapped
  <2>5. t.length >= MadtSize => Mapped(<<At(next), MadtSize>>)
    BY <2>2, <2>3 DEF Mapped
  <2>6. CASE t.length >= MadtSize
    BY <1>1, <2>2, <2>4, <2>5, <2>6
  <2>7. CASE t.length < MadtSize
    <3>1. Tables!Entry' = At(next) /\ Tables!Table(At(next))' = t
      BY <2>1 DEF Tables!Entry, Tables!Table, At
    <3>2. \A r \in reads' : Mapped(r) \/ r = <<At(next), MadtSize>>
      BY <2>2, <2>4
    <3>3. Tables!Table(Tables!Entry)'.length < MadtSize
      BY <2>1, <2>7, <3>1 DEF Tables!Table, Tables!Entry, At
    <3> QED BY <2>1, <3>1, <3>2, <3>3 DEF Tables!ReadsMapped, Mapped
  <2> QED BY <2>3, <2>6, <2>7
<1>7. CASE Tables!MadtEntry
  <2> DEFINE t == Tables!Table(At(next))
  <2>1. apc = "madt" /\ next <= Tables!EntryCount
        /\ Tables!acpi_validate_header(At(next), "APIC") /\ ScannedTo(t, cursor)
    BY <1>7 DEF Tables!MadtEntry, AcpiAt
  <2>2. RootValid /\ next \in 1 .. Tables!EntryCount /\ Tables!Entry = At(next)
    BY <1>4, <2>1
  <2>3. At(next) \in Nat \ {0} /\ At(next) + t.length <= Limit /\ t.length \in Nat
        /\ ScanTyped(t) /\ cursor \in Nat
    BY <2>1, <2>2, MadtTyped DEF ScanTyped, ScannedTo
  <2>4. Tables!ScanEnd <= t.length - MadtSize /\ Tables!ScanEnd \in Int
    BY <2>2, <2>3 DEF Tables!ScanEnd
  <2>5. ASSUME NEW size \in Nat, cursor + size <= Tables!ScanEnd
        PROVE  \A r \in Tables!AtEntry(size) : Mapped(r)
    <3>1. At(next) + MadtSize + cursor > 0
          /\ At(next) + MadtSize + cursor + size <= Limit
      BY <2>3, <2>4, <2>5
    <3> QED BY <2>2, <3>1 DEF Tables!AtEntry, Mapped
  <2>6. CASE reads' = {}
    BY <1>1, <2>6
  <2>7. CASE cursor + EntrySize <= Tables!ScanEnd /\ reads' = Tables!AtEntry(EntrySize)
    BY <1>1, <2>5, <2>7
  <2>8. CASE /\ cursor + EntrySize <= Tables!ScanEnd
             /\ Tables!EntryFits /\ Tables!IsIoApic
             /\ reads' = Tables!AtEntry(IoApicSize)
    <3>1. t.bytes[cursor + 2] >= IoApicSize
          /\ cursor + t.bytes[cursor + 2] <= Tables!ScanEnd
      BY <2>2, <2>8 DEF Tables!EntryFits, Tables!IsIoApic, Tables!LengthAt
    <3>2. Tables!ScanEnd = Extent(t)
      BY <2>2 DEF Tables!ScanEnd, Extent
    <3>3. cursor \in 0 .. Extent(t) - EntrySize
      BY <2>3, <2>4, <2>8, <3>2
    <3>4. t.bytes[cursor + 2] \in Nat
      BY <2>3, <3>3 DEF ScanTyped
    <3>5. cursor + IoApicSize <= Tables!ScanEnd
      BY <2>3, <2>4, <3>1, <3>4
    <3> QED BY <1>1, <2>5, <2>8, <3>5
  <2> QED BY <1>7, <2>6, <2>7, <2>8 DEF Tables!MadtEntry
<1>8. CASE Tables!Finish
  BY <1>1, <1>8 DEF Tables!Finish
<1> QED
  BY <1>2, <1>3, <1>5, <1>6, <1>7, <1>8 DEF Tables!Next

\* From the firmware to the prompt: every step keeps TablesInv.
LEMMA TablesInvStep ==
  ASSUME TablesInv, [Next]_vars
  PROVE  TablesInv'
<1>1. CASE UNCHANGED tables /\ (stage' = "acpi" => stage = "acpi")
           /\ (stage' \in {"loader", "kernel"} => stage \in {"loader", "kernel"})
  <2>1. UNCHANGED <<machine, apc, xsdt, root, next, cursor, info, reads>>
    BY <1>1 DEF tables
  <2>2. AcpiIdle => AcpiIdle'
    BY <2>1 DEF AcpiIdle, Tables!NoInfo
  <2>3. /\ RootValid' <=> RootValid
        /\ Tables!EntryCount' = Tables!EntryCount
        /\ \A i : At(i)' = At(i)
        /\ \A a : Tables!Table(a)' = Tables!Table(a)
        /\ \A a, sig : Tables!acpi_validate_header(a, sig)' <=>
                          Tables!acpi_validate_header(a, sig)
        /\ \A f, n : FoundMadt(f, n)' <=> FoundMadt(f, n)
        /\ \A f, n : FoundFadt(f, n)' <=> FoundFadt(f, n)
        /\ \A f, n : FoundIoApic(f, n)' <=> FoundIoApic(f, n)
    BY <2>1, SameTables
  <2>4. AcpiAt => AcpiAt'
    BY <2>1, <2>3 DEF AcpiAt
  <2>5. AcpiFound => AcpiFound'
    BY <2>1, <2>3 DEF AcpiFound, MadtsRead
  <2>6. Tables!Entry' = Tables!Entry
    BY <2>1 DEF Tables!Entry, Tables!Table
  <2>7. Tables!ReadsMapped => Tables!ReadsMapped'
    BY <2>1, <2>3, <2>6 DEF Tables!ReadsMapped
  <2> QED BY <1>1, <2>2, <2>4, <2>5, <2>7 DEF TablesInv
<1>2. CASE CallAcpi
  <2>1. stage' = "acpi" /\ apc' = "rsdp" /\ next' = 1 /\ machine' \in Machines
        /\ reads' = {}
    BY <1>2 DEF CallAcpi, TablesInv, AcpiIdle
  <2> QED BY <2>1 DEF TablesInv, AcpiAt, AcpiFound, Tables!ReadsMapped
<1>3. CASE AcpiStep
  <2>1. stage = "acpi" /\ stage' = "acpi" /\ Tables!Next
    BY <1>3 DEF AcpiStep
  <2> QED BY <2>1, AcpiKeeps, ReadsKeep DEF TablesInv
<1>4. CASE ShellRun
  BY <1>4 DEF ShellRun, TablesInv
<1>5. CASE ~(CallAcpi \/ AcpiStep \/ ShellRun)
  BY <1>1, <1>5 DEF Next, vars, tables, LoaderStep, FirmwareStep, EnterKernel, Lspci,
    WalkStep, LspciDone
<1> QED BY <1>2, <1>3, <1>4, <1>5

\* When acpi_init succeeds, what it found is there.
LEMMA FoundAtEnd ==
  ASSUME AcpiAt, AcpiFound
  PROVE  Tables!FoundIsThere
<1> SUFFICES ASSUME apc = "ok" PROVE Tables!FoundIsThere
  BY DEF Tables!FoundIsThere
<1>1. RootValid /\ next > Tables!EntryCount /\ info.madt # 0 /\ next \in Nat
      /\ FoundMadt(info, next) /\ FoundFadt(info, next) /\ FoundIoApic(info, next)
  BY DEF AcpiAt, AcpiFound, MadtsRead
<1>2. \A sig : Below(sig, next) = Tables!Named(sig)
  BY <1>1, EntryTyped DEF Below, Tables!Named
<1> DEFINE madts == Tables!Named("APIC")
           fadts == Tables!Named("FACP")
           with == {i \in madts : Tables!IoApics(Tables!Table(At(i))) # {}}
<1>3. WithIoApic(next) = with
  BY <1>2 DEF WithIoApic
<1>4. madts # {} /\ info.madt = At(Tables!Latest(madts))
      /\ info.lapic = Tables!Table(info.madt).lapic
  BY <1>1, <1>2 DEF FoundMadt
<1>5. info.fadt = IF fadts = {} THEN 0 ELSE At(Tables!Latest(fadts))
  BY <1>1, <1>2 DEF FoundFadt
<1>6. info.ioapic =
         IF with = {} THEN 0
         ELSE LET t == Tables!Table(At(Tables!Latest(with)))
              IN  t.bytes[FirstOf(Tables!IoApics(t)) + 3]
  BY <1>1, <1>3 DEF FoundIoApic
<1> QED BY <1>4, <1>5, <1>6 DEF Tables!FoundIsThere, At, FirstOf

\* On every machine, acpi_init reads mapped memory only and finds the APICs and
\* the FADT its valid tables name, and lspci shows every visible PCI function once
\* and in order.
THEOREM HardwareIsFound == Spec => []FindsHardware
<1>1. Init => TablesInv /\ WalkInv
  <2> SUFFICES ASSUME Init PROVE TablesInv /\ WalkInv
    OBVIOUS
  <2>1. TablesInv
    BY DEF Init, Tables!Init, TablesInv, AcpiIdle
  <2>2. WalkInv
    BY DEF Init, Walk!Init, WalkInv, WalkIdle
  <2> QED BY <2>1, <2>2
<1>2. TablesInv /\ WalkInv /\ [Next]_vars => (TablesInv /\ WalkInv)'
  BY TablesInvStep, WalkInvStep
<1>3. TablesInv /\ WalkInv => FindsHardware
  <2> SUFFICES ASSUME TablesInv, WalkInv PROVE FindsHardware
    OBVIOUS
  <2>1. stage = "acpi" => Tables!ReadsMapped /\ Tables!FoundIsThere
    BY FoundAtEnd DEF TablesInv
  <2>2. stage = "lspci" => Walk!SeesAllOnce
    <3> SUFFICES ASSUME WalkAt, WalkSaw PROVE Walk!SeesAllOnce
      BY DEF WalkInv
    <3>1. CASE wpc = "done" /\ ~stopped
      <4>1. ASSUME NEW a \in Walk!Visible PROVE Walk!Before(a, at)
        <5>1. at = <<BusCount, 0, 0>> /\ a \in Walk!Addresses
          BY <3>1, <4>1 DEF WalkAt, Walk!Visible
        <5>2. a[1] \in 0 .. BusCount - 1 /\ BusCount \in Nat /\ at[1] = BusCount
          BY <5>1, AddressFacts, PciFacts
        <5>3. a[1] < at[1]
          BY <5>2
        <5> QED BY <5>3 DEF Walk!Before
      <4> QED BY <3>1, <4>1 DEF Walk!SeesAllOnce, WalkSaw
    <3>2. CASE ~(wpc = "done" /\ ~stopped)
      BY <3>2 DEF Walk!SeesAllOnce, WalkSaw
    <3> QED BY <3>1, <3>2
  <2> QED BY <2>1, <2>2 DEF FindsHardware
<1> QED BY <1>1, <1>2, <1>3, PTL DEF Spec
=============================================================================
