---------------------------- MODULE NamesProofs -----------------------------
(***************************************************************************)
(* Proofs about Names: the short name that build_name_entries chooses is   *)
(* free and reads back, and a scan of a directory puts long names together *)
(* exactly, for every set of names, directories and entries.               *)
(***************************************************************************)
EXTENDS Names, TLAPS, SequenceTheorems, FiniteSetTheorems, Numbers

-----------------------------------------------------------------------------
(* Long names: the buffer of a scan.                                       *)

Buffers == [0 .. NameBuffer - 1 -> Int]
LfnStates ==
    {st \in [active : BOOLEAN, valid : BOOLEAN, sum : Int, expected : Nat,
             name : Buffers] :
        st.name[NameBuffer - 1] = 0}
IsEntry(cell) ==
    /\ cell.order \in Nat /\ cell.last \in BOOLEAN /\ cell.sum \in Int
    /\ cell.part \in [1 .. Part -> Int]

Decodable(cell) == \A i \in 1 .. Part : cell.part[i] # -2

\* The buffer holds the characters F from lo on up to hi, as far as they fit,
\* and nothing else.
Filled(buffer, lo, hi, F) ==
    \A j \in 0 .. NameBuffer - 1 :
        buffer[j] = IF lo <= j /\ j < hi /\ j + 1 < NameBuffer THEN F[j] ELSE 0

\* What the first i characters of an entry make of a buffer.
Stored(buffer, cell, stop, i) ==
    [j \in 0 .. NameBuffer - 1 |->
        IF /\ (cell.order - 1) * Part <= j
           /\ j < (cell.order - 1) * Part + i
           /\ j - (cell.order - 1) * Part + 1 < stop
           /\ j + 1 < NameBuffer
        THEN Long!decode_lfn_character(cell.part[j - (cell.order - 1) * Part + 1])
        ELSE buffer[j]]

\* Where StorePart stops.
StopsAt(cell, stop) ==
    /\ stop \in 1 .. Part + 1
    /\ stop = Part + 1 <=> Decodable(cell)

\* One more character.
LEMMA StoredNext ==
  ASSUME NEW buffer \in Buffers, NEW cell, IsEntry(cell), cell.order # 0,
         NEW stop \in 1 .. Part + 1, NEW i \in 1 .. Part
  PROVE  Stored(buffer, cell, stop, i) =
           IF i >= stop THEN Stored(buffer, cell, stop, i - 1)
           ELSE Long!lfn_store_character(Stored(buffer, cell, stop, i - 1),
                    (cell.order - 1) * Part + i - 1,
                    Long!decode_lfn_character(cell.part[i]))
<1> DEFINE o == (cell.order - 1) * Part
           s == Stored(buffer, cell, stop, i - 1)
           D(k) == Long!decode_lfn_character(cell.part[k])
<1>1. o \in Nat
  <2>1. cell.order - 1 \in Nat
    BY DEF IsEntry
  <2> QED BY <2>1, LongNameAssumption, Products
<1> HIDE DEF o, D
<1>2. \A k \in Nat : Stored(buffer, cell, stop, k) =
         [j \in 0 .. NameBuffer - 1 |->
            IF o <= j /\ j < o + k /\ j - o + 1 < stop /\ j + 1 < NameBuffer
            THEN D(j - o + 1) ELSE buffer[j]]
  BY DEF Stored, o, D
<1>3. i - 1 \in Nat /\ i \in Nat /\ NameBuffer \in Nat \ {0} /\ Part \in Nat
  BY LongNameAssumption
<1>4. DOMAIN s = 0 .. NameBuffer - 1
  BY <1>2, <1>3
<1>5. \A j \in 0 .. NameBuffer - 1 :
         s[j] = IF o <= j /\ j < o + (i - 1) /\ j - o + 1 < stop /\ j + 1 < NameBuffer
                THEN D(j - o + 1) ELSE buffer[j]
  BY <1>2, <1>3
<1> HIDE DEF s
<1>6. CASE i >= stop
  <2>1. \A j \in 0 .. NameBuffer - 1 :
           (o <= j /\ j < o + i /\ j - o + 1 < stop /\ j + 1 < NameBuffer)
           = (o <= j /\ j < o + (i - 1) /\ j - o + 1 < stop /\ j + 1 < NameBuffer)
    BY <1>1, <1>3, <1>6
  <2>2. Stored(buffer, cell, stop, i) = Stored(buffer, cell, stop, i - 1)
    BY <1>2, <1>3, <2>1
  <2> QED BY <1>6, <2>2
<1>7. CASE i < stop
  <2> DEFINE t == Long!lfn_store_character(s, o + i - 1, D(i))
  <2>1. t = [j \in 0 .. NameBuffer - 1 |->
                IF j = o + i - 1 /\ (o + i - 1) + 1 < NameBuffer THEN D(i) ELSE s[j]]
    BY <1>4 DEF Long!lfn_store_character
  <2>2. ASSUME NEW j \in 0 .. NameBuffer - 1
        PROVE  t[j] = IF o <= j /\ j < o + i /\ j - o + 1 < stop /\ j + 1 < NameBuffer
                      THEN D(j - o + 1) ELSE buffer[j]
    <3>1. CASE j = o + i - 1
      <4>1. j - o + 1 = i /\ o <= j /\ j < o + i /\ ~(j < o + (i - 1))
        BY <1>1, <1>3, <3>1
      <4> QED BY <1>5, <1>7, <2>1, <3>1, <4>1
    <3>2. CASE j # o + i - 1
      <4>1. (j < o + i) = (j < o + (i - 1))
        BY <1>1, <1>3, <3>2
      <4> QED BY <1>5, <2>1, <3>2, <4>1
    <3> QED BY <3>1, <3>2
  <2>3. t = Stored(buffer, cell, stop, i)
    <3>1. t = [j \in 0 .. NameBuffer - 1 |-> t[j]]
      BY <2>1
    <3> HIDE DEF t
    <3> QED BY <1>2, <1>3, <2>2, <3>1
  <2> QED BY <1>3, <1>7, <2>3 DEF s, o, D
<1>8. stop \in Int /\ i \in Int
  BY LongNameAssumption
<1> QED BY <1>6, <1>7, <1>8

\* What StorePart makes of a state, in one expression.
LEMMA StorePartIs ==
  ASSUME NEW st \in LfnStates, NEW cell, IsEntry(cell), cell.order # 0
  PROVE  \E stop :
            /\ StopsAt(cell, stop)
            /\ Long!StorePart(st, cell) =
                  [st EXCEPT !.name = Stored(st.name, cell, stop, Part),
                             !.valid = Decodable(cell)]
<1> DEFINE bad == {i \in 1 .. Part : cell.part[i] = -2}
           stop == IF bad = {} THEN Part + 1
                   ELSE CHOOSE i \in bad : \A j \in bad : i <= j
           S(i) == Stored(st.name, cell, stop, i)
           Store(b, i) ==
               Long!lfn_store_character(b, (cell.order - 1) * Part + i - 1,
                   Long!decode_lfn_character(cell.part[i]))
           Def(f) == [i \in 0 .. Part |->
                         IF i = 0 THEN st.name
                         ELSE IF i >= stop THEN f[i - 1]
                         ELSE Store(f[i - 1], i)]
           filled == CHOOSE f : f = Def(f)
<1>1. st.name \in Buffers /\ Part \in Nat \ {0} /\ NameBuffer \in Nat \ {0}
  BY LongNameAssumption DEF LfnStates
<1>2. StopsAt(cell, stop)
  <2>1. CASE bad = {}
    BY <1>1, <2>1 DEF StopsAt, Decodable
  <2>2. CASE bad # {}
    <3>1. bad \in SUBSET Nat
      BY <1>1
    <3>2. \E i \in bad : \A j \in bad : i <= j
      <4> HIDE DEF bad
      <4> QED BY <2>2, <3>1, LeastElement
    <3>3. stop \in bad
      <4> HIDE DEF bad
      <4> QED BY <2>2, <3>2
    <3>4. ~Decodable(cell)
      BY <2>2 DEF Decodable
    <3>5. stop \in 1 .. Part
      <4> HIDE DEF stop
      <4> QED BY <3>3
    <3> HIDE DEF stop, bad
    <3> QED BY <1>1, <3>4, <3>5 DEF StopsAt
  <2> QED BY <2>1, <2>2
<1>3. (bad = {}) = Decodable(cell)
  BY DEF Decodable
<1> HIDE DEF stop
<1>4. S(0) = st.name
  <2>1. \A j \in 0 .. NameBuffer - 1 :
           ~((cell.order - 1) * Part <= j /\ j < (cell.order - 1) * Part + 0)
    <3> DEFINE o == (cell.order - 1) * Part
    <3>1. o \in Int
      <4>1. cell.order - 1 \in Nat
        BY DEF IsEntry
      <4> QED BY <1>1, <4>1, Products
    <3> HIDE DEF o
    <3>2. \A j \in 0 .. NameBuffer - 1 : ~(o <= j /\ j < o + 0)
      BY <1>1, <3>1
    <3> QED BY <3>2 DEF o
  <2>2. S(0) = [j \in 0 .. NameBuffer - 1 |-> st.name[j]]
    BY <2>1 DEF Stored
  <2>3. st.name = [j \in 0 .. NameBuffer - 1 |-> st.name[j]]
    BY <1>1 DEF Buffers
  <2> HIDE DEF S
  <2> QED BY <2>2, <2>3
<1>5. \A i \in 1 .. Part : S(i) = IF i >= stop THEN S(i - 1) ELSE Store(S(i - 1), i)
  <2> SUFFICES ASSUME NEW i \in 1 .. Part
               PROVE  S(i) = IF i >= stop THEN S(i - 1) ELSE Store(S(i - 1), i)
    OBVIOUS
  <2>1. stop \in 1 .. Part + 1
    BY <1>2 DEF StopsAt
  <2> QED BY <1>1, <2>1, StoredNext
<1> HIDE DEF S, Store
<1>6. \E f : f = Def(f)
  <2> DEFINE f == [i \in 0 .. Part |-> S(i)]
  <2>1. \A i \in 0 .. Part :
           S(i) = IF i = 0 THEN st.name
                  ELSE IF i >= stop THEN S(i - 1) ELSE Store(S(i - 1), i)
    <3>1. \A i \in 0 .. Part : i = 0 \/ i \in 1 .. Part
      BY <1>1
    <3> QED BY <1>4, <1>5, <3>1
  <2>2. \A i \in 1 .. Part : f[i - 1] = S(i - 1)
    BY <1>1
  <2>3. \A i \in 0 .. Part : Def(f)[i] = S(i)
    <3> SUFFICES ASSUME NEW i \in 0 .. Part PROVE Def(f)[i] = S(i)
      OBVIOUS
    <3>1. i = 0 \/ (i \in 1 .. Part /\ i # 0)
      BY <1>1
    <3>2. Def(f)[i] = IF i = 0 THEN st.name
                      ELSE IF i >= stop THEN f[i - 1] ELSE Store(f[i - 1], i)
      OBVIOUS
    <3> HIDE DEF Def, f
    <3> QED BY <2>1, <2>2, <3>1, <3>2
  <2>4. Def(f) = [i \in 0 .. Part |-> Def(f)[i]]
    OBVIOUS
  <2> HIDE DEF Def
  <2>5. f = Def(f)
    BY <2>3, <2>4
  <2> QED BY <2>5
<1>7. filled = Def(filled)
  BY <1>6
<1> HIDE DEF filled
<1>8. 0 .. Part \subseteq {i \in 0 .. Part : filled[i] = S(i)}
  <2> DEFINE T == {i \in 0 .. Part : filled[i] = S(i)}
  <2>1. \A i \in 0 .. Part :
           Def(filled)[i] = IF i = 0 THEN st.name
                          ELSE IF i >= stop THEN filled[i - 1] ELSE Store(filled[i - 1], i)
    OBVIOUS
  <2> HIDE DEF Def
  <2>2. \A i \in 0 .. Part :
           filled[i] = IF i = 0 THEN st.name
                     ELSE IF i >= stop THEN filled[i - 1] ELSE Store(filled[i - 1], i)
    BY <1>7, <2>1
  <2>3. 0 \in T
    BY <1>1, <1>4, <2>2
  <2>4. ASSUME NEW i \in 0 .. Part - 1, i \in T PROVE i + 1 \in T
    <3>1. i + 1 \in 1 .. Part /\ i + 1 \in 0 .. Part /\ (i + 1) - 1 = i /\ i + 1 # 0
      BY <1>1
    <3>2. filled[i] = S(i)
      BY <2>4
    <3>3. S(i + 1) = IF i + 1 >= stop THEN S(i) ELSE Store(S(i), i + 1)
      BY <1>5, <3>1
    <3>4. filled[i + 1] = IF i + 1 >= stop THEN filled[i] ELSE Store(filled[i], i + 1)
      BY <2>2, <3>1
    <3> QED BY <3>1, <3>2, <3>3, <3>4
  <2> HIDE DEF T
  <2>5. 0 .. Part \subseteq T
    BY <1>1, <2>3, <2>4, InductUpTo
  <2> QED BY <2>5 DEF T
<1>9. filled[Part] = S(Part)
  BY <1>1, <1>8
<1>10. Long!StorePart(st, cell) = [st EXCEPT !.name = filled[Part], !.valid = bad = {}]
  BY DEF Long!StorePart, filled, Def, Store, stop, bad, Long!Undecodable
<1>11. Long!StorePart(st, cell) =
          [st EXCEPT !.name = S(Part), !.valid = Decodable(cell)]
  <2> HIDE DEF bad
  <2> QED BY <1>3, <1>9, <1>10
<1> QED BY <1>2, <1>11 DEF S

\* StorePart keeps the kind of state, and the rest of the state.
LEMMA StorePartType ==
  ASSUME NEW st \in LfnStates, NEW cell, IsEntry(cell), cell.order # 0
  PROVE  /\ Long!StorePart(st, cell) \in LfnStates
         /\ Long!StorePart(st, cell).active = st.active
         /\ Long!StorePart(st, cell).valid = Decodable(cell)
         /\ Long!StorePart(st, cell).sum = st.sum
         /\ Long!StorePart(st, cell).expected = st.expected
<1>1. PICK stop : /\ StopsAt(cell, stop)
                  /\ Long!StorePart(st, cell) =
                        [st EXCEPT !.name = Stored(st.name, cell, stop, Part),
                                   !.valid = Decodable(cell)]
  BY StorePartIs
<1> DEFINE b == Stored(st.name, cell, stop, Part)
           o == (cell.order - 1) * Part
           D(k) == Long!decode_lfn_character(cell.part[k])
<1>2. o \in Nat /\ Part \in Nat \ {0} /\ NameBuffer \in Nat \ {0} /\ stop \in 1 .. Part + 1
  <2>1. cell.order - 1 \in Nat
    BY DEF IsEntry
  <2> QED BY <1>1, <2>1, LongNameAssumption, Products DEF StopsAt
<1> HIDE DEF o
<1>3. ASSUME NEW k \in 1 .. Part PROVE D(k) \in Int
  <2>1. cell.part[k] \in Int
    BY DEF IsEntry
  <2> QED BY <2>1 DEF Long!decode_lfn_character, Long!NUL
<1> HIDE DEF D
<1>4. b = [j \in 0 .. NameBuffer - 1 |->
              IF o <= j /\ j < o + Part /\ j - o + 1 < stop /\ j + 1 < NameBuffer
              THEN D(j - o + 1) ELSE st.name[j]]
  BY DEF Stored, o, D
<1> HIDE DEF b
<1>5. \A j \in 0 .. NameBuffer - 1 : b[j] \in Int
  <2> SUFFICES ASSUME NEW j \in 0 .. NameBuffer - 1 PROVE b[j] \in Int
    OBVIOUS
  <2>1. CASE o <= j /\ j < o + Part /\ j - o + 1 < stop /\ j + 1 < NameBuffer
    <3>1. j - o + 1 \in 1 .. Part
      BY <1>2, <2>1
    <3> QED BY <1>3, <1>4, <2>1, <3>1
  <2>2. CASE ~(o <= j /\ j < o + Part /\ j - o + 1 < stop /\ j + 1 < NameBuffer)
    <3>1. b[j] = st.name[j]
      BY <1>4, <2>2
    <3> QED BY <3>1 DEF LfnStates, Buffers
  <2> QED BY <2>1, <2>2
<1>6. b \in Buffers
  <2>1. b = [j \in 0 .. NameBuffer - 1 |-> b[j]]
    BY <1>4
  <2> QED BY <1>5, <2>1 DEF Buffers
<1>7. b[NameBuffer - 1] = 0
  <2>1. NameBuffer - 1 \in 0 .. NameBuffer - 1 /\ ~((NameBuffer - 1) + 1 < NameBuffer)
    BY <1>2
  <2>2. b[NameBuffer - 1] = st.name[NameBuffer - 1]
    BY <1>4, <2>1
  <2> QED BY <2>2 DEF LfnStates
<1>8. PICK v \in BOOLEAN : v = Decodable(cell)
  BY DEF Decodable
<1>9. Long!StorePart(st, cell) = [st EXCEPT !.name = b, !.valid = v]
  BY <1>1, <1>8 DEF b
<1>10. /\ [st EXCEPT !.name = b, !.valid = v] \in LfnStates
       /\ [st EXCEPT !.name = b, !.valid = v].active = st.active
       /\ [st EXCEPT !.name = b, !.valid = v].valid = v
       /\ [st EXCEPT !.name = b, !.valid = v].sum = st.sum
       /\ [st EXCEPT !.name = b, !.valid = v].expected = st.expected
  BY <1>6, <1>7 DEF LfnStates
<1> QED BY <1>8, <1>9, <1>10

\* The part before those that are in the buffer.
LEMMA PartAdded ==
  ASSUME NEW st \in LfnStates, NEW cell, IsEntry(cell), cell.order # 0, Decodable(cell),
         NEW hi \in Nat, cell.order * Part <= hi, NEW F,
         Filled(st.name, cell.order * Part, hi, F),
         \A j \in Nat : (cell.order - 1) * Part <= j /\ j < cell.order * Part =>
             F[j] = Long!decode_lfn_character(cell.part[j - (cell.order - 1) * Part + 1])
  PROVE  Filled(Long!StorePart(st, cell).name, (cell.order - 1) * Part, hi, F)
<1>1. PICK stop : /\ StopsAt(cell, stop)
                  /\ Long!StorePart(st, cell) =
                        [st EXCEPT !.name = Stored(st.name, cell, stop, Part),
                                   !.valid = Decodable(cell)]
  BY StorePartIs
<1> DEFINE b == Stored(st.name, cell, stop, Part)
           o == (cell.order - 1) * Part
           e == cell.order * Part
           D(k) == Long!decode_lfn_character(cell.part[k])
<1>2. o \in Nat /\ e = o + Part /\ Part \in Nat \ {0} /\ NameBuffer \in Nat \ {0}
  <2>1. PICK k \in Nat : k = cell.order - 1
    BY DEF IsEntry
  <2>2. cell.order = k + 1
    BY <2>1 DEF IsEntry
  <2>3. k * Part \in Nat /\ (k + 1) * Part = k * Part + Part
    BY <2>1, LongNameAssumption, Products
  <2>4. o = k * Part /\ e = (k + 1) * Part
    BY <2>1, <2>2
  <2> QED BY <2>3, <2>4, LongNameAssumption
<1>3. stop = Part + 1
  BY <1>1 DEF StopsAt
<1>4. b = [j \in 0 .. NameBuffer - 1 |->
              IF o <= j /\ j < o + Part /\ j - o + 1 < stop /\ j + 1 < NameBuffer
              THEN D(j - o + 1) ELSE st.name[j]]
  BY DEF Stored, o, D
<1>5. Long!StorePart(st, cell).name = b
  BY <1>1 DEF LfnStates, b
<1>6. e <= hi
      /\ \A j \in Nat : o <= j /\ j < e => F[j] = D(j - o + 1)
  OBVIOUS
<1>7. \A j \in 0 .. NameBuffer - 1 :
         st.name[j] = IF e <= j /\ j < hi /\ j + 1 < NameBuffer THEN F[j] ELSE 0
  BY DEF Filled
<1> HIDE DEF b, o, e, D
<1>8. \A j \in 0 .. NameBuffer - 1 :
         b[j] = IF o <= j /\ j < hi /\ j + 1 < NameBuffer THEN F[j] ELSE 0
  <2> SUFFICES ASSUME NEW j \in 0 .. NameBuffer - 1
               PROVE  b[j] = IF o <= j /\ j < hi /\ j + 1 < NameBuffer THEN F[j] ELSE 0
    OBVIOUS
  <2>1. CASE o <= j /\ j < e
    <3>1. j < hi /\ F[j] = D(j - o + 1) /\ j < o + Part /\ j - o + 1 < stop /\ ~(e <= j)
      BY <1>2, <1>3, <1>6, <2>1
    <3> QED BY <1>4, <1>7, <2>1, <3>1
  <2>2. CASE ~(o <= j /\ j < e)
    <3>1. b[j] = st.name[j]
      BY <1>2, <1>4, <2>2
    <3>2. (e <= j) = (o <= j)
      BY <1>2, <2>2
    <3> QED BY <1>7, <3>1, <3>2
  <2> QED BY <2>1, <2>2
<1> QED BY <1>5, <1>8 DEF Filled, o

\* An empty buffer.
LEMMA BlankFilled ==
  /\ Long!Blank \in Buffers /\ \A j \in 0 .. NameBuffer - 1 : Long!Blank[j] = 0
  /\ \A h \in Nat : \A F : Filled(Long!Blank, h, h, F)
<1>1. \A j \in 0 .. NameBuffer - 1 : Long!Blank[j] = 0
  BY DEF Long!Blank, Long!NUL
<1>2. Long!Blank \in Buffers
  BY DEF Long!Blank, Long!NUL, Buffers
<1>3. ASSUME NEW h \in Nat, NEW F PROVE Filled(Long!Blank, h, h, F)
  <2>1. \A j \in 0 .. NameBuffer - 1 : ~(h <= j /\ j < h)
    BY LongNameAssumption
  <2> QED BY <1>1, <2>1 DEF Filled
<1> QED BY <1>1, <1>2, <1>3

\* lfn_state_reset.
LEMMA ResetIs ==
  ASSUME NEW st \in LfnStates
  PROVE  /\ Long!lfn_state_reset(st) \in LfnStates
         /\ ~Long!lfn_state_reset(st).active
         /\ ~Long!lfn_state_reset(st).valid
<1>1. PICK b : b = [st.name EXCEPT ![0] = 0]
  OBVIOUS
<1>2. st.name \in Buffers /\ st.name[NameBuffer - 1] = 0 /\ NameBuffer \in Nat \ {0}
  BY LongNameAssumption DEF LfnStates
<1>3. b \in Buffers
  BY <1>1, <1>2 DEF Buffers
<1>4. b[NameBuffer - 1] = 0
  BY <1>1, <1>2 DEF Buffers
<1>5. Long!lfn_state_reset(st) =
         [active |-> FALSE, valid |-> FALSE, sum |-> 0, expected |-> 0, name |-> b]
  BY <1>1 DEF Long!lfn_state_reset, Long!NUL
<1> QED BY <1>3, <1>4, <1>5 DEF LfnStates

-----------------------------------------------------------------------------
(* Long names: what the state of a scan says of the entries before it.     *)

\* The run r ends in the parts n down to k of a name, all of them decodable and
\* with one checksum.
IsTail(r, n, k, sum) ==
    /\ n \in Nat /\ k \in 1 .. n /\ n < Len(r) + k
    /\ \A i \in k .. n :
           /\ r[Len(r) + k - i].order = i
           /\ r[Len(r) + k - i].last <=> i = n
           /\ r[Len(r) + k - i].sum = sum
           /\ Decodable(r[Len(r) + k - i])

\* The characters of the parts in r, the first of which is before the place e.
Chars(r, e) ==
    [j \in Nat |->
        Long!decode_lfn_character(r[e - ((j \div Part) + 1)].part[(j % Part) + 1])]

\* The state has collected the parts of a name of n parts that r ends in.
Collected(st, r, n) ==
    /\ IsTail(r, n, st.expected, st.sum)
    /\ Filled(st.name, (st.expected - 1) * Part, n * Part,
              Chars(r, Len(r) + st.expected))

Tracks(st, r) ==
    /\ st.active /\ st.valid => \E n \in Nat : Collected(st, r, n)
    /\ \A n \in Nat, k \in Nat, s \in Int :
           IsTail(r, n, k, s) =>
               st.active /\ st.valid /\ st.expected = k /\ st.sum = s

\* The part that a character is in.
LEMMA PartOfCharacter ==
  ASSUME NEW j \in Nat, NEW k \in Nat
  PROVE  /\ j \div Part \in Nat /\ j % Part \in 0 .. Part - 1
         /\ k * Part <= j => k <= j \div Part
         /\ j < k * Part => j \div Part < k
         /\ k * Part <= j /\ j < (k + 1) * Part => j \div Part = k /\ j % Part = j - k * Part
<1> DEFINE q == j \div Part
           r == j % Part
           a == k * Part
           b == q * Part
<1>1. Part \in Nat \ {0}
  BY LongNameAssumption
<1>2. q \in Nat /\ r \in 0 .. Part - 1 /\ j = b + r
  BY <1>1, DivMod
<1> HIDE DEF q, r
<1>3. a \in Nat /\ b \in Nat /\ (k + 1) * Part = a + Part /\ (q + 1) * Part = b + Part
  BY <1>1, <1>2, Products
<1>4. q + 1 <= k => b + Part <= a
  BY <1>1, <1>2, <1>3, Products
<1>5. k <= q => a <= b
  BY <1>1, <1>2, Products
<1>6. k + 1 <= q => a + Part <= b
  BY <1>1, <1>2, <1>3, Products
<1>7. k = q => a = b
  OBVIOUS
<1> HIDE DEF a, b
<1>8. a <= j => k <= q
  BY <1>1, <1>2, <1>3, <1>4
<1>9. j < a => q < k
  BY <1>1, <1>2, <1>3, <1>5
<1>10. a <= j /\ j < a + Part => q = k /\ r = j - a
  BY <1>1, <1>2, <1>3, <1>6, <1>7, <1>8
<1> QED BY <1>2, <1>3, <1>8, <1>9, <1>10 DEF q, r, a

\* One more entry in a run.
LEMMA TailsAppend ==
  ASSUME NEW S, NEW r \in Seq(S), NEW c \in S, IsEntry(c),
         NEW n \in Nat, NEW k \in Nat, NEW s \in Int
  PROVE  /\ IsTail(Append(r, c), n, k, s) =>
               /\ 1 <= k /\ k <= n
               /\ c.order = k /\ (c.last <=> k = n) /\ c.sum = s /\ Decodable(c)
               /\ k < n => IsTail(r, n, k + 1, s)
         /\ /\ 1 <= k /\ c.order = k /\ c.sum = s /\ Decodable(c)
            /\ IF c.last THEN k = n ELSE k < n /\ IsTail(r, n, k + 1, s)
            => IsTail(Append(r, c), n, k, s)
<1> DEFINE t == Append(r, c)
           m == Len(r)
<1>1. m \in Nat /\ Len(t) = m + 1 /\ t[m + 1] = c
  BY AppendProperties
<1>2. \A i \in 1 .. m : t[i] = r[i]
  BY AppendProperties
<1> HIDE DEF t, m
<1>3. ASSUME IsTail(t, n, k, s)
      PROVE  /\ 1 <= k /\ k <= n
             /\ c.order = k /\ (c.last <=> k = n) /\ c.sum = s /\ Decodable(c)
             /\ k < n => IsTail(r, n, k + 1, s)
  <2>1. k \in 1 .. n /\ n < (m + 1) + k
    BY <1>1, <1>3 DEF IsTail
  <2>2. \A i \in k .. n :
           /\ t[(m + 1) + k - i].order = i
           /\ t[(m + 1) + k - i].last <=> i = n
           /\ t[(m + 1) + k - i].sum = s
           /\ Decodable(t[(m + 1) + k - i])
    BY <1>1, <1>3 DEF IsTail
  <2>3. k \in k .. n /\ (m + 1) + k - k = m + 1
    BY <1>1, <2>1
  <2>4. c.order = k /\ (c.last <=> k = n) /\ c.sum = s /\ Decodable(c)
    BY <1>1, <2>2, <2>3
  <2>5. ASSUME k < n PROVE IsTail(r, n, k + 1, s)
    <3>1. \A i \in k + 1 .. n :
             /\ i \in k .. n
             /\ (m + 1) + k - i = m + (k + 1) - i /\ m + (k + 1) - i \in 1 .. m
      BY <1>1, <2>1
    <3>2. \A i \in k + 1 .. n :
             /\ r[m + (k + 1) - i].order = i
             /\ r[m + (k + 1) - i].last <=> i = n
             /\ r[m + (k + 1) - i].sum = s
             /\ Decodable(r[m + (k + 1) - i])
      <4> SUFFICES ASSUME NEW i \in k + 1 .. n
                   PROVE  /\ r[m + (k + 1) - i].order = i
                          /\ r[m + (k + 1) - i].last <=> i = n
                          /\ r[m + (k + 1) - i].sum = s
                          /\ Decodable(r[m + (k + 1) - i])
        OBVIOUS
      <4>1. r[m + (k + 1) - i] = t[(m + 1) + k - i]
        BY <1>2, <3>1
      <4>2. i \in k .. n
        BY <3>1
      <4> QED BY <2>2, <4>1, <4>2
    <3>3. k + 1 \in 1 .. n /\ n < m + (k + 1)
      BY <1>1, <2>1, <2>5
    <3> QED BY <3>2, <3>3 DEF IsTail, m
  <2> QED BY <2>1, <2>4, <2>5
<1>4. ASSUME 1 <= k, c.order = k, c.sum = s, Decodable(c),
             IF c.last THEN k = n ELSE k < n /\ IsTail(r, n, k + 1, s)
      PROVE  IsTail(t, n, k, s)
  <2>1. c.last \in BOOLEAN
    BY DEF IsEntry
  <2>2. k \in 1 .. n /\ n < (m + 1) + k
    <3>1. CASE c.last
      BY <1>1, <1>4, <3>1
    <3>2. CASE ~c.last
      <4>1. n < m + (k + 1)
        BY <1>4, <3>2 DEF IsTail, m
      <4> QED BY <1>1, <1>4, <3>2, <4>1
    <3> QED BY <2>1, <3>1, <3>2
  <2>3. ASSUME NEW i \in k .. n
        PROVE  /\ t[(m + 1) + k - i].order = i
               /\ t[(m + 1) + k - i].last <=> i = n
               /\ t[(m + 1) + k - i].sum = s
               /\ Decodable(t[(m + 1) + k - i])
    <3>1. CASE i = k
      <4>1. (m + 1) + k - i = m + 1
        BY <1>1, <3>1
      <4>2. c.last <=> k = n
        BY <1>4, <2>1
      <4> QED BY <1>1, <1>4, <3>1, <4>1, <4>2
    <3>2. CASE i # k
      <4>1. ~c.last /\ k < n /\ IsTail(r, n, k + 1, s)
        BY <1>4, <2>1, <3>2
      <4>2. /\ r[m + (k + 1) - i].order = i
            /\ r[m + (k + 1) - i].last <=> i = n
            /\ r[m + (k + 1) - i].sum = s
            /\ Decodable(r[m + (k + 1) - i])
        <5>1. i \in k + 1 .. n
          BY <3>2
        <5> QED BY <4>1, <5>1 DEF IsTail, m
      <4>3. (m + 1) + k - i = m + (k + 1) - i /\ m + (k + 1) - i \in 1 .. m
        <5>1. n < m + (k + 1)
          BY <4>1 DEF IsTail, m
        <5> QED BY <1>1, <3>2, <5>1
      <4> QED BY <1>2, <4>2, <4>3
    <3> QED BY <3>1, <3>2
  <2> QED BY <1>1, <2>2, <2>3 DEF IsTail
<1> QED BY <1>3, <1>4 DEF t

\* The name that the tail of a run is of has one number of parts.
LEMMA OneName ==
  ASSUME NEW r, NEW n \in Nat, NEW o \in Nat, NEW k \in Nat, NEW s, NEW t,
         IsTail(r, n, k, s), IsTail(r, o, k, t)
  PROVE  n = o
<1>1. k \in 1 .. n /\ k \in 1 .. o
  BY DEF IsTail
<1>2. n \in k .. n /\ o \in k .. o
  BY <1>1
<1>3. r[Len(r) + k - n].last <=> n = n
  BY <1>2 DEF IsTail
<1>4. r[Len(r) + k - o].last <=> o = o
  BY <1>2 DEF IsTail
<1>5. CASE n < o
  <2>1. n \in k .. o
    BY <1>1, <1>5
  <2>2. r[Len(r) + k - n].last <=> n = o
    BY <2>1 DEF IsTail
  <2> QED BY <1>3, <1>5, <2>2
<1>6. CASE o < n
  <2>1. o \in k .. n
    BY <1>1, <1>6
  <2>2. r[Len(r) + k - o].last <=> o = n
    BY <2>1 DEF IsTail
  <2> QED BY <1>4, <1>6, <2>2
<1> QED BY <1>5, <1>6

\* An entry of a long name on the disk is one.
LEMMA DiskEntries ==
  ASSUME NEW c \in DiskCells
  PROVE  IsEntry(c) /\ \A i \in 1 .. Part : c.part[i] \in Nat \cup {-1, -2}
<1>1. /\ c.order \in 0 .. MaxOrder /\ c.last \in BOOLEAN /\ c.sum \in Int
      /\ c.part \in [1 .. Part -> Nat \cup {-1, -2}]
  BY LongNameAssumption DEF Long!Padding, Long!Undecodable
<1>2. c.part \in [1 .. Part -> Int]
  BY <1>1
<1>3. c.order \in Nat
  BY <1>1, LongNameAssumption
<1> QED BY <1>1, <1>2, <1>3 DEF IsEntry

\* Filled looks at the characters between its bounds only.
LEMMA FilledSame ==
  ASSUME NEW b, NEW lo \in Nat, NEW hi \in Nat, NEW F, NEW G, Filled(b, lo, hi, F),
         \A j \in Nat : lo <= j /\ j < hi => F[j] = G[j]
  PROVE  Filled(b, lo, hi, G)
<1>1. \A j \in 0 .. NameBuffer - 1 : j \in Nat
  OBVIOUS
<1> QED BY <1>1 DEF Filled

\* The characters F have those of the entry c at its place k, and beyond it, up to
\* the place e, those of G.
AddsPart(F, G, c, k, e) ==
    /\ \A j \in Nat : (k - 1) * Part <= j /\ j < k * Part =>
          F[j] = Long!decode_lfn_character(c.part[j - (k - 1) * Part + 1])
    /\ \A n \in Nat, j \in Nat :
          n < e /\ k * Part <= j /\ j < n * Part => F[j] = G[j]

\* The characters of a run with one more entry.
LEMMA CharsAppend ==
  ASSUME NEW S, NEW r \in Seq(S), NEW c \in S, NEW k \in Nat, 1 <= k,
         NEW e, e = Len(r) + k + 1
  PROVE  AddsPart(Chars(Append(r, c), e), Chars(r, e), c, k, e)
<1> DEFINE t == Append(r, c)
           m == Len(r)
<1>1. m \in Nat /\ t[m + 1] = c /\ e = m + k + 1
  BY AppendProperties
<1>2. \A i \in 1 .. m : t[i] = r[i]
  BY AppendProperties
<1> HIDE DEF t, m
<1>3. ASSUME NEW j \in Nat, (k - 1) * Part <= j, j < k * Part
      PROVE  Chars(t, e)[j] = Long!decode_lfn_character(c.part[j - (k - 1) * Part + 1])
  <2>1. PICK p \in Nat : p = k - 1 /\ p + 1 = k
    OBVIOUS
  <2>2. p * Part <= j /\ j < (p + 1) * Part
    BY <1>3, <2>1
  <2>3. j \div Part = p /\ j % Part = j - p * Part
    BY <2>2, PartOfCharacter
  <2>4. e - ((j \div Part) + 1) = m + 1
    BY <1>1, <2>1, <2>3
  <2>5. (j % Part) + 1 = j - (k - 1) * Part + 1
    BY <2>1, <2>3
  <2>6. Chars(t, e)[j]
           = Long!decode_lfn_character(t[e - ((j \div Part) + 1)].part[(j % Part) + 1])
    BY DEF Chars
  <2> QED BY <1>1, <2>4, <2>5, <2>6
<1>4. ASSUME NEW n \in Nat, NEW j \in Nat, n < e, k * Part <= j, j < n * Part
      PROVE  Chars(t, e)[j] = Chars(r, e)[j]
  <2>1. PICK q \in Nat : q = j \div Part /\ k <= q /\ q < n
    BY <1>4, PartOfCharacter
  <2>2. e - (q + 1) \in 1 .. m
    BY <1>1, <1>4, <2>1
  <2>3. t[e - (q + 1)] = r[e - (q + 1)]
    BY <1>2, <2>2
  <2> QED BY <2>1, <2>3 DEF Chars
<1> QED BY <1>3, <1>4 DEF t, AddsPart

\* The state after an entry of a long name.
LEMMA TracksStep ==
  ASSUME NEW st \in LfnStates, NEW r \in Seq(DiskCells), Tracks(st, r), NEW c \in DiskCells
  PROVE  /\ Long!process_lfn_entry(st, c) \in LfnStates
         /\ Tracks(Long!process_lfn_entry(st, c), Append(r, c))
<1> DEFINE t == Append(r, c)
           new == Long!process_lfn_entry(st, c)
<1>1. IsEntry(c) /\ c.order \in Nat /\ c.last \in BOOLEAN /\ c.sum \in Int
  BY DiskEntries DEF IsEntry
<1>2. t \in Seq(DiskCells) /\ Len(t) = Len(r) + 1 /\ Len(r) \in Nat
  BY AppendProperties
<1>3. \A n \in Nat, k \in Nat, s \in Int :
         /\ IsTail(t, n, k, s) =>
               /\ 1 <= k /\ k <= n
               /\ c.order = k /\ (c.last <=> k = n) /\ c.sum = s /\ Decodable(c)
               /\ k < n => IsTail(r, n, k + 1, s)
         /\ /\ 1 <= k /\ c.order = k /\ c.sum = s /\ Decodable(c)
            /\ IF c.last THEN k = n ELSE k < n /\ IsTail(r, n, k + 1, s)
            => IsTail(t, n, k, s)
  BY <1>1, TailsAppend
<1>4. \A n \in Nat, k \in Nat, s \in Int :
         IsTail(r, n, k, s) => st.active /\ st.valid /\ st.expected = k /\ st.sum = s
  BY DEF Tracks
<1>5. ASSUME new = Long!lfn_state_reset(st),
             \A n \in Nat, k \in Nat, s \in Int : ~IsTail(t, n, k, s)
      PROVE  new \in LfnStates /\ Tracks(new, t)
  <2> HIDE DEF new, t
  <2>1. Long!lfn_state_reset(st) \in LfnStates /\ ~Long!lfn_state_reset(st).active
    BY ResetIs
  <2> QED BY <1>5, <2>1 DEF Tracks
<1>6. CASE c.last /\ c.order = 0
  <2>1. new = Long!lfn_state_reset(st)
    BY <1>6 DEF Long!process_lfn_entry
  <2>2. \A n \in Nat, k \in Nat, s \in Int : ~IsTail(t, n, k, s)
    <3> HIDE DEF t
    <3> QED BY <1>3, <1>6
  <2> HIDE DEF new, t
  <2> QED BY <1>5, <2>1, <2>2 DEF new, t
<1>7. CASE c.last /\ c.order # 0
  <2> DEFINE n == c.order
             F == Chars(t, Len(t) + n)
  <2>1. PICK s0 : s0 = Long!Start(c)
    OBVIOUS
  <2>2. /\ s0 \in LfnStates
        /\ s0.active /\ s0.sum = c.sum /\ s0.expected = c.order /\ s0.name = Long!Blank
    <3>1. Long!Blank \in Buffers /\ Long!Blank[NameBuffer - 1] = 0
      <4>1. NameBuffer - 1 \in 0 .. NameBuffer - 1
        BY LongNameAssumption
      <4> QED BY <4>1, BlankFilled
    <3>2. s0 = [active |-> TRUE, valid |-> TRUE, sum |-> c.sum, expected |-> c.order,
                name |-> Long!Blank]
      BY <2>1 DEF Long!Start
    <3> QED BY <1>1, <3>1, <3>2 DEF LfnStates
  <2>3. new = Long!StorePart(s0, c)
    BY <1>7, <2>1 DEF Long!process_lfn_entry
  <2>4. /\ new \in LfnStates
        /\ new.active /\ new.valid = Decodable(c) /\ new.sum = c.sum /\ new.expected = n
    <3> HIDE DEF new
    <3> QED BY <1>1, <1>7, <2>2, <2>3, StorePartType
  <2> HIDE DEF new, t
  <2>5. ASSUME Decodable(c) PROVE Collected(new, t, n)
    <3>1. IsTail(t, n, n, c.sum)
      BY <1>1, <1>3, <1>7, <2>5
    <3>2. n * Part \in Nat
      BY <1>1, LongNameAssumption, Products
    <3>3. Filled(s0.name, n * Part, n * Part, F)
      BY <2>2, <3>2, BlankFilled
    <3>4. \A j \in Nat : (n - 1) * Part <= j /\ j < n * Part =>
             F[j] = Long!decode_lfn_character(c.part[j - (n - 1) * Part + 1])
      <4>1. 1 <= n /\ Len(t) + n = Len(r) + n + 1 /\ n \in Nat
        BY <1>1, <1>2, <1>7
      <4> HIDE DEF n
      <4>2. PICK e : e = Len(t) + n /\ e = Len(r) + n + 1
        BY <4>1
      <4>3. AddsPart(Chars(Append(r, c), e), Chars(r, e), c, n, e)
        BY <4>1, <4>2, CharsAppend
      <4> QED BY <4>2, <4>3 DEF t, AddsPart
    <3>5. Filled(new.name, (n - 1) * Part, n * Part, F)
      <4>1. n * Part <= n * Part
        BY <3>2
      <4>2. c.order # 0
        BY <1>7
      <4> HIDE DEF F
      <4> QED BY <1>1, <2>2, <2>3, <2>5, <3>2, <3>3, <3>4, <4>1, <4>2, PartAdded
    <3> QED BY <2>4, <3>1, <3>5 DEF Collected
  <2>6. ASSUME NEW m \in Nat, NEW k \in Nat, NEW s \in Int, IsTail(t, m, k, s)
        PROVE  new.active /\ new.valid /\ new.expected = k /\ new.sum = s
    BY <1>3, <2>4, <2>6
  <2>7. Tracks(new, t)
    <3> HIDE DEF F
    <3> QED BY <1>1, <2>4, <2>5, <2>6 DEF Tracks
  <2> QED BY <2>4, <2>7 DEF new, t
<1>8. CASE ~c.last /\ Long!Continues(st, c)
  <2> DEFINE k == c.order
  <2>1. /\ st.active /\ st.valid /\ c.sum = st.sum /\ k # 0 /\ k = st.expected - 1
        /\ st.expected \in Nat /\ st.expected = k + 1 /\ k \in Nat /\ 1 <= k
    BY <1>1, <1>8 DEF Long!Continues, LfnStates
  <2>2. PICK s0 : s0 = [st EXCEPT !.expected = c.order]
    OBVIOUS
  <2>3. /\ s0 \in LfnStates
        /\ s0.active /\ s0.sum = c.sum /\ s0.expected = c.order /\ s0.name = st.name
    BY <1>1, <2>1, <2>2 DEF LfnStates
  <2>4. new = Long!StorePart(s0, c)
    BY <1>8, <2>2 DEF Long!process_lfn_entry
  <2>5. /\ new \in LfnStates
        /\ new.active /\ new.valid = Decodable(c) /\ new.sum = c.sum /\ new.expected = k
    <3> HIDE DEF new
    <3> QED BY <1>1, <2>1, <2>3, <2>4, StorePartType
  <2> HIDE DEF new, t
  <2>6. PICK n \in Nat : Collected(st, r, n)
    BY <2>1 DEF Tracks
  <2> DEFINE F == Chars(t, Len(t) + k)
  <2>7. ASSUME Decodable(c) PROVE Collected(new, t, n)
    <3>1. IsTail(r, n, k + 1, c.sum) /\ k + 1 <= n /\ n < Len(r) + k + 1
      BY <2>1, <2>6 DEF Collected, IsTail
    <3>2. IsTail(t, n, k, c.sum)
      <4>1. k < n
        BY <2>1, <3>1
      <4> QED BY <1>1, <1>3, <1>8, <2>1, <2>7, <3>1, <4>1
    <3>3. n * Part \in Nat /\ k * Part \in Nat /\ k * Part <= n * Part
      <4>1. k <= n
        BY <2>1, <3>1
      <4> HIDE DEF k
      <4> QED BY <2>1, <4>1, LongNameAssumption, Products
    <3>4. PICK e : e = Len(t) + k /\ e = Len(r) + k + 1
      BY <1>2, <2>1
    <3>5. Filled(st.name, k * Part, n * Part, Chars(r, e))
      <4> HIDE DEF k
      <4>1. k \in Nat /\ Len(r) \in Nat /\ e = Len(r) + k + 1
        BY <1>2, <2>1, <3>4
      <4>2. (k + 1) - 1 = k /\ Len(r) + (k + 1) = e
        BY <4>1
      <4> QED BY <2>1, <2>6, <4>2 DEF Collected
    <3>6. /\ \A j \in Nat : (k - 1) * Part <= j /\ j < k * Part =>
                F[j] = Long!decode_lfn_character(c.part[j - (k - 1) * Part + 1])
          /\ \A j \in Nat : k * Part <= j /\ j < n * Part => F[j] = Chars(r, e)[j]
      <4> HIDE DEF k
      <4>0. k \in Nat /\ Len(r) \in Nat /\ e = Len(r) + k + 1 /\ n < Len(r) + k + 1
        BY <1>2, <2>1, <3>1, <3>4
      <4>1. n < e
        BY <4>0
      <4>2. F = Chars(Append(r, c), e)
        BY <3>4 DEF t
      <4>3. AddsPart(Chars(Append(r, c), e), Chars(r, e), c, k, e)
        <5>1. 1 <= k /\ k \in Nat /\ e = Len(r) + k + 1 /\ r \in Seq(DiskCells) /\ c \in DiskCells
          BY <2>1, <4>0
        <5> HIDE DEF t, new
        <5> QED BY ONLY <5>1, CharsAppend
      <4> HIDE DEF F
      <4> QED BY <4>1, <4>2, <4>3 DEF AddsPart
    <3>7. Filled(s0.name, k * Part, n * Part, F)
      <4> HIDE DEF k, F
      <4> QED BY <2>3, <3>3, <3>5, <3>6, FilledSame
    <3>8. Filled(new.name, (k - 1) * Part, n * Part, F)
      <4>1. c.order # 0
        BY <2>1
      <4> HIDE DEF F
      <4> QED BY <1>1, <2>3, <2>4, <2>7, <3>3, <3>6, <3>7, <4>1, PartAdded
    <3> QED BY <2>5, <3>2, <3>8 DEF Collected
  <2>8. ASSUME NEW m \in Nat, NEW i \in Nat, NEW s \in Int, IsTail(t, m, i, s)
        PROVE  new.active /\ new.valid /\ new.expected = i /\ new.sum = s
    BY <1>3, <2>5, <2>8
  <2>9. Tracks(new, t)
    <3> HIDE DEF F
    <3> QED BY <1>1, <2>5, <2>7, <2>8 DEF Tracks
  <2> QED BY <2>5, <2>9 DEF new, t
<1>9. CASE ~c.last /\ ~Long!Continues(st, c)
  <2>1. new = Long!lfn_state_reset(st)
    BY <1>9 DEF Long!process_lfn_entry
  <2>2. ASSUME NEW n \in Nat, NEW k \in Nat, NEW s \in Int, IsTail(t, n, k, s)
        PROVE  FALSE
    <3> HIDE DEF t
    <3>1. 1 <= k /\ k < n /\ c.order = k /\ c.sum = s /\ IsTail(r, n, k + 1, s)
      BY <1>3, <1>9, <2>2
    <3>2. k + 1 \in Nat
      OBVIOUS
    <3>3. st.active /\ st.valid /\ st.expected = k + 1 /\ st.sum = s
      BY <1>4, <3>1, <3>2
    <3>4. c.order = st.expected - 1 /\ c.order # 0
      BY <3>1, <3>3
    <3> QED BY <1>9, <3>1, <3>3, <3>4 DEF Long!Continues
  <2> HIDE DEF new, t
  <2> QED BY <1>5, <2>1, <2>2 DEF new, t
<1> QED BY <1>1, <1>6, <1>7, <1>8, <1>9

\* The string in a buffer is what is before its first terminator.
LEMMA TextIs ==
  ASSUME NEW b \in Buffers, NEW k \in 0 .. NameBuffer - 1, b[k] = 0,
         \A j \in 0 .. k - 1 : b[j] # 0
  PROVE  Long!Text(b) = [i \in 1 .. k |-> b[i - 1]]
<1> DEFINE Q(n) == b[n] = 0 /\ \A j \in 0 .. n - 1 : b[j] # 0
           n == CHOOSE i \in DOMAIN b : Q(i)
<1>1. DOMAIN b = 0 .. NameBuffer - 1
  BY DEF Buffers
<1>2. Q(k)
  OBVIOUS
<1> HIDE DEF Q
<1>3. n \in 0 .. NameBuffer - 1 /\ Q(n)
  <2>1. k \in DOMAIN b
    BY <1>1
  <2>2. n \in DOMAIN b /\ Q(n)
    BY <1>2, <2>1
  <2> HIDE DEF n
  <2> QED BY <1>1, <2>2
<1> HIDE DEF n
<1>4. n = k
  <2>1. n \in Int /\ k \in Int /\ 0 <= n /\ 0 <= k
    BY <1>3, LongNameAssumption
  <2>2. CASE n < k
    <3>1. n \in 0 .. k - 1
      BY <2>1, <2>2
    <3> QED BY <1>2, <1>3, <3>1 DEF Q
  <2>3. CASE k < n
    <3>1. k \in 0 .. n - 1
      BY <2>1, <2>3
    <3> QED BY <1>2, <1>3, <3>1 DEF Q
  <2> QED BY <2>1, <2>2, <2>3
<1>5. Long!Text(b) = [i \in 1 .. n |-> b[i - 1]]
  BY DEF Long!Text, Long!NUL, n, Q
<1> QED BY <1>4, <1>5

\* A buffer has a first terminator.
LEMMA FirstNul ==
  ASSUME NEW b \in Buffers, b[NameBuffer - 1] = 0
  PROVE  \E k \in 0 .. NameBuffer - 1 : b[k] = 0 /\ \A j \in 0 .. k - 1 : b[j] # 0
<1> DEFINE T == {j \in 0 .. NameBuffer - 1 : b[j] = 0}
<1>1. NameBuffer - 1 \in T /\ T \in SUBSET Nat
  BY LongNameAssumption
<1>2. PICK k \in T : \A y \in T : k <= y
  <2> HIDE DEF T
  <2>1. T # {}
    BY <1>1
  <2> QED BY <1>1, <2>1, LeastElement
<1>3. \A j \in 0 .. k - 1 : b[j] # 0
  <2> SUFFICES ASSUME NEW j \in 0 .. k - 1, b[j] = 0 PROVE FALSE
    OBVIOUS
  <2>1. j \in 0 .. NameBuffer - 1 /\ j < k
    BY <1>1
  <2>2. j \in T
    BY <2>1
  <2>3. k <= j
    BY <1>2, <2>2
  <2> QED BY <2>1, <2>3
<1> QED BY <1>2, <1>3

\* The text of a whole name is the string that the scan has put together.
LEMMA WholeTextIs ==
  ASSUME run \in Seq(DiskCells), NEW n \in Nat, NEW s, IsTail(run, n, 1, s),
         NEW b \in Buffers, b[NameBuffer - 1] = 0,
         Filled(b, 0, n * Part, Chars(run, Len(run) + 1))
  PROVE  /\ Long!WholeText(n) = Long!Text(b)
         /\ Long!WholeText(n) # <<>> <=> b[0] # 0
<1> DEFINE char(i) ==
               Long!PartOf(((i - 1) \div Part) + 1).part[((i - 1) % Part) + 1]
           N == n * Part
           W(k) == /\ k < NameBuffer
                   /\ \A i \in 1 .. k : char(i) > 0
                   /\ \/ k = NameBuffer - 1
                      \/ k = N
                      \/ char(k + 1) \in {0, -1}
           size == CHOOSE k \in 0 .. N : W(k)
<1>1. /\ Part \in Nat \ {0} /\ NameBuffer \in Nat \ {0} /\ N \in Nat /\ Len(run) \in Nat
      /\ n < Len(run) + 1 /\ 1 <= n
  BY LongNameAssumption, Products DEF IsTail
<1>2. \A j \in 0 .. N - 1 :
         /\ char(j + 1) \in Nat \cup {-1}
         /\ Chars(run, Len(run) + 1)[j] = IF char(j + 1) = -1 THEN 0 ELSE char(j + 1)
  <2> SUFFICES ASSUME NEW j \in 0 .. N - 1
               PROVE  /\ char(j + 1) \in Nat \cup {-1}
                      /\ Chars(run, Len(run) + 1)[j]
                            = IF char(j + 1) = -1 THEN 0 ELSE char(j + 1)
    OBVIOUS
  <2>1. j \in Nat /\ j < n * Part
    BY <1>1
  <2>2. PICK q \in Nat : q = j \div Part /\ q < n
    BY <2>1, PartOfCharacter
  <2>3. PICK x \in 0 .. Part - 1 : x = j % Part
    BY <2>1, PartOfCharacter
  <2>4. (j + 1) - 1 = j
    BY <2>1
  <2>5. PICK c : c = run[Len(run) - q]
    OBVIOUS
  <2>6. Len(run) - (q + 1) + 1 = Len(run) - q /\ (Len(run) + 1) - (q + 1) = Len(run) - q
        /\ Len(run) - q \in 1 .. Len(run) /\ x + 1 \in 1 .. Part
        /\ q + 1 \in 1 .. n /\ Len(run) + 1 - (q + 1) = Len(run) - q
    BY <1>1, <2>2
  <2>7. Long!PartOf(q + 1) = c
    BY <2>5, <2>6 DEF Long!PartOf
  <2>8. char(j + 1) = c.part[x + 1]
    BY <2>2, <2>3, <2>4, <2>7
  <2>9. c \in DiskCells
    BY <2>5, <2>6
  <2>10. Decodable(c)
    <3>1. Decodable(run[Len(run) + 1 - (q + 1)])
      BY <2>6 DEF IsTail
    <3> QED BY <2>5, <2>6, <3>1
  <2>11. c.part[x + 1] \in Nat \cup {-1}
    <3>1. c.part[x + 1] \in Nat \cup {-1, -2}
      BY <2>6, <2>9, DiskEntries
    <3>2. c.part[x + 1] # -2
      BY <2>6, <2>10 DEF Decodable
    <3> QED BY <3>1, <3>2
  <2>12. Chars(run, Len(run) + 1)[j] = Long!decode_lfn_character(c.part[x + 1])
    <3>1. Chars(run, Len(run) + 1)[j] =
             Long!decode_lfn_character(run[(Len(run) + 1) - (q + 1)].part[x + 1])
      BY <2>1, <2>2, <2>3 DEF Chars
    <3> QED BY <2>5, <2>6, <3>1
  <2> HIDE DEF char
  <2> QED BY <2>8, <2>11, <2>12
       DEF Long!decode_lfn_character, Long!Padding, Long!NUL
<1> HIDE DEF char, N
<1>3. \A j \in 0 .. NameBuffer - 1 :
         b[j] = IF j < N /\ j + 1 < NameBuffer
                THEN (IF char(j + 1) = -1 THEN 0 ELSE char(j + 1)) ELSE 0
  <2> SUFFICES ASSUME NEW j \in 0 .. NameBuffer - 1
               PROVE  b[j] = IF j < N /\ j + 1 < NameBuffer
                             THEN (IF char(j + 1) = -1 THEN 0 ELSE char(j + 1)) ELSE 0
    OBVIOUS
  <2>1. b[j] = IF 0 <= j /\ j < N /\ j + 1 < NameBuffer
               THEN Chars(run, Len(run) + 1)[j] ELSE 0
    BY DEF Filled, N
  <2>2. j < N => j \in 0 .. N - 1
    BY <1>1
  <2> QED BY <1>1, <1>2, <2>1, <2>2
<1>4. PICK k \in 0 .. NameBuffer - 1 : b[k] = 0 /\ \A j \in 0 .. k - 1 : b[j] # 0
  BY FirstNul
<1>5. Long!Text(b) = [i \in 1 .. k |-> b[i - 1]]
  BY <1>4, TextIs
<1>6. k <= N
  <2> SUFFICES ASSUME N < k PROVE FALSE
    BY <1>1
  <2>1. N \in 0 .. k - 1 /\ N \in 0 .. NameBuffer - 1
    BY <1>1
  <2>2. b[N] = 0
    BY <1>1, <1>3, <2>1
  <2> QED BY <1>4, <2>1, <2>2
<1>7. ASSUME NEW i \in 1 .. k PROVE char(i) > 0 /\ char(i) = b[i - 1]
  <2>1. i - 1 \in 0 .. k - 1 /\ i - 1 \in 0 .. NameBuffer - 1 /\ (i - 1) + 1 = i
        /\ i - 1 \in 0 .. N - 1 /\ i - 1 < N /\ i < NameBuffer
    BY <1>1, <1>6
  <2>2. b[i - 1] # 0
    BY <1>4, <2>1
  <2>3. char(i) \in Nat \cup {-1}
    BY <1>2, <2>1
  <2>4. b[i - 1] = IF char(i) = -1 THEN 0 ELSE char(i)
    BY <1>3, <2>1
  <2> QED BY <2>2, <2>3, <2>4
<1>8. W(k)
  <2>1. k < NameBuffer /\ \A i \in 1 .. k : char(i) > 0
    BY <1>1, <1>7
  <2>2. ASSUME k # NameBuffer - 1, k # N PROVE char(k + 1) \in {0, -1}
    <3>1. k < N /\ k + 1 < NameBuffer /\ k \in 0 .. N - 1
      BY <1>1, <1>6, <2>2
    <3>2. b[k] = IF char(k + 1) = -1 THEN 0 ELSE char(k + 1)
      BY <1>3, <3>1
    <3> QED BY <1>4, <3>2
  <2> QED BY <2>1, <2>2
<1>9. ASSUME NEW l \in 0 .. N, W(l) PROVE l = k
  <2>1. l \in Nat /\ k \in Nat
    BY <1>1
  <2>2. CASE l < k
    <3>1. l + 1 \in 1 .. k /\ l # NameBuffer - 1 /\ l # N
      BY <1>1, <1>6, <2>1, <2>2
    <3>2. char(l + 1) \in {0, -1} /\ char(l + 1) > 0
      BY <1>7, <1>9, <3>1
    <3> QED BY <3>2
  <2>3. CASE k < l
    <3>1. k + 1 \in 1 .. l /\ k # NameBuffer - 1 /\ k # N
      BY <1>1, <1>9, <2>1, <2>3
    <3>2. char(k + 1) \in {0, -1} /\ char(k + 1) > 0
      BY <1>8, <1>9, <3>1
    <3> QED BY <3>2
  <2> QED BY <2>1, <2>2, <2>3
<1> HIDE DEF W
<1>10. size = k
  <2>1. k \in 0 .. N
    BY <1>1, <1>6
  <2>2. size \in 0 .. N /\ W(size)
    BY <1>8, <2>1
  <2> HIDE DEF size
  <2> QED BY <1>9, <2>2
<1> HIDE DEF size
<1>11. Long!WholeText(n) = [i \in 1 .. size |-> char(i)]
  BY DEF Long!WholeText, Long!NUL, Long!Padding, size, W, char, N
<1>12. Long!WholeText(n) = Long!Text(b)
  BY <1>5, <1>7, <1>10, <1>11
<1>13. Long!WholeText(n) # <<>> <=> b[0] # 0
  <2>1. [i \in 1 .. k |-> b[i - 1]] # <<>> <=> k # 0
    <3>1. CASE k = 0
      BY <3>1
    <3>2. CASE k # 0
      <4>1. 1 \in 1 .. k /\ DOMAIN [i \in 1 .. k |-> b[i - 1]] = 1 .. k
        BY <3>2
      <4>2. DOMAIN <<>> = {}
        OBVIOUS
      <4> QED BY <3>2, <4>1, <4>2
    <3> QED BY <3>1, <3>2
  <2>2. k # 0 <=> b[0] # 0
    <3>1. k # 0 => 0 \in 0 .. k - 1
      OBVIOUS
    <3> QED BY <1>4, <3>1
  <2> QED BY <1>5, <1>12, <2>1, <2>2
<1> QED BY <1>12, <1>13

\* A scan shows long names exactly if they are whole.
LEMMA DecodesRight ==
  ASSUME run \in Seq(DiskCells), lfn \in LfnStates, Tracks(lfn, run)
  PROVE  Long!DecodesWholeNames
<1> SUFFICES ASSUME NEW s \in Shorts
             PROVE  LET whole == {n \in 1 .. Len(run) :
                                     Long!WholeName(n, s) /\ Long!WholeText(n) # <<>>}
                    IN  Long!decode_directory_entry_name(lfn, s) =
                            IF whole = {} THEN [long |-> FALSE, text |-> <<s>>]
                            ELSE [long |-> TRUE,
                                  text |-> Long!WholeText(CHOOSE n \in whole : TRUE)]
  BY DEF Long!DecodesWholeNames
<1> DEFINE whole == {n \in 1 .. Len(run) : Long!WholeName(n, s) /\ Long!WholeText(n) # <<>>}
           shown == /\ lfn.active /\ lfn.valid /\ lfn.expected = 1
                    /\ lfn.sum = Checksum[s] /\ lfn.name[0] # 0
<1>1. Checksum[s] \in Int /\ Len(run) \in Nat
  BY LongNameAssumption
<1>2. lfn.name \in Buffers /\ lfn.name[NameBuffer - 1] = 0
  BY DEF LfnStates
<1>3. ASSUME NEW n \in Nat PROVE n \in 1 .. Len(run) /\ Long!WholeName(n, s)
                                 <=> IsTail(run, n, 1, Checksum[s])
  <2>1. \A i \in 1 .. n : Len(run) - i + 1 = Len(run) + 1 - i
    BY <1>1
  <2>2. Long!WholeName(n, s) <=>
           \A i \in 1 .. n :
               /\ run[Len(run) + 1 - i].order = i
               /\ run[Len(run) + 1 - i].last <=> i = n
               /\ run[Len(run) + 1 - i].sum = Checksum[s]
               /\ Decodable(run[Len(run) + 1 - i])
    BY <2>1 DEF Long!WholeName, Long!PartOf, Decodable, Long!Undecodable
  <2>3. n \in 1 .. Len(run) <=> 1 \in 1 .. n /\ n < Len(run) + 1
    BY <1>1
  <2> QED BY <2>2, <2>3 DEF IsTail
<1>4. ASSUME lfn.active, lfn.valid, lfn.expected = 1, lfn.sum = Checksum[s]
      PROVE  \E n \in Nat : /\ IsTail(run, n, 1, Checksum[s])
                            /\ Long!WholeText(n) = Long!Text(lfn.name)
                            /\ Long!WholeText(n) # <<>> <=> lfn.name[0] # 0
  <2>1. PICK n \in Nat : Collected(lfn, run, n)
    BY <1>4 DEF Tracks
  <2>2. IsTail(run, n, 1, Checksum[s])
    BY <1>4, <2>1 DEF Collected
  <2>3. Filled(lfn.name, (1 - 1) * Part, n * Part, Chars(run, Len(run) + 1))
    BY <1>4, <2>1 DEF Collected
  <2>4. (1 - 1) * Part = 0
    BY LongNameAssumption
  <2>5. Filled(lfn.name, 0, n * Part, Chars(run, Len(run) + 1))
    BY <2>3, <2>4
  <2>6. /\ Long!WholeText(n) = Long!Text(lfn.name)
        /\ Long!WholeText(n) # <<>> <=> lfn.name[0] # 0
    BY <1>2, <2>2, <2>5, WholeTextIs
  <2> QED BY <2>2, <2>6
<1>5. Long!decode_directory_entry_name(lfn, s) =
         IF shown THEN [long |-> TRUE, text |-> Long!Text(lfn.name)]
         ELSE [long |-> FALSE, text |-> <<s>>]
  BY DEF Long!decode_directory_entry_name, Long!NUL
<1> HIDE DEF whole
<1>6. CASE shown
  <2>1. PICK n \in Nat : /\ IsTail(run, n, 1, Checksum[s])
                         /\ Long!WholeText(n) = Long!Text(lfn.name)
                         /\ Long!WholeText(n) # <<>> <=> lfn.name[0] # 0
    BY <1>4, <1>6
  <2>2. n \in whole
    BY <1>3, <1>6, <2>1 DEF whole
  <2>3. \A m \in whole : m = n
    <3> SUFFICES ASSUME NEW m \in whole PROVE m = n
      OBVIOUS
    <3>1. m \in Nat /\ m \in 1 .. Len(run) /\ Long!WholeName(m, s)
      BY DEF whole
    <3>2. IsTail(run, m, 1, Checksum[s])
      BY <1>3, <3>1
    <3> QED BY <2>1, <3>1, <3>2, OneName
  <2>4. (CHOOSE m \in whole : TRUE) = n
    BY <2>2, <2>3
  <2> QED BY <1>5, <1>6, <2>1, <2>2, <2>4 DEF whole
<1>7. CASE ~shown
  <2>1. ASSUME NEW m \in whole PROVE FALSE
    <3>1. m \in Nat /\ m \in 1 .. Len(run) /\ Long!WholeName(m, s) /\ Long!WholeText(m) # <<>>
      BY DEF whole
    <3>2. IsTail(run, m, 1, Checksum[s])
      BY <1>3, <3>1
    <3>3. lfn.active /\ lfn.valid /\ lfn.expected = 1 /\ lfn.sum = Checksum[s]
      BY <1>1, <3>1, <3>2 DEF Tracks
    <3>4. PICK n \in Nat : /\ IsTail(run, n, 1, Checksum[s])
                           /\ Long!WholeText(n) = Long!Text(lfn.name)
                           /\ Long!WholeText(n) # <<>> <=> lfn.name[0] # 0
      BY <1>4, <3>3
    <3>5. m = n
      BY <3>1, <3>2, <3>4, OneName
    <3> QED BY <1>7, <3>1, <3>3, <3>4, <3>5
  <2>2. whole = {}
    BY <2>1
  <2> QED BY <1>5, <1>7, <2>2 DEF whole
<1> QED BY <1>6, <1>7

-----------------------------------------------------------------------------
(* Long names: what is written reads back.                                 *)

\* process_lfn_entry keeps the kind of state.
LEMMA ProcessType ==
  ASSUME NEW st \in LfnStates, NEW c, IsEntry(c)
  PROVE  Long!process_lfn_entry(st, c) \in LfnStates
<1>1. c.order \in Nat /\ c.sum \in Int /\ c.last \in BOOLEAN
  BY DEF IsEntry
<1>2. Long!lfn_state_reset(st) \in LfnStates
  BY ResetIs
<1>3. ASSUME c.order # 0 PROVE Long!StorePart(Long!Start(c), c) \in LfnStates
  <2>1. PICK s0 : s0 = Long!Start(c)
    OBVIOUS
  <2>2. Long!Blank \in Buffers /\ Long!Blank[NameBuffer - 1] = 0
    <3>1. NameBuffer - 1 \in 0 .. NameBuffer - 1
      BY LongNameAssumption
    <3> QED BY <3>1, BlankFilled
  <2>3. s0 \in LfnStates
    BY <1>1, <2>1, <2>2 DEF Long!Start, LfnStates
  <2> QED BY <1>3, <2>1, <2>3, StorePartType
<1>4. ASSUME c.order # 0
      PROVE  Long!StorePart([st EXCEPT !.expected = c.order], c) \in LfnStates
  <2>1. PICK s0 : s0 = [st EXCEPT !.expected = c.order]
    OBVIOUS
  <2>2. s0 \in LfnStates
    BY <1>1, <2>1 DEF LfnStates
  <2> QED BY <1>4, <2>1, <2>2, StorePartType
<1>5. Long!Continues(st, c) => c.order # 0
  BY DEF Long!Continues
<1> QED BY <1>2, <1>3, <1>4, <1>5 DEF Long!process_lfn_entry

\* The characters of a name, and terminators behind them.
Spelt(n) == [j \in Nat |-> IF j < Len(n) THEN n[j + 1] ELSE 0]

\* The number of entries of a name.
LEMMA EntryCount ==
  ASSUME NEW n \in LongNames
  PROVE  /\ Len(n) \in 1 .. NameBuffer - 1 /\ n \in Seq(Nat \ {0})
         /\ Long!lfn_entry_count_for_name(n) \in Nat \ {0}
         /\ Len(n) <= Long!lfn_entry_count_for_name(n) * Part
<1> DEFINE x == Len(n) + Part - 1
           q == x \div Part
           a == q * Part
<1>1. Len(n) \in 1 .. NameBuffer - 1 /\ n \in Seq(Nat \ {0}) /\ Part \in Nat \ {0}
      /\ NameBuffer \in Nat
  BY LongNameAssumption
<1>2. x \in Nat
  BY <1>1
<1>3. q \in Nat /\ x % Part \in 0 .. Part - 1 /\ a \in Nat /\ x = a + (x % Part)
  <2> HIDE DEF x
  <2> QED BY <1>1, <1>2, DivMod, Products
<1>4. Len(n) <= a
  <2> DEFINE r == x % Part
  <2>1. r \in 0 .. Part - 1 /\ Len(n) + Part - 1 = a + r
    BY <1>3
  <2> HIDE DEF r, a, x
  <2> QED BY <1>1, <1>3, <2>1
<1>5. q # 0
  <2>1. 0 * Part = 0
    BY <1>1
  <2> HIDE DEF q
  <2> QED BY <1>1, <1>4, <2>1
<1>6. Long!lfn_entry_count_for_name(n) = q
  BY DEF Long!lfn_entry_count_for_name
<1> QED BY <1>1, <1>3, <1>4, <1>5, <1>6

\* What build_name_entries writes for one part of a name.
LEMMA Written ==
  ASSUME NEW n \in LongNames, NEW s \in Shorts,
         NEW count, count = Long!lfn_entry_count_for_name(n),
         NEW i \in 1 .. count, NEW c, c = Long!LfnEntries(n, s)[i]
  PROVE  /\ IsEntry(c) /\ Decodable(c)
         /\ c.order = count - i + 1 /\ (c.last <=> i = 1) /\ c.sum = Checksum[s]
         /\ \A j \in Nat : (c.order - 1) * Part <= j /\ j < c.order * Part =>
               Spelt(n)[j]
                   = Long!decode_lfn_character(c.part[j - (c.order - 1) * Part + 1])
<1> DEFINE o == count - i + 1
           a == (o - 1) * Part
           seg == Long!fill_lfn_name_segment(n, a)
<1>1. /\ count \in Nat \ {0} /\ Len(n) \in Nat /\ n \in Seq(Nat \ {0})
      /\ Part \in Nat \ {0} /\ Checksum[s] \in Int
  BY EntryCount, LongNameAssumption
<1>2. o \in Nat /\ o - 1 \in Nat
  BY <1>1
<1> HIDE DEF o
<1>3. a \in Nat /\ o * Part = a + Part
  <2>1. PICK p \in Nat : p = o - 1 /\ o = p + 1
    BY <1>2
  <2>2. p * Part \in Nat /\ (p + 1) * Part = p * Part + Part
    BY <1>1, Products
  <2> QED BY <2>1, <2>2
<1> HIDE DEF a
<1>4. c = [order |-> o, last |-> i = 1, sum |-> Checksum[s], part |-> seg]
  BY DEF Long!LfnEntries, Long!Lfn, o, a
<1>5. seg = [k \in 1 .. Part |-> IF a + k <= Len(n) THEN n[a + k]
                                 ELSE IF a + k = Len(n) + 1 THEN 0 ELSE -1]
  BY DEF Long!fill_lfn_name_segment, Long!NUL, Long!Padding
<1> HIDE DEF seg
<1>6. ASSUME NEW k \in 1 .. Part
      PROVE  /\ seg[k] \in Int /\ seg[k] # -2
             /\ Long!decode_lfn_character(seg[k])
                   = IF a + k <= Len(n) THEN n[a + k] ELSE 0
  <2>1. CASE a + k <= Len(n)
    <3>1. a + k \in 1 .. Len(n)
      BY <1>1, <1>3, <2>1
    <3>2. n[a + k] \in Nat \ {0}
      BY <1>1, <3>1
    <3>3. seg[k] = n[a + k]
      BY <1>5, <2>1
    <3> QED BY <2>1, <3>2, <3>3 DEF Long!decode_lfn_character, Long!Padding, Long!NUL
  <2>2. CASE ~(a + k <= Len(n))
    <3>1. seg[k] = 0 \/ seg[k] = -1
      BY <1>5, <2>2
    <3> QED BY <2>2, <3>1 DEF Long!decode_lfn_character, Long!Padding, Long!NUL
  <2> QED BY <2>1, <2>2
<1>7. c.order = o /\ (c.last <=> i = 1) /\ c.sum = Checksum[s] /\ c.part = seg
      /\ c.last \in BOOLEAN
  <2>1. PICK u \in BOOLEAN : u <=> i = 1
    OBVIOUS
  <2>2. u = (i = 1)
    BY <2>1
  <2>3. c = [order |-> o, last |-> u, sum |-> Checksum[s], part |-> seg]
    BY <1>4, <2>2
  <2> QED BY <2>1, <2>3
<1>8. IsEntry(c) /\ Decodable(c)
  <2>1. seg \in [1 .. Part -> Int]
    <3>1. seg = [k \in 1 .. Part |-> seg[k]]
      BY <1>5
    <3> QED BY <1>6, <3>1
  <2> QED BY <1>1, <1>2, <1>6, <1>7, <2>1 DEF IsEntry, Decodable
<1>9. ASSUME NEW j \in Nat, a <= j, j < o * Part
      PROVE  Spelt(n)[j] = Long!decode_lfn_character(seg[j - a + 1])
  <2>1. j - a + 1 \in 1 .. Part /\ a + (j - a + 1) = j + 1
    BY <1>1, <1>3, <1>9
  <2>2. PICK k \in 1 .. Part : k = j - a + 1 /\ a + k = j + 1
    BY <2>1
  <2>3. Long!decode_lfn_character(seg[k]) = IF j + 1 <= Len(n) THEN n[j + 1] ELSE 0
    BY <1>6, <2>2
  <2>4. (j + 1 <= Len(n)) = (j < Len(n))
    BY <1>1
  <2> QED BY <2>2, <2>3, <2>4 DEF Spelt
<1> QED BY <1>7, <1>8, <1>9 DEF o, a

\* The state has collected a name as far as its i-th entry.
Reads(st, n, s, i) ==
    LET k == Long!lfn_entry_count_for_name(n) - i IN
    /\ st.active /\ st.valid
    /\ st.expected = k + 1 /\ st.sum = Checksum[s]
    /\ Filled(st.name, k * Part, Long!lfn_entry_count_for_name(n) * Part, Spelt(n))

\* The first entry of a name.
LEMMA FirstEntry ==
  ASSUME NEW n \in LongNames, NEW s \in Shorts, NEW st \in LfnStates,
         NEW c, c = Long!LfnEntries(n, s)[1]
  PROVE  Reads(Long!process_lfn_entry(st, c), n, s, 1)
<1>1. PICK count : count = Long!lfn_entry_count_for_name(n)
  OBVIOUS
<1>2. count \in Nat \ {0} /\ 1 \in 1 .. count
  <2>1. count \in Nat \ {0}
    BY <1>1, EntryCount
  <2> QED BY <2>1
<1>3. /\ IsEntry(c) /\ Decodable(c)
      /\ c.order = count - 1 + 1 /\ (c.last <=> 1 = 1) /\ c.sum = Checksum[s]
      /\ \A j \in Nat : (c.order - 1) * Part <= j /\ j < c.order * Part =>
            Spelt(n)[j]
                = Long!decode_lfn_character(c.part[j - (c.order - 1) * Part + 1])
  BY <1>1, <1>2, Written
<1>4. c.order = count /\ c.order # 0 /\ c.last /\ c.sum \in Int
  BY <1>2, <1>3 DEF IsEntry
<1>5. PICK s0 : s0 = Long!Start(c)
  OBVIOUS
<1>6. /\ s0 \in LfnStates
      /\ s0.active /\ s0.sum = c.sum /\ s0.expected = c.order /\ s0.name = Long!Blank
  <2>1. Long!Blank \in Buffers /\ Long!Blank[NameBuffer - 1] = 0
    <3>1. NameBuffer - 1 \in 0 .. NameBuffer - 1
      BY LongNameAssumption
    <3> QED BY <3>1, BlankFilled
  <2> QED BY <1>2, <1>4, <1>5, <2>1 DEF Long!Start, LfnStates
<1>7. PICK new : new = Long!process_lfn_entry(st, c) /\ new = Long!StorePart(s0, c)
  BY <1>4, <1>5 DEF Long!process_lfn_entry
<1>8. /\ new.active /\ new.valid = Decodable(c) /\ new.sum = c.sum /\ new.expected = count
  <2>1. PICK p : p = Long!StorePart(s0, c)
    OBVIOUS
  <2>2. p.active = s0.active /\ p.valid = Decodable(c) /\ p.sum = s0.sum
        /\ p.expected = s0.expected
    BY <1>3, <1>4, <1>6, <2>1, StorePartType
  <2> QED BY <1>4, <1>6, <1>7, <2>1, <2>2
<1>9. count * Part \in Nat
  BY <1>2, LongNameAssumption, Products
<1>10. Filled(new.name, (c.order - 1) * Part, count * Part, Spelt(n))
  <2>1. PICK F : F = Spelt(n)
    OBVIOUS
  <2>2. Filled(s0.name, c.order * Part, count * Part, F)
    BY <1>4, <1>6, <1>9, BlankFilled
  <2>3. c.order * Part <= count * Part
    BY <1>4, <1>9
  <2>4. \A j \in Nat : (c.order - 1) * Part <= j /\ j < c.order * Part =>
            F[j] = Long!decode_lfn_character(c.part[j - (c.order - 1) * Part + 1])
    BY <1>3, <2>1
  <2> QED BY <1>3, <1>4, <1>6, <1>7, <1>9, <2>1, <2>2, <2>3, <2>4, PartAdded
<1>11. count = (count - 1) + 1
  BY <1>2
<1> QED BY <1>1, <1>3, <1>4, <1>7, <1>8, <1>10, <1>11 DEF Reads

\* The next entry of a name.
LEMMA NextEntry ==
  ASSUME NEW n \in LongNames, NEW s \in Shorts, NEW st \in LfnStates,
         NEW i \in Nat, 1 <= i, i < Long!lfn_entry_count_for_name(n), Reads(st, n, s, i),
         NEW c, c = Long!LfnEntries(n, s)[i + 1]
  PROVE  Reads(Long!process_lfn_entry(st, c), n, s, i + 1)
<1>1. PICK count : count = Long!lfn_entry_count_for_name(n)
  OBVIOUS
<1>2. count \in Nat \ {0} /\ i + 1 \in 1 .. count /\ i + 1 # 1
  <2>1. count \in Nat \ {0}
    BY <1>1, EntryCount
  <2> QED BY <1>1, <2>1
<1>3. /\ IsEntry(c) /\ Decodable(c)
      /\ c.order = count - (i + 1) + 1 /\ (c.last <=> i + 1 = 1) /\ c.sum = Checksum[s]
      /\ \A j \in Nat : (c.order - 1) * Part <= j /\ j < c.order * Part =>
            Spelt(n)[j]
                = Long!decode_lfn_character(c.part[j - (c.order - 1) * Part + 1])
  BY <1>1, <1>2, Written
<1>4. PICK k \in Nat : k = count - i /\ k # 0 /\ c.order = k /\ k = count - (i + 1) + 1
                       /\ count - (i + 1) = k - 1
  BY <1>1, <1>2, <1>3
<1>5. ~c.last
  BY <1>2, <1>3
<1>6. /\ st.active /\ st.valid
      /\ st.expected = k + 1 /\ st.sum = Checksum[s]
      /\ Filled(st.name, k * Part, count * Part, Spelt(n))
  BY <1>1, <1>4 DEF Reads
<1>7. Long!Continues(st, c)
  <2>1. c.order = st.expected - 1
    BY <1>4, <1>6
  <2> QED BY <1>3, <1>4, <1>6, <2>1 DEF Long!Continues
<1>8. PICK s0 : s0 = [st EXCEPT !.expected = c.order]
  OBVIOUS
<1>9. /\ s0 \in LfnStates
      /\ s0.active /\ s0.sum = Checksum[s] /\ s0.expected = k /\ s0.name = st.name
  BY <1>4, <1>6, <1>8 DEF LfnStates
<1>10. PICK new : new = Long!process_lfn_entry(st, c) /\ new = Long!StorePart(s0, c)
  BY <1>5, <1>7, <1>8 DEF Long!process_lfn_entry
<1>11. /\ new.active /\ new.valid = Decodable(c) /\ new.sum = Checksum[s] /\ new.expected = k
  <2>1. PICK p : p = Long!StorePart(s0, c)
    OBVIOUS
  <2>2. p.active = s0.active /\ p.valid = Decodable(c) /\ p.sum = s0.sum
        /\ p.expected = s0.expected
    <3>1. IsEntry(c) /\ c.order # 0 /\ s0 \in LfnStates
      BY <1>3, <1>4, <1>9
    <3> QED BY <2>1, <3>1, StorePartType
  <2>3. p = new
    BY <1>10, <2>1
  <2>4. s0.active /\ s0.sum = Checksum[s] /\ s0.expected = k
    BY <1>9
  <2> QED BY <2>2, <2>3, <2>4
<1>12. count * Part \in Nat /\ k * Part <= count * Part
  <2>1. k <= count
    BY <1>2, <1>4
  <2> QED BY <1>2, <2>1, LongNameAssumption, Products
<1>13. Filled(new.name, (k - 1) * Part, count * Part, Spelt(n))
  <2>1. PICK F : F = Spelt(n)
    OBVIOUS
  <2>2. Filled(s0.name, c.order * Part, count * Part, F)
    BY <1>4, <1>6, <1>9, <2>1
  <2>3. \A j \in Nat : (c.order - 1) * Part <= j /\ j < c.order * Part =>
            F[j] = Long!decode_lfn_character(c.part[j - (c.order - 1) * Part + 1])
    BY <1>3, <2>1
  <2>4. c.order * Part <= count * Part /\ c.order # 0
    BY <1>4, <1>12
  <2>5. Filled(new.name, (c.order - 1) * Part, count * Part, F)
    BY <1>3, <1>9, <1>10, <1>12, <2>2, <2>3, <2>4, PartAdded
  <2> QED BY <1>4, <2>1, <2>5
<1>14. k = (k - 1) + 1
  OBVIOUS
<1> QED BY <1>1, <1>3, <1>4, <1>10, <1>11, <1>13, <1>14 DEF Reads

\* The scan of the entries that are written for a name.
LEMMA ScanReads ==
  ASSUME NEW st \in LfnStates, NEW n \in LongNames, NEW s \in Shorts
  PROVE  /\ Long!Scan(st, Long!LfnEntries(n, s)) \in LfnStates
         /\ Reads(Long!Scan(st, Long!LfnEntries(n, s)), n, s,
                  Long!lfn_entry_count_for_name(n))
<1> DEFINE cells == Long!LfnEntries(n, s)
           m == Long!lfn_entry_count_for_name(n)
           Step(x, i) == Long!process_lfn_entry(x, cells[i])
           Def(f) == [i \in 0 .. Len(cells) |-> IF i = 0 THEN st ELSE Step(f[i - 1], i)]
           F == [k \in Nat |-> [x \in LfnStates |->
                    IF k + 1 \in 1 .. m THEN Step(x, k + 1) ELSE x]]
           after == CHOOSE f : f = Def(f)
<1>1. m \in Nat \ {0}
  BY EntryCount
<1>2. Len(cells) = m
  <2>1. DOMAIN cells = 1 .. m /\ cells = [i \in 1 .. m |-> cells[i]]
    BY DEF Long!LfnEntries
  <2> HIDE DEF cells, m
  <2>2. [i \in 1 .. m |-> cells[i]] \in Seq({cells[i] : i \in 1 .. m})
    BY <1>1, IsASeq
  <2>3. cells \in Seq({cells[i] : i \in 1 .. m})
    BY <2>1, <2>2
  <2>4. DOMAIN cells = 1 .. Len(cells) /\ Len(cells) \in Nat
    BY <2>3
  <2> QED BY <1>1, <2>1, <2>4
<1>3. ASSUME NEW i \in 1 .. m, NEW x \in LfnStates PROVE Step(x, i) \in LfnStates
  <2>1. IsEntry(cells[i])
    BY Written
  <2> HIDE DEF cells, m
  <2> QED BY <2>1, ProcessType
<1>4. ASSUME NEW x \in LfnStates PROVE Reads(Step(x, 1), n, s, 1)
  BY FirstEntry
<1>5. ASSUME NEW x \in LfnStates, NEW i \in 1 .. m - 1, Reads(x, n, s, i)
      PROVE  Reads(Step(x, i + 1), n, s, i + 1)
  <2>1. i \in Nat /\ 1 <= i /\ i < m
    BY <1>1
  <2> QED BY <1>5, <2>1, NextEntry
<1> HIDE DEF Step, m
<1>6. F \in [Nat -> [LfnStates -> LfnStates]]
  <2> SUFFICES ASSUME NEW k \in Nat, NEW x \in LfnStates PROVE F[k][x] \in LfnStates
    OBVIOUS
  <2>1. CASE k + 1 \in 1 .. m
    BY <1>3, <2>1
  <2>2. CASE ~(k + 1 \in 1 .. m)
    BY <2>2
  <2> QED BY <2>1, <2>2
<1>7. PICK f \in [0 .. m -> LfnStates] : Follows(f, st, F, m)
  <2> HIDE DEF F
  <2> QED BY <1>1, <1>6, FiniteRecursion
<1> HIDE DEF cells
<1>8. \A i \in 0 .. m : f[i] = IF i = 0 THEN st ELSE Step(f[i - 1], i)
  <2> SUFFICES ASSUME NEW i \in 0 .. m PROVE f[i] = IF i = 0 THEN st ELSE Step(f[i - 1], i)
    OBVIOUS
  <2>1. CASE i = 0
    BY <1>7, <2>1 DEF Follows
  <2>2. CASE i # 0
    <3>1. i - 1 \in 0 .. m - 1 /\ (i - 1) + 1 = i /\ f[i - 1] \in LfnStates /\ i \in 1 .. m
          /\ i - 1 \in Nat
      BY <1>1, <1>7, <2>2
    <3>2. f[i] = F[i - 1][f[i - 1]]
      BY <1>7, <3>1 DEF Follows
    <3>3. F[i - 1][f[i - 1]] = Step(f[i - 1], i)
      BY <3>1
    <3> QED BY <2>2, <3>2, <3>3
  <2> QED BY <2>1, <2>2
<1>9. f = Def(f)
  BY <1>2, <1>8
<1>10. after = Def(after)
  BY <1>9
<1> HIDE DEF after, F
<1>11. \A i \in 0 .. m : after[i] = IF i = 0 THEN st ELSE Step(after[i - 1], i)
  <2>1. \A i \in 0 .. m : Def(after)[i] = IF i = 0 THEN st ELSE Step(after[i - 1], i)
    BY <1>2
  <2> HIDE DEF Def
  <2> QED BY <1>10, <2>1
<1> DEFINE T == {i \in 1 .. m : after[i] \in LfnStates /\ Reads(after[i], n, s, i)}
<1>12. 1 \in T
  <2>1. 0 \in 0 .. m /\ 1 \in 0 .. m /\ 1 - 1 = 0 /\ 1 \in 1 .. m
    BY <1>1
  <2>2. after[0] = st /\ after[1] = Step(after[0], 1)
    BY <1>11, <2>1
  <2> QED BY <1>3, <1>4, <2>1, <2>2
<1>13. ASSUME NEW i \in 1 .. m - 1, i \in T PROVE i + 1 \in T
  <2>1. i + 1 \in 0 .. m /\ i + 1 # 0 /\ (i + 1) - 1 = i /\ i + 1 \in 1 .. m
    BY <1>1
  <2>2. after[i + 1] = Step(after[i], i + 1)
    BY <1>11, <2>1
  <2>3. after[i] \in LfnStates /\ Reads(after[i], n, s, i)
    BY <1>13
  <2> QED BY <1>3, <1>5, <2>1, <2>2, <2>3
<1> HIDE DEF T
<1>14. 1 .. m \subseteq T
  BY <1>1, <1>12, <1>13, InductUpTo
<1>15. after[m] \in LfnStates /\ Reads(after[m], n, s, m)
  BY <1>1, <1>14 DEF T
<1>16. Long!Scan(st, cells) = after[m]
  <2>1. Long!Scan(st, cells) = after[Len(cells)]
    BY DEF Long!Scan, after, Def, Step
  <2> QED BY <1>2, <2>1
<1> QED BY <1>15, <1>16 DEF cells, m

\* A name that is written comes back.
LEMMA ComesBack ==
  ASSUME lfn \in LfnStates
  PROVE  Long!NameComesBack
<1> SUFFICES ASSUME NEW n \in LongNames, NEW s \in Shorts
             PROVE  Long!decode_directory_entry_name(
                        Long!Scan(lfn, Long!LfnEntries(n, s)), s)
                        = [long |-> TRUE, text |-> n]
  BY DEF Long!NameComesBack
<1>1. PICK st \in LfnStates : /\ st = Long!Scan(lfn, Long!LfnEntries(n, s))
                              /\ Reads(st, n, s, Long!lfn_entry_count_for_name(n))
  BY ScanReads
<1>2. PICK m \in Nat \ {0} : m = Long!lfn_entry_count_for_name(n) /\ Len(n) <= m * Part
  BY EntryCount
<1>3. PICK l \in Nat : /\ l = Len(n) /\ l \in 1 .. NameBuffer - 1
                       /\ n \in [1 .. l -> Nat \ {0}]
  BY EntryCount
<1>4. /\ st.active /\ st.valid /\ st.expected = 1 /\ st.sum = Checksum[s]
      /\ Filled(st.name, 0, m * Part, Spelt(n))
  <2>1. m - m = 0 /\ 0 + 1 = 1 /\ 0 * Part = 0
    BY <1>2, LongNameAssumption
  <2> QED BY <1>1, <1>2, <2>1 DEF Reads
<1>5. PICK b \in Buffers : b = st.name
  BY DEF LfnStates
<1>6. NameBuffer \in Nat /\ m * Part \in Nat
  BY <1>2, LongNameAssumption, Products
<1>7. \A j \in 0 .. NameBuffer - 1 :
         b[j] = IF j < m * Part /\ j + 1 < NameBuffer
                THEN (IF j < l THEN n[j + 1] ELSE 0) ELSE 0
  <2> SUFFICES ASSUME NEW j \in 0 .. NameBuffer - 1
               PROVE  b[j] = IF j < m * Part /\ j + 1 < NameBuffer
                             THEN (IF j < l THEN n[j + 1] ELSE 0) ELSE 0
    OBVIOUS
  <2>1. j \in Nat /\ 0 <= j
    BY <1>6
  <2>2. b[j] = IF 0 <= j /\ j < m * Part /\ j + 1 < NameBuffer THEN Spelt(n)[j] ELSE 0
    BY <1>4, <1>5 DEF Filled
  <2>3. Spelt(n)[j] = IF j < l THEN n[j + 1] ELSE 0
    BY <1>3, <2>1 DEF Spelt
  <2> QED BY <2>1, <2>2, <2>3
<1> DEFINE mp == m * Part
<1> HIDE DEF mp
<1>8. \A j \in 0 .. l - 1 : b[j] = n[j + 1] /\ n[j + 1] # 0
  <2> SUFFICES ASSUME NEW j \in 0 .. l - 1 PROVE b[j] = n[j + 1] /\ n[j + 1] # 0
    OBVIOUS
  <2>1. mp \in Nat /\ l <= mp
    BY <1>2, <1>3, <1>6 DEF mp
  <2>2. j \in 0 .. NameBuffer - 1 /\ j < mp /\ j + 1 < NameBuffer /\ j < l /\ j + 1 \in 1 .. l
    BY <1>3, <1>6, <2>1
  <2>3. b[j] = n[j + 1]
    BY <1>7, <2>2 DEF mp
  <2> QED BY <1>3, <2>2, <2>3
<1>9. l \in 0 .. NameBuffer - 1 /\ b[l] = 0
  <2>1. l \in 0 .. NameBuffer - 1 /\ ~(l < l)
    BY <1>3, <1>6
  <2> QED BY <1>7, <2>1
<1>10. Long!Text(b) = [i \in 1 .. l |-> b[i - 1]]
  BY <1>8, <1>9, TextIs
<1>11. Long!Text(b) = n
  <2>1. \A i \in 1 .. l : b[i - 1] = n[i]
    <3> SUFFICES ASSUME NEW i \in 1 .. l PROVE b[i - 1] = n[i]
      OBVIOUS
    <3>1. i - 1 \in 0 .. l - 1 /\ (i - 1) + 1 = i
      BY <1>3
    <3> QED BY <1>8, <3>1
  <2>2. n = [i \in 1 .. l |-> n[i]]
    BY <1>3
  <2> QED BY <1>10, <2>1, <2>2
<1>12. b[0] # 0
  <2>1. 0 \in 0 .. l - 1
    BY <1>3
  <2> QED BY <1>8, <2>1
<1> QED BY <1>1, <1>4, <1>5, <1>11, <1>12
     DEF Long!decode_directory_entry_name, Long!NUL

-----------------------------------------------------------------------------
(* Long names: the theorem.                                                *)

LongInv ==
    /\ lfn \in LfnStates
    /\ run \in Seq(DiskCells)
    /\ Tracks(lfn, run)

\* No name precedes the first entry of a run.
LEMMA NothingRead ==
  ASSUME NEW st \in LfnStates, ~st.active
  PROVE  Tracks(st, <<>>)
<1>1. ASSUME NEW n \in Nat, NEW k \in Nat, NEW s \in Int, IsTail(<<>>, n, k, s)
      PROVE  FALSE
  <2>1. k \in 1 .. n /\ n < 0 + k
    BY <1>1 DEF IsTail
  <2> QED BY <2>1
<1> QED BY <1>1 DEF Tracks

\* The state of a scan speaks the truth at the start and after each step.
LEMMA LongInvHolds ==
  /\ Init => LongInv
  /\ LongInv /\ [Next]_vars => LongInv'
<1>1. ASSUME Init PROVE LongInv
  <2>1. lfn = [active |-> FALSE, valid |-> FALSE, sum |-> 0, expected |-> 0,
               name |-> Long!Blank] /\ run = <<>>
    BY <1>1 DEF Init, Long!Init
  <2>2. Long!Blank \in Buffers /\ Long!Blank[NameBuffer - 1] = 0
    <3>1. NameBuffer - 1 \in 0 .. NameBuffer - 1
      BY LongNameAssumption
    <3> QED BY <3>1, BlankFilled
  <2>3. lfn \in LfnStates /\ ~lfn.active
    BY <2>1, <2>2 DEF LfnStates
  <2>4. Tracks(lfn, run)
    BY <2>1, <2>3, NothingRead
  <2>5. run \in Seq(DiskCells)
    BY <2>1
  <2> QED BY <2>3, <2>4, <2>5 DEF LongInv
<1>2. ASSUME LongInv, [Next]_vars PROVE LongInv'
  <2>1. CASE UNCHANGED <<lfn, run>>
    BY <1>2, <2>1 DEF LongInv
  <2>2. CASE ScanStep
    <3>1. CASE Long!LfnEntry
      <4>1. PICK cell \in DiskCells : /\ lfn' = Long!process_lfn_entry(lfn, cell)
                                      /\ run' = Append(run, cell)
        BY <3>1 DEF Long!LfnEntry
      <4>2. /\ Long!process_lfn_entry(lfn, cell) \in LfnStates
            /\ Tracks(Long!process_lfn_entry(lfn, cell), Append(run, cell))
        BY <1>2, TracksStep DEF LongInv
      <4>3. Append(run, cell) \in Seq(DiskCells)
        BY <1>2, AppendProperties DEF LongInv
      <4>4. lfn' \in LfnStates /\ run' \in Seq(DiskCells) /\ Tracks(lfn', run')
        BY <4>1, <4>2, <4>3
      <4> QED BY <4>4 DEF LongInv
    <3>2. CASE Long!OtherEntry
      <4>1. lfn' = Long!lfn_state_reset(lfn) /\ run' = <<>>
        BY <3>2 DEF Long!OtherEntry
      <4>2. lfn' \in LfnStates /\ ~lfn'.active
        BY <1>2, <4>1, ResetIs DEF LongInv
      <4>3. Tracks(lfn', run') /\ run' \in Seq(DiskCells)
        BY <4>1, <4>2, NothingRead
      <4> QED BY <4>2, <4>3 DEF LongInv
    <3> QED BY <2>2, <3>1, <3>2 DEF ScanStep, Long!Next
  <2>3. CASE [Reject \/ Begin \/ Search \/ Return \/ StartScan]_vars
    <3>1. UNCHANGED <<lfn, run>>
      BY <2>3 DEF Reject, Begin, Search, Return, StartScan, ReadCluster, EndOfChain,
                  ReadFails, vars
    <3> QED BY <2>1, <3>1
  <2> QED BY <1>2, <2>2, <2>3 DEF Next
<1> QED BY <1>1, <1>2

\* Whatever entries of long names a directory holds, in whatever order, a scan
\* shows a long name exactly if the entries before its short one end in a whole
\* one with its checksum, and what build_name_entries writes comes back as it
\* was (fat32.c, process_lfn_entry, decode_directory_entry_name).
THEOREM LongNamesReadBack == Spec => []NamesReadBack
<1>1. Init => LongInv
  BY LongInvHolds
<1>2. LongInv /\ [Next]_vars => LongInv'
  BY LongInvHolds
<1>3. LongInv => NamesReadBack
  BY DecodesRight, ComesBack DEF LongInv, NamesReadBack
<1> QED BY <1>1, <1>2, <1>3, PTL DEF Spec

-----------------------------------------------------------------------------
(* Short names: the number of an alias.                                    *)

DigitSet == {DigitOf[i] : i \in 1 .. 10}

\* The digits.
LEMMA TenDigits ==
  /\ Radix \in 2 .. 10
  /\ \A i \in 1 .. 10 : DigitOf[i] \in DigitSet
  /\ \A i, j \in 1 .. 10 : DigitOf[i] = DigitOf[j] => i = j
  /\ DigitSet \subseteq Range(DigitOf)
  /\ Tilde \notin DigitSet /\ Dot \notin DigitSet /\ Space \notin DigitSet
<1>1. Len(DigitOf) = 10 /\ DOMAIN DigitOf = 1 .. 10
  BY DEF DigitOf
<1>2. Radix \in 2 .. 10
  BY <1>1, ShortNameAssumption
<1>3. \A i \in 1 .. 10 : i \in {1, 2, 3, 4, 5, 6, 7, 8, 9, 10}
  OBVIOUS
<1>4. /\ DigitOf[1] = "0" /\ DigitOf[2] = "1" /\ DigitOf[3] = "2" /\ DigitOf[4] = "3"
      /\ DigitOf[5] = "4" /\ DigitOf[6] = "5" /\ DigitOf[7] = "6" /\ DigitOf[8] = "7"
      /\ DigitOf[9] = "8" /\ DigitOf[10] = "9"
  BY DEF DigitOf
<1>5. \A i, j \in 1 .. 10 : DigitOf[i] = DigitOf[j] => i = j
  BY <1>3, <1>4
<1>6. Tilde \notin DigitSet /\ Dot \notin DigitSet /\ Space \notin DigitSet
  BY <1>3, <1>4 DEF DigitSet, Tilde, Dot, Space
<1>7. DigitSet \subseteq Range(DigitOf)
  BY <1>1 DEF DigitSet, Range
<1> QED BY <1>2, <1>5, <1>6, <1>7 DEF DigitSet

\* The digit that is added for a number.
LastDigit(n) == DigitOf[(n % Radix) + 1]

\* The last digit is one, and with the quotient it gives the number.
LEMMA LastDigitIs ==
  /\ \A n \in Nat : LastDigit(n) \in DigitSet
  /\ \A n \in Nat : n < Radix => LastDigit(n) = DigitOf[n + 1]
  /\ \A n, m \in Nat :
        LastDigit(n) = LastDigit(m) /\ n \div Radix = m \div Radix => n = m
<1>1. Radix \in Nat \ {0} /\ Radix \in 2 .. 10
  BY TenDigits
<1>2. ASSUME NEW n \in Nat
      PROVE  /\ n % Radix \in 0 .. Radix - 1 /\ (n % Radix) + 1 \in 1 .. 10
             /\ n \div Radix \in Nat /\ n = (n \div Radix) * Radix + (n % Radix)
  <2>1. n % Radix \in 0 .. Radix - 1 /\ n \div Radix \in Nat
        /\ n = (n \div Radix) * Radix + (n % Radix)
    BY <1>1, DivMod
  <2>2. PICK r \in Nat : r = n % Radix /\ r \in 0 .. Radix - 1
    BY <1>1, <2>1
  <2>3. r + 1 \in 1 .. 10
    BY <1>1, <2>2
  <2> QED BY <2>1, <2>2, <2>3
<1>3. \A n \in Nat : LastDigit(n) \in DigitSet
  BY <1>2, TenDigits DEF LastDigit
<1>4. ASSUME NEW n \in Nat, n < Radix PROVE LastDigit(n) = DigitOf[n + 1]
  <2>1. (0 * Radix + n) % Radix = n
    <3>1. n \in 0 .. Radix - 1
      BY <1>1, <1>4
    <3> QED BY <1>1, <3>1, DivMod
  <2>2. 0 * Radix + n = n
    BY <1>1
  <2> QED BY <2>1, <2>2 DEF LastDigit
<1>5. ASSUME NEW n \in Nat, NEW m \in Nat, LastDigit(n) = LastDigit(m),
             n \div Radix = m \div Radix
      PROVE  n = m
  <2>1. (n % Radix) + 1 = (m % Radix) + 1
    BY <1>2, <1>5, TenDigits DEF LastDigit
  <2>2. PICK r \in Int : r = n % Radix
    BY <1>2
  <2>3. PICK t \in Int : t = m % Radix
    BY <1>2
  <2>4. r = t
    BY <2>1, <2>2, <2>3
  <2> QED BY <1>2, <1>5, <2>2, <2>3, <2>4
<1> QED BY <1>3, <1>4, <1>5

\* Digits is what its definition says.
LEMMA DigitsAre ==
  \A n \in Nat :
      Digits[n] = IF n < Radix THEN <<LastDigit(n)>>
                  ELSE Append(Digits[n \div Radix], LastDigit(n))
<1> DEFINE V == Seq(DigitSet)
           base == [n \in Nat |-> <<LastDigit(n)>>]
           F == [n \in Nat |-> [s \in V |-> Append(s, LastDigit(n))]]
           Def(d) == [n \in Nat |->
                         IF n < Radix THEN <<DigitOf[n + 1]>>
                         ELSE Append(d[n \div Radix], DigitOf[(n % Radix) + 1])]
<1>1. Radix \in Nat /\ Radix >= 2
  BY TenDigits
<1>2. base \in [Nat -> V]
  BY LastDigitIs
<1>3. F \in [Nat -> [V -> V]]
  <2> SUFFICES ASSUME NEW n \in Nat, NEW s \in V PROVE F[n][s] \in V
    OBVIOUS
  <2>1. LastDigit(n) \in DigitSet
    BY LastDigitIs
  <2>2. Append(s, LastDigit(n)) \in V
    BY <2>1, AppendProperties
  <2> QED BY <2>2
<1>4. PICK h \in [Nat -> V] :
         \A n \in Nat : h[n] = IF n < Radix THEN base[n] ELSE F[n][h[n \div Radix]]
  <2> HIDE DEF V, base, F
  <2>1. PICK h \in [Nat -> V] : DividesAll(h, base, F, Radix)
    BY <1>1, <1>2, <1>3, RecursionByDivision
  <2> QED BY <2>1 DEF DividesAll
<1>5. \A n \in Nat : h[n] = Def(h)[n]
  <2> SUFFICES ASSUME NEW n \in Nat PROVE h[n] = Def(h)[n]
    OBVIOUS
  <2>1. Def(h)[n] = IF n < Radix THEN <<DigitOf[n + 1]>>
                    ELSE Append(h[n \div Radix], LastDigit(n))
    BY DEF LastDigit
  <2>2. CASE n < Radix
    <3>1. h[n] = <<LastDigit(n)>>
      BY <1>4, <2>2
    <3> HIDE DEF Def
    <3> QED BY <2>1, <2>2, <3>1, LastDigitIs
  <2>3. CASE ~(n < Radix)
    <3>1. n \div Radix \in Nat
      BY <1>1, <2>3, QuotientSmaller
    <3>2. h[n \div Radix] \in V
      BY <3>1
    <3>3. h[n] = F[n][h[n \div Radix]]
      BY <1>4, <2>3
    <3>4. F[n][h[n \div Radix]] = Append(h[n \div Radix], LastDigit(n))
      BY <3>2
    <3> HIDE DEF Def, F
    <3> QED BY <2>1, <2>3, <3>3, <3>4
  <2> QED BY <2>2, <2>3
<1>6. h = Def(h)
  <2>1. Def(h) = [n \in Nat |-> Def(h)[n]]
    OBVIOUS
  <2> HIDE DEF Def
  <2> QED BY <1>5, <2>1
<1>7. Digits = CHOOSE d : d = Def(d)
  BY DEF Digits
<1>8. Digits = Def(Digits)
  <2> DEFINE d0 == CHOOSE d : d = Def(d)
  <2>1. d0 = Def(d0)
    <3> HIDE DEF Def
    <3> QED BY <1>6
  <2> HIDE DEF d0, Def
  <2>2. Digits = d0
    BY <1>7 DEF d0
  <2> QED BY <2>1, <2>2
<1>9. ASSUME NEW n \in Nat
      PROVE  Digits[n] = IF n < Radix THEN <<LastDigit(n)>>
                         ELSE Append(Digits[n \div Radix], LastDigit(n))
  <2>1. Def(Digits)[n] = IF n < Radix THEN <<DigitOf[n + 1]>>
                         ELSE Append(Digits[n \div Radix], LastDigit(n))
    BY DEF LastDigit
  <2> HIDE DEF Def
  <2> QED BY <1>8, <2>1, LastDigitIs
<1> QED BY <1>9

\* Digits are a sequence of digits that is not empty.
LEMMA DigitsType ==
  \A n \in Nat : Digits[n] \in Seq(DigitSet) /\ Len(Digits[n]) >= 1
<1> SUFFICES ASSUME NEW z \in Nat, ~(Digits[z] \in Seq(DigitSet) /\ Len(Digits[z]) >= 1)
             PROVE  FALSE
  OBVIOUS
<1> DEFINE T == {n \in Nat : ~(Digits[n] \in Seq(DigitSet) /\ Len(Digits[n]) >= 1)}
<1>1. PICK n \in T : \A y \in T : n <= y
  <2>1. T # {} /\ T \in SUBSET Nat
    OBVIOUS
  <2> HIDE DEF T
  <2> QED BY <2>1, LeastElement
<1>2. n \in Nat /\ LastDigit(n) \in DigitSet
  BY LastDigitIs
<1>3. Radix \in Nat /\ Radix >= 2
  BY TenDigits
<1>4. CASE n < Radix
  <2>1. Digits[n] = <<LastDigit(n)>>
    BY <1>2, <1>4, DigitsAre
  <2>2. PICK x \in DigitSet : x = LastDigit(n)
    BY <1>2
  <2>3. <<x>> \in Seq(DigitSet) /\ Len(<<x>>) = 1
    OBVIOUS
  <2>4. Digits[n] \in Seq(DigitSet) /\ Len(Digits[n]) = 1
    BY <2>1, <2>2, <2>3
  <2>5. Len(Digits[n]) >= 1
    BY <2>4
  <2> QED BY <2>4, <2>5
<1>5. CASE n >= Radix
  <2>1. PICK q \in Nat : q = n \div Radix /\ q < n
    BY <1>2, <1>3, <1>5, QuotientSmaller
  <2>2. q \notin T
    BY <1>1, <1>2, <2>1
  <2>3. Digits[q] \in Seq(DigitSet) /\ Len(Digits[q]) >= 1
    BY <2>2
  <2>4. Digits[n] = Append(Digits[q], LastDigit(n))
    <3>1. ~(n < Radix)
      BY <1>2, <1>3, <1>5
    <3> QED BY <1>2, <2>1, <3>1, DigitsAre
  <2>5. Digits[n] \in Seq(DigitSet) /\ Len(Digits[n]) = Len(Digits[q]) + 1
        /\ Len(Digits[q]) \in Nat
    BY <1>2, <2>3, <2>4, AppendProperties
  <2>6. Len(Digits[n]) >= 1
    BY <2>3, <2>5
  <2> QED BY <2>5, <2>6
<1> QED BY <1>2, <1>3, <1>4, <1>5

\* A number is given by its digits.
LEMMA DigitsInjective ==
  ASSUME NEW m \in Nat, NEW n \in Nat, Digits[m] = Digits[n]
  PROVE  m = n
<1> SUFFICES ASSUME m # n PROVE FALSE
  OBVIOUS
<1> DEFINE T == {i \in Nat : \E j \in Nat : Digits[i] = Digits[j] /\ i # j}
<1>1. PICK i \in T : \A y \in T : i <= y
  <2>1. T # {} /\ T \in SUBSET Nat
    OBVIOUS
  <2> HIDE DEF T
  <2> QED BY <2>1, LeastElement
<1>2. PICK j \in Nat : Digits[i] = Digits[j] /\ i # j
  OBVIOUS
<1>3. i \in Nat /\ Radix \in Nat /\ Radix >= 2
  BY TenDigits
<1>4. \A k \in Nat : Digits[k] \in Seq(DigitSet) /\ Len(Digits[k]) >= 1
                     /\ LastDigit(k) \in DigitSet
  BY DigitsType, LastDigitIs
<1>5. \A k \in Nat : k < Radix => Digits[k] = <<DigitOf[k + 1]>> /\ Len(Digits[k]) = 1
                                  /\ k + 1 \in 1 .. 10
  <2> SUFFICES ASSUME NEW k \in Nat, k < Radix
               PROVE  Digits[k] = <<DigitOf[k + 1]>> /\ Len(Digits[k]) = 1 /\ k + 1 \in 1 .. 10
    OBVIOUS
  <2>1. Digits[k] = <<LastDigit(k)>> /\ LastDigit(k) = DigitOf[k + 1]
    BY DigitsAre, LastDigitIs
  <2>2. k + 1 \in 1 .. 10
    BY TenDigits
  <2> QED BY <2>1, <2>2
<1>6. \A k \in Nat : k >= Radix =>
         \E q \in Nat : /\ q = k \div Radix /\ q < k
                        /\ Digits[k] = Append(Digits[q], LastDigit(k))
                        /\ Len(Digits[k]) >= 2
  <2> SUFFICES ASSUME NEW k \in Nat, k >= Radix
               PROVE  \E q \in Nat : /\ q = k \div Radix /\ q < k
                                     /\ Digits[k] = Append(Digits[q], LastDigit(k))
                                     /\ Len(Digits[k]) >= 2
    OBVIOUS
  <2>1. PICK q \in Nat : q = k \div Radix /\ q < k
    BY <1>3, QuotientSmaller
  <2>2. Digits[k] = Append(Digits[q], LastDigit(k))
    <3>1. ~(k < Radix)
      BY <1>3
    <3> QED BY <2>1, <3>1, DigitsAre
  <2>3. Len(Digits[k]) = Len(Digits[q]) + 1 /\ Len(Digits[q]) >= 1 /\ Len(Digits[q]) \in Nat
    BY <1>4, <2>2, AppendProperties
  <2> QED BY <2>1, <2>2, <2>3
<1>7. CASE i < Radix
  <2>1. j < Radix
    <3> SUFFICES ASSUME j >= Radix PROVE FALSE
      BY <1>3
    <3>1. Len(Digits[j]) >= 2 /\ Len(Digits[i]) = 1
      BY <1>3, <1>5, <1>6, <1>7
    <3> QED BY <1>2, <3>1
  <2>2. Digits[i] = <<DigitOf[i + 1]>> /\ Digits[j] = <<DigitOf[j + 1]>>
        /\ i + 1 \in 1 .. 10 /\ j + 1 \in 1 .. 10
    BY <1>3, <1>5, <1>7, <2>1
  <2>3. DigitOf[i + 1] = DigitOf[j + 1]
    <3>1. PICK x : x = DigitOf[i + 1]
      OBVIOUS
    <3>2. PICK y : y = DigitOf[j + 1]
      OBVIOUS
    <3>3. <<x>> = <<y>>
      BY <1>2, <2>2, <3>1, <3>2
    <3>4. x = y
      BY <3>3
    <3> QED BY <3>1, <3>2, <3>4
  <2>4. i + 1 = j + 1
    BY <2>2, <2>3, TenDigits
  <2> QED BY <1>2, <1>3, <2>4
<1>8. CASE i >= Radix
  <2>1. j >= Radix
    <3> SUFFICES ASSUME j < Radix PROVE FALSE
      BY <1>3
    <3>1. Len(Digits[i]) >= 2 /\ Len(Digits[j]) = 1
      BY <1>3, <1>5, <1>6, <1>8
    <3> QED BY <1>2, <3>1
  <2>2. PICK q \in Nat : /\ q = i \div Radix /\ q < i
                         /\ Digits[i] = Append(Digits[q], LastDigit(i))
    BY <1>3, <1>6, <1>8
  <2>3. PICK p \in Nat : /\ p = j \div Radix
                         /\ Digits[j] = Append(Digits[p], LastDigit(j))
    BY <1>6, <2>1
  <2>4. Digits[q] = Digits[p] /\ LastDigit(i) = LastDigit(j)
    <3> PICK s : s = Digits[q]
      OBVIOUS
    <3> PICK t : t = Digits[p]
      OBVIOUS
    <3> PICK x : x = LastDigit(i)
      OBVIOUS
    <3> PICK y : y = LastDigit(j)
      OBVIOUS
    <3>1. s \in Seq(DigitSet) /\ t \in Seq(DigitSet) /\ x \in DigitSet /\ y \in DigitSet
      BY <1>3, <1>4
    <3>2. Append(s, x) = Append(t, y)
      BY <1>2, <2>2, <2>3
    <3>3. s = t /\ x = y
      BY <3>1, <3>2, AppendInjective
    <3> QED BY <3>3
  <2>5. q \notin T
    BY <1>1, <1>3, <2>2
  <2>6. q = p
    BY <2>4, <2>5
  <2> QED BY <1>2, <1>3, <2>2, <2>3, <2>4, <2>6, LastDigitIs
<1> QED BY <1>3, <1>7, <1>8

\* A greater number has no fewer digits.
LEMMA DigitsMonotone ==
  ASSUME NEW m \in Nat, NEW n \in Nat, m <= n
  PROVE  Len(Digits[m]) <= Len(Digits[n])
<1> SUFFICES ASSUME ~(Len(Digits[m]) <= Len(Digits[n])) PROVE FALSE
  OBVIOUS
<1> DEFINE T == {i \in Nat : \E j \in Nat : i <= j /\ ~(Len(Digits[i]) <= Len(Digits[j]))}
<1>1. PICK i \in T : \A y \in T : i <= y
  <2>1. T # {} /\ T \in SUBSET Nat
    OBVIOUS
  <2> HIDE DEF T
  <2> QED BY <2>1, LeastElement
<1>2. PICK j \in Nat : i <= j /\ ~(Len(Digits[i]) <= Len(Digits[j]))
  OBVIOUS
<1>3. i \in Nat /\ Radix \in Nat /\ Radix >= 2 /\ Radix \in Nat \ {0}
  BY TenDigits
<1>4. \A k \in Nat : Len(Digits[k]) \in Nat /\ Len(Digits[k]) >= 1
  <2>1. \A k \in Nat : Digits[k] \in Seq(DigitSet) /\ Len(Digits[k]) >= 1
    BY DigitsType
  <2> QED BY <2>1
<1>5. i >= Radix
  <2> SUFFICES ASSUME i < Radix PROVE FALSE
    BY <1>3
  <2>1. Digits[i] = <<LastDigit(i)>>
    BY <1>3, DigitsAre
  <2>2. Len(Digits[i]) = 1
    BY <2>1
  <2> QED BY <1>2, <1>4, <2>2
<1>6. \A k \in Nat : k >= Radix =>
         \E q \in Nat : q = k \div Radix /\ q < k /\ Len(Digits[k]) = Len(Digits[q]) + 1
  <2> SUFFICES ASSUME NEW k \in Nat, k >= Radix
               PROVE  \E q \in Nat : q = k \div Radix /\ q < k
                                     /\ Len(Digits[k]) = Len(Digits[q]) + 1
    OBVIOUS
  <2>1. PICK q \in Nat : q = k \div Radix /\ q < k
    BY <1>3, QuotientSmaller
  <2>2. Digits[k] = Append(Digits[q], LastDigit(k))
    <3>1. ~(k < Radix)
      BY <1>3
    <3> QED BY <2>1, <3>1, DigitsAre
  <2>3. Digits[q] \in Seq(DigitSet) /\ LastDigit(k) \in DigitSet
    BY DigitsType, LastDigitIs
  <2>4. Len(Digits[k]) = Len(Digits[q]) + 1
    BY <2>2, <2>3, AppendProperties
  <2> QED BY <2>1, <2>4
<1>7. PICK q \in Nat : q = i \div Radix /\ q < i /\ Len(Digits[i]) = Len(Digits[q]) + 1
  BY <1>3, <1>5, <1>6
<1>8. PICK p \in Nat : p = j \div Radix /\ Len(Digits[j]) = Len(Digits[p]) + 1
  <2>1. j >= Radix
    BY <1>2, <1>3, <1>5
  <2> QED BY <1>6, <2>1
<1>9. q <= p
  <2>1. i % Radix \in 0 .. Radix - 1 /\ i = q * Radix + (i % Radix)
    BY <1>3, <1>7, DivMod
  <2>2. j % Radix \in 0 .. Radix - 1 /\ j = p * Radix + (j % Radix)
    BY <1>3, <1>8, DivMod
  <2> SUFFICES ASSUME p + 1 <= q PROVE FALSE
    OBVIOUS
  <2>3. (p + 1) * Radix <= q * Radix /\ (p + 1) * Radix = p * Radix + Radix
    BY <1>3, Products
  <2> DEFINE a == q * Radix
             b == p * Radix
             r == i % Radix
             s == j % Radix
  <2>4. a \in Nat /\ b \in Nat /\ r \in 0 .. Radix - 1 /\ s \in 0 .. Radix - 1
        /\ i = a + r /\ j = b + s /\ b + Radix <= a
    BY <1>3, <2>1, <2>2, <2>3, Products
  <2> HIDE DEF a, b, r, s
  <2> QED BY <1>2, <1>3, <2>4
<1>10. q \notin T
  BY <1>1, <1>3, <1>7
<1>11. Len(Digits[q]) <= Len(Digits[p])
  BY <1>9, <1>10
<1>12. Len(Digits[q]) \in Nat /\ Len(Digits[p]) \in Nat
  BY <1>4
<1> QED BY <1>2, <1>7, <1>8, <1>11, <1>12

-----------------------------------------------------------------------------
(* Short names: the helpers.                                               *)

\* Without leaves characters out, and no others.
LEMMA WithoutIs ==
  ASSUME NEW S, NEW s \in Seq(S), NEW T
  PROVE  /\ Without(s, T) \in Seq(S \ T)
         /\ (\A i \in 1 .. Len(s) : s[i] \notin T) => Without(s, T) = s
<1> DEFINE m == Len(s)
           V == Seq(S)
           Next1(x, i) == IF s[i] \in T THEN x ELSE Append(x, s[i])
           Def(f) == [i \in 0 .. m |->
                         IF i = 0 THEN <<>>
                         ELSE IF s[i] \in T THEN f[i - 1]
                         ELSE Append(f[i - 1], s[i])]
           F == [k \in Nat |-> [x \in V |->
                    IF k + 1 \in 1 .. m THEN Next1(x, k + 1) ELSE x]]
           kept == CHOOSE f : f = Def(f)
<1>1. m \in Nat /\ \A i \in 1 .. m : s[i] \in S
  OBVIOUS
<1> HIDE DEF m
<1>2. ASSUME NEW x \in V, NEW i \in 1 .. m PROVE Next1(x, i) \in V
  <2>1. Append(x, s[i]) \in Seq(S)
    BY <1>1, AppendProperties
  <2> QED BY <2>1
<1>3. F \in [Nat -> [V -> V]]
  <2> SUFFICES ASSUME NEW k \in Nat, NEW x \in V PROVE F[k][x] \in V
    OBVIOUS
  <2>1. CASE k + 1 \in 1 .. m
    <3>1. F[k][x] = Next1(x, k + 1)
      BY <2>1
    <3> HIDE DEF F, Next1, V
    <3> QED BY <1>2, <2>1, <3>1
  <2>2. CASE ~(k + 1 \in 1 .. m)
    BY <2>2
  <2> QED BY <2>1, <2>2
<1>4. PICK f \in [0 .. m -> V] : Follows(f, <<>>, F, m)
  <2>1. <<>> \in V
    OBVIOUS
  <2> HIDE DEF F, V
  <2> QED BY <1>1, <1>3, <2>1, FiniteRecursion
<1>5. \A i \in 0 .. m : f[i] = IF i = 0 THEN <<>> ELSE Next1(f[i - 1], i)
  <2> SUFFICES ASSUME NEW i \in 0 .. m
               PROVE  f[i] = IF i = 0 THEN <<>> ELSE Next1(f[i - 1], i)
    OBVIOUS
  <2>1. CASE i = 0
    BY <1>4, <2>1 DEF Follows
  <2>2. CASE i # 0
    <3>1. i - 1 \in 0 .. m - 1 /\ (i - 1) + 1 = i /\ f[i - 1] \in V /\ i \in 1 .. m
          /\ i - 1 \in Nat
      BY <1>1, <1>4, <2>2
    <3>2. f[i] = F[i - 1][f[i - 1]]
      BY <1>4, <3>1 DEF Follows
    <3> HIDE DEF V, Next1
    <3>3. F[i - 1][f[i - 1]] = Next1(f[i - 1], i)
      BY <3>1
    <3> QED BY <2>2, <3>2, <3>3
  <2> QED BY <2>1, <2>2
<1>6. f = Def(f)
  <2>1. \A i \in 0 .. m : f[i] = Def(f)[i]
    BY <1>5
  <2>2. Def(f) = [i \in 0 .. m |-> Def(f)[i]]
    OBVIOUS
  <2> HIDE DEF Def
  <2> QED BY <2>1, <2>2
<1>7. kept = Def(kept)
  <2> HIDE DEF Def
  <2> QED BY <1>6
<1> HIDE DEF kept, F
<1>8. \A i \in 0 .. m : kept[i] = IF i = 0 THEN <<>> ELSE Next1(kept[i - 1], i)
  <2>1. \A i \in 0 .. m : Def(kept)[i] = IF i = 0 THEN <<>> ELSE Next1(kept[i - 1], i)
    OBVIOUS
  <2> HIDE DEF Def, Next1
  <2> QED BY <1>7, <2>1
<1> HIDE DEF Def
<1>9. kept[0] = <<>> /\ \A i \in 0 .. m - 1 : kept[i + 1] = Next1(kept[i], i + 1)
  <2>1. 0 \in 0 .. m
    BY <1>1
  <2>2. \A i \in 0 .. m - 1 : i + 1 \in 0 .. m /\ i + 1 # 0 /\ (i + 1) - 1 = i
    BY <1>1
  <2> HIDE DEF Next1
  <2> QED BY <1>8, <2>1, <2>2
<1>10. kept[m] \in Seq(S \ T)
  <2> DEFINE R == {i \in 0 .. m : kept[i] \in Seq(S \ T)}
  <2>1. 0 \in R
    <3>1. PICK x : x = kept[0] /\ x = <<>>
      BY <1>9
    <3>2. x \in Seq(S \ T)
      BY <3>1
    <3>3. kept[0] \in Seq(S \ T)
      BY <3>1, <3>2
    <3>4. 0 \in 0 .. m
      BY <1>1
    <3> QED BY <3>3, <3>4
  <2>2. ASSUME NEW i \in 0 .. m - 1, i \in R PROVE i + 1 \in R
    <3>1. i + 1 \in 1 .. m /\ i + 1 \in 0 .. m
      BY <1>1
    <3>2. PICK x \in Seq(S \ T) : x = kept[i]
      BY <2>2
    <3>3. Next1(x, i + 1) \in Seq(S \ T)
      <4>1. CASE s[i + 1] \in T
        BY <4>1
      <4>2. CASE s[i + 1] \notin T
        <5>1. s[i + 1] \in S \ T
          BY <1>1, <3>1, <4>2
        <5>2. Append(x, s[i + 1]) \in Seq(S \ T)
          BY <5>1, AppendProperties
        <5> QED BY <4>2, <5>2
      <4> QED BY <4>1, <4>2
    <3> HIDE DEF Next1
    <3> QED BY <1>9, <3>1, <3>2, <3>3
  <2> HIDE DEF R
  <2>3. 0 .. m \subseteq R
    BY <1>1, <2>1, <2>2, InductUpTo
  <2> QED BY <1>1, <2>3 DEF R
<1>11. ASSUME \A i \in 1 .. m : s[i] \notin T PROVE kept[m] = s
  <2> DEFINE R == {i \in 0 .. m : /\ kept[i] \in Seq(S) /\ Len(kept[i]) = i
                                  /\ \A j \in 1 .. i : kept[i][j] = s[j]}
  <2>1. 0 \in R
    <3>1. PICK x : x = kept[0] /\ x = <<>>
      BY <1>9
    <3>2. x \in Seq(S) /\ Len(x) = 0 /\ \A j \in 1 .. 0 : x[j] = s[j]
      BY <3>1
    <3>3. kept[0] \in Seq(S) /\ Len(kept[0]) = 0 /\ \A j \in 1 .. 0 : kept[0][j] = s[j]
      BY <3>1, <3>2
    <3>4. 0 \in 0 .. m
      BY <1>1
    <3> QED BY <3>3, <3>4
  <2>2. ASSUME NEW i \in 0 .. m - 1, i \in R PROVE i + 1 \in R
    <3>1. i + 1 \in 1 .. m /\ i + 1 \in 0 .. m
      BY <1>1
    <3>2. PICK x \in Seq(S) : x = kept[i] /\ Len(x) = i /\ \A j \in 1 .. i : x[j] = s[j]
      BY <2>2
    <3>3. PICK y : y = kept[i + 1] /\ y = Append(x, s[i + 1])
      BY <1>9, <1>11, <3>1, <3>2
    <3>4. /\ y \in Seq(S) /\ Len(y) = i + 1 /\ y[i + 1] = s[i + 1]
          /\ \A j \in 1 .. i : y[j] = x[j]
      <4>1. s[i + 1] \in S
        BY <1>1, <3>1
      <4> QED BY <3>2, <3>3, <4>1, AppendProperties
    <3>5. \A j \in 1 .. i + 1 : y[j] = s[j]
      BY <3>2, <3>4
    <3> QED BY <3>1, <3>3, <3>4, <3>5
  <2> HIDE DEF R
  <2>3. 0 .. m \subseteq R
    BY <1>1, <2>1, <2>2, InductUpTo
  <2>4. PICK x \in Seq(S) : x = kept[m] /\ Len(x) = m /\ \A j \in 1 .. m : x[j] = s[j]
    <3>1. m \in R
      BY <1>1, <2>3
    <3> QED BY <3>1 DEF R
  <2>5. x = s
    BY <2>4, SeqEqual DEF m
  <2> QED BY <2>4, <2>5
<1>12. Without(s, T) = kept[m]
  BY DEF Without, kept, Def, m
<1> QED BY <1>10, <1>11, <1>12 DEF m

\* A name in capitals.
LEMMA UppercaseIs ==
  ASSUME NEW S, NEW U, NEW s \in Seq(S), \A i \in 1 .. Len(s) : Upper(s[i]) \in U
  PROVE  /\ Uppercase(s) \in Seq(U) /\ Len(Uppercase(s)) = Len(s)
         /\ \A i \in 1 .. Len(s) : Uppercase(s)[i] = Upper(s[i])
<1>1. Uppercase(s) = [i \in 1 .. Len(s) |-> Upper(s[i])]
  BY DEF Uppercase
<1>2. Len(s) \in Nat
  OBVIOUS
<1> QED BY <1>1, <1>2

\* A text filled up with spaces.
LEMMA PadIs ==
  ASSUME NEW S, NEW p \in Seq(S), NEW size \in Nat, Len(p) <= size
  PROVE  /\ Pad(p, size) \in Seq(S \cup {Space}) /\ Len(Pad(p, size)) = size
         /\ \A i \in 1 .. size : Pad(p, size)[i] = IF i <= Len(p) THEN p[i] ELSE Space
<1> DEFINE q == [i \in 1 .. size - Len(p) |-> Space]
           V == S \cup {Space}
<1>1. Len(p) \in Nat /\ size - Len(p) \in Nat
  OBVIOUS
<1>2. q \in Seq(V) /\ Len(q) = size - Len(p) /\ \A i \in 1 .. size - Len(p) : q[i] = Space
  BY <1>1
<1>3. p \in Seq(V)
  <2>1. S \subseteq V
    OBVIOUS
  <2> HIDE DEF V
  <2> QED BY <2>1, SeqMonotonic
<1>4. Pad(p, size) = p \o q
  BY DEF Pad
<1> HIDE DEF q, V
<1>5. /\ p \o q \in Seq(V) /\ Len(p \o q) = Len(p) + Len(q)
      /\ \A i \in 1 .. Len(p) + Len(q) :
            (p \o q)[i] = IF i <= Len(p) THEN p[i] ELSE q[i - Len(p)]
  BY <1>2, <1>3, ConcatProperties
<1>6. Len(p) + Len(q) = size
  BY <1>1, <1>2
<1>7. \A i \in 1 .. size : i <= Len(p) \/ i - Len(p) \in 1 .. size - Len(p)
  BY <1>1
<1> QED BY <1>2, <1>4, <1>5, <1>6, <1>7 DEF V

\* The start of a text.
LEMMA UptoIs ==
  ASSUME NEW S, NEW p \in Seq(S), NEW size \in Nat
  PROVE  /\ Upto(p, size) \in Seq(S) /\ Len(Upto(p, size)) \in Nat
         /\ Len(Upto(p, size)) <= size
         /\ Len(Upto(p, size)) = IF Len(p) < size THEN Len(p) ELSE size
<1> DEFINE k == IF Len(p) < size THEN Len(p) ELSE size
<1>1. k \in Nat /\ k <= Len(p) /\ k <= size /\ Len(p) \in Nat
  OBVIOUS
<1>2. Upto(p, size) = SubSeq(p, 1, k)
  BY DEF Upto
<1> HIDE DEF k
<1>3. SubSeq(p, 1, k) \in Seq(S) /\ Len(SubSeq(p, 1, k)) = k
  <2>1. \A i \in 1 .. k : p[i] \in S
    BY <1>1
  <2>2. SubSeq(p, 1, k) \in Seq(S)
        /\ Len(SubSeq(p, 1, k)) = IF 1 <= k THEN k - 1 + 1 ELSE 0
    BY <1>1, <2>1, SubSeqProperties
  <2> QED BY <1>1, <2>2
<1> QED BY <1>1, <1>2, <1>3 DEF k

\* A text without spaces is what is before the spaces that fill it up.
UpToSpaces(s) ==
    LET spaces == {i \in DOMAIN s : s[i] = Space}
    IN  IF spaces = {} THEN s
        ELSE SubSeq(s, 1, (CHOOSE i \in spaces : \A j \in spaces : i <= j) - 1)

LEMMA UpToSpacesIs ==
  ASSUME NEW S, NEW p \in Seq(S), Space \notin S, NEW size \in Nat, Len(p) <= size
  PROVE  UpToSpaces(Pad(p, size)) = p
<1>1. PICK s : s = Pad(p, size)
  OBVIOUS
<1>2. /\ s \in Seq(S \cup {Space}) /\ Len(s) = size /\ DOMAIN s = 1 .. size
      /\ \A i \in 1 .. size : s[i] = IF i <= Len(p) THEN p[i] ELSE Space
  <2>1. /\ s \in Seq(S \cup {Space}) /\ Len(s) = size
        /\ \A i \in 1 .. size : s[i] = IF i <= Len(p) THEN p[i] ELSE Space
    BY <1>1, PadIs
  <2>2. DOMAIN s = 1 .. Len(s)
    BY <2>1
  <2> QED BY <2>1, <2>2
<1>3. Len(p) \in Nat /\ \A i \in 1 .. Len(p) : p[i] \in S /\ p[i] # Space
  OBVIOUS
<1> DEFINE spaces == {i \in DOMAIN s : s[i] = Space}
           first == CHOOSE i \in spaces : \A j \in spaces : i <= j
<1>4. \A i \in 1 .. size : i \in spaces <=> i > Len(p)
  BY <1>2, <1>3
<1>5. spaces \subseteq 1 .. size
  BY <1>2
<1>6. UpToSpaces(s) = IF spaces = {} THEN s ELSE SubSeq(s, 1, first - 1)
  BY DEF UpToSpaces
<1> HIDE DEF spaces
<1>7. CASE Len(p) = size
  <2>1. spaces = {}
    BY <1>3, <1>4, <1>5, <1>7
  <2>2. s = p
    <3>1. p \in Seq(S \cup {Space})
      BY SeqMonotonic
    <3>2. \A i \in 1 .. Len(s) : s[i] = p[i]
      BY <1>2, <1>7
    <3> QED BY <1>2, <1>7, <3>1, <3>2, SeqEqual
  <2> QED BY <1>1, <1>6, <2>1, <2>2
<1>8. CASE Len(p) < size
  <2>1. Len(p) + 1 \in spaces /\ \A j \in spaces : Len(p) + 1 <= j
    BY <1>3, <1>4, <1>5, <1>8
  <2>2. first \in spaces /\ \A j \in spaces : first <= j
    BY <2>1
  <2> HIDE DEF first
  <2>3. first = Len(p) + 1
    BY <1>3, <1>5, <2>1, <2>2
  <2>4. UpToSpaces(s) = SubSeq(s, 1, Len(p))
    <3>1. spaces # {} /\ first - 1 = Len(p)
      BY <1>3, <2>1, <2>3
    <3> QED BY <1>6, <3>1
  <2>5. SubSeq(s, 1, Len(p)) = p
    <3>1. PICK t : t = SubSeq(s, 1, Len(p))
      OBVIOUS
    <3>2. \A i \in 1 .. Len(p) : s[i] \in S /\ s[i] = p[i]
      BY <1>2, <1>3, <1>8
    <3>3. /\ t \in Seq(S) /\ Len(t) = IF 1 <= Len(p) THEN Len(p) - 1 + 1 ELSE 0
          /\ \A i \in 1 .. Len(p) - 1 + 1 : t[i] = s[1 + i - 1]
      BY <1>3, <3>1, <3>2, SubSeqProperties
    <3>4. Len(t) = Len(p) /\ \A i \in 1 .. Len(p) : t[i] = p[i]
      <4>1. Len(t) = Len(p)
        BY <1>3, <3>3
      <4>2. \A i \in 1 .. Len(p) : i \in 1 .. Len(p) - 1 + 1 /\ 1 + i - 1 = i
        BY <1>3
      <4> QED BY <3>2, <3>3, <4>1, <4>2
    <3> QED BY <3>1, <3>3, <3>4, SeqEqual
  <2> QED BY <1>1, <2>4, <2>5
<1> QED BY <1>3, <1>7, <1>8

-----------------------------------------------------------------------------
(* Short names: how an 8.3 name is shown.                                  *)

\* The 8.3 name of a base and an extension, and how it is shown.
Stem(b, e) == Pad(b, BaseSize) \o Pad(e, ExtSize)
TextOf(b, e) == IF e = <<>> THEN b ELSE b \o <<Dot>> \o e

\* Sizes.
LEMMA Sizes ==
  /\ BaseSize \in Nat /\ BaseSize >= 1 /\ ExtSize \in Nat /\ ExtSize >= 1
  /\ Capacity \in Nat /\ BaseSize + 1 + ExtSize < Capacity
BY ShortNameAssumption

\* An 8.3 name has all its cells.
LEMMA StemIs ==
  ASSUME NEW S, NEW b \in Seq(S), NEW e \in Seq(S),
         Len(b) <= BaseSize, Len(e) <= ExtSize
  PROVE  /\ Stem(b, e) \in Seq(S \cup {Space}) /\ Len(Stem(b, e)) = BaseSize + ExtSize
         /\ SubSeq(Stem(b, e), 1, BaseSize) = Pad(b, BaseSize)
         /\ SubSeq(Stem(b, e), BaseSize + 1, BaseSize + ExtSize) = Pad(e, ExtSize)
<1> DEFINE V == S \cup {Space}
<1>1. PICK p \in Seq(V) : p = Pad(b, BaseSize) /\ Len(p) = BaseSize
  BY Sizes, PadIs
<1>2. PICK q \in Seq(V) : q = Pad(e, ExtSize) /\ Len(q) = ExtSize
  BY Sizes, PadIs
<1> HIDE DEF V
<1>3. p \o q \in Seq(V) /\ Len(p \o q) = BaseSize + ExtSize
  BY <1>1, <1>2, ConcatProperties
<1>4. SubSeq(p \o q, 1, BaseSize) = p
  <2>1. 1 \in 1 .. Len(p) /\ BaseSize \in 1 .. Len(p)
    BY <1>1, Sizes
  <2>2. SubSeq(p \o q, 1, BaseSize) = SubSeq(p, 1, BaseSize)
    BY <2>1, SubSeqOfConcat1
  <2>3. SubSeq(p, 1, BaseSize) = p
    BY <1>1, SubSeqFull
  <2> QED BY <2>2, <2>3
<1>5. SubSeq(p \o q, BaseSize + 1, BaseSize + ExtSize) = q
  <2>1. /\ BaseSize + 1 \in Len(p) + 1 .. Len(p) + Len(q)
        /\ BaseSize + ExtSize \in Len(p) + 1 .. Len(p) + Len(q)
    BY <1>1, <1>2, Sizes
  <2>2. SubSeq(p \o q, BaseSize + 1, BaseSize + ExtSize) = SubSeq(q, 1, Len(q))
    <3>1. PICK m : m = BaseSize + 1 /\ m \in Len(p) + 1 .. Len(p) + Len(q)
      BY <2>1
    <3>2. PICK n : n = BaseSize + ExtSize /\ n \in Len(p) + 1 .. Len(p) + Len(q)
      BY <2>1
    <3>3. SubSeq(p \o q, m, n) = SubSeq(q, m - Len(p), n - Len(p))
      <4>1. p \in Seq(V) /\ q \in Seq(V) /\ m \in Len(p) + 1 .. Len(p) + Len(q)
            /\ n \in Len(p) + 1 .. Len(p) + Len(q)
        BY <3>1, <3>2
      <4> QED BY ONLY <4>1, SubSeqOfConcat2
    <3>4. m - Len(p) = 1 /\ n - Len(p) = Len(q)
      BY <1>1, <1>2, <3>1, <3>2, Sizes
    <3> HIDE DEF V
    <3> QED BY <3>1, <3>2, <3>3, <3>4, Zenon
  <2>3. SubSeq(q, 1, Len(q)) = q
    BY SubSeqFull
  <2> QED BY <2>2, <2>3
<1>6. Stem(b, e) = p \o q
  BY <1>1, <1>2 DEF Stem
<1> QED BY <1>1, <1>2, <1>3, <1>4, <1>5, <1>6 DEF V

\* How it is shown.
LEMMA FormatIs ==
  ASSUME NEW S, Space \notin S, NEW b \in Seq(S), NEW e \in Seq(S),
         Len(b) <= BaseSize, Len(e) <= ExtSize
  PROVE  format_short_name(Stem(b, e)) = TextOf(b, e)
<1>1. PICK raw : raw = Stem(b, e)
  OBVIOUS
<1>2. PICK ext : ext = SubSeq(raw, BaseSize + 1, BaseSize + ExtSize)
  OBVIOUS
<1>3. SubSeq(raw, 1, BaseSize) = Pad(b, BaseSize) /\ ext = Pad(e, ExtSize)
  BY <1>1, <1>2, StemIs
<1>4. UpToSpaces(Pad(b, BaseSize)) = b /\ UpToSpaces(ext) = e
  BY <1>3, Sizes, UpToSpacesIs
<1>5. format_short_name(raw) =
         IF \A i \in DOMAIN ext : ext[i] = Space
         THEN UpToSpaces(SubSeq(raw, 1, BaseSize))
         ELSE UpToSpaces(SubSeq(raw, 1, BaseSize)) \o <<Dot>> \o UpToSpaces(ext)
  BY <1>2 DEF format_short_name, UpToSpaces
<1>6. (\A i \in DOMAIN ext : ext[i] = Space) <=> e = <<>>
  <2>1. /\ Len(ext) = ExtSize /\ DOMAIN ext = 1 .. ExtSize
        /\ \A i \in 1 .. ExtSize : ext[i] = IF i <= Len(e) THEN e[i] ELSE Space
    <3>1. /\ ext \in Seq(S \cup {Space}) /\ Len(ext) = ExtSize
          /\ \A i \in 1 .. ExtSize : ext[i] = IF i <= Len(e) THEN e[i] ELSE Space
      BY <1>3, Sizes, PadIs
    <3>2. DOMAIN ext = 1 .. Len(ext)
      BY <3>1
    <3> QED BY <3>1, <3>2
  <2>2. CASE e = <<>>
    <3>1. Len(e) = 0
      BY <2>2
    <3>2. \A i \in 1 .. ExtSize : ~(i <= Len(e))
      BY <3>1
    <3> QED BY <2>1, <2>2, <3>2
  <2>3. CASE e # <<>>
    <3>1. Len(e) \in Nat \ {0}
      BY <2>3, EmptySeq
    <3>2. 1 \in 1 .. Len(e) /\ 1 \in 1 .. ExtSize /\ 1 <= Len(e)
      BY <3>1, Sizes
    <3>3. e[1] \in S /\ ext[1] = e[1]
      BY <2>1, <3>2
    <3>4. ext[1] # Space
      BY <3>3
    <3> QED BY <2>1, <2>3, <3>2, <3>4
  <2> QED BY <2>2, <2>3
<1> QED BY <1>1, <1>3, <1>4, <1>5, <1>6 DEF TextOf

\* t is b, a dot and e.
IsTextOf(t, b, e, S) ==
    /\ t \in Seq(S \cup {Dot})
    /\ Len(t) = Len(b) + 1 + Len(e)
    /\ \A i \in 1 .. Len(b) : t[i] = b[i]
    /\ t[Len(b) + 1] = Dot
    /\ \A i \in 1 .. Len(e) : t[Len(b) + 1 + i] = e[i]

\* The characters of what is shown.
LEMMA TextOfIs ==
  ASSUME NEW S, NEW b \in Seq(S), NEW e \in Seq(S), e # <<>>
  PROVE  IsTextOf(TextOf(b, e), b, e, S)
<1> DEFINE V == S \cup {Dot}
<1>1. S \subseteq V /\ <<Dot>> \in Seq(V) /\ Len(<<Dot>>) = 1 /\ <<Dot>>[1] = Dot
  OBVIOUS
<1> HIDE DEF V
<1>2. b \in Seq(V) /\ e \in Seq(V) /\ Len(b) \in Nat /\ Len(e) \in Nat
  BY <1>1, SeqMonotonic
<1>3. PICK d : d = <<Dot>>
  OBVIOUS
<1>4. PICK c : c = b \o d
  OBVIOUS
<1>5. /\ c \in Seq(V) /\ Len(c) = Len(b) + 1
      /\ \A i \in 1 .. Len(b) + 1 : c[i] = IF i <= Len(b) THEN b[i] ELSE d[i - Len(b)]
  BY <1>1, <1>2, <1>3, <1>4, ConcatProperties
<1>6. PICK t : t = c \o e
  OBVIOUS
<1>7. /\ t \in Seq(V) /\ Len(t) = Len(c) + Len(e)
      /\ \A i \in 1 .. Len(c) + Len(e) : t[i] = IF i <= Len(c) THEN c[i] ELSE e[i - Len(c)]
  BY <1>2, <1>5, <1>6, ConcatProperties
<1>8. TextOf(b, e) = t
  BY <1>3, <1>4, <1>6 DEF TextOf
<1>9. Len(t) = Len(b) + 1 + Len(e)
  BY <1>2, <1>5, <1>7
<1>10. \A i \in 1 .. Len(b) : t[i] = b[i]
  <2> SUFFICES ASSUME NEW i \in 1 .. Len(b) PROVE t[i] = b[i]
    OBVIOUS
  <2>1. i \in 1 .. Len(b) + 1 /\ i \in 1 .. Len(c) + Len(e) /\ i <= Len(c) /\ i <= Len(b)
    BY <1>2, <1>5
  <2> QED BY <1>5, <1>7, <2>1
<1>11. t[Len(b) + 1] = Dot
  <2>1. PICK i \in Nat : i = Len(b) + 1
    BY <1>2
  <2>2. i \in 1 .. Len(b) + 1 /\ i \in 1 .. Len(c) + Len(e) /\ i <= Len(c) /\ ~(i <= Len(b))
        /\ i - Len(b) = 1
    BY <1>2, <1>5, <2>1
  <2>3. t[i] = d[1]
    BY <1>5, <1>7, <2>2
  <2> QED BY <1>1, <1>3, <2>1, <2>3
<1>12. \A i \in 1 .. Len(e) : t[Len(b) + 1 + i] = e[i]
  <2> SUFFICES ASSUME NEW i \in 1 .. Len(e) PROVE t[Len(b) + 1 + i] = e[i]
    OBVIOUS
  <2>1. PICK j \in Nat : j = Len(b) + 1 + i
    BY <1>2
  <2>2. j \in 1 .. Len(c) + Len(e) /\ ~(j <= Len(c)) /\ j - Len(c) = i
    BY <1>2, <1>5, <2>1
  <2> QED BY <1>7, <2>1, <2>2
<1> QED BY <1>7, <1>8, <1>9, <1>10, <1>11, <1>12 DEF V, IsTextOf

\* A base and an extension without dots can be told from what is shown.
LEMMA PartsAre ==
  ASSUME NEW S, Dot \notin S, NEW b \in Seq(S), NEW e \in Seq(S), b # <<>>
  PROVE  BaseOf(TextOf(b, e)) = b /\ ExtOf(TextOf(b, e)) = e
<1>1. Len(b) \in Nat \ {0} /\ Len(e) \in Nat
  BY EmptySeq
<1>2. CASE e = <<>>
  <2>1. TextOf(b, e) = b
    BY <1>2 DEF TextOf
  <2>2. {i \in DOMAIN b : b[i] = Dot} = {}
    <3>1. \A i \in 1 .. Len(b) : b[i] \in S
      OBVIOUS
    <3>2. DOMAIN b = 1 .. Len(b)
      OBVIOUS
    <3> QED BY <3>1, <3>2
  <2>3. LastDot(b) = 0
    BY <2>2 DEF LastDot
  <2> QED BY <1>2, <2>1, <2>3 DEF BaseOf, ExtOf
<1>3. CASE e # <<>>
  <2>1. PICK t : t = TextOf(b, e)
    OBVIOUS
  <2>2. /\ t \in Seq(S \cup {Dot})
        /\ Len(t) = Len(b) + 1 + Len(e)
        /\ \A i \in 1 .. Len(b) : t[i] = b[i]
        /\ t[Len(b) + 1] = Dot
        /\ \A i \in 1 .. Len(e) : t[Len(b) + 1 + i] = e[i]
    <3>1. IsTextOf(TextOf(b, e), b, e, S)
      BY <1>3, TextOfIs
    <3> QED BY <2>1, <3>1 DEF IsTextOf
  <2>3. DOMAIN t = 1 .. Len(t) /\ Len(e) \in Nat \ {0}
    BY <1>3, <2>2, EmptySeq
  <2> DEFINE dots == {i \in DOMAIN t : t[i] = Dot}
             last == CHOOSE i \in dots : \A j \in dots : j <= i
  <2>4. \A i \in 1 .. Len(t) : t[i] = Dot => i = Len(b) + 1
    <3> SUFFICES ASSUME NEW i \in 1 .. Len(t), i # Len(b) + 1 PROVE t[i] # Dot
      OBVIOUS
    <3>1. CASE i \in 1 .. Len(b)
      <4>1. t[i] = b[i] /\ b[i] \in S
        BY <2>2, <3>1
      <4> QED BY <4>1
    <3>2. CASE i \notin 1 .. Len(b)
      <4>1. PICK j \in 1 .. Len(e) : i = Len(b) + 1 + j
        <5>1. i - (Len(b) + 1) \in 1 .. Len(e) /\ i = Len(b) + 1 + (i - (Len(b) + 1))
          BY <1>1, <2>2, <3>2
        <5> QED BY <5>1
      <4>2. t[i] = e[j] /\ e[j] \in S
        BY <2>2, <4>1
      <4> QED BY <4>2
    <3> QED BY <3>1, <3>2
  <2>5. dots = {Len(b) + 1}
    <3>1. Len(b) + 1 \in 1 .. Len(t)
      BY <1>1, <2>2
    <3> QED BY <2>2, <2>3, <2>4, <3>1
  <2>6. LastDot(t) = IF dots = {} \/ last \in {1, Len(t)} THEN 0 ELSE last
    BY DEF LastDot
  <2> HIDE DEF dots
  <2>7. last = Len(b) + 1
    <3>1. Len(b) + 1 <= Len(b) + 1
      BY <1>1
    <3> QED BY <2>5, <3>1
  <2> HIDE DEF last
  <2>8. LastDot(t) = Len(b) + 1 /\ LastDot(t) # 0
    BY <1>1, <2>2, <2>3, <2>5, <2>6, <2>7
  <2>9. BaseOf(t) = SubSeq(t, 1, Len(b))
    <3>1. (Len(b) + 1) - 1 = Len(b)
      BY <1>1
    <3> QED BY <2>8, <3>1 DEF BaseOf
  <2>10. SubSeq(t, 1, Len(b)) = b
    <3>1. \A i \in 1 .. Len(b) : t[i] \in S
      BY <2>2
    <3>2. PICK u : u = SubSeq(t, 1, Len(b))
      OBVIOUS
    <3>3. /\ u \in Seq(S) /\ Len(u) = IF 1 <= Len(b) THEN Len(b) - 1 + 1 ELSE 0
          /\ \A i \in 1 .. Len(b) - 1 + 1 : u[i] = t[1 + i - 1]
      BY <1>1, <3>1, <3>2, SubSeqProperties
    <3>4. Len(b) - 1 + 1 = Len(b) /\ \A i \in 1 .. Len(b) : 1 + i - 1 = i
      BY <1>1
    <3>5. Len(u) = Len(b) /\ \A i \in 1 .. Len(b) : u[i] = b[i]
      BY <1>1, <2>2, <3>3, <3>4
    <3> QED BY <3>2, <3>3, <3>5, SeqEqual
  <2>11. ExtOf(t) = SubSeq(t, Len(b) + 2, Len(t))
    <3>1. (Len(b) + 1) + 1 = Len(b) + 2
      BY <1>1
    <3> QED BY <2>8, <3>1 DEF ExtOf
  <2>12. SubSeq(t, Len(b) + 2, Len(t)) = e
    <3>1. PICK m \in Nat : m = Len(b) + 2
      BY <1>1
    <3>2. PICK n \in Nat : n = Len(t)
      BY <2>2
    <3>3. n - m + 1 = Len(e) /\ m <= n
      BY <1>1, <2>2, <2>3, <3>1, <3>2
    <3>4. \A i \in 1 .. Len(e) : m + i - 1 = Len(b) + 1 + i
      BY <1>1, <3>1
    <3>5. \A i \in m .. n : t[i] \in S
      <4> SUFFICES ASSUME NEW i \in m .. n PROVE t[i] \in S
        OBVIOUS
      <4>1. i - (Len(b) + 1) \in 1 .. Len(e) /\ i = Len(b) + 1 + (i - (Len(b) + 1))
        BY <1>1, <2>2, <3>1, <3>2
      <4>2. t[i] = e[i - (Len(b) + 1)]
        BY <2>2, <4>1
      <4> QED BY <4>1, <4>2
    <3>6. PICK u : u = SubSeq(t, m, n)
      OBVIOUS
    <3>7. /\ u \in Seq(S) /\ Len(u) = IF m <= n THEN n - m + 1 ELSE 0
          /\ \A i \in 1 .. n - m + 1 : u[i] = t[m + i - 1]
      BY <3>5, <3>6, SubSeqProperties
    <3>8. Len(u) = Len(e) /\ \A i \in 1 .. Len(e) : u[i] = e[i]
      BY <2>2, <3>3, <3>4, <3>7
    <3> QED BY <3>1, <3>2, <3>6, <3>7, <3>8, SeqEqual
  <2> QED BY <2>1, <2>9, <2>10, <2>11, <2>12
<1> QED BY <1>2, <1>3

-----------------------------------------------------------------------------
(* Short names: those that can be typed again.                             *)

\* Characters that an 8.3 name may have.
InCapitals(S) ==
    /\ Space \notin S /\ Dot \notin S
    /\ \A x \in S : x \notin Invalid /\ Upper(x) = x

\* What is shown of them starts and ends with one, and has dots between them.
LEMMA ShownIs ==
  ASSUME NEW S, NEW b \in Seq(S), NEW e \in Seq(S), b # <<>>,
         Len(b) <= BaseSize, Len(e) <= ExtSize,
         NEW t, t = TextOf(b, e)
  PROVE  /\ t \in Seq(S \cup {Dot}) /\ Len(t) \in Nat \ {0} /\ Len(t) < Capacity
         /\ t[1] \in S /\ t[Len(t)] \in S
<1>1. Len(b) \in Nat \ {0} /\ Len(e) \in Nat
  BY EmptySeq
<1>2. CASE e = <<>>
  <2>1. t = b
    BY <1>2 DEF TextOf
  <2>2. b \in Seq(S \cup {Dot})
    BY SeqMonotonic
  <2>3. 1 \in 1 .. Len(b) /\ Len(b) \in 1 .. Len(b)
    BY <1>1
  <2>4. b[1] \in S /\ b[Len(b)] \in S
    BY <2>3
  <2>5. Len(b) < Capacity
    BY <1>1, Sizes
  <2> QED BY <1>1, <2>1, <2>2, <2>4, <2>5
<1>3. CASE e # <<>>
  <2>1. IsTextOf(t, b, e, S)
    BY <1>3, TextOfIs
  <2>2. Len(e) \in Nat \ {0}
    BY <1>3, EmptySeq
  <2>3. Len(t) \in Nat \ {0} /\ Len(t) < Capacity
    BY <1>1, <2>1, <2>2, Sizes DEF IsTextOf
  <2>4. t[1] \in S
    <3>1. 1 \in 1 .. Len(b)
      BY <1>1
    <3> QED BY <2>1, <3>1 DEF IsTextOf
  <2>5. t[Len(t)] \in S
    <3>1. PICK k \in 1 .. Len(e) : k = Len(e)
      BY <2>2
    <3>2. t[Len(b) + 1 + k] = e[k] /\ e[k] \in S
      <4>1. e[k] \in S
        OBVIOUS
      <4> QED BY <2>1, <4>1 DEF IsTextOf
    <3>3. Len(t) = Len(b) + 1 + k
      BY <2>1, <3>1 DEF IsTextOf
    <3> QED BY <3>2, <3>3
  <2> QED BY <2>1, <2>3, <2>4, <2>5 DEF IsTextOf
<1> QED BY <1>2, <1>3

\* Capitals and dots stay what they are.
LEMMA UppercaseSame ==
  ASSUME NEW S, NEW t \in Seq(S), \A x \in S : Upper(x) = x
  PROVE  Uppercase(t) = t
<1>1. \A i \in 1 .. Len(t) : t[i] \in S
  OBVIOUS
<1>2. \A i \in 1 .. Len(t) : Upper(t[i]) \in S /\ Upper(t[i]) = t[i]
  BY <1>1
<1>3. /\ Uppercase(t) \in Seq(S) /\ Len(Uppercase(t)) = Len(t)
      /\ \A i \in 1 .. Len(t) : Uppercase(t)[i] = Upper(t[i])
  BY <1>2, UppercaseIs
<1> QED BY <1>2, <1>3, SeqEqual

\* The dot is a capital of its own, and a name may have one.
LEMMA DotIs == Upper(Dot) = Dot /\ Dot \notin Invalid
<1>1. Dot \in Own
  BY DEF Own
<1> QED BY <1>1, UpperAssumption, ShortNameAssumption

\* An 8.3 name of such characters can be typed again.
LEMMA NameableIs ==
  ASSUME NEW S, InCapitals(S), NEW b \in Seq(S), NEW e \in Seq(S), b # <<>>,
         Len(b) <= BaseSize, Len(e) <= ExtSize, short = Stem(b, e)
  PROVE  ShortNameable
<1>1. PICK t : t = TextOf(b, e)
  OBVIOUS
<1>2. format_short_name(short) = t
  BY <1>1, FormatIs DEF InCapitals
<1>3. /\ t \in Seq(S \cup {Dot}) /\ Len(t) \in Nat \ {0} /\ Len(t) < Capacity
      /\ t[1] \in S /\ t[Len(t)] \in S
  BY <1>1, ShownIs
<1>4. validate_long_name(t)
  <2>1. t # <<>> /\ t # <<Dot>> /\ t # <<Dot, Dot>>
    <3>1. t # <<>>
      <4>1. Len(<<>>) = 0
        OBVIOUS
      <4> QED BY <1>3, <4>1
    <3>2. <<Dot>>[1] = Dot /\ <<Dot, Dot>>[1] = Dot
      OBVIOUS
    <3>3. t[1] # Dot
      BY <1>3 DEF InCapitals
    <3> QED BY <3>1, <3>2, <3>3
  <2>2. \A i \in DOMAIN t : t[i] \notin Invalid
    <3>1. \A i \in DOMAIN t : t[i] \in S \cup {Dot}
      BY <1>3
    <3> QED BY <3>1, DotIs DEF InCapitals
  <2>3. Last(t) \notin {Space, Dot}
    BY <1>3 DEF Last, InCapitals
  <2> QED BY <1>3, <2>1, <2>2, <2>3 DEF validate_long_name
<1>5. t = Uppercase(t)
  <2>1. \A x \in S \cup {Dot} : Upper(x) = x
    BY DotIs DEF InCapitals
  <2> QED BY <1>3, <2>1, UppercaseSame
<1>6. BaseOf(t) = b /\ ExtOf(t) = e
  BY <1>1, PartsAre DEF InCapitals
<1>7. Pad(BaseOf(t), BaseSize) \o Pad(ExtOf(t), ExtSize) = short
  BY <1>6 DEF Stem
<1> QED BY <1>2, <1>4, <1>5, <1>7 DEF ShortNameable

-----------------------------------------------------------------------------
(* Short names: the parts of a name.                                       *)

\* A name, with what is assumed of its characters.
Typable(n) ==
    /\ IsSequence(n)
    /\ \A x \in Range(n) :
           /\ Upper(Upper(x)) = Upper(x)
           /\ x \notin Invalid => Upper(x) \notin Invalid
           /\ Upper(x) = Dot <=> x = Dot
           /\ Upper(x) = Space <=> x = Space

\* The characters of the 8.3 names of a name.
Capitals(n) ==
    {x \in {Upper(y) : y \in Range(n)} \cup Own :
        /\ x # Space /\ x # Dot /\ x \notin Invalid
        /\ Upper(x) = x}

\* They are capitals.
LEMMA CapitalsAre == \A n : InCapitals(Capitals(n))
BY DEF InCapitals, Capitals

\* The names that the calls pass are such names.
LEMMA CaseNames ==
  ASSUME NEW c \in Cases
  PROVE  Typable(c.name) /\ IsSequence(c.dir)
         /\ \A k \in DOMAIN c.dir : IsSequence(c.dir[k])
<1>1. \A x \in Range(c.name) : \E i \in DOMAIN c.name : x = c.name[i]
  BY DEF Range
<1>2. \A i \in DOMAIN c.name :
         /\ Upper(Upper(c.name[i])) = Upper(c.name[i])
         /\ c.name[i] \notin Invalid => Upper(c.name[i]) \notin Invalid
         /\ Upper(c.name[i]) = Dot <=> c.name[i] = Dot
         /\ Upper(c.name[i]) = Space <=> c.name[i] = Space
  BY UpperAssumption
<1>3. \A x \in Range(c.name) :
         /\ Upper(Upper(x)) = Upper(x)
         /\ x \notin Invalid => Upper(x) \notin Invalid
         /\ Upper(x) = Dot <=> x = Dot
         /\ Upper(x) = Space <=> x = Space
  BY <1>1, <1>2
<1> QED BY <1>3, CasesAssumption DEF Typable

\* Where the extension starts.
LEMMA LastDotIs ==
  ASSUME NEW S, NEW n \in Seq(S)
  PROVE  \/ LastDot(n) = 0
         \/ (LastDot(n) \in 2 .. Len(n) - 1 /\ n[LastDot(n)] = Dot)
<1> DEFINE dots == {i \in DOMAIN n : n[i] = Dot}
           last == CHOOSE i \in dots : \A j \in dots : j <= i
<1>1. LastDot(n) = IF dots = {} \/ last \in {1, Len(n)} THEN 0 ELSE last
  BY DEF LastDot
<1>2. DOMAIN n = 1 .. Len(n) /\ Len(n) \in Nat
  OBVIOUS
<1>3. dots \subseteq 1 .. Len(n)
  BY <1>2
<1>4. CASE dots = {}
  BY <1>1, <1>4
<1>5. CASE dots # {}
  <2> DEFINE T == {Len(n) - i : i \in dots}
  <2>1. T \in SUBSET Nat /\ T # {}
    BY <1>2, <1>5
  <2>2. PICK x \in T : \A y \in T : x <= y
    <3> HIDE DEF T
    <3> QED BY <2>1, LeastElement
  <2>3. PICK i \in dots : x = Len(n) - i
    OBVIOUS
  <2>4. \A j \in dots : j <= i
    <3> SUFFICES ASSUME NEW j \in dots PROVE j <= i
      OBVIOUS
    <3>1. Len(n) - j \in T /\ j \in Nat /\ i \in Nat
      <4> HIDE DEF dots
      <4> QED BY <1>2, <1>3
    <3>2. Len(n) - i <= Len(n) - j
      BY <2>2, <2>3, <3>1
    <3> QED BY <1>2, <3>1, <3>2
  <2>5. last \in dots
    <3> HIDE DEF dots
    <3> QED BY <2>4
  <2> HIDE DEF last
  <2>6. last \in 1 .. Len(n) /\ n[last] = Dot
    BY <1>2, <2>5
  <2>7. CASE last \in {1, Len(n)}
    BY <1>1, <2>7
  <2>8. CASE last \notin {1, Len(n)}
    <3>1. last \in 2 .. Len(n) - 1
      <4>1. PICK l : l = last /\ l \in 1 .. Len(n) /\ l # 1 /\ l # Len(n)
        BY <2>6, <2>8
      <4>2. l \in 2 .. Len(n) - 1
        <5>1. PICK k \in Nat : k = Len(n)
          BY <1>2
        <5>2. l \in 1 .. k /\ l # 1 /\ l # k
          BY <4>1, <5>1, Zenon
        <5>3. l \in 2 .. k - 1
          BY ONLY <5>2, k \in Nat
        <5> QED BY <5>1, <5>3, Zenon
      <4> QED BY <4>1, <4>2, Zenon
    <3>2. LastDot(n) = last
      BY <1>1, <1>5, <2>8
    <3> QED BY <2>6, <3>1, <3>2
  <2> QED BY <2>7, <2>8
<1> QED BY <1>4, <1>5

\* A part of a sequence.
LEMMA SubSeqIs ==
  ASSUME NEW S, NEW n \in Seq(S), NEW i \in Nat, NEW j \in Nat, 1 <= i, j <= Len(n)
  PROVE  /\ SubSeq(n, i, j) \in Seq(S)
         /\ Len(SubSeq(n, i, j)) = IF i <= j THEN j - i + 1 ELSE 0
         /\ \A k \in Nat : 1 <= k /\ k <= j - i + 1 => SubSeq(n, i, j)[k] = n[i + k - 1]
<1>1. \A k \in i .. j : n[k] \in S
  OBVIOUS
<1>2. /\ SubSeq(n, i, j) \in Seq(S)
      /\ Len(SubSeq(n, i, j)) = IF i <= j THEN j - i + 1 ELSE 0
      /\ \A k \in 1 .. j - i + 1 : SubSeq(n, i, j)[k] = n[i + k - 1]
  BY <1>1, SubSeqProperties
<1>3. \A k \in Nat : 1 <= k /\ k <= j - i + 1 => k \in 1 .. j - i + 1
  OBVIOUS
<1> QED BY <1>2, <1>3

\* The base and the extension.
LEMMA PartsType ==
  ASSUME NEW S, NEW n \in Seq(S)
  PROVE  BaseOf(n) \in Seq(S) /\ ExtOf(n) \in Seq(S)
<1>1. CASE LastDot(n) = 0
  BY <1>1 DEF BaseOf, ExtOf
<1>2. CASE LastDot(n) # 0
  <2>1. PICK d \in Nat : d = LastDot(n) /\ d \in 2 .. Len(n) - 1
    BY <1>2, LastDotIs
  <2>2. PICK m \in Nat : m = d - 1 /\ m <= Len(n)
    BY <2>1
  <2>3. PICK k \in Nat : k = d + 1 /\ 1 <= k
    BY <2>1
  <2>4. PICK l \in Nat : l = Len(n)
    OBVIOUS
  <2>5. SubSeq(n, 1, m) \in Seq(S) /\ SubSeq(n, k, l) \in Seq(S)
    BY <2>2, <2>3, <2>4, SubSeqIs
  <2> QED BY <1>2, <2>1, <2>2, <2>3, <2>4, <2>5 DEF BaseOf, ExtOf
<1> QED BY <1>1, <1>2

-----------------------------------------------------------------------------
(* Short names: the exact form.                                            *)

\* A capital of a character of the name is one of its capitals.
LEMMA UpperIn ==
  ASSUME NEW n, Typable(n), NEW x \in Range(n), x \notin Invalid, x # Dot, x # Space
  PROVE  Upper(x) \in Capitals(n)
<1>1. Upper(x) # Dot /\ Upper(x) # Space
  BY DEF Typable
<1>2. Upper(x) \notin Invalid /\ Upper(Upper(x)) = Upper(x)
  BY DEF Typable
<1>3. Upper(x) \in {Upper(y) : y \in Range(n)} \cup Own
  OBVIOUS
<1> QED BY <1>1, <1>2, <1>3 DEF Capitals

\* A name with an exact form is its base, or its base, a dot and its extension.
LEMMA ExactSplits ==
  ASSUME NEW S, NEW n \in Seq(S), n # <<>>, Len(BaseOf(n)) \in 1 .. BaseSize,
         \A i \in DOMAIN n : n[i] = Dot => i = LastDot(n)
  PROVE  /\ BaseOf(n) \in Seq(S \ {Dot}) /\ ExtOf(n) \in Seq(S \ {Dot})
         /\ \/ (BaseOf(n) = n /\ ExtOf(n) = <<>>)
            \/ (ExtOf(n) # <<>> /\ IsTextOf(n, BaseOf(n), ExtOf(n), S \ {Dot}))
<1> DEFINE P == S \ {Dot}
<1>1. \A i \in 1 .. Len(n) : i # LastDot(n) => n[i] \in P
  OBVIOUS
<1>2. Len(n) \in Nat
  OBVIOUS
<1> HIDE DEF P
<1>3. CASE LastDot(n) = 0
  <2>1. BaseOf(n) = n /\ ExtOf(n) = <<>>
    BY <1>3 DEF BaseOf, ExtOf
  <2>2. \A i \in 1 .. Len(n) : n[i] \in P
    BY <1>1, <1>3
  <2>3. n \in Seq(P) /\ <<>> \in Seq(P)
    BY <2>2
  <2> QED BY <2>1, <2>3 DEF P
<1>4. CASE LastDot(n) # 0
  <2>1. PICK d \in Nat : d = LastDot(n) /\ d \in 2 .. Len(n) - 1 /\ n[d] = Dot
    <3>1. LastDot(n) \in 2 .. Len(n) - 1 /\ n[LastDot(n)] = Dot
      BY <1>4, LastDotIs
    <3>2. LastDot(n) \in Nat
      BY <1>2, <3>1
    <3> QED BY <3>1, <3>2
  <2>2. PICK l \in Nat : l = Len(n) /\ 2 <= d /\ d < l
    BY <1>2, <2>1
  <2>3. PICK m \in Nat : m = d - 1
    BY <2>2
  <2>4. PICK k \in Nat : k = d + 1
    BY <2>2
  <2>5. PICK b : b = SubSeq(n, 1, m)
    OBVIOUS
  <2>6. PICK e : e = SubSeq(n, k, l)
    OBVIOUS
  <2>7. BaseOf(n) = b /\ ExtOf(n) = e
    BY <1>4, <2>1, <2>2, <2>3, <2>4, <2>5, <2>6 DEF BaseOf, ExtOf
  <2>8. b \in Seq(P) /\ Len(b) = m /\ \A i \in 1 .. m : b[i] = n[i]
    <3>1. \A i \in 1 .. m : n[i] \in P
      BY <1>1, <2>1, <2>2, <2>3
    <3>2. /\ b \in Seq(P) /\ Len(b) = IF 1 <= m THEN m - 1 + 1 ELSE 0
          /\ \A i \in 1 .. m - 1 + 1 : b[i] = n[1 + i - 1]
      BY <2>5, <3>1, SubSeqProperties
    <3>3. \A i \in 1 .. m : i \in 1 .. m - 1 + 1 /\ 1 + i - 1 = i
      OBVIOUS
    <3>4. Len(b) = m
      BY <2>2, <2>3, <3>2
    <3> QED BY <3>2, <3>3, <3>4
  <2>9. e \in Seq(P) /\ Len(e) = l - d /\ \A i \in 1 .. l - d : e[i] = n[d + i]
    <3>1. \A i \in k .. l : n[i] \in P
      BY <1>1, <2>1, <2>2, <2>4
    <3>2. /\ e \in Seq(P) /\ Len(e) = IF k <= l THEN l - k + 1 ELSE 0
          /\ \A i \in 1 .. l - k + 1 : e[i] = n[k + i - 1]
      BY <2>6, <3>1, SubSeqProperties
    <3>3. l - k + 1 = l - d /\ k <= l /\ \A i \in 1 .. l - d : k + i - 1 = d + i
      BY <2>2, <2>4
    <3> QED BY <3>2, <3>3
  <2>10. e # <<>>
    <3>1. Len(e) # 0
      BY <2>2, <2>9
    <3> QED BY <3>1
  <2>11. IsTextOf(n, b, e, P)
    <3>1. n \in Seq(P \cup {Dot})
      <4>1. S \subseteq P \cup {Dot}
        BY DEF P
      <4> QED BY <4>1, SeqMonotonic
    <3>2. Len(n) = Len(b) + 1 + Len(e)
      BY <2>2, <2>3, <2>8, <2>9
    <3>3. \A i \in 1 .. Len(b) : n[i] = b[i]
      BY <2>8
    <3>4. n[Len(b) + 1] = Dot
      <4>1. Len(b) + 1 = d
        BY <2>3, <2>8
      <4> QED BY <2>1, <4>1
    <3>5. \A i \in 1 .. Len(e) : n[Len(b) + 1 + i] = e[i]
      <4>1. \A i \in 1 .. Len(e) : Len(b) + 1 + i = d + i /\ i \in 1 .. l - d
        BY <2>2, <2>3, <2>8, <2>9
      <4> QED BY <2>9, <4>1
    <3> QED BY <3>1, <3>2, <3>3, <3>4, <3>5 DEF IsTextOf
  <2> QED BY <2>7, <2>8, <2>9, <2>10, <2>11 DEF P
<1> QED BY <1>3, <1>4

\* What it looks like in capitals.
LEMMA TextInCapitals ==
  ASSUME NEW S, NEW b \in Seq(S), NEW e \in Seq(S), NEW n, IsTextOf(n, b, e, S),
         e # <<>>, NEW U, \A x \in S : Upper(x) \in U
  PROVE  TextOf(Uppercase(b), Uppercase(e)) = Uppercase(n)
<1>1. PICK c \in Seq(U) : c = Uppercase(b) /\ Len(c) = Len(b)
                       /\ \A i \in 1 .. Len(b) : c[i] = Upper(b[i])
  <2>1. \A i \in 1 .. Len(b) : Upper(b[i]) \in U
    OBVIOUS
  <2> QED BY <2>1, UppercaseIs
<1>2. PICK f \in Seq(U) : f = Uppercase(e) /\ Len(f) = Len(e)
                       /\ \A i \in 1 .. Len(e) : f[i] = Upper(e[i])
  <2>1. \A i \in 1 .. Len(e) : Upper(e[i]) \in U
    OBVIOUS
  <2> QED BY <2>1, UppercaseIs
<1>3. Len(b) \in Nat /\ Len(e) \in Nat /\ Len(e) # 0
  BY EmptySeq
<1>4. f # <<>>
  <2>1. Len(<<>>) = 0
    OBVIOUS
  <2> QED BY <1>2, <1>3, <2>1
<1>5. PICK t : t = TextOf(c, f)
  OBVIOUS
<1>6. IsTextOf(t, c, f, U)
  BY <1>4, <1>5, TextOfIs
<1>7. PICK u : u = Uppercase(n)
  OBVIOUS
<1>8. /\ u \in Seq(U \cup {Dot}) /\ Len(u) = Len(n)
      /\ \A i \in 1 .. Len(n) : u[i] = Upper(n[i])
  <2>1. n \in Seq(S \cup {Dot})
    BY DEF IsTextOf
  <2>2. \A x \in S \cup {Dot} : Upper(x) \in U \cup {Dot}
    BY DotIs
  <2>3. \A i \in 1 .. Len(n) : n[i] \in S \cup {Dot}
    BY <2>1
  <2>4. \A i \in 1 .. Len(n) : Upper(n[i]) \in U \cup {Dot}
    BY <2>2, <2>3
  <2> QED BY <1>7, <2>1, <2>4, UppercaseIs
<1>9. Len(t) = Len(n) /\ t \in Seq(U \cup {Dot})
  BY <1>1, <1>2, <1>6 DEF IsTextOf
<1>10. \A i \in 1 .. Len(t) : t[i] = u[i]
  <2> SUFFICES ASSUME NEW i \in 1 .. Len(t) PROVE t[i] = u[i]
    OBVIOUS
  <2>1. u[i] = Upper(n[i])
    BY <1>8, <1>9
  <2>2. Len(t) = Len(b) + 1 + Len(e)
    BY <1>9 DEF IsTextOf
  <2>3. CASE i \in 1 .. Len(b)
    <3>1. t[i] = c[i]
      BY <1>1, <1>6, <2>3 DEF IsTextOf
    <3>2. n[i] = b[i]
      BY <2>3 DEF IsTextOf
    <3>3. c[i] = Upper(b[i])
      BY <1>1, <2>3
    <3> QED BY <2>1, <3>1, <3>2, <3>3
  <2>4. CASE i = Len(b) + 1
    <3>1. n[i] = Dot
      BY <2>4 DEF IsTextOf
    <3>2. t[i] = Dot
      BY <1>1, <1>6, <2>4 DEF IsTextOf
    <3> QED BY <2>1, <3>1, <3>2, DotIs
  <2>5. CASE i \notin 1 .. Len(b) /\ i # Len(b) + 1
    <3>1. PICK j \in 1 .. Len(e) : i = Len(b) + 1 + j
      <4>1. i - (Len(b) + 1) \in 1 .. Len(e) /\ i = Len(b) + 1 + (i - (Len(b) + 1))
        BY <1>3, <2>2, <2>5
      <4> QED BY <4>1
    <3>2. n[i] = e[j]
      BY <3>1 DEF IsTextOf
    <3>3. t[i] = f[j]
      BY <1>1, <1>2, <1>6, <3>1 DEF IsTextOf
    <3>4. f[j] = Upper(e[j])
      BY <1>2
    <3> QED BY <2>1, <3>2, <3>3, <3>4
  <2> QED BY <2>3, <2>4, <2>5
<1>11. t = u
  BY <1>8, <1>9, <1>10, SeqEqual
<1> QED BY <1>1, <1>2, <1>5, <1>7, <1>11

\* The exact form is an 8.3 name of capitals, and shows the name in capitals.
LEMMA ExactParts ==
  ASSUME NEW n, Typable(n), HasExactForm(n)
  PROVE  \E b \in Seq(Capitals(n)) : \E e \in Seq(Capitals(n)) :
            /\ b # <<>> /\ Len(b) <= BaseSize /\ Len(e) <= ExtSize
            /\ make_short_name_if_possible(n) = Stem(b, e)
            /\ TextOf(b, e) = Uppercase(n)
<1> DEFINE S == {x \in Range(n) : x \notin Invalid /\ x # Space}
           P == S \ {Dot}
           C == Capitals(n)
<1>1. n \in Seq(S)
  <2>1. n \in Seq(Range(n))
    BY DEF Typable, IsSequence
  <2>2. DOMAIN n = 1 .. Len(n)
    BY <2>1
  <2>3. \A i \in 1 .. Len(n) : n[i] \notin Invalid /\ n[i] # Space
    BY <2>2, ShortNameAssumption DEF HasExactForm, validate_long_name
  <2>4. \A i \in 1 .. Len(n) : n[i] \in Range(n)
    BY <2>1
  <2>5. \A i \in 1 .. Len(n) : n[i] \in S
    BY <2>3, <2>4
  <2> HIDE DEF S
  <2> QED BY <2>1, <2>5
<1>2. \A x \in P : Upper(x) \in C
  BY UpperIn
<1>3. n # <<>>
  BY DEF HasExactForm, validate_long_name
<1> HIDE DEF S, C
<1>4. PICK base : base = BaseOf(n)
  OBVIOUS
<1>5. PICK ext : ext = ExtOf(n)
  OBVIOUS
<1>6. /\ base \in Seq(P) /\ ext \in Seq(P)
      /\ (base = n /\ ext = <<>>) \/ (ext # <<>> /\ IsTextOf(n, base, ext, P))
  BY <1>1, <1>3, <1>4, <1>5, ExactSplits DEF HasExactForm
<1>7. Len(base) \in 1 .. BaseSize /\ Len(ext) <= ExtSize
  BY <1>4, <1>5 DEF HasExactForm
<1>8. Without(base, {Dot}) = base /\ Without(ext, {Dot}) = ext
  <2>1. \A i \in 1 .. Len(base) : base[i] \notin {Dot}
    BY <1>6
  <2>2. \A i \in 1 .. Len(ext) : ext[i] \notin {Dot}
    BY <1>6
  <2> HIDE DEF P
  <2> QED BY <1>6, <2>1, <2>2, WithoutIs
<1>9. PICK b : b = Uppercase(base)
  OBVIOUS
<1>10. PICK e : e = Uppercase(ext)
  OBVIOUS
<1>11. b \in Seq(C) /\ Len(b) = Len(base) /\ e \in Seq(C) /\ Len(e) = Len(ext)
  <2>1. \A i \in 1 .. Len(base) : Upper(base[i]) \in C
    BY <1>2, <1>6
  <2>2. \A i \in 1 .. Len(ext) : Upper(ext[i]) \in C
    BY <1>2, <1>6
  <2> HIDE DEF P
  <2> QED BY <1>6, <1>9, <1>10, <2>1, <2>2, UppercaseIs
<1>12. make_short_name_if_possible(n) = Stem(b, e)
  BY <1>4, <1>5, <1>8, <1>9, <1>10 DEF make_short_name_if_possible, Stem
<1>13. b # <<>>
  <2>1. Len(b) # 0
    BY <1>7, <1>11
  <2> QED BY <2>1
<1>14. TextOf(b, e) = Uppercase(n)
  <2> HIDE DEF P
  <2>1. CASE base = n /\ ext = <<>>
    <3>1. Len(e) = 0
      BY <1>11, <2>1
    <3>2. e = <<>>
      BY <1>11, <3>1, EmptySeq
    <3> QED BY <1>9, <2>1, <3>2 DEF TextOf
  <2>2. CASE ext # <<>> /\ IsTextOf(n, base, ext, P)
    BY <1>2, <1>6, <1>9, <1>10, <2>2, TextInCapitals
  <2> QED BY <1>6, <2>1, <2>2
<1>15. Len(b) <= BaseSize /\ Len(e) <= ExtSize
  BY <1>7, <1>11
<1> QED BY <1>11, <1>12, <1>13, <1>14, <1>15 DEF C

-----------------------------------------------------------------------------
(* Short names: the aliases.                                               *)

\* v is u, the character t and d.
IsJoin(v, u, t, d, S) ==
    /\ v \in Seq(S)
    /\ Len(v) = Len(u) + 1 + Len(d)
    /\ v[Len(u) + 1] = t
    /\ \A i \in 1 .. Len(d) : v[Len(u) + 1 + i] = d[i]

LEMMA JoinIs ==
  ASSUME NEW S, NEW u \in Seq(S), NEW t \in S, NEW d \in Seq(S)
  PROVE  IsJoin(u \o <<t>> \o d, u, t, d, S)
<1>1. PICK w : w = <<t>>
  OBVIOUS
<1>2. w \in Seq(S) /\ Len(w) = 1 /\ w[1] = t
  BY <1>1
<1>3. PICK c : c = u \o w
  OBVIOUS
<1>4. Len(u) \in Nat /\ Len(d) \in Nat
  OBVIOUS
<1>5. /\ c \in Seq(S) /\ Len(c) = Len(u) + 1
      /\ \A i \in 1 .. Len(u) + 1 : c[i] = IF i <= Len(u) THEN u[i] ELSE w[i - Len(u)]
  <2>1. /\ c \in Seq(S) /\ Len(c) = Len(u) + Len(w)
        /\ \A i \in 1 .. Len(u) + Len(w) :
              c[i] = IF i <= Len(u) THEN u[i] ELSE w[i - Len(u)]
    BY <1>2, <1>3, ConcatProperties
  <2> QED BY <1>2, <2>1
<1>6. PICK v : v = c \o d
  OBVIOUS
<1>7. /\ v \in Seq(S) /\ Len(v) = Len(c) + Len(d)
      /\ \A i \in 1 .. Len(c) + Len(d) : v[i] = IF i <= Len(c) THEN c[i] ELSE d[i - Len(c)]
  BY <1>5, <1>6, ConcatProperties
<1>8. Len(v) = Len(u) + 1 + Len(d)
  BY <1>4, <1>5, <1>7
<1>9. v[Len(u) + 1] = t
  <2>1. PICK i \in Nat : i = Len(u) + 1
    BY <1>4
  <2>2. i \in 1 .. Len(u) + 1 /\ i \in 1 .. Len(c) + Len(d) /\ i <= Len(c)
        /\ ~(i <= Len(u)) /\ i - Len(u) = 1
    BY <1>4, <1>5, <2>1
  <2>3. v[i] = w[1]
    BY <1>5, <1>7, <2>2
  <2> QED BY <1>2, <2>1, <2>3
<1>10. \A i \in 1 .. Len(d) : v[Len(u) + 1 + i] = d[i]
  <2> SUFFICES ASSUME NEW i \in 1 .. Len(d) PROVE v[Len(u) + 1 + i] = d[i]
    OBVIOUS
  <2>1. PICK j \in Nat : j = Len(u) + 1 + i
    BY <1>4
  <2>2. j \in 1 .. Len(c) + Len(d) /\ ~(j <= Len(c)) /\ j - Len(c) = i
    BY <1>4, <1>5, <2>1
  <2> QED BY <1>7, <2>1, <2>2
<1>11. IsJoin(v, u, t, d, S)
  BY <1>7, <1>8, <1>9, <1>10 DEF IsJoin
<1> QED BY <1>1, <1>3, <1>6, <1>11

\* The kernel's own characters are capitals of every name.
LEMMA OwnIn ==
  ASSUME NEW n
  PROVE  Fallback \in Capitals(n) /\ Tilde \in Capitals(n) /\ DigitSet \subseteq Capitals(n)
<1>1. ASSUME NEW x \in Own, x # Dot, x # Space, x \notin Invalid
      PROVE  x \in Capitals(n)
  <2>1. Upper(x) = x
    BY UpperAssumption
  <2> QED BY <1>1, <2>1 DEF Capitals
<1>2. Fallback \in Capitals(n)
  <2>1. Fallback \in Own /\ Fallback # Dot /\ Fallback # Space
    BY DEF Own, Fallback, Dot, Space
  <2>2. Fallback \notin Invalid
    BY ShortNameAssumption
  <2> QED BY <1>1, <2>1, <2>2
<1>3. Tilde \in Capitals(n)
  <2>1. Tilde \in Own /\ Tilde # Dot /\ Tilde # Space
    BY DEF Own, Tilde, Dot, Space
  <2>2. Tilde \notin Invalid
    BY ShortNameAssumption
  <2> QED BY <1>1, <2>1, <2>2
<1>4. ASSUME NEW x \in DigitSet PROVE x \in Capitals(n)
  <2>1. x \in Range(DigitOf)
    BY TenDigits
  <2>2. x \in Own /\ x \notin Invalid
    BY <2>1, ShortNameAssumption DEF Own
  <2>3. x # Dot /\ x # Space
    BY TenDigits
  <2> QED BY <1>1, <2>2, <2>3
<1> QED BY <1>2, <1>3, <1>4

\* What goes into an alias are capitals.
LEMMA AliasTextIs ==
  ASSUME NEW n, Typable(n), NEW s \in Seq(Range(n))
  PROVE  AliasText(s) \in Seq(Capitals(n))
<1> DEFINE T == Invalid \cup {Dot, Space}
           P == Range(n) \ T
<1>1. \A x \in P : Upper(x) \in Capitals(n)
  BY UpperIn
<1>2. PICK w : w = Without(s, T)
  OBVIOUS
<1>3. w \in Seq(P)
  BY <1>2, WithoutIs
<1>4. \A i \in 1 .. Len(w) : Upper(w[i]) \in Capitals(n)
  BY <1>1, <1>3
<1>5. Uppercase(w) \in Seq(Capitals(n))
  BY <1>3, <1>4, UppercaseIs
<1> QED BY <1>2, <1>5 DEF AliasText

\* The extension of an alias.
AliasExt(n) == Upto(AliasText(ExtOf(n)), ExtSize)

\* The base of an alias ends in a tilde and the number, and both fit.
LEMMA AliasBaseIs ==
  ASSUME NEW n, Typable(n), NEW ord \in Nat, Len(Digits[ord]) < BaseSize
  PROVE  /\ AliasBase(n, ord) # <<>> /\ Len(AliasBase(n, ord)) <= BaseSize
         /\ \E u \in Seq(Capitals(n)) :
               IsJoin(AliasBase(n, ord), u, Tilde, Digits[ord], Capitals(n))
<1> DEFINE C == Capitals(n)
<1>1. PICK d : d = Digits[ord]
  OBVIOUS
<1>2. d \in Seq(C) /\ Len(d) \in Nat /\ Tilde \in C /\ Fallback \in C
  <2>1. d \in Seq(DigitSet)
    BY <1>1, DigitsType
  <2>2. DigitSet \subseteq C /\ Tilde \in C /\ Fallback \in C
    BY OwnIn
  <2> HIDE DEF C
  <2> QED BY <2>1, <2>2, SeqMonotonic
<1> HIDE DEF C
<1>3. PICK text : text = AliasText(BaseOf(n))
  OBVIOUS
<1>4. text \in Seq(C)
  <2>1. n \in Seq(Range(n))
    BY DEF Typable, IsSequence
  <2>2. BaseOf(n) \in Seq(Range(n))
    BY <2>1, PartsType
  <2> QED BY <1>3, <2>2, AliasTextIs DEF C
<1>5. PICK base : base = IF text = <<>> THEN <<Fallback>> ELSE text
  OBVIOUS
<1>6. base \in Seq(C)
  BY <1>2, <1>4, <1>5
<1>7. PICK room \in Nat : room = BaseSize - (Len(d) + 1)
  <2>1. BaseSize - (Len(d) + 1) \in Nat
    BY <1>1, <1>2, Sizes
  <2> QED BY <2>1
<1>8. PICK u \in Seq(C) : u = Upto(base, room) /\ Len(u) \in Nat /\ Len(u) <= room
  BY <1>6, UptoIs
<1>9. PICK v : v = u \o <<Tilde>> \o d
  OBVIOUS
<1>10. AliasBase(n, ord) = v
  BY <1>1, <1>3, <1>5, <1>7, <1>8, <1>9 DEF AliasBase
<1>11. IsJoin(v, u, Tilde, d, C)
  BY <1>2, <1>9, JoinIs
<1>12. Len(v) = Len(u) + 1 + Len(d)
  BY <1>11 DEF IsJoin
<1>13. Len(v) <= BaseSize /\ Len(v) # 0
  BY <1>2, <1>7, <1>8, <1>12, Sizes
<1>14. v # <<>>
  BY <1>13
<1> QED BY <1>1, <1>10, <1>11, <1>13, <1>14 DEF C

\* An alias is an 8.3 name of capitals.
LEMMA AliasIs ==
  ASSUME NEW n, Typable(n), NEW ord \in Nat, Len(Digits[ord]) < BaseSize
  PROVE  /\ AliasBase(n, ord) \in Seq(Capitals(n)) /\ AliasExt(n) \in Seq(Capitals(n))
         /\ AliasBase(n, ord) # <<>>
         /\ Len(AliasBase(n, ord)) <= BaseSize /\ Len(AliasExt(n)) <= ExtSize
         /\ build_short_alias(n, ord) = Stem(AliasBase(n, ord), AliasExt(n))
<1>1. AliasBase(n, ord) \in Seq(Capitals(n))
  BY AliasBaseIs DEF IsJoin
<1>2. AliasExt(n) \in Seq(Capitals(n)) /\ Len(AliasExt(n)) <= ExtSize
  <2>1. n \in Seq(Range(n))
    BY DEF Typable, IsSequence
  <2>2. ExtOf(n) \in Seq(Range(n))
    BY <2>1, PartsType
  <2>3. AliasText(ExtOf(n)) \in Seq(Capitals(n))
    BY <2>2, AliasTextIs
  <2> QED BY <2>3, UptoIs, Sizes DEF AliasExt
<1>3. AliasBase(n, ord) # <<>> /\ Len(AliasBase(n, ord)) <= BaseSize
  BY AliasBaseIs
<1>4. build_short_alias(n, ord) = Stem(AliasBase(n, ord), AliasExt(n))
  BY DEF build_short_alias, Stem, AliasExt
<1> QED BY <1>1, <1>2, <1>3, <1>4

\* The last tilde tells where the number starts.
LEMMA JoinedOnce ==
  ASSUME NEW S, NEW v, NEW u \in Seq(S), NEW w \in Seq(S), NEW c \in Seq(DigitSet),
         NEW d \in Seq(DigitSet), IsJoin(v, u, Tilde, c, S), IsJoin(v, w, Tilde, d, S)
  PROVE  Len(c) <= Len(d)
<1> SUFFICES ASSUME ~(Len(c) <= Len(d)) PROVE FALSE
  OBVIOUS
<1>1. Len(u) + 1 + Len(c) = Len(w) + 1 + Len(d)
  BY DEF IsJoin
<1>2. Len(u) \in Nat /\ Len(w) \in Nat /\ Len(c) \in Nat /\ Len(d) \in Nat
  OBVIOUS
<1>3. PICK i \in Nat : i = Len(w) - Len(u)
  <2>1. Len(w) - Len(u) \in Nat
    BY <1>1, <1>2
  <2> QED BY <2>1
<1>4. i \in 1 .. Len(c) /\ Len(u) + 1 + i = Len(w) + 1
  BY <1>1, <1>2, <1>3
<1>5. v[Len(u) + 1 + i] = c[i]
  BY <1>4 DEF IsJoin
<1>6. v[Len(w) + 1] = Tilde
  BY DEF IsJoin
<1>7. c[i] \in DigitSet
  BY <1>4
<1> QED BY <1>4, <1>5, <1>6, <1>7, TenDigits

\* No two numbers give the same alias.
LEMMA AliasInjective ==
  ASSUME NEW n, Typable(n), NEW j \in Nat, NEW k \in Nat,
         Len(Digits[j]) < BaseSize, Len(Digits[k]) < BaseSize,
         build_short_alias(n, j) = build_short_alias(n, k)
  PROVE  j = k
<1> DEFINE C == Capitals(n)
<1>1. PICK a \in Seq(C) : /\ a = AliasBase(n, j) /\ Len(a) <= BaseSize
                          /\ build_short_alias(n, j) = Stem(a, AliasExt(n))
  BY AliasIs
<1>2. PICK b \in Seq(C) : /\ b = AliasBase(n, k) /\ Len(b) <= BaseSize
                          /\ build_short_alias(n, k) = Stem(b, AliasExt(n))
  BY AliasIs
<1>3. PICK e \in Seq(C) : e = AliasExt(n) /\ Len(e) <= ExtSize
  BY AliasIs
<1>4. PICK c \in Seq(DigitSet) : c = Digits[j]
  BY DigitsType
<1>5. PICK d \in Seq(DigitSet) : d = Digits[k]
  BY DigitsType
<1>6. PICK u \in Seq(C) : IsJoin(a, u, Tilde, c, C)
  BY <1>1, <1>4, AliasBaseIs
<1>7. PICK w \in Seq(C) : IsJoin(b, w, Tilde, d, C)
  BY <1>2, <1>5, AliasBaseIs
<1>8. Space \notin C
  BY CapitalsAre DEF InCapitals
<1> HIDE DEF C
<1>9. a = b
  <2>1. SubSeq(Stem(a, e), 1, BaseSize) = Pad(a, BaseSize)
    BY <1>1, <1>3, StemIs
  <2>2. SubSeq(Stem(b, e), 1, BaseSize) = Pad(b, BaseSize)
    BY <1>2, <1>3, StemIs
  <2>3. Pad(a, BaseSize) = Pad(b, BaseSize)
    BY <1>1, <1>2, <1>3, <2>1, <2>2
  <2>4. UpToSpaces(Pad(a, BaseSize)) = a /\ UpToSpaces(Pad(b, BaseSize)) = b
    BY <1>1, <1>2, <1>8, UpToSpacesIs, Sizes
  <2> QED BY <2>3, <2>4
<1>10. Len(c) = Len(d)
  <2>1. Len(c) <= Len(d) /\ Len(d) <= Len(c)
    BY <1>6, <1>7, <1>9, JoinedOnce
  <2>2. Len(c) \in Nat /\ Len(d) \in Nat
    OBVIOUS
  <2> QED BY <2>1, <2>2
<1>11. c = d
  <2>1. Len(u) + 1 + Len(c) = Len(w) + 1 + Len(d)
    BY <1>6, <1>7, <1>9 DEF IsJoin
  <2>2. Len(u) = Len(w)
    <3>1. Len(u) \in Nat /\ Len(w) \in Nat /\ Len(c) \in Nat
      OBVIOUS
    <3> QED BY <1>10, <2>1, <3>1
  <2>3. \A i \in 1 .. Len(c) : c[i] = d[i]
    BY <1>6, <1>7, <1>9, <1>10, <2>2 DEF IsJoin
  <2> QED BY <1>10, <2>3, SeqEqual
<1> QED BY <1>4, <1>5, <1>11, DigitsInjective

-----------------------------------------------------------------------------
(* Short names: the search.                                                *)

\* The name and the directory are those of a call.
Called(n, d) == \E c \in Cases : n = c.name /\ d = c.dir

\* The candidate is the exact form before any alias, or the alias before the
\* next ordinal.
Candidate(n, s, x, o) ==
    \/ (x /\ HasExactForm(n) /\ o = 1 /\ s = make_short_name_if_possible(n))
    \/ (~x /\ o \in Nat /\ o >= 2 /\ s = build_short_alias(n, o - 1))

\* The aliases that the search has left behind although no entry has them.
Missed(n, d, o) == {k \in 1 .. o - 2 : build_short_alias(n, k) \notin NamesIn(d)}

\* The clusters before a have no end mark, nor s if it matters.
PassedOver(d, s, ig, a) ==
    \A k \in DOMAIN d : k < a =>
        \A j \in DOMAIN d[k] : d[k][j] # EndMark /\ (s # ig => d[k][j] # s)

\* While build_name_entries chooses.
Choosing ==
    /\ pc \in {"search", "chosen"}
    /\ Called(name, dir)
    /\ Candidate(name, short, exact, ordinal)
    /\ errors \in 0 .. MaxErrors
    /\ Cardinality(Missed(name, dir, ordinal)) <= errors
    /\ at \in Nat \ {0}
    /\ pc = "search" => PassedOver(dir, short, ignored, at)
    /\ pc = "chosen" => short \notin NamesIn(dir) \ {ignored}

\* While it does not.
Quiet ==
    /\ pc \in {"idle", "invalid", "scan"}
    /\ dir = <<>>
    /\ ordinal = 1
    /\ errors = 0
    /\ at = 1

SearchInv == Choosing \/ Quiet

\* The characters of a sequence are finitely many.
LEMMA RangeFinite ==
  ASSUME NEW s, IsSequence(s)
  PROVE  IsFiniteSet(Range(s))
<1>1. s \in Seq(Range(s))
  BY DEF IsSequence
<1>2. Len(s) \in Nat /\ DOMAIN s = 1 .. Len(s) /\ s \in [1 .. Len(s) -> Range(s)]
  BY <1>1
<1>3. \A x \in Range(s) : \E i \in 1 .. Len(s) : s[i] = x
  BY <1>2 DEF Range
<1>4. s \in Surjection(1 .. Len(s), Range(s))
  BY <1>2, <1>3 DEF Surjection
<1>5. IsFiniteSet(1 .. Len(s))
  BY <1>2, FS_Interval
<1> QED BY <1>4, <1>5, FS_Surjection

\* A directory has finitely many names.
LEMMA NamesFinite ==
  ASSUME NEW d, IsSequence(d), \A k \in DOMAIN d : IsSequence(d[k])
  PROVE  IsFiniteSet(NamesIn(d)) /\ Cardinality(NamesIn(d)) \in Nat
<1> DEFINE cells == {Range(d[k]) : k \in DOMAIN d}
<1>1. IsFiniteSet(cells)
  <2>1. d \in Seq(Range(d))
    BY DEF IsSequence
  <2>2. Len(d) \in Nat /\ DOMAIN d = 1 .. Len(d)
    BY <2>1
  <2>3. IsFiniteSet(DOMAIN d)
    BY <2>2, FS_Interval
  <2> DEFINE f == [k \in DOMAIN d |-> Range(d[k])]
  <2>4. f \in Surjection(DOMAIN d, cells)
    <3>1. f \in [DOMAIN d -> cells]
      OBVIOUS
    <3>2. \A x \in cells : \E k \in DOMAIN d : f[k] = x
      OBVIOUS
    <3> HIDE DEF f, cells
    <3> QED BY <3>1, <3>2 DEF Surjection
  <2> HIDE DEF f, cells
  <2> QED BY <2>3, <2>4, FS_Surjection
<1>2. \A x \in cells : IsFiniteSet(x)
  BY RangeFinite
<1>3. IsFiniteSet(UNION cells)
  <2> HIDE DEF cells
  <2> QED BY <1>1, <1>2, FS_UNION
<1>4. NamesIn(d) \subseteq UNION cells
  BY DEF NamesIn
<1>5. IsFiniteSet(NamesIn(d))
  <2> HIDE DEF cells
  <2>1. NamesIn(d) \in SUBSET UNION cells
    BY <1>4
  <2> QED BY <1>3, <2>1, FS_Subset
<1> QED BY <1>5, FS_CardinalityType

\* More aliases than the directory has names are not all taken.
LEMMA FewOrdinals ==
  ASSUME NEW n, Typable(n), NEW N, IsFiniteSet(N), NEW E \in Nat, NEW e \in 0 .. E,
         Len(Digits[Cardinality(N) + E + 1]) < BaseSize, NEW m \in Nat,
         Cardinality({k \in 1 .. m : build_short_alias(n, k) \notin N}) <= e
  PROVE  m <= Cardinality(N) + e
<1> SUFFICES ASSUME ~(m <= Cardinality(N) + e) PROVE FALSE
  OBVIOUS
<1>1. PICK c \in Nat : c = Cardinality(N)
  BY FS_CardinalityType
<1>2. PICK K \in Nat : K = c + e + 1 /\ K <= m /\ K <= c + E + 1
  BY <1>1
<1> DEFINE A == {k \in 1 .. K : build_short_alias(n, k) \in N}
           B == {k \in 1 .. K : build_short_alias(n, k) \notin N}
           M == {k \in 1 .. m : build_short_alias(n, k) \notin N}
<1>3. A \cup B = 1 .. K /\ A \cap B = {} /\ B \subseteq M /\ M \subseteq 1 .. m
  BY <1>2
<1>4. \A k \in A : build_short_alias(n, k) \in N /\ k \in 1 .. K
  OBVIOUS
<1>5. Cardinality(M) <= e
  OBVIOUS
<1> HIDE DEF A, B, M
<1>6. /\ IsFiniteSet(A) /\ IsFiniteSet(B) /\ Cardinality(A) \in Nat
      /\ Cardinality(B) \in Nat /\ Cardinality(B) <= e
  <2>1. IsFiniteSet(1 .. K) /\ IsFiniteSet(1 .. m)
    BY FS_Interval
  <2>2. A \in SUBSET (1 .. K) /\ B \in SUBSET (1 .. K) /\ M \in SUBSET (1 .. m)
        /\ B \in SUBSET M
    BY <1>3
  <2>3. IsFiniteSet(A) /\ IsFiniteSet(B) /\ IsFiniteSet(M)
    BY <2>1, <2>2, FS_Subset
  <2>4. Cardinality(B) <= Cardinality(M)
    BY <2>2, <2>3, FS_Subset
  <2>5. Cardinality(A) \in Nat /\ Cardinality(B) \in Nat /\ Cardinality(M) \in Nat
    BY <2>3, FS_CardinalityType
  <2> QED BY <1>5, <2>3, <2>4, <2>5
<1>7. Cardinality(A) + Cardinality(B) = K
  <2>1. Cardinality(A \cup B) = Cardinality(A) + Cardinality(B) - Cardinality(A \cap B)
    BY <1>6, FS_Union
  <2>2. Cardinality(A \cap B) = 0
    BY <1>3, FS_EmptySet
  <2>3. Cardinality(1 .. K) = K
    <3>1. 1 \in Int /\ K \in Int
      OBVIOUS
    <3>2. Cardinality(1 .. K) = IF 1 > K THEN 0 ELSE K - 1 + 1
      BY <3>1, FS_Interval
    <3> QED BY <1>2, <3>2
  <2>4. Cardinality(A \cup B) = K
    BY <1>3, <2>3, Zenon
  <2>5. K = Cardinality(A) + Cardinality(B) - 0
    BY <2>1, <2>2, <2>4, Zenon
  <2> QED BY <1>6, <2>5
<1>8. Cardinality(N) < Cardinality(A)
  BY <1>1, <1>2, <1>6, <1>7
<1> DEFINE f == [k \in A |-> build_short_alias(n, k)]
<1>9. f \in [A -> N]
  BY <1>4
<1>10. PICK x \in A, y \in A : x # y /\ f[x] = f[y]
  <2> HIDE DEF f
  <2> QED BY <1>6, <1>8, <1>9, FS_PigeonHole
<1>11. build_short_alias(n, x) = build_short_alias(n, y)
  BY <1>10
<1>12. ASSUME NEW k \in A PROVE k \in Nat /\ Len(Digits[k]) < BaseSize
  <2>1. k \in Nat /\ k <= c + E + 1 /\ c + E + 1 \in Nat
    BY <1>2, <1>4
  <2>2. PICK l \in Nat : l = c + E + 1
    BY <2>1
  <2>3. Len(Digits[k]) <= Len(Digits[l])
    BY <2>1, <2>2, DigitsMonotone
  <2>4. Len(Digits[l]) < BaseSize
    BY <1>1, <2>2
  <2>5. Len(Digits[k]) \in Nat /\ Len(Digits[l]) \in Nat
    BY <2>1, DigitsType, LenProperties
  <2> QED BY <2>1, <2>3, <2>4, <2>5, Sizes
<1>13. x = y
  BY <1>11, <1>12, AliasInjective
<1> QED BY <1>10, <1>13

\* The numbers that the search gets to have few digits.
LEMMA NumbersFit ==
  ASSUME NEW n, NEW d, Called(n, d), NEW e \in 0 .. MaxErrors, NEW o \in Nat, o >= 2,
         Cardinality(Missed(n, d, o)) <= e
  PROVE  /\ o <= Cardinality(NamesIn(d)) + e + 2
         /\ Typable(n) /\ o - 1 \in Nat /\ Len(Digits[o - 1]) < BaseSize
<1>1. /\ Typable(n) /\ IsFiniteSet(NamesIn(d)) /\ Cardinality(NamesIn(d)) \in Nat
      /\ MaxErrors \in Nat
      /\ Len(Digits[Cardinality(NamesIn(d)) + MaxErrors + 1]) < BaseSize
  <2>1. PICK c \in Cases : n = c.name /\ d = c.dir
    BY DEF Called
  <2>2. Typable(n) /\ IsSequence(d) /\ \A k \in DOMAIN d : IsSequence(d[k])
    BY <2>1, CaseNames
  <2>3. IsFiniteSet(NamesIn(d)) /\ Cardinality(NamesIn(d)) \in Nat
    BY <2>2, NamesFinite
  <2>4. MaxErrors \in Nat
        /\ Len(Digits[Cardinality(NamesIn(d)) + MaxErrors + 1]) < BaseSize
    BY <2>1, CasesAssumption
  <2> QED BY <2>2, <2>3, <2>4
<1>2. PICK m \in Nat : m = o - 2
  <2>1. o - 2 \in Nat
    OBVIOUS
  <2> QED BY <2>1
<1>3. PICK N : N = NamesIn(d)
  OBVIOUS
<1>4. Cardinality({k \in 1 .. m : build_short_alias(n, k) \notin N}) <= e
  BY <1>2, <1>3 DEF Missed
<1>5. m <= Cardinality(N) + e
  BY <1>1, <1>3, <1>4, FewOrdinals
<1>6. PICK c \in Nat : c = Cardinality(N)
  BY <1>1, <1>3
<1>7. o <= c + e + 2
  BY <1>2, <1>5, <1>6
<1>8. PICK k \in Nat : k = o - 1
  <2>1. o - 1 \in Nat
    OBVIOUS
  <2> QED BY <2>1
<1>9. PICK l \in Nat : l = c + MaxErrors + 1
  BY <1>1, <1>6
<1>10. k <= l
  BY <1>1, <1>7, <1>8, <1>9
<1>11. Len(Digits[k]) < BaseSize
  <2>1. Len(Digits[k]) <= Len(Digits[l])
    BY <1>10, DigitsMonotone
  <2>2. Len(Digits[l]) < BaseSize
    BY <1>1, <1>3, <1>6, <1>9
  <2>3. Len(Digits[k]) \in Nat /\ Len(Digits[l]) \in Nat
    BY DigitsType, LenProperties
  <2> QED BY <2>1, <2>2, <2>3, Sizes
<1> QED BY <1>1, <1>3, <1>6, <1>7, <1>8, <1>11

\* A candidate is an 8.3 name of capitals, and the exact form shows the name.
CandidateParts(n, s, x) ==
    \E b \in Seq(Capitals(n)) : \E e \in Seq(Capitals(n)) :
        /\ b # <<>> /\ Len(b) <= BaseSize /\ Len(e) <= ExtSize
        /\ s = Stem(b, e)
        /\ x => TextOf(b, e) = Uppercase(n)

LEMMA CandidateIs ==
  ASSUME NEW n, NEW d, NEW s, NEW x, NEW o, NEW e \in 0 .. MaxErrors,
         Called(n, d), Candidate(n, s, x, o), Cardinality(Missed(n, d, o)) <= e
  PROVE  /\ o \in Nat /\ o <= Cardinality(NamesIn(d)) + e + 2
         /\ CandidateParts(n, s, x)
<1>1. Typable(n) /\ Cardinality(NamesIn(d)) \in Nat
  <2>1. PICK c \in Cases : n = c.name /\ d = c.dir
    BY DEF Called
  <2> QED BY <2>1, CaseNames, NamesFinite
<1>2. CASE x /\ HasExactForm(n) /\ o = 1 /\ s = make_short_name_if_possible(n)
  <2>1. CandidateParts(n, s, x)
    BY <1>1, <1>2, ExactParts DEF CandidateParts
  <2>2. 1 <= Cardinality(NamesIn(d)) + e + 2
    BY <1>1
  <2> QED BY <1>2, <2>1, <2>2
<1>3. CASE ~x /\ o \in Nat /\ o >= 2 /\ s = build_short_alias(n, o - 1)
  <2>1. /\ o <= Cardinality(NamesIn(d)) + e + 2
        /\ o - 1 \in Nat /\ Len(Digits[o - 1]) < BaseSize
    BY <1>3, NumbersFit
  <2>2. PICK k \in Nat : k = o - 1 /\ Len(Digits[k]) < BaseSize
    BY <2>1
  <2>3. /\ AliasBase(n, k) \in Seq(Capitals(n)) /\ AliasExt(n) \in Seq(Capitals(n))
        /\ AliasBase(n, k) # <<>>
        /\ Len(AliasBase(n, k)) <= BaseSize /\ Len(AliasExt(n)) <= ExtSize
        /\ build_short_alias(n, k) = Stem(AliasBase(n, k), AliasExt(n))
    BY <1>1, <2>2, AliasIs
  <2>4. CandidateParts(n, s, x)
    BY <1>3, <2>2, <2>3 DEF CandidateParts
  <2> QED BY <1>3, <2>1, <2>4
<1> QED BY <1>2, <1>3 DEF Candidate

\* It is not one of the cells without a short name.
LEMMA CandidateSize ==
  ASSUME NEW n, NEW s, NEW x, CandidateParts(n, s, x)
  PROVE  s # NoEntry /\ s # EndMark
<1>1. PICK b \in Seq(Capitals(n)), e \in Seq(Capitals(n)) :
         Len(b) <= BaseSize /\ Len(e) <= ExtSize /\ s = Stem(b, e)
  BY DEF CandidateParts
<1>2. Len(s) = BaseSize + ExtSize
  BY <1>1, StemIs
<1>3. Len(NoEntry) = 0 /\ Len(EndMark) = 1
  BY DEF NoEntry, EndMark
<1>4. BaseSize + ExtSize # 0 /\ BaseSize + ExtSize # 1
  BY Sizes
<1>5. Len(s) # Len(NoEntry) /\ Len(s) # Len(EndMark)
  BY ONLY <1>2, <1>3, <1>4, Zenon
<1> QED BY <1>5, Zenon

\* A scan starts before the first cluster.
LEMMA PassedNone ==
  ASSUME NEW d, IsSequence(d), NEW s, NEW ig
  PROVE  PassedOver(d, s, ig, 1)
<1>1. d \in Seq(Range(d))
  BY DEF IsSequence
<1>2. \A k \in DOMAIN d : ~(k < 1)
  BY <1>1
<1> QED BY <1>2 DEF PassedOver

\* s is in the cells, before any end mark.
FoundIn(cells, s) ==
    \E i \in DOMAIN cells : cells[i] = s /\ \A j \in 1 .. i : cells[j] # EndMark

\* What is found is a name in the directory.
LEMMA FoundIs ==
  ASSUME NEW d, IsSequence(d), NEW a \in DOMAIN d, IsSequence(d[a]), NEW s, NEW ig,
         PassedOver(d, s, ig, a), FoundIn(d[a], s), s # NoEntry, s # EndMark
  PROVE  s \in NamesIn(d)
<1>1. PICK i \in DOMAIN d[a] : d[a][i] = s /\ \A j \in 1 .. i : d[a][j] # EndMark
  BY DEF FoundIn
<1>2. d \in Seq(Range(d))
  BY DEF IsSequence
<1>3. DOMAIN d = 1 .. Len(d) /\ Len(d) \in Nat /\ a \in Nat /\ 1 .. a \subseteq DOMAIN d
  BY <1>2
<1>4. s \in Range(d[a])
  BY <1>1 DEF Range
<1>5. Before(d, a, i)
  <2> SUFFICES ASSUME NEW m \in 1 .. a, NEW j \in DOMAIN d[m], m < a \/ j < i
               PROVE  d[m][j] # EndMark
    BY DEF Before
  <2>1. CASE m < a
    BY <1>3, <2>1 DEF PassedOver
  <2>2. CASE ~(m < a)
    <3>1. m = a /\ j < i
      BY <1>3, <2>2
    <3>2. d[a] \in Seq(Range(d[a]))
      BY DEF IsSequence
    <3>3. j \in 1 .. i
      BY <3>1, <3>2
    <3> QED BY <1>1, <3>1, <3>3
  <2> QED BY <2>1, <2>2
<1> QED BY <1>1, <1>4, <1>5 DEF NamesIn

\* What is not found in the clusters up to the end mark, or up to the last one,
\* is no name in the directory.
LEMMA FreeIs ==
  ASSUME NEW d, IsSequence(d), \A k \in DOMAIN d : IsSequence(d[k]),
         NEW a \in Nat \ {0}, NEW s, NEW ig, PassedOver(d, s, ig, a),
         a <= Len(d) => HasEnd(d[a]) /\ ~(s # ig /\ FoundIn(d[a], s))
  PROVE  s \notin NamesIn(d) \ {ig}
<1> SUFFICES ASSUME s \in NamesIn(d), s # ig PROVE FALSE
  OBVIOUS
<1>1. PICK k \in DOMAIN d : \E i \in DOMAIN d[k] : d[k][i] = s /\ Before(d, k, i)
  BY DEF NamesIn
<1>2. PICK i \in DOMAIN d[k] : d[k][i] = s /\ Before(d, k, i)
  BY <1>1
<1>3. s # EndMark
  BY DEF NamesIn
<1>4. d \in Seq(Range(d)) /\ d[k] \in Seq(Range(d[k]))
  BY DEF IsSequence
<1>5. k \in Nat /\ 1 <= k /\ k <= Len(d) /\ Len(d) \in Nat
  BY <1>4
<1>6. ~(k < a)
  BY <1>2 DEF PassedOver
<1>7. a <= Len(d) /\ a \in 1 .. k
  BY <1>5, <1>6
<1>8. CASE k = a
  <2>1. \A j \in 1 .. i : d[k][j] # EndMark
    <3> SUFFICES ASSUME NEW j \in 1 .. i PROVE d[k][j] # EndMark
      OBVIOUS
    <3>1. CASE j = i
      BY <1>2, <1>3, <3>1
    <3>2. CASE j # i
      <4>1. j < i /\ j \in DOMAIN d[k] /\ k \in 1 .. k
        BY <1>4, <1>5, <3>2
      <4> QED BY <1>2, <4>1 DEF Before
    <3> QED BY <3>1, <3>2
  <2>2. FoundIn(d[k], s)
    BY <1>2, <2>1 DEF FoundIn
  <2> QED BY <1>7, <1>8, <2>2
<1>9. CASE a < k
  <2>1. PICK j \in DOMAIN d[a] : d[a][j] = EndMark
    BY <1>7 DEF HasEnd, Range
  <2> QED BY <1>2, <1>7, <1>9, <2>1 DEF Before
<1> QED BY <1>5, <1>6, <1>8, <1>9

\* A cluster without the name and without an end mark is passed over.
LEMMA PassedNext ==
  ASSUME NEW d, IsSequence(d), NEW a \in DOMAIN d, IsSequence(d[a]), NEW s, NEW ig,
         PassedOver(d, s, ig, a), ~HasEnd(d[a]), ~(s # ig /\ FoundIn(d[a], s))
  PROVE  PassedOver(d, s, ig, a + 1)
<1>1. d \in Seq(Range(d)) /\ d[a] \in Seq(Range(d[a]))
  BY DEF IsSequence
<1>2. \A j \in DOMAIN d[a] : d[a][j] # EndMark
  BY DEF HasEnd, Range
<1>3. ASSUME NEW j \in DOMAIN d[a], s # ig PROVE d[a][j] # s
  <2>1. \A l \in 1 .. j : l \in DOMAIN d[a]
    BY <1>1
  <2> QED BY <1>2, <1>3, <2>1 DEF FoundIn
<1>4. \A k \in DOMAIN d : k < a + 1 => k < a \/ k = a
  BY <1>1
<1> QED BY <1>2, <1>3, <1>4 DEF PassedOver

\* A candidate that is left behind is in the directory, or a read has failed.
LEMMA MissedNext ==
  ASSUME NEW n, NEW d, NEW s, NEW x, NEW o, NEW e \in Nat, NEW f \in Nat,
         Candidate(n, s, x, o), Cardinality(Missed(n, d, o)) <= e,
         f = e + 1 \/ (f = e /\ s \in NamesIn(d))
  PROVE  /\ o + 1 \in Nat /\ o + 1 >= 2
         /\ Cardinality(Missed(n, d, o + 1)) <= f
<1>1. CASE x /\ o = 1
  <2>1. Missed(n, d, o + 1) = {}
    <3>1. 1 .. (o + 1) - 2 = {}
      BY <1>1
    <3> QED BY <3>1 DEF Missed
  <2>2. Cardinality(Missed(n, d, o + 1)) = 0
    BY <2>1, FS_EmptySet
  <2>3. o + 1 \in Nat /\ o + 1 >= 2
    BY <1>1
  <2> QED BY <2>2, <2>3
<1>2. CASE ~x /\ o \in Nat /\ o >= 2 /\ s = build_short_alias(n, o - 1)
  <2>1. PICK k \in Nat : k = o - 1 /\ k >= 1 /\ k = (o + 1) - 2 /\ o - 2 = k - 1
    <3>1. o - 1 \in Nat /\ o - 1 >= 1 /\ o - 1 = (o + 1) - 2 /\ o - 2 = (o - 1) - 1
      BY <1>2
    <3> QED BY <3>1
  <2> DEFINE M == Missed(n, d, o)
             L == Missed(n, d, o + 1)
  <2>2. \A j \in L : j \in M \/ j = k
    <3> SUFFICES ASSUME NEW j \in L, j # k PROVE j \in M
      OBVIOUS
    <3>1. j \in 1 .. k /\ build_short_alias(n, j) \notin NamesIn(d)
      BY <2>1 DEF Missed
    <3>2. j \in 1 .. o - 2
      BY <2>1, <3>1
    <3> QED BY <3>1, <3>2 DEF Missed
  <2>3. s \in NamesIn(d) => k \notin L
    BY <1>2, <2>1 DEF Missed
  <2>4. M \subseteq 1 .. k - 1 /\ L \subseteq 1 .. k
    BY <2>1 DEF Missed
  <2> HIDE DEF M, L
  <2>5. IsFiniteSet(M) /\ Cardinality(M) \in Nat /\ IsFiniteSet(L) /\ Cardinality(L) \in Nat
    <3>1. IsFiniteSet(1 .. k - 1) /\ IsFiniteSet(1 .. k)
      BY FS_Interval
    <3>2. M \in SUBSET (1 .. k - 1) /\ L \in SUBSET (1 .. k)
      BY <2>4
    <3>3. IsFiniteSet(M) /\ IsFiniteSet(L)
      BY <3>1, <3>2, FS_Subset
    <3> QED BY <3>3, FS_CardinalityType
  <2>6. CASE f = e + 1
    <3>1. L \in SUBSET (M \cup {k})
      BY <2>2
    <3>2. /\ IsFiniteSet(M \cup {k})
          /\ Cardinality(M \cup {k}) = IF k \in M THEN Cardinality(M) ELSE Cardinality(M) + 1
      BY <2>5, FS_AddElement
    <3>3. Cardinality(L) <= Cardinality(M \cup {k})
      BY <3>1, <3>2, FS_Subset
    <3>4. Cardinality(M) <= e
      BY DEF M
    <3>5. Cardinality(L) <= f
      BY <2>5, <2>6, <3>2, <3>3, <3>4
    <3> QED BY <1>2, <3>5 DEF L
  <2>7. CASE f = e /\ s \in NamesIn(d)
    <3>1. L \in SUBSET M
      BY <2>2, <2>3, <2>7
    <3>2. Cardinality(L) <= Cardinality(M)
      BY <2>5, <3>1, FS_Subset
    <3>3. Cardinality(M) <= e
      BY DEF M
    <3>4. Cardinality(L) <= f
      BY <2>5, <2>7, <3>2, <3>3
    <3> QED BY <1>2, <3>4 DEF L
  <2> QED BY <2>6, <2>7
<1> QED BY <1>1, <1>2 DEF Candidate

-----------------------------------------------------------------------------
(* Short names: the theorem.                                               *)

\* The directory of a call.
LEMMA CalledDirectory ==
  ASSUME NEW n, NEW d, Called(n, d)
  PROVE  IsSequence(d) /\ \A k \in DOMAIN d : IsSequence(d[k])
<1>1. PICK c \in Cases : n = c.name /\ d = c.dir
  BY DEF Called
<1> QED BY <1>1, CaseNames

\* No alias has been left behind at the start.
LEMMA MissedNone ==
  ASSUME NEW n, NEW d, NEW o \in {1, 2}
  PROVE  Cardinality(Missed(n, d, o)) = 0
<1>1. 1 .. o - 2 = {}
  OBVIOUS
<1>2. Missed(n, d, o) = {}
  BY <1>1 DEF Missed
<1> QED BY <1>2, FS_EmptySet

\* A call starts a search.
LEMMA BeginSearches ==
  ASSUME Quiet, Begin
  PROVE  Choosing'
<1>1. PICK c \in Cases :
         /\ name' = c.name /\ dir' = c.dir /\ ignored' = c.ignored
         /\ exact' = HasExactForm(c.name)
         /\ short' = IF HasExactForm(c.name) THEN make_short_name_if_possible(c.name)
                     ELSE build_short_alias(c.name, 1)
         /\ ordinal' = IF HasExactForm(c.name) THEN 1 ELSE 2
  BY DEF Begin
<1>2. pc' = "search" /\ at' = 1 /\ errors' = 0
  BY DEF Begin, Quiet
<1>3. Called(name', dir')
  BY <1>1 DEF Called
<1>4. Candidate(name', short', exact', ordinal')
  <2>1. CASE HasExactForm(c.name)
    <3>1. exact' /\ ordinal' = 1 /\ short' = make_short_name_if_possible(name')
          /\ HasExactForm(name')
      BY <1>1, <2>1, Zenon
    <3> QED BY <3>1 DEF Candidate
  <2>2. CASE ~HasExactForm(c.name)
    <3>1. ~exact' /\ ordinal' = 2 /\ short' = build_short_alias(name', 1)
      BY <1>1, <2>2, Zenon
    <3>2. 2 - 1 = 1 /\ 2 \in Nat /\ 2 >= 2
      OBVIOUS
    <3> QED BY <3>1, <3>2 DEF Candidate
  <2> QED BY <2>1, <2>2
<1>5. Cardinality(Missed(name', dir', ordinal')) = 0
  <2>1. ordinal' \in {1, 2}
    BY <1>1
  <2> QED BY <2>1, MissedNone
<1>6. PassedOver(dir', short', ignored', 1)
  BY <1>3, CalledDirectory, PassedNone
<1>7. errors' \in 0 .. MaxErrors
  BY <1>2, CasesAssumption
<1>8. Cardinality(Missed(name', dir', ordinal')) <= errors'
  BY <1>2, <1>5
<1>9. at' \in Nat \ {0}
  BY <1>2
<1>10. pc' \in {"search", "chosen"} /\ pc' # "chosen"
  BY <1>2
<1>11. PassedOver(dir', short', ignored', at')
  BY <1>2, <1>6
<1> QED BY <1>3, <1>4, <1>7, <1>8, <1>9, <1>10, <1>11 DEF Choosing

\* The search goes on with the next alias.
LEMMA TakenSearches ==
  ASSUME Choosing, pc = "search", Taken, UNCHANGED <<name, dir, ignored>>,
         errors' \in 0 .. MaxErrors,
         errors' = errors + 1 \/ (errors' = errors /\ short \in NamesIn(dir))
  PROVE  Choosing'
<1>1. /\ pc' = "search" /\ ~exact' /\ at' = 1 /\ ordinal' = ordinal + 1
      /\ short' = build_short_alias(name, ordinal)
      /\ name' = name /\ dir' = dir /\ ignored' = ignored
  BY DEF Taken
<1>2. errors \in Nat /\ errors' \in Nat
  BY CasesAssumption DEF Choosing
<1>3. /\ ordinal + 1 \in Nat /\ ordinal + 1 >= 2
      /\ Cardinality(Missed(name, dir, ordinal + 1)) <= errors'
  BY <1>2, MissedNext DEF Choosing
<1>4. Called(name', dir')
  BY <1>1 DEF Choosing
<1>5. Candidate(name', short', exact', ordinal')
  <2>1. ordinal \in Nat
    BY DEF Choosing, Candidate
  <2>2. (ordinal + 1) - 1 = ordinal
    BY <2>1
  <2>3. short' = build_short_alias(name', ordinal' - 1)
    BY <1>1, <2>2
  <2> QED BY <1>1, <1>3, <2>3 DEF Candidate
<1>6. Cardinality(Missed(name', dir', ordinal')) <= errors'
  BY <1>1, <1>3
<1>7. PassedOver(dir', short', ignored', at')
  <2>1. PassedOver(dir', short', ignored', 1)
    BY <1>4, CalledDirectory, PassedNone
  <2> QED BY <1>1, <2>1
<1>8. at' \in Nat \ {0} /\ pc' \in {"search", "chosen"} /\ pc' # "chosen"
  BY <1>1
<1> QED BY <1>4, <1>5, <1>6, <1>7, <1>8 DEF Choosing

\* Hit says what it finds.
LEMMA HitFinds ==
  ASSUME NEW cells
  PROVE  Hit(cells) <=> short # ignored /\ FoundIn(cells, short)
BY DEF Hit, FoundIn

\* The search ends with a name that is free.
LEMMA UnusedIsFree ==
  ASSUME Choosing, pc = "search", Unused, UNCHANGED <<name, dir, ignored, errors>>,
         at <= Len(dir) => HasEnd(dir[at]) /\ ~Hit(dir[at])
  PROVE  Choosing'
<1>1. /\ pc' = "chosen" /\ short' = short /\ exact' = exact /\ ordinal' = ordinal
      /\ at' = at /\ name' = name /\ dir' = dir /\ ignored' = ignored /\ errors' = errors
  BY DEF Unused
<1>2. IsSequence(dir) /\ \A k \in DOMAIN dir : IsSequence(dir[k])
  BY CalledDirectory DEF Choosing
<1>3. at <= Len(dir) => HasEnd(dir[at]) /\ ~(short # ignored /\ FoundIn(dir[at], short))
  BY HitFinds
<1>4. at \in Nat \ {0} /\ PassedOver(dir, short, ignored, at)
  BY DEF Choosing
<1>5. short \notin NamesIn(dir) \ {ignored}
  BY <1>2, <1>3, <1>4, FreeIs
<1>6. short' \notin NamesIn(dir') \ {ignored'}
  BY <1>1, <1>5
<1>7. /\ Called(name', dir') /\ Candidate(name', short', exact', ordinal')
      /\ errors' \in 0 .. MaxErrors /\ at' \in Nat \ {0}
      /\ Cardinality(Missed(name', dir', ordinal')) <= errors'
  BY <1>1 DEF Choosing
<1>8. pc' \in {"search", "chosen"} /\ pc' # "search"
  BY <1>1
<1> QED BY <1>6, <1>7, <1>8 DEF Choosing

\* One cluster read.
LEMMA ReadSearches ==
  ASSUME Choosing, ReadCluster
  PROVE  Choosing'
<1>1. pc = "search" /\ at <= Len(dir) /\ UNCHANGED <<name, dir, ignored, errors>>
  BY DEF ReadCluster
<1>2. IsSequence(dir) /\ \A k \in DOMAIN dir : IsSequence(dir[k])
  BY CalledDirectory DEF Choosing
<1>3. at \in DOMAIN dir /\ at \in Nat \ {0}
  <2>1. dir \in Seq(Range(dir))
    BY <1>2 DEF IsSequence
  <2>2. at \in Nat \ {0}
    BY DEF Choosing
  <2>3. DOMAIN dir = 1 .. Len(dir) /\ Len(dir) \in Nat
    BY <2>1
  <2> QED BY <1>1, <2>2, <2>3
<1>4. IsSequence(dir[at])
  BY <1>2, <1>3
<1>5. PassedOver(dir, short, ignored, at)
  BY <1>1 DEF Choosing
<1>6. CASE Hit(dir[at]) /\ Taken
  <2>1. FoundIn(dir[at], short)
    BY <1>6, HitFinds
  <2>2. short # NoEntry /\ short # EndMark
    <3>1. CandidateParts(name, short, exact)
      BY CandidateIs DEF Choosing
    <3> QED BY <3>1, CandidateSize
  <2>3. short \in NamesIn(dir)
    BY <1>2, <1>3, <1>4, <1>5, <2>1, <2>2, FoundIs
  <2>4. errors' \in 0 .. MaxErrors /\ errors' = errors
    BY <1>1 DEF Choosing
  <2> QED BY <1>1, <1>6, <2>3, <2>4, TakenSearches
<1>7. CASE ~Hit(dir[at]) /\ HasEnd(dir[at]) /\ Unused
  BY <1>1, <1>7, UnusedIsFree
<1>8. CASE /\ ~Hit(dir[at])
           /\ ~HasEnd(dir[at])
           /\ at' = at + 1
           /\ UNCHANGED <<pc, short, exact, ordinal>>
  <2>1. ~(short # ignored /\ FoundIn(dir[at], short))
    BY <1>8, HitFinds
  <2>2. PassedOver(dir, short, ignored, at + 1)
    BY <1>2, <1>3, <1>4, <1>5, <1>8, <2>1, PassedNext
  <2>3. /\ name' = name /\ dir' = dir /\ ignored' = ignored /\ errors' = errors
        /\ pc' = pc /\ short' = short /\ exact' = exact /\ ordinal' = ordinal
    BY <1>1, <1>8
  <2>4. PassedOver(dir', short', ignored', at')
    BY <1>8, <2>2, <2>3
  <2>5. at' \in Nat \ {0}
    BY <1>3, <1>8
  <2>6. /\ Called(name', dir') /\ Candidate(name', short', exact', ordinal')
        /\ errors' \in 0 .. MaxErrors
        /\ Cardinality(Missed(name', dir', ordinal')) <= errors'
    BY <2>3 DEF Choosing
  <2>7. pc' \in {"search", "chosen"} /\ pc' # "chosen"
    BY <1>1, <2>3
  <2> QED BY <2>4, <2>5, <2>6, <2>7 DEF Choosing
<1> QED BY <1>6, <1>7, <1>8 DEF ReadCluster

\* A read fails.
LEMMA FailureSearches ==
  ASSUME Choosing, ReadFails
  PROVE  Choosing'
<1>1. /\ pc = "search" /\ Taken /\ errors < MaxErrors /\ errors' = errors + 1
      /\ UNCHANGED <<name, dir, ignored>>
  BY DEF ReadFails
<1>2. errors' \in 0 .. MaxErrors
  <2>1. errors \in 0 .. MaxErrors /\ MaxErrors \in Nat
    BY CasesAssumption DEF Choosing
  <2> QED BY <1>1, <2>1
<1> QED BY <1>1, <1>2, TakenSearches

\* The invariant holds at the start and after each step.
LEMMA SearchInvHolds ==
  /\ Init => SearchInv
  /\ SearchInv /\ [Next]_vars => SearchInv'
<1>1. ASSUME Init PROVE SearchInv
  BY <1>1 DEF Init, SearchInv, Quiet
<1>2. ASSUME SearchInv, [Next]_vars PROVE SearchInv'
  <2>1. CASE UNCHANGED vars
    BY <1>2, <2>1 DEF SearchInv, Choosing, Quiet, vars
  <2>2. CASE Reject
    <3>1. Quiet
      BY <1>2, <2>2 DEF SearchInv, Choosing, Reject
    <3>2. Quiet'
      BY <2>2, <3>1 DEF Quiet, Reject
    <3> QED BY <3>2 DEF SearchInv
  <2>3. CASE Begin
    <3>1. Quiet
      BY <1>2, <2>3 DEF SearchInv, Choosing, Begin
    <3> QED BY <2>3, <3>1, BeginSearches DEF SearchInv
  <2>4. CASE Search
    <3>1. Choosing
      BY <1>2, <2>4 DEF SearchInv, Quiet, Search, ReadCluster, EndOfChain, ReadFails
    <3>2. CASE ReadCluster
      BY <3>1, <3>2, ReadSearches DEF SearchInv
    <3>3. CASE EndOfChain
      <4>1. /\ pc = "search" /\ at > Len(dir) /\ Unused
            /\ UNCHANGED <<name, dir, ignored, errors>>
        BY <3>3 DEF EndOfChain
      <4>2. at \in Nat /\ Len(dir) \in Nat
        <5>1. IsSequence(dir)
          BY <3>1, CalledDirectory DEF Choosing
        <5>2. dir \in Seq(Range(dir))
          BY <5>1 DEF IsSequence
        <5> QED BY <3>1, <5>2 DEF Choosing
      <4>3. ~(at <= Len(dir))
        BY <4>1, <4>2
      <4> QED BY <3>1, <4>1, <4>3, UnusedIsFree DEF SearchInv
    <3>4. CASE ReadFails
      BY <3>1, <3>4, FailureSearches DEF SearchInv
    <3> QED BY <2>4, <3>2, <3>3, <3>4 DEF Search
  <2>5. CASE Return
    <3>1. Quiet'
      BY <2>5 DEF Return, Quiet
    <3> QED BY <3>1 DEF SearchInv
  <2>6. CASE StartScan
    <3>1. Quiet
      BY <1>2, <2>6 DEF SearchInv, Choosing, StartScan
    <3>2. Quiet'
      BY <2>6, <3>1 DEF Quiet, StartScan, search
    <3> QED BY <3>2 DEF SearchInv
  <2>7. CASE ScanStep
    <3>1. Quiet
      BY <1>2, <2>7 DEF SearchInv, Choosing, ScanStep
    <3>2. Quiet'
      BY <2>7, <3>1 DEF Quiet, ScanStep, search
    <3> QED BY <3>2 DEF SearchInv
  <2> QED BY <1>2, <2>1, <2>2, <2>3, <2>4, <2>5, <2>6, <2>7 DEF Next
<1> QED BY <1>1, <1>2

\* It says that what is chosen is right.
LEMMA ChosenFollows == SearchInv => ChosenRight
<1>1. ASSUME Choosing PROVE ChosenRight
  <2>1. /\ ordinal <= Cardinality(NamesIn(dir)) + errors + 2
        /\ CandidateParts(name, short, exact)
    BY <1>1, CandidateIs DEF Choosing
  <2>2. PICK b \in Seq(Capitals(name)), e \in Seq(Capitals(name)) :
           /\ b # <<>> /\ Len(b) <= BaseSize /\ Len(e) <= ExtSize
           /\ short = Stem(b, e)
           /\ exact => TextOf(b, e) = Uppercase(name)
    BY <2>1 DEF CandidateParts
  <2>3. InCapitals(Capitals(name))
    BY CapitalsAre
  <2>4. ShortNameable
    BY <2>2, <2>3, NameableIs
  <2>5. ExactReadsBack
    <3>1. format_short_name(Stem(b, e)) = TextOf(b, e)
      BY <2>2, <2>3, FormatIs DEF InCapitals
    <3> QED BY <2>2, <3>1 DEF ExactReadsBack
  <2>6. pc = "chosen" => NameIsFree
    BY <1>1 DEF Choosing, NameIsFree
  <2> QED BY <2>1, <2>4, <2>5, <2>6 DEF ChosenRight
<1>2. ASSUME Quiet PROVE ChosenRight
  <2>1. dir = <<>> /\ ordinal = 1 /\ errors = 0 /\ pc # "chosen"
    BY <1>2 DEF Quiet
  <2>2. Cardinality(NamesIn(dir)) \in Nat
    <3>1. IsSequence(dir) /\ DOMAIN dir = {}
      BY <2>1 DEF IsSequence
    <3>2. \A k \in DOMAIN dir : IsSequence(dir[k])
      BY <3>1
    <3> QED BY <3>1, <3>2, NamesFinite
  <2>3. ordinal <= Cardinality(NamesIn(dir)) + errors + 2
    BY <2>1, <2>2
  <2> QED BY <2>1, <2>3 DEF ChosenRight
<1> QED BY <1>1, <1>2 DEF SearchInv

\* What build_name_entries chooses is no other entry's name, can be typed, and
\* reads back as the name if it is its exact form; the search for it gets no further
\* than the names in the directory and the failed reads make it.
THEOREM ShortNamesAreRight == Spec => []ChosenRight
<1>1. Init => SearchInv
  BY SearchInvHolds
<1>2. SearchInv /\ [Next]_vars => SearchInv'
  BY SearchInvHolds
<1>3. SearchInv => ChosenRight
  BY ChosenFollows
<1> QED BY <1>1, <1>2, <1>3, PTL DEF Spec

=============================================================================
