---------------------------- MODULE InputProofs -----------------------------
(***************************************************************************)
(* Proofs about Input: no key press is lost, doubled or taken out of order *)
(* by keyboard_read_line, for every set of keys, every buffer and any      *)
(* number of lines, presses and failures of the serial port.               *)
(***************************************************************************)
EXTENDS Input, TLAPS, SequenceTheorems, Numbers

Typing == {Translate(k.code) : k \in Keys}
Codes == {Prefix} \cup [code : {k.code : k \in Keys}, up : BOOLEAN]

-----------------------------------------------------------------------------
(* What Presses computes.                                                  *)

\* Characters in a row, in three parts.
LEMMA Associative ==
  \A s, t, u \in Seq(Typing) : (s \o t) \o u = s \o (t \o u)
<1> DEFINE T == Typing
<1> HIDE DEF T
<1>1. \A s, t, u \in Seq(T) : (s \o t) \o u = s \o (t \o u)
  BY ConcatAssociative
<1> QED BY <1>1 DEF T

\* A scancode is a character or none.
LEMMA PressType ==
  ASSUME NEW s \in Codes
  PROVE  Press(s) \in Seq(Typing)
<1>1. CASE s = Prefix \/ s.up \/ Translate(s.code) = NUL
  BY <1>1 DEF Press
<1>2. CASE ~(s = Prefix \/ s.up \/ Translate(s.code) = NUL)
  <2>1. s \in [code : {k.code : k \in Keys}, up : BOOLEAN]
    BY <1>2 DEF Codes
  <2>2. PICK k \in Keys : s.code = k.code
    BY <2>1
  <2>3. Translate(s.code) \in Typing
    BY <2>2 DEF Typing
  <2>4. Press(s) = <<Translate(s.code)>>
    BY <1>2 DEF Press
  <2> QED BY <2>3, <2>4
<1> QED BY <1>1, <1>2

\* Presses goes through the scancodes from the first to the last.
LEMMA PressesSteps ==
  ASSUME NEW codes \in Seq(Codes)
  PROVE  \E f \in [0 .. Len(codes) -> Seq(Typing)] :
            /\ f[0] = <<>>
            /\ \A i \in 1 .. Len(codes) : f[i] = f[i - 1] \o Press(codes[i])
            /\ Presses(codes) = f[Len(codes)]
<1> DEFINE m == Len(codes)
           V == Seq(Typing)
           Def(f) == [i \in 0 .. m |->
                         IF i = 0 THEN <<>> ELSE f[i - 1] \o Press(codes[i])]
           F == [k \in Nat |-> [s \in V |->
                    IF k + 1 \in 1 .. m THEN s \o Press(codes[k + 1]) ELSE s]]
           upTo == CHOOSE f : f = Def(f)
<1>1. m \in Nat /\ <<>> \in V
  OBVIOUS
<1>2. \A i \in 1 .. m : Press(codes[i]) \in V
  BY PressType
<1>3. F \in [Nat -> [V -> V]]
  <2> SUFFICES ASSUME NEW k \in Nat, NEW s \in V PROVE F[k][s] \in V
    OBVIOUS
  <2>1. CASE k + 1 \in 1 .. m
    <3>1. Press(codes[k + 1]) \in V
      BY <1>2, <2>1
    <3>2. F[k][s] = s \o Press(codes[k + 1])
      BY <2>1
    <3> HIDE DEF F, m
    <3> QED BY <3>1, <3>2, ConcatProperties
  <2>2. CASE ~(k + 1 \in 1 .. m)
    BY <2>2
  <2> QED BY <2>1, <2>2
<1>4. PICK f \in [0 .. m -> V] : Follows(f, <<>>, F, m)
  <2> HIDE DEF F, V, m
  <2> QED BY <1>1, <1>3, FiniteRecursion
<1>5. ASSUME NEW i \in 0 .. m PROVE f[i] = Def(f)[i]
  <2>1. CASE i = 0
    BY <1>4, <2>1 DEF Follows
  <2>2. CASE i # 0
    <3>1. i - 1 \in 0 .. m - 1 /\ (i - 1) + 1 = i /\ f[i - 1] \in V /\ i \in 1 .. m
          /\ i - 1 \in Nat
      BY <1>1, <2>2
    <3>2. f[i] = F[i - 1][f[i - 1]]
      BY <1>4, <3>1 DEF Follows
    <3> HIDE DEF V, m
    <3> QED BY <2>2, <3>1, <3>2
  <2> QED BY <2>1, <2>2
<1>6. f = Def(f)
  BY <1>5
<1>7. upTo = Def(upTo)
  BY <1>6
<1> HIDE DEF upTo, m
<1>8. upTo[0] = <<>> /\ \A i \in 1 .. m : upTo[i] = upTo[i - 1] \o Press(codes[i])
  <2>1. \A i \in 0 .. m :
           Def(upTo)[i] = IF i = 0 THEN <<>> ELSE upTo[i - 1] \o Press(codes[i])
    OBVIOUS
  <2>2. 0 \in 0 .. m /\ \A i \in 1 .. m : i \in 0 .. m /\ i # 0
    BY <1>1
  <2> HIDE DEF Def
  <2> QED BY <1>7, <2>1, <2>2
<1>9. 0 .. m \subseteq {i \in 0 .. m : upTo[i] \in V}
  <2> DEFINE S == {i \in 0 .. m : upTo[i] \in V}
  <2> HIDE DEF V, Def
  <2>1. 0 \in S
    BY <1>1, <1>8
  <2>2. ASSUME NEW i \in 0 .. m - 1, i \in S PROVE i + 1 \in S
    <3>1. i + 1 \in 1 .. m /\ (i + 1) - 1 = i /\ upTo[i] \in V /\ i + 1 \in 0 .. m
      BY <1>1, <2>2
    <3>2. upTo[i + 1] = upTo[i] \o Press(codes[i + 1]) /\ Press(codes[i + 1]) \in V
      BY <1>2, <1>8, <3>1
    <3>3. upTo[i + 1] \in V
      BY <3>1, <3>2, ConcatProperties DEF V
    <3> QED BY <3>1, <3>3
  <2> HIDE DEF S
  <2>3. 0 .. m \subseteq S
    BY <1>1, <2>1, <2>2, InductUpTo
  <2> QED BY <2>3 DEF S
<1>10. upTo \in [0 .. m -> V]
  <2>1. upTo = [i \in 0 .. m |-> upTo[i]]
    BY <1>7
  <2> HIDE DEF V, Def
  <2> QED BY <1>9, <2>1
<1>11. Presses(codes) = upTo[m]
  BY DEF Presses, upTo, m
<1> QED BY <1>8, <1>10, <1>11 DEF m

\* The characters of no scancode, and of one more at the end.
LEMMA PressesMore ==
  /\ Presses(<<>>) = <<>>
  /\ \A codes \in Seq(Codes) : Presses(codes) \in Seq(Typing)
  /\ \A codes \in Seq(Codes), s \in Codes :
        Presses(Append(codes, s)) = Presses(codes) \o Press(s)
<1>1. Presses(<<>>) = <<>>
  <2>1. <<>> \in Seq(Codes) /\ Len(<<>>) = 0
    OBVIOUS
  <2> QED BY <2>1, PressesSteps
<1>2. ASSUME NEW codes \in Seq(Codes) PROVE Presses(codes) \in Seq(Typing)
  <2>1. PICK f \in [0 .. Len(codes) -> Seq(Typing)] : Presses(codes) = f[Len(codes)]
    BY PressesSteps
  <2>2. Len(codes) \in 0 .. Len(codes)
    OBVIOUS
  <2> QED BY <2>1, <2>2
<1>3. ASSUME NEW codes \in Seq(Codes), NEW s \in Codes
      PROVE  Presses(Append(codes, s)) = Presses(codes) \o Press(s)
  <2> DEFINE m == Len(codes)
             more == Append(codes, s)
  <2>1. m \in Nat /\ more \in Seq(Codes) /\ Len(more) = m + 1 /\ more[m + 1] = s
        /\ \A i \in 1 .. m : more[i] = codes[i]
    OBVIOUS
  <2> HIDE DEF more
  <2>2. PICK f \in [0 .. m -> Seq(Typing)] :
            /\ f[0] = <<>>
            /\ \A i \in 1 .. m : f[i] = f[i - 1] \o Press(codes[i])
            /\ Presses(codes) = f[m]
    BY PressesSteps
  <2> HIDE DEF m
  <2>3. PICK g \in [0 .. m + 1 -> Seq(Typing)] :
            /\ g[0] = <<>>
            /\ \A i \in 1 .. m + 1 : g[i] = g[i - 1] \o Press(more[i])
            /\ Presses(more) = g[m + 1]
    BY <2>1, PressesSteps
  <2> DEFINE S == {i \in 0 .. m : f[i] = g[i]}
  <2>4. 0 \in S
    BY <2>1, <2>2, <2>3
  <2>5. ASSUME NEW i \in 0 .. m - 1, i \in S PROVE i + 1 \in S
    <3>1. i + 1 \in 1 .. m /\ (i + 1) - 1 = i /\ i + 1 \in 1 .. m + 1 /\ f[i] = g[i]
          /\ i + 1 \in 0 .. m
      BY <2>1, <2>5
    <3>2. f[i + 1] = f[i] \o Press(codes[i + 1]) /\ g[i + 1] = g[i] \o Press(more[i + 1])
      BY <2>2, <2>3, <3>1
    <3> QED BY <2>1, <3>1, <3>2
  <2> HIDE DEF S
  <2>6. 0 .. m \subseteq S
    BY <2>1, <2>4, <2>5, InductUpTo
  <2>7. f[m] = g[m] /\ m + 1 \in 1 .. m + 1 /\ (m + 1) - 1 = m
    BY <2>1, <2>6 DEF S
  <2>8. g[m + 1] = g[m] \o Press(more[m + 1])
    BY <2>3, <2>7
  <2> QED BY <2>1, <2>2, <2>3, <2>7, <2>8 DEF more
<1> QED BY <1>1, <1>2, <1>3

\* The characters of a scancode and of those after it.
LEMMA PressesFirst ==
  ASSUME NEW codes \in Seq(Codes), codes # <<>>
  PROVE  Presses(codes) = Press(Head(codes)) \o Presses(Tail(codes))
<1> DEFINE m == Len(Tail(codes))
           first == Press(Head(codes))
           rest == Tail(codes)
<1>1. rest \in Seq(Codes) /\ m \in Nat /\ Len(codes) = m + 1 /\ Head(codes) = codes[1]
      /\ \A i \in 1 .. m : rest[i] = codes[i + 1]
  OBVIOUS
<1>2. first \in Seq(Typing) /\ \A i \in 1 .. m : Press(rest[i]) \in Seq(Typing)
  BY <1>1, PressType
<1>3. PICK f \in [0 .. m -> Seq(Typing)] :
            /\ f[0] = <<>>
            /\ \A i \in 1 .. m : f[i] = f[i - 1] \o Press(rest[i])
            /\ Presses(rest) = f[m]
  BY <1>1, PressesSteps
<1> HIDE DEF m, rest, first
<1>4. PICK g \in [0 .. m + 1 -> Seq(Typing)] :
            /\ g[0] = <<>>
            /\ \A i \in 1 .. m + 1 : g[i] = g[i - 1] \o Press(codes[i])
            /\ Presses(codes) = g[m + 1]
  BY <1>1, PressesSteps
<1> DEFINE S == {i \in 0 .. m : g[i + 1] = first \o f[i]}
<1>5. 0 \in S
  <2>1. 1 \in 1 .. m + 1 /\ 1 - 1 = 0 /\ 0 + 1 = 1 /\ 0 \in 0 .. m
    BY <1>1
  <2>2. g[1] = g[0] \o first
    BY <1>1, <1>4, <2>1 DEF first
  <2>3. g[0] \o first = first /\ first \o f[0] = first
    BY <1>2, <1>3, <1>4, ConcatEmptySeq
  <2> QED BY <2>1, <2>2, <2>3
<1>6. ASSUME NEW i \in 0 .. m - 1, i \in S PROVE i + 1 \in S
  <2> DEFINE j == i + 1
  <2>1. j \in 1 .. m /\ j - 1 = i /\ j + 1 \in 1 .. m + 1 /\ (j + 1) - 1 = j
        /\ j \in 0 .. m /\ i \in 0 .. m /\ g[j] = first \o f[i]
    <3>1. j \in 1 .. m /\ j - 1 = i /\ j + 1 \in 1 .. m + 1 /\ (j + 1) - 1 = j
          /\ j \in 0 .. m /\ i \in 0 .. m
      <4>1. m \in Nat
        BY <1>1
      <4> QED BY <4>1
    <3>2. g[i + 1] = first \o f[i]
      BY <1>6, Zenon
    <3> QED BY <3>1, <3>2, Zenon
  <2> HIDE DEF j
  <2>2. f[j] = f[i] \o Press(rest[j])
    BY <1>3, <2>1
  <2>3. g[j + 1] = g[j] \o Press(codes[j + 1]) /\ rest[j] = codes[j + 1]
    BY <1>1, <1>4, <2>1
  <2>4. f[i] \in Seq(Typing) /\ Press(rest[j]) \in Seq(Typing)
    BY <1>2, <2>1
  <2>5. (first \o f[i]) \o Press(rest[j]) = first \o (f[i] \o Press(rest[j]))
    BY <1>2, <2>4, Associative
  <2>6. g[j + 1] = first \o f[j]
    BY <2>1, <2>2, <2>3, <2>5
  <2> QED BY <2>1, <2>6 DEF j
<1> HIDE DEF S
<1>7. 0 .. m \subseteq S
  BY <1>1, <1>5, <1>6, InductUpTo
<1>8. g[m + 1] = first \o f[m]
  <2>1. m \in 0 .. m
    BY <1>1
  <2> QED BY <1>7, <2>1, Zenon DEF S
<1> QED BY <1>3, <1>4, <1>8 DEF first, rest

-----------------------------------------------------------------------------
(* Every key press counts once and in order.                               *)

InputInv ==
    /\ scan \in Seq(Codes)
    /\ taken \in Seq(Typing)
    /\ pressed = taken \o Presses(scan)

\* A key that goes down or up.
LEMMA KeyKeeps ==
  ASSUME InputInv, Key
  PROVE  InputInv'
<1>1. PICK k \in Keys, up \in BOOLEAN :
           /\ scan' = scan \o (IF k.extended THEN <<Prefix>> ELSE <<>>)
                           \o <<[code |-> k.code, up |-> up]>>
           /\ pressed' = IF up \/ Translate(k.code) = NUL THEN pressed
                         ELSE Append(pressed, Translate(k.code))
  BY DEF Key
<1>2. taken' = taken /\ scan \in Seq(Codes) /\ taken \in Seq(Typing)
      /\ pressed = taken \o Presses(scan)
  BY DEF Key, InputInv
<1> DEFINE x == [code |-> k.code, up |-> up]
           pre == IF k.extended THEN Append(scan, Prefix) ELSE scan
           P == Presses(scan)
<1>3. x \in Codes /\ Prefix \in Codes /\ x # Prefix /\ x.up = up /\ x.code = k.code
  BY InputAssumption DEF Codes, Prefix
<1> HIDE DEF x
<1>4. pre \in Seq(Codes) /\ scan' = Append(pre, x)
  <2>1. CASE k.extended
    <3>1. scan' = scan \o <<Prefix>> \o <<x>> /\ pre = Append(scan, Prefix)
      BY <1>1, <2>1 DEF x
    <3> HIDE DEF pre
    <3> QED BY <1>2, <1>3, <3>1
  <2>2. CASE ~k.extended
    <3>1. scan' = scan \o <<>> \o <<x>> /\ pre = scan
      BY <1>1, <2>2 DEF x
    <3> HIDE DEF pre
    <3> QED BY <1>2, <1>3, <3>1
  <2> QED BY <2>1, <2>2
<1>5. P \in Seq(Typing) /\ Press(x) \in Seq(Typing)
  BY <1>2, <1>3, PressesMore, PressType
<1>6. Presses(pre) = P
  <2>1. Press(Prefix) = <<>>
    BY DEF Press
  <2>2. Presses(Append(scan, Prefix)) = P \o <<>>
    BY <1>2, <1>3, <2>1, PressesMore
  <2>3. P \o <<>> = P
    BY <1>5, ConcatEmptySeq
  <2> QED BY <2>2, <2>3
<1> HIDE DEF pre, P
<1>7. Presses(scan') = P \o Press(x) /\ scan' \in Seq(Codes)
  <2>1. Presses(Append(pre, x)) = Presses(pre) \o Press(x)
    BY <1>3, <1>4, PressesMore
  <2> QED BY <1>3, <1>4, <1>6, <2>1
<1>8. pressed' = pressed \o Press(x)
  <2>0. pressed \in Seq(Typing)
    BY <1>2, <1>5, ConcatProperties DEF P
  <2>1. CASE up \/ Translate(k.code) = NUL
    <3>1. Press(x) = <<>> /\ pressed' = pressed
      BY <1>1, <1>3, <2>1 DEF Press
    <3> QED BY <2>0, <3>1, ConcatEmptySeq
  <2>2. CASE ~(up \/ Translate(k.code) = NUL)
    <3> DEFINE t == Translate(k.code)
    <3>1. Press(x) = <<t>> /\ pressed' = Append(pressed, t)
      BY <1>1, <1>3, <2>2 DEF Press
    <3>2. t \in Typing
      BY DEF Typing
    <3> HIDE DEF t
    <3> QED BY <2>0, <3>1, <3>2
  <2> QED BY <2>1, <2>2
<1>9. (taken \o P) \o Press(x) = taken \o (P \o Press(x))
  BY <1>2, <1>5, Associative
<1>10. pressed' = taken' \o Presses(scan')
  BY <1>2, <1>7, <1>8, <1>9 DEF P
<1>11. Presses(scan)' = Presses(scan')
  OBVIOUS
<1> QED BY <1>2, <1>7, <1>10, <1>11 DEF InputInv

\* A scancode that is read, between two looks at the serial port.
LEMMA PollKeysKeeps ==
  ASSUME InputInv, PollKeys
  PROVE  InputInv'
<1> DEFINE h == Head(scan)
           t == Translate(h.code)
           R == Presses(Tail(scan))
<1>1. scan # <<>> /\ scan' = Tail(scan) /\ pressed' = pressed
      /\ IF Ignored(h) THEN taken' = taken
         ELSE taken' = IF t = NUL THEN taken ELSE Append(taken, t)
  BY DEF PollKeys
<1>2. scan \in Seq(Codes) /\ taken \in Seq(Typing) /\ pressed = taken \o Presses(scan)
  BY DEF InputInv
<1>3. h \in Codes /\ scan' \in Seq(Codes)
  BY <1>1, <1>2
<1>4. Presses(scan) = Press(h) \o R /\ R \in Seq(Typing)
  BY <1>1, <1>2, <1>3, PressesFirst, PressesMore
<1>5. Press(h) \in Seq(Typing)
  BY <1>3, PressType
<1> HIDE DEF R, h
<1>6. taken' = taken \o Press(h)
  <2>1. CASE Ignored(h) \/ t = NUL
    <3>1. Press(h) = <<>>
      BY <2>1 DEF Press, Ignored
    <3>2. taken' = taken
      BY <1>1, <2>1 DEF h
    <3> QED BY <1>2, <3>1, <3>2, ConcatEmptySeq
  <2>2. CASE ~(Ignored(h) \/ t = NUL)
    <3>1. Press(h) = <<t>>
      BY <2>2 DEF Press, Ignored
    <3>2. taken' = Append(taken, t)
      BY <1>1, <2>2 DEF h
    <3>3. t \in Typing
      BY <1>5, <3>1
    <3> HIDE DEF t
    <3> QED BY <1>2, <3>1, <3>2, <3>3
  <2> QED BY <2>1, <2>2
<1>7. taken' \in Seq(Typing)
  BY <1>2, <1>5, <1>6, ConcatProperties
<1>8. (taken \o Press(h)) \o R = taken \o (Press(h) \o R)
  BY <1>2, <1>4, <1>5, Associative
<1>9. pressed' = taken' \o Presses(scan')
  BY <1>1, <1>2, <1>4, <1>6, <1>8 DEF R
<1>10. Presses(scan)' = Presses(scan')
  OBVIOUS
<1> QED BY <1>3, <1>7, <1>9, <1>10 DEF InputInv

\* A step that leaves the scancodes and both histories alone.
LEMMA OthersKeep ==
  ASSUME InputInv, scan' = scan, taken' = taken, pressed' = pressed
  PROVE  InputInv'
<1>1. Presses(scan)' = Presses(scan')
  OBVIOUS
<1> QED BY <1>1 DEF InputInv

\* Every key press counts once and in order: what went down is what was taken
\* and what still waits, whatever the serial port does between a prefix and its
\* code, between two lines and between two keys (keyboard.c, keyboard_read_line).
THEOREM KeysStayInOrder == Spec => []KeysInOrder
<1>1. Init => InputInv
  <2> SUFFICES ASSUME Init PROVE InputInv
    OBVIOUS
  <2>1. scan = <<>> /\ taken = <<>> /\ pressed = <<>>
    BY DEF Init
  <2>2. Presses(scan) = <<>>
    BY <2>1, PressesMore
  <2> QED BY <2>1, <2>2 DEF InputInv
<1>2. InputInv /\ [Next]_vars => InputInv'
  <2> SUFFICES ASSUME InputInv, [Next]_vars PROVE InputInv'
    OBVIOUS
  <2>1. CASE Key
    BY <2>1, KeyKeeps
  <2>2. CASE PollKeys
    BY <2>2, PollKeysKeeps
  <2>3. CASE Arrive \/ PortFails \/ ReadLine \/ PollSerial \/ ReadSerial \/ NoKey
             \/ Drop \/ Edit \/ Enter \/ UNCHANGED vars
    <3>1. scan' = scan /\ taken' = taken /\ pressed' = pressed
      BY <2>3 DEF Arrive, PortFails, ReadLine, PollSerial, ReadSerial, NoKey, Drop,
                  Edit, Enter, vars, keyboard
    <3> QED BY <3>1, OthersKeep
  <2> QED BY <2>1, <2>2, <2>3 DEF Next, Reader
<1>3. InputInv => KeysInOrder
  BY DEF InputInv, KeysInOrder
<1> QED BY <1>1, <1>2, <1>3, PTL DEF Spec
=============================================================================
