--------------------------- MODULE ConsoleProofs ----------------------------
(***************************************************************************)
(* Proofs about Console: what one sees is what was typed, for every screen *)
(* geometry, the ones whose height is no multiple of a character's         *)
(* included, and every sequence of output, wrapping, scrolling and         *)
(* erasing.  The pixel lines are dealt with first: after that a screen is  *)
(* a table of the characters its cells show.                               *)
(***************************************************************************)
EXTENDS Console, TLAPS, SequenceTheorems, Numbers

-----------------------------------------------------------------------------
(* Lines and rows.                                                         *)

\* Blocks of n numbers: where block r lies, and how many whole blocks there are.
LEMMA Blocks ==
  ASSUME NEW n \in Nat \ {0}, NEW h \in Nat
  PROVE  /\ \A r \in Nat : r * n \in Nat /\ (r + 1) * n = r * n + n
         /\ \A y \in Nat, r \in Nat : y \div n = r <=> y \in r * n .. (r + 1) * n - 1
         /\ h \div n \in Nat /\ (h \div n) * n <= h /\ h < (h \div n) * n + n
         /\ \A r \in Nat : r < h \div n => (r + 1) * n <= (h \div n) * n
<1>1. \A r \in Nat : r * n \in Nat /\ (r + 1) * n = r * n + n
  BY Products
<1>2. \A x \in Nat : /\ x \div n \in Nat /\ x % n \in 0 .. n - 1
                     /\ x = (x \div n) * n + (x % n)
  BY DivMod
<1>3. \A q \in Nat, r \in 0 .. n - 1 : (q * n + r) \div n = q
  BY DivMod
<1>4. ASSUME NEW y \in Nat, NEW r \in Nat
      PROVE  y \div n = r <=> y \in r * n .. (r + 1) * n - 1
  <2>1. r * n \in Nat /\ (r + 1) * n = r * n + n
    BY <1>1
  <2> DEFINE b == r * n
             c == (r + 1) * n
  <2> HIDE DEF b, c
  <2>2. ASSUME y \div n = r PROVE y \in b .. c - 1
    <3>1. y = b + (y % n) /\ y % n \in 0 .. n - 1
      BY <1>2, <2>2 DEF b
    <3>2. b \in Nat /\ c = b + n
      BY <2>1 DEF b, c
    <3> QED BY <3>1, <3>2
  <2>3. ASSUME y \in b .. c - 1 PROVE y \div n = r
    <3>1. b \in Nat /\ c = b + n
      BY <2>1 DEF b, c
    <3>2. y - b \in 0 .. n - 1 /\ b + (y - b) = y
      BY <2>3, <3>1
    <3>3. (r * n + (y - b)) \div n = r
      BY <1>3, <3>2
    <3> QED BY <3>2, <3>3 DEF b
  <2> QED BY <2>2, <2>3 DEF b, c
<1>5. h \div n \in Nat /\ (h \div n) * n <= h /\ h < (h \div n) * n + n
  <2> DEFINE b == (h \div n) * n
             e == h % n
  <2>1. h \div n \in Nat /\ e \in 0 .. n - 1 /\ h = b + e
    BY <1>2
  <2>2. b \in Nat
    BY <1>1, <2>1
  <2> HIDE DEF b, e
  <2>3. b <= h /\ h < b + n
    BY <2>1, <2>2
  <2> QED BY <2>1, <2>3 DEF b
<1>6. ASSUME NEW r \in Nat, r < h \div n PROVE (r + 1) * n <= (h \div n) * n
  <2> DEFINE q == h \div n
  <2>1. q \in Nat
    BY <1>5
  <2> HIDE DEF q
  <2>2. r + 1 <= q
    BY <1>6, <2>1 DEF q
  <2>3. (r + 1) * n <= q * n
    BY <2>1, <2>2, Products
  <2> QED BY <2>3 DEF q
<1> QED BY <1>1, <1>4, <1>5, <1>6

\* The geometry of a screen: the lines of a row, and the rows it has room for.
LEMMA RowLines ==
  ASSUME NEW g \in Geometries
  PROVE  /\ g.columns \in Nat \ {0} /\ g.height \in Nat \ {0} /\ g.cell \in Nat \ {0}
         /\ Rows(g) \in Nat \ {0}
         /\ Rows(g) * g.cell \in Nat
         /\ Rows(g) * g.cell <= g.height /\ g.height < Rows(g) * g.cell + g.cell
         /\ \A y \in Nat, r \in Nat :
               y \div g.cell = r <=> y \in r * g.cell .. (r + 1) * g.cell - 1
         /\ \A r \in Nat : r < Rows(g) => (r + 1) * g.cell <= Rows(g) * g.cell
         /\ \A r \in Nat : r * g.cell \in Nat /\ (r + 1) * g.cell = r * g.cell + g.cell
<1>1. g.columns \in Nat \ {0} /\ g.height \in Nat \ {0} /\ g.cell \in Nat \ {0}
      /\ g.height >= g.cell
  BY ConsoleAssumption
<1>2. /\ \A r \in Nat : r * g.cell \in Nat /\ (r + 1) * g.cell = r * g.cell + g.cell
      /\ \A y \in Nat, r \in Nat :
               y \div g.cell = r <=> y \in r * g.cell .. (r + 1) * g.cell - 1
      /\ Rows(g) \in Nat /\ Rows(g) * g.cell <= g.height
      /\ g.height < Rows(g) * g.cell + g.cell
      /\ \A r \in Nat : r < Rows(g) => (r + 1) * g.cell <= Rows(g) * g.cell
  BY <1>1, Blocks DEF Rows
<1>3. Rows(g) # 0
  <2>1. 0 * g.cell = 0
    BY <1>1
  <2> SUFFICES ASSUME Rows(g) = 0 PROVE FALSE
    OBVIOUS
  <2>2. g.height < 0 * g.cell + g.cell
    BY <1>2
  <2> QED BY <1>1, <2>1, <2>2
<1> QED BY <1>1, <1>2, <1>3

-----------------------------------------------------------------------------
(* From pixel lines to cells.                                              *)

\* What a column of a pixel line can hold, a picture of the screen, and what it
\* shows in a cell, line by line.
Pixels == {Background} \cup Firmware \cup (Chars \X (0 .. geo.cell - 1))
Picture(p) == p \in [Lines(geo) -> [Columns(geo) -> Pixels]]
Cell(p, r, c) ==
    IF \A k \in 0 .. geo.cell - 1 : p[r * geo.cell + k][c] = Background THEN Space
    ELSE LET ch == p[r * geo.cell][c][1]
         IN  IF \A k \in 0 .. geo.cell - 1 : p[r * geo.cell + k][c] = <<ch, k>>
             THEN ch ELSE "garbled"

\* The lines below the last row never show a part of a character: they are as
\* the firmware left them until the first scroll clears them.
Below(p, s) ==
    \A y \in Lines(geo), c \in Columns(geo) :
        y >= Rows(geo) * geo.cell
            => IF s = 0 THEN p[y][c] \in Firmware ELSE p[y][c] = Background

\* The lines of a row are the first line and the offsets from it.
LEMMA LineOf ==
  ASSUME geo \in Geometries, NEW r \in Nat
  PROVE  /\ \A y \in CellLines(r) : /\ y \in Nat /\ y % geo.cell \in 0 .. geo.cell - 1
                                    /\ y = r * geo.cell + (y % geo.cell)
         /\ \A k \in 0 .. geo.cell - 1 : /\ r * geo.cell + k \in CellLines(r)
                                         /\ (r * geo.cell + k) % geo.cell = k
                                         /\ (r * geo.cell + k) \div geo.cell = r
         /\ r < Rows(geo) => CellLines(r) \subseteq Lines(geo)
<1> DEFINE n == geo.cell
           b == r * n
<1>1. n \in Nat \ {0} /\ b \in Nat /\ (r + 1) * n = b + n
  BY RowLines
<1>2. CellLines(r) = b .. b + n - 1
  BY <1>1 DEF CellLines
<1>3. \A x \in 0 .. n - 1 : (b + x) % n = x /\ (b + x) \div n = r
  BY <1>1, DivMod
<1>4. r < Rows(geo) => b + n <= geo.height /\ geo.height \in Nat
  <2>1. geo.height \in Nat /\ Rows(geo) * n \in Nat /\ Rows(geo) * n <= geo.height
        /\ (r < Rows(geo) => (r + 1) * n <= Rows(geo) * n)
    BY RowLines
  <2> DEFINE R == Rows(geo) * n
             e == (r + 1) * n
  <2> HIDE DEF R, e, b
  <2>2. r < Rows(geo) => e <= R /\ R <= geo.height
    BY <2>1 DEF R, e
  <2>3. e = b + n
    BY <1>1 DEF e, b
  <2> QED BY <1>1, <2>1, <2>2, <2>3 DEF R
<1> HIDE DEF b, n
<1>5. ASSUME NEW y \in b .. b + n - 1
      PROVE  y \in Nat /\ y % n \in 0 .. n - 1 /\ y = b + (y % n)
  <2>1. y - b \in 0 .. n - 1 /\ b + (y - b) = y /\ y \in Nat
    BY <1>1, <1>5
  <2>2. (b + (y - b)) % n = y - b
    BY <1>3, <2>1
  <2>3. y % n = y - b
    BY <2>1, <2>2
  <2> QED BY <1>1, <2>1, <2>3
<1>6. \A k \in 0 .. n - 1 : b + k \in b .. b + n - 1
  BY <1>1
<1>7. r < Rows(geo) => b .. b + n - 1 \subseteq Lines(geo)
  BY <1>1, <1>4 DEF Lines
<1> QED BY <1>2, <1>3, <1>5, <1>6, <1>7 DEF b, n

\* What the screen shows is what the picture shows.
LEMMA ShownIsCell ==
  ASSUME geo \in Geometries, NEW r \in Nat, NEW c
  PROVE  ShownAt(r, c) = Cell(pix, r, c)
<1> DEFINE n == geo.cell
           b == r * n
<1>1. \A y \in CellLines(r) : y % n \in 0 .. n - 1 /\ y = b + (y % n)
  BY LineOf
<1>2. \A k \in 0 .. n - 1 : b + k \in CellLines(r) /\ (b + k) % n = k
  BY LineOf
<1>3. (\A y \in CellLines(r) : pix[y][c] = Background) <=>
      (\A k \in 0 .. n - 1 : pix[b + k][c] = Background)
  BY <1>1, <1>2
<1>4. \A ch : (\A y \in CellLines(r) : pix[y][c] = <<ch, y % n>>) <=>
              (\A k \in 0 .. n - 1 : pix[b + k][c] = <<ch, k>>)
  BY <1>1, <1>2
<1> QED BY <1>3, <1>4 DEF ShownAt, Cell

\* Two cells with the same lines show the same.
LEMMA SameCell ==
  ASSUME geo \in Geometries, NEW p, NEW q, NEW r \in Nat, NEW s \in Nat, NEW c, NEW d,
         \A k \in 0 .. geo.cell - 1 : q[r * geo.cell + k][c] = p[s * geo.cell + k][d]
  PROVE  Cell(q, r, c) = Cell(p, s, d)
<1>1. geo.cell \in Nat \ {0} /\ r * geo.cell \in Nat /\ s * geo.cell \in Nat
  BY RowLines
<1>2. r * geo.cell + 0 = r * geo.cell /\ s * geo.cell + 0 = s * geo.cell
      /\ 0 \in 0 .. geo.cell - 1
  BY <1>1
<1>3. q[r * geo.cell][c] = p[s * geo.cell][d]
  BY <1>2
<1> QED BY <1>3 DEF Cell

\* A cell whose lines are those of a character shows it.
LEMMA CharCell ==
  ASSUME geo \in Geometries, NEW p, NEW r \in Nat, NEW c, NEW ch \in Chars,
         \A k \in 0 .. geo.cell - 1 : p[r * geo.cell + k][c] = <<ch, k>>
  PROVE  Cell(p, r, c) = ch
<1>1. geo.cell \in Nat \ {0} /\ r * geo.cell \in Nat
  BY RowLines
<1>2. r * geo.cell + 0 = r * geo.cell /\ 0 \in 0 .. geo.cell - 1
  BY <1>1
<1>3. p[r * geo.cell][c] = <<ch, 0>>
  BY <1>2
<1>4. <<ch, 0>> # Background
  BY ConsoleAssumption DEF Background
<1>5. ~(\A k \in 0 .. geo.cell - 1 : p[r * geo.cell + k][c] = Background)
  BY <1>2, <1>3, <1>4
<1> QED BY <1>3, <1>5 DEF Cell

\* Writing a character changes its cell and no other.
LEMMA PutShows ==
  ASSUME geo \in Geometries, Visible(geo), NEW p, NEW z, Picture(p), Below(p, z),
         NEW r \in 0 .. Rows(geo) - 1, NEW c \in Columns(geo), NEW ch \in Chars \cup {Space}
  PROVE  /\ Picture(PutAt(p, r, c, ch)) /\ Below(PutAt(p, r, c, ch), z)
         /\ \A s \in 0 .. Rows(geo) - 1, d \in Columns(geo) :
               Cell(PutAt(p, r, c, ch), s, d) =
                   IF s = r /\ d = c THEN ch ELSE Cell(p, s, d)
         /\ \A s \in 0 .. Rows(geo) - 1, d \in Columns(geo) :
               ~(s = r /\ d = c) =>
                   \A y \in CellLines(s) : PutAt(p, r, c, ch)[y][d] = p[y][d]
<1> DEFINE n == geo.cell
           V == Pixels
           Dot(y) == IF ch = Space THEN Background ELSE <<ch, y % n>>
           q == [y \in Lines(geo) |->
                    IF y \div n = r THEN [p[y] EXCEPT ![c] = Dot(y)] ELSE p[y]]
<1>1. PutAt(p, r, c, ch) = q
  BY DEF PutAt
<1>2. n \in Nat \ {0} /\ Rows(geo) \in Nat \ {0} /\ geo.height \in Nat \ {0} /\ r \in Nat
      /\ Lines(geo) \subseteq Nat
  BY RowLines DEF Lines
<1>3. \A y \in Lines(geo) : p[y] \in [Columns(geo) -> V]
  BY DEF Picture
<1>4. ASSUME NEW y \in Lines(geo) PROVE Dot(y) \in V
  <2>1. y % n \in 0 .. n - 1
    BY <1>2, DivMod
  <2>2. CASE ch = Space
    BY <2>2 DEF Pixels
  <2>3. CASE ch # Space
    <3>1. <<ch, y % n>> \in Chars \X (0 .. n - 1)
      BY <2>1, <2>3
    <3> QED BY <2>3, <3>1 DEF Pixels
  <2> QED BY <2>2, <2>3
<1> HIDE DEF V, Dot
<1>5. ASSUME NEW y \in Lines(geo)
      PROVE  [p[y] EXCEPT ![c] = Dot(y)] \in [Columns(geo) -> V]
  BY <1>3, <1>4
<1>6. q \in [Lines(geo) -> [Columns(geo) -> V]]
  BY <1>3, <1>5
<1>7. \A y \in Lines(geo), d \in Columns(geo) :
         q[y][d] = IF y \div n = r /\ d = c THEN Dot(y) ELSE p[y][d]
  BY <1>3
<1> HIDE DEF q
<1>8. Picture(q)
  BY <1>6 DEF Picture, V
<1>9. Below(q, z)
  <2> SUFFICES ASSUME NEW y \in Lines(geo), NEW d \in Columns(geo), y >= Rows(geo) * n
               PROVE  q[y][d] = p[y][d]
    BY DEF Below
  <2>1. y \div n # r
    <3> SUFFICES ASSUME y \div n = r PROVE FALSE
      OBVIOUS
    <3>1. y \in r * n .. (r + 1) * n - 1 /\ (r + 1) * n <= Rows(geo) * n
          /\ Rows(geo) * n \in Nat /\ r * n \in Nat /\ (r + 1) * n = r * n + n
      BY <1>2, RowLines
    <3> DEFINE e == (r + 1) * n
               R == Rows(geo) * n
               b == r * n
    <3> HIDE DEF e, R, b
    <3>2. y \in b .. e - 1 /\ e <= R /\ R \in Nat /\ b \in Nat /\ e = b + n /\ y >= R
      BY <3>1 DEF e, R, b
    <3> QED BY <1>2, <3>2
  <2> QED BY <1>7, <2>1
<1>10. ASSUME NEW s \in 0 .. Rows(geo) - 1, NEW d \in Columns(geo)
       PROVE  Cell(q, s, d) = IF s = r /\ d = c THEN ch ELSE Cell(p, s, d)
  <2>1. s \in Nat /\ s < Rows(geo)
    BY <1>2
  <2>2. \A k \in 0 .. n - 1 : s * n + k \in Lines(geo)
           /\ (s * n + k) \div n = s /\ (s * n + k) % n = k
    BY <2>1, LineOf
  <2>3. CASE s = r /\ d = c
    <3>1. \A k \in 0 .. n - 1 : q[s * n + k][d] = Dot(s * n + k)
      BY <1>7, <2>2, <2>3
    <3>2. CASE ch = Space
      <4>1. \A k \in 0 .. n - 1 : q[s * n + k][d] = Background
        BY <3>1, <3>2 DEF Dot
      <4> QED BY <2>3, <3>2, <4>1 DEF Cell
    <3>3. CASE ch # Space
      <4>1. \A k \in 0 .. n - 1 : q[s * n + k][d] = <<ch, k>>
        BY <2>2, <3>1, <3>3 DEF Dot
      <4> QED BY <2>1, <2>3, <3>3, <4>1, CharCell
    <3> QED BY <3>2, <3>3
  <2>4. CASE ~(s = r /\ d = c)
    <3>1. \A k \in 0 .. n - 1 : q[s * n + k][d] = p[s * n + k][d]
      BY <1>7, <2>2, <2>4
    <3> QED BY <2>1, <2>4, <3>1, SameCell
  <2> QED BY <2>3, <2>4
<1>11. ASSUME NEW s \in 0 .. Rows(geo) - 1, NEW d \in Columns(geo), ~(s = r /\ d = c),
              NEW y \in CellLines(s)
       PROVE  q[y][d] = p[y][d]
  <2>1. s \in Nat /\ s < Rows(geo)
    BY <1>2
  <2>2. y \in Lines(geo) /\ y % n \in 0 .. n - 1 /\ y = s * n + (y % n)
    BY <2>1, LineOf
  <2>3. \A k \in 0 .. n - 1 : (s * n + k) \div n = s
    BY <2>1, LineOf
  <2>4. y \div n = s
    BY <2>2, <2>3
  <2> QED BY <1>7, <1>11, <2>2, <2>4
<1> QED BY <1>1, <1>8, <1>9, <1>10, <1>11

\* Scrolling moves every row up by one and clears the lines below the last row.
\* The last row is empty then, but for what the first scroll brings into it.
LEMMA ScrollShows ==
  ASSUME geo \in Geometries, NEW p, NEW z, Picture(p), Below(p, z)
  PROVE  /\ Picture(Scrolled(p)) /\ \A w : w # 0 => Below(Scrolled(p), w)
         /\ \A r \in 0 .. Rows(geo) - 1, c \in Columns(geo) :
               IF r = Rows(geo) - 1
               THEN IF z = 0 THEN Leftover(Scrolled(p), c)
                             ELSE Cell(Scrolled(p), r, c) = Space
               ELSE Cell(Scrolled(p), r, c) = Cell(p, r + 1, c)
<1> DEFINE n == geo.cell
           h == geo.height
           B == Rows(geo) * n
           V == Pixels
           q == [y \in Lines(geo) |-> IF y >= h - n THEN [c \in Columns(geo) |-> Background]
                                      ELSE p[y + n]]
<1>1. Scrolled(p) = q
  BY DEF Scrolled
<1>2. n \in Nat \ {0} /\ h \in Nat \ {0} /\ B \in Nat /\ B <= h /\ h < B + n
      /\ Rows(geo) \in Nat \ {0}
  BY RowLines
<1>3. Lines(geo) = 0 .. h - 1
  BY DEF Lines
<1> HIDE DEF B
<1>4. \A y \in Lines(geo) : p[y] \in [Columns(geo) -> V]
  BY DEF Picture
<1>5. [c \in Columns(geo) |-> Background] \in [Columns(geo) -> V]
  BY DEF Pixels
<1>6. \A y \in Lines(geo) : ~(y >= h - n) => y + n \in Lines(geo)
  BY <1>2, <1>3
<1>7. q \in [Lines(geo) -> [Columns(geo) -> V]]
  <2> HIDE DEF V
  <2> QED BY <1>4, <1>5, <1>6
<1>8. \A y \in Lines(geo), c \in Columns(geo) :
         q[y][c] = IF y >= h - n THEN Background ELSE p[y + n][c]
  OBVIOUS
<1> HIDE DEF q, V
<1>9. \A y \in Lines(geo), c \in Columns(geo) : y + n >= B =>
         IF y >= h - n THEN q[y][c] = Background
         ELSE IF z = 0 THEN q[y][c] \in Firmware ELSE q[y][c] = Background
  <2> SUFFICES ASSUME NEW y \in Lines(geo), NEW c \in Columns(geo), y + n >= B,
                      ~(y >= h - n)
               PROVE  IF z = 0 THEN q[y][c] \in Firmware ELSE q[y][c] = Background
    BY <1>8
  <2>1. q[y][c] = p[y + n][c] /\ y + n \in Lines(geo)
    BY <1>6, <1>8
  <2>2. IF z = 0 THEN p[y + n][c] \in Firmware ELSE p[y + n][c] = Background
    BY <2>1 DEF Below, B
  <2> QED BY <2>1, <2>2
<1>10. Picture(q)
  BY <1>7 DEF Picture, V
<1>11. ASSUME NEW w, w # 0 PROVE Below(q, w)
  <2> SUFFICES ASSUME NEW y \in Lines(geo), NEW c \in Columns(geo), y >= B
               PROVE  q[y][c] = Background
    BY <1>11 DEF Below, B
  <2>1. y >= h - n
    BY <1>2, <1>3
  <2> QED BY <1>8, <2>1
<1>12. ASSUME NEW r \in 0 .. Rows(geo) - 1, NEW c \in Columns(geo)
       PROVE  IF r = Rows(geo) - 1
              THEN IF z = 0 THEN Leftover(q, c) ELSE Cell(q, r, c) = Space
              ELSE Cell(q, r, c) = Cell(p, r + 1, c)
  <2>1. r \in Nat /\ r < Rows(geo)
    BY <1>2
  <2> DEFINE b == r * n
             e == (r + 1) * n
  <2>2. b \in Nat /\ e = b + n
    BY <2>1, RowLines
  <2>3. \A k \in 0 .. n - 1 : b + k \in Lines(geo)
    BY <2>1, LineOf
  <2>4. CASE r = Rows(geo) - 1
    <3>1. e = B
      <4>1. r + 1 = Rows(geo)
        BY <1>2, <2>4
      <4> QED BY <4>1 DEF B
    <3> HIDE DEF b, e, n
    <3>2. ASSUME NEW k \in 0 .. n - 1 PROVE (b + k) + n >= B
      <4>1. b \in Nat /\ e = b + n /\ n \in Nat /\ e = B
        BY <1>2, <2>2, <3>1
      <4> QED BY <4>1
    <3>3. ASSUME z # 0 PROVE Cell(q, r, c) = Space
      <4>1. \A k \in 0 .. n - 1 : q[b + k][c] = Background
        BY <1>9, <2>3, <3>2, <3>3
      <4> QED BY <4>1 DEF Cell, b, n
    <3>4. ASSUME z = 0 PROVE Leftover(q, c)
      <4> SUFFICES ASSUME NEW y \in CellLines(r)
                   PROVE  IF y < h - n THEN q[y][c] \in Firmware
                                       ELSE q[y][c] = Background
        BY <2>4 DEF Leftover, n
      <4>1. y \in Lines(geo) /\ y % n \in 0 .. n - 1 /\ y = b + (y % n)
        BY <2>1, LineOf DEF b, n
      <4>2. y + n >= B
        BY <3>2, <4>1
      <4>3. y < h - n <=> ~(y >= h - n)
        BY <1>2, <1>3, <4>1
      <4> QED BY <1>9, <3>4, <4>1, <4>2, <4>3
    <3> QED BY <2>4, <3>3, <3>4
  <2>5. CASE r # Rows(geo) - 1
    <3>1. r + 1 \in Nat /\ r + 1 < Rows(geo)
      BY <1>2, <2>5
    <3>2. \A k \in 0 .. n - 1 : e + k \in Lines(geo)
      BY <3>1, LineOf
    <3> HIDE DEF b, e
    <3>3. ASSUME NEW k \in 0 .. n - 1 PROVE ~(b + k >= h - n) /\ (b + k) + n = e + k
      <4>1. b \in Nat /\ e = b + n /\ n \in Nat /\ h \in Nat /\ e + k \in 0 .. h - 1
            /\ k \in Nat
        BY <1>2, <1>3, <2>2, <3>2
      <4> HIDE DEF n, h
      <4> QED BY <4>1
    <3>4. \A k \in 0 .. n - 1 : q[b + k][c] = p[e + k][c]
      BY <1>8, <2>3, <3>3
    <3>5. \A k \in 0 .. geo.cell - 1 :
             q[r * geo.cell + k][c] = p[(r + 1) * geo.cell + k][c]
      BY <3>4 DEF b, e
    <3>6. Cell(q, r, c) = Cell(p, r + 1, c)
      <4> DEFINE s == r + 1
      <4>1. s \in Nat /\ \A k \in 0 .. geo.cell - 1 :
               q[r * geo.cell + k][c] = p[s * geo.cell + k][c]
        BY <3>1, <3>5
      <4> HIDE DEF s
      <4>2. Cell(q, r, c) = Cell(p, s, c)
        BY <2>1, <4>1, SameCell
      <4> QED BY <4>2 DEF s
    <3> QED BY <2>5, <3>6
  <2> QED BY <2>4, <2>5
<1> QED BY <1>1, <1>10, <1>11, <1>12

-----------------------------------------------------------------------------
(* Cells counted row by row.                                               *)

Size == Rows(geo) * geo.columns
At(p, i) == Cell(p, i \div geo.columns, i % geo.columns)

\* Nothing shows at position i of a picture that has moved up z times, or, after
\* the first time, only what the firmware left below the last row.
Bare(p, z, i) ==
    \/ At(p, i) = Space
    \/ z = 1 /\ i \div geo.columns = Rows(geo) - 1 /\ Leftover(p, i % geo.columns)

\* Positions on the screen are pairs of a row and a column.
LEMMA Positions ==
  ASSUME geo \in Geometries
  PROVE  /\ geo.columns \in Nat \ {0} /\ Rows(geo) \in Nat \ {0} /\ Size \in Nat
         /\ Size >= geo.columns
         /\ \A i \in 0 .. Size - 1 : /\ i \div geo.columns \in 0 .. Rows(geo) - 1
                                     /\ i % geo.columns \in Columns(geo)
                                     /\ i = (i \div geo.columns) * geo.columns + (i % geo.columns)
         /\ \A r \in 0 .. Rows(geo) - 1, c \in Columns(geo) :
               /\ r * geo.columns + c \in 0 .. Size - 1
               /\ (r * geo.columns + c) \div geo.columns = r
               /\ (r * geo.columns + c) % geo.columns = c
         /\ \A r \in 0 .. Rows(geo) - 1 : /\ r * geo.columns \in Nat
                                          /\ (r + 1) * geo.columns = r * geo.columns + geo.columns
                                          /\ (r + 1) * geo.columns <= Size
         /\ (Rows(geo) - 1) * geo.columns = Size - geo.columns
<1> DEFINE n == geo.columns
           R == Rows(geo)
<1>1. n \in Nat \ {0} /\ R \in Nat \ {0} /\ Columns(geo) = 0 .. n - 1
  BY RowLines DEF Columns
<1> HIDE DEF n, R
<1>2. \A x, y \in Nat : x * n \in Nat /\ (x + 1) * n = x * n + n /\ (x <= y => x * n <= y * n)
  BY <1>1, Products
<1>3. /\ \A x \in Nat : /\ x \div n \in Nat /\ x % n \in 0 .. n - 1
                        /\ x = (x \div n) * n + (x % n)
      /\ \A q \in Nat, r \in 0 .. n - 1 :
               (q * n + r) \div n = q /\ (q * n + r) % n = r
  BY <1>1, DivMod
<1> DEFINE S == R * n
<1>4. S \in Nat
  BY <1>1, <1>2
<1>5. ASSUME NEW r \in 0 .. R - 1
      PROVE  r \in Nat /\ r * n \in Nat /\ (r + 1) * n = r * n + n /\ (r + 1) * n <= S
  <2>1. r \in Nat /\ r + 1 \in Nat /\ r + 1 <= R
    BY <1>1
  <2>2. r * n \in Nat /\ (r + 1) * n = r * n + n
    BY <1>2, <2>1
  <2>3. (r + 1) * n <= S
    BY <1>1, <1>2, <2>1
  <2> QED BY <2>1, <2>2, <2>3
<1>6. ASSUME NEW r \in 0 .. R - 1, NEW c \in 0 .. n - 1 PROVE r * n + c \in 0 .. S - 1
  <2>1. r * n \in Nat /\ (r + 1) * n = r * n + n /\ (r + 1) * n <= S
    BY <1>5
  <2> DEFINE b == r * n
             e == (r + 1) * n
  <2> HIDE DEF b, e, S
  <2>2. b \in Nat /\ e = b + n /\ e <= S
    BY <2>1 DEF b, e
  <2>3. b + c \in 0 .. S - 1
    BY <1>1, <1>4, <2>2
  <2> QED BY <2>3 DEF b
<1>7. (R - 1) * n = S - n /\ S >= n
  <2> DEFINE r == R - 1
  <2>1. r \in 0 .. R - 1 /\ R = r + 1
    BY <1>1
  <2>2. S = (r + 1) * n
    BY <2>1
  <2> HIDE DEF r
  <2>3. r * n \in Nat /\ S = r * n + n
    BY <1>5, <2>1, <2>2
  <2> DEFINE b == r * n
  <2> HIDE DEF b, S
  <2>4. b = S - n /\ S >= n
    BY <1>1, <2>3 DEF b
  <2> QED BY <2>4 DEF b, r
<1>8. ASSUME NEW i \in 0 .. S - 1 PROVE i \div n \in 0 .. R - 1
  <2>1. i \in Nat /\ i < S
    BY <1>4
  <2> DEFINE d == i \div n
  <2>2. d \in Nat /\ i % n \in Nat /\ i = d * n + (i % n)
    <3>1. i \div n \in Nat /\ i % n \in 0 .. n - 1 /\ i = (i \div n) * n + (i % n)
      BY <1>3, <2>1
    <3>2. \A m \in 0 .. n - 1 : m \in Nat
      BY <1>1
    <3> QED BY <3>1, <3>2
  <2> HIDE DEF d
  <2>3. SUFFICES ASSUME d >= R PROVE FALSE
    BY <1>1, <2>2 DEF d
  <2>4. d * n \in Nat /\ S <= d * n
    BY <1>1, <1>2, <2>2, <2>3
  <2> DEFINE b == d * n
             m == i % n
  <2> HIDE DEF b, m, S
  <2>5. b \in Nat /\ m \in Nat /\ i = b + m /\ S <= b
    BY <2>2, <2>4 DEF b, m
  <2> QED BY <1>4, <2>1, <2>5
<1>9. \A i \in 0 .. S - 1 : i \in Nat
  BY <1>4
<1> QED BY <1>1, <1>3, <1>4, <1>5, <1>6, <1>7, <1>8, <1>9 DEF Size, n, R

\* Writing a character changes its position and no other.
LEMMA PutAtPosition ==
  ASSUME geo \in Geometries, Visible(geo), NEW p, NEW z, Picture(p), Below(p, z),
         NEW r \in 0 .. Rows(geo) - 1, NEW c \in Columns(geo), NEW ch \in Chars \cup {Space}
  PROVE  \A i \in 0 .. Size - 1 :
            /\ At(PutAt(p, r, c, ch), i) = IF i = r * geo.columns + c THEN ch ELSE At(p, i)
            /\ i # r * geo.columns + c /\ Bare(p, z, i) => Bare(PutAt(p, r, c, ch), z, i)
<1> SUFFICES ASSUME NEW i \in 0 .. Size - 1
             PROVE  /\ At(PutAt(p, r, c, ch), i) =
                            IF i = r * geo.columns + c THEN ch ELSE At(p, i)
                    /\ i # r * geo.columns + c /\ Bare(p, z, i)
                            => Bare(PutAt(p, r, c, ch), z, i)
  OBVIOUS
<1> DEFINE s == i \div geo.columns
           d == i % geo.columns
           q == PutAt(p, r, c, ch)
<1>1. s \in 0 .. Rows(geo) - 1 /\ d \in Columns(geo) /\ i = s * geo.columns + d
  BY Positions
<1>2. i = r * geo.columns + c <=> (s = r /\ d = c)
  <2>1. (r * geo.columns + c) \div geo.columns = r /\ (r * geo.columns + c) % geo.columns = c
    BY Positions
  <2> QED BY <1>1, <2>1
<1> HIDE DEF q
<1>3. At(q, i) = Cell(q, s, d) /\ At(p, i) = Cell(p, s, d)
  BY DEF At
<1> HIDE DEF s, d
<1>4. Cell(q, s, d) = IF s = r /\ d = c THEN ch ELSE Cell(p, s, d)
  BY <1>1, PutShows DEF q
<1>5. ~(s = r /\ d = c) => \A y \in CellLines(s) : q[y][d] = p[y][d]
  BY <1>1, PutShows DEF q
<1>6. ASSUME i # r * geo.columns + c, Bare(p, z, i) PROVE Bare(q, z, i)
  <2>1. CASE At(p, i) = Space
    BY <1>2, <1>3, <1>4, <1>6, <2>1 DEF Bare
  <2>2. CASE z = 1 /\ s = Rows(geo) - 1 /\ Leftover(p, d)
    <3>1. Leftover(q, d)
      BY <1>2, <1>5, <1>6, <2>2 DEF Leftover
    <3> QED BY <2>2, <3>1 DEF Bare, s, d
  <2> QED BY <1>6, <2>1, <2>2 DEF Bare, s, d
<1> QED BY <1>2, <1>3, <1>4, <1>6 DEF q

\* Scrolling moves every position back by the length of a row, and those of the
\* last row are bare.
LEMMA ScrollAtPosition ==
  ASSUME geo \in Geometries, NEW p, NEW z, NEW w, w = IF z = 0 THEN 1 ELSE 2,
         Picture(p), Below(p, z)
  PROVE  \A i \in 0 .. Size - 1 :
            IF i >= Size - geo.columns THEN Bare(Scrolled(p), w, i)
            ELSE At(Scrolled(p), i) = At(p, i + geo.columns)
<1> DEFINE q == Scrolled(p)
           n == geo.columns
<1> SUFFICES ASSUME NEW i \in 0 .. Size - 1
             PROVE  IF i >= Size - n THEN Bare(q, w, i) ELSE At(q, i) = At(p, i + n)
  OBVIOUS
<1> DEFINE s == i \div n
           d == i % n
           b == s * n
<1>0. n \in Nat \ {0} /\ Size \in Nat /\ Rows(geo) \in Nat \ {0} /\ Columns(geo) = 0 .. n - 1
      /\ (Rows(geo) - 1) * n = Size - n
  BY Positions DEF Columns
<1>1. s \in 0 .. Rows(geo) - 1 /\ d \in Columns(geo) /\ i = b + d
  BY Positions
<1>2. b \in Nat /\ (s + 1) * n = b + n
  <2> HIDE DEF s
  <2> QED BY <1>1, Positions
<1>3. At(q, i) = Cell(q, s, d)
  BY DEF At
<1>4. IF s = Rows(geo) - 1
      THEN IF z = 0 THEN Leftover(q, d) ELSE Cell(q, s, d) = Space
      ELSE Cell(q, s, d) = Cell(p, s + 1, d)
  <2>1. \A r \in 0 .. Rows(geo) - 1, c \in Columns(geo) :
           IF r = Rows(geo) - 1
           THEN IF z = 0 THEN Leftover(q, c) ELSE Cell(q, r, c) = Space
           ELSE Cell(q, r, c) = Cell(p, r + 1, c)
    BY ScrollShows
  <2> HIDE DEF s, d, b, n, q
  <2> QED BY <1>1, <2>1
<1>5. CASE s = Rows(geo) - 1
  <2>1. b = Size - n
    BY <1>0, <1>5
  <2>2. Bare(q, w, i)
    <3> HIDE DEF q
    <3>1. IF z = 0 THEN Leftover(q, d) ELSE At(q, i) = Space
      <4> HIDE DEF s, d
      <4> QED BY <1>3, <1>4, <1>5
    <3>2. CASE z = 0
      <4>1. w = 1 /\ Leftover(q, d) /\ s = Rows(geo) - 1
        BY <1>5, <3>1, <3>2
      <4> QED BY <4>1 DEF Bare
    <3>3. CASE z # 0
      BY <3>1, <3>3 DEF Bare
    <3> QED BY <3>2, <3>3
  <2> HIDE DEF b, n, s, d, q
  <2>3. i >= Size - n
    BY <1>0, <1>1, <1>2, <2>1
  <2> QED BY <2>2, <2>3
<1>6. CASE s # Rows(geo) - 1
  <2>1. s + 1 \in 0 .. Rows(geo) - 1
    <3> HIDE DEF s
    <3>1. s \in 0 .. Rows(geo) - 1
      BY <1>1
    <3>2. Rows(geo) \in Nat \ {0}
      BY <1>0
    <3> QED BY <1>6, <3>1, <3>2
  <2> DEFINE t == s + 1
             e == t * n
  <2>2. e = b + n
    BY <1>2
  <2> HIDE DEF t
  <2>3. e + d \in 0 .. Size - 1 /\ (e + d) \div n = t /\ (e + d) % n = d
    <3> HIDE DEF s, d
    <3> QED BY <1>1, <2>1, Positions DEF t
  <2>4. t * n + n <= Size
    <3> HIDE DEF s
    <3> QED BY <2>1, Positions DEF t
  <2> HIDE DEF e, b
  <2>5. i + n = e + d
    <3> HIDE DEF s, d, n
    <3> QED BY <1>0, <1>1, <1>2, <2>2
  <2>6. ~(i >= Size - n)
    <3>1. e + n <= Size
      BY <2>4 DEF e
    <3> HIDE DEF s, d, n
    <3> QED BY <1>0, <1>1, <1>2, <2>2, <3>1
  <2>7. At(p, i + n) = Cell(p, t, d)
    BY <2>3, <2>5 DEF At
  <2> HIDE DEF s, d, q, n
  <2> QED BY <1>3, <1>4, <1>6, <2>6, <2>7 DEF t
<1> QED BY <1>5, <1>6

-----------------------------------------------------------------------------
(* The invariant.                                                          *)

Drawn(p, z) == Visible(geo) => Picture(p) /\ Below(p, z)

Typed ==
    /\ geo \in Geometries
    /\ row \in 0 .. Rows(geo) - 1
    /\ col \in Columns(geo)
    /\ line \in Seq(Chars \cup {Space})
    /\ editing \in BOOLEAN
    /\ ahead \in BOOLEAN
    /\ Drawn(pix, scrolled)

\* LineShown and BlankAhead, of the table of characters.
LineAt ==
    editing /\ Visible(geo) =>
        /\ \A i \in 1 .. Len(line) :
               Position - Len(line) + i - 1 >= 0
                   => At(pix, Position - Len(line) + i - 1) = line[i]
        /\ Position - Len(line) - 1 >= 0 /\ left # Nothing
               => At(pix, Position - Len(line) - 1) = left
AheadAt ==
    Visible(geo) =>
        \A i \in 0 .. Size - 1 :
            i >= Position /\ (ahead => i >= row * geo.columns + geo.columns)
                => Bare(pix, scrolled, i)

\* A line begun in a row with text after the cursor has not left it: erasing
\* does not step back over the start of such a row.
RowKept == editing /\ ahead => Len(line) <= col

ConsoleInv == Typed /\ LineAt /\ AheadAt /\ RowKept

\* The cursor is on the screen.
LEMMA CursorOn ==
  ASSUME geo \in Geometries, row \in 0 .. Rows(geo) - 1, col \in Columns(geo)
  PROVE  /\ Position \in 0 .. Size - 1
         /\ Position \div geo.columns = row /\ Position % geo.columns = col
         /\ row * geo.columns \in Nat /\ Position = row * geo.columns + col
         /\ row * geo.columns + geo.columns <= Size
<1>1. /\ row * geo.columns + col \in 0 .. Size - 1
      /\ (row * geo.columns + col) \div geo.columns = row
      /\ (row * geo.columns + col) % geo.columns = col
  BY Positions
<1>2. row * geo.columns \in Nat /\ row * geo.columns + geo.columns <= Size
  BY Positions
<1> QED BY <1>1, <1>2 DEF Position

\* The screen's operators speak of the geometry alone.
LEMMA SameScreen ==
  ASSUME geo' = geo
  PROVE  /\ \A p, i : At(p, i)' = At(p, i)
         /\ \A p, z, i : Bare(p, z, i)' = Bare(p, z, i)
         /\ \A p, z : Drawn(p, z)' = Drawn(p, z)
         /\ Size' = Size
BY DEF At, Bare, Leftover, CellLines, Cell, Pixels, Drawn, Visible, Picture, Below, Size,
       Rows, Lines, Columns

\* The next row, with a scrolled picture after the last one: d is how far the
\* positions have moved back.
LEMMA NextRowMoves ==
  ASSUME Typed, NEW p, Drawn(p, scrolled), NextRow(p)
  PROVE  /\ row' \in 0 .. Rows(geo) - 1
         /\ Drawn(pix', scrolled')
         /\ \E d \in {0, geo.columns} :
               /\ row' * geo.columns = row * geo.columns + geo.columns - d
               /\ d # 0 => row * geo.columns + geo.columns = Size
               /\ Visible(geo) => \A i \in 0 .. Size - 1 :
                     /\ i < Size - d => At(pix', i) = At(p, i + d)
                     /\ i >= Size - d => Bare(pix', scrolled', i)
                     /\ d = 0 /\ Bare(p, scrolled, i) => Bare(pix', scrolled', i)
<1> DEFINE n == geo.columns
<1>1. geo \in Geometries /\ row \in 0 .. Rows(geo) - 1
  BY DEF Typed
<1>2. Rows(geo) \in Nat \ {0} /\ n \in Nat \ {0} /\ Size \in Nat
      /\ row * n \in Nat /\ (row + 1) * n = row * n + n /\ (Rows(geo) - 1) * n = Size - n
  BY <1>1, Positions
<1>3. CASE row + 1 < Rows(geo)
  <2>1. pix' = p /\ row' = row + 1 /\ scrolled' = scrolled
    BY <1>3 DEF NextRow
  <2>2. row + 1 \in 0 .. Rows(geo) - 1
    <3>1. Rows(geo) \in Nat
      BY <1>2
    <3> QED BY <1>1, <1>3, <3>1
  <2>3. row' * n = row * n + n - 0
    <3> DEFINE b == row * n
    <3>1. b \in Nat /\ row' * n = b + n /\ n \in Nat
      BY <1>2, <2>1
    <3> HIDE DEF b
    <3>2. b + n = b + n - 0
      BY <3>1
    <3> QED BY <3>1, <3>2 DEF b
  <2>4. ASSUME NEW i \in 0 .. Size - 1
        PROVE  /\ i < Size - 0 => At(pix', i) = At(p, i + 0)
               /\ i >= Size - 0 => Bare(pix', scrolled', i)
               /\ 0 = 0 /\ Bare(p, scrolled, i) => Bare(pix', scrolled', i)
    <3>1. Size \in Nat
      BY <1>2
    <3>2. ~(i >= Size - 0) /\ i + 0 = i
      BY <3>1
    <3> QED BY <2>1, <3>2
  <2>5. \E d \in {0, n} : row' * n = row * n + n - d
           /\ (d # 0 => row * n + n = Size)
           /\ \A i \in 0 .. Size - 1 :
                     /\ i < Size - d => At(pix', i) = At(p, i + d)
                     /\ i >= Size - d => Bare(pix', scrolled', i)
                     /\ d = 0 /\ Bare(p, scrolled, i) => Bare(pix', scrolled', i)
    <3>1. 0 \in {0, n}
      OBVIOUS
    <3> HIDE DEF n
    <3> QED BY <2>3, <2>4, <3>1
  <2> QED BY <2>1, <2>2, <2>5
<1>4. CASE ~(row + 1 < Rows(geo))
  <2>1. /\ row' = Rows(geo) - 1 /\ pix' = IF Visible(geo) THEN Scrolled(p) ELSE p
        /\ scrolled' = IF scrolled = 0 THEN 1 ELSE 2
    BY <1>4 DEF NextRow
  <2>2. row = Rows(geo) - 1 /\ Rows(geo) - 1 \in 0 .. Rows(geo) - 1
    <3>1. Rows(geo) \in Nat \ {0}
      BY <1>2
    <3> QED BY <1>1, <1>4, <3>1
  <2>3. row' * n = row * n + n - n /\ row * n + n = Size
    <3> DEFINE b == row * n
    <3>1. b \in Nat /\ row' * n = b /\ n \in Nat /\ b = Size - n /\ Size \in Nat
      BY <1>2, <2>1, <2>2
    <3> HIDE DEF b
    <3>2. b = b + n - n /\ b + n = Size
      BY <3>1
    <3> QED BY <3>1, <3>2 DEF b
  <2>4. Drawn(pix', scrolled')
    <3> SUFFICES ASSUME Visible(geo)
                 PROVE  Picture(Scrolled(p)) /\ Below(Scrolled(p), scrolled')
      BY <2>1 DEF Drawn
    <3>1. scrolled' # 0 /\ Picture(p) /\ Below(p, scrolled)
      BY <2>1 DEF Drawn
    <3> QED BY <1>1, <3>1, ScrollShows
  <2>5. ASSUME Visible(geo), NEW i \in 0 .. Size - 1
        PROVE  IF i >= Size - n THEN Bare(pix', scrolled', i)
               ELSE At(pix', i) = At(p, i + n)
    <3>1. Picture(p) /\ Below(p, scrolled) /\ pix' = Scrolled(p)
      BY <2>1, <2>5 DEF Drawn
    <3> QED BY <1>1, <2>1, <3>1, ScrollAtPosition
  <2>6. ASSUME NEW i \in 0 .. Size - 1 PROVE i < Size - n <=> ~(i >= Size - n)
    BY <1>2
  <2>7. n # 0
    BY <1>2
  <2> HIDE DEF n
  <2>8. \E d \in {0, n} : row' * n = row * n + n - d
           /\ (d # 0 => row * n + n = Size)
           /\ (Visible(geo) => \A i \in 0 .. Size - 1 :
                     /\ i < Size - d => At(pix', i) = At(p, i + d)
                     /\ i >= Size - d => Bare(pix', scrolled', i)
                     /\ d = 0 /\ Bare(p, scrolled, i) => Bare(pix', scrolled', i))
    <3>1. n \in {0, n}
      OBVIOUS
    <3> QED BY <2>3, <2>5, <2>6, <2>7, <3>1
  <2> QED BY <2>1, <2>2, <2>4, <2>8 DEF n
<1> QED BY <1>3, <1>4

\* A character is put at the cursor; the cursor moves on, and everything moves
\* back by a row when it leaves the screen.
LEMMA PutCharMoves ==
  ASSUME Typed, geo' = geo, NEW ch \in Chars \cup {Space}, PutChar(ch)
  PROVE  /\ row' \in 0 .. Rows(geo) - 1 /\ col' \in Columns(geo) /\ ahead' \in BOOLEAN
         /\ Drawn(pix', scrolled')
         /\ \E d \in {0, geo.columns} :
               /\ Position' = Position + 1 - d
               /\ d # 0 => Position + 1 = Size
               /\ Visible(geo) => \A i \in 0 .. Size - 1 :
                     /\ i < Size - d => At(pix', i) = IF i + d = Position THEN ch
                                                      ELSE At(pix, i + d)
                     /\ i >= Size - d => Bare(pix', scrolled', i)
                     /\ d = 0 /\ i # Position /\ Bare(pix, scrolled, i)
                            => Bare(pix', scrolled', i)
               /\ \/ /\ ahead' = ahead /\ d = 0 /\ row' = row /\ col' = col + 1
                  \/ ahead' = FALSE /\ Position + 1 = row * geo.columns + geo.columns
<1> DEFINE n == geo.columns
           b == row * n
           p == PutAt(pix, row, col, ch)
<1>1. geo \in Geometries /\ row \in 0 .. Rows(geo) - 1 /\ col \in Columns(geo)
      /\ Drawn(pix, scrolled) /\ ahead \in BOOLEAN
  BY DEF Typed
<1>2. n \in Nat \ {0} /\ Size \in Nat /\ b \in Nat /\ Position = b + col
      /\ Position \in 0 .. Size - 1
  BY <1>1, Positions, CursorOn
<1>3. col \in 0 .. n - 1 /\ Columns(geo) = 0 .. n - 1
  BY <1>1 DEF Columns
<1>4. Drawn(p, scrolled)
  BY <1>1, PutShows DEF Drawn
<1>5. ASSUME Visible(geo)
      PROVE  \A i \in 0 .. Size - 1 :
                /\ At(p, i) = IF i = Position THEN ch ELSE At(pix, i)
                /\ i # Position /\ Bare(pix, scrolled, i) => Bare(p, scrolled, i)
  BY <1>1, <1>5, PutAtPosition DEF Drawn, Position
<1> HIDE DEF p
<1>6. CASE col + 1 >= n
  <2>1. NextRow(p) /\ col' = 0 /\ ahead' = FALSE
    BY <1>6 DEF PutChar, p
  <2>2. /\ row' \in 0 .. Rows(geo) - 1
        /\ Drawn(pix', scrolled')
        /\ \E d \in {0, n} :
               /\ row' * n = b + n - d
               /\ d # 0 => b + n = Size
               /\ Visible(geo) => \A i \in 0 .. Size - 1 :
                     /\ i < Size - d => At(pix', i) = At(p, i + d)
                     /\ i >= Size - d => Bare(pix', scrolled', i)
                     /\ d = 0 /\ Bare(p, scrolled, i) => Bare(pix', scrolled', i)
    BY <1>4, <2>1, NextRowMoves
  <2>3. PICK d \in {0, n} :
               /\ row' * n = b + n - d
               /\ d # 0 => b + n = Size
               /\ Visible(geo) => \A i \in 0 .. Size - 1 :
                     /\ i < Size - d => At(pix', i) = At(p, i + d)
                     /\ i >= Size - d => Bare(pix', scrolled', i)
                     /\ d = 0 /\ Bare(p, scrolled, i) => Bare(pix', scrolled', i)
    BY <2>2
  <2>4. Position' = row' * n + 0
    BY <2>1 DEF Position
  <2> DEFINE e == row' * n
  <2> HIDE DEF b, n, e
  <2>5. d \in Nat /\ n \in Nat /\ b \in Nat /\ e = b + n - d /\ Position' = e + 0
        /\ Position = b + col /\ col = n - 1 /\ Size \in Nat
    BY <1>2, <1>3, <1>6, <2>3, <2>4 DEF e
  <2>6. Position' = Position + 1 - d /\ Position + 1 = b + n
    BY <2>5
  <2>7. ASSUME Visible(geo), NEW i \in 0 .. Size - 1
        PROVE  /\ i < Size - d => At(pix', i) = IF i + d = Position THEN ch
                                                ELSE At(pix, i + d)
               /\ i >= Size - d => Bare(pix', scrolled', i)
               /\ d = 0 /\ i # Position /\ Bare(pix, scrolled, i)
                      => Bare(pix', scrolled', i)
    <3>1. /\ i < Size - d => At(pix', i) = At(p, i + d)
          /\ i >= Size - d => Bare(pix', scrolled', i)
          /\ d = 0 /\ Bare(p, scrolled, i) => Bare(pix', scrolled', i)
      BY <2>3, <2>7
    <3>2. i < Size - d => i + d \in 0 .. Size - 1
      BY <2>5
    <3> QED BY <1>5, <2>7, <3>1, <3>2
  <2>8. 0 \in Columns(geo)
    BY <1>2, <1>3
  <2>9. /\ d \in {0, n}
        /\ Position' = Position + 1 - d
        /\ d # 0 => Position + 1 = Size
        /\ Visible(geo) => \A i \in 0 .. Size - 1 :
                     /\ i < Size - d => At(pix', i) = IF i + d = Position THEN ch
                                                      ELSE At(pix, i + d)
                     /\ i >= Size - d => Bare(pix', scrolled', i)
                     /\ d = 0 /\ i # Position /\ Bare(pix, scrolled, i)
                            => Bare(pix', scrolled', i)
        /\ ahead' = FALSE /\ Position + 1 = b + n
    BY <2>1, <2>3, <2>6, <2>7
  <2> QED BY <2>1, <2>2, <2>8, <2>9 DEF n, b
<1>7. CASE ~(col + 1 >= n)
  <2>1. pix' = p /\ col' = col + 1 /\ row' = row /\ ahead' = ahead
        /\ scrolled' = scrolled
    BY <1>7 DEF PutChar, p
  <2>2. Position' = b + (col + 1)
    BY <2>1 DEF Position
  <2> HIDE DEF b, n
  <2>3. Position' = Position + 1 - 0 /\ col + 1 \in Columns(geo)
    BY <1>2, <1>3, <1>7, <2>2
  <2>4. ASSUME Visible(geo), NEW i \in 0 .. Size - 1
        PROVE  /\ i < Size - 0 => At(pix', i) = IF i + 0 = Position THEN ch
                                                ELSE At(pix, i + 0)
               /\ i >= Size - 0 => Bare(pix', scrolled', i)
               /\ 0 = 0 /\ i # Position /\ Bare(pix, scrolled, i)
                      => Bare(pix', scrolled', i)
    <3>1. ~(i >= Size - 0) /\ i + 0 = i
      BY <1>2
    <3> QED BY <1>5, <2>1, <2>4, <3>1
  <2>5. \E d \in {0, n} :
               /\ Position' = Position + 1 - d
               /\ d # 0 => Position + 1 = Size
               /\ Visible(geo) => \A i \in 0 .. Size - 1 :
                     /\ i < Size - d => At(pix', i) = IF i + d = Position THEN ch
                                                      ELSE At(pix, i + d)
                     /\ i >= Size - d => Bare(pix', scrolled', i)
                     /\ d = 0 /\ i # Position /\ Bare(pix, scrolled, i)
                            => Bare(pix', scrolled', i)
               /\ ahead' = ahead /\ d = 0 /\ row' = row /\ col' = col + 1
    <3>1. 0 \in {0, n}
      OBVIOUS
    <3> QED BY <2>1, <2>3, <2>4, <3>1
  <2> QED BY <1>1, <1>4, <2>1, <2>3, <2>5 DEF n
<1> QED BY <1>6, <1>7

\* Erasing clears the position before the cursor, the last one of the row above
\* at the start of a row; at the start of the screen nothing happens.
LEMMA BackspaceMoves ==
  ASSUME Typed, geo' = geo, scrolled' = scrolled, console_backspace
  PROVE  /\ row' \in 0 .. Rows(geo) - 1 /\ col' \in Columns(geo) /\ Drawn(pix', scrolled')
         /\ \/ Position = 0 /\ row' = row /\ col' = col /\ pix' = pix
            \/ /\ Position > 0 /\ Position' = Position - 1
               /\ col > 0 => row' = row /\ col' = col - 1
               /\ Visible(geo) => \A i \in 0 .. Size - 1 :
                     /\ At(pix', i) = IF i = Position - 1 THEN Space ELSE At(pix, i)
                     /\ i # Position - 1 /\ Bare(pix, scrolled, i)
                            => Bare(pix', scrolled, i)
<1> DEFINE n == geo.columns
           b == row * n
<1>1. geo \in Geometries /\ row \in 0 .. Rows(geo) - 1 /\ col \in Columns(geo)
      /\ Drawn(pix, scrolled)
  BY DEF Typed
<1>2. n \in Nat \ {0} /\ Size \in Nat /\ b \in Nat /\ Position = b + col
      /\ Rows(geo) \in Nat
  BY <1>1, Positions, CursorOn
<1>3. col \in 0 .. n - 1 /\ Columns(geo) = 0 .. n - 1
  BY <1>1 DEF Columns
<1>4. CASE col = 0 /\ row = 0
  <2>1. row' = row /\ col' = col /\ pix' = pix
    BY <1>4 DEF console_backspace
  <2>2. Position = 0
    <3>1. Position = 0 * n + 0
      BY <1>4 DEF Position
    <3> QED BY <1>2, <3>1
  <2> QED BY <1>1, <2>1, <2>2
<1>5. CASE ~(col = 0 /\ row = 0)
  <2>1. pix' = PutAt(pix, row', col', Space)
    BY <1>5 DEF console_backspace
  <2>2. /\ row' \in 0 .. Rows(geo) - 1 /\ col' \in Columns(geo)
        /\ row' * n + col' = Position - 1 /\ Position > 0
        /\ col > 0 => row' = row /\ col' = col - 1
    <3>1. CASE col = 0
      <4>1. row' = row - 1 /\ col' = n - 1 /\ row # 0
        BY <1>5, <3>1 DEF console_backspace
      <4>2. row - 1 \in 0 .. Rows(geo) - 1 /\ n - 1 \in Columns(geo)
            /\ (row - 1) + 1 = row
        <5>1. Rows(geo) \in Nat /\ n \in Nat \ {0}
          BY <1>2
        <5> QED BY <1>1, <1>3, <4>1, <5>1
      <4> DEFINE r == row - 1
                 e == r * n
      <4>3. r \in 0 .. Rows(geo) - 1 /\ b = (r + 1) * n
        BY <4>2
      <4> HIDE DEF r
      <4>4. e \in Nat /\ b = e + n
        BY <1>1, <4>3, Positions
      <4>5. row' * n = e
        BY <4>1 DEF r
      <4> HIDE DEF b, e, n
      <4>6. e + (n - 1) = Position - 1 /\ Position > 0
        BY <1>2, <1>3, <3>1, <4>4
      <4> QED BY <3>1, <4>1, <4>2, <4>5, <4>6
    <3>2. CASE col # 0
      <4>1. row' = row /\ col' = col - 1
        BY <3>2 DEF console_backspace
      <4>2. row' * n = b
        BY <4>1
      <4> HIDE DEF b, n
      <4>3. b + (col - 1) = Position - 1 /\ Position > 0 /\ col - 1 \in Columns(geo)
        BY <1>2, <1>3, <3>2
      <4> QED BY <1>1, <4>1, <4>2, <4>3
    <3> QED BY <3>1, <3>2
  <2>3. Position' = Position - 1
    BY <2>2 DEF Position
  <2>4. Drawn(pix', scrolled')
    <3>1. CASE Visible(geo)
      <4>1. /\ Picture(PutAt(pix, row', col', Space))
            /\ Below(PutAt(pix, row', col', Space), scrolled)
        BY <1>1, <2>2, <3>1, PutShows DEF Drawn
      <4> QED BY <2>1, <4>1 DEF Drawn
    <3>2. CASE ~Visible(geo)
      BY <3>2 DEF Drawn
    <3> QED BY <3>1, <3>2
  <2>5. ASSUME Visible(geo)
        PROVE  \A i \in 0 .. Size - 1 :
                  /\ At(pix', i) = IF i = Position - 1 THEN Space ELSE At(pix, i)
                  /\ i # Position - 1 /\ Bare(pix, scrolled, i) => Bare(pix', scrolled, i)
    <3>1. \A i \in 0 .. Size - 1 :
             /\ At(PutAt(pix, row', col', Space), i) =
                    IF i = row' * n + col' THEN Space ELSE At(pix, i)
             /\ i # row' * n + col' /\ Bare(pix, scrolled, i)
                    => Bare(PutAt(pix, row', col', Space), scrolled, i)
      BY <1>1, <2>2, <2>5, PutAtPosition DEF Drawn
    <3> QED BY <2>1, <2>2, <3>1
  <2> QED BY <2>2, <2>3, <2>4, <2>5
<1> QED BY <1>4, <1>5

-----------------------------------------------------------------------------
(* Every step keeps the invariant.                                         *)

\* After a character nothing shows from the cursor on.
LEMMA AheadAfterPut ==
  ASSUME Typed, AheadAt, geo' = geo, NEW ch \in Chars \cup {Space}, PutChar(ch)
  PROVE  AheadAt'
<1> DEFINE n == geo.columns
           b == row * n
<1>1. PICK d \in {0, n} :
               /\ Position' = Position + 1 - d
               /\ d # 0 => Position + 1 = Size
               /\ Visible(geo) => \A i \in 0 .. Size - 1 :
                     /\ i < Size - d => At(pix', i) = IF i + d = Position THEN ch
                                                      ELSE At(pix, i + d)
                     /\ i >= Size - d => Bare(pix', scrolled', i)
                     /\ d = 0 /\ i # Position /\ Bare(pix, scrolled, i)
                            => Bare(pix', scrolled', i)
               /\ \/ /\ ahead' = ahead /\ d = 0 /\ row' = row /\ col' = col + 1
                  \/ ahead' = FALSE /\ Position + 1 = b + n
  BY PutCharMoves
<1>2. geo \in Geometries /\ ahead \in BOOLEAN
  BY DEF Typed
<1>3. n \in Nat \ {0} /\ Size \in Nat /\ b \in Nat /\ Position \in 0 .. Size - 1
  BY Positions, CursorOn DEF Typed
<1>4. Size' = Size /\ Visible(geo)' = Visible(geo) /\ (row * n)' = row' * n
      /\ geo.columns' = n
  BY SameScreen DEF Visible
<1> SUFFICES ASSUME Visible(geo), NEW i \in 0 .. Size - 1, i >= Position',
                    ahead' => i >= row' * n + n
             PROVE  Bare(pix, scrolled, i)'
  BY <1>4 DEF AheadAt
<1>5. Bare(pix, scrolled, i)' = Bare(pix', scrolled', i)
  BY SameScreen
<1>6. \A j \in 0 .. Size - 1 : j >= Position /\ (ahead => j >= b + n)
                                   => Bare(pix, scrolled, j)
  BY DEF AheadAt
<1>7. /\ i >= Size - d => Bare(pix', scrolled', i)
      /\ d = 0 /\ i # Position /\ Bare(pix, scrolled, i) => Bare(pix', scrolled', i)
  BY <1>1
<1>8. ahead' = ahead => (ahead => i >= row' * n + n)
  OBVIOUS
<1>9. row' = row => row' * n = b
  OBVIOUS
<1> DEFINE e == row' * n
<1> HIDE DEF n, b, e
<1>10. i >= Size - d \/ (d = 0 /\ i # Position /\ i >= Position /\ (ahead => i >= b + n))
  <2>1. d \in Nat /\ n \in Nat /\ b \in Nat /\ Size \in Nat /\ Position \in Nat
        /\ i >= Position + 1 - d /\ i \in Nat
    BY <1>1, <1>3
  <2>2. CASE d # 0
    BY <1>1, <2>1, <2>2
  <2>3. CASE d = 0 /\ ahead' = ahead /\ row' = row
    <3>1. ahead => i >= b + n
      BY <1>8, <1>9, <2>3 DEF e
    <3> QED BY <2>1, <2>3, <3>1
  <2>4. CASE d = 0 /\ Position + 1 = b + n
    BY <2>1, <2>4
  <2> QED BY <1>1, <2>2, <2>3, <2>4
<1> QED BY <1>5, <1>6, <1>7, <1>10

\* Output between two lines of input.
LEMMA WriteCharKeeps ==
  ASSUME ConsoleInv, WriteChar
  PROVE  ConsoleInv'
<1>1. PICK ch \in Chars \cup {Space} : PutChar(ch)
  BY DEF WriteChar
<1>2. ~editing /\ geo' = geo /\ editing' = editing /\ line' = line /\ left' = left
  BY DEF WriteChar
<1>3. Typed /\ AheadAt /\ geo \in Geometries /\ editing \in BOOLEAN
      /\ line \in Seq(Chars \cup {Space})
  BY DEF ConsoleInv, Typed
<1>4. /\ row' \in 0 .. Rows(geo) - 1 /\ col' \in Columns(geo) /\ ahead' \in BOOLEAN
      /\ Drawn(pix', scrolled')
      /\ \E d \in {0, geo.columns} :
               /\ Position' = Position + 1 - d
               /\ d # 0 => Position + 1 = Size
               /\ Visible(geo) => \A i \in 0 .. Size - 1 :
                     /\ i < Size - d => At(pix', i) = IF i + d = Position THEN ch
                                                      ELSE At(pix, i + d)
                     /\ i >= Size - d => Bare(pix', scrolled', i)
                     /\ d = 0 /\ i # Position /\ Bare(pix, scrolled, i)
                            => Bare(pix', scrolled', i)
               /\ \/ /\ ahead' = ahead /\ d = 0 /\ row' = row /\ col' = col + 1
                  \/ ahead' = FALSE /\ Position + 1 = row * geo.columns + geo.columns
  BY <1>1, <1>2, <1>3, PutCharMoves
<1>5. Typed'
  <2>1. Drawn(pix, scrolled)'
    BY <1>2, <1>4, SameScreen
  <2> QED BY <1>2, <1>3, <1>4, <2>1 DEF Typed
<1>6. AheadAt'
  BY <1>1, <1>2, <1>3, AheadAfterPut
<1> QED BY <1>2, <1>5, <1>6 DEF ConsoleInv, LineAt, RowKept

\* A character typed is shown at the end of the line.
LEMMA KeyCharKeeps ==
  ASSUME ConsoleInv, KeyChar
  PROVE  ConsoleInv'
<1>1. PICK ch \in Chars \cup {Space} : PutChar(ch) /\ line' = Append(line, ch)
  BY DEF KeyChar
<1>2. editing /\ geo' = geo /\ editing' = editing /\ left' = left
  BY DEF KeyChar
<1>3. Typed /\ AheadAt /\ LineAt /\ RowKept /\ geo \in Geometries /\ editing \in BOOLEAN
      /\ line \in Seq(Chars \cup {Space}) /\ ahead \in BOOLEAN
  BY DEF ConsoleInv, Typed
<1> DEFINE n == geo.columns
           L == Len(line)
<1>4. /\ row' \in 0 .. Rows(geo) - 1 /\ col' \in Columns(geo) /\ ahead' \in BOOLEAN
      /\ Drawn(pix', scrolled')
      /\ \E d \in {0, n} :
               /\ Position' = Position + 1 - d
               /\ d # 0 => Position + 1 = Size
               /\ Visible(geo) => \A i \in 0 .. Size - 1 :
                     /\ i < Size - d => At(pix', i) = IF i + d = Position THEN ch
                                                      ELSE At(pix, i + d)
                     /\ i >= Size - d => Bare(pix', scrolled', i)
                     /\ d = 0 /\ i # Position /\ Bare(pix, scrolled, i)
                            => Bare(pix', scrolled', i)
               /\ \/ /\ ahead' = ahead /\ d = 0 /\ row' = row /\ col' = col + 1
                  \/ ahead' = FALSE /\ Position + 1 = row * n + n
  BY <1>1, <1>2, <1>3, PutCharMoves
<1>5. line' \in Seq(Chars \cup {Space}) /\ Len(line') = L + 1 /\ line'[L + 1] = ch
      /\ L \in Nat /\ \A i \in 1 .. L : line'[i] = line[i]
  BY <1>1, <1>3
<1>6. Typed'
  <2>1. Drawn(pix, scrolled)'
    BY <1>2, <1>4, SameScreen
  <2> QED BY <1>2, <1>3, <1>4, <1>5, <2>1 DEF Typed
<1>7. AheadAt'
  BY <1>1, <1>2, <1>3, AheadAfterPut
<1>8. PICK d \in {0, n} :
               /\ Position' = Position + 1 - d
               /\ d # 0 => Position + 1 = Size
               /\ Visible(geo) => \A i \in 0 .. Size - 1 :
                     /\ i < Size - d => At(pix', i) = IF i + d = Position THEN ch
                                                      ELSE At(pix, i + d)
                     /\ i >= Size - d => Bare(pix', scrolled', i)
                     /\ d = 0 /\ i # Position /\ Bare(pix, scrolled, i)
                            => Bare(pix', scrolled', i)
               /\ \/ /\ ahead' = ahead /\ d = 0 /\ row' = row /\ col' = col + 1
                  \/ ahead' = FALSE /\ Position + 1 = row * n + n
  BY <1>4
<1>9. n \in Nat /\ Size \in Nat /\ Position \in 0 .. Size - 1 /\ col \in Nat
  BY <1>3, Positions, CursorOn DEF Typed, Columns
<1>10. RowKept'
  <2> SUFFICES ASSUME ahead' PROVE Len(line') <= col'
    BY DEF RowKept
  <2>1. ahead' = ahead /\ col' = col + 1
    BY <1>8
  <2>2. L <= col
    BY <1>2, <1>3, <2>1 DEF RowKept
  <2> QED BY <1>5, <1>9, <2>1, <2>2
<1>11. LineAt'
  <2> HIDE DEF n, L
  <2>1. d \in Nat
    BY <1>9
  <2>2. ASSUME NEW x \in Int, x >= 0, x <= Position - d, Visible(geo)
        PROVE  At(pix', x) = IF x + d = Position THEN ch ELSE At(pix, x + d)
    <3>1. x \in 0 .. Size - 1 /\ x < Size - d
      BY <1>9, <2>1, <2>2
    <3> QED BY <1>8, <2>2, <3>1
  <2>3. Visible(geo)' = Visible(geo) /\ (\A x : At(pix, x)' = At(pix', x'))
    BY <1>2, SameScreen DEF Visible
  <2> SUFFICES ASSUME Visible(geo)
               PROVE  /\ \A i \in 1 .. L + 1 : Position' - (L + 1) + i - 1 >= 0
                            => At(pix', Position' - (L + 1) + i - 1) = line'[i]
                      /\ Position' - (L + 1) - 1 >= 0 /\ left # Nothing
                            => At(pix', Position' - (L + 1) - 1) = left
    BY <1>2, <1>5, SameScreen, <2>3 DEF LineAt
  <2>4. ASSUME NEW i \in 1 .. L + 1, Position' - (L + 1) + i - 1 >= 0
        PROVE  At(pix', Position' - (L + 1) + i - 1) = line'[i]
    <3> DEFINE x == Position' - (L + 1) + i - 1
    <3>1. x \in Int /\ x >= 0 /\ x <= Position - d /\ x + d = Position - L + i - 1
      <4>1. L \in Nat /\ Position \in Nat /\ Position' = Position + 1 - d
        BY <1>5, <1>8, <1>9
      <4> QED BY <2>1, <2>4, <4>1
    <3> HIDE DEF x
    <3>2. At(pix', x) = IF x + d = Position THEN ch ELSE At(pix, x + d)
      BY <2>2, <3>1
    <3>3. CASE i = L + 1
      <4>1. x + d = Position
        BY <1>5, <1>9, <3>1, <3>3
      <4> QED BY <1>5, <3>2, <3>3, <4>1 DEF x
    <3>4. CASE i # L + 1
      <4>1. x + d # Position /\ x + d >= 0 /\ i \in 1 .. L
        BY <1>5, <1>9, <2>1, <3>1, <3>4
      <4>2. At(pix, Position - L + i - 1) = line[i]
        BY <1>2, <1>3, <3>1, <4>1 DEF LineAt, L
      <4> QED BY <1>5, <3>1, <3>2, <4>1, <4>2 DEF x
    <3> QED BY <3>3, <3>4
  <2>5. ASSUME Position' - (L + 1) - 1 >= 0, left # Nothing
        PROVE  At(pix', Position' - (L + 1) - 1) = left
    <3> DEFINE x == Position' - (L + 1) - 1
    <3>1. x \in Int /\ x >= 0 /\ x <= Position - d /\ x + d = Position - L - 1
          /\ x + d # Position /\ x + d >= 0
      BY <1>5, <1>8, <1>9, <2>1, <2>5
    <3> HIDE DEF x
    <3>2. At(pix', x) = At(pix, x + d)
      BY <2>2, <3>1
    <3>3. At(pix, Position - L - 1) = left
      BY <1>2, <1>3, <2>5, <3>1 DEF LineAt, L
    <3> QED BY <3>1, <3>2, <3>3 DEF x
  <2> QED BY <2>4, <2>5
<1> QED BY <1>6, <1>7, <1>10, <1>11 DEF ConsoleInv

\* A character erased is taken off the screen too, on whatever row it is.
LEMMA KeyBackspaceKeeps ==
  ASSUME ConsoleInv, KeyBackspace
  PROVE  ConsoleInv'
<1>1. editing /\ line # <<>> /\ line' = Front(line) /\ console_backspace
      /\ geo' = geo /\ editing' = editing /\ scrolled' = scrolled /\ left' = left
      /\ ahead' = ahead
  BY DEF KeyBackspace
<1>2. Typed /\ AheadAt /\ LineAt /\ RowKept /\ geo \in Geometries /\ editing \in BOOLEAN
      /\ line \in Seq(Chars \cup {Space}) /\ ahead \in BOOLEAN
  BY DEF ConsoleInv, Typed
<1> DEFINE n == geo.columns
           L == Len(line)
           b == row * n
<1>3. line' \in Seq(Chars \cup {Space}) /\ Len(line') = L - 1 /\ L \in Nat \ {0}
      /\ \A i \in 1 .. L - 1 : line'[i] = line[i]
  <2>1. L \in Nat \ {0} /\ line' = SubSeq(line, 1, L - 1)
    BY <1>1, <1>2 DEF Front
  <2>2. 1 \in 1 .. L + 1 /\ L - 1 \in 0 .. L /\ L - 1 = (L - 1) - 1 + 1
    BY <2>1
  <2> HIDE DEF L
  <2>3. line' \in Seq(Chars \cup {Space}) /\ Len(line') = L - 1
    BY <1>2, <2>1, <2>2 DEF L
  <2>4. \A i \in 1 .. L - 1 : line'[i] = line[i]
    BY <1>2, <2>1, <2>2 DEF L
  <2> QED BY <2>1, <2>3, <2>4
<1>4. /\ row' \in 0 .. Rows(geo) - 1 /\ col' \in Columns(geo) /\ Drawn(pix', scrolled')
      /\ \/ Position = 0 /\ row' = row /\ col' = col /\ pix' = pix
         \/ /\ Position > 0 /\ Position' = Position - 1
            /\ col > 0 => row' = row /\ col' = col - 1
            /\ Visible(geo) => \A i \in 0 .. Size - 1 :
                     /\ At(pix', i) = IF i = Position - 1 THEN Space ELSE At(pix, i)
                     /\ i # Position - 1 /\ Bare(pix, scrolled, i)
                            => Bare(pix', scrolled, i)
  BY <1>1, <1>2, BackspaceMoves
<1>5. Typed'
  <2>1. Drawn(pix, scrolled)'
    BY <1>1, <1>4, SameScreen
  <2> QED BY <1>1, <1>2, <1>3, <1>4, <2>1 DEF Typed
<1>6. n \in Nat \ {0} /\ Size \in Nat /\ Position \in 0 .. Size - 1 /\ col \in 0 .. n - 1
      /\ b \in Nat /\ Position = b + col
  BY <1>2, Positions, CursorOn DEF Typed, Columns
<1>7. ahead => L <= col
  BY <1>1, <1>2 DEF RowKept
<1>8. Visible(geo)' = Visible(geo) /\ Size' = Size /\ (geo.columns)' = n
      /\ (\A x : At(pix, x)' = At(pix', x'))
      /\ (\A x : Bare(pix, scrolled, x)' = Bare(pix', scrolled', x'))
  BY <1>1, SameScreen DEF Visible
<1>9. \A j \in 0 .. Size - 1 : Visible(geo) /\ j >= Position /\ (ahead => j >= b + n)
                                => Bare(pix, scrolled, j)
  BY <1>2 DEF AheadAt
<1>10. \A i \in 1 .. L : Visible(geo) /\ Position - L + i - 1 >= 0
                   => At(pix, Position - L + i - 1) = line[i]
  BY <1>1, <1>2 DEF LineAt
<1>11. Visible(geo) /\ Position - L - 1 >= 0 /\ left # Nothing
               => At(pix, Position - L - 1) = left
  BY <1>1, <1>2 DEF LineAt
<1>12. CASE Position = 0 /\ row' = row /\ col' = col /\ pix' = pix
  <2>1. Position' = Position
    BY <1>1, <1>12 DEF Position
  <2>2. RowKept'
    <3> HIDE DEF n, b, L
    <3> SUFFICES ASSUME ahead PROVE Len(line') <= col'
      BY <1>1 DEF RowKept
    <3> QED BY <1>3, <1>6, <1>7, <1>12
  <2>3. AheadAt'
    BY <1>1, <1>2, <1>8, <1>12, <2>1 DEF AheadAt
  <2>4. LineAt'
    <3> HIDE DEF n, b, L
    <3>1. \A i \in 1 .. L - 1 : ~(Position' - (L - 1) + i - 1 >= 0)
      BY <1>3, <1>12, <2>1
    <3>2. ~(Position' - (L - 1) - 1 >= 0)
      BY <1>3, <1>12, <2>1
    <3> QED BY <1>3, <3>1, <3>2 DEF LineAt
  <2> QED BY <1>5, <2>2, <2>3, <2>4 DEF ConsoleInv
<1>13. CASE /\ Position > 0 /\ Position' = Position - 1
            /\ col > 0 => row' = row /\ col' = col - 1
            /\ Visible(geo) => \A i \in 0 .. Size - 1 :
                     /\ At(pix', i) = IF i = Position - 1 THEN Space ELSE At(pix, i)
                     /\ i # Position - 1 /\ Bare(pix, scrolled, i)
                            => Bare(pix', scrolled, i)
  <2>1. RowKept'
    <3> HIDE DEF n, b, L
    <3> SUFFICES ASSUME ahead PROVE Len(line') <= col'
      BY <1>1 DEF RowKept
    <3> QED BY <1>3, <1>6, <1>7, <1>13
  <2>2. AheadAt'
    <3> SUFFICES ASSUME Visible(geo), NEW i \in 0 .. Size - 1, i >= Position',
                        ahead => i >= row' * n + n
                 PROVE  Bare(pix', scrolled', i)
      BY <1>1, <1>8 DEF AheadAt
    <3>1. ahead => col > 0
      <4> HIDE DEF n, b, L
      <4> QED BY <1>3, <1>6, <1>7
    <3>2. row' = row => row' * n = b
      OBVIOUS
    <3>3. ahead => i >= b + n
      BY <1>13, <3>1, <3>2
    <3>4. /\ i = Position - 1 => Bare(pix', scrolled', i)
          /\ i # Position - 1 /\ Bare(pix, scrolled, i) => Bare(pix', scrolled', i)
      BY <1>1, <1>13 DEF Bare
    <3> HIDE DEF n, b, L
    <3>5. i # Position - 1 => i >= Position
      BY <1>6, <1>13
    <3> QED BY <1>9, <3>3, <3>4, <3>5
  <2>3. LineAt'
    <3> HIDE DEF n, b, L
    <3> SUFFICES ASSUME Visible(geo)
               PROVE  /\ \A i \in 1 .. L - 1 : Position' - (L - 1) + i - 1 >= 0
                            => At(pix', Position' - (L - 1) + i - 1) = line'[i]
                      /\ Position' - (L - 1) - 1 >= 0 /\ left # Nothing
                            => At(pix', Position' - (L - 1) - 1) = left
      BY <1>1, <1>3, <1>8 DEF LineAt
    <3>1. ASSUME NEW i \in 1 .. L - 1, Position' - (L - 1) + i - 1 >= 0
          PROVE  At(pix', Position' - (L - 1) + i - 1) = line'[i]
      <4> DEFINE x == Position' - (L - 1) + i - 1
      <4>1. x \in 0 .. Size - 1 /\ x # Position - 1 /\ x = Position - L + i - 1
            /\ x >= 0 /\ i \in 1 .. L
        BY <1>3, <1>6, <1>13, <3>1
      <4> HIDE DEF x
      <4>2. At(pix', x) = At(pix, x)
        BY <1>13, <4>1
      <4>3. At(pix, x) = line[i]
        BY <1>10, <4>1
      <4> QED BY <1>3, <4>2, <4>3 DEF x
    <3>2. ASSUME Position' - (L - 1) - 1 >= 0, left # Nothing
          PROVE  At(pix', Position' - (L - 1) - 1) = left
      <4> DEFINE x == Position' - (L - 1) - 1
      <4>1. x \in 0 .. Size - 1 /\ x # Position - 1 /\ x = Position - L - 1 /\ x >= 0
        BY <1>3, <1>6, <1>13, <3>2
      <4> HIDE DEF x
      <4>2. At(pix', x) = At(pix, x)
        BY <1>13, <4>1
      <4> QED BY <1>11, <3>2, <4>1, <4>2 DEF x
    <3> QED BY <3>1, <3>2
  <2> QED BY <1>5, <2>1, <2>2, <2>3 DEF ConsoleInv
<1> QED BY <1>4, <1>12, <1>13

\* A new line leaves nothing from the cursor on, written or typed.
LEMMA NewLineKeeps ==
  ASSUME ConsoleInv, NewLine, geo' = geo, editing' = FALSE,
         line' \in Seq(Chars \cup {Space})
  PROVE  ConsoleInv'
<1> DEFINE n == geo.columns
           b == row * n
<1>1. NextRow(pix) /\ col' = 0 /\ ahead' = FALSE
  BY DEF NewLine
<1>2. Typed /\ AheadAt /\ Drawn(pix, scrolled) /\ geo \in Geometries
  BY DEF ConsoleInv, Typed
<1>3. /\ row' \in 0 .. Rows(geo) - 1 /\ Drawn(pix', scrolled')
      /\ \E d \in {0, n} :
               /\ row' * n = b + n - d
               /\ d # 0 => b + n = Size
               /\ Visible(geo) => \A i \in 0 .. Size - 1 :
                     /\ i < Size - d => At(pix', i) = At(pix, i + d)
                     /\ i >= Size - d => Bare(pix', scrolled', i)
                     /\ d = 0 /\ Bare(pix, scrolled, i) => Bare(pix', scrolled', i)
  BY <1>1, <1>2, NextRowMoves
<1>4. PICK d \in {0, n} :
               /\ row' * n = b + n - d
               /\ d # 0 => b + n = Size
               /\ Visible(geo) => \A i \in 0 .. Size - 1 :
                     /\ i < Size - d => At(pix', i) = At(pix, i + d)
                     /\ i >= Size - d => Bare(pix', scrolled', i)
                     /\ d = 0 /\ Bare(pix, scrolled, i) => Bare(pix', scrolled', i)
  BY <1>3
<1>5. n \in Nat \ {0} /\ Size \in Nat /\ Position \in 0 .. Size - 1 /\ col \in 0 .. n - 1
      /\ b \in Nat /\ Position = b + col
  BY <1>2, Positions, CursorOn DEF Typed, Columns
<1>6. Typed'
  <2>1. Drawn(pix, scrolled)'
    BY <1>3, SameScreen
  <2>2. 0 \in Columns(geo)
    BY <1>5 DEF Columns
  <2> QED BY <1>1, <1>2, <1>3, <2>1, <2>2 DEF Typed
<1>7. AheadAt'
  <2>1. Visible(geo)' = Visible(geo) /\ Size' = Size /\ (\A x : At(pix, x)' = At(pix', x'))
        /\ (\A x : Bare(pix, scrolled, x)' = Bare(pix', scrolled', x'))
    BY SameScreen DEF Visible
  <2>2. Position' = row' * n + 0
    BY <1>1 DEF Position
  <2> SUFFICES ASSUME Visible(geo), NEW i \in 0 .. Size - 1, i >= Position'
               PROVE  Bare(pix', scrolled', i)
    BY <1>1, <2>1 DEF AheadAt
  <2>3. \A j \in 0 .. Size - 1 : j >= Position /\ (ahead => j >= b + n)
                                    => Bare(pix, scrolled, j)
    BY <1>2 DEF AheadAt
  <2>4. /\ i >= Size - d => Bare(pix', scrolled', i)
        /\ d = 0 /\ Bare(pix, scrolled, i) => Bare(pix', scrolled', i)
    BY <1>4
  <2> DEFINE e == row' * n
  <2>5. e = b + n - d /\ Position' = e + 0
    BY <1>4, <2>2
  <2> HIDE DEF n, b, e
  <2>6. i >= Size - d \/ (d = 0 /\ i >= Position /\ i >= b + n)
    <3>1. CASE d # 0
      BY <1>4, <1>5, <2>5, <3>1
    <3>2. CASE d = 0
      BY <1>5, <2>5, <3>2
    <3> QED BY <3>1, <3>2
  <2> QED BY <2>3, <2>4, <2>6
<1> QED BY <1>6, <1>7 DEF ConsoleInv, LineAt, RowKept

\* A carriage return moves the cursor and says so.
LEMMA WriteReturnKeeps ==
  ASSUME ConsoleInv, WriteReturn
  PROVE  ConsoleInv'
<1>1. ~editing /\ col' = 0 /\ ahead' = TRUE /\ geo' = geo /\ pix' = pix /\ row' = row
      /\ editing' = editing /\ line' = line /\ scrolled' = scrolled
  BY DEF WriteReturn
<1>2. Typed /\ AheadAt /\ geo \in Geometries
  BY DEF ConsoleInv, Typed
<1> DEFINE n == geo.columns
           b == row * n
<1>3. n \in Nat \ {0} /\ Size \in Nat /\ Position \in 0 .. Size - 1 /\ col \in 0 .. n - 1
      /\ b \in Nat /\ Position = b + col
  BY <1>2, Positions, CursorOn DEF Typed, Columns
<1>4. Typed'
  <2>1. Drawn(pix, scrolled)'
    BY <1>1, <1>2, SameScreen DEF Typed
  <2>2. 0 \in Columns(geo)
    BY <1>3 DEF Columns
  <2> QED BY <1>1, <1>2, <2>1, <2>2 DEF Typed
<1>5. AheadAt'
  <2>1. Visible(geo)' = Visible(geo) /\ Size' = Size /\ (\A x : At(pix, x)' = At(pix', x'))
        /\ (\A x : Bare(pix, scrolled, x)' = Bare(pix', scrolled', x'))
    BY <1>1, SameScreen DEF Visible
  <2>2. (row * geo.columns + geo.columns)' = b + n
    BY <1>1
  <2> SUFFICES ASSUME Visible(geo), NEW i \in 0 .. Size - 1, i >= b + n
               PROVE  Bare(pix', scrolled', i)
    BY <1>1, <2>1, <2>2 DEF AheadAt
  <2>3. \A j \in 0 .. Size - 1 : j >= Position /\ (ahead => j >= b + n)
                                    => Bare(pix, scrolled, j)
    BY <1>2 DEF AheadAt
  <2> HIDE DEF n, b
  <2>4. i >= Position
    BY <1>3
  <2> QED BY <1>1, <2>3, <2>4
<1> QED BY <1>1, <1>4, <1>5 DEF ConsoleInv, LineAt, RowKept

\* A picture with nothing in its rows shows nothing.
LEMMA EmptyScreen ==
  ASSUME geo \in Geometries, NEW p,
         \A y \in Lines(geo), c \in Columns(geo) :
            y < Rows(geo) * geo.cell => p[y][c] = Background
  PROVE  \A i \in 0 .. Size - 1 : At(p, i) = Space
<1> SUFFICES ASSUME NEW i \in 0 .. Size - 1 PROVE At(p, i) = Space
  OBVIOUS
<1> DEFINE r == i \div geo.columns
           c == i % geo.columns
<1>1. r \in 0 .. Rows(geo) - 1 /\ c \in Columns(geo) /\ Rows(geo) \in Nat
  BY Positions
<1>2. At(p, i) = Cell(p, r, c)
  BY DEF At
<1> HIDE DEF r, c
<1>3. r \in Nat /\ r < Rows(geo)
  BY <1>1
<1>4. \A k \in 0 .. geo.cell - 1 : /\ r * geo.cell + k \in Lines(geo)
                                   /\ r * geo.cell + k < Rows(geo) * geo.cell
  <2>1. \A k \in 0 .. geo.cell - 1 : /\ r * geo.cell + k \in Lines(geo)
                                     /\ r * geo.cell + k \in CellLines(r)
    BY <1>3, LineOf
  <2> DEFINE b == r * geo.cell
             e == (r + 1) * geo.cell
             B == Rows(geo) * geo.cell
  <2>2. b \in Nat /\ e \in Nat /\ B \in Nat /\ e <= B /\ CellLines(r) = b .. e - 1
        /\ geo.cell \in Nat
    <3>1. b \in Nat /\ B \in Nat /\ e <= B /\ e = b + geo.cell /\ geo.cell \in Nat
      BY <1>3, RowLines
    <3> HIDE DEF B
    <3>2. CellLines(r) = b .. e - 1
      BY DEF CellLines
    <3> HIDE DEF b, e
    <3> QED BY <3>1, <3>2
  <2> HIDE DEF b, e, B
  <2>3. \A k \in 0 .. geo.cell - 1 : b + k < B
    <3> SUFFICES ASSUME NEW k \in 0 .. geo.cell - 1 PROVE b + k < B
      OBVIOUS
    <3>1. b + k \in b .. e - 1
      BY <2>1, <2>2 DEF b
    <3> QED BY <2>2, <3>1
  <2> QED BY <2>1, <2>3 DEF b, B
<1>5. Cell(p, r, c) = Space
  BY <1>1, <1>4 DEF Cell
<1> QED BY <1>2, <1>5

\* Clearing leaves an empty screen, with the lines below it as they were.
LEMMA ClearKeeps ==
  ASSUME ConsoleInv, Clear
  PROVE  ConsoleInv'
<1>1. /\ ~editing /\ row' = 0 /\ col' = 0 /\ ahead' = FALSE
      /\ geo' = geo /\ editing' = editing /\ line' = line /\ scrolled' = scrolled
      /\ pix' = [y \in Lines(geo) |->
                  IF Visible(geo) /\ y < Rows(geo) * geo.cell
                  THEN [c \in Columns(geo) |-> Background] ELSE pix[y]]
  BY DEF Clear
<1>2. Typed /\ geo \in Geometries /\ Drawn(pix, scrolled)
  BY DEF ConsoleInv, Typed
<1>3. geo.columns \in Nat \ {0} /\ Rows(geo) \in Nat \ {0}
  BY <1>2, RowLines
<1>4. ASSUME Visible(geo)
      PROVE  /\ Picture(pix') /\ Below(pix', scrolled)
             /\ \A y \in Lines(geo), c \in Columns(geo) :
                   y < Rows(geo) * geo.cell => pix'[y][c] = Background
  <2>1. \A y \in Lines(geo) : pix[y] \in [Columns(geo) -> Pixels]
    BY <1>2, <1>4 DEF Drawn, Picture
  <2>2. [c \in Columns(geo) |-> Background] \in [Columns(geo) -> Pixels]
    BY DEF Pixels
  <2>3. pix' \in [Lines(geo) -> [Columns(geo) -> Pixels]]
    BY <1>1, <2>1, <2>2
  <2>4. \A y \in Lines(geo), c \in Columns(geo) :
           y < Rows(geo) * geo.cell => pix'[y][c] = Background
    BY <1>1, <1>4
  <2>5. ASSUME NEW y \in Lines(geo), y >= Rows(geo) * geo.cell PROVE pix'[y] = pix[y]
    <3>1. y \in Nat /\ Rows(geo) * geo.cell \in Nat
      BY <1>2, RowLines DEF Lines
    <3>2. ~(y < Rows(geo) * geo.cell)
      BY <2>5, <3>1
    <3> QED BY <1>1, <3>2
  <2>6. Below(pix', scrolled)
    BY <1>2, <1>4, <2>5 DEF Drawn, Below
  <2> QED BY <2>3, <2>4, <2>6 DEF Picture
<1>5. Typed'
  <2>1. Drawn(pix', scrolled')
    BY <1>1, <1>4 DEF Drawn
  <2>2. Drawn(pix, scrolled)'
    BY <1>1, <2>1, SameScreen
  <2>3. 0 \in Columns(geo) /\ 0 \in 0 .. Rows(geo) - 1
    BY <1>3 DEF Columns
  <2> QED BY <1>1, <1>2, <2>2, <2>3 DEF Typed
<1>6. AheadAt'
  <2>1. Visible(geo)' = Visible(geo) /\ Size' = Size /\ (\A x : At(pix, x)' = At(pix', x'))
        /\ (\A x : Bare(pix, scrolled, x)' = Bare(pix', scrolled', x'))
    BY <1>1, SameScreen DEF Visible
  <2>2. Visible(geo) => \A i \in 0 .. Size - 1 : At(pix', i) = Space
    BY <1>2, <1>4, EmptyScreen
  <2> QED BY <2>1, <2>2 DEF AheadAt, Bare
<1> QED BY <1>1, <1>5, <1>6 DEF ConsoleInv, LineAt, RowKept

\* What one sees at a position is what the table has there.
LEMMA ShownIsAt ==
  ASSUME geo \in Geometries
  PROVE  \A i \in Nat : Shown(i) = At(pix, i)
<1> SUFFICES ASSUME NEW i \in Nat PROVE Shown(i) = At(pix, i)
  OBVIOUS
<1>1. geo.columns \in Nat \ {0}
  BY RowLines
<1>2. i \div geo.columns \in Nat
  BY <1>1, DivMod
<1>3. ShownAt(i \div geo.columns, i % geo.columns) =
          Cell(pix, i \div geo.columns, i % geo.columns)
  BY <1>2, ShownIsCell
<1> QED BY <1>3 DEF Shown, At

\* Input starts with an empty line, after what the cursor is behind.
LEMMA StartLineKeeps ==
  ASSUME ConsoleInv, StartLine
  PROVE  ConsoleInv'
<1>1. /\ editing' = TRUE /\ line' = <<>> /\ geo' = geo /\ pix' = pix /\ row' = row
      /\ col' = col /\ ahead' = ahead /\ scrolled' = scrolled
      /\ left' = IF Position > 0 /\ Visible(geo) THEN Shown(Position - 1) ELSE Nothing
  BY DEF StartLine
<1>2. Typed /\ AheadAt /\ geo \in Geometries
  BY DEF ConsoleInv, Typed
<1>3. Position \in Nat /\ Position' = Position /\ col \in Nat /\ Size \in Nat
  <2>1. Position \in 0 .. Size - 1 /\ Size \in Nat /\ col \in 0 .. geo.columns - 1
    BY <1>2, Positions, CursorOn DEF Typed, Columns
  <2>2. Position' = Position
    BY <1>1 DEF Position
  <2>3. col \in Nat
    BY <2>1
  <2> QED BY <2>1, <2>2, <2>3
<1>4. Visible(geo)' = Visible(geo) /\ Size' = Size /\ (\A x : At(pix, x)' = At(pix', x'))
      /\ (\A x : Bare(pix, scrolled, x)' = Bare(pix', scrolled', x'))
  BY <1>1, SameScreen DEF Visible
<1>5. Typed'
  <2>1. Drawn(pix, scrolled)'
    BY <1>1, <1>2, SameScreen DEF Typed
  <2>2. <<>> \in Seq(Chars \cup {Space})
    OBVIOUS
  <2> QED BY <1>1, <1>2, <2>1, <2>2 DEF Typed
<1>6. AheadAt'
  BY <1>1, <1>2, <1>3, <1>4 DEF AheadAt
<1>7. RowKept'
  BY <1>1, <1>3 DEF RowKept
<1>8. LineAt'
  <2>1. Len(line') = 0
    BY <1>1
  <2>2. ASSUME Position - 0 - 1 >= 0, Visible(geo)
        PROVE  At(pix, Position - 0 - 1) = left'
    <3>1. Position > 0 /\ Position - 0 - 1 = Position - 1 /\ Position - 1 \in Nat
      BY <1>3, <2>2
    <3>2. Shown(Position - 1) = At(pix, Position - 1)
      BY <1>2, <3>1, ShownIsAt
    <3> QED BY <1>1, <2>2, <3>1, <3>2
  <2> QED BY <1>1, <1>3, <1>4, <2>1, <2>2 DEF LineAt
<1> QED BY <1>5, <1>6, <1>7, <1>8 DEF ConsoleInv

\* console_init shows an empty screen.
LEMMA InitInv == Init => ConsoleInv
<1> SUFFICES ASSUME Init PROVE ConsoleInv
  OBVIOUS
<1>1. /\ geo \in Geometries /\ row = 0 /\ col = 0 /\ editing = FALSE /\ line = <<>>
      /\ ahead = FALSE /\ scrolled = 0
  BY DEF Init
<1>2. geo.columns \in Nat \ {0} /\ Rows(geo) \in Nat \ {0}
  BY <1>1, RowLines
<1>3. PICK below \in [Rows(geo) * geo.cell .. geo.height - 1 -> [Columns(geo) -> Firmware]] :
         pix = [y \in Lines(geo) |->
                   IF y < Rows(geo) * geo.cell
                   THEN [c \in Columns(geo) |-> Background] ELSE below[y]]
  BY DEF Init
<1>4. /\ Picture(pix) /\ Below(pix, scrolled)
      /\ \A y \in Lines(geo), c \in Columns(geo) :
            y < Rows(geo) * geo.cell => pix[y][c] = Background
  <2> DEFINE B == Rows(geo) * geo.cell
  <2>1. B \in Nat /\ geo.height \in Nat /\ Lines(geo) = 0 .. geo.height - 1
    BY <1>1, RowLines DEF Lines
  <2> HIDE DEF B
  <2>2. \A y \in Lines(geo) : /\ y >= B <=> ~(y < B)
                              /\ ~(y < B) => y \in B .. geo.height - 1
    BY <2>1
  <2>3. \A y \in Lines(geo) : ~(y < B) => pix[y] \in [Columns(geo) -> Firmware]
    BY <1>3, <2>2 DEF B
  <2>4. \A y \in Lines(geo) : y < B => pix[y] = [c \in Columns(geo) |-> Background]
    BY <1>3 DEF B
  <2>5. \A y \in Lines(geo) : pix[y] \in [Columns(geo) -> Pixels]
    BY <2>3, <2>4 DEF Pixels
  <2>6. Picture(pix)
    <3>1. pix = [y \in Lines(geo) |-> pix[y]]
      BY <1>3
    <3> QED BY <2>5, <3>1 DEF Picture
  <2>7. Below(pix, scrolled)
    BY <1>1, <2>2, <2>3 DEF Below, B
  <2> QED BY <2>4, <2>6, <2>7 DEF B
<1>5. Typed
  <2>1. Drawn(pix, scrolled)
    BY <1>4 DEF Drawn
  <2>2. 0 \in Columns(geo) /\ 0 \in 0 .. Rows(geo) - 1
    BY <1>2 DEF Columns
  <2>3. <<>> \in Seq(Chars \cup {Space})
    OBVIOUS
  <2>4. editing \in BOOLEAN /\ ahead \in BOOLEAN
    BY <1>1
  <2> HIDE DEF Space
  <2> QED BY <1>1, <2>1, <2>2, <2>3, <2>4, Zenon DEF Typed
<1>6. AheadAt
  BY <1>1, <1>4, EmptyScreen DEF AheadAt, Bare
<1> QED BY <1>1, <1>5, <1>6 DEF ConsoleInv, LineAt, RowKept

\* Every step keeps the invariant.
LEMMA NextKeeps == ConsoleInv /\ [Next]_vars => ConsoleInv'
<1> SUFFICES ASSUME ConsoleInv, [Next]_vars PROVE ConsoleInv'
  OBVIOUS
<1>1. CASE WriteChar
  BY <1>1, WriteCharKeeps
<1>2. CASE WriteNewLine
  <2>1. NewLine /\ geo' = geo /\ editing' = FALSE /\ line' = line
    BY <1>2 DEF WriteNewLine, ConsoleInv, Typed
  <2>2. line \in Seq(Chars \cup {Space})
    BY DEF ConsoleInv, Typed
  <2> QED BY <2>1, <2>2, NewLineKeeps
<1>3. CASE WriteReturn
  BY <1>3, WriteReturnKeeps
<1>4. CASE Clear
  BY <1>4, ClearKeeps
<1>5. CASE StartLine
  BY <1>5, StartLineKeeps
<1>6. CASE KeyChar
  BY <1>6, KeyCharKeeps
<1>7. CASE KeyBackspace
  BY <1>7, KeyBackspaceKeeps
<1>8. CASE KeyEnter
  <2>1. NewLine /\ geo' = geo /\ editing' = FALSE /\ line' = <<>>
    BY <1>8 DEF KeyEnter
  <2>2. <<>> \in Seq(Chars \cup {Space})
    OBVIOUS
  <2> QED BY <2>1, <2>2, NewLineKeeps
<1>9. CASE UNCHANGED vars
  <2>1. geo' = geo /\ pix' = pix /\ row' = row /\ col' = col /\ editing' = editing
        /\ line' = line /\ scrolled' = scrolled /\ left' = left /\ ahead' = ahead
    BY <1>9 DEF vars
  <2>2. Visible(geo)' = Visible(geo) /\ Size' = Size /\ (\A x : At(pix, x)' = At(pix', x'))
        /\ (\A x : Bare(pix, scrolled, x)' = Bare(pix', scrolled', x'))
        /\ Drawn(pix, scrolled)' = Drawn(pix, scrolled)
    BY <2>1, SameScreen DEF Visible
  <2>3. Position' = Position
    BY <2>1 DEF Position
  <2>4. Typed' = Typed
    BY <2>1, <2>2 DEF Typed
  <2>5. LineAt' = LineAt
    BY <2>1, <2>2, <2>3 DEF LineAt
  <2>6. AheadAt' = AheadAt
    BY <2>1, <2>2, <2>3 DEF AheadAt
  <2>7. RowKept' = RowKept
    BY <2>1 DEF RowKept
  <2> QED BY <2>4, <2>5, <2>6, <2>7 DEF ConsoleInv
<1> QED BY <1>1, <1>2, <1>3, <1>4, <1>5, <1>6, <1>7, <1>8, <1>9 DEF Next

\* The invariant says of the table what ScreenRight says of the screen.
LEMMA InvGivesScreen == ConsoleInv => ScreenRight
<1> SUFFICES ASSUME ConsoleInv PROVE ScreenRight
  OBVIOUS
<1>1. Typed /\ LineAt /\ AheadAt /\ geo \in Geometries /\ line \in Seq(Chars \cup {Space})
  BY DEF ConsoleInv, Typed
<1> DEFINE n == geo.columns
           b == row * n
<1>2. n \in Nat \ {0} /\ Rows(geo) \in Nat \ {0} /\ Size \in Nat /\ row \in 0 .. Rows(geo) - 1
      /\ Position \in 0 .. Size - 1 /\ col \in 0 .. n - 1 /\ b \in Nat /\ Position = b + col
  BY <1>1, Positions, CursorOn DEF Typed, Columns
<1>3. row < Rows(geo) /\ col < n
  <2> HIDE DEF n, b
  <2> QED BY <1>2
<1>4. LineShown
  <2>1. Len(line) \in Nat /\ Position \in Int
    BY <1>1, <1>2
  <2>2. ASSUME NEW i \in 1 .. Len(line), Position - Len(line) + i - 1 >= 0
        PROVE  Shown(Position - Len(line) + i - 1) = At(pix, Position - Len(line) + i - 1)
    <3>1. Position - Len(line) + i - 1 \in Nat
      BY <2>1, <2>2
    <3> QED BY <1>1, <3>1, ShownIsAt
  <2>3. ASSUME Position - Len(line) - 1 >= 0
        PROVE  Shown(Position - Len(line) - 1) = At(pix, Position - Len(line) - 1)
    <3>1. Position - Len(line) - 1 \in Nat
      BY <2>1, <2>3
    <3> QED BY <1>1, <3>1, ShownIsAt
  <2> QED BY <1>1, <2>2, <2>3 DEF LineShown, LineAt
<1>5. BlankAhead
  <2> SUFFICES ASSUME Visible(geo), NEW i \in 0 .. Size - 1, i >= Position,
                      ahead => i \div n > row
               PROVE  \/ Shown(i) = Space
                      \/ /\ scrolled = 1 /\ i \div n = Rows(geo) - 1
                         /\ Leftover(pix, i % n)
    BY DEF BlankAhead, Size
  <2>1. ahead => i >= b + n
    <3> SUFFICES ASSUME i \div n > row PROVE i >= b + n
      OBVIOUS
    <3> DEFINE q == i \div n
               m == i % n
               e == q * n
    <3>1. q \in 0 .. Rows(geo) - 1 /\ m \in Columns(geo) /\ i = e + m
      BY <1>1, Positions
    <3>2. m \in Nat /\ q \in Nat /\ q > row
      BY <3>1 DEF Columns
    <3>3. row \in Nat /\ n \in Nat
      BY <1>2
    <3> HIDE DEF q, m, n
    <3>4. e \in Nat /\ (row + 1) * n <= e
      <4>1. row + 1 \in Nat /\ row + 1 <= q
        BY <3>2, <3>3
      <4> QED BY <3>2, <3>3, <4>1, Products
    <3>5. (row + 1) * n = b + n /\ b \in Nat
      BY <3>3, Products
    <3> DEFINE f == (row + 1) * n
    <3>6. f <= e /\ f = b + n
      BY <3>4, <3>5
    <3> HIDE DEF e, f, b
    <3> QED BY <3>1, <3>2, <3>3, <3>4, <3>5, <3>6
  <2>2. Bare(pix, scrolled, i)
    BY <1>1, <2>1 DEF AheadAt
  <2>3. i \in Nat
    BY <1>2
  <2>4. Shown(i) = At(pix, i)
    BY <1>1, <2>3, ShownIsAt
  <2> QED BY <2>2, <2>4 DEF Bare
<1> QED BY <1>3, <1>4, <1>5 DEF ScreenRight

\* What one sees is what was typed: on every screen, whatever is written, typed,
\* wrapped, scrolled and erased, the cursor stays on the screen, the cells before
\* it show the line being edited, and the ones from it on show nothing but,
\* between the first scroll and the second, what the firmware left below the last
\* row, whatever that is (console.c, console_write_char, console_backspace,
\* console_clear, scroll_if_needed).
THEOREM ScreenIsRight == Spec => []ScreenRight
<1>1. Spec => []ConsoleInv
  BY InitInv, NextKeeps, PTL DEF Spec
<1> QED BY <1>1, InvGivesScreen, PTL
=============================================================================
