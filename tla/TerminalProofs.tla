---------------------------- MODULE TerminalProofs ----------------------------
(***************************************************************************)
(* What is proved of Terminal and Parser: what is drawn again, how lines   *)
(* and characters move, and which characters the bytes stand for.          *)
(***************************************************************************)
EXTENDS Terminal, Parser, WellFoundedInduction, TLAPS

\* A set of natural numbers has a least member, and a bounded one a greatest.
LEMMA Least ==
  ASSUME NEW S \in SUBSET Nat, S # {}
  PROVE  \E n \in S : \A m \in S : n <= m
<1>. DEFINE R == OpToRel(<, Nat)
<1>1. IsWellFoundedOn(R, Nat)
  BY NatLessThanWellFounded
<1>. HIDE DEF R
<1>2. PICK n \in S : \A m \in S : ~(<<m, n>> \in R)
  BY <1>1, WFMin
<1>3. \A m \in Nat : m < n => <<m, n>> \in R
  BY DEF R, OpToRel
<1>4. ASSUME NEW m \in S PROVE n <= m
  <2>1. m \in Nat /\ n \in Nat /\ ~(<<m, n>> \in R)
    BY <1>2
  <2>2. ~(m < n)
    BY <1>3, <2>1
  <2>. QED  BY <2>1, <2>2
<1>. QED  BY <1>4

\* Of a bounded set of natural numbers Max is the greatest.
LEMMA Greatest ==
  ASSUME NEW n \in Nat, NEW S \in SUBSET (1..n), S # {}
  PROVE  Max(S) \in S /\ \A m \in S : m <= Max(S)
<1>. DEFINE D == {n - m : m \in S}
<1>1. D \in SUBSET Nat /\ D # {}
  <2>1. \A m \in S : n - m \in Nat
    OBVIOUS
  <2>. QED  BY <2>1
<1>2. PICK d \in D : \A e \in D : d <= e
  <2>. HIDE DEF D
  <2>. QED  BY <1>1, Least
<1>3. PICK k \in S : d = n - k
  OBVIOUS
<1>4. \A m \in S : k >= m
  <2>1. \A m \in S : n - m \in D
    OBVIOUS
  <2>2. \A m \in S : m \in Int
    OBVIOUS
  <2>. HIDE DEF D
  <2>. QED  BY <1>2, <1>3, <2>1, <2>2
<1>5. \E x \in S : \A y \in S : x >= y
  BY <1>4
<1>6. Max(S) \in S /\ \A y \in S : Max(S) >= y
  BY <1>5 DEF Max
<1>7. \A m \in S : m \in Int
  OBVIOUS
<1>8. Max(S) \in Int
  BY <1>6, <1>7
<1>. QED  BY <1>6, <1>7, <1>8

\* What holds at first and is kept by each turn holds at last.
LEMMA Induct ==
  ASSUME NEW n \in Nat, NEW S, 0 \in S, \A i \in 1..n : i - 1 \in S => i \in S
  PROVE  \A i \in 0..n : i \in S
<1>. DEFINE T == {i \in 0..n : i \notin S}
<1>. SUFFICES ASSUME T # {} PROVE FALSE
  OBVIOUS
<1>1. T \in SUBSET Nat
  OBVIOUS
<1>2. PICK i \in T : \A j \in T : i <= j
  <2>. HIDE DEF T
  <2>. QED  BY <1>1, Least
<1>3. i \in 1..n /\ i - 1 \in 0..n /\ i - 1 \notin T
  BY <1>2
<1>. QED  BY <1>3

-----------------------------------------------------------------------------
(* Folds.                                                                  *)

\* The results of a fold for parts of a sequence.
Folded(g, t, step, n) ==
  \A S \in SUBSET (1..n) :
    g[S] = IF S = {} THEN t ELSE step[<<g[S \ {Max(S)}], Max(S)>>]

\* The function by which FoldLeft is defined exists.
LEMMA FoldExists ==
  ASSUME NEW T, NEW n \in Nat, NEW step \in [T \X (1..n) -> T], NEW t \in T
  PROVE  \E g \in [SUBSET (1..n) -> T] : Folded(g, t, step, n)
<1>. DEFINE P == {k \in 0..n : \E g \in [SUBSET (1..k) -> T] : Folded(g, t, step, k)}
<1>1. 0 \in P
  <2>. DEFINE g == [S \in SUBSET (1..0) |-> t]
  <2>1. g \in [SUBSET (1..0) -> T] /\ Folded(g, t, step, 0)
    BY DEF Folded
  <2>. QED  BY <2>1
<1>2. ASSUME NEW k \in 1..n, k - 1 \in P PROVE k \in P
  <2>1. PICK h \in [SUBSET (1..k - 1) -> T] : Folded(h, t, step, k - 1)
    BY <1>2
  <2>. DEFINE g == [S \in SUBSET (1..k) |->
                      IF k \in S THEN step[<<h[S \ {k}], k>>] ELSE h[S]]
  <2>2. ASSUME NEW S \in SUBSET (1..k)
        PROVE  /\ k \in S => S \ {k} \in SUBSET (1..k - 1)
               /\ k \notin S => S \in SUBSET (1..k - 1)
    OBVIOUS
  <2>3. g \in [SUBSET (1..k) -> T]
    <3>1. \A S \in SUBSET (1..k) :
            (IF k \in S THEN step[<<h[S \ {k}], k>>] ELSE h[S]) \in T
      BY <2>2
    <3>. QED  BY <3>1
  <2>4. ASSUME NEW S \in SUBSET (1..k)
        PROVE  g[S] = IF S = {} THEN t ELSE step[<<g[S \ {Max(S)}], Max(S)>>]
    <3>1. CASE k \in S
      <4>1. Max(S) = k
        <5>1. Max(S) \in S /\ \A m \in S : m <= Max(S)
          <6>1. k \in Nat /\ S # {}
            BY <3>1
          <6>. QED  BY <6>1, Greatest
        <5>2. Max(S) \in 1..k
          BY <5>1
        <5>. QED  BY <3>1, <5>1, <5>2
      <4>2. g[S \ {k}] = h[S \ {k}] /\ g[S] = step[<<h[S \ {k}], k>>]
        BY <2>2, <3>1
      <4>. HIDE DEF g
      <4>. QED  BY <3>1, <4>1, <4>2
    <3>2. CASE k \notin S
      <4>1. g[S] = h[S] /\ S \in SUBSET (1..k - 1)
        BY <2>2, <3>2
      <4>2. h[S] = IF S = {} THEN t ELSE step[<<h[S \ {Max(S)}], Max(S)>>]
        BY <2>1, <4>1 DEF Folded
      <4>3. g[S \ {Max(S)}] = h[S \ {Max(S)}]
        BY <3>2
      <4>. HIDE DEF g
      <4>. QED  BY <4>1, <4>2, <4>3
    <3>. QED  BY <3>1, <3>2
  <2>. HIDE DEF g
  <2>5. Folded(g, t, step, k)
    BY <2>4 DEF Folded
  <2>. QED  BY <2>3, <2>5
<1>. HIDE DEF P
<1>3. n \in P
  BY <1>1, <1>2, Induct
<1>. QED  BY <1>3 DEF P

\* The last turn of an initial part.
LEMMA LastTurn ==
  ASSUME NEW n \in Nat, NEW k \in 1..n
  PROVE  /\ Max(1..k) = k /\ (1..k) \ {k} = 1..k - 1
         /\ 1..k \in SUBSET (1..n) /\ 1..k # {}
<1>1. k \in Nat /\ 1..k # {} /\ 1..k \in SUBSET (1..k)
  OBVIOUS
<1>2. Max(1..k) \in 1..k /\ \A m \in 1..k : m <= Max(1..k)
  BY <1>1, Greatest
<1>. QED  BY <1>2

-----------------------------------------------------------------------------
(* Types.                                                                  *)

Cells == [char : Halfs \cup Wides \cup {Space}, width : {"half", "wide", "next"}]
Positions == [y : Rows, x : Columns, origin : BOOLEAN]

Records ==
  [cells : [Rows -> [Columns -> Cells]], lines : Heights, dirty : SUBSET Rows,
   clear : BOOLEAN, mode : SUBSET {"origin", "amright", "vwbs"}, wrap : BOOLEAN,
   top : Rows, bottom : Rows, x : Columns, y : Rows, saved : Positions,
   tabs : SUBSET Columns]

Terminals == {t \in Records : t.top < t.bottom}

\* The cells may change, and where they do the line is marked.
Draws(t, u) ==
  /\ t.dirty \subseteq u.dirty
  /\ \A y \in Rows : u.cells[y] # t.cells[y] => y \in u.dirty

\* The rest stays.
SameRest(t, u) ==
  /\ u.x = t.x /\ u.y = t.y /\ u.top = t.top /\ u.bottom = t.bottom
  /\ u.lines = t.lines /\ u.mode = t.mode /\ u.wrap = t.wrap

Drawn(t, u) == u \in Terminals /\ Draws(t, u) /\ SameRest(t, u)

\* What does nothing draws.
LEMMA DrawnOnce == ASSUME NEW t \in Terminals PROVE Drawn(t, t)
BY DEF Drawn, Draws, SameRest

\* One after the other.
LEMMA DrawnTwice ==
  ASSUME NEW t, NEW u, NEW v, Drawn(t, u), Drawn(u, v)
  PROVE  Drawn(t, v)
BY DEF Drawn, Draws, SameRest

\* Numbers of the lines and columns.
LEMMA Sizes ==
  /\ Lines \in Nat /\ Cols \in Nat /\ Lines >= 2 /\ Cols >= 2
  /\ Rows \subseteq Nat /\ Columns \subseteq Nat
  /\ Heights \subseteq Nat /\ \A h \in Heights : h >= 2 /\ h <= Lines
BY TerminalAssumption DEF TerminalAssumption, Rows, Columns

\* Other cells and marks.
Marks(t, cells, dirty) ==
  /\ cells \in [Rows -> [Columns -> Cells]] /\ dirty \in SUBSET Rows
  /\ t.dirty \subseteq dirty
  /\ \A y \in Rows : cells[y] # t.cells[y] => y \in dirty

\* New cells with the lines that differ marked are drawn.
LEMMA Redrawn ==
  ASSUME NEW t \in Terminals, NEW cells, NEW dirty, Marks(t, cells, dirty),
         NEW u, u = [t EXCEPT !.cells = cells, !.dirty = dirty]
  PROVE  Drawn(t, u)
BY DEF Marks, Drawn, Draws, SameRest, Terminals, Records

\* erase_cell marks the lines it erases in.
LEMMA EraseDraws ==
  ASSUME NEW t \in Terminals, NEW S \in SUBSET (Rows \X Columns)
  PROVE  Drawn(t, eraseCells(t, S))
<1>. DEFINE cells == [y \in Rows |-> [x \in Columns |->
                        IF <<y, x>> \in S THEN Erased ELSE t.cells[y][x]]]
            dirty == t.dirty \cup {cell[1] : cell \in S}
<1>1. eraseCells(t, S) = [t EXCEPT !.cells = cells, !.dirty = dirty]
  BY DEF eraseCells, Terminals, Records
<1>2. cells \in [Rows -> [Columns -> Cells]] /\ t.cells \in [Rows -> [Columns -> Cells]]
  BY DEF Cells, Erased, Cell, Terminals, Records
<1>3. dirty \in SUBSET Rows /\ t.dirty \subseteq dirty
  BY DEF Terminals, Records
<1>4. ASSUME NEW y \in Rows, cells[y] # t.cells[y] PROVE y \in dirty
  <2>1. PICK x \in Columns : cells[y][x] # t.cells[y][x]
    BY <1>2, <1>4
  <2>2. <<y, x>> \in S
    BY <2>1
  <2>. QED  BY <2>2
<1>5. Marks(t, cells, dirty)
  BY <1>2, <1>3, <1>4 DEF Marks
<1>. HIDE DEF cells, dirty
<1>. QED  BY <1>1, <1>5, Redrawn

\* A cell that is put is drawn.
LEMMA PutDraws ==
  ASSUME NEW t \in Terminals, NEW y \in Rows, NEW x \in Columns, NEW cell \in Cells
  PROVE  Drawn(t, put(t, y, x, cell))
<1>. DEFINE cells == [t.cells EXCEPT ![y][x] = cell]
            dirty == t.dirty \cup {y}
<1>1. put(t, y, x, cell) = [t EXCEPT !.cells = cells, !.dirty = dirty]
  BY DEF put, Terminals, Records
<1>2. cells \in [Rows -> [Columns -> Cells]] /\ t.cells \in [Rows -> [Columns -> Cells]]
  BY DEF Terminals, Records
<1>3. dirty \in SUBSET Rows /\ t.dirty \subseteq dirty
  BY DEF Terminals, Records
<1>4. \A z \in Rows : cells[z] # t.cells[z] => z \in dirty
  BY <1>2
<1>5. Marks(t, cells, dirty)
  BY <1>2, <1>3, <1>4 DEF Marks
<1>. HIDE DEF cells, dirty
<1>. QED  BY <1>1, <1>5, Redrawn

\* set_cell puts a wide character and the cell next to it.
LEMMA WideDraws ==
  ASSUME NEW t \in Terminals, NEW y \in Rows, NEW x \in Columns, x + 1 \in Columns,
         NEW char \in Halfs \cup Wides \cup {Space}
  PROVE  Drawn(t, putWide(t, y, x, char))
<1>. DEFINE left == Cell(char, "wide")  right == Cell(char, "next")
            u == put(t, y, x, left)
<1>1. left \in Cells /\ right \in Cells
  BY DEF Cell, Cells
<1>2. putWide(t, y, x, char) = put(u, y, x + 1, right)
  BY DEF putWide
<1>. HIDE DEF left, right
<1>3. Drawn(t, u)
  BY <1>1, PutDraws
<1>4. u \in Terminals
  BY <1>3 DEF Drawn
<1>. HIDE DEF u
<1>5. Drawn(u, put(u, y, x + 1, right))
  BY <1>1, <1>4, PutDraws
<1>. QED  BY <1>2, <1>3, <1>5, DrawnTwice

\* copy_cell marks its line.
LEMMA CopyDraws ==
  ASSUME NEW t \in Terminals, NEW y \in Rows, NEW dst \in Columns, NEW src \in Columns
  PROVE  Drawn(t, copyCell(t, y, dst, src))
<1>. DEFINE cell == t.cells[y][src]
<1>1. cell \in Cells
  BY DEF Terminals, Records
<1>2. CASE cell.width = "next"
  BY <1>2, DrawnOnce DEF copyCell
<1>3. CASE cell.width = "wide" /\ dst = Cols - 1
  <2>1. copyCell(t, y, dst, src) = eraseCells(t, {<<y, dst>>})
    BY <1>3 DEF copyCell
  <2>2. {<<y, dst>>} \in SUBSET (Rows \X Columns)
    OBVIOUS
  <2>. QED  BY <2>1, <2>2, EraseDraws
<1>4. CASE cell.width = "wide" /\ dst # Cols - 1
  <2>1. copyCell(t, y, dst, src) = putWide(t, y, dst, cell.char)
    BY <1>4 DEF copyCell
  <2>2. dst + 1 \in Columns
    BY <1>4, Sizes DEF Columns
  <2>3. cell.char \in Halfs \cup Wides \cup {Space}
    BY <1>1 DEF Cells
  <2>. QED  BY <2>1, <2>2, <2>3, WideDraws
<1>5. CASE cell.width = "half"
  <2>1. copyCell(t, y, dst, src) = put(t, y, dst, cell)
    BY <1>5 DEF copyCell
  <2>. QED  BY <1>1, <2>1, PutDraws
<1>. QED  BY <1>1, <1>2, <1>3, <1>4, <1>5 DEF Cells

\* set_cell, whatever the width.
LEMMA SetDraws ==
  ASSUME NEW t \in Terminals, NEW char \in Halfs \cup Wides
  PROVE  Drawn(t, setCell(t, char))
<1>. DEFINE width == IF char \in Wides THEN "wide" ELSE "half"
            cell == Cell(char, width)
            u == put(t, t.y, t.x, cell)
<1>1. t.y \in Rows /\ t.x \in Columns /\ cell \in Cells
  BY DEF Terminals, Records, Cells, Cell
<1>2. CASE columnsOf(t, char) = 2
  <2>1. setCell(t, char) = putWide(t, t.y, t.x, char)
    BY <1>2 DEF setCell
  <2>2. t.x + 1 \in Columns
    BY <1>1, <1>2, Sizes DEF columnsOf, Columns
  <2>. QED  BY <1>1, <2>1, <2>2, WideDraws
<1>3. CASE columnsOf(t, char) # 2
  <2>1. Drawn(t, u)
    <3>. HIDE DEF cell
    <3>. QED  BY <1>1, PutDraws
  <2>2. \/ setCell(t, char) = u
        \/ t.x + 1 < Cols /\ setCell(t, char) = eraseCells(u, {<<t.y, t.x + 1>>})
    BY <1>3 DEF setCell
  <2>3. CASE t.x + 1 < Cols /\ setCell(t, char) = eraseCells(u, {<<t.y, t.x + 1>>})
    <3>1. {<<t.y, t.x + 1>>} \in SUBSET (Rows \X Columns)
      BY <1>1, <2>3, Sizes DEF Columns
    <3>2. u \in Terminals
      BY <2>1 DEF Drawn
    <3>3. Drawn(u, eraseCells(u, {<<t.y, t.x + 1>>}))
      <4>. HIDE DEF u
      <4>. QED  BY <3>1, <3>2, EraseDraws
    <3>. HIDE DEF u
    <3>. QED  BY <2>1, <2>3, <3>3, DrawnTwice
  <2>. QED  BY <2>1, <2>2, <2>3
<1>. QED  BY <1>2, <1>3

-----------------------------------------------------------------------------
(* Scrolling.                                                              *)

Screens == [Rows -> [Columns -> Cells]]

\* The lines are swapped one after the other.
Swaps(after, base, s, offset, n) ==
  /\ after \in [0..n -> Screens] /\ after[0] = base
  /\ \A k \in 1..n : after[k] = swapLines(after[k - 1], s[k], s[k] + offset)

swapAll(base, s, offset) == FoldLeft(LAMBDA cells, y : swapLines(cells, y, y + offset), base, s)

\* The swaps of scroll, as a sequence of screens.
LEMMA SwapTurns ==
  ASSUME NEW n \in Nat, NEW s \in [1..n -> Rows], NEW offset \in Int,
         \A k \in 1..n : s[k] + offset \in Rows, NEW base \in Screens
  PROVE  \E after : /\ Swaps(after, base, s, offset, n)
                    /\ swapAll(base, s, offset) = after[n]
<1>. DEFINE step == [p \in Screens \X (1..n) |-> swapLines(p[1], s[p[2]], s[p[2]] + offset)]
            iter == CHOOSE h : h = [S \in SUBSET (1..n) |->
                      IF S = {} THEN base
                      ELSE swapLines(h[S \ {Max(S)}], s[Max(S)], s[Max(S)] + offset)]
<1>1. \A cells \in Screens, k \in 1..n : swapLines(cells, s[k], s[k] + offset) \in Screens
  BY DEF Screens, swapLines
<1>2. step \in [Screens \X (1..n) -> Screens]
  BY <1>1
<1>3. PICK g \in [SUBSET (1..n) -> Screens] : Folded(g, base, step, n)
  <2>. HIDE DEF step
  <2>. QED  BY <1>2, FoldExists
<1>4. g = [S \in SUBSET (1..n) |->
             IF S = {} THEN base
             ELSE swapLines(g[S \ {Max(S)}], s[Max(S)], s[Max(S)] + offset)]
  <2>1. ASSUME NEW S \in SUBSET (1..n), S # {}
        PROVE  g[S] = swapLines(g[S \ {Max(S)}], s[Max(S)], s[Max(S)] + offset)
    <3>1. Max(S) \in 1..n
      BY <2>1, Greatest
    <3>2. g[S \ {Max(S)}] \in Screens
      OBVIOUS
    <3>3. g[S] = step[<<g[S \ {Max(S)}], Max(S)>>]
      BY <1>3, <2>1 DEF Folded
    <3>. QED  BY <3>1, <3>2, <3>3
  <2>2. g[{}] = base
    BY <1>3 DEF Folded
  <2>. HIDE DEF step
  <2>. QED  BY <2>1, <2>2
<1>5. iter = [S \in SUBSET (1..n) |->
                IF S = {} THEN base
                ELSE swapLines(iter[S \ {Max(S)}], s[Max(S)], s[Max(S)] + offset)]
  <2>. HIDE DEF step
  <2>. QED  BY <1>4
<1>6. swapAll(base, s, offset) = iter[1..n]
  <2>1. DOMAIN s = 1..n
    OBVIOUS
  <2>. QED  BY <2>1 DEF swapAll, FoldLeft, MapThenFoldSet
<1>. HIDE DEF iter, step
<1>. DEFINE after == [k \in 0..n |-> iter[1..k]]
<1>7. after[0] = base
  <2>1. 1..0 = {} /\ {} \in SUBSET (1..n)
    OBVIOUS
  <2>. QED  BY <1>5, <2>1
<1>8. \A k \in 1..n : after[k] = swapLines(after[k - 1], s[k], s[k] + offset)
  <2>1. ASSUME NEW k \in 1..n
        PROVE  iter[1..k] = swapLines(iter[1..k - 1], s[k], s[k] + offset)
    <3>1. /\ Max(1..k) = k /\ (1..k) \ {k} = 1..k - 1
          /\ 1..k \in SUBSET (1..n) /\ 1..k # {}
      BY LastTurn
    <3>2. iter[1..k] = swapLines(iter[(1..k) \ {Max(1..k)}], s[Max(1..k)], s[Max(1..k)] + offset)
      BY <1>5, <3>1
    <3>. QED  BY <3>1, <3>2
  <2>. QED  BY <2>1
<1>11. after[n] = iter[1..n]
  OBVIOUS
<1>. HIDE DEF after
<1>9. \A k \in 0..n : after[k] \in Screens
  <2>. DEFINE T == {k \in 0..n : after[k] \in Screens}
  <2>1. 0 \in T
    BY <1>7
  <2>2. \A k \in 1..n : k - 1 \in T => k \in T
    BY <1>1, <1>8
  <2>3. \A k \in 0..n : k \in T
    <3>. HIDE DEF T
    <3>. QED  BY <2>1, <2>2, Induct
  <2>. QED  BY <2>3
<1>10. Swaps(after, base, s, offset, n)
  BY <1>7, <1>8, <1>9 DEF Swaps, after
<1>. QED  BY <1>6, <1>10, <1>11

\* What scroll makes of the cells: where the margins keep a line, the line that
\* is offset away, elsewhere in the region nothing that matters; outside of it
\* what was there.
Shifted(cells, old, from, to, offset) ==
  \A y \in Rows :
    /\ y \notin from..to => cells[y] = old[y]
    /\ y \in from..to /\ y + offset \in from..to => cells[y] = old[y + offset]

\* After k turns of the loop for a positive offset; the other is its mirror image.
DownTo(cells, old, from, to, offset, k) ==
  \A y \in Rows :
    /\ y \in from..from + k - 1 => cells[y] = old[y + offset]
    /\ y < from \/ y >= from + k + offset => cells[y] = old[y]

UpTo(cells, old, from, to, offset, k) ==
  \A y \in Rows :
    /\ y \in to - k + 1..to => cells[y] = old[y + offset]
    /\ y > to \/ y <= to - k + offset => cells[y] = old[y]

\* Swapping from the first line on moves the lines up by offset.
LEMMA SwapsDown ==
  ASSUME NEW from \in Rows, NEW to \in Rows, NEW offset \in Nat \ {0}, NEW n \in Nat,
         n = to - from + 1 - offset, NEW old \in Screens,
         NEW s \in [1..n -> Rows], \A k \in 1..n : s[k] = from + k - 1,
         NEW after, Swaps(after, old, s, offset, n)
  PROVE  Shifted(after[n], old, from, to, offset)
<1>. DEFINE T == {k \in 0..n : DownTo(after[k], old, from, to, offset, k)}
<1>0. from \in Nat /\ to \in Nat /\ \A y \in Rows : y \in Nat
  BY Sizes
<1>1. 0 \in T
  BY <1>0 DEF Swaps, DownTo
<1>2. ASSUME NEW k \in 1..n, k - 1 \in T PROVE k \in T
  <2>. DEFINE i == from + k - 1  j == from + k - 1 + offset
              c == after[k - 1]  d == after[k]
  <2>1. /\ c \in Screens /\ d = swapLines(c, i, j) /\ i \in Rows /\ j \in Rows
    <3>1. k - 1 \in 0..n /\ s[k] = i /\ s[k] + offset = j
      OBVIOUS
    <3>2. j \in Rows
      BY <1>0, Sizes DEF Rows
    <3>. QED  BY <3>1, <3>2 DEF Swaps
  <2>2. DownTo(c, old, from, to, offset, k - 1)
    BY <1>2
  <2>3. /\ d[i] = c[j] /\ \A y \in Rows : y # i /\ y # j => d[y] = c[y]
    BY <1>0, <2>1 DEF swapLines, Screens
  <2>. HIDE DEF c, d
  <2>4. DownTo(d, old, from, to, offset, k)
    <3>1. ASSUME NEW y \in Rows, y \in from..from + k - 1 PROVE d[y] = old[y + offset]
      <4>1. CASE y = i
        <5>1. c[j] = old[j]
          BY <1>0, <2>1, <2>2 DEF DownTo
        <5>. QED  BY <1>0, <2>3, <4>1, <5>1
      <4>2. CASE y # i
        <5>1. y \in from..from + (k - 1) - 1 /\ y # j
          BY <1>0, <3>1, <4>2
        <5>. QED  BY <2>2, <2>3, <4>2, <5>1 DEF DownTo
      <4>. QED  BY <4>1, <4>2
    <3>2. ASSUME NEW y \in Rows, y < from \/ y >= from + k + offset PROVE d[y] = old[y]
      <4>1. y # i /\ y # j /\ (y < from \/ y >= from + (k - 1) + offset)
        BY <1>0, <3>2
      <4>. QED  BY <2>2, <2>3, <4>1 DEF DownTo
    <3>. QED  BY <3>1, <3>2 DEF DownTo
  <2>. QED  BY <2>4 DEF d
<1>3. n \in T
  <2>1. \A k \in 1..n : k - 1 \in T => k \in T
    BY <1>2
  <2>2. \A k \in 0..n : k \in T
    <3>. HIDE DEF T
    <3>. QED  BY <1>1, <2>1, Induct
  <2>. QED  BY <2>2
<1>4. DownTo(after[n], old, from, to, offset, n)
  BY <1>3
<1>. QED  BY <1>0, <1>4 DEF DownTo, Shifted
\* Swapping from the last line on moves the lines down by -offset.
LEMMA SwapsUp ==
  ASSUME NEW from \in Rows, NEW to \in Rows, NEW offset \in Int, offset < 0, NEW n \in Nat,
         n = to - from + 1 + offset, NEW old \in Screens,
         NEW s \in [1..n -> Rows], \A k \in 1..n : s[k] = to - k + 1,
         NEW after, Swaps(after, old, s, offset, n)
  PROVE  Shifted(after[n], old, from, to, offset)
<1>. DEFINE T == {k \in 0..n : UpTo(after[k], old, from, to, offset, k)}
<1>0. from \in Nat /\ to \in Nat /\ \A y \in Rows : y \in Nat
  BY Sizes
<1>1. 0 \in T
  BY <1>0 DEF Swaps, UpTo
<1>2. ASSUME NEW k \in 1..n, k - 1 \in T PROVE k \in T
  <2>. DEFINE i == to - k + 1  j == to - k + 1 + offset
              c == after[k - 1]  d == after[k]
  <2>1. /\ c \in Screens /\ d = swapLines(c, i, j) /\ i \in Rows /\ j \in Rows
    <3>1. k - 1 \in 0..n /\ s[k] = i /\ s[k] + offset = j
      OBVIOUS
    <3>2. j \in Rows
      BY <1>0, Sizes DEF Rows
    <3>. QED  BY <3>1, <3>2 DEF Swaps
  <2>2. UpTo(c, old, from, to, offset, k - 1)
    BY <1>2
  <2>3. /\ d[i] = c[j] /\ \A y \in Rows : y # i /\ y # j => d[y] = c[y]
    BY <1>0, <2>1 DEF swapLines, Screens
  <2>. HIDE DEF c, d
  <2>4. UpTo(d, old, from, to, offset, k)
    <3>1. ASSUME NEW y \in Rows, y \in to - k + 1..to PROVE d[y] = old[y + offset]
      <4>1. CASE y = i
        <5>1. c[j] = old[j]
          BY <1>0, <2>1, <2>2 DEF UpTo
        <5>. QED  BY <1>0, <2>3, <4>1, <5>1
      <4>2. CASE y # i
        <5>1. y \in to - (k - 1) + 1..to /\ y # j
          BY <1>0, <3>1, <4>2
        <5>. QED  BY <2>2, <2>3, <4>2, <5>1 DEF UpTo
      <4>. QED  BY <4>1, <4>2
    <3>2. ASSUME NEW y \in Rows, y > to \/ y <= to - k + offset PROVE d[y] = old[y]
      <4>1. y # i /\ y # j /\ (y > to \/ y <= to - (k - 1) + offset)
        BY <1>0, <3>2
      <4>. QED  BY <2>2, <2>3, <4>1 DEF UpTo
    <3>. QED  BY <3>1, <3>2 DEF UpTo
  <2>. QED  BY <2>4 DEF d
<1>3. n \in T
  <2>1. \A k \in 1..n : k - 1 \in T => k \in T
    BY <1>2
  <2>2. \A k \in 0..n : k \in T
    <3>. HIDE DEF T
    <3>. QED  BY <1>1, <2>1, Induct
  <2>. QED  BY <2>2
<1>4. UpTo(after[n], old, from, to, offset, n)
  BY <1>3
<1>. QED  BY <1>0, <1>4 DEF UpTo, Shifted

\* The cells after erase_cell.
LEMMA ErasedCells ==
  ASSUME NEW t \in Terminals, NEW S
  PROVE  eraseCells(t, S).cells = [y \in Rows |-> [x \in Columns |->
            IF <<y, x>> \in S THEN Erased ELSE t.cells[y][x]]]
BY DEF eraseCells, Terminals, Records

BlankLine == [x \in Columns |-> Erased]

Scrolled(t, u, from, to, offset) ==
  \A y \in Rows :
    /\ y \notin from..to \cup blanked(from, to, offset) => u.cells[y] = t.cells[y]
    /\ y \in from..to =>
         u.cells[y] = IF y + offset \in from..to THEN t.cells[y + offset] ELSE BlankLine

\* The swaps of scroll, either way.
LEMMA ScrollSwaps ==
  ASSUME NEW from \in Rows, NEW to \in Rows, from < to, NEW offset \in Int \ {0},
         NEW old \in Screens
  PROVE  \E cells \in Screens : /\ cells = swapAll(old, swaps(from, to, offset), offset)
                                 /\ Shifted(cells, old, from, to, offset)
<1>. DEFINE size == IF offset > 0 THEN offset ELSE -offset
            n == to - from + 1 - size
            m == IF n > 0 THEN n ELSE 0
            s == swaps(from, to, offset)
<1>0. from \in Nat /\ to \in Nat /\ m \in Nat /\ 1..n = 1..m /\ \A y \in Rows : y \in Nat
  BY Sizes
<1>1. CASE offset > 0
  <2>1. s = [k \in 1..m |-> from + k - 1]
    BY <1>0, <1>1 DEF swaps
  <2>2. s \in [1..m -> Rows] /\ (\A k \in 1..m : s[k] = from + k - 1 /\ s[k] + offset \in Rows)
    <3>1. \A k \in 1..m : from + k - 1 \in Rows /\ from + k - 1 + offset \in Rows
      BY <1>0, <1>1, Sizes DEF Rows
    <3>. HIDE DEF s, m, n
    <3>. QED  BY <2>1, <3>1
  <2>. HIDE DEF s
  <2>3. PICK after : Swaps(after, old, s, offset, m) /\ swapAll(old, s, offset) = after[m]
    <3>1. m \in Nat /\ offset \in Int /\ \A k \in 1..m : s[k] + offset \in Rows
      BY <1>0, <2>2
    <3>. HIDE DEF m, n
    <3>. QED  BY <2>2, <3>1, SwapTurns
  <2>4. after[m] \in Screens
    BY <1>0, <2>3 DEF Swaps
  <2>5. CASE n >= 0
    <3>1. m = to - from + 1 - offset /\ offset \in Nat \ {0}
      BY <1>0, <1>1, <2>5
    <3>2. Shifted(after[m], old, from, to, offset)
      <4>. HIDE DEF m, n
      <4>. QED  BY <1>0, <2>2, <2>3, <3>1, SwapsDown
    <3>. QED  BY <2>3, <2>4, <3>2 DEF s
  <2>6. CASE ~(n >= 0)
    <3>1. after[m] = old /\ to - from + 1 < offset
      BY <1>0, <1>1, <2>3, <2>6 DEF Swaps
    <3>2. Shifted(after[m], old, from, to, offset)
      BY <1>0, <3>1 DEF Shifted
    <3>. QED  BY <2>3, <2>4, <3>2 DEF s
  <2>. QED  BY <2>5, <2>6
<1>2. CASE offset < 0
  <2>1. s = [k \in 1..m |-> to - k + 1]
    <3>1. ~(offset > 0) /\ size = -offset
      BY <1>2
    <3>2. s = [k \in 1..n |-> to - k + 1]
      BY <3>1 DEF swaps
    <3>. HIDE DEF n, m
    <3>. QED  BY <1>0, <3>2
  <2>2. s \in [1..m -> Rows] /\ (\A k \in 1..m : s[k] = to - k + 1 /\ s[k] + offset \in Rows)
    <3>1. \A k \in 1..m : to - k + 1 \in Rows /\ to - k + 1 + offset \in Rows
      BY <1>0, <1>2, Sizes DEF Rows
    <3>. HIDE DEF s, m, n
    <3>. QED  BY <2>1, <3>1
  <2>. HIDE DEF s
  <2>3. PICK after : Swaps(after, old, s, offset, m) /\ swapAll(old, s, offset) = after[m]
    <3>1. m \in Nat /\ offset \in Int /\ \A k \in 1..m : s[k] + offset \in Rows
      BY <1>0, <2>2
    <3>. HIDE DEF m, n
    <3>. QED  BY <2>2, <3>1, SwapTurns
  <2>4. after[m] \in Screens
    BY <1>0, <2>3 DEF Swaps
  <2>5. CASE n >= 0
    <3>1. m = to - from + 1 + offset /\ offset \in Int
      BY <1>0, <1>2, <2>5
    <3>2. Shifted(after[m], old, from, to, offset)
      <4>. HIDE DEF m, n
      <4>. QED  BY <1>0, <1>2, <2>2, <2>3, <3>1, SwapsUp
    <3>. QED  BY <2>3, <2>4, <3>2 DEF s
  <2>6. CASE ~(n >= 0)
    <3>1. after[m] = old /\ to - from + 1 < -offset
      BY <1>0, <1>2, <2>3, <2>6 DEF Swaps
    <3>2. Shifted(after[m], old, from, to, offset)
      BY <1>0, <3>1 DEF Shifted
    <3>. QED  BY <2>3, <2>4, <3>2 DEF s
  <2>. QED  BY <2>5, <2>6
<1>. QED  BY <1>1, <1>2

\* scroll marks the lines it changes and moves them by offset, and no others.
LEMMA ScrollWorks ==
  ASSUME NEW t \in Terminals, NEW from \in Rows, NEW to \in Rows, from < to,
         NEW offset \in Int \ {0}, to - offset + 1 >= 0, from - offset <= Lines
  PROVE  /\ Drawn(t, scroll(t, from, to, offset))
         /\ Scrolled(t, scroll(t, from, to, offset), from, to, offset)
<1>. DEFINE lines == blanked(from, to, offset)
            S == lines \X Columns
<1>0. from \in Nat /\ to \in Nat /\ t.cells \in Screens /\ (\A y \in Rows : y \in Nat)
      /\ t.dirty \in SUBSET Rows
  BY Sizes DEF Terminals, Records, Screens
<1>1. PICK cells \in Screens : /\ cells = swapAll(t.cells, swaps(from, to, offset), offset)
                               /\ Shifted(cells, t.cells, from, to, offset)
  BY <1>0, ScrollSwaps
<1>. DEFINE dirty == t.dirty \cup from..to
            u == [t EXCEPT !.cells = cells, !.dirty = dirty]
<1>2. scroll(t, from, to, offset) = eraseCells(u, S)
  <2>1. scroll(t, from, to, offset)
          = eraseCells([t EXCEPT !.cells = swapAll(t.cells, swaps(from, to, offset), offset),
                                 !.dirty = @ \cup marked(from, to, offset)], S)
    BY <1>0 DEF scroll, swapAll, FoldLeft, MapThenFoldSet
  <2>. QED  BY <1>1, <2>1 DEF marked, Terminals, Records
<1>3. Marks(t, cells, dirty)
  BY <1>0, <1>1, Sizes DEF Marks, Shifted, Screens, Rows
<1>. HIDE DEF dirty
<1>4. Drawn(t, u)
  BY <1>3, Redrawn
<1>5. u.cells = cells
  BY DEF Terminals, Records
<1>. HIDE DEF u
<1>6. lines \subseteq Rows
  BY <1>0, Sizes DEF blanked, Rows
<1>7. S \in SUBSET (Rows \X Columns)
  BY <1>6
<1>. DEFINE v == eraseCells(u, S)
<1>8. v.cells = [y \in Rows |-> [x \in Columns |->
                   IF <<y, x>> \in S THEN Erased ELSE cells[y][x]]]
  BY <1>4, <1>5, ErasedCells DEF Drawn
<1>9. \A y \in Rows : v.cells[y] = IF y \in lines THEN BlankLine ELSE cells[y]
  <2>1. \A y \in Rows : cells[y] = [x \in Columns |-> cells[y][x]]
    BY DEF Screens
  <2>. HIDE DEF lines, v
  <2>. QED  BY <1>8, <2>1 DEF BlankLine
<1>10. Drawn(t, v)
  <2>. HIDE DEF S
  <2>. QED  BY <1>4, <1>7, EraseDraws, DrawnTwice DEF Drawn
<1>11. \A y \in from..to : y \in lines <=> y + offset \notin from..to
  BY <1>0 DEF blanked
<1>. HIDE DEF lines, v
<1>12. Scrolled(t, v, from, to, offset)
  BY <1>0, <1>1, <1>9, <1>11 DEF Scrolled, Shifted, lines
<1>. QED  BY <1>2, <1>10, <1>12 DEF v

-----------------------------------------------------------------------------
(* The cursor.                                                             *)

\* The cursor and the margins as numbers.
LEMMA Places ==
  ASSUME NEW t \in Terminals
  PROVE  /\ t.x \in 0..Cols - 1 /\ t.y \in 0..Lines - 1
         /\ t.top \in 0..Lines - 1 /\ t.bottom \in 0..Lines - 1 /\ t.top < t.bottom
         /\ t.lines \in 2..Lines /\ Lines \in Nat /\ Cols \in Nat /\ Cols >= 2
<1>1. t.x \in Columns /\ t.y \in Rows /\ t.top \in Rows /\ t.bottom \in Rows
      /\ t.top < t.bottom /\ t.lines \in Heights
  BY DEF Terminals, Records
<1>2. t.lines \in 2..Lines
  BY <1>1, TerminalAssumption DEF TerminalAssumption
<1>. QED  BY <1>1, <1>2, Sizes DEF Rows, Columns

\* A clamped value is within its limits.
LEMMA ClampIn ==
  ASSUME NEW n \in Int, NEW low \in Int, NEW high \in Int, low <= high
  PROVE  clamp(n, low, high) \in low..high
BY DEF clamp

\* Enough of the screen is above and below the margins for a scroll by n lines.
Room(t, dy) == (dy > 0 => t.bottom - dy + 1 >= 0) /\ (dy < 0 => t.top - dy <= Lines)

AtMargin(t, dy) == (t.y = t.top /\ dy < 0) \/ (t.y = t.bottom /\ dy > 0)

Kept(t, u) == u \in Terminals /\ Draws(t, u)

\* What moveCursor does.
Moved(t, u, dy, dx) ==
  /\ u.top = t.top /\ u.bottom = t.bottom /\ u.lines = t.lines /\ u.mode = t.mode
  /\ u.x = clamp(t.x + dx, 0, Cols - 1)
  /\ u.wrap <=> t.wrap \/ (t.x + dx >= Cols /\ "amright" \in t.mode)
  /\ AtMargin(t, dy) => u.y = t.y /\ Scrolled(t, u, t.top, t.bottom, dy)
  /\ ~AtMargin(t, dy) => u.y = clamp(t.y + dy, 0, t.lines - 1) /\ u.cells = t.cells

\* move_cursor clamps, or scrolls at a margin.
LEMMA MoveWorks ==
  ASSUME NEW t \in Terminals, NEW dy \in Int, NEW dx \in Int, AtMargin(t, dy) => Room(t, dy)
  PROVE  Kept(t, moveCursor(t, dy, dx)) /\ Moved(t, moveCursor(t, dy, dx), dy, dx)
<1>. DEFINE x == clamp(t.x + dx, 0, Cols - 1)
            wrap == t.wrap \/ (t.x + dx >= Cols /\ "amright" \in t.mode)
            u == [t EXCEPT !.x = x, !.wrap = wrap]
            y == clamp(t.y + dy, 0, t.lines - 1)
<1>0. /\ t.x \in Columns /\ t.y \in Rows /\ t.top \in Rows /\ t.bottom \in Rows
      /\ t.top < t.bottom /\ t.lines \in Heights /\ t.wrap \in BOOLEAN
      /\ \A r \in Rows : r \in Int
  BY Sizes DEF Terminals, Records
<1>1. x \in Columns
  <2>1. t.x + dx \in Int /\ 0 \in Int /\ Cols - 1 \in Int /\ 0 <= Cols - 1
    BY <1>0, Places
  <2>. QED  BY <2>1, ClampIn DEF Columns
<1>2. y \in Rows
  <2>1. /\ 0 \in Int /\ t.y + dy \in Int /\ t.lines - 1 \in Int
        /\ 0 <= t.lines - 1 /\ t.lines \in Int /\ t.lines <= Lines
    BY <1>0, Places
  <2>2. y \in 0..t.lines - 1
    BY <2>1, ClampIn
  <2>. QED  BY <2>1, <2>2, Sizes DEF Rows
<1>3. wrap \in BOOLEAN
  BY <1>0
<1>. HIDE DEF x, y, wrap
<1>4. u \in Terminals /\ u.cells = t.cells /\ u.dirty = t.dirty /\ u.x = x /\ u.wrap = wrap
      /\ u.y = t.y /\ u.top = t.top /\ u.bottom = t.bottom /\ u.lines = t.lines /\ u.mode = t.mode
  BY <1>1, <1>3 DEF Terminals, Records
<1>5. moveCursor(t, dy, dx) = IF AtMargin(t, dy) THEN scroll(u, t.top, t.bottom, dy)
                              ELSE [u EXCEPT !.y = y]
  <2>1. u = [t EXCEPT !.x = clamp(t.x + dx, 0, Cols - 1),
                     !.wrap = @ \/ (t.x + dx >= Cols /\ "amright" \in t.mode)]
    BY <1>0 DEF x, wrap, Terminals, Records
  <2>2. u.top = t.top /\ u.bottom = t.bottom /\ u.lines = t.lines
    BY <1>4
  <2>. HIDE DEF u
  <2>. QED  BY <2>1, <2>2 DEF moveCursor, AtMargin, y
<1>. HIDE DEF u
<1>6. CASE AtMargin(t, dy)
  <2>. DEFINE v == scroll(u, t.top, t.bottom, dy)
  <2>1. dy \in Int \ {0} /\ t.bottom - dy + 1 >= 0 /\ t.top - dy <= Lines
    BY <1>0, <1>6, Sizes DEF AtMargin, Room, Rows
  <2>2. Drawn(u, v) /\ Scrolled(u, v, t.top, t.bottom, dy)
    BY <1>0, <1>4, <2>1, ScrollWorks
  <2>. HIDE DEF v
  <2>3. Kept(t, v)
    BY <1>4, <2>2 DEF Drawn, Draws, Kept
  <2>4. Moved(t, v, dy, dx)
    BY <1>4, <1>6, <2>2 DEF Drawn, SameRest, Scrolled, Moved, x, wrap
  <2>. QED  BY <1>5, <1>6, <2>3, <2>4 DEF v
<1>7. CASE ~AtMargin(t, dy)
  <2>. DEFINE v == [u EXCEPT !.y = y]
  <2>1. v \in Terminals /\ v.cells = u.cells /\ v.dirty = u.dirty /\ v.x = u.x /\ v.wrap = u.wrap
        /\ v.y = y /\ v.top = u.top /\ v.bottom = u.bottom /\ v.lines = u.lines /\ v.mode = u.mode
    BY <1>2, <1>4 DEF Terminals, Records
  <2>. HIDE DEF v
  <2>2. Kept(t, v)
    BY <1>4, <2>1 DEF Draws, Kept
  <2>3. Moved(t, v, dy, dx)
    BY <1>4, <1>7, <2>1 DEF Moved, x, y, wrap
  <2>. QED  BY <1>5, <1>7, <2>2, <2>3 DEF v
<1>. QED  BY <1>6, <1>7

\* What setCursor does.
Set(t, u, y, x) ==
  /\ u.top = t.top /\ u.bottom = t.bottom /\ u.lines = t.lines /\ u.mode = t.mode
  /\ u.x = clamp(x, 0, Cols - 1) /\ ~u.wrap /\ u.cells = t.cells
  /\ "origin" \notin t.mode => u.y = clamp(y, 0, t.lines - 1)

\* set_cursor clamps, and forgets the pending wrap.
LEMMA SetWorks ==
  ASSUME NEW t \in Terminals, NEW y \in Int, NEW x \in Int
  PROVE  Kept(t, setCursor(t, y, x)) /\ Set(t, setCursor(t, y, x), y, x)
<1>. DEFINE col == clamp(x, 0, Cols - 1)
            row == IF "origin" \in t.mode THEN clamp(y + t.top, t.top, t.bottom)
                   ELSE clamp(y, 0, t.lines - 1)
            no == FALSE
            u == [t EXCEPT !.x = col, !.wrap = no, !.y = row]
<1>0. /\ t.top \in Rows /\ t.bottom \in Rows /\ t.top < t.bottom /\ t.lines \in Heights
      /\ \A r \in Rows : r \in Int
  BY Sizes DEF Terminals, Records
<1>1. col \in Columns
  <2>1. 0 \in Int /\ Cols - 1 \in Int /\ 0 <= Cols - 1
    BY Sizes
  <2>. QED  BY <2>1, ClampIn DEF Columns
<1>2. row \in Rows
  <2>1. /\ y + t.top \in Int /\ t.top \in Int /\ t.bottom \in Int /\ t.top <= t.bottom
        /\ 0 \in Int /\ t.lines - 1 \in Int
        /\ 0 <= t.lines - 1 /\ t.lines \in Int /\ t.lines <= Lines
    BY <1>0, Places
  <2>2. clamp(y + t.top, t.top, t.bottom) \in t.top..t.bottom
    BY <2>1, ClampIn
  <2>3. clamp(y, 0, t.lines - 1) \in 0..t.lines - 1
    BY <2>1, ClampIn
  <2>. QED  BY <1>0, <2>1, <2>2, <2>3, Sizes DEF Rows
<1>3. setCursor(t, y, x) = u
  BY DEF setCursor, Terminals, Records
<1>4. no \in BOOLEAN /\ ~no
  OBVIOUS
<1>5. "origin" \notin t.mode => row = clamp(y, 0, t.lines - 1)
  OBVIOUS
<1>. HIDE DEF no, row
<1>6. u \in Terminals /\ u.cells = t.cells /\ u.dirty = t.dirty /\ u.x = col /\ u.wrap = no
      /\ u.y = row /\ u.top = t.top /\ u.bottom = t.bottom /\ u.lines = t.lines /\ u.mode = t.mode
  <2>. HIDE DEF col
  <2>. QED  BY <1>1, <1>2, <1>4 DEF Terminals, Records
<1>. HIDE DEF u
<1>. QED  BY <1>3, <1>4, <1>5, <1>6 DEF Kept, Draws, Set

-----------------------------------------------------------------------------
(* Insertion and deletion of characters.                                   *)

\* The cells from the last one on, each from the one num before it.
blankStep(t, num, u, x) ==
  IF t.x <= x - num THEN copyCell(u, t.y, x, x - num)
  ELSE eraseCells(u, {<<t.y, x>>})

\* insert_line marks what it moves.
LEMMA InsertDraws ==
  ASSUME NEW t \in Terminals, NEW num \in Nat \ {0}
  PROVE  Drawn(t, insert_blank(t, num))
<1>. DEFINE T == {u \in Terminals : Drawn(t, u)}
            n == Cols - t.x
            s == [k \in 1..n |-> Cols - k]
            step == [p \in T \X (1..n) |-> blankStep(t, num, p[1], s[p[2]])]
            iter == CHOOSE h : h = [S \in SUBSET (1..n) |->
                      IF S = {} THEN t
                      ELSE blankStep(t, num, h[S \ {Max(S)}], s[Max(S)])]
<1>0. t.x \in 0..Cols - 1 /\ t.y \in Rows /\ Cols \in Nat /\ n \in Nat
  BY Places DEF Terminals, Records
<1>1. ASSUME NEW u \in T, NEW k \in 1..n PROVE blankStep(t, num, u, s[k]) \in T
  <2>1. s[k] \in Columns /\ (t.x <= s[k] - num => s[k] - num \in Columns)
    BY <1>0 DEF Columns
  <2>. HIDE DEF s
  <2>2. Drawn(u, blankStep(t, num, u, s[k]))
    <3>1. CASE t.x <= s[k] - num
      <4>1. Drawn(u, copyCell(u, t.y, s[k], s[k] - num))
        BY <1>0, <2>1, <3>1, CopyDraws
      <4>. QED  BY <3>1, <4>1 DEF blankStep
    <3>2. CASE ~(t.x <= s[k] - num)
      <4>1. {<<t.y, s[k]>>} \in SUBSET (Rows \X Columns)
        BY <1>0, <2>1
      <4>2. Drawn(u, eraseCells(u, {<<t.y, s[k]>>}))
        BY <4>1, EraseDraws
      <4>. QED  BY <3>2, <4>2 DEF blankStep
    <3>. QED  BY <3>1, <3>2
  <2>. QED  BY <2>2, DrawnTwice DEF Drawn
<1>2. t \in T
  BY DrawnOnce
<1>. HIDE DEF T, n, s
<1>3. step \in [T \X (1..n) -> T]
  BY <1>1
<1>4. PICK g \in [SUBSET (1..n) -> T] : Folded(g, t, step, n)
  <2>. HIDE DEF step
  <2>. QED  BY <1>0, <1>2, <1>3, FoldExists
<1>5. g = [S \in SUBSET (1..n) |->
             IF S = {} THEN t
             ELSE blankStep(t, num, g[S \ {Max(S)}], s[Max(S)])]
  <2>1. ASSUME NEW S \in SUBSET (1..n), S # {}
        PROVE  g[S] = blankStep(t, num, g[S \ {Max(S)}], s[Max(S)])
    <3>1. Max(S) \in 1..n
      BY <1>0, <2>1, Greatest
    <3>2. g[S \ {Max(S)}] \in T
      OBVIOUS
    <3>3. g[S] = step[<<g[S \ {Max(S)}], Max(S)>>]
      BY <1>4, <2>1 DEF Folded
    <3>. QED  BY <3>1, <3>2, <3>3
  <2>2. g[{}] = t
    BY <1>4 DEF Folded
  <2>. HIDE DEF step
  <2>. QED  BY <2>1, <2>2
<1>6. iter = [S \in SUBSET (1..n) |->
                IF S = {} THEN t
                ELSE blankStep(t, num, iter[S \ {Max(S)}], s[Max(S)])]
  <2>. HIDE DEF step
  <2>. QED  BY <1>5
<1>7. insert_blank(t, num) = iter[1..n]
  <2>1. DOMAIN s = 1..n
    BY DEF s
  <2>2. s = [k \in 1..Cols - t.x |-> Cols - k]
    BY DEF s, n
  <2>3. insert_blank(t, num) = FoldLeft(LAMBDA u, x : blankStep(t, num, u, x), t, s)
    BY <2>2 DEF insert_blank, blankStep
  <2>. QED  BY <2>1, <2>3 DEF FoldLeft, MapThenFoldSet
<1>. HIDE DEF iter, step
<1>. DEFINE A == {k \in 0..n : iter[1..k] \in T}
<1>8. 0 \in A
  <2>1. 1..0 = {} /\ {} \in SUBSET (1..n)
    OBVIOUS
  <2>. QED  BY <1>0, <1>2, <1>6, <2>1
<1>9. ASSUME NEW k \in 1..n, k - 1 \in A PROVE k \in A
  <2>1. /\ Max(1..k) = k /\ (1..k) \ {k} = 1..k - 1
        /\ 1..k \in SUBSET (1..n) /\ 1..k # {}
    BY <1>0, LastTurn
  <2>2. iter[1..k] = blankStep(t, num, iter[(1..k) \ {Max(1..k)}], s[Max(1..k)])
    BY <1>6, <2>1
  <2>3. iter[1..k - 1] \in T
    BY <1>9
  <2>4. blankStep(t, num, iter[1..k - 1], s[k]) \in T
    BY <1>1, <2>3
  <2>5. k \in 0..n
    BY <1>0
  <2>. QED  BY <2>1, <2>2, <2>4, <2>5
<1>10. \A k \in 0..n : k \in A
  <2>1. \A k \in 1..n : k - 1 \in A => k \in A
    BY <1>9
  <2>. HIDE DEF A
  <2>. QED  BY <1>0, <1>8, <2>1, Induct
<1>. QED  BY <1>0, <1>7, <1>10 DEF T

\* The cells from the cursor on, each from the one num after it.
charStep(t, num, u, x) ==
  IF x + num < Cols THEN copyCell(u, t.y, x, x + num)
  ELSE eraseCells(u, {<<t.y, x>>})

\* delete_line marks what it moves.
LEMMA DeleteDraws ==
  ASSUME NEW t \in Terminals, NEW num \in Nat \ {0}
  PROVE  Drawn(t, delete_char(t, num))
<1>. DEFINE T == {u \in Terminals : Drawn(t, u)}
            n == Cols - t.x
            s == [k \in 1..n |-> t.x + k - 1]
            step == [p \in T \X (1..n) |-> charStep(t, num, p[1], s[p[2]])]
            iter == CHOOSE h : h = [S \in SUBSET (1..n) |->
                      IF S = {} THEN t
                      ELSE charStep(t, num, h[S \ {Max(S)}], s[Max(S)])]
<1>0. t.x \in 0..Cols - 1 /\ t.y \in Rows /\ Cols \in Nat /\ n \in Nat
  BY Places DEF Terminals, Records
<1>1. ASSUME NEW u \in T, NEW k \in 1..n PROVE charStep(t, num, u, s[k]) \in T
  <2>1. s[k] \in Columns /\ (s[k] + num < Cols => s[k] + num \in Columns)
    BY <1>0 DEF Columns
  <2>. HIDE DEF s
  <2>2. Drawn(u, charStep(t, num, u, s[k]))
    <3>1. CASE s[k] + num < Cols
      <4>1. Drawn(u, copyCell(u, t.y, s[k], s[k] + num))
        BY <1>0, <2>1, <3>1, CopyDraws
      <4>. QED  BY <3>1, <4>1 DEF charStep
    <3>2. CASE ~(s[k] + num < Cols)
      <4>1. {<<t.y, s[k]>>} \in SUBSET (Rows \X Columns)
        BY <1>0, <2>1
      <4>2. Drawn(u, eraseCells(u, {<<t.y, s[k]>>}))
        BY <4>1, EraseDraws
      <4>. QED  BY <3>2, <4>2 DEF charStep
    <3>. QED  BY <3>1, <3>2
  <2>. QED  BY <2>2, DrawnTwice DEF Drawn
<1>2. t \in T
  BY DrawnOnce
<1>. HIDE DEF T, n, s
<1>3. step \in [T \X (1..n) -> T]
  BY <1>1
<1>4. PICK g \in [SUBSET (1..n) -> T] : Folded(g, t, step, n)
  <2>. HIDE DEF step
  <2>. QED  BY <1>0, <1>2, <1>3, FoldExists
<1>5. g = [S \in SUBSET (1..n) |->
             IF S = {} THEN t
             ELSE charStep(t, num, g[S \ {Max(S)}], s[Max(S)])]
  <2>1. ASSUME NEW S \in SUBSET (1..n), S # {}
        PROVE  g[S] = charStep(t, num, g[S \ {Max(S)}], s[Max(S)])
    <3>1. Max(S) \in 1..n
      BY <1>0, <2>1, Greatest
    <3>2. g[S \ {Max(S)}] \in T
      OBVIOUS
    <3>3. g[S] = step[<<g[S \ {Max(S)}], Max(S)>>]
      BY <1>4, <2>1 DEF Folded
    <3>. QED  BY <3>1, <3>2, <3>3
  <2>2. g[{}] = t
    BY <1>4 DEF Folded
  <2>. HIDE DEF step
  <2>. QED  BY <2>1, <2>2
<1>6. iter = [S \in SUBSET (1..n) |->
                IF S = {} THEN t
                ELSE charStep(t, num, iter[S \ {Max(S)}], s[Max(S)])]
  <2>. HIDE DEF step
  <2>. QED  BY <1>5
<1>7. delete_char(t, num) = iter[1..n]
  <2>1. DOMAIN s = 1..n
    BY DEF s
  <2>2. s = [k \in 1..Cols - t.x |-> t.x + k - 1]
    BY DEF s, n
  <2>3. delete_char(t, num) = FoldLeft(LAMBDA u, x : charStep(t, num, u, x), t, s)
    BY <2>2 DEF delete_char, charStep
  <2>. QED  BY <2>1, <2>3 DEF FoldLeft, MapThenFoldSet
<1>. HIDE DEF iter, step
<1>. DEFINE A == {k \in 0..n : iter[1..k] \in T}
<1>8. 0 \in A
  <2>1. 1..0 = {} /\ {} \in SUBSET (1..n)
    OBVIOUS
  <2>. QED  BY <1>0, <1>2, <1>6, <2>1
<1>9. ASSUME NEW k \in 1..n, k - 1 \in A PROVE k \in A
  <2>1. /\ Max(1..k) = k /\ (1..k) \ {k} = 1..k - 1
        /\ 1..k \in SUBSET (1..n) /\ 1..k # {}
    BY <1>0, LastTurn
  <2>2. iter[1..k] = charStep(t, num, iter[(1..k) \ {Max(1..k)}], s[Max(1..k)])
    BY <1>6, <2>1
  <2>3. iter[1..k - 1] \in T
    BY <1>9
  <2>4. charStep(t, num, iter[1..k - 1], s[k]) \in T
    BY <1>1, <2>3
  <2>5. k \in 0..n
    BY <1>0
  <2>. QED  BY <2>1, <2>2, <2>4, <2>5
<1>10. \A k \in 0..n : k \in A
  <2>1. \A k \in 1..n : k - 1 \in A => k \in A
    BY <1>9
  <2>. HIDE DEF A
  <2>. QED  BY <1>0, <1>8, <2>1, Induct
<1>. QED  BY <1>0, <1>7, <1>10 DEF T


-----------------------------------------------------------------------------
(* The operations.                                                         *)

\* One after the other.
LEMMA KeptTwice ==
  ASSUME NEW t, NEW u, NEW v, Kept(t, u), Kept(u, v)
  PROVE  Kept(t, v)
BY DEF Kept, Draws

\* What is drawn is kept.
LEMMA DrawnKept == ASSUME NEW t, NEW u, Drawn(t, u) PROVE Kept(t, u)
BY DEF Drawn, Kept

\* What does nothing keeps.
LEMMA Stays == ASSUME NEW t \in Terminals PROVE Kept(t, t)
BY DEF Kept, Draws

\* The wrap before a character that does not fit.
LEMMA FoldKeeps ==
  ASSUME NEW t \in Terminals, NEW char
  PROVE  Kept(t, folded(t, char))
<1>. DEFINE u == setCursor(t, t.y, 0)
<1>1. Kept(t, u)
  <2>1. t.y \in Int /\ 0 \in Int
    BY Places
  <2>. QED  BY <2>1, SetWorks
<1>2. u \in Terminals
  BY <1>1 DEF Kept
<1>. HIDE DEF u
<1>3. Kept(u, moveCursor(u, 1, 0))
  <2>1. Room(u, 1) /\ 1 \in Int /\ 0 \in Int
    BY <1>2, Places DEF Room
  <2>. QED  BY <1>2, <2>1, MoveWorks
<1>4. Kept(t, moveCursor(u, 1, 0))
  BY <1>1, <1>3, KeptTwice
<1>. QED  BY <1>4, Stays DEF folded, u

\* What addch does before it writes.
LEMMA BeforeKeeps ==
  ASSUME NEW t \in Terminals, NEW char
  PROVE  Kept(t, beforeWrite(t, char)) /\ ~beforeWrite(t, char).wrap
<1>. DEFINE u == folded(t, char)
            v == folded(u, char)
            no == FALSE
            w == [v EXCEPT !.wrap = no]
<1>1. Kept(t, u)
  BY FoldKeeps
<1>2. u \in Terminals
  BY <1>1 DEF Kept
<1>. HIDE DEF u
<1>3. Kept(u, v)
  BY <1>2, FoldKeeps
<1>4. v \in Terminals
  BY <1>3 DEF Kept
<1>5. beforeWrite(t, char) = w
  BY DEF beforeWrite, u
<1>. HIDE DEF v
<1>6. no \in BOOLEAN /\ ~no
  OBVIOUS
<1>. HIDE DEF no
<1>7. Kept(v, w) /\ ~w.wrap
  BY <1>4, <1>6 DEF Kept, Draws, Terminals, Records
<1>. HIDE DEF w
<1>. QED  BY <1>1, <1>3, <1>5, <1>7, KeptTwice

\* addch.
LEMMA AddchKeeps ==
  ASSUME NEW t \in Terminals, NEW char \in Halfs \cup Wides
  PROVE  Kept(t, addch(t, char))
<1>. DEFINE u == beforeWrite(t, char)
            v == setCell(u, char)
            n == columnsOf(u, char)
<1>1. Kept(t, u)
  BY BeforeKeeps
<1>2. u \in Terminals
  BY <1>1 DEF Kept
<1>. HIDE DEF u
<1>3. Kept(u, v) /\ v \in Terminals
  BY <1>2, SetDraws, DrawnKept DEF Kept
<1>4. n \in Int
  BY DEF columnsOf
<1>. HIDE DEF v, n
<1>5. Kept(v, moveCursor(v, 0, n))
  <2>1. ~AtMargin(v, 0) /\ 0 \in Int
    BY <1>3, Places DEF AtMargin
  <2>. QED  BY <1>3, <1>4, <2>1, MoveWorks
<1>6. addch(t, char) = moveCursor(v, 0, n)
  BY DEF addch, u, v, n
<1>. QED  BY <1>1, <1>3, <1>5, <1>6, KeptTwice

\* Movements that scroll by a line at most.
LEMMA MoveOne ==
  ASSUME NEW t \in Terminals, NEW dy \in {-1, 0, 1}, NEW dx \in Int
  PROVE  Kept(t, moveCursor(t, dy, dx))
<1>1. dy \in Int /\ Room(t, dy)
  BY Places DEF Room
<1>. QED  BY <1>1, MoveWorks

\* set_cursor.
LEMMA SetKeeps ==
  ASSUME NEW t \in Terminals, NEW y \in Int, NEW x \in Int
  PROVE  Kept(t, setCursor(t, y, x))
BY SetWorks

\* cr.
LEMMA CrKeeps == ASSUME NEW t \in Terminals PROVE Kept(t, cr(t))
<1>1. t.y \in Int /\ 0 \in Int
  BY Places
<1>. QED  BY <1>1, SetKeeps DEF cr

\* tab.
LEMMA TabKeeps == ASSUME NEW t \in Terminals PROVE Kept(t, tab(t))
<1>. DEFINE stops == {x \in t.tabs : x > t.x}
            col == IF stops = {} THEN Cols - 1 ELSE Min(stops)
<1>1. stops \in SUBSET Nat
  BY Sizes DEF Terminals, Records
<1>2. t.y \in Int /\ Cols - 1 \in Int
  BY Places
<1>. HIDE DEF stops
<1>3. CASE stops # {}
  <2>1. PICK n \in stops : \A m \in stops : n <= m
    BY <1>1, <1>3, Least
  <2>2. Min(stops) \in stops
    BY <2>1 DEF Min
  <2>. QED  BY <1>1, <1>2, <1>3, <2>2, SetKeeps DEF tab, stops
<1>4. CASE stops = {}
  BY <1>2, <1>4, SetKeeps DEF tab, stops
<1>. QED  BY <1>3, <1>4

\* The control characters.
LEMMA ControlKeeps ==
  ASSUME NEW t \in Terminals, NEW c \in {"BS", "HT", "LF", "CR"}
  PROVE  Kept(t, control(t, c))
<1>1. CASE c = "BS"
  <2>1. Kept(t, moveCursor(t, 0, -1)) /\ Kept(t, moveCursor(t, 0, -2))
    BY MoveOne
  <2>. QED  BY <1>1, <2>1 DEF control, bs
<1>2. CASE c = "HT"
  BY <1>2, TabKeeps DEF control
<1>3. CASE c = "LF"
  BY <1>3, MoveOne DEF control, nl
<1>4. CASE c = "CR"
  BY <1>4, CrKeeps DEF control
<1>. QED  BY <1>1, <1>2, <1>3, <1>4

\* reset.
LEMMA ResetKeeps == ASSUME NEW t \in Terminals PROVE Kept(t, reset(t))
<1>. DEFINE S == (0..t.lines - 1) \X Columns
            u == eraseCells(t, S)
            no == FALSE
            saved == [y |-> 0, x |-> 0, origin |-> no]
            tabs == {x \in Columns : x % TabStop = 0}
            bottom == t.lines - 1
            v == [u EXCEPT !.mode = {"amright"}, !.wrap = no, !.top = 0, !.bottom = bottom,
                           !.x = 0, !.y = 0, !.saved = saved, !.tabs = tabs]
<1>1. t.lines \in 2..Lines /\ Lines \in Nat /\ Cols \in Nat /\ Cols >= 2
  BY Places
<1>2. Drawn(t, u)
  <2>1. S \in SUBSET (Rows \X Columns)
    BY <1>1 DEF Rows
  <2>. QED  BY <2>1, EraseDraws
<1>3. reset(t) = v
  BY DEF reset
<1>4. u \in Terminals
  BY <1>2 DEF Drawn
<1>. HIDE DEF u
<1>5. 0 \in Rows /\ 0 \in Columns /\ bottom \in Rows /\ 0 < bottom
  BY <1>1 DEF Rows, Columns
<1>6. no \in BOOLEAN
  OBVIOUS
<1>. HIDE DEF no, bottom
<1>7. saved \in Positions /\ tabs \in SUBSET Columns
  BY <1>5, <1>6 DEF Positions
<1>. HIDE DEF saved, tabs
<1>8. Kept(u, v)
  BY <1>4, <1>5, <1>6, <1>7 DEF Kept, Draws, Terminals, Records
<1>. HIDE DEF v
<1>. QED  BY <1>2, <1>3, <1>8, DrawnKept, KeptTwice

\* The escape sequences of one character.
LEMMA EscapeKeeps ==
  ASSUME NEW t \in Terminals, NEW c \in {"7", "8", "D", "E", "H", "M", "c"}
  PROVE  Kept(t, escape(t, c))
<1>1. CASE c = "7"
  <2>. DEFINE saved == [y |-> t.y, x |-> t.x, origin |-> "origin" \in t.mode]
  <2>1. escape(t, c) = [t EXCEPT !.saved = saved]
    BY <1>1 DEF escape, save_state
  <2>2. saved \in Positions
    <3>. DEFINE origin == "origin" \in t.mode
    <3>1. origin \in BOOLEAN
      OBVIOUS
    <3>2. saved = [y |-> t.y, x |-> t.x, origin |-> origin]
      OBVIOUS
    <3>. HIDE DEF origin, saved
    <3>. QED  BY <3>1, <3>2 DEF Positions, Terminals, Records
  <2>. HIDE DEF saved
  <2>. QED  BY <2>1, <2>2 DEF Kept, Draws, Terminals, Records
<1>2. CASE c = "8"
  <2>. DEFINE mode == IF t.saved.origin THEN t.mode \cup {"origin"} ELSE t.mode \ {"origin"}
  <2>1. escape(t, c) = [t EXCEPT !.y = t.saved.y, !.x = t.saved.x, !.mode = mode]
    BY <1>2 DEF escape, restore_state, Terminals, Records
  <2>2. mode \in SUBSET {"origin", "amright", "vwbs"} /\ t.saved.y \in Rows /\ t.saved.x \in Columns
    BY DEF Terminals, Records, Positions
  <2>. HIDE DEF mode
  <2>. QED  BY <2>1, <2>2 DEF Kept, Draws, Terminals, Records
<1>3. CASE c = "D"
  BY <1>3, MoveOne DEF escape, nl
<1>4. CASE c = "E"
  <2>. DEFINE u == cr(t)
  <2>1. Kept(t, u) /\ u \in Terminals
    BY CrKeeps DEF Kept
  <2>. HIDE DEF u
  <2>2. Kept(u, moveCursor(u, 1, 0))
    BY <2>1, MoveOne
  <2>3. Kept(t, moveCursor(u, 1, 0))
    BY <2>1, <2>2, KeptTwice
  <2>. QED  BY <1>4, <2>3 DEF escape, nl, u
<1>5. CASE c = "H"
  <2>1. escape(t, c) = [t EXCEPT !.tabs = t.tabs \cup {t.x}]
    BY <1>5 DEF escape, set_tabstop, Terminals, Records
  <2>. QED  BY <2>1 DEF Kept, Draws, Terminals, Records
<1>6. CASE c = "M"
  BY <1>6, MoveOne DEF escape
<1>7. CASE c = "c"
  BY <1>7, ResetKeeps DEF escape
<1>. QED  BY <1>1, <1>2, <1>3, <1>4, <1>5, <1>6, <1>7

-----------------------------------------------------------------------------
(* Sequences with parameters.                                              *)

\* The sum of one parameter, which stands for 1 if it is 0.
LEMMA OneParameter ==
  ASSUME NEW n \in Nat
  PROVE  atLeastOne(<<n>>) = IF n = 0 THEN 1 ELSE n
<1>. DEFINE s == <<n>>
            iter == CHOOSE h : h = [S \in SUBSET (1..1) |->
                      IF S = {} THEN 0 ELSE h[S \ {Max(S)}] + s[Max(S)]]
            g == [S \in SUBSET (1..1) |-> IF S = {} THEN 0 ELSE n]
            sum == FoldLeft(LAMBDA a, b : a + b, 0, s)
<1>1. Max(1..1) = 1 /\ (1..1) \ {1} = {} /\ 1..1 \in SUBSET (1..1) /\ 1..1 # {}
  <2>1. 1 \in Nat /\ 1 \in 1..1
    OBVIOUS
  <2>2. Max(1..1) = 1
    BY <2>1, LastTurn
  <2>. QED  BY <2>2
<1>2. \A S \in SUBSET (1..1) : S # {} => S = 1..1
  <2>1. 1..1 = {1}
    OBVIOUS
  <2>. QED  BY <2>1
<1>3. g = [S \in SUBSET (1..1) |-> IF S = {} THEN 0 ELSE g[S \ {Max(S)}] + s[Max(S)]]
  <2>1. g[{}] = 0 /\ s[1] = n /\ 0 + n = n
    OBVIOUS
  <2>2. \A S \in SUBSET (1..1) : S # {} => g[S \ {Max(S)}] + s[Max(S)] = n
    BY <1>1, <1>2, <2>1
  <2>. QED  BY <2>2
<1>4. iter = [S \in SUBSET (1..1) |-> IF S = {} THEN 0 ELSE iter[S \ {Max(S)}] + s[Max(S)]]
  <2>. HIDE DEF g
  <2>. QED  BY <1>3
<1>5. sum = iter[1..1]
  <2>1. DOMAIN s = 1..1
    OBVIOUS
  <2>. QED  BY <2>1 DEF FoldLeft, MapThenFoldSet
<1>6. iter[1..1] = n
  <2>1. {} \in SUBSET (1..1) /\ s[1] = n
    OBVIOUS
  <2>2. iter[{}] = 0
    BY <1>4, <2>1
  <2>. HIDE DEF iter
  <2>3. iter[1..1] = iter[(1..1) \ {Max(1..1)}] + s[Max(1..1)]
    BY <1>1, <1>4
  <2>4. iter[1..1] = iter[{}] + n
    BY <1>1, <2>1, <2>3
  <2>. QED  BY <2>2, <2>4
<1>7. atLeastOne(<<n>>) = IF sum <= 0 THEN 1 ELSE sum
  BY DEF atLeastOne, FoldLeft, MapThenFoldSet
<1>8. sum = n
  BY <1>5, <1>6
<1>. HIDE DEF sum
<1>. QED  BY <1>7, <1>8

\* One sequence.
LEMMA CsiIs ==
  ASSUME NEW t, NEW parm
  PROVE  /\ csi(t, "@", parm) = insert_blank(t, atLeastOne(parm))
         /\ csi(t, "A", parm) = moveCursor(t, -atLeastOne(parm), 0)
         /\ csi(t, "B", parm) = moveCursor(t, atLeastOne(parm), 0)
         /\ csi(t, "C", parm) = moveCursor(t, 0, atLeastOne(parm))
         /\ csi(t, "D", parm) = moveCursor(t, 0, -atLeastOne(parm))
         /\ csi(t, "E", parm) = cr(moveCursor(t, atLeastOne(parm), 0))
         /\ csi(t, "F", parm) = cr(moveCursor(t, -atLeastOne(parm), 0))
         /\ csi(t, "G", parm) = setCursor(t, t.y, lastOr0(parm) - 1)
         /\ csi(t, "d", parm) = setCursor(t, lastOr0(parm) - 1, t.x)
         /\ csi(t, "H", parm) = curs_pos(t, parm)
         /\ csi(t, "J", parm) = erase_display(t, lastOr0(parm))
         /\ csi(t, "K", parm) = erase_line(t, lastOr0(parm))
         /\ csi(t, "L", parm) = scrollLines(t, -atLeastOne(parm))
         /\ csi(t, "M", parm) = scrollLines(t, atLeastOne(parm))
         /\ csi(t, "P", parm) = delete_char(t, atLeastOne(parm))
         /\ csi(t, "X", parm) = erase_char(t, atLeastOne(parm))
         /\ csi(t, "g", parm) = clear_tabstop(t, parm)
         /\ csi(t, "r", parm) = set_margin(t, parm)
BY DEF csi

\* Erasing any cells.
LEMMA EraseKeeps ==
  ASSUME NEW t \in Terminals, NEW S \in SUBSET (Rows \X Columns)
  PROVE  Kept(t, eraseCells(t, S))
BY EraseDraws, DrawnKept

\* erase_char.
LEMMA EraseCharKeeps ==
  ASSUME NEW t \in Terminals, NEW num \in Nat
  PROVE  Kept(t, erase_char(t, num))
<1>. DEFINE lastCol == clamp(t.x + num, 0, Cols) - 1
            S == {<<t.y, x>> : x \in t.x..lastCol}
<1>1. t.x \in 0..Cols - 1 /\ Cols \in Nat /\ t.y \in Rows
  BY Places DEF Terminals, Records
<1>2. lastCol \in Int /\ lastCol <= Cols - 1
  <2>1. t.x + num \in Int /\ 0 \in Int /\ Cols \in Int /\ 0 <= Cols
    BY <1>1
  <2>2. clamp(t.x + num, 0, Cols) \in 0..Cols
    BY <2>1, ClampIn
  <2>. QED  BY <1>1, <2>2
<1>. HIDE DEF lastCol
<1>3. S \in SUBSET (Rows \X Columns)
  <2>1. \A x \in t.x..lastCol : x \in Columns
    BY <1>1, <1>2 DEF Columns
  <2>. QED  BY <1>1, <2>1
<1>4. erase_char(t, num) = eraseCells(t, S)
  BY DEF erase_char, lastCol
<1>. HIDE DEF S
<1>. QED  BY <1>3, <1>4, EraseKeeps

\* erase_line.
LEMMA EraseLineKeeps ==
  ASSUME NEW t \in Terminals, NEW mode
  PROVE  Kept(t, erase_line(t, mode))
<1>. DEFINE S == {<<t.y, x>> : x \in {x \in Columns : inMode(mode, x, t.x)}}
<1>1. S \in SUBSET (Rows \X Columns)
  BY DEF Terminals, Records
<1>2. erase_line(t, mode) = t \/ erase_line(t, mode) = eraseCells(t, S)
  BY DEF erase_line
<1>. HIDE DEF S
<1>. QED  BY <1>1, <1>2, EraseKeeps, Stays

\* erase_display.
LEMMA EraseDisplayKeeps ==
  ASSUME NEW t \in Terminals, NEW mode
  PROVE  Kept(t, erase_display(t, mode))
<1>. DEFINE rows == IF mode = 1 THEN 0..t.y ELSE 0..t.lines - 1
            S == {cell \in rows \X Columns :
                    inMode(mode, cell[1] * Cols + cell[2], t.y * Cols + t.x)}
            u == eraseCells(t, S)
            yes == TRUE
            v == [u EXCEPT !.clear = yes]
<1>1. S \in SUBSET (Rows \X Columns)
  <2>1. rows \subseteq Rows
    BY Places DEF Rows
  <2>. QED  BY <2>1
<1>2. erase_display(t, mode) = t \/ erase_display(t, mode) = v
  BY DEF erase_display
<1>. HIDE DEF S
<1>3. Kept(t, u) /\ u \in Terminals
  BY <1>1, EraseKeeps DEF Kept
<1>4. yes \in BOOLEAN
  OBVIOUS
<1>. HIDE DEF u, yes
<1>5. Kept(u, v)
  BY <1>3, <1>4 DEF Kept, Draws, Terminals, Records
<1>. HIDE DEF v
<1>. QED  BY <1>2, <1>3, <1>5, KeptTwice, Stays

\* insert_line and delete_line.
LEMMA ScrollLinesKeeps ==
  ASSUME NEW t \in Terminals, NEW offset \in Int \ {0},
         t.bottom - offset + 1 >= 0, t.y - offset <= Lines
  PROVE  Kept(t, scrollLines(t, offset))
<1>1. t.y \in Rows /\ t.bottom \in Rows /\ t.y \in Int /\ t.bottom \in Int
  BY Places DEF Rows
<1>2. CASE t.y < t.bottom
  <2>1. Kept(t, scroll(t, t.y, t.bottom, offset))
    BY <1>1, <1>2, ScrollWorks, DrawnKept
  <2>. QED  BY <2>1, Stays DEF scrollLines
<1>3. CASE ~(t.y < t.bottom)
  <2>1. t.y >= t.bottom
    BY <1>1, <1>3
  <2>2. scroll(t, t.y, t.bottom, offset) = t
    BY <2>1 DEF scroll
  <2>. QED  BY <2>2, Stays DEF scrollLines
<1>. QED  BY <1>2, <1>3

\* curs_pos and its kin.
LEMMA PositionKeeps ==
  ASSUME NEW t \in Terminals, NEW parm \in {<<>>} \cup (Nat \X Nat)
  PROVE  Kept(t, curs_pos(t, parm))
<1>1. CASE parm = <<>>
  <2>1. 0 \in Int /\ Len(parm) # 2
    BY <1>1
  <2>2. curs_pos(t, parm) = setCursor(t, 0, 0)
    BY <1>1, <2>1 DEF curs_pos
  <2>. QED  BY <2>1, <2>2, SetKeeps
<1>2. CASE parm \in Nat \X Nat
  <2>. DEFINE from0(n) == IF n < 1 THEN 0 ELSE n - 1
  <2>1. Len(parm) = 2 /\ parm # <<>> /\ from0(parm[1]) \in Int /\ from0(parm[2]) \in Int
    <3>1. PICK m \in Nat, n \in Nat : parm = <<m, n>>
      BY <1>2
    <3>2. Len(parm) = 2 /\ parm # <<>> /\ parm[1] = m /\ parm[2] = n
      BY <3>1
    <3>. QED  BY <3>2
  <2>2. curs_pos(t, parm) = setCursor(t, from0(parm[1]), from0(parm[2]))
    BY <2>1 DEF curs_pos
  <2>. HIDE DEF from0
  <2>. QED  BY <2>1, <2>2, SetKeeps
<1>. QED  BY <1>1, <1>2

\* set_margin.
LEMMA MarginKeeps ==
  ASSUME NEW t \in Terminals, NEW parm \in {<<>>} \cup (Nat \X Nat)
  PROVE  Kept(t, set_margin(t, parm))
<1>. DEFINE line(n, default) == IF n - 1 \in 0..t.lines - 1 THEN n - 1 ELSE default
            top == IF parm = <<>> THEN 0 ELSE line(parm[1], 0)
            bottom == IF parm = <<>> THEN t.lines - 1 ELSE line(parm[2], t.lines - 1)
            u == [t EXCEPT !.top = top, !.bottom = bottom]
<1>0. t.lines \in 2..Lines /\ Lines \in Nat
  BY Places
<1>1. top \in Rows /\ bottom \in Rows /\ top \in Int /\ bottom \in Int
  BY <1>0 DEF Rows
<1>2. \/ set_margin(t, parm) = t
      \/ top < bottom /\ set_margin(t, parm) = setCursor(u, 0, 0)
  BY <1>1 DEF set_margin
<1>. HIDE DEF top, bottom
<1>3. CASE top < bottom /\ set_margin(t, parm) = setCursor(u, 0, 0)
  <2>1. Kept(t, u) /\ u \in Terminals
    BY <1>1, <1>3 DEF Kept, Draws, Terminals, Records
  <2>. HIDE DEF u
  <2>2. Kept(u, setCursor(u, 0, 0))
    <3>1. 0 \in Int
      OBVIOUS
    <3>. QED  BY <2>1, <3>1, SetKeeps
  <2>. QED  BY <1>3, <2>1, <2>2, KeptTwice
<1>. QED  BY <1>2, <1>3, Stays

\* set_mode and reset_mode.
LEMMA ModeKeeps ==
  ASSUME NEW t \in Terminals, NEW number
  PROVE  Kept(t, set_mode(t, number)) /\ Kept(t, reset_mode(t, number))
<1>. DEFINE u == [t EXCEPT !.mode = t.mode \cup Mode(number)]
            v == [t EXCEPT !.mode = t.mode \ Mode(number)]
            no == FALSE
            w == [v EXCEPT !.wrap = no]
<1>1. Mode(number) \in SUBSET {"origin", "amright", "vwbs"}
  BY DEF Mode
<1>2. Kept(t, u) /\ Kept(t, v) /\ u \in Terminals /\ v \in Terminals
  BY <1>1 DEF Kept, Draws, Terminals, Records
<1>3. /\ set_mode(t, number) = IF number = 6 THEN setCursor(u, 0, 0) ELSE u
      /\ reset_mode(t, number) \in {v, w, setCursor(v, 0, 0)}
  BY DEF set_mode, reset_mode, Terminals, Records
<1>. HIDE DEF u, v
<1>4. Kept(u, setCursor(u, 0, 0)) /\ Kept(v, setCursor(v, 0, 0))
  <2>1. 0 \in Int
    OBVIOUS
  <2>. QED  BY <1>2, <2>1, SetKeeps
<1>5. Kept(v, w)
  <2>1. no \in BOOLEAN
    OBVIOUS
  <2>. HIDE DEF no
  <2>. QED  BY <1>2, <2>1 DEF Kept, Draws, Terminals, Records
<1>. HIDE DEF w
<1>. QED  BY <1>2, <1>3, <1>4, <1>5, KeptTwice

\* clear_tabstop.
LEMMA TabsKeep ==
  ASSUME NEW t \in Terminals, NEW parm
  PROVE  Kept(t, clear_tabstop(t, parm))
<1>. DEFINE tabs == CASE lastOr0(parm) = 0 -> t.tabs \ {t.x}
                      [] lastOr0(parm) = 3 -> {}
                      [] OTHER -> t.tabs
<1>1. clear_tabstop(t, parm) = [t EXCEPT !.tabs = tabs]
  BY DEF clear_tabstop, Terminals, Records
<1>2. tabs \in SUBSET Columns
  BY DEF Terminals, Records
<1>. HIDE DEF tabs
<1>. QED  BY <1>1, <1>2 DEF Kept, Draws, Terminals, Records

\* A new number of lines.
LEMMA ResizeKeeps ==
  ASSUME NEW t \in Terminals, NEW lines \in Heights
  PROVE  Kept(t, term_resize(t, lines))
<1>. DEFINE bottom == lines - 1
            u == [t EXCEPT !.lines = lines, !.top = 0, !.bottom = bottom]
<1>1. bottom \in Rows /\ 0 \in Rows /\ 0 < bottom
  BY TerminalAssumption DEF TerminalAssumption, Rows
<1>2. term_resize(t, lines) = t \/ term_resize(t, lines) = u
  BY DEF term_resize
<1>. HIDE DEF bottom
<1>3. Kept(t, u)
  BY <1>1 DEF Kept, Draws, Terminals, Records
<1>. HIDE DEF u
<1>. QED  BY <1>2, <1>3, Stays

-----------------------------------------------------------------------------
(* The terminal.                                                           *)

\* A number of lines for which the terminal is defined.
LEMMA NumberFits ==
  ASSUME NEW t \in Terminals, NEW n \in Nat, NEW num, num = IF n = 0 THEN 1 ELSE n
  PROVE  /\ num \in Nat \ {0} /\ num \in Int \ {0} /\ -num \in Int \ {0}
         /\ Defined(t, n) => /\ Room(t, num) /\ Room(t, -num)
                             /\ t.bottom - num + 1 >= 0 /\ t.y + num <= Lines
BY Places DEF Defined, Room

\* The control sequences of one number.
LEMMA NumberKeeps ==
  ASSUME NEW t \in Terminals, NEW n \in Nat,
         NEW c \in {"@", "A", "B", "C", "D", "E", "F", "G", "d", "P", "X"},
         c \in {"A", "B", "E", "F"} => Defined(t, n)
  PROVE  Kept(t, csi(t, c, <<n>>))
<1>. DEFINE num == atLeastOne(<<n>>)
            parm == <<n>>
<1>1. num = (IF n = 0 THEN 1 ELSE n) /\ lastOr0(parm) = n /\ 0 \in Int
  BY OneParameter DEF lastOr0
<1>. HIDE DEF num
<1>2. /\ num \in Nat \ {0} /\ num \in Int /\ -num \in Int /\ num \in Nat
      /\ Defined(t, n) => Room(t, num) /\ Room(t, -num)
  BY <1>1, NumberFits
<1>3. ~AtMargin(t, 0)
  BY Places DEF AtMargin
<1>4. t.y \in Int /\ t.x \in Int /\ n - 1 \in Int
  BY Places
<1>. HIDE DEF parm
<1>5. CASE c = "@"
  <2>1. Kept(t, insert_blank(t, num))
    BY <1>2, InsertDraws, DrawnKept
  <2>. QED  BY <1>5, <2>1, CsiIs DEF num, parm
<1>6. CASE c = "P"
  <2>1. Kept(t, delete_char(t, num))
    BY <1>2, DeleteDraws, DrawnKept
  <2>. QED  BY <1>6, <2>1, CsiIs DEF num, parm
<1>7. CASE c = "X"
  <2>1. Kept(t, erase_char(t, num))
    BY <1>2, EraseCharKeeps
  <2>. QED  BY <1>7, <2>1, CsiIs DEF num, parm
<1>8. CASE c = "C" \/ c = "D"
  <2>1. Kept(t, moveCursor(t, 0, num)) /\ Kept(t, moveCursor(t, 0, -num))
    BY <1>1, <1>2, <1>3, MoveWorks
  <2>. QED  BY <1>8, <2>1, CsiIs DEF num, parm
<1>9. CASE c = "G" \/ c = "d"
  <2>1. Kept(t, setCursor(t, t.y, n - 1)) /\ Kept(t, setCursor(t, n - 1, t.x))
    BY <1>4, SetKeeps
  <2>2. /\ csi(t, "G", parm) = setCursor(t, t.y, n - 1)
        /\ csi(t, "d", parm) = setCursor(t, n - 1, t.x)
    BY <1>1, CsiIs
  <2>. QED  BY <1>9, <2>1, <2>2 DEF parm
<1>10. ASSUME NEW dy \in {num, -num}, c \in {"A", "B", "E", "F"}
       PROVE  Kept(t, moveCursor(t, dy, 0)) /\ Kept(t, cr(moveCursor(t, dy, 0)))
  <2>1. dy \in Int /\ Room(t, dy)
    BY <1>2, <1>10
  <2>2. Kept(t, moveCursor(t, dy, 0))
    BY <1>1, <2>1, MoveWorks
  <2>. DEFINE u == moveCursor(t, dy, 0)
  <2>3. u \in Terminals
    BY <2>2 DEF Kept
  <2>. HIDE DEF u
  <2>4. Kept(u, cr(u))
    BY <2>3, CrKeeps
  <2>. QED  BY <2>2, <2>4, KeptTwice DEF u
<1>11. CASE c = "A" \/ c = "B"
  BY <1>10, <1>11, CsiIs DEF num, parm
<1>12. CASE c = "E" \/ c = "F"
  BY <1>10, <1>12, CsiIs DEF num, parm
<1>. QED  BY <1>5, <1>6, <1>7, <1>8, <1>9, <1>11, <1>12

\* insert_line and delete_line as received.
LEMMA ScrollKeeps ==
  ASSUME NEW t \in Terminals, NEW n \in Nat, NEW c \in {"L", "M"}, Defined(t, n)
  PROVE  Kept(t, csi(t, c, <<n>>))
<1>. DEFINE num == atLeastOne(<<n>>)
            parm == <<n>>
<1>1. num = IF n = 0 THEN 1 ELSE n
  BY OneParameter
<1>. HIDE DEF num
<1>2. /\ num \in Int \ {0} /\ -num \in Int \ {0} /\ num \in Nat
      /\ t.bottom - num + 1 >= 0 /\ t.y + num <= Lines
  BY <1>1, NumberFits
<1>3. Kept(t, scrollLines(t, num))
  <2>1. t.y - num <= Lines
    BY <1>2, Places
  <2>. QED  BY <1>2, <2>1, ScrollLinesKeeps
<1>4. Kept(t, scrollLines(t, -num))
  <2>1. t.bottom - (-num) + 1 >= 0 /\ t.y - (-num) <= Lines
    BY <1>2, Places
  <2>. QED  BY <1>2, <2>1, ScrollLinesKeeps
<1>. HIDE DEF parm
<1>. QED  BY <1>3, <1>4, CsiIs DEF num, parm

\* Whatever is received.
LEMMA TerminalKeeps ==
  ASSUME term \in Terminals, TerminalNext
  PROVE  Kept(term, term') \/ Refresh
<1>. DEFINE t == term
<1>1. Numbers \subseteq Nat /\ 0 \in Nat
  BY TerminalAssumption DEF TerminalAssumption
<1>2. CASE Character
  BY <1>2, AddchKeeps DEF Character
<1>3. CASE Control
  BY <1>3, ControlKeeps DEF Control
<1>4. CASE Escape
  BY <1>4, EscapeKeeps DEF Escape
<1>5. CASE CsiNumber
  BY <1>1, <1>5, NumberKeeps DEF CsiNumber
<1>6. CASE CsiScroll
  BY <1>1, <1>6, ScrollKeeps DEF CsiScroll
<1>7. CASE CsiErase
  <2>1. PICK c \in {"J", "K"}, n \in 0..2 : term' = csi(term, c, <<n>>)
    BY <1>7 DEF CsiErase
  <2>. DEFINE parm == <<n>>
  <2>2. /\ Kept(term, erase_display(term, lastOr0(parm)))
        /\ Kept(term, erase_line(term, lastOr0(parm)))
    BY EraseDisplayKeeps, EraseLineKeeps
  <2>3. term' = csi(term, c, parm)
    BY <2>1
  <2>. HIDE DEF parm
  <2>. QED  BY <2>2, <2>3, CsiIs
<1>8. CASE CsiPosition
  <2>1. PICK c \in {"H", "r"}, parm \in {<<>>} \cup (Numbers \X Numbers) :
          term' = csi(term, c, parm)
    BY <1>8 DEF CsiPosition
  <2>2. parm \in {<<>>} \cup (Nat \X Nat)
    BY <1>1, <2>1
  <2>3. Kept(term, curs_pos(term, parm)) /\ Kept(term, set_margin(term, parm))
    BY <2>2, PositionKeeps, MarginKeeps
  <2>. QED  BY <2>1, <2>3, CsiIs
<1>9. CASE CsiMode
  BY <1>9, ModeKeeps DEF CsiMode
<1>10. CASE CsiTabs
  <2>1. PICK n \in {0, 3} : term' = csi(term, "g", <<n>>)
    BY <1>10 DEF CsiTabs
  <2>. DEFINE parm == <<n>>
  <2>2. term' = csi(term, "g", parm)
    BY <2>1
  <2>. HIDE DEF parm
  <2>. QED  BY <2>2, TabsKeep, CsiIs
<1>11. CASE Resize
  BY <1>11, ResizeKeeps DEF Resize
<1>. QED  BY <1>2, <1>3, <1>4, <1>5, <1>6, <1>7, <1>8, <1>9, <1>10, <1>11 DEF TerminalNext

\* refresh draws the marked lines, and only then unmarks them.
LEMMA RefreshKeeps ==
  ASSUME term \in Terminals, Refresh
  PROVE  term' \in Terminals /\ term'.cells = term.cells
<1>. DEFINE no == FALSE
            dirty == term.dirty \ (0..term.lines - 1)
<1>1. term' = [term EXCEPT !.dirty = dirty, !.clear = no]
  BY DEF Refresh, Terminals, Records
<1>2. no \in BOOLEAN /\ dirty \in SUBSET Rows
  BY DEF Terminals, Records
<1>. HIDE DEF no, dirty
<1>. QED  BY <1>1, <1>2 DEF Terminals, Records

\* The terminal at the start.
LEMMA TerminalStart == TerminalInit => term \in Terminals
<1>. SUFFICES ASSUME TerminalInit PROVE term \in Terminals
  OBVIOUS
<1>. DEFINE no == FALSE
            blank == [y \in Rows |-> [x \in Columns |-> Erased]]
            t == [cells |-> blank, lines |-> Lines, dirty |-> {}, clear |-> no, mode |-> {},
                  wrap |-> no, top |-> 0, bottom |-> 0, x |-> 0, y |-> 0,
                  saved |-> <<>>, tabs |-> {}]
            S == (0..Lines - 1) \X Columns
            cells == [y \in Rows |-> [x \in Columns |->
                        IF <<y, x>> \in S THEN Erased ELSE blank[y][x]]]
            dirty == {} \cup {cell[1] : cell \in S}
            saved == [y |-> 0, x |-> 0, origin |-> no]
            tabs == {x \in Columns : x % TabStop = 0}
            bottom == Lines - 1
            mode == {"amright"}
<1>1. term = reset(t)
  BY DEF TerminalInit
<1>2. term = [cells |-> cells, lines |-> Lines, dirty |-> dirty, clear |-> no, mode |-> mode,
              wrap |-> no, top |-> 0, bottom |-> bottom, x |-> 0, y |-> 0,
              saved |-> saved, tabs |-> tabs]
  BY <1>1 DEF reset, eraseCells
<1>3. cells \in [Rows -> [Columns -> Cells]] /\ dirty \in SUBSET Rows
  BY DEF Cells, Erased, Cell, Rows
<1>4. no \in BOOLEAN /\ tabs \in SUBSET Columns /\ mode \in SUBSET {"origin", "amright", "vwbs"}
  OBVIOUS
<1>5. 0 \in Rows /\ 0 \in Columns /\ bottom \in Rows /\ 0 < bottom /\ Lines \in Heights
  BY TerminalAssumption DEF TerminalAssumption, Rows, Columns
<1>. HIDE DEF cells, dirty, no, tabs, bottom, mode
<1>6. saved \in Positions
  BY <1>4, <1>5 DEF Positions
<1>. HIDE DEF saved
<1>. QED  BY <1>2, <1>3, <1>4, <1>5, <1>6 DEF Terminals, Records

\* The records of the terminal, by the inductive invariant.
LEMMA TerminalTyped == TerminalInit /\ [][TerminalNext]_terminalVars => [](term \in Terminals)
<1>1. term \in Terminals /\ [TerminalNext]_terminalVars => (term \in Terminals)'
  <2>. SUFFICES ASSUME term \in Terminals, [TerminalNext]_terminalVars PROVE term' \in Terminals
    OBVIOUS
  <2>. QED  BY TerminalKeeps, RefreshKeeps DEF Kept, terminalVars
<1>. QED  BY <1>1, TerminalStart, PTL

\* The cursor, the margins and the tab stops stay within the screen, and every
\* cell holds a character, whatever is received (terminal.cpp, esc.h, csi.h).
THEOREM TerminalTypes == TerminalSpec => []TerminalTypeOK
<1>1. term \in Terminals => TerminalTypeOK
  BY DEF Terminals, Records, Cells, Positions, TerminalTypeOK
<1>. QED  BY <1>1, TerminalTyped, PTL DEF TerminalSpec

\* A line whose cells change is marked to be drawn, whatever changes them
\* (erase_cell, copy_cell, set_cell, scroll), and unmarked only once it is drawn
\* (refresh).
THEOREM TerminalDrawsChanges == TerminalSpec => ChangesAreDrawn
<1>. DEFINE Marked == \A y \in Rows : term'.cells[y] # term.cells[y] => y \in term'.dirty
<1>1. term \in Terminals /\ [TerminalNext]_terminalVars => [Marked]_term
  BY TerminalKeeps, RefreshKeeps DEF Kept, Draws, terminalVars
<1>. QED  BY <1>1, TerminalTyped, PTL DEF TerminalSpec, ChangesAreDrawn

\* insert_line and delete_line move the lines below the cursor together, as far
\* as the margins, and blank those that come in (scroll).
THEOREM TerminalMovesLines == TerminalSpec => LinesMoveTogether
<1>. DEFINE Together ==
       op' = "scroll" /\ term'.cells # term.cells =>
         \E n \in Numbers \cup {1} : \E offset \in {n, -n} :
           \A y \in term.y..term.bottom :
             term'.cells[y] = IF y + offset \in term.y..term.bottom
                              THEN term.cells[y + offset]
                              ELSE [x \in Columns |-> Erased]
<1>1. ASSUME term \in Terminals, TerminalNext PROVE Together
  <2>. SUFFICES ASSUME op' = "scroll", term'.cells # term.cells PROVE Together
    OBVIOUS
  <2>1. CsiScroll
    BY <1>1 DEF TerminalNext, Character, Control, Escape, CsiNumber, CsiErase, CsiPosition,
                CsiMode, CsiTabs, Resize, Refresh, Receive
  <2>2. PICK c \in {"L", "M"}, n \in Numbers : Defined(term, n) /\ term' = csi(term, c, <<n>>)
    BY <2>1 DEF CsiScroll
  <2>. DEFINE num == atLeastOne(<<n>>)
              parm == <<n>>
              offset == IF c = "M" THEN num ELSE -num
  <2>3. n \in Nat
    BY TerminalAssumption DEF TerminalAssumption
  <2>4. num = IF n = 0 THEN 1 ELSE n
    BY <2>3, OneParameter
  <2>5. term' = scrollLines(term, offset)
    <3>1. term' = csi(term, c, parm) /\ num = atLeastOne(parm)
      BY <2>2
    <3>. HIDE DEF parm, num
    <3>. QED  BY <3>1, CsiIs
  <2>. HIDE DEF num
  <2>6. /\ num \in Int \ {0} /\ -num \in Int \ {0} /\ num \in Nat
        /\ term.bottom - num + 1 >= 0 /\ term.y + num <= Lines
    BY <1>1, <2>2, <2>3, <2>4, NumberFits
  <2>7. /\ offset \in Int \ {0} /\ term.bottom - offset + 1 >= 0 /\ term.y - offset <= Lines
        /\ term.y \in Rows /\ term.bottom \in Rows /\ term.y \in Int /\ term.bottom \in Int
    BY <1>1, <2>6, Places DEF Rows
  <2>8. num \in Numbers \cup {1} /\ offset \in {num, -num}
    BY <2>2, <2>4
  <2>. HIDE DEF offset
  <2>. DEFINE u == scroll(term, term.y, term.bottom, offset)
  <2>9. term' = u /\ term.y < term.bottom
    BY <2>5, <2>7 DEF scrollLines, scroll
  <2>10. Scrolled(term, u, term.y, term.bottom, offset)
    BY <1>1, <2>7, <2>9, ScrollWorks
  <2>. HIDE DEF u
  <2>11. \A y \in term.y..term.bottom :
            term'.cells[y] = IF y + offset \in term.y..term.bottom
                             THEN term.cells[y + offset] ELSE BlankLine
    BY <1>1, <2>7, <2>9, <2>10, Places DEF Scrolled, Rows
  <2>. QED  BY <2>8, <2>11 DEF BlankLine
<1>2. term \in Terminals /\ [TerminalNext]_terminalVars => [Together]_terminalVars
  BY <1>1
<1>. QED  BY <1>2, TerminalTyped, PTL DEF TerminalSpec, LinesMoveTogether

-----------------------------------------------------------------------------
(* The flow of text.                                                       *)

\* Of the cells only those of a line from a column on may differ.
Elsewhere(t, u, y, x) ==
  /\ \A r \in Rows : r # y => u.cells[r] = t.cells[r]
  /\ \A c \in Columns : c < x => u.cells[y][c] = t.cells[y][c]

\* One after the other.
LEMMA ElsewhereTwice ==
  ASSUME NEW t, NEW u, NEW v, NEW y, NEW x, Elsewhere(t, u, y, x), Elsewhere(u, v, y, x)
  PROVE  Elsewhere(t, v, y, x)
BY DEF Elsewhere

\* A cell that is put is there, and only it.
LEMMA PutWorks ==
  ASSUME NEW t \in Terminals, NEW y \in Rows, NEW x \in Columns, NEW z \in Columns,
         z <= x, NEW cell
  PROVE  LET u == put(t, y, x, cell)
         IN  Elsewhere(t, u, y, z) /\ u.cells[y][x] = cell
<1>. DEFINE u == put(t, y, x, cell)
<1>1. u.cells = [t.cells EXCEPT ![y][x] = cell] /\ t.cells \in [Rows -> [Columns -> Cells]]
  BY DEF put, Terminals, Records
<1>2. \A c \in Columns : c < z => c # x
  BY Sizes
<1>. HIDE DEF u
<1>3. Elsewhere(t, u, y, z) /\ u.cells[y][x] = cell
  BY <1>1, <1>2 DEF Elsewhere
<1>. QED  BY <1>3 DEF u

\* The number of columns a character takes.
sizeOf(char) == IF char \in Wides THEN 2 ELSE 1

\* What setCell does where there is room for the character.
Wrote(t, u, n) ==
  /\ u \in Terminals /\ SameRest(t, u) /\ Elsewhere(t, u, t.y, t.x)
  /\ u.cells[t.y][t.x].width = IF n = 2 THEN "wide" ELSE "half"

\* set_cell writes where the cursor stands, and to the right of it.
LEMMA SetCellWorks ==
  ASSUME NEW t \in Terminals, NEW char \in Halfs \cup Wides, t.x + sizeOf(char) <= Cols
  PROVE  columnsOf(t, char) = sizeOf(char) /\ Wrote(t, setCell(t, char), sizeOf(char))
<1>. DEFINE v == setCell(t, char)
            y == t.y
            x == t.x
<1>1. y \in Rows /\ x \in Columns /\ x \in Nat /\ Cols \in Nat
  BY Sizes DEF Terminals, Records
<1>2. columnsOf(t, char) = sizeOf(char)
  BY <1>1 DEF columnsOf, sizeOf
<1>3. v \in Terminals /\ SameRest(t, v)
  BY SetDraws DEF Drawn
<1>4. CASE char \in Wides
  <2>. DEFINE left == Cell(char, "wide")  right == Cell(char, "next")
              u == put(t, y, x, left)
  <2>1. v = put(u, y, x + 1, right)
    BY <1>2, <1>4 DEF setCell, putWide, sizeOf
  <2>2. x + 1 \in Columns /\ x <= x + 1 /\ x <= x /\ x < x + 1 /\ x + 1 <= x + 1
    BY <1>1, <1>4 DEF Columns, sizeOf
  <2>3. left \in Cells
    BY DEF Cell, Cells
  <2>4. left.width = "wide"
    BY DEF Cell
  <2>. HIDE DEF left, right
  <2>5. u \in Terminals
    BY <1>1, <2>3, PutDraws DEF Drawn
  <2>6. Elsewhere(t, u, y, x) /\ u.cells[y][x] = left
    BY <1>1, <2>2, PutWorks
  <2>. HIDE DEF u
  <2>7. Elsewhere(u, v, y, x) /\ Elsewhere(u, v, y, x + 1)
    BY <1>1, <2>1, <2>2, <2>5, PutWorks
  <2>8. v.cells[y][x] = left
    BY <1>1, <2>2, <2>6, <2>7 DEF Elsewhere
  <2>9. Elsewhere(t, v, y, x)
    BY <2>6, <2>7, ElsewhereTwice
  <2>. QED  BY <1>2, <1>3, <1>4, <2>4, <2>8, <2>9 DEF Wrote, sizeOf
<1>5. CASE char \notin Wides
  <2>. DEFINE cell == Cell(char, "half")
              u == put(t, y, x, cell)
  <2>1. cell \in Cells /\ cell.width = "half"
    BY <1>5 DEF Cell, Cells
  <2>2. \/ v = u
        \/ x + 1 < Cols /\ v = eraseCells(u, {<<y, x + 1>>})
    BY <1>2, <1>5 DEF setCell, sizeOf
  <2>. HIDE DEF cell
  <2>3. Elsewhere(t, u, y, x) /\ u.cells[y][x] = cell /\ u \in Terminals
    BY <1>1, <2>1, PutWorks, PutDraws DEF Drawn
  <2>. HIDE DEF u
  <2>4. ASSUME x + 1 < Cols, v = eraseCells(u, {<<y, x + 1>>})
        PROVE  Elsewhere(t, v, y, x) /\ v.cells[y][x] = cell
    <3>1. v.cells = [r \in Rows |-> [c \in Columns |->
                       IF <<r, c>> \in {<<y, x + 1>>} THEN Erased ELSE u.cells[r][c]]]
      BY <2>3, <2>4, ErasedCells
    <3>2. u.cells \in [Rows -> [Columns -> Cells]]
      BY <2>3 DEF Terminals, Records
    <3>3. \A c \in Columns : c <= x => c # x + 1
      BY <1>1, Sizes
    <3>4. \A r \in Rows, c \in Columns : v.cells[r][c] =
            IF <<r, c>> = <<y, x + 1>> THEN Erased ELSE u.cells[r][c]
      BY <3>1
    <3>5. v.cells \in [Rows -> [Columns -> Cells]]
      BY <1>3 DEF Terminals, Records
    <3>6. \A r \in Rows : r # y => v.cells[r] = u.cells[r]
      <4>. SUFFICES ASSUME NEW r \in Rows, r # y PROVE v.cells[r] = u.cells[r]
        OBVIOUS
      <4>1. \A c \in Columns : v.cells[r][c] = u.cells[r][c]
        BY <3>4
      <4>. QED  BY <3>2, <3>5, <4>1
    <3>7. \A c \in Columns : c <= x => v.cells[y][c] = u.cells[y][c]
      BY <1>1, <3>3, <3>4
    <3>8. Elsewhere(u, v, y, x) /\ v.cells[y][x] = u.cells[y][x]
      BY <1>1, <3>6, <3>7, Sizes DEF Elsewhere
    <3>. QED  BY <2>3, <3>8, ElsewhereTwice
  <2>5. Elsewhere(t, v, y, x) /\ v.cells[y][x] = cell
    BY <2>2, <2>3, <2>4, ElsewhereTwice
  <2>. QED  BY <1>2, <1>3, <1>5, <2>1, <2>5 DEF Wrote, sizeOf
<1>. QED  BY <1>4, <1>5

\* The line that a character goes to when there is no room in the cursor's.
Broken(t, u) ==
  /\ u.x = 0
  /\ \/ t.y = t.bottom /\ u.y = t.y /\ Scrolled(t, u, t.top, t.bottom, 1)
     \/ t.y # t.bottom /\ u.y = clamp(t.y + 1, 0, t.lines - 1) /\ u.cells = t.cells

\* The wrap before a character: to the next line, or by a scroll at the bottom margin.
LEMMA FoldWorks ==
  ASSUME NEW t \in Terminals, NEW char, folds(t, char)
  PROVE  /\ folded(t, char).x = 0 /\ folded(t, char).mode = t.mode
         /\ "origin" \notin t.mode /\ t.y < t.lines => Broken(t, folded(t, char))
<1>. DEFINE u == setCursor(t, t.y, 0)
            v == moveCursor(u, 1, 0)
<1>1. /\ t.y \in Int /\ 0 \in Int /\ 1 \in Int /\ t.y \in Nat /\ t.lines \in Int
      /\ Cols \in Int /\ Cols >= 2
  BY Places
<1>2. Kept(t, u) /\ Set(t, u, t.y, 0)
  BY <1>1, SetWorks
<1>3. u \in Terminals
  BY <1>2 DEF Kept
<1>. HIDE DEF u
<1>4. Kept(u, v) /\ Moved(u, v, 1, 0)
  <2>1. Room(u, 1)
    BY <1>3, Places DEF Room
  <2>. QED  BY <1>1, <1>3, <2>1, MoveWorks
<1>5. folded(t, char) = v
  BY DEF folded, u
<1>. HIDE DEF v
<1>6. u.x = 0 /\ v.x = 0
  BY <1>1, <1>2, <1>4 DEF Set, Moved, clamp
<1>7. v.mode = t.mode
  BY <1>2, <1>4 DEF Set, Moved
<1>8. ASSUME "origin" \notin t.mode, t.y < t.lines PROVE Broken(t, v)
  <2>1. /\ u.y = t.y /\ u.cells = t.cells
        /\ u.top = t.top /\ u.bottom = t.bottom /\ u.lines = t.lines
    BY <1>1, <1>2, <1>8 DEF Set, clamp
  <2>2. AtMargin(u, 1) <=> t.y = t.bottom
    BY <2>1 DEF AtMargin
  <2>3. Scrolled(u, v, t.top, t.bottom, 1) <=> Scrolled(t, v, t.top, t.bottom, 1)
    BY <2>1 DEF Scrolled
  <2>. QED  BY <1>4, <1>6, <2>1, <2>2, <2>3 DEF Moved, Broken
<1>. QED  BY <1>5, <1>6, <1>7, <1>8

\* The terminal when the character is about to be written.
Ready(t, u, char) ==
  /\ u \in Terminals /\ ~u.wrap /\ u.mode = t.mode /\ u.x + sizeOf(char) <= Cols
  /\ ~folds(t, char) => u.cells = t.cells /\ u.x = t.x /\ u.y = t.y
  /\ folds(t, char) /\ "origin" \notin t.mode /\ t.y < t.lines => Broken(t, u)

\* What addch finds before it writes: room for the character.
LEMMA BeforeWorks ==
  ASSUME NEW t \in Terminals, NEW char
  PROVE  Ready(t, beforeWrite(t, char), char)
<1>. DEFINE u == folded(t, char)
            w == beforeWrite(t, char)
<1>1. u \in Terminals
  BY FoldKeeps DEF Kept
<1>2. folds(t, char) => u.x = 0 /\ u.mode = t.mode
  BY FoldWorks
<1>3. ~folds(t, char) => u = t
  BY DEF folded
<1>4. "origin" \notin t.mode /\ t.y < t.lines /\ folds(t, char) => Broken(t, u)
  BY FoldWorks
<1>5. w = [folded(u, char) EXCEPT !.wrap = FALSE]
  BY DEF beforeWrite
<1>. HIDE DEF u
<1>6. ~folds(u, char)
  <2>1. Cols - 1 # 0
    BY Sizes
  <2>. QED  BY <1>2, <1>3, <2>1 DEF folds
<1>7. w = [u EXCEPT !.wrap = FALSE]
  BY <1>5, <1>6 DEF folded
<1>8. w \in Terminals /\ ~w.wrap
  BY BeforeKeeps DEF Kept
<1>. HIDE DEF w
<1>9. w.cells = u.cells /\ w.x = u.x /\ w.y = u.y /\ w.mode = u.mode
  BY <1>1, <1>7 DEF Terminals, Records
<1>10. w.x + sizeOf(char) <= Cols
  BY <1>1, <1>6, <1>9, Places DEF folds, sizeOf
<1>11. Broken(t, u) => Broken(t, w)
  BY <1>9 DEF Broken, Scrolled
<1>12. Ready(t, w, char)
  BY <1>2, <1>3, <1>4, <1>8, <1>9, <1>10, <1>11 DEF Ready
<1>. QED  BY <1>12 DEF w

\* The cursor right after a character of n columns at a place.
Stands(t, place, n) ==
  /\ place \in Rows \X Columns /\ n \in 1..2 /\ place[2] + n <= Cols
  /\ place[1] < t.lines => t.y = place[1]
  /\ t.x = clamp(place[2] + n, 0, Cols - 1)
  /\ t.wrap <=> place[2] + n = Cols /\ "amright" \in t.mode
  /\ t.cells[place[1]][place[2]].width = IF n = 2 THEN "wide" ELSE "half"

\* addch writes the character and goes on behind it.
LEMMA AddchWorks ==
  ASSUME NEW t \in Terminals, NEW char \in Halfs \cup Wides
  PROVE  LET u == beforeWrite(t, char)
         IN  /\ Stands(addch(t, char), <<u.y, u.x>>, sizeOf(char))
             /\ Elsewhere(u, addch(t, char), u.y, u.x)
<1>. DEFINE u == beforeWrite(t, char)
            v == setCell(u, char)
            n == sizeOf(char)
            w == addch(t, char)
<1>1. u \in Terminals /\ ~u.wrap /\ u.x + n <= Cols
  BY BeforeWorks DEF Ready
<1>2. w = moveCursor(v, 0, columnsOf(u, char))
  BY DEF addch
<1>. HIDE DEF u, w
<1>3. columnsOf(u, char) = n /\ Wrote(u, v, n)
  BY <1>1, SetCellWorks
<1>. HIDE DEF v
<1>4. n \in 1..2
  BY DEF sizeOf
<1>. HIDE DEF n
<1>5. v \in Terminals /\ SameRest(u, v)
  BY <1>3 DEF Wrote
<1>6. ~AtMargin(v, 0) /\ 0 \in Int /\ n \in Int
  BY <1>4, <1>5, Places DEF AtMargin
<1>7. Kept(v, w) /\ Moved(v, w, 0, n)
  BY <1>2, <1>3, <1>5, <1>6, MoveWorks
<1>8. /\ u.y \in Rows /\ u.x \in Columns /\ u.x \in Int /\ Cols \in Int
      /\ v.y \in Int /\ v.lines \in Int /\ v.y >= 0
  <2>1. u.y \in Rows /\ u.x \in Columns
    BY <1>1 DEF Terminals, Records
  <2>2. u.x \in 0..Cols - 1 /\ Cols \in Nat
    BY <1>1, Places
  <2>3. v.y \in 0..Lines - 1 /\ v.lines \in 2..Lines /\ Lines \in Nat
    BY <1>5, Places
  <2>. QED  BY <2>1, <2>2, <2>3
<1>9. w.cells = v.cells /\ w.y = clamp(v.y + 0, 0, v.lines - 1)
  BY <1>6, <1>7 DEF Moved
<1>10. /\ u.y < w.lines => w.y = u.y
       /\ w.x = clamp(u.x + n, 0, Cols - 1) /\ w.mode = u.mode
       /\ w.wrap <=> u.x + n = Cols /\ "amright" \in w.mode
  <2>1. w.x = clamp(v.x + n, 0, Cols - 1) /\ w.mode = v.mode /\ w.lines = v.lines
        /\ (w.wrap <=> v.wrap \/ (v.x + n >= Cols /\ "amright" \in v.mode))
    BY <1>7 DEF Moved
  <2>2. v.x = u.x /\ v.y = u.y /\ v.mode = u.mode /\ v.wrap = u.wrap
    BY <1>5 DEF SameRest
  <2>3. u.x + n >= Cols <=> u.x + n = Cols
    BY <1>1, <1>6, <1>8
  <2>4. v.y < v.lines => w.y = v.y
    BY <1>8, <1>9 DEF clamp
  <2>. QED  BY <1>1, <2>1, <2>2, <2>3, <2>4
<1>11. Elsewhere(u, w, u.y, u.x)
  BY <1>3, <1>9 DEF Wrote, Elsewhere
<1>12. w.cells[u.y][u.x].width = IF n = 2 THEN "wide" ELSE "half"
  BY <1>3, <1>9 DEF Wrote
<1>. DEFINE place == <<u.y, u.x>>
<1>13. place \in Rows \X Columns /\ place[1] = u.y /\ place[2] = u.x
  BY <1>8
<1>. HIDE DEF place
<1>14. Stands(w, place, n)
  BY <1>1, <1>4, <1>10, <1>12, <1>13 DEF Stands
<1>. QED  BY <1>11, <1>14 DEF place, u, w, n

\* Between two characters, the cursor stands after the first.
Printed == op = "print" => \E n \in 1..2 : Stands(term, last, n)

\* A step that prints.
LEMMA CharacterPrints ==
  ASSUME term \in Terminals, Character
  PROVE  /\ \E n \in 1..2 : Stands(term', last', n)
         /\ \E char \in Halfs \cup Wides : \E u :
              /\ Ready(term, u, char) /\ last' = <<u.y, u.x>>
              /\ Stands(term', last', sizeOf(char)) /\ Elsewhere(u, term', u.y, u.x)
<1>1. PICK char \in Halfs \cup Wides :
        /\ term' = addch(term, char)
        /\ last' = <<beforeWrite(term, char).y, beforeWrite(term, char).x>>
  BY DEF Character
<1>. DEFINE u == beforeWrite(term, char)
<1>2. Ready(term, u, char)
  BY BeforeWorks
<1>3. Stands(term', last', sizeOf(char)) /\ Elsewhere(u, term', u.y, u.x)
  BY <1>1, AddchWorks
<1>4. last' = <<u.y, u.x>>
  BY <1>1
<1>. HIDE DEF u
<1>5. sizeOf(char) \in 1..2
  BY DEF sizeOf
<1>. QED  BY <1>2, <1>3, <1>4, <1>5

\* Nothing else prints.
LEMMA OnlyCharactersPrint ==
  ASSUME TerminalNext, op' = "print"
  PROVE  Character
BY DEF TerminalNext, Control, Escape, CsiNumber, CsiScroll, CsiErase, CsiPosition,
       CsiMode, CsiTabs, Resize, Refresh, Receive

\* A character of n columns stands at (y, x); another comes.
Comes(t, u, v, char, y, x, n, place) ==
  /\ Stands(t, <<y, x>>, n) /\ Ready(t, u, char) /\ place = <<u.y, u.x>>
  /\ Stands(v, place, sizeOf(char)) /\ Elsewhere(u, v, u.y, u.x)
  /\ "amright" \in t.mode /\ "origin" \notin t.mode /\ y < t.lines
  /\ t.y # t.lines - 1 \/ t.bottom = t.lines - 1

Follows(t, v, y, x, n, size, place) ==
  IF x + n + size <= Cols
  THEN place = <<y, x + n>> /\ v.cells[y][x] = t.cells[y][x]
  ELSE \/ place = <<y + 1, 0>> /\ v.cells[y][x] = t.cells[y][x]
       \/ place = <<y, 0>> /\ y = t.bottom /\ v.cells[y - 1][x] = t.cells[y][x]

\* Where the next character comes, by where the last one stands.
LEMMA FlowsOn ==
  ASSUME NEW t \in Terminals, NEW u, NEW v, NEW char, NEW y, NEW x, NEW n, NEW place,
         Comes(t, u, v, char, y, x, n, place)
  PROVE  Follows(t, v, y, x, n, sizeOf(char), place)
<1>. USE DEF Comes, Follows
<1>1. /\ y \in Rows /\ x \in Columns /\ n \in 1..2 /\ x + n <= Cols
      /\ t.y = y /\ t.x = clamp(x + n, 0, Cols - 1)
      /\ t.wrap <=> x + n = Cols
  BY DEF Stands
<1>2. /\ y \in Nat /\ x \in Nat /\ Cols \in Nat /\ Cols >= 2 /\ sizeOf(char) \in 1..2
      /\ t.lines \in Nat /\ t.top \in Nat /\ t.bottom \in Nat /\ t.top < t.bottom
      /\ t.bottom <= Lines - 1 /\ Lines \in Nat /\ t.lines <= Lines
  BY <1>1, Places, Sizes DEF sizeOf
<1>3. ASSUME folds(t, char)
      PROVE  \/ place = <<y + 1, 0>> /\ v.cells[y][x] = t.cells[y][x]
             \/ place = <<y, 0>> /\ y = t.bottom /\ v.cells[y - 1][x] = t.cells[y][x]
  <2>1. Broken(t, u)
    BY <1>1, <1>3 DEF Ready
  <2>2. CASE /\ t.y = t.bottom /\ u.y = t.y /\ u.x = 0
             /\ Scrolled(t, u, t.top, t.bottom, 1)
    <3>1. /\ y - 1 \in t.top..t.bottom /\ y - 1 + 1 \in t.top..t.bottom
          /\ y - 1 + 1 = y /\ y - 1 # y /\ y - 1 \in Rows
      BY <1>1, <1>2, <2>2 DEF Rows
    <3>2. u.cells[y - 1] = t.cells[y]
      BY <2>2, <3>1 DEF Scrolled
    <3>3. v.cells[y - 1] = u.cells[y - 1]
      BY <1>1, <2>2, <3>1 DEF Elsewhere
    <3>. QED  BY <1>1, <2>2, <3>2, <3>3
  <2>3. CASE /\ t.y # t.bottom /\ u.y = clamp(t.y + 1, 0, t.lines - 1) /\ u.x = 0
             /\ u.cells = t.cells
    <3>1. u.y = y + 1 /\ y # y + 1
      BY <1>1, <1>2, <2>3 DEF clamp
    <3>2. v.cells[y] = u.cells[y]
      BY <1>1, <3>1 DEF Elsewhere
    <3>. QED  BY <2>3, <3>1, <3>2
  <2>. QED  BY <2>1, <2>2, <2>3 DEF Broken
<1>4. ASSUME ~folds(t, char), t.x = x + n
      PROVE  place = <<y, x + n>> /\ v.cells[y][x] = t.cells[y][x]
  <2>1. u.cells = t.cells /\ u.x = x + n /\ u.y = y
    BY <1>1, <1>4 DEF Ready
  <2>2. v.cells[y][x] = u.cells[y][x]
    BY <1>1, <1>2, <2>1 DEF Elsewhere
  <2>. QED  BY <2>1, <2>2
<1>5. CASE x + n < Cols
  <2>1. t.x = x + n
    BY <1>1, <1>2, <1>5 DEF clamp
  <2>2. folds(t, char) <=> x + n + sizeOf(char) > Cols
    BY <1>1, <1>2, <1>5, <2>1 DEF folds, sizeOf
  <2>3. folds(t, char) <=> ~(x + n + sizeOf(char) <= Cols)
    BY <1>1, <1>2, <2>2
  <2>. QED  BY <1>3, <1>4, <2>1, <2>3
<1>6. CASE x + n = Cols
  <2>1. folds(t, char) /\ ~(x + n + sizeOf(char) <= Cols)
    BY <1>1, <1>2, <1>6 DEF folds, clamp
  <2>. QED  BY <1>3, <2>1
<1>7. x + n < Cols \/ x + n = Cols
  BY <1>1, <1>2
<1>. QED  BY <1>5, <1>6, <1>7

\* The invariant of printing.
LEMMA TerminalPrints ==
  TerminalInit /\ [][TerminalNext]_terminalVars => [](term \in Terminals /\ Printed)
<1>1. TerminalInit => Printed
  BY DEF TerminalInit, Printed
<1>2. term \in Terminals /\ Printed /\ [TerminalNext]_terminalVars => Printed'
  BY OnlyCharactersPrint, CharacterPrints DEF Printed, terminalVars
<1>. QED  BY <1>1, <1>2, TerminalTyped, PTL

\* Of two characters one after the other the second comes behind the first, or at
\* the start of the next line where the first is full (addch, set_cursor,
\* move_cursor).
THEOREM TerminalTextFlows == TerminalSpec => TextFlows
<1>. DEFINE Flows == /\ op = "print" /\ op' = "print" /\ "amright" \in term.mode
                     /\ "origin" \notin term.mode /\ last[1] < term.lines
                     /\ term.y # term.lines - 1 \/ term.bottom = term.lines - 1
                     => Flow
<1>1. ASSUME term \in Terminals, Printed, TerminalNext PROVE Flows
  <2>. SUFFICES ASSUME op = "print", op' = "print", "amright" \in term.mode,
                       "origin" \notin term.mode, last[1] < term.lines,
                       term.y # term.lines - 1 \/ term.bottom = term.lines - 1
                PROVE  Flow
    OBVIOUS
  <2>1. PICK n \in 1..2 : Stands(term, last, n)
    BY <1>1 DEF Printed
  <2>2. PICK y \in Rows, x \in Columns : last = <<y, x>>
    BY <2>1 DEF Stands
  <2>8. PICK char \in Halfs \cup Wides :
          \E u : /\ Ready(term, u, char) /\ last' = <<u.y, u.x>>
                /\ Stands(term', last', sizeOf(char)) /\ Elsewhere(u, term', u.y, u.x)
    BY <1>1, OnlyCharactersPrint, CharacterPrints
  <2>3. PICK u : /\ Ready(term, u, char) /\ last' = <<u.y, u.x>>
                 /\ Stands(term', last', sizeOf(char)) /\ Elsewhere(u, term', u.y, u.x)
    BY <2>8
  <2>4. Follows(term, term', y, x, n, sizeOf(char), last')
    <3>1. Comes(term, u, term', char, y, x, n, last')
      BY <2>1, <2>2, <2>3 DEF Comes
    <3>. QED  BY <1>1, <3>1, FlowsOn
  <2>5. n = IF term.cells[y][x].width = "wide" THEN 2 ELSE 1
    BY <2>1, <2>2 DEF Stands
  <2>6. sizeOf(char) = IF term'.cells[last'[1]][last'[2]].width = "wide" THEN 2 ELSE 1
    BY <2>3 DEF Stands, sizeOf
  <2>7. y - 0 = y
    BY Sizes
  <2>. QED  BY <2>2, <2>4, <2>5, <2>6, <2>7 DEF Flow, Follows
<1>2. term \in Terminals /\ Printed /\ [TerminalNext]_terminalVars => [Flows]_terminalVars
  BY <1>1
<1>. QED  BY <1>2, TerminalPrints, PTL DEF TerminalSpec, TextFlows

-----------------------------------------------------------------------------
(* The parser.                                                             *)

\* Which characters are refused, by the bytes that encode them.
LEMMA OneByte == ASSUME NEW c \in 32..127 PROVE ~Noncharacter(c)
BY SMT DEF Noncharacter

\* Of two bytes: the noncharacters.
LEMMA TwoBytes ==
  ASSUME NEW c, c \in 0..2047
  PROVE  illegalPoint(c) <=> Noncharacter(c)
BY SMT DEF Noncharacter, illegalPoint

\* The noncharacters are not all that is refused.
LEMMA Refusals ==
  ASSUME NEW v
  PROVE  illegalPoint(v) <=> Noncharacter(v) \/ v \in 55296..57343 \/ v > 1114111
BY SMT DEF Noncharacter, illegalPoint

\* Of three bytes: the surrogates too.
LEMMA ThreeBytes ==
  ASSUME NEW l \in 224..239, NEW b \in Continuation, NEW c \in Continuation, NEW v,
         v = (l - 224) * 4096 + (b - 128) * 64 + c - 128
  PROVE  illegalPoint(v) <=> Noncharacter(v) \/ (l = 237 /\ b >= 160)
<1>1. v \in 55296..57343 <=> l = 237 /\ b >= 160
  BY SMT DEF Continuation
<1>2. ~(v > 1114111)
  BY SMT DEF Continuation
<1>. QED  BY <1>1, <1>2, Refusals

\* Of four bytes: what is beyond Unicode too.
LEMMA FourBytes ==
  ASSUME NEW l \in 240..247, NEW b \in Continuation, NEW c \in Continuation,
         NEW d \in Continuation, l = 240 => b >= 144, NEW v,
         v = (l - 240) * 262144 + (b - 128) * 4096 + (c - 128) * 64 + d - 128
  PROVE  illegalPoint(v) <=> Noncharacter(v) \/ ~(l <= 244 /\ (l = 244 => b <= 143))
<1>1. v \notin 55296..57343
  BY SMT DEF Continuation
<1>2. v > 1114111 <=> ~(l <= 244 /\ (l = 244 => b <= 143))
  BY SMT DEF Continuation
<1>. QED  BY <1>1, <1>2, Refusals

\* Of more bytes: all.
LEMMA MoreBytes == ASSUME NEW v \in Nat, v >= 2097152 PROVE illegalPoint(v)
BY SMT DEF illegalPoint

\* The text since the last byte that does not continue a character.
Run(s) == /\ s \in Seq(0..255) /\ Len(s) <= 4
          /\ \A j \in 2..Len(s) : s[j] \in Continuation

Ends(s) == {Scalar(z) : z \in {z \in {SubSeq(s, i, Len(s)) : i \in 1..Len(s)} : WellFormed(z)}}

\* No character starts with a byte that continues one.
LEMMA ContinuesNothing ==
  ASSUME NEW z, Len(z) \in {1, 2, 3, 4}, z[1] \in Continuation
  PROVE  ~WellFormed(z)
<1>0. z[1] \in 128..191
  BY DEF Continuation
<1>1. CASE Len(z) = 1
  BY <1>0, <1>1, SMT DEF WellFormed
<1>2. CASE Len(z) = 2
  BY <1>0, <1>2, SMT DEF WellFormed
<1>3. CASE Len(z) = 3
  BY <1>0, <1>3, SMT DEF WellFormed
<1>4. CASE Len(z) = 4
  BY <1>0, <1>4, SMT DEF WellFormed
<1>. QED  BY <1>1, <1>2, <1>3, <1>4

\* So a run ends in one character at most, the whole of it.
LEMMA OneEnding ==
  ASSUME NEW s, Run(s)
  PROVE  /\ s = <<>> => Ends(s) = {}
         /\ s # <<>> /\ WellFormed(s) => Ends(s) = {Scalar(s)}
         /\ s # <<>> /\ ~WellFormed(s) => Ends(s) = {}
<1>. DEFINE Parts == {SubSeq(s, i, Len(s)) : i \in 1..Len(s)}
<1>1. s \in Seq(0..255) /\ Len(s) \in Nat /\ Len(s) <= 4
  <2>1. s \in Seq(0..255) /\ Len(s) <= 4
    BY DEF Run
  <2>. QED  BY <2>1
<1>2. ASSUME NEW i \in 2..Len(s) PROVE ~WellFormed(SubSeq(s, i, Len(s)))
  <2>. DEFINE z == SubSeq(s, i, Len(s))
  <2>1. Len(z) \in {1, 2, 3, 4} /\ z[1] = s[i]
    BY <1>1
  <2>2. z[1] \in Continuation
    BY <2>1 DEF Run
  <2>. HIDE DEF z
  <2>3. ~WellFormed(z)
    BY <2>1, <2>2, ContinuesNothing
  <2>. QED  BY <2>3 DEF z
<1>3. CASE s = <<>>
  <2>1. Parts = {}
    BY <1>3
  <2>. QED  BY <1>3, <2>1 DEF Ends
<1>4. CASE s # <<>>
  <2>1. SubSeq(s, 1, Len(s)) = s /\ 1 \in 1..Len(s)
    BY <1>1, <1>4
  <2>2. \A z \in Parts : WellFormed(z) => z = s
    <3>1. ASSUME NEW i \in 1..Len(s), WellFormed(SubSeq(s, i, Len(s)))
          PROVE  SubSeq(s, i, Len(s)) = s
      <4>1. i \notin 2..Len(s)
        BY <1>2, <3>1
      <4>2. i = 1
        BY <1>1, <4>1
      <4>. QED  BY <2>1, <4>2
    <3>. QED  BY <3>1
  <2>3. s \in Parts
    BY <2>1
  <2>4. Ends(s) = {Scalar(z) : z \in {z \in Parts : WellFormed(z)}}
    BY DEF Ends
  <2>. HIDE DEF Parts
  <2>. QED  BY <1>4, <2>2, <2>3, <2>4
<1>. QED  BY <1>3, <1>4

-----------------------------------------------------------------------------
\* What the terminal is given.
Fits(s, o) ==
  LET chars == {c \in Ends(s) : ~Noncharacter(c)}
      shown == {o[i].code : i \in {i \in DOMAIN o : o[i].kind = "char"}}
  IN  /\ shown \subseteq chars \cup {REPLACEMENT_CHAR}
      /\ \A c \in chars : o # <<>> /\ o[Len(o)] = Char(c)[1]

codes(o) == {o[i].code : i \in {i \in DOMAIN o : o[i].kind = "char"}}

\* The characters among what is given: of nothing, and of one character.
LEMMA Codes == ASSUME NEW c PROVE codes(<<>>) = {} /\ codes(Char(c)) = {c}
BY DEF codes, Char

\* Of a control character or a sequence.
LEMMA NoCodes == ASSUME NEW k, k # "char", NEW c PROVE codes(Do(k, c)) = {}
BY DEF codes, Do

\* After a replacement.
LEMMA CodesAfter ==
  ASSUME NEW r, NEW k, NEW c
  PROVE  /\ codes(Char(r) \o Do(k, c)) = {r} \cup codes(Do(k, c))
         /\ Char(r) \o Do(k, c) # <<>>
         /\ LET o == Char(r) \o Do(k, c) IN o[Len(o)] = Do(k, c)[1]
<1>. DEFINE a == [kind |-> "char", code |-> r]
            b == [kind |-> k, code |-> c]
            o == <<a>> \o <<b>>
<1>1. DOMAIN o = {1, 2} /\ o[1] = a /\ o[2] = b /\ Len(o) = 2 /\ o # <<>>
  OBVIOUS
<1>2. a.kind = "char" /\ a.code = r
  OBVIOUS
<1>3. Char(r) \o Do(k, c) = o /\ Do(k, c)[1] = b
  BY DEF Char, Do
<1>4. codes(Do(k, c)) = IF b.kind = "char" THEN {b.code} ELSE {}
  BY DEF codes, Do
<1>. HIDE DEF a, b, o
<1>5. codes(o) = {r} \cup IF b.kind = "char" THEN {b.code} ELSE {}
  <2>1. codes(o) = {o[i].code : i \in {i \in {1, 2} : o[i].kind = "char"}}
    BY <1>1 DEF codes
  <2>2. {i \in {1, 2} : o[i].kind = "char"} = IF b.kind = "char" THEN {1, 2} ELSE {1}
    BY <1>1, <1>2
  <2>3. CASE b.kind = "char"
    BY <1>1, <1>2, <2>1, <2>2, <2>3
  <2>4. CASE b.kind # "char"
    BY <1>1, <1>2, <2>1, <2>2, <2>4
  <2>. QED  BY <2>3, <2>4
<1>. QED  BY <1>1, <1>3, <1>4, <1>5

\* Without one.
LEMMA Alone ==
  ASSUME NEW k, NEW c
  PROVE  /\ <<>> \o Do(k, c) = Do(k, c) /\ Do(k, c) # <<>>
         /\ Do(k, c)[Len(Do(k, c))] = Do(k, c)[1] /\ Char(c) = Do("char", c)
BY DEF Do, Char

\* Nothing encoded, and nothing but replacements shown.
LEMMA FitsNone ==
  ASSUME NEW s, \A c \in Ends(s) : Noncharacter(c), NEW o, codes(o) \subseteq {REPLACEMENT_CHAR}
  PROVE  Fits(s, o)
BY DEF Fits, codes

\* One character encoded, which is the last one shown.
LEMMA FitsOne ==
  ASSUME NEW s, NEW c, Ends(s) = {c}, ~Noncharacter(c), NEW o,
         codes(o) \subseteq {c, REPLACEMENT_CHAR}, o # <<>>, o[Len(o)] = Char(c)[1]
  PROVE  Fits(s, o)
BY DEF Fits, codes

-----------------------------------------------------------------------------
Charsets == [code : Nat, following : 0..5, count : 0..5, valid : BOOLEAN]

\* The text after a byte that continues a character.
longer(s, ch) == IF Len(s) = 4 THEN <<>> ELSE Append(s, ch)

grown(cs, ch) ==
  [cs EXCEPT !.valid = @ /\ ~illegal(cs, ch),
             !.code = (@ * 64) + (ch % 64), !.count = @ + 1]

\* A character of one, two or three following bytes after some of them, and
\* one of more, which encodes nothing.
Under1(cs, s) ==
  /\ cs.count = 0 /\ Len(s) = 1 /\ s[1] \in 192..223
  /\ cs.code = s[1] - 192 /\ cs.valid

Under2(cs, s) ==
  /\ cs.count \in 0..1 /\ Len(s) = cs.count + 1 /\ s[1] \in 224..239
  /\ cs.count = 0 => cs.code = s[1] - 224 /\ cs.valid
  /\ cs.count = 1 => /\ cs.code = (s[1] - 224) * 64 + s[2] - 128
                     /\ cs.valid <=> ~(s[1] = 224 /\ s[2] < 160)

Under3(cs, s) ==
  /\ cs.count \in 0..2 /\ Len(s) = cs.count + 1 /\ s[1] \in 240..247
  /\ cs.count = 0 => cs.code = s[1] - 240 /\ cs.valid
  /\ cs.count # 0 => (cs.valid <=> ~(s[1] = 240 /\ s[2] < 144))
  /\ cs.count = 1 => cs.code = (s[1] - 240) * 64 + s[2] - 128
  /\ cs.count = 2 => cs.code = (s[1] - 240) * 4096 + (s[2] - 128) * 64 + s[3] - 128

Under4(cs, s) ==
  /\ cs.count \in 0..3 /\ Len(s) = cs.count + 1 /\ s[1] \in 248..251
  /\ cs.count = 0 => cs.valid
  /\ cs.valid => /\ cs.count = 1 => cs.code >= 8
                 /\ cs.count = 2 => cs.code >= 512
                 /\ cs.count = 3 => cs.code >= 32768

Under5(cs, s) ==
  /\ cs.count \in 0..4
  /\ cs.count <= 3 => Len(s) = cs.count + 1 /\ s[1] \in 252..253
  /\ cs.count = 4 => s = <<>>
  /\ cs.count = 0 => cs.valid
  /\ cs.valid => /\ cs.count = 1 => cs.code >= 4
                 /\ cs.count = 2 => cs.code >= 256
                 /\ cs.count = 3 => cs.code >= 16384
                 /\ cs.count = 4 => cs.code >= 1048576

\* A text that no further byte makes a character of.
Full(s) ==
  s # <<>> => /\ s[1] \in 192..223 => Len(s) >= 2
              /\ s[1] \in 224..239 => Len(s) >= 3
              /\ s[1] \in 240..247 => Len(s) >= 4

Under(cs, s) ==
  /\ cs.following = 0 => cs = reset_charset /\ Full(s)
  /\ cs.following = 1 => Under1(cs, s)
  /\ cs.following = 2 => Under2(cs, s)
  /\ cs.following = 3 => Under3(cs, s)
  /\ cs.following = 4 => Under4(cs, s)
  /\ cs.following = 5 => Under5(cs, s)

\* One more byte, as a record.
LEMMA Grows ==
  ASSUME NEW cs \in Charsets, NEW ch \in Continuation, cs.count <= 4
  PROVE  LET u == grown(cs, ch)
         IN  /\ u \in Charsets /\ u.following = cs.following /\ u.count = cs.count + 1
             /\ u.code = cs.code * 64 + ch - 128
             /\ u.valid <=> cs.valid /\ ~illegal(cs, ch)
<1>. DEFINE ok == cs.valid /\ ~illegal(cs, ch)
            code == (cs.code * 64) + (ch % 64)
            count == cs.count + 1
            u == [cs EXCEPT !.valid = ok, !.code = code, !.count = count]
<1>1. grown(cs, ch) = u
  BY DEF grown, Charsets
<1>2. code \in Nat /\ code = cs.code * 64 + ch - 128
  <2>1. cs.code \in Nat
    BY DEF Charsets
  <2>2. ch % 64 = ch - 128 /\ ch \in Nat /\ ch >= 128
    BY DEF Continuation
  <2>. QED  BY <2>1, <2>2
<1>3. ok \in BOOLEAN /\ count \in 0..5
  BY DEF Charsets
<1>. HIDE DEF ok, code, count
<1>4. u \in Charsets /\ u.following = cs.following /\ u.count = count
      /\ u.code = code /\ u.valid = ok
  BY <1>2, <1>3 DEF Charsets
<1>. HIDE DEF u
<1>. QED  BY <1>1, <1>2, <1>4 DEF ok, count

\* What a continuing byte does.
LEMMA NextByte ==
  ASSUME NEW cs, NEW ch \in Continuation
  PROVE  LET u == grown(cs, ch)
         IN  utf8_charset(cs, ch) =
               IF u.count < u.following THEN <<u, <<>>>>
               ELSE <<reset_charset, Char(IF ~u.valid \/ illegalPoint(u.code)
                                          THEN REPLACEMENT_CHAR ELSE u.code)>>
<1>1. ch \in 128..191
  BY DEF Continuation
<1>. DEFINE u == grown(cs, ch)
            more == IF u.count < u.following THEN <<u, <<>>>>
                    ELSE <<reset_charset, Char(IF ~u.valid \/ illegalPoint(u.code)
                                               THEN REPLACEMENT_CHAR ELSE u.code)>>
            first == <<[cs EXCEPT !.code = lead(ch).code, !.following = lead(ch).following,
                                  !.count = 0], <<>>>>
            none == <<reset_charset, Char(REPLACEMENT_CHAR)>>
<1>2. utf8_charset(cs, ch) = CASE ch \in 128..191 -> more [] ch \in 192..253 -> first
                               [] ch \in 254..255 -> none
  BY DEF utf8_charset, grown
<1>. HIDE DEF first, none
<1>3. utf8_charset(cs, ch) = more
  <2>. HIDE DEF more
  <2>. QED  BY <1>1, <1>2, SMT
<1>. QED  BY <1>3

\* One more byte of text.
LEMMA Longer ==
  ASSUME NEW s, Run(s), NEW ch \in Continuation
  PROVE  /\ Run(longer(s, ch))
         /\ Len(s) = 4 => longer(s, ch) = <<>>
         /\ Len(s) < 4 => /\ Len(longer(s, ch)) = Len(s) + 1 /\ longer(s, ch) # <<>>
                          /\ longer(s, ch)[Len(s) + 1] = ch
                          /\ \A j \in 1..Len(s) : longer(s, ch)[j] = s[j]
<1>1. s \in Seq(0..255) /\ Len(s) <= 4 /\ Len(s) \in Nat
  <2>1. s \in Seq(0..255) /\ Len(s) <= 4
    BY DEF Run
  <2>. QED  BY <2>1
<1>. DEFINE w == longer(s, ch)
            len == Len(s)
<1>4. len <= 4 /\ len \in Nat /\ (len = 4 \/ len < 4) /\ (len < 4 => len # 4)
  <2>1. len <= 4 /\ len \in Nat
    BY <1>1
  <2>. HIDE DEF len
  <2>. QED  BY <2>1
<1>2. CASE Len(s) = 4
  <2>1. w = <<>>
    BY <1>2 DEF longer
  <2>2. Run(<<>>)
    BY DEF Run
  <2>. HIDE DEF w
  <2>. QED  BY <1>2, <2>1, <2>2 DEF w
<1>3. CASE Len(s) < 4
  <2>. DEFINE z == Append(s, ch)
  <2>1. ch \in 0..255
    BY DEF Continuation
  <2>2. z \in Seq(0..255) /\ Len(z) = Len(s) + 1 /\ z[Len(s) + 1] = ch /\ z # <<>>
        /\ \A j \in 1..Len(s) : z[j] = s[j]
    BY <1>1, <2>1
  <2>. HIDE DEF z
  <2>3. Len(z) <= 4
    BY <1>1, <1>3, <2>2
  <2>4. ASSUME NEW j \in 2..Len(z) PROVE z[j] \in Continuation
    <3>1. j \in 2..Len(s) \/ j = Len(s) + 1
      BY <1>1, <2>2
    <3>2. CASE j \in 2..Len(s)
      <4>1. s[j] \in Continuation
        BY <3>2 DEF Run
      <4>. QED  BY <1>1, <2>2, <3>2, <4>1
    <3>. QED  BY <2>2, <3>1, <3>2
  <2>5. Run(z)
    BY <2>2, <2>3, <2>4 DEF Run
  <2>6. longer(s, ch) = z
    BY <1>4, <1>3 DEF longer, z
  <2>. QED  BY <1>1, <1>3, <2>2, <2>5, <2>6
<1>. QED  BY <1>2, <1>3, <1>4

\* What UnderGrows and Completes know of the character before and after a byte.
Next(cs, s, ch, u, z) ==
  /\ u.following = cs.following /\ u.count = cs.count + 1
  /\ u.code = cs.code * 64 + ch - 128
  /\ u.valid <=> cs.valid /\ ~illegal(cs, ch)
  /\ Len(s) = 4 => z = <<>>
  /\ Len(s) < 4 => /\ Len(z) = Len(s) + 1 /\ z # <<>> /\ z[Len(s) + 1] = ch
                   /\ \A j \in 1..Len(s) : z[j] = s[j]
  /\ ch \in 128..191
  /\ \A j \in 2..Len(s) : s[j] \in 128..191
  /\ cs.code \in Nat /\ cs.following \in 0..5

\* One more byte, of the character and of the text.
LEMMA ByteNext ==
  ASSUME NEW cs \in Charsets, NEW s, Run(s), NEW ch \in Continuation, cs.count <= 4
  PROVE  /\ Next(cs, s, ch, grown(cs, ch), longer(s, ch))
         /\ grown(cs, ch) \in Charsets /\ Run(longer(s, ch))
<1>. DEFINE u == grown(cs, ch)
            z == longer(s, ch)
<1>1. /\ u \in Charsets /\ u.following = cs.following /\ u.count = cs.count + 1
      /\ u.code = cs.code * 64 + ch - 128
      /\ u.valid <=> cs.valid /\ ~illegal(cs, ch)
  BY Grows
<1>2. /\ Run(z)
      /\ Len(s) = 4 => z = <<>>
      /\ Len(s) < 4 => /\ Len(z) = Len(s) + 1 /\ z # <<>> /\ z[Len(s) + 1] = ch
                       /\ \A j \in 1..Len(s) : z[j] = s[j]
  BY Longer
<1>3. ch \in 128..191 /\ \A j \in 2..Len(s) : s[j] \in 128..191
  BY DEF Run, Continuation
<1>4. cs.code \in Nat /\ cs.following \in 0..5
  BY DEF Charsets
<1>. HIDE DEF u, z
<1>5. Next(cs, s, ch, u, z)
  BY <1>1, <1>2, <1>3, <1>4 DEF Next
<1>. QED  BY <1>1, <1>2, <1>5 DEF u, z

\* A second byte of three.
LEMMA Grows2 ==
  ASSUME NEW cs, NEW s, NEW ch, NEW u, NEW z, Next(cs, s, ch, u, z),
         cs.following = 2, cs.count = 0, Under2(cs, s)
  PROVE  Under2(u, z)
<1>1. Len(s) = 1 /\ s[1] \in 224..239 /\ cs.code = s[1] - 224 /\ cs.valid
  BY DEF Under2
<1>2. Len(z) = 2 /\ z[1] = s[1] /\ z[2] = ch /\ u.count = 1 /\ ch \in 128..191
  BY <1>1 DEF Next
<1>3. illegal(cs, ch) <=> cs.code = 0 /\ ch < 160
  BY DEF illegal
<1>4. illegal(cs, ch) <=> z[1] = 224 /\ z[2] < 160
  BY <1>1, <1>2, <1>3
<1>5. u.valid <=> ~(z[1] = 224 /\ z[2] < 160)
  BY <1>1, <1>4, Zenon DEF Next
<1>6. u.code = (z[1] - 224) * 64 + z[2] - 128
  BY <1>1, <1>2 DEF Next
<1>. QED  BY <1>1, <1>2, <1>5, <1>6 DEF Under2

\* The codes of three bytes.
LEMMA TwoDigits ==
  ASSUME NEW a \in Int, NEW b \in Int, NEW c \in Int
  PROVE  (a * 64 + b - 128) * 64 + c - 128 = a * 4096 + (b - 128) * 64 + c - 128
BY SMT

\* How large a code grows by a byte.
LEMMA Larger ==
  ASSUME NEW code \in Nat, NEW ch \in 128..191, NEW v, v = code * 64 + ch - 128
  PROVE  /\ v \in Nat
         /\ code > 0 => v >= 8
         /\ ch >= 132 => v >= 4
         /\ ch >= 136 => v >= 8
         /\ code >= 4 => v >= 256
         /\ code >= 8 => v >= 512
         /\ code >= 256 => v >= 16384
         /\ code >= 512 => v >= 32768
         /\ code >= 16384 => v >= 1048576
         /\ code >= 32768 => v >= 2097152
         /\ code >= 1048576 => v >= 2097152
BY SMT

\* A second or third byte of four.
LEMMA Grows3 ==
  ASSUME NEW cs, NEW s, NEW ch, NEW u, NEW z, Next(cs, s, ch, u, z),
         cs.following = 3, cs.count \in 0..1, Under3(cs, s)
  PROVE  Under3(u, z)
<1>1. Len(s) = cs.count + 1 /\ s[1] \in 240..247
  BY DEF Under3
<1>2. Len(z) = u.count + 1 /\ z[1] = s[1] /\ u.count = cs.count + 1 /\ u.count \in 1..2
      /\ z[u.count + 1] = ch /\ ch \in 128..191
  BY <1>1 DEF Next
<1>3. illegal(cs, ch) <=> cs.count = 0 /\ cs.code = 0 /\ ch < 144
  BY DEF illegal
<1>4. CASE cs.count = 0
  <2>1. cs.code = s[1] - 240 /\ cs.valid
    BY <1>4 DEF Under3
  <2>2. u.count = 1 /\ z[2] = ch
    BY <1>2, <1>4
  <2>3. illegal(cs, ch) <=> z[1] = 240 /\ z[2] < 144
    BY <1>1, <1>2, <1>3, <1>4, <2>1, <2>2
  <2>4. u.valid <=> ~(z[1] = 240 /\ z[2] < 144)
    BY <2>1, <2>3, Zenon DEF Next
  <2>5. u.code = (z[1] - 240) * 64 + z[2] - 128
    BY <1>1, <1>2, <2>1, <2>2 DEF Next
  <2>. QED  BY <1>1, <1>2, <2>2, <2>4, <2>5 DEF Under3
<1>5. CASE cs.count = 1
  <2>1. /\ cs.code = (s[1] - 240) * 64 + s[2] - 128
        /\ cs.valid <=> ~(s[1] = 240 /\ s[2] < 144)
    BY <1>5 DEF Under3
  <2>2. u.count = 2 /\ z[3] = ch /\ z[2] = s[2] /\ s[2] \in 128..191
    BY <1>1, <1>2, <1>5 DEF Next
  <2>3. ~illegal(cs, ch)
    BY <1>3, <1>5
  <2>4. u.valid <=> ~(z[1] = 240 /\ z[2] < 144)
    <3>1. s[1] = 240 /\ s[2] < 144 <=> z[1] = 240 /\ z[2] < 144
      BY <1>2, <2>2
    <3>2. u.valid <=> cs.valid
      BY <2>3, Zenon DEF Next
    <3>. QED  BY <2>1, <3>1, <3>2
  <2>5. u.code = cs.code * 64 + ch - 128
    BY DEF Next
  <2>6. u.code = (z[1] - 240) * 4096 + (z[2] - 128) * 64 + z[3] - 128
    <3>. DEFINE a == s[1] - 240
                b == s[2]
    <3>1. a \in Int /\ b \in Int /\ ch \in Int
      <4>1. s[1] \in 240..247
        BY <1>1
      <4>2. s[2] \in 128..191 /\ ch \in 128..191
        BY <1>2, <2>2
      <4>. QED  BY <4>1, <4>2
    <3>2. /\ u.code = (a * 64 + b - 128) * 64 + ch - 128
          /\ z[1] - 240 = a /\ z[2] = b /\ z[3] = ch
      BY <1>2, <2>1, <2>2, <2>5
    <3>. HIDE DEF a, b
    <3>3. u.code = a * 4096 + (b - 128) * 64 + ch - 128
      BY <3>1, <3>2, TwoDigits
    <3>. QED  BY <3>2, <3>3
  <2>. QED  BY <1>1, <1>2, <2>2, <2>4, <2>6, SMT DEF Under3
<1>. QED  BY <1>4, <1>5

\* A byte of five, not the last.
LEMMA Grows4 ==
  ASSUME NEW cs, NEW s, NEW ch, NEW u, NEW z, Next(cs, s, ch, u, z),
         cs.following = 4, cs.count \in 0..2, Under4(cs, s)
  PROVE  Under4(u, z)
<1>1. Len(s) = cs.count + 1 /\ s[1] \in 248..251
  BY DEF Under4
<1>2. Len(z) = u.count + 1 /\ z[1] = s[1] /\ u.count = cs.count + 1 /\ u.count \in 1..3
  BY <1>1 DEF Next
<1>3. illegal(cs, ch) <=> cs.count = 0 /\ cs.code = 0 /\ ch < 136
  BY DEF illegal
<1>4. u.code = cs.code * 64 + ch - 128 /\ ch \in 128..191 /\ cs.code \in Nat
  BY DEF Next
<1>5. ASSUME u.valid
      PROVE  /\ u.count = 1 => u.code >= 8
             /\ u.count = 2 => u.code >= 512
             /\ u.count = 3 => u.code >= 32768
  <2>1. cs.valid /\ ~illegal(cs, ch)
    BY <1>5 DEF Next
  <2>2. /\ cs.count = 1 => cs.code >= 8
        /\ cs.count = 2 => cs.code >= 512
    BY <2>1, SMT DEF Under4
  <2>3. cs.count = 0 => cs.code > 0 \/ ch >= 136
    BY <1>3, <1>4, <2>1
  <2>4. u.count = 1 <=> cs.count = 0
    BY <1>2
  <2>5. u.count = 2 <=> cs.count = 1
    BY <1>2
  <2>6. u.count = 3 <=> cs.count = 2
    BY <1>2
  <2>. QED  BY <1>4, <2>2, <2>3, <2>4, <2>5, <2>6, Larger, SMT
<1>. QED  BY <1>1, <1>2, <1>5, SMT DEF Under4

\* A byte of six, not the last.
LEMMA Grows5 ==
  ASSUME NEW cs, NEW s, NEW ch, NEW u, NEW z, Next(cs, s, ch, u, z),
         cs.following = 5, cs.count \in 0..3, Under5(cs, s)
  PROVE  Under5(u, z)
<1>1. Len(s) = cs.count + 1 /\ s[1] \in 252..253
  BY SMT DEF Under5
<1>2. /\ u.count = cs.count + 1 /\ u.count \in 1..4
      /\ u.count <= 3 => Len(z) = u.count + 1 /\ z[1] = s[1]
      /\ u.count = 4 => z = <<>>
  BY <1>1 DEF Next
<1>3. illegal(cs, ch) <=> cs.count = 0 /\ cs.code = 0 /\ ch < 132
  BY DEF illegal
<1>4. u.code = cs.code * 64 + ch - 128 /\ ch \in 128..191 /\ cs.code \in Nat
  BY DEF Next
<1>5. ASSUME u.valid
      PROVE  /\ u.count = 1 => u.code >= 4
             /\ u.count = 2 => u.code >= 256
             /\ u.count = 3 => u.code >= 16384
             /\ u.count = 4 => u.code >= 1048576
  <2>1. cs.valid /\ ~illegal(cs, ch)
    BY <1>5 DEF Next
  <2>2. /\ cs.count = 1 => cs.code >= 4
        /\ cs.count = 2 => cs.code >= 256
        /\ cs.count = 3 => cs.code >= 16384
    BY <2>1, SMT DEF Under5
  <2>3. cs.count = 0 => cs.code > 0 \/ ch >= 132
    BY <1>3, <1>4, <2>1
  <2>4. u.count = 1 <=> cs.count = 0
    BY <1>2
  <2>5. u.count = 2 <=> cs.count = 1
    BY <1>2
  <2>6. u.count = 3 <=> cs.count = 2
    BY <1>2
  <2>7. u.count = 4 <=> cs.count = 3
    BY <1>2
  <2>. QED  BY <1>4, <2>2, <2>3, <2>4, <2>5, <2>6, <2>7, Larger, SMT
<1>. QED  BY <1>1, <1>2, <1>5, SMT DEF Under5

\* A byte that is not the last of its character.
LEMMA UnderGrows ==
  ASSUME NEW cs \in Charsets, NEW s, NEW ch, NEW u, NEW z, Next(cs, s, ch, u, z),
         Under(cs, s), cs.count + 1 < cs.following
  PROVE  Under(u, z)
<1>1. cs.following \in 2..5 /\ cs.count \in 0..3 /\ u.following = cs.following
  BY DEF Charsets, Next
<1>2. CASE cs.following = 2
  BY <1>1, <1>2, Grows2 DEF Under
<1>3. CASE cs.following = 3
  BY <1>1, <1>3, Grows3 DEF Under
<1>4. CASE cs.following = 4
  BY <1>1, <1>4, Grows4 DEF Under
<1>5. CASE cs.following = 5
  BY <1>1, <1>5, Grows5 DEF Under
<1>. QED  BY <1>1, <1>2, <1>3, <1>4, <1>5

\* Table 3-7, the sequences of two bytes.
LEMMA Pairs ==
  ASSUME NEW z, Len(z) = 2
  PROVE  /\ WellFormed(z) <=> z[1] \in 194..223 /\ z[2] \in Continuation
         /\ Scalar(z) = (z[1] - 192) * 64 + z[2] - 128
BY SMT DEF WellFormed, Scalar

\* Those of three.
LEMMA Triples ==
  ASSUME NEW z, Len(z) = 3, z[1] \in 224..239, z[2] \in 128..191, z[3] \in 128..191
  PROVE  /\ WellFormed(z) <=> ~(z[1] = 224 /\ z[2] < 160) /\ ~(z[1] = 237 /\ z[2] >= 160)
         /\ Scalar(z) = (z[1] - 224) * 4096 + (z[2] - 128) * 64 + z[3] - 128
BY SMT DEF WellFormed, Scalar, Continuation

\* Those of four.
LEMMA Quadruples ==
  ASSUME NEW z, Len(z) = 4, z[1] \in 240..247, z[2] \in 128..191, z[3] \in 128..191,
         z[4] \in 128..191
  PROVE  /\ WellFormed(z) <=> /\ ~(z[1] = 240 /\ z[2] < 144)
                              /\ z[1] <= 244 /\ (z[1] = 244 => z[2] <= 143)
         /\ Scalar(z) = (z[1] - 240) * 262144 + (z[2] - 128) * 4096 + (z[3] - 128) * 64
                        + z[4] - 128
BY SMT DEF WellFormed, Scalar, Continuation

\* There are no others.
LEMMA LeadOnly ==
  ASSUME NEW z, Len(z) \in 1..4, z[1] \notin 32..127, z[1] \notin 194..223,
         z[1] \notin 224..239, z[1] \notin 240..244
  PROVE  ~WellFormed(z)
<1>1. CASE Len(z) = 1
  BY <1>1, SMT DEF WellFormed
<1>2. CASE Len(z) = 2
  BY <1>2, SMT DEF WellFormed
<1>3. CASE Len(z) = 3
  BY <1>3, SMT DEF WellFormed
<1>4. CASE Len(z) = 4
  BY <1>4, SMT DEF WellFormed
<1>. QED  BY <1>1, <1>2, <1>3, <1>4

Formed(z) == z # <<>> /\ WellFormed(z)

\* Whether a character is shown, by its code and what was found on the way, is
\* right for its bytes.
Judges(z, v, valid) ==
  /\ Formed(z) => Scalar(z) = v /\ valid /\ (illegalPoint(v) <=> Noncharacter(v))
  /\ ~Formed(z) => ~valid \/ illegalPoint(v)

\* The last byte of two.
LEMMA Completes1 ==
  ASSUME NEW cs, NEW s, NEW ch, NEW u, NEW z, Next(cs, s, ch, u, z),
         cs.following = 1, Under1(cs, s)
  PROVE  Judges(z, u.code, u.valid) /\ Full(z)
<1>. DEFINE l == s[1]
<1>1. Len(s) = 1 /\ l \in 192..223 /\ cs.code = l - 192 /\ cs.valid /\ cs.count = 0
  BY DEF Under1
<1>2. Len(z) = 2 /\ z[1] = l /\ z[2] = ch /\ z # <<>>
  BY <1>1 DEF Next
<1>3. /\ ch \in 128..191 /\ u.code = cs.code * 64 + ch - 128
      /\ u.valid <=> cs.valid /\ ~illegal(cs, ch)
  BY DEF Next
<1>. HIDE DEF l
<1>4. u.valid <=> l > 193
  <2>1. illegal(cs, ch) <=> cs.code <= 1
    BY <1>1 DEF illegal
  <2>2. illegal(cs, ch) <=> l <= 193
    BY <1>1, <2>1
  <2>3. l <= 193 <=> ~(l > 193)
    BY <1>1
  <2>. QED  BY <1>1, <1>3, <2>2, <2>3
<1>5. /\ WellFormed(z) <=> z[1] \in 194..223 /\ z[2] \in Continuation
      /\ Scalar(z) = (z[1] - 192) * 64 + z[2] - 128
  BY <1>2, Pairs
<1>6. Formed(z) <=> l > 193
  <2>1. l \in 194..223 <=> l > 193
    BY <1>1
  <2>2. ch \in Continuation
    BY <1>3 DEF Continuation
  <2>. QED  BY <1>2, <1>5, <2>1, <2>2 DEF Formed
<1>7. u.code = Scalar(z)
  BY <1>1, <1>2, <1>3, <1>5
<1>8. u.code \in 0..2047
  BY <1>1, <1>3, SMT
<1>9. illegalPoint(u.code) <=> Noncharacter(u.code)
  <2>. DEFINE v == u.code
  <2>1. v \in 0..2047
    BY <1>8
  <2>. HIDE DEF v
  <2>2. illegalPoint(v) <=> Noncharacter(v)
    BY <2>1, TwoBytes, SMT
  <2>. QED  BY <2>2 DEF v
<1>10. Full(z)
  <2>1. z[1] \notin 224..239 /\ z[1] \notin 240..247
    BY <1>1, <1>2
  <2>2. Len(z) >= 2
    BY <1>2
  <2>. QED  BY <2>1, <2>2 DEF Full
<1>. QED  BY <1>4, <1>6, <1>7, <1>9, <1>10 DEF Judges

\* The last byte of three.
LEMMA Completes2 ==
  ASSUME NEW cs, NEW s, NEW ch, NEW u, NEW z, Next(cs, s, ch, u, z),
         cs.following = 2, cs.count = 1, Under2(cs, s)
  PROVE  Judges(z, u.code, u.valid) /\ Full(z)
<1>. DEFINE l == s[1]
            b == s[2]
<1>1. /\ Len(s) = 2 /\ l \in 224..239 /\ cs.code = (l - 224) * 64 + b - 128
      /\ cs.valid <=> ~(l = 224 /\ b < 160)
  BY DEF Under2
<1>2. Len(z) = 3 /\ z[1] = l /\ z[2] = b /\ z[3] = ch /\ z # <<>> /\ b \in 128..191
  BY <1>1 DEF Next
<1>3. /\ ch \in 128..191 /\ u.code = cs.code * 64 + ch - 128
      /\ u.valid <=> cs.valid /\ ~illegal(cs, ch)
  BY DEF Next
<1>. HIDE DEF l, b
<1>4. u.valid <=> ~(l = 224 /\ b < 160)
  <2>1. ~illegal(cs, ch)
    BY DEF illegal
  <2>. QED  BY <1>1, <1>3, <2>1
<1>5. /\ WellFormed(z) <=> ~(z[1] = 224 /\ z[2] < 160) /\ ~(z[1] = 237 /\ z[2] >= 160)
      /\ Scalar(z) = (z[1] - 224) * 4096 + (z[2] - 128) * 64 + z[3] - 128
  <2>1. Len(z) = 3 /\ z[1] \in 224..239 /\ z[2] \in 128..191 /\ z[3] \in 128..191
    BY <1>1, <1>2, <1>3
  <2>. QED  BY <2>1, Triples
<1>6. Formed(z) <=> ~(l = 224 /\ b < 160) /\ ~(l = 237 /\ b >= 160)
  BY <1>2, <1>5 DEF Formed
<1>. DEFINE v == u.code
<1>7. v = (l - 224) * 4096 + (b - 128) * 64 + ch - 128
  <2>. DEFINE a == l - 224
  <2>1. a \in Int
    BY <1>1
  <2>2. b \in Int /\ ch \in Int
    BY <1>2, <1>3
  <2>3. v = (a * 64 + b - 128) * 64 + ch - 128
    BY <1>1, <1>3
  <2>. HIDE DEF a, v
  <2>4. v = a * 4096 + (b - 128) * 64 + ch - 128
    BY <2>1, <2>2, <2>3, TwoDigits
  <2>. QED  BY <2>4 DEF a
<1>8. v = Scalar(z)
  BY <1>2, <1>5, <1>7
<1>9. illegalPoint(v) <=> Noncharacter(v) \/ (l = 237 /\ b >= 160)
  <2>1. l \in 224..239 /\ b \in Continuation /\ ch \in Continuation
    BY <1>1, <1>2, <1>3 DEF Continuation
  <2>. HIDE DEF v
  <2>. QED  BY <1>7, <2>1, ThreeBytes
<1>10. Full(z)
  <2>1. z[1] \notin 192..223 /\ z[1] \notin 240..247
    BY <1>1, <1>2
  <2>2. Len(z) >= 3
    BY <1>2
  <2>. QED  BY <2>1, <2>2 DEF Full
<1>. QED  BY <1>4, <1>6, <1>8, <1>9, <1>10 DEF Judges

\* The codes of four bytes.
LEMMA ThreeDigits ==
  ASSUME NEW a \in Int, NEW b \in Int, NEW c \in Int, NEW d \in Int
  PROVE  (a * 4096 + (b - 128) * 64 + c - 128) * 64 + d - 128
         = a * 262144 + (b - 128) * 4096 + (c - 128) * 64 + d - 128
BY SMT

\* The last byte of four.
LEMMA Completes3 ==
  ASSUME NEW cs, NEW s, NEW ch, NEW u, NEW z, Next(cs, s, ch, u, z),
         cs.following = 3, cs.count = 2, Under3(cs, s)
  PROVE  Judges(z, u.code, u.valid) /\ Full(z)
<1>. DEFINE l == s[1]
            b == s[2]
            c == s[3]
<1>1. /\ Len(s) = 3 /\ l \in 240..247
      /\ cs.code = (l - 240) * 4096 + (b - 128) * 64 + c - 128
      /\ cs.valid <=> ~(l = 240 /\ b < 144)
  BY SMT DEF Under3
<1>0. Len(s) = 3 /\ l \in 240..247 /\ (cs.valid <=> ~(l = 240 /\ b < 144))
  BY <1>1, SMT
<1>2. /\ Len(z) = 4 /\ z[1] = l /\ z[2] = b /\ z[3] = c /\ z[4] = ch /\ z # <<>>
      /\ b \in 128..191 /\ c \in 128..191
  BY <1>0 DEF Next
<1>3. /\ ch \in 128..191 /\ u.code = cs.code * 64 + ch - 128
      /\ u.valid <=> cs.valid /\ ~illegal(cs, ch)
  BY DEF Next
<1>. HIDE DEF l, b, c
<1>4. u.valid <=> ~(l = 240 /\ b < 144)
  <2>1. ~illegal(cs, ch)
    BY DEF illegal
  <2>. QED  BY <1>0, <1>3, <2>1
<1>5. /\ WellFormed(z) <=> /\ ~(z[1] = 240 /\ z[2] < 144)
                           /\ z[1] <= 244 /\ (z[1] = 244 => z[2] <= 143)
      /\ Scalar(z) = (z[1] - 240) * 262144 + (z[2] - 128) * 4096 + (z[3] - 128) * 64
                     + z[4] - 128
  <2>1. /\ Len(z) = 4 /\ z[1] \in 240..247 /\ z[2] \in 128..191 /\ z[3] \in 128..191
        /\ z[4] \in 128..191
    BY <1>0, <1>2, <1>3
  <2>. QED  BY <2>1, Quadruples, SMT
<1>6. Formed(z) <=> ~(l = 240 /\ b < 144) /\ l <= 244 /\ (l = 244 => b <= 143)
  BY <1>2, <1>5, SMT DEF Formed
<1>. DEFINE v == u.code
<1>7. v = (l - 240) * 262144 + (b - 128) * 4096 + (c - 128) * 64 + ch - 128
  <2>. DEFINE a == l - 240
  <2>1. a \in Int
    BY <1>0
  <2>2. b \in Int /\ c \in Int /\ ch \in Int
    BY <1>2, <1>3
  <2>3. v = (a * 4096 + (b - 128) * 64 + c - 128) * 64 + ch - 128
    BY <1>1, <1>3, SMT
  <2>. HIDE DEF a, v
  <2>4. v = a * 262144 + (b - 128) * 4096 + (c - 128) * 64 + ch - 128
    BY <2>1, <2>2, <2>3, ThreeDigits, SMT
  <2>. QED  BY <2>4, SMT DEF a
<1>8. v = Scalar(z)
  BY <1>2, <1>5, <1>7, SMT
<1>9. ASSUME ~(l = 240 /\ b < 144)
      PROVE  illegalPoint(v) <=> Noncharacter(v) \/ ~(l <= 244 /\ (l = 244 => b <= 143))
  <2>1. l \in 240..247 /\ b \in Continuation /\ c \in Continuation /\ ch \in Continuation
    BY <1>0, <1>2, <1>3 DEF Continuation
  <2>2. l = 240 => b >= 144
    BY <1>2, <1>9
  <2>. HIDE DEF v
  <2>. QED  BY <1>7, <2>1, <2>2, FourBytes, SMT
<1>10. Full(z)
  <2>1. z[1] \notin 192..223 /\ z[1] \notin 224..239
    BY <1>0, <1>2
  <2>2. Len(z) >= 4
    BY <1>2
  <2>. QED  BY <2>1, <2>2 DEF Full
<1>. QED  BY <1>4, <1>6, <1>8, <1>9, <1>10 DEF Judges

\* The last byte of five.
LEMMA Completes4 ==
  ASSUME NEW cs, NEW s, NEW ch, NEW u, NEW z, Next(cs, s, ch, u, z),
         cs.following = 4, cs.count = 3, Under4(cs, s)
  PROVE  Judges(z, u.code, u.valid) /\ Full(z)
<1>1. Len(s) = 4 /\ (cs.valid => cs.code >= 32768)
  BY SMT DEF Under4
<1>2. z = <<>>
  BY <1>1 DEF Next
<1>3. ASSUME u.valid PROVE illegalPoint(u.code)
  <2>. DEFINE code == cs.code
              v == u.code
  <2>1. cs.valid
    BY <1>3 DEF Next
  <2>2. code \in Nat /\ ch \in 128..191 /\ v = code * 64 + ch - 128
    BY DEF Next
  <2>3. code >= 32768
    BY <1>1, <2>1
  <2>. HIDE DEF code, v
  <2>4. v \in Nat /\ v >= 2097152
    BY <2>2, <2>3, Larger, SMT
  <2>5. illegalPoint(v)
    BY <2>4, MoreBytes, SMT
  <2>. QED  BY <2>5 DEF v
<1>. QED  BY <1>2, <1>3 DEF Judges, Formed, Full

\* The last byte of six.
LEMMA Completes5 ==
  ASSUME NEW cs, NEW s, NEW ch, NEW u, NEW z, Next(cs, s, ch, u, z),
         cs.following = 5, cs.count = 4, Under5(cs, s)
  PROVE  Judges(z, u.code, u.valid) /\ Full(z)
<1>1. s = <<>> /\ (cs.valid => cs.code >= 1048576)
  BY SMT DEF Under5
<1>2. Len(z) = 1 /\ z[1] = ch /\ ch \in 128..191
  <2>1. Len(s) = 0
    BY <1>1
  <2>. QED  BY <2>1 DEF Next
<1>3. ASSUME u.valid PROVE illegalPoint(u.code)
  <2>. DEFINE code == cs.code
              v == u.code
  <2>1. cs.valid
    BY <1>3 DEF Next
  <2>2. code \in Nat /\ ch \in 128..191 /\ v = code * 64 + ch - 128
    BY DEF Next
  <2>3. code >= 1048576
    BY <1>1, <2>1
  <2>. HIDE DEF code, v
  <2>4. v \in Nat /\ v >= 2097152
    BY <2>2, <2>3, Larger, SMT
  <2>5. illegalPoint(v)
    BY <2>4, MoreBytes, SMT
  <2>. QED  BY <2>5 DEF v
<1>4. ~WellFormed(z)
  BY <1>2, ContinuesNothing DEF Continuation
<1>5. Full(z)
  BY <1>2 DEF Full
<1>. QED  BY <1>3, <1>4, <1>5 DEF Judges, Formed

\* A byte that continues nothing.
LEMMA Strays ==
  ASSUME NEW cs, NEW s, NEW ch, NEW u, NEW z, Next(cs, s, ch, u, z),
         cs.following = 0, Full(s), Len(s) \in 0..4, Len(z) \in 0..4
  PROVE  Judges(z, u.code, u.valid) /\ Full(z)
<1>1. ~u.valid
  <2>1. illegal(cs, ch)
    BY DEF illegal
  <2>. QED  BY <2>1 DEF Next
<1>2. CASE Len(s) = 4
  <2>1. z = <<>>
    BY <1>2 DEF Next
  <2>. QED  BY <1>1, <2>1 DEF Judges, Formed, Full
<1>3. CASE Len(s) = 0
  <2>1. Len(z) = 1 /\ z[1] = ch /\ ch \in 128..191
    BY <1>3 DEF Next
  <2>2. ~WellFormed(z)
    <3>1. Len(z) \in {1, 2, 3, 4} /\ z[1] \in Continuation
      BY <2>1 DEF Continuation
    <3>. QED  BY <3>1, ContinuesNothing
  <2>3. Full(z)
    BY <2>1 DEF Full
  <2>. QED  BY <1>1, <2>2, <2>3 DEF Judges, Formed
<1>4. CASE Len(s) \in 1..3
  <2>. DEFINE l == z[1]
              n == Len(z)
  <2>0. PICK m \in 1..3 : Len(s) = m
    BY <1>4
  <2>1. m < 4 /\ 1 \in 1..m /\ m # 0
    OBVIOUS
  <2>2. n = m + 1 /\ l = s[1] /\ s # <<>>
    <3>1. n = m + 1 /\ l = s[1]
      BY <2>0, <2>1 DEF Next
    <3>2. s # <<>>
      BY <2>0, <2>1
    <3>. QED  BY <3>1, <3>2
  <2>3. /\ l \in 192..223 => n >= 3
        /\ l \in 224..239 => n >= 4
        /\ l \notin 240..247 /\ n \in 2..4
    <3>1. /\ l \in 192..223 => m >= 2
          /\ l \in 224..239 => m >= 3
          /\ l \in 240..247 => m >= 4
      BY <2>0, <2>2 DEF Full
    <3>. HIDE DEF l, n
    <3>. QED  BY <2>2, <3>1
  <2>4. Full(z)
    <3>. HIDE DEF l, n
    <3>1. /\ l \in 192..223 => n >= 2
          /\ l \in 224..239 => n >= 3
          /\ l \in 240..247 => n >= 4
      BY <2>3
    <3>. QED  BY <3>1 DEF Full, l, n
  <2>5. ~WellFormed(z)
    <3>1. CASE n = 2
      <4>1. l \notin 194..223
        BY <2>3, <3>1
      <4>. QED  BY <3>1, <4>1, SMT DEF WellFormed
    <3>2. CASE n = 3
      <4>1. l \notin 224..239
        BY <2>3, <3>2
      <4>. QED  BY <3>2, <4>1, SMT DEF WellFormed
    <3>3. CASE n = 4
      <4>1. l \notin 240..244
        BY <2>3, <3>3
      <4>. QED  BY <3>3, <4>1, SMT DEF WellFormed
    <3>. QED  BY <2>3, <3>1, <3>2, <3>3
  <2>. QED  BY <1>1, <2>4, <2>5 DEF Judges, Formed
<1>. QED  BY <1>2, <1>3, <1>4

\* The last byte of a character.
LEMMA Completes ==
  ASSUME NEW cs \in Charsets, NEW s, NEW ch, NEW u, NEW z, Next(cs, s, ch, u, z),
         Under(cs, s), ~(u.count < u.following), Len(s) \in 0..4, Len(z) \in 0..4
  PROVE  Judges(z, u.code, u.valid) /\ Full(z)
<1>1. cs.following \in 0..5 /\ cs.count \in 0..5 /\ ~(cs.count + 1 < cs.following)
  BY DEF Charsets, Next
<1>2. CASE cs.following = 0
  BY <1>2, Strays DEF Under
<1>3. CASE cs.following = 1
  BY <1>3, Completes1 DEF Under
<1>4. CASE cs.following = 2
  <2>1. Under2(cs, s) /\ cs.count = 1
    BY <1>1, <1>4 DEF Under, Under2
  <2>. QED  BY <1>4, <2>1, Completes2
<1>5. CASE cs.following = 3
  <2>1. Under3(cs, s) /\ cs.count = 2
    BY <1>1, <1>5, SMT DEF Under, Under3
  <2>. QED  BY <1>5, <2>1, Completes3
<1>6. CASE cs.following = 4
  <2>1. Under4(cs, s) /\ cs.count = 3
    BY <1>1, <1>6, SMT DEF Under, Under4
  <2>. QED  BY <1>6, <2>1, Completes4
<1>7. CASE cs.following = 5
  <2>1. Under5(cs, s) /\ cs.count = 4
    BY <1>1, <1>7, SMT DEF Under, Under5
  <2>. QED  BY <1>7, <2>1, Completes5
<1>. QED  BY <1>1, <1>2, <1>3, <1>4, <1>5, <1>6, <1>7

\* A character that is judged rightly is shown rightly.
LEMMA JudgedFits ==
  ASSUME NEW z, Run(z), NEW v, NEW valid, Judges(z, v, valid), NEW c,
         c = IF ~valid \/ illegalPoint(v) THEN REPLACEMENT_CHAR ELSE v
  PROVE  Fits(z, Char(c))
<1>1. codes(Char(c)) = {c}
  BY Codes
<1>2. CASE Formed(z)
  <2>1. Ends(z) = {v} /\ (c # v => Noncharacter(v) /\ c = REPLACEMENT_CHAR)
    BY <1>2, OneEnding DEF Judges, Formed
  <2>2. CASE Noncharacter(v)
    <3>1. c = REPLACEMENT_CHAR
      BY <1>2, <2>2 DEF Judges
    <3>. QED  BY <1>1, <2>1, <2>2, <3>1, FitsNone
  <2>3. CASE ~Noncharacter(v)
    <3>1. Char(c) # <<>> /\ Char(c)[Len(Char(c))] = Char(v)[1] /\ c = v
      BY <2>1, <2>3 DEF Char
    <3>. QED  BY <1>1, <2>1, <2>3, <3>1, FitsOne
  <2>. QED  BY <2>2, <2>3
<1>3. CASE ~Formed(z)
  <2>1. Ends(z) = {}
    BY <1>3, OneEnding DEF Formed
  <2>2. c = REPLACEMENT_CHAR
    BY <1>3 DEF Judges
  <2>. QED  BY <1>1, <2>1, <2>2, FitsNone
<1>. QED  BY <1>2, <1>3

-----------------------------------------------------------------------------
Escapes == [state : {"text", "esc", "csi", "osc", "dcs"}, long : BOOLEAN, escLast : BOOLEAN]

ParserInv ==
  /\ esc \in Escapes /\ charset \in Charsets /\ Run(text) /\ Under(charset, text)
  /\ esc.state # "text" => charset = reset_charset

\* No character is under way.
LEMMA ResetIs ==
  /\ reset_charset \in Charsets /\ reset_charset.following = 0
  /\ reset_charset.count = 0 /\ reset_charset.code = 0 /\ reset_charset.valid
<1>. DEFINE yes == TRUE
<1>1. yes \in BOOLEAN /\ yes
  OBVIOUS
<1>. HIDE DEF yes
<1>2. /\ [code |-> 0, following |-> 0, count |-> 0, valid |-> yes] \in Charsets
      /\ [code |-> 0, following |-> 0, count |-> 0, valid |-> yes].valid = yes
      /\ [code |-> 0, following |-> 0, count |-> 0, valid |-> yes].following = 0
      /\ [code |-> 0, following |-> 0, count |-> 0, valid |-> yes].count = 0
      /\ [code |-> 0, following |-> 0, count |-> 0, valid |-> yes].code = 0
  BY <1>1 DEF Charsets
<1>. QED  BY <1>1, <1>2 DEF reset_charset, yes

\* Then it agrees with every text that is full.
LEMMA ResetUnder ==
  ASSUME NEW s, Full(s)
  PROVE  Under(reset_charset, s)
BY ResetIs DEF Under

\* The text of one byte.
only(ch) == <<ch>>

\* A byte that starts a run of text of its own.
LEMMA StartsRun ==
  ASSUME NEW ch \in 0..255
  PROVE  /\ Run(only(ch))
         /\ ch \notin 192..247 => Full(only(ch))
         /\ ch \in 32..127 => Ends(only(ch)) = {ch}
         /\ ch \notin 32..127 => Ends(only(ch)) = {}
<1>1. Run(only(ch))
  BY DEF Run, only
<1>2. ASSUME ch \notin 192..247 PROVE Full(only(ch))
  BY <1>2 DEF Full, only
<1>. DEFINE z == only(ch)
<1>3. Len(z) = 1 /\ z[1] = ch /\ z # <<>> /\ Run(z)
  BY <1>1 DEF only
<1>. HIDE DEF z
<1>4. (WellFormed(z) <=> ch \in 32..127) /\ Scalar(z) = ch
  BY <1>3, SMT DEF WellFormed, Scalar
<1>5. /\ ch \in 32..127 => Ends(z) = {ch}
      /\ ch \notin 32..127 => Ends(z) = {}
  BY <1>3, <1>4, OneEnding
<1>. QED  BY <1>1, <1>2, <1>5 DEF z

\* Other than ASCII, one byte encodes nothing.
LEMMA StartsNone == ASSUME NEW ch \in 0..255, ch \notin 32..127 PROVE Ends(only(ch)) = {}
BY StartsRun

\* A byte that is not the first of two to four bytes starts no character.
LEMMA StartsNothing ==
  ASSUME NEW ch \in 0..255, ch \notin 192..247
  PROVE  Run(only(ch)) /\ Under(reset_charset, only(ch))
<1>1. Run(only(ch)) /\ Full(only(ch))
  BY StartsRun
<1>. QED  BY <1>1, ResetUnder

\* The first byte of a character.
opened(ch) ==
  [reset_charset EXCEPT !.code = lead(ch).code, !.following = lead(ch).following, !.count = 0]

\* The lead bytes.
LEMMA LeadIs ==
  ASSUME NEW ch \in 192..253
  PROVE  /\ lead(ch).following \in 1..5 /\ lead(ch).code \in Nat
         /\ ch \in 192..223 <=> lead(ch).following = 1
         /\ ch \in 224..239 <=> lead(ch).following = 2
         /\ ch \in 240..247 <=> lead(ch).following = 3
         /\ ch \in 248..251 <=> lead(ch).following = 4
         /\ ch \in 252..253 <=> lead(ch).following = 5
         /\ ch \in 192..223 => lead(ch).code = ch - 192
         /\ ch \in 224..239 => lead(ch).code = ch - 224
         /\ ch \in 240..247 => lead(ch).code = ch - 240
<1>1. CASE ch \in 192..223
  BY <1>1, SMT DEF lead
<1>2. CASE ch \in 224..239
  BY <1>2, SMT DEF lead
<1>3. CASE ch \in 240..247
  BY <1>3, SMT DEF lead
<1>4. CASE ch \in 248..251
  BY <1>4, SMT DEF lead
<1>5. CASE ch \in 252..253
  BY <1>5, SMT DEF lead
<1>. QED  BY <1>1, <1>2, <1>3, <1>4, <1>5

\* A lead byte opens a character (utf8_charset).
LEMMA Opens ==
  ASSUME NEW ch \in 192..253
  PROVE  /\ opened(ch) \in Charsets /\ Under(opened(ch), only(ch))
         /\ opened(ch).following > 0 /\ opened(ch).count = 0
         /\ utf8_charset(reset_charset, ch) = <<opened(ch), <<>>>>
<1>. DEFINE u == opened(ch)
            z == only(ch)
            f == lead(ch).following
            code == lead(ch).code
<1>1. /\ f \in 1..5 /\ code \in Nat
      /\ ch \in 192..223 <=> f = 1
      /\ ch \in 224..239 <=> f = 2
      /\ ch \in 240..247 <=> f = 3
      /\ ch \in 248..251 <=> f = 4
      /\ ch \in 252..253 <=> f = 5
      /\ ch \in 192..223 => code = ch - 192
      /\ ch \in 224..239 => code = ch - 224
      /\ ch \in 240..247 => code = ch - 240
  BY LeadIs
<1>. HIDE DEF f, code
<1>2. u = [reset_charset EXCEPT !.code = code, !.following = f, !.count = 0]
  BY DEF opened, f, code
<1>. HIDE DEF u
<1>3. u \in Charsets /\ u.code = code /\ u.following = f /\ u.count = 0 /\ u.valid
  <2>1. reset_charset \in Charsets /\ f \in 0..5 /\ 0 \in 0..5
    BY <1>1, ResetIs
  <2>2. /\ u \in Charsets /\ u.code = code /\ u.following = f /\ u.count = 0
        /\ u.valid = reset_charset.valid
    BY <1>1, <1>2, <2>1 DEF Charsets
  <2>. QED  BY <2>2, ResetIs
<1>4. Len(z) = 1 /\ z[1] = ch /\ z # <<>>
  BY DEF only
<1>. HIDE DEF z
<1>5. f = 1 => Under1(u, z)
  BY <1>1, <1>3, <1>4 DEF Under1
<1>6. f = 2 => Under2(u, z)
  BY <1>1, <1>3, <1>4 DEF Under2
<1>7. f = 3 => Under3(u, z)
  BY <1>1, <1>3, <1>4, SMT DEF Under3
<1>8. f = 4 => Under4(u, z)
  BY <1>1, <1>3, <1>4, SMT DEF Under4
<1>9. f = 5 => Under5(u, z)
  BY <1>1, <1>3, <1>4, SMT DEF Under5
<1>10. Under(u, z)
  BY <1>1, <1>3, <1>5, <1>6, <1>7, <1>8, <1>9 DEF Under
<1>11. utf8_charset(reset_charset, ch) = <<u, <<>>>>
  <2>. DEFINE more == LET v == [reset_charset EXCEPT
                                  !.valid = @ /\ ~illegal(reset_charset, ch),
                                  !.code = (@ * 64) + (ch % 64), !.count = @ + 1]
                      IN  IF v.count < v.following THEN <<v, <<>>>>
                          ELSE <<reset_charset,
                                 Char(IF ~v.valid \/ illegalPoint(v.code)
                                      THEN REPLACEMENT_CHAR ELSE v.code)>>
              none == <<reset_charset, Char(REPLACEMENT_CHAR)>>
              first == <<u, <<>>>>
  <2>1. utf8_charset(reset_charset, ch) =
          CASE ch \in 128..191 -> more [] ch \in 192..253 -> first [] ch \in 254..255 -> none
    BY DEF utf8_charset, opened, u
  <2>. HIDE DEF more, none, first
  <2>2. utf8_charset(reset_charset, ch) = first
    BY <2>1, SMT
  <2>. QED  BY <2>2 DEF first
<1>. QED  BY <1>1, <1>3, <1>10, <1>11 DEF u, z

\* A byte that UTF-8 does not have is replaced (utf8_charset).
LEMMA Refused ==
  ASSUME NEW ch \in 254..255
  PROVE  utf8_charset(reset_charset, ch) = <<reset_charset, Char(REPLACEMENT_CHAR)>>
<1>. DEFINE more == LET v == [reset_charset EXCEPT
                                !.valid = @ /\ ~illegal(reset_charset, ch),
                                !.code = (@ * 64) + (ch % 64), !.count = @ + 1]
                    IN  IF v.count < v.following THEN <<v, <<>>>>
                        ELSE <<reset_charset,
                               Char(IF ~v.valid \/ illegalPoint(v.code)
                                    THEN REPLACEMENT_CHAR ELSE v.code)>>
            none == <<reset_charset, Char(REPLACEMENT_CHAR)>>
            first == <<opened(ch), <<>>>>
<1>1. utf8_charset(reset_charset, ch) =
        CASE ch \in 128..191 -> more [] ch \in 192..253 -> first [] ch \in 254..255 -> none
  BY DEF utf8_charset, opened
<1>. HIDE DEF more, none, first
<1>2. utf8_charset(reset_charset, ch) = none
  BY <1>1, SMT
<1>. QED  BY <1>2 DEF none

-----------------------------------------------------------------------------
\* What parse leaves of the character under way, and gives instead of it,
\* before it takes a byte of text.
left(ch) == IF interrupted(ch) THEN reset_charset ELSE charset
brokenOff(ch) == IF interrupted(ch) THEN Char(REPLACEMENT_CHAR) ELSE <<>>

BreaksOff(ch) ==
  /\ ch \notin 128..191 => left(ch) = reset_charset
  /\ ch \in 128..191 => left(ch) = charset /\ brokenOff(ch) = <<>>
  /\ brokenOff(ch) \in {<<>>, Char(REPLACEMENT_CHAR)}
  /\ charset.following > 0 /\ ch \notin 128..191 => brokenOff(ch) = Char(REPLACEMENT_CHAR)

\* With no character under way, there is nothing to break off.
LEMMA Before == ASSUME ParserInv, NEW ch PROVE BreaksOff(ch)
<1>1. charset.following \in 0..5 /\ (charset.following = 0 => charset = reset_charset)
  BY DEF ParserInv, Under, Charsets
<1>2. ~(charset.following > 0) => charset = reset_charset
  BY <1>1
<1>. QED  BY <1>2 DEF BreaksOff, interrupted, left, brokenOff

\* What is given to the terminal after what was broken off.
Shown(before, k, ch) == before \o Do(k, ch)

\* What is given after a replacement, or after nothing.
LEMMA ShownIs ==
  ASSUME NEW before \in {<<>>, Char(REPLACEMENT_CHAR)}, NEW k, NEW c
  PROVE  LET o == Shown(before, k, c)
         IN  /\ codes(o) \subseteq {REPLACEMENT_CHAR} \cup codes(Do(k, c)) /\ o # <<>>
             /\ o[Len(o)] = Do(k, c)[1]
<1>1. CASE before = <<>>
  BY <1>1, Alone DEF Shown
<1>2. CASE before = Char(REPLACEMENT_CHAR)
  BY <1>2, CodesAfter DEF Shown
<1>. QED  BY <1>1, <1>2

\* A control character.
LEMMA ControlFits ==
  ASSUME NEW ch \in 0..255, ch <= 31, NEW before \in {<<>>, Char(REPLACEMENT_CHAR)}
  PROVE  Fits(only(ch), before \o Do("control", ch)) /\ before \o Do("control", ch) # <<>>
<1>. DEFINE o == Shown(before, "control", ch)
<1>1. codes(Do("control", ch)) = {}
  BY NoCodes
<1>2. codes(o) \subseteq {REPLACEMENT_CHAR} /\ o # <<>>
  BY <1>1, ShownIs
<1>3. Ends(only(ch)) = {}
  <2>1. ch \in 0..255 /\ ch \notin 32..127
    OBVIOUS
  <2>. QED  BY ONLY <2>1, StartsNone
<1>. HIDE DEF o
<1>4. Fits(only(ch), o)
  BY <1>2, <1>3, FitsNone
<1>. QED  BY <1>2, <1>4 DEF o, Shown

\* An ASCII character.
LEMMA CharFits ==
  ASSUME NEW ch \in 32..127, NEW before \in {<<>>, Char(REPLACEMENT_CHAR)}
  PROVE  Fits(only(ch), before \o Char(ch)) /\ before \o Char(ch) # <<>>
<1>. DEFINE o == Shown(before, "char", ch)
<1>1. Char(ch) = Do("char", ch) /\ codes(Char(ch)) = {ch}
  BY Alone, Codes
<1>2. codes(o) \subseteq {ch, REPLACEMENT_CHAR} /\ o # <<>> /\ o[Len(o)] = Char(ch)[1]
  BY <1>1, ShownIs
<1>3. Ends(only(ch)) = {ch} /\ ~Noncharacter(ch)
  <2>1. ch \in 0..255
    OBVIOUS
  <2>. QED  BY <2>1, StartsRun, OneByte
<1>4. before \o Char(ch) = o
  BY <1>1 DEF Shown
<1>. HIDE DEF o
<1>5. Fits(only(ch), o)
  BY <1>2, <1>3, FitsOne
<1>. QED  BY <1>2, <1>4, <1>5

Instead(before) == before \in {<<>>, Char(REPLACEMENT_CHAR)}

Refuses(ch, before) ==
  /\ Fits(only(ch), before \o <<>>)
  /\ Fits(only(ch), before \o Char(REPLACEMENT_CHAR))
  /\ before \o Char(REPLACEMENT_CHAR) # <<>>
  /\ before \o <<>> = before
  /\ before = Char(REPLACEMENT_CHAR) => before # <<>>

\* A byte that is replaced, or waits for more.
LEMMA RefusedFits ==
  ASSUME NEW ch \in 0..255, ch \notin 32..127, NEW before, Instead(before)
  PROVE  Refuses(ch, before)
<1>. DEFINE o == Shown(before, "char", REPLACEMENT_CHAR)
            r == Char(REPLACEMENT_CHAR)
<1>1. Char(REPLACEMENT_CHAR) = Do("char", REPLACEMENT_CHAR) /\ codes(r) = {REPLACEMENT_CHAR}
      /\ codes(<<>>) = {}
  BY Alone, Codes
<1>2. codes(o) \subseteq {REPLACEMENT_CHAR} /\ o # <<>>
  BY <1>1, ShownIs DEF Instead
<1>3. Ends(only(ch)) = {}
  <2>1. ch \in 0..255 /\ ch \notin 32..127
    OBVIOUS
  <2>. QED  BY ONLY <2>1, StartsNone
<1>4. before \o r = o
  BY <1>1 DEF Shown
<1>5. before \o <<>> = before /\ (before = r => before # <<>>)
  BY DEF Char, Instead
<1>. HIDE DEF o, r
<1>6. codes(before) \subseteq {REPLACEMENT_CHAR}
  BY <1>1 DEF r, Instead
<1>7. Fits(only(ch), o) /\ Fits(only(ch), before)
  BY <1>2, <1>3, <1>6, FitsNone
<1>. QED  BY <1>2, <1>4, <1>5, <1>7 DEF r, Refuses

\* The bytes of a character under way.
Partly(k, lo, hi, s) == Len(s) \in 1..k /\ s[1] \in lo..hi

\* How far a character has come.
LEMMA HowFar ==
  ASSUME NEW u, NEW s, Under(u, s)
  PROVE  /\ u.following = 1 => Partly(1, 192, 223, s)
         /\ u.following = 2 => Partly(2, 224, 239, s)
         /\ u.following = 3 => Partly(3, 240, 247, s)
         /\ u.following = 4 => Partly(4, 248, 251, s)
         /\ u.following = 5 => s = <<>> \/ Partly(4, 252, 253, s)
<1>1. ASSUME Under1(u, s) PROVE Partly(1, 192, 223, s)
  BY <1>1 DEF Under1, Partly
<1>2. ASSUME Under2(u, s) PROVE Partly(2, 224, 239, s)
  <2>1. u.count \in 0..1 /\ Len(s) = u.count + 1 /\ s[1] \in 224..239
    BY <1>2 DEF Under2
  <2>. QED  BY <2>1 DEF Partly
<1>3. ASSUME Under3(u, s) PROVE Partly(3, 240, 247, s)
  <2>1. u.count \in 0..2 /\ Len(s) = u.count + 1 /\ s[1] \in 240..247
    BY <1>3 DEF Under3
  <2>. QED  BY <2>1 DEF Partly
<1>4. ASSUME Under4(u, s) PROVE Partly(4, 248, 251, s)
  <2>1. u.count \in 0..3 /\ Len(s) = u.count + 1 /\ s[1] \in 248..251
    BY <1>4 DEF Under4
  <2>. QED  BY <2>1 DEF Partly
<1>5. ASSUME Under5(u, s) PROVE s = <<>> \/ Partly(4, 252, 253, s)
  <2>1. u.count \in 0..4 /\ (u.count = 4 => s = <<>>)
        /\ (u.count <= 3 => Len(s) = u.count + 1 /\ s[1] \in 252..253)
    BY <1>5 DEF Under5
  <2>2. u.count = 4 \/ u.count \in 0..3
    BY <2>1
  <2>3. ASSUME u.count \in 0..3 PROVE Partly(4, 252, 253, s)
    <3>1. u.count \in 0..3 /\ Len(s) = u.count + 1 /\ s[1] \in 252..253
      BY <2>1, <2>3
    <3>. QED  BY <3>1 DEF Partly
  <2>. QED  BY <2>1, <2>2, <2>3
<1>. QED  BY <1>1, <1>2, <1>3, <1>4, <1>5 DEF Under

\* A character under way is none yet.
LEMMA UnderWay ==
  ASSUME NEW u, NEW s, Run(s), Under(u, s), u.following \in 1..5
  PROVE  Ends(s) = {}
<1>1. ASSUME Partly(1, 192, 223, s) PROVE ~WellFormed(s)
  <2>1. Len(s) = 1 /\ s[1] \in 192..223
    BY <1>1 DEF Partly
  <2>. QED  BY <2>1, SMT DEF WellFormed
<1>2. ASSUME Partly(2, 224, 239, s) PROVE ~WellFormed(s)
  <2>1. (Len(s) = 1 \/ Len(s) = 2) /\ s[1] \in 224..239
    BY <1>2 DEF Partly
  <2>2. CASE Len(s) = 1
    BY <2>1, <2>2, SMT DEF WellFormed
  <2>3. CASE Len(s) = 2
    BY <2>1, <2>3, SMT DEF WellFormed
  <2>. QED  BY <2>1, <2>2, <2>3
<1>3. ASSUME Partly(3, 240, 247, s) PROVE ~WellFormed(s)
  <2>1. (Len(s) = 1 \/ Len(s) = 2 \/ Len(s) = 3) /\ s[1] \in 240..247
    BY <1>3 DEF Partly
  <2>2. CASE Len(s) = 1
    BY <2>1, <2>2, SMT DEF WellFormed
  <2>3. CASE Len(s) = 2
    BY <2>1, <2>3, SMT DEF WellFormed
  <2>4. CASE Len(s) = 3
    BY <2>1, <2>4, SMT DEF WellFormed
  <2>. QED  BY <2>1, <2>2, <2>3, <2>4
<1>4. ASSUME Partly(4, 248, 251, s) \/ Partly(4, 252, 253, s) PROVE ~WellFormed(s)
  <2>1. Len(s) \in 1..4 /\ s[1] \in 248..253
    BY <1>4 DEF Partly
  <2>2. /\ s[1] \notin 32..127 /\ s[1] \notin 194..223
        /\ s[1] \notin 224..239 /\ s[1] \notin 240..244
    BY <2>1
  <2>3. Len(s) \in 1..4
    BY <2>1
  <2>. QED  BY <2>2, <2>3, LeadOnly
<1>5. s = <<>> \/ ~WellFormed(s)
  <2>1. \/ u.following = 1 \/ u.following = 2 \/ u.following = 3
        \/ u.following = 4 \/ u.following = 5
    OBVIOUS
  <2>. QED  BY <1>1, <1>2, <1>3, <1>4, <2>1, HowFar
<1>. QED  BY <1>5, OneEnding

\* A byte that continues a character, or nothing.
LEMMA Continues ==
  ASSUME NEW cs \in Charsets, NEW s, Run(s), Under(cs, s), NEW ch \in 128..191
  PROVE  LET cs1 == utf8_charset(cs, ch)[1]
             given == utf8_charset(cs, ch)[2]
             z == longer(s, ch)
         IN  /\ cs1 \in Charsets /\ Run(z) /\ Under(cs1, z) /\ Fits(z, given)
             /\ given # <<>> \/ (cs.following > 0 /\ cs1.count = cs.count + 1)
<1>. DEFINE u == grown(cs, ch)
            z == longer(s, ch)
            c == IF ~u.valid \/ illegalPoint(u.code) THEN REPLACEMENT_CHAR ELSE u.code
<1>1. cs.count <= 4 /\ ch \in Continuation /\ cs.following \in 0..5 /\ cs.count \in Nat
  <2>1. cs.following \in 0..5
    BY DEF Charsets
  <2>2. cs.following = 0 => cs.count = 0
    BY ResetIs DEF Under
  <2>3. cs.following \in 1..3 => cs.count <= 4
    BY SMT DEF Under, Under1, Under2, Under3
  <2>4. cs.following \in 4..5 => cs.count <= 4
    BY SMT DEF Under, Under4, Under5
  <2>. QED  BY <2>1, <2>2, <2>3, <2>4 DEF Charsets, Continuation
<1>2. Next(cs, s, ch, u, z) /\ u \in Charsets /\ Run(z)
  BY <1>1, ByteNext
<1>3. utf8_charset(cs, ch) = IF u.count < u.following THEN <<u, <<>>>>
                             ELSE <<reset_charset, Char(c)>>
  BY <1>1, NextByte
<1>4. u.count = cs.count + 1 /\ u.following = cs.following
  BY <1>2 DEF Next
<1>5. Len(s) \in 0..4 /\ Len(z) \in 0..4
  <2>1. /\ s \in Seq(0..255) /\ Len(s) <= 4
        /\ z \in Seq(0..255) /\ Len(z) <= 4
    <3>. HIDE DEF z
    <3>. QED  BY <1>2 DEF Run
  <2>. HIDE DEF z
  <2>2. Len(s) \in Nat /\ Len(z) \in Nat
    BY <2>1
  <2>. DEFINE m == Len(s)
              n == Len(z)
  <2>3. m \in Nat /\ m <= 4 /\ n \in Nat /\ n <= 4
    BY <2>1, <2>2
  <2>. HIDE DEF m, n
  <2>4. m \in 0..4 /\ n \in 0..4
    BY <2>3
  <2>. QED  BY <2>4 DEF m, n
<1>. HIDE DEF u, z
<1>6. CASE u.count < u.following
  <2>1. Under(u, z)
    BY <1>2, <1>4, <1>6, UnderGrows
  <2>2. cs.following > 0
    BY <1>1, <1>4, <1>6
  <2>3. Fits(z, <<>>)
    <3>1. u.following \in 1..5
      BY <1>1, <1>4, <2>2
    <3>2. Ends(z) = {}
      BY <1>2, <2>1, <3>1, UnderWay
    <3>3. codes(<<>>) = {}
      BY Codes
    <3>. QED  BY <3>2, <3>3, FitsNone
  <2>. QED  BY <1>2, <1>3, <1>4, <1>6, <2>1, <2>2, <2>3 DEF u, z
<1>7. CASE ~(u.count < u.following)
  <2>1. Judges(z, u.code, u.valid) /\ Full(z)
    BY <1>2, <1>5, <1>7, Completes
  <2>2. Fits(z, Char(c))
    BY <1>2, <2>1, JudgedFits
  <2>3. Under(reset_charset, z) /\ reset_charset \in Charsets
    BY <2>1, ResetUnder, ResetIs
  <2>4. Char(c) # <<>>
    BY DEF Char
  <2>. HIDE DEF c
  <2>. QED  BY <1>2, <1>3, <1>7, <2>2, <2>3, <2>4 DEF z
<1>. QED  BY <1>6, <1>7

\* Fits is what the property says.
LEMMA LinkFits ==
  /\ ShownAsEncoded <=> Fits(text, out)
  /\ ShownAsEncoded' <=> Fits(text', out')
BY DEF ShownAsEncoded, Ending, Fits, Ends

\* The parser at the start.
LEMMA ParserStarts == ParserInit => ParserInv
<1>. SUFFICES ASSUME ParserInit PROVE ParserInv
  OBVIOUS
<1>1. esc \in Escapes
  BY DEF ParserInit, noEscape, Escapes
<1>2. charset = reset_charset /\ text = <<>>
  BY DEF ParserInit
<1>3. Run(text) /\ Full(text)
  BY <1>2 DEF Run, Full
<1>4. charset \in Charsets
  BY <1>2, ResetIs
<1>5. Under(charset, text)
  BY <1>2, <1>3, ResetUnder
<1>. QED  BY <1>1, <1>2, <1>3, <1>4, <1>5 DEF ParserInv

\* What a byte does: the invariant and the property.
Right ==
  /\ ParserInv' /\ Fits(text', out')
  /\ esc.state = "text" /\ (charset.following > 0 => charset'.count # charset.count + 1)
       => out' # <<>> \/ (charset.following = 0 /\ GoesOn)

\* A byte of text (parse).
LEMMA TextRight ==
  ASSUME ParserInv, NEW ch \in 0..255, Text(ch)
  PROVE  Right
<1>. DEFINE cs == left(ch)
            before == brokenOff(ch)
<1>1. /\ ch \notin 128..191 => cs = reset_charset
      /\ ch \in 128..191 => cs = charset /\ before = <<>>
      /\ before \in {<<>>, Char(REPLACEMENT_CHAR)}
      /\ charset.following > 0 /\ ch \notin 128..191 => before = Char(REPLACEMENT_CHAR)
  <2>1. BreaksOff(ch)
    BY Before
  <2>. QED  BY <2>1 DEF BreaksOff
<1>2. /\ esc.state = "text"
      /\ text' = IF ch \notin 128..191 THEN only(ch) ELSE longer(text, ch)
      /\ esc' = esc \/ esc' = [esc EXCEPT !.state = "esc"]
      /\ ch >= 32 => esc' = esc
      /\ ch <= 31 => out' = before \o Do("control", ch) /\ charset' = cs
      /\ ch \in 32..127 => out' = before \o Char(ch) /\ charset' = cs
      /\ ch >= 128 => /\ charset' = utf8_charset(cs, ch)[1]
                      /\ out' = before \o utf8_charset(cs, ch)[2]
  <2>1. /\ ch <= 31 \/ ch \in 32..127 \/ ch >= 128
        /\ ch <= 31 => ~(ch \in 32..127) /\ ~(ch >= 128) /\ ~(ch >= 32)
        /\ ch \in 32..127 => ~(ch <= 31) /\ ~(ch >= 128)
        /\ ch >= 128 => ~(ch <= 31) /\ ~(ch \in 32..127)
    OBVIOUS
  <2>. HIDE DEF cs, before
  <2>2. \/ /\ ch <= 31
           /\ out' = before \o Do("control", ch)
           /\ esc' = IF ch = ESC THEN [esc EXCEPT !.state = "esc"] ELSE esc
           /\ charset' = cs
        \/ /\ ch \in 32..127
           /\ out' = before \o Char(ch)
           /\ charset' = cs /\ esc' = esc
        \/ /\ ch >= 128
           /\ charset' = utf8_charset(cs, ch)[1]
           /\ out' = before \o utf8_charset(cs, ch)[2]
           /\ esc' = esc
    BY DEF Text, cs, before, left, brokenOff
  <2>3. esc.state = "text" /\ text' = IF ch \notin 128..191 THEN only(ch) ELSE longer(text, ch)
    BY DEF Text, longer, only
  <2>4. CASE ch <= 31
    BY <2>1, <2>2, <2>3, <2>4
  <2>5. CASE ch \in 32..127
    BY <2>1, <2>2, <2>3, <2>5
  <2>6. CASE ch >= 128
    BY <2>1, <2>2, <2>3, <2>6
  <2>. QED  BY <2>1, <2>4, <2>5, <2>6
<1>. HIDE DEF cs, before
<1>3. esc \in Escapes /\ charset \in Charsets /\ Run(text) /\ Under(charset, text)
  BY DEF ParserInv
<1>4. esc' \in Escapes
  BY <1>2, <1>3 DEF Escapes
<1>5. reset_charset \in Charsets
  BY ResetIs
<1>6. CASE ch <= 31
  <2>3. ch \in 0..255 /\ ch \notin 192..247 /\ ch \notin 128..191
    BY <1>6
  <2>11. text' = only(ch)
    BY <1>2, <2>3
  <2>12. cs = reset_charset
    BY <1>1, <2>3
  <2>13. charset' = cs
    BY <1>2, <1>6
  <2>14. out' = before \o Do("control", ch)
    BY <1>2, <1>6
  <2>1. text' = only(ch) /\ charset' = reset_charset /\ out' = before \o Do("control", ch)
    BY <2>11, <2>12, <2>13, <2>14
  <2>2. Fits(only(ch), out') /\ out' # <<>>
    <3>1. ch \in 0..255 /\ ch <= 31 /\ before \in {<<>>, Char(REPLACEMENT_CHAR)}
      BY <1>1, <1>6
    <3>. QED  BY <2>14, <3>1, ControlFits
  <2>4. Run(only(ch)) /\ Under(reset_charset, only(ch))
    BY ONLY <2>3, StartsNothing
  <2>. QED  BY <1>4, <1>5, <2>1, <2>2, <2>4 DEF ParserInv, Right
<1>7. CASE ch \in 32..127
  <2>3. ch \in 0..255 /\ ch \notin 192..247 /\ ch \notin 128..191 /\ ch >= 32
    BY <1>7
  <2>11. text' = only(ch)
    BY <1>2, <2>3
  <2>12. cs = reset_charset
    BY <1>1, <2>3
  <2>13. charset' = cs /\ esc' = esc
    BY <1>2, <1>7, <2>3
  <2>14. out' = before \o Char(ch)
    BY <1>2, <1>7
  <2>1. /\ text' = only(ch) /\ charset' = reset_charset /\ out' = before \o Char(ch)
        /\ esc' = esc
    BY <2>11, <2>12, <2>13, <2>14
  <2>2. Fits(only(ch), out') /\ out' # <<>>
    <3>1. before \in {<<>>, Char(REPLACEMENT_CHAR)}
      BY <1>1
    <3>. QED  BY <1>7, <2>14, <3>1, CharFits
  <2>4. Run(only(ch)) /\ Under(reset_charset, only(ch))
    BY ONLY <2>3, StartsNothing
  <2>. QED  BY <1>4, <1>5, <2>1, <2>2, <2>4 DEF ParserInv, Right
<1>8. CASE ch \in 192..253
  <2>9. ch \in 0..255 /\ ch \notin 128..191 /\ ch >= 128 /\ ch >= 32
    BY <1>8
  <2>11. text' = only(ch)
    BY <1>2, <2>9
  <2>12. cs = reset_charset
    BY <1>1, <2>9
  <2>13. charset' = utf8_charset(cs, ch)[1] /\ out' = before \o utf8_charset(cs, ch)[2]
    BY <1>2, <2>9
  <2>14. esc' = esc
    BY <1>2, <2>9
  <2>1. /\ text' = only(ch) /\ charset' = utf8_charset(reset_charset, ch)[1]
        /\ out' = before \o utf8_charset(reset_charset, ch)[2] /\ esc' = esc
    BY <2>11, <2>12, <2>13, <2>14
  <2>2. /\ opened(ch) \in Charsets /\ Under(opened(ch), only(ch))
        /\ opened(ch).following > 0 /\ opened(ch).count = 0
        /\ utf8_charset(reset_charset, ch) = <<opened(ch), <<>>>>
    BY <1>8, Opens
  <2>3. charset' = opened(ch) /\ out' = before \o <<>>
    BY <2>1, <2>2
  <2>4. Fits(only(ch), out') /\ out' = before /\ (before = Char(REPLACEMENT_CHAR) => out' # <<>>)
    <3>1. ch \in 0..255 /\ ch \notin 32..127
      BY <1>8
    <3>2. Instead(before)
      BY <1>1 DEF Instead
    <3>3. Refuses(ch, before)
      BY <3>1, <3>2, RefusedFits
    <3>. QED  BY <2>3, <3>3 DEF Refuses
  <2>5. Run(only(ch))
    BY StartsRun
  <2>6. GoesOn
    BY <2>2, <2>3 DEF GoesOn
  <2>7. charset.following = 0 \/ out' # <<>>
    BY <1>1, <1>3, <1>8, <2>4 DEF Charsets
  <2>8. esc'.state = "text"
    BY <1>2, <2>1
  <2>. QED  BY <1>4, <2>1, <2>2, <2>3, <2>4, <2>5, <2>6, <2>7, <2>8 DEF ParserInv, Right
<1>9. CASE ch \in 254..255
  <2>4. ch \in 0..255 /\ ch \notin 192..247 /\ ch \notin 128..191 /\ ch >= 128 /\ ch >= 32
    BY <1>9
  <2>11. text' = only(ch)
    BY <1>2, <2>4
  <2>12. cs = reset_charset
    BY <1>1, <2>4
  <2>13. charset' = utf8_charset(cs, ch)[1] /\ out' = before \o utf8_charset(cs, ch)[2]
    BY <1>2, <2>4
  <2>14. esc' = esc
    BY <1>2, <2>4
  <2>1. /\ text' = only(ch) /\ charset' = utf8_charset(reset_charset, ch)[1]
        /\ out' = before \o utf8_charset(reset_charset, ch)[2] /\ esc' = esc
    BY <2>11, <2>12, <2>13, <2>14
  <2>2. charset' = reset_charset /\ out' = before \o Char(REPLACEMENT_CHAR)
    BY <1>9, <2>1, Refused
  <2>3. Fits(only(ch), out') /\ out' # <<>>
    <3>1. ch \in 0..255 /\ ch \notin 32..127
      BY <1>9
    <3>2. Instead(before)
      BY <1>1 DEF Instead
    <3>3. Refuses(ch, before)
      BY <3>1, <3>2, RefusedFits
    <3>. QED  BY <2>2, <3>3 DEF Refuses
  <2>5. Run(only(ch)) /\ Under(reset_charset, only(ch))
    BY ONLY <2>4, StartsNothing
  <2>. QED  BY <1>4, <1>5, <2>1, <2>2, <2>3, <2>5 DEF ParserInv, Right
<1>10. CASE ch \in 128..191
  <2>9. ch >= 128 /\ ch >= 32
    BY <1>10
  <2>1. /\ text' = longer(text, ch) /\ charset' = utf8_charset(charset, ch)[1]
        /\ out' = <<>> \o utf8_charset(charset, ch)[2] /\ esc' = esc
    BY <1>1, <1>2, <1>10, <2>9
  <2>. DEFINE cs1 == utf8_charset(charset, ch)[1]
              given == utf8_charset(charset, ch)[2]
              z == longer(text, ch)
  <2>2. /\ cs1 \in Charsets /\ Run(z) /\ Under(cs1, z) /\ Fits(z, given)
        /\ given # <<>> \/ (charset.following > 0 /\ cs1.count = charset.count + 1)
    BY <1>3, <1>10, Continues
  <2>3. out' = given
    <3>. DEFINE u == grown(charset, ch)
                c == IF ~u.valid \/ illegalPoint(u.code) THEN REPLACEMENT_CHAR ELSE u.code
    <3>1. utf8_charset(charset, ch) = IF u.count < u.following THEN <<u, <<>>>>
                                      ELSE <<reset_charset, Char(c)>>
      <4>1. ch \in Continuation
        BY <1>10 DEF Continuation
      <4>. QED  BY <4>1, NextByte
    <3>. HIDE DEF u, c
    <3>2. given = <<>> \/ given = Char(c)
      BY <3>1
    <3>. HIDE DEF given
    <3>3. <<>> \o given = given
      BY <3>2 DEF Char
    <3>. QED  BY <2>1, <3>3 DEF given
  <2>4. esc'.state = "text"
    BY <1>2, <2>1
  <2>. HIDE DEF cs1, given, z
  <2>5. charset' = cs1 /\ text' = z
    BY <2>1 DEF cs1, z
  <2>. QED  BY <1>4, <2>2, <2>3, <2>4, <2>5 DEF ParserInv, Right
<1>. QED  BY <1>6, <1>7, <1>8, <1>9, <1>10

\* A byte of a sequence (parse).
LEMMA SequenceRight ==
  ASSUME ParserInv, NEW ch \in 0..255, Sequence(ch)
  PROVE  Right
<1>1. /\ esc.state # "text" /\ esc \in Escapes /\ text' = <<>> /\ charset' = charset
      /\ charset = reset_charset
  BY DEF Sequence, ParserInv
<1>2. noEscape \in Escapes
  BY DEF noEscape, Escapes
<1>3. /\ esc' \in Escapes
      /\ out' = <<>> \/ out' = Do("esc", ch) \/ out' = Do(esc.state, ch)
  <2>1. CASE kind(ch) = "inside"
    BY <1>1, <2>1 DEF Sequence, Escapes
  <2>2. CASE kind(ch) = "illegal"
    BY <1>2, <2>2 DEF Sequence
  <2>3. CASE kind(ch) = "final"
    <3>1. CASE esc.state = "esc"
      <4>1. /\ esc' = IF opens(ch) = "text" THEN noEscape
                      ELSE [state |-> IF esc.long THEN "esc" ELSE opens(ch),
                            long |-> TRUE, escLast |-> FALSE]
            /\ out' = IF esc.long THEN <<>> ELSE Do("esc", ch)
        BY <2>3, <3>1 DEF Sequence
      <4>2. opens(ch) \in {"text", "csi", "osc", "dcs"}
        BY DEF opens
      <4>. QED  BY <1>2, <4>1, <4>2 DEF Escapes
    <3>2. CASE esc.state # "esc"
      BY <1>2, <2>3, <3>2 DEF Sequence
    <3>. QED  BY <3>1, <3>2
  <2>4. kind(ch) \in {"inside", "illegal", "final"}
    BY DEF kind
  <2>. QED  BY <2>1, <2>2, <2>3, <2>4
<1>4. codes(out') = {}
  <2>1. esc.state # "char"
    BY <1>1 DEF Escapes
  <2>. QED  BY <1>3, <2>1, NoCodes, Codes
<1>5. Run(<<>>) /\ Full(<<>>) /\ Ends(<<>>) = {}
  <2>1. Run(<<>>) /\ Full(<<>>)
    BY DEF Run, Full
  <2>. QED  BY <2>1, OneEnding
<1>6. Fits(text', out')
  BY <1>1, <1>4, <1>5, FitsNone
<1>7. ParserInv'
  BY <1>1, <1>3, <1>5, ResetIs, ResetUnder DEF ParserInv
<1>. QED  BY <1>1, <1>6, <1>7 DEF Right

\* Every step.
LEMMA ParserSteps == ParserInv /\ [ParserNext]_parserVars => ParserInv' /\ (ParserNext => Right)
<1>. SUFFICES ASSUME ParserInv, [ParserNext]_parserVars
              PROVE  ParserInv' /\ (ParserNext => Right)
  OBVIOUS
<1>1. ASSUME ParserNext PROVE Right
  <2>1. PICK ch \in Bytes : parse(ch)
    BY <1>1 DEF ParserNext
  <2>2. ch \in 0..255
    BY ParserAssumption
  <2>. QED  BY <2>1, <2>2, TextRight, SequenceRight DEF parse
<1>2. CASE UNCHANGED parserVars
  <2>1. ParserInv'
    BY <1>2 DEF parserVars, ParserInv
  <2>. QED  BY <1>1, <2>1
<1>. QED  BY <1>1, <1>2 DEF Right

\* The invariant has the types.
LEMMA ParserTyped == ParserInv => ParserTypeOK
<1>. SUFFICES ASSUME ParserInv PROVE ParserTypeOK
  OBVIOUS
<1>1. charset.following = 0 => charset.count = 0
  BY ResetIs DEF ParserInv, Under
<1>2. charset.following \in 1..5 => charset.count \in 0..charset.following
  BY SMT DEF ParserInv, Under, Under1, Under2, Under3, Under4, Under5
<1>. QED  BY <1>1, <1>2 DEF ParserInv, ParserTypeOK, Escapes, Charsets, Run

\* The invariant, always.
LEMMA ParserAlways == ParserSpec => []ParserInv
<1>1. ParserInv /\ [ParserNext]_parserVars => ParserInv'
  BY ParserSteps
<1>. QED  BY <1>1, ParserStarts, PTL DEF ParserSpec

\* The parser's records have their types, and no character counts more bytes
\* than follow its first (utf8_charset).
THEOREM ParserTypes == ParserSpec => []ParserTypeOK
BY ParserAlways, ParserTyped, PTL

\* Whatever bytes come, in whatever order, the terminal is given the characters
\* that Unicode's table 3-7 says they encode, and the replacement character for
\* what encodes none (utf8_charset, parse).
THEOREM ParserShowsText == ParserSpec => TextIsShown
<1>1. ASSUME ParserInv, [ParserNext]_parserVars
      PROVE  [/\ ShownAsEncoded'
              /\ esc.state = "text" /\ (charset.following > 0 => charset'.count # charset.count + 1)
                 => out' # <<>> \/ (charset.following = 0 /\ GoesOn)]_parserVars
  BY <1>1, ParserSteps, LinkFits DEF Right
<1>. QED  BY <1>1, ParserAlways, PTL DEF ParserSpec, TextIsShown
=============================================================================
