------------------------------ MODULE Terminal ------------------------------
(***************************************************************************)
(* The screen of yaft (apps/yaft/terminal.cpp and the functions of         *)
(* ctrlseq/esc.h and ctrlseq/csi.h): what each printable character,        *)
(* control character and escape sequence does to the cells, the cursor,    *)
(* the scroll margins and the flags of the lines to draw.                  *)
(*                                                                         *)
(* A cell is a character and its width.  Colours, attributes and pixmaps   *)
(* of cells, and the answers sent to the child, are left out.              *)
(***************************************************************************)
EXTENDS Integers, FiniteSets, SequencesExt

CONSTANTS Lines, Cols,    \* the cells allocated
          Heights,        \* the numbers of lines the keyboard leaves
          Halfs, Wides,   \* characters of one column, and of two
          Numbers,        \* parameters of escape sequences
          TabStop,
          MaxOps          \* bound: characters and sequences received

ASSUME TerminalAssumption ==
  /\ Lines \in Nat \ {0, 1} /\ Cols \in Nat \ {0, 1}
  /\ Heights \subseteq 2..Lines /\ Lines \in Heights
  /\ Numbers \subseteq Nat /\ TabStop \in Nat \ {0} /\ MaxOps \in Nat
  /\ Halfs \cap Wides = {}

Rows == 0..Lines - 1
Columns == 0..Cols - 1

Space == "space"
Cell(char, width) == [char |-> char, width |-> width]
Erased == Cell(Space, "half")

VARIABLES term,      \* struct terminal_t
          received,  \* number of operations so far
          op, last   \* history: the last operation; where it printed

terminalVars == <<term, received, op, last>>

TerminalTypeOK ==
  /\ term.lines \in Heights
  /\ \A y \in Rows, x \in Columns :
       term.cells[y][x].width \in {"half", "wide", "next"}
  /\ term.y \in Rows /\ term.x \in Columns
  /\ term.top \in Rows /\ term.bottom \in Rows /\ term.top < term.bottom
  /\ term.wrap \in BOOLEAN /\ term.clear \in BOOLEAN
  /\ term.mode \subseteq {"origin", "amright", "vwbs"}
  /\ term.dirty \subseteq Rows /\ term.tabs \subseteq Columns
  /\ term.saved \in [y : Rows, x : Columns, origin : BOOLEAN]

-----------------------------------------------------------------------------
(* Cells. *)

eraseCells(t, S) ==
  [t EXCEPT !.cells = [y \in Rows |-> [x \in Columns |->
                         IF <<y, x>> \in S THEN Erased ELSE @[y][x]]],
            !.dirty = @ \cup {cell[1] : cell \in S}]

put(t, y, x, cell) == [t EXCEPT !.cells[y][x] = cell, !.dirty = @ \cup {y}]

putWide(t, y, x, char) ==
  put(put(t, y, x, Cell(char, "wide")), y, x + 1, Cell(char, "next"))

copyCell(t, y, dst, src) ==
  LET cell == t.cells[y][src]
  IN  CASE cell.width = "next" -> t
        [] cell.width = "wide" /\ dst = Cols - 1 -> eraseCells(t, {<<y, dst>>})
        [] cell.width = "wide" /\ dst # Cols - 1 -> putWide(t, y, dst, cell.char)
        [] cell.width = "half" -> put(t, y, dst, cell)

\* The width the cursor moves by.
columnsOf(t, char) == IF char \in Wides /\ t.x + 1 < Cols THEN 2 ELSE 1

setCell(t, char) ==
  LET y == t.y
      x == t.x
  IN  IF columnsOf(t, char) = 2 THEN putWide(t, y, x, char)
      ELSE LET u == put(t, y, x, Cell(char, IF char \in Wides THEN "wide" ELSE "half"))
           IN  IF /\ char \in Halfs /\ x + 1 < Cols
                  /\ t.cells[y][x + 1].width = "next"
               THEN eraseCells(u, {<<y, x + 1>>})
               ELSE u

swapLines(cells, i, j) == [cells EXCEPT ![i] = cells[j], ![j] = cells[i]]

\* Mutant: the lines are swapped from the wrong end.
swapsBackwards(from, to, offset) ==
  LET n == to - from + 1 - (IF offset > 0 THEN offset ELSE -offset)
  IN  IF offset > 0 THEN [i \in 1..n |-> from + n - i] ELSE [i \in 1..n |-> to - n + i]

\* The lines whose turn it is in the loops of scroll.
swaps(from, to, offset) ==
  LET n == to - from + 1 - (IF offset > 0 THEN offset ELSE -offset)
  IN  IF offset > 0 THEN [i \in 1..n |-> from + i - 1] ELSE [i \in 1..n |-> to - i + 1]

\* The lines scroll erases: more than there are between the margins when the
\* offset is larger than that.
blanked(from, to, offset) ==
  IF offset > 0 THEN to - offset + 1..to ELSE from..from - offset - 1

\* Mutant: only the blank lines are marked.
markErased(from, to, offset) == blanked(from, to, offset)

marked(from, to, offset) == from..to

scroll(t, from, to, offset) ==
  IF offset = 0 \/ from >= to THEN t
  ELSE LET swapped == FoldLeft(LAMBDA cells, y : swapLines(cells, y, y + offset),
                               t.cells, swaps(from, to, offset))
           u == [t EXCEPT !.cells = swapped, !.dirty = @ \cup marked(from, to, offset)]
       IN  eraseCells(u, blanked(from, to, offset) \X Columns)

-----------------------------------------------------------------------------
(* The cursor. *)

clamp(n, low, high) == IF n < low THEN low ELSE IF n > high THEN high ELSE n

\* Relative movement, which may scroll.
moveCursor(t, dy, dx) ==
  LET beyond == t.x + dx >= Cols
      u == [t EXCEPT !.x = clamp(t.x + dx, 0, Cols - 1),
                     !.wrap = @ \/ (beyond /\ "amright" \in t.mode)]
      atMargin == (t.y = t.top /\ dy < 0) \/ (t.y = t.bottom /\ dy > 0)
  IN  IF atMargin THEN scroll(u, t.top, t.bottom, dy)
      ELSE [u EXCEPT !.y = clamp(t.y + dy, 0, t.lines - 1)]

\* Absolute movement: origin mode counts lines from the top margin.
setCursor(t, y, x) ==
  LET origin == "origin" \in t.mode
  IN  [t EXCEPT !.x = clamp(x, 0, Cols - 1), !.wrap = FALSE,
         !.y = IF origin THEN clamp(y + t.top, t.top, t.bottom)
               ELSE clamp(y, 0, t.lines - 1)]

\* Mutant: a wide character does not fold in the last column.
noFoldForWide(t, char) == t.wrap /\ t.x = Cols - 1

folds(t, char) == (t.wrap \/ char \in Wides) /\ t.x = Cols - 1

folded(t, char) ==
  IF folds(t, char) THEN moveCursor(setCursor(t, t.y, 0), 1, 0) ELSE t

\* The terminal when addch is about to write the character, and afterwards.
beforeWrite(t, char) == [folded(folded(t, char), char) EXCEPT !.wrap = FALSE]

addch(t, char) ==
  LET u == beforeWrite(t, char)
  IN  moveCursor(setCell(u, char), 0, columnsOf(u, char))

reset(t) ==
  [eraseCells(t, (0..t.lines - 1) \X Columns) EXCEPT
     !.mode = {"amright"}, !.wrap = FALSE, !.top = 0, !.bottom = t.lines - 1,
     !.x = 0, !.y = 0, !.saved = [y |-> 0, x |-> 0, origin |-> FALSE],
     !.tabs = {x \in Columns : x % TabStop = 0}]

-----------------------------------------------------------------------------
(* Control characters and escape sequences without parameters. *)

bs(t) ==
  IF "vwbs" \in t.mode /\ t.x >= 1 /\ t.cells[t.y][t.x - 1].width = "next"
  THEN moveCursor(t, 0, -2)
  ELSE moveCursor(t, 0, -1)

tab(t) ==
  LET stops == {x \in t.tabs : x > t.x}
  IN  setCursor(t, t.y, IF stops = {} THEN Cols - 1 ELSE Min(stops))

nl(t) == moveCursor(t, 1, 0)

cr(t) == setCursor(t, t.y, 0)

save_state(t) ==
  [t EXCEPT !.saved = [y |-> t.y, x |-> t.x, origin |-> "origin" \in t.mode]]

restore_state(t) ==
  [t EXCEPT !.y = t.saved.y, !.x = t.saved.x,
            !.mode = IF t.saved.origin THEN @ \cup {"origin"} ELSE @ \ {"origin"}]

set_tabstop(t) == [t EXCEPT !.tabs = @ \cup {t.x}]

control(t, c) ==
  CASE c = "BS" -> bs(t)
    [] c = "HT" -> tab(t)
    [] c = "LF" -> nl(t)
    [] c = "CR" -> cr(t)

escape(t, c) ==
  CASE c = "7" -> save_state(t)
    [] c = "8" -> restore_state(t)
    [] c = "D" -> nl(t)
    [] c = "E" -> nl(cr(t))
    [] c = "H" -> set_tabstop(t)
    [] c = "M" -> moveCursor(t, -1, 0)
    [] c = "c" -> reset(t)

-----------------------------------------------------------------------------
(* Sequences with parameters: a sequence of numbers, where an empty        *)
(* parameter is 0.                                                         *)

atLeastOne(parm) ==
  LET sum == FoldLeft(LAMBDA a, b : a + b, 0, parm) IN IF sum <= 0 THEN 1 ELSE sum

lastOr0(parm) == IF parm = <<>> THEN 0 ELSE parm[Len(parm)]

insert_blank(t, num) ==
  LET step(u, x) == IF t.x <= x - num THEN copyCell(u, t.y, x, x - num)
                    ELSE eraseCells(u, {<<t.y, x>>})
  IN  FoldLeft(step, t, [i \in 1..Cols - t.x |-> Cols - i])

delete_char(t, num) ==
  LET step(u, x) == IF x + num < Cols THEN copyCell(u, t.y, x, x + num)
                    ELSE eraseCells(u, {<<t.y, x>>})
  IN  FoldLeft(step, t, [i \in 1..Cols - t.x |-> t.x + i - 1])

erase_char(t, num) ==
  eraseCells(t, {<<t.y, x>> : x \in t.x..clamp(t.x + num, 0, Cols) - 1})

\* Mode 0 erases from the cursor on, 1 up to it, 2 all.
inMode(mode, place, cursor) ==
  CASE mode = 0 -> place >= cursor [] mode = 1 -> place <= cursor [] mode = 2 -> TRUE

erase_line(t, mode) ==
  IF mode \notin 0..2 THEN t
  ELSE eraseCells(t, {<<t.y, x>> : x \in {x \in Columns : inMode(mode, x, t.x)}})

erase_display(t, mode) ==
  IF mode \notin 0..2 THEN t
  ELSE LET place(y, x) == y * Cols + x
           rows == IF mode = 1 THEN 0..t.y ELSE 0..t.lines - 1
       IN  [eraseCells(t, {cell \in rows \X Columns :
                             inMode(mode, place(cell[1], cell[2]), place(t.y, t.x))})
            EXCEPT !.clear = TRUE]

\* insert_line and delete_line; in origin mode not outside the margins.
scrollLines(t, offset) ==
  IF "origin" \in t.mode /\ t.y \notin t.top..t.bottom THEN t
  ELSE scroll(t, t.y, t.bottom, offset)

curs_pos(t, parm) ==
  LET from0(n) == IF n < 1 THEN 0 ELSE n - 1
  IN  CASE parm = <<>>  -> setCursor(t, 0, 0)
        [] Len(parm) = 2 -> setCursor(t, from0(parm[1]), from0(parm[2]))
        [] OTHER         -> t

\* A margin of 0, none or too much is that of the screen.
set_margin(t, parm) ==
  LET line(n, default) == IF n - 1 \in 0..t.lines - 1 THEN n - 1 ELSE default
      top == IF parm = <<>> THEN 0 ELSE line(parm[1], 0)
      bottom == IF parm = <<>> THEN t.lines - 1 ELSE line(parm[2], t.lines - 1)
  IN  IF Len(parm) \notin {0, 2} \/ top >= bottom THEN t
      ELSE setCursor([t EXCEPT !.top = top, !.bottom = bottom], 0, 0)

\* Of mode: 6, origin; 7, wrap at the right margin; 8901, width of backspace.
Mode(number) ==
  CASE number = 6 -> {"origin"} [] number = 7 -> {"amright"}
    [] number = 8901 -> {"vwbs"} [] OTHER -> {}

set_mode(t, number) ==
  LET u == [t EXCEPT !.mode = @ \cup Mode(number)]
  IN  IF number = 6 THEN setCursor(u, 0, 0) ELSE u

reset_mode(t, number) ==
  LET u == [t EXCEPT !.mode = @ \ Mode(number)]
  IN  CASE number = 6 -> setCursor(u, 0, 0)
        [] number = 7 -> [u EXCEPT !.wrap = FALSE]
        [] OTHER      -> u

clear_tabstop(t, parm) ==
  LET n == lastOr0(parm)
  IN  [t EXCEPT !.tabs = CASE n = 0 -> @ \ {t.x} [] n = 3 -> {} [] OTHER -> @]

csi(t, c, parm) ==
  LET num == atLeastOne(parm)
  IN  CASE c = "@" -> insert_blank(t, num)
        [] c = "A" -> moveCursor(t, -num, 0)
        [] c \in {"B", "e"} -> moveCursor(t, num, 0)
        [] c \in {"C", "a"} -> moveCursor(t, 0, num)
        [] c = "D" -> moveCursor(t, 0, -num)
        [] c = "E" -> cr(moveCursor(t, num, 0))
        [] c = "F" -> cr(moveCursor(t, -num, 0))
        [] c = "G" -> setCursor(t, t.y, lastOr0(parm) - 1)
        [] c = "d" -> setCursor(t, lastOr0(parm) - 1, t.x)
        [] c = "H" -> curs_pos(t, parm)
        [] c = "J" -> erase_display(t, lastOr0(parm))
        [] c = "K" -> erase_line(t, lastOr0(parm))
        [] c = "L" -> scrollLines(t, -num)
        [] c = "M" -> scrollLines(t, num)
        [] c = "P" -> delete_char(t, num)
        [] c = "X" -> erase_char(t, num)
        [] c = "g" -> clear_tabstop(t, parm)
        [] c = "r" -> set_margin(t, parm)

\* By the time the number of lines changes, the margins are the screen's; the
\* cursor stays where it was.
term_resize(t, lines) ==
  IF lines = t.lines THEN t
  ELSE [t EXCEPT !.lines = lines, !.top = 0, !.bottom = lines - 1]

-----------------------------------------------------------------------------
TerminalInit ==
  /\ term = reset([cells |-> [y \in Rows |-> [x \in Columns |-> Erased]],
                   lines |-> Lines, dirty |-> {}, clear |-> FALSE, mode |-> {},
                   wrap |-> FALSE, top |-> 0, bottom |-> 0, x |-> 0, y |-> 0,
                   saved |-> <<>>, tabs |-> {}])
  /\ received = 0
  /\ op = "reset" /\ last = <<0, 0>>

\* Scrolling by more lines than lie between the margins erases lines outside
\* them; where there are none, what it does is undefined and not modelled.
Defined(t, num) ==
  /\ t.bottom - num + 1 >= 0
  /\ t.top + num <= Lines /\ t.y + num <= Lines

Receive(kind) == received < MaxOps /\ received' = received + 1 /\ op' = kind

Character ==
  /\ Receive("print")
  /\ \E char \in Halfs \cup Wides :
       /\ term' = addch(term, char)
       /\ last' = <<beforeWrite(term, char).y, beforeWrite(term, char).x>>

Control ==
  /\ \E c \in {"BS", "HT", "LF", "CR"} :
       Receive(c) /\ term' = control(term, c)
  /\ UNCHANGED last

Escape ==
  /\ \E c \in {"7", "8", "D", "E", "H", "M", "c"} :
       Receive(c) /\ term' = escape(term, c)
  /\ UNCHANGED last

CsiNumber ==
  /\ \E c \in {"@", "A", "B", "C", "D", "E", "F", "G", "d", "P", "X"}, n \in Numbers :
       /\ c \in {"A", "B", "E", "F"} => Defined(term, n)
       /\ Receive(c) /\ term' = csi(term, c, <<n>>)
  /\ UNCHANGED last

CsiScroll ==
  /\ \E c \in {"L", "M"}, n \in Numbers :
       /\ Defined(term, n)
       /\ Receive("scroll") /\ term' = csi(term, c, <<n>>)
  /\ UNCHANGED last

CsiErase ==
  /\ \E c \in {"J", "K"}, n \in 0..2 : Receive(c) /\ term' = csi(term, c, <<n>>)
  /\ UNCHANGED last

CsiPosition ==
  /\ \E c \in {"H", "r"}, parm \in {<<>>} \cup (Numbers \X Numbers) :
       Receive(c) /\ term' = csi(term, c, parm)
  /\ UNCHANGED last

CsiMode ==
  /\ \E c \in {"h", "l"}, number \in {6, 7, 8901} :
       /\ Receive(c)
       /\ term' = IF c = "h" THEN set_mode(term, number) ELSE reset_mode(term, number)
  /\ UNCHANGED last

CsiTabs ==
  /\ \E n \in {0, 3} : Receive("g") /\ term' = csi(term, "g", <<n>>)
  /\ UNCHANGED last

Resize ==
  /\ \E lines \in Heights : Receive("resize") /\ term' = term_resize(term, lines)
  /\ UNCHANGED last

\* refresh draws the lines that are marked; the cursor's, which it always
\* draws and leaves marked, is not told apart here.
Refresh ==
  /\ term.dirty # {}
  /\ term' = [term EXCEPT !.dirty = @ \ (0..term.lines - 1), !.clear = FALSE]
  /\ op' = "refresh"
  /\ UNCHANGED <<received, last>>

TerminalNext ==
  \/ Character \/ Control \/ Escape
  \/ CsiNumber \/ CsiScroll \/ CsiErase \/ CsiPosition \/ CsiMode \/ CsiTabs
  \/ Resize \/ Refresh

TerminalSpec == TerminalInit /\ [][TerminalNext]_terminalVars

-----------------------------------------------------------------------------
\* Whatever changes a cell marks its line to be drawn (erase_cell, copy_cell,
\* set_cell, scroll), or the display goes on to show what was there.
ChangesAreDrawn ==
  [][\A y \in Rows : term'.cells[y] # term.cells[y] => y \in term'.dirty]_term

\* insert_line and delete_line, which swap lines in place, have moved each
\* line between the cursor and the bottom margin by as many lines as they were
\* told to, if it did not leave that region.
LinesMoveTogether ==
  [][op' = "scroll" /\ term'.cells # term.cells =>
       \E n \in Numbers \cup {1} : \E offset \in {n, -n} :
         \A y \in term.y..term.bottom :
           term'.cells[y] = IF y + offset \in term.y..term.bottom
                            THEN term.cells[y + offset]
                            ELSE [x \in Columns |-> Erased]]_terminalVars

\* Text flows: a character printed right after another stands next to it or,
\* when there is no room, at the start of the line below, for which the text
\* may have moved up; the first one is still there.  Excepted are the last
\* line of the screen below the bottom margin, where nothing scrolls, and
\* origin mode, in which folding (set_cursor) counts lines twice.
Flow ==
  LET y == last[1]
      x == last[2]
      widthOf(cell) == IF cell.width = "wide" THEN 2 ELSE 1
      next == x + widthOf(term.cells[y][x])
      room == next + widthOf(term'.cells[last'[1]][last'[2]]) <= Cols
      same(up) == term'.cells[y - up][x] = term.cells[y][x]
  IN  IF room THEN last' = <<y, next>> /\ same(0)
      ELSE \/ last' = <<y + 1, 0>> /\ same(0)
           \/ last' = <<y, 0>> /\ y = term.bottom /\ same(1)

TextFlows ==
  [][/\ op = "print" /\ op' = "print" /\ "amright" \in term.mode
     /\ "origin" \notin term.mode /\ last[1] < term.lines
     /\ term.y # term.lines - 1 \/ term.bottom = term.lines - 1
     => Flow]_terminalVars
=============================================================================
