--------------------------------- MODULE Lcd ---------------------------------
(***************************************************************************)
(* The display driver of the emulated calculator (apps/tilem/emu/lcd.c):   *)
(* software sets a position and writes bytes, or groups of six pixels that *)
(* lie across the bytes of the memory, and the position moves on.          *)
(*                                                                         *)
(* A byte is the set of its bits that are 1; bit 7 is the leftmost pixel.  *)
(***************************************************************************)
EXTENDS Integers

CONSTANTS Stride,     \* bytes in a row of the memory (16)
          Height,     \* rows (64)
          Sprites,    \* the bytes that are written
          MaxWrites   \* bound: bytes written

ASSUME LcdAssumption ==
  /\ Stride \in Nat \ {0} /\ Height \in Nat \ {0} /\ MaxWrites \in Nat
  /\ Sprites \subseteq SUBSET (0..7)

VARIABLES lcdmem,     \* the bytes of each row
          lcd,        \* mode, direction and position
          drawn       \* writes so far, and the cell the last one was meant for

lcdVars == <<lcdmem, lcd, drawn>>

LcdByte == SUBSET (0..7)
Modes6and8 == {6, 8}     \* pixels in a cell

LcdTypeOK ==
  /\ lcdmem \in [0..Height - 1 -> [0..Stride - 1 -> LcdByte]]
  /\ lcd \in [mode : Modes6and8, inc : {"up", "down", "left", "right"},
              x : -1..(Stride * 8 + 5) \div 6, y : -1..Height, busy : BOOLEAN]

shl(byte, n) == {bit \in 0..7 : bit - n \in byte}
shr(byte, n) == {bit \in 0..7 : bit + n \in byte}

xlimit == IF lcd.mode = 8 THEN Stride ELSE (Stride * 8 + 5) \div 6

\* A position beyond the edge comes in again on the other side, but only when
\* it is used.
X == IF lcd.x >= xlimit THEN 0 ELSE IF lcd.x < 0 THEN xlimit - 1 ELSE lcd.x
Y == IF lcd.y >= Height THEN 0 ELSE IF lcd.y < 0 THEN Height - 1 ELSE lcd.y

Moved ==
  [lcd EXCEPT
     !.x = CASE lcd.inc = "left" -> X - 1 [] lcd.inc = "right" -> X + 1 [] OTHER -> X,
     !.y = CASE lcd.inc = "up" -> Y - 1 [] lcd.inc = "down" -> Y + 1 [] OTHER -> Y,
     !.busy = TRUE]

\* Mutant: in the second byte the old pixels stay.
WriteSixOver(row, sprite) ==
  LET byte == (6 * X) \div 8
      shift == (6 * X) % 8
      pixels == shl(sprite, 2)
      first == [row EXCEPT ![byte] = (@ \ shr(2..7, shift)) \cup shr(pixels, shift)]
  IN  IF shift > 2 /\ byte < Stride - 1
      THEN [first EXCEPT ![byte + 1] = @ \cup shl(pixels, 8 - shift)] ELSE first

\* The bytes of a row after six pixels were written at cell X.
WriteSix(row, sprite) ==
  LET col == 6 * X
      byte == col \div 8
      shift == col % 8
      pixels == shl(sprite, 2)
      first == [row EXCEPT ![byte] = (@ \ shr(2..7, shift)) \cup shr(pixels, shift)]
  IN  IF shift > 2 /\ byte < Stride - 1
      THEN [first EXCEPT ![byte + 1] =
              (@ \ shl(2..7, 8 - shift)) \cup shl(pixels, 8 - shift)]
      ELSE first

lcd_write(sprite) ==
  /\ ~lcd.busy /\ drawn.writes < MaxWrites
  /\ lcdmem' = [lcdmem EXCEPT ![Y] = IF lcd.mode = 8 THEN [@ EXCEPT ![X] = sprite]
                                     ELSE WriteSix(@, sprite)]
  /\ lcd' = Moved
  /\ drawn' = [writes |-> drawn.writes + 1, sprite |-> sprite]

\* What is read goes through a register and is left out; the position moves.
lcd_read ==
  /\ ~lcd.busy
  /\ lcd' = Moved
  /\ UNCHANGED <<lcdmem, drawn>>

lcd_control ==
  /\ ~lcd.busy
  /\ \/ \E mode \in Modes6and8 : lcd' = [lcd EXCEPT !.mode = mode, !.busy = TRUE]
     \/ \E inc \in {"up", "down", "left", "right"} :
          lcd' = [lcd EXCEPT !.inc = inc, !.busy = TRUE]
     \/ \E x \in 0..(Stride * 8 + 5) \div 6 : lcd' = [lcd EXCEPT !.x = x, !.busy = TRUE]
     \/ \E y \in 0..Height - 1 : lcd' = [lcd EXCEPT !.y = y, !.busy = TRUE]
  /\ UNCHANGED <<lcdmem, drawn>>

lcd_delay_timer ==
  /\ lcd.busy
  /\ lcd' = [lcd EXCEPT !.busy = FALSE]
  /\ UNCHANGED <<lcdmem, drawn>>

AtRest == [mode |-> 8, inc |-> "right", x |-> 0, y |-> 0, busy |-> FALSE]

lcd_reset == lcd' = AtRest /\ UNCHANGED <<lcdmem, drawn>>

LcdInit ==
  /\ lcdmem = [y \in 0..Height - 1 |-> [x \in 0..Stride - 1 |-> {}]]
  /\ lcd = AtRest
  /\ drawn = [writes |-> 0, sprite |-> {}]

LcdNext ==
  \/ \E sprite \in Sprites : lcd_write(sprite)
  \/ lcd_read \/ lcd_control \/ lcd_delay_timer \/ lcd_reset

LcdSpec == LcdInit /\ [][LcdNext]_lcdVars

-----------------------------------------------------------------------------
Lit(y, column) == 7 - (column % 8) \in lcdmem[y][column \div 8]

\* A byte that is written shows in its own cell, wherever that cell lies
\* across the bytes of the memory and in whatever way the position got there,
\* and in no other pixel; what is right of the edge is cut off
\* (tilem_lcd_t6a04_write).
DrawsItsCell ==
  [][drawn'.writes > drawn.writes =>
       \A y \in 0..Height - 1, column \in 0..8 * Stride - 1 :
         Lit(y, column)' =
           IF y = Y /\ column \div lcd.mode = X
           THEN lcd.mode - 1 - (column % lcd.mode) \in drawn'.sprite
           ELSE Lit(y, column)]_lcdVars
=============================================================================
