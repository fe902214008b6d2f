--------------------------------- MODULE Alu ---------------------------------
(***************************************************************************)
(* The arithmetic of the processor (apps/tilem/emu/z80cmds.h): what its    *)
(* instructions make of the accumulator, the pair HL and the flags, which  *)
(* the macros find from single bits of operands and result.                *)
(*                                                                         *)
(* The undocumented flags X and Y, the logic operations, and the operand's *)
(* way to the instruction (registers, memory, index registers) are left    *)
(* out.                                                                    *)
(***************************************************************************)
EXTENDS Integers, Sequences

CONSTANTS Operands,   \* bytes that are computed with
          MaxSteps    \* bound: instructions in a row

ASSUME AluAssumption == Operands \subseteq 0..255 /\ MaxSteps \in Nat

VARIABLES A, F,      \* accumulator and flags
          HL, DE,    \* register pairs
          step,      \* instructions so far
          did        \* history: the last instruction, the bit it took in and the A it found

aluVars == <<A, F, HL, DE, step, did>>

Word == 2 ^ 16

bit(n, k) == (n \div (2 ^ k)) % 2
odd(n) == n % 2 = 1
num(flag) == IF flag THEN 1 ELSE 0

AluTypeOK ==
  /\ A \in 0..255 /\ HL \in 0..Word - 1 /\ DE \in 0..Word - 1
  /\ F \in [s : BOOLEAN, z : BOOLEAN, h : BOOLEAN, p : BOOLEAN, n : BOOLEAN, c : BOOLEAN]

E == DE % 256

-----------------------------------------------------------------------------
(* Sums and differences.  top is the number of the sign bit: 7, or 15 for  *)
(* pairs; res is not cut to the width of the operands yet.  As in C, a     *)
(* difference below 0 wraps around in the type of res.                     *)

flagsOf(x, y, res, top, subtract) ==
  [s |-> bit(res, top) = 1,
   z |-> res % (2 ^ (top + 1)) = 0,
   h |-> odd(bit(x, top - 3) + bit(y, top - 3) + bit(res, top - 3)),
   p |-> /\ (bit(x, top) = bit(y, top)) # subtract
         /\ bit(x, top) # bit(res, top),
   n |-> subtract,
   c |-> bit(res, top + 1) = 1]

plus(x, y, carry) == x + y + carry

minus(x, y, carry, top) == (x - y - carry) % (2 ^ (top + 2))

carryOf(op) == IF op \in {"adc", "sbc", "adc16", "sbc16"} THEN num(F.c) ELSE 0

Sums == {"add", "adc", "add16", "adc16"}

result(op, x, y, top) ==
  IF op \in Sums THEN plus(x, y, carryOf(op)) ELSE minus(x, y, carryOf(op), top)

\* add8, adc8, sub8, sbc8 and cp, which leaves the accumulator.
Arithmetic8(op) ==
  LET res == result(op, A, E, 7)
  IN  /\ F' = flagsOf(A, E, res, 7, op \notin Sums)
      /\ A' = IF op = "cp" THEN A ELSE res % 256
      /\ UNCHANGED <<HL, DE>>

\* add16, adc16, sbc16; the first leaves the sign, zero and overflow flags.
Arithmetic16(op) ==
  LET res == result(op, HL, DE, 15)
      f == flagsOf(HL, DE, res, 15, op \notin Sums)
  IN  /\ F' = IF op = "add16" THEN [F EXCEPT !.h = f.h, !.n = FALSE, !.c = f.c] ELSE f
      /\ HL' = res % Word
      /\ UNCHANGED <<A, DE>>

inc ==
  LET res == (A + 1) % 256
  IN  /\ F' = [flagsOf(A, 0, res, 7, FALSE) EXCEPT
                 !.h = bit(A, 4) # bit(res, 4), !.p = res = 128, !.c = F.c]
      /\ A' = res

dec ==
  LET res == (A - 1) % 256
  IN  /\ F' = [flagsOf(A, 0, res, 7, TRUE) EXCEPT
                 !.h = bit(A, 4) # bit(res, 4), !.p = res = 127, !.c = F.c]
      /\ A' = res

neg ==
  LET res == (-A) % 256
  IN  /\ F' = [flagsOf(A, 0, res, 7, TRUE) EXCEPT
                 !.h = bit(A, 4) # bit(res, 4), !.p = A = 128, !.c = A # 0]
      /\ A' = res

parity(n) ==
  ~odd(bit(n, 0) + bit(n, 1) + bit(n, 2) + bit(n, 3) + bit(n, 4) + bit(n, 5) + bit(n, 6) + bit(n, 7))

\* Mutant: the upper digit is corrected only after a carry.
correctionOfCarry == (IF F.h \/ A % 16 > 9 THEN 6 ELSE 0) + (IF F.c THEN 96 ELSE 0)

\* The rule that daa_table holds the results of.
correction == (IF F.h \/ A % 16 > 9 THEN 6 ELSE 0) + (IF F.c \/ A > 153 THEN 96 ELSE 0)

daa ==
  LET res == (IF F.n THEN A - correction ELSE A + correction) % 256
  IN  /\ F' = [s |-> bit(res, 7) = 1, z |-> res = 0, h |-> bit(A, 4) # bit(res, 4),
               p |-> parity(res), n |-> F.n, c |-> correction >= 96]
      /\ A' = res

-----------------------------------------------------------------------------
(* Shifts and rotations: the bit that comes in at the other end.           *)

Lefts == {"rlc", "rl", "sla", "slia"}
Rights == {"rrc", "rr", "sra", "srl"}

bitIn(op) ==
  CASE op \in {"rlc", "sra"} -> bit(A, 7)
    [] op = "rrc"            -> bit(A, 0)
    [] op \in {"rl", "rr"}   -> num(F.c)
    [] op = "slia"           -> 1
    [] op \in {"sla", "srl"} -> 0

shifted(op) ==
  IF op \in Lefts THEN ((A * 2) + bitIn(op)) % 256 ELSE (A \div 2) + (128 * bitIn(op))

bitOut(op) == IF op \in Lefts THEN bit(A, 7) ELSE bit(A, 0)

shift(op) ==
  LET res == shifted(op)
  IN  /\ F' = [s |-> bit(res, 7) = 1, z |-> res = 0, h |-> FALSE,
               p |-> parity(res), n |-> FALSE, c |-> bitOut(op) = 1]
      /\ A' = res

\* rlca, rla, rrca, rra: the flags that tell of the result are left.
rotateA(op) ==
  /\ F' = [F EXCEPT !.h = FALSE, !.n = FALSE, !.c = bitOut(op) = 1]
  /\ A' = shifted(op)

-----------------------------------------------------------------------------
AluInit ==
  /\ A \in Operands
  /\ \E e \in Operands : DE = (A * 256) + e /\ HL = (e * 256) + A
  /\ \E c \in BOOLEAN :
       F = [s |-> FALSE, z |-> FALSE, h |-> FALSE, p |-> FALSE, n |-> FALSE, c |-> c]
  /\ step = 0 /\ did = <<"none", 0, 0>>

executeOpcode(op, carry) == step < MaxSteps /\ step' = step + 1 /\ did' = <<op, carry, A>>

AluNext ==
  \/ \E op \in {"add", "adc", "sub", "sbc", "cp"} :
       executeOpcode(op, carryOf(op)) /\ Arithmetic8(op)
  \/ \E op \in {"add16", "adc16", "sbc16"} :
       executeOpcode(op, carryOf(op)) /\ Arithmetic16(op)
  \/ \E op \in Lefts \cup Rights :
       executeOpcode(op, bitIn(op)) /\ shift(op) /\ UNCHANGED <<HL, DE>>
  \/ \E op \in {"rlc", "rl", "rrc", "rr"} :
       executeOpcode(op, bitIn(op)) /\ rotateA(op) /\ UNCHANGED <<HL, DE>>
  \/ /\ \/ executeOpcode("inc", 0) /\ inc
        \/ executeOpcode("dec", 0) /\ dec
        \/ executeOpcode("neg", 0) /\ neg
        \/ executeOpcode("daa", 0) /\ daa
     /\ UNCHANGED <<HL, DE>>

AluSpec == AluInit /\ [][AluNext]_aluVars

-----------------------------------------------------------------------------
(* What the numbers mean.                                                  *)

Signed(n, width) == IF n >= width \div 2 THEN n - width ELSE n
Overflows(n, width) == n < -(width \div 2) \/ n >= width \div 2

\* Two decimal digits in a byte.
Decimal(n) == n % 16 <= 9 /\ n \div 16 <= 9
Value(n) == 10 * (n \div 16) + (n % 16)

\* The sum, difference, and the flags are those of arithmetic: with the carry
\* for unsigned numbers and the overflow for signed ones.
Exact(x, y, r, sum, signedSum, width) ==
  /\ r = sum % width
  /\ F'.c = (sum \notin 0..width - 1)
  /\ F'.s = (Signed(r, width) < 0) /\ F'.z = (r = 0)
  /\ F'.p = Overflows(signedSum, width)

ArithmeticIsExact ==
  LET op == did'[1]
      carry == did'[2]
  IN  /\ op \in {"add", "adc"} =>
           Exact(A, E, A', A + E + carry, Signed(A, 256) + Signed(E, 256) + carry, 256)
      /\ op \in {"sub", "sbc"} =>
           Exact(A, E, A', A - E - carry, Signed(A, 256) - Signed(E, 256) - carry, 256)
      /\ op = "cp" => /\ F'.c = (A < E) /\ F'.z = (A = E)
                      /\ (F'.s # F'.p) = (Signed(A, 256) < Signed(E, 256))
      /\ op = "adc16" =>
           Exact(HL, DE, HL', HL + DE + carry, Signed(HL, Word) + Signed(DE, Word) + carry, Word)
      /\ op = "sbc16" =>
           Exact(HL, DE, HL', HL - DE - carry, Signed(HL, Word) - Signed(DE, Word) - carry, Word)
      /\ op = "add16" => HL' + (Word * num(F'.c)) = HL + DE
      /\ op \in Lefts => (A * 2) + carry = (256 * num(F'.c)) + A'
      /\ op \in Rights => (256 * carry) + A = (2 * A') + num(F'.c)

\* The decimal adjustment after a sum or difference of two decimal bytes: the
\* digits are those of the decimal result, and the carry is a hundred.
DecimalIsExact ==
  LET sum == did[1] \in {"add", "adc"}
      value == IF sum THEN Value(did[3]) + Value(E) + did[2] ELSE Value(did[3]) - Value(E) - did[2]
  IN  /\ did'[1] = "daa" /\ did[1] \in {"add", "adc", "sub", "sbc"}
      /\ Decimal(did[3]) /\ Decimal(E)
      => /\ Decimal(A') /\ Value(A') = value % 100
         /\ F'.c = (value \notin 0..99)

\* Programs that compute with bytes, pairs and decimal digits get what
\* arithmetic says, and the flags they branch on tell the truth, though the
\* macros of z80cmds.h find them bit by bit and the decimal adjustment knows
\* no more of the operation before it than two flags.
NumbersComeOut == [][ArithmeticIsExact /\ DecimalIsExact]_aluVars
=============================================================================
