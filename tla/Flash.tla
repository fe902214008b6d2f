-------------------------------- MODULE Flash --------------------------------
(***************************************************************************)
(* The Flash chip of the emulated TI-84 Plus (apps/tilem/emu/flash.c, and  *)
(* the ports and memory accesses of emu/x4 that reach it).  Software       *)
(* programs and erases it by sequences of writes to two magic addresses;   *)
(* the chip is then busy for a while and answers reads with a status.      *)
(*                                                                         *)
(* A byte is the set of its bits that are 1, so that programming, which    *)
(* can only clear bits, is an intersection.  An address is a sector and    *)
(* the low part of an address in it, of which the chip decodes two.        *)
(***************************************************************************)
EXTENDS Naturals, Sequences, FiniteSets

CONSTANTS Sectors,    \* the sectors of the chip
          Group,      \* the groups that protect a sector
          Overrides,  \* the settings of the port that lifts protection
          FlashBytes, \* the bytes that software writes
          Address,    \* the addresses used: see Places
          MaxDirty    \* bound: addresses that are not blank

FlashByte == SUBSET (0..7)
AA == {1, 3, 5, 7}
h55 == {0, 2, 4, 6}
A0 == {5, 7}
h80 == {7}
h30 == {4, 5}
h10 == {4}
h20 == {5}
h90 == {4, 7}
F0 == 4..7
FF == 0..7

Places == Sectors \X {"AAA", "555"}

ASSUME FlashAssumption ==
  /\ Group \in [Sectors -> SUBSET {1, 2}]
  /\ Overrides \subseteq SUBSET {1, 2}
  /\ FlashBytes \subseteq FlashByte
  /\ Address # {} /\ Address \subseteq Places /\ Sectors \subseteq Nat
  /\ MaxDirty \in Nat

VARIABLES mem,       \* contents of the chip
          flash,     \* command state, lock, pending operation
          delay,     \* TILEM_TIMER_FLASH_DELAY is set
          heard,     \* history: how far the writes spell each command
          fastHeard, \* history: fast mode was entered since the reset
          polled     \* history: a byte was programmed and is being polled

flashVars == <<mem, flash, delay, heard, fastHeard, polled>>

FlashStates == {"READ", "AA", "55", "PROG", "ERASE", "ERAA", "ER55", "ERROR",
                "FASTMODE", "FASTPROG", "FASTEXIT"}

FlashTypeOK ==
  /\ mem \in [Address -> FlashByte]
  /\ flash \in [state : FlashStates, unlock : BOOLEAN, overridegroup : SUBSET {1, 2},
                busy : {"no", "program", "erase_wait", "erase"},
                progaddr : Places, progbyte : FlashByte]
  /\ delay \in BOOLEAN
  /\ polled \in BOOLEAN
  /\ flash.busy # "no" => delay

-----------------------------------------------------------------------------
(* The commands as the data sheet spells them, for the history: at each    *)
(* place the writes that may stand there.                                  *)

At(low, byte) == {[low |-> low, byte |-> byte]}
Anywhere(bytes) == [low : {"AAA", "555"}, byte : bytes]

Commands ==
  LET unlocking == <<At("AAA", AA), At("555", h55)>>
  IN  [program |-> unlocking \o <<At("AAA", A0), Anywhere(FlashByte)>>,
       fast    |-> unlocking \o <<At("AAA", h20)>>,
       again   |-> <<Anywhere({A0}), Anywhere(FlashByte)>>,
       sector  |-> unlocking \o <<At("AAA", h80)>> \o unlocking \o <<Anywhere({h30})>>,
       chip    |-> unlocking \o <<At("AAA", h80)>> \o unlocking \o <<At("AAA", h10)>>]

Unheard == [command \in DOMAIN Commands |-> {}]

\* The prefixes of each command that end with this write.
hears(write) ==
  [command \in DOMAIN Commands |->
     {n \in DOMAIN Commands[command] :
        n - 1 \in heard[command] \cup {0} /\ write \in Commands[command][n]}]

spells(command) == Len(Commands[command]) \in heard'[command]

-----------------------------------------------------------------------------
sector_writable(sector) == Group[sector] \subseteq flash.overridegroup

SectorErased(sectors) ==
  [pa \in Address |-> IF pa[1] \in sectors THEN FF ELSE mem[pa]]

\* The write changes nothing but the state of the command decoder.
goTo(state) ==
  /\ flash' = [flash EXCEPT !.state = state]
  /\ polled' = FALSE
  /\ UNCHANGED <<mem, delay>>

\* Mutant: a bit that cannot be set again is not reported.
program_byte_unchecked(pa, v, fast) ==
  /\ mem' = [mem EXCEPT ![pa] = @ \cap v]
  /\ flash' = [flash EXCEPT !.progaddr = pa, !.progbyte = v, !.busy = "program",
                            !.state = IF fast THEN "FASTMODE" ELSE "READ"]
  /\ delay' = TRUE
  /\ polled' = ~fast

program_byte(pa, v, fast) ==
  /\ mem' = [mem EXCEPT ![pa] = @ \cap v]
  /\ flash' = [flash EXCEPT
       !.progaddr = pa, !.progbyte = v, !.busy = "program",
       !.state = IF fast THEN "FASTMODE" ELSE IF v \subseteq mem[pa] THEN "READ" ELSE "ERROR"]
  /\ delay' = TRUE
  /\ polled' = ~fast

program(pa, v, fast) ==
  IF sector_writable(pa[1]) THEN program_byte(pa, v, fast)
  ELSE goTo(IF fast THEN "FASTMODE" ELSE "READ")

\* The chip remembers the last sector it erased.
erase(sectors) ==
  \/ /\ sectors = {}
     /\ goTo("READ")
  \/ \E last \in sectors :
       /\ \A sector \in sectors : sector <= last
       /\ mem' = SectorErased(sectors)
       /\ flash' = [flash EXCEPT !.state = "READ", !.busy = "erase_wait",
                                 !.progaddr = <<last, "AAA">>]
       /\ delay' = TRUE
       /\ polled' = FALSE

Decoded(pa, v) ==
  LET at(low, byte, state) == IF pa[2] = low /\ v = byte THEN state ELSE "READ"
  IN CASE flash.state = "READ"  -> at("AAA", AA, "AA")
       [] flash.state = "AA"    -> at("555", h55, "55")
       [] flash.state = "ERASE" -> at("AAA", AA, "ERAA")
       [] flash.state = "ERAA"  -> at("555", h55, "ER55")
       [] flash.state = "55" ->
            IF pa[2] # "AAA" THEN "READ"
            ELSE CASE v = h20 -> "FASTMODE" [] v = h80 -> "ERASE"
                   [] v = A0 -> "PROG" [] OTHER -> "READ"
       [] flash.state = "FASTMODE" ->
            CASE v = h90 -> "FASTEXIT" [] v = A0 -> "FASTPROG" [] OTHER -> "READ"
       [] flash.state = "FASTEXIT" -> IF v = F0 THEN "READ" ELSE "FASTMODE"
       [] OTHER -> "READ"

\* tilem_flash_write_byte: what the chip does with a write that it hears.
decode(pa, v) ==
  CASE flash.state = "PROG" -> program(pa, v, FALSE)
    [] flash.state = "FASTPROG" -> program(pa, v, TRUE)
    [] flash.state = "ER55" /\ pa[2] = "AAA" /\ v = h10 ->
         erase({sector \in Sectors : sector_writable(sector)})
    [] flash.state = "ER55" /\ v = h30 ->
         erase({sector \in {pa[1]} : sector_writable(sector)})
    [] OTHER -> goTo(Decoded(pa, v))

\* Mutant: the lock is not looked at.
HearingLocked == flash.busy \notin {"program", "erase"}

Hearing == flash.unlock /\ flash.busy \notin {"program", "erase"}

WriteFlash(pa, v) ==
  IF Hearing
  THEN /\ decode(pa, v)
       /\ heard' = hears([low |-> pa[2], byte |-> v])
       /\ fastHeard' = (fastHeard \/ spells("fast"))
       /\ Cardinality({dirty \in Address : mem'[dirty] # FF}) <= MaxDirty
  ELSE UNCHANGED flashVars

\* What a read returns (the bits that toggle while the chip is busy are left
\* out: nothing depends on them).
ReadValue(pa) ==
  CASE flash.busy = "program" -> {7} \ flash.progbyte
    [] flash.busy = "erase" -> {3}
    [] flash.busy = "erase_wait" -> {}
    [] flash.busy = "no" /\ flash.state = "ERROR" -> ({7} \ flash.progbyte) \cup {5}
    [] OTHER -> mem[pa]

\* A read breaks off a command that is not yet complete.
ReadFlash(pa) ==
  LET cut == flash.busy = "no" /\ flash.state \notin {"ERROR", "FASTMODE", "READ"}
  IN  /\ flash' = IF cut THEN [flash EXCEPT !.state = "READ"] ELSE flash
      /\ heard' = IF cut THEN Unheard ELSE heard
      /\ UNCHANGED <<mem, delay, fastHeard, polled>>

tilem_flash_delay_timer ==
  /\ delay
  /\ flash' = [flash EXCEPT !.busy = IF @ = "erase_wait" THEN "erase" ELSE "no"]
  /\ delay' = (flash.busy = "erase_wait")
  /\ UNCHANGED <<mem, heard, fastHeard, polled>>

\* Port 14; the memory map lets only the system software write it.
SetUnlock(unlock) ==
  /\ flash' = [flash EXCEPT !.unlock = unlock]
  /\ UNCHANGED <<mem, delay, heard, fastHeard, polled>>

\* Port 21.
SetOverride(groups) ==
  /\ flash.unlock
  /\ flash' = [flash EXCEPT !.overridegroup = groups]
  /\ UNCHANGED <<mem, delay, heard, fastHeard, polled>>

\* The reset of the calculator leaves the timer and the lifted protection.
tilem_flash_reset ==
  /\ flash' = [flash EXCEPT !.unlock = FALSE, !.state = "READ", !.busy = "no"]
  /\ heard' = Unheard /\ fastHeard' = FALSE /\ polled' = FALSE
  /\ UNCHANGED <<mem, delay>>

FlashInit ==
  /\ mem = [pa \in Address |-> FF]
  /\ flash = [state |-> "READ", unlock |-> FALSE, overridegroup |-> {}, busy |-> "no",
              progaddr |-> CHOOSE pa \in Address : TRUE, progbyte |-> {}]
  /\ delay = FALSE /\ heard = Unheard /\ fastHeard = FALSE /\ polled = FALSE

FlashNext ==
  \/ \E pa \in Address :
       \/ \E v \in FlashBytes : WriteFlash(pa, v)
       \/ ReadFlash(pa)
  \/ tilem_flash_delay_timer
  \/ \E unlock \in BOOLEAN : SetUnlock(unlock)
  \/ \E groups \in Overrides : SetOverride(groups)
  \/ tilem_flash_reset

FlashSpec == FlashInit /\ [][FlashNext]_flashVars

-----------------------------------------------------------------------------
\* The contents change only with the last write of a command, spelt in full
\* with nothing else between, of an unlocked chip in sectors that are not
\* protected: however the writes of a command are mixed with reads, locks,
\* timers and resets, no half of it is ever taken for another
\* (tilem_flash_write_byte).
OnlyCommandsChange ==
  [][\A pa \in Address : mem'[pa] # mem[pa] =>
       /\ flash.unlock
       /\ sector_writable(pa[1])
       /\ IF mem'[pa] \subseteq mem[pa] THEN spells("program") \/ (fastHeard /\ spells("again"))
          ELSE spells("sector") \/ spells("chip")]_flashVars

\* Software waits for a byte to be programmed by reading it until its highest
\* bit is the one it wrote.  When that read comes the byte is in place: a
\* failure is shown as long as the next command has not begun
\* (tilem_flash_read_byte, program_byte).
PollingTellsTheTruth ==
  LET pa == flash.progaddr IN
  (polled /\ ReadValue(pa) \cap {7} = flash.progbyte \cap {7})
     => mem[pa] = flash.progbyte
=============================================================================
