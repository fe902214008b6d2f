---------------------------- MODULE MCCalculator ----------------------------
(* The parts of the emulated calculator for TLC.  They do not touch each   *)
(* other's state, so each run of the system works one part and leaves the  *)
(* others as they start: what is explored is the sum of the parts and not  *)
(* their product.                                                          *)
EXTENDS LinkPort, Flash, Z80Timers, UserTimers, Lcd, TLC

VARIABLE part   \* the part that works

BytesDef == {<<0, 1>>, <<1, 1>>}
ModesDef == {{}, {"assist", "error"}}

GroupDef == (1 :> {}) @@ (2 :> {1})
OverridesDef == {{}, {1}}
FlashBytesDef == {AA, h55, A0, h80, h30, h10, h20, h90}
AddressDef == {<<1, "AAA">>, <<2, "555">>}

SpritesDef == {{0, 6}}

MCVars == <<part, linkVars, flashVars, z80Vars, userTimerVars, lcdVars>>

MCInit ==
  /\ part \in {"link", "flash", "processor", "timer", "lcd"}
  /\ LinkInit /\ FlashInit /\ Z80Init /\ UserTimersInit /\ LcdInit
  /\ part # "link" => cable = "black"
  /\ part # "processor" => clockspeed = 1

LinkWorks ==
  /\ part = "link" /\ LinkNext
  /\ UNCHANGED <<part, flashVars, z80Vars, userTimerVars, lcdVars>>

FlashWorks ==
  /\ part = "flash" /\ FlashNext
  /\ UNCHANGED <<part, linkVars, z80Vars, userTimerVars, lcdVars>>

Z80Works ==
  /\ part = "processor" /\ Z80Next
  /\ UNCHANGED <<part, linkVars, flashVars, userTimerVars, lcdVars>>

UserTimerWorks ==
  /\ part = "timer" /\ UserTimersNext
  /\ UNCHANGED <<part, linkVars, flashVars, z80Vars, lcdVars>>

LcdWorks ==
  /\ part = "lcd" /\ LcdNext
  /\ UNCHANGED <<part, linkVars, flashVars, z80Vars, userTimerVars>>

MCNext == LinkWorks \/ FlashWorks \/ Z80Works \/ UserTimerWorks \/ LcdWorks

MCSpec == MCInit /\ [][MCNext]_MCVars /\ LinkFairness
=============================================================================
