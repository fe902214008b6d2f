-------------------------------- MODULE MCApps --------------------------------
(* The parts of the apps for TLC, each on its own as in MCCalculator: the  *)
(* touches and the two widgets that take them, the screen and the parser   *)
(* of the terminal, and the arithmetic of the emulated processor.          *)
EXTENDS Keypad, YaftKeyboard, Terminal, Parser, Alu

VARIABLE part   \* the part that works

\* The corner of the keyboard with Escape on top and the modifier below, and
\* the row that is left of it, in which Escape is where the modifier was.
LayoutDef ==
  [hide \in BOOLEAN |->
     IF hide THEN <<[code |-> "esc", at |-> "low"]>>
     ELSE <<[code |-> "esc", at |-> "top"], [code |-> "ctrl", at |-> "low"]>>]
ScreenDef == [hide \in BOOLEAN |-> IF hide THEN {"far", "top"} ELSE {"far"}]

\* Bytes on both sides of what the parser tells apart.
BytesDef == {7, 27, 32, 65, 80, 91, 92, 93,
             128, 143, 144, 160, 183, 190, 191,
             192, 194, 224, 237, 239, 240, 244, 247, 248, 252, 255}

\* Decimal and binary numbers next to the carries and the signs.
OperandsDef == {0, 1, 9, 15, 16, 25, 73, 80, 127, 128, 129, 144, 153, 255}

MCVars == <<part, touchVars, keypadVars, keyboardVars, terminalVars, parserVars, aluVars>>

MCInit ==
  /\ part \in {"keypad", "keyboard", "terminal", "parser", "arithmetic"}
  /\ TouchInit /\ KeypadInit /\ KeyboardInit /\ TerminalInit /\ ParserInit /\ AluInit
  /\ part \notin {"keypad", "keyboard"} => entries[0].slot = 0
  /\ part # "keyboard" => ~mouse
  /\ part # "arithmetic" => A = 0 /\ DE = 0 /\ ~F.c

KeypadWorks ==
  /\ part = "keypad" /\ KeypadNext
  /\ UNCHANGED <<part, keyboardVars, terminalVars, parserVars, aluVars>>

KeyboardWorks ==
  /\ part = "keyboard" /\ KeyboardNext
  /\ UNCHANGED <<part, keypadVars, terminalVars, parserVars, aluVars>>

TerminalWorks ==
  /\ part = "terminal" /\ TerminalNext
  /\ UNCHANGED <<part, touchVars, keypadVars, keyboardVars, parserVars, aluVars>>

ParserWorks ==
  /\ part = "parser" /\ ParserNext
  /\ UNCHANGED <<part, touchVars, keypadVars, keyboardVars, terminalVars, aluVars>>

AluWorks ==
  /\ part = "arithmetic" /\ AluNext
  /\ UNCHANGED <<part, touchVars, keypadVars, keyboardVars, terminalVars, parserVars>>

MCNext == KeypadWorks \/ KeyboardWorks \/ TerminalWorks \/ ParserWorks \/ AluWorks

MCSpec == MCInit /\ [][MCNext]_MCVars
=============================================================================
