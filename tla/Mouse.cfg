\* The mouse button of the terminal under two fingers and the pen.
CONSTANTS
  Slots = {0, 1}
  Places = {"top", "low", "far"}
  MaxTouches = 2
  Keys = {"top"}
  OnKey = "low"
  Layout <- LayoutDef
  Screen <- ScreenDef
  Modifiers = {"ctrl"}
  EscapeCode = "esc"
  Lines = 3
  Cols = 3
  Heights = {2, 3}
  Halfs = {"a"}
  Wides = {"w"}
  Numbers = {1, 2, 3}
  TabStop = 2
  MaxOps = 4
  Bytes <- BytesDef
  Operands <- OperandsDef
  MaxSteps = 2
SPECIFICATION MCSpec
INVARIANT MouseUpAfterLift
CHECK_DEADLOCK FALSE
