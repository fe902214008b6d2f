\* The parts of the emulated calculator, each on its own.
CONSTANTS
  Bits = 2
  Bytes <- BytesDef
  Modes <- ModesDef
  NoTimeout = FALSE
  MaxBytes = 2
  Sectors = {1, 2}
  Group <- GroupDef
  Overrides <- OverridesDef
  FlashBytes <- FlashBytesDef
  Address <- AddressDef
  MaxDirty = 1
  Hardware = 1
  MaxTimers = 4
  MaxInUse = 3
  Counts = {2}
  Periods = {0, 1}
  Clocks = {2}
  Speeds = {1, 3}
  Quantum = 2
  Window = 4
  Full = 3
  MaxExpiries = 3
  Stride = 2
  Height = 2
  Sprites <- SpritesDef
  MaxWrites = 2
SPECIFICATION MCSpec
INVARIANTS SentMeansReceived PollingTellsTheTruth ListsAreSound UserTimerAgrees
PROPERTIES LinkMovesBytes BytesArrive OnlyCommandsChange TimersKeepTime DrawsItsCell
\* A GrayLink with nothing to do, and the bounds, end what can happen.
CHECK_DEADLOCK FALSE
