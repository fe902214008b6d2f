\* Panning and unblanking may fail, and updates may be drawn before vsync is
\* back from the clear at its wait; or neither.
CONSTANTS
  Buffers = 2
  Phases = 3
  MaxUpdates = 3
  DisplayMayFail = TRUE
  PromptVsync = FALSE
SPECIFICATION MCSpec
PROPERTIES RingSafe ShowsWhatWasDrawn ScreenIsLeftAlone EveryCallReturns BlanksWhenIdle
\* The system ends: both threads have been joined.
CHECK_DEADLOCK FALSE
