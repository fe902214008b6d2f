------------------------------ MODULE PanRing ------------------------------
(***************************************************************************)
(* What the vsync thread of swtcon and the generator promise each other:   *)
(* a ring of pan buffers.  The generator draws phases into it, the vsync   *)
(* thread shows them one after the other and gives the buffer of a phase   *)
(* back once it has been shown.  Only then may the generator draw there    *)
(* again.                                                                  *)
(***************************************************************************)
EXTENDS Integers

CONSTANT Buffers    \* number of pan buffers

VARIABLES
  drawn,     \* phases 0 .. drawn-1 were drawn
  shown,     \* phases 0 .. shown-1 went to the screen
  returned   \* the buffers of phases 0 .. returned-1 were given back

ringVars == <<drawn, shown, returned>>

Draw   == /\ drawn - returned < Buffers
          /\ drawn' = drawn + 1
          /\ UNCHANGED <<shown, returned>>
Show   == /\ shown < drawn
          /\ shown' = shown + 1
          /\ UNCHANGED <<drawn, returned>>
Return == /\ returned < shown
          /\ returned' = returned + 1
          /\ UNCHANGED <<drawn, shown>>

Init == drawn = 0 /\ shown = 0 /\ returned = 0

Safe == Init /\ [][Draw \/ Show \/ Return]_ringVars

\* Every phase drawn has been shown and its buffer given back.
Flushed == returned = drawn
============================================================================
