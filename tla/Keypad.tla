-------------------------------- MODULE Keypad --------------------------------
(***************************************************************************)
(* The keypad of the calculator: the widget that turns touches into keys   *)
(* (apps/tilem/main.cpp, KeypadRenderObject) and the keys of the emulator  *)
(* (emu/keypad.c).                                                         *)
(***************************************************************************)
EXTENDS Touch

CONSTANTS Keys,   \* the keys of the matrix that are drawn
          OnKey   \* the key that has a line of its own

ASSUME KeypadAssumption == OnKey \notin Keys /\ Keys \cup {OnKey} \subseteq Places

VARIABLES keysdown,     \* keys of the matrix that are down
          onkey,        \* onkeydown, onkeyint and the interrupt
          keyPointers   \* for each id the key it pressed

keypadVars == <<keysdown, onkey, keyPointers>>

Pressed == keysdown \cup (IF onkey.down THEN {OnKey} ELSE {})

KeypadTypeOK ==
  /\ keysdown \subseteq Keys
  /\ onkey \in [down : BOOLEAN, int : BOOLEAN, interrupt : BOOLEAN]
  /\ \A id \in DOMAIN keyPointers : keyPointers[id] \in Keys \cup {OnKey}

-----------------------------------------------------------------------------
press_key(key) ==
  /\ onkey' = IF key = OnKey
              THEN [onkey EXCEPT !.interrupt = @ \/ (~onkey.down /\ onkey.int), !.down = TRUE]
              ELSE onkey
  /\ keysdown' = IF key = OnKey THEN keysdown ELSE keysdown \cup {key}

release_key(key) ==
  /\ onkey' = IF key = OnKey
              THEN [onkey EXCEPT !.interrupt = @ \/ (onkey.down /\ onkey.int), !.down = FALSE]
              ELSE onkey
  /\ keysdown' = keysdown \ {key}

\* Mutant: the key under the lift is released, not the one that was pressed.
releaseUnder(ev) ==
  /\ keyPointers' = [id \in DOMAIN keyPointers \ {ev.id} |-> keyPointers[id]]
  /\ release_key(ev.at)

lifted(ev) ==
  /\ release_key(keyPointers[ev.id])
  /\ keyPointers' = [id \in DOMAIN keyPointers \ {ev.id} |-> keyPointers[id]]

\* emplace leaves the key of an id that is known.
pressed(ev) ==
  /\ press_key(ev.at)
  /\ keyPointers' = [id \in DOMAIN keyPointers \cup {ev.id} |->
                       IF id \in DOMAIN keyPointers THEN keyPointers[id] ELSE ev.at]

handleInput(ev) ==
  CASE ev.type = "up" /\ ev.id \in DOMAIN keyPointers -> lifted(ev)
    [] ev.type = "down" /\ ev.at \in Keys \cup {OnKey} -> pressed(ev)
    [] OTHER -> UNCHANGED keypadVars

\* The calculator is reset; the widget keeps its pointers.
tilem_keypad_reset ==
  /\ keysdown' = {} /\ onkey' = [onkey EXCEPT !.down = FALSE, !.int = FALSE]
  /\ UNCHANGED <<keyPointers, touchVars>>

\* Ports of the calculator: the interrupt is enabled, and acknowledged.
OnKeyPort(enable) ==
  /\ onkey' = [onkey EXCEPT !.int = enable, !.interrupt = @ /\ enable]
  /\ UNCHANGED <<keysdown, keyPointers, touchVars>>

KeypadInit ==
  /\ keysdown = {}
  /\ onkey = [down |-> FALSE, int |-> FALSE, interrupt |-> FALSE]
  /\ keyPointers = [id \in {} |-> OnKey]

KeypadNext ==
  \/ TouchKernel /\ UNCHANGED keypadVars
  \/ \E ev \in events : Deliver(ev) /\ handleInput(ev)
  \/ tilem_keypad_reset
  \/ \E enable \in BOOLEAN : OnKeyPort(enable)

KeypadSpec == TouchInit /\ KeypadInit /\ [][KeypadNext]_<<touchVars, keypadVars>>

-----------------------------------------------------------------------------
\* No key stays down behind the back of the user: when nothing is under way a
\* key is down only under a finger, or the pen, that pressed it and is still
\* on the glass, wherever fingers slid, in whatever order two of them on the
\* same key were lifted and whenever the calculator was reset, as long as the
\* devices reported every lift (KeypadRenderObject::handleInput).
NoKeyStaysDown ==
  (AtRest /\ ~lost) =>
    /\ DOMAIN keyPointers \subseteq IdsDown
    /\ \A key \in Pressed : \E id \in DOMAIN keyPointers : keyPointers[id] = key
=============================================================================
