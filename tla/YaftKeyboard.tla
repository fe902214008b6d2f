----------------------------- MODULE YaftKeyboard -----------------------------
(***************************************************************************)
(* The keyboard on the screen of yaft (apps/yaft/keyboard.cpp): which      *)
(* touches press keys, which are mouse events for the program that runs in *)
(* the terminal, how modifier keys stick, and how a long press of Escape   *)
(* changes the layout under the fingers.                                   *)
(*                                                                         *)
(* What is written to the program, the physical keyboard and the drawing   *)
(* are left out.  When a key is due is chance: time passes at will.        *)
(***************************************************************************)
EXTENDS Touch, Sequences

CONSTANTS Layout,      \* keys of the full and of the hidden layout, with their places
          Screen,      \* places on the terminal above either of them
          Modifiers,   \* codes of the keys that stick
          EscapeCode   \* code of the key that hides and shows the others

ASSUME KeyboardAssumption ==
  \A hide \in BOOLEAN : /\ Screen[hide] \subseteq Places /\ DOMAIN Layout[hide] \subseteq Nat
                        /\ \A i \in DOMAIN Layout[hide] : Layout[hide][i].at \notin Screen[hide]

NoSlot == -1

VARIABLES keys,        \* Keyboard::keys, in the order of the layout
          shown,       \* the layout they were made from
          hidden,      \* Keyboard::hidden
          mouse,       \* the terminal is in a mouse mode
          mouseSlot,   \* the slot that holds the mouse button
          active,      \* slots that gestureCtrlr holds for down
          alive,       \* no exception has left the main loop
          spent        \* history: touches that changed the layout already, by slot

keyboardVars == <<keys, shown, hidden, mouse, mouseSlot, active, alive, spent>>

code(i) == Layout[shown][i].code

SlotNames == Slots \cup {PenSlot, Unnamed}

KeyboardTypeOK ==
  /\ shown \in BOOLEAN /\ hidden \in BOOLEAN /\ mouse \in BOOLEAN /\ alive \in BOOLEAN
  /\ DOMAIN keys = DOMAIN Layout[shown]
  /\ \A i \in DOMAIN keys :
       keys[i] \in [slot : SlotNames \cup {NoSlot}, stuck : BOOLEAN, held : BOOLEAN]
  /\ mouseSlot \in SlotNames \cup {NoSlot} /\ active \subseteq Slots /\ spent \subseteq SlotNames

-----------------------------------------------------------------------------
\* Mutant: keys stay pressed by the finger they were pressed by.
initKeyMapPressed ==
  /\ shown' = hidden
  /\ keys' = [i \in DOMAIN Layout[hidden] |->
                [slot |-> IF i \in DOMAIN keys THEN keys[i].slot ELSE NoSlot,
                 stuck |-> FALSE, held |-> FALSE]]

\* All keys are new: none is down.
initKeyMap ==
  /\ shown' = hidden
  /\ keys' = [i \in DOMAIN Layout[hidden] |-> [slot |-> NoSlot, stuck |-> FALSE, held |-> FALSE]]

keysOf(slot) == {i \in DOMAIN keys : keys[i].slot = slot}

\* Any key releases the modifiers that stick; a modifier sticks or is released.
keyDown(key, slot) ==
  keys' = [i \in DOMAIN keys |->
    IF i = key
    THEN IF code(i) \in Modifiers
         THEN [slot |-> slot, held |-> FALSE,
               stuck |-> IF keys[i].held THEN keys[i].stuck ELSE ~keys[i].stuck]
         ELSE [keys[i] EXCEPT !.slot = slot]
    ELSE IF code(key) \notin Modifiers /\ code(i) \in Modifiers
         THEN [keys[i] EXCEPT !.stuck = FALSE]
         ELSE keys[i]]

handleKeyEvent(ev) ==
  /\ \/ /\ ev.type = "down"
        /\ \E key \in DOMAIN keys : Layout[shown][key].at = ev.at /\ keyDown(key, ev.slot)
     \/ /\ ev.type = "up" /\ keysOf(ev.slot) # {}
        /\ LET first == CHOOSE i \in keysOf(ev.slot) : \A j \in keysOf(ev.slot) : i <= j
           IN  keys' = [keys EXCEPT ![first].slot = NoSlot]
     \/ /\ ev.type = "down" => \A key \in DOMAIN keys : Layout[shown][key].at # ev.at
        /\ ev.type = "up" => keysOf(ev.slot) = {}
        /\ UNCHANGED keys
  /\ UNCHANGED <<mouseSlot, active, alive>>

\* Fingers, not the pen, go through the gesture controller, which throws on a
\* slot it has not got.  The mouse is pressed by the first finger and released
\* by that finger, or when a second one begins to scroll.
handleScreenEvent(ev) ==
  /\ IF ~mouse THEN UNCHANGED <<mouseSlot, active, alive>>
     ELSE IF ev.slot = Unnamed THEN alive' = FALSE /\ UNCHANGED <<mouseSlot, active>>
     ELSE /\ active' = IF ev.slot = PenSlot THEN active
                       ELSE CASE ev.type = "down" -> active \cup {ev.slot}
                              [] ev.type = "up" -> active \ {ev.slot}
                              [] OTHER -> active
          /\ mouseSlot' =
               IF ev.type = "down" /\ mouseSlot = NoSlot /\ active = {} THEN ev.slot
               ELSE IF \/ ev.type = "up" /\ ev.slot = mouseSlot
                       \/ Cardinality(active') > 1
                    THEN NoSlot
               ELSE mouseSlot
          /\ UNCHANGED alive
  /\ UNCHANGED keys

\* Mutant: a touch belongs to what is under it.
isKeyReleaseNever(ev) == FALSE

isKeyRelease(ev) == ev.type = "up" /\ keysOf(ev.slot) # {}

handleEvent(ev) ==
  /\ alive
  /\ Deliver(ev)
  /\ IF ev.at \notin Screen[shown] \/ isKeyRelease(ev)
     THEN handleKeyEvent(ev) ELSE handleScreenEvent(ev)
  /\ spent' = IF ev.type = "down" THEN spent \ {ev.slot} ELSE spent
  /\ UNCHANGED <<shown, hidden, mouse>>

\* Once in each pass of the main loop, before the events are handled.  The
\* first Escape that is due ends the walk over the keys: they are gone.
updateRepeat ==
  /\ alive /\ events = {}
  /\ \E due \in SUBSET (DOMAIN keys \ keysOf(NoSlot)) :
       LET escapes == {i \in due : code(i) = EscapeCode}
       IN  IF escapes = {}
           THEN /\ keys' = [i \in DOMAIN keys |->
                     [keys[i] EXCEPT !.held = @ \/ (i \in due /\ code(i) \in Modifiers)]]
                /\ UNCHANGED <<shown, hidden, spent>>
           ELSE /\ initKeyMap
                /\ hidden' = ~hidden       \* hide() or show()
                /\ spent' = spent \cup {keys[i].slot : i \in escapes}
  /\ UNCHANGED <<mouse, mouseSlot, active, alive, touchVars>>

KeyboardInit ==
  /\ hidden = FALSE /\ shown = FALSE
  /\ keys = [i \in DOMAIN Layout[FALSE] |-> [slot |-> NoSlot, stuck |-> FALSE, held |-> FALSE]]
  /\ mouse \in BOOLEAN
  /\ mouseSlot = NoSlot /\ active = {} /\ alive = TRUE /\ spent = {}

KeyboardNext ==
  \/ alive /\ TouchKernel /\ UNCHANGED keyboardVars
  \/ \E ev \in events : handleEvent(ev)
  \/ updateRepeat

KeyboardSpec == TouchInit /\ KeyboardInit /\ [][KeyboardNext]_<<touchVars, keyboardVars>>

-----------------------------------------------------------------------------
\* A key is down only under a finger: when nothing is under way no key is
\* pressed by a slot without one, wherever the fingers slid, onto the terminal
\* or another key, and whether or not the layout changed under them, as long
\* as the devices told the end of every touch (handleEvents, isKeyRelease).
KeyFollowsFinger ==
  (alive /\ AtRest /\ ~lost) => \A i \in DOMAIN keys : keys[i].slot \in SlotsDown \cup {NoSlot}

\* However long Escape is held, its touch changes the layout once: a finger
\* that stays down does not make the keyboard come and go (updateRepeat).
TogglesOncePerPress ==
  [][hidden' # hidden =>
       \E i \in DOMAIN keys : code(i) = EscapeCode /\ keys[i].slot \notin spent \cup {NoSlot}
    ]_<<touchVars, keyboardVars>>

\* "Mouse up after finger lift or second finger down (for scrolling)": when
\* nothing is under way the button is held only by a finger on the glass
\* (handleScreenEvent, keyboard.cpp:686).
MouseUpAfterLift ==
  (alive /\ AtRest /\ ~lost) => mouseSlot \in SlotsDown \cup {NoSlot}
=============================================================================
