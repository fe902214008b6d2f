-------------------------------- MODULE Touch --------------------------------
(***************************************************************************)
(* The input devices of libs/rMlib/Input.cpp: what the kernel reports of   *)
(* fingers and of the pen, and the events that TouchDevice and PenDevice   *)
(* make of it.  Each slot of the touch screen has one entry, which is      *)
(* changed as the kernel tells and sent off when the report is complete.   *)
(* Whoever takes the events is in another module: Keypad, YaftKeyboard.    *)
(*                                                                         *)
(* No finger is on the glass when the devices are opened.  Motions of the  *)
(* pen above the glass are left out: nobody listens to them.  Bound: once  *)
(* the end of a touch went unreported there are no more touches.           *)
(***************************************************************************)
EXTENDS Integers, FiniteSets

CONSTANTS Slots,       \* slots of the touch screen, 0 among them
          Places,      \* where fingers and pen can be
          MaxTouches   \* bound: touches of fingers and of the pen

max_num_slots == 32

ASSUME TouchAssumption ==
  /\ Slots \subseteq 0..max_num_slots - 1 /\ 0 \in Slots
  /\ Places # {} /\ MaxTouches \in Nat

VARIABLES fingers,   \* for each slot the id of the finger on the glass, or 0
          current,   \* the slot that the kernel, and the device, speak of
          entries,   \* TouchDevice::slots
          changed,   \* TouchDevice::changedSlots
          pen,       \* PenDevice::penEvent, and the pen itself
          events,    \* events of the last report that are not handled yet
          touches,   \* touches so far; the next one has the next id
          lost       \* history: the end of a touch was not reported

touchVars == <<fingers, current, entries, changed, pen, events, touches, lost>>

PenId == -1234
PenSlot == 4096
Unnamed == -2     \* what an entry holds that was never told its slot

EventTypes == {"down", "up", "move"}

Event == [type : EventTypes \cup {"leave"}, id : 0..MaxTouches \cup {PenId},
          slot : Slots \cup {PenSlot, Unnamed}, at : Places]

TouchTypeOK ==
  /\ fingers \in [Slots -> 0..MaxTouches] /\ current \in Slots /\ changed \subseteq Slots
  /\ entries \in [Slots -> Event]
  /\ pen \in [touching : BOOLEAN, event : Event, pending : BOOLEAN]
  /\ events \subseteq Event
  /\ touches \in 0..MaxTouches /\ lost \in BOOLEAN

-----------------------------------------------------------------------------
(* The kernel tells of one slot at a time; it names the slot only when it  *)
(* is another one than before.                                             *)

speakOf(slot, entry) ==
  /\ events = {}
  /\ current' = slot
  /\ entries' = [entries EXCEPT
       ![slot] = [entry EXCEPT !.slot = IF current = slot THEN @ ELSE slot]]
  /\ changed' = changed \cup {slot}
  /\ UNCHANGED <<pen, events>>

\* A lift that was not sent off yet is overwritten by the next touch.
TouchBegin(slot, place) ==
  /\ fingers[slot] = 0 /\ touches < MaxTouches
  /\ touches' = touches + 1
  /\ fingers' = [fingers EXCEPT ![slot] = touches + 1]
  /\ speakOf(slot, [entries[slot] EXCEPT !.type = "down", !.id = touches + 1, !.at = place])
  /\ lost' = (lost \/ (slot \in changed /\ entries[slot].type = "up"))

\* What was pressed through an entry without a name is not found again once
\* the entry has got one.
TouchEnd(slot) ==
  /\ fingers[slot] # 0
  /\ fingers' = [fingers EXCEPT ![slot] = 0]
  /\ speakOf(slot, [entries[slot] EXCEPT !.type = "up"])
  /\ lost' = (lost \/ entries'[slot].slot # entries[slot].slot)
  /\ UNCHANGED touches

TouchMove(slot, place) ==
  /\ fingers[slot] # 0 /\ place # entries[slot].at
  /\ speakOf(slot, [entries[slot] EXCEPT !.at = place])
  /\ lost' = (lost \/ entries'[slot].slot # entries[slot].slot)
  /\ UNCHANGED <<fingers, touches>>

\* The device sends off the entries that changed, in any order of slots.
Report ==
  /\ events = {} /\ changed # {}
  /\ events' = {entries[slot] : slot \in changed}
  /\ entries' = [slot \in Slots |->
       IF slot \in changed THEN [entries[slot] EXCEPT !.type = "move"] ELSE entries[slot]]
  /\ changed' = {}
  /\ UNCHANGED <<fingers, current, pen, touches, lost>>

-----------------------------------------------------------------------------
(* The pen.  When it leaves it may have been lifted in the same report.    *)

PenSpeaks(event) ==
  /\ events = {}
  /\ pen' = [pen EXCEPT !.event = event, !.pending = TRUE,
                        !.touching = CASE event.type = "down" -> TRUE
                                       [] event.type \in {"up", "leave"} -> FALSE
                                       [] OTHER -> @]
  /\ UNCHANGED <<fingers, current, entries, changed, events>>

overwritesLift == pen.pending /\ pen.event.type = "up"

PenDown(place) ==
  /\ ~pen.touching /\ touches < MaxTouches
  /\ touches' = touches + 1
  /\ PenSpeaks([pen.event EXCEPT !.type = "down", !.at = place])
  /\ lost' = (lost \/ overwritesLift)

PenUp ==
  /\ pen.touching
  /\ PenSpeaks([pen.event EXCEPT !.type = "up"])
  /\ UNCHANGED <<touches, lost>>

PenMove(place) ==
  /\ pen.touching /\ place # pen.event.at
  /\ PenSpeaks([pen.event EXCEPT !.at = place])
  /\ UNCHANGED <<touches, lost>>

PenLeave ==
  /\ ~pen.touching /\ pen.event.type # "leave"
  /\ PenSpeaks([pen.event EXCEPT !.type = "leave"])
  /\ lost' = (lost \/ overwritesLift)
  /\ UNCHANGED touches

PenReport ==
  /\ events = {} /\ pen.pending
  /\ events' = {pen.event}
  /\ pen' = [pen EXCEPT !.event.type = "move", !.pending = FALSE]
  /\ UNCHANGED <<fingers, current, entries, changed, touches, lost>>

-----------------------------------------------------------------------------
\* An event is handed to whoever takes it.
Deliver(ev) ==
  /\ ev \in events
  /\ events' = events \ {ev}
  /\ UNCHANGED <<fingers, current, entries, changed, pen, touches, lost>>

\* The entry of slot 0 is named only when the kernel comes back to it; what it
\* holds until then is chance.
TouchInit ==
  /\ fingers = [slot \in Slots |-> 0]
  /\ current = 0
  /\ \E name \in {0, Unnamed} : LET place == CHOOSE p \in Places : TRUE IN
       /\ entries = [slot \in Slots |-> [type |-> "move", id |-> 0, at |-> place,
                                         slot |-> IF slot = 0 THEN name ELSE slot]]
       /\ pen = [touching |-> FALSE, pending |-> FALSE,
                 event |-> [type |-> "move", id |-> PenId, slot |-> PenSlot, at |-> place]]
  /\ changed = {} /\ events = {} /\ touches = 0 /\ lost = FALSE

TouchKernel ==
  \/ /\ ~lost
     /\ \/ \E slot \in Slots :
             \/ TouchEnd(slot)
             \/ \E place \in Places : TouchBegin(slot, place) \/ TouchMove(slot, place)
        \/ \E place \in Places : PenDown(place) \/ PenMove(place)
        \/ PenUp \/ PenLeave
  \/ Report
  \/ PenReport

\* Nothing is under way between the glass and the program.
AtRest == events = {} /\ changed = {} /\ ~pen.pending

\* Fingers and the pen on the glass, by id and by slot.
IdsDown == ({fingers[slot] : slot \in Slots} \ {0}) \cup (IF pen.touching THEN {PenId} ELSE {})
SlotsDown == {entries[slot].slot : slot \in {s \in Slots : fingers[s] # 0}} \cup (IF pen.touching THEN {PenSlot} ELSE {})
=============================================================================
