----------------------------- MODULE TouchProofs -----------------------------
(***************************************************************************)
(* Proofs about the touches and the two widgets that take them: no key of  *)
(* the calculator and none of the terminal's keyboard stays down without a *)
(* finger, however the reports of the devices mix with what the widgets    *)
(* do, for any number of slots, keys and touches.                          *)
(*                                                                         *)
(* What makes it true is that the end of a touch is never told before its  *)
(* beginning, nor lost while a widget still counts on it: TouchInv says    *)
(* where the devices keep it until then.                                   *)
(***************************************************************************)
EXTENDS Keypad, YaftKeyboard, TLAPS


\* The parts of an event.
EventFields(ev) ==
  /\ ev = [field \in DOMAIN ev |-> ev[field]] /\ DOMAIN ev = {"type", "id", "slot", "at"}
  /\ ev.type \in EventTypes \cup {"leave"} /\ ev.id \in 0..MaxTouches \cup {PenId}
  /\ ev.slot \in Slots \cup {PenSlot, Unnamed} /\ ev.at \in Places

\* They make an event.
LEMMA EventParts == \A ev : ev \in Event <=> EventFields(ev)
<1>1. ASSUME NEW ev, ev \in Event PROVE EventFields(ev)
  BY <1>1 DEF Event, EventFields
<1>2. ASSUME NEW ev, EventFields(ev) PROVE ev \in Event
  BY <1>2 DEF Event, EventFields
<1>. QED  BY <1>1, <1>2

\* The ids and the names of the pen are not those of a finger.
LEMMA PenIsNoFinger ==
  /\ PenId \notin 0..MaxTouches /\ PenSlot \notin Slots \cup {Unnamed}
  /\ 0 \in Slots /\ Slots \subseteq Nat /\ MaxTouches \in Nat /\ Unnamed \notin Slots
BY TouchAssumption DEF TouchAssumption, max_num_slots, PenId, PenSlot, Unnamed

-----------------------------------------------------------------------------
(* The devices.                                                            *)

\* The state of the pen, part by part.
PenFields ==
  /\ pen = [field \in DOMAIN pen |-> pen[field]] /\ DOMAIN pen = {"touching", "event", "pending"}
  /\ pen.touching \in BOOLEAN /\ pen.pending \in BOOLEAN
  /\ pen.event \in Event /\ pen.event.id = PenId /\ pen.event.slot = PenSlot

TouchTypes ==
  /\ fingers \in [Slots -> 0..MaxTouches] /\ current \in Slots /\ changed \subseteq Slots
  /\ entries \in [Slots -> Event] /\ PenFields
  /\ events \subseteq Event
  /\ touches \in 0..MaxTouches /\ lost \in BOOLEAN

\* An entry speaks of the last finger in its slot, by the name of the slot if
\* it has been told that.
EntriesFollow ==
  \A slot \in Slots :
    /\ entries[slot].id \in 0..touches
    /\ entries[slot].slot = slot \/ (slot = 0 /\ entries[slot].slot = Unnamed)
    /\ fingers[slot] # 0 => fingers[slot] = entries[slot].id
    /\ entries[slot].type = "down" => fingers[slot] # 0
    /\ entries[slot].type # "move" => slot \in changed
    /\ \A other \in Slots \ {slot} : entries[other].id = entries[slot].id
                                       => entries[slot].id = 0

PenFollows ==
  /\ pen.event.type = "down" => pen.touching
  /\ pen.event.type \in {"up", "leave"} => ~pen.touching
  /\ pen.event.type # "move" => pen.pending

\* What the kernel told, or a device, and nobody took yet.
Waiting == {entries[slot] : slot \in changed} \cup (IF pen.pending THEN {pen.event} ELSE {})
UnderWay == events \cup Waiting

Lifts == {ev \in UnderWay : ev.type = "up"}
Presses == {ev \in UnderWay : ev.type = "down"}

\* A press that is handed over is of a finger that is still on the glass, and
\* no other press under way is of that finger.
EventsAreFresh ==
  \A ev \in events : ev.type = "down" =>
    /\ ev.id \in IdsDown /\ ev.slot \in SlotsDown /\ ev \notin Waiting
    /\ \A other \in Presses : other = ev \/ (other.id # ev.id /\ other.slot # ev.slot)

TouchInv == TouchTypes /\ EntriesFollow /\ PenFollows /\ EventsAreFresh

\* The fingers, and the pen, that are on the glass or whose lift is under way.
Ids == IdsDown \cup {ev.id : ev \in Lifts}
Names == SlotsDown \cup {ev.slot : ev \in Lifts}

\* The types of the devices.
LEMMA TouchTypesOK == TouchTypes => TouchTypeOK
<1>1. PenFields => pen \in [touching : BOOLEAN, event : Event, pending : BOOLEAN]
  BY DEF PenFields
<1>. QED  BY <1>1 DEF TouchTypes, TouchTypeOK

\* No finger is on the glass when the devices are opened.
LEMMA TouchStarts == TouchInit => TouchInv /\ Lifts = {} /\ Presses = {}
<1>. SUFFICES ASSUME TouchInit PROVE TouchInv /\ Lifts = {} /\ Presses = {}
  OBVIOUS
<1>. DEFINE place == CHOOSE p \in Places : TRUE
<1>1. place \in Places
  BY TouchAssumption DEF TouchAssumption
<1>. HIDE DEF place
<1>2. PICK name \in {0, Unnamed} :
        /\ entries = [slot \in Slots |-> [type |-> "move", id |-> 0, at |-> place,
                                          slot |-> IF slot = 0 THEN name ELSE slot]]
        /\ pen = [touching |-> FALSE, pending |-> FALSE,
                  event |-> [type |-> "move", id |-> PenId, slot |-> PenSlot, at |-> place]]
  BY DEF TouchInit, place
<1>3. /\ fingers = [slot \in Slots |-> 0] /\ current = 0 /\ changed = {} /\ events = {}
      /\ touches = 0 /\ lost = FALSE
  BY DEF TouchInit
<1>4. PenFields
  BY <1>1, <1>2 DEF PenFields, Event, EventTypes
<1>5. entries \in [Slots -> Event]
  <2>1. ASSUME NEW slot \in Slots PROVE entries[slot] \in Event
    <3>1. EventFields(entries[slot])
      BY <1>1, <1>2, PenIsNoFinger DEF EventFields, EventTypes
    <3>. QED  BY <3>1, EventParts
  <2>. QED  BY <1>2, <2>1
<1>6. UnderWay = {}
  BY <1>2, <1>3 DEF Waiting, UnderWay
<1>7. TouchTypes
  <2>1. fingers \in [Slots -> 0..MaxTouches] /\ touches \in 0..MaxTouches
    BY <1>3, PenIsNoFinger
  <2>. QED  BY <1>3, <1>4, <1>5, <2>1, PenIsNoFinger DEF TouchTypes
<1>8. EntriesFollow
  BY <1>2, <1>3 DEF EntriesFollow
<1>. QED  BY <1>2, <1>3, <1>6, <1>7, <1>8
     DEF TouchInv, PenFollows, EventsAreFresh, Lifts, Presses

\* The kernel tells of one slot: its entry gets the parts that it was told,
\* and the name of the slot if that is a new one.
LEMMA Spoken ==
  ASSUME TouchInv, NEW slot \in Slots, NEW entry, EventFields(entry), speakOf(slot, entry)
  PROVE  /\ events = {} /\ events' = {} /\ pen' = pen /\ current' \in Slots
         /\ changed' = changed \cup {slot}
         /\ entries' \in [Slots -> Event]
         /\ entries'[slot].type = entry.type /\ entries'[slot].id = entry.id
         /\ entries'[slot].slot \in {entry.slot, slot}
         /\ \A other \in Slots \ {slot} : entries'[other] = entries[other]
<1>. DEFINE new == [entry EXCEPT !.slot = IF current = slot THEN entry.slot ELSE slot]
<1>1. /\ events = {} /\ events' = events /\ pen' = pen /\ current' = slot
      /\ changed' = changed \cup {slot} /\ entries' = [entries EXCEPT ![slot] = new]
  BY DEF speakOf
<1>2. /\ new = [field \in DOMAIN new |-> new[field]] /\ DOMAIN new = DOMAIN entry
      /\ new.type = entry.type /\ new.id = entry.id /\ new.at = entry.at
      /\ new.slot = IF current = slot THEN entry.slot ELSE slot
  BY DEF EventFields
<1>3. new \in Event
  BY <1>2, EventParts DEF EventFields
<1>. HIDE DEF new
<1>4. entries \in [Slots -> Event]
  BY DEF TouchInv, TouchTypes
<1>5. entries' \in [Slots -> Event] /\ entries'[slot] = new
      /\ \A other \in Slots \ {slot} : entries'[other] = entries[other]
  BY <1>1, <1>3, <1>4
<1>. QED  BY <1>1, <1>2, <1>5

\* What a step of the kernel means for those who take the events: it forgets
\* no finger and no lift, and a new press is of a finger that was not known,
\* unless the end of a touch is lost.
KernelKeeps ==
  ~lost' => /\ ~lost
            /\ Ids \subseteq Ids' /\ Names \subseteq Names'
            /\ \A ev \in Presses' :
                 \/ \E press \in Presses : press.id = ev.id /\ press.slot = ev.slot
                 \/ ev.id \notin Ids /\ ev.slot \notin Names

\* The fields of an entry that is changed.
LEMMA EntryFields ==
  ASSUME TouchInv, NEW slot \in Slots, NEW place \in Places
  PROVE  /\ EventFields(entries[slot])
         /\ LET entry == [entries[slot] EXCEPT !.type = "up"] IN
            /\ EventFields(entry) /\ entry.type = "up"
            /\ entry.id = entries[slot].id /\ entry.slot = entries[slot].slot
         /\ LET entry == [entries[slot] EXCEPT !.at = place] IN
            /\ EventFields(entry) /\ entry.type = entries[slot].type
            /\ entry.id = entries[slot].id /\ entry.slot = entries[slot].slot
         /\ touches < MaxTouches =>
              LET entry == [entries[slot] EXCEPT !.type = "down", !.id = touches + 1, !.at = place] IN
              /\ EventFields(entry) /\ entry.type = "down"
              /\ entry.id = touches + 1 /\ entry.slot = entries[slot].slot
<1>. DEFINE old == entries[slot]
<1>1. EventFields(old)
  BY EventParts DEF TouchInv, TouchTypes
<1>. HIDE DEF old
<1>2. LET entry == [old EXCEPT !.type = "up"] IN
      EventFields(entry) /\ entry.type = "up" /\ entry.id = old.id /\ entry.slot = old.slot
  BY <1>1 DEF EventFields, EventTypes
<1>3. LET entry == [old EXCEPT !.at = place] IN
      /\ EventFields(entry) /\ entry.type = old.type
      /\ entry.id = old.id /\ entry.slot = old.slot
  BY <1>1 DEF EventFields
<1>4. ASSUME touches < MaxTouches
      PROVE  LET entry == [old EXCEPT !.type = "down", !.id = touches + 1, !.at = place] IN
             EventFields(entry) /\ entry.type = "down" /\ entry.id = touches + 1 /\ entry.slot = old.slot
  <2>. DEFINE entry == [old EXCEPT !.type = "down", !.id = touches + 1, !.at = place]
  <2>1. touches + 1 \in 0..MaxTouches
    BY <1>4, PenIsNoFinger DEF TouchInv, TouchTypes
  <2>2. entry = [field \in DOMAIN entry |-> entry[field]] /\ DOMAIN entry = DOMAIN old
    OBVIOUS
  <2>3. entry.type = "down" /\ entry.id = touches + 1 /\ entry.slot = old.slot /\ entry.at = place
    BY <1>1 DEF EventFields
  <2>. HIDE DEF entry
  <2>4. EventFields(entry)
    BY <1>1, <2>1, <2>2, <2>3 DEF EventFields, EventTypes
  <2>. QED  BY <2>3, <2>4 DEF entry
<1>. QED  BY <1>1, <1>2, <1>3, <1>4 DEF old

\* A slot whose finger is on the glass, or its lift under way; and the pen.
Held(slot) == fingers[slot] # 0 \/ (slot \in changed /\ entries[slot].type = "up")
PenHeld == pen.touching \/ (pen.pending /\ pen.event.type = "up")

KnownFingers ==
  /\ \A id : id \in Ids <=>
       \/ \E slot \in Slots : Held(slot) /\ id = entries[slot].id
       \/ PenHeld /\ id = PenId
  /\ \A name : name \in Names <=>
       \/ \E slot \in Slots : Held(slot) /\ name = entries[slot].slot
       \/ PenHeld /\ name = PenSlot
  /\ \A ev : ev \in Presses <=>
       /\ ev.type = "down"
       /\ \/ \E slot \in changed : ev = entries[slot]
          \/ pen.pending /\ ev = pen.event

\* While no event waits, the fingers that are known are those of the slots.
LEMMA KnownBySlot == TouchTypes /\ EntriesFollow /\ events = {} => KnownFingers
<1>. SUFFICES ASSUME TouchTypes, EntriesFollow, events = {} PROVE KnownFingers
  OBVIOUS
<1>1. pen.event.id = PenId /\ pen.event.slot = PenSlot
  BY DEF TouchTypes, PenFields
<1>2. \A ev : ev \in UnderWay <=> (\E slot \in changed : ev = entries[slot]) \/ (pen.pending /\ ev = pen.event)
  BY DEF Waiting, UnderWay
<1>3. \A ev : ev \in Lifts <=>
         ev.type = "up" /\ ((\E slot \in changed : ev = entries[slot]) \/ (pen.pending /\ ev = pen.event))
  BY <1>2 DEF Lifts
<1>4. \A id : id \in IdsDown <=> (\E slot \in Slots : fingers[slot] # 0 /\ id = entries[slot].id)
                              \/ (pen.touching /\ id = PenId)
  BY DEF IdsDown, EntriesFollow
<1>5. \A name : name \in SlotsDown <=> (\E slot \in Slots : fingers[slot] # 0 /\ name = entries[slot].slot)
                              \/ (pen.touching /\ name = PenSlot)
  BY DEF SlotsDown
<1>6. changed \subseteq Slots
  BY DEF TouchTypes
<1>7. ASSUME NEW id
      PROVE  id \in Ids <=> \/ \E slot \in Slots : Held(slot) /\ id = entries[slot].id
                            \/ PenHeld /\ id = PenId
  <2>1. (\E ev \in Lifts : id = ev.id) <=>
           \/ \E slot \in changed : entries[slot].type = "up" /\ id = entries[slot].id
           \/ pen.pending /\ pen.event.type = "up" /\ id = PenId
    BY <1>1, <1>3
  <2>2. id \in Ids <=> id \in IdsDown \/ \E ev \in Lifts : id = ev.id
    BY DEF Ids
  <2>3. ASSUME id \in Ids
        PROVE  \/ \E slot \in Slots : Held(slot) /\ id = entries[slot].id
               \/ PenHeld /\ id = PenId
    BY <1>4, <1>6, <2>1, <2>2, <2>3 DEF Held, PenHeld
  <2>4. ASSUME \/ \E slot \in Slots : Held(slot) /\ id = entries[slot].id
               \/ PenHeld /\ id = PenId
        PROVE  id \in Ids
    BY <1>4, <1>6, <2>1, <2>2, <2>4 DEF Held, PenHeld
  <2>. QED  BY <2>3, <2>4
<1>8. ASSUME NEW name
      PROVE  name \in Names <=> \/ \E slot \in Slots : Held(slot) /\ name = entries[slot].slot
                                \/ PenHeld /\ name = PenSlot
  <2>1. (\E ev \in Lifts : name = ev.slot) <=>
           \/ \E slot \in changed : entries[slot].type = "up" /\ name = entries[slot].slot
           \/ pen.pending /\ pen.event.type = "up" /\ name = PenSlot
    BY <1>1, <1>3
  <2>2. name \in Names <=> name \in SlotsDown \/ \E ev \in Lifts : name = ev.slot
    BY DEF Names
  <2>3. ASSUME name \in Names
        PROVE  \/ \E slot \in Slots : Held(slot) /\ name = entries[slot].slot
               \/ PenHeld /\ name = PenSlot
    BY <1>5, <1>6, <2>1, <2>2, <2>3 DEF Held, PenHeld
  <2>4. ASSUME \/ \E slot \in Slots : Held(slot) /\ name = entries[slot].slot
               \/ PenHeld /\ name = PenSlot
        PROVE  name \in Names
    BY <1>5, <1>6, <2>1, <2>2, <2>4 DEF Held, PenHeld
  <2>. QED  BY <2>3, <2>4
<1>9. ASSUME NEW ev
      PROVE  ev \in Presses <=> /\ ev.type = "down"
                                /\ \/ \E slot \in changed : ev = entries[slot]
                                   \/ pen.pending /\ ev = pen.event
    BY <1>2 DEF Presses
<1>. QED  BY <1>7, <1>8, <1>9 DEF KnownFingers

\* The same after a step.
LEMMA KnownBySlotNext == (TouchTypes /\ EntriesFollow /\ events = {} => KnownFingers)'
BY KnownBySlot, PTL

\* What the kernel tells of a finger: it is another one, the same one is
\* lifted, or it moves.
Told(slot) ==
  /\ events = {} /\ events' = {} /\ pen' = pen /\ current' \in Slots
  /\ changed' = changed \cup {slot} /\ entries' \in [Slots -> Event]
  /\ \A other \in Slots \ {slot} : entries'[other] = entries[other]
  /\ entries'[slot].slot \in {entries[slot].slot, slot}
  /\ \A other \in Slots \ {slot} : fingers'[other] = fingers[other]
  /\ fingers' \in [Slots -> 0..MaxTouches] /\ touches' \in 0..MaxTouches /\ lost' \in BOOLEAN
  /\ \/ /\ fingers[slot] = 0 /\ touches' = touches + 1
        /\ fingers'[slot] = touches + 1 /\ entries'[slot].id = touches + 1
        /\ entries'[slot].type = "down"
        /\ lost' = (lost \/ (slot \in changed /\ entries[slot].type = "up"))
     \/ /\ fingers[slot] # 0 /\ touches' = touches /\ fingers'[slot] = 0
        /\ entries'[slot].id = entries[slot].id /\ entries'[slot].type = "up"
        /\ lost' = (lost \/ entries'[slot].slot # entries[slot].slot)
     \/ /\ fingers[slot] # 0 /\ touches' = touches /\ fingers'[slot] = fingers[slot]
        /\ entries'[slot].id = entries[slot].id /\ entries'[slot].type = entries[slot].type
        /\ lost' = (lost \/ entries'[slot].slot # entries[slot].slot)

\* What the kernel says of a finger is one of three things: it came, it went, or
\* it moved.
LEMMA FingerTold ==
  ASSUME TouchInv, NEW slot \in Slots,
         TouchEnd(slot) \/ \E place \in Places : TouchBegin(slot, place) \/ TouchMove(slot, place)
  PROVE  Told(slot)
<1>. USE DEF TouchInv
<1>1. CASE TouchEnd(slot)
  <2>. DEFINE entry == [entries[slot] EXCEPT !.type = "up"]
  <2>1. /\ EventFields(entry) /\ entry.type = "up"
        /\ entry.id = entries[slot].id /\ entry.slot = entries[slot].slot
    BY EntryFields, TouchAssumption DEF TouchAssumption
  <2>. HIDE DEF entry
  <2>2. /\ speakOf(slot, entry) /\ fingers[slot] # 0 /\ fingers' = [fingers EXCEPT ![slot] = 0]
        /\ lost' = (lost \/ entries'[slot].slot # entries[slot].slot) /\ touches' = touches
    BY <1>1 DEF TouchEnd, entry
  <2>3. /\ fingers' \in [Slots -> 0..MaxTouches] /\ fingers'[slot] = 0
        /\ \A other \in Slots \ {slot} : fingers'[other] = fingers[other]
    BY <2>2, PenIsNoFinger DEF TouchTypes
  <2>4. /\ events = {} /\ events' = {} /\ pen' = pen /\ current' \in Slots
        /\ changed' = changed \cup {slot} /\ entries' \in [Slots -> Event]
        /\ entries'[slot].type = "up" /\ entries'[slot].id = entries[slot].id
        /\ entries'[slot].slot \in {entries[slot].slot, slot}
        /\ \A other \in Slots \ {slot} : entries'[other] = entries[other]
    BY <2>1, <2>2, Spoken
  <2>5. touches' \in 0..MaxTouches /\ lost' \in BOOLEAN
    BY <2>2 DEF TouchTypes
  <2>. QED  BY <2>2, <2>3, <2>4, <2>5 DEF Told
<1>2. ASSUME NEW place \in Places, TouchMove(slot, place)
      PROVE  Told(slot)
  <2>. DEFINE entry == [entries[slot] EXCEPT !.at = place]
  <2>1. /\ EventFields(entry) /\ entry.type = entries[slot].type
        /\ entry.id = entries[slot].id /\ entry.slot = entries[slot].slot
    BY EntryFields
  <2>. HIDE DEF entry
  <2>2. /\ speakOf(slot, entry) /\ fingers[slot] # 0 /\ fingers' = fingers
        /\ lost' = (lost \/ entries'[slot].slot # entries[slot].slot) /\ touches' = touches
    BY <1>2 DEF TouchMove, entry
  <2>4. /\ events = {} /\ events' = {} /\ pen' = pen /\ current' \in Slots
        /\ changed' = changed \cup {slot} /\ entries' \in [Slots -> Event]
        /\ entries'[slot].type = entries[slot].type /\ entries'[slot].id = entries[slot].id
        /\ entries'[slot].slot \in {entries[slot].slot, slot}
        /\ \A other \in Slots \ {slot} : entries'[other] = entries[other]
    BY <2>1, <2>2, Spoken
  <2>5. touches' \in 0..MaxTouches /\ lost' \in BOOLEAN /\ fingers' \in [Slots -> 0..MaxTouches]
    BY <2>2 DEF TouchTypes
  <2>. QED  BY <2>2, <2>4, <2>5 DEF Told
<1>3. ASSUME NEW place \in Places, TouchBegin(slot, place)
      PROVE  Told(slot)
  <2>. DEFINE entry == [entries[slot] EXCEPT !.type = "down", !.id = touches + 1, !.at = place]
  <2>0. touches < MaxTouches
    BY <1>3 DEF TouchBegin
  <2>1. /\ EventFields(entry) /\ entry.type = "down"
        /\ entry.id = touches + 1 /\ entry.slot = entries[slot].slot
    BY <2>0, EntryFields
  <2>. HIDE DEF entry
  <2>2. /\ speakOf(slot, entry) /\ fingers[slot] = 0 /\ touches' = touches + 1
        /\ fingers' = [fingers EXCEPT ![slot] = touches + 1]
        /\ lost' = (lost \/ (slot \in changed /\ entries[slot].type = "up"))
    BY <1>3 DEF TouchBegin, entry
  <2>3. touches' \in 0..MaxTouches /\ lost' \in BOOLEAN
    BY <2>0, <2>2, PenIsNoFinger DEF TouchTypes
  <2>4. /\ events = {} /\ events' = {} /\ pen' = pen /\ current' \in Slots
        /\ changed' = changed \cup {slot} /\ entries' \in [Slots -> Event]
        /\ entries'[slot].type = "down" /\ entries'[slot].id = touches + 1
        /\ entries'[slot].slot \in {entries[slot].slot, slot}
        /\ \A other \in Slots \ {slot} : entries'[other] = entries[other]
    BY <2>1, <2>2, Spoken
  <2>5. /\ fingers' \in [Slots -> 0..MaxTouches] /\ fingers'[slot] = touches + 1
        /\ \A other \in Slots \ {slot} : fingers'[other] = fingers[other]
    BY <2>2, <2>3 DEF TouchTypes
  <2>. QED  BY <2>2, <2>3, <2>4, <2>5 DEF Told
<1>. QED  BY <1>1, <1>2, <1>3

\* It keeps the invariant, and forgets no finger.
LEMMA ToldKeeps ==
  ASSUME TouchInv, NEW slot \in Slots, Told(slot)
  PROVE  TouchInv' /\ KernelKeeps
<1>. USE DEF TouchInv
<1>1. TouchTypes'
  BY DEF Told, TouchTypes, PenFields
<1>2. EntriesFollow'
  <2>. SUFFICES ASSUME NEW s \in Slots
                PROVE  /\ entries'[s].id \in 0..touches'
                       /\ entries'[s].slot = s \/ (s = 0 /\ entries'[s].slot = Unnamed)
                       /\ fingers'[s] # 0 => fingers'[s] = entries'[s].id
                       /\ entries'[s].type = "down" => fingers'[s] # 0
                       /\ entries'[s].type # "move" => s \in changed'
                       /\ \A other \in Slots \ {s} : entries'[other].id = entries'[s].id
                                                      => entries'[s].id = 0
    BY DEF EntriesFollow
  <2>. QED  BY DEF Told, TouchTypes, EntriesFollow
<1>3. PenFollows' /\ EventsAreFresh'
  BY DEF Told, PenFollows, EventsAreFresh
<1>4. ASSUME ~lost' PROVE KernelKeeps
  <2>1. ~lost
    BY <1>4 DEF Told
  <2>2. ASSUME NEW s \in Slots, Held(s)
        PROVE  Held(s)' /\ entries'[s].id = entries[s].id /\ entries'[s].slot = entries[s].slot
    BY <1>4, <2>2 DEF Told, Held
  <2>3. PenHeld' <=> PenHeld
    BY DEF Told, PenHeld
  <2>4. KnownFingers /\ KnownFingers'
    BY <1>1, <1>2, KnownBySlot, KnownBySlotNext DEF Told
  <2>5. ASSUME NEW id \in Ids PROVE id \in Ids'
    <3>1. CASE PenHeld /\ id = PenId
      BY <2>3, <2>4, <3>1 DEF KnownFingers
    <3>2. CASE \E s \in Slots : Held(s) /\ id = entries[s].id
      BY <2>2, <2>4, <3>2 DEF KnownFingers
    <3>. QED  BY <2>4, <2>5, <3>1, <3>2 DEF KnownFingers
  <2>6. ASSUME NEW name \in Names PROVE name \in Names'
    <3>1. CASE PenHeld /\ name = PenSlot
      BY <2>3, <2>4, <3>1 DEF KnownFingers
    <3>2. CASE \E s \in Slots : Held(s) /\ name = entries[s].slot
      BY <2>2, <2>4, <3>2 DEF KnownFingers
    <3>. QED  BY <2>4, <2>6, <3>1, <3>2 DEF KnownFingers
  <2>7. ASSUME NEW ev \in Presses'
        PROVE  \/ \E press \in Presses : press.id = ev.id /\ press.slot = ev.slot
               \/ ev.id \notin Ids /\ ev.slot \notin Names
    <3>1. CASE pen.pending /\ ev = pen.event
      BY <2>4, <2>7, <3>1 DEF KnownFingers, Told
    <3>2. ASSUME NEW s \in changed', ev = entries'[s], s # slot
          PROVE  ev \in Presses
      BY <2>4, <2>7, <3>2 DEF KnownFingers, Told, TouchTypes
    <3>3. CASE ev = entries'[slot] /\ fingers[slot] # 0
      <4>1. slot \in changed /\ entries[slot].type = "down" /\ entries[slot].id = ev.id
            /\ entries[slot].slot = ev.slot
        BY <1>4, <2>4, <2>7, <3>3 DEF KnownFingers, Told, EntriesFollow
      <4>. QED  BY <2>4, <4>1 DEF KnownFingers
    <3>4. CASE ev = entries'[slot] /\ fingers[slot] = 0
      <4>1. ev.id = touches + 1 /\ ~Held(slot) /\ ev.slot \in {slot, entries[slot].slot}
            /\ ev.slot \in Slots \cup {Unnamed}
        <5>1. ev.id = touches + 1 /\ ev.slot \in {slot, entries[slot].slot}
          BY <3>4 DEF Told
        <5>2. ~Held(slot)
          BY <1>4, <3>4 DEF Told, Held
        <5>3. entries[slot].slot \in Slots \cup {Unnamed}
          BY DEF EntriesFollow
        <5>. QED  BY <5>1, <5>2, <5>3
      <4>2. ev.id \notin Ids
        <5>1. ev.id # PenId /\ \A s \in Slots : entries[s].id # ev.id
          BY <4>1, PenIsNoFinger DEF EntriesFollow, TouchTypes, PenId
        <5>. QED  BY <2>4, <5>1 DEF KnownFingers
      <4>3. ev.slot \notin Names
        <5>1. ASSUME NEW s \in Slots, Held(s) PROVE ev.slot # entries[s].slot
          BY <4>1, <5>1, PenIsNoFinger DEF EntriesFollow
        <5>2. ev.slot # PenSlot
          BY <4>1, PenIsNoFinger
        <5>. QED  BY <2>4, <5>1, <5>2 DEF KnownFingers
      <4>. QED  BY <4>2, <4>3
    <3>5. (\E s \in changed' : ev = entries'[s]) \/ (pen.pending /\ ev = pen.event)
      BY <2>4 DEF KnownFingers, Told
    <3>. QED  BY <3>1, <3>2, <3>3, <3>4, <3>5 DEF Told
  <2>. QED  BY <2>1, <2>5, <2>6, <2>7 DEF KernelKeeps
<1>. QED  BY <1>1, <1>2, <1>3, <1>4 DEF KernelKeeps

\* A report hands over what was told, which is then under way no less.
LEMMA ReportStep ==
  ASSUME TouchInv, Report
  PROVE  TouchInv' /\ KernelKeeps
<1>. USE DEF TouchInv
<1>1. /\ events = {} /\ events' = {entries[slot] : slot \in changed} /\ changed' = {}
      /\ UNCHANGED <<fingers, current, pen, touches, lost>>
  BY DEF Report
<1>2. ASSUME NEW slot \in Slots
      PROVE  /\ entries'[slot] \in Event /\ entries'[slot].id = entries[slot].id
             /\ entries'[slot].slot = entries[slot].slot /\ entries'[slot].type = "move"
  <2>1. CASE slot \notin changed
    BY <2>1 DEF Report, EntriesFollow, TouchTypes
  <2>2. CASE slot \in changed
    <3>. DEFINE old == entries[slot]
                new == [old EXCEPT !.type = "move"]
    <3>1. entries'[slot] = new
      BY <2>2 DEF Report
    <3>2. EventFields(old)
      BY EventParts DEF TouchTypes
    <3>. HIDE DEF old
    <3>3. EventFields(new) /\ new.id = old.id /\ new.slot = old.slot /\ new.type = "move"
      BY <3>2 DEF EventFields, EventTypes
    <3>. HIDE DEF new
    <3>. QED  BY <3>1, <3>3, EventParts DEF old
  <2>. QED  BY <2>1, <2>2
<1>3. entries' \in [Slots -> Event]
  <2>1. entries' = [slot \in Slots |-> entries'[slot]]
    BY DEF Report
  <2>. QED  BY <1>2, <2>1
<1>4. TouchTypes'
  <2>1. events' \subseteq Event
    BY <1>1 DEF TouchTypes
  <2>. QED  BY <1>1, <1>3, <2>1 DEF TouchTypes, PenFields
<1>5. EntriesFollow' /\ PenFollows'
  BY <1>1, <1>2 DEF EntriesFollow, PenFollows
<1>6. UnderWay' = UnderWay /\ Lifts' = Lifts /\ Presses' = Presses
  BY <1>1 DEF Waiting, UnderWay, Lifts, Presses
<1>7. IdsDown' = IdsDown /\ SlotsDown' = SlotsDown
  BY <1>1, <1>2 DEF IdsDown, SlotsDown
<1>8. EventsAreFresh'
  <2>. SUFFICES ASSUME NEW slot \in changed, entries[slot].type = "down"
                PROVE  /\ entries[slot].id \in IdsDown /\ entries[slot].slot \in SlotsDown
                       /\ entries[slot] \notin Waiting'
                       /\ \A other \in Presses :
                            \/ other = entries[slot]
                            \/ other.id # entries[slot].id /\ other.slot # entries[slot].slot
    BY <1>1, <1>6, <1>7 DEF EventsAreFresh
  <2>1. slot \in Slots /\ fingers[slot] # 0 /\ fingers[slot] = entries[slot].id
    BY DEF TouchTypes, EntriesFollow
  <2>2. entries[slot].id \in IdsDown /\ entries[slot].slot \in SlotsDown
    BY <2>1 DEF IdsDown, SlotsDown
  <2>3. ASSUME NEW other \in Presses
        PROVE  \/ other = entries[slot]
               \/ other.id # entries[slot].id /\ other.slot # entries[slot].slot
    <3>1. (\E s \in changed : other = entries[s]) \/ (pen.pending /\ other = pen.event)
      BY <1>1, KnownBySlot DEF KnownFingers
    <3>2. ASSUME other = pen.event
          PROVE  other.id # entries[slot].id /\ other.slot # entries[slot].slot
      BY <2>1, <3>2, PenIsNoFinger DEF TouchTypes, PenFields, EntriesFollow, PenId
    <3>3. ASSUME NEW s \in changed, other = entries[s], s # slot
          PROVE  other.id # entries[slot].id /\ other.slot # entries[slot].slot
      BY <2>1, <3>3, PenIsNoFinger DEF TouchTypes, EntriesFollow
    <3>. QED  BY <3>1, <3>2, <3>3
  <2>4. entries[slot] \notin Waiting'
    <3>1. Waiting' \subseteq {pen.event}
      BY <1>1 DEF Waiting
    <3>2. entries[slot].id # pen.event.id
      BY <2>1, PenIsNoFinger DEF TouchTypes, PenFields, EntriesFollow, PenId
    <3>. QED  BY <3>1, <3>2
  <2>. QED  BY <2>2, <2>3, <2>4
<1>9. KernelKeeps
  BY <1>1, <1>6, <1>7 DEF KernelKeeps, Ids, Names
<1>. QED  BY <1>4, <1>5, <1>8, <1>9

\* What the kernel tells of the pen: it goes down, is lifted, moves or leaves.
PenTold ==
  /\ events = {} /\ events' = {} /\ UNCHANGED <<fingers, current, entries, changed>>
  /\ PenFields' /\ touches' \in touches..MaxTouches /\ lost' \in BOOLEAN
  /\ pen'.pending
  /\ \/ /\ ~pen.touching /\ pen'.touching /\ pen'.event.type = "down"
        /\ lost' = (lost \/ overwritesLift)
     \/ pen.touching /\ ~pen'.touching /\ pen'.event.type = "up" /\ lost' = lost
     \/ /\ pen.touching /\ pen'.touching /\ pen'.event.type = pen.event.type
        /\ lost' = lost
     \/ /\ ~pen.touching /\ ~pen'.touching /\ pen'.event.type = "leave"
        /\ lost' = (lost \/ overwritesLift)

\* The parts of the pen after it spoke.
LEMMA PenSpoken ==
  ASSUME TouchInv, NEW event, EventFields(event), event.id = PenId, event.slot = PenSlot,
         PenSpeaks(event)
  PROVE  /\ events = {} /\ events' = {} /\ UNCHANGED <<fingers, current, entries, changed>>
         /\ PenFields' /\ pen'.pending = TRUE /\ pen'.event.type = event.type
         /\ pen'.touching = CASE event.type = "down" -> TRUE
                              [] event.type \in {"up", "leave"} -> FALSE
                              [] OTHER -> pen.touching
<1>. DEFINE on == CASE event.type = "down" -> TRUE
                    [] event.type \in {"up", "leave"} -> FALSE
                    [] OTHER -> pen.touching
<1>1. /\ events = {} /\ UNCHANGED <<fingers, current, entries, changed, events>>
      /\ pen' = [pen EXCEPT !.event = event, !.pending = TRUE, !.touching = on]
  BY DEF PenSpeaks
<1>2. on \in BOOLEAN
  BY DEF TouchInv, TouchTypes, PenFields
<1>. HIDE DEF on
<1>3. PenFields
  BY DEF TouchInv, TouchTypes
<1>4. pen' = [field \in DOMAIN pen' |-> pen'[field]] /\ DOMAIN pen' = DOMAIN pen
  BY <1>1
<1>5. pen'.event = event /\ pen'.pending = TRUE /\ pen'.touching = on
  BY <1>1, <1>3 DEF PenFields
<1>6. event \in Event
  BY EventParts
<1>7. PenFields'
  BY <1>2, <1>3, <1>4, <1>5, <1>6 DEF PenFields
<1>. QED  BY <1>1, <1>5, <1>7 DEF on

\* The steps of the pen.
LEMMA PenSays ==
  ASSUME TouchInv,
         PenUp \/ PenLeave \/ \E place \in Places : PenDown(place) \/ PenMove(place)
  PROVE  PenTold
<1>. DEFINE old == pen.event
<1>1. /\ EventFields(old) /\ old.id = PenId /\ old.slot = PenSlot
      /\ touches \in 0..MaxTouches /\ lost \in BOOLEAN /\ pen.touching \in BOOLEAN
      /\ MaxTouches \in Nat
  BY EventParts, PenIsNoFinger DEF TouchInv, TouchTypes, PenFields
<1>2. overwritesLift \in BOOLEAN
  BY DEF overwritesLift
<1>3. ASSUME NEW type \in {"up", "leave"}, PenSpeaks([old EXCEPT !.type = type])
      PROVE  /\ events = {} /\ events' = {} /\ UNCHANGED <<fingers, current, entries, changed>>
             /\ PenFields' /\ pen'.pending = TRUE /\ pen'.event.type = type /\ pen'.touching = FALSE
  <2>. DEFINE event == [old EXCEPT !.type = type]
  <2>1. EventFields(event) /\ event.id = PenId /\ event.slot = PenSlot /\ event.type = type
    BY <1>1 DEF EventFields, EventTypes
  <2>. HIDE DEF event
  <2>2. PenSpeaks(event)
    BY <1>3 DEF event
  <2>. QED  BY <2>1, <2>2, PenSpoken
<1>4. CASE PenUp
  <2>1. PenSpeaks([old EXCEPT !.type = "up"]) /\ pen.touching /\ UNCHANGED <<touches, lost>>
    BY <1>4 DEF PenUp
  <2>2. /\ events = {} /\ events' = {} /\ UNCHANGED <<fingers, current, entries, changed>>
        /\ PenFields' /\ pen'.pending = TRUE /\ pen'.event.type = "up" /\ pen'.touching = FALSE
    BY <1>3, <2>1
  <2>. QED  BY <1>1, <2>1, <2>2 DEF PenTold
<1>5. CASE PenLeave
  <2>1. /\ PenSpeaks([old EXCEPT !.type = "leave"]) /\ ~pen.touching /\ touches' = touches
        /\ lost' = (lost \/ overwritesLift)
    BY <1>5 DEF PenLeave
  <2>2. /\ events = {} /\ events' = {} /\ UNCHANGED <<fingers, current, entries, changed>>
        /\ PenFields' /\ pen'.pending = TRUE /\ pen'.event.type = "leave" /\ pen'.touching = FALSE
    BY <1>3, <2>1
  <2>. QED  BY <1>1, <1>2, <2>1, <2>2 DEF PenTold
<1>6. ASSUME NEW place \in Places, PenDown(place)
      PROVE  PenTold
  <2>. DEFINE event == [old EXCEPT !.type = "down", !.at = place]
  <2>1. EventFields(event) /\ event.id = PenId /\ event.slot = PenSlot /\ event.type = "down"
    <3>1. event = [field \in DOMAIN event |-> event[field]] /\ DOMAIN event = DOMAIN old
      OBVIOUS
    <3>2. event.id = PenId /\ event.slot = PenSlot /\ event.type = "down" /\ event.at = place
      BY <1>1 DEF EventFields
    <3>. HIDE DEF event
    <3>. QED  BY <1>1, <3>1, <3>2 DEF EventFields, EventTypes
  <2>. HIDE DEF event
  <2>2. /\ PenSpeaks(event) /\ ~pen.touching /\ touches < MaxTouches /\ touches' = touches + 1
        /\ lost' = (lost \/ overwritesLift)
    BY <1>6 DEF PenDown, event
  <2>3. /\ events = {} /\ events' = {} /\ UNCHANGED <<fingers, current, entries, changed>>
        /\ PenFields' /\ pen'.pending = TRUE /\ pen'.event.type = "down" /\ pen'.touching = TRUE
    BY <2>1, <2>2, PenSpoken
  <2>. QED  BY <1>1, <1>2, <2>2, <2>3 DEF PenTold
<1>7. ASSUME NEW place \in Places, PenMove(place)
      PROVE  PenTold
  <2>. DEFINE event == [old EXCEPT !.at = place]
  <2>1. EventFields(event) /\ event.id = PenId /\ event.slot = PenSlot /\ event.type = old.type
    BY <1>1 DEF EventFields
  <2>. HIDE DEF event
  <2>2. PenSpeaks(event) /\ pen.touching /\ touches' = touches /\ lost' = lost
    BY <1>7 DEF PenMove, event
  <2>3. old.type \notin {"up", "leave"}
    BY <2>2 DEF TouchInv, PenFollows
  <2>4. /\ events = {} /\ events' = {} /\ UNCHANGED <<fingers, current, entries, changed>>
        /\ PenFields' /\ pen'.pending = TRUE /\ pen'.event.type = old.type /\ pen'.touching = TRUE
    BY <2>1, <2>2, <2>3, PenSpoken
  <2>. QED  BY <1>1, <2>2, <2>4 DEF PenTold
<1>. QED  BY <1>4, <1>5, <1>6, <1>7

\* They keep the invariant and forget neither the pen nor a finger.
LEMMA PenStep ==
  ASSUME TouchInv, PenTold
  PROVE  TouchInv' /\ KernelKeeps
<1>. USE DEF TouchInv
<1>1. TouchTypes'
  BY DEF PenTold, TouchTypes
<1>2. EntriesFollow'
  BY DEF PenTold, EntriesFollow, TouchTypes
<1>3. PenFollows' /\ EventsAreFresh'
  BY DEF PenTold, PenFollows, EventsAreFresh
<1>4. KnownFingers /\ KnownFingers'
  BY <1>1, <1>2, KnownBySlot, KnownBySlotNext DEF PenTold
<1>5. ASSUME ~lost' PROVE KernelKeeps
  <2>1. ~lost
    BY <1>5 DEF PenTold
  <2>2. PenHeld => PenHeld'
    BY <1>5 DEF PenTold, PenHeld, overwritesLift, PenFollows
  <2>3. \A s \in Slots : (Held(s)' <=> Held(s)) /\ entries'[s] = entries[s]
    BY DEF PenTold, Held
  <2>4. Ids \subseteq Ids' /\ Names \subseteq Names'
    <3>1. ASSUME NEW id \in Ids PROVE id \in Ids'
      <4>1. (\E s \in Slots : Held(s)' /\ id = entries'[s].id) \/ (PenHeld' /\ id = PenId)
        BY <1>4, <2>2, <2>3 DEF KnownFingers
      <4>. QED  BY <1>4, <4>1 DEF KnownFingers
    <3>2. ASSUME NEW name \in Names PROVE name \in Names'
      <4>1. (\E s \in Slots : Held(s)' /\ name = entries'[s].slot) \/ (PenHeld' /\ name = PenSlot)
        BY <1>4, <2>2, <2>3 DEF KnownFingers
      <4>. QED  BY <1>4, <4>1 DEF KnownFingers
    <3>. QED  BY <3>1, <3>2
  <2>5. ASSUME NEW ev \in Presses'
        PROVE  \/ \E press \in Presses : press.id = ev.id /\ press.slot = ev.slot
               \/ ev.id \notin Ids /\ ev.slot \notin Names
    <3>1. ASSUME NEW s \in changed, ev = entries[s], ev.type = "down"
          PROVE  ev \in Presses
      BY <1>4, <3>1 DEF KnownFingers
    <3>2. CASE ev = pen'.event /\ pen.touching
      <4>1. pen.event.type = "down" /\ pen.pending
        BY <1>4, <2>5, <3>2 DEF PenTold, KnownFingers, PenFollows
      <4>2. ev.id = pen.event.id /\ ev.slot = pen.event.slot
        BY <3>2 DEF PenTold, PenFields, TouchTypes
      <4>. QED  BY <1>4, <4>1, <4>2 DEF KnownFingers
    <3>3. CASE ev = pen'.event /\ ~pen.touching
      <4>1. ev.id = PenId /\ ev.slot = PenSlot /\ ev.type = "down"
        BY <1>4, <2>5, <3>3 DEF PenTold, PenFields, KnownFingers
      <4>2. ~PenHeld
        BY <1>5, <3>3, <4>1 DEF PenTold, PenHeld, overwritesLift
      <4>3. \A s \in Slots : entries[s].id # PenId /\ entries[s].slot # PenSlot
        BY PenIsNoFinger DEF EntriesFollow, TouchTypes, PenId
      <4>4. ev.id \notin Ids
        BY <1>4, <4>1, <4>2, <4>3 DEF KnownFingers
      <4>5. ev.slot \notin Names
        BY <1>4, <4>1, <4>2, <4>3 DEF KnownFingers
      <4>. QED  BY <4>4, <4>5
    <3>4. ev.type = "down" /\ ((\E s \in changed : ev = entries[s]) \/ ev = pen'.event)
      BY <1>4, <2>5 DEF KnownFingers, PenTold
    <3>. QED  BY <3>1, <3>2, <3>3, <3>4
  <2>. QED  BY <2>1, <2>4, <2>5 DEF KernelKeeps
<1>. QED  BY <1>1, <1>2, <1>3, <1>5 DEF KernelKeeps

\* The pen's report.
LEMMA PenReportStep ==
  ASSUME TouchInv, PenReport
  PROVE  TouchInv' /\ KernelKeeps
<1>. USE DEF TouchInv
<1>1. /\ events = {} /\ pen.pending /\ events' = {pen.event}
      /\ UNCHANGED <<fingers, current, entries, changed, touches, lost>>
  BY DEF PenReport
<1>2. /\ PenFields' /\ pen'.pending = FALSE /\ pen'.event.type = "move"
      /\ pen'.touching = pen.touching
  <2>. DEFINE old == pen.event
              new == [old EXCEPT !.type = "move"]
  <2>1. EventFields(old) /\ old.id = PenId /\ old.slot = PenSlot
    BY EventParts DEF TouchTypes, PenFields
  <2>2. pen' = [pen EXCEPT !.event = new, !.pending = FALSE]
    BY DEF PenReport, TouchTypes, PenFields
  <2>. HIDE DEF old
  <2>3. EventFields(new) /\ new.id = PenId /\ new.slot = PenSlot /\ new.type = "move"
    BY <2>1 DEF EventFields, EventTypes
  <2>. HIDE DEF new
  <2>4. new \in Event
    BY <2>3, EventParts
  <2>5. pen' = [field \in DOMAIN pen' |-> pen'[field]] /\ DOMAIN pen' = DOMAIN pen
    BY <2>2
  <2>6. pen'.event = new /\ pen'.pending = FALSE /\ pen'.touching = pen.touching
    BY <2>2 DEF TouchTypes, PenFields
  <2>. QED  BY <2>3, <2>4, <2>5, <2>6 DEF TouchTypes, PenFields
<1>3. TouchTypes'
  BY <1>1, <1>2 DEF TouchTypes, PenFields
<1>4. EntriesFollow' /\ PenFollows'
  BY <1>1, <1>2 DEF EntriesFollow, PenFollows
<1>5. UnderWay' = UnderWay /\ Lifts' = Lifts /\ Presses' = Presses
  BY <1>1, <1>2 DEF Waiting, UnderWay, Lifts, Presses
<1>6. IdsDown' = IdsDown /\ SlotsDown' = SlotsDown
  BY <1>1, <1>2 DEF IdsDown, SlotsDown
<1>7. EventsAreFresh'
  <2>. SUFFICES ASSUME pen.event.type = "down"
                PROVE  /\ pen.event.id \in IdsDown /\ pen.event.slot \in SlotsDown
                       /\ pen.event \notin Waiting'
                       /\ \A other \in Presses :
                            \/ other = pen.event
                            \/ other.id # pen.event.id /\ other.slot # pen.event.slot
    BY <1>1, <1>5, <1>6 DEF EventsAreFresh
  <2>1. pen.event.id = PenId /\ pen.event.slot = PenSlot /\ pen.touching
    BY DEF TouchTypes, PenFields, PenFollows
  <2>2. pen.event.id \in IdsDown /\ pen.event.slot \in SlotsDown
    BY <2>1 DEF IdsDown, SlotsDown
  <2>3. ASSUME NEW other \in Presses
        PROVE  other = pen.event \/ (other.id # PenId /\ other.slot # PenSlot)
    <3>1. (\E s \in changed : other = entries[s]) \/ other = pen.event
      BY <1>1, KnownBySlot DEF KnownFingers
    <3>2. \A s \in Slots : entries[s].id # PenId /\ entries[s].slot # PenSlot
      BY PenIsNoFinger DEF EntriesFollow, TouchTypes, PenId
    <3>. QED  BY <3>1, <3>2 DEF TouchTypes
  <2>4. pen.event \notin Waiting'
    <3>1. Waiting' = {entries[slot] : slot \in changed}
      BY <1>1, <1>2 DEF Waiting
    <3>2. \A slot \in Slots : entries[slot].id # PenId
      BY PenIsNoFinger DEF EntriesFollow, TouchTypes, PenId
    <3>. QED  BY <2>1, <3>1, <3>2 DEF TouchTypes
  <2>. QED  BY <2>1, <2>2, <2>3, <2>4
<1>8. KernelKeeps
  BY <1>1, <1>5, <1>6 DEF KernelKeeps, Ids, Names
<1>. QED  BY <1>3, <1>4, <1>7, <1>8

\* Every step of the kernel and of the devices.
LEMMA KernelStep ==
  ASSUME TouchInv, TouchKernel
  PROVE  TouchInv' /\ KernelKeeps
<1>1. ASSUME NEW slot \in Slots,
             TouchEnd(slot) \/ \E place \in Places : TouchBegin(slot, place) \/ TouchMove(slot, place)
      PROVE  TouchInv' /\ KernelKeeps
  BY <1>1, FingerTold, ToldKeeps
<1>2. CASE PenUp \/ PenLeave \/ \E place \in Places : PenDown(place) \/ PenMove(place)
  BY <1>2, PenSays, PenStep
<1>. QED  BY <1>1, <1>2, ReportStep, PenReportStep DEF TouchKernel

\* An event that is handed over is under way no more; a press is of a finger on
\* the glass, and no other press under way is of that one.
LEMMA DeliverStep ==
  ASSUME TouchInv, NEW ev, Deliver(ev)
  PROVE  /\ TouchInv' /\ EventFields(ev)
         /\ UNCHANGED <<IdsDown, SlotsDown, lost>>
         /\ Lifts \ {ev} \subseteq Lifts' /\ Presses' \subseteq Presses
         /\ ev.type = "down" =>
              /\ ev.id \in IdsDown /\ ev.slot \in SlotsDown
              /\ \A press \in Presses' : press.id # ev.id /\ press.slot # ev.slot
<1>. USE DEF TouchInv
<1>1. /\ ev \in events /\ events' = events \ {ev}
      /\ UNCHANGED <<fingers, current, entries, changed, pen, touches, lost>>
  BY DEF Deliver
<1>2. EventFields(ev)
  BY <1>1, EventParts DEF TouchTypes
<1>3. UNCHANGED <<IdsDown, SlotsDown, lost>>
  BY <1>1 DEF IdsDown, SlotsDown
<1>4. UnderWay \ {ev} \subseteq UnderWay' /\ UnderWay' \subseteq UnderWay
  BY <1>1 DEF Waiting, UnderWay
<1>5. Lifts \ {ev} \subseteq Lifts' /\ Presses' \subseteq Presses
  BY <1>4 DEF Lifts, Presses
<1>6. TouchTypes' /\ EntriesFollow' /\ PenFollows'
  BY <1>1 DEF TouchTypes, PenFields, EntriesFollow, PenFollows
<1>7. EventsAreFresh'
  BY <1>1, <1>3, <1>5 DEF EventsAreFresh, Waiting
<1>8. ASSUME ev.type = "down"
      PROVE  /\ ev.id \in IdsDown /\ ev.slot \in SlotsDown
             /\ \A press \in Presses' : press.id # ev.id /\ press.slot # ev.slot
  <2>1. ev \notin Presses'
    BY <1>1, <1>8 DEF EventsAreFresh, Presses, UnderWay, Waiting
  <2>. QED  BY <1>1, <1>5, <1>8, <2>1 DEF EventsAreFresh
<1>. QED  BY <1>2, <1>3, <1>5, <1>6, <1>7, <1>8

-----------------------------------------------------------------------------
(* The keypad of the calculator.                                           *)

\* The state of the keypad, part by part.
KeypadTypes ==
  /\ keysdown \subseteq Keys
  /\ onkey = [field \in DOMAIN onkey |-> onkey[field]]
  /\ DOMAIN onkey = {"down", "int", "interrupt"}
  /\ onkey.down \in BOOLEAN /\ onkey.int \in BOOLEAN /\ onkey.interrupt \in BOOLEAN
  /\ \A id \in DOMAIN keyPointers : keyPointers[id] \in Keys \cup {OnKey}

\* Fingers that press a key are known, a press that is under way is of a finger
\* that does not, and every key that is down is pressed by a finger.
PointersHold ==
  /\ DOMAIN keyPointers \subseteq Ids
  /\ \A press \in Presses : press.id \notin DOMAIN keyPointers
  /\ \A key \in Pressed : \E id \in DOMAIN keyPointers : keyPointers[id] = key

KeypadInv == TouchInv /\ KeypadTypes /\ (~lost => PointersHold)

\* The types of the keypad.
LEMMA KeypadTypesOK == KeypadTypes => KeypadTypeOK
<1>1. KeypadTypes => onkey \in [down : BOOLEAN, int : BOOLEAN, interrupt : BOOLEAN]
  BY DEF KeypadTypes
<1>. QED  BY <1>1 DEF KeypadTypes, KeypadTypeOK

\* Pressing and releasing a key changes that key alone.
LEMMA PressRelease ==
  ASSUME KeypadTypes, NEW key \in Keys \cup {OnKey}, press_key(key) \/ release_key(key)
  PROVE  /\ keysdown' \subseteq Keys
         /\ onkey' = [field \in DOMAIN onkey' |-> onkey'[field]]
         /\ DOMAIN onkey' = {"down", "int", "interrupt"}
         /\ onkey'.down \in BOOLEAN /\ onkey'.int \in BOOLEAN /\ onkey'.interrupt \in BOOLEAN
         /\ press_key(key) => Pressed' = Pressed \cup {key}
         /\ release_key(key) => Pressed' = Pressed \ {key}
<1>1. OnKey \notin Keys
  BY KeypadAssumption DEF KeypadAssumption
<1>2. CASE key # OnKey
  BY <1>1, <1>2 DEF press_key, release_key, Pressed, KeypadTypes
<1>3. CASE key = OnKey
  <2>1. /\ onkey' = [field \in DOMAIN onkey' |-> onkey'[field]] /\ DOMAIN onkey' = DOMAIN onkey
        /\ onkey'.int = onkey.int
        /\ press_key(key) => onkey'.down = TRUE
        /\ release_key(key) => onkey'.down = FALSE
    BY <1>3 DEF press_key, release_key, KeypadTypes
  <2>2. onkey'.interrupt \in BOOLEAN /\ onkey'.down \in BOOLEAN
    BY <1>3 DEF press_key, release_key, KeypadTypes
  <2>3. keysdown' = keysdown
    BY <1>1, <1>3 DEF press_key, release_key, KeypadTypes
  <2>4. OnKey \notin keysdown
    BY <1>1 DEF KeypadTypes
  <2>. QED  BY <1>3, <2>1, <2>2, <2>3, <2>4 DEF KeypadTypes, Pressed
<1>. QED  BY <1>2, <1>3

\* An event that the widget takes.
LEMMA KeypadTakes ==
  ASSUME KeypadInv, NEW ev \in events, Deliver(ev), handleInput(ev)
  PROVE  KeypadInv'
<1>1. /\ TouchInv' /\ UNCHANGED <<IdsDown, SlotsDown, lost>>
      /\ Lifts \ {ev} \subseteq Lifts' /\ Presses' \subseteq Presses
      /\ ev.type = "down" =>
           /\ ev.id \in IdsDown
           /\ \A press \in Presses' : press.id # ev.id
  BY DeliverStep DEF KeypadInv
<1>2. \A id \in Ids : id \in Ids' \/ (ev.type = "up" /\ id = ev.id)
  BY <1>1 DEF Ids, Lifts
<1>3. CASE ev.type = "up" /\ ev.id \in DOMAIN keyPointers
  <2>. DEFINE key == keyPointers[ev.id]
              left == DOMAIN keyPointers \ {ev.id}
  <2>1. release_key(key) /\ keyPointers' = [id \in left |-> keyPointers[id]]
    BY <1>3 DEF handleInput, lifted
  <2>2. key \in Keys \cup {OnKey}
    BY <1>3 DEF KeypadInv, KeypadTypes
  <2>. HIDE DEF key
  <2>3. KeypadTypes'
    BY <2>1, <2>2, PressRelease DEF KeypadInv, KeypadTypes
  <2>4. Pressed' = Pressed \ {key}
    BY <2>1, <2>2, PressRelease DEF KeypadInv
  <2>5. ASSUME ~lost PROVE PointersHold'
    <3>1. PointersHold
      BY <2>5 DEF KeypadInv
    <3>2. left \subseteq Ids'
      BY <1>2, <3>1 DEF PointersHold
    <3>3. ASSUME NEW k \in Pressed' PROVE \E id \in left : keyPointers[id] = k
      <4>1. PICK id \in DOMAIN keyPointers : keyPointers[id] = k
        BY <2>4, <3>1, <3>3 DEF PointersHold
      <4>. QED  BY <2>4, <4>1 DEF key
    <3>. HIDE DEF left
    <3>4. DOMAIN keyPointers' = left /\ \A id \in left : keyPointers'[id] = keyPointers[id]
      BY <2>1
    <3>5. left \subseteq DOMAIN keyPointers
      BY DEF left
    <3>. QED  BY <1>1, <3>1, <3>2, <3>3, <3>4, <3>5 DEF PointersHold
  <2>. QED  BY <1>1, <2>3, <2>5 DEF KeypadInv
<1>4. CASE ev.type = "down" /\ ev.at \in Keys \cup {OnKey}
  <2>. DEFINE more == DOMAIN keyPointers \cup {ev.id}
              key == ev.at
  <2>1. /\ press_key(key)
        /\ keyPointers' = [id \in more |->
                             IF id \in DOMAIN keyPointers THEN keyPointers[id] ELSE key]
    BY <1>4 DEF handleInput, pressed
  <2>2. /\ DOMAIN keyPointers' = more
        /\ \A id \in DOMAIN keyPointers : keyPointers'[id] = keyPointers[id]
        /\ ev.id \notin DOMAIN keyPointers => keyPointers'[ev.id] = key
    BY <2>1
  <2>3. \A id \in more : keyPointers'[id] \in Keys \cup {OnKey}
    BY <1>4, <2>1 DEF KeypadInv, KeypadTypes
  <2>. HIDE DEF key
  <2>4. KeypadTypes'
    BY <1>4, <2>1, <2>2, <2>3, PressRelease DEF KeypadInv, KeypadTypes, key
  <2>5. Pressed' = Pressed \cup {key}
    BY <1>4, <2>1, PressRelease DEF KeypadInv, key
  <2>6. ASSUME ~lost PROVE PointersHold'
    <3>1. PointersHold
      BY <2>6 DEF KeypadInv
    <3>2. ev.id \notin DOMAIN keyPointers
      BY <1>4, <3>1 DEF PointersHold, Presses, UnderWay
    <3>3. more \subseteq Ids'
      BY <1>1, <1>2, <1>4, <3>1 DEF PointersHold, Ids
    <3>4. \A press \in Presses' : press.id \notin more
      BY <1>1, <1>4, <3>1 DEF PointersHold
    <3>5. ASSUME NEW k \in Pressed' PROVE \E id \in more : keyPointers'[id] = k
      <4>1. CASE k = key
        BY <2>2, <3>2, <4>1
      <4>2. CASE k # key
        <5>1. PICK id \in DOMAIN keyPointers : keyPointers[id] = k
          BY <2>5, <3>1, <3>5, <4>2 DEF PointersHold
        <5>. QED  BY <2>2, <5>1
      <4>. QED  BY <4>1, <4>2
    <3>. QED  BY <2>2, <3>3, <3>4, <3>5 DEF PointersHold
  <2>. QED  BY <1>1, <2>4, <2>6 DEF KeypadInv
<1>5. CASE /\ ~(ev.type = "up" /\ ev.id \in DOMAIN keyPointers)
           /\ ~(ev.type = "down" /\ ev.at \in Keys \cup {OnKey})
  <2>1. UNCHANGED keypadVars
    BY <1>5 DEF handleInput
  <2>2. KeypadTypes' /\ Pressed' = Pressed
    BY <2>1 DEF keypadVars, KeypadInv, KeypadTypes, Pressed
  <2>3. PointersHold => PointersHold'
    BY <1>1, <1>2, <1>5, <2>1, <2>2 DEF PointersHold, keypadVars
  <2>. QED  BY <1>1, <2>2, <2>3 DEF KeypadInv
<1>. QED  BY <1>3, <1>4, <1>5

\* Every step of the keypad.
LEMMA KeypadStep == KeypadInv /\ [KeypadNext]_<<touchVars, keypadVars>> => KeypadInv'
<1>. SUFFICES ASSUME KeypadInv, [KeypadNext]_<<touchVars, keypadVars>> PROVE KeypadInv'
  OBVIOUS
<1>1. CASE TouchKernel /\ UNCHANGED keypadVars
  <2>1. TouchInv' /\ KernelKeeps
    BY <1>1, KernelStep DEF KeypadInv
  <2>2. KeypadTypes' /\ Pressed' = Pressed /\ keyPointers' = keyPointers
    BY <1>1 DEF keypadVars, KeypadInv, KeypadTypes, Pressed
  <2>3. ~lost' => PointersHold'
    BY <2>1, <2>2 DEF KeypadInv, KernelKeeps, PointersHold
  <2>. QED  BY <2>1, <2>2, <2>3 DEF KeypadInv
<1>2. ASSUME UNCHANGED touchVars
      PROVE  TouchInv' /\ UNCHANGED <<Ids, Presses, lost>>
  BY <1>2 DEF touchVars, KeypadInv, TouchInv, TouchTypes, PenFields, EntriesFollow, PenFollows,
    EventsAreFresh, Waiting, UnderWay, IdsDown, SlotsDown, Lifts, Presses, Ids
<1>3. CASE tilem_keypad_reset
  <2>1. /\ keysdown' = {} /\ onkey' = [onkey EXCEPT !.down = FALSE, !.int = FALSE]
        /\ keyPointers' = keyPointers /\ UNCHANGED touchVars
    BY <1>3 DEF tilem_keypad_reset
  <2>2. /\ onkey' = [field \in DOMAIN onkey' |-> onkey'[field]] /\ DOMAIN onkey' = DOMAIN onkey
        /\ onkey'.down = FALSE /\ onkey'.int = FALSE /\ onkey'.interrupt = onkey.interrupt
    BY <2>1 DEF KeypadInv, KeypadTypes
  <2>3. KeypadTypes' /\ Pressed' = {}
    BY <2>1, <2>2 DEF KeypadInv, KeypadTypes, Pressed
  <2>. QED  BY <1>2, <2>1, <2>3 DEF KeypadInv, PointersHold
<1>4. ASSUME NEW enable \in BOOLEAN, OnKeyPort(enable)
      PROVE  KeypadInv'
  <2>1. /\ onkey' = [onkey EXCEPT !.int = enable, !.interrupt = onkey.interrupt /\ enable]
        /\ UNCHANGED <<keysdown, keyPointers, touchVars>>
    BY <1>4 DEF OnKeyPort
  <2>2. /\ onkey' = [field \in DOMAIN onkey' |-> onkey'[field]] /\ DOMAIN onkey' = DOMAIN onkey
        /\ onkey'.down = onkey.down /\ onkey'.int = enable
    BY <2>1 DEF KeypadInv, KeypadTypes
  <2>3. onkey'.interrupt \in BOOLEAN
    BY <2>1 DEF KeypadInv, KeypadTypes
  <2>4. KeypadTypes' /\ Pressed' = Pressed
    BY <2>1, <2>2, <2>3 DEF KeypadInv, KeypadTypes, Pressed
  <2>. QED  BY <1>2, <2>1, <2>4 DEF KeypadInv, PointersHold
<1>5. CASE UNCHANGED <<touchVars, keypadVars>>
  <2>1. KeypadTypes' /\ Pressed' = Pressed /\ keyPointers' = keyPointers
    BY <1>5 DEF keypadVars, KeypadInv, KeypadTypes, Pressed
  <2>. QED  BY <1>2, <1>5, <2>1 DEF KeypadInv, PointersHold
<1>. QED  BY <1>1, <1>3, <1>4, <1>5, KeypadTakes DEF KeypadNext

\* No key stays down behind the back of the user, for any number of slots and
\* keys and however the touches, the reports of fingers and pen and the resets
\* of the calculator are mixed.
THEOREM KeypadReleasesKeys ==
  KeypadSpec => [](TouchTypeOK /\ KeypadTypeOK /\ NoKeyStaysDown)
<1>1. TouchInit /\ KeypadInit => KeypadInv
  <2>. SUFFICES ASSUME TouchInit, KeypadInit PROVE KeypadInv
    OBVIOUS
  <2>1. KeypadTypes /\ Pressed = {} /\ DOMAIN keyPointers = {}
    BY DEF KeypadInit, KeypadTypes, Pressed
  <2>. QED  BY <2>1, TouchStarts DEF KeypadInv, PointersHold
<1>2. KeypadInv => TouchTypeOK /\ KeypadTypeOK /\ NoKeyStaysDown
  <2>. SUFFICES ASSUME KeypadInv PROVE TouchTypeOK /\ KeypadTypeOK /\ NoKeyStaysDown
    OBVIOUS
  <2>1. AtRest => Ids = IdsDown
    BY DEF AtRest, Ids, Lifts, UnderWay, Waiting
  <2>. QED  BY <2>1, TouchTypesOK, KeypadTypesOK DEF KeypadInv, TouchInv, NoKeyStaysDown,
      PointersHold
<1>. QED  BY <1>1, <1>2, KeypadStep, PTL DEF KeypadSpec

-----------------------------------------------------------------------------
(* The keyboard of the terminal.                                           *)

\* The parts of a key.
KeyFields(key) ==
  /\ key = [field \in DOMAIN key |-> key[field]] /\ DOMAIN key = {"slot", "stuck", "held"}
  /\ key.slot \in SlotNames \cup {NoSlot} /\ key.stuck \in BOOLEAN /\ key.held \in BOOLEAN

KeyboardTypes ==
  /\ shown \in BOOLEAN /\ hidden \in BOOLEAN /\ mouse \in BOOLEAN /\ alive \in BOOLEAN
  /\ DOMAIN keys = DOMAIN Layout[shown]
  /\ \A i \in DOMAIN keys : KeyFields(keys[i])
  /\ mouseSlot \in SlotNames \cup {NoSlot} /\ active \subseteq Slots /\ spent \subseteq SlotNames

\* A key is pressed by a finger that is known, each by one of its own, and no
\* key by a finger whose press is under way.
KeysHold ==
  /\ \A i \in DOMAIN keys : keys[i].slot \in Names \cup {NoSlot}
  /\ \A i, j \in DOMAIN keys : keys[i].slot = keys[j].slot => i = j \/ keys[i].slot = NoSlot
  /\ \A press \in Presses, i \in DOMAIN keys : keys[i].slot # press.slot

\* A touch that changed the layout presses no key any more.
SpentPressNothing == \A i \in DOMAIN keys : keys[i].slot \notin spent

KeyboardInv ==
  TouchInv /\ KeyboardTypes /\ SpentPressNothing /\ (~lost => KeysHold)

\* The types of the keyboard.
LEMMA KeyboardTypesOK == KeyboardTypes => KeyboardTypeOK
<1>1. ASSUME NEW key, KeyFields(key)
      PROVE  key \in [slot : SlotNames \cup {NoSlot}, stuck : BOOLEAN, held : BOOLEAN]
  BY <1>1 DEF KeyFields
<1>. QED  BY <1>1 DEF KeyboardTypes, KeyboardTypeOK

\* No slot is called like none.
LEMMA NoSlotIsNone == NoSlot \notin SlotNames
BY PenIsNoFinger DEF SlotNames, NoSlot, PenSlot, Unnamed

\* What a press, and a release, make of the keys.
LEMMA KeysChange ==
  ASSUME KeyboardTypes, NEW slot \in SlotNames, NEW key \in DOMAIN keys
  PROVE  /\ keyDown(key, slot) =>
              /\ DOMAIN keys' = DOMAIN keys
              /\ \A i \in DOMAIN keys : /\ KeyFields(keys'[i])
                                        /\ keys'[i].slot = IF i = key THEN slot ELSE keys[i].slot
         /\ keys' = [keys EXCEPT ![key].slot = NoSlot] =>
              /\ DOMAIN keys' = DOMAIN keys
              /\ \A i \in DOMAIN keys : /\ KeyFields(keys'[i])
                                        /\ keys'[i].slot = IF i = key THEN NoSlot ELSE keys[i].slot
<1>1. ASSUME NEW old, KeyFields(old), NEW new \in SlotNames \cup {NoSlot}
      PROVE  KeyFields([old EXCEPT !.slot = new]) /\ [old EXCEPT !.slot = new].slot = new
  BY <1>1 DEF KeyFields
<1>2. ASSUME NEW old, KeyFields(old)
      PROVE  /\ KeyFields([old EXCEPT !.stuck = FALSE])
             /\ [old EXCEPT !.stuck = FALSE].slot = old.slot
  BY <1>2 DEF KeyFields
<1>3. ASSUME NEW old, KeyFields(old)
      PROVE  LET new == [slot |-> slot, held |-> FALSE,
                         stuck |-> IF old.held THEN old.stuck ELSE ~old.stuck]
             IN  KeyFields(new) /\ new.slot = slot
  BY <1>3 DEF KeyFields
<1>4. \A i \in DOMAIN keys : KeyFields(keys[i])
  BY DEF KeyboardTypes
<1>5. ASSUME keyDown(key, slot), NEW i \in DOMAIN keys
      PROVE  /\ KeyFields(keys'[i])
             /\ keys'[i].slot = IF i = key THEN slot ELSE keys[i].slot
  <2>1. keys'[i] = IF i = key
                   THEN IF code(i) \in Modifiers
                        THEN [slot |-> slot, held |-> FALSE,
                              stuck |-> IF keys[i].held THEN keys[i].stuck ELSE ~keys[i].stuck]
                        ELSE [keys[i] EXCEPT !.slot = slot]
                   ELSE IF code(key) \notin Modifiers /\ code(i) \in Modifiers
                        THEN [keys[i] EXCEPT !.stuck = FALSE]
                        ELSE keys[i]
    BY <1>5 DEF keyDown
  <2>. QED  BY <1>1, <1>2, <1>3, <1>4, <2>1
<1>6. ASSUME keys' = [keys EXCEPT ![key].slot = NoSlot], NEW i \in DOMAIN keys
      PROVE  /\ KeyFields(keys'[i])
             /\ keys'[i].slot = IF i = key THEN NoSlot ELSE keys[i].slot
  <2>1. keys'[i] = IF i = key THEN [keys[i] EXCEPT !.slot = NoSlot] ELSE keys[i]
    BY <1>6
  <2>. QED  BY <1>1, <1>4, <2>1
<1>. QED  BY <1>5, <1>6 DEF keyDown

\* An event makes of the keys one of three things.
LEMMA EventChange ==
  ASSUME KeyboardInv, NEW ev \in events, handleEvent(ev)
  PROVE  /\ \/ /\ ev.type = "down"
               /\ \E key \in DOMAIN keys : keyDown(key, ev.slot)
            \/ /\ ev.type = "up" /\ keysOf(ev.slot) # {}
               /\ LET first == CHOOSE i \in keysOf(ev.slot) : \A j \in keysOf(ev.slot) : i <= j
                  IN  keys' = [keys EXCEPT ![first].slot = NoSlot]
            \/ (ev.type = "up" => keysOf(ev.slot) = {}) /\ keys' = keys
         /\ spent' = IF ev.type = "down" THEN spent \ {ev.slot} ELSE spent
         /\ UNCHANGED <<shown, hidden, mouse>>
<1>1. handleKeyEvent(ev) \/ (~isKeyRelease(ev) /\ handleScreenEvent(ev))
  BY DEF handleEvent
<1>2. CASE handleKeyEvent(ev)
  BY <1>2 DEF handleKeyEvent, handleEvent
<1>3. CASE ~isKeyRelease(ev) /\ handleScreenEvent(ev)
  BY <1>3 DEF handleScreenEvent, isKeyRelease, handleEvent
<1>. QED  BY <1>1, <1>2, <1>3

\* An event that the keyboard takes keeps the types, and the keys to fingers.
LEMMA KeyboardTakes ==
  ASSUME KeyboardInv, NEW ev \in events, handleEvent(ev)
  PROVE  KeyboardInv'
<1>1. /\ TouchInv' /\ UNCHANGED <<IdsDown, SlotsDown, lost>>
      /\ ev.slot \in SlotNames
      /\ Lifts \ {ev} \subseteq Lifts' /\ Presses' \subseteq Presses
      /\ ev.type = "down" =>
           /\ ev.slot \in SlotsDown
           /\ \A press \in Presses' : press.slot # ev.slot
  <2>1. Deliver(ev)
    BY DEF handleEvent
  <2>. QED  BY <2>1, DeliverStep DEF KeyboardInv, EventFields, SlotNames
<1>2. \A name \in Names : name \in Names' \/ (ev.type = "up" /\ name = ev.slot)
  BY <1>1 DEF Names, Lifts
<1>3. /\ spent' = IF ev.type = "down" THEN spent \ {ev.slot} ELSE spent
      /\ UNCHANGED <<shown, hidden, mouse>>
  BY EventChange
<1>4. spent' \subseteq SlotNames
  BY <1>3 DEF KeyboardInv, KeyboardTypes
<1>5. alive' \in BOOLEAN /\ mouseSlot' \in SlotNames \cup {NoSlot} /\ active' \subseteq Slots
  <2>1. handleKeyEvent(ev) \/ handleScreenEvent(ev)
    BY DEF handleEvent
  <2>2. CASE handleKeyEvent(ev)
    BY <2>2 DEF handleKeyEvent, KeyboardInv, KeyboardTypes
  <2>3. CASE handleScreenEvent(ev) /\ mouse /\ ev.slot # Unnamed
    <3>1. /\ active' = IF ev.slot = PenSlot THEN active
                       ELSE CASE ev.type = "down" -> active \cup {ev.slot}
                              [] ev.type = "up" -> active \ {ev.slot}
                              [] OTHER -> active
          /\ mouseSlot' \in {ev.slot, NoSlot, mouseSlot}
          /\ alive' = alive
      BY <2>3 DEF handleScreenEvent
    <3>2. active' \in {active, active \cup {ev.slot}, active \ {ev.slot}}
          /\ (ev.slot = PenSlot => active' = active)
      BY <3>1
    <3>3. ev.slot = PenSlot \/ ev.slot \in Slots
      BY <1>1, <2>3 DEF SlotNames
    <3>. QED  BY <1>1, <3>1, <3>2, <3>3 DEF KeyboardInv, KeyboardTypes
  <2>4. CASE handleScreenEvent(ev) /\ ~(mouse /\ ev.slot # Unnamed)
    BY <2>4 DEF handleScreenEvent, KeyboardInv, KeyboardTypes
  <2>. QED  BY <2>1, <2>2, <2>3, <2>4
<1>6. ev \in UnderWay
  BY DEF UnderWay
<1>7. CASE ev.type = "down" /\ \E key \in DOMAIN keys : keyDown(key, ev.slot)
  <2>1. PICK key \in DOMAIN keys : keyDown(key, ev.slot)
    BY <1>7
  <2>2. /\ DOMAIN keys' = DOMAIN keys
        /\ \A i \in DOMAIN keys : /\ KeyFields(keys'[i])
                                  /\ keys'[i].slot = IF i = key THEN ev.slot ELSE keys[i].slot
    BY <1>1, <2>1, KeysChange DEF KeyboardInv
  <2>3. KeyboardTypes'
    BY <1>3, <1>4, <1>5, <2>2 DEF KeyboardInv, KeyboardTypes
  <2>4. SpentPressNothing'
    BY <1>3, <1>7, <2>2 DEF KeyboardInv, SpentPressNothing
  <2>5. ASSUME ~lost PROVE KeysHold'
    <3>1. KeysHold /\ ev \in Presses
      BY <1>6, <1>7, <2>5 DEF KeyboardInv, Presses
    <3>2. \A i \in DOMAIN keys : keys[i].slot # ev.slot
      BY <3>1 DEF KeysHold
    <3>3. ev.slot \in Names'
      BY <1>1, <1>7 DEF Names
    <3>4. \A i \in DOMAIN keys : keys'[i].slot \in Names' \cup {NoSlot}
      BY <1>2, <1>7, <2>2, <3>1, <3>3 DEF KeysHold
    <3>5. \A i, j \in DOMAIN keys : keys'[i].slot = keys'[j].slot => i = j \/ keys'[i].slot = NoSlot
      BY <2>2, <3>1, <3>2 DEF KeysHold
    <3>6. \A press \in Presses', i \in DOMAIN keys : keys'[i].slot # press.slot
      BY <1>1, <1>7, <2>2, <3>1 DEF KeysHold
    <3>. QED  BY <2>2, <3>4, <3>5, <3>6 DEF KeysHold
  <2>. QED  BY <1>1, <2>3, <2>4, <2>5 DEF KeyboardInv
<1>8. CASE /\ ev.type = "up" /\ keysOf(ev.slot) # {}
           /\ LET first == CHOOSE i \in keysOf(ev.slot) : \A j \in keysOf(ev.slot) : i <= j
              IN  keys' = [keys EXCEPT ![first].slot = NoSlot]
  <2>. DEFINE first == CHOOSE i \in keysOf(ev.slot) : \A j \in keysOf(ev.slot) : i <= j
  <2>1. keys' = [keys EXCEPT ![first].slot = NoSlot]
    BY <1>8
  <2>2. \A i \in DOMAIN keys : KeyFields(keys[i])
    BY DEF KeyboardInv, KeyboardTypes
  <2>3. ASSUME ~lost
        PROVE  /\ first \in DOMAIN keys
               /\ \A i \in DOMAIN keys : keys[i].slot = ev.slot <=> i = first
    <3>1. KeysHold /\ ev.slot # NoSlot
      BY <1>1, <2>3, NoSlotIsNone DEF KeyboardInv
    <3>2. PICK only \in DOMAIN keys : keysOf(ev.slot) = {only}
      BY <1>8, <3>1 DEF keysOf, KeysHold
    <3>3. only \in Nat
      BY <3>2, KeyboardAssumption DEF KeyboardAssumption, KeyboardInv, KeyboardTypes
    <3>4. \A j \in keysOf(ev.slot) : only <= j
      BY <3>2, <3>3
    <3>5. first \in keysOf(ev.slot)
      BY <3>2, <3>4
    <3>. HIDE DEF first
    <3>. QED  BY <3>2, <3>5 DEF keysOf
  <2>. HIDE DEF first
  <2>4. /\ DOMAIN keys' = DOMAIN keys
        /\ \A i \in DOMAIN keys : /\ KeyFields(keys'[i])
                                  /\ keys'[i].slot = IF i = first THEN NoSlot ELSE keys[i].slot
    <3>1. CASE first \in DOMAIN keys
      BY <1>1, <2>1, <3>1, KeysChange DEF KeyboardInv
    <3>2. CASE first \notin DOMAIN keys
      BY <2>1, <2>2, <3>2
    <3>. QED  BY <3>1, <3>2
  <2>5. KeyboardTypes'
    BY <1>3, <1>4, <1>5, <2>4 DEF KeyboardInv, KeyboardTypes
  <2>6. SpentPressNothing'
    BY <1>3, <1>8, <2>4, NoSlotIsNone DEF KeyboardInv, KeyboardTypes, SpentPressNothing
  <2>7. ASSUME ~lost PROVE KeysHold'
    <3>1. KeysHold
      BY <2>7 DEF KeyboardInv
    <3>2. \A i \in DOMAIN keys : keys'[i].slot \in Names' \cup {NoSlot}
      BY <1>2, <2>3, <2>4, <2>7, <3>1 DEF KeysHold
    <3>3. \A i, j \in DOMAIN keys : keys'[i].slot = keys'[j].slot => i = j \/ keys'[i].slot = NoSlot
      BY <2>4, <3>1 DEF KeysHold
    <3>4. \A press \in Presses : press.slot # NoSlot
      BY NoSlotIsNone DEF KeyboardInv, TouchInv, TouchTypes, Presses, UnderWay, Waiting, PenFields,
        Event, SlotNames
    <3>5. \A press \in Presses', i \in DOMAIN keys : keys'[i].slot # press.slot
      BY <1>1, <2>4, <3>1, <3>4 DEF KeysHold
    <3>. QED  BY <2>4, <3>2, <3>3, <3>5 DEF KeysHold
  <2>. QED  BY <1>1, <2>5, <2>6, <2>7 DEF KeyboardInv
<1>9. CASE (ev.type = "up" => keysOf(ev.slot) = {}) /\ keys' = keys
  <2>1. KeyboardTypes' /\ SpentPressNothing'
    BY <1>3, <1>4, <1>5, <1>9 DEF KeyboardInv, KeyboardTypes, SpentPressNothing
  <2>2. ASSUME ~lost PROVE KeysHold'
    <3>1. KeysHold
      BY <2>2 DEF KeyboardInv
    <3>2. \A i \in DOMAIN keys : keys[i].slot \in Names' \cup {NoSlot}
      BY <1>2, <1>9, <3>1 DEF KeysHold, keysOf
    <3>. QED  BY <1>1, <1>9, <3>1, <3>2 DEF KeysHold
  <2>. QED  BY <1>1, <2>1, <2>2 DEF KeyboardInv
<1>. QED  BY <1>7, <1>8, <1>9, EventChange

\* A pass over the keys that are held: none is new, or all are.
LEMMA RepeatKeeps ==
  ASSUME KeyboardInv, updateRepeat
  PROVE  /\ KeyboardInv'
         /\ hidden' # hidden =>
              \E i \in DOMAIN keys : code(i) = EscapeCode /\ keys[i].slot \notin spent \cup {NoSlot}
<1>1. TouchInv' /\ UNCHANGED <<Names, Presses, lost>>
  BY DEF updateRepeat, touchVars, KeyboardInv, TouchInv, TouchTypes, PenFields, EntriesFollow,
    PenFollows, EventsAreFresh, Waiting, UnderWay, IdsDown, SlotsDown, Lifts, Presses, Names
<1>2. PICK due \in SUBSET (DOMAIN keys \ keysOf(NoSlot)) :
        LET escapes == {i \in due : code(i) = EscapeCode}
        IN  IF escapes = {}
            THEN /\ keys' = [i \in DOMAIN keys |->
                      [keys[i] EXCEPT !.held = @ \/ (i \in due /\ code(i) \in Modifiers)]]
                 /\ UNCHANGED <<shown, hidden, spent>>
            ELSE /\ initKeyMap
                 /\ hidden' = ~hidden
                 /\ spent' = spent \cup {keys[i].slot : i \in escapes}
  BY DEF updateRepeat
<1>3. UNCHANGED <<mouse, mouseSlot, active, alive>>
  BY DEF updateRepeat
<1>4. \A i \in DOMAIN keys : KeyFields(keys[i])
  BY DEF KeyboardInv, KeyboardTypes
<1>. DEFINE escapes == {i \in due : code(i) = EscapeCode}
<1>5. CASE escapes = {}
  <2>1. /\ keys' = [i \in DOMAIN keys |->
                      [keys[i] EXCEPT !.held = keys[i].held \/ (i \in due /\ code(i) \in Modifiers)]]
        /\ UNCHANGED <<shown, hidden, spent>>
    BY <1>2, <1>5
  <2>2. ASSUME NEW old, KeyFields(old), NEW held \in BOOLEAN
        PROVE  LET new == [old EXCEPT !.held = held] IN KeyFields(new) /\ new.slot = old.slot
    BY <2>2 DEF KeyFields
  <2>3. ASSUME NEW i \in DOMAIN keys
        PROVE  KeyFields(keys'[i]) /\ keys'[i].slot = keys[i].slot
    <3>. DEFINE held == keys[i].held \/ (i \in due /\ code(i) \in Modifiers)
    <3>1. held \in BOOLEAN
      OBVIOUS
    <3>2. keys'[i] = [keys[i] EXCEPT !.held = held]
      BY <2>1
    <3>. HIDE DEF held
    <3>. QED  BY <1>4, <2>2, <3>1, <3>2
  <2>4. DOMAIN keys' = DOMAIN keys
    BY <2>1
  <2>5. KeyboardTypes'
    BY <1>3, <2>1, <2>3, <2>4 DEF KeyboardInv, KeyboardTypes
  <2>6. SpentPressNothing'
    BY <2>1, <2>3, <2>4 DEF KeyboardInv, SpentPressNothing
  <2>7. ~lost => KeysHold'
    BY <1>1, <2>3, <2>4 DEF KeyboardInv, KeysHold
  <2>. QED  BY <1>1, <2>1, <2>5, <2>6, <2>7 DEF KeyboardInv
<1>6. CASE escapes # {}
  <2>1. /\ shown' = hidden /\ hidden' = ~hidden
        /\ keys' = [i \in DOMAIN Layout[hidden] |->
                      [slot |-> NoSlot, stuck |-> FALSE, held |-> FALSE]]
        /\ spent' = spent \cup {keys[i].slot : i \in escapes}
    BY <1>2, <1>6 DEF initKeyMap
  <2>2. /\ DOMAIN keys' = DOMAIN Layout[hidden]
        /\ \A i \in DOMAIN keys' : KeyFields(keys'[i]) /\ keys'[i].slot = NoSlot
    BY <2>1 DEF KeyFields
  <2>3. ASSUME NEW i \in escapes
        PROVE  /\ i \in DOMAIN keys /\ code(i) = EscapeCode
               /\ keys[i].slot \in SlotNames /\ keys[i].slot \notin spent
    BY <1>2, <1>4, <2>3 DEF keysOf, KeyFields, KeyboardInv, SpentPressNothing
  <2>4. spent' \subseteq SlotNames
    BY <2>1, <2>3 DEF KeyboardInv, KeyboardTypes
  <2>5. KeyboardTypes' /\ SpentPressNothing'
    BY <1>3, <2>1, <2>2, <2>4, NoSlotIsNone DEF KeyboardInv, KeyboardTypes, SpentPressNothing
  <2>6. \A press \in Presses : press.slot # NoSlot
    BY NoSlotIsNone DEF KeyboardInv, TouchInv, TouchTypes, Presses, UnderWay, Waiting, PenFields,
      Event, SlotNames
  <2>7. KeysHold'
    BY <1>1, <2>2, <2>6 DEF KeysHold
  <2>8. \E i \in DOMAIN keys : code(i) = EscapeCode /\ keys[i].slot \notin spent \cup {NoSlot}
    BY <1>6, <2>3, NoSlotIsNone
  <2>. QED  BY <1>1, <2>5, <2>7, <2>8 DEF KeyboardInv
<1>. QED  BY <1>5, <1>6

\* Every step of the keyboard.
LEMMA KeyboardStep ==
  KeyboardInv /\ [KeyboardNext]_<<touchVars, keyboardVars>>
    => KeyboardInv' /\ (hidden' # hidden => updateRepeat)
<1>. SUFFICES ASSUME KeyboardInv, [KeyboardNext]_<<touchVars, keyboardVars>>
              PROVE  KeyboardInv' /\ (hidden' # hidden => updateRepeat)
  OBVIOUS
<1>1. CASE TouchKernel /\ UNCHANGED keyboardVars
  <2>1. TouchInv' /\ KernelKeeps
    BY <1>1, KernelStep DEF KeyboardInv
  <2>2. KeyboardTypes' /\ SpentPressNothing'
    BY <1>1 DEF keyboardVars, KeyboardInv, KeyboardTypes, SpentPressNothing
  <2>3. ASSUME ~lost' PROVE KeysHold'
    <3>1. KeysHold /\ Names \subseteq Names'
      BY <2>1, <2>3 DEF KeyboardInv, KernelKeeps
    <3>2. keys' = keys
      BY <1>1 DEF keyboardVars
    <3>3. ASSUME NEW press \in Presses', NEW i \in DOMAIN keys
          PROVE  keys[i].slot # press.slot
      <4>1. CASE \E old \in Presses : old.slot = press.slot
        BY <3>1, <4>1 DEF KeysHold
      <4>2. CASE press.slot \notin Names
        <5>1. press.slot # NoSlot
          BY <2>1, NoSlotIsNone DEF TouchInv, TouchTypes, Presses, UnderWay, Waiting, PenFields,
            Event, SlotNames
        <5>. QED  BY <3>1, <4>2, <5>1 DEF KeysHold
      <4>. QED  BY <2>1, <2>3, <4>1, <4>2 DEF KernelKeeps
    <3>. QED  BY <3>1, <3>2, <3>3 DEF KeysHold
  <2>. QED  BY <1>1, <2>1, <2>2, <2>3 DEF KeyboardInv, keyboardVars
<1>2. ASSUME NEW ev \in events, handleEvent(ev)
      PROVE  KeyboardInv' /\ hidden' = hidden
  BY <1>2, KeyboardTakes, EventChange
<1>3. CASE UNCHANGED <<touchVars, keyboardVars>>
  <2>1. TouchInv' /\ UNCHANGED <<Names, Presses, lost>>
    BY <1>3 DEF touchVars, KeyboardInv, TouchInv, TouchTypes, PenFields, EntriesFollow,
      PenFollows, EventsAreFresh, Waiting, UnderWay, IdsDown, SlotsDown, Lifts, Presses, Names
  <2>2. KeyboardTypes' /\ SpentPressNothing' /\ (KeysHold => KeysHold')
    BY <1>3, <2>1 DEF keyboardVars, KeyboardInv, KeyboardTypes, SpentPressNothing, KeysHold
  <2>. QED  BY <1>3, <2>1, <2>2 DEF KeyboardInv, keyboardVars
<1>. QED  BY <1>1, <1>2, <1>3, RepeatKeeps DEF KeyboardNext

\* No key is down when the keyboard is made.
LEMMA KeyboardStarts == TouchInit /\ KeyboardInit => KeyboardInv
<1>. SUFFICES ASSUME TouchInit, KeyboardInit PROVE KeyboardInv
  OBVIOUS
<1>1. TouchInv /\ Presses = {}
  BY TouchStarts
<1>2. /\ DOMAIN keys = DOMAIN Layout[FALSE]
      /\ \A i \in DOMAIN keys : KeyFields(keys[i]) /\ keys[i].slot = NoSlot
  BY DEF KeyboardInit, KeyFields
<1>3. KeyboardTypes /\ SpentPressNothing
  BY <1>2 DEF KeyboardInit, KeyboardTypes, SpentPressNothing
<1>4. KeysHold
  BY <1>1, <1>2 DEF KeysHold
<1>. QED  BY <1>1, <1>3, <1>4 DEF KeyboardInv

\* A key is down only under a finger, for any layouts and any number of slots,
\* wherever fingers slide and whether or not the layout changes under them.
THEOREM KeyboardFollowsFingers ==
  KeyboardSpec => [](TouchTypeOK /\ KeyboardTypeOK /\ KeyFollowsFinger)
<1>1. KeyboardInv => TouchTypeOK /\ KeyboardTypeOK /\ KeyFollowsFinger
  <2>. SUFFICES ASSUME KeyboardInv PROVE TouchTypeOK /\ KeyboardTypeOK /\ KeyFollowsFinger
    OBVIOUS
  <2>1. AtRest => Names = SlotsDown
    BY DEF AtRest, Names, Lifts, UnderWay, Waiting
  <2>. QED  BY <2>1, TouchTypesOK, KeyboardTypesOK DEF KeyboardInv, TouchInv, KeyFollowsFinger,
      KeysHold
<1>2. KeyboardInv /\ [KeyboardNext]_<<touchVars, keyboardVars>> => KeyboardInv'
  BY KeyboardStep
<1>. QED  BY <1>1, <1>2, KeyboardStarts, PTL DEF KeyboardSpec

\* However long Escape is held, its touch changes the layout once.
THEOREM KeyboardTogglesOnce == KeyboardSpec => TogglesOncePerPress
<1>. DEFINE Once ==
       hidden' # hidden =>
         \E i \in DOMAIN keys : code(i) = EscapeCode /\ keys[i].slot \notin spent \cup {NoSlot}
<1>1. KeyboardInv /\ [KeyboardNext]_<<touchVars, keyboardVars>>
        => KeyboardInv' /\ [Once]_<<touchVars, keyboardVars>>
  BY KeyboardStep, RepeatKeeps
<1>. QED  BY <1>1, KeyboardStarts, PTL DEF KeyboardSpec, TogglesOncePerPress
=============================================================================
