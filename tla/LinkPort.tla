------------------------------ MODULE LinkPort ------------------------------
(***************************************************************************)
(* The link port of the emulated calculator (apps/tilem/emu/link.c): two   *)
(* wires that either side can pull low, the link assist that sends and     *)
(* receives bytes over them, and the two cables the emulator knows.  A     *)
(* BlackLink joins two calculators, whose frontend carries the state of    *)
(* the wires from one to the other at any later time; a GrayLink is        *)
(* emulated inside the port and exchanges whole bytes with the program     *)
(* that embeds the emulator.                                               *)
(*                                                                         *)
(* Wires are sets: {} is "both lines high", {"red"} is 1, {"white"} is 2.  *)
(* A byte is the sequence of its bits, the lowest first; its length is the *)
(* constant Bits (8 in the code).                                          *)
(***************************************************************************)
EXTENDS Naturals, FiniteSets, Sequences

CONSTANTS Bits,        \* bits in a byte
          Bytes,       \* the bytes written
          Modes,       \* the modes that software sets
          NoTimeout,   \* the assist never times out (TI-83 Plus)
          MaxBytes     \* bound: bytes written since the line was quiet

Wires == {"red", "white"}
Interrupts == {"active", "read", "idle", "error"}

ASSUME LinkAssumption ==
  /\ Bits \in Nat \ {0} /\ MaxBytes \in Nat /\ NoTimeout \in BOOLEAN
  /\ Bytes \subseteq [1..Bits -> {0, 1}]
  /\ Modes \subseteq SUBSET (Interrupts \cup {"assist"})

Cables == {"black", "toGray", "fromGray"}
Ends == {"calc", "peer"}
Other(end) == IF end = "calc" THEN "peer" ELSE "calc"

VARIABLES cable,       \* "black"; "toGray", "fromGray": a GrayLink and the
                       \* direction in which bytes are sent
          port,        \* the link port of each calculator
          written, taken, disturbed   \* history: see ByteLink

linkVars == <<cable, port, written, taken, disturbed>>

BitSequences == UNION {[1..n -> {0, 1}] : n \in 0..Bits}

Port ==
  [lines : SUBSET Wires, extlines : SUBSET Wires,
   mode : SUBSET (Interrupts \cup {"assist"}), interrupts : SUBSET Interrupts,
   busy : {"no", "read", "write"}, gotByte : BOOLEAN,
   errors : SUBSET {"read", "write"}, timer : BOOLEAN,
   assistin : Seq({0, 1}), assistout : BitSequences,
   sending : BOOLEAN, grayout : BitSequences, grayin : BitSequences]

LinkTypeOK ==
  /\ cable \in Cables /\ port \in [Ends -> Port]
  /\ \A end \in Ends : Len(port[end].assistin) <= Bits
  /\ written \in Seq(Bytes) /\ taken \in Seq(BitSequences)
  /\ disturbed \in BOOLEAN

QuietPort ==
  [lines |-> {}, extlines |-> {}, mode |-> {}, interrupts |-> {}, busy |-> "no",
   gotByte |-> FALSE, errors |-> {}, timer |-> FALSE, assistin |-> <<>>,
   assistout |-> <<>>, sending |-> FALSE, grayout |-> <<>>, grayin |-> <<>>]

-----------------------------------------------------------------------------
(* Wires, interrupts and the timer. *)

setLines(p, wires) == [p EXCEPT !.lines = wires]

interrupt(p, type) ==
  [p EXCEPT !.interrupts = IF type \in p.mode THEN @ \cup {type} ELSE @]

setExtLines(p, wires) ==
  LET seen == ((wires \ p.extlines) \cup (p.extlines \ wires)) \ p.lines
      q == IF seen # {} THEN interrupt(p, "active") ELSE p
  IN  [q EXCEPT !.extlines = wires]

WireOf(bit) == IF bit = 1 THEN {"white"} ELSE {"red"}

\* A side that acknowledges pulls the wire the sender left alone.
AckedBit(wires) ==
  CASE wires = {"red"}   -> <<1>>
    [] wires = {"white"} -> <<0>>
    [] OTHER             -> <<>>

setTimeout(p) == [p EXCEPT !.timer = IF NoTimeout THEN @ ELSE TRUE]
clearTimeout(p) == [p EXCEPT !.timer = FALSE]

\* Mutant: the assist gives up and tells nobody.
failedSilently(p, side) == [p EXCEPT !.busy = "no"]

failed(p, side) ==
  [p EXCEPT !.busy = "no", !.errors = @ \cup {side}]

\* Callback of the assist's timer.
assistTimer(p) ==
  IF p.busy = "no" THEN p ELSE interrupt(failed(p, p.busy), "error")

illegalLines(p, side) ==
  interrupt(clearTimeout(setLines(failed(p, side), {})), "error")

-----------------------------------------------------------------------------
(* One update of the assist, and of the emulated GrayLink. *)

assistUpdateWrite(p) ==
  CASE p.extlines = {} /\ p.lines = {} /\ p.assistout # <<>> ->
         setTimeout([p EXCEPT !.lines = WireOf(Head(p.assistout)),
                              !.assistout = Tail(@)])
    [] p.extlines = {} /\ p.lines = {} /\ p.assistout = <<>> ->
         clearTimeout([p EXCEPT !.busy = "no"])
    [] Cardinality(p.extlines) = 1 /\ p.extlines = Wires \ p.lines ->
         clearTimeout(setLines(p, {}))
    [] p.extlines = Wires -> illegalLines(p, "write")
    [] OTHER -> p

bitReceived(p) ==
  LET bits == p.assistin \o AckedBit(p.lines)
      q == [p EXCEPT !.assistin = bits, !.lines = {}]
  IN  IF Len(bits) >= Bits
      THEN clearTimeout([q EXCEPT !.busy = "no", !.gotByte = TRUE])
      ELSE setTimeout(q)

assistUpdateRead(p) ==
  CASE p.extlines = {}    -> bitReceived(p)
    [] p.extlines = Wires -> illegalLines(p, "read")
    [] OTHER -> setTimeout([p EXCEPT !.busy = "read",
                                     !.lines = Wires \ p.extlines])

assistUpdate(p) ==
  CASE p.busy = "write" -> assistUpdateWrite(p)
    [] p.busy # "write" /\ "assist" \in p.mode /\ ~p.gotByte -> assistUpdateRead(p)
    [] OTHER -> p

graylinkUpdateWrite(p) ==
  CASE p.lines = {} /\ p.extlines = {} /\ p.grayout # <<>> ->
         [setExtLines(p, WireOf(Head(p.grayout))) EXCEPT !.grayout = Tail(@)]
    [] p.lines = {} /\ p.extlines = {} /\ p.grayout = <<>> ->
         [p EXCEPT !.sending = FALSE]
    [] Cardinality(p.lines) = 1 /\ p.extlines = Wires \ p.lines -> setExtLines(p, {})
    [] p.lines = Wires ->
         [setExtLines(p, {}) EXCEPT !.sending = FALSE, !.grayout = <<>>]
    [] OTHER -> p

graylinkUpdateRead(p) ==
  CASE p.lines = {} ->
         [setExtLines(p, {}) EXCEPT !.grayin = @ \o AckedBit(p.extlines)]
    [] p.lines = Wires -> [setExtLines(p, {}) EXCEPT !.grayin = <<>>]
    [] OTHER -> setExtLines(p, Wires \ p.lines)

graylinkUpdate(p) ==
  CASE cable # "black" /\ p.sending -> graylinkUpdateWrite(p)
    [] cable # "black" /\ ~p.sending /\ Len(p.grayin) # Bits -> graylinkUpdateRead(p)
    [] OTHER -> p

\* The loop of dbus_update goes round while the assist changes its lines.
settled[p \in Port] ==
  LET before == graylinkUpdate(p)
      after == assistUpdate(before)
  IN  IF after.lines = before.lines THEN after ELSE settled[after]

levels(p) ==
  [p EXCEPT !.interrupts =
     (@ \ {"read", "idle"})
       \cup {i \in {"read", "idle"} \cap p.mode :
               IF i = "read" THEN p.gotByte ELSE p.busy = "no"}]

dbusUpdate(p) == levels(settled[p])

-----------------------------------------------------------------------------
(* The functions of the port. *)

reset(p) ==
  [QuietPort EXCEPT !.extlines = p.extlines, !.interrupts = p.interrupts,
     !.sending = p.sending, !.grayout = p.grayout, !.grayin = p.grayin]

portSetLines(p, wires) ==
  dbusUpdate(IF "assist" \notin p.mode /\ p.busy # "write"
             THEN setLines(p, wires) ELSE p)

\* Mutant: the bits of the byte before stay.
readByteKeeping(p) ==
  dbusUpdate([p EXCEPT !.gotByte = FALSE, !.busy = IF @ = "read" THEN "no" ELSE @])

readByte(p) ==
  dbusUpdate([p EXCEPT !.gotByte = FALSE, !.assistin = <<>>,
                       !.busy = IF @ = "read" THEN "no" ELSE @])

writeByte(p, byte) ==
  IF p.busy # "no" THEN p
  ELSE dbusUpdate([p EXCEPT !.lines = {}, !.assistout = byte, !.busy = "write"])

setMode(p, mode) ==
  LET toggled == ("assist" \in mode) # ("assist" \in p.mode)
      q == IF toggled THEN clearTimeout([p EXCEPT !.lines = {}, !.busy = "no"])
           ELSE p
  IN  dbusUpdate([q EXCEPT !.mode = mode,
                           !.interrupts = @ \ ({"active", "error"} \ mode)])

graylinkReady(p) == ~p.sending /\ p.grayin = <<>>

-----------------------------------------------------------------------------
(* The system: software at each end, the frontend that carries the state   *)
(* of the wires through a BlackLink, the program behind a GrayLink, and    *)
(* the timers.  Bytes go from calc to peer, or as cable says; whatever     *)
(* aborts a byte under way, or sends against that direction, disturbs.     *)

Idle(p) ==
  /\ p.lines = {} /\ p.extlines = {} /\ p.busy = "no" /\ p.errors = {}
  /\ p.assistin = <<>> /\ ~p.gotByte /\ ~p.sending /\ p.grayin = <<>>

Record(disturbing) ==
  disturbed' = (disturbed \/ disturbing \/ \E end \in Ends : port'[end].errors # {})

WriteByte(end, byte) ==
  /\ port[end].busy = "no" /\ Len(written) < MaxBytes
  /\ port' = [port EXCEPT ![end] = writeByte(@, byte)]
  /\ LET clean == ~disturbed /\ end = "calc" /\ cable # "fromGray"
     IN  /\ written' = IF clean THEN Append(written, byte) ELSE written
         /\ Record(~clean)
  /\ UNCHANGED <<cable, taken>>

ReadByte(end) ==
  /\ port' = [port EXCEPT ![end] = readByte(@)]
  /\ taken' = IF port[end].gotByte /\ ~disturbed
              THEN Append(taken, port[end].assistin) ELSE taken
  /\ Record(port[end].busy = "read")
  /\ UNCHANGED <<cable, written>>

SetMode(end, mode) ==
  /\ port' = [port EXCEPT ![end] = setMode(@, mode)]
  /\ Record(port[end].busy # "no" /\ port'[end].busy # port[end].busy)
  /\ UNCHANGED <<cable, written, taken>>

SetLines(end, wires) ==
  /\ port' = [port EXCEPT ![end] = portSetLines(@, wires)]
  /\ Record("assist" \notin port[end].mode /\ (wires # {} \/ port[end].lines # {}))
  /\ UNCHANGED <<cable, written, taken>>

\* The reset of a calculator.  When both ends are at rest again, a new
\* sequence of bytes begins.
ResetPort(end) ==
  /\ port' = [port EXCEPT ![end] = reset(@)]
  /\ IF \A e \in Ends : Idle(port'[e])
     THEN written' = <<>> /\ taken' = <<>> /\ disturbed' = FALSE
     ELSE Record(TRUE) /\ UNCHANGED <<written, taken>>
  /\ UNCHANGED cable

AssistTimeout(end) ==
  /\ port[end].timer
  /\ port' = [port EXCEPT ![end] = [assistTimer(@) EXCEPT !.timer = FALSE]]
  /\ Record(FALSE)
  /\ UNCHANGED <<cable, written, taken>>

blacklinkSetLines(end) ==
  /\ cable = "black"
  /\ port' = [port EXCEPT ![end] = dbusUpdate(setExtLines(@, port[Other(end)].lines))]
  /\ Record(FALSE)
  /\ UNCHANGED <<cable, written, taken>>

graylinkSendByte(byte) ==
  LET p == port["calc"] IN
  /\ cable # "black" /\ graylinkReady(p) /\ Len(written) < MaxBytes
  /\ port' = [port EXCEPT !["calc"] =
                 dbusUpdate([setExtLines(p, {}) EXCEPT !.sending = TRUE, !.grayout = byte])]
  /\ LET clean == ~disturbed /\ cable = "fromGray" /\ p.busy = "no"
     IN  /\ written' = IF clean THEN Append(written, byte) ELSE written
         /\ Record(~clean)
  /\ UNCHANGED <<cable, taken>>

graylinkGetByte ==
  LET p == dbusUpdate(port["calc"])
      full == Len(p.grayin) = Bits
  IN
  /\ cable # "black"
  /\ port' = [port EXCEPT !["calc"] = IF full THEN [p EXCEPT !.grayin = <<>>] ELSE p]
  /\ taken' = IF full /\ ~disturbed THEN Append(taken, p.grayin) ELSE taken
  /\ Record(FALSE)
  /\ UNCHANGED <<cable, written>>

graylinkReset ==
  LET p == port["calc"] IN
  /\ cable # "black"
  /\ port' = [port EXCEPT !["calc"] =
                 dbusUpdate([setExtLines(p, {}) EXCEPT !.sending = FALSE,
                               !.grayout = <<>>, !.grayin = <<>>])]
  /\ Record(~Idle(p))
  /\ UNCHANGED <<cable, written, taken>>

LinkInit ==
  /\ cable \in Cables
  /\ port = [end \in Ends |-> QuietPort]
  /\ written = <<>> /\ taken = <<>> /\ disturbed = FALSE

\* Bound: on a line that was disturbed, software only reads and resets.
Calm == ~disturbed

Ported(end) == end = "calc" \/ cable = "black"

LinkSoftware(end) ==
  /\ Ported(end)
  /\ \/ Calm /\ \E byte \in Bytes : WriteByte(end, byte)
     \/ ReadByte(end)
     \/ Calm /\ \E mode \in Modes : SetMode(end, mode)
     \/ Calm /\ \E wires \in SUBSET Wires : SetLines(end, wires)
     \/ ResetPort(end)

LinkCable ==
  \/ \E end \in Ends : blacklinkSetLines(end)
  \/ Calm /\ \E byte \in Bytes : graylinkSendByte(byte)
  \/ graylinkGetByte
  \/ graylinkReset

LinkNext ==
  \/ \E end \in Ends : LinkSoftware(end) \/ AssistTimeout(end)
  \/ LinkCable

\* The frontend carries every change of the wires, timers expire, software
\* fetches what has arrived, and the program behind a GrayLink asks again.
LinkFairness ==
  /\ \A end \in Ends :
       /\ WF_linkVars(blacklinkSetLines(end))
       /\ WF_linkVars(AssistTimeout(end))
       /\ WF_linkVars(Ported(end) /\ port[end].gotByte /\ ReadByte(end))
  /\ WF_linkVars(graylinkGetByte)

LinkSpec == LinkInit /\ [][LinkNext]_linkVars /\ LinkFairness

-----------------------------------------------------------------------------
Cable == INSTANCE ByteLink

\* The handshake of the two wires, bit by bit and with any delay between the
\* two ends, moves bytes: none is lost, doubled or mixed with another while
\* no error is flagged and nobody breaks in (assist_update_write,
\* assist_update_read and their GrayLink twins).
LinkMovesBytes == Cable!ByteLinkSafe

Receiver == IF cable = "black" THEN "peer" ELSE "calc"

Held ==
  IF cable = "toGray" THEN Len(port["calc"].grayin) = Bits ELSE port[Receiver].gotByte

SenderBusy ==
  IF cable = "fromGray" THEN port["calc"].sending ELSE port["calc"].busy = "write"

\* When the sender is no longer busy and has flagged no error, its byte is in
\* the hands of the receiver: both ends agree on where a byte ends, although
\* each counts the bits on its own.
SentMeansReceived ==
  (~disturbed /\ ~SenderBusy) => Len(written) - Len(taken) = (IF Held THEN 1 ELSE 0)

Listening == "assist" \in port[Receiver].mode \/ cable = "toGray"

\* A byte that is written arrives, or an error is flagged, if the receiver
\* keeps its assist on: neither end waits for the other for ever.
BytesArrive ==
  <>[]Listening => []((written # taken) => <>(written = taken \/ disturbed))
=============================================================================
