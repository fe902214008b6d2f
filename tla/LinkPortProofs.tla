--------------------------- MODULE LinkPortProofs ---------------------------
(***************************************************************************)
(* Proofs about the link port, for bytes of any length, any set of bytes   *)
(* and of modes and any delay of the wires: it implements ByteLink.        *)
(*                                                                         *)
(* The argument has five parts.  One update of the assist, and of the      *)
(* emulated GrayLink, is one of eight cases (AssistDoes, GrayDoes).  The   *)
(* loop of dbus_update goes round these two; its recursive function exists *)
(* (SettledExists) and the loop ends, for each round but the last spends a *)
(* bit or releases a wire (Left), so what holds after every last round and *)
(* is kept by the others holds after the loop (LoopRule).  The inductive   *)
(* invariant says where the bits of a byte under way are, for each cable   *)
(* (Black, ToGray, FromGray); within the loop the two GrayLink cases are   *)
(* wider (ToGrayFinds, FromGrayFinds).  Each operation hands the bus a     *)
(* port that it may find in one of these states, and an update of the bus  *)
(* leads back.  And so each step keeps the invariant and is a step of      *)
(* ByteLink or none (LinkStep).                                            *)
(***************************************************************************)
EXTENDS LinkPort, Integers, FiniteSetTheorems, SequenceTheorems, WellFoundedInduction, TLAPS

-----------------------------------------------------------------------------
(* Wires and bits.                                                        *)

\* The values of a bit.
Bit == {0, 1}
\* The wire that acknowledges a bit.
Ack(bit) == Wires \ WireOf(bit)

\* The wires.
LEMMA FourStates ==
  ASSUME NEW w \in SUBSET Wires
  PROVE  /\ w = {} \/ w = {"red"} \/ w = {"white"} \/ w = Wires
         /\ Cardinality(w) = 1 <=> w = {"red"} \/ w = {"white"}
<1>1. w = {} \/ w = {"red"} \/ w = {"white"} \/ w = Wires
  BY DEF Wires
<1>2. Cardinality({}) = 0 /\ Cardinality({"red"}) = 1 /\ Cardinality({"white"}) = 1
  BY FS_EmptySet, FS_Singleton
<1>3. Cardinality(Wires) = 2
  <2>1. IsFiniteSet({"red"}) /\ "white" \notin {"red"} /\ {"red"} \cup {"white"} = Wires
    BY FS_Singleton DEF Wires
  <2>. QED  BY <1>2, <2>1, FS_AddElement
<1>. QED  BY <1>1, <1>2, <1>3

\* No wire low, and both: neither is a single wire.
LEMMA WiresTwo ==
  /\ Wires # {} /\ Cardinality(Wires) # 1 /\ Cardinality({}) # 1
  /\ \A w \in SUBSET Wires : Wires \ w = {} <=> w = Wires
<1>1. {} \in SUBSET Wires /\ Wires \in SUBSET Wires /\ Wires # {}
      /\ \A w \in {"red", "white"} : {w} # {} /\ {w} # Wires
  BY DEF Wires
<1>. QED  BY <1>1, FourStates

\* Each bit has its wire, and the other one acknowledges it: what is
\* acknowledged is the bit that was sent.
LEMMA WireIs ==
  ASSUME NEW b \in Bit
  PROVE  /\ WireOf(b) \in SUBSET Wires /\ WireOf(b) # {} /\ WireOf(b) # Wires
         /\ Ack(b) \in SUBSET Wires /\ Ack(b) # {} /\ Ack(b) # Wires /\ Ack(b) # WireOf(b)
         /\ Wires \ Ack(b) = WireOf(b) /\ Wires \ WireOf(b) = Ack(b)
         /\ Cardinality(WireOf(b)) = 1 /\ Cardinality(Ack(b)) = 1
         /\ AckedBit(Ack(b)) = <<b>>
         /\ Wires \ WireOf(b) # WireOf(b) /\ Wires \ {} = Wires
<1>1. WireOf(0) = {"red"} /\ WireOf(1) = {"white"} /\ Ack(0) = {"white"} /\ Ack(1) = {"red"}
  BY DEF WireOf, Ack, Wires
<1>2. b = 0 \/ b = 1
  BY DEF Bit
<1>3. AckedBit({"red"}) = <<1>> /\ AckedBit({"white"}) = <<0>>
  BY DEF AckedBit
<1>4. Cardinality({"red"}) = 1 /\ Cardinality({"white"}) = 1
  BY FS_Singleton
<1>5. {"red"} \in SUBSET Wires /\ {"white"} \in SUBSET Wires /\ {"red"} # {"white"} /\ {"red"} # {}
      /\ {"white"} # {} /\ {"red"} # Wires /\ {"white"} # Wires
      /\ Wires \ {"red"} = {"white"} /\ Wires \ {"white"} = {"red"}
  BY DEF Wires
<1>. QED  BY <1>1, <1>2, <1>3, <1>4, <1>5

\* High lines and a collision acknowledge nothing.
LEMMA NoAck == AckedBit({}) = <<>> /\ AckedBit(Wires) = <<>>
BY DEF AckedBit, Wires

\* Sequences of bits.
LEMMA BitsAre ==
  ASSUME NEW s
  PROVE  s \in BitSequences <=> s \in Seq(Bit) /\ Len(s) <= Bits
<1>1. ASSUME s \in BitSequences PROVE s \in Seq(Bit) /\ Len(s) <= Bits
  <2>1. PICK n \in 0..Bits : s \in [1..n -> {0, 1}]
    BY <1>1 DEF BitSequences
  <2>2. Bits \in Nat /\ n \in Nat
    BY LinkAssumption
  <2>. QED  BY <2>1, <2>2 DEF Bit
<1>2. ASSUME s \in Seq(Bit), Len(s) <= Bits PROVE s \in BitSequences
  <2>1. Len(s) \in 0..Bits /\ s \in [1..Len(s) -> {0, 1}]
    BY <1>2, LinkAssumption DEF Bit
  <2>. QED  BY <2>1 DEF BitSequences
<1>. QED  BY <1>1, <1>2

\* No bits are such a sequence.
LEMMA EmptyBits == <<>> \in BitSequences
<1>1. <<>> \in Seq(Bit) /\ Len(<<>>) = 0
  OBVIOUS
<1>2. Len(<<>>) <= Bits
  BY <1>1, LinkAssumption
<1>. QED  BY <1>1, <1>2, BitsAre

\* The next bit, and the bits after it.
LEMMA BitsHead ==
  ASSUME NEW s \in BitSequences, s # <<>>
  PROVE  /\ Head(s) \in Bit /\ Tail(s) \in BitSequences /\ Len(s) \in Nat /\ Len(Tail(s)) \in Nat
         /\ Len(Tail(s)) + 1 = Len(s)
<1>1. s \in Seq(Bit) /\ Len(s) <= Bits
  BY BitsAre
<1>2. Head(s) \in Bit /\ Tail(s) \in Seq(Bit) /\ Len(Tail(s)) = Len(s) - 1 /\ Len(s) \in Nat
  BY <1>1, HeadTailProperties
<1>3. Len(Tail(s)) \in Nat
  BY <1>2, LenProperties
<1>4. ASSUME NEW m \in Nat, NEW n \in Nat, m = n - 1, n <= Bits
      PROVE  m <= Bits /\ m + 1 = n
  BY <1>4, LinkAssumption
<1>5. Len(Tail(s)) <= Bits /\ Len(Tail(s)) + 1 = Len(s)
  BY <1>1, <1>2, <1>3, <1>4
<1>6. Tail(s) \in BitSequences
  BY <1>2, <1>5, BitsAre
<1>. QED  BY <1>2, <1>3, <1>5, <1>6

\* What the wires acknowledge is one bit or none.
LEMMA Acked ==
  ASSUME NEW w \in SUBSET Wires
  PROVE  AckedBit(w) = <<>> \/ \E b \in Bit : AckedBit(w) = <<b>>
BY FourStates DEF AckedBit, Bit, Wires

\* There is room for one more bit in what is not yet a whole byte.
LEMMA BitsMore ==
  ASSUME NEW s \in BitSequences, Len(s) # Bits, NEW w \in SUBSET Wires
  PROVE  s \o AckedBit(w) \in BitSequences
<1>1. s \in Seq(Bit) /\ Len(s) <= Bits
  BY BitsAre
<1>2. CASE AckedBit(w) = <<>>
  <2>1. s \o <<>> = s
    BY <1>1, ConcatEmptySeq
  <2>. QED  BY <1>2, <2>1
<1>3. ASSUME NEW b \in Bit, AckedBit(w) = <<b>> PROVE s \o AckedBit(w) \in BitSequences
  <2>1. <<b>> \in Seq(Bit) /\ Len(<<b>>) = 1
    OBVIOUS
  <2>2. s \o <<b>> \in Seq(Bit) /\ Len(s \o <<b>>) = Len(s) + 1
    BY <1>1, <2>1, ConcatProperties
  <2>3. Len(s) + 1 <= Bits
    BY <1>1, LinkAssumption, LenProperties
  <2>. QED  BY <1>3, <2>2, <2>3, BitsAre
<1>. QED  BY <1>2, <1>3, Acked

\* One more bit, whatever there is.
LEMMA BitsAny ==
  ASSUME NEW s \in Seq({0, 1}), NEW w \in SUBSET Wires
  PROVE  s \o AckedBit(w) \in Seq({0, 1})
<1>1. AckedBit(w) \in Seq({0, 1})
  <2>1. CASE AckedBit(w) = <<>>
    BY <2>1
  <2>2. ASSUME NEW b \in Bit, AckedBit(w) = <<b>> PROVE AckedBit(w) \in Seq({0, 1})
    <3>1. <<b>> \in Seq(Bit)
      OBVIOUS
    <3>. QED  BY <2>2, <3>1 DEF Bit
  <2>. QED  BY <2>1, <2>2, Acked
<1>. QED  BY <1>1, ConcatProperties

-----------------------------------------------------------------------------
\* The rest of the port after an update of the GrayLink, and of the assist.
GrayRest(p, q) ==
  /\ q.lines = p.lines /\ q.mode = p.mode /\ q.busy = p.busy /\ q.gotByte = p.gotByte
  /\ q.errors = p.errors /\ q.timer = p.timer /\ q.assistin = p.assistin
  /\ q.assistout = p.assistout

\* What the assist leaves to the cable.
AssistRest(p, q) ==
  /\ q.extlines = p.extlines /\ q.mode = p.mode /\ q.sending = p.sending
  /\ q.grayout = p.grayout /\ q.grayin = p.grayin

\* Setting the wires from outside changes these and the interrupts only.
LEMMA ExtLines ==
  ASSUME NEW p \in Port, NEW w \in SUBSET Wires
  PROVE  LET q == setExtLines(p, w)
         IN  /\ q \in Port /\ q.extlines = w /\ GrayRest(p, q)
             /\ q.sending = p.sending /\ q.grayout = p.grayout /\ q.grayin = p.grayin
<1>. DEFINE seen == ((w \ p.extlines) \cup (p.extlines \ w)) \ p.lines
            i == IF "active" \in p.mode THEN p.interrupts \cup {"active"} ELSE p.interrupts
            j == IF seen # {} THEN i ELSE p.interrupts
            r == IF seen # {} THEN interrupt(p, "active") ELSE p
<1>1. j \in SUBSET Interrupts
  BY DEF Port, Interrupts
<1>2. setExtLines(p, w) = [r EXCEPT !.extlines = w]
  BY DEF setExtLines
<1>3. r = [p EXCEPT !.interrupts = j]
  BY DEF interrupt, Port
<1>. HIDE DEF j, r
<1>4. r \in Port /\ r.extlines = p.extlines /\ GrayRest(p, r)
      /\ r.sending = p.sending /\ r.grayout = p.grayout /\ r.grayin = p.grayin
  BY <1>1, <1>3 DEF Port, GrayRest
<1>. QED  BY <1>2, <1>4 DEF Port, GrayRest

-----------------------------------------------------------------------------
(* One update of the assist.                                               *)

\* What one update of the assist does, case by case.
Offers(p, q) ==
  /\ p.busy = "write" /\ p.extlines = {} /\ p.lines = {} /\ p.assistout # <<>>
  /\ q.lines = WireOf(Head(p.assistout)) /\ q.assistout = Tail(p.assistout)
  /\ q.busy = "write" /\ q.errors = p.errors
  /\ q.assistin = p.assistin /\ q.gotByte = p.gotByte

\* The last bit was acknowledged, and all lines are high again.
EndsByte(p, q) ==
  /\ p.busy = "write" /\ p.extlines = {} /\ p.lines = {} /\ p.assistout = <<>>
  /\ q.lines = {} /\ q.assistout = <<>>
  /\ q.busy = "no" /\ q.errors = p.errors
  /\ q.assistin = p.assistin /\ q.gotByte = p.gotByte

\* The other side acknowledges a bit.
Releases(p, q) ==
  /\ p.busy = "write" /\ Cardinality(p.extlines) = 1 /\ p.extlines = Wires \ p.lines
  /\ q.lines = {} /\ q.assistout = p.assistout
  /\ q.busy = "write" /\ q.errors = p.errors
  /\ q.assistin = p.assistin /\ q.gotByte = p.gotByte

\* Both wires are pulled low from outside in the middle of a byte.
WriteFails(p, q) ==
  /\ p.busy = "write" /\ p.extlines = Wires
  /\ q.lines = {} /\ q.assistout = p.assistout
  /\ q.busy = "no" /\ q.errors = p.errors \cup {"write"}
  /\ q.assistin = p.assistin /\ q.gotByte = p.gotByte

\* Nothing to do.
Stands(p, q) ==
  /\ \/ /\ p.busy = "write" /\ p.extlines # Wires
        /\ ~(p.extlines = {} /\ p.lines = {})
        /\ ~(Cardinality(p.extlines) = 1 /\ p.extlines = Wires \ p.lines)
     \/ p.busy # "write" /\ ("assist" \notin p.mode \/ p.gotByte)
  /\ q.lines = p.lines /\ q.assistout = p.assistout
  /\ q.busy = p.busy /\ q.errors = p.errors
  /\ q.assistin = p.assistin /\ q.gotByte = p.gotByte

\* The assist listens.
Reads(p) == p.busy # "write" /\ "assist" \in p.mode /\ ~p.gotByte

\* The lines are high: what the assist acknowledged before is through.
Receives(p, q) ==
  /\ Reads(p) /\ p.extlines = {}
  /\ q.lines = {} /\ q.assistout = p.assistout /\ q.errors = p.errors
  /\ q.assistin = p.assistin \o AckedBit(p.lines)
  /\ IF Len(q.assistin) >= Bits THEN q.busy = "no" /\ q.gotByte
                                ELSE q.busy = p.busy /\ ~q.gotByte

\* Both wires are pulled low while the assist listens.
ReadFails(p, q) ==
  /\ Reads(p) /\ p.extlines = Wires
  /\ q.lines = {} /\ q.assistout = p.assistout
  /\ q.busy = "no" /\ q.errors = p.errors \cup {"read"}
  /\ q.assistin = p.assistin /\ q.gotByte = p.gotByte

\* A bit is offered.
Answers(p, q) ==
  /\ Reads(p) /\ p.extlines # {} /\ p.extlines # Wires
  /\ q.lines = Wires \ p.extlines /\ q.assistout = p.assistout
  /\ q.busy = "read" /\ q.errors = p.errors
  /\ q.assistin = p.assistin /\ q.gotByte = p.gotByte

\* One of these.
AssistDoes(p, q) ==
  /\ AssistRest(p, q)
  /\ \/ Offers(p, q) \/ EndsByte(p, q) \/ Releases(p, q) \/ WriteFails(p, q)
     \/ Stands(p, q) \/ Receives(p, q) \/ ReadFails(p, q) \/ Answers(p, q)

\* The timer of the assist is of no account here.
LEMMA TimerOnly ==
  ASSUME NEW p \in Port
  PROVE  /\ setTimeout(p) \in Port /\ clearTimeout(p) \in Port
         /\ AssistRest(p, setTimeout(p)) /\ AssistRest(p, clearTimeout(p))
         /\ \A q \in {setTimeout(p), clearTimeout(p)} :
              /\ q.lines = p.lines /\ q.busy = p.busy /\ q.gotByte = p.gotByte
              /\ q.errors = p.errors /\ q.assistin = p.assistin /\ q.assistout = p.assistout
<1>. DEFINE off == FALSE
            on == IF NoTimeout THEN p.timer ELSE TRUE
<1>1. off \in BOOLEAN /\ on \in BOOLEAN
  BY DEF Port
<1>2. setTimeout(p) = [p EXCEPT !.timer = on] /\ clearTimeout(p) = [p EXCEPT !.timer = off]
  BY DEF setTimeout, clearTimeout
<1>. HIDE DEF off, on
<1>. QED  BY <1>1, <1>2 DEF Port, AssistRest

\* A collision aborts the byte, and is flagged.
LEMMA Illegal ==
  ASSUME NEW p \in Port, NEW side \in {"read", "write"}
  PROVE  LET q == illegalLines(p, side)
         IN  /\ q \in Port /\ AssistRest(p, q)
             /\ q.lines = {} /\ q.busy = "no" /\ q.errors = p.errors \cup {side}
             /\ q.assistin = p.assistin /\ q.assistout = p.assistout /\ q.gotByte = p.gotByte
<1>. DEFINE f == failed(p, side)
            l == setLines(f, {})
            c == clearTimeout(l)
            i == IF "error" \in c.mode THEN c.interrupts \cup {"error"} ELSE c.interrupts
<1>1. f \in Port /\ AssistRest(p, f) /\ f.busy = "no" /\ f.errors = p.errors \cup {side}
      /\ f.assistin = p.assistin /\ f.assistout = p.assistout /\ f.gotByte = p.gotByte
  BY DEF failed, Port, AssistRest
<1>. HIDE DEF f
<1>2. l \in Port /\ AssistRest(f, l) /\ l.lines = {} /\ l.busy = f.busy /\ l.errors = f.errors
      /\ l.assistin = f.assistin /\ l.assistout = f.assistout /\ l.gotByte = f.gotByte
  BY <1>1 DEF setLines, Port, AssistRest
<1>. HIDE DEF l
<1>3. c \in Port /\ AssistRest(l, c) /\ c.lines = {} /\ c.busy = l.busy /\ c.errors = l.errors
      /\ c.assistin = l.assistin /\ c.assistout = l.assistout /\ c.gotByte = l.gotByte
  BY <1>2, TimerOnly
<1>. HIDE DEF c
<1>4. i \in SUBSET Interrupts
  BY <1>3 DEF Port, Interrupts
<1>5. illegalLines(p, side) = [c EXCEPT !.interrupts = i]
  BY DEF illegalLines, interrupt, f, l, c
<1>. HIDE DEF i
<1>6. /\ [c EXCEPT !.interrupts = i] \in Port /\ AssistRest(c, [c EXCEPT !.interrupts = i])
      /\ \A q \in {[c EXCEPT !.interrupts = i]} :
              /\ q.lines = c.lines /\ q.busy = c.busy /\ q.gotByte = c.gotByte
              /\ q.errors = c.errors /\ q.assistin = c.assistin /\ q.assistout = c.assistout
  BY <1>3, <1>4 DEF Port, AssistRest
<1>. QED  BY <1>1, <1>2, <1>3, <1>5, <1>6 DEF AssistRest

\* What bit_received does, field by field.
LEMMA BitReceived ==
  ASSUME NEW p \in Port, Reads(p), p.extlines = {}
  PROVE  bitReceived(p) \in Port /\ AssistRest(p, bitReceived(p)) /\ Receives(p, bitReceived(p))
<1>. DEFINE bits == p.assistin \o AckedBit(p.lines)
            q == [p EXCEPT !.assistin = bits, !.lines = {}]
            yes == TRUE
            r == [q EXCEPT !.busy = "no", !.gotByte = yes]
<1>1. bits \in Seq({0, 1})
  BY BitsAny DEF Port
<1>2. bitReceived(p) = IF Len(bits) >= Bits THEN clearTimeout(r) ELSE setTimeout(q)
  BY DEF bitReceived
<1>3. yes \in BOOLEAN /\ yes
  OBVIOUS
<1>. HIDE DEF bits, yes
<1>4. q \in Port /\ AssistRest(p, q) /\ q.lines = {} /\ q.assistin = bits /\ q.busy = p.busy
      /\ q.gotByte = p.gotByte /\ q.errors = p.errors /\ q.assistout = p.assistout
  BY <1>1 DEF Port, AssistRest
<1>. HIDE DEF q
<1>5. r \in Port /\ AssistRest(q, r) /\ r.lines = q.lines /\ r.assistin = bits /\ r.busy = "no"
      /\ r.gotByte = yes /\ r.errors = q.errors /\ r.assistout = q.assistout
  BY <1>3, <1>4 DEF Port, AssistRest
<1>. HIDE DEF r
<1>6. CASE Len(bits) >= Bits
  <2>1. bitReceived(p) = clearTimeout(r)
    BY <1>2, <1>6
  <2>2. /\ bitReceived(p) \in Port /\ AssistRest(r, bitReceived(p))
        /\ bitReceived(p).lines = r.lines /\ bitReceived(p).busy = r.busy
        /\ bitReceived(p).gotByte = r.gotByte /\ bitReceived(p).errors = r.errors
        /\ bitReceived(p).assistin = r.assistin /\ bitReceived(p).assistout = r.assistout
    BY <1>5, <2>1, TimerOnly
  <2>. QED  BY <1>3, <1>4, <1>5, <1>6, <2>2 DEF AssistRest, Receives, bits
<1>7. CASE ~(Len(bits) >= Bits)
  <2>1. bitReceived(p) = setTimeout(q)
    BY <1>2, <1>7
  <2>2. /\ bitReceived(p) \in Port /\ AssistRest(q, bitReceived(p))
        /\ bitReceived(p).lines = q.lines /\ bitReceived(p).busy = q.busy
        /\ bitReceived(p).gotByte = q.gotByte /\ bitReceived(p).errors = q.errors
        /\ bitReceived(p).assistin = q.assistin /\ bitReceived(p).assistout = q.assistout
    BY <1>4, <2>1, TimerOnly
  <2>. QED  BY <1>4, <1>7, <2>2 DEF AssistRest, Receives, Reads, bits
<1>. QED  BY <1>6, <1>7

\* An update of the assist is one of the cases.
LEMMA AssistUpdate ==
  ASSUME NEW p \in Port
  PROVE  assistUpdate(p) \in Port /\ AssistDoes(p, assistUpdate(p))
<1>. DEFINE u == assistUpdate(p)
<1>0. p.lines \in SUBSET Wires /\ p.extlines \in SUBSET Wires
  BY DEF Port
<1>1. CASE p.busy = "write"
  <2>0. u = assistUpdateWrite(p)
    BY <1>1 DEF assistUpdate
  <2>1. CASE p.extlines = {} /\ p.lines = {} /\ p.assistout # <<>>
    <3>. DEFINE q == [p EXCEPT !.lines = WireOf(Head(p.assistout)), !.assistout = Tail(p.assistout)]
    <3>1. u = setTimeout(q)
      BY <2>0, <2>1, WiresTwo DEF assistUpdateWrite
    <3>2. Head(p.assistout) \in Bit /\ Tail(p.assistout) \in BitSequences
      BY <2>1, BitsHead DEF Port
    <3>3. WireOf(Head(p.assistout)) \in SUBSET Wires
      BY <3>2, WireIs
    <3>4. q \in Port /\ AssistRest(p, q) /\ Offers(p, q)
      BY <1>1, <2>1, <3>2, <3>3 DEF Port, AssistRest, Offers
    <3>. HIDE DEF q
    <3>5. u \in Port /\ AssistRest(p, u) /\ Offers(p, u)
      BY <3>1, <3>4, TimerOnly DEF AssistRest, Offers
    <3>. QED  BY <3>5 DEF AssistDoes
  <2>2. CASE p.extlines = {} /\ p.lines = {} /\ p.assistout = <<>>
    <3>. DEFINE q == [p EXCEPT !.busy = "no"]
    <3>1. u = clearTimeout(q)
      BY <2>0, <2>2, WiresTwo DEF assistUpdateWrite
    <3>2. q \in Port /\ AssistRest(p, q) /\ EndsByte(p, q)
      BY <1>1, <2>2 DEF Port, AssistRest, EndsByte
    <3>. HIDE DEF q
    <3>3. u \in Port /\ AssistRest(p, u) /\ EndsByte(p, u)
      BY <3>1, <3>2, TimerOnly DEF AssistRest, EndsByte
    <3>. QED  BY <3>3 DEF AssistDoes
  <2>3. CASE Cardinality(p.extlines) = 1 /\ p.extlines = Wires \ p.lines
    <3>. DEFINE q == [p EXCEPT !.lines = {}]
    <3>0. p.extlines # {} /\ p.extlines # Wires
      BY <2>3, WiresTwo
    <3>1. u = clearTimeout(q)
      BY <2>0, <2>3, <3>0 DEF assistUpdateWrite, setLines
    <3>2. q \in Port /\ AssistRest(p, q) /\ Releases(p, q)
      BY <1>1, <2>3 DEF Port, AssistRest, Releases
    <3>. HIDE DEF q
    <3>3. u \in Port /\ AssistRest(p, u) /\ Releases(p, u)
      BY <3>1, <3>2, TimerOnly DEF AssistRest, Releases
    <3>. QED  BY <3>3 DEF AssistDoes
  <2>4. CASE p.extlines = Wires
    <3>1. Wires # {} /\ Cardinality(Wires) # 1
      BY WiresTwo
    <3>2. u = illegalLines(p, "write")
      BY <2>0, <2>4, <3>1 DEF assistUpdateWrite
    <3>3. u \in Port /\ AssistRest(p, u) /\ WriteFails(p, u)
      BY <1>1, <2>4, <3>2, Illegal DEF WriteFails
    <3>. QED  BY <3>3 DEF AssistDoes
  <2>5. CASE /\ p.extlines # Wires
             /\ ~(p.extlines = {} /\ p.lines = {})
             /\ ~(Cardinality(p.extlines) = 1 /\ p.extlines = Wires \ p.lines)
    <3>1. u = p
      BY <2>0, <2>5 DEF assistUpdateWrite
    <3>2. Stands(p, u)
      BY <1>1, <2>5, <3>1 DEF Stands
    <3>. QED  BY <3>1, <3>2 DEF AssistDoes, AssistRest
  <2>. QED  BY <2>1, <2>2, <2>3, <2>4, <2>5
<1>2. CASE Reads(p)
  <2>0. u = assistUpdateRead(p)
    BY <1>2 DEF assistUpdate, Reads
  <2>1. CASE p.extlines = {}
    <3>1. u = bitReceived(p)
      BY <2>0, <2>1, WiresTwo DEF assistUpdateRead
    <3>. QED  BY <1>2, <2>1, <3>1, BitReceived DEF AssistDoes
  <2>2. CASE p.extlines = Wires
    <3>1. u = illegalLines(p, "read")
      BY <2>0, <2>2, WiresTwo DEF assistUpdateRead
    <3>2. u \in Port /\ AssistRest(p, u) /\ ReadFails(p, u)
      BY <1>2, <2>2, <3>1, Illegal DEF ReadFails
    <3>. QED  BY <3>2 DEF AssistDoes
  <2>3. CASE p.extlines # {} /\ p.extlines # Wires
    <3>. DEFINE q == [p EXCEPT !.busy = "read", !.lines = Wires \ p.extlines]
    <3>1. u = setTimeout(q)
      BY <2>0, <2>3 DEF assistUpdateRead
    <3>2. q \in Port /\ AssistRest(p, q) /\ Answers(p, q)
      BY <1>2, <2>3 DEF Port, AssistRest, Answers
    <3>. HIDE DEF q
    <3>3. u \in Port /\ AssistRest(p, u) /\ Answers(p, u)
      BY <3>1, <3>2, TimerOnly DEF AssistRest, Answers
    <3>. QED  BY <3>3 DEF AssistDoes
  <2>. QED  BY <2>1, <2>2, <2>3
<1>3. CASE p.busy # "write" /\ ~Reads(p)
  <2>1. u = p
    BY <1>3 DEF assistUpdate, Reads
  <2>2. Stands(p, u)
    BY <1>3, <2>1 DEF Stands, Reads
  <2>. QED  BY <2>1, <2>2 DEF AssistDoes, AssistRest
<1>. QED  BY <1>1, <1>2, <1>3 DEF Reads

-----------------------------------------------------------------------------
(* One update of the emulated GrayLink.                                    *)

\* What one update of the emulated GrayLink does, case by case.
GrayOffers(p, q) ==
  /\ p.sending /\ p.lines = {} /\ p.extlines = {} /\ p.grayout # <<>>
  /\ q.extlines = WireOf(Head(p.grayout)) /\ q.grayout = Tail(p.grayout)
  /\ q.sending /\ q.grayin = p.grayin

\* The last bit was acknowledged, and all lines are high again.
GrayEndsByte(p, q) ==
  /\ p.sending /\ p.lines = {} /\ p.extlines = {} /\ p.grayout = <<>>
  /\ q.extlines = {} /\ q.grayout = <<>> /\ ~q.sending /\ q.grayin = p.grayin

\* The calculator acknowledges a bit.
GrayReleases(p, q) ==
  /\ p.sending /\ Cardinality(p.lines) = 1 /\ p.extlines = Wires \ p.lines
  /\ q.extlines = {} /\ q.grayout = p.grayout /\ q.sending /\ q.grayin = p.grayin

\* The calculator pulls both wires low.
GrayWriteFails(p, q) ==
  /\ p.sending /\ p.lines = Wires
  /\ q.extlines = {} /\ q.grayout = <<>> /\ ~q.sending /\ q.grayin = p.grayin

\* The GrayLink listens while it does not hold a whole byte.
Listens(p) == ~p.sending /\ Len(p.grayin) # Bits

\* The lines are high: what the GrayLink acknowledged before is through.
GrayReceives(p, q) ==
  /\ Listens(p) /\ p.lines = {}
  /\ q.extlines = {} /\ q.grayout = p.grayout /\ ~q.sending
  /\ q.grayin = p.grayin \o AckedBit(p.extlines)

\* Both wires are pulled low while the GrayLink listens.
GrayReadFails(p, q) ==
  /\ Listens(p) /\ p.lines = Wires
  /\ q.extlines = {} /\ q.grayout = p.grayout /\ ~q.sending /\ q.grayin = <<>>

\* A bit is offered.
GrayAnswers(p, q) ==
  /\ Listens(p) /\ p.lines # {} /\ p.lines # Wires
  /\ q.extlines = Wires \ p.lines /\ q.grayout = p.grayout /\ ~q.sending
  /\ q.grayin = p.grayin

\* Nothing to do.
GrayStands(p, q) ==
  /\ \/ ~p.sending /\ Len(p.grayin) = Bits
     \/ /\ p.sending /\ p.lines # Wires
        /\ ~(p.lines = {} /\ p.extlines = {})
        /\ ~(Cardinality(p.lines) = 1 /\ p.extlines = Wires \ p.lines)
  /\ q.extlines = p.extlines /\ q.grayout = p.grayout /\ q.sending = p.sending
  /\ q.grayin = p.grayin

\* One of these.
GrayDoes(p, q) ==
  /\ GrayRest(p, q)
  /\ \/ GrayOffers(p, q) \/ GrayEndsByte(p, q) \/ GrayReleases(p, q) \/ GrayWriteFails(p, q)
     \/ GrayReceives(p, q) \/ GrayReadFails(p, q) \/ GrayAnswers(p, q) \/ GrayStands(p, q)

\* What graylink_update_write does is one of the cases.
LEMMA GrayWrites ==
  ASSUME NEW p \in Port, p.sending
  PROVE  graylinkUpdateWrite(p) \in Port /\ GrayDoes(p, graylinkUpdateWrite(p))
<1>. DEFINE u == graylinkUpdateWrite(p)
<1>1. CASE p.lines = {} /\ p.extlines = {} /\ p.grayout # <<>>
  <2>. DEFINE w == WireOf(Head(p.grayout))
              x == setExtLines(p, w)
              rest == Tail(p.grayout)
  <2>1. u = [x EXCEPT !.grayout = Tail(x.grayout)]
    BY <1>1, WiresTwo DEF graylinkUpdateWrite
  <2>2. Head(p.grayout) \in Bit /\ rest \in BitSequences
    BY <1>1, BitsHead DEF Port
  <2>3. w \in SUBSET Wires
    BY <2>2, WireIs
  <2>. HIDE DEF w
  <2>4. x \in Port /\ x.extlines = w /\ GrayRest(p, x)
        /\ x.sending = p.sending /\ x.grayout = p.grayout /\ x.grayin = p.grayin
    BY <2>3, ExtLines
  <2>5. u = [x EXCEPT !.grayout = rest]
    BY <2>1, <2>4
  <2>. HIDE DEF x, rest
  <2>6. u \in Port /\ u.extlines = w /\ u.grayout = rest /\ u.sending = p.sending
        /\ u.grayin = p.grayin /\ GrayRest(p, u)
    <3>1. u \in Port /\ u.grayout = rest
      BY <2>2, <2>4, <2>5 DEF Port
    <3>2. u.extlines = x.extlines /\ u.sending = x.sending /\ u.grayin = x.grayin /\ GrayRest(x, u)
      BY <2>5 DEF GrayRest
    <3>. QED  BY <2>4, <3>1, <3>2 DEF GrayRest
  <2>7. GrayOffers(p, u)
    BY <1>1, <2>6 DEF GrayOffers, w, rest
  <2>. QED  BY <2>6, <2>7 DEF GrayDoes
<1>2. CASE p.lines = {} /\ p.extlines = {} /\ p.grayout = <<>>
  <2>. DEFINE no == FALSE
  <2>1. u = [p EXCEPT !.sending = no]
    BY <1>2, WiresTwo DEF graylinkUpdateWrite
  <2>2. no \in BOOLEAN /\ ~no
    OBVIOUS
  <2>. HIDE DEF no
  <2>3. u \in Port /\ u.extlines = p.extlines /\ u.grayout = p.grayout /\ u.sending = no
        /\ u.grayin = p.grayin /\ GrayRest(p, u)
    BY <2>1, <2>2 DEF Port, GrayRest
  <2>4. GrayEndsByte(p, u)
    BY <1>2, <2>2, <2>3 DEF GrayEndsByte
  <2>. QED  BY <2>3, <2>4 DEF GrayDoes
<1>3. CASE Cardinality(p.lines) = 1 /\ p.extlines = Wires \ p.lines
  <2>1. p.lines # {} /\ p.lines # Wires
    BY <1>3, WiresTwo
  <2>2. u = setExtLines(p, {})
    BY <1>3, <2>1 DEF graylinkUpdateWrite
  <2>. HIDE DEF u
  <2>3. u \in Port /\ u.extlines = {} /\ GrayRest(p, u)
        /\ u.sending = p.sending /\ u.grayout = p.grayout /\ u.grayin = p.grayin
    BY <2>2, ExtLines
  <2>4. GrayReleases(p, u)
    BY <1>3, <2>3 DEF GrayReleases
  <2>. QED  BY <2>3, <2>4 DEF GrayDoes, u
<1>4. CASE p.lines = Wires
  <2>. DEFINE no == FALSE
              none == <<>>
              x == setExtLines(p, {})
  <2>1. u = [x EXCEPT !.sending = no, !.grayout = none]
    BY <1>4, WiresTwo DEF graylinkUpdateWrite
  <2>2. no \in BOOLEAN /\ ~no /\ none \in BitSequences
    BY EmptyBits
  <2>. HIDE DEF no, none
  <2>3. x \in Port /\ x.extlines = {} /\ GrayRest(p, x) /\ x.grayin = p.grayin
    BY ExtLines
  <2>. HIDE DEF x
  <2>4. u \in Port /\ u.extlines = {} /\ u.grayout = none /\ u.sending = no
        /\ u.grayin = p.grayin /\ GrayRest(p, u)
    <3>1. u \in Port /\ u.grayout = none /\ u.sending = no
      BY <2>1, <2>2, <2>3 DEF Port
    <3>2. u.extlines = x.extlines /\ u.grayin = x.grayin /\ GrayRest(x, u)
      BY <2>1 DEF GrayRest
    <3>. QED  BY <2>3, <3>1, <3>2 DEF GrayRest
  <2>5. GrayWriteFails(p, u)
    BY <1>4, <2>2, <2>4 DEF GrayWriteFails, none
  <2>. QED  BY <2>4, <2>5 DEF GrayDoes
<1>5. CASE /\ p.lines # Wires /\ ~(p.lines = {} /\ p.extlines = {})
           /\ ~(Cardinality(p.lines) = 1 /\ p.extlines = Wires \ p.lines)
  <2>1. u = p
    BY <1>5 DEF graylinkUpdateWrite
  <2>2. GrayStands(p, u)
    BY <1>5, <2>1 DEF GrayStands
  <2>. QED  BY <2>1, <2>2 DEF GrayDoes, GrayRest
<1>. QED  BY <1>1, <1>2, <1>3, <1>4, <1>5

\* What graylink_update_read does is one of the cases.
LEMMA GrayReads ==
  ASSUME NEW p \in Port, Listens(p)
  PROVE  graylinkUpdateRead(p) \in Port /\ GrayDoes(p, graylinkUpdateRead(p))
<1>. DEFINE u == graylinkUpdateRead(p)
            x == setExtLines(p, {})
<1>0. x \in Port /\ x.extlines = {} /\ GrayRest(p, x)
      /\ x.sending = p.sending /\ x.grayout = p.grayout /\ x.grayin = p.grayin
  BY ExtLines
<1>1. CASE p.lines = {}
  <2>. DEFINE bits == p.grayin \o AckedBit(p.extlines)
  <2>1. u = [x EXCEPT !.grayin = x.grayin \o AckedBit(p.extlines)]
    BY <1>1, WiresTwo DEF graylinkUpdateRead
  <2>2. u = [x EXCEPT !.grayin = bits]
    BY <1>0, <2>1
  <2>3. bits \in BitSequences
    BY BitsMore DEF Port, Listens
  <2>. HIDE DEF x, bits
  <2>4. u \in Port /\ u.extlines = {} /\ u.grayout = p.grayout /\ u.sending = p.sending
        /\ u.grayin = bits /\ GrayRest(p, u)
    BY <1>0, <2>2, <2>3 DEF Port, GrayRest
  <2>5. GrayReceives(p, u)
    BY <1>1, <2>4 DEF GrayReceives, Listens, bits
  <2>. QED  BY <2>4, <2>5 DEF GrayDoes
<1>2. CASE p.lines = Wires
  <2>. DEFINE none == <<>>
  <2>1. u = [x EXCEPT !.grayin = none]
    BY <1>2, WiresTwo DEF graylinkUpdateRead
  <2>2. none \in BitSequences
    BY EmptyBits
  <2>. HIDE DEF x, none
  <2>3. u \in Port /\ u.extlines = {} /\ u.grayout = p.grayout /\ u.sending = p.sending
        /\ u.grayin = none /\ GrayRest(p, u)
    BY <1>0, <2>1, <2>2 DEF Port, GrayRest
  <2>4. GrayReadFails(p, u)
    BY <1>2, <2>3 DEF GrayReadFails, Listens, none
  <2>. QED  BY <2>3, <2>4 DEF GrayDoes
<1>3. CASE p.lines # {} /\ p.lines # Wires
  <2>1. u = setExtLines(p, Wires \ p.lines)
    BY <1>3 DEF graylinkUpdateRead
  <2>2. Wires \ p.lines \in SUBSET Wires
    OBVIOUS
  <2>3. u \in Port /\ u.extlines = Wires \ p.lines /\ GrayRest(p, u)
        /\ u.sending = p.sending /\ u.grayout = p.grayout /\ u.grayin = p.grayin
    BY <2>1, <2>2, ExtLines
  <2>4. GrayAnswers(p, u)
    BY <1>3, <2>3 DEF GrayAnswers, Listens
  <2>. QED  BY <2>3, <2>4 DEF GrayDoes
<1>. QED  BY <1>1, <1>2, <1>3

\* An update of the GrayLink is one of the cases, and nothing at a BlackLink.
LEMMA GraylinkUpdate ==
  ASSUME NEW p \in Port
  PROVE  /\ graylinkUpdate(p) \in Port
         /\ cable = "black" => graylinkUpdate(p) = p
         /\ cable # "black" => GrayDoes(p, graylinkUpdate(p))
<1>1. CASE cable # "black" /\ p.sending
  BY <1>1, GrayWrites DEF graylinkUpdate
<1>2. CASE cable # "black" /\ Listens(p)
  BY <1>2, GrayReads DEF graylinkUpdate, Listens
<1>3. CASE cable = "black"
  BY <1>3 DEF graylinkUpdate
<1>4. CASE cable # "black" /\ ~p.sending /\ ~Listens(p)
  <2>1. graylinkUpdate(p) = p
    BY <1>4 DEF graylinkUpdate, Listens
  <2>. QED  BY <1>4, <2>1 DEF GrayDoes, GrayStands, GrayRest, Listens
<1>. QED  BY <1>1, <1>2, <1>3, <1>4

-----------------------------------------------------------------------------
(* The loop of dbus_update: it goes round while the assist changes its      *)
(* lines, and its function exists whether or not that comes to an end.     *)

\* One round of the loop of dbus_update, and whether it is the last.
round(p) == assistUpdate(graylinkUpdate(p))
Last(p) == round(p).lines = graylinkUpdate(p).lines

\* A round leads from a port to a port.
LEMMA RoundInPort == \A p \in Port : round(p) \in Port /\ graylinkUpdate(p) \in Port
BY GraylinkUpdate, AssistUpdate DEF round

\* The states that the loop goes through.
Closed(S) == S \subseteq Port /\ \A p \in S : ~Last(p) => round(p) \in S
Through(p) == {q \in Port : \A S \in SUBSET Port : Closed(S) /\ p \in S => q \in S}

\* The loop goes through the state it begins in and through what follows.
LEMMA ThroughRounds ==
  ASSUME NEW p \in Port
  PROVE  /\ Last(p) => Through(p) = {p}
         /\ ~Last(p) => Through(p) = {p} \cup Through(round(p))
<1>1. p \in Through(p)
  BY DEF Through
<1>2. ASSUME Last(p) PROVE Through(p) = {p}
  <2>1. Closed({p})
    BY <1>2 DEF Closed
  <2>2. \A q \in Through(p) : q = p
    BY <2>1 DEF Through
  <2>. QED  BY <1>1, <2>2
<1>3. ASSUME ~Last(p) PROVE Through(p) = {p} \cup Through(round(p))
  <2>1. round(p) \in Port
    BY RoundInPort
  <2>2. ASSUME NEW q \in Through(round(p)) PROVE q \in Through(p)
    <3>1. ASSUME NEW S \in SUBSET Port, Closed(S), p \in S PROVE q \in S
      <4>1. round(p) \in S
        BY <1>3, <3>1 DEF Closed
      <4>. QED  BY <2>2, <3>1, <4>1 DEF Through
    <3>. QED  BY <2>2, <3>1 DEF Through
  <2>3. ASSUME NEW q \in Through(p) PROVE q = p \/ q \in Through(round(p))
    <3>. DEFINE T == {p} \cup Through(round(p))
    <3>1. T \in SUBSET Port
      BY DEF Through
    <3>2. ASSUME NEW r \in T, ~Last(r) PROVE round(r) \in T
      <4>1. CASE r = p
        BY <2>1, <4>1 DEF Through
      <4>2. CASE r \in Through(round(p))
        <5>1. round(r) \in Port
          BY <3>1, RoundInPort
        <5>2. ASSUME NEW S \in SUBSET Port, Closed(S), round(p) \in S PROVE round(r) \in S
          <6>1. r \in S
            BY <4>2, <5>2 DEF Through
          <6>. QED  BY <3>2, <5>2, <6>1 DEF Closed
        <5>. QED  BY <5>1, <5>2 DEF Through
      <4>. QED  BY <4>1, <4>2
    <3>3. Closed(T) /\ p \in T
      BY <3>1, <3>2 DEF Closed
    <3>. QED  BY <2>3, <3>1, <3>3 DEF Through
  <2>. QED  BY <1>1, <2>2, <2>3
<1>. QED  BY <1>2, <1>3

\* The function settled exists whether or not the loop ends.
SettledIs(f) == f = [p \in Port |-> IF Last(p) THEN round(p) ELSE f[round(p)]]

\* There is one: each state takes the value of a state of its way that is the
\* last, if there is any, and all states of a way agree.
LEMMA SettledExists == \E f : SettledIs(f)
<1>. DEFINE Stop(p) == {round(q) : q \in {r \in Through(p) : Last(r)}}
            f == [p \in Port |-> CHOOSE v : v \in Stop(p)]
<1>1. ASSUME NEW p \in Port PROVE f[p] = IF Last(p) THEN round(p) ELSE f[round(p)]
  <2>1. CASE Last(p)
    <3>1. Stop(p) = {round(p)}
      BY <2>1, ThroughRounds
    <3>. QED  BY <2>1, <3>1
  <2>2. CASE ~Last(p)
    <3>1. Stop(p) = Stop(round(p))
      BY <2>2, ThroughRounds
    <3>2. round(p) \in Port
      BY RoundInPort
    <3>. HIDE DEF Stop
    <3>. QED  BY <2>2, <3>1, <3>2
  <2>. QED  BY <2>1, <2>2
<1>. HIDE DEF Stop
<1>2. f = [p \in Port |-> f[p]]
  OBVIOUS
<1>3. f = [p \in Port |-> IF Last(p) THEN round(p) ELSE f[round(p)]]
  <2>. HIDE DEF f
  <2>. QED  BY <1>1, <1>2
<1>. QED  BY <1>3 DEF SettledIs

\* So the function is what its definition says.
LEMMA Settled == \A p \in Port : settled[p] = IF Last(p) THEN round(p) ELSE settled[round(p)]
<1>1. settled = CHOOSE f : f = [p \in Port |->
                  LET before == graylinkUpdate(p)
                      after == assistUpdate(before)
                  IN  IF after.lines = before.lines THEN after ELSE f[after]]
  BY DEF settled
<1>2. SettledIs(settled)
  BY <1>1, SettledExists DEF SettledIs, Last, round
<1>. QED  BY <1>2 DEF SettledIs

-----------------------------------------------------------------------------
(* The loop ends.                                                          *)

\* The wires and their complements.
LEMMA WireSets ==
  /\ Wires # {}
  /\ \A w \in SUBSET Wires :
       /\ Cardinality(w) = 1 <=> w # {} /\ w # Wires
       /\ Wires \ w = {} <=> w = Wires
       /\ Wires \ w = Wires <=> w = {}
       /\ Wires \ (Wires \ w) = w
       /\ Wires \ w # w
<1>1. Wires # {} /\ \A w \in SUBSET Wires : Cardinality(w) = 1 <=> w # {} /\ w # Wires
  <2>1. {"red"} # {} /\ {"white"} # {} /\ {"red"} # Wires /\ {"white"} # Wires /\ Wires # {}
    BY DEF Wires
  <2>. QED  BY <2>1, FourStates
<1>2. \A w \in SUBSET Wires :
       /\ Wires \ w = {} <=> w = Wires
       /\ Wires \ w = Wires <=> w = {}
       /\ Wires \ (Wires \ w) = w
       /\ Wires \ w # w
  BY DEF Wires
<1>. QED  BY <1>1, <1>2

\* A port in the loop, after a round that was not the last.
LoopOffers(p)  == p.busy = "write" /\ p.lines # {} /\ p.lines # Wires /\ p.extlines = {}
LoopReleases(p) == p.busy = "write" /\ p.lines = {} /\ p.extlines # {} /\ p.extlines # Wires
LoopFails(p)   == p.busy = "no" /\ p.lines = {} /\ p.extlines = Wires
LoopReceives(p) == p.busy # "write" /\ p.lines = {} /\ p.extlines = {}
LoopAnswers(p) == p.busy = "read" /\ p.lines = Wires \ p.extlines /\ p.extlines # {} /\ p.extlines # Wires

\* One of these.
InLoop(p) == LoopOffers(p) \/ LoopReleases(p) \/ LoopFails(p) \/ LoopReceives(p) \/ LoopAnswers(p)

\* What is left to do: bits, and wires to release.
Left(p) == 3 * (Len(p.assistout) + Len(p.grayout)) + (IF p.lines = {} THEN 1 ELSE 2)

\* The type of a port, field by field.
LEMMA Typed ==
  ASSUME NEW p \in Port
  PROVE  /\ p.lines \in SUBSET Wires /\ p.extlines \in SUBSET Wires
         /\ p.busy \in {"no", "read", "write"} /\ p.gotByte \in BOOLEAN /\ p.sending \in BOOLEAN
         /\ p.assistin \in Seq(Bit) /\ p.assistout \in BitSequences
         /\ p.grayout \in BitSequences /\ p.grayin \in BitSequences
         /\ p.mode \in SUBSET (Interrupts \cup {"assist"}) /\ p.interrupts \in SUBSET Interrupts
         /\ p.errors \in SUBSET {"read", "write"} /\ p.timer \in BOOLEAN
BY DEF Port, Bit

\* Every round that is not the last leads into one of these states.
LEMMA IntoLoop ==
  ASSUME NEW p \in Port, ~Last(p)
  PROVE  InLoop(round(p))
<1>. DEFINE b == graylinkUpdate(p)
            q == assistUpdate(b)
<1>1. b \in Port /\ q \in Port /\ AssistDoes(b, q) /\ q.lines # b.lines /\ round(p) = q
  BY GraylinkUpdate, AssistUpdate DEF Last, round
<1>. HIDE DEF b, q
<1>2. b.lines \in SUBSET Wires /\ b.extlines \in SUBSET Wires /\ b.busy \in {"no", "read", "write"}
  BY <1>1, Typed
<1>3. q.extlines = b.extlines
  BY <1>1 DEF AssistDoes, AssistRest
<1>4. CASE Offers(b, q)
  <2>1. Head(b.assistout) \in Bit
    BY <1>1, <1>4, Typed, BitsHead DEF Offers
  <2>2. WireOf(Head(b.assistout)) # {} /\ WireOf(Head(b.assistout)) # Wires
    BY <2>1, WireIs
  <2>. QED  BY <1>1, <1>3, <1>4, <2>2 DEF Offers, InLoop, LoopOffers
<1>5. CASE Releases(b, q)
  BY <1>1, <1>2, <1>3, <1>5, WireSets DEF Releases, InLoop, LoopReleases
<1>6. CASE WriteFails(b, q) \/ ReadFails(b, q)
  BY <1>1, <1>3, <1>6 DEF WriteFails, ReadFails, InLoop, LoopFails
<1>7. CASE Receives(b, q)
  BY <1>1, <1>3, <1>7 DEF Receives, Reads, InLoop, LoopReceives
<1>8. CASE Answers(b, q)
  BY <1>1, <1>3, <1>8 DEF Answers, InLoop, LoopAnswers
<1>9. ~EndsByte(b, q) /\ ~Stands(b, q)
  BY <1>1 DEF EndsByte, Stands
<1>. QED  BY <1>1, <1>4, <1>5, <1>6, <1>7, <1>8, <1>9 DEF AssistDoes

\* A round that is not the last spends a bit, or releases a wire.
LEMMA Spends ==
  ASSUME NEW p \in Port, ~Last(p), InLoop(p)
  PROVE  LET q == round(p)
         IN  \/ q.assistout = p.assistout /\ q.grayout = p.grayout /\ p.lines # {} /\ q.lines = {}
             \/ q.assistout = p.assistout /\ p.grayout # <<>> /\ q.grayout = Tail(p.grayout)
             \/ q.grayout = p.grayout /\ p.assistout # <<>> /\ q.assistout = Tail(p.assistout)
<1>. DEFINE b == graylinkUpdate(p)
            q == assistUpdate(b)
<1>1. b \in Port /\ q \in Port /\ AssistDoes(b, q) /\ q.lines # b.lines /\ round(p) = q
      /\ (b = p \/ GrayDoes(p, b))
  BY GraylinkUpdate, AssistUpdate DEF Last, round
<1>. HIDE DEF b, q
<1>2. /\ b.lines \in SUBSET Wires /\ b.extlines \in SUBSET Wires
      /\ p.lines \in SUBSET Wires /\ p.extlines \in SUBSET Wires
  BY <1>1, Typed
<1>3. q.grayout = b.grayout /\ ~EndsByte(b, q) /\ ~Stands(b, q)
  BY <1>1 DEF AssistDoes, AssistRest, EndsByte, Stands
<1>4. \/ Offers(b, q) \/ Releases(b, q) \/ WriteFails(b, q) \/ Receives(b, q) \/ ReadFails(b, q)
      \/ Answers(b, q)
  BY <1>1, <1>3 DEF AssistDoes
<1>5. b.lines = p.lines /\ b.busy = p.busy /\ b.assistout = p.assistout
  BY <1>1 DEF GrayDoes, GrayRest
<1>6. CASE LoopOffers(p)
  <2>1. b.grayout = p.grayout
    BY <1>1, <1>2, <1>6, WireSets
       DEF LoopOffers, GrayDoes, GrayOffers, GrayEndsByte, GrayReleases, GrayWriteFails, GrayReceives,
           GrayReadFails, GrayAnswers, GrayStands
  <2>2. b.extlines # Wires
    BY <1>1, <1>2, <1>6, WireSets
       DEF LoopOffers, GrayDoes, GrayOffers, GrayEndsByte, GrayReleases, GrayWriteFails, GrayReceives,
           GrayReadFails, GrayAnswers, GrayStands
  <2>3. Releases(b, q)
    BY <1>4, <1>5, <1>6, <2>2
       DEF LoopOffers, Offers, WriteFails, Receives, ReadFails, Answers, Reads
  <2>. QED  BY <1>1, <1>3, <1>5, <1>6, <2>1, <2>3 DEF LoopOffers, Releases
<1>7. CASE LoopReleases(p)
  <2>1. b.grayout = p.grayout
    BY <1>1, <1>2, <1>7, WireSets
       DEF LoopReleases, GrayDoes, GrayOffers, GrayEndsByte, GrayReleases, GrayWriteFails, GrayReceives,
           GrayReadFails, GrayAnswers, GrayStands
  <2>2. b.extlines # Wires
    BY <1>1, <1>2, <1>7, WireSets
       DEF LoopReleases, GrayDoes, GrayOffers, GrayEndsByte, GrayReleases, GrayWriteFails, GrayReceives,
           GrayReadFails, GrayAnswers, GrayStands
  <2>3. Offers(b, q)
    BY <1>1, <1>2, <1>4, <1>5, <1>7, <2>2, WireSets
       DEF LoopReleases, Releases, WriteFails, Receives, ReadFails, Answers, Reads
  <2>. QED  BY <1>1, <1>3, <1>5, <2>1, <2>3 DEF Offers
<1>8. CASE LoopFails(p)
  <2>1. b.extlines = {} \/ b.extlines = Wires
    BY <1>1, <1>2, <1>8, WireSets
       DEF LoopFails, GrayDoes, GrayOffers, GrayEndsByte, GrayReleases, GrayWriteFails, GrayReceives,
           GrayReadFails, GrayAnswers, GrayStands
  <2>. QED  BY <1>1, <1>4, <1>5, <1>8, <2>1
            DEF LoopFails, Offers, Releases, WriteFails, Receives, ReadFails, Answers
<1>9. CASE LoopReceives(p)
  <2>1. b.extlines = {} \/ (p.grayout # <<>> /\ b.grayout = Tail(p.grayout))
    BY <1>1, <1>2, <1>9, WireSets
       DEF LoopReceives, GrayDoes, GrayOffers, GrayEndsByte, GrayReleases, GrayWriteFails, GrayReceives,
           GrayReadFails, GrayAnswers, GrayStands
  <2>2. Answers(b, q)
    BY <1>1, <1>4, <1>5, <1>9
       DEF LoopReceives, Offers, Releases, WriteFails, Receives, ReadFails
  <2>. QED  BY <1>1, <1>3, <1>5, <2>1, <2>2 DEF Answers
<1>10. CASE LoopAnswers(p)
  <2>1. b.grayout = p.grayout
    BY <1>1, <1>2, <1>10, WireSets
       DEF LoopAnswers, GrayDoes, GrayOffers, GrayEndsByte, GrayReleases, GrayWriteFails, GrayReceives,
           GrayReadFails, GrayAnswers, GrayStands
  <2>0. Wires \ p.lines = p.extlines /\ p.lines # {} /\ p.lines # Wires
    BY <1>2, <1>10, WireSets DEF LoopAnswers
  <2>2. b.extlines = {} \/ b.extlines = p.extlines
    BY <1>1, <2>0
       DEF GrayDoes, GrayOffers, GrayEndsByte, GrayReleases, GrayWriteFails, GrayReceives,
           GrayReadFails, GrayAnswers, GrayStands
  <2>3. b.extlines # Wires /\ b.lines # {}
    BY <1>2, <1>5, <1>10, <2>2, WireSets DEF LoopAnswers
  <2>4. Receives(b, q)
    BY <1>1, <1>4, <1>5, <1>10, <2>2, <2>3
       DEF LoopAnswers, Offers, Releases, WriteFails, ReadFails, Answers
  <2>. QED  BY <1>1, <1>2, <1>3, <1>5, <1>10, <2>1, <2>3, <2>4, WireSets DEF LoopAnswers, Receives
<1>. QED  BY <1>6, <1>7, <1>8, <1>9, <1>10 DEF InLoop

\* So every round that is not the last leaves less to do.
LEMMA LeftFalls ==
  ASSUME NEW p \in Port, ~Last(p), InLoop(p)
  PROVE  Left(p) \in Nat /\ Left(round(p)) \in Nat /\ Left(round(p)) < Left(p)
<1>. DEFINE q == round(p)
            a == Len(p.assistout)
            g == Len(p.grayout)
            x == Len(q.assistout)
            y == Len(q.grayout)
            v == IF p.lines = {} THEN 1 ELSE 2
            w == IF q.lines = {} THEN 1 ELSE 2
<1>1. q \in Port
  BY RoundInPort
<1>2. a \in Nat /\ g \in Nat /\ x \in Nat /\ y \in Nat
  <2>1. p.assistout \in Seq(Bit) /\ p.grayout \in Seq(Bit) /\ q.assistout \in Seq(Bit) /\ q.grayout \in Seq(Bit)
    <3>. HIDE DEF q
    <3>. QED  BY <1>1, Typed, BitsAre
  <2>. HIDE DEF q
  <2>. QED  BY <2>1, LenProperties
<1>3. v \in {1, 2} /\ w \in {1, 2} /\ (p.lines # {} => v = 2) /\ (q.lines = {} => w = 1)
  OBVIOUS
<1>4. (x = a /\ y = g /\ v = 2 /\ w = 1) \/ (x = a /\ y + 1 = g) \/ (x + 1 = a /\ y = g)
  <2>1. \/ q.assistout = p.assistout /\ q.grayout = p.grayout /\ p.lines # {} /\ q.lines = {}
        \/ q.assistout = p.assistout /\ p.grayout # <<>> /\ q.grayout = Tail(p.grayout)
        \/ q.grayout = p.grayout /\ p.assistout # <<>> /\ q.assistout = Tail(p.assistout)
    BY Spends
  <2>2. /\ p.grayout # <<>> => Len(Tail(p.grayout)) + 1 = g
        /\ p.assistout # <<>> => Len(Tail(p.assistout)) + 1 = a
    BY Typed, BitsHead
  <2>. HIDE DEF q, v, w
  <2>. QED  BY <1>3, <2>1, <2>2
<1>5. Left(p) = 3 * (a + g) + v /\ Left(q) = 3 * (x + y) + w
  BY DEF Left
<1>. HIDE DEF a, g, x, y, v, w
<1>. QED  BY <1>2, <1>3, <1>4, <1>5

\* A set of numbers that is not empty has a least element.
LEMMA Least ==
  ASSUME NEW S \in SUBSET Nat, S # {}
  PROVE  \E n \in S : \A m \in S : n <= m
<1>. DEFINE R == OpToRel(<, Nat)
<1>1. IsWellFoundedOn(R, Nat)
  BY NatLessThanWellFounded
<1>. HIDE DEF R
<1>2. PICK n \in S : \A m \in S : ~(<<m, n>> \in R)
  BY <1>1, WFMin
<1>3. \A m \in Nat : m < n => <<m, n>> \in R
  BY DEF R, OpToRel
<1>4. ASSUME NEW m \in S PROVE n <= m
  <2>1. m \in Nat /\ n \in Nat /\ ~(<<m, n>> \in R)
    BY <1>2
  <2>2. ~(m < n)
    BY <1>3, <2>1
  <2>. QED  BY <2>1, <2>2
<1>. QED  BY <1>4

\* The rule for the loop: what every round leads to, the loop leads to.
LEMMA LoopRule ==
  ASSUME NEW K \in SUBSET Port, NEW Q,
         \A p \in K : IF Last(p) THEN round(p) \in Q ELSE round(p) \in K
  PROVE  \A p \in K : settled[p] \in Q
<1>1. \A p \in K : settled[p] = IF Last(p) THEN round(p) ELSE settled[round(p)]
  BY Settled
<1>. DEFINE Bad == {p \in K : InLoop(p) /\ settled[p] \notin Q}
            Lefts == {Left(p) : p \in Bad}
<1>2. ASSUME NEW p \in Bad PROVE round(p) \in Bad /\ Left(p) \in Nat /\ Left(round(p)) < Left(p)
  <2>1. p \in Port /\ ~Last(p)
    BY <1>1
  <2>2. InLoop(round(p)) /\ Left(p) \in Nat /\ Left(round(p)) < Left(p)
    BY <2>1, IntoLoop, LeftFalls
  <2>. QED  BY <1>1, <2>1, <2>2
<1>3. Bad = {}
  <2>1. SUFFICES ASSUME Bad # {} PROVE FALSE
    OBVIOUS
  <2>. HIDE DEF Bad
  <2>2. Lefts \in SUBSET Nat /\ Lefts # {}
    BY <1>2, <2>1
  <2>3. PICK n \in Lefts : \A m \in Lefts : n <= m
    <3>. HIDE DEF Lefts
    <3>. QED  BY <2>2, Least
  <2>4. PICK p \in Bad : n = Left(p)
    BY <2>3
  <2>5. Left(round(p)) \in Lefts
    BY <1>2
  <2>6. Left(round(p)) \in Nat /\ Left(p) \in Nat
    BY <1>2
  <2>. QED  BY <1>2, <2>3, <2>4, <2>5, <2>6
<1>4. ASSUME NEW p \in K PROVE settled[p] \in Q
  <2>1. CASE Last(p)
    BY <1>1, <2>1
  <2>2. CASE ~Last(p)
    <3>1. round(p) \in K /\ InLoop(round(p)) /\ settled[p] = settled[round(p)]
      BY <1>1, <2>2, IntoLoop
    <3>. QED  BY <1>3, <3>1
  <2>. QED  BY <2>1, <2>2
<1>. QED  BY <1>4

\* Every update of the bus ends: one of the rounds that the loop goes through
\* is the last, and the update is what that round leaves (dbus_update).
THEOREM LinkBusSettles == \A p \in Port : \E q \in Through(p) : Last(q) /\ settled[p] = round(q)
<1>. SUFFICES ASSUME NEW p \in Port
              PROVE  \E q \in Through(p) : Last(q) /\ settled[p] = round(q)
  OBVIOUS
<1>. DEFINE K == Through(p)
            Q == {round(q) : q \in {x \in K : Last(x)}}
<1>1. p \in K /\ K \in SUBSET Port
  BY DEF Through
<1>2. ASSUME NEW q \in K, ~Last(q) PROVE round(q) \in K
  <2>1. q \in Port /\ round(q) \in Port
    BY RoundInPort DEF Through
  <2>2. ASSUME NEW S \in SUBSET Port, Closed(S), p \in S PROVE round(q) \in S
    <3>1. q \in S
      BY <2>2 DEF Through
    <3>. QED  BY <1>2, <2>2, <3>1 DEF Closed
  <2>. QED  BY <2>1, <2>2 DEF Through
<1>3. \A q \in K : IF Last(q) THEN round(q) \in Q ELSE round(q) \in K
  BY <1>2
<1>. HIDE DEF K, Q
<1>4. settled[p] \in Q
  BY <1>1, <1>3, LoopRule
<1>. QED  BY <1>4 DEF K, Q

-----------------------------------------------------------------------------
(* Bytes under way, bit by bit.                                            *)

\* A byte under way: the bits that are through, then the others.
Cut(byte, done, rest) == byte = done \o rest
CutAt(byte, done, bit, rest) == byte = done \o (<<bit>> \o rest)

\* A byte has Bits bits.
LEMMA ByteIs ==
  ASSUME NEW byte \in Bytes
  PROVE  byte \in Seq(Bit) /\ Len(byte) = Bits /\ byte \in BitSequences /\ byte # <<>>
<1>1. byte \in [1..Bits -> {0, 1}] /\ Bits \in Nat /\ Bits # 0
  BY LinkAssumption
<1>2. byte \in Seq(Bit) /\ Len(byte) = Bits
  BY <1>1 DEF Bit
<1>3. byte # <<>>
  BY <1>1, <1>2
<1>4. Len(byte) <= Bits
  BY <1>1, <1>2
<1>. QED  BY <1>2, <1>3, <1>4, BitsAre

\* A single bit, as a sequence.
LEMMA OneBit ==
  ASSUME NEW bit \in Bit
  PROVE  <<bit>> \in Seq(Bit) /\ Len(<<bit>>) = 1
OBVIOUS

\* At first no bit of a byte is through.
LEMMA CutStarts ==
  ASSUME NEW byte \in Bytes
  PROVE  Cut(byte, <<>>, byte)
BY ByteIs, ConcatEmptySeq DEF Cut

\* The next bit goes on the wires.
LEMMA CutOffers ==
  ASSUME NEW byte, NEW done, NEW rest \in Seq(Bit), rest # <<>>, Cut(byte, done, rest)
  PROVE  Head(rest) \in Bit /\ Tail(rest) \in Seq(Bit) /\ CutAt(byte, done, Head(rest), Tail(rest))
<1>1. Head(rest) \in Bit /\ Tail(rest) \in Seq(Bit) /\ Len(Tail(rest)) = Len(rest) - 1
      /\ \A i \in 1..Len(Tail(rest)) : Tail(rest)[i] = rest[i + 1]
  BY HeadTailProperties
<1>. DEFINE h == Head(rest)
            t == Tail(rest)
            one == <<h>>
            all == one \o t
<1>2. one \in Seq(Bit) /\ Len(one) = 1 /\ one[1] = h
  BY <1>1, OneBit
<1>3. rest[1] = h
  BY DEF Head
<1>4. Len(rest) \in Nat /\ Len(rest) # 0 /\ Len(t) \in Nat
  BY <1>1, EmptySeq, LenProperties
<1>. HIDE DEF h, t, one
<1>5. all \in Seq(Bit) /\ Len(all) = 1 + Len(t)
      /\ \A i \in 1..1 + Len(t) : all[i] = IF i <= 1 THEN one[i] ELSE t[i - 1]
  <2>1. t \in Seq(Bit) /\ one \in Seq(Bit)
    BY <1>1, <1>2 DEF t
  <2>2. /\ one \o t \in Seq(Bit) /\ Len(one \o t) = Len(one) + Len(t)
        /\ \A i \in 1..Len(one) + Len(t) :
             (one \o t)[i] = IF i <= Len(one) THEN one[i] ELSE t[i - Len(one)]
    BY <2>1, ConcatProperties
  <2>. QED  BY <1>2, <2>2
<1>6. Len(all) = Len(rest)
  BY <1>1, <1>4, <1>5 DEF t
<1>7. ASSUME NEW i \in 1..Len(all) PROVE all[i] = rest[i]
  <2>1. CASE i = 1
    BY <1>2, <1>3, <1>5, <2>1
  <2>2. CASE i # 1
    <3>1. i - 1 \in 1..Len(t) /\ ~(i <= 1) /\ i \in 1..1 + Len(t) /\ (i - 1) + 1 = i
      BY <1>4, <1>5, <2>2
    <3>2. all[i] = t[i - 1]
      BY <1>5, <3>1
    <3>3. t[i - 1] = rest[(i - 1) + 1]
      BY <1>1, <3>1 DEF t
    <3>. QED  BY <3>1, <3>2, <3>3
  <2>. QED  BY <2>1, <2>2
<1>. HIDE DEF all
<1>8. all = rest
  BY <1>5, <1>6, <1>7, SeqEqual
<1>9. byte = done \o all
  BY <1>8 DEF Cut
<1>10. Head(rest) \in Bit /\ Tail(rest) \in Seq(Bit)
  BY <1>1
<1>11. CutAt(byte, done, Head(rest), Tail(rest))
  BY <1>9 DEF CutAt, all, one, h, t
<1>. QED  BY <1>10, <1>11

\* A bit that is through joins those before it.
LEMMA CutMoves ==
  ASSUME NEW byte, NEW done \in Seq(Bit), NEW bit \in Bit, NEW rest \in Seq(Bit),
         CutAt(byte, done, bit, rest)
  PROVE  /\ Cut(byte, done \o <<bit>>, rest) /\ done \o <<bit>> \in Seq(Bit)
         /\ Len(done \o <<bit>>) = Len(done) + 1
<1>. DEFINE one == <<bit>>
<1>1. one \in Seq(Bit) /\ Len(one) = 1
  BY OneBit
<1>2. byte = done \o (one \o rest)
  BY DEF CutAt
<1>. HIDE DEF one
<1>3. (done \o one) \o rest = done \o (one \o rest)
  BY <1>1, ConcatAssociative
<1>4. done \o one \in Seq(Bit) /\ Len(done \o one) = Len(done) + 1
  BY <1>1, ConcatProperties
<1>5. Cut(byte, done \o one, rest)
  BY <1>2, <1>3 DEF Cut
<1>. QED  BY <1>4, <1>5 DEF one

\* When as many bits are through as a byte has, they are the byte.
LEMMA CutEnds ==
  ASSUME NEW byte \in Bytes, NEW done \in Seq(Bit), NEW rest \in Seq(Bit), Cut(byte, done, rest)
  PROVE  /\ Len(done) <= Bits
         /\ rest = <<>> <=> Len(done) >= Bits
         /\ rest = <<>> => done = byte
<1>1. Len(byte) = Len(done) + Len(rest)
  BY ConcatProperties DEF Cut
<1>2. Len(byte) = Bits
  BY ByteIs
<1>3. Len(done) \in Nat /\ Len(rest) \in Nat /\ Bits \in Nat /\ (rest # <<>> => Len(rest) # 0)
      /\ (rest = <<>> => Len(rest) = 0)
  BY LenProperties, EmptySeq, LinkAssumption
<1>4. rest = <<>> => done = byte
  BY ConcatEmptySeq DEF Cut
<1>5. Len(rest) = 0 <=> Len(done) >= Bits
  BY <1>1, <1>2, <1>3
<1>6. Len(done) <= Bits
  BY <1>1, <1>2, <1>3
<1>. QED  BY <1>3, <1>4, <1>5, <1>6

\* The bytes that are written and not taken: how many they are, the last that
\* was written and the next to be taken.
Ledger(k, new, old) ==
  /\ k \in 0..2
  /\ k # 0 => new \in Bytes /\ old \in Bytes
  /\ k = 1 => new = old

\* A bit of the last byte is on the wires: the receiver has the bits "in" of it,
\* or holds the byte before it.
InFlight(in, got, bit, out, k, new) ==
  \/ ~got /\ k = 1 /\ CutAt(new, in, bit, out)
  \/ got /\ k = 2 /\ CutAt(new, <<>>, bit, out)

\* No bit is on the wires.
Between(in, got, out, k, new) ==
  \/ ~got /\ k = 1 /\ out # <<>> /\ Cut(new, in, out)
  \/ got /\ k = 2 /\ out # <<>> /\ Cut(new, <<>>, out)
  \/ got /\ k = 1 /\ out = <<>>
  \/ ~got /\ k = 0 /\ out = <<>> /\ in = <<>>

\* What the receiver holds is the next byte to be taken.
Holds(in, got, k, old) == got => k # 0 /\ in = old

\* When the sender offers the next bit, that bit is in flight.
LEMMA BitStarts ==
  ASSUME NEW in, NEW got, NEW out \in Seq(Bit), NEW k, NEW new,
         Between(in, got, out, k, new), out # <<>>
  PROVE  Head(out) \in Bit /\ InFlight(in, got, Head(out), Tail(out), k, new)
BY CutOffers DEF Between, InFlight

\* With one more bit the receiver has the whole byte, or waits for the next bit.
Received(bits, out, k, new, old) ==
  /\ bits \in Seq(Bit) /\ Len(bits) <= Bits
  /\ Len(bits) >= Bits => bits = old /\ k # 0 /\ out = <<>> /\ k = 1
  /\ ~(Len(bits) >= Bits) => out # <<>> /\ k = 1 /\ Cut(new, bits, out)

\* When the receiver takes the bit in flight, it has the byte or waits for the
\* next bit: the counts of both sides agree.
LEMMA BitEnds ==
  ASSUME NEW in \in Seq(Bit), NEW bit \in Bit, NEW out \in Seq(Bit), NEW k, NEW new, NEW old,
         k = 1, CutAt(new, in, bit, out), Ledger(k, new, old)
  PROVE  Received(in \o <<bit>>, out, k, new, old)
<1>. DEFINE bits == in \o <<bit>>
<1>2. new \in Bytes /\ new = old
  BY DEF Ledger
<1>3. bits \in Seq(Bit) /\ Cut(new, bits, out)
  BY CutMoves
<1>. HIDE DEF bits
<1>4. Len(bits) <= Bits /\ (out = <<>> <=> Len(bits) >= Bits) /\ (out = <<>> => bits = new)
  BY <1>2, <1>3, CutEnds
<1>5. Received(bits, out, k, new, old)
  BY <1>2, <1>3, <1>4 DEF Received
<1>. QED  BY <1>5 DEF bits

-----------------------------------------------------------------------------
(* An update of the bus.                                                   *)

\* A port whose assist has no more bits than a byte has.
Sound(p) ==
  /\ p \in Port
  /\ Len(p.assistin) <= Bits
  /\ p.gotByte \/ ~(Len(p.assistin) >= Bits)

\* All but the interrupts and the timer.
Alike(p, q) ==
  /\ q.lines = p.lines /\ q.extlines = p.extlines /\ q.mode = p.mode
  /\ q.busy = p.busy /\ q.gotByte = p.gotByte /\ q.errors = p.errors
  /\ q.assistin = p.assistin /\ q.assistout = p.assistout
  /\ q.sending = p.sending /\ q.grayout = p.grayout /\ q.grayin = p.grayin

\* An assist that sees nothing adds no bit.
LEMMA Idles ==
  ASSUME NEW p, Sound(p), ~p.gotByte
  PROVE  /\ p.assistin \o AckedBit({}) = p.assistin
         /\ ~(Len(p.assistin) >= Bits)
<1>1. p.assistin \in Seq(Bit)
  BY Typed DEF Sound
<1>. QED  BY <1>1, NoAck, ConcatEmptySeq DEF Sound

\* An assist that receives a bit has no more bits than a byte.
LEMMA ReceivesLength ==
  ASSUME NEW p, Sound(p), NEW q, Receives(p, q)
  PROVE  Len(q.assistin) <= Bits
<1>1. p.assistin \in Seq(Bit) /\ Len(p.assistin) \in Nat /\ p.lines \in SUBSET Wires /\ Bits \in Nat
  BY Typed, LenProperties, LinkAssumption DEF Sound
<1>2. ~(Len(p.assistin) >= Bits) /\ q.assistin = p.assistin \o AckedBit(p.lines)
  BY DEF Sound, Receives, Reads
<1>3. CASE AckedBit(p.lines) = <<>>
  BY <1>1, <1>2, <1>3, ConcatEmptySeq
<1>4. ASSUME NEW b \in Bit, AckedBit(p.lines) = <<b>> PROVE Len(q.assistin) <= Bits
  <2>1. <<b>> \in Seq(Bit) /\ Len(<<b>>) = 1
    BY OneBit
  <2>2. Len(p.assistin \o <<b>>) = Len(p.assistin) + 1
    BY <1>1, <2>1, ConcatProperties
  <2>3. Len(q.assistin) = Len(p.assistin) + 1
    BY <1>2, <1>4, <2>2
  <2>. QED  BY <1>1, <1>2, <2>3
<1>. QED  BY <1>1, <1>3, <1>4, Acked

\* A round leaves a sound port sound.
LEMMA RoundSound ==
  ASSUME NEW p, Sound(p)
  PROVE  Sound(round(p))
<1>. DEFINE b == graylinkUpdate(p)
            q == assistUpdate(b)
<1>1. p \in Port
  BY DEF Sound
<1>2. b \in Port /\ q \in Port /\ AssistDoes(b, q) /\ round(p) = q /\ (b = p \/ GrayDoes(p, b))
  BY <1>1, GraylinkUpdate, AssistUpdate DEF round
<1>. HIDE DEF b, q
<1>3. Sound(b)
  BY <1>2 DEF Sound, GrayDoes, GrayRest
<1>4. CASE Receives(b, q)
  <2>1. Len(q.assistin) <= Bits
    BY <1>3, <1>4, ReceivesLength
  <2>. QED  BY <1>2, <1>4, <2>1 DEF Sound, Receives
<1>5. CASE ~Receives(b, q)
  <2>1. q.assistin = b.assistin /\ q.gotByte = b.gotByte
    BY <1>2, <1>5 DEF AssistDoes, Offers, EndsByte, Releases, WriteFails, Stands, ReadFails, Answers
  <2>. QED  BY <1>2, <1>3, <2>1 DEF Sound
<1>. QED  BY <1>4, <1>5

\* The interrupts that follow the state change nothing else.
LEMMA Levels ==
  ASSUME NEW p \in Port
  PROVE  levels(p) \in Port /\ Alike(p, levels(p))
<1>. DEFINE i == (p.interrupts \ {"read", "idle"})
                   \cup {j \in {"read", "idle"} \cap p.mode :
                           IF j = "read" THEN p.gotByte ELSE p.busy = "no"}
<1>1. i \in SUBSET Interrupts
  BY Typed DEF Interrupts
<1>2. levels(p) = [p EXCEPT !.interrupts = i]
  BY DEF levels
<1>. HIDE DEF i
<1>. QED  BY <1>1, <1>2 DEF Port, Alike

\* What every round leads to, an update of the bus leads to.
LEMMA BusRule ==
  ASSUME NEW K \in SUBSET Port, NEW Q, NEW p \in K,
         \A q \in K : IF Last(q) THEN round(q) \in Q ELSE round(q) \in K
  PROVE  \E v \in Q : v \in Port /\ (Sound(p) => Sound(v)) /\ Alike(v, dbusUpdate(p))
                      /\ dbusUpdate(p) \in Port
<1>. DEFINE Good == {q \in K : Sound(p) => Sound(q)}
            Ends2 == {q \in Port : q \in Q /\ (Sound(p) => Sound(q))}
<1>1. ASSUME NEW q \in Good PROVE IF Last(q) THEN round(q) \in Ends2 ELSE round(q) \in Good
  <2>1. round(q) \in Port
    BY <1>1, RoundInPort
  <2>2. Sound(p) => Sound(round(q))
    BY <1>1, RoundSound
  <2>. QED  BY <1>1, <2>1, <2>2
<1>2. p \in Good /\ Good \in SUBSET Port
  OBVIOUS
<1>. HIDE DEF Good, Ends2
<1>3. settled[p] \in Ends2
  BY <1>1, <1>2, LoopRule
<1>4. settled[p] \in Q /\ settled[p] \in Port /\ (Sound(p) => Sound(settled[p]))
  BY <1>3 DEF Ends2
<1>. DEFINE v == settled[p]
<1>5. dbusUpdate(p) = levels(v)
  BY DEF dbusUpdate
<1>. HIDE DEF v
<1>6. v \in Port /\ dbusUpdate(p) \in Port /\ Alike(v, dbusUpdate(p))
  BY <1>4, <1>5, Levels DEF v
<1>. QED  BY <1>4, <1>6 DEF v

\* An update leaves a sound port sound, starts no byte and keeps the mode.
LEMMA BusSound ==
  ASSUME NEW p, Sound(p)
  PROVE  /\ Sound(dbusUpdate(p))
         /\ p.busy # "write" => dbusUpdate(p).busy # "write"
         /\ p.busy = "no" /\ "assist" \notin p.mode => dbusUpdate(p).busy = "no"
<1>. DEFINE K == {q \in Port : /\ p.busy # "write" => q.busy # "write"
                               /\ p.busy = "no" /\ "assist" \notin p.mode
                                    => q.busy = "no" /\ "assist" \notin q.mode}
<1>1. ASSUME NEW q \in K PROVE round(q) \in K
  <2>. DEFINE b == graylinkUpdate(q)
              r == assistUpdate(b)
  <2>1. b \in Port /\ r \in Port /\ AssistDoes(b, r) /\ round(q) = r /\ (b = q \/ GrayDoes(q, b))
    BY GraylinkUpdate, AssistUpdate DEF round
  <2>. HIDE DEF b, r
  <2>2. b.busy = q.busy /\ b.mode = q.mode /\ r.mode = b.mode
    BY <2>1 DEF GrayDoes, GrayRest, AssistDoes, AssistRest
  <2>3. b.busy # "write" => r.busy # "write"
    BY <2>1 DEF AssistDoes, Offers, EndsByte, Releases, WriteFails, Stands, Receives, ReadFails, Answers
  <2>4. b.busy = "no" /\ "assist" \notin b.mode => r.busy = "no"
    BY <2>1 DEF AssistDoes, Offers, EndsByte, Releases, WriteFails, Stands, Receives, ReadFails, Answers,
                Reads
  <2>. QED  BY <2>1, <2>2, <2>3, <2>4
<1>2. p \in K
  BY DEF Sound
<1>3. K \in SUBSET Port
  OBVIOUS
<1>4. \A q \in K : IF Last(q) THEN round(q) \in K ELSE round(q) \in K
  BY <1>1
<1>. DEFINE d == dbusUpdate(p)
<1>. HIDE DEF K
<1>5. PICK v \in K : v \in Port /\ (Sound(p) => Sound(v)) /\ Alike(v, d) /\ d \in Port
  BY <1>2, <1>3, <1>4, BusRule
<1>. HIDE DEF d
<1>6. Sound(d)
  BY <1>5 DEF Sound, Alike
<1>7. /\ p.busy # "write" => d.busy # "write"
      /\ p.busy = "no" /\ "assist" \notin p.mode => d.busy = "no"
  BY <1>5 DEF K, Alike
<1>. QED  BY <1>6, <1>7 DEF d

-----------------------------------------------------------------------------
(* A BlackLink: s sends, r receives.                                       *)

\* What is true of the sender at any time: it receives nothing, and no error is
\* flagged.
SenderRest(s) ==
  /\ Sound(s) /\ s.busy # "read" /\ ~s.gotByte /\ s.assistin = <<>> /\ s.errors = {}

\* What is true of the receiver at any time: it sends nothing, and has bits only
\* while it reads.
ReceiverRest(r, k, old) ==
  /\ Sound(r) /\ r.busy # "write" /\ r.errors = {}
  /\ r.busy = "read" => "assist" \in r.mode /\ ~r.gotByte
  /\ r.assistin # <<>> /\ ~r.gotByte => r.busy = "read"
  /\ Holds(r.assistin, r.gotByte, k, old)

\* The wires at the two ends; each end sees those of the other later.
Free(s, r) ==
  s.lines = {} /\ s.extlines = {} /\ r.lines = {} /\ r.extlines = {}
Offered(s, r, b) ==
  /\ s.lines = WireOf(b) /\ s.extlines = {}
  /\ r.lines = {} /\ r.extlines \in {{}, WireOf(b)}
Acknowledged(s, r, b) ==
  s.lines = WireOf(b) /\ s.extlines = {} /\ r.lines = Ack(b) /\ r.extlines = WireOf(b)
Released(s, r, b) ==
  s.lines = {} /\ s.extlines = Ack(b) /\ r.lines = Ack(b) /\ r.extlines = WireOf(b)
Finished(s, r, b) ==
  s.lines = {} /\ s.extlines = Ack(b) /\ r.lines = {} /\ r.extlines = {}
\* The sender hears of the acknowledgement, the receiver of the release.
Heeded(s, r, b) ==
  s.lines = WireOf(b) /\ s.extlines = Ack(b) /\ r.lines = Ack(b) /\ r.extlines = WireOf(b)
Lowered(s, r, b) ==
  s.lines = {} /\ s.extlines = Ack(b) /\ r.lines = Ack(b) /\ r.extlines = {}

\* A bit of the byte is on the wires, or none is.
Flies(s, r, b, k, new) == InFlight(r.assistin, r.gotByte, b, s.assistout, k, new)
Waits(s, r, k, new) == Between(r.assistin, r.gotByte, s.assistout, k, new)

\* Nothing is under way.
BlackRest(s, r, k) ==
  /\ s.busy = "no" /\ Free(s, r)
  /\ k = IF r.gotByte THEN 1 ELSE 0
  /\ ~r.gotByte => r.assistin = <<>>

\* The sender offers a bit that the receiver may have seen, and has not answered.
AtOffer(s, r, k, new) ==
  s.busy = "write" /\ \E b \in Bit : Offered(s, r, b) /\ Flies(s, r, b, k, new)

\* The receiver has answered, and the sender may have let the wire go.
AtAnswer(s, r, k, new) ==
  /\ s.busy = "write" /\ r.busy = "read"
  /\ \E b \in Bit : (Acknowledged(s, r, b) \/ Released(s, r, b)) /\ Flies(s, r, b, k, new)

\* The receiver has the bit, and the sender has not yet seen its wire go up.
AtFinish(s, r, k, new) ==
  s.busy = "write" /\ Waits(s, r, k, new) /\ \E b \in Bit : Finished(s, r, b)

\* The two ends of a BlackLink while a byte is under way, or none.
Black(s, r, k, new, old) ==
  /\ SenderRest(s) /\ ReceiverRest(r, k, old) /\ Ledger(k, new, old)
  /\ BlackRest(s, r, k) \/ AtOffer(s, r, k, new) \/ AtAnswer(s, r, k, new) \/ AtFinish(s, r, k, new)

\* What an end may find when it looks at its wires.
SenderFinds(s, r, k, new, old) ==
  /\ SenderRest(s) /\ ReceiverRest(r, k, old) /\ Ledger(k, new, old)
  /\ \/ BlackRest(s, r, k) \/ AtOffer(s, r, k, new) \/ AtAnswer(s, r, k, new)
     \/ AtFinish(s, r, k, new)
     \/ s.busy = "write" /\ Free(s, r) /\ Waits(s, r, k, new)
     \/ s.busy = "write" /\ r.busy = "read"
        /\ \E b \in Bit : Heeded(s, r, b) /\ Flies(s, r, b, k, new)

ReceiverFinds(s, r, k, new, old) ==
  /\ SenderRest(s) /\ ReceiverRest(r, k, old) /\ Ledger(k, new, old)
  /\ \/ BlackRest(s, r, k) \/ AtOffer(s, r, k, new) \/ AtAnswer(s, r, k, new)
     \/ AtFinish(s, r, k, new)
     \/ s.busy = "write" /\ r.busy = "read"
        /\ \E b \in Bit : Lowered(s, r, b) /\ Flies(s, r, b, k, new)

\* At a BlackLink a round is an update of the assist.
LEMMA BlackRound ==
  ASSUME NEW p \in Port, cable = "black"
  PROVE  round(p) \in Port /\ AssistDoes(p, round(p))
BY GraylinkUpdate, AssistUpdate DEF round

\* An assist that reads sees nothing while no wire is low.
LEMMA NothingHeard ==
  ASSUME NEW p, NEW q, Sound(p), Receives(p, q), p.lines = {}
  PROVE  q.assistin = p.assistin /\ q.busy = p.busy /\ ~q.gotByte /\ ~p.gotByte
         /\ q.lines = {} /\ q.errors = p.errors /\ q.assistout = p.assistout
<1>1. ~p.gotByte /\ q.assistin = p.assistin \o AckedBit({})
  BY DEF Receives, Reads
<1>2. q.assistin = p.assistin /\ ~(Len(p.assistin) >= Bits)
  BY <1>1, Idles
<1>. QED  BY <1>1, <1>2 DEF Receives

\* A round at the sender leads from what it finds to a state of the cable.
LEMMA SenderRound ==
  ASSUME cable = "black", NEW s, NEW r, NEW k, NEW new, NEW old, SenderFinds(s, r, k, new, old)
  PROVE  Black(round(s), r, k, new, old)
<1>. DEFINE q == round(s)
<1>1. s \in Port /\ Sound(s)
  BY DEF SenderFinds, SenderRest, Sound
<1>2. AssistDoes(s, q) /\ Sound(q)
  BY <1>1, BlackRound, RoundSound
<1>. HIDE DEF q
<1>3. q.extlines = s.extlines
  BY <1>2 DEF AssistDoes, AssistRest
<1>4. SenderRest(s) /\ ReceiverRest(r, k, old) /\ Ledger(k, new, old)
  BY DEF SenderFinds
<1>5. CASE BlackRest(s, r, k)
  <2>1. s.busy = "no" /\ s.lines = {} /\ s.extlines = {}
    BY <1>5 DEF BlackRest, Free
  <2>2. Stands(s, q) \/ Receives(s, q)
    BY <1>2, <2>1, WireSets
       DEF AssistDoes, Offers, EndsByte, Releases, WriteFails, ReadFails, Answers
  <2>3. q.busy = "no" /\ q.lines = {} /\ ~q.gotByte /\ q.assistin = <<>> /\ q.errors = {}
    BY <1>1, <1>4, <2>1, <2>2, NothingHeard DEF Stands, SenderRest
  <2>4. SenderRest(q)
    BY <1>2, <2>3 DEF SenderRest
  <2>5. BlackRest(q, r, k)
    BY <1>3, <1>5, <2>3 DEF BlackRest, Free
  <2>. QED  BY <1>4, <2>4, <2>5 DEF Black, q
<1>6. ASSUME Stands(s, q),
             AtOffer(s, r, k, new) \/ AtAnswer(s, r, k, new) \/ AtFinish(s, r, k, new)
      PROVE  Black(q, r, k, new, old)
  <2>1. q.lines = s.lines /\ q.busy = s.busy /\ q.assistout = s.assistout
        /\ q.gotByte = s.gotByte /\ q.assistin = s.assistin /\ q.errors = s.errors
    BY <1>6 DEF Stands
  <2>2. SenderRest(q)
    BY <1>2, <1>4, <2>1 DEF SenderRest
  <2>3. AtOffer(q, r, k, new) \/ AtAnswer(q, r, k, new) \/ AtFinish(q, r, k, new)
    BY <1>3, <1>6, <2>1
       DEF AtOffer, AtAnswer, AtFinish, Offered, Acknowledged, Released, Finished, Flies, Waits
  <2>. QED  BY <1>4, <2>2, <2>3 DEF Black
<1>7. CASE AtOffer(s, r, k, new) \/ AtAnswer(s, r, k, new) \/ AtFinish(s, r, k, new)
  <2>1. PICK b \in Bit : \/ Offered(s, r, b) \/ Acknowledged(s, r, b)
                         \/ Released(s, r, b) \/ Finished(s, r, b)
    BY <1>7 DEF AtOffer, AtAnswer, AtFinish
  <2>2. s.busy = "write"
    BY <1>7 DEF AtOffer, AtAnswer, AtFinish
  <2>3. \/ s.lines = WireOf(b) /\ s.extlines = {}
        \/ s.lines = {} /\ s.extlines = Ack(b)
    BY <2>1 DEF Offered, Acknowledged, Released, Finished
  <2>4. Stands(s, q)
    BY <1>2, <2>2, <2>3, WireIs, WireSets
       DEF AssistDoes, Offers, EndsByte, Releases, WriteFails, Receives, ReadFails, Answers, Reads
  <2>. QED  BY <1>6, <1>7, <2>4 DEF q
<1>8. CASE s.busy = "write" /\ Free(s, r) /\ Waits(s, r, k, new)
  <2>1. Offers(s, q) \/ EndsByte(s, q)
    BY <1>2, <1>8, WireSets
       DEF Free, AssistDoes, Releases, WriteFails, Stands, Receives, ReadFails, Answers, Reads
  <2>2. CASE Offers(s, q)
    <3>1. s.assistout \in Seq(Bit) /\ s.assistout # <<>>
      BY <1>1, <2>2, Typed, BitsAre DEF Offers
    <3>. DEFINE b == Head(s.assistout)
    <3>2. b \in Bit /\ InFlight(r.assistin, r.gotByte, b, q.assistout, k, new)
      BY <1>8, <2>2, <3>1, BitStarts DEF Waits, Offers
    <3>3. q.lines = WireOf(b) /\ q.busy = "write" /\ SenderRest(q)
      BY <1>2, <1>4, <2>2 DEF Offers, SenderRest
    <3>. HIDE DEF b
    <3>4. AtOffer(q, r, k, new)
      BY <1>3, <1>8, <3>2, <3>3 DEF AtOffer, Offered, Flies, Free
    <3>. QED  BY <1>4, <3>3, <3>4 DEF Black, q
  <2>3. CASE EndsByte(s, q)
    <3>1. q.lines = {} /\ q.busy = "no" /\ SenderRest(q) /\ s.assistout = <<>>
      BY <1>2, <1>4, <2>3 DEF EndsByte, SenderRest
    <3>2. BlackRest(q, r, k)
      BY <1>3, <1>8, <3>1 DEF BlackRest, Free, Waits, Between
    <3>. QED  BY <1>4, <3>1, <3>2 DEF Black, q
  <2>. QED  BY <2>1, <2>2, <2>3
<1>9. CASE s.busy = "write" /\ r.busy = "read"
           /\ \E b \in Bit : Heeded(s, r, b) /\ Flies(s, r, b, k, new)
  <2>1. PICK b \in Bit : Heeded(s, r, b) /\ Flies(s, r, b, k, new)
    BY <1>9
  <2>2. Releases(s, q)
    BY <1>2, <1>9, <2>1, WireIs, WireSets
       DEF Heeded, AssistDoes, Offers, EndsByte, WriteFails, Stands, Receives, ReadFails, Answers, Reads
  <2>3. q.lines = {} /\ q.busy = "write" /\ q.assistout = s.assistout /\ SenderRest(q)
    BY <1>2, <1>4, <2>2 DEF Releases, SenderRest
  <2>4. AtAnswer(q, r, k, new)
    BY <1>3, <1>9, <2>1, <2>3 DEF AtAnswer, Heeded, Released, Flies
  <2>. QED  BY <1>4, <2>3, <2>4 DEF Black, q
<1>. QED  BY <1>5, <1>7, <1>8, <1>9 DEF SenderFinds, q

\* A round at the receiver leads from what it finds to a state of the cable.
LEMMA ReceiverRound ==
  ASSUME cable = "black", NEW s, NEW r, NEW k, NEW new, NEW old, ReceiverFinds(s, r, k, new, old)
  PROVE  Black(s, round(r), k, new, old)
<1>. DEFINE q == round(r)
<1>1. r \in Port /\ Sound(r)
  BY DEF ReceiverFinds, ReceiverRest, Sound
<1>2. AssistDoes(r, q) /\ Sound(q)
  BY <1>1, BlackRound, RoundSound
<1>. HIDE DEF q
<1>3. q.extlines = r.extlines /\ q.mode = r.mode
  BY <1>2 DEF AssistDoes, AssistRest
<1>4. SenderRest(s) /\ ReceiverRest(r, k, old) /\ Ledger(k, new, old)
  BY DEF ReceiverFinds
<1>5. r.busy # "write" /\ r.errors = {}
  BY <1>4 DEF ReceiverRest
<1>6. ASSUME q.lines = r.lines, q.busy = r.busy, q.gotByte = r.gotByte, q.assistin = r.assistin,
             q.errors = r.errors,
             \/ BlackRest(s, r, k) \/ AtOffer(s, r, k, new) \/ AtAnswer(s, r, k, new)
             \/ AtFinish(s, r, k, new)
      PROVE  Black(s, q, k, new, old)
  <2>1. ReceiverRest(q, k, old)
    BY <1>2, <1>3, <1>4, <1>6 DEF ReceiverRest
  <2>2. \/ BlackRest(s, q, k) \/ AtOffer(s, q, k, new) \/ AtAnswer(s, q, k, new)
        \/ AtFinish(s, q, k, new)
    BY <1>3, <1>6
       DEF BlackRest, AtOffer, AtAnswer, AtFinish, Free, Offered, Acknowledged, Released, Finished,
           Flies, Waits
  <2>. QED  BY <1>4, <2>1, <2>2 DEF Black
<1>7. CASE r.lines = {} /\ r.extlines = {}
           /\ (BlackRest(s, r, k) \/ AtOffer(s, r, k, new) \/ AtFinish(s, r, k, new))
  <2>1. Stands(r, q) \/ Receives(r, q)
    BY <1>2, <1>5, <1>7, WireSets
       DEF AssistDoes, Offers, EndsByte, Releases, WriteFails, ReadFails, Answers
  <2>2. q.lines = r.lines /\ q.busy = r.busy /\ q.gotByte = r.gotByte /\ q.assistin = r.assistin
        /\ q.errors = r.errors
    <3>1. CASE Stands(r, q)
      BY <3>1 DEF Stands
    <3>2. CASE Receives(r, q)
      <4>1. q.lines = r.lines /\ q.busy = r.busy /\ ~q.gotByte /\ ~r.gotByte /\ q.assistin = r.assistin
            /\ q.errors = r.errors
        BY <1>1, <1>7, <3>2, NothingHeard
      <4>2. q.gotByte \in BOOLEAN /\ r.gotByte \in BOOLEAN
        BY <1>1, <1>2, Typed DEF Sound
      <4>. QED  BY <4>1, <4>2
    <3>. QED  BY <2>1, <3>1, <3>2
  <2>. QED  BY <1>6, <1>7, <2>2 DEF q
<1>8. ASSUME NEW b \in Bit, s.busy = "write", Flies(s, r, b, k, new),
             \/ Offered(s, r, b) /\ r.extlines = WireOf(b)
             \/ r.busy = "read" /\ (Acknowledged(s, r, b) \/ Released(s, r, b))
      PROVE  Black(s, q, k, new, old)
  <2>1. r.extlines = WireOf(b)
    BY <1>8 DEF Acknowledged, Released
  <2>2. r.extlines # {} /\ r.extlines # Wires /\ Wires \ r.extlines = Ack(b)
    BY <2>1, WireIs
  <2>3. Stands(r, q) \/ Answers(r, q)
    BY <1>2, <1>5, <2>2
       DEF AssistDoes, Offers, EndsByte, Releases, WriteFails, Receives, ReadFails
  <2>4. CASE Stands(r, q)
    <3>1. q.lines = r.lines /\ q.busy = r.busy /\ q.gotByte = r.gotByte /\ q.assistin = r.assistin
          /\ q.errors = r.errors
      BY <2>4 DEF Stands
    <3>2. AtOffer(s, r, k, new) \/ AtAnswer(s, r, k, new)
      BY <1>8 DEF AtOffer, AtAnswer
    <3>. QED  BY <1>6, <3>1, <3>2
  <2>5. CASE Answers(r, q)
    <3>1. q.lines = Ack(b) /\ q.busy = "read" /\ q.gotByte = r.gotByte /\ q.assistin = r.assistin
          /\ q.errors = r.errors /\ "assist" \in r.mode /\ ~r.gotByte
      BY <2>2, <2>5 DEF Answers, Reads
    <3>2. ReceiverRest(q, k, old)
      BY <1>2, <1>3, <1>4, <3>1 DEF ReceiverRest
    <3>3. Acknowledged(s, q, b) \/ Released(s, q, b)
      BY <1>3, <1>8, <2>1, <3>1 DEF Offered, Acknowledged, Released
    <3>4. AtAnswer(s, q, k, new)
      BY <1>8, <3>1, <3>3 DEF AtAnswer, Flies
    <3>. QED  BY <1>4, <3>2, <3>4 DEF Black
  <2>. QED  BY <2>3, <2>4, <2>5
<1>9. ASSUME NEW b \in Bit, s.busy = "write", r.busy = "read", Lowered(s, r, b), Flies(s, r, b, k, new)
      PROVE  Black(s, q, k, new, old)
  <2>1. "assist" \in r.mode /\ ~r.gotByte /\ r.extlines = {} /\ r.lines = Ack(b)
    BY <1>4, <1>9 DEF ReceiverRest, Lowered
  <2>2. Receives(r, q)
    BY <1>2, <1>5, <2>1, WireSets
       DEF AssistDoes, Offers, EndsByte, Releases, WriteFails, Stands, ReadFails, Answers
  <2>. DEFINE bits == r.assistin \o <<b>>
  <2>3. q.assistin = bits /\ q.lines = {} /\ q.errors = {}
    BY <1>5, <2>1, <2>2, WireIs DEF Receives
  <2>4. r.assistin \in Seq(Bit) /\ s.assistout \in Seq(Bit)
    BY <1>1, <1>4, Typed, BitsAre DEF SenderRest, Sound
  <2>5. k = 1 /\ CutAt(new, r.assistin, b, s.assistout)
    BY <1>9, <2>1 DEF Flies, InFlight
  <2>6. Received(bits, s.assistout, k, new, old)
    BY <1>4, <2>4, <2>5, BitEnds
  <2>. HIDE DEF bits
  <2>7. Finished(s, q, b)
    BY <1>3, <1>9, <2>1, <2>3 DEF Lowered, Finished
  <2>8. CASE Len(bits) >= Bits
    <3>1. q.busy = "no" /\ q.gotByte
      BY <2>2, <2>3, <2>8 DEF Receives
    <3>2. ReceiverRest(q, k, old)
      BY <1>2, <2>3, <2>6, <2>8, <3>1 DEF ReceiverRest, Holds, Received
    <3>3. Waits(s, q, k, new)
      BY <2>3, <2>6, <2>8, <3>1 DEF Waits, Between, Received
    <3>. QED  BY <1>4, <1>9, <2>7, <3>2, <3>3 DEF Black, AtFinish
  <2>9. CASE ~(Len(bits) >= Bits)
    <3>1. q.busy = "read" /\ ~q.gotByte
      BY <1>9, <2>2, <2>3, <2>9 DEF Receives
    <3>2. ReceiverRest(q, k, old)
      BY <1>2, <1>3, <2>1, <2>3, <3>1 DEF ReceiverRest, Holds
    <3>3. Waits(s, q, k, new)
      BY <2>3, <2>6, <2>9, <3>1 DEF Waits, Between, Received
    <3>. QED  BY <1>4, <1>9, <2>7, <3>2, <3>3 DEF Black, AtFinish
  <2>. QED  BY <2>8, <2>9
<1>10. CASE BlackRest(s, r, k) \/ AtFinish(s, r, k, new)
  <2>1. r.lines = {} /\ r.extlines = {}
    BY <1>10 DEF BlackRest, AtFinish, Free, Finished
  <2>. QED  BY <1>7, <1>10, <2>1
<1>11. CASE AtOffer(s, r, k, new)
  <2>1. PICK b \in Bit : Offered(s, r, b) /\ Flies(s, r, b, k, new) /\ s.busy = "write"
    BY <1>11 DEF AtOffer
  <2>2. r.lines = {} /\ (r.extlines = {} \/ r.extlines = WireOf(b))
    BY <2>1 DEF Offered
  <2>3. CASE r.extlines = {}
    BY <1>7, <1>11, <2>2, <2>3
  <2>4. CASE r.extlines = WireOf(b)
    BY <1>8, <2>1, <2>4 DEF q
  <2>. QED  BY <2>2, <2>3, <2>4
<1>12. CASE AtAnswer(s, r, k, new)
  BY <1>8, <1>12 DEF AtAnswer, q
<1>13. CASE s.busy = "write" /\ r.busy = "read"
            /\ \E b \in Bit : Lowered(s, r, b) /\ Flies(s, r, b, k, new)
  BY <1>9, <1>13 DEF q
<1>. QED  BY <1>10, <1>11, <1>12, <1>13 DEF ReceiverFinds

-----------------------------------------------------------------------------
(* A GrayLink that receives.                                               *)

\* The GrayLink holds a whole byte.
Whole(p) == Len(p.grayin) = Bits

\* What is true at any time: the calculator receives nothing, the GrayLink sends
\* nothing, and no error is flagged.
ToRest(p, k, old) ==
  /\ Sound(p) /\ p.busy # "read" /\ ~p.gotByte /\ p.assistin = <<>> /\ p.errors = {}
  /\ ~p.sending /\ Holds(p.grayin, Whole(p), k, old)

\* Nothing is under way.
ToIdle(p, k) ==
  /\ p.busy = "no" /\ p.lines = {} /\ p.extlines = {}
  /\ k = IF Whole(p) THEN 1 ELSE 0
  /\ ~Whole(p) => p.grayin = <<>>

\* The lines are high between two bits.
ToFree(p, k, new) ==
  /\ p.busy = "write" /\ p.lines = {} /\ p.extlines = {}
  /\ Between(p.grayin, Whole(p), p.assistout, k, new)

\* The assist offers a bit.
ToOffer(p, k, new) ==
  /\ p.busy = "write" /\ p.extlines = {}
  /\ \E b \in Bit : p.lines = WireOf(b) /\ InFlight(p.grayin, Whole(p), b, p.assistout, k, new)

\* The GrayLink has acknowledged a bit, and the assist has let the wire go.
ToReleased(p, k, new) ==
  /\ p.busy = "write" /\ p.lines = {} /\ ~Whole(p)
  /\ \E b \in Bit : p.extlines = Ack(b) /\ InFlight(p.grayin, Whole(p), b, p.assistout, k, new)

\* A calculator that sends to a GrayLink.  Between two operations a byte rests
\* only before its first bit, until the byte before it is taken.
ToGray(p, k, new, old) ==
  /\ ToRest(p, k, old) /\ Ledger(k, new, old)
  /\ ToIdle(p, k) \/ (ToOffer(p, k, new) /\ (Whole(p) \/ p.grayin = <<>>))

\* The same within the loop of dbus_update.
ToGrayFinds(p, k, new, old) ==
  /\ ToRest(p, k, old) /\ Ledger(k, new, old)
  /\ ToIdle(p, k) \/ ToFree(p, k, new) \/ ToOffer(p, k, new) \/ ToReleased(p, k, new)

\* At a GrayLink a round is an update of the GrayLink, then one of the assist.
LEMMA GrayRound ==
  ASSUME NEW p \in Port, cable # "black"
  PROVE  \E b \in Port : /\ GrayDoes(p, b) /\ AssistDoes(b, round(p)) /\ round(p) \in Port
                         /\ Last(p) <=> round(p).lines = b.lines
BY GraylinkUpdate, AssistUpdate DEF round, Last

\* The GrayLink lets the lines go while it sees nothing.
LEMMA NothingSent ==
  ASSUME NEW p \in Port, NEW b, GrayDoes(p, b), ~p.sending, p.lines = {}, p.extlines = {}
  PROVE  b.extlines = {} /\ b.grayin = p.grayin /\ ~b.sending /\ b.grayout = p.grayout
<1>1. GrayStands(p, b) \/ GrayReceives(p, b)
  BY WireSets
     DEF GrayDoes, GrayOffers, GrayEndsByte, GrayReleases, GrayWriteFails, GrayReadFails, GrayAnswers
<1>2. p.grayin \o AckedBit({}) = p.grayin
  <2>1. p.grayin \in Seq(Bit)
    BY Typed, BitsAre
  <2>. QED  BY <2>1, NoAck, ConcatEmptySeq
<1>. QED  BY <1>1, <1>2 DEF GrayStands, GrayReceives

\* The assist offers the next bit, or the byte is through.
LEMMA ToGrayNext ==
  ASSUME NEW b, NEW q, NEW k, NEW new, NEW old,
         ToRest(b, k, old), Ledger(k, new, old), ToFree(b, k, new), AssistDoes(b, q), Sound(q)
  PROVE  IF q.lines = b.lines THEN ToGray(q, k, new, old) ELSE ToGrayFinds(q, k, new, old)
<1>1. q.extlines = {} /\ q.grayin = b.grayin /\ q.sending = b.sending
  BY DEF AssistDoes, AssistRest, ToFree
<1>2. Whole(q) <=> Whole(b)
  BY <1>1 DEF Whole
<1>3. Offers(b, q) \/ EndsByte(b, q)
  BY WireSets
     DEF ToFree, AssistDoes, Releases, WriteFails, Stands, Receives, ReadFails, Answers, Reads
<1>4. CASE Offers(b, q)
  <2>1. b.assistout \in Seq(Bit) /\ b.assistout # <<>>
    BY <1>4, Typed, BitsAre DEF Offers, ToRest, Sound
  <2>. DEFINE bit == Head(b.assistout)
  <2>2. Between(b.grayin, Whole(b), b.assistout, k, new)
    BY DEF ToFree
  <2>3. bit \in Bit /\ InFlight(b.grayin, Whole(b), bit, q.assistout, k, new)
    BY <1>4, <2>1, <2>2, BitStarts DEF Offers
  <2>4. q.lines = WireOf(bit) /\ q.busy = "write"
    BY <1>4 DEF Offers
  <2>. HIDE DEF bit
  <2>5. q.lines # b.lines
    BY <2>3, <2>4, WireIs DEF ToFree
  <2>6. ToRest(q, k, old)
    BY <1>1, <1>2, <1>4 DEF ToRest, Holds, Offers
  <2>7. ToOffer(q, k, new)
    BY <1>1, <1>2, <2>3, <2>4 DEF ToOffer, InFlight
  <2>. QED  BY <2>5, <2>6, <2>7 DEF ToGrayFinds
<1>5. CASE EndsByte(b, q)
  <2>1. ToRest(q, k, old)
    BY <1>1, <1>2, <1>5 DEF ToRest, Holds, EndsByte
  <2>2. ToIdle(q, k)
    BY <1>1, <1>2, <1>5 DEF ToIdle, EndsByte, ToFree, Between
  <2>3. q.lines = b.lines
    BY <1>5 DEF EndsByte
  <2>4. ToGray(q, k, new, old)
    BY <2>1, <2>2 DEF ToGray
  <2>. QED  BY <2>3, <2>4
<1>. QED  BY <1>3, <1>4, <1>5

\* A round leads from what it finds to a state of the cable if it is the last,
\* and to what the next round may find if not.
LEMMA ToGrayRound ==
  ASSUME cable # "black", NEW p, NEW k, NEW new, NEW old, ToGrayFinds(p, k, new, old)
  PROVE  IF Last(p) THEN ToGray(round(p), k, new, old) ELSE ToGrayFinds(round(p), k, new, old)
<1>. DEFINE q == round(p)
<1>1. p \in Port /\ Sound(p) /\ ToRest(p, k, old) /\ Ledger(k, new, old)
  BY DEF ToGrayFinds, ToRest, Sound
<1>2. PICK b \in Port : GrayDoes(p, b) /\ AssistDoes(b, q) /\ q \in Port /\ (Last(p) <=> q.lines = b.lines)
  BY <1>1, GrayRound
<1>3. Sound(q)
  BY <1>1, RoundSound
<1>. HIDE DEF q
<1>4. b.lines = p.lines /\ b.mode = p.mode /\ b.busy = p.busy /\ b.gotByte = p.gotByte
      /\ b.errors = p.errors /\ b.assistin = p.assistin /\ b.assistout = p.assistout
  BY <1>2 DEF GrayDoes, GrayRest
<1>5. Sound(b)
  BY <1>1, <1>2, <1>4 DEF Sound
<1>6. ~p.sending
  BY <1>1 DEF ToRest
<1>7. CASE ToIdle(p, k)
  <2>1. b.extlines = {} /\ b.grayin = p.grayin /\ ~b.sending
    BY <1>1, <1>2, <1>6, <1>7, NothingSent DEF ToIdle
  <2>2. b.busy = "no" /\ b.lines = {}
    BY <1>4, <1>7 DEF ToIdle
  <2>3. Stands(b, q) \/ Receives(b, q)
    BY <1>2, <2>1, <2>2, WireSets
       DEF AssistDoes, Offers, EndsByte, Releases, WriteFails, ReadFails, Answers
  <2>4. q.busy = "no" /\ q.lines = {} /\ ~q.gotByte /\ q.assistin = <<>> /\ q.errors = {}
    BY <1>1, <1>4, <1>5, <2>2, <2>3, NothingHeard DEF Stands, ToRest
  <2>5. q.extlines = {} /\ q.grayin = p.grayin /\ ~q.sending
    BY <1>2, <2>1 DEF AssistDoes, AssistRest
  <2>6. ToRest(q, k, old)
    BY <1>1, <1>3, <2>4, <2>5 DEF ToRest, Holds, Whole
  <2>7. ToIdle(q, k)
    BY <1>7, <2>4, <2>5 DEF ToIdle, Whole
  <2>8. Last(p)
    BY <1>2, <2>2, <2>4
  <2>9. ToGray(q, k, new, old)
    BY <1>1, <2>6, <2>7 DEF ToGray
  <2>. QED  BY <2>8, <2>9 DEF q
<1>8. CASE ToFree(p, k, new)
  <2>1. b.extlines = {} /\ b.grayin = p.grayin /\ ~b.sending
    BY <1>1, <1>2, <1>6, <1>8, NothingSent DEF ToFree
  <2>2. ToRest(b, k, old)
    BY <1>1, <1>4, <1>5, <2>1 DEF ToRest, Holds, Whole
  <2>3. ToFree(b, k, new)
    BY <1>4, <1>8, <2>1 DEF ToFree, Whole
  <2>. QED  BY <1>1, <1>2, <1>3, <2>2, <2>3, ToGrayNext DEF q
<1>9. CASE ToOffer(p, k, new)
  <2>1. PICK bit \in Bit : p.lines = WireOf(bit) /\ InFlight(p.grayin, Whole(p), bit, p.assistout, k, new)
    BY <1>9 DEF ToOffer
  <2>2. p.busy = "write" /\ p.extlines = {} /\ p.lines # {} /\ p.lines # Wires /\ Wires \ p.lines = Ack(bit)
    BY <1>9, <2>1, WireIs DEF ToOffer
  <2>3. CASE Whole(p)
    <3>1. GrayStands(p, b)
      BY <1>2, <1>6, <2>3
         DEF GrayDoes, GrayOffers, GrayEndsByte, GrayReleases, GrayWriteFails, GrayReceives,
             GrayReadFails, GrayAnswers, Listens, Whole
    <3>2. Stands(b, q)
      BY <1>2, <1>4, <2>2, <3>1, WireSets
         DEF GrayStands, AssistDoes, Offers, EndsByte, Releases, WriteFails, Receives, ReadFails, Answers,
             Reads
    <3>3. q.extlines = {} /\ q.grayin = p.grayin /\ ~q.sending
      BY <1>2, <1>6, <2>2, <3>1 DEF AssistDoes, AssistRest, GrayStands
    <3>4. q.lines = p.lines /\ q.busy = "write" /\ q.assistout = p.assistout /\ ~q.gotByte
          /\ q.assistin = <<>> /\ q.errors = {}
      BY <1>1, <1>4, <2>2, <3>2 DEF Stands, ToRest
    <3>5. ToRest(q, k, old)
      BY <1>1, <1>3, <3>3, <3>4 DEF ToRest, Holds, Whole
    <3>6. ToOffer(q, k, new) /\ Whole(q)
      BY <2>1, <2>3, <3>3, <3>4 DEF ToOffer, Whole
    <3>7. Last(p)
      BY <1>2, <1>4, <3>4
    <3>. QED  BY <1>1, <3>5, <3>6, <3>7 DEF ToGray, q
  <2>4. CASE ~Whole(p)
    <3>1. GrayAnswers(p, b)
      BY <1>2, <1>6, <2>2, <2>4
         DEF GrayDoes, GrayOffers, GrayEndsByte, GrayReleases, GrayWriteFails, GrayReceives,
             GrayReadFails, GrayStands, Whole
    <3>2. b.extlines = Ack(bit) /\ b.grayin = p.grayin /\ ~b.sending
      BY <2>2, <3>1 DEF GrayAnswers
    <3>3. Releases(b, q)
      BY <1>2, <1>4, <2>1, <2>2, <3>2, WireIs, WireSets
         DEF AssistDoes, Offers, EndsByte, WriteFails, Stands, Receives, ReadFails, Answers, Reads
    <3>4. q.extlines = Ack(bit) /\ q.grayin = p.grayin /\ ~q.sending
      BY <1>2, <3>2 DEF AssistDoes, AssistRest
    <3>5. q.lines = {} /\ q.busy = "write" /\ q.assistout = p.assistout /\ ~q.gotByte
          /\ q.assistin = <<>> /\ q.errors = {}
      BY <1>1, <1>4, <3>3 DEF Releases, ToRest
    <3>6. ToRest(q, k, old)
      BY <1>1, <1>3, <3>4, <3>5 DEF ToRest, Holds, Whole
    <3>7. ToReleased(q, k, new)
      BY <2>1, <2>4, <3>4, <3>5 DEF ToReleased, Whole
    <3>8. ~Last(p)
      BY <1>2, <1>4, <2>2, <3>5
    <3>. QED  BY <1>1, <3>6, <3>7, <3>8 DEF ToGrayFinds, q
  <2>. QED  BY <2>3, <2>4
<1>10. CASE ToReleased(p, k, new)
  <2>1. PICK bit \in Bit : p.extlines = Ack(bit) /\ InFlight(p.grayin, Whole(p), bit, p.assistout, k, new)
    BY <1>10 DEF ToReleased
  <2>2. p.busy = "write" /\ p.lines = {} /\ ~Whole(p)
    BY <1>10 DEF ToReleased
  <2>3. GrayReceives(p, b)
    BY <1>2, <1>6, <2>2, WireSets
       DEF GrayDoes, GrayOffers, GrayEndsByte, GrayReleases, GrayWriteFails,
           GrayReadFails, GrayAnswers, GrayStands, Whole
  <2>. DEFINE bits == p.grayin \o <<bit>>
  <2>4. b.extlines = {} /\ b.grayin = bits /\ ~b.sending
    BY <2>1, <2>3, WireIs DEF GrayReceives
  <2>5. p.grayin \in Seq(Bit) /\ p.assistout \in Seq(Bit)
    BY <1>1, Typed, BitsAre
  <2>6. k = 1 /\ CutAt(new, p.grayin, bit, p.assistout)
    BY <2>1, <2>2 DEF InFlight
  <2>7. Received(bits, p.assistout, k, new, old)
    BY <1>1, <2>5, <2>6, BitEnds
  <2>. HIDE DEF bits
  <2>8. Len(bits) \in Nat /\ Bits \in Nat
    BY <2>7, LenProperties, LinkAssumption DEF Received
  <2>9. Whole(b) <=> Len(bits) >= Bits
    BY <2>4, <2>7, <2>8 DEF Whole, Received
  <2>10. ToRest(b, k, old)
    BY <1>1, <1>4, <1>5, <2>4, <2>7, <2>9 DEF ToRest, Holds, Received
  <2>11. ToFree(b, k, new)
    BY <1>4, <2>2, <2>4, <2>7, <2>9 DEF ToFree, Between, Received
  <2>. QED  BY <1>1, <1>2, <1>3, <2>10, <2>11, ToGrayNext DEF q
<1>. QED  BY <1>7, <1>8, <1>9, <1>10 DEF ToGrayFinds

-----------------------------------------------------------------------------
(* A GrayLink that sends.                                                  *)

\* What is true at any time: the GrayLink receives nothing.
FromRest(p, k, old) == ReceiverRest(p, k, old) /\ p.grayin = <<>>

\* Nothing is under way.
FromIdle(p, k) ==
  /\ ~p.sending /\ p.busy = "no" /\ p.lines = {} /\ p.extlines = {}
  /\ k = IF p.gotByte THEN 1 ELSE 0
  /\ ~p.gotByte => p.assistin = <<>>

\* The lines are high between two bits.
FromFree(p, k, new) ==
  /\ p.sending /\ p.lines = {} /\ p.extlines = {}
  /\ p.grayout = <<>> => p.gotByte
  /\ Between(p.assistin, p.gotByte, p.grayout, k, new)

\* The GrayLink offers a bit.
FromOffer(p, k, new) ==
  /\ p.sending /\ p.busy = "no" /\ p.lines = {}
  /\ \E b \in Bit : p.extlines = WireOf(b) /\ InFlight(p.assistin, p.gotByte, b, p.grayout, k, new)

\* The assist has answered.
FromAnswer(p, k, new) ==
  /\ p.sending /\ p.busy = "read"
  /\ \E b \in Bit : /\ p.lines = Ack(b) /\ p.extlines = WireOf(b)
                    /\ InFlight(p.assistin, p.gotByte, b, p.grayout, k, new)

\* A GrayLink that sends to a calculator.  Between two operations a bit rests on
\* the wires only while the assist does not listen.
FromGray(p, k, new, old) ==
  /\ FromRest(p, k, old) /\ Ledger(k, new, old)
  /\ FromIdle(p, k) \/ (FromOffer(p, k, new) /\ ~Reads(p))

\* The same within the loop of dbus_update.
FromGrayFinds(p, k, new, old) ==
  /\ FromRest(p, k, old) /\ Ledger(k, new, old)
  /\ FromIdle(p, k) \/ FromFree(p, k, new) \/ FromOffer(p, k, new) \/ FromAnswer(p, k, new)

\* The assist answers the bit that the GrayLink offers, or leaves it.
LEMMA FromGrayNext ==
  ASSUME NEW b, NEW q, NEW k, NEW new, NEW old, NEW bit \in Bit,
         FromRest(b, k, old), Ledger(k, new, old), AssistDoes(b, q), Sound(q),
         b.sending, b.lines = {}, b.extlines = WireOf(bit),
         InFlight(b.assistin, b.gotByte, bit, b.grayout, k, new)
  PROVE  IF q.lines = b.lines THEN FromGray(q, k, new, old) ELSE FromGrayFinds(q, k, new, old)
<1>1. q.extlines = b.extlines /\ q.grayin = b.grayin /\ q.sending = b.sending /\ q.mode = b.mode
      /\ q.grayout = b.grayout
  BY DEF AssistDoes, AssistRest
<1>2. b.busy # "write" /\ b.errors = {} /\ b.grayin = <<>>
  BY DEF FromRest, ReceiverRest
<1>3. b.extlines # {} /\ b.extlines # Wires /\ Wires \ b.extlines = Ack(bit) /\ Ack(bit) # {}
  BY WireIs
<1>4. Stands(b, q) \/ Answers(b, q)
  BY <1>2, <1>3
     DEF AssistDoes, Offers, EndsByte, Releases, WriteFails, Receives, ReadFails
<1>5. CASE Stands(b, q)
  <2>1. "assist" \notin b.mode \/ b.gotByte
    BY <1>2, <1>5 DEF Stands
  <2>2. q.lines = b.lines /\ q.busy = b.busy /\ q.gotByte = b.gotByte /\ q.assistin = b.assistin
        /\ q.errors = b.errors
    BY <1>5 DEF Stands
  <2>3. FromRest(q, k, old)
    BY <1>1, <1>2, <2>2 DEF FromRest, ReceiverRest
  <2>4. b.busy \in {"no", "read", "write"}
    BY Typed DEF FromRest, ReceiverRest, Sound
  <2>5. b.busy = "no"
    BY <1>2, <2>1, <2>4 DEF FromRest, ReceiverRest
  <2>6. FromOffer(q, k, new)
    BY <1>1, <2>2, <2>5 DEF FromOffer
  <2>7. ~Reads(q)
    BY <1>1, <2>1, <2>2 DEF Reads
  <2>8. FromGray(q, k, new, old)
    BY <2>3, <2>6, <2>7 DEF FromGray
  <2>. QED  BY <2>2, <2>8
<1>6. CASE Answers(b, q)
  <2>1. q.lines = Ack(bit) /\ q.busy = "read" /\ q.gotByte = b.gotByte /\ q.assistin = b.assistin
        /\ q.errors = b.errors /\ "assist" \in b.mode /\ ~b.gotByte
    BY <1>3, <1>6 DEF Answers, Reads
  <2>2. FromRest(q, k, old)
    BY <1>1, <1>2, <2>1 DEF FromRest, ReceiverRest
  <2>3. FromAnswer(q, k, new)
    BY <1>1, <2>1 DEF FromAnswer
  <2>4. q.lines # b.lines
    BY <1>3, <2>1
  <2>5. FromGrayFinds(q, k, new, old)
    BY <2>2, <2>3 DEF FromGrayFinds
  <2>. QED  BY <2>4, <2>5
<1>. QED  BY <1>4, <1>5, <1>6

\* An assist that sees high lines.
LEMMA StaysQuiet ==
  ASSUME NEW b, NEW q, NEW k, NEW old, ReceiverRest(b, k, old), AssistDoes(b, q), Sound(q),
         b.lines = {}, b.extlines = {}
  PROVE  /\ q.lines = {} /\ q.busy = b.busy /\ q.gotByte = b.gotByte /\ q.assistin = b.assistin
         /\ q.errors = b.errors /\ q.extlines = {} /\ q.mode = b.mode
         /\ ReceiverRest(q, k, old)
<1>1. b.busy # "write" /\ Sound(b)
  BY DEF ReceiverRest
<1>2. Stands(b, q) \/ Receives(b, q)
  BY <1>1, WireSets
     DEF AssistDoes, Offers, EndsByte, Releases, WriteFails, ReadFails, Answers
<1>3. q.extlines = {} /\ q.mode = b.mode
  BY DEF AssistDoes, AssistRest
<1>4. CASE Stands(b, q)
  BY <1>3, <1>4 DEF Stands, ReceiverRest
<1>5. CASE Receives(b, q)
  <2>1. q.lines = {} /\ q.busy = b.busy /\ ~q.gotByte /\ ~b.gotByte /\ q.assistin = b.assistin
        /\ q.errors = b.errors
    BY <1>1, <1>5, NothingHeard
  <2>2. q.gotByte \in BOOLEAN /\ b.gotByte \in BOOLEAN
    BY <1>1, Typed DEF Sound
  <2>. QED  BY <1>3, <2>1, <2>2 DEF ReceiverRest
<1>. QED  BY <1>2, <1>4, <1>5

\* A round leads from what it finds to a state of the cable if it is the last,
\* and to what the next round may find if not.
LEMMA FromGrayRound ==
  ASSUME cable # "black", NEW p, NEW k, NEW new, NEW old, FromGrayFinds(p, k, new, old)
  PROVE  IF Last(p) THEN FromGray(round(p), k, new, old) ELSE FromGrayFinds(round(p), k, new, old)
<1>. DEFINE q == round(p)
<1>1. p \in Port /\ Sound(p) /\ FromRest(p, k, old) /\ Ledger(k, new, old)
  BY DEF FromGrayFinds, FromRest, ReceiverRest, Sound
<1>2. PICK b \in Port : GrayDoes(p, b) /\ AssistDoes(b, q) /\ q \in Port /\ (Last(p) <=> q.lines = b.lines)
  BY <1>1, GrayRound
<1>3. Sound(q)
  BY <1>1, RoundSound
<1>. HIDE DEF q
<1>4. b.lines = p.lines /\ b.mode = p.mode /\ b.busy = p.busy /\ b.gotByte = p.gotByte
      /\ b.errors = p.errors /\ b.assistin = p.assistin /\ b.assistout = p.assistout
  BY <1>2 DEF GrayDoes, GrayRest
<1>5. Sound(b)
  BY <1>1, <1>2, <1>4 DEF Sound
<1>6. ReceiverRest(b, k, old)
  BY <1>1, <1>4, <1>5 DEF FromRest, ReceiverRest
<1>7. q.grayin = b.grayin /\ q.sending = b.sending /\ q.grayout = b.grayout /\ q.extlines = b.extlines
  BY <1>2 DEF AssistDoes, AssistRest
<1>8. CASE FromIdle(p, k)
  <2>1. b.extlines = {} /\ b.grayin = p.grayin /\ ~b.sending
    BY <1>1, <1>2, <1>8, NothingSent DEF FromIdle
  <2>2. b.busy = "no" /\ b.lines = {}
    BY <1>4, <1>8 DEF FromIdle
  <2>3. q.lines = {} /\ q.busy = "no" /\ q.gotByte = p.gotByte /\ q.assistin = p.assistin
        /\ q.extlines = {} /\ ReceiverRest(q, k, old)
    BY <1>2, <1>3, <1>4, <1>6, <2>1, <2>2, StaysQuiet
  <2>4. FromRest(q, k, old)
    BY <1>1, <1>7, <2>1, <2>3 DEF FromRest
  <2>5. FromIdle(q, k)
    BY <1>7, <1>8, <2>1, <2>3 DEF FromIdle
  <2>6. Last(p)
    BY <1>2, <2>2, <2>3
  <2>7. FromGray(q, k, new, old)
    BY <1>1, <2>4, <2>5 DEF FromGray
  <2>. QED  BY <2>6, <2>7 DEF q
<1>9. CASE FromFree(p, k, new)
  <2>1. GrayOffers(p, b) \/ GrayEndsByte(p, b)
    BY <1>2, <1>9, WireSets
       DEF FromFree, GrayDoes, GrayReleases, GrayWriteFails, GrayReceives, GrayReadFails, GrayAnswers,
           GrayStands, Listens
  <2>2. CASE GrayOffers(p, b)
    <3>1. p.grayout \in Seq(Bit) /\ p.grayout # <<>>
      BY <1>1, <2>2, Typed, BitsAre DEF GrayOffers
    <3>. DEFINE bit == Head(p.grayout)
    <3>2. Between(p.assistin, p.gotByte, p.grayout, k, new)
      BY <1>9 DEF FromFree
    <3>3. bit \in Bit /\ InFlight(p.assistin, p.gotByte, bit, b.grayout, k, new)
      BY <2>2, <3>1, <3>2, BitStarts DEF GrayOffers
    <3>4. b.extlines = WireOf(bit) /\ b.sending /\ b.grayin = p.grayin
      BY <2>2 DEF GrayOffers
    <3>. HIDE DEF bit
    <3>5. FromRest(b, k, old)
      BY <1>1, <1>6, <3>4 DEF FromRest
    <3>6. b.lines = {} /\ InFlight(b.assistin, b.gotByte, bit, b.grayout, k, new)
      BY <1>4, <1>9, <3>3 DEF FromFree
    <3>7. IF q.lines = b.lines THEN FromGray(q, k, new, old) ELSE FromGrayFinds(q, k, new, old)
      BY <1>1, <1>2, <1>3, <3>3, <3>4, <3>5, <3>6, FromGrayNext
    <3>. QED  BY <1>2, <3>7 DEF q
  <2>3. CASE GrayEndsByte(p, b)
    <3>1. b.extlines = {} /\ ~b.sending /\ b.grayin = p.grayin /\ b.grayout = <<>> /\ p.grayout = <<>>
      BY <2>3 DEF GrayEndsByte
    <3>2. b.lines = {} /\ p.gotByte /\ k = 1
      BY <1>4, <1>9, <3>1 DEF FromFree, Between
    <3>3. q.lines = {} /\ q.busy = p.busy /\ q.gotByte = p.gotByte /\ q.assistin = p.assistin
          /\ q.extlines = {} /\ ReceiverRest(q, k, old)
      BY <1>2, <1>3, <1>4, <1>6, <3>1, <3>2, StaysQuiet
    <3>4. p.busy = "no"
      BY <1>1, <3>2, Typed DEF FromRest, ReceiverRest
    <3>5. FromRest(q, k, old)
      BY <1>1, <1>7, <3>1, <3>3 DEF FromRest
    <3>6. FromIdle(q, k)
      BY <1>7, <3>1, <3>2, <3>3, <3>4 DEF FromIdle
    <3>7. Last(p)
      BY <1>2, <3>2, <3>3
    <3>8. FromGray(q, k, new, old)
      BY <1>1, <3>5, <3>6 DEF FromGray
    <3>. QED  BY <3>7, <3>8 DEF q
  <2>. QED  BY <2>1, <2>2, <2>3
<1>10. CASE FromOffer(p, k, new)
  <2>1. PICK bit \in Bit : /\ p.extlines = WireOf(bit)
                           /\ InFlight(p.assistin, p.gotByte, bit, p.grayout, k, new)
    BY <1>10 DEF FromOffer
  <2>2. p.sending /\ p.lines = {} /\ p.extlines # {}
    BY <1>10, <2>1, WireIs DEF FromOffer
  <2>3. GrayStands(p, b)
    BY <1>2, <2>2, WireSets
       DEF GrayDoes, GrayOffers, GrayEndsByte, GrayReleases, GrayWriteFails, GrayReceives,
           GrayReadFails, GrayAnswers, Listens
  <2>4. b.extlines = WireOf(bit) /\ b.sending /\ b.grayin = p.grayin /\ b.grayout = p.grayout
    BY <2>1, <2>2, <2>3 DEF GrayStands
  <2>5. FromRest(b, k, old)
    BY <1>1, <1>6, <2>4 DEF FromRest
  <2>6. b.lines = {} /\ InFlight(b.assistin, b.gotByte, bit, b.grayout, k, new)
    BY <1>4, <2>1, <2>2, <2>4
  <2>7. IF q.lines = b.lines THEN FromGray(q, k, new, old) ELSE FromGrayFinds(q, k, new, old)
    BY <1>1, <1>2, <1>3, <2>4, <2>5, <2>6, FromGrayNext
  <2>. QED  BY <1>2, <2>7 DEF q
<1>11. CASE FromAnswer(p, k, new)
  <2>1. PICK bit \in Bit : /\ p.lines = Ack(bit) /\ p.extlines = WireOf(bit)
                           /\ InFlight(p.assistin, p.gotByte, bit, p.grayout, k, new)
    BY <1>11 DEF FromAnswer
  <2>2. p.sending /\ p.busy = "read" /\ "assist" \in p.mode /\ ~p.gotByte
    BY <1>1, <1>11 DEF FromAnswer, FromRest, ReceiverRest
  <2>3. p.lines # {} /\ p.lines # Wires /\ Cardinality(p.lines) = 1 /\ p.extlines = Wires \ p.lines
        /\ AckedBit(p.lines) = <<bit>>
    BY <2>1, WireIs
  <2>4. GrayReleases(p, b)
    BY <1>2, <2>2, <2>3
       DEF GrayDoes, GrayOffers, GrayEndsByte, GrayWriteFails, GrayReceives,
           GrayReadFails, GrayAnswers, GrayStands, Listens
  <2>5. b.extlines = {} /\ b.sending /\ b.grayin = p.grayin /\ b.grayout = p.grayout
    BY <2>4 DEF GrayReleases
  <2>6. Receives(b, q)
    BY <1>2, <1>4, <2>2, <2>5, WireSets
       DEF AssistDoes, Offers, EndsByte, Releases, WriteFails, Stands, ReadFails, Answers
  <2>. DEFINE bits == p.assistin \o <<bit>>
  <2>7. q.assistin = bits /\ q.lines = {} /\ q.errors = {}
    BY <1>4, <1>6, <2>3, <2>6 DEF Receives, ReceiverRest
  <2>8. p.assistin \in Seq(Bit) /\ p.grayout \in Seq(Bit)
    BY <1>1, Typed, BitsAre
  <2>9. k = 1 /\ CutAt(new, p.assistin, bit, p.grayout)
    BY <2>1, <2>2 DEF InFlight
  <2>10. Received(bits, p.grayout, k, new, old)
    BY <1>1, <2>8, <2>9, BitEnds
  <2>. HIDE DEF bits
  <2>11. ~Last(p)
    BY <1>2, <1>4, <2>3, <2>7
  <2>12. CASE Len(bits) >= Bits
    <3>1. q.busy = "no" /\ q.gotByte
      BY <2>6, <2>7, <2>12 DEF Receives
    <3>2. FromRest(q, k, old)
      BY <1>1, <1>3, <1>7, <2>5, <2>7, <2>10, <2>12, <3>1 DEF FromRest, ReceiverRest, Holds, Received
    <3>3. FromFree(q, k, new)
      BY <1>7, <2>5, <2>7, <2>10, <2>12, <3>1 DEF FromFree, Between, Received
    <3>4. FromGrayFinds(q, k, new, old)
      BY <1>1, <3>2, <3>3 DEF FromGrayFinds
    <3>. QED  BY <2>11, <3>4 DEF q
  <2>13. CASE ~(Len(bits) >= Bits)
    <3>1. q.busy = "read" /\ ~q.gotByte /\ "assist" \in q.mode
      BY <1>2, <1>4, <2>2, <2>6, <2>7, <2>13 DEF Receives, AssistDoes, AssistRest
    <3>2. FromRest(q, k, old)
      BY <1>1, <1>3, <1>7, <2>5, <2>7, <3>1 DEF FromRest, ReceiverRest, Holds
    <3>3. FromFree(q, k, new)
      BY <1>7, <2>5, <2>7, <2>10, <2>13, <3>1 DEF FromFree, Between, Received
    <3>4. FromGrayFinds(q, k, new, old)
      BY <1>1, <3>2, <3>3 DEF FromGrayFinds
    <3>. QED  BY <2>11, <3>4 DEF q
  <2>. QED  BY <2>12, <2>13
<1>. QED  BY <1>8, <1>9, <1>10, <1>11 DEF FromGrayFinds

-----------------------------------------------------------------------------
(* Updates of the bus in each of the three cables.                         *)

\* The state of a BlackLink does not depend on interrupts and timers.
LEMMA AlikeBlack ==
  ASSUME NEW s, NEW r, NEW k, NEW new, NEW old, NEW v, Black(s, r, k, new, old), Sound(v)
  PROVE  /\ Alike(s, v) => Black(v, r, k, new, old)
         /\ Alike(r, v) => Black(s, v, k, new, old)
<1>1. /\ SenderRest(s) /\ ReceiverRest(r, k, old) /\ Ledger(k, new, old)
      /\ BlackRest(s, r, k) \/ AtOffer(s, r, k, new) \/ AtAnswer(s, r, k, new) \/ AtFinish(s, r, k, new)
  BY DEF Black
<1>2. ASSUME Alike(s, v) PROVE Black(v, r, k, new, old)
  <2>1. SenderRest(v)
    BY <1>1, <1>2 DEF SenderRest, Alike
  <2>2. BlackRest(v, r, k) \/ AtOffer(v, r, k, new) \/ AtAnswer(v, r, k, new) \/ AtFinish(v, r, k, new)
    BY <1>1, <1>2
       DEF Alike, BlackRest, AtOffer, AtAnswer, AtFinish, Free, Offered, Acknowledged, Released, Finished,
           Flies, Waits
  <2>. QED  BY <1>1, <2>1, <2>2 DEF Black
<1>3. ASSUME Alike(r, v) PROVE Black(s, v, k, new, old)
  <2>1. ReceiverRest(v, k, old)
    BY <1>1, <1>3 DEF ReceiverRest, Alike
  <2>2. BlackRest(s, v, k) \/ AtOffer(s, v, k, new) \/ AtAnswer(s, v, k, new) \/ AtFinish(s, v, k, new)
    BY <1>1, <1>3
       DEF Alike, BlackRest, AtOffer, AtAnswer, AtFinish, Free, Offered, Acknowledged, Released, Finished,
           Flies, Waits
  <2>. QED  BY <1>1, <2>1, <2>2 DEF Black
<1>. QED  BY <1>2, <1>3

\* An update of the bus at the sender.
LEMMA SenderBus ==
  ASSUME cable = "black", NEW s, NEW r, NEW k, NEW new, NEW old, SenderFinds(s, r, k, new, old)
  PROVE  Black(dbusUpdate(s), r, k, new, old)
<1>. DEFINE K == {q \in Port : SenderFinds(q, r, k, new, old)}
            Q == {q \in Port : Black(q, r, k, new, old)}
            d == dbusUpdate(s)
<1>1. \A q \in K : IF Last(q) THEN round(q) \in Q ELSE round(q) \in K
  <2>1. ASSUME NEW q \in K PROVE round(q) \in Q /\ round(q) \in K
    <3>1. Black(round(q), r, k, new, old)
      BY SenderRound
    <3>2. SenderFinds(round(q), r, k, new, old)
      BY <3>1 DEF Black, SenderFinds
    <3>. QED  BY <3>1, <3>2, RoundInPort
  <2>. QED  BY <2>1
<1>2. s \in K /\ Sound(s)
  BY DEF SenderFinds, SenderRest, Sound
<1>3. K \in SUBSET Port
  OBVIOUS
<1>. HIDE DEF K, Q, d
<1>4. PICK v \in Q : v \in Port /\ (Sound(s) => Sound(v)) /\ Alike(v, dbusUpdate(s)) /\ dbusUpdate(s) \in Port
  BY <1>1, <1>2, <1>3, BusRule
<1>5. Sound(dbusUpdate(s))
  BY <1>2, BusSound
<1>6. Black(v, r, k, new, old)
  BY <1>4 DEF Q
<1>. QED  BY <1>4, <1>5, <1>6, AlikeBlack

\* An update of the bus at the receiver.
LEMMA ReceiverBus ==
  ASSUME cable = "black", NEW s, NEW r, NEW k, NEW new, NEW old, ReceiverFinds(s, r, k, new, old)
  PROVE  Black(s, dbusUpdate(r), k, new, old)
<1>. DEFINE K == {q \in Port : ReceiverFinds(s, q, k, new, old)}
            Q == {q \in Port : Black(s, q, k, new, old)}
<1>1. \A q \in K : IF Last(q) THEN round(q) \in Q ELSE round(q) \in K
  <2>1. ASSUME NEW q \in K PROVE round(q) \in Q /\ round(q) \in K
    <3>1. Black(s, round(q), k, new, old)
      BY ReceiverRound
    <3>2. ReceiverFinds(s, round(q), k, new, old)
      BY <3>1 DEF Black, ReceiverFinds
    <3>. QED  BY <3>1, <3>2, RoundInPort
  <2>. QED  BY <2>1
<1>2. r \in K /\ Sound(r)
  BY DEF ReceiverFinds, ReceiverRest, Sound
<1>3. K \in SUBSET Port
  OBVIOUS
<1>. HIDE DEF K, Q
<1>4. PICK v \in Q : v \in Port /\ (Sound(r) => Sound(v)) /\ Alike(v, dbusUpdate(r)) /\ dbusUpdate(r) \in Port
  BY <1>1, <1>2, <1>3, BusRule
<1>5. Sound(dbusUpdate(r))
  BY <1>2, BusSound
<1>6. Black(s, v, k, new, old)
  BY <1>4 DEF Q
<1>. QED  BY <1>4, <1>5, <1>6, AlikeBlack

\* Nor does that of a GrayLink that receives.
LEMMA AlikeToGray ==
  ASSUME NEW v, NEW d, NEW k, NEW new, NEW old, ToGray(v, k, new, old), Alike(v, d), Sound(d)
  PROVE  ToGray(d, k, new, old)
<1>1. ToRest(d, k, old)
  BY DEF ToGray, ToRest, Alike, Holds, Whole
<1>2. ToIdle(d, k) \/ (ToOffer(d, k, new) /\ (Whole(d) \/ d.grayin = <<>>))
  BY DEF ToGray, ToIdle, ToOffer, Alike, Whole
<1>. QED  BY <1>1, <1>2 DEF ToGray

\* Nor that of a GrayLink that sends.
LEMMA AlikeFromGray ==
  ASSUME NEW v, NEW d, NEW k, NEW new, NEW old, FromGray(v, k, new, old), Alike(v, d), Sound(d)
  PROVE  FromGray(d, k, new, old)
<1>1. FromRest(d, k, old)
  BY DEF FromGray, FromRest, ReceiverRest, Alike
<1>2. FromIdle(d, k) \/ (FromOffer(d, k, new) /\ ~Reads(d))
  BY DEF FromGray, FromIdle, FromOffer, Alike, Reads
<1>. QED  BY <1>1, <1>2 DEF FromGray

\* An update of the bus, where the calculator sends to the GrayLink.
LEMMA ToGrayBus ==
  ASSUME cable # "black", NEW p, NEW k, NEW new, NEW old, ToGrayFinds(p, k, new, old)
  PROVE  ToGray(dbusUpdate(p), k, new, old)
<1>. DEFINE K == {q \in Port : ToGrayFinds(q, k, new, old)}
            Q == {q \in Port : ToGray(q, k, new, old)}
            d == dbusUpdate(p)
<1>1. \A q \in K : IF Last(q) THEN round(q) \in Q ELSE round(q) \in K
  <2>1. ASSUME NEW q \in K PROVE IF Last(q) THEN round(q) \in Q ELSE round(q) \in K
    <3>1. IF Last(q) THEN ToGray(round(q), k, new, old) ELSE ToGrayFinds(round(q), k, new, old)
      BY ToGrayRound
    <3>. QED  BY <3>1, RoundInPort
  <2>. QED  BY <2>1
<1>2. p \in K /\ Sound(p)
  BY DEF ToGrayFinds, ToRest, Sound
<1>3. K \in SUBSET Port
  OBVIOUS
<1>. HIDE DEF K, Q
<1>4. PICK v \in Q : v \in Port /\ (Sound(p) => Sound(v)) /\ Alike(v, dbusUpdate(p)) /\ dbusUpdate(p) \in Port
  BY <1>1, <1>2, <1>3, BusRule
<1>5. Sound(d)
  BY <1>2, BusSound
<1>6. ToGray(v, k, new, old) /\ Alike(v, d)
  BY <1>4 DEF Q
<1>. QED  BY <1>5, <1>6, AlikeToGray

\* An update of the bus, where the GrayLink sends to the calculator.
LEMMA FromGrayBus ==
  ASSUME cable # "black", NEW p, NEW k, NEW new, NEW old, FromGrayFinds(p, k, new, old)
  PROVE  FromGray(dbusUpdate(p), k, new, old)
<1>. DEFINE K == {q \in Port : FromGrayFinds(q, k, new, old)}
            Q == {q \in Port : FromGray(q, k, new, old)}
            d == dbusUpdate(p)
<1>1. \A q \in K : IF Last(q) THEN round(q) \in Q ELSE round(q) \in K
  <2>1. ASSUME NEW q \in K PROVE IF Last(q) THEN round(q) \in Q ELSE round(q) \in K
    <3>1. IF Last(q) THEN FromGray(round(q), k, new, old) ELSE FromGrayFinds(round(q), k, new, old)
      BY FromGrayRound
    <3>. QED  BY <3>1, RoundInPort
  <2>. QED  BY <2>1
<1>2. p \in K /\ Sound(p)
  BY DEF FromGrayFinds, FromRest, ReceiverRest, Sound
<1>3. K \in SUBSET Port
  OBVIOUS
<1>. HIDE DEF K, Q
<1>4. PICK v \in Q : v \in Port /\ (Sound(p) => Sound(v)) /\ Alike(v, dbusUpdate(p)) /\ dbusUpdate(p) \in Port
  BY <1>1, <1>2, <1>3, BusRule
<1>5. Sound(d)
  BY <1>2, BusSound
<1>6. FromGray(v, k, new, old) /\ Alike(v, d)
  BY <1>4 DEF Q
<1>. QED  BY <1>5, <1>6, AlikeFromGray

-----------------------------------------------------------------------------
(* What an end finds after each operation.                                 *)

\* All but the mode, the interrupts and the timer.
Resembles(p, q) ==
  /\ Sound(q) /\ q.lines = p.lines /\ q.extlines = p.extlines
  /\ q.busy = p.busy /\ q.gotByte = p.gotByte /\ q.errors = p.errors
  /\ q.assistin = p.assistin /\ q.assistout = p.assistout
  /\ q.sending = p.sending /\ q.grayout = p.grayout /\ q.grayin = p.grayin

\* The same with a byte to write.
Writes(p, q, byte) ==
  /\ Sound(q) /\ q.lines = {} /\ q.extlines = p.extlines
  /\ q.busy = "write" /\ q.gotByte = p.gotByte /\ q.errors = p.errors
  /\ q.assistin = p.assistin /\ q.assistout = byte
  /\ q.sending = p.sending /\ q.grayout = p.grayout /\ q.grayin = p.grayin

\* The same without the byte that was received.
Gives(p, q) ==
  /\ Sound(q) /\ q.lines = p.lines /\ q.extlines = p.extlines /\ q.mode = p.mode
  /\ q.busy = p.busy /\ ~q.gotByte /\ q.errors = p.errors
  /\ q.assistin = <<>> /\ q.assistout = p.assistout
  /\ q.sending = p.sending /\ q.grayout = p.grayout /\ q.grayin = p.grayin

\* The same with other wires from outside.
Hears(p, q, wires) ==
  /\ Sound(q) /\ q.lines = p.lines /\ q.extlines = wires /\ q.mode = p.mode
  /\ q.busy = p.busy /\ q.gotByte = p.gotByte /\ q.errors = p.errors
  /\ q.assistin = p.assistin /\ q.assistout = p.assistout
  /\ q.sending = p.sending /\ q.grayout = p.grayout /\ q.grayin = p.grayin

\* The sender looks at its wires again, or at what they have become.
LEMMA SenderLooks ==
  ASSUME NEW s, NEW r, NEW k, NEW new, NEW old, NEW q, Black(s, r, k, new, old),
         Resembles(s, q) \/ Hears(s, q, r.lines)
  PROVE  SenderFinds(q, r, k, new, old)
<1>1. /\ SenderRest(s) /\ ReceiverRest(r, k, old) /\ Ledger(k, new, old)
      /\ BlackRest(s, r, k) \/ AtOffer(s, r, k, new) \/ AtAnswer(s, r, k, new) \/ AtFinish(s, r, k, new)
  BY DEF Black
<1>2. SenderRest(q)
  BY <1>1 DEF SenderRest, Resembles, Hears
<1>3. CASE Resembles(s, q)
  <2>1. BlackRest(q, r, k) \/ AtOffer(q, r, k, new) \/ AtAnswer(q, r, k, new) \/ AtFinish(q, r, k, new)
    BY <1>1, <1>3
       DEF Resembles, BlackRest, AtOffer, AtAnswer, AtFinish, Free, Offered, Acknowledged, Released, Finished,
           Flies, Waits
  <2>. QED  BY <1>1, <1>2, <2>1 DEF SenderFinds
<1>4. CASE Hears(s, q, r.lines)
  <2>1. CASE BlackRest(s, r, k)
    <3>1. BlackRest(q, r, k)
      BY <1>4, <2>1 DEF Hears, BlackRest, Free
    <3>. QED  BY <1>1, <1>2, <3>1 DEF SenderFinds
  <2>2. CASE AtOffer(s, r, k, new)
    <3>1. AtOffer(q, r, k, new)
      BY <1>4, <2>2 DEF Hears, AtOffer, Offered, Flies
    <3>. QED  BY <1>1, <1>2, <3>1 DEF SenderFinds
  <2>3. CASE AtAnswer(s, r, k, new)
    <3>1. PICK b \in Bit : (Acknowledged(s, r, b) \/ Released(s, r, b)) /\ Flies(s, r, b, k, new)
      BY <2>3 DEF AtAnswer
    <3>2. (Heeded(q, r, b) \/ Released(q, r, b)) /\ Flies(q, r, b, k, new)
      BY <1>4, <3>1 DEF Hears, Acknowledged, Released, Heeded, Flies
    <3>3. q.busy = "write" /\ r.busy = "read"
      BY <1>4, <2>3 DEF Hears, AtAnswer
    <3>4. AtAnswer(q, r, k, new) \/ \E bit \in Bit : Heeded(q, r, bit) /\ Flies(q, r, bit, k, new)
      BY <3>2, <3>3 DEF AtAnswer
    <3>. QED  BY <1>1, <1>2, <3>3, <3>4 DEF SenderFinds
  <2>4. CASE AtFinish(s, r, k, new)
    <3>1. q.busy = "write" /\ Free(q, r) /\ Waits(q, r, k, new)
      BY <1>4, <2>4 DEF Hears, AtFinish, Finished, Free, Waits
    <3>. QED  BY <1>1, <1>2, <3>1 DEF SenderFinds
  <2>. QED  BY <1>1, <2>1, <2>2, <2>3, <2>4
<1>. QED  BY <1>3, <1>4

\* The receiver looks at its wires again, or at what they have become.
LEMMA ReceiverLooks ==
  ASSUME NEW s, NEW r, NEW k, NEW new, NEW old, NEW q, Black(s, r, k, new, old),
         \/ Resembles(r, q) /\ (r.busy = "read" => "assist" \in q.mode)
         \/ Hears(r, q, s.lines)
  PROVE  ReceiverFinds(s, q, k, new, old)
<1>1. /\ SenderRest(s) /\ ReceiverRest(r, k, old) /\ Ledger(k, new, old)
      /\ BlackRest(s, r, k) \/ AtOffer(s, r, k, new) \/ AtAnswer(s, r, k, new) \/ AtFinish(s, r, k, new)
  BY DEF Black
<1>2. ReceiverRest(q, k, old)
  BY <1>1 DEF ReceiverRest, Resembles, Hears
<1>3. CASE Resembles(r, q)
  <2>1. BlackRest(s, q, k) \/ AtOffer(s, q, k, new) \/ AtAnswer(s, q, k, new) \/ AtFinish(s, q, k, new)
    BY <1>1, <1>3
       DEF Resembles, BlackRest, AtOffer, AtAnswer, AtFinish, Free, Offered, Acknowledged, Released, Finished,
           Flies, Waits
  <2>. QED  BY <1>1, <1>2, <2>1 DEF ReceiverFinds
<1>4. CASE Hears(r, q, s.lines)
  <2>1. CASE BlackRest(s, r, k)
    <3>1. BlackRest(s, q, k)
      BY <1>4, <2>1 DEF Hears, BlackRest, Free
    <3>. QED  BY <1>1, <1>2, <3>1 DEF ReceiverFinds
  <2>2. CASE AtOffer(s, r, k, new)
    <3>1. AtOffer(s, q, k, new)
      BY <1>4, <2>2 DEF Hears, AtOffer, Offered, Flies
    <3>. QED  BY <1>1, <1>2, <3>1 DEF ReceiverFinds
  <2>3. CASE AtAnswer(s, r, k, new)
    <3>1. PICK b \in Bit : (Acknowledged(s, r, b) \/ Released(s, r, b)) /\ Flies(s, r, b, k, new)
      BY <2>3 DEF AtAnswer
    <3>2. (Acknowledged(s, q, b) \/ Lowered(s, q, b)) /\ Flies(s, q, b, k, new)
      BY <1>4, <3>1 DEF Hears, Acknowledged, Released, Lowered, Flies
    <3>3. s.busy = "write" /\ q.busy = "read"
      BY <1>4, <2>3 DEF Hears, AtAnswer
    <3>4. AtAnswer(s, q, k, new) \/ \E bit \in Bit : Lowered(s, q, bit) /\ Flies(s, q, bit, k, new)
      BY <3>2, <3>3 DEF AtAnswer
    <3>. QED  BY <1>1, <1>2, <3>3, <3>4 DEF ReceiverFinds
  <2>4. CASE AtFinish(s, r, k, new)
    <3>1. AtFinish(s, q, k, new)
      BY <1>4, <2>4 DEF Hears, AtFinish, Finished, Waits
    <3>. QED  BY <1>1, <1>2, <3>1 DEF ReceiverFinds
  <2>. QED  BY <1>1, <2>1, <2>2, <2>3, <2>4
<1>. QED  BY <1>3, <1>4

\* The sender begins a byte.
LEMMA SenderWrites ==
  ASSUME NEW s, NEW r, NEW k, NEW new, NEW old, NEW q, NEW byte \in Bytes, NEW next,
         Black(s, r, k, new, old), s.busy = "no", Writes(s, q, byte),
         Ledger(k + 1, byte, next), k # 0 => next = old
  PROVE  k \in 0..1 /\ SenderFinds(q, r, k + 1, byte, next)
<1>1. /\ SenderRest(s) /\ ReceiverRest(r, k, old) /\ BlackRest(s, r, k)
  BY DEF Black, AtOffer, AtAnswer, AtFinish
<1>2. SenderRest(q)
  BY <1>1 DEF SenderRest, Writes
<1>3. ReceiverRest(r, k + 1, next)
  BY <1>1 DEF ReceiverRest, Holds, BlackRest
<1>4. Free(q, r) /\ q.busy = "write"
  BY <1>1 DEF BlackRest, Free, Writes
<1>5. Cut(byte, <<>>, byte) /\ byte # <<>>
  BY CutStarts, ByteIs
<1>6. Waits(q, r, k + 1, byte)
  BY <1>1, <1>5 DEF Waits, Between, BlackRest, Writes
<1>. QED  BY <1>1, <1>2, <1>3, <1>4, <1>6 DEF SenderFinds, BlackRest

\* Software takes the byte from the receiver: it was the next to be taken.
LEMMA ReceiverGives ==
  ASSUME NEW s, NEW r, NEW k, NEW new, NEW old, NEW q, NEW next,
         Black(s, r, k, new, old), r.gotByte, Gives(r, q), Ledger(k - 1, new, next)
  PROVE  k \in 1..2 /\ r.assistin = old /\ ReceiverFinds(s, q, k - 1, new, next)
<1>1. /\ SenderRest(s) /\ ReceiverRest(r, k, old) /\ Ledger(k, new, old)
      /\ BlackRest(s, r, k) \/ AtOffer(s, r, k, new) \/ AtAnswer(s, r, k, new) \/ AtFinish(s, r, k, new)
  BY DEF Black
<1>2. k \in 1..2 /\ r.assistin = old /\ r.busy # "read"
  BY <1>1 DEF ReceiverRest, Holds, Ledger
<1>3. ReceiverRest(q, k - 1, next)
  BY <1>1, <1>2 DEF ReceiverRest, Holds, Gives
<1>4. CASE BlackRest(s, r, k)
  <2>1. k - 1 = 0
    BY <1>4 DEF BlackRest
  <2>2. BlackRest(s, q, k - 1)
    BY <1>4, <2>1 DEF BlackRest, Free, Gives
  <2>. QED  BY <1>1, <1>2, <1>3, <2>2 DEF ReceiverFinds
<1>5. CASE AtOffer(s, r, k, new)
  <2>1. PICK b \in Bit : Offered(s, r, b) /\ Flies(s, r, b, k, new) /\ s.busy = "write"
    BY <1>5 DEF AtOffer
  <2>2. k = 2 /\ k - 1 = 1 /\ CutAt(new, <<>>, b, s.assistout)
    BY <2>1 DEF Flies, InFlight
  <2>3. Flies(s, q, b, k - 1, new)
    BY <2>2 DEF Flies, InFlight, Gives
  <2>4. Offered(s, q, b)
    BY <2>1 DEF Offered, Gives
  <2>5. AtOffer(s, q, k - 1, new)
    BY <2>1, <2>3, <2>4 DEF AtOffer
  <2>. QED  BY <1>1, <1>2, <1>3, <2>5 DEF ReceiverFinds
<1>6. CASE AtFinish(s, r, k, new)
  <2>1. PICK b \in Bit : Finished(s, r, b)
    BY <1>6 DEF AtFinish
  <2>2. Finished(s, q, b)
    BY <2>1 DEF Finished, Gives
  <2>3. \/ k = 2 /\ k - 1 = 1 /\ s.assistout # <<>> /\ Cut(new, <<>>, s.assistout)
        \/ k = 1 /\ k - 1 = 0 /\ s.assistout = <<>>
    BY <1>6 DEF AtFinish, Waits, Between
  <2>4. Waits(s, q, k - 1, new)
    BY <2>3 DEF Waits, Between, Gives
  <2>5. AtFinish(s, q, k - 1, new)
    BY <1>6, <2>2, <2>4 DEF AtFinish
  <2>. QED  BY <1>1, <1>2, <1>3, <2>5 DEF ReceiverFinds
<1>7. ~AtAnswer(s, r, k, new)
  BY <1>2 DEF AtAnswer
<1>. QED  BY <1>1, <1>4, <1>5, <1>6, <1>7

\* The same with the GrayLink emptied.
Empties(p, q) ==
  /\ Sound(q) /\ q.lines = p.lines /\ q.extlines = {} /\ q.mode = p.mode
  /\ q.busy = p.busy /\ q.gotByte = p.gotByte /\ q.errors = p.errors
  /\ q.assistin = p.assistin /\ q.assistout = p.assistout
  /\ ~q.sending /\ q.grayin = <<>>

\* The same with a byte for the GrayLink to send.
Sends(p, q, byte) ==
  /\ Sound(q) /\ q.lines = p.lines /\ q.extlines = {} /\ q.mode = p.mode
  /\ q.busy = p.busy /\ q.gotByte = p.gotByte /\ q.errors = p.errors
  /\ q.assistin = p.assistin /\ q.assistout = p.assistout
  /\ q.sending /\ q.grayout = byte /\ q.grayin = p.grayin

\* What holds nothing holds no whole byte.
LEMMA WholeBits == Bits # 0 /\ Len(<<>>) # Bits
BY LinkAssumption

\* An update of a GrayLink that receives, after an operation that moved no byte.
LEMMA ToLooks ==
  ASSUME NEW p, NEW k, NEW new, NEW old, NEW q, ToGray(p, k, new, old),
         Resembles(p, q) \/ (Empties(p, q) /\ p.extlines = {} /\ p.grayin = <<>> /\ ~p.sending)
  PROVE  ToGrayFinds(q, k, new, old)
<1>1. /\ ToRest(p, k, old) /\ Ledger(k, new, old)
      /\ ToIdle(p, k) \/ ToOffer(p, k, new)
  BY DEF ToGray
<1>2. q.lines = p.lines /\ q.extlines = p.extlines /\ q.grayin = p.grayin /\ ~q.sending /\ q.busy = p.busy
      /\ q.assistout = p.assistout
  BY <1>1 DEF Resembles, Empties, ToRest
<1>3. ToRest(q, k, old)
  BY <1>1, <1>2 DEF ToRest, Resembles, Empties, Holds, Whole
<1>4. ToIdle(q, k) \/ ToOffer(q, k, new)
  BY <1>1, <1>2 DEF ToIdle, ToOffer, Whole
<1>. QED  BY <1>1, <1>3, <1>4 DEF ToGrayFinds

\* The calculator begins a byte for the GrayLink.
LEMMA ToWrites ==
  ASSUME NEW p, NEW k, NEW new, NEW old, NEW q, NEW byte \in Bytes, NEW next,
         ToGray(p, k, new, old), p.busy = "no", Writes(p, q, byte),
         Ledger(k + 1, byte, next), k # 0 => next = old
  PROVE  k \in 0..1 /\ ToGrayFinds(q, k + 1, byte, next)
<1>1. ToRest(p, k, old) /\ ToIdle(p, k)
  BY DEF ToGray, ToOffer
<1>2. q.grayin = p.grayin /\ q.extlines = {}
  BY <1>1 DEF Writes, ToIdle
<1>3. ToRest(q, k + 1, next)
  BY <1>1, <1>2 DEF ToRest, ToIdle, Writes, Holds, Whole
<1>4. Cut(byte, <<>>, byte) /\ byte # <<>>
  BY CutStarts, ByteIs
<1>5. Between(q.grayin, Whole(q), byte, k + 1, byte)
  BY <1>1, <1>2, <1>4 DEF Between, ToIdle, Whole
<1>6. ToFree(q, k + 1, byte)
  BY <1>2, <1>5 DEF ToFree, Writes
<1>. QED  BY <1>1, <1>3, <1>6 DEF ToGrayFinds, ToIdle

\* The program behind the GrayLink takes the byte: it was the next to be taken.
LEMMA ToTakes ==
  ASSUME NEW p, NEW k, NEW new, NEW old, NEW q, NEW next,
         ToGray(p, k, new, old), Whole(p), Empties(p, q), Ledger(k - 1, new, next)
  PROVE  k \in 1..2 /\ p.grayin = old /\ ToGray(q, k - 1, new, next)
<1>1. /\ ToRest(p, k, old) /\ Ledger(k, new, old)
      /\ ToIdle(p, k) \/ ToOffer(p, k, new)
  BY DEF ToGray
<1>2. k \in 1..2 /\ p.grayin = old
  BY <1>1 DEF ToRest, Holds, Ledger
<1>3. ~Whole(q) /\ q.grayin = <<>>
  BY WholeBits DEF Empties, Whole
<1>4. ToRest(q, k - 1, next)
  BY <1>1, <1>3 DEF ToRest, Empties, Holds
<1>5. CASE ToIdle(p, k)
  <2>1. k - 1 = 0
    BY <1>5 DEF ToIdle
  <2>2. ToIdle(q, k - 1)
    BY <1>3, <1>5, <2>1 DEF ToIdle, Empties
  <2>. QED  BY <1>2, <1>4, <2>2 DEF ToGray
<1>6. CASE ToOffer(p, k, new)
  <2>1. PICK b \in Bit : p.lines = WireOf(b) /\ InFlight(p.grayin, Whole(p), b, p.assistout, k, new)
    BY <1>6 DEF ToOffer
  <2>2. k = 2 /\ k - 1 = 1 /\ CutAt(new, <<>>, b, p.assistout)
    BY <2>1 DEF InFlight
  <2>3. InFlight(q.grayin, Whole(q), b, q.assistout, k - 1, new)
    BY <1>3, <2>2 DEF InFlight, Empties
  <2>4. ToOffer(q, k - 1, new)
    BY <1>6, <2>1, <2>3 DEF ToOffer, Empties
  <2>. QED  BY <1>2, <1>3, <1>4, <2>4 DEF ToGray
<1>. QED  BY <1>1, <1>5, <1>6

\* An update of a GrayLink that sends, after an operation that moved no byte.
LEMMA FromLooks ==
  ASSUME NEW p, NEW k, NEW new, NEW old, NEW q, FromGray(p, k, new, old),
         Resembles(p, q) \/ (Empties(p, q) /\ p.extlines = {} /\ ~p.sending)
  PROVE  FromGrayFinds(q, k, new, old)
<1>1. /\ FromRest(p, k, old) /\ Ledger(k, new, old)
      /\ FromIdle(p, k) \/ FromOffer(p, k, new)
  BY DEF FromGray
<1>2. p.busy = "no"
  BY <1>1 DEF FromIdle, FromOffer
<1>3. FromRest(q, k, old)
  BY <1>1, <1>2 DEF FromRest, ReceiverRest, Resembles, Empties
<1>4. CASE Resembles(p, q)
  <2>1. FromIdle(q, k) \/ FromOffer(q, k, new)
    BY <1>1, <1>4 DEF FromIdle, FromOffer, Resembles
  <2>. QED  BY <1>1, <1>3, <2>1 DEF FromGrayFinds
<1>5. CASE Empties(p, q) /\ p.extlines = {} /\ ~p.sending
  <2>1. FromIdle(p, k)
    BY <1>1, <1>5 DEF FromOffer
  <2>2. FromIdle(q, k)
    BY <1>5, <2>1 DEF FromIdle, Empties
  <2>. QED  BY <1>1, <1>3, <2>2 DEF FromGrayFinds
<1>. QED  BY <1>4, <1>5

\* The GrayLink begins a byte.
LEMMA FromSends ==
  ASSUME NEW p, NEW k, NEW new, NEW old, NEW q, NEW byte \in Bytes, NEW next,
         FromGray(p, k, new, old), ~p.sending, Sends(p, q, byte),
         Ledger(k + 1, byte, next), k # 0 => next = old
  PROVE  k \in 0..1 /\ FromGrayFinds(q, k + 1, byte, next)
<1>1. FromRest(p, k, old) /\ FromIdle(p, k)
  BY DEF FromGray, FromOffer
<1>2. FromRest(q, k + 1, next)
  BY <1>1 DEF FromRest, ReceiverRest, FromIdle, Sends, Holds
<1>3. Cut(byte, <<>>, byte) /\ byte # <<>>
  BY CutStarts, ByteIs
<1>4. Between(q.assistin, q.gotByte, byte, k + 1, byte)
  BY <1>1, <1>3 DEF Between, FromIdle, Sends
<1>5. FromFree(q, k + 1, byte)
  BY <1>1, <1>3, <1>4 DEF FromFree, FromIdle, Sends
<1>. QED  BY <1>1, <1>2, <1>5 DEF FromGrayFinds, FromIdle

\* Software takes the byte from the calculator: it was the next to be taken.
LEMMA FromGives ==
  ASSUME NEW p, NEW k, NEW new, NEW old, NEW q, NEW next,
         FromGray(p, k, new, old), p.gotByte, Gives(p, q), Ledger(k - 1, new, next)
  PROVE  k \in 1..2 /\ p.assistin = old /\ FromGrayFinds(q, k - 1, new, next)
<1>1. /\ FromRest(p, k, old) /\ Ledger(k, new, old)
      /\ FromIdle(p, k) \/ FromOffer(p, k, new)
  BY DEF FromGray
<1>2. k \in 1..2 /\ p.assistin = old
  BY <1>1 DEF FromRest, ReceiverRest, Holds, Ledger
<1>3. FromRest(q, k - 1, next)
  BY <1>1 DEF FromRest, ReceiverRest, Gives, Holds
<1>4. CASE FromIdle(p, k)
  <2>1. k - 1 = 0
    BY <1>4 DEF FromIdle
  <2>2. FromIdle(q, k - 1)
    BY <1>4, <2>1 DEF FromIdle, Gives
  <2>. QED  BY <1>2, <1>3, <2>2 DEF FromGrayFinds
<1>5. CASE FromOffer(p, k, new)
  <2>1. PICK b \in Bit : p.extlines = WireOf(b) /\ InFlight(p.assistin, p.gotByte, b, p.grayout, k, new)
    BY <1>5 DEF FromOffer
  <2>2. k = 2 /\ k - 1 = 1 /\ CutAt(new, <<>>, b, p.grayout)
    BY <2>1 DEF InFlight
  <2>3. InFlight(q.assistin, q.gotByte, b, q.grayout, k - 1, new)
    BY <2>2 DEF InFlight, Gives
  <2>4. FromOffer(q, k - 1, new)
    BY <1>5, <2>1, <2>3 DEF FromOffer, Gives
  <2>. QED  BY <1>2, <1>3, <2>4 DEF FromGrayFinds
<1>. QED  BY <1>1, <1>4, <1>5

-----------------------------------------------------------------------------
(* The ports that the operations hand to the bus.                          *)

\* readByte forgets the byte, and a byte that was coming in.
LEMMA ReadPre ==
  ASSUME NEW p, Sound(p)
  PROVE  LET q == [p EXCEPT !.gotByte = FALSE, !.assistin = <<>>,
                            !.busy = IF @ = "read" THEN "no" ELSE @]
         IN  /\ Sound(q)
             /\ p.busy # "read" => Gives(p, q)
             /\ p.busy # "read" /\ ~p.gotByte /\ p.assistin = <<>> => Resembles(p, q)
<1>. DEFINE no == FALSE
            none == <<>>
            busy == IF p.busy = "read" THEN "no" ELSE p.busy
            q == [p EXCEPT !.gotByte = no, !.assistin = none, !.busy = busy]
<1>1. p \in Port /\ p.gotByte \in BOOLEAN
  BY Typed DEF Sound
<1>2. no \in BOOLEAN /\ ~no /\ none \in Seq({0, 1}) /\ Len(none) = 0 /\ busy \in {"no", "read", "write"}
      /\ (p.busy # "read" => busy = p.busy)
  BY <1>1, Typed
<1>3. Len(none) <= Bits /\ ~(Len(none) >= Bits)
  BY <1>2, LinkAssumption
<1>4. [p EXCEPT !.gotByte = FALSE, !.assistin = <<>>,
                            !.busy = IF @ = "read" THEN "no" ELSE @] = q
  BY <1>1 DEF Port
<1>. HIDE DEF no, busy
<1>5. none = <<>>
  OBVIOUS
<1>. HIDE DEF none
<1>6. q \in Port
  BY <1>1, <1>2 DEF Port
<1>7. q.gotByte = no /\ q.assistin = none /\ q.busy = busy
      /\ q.lines = p.lines /\ q.extlines = p.extlines /\ q.mode = p.mode /\ q.errors = p.errors
      /\ q.assistout = p.assistout /\ q.sending = p.sending /\ q.grayout = p.grayout
      /\ q.grayin = p.grayin
  BY <1>1 DEF Port
<1>. HIDE DEF q
<1>8. Sound(q)
  BY <1>2, <1>3, <1>6, <1>7 DEF Sound
<1>9. p.busy # "read" => Gives(p, q)
  BY <1>2, <1>5, <1>7, <1>8 DEF Gives
<1>10. p.busy # "read" /\ ~p.gotByte /\ p.assistin = <<>> => Resembles(p, q)
  <2>1. ~p.gotByte => q.gotByte = p.gotByte
    BY <1>1, <1>2, <1>7
  <2>. QED  BY <1>2, <1>5, <1>7, <1>8, <2>1 DEF Resembles
<1>. QED  BY <1>4, <1>8, <1>9, <1>10

\* writeByte begins a byte.
LEMMA WritePre ==
  ASSUME NEW p, Sound(p), NEW byte \in Bytes
  PROVE  Writes(p, [p EXCEPT !.lines = {}, !.assistout = byte, !.busy = "write"], byte)
<1>1. byte \in BitSequences /\ p \in Port
  BY ByteIs DEF Sound
<1>. DEFINE q == [p EXCEPT !.lines = {}, !.assistout = byte, !.busy = "write"]
<1>2. q \in Port /\ q.gotByte = p.gotByte /\ q.assistin = p.assistin /\ q.busy = "write"
      /\ q.lines = {} /\ q.extlines = p.extlines /\ q.mode = p.mode /\ q.errors = p.errors
      /\ q.assistout = byte /\ q.sending = p.sending /\ q.grayout = p.grayout
      /\ q.grayin = p.grayin
  BY <1>1 DEF Port
<1>. HIDE DEF q
<1>3. Writes(p, q, byte)
  BY <1>2 DEF Writes, Sound
<1>. QED  BY <1>3 DEF q

\* What setMode hands to the bus.
moded(p, mode) ==
  LET toggled == ("assist" \in mode) # ("assist" \in p.mode)
      q == IF toggled THEN clearTimeout([p EXCEPT !.lines = {}, !.busy = "no"])
           ELSE p
  IN  [q EXCEPT !.mode = mode, !.interrupts = @ \ ({"active", "error"} \ mode)]

\* setMode keeps all else, unless it turns the assist on or off.
LEMMA ModePre ==
  ASSUME NEW p, Sound(p), NEW mode \in SUBSET (Interrupts \cup {"assist"})
  PROVE  LET q == moded(p, mode)
             toggled == ("assist" \in mode) # ("assist" \in p.mode)
         IN  /\ Sound(q) /\ q.mode = mode
             /\ toggled => q.busy = "no"
             /\ ~toggled \/ (p.lines = {} /\ p.busy = "no") => Resembles(p, q)
<1>. DEFINE toggled == ("assist" \in mode) # ("assist" \in p.mode)
            x == [p EXCEPT !.lines = {}, !.busy = "no"]
            y == IF toggled THEN clearTimeout(x) ELSE p
            i == y.interrupts \ ({"active", "error"} \ mode)
            z == [y EXCEPT !.mode = mode, !.interrupts = i]
<1>1. p \in Port
  BY DEF Sound
<1>2. x \in Port /\ x.gotByte = p.gotByte /\ x.assistin = p.assistin /\ x.busy = "no"
      /\ x.lines = {} /\ x.extlines = p.extlines /\ x.errors = p.errors
      /\ x.assistout = p.assistout /\ x.sending = p.sending /\ x.grayout = p.grayout
      /\ x.grayin = p.grayin
  BY <1>1 DEF Port
<1>. HIDE DEF x
<1>3. clearTimeout(x) \in Port /\ Alike(x, clearTimeout(x))
  BY <1>2, TimerOnly DEF Alike, AssistRest
<1>4. y \in Port /\ y.gotByte = p.gotByte /\ y.assistin = p.assistin
      /\ y.extlines = p.extlines /\ y.errors = p.errors
      /\ y.assistout = p.assistout /\ y.sending = p.sending /\ y.grayout = p.grayout
      /\ y.grayin = p.grayin
      /\ (toggled => y.busy = "no" /\ y.lines = {})
      /\ (~toggled => y.busy = p.busy /\ y.lines = p.lines)
  BY <1>1, <1>2, <1>3 DEF Alike
<1>5. moded(p, mode) = z
  BY <1>1, <1>4 DEF moded, Port, x
<1>. HIDE DEF y
<1>6. i \in SUBSET Interrupts
  BY <1>4, Typed
<1>. HIDE DEF i
<1>7. z \in Port /\ z.gotByte = y.gotByte /\ z.assistin = y.assistin /\ z.busy = y.busy
      /\ z.lines = y.lines /\ z.extlines = y.extlines /\ z.errors = y.errors /\ z.mode = mode
      /\ z.assistout = y.assistout /\ z.sending = y.sending /\ z.grayout = y.grayout
      /\ z.grayin = y.grayin
  BY <1>4, <1>6 DEF Port
<1>. HIDE DEF z
<1>8. Sound(z)
  BY <1>4, <1>7 DEF Sound
<1>9. ~toggled \/ (p.lines = {} /\ p.busy = "no") => Resembles(p, z)
  BY <1>4, <1>7, <1>8 DEF Resembles
<1>10. Sound(z) /\ z.mode = mode /\ (toggled => z.busy = "no")
  BY <1>4, <1>7, <1>8
<1>. QED  BY <1>5, <1>9, <1>10

\* setLines does nothing that counts while the assist is on.
LEMMA SetLinesPre ==
  ASSUME NEW p, Sound(p), NEW wires \in SUBSET Wires
  PROVE  LET q == IF "assist" \notin p.mode /\ p.busy # "write" THEN setLines(p, wires) ELSE p
         IN  /\ Sound(q)
             /\ "assist" \in p.mode \/ (wires = {} /\ p.lines = {}) => Resembles(p, q) /\ q.mode = p.mode
<1>. DEFINE x == setLines(p, wires)
<1>1. p \in Port
  BY DEF Sound
<1>2. x \in Port /\ x.gotByte = p.gotByte /\ x.assistin = p.assistin /\ x.busy = p.busy
      /\ x.lines = wires /\ x.extlines = p.extlines /\ x.errors = p.errors /\ x.mode = p.mode
      /\ x.assistout = p.assistout /\ x.sending = p.sending /\ x.grayout = p.grayout
      /\ x.grayin = p.grayin
  BY <1>1 DEF Port, setLines
<1>. HIDE DEF x
<1>3. Sound(x)
  BY <1>2 DEF Sound
<1>4. Resembles(p, p)
  BY DEF Resembles
<1>5. p.lines = {} /\ wires = {} => Resembles(p, x)
  BY <1>2, <1>3 DEF Resembles
<1>. QED  BY <1>2, <1>3, <1>4, <1>5 DEF x

\* The frontend sets the wires from outside.
LEMMA HearPre ==
  ASSUME NEW p, Sound(p), NEW wires \in SUBSET Wires
  PROVE  Hears(p, setExtLines(p, wires), wires)
<1>1. p \in Port
  BY DEF Sound
<1>. DEFINE q == setExtLines(p, wires)
<1>2. q \in Port /\ q.extlines = wires /\ GrayRest(p, q)
      /\ q.sending = p.sending /\ q.grayout = p.grayout /\ q.grayin = p.grayin
  BY <1>1, ExtLines
<1>. HIDE DEF q
<1>3. Hears(p, q, wires)
  BY <1>2 DEF Hears, GrayRest, Sound
<1>. QED  BY <1>3 DEF q

\* The GrayLink begins a byte, and lets the lines go.
LEMMA SendPre ==
  ASSUME NEW p, Sound(p), NEW byte \in Bytes
  PROVE  Sends(p, [setExtLines(p, {}) EXCEPT !.sending = TRUE, !.grayout = byte], byte)
<1>. DEFINE yes == TRUE
            x == setExtLines(p, {})
            q == [x EXCEPT !.sending = yes, !.grayout = byte]
<1>1. byte \in BitSequences /\ yes \in BOOLEAN /\ yes /\ {} \in SUBSET Wires
  BY ByteIs
<1>. HIDE DEF yes, x
<1>2. Hears(p, x, {})
  BY <1>1, HearPre DEF x
<1>3. x \in Port
  BY <1>2 DEF Hears, Sound
<1>4. q \in Port /\ q.gotByte = x.gotByte /\ q.assistin = x.assistin /\ q.busy = x.busy
      /\ q.lines = x.lines /\ q.extlines = x.extlines /\ q.mode = x.mode /\ q.errors = x.errors
      /\ q.assistout = x.assistout /\ q.sending = yes /\ q.grayout = byte
      /\ q.grayin = x.grayin
  BY <1>1, <1>3 DEF Port
<1>. HIDE DEF q
<1>5. Sends(p, q, byte)
  BY <1>1, <1>2, <1>4 DEF Hears, Sends, Sound
<1>. QED  BY <1>5 DEF q, x, yes

\* graylink_reset, and graylink_get_byte, empty the GrayLink.
LEMMA EmptyPre ==
  ASSUME NEW p, Sound(p)
  PROVE  /\ Empties(p, [setExtLines(p, {}) EXCEPT !.sending = FALSE, !.grayout = <<>>, !.grayin = <<>>])
         /\ Sound([p EXCEPT !.grayin = <<>>])
         /\ p.extlines = {} /\ ~p.sending => Empties(p, [p EXCEPT !.grayin = <<>>])
<1>. DEFINE no == FALSE
            none == <<>>
            x == setExtLines(p, {})
            q == [x EXCEPT !.sending = no, !.grayout = none, !.grayin = none]
            r == [p EXCEPT !.grayin = none]
<1>1. none \in BitSequences /\ no \in BOOLEAN /\ ~no /\ {} \in SUBSET Wires /\ none = <<>> /\ p \in Port
  BY EmptyBits DEF Sound
<1>. HIDE DEF no, none, x
<1>2. Hears(p, x, {})
  BY <1>1, HearPre DEF x
<1>3. x \in Port
  BY <1>2 DEF Hears, Sound
<1>4. q \in Port /\ q.gotByte = x.gotByte /\ q.assistin = x.assistin /\ q.busy = x.busy
      /\ q.lines = x.lines /\ q.extlines = x.extlines /\ q.mode = x.mode /\ q.errors = x.errors
      /\ q.assistout = x.assistout /\ q.sending = no
      /\ q.grayin = none
  BY <1>1, <1>3 DEF Port
<1>5. r \in Port /\ r.gotByte = p.gotByte /\ r.assistin = p.assistin /\ r.busy = p.busy
      /\ r.lines = p.lines /\ r.extlines = p.extlines /\ r.mode = p.mode /\ r.errors = p.errors
      /\ r.assistout = p.assistout /\ r.sending = p.sending
      /\ r.grayin = none
  BY <1>1 DEF Port
<1>. HIDE DEF q, r
<1>6. Empties(p, q)
  BY <1>1, <1>2, <1>4 DEF Hears, Empties, Sound
<1>7. Sound(r)
  BY <1>5 DEF Sound
<1>8. p.extlines = {} /\ ~p.sending => Empties(p, r)
  BY <1>1, <1>5, <1>7 DEF Empties
<1>. QED  BY <1>6, <1>7, <1>8 DEF q, r, x, no, none

\* A quiet port is sound.
LEMMA QuietSound == Sound(QuietPort) /\ QuietPort.errors = {}
<1>. DEFINE no == FALSE
            none == <<>>
            q == [lines |-> {}, extlines |-> {}, mode |-> {}, interrupts |-> {}, busy |-> "no",
                  gotByte |-> no, errors |-> {}, timer |-> no, assistin |-> none,
                  assistout |-> none, sending |-> no, grayout |-> none, grayin |-> none]
<1>1. QuietPort = q
  BY DEF QuietPort
<1>2. none \in BitSequences /\ no \in BOOLEAN /\ none \in Seq({0, 1}) /\ Len(none) = 0
  BY EmptyBits
<1>3. Len(none) <= Bits /\ ~(Len(none) >= Bits)
  BY <1>2, LinkAssumption
<1>. HIDE DEF no, none
<1>4. q \in Port /\ q.assistin = none /\ q.errors = {}
  BY <1>2 DEF Port
<1>. HIDE DEF q
<1>. QED  BY <1>1, <1>3, <1>4 DEF Sound

\* A reset leaves a sound port sound.
LEMMA ResetSound ==
  ASSUME NEW p, Sound(p)
  PROVE  Sound(reset(p))
<1>1. p \in Port /\ QuietPort \in Port
  BY QuietSound DEF Sound
<1>2. reset(p) \in Port /\ reset(p).assistin = QuietPort.assistin /\ reset(p).gotByte = QuietPort.gotByte
  BY <1>1 DEF reset, Port
<1>. QED  BY <1>2, QuietSound DEF Sound

\* The timer of the assist flags an error, or does nothing that counts.
LEMMA TimeoutPre ==
  ASSUME NEW p, Sound(p)
  PROVE  LET q == [assistTimer(p) EXCEPT !.timer = FALSE]
         IN  /\ Sound(q)
             /\ p.busy = "no" => Alike(p, q)
             /\ p.busy # "no" => q.errors # {}
<1>. DEFINE no == FALSE
            f == failed(p, p.busy)
            i == IF "error" \in f.mode THEN f.interrupts \cup {"error"} ELSE f.interrupts
            t == [f EXCEPT !.interrupts = i]
            u == assistTimer(p)
            q == [u EXCEPT !.timer = no]
<1>1. p \in Port /\ no \in BOOLEAN
  BY DEF Sound
<1>2. CASE p.busy = "no"
  <2>1. u = p
    BY <1>2 DEF assistTimer
  <2>. HIDE DEF no, u
  <2>2. q \in Port /\ Alike(p, q)
    BY <1>1, <2>1 DEF Port, Alike
  <2>. HIDE DEF q
  <2>3. Sound(q)
    BY <2>2 DEF Sound, Alike
  <2>. QED  BY <1>2, <2>2, <2>3 DEF q, u, no
<1>3. CASE p.busy # "no"
  <2>1. u = t
    BY <1>3 DEF assistTimer, interrupt
  <2>2. p.busy \in {"read", "write"}
    BY <1>1, <1>3, Typed
  <2>3. f \in Port /\ f.errors = p.errors \cup {p.busy} /\ f.assistin = p.assistin /\ f.gotByte = p.gotByte
    BY <1>1, <2>2 DEF failed, Port
  <2>. HIDE DEF f, no
  <2>4. i \in SUBSET Interrupts
    BY <2>3, Typed DEF Interrupts
  <2>. HIDE DEF i
  <2>5. t \in Port /\ t.errors = f.errors /\ t.assistin = f.assistin /\ t.gotByte = f.gotByte
    BY <2>3, <2>4 DEF Port
  <2>. HIDE DEF t, u
  <2>6. q \in Port /\ q.errors = t.errors /\ q.assistin = t.assistin /\ q.gotByte = t.gotByte
    BY <1>1, <2>1, <2>5 DEF Port
  <2>. HIDE DEF q
  <2>7. Sound(q) /\ q.errors # {}
    BY <2>3, <2>5, <2>6 DEF Sound
  <2>. QED  BY <1>3, <2>7 DEF q, u, no
<1>. QED  BY <1>2, <1>3

-----------------------------------------------------------------------------
(* The inductive invariant.                                                *)

\* The bytes that are written and not taken, the last that was written, and the
\* next to be taken.
Owed(w, t) == Len(w) - Len(t)
Newest(w) == w[Len(w)]
Oldest(w, t) == w[Len(t) + 1]

\* The ports are sound, and nobody uses the other end of a GrayLink.
PortsSound(f) ==
  /\ f \in [Ends -> Port] /\ \A end \in Ends : Sound(f[end])
  /\ cable # "black" => f["peer"] = QuietPort

\* Where a byte is while it is under way, for each cable.
KeptBy(f, w, t) ==
  /\ cable = "black" => Black(f["calc"], f["peer"], Owed(w, t), Newest(w), Oldest(w, t))
  /\ cable = "toGray" => ToGray(f["calc"], Owed(w, t), Newest(w), Oldest(w, t))
  /\ cable = "fromGray" => FromGray(f["calc"], Owed(w, t), Newest(w), Oldest(w, t))

\* That is so until somebody disturbs.
LinkInv ==
  /\ cable \in Cables /\ PortsSound(port)
  /\ written \in Seq(Bytes) /\ taken \in Seq(BitSequences) /\ disturbed \in BOOLEAN
  /\ ~disturbed => KeptBy(port, written, taken)

\* A step of the abstract link.
ByteStep == Cable!ByteLinkNext \/ UNCHANGED Cable!byteLinkVars

\* The ledger when a byte is written.
LEMMA WroteLedger ==
  ASSUME NEW w \in Seq(Bytes), NEW t \in Seq(BitSequences), NEW byte \in Bytes,
         Ledger(Owed(w, t), Newest(w), Oldest(w, t)), Owed(w, t) \in 0..1
  PROVE  LET v == Append(w, byte)
         IN  /\ v \in Seq(Bytes) /\ Owed(v, t) = Owed(w, t) + 1 /\ Newest(v) = byte
             /\ Owed(w, t) # 0 => Oldest(v, t) = Oldest(w, t)
             /\ Ledger(Owed(v, t), Newest(v), Oldest(v, t))
<1>. DEFINE v == Append(w, byte)
            m == Len(w)
            n == Len(t)
<1>1. m \in Nat /\ n \in Nat /\ v \in Seq(Bytes) /\ Len(v) = m + 1
      /\ v[m + 1] = byte /\ \A i \in 1..m : v[i] = w[i]
  BY LenProperties
<1>2. m - n \in 0..1
  BY DEF Owed
<1>3. Newest(v) = byte /\ Owed(v, t) = (m - n) + 1
  <2>. HIDE DEF v
  <2>. QED  BY <1>1, <1>2 DEF Owed, Newest
<1>4. CASE m - n = 0
  <2>1. n + 1 = m + 1
    BY <1>1, <1>4
  <2>2. Oldest(v, t) = byte
    BY <1>1, <2>1 DEF Oldest
  <2>3. Owed(v, t) = 1 /\ Owed(w, t) = 0
    BY <1>3, <1>4 DEF Owed
  <2>. QED  BY <1>1, <1>3, <2>2, <2>3 DEF Ledger
<1>5. CASE m - n = 1
  <2>1. n + 1 = m /\ m \in 1..m
    BY <1>1, <1>5
  <2>2. Oldest(v, t) = w[m] /\ Oldest(w, t) = w[m] /\ w[m] \in Bytes
    BY <1>1, <2>1, ElementOfSeq DEF Oldest
  <2>3. Owed(v, t) = 2 /\ Owed(w, t) = 1
    BY <1>3, <1>5 DEF Owed
  <2>. QED  BY <1>1, <1>3, <2>2, <2>3 DEF Ledger
<1>. QED  BY <1>1, <1>2, <1>4, <1>5

\* The ledger when a byte is taken.
LEMMA TookLedger ==
  ASSUME NEW w \in Seq(Bytes), NEW t \in Seq(BitSequences), NEW x \in BitSequences,
         Ledger(Owed(w, t), Newest(w), Oldest(w, t)), Owed(w, t) \in 1..2
  PROVE  LET v == Append(t, x)
         IN  /\ v \in Seq(BitSequences) /\ Owed(w, v) = Owed(w, t) - 1
             /\ Ledger(Owed(w, v), Newest(w), Oldest(w, v))
<1>. DEFINE v == Append(t, x)
            m == Len(w)
            n == Len(t)
<1>1. m \in Nat /\ n \in Nat /\ v \in Seq(BitSequences) /\ Len(v) = n + 1
  BY LenProperties
<1>2. m - n \in 1..2
  BY DEF Owed
<1>. HIDE DEF v
<1>3. Owed(w, v) = (m - n) - 1
  BY <1>1 DEF Owed
<1>4. CASE m - n = 1
  <2>1. Owed(w, v) = 0 /\ Owed(w, t) = 1
    BY <1>3, <1>4 DEF Owed
  <2>. QED  BY <1>1, <2>1 DEF Ledger, v
<1>5. CASE m - n = 2
  <2>1. Len(v) + 1 = m
    BY <1>1, <1>5
  <2>2. Oldest(w, v) = Newest(w)
    BY <2>1 DEF Oldest, Newest
  <2>3. Owed(w, v) = 1 /\ Owed(w, t) = 2
    BY <1>3, <1>5 DEF Owed
  <2>4. Newest(w) \in Bytes
    BY <2>3 DEF Ledger
  <2>. QED  BY <1>1, <2>2, <2>3, <2>4 DEF Ledger, v
<1>. QED  BY <1>2, <1>4, <1>5

\* The two ends.
LEMMA TwoEnds ==
  /\ Ends = {"calc", "peer"} /\ "calc" # "peer" /\ Other("calc") = "peer" /\ Other("peer") = "calc"
  /\ \A f : PortsSound(f) => Sound(f["calc"]) /\ Sound(f["peer"])
BY DEF Ends, Other, PortsSound

\* While a byte is where it should be, no error is flagged.
LEMMA NoErrors ==
  ASSUME cable \in Cables, NEW f, NEW w, NEW t, PortsSound(f), KeptBy(f, w, t)
  PROVE  \A end \in Ends : f[end].errors = {}
<1>1. CASE cable = "black"
  BY <1>1, TwoEnds DEF KeptBy, Black, SenderRest, ReceiverRest
<1>2. CASE cable = "toGray"
  BY <1>2, TwoEnds, QuietSound DEF KeptBy, ToGray, ToRest, PortsSound
<1>3. CASE cable = "fromGray"
  BY <1>3, TwoEnds, QuietSound DEF KeptBy, FromGray, FromRest, ReceiverRest, PortsSound
<1>. QED  BY <1>1, <1>2, <1>3 DEF Cables

\* At most two bytes are under way.
LEMMA KeptLedger ==
  ASSUME LinkInv, ~disturbed
  PROVE  Ledger(Owed(written, taken), Newest(written), Oldest(written, taken))
BY DEF LinkInv, Cables, KeptBy, Black, ToGray, FromGray

\* A step that moves no byte from one hand to another.
LEMMA NoneMoves ==
  ASSUME LinkInv, cable' = cable, PortsSound(port'), written' = written, taken' = taken,
         NEW x \in BOOLEAN, Record(x), ~disturbed /\ ~x => KeptBy(port', written, taken)
  PROVE  LinkInv' /\ ByteStep
<1>1. disturbed \in BOOLEAN /\ cable \in Cables
  BY DEF LinkInv
<1>2. disturbed' = (disturbed \/ x \/ \E end \in Ends : port'[end].errors # {})
  BY DEF Record
<1>3. disturbed' \in BOOLEAN
  BY <1>2
<1>4. (PortsSound(port))'
  BY DEF PortsSound
<1>5. CASE disturbed
  <2>1. disturbed' /\ disturbed' = disturbed
    BY <1>1, <1>2, <1>3, <1>5
  <2>. QED  BY <1>3, <1>4, <2>1 DEF LinkInv, ByteStep, Cable!byteLinkVars
<1>6. CASE ~disturbed /\ x
  <2>1. disturbed' = TRUE
    BY <1>2, <1>6
  <2>. QED  BY <1>4, <1>6, <2>1 DEF LinkInv, ByteStep, Cable!ByteLinkNext, Cable!Disturb
<1>7. CASE ~disturbed /\ ~x
  <2>1. KeptBy(port', written, taken)
    BY <1>7
  <2>2. \A end \in Ends : port'[end].errors = {}
    BY <1>1, <2>1, NoErrors
  <2>3. disturbed' = disturbed
    BY <1>1, <1>2, <1>3, <1>7, <2>2
  <2>4. (KeptBy(port, written, taken))'
    BY <2>1 DEF KeptBy
  <2>. QED  BY <1>3, <1>4, <2>3, <2>4 DEF LinkInv, ByteStep, Cable!byteLinkVars
<1>. QED  BY <1>1, <1>5, <1>6, <1>7

\* A byte is written.
LEMMA OneWritten ==
  ASSUME LinkInv, ~disturbed, cable' = cable, PortsSound(port'), NEW byte \in Bytes,
         written' = Append(written, byte), taken' = taken, Record(FALSE),
         Owed(written, taken) \in 0..1, KeptBy(port', written', taken)
  PROVE  LinkInv' /\ ByteStep
<1>1. disturbed \in BOOLEAN /\ cable \in Cables /\ written \in Seq(Bytes) /\ taken \in Seq(BitSequences)
  BY DEF LinkInv
<1>2. disturbed' = (disturbed \/ FALSE \/ \E end \in Ends : port'[end].errors # {})
  BY DEF Record
<1>3. \A end \in Ends : port'[end].errors = {}
  BY <1>1, NoErrors
<1>4. disturbed' = disturbed /\ disturbed' \in BOOLEAN
  BY <1>1, <1>2, <1>3
<1>5. (PortsSound(port))' /\ (KeptBy(port, written, taken))'
  BY DEF PortsSound, KeptBy
<1>6. written' \in Seq(Bytes)
  BY <1>1, KeptLedger, WroteLedger
<1>7. LinkInv'
  BY <1>1, <1>4, <1>5, <1>6 DEF LinkInv
<1>8. Len(written) - Len(taken) < 2
  BY DEF Owed
<1>9. Cable!Write
  BY <1>4, <1>8 DEF Cable!Write
<1>. QED  BY <1>7, <1>9 DEF ByteStep, Cable!ByteLinkNext

\* A byte is taken.
LEMMA OneTaken ==
  ASSUME LinkInv, ~disturbed, cable' = cable, PortsSound(port'), NEW x \in BitSequences,
         x = Oldest(written, taken),
         taken' = Append(taken, x), written' = written, Record(FALSE),
         Owed(written, taken) \in 1..2, KeptBy(port', written, taken')
  PROVE  LinkInv' /\ ByteStep
<1>1. disturbed \in BOOLEAN /\ cable \in Cables /\ written \in Seq(Bytes) /\ taken \in Seq(BitSequences)
  BY DEF LinkInv
<1>2. disturbed' = (disturbed \/ FALSE \/ \E end \in Ends : port'[end].errors # {})
  BY DEF Record
<1>3. \A end \in Ends : port'[end].errors = {}
  BY <1>1, NoErrors
<1>4. disturbed' = disturbed /\ disturbed' \in BOOLEAN
  BY <1>1, <1>2, <1>3
<1>5. (PortsSound(port))' /\ (KeptBy(port, written, taken))'
  BY DEF PortsSound, KeptBy
<1>6. taken' \in Seq(BitSequences)
  BY <1>1, KeptLedger, TookLedger
<1>7. LinkInv'
  BY <1>1, <1>4, <1>5, <1>6 DEF LinkInv
<1>8. Len(taken) < Len(written)
  <2>1. Len(written) \in Nat /\ Len(taken) \in Nat
    BY <1>1, LenProperties
  <2>. QED  BY <2>1 DEF Owed
<1>9. Cable!Take
  BY <1>4, <1>8 DEF Cable!Take, Oldest
<1>. QED  BY <1>7, <1>9 DEF ByteStep, Cable!ByteLinkNext

-----------------------------------------------------------------------------
(* The ends of the cable while nothing disturbs.                           *)

\* What a calculator is not in the middle of.
LEMMA CalcFacts ==
  ASSUME LinkInv, ~disturbed
  PROVE  LET p == port["calc"]
         IN  /\ p.busy \in {"no", "write"} /\ (p.busy = "no" => p.lines = {})
             /\ cable = "fromGray" => p.busy = "no"
             /\ cable # "fromGray" => ~p.gotByte
             /\ ~p.gotByte => p.assistin = <<>>
<1>. DEFINE p == port["calc"]
<1>1. p.busy \in {"no", "read", "write"} /\ p.gotByte \in BOOLEAN
  BY TwoEnds, Typed DEF LinkInv, Sound
<1>2. CASE cable = "black"
  <2>1. SenderRest(p) /\ (p.busy = "no" => p.lines = {})
    BY <1>2 DEF LinkInv, KeptBy, Black, BlackRest, AtOffer, AtAnswer, AtFinish, Free
  <2>. QED  BY <1>1, <1>2, <2>1 DEF SenderRest
<1>3. CASE cable = "toGray"
  <2>1. ToRest(p, Owed(written, taken), Oldest(written, taken)) /\ (p.busy = "no" => p.lines = {})
    BY <1>3 DEF LinkInv, KeptBy, ToGray, ToIdle, ToOffer
  <2>. QED  BY <1>1, <1>3, <2>1 DEF ToRest
<1>4. CASE cable = "fromGray"
  <2>1. /\ FromRest(p, Owed(written, taken), Oldest(written, taken))
        /\ p.busy = "no" /\ p.lines = {}
    BY <1>4 DEF LinkInv, KeptBy, FromGray, FromIdle, FromOffer
  <2>. QED  BY <1>1, <1>4, <2>1 DEF FromRest, ReceiverRest
<1>. QED  BY <1>2, <1>3, <1>4 DEF LinkInv, Cables

\* What the other calculator is not in the middle of.
LEMMA PeerFacts ==
  ASSUME LinkInv, ~disturbed, cable = "black"
  PROVE  LET p == port["peer"]
         IN  /\ p.busy \in {"no", "read"} /\ (p.busy = "no" => p.lines = {})
             /\ p.busy = "read" => "assist" \in p.mode /\ ~p.gotByte
             /\ p.busy # "read" /\ ~p.gotByte => p.assistin = <<>>
<1>. DEFINE p == port["peer"]
<1>1. p.busy \in {"no", "read", "write"} /\ p.gotByte \in BOOLEAN
  BY TwoEnds, Typed DEF LinkInv, Sound
<1>2. ReceiverRest(p, Owed(written, taken), Oldest(written, taken)) /\ (p.busy = "no" => p.lines = {})
  BY DEF LinkInv, KeptBy, Black, BlackRest, AtOffer, AtAnswer, AtFinish, Free, Offered, Finished
<1>. QED  BY <1>1, <1>2 DEF ReceiverRest

\* An end looks again at its wires.
LEMMA CalcBus ==
  ASSUME LinkInv, ~disturbed, NEW q, Resembles(port["calc"], q)
  PROVE  KeptBy([port EXCEPT !["calc"] = dbusUpdate(q)], written, taken)
<1>. DEFINE g == [port EXCEPT !["calc"] = dbusUpdate(q)]
            k == Owed(written, taken)
            new == Newest(written)
            old == Oldest(written, taken)
<1>1. g["calc"] = dbusUpdate(q) /\ g["peer"] = port["peer"]
  <2>1. Sound(dbusUpdate(q))
    BY BusSound DEF Resembles
  <2>2. PortsSound(port)
    BY DEF LinkInv
  <2>. QED  BY <2>1, <2>2, TwoEnds DEF PortsSound
<1>2. KeptBy(port, written, taken)
  BY DEF LinkInv
<1>. HIDE DEF g, k, new, old
<1>3. cable = "black" => Black(dbusUpdate(q), port["peer"], k, new, old)
  <2>1. SUFFICES ASSUME cable = "black" PROVE Black(dbusUpdate(q), port["peer"], k, new, old)
    OBVIOUS
  <2>2. Black(port["calc"], port["peer"], k, new, old)
    BY <1>2, <2>1 DEF KeptBy, k, new, old
  <2>3. SenderFinds(q, port["peer"], k, new, old)
    BY <2>2, SenderLooks
  <2>. QED  BY <2>1, <2>3, SenderBus
<1>4. cable = "toGray" => ToGray(dbusUpdate(q), k, new, old)
  <2>1. SUFFICES ASSUME cable = "toGray" PROVE ToGray(dbusUpdate(q), k, new, old)
    OBVIOUS
  <2>2. ToGray(port["calc"], k, new, old)
    BY <1>2, <2>1 DEF KeptBy, k, new, old
  <2>3. ToGrayFinds(q, k, new, old) /\ cable # "black"
    BY <2>1, <2>2, ToLooks
  <2>. QED  BY <2>3, ToGrayBus
<1>5. cable = "fromGray" => FromGray(dbusUpdate(q), k, new, old)
  <2>1. SUFFICES ASSUME cable = "fromGray" PROVE FromGray(dbusUpdate(q), k, new, old)
    OBVIOUS
  <2>2. FromGray(port["calc"], k, new, old)
    BY <1>2, <2>1 DEF KeptBy, k, new, old
  <2>3. FromGrayFinds(q, k, new, old) /\ cable # "black"
    BY <2>1, <2>2, FromLooks
  <2>. QED  BY <2>3, FromGrayBus
<1>6. KeptBy(g, written, taken)
  BY <1>1, <1>3, <1>4, <1>5 DEF KeptBy, k, new, old
<1>. QED  BY <1>6 DEF g

\* The other calculator looks again at its wires.
LEMMA PeerBus ==
  ASSUME LinkInv, ~disturbed, cable = "black", NEW q, Resembles(port["peer"], q),
         port["peer"].busy = "read" => "assist" \in q.mode
  PROVE  KeptBy([port EXCEPT !["peer"] = dbusUpdate(q)], written, taken)
<1>. DEFINE g == [port EXCEPT !["peer"] = dbusUpdate(q)]
            k == Owed(written, taken)
            new == Newest(written)
            old == Oldest(written, taken)
<1>1. g["peer"] = dbusUpdate(q) /\ g["calc"] = port["calc"]
  <2>1. Sound(dbusUpdate(q))
    BY BusSound DEF Resembles
  <2>2. PortsSound(port)
    BY DEF LinkInv
  <2>. QED  BY <2>1, <2>2, TwoEnds DEF PortsSound
<1>. HIDE DEF g, k, new, old
<1>2. Black(port["calc"], port["peer"], k, new, old)
  BY DEF LinkInv, KeptBy, k, new, old
<1>3. ReceiverFinds(port["calc"], q, k, new, old)
  BY <1>2, ReceiverLooks
<1>4. Black(port["calc"], dbusUpdate(q), k, new, old)
  BY <1>3, ReceiverBus
<1>5. KeptBy(g, written, taken)
  BY <1>1, <1>4 DEF KeptBy, k, new, old
<1>. QED  BY <1>5 DEF g

-----------------------------------------------------------------------------
(* The actions.                                                            *)

\* One port changes.
LEMMA SetAt ==
  ASSUME LinkInv, NEW end \in Ends, Ported(end), NEW q, Sound(q), port' = [port EXCEPT ![end] = q]
  PROVE  PortsSound(port') /\ port'[end] = q
<1>1. port \in [Ends -> Port] /\ (\A e \in Ends : Sound(port[e])) /\ q \in Port
      /\ (cable # "black" => port["peer"] = QuietPort /\ end = "calc")
  BY DEF LinkInv, PortsSound, Ported, Sound
<1>2. port' \in [Ends -> Port] /\ \A e \in Ends : port'[e] = IF e = end THEN q ELSE port[e]
  BY <1>1
<1>3. cable # "black" => port'["peer"] = QuietPort
  BY <1>1, <1>2, TwoEnds
<1>. QED  BY <1>1, <1>2, <1>3 DEF PortsSound

\* Each port is sound.
LEMMA SoundEnd ==
  ASSUME LinkInv, NEW end \in Ends
  PROVE  Sound(port[end])
BY DEF LinkInv, PortsSound

\* An update of the bus that moves no byte from one hand to another.
LEMMA Refreshes ==
  ASSUME LinkInv, NEW end \in Ends, Ported(end), NEW q, Sound(q),
         port' = [port EXCEPT ![end] = dbusUpdate(q)],
         cable' = cable, written' = written, taken' = taken,
         NEW x \in BOOLEAN, Record(x),
         ~disturbed /\ ~x => /\ Resembles(port[end], q)
                             /\ port[end].busy = "read" => "assist" \in q.mode
  PROVE  LinkInv' /\ ByteStep
<1>1. PortsSound(port')
  BY BusSound, SetAt
<1>2. ASSUME ~disturbed, ~x PROVE KeptBy(port', written, taken)
  <2>1. CASE end = "calc"
    BY <1>2, <2>1, CalcBus
  <2>2. CASE end = "peer"
    <3>1. cable = "black"
      BY <2>2 DEF Ported
    <3>. QED  BY <1>2, <2>2, <3>1, PeerBus
  <2>. QED  BY <2>1, <2>2, TwoEnds
<1>. QED  BY <1>1, <1>2, NoneMoves

\* Writing a byte, to the wires or in vain.
LEMMA WriteByteStep ==
  ASSUME LinkInv, NEW end \in Ends, Ported(end), Calm, NEW byte \in Bytes, WriteByte(end, byte)
  PROVE  LinkInv' /\ ByteStep
<1>. DEFINE p == port[end]
            q == [p EXCEPT !.lines = {}, !.assistout = byte, !.busy = "write"]
            clean == ~disturbed /\ end = "calc" /\ cable # "fromGray"
            unclean == ~clean
            g == [port EXCEPT !["calc"] = dbusUpdate(q)]
            k == Owed(written, taken)
            new == Newest(written)
            old == Oldest(written, taken)
            w == Append(written, byte)
            next == Oldest(w, taken)
<1>1. /\ p.busy = "no" /\ cable' = cable /\ taken' = taken
      /\ port' = [port EXCEPT ![end] = writeByte(p, byte)]
      /\ written' = (IF clean THEN w ELSE written)
      /\ Record(unclean)
  BY DEF WriteByte
<1>2. Sound(p) /\ Writes(p, q, byte)
  BY SoundEnd, WritePre
<1>3. writeByte(p, byte) = dbusUpdate(q)
  BY <1>1 DEF writeByte
<1>4. port' = [port EXCEPT ![end] = dbusUpdate(q)] /\ Sound(q)
  BY <1>1, <1>2, <1>3 DEF Writes
<1>. HIDE DEF q
<1>5. PortsSound(port') /\ Sound(dbusUpdate(q))
  BY <1>4, BusSound, SetAt
<1>6. CASE ~clean
  <2>1. written' = written /\ unclean \in BOOLEAN /\ unclean
    BY <1>1, <1>6
  <2>. HIDE DEF unclean
  <2>. QED  BY <1>1, <1>5, <2>1, NoneMoves
<1>7. CASE clean
  <2>1. ~disturbed /\ end = "calc" /\ cable # "fromGray" /\ written' = w /\ Record(FALSE) /\ ~unclean
    BY <1>1, <1>7
  <2>2. Ledger(k, new, old) /\ written \in Seq(Bytes) /\ taken \in Seq(BitSequences)
        /\ KeptBy(port, written, taken)
    BY <2>1, KeptLedger DEF LinkInv
  <2>3. port' = g /\ g["calc"] = dbusUpdate(q) /\ g["peer"] = port["peer"]
    BY <1>4, <1>5, <2>1, TwoEnds DEF LinkInv, PortsSound
  <2>4. k \in 0..1
    <3>1. CASE cable = "black"
      <4>1. Black(p, port["peer"], k, new, old)
        BY <2>1, <2>2, <3>1 DEF KeptBy
      <4>2. BlackRest(p, port["peer"], k)
        BY <1>1, <4>1 DEF Black, AtOffer, AtAnswer, AtFinish
      <4>. QED  BY <4>2 DEF BlackRest
    <3>2. CASE cable = "toGray"
      <4>1. ToGray(p, k, new, old)
        BY <2>1, <2>2, <3>2 DEF KeptBy
      <4>2. ToIdle(p, k)
        BY <1>1, <4>1 DEF ToGray, ToOffer
      <4>. QED  BY <4>2 DEF ToIdle
    <3>. QED  BY <2>1, <3>1, <3>2 DEF LinkInv, Cables
  <2>5. Owed(w, taken) = k + 1 /\ Newest(w) = byte /\ (k # 0 => next = old) /\ Ledger(k + 1, byte, next)
    BY <2>2, <2>4, WroteLedger
  <2>. HIDE DEF g, k, new, old, w, next, p
  <2>6. cable = "black" => Black(dbusUpdate(q), port["peer"], k + 1, byte, next)
    <3>1. SUFFICES ASSUME cable = "black" PROVE Black(dbusUpdate(q), port["peer"], k + 1, byte, next)
      OBVIOUS
    <3>2. Black(p, port["peer"], k, new, old)
      BY <2>1, <2>2, <3>1 DEF KeptBy, k, new, old, p
    <3>3. SenderFinds(q, port["peer"], k + 1, byte, next)
      BY <1>1, <1>2, <2>5, <3>2, SenderWrites
    <3>. QED  BY <3>1, <3>3, SenderBus
  <2>7. cable = "toGray" => ToGray(dbusUpdate(q), k + 1, byte, next)
    <3>1. SUFFICES ASSUME cable = "toGray" PROVE ToGray(dbusUpdate(q), k + 1, byte, next)
      OBVIOUS
    <3>2. ToGray(p, k, new, old)
      BY <2>1, <2>2, <3>1 DEF KeptBy, k, new, old, p
    <3>3. ToGrayFinds(q, k + 1, byte, next) /\ cable # "black"
      BY <1>1, <1>2, <2>5, <3>1, <3>2, ToWrites
    <3>. QED  BY <3>3, ToGrayBus
  <2>8. KeptBy(g, w, taken)
    BY <2>1, <2>3, <2>5, <2>6, <2>7 DEF KeptBy, next
  <2>9. KeptBy(port', written', taken)
    BY <2>1, <2>3, <2>8
  <2>. QED  BY <1>1, <1>5, <2>1, <2>4, <2>9, OneWritten DEF w, k
<1>. QED  BY <1>6, <1>7

\* Reading a byte, or what there is of one.
LEMMA ReadByteStep ==
  ASSUME LinkInv, NEW end \in Ends, Ported(end), ReadByte(end)
  PROVE  LinkInv' /\ ByteStep
<1>. DEFINE p == port[end]
            q == [p EXCEPT !.gotByte = FALSE, !.assistin = <<>>,
                            !.busy = IF @ = "read" THEN "no" ELSE @]
            x == p.busy = "read"
            g == [port EXCEPT ![end] = dbusUpdate(q)]
            k == Owed(written, taken)
            new == Newest(written)
            old == Oldest(written, taken)
            t == Append(taken, p.assistin)
            next == Oldest(written, t)
<1>1. /\ cable' = cable /\ written' = written /\ Record(x)
      /\ port' = [port EXCEPT ![end] = dbusUpdate(q)]
      /\ taken' = (IF p.gotByte /\ ~disturbed THEN t ELSE taken)
  BY DEF ReadByte, readByte
<1>2. /\ Sound(p) /\ Sound(q)
      /\ p.busy # "read" => Gives(p, q)
      /\ p.busy # "read" /\ ~p.gotByte /\ p.assistin = <<>> => Resembles(p, q)
  BY SoundEnd, ReadPre
<1>3. x \in BOOLEAN /\ (x <=> p.busy = "read")
  OBVIOUS
<1>. HIDE DEF q, x
<1>4. PortsSound(port') /\ Sound(dbusUpdate(q))
  BY <1>1, <1>2, BusSound, SetAt
<1>5. CASE ~(p.gotByte /\ ~disturbed)
  <2>1. taken' = taken
    BY <1>1, <1>5
  <2>2. ASSUME ~disturbed, ~x PROVE Resembles(p, q) /\ (p.busy = "read" => "assist" \in q.mode)
    <3>1. ~p.gotByte /\ p.busy # "read"
      BY <1>3, <1>5, <2>2
    <3>2. p.assistin = <<>>
      <4>1. CASE end = "calc"
        BY <2>2, <3>1, <4>1, CalcFacts
      <4>2. CASE end = "peer"
        <5>1. cable = "black"
          BY <4>2 DEF Ported
        <5>. QED  BY <2>2, <3>1, <4>2, <5>1, PeerFacts
      <4>. QED  BY <4>1, <4>2, TwoEnds
    <3>. QED  BY <1>2, <3>1, <3>2
  <2>. QED  BY <1>1, <1>2, <1>3, <2>1, <2>2, Refreshes
<1>6. CASE p.gotByte /\ ~disturbed
  <2>1. taken' = t
    BY <1>1, <1>6
  <2>2. Ledger(k, new, old) /\ written \in Seq(Bytes) /\ taken \in Seq(BitSequences)
        /\ KeptBy(port, written, taken)
    BY <1>6, KeptLedger DEF LinkInv
  <2>3. port' = g /\ g[end] = dbusUpdate(q) /\ g[Other(end)] = port[Other(end)]
    BY <1>1, TwoEnds DEF LinkInv, PortsSound
  <2>4. p.assistin \in BitSequences
    <3>1. p.assistin \in Seq(Bit) /\ Len(p.assistin) <= Bits
      BY <1>2, Typed DEF Sound
    <3>. QED  BY <3>1, BitsAre
  <2>5. \/ end = "peer" /\ cable = "black" /\ Black(port["calc"], p, k, new, old)
        \/ end = "calc" /\ cable = "fromGray" /\ FromGray(p, k, new, old)
    <3>1. CASE end = "peer"
      <4>1. cable = "black"
        BY <3>1 DEF Ported
      <4>. QED  BY <2>2, <3>1, <4>1 DEF KeptBy
    <3>2. CASE end = "calc"
      <4>1. cable = "fromGray"
        BY <1>6, <3>2, CalcFacts
      <4>. QED  BY <2>2, <3>2, <4>1 DEF KeptBy
    <3>. QED  BY <3>1, <3>2, TwoEnds
  <2>6. k \in 1..2 /\ p.assistin = old /\ p.busy # "read"
    <3>. HIDE DEF k, old
    <3>1. Holds(p.assistin, p.gotByte, k, old) /\ (p.busy = "read" => ~p.gotByte)
      BY <2>5 DEF Black, FromGray, FromRest, ReceiverRest
    <3>. QED  BY <1>6, <2>2, <3>1 DEF Holds, Ledger
  <2>7. Owed(written, t) = k - 1 /\ Ledger(k - 1, new, next)
    BY <2>2, <2>4, <2>6, TookLedger
  <2>8. Gives(p, q) /\ Record(FALSE)
    <3>1. x = FALSE
      BY <1>3, <2>6
    <3>. QED  BY <1>1, <1>2, <2>6, <3>1
  <2>. HIDE DEF g, k, new, old, t, next, p
  <2>9. CASE end = "peer" /\ cable = "black" /\ Black(port["calc"], p, k, new, old)
    <3>1. ReceiverFinds(port["calc"], q, k - 1, new, next)
      BY <1>6, <2>7, <2>8, <2>9, ReceiverGives
    <3>2. Black(port["calc"], dbusUpdate(q), k - 1, new, next)
      BY <2>9, <3>1, ReceiverBus
    <3>3. g["peer"] = dbusUpdate(q) /\ g["calc"] = port["calc"]
      BY <2>3, <2>9, TwoEnds
    <3>4. KeptBy(g, written, t)
      BY <2>7, <2>9, <3>2, <3>3 DEF KeptBy, new, next
    <3>. QED  BY <1>1, <1>4, <1>6, <2>1, <2>3, <2>4, <2>6, <2>8, <3>4, OneTaken DEF t, k, old
  <2>10. CASE end = "calc" /\ cable = "fromGray" /\ FromGray(p, k, new, old)
    <3>1. FromGrayFinds(q, k - 1, new, next) /\ cable # "black"
      BY <1>6, <2>7, <2>8, <2>10, FromGives
    <3>2. FromGray(dbusUpdate(q), k - 1, new, next)
      BY <3>1, FromGrayBus
    <3>3. g["calc"] = dbusUpdate(q)
      BY <2>3, <2>10
    <3>4. KeptBy(g, written, t)
      BY <2>7, <2>10, <3>2, <3>3 DEF KeptBy, new, next
    <3>. QED  BY <1>1, <1>4, <1>6, <2>1, <2>3, <2>4, <2>6, <2>8, <3>4, OneTaken DEF t, k, old
  <2>. QED  BY <2>5, <2>9, <2>10
<1>. QED  BY <1>5, <1>6

\* Setting the mode.
LEMMA SetModeStep ==
  ASSUME LinkInv, NEW end \in Ends, Ported(end), NEW mode \in Modes, SetMode(end, mode)
  PROVE  LinkInv' /\ ByteStep
<1>. DEFINE p == port[end]
            q == moded(p, mode)
            toggled == ("assist" \in mode) # ("assist" \in p.mode)
            x == p.busy # "no" /\ port'[end].busy # p.busy
<1>1. /\ cable' = cable /\ written' = written /\ taken' = taken /\ Record(x)
      /\ port' = [port EXCEPT ![end] = dbusUpdate(q)]
  BY DEF SetMode, setMode, moded
<1>2. mode \in SUBSET (Interrupts \cup {"assist"})
  BY LinkAssumption
<1>3. /\ Sound(p) /\ Sound(q) /\ q.mode = mode
      /\ toggled => q.busy = "no"
      /\ ~toggled \/ (p.lines = {} /\ p.busy = "no") => Resembles(p, q)
  BY <1>2, SoundEnd, ModePre
<1>. HIDE DEF q
<1>4. PortsSound(port') /\ port'[end] = dbusUpdate(q)
  BY <1>1, <1>3, BusSound, SetAt
<1>5. x \in BOOLEAN /\ (x <=> p.busy # "no" /\ dbusUpdate(q).busy # p.busy)
  BY <1>4
<1>. HIDE DEF x
<1>6. ASSUME ~disturbed, ~x PROVE Resembles(p, q) /\ (p.busy = "read" => "assist" \in q.mode)
  <2>1. CASE end = "calc"
    <3>1. p.busy \in {"no", "write"} /\ (p.busy = "no" => p.lines = {})
      BY <1>6, <2>1, CalcFacts
    <3>2. CASE toggled
      <4>1. dbusUpdate(q).busy # "write"
        BY <1>3, <3>2, BusSound
      <4>2. p.busy = "no"
        BY <1>5, <1>6, <3>1, <4>1
      <4>. QED  BY <1>3, <3>1, <4>2
    <3>3. CASE ~toggled
      BY <1>3, <3>1, <3>3
    <3>. QED  BY <3>2, <3>3
  <2>2. CASE end = "peer"
    <3>0. cable = "black"
      BY <2>2 DEF Ported
    <3>1. p.busy \in {"no", "read"} /\ (p.busy = "no" => p.lines = {})
          /\ (p.busy = "read" => "assist" \in p.mode)
      BY <1>6, <2>2, <3>0, PeerFacts
    <3>2. CASE toggled /\ p.busy = "read"
      <4>1. "assist" \notin q.mode /\ q.busy = "no"
        BY <1>3, <3>1, <3>2
      <4>2. dbusUpdate(q).busy = "no"
        BY <1>3, <4>1, BusSound
      <4>. QED  BY <1>5, <1>6, <3>2, <4>2
    <3>3. CASE p.busy = "no"
      BY <1>3, <3>1, <3>3
    <3>4. CASE ~toggled
      BY <1>3, <3>1, <3>4
    <3>. QED  BY <3>1, <3>2, <3>3, <3>4
  <2>. QED  BY <2>1, <2>2, TwoEnds
<1>. QED  BY <1>1, <1>3, <1>5, <1>6, Refreshes

\* Setting the lines by hand.
LEMMA SetLinesStep ==
  ASSUME LinkInv, NEW end \in Ends, Ported(end), NEW wires \in SUBSET Wires, SetLines(end, wires)
  PROVE  LinkInv' /\ ByteStep
<1>. DEFINE p == port[end]
            q == IF "assist" \notin p.mode /\ p.busy # "write" THEN setLines(p, wires) ELSE p
            x == "assist" \notin p.mode /\ (wires # {} \/ p.lines # {})
<1>1. /\ cable' = cable /\ written' = written /\ taken' = taken /\ Record(x)
      /\ port' = [port EXCEPT ![end] = dbusUpdate(q)]
  BY DEF SetLines, portSetLines
<1>2. /\ Sound(p) /\ Sound(q)
      /\ "assist" \in p.mode \/ (wires = {} /\ p.lines = {}) => Resembles(p, q) /\ q.mode = p.mode
  BY SoundEnd, SetLinesPre
<1>3. x \in BOOLEAN /\ (~x => "assist" \in p.mode \/ (wires = {} /\ p.lines = {}))
  OBVIOUS
<1>. HIDE DEF q, x
<1>4. ASSUME ~disturbed, ~x PROVE Resembles(p, q) /\ (p.busy = "read" => "assist" \in q.mode)
  <2>1. Resembles(p, q) /\ q.mode = p.mode
    BY <1>2, <1>3, <1>4
  <2>2. p.busy = "read" => "assist" \in p.mode
    <3>1. CASE end = "calc"
      BY <1>4, <3>1, CalcFacts
    <3>2. CASE end = "peer"
      <4>1. cable = "black"
        BY <3>2 DEF Ported
      <4>. QED  BY <1>4, <3>2, <4>1, PeerFacts
    <3>. QED  BY <3>1, <3>2, TwoEnds
  <2>. QED  BY <2>1, <2>2
<1>. QED  BY <1>1, <1>2, <1>3, <1>4, Refreshes

\* Nothing is under way between ends at rest.
LEMMA QuietKept ==
  ASSUME NEW f, PortsSound(f), \A end \in Ends : Idle(f[end])
  PROVE  KeptBy(f, <<>>, <<>>)
<1>. DEFINE new == Newest(<<>>)
            old == Oldest(<<>>, <<>>)
            s == f["calc"]
            r == f["peer"]
<1>1. Owed(<<>>, <<>>) = 0
  BY DEF Owed
<1>2. Sound(s) /\ Sound(r) /\ Idle(s) /\ Idle(r)
  BY TwoEnds
<1>. HIDE DEF new, old, s, r
<1>3. Ledger(0, new, old)
  BY DEF Ledger
<1>4. Black(s, r, 0, new, old)
  <2>1. SenderRest(s) /\ ReceiverRest(r, 0, old) /\ BlackRest(s, r, 0)
    BY <1>2 DEF Idle, SenderRest, ReceiverRest, BlackRest, Free, Holds
  <2>. QED  BY <1>3, <2>1 DEF Black
<1>5. ToGray(s, 0, new, old)
  <2>1. ~Whole(s)
    BY <1>2, WholeBits DEF Idle, Whole
  <2>2. ToRest(s, 0, old) /\ ToIdle(s, 0)
    BY <1>2, <2>1 DEF Idle, ToRest, ToIdle, Holds
  <2>. QED  BY <1>3, <2>2 DEF ToGray
<1>6. FromGray(s, 0, new, old)
  <2>1. FromRest(s, 0, old) /\ FromIdle(s, 0)
    BY <1>2 DEF Idle, FromRest, ReceiverRest, FromIdle, Holds
  <2>. QED  BY <1>3, <2>1 DEF FromGray
<1>. QED  BY <1>1, <1>4, <1>5, <1>6 DEF KeptBy, new, old, s, r

\* Resetting an end.
LEMMA ResetPortStep ==
  ASSUME LinkInv, NEW end \in Ends, Ported(end), ResetPort(end)
  PROVE  LinkInv' /\ ByteStep
<1>. DEFINE p == port[end]
            yes == TRUE
<1>1. cable' = cable /\ port' = [port EXCEPT ![end] = reset(p)]
  BY DEF ResetPort
<1>2. PortsSound(port')
  BY <1>1, SoundEnd, ResetSound, SetAt
<1>3. CASE \A e \in Ends : Idle(port'[e])
  <2>1. written' = <<>> /\ taken' = <<>> /\ disturbed' = FALSE
    BY <1>3 DEF ResetPort
  <2>2. KeptBy(port', <<>>, <<>>)
    BY <1>2, <1>3, QuietKept
  <2>3. (PortsSound(port))' /\ (KeptBy(port, written, taken))'
    BY <1>1, <1>2, <2>1, <2>2 DEF PortsSound, KeptBy
  <2>4. written' \in Seq(Bytes) /\ taken' \in Seq(BitSequences)
    BY <2>1
  <2>5. disturbed' \in BOOLEAN /\ cable' \in Cables
    BY <1>1, <2>1 DEF LinkInv
  <2>6. LinkInv'
    BY <2>3, <2>4, <2>5 DEF LinkInv
  <2>. QED  BY <2>1, <2>6 DEF ByteStep, Cable!ByteLinkNext, Cable!Restart
<1>4. CASE ~(\A e \in Ends : Idle(port'[e]))
  <2>1. Record(TRUE) /\ written' = written /\ taken' = taken
    BY <1>4 DEF ResetPort
  <2>2. yes \in BOOLEAN /\ yes /\ Record(yes)
    BY <2>1
  <2>. HIDE DEF yes
  <2>. QED  BY <1>1, <1>2, <2>1, <2>2, NoneMoves
<1>. QED  BY <1>3, <1>4

\* The timer of an assist.
LEMMA AssistTimeoutStep ==
  ASSUME LinkInv, NEW end \in Ends, AssistTimeout(end)
  PROVE  LinkInv' /\ ByteStep
<1>. DEFINE p == port[end]
            q == [assistTimer(p) EXCEPT !.timer = FALSE]
            no == FALSE
<1>1. /\ p.timer /\ cable' = cable /\ written' = written /\ taken' = taken /\ Record(no)
      /\ port' = [port EXCEPT ![end] = q]
  BY DEF AssistTimeout
<1>2. Sound(p) /\ Sound(q) /\ (p.busy = "no" => Alike(p, q)) /\ (p.busy # "no" => q.errors # {})
  BY SoundEnd, TimeoutPre
<1>3. no \in BOOLEAN /\ ~no
  OBVIOUS
<1>4. Ported(end)
  <2>1. ~QuietPort.timer
    BY DEF QuietPort
  <2>. QED  BY <1>1, <2>1, TwoEnds DEF Ported, LinkInv, PortsSound
<1>. HIDE DEF q, no
<1>5. PortsSound(port') /\ port'[end] = q
  BY <1>1, <1>2, <1>4, SetAt
<1>6. CASE p.busy = "no"
  <2>1. ASSUME ~disturbed PROVE KeptBy(port', written, taken)
    <3>1. KeptBy(port, written, taken)
      BY <2>1 DEF LinkInv
    <3>2. Alike(p, q)
      BY <1>2, <1>6
    <3>3. port'["calc"] = (IF end = "calc" THEN q ELSE port["calc"])
          /\ port'["peer"] = (IF end = "peer" THEN q ELSE port["peer"])
      BY <1>1, TwoEnds DEF LinkInv, PortsSound
    <3>. HIDE DEF p
    <3>4. CASE end = "calc"
      <4>0. p = port["calc"] /\ port'["calc"] = q /\ port'["peer"] = port["peer"]
        BY <3>3, <3>4 DEF p
      <4>1. cable = "black" => Black(q, port["peer"], Owed(written, taken), Newest(written),
                                     Oldest(written, taken))
        BY <1>2, <3>1, <3>2, <4>0, AlikeBlack DEF KeptBy
      <4>2. cable = "toGray" => ToGray(q, Owed(written, taken), Newest(written), Oldest(written, taken))
        BY <1>2, <3>1, <3>2, <4>0, AlikeToGray DEF KeptBy
      <4>3. cable = "fromGray" => FromGray(q, Owed(written, taken), Newest(written), Oldest(written, taken))
        BY <1>2, <3>1, <3>2, <4>0, AlikeFromGray DEF KeptBy
      <4>. QED  BY <4>0, <4>1, <4>2, <4>3 DEF KeptBy
    <3>5. CASE end = "peer"
      <4>0. p = port["peer"] /\ port'["peer"] = q /\ port'["calc"] = port["calc"] /\ cable = "black"
        BY <1>4, <3>3, <3>5, TwoEnds DEF p, Ported
      <4>1. Black(port["calc"], q, Owed(written, taken), Newest(written), Oldest(written, taken))
        BY <1>2, <3>1, <3>2, <4>0, AlikeBlack DEF KeptBy
      <4>. QED  BY <4>0, <4>1 DEF KeptBy
    <3>. QED  BY <3>4, <3>5, TwoEnds
  <2>. QED  BY <1>1, <1>3, <1>5, <2>1, NoneMoves
<1>7. CASE p.busy # "no"
  <2>. DEFINE yes == TRUE
  <2>1. port'[end].errors # {}
    BY <1>2, <1>5, <1>7
  <2>2. Record(yes)
    BY <1>1, <2>1 DEF Record
  <2>3. yes \in BOOLEAN /\ yes
    OBVIOUS
  <2>. HIDE DEF yes
  <2>. QED  BY <1>1, <1>5, <2>2, <2>3, NoneMoves
<1>. QED  BY <1>6, <1>7

\* The frontend carries the state of the wires to an end, at any time.
LEMMA BlacklinkStep ==
  ASSUME LinkInv, NEW end \in Ends, blacklinkSetLines(end)
  PROVE  LinkInv' /\ ByteStep
<1>. DEFINE p == port[end]
            wires == port[Other(end)].lines
            q == setExtLines(p, wires)
            g == [port EXCEPT ![end] = dbusUpdate(q)]
            no == FALSE
            k == Owed(written, taken)
            new == Newest(written)
            old == Oldest(written, taken)
<1>1. /\ cable = "black" /\ cable' = cable /\ written' = written /\ taken' = taken
      /\ Record(no) /\ port' = g
  BY DEF blacklinkSetLines
<1>2. no \in BOOLEAN /\ Ported(end) /\ Other(end) \in Ends
  BY <1>1, TwoEnds DEF Ported
<1>3. wires \in SUBSET Wires
  <2>1. Sound(port[Other(end)])
    BY <1>2, SoundEnd
  <2>. QED  BY <2>1, Typed DEF Sound
<1>4. Sound(p) /\ Hears(p, q, wires)
  BY <1>3, SoundEnd, HearPre
<1>5. Sound(q)
  BY <1>4 DEF Hears
<1>6. port["calc"] = (IF end = "calc" THEN p ELSE port["calc"])
  OBVIOUS
<1>7. /\ g["calc"] = (IF end = "calc" THEN dbusUpdate(q) ELSE port["calc"])
      /\ g["peer"] = (IF end = "peer" THEN dbusUpdate(q) ELSE port["peer"])
  BY TwoEnds DEF LinkInv, PortsSound
<1>. HIDE DEF q, g, no, k, new, old
<1>8. PortsSound(port')
  BY <1>1, <1>2, <1>5, BusSound, SetAt DEF g
<1>9. ASSUME ~disturbed PROVE KeptBy(g, written, taken)
  <2>1. Black(port["calc"], port["peer"], k, new, old)
    BY <1>1, <1>9 DEF LinkInv, KeptBy, k, new, old
  <2>2. Black(g["calc"], g["peer"], k, new, old)
    <3>1. CASE end = "calc"
      <4>1. Hears(port["calc"], q, port["peer"].lines)
        BY <1>4, <3>1, TwoEnds
      <4>2. SenderFinds(q, port["peer"], k, new, old)
        BY <2>1, <4>1, SenderLooks
      <4>3. Black(dbusUpdate(q), port["peer"], k, new, old)
        BY <1>1, <4>2, SenderBus
      <4>. QED  BY <1>7, <3>1, <4>3
    <3>2. CASE end = "peer"
      <4>1. Hears(port["peer"], q, port["calc"].lines)
        BY <1>4, <3>2, TwoEnds
      <4>2. ReceiverFinds(port["calc"], q, k, new, old)
        BY <2>1, <4>1, ReceiverLooks
      <4>3. Black(port["calc"], dbusUpdate(q), k, new, old)
        BY <1>1, <4>2, ReceiverBus
      <4>. QED  BY <1>7, <3>2, <4>3
    <3>. QED  BY <3>1, <3>2, TwoEnds
  <2>. QED  BY <1>1, <2>2 DEF KeptBy, k, new, old
<1>. QED  BY <1>1, <1>2, <1>8, <1>9, NoneMoves

\* The port of the calculator at a GrayLink is refreshed from a port that the
\* bus may find.
LEMMA GrayKept ==
  ASSUME LinkInv, cable # "black", NEW d, Sound(d), NEW w, NEW t,
         cable = "toGray" => ToGray(d, Owed(w, t), Newest(w), Oldest(w, t)),
         cable = "fromGray" => FromGray(d, Owed(w, t), Newest(w), Oldest(w, t))
  PROVE  KeptBy([port EXCEPT !["calc"] = d], w, t)
<1>. DEFINE g == [port EXCEPT !["calc"] = d]
<1>1. g["calc"] = d
  BY TwoEnds DEF LinkInv, PortsSound
<1>. HIDE DEF g
<1>2. KeptBy(g, w, t)
  BY <1>1 DEF KeptBy
<1>. QED  BY <1>2 DEF g

\* The GrayLink begins a byte, at once or in vain.
LEMMA GraylinkSendStep ==
  ASSUME LinkInv, NEW byte \in Bytes, graylinkSendByte(byte)
  PROVE  LinkInv' /\ ByteStep
<1>. DEFINE p == port["calc"]
            q == [setExtLines(p, {}) EXCEPT !.sending = TRUE, !.grayout = byte]
            clean == ~disturbed /\ cable = "fromGray" /\ p.busy = "no"
            unclean == ~clean
            k == Owed(written, taken)
            new == Newest(written)
            old == Oldest(written, taken)
            w == Append(written, byte)
            next == Oldest(w, taken)
<1>1. /\ cable # "black" /\ cable' = cable /\ taken' = taken /\ graylinkReady(p)
      /\ port' = [port EXCEPT !["calc"] = dbusUpdate(q)]
      /\ written' = (IF clean THEN w ELSE written)
      /\ Record(unclean)
  BY DEF graylinkSendByte
<1>2. Sound(p) /\ Sends(p, q, byte) /\ Ported("calc") /\ "calc" \in Ends
  BY TwoEnds, SoundEnd, SendPre DEF Ported
<1>3. Sound(q)
  BY <1>2 DEF Sends
<1>. HIDE DEF q
<1>4. PortsSound(port') /\ Sound(dbusUpdate(q))
  BY <1>1, <1>2, <1>3, BusSound, SetAt
<1>5. CASE ~clean
  <2>1. written' = written /\ unclean \in BOOLEAN /\ unclean
    BY <1>1, <1>5
  <2>. HIDE DEF unclean
  <2>. QED  BY <1>1, <1>4, <2>1, NoneMoves
<1>6. CASE clean
  <2>1. ~disturbed /\ cable = "fromGray" /\ p.busy = "no" /\ written' = w /\ Record(FALSE)
    BY <1>1, <1>6
  <2>2. /\ Ledger(k, new, old) /\ written \in Seq(Bytes) /\ taken \in Seq(BitSequences)
        /\ FromGray(p, k, new, old)
    BY <2>1, KeptLedger DEF LinkInv, KeptBy
  <2>3. ~p.sending /\ p.grayin = <<>>
    BY <1>1 DEF graylinkReady
  <2>4. k \in 0..1
    <3>. HIDE DEF p, k, new, old
    <3>1. FromIdle(p, k)
      BY <2>2, <2>3 DEF FromGray, FromOffer
    <3>. QED  BY <3>1 DEF FromIdle
  <2>5. Owed(w, taken) = k + 1 /\ Newest(w) = byte /\ (k # 0 => next = old) /\ Ledger(k + 1, byte, next)
    BY <2>2, <2>4, WroteLedger
  <2>. HIDE DEF k, new, old, w, next, p
  <2>6. FromGrayFinds(q, k + 1, byte, next)
    BY <1>2, <2>2, <2>3, <2>5, FromSends
  <2>7. FromGray(dbusUpdate(q), k + 1, byte, next)
    BY <1>1, <2>6, FromGrayBus
  <2>8. KeptBy([port EXCEPT !["calc"] = dbusUpdate(q)], w, taken)
    BY <1>1, <1>4, <2>1, <2>5, <2>7, GrayKept DEF next
  <2>9. KeptBy(port', written', taken)
    BY <1>1, <2>1, <2>8
  <2>. QED  BY <1>1, <1>4, <2>1, <2>4, <2>9, OneWritten DEF w, k
<1>. QED  BY <1>5, <1>6

\* The program behind the GrayLink asks for a byte.
LEMMA GraylinkGetStep ==
  ASSUME LinkInv, graylinkGetByte
  PROVE  LinkInv' /\ ByteStep
<1>. DEFINE s == port["calc"]
            p == dbusUpdate(s)
            full == Len(p.grayin) = Bits
            r == [p EXCEPT !.grayin = <<>>]
            d == IF full THEN r ELSE p
            no == FALSE
            k == Owed(written, taken)
            new == Newest(written)
            old == Oldest(written, taken)
            t == Append(taken, p.grayin)
            next == Oldest(written, t)
<1>1. /\ cable # "black" /\ cable' = cable /\ written' = written
      /\ port' = [port EXCEPT !["calc"] = d]
      /\ taken' = (IF full /\ ~disturbed THEN t ELSE taken)
      /\ Record(no)
  BY DEF graylinkGetByte
<1>2. Sound(s) /\ Ported("calc") /\ "calc" \in Ends /\ no \in BOOLEAN
  BY TwoEnds, SoundEnd DEF Ported
<1>. HIDE DEF s
<1>3. Sound(p)
  BY <1>2, BusSound
<1>4. ~disturbed => KeptBy([port EXCEPT !["calc"] = p], written, taken)
  <2>1. Resembles(s, s)
    BY <1>2 DEF Resembles
  <2>. QED  BY <2>1, CalcBus DEF s
<1>. HIDE DEF p
<1>5. Sound(r) /\ (p.extlines = {} /\ ~p.sending => Empties(p, r))
  BY <1>3, EmptyPre
<1>. HIDE DEF r
<1>6. Sound(d)
  BY <1>3, <1>5
<1>7. PortsSound(port')
  BY <1>1, <1>2, <1>6, SetAt
<1>8. CASE ~(full /\ ~disturbed)
  <2>1. taken' = taken
    BY <1>1, <1>8
  <2>2. ~disturbed => KeptBy(port', written, taken)
    BY <1>1, <1>4, <1>8
  <2>. HIDE DEF no
  <2>. QED  BY <1>1, <1>2, <1>7, <2>1, <2>2, NoneMoves
<1>9. CASE full /\ ~disturbed
  <2>1. taken' = t /\ d = r /\ Whole(p) /\ Record(FALSE)
    BY <1>1, <1>9 DEF Whole
  <2>2. Ledger(k, new, old) /\ written \in Seq(Bytes) /\ taken \in Seq(BitSequences)
    BY <1>9, KeptLedger DEF LinkInv
  <2>3. /\ cable = "toGray" => ToGray(p, k, new, old)
        /\ cable = "fromGray" => FromGray(p, k, new, old)
    <3>. DEFINE g == [port EXCEPT !["calc"] = p]
    <3>1. g["calc"] = p
      BY TwoEnds DEF LinkInv, PortsSound
    <3>. HIDE DEF g
    <3>2. KeptBy(g, written, taken)
      BY <1>4, <1>9 DEF g
    <3>. QED  BY <3>1, <3>2 DEF KeptBy
  <2>. HIDE DEF k, new, old
  <2>4. cable = "toGray"
    <3>1. cable # "fromGray"
      BY <2>1, <2>3, WholeBits DEF FromGray, FromRest, Whole
    <3>. QED  BY <1>1, <3>1 DEF LinkInv, Cables
  <2>5. ToGray(p, k, new, old)
    BY <2>3, <2>4
  <2>6. p.extlines = {} /\ ~p.sending
    BY <2>5 DEF ToGray, ToRest, ToIdle, ToOffer
  <2>7. k \in 1..2 /\ p.grayin = old
    BY <2>1, <2>2, <2>5 DEF ToGray, ToRest, Holds, Ledger
  <2>8. p.grayin \in BitSequences
    BY <1>3, Typed DEF Sound
  <2>9. Owed(written, t) = k - 1 /\ Ledger(k - 1, new, next)
    BY <2>2, <2>7, <2>8, TookLedger DEF k, new, old
  <2>. HIDE DEF next, t
  <2>10. ToGray(r, k - 1, new, next)
    BY <1>5, <2>1, <2>5, <2>6, <2>9, ToTakes
  <2>11. KeptBy([port EXCEPT !["calc"] = r], written, t)
    BY <1>1, <1>5, <2>4, <2>9, <2>10, GrayKept DEF next, new
  <2>12. KeptBy(port', written, taken')
    BY <1>1, <2>1, <2>11
  <2>. QED  BY <1>1, <1>7, <1>9, <2>1, <2>7, <2>8, <2>12, OneTaken DEF t, k, old
<1>. QED  BY <1>8, <1>9

\* The GrayLink is reset.
LEMMA GraylinkResetStep ==
  ASSUME LinkInv, graylinkReset
  PROVE  LinkInv' /\ ByteStep
<1>. DEFINE p == port["calc"]
            q == [setExtLines(p, {}) EXCEPT !.sending = FALSE, !.grayout = <<>>, !.grayin = <<>>]
            x == ~Idle(p)
            k == Owed(written, taken)
            new == Newest(written)
            old == Oldest(written, taken)
<1>1. /\ cable # "black" /\ cable' = cable /\ written' = written /\ taken' = taken
      /\ port' = [port EXCEPT !["calc"] = dbusUpdate(q)]
      /\ Record(x)
  BY DEF graylinkReset
<1>2. Sound(p) /\ Empties(p, q) /\ Ported("calc") /\ "calc" \in Ends /\ x \in BOOLEAN
  BY TwoEnds, SoundEnd, EmptyPre DEF Ported
<1>. HIDE DEF q
<1>3. Sound(q)
  BY <1>2 DEF Empties
<1>4. PortsSound(port') /\ Sound(dbusUpdate(q))
  BY <1>1, <1>2, <1>3, BusSound, SetAt
<1>5. ASSUME ~disturbed, ~x PROVE KeptBy(port', written, taken)
  <2>1. p.extlines = {} /\ p.grayin = <<>> /\ ~p.sending
    BY <1>5 DEF Idle
  <2>2. /\ cable = "toGray" => ToGray(p, k, new, old)
        /\ cable = "fromGray" => FromGray(p, k, new, old)
    BY <1>5 DEF LinkInv, KeptBy
  <2>. HIDE DEF p, k, new, old
  <2>3. cable = "toGray" => ToGray(dbusUpdate(q), k, new, old)
    <3>1. ASSUME cable = "toGray" PROVE ToGrayFinds(q, k, new, old)
      BY <1>2, <2>1, <2>2, <3>1, ToLooks
    <3>. QED  BY <1>1, <3>1, ToGrayBus
  <2>4. cable = "fromGray" => FromGray(dbusUpdate(q), k, new, old)
    <3>1. ASSUME cable = "fromGray" PROVE FromGrayFinds(q, k, new, old)
      BY <1>2, <2>1, <2>2, <3>1, FromLooks
    <3>. QED  BY <1>1, <3>1, FromGrayBus
  <2>. QED  BY <1>1, <1>4, <2>3, <2>4, GrayKept DEF k, new, old
<1>. HIDE DEF x
<1>. QED  BY <1>1, <1>2, <1>4, <1>5, NoneMoves

\* A new port keeps the invariant, and is a start of the abstract link.
LEMMA LinkStarts == LinkInit => LinkInv /\ Cable!ByteLinkInit
<1>. SUFFICES ASSUME LinkInit PROVE LinkInv /\ Cable!ByteLinkInit
  OBVIOUS
<1>1. /\ cable \in Cables /\ port = [end \in Ends |-> QuietPort]
      /\ written = <<>> /\ taken = <<>> /\ disturbed = FALSE
  BY DEF LinkInit
<1>2. Sound(QuietPort) /\ QuietPort \in Port
  BY QuietSound DEF Sound
<1>3. PortsSound(port)
  BY <1>1, <1>2, TwoEnds DEF PortsSound
<1>4. Idle(QuietPort)
  BY DEF Idle, QuietPort
<1>5. KeptBy(port, <<>>, <<>>)
  BY <1>1, <1>3, <1>4, QuietKept
<1>6. written \in Seq(Bytes) /\ taken \in Seq(BitSequences)
  <2>1. written = <<>> /\ taken = <<>>
    BY <1>1
  <2>. QED  BY <2>1
<1>7. KeptBy(port, written, taken)
  BY <1>1, <1>5
<1>8. disturbed \in BOOLEAN /\ cable \in Cables
  BY <1>1
<1>9. LinkInv
  BY <1>3, <1>6, <1>7, <1>8 DEF LinkInv
<1>. QED  BY <1>1, <1>9 DEF Cable!ByteLinkInit

\* Every step keeps the invariant, and is a step of the abstract link or none.
LEMMA LinkStep == LinkInv /\ [LinkNext]_linkVars => LinkInv' /\ ByteStep
<1>. SUFFICES ASSUME LinkInv, [LinkNext]_linkVars PROVE LinkInv' /\ ByteStep
  OBVIOUS
<1>1. CASE UNCHANGED linkVars
  <2>1. /\ cable' = cable /\ port' = port /\ written' = written
        /\ taken' = taken /\ disturbed' = disturbed
    BY <1>1 DEF linkVars
  <2>2. (PortsSound(port))' /\ (~disturbed => KeptBy(port, written, taken))'
    BY <2>1 DEF LinkInv, PortsSound, KeptBy
  <2>. QED  BY <2>1, <2>2 DEF LinkInv, ByteStep, Cable!byteLinkVars
<1>2. ASSUME NEW end \in Ends, LinkSoftware(end) PROVE LinkInv' /\ ByteStep
  BY <1>2, WriteByteStep, ReadByteStep, SetModeStep, SetLinesStep, ResetPortStep DEF LinkSoftware
<1>3. ASSUME NEW end \in Ends, AssistTimeout(end) PROVE LinkInv' /\ ByteStep
  BY <1>3, AssistTimeoutStep
<1>4. CASE LinkCable
  BY <1>4, BlacklinkStep, GraylinkSendStep, GraylinkGetStep, GraylinkResetStep DEF LinkCable
<1>. QED  BY <1>1, <1>2, <1>3, <1>4 DEF LinkNext

\* The link port and its histories keep their types, and no assist collects more
\* bits than a byte has (dbus_update and all that calls it).
THEOREM LinkTypes == LinkSpec => []LinkTypeOK
<1>1. LinkInit => LinkInv
  BY LinkStarts
<1>2. LinkInv /\ [LinkNext]_linkVars => LinkInv'
  BY LinkStep
<1>3. LinkInv => LinkTypeOK
  <2>. SUFFICES ASSUME LinkInv PROVE LinkTypeOK
    OBVIOUS
  <2>1. \A end \in Ends : Len(port[end].assistin) <= Bits
    BY DEF LinkInv, PortsSound, Sound
  <2>. QED  BY <2>1 DEF LinkInv, PortsSound, LinkTypeOK
<1>. QED  BY <1>1, <1>2, <1>3, PTL DEF LinkSpec

\* When the sender is no longer busy and nothing disturbed, the receiver holds
\* the byte: both ends agree on where a byte ends, although each counts the bits
\* on its own (assist_update_write, bit_received and their GrayLink twins).
THEOREM LinkSentMeansReceived == LinkSpec => []SentMeansReceived
<1>1. LinkInit => LinkInv
  BY LinkStarts
<1>2. LinkInv /\ [LinkNext]_linkVars => LinkInv'
  BY LinkStep
<1>3. LinkInv => SentMeansReceived
  <2>. SUFFICES ASSUME LinkInv, ~disturbed, ~SenderBusy
                PROVE  Len(written) - Len(taken) = (IF Held THEN 1 ELSE 0)
    BY DEF SentMeansReceived
  <2>. DEFINE s == port["calc"]
              r == port["peer"]
              k == Owed(written, taken)
              new == Newest(written)
              old == Oldest(written, taken)
  <2>1. KeptBy(port, written, taken)
    BY DEF LinkInv
  <2>2. CASE cable = "black"
    <3>1. Black(s, r, k, new, old) /\ s.busy # "write"
      BY <2>1, <2>2 DEF KeptBy, SenderBusy
    <3>2. BlackRest(s, r, k)
      BY <3>1 DEF Black, AtOffer, AtAnswer, AtFinish, Free
    <3>3. Held <=> r.gotByte
      BY <2>2 DEF Held, Receiver
    <3>. QED  BY <3>1, <3>2, <3>3 DEF BlackRest, Owed
  <2>3. CASE cable = "toGray"
    <3>1. ToGray(s, k, new, old) /\ s.busy # "write"
      BY <2>1, <2>3 DEF KeptBy, SenderBusy
    <3>2. ToIdle(s, k)
      BY <3>1 DEF ToGray, ToOffer
    <3>3. Held <=> Whole(s)
      BY <2>3 DEF Held, Whole
    <3>. QED  BY <3>2, <3>3 DEF ToIdle, Owed
  <2>4. CASE cable = "fromGray"
    <3>1. FromGray(s, k, new, old) /\ ~s.sending
      BY <2>1, <2>4 DEF KeptBy, SenderBusy
    <3>2. FromIdle(s, k)
      BY <3>1 DEF FromGray, FromOffer
    <3>3. Held <=> s.gotByte
      BY <2>4 DEF Held, Receiver
    <3>. QED  BY <3>2, <3>3 DEF FromIdle, Owed
  <2>. QED  BY <2>2, <2>3, <2>4 DEF LinkInv, Cables
<1>. QED  BY <1>1, <1>2, <1>3, PTL DEF LinkSpec

\* The link port implements ByteLink: whatever the delays of the wires, each byte
\* written is taken once, in order and bit for bit, for as long as nobody disturbs
\* (link.c as a whole).
THEOREM LinkBytesMove == LinkSpec => LinkMovesBytes
<1>1. LinkInit => LinkInv /\ Cable!ByteLinkInit
  BY LinkStarts
<1>2. LinkInv /\ [LinkNext]_linkVars => LinkInv' /\ [Cable!ByteLinkNext]_(Cable!byteLinkVars)
  BY LinkStep DEF ByteStep
<1>. QED  BY <1>1, <1>2, PTL DEF LinkSpec, LinkMovesBytes, Cable!ByteLinkSafe
=============================================================================
