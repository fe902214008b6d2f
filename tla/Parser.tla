-------------------------------- MODULE Parser --------------------------------
(***************************************************************************)
(* The parser of yaft (apps/yaft/parse.c and push_esc of terminal.cpp): it *)
(* takes the bytes from the child one at a time, wherever the reads cut    *)
(* them, and makes characters of UTF-8, control characters and escape      *)
(* sequences of them, which Terminal executes.                             *)
(*                                                                         *)
(* Of the buffer of an escape sequence the parser itself needs two things: *)
(* whether it has intermediate characters, and whether it ends in ESC.     *)
(***************************************************************************)
EXTENDS Integers, Sequences

CONSTANT Bytes   \* the bytes that the child may send

ASSUME ParserAssumption == Bytes \subseteq 0..255

BEL == 7
ESC == 27
BACKSLASH == 92
REPLACEMENT_CHAR == 65533

VARIABLES esc,      \* state, and of the buffer what is needed
          charset,  \* the character under way
          out,      \* history: what the last byte made the terminal do
          text      \* history: the last byte outside sequences that does not continue a
             \* character, and those that do since (up to four)

parserVars == <<esc, charset, out, text>>

noEscape == [state |-> "text", long |-> FALSE, escLast |-> FALSE]

reset_charset == [code |-> 0, following |-> 0, count |-> 0, valid |-> TRUE]

Char(c) == <<[kind |-> "char", code |-> c]>>
Do(kind, c) == <<[kind |-> kind, code |-> c]>>

ParserTypeOK ==
  /\ esc \in [state : {"text", "esc", "csi", "osc", "dcs"}, long : BOOLEAN, escLast : BOOLEAN]
  /\ charset.following \in 0..5 /\ charset.count \in 0..charset.following
  /\ charset.code \in Nat /\ charset.valid \in BOOLEAN
  /\ Len(text) <= 4

-----------------------------------------------------------------------------
(* UTF-8.  A lead byte has its number of following bytes and its bits.     *)

lead(ch) ==
  CASE ch \in 192..223 -> [following |-> 1, code |-> ch % 32]
    [] ch \in 224..239 -> [following |-> 2, code |-> ch % 16]
    [] ch \in 240..247 -> [following |-> 3, code |-> ch % 8]
    [] ch \in 248..251 -> [following |-> 4, code |-> ch % 4]
    [] ch \in 252..253 -> [following |-> 5, code |-> ch % 2]

\* A byte that continues nothing, or makes the encoding longer than it need be.
illegal(cs, ch) ==
  \/ cs.following = 0
  \/ /\ cs.count = 0
     /\ \/ cs.following = 1 /\ cs.code <= 1
        \/ cs.code = 0 /\ \/ cs.following = 2 /\ ch < 160
                          \/ cs.following = 3 /\ ch < 144
                          \/ cs.following = 4 /\ ch < 136
                          \/ cs.following = 5 /\ ch < 132

\* Surrogates, noncharacters and what is beyond Unicode are not shown.
illegalPoint(c) ==
  \/ c \in 55296..57343 \/ c \in 64976..65007
  \/ c % 65536 \in {65534, 65535} \/ c > 1114111

\* The character under way after a byte, and what the terminal is given.
utf8_charset(cs, ch) ==
  CASE ch \in 128..191 ->
         LET u == [cs EXCEPT !.valid = @ /\ ~illegal(cs, ch),
                             !.code = (@ * 64) + (ch % 64), !.count = @ + 1]
         IN  IF u.count < u.following THEN <<u, <<>>>>
             ELSE <<reset_charset,
                    Char(IF ~u.valid \/ illegalPoint(u.code)
                         THEN REPLACEMENT_CHAR ELSE u.code)>>
    [] ch \in 192..253 ->
         <<[cs EXCEPT !.code = lead(ch).code, !.following = lead(ch).following,
                      !.count = 0], <<>>>>
    [] ch \in 254..255 -> <<reset_charset, Char(REPLACEMENT_CHAR)>>

-----------------------------------------------------------------------------
\* Mutant: a character that is broken off is forgotten.
interruptedNever(ch) == FALSE

interrupted(ch) == charset.following > 0 /\ ch \notin 128..191

Text(ch) ==
  LET cs == IF interrupted(ch) THEN reset_charset ELSE charset
      before == IF interrupted(ch) THEN Char(REPLACEMENT_CHAR) ELSE <<>>
  IN  /\ esc.state = "text"
      /\ text' = IF ch \notin 128..191 THEN <<ch>>
                 ELSE IF Len(text) = 4 THEN <<>> ELSE Append(text, ch)
      /\ \/ /\ ch <= 31
            /\ out' = before \o Do("control", ch)
            /\ esc' = IF ch = ESC THEN [esc EXCEPT !.state = "esc"] ELSE esc
            /\ charset' = cs
         \/ /\ ch \in 32..127
            /\ out' = before \o Char(ch)
            /\ charset' = cs /\ UNCHANGED esc
         \/ /\ ch >= 128
            /\ charset' = utf8_charset(cs, ch)[1]
            /\ out' = before \o utf8_charset(cs, ch)[2]
            /\ UNCHANGED esc

\* push_esc: whether the byte ends the sequence, belongs to it, or is illegal.
kind(ch) ==
  CASE esc.state = "esc" -> IF ch \in 48..126 THEN "final"
                            ELSE IF ch \in 32..47 THEN "inside" ELSE "illegal"
    [] esc.state = "csi" -> IF ch \in 64..126 THEN "final"
                            ELSE IF ch \in 32..63 THEN "inside" ELSE "illegal"
    [] OTHER -> IF ch = BEL \/ (ch = BACKSLASH /\ esc.escLast) THEN "final"
                ELSE IF ch \in {ESC, 13, 10, 8, 9} \cup 32..126 THEN "inside"
                ELSE "illegal"

opens(ch) ==
  CASE ch = 91 -> "csi" [] ch = 93 -> "osc" [] ch = 80 -> "dcs" [] OTHER -> "text"

\* esc_sequence, csi_sequence, osc_sequence and dcs_sequence.  The three that
\* open another sequence do so only with nothing in between; else the
\* sequence is left as it is, and goes on.
Sequence(ch) ==
  /\ esc.state # "text"
  /\ CASE kind(ch) = "inside" ->
            /\ esc' = [esc EXCEPT !.long = TRUE, !.escLast = ch = ESC]
            /\ out' = <<>>
       [] kind(ch) = "illegal" -> esc' = noEscape /\ out' = <<>>
       [] kind(ch) = "final" /\ esc.state = "esc" ->
            /\ esc' = IF opens(ch) = "text" THEN noEscape
                      ELSE [state |-> IF esc.long THEN "esc" ELSE opens(ch),
                            long |-> TRUE, escLast |-> FALSE]
            /\ out' = IF esc.long THEN <<>> ELSE Do("esc", ch)
       [] OTHER -> esc' = noEscape /\ out' = Do(esc.state, ch)
  /\ text' = <<>>
  /\ UNCHANGED charset

ParserInit == esc = noEscape /\ charset = reset_charset /\ out = <<>> /\ text = <<>>

parse(ch) == Text(ch) \/ Sequence(ch)

ParserNext == \E ch \in Bytes : parse(ch)

ParserSpec == ParserInit /\ [][ParserNext]_parserVars

-----------------------------------------------------------------------------
(* UTF-8 as Unicode defines it: the sequences of table 3-7.                *)

Continuation == 128..191

WellFormed(s) ==
  CASE Len(s) = 1 -> s[1] \in 32..127
    [] Len(s) = 2 -> s[1] \in 194..223 /\ s[2] \in Continuation
    [] Len(s) = 3 ->
         /\ s[1] \in 224..239 /\ s[3] \in Continuation
         /\ s[2] \in CASE s[1] = 224 -> 160..191 [] s[1] = 237 -> 128..159 [] OTHER -> Continuation
    [] Len(s) = 4 ->
         /\ s[1] \in 240..244 /\ s[3] \in Continuation /\ s[4] \in Continuation
         /\ s[2] \in CASE s[1] = 240 -> 144..191 [] s[1] = 244 -> 128..143 [] OTHER -> Continuation

Scalar(s) ==
  CASE Len(s) = 1 -> s[1]
    [] Len(s) = 2 -> (s[1] - 192) * 64 + s[2] - 128
    [] Len(s) = 3 -> (s[1] - 224) * 4096 + (s[2] - 128) * 64 + s[3] - 128
    [] Len(s) = 4 -> (s[1] - 240) * 262144 + (s[2] - 128) * 4096 + (s[3] - 128) * 64 + s[4] - 128

Noncharacter(c) == c % 65536 \in {65534, 65535} \/ c \in 64976..65007

\* The characters that the text ends in: there is at most one.
Ending == {Scalar(s) : s \in {s \in {SubSeq(text, i, Len(text)) : i \in 1..Len(text)} : WellFormed(s)}}

ShownAsEncoded ==
  LET chars == {c \in Ending : ~Noncharacter(c)}
      shown == {out[i].code : i \in {i \in DOMAIN out : out[i].kind = "char"}}
  IN  /\ shown \subseteq chars \cup {REPLACEMENT_CHAR}
      /\ \A c \in chars : out # <<>> /\ out[Len(out)] = Char(c)[1]

\* A byte more of the character under way, or the first one of a character.
GoesOn == charset'.following > 0 /\ charset'.count \in {charset.count + 1, 0}

\* Text is shown as what it encodes, whatever came before it: when a byte
\* completes a well-formed character the terminal is given that one, it is
\* given no other character than the replacement for what is broken off,
\* malformed or no character, and what is broken off does not vanish
\* (utf8_charset, parse).
TextIsShown ==
  [][/\ ShownAsEncoded'
     /\ esc.state = "text" /\ (charset.following > 0 => charset'.count # charset.count + 1)
        => out' # <<>> \/ (charset.following = 0 /\ GoesOn)]_parserVars
=============================================================================
