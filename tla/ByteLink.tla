------------------------------ MODULE ByteLink ------------------------------
(***************************************************************************)
(* What the link port of a calculator promises: bytes that one side writes *)
(* are taken by the other side, each once and in order, with at most two   *)
(* of them under way, for as long as nobody disturbs the line (an error, a *)
(* collision, a change of mode in the middle of a byte).                   *)
(***************************************************************************)
EXTENDS Naturals, Sequences

CONSTANT Bytes

VARIABLES written,    \* bytes written since the line was last quiet
          taken,      \* bytes the other side has taken
          disturbed   \* no promise holds until both sides are reset

byteLinkVars == <<written, taken, disturbed>>

ByteLinkInit == written = <<>> /\ taken = <<>> /\ disturbed = FALSE

Write ==
  /\ ~disturbed
  /\ Len(written) - Len(taken) < 2
  /\ \E byte \in Bytes : written' = Append(written, byte)
  /\ UNCHANGED <<taken, disturbed>>

Take ==
  /\ ~disturbed
  /\ Len(taken) < Len(written)
  /\ taken' = Append(taken, written[Len(taken) + 1])
  /\ UNCHANGED <<written, disturbed>>

Disturb == ~disturbed /\ disturbed' = TRUE /\ UNCHANGED <<written, taken>>

Restart == written' = <<>> /\ taken' = <<>> /\ disturbed' = FALSE

ByteLinkNext == Write \/ Take \/ Disturb \/ Restart

ByteLinkSafe == ByteLinkInit /\ [][ByteLinkNext]_byteLinkVars
=============================================================================
