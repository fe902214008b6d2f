-------------------------------- MODULE Alarms --------------------------------
(***************************************************************************)
(* What the timers of the emulated processor promise: an alarm that is set *)
(* rings once the processor has run for its time, never before; time does  *)
(* not go on while an alarm that is due has not rung, alarms of one clock  *)
(* ring in the order of their times, and a periodic alarm keeps its pace   *)
(* however late it rings.                                                  *)
(***************************************************************************)
EXTENDS Integers

CONSTANTS Ids, Periods

Off == [on |-> FALSE, left |-> 0, rt |-> FALSE]

VARIABLES alarms,  \* for each id Off, or the clocks left and the clock used
          rung     \* changes whenever an alarm rings

Set == {id \in Ids : alarms[id].on}
OthersStay(id) == \A other \in Ids \ {id} : alarms'[other] = alarms[other]

AlarmsInit == alarms = [id \in Ids |-> Off] /\ rung = FALSE

SetAlarm(id) ==
  /\ alarms'[id] = Off \/ alarms'[id].left > 0
  /\ OthersStay(id)

Elapsed(id) == alarms[id].left - alarms'[id].left

\* A change of speed may round the time of an alarm in microseconds to now: it
\* rings after the next instruction.
Waits(alarm) == alarm.left > 0 \/ (alarm.left = 0 /\ alarm.rt)

Run ==
  /\ Set' = Set
  /\ \A id \in Set :
       /\ Waits(alarms[id]) /\ alarms'[id].rt = alarms[id].rt
       /\ \A other \in Set : Elapsed(id) = Elapsed(other)

Ring(id) ==
  /\ alarms[id].left <= 0
  /\ \A other \in Set : alarms[other].rt = alarms[id].rt
                          => alarms[id].left <= alarms[other].left
  /\ \/ alarms'[id] = Off
     \/ \E period \in Periods \ {0} :
          alarms'[id] = [alarms[id] EXCEPT !.left = @ + period]
  /\ OthersStay(id)

\* Another speed of the processor: times in microseconds take more clocks, or
\* fewer, but what is due stays due and what is not does not become overdue.
ChangeSpeed ==
  \A id \in Ids :
    \/ alarms'[id] = alarms[id]
    \/ /\ id \in Set /\ alarms[id].rt /\ alarms[id].left > 0
       /\ alarms'[id].on /\ alarms'[id].rt /\ alarms'[id].left >= 0

AlarmsNext ==
  \/ /\ UNCHANGED rung
     /\ ChangeSpeed \/ Run \/ \E id \in Ids : SetAlarm(id)
  \/ /\ rung' = ~rung
     /\ \E id \in Set : Ring(id)

AlarmsSafe == AlarmsInit /\ [][AlarmsNext]_<<alarms, rung>>
=============================================================================
