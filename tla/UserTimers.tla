------------------------------ MODULE UserTimers ------------------------------
(***************************************************************************)
(* A programmable timer of the emulated calculator                         *)
(* (apps/tilem/emu/timers.c): three ports set its frequency, its mode and  *)
(* its value, and the timer of the processor that stands behind it (see    *)
(* Z80Timers) calls back when it expires.  The three timers do not touch   *)
(* each other.  Time is counted in ticks of the frequency that was set.    *)
(***************************************************************************)
EXTENDS Naturals

CONSTANTS Full,        \* ticks of a whole turn of the counter (256)
          MaxExpiries  \* bound: expiries counted since the mode was set

ASSUME UserTimerAssumption == Full \in Nat \ {0, 1} /\ MaxExpiries \in Nat \ {0, 1}

VARIABLES tmr,        \* the timer, and the processor's timer behind it
          expiries    \* history: expiries that count, since the mode was set

userTimerVars == <<tmr, expiries>>

\* Another calculator model has a flag that holds interrupts back; the ports
\* of the TI-84 Plus never set it.
Flags == {"loop", "interrupt", "overflow", "finished"}

UserTimersTypeOK ==
  /\ tmr \in [valid : BOOLEAN, loopvalue : 0..Full - 1, status : SUBSET Flags,
              running : BOOLEAN, left : 0..Full, period : 0..Full, interrupt : BOOLEAN]
  /\ expiries \in 0..MaxExpiries

get_normal_duration(t) == IF t.loopvalue = 0 THEN Full ELSE t.loopvalue

get_value == IF tmr.running THEN tmr.left % Full ELSE tmr.loopvalue

Stop(t) == [t EXCEPT !.running = FALSE, !.left = 0, !.period = 0]

tilem_user_timers_reset ==
  /\ tmr' = Stop([tmr EXCEPT !.valid = FALSE, !.loopvalue = 0, !.status = {},
                             !.interrupt = FALSE])
  /\ expiries' = 0

set_frequency(valid) ==
  /\ tmr' = Stop([tmr EXCEPT !.loopvalue = get_value, !.valid = valid])
  /\ UNCHANGED expiries

\* Mutant: a timer that runs keeps the period of its old mode.
set_mode_later(mode) ==
  /\ tmr' = [tmr EXCEPT !.status = mode, !.interrupt = FALSE]
  /\ expiries' = 0

set_mode(mode) ==
  /\ tmr' = [tmr EXCEPT
       !.status = mode,
       !.interrupt = FALSE,
       !.period = IF ~tmr.running THEN @
                  ELSE IF "loop" \in mode \/ tmr.loopvalue = 0
                       THEN get_normal_duration(tmr) ELSE 0]
  /\ expiries' = 0

start(value) ==
  LET t == [tmr EXCEPT !.loopvalue = value]
      count == get_normal_duration(t)
      period == IF value = 0 \/ "finished" \in t.status THEN Full
                ELSE IF "loop" \in t.status THEN count ELSE 0
  IN
  /\ tmr' = IF tmr.valid
            THEN [t EXCEPT !.running = TRUE, !.left = count, !.period = period] ELSE t
  /\ UNCHANGED expiries

\* The processor's timer is set again before it calls back.
renewed(t) ==
  IF t.period = 0 THEN Stop(t) ELSE [t EXCEPT !.left = t.period]

expired(t) ==
  IF t.loopvalue = 0 THEN t
  ELSE LET status == t.status \cup {"finished"}
                       \cup (IF "finished" \in t.status THEN {"overflow"} ELSE {})
       IN  [t EXCEPT
              !.status = status,
              !.interrupt = @ \/ "interrupt" \in status,
              !.period = IF "loop" \in status /\ t.running THEN Full ELSE @]

Tick ==
  /\ tmr.running
  /\ IF tmr.left > 1
     THEN tmr' = [tmr EXCEPT !.left = @ - 1] /\ UNCHANGED expiries
     ELSE /\ tmr.loopvalue # 0 => expiries < MaxExpiries
          /\ tmr' = expired(renewed(tmr))
          /\ expiries' = IF tmr.loopvalue = 0 THEN expiries ELSE expiries + 1

UserTimersInit ==
  /\ tmr = [valid |-> FALSE, loopvalue |-> 0, status |-> {}, running |-> FALSE,
            left |-> 0, period |-> 0, interrupt |-> FALSE]
  /\ expiries = 0

UserTimersNext ==
  \/ tilem_user_timers_reset
  \/ \E valid \in BOOLEAN : set_frequency(valid)
  \/ \E mode \in SUBSET {"loop", "interrupt"} : set_mode(mode)
  \/ \E value \in 0..Full - 1 : start(value)
  \/ Tick

UserTimersSpec == UserTimersInit /\ [][UserTimersNext]_userTimerVars

-----------------------------------------------------------------------------
\* The flags count the expiries since the mode was set.
FlagsCount ==
  /\ "finished" \in tmr.status <=> expiries >= 1
  /\ "overflow" \in tmr.status <=> expiries >= 2

\* What the counter does when it next expires follows from the mode, the
\* value and the flags as they are now, whichever port was written last.
PeriodFollows ==
  (tmr.running /\ tmr.loopvalue # 0) =>
    tmr.period = CASE "finished" \in tmr.status -> Full
                   [] "finished" \notin tmr.status /\ "loop" \in tmr.status -> tmr.loopvalue
                   [] OTHER -> 0

\* The mode port, the value port and the expiry each set the period of the
\* same timer: in no order of writes and expiries do the flags, the period and
\* the mode disagree (tilem_user_timer_start, tilem_user_timer_set_mode,
\* tilem_user_timer_expired).
UserTimerAgrees == FlagsCount /\ PeriodFollows
=============================================================================
