-------------------------- MODULE CalculatorProofs --------------------------
(***************************************************************************)
(* Proofs about the parts of the emulated calculator, each for any values  *)
(* of its constants: the user timers, the Flash chip and the display       *)
(* driver.                                                                 *)
(***************************************************************************)
EXTENDS UserTimers, Flash, Lcd, SequenceTheorems, TLAPS

-----------------------------------------------------------------------------
(* User timers.                                                            *)

\* The type of the timer, field by field.
Tmr(t) ==
  /\ t = [field \in DOMAIN t |-> t[field]]
  /\ DOMAIN t = {"valid", "loopvalue", "status", "running", "left", "period", "interrupt"}
  /\ t.valid \in BOOLEAN /\ t.running \in BOOLEAN /\ t.interrupt \in BOOLEAN
  /\ t.loopvalue \in 0..Full - 1 /\ t.left \in 0..Full /\ t.period \in 0..Full
  /\ t.status \subseteq Flags

\* That is the type which UserTimersTypeOK gives it.
LEMMA TmrFields == UserTimersTypeOK <=> Tmr(tmr) /\ expiries \in 0..MaxExpiries
<1>1. UserTimersTypeOK => Tmr(tmr)
  BY DEF UserTimersTypeOK, Tmr
<1>2. Tmr(tmr) /\ expiries \in 0..MaxExpiries => UserTimersTypeOK
  BY DEF UserTimersTypeOK, Tmr
<1>. QED  BY <1>1, <1>2 DEF UserTimersTypeOK

\* A timer runs only at a valid frequency: else a write of its value would
\* leave it running with the period of the old one.
UserTimerInv ==
  /\ Tmr(tmr) /\ expiries \in 0..MaxExpiries
  /\ FlagsCount /\ PeriodFollows
  /\ tmr.running => tmr.valid

\* A whole turn of the counter is more than one tick.
LEMMA FullTurn == Full \in Nat /\ Full > 1
BY UserTimerAssumption DEF UserTimerAssumption

\* What stopping a timer does, field by field.
LEMMA StopFields ==
  ASSUME NEW t, Tmr(t)
  PROVE  /\ Tmr(Stop(t))
         /\ ~Stop(t).running /\ Stop(t).left = 0 /\ Stop(t).period = 0
         /\ Stop(t).valid = t.valid /\ Stop(t).loopvalue = t.loopvalue
         /\ Stop(t).status = t.status /\ Stop(t).interrupt = t.interrupt
<1>. DEFINE u == Stop(t)
<1>1. u = [field \in DOMAIN u |-> u[field]] /\ DOMAIN u = DOMAIN t
  BY DEF Stop
<1>2. /\ u.running = FALSE /\ u.left = 0 /\ u.period = 0
      /\ u.valid = t.valid /\ u.loopvalue = t.loopvalue
      /\ u.status = t.status /\ u.interrupt = t.interrupt
  BY DEF Tmr, Stop
<1>. HIDE DEF u
<1>3. Tmr(u)
  <2>1. u.valid \in BOOLEAN /\ u.running \in BOOLEAN /\ u.interrupt \in BOOLEAN
    BY <1>2 DEF Tmr
  <2>2. /\ u.loopvalue \in 0..Full - 1 /\ u.left \in 0..Full /\ u.period \in 0..Full
        /\ u.status \subseteq Flags
    BY <1>2, FullTurn DEF Tmr
  <2>3. DOMAIN u = {"valid", "loopvalue", "status", "running", "left", "period", "interrupt"}
    BY <1>1 DEF Tmr
  <2>. QED  BY <1>1, <2>1, <2>2, <2>3 DEF Tmr
<1>. QED  BY <1>2, <1>3 DEF u

\* An expiry that counts sets the flags and the period that goes with them.
LEMMA ExpiryInv ==
  ASSUME UserTimerInv, Tick, ~(tmr.left > 1)
  PROVE  UserTimerInv'
<1>. USE UserTimerAssumption DEF UserTimerAssumption
<1>. DEFINE t == renewed(tmr)
            renewal == [tmr EXCEPT !.left = tmr.period]
<1>1. Tmr(tmr) /\ tmr.running /\ tmr.valid /\ Full \in Nat
  BY DEF UserTimerInv, Tick
<1>2. /\ Tmr(renewal)
      /\ renewal.valid = tmr.valid /\ renewal.running = tmr.running
      /\ renewal.loopvalue = tmr.loopvalue /\ renewal.status = tmr.status
      /\ renewal.period = tmr.period /\ renewal.interrupt = tmr.interrupt
  BY <1>1 DEF Tmr
<1>3. t = IF tmr.period = 0 THEN Stop(tmr) ELSE renewal
  BY DEF renewed
<1>. HIDE DEF t, renewal
<1>4. /\ Tmr(t)
      /\ t.loopvalue = tmr.loopvalue /\ t.status = tmr.status /\ t.valid
      /\ t.running <=> tmr.period # 0
      /\ t.period = tmr.period
  BY <1>1, <1>2, <1>3, StopFields
<1>5. tmr' = expired(t)
  BY DEF Tick, t
<1>6. CASE tmr.loopvalue = 0
  <2>1. tmr' = t /\ expiries' = expiries
    BY <1>4, <1>5, <1>6 DEF Tick, expired
  <2>. QED  BY <1>4, <1>6, <2>1 DEF UserTimerInv, FlagsCount, PeriodFollows
<1>7. CASE tmr.loopvalue # 0
  <2>. DEFINE status == t.status \cup {"finished"}
                          \cup (IF "finished" \in t.status THEN {"overflow"} ELSE {})
  <2>1. tmr' = [t EXCEPT
              !.status = status,
              !.interrupt = t.interrupt \/ "interrupt" \in status,
              !.period = IF "loop" \in status /\ t.running THEN Full ELSE t.period]
    BY <1>4, <1>5, <1>7 DEF expired
  <2>2. expiries' = expiries + 1 /\ expiries < MaxExpiries
    BY <1>7 DEF Tick
  <2>3. tmr' = [field \in DOMAIN tmr' |-> tmr'[field]] /\ DOMAIN tmr' = DOMAIN t
    BY <2>1
  <2>4. /\ tmr'.status = status
        /\ tmr'.period = IF "loop" \in status /\ t.running THEN Full ELSE t.period
        /\ tmr'.loopvalue = t.loopvalue /\ tmr'.valid = t.valid
        /\ tmr'.running = t.running /\ tmr'.left = t.left
    BY <1>4, <2>1 DEF Tmr
  <2>5. tmr'.interrupt \in BOOLEAN
    BY <1>4, <2>1 DEF Tmr
  <2>6. status \subseteq Flags
    BY <1>4 DEF Tmr, Flags
  <2>7. Tmr(tmr)'
    BY <1>4, <2>3, <2>4, <2>5, <2>6 DEF Tmr
  <2>8. FlagsCount'
    BY <1>4, <2>2, <2>4 DEF UserTimerInv, FlagsCount
  <2>9. PeriodFollows'
    BY <1>1, <1>4, <1>7, <2>4 DEF UserTimerInv, PeriodFollows
  <2>. QED  BY <1>4, <2>2, <2>4, <2>7, <2>8, <2>9 DEF UserTimerInv
<1>. QED  BY <1>6, <1>7

\* Resetting the timers, and stopping one by a new frequency.
LEMMA StoppedInv ==
  ASSUME UserTimerInv,
         tilem_user_timers_reset \/ \E valid \in BOOLEAN : set_frequency(valid)
  PROVE  UserTimerInv'
<1>. USE FullTurn
<1>1. CASE tilem_user_timers_reset
  <2>. DEFINE t == [tmr EXCEPT !.valid = FALSE, !.loopvalue = 0, !.status = {},
                               !.interrupt = FALSE]
  <2>1. t = [field \in DOMAIN t |-> t[field]] /\ DOMAIN t = DOMAIN tmr
    OBVIOUS
  <2>2. /\ t.valid = FALSE /\ t.loopvalue = 0 /\ t.status = {} /\ t.interrupt = FALSE
        /\ t.running = tmr.running /\ t.left = tmr.left /\ t.period = tmr.period
    BY DEF UserTimerInv, Tmr
  <2>3. tmr' = Stop(t) /\ expiries' = 0
    BY <1>1 DEF tilem_user_timers_reset
  <2>. HIDE DEF t
  <2>4. Tmr(t)
    <3>1. t.valid \in BOOLEAN /\ t.running \in BOOLEAN /\ t.interrupt \in BOOLEAN
      BY <2>2 DEF UserTimerInv, Tmr
    <3>2. /\ t.loopvalue \in 0..Full - 1 /\ t.left \in 0..Full /\ t.period \in 0..Full
          /\ t.status \subseteq Flags
      BY <2>2 DEF UserTimerInv, Tmr
    <3>3. DOMAIN t = {"valid", "loopvalue", "status", "running", "left", "period", "interrupt"}
      BY <2>1 DEF UserTimerInv, Tmr
    <3>. QED  BY <2>1, <3>1, <3>2, <3>3 DEF Tmr
  <2>. QED  BY <2>2, <2>3, <2>4, StopFields, UserTimerAssumption 
           DEF UserTimerAssumption, UserTimerInv, FlagsCount, PeriodFollows
<1>2. ASSUME NEW valid \in BOOLEAN, set_frequency(valid)
      PROVE  UserTimerInv'
  <2>. DEFINE t == [tmr EXCEPT !.loopvalue = get_value, !.valid = valid]
  <2>1. t = [field \in DOMAIN t |-> t[field]] /\ DOMAIN t = DOMAIN tmr
    OBVIOUS
  <2>2. /\ t.valid = valid /\ t.loopvalue = get_value /\ t.status = tmr.status
        /\ t.interrupt = tmr.interrupt
        /\ t.running = tmr.running /\ t.left = tmr.left /\ t.period = tmr.period
    BY DEF UserTimerInv, Tmr
  <2>3. tmr' = Stop(t) /\ expiries' = expiries
    BY <1>2 DEF set_frequency
  <2>4. get_value \in 0..Full - 1
    BY DEF UserTimerInv, Tmr, get_value
  <2>. HIDE DEF t
  <2>5. Tmr(t)
    BY <2>1, <2>2, <2>4 DEF UserTimerInv, Tmr
  <2>. QED  BY <2>2, <2>3, <2>5, StopFields DEF UserTimerInv, FlagsCount, PeriodFollows
<1>. QED  BY <1>1, <1>2

\* Writing the mode, which may change the period of a timer that runs.
LEMMA SetModeInv ==
  ASSUME UserTimerInv, NEW mode \in SUBSET {"loop", "interrupt"}, set_mode(mode)
  PROVE  UserTimerInv'
<1>. USE UserTimerAssumption DEF UserTimerAssumption
<1>1. tmr' = [field \in DOMAIN tmr' |-> tmr'[field]] /\ DOMAIN tmr' = DOMAIN tmr
  BY DEF set_mode
<1>2. /\ tmr'.status = mode /\ tmr'.interrupt = FALSE
      /\ tmr'.loopvalue = tmr.loopvalue /\ tmr'.left = tmr.left
      /\ tmr'.valid = tmr.valid /\ tmr'.running = tmr.running
      /\ tmr'.period = IF ~tmr.running THEN tmr.period
                       ELSE IF "loop" \in mode \/ tmr.loopvalue = 0
                            THEN get_normal_duration(tmr) ELSE 0
      /\ expiries' = 0
  BY DEF UserTimerInv, Tmr, set_mode
<1>3. tmr'.period \in 0..Full
  BY <1>2 DEF UserTimerInv, Tmr, get_normal_duration
<1>4. Tmr(tmr)'
  BY <1>1, <1>2, <1>3 DEF UserTimerInv, Tmr, Flags
<1>5. PeriodFollows'
  BY <1>2 DEF PeriodFollows, get_normal_duration
<1>. QED  BY <1>2, <1>4, <1>5 DEF UserTimerInv, FlagsCount

\* Writing the value, which starts the timer if it has a frequency.
LEMMA StartInv ==
  ASSUME UserTimerInv, NEW value \in 0..Full - 1, start(value)
  PROVE  UserTimerInv'
<1>. USE UserTimerAssumption DEF UserTimerAssumption
<1>. DEFINE t == [tmr EXCEPT !.loopvalue = value]
            count == get_normal_duration(t)
            period == IF value = 0 \/ "finished" \in t.status THEN Full
                      ELSE IF "loop" \in t.status THEN count ELSE 0
<1>1. /\ Tmr(t)
      /\ t.loopvalue = value /\ t.status = tmr.status /\ t.valid = tmr.valid
      /\ t.running = tmr.running
  BY DEF UserTimerInv, Tmr
<1>2. count = IF value = 0 THEN Full ELSE value
  BY <1>1 DEF get_normal_duration
<1>3. /\ tmr' = IF tmr.valid
                THEN [t EXCEPT !.running = TRUE, !.left = count, !.period = period] ELSE t
      /\ expiries' = expiries
  BY DEF start
<1>. HIDE DEF t, count
<1>4. CASE tmr.valid
  <2>1. tmr' = [field \in DOMAIN tmr' |-> tmr'[field]] /\ DOMAIN tmr' = DOMAIN t
    BY <1>3, <1>4
  <2>2. /\ tmr'.running = TRUE /\ tmr'.left = count /\ tmr'.period = period
        /\ tmr'.valid = t.valid /\ tmr'.loopvalue = value /\ tmr'.status = t.status
        /\ tmr'.interrupt = t.interrupt
    BY <1>1, <1>3, <1>4 DEF Tmr
  <2>3. count \in 0..Full /\ period \in 0..Full
    BY <1>2
  <2>4. Tmr(tmr)'
    BY <1>1, <2>1, <2>2, <2>3 DEF Tmr
  <2>. QED  BY <1>1, <1>2, <1>3, <1>4, <2>2, <2>4 DEF UserTimerInv, FlagsCount, PeriodFollows
<1>5. CASE ~tmr.valid
  BY <1>1, <1>3, <1>5 DEF UserTimerInv, FlagsCount, PeriodFollows
<1>. QED  BY <1>4, <1>5

\* The flags, the period and the mode of a user timer agree, in whatever order
\* its three ports are written and it expires, for a counter of any size.
THEOREM UserTimerKeepsAgreeing == UserTimersSpec => [](UserTimersTypeOK /\ UserTimerAgrees)
<1>1. UserTimersInit => UserTimerInv
  BY UserTimerAssumption
     DEF UserTimerAssumption, UserTimersInit, UserTimerInv, Tmr, FlagsCount, PeriodFollows, Flags
<1>2. UserTimerInv /\ [UserTimersNext]_userTimerVars => UserTimerInv'
  <2>. SUFFICES ASSUME UserTimerInv, [UserTimersNext]_userTimerVars PROVE UserTimerInv'
    OBVIOUS
  <2>1. ASSUME Tick, tmr.left > 1
        PROVE  UserTimerInv'
    <3>1. tmr' = [tmr EXCEPT !.left = @ - 1] /\ expiries' = expiries
      BY <2>1 DEF Tick
    <3>. QED  BY <2>1, <3>1, UserTimerAssumption
           DEF UserTimerAssumption, UserTimerInv, Tmr, FlagsCount, PeriodFollows
  <2>2. CASE UNCHANGED userTimerVars
    BY <2>2 DEF userTimerVars, UserTimerInv, Tmr, FlagsCount, PeriodFollows
  <2>. QED  BY <2>1, <2>2, ExpiryInv, StoppedInv, SetModeInv, StartInv DEF UserTimersNext
<1>3. UserTimerInv => UserTimersTypeOK /\ UserTimerAgrees
  BY TmrFields DEF UserTimerInv, UserTimerAgrees
<1>. QED  BY <1>1, <1>2, <1>3, PTL DEF UserTimersSpec

-----------------------------------------------------------------------------
(* The Flash chip.                                                         *)

\* How two pieces of a command make a longer one.
LEMMA Spelling ==
  ASSUME NEW S, NEW a \in S, NEW b \in S, NEW c \in S, NEW d \in S
  PROVE  /\ LET s == <<a, b>> \o <<c>> IN
            s \in Seq(S) /\ Len(s) = 3 /\ s[1] = a /\ s[2] = b /\ s[3] = c
         /\ LET s == <<a, b>> \o <<c, d>> IN
            s \in Seq(S) /\ Len(s) = 4 /\ s[1] = a /\ s[2] = b /\ s[3] = c /\ s[4] = d
         /\ LET s == <<a, b>> \o <<c>> \o <<a, b>> \o <<d>> IN
            /\ s \in Seq(S) /\ Len(s) = 6
            /\ s[1] = a /\ s[2] = b /\ s[3] = c /\ s[4] = a /\ s[5] = b /\ s[6] = d
<1>. DEFINE s3 == <<a, b>> \o <<c>>
            s4 == <<a, b>> \o <<c, d>>
            s5 == s3 \o <<a, b>>
            s6 == s5 \o <<d>>
<1>1. s3 \in Seq(S) /\ Len(s3) = 3 /\ s3[1] = a /\ s3[2] = b /\ s3[3] = c
  BY ConcatProperties
<1>2. s4 \in Seq(S) /\ Len(s4) = 4 /\ s4[1] = a /\ s4[2] = b /\ s4[3] = c /\ s4[4] = d
  BY ConcatProperties
<1>. HIDE DEF s3
<1>3. /\ s5 \in Seq(S) /\ Len(s5) = 5
      /\ s5[1] = a /\ s5[2] = b /\ s5[3] = c /\ s5[4] = a /\ s5[5] = b
  <2>. DEFINE u == <<a, b>>
  <2>1. u \in Seq(S) /\ Len(u) = 2 /\ u[1] = a /\ u[2] = b
    OBVIOUS
  <2>. HIDE DEF u
  <2>2. /\ s3 \o u \in Seq(S) /\ Len(s3 \o u) = Len(s3) + Len(u)
        /\ \A i \in 1..Len(s3) + Len(u) :
             (s3 \o u)[i] = IF i <= Len(s3) THEN s3[i] ELSE u[i - Len(s3)]
    BY <1>1, <2>1, ConcatProperties, Zenon
  <2>. QED  BY <1>1, <2>1, <2>2 DEF u
<1>. HIDE DEF s5
<1>4. /\ s6 \in Seq(S) /\ Len(s6) = 6
      /\ s6[1] = a /\ s6[2] = b /\ s6[3] = c /\ s6[4] = a /\ s6[5] = b /\ s6[6] = d
  <2>. DEFINE u == <<d>>
  <2>1. u \in Seq(S) /\ Len(u) = 1 /\ u[1] = d
    OBVIOUS
  <2>. HIDE DEF u
  <2>2. /\ s5 \o u \in Seq(S) /\ Len(s5 \o u) = Len(s5) + Len(u)
        /\ \A i \in 1..Len(s5) + Len(u) :
             (s5 \o u)[i] = IF i <= Len(s5) THEN s5[i] ELSE u[i - Len(s5)]
    BY <1>3, <2>1, ConcatProperties, Zenon
  <2>. QED  BY <1>3, <2>1, <2>2 DEF u
<1>. QED  BY <1>1, <1>2, <1>4 DEF s3, s5

\* The places of each command, as the data sheet has them.
LEMMA CommandSteps ==
  /\ DOMAIN Commands = {"program", "fast", "again", "sector", "chip"}
  /\ \A c \in {"program", "fast", "sector", "chip"} :
       Commands[c][1] = At("AAA", AA) /\ Commands[c][2] = At("555", h55)
  /\ \A c \in {"sector", "chip"} :
       /\ Commands[c][3] = At("AAA", h80)
       /\ Commands[c][4] = At("AAA", AA) /\ Commands[c][5] = At("555", h55)
  /\ Commands["program"][3] = At("AAA", A0) /\ Commands["program"][4] = Anywhere(FlashByte)
  /\ Commands["fast"][3] = At("AAA", h20)
  /\ Commands["again"][1] = Anywhere({A0}) /\ Commands["again"][2] = Anywhere(FlashByte)
  /\ Commands["sector"][6] = Anywhere({h30}) /\ Commands["chip"][6] = At("AAA", h10)
  /\ Len(Commands["program"]) = 4 /\ Len(Commands["fast"]) = 3 /\ Len(Commands["again"]) = 2
  /\ Len(Commands["sector"]) = 6 /\ Len(Commands["chip"]) = 6
  /\ \A c \in DOMAIN Commands : DOMAIN Commands[c] = 1..Len(Commands[c])
<1>. DEFINE u == <<At("AAA", AA), At("555", h55)>>
            S == SUBSET [low : {"AAA", "555"}, byte : FlashByte]
<1>1. Commands = [program |-> u \o <<At("AAA", A0), Anywhere(FlashByte)>>,
       fast    |-> u \o <<At("AAA", h20)>>,
       again   |-> <<Anywhere({A0}), Anywhere(FlashByte)>>,
       sector  |-> u \o <<At("AAA", h80)>> \o u \o <<Anywhere({h30})>>,
       chip    |-> u \o <<At("AAA", h80)>> \o u \o <<At("AAA", h10)>>]
  BY DEF Commands
<1>2. {AA, h55, A0, h80, h30, h10, h20} \subseteq FlashByte
  BY DEF AA, h55, A0, h80, h30, h10, h20, FlashByte
<1>3. /\ \A byte \in FlashByte : {At("AAA", byte), At("555", byte)} \subseteq S
      /\ \A bytes \in SUBSET FlashByte : Anywhere(bytes) \in S
  BY DEF At, Anywhere
<1>4. /\ At("AAA", AA) \in S /\ At("555", h55) \in S /\ At("AAA", A0) \in S
      /\ At("AAA", h20) \in S /\ At("AAA", h80) \in S /\ At("AAA", h10) \in S
      /\ Anywhere({h30}) \in S /\ Anywhere({A0}) \in S /\ Anywhere(FlashByte) \in S
  <2>1. {h30} \in SUBSET FlashByte /\ {A0} \in SUBSET FlashByte /\ FlashByte \in SUBSET FlashByte
    BY <1>2
  <2>. HIDE DEF S
  <2>. QED  BY <1>2, <1>3, <2>1
<1>. HIDE DEF S
<1>. DEFINE p == u \o <<At("AAA", A0), Anywhere(FlashByte)>>
            f == u \o <<At("AAA", h20)>>
            g == <<Anywhere({A0}), Anywhere(FlashByte)>>
            e == u \o <<At("AAA", h80)>> \o u \o <<Anywhere({h30})>>
            c6 == u \o <<At("AAA", h80)>> \o u \o <<At("AAA", h10)>>
<1>5. /\ p \in Seq(S) /\ Len(p) = 4 /\ p[1] = At("AAA", AA) /\ p[2] = At("555", h55)
      /\ p[3] = At("AAA", A0) /\ p[4] = Anywhere(FlashByte)
  BY <1>4, Spelling
<1>6. /\ f \in Seq(S) /\ Len(f) = 3 /\ f[1] = At("AAA", AA) /\ f[2] = At("555", h55)
      /\ f[3] = At("AAA", h20)
  BY <1>4, Spelling
<1>7. /\ g \in Seq(S) /\ Len(g) = 2 /\ g[1] = Anywhere({A0}) /\ g[2] = Anywhere(FlashByte)
  BY <1>4
<1>8. /\ e \in Seq(S) /\ Len(e) = 6 /\ e[1] = At("AAA", AA) /\ e[2] = At("555", h55)
      /\ e[3] = At("AAA", h80) /\ e[4] = At("AAA", AA) /\ e[5] = At("555", h55)
      /\ e[6] = Anywhere({h30})
  BY <1>4, Spelling
<1>9. /\ c6 \in Seq(S) /\ Len(c6) = 6 /\ c6[1] = At("AAA", AA) /\ c6[2] = At("555", h55)
      /\ c6[3] = At("AAA", h80) /\ c6[4] = At("AAA", AA) /\ c6[5] = At("555", h55)
      /\ c6[6] = At("AAA", h10)
  BY <1>4, Spelling
<1>10. Commands = [program |-> p, fast |-> f, again |-> g, sector |-> e, chip |-> c6]
  BY <1>1
<1>. HIDE DEF p, f, g, e, c6
<1>11. \A s \in Seq(S) : DOMAIN s = 1..Len(s)
  OBVIOUS
<1>. QED  BY <1>5, <1>6, <1>7, <1>8, <1>9, <1>10, <1>11

\* The type of the chip, field by field.
FlashFields ==
  /\ flash = [field \in DOMAIN flash |-> flash[field]]
  /\ DOMAIN flash = {"state", "unlock", "overridegroup", "busy", "progaddr", "progbyte"}
  /\ flash.state \in FlashStates /\ flash.unlock \in BOOLEAN
  /\ flash.overridegroup \in SUBSET {1, 2}
  /\ flash.busy \in {"no", "program", "erase_wait", "erase"}
  /\ flash.progaddr \in Places /\ flash.progbyte \in FlashByte

FlashTypes ==
  /\ mem \in [Address -> FlashByte] /\ FlashFields
  /\ delay \in BOOLEAN /\ polled \in BOOLEAN
  /\ flash.busy # "no" => delay

\* What the command decoder has taken in so far was spelt by the last writes.
SpeltSoFar ==
  /\ flash.state = "AA" => \A c \in {"program", "fast", "sector", "chip"} : 1 \in heard[c]
  /\ flash.state = "55" => \A c \in {"program", "fast", "sector", "chip"} : 2 \in heard[c]
  /\ flash.state = "PROG" => 3 \in heard["program"]
  /\ flash.state = "ERASE" => \A c \in {"sector", "chip"} : 3 \in heard[c]
  /\ flash.state = "ERAA" => \A c \in {"sector", "chip"} : 4 \in heard[c]
  /\ flash.state = "ER55" => \A c \in {"sector", "chip"} : 5 \in heard[c]
  /\ flash.state \in {"FASTMODE", "FASTPROG", "FASTEXIT"} => fastHeard
  /\ flash.state = "FASTPROG" => 1 \in heard["again"]

\* A byte that is being polled is in place, or its failure is shown.
Programmed ==
  polled => /\ flash.progaddr \in Address
            /\ \/ mem[flash.progaddr] = flash.progbyte
               \/ flash.state = "ERROR" /\ flash.busy \in {"program", "no"}

FlashInv == FlashTypes /\ SpeltSoFar /\ Programmed

\* That is the type which FlashTypeOK gives it.
LEMMA FlashTypesOK == FlashTypeOK <=> FlashTypes
<1>1. FlashTypeOK => FlashFields
  BY DEF FlashTypeOK, FlashFields
<1>2. FlashFields => flash \in [state : FlashStates, unlock : BOOLEAN, overridegroup : SUBSET {1, 2},
                busy : {"no", "program", "erase_wait", "erase"},
                progaddr : Places, progbyte : FlashByte]
  BY DEF FlashFields
<1>. QED  BY <1>1, <1>2 DEF FlashTypeOK, FlashTypes

\* A write continues what the writes before it spelt.
LEMMA Heard ==
  ASSUME NEW pa \in Places, NEW v \in FlashByte,
         heard' = hears([low |-> pa[2], byte |-> v])
  PROVE  /\ pa[2] = "AAA" /\ v = AA =>
              /\ \A c \in {"program", "fast", "sector", "chip"} : 1 \in heard'[c]
              /\ \A c \in {"sector", "chip"} : 3 \in heard[c] => 4 \in heard'[c]
         /\ pa[2] = "555" /\ v = h55 =>
              /\ \A c \in {"program", "fast", "sector", "chip"} : 1 \in heard[c] => 2 \in heard'[c]
              /\ \A c \in {"sector", "chip"} : 4 \in heard[c] => 5 \in heard'[c]
         /\ pa[2] = "AAA" /\ v = h80 =>
              \A c \in {"sector", "chip"} : 2 \in heard[c] => 3 \in heard'[c]
         /\ pa[2] = "AAA" /\ v = A0 => (2 \in heard["program"] => 3 \in heard'["program"])
         /\ pa[2] = "AAA" /\ v = h20 => (2 \in heard["fast"] => 3 \in heard'["fast"])
         /\ pa[2] = "AAA" /\ v = h10 => (5 \in heard["chip"] => 6 \in heard'["chip"])
         /\ v = h30 => (5 \in heard["sector"] => 6 \in heard'["sector"])
         /\ v = A0 => 1 \in heard'["again"]
         /\ 3 \in heard["program"] => 4 \in heard'["program"]
         /\ 1 \in heard["again"] => 2 \in heard'["again"]
<1>. DEFINE w == [low |-> pa[2], byte |-> v]
            next(c, n) == (n = 1 \/ n - 1 \in heard[c]) /\ w \in Commands[c][n]
<1>1. ASSUME NEW c \in DOMAIN Commands, NEW n \in 1..Len(Commands[c]), next(c, n)
      PROVE  n \in heard'[c]
  <2>1. n \in DOMAIN Commands[c] /\ n - 1 \in heard[c] \cup {0}
    BY <1>1, CommandSteps
  <2>. QED  BY <1>1, <2>1 DEF hears
<1>2. /\ pa[2] = "AAA" => \A byte \in FlashByte : v = byte => w \in At("AAA", byte)
      /\ pa[2] = "555" => \A byte \in FlashByte : v = byte => w \in At("555", byte)
      /\ \A bytes \in SUBSET FlashByte : v \in bytes => w \in Anywhere(bytes)
  BY DEF At, Anywhere, Places
<1>3. {AA, h55, A0, h80, h30, h10, h20} \subseteq FlashByte
  BY DEF AA, h55, A0, h80, h30, h10, h20, FlashByte
<1>4. /\ pa[2] = "AAA" /\ v = AA => w \in At("AAA", AA)
      /\ pa[2] = "555" /\ v = h55 => w \in At("555", h55)
      /\ pa[2] = "AAA" /\ v = h80 => w \in At("AAA", h80)
      /\ pa[2] = "AAA" /\ v = A0 => w \in At("AAA", A0)
      /\ pa[2] = "AAA" /\ v = h20 => w \in At("AAA", h20)
      /\ pa[2] = "AAA" /\ v = h10 => w \in At("AAA", h10)
      /\ v = h30 => w \in Anywhere({h30})
      /\ v = A0 => w \in Anywhere({A0})
      /\ w \in Anywhere(FlashByte)
  <2>1. {h30} \in SUBSET FlashByte /\ {A0} \in SUBSET FlashByte /\ FlashByte \in SUBSET FlashByte
    BY <1>3
  <2>. HIDE DEF w
  <2>. QED  BY <1>2, <1>3, <2>1
<1>. HIDE DEF w
<1>5. \A c \in DOMAIN Commands : \A n \in 1..Len(Commands[c]) : next(c, n) => n \in heard'[c]
  BY <1>1
<1>6. /\ \A c \in {"program", "fast", "sector", "chip"} : next(c, 1) => 1 \in heard'[c]
      /\ \A c \in {"program", "fast", "sector", "chip"} : next(c, 2) => 2 \in heard'[c]
      /\ \A c \in {"sector", "chip"} : next(c, 3) => 3 \in heard'[c]
      /\ \A c \in {"sector", "chip"} : next(c, 4) => 4 \in heard'[c]
      /\ \A c \in {"sector", "chip"} : next(c, 5) => 5 \in heard'[c]
      /\ next("program", 3) => 3 \in heard'["program"]
      /\ next("program", 4) => 4 \in heard'["program"]
      /\ next("fast", 3) => 3 \in heard'["fast"]
      /\ next("again", 1) => 1 \in heard'["again"]
      /\ next("again", 2) => 2 \in heard'["again"]
      /\ next("sector", 6) => 6 \in heard'["sector"]
      /\ next("chip", 6) => 6 \in heard'["chip"]
  <2>1. /\ DOMAIN Commands = {"program", "fast", "again", "sector", "chip"}
        /\ Len(Commands["program"]) = 4 /\ Len(Commands["fast"]) = 3 /\ Len(Commands["again"]) = 2
        /\ Len(Commands["sector"]) = 6 /\ Len(Commands["chip"]) = 6
    BY CommandSteps
  <2>. HIDE DEF next
  <2>2. \A n \in 1..4 : next("program", n) => n \in heard'["program"]
    BY <1>5, <2>1
  <2>3. \A n \in 1..3 : next("fast", n) => n \in heard'["fast"]
    BY <1>5, <2>1
  <2>4. \A n \in 1..2 : next("again", n) => n \in heard'["again"]
    BY <1>5, <2>1
  <2>5. \A n \in 1..6 : next("sector", n) => n \in heard'["sector"]
    BY <1>5, <2>1
  <2>6. \A n \in 1..6 : next("chip", n) => n \in heard'["chip"]
    BY <1>5, <2>1
  <2>7. /\ {1, 2, 3, 4} \subseteq 1..4 /\ {1, 2, 3} \subseteq 1..3 /\ {1, 2} \subseteq 1..2
        /\ {1, 2, 3, 4, 5, 6} \subseteq 1..6
    OBVIOUS
  <2>. QED  BY <2>2, <2>3, <2>4, <2>5, <2>6, <2>7, Zenon
<1>7. /\ pa[2] = "AAA" /\ v = AA =>
           /\ \A c \in {"program", "fast", "sector", "chip"} : next(c, 1)
           /\ \A c \in {"sector", "chip"} : 3 \in heard[c] => next(c, 4)
      /\ pa[2] = "555" /\ v = h55 =>
           /\ \A c \in {"program", "fast", "sector", "chip"} : 1 \in heard[c] => next(c, 2)
           /\ \A c \in {"sector", "chip"} : 4 \in heard[c] => next(c, 5)
  BY <1>4, CommandSteps
<1>8. /\ pa[2] = "AAA" /\ v = h80 => \A c \in {"sector", "chip"} : 2 \in heard[c] => next(c, 3)
      /\ pa[2] = "AAA" /\ v = A0 => (2 \in heard["program"] => next("program", 3))
      /\ pa[2] = "AAA" /\ v = h20 => (2 \in heard["fast"] => next("fast", 3))
  BY <1>4, CommandSteps
<1>9. /\ pa[2] = "AAA" /\ v = h10 => (5 \in heard["chip"] => next("chip", 6))
      /\ v = h30 => (5 \in heard["sector"] => next("sector", 6))
      /\ v = A0 => next("again", 1)
      /\ 3 \in heard["program"] => next("program", 4)
      /\ 1 \in heard["again"] => next("again", 2)
  BY <1>4, CommandSteps
<1>. HIDE DEF next
<1>. QED  BY <1>6, <1>7, <1>8, <1>9

\* What the decoder's next state tells of its state and of the write.
LEMMA DecodedFrom ==
  ASSUME NEW pa, NEW v, flash.state \in FlashStates
  PROVE  LET next == Decoded(pa, v) IN
         /\ next \in FlashStates \ {"ERROR"}
         /\ next = "AA" => pa[2] = "AAA" /\ v = AA
         /\ next = "55" => flash.state = "AA" /\ pa[2] = "555" /\ v = h55
         /\ next = "PROG" => flash.state = "55" /\ pa[2] = "AAA" /\ v = A0
         /\ next = "ERASE" => flash.state = "55" /\ pa[2] = "AAA" /\ v = h80
         /\ next = "ERAA" => flash.state = "ERASE" /\ pa[2] = "AAA" /\ v = AA
         /\ next = "ER55" => flash.state = "ERAA" /\ pa[2] = "555" /\ v = h55
         /\ next = "FASTPROG" => flash.state = "FASTMODE" /\ v = A0
         /\ next = "FASTEXIT" => flash.state = "FASTMODE"
         /\ next = "FASTMODE" => \/ flash.state = "55" /\ pa[2] = "AAA" /\ v = h20
                                 \/ flash.state \in {"FASTMODE", "FASTEXIT"}
BY DEF Decoded, FlashStates

\* Programming a byte.
LEMMA ProgramByte ==
  ASSUME FlashInv, NEW pa \in Address, NEW v \in FlashBytes, NEW fast \in BOOLEAN,
         program_byte(pa, v, fast)
  PROVE  /\ FlashTypes' /\ Programmed'
         /\ flash'.state \in {"READ", "ERROR"} \/ (fast /\ flash'.state = "FASTMODE")
         /\ \A other \in Address : mem'[other] # mem[other] =>
              other = pa /\ mem'[other] \subseteq mem[other]
<1>. DEFINE next == IF fast THEN "FASTMODE" ELSE IF v \subseteq mem[pa] THEN "READ" ELSE "ERROR"
<1>1. /\ mem' = [mem EXCEPT ![pa] = mem[pa] \cap v]
      /\ flash' = [flash EXCEPT !.progaddr = pa, !.progbyte = v, !.busy = "program",
                                !.state = next]
      /\ delay' = TRUE /\ polled' = ~fast
  BY DEF program_byte
<1>2. flash' = [field \in DOMAIN flash' |-> flash'[field]] /\ DOMAIN flash' = DOMAIN flash
  BY <1>1
<1>3. /\ flash'.state = next /\ flash'.unlock = flash.unlock
      /\ flash'.overridegroup = flash.overridegroup /\ flash'.busy = "program"
      /\ flash'.progaddr = pa /\ flash'.progbyte = v
  BY <1>1 DEF FlashInv, FlashTypes, FlashFields
<1>4. pa \in Places /\ v \in FlashByte
  BY FlashAssumption DEF FlashAssumption
<1>5. next \in FlashStates
  BY DEF FlashStates
<1>6. FlashFields'
  BY <1>2, <1>3, <1>4, <1>5 DEF FlashInv, FlashTypes, FlashFields
<1>7. mem \in [Address -> FlashByte] /\ mem' \in [Address -> FlashByte] /\ mem'[pa] = mem[pa] \cap v
  BY <1>1 DEF FlashInv, FlashTypes, FlashByte
<1>8. Programmed'
  BY <1>1, <1>3, <1>7 DEF Programmed
<1>9. FlashTypes'
  BY <1>1, <1>3, <1>6, <1>7 DEF FlashTypes
<1>10. \A other \in Address : mem'[other] # mem[other] =>
         other = pa /\ mem'[other] \subseteq mem[other]
  BY <1>1, <1>7
<1>11. flash'.state \in {"READ", "ERROR"} \/ (fast /\ flash'.state = "FASTMODE")
  <2>1. next \in {"READ", "ERROR"} \/ (fast /\ next = "FASTMODE")
    OBVIOUS
  <2>. QED  BY <1>3, <2>1
<1>. HIDE DEF next
<1>. QED  BY <1>8, <1>9, <1>10, <1>11

\* Going on to another state of the decoder.
LEMMA GoTo ==
  ASSUME FlashInv, NEW state \in FlashStates, goTo(state)
  PROVE  FlashTypes' /\ Programmed' /\ flash'.state = state /\ mem' = mem
<1>1. flash' = [flash EXCEPT !.state = state] /\ polled' = FALSE /\ mem' = mem /\ delay' = delay
  BY DEF goTo
<1>2. FlashFields' /\ flash'.state = state /\ flash'.busy = flash.busy
  BY <1>1 DEF FlashInv, FlashTypes, FlashFields
<1>. QED  BY <1>1, <1>2 DEF FlashInv, FlashTypes, Programmed

\* Erasing sectors, if there are any.
LEMMA Erase ==
  ASSUME FlashInv, NEW sectors \in SUBSET Sectors, erase(sectors)
  PROVE  /\ FlashTypes' /\ Programmed' /\ flash'.state = "READ"
         /\ \A pa \in Address : mem'[pa] # mem[pa] =>
              pa[1] \in sectors /\ ~(mem'[pa] \subseteq mem[pa])
<1>1. CASE goTo("READ")
  BY <1>1, GoTo DEF FlashStates
<1>2. ASSUME NEW last \in sectors,
             /\ mem' = SectorErased(sectors)
             /\ flash' = [flash EXCEPT !.state = "READ", !.busy = "erase_wait",
                                       !.progaddr = <<last, "AAA">>]
             /\ delay' = TRUE
             /\ polled' = FALSE
      PROVE  /\ FlashTypes' /\ Programmed' /\ flash'.state = "READ"
             /\ \A pa \in Address : mem'[pa] # mem[pa] =>
                  pa[1] \in sectors /\ ~(mem'[pa] \subseteq mem[pa])
  <2>1. flash' = [field \in DOMAIN flash' |-> flash'[field]] /\ DOMAIN flash' = DOMAIN flash
    BY <1>2
  <2>2. /\ flash'.state = "READ" /\ flash'.unlock = flash.unlock
        /\ flash'.overridegroup = flash.overridegroup /\ flash'.busy = "erase_wait"
        /\ flash'.progaddr = <<last, "AAA">> /\ flash'.progbyte = flash.progbyte
    BY <1>2 DEF FlashInv, FlashTypes, FlashFields
  <2>3. <<last, "AAA">> \in Places
    BY DEF Places
  <2>4. FlashFields'
    BY <2>1, <2>2, <2>3 DEF FlashInv, FlashTypes, FlashFields, FlashStates
  <2>5. mem \in [Address -> FlashByte] /\ FF \in FlashByte /\ \A byte \in FlashByte : byte \subseteq FF
    BY DEF FlashInv, FlashTypes, FlashByte, FF
  <2>6. mem' \in [Address -> FlashByte]
    BY <1>2, <2>5 DEF SectorErased
  <2>7. \A pa \in Address : mem'[pa] = IF pa[1] \in sectors THEN FF ELSE mem[pa]
    BY <1>2 DEF SectorErased
  <2>. QED  BY <1>2, <2>2, <2>4, <2>5, <2>6, <2>7 DEF FlashTypes, Programmed
<1>. QED  BY <1>1, <1>2 DEF erase

\* Of a write that the chip hears: what it takes in, and what it changes.
LEMMA HeardWrite ==
  ASSUME FlashInv, NEW pa \in Address, NEW v \in FlashBytes, Hearing, WriteFlash(pa, v)
  PROVE  /\ FlashInv'
         /\ \A other \in Address : mem'[other] # mem[other] =>
              /\ flash.unlock
              /\ sector_writable(other[1])
              /\ IF mem'[other] \subseteq mem[other]
                 THEN spells("program") \/ (fastHeard /\ spells("again"))
                 ELSE spells("sector") \/ spells("chip")
<1>. DEFINE w == [low |-> pa[2], byte |-> v]
<1>1. /\ decode(pa, v) /\ heard' = hears(w)
      /\ fastHeard' = (fastHeard \/ spells("fast")) /\ flash.unlock
  BY DEF WriteFlash, Hearing
<1>2. /\ pa \in Places /\ pa[1] \in Sectors /\ pa[2] \in {"AAA", "555"} /\ v \in FlashByte
      /\ w.low = pa[2] /\ w.byte = v
  BY FlashAssumption DEF FlashAssumption, Places
<1>4. CASE flash.state = "PROG" \/ flash.state = "FASTPROG"
  <2>. DEFINE fast == flash.state = "FASTPROG"
  <2>1. program(pa, v, fast)
    BY <1>1, <1>4 DEF decode
  <2>2. spells("program") \/ (fastHeard /\ spells("again"))
    <3>1. CASE flash.state = "PROG"
      <4>1. 3 \in heard["program"]
        BY <3>1 DEF FlashInv, SpeltSoFar
      <4>2. 4 \in heard'["program"]
        BY <1>1, <1>2, <4>1, Heard
      <4>. QED  BY <4>2, CommandSteps DEF spells
    <3>2. CASE flash.state = "FASTPROG"
      <4>1. fastHeard /\ 1 \in heard["again"]
        BY <3>2 DEF FlashInv, SpeltSoFar
      <4>2. 2 \in heard'["again"]
        BY <1>1, <1>2, <4>1, Heard
      <4>. QED  BY <4>1, <4>2, CommandSteps DEF spells
    <3>. QED  BY <1>4, <3>1, <3>2
  <2>3. fast => fastHeard'
    BY <1>1 DEF FlashInv, SpeltSoFar
  <2>4. CASE sector_writable(pa[1])
    <3>1. program_byte(pa, v, fast)
      BY <2>1, <2>4 DEF program
    <3>2. /\ FlashTypes' /\ Programmed'
          /\ flash'.state \in {"READ", "ERROR"} \/ (fast /\ flash'.state = "FASTMODE")
          /\ \A other \in Address : mem'[other] # mem[other] =>
               other = pa /\ mem'[other] \subseteq mem[other]
      BY <3>1, ProgramByte
    <3>. QED  BY <1>1, <2>2, <2>3, <2>4, <3>2 DEF FlashInv, SpeltSoFar
  <2>5. CASE ~sector_writable(pa[1])
    <3>1. goTo(IF fast THEN "FASTMODE" ELSE "READ")
      BY <2>1, <2>5 DEF program
    <3>2. /\ FlashTypes' /\ Programmed' /\ mem' = mem
          /\ flash'.state = IF fast THEN "FASTMODE" ELSE "READ"
      BY <3>1, GoTo DEF FlashStates
    <3>. QED  BY <2>3, <3>2 DEF FlashInv, SpeltSoFar
  <2>. QED  BY <2>4, <2>5
<1>5. ASSUME NEW sectors \in SUBSET {sector \in Sectors : sector_writable(sector)},
             erase(sectors), spells("sector") \/ spells("chip")
      PROVE  /\ FlashInv'
             /\ \A other \in Address : mem'[other] # mem[other] =>
                  /\ sector_writable(other[1])
                  /\ ~(mem'[other] \subseteq mem[other])
  <2>1. /\ FlashTypes' /\ Programmed' /\ flash'.state = "READ"
        /\ \A other \in Address : mem'[other] # mem[other] =>
             other[1] \in sectors /\ ~(mem'[other] \subseteq mem[other])
    BY <1>5, Erase
  <2>. QED  BY <2>1 DEF FlashInv, SpeltSoFar
<1>6. CASE flash.state = "ER55" /\ pa[2] = "AAA" /\ v = h10
  <2>1. erase({sector \in Sectors : sector_writable(sector)})
    BY <1>1, <1>6 DEF decode, h10, h30
  <2>2. 6 \in heard'["chip"]
    BY <1>1, <1>2, <1>6, Heard DEF FlashInv, SpeltSoFar
  <2>3. spells("chip")
    BY <2>2, CommandSteps DEF spells
  <2>. QED  BY <1>1, <1>5, <2>1, <2>3
<1>7. CASE flash.state = "ER55" /\ v = h30 /\ ~(pa[2] = "AAA" /\ v = h10)
  <2>1. erase({sector \in {pa[1]} : sector_writable(sector)})
    BY <1>1, <1>7 DEF decode
  <2>2. 6 \in heard'["sector"]
    BY <1>1, <1>2, <1>7, Heard DEF FlashInv, SpeltSoFar
  <2>3. spells("sector")
    BY <2>2, CommandSteps DEF spells
  <2>. QED  BY <1>1, <1>2, <1>5, <2>1, <2>3
<1>8. CASE /\ flash.state \notin {"PROG", "FASTPROG"}
           /\ ~(flash.state = "ER55" /\ pa[2] = "AAA" /\ v = h10)
           /\ ~(flash.state = "ER55" /\ v = h30)
  <2>. DEFINE next == Decoded(pa, v)
  <2>1. goTo(next)
    BY <1>1, <1>8 DEF decode
  <2>2. FlashTypes' /\ Programmed' /\ flash'.state = next /\ mem' = mem
    BY <2>1, GoTo, DecodedFrom DEF FlashInv, FlashTypes, FlashFields
  <2>3. fastHeard' <=> fastHeard \/ 3 \in heard'["fast"]
    BY <1>1, CommandSteps DEF spells
  <2>4. SpeltSoFar'
    <3>1. CASE next \in {"AA", "55", "ERASE"}
      BY <1>1, <1>2, <2>2, <3>1, DecodedFrom, Heard DEF FlashInv, FlashTypes, FlashFields,
        SpeltSoFar
    <3>2. CASE next \in {"PROG", "ERAA", "ER55"}
      BY <1>1, <1>2, <2>2, <3>2, DecodedFrom, Heard DEF FlashInv, FlashTypes, FlashFields,
        SpeltSoFar
    <3>3. CASE next \in {"FASTMODE", "FASTPROG", "FASTEXIT"}
      BY <1>1, <1>2, <2>2, <2>3, <3>3, DecodedFrom, Heard DEF FlashInv, FlashTypes, FlashFields,
        SpeltSoFar
    <3>4. CASE next = "READ"
      BY <2>2, <3>4 DEF SpeltSoFar
    <3>. QED  BY <3>1, <3>2, <3>3, <3>4, DecodedFrom DEF FlashInv, FlashTypes, FlashFields,
        FlashStates
  <2>. QED  BY <2>2, <2>4 DEF FlashInv
<1>. QED  BY <1>4, <1>6, <1>7, <1>8

\* What is neither a write nor a read of software: the timer of the chip, its
\* ports and the reset.
LEMMA PortsAndTimer ==
  ASSUME FlashInv,
         \/ tilem_flash_delay_timer \/ tilem_flash_reset
         \/ \E unlock \in BOOLEAN : SetUnlock(unlock)
         \/ \E groups \in Overrides : SetOverride(groups)
  PROVE  FlashInv' /\ mem' = mem
<1>1. CASE tilem_flash_delay_timer
  <2>1. /\ flash' = [flash EXCEPT !.busy = IF flash.busy = "erase_wait" THEN "erase" ELSE "no"]
        /\ delay' = (flash.busy = "erase_wait") /\ UNCHANGED <<mem, heard, fastHeard, polled>>
    BY <1>1 DEF tilem_flash_delay_timer
  <2>2. /\ FlashFields' /\ flash'.state = flash.state
        /\ flash'.busy = IF flash.busy = "erase_wait" THEN "erase" ELSE "no"
        /\ flash'.progaddr = flash.progaddr /\ flash'.progbyte = flash.progbyte
    BY <2>1 DEF FlashInv, FlashTypes, FlashFields
  <2>3. Programmed'
    BY <2>1, <2>2 DEF FlashInv, Programmed
  <2>. QED  BY <2>1, <2>2, <2>3 DEF FlashInv, FlashTypes, SpeltSoFar
<1>2. CASE tilem_flash_reset
  <2>1. /\ flash' = [flash EXCEPT !.unlock = FALSE, !.state = "READ", !.busy = "no"]
        /\ polled' = FALSE /\ mem' = mem /\ delay' = delay
    BY <1>2 DEF tilem_flash_reset
  <2>2. flash' = [field \in DOMAIN flash' |-> flash'[field]] /\ DOMAIN flash' = DOMAIN flash
    BY <2>1
  <2>3. /\ flash'.unlock = FALSE /\ flash'.state = "READ" /\ flash'.busy = "no"
        /\ flash'.overridegroup = flash.overridegroup
        /\ flash'.progaddr = flash.progaddr /\ flash'.progbyte = flash.progbyte
    BY <2>1 DEF FlashInv, FlashTypes, FlashFields
  <2>4. FlashFields'
    BY <2>2, <2>3 DEF FlashInv, FlashTypes, FlashFields, FlashStates
  <2>. QED  BY <2>1, <2>3, <2>4 DEF FlashInv, FlashTypes, SpeltSoFar, Programmed
<1>3. ASSUME NEW unlock \in BOOLEAN, SetUnlock(unlock)
      PROVE  FlashInv' /\ mem' = mem
  <2>1. /\ flash' = [flash EXCEPT !.unlock = unlock]
        /\ UNCHANGED <<mem, delay, heard, fastHeard, polled>>
    BY <1>3 DEF SetUnlock
  <2>2. /\ FlashFields' /\ flash'.state = flash.state /\ flash'.busy = flash.busy
        /\ flash'.progaddr = flash.progaddr /\ flash'.progbyte = flash.progbyte
    BY <2>1 DEF FlashInv, FlashTypes, FlashFields
  <2>. QED  BY <2>1, <2>2 DEF FlashInv, FlashTypes, SpeltSoFar, Programmed
<1>4. ASSUME NEW groups \in Overrides, SetOverride(groups)
      PROVE  FlashInv' /\ mem' = mem
  <2>1. /\ flash' = [flash EXCEPT !.overridegroup = groups] /\ groups \in SUBSET {1, 2}
        /\ UNCHANGED <<mem, delay, heard, fastHeard, polled>>
    BY <1>4, FlashAssumption DEF SetOverride, FlashAssumption
  <2>2. /\ FlashFields' /\ flash'.state = flash.state /\ flash'.busy = flash.busy
        /\ flash'.progaddr = flash.progaddr /\ flash'.progbyte = flash.progbyte
    BY <2>1 DEF FlashInv, FlashTypes, FlashFields
  <2>. QED  BY <2>1, <2>2 DEF FlashInv, FlashTypes, SpeltSoFar, Programmed
<1>. QED  BY <1>1, <1>2, <1>3, <1>4

\* A read, which breaks off the command that is being spelt.
LEMMA ReadKeeps ==
  ASSUME FlashInv, NEW pa \in Address, ReadFlash(pa)
  PROVE  FlashInv' /\ mem' = mem
<1>. DEFINE cut == flash.busy = "no" /\ flash.state \notin {"ERROR", "FASTMODE", "READ"}
<1>1. CASE cut
  <2>1. /\ flash' = [flash EXCEPT !.state = "READ"]
        /\ UNCHANGED <<mem, delay, fastHeard, polled>>
    BY <1>1 DEF ReadFlash
  <2>2. /\ FlashFields' /\ flash'.state = "READ" /\ flash'.busy = flash.busy
        /\ flash'.progaddr = flash.progaddr /\ flash'.progbyte = flash.progbyte
    BY <2>1 DEF FlashInv, FlashTypes, FlashFields, FlashStates
  <2>. QED  BY <1>1, <2>1, <2>2 DEF FlashInv, FlashTypes, SpeltSoFar, Programmed
<1>2. CASE ~cut
  <2>1. UNCHANGED flashVars
    BY <1>2 DEF ReadFlash, flashVars
  <2>. QED  BY <2>1 DEF flashVars, FlashInv, FlashTypes, FlashFields, SpeltSoFar, Programmed
<1>. QED  BY <1>1, <1>2

\* The chip starts blank, with nothing spelt and nothing polled.
LEMMA FlashStarts == FlashInit => FlashInv
<1>. SUFFICES ASSUME FlashInit PROVE FlashInv
  OBVIOUS
<1>1. (CHOOSE pa \in Address : TRUE) \in Places
  BY FlashAssumption DEF FlashAssumption
<1>2. FlashFields
  <2>. DEFINE place == CHOOSE pa \in Address : TRUE
  <2>. HIDE DEF place
  <2>1. flash = [state |-> "READ", unlock |-> FALSE, overridegroup |-> {}, busy |-> "no",
                 progaddr |-> place, progbyte |-> {}]
    BY DEF FlashInit, place
  <2>2. place \in Places
    BY <1>1 DEF place
  <2>. QED  BY <2>1, <2>2 DEF FlashFields, FlashStates, FlashByte
<1>3. mem \in [Address -> FlashByte] /\ delay = FALSE /\ polled = FALSE
      /\ flash.state = "READ" /\ flash.busy = "no"
  BY DEF FlashInit, FF, FlashByte
<1>. QED  BY <1>2, <1>3 DEF FlashInv, FlashTypes, SpeltSoFar, Programmed

\* Every step of the chip keeps the invariant.
LEMMA FlashStep == FlashInv /\ [FlashNext]_flashVars => FlashInv'
<1>. SUFFICES ASSUME FlashInv, [FlashNext]_flashVars PROVE FlashInv'
  OBVIOUS
<1>1. ASSUME NEW pa \in Address, NEW v \in FlashBytes, WriteFlash(pa, v)
      PROVE  FlashInv'
  <2>1. CASE Hearing
    BY <1>1, <2>1, HeardWrite
  <2>2. CASE ~Hearing
    BY <1>1, <2>2 DEF WriteFlash, flashVars, FlashInv, FlashTypes, FlashFields, SpeltSoFar,
      Programmed
  <2>. QED  BY <2>1, <2>2
<1>2. CASE UNCHANGED flashVars
  BY <1>2 DEF flashVars, FlashInv, FlashTypes, FlashFields, SpeltSoFar, Programmed
<1>. QED  BY <1>1, <1>2, ReadKeeps, PortsAndTimer DEF FlashNext

\* When software reads the byte it programmed, and its highest bit is the one
\* it wrote, the byte is in place, for any chip, any protection and any bytes.
THEOREM FlashPollingTellsTheTruth == FlashSpec => [](FlashTypeOK /\ PollingTellsTheTruth)
<1>1. FlashInv => PollingTellsTheTruth
  <2>. SUFFICES ASSUME FlashInv, polled,
                       ReadValue(flash.progaddr) \cap {7} = flash.progbyte \cap {7}
                PROVE  mem[flash.progaddr] = flash.progbyte
    BY DEF PollingTellsTheTruth
  <2>1. CASE mem[flash.progaddr] # flash.progbyte
    <3>1. flash.state = "ERROR" /\ flash.busy \in {"program", "no"}
      BY <2>1 DEF FlashInv, Programmed
    <3>2. \/ ReadValue(flash.progaddr) = {7} \ flash.progbyte
          \/ ReadValue(flash.progaddr) = ({7} \ flash.progbyte) \cup {5}
      BY <3>1 DEF ReadValue
    <3>3. 7 \in ReadValue(flash.progaddr) <=> 7 \notin flash.progbyte
      BY <3>2
    <3>. QED  BY <3>3
  <2>. QED  BY <2>1
<1>2. FlashInv => FlashTypeOK
  BY FlashTypesOK DEF FlashInv
<1>. QED  BY <1>1, <1>2, FlashStarts, FlashStep, PTL DEF FlashSpec

\* The contents change only with the last write of a command spelt in full, of
\* an unlocked chip in sectors that are not protected.
THEOREM OnlyCommandsChangeFlash == FlashSpec => OnlyCommandsChange
<1>. DEFINE Changed ==
       \A pa \in Address : mem'[pa] # mem[pa] =>
         /\ flash.unlock
         /\ sector_writable(pa[1])
         /\ IF mem'[pa] \subseteq mem[pa] THEN spells("program") \/ (fastHeard /\ spells("again"))
            ELSE spells("sector") \/ spells("chip")
<1>1. FlashInv /\ [FlashNext]_flashVars => [Changed]_flashVars
  <2>. SUFFICES ASSUME FlashInv, FlashNext, NEW pa \in Address, mem'[pa] # mem[pa]
                PROVE  /\ flash.unlock
                       /\ sector_writable(pa[1])
                       /\ IF mem'[pa] \subseteq mem[pa]
                          THEN spells("program") \/ (fastHeard /\ spells("again"))
                          ELSE spells("sector") \/ spells("chip")
    OBVIOUS
  <2>1. PICK at \in Address, v \in FlashBytes : WriteFlash(at, v)
    BY ReadKeeps, PortsAndTimer DEF FlashNext
  <2>2. Hearing
    BY <2>1 DEF WriteFlash, flashVars
  <2>. QED  BY <2>1, <2>2, HeardWrite
<1>. QED  BY <1>1, FlashStarts, FlashStep, PTL DEF FlashSpec, OnlyCommandsChange

-----------------------------------------------------------------------------
(* The display driver.                                                     *)

\* What division by eight and by six leaves.
LEMMA Divided ==
  ASSUME NEW n \in Nat
  PROVE  /\ n \div 8 \in Nat /\ n % 8 \in 0..7 /\ n = 8 * (n \div 8) + (n % 8)
         /\ n \div 6 \in Nat /\ n % 6 \in 0..5 /\ n = 6 * (n \div 6) + (n % 6)
OBVIOUS

\* The number of six-pixel cells in a row.
LEMMA CellsInRow ==
  LET cells == (Stride * 8 + 5) \div 6 IN
  cells \in Nat /\ cells > 0 /\ Stride <= cells /\ 6 * (cells - 1) < 8 * Stride
BY LcdAssumption DEF LcdAssumption

\* The type of the driver, field by field.
LcdFields ==
  /\ lcd = [field \in DOMAIN lcd |-> lcd[field]]
  /\ DOMAIN lcd = {"mode", "inc", "x", "y", "busy"}
  /\ lcd.mode \in Modes6and8 /\ lcd.inc \in {"up", "down", "left", "right"}
  /\ lcd.x \in -1..(Stride * 8 + 5) \div 6 /\ lcd.y \in -1..Height /\ lcd.busy \in BOOLEAN

LcdInv ==
  /\ lcdmem \in [0..Height - 1 -> [0..Stride - 1 -> LcdByte]]
  /\ LcdFields

\* That is the type which LcdTypeOK gives it.
LEMMA LcdTypes == LcdTypeOK <=> LcdInv
<1>1. LcdTypeOK => LcdFields
  BY DEF LcdTypeOK, LcdFields
<1>2. LcdFields => lcd \in [mode : Modes6and8, inc : {"up", "down", "left", "right"},
              x : -1..(Stride * 8 + 5) \div 6, y : -1..Height, busy : BOOLEAN]
  BY DEF LcdFields
<1>. QED  BY <1>1, <1>2 DEF LcdTypeOK, LcdInv

\* The position that is used is a cell of the display.
LEMMA InDisplay ==
  ASSUME LcdInv
  PROVE  /\ X \in 0..xlimit - 1 /\ Y \in 0..Height - 1
         /\ xlimit \in 1..(Stride * 8 + 5) \div 6
         /\ lcd.mode = 8 => xlimit = Stride
         /\ lcd.mode # 8 => lcd.mode = 6 /\ 6 * X < 8 * Stride
<1>. DEFINE cells == (Stride * 8 + 5) \div 6
<1>1. cells \in Nat /\ cells > 0 /\ Stride <= cells /\ 6 * (cells - 1) < 8 * Stride
  BY CellsInRow
<1>2. /\ Stride \in Nat /\ Stride > 0 /\ Height \in Nat /\ Height > 0
      /\ lcd.mode \in {6, 8} /\ lcd.x \in -1..cells /\ lcd.y \in -1..Height
  BY LcdAssumption DEF LcdAssumption, LcdInv, LcdFields, Modes6and8
<1>3. xlimit = IF lcd.mode = 8 THEN Stride ELSE cells
  BY DEF xlimit
<1>. HIDE DEF cells
<1>4. X \in 0..xlimit - 1 /\ Y \in 0..Height - 1
  BY <1>1, <1>2, <1>3 DEF X, Y
<1>. QED  BY <1>1, <1>2, <1>3, <1>4 DEF cells

\* Moving on, by a read or a write of the memory.
LEMMA MovedFields ==
  ASSUME LcdInv, lcd' = Moved
  PROVE  LcdFields'
<1>. DEFINE cells == (Stride * 8 + 5) \div 6
<1>1. /\ lcd' = [field \in DOMAIN lcd' |-> lcd'[field]] /\ DOMAIN lcd' = DOMAIN lcd
  BY DEF Moved
<1>2. /\ lcd'.mode = lcd.mode /\ lcd'.inc = lcd.inc /\ lcd'.busy = TRUE
      /\ lcd'.x \in {X - 1, X, X + 1} /\ lcd'.y \in {Y - 1, Y, Y + 1}
  BY DEF Moved, LcdInv, LcdFields
<1>3. cells \in Nat /\ xlimit \in 1..cells /\ X \in 0..xlimit - 1 /\ Y \in 0..Height - 1
  BY CellsInRow, InDisplay
<1>4. Height \in Nat
  BY LcdAssumption DEF LcdAssumption
<1>. HIDE DEF cells
<1>5. lcd'.x \in -1..cells /\ lcd'.y \in -1..Height
  BY <1>2, <1>3, <1>4
<1>. QED  BY <1>1, <1>2, <1>5 DEF LcdInv, LcdFields, cells

\* Six pixels lie in one byte of a row or in two.
LEMMA SixPixels ==
  ASSUME NEW cell \in Nat, 6 * cell < 8 * Stride,
         NEW row \in [0..Stride - 1 -> LcdByte], NEW sprite \in LcdByte,
         X = cell, NEW column \in 0..8 * Stride - 1
  PROVE  LET written == WriteSix(row, sprite) IN
         /\ written \in [0..Stride - 1 -> LcdByte]
         /\ 7 - (column % 8) \in written[column \div 8] <=>
              IF column \div 6 = cell THEN 5 - (column % 6) \in sprite
              ELSE 7 - (column % 8) \in row[column \div 8]
<1>. DEFINE byte == (6 * cell) \div 8
            shift == (6 * cell) % 8
            pixels == shl(sprite, 2)
            first == [row EXCEPT ![byte] = (row[byte] \ shr(2..7, shift)) \cup shr(pixels, shift)]
            second == [first EXCEPT ![byte + 1] =
                        (first[byte + 1] \ shl(2..7, 8 - shift)) \cup shl(pixels, 8 - shift)]
            q == column \div 8
            r == column % 8
            bit == 7 - r
<1>1. /\ byte \in Nat /\ shift \in 0..7 /\ 6 * cell = 8 * byte + shift
      /\ q \in Nat /\ r \in 0..7 /\ column = 8 * q + r
      /\ column \div 6 \in Nat /\ column % 6 \in 0..5
      /\ column = 6 * (column \div 6) + (column % 6) /\ Stride \in Nat /\ Stride > 0
  BY Divided, LcdAssumption DEF LcdAssumption
<1>2. byte \in 0..Stride - 1 /\ q \in 0..Stride - 1 /\ bit \in 0..7
  BY <1>1
<1>3. WriteSix(row, sprite) = IF shift > 2 /\ byte < Stride - 1 THEN second ELSE first
  BY DEF WriteSix
<1>4. /\ \A n \in Int : bit \in shr(2..7, n) <=> bit + n \in 2..7
      /\ \A n \in Int : bit \in shl(2..7, n) <=> bit - n \in 2..7
      /\ \A n \in Int : bit \in shr(pixels, n) <=> bit + n \in 0..7 /\ bit + n - 2 \in sprite
      /\ \A n \in Int : bit \in shl(pixels, n) <=> bit - n \in 0..7 /\ bit - n - 2 \in sprite
  BY <1>2 DEF shr, shl
<1>5. /\ \A set, n : shr(set, n) \in LcdByte /\ shl(set, n) \in LcdByte
      /\ first \in [0..Stride - 1 -> LcdByte]
      /\ byte < Stride - 1 => second \in [0..Stride - 1 -> LcdByte]
  BY <1>1, <1>2 DEF shr, shl, LcdByte
<1>6. /\ first[q] = IF q = byte THEN (row[byte] \ shr(2..7, shift)) \cup shr(pixels, shift)
                    ELSE row[q]
      /\ second[q] = IF q = byte + 1
                     THEN (row[q] \ shl(2..7, 8 - shift)) \cup shl(pixels, 8 - shift)
                     ELSE first[q]
  <2>. DEFINE new == (row[byte] \ shr(2..7, shift)) \cup shr(pixels, shift)
  <2>1. first[q] = IF q = byte THEN new ELSE row[q]
    BY <1>2
  <2>. HIDE DEF first, new
  <2>2. second[q] = IF q = byte + 1
                   THEN (first[q] \ shl(2..7, 8 - shift)) \cup shl(pixels, 8 - shift)
                   ELSE first[q]
    BY <1>1, <1>2, <1>5
  <2>3. byte + 1 # byte
    BY <1>1
  <2>. HIDE DEF second, byte, q
  <2>. QED  BY <2>1, <2>2, <2>3 DEF new
<1>. DEFINE u == column \div 6
            v == column % 6
            was == bit \in row[q]
<1>. HIDE DEF first, second, byte, shift, pixels, q, r, u, v, bit
<1>7. /\ u = cell /\ q = byte => v = r - shift
      /\ u = cell /\ q # byte => q = byte + 1 /\ v = 8 + r - shift /\ shift > 2
      /\ q = byte => (u = cell <=> r - shift \in 0..5)
      /\ q = byte + 1 => (u = cell <=> 8 + r - shift \in 0..5)
  BY <1>1 DEF u, v
<1>8. /\ column \div 6 = u /\ column % 6 = v /\ column \div 8 = q /\ 7 - (column % 8) = bit
      /\ r \in 0..7 /\ bit = 7 - r /\ shift \in 0..7 /\ byte \in Nat /\ q \in 0..Stride - 1
      /\ u \in Nat /\ v \in 0..5 /\ Stride \in Nat
  BY <1>1, <1>2 DEF u, v, q, r, bit
<1>9. CASE q = byte
  <2>1. second[q] = first[q] /\ WriteSix(row, sprite)[q] = first[q]
    <3>1. byte + 1 # byte
      BY <1>8
    <3>. QED  BY <1>3, <1>6, <1>9, <3>1
  <2>2. /\ bit \in shr(2..7, shift) <=> u = cell
        /\ bit \in shr(pixels, shift) <=> u = cell /\ 5 - v \in sprite
    <3>1. bit + shift \in 2..7 <=> u = cell
      BY <1>7, <1>8, <1>9
    <3>2. u = cell => bit + shift - 2 = 5 - v /\ bit + shift \in 0..7
      BY <1>7, <1>8, <1>9
    <3>3. bit + shift \in 0..7 /\ bit + shift - 2 \in 0..7 => bit + shift \in 2..7
      BY <1>8
    <3>4. \A n \in sprite : n \in 0..7
      BY DEF LcdByte
    <3>5. shift \in Int
      BY <1>8
    <3>. QED  BY <1>4, <3>1, <3>2, <3>3, <3>4, <3>5
  <2>. QED  BY <1>5, <1>3, <1>6, <1>8, <1>9, <2>1, <2>2
<1>10. CASE q = byte + 1 /\ shift > 2
  <2>1. second[q] = (row[q] \ shl(2..7, 8 - shift)) \cup shl(pixels, 8 - shift)
    BY <1>6, <1>10
  <2>2. WriteSix(row, sprite)[q] = second[q]
    BY <1>3, <1>8, <1>10
  <2>3. /\ bit \in shl(2..7, 8 - shift) <=> u = cell
        /\ bit \in shl(pixels, 8 - shift) <=> u = cell /\ 5 - v \in sprite
    <3>1. bit - (8 - shift) \in 2..7 <=> u = cell
      BY <1>7, <1>8, <1>10
    <3>2. u = cell => bit - (8 - shift) - 2 = 5 - v /\ bit - (8 - shift) \in 0..7
      BY <1>7, <1>8, <1>10
    <3>3. /\ bit - (8 - shift) \in 0..7 /\ bit - (8 - shift) - 2 \in 0..7
              => bit - (8 - shift) \in 2..7
          /\ 8 - shift \in Int
      BY <1>8
    <3>4. \A n \in sprite : n \in 0..7
      BY DEF LcdByte
    <3>. QED  BY <1>4, <3>1, <3>2, <3>3, <3>4
  <2>. QED  BY <1>3, <1>5, <1>8, <1>10, <2>1, <2>2, <2>3
<1>11. CASE q \notin {byte, byte + 1} \/ (q = byte + 1 /\ shift <= 2)
  <2>1. u # cell
    BY <1>7, <1>8, <1>11
  <2>2. WriteSix(row, sprite)[q] = row[q]
    <3>1. q # byte
      BY <1>8, <1>11
    <3>2. q = byte + 1 => shift <= 2
      BY <1>8, <1>11
    <3>3. first[q] = row[q]
      BY <1>6, <3>1
    <3>4. CASE shift > 2 /\ byte < Stride - 1
      <4>1. q # byte + 1
        BY <3>2, <3>4, <1>8
      <4>. QED  BY <1>3, <1>6, <3>3, <3>4, <4>1
    <3>. QED  BY <1>3, <3>3, <3>4
  <2>. QED  BY <1>3, <1>5, <1>8, <2>1, <2>2
<1>12. WriteSix(row, sprite) \in [0..Stride - 1 -> LcdByte]
  BY <1>3, <1>5
<1>. QED  BY <1>8, <1>9, <1>10, <1>11, <1>12

\* A write of a byte or of six pixels changes the pixels of its cell.
LEMMA WrittenCell ==
  ASSUME LcdInv, NEW sprite \in Sprites, lcd_write(sprite)
  PROVE  /\ LcdInv' /\ drawn'.sprite = sprite
         /\ \A y \in 0..Height - 1, column \in 0..8 * Stride - 1 :
              Lit(y, column)' <=>
                IF y = Y /\ column \div lcd.mode = X
                THEN lcd.mode - 1 - (column % lcd.mode) \in sprite
                ELSE Lit(y, column)
<1>. DEFINE row == IF lcd.mode = 8 THEN [lcdmem[Y] EXCEPT ![X] = sprite]
                   ELSE WriteSix(lcdmem[Y], sprite)
            Rows == [0..Stride - 1 -> LcdByte]
<1>1. /\ lcdmem' = [lcdmem EXCEPT ![Y] = row] /\ lcd' = Moved /\ drawn'.sprite = sprite
  BY DEF lcd_write
<1>2. /\ X \in 0..xlimit - 1 /\ Y \in 0..Height - 1 /\ lcd.mode \in {6, 8}
      /\ xlimit \in 1..(Stride * 8 + 5) \div 6
      /\ lcd.mode = 8 => X \in 0..Stride - 1 /\ xlimit = Stride
      /\ lcd.mode = 6 => X \in Nat /\ 6 * X < 8 * Stride
  BY InDisplay, CellsInRow DEF LcdInv, LcdFields, Modes6and8
<1>3. sprite \in LcdByte /\ Stride \in Nat /\ Stride > 0
  BY LcdAssumption DEF LcdAssumption, LcdByte
<1>4. lcdmem \in [0..Height - 1 -> Rows] /\ lcdmem[Y] \in Rows
  BY <1>2 DEF LcdInv
<1>5. ASSUME NEW column \in 0..8 * Stride - 1
      PROVE  /\ row \in Rows
             /\ 7 - (column % 8) \in row[column \div 8] <=>
                  IF column \div lcd.mode = X THEN lcd.mode - 1 - (column % lcd.mode) \in sprite
                  ELSE 7 - (column % 8) \in lcdmem[Y][column \div 8]
  <2>1. CASE lcd.mode = 8
    <3>1. column \div 8 \in 0..Stride - 1 /\ X \in 0..Stride - 1
      BY <1>2, <1>3, <2>1
    <3>2. row = [lcdmem[Y] EXCEPT ![X] = sprite]
      BY <2>1
    <3>3. row \in Rows /\ row[column \div 8] = IF column \div 8 = X THEN sprite
                                                ELSE lcdmem[Y][column \div 8]
      BY <1>3, <1>4, <3>1, <3>2
    <3>4. lcd.mode - 1 - (column % lcd.mode) = 7 - (column % 8)
      BY <2>1
    <3>. HIDE DEF row
    <3>. QED  BY <2>1, <3>3, <3>4
  <2>2. CASE lcd.mode = 6
    <3>1. row = WriteSix(lcdmem[Y], sprite)
      BY <2>2
    <3>2. lcd.mode - 1 - (column % lcd.mode) = 5 - (column % 6)
      BY <2>2
    <3>3. X \in Nat /\ 6 * X < 8 * Stride
      BY <1>2, <2>2
    <3>4. LET written == WriteSix(lcdmem[Y], sprite) IN
          /\ written \in [0..Stride - 1 -> LcdByte]
          /\ 7 - (column % 8) \in written[column \div 8] <=>
               IF column \div 6 = X THEN 5 - (column % 6) \in sprite
               ELSE 7 - (column % 8) \in lcdmem[Y][column \div 8]
      BY <1>3, <1>4, <3>3, SixPixels
    <3>. HIDE DEF row
    <3>. QED  BY <2>2, <3>1, <3>2, <3>4
  <2>. QED  BY <1>2, <2>1, <2>2
<1>6. row \in Rows
  <2>1. 0 \in 0..8 * Stride - 1
    BY <1>3
  <2>. QED  BY <1>5, <2>1
<1>. HIDE DEF row
<1>7. lcdmem' \in [0..Height - 1 -> Rows]
      /\ \A y \in 0..Height - 1 : lcdmem'[y] = IF y = Y THEN row ELSE lcdmem[y]
  BY <1>1, <1>2, <1>4, <1>6
<1>8. LcdInv'
  BY <1>1, <1>7, MovedFields DEF LcdInv
<1>9. ASSUME NEW y \in 0..Height - 1, NEW column \in 0..8 * Stride - 1
      PROVE  Lit(y, column)' <=>
                IF y = Y /\ column \div lcd.mode = X
                THEN lcd.mode - 1 - (column % lcd.mode) \in sprite
                ELSE Lit(y, column)
  <2>1. Lit(y, column)' <=> 7 - (column % 8) \in lcdmem'[y][column \div 8]
    BY DEF Lit
  <2>2. Lit(y, column) <=> 7 - (column % 8) \in lcdmem[y][column \div 8]
    BY DEF Lit
  <2>3. CASE y = Y
    BY <1>5, <1>7, <2>1, <2>2, <2>3
  <2>4. CASE y # Y
    BY <1>7, <2>1, <2>2, <2>4
  <2>. QED  BY <2>3, <2>4
<1>. QED  BY <1>1, <1>8, <1>9

\* The position, the mode and the direction are set, the driver is ready again
\* or is reset: the memory stays.
LEMMA SettingsKeep ==
  ASSUME LcdInv, lcd_read \/ lcd_control \/ lcd_delay_timer \/ lcd_reset
  PROVE  LcdInv' /\ drawn' = drawn
<1>. DEFINE cells == (Stride * 8 + 5) \div 6
<1>1. UNCHANGED <<lcdmem, drawn>>
  BY DEF lcd_read, lcd_control, lcd_delay_timer, lcd_reset
<1>2. cells \in Nat /\ Height \in Nat /\ Height > 0
  BY CellsInRow, LcdAssumption DEF LcdAssumption
<1>3. CASE lcd_read
  BY <1>1, <1>3, MovedFields DEF lcd_read, LcdInv
<1>4. CASE lcd_control
  <2>1. ASSUME NEW mode \in Modes6and8, lcd' = [lcd EXCEPT !.mode = mode, !.busy = TRUE]
        PROVE  LcdFields'
    <3>1. lcd' = [field \in DOMAIN lcd' |-> lcd'[field]] /\ DOMAIN lcd' = DOMAIN lcd
      BY <2>1
    <3>2. /\ lcd'.mode = mode /\ lcd'.busy = TRUE /\ lcd'.inc = lcd.inc
          /\ lcd'.x = lcd.x /\ lcd'.y = lcd.y
      BY <2>1 DEF LcdInv, LcdFields
    <3>. QED  BY <3>1, <3>2 DEF LcdInv, LcdFields
  <2>2. ASSUME NEW inc \in {"up", "down", "left", "right"},
               lcd' = [lcd EXCEPT !.inc = inc, !.busy = TRUE]
        PROVE  LcdFields'
    <3>1. lcd' = [field \in DOMAIN lcd' |-> lcd'[field]] /\ DOMAIN lcd' = DOMAIN lcd
      BY <2>2
    <3>2. /\ lcd'.inc = inc /\ lcd'.busy = TRUE /\ lcd'.mode = lcd.mode
          /\ lcd'.x = lcd.x /\ lcd'.y = lcd.y
      BY <2>2 DEF LcdInv, LcdFields
    <3>. QED  BY <3>1, <3>2 DEF LcdInv, LcdFields
  <2>3. ASSUME NEW x \in 0..cells, lcd' = [lcd EXCEPT !.x = x, !.busy = TRUE]
        PROVE  LcdFields'
    <3>1. lcd' = [field \in DOMAIN lcd' |-> lcd'[field]] /\ DOMAIN lcd' = DOMAIN lcd
      BY <2>3
    <3>2. /\ lcd'.x = x /\ lcd'.busy = TRUE /\ lcd'.mode = lcd.mode
          /\ lcd'.inc = lcd.inc /\ lcd'.y = lcd.y
      BY <2>3 DEF LcdInv, LcdFields
    <3>3. x \in -1..cells
      BY <1>2
    <3>. QED  BY <3>1, <3>2, <3>3 DEF LcdInv, LcdFields
  <2>4. ASSUME NEW y \in 0..Height - 1, lcd' = [lcd EXCEPT !.y = y, !.busy = TRUE]
        PROVE  LcdFields'
    <3>1. lcd' = [field \in DOMAIN lcd' |-> lcd'[field]] /\ DOMAIN lcd' = DOMAIN lcd
      BY <2>4
    <3>2. /\ lcd'.y = y /\ lcd'.busy = TRUE /\ lcd'.mode = lcd.mode
          /\ lcd'.inc = lcd.inc /\ lcd'.x = lcd.x
      BY <2>4 DEF LcdInv, LcdFields
    <3>3. y \in -1..Height
      BY <1>2
    <3>. QED  BY <3>1, <3>2, <3>3 DEF LcdInv, LcdFields
  <2>5. LcdFields'
    BY <1>4, <2>1, <2>2, <2>3, <2>4 DEF lcd_control
  <2>. QED  BY <1>1, <2>5 DEF LcdInv
<1>5. CASE lcd_delay_timer
  <2>1. lcd' = [lcd EXCEPT !.busy = FALSE]
    BY <1>5 DEF lcd_delay_timer
  <2>2. LcdFields'
    BY <2>1 DEF LcdInv, LcdFields
  <2>. QED  BY <1>1, <2>2 DEF LcdInv
<1>6. CASE lcd_reset
  <2>1. LcdFields'
    BY <1>2, <1>6 DEF lcd_reset, AtRest, LcdFields, Modes6and8
  <2>. QED  BY <1>1, <2>1 DEF LcdInv
<1>. QED  BY <1>1, <1>3, <1>4, <1>5, <1>6

\* A byte or six pixels that software writes show in the cell of the position
\* and in no other pixel, for a display of any size, any bytes and however the
\* position got there; and the position never leaves its range.
THEOREM LcdDrawsItsCell == LcdSpec => []LcdTypeOK /\ DrawsItsCell
<1>. DEFINE Drawn ==
       drawn'.writes > drawn.writes =>
         \A y \in 0..Height - 1, column \in 0..8 * Stride - 1 :
           Lit(y, column)' =
             IF y = Y /\ column \div lcd.mode = X
             THEN lcd.mode - 1 - (column % lcd.mode) \in drawn'.sprite
             ELSE Lit(y, column)
<1>. DEFINE Counted == LcdInv /\ drawn.writes \in Nat
<1>1. LcdInit => Counted
  <2>. SUFFICES ASSUME LcdInit PROVE Counted
    OBVIOUS
  <2>1. Height \in Nat /\ Height > 0 /\ (Stride * 8 + 5) \div 6 \in Nat
    BY CellsInRow, LcdAssumption DEF LcdAssumption
  <2>2. LcdFields
    BY <2>1 DEF LcdInit, AtRest, LcdFields, Modes6and8
  <2>3. lcdmem \in [0..Height - 1 -> [0..Stride - 1 -> LcdByte]] /\ drawn.writes = 0
    BY DEF LcdInit, LcdByte
  <2>. QED  BY <2>2, <2>3 DEF LcdInv
<1>2. Counted /\ [LcdNext]_lcdVars => Counted' /\ [Drawn]_lcdVars
  <2>. SUFFICES ASSUME Counted, [LcdNext]_lcdVars PROVE Counted' /\ [Drawn]_lcdVars
    OBVIOUS
  <2>1. ASSUME NEW sprite \in Sprites, lcd_write(sprite)
        PROVE  Counted' /\ Drawn
    <3>1. drawn'.writes \in Nat
      BY <2>1 DEF lcd_write
    <3>2. /\ LcdInv' /\ drawn'.sprite = sprite
          /\ \A y \in 0..Height - 1, column \in 0..8 * Stride - 1 :
               Lit(y, column)' <=>
                 IF y = Y /\ column \div lcd.mode = X
                 THEN lcd.mode - 1 - (column % lcd.mode) \in sprite
                 ELSE Lit(y, column)
      BY <2>1, WrittenCell
    <3>. QED  BY <3>1, <3>2 DEF Lit
  <2>2. CASE lcd_read \/ lcd_control \/ lcd_delay_timer \/ lcd_reset
    BY <2>2, SettingsKeep
  <2>3. CASE UNCHANGED lcdVars
    BY <2>3 DEF lcdVars, LcdInv, LcdFields
  <2>. QED  BY <2>1, <2>2, <2>3 DEF LcdNext
<1>3. Counted => LcdTypeOK
  BY LcdTypes
<1>. QED  BY <1>1, <1>2, <1>3, PTL DEF LcdSpec, DrawsItsCell
=============================================================================
