------------------------------ MODULE Z80Timers ------------------------------
(***************************************************************************)
(* The timers of the emulated processor (apps/tilem/emu/z80.c): an array   *)
(* of timers linked into two doubly linked lists, one for times in clocks  *)
(* and one for times in microseconds, each sorted by deadline, and a list  *)
(* of free entries.  Entry 0 of the array ends the lists; the code writes  *)
(* its links and never reads them, so they are left out.                   *)
(*                                                                         *)
(* A deadline is kept as the clocks that are left (count - clock): the     *)
(* code uses no other form of it.                                          *)
(***************************************************************************)
EXTENDS Integers, Sequences, FiniteSets

CONSTANTS Hardware,    \* number of timers that always exist
          MaxTimers,   \* bound: the last entry the array may have
          MaxInUse,    \* bound: entries in use at a time
          Counts, Periods,   \* arguments of the timer functions
          Clocks,      \* clocks that an instruction takes
          Speeds,      \* clocks per unit of real time
          Quantum,     \* a halted processor skips multiples of this
          Window       \* a deadline passed by more is taken for a later one

Ids == 1..MaxTimers

ASSUME TimersAssumption ==
  /\ Hardware \in Ids /\ {MaxTimers, MaxInUse} \subseteq Nat
  /\ Counts \subseteq Nat \ {0} /\ Periods \subseteq Nat
  /\ Clocks \subseteq 1..Window - 1 /\ Speeds \subseteq Nat \ {0}
  /\ Quantum \in Nat \ {0} /\ Window \in Nat \ {0}

VARIABLES timers,      \* next, prev, left, period, rt of each entry
          heads,       \* timer_cpu, timer_rt, timer_free
          ntimers,     \* entries that exist, entry 0 among them
          clockspeed,
          checking,    \* the clock moved and check_timers has not ended
          rung         \* history: changes whenever a timer calls back

z80Vars == <<timers, heads, ntimers, clockspeed, checking, rung>>

Timer == [next : 0..MaxTimers, prev : 0..MaxTimers, left : Int, period : Nat]

Z80TypeOK ==
  /\ timers \in [Ids -> Timer]
  /\ heads \in [{"cpu", "rt", "free"} -> 0..MaxTimers]
  /\ ntimers \in Hardware + 1..MaxTimers + 1
  /\ clockspeed \in Speeds /\ checking \in BOOLEAN /\ rung \in BOOLEAN

Z80 == [timers |-> timers, heads |-> heads]

\* The entries of a list, in order: from[n][id] are those from id on, at most
\* n of them.
Listed(z, list) ==
  LET from[n \in 0..MaxTimers] ==
        [id \in 0..MaxTimers |->
           IF n = 0 \/ id = 0 THEN <<>> ELSE <<id>> \o from[n - 1][z.timers[id].next]]
  IN  from[MaxTimers][z.heads[list]]

Members(list) ==
  LET ids == Listed(Z80, list) IN {ids[n] : n \in DOMAIN ids}

-----------------------------------------------------------------------------
(* The lists. *)

\* What a stopped timer keeps of its last run is not used again.
Stopped == [next |-> 0, prev |-> 0, left |-> 0, period |-> 0]

link(z, prev, next) ==
  [z EXCEPT !.timers = [id \in Ids |->
     [z.timers[id] EXCEPT !.next = IF id = prev THEN next ELSE @,
                          !.prev = IF id = next THEN prev ELSE @]]]

timer_insert(z, list, tmr) ==
  LET sorted == Listed(z, list)
      later == {n \in DOMAIN sorted :
                  IF n = 1 THEN z.timers[tmr].left < z.timers[sorted[1]].left
                  ELSE z.timers[tmr].left <= z.timers[sorted[n]].left}
      place == IF later = {} THEN Len(sorted) + 1
               ELSE CHOOSE n \in later : \A m \in later : n <= m
      prev == IF place = 1 THEN 0 ELSE sorted[place - 1]
      next == IF place > Len(sorted) THEN 0 ELSE sorted[place]
      linked == link(link(z, prev, tmr), tmr, next)
  IN  IF prev = 0 THEN [linked EXCEPT !.heads[list] = tmr] ELSE linked

\* Mutant: the head of the other list stays.
timer_unset_cpu(z, tmr) ==
  LET next == z.timers[tmr].next
      linked == link(z, z.timers[tmr].prev, next)
  IN  [linked EXCEPT !.heads["cpu"] = IF @ = tmr THEN next ELSE @, !.timers[tmr] = Stopped]

timer_unset(z, tmr) ==
  LET prev == z.timers[tmr].prev
      next == z.timers[tmr].next
      linked == link(z, prev, next)
  IN  [linked EXCEPT
         !.heads = [list \in DOMAIN @ |->
                      IF list # "free" /\ @[list] = tmr THEN next ELSE @[list]],
         !.timers[tmr] = Stopped]

\* Mutant: a period begins when the timer was served.
timer_set_now(z, tmr, count, period, list, late) ==
  IF count = 0 THEN [z EXCEPT !.timers[tmr] = Stopped]
  ELSE timer_insert(
         [z EXCEPT !.timers[tmr].period = period,
            !.timers[tmr].left = IF list = "rt" THEN count * clockspeed ELSE count],
         list, tmr)

\* late: how far the deadline that is renewed has passed.
timer_set(z, tmr, count, period, list, late) ==
  IF count = 0 THEN [z EXCEPT !.timers[tmr] = Stopped]
  ELSE timer_insert(
         [z EXCEPT !.timers[tmr].period = period,
            !.timers[tmr].left = (IF list = "rt" THEN count * clockspeed ELSE count) - late],
         list, tmr)

timer_free(z, tmr) ==
  [z EXCEPT !.timers[tmr].next = z.heads["free"], !.timers[tmr].prev = 0,
            !.heads["free"] = tmr]

become(z) == timers' = z.timers /\ heads' = z.heads

-----------------------------------------------------------------------------
(* The functions that the rest of the emulator calls, from callbacks too. *)

InUse == (1..ntimers - 1) \ Members("free")

\* When no entry is free the array grows, and the last new entry is taken.
Grown == ntimers * 2

\* The new entries are freed one after the other, each before the last one.
allFree(first, last) ==
  [timers |-> [id \in Ids |->
     IF id \in first..last
     THEN [timers[id] EXCEPT !.next = IF id = first THEN heads["free"] ELSE id - 1,
                             !.prev = 0]
     ELSE timers[id]],
   heads |-> [heads EXCEPT !["free"] = last]]

add_timer(count, period, list) ==
  LET grow == heads["free"] = 0
      z == IF grow THEN allFree(ntimers, Grown) ELSE Z80
      id == z.heads["free"]
      taken == [z EXCEPT !.heads["free"] = z.timers[id].next, !.timers[id].next = 0]
  IN
  /\ grow => Grown <= MaxTimers
  /\ Cardinality(InUse) < MaxInUse
  /\ ntimers' = IF grow THEN Grown + 1 ELSE ntimers
  /\ become(timer_set(taken, id, count, period, list, 0))
  /\ UNCHANGED <<clockspeed, checking, rung>>

set_timer(id, count, period, list) ==
  /\ id \in InUse
  /\ become(timer_set(timer_unset(Z80, id), id, count, period, list, 0))
  /\ UNCHANGED <<ntimers, clockspeed, checking, rung>>

timer_running(id) == id \in {heads["cpu"], heads["rt"]} \/ timers[id].prev # 0

set_timer_period(id, period) ==
  /\ timer_running(id)
  /\ timers' = [timers EXCEPT ![id].period = period]
  /\ UNCHANGED <<heads, ntimers, clockspeed, checking, rung>>

remove_timer(id) ==
  /\ id \in InUse /\ id > Hardware
  /\ become(timer_free(timer_unset(Z80, id), id))
  /\ UNCHANGED <<ntimers, clockspeed, checking, rung>>

set_speed(speed) ==
  /\ speed # clockspeed
  /\ LET realtime == Members("rt")
     IN  timers' = [id \in Ids |->
           IF id \in realtime /\ timers[id].left > 0
           THEN [timers[id] EXCEPT !.left = (@ * speed + clockspeed \div 2) \div clockspeed]
           ELSE timers[id]]
  /\ clockspeed' = speed
  /\ UNCHANGED <<heads, ntimers, checking, rung>>

-----------------------------------------------------------------------------
(* Time: the clock moves by an instruction, or to the next deadline when   *)
(* the processor is halted, and check_timers calls back what is due: first *)
(* all of the one list, then all of the other.                             *)

PassTime(clocks) ==
  /\ LET running == Members("cpu") \cup Members("rt")
     IN  timers' = [id \in Ids |-> IF id \in running THEN [timers[id] EXCEPT !.left = @ - clocks]
                                   ELSE timers[id]]
  /\ UNCHANGED <<heads, ntimers, clockspeed, rung>>

Due(list) == heads[list] # 0 /\ timers[heads[list]].left \in -Window + 1..0

Execute(clocks) ==
  /\ ~checking
  /\ PassTime(clocks)
  /\ checking' = TRUE

Fire(list) ==
  LET tmr == heads[list]
      period == timers[tmr].period
  IN
  /\ checking /\ Due(list)
  /\ list = "rt" => ~Due("cpu")
  /\ become(timer_set(timer_unset(Z80, tmr), tmr, period, period, list, -timers[tmr].left))
  /\ rung' = ~rung
  /\ UNCHANGED <<ntimers, clockspeed, checking>>

EndCheck ==
  /\ checking /\ ~Due("cpu") /\ ~Due("rt")
  /\ checking' = FALSE
  /\ UNCHANGED <<timers, heads, ntimers, clockspeed, rung>>

HaltSkip ==
  LET ahead == {timers[heads[list]].left : list \in {l \in {"cpu", "rt"} : heads[l] # 0}}
      next == CHOOSE clocks \in ahead : \A other \in ahead : clocks <= other
  IN
  /\ ~checking /\ ahead # {}
  /\ PassTime((next \div Quantum) * Quantum)
  /\ checking' = TRUE

Z80Init ==
  /\ timers = [id \in Ids |-> Stopped]
  /\ heads = [list \in {"cpu", "rt", "free"} |-> 0]
  /\ ntimers = Hardware + 1
  /\ clockspeed \in Speeds /\ checking = FALSE /\ rung = FALSE

Z80Next ==
  \/ \E list \in {"cpu", "rt"} :
       \/ Fire(list)
       \/ \E count \in Counts, period \in Periods :
            \/ add_timer(count, period, list)
            \/ \E id \in Ids : set_timer(id, count, period, list)
  \/ \E id \in Ids :
       \/ \E period \in Periods : set_timer_period(id, period)
       \/ set_timer(id, 0, 0, "cpu")
       \/ remove_timer(id)
  \/ \E speed \in Speeds : set_speed(speed)
  \/ \E clocks \in Clocks : Execute(clocks)
  \/ EndCheck
  \/ HaltSkip

Z80Spec == Z80Init /\ [][Z80Next]_z80Vars

-----------------------------------------------------------------------------
\* The lists stay lists through every order of insertions, removals, renewals
\* and growth of the array: each is linked alike in both directions, no timer
\* is in two of them, and a timer is taken to run exactly when it is in one of
\* the two (tilem_z80_timer_running looks at heads and links only).
ListsAreSound ==
  LET cpu == Members("cpu")
      rt == Members("rt")
      free == Members("free")
  IN
  /\ \A list \in {"cpu", "rt"} :
       LET ids == Listed(Z80, list) IN
       \A n \in DOMAIN ids : timers[ids[n]].prev = IF n = 1 THEN 0 ELSE ids[n - 1]
  /\ cpu \cap rt = {} /\ (cpu \cup rt) \cap free = {}
  /\ \A id \in 1..ntimers - 1 : timer_running(id) <=> id \in cpu \cup rt

\* The lists keep the promise of the timers: see Alarms.
AlarmsOfLists ==
  LET realtime == Members("rt") IN
  [id \in Ids |->
     IF timer_running(id)
     THEN [on |-> TRUE, left |-> timers[id].left, rt |-> id \in realtime]
     ELSE [on |-> FALSE, left |-> 0, rt |-> FALSE]]

Promise == INSTANCE Alarms WITH
  alarms <- AlarmsOfLists,
  Periods <- Periods \cup {period * speed : period \in Periods, speed \in Speeds}

\* No timer is forgotten, rings early or out of turn, or drifts, however the
\* lists are changed by callbacks while they are worked through (check_timers).
TimersKeepTime == Promise!AlarmsSafe
=============================================================================
