------------------------------- MODULE Timers -------------------------------
(***************************************************************************)
(* The timers of rMlib's UI (Timer.h) and the priority queue in which      *)
(* AppContext keeps them: callbacks run inside checkTimers, and may add    *)
(* timers to the queue and disable timers in it, their own included, while *)
(* checkTimers holds on to the element it found at the front.              *)
(***************************************************************************)
EXTENDS Integers

CONSTANTS
  Timers,     \* Timer objects; each is made once
  Handles,    \* the TimerHandle members of the application's objects
  NoTimer,    \* a handle whose pointer is null
  Durations,  \* delays that timers are made with
  Period,     \* the interval of the timers that repeat
  Horizon     \* bound: the clock stops here

ASSUME TimersAssumption ==
  /\ NoTimer \notin Timers
  /\ Durations \subseteq Nat
  /\ Period \in Nat \ {0}
  /\ Horizon \in Nat

VARIABLES
  now,        \* steady_clock::now()
  stage,      \* where the loop stands: outside checkTimers, or inside
  queue,      \* the elements of AppContext::timers
  front,      \* what timers.top() is, NoTimer when the queue is empty
  made,       \* Timers made so far
  trigger,    \* triggerTime of each
  enabled,
  repeats,    \* those whose repeat has a value
  held,       \* the Timer each handle points to
  checked,    \* the local variable top of checkTimers
  lastFired   \* when the callback of each ran last, -1 if it never did

timerVars   == <<made, trigger, enabled, repeats, held>>
queueVars   == <<queue, front>>
timersState == <<now, stage, queueVars, timerVars, checked, lastFired>>

TimersTypeOK ==
  /\ now \in 0..Horizon
  /\ stage \in {"app", "check", "callback", "pop"}
  /\ queue \subseteq made
  /\ front \in queue \cup {NoTimer}
  /\ made \subseteq Timers
  /\ trigger \in [Timers -> Nat]
  /\ enabled \subseteq made
  /\ repeats \subseteq enabled
  /\ held \in [Handles -> made \cup {NoTimer}]
  /\ checked \in made \cup {NoTimer}
  /\ lastFired \in [Timers -> -1..Horizon]

-----------------------------------------------------------------------------
(* The priority queue.  Its front is an element that triggers no later     *)
(* than any other; among equals, the one that is there already stays.      *)

\* Mutant: TimerCmp compares with >=, so that an equal element goes ahead.
aheadOrEqual(t, time) ==
  queue = {} \/ time <= trigger[front]

\* Whether a Timer t with the given triggerTime becomes the new front.
ahead(t, time) == queue = {} \/ time < trigger[front]

\* The candidates for the front when the elements of S are left.
earliest(S, time) == {t \in S : \A u \in S : time[t] <= time[u]}

\* timers.emplace, where the queue is not empty or t is its only element.
Push(t, time) ==
  /\ queue' = queue \cup {t}
  /\ front' = IF ahead(t, time) THEN t ELSE front

-----------------------------------------------------------------------------
(* What the application does, in a callback or between two passes.         *)

InApp == stage \in {"app", "callback"}

\* addTimer, whose result is assigned to h.  The move assignment of h is
\* defaulted: a Timer that h held before stays as it is, without a handle.
AddTimer(h, t, duration, repeat) ==
  /\ InApp
  /\ t \notin made
  /\ made' = made \cup {t}
  /\ trigger' = [trigger EXCEPT ![t] = now + duration]
  /\ enabled' = enabled \cup {t}
  /\ repeats' = IF repeat THEN repeats \cup {t} ELSE repeats
  /\ held' = [held EXCEPT ![h] = t]
  /\ Push(t, now + duration)
  /\ UNCHANGED <<now, stage, checked, lastFired>>

withoutTimer(t) == enabled \ {t}

\* TimerHandle::disable, or its destructor.
Disable(h) ==
  /\ InApp
  /\ held[h] # NoTimer
  /\ enabled' = withoutTimer(held[h])
  /\ repeats' = repeats \ {held[h]}
  /\ held' = [held EXCEPT ![h] = NoTimer]
  /\ UNCHANGED <<now, stage, queueVars, made, trigger, checked, lastFired>>

-----------------------------------------------------------------------------
(* AppContext::checkTimers.                                                *)

Begin ==
  /\ stage = "app"
  /\ stage' = "check"
  /\ UNCHANGED <<now, queueVars, timerVars, checked, lastFired>>

\* check() of the front: a disabled Timer is dropped whenever it gets there,
\* an enabled one fires when it is due, and otherwise the pass is over.
CheckDisabled ==
  /\ stage = "check"
  /\ queue # {} /\ front \notin enabled
  /\ checked' = front
  /\ stage' = "pop"
  /\ UNCHANGED <<now, queueVars, timerVars, lastFired>>

Fire ==
  /\ stage = "check"
  /\ queue # {} /\ front \in enabled /\ now >= trigger[front]
  /\ checked' = front
  /\ lastFired' = [lastFired EXCEPT ![front] = now]
  /\ stage' = "callback"
  /\ UNCHANGED <<now, queueVars, timerVars>>

End ==
  /\ stage = "check"
  /\ \/ queue = {}
     \/ front \in enabled /\ now < trigger[front]
  /\ stage' = "app"
  /\ UNCHANGED <<now, queueVars, timerVars, checked, lastFired>>

Return ==
  /\ stage = "callback"
  /\ stage' = "pop"
  /\ UNCHANGED <<now, queueVars, timerVars, checked, lastFired>>

\* Mutant: a repeating Timer keeps its schedule when it is late.
resetFromTrigger(t) == trigger[t] + Period

\* Timer::reset.
reset(t) == now + Period

\* pop() takes whatever is at the front; the Timer that was checked, when it
\* still repeats, is reset and added again.
Pop ==
  /\ stage = "pop"
  /\ stage' = "check"
  /\ trigger' = IF checked \in repeats
                  THEN [trigger EXCEPT ![checked] = reset(checked)]
                  ELSE trigger
  /\ queue' = (queue \ {front}) \cup ({checked} \cap repeats)
  /\ front' \in IF queue' = {} THEN {NoTimer} ELSE earliest(queue', trigger')
  /\ UNCHANGED <<now, made, enabled, repeats, held, checked, lastFired>>

Tick ==
  /\ now < Horizon
  /\ now' = now + 1
  /\ UNCHANGED <<stage, queueVars, timerVars, checked, lastFired>>

-----------------------------------------------------------------------------
TimersInit ==
  /\ now = 0
  /\ stage = "app"
  /\ queue = {}
  /\ front = NoTimer
  /\ made = {}
  /\ trigger = [t \in Timers |-> 0]
  /\ enabled = {}
  /\ repeats = {}
  /\ held = [h \in Handles |-> NoTimer]
  /\ checked = NoTimer
  /\ lastFired = [t \in Timers |-> -1]

CheckTimers == Begin \/ CheckDisabled \/ Fire \/ End \/ Return \/ Pop

TimersNext ==
  \/ CheckTimers
  \/ \E h \in Handles : Disable(h)
  \/ \E h \in Handles, t \in Timers, d \in Durations, repeat \in BOOLEAN :
       AddTimer(h, t, d, repeat)
  \/ Tick

\* The loop waits no longer than until the front is due.
TimersSpec == TimersInit /\ [][TimersNext]_timersState
FairTimersSpec == TimersSpec /\ WF_timersState(CheckTimers)

-----------------------------------------------------------------------------
(* What the queue promises.                                                *)

\* checkTimers pops the Timer it has checked, although the callback in
\* between may have added another to the same queue.
PopsWhatWasChecked == stage \in {"callback", "pop"} => front = checked

\* The front is the earliest Timer of the queue, so select, which waits until
\* the front is due (getNextDuration), never sleeps past a Timer.
FrontIsEarliest ==
  IF queue = {} THEN front = NoTimer
  ELSE front \in queue /\ \A t \in queue : trigger[front] <= trigger[t]

\* A Timer that was not disabled and has not run, or repeats, is in the
\* queue: none gets lost when callbacks add Timers.
NoTimerLost ==
  \A t \in enabled : t \in repeats \/ lastFired[t] = -1 => t \in queue

\* A Timer that repeats does not run again before its period has passed, no
\* matter how late the loop is.
NoBurst ==
  [][\A t \in Timers :
       stage # "callback" /\ stage' = "callback" /\ checked' = t /\ lastFired[t] # -1
         => now >= lastFired[t] + Period]_timersState

\* A Timer that is due runs, unless it is disabled first.
DueTimerRuns ==
  \A t \in Timers :
    t \in enabled /\ lastFired[t] = -1 /\ now >= trigger[t]
      ~> lastFired[t] # -1 \/ t \notin enabled

-----------------------------------------------------------------------------
(* The inductive invariant behind all but the last of these.           *)

Handling(t) == stage \in {"callback", "pop"} /\ t = checked

\* While a Timer is handled it stays at the front, because it is due and what
\* its callback adds is not due before; afterwards it has run or was disabled.
HandlingInv ==
  /\ stage \in {"callback", "pop"} =>
       /\ checked \in queue /\ front = checked
       /\ checked \in enabled => lastFired[checked] # -1
  /\ stage = "callback" => trigger[checked] <= now

\* A Timer that has run is due again a period later, once it is handled.
PeriodInv ==
  /\ \A t \in Timers : lastFired[t] <= now
  /\ \A t \in Timers \ made : lastFired[t] = -1
  /\ \A t \in queue :
       lastFired[t] # -1 /\ ~Handling(t) => trigger[t] >= lastFired[t] + Period

TInv ==
  /\ TimersTypeOK
  /\ FrontIsEarliest
  /\ NoTimerLost
  /\ HandlingInv
  /\ PeriodInv

=============================================================================
