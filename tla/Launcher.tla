------------------------------ MODULE Launcher ------------------------------
(***************************************************************************)
(* Rocket, the application launcher (apps/rocket): the LauncherState       *)
(* widget, the App objects it owns, the child processes behind them and    *)
(* the event loop that calls it (runApp in libs/rMlib/include/UI.h).       *)
(*                                                                         *)
(* A callback runs to completion on the only thread, so it is one action;  *)
(* the SIGCHLD handler and the processes move between any two actions.     *)
(* The inside of the handler and of the callbacks it interrupts is the     *)
(* subject of module SignalLoop, the timer queue that of module Timers.    *)
(*                                                                         *)
(* Assertions are compiled out of the build that is shipped (Release), so  *)
(* a failing one is recorded in failedAsserts and the code runs on.        *)
(***************************************************************************)
EXTENDS Integers, FiniteSets

CONSTANTS
  Paths,              \* paths of draft files; a path identifies an App
  Pids,               \* process ids fork may return; one is not used twice
  NoPath,             \* the empty string in currentAppPath
  NoPid,              \* an App whose runInfo is nullopt
  SleepTimeout,       \* default_sleep_timeout
  RetryTimeout,       \* retry_sleep_timeout
  InactivityTimeout,  \* default_inactivity_timeout
  Batch,              \* bound: input events handled in one loop iteration
  MaxSleepTimers,     \* bound: sleep timers alive in the queue
  CountdownDepth,     \* bound: how far below zero the countdown is followed
  ForkMayFail,        \* whether fork may return -1
  DraftsChange        \* whether draft files come and go while rocket runs

ASSUME NamesAssumption == NoPath \notin Paths /\ NoPid \notin Pids

ASSUME TimeoutsAssumption ==
  /\ SleepTimeout \in Nat \ {0}
  /\ RetryTimeout \in Nat \ {0}
  /\ InactivityTimeout \in Nat \ {0}

ASSUME BoundsAssumption ==
  /\ Batch \in Nat \ {0}
  /\ MaxSleepTimers \in Nat \ {0}
  /\ CountdownDepth \in Nat \ {0, 1}

ASSUME EnvironmentAssumption ==
  ForkMayFail \in BOOLEAN /\ DraftsChange \in BOOLEAN

VARIABLES
  \* LauncherState and its Apps
  apps,            \* paths of the elements of the vector apps
  pidOf,           \* runInfo->pid of each App, NoPid when runInfo is nullopt
  paused,          \* Apps with runInfo->paused
  shouldRemove,    \* Apps with runInfo->shouldRemove
  currentAppPath,
  visible,
  failedAsserts,   \* assertions that were false when control reached them
  \* LauncherState's timers
  sleepCountdown,
  sleepTimer,      \* whether the handle sleepTimer holds a timer
  liveTimers,      \* enabled timers in the queue whose callback is tick
  inactivityCountdown,
  \* runApp
  phase,           \* where the loop stands
  ui,              \* what the widget tree built last refers to
  due,             \* timer callbacks that may still be due in this iteration
  handled,         \* input events handled in this iteration
  doLaters,        \* whether AppContext::doLaters holds a callback
  \* the operating system
  drafts,          \* draft files present
  proc,            \* state of each process
  term,            \* processes that were sent SIGTERM
  unheard,         \* paused processes that SIGSTOP did not reach
  sigchld,         \* whether SIGCHLD is pending
  stoppedChildren  \* reaped by cleanup, not yet seen by updateStoppedApps

appVars   == <<apps, pidOf, paused, shouldRemove, currentAppPath, visible,
               failedAsserts>>
sleepVars == <<sleepCountdown, sleepTimer, liveTimers>>
loopVars  == <<phase, ui, due, handled, doLaters>>
procVars  == <<proc, term, unheard, sigchld>>
vars      == <<appVars, sleepVars, inactivityCountdown, loopVars, drafts,
               procVars, stoppedChildren>>

\* A process: not forked yet; forked but still in rocket's process group
\* (setpgid has not run); running; stopped; dead but not waited for; reaped.
ProcStates == {"none", "forked", "run", "stop", "zombie", "gone"}

Phases == {"rebuild", "wait", "timers", "laters", "input", "exited",
           "undefined"}

\* What the buttons and the app widgets of one build() can call.
Buttons == {"none", "Stop", "Sleep"}
NoWidgets == [apps |-> {}, running |-> {}, button |-> "none"]

TypeOK ==
  /\ apps \subseteq Paths
  /\ pidOf \in [Paths -> Pids \cup {NoPid}]
  /\ paused \subseteq Paths
  /\ shouldRemove \subseteq Paths
  /\ currentAppPath \in Paths \cup {NoPath}
  /\ visible \in BOOLEAN
  /\ failedAsserts \subseteq {"pause", "stop"}
  /\ sleepCountdown \in Int
  /\ sleepTimer \in BOOLEAN
  /\ liveTimers \in 0..MaxSleepTimers
  /\ inactivityCountdown \in 1..InactivityTimeout
  /\ phase \in Phases
  /\ ui \in [apps: SUBSET Paths, running: SUBSET Paths, button: Buttons]
  /\ due \in 0..MaxSleepTimers + 1
  /\ handled \in 0..Batch
  /\ doLaters \in BOOLEAN
  /\ drafts \subseteq Paths
  /\ proc \in [Pids -> ProcStates]
  /\ term \subseteq Pids
  /\ unheard \subseteq Pids
  /\ sigchld \in BOOLEAN
  /\ stoppedChildren \subseteq Pids

isRunning(p) == pidOf[p] # NoPid
isPaused(p)  == isRunning(p) /\ p \in paused

\* getCurrentApp() is not nullptr.
hasCurrentApp == currentAppPath \in apps

-----------------------------------------------------------------------------
(* Signals to a process group.  A child that has not run setpgid is not in *)
(* the group -pid, so kill() finds no one; the code ignores its result.    *)

Stopped(st)   == IF st = "run" THEN "stop" ELSE st
Continued(st) == IF st = "stop" THEN "run" ELSE st

\* kill(-pid, ...) of SIGSTOP to the pids in S, then SIGCONT to those in C.
AfterSignals(S, C) ==
  [q \in Pids |->
    LET st == IF q \in S THEN Stopped(proc[q]) ELSE proc[q]
    IN  IF q \in C THEN Continued(st) ELSE st]

\* The parent gets SIGCHLD when a child stops or continues, too.
Signal(S, C) ==
  /\ proc' = AfterSignals(S, C)
  /\ unheard' = (unheard \cup {q \in S : proc[q] = "forked"}) \ C
  /\ sigchld' = (sigchld \/ \E q \in S \cup C : proc[q] \in {"run", "stop"})

-----------------------------------------------------------------------------
(* The operations of LauncherState and App.                                *)

\* Timers left when the one sleepTimer holds is disabled.
liveAfterStop == IF sleepTimer THEN liveTimers - 1 ELSE liveTimers

\* Mutant: the timer is disabled, the countdown is left where it was.
stopTimerKeepsCountdown ==
  /\ sleepTimer' = FALSE
  /\ liveTimers' = liveAfterStop
  /\ UNCHANGED sleepCountdown

stopTimer ==
  /\ sleepCountdown' = -1
  /\ sleepTimer' = FALSE
  /\ liveTimers' = liveAfterStop

\* Assigning the new handle drops the old one without disabling its timer:
\* TimerHandle's move assignment is defaulted.  live: timers alive before.
startTimer(time, live) ==
  /\ live < MaxSleepTimers
  /\ sleepCountdown' = time
  /\ sleepTimer' = TRUE
  /\ liveTimers' = live + 1

running == {p \in Paths : isRunning(p)}

\* Mutant: the App of a removed draft is erased although it is running.
readAppsForgets(A, R) == (A \cap drafts) \cup drafts

\* readApps on a vector A of Apps, of which those in R have a runInfo: the
\* Apps it leaves, and those it marks to be removed when they exit.
readAppsKeep(A, R)   == (A \cap (drafts \cup R)) \cup drafts
readAppsRemove(A, R) == (A \cap R) \ drafts

\* Mutant: switchApp leaves the current app running in the background.
nothingToPause == {p \in {currentAppPath} \cap apps : ~isRunning(p)}

\* Pausing the current app comes first; p itself may be that app.
currentToPause ==
  {p \in {currentAppPath} \cap apps : isRunning(p) /\ ~isPaused(p)}

resume(p, stopping, S) ==
  /\ isRunning(p) /\ p \in stopping
  /\ paused' = stopping \ {p}
  /\ currentAppPath' = p
  /\ Signal(S, {pidOf[p]})
  /\ UNCHANGED <<pidOf, shouldRemove>>

launch(p, stopping, S) ==
  /\ ~isRunning(p)
  /\ \/ \E q \in Pids :
          /\ proc[q] = "none"
          /\ pidOf' = [pidOf EXCEPT ![p] = q]
          /\ paused' = stopping \ {p}
          /\ shouldRemove' = shouldRemove \ {p}
          /\ currentAppPath' = p
          /\ proc' = [AfterSignals(S, {}) EXCEPT ![q] = "forked"]
     \/ /\ ForkMayFail
        /\ proc' = AfterSignals(S, {})
        /\ paused' = stopping
        /\ UNCHANGED <<pidOf, shouldRemove, currentAppPath>>
  /\ unheard' = unheard \cup {q \in S : proc[q] = "forked"}
  /\ sigchld' = (sigchld \/ \E q \in S : proc[q] = "run")

switchTo(p, stopping, S) ==
  /\ isRunning(p) /\ p \notin stopping
  /\ paused' = stopping
  /\ currentAppPath' = p
  /\ Signal(S, {})
  /\ UNCHANGED <<pidOf, shouldRemove>>

switchApp(p) ==
  LET stopping == paused \cup currentToPause
      S        == {pidOf[c] : c \in currentToPause}
  IN  /\ visible' = FALSE
      /\ stopTimer
      /\ \/ resume(p, stopping, S)
         \/ launch(p, stopping, S)
         \/ switchTo(p, stopping, S)
      /\ UNCHANGED <<apps, failedAsserts, term>>

\* App::pause of the current app as show() calls it, unconditionally.
pauseCurrent ==
  IF hasCurrentApp
    THEN /\ paused' = paused \cup {p \in {currentAppPath} : isRunning(p)}
         /\ Signal({pidOf[p] : p \in {currentAppPath}} \ {NoPid}, {})
         /\ failedAsserts' =
              IF isRunning(currentAppPath) /\ ~isPaused(currentAppPath)
                THEN failedAsserts
                ELSE failedAsserts \cup {"pause"}
    ELSE UNCHANGED <<paused, proc, unheard, sigchld, failedAsserts>>

show ==
  IF visible
    THEN UNCHANGED <<appVars, procVars>>
    ELSE /\ pauseCurrent
         /\ apps' = readAppsKeep(apps, running)
         /\ shouldRemove' = shouldRemove \cup readAppsRemove(apps, running)
         /\ visible' = TRUE
         /\ UNCHANGED <<pidOf, currentAppPath, term>>

\* hide() with or without a context to start the sleep timer in; the caller
\* has disabled the timer (toggle by stopTimer, tick by sleepTimer.disable)
\* and left the countdown at -1.
hide(withContext) ==
  IF visible /\ hasCurrentApp
    THEN switchApp(currentAppPath)
    ELSE /\ IF visible /\ withContext
              THEN startTimer(0, liveAfterStop)
              ELSE stopTimer
         /\ UNCHANGED <<appVars, procVars>>

toggle ==
  IF visible
    THEN hide(sleepCountdown <= 0)
    ELSE startTimer(SleepTimeout, liveTimers) /\ show

\* The kill button: App::stop, then stopTimer.  Without a runInfo the pid
\* that is read belongs to a process already reaped, which kill() ignores.
stop(p) ==
  /\ stopTimer
  /\ IF isRunning(p)
       THEN LET q     == pidOf[p]
                group == {r \in {q} : proc[r] \in {"run", "stop"}}
            IN  /\ proc' = AfterSignals({}, {r \in group : isPaused(p)})
                /\ term' = term \cup group
                /\ sigchld' = (sigchld \/ (isPaused(p) /\ proc[q] = "stop"))
                /\ UNCHANGED <<failedAsserts, unheard>>
       ELSE /\ failedAsserts' = failedAsserts \cup {"stop"}
            /\ UNCHANGED procVars
  /\ UNCHANGED <<apps, pidOf, paused, shouldRemove, currentAppPath, visible>>

\* Mutants: every App that exits is erased; currentAppPath still names the
\* App that died; the launcher does not come back when it did.
erasedAll(dead, marked) == dead
currentKept(dead) == currentAppPath
visibleKept(dead) == visible

\* What updateStoppedApps does with the Apps in dead: marked ones are erased,
\* the current one is not current any more and brings the launcher back.
erased(dead, marked) == dead \cap marked
currentAfter(dead) == IF currentAppPath \in dead THEN NoPath ELSE currentAppPath
visibleAfter(dead) == visible \/ currentAppPath \in dead

\* updateStoppedApps for the pids the handler has reaped.  The vector's order
\* matters in one case: showing the launcher re-reads the drafts between the
\* Apps before the current one (first) and those after it.
updateStoppedApps ==
  LET dead == {p \in apps : pidOf[p] \in stoppedChildren}
  IN  /\ stoppedChildren' = {}
      /\ pidOf' = [p \in Paths |-> IF p \in dead THEN NoPid ELSE pidOf[p]]
      /\ paused' = paused \ dead
      /\ currentAppPath' = currentAfter(dead)
      /\ visible' = visibleAfter(dead)
      /\ IF currentAppPath \notin dead \/ visible
           THEN /\ apps' = apps \ erased(dead, shouldRemove)
                /\ shouldRemove' = shouldRemove \ dead
           ELSE \E first \in SUBSET (dead \ {currentAppPath}) :
                  LET early  == first \cup {currentAppPath}
                      kept   == apps \ erased(early, shouldRemove)
                      marked == shouldRemove
                                  \cup readAppsRemove(kept, running \ early)
                  IN  /\ apps' = readAppsKeep(kept, running \ early)
                                   \ erased(dead \ early, marked)
                      /\ shouldRemove' = marked \ dead
      /\ UNCHANGED failedAsserts

-----------------------------------------------------------------------------
(* One iteration of runApp: rebuild, wait, timers, laters, input.          *)

Goto(from, to) == phase = from /\ phase' = to

\* The loop's test, then rebuild: the widgets hold references to the Apps.
Rebuild ==
  /\ Goto("rebuild", "wait")
  /\ ui' = IF visible
             THEN [apps    |-> apps,
                   running |-> apps \cap running,
                   button  |-> CASE sleepCountdown > 0 -> "Stop"
                                 [] sleepCountdown = 0 -> "none"
                                 [] OTHER              -> "Sleep"]
             ELSE NoWidgets
  /\ handled' = 0
  /\ UNCHANGED <<appVars, sleepVars, inactivityCountdown, due, doLaters,
                 drafts, procVars, stoppedChildren>>

\* SIGINT or SIGTERM made the loop end; ~LauncherState resets stopCallback.
Quit ==
  /\ Goto("rebuild", "exited")
  /\ UNCHANGED <<appVars, sleepVars, inactivityCountdown, ui, due, handled,
                 doLaters, drafts, procVars, stoppedChildren>>

\* select returns: input, a timer is due, or a signal.  A timer repeats after
\* a second at the earliest, so each is due once in this pass over the queue.
WaitForInput ==
  /\ Goto("wait", "timers")
  /\ due' = liveTimers + 1
  /\ UNCHANGED <<appVars, sleepVars, inactivityCountdown, ui, handled,
                 doLaters, drafts, procVars, stoppedChildren>>

\* tick, called by one of the timers alive, while the countdown runs.
CountTick ==
  /\ phase = "timers"
  /\ due > 0 /\ liveTimers > 0
  /\ due' = due - 1
  /\ sleepCountdown # 0
  /\ sleepCountdown > -CountdownDepth
  /\ sleepCountdown' = sleepCountdown - 1
  /\ UNCHANGED <<appVars, sleepTimer, liveTimers, inactivityCountdown, phase,
                 ui, handled, doLaters, drafts, procVars, stoppedChildren>>

\* tick at zero, which suspends the device; woken: what sleep() returns, TRUE
\* when the power button ended the suspend.  By then every timer may be due.
SleepTick(woken) ==
  /\ phase = "timers"
  /\ due > 0 /\ liveTimers > 0
  /\ sleepCountdown = 0
  /\ \/ /\ woken
        /\ inactivityCountdown' = InactivityTimeout
        /\ hide(FALSE)
     \/ /\ ~woken
        /\ sleepCountdown' = RetryTimeout
        /\ UNCHANGED <<appVars, sleepTimer, liveTimers, inactivityCountdown,
                       procVars>>
  /\ due' = liveTimers' + 1
  /\ UNCHANGED <<phase, ui, handled, doLaters, drafts, stoppedChildren>>

inactivityExpires == inactivityCountdown - 1 = 0

\* The callback of inactivityTimer, once a minute.
InactivityTick ==
  /\ phase = "timers"
  /\ due > 0
  /\ due' = due - 1
  /\ IF inactivityExpires
       THEN /\ inactivityCountdown' = InactivityTimeout
            /\ startTimer(SleepTimeout, liveTimers)
            /\ show
       ELSE /\ inactivityCountdown' = inactivityCountdown - 1
            /\ UNCHANGED <<appVars, sleepVars, procVars>>
  /\ UNCHANGED <<phase, ui, handled, doLaters, drafts, stoppedChildren>>

TimersChecked ==
  /\ Goto("timers", "laters")
  /\ due' = 0
  /\ UNCHANGED <<appVars, sleepVars, inactivityCountdown, ui, handled,
                 doLaters, drafts, procVars, stoppedChildren>>

DoAllLaters ==
  /\ Goto("laters", "input")
  /\ doLaters' = FALSE
  /\ IF doLaters
       THEN updateStoppedApps
       ELSE UNCHANGED <<appVars, stoppedChildren>>
  /\ UNCHANGED <<sleepVars, inactivityCountdown, ui, due, handled, drafts,
                 procVars>>

\* OnAny of the root GestureDetector runs before the event is dispatched.
HandleEvent ==
  /\ phase = "input"
  /\ handled < Batch
  /\ handled' = handled + 1
  /\ inactivityCountdown' = InactivityTimeout
  /\ UNCHANGED <<phase, ui, due, doLaters, drafts, stoppedChildren>>

\* The App a widget built for p refers to by now.  When Apps were erased or
\* added since, the reference is to another element, or to none (TapStale).
referents(p) == IF apps = ui.apps THEN {p} ELSE apps

\* A tap on an app, running or not.
TapApp(p) ==
  /\ HandleEvent
  /\ p \in ui.apps
  /\ \E q \in referents(p) : switchApp(q)

TapKill(p) ==
  /\ HandleEvent
  /\ p \in ui.running
  /\ \E q \in referents(p) : stop(q)

TapStop ==
  /\ HandleEvent
  /\ ui.button = "Stop"
  /\ stopTimer
  /\ UNCHANGED <<appVars, procVars>>

TapSleep ==
  /\ HandleEvent
  /\ ui.button = "Sleep"
  /\ startTimer(0, liveTimers)
  /\ UNCHANGED <<appVars, procVars>>

PowerKey == HandleEvent /\ toggle

OtherInput ==
  /\ HandleEvent
  /\ UNCHANGED <<appVars, sleepVars, procVars>>

\* A widget's reference to an App that has been erased or moved is used:
\* the behaviour of the program is undefined from here on.
TapStale ==
  /\ Goto("input", "undefined")
  /\ handled < Batch
  /\ ui.apps # {} /\ apps # ui.apps
  /\ UNCHANGED <<appVars, sleepVars, inactivityCountdown, ui, due, handled,
                 doLaters, drafts, procVars, stoppedChildren>>

InputHandled ==
  /\ Goto("input", "rebuild")
  /\ UNCHANGED <<appVars, sleepVars, inactivityCountdown, ui, due, handled,
                 doLaters, drafts, procVars, stoppedChildren>>

-----------------------------------------------------------------------------
(* The signal handler and the operating system.                            *)

\* Mutant: the handler reaps one child for each SIGCHLD, though signals of
\* children that die together are merged into one.
oneZombie ==
  LET zombies == {q \in Pids : proc[q] = "zombie"}
  IN  {q \in zombies : q = CHOOSE r \in zombies : TRUE}

\* cleanup: reap every zombie, then call stopCallback, if it is still set.
reapable == {q \in Pids : proc[q] = "zombie"}
withCallback == doLaters \/ phase # "exited"

Cleanup ==
  /\ sigchld
  /\ phase # "undefined"
  /\ proc' = [q \in Pids |-> IF q \in reapable THEN "gone" ELSE proc[q]]
  /\ stoppedChildren' = stoppedChildren \cup reapable
  /\ doLaters' = withCallback
  /\ sigchld' = FALSE
  /\ UNCHANGED <<appVars, sleepVars, inactivityCountdown, phase, ui, due,
                 handled, drafts, term, unheard>>

\* The child runs setpgid and execs the shell.
Exec(q) ==
  /\ proc[q] = "forked"
  /\ proc' = [proc EXCEPT ![q] = "run"]
  /\ UNCHANGED <<appVars, sleepVars, inactivityCountdown, loopVars, drafts,
                 term, unheard, sigchld, stoppedChildren>>

\* It exits, because it was told to or not; a stopped one may be killed.
Exit(q) ==
  /\ proc[q] \in {"forked", "run", "stop"}
  /\ proc' = [proc EXCEPT ![q] = "zombie"]
  /\ sigchld' = TRUE
  /\ UNCHANGED <<appVars, sleepVars, inactivityCountdown, loopVars, drafts,
                 term, unheard, stoppedChildren>>

\* Someone installs or removes a draft file.
DraftChange(p) ==
  /\ DraftsChange
  /\ drafts' = IF p \in drafts THEN drafts \ {p} ELSE drafts \cup {p}
  /\ UNCHANGED <<appVars, sleepVars, inactivityCountdown, loopVars, procVars,
                 stoppedChildren>>

-----------------------------------------------------------------------------
\* After LauncherState::init: the drafts present have been read.
Init ==
  /\ drafts \in SUBSET Paths
  /\ apps = drafts
  /\ pidOf = [p \in Paths |-> NoPid]
  /\ paused = {}
  /\ shouldRemove = {}
  /\ currentAppPath = NoPath
  /\ visible = TRUE
  /\ failedAsserts = {}
  /\ sleepCountdown = -1
  /\ sleepTimer = FALSE
  /\ liveTimers = 0
  /\ inactivityCountdown = InactivityTimeout
  /\ phase = "rebuild"
  /\ ui = NoWidgets
  /\ due = 0
  /\ handled = 0
  /\ doLaters = FALSE
  /\ proc = [q \in Pids |-> "none"]
  /\ term = {}
  /\ unheard = {}
  /\ sigchld = FALSE
  /\ stoppedChildren = {}

Loop ==
  \/ Rebuild \/ WaitForInput \/ TimersChecked \/ DoAllLaters \/ InputHandled

User ==
  \/ \E p \in Paths : TapApp(p) \/ TapKill(p)
  \/ TapStop \/ TapSleep \/ PowerKey \/ OtherInput \/ TapStale

Environment ==
  \/ \E q \in Pids : Exec(q) \/ Exit(q)
  \/ \E p \in Paths : DraftChange(p)

Next ==
  \/ Loop
  \/ CountTick
  \/ \E woken \in BOOLEAN : SleepTick(woken)
  \/ InactivityTick
  \/ User
  \/ Cleanup
  \/ Environment
  \/ Quit

\* The loop never blocks for good: the inactivity timer repeats every minute,
\* so select returns.  A pending signal is delivered.
Fairness == WF_vars(Loop) /\ WF_vars(Cleanup)

Spec == Init /\ [][Next]_vars

FairSpec == Spec /\ Fairness

-----------------------------------------------------------------------------
(* What the launcher promises.                                             *)

\* currentAppPath names an App that is in the list and has a process: no
\* erase, readApps or exit leaves it behind (switchApp, updateStoppedApps).
CurrentIsRunning ==
  currentAppPath # NoPath => hasCurrentApp /\ isRunning(currentAppPath)

\* Every process rocket forked belongs to exactly one App of the list until
\* updateStoppedApps has seen it dead: no child is forgotten while it lives,
\* none is claimed twice, and no App keeps the pid of a child already seen.
EachChildHasOneApp ==
  \A q \in Pids :
    LET owners == {p \in Paths : pidOf[p] = q}
    IN  IF proc[q] = "none" \/ (proc[q] = "gone" /\ q \notin stoppedChildren)
          THEN owners = {}
          ELSE \E p \in apps : owners = {p}

\* While the launcher is visible every app is stopped, and while it is not
\* only the current one runs (show, switchApp, pause, resume) - but for apps
\* told to terminate and those paused before they had a process group.
OnlyCurrentRuns ==
  \A q \in Pids :
    /\ proc[q] = "run"
    /\ q \notin term \cup unheard
    => ~visible /\ hasCurrentApp /\ pidOf[currentAppPath] = q

\* The launcher is only hidden behind an app that is running and not paused,
\* so that a press of the power key can pause that app and come back.  Holds
\* if fork does not fail: then switchApp returns before it names the app.
HiddenBehindApp ==
  ~visible => hasCurrentApp /\ isRunning(currentAppPath)
                            /\ ~isPaused(currentAppPath)

\* The assertion of App::pause: show() pauses a current app that is running
\* and not paused already.
PauseAssertHolds == "pause" \notin failedAsserts

\* The assertion of App::stop: the kill button is for an app that is running.
StopAssertHolds == "stop" \notin failedAsserts

\* The countdown that ends in sleep() runs while the launcher is on the screen.
CountsOnScreen == sleepCountdown >= 0 => visible

\* The device is put to sleep from the launcher, every app paused: whatever
\* starts a countdown shows the launcher, and whatever hides it ends the
\* countdown (toggle, tick, hide, switchApp, the inactivity timer, the buttons),
\* for any number of events in a batch and of timers that lost their handle.
\* One control is outside this order: the Sleep button of a tree built before
\* the launcher was hidden counts down behind the app.
SleepFromLauncher ==
  [][CountsOnScreen => CountsOnScreen' \/ TapSleep]_vars

\* A countdown on the screen counts, and its Stop button can stop it: the
\* handle sleepTimer holds an enabled timer.
CountdownHasTimer == sleepCountdown >= 0 => sleepTimer /\ liveTimers > 0

\* A reaped child waits for a callback that is already queued.
NoticeScheduled ==
  stoppedChildren # {} => doLaters \/ phase \in {"exited", "undefined"}

\* "Stop the timer and return to the current app" when the user woke the
\* device (tick): no sleep timer is left ticking.
WakeStopsTimer ==
  [][SleepTick(TRUE) => liveTimers' = 0]_vars

\* While the launcher is on the screen, its widgets holding references to the
\* Apps, nothing moves the list - drafts that come or go, apps that exit - but
\* one thing: an App whose draft went while it ran has died, and is erased.  No
\* App is added or sorted in under the user's finger (show, readApps,
\* updateStoppedApps).
ListStands ==
  [][visible /\ apps' # apps =>
       /\ apps' \subseteq apps
       /\ \A p \in apps \ apps' :
            p \in shouldRemove /\ pidOf[p] \in stoppedChildren]_vars

\* The list follows the drafts: the App of a removed draft leaves the list
\* only when it has no process, and one that is marked stays marked until it
\* leaves or exits (readApps, updateStoppedApps).
RemovalDeferred ==
  [][\A p \in Paths :
       /\ p \in apps /\ p \notin apps' => pidOf'[p] = NoPid
       /\ p \in shouldRemove \ shouldRemove' => pidOf'[p] = NoPid]_vars

\* A child that died is eventually noticed: no App claims its pid any more,
\* and if it was the current app the launcher is back on the screen.
DeathNoticed ==
  \A q \in Pids :
    proc[q] = "zombie" ~> \/ \A p \in Paths : pidOf[p] # q
                          \/ phase \in {"exited", "undefined"}

-----------------------------------------------------------------------------
(* The inductive invariant behind CurrentIsRunning, EachChildHasOneApp,    *)
(* OnlyCurrentRuns, NoticeScheduled and CountdownHasTimer.                 *)

\* The handle owns one of the timers alive, and only a handle keeps time.
TimersInv ==
  /\ sleepTimer => liveTimers >= 1
  /\ sleepCountdown >= 0 => sleepTimer

\* Only an App in the list has a runInfo, and no two have the same pid; the
\* flags are part of the runInfo.
RunInfoInv ==
  /\ paused \subseteq running
  /\ shouldRemove \subseteq running
  /\ \A p \in Paths \ apps : pidOf[p] = NoPid
  /\ \A p, r \in Paths : pidOf[p] = pidOf[r] /\ isRunning(p) => p = r

\* The processes with an App are those forked and not yet seen dead.
Unseen(q) == proc[q] # "none" /\ (proc[q] = "gone" => q \in stoppedChildren)
ProcessInv ==
  /\ stoppedChildren \subseteq {q \in Pids : proc[q] = "gone"}
  /\ \A q \in Pids : Unseen(q) <=> \E p \in Paths : pidOf[p] = q

\* An App not marked paused is the current one, behind which the launcher is
\* hidden; the process of one marked paused does not run, or it is excused.
PausedInv ==
  /\ \A p \in Paths :
       isRunning(p) /\ p \notin paused => p = currentAppPath /\ ~visible
  /\ \A p \in paused :
       /\ proc[pidOf[p]] = "run" => pidOf[p] \in term \cup unheard
       /\ proc[pidOf[p]] = "forked" => pidOf[p] \in unheard

IInv ==
  /\ TypeOK
  /\ TimersInv
  /\ RunInfoInv
  /\ ProcessInv
  /\ CurrentIsRunning
  /\ PausedInv
  /\ NoticeScheduled

=============================================================================
