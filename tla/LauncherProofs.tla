--------------------------- MODULE LauncherProofs ---------------------------
(***************************************************************************)
(* Proof that Launcher keeps its invariants, for any set of draft files    *)
(* and processes and any value of the timeouts and bounds.                 *)
(*                                                                         *)
(* IInv is split by the variables its parts are about: AppCore (the Apps   *)
(* and their processes), TimerCore (the sleep timer), LoopCore (the rest). *)
(* Each operation of LauncherState has a lemma on the part it disturbs.    *)
(***************************************************************************)
EXTENDS Launcher, TLAPS

AppTypeOK ==
  /\ apps \subseteq Paths
  /\ pidOf \in [Paths -> Pids \cup {NoPid}]
  /\ paused \subseteq Paths
  /\ shouldRemove \subseteq Paths
  /\ currentAppPath \in Paths \cup {NoPath}
  /\ visible \in BOOLEAN
  /\ failedAsserts \subseteq {"pause", "stop"}
  /\ proc \in [Pids -> ProcStates]
  /\ term \subseteq Pids
  /\ unheard \subseteq Pids
  /\ sigchld \in BOOLEAN
  /\ stoppedChildren \subseteq Pids

AppCore ==
  AppTypeOK /\ RunInfoInv /\ ProcessInv /\ CurrentIsRunning /\ PausedInv

TimerCore ==
  /\ sleepCountdown \in Int
  /\ sleepTimer \in BOOLEAN
  /\ liveTimers \in 0..MaxSleepTimers
  /\ TimersInv

LoopCore ==
  /\ inactivityCountdown \in 1..InactivityTimeout
  /\ phase \in Phases
  /\ ui \in [apps: SUBSET Paths, running: SUBSET Paths, button: Buttons]
  /\ due \in 0..MaxSleepTimers + 1
  /\ handled \in 0..Batch
  /\ doLaters \in BOOLEAN
  /\ drafts \subseteq Paths
  /\ NoticeScheduled

\* The parts make up the invariant.
LEMMA IInvParts == IInv <=> AppCore /\ TimerCore /\ LoopCore
  BY DEF IInv, TypeOK, AppCore, AppTypeOK, TimerCore, LoopCore

-----------------------------------------------------------------------------
(* The sleep timer.                                                        *)

\* stopTimer leaves no countdown behind and takes at most one timer away.
LEMMA StopTimerCore ==
  ASSUME TimerCore, stopTimer
  PROVE  TimerCore' /\ liveAfterStop \in 0..MaxSleepTimers
<1>1. liveAfterStop \in 0..MaxSleepTimers
  <2>1. CASE sleepTimer
    BY <2>1, BoundsAssumption
    DEF TimerCore, TimersInv, liveAfterStop, BoundsAssumption
  <2>2. CASE ~sleepTimer
    BY <2>2 DEF TimerCore, liveAfterStop
  <2>. QED  BY <2>1, <2>2
<1>2. sleepCountdown' = -1 /\ sleepTimer' = FALSE
      /\ liveTimers' = liveAfterStop
  BY DEF stopTimer
<1>3. sleepCountdown' \in Int /\ ~(sleepCountdown' >= 0)
  BY <1>2
<1>. QED  BY <1>1, <1>2, <1>3 DEF TimerCore, TimersInv

\* startTimer leaves the countdown with a timer the handle holds, though
\* another timer may have lost its handle to it.
LEMMA StartTimerCore ==
  ASSUME NEW time \in Nat, NEW live \in 0..MaxSleepTimers,
         startTimer(time, live)
  PROVE  TimerCore'
<1>1. liveTimers' \in 0..MaxSleepTimers /\ liveTimers' >= 1
  BY BoundsAssumption DEF startTimer, BoundsAssumption
<1>2. sleepCountdown' \in Int /\ sleepTimer' = TRUE
  BY DEF startTimer
<1>. QED  BY <1>1, <1>2 DEF TimerCore, TimersInv

-----------------------------------------------------------------------------
(* Signals.                                                                *)

\* Signals stop and continue processes, they start and end none.
LEMMA AfterSignalsFacts ==
  ASSUME AppTypeOK, NEW S \in SUBSET Pids, NEW C \in SUBSET Pids
  PROVE  /\ AfterSignals(S, C) \in [Pids -> ProcStates]
         /\ \A q \in Pids :
              LET st == AfterSignals(S, C)[q]
              IN  /\ \A s \in {"none", "forked", "zombie", "gone"} :
                       st = s <=> proc[q] = s
                  /\ q \notin C /\ st = "run" => proc[q] = "run" /\ q \notin S
  BY DEF AfterSignals, Stopped, Continued, AppTypeOK, ProcStates

-----------------------------------------------------------------------------
(* The operations of LauncherState on the Apps.                            *)

\* Pausing the current app before another one is resumed or launched leaves
\* every app that runs marked, and the marks true: S are the pids sent
\* SIGSTOP, C those sent SIGCONT afterwards.
LEMMA PauseCurrentFirst ==
  ASSUME AppCore
  PROVE  LET stopping == paused \cup currentToPause
             S        == {pidOf[c] : c \in currentToPause}
         IN  /\ S \subseteq Pids
             /\ stopping \subseteq running
             /\ running \subseteq stopping
             /\ \A C \in SUBSET Pids, r \in stopping :
                  LET st == AfterSignals(S, C)[pidOf[r]]
                      un == (unheard \cup {q \in S : proc[q] = "forked"}) \ C
                  IN  pidOf[r] \notin C =>
                        /\ st = "run" => pidOf[r] \in term \cup un
                        /\ st = "forked" => pidOf[r] \in un
<1> DEFINE stopping == paused \cup currentToPause
           S        == {pidOf[c] : c \in currentToPause}
<1>1. currentToPause \subseteq running
  BY DEF AppCore, AppTypeOK, currentToPause, running
<1>2. S \subseteq Pids
  BY <1>1 DEF AppCore, AppTypeOK, running, isRunning
<1>3. stopping \subseteq running
  BY <1>1 DEF AppCore, RunInfoInv
<1>4. running \subseteq stopping
  <2> SUFFICES ASSUME NEW r \in running, r \notin paused
               PROVE  r \in currentToPause
    OBVIOUS
  <2>1. r \in apps /\ isRunning(r)
    BY DEF AppCore, RunInfoInv, running, isRunning
  <2>2. r = currentAppPath
    BY <2>1 DEF AppCore, PausedInv, running
  <2>. QED  BY <2>1, <2>2 DEF currentToPause, isPaused
<1>5. ASSUME NEW C \in SUBSET Pids, NEW r \in stopping, pidOf[r] \notin C
      PROVE  LET st == AfterSignals(S, C)[pidOf[r]]
                 un == (unheard \cup {q \in S : proc[q] = "forked"}) \ C
             IN  /\ st = "run" => pidOf[r] \in term \cup un
                 /\ st = "forked" => pidOf[r] \in un
  <2> DEFINE q == pidOf[r]
  <2>1. q \in Pids
    BY <1>3 DEF AppCore, AppTypeOK, running, isRunning
  <2>2. /\ AfterSignals(S, C)[q] = "forked" => proc[q] = "forked"
        /\ AfterSignals(S, C)[q] = "run" => proc[q] = "run" /\ q \notin S
    BY <1>2, <1>5, <2>1, AfterSignalsFacts DEF AppCore
  <2>3. CASE r \in paused
    BY <1>5, <2>2, <2>3 DEF AppCore, PausedInv
  <2>4. CASE r \in currentToPause
    BY <1>5, <2>2, <2>4
  <2>. QED  BY <2>3, <2>4
<1>. QED  BY <1>2, <1>3, <1>4, <1>5

\* The Apps and their processes are as they were.
LEMMA UnchangedCore ==
  ASSUME AppCore, UNCHANGED <<appVars, procVars, stoppedChildren>>
  PROVE  AppCore'
<1>1. UNCHANGED <<apps, pidOf, paused, shouldRemove, currentAppPath, visible,
                  failedAsserts, proc, term, unheard, sigchld,
                  stoppedChildren>>
  BY DEF appVars, procVars
<1>2. AppTypeOK' /\ CurrentIsRunning'
  BY <1>1 DEF AppCore, AppTypeOK, CurrentIsRunning, hasCurrentApp, isRunning
<1>3. RunInfoInv' /\ PausedInv'
  BY <1>1 DEF AppCore, RunInfoInv, PausedInv, running, isRunning
<1>4. ProcessInv'
  BY <1>1 DEF AppCore, ProcessInv, Unseen
<1>. QED  BY <1>2, <1>3, <1>4 DEF AppCore

\* Switching to an App, be it resumed, launched or not launched.
LEMMA SwitchAppCore ==
  ASSUME AppCore, NEW p \in apps, switchApp(p), UNCHANGED stoppedChildren
  PROVE  AppCore'
<1> DEFINE stopping == paused \cup currentToPause
           S        == {pidOf[c] : c \in currentToPause}
<1>1. /\ p \in Paths
      /\ S \subseteq Pids
      /\ stopping \subseteq running
      /\ running \subseteq stopping
  BY PauseCurrentFirst DEF AppCore, AppTypeOK
<1>2. visible' = FALSE /\ UNCHANGED <<apps, failedAsserts, term>>
  BY DEF switchApp
<1>3. CASE resume(p, stopping, S)
  <2> DEFINE C == {pidOf[p]}
  <2>1. /\ isRunning(p)
        /\ paused' = stopping \ {p}
        /\ currentAppPath' = p
        /\ proc' = AfterSignals(S, C)
        /\ unheard' = (unheard \cup {q \in S : proc[q] = "forked"}) \ C
        /\ sigchld' \in BOOLEAN
        /\ UNCHANGED <<pidOf, shouldRemove>>
    BY <1>3 DEF resume, Signal
  <2>2. C \subseteq Pids
    BY <1>1, <2>1 DEF AppCore, AppTypeOK, isRunning
  <2>3. AppTypeOK'
    <3>1. proc' \in [Pids -> ProcStates]
      BY <1>1, <2>1, <2>2, AfterSignalsFacts DEF AppCore
    <3>. QED  BY <1>1, <1>2, <2>1, <2>2, <3>1 DEF AppCore, AppTypeOK, running
  <2>4. RunInfoInv'
    BY <1>1, <1>2, <2>1 DEF AppCore, RunInfoInv, running, isRunning
  <2>5. ProcessInv'
    BY <1>1, <1>2, <2>1, <2>2, AfterSignalsFacts
    DEF AppCore, ProcessInv, AppTypeOK, Unseen
  <2>6. CurrentIsRunning'
    BY <1>2, <2>1 DEF CurrentIsRunning, hasCurrentApp, isRunning
  <2>7. PausedInv'
    <3>1. ASSUME NEW r \in Paths, isRunning(r)', r \notin paused'
          PROVE  r = currentAppPath' /\ ~visible'
      BY <1>1, <1>2, <2>1, <3>1 DEF running, isRunning
    <3>2. ASSUME NEW r \in paused'
          PROVE  /\ proc'[pidOf'[r]] = "run" =>
                      pidOf'[r] \in term' \cup unheard'
                 /\ proc'[pidOf'[r]] = "forked" => pidOf'[r] \in unheard'
      <4>1. r \in stopping /\ pidOf[r] \notin C
        BY <1>1, <2>1 DEF AppCore, RunInfoInv, running, isRunning
      <4>. QED  BY <1>2, <2>1, <2>2, <4>1, PauseCurrentFirst
    <3>. QED  BY <3>1, <3>2 DEF PausedInv
  <2>. QED  BY <2>3, <2>4, <2>5, <2>6, <2>7 DEF AppCore
<1>4. CASE launch(p, stopping, S)
  <2> DEFINE after == AfterSignals(S, {})
  <2>1. /\ ~isRunning(p)
        /\ unheard' = unheard \cup {q \in S : proc[q] = "forked"}
        /\ sigchld' \in BOOLEAN
    BY <1>4 DEF launch
  <2>2. after \in [Pids -> ProcStates]
    BY <1>1, AfterSignalsFacts DEF AppCore
  <2>3. ASSUME NEW q \in Pids,
               proc[q] = "none",
               pidOf' = [pidOf EXCEPT ![p] = q],
               paused' = stopping \ {p},
               shouldRemove' = shouldRemove \ {p},
               currentAppPath' = p,
               proc' = [after EXCEPT ![q] = "forked"]
        PROVE  AppCore'
    <3>1. AppTypeOK'
      BY <1>1, <1>2, <2>1, <2>2, <2>3
      DEF AppCore, AppTypeOK, running, ProcStates
    <3>2. \A r \in Paths : pidOf[r] # q
      BY <2>3 DEF AppCore, ProcessInv, Unseen
    <3>3. p \notin stopping /\ q # NoPid
      BY <1>1, <2>1, NamesAssumption DEF running
    <3>4. RunInfoInv'
      BY <1>1, <1>2, <2>3, <3>2, <3>3
      DEF AppCore, AppTypeOK, RunInfoInv, running, isRunning
    <3>5. ProcessInv'
      <4>1. ASSUME NEW r \in Pids
            PROVE  Unseen(r)' <=> \E u \in Paths : pidOf'[u] = r
        <5>1. CASE r = q
          BY <1>1, <2>2, <2>3, <5>1 DEF AppCore, AppTypeOK, Unseen
        <5>2. CASE r # q
          <6>1. Unseen(r)' <=> Unseen(r)
            BY <1>1, <2>2, <2>3, <5>2, AfterSignalsFacts DEF AppCore, Unseen
          <6>2. (\E u \in Paths : pidOf'[u] = r)
                  <=> \E u \in Paths : pidOf[u] = r
            BY <1>1, <2>1, <2>3, <5>2, NamesAssumption
            DEF AppCore, AppTypeOK, isRunning
          <6>. QED  BY <6>1, <6>2 DEF AppCore, ProcessInv
        <5>. QED  BY <5>1, <5>2
      <4>2. stoppedChildren' \subseteq {r \in Pids : proc'[r] = "gone"}
        BY <1>1, <2>2, <2>3, AfterSignalsFacts DEF AppCore, ProcessInv
      <4>. QED  BY <4>1, <4>2 DEF ProcessInv
    <3>6. CurrentIsRunning'
      BY <1>1, <1>2, <2>3, <3>3
      DEF AppCore, AppTypeOK, CurrentIsRunning, hasCurrentApp, isRunning
    <3>7. PausedInv'
      <4>1. ASSUME NEW r \in Paths, isRunning(r)', r \notin paused'
            PROVE  r = currentAppPath' /\ ~visible'
        BY <1>1, <1>2, <2>3, <4>1
        DEF AppCore, AppTypeOK, running, isRunning
      <4>2. ASSUME NEW r \in paused'
            PROVE  /\ proc'[pidOf'[r]] = "run" =>
                        pidOf'[r] \in term' \cup unheard'
                   /\ proc'[pidOf'[r]] = "forked" => pidOf'[r] \in unheard'
        <5>1. r \in stopping /\ r # p /\ r \in Paths
          BY <1>1, <2>3 DEF running
        <5>2. pidOf'[r] = pidOf[r] /\ pidOf[r] # q /\ pidOf[r] \in Pids
          BY <1>1, <2>3, <3>2, <5>1
          DEF AppCore, AppTypeOK, running, isRunning
        <5>3. proc'[pidOf[r]] = after[pidOf[r]]
          BY <2>2, <2>3, <5>2
        <5>. QED  BY <1>2, <2>1, <5>1, <5>2, <5>3, PauseCurrentFirst
      <4>. QED  BY <4>1, <4>2 DEF PausedInv
    <3>. QED  BY <3>1, <3>4, <3>5, <3>6, <3>7 DEF AppCore
  <2>4. ASSUME proc' = after,
               paused' = stopping,
               UNCHANGED <<pidOf, shouldRemove, currentAppPath>>
        PROVE  AppCore'
    <3>1. AppTypeOK'
      BY <1>1, <1>2, <2>1, <2>2, <2>4 DEF AppCore, AppTypeOK, running
    <3>2. RunInfoInv'
      BY <1>1, <1>2, <2>4 DEF AppCore, RunInfoInv, running, isRunning
    <3>3. ProcessInv'
      <4>1. \A r \in Pids : Unseen(r)' <=> Unseen(r)
        BY <1>1, <2>4, AfterSignalsFacts DEF AppCore, Unseen
      <4>2. stoppedChildren' \subseteq {r \in Pids : proc'[r] = "gone"}
        BY <1>1, <2>4, AfterSignalsFacts DEF AppCore, ProcessInv
      <4>. QED  BY <2>4, <4>1, <4>2 DEF AppCore, ProcessInv
    <3>4. CurrentIsRunning'
      BY <1>2, <2>4 DEF AppCore, CurrentIsRunning, hasCurrentApp, isRunning
    <3>5. PausedInv'
      <4>1. ASSUME NEW r \in Paths, isRunning(r)', r \notin paused'
            PROVE  FALSE
        BY <1>1, <2>4, <4>1 DEF running, isRunning
      <4>2. ASSUME NEW r \in paused'
            PROVE  /\ proc'[pidOf'[r]] = "run" =>
                        pidOf'[r] \in term' \cup unheard'
                   /\ proc'[pidOf'[r]] = "forked" => pidOf'[r] \in unheard'
        BY <1>2, <2>1, <2>4, PauseCurrentFirst
      <4>. QED  BY <4>1, <4>2 DEF PausedInv
    <3>. QED  BY <3>1, <3>2, <3>3, <3>4, <3>5 DEF AppCore
  <2>. QED  BY <1>4, <2>3, <2>4 DEF launch
<1>5. CASE switchTo(p, stopping, S)
  \* Every app that runs is marked by now, so this branch is not taken.
  BY <1>1, <1>5 DEF switchTo, running
<1>. QED  BY <1>3, <1>4, <1>5 DEF switchApp

\* Showing the launcher: the current app is paused, the drafts are read.
LEMMA ShowCore ==
  ASSUME AppCore, drafts \subseteq Paths, show, UNCHANGED stoppedChildren
  PROVE  AppCore'
<1>1. CASE visible
  BY <1>1, UnchangedCore DEF show
<1>2. CASE ~visible
  <2> DEFINE S == IF hasCurrentApp THEN {pidOf[currentAppPath]} ELSE {}
  <2>1. /\ pauseCurrent
        /\ apps' = readAppsKeep(apps, running)
        /\ shouldRemove' = shouldRemove \cup readAppsRemove(apps, running)
        /\ visible' = TRUE
        /\ UNCHANGED <<pidOf, currentAppPath, term>>
    BY <1>2 DEF show
  <2>2. /\ hasCurrentApp => /\ currentAppPath \in Paths
                            /\ isRunning(currentAppPath)
                            /\ pidOf[currentAppPath] \in Pids
        /\ S \subseteq Pids
    BY NamesAssumption
    DEF AppCore, AppTypeOK, CurrentIsRunning, hasCurrentApp, isRunning
  <2>3. /\ proc' = AfterSignals(S, {})
        /\ unheard' = unheard \cup {q \in S : proc[q] = "forked"}
        /\ sigchld' \in BOOLEAN
        /\ paused' = paused \cup (IF hasCurrentApp THEN {currentAppPath}
                                                   ELSE {})
        /\ failedAsserts' \subseteq {"pause", "stop"}
    <3>1. CASE hasCurrentApp
      <4>1. {pidOf[p] : p \in {currentAppPath}} \ {NoPid} = S
        BY <2>2, <3>1 DEF isRunning
      <4>2. {p \in {currentAppPath} : isRunning(p)} = {currentAppPath}
        BY <2>2, <3>1
      <4>. QED
        BY <2>1, <3>1, <4>1, <4>2
        DEF pauseCurrent, Signal, AppCore, AppTypeOK
    <3>2. CASE ~hasCurrentApp
      <4>1. AfterSignals({}, {}) = proc
        BY DEF AfterSignals, AppCore, AppTypeOK
      <4>. QED  BY <2>1, <3>2, <4>1 DEF pauseCurrent, AppCore, AppTypeOK
    <3>. QED  BY <3>1, <3>2
  <2>4. AppTypeOK'
    BY <2>1, <2>2, <2>3, AfterSignalsFacts
    DEF AppCore, AppTypeOK, readAppsKeep, readAppsRemove, running
  <2>5. RunInfoInv'
    BY <2>1, <2>2, <2>3
    DEF AppCore, RunInfoInv, readAppsKeep, readAppsRemove, running, isRunning
  <2>6. ProcessInv'
    <3>1. \A r \in Pids : Unseen(r)' <=> Unseen(r)
      BY <2>2, <2>3, AfterSignalsFacts DEF AppCore, Unseen
    <3>2. stoppedChildren' \subseteq {r \in Pids : proc'[r] = "gone"}
      BY <2>2, <2>3, AfterSignalsFacts DEF AppCore, ProcessInv
    <3>. QED  BY <2>1, <3>1, <3>2 DEF AppCore, ProcessInv
  <2>7. CurrentIsRunning'
    BY <2>1
    DEF AppCore, AppTypeOK, CurrentIsRunning, hasCurrentApp, readAppsKeep,
        running, isRunning
  <2>8. PausedInv'
    <3>1. ASSUME NEW r \in Paths, isRunning(r)', r \notin paused'
          PROVE  FALSE
      <4>1. r \in apps /\ r = currentAppPath
        BY <2>1, <2>3, <3>1 DEF AppCore, RunInfoInv, PausedInv, isRunning
      <4>. QED  BY <2>3, <3>1, <4>1 DEF hasCurrentApp
    <3>2. ASSUME NEW r \in paused'
          PROVE  /\ proc'[pidOf'[r]] = "run" =>
                      pidOf'[r] \in term' \cup unheard'
                 /\ proc'[pidOf'[r]] = "forked" => pidOf'[r] \in unheard'
      <4> DEFINE q == pidOf[r]
      <4>1. q \in Pids /\ (r \notin paused => q \in S)
        BY <2>2, <2>3 DEF AppCore, AppTypeOK, RunInfoInv, running, isRunning
      <4>2. /\ proc'[q] = "run" => proc[q] = "run" /\ q \notin S
            /\ proc'[q] = "forked" => proc[q] = "forked"
        BY <2>2, <2>3, <4>1, AfterSignalsFacts DEF AppCore
      <4>. QED  BY <2>1, <2>3, <4>1, <4>2 DEF AppCore, PausedInv
    <3>. QED  BY <3>1, <3>2 DEF PausedInv
  <2>. QED  BY <2>4, <2>5, <2>6, <2>7, <2>8 DEF AppCore
<1>. QED  BY <1>1, <1>2 DEF AppCore, AppTypeOK

\* The kill button.
LEMMA StopCore ==
  ASSUME AppCore, NEW p \in Paths, stop(p), UNCHANGED stoppedChildren
  PROVE  AppCore'
<1> DEFINE q     == pidOf[p]
           group == {r \in {q} : proc[r] \in {"run", "stop"}}
           C     == {r \in group : isPaused(p)}
<1>1. UNCHANGED <<apps, pidOf, paused, shouldRemove, currentAppPath, visible>>
  BY DEF stop
<1>2. CASE isRunning(p)
  <2>1. /\ proc' = AfterSignals({}, C)
        /\ term' = term \cup group
        /\ sigchld' \in BOOLEAN
        /\ UNCHANGED <<failedAsserts, unheard>>
    BY <1>2 DEF stop
  <2>2. q \in Pids /\ group \subseteq Pids /\ C \subseteq Pids
    BY <1>2 DEF AppCore, AppTypeOK, isRunning
  <2>3. AppTypeOK'
    BY <1>1, <2>1, <2>2, AfterSignalsFacts DEF AppCore, AppTypeOK
  <2>4. RunInfoInv' /\ CurrentIsRunning'
    BY <1>1
    DEF AppCore, RunInfoInv, CurrentIsRunning, running, isRunning,
        hasCurrentApp
  <2>5. ProcessInv'
    <3>1. \A r \in Pids : Unseen(r)' <=> Unseen(r)
      BY <2>1, <2>2, AfterSignalsFacts DEF AppCore, Unseen
    <3>2. stoppedChildren' \subseteq {r \in Pids : proc'[r] = "gone"}
      BY <2>1, <2>2, AfterSignalsFacts DEF AppCore, ProcessInv
    <3>. QED  BY <1>1, <3>1, <3>2 DEF AppCore, ProcessInv
  <2>6. PausedInv'
    <3>1. ASSUME NEW r \in Paths, isRunning(r)', r \notin paused'
          PROVE  r = currentAppPath' /\ ~visible'
      BY <1>1, <3>1 DEF AppCore, PausedInv, isRunning
    <3>2. ASSUME NEW r \in paused'
          PROVE  /\ proc'[pidOf'[r]] = "run" =>
                      pidOf'[r] \in term' \cup unheard'
                 /\ proc'[pidOf'[r]] = "forked" => pidOf'[r] \in unheard'
      <4>1. pidOf[r] \in Pids
        BY <1>1 DEF AppCore, AppTypeOK, RunInfoInv, running, isRunning
      <4>2. /\ proc'[pidOf[r]] = "forked" => proc[pidOf[r]] = "forked"
            /\ proc'[pidOf[r]] = "run" => \/ proc[pidOf[r]] = "run"
                                          \/ pidOf[r] \in C
        BY <2>1, <2>2, <4>1, AfterSignalsFacts DEF AppCore
      <4>. QED  BY <1>1, <2>1, <4>1, <4>2 DEF AppCore, PausedInv
    <3>. QED  BY <3>1, <3>2 DEF PausedInv
  <2>. QED  BY <2>3, <2>4, <2>5, <2>6 DEF AppCore
<1>3. CASE ~isRunning(p)
  <2>1. UNCHANGED <<proc, term, unheard, sigchld>>
        /\ failedAsserts' = failedAsserts \cup {"stop"}
    BY <1>3 DEF stop, procVars
  <2>2. AppTypeOK' /\ CurrentIsRunning'
    BY <1>1, <2>1
    DEF AppCore, AppTypeOK, CurrentIsRunning, hasCurrentApp, isRunning
  <2>3. RunInfoInv' /\ PausedInv'
    BY <1>1, <2>1 DEF AppCore, RunInfoInv, PausedInv, running, isRunning
  <2>4. ProcessInv'
    BY <1>1, <2>1 DEF AppCore, ProcessInv, Unseen
  <2>. QED  BY <2>2, <2>3, <2>4 DEF AppCore
<1>. QED  BY <1>2, <1>3

\* Noticing the children that the handler has reaped.
LEMMA UpdateStoppedAppsCore ==
  ASSUME AppCore, drafts \subseteq Paths, updateStoppedApps,
         UNCHANGED procVars
  PROVE  AppCore'
<1> DEFINE dead == {p \in apps : pidOf[p] \in stoppedChildren}
<1>1. /\ stoppedChildren' = {}
      /\ pidOf' = [p \in Paths |-> IF p \in dead THEN NoPid ELSE pidOf[p]]
      /\ paused' = paused \ dead
      /\ currentAppPath' = IF currentAppPath \in dead THEN NoPath
                                                      ELSE currentAppPath
      /\ visible' = (visible \/ currentAppPath \in dead)
      /\ UNCHANGED <<failedAsserts, proc, term, unheard, sigchld>>
  BY DEF updateStoppedApps, currentAfter, visibleAfter, procVars
\* Whether the launcher is shown or not, the list keeps the Apps with a
\* process and the marks stay on Apps with one.
<1>2. /\ apps' \subseteq Paths
      /\ running \ dead \subseteq apps'
      /\ shouldRemove' \subseteq running \ dead
  <2>1. CASE currentAppPath \notin dead \/ visible
    <3>1. apps' = apps \ (dead \cap shouldRemove)
          /\ shouldRemove' = shouldRemove \ dead
      BY <2>1 DEF updateStoppedApps, erased
    <3>. QED
      BY <3>1 DEF AppCore, AppTypeOK, RunInfoInv, running, isRunning
  <2>2. CASE ~(currentAppPath \notin dead \/ visible)
    <3>1. PICK first \in SUBSET (dead \ {currentAppPath}) :
            LET early  == first \cup {currentAppPath}
                kept   == apps \ erased(early, shouldRemove)
                marked == shouldRemove
                            \cup readAppsRemove(kept, running \ early)
            IN  /\ apps' = readAppsKeep(kept, running \ early)
                             \ erased(dead \ early, marked)
                /\ shouldRemove' = marked \ dead
      BY <2>2 DEF updateStoppedApps
    <3> DEFINE early  == first \cup {currentAppPath}
               kept   == apps \ erased(early, shouldRemove)
               marked == shouldRemove
                           \cup readAppsRemove(kept, running \ early)
    <3>2. early \subseteq dead
      BY <2>2
    <3>3. running \subseteq apps /\ apps \subseteq Paths
          /\ shouldRemove \subseteq running
      BY DEF AppCore, AppTypeOK, RunInfoInv, running, isRunning
    <3>4. marked \subseteq running
      BY <3>3 DEF readAppsRemove
    <3>5. running \ dead \subseteq readAppsKeep(kept, running \ early)
      BY <3>2, <3>3 DEF readAppsKeep, erased
    <3>6. readAppsKeep(kept, running \ early) \subseteq Paths
      BY <3>3 DEF readAppsKeep
    <3>. QED  BY <3>1, <3>4, <3>5, <3>6 DEF erased
  <2>. QED  BY <2>1, <2>2
<1>3. AppTypeOK'
  BY <1>1, <1>2 DEF AppCore, AppTypeOK, running
<1>4. \A p \in Paths : isRunning(p)' <=> p \in running \ dead
  BY <1>1 DEF running, isRunning
<1>5. \A p \in running \ dead : pidOf'[p] = pidOf[p] /\ pidOf[p] \in Pids
  BY <1>1 DEF AppCore, AppTypeOK, running, isRunning
<1>6. RunInfoInv'
  <2>1. paused' \subseteq running' /\ shouldRemove' \subseteq running'
    BY <1>1, <1>2, <1>4 DEF AppCore, AppTypeOK, RunInfoInv, running
  <2>2. \A p \in Paths \ apps' : pidOf'[p] = NoPid
    BY <1>2, <1>4 DEF isRunning
  <2>3. \A p, r \in Paths : pidOf'[p] = pidOf'[r] /\ isRunning(p)' => p = r
    BY <1>4, <1>5 DEF AppCore, RunInfoInv, running, isRunning
  <2>. QED  BY <2>1, <2>2, <2>3 DEF RunInfoInv
<1>7. ProcessInv'
  <2>1. ASSUME NEW r \in Pids
        PROVE  Unseen(r)' <=> \E p \in Paths : pidOf'[p] = r
    <3>1. Unseen(r)' <=> Unseen(r) /\ r \notin stoppedChildren
      BY <1>1 DEF AppCore, ProcessInv, Unseen
    <3>2. (\E p \in Paths : pidOf'[p] = r)
            <=> \E p \in Paths : pidOf[p] = r /\ r \notin stoppedChildren
      BY <1>1, NamesAssumption
      DEF AppCore, AppTypeOK, RunInfoInv, isRunning
    <3>. QED  BY <3>1, <3>2 DEF AppCore, ProcessInv
  <2>. QED  BY <1>1, <2>1 DEF ProcessInv
<1>8. CurrentIsRunning'
  BY <1>1, <1>2, <1>4
  DEF AppCore, AppTypeOK, CurrentIsRunning, hasCurrentApp, running
<1>9. PausedInv'
  <2>1. ASSUME NEW r \in Paths, isRunning(r)', r \notin paused'
        PROVE  r = currentAppPath' /\ ~visible'
    BY <1>1, <1>4, <2>1 DEF AppCore, AppTypeOK, PausedInv, running
  <2>2. ASSUME NEW r \in paused'
        PROVE  /\ proc'[pidOf'[r]] = "run" =>
                    pidOf'[r] \in term' \cup unheard'
               /\ proc'[pidOf'[r]] = "forked" => pidOf'[r] \in unheard'
    BY <1>1, <1>5 DEF AppCore, PausedInv, RunInfoInv
  <2>. QED  BY <2>1, <2>2 DEF PausedInv
<1>. QED  BY <1>3, <1>6, <1>7, <1>8, <1>9 DEF AppCore

-----------------------------------------------------------------------------
(* The handler and the processes.                                          *)

\* The handler moves zombies to stoppedChildren, no App changes.
LEMMA CleanupCore ==
  ASSUME AppCore, Cleanup
  PROVE  AppCore'
<1>1. /\ UNCHANGED <<apps, pidOf, paused, shouldRemove, currentAppPath,
                     visible, failedAsserts, term, unheard>>
      /\ proc' = [q \in Pids |-> IF q \in reapable THEN "gone" ELSE proc[q]]
      /\ stoppedChildren' = stoppedChildren \cup reapable
      /\ sigchld' = FALSE
  BY DEF Cleanup, appVars
<1>2. AppTypeOK' /\ CurrentIsRunning'
  BY <1>1
  DEF AppCore, AppTypeOK, ProcStates, reapable, CurrentIsRunning,
      hasCurrentApp, isRunning
<1>3. RunInfoInv'
  BY <1>1 DEF AppCore, RunInfoInv, running, isRunning
<1>4. ProcessInv'
  <2>1. \A q \in Pids : Unseen(q)' <=> Unseen(q)
    BY <1>1 DEF Unseen, reapable
  <2>2. stoppedChildren' \subseteq {q \in Pids : proc'[q] = "gone"}
    BY <1>1 DEF AppCore, ProcessInv, reapable
  <2>. QED  BY <1>1, <2>1, <2>2 DEF AppCore, ProcessInv
<1>5. PausedInv'
  <2>1. ASSUME NEW p \in paused
        PROVE  /\ proc'[pidOf[p]] = "run" => proc[pidOf[p]] = "run"
               /\ proc'[pidOf[p]] = "forked" => proc[pidOf[p]] = "forked"
    BY <1>1 DEF AppCore, AppTypeOK, RunInfoInv, running, isRunning
  <2>. QED  BY <1>1, <2>1 DEF AppCore, PausedInv, isRunning
<1>. QED  BY <1>2, <1>3, <1>4, <1>5 DEF AppCore

\* A child gets its own process group, or dies: it was forked and has not
\* been reaped, and becomes st without starting to run while it is paused -
\* but for one that SIGSTOP did not reach.
LEMMA ChildCore ==
  ASSUME AppCore, UNCHANGED <<appVars, term, unheard, stoppedChildren>>,
         NEW q \in Pids, proc[q] \in {"forked", "run", "stop"},
         NEW st \in {"run", "zombie"}, proc' = [proc EXCEPT ![q] = st],
         st = "run" => proc[q] = "forked", sigchld' \in BOOLEAN
  PROVE  AppCore'
<1>1. UNCHANGED <<apps, pidOf, paused, shouldRemove, currentAppPath, visible,
                  failedAsserts, term, unheard, stoppedChildren>>
  BY DEF appVars
<1>2. AppTypeOK' /\ CurrentIsRunning'
  BY <1>1
  DEF AppCore, AppTypeOK, ProcStates, CurrentIsRunning, hasCurrentApp,
      isRunning
<1>3. RunInfoInv'
  BY <1>1 DEF AppCore, RunInfoInv, running, isRunning
<1>4. ProcessInv'
  <2>1. \A r \in Pids : Unseen(r)' <=> Unseen(r)
    BY <1>1 DEF AppCore, AppTypeOK, Unseen
  <2>2. stoppedChildren' \subseteq {r \in Pids : proc'[r] = "gone"}
    BY <1>1 DEF AppCore, AppTypeOK, ProcessInv
  <2>. QED  BY <1>1, <2>1, <2>2 DEF AppCore, ProcessInv
<1>5. PausedInv'
  <2>1. ASSUME NEW p \in paused
        PROVE  /\ proc'[pidOf[p]] = "run" =>
                     proc[pidOf[p]] \in {"run", "forked"}
               /\ proc'[pidOf[p]] = "forked" => proc[pidOf[p]] = "forked"
    BY DEF AppCore, AppTypeOK, RunInfoInv, running, isRunning
  <2>. QED  BY <1>1, <2>1 DEF AppCore, PausedInv, isRunning
<1>. QED  BY <1>2, <1>3, <1>4, <1>5 DEF AppCore

-----------------------------------------------------------------------------
(* The operations that touch the Apps and the sleep timer.                 *)

\* Hiding the launcher, whatever its caller did with the timer.
LEMMA HideCore ==
  ASSUME AppCore, TimerCore, UNCHANGED stoppedChildren,
         NEW withContext \in BOOLEAN, hide(withContext)
  PROVE  AppCore' /\ TimerCore'
<1>1. CASE visible /\ hasCurrentApp
  <2>1. switchApp(currentAppPath) /\ currentAppPath \in apps
    BY <1>1 DEF hide, hasCurrentApp
  <2>2. stopTimer
    BY <2>1 DEF switchApp
  <2>. QED  BY <2>1, <2>2, SwitchAppCore, StopTimerCore
<1>2. CASE ~(visible /\ hasCurrentApp)
  <2>1. UNCHANGED <<appVars, procVars>>
    BY <1>2 DEF hide
  <2>2. AppCore'
    BY <2>1, UnchangedCore
  <2>3. CASE visible /\ withContext
    <3>1. startTimer(0, liveAfterStop)
      BY <1>2, <2>3 DEF hide
    <3>2. liveAfterStop \in 0..MaxSleepTimers
      <4>1. CASE sleepTimer
        BY <4>1, BoundsAssumption
        DEF TimerCore, TimersInv, liveAfterStop, BoundsAssumption
      <4>2. CASE ~sleepTimer
        BY <4>2 DEF TimerCore, liveAfterStop
      <4>. QED  BY <4>1, <4>2
    <3>. QED  BY <2>2, <3>1, <3>2, StartTimerCore
  <2>4. CASE ~(visible /\ withContext)
    <3>1. stopTimer
      BY <1>2, <2>4 DEF hide
    <3>. QED  BY <2>2, <3>1, StopTimerCore
  <2>. QED  BY <2>3, <2>4
<1>. QED  BY <1>1, <1>2

\* The power key.
LEMMA ToggleCore ==
  ASSUME AppCore, TimerCore, drafts \subseteq Paths,
         UNCHANGED stoppedChildren, toggle
  PROVE  AppCore' /\ TimerCore'
<1>1. CASE visible
  <2>1. hide(sleepCountdown <= 0) /\ (sleepCountdown <= 0) \in BOOLEAN
    BY <1>1 DEF toggle
  <2>. QED  BY <2>1, HideCore
<1>2. CASE ~visible
  <2>1. startTimer(SleepTimeout, liveTimers) /\ show
    BY <1>2 DEF toggle
  <2>2. SleepTimeout \in Nat /\ liveTimers \in 0..MaxSleepTimers
    BY TimeoutsAssumption DEF TimeoutsAssumption, TimerCore
  <2>. QED  BY <2>1, <2>2, ShowCore, StartTimerCore
<1>. QED  BY <1>1, <1>2

\* With the inactivity timer, there is one more timer than sleep timers.
LEMMA OneMoreTimer ==
  \A n \in 0..MaxSleepTimers : n + 1 \in 0..MaxSleepTimers + 1
BY BoundsAssumption DEF BoundsAssumption

\* The sleep timer is as it was.
LEMMA SleepUnchanged ==
  ASSUME TimerCore, UNCHANGED sleepVars
  PROVE  TimerCore'
BY DEF TimerCore, TimersInv, sleepVars

-----------------------------------------------------------------------------
(* The rest of the state: the loop's own.                                  *)

\* A step in which the loop and its inputs move and nothing is reaped; a
\* queued callback is only dropped by a step that leaves no child waiting.
LEMMA LoopStep ==
  ASSUME LoopCore,
         inactivityCountdown' \in 1..InactivityTimeout,
         phase' \in Phases,
         ui' \in [apps: SUBSET Paths, running: SUBSET Paths, button: Buttons],
         due' \in 0..MaxSleepTimers + 1,
         handled' \in 0..Batch,
         doLaters' \in BOOLEAN,
         drafts' \subseteq Paths,
         \/ stoppedChildren' = {}
         \/ doLaters'
         \/ /\ UNCHANGED <<stoppedChildren, doLaters>>
            /\ \/ phase' \in {"exited", "undefined"}
               \/ phase \notin {"exited", "undefined"}
  PROVE  LoopCore'
<1>1. NoticeScheduled'
  BY DEF LoopCore, NoticeScheduled
<1>. QED  BY <1>1 DEF LoopCore

\* An input event: the gesture detector has reset the inactivity countdown.
LEMMA EventLoopCore ==
  ASSUME LoopCore, HandleEvent
  PROVE  LoopCore' /\ UNCHANGED stoppedChildren /\ drafts \subseteq Paths
<1>1. /\ phase = "input"
      /\ UNCHANGED <<phase, ui, due, doLaters, drafts, stoppedChildren>>
      /\ inactivityCountdown' = InactivityTimeout
      /\ handled' = handled + 1 /\ handled < Batch
  BY DEF HandleEvent
<1>2. inactivityCountdown' \in 1..InactivityTimeout
  BY <1>1, TimeoutsAssumption DEF TimeoutsAssumption
<1>3. handled' \in 0..Batch
  BY <1>1, BoundsAssumption DEF LoopCore, BoundsAssumption
<1>4. /\ phase' \in Phases /\ due' \in 0..MaxSleepTimers + 1
      /\ ui' \in [apps: SUBSET Paths, running: SUBSET Paths, button: Buttons]
      /\ doLaters' \in BOOLEAN /\ drafts' \subseteq Paths
      /\ phase \notin {"exited", "undefined"}
  BY <1>1 DEF LoopCore
<1>. QED  BY <1>1, <1>2, <1>3, <1>4, LoopStep DEF LoopCore

\* The widgets refer to Apps of the list only.
LEMMA ReferentsInList ==
  ASSUME AppCore, NEW p \in Paths, p \in ui.apps, NEW q \in referents(p)
  PROVE  q \in apps /\ q \in Paths
BY DEF AppCore, AppTypeOK, referents

-----------------------------------------------------------------------------
(* The invariant.                                                          *)

\* The state after LauncherState::init.
LEMMA InitIInv == Init => IInv
<1> SUFFICES ASSUME Init PROVE IInv
  OBVIOUS
<1>1. AppCore
  <2>1. AppTypeOK
    BY DEF Init, AppTypeOK, ProcStates
  <2>2. RunInfoInv /\ CurrentIsRunning /\ PausedInv
    BY DEF Init, RunInfoInv, CurrentIsRunning, PausedInv, isRunning
  <2>3. ProcessInv
    BY NamesAssumption DEF Init, ProcessInv, Unseen
  <2>. QED  BY <2>1, <2>2, <2>3 DEF AppCore
<1>2. TimerCore
  <2>1. sleepCountdown = -1 /\ sleepTimer = FALSE
    BY DEF Init
  <2>2. liveTimers \in 0..MaxSleepTimers
    BY BoundsAssumption DEF Init, BoundsAssumption
  <2>3. sleepCountdown \in Int /\ ~(sleepCountdown >= 0)
    BY <2>1
  <2>4. sleepTimer \in BOOLEAN /\ ~sleepTimer
    BY <2>1
  <2>. QED  BY <2>2, <2>3, <2>4 DEF TimerCore, TimersInv
<1>3. LoopCore
  <2>1. inactivityCountdown \in 1..InactivityTimeout
    BY TimeoutsAssumption DEF Init, TimeoutsAssumption
  <2>2. due \in 0..MaxSleepTimers + 1 /\ handled \in 0..Batch
    BY BoundsAssumption DEF Init, BoundsAssumption
  <2>3. /\ phase \in Phases /\ doLaters \in BOOLEAN /\ drafts \subseteq Paths
        /\ ui \in [apps: SUBSET Paths, running: SUBSET Paths, button: Buttons]
        /\ NoticeScheduled
    BY DEF Init, Phases, NoWidgets, Buttons, NoticeScheduled
  <2>. QED  BY <2>1, <2>2, <2>3 DEF LoopCore
<1>. QED  BY <1>1, <1>2, <1>3, IInvParts

\* Each action keeps the invariant.
LEMMA NextIInv == IInv /\ [Next]_vars => IInv'
<1> SUFFICES ASSUME IInv, [Next]_vars PROVE IInv'
  OBVIOUS
<1>1. AppCore /\ TimerCore /\ LoopCore
  BY IInvParts
<1>2. drafts \subseteq Paths
  BY <1>1 DEF LoopCore
<1> SUFFICES AppCore' /\ TimerCore' /\ LoopCore'
  <2>1. AppCore' /\ TimerCore' /\ LoopCore' => IInv'
    BY DEF IInv, TypeOK, AppCore, AppTypeOK, TimerCore, LoopCore
  <2>. QED  BY <2>1
<1>3. /\ inactivityCountdown \in 1..InactivityTimeout
      /\ phase \in Phases /\ due \in 0..MaxSleepTimers + 1
      /\ ui \in [apps: SUBSET Paths, running: SUBSET Paths, button: Buttons]
      /\ handled \in 0..Batch /\ doLaters \in BOOLEAN
  BY <1>1 DEF LoopCore
\* Steps that leave the Apps, their processes and the sleep timer alone.
<1>4. CASE Rebuild
  <2>1. AppCore' /\ TimerCore'
    BY <1>1, <1>4, UnchangedCore, SleepUnchanged DEF Rebuild
  <2>2. /\ phase = "rebuild" /\ phase' = "wait" /\ handled' = 0
        /\ UNCHANGED <<inactivityCountdown, due, doLaters, drafts,
                       stoppedChildren>>
    BY <1>4 DEF Rebuild, Goto
  <2>3. ui' \in [apps: SUBSET Paths, running: SUBSET Paths, button: Buttons]
    <3> DEFINE b == CASE sleepCountdown > 0 -> "Stop"
                      [] sleepCountdown = 0 -> "none"
                      [] OTHER              -> "Sleep"
    <3>1. b \in Buttons
      BY DEF Buttons
    <3>2. ui' = IF visible THEN [apps |-> apps, running |-> apps \cap running,
                                 button |-> b]
                           ELSE NoWidgets
      BY <1>4 DEF Rebuild
    <3>3. NoWidgets
            \in [apps: SUBSET Paths, running: SUBSET Paths, button: Buttons]
      BY DEF NoWidgets, Buttons
    <3> HIDE DEF b
    <3>. QED  BY <1>1, <3>1, <3>2, <3>3 DEF AppCore, AppTypeOK
  <2>4. handled' \in 0..Batch
    BY <2>2, BoundsAssumption DEF BoundsAssumption
  <2>5. /\ inactivityCountdown' \in 1..InactivityTimeout
        /\ phase' \in Phases /\ due' \in 0..MaxSleepTimers + 1
        /\ doLaters' \in BOOLEAN /\ drafts' \subseteq Paths
    BY <1>2, <1>3, <2>2 DEF Phases
  <2>. QED  BY <1>1, <2>1, <2>2, <2>3, <2>4, <2>5, LoopStep
<1>5. CASE Quit \/ TimersChecked \/ InputHandled \/ TapStale
  <2>1. AppCore' /\ TimerCore'
    BY <1>1, <1>5, UnchangedCore, SleepUnchanged
    DEF Quit, TimersChecked, InputHandled, TapStale
  <2>2. /\ UNCHANGED <<inactivityCountdown, ui, handled, doLaters, drafts,
                       stoppedChildren>>
        /\ phase' \in Phases
        /\ phase' \in {"exited", "undefined"}
             \/ phase \notin {"exited", "undefined"}
    BY <1>5 DEF Quit, TimersChecked, InputHandled, TapStale, Goto, Phases
  <2>3. due' = due \/ due' = 0
    BY <1>5 DEF Quit, TimersChecked, InputHandled, TapStale
  <2>4. due' \in 0..MaxSleepTimers + 1
    BY <1>3, <2>3, BoundsAssumption DEF BoundsAssumption
  <2>. QED  BY <1>1, <1>2, <1>3, <2>1, <2>2, <2>4, LoopStep
<1>6. CASE WaitForInput
  <2>1. AppCore' /\ TimerCore'
    BY <1>1, <1>6, UnchangedCore, SleepUnchanged DEF WaitForInput
  <2>2. /\ phase = "wait" /\ phase' = "timers" /\ due' = liveTimers + 1
        /\ UNCHANGED <<inactivityCountdown, ui, handled, doLaters, drafts,
                       stoppedChildren>>
    BY <1>6 DEF WaitForInput, Goto
  <2>3. due' \in 0..MaxSleepTimers + 1
    BY <1>1, <2>2, BoundsAssumption DEF TimerCore, BoundsAssumption
  <2>. QED  BY <1>1, <1>2, <1>3, <2>1, <2>2, <2>3, LoopStep DEF Phases
<1>7. CASE DoAllLaters
  <2>1. /\ phase = "laters" /\ phase' = "input" /\ doLaters' = FALSE
        /\ UNCHANGED <<inactivityCountdown, ui, due, handled, drafts>>
        /\ UNCHANGED sleepVars /\ UNCHANGED procVars
    BY <1>7 DEF DoAllLaters, Goto
  <2>2. TimerCore'
    BY <1>1, <2>1, SleepUnchanged
  <2>3. AppCore' /\ stoppedChildren' = {}
    <3>1. CASE doLaters
      <4>1. updateStoppedApps
        BY <1>7, <3>1 DEF DoAllLaters
      <4>. QED
        BY <1>1, <1>2, <2>1, <4>1, UpdateStoppedAppsCore
        DEF updateStoppedApps
    <3>2. CASE ~doLaters
      <4>1. UNCHANGED <<appVars, stoppedChildren>>
        BY <1>7, <3>2 DEF DoAllLaters
      <4>2. stoppedChildren = {}
        BY <1>1, <2>1, <3>2 DEF LoopCore, NoticeScheduled
      <4>. QED  BY <1>1, <2>1, <4>1, <4>2, UnchangedCore
    <3>. QED  BY <3>1, <3>2
  <2>. QED  BY <1>1, <1>2, <1>3, <2>1, <2>2, <2>3, LoopStep DEF Phases
\* The timers.
<1>8. CASE CountTick
  <2>1. AppCore'
    BY <1>1, <1>8, UnchangedCore DEF CountTick
  <2>2. /\ phase = "timers" /\ due > 0 /\ due' = due - 1
        /\ sleepCountdown # 0 /\ sleepCountdown' = sleepCountdown - 1
        /\ UNCHANGED <<inactivityCountdown, phase, ui, handled, doLaters,
                       drafts, stoppedChildren, sleepTimer, liveTimers>>
    BY <1>8 DEF CountTick
  <2>3. /\ sleepCountdown' \in Int
        /\ sleepCountdown' >= 0 => sleepCountdown >= 0
    BY <1>1, <2>2 DEF TimerCore
  <2>4. TimerCore'
    BY <1>1, <2>2, <2>3 DEF TimerCore, TimersInv
  <2>5. due' \in 0..MaxSleepTimers + 1
    BY <1>3, <2>2, BoundsAssumption DEF BoundsAssumption
  <2>. QED  BY <1>1, <1>2, <1>3, <2>1, <2>2, <2>4, <2>5, LoopStep
<1>9. ASSUME NEW woken \in BOOLEAN, SleepTick(woken)
      PROVE  AppCore' /\ TimerCore' /\ LoopCore'
  <2>1. /\ phase = "timers" /\ due' = liveTimers' + 1
        /\ liveTimers > 0 /\ sleepCountdown = 0
        /\ UNCHANGED <<phase, ui, handled, doLaters, drafts, stoppedChildren>>
    BY <1>9 DEF SleepTick
  <2>2. /\ AppCore' /\ TimerCore'
        /\ inactivityCountdown' \in 1..InactivityTimeout
    <3>1. CASE inactivityCountdown' = InactivityTimeout /\ hide(FALSE)
      <4>1. inactivityCountdown' \in 1..InactivityTimeout
        BY <3>1, TimeoutsAssumption DEF TimeoutsAssumption
      <4>. QED  BY <1>1, <2>1, <3>1, <4>1, HideCore
    <3>2. CASE /\ sleepCountdown' = RetryTimeout
               /\ UNCHANGED <<appVars, sleepTimer, liveTimers,
                              inactivityCountdown, procVars>>
      <4>1. AppCore'
        BY <1>1, <2>1, <3>2, UnchangedCore
      <4>2. sleepCountdown' \in Int
        BY <3>2, TimeoutsAssumption DEF TimeoutsAssumption
      <4>3. sleepCountdown >= 0
        BY <2>1
      <4>4. TimerCore'
        BY <1>1, <3>2, <4>2, <4>3 DEF TimerCore, TimersInv
      <4>. QED  BY <1>3, <3>2, <4>1, <4>4
    <3>. QED  BY <1>9, <3>1, <3>2 DEF SleepTick
  <2>3. due' \in 0..MaxSleepTimers + 1
    <3>1. liveTimers' \in 0..MaxSleepTimers
      BY <2>2 DEF TimerCore
    <3>2. due' = liveTimers' + 1
      BY <2>1
    <3>. QED  BY <3>1, <3>2, OneMoreTimer
  <2>. QED  BY <1>1, <1>2, <1>3, <2>1, <2>2, <2>3, LoopStep
<1>10. CASE InactivityTick
  <2>1. /\ phase = "timers" /\ due > 0 /\ due' = due - 1
        /\ UNCHANGED <<phase, ui, handled, doLaters, drafts, stoppedChildren>>
    BY <1>10 DEF InactivityTick
  <2>2. /\ AppCore' /\ TimerCore'
        /\ inactivityCountdown' \in 1..InactivityTimeout
    <3>1. CASE inactivityExpires
      <4>1. /\ inactivityCountdown' = InactivityTimeout
            /\ startTimer(SleepTimeout, liveTimers) /\ show
        BY <1>10, <3>1 DEF InactivityTick
      <4>2. /\ inactivityCountdown' \in 1..InactivityTimeout
            /\ SleepTimeout \in Nat /\ liveTimers \in 0..MaxSleepTimers
        BY <1>1, <4>1, TimeoutsAssumption DEF TimeoutsAssumption, TimerCore
      <4>. QED
        BY <1>1, <1>2, <2>1, <4>1, <4>2, ShowCore, StartTimerCore
    <3>2. CASE ~inactivityExpires
      <4>1. /\ inactivityCountdown' = inactivityCountdown - 1
            /\ UNCHANGED <<appVars, sleepVars, procVars>>
        BY <1>10, <3>2 DEF InactivityTick
      <4>2. inactivityCountdown' \in 1..InactivityTimeout
        BY <1>3, <3>2, <4>1, TimeoutsAssumption
        DEF inactivityExpires, TimeoutsAssumption
      <4>. QED
        BY <1>1, <2>1, <4>1, <4>2, UnchangedCore, SleepUnchanged
    <3>. QED  BY <3>1, <3>2
  <2>3. due' \in 0..MaxSleepTimers + 1
    BY <1>3, <2>1, BoundsAssumption DEF BoundsAssumption
  <2>. QED  BY <1>1, <1>2, <1>3, <2>1, <2>2, <2>3, LoopStep
\* Input.
<1>11. ASSUME NEW p \in Paths, TapApp(p)
       PROVE  AppCore' /\ TimerCore' /\ LoopCore'
  <2>1. HandleEvent /\ p \in ui.apps
    BY <1>11 DEF TapApp
  <2>2. PICK q \in referents(p) : switchApp(q)
    BY <1>11 DEF TapApp
  <2>3. q \in apps /\ stopTimer
    BY <1>1, <2>1, <2>2, ReferentsInList DEF switchApp
  <2>. QED
    BY <1>1, <2>1, <2>2, <2>3, EventLoopCore, SwitchAppCore, StopTimerCore
<1>12. ASSUME NEW p \in Paths, TapKill(p)
       PROVE  AppCore' /\ TimerCore' /\ LoopCore'
  <2>1. HandleEvent /\ p \in ui.running
    BY <1>12 DEF TapKill
  <2>2. PICK q \in referents(p) : stop(q)
    BY <1>12 DEF TapKill
  <2>3. q \in Paths /\ stopTimer
    BY <1>1, <2>2 DEF AppCore, AppTypeOK, referents, stop
  <2>. QED
    BY <1>1, <2>1, <2>2, <2>3, EventLoopCore, StopCore, StopTimerCore
<1>13. CASE TapStop \/ TapSleep \/ OtherInput
  <2>1. HandleEvent /\ UNCHANGED <<appVars, procVars>>
    BY <1>13 DEF TapStop, TapSleep, OtherInput
  <2>2. AppCore' /\ LoopCore'
    BY <1>1, <2>1, EventLoopCore, UnchangedCore
  <2>3. TimerCore'
    <3>1. CASE TapStop
      BY <1>1, <3>1, StopTimerCore DEF TapStop
    <3>2. CASE TapSleep
      BY <1>1, <3>2, StartTimerCore DEF TapSleep, TimerCore
    <3>3. CASE OtherInput
      BY <1>1, <3>3, SleepUnchanged DEF OtherInput
    <3>. QED  BY <1>13, <3>1, <3>2, <3>3
  <2>. QED  BY <2>2, <2>3
<1>14. CASE PowerKey
  BY <1>1, <1>14, EventLoopCore, ToggleCore DEF PowerKey
\* The handler and the environment.
<1>15. CASE Cleanup
  <2>1. /\ UNCHANGED <<inactivityCountdown, phase, ui, due, handled, drafts>>
        /\ UNCHANGED sleepVars /\ doLaters' = withCallback
        /\ stoppedChildren' = stoppedChildren \cup reapable
    BY <1>15 DEF Cleanup
  <2>2. AppCore' /\ TimerCore'
    BY <1>1, <1>15, <2>1, CleanupCore, SleepUnchanged
  <2>3. NoticeScheduled'
    BY <2>1 DEF NoticeScheduled, withCallback
  <2>4. doLaters' \in BOOLEAN
    BY <2>1, <1>3 DEF withCallback
  <2>5. LoopCore'
    BY <1>2, <1>3, <2>1, <2>3, <2>4 DEF LoopCore
  <2>. QED  BY <2>2, <2>5
<1>16. ASSUME NEW q \in Pids, Exec(q) \/ Exit(q)
       PROVE  AppCore' /\ TimerCore' /\ LoopCore'
  <2>1. /\ UNCHANGED <<appVars, sleepVars, inactivityCountdown, loopVars,
                       drafts, term, unheard, stoppedChildren>>
        /\ sigchld' \in BOOLEAN
        /\ proc[q] \in {"forked", "run", "stop"}
        /\ \E st \in {"run", "zombie"} :
             /\ proc' = [proc EXCEPT ![q] = st]
             /\ st = "run" => proc[q] = "forked"
    BY <1>1, <1>16 DEF Exec, Exit, AppCore, AppTypeOK
  <2>2. AppCore' /\ TimerCore'
    BY <1>1, <2>1, ChildCore, SleepUnchanged
  <2>3. LoopCore'
    BY <1>1, <2>1 DEF LoopCore, NoticeScheduled, loopVars
  <2>. QED  BY <2>2, <2>3
<1>17. ASSUME NEW p \in Paths, DraftChange(p)
       PROVE  AppCore' /\ TimerCore' /\ LoopCore'
  <2>1. /\ UNCHANGED <<appVars, sleepVars, inactivityCountdown, loopVars,
                       procVars, stoppedChildren>>
        /\ drafts' \subseteq Paths
    BY <1>2, <1>17 DEF DraftChange
  <2>2. LoopCore'
    BY <1>1, <2>1 DEF LoopCore, NoticeScheduled, loopVars
  <2>. QED  BY <1>1, <2>1, <2>2, UnchangedCore, SleepUnchanged
<1>18. CASE UNCHANGED vars
  <2>1. UNCHANGED <<appVars, sleepVars, inactivityCountdown, loopVars, drafts,
                    procVars, stoppedChildren>>
    BY <1>18 DEF vars
  <2>2. LoopCore'
    BY <1>1, <2>1 DEF LoopCore, NoticeScheduled, loopVars
  <2>. QED  BY <1>1, <2>1, <2>2, UnchangedCore, SleepUnchanged
<1>. QED
  BY <1>4, <1>5, <1>6, <1>7, <1>8, <1>9, <1>10, <1>11, <1>12, <1>13, <1>14,
     <1>15, <1>16, <1>17, <1>18
  DEF Next, Loop, User, Environment

\* IInv holds throughout.
THEOREM LauncherInvariant == Spec => []IInv
BY InitIInv, NextIInv, PTL DEF Spec

-----------------------------------------------------------------------------
(* What follows from it.                                                   *)

\* The launcher's state keeps its type: the counters stay in their ranges
\* and every reference is to a draft path or a process.
THEOREM LauncherTypeOK == Spec => []TypeOK
<1>1. IInv => TypeOK
  BY DEF IInv
<1>. QED  BY <1>1, LauncherInvariant, PTL

\* currentAppPath never outlives its App's process in the launcher's view.
THEOREM LauncherCurrentIsRunning == Spec => []CurrentIsRunning
<1>1. IInv => CurrentIsRunning
  BY DEF IInv
<1>. QED  BY <1>1, LauncherInvariant, PTL

\* No child is forgotten or claimed twice while it lives or awaits notice.
THEOREM LauncherEachChildHasOneApp == Spec => []EachChildHasOneApp
<1>1. IInv => EachChildHasOneApp
  <2> SUFFICES ASSUME IInv, NEW q \in Pids
               PROVE  LET owners == {p \in Paths : pidOf[p] = q}
                      IN  IF proc[q] = "none"
                               \/ (proc[q] = "gone" /\ q \notin stoppedChildren)
                            THEN owners = {}
                            ELSE \E p \in apps : owners = {p}
    BY DEF EachChildHasOneApp
  <2>1. Unseen(q) <=> \E p \in Paths : pidOf[p] = q
    BY DEF IInv, ProcessInv
  <2>2. CASE ~Unseen(q)
    BY <2>1, <2>2 DEF Unseen
  <2>3. CASE Unseen(q)
    <3>1. PICK p \in Paths : pidOf[p] = q
      BY <2>1, <2>3
    <3>2. isRunning(p)
      BY <3>1, NamesAssumption DEF isRunning
    <3>3. p \in apps
      BY <3>2 DEF IInv, RunInfoInv, isRunning
    <3>4. {r \in Paths : pidOf[r] = q} = {p}
      BY <3>1, <3>2 DEF IInv, RunInfoInv
    <3>. QED  BY <2>3, <3>3, <3>4 DEF Unseen
  <2>. QED  BY <2>2, <2>3
<1>. QED  BY <1>1, LauncherInvariant, PTL

\* No app but the current one runs, and that one only behind a hidden
\* launcher - except those told to terminate or not reached by SIGSTOP.
THEOREM LauncherOnlyCurrentRuns == Spec => []OnlyCurrentRuns
<1>1. IInv => OnlyCurrentRuns
  <2> SUFFICES ASSUME IInv, NEW q \in Pids,
                      proc[q] = "run", q \notin term \cup unheard
               PROVE  /\ ~visible /\ hasCurrentApp
                      /\ pidOf[currentAppPath] = q
    BY DEF OnlyCurrentRuns
  <2>1. PICK p \in Paths : pidOf[p] = q
    BY DEF IInv, ProcessInv, Unseen
  <2>2. isRunning(p) /\ p \in apps
    BY <2>1, NamesAssumption DEF IInv, RunInfoInv, isRunning
  <2>3. p \notin paused
    BY <2>1 DEF IInv, PausedInv
  <2>4. p = currentAppPath /\ ~visible
    BY <2>2, <2>3 DEF IInv, PausedInv
  <2>. QED  BY <2>1, <2>2, <2>4 DEF hasCurrentApp
<1>. QED  BY <1>1, LauncherInvariant, PTL

\* A reaped child waits for a callback that is queued.
THEOREM LauncherNoticeScheduled == Spec => []NoticeScheduled
<1>1. IInv => NoticeScheduled
  BY DEF IInv
<1>. QED  BY <1>1, LauncherInvariant, PTL

\* A countdown that is shown has an enabled timer that its button can stop.
THEOREM LauncherCountdownHasTimer == Spec => []CountdownHasTimer
<1>1. IInv => CountdownHasTimer
  <2> SUFFICES ASSUME IInv, sleepCountdown >= 0
               PROVE  sleepTimer /\ liveTimers > 0
    BY DEF CountdownHasTimer
  <2>1. sleepTimer /\ liveTimers >= 1
    BY DEF IInv, TimersInv
  <2>2. liveTimers \in Nat
    BY BoundsAssumption DEF IInv, TypeOK, BoundsAssumption
  <2>. QED  BY <2>1, <2>2
<1>. QED  BY <1>1, LauncherInvariant, PTL

-----------------------------------------------------------------------------
(* What becomes of the list and of the current app.                        *)

\* Four things happen to the Apps: one is switched to, the launcher is shown,
\* children that exited are noticed, or nothing.
LEMMA AppSteps ==
  ASSUME IInv, [Next]_vars
  PROVE  \/ UNCHANGED <<apps, pidOf, paused, shouldRemove, currentAppPath, visible>>
         \/ \E p \in apps : switchApp(p)
         \/ show /\ ~visible
         \/ updateStoppedApps
<1>1. ASSUME UNCHANGED appVars
      PROVE  UNCHANGED <<apps, pidOf, paused, shouldRemove, currentAppPath, visible>>
  BY <1>1 DEF appVars
<1>2. ASSUME NEW withContext, hide(withContext)
      PROVE  UNCHANGED appVars \/ \E p \in apps : switchApp(p)
  BY <1>2 DEF hide, hasCurrentApp
<1>3. ASSUME show PROVE UNCHANGED appVars \/ (show /\ ~visible)
  BY <1>3 DEF show
<1>4. CASE Loop
  BY <1>1, <1>4 DEF Loop, Rebuild, WaitForInput, TimersChecked, DoAllLaters, InputHandled
<1>5. ASSUME CountTick \/ InactivityTick \/ \E woken \in BOOLEAN : SleepTick(woken)
      PROVE  UNCHANGED appVars \/ (\E p \in apps : switchApp(p)) \/ (show /\ ~visible)
  <2>1. CASE CountTick
    BY <2>1 DEF CountTick
  <2>2. CASE InactivityTick
    BY <1>3, <2>2 DEF InactivityTick
  <2>3. CASE \E woken \in BOOLEAN : SleepTick(woken)
    BY <1>2, <2>3 DEF SleepTick
  <2>. QED  BY <1>5, <2>1, <2>2, <2>3
<1>6. ASSUME NEW p \in Paths, TapApp(p)
      PROVE  \E q \in apps : switchApp(q)
  BY <1>6, ReferentsInList, IInvParts DEF TapApp
<1>7. ASSUME NEW p \in Paths, TapKill(p)
      PROVE  UNCHANGED <<apps, pidOf, paused, shouldRemove, currentAppPath, visible>>
  BY <1>7 DEF TapKill, stop
<1>8. CASE TapStop \/ TapSleep \/ OtherInput \/ TapStale
  BY <1>1, <1>8 DEF TapStop, TapSleep, OtherInput, TapStale
<1>9. CASE PowerKey
  <2>1. hide(sleepCountdown <= 0) \/ show
    BY <1>9 DEF PowerKey, toggle
  <2>. QED  BY <1>1, <1>2, <1>3, <2>1
<1>10. CASE Cleanup \/ Environment \/ Quit
  BY <1>1, <1>10 DEF Cleanup, Environment, Exec, Exit, DraftChange, Quit
<1>11. CASE UNCHANGED vars
  BY <1>1, <1>11 DEF vars
<1>. QED
  BY <1>1, <1>4, <1>5, <1>6, <1>7, <1>8, <1>9, <1>10, <1>11 DEF Next, User

\* The current app is the one that runs while the launcher is hidden.
Hidden == ~visible => hasCurrentApp /\ currentAppPath \notin paused

\* If fork does not fail, no step hides the launcher without an app in front.
LEMMA HiddenStep ==
  ASSUME ~ForkMayFail, IInv, Hidden, [Next]_vars
  PROVE  Hidden'
<1>1. CASE UNCHANGED <<apps, pidOf, paused, shouldRemove, currentAppPath, visible>>
  BY <1>1 DEF Hidden, hasCurrentApp
<1>2. ASSUME NEW p \in apps, switchApp(p)
      PROVE  Hidden'
  <2>. DEFINE stopping == paused \cup currentToPause
              S        == {pidOf[c] : c \in currentToPause}
  <2>1. running \subseteq stopping /\ p \in Paths
    BY PauseCurrentFirst, IInvParts DEF AppCore, AppTypeOK
  <2>2. apps' = apps /\ (resume(p, stopping, S) \/ launch(p, stopping, S) \/ switchTo(p, stopping, S))
    BY <1>2 DEF switchApp
  <2>3. ~switchTo(p, stopping, S)
    BY <2>1 DEF switchTo, running
  <2>4. currentAppPath' = p /\ paused' = stopping \ {p}
    BY <2>2, <2>3 DEF resume, launch
  <2>. QED  BY <2>2, <2>4 DEF Hidden, hasCurrentApp
<1>3. CASE show /\ ~visible
  BY <1>3 DEF show, Hidden
<1>4. CASE updateStoppedApps
  <2>. DEFINE dead == {p \in apps : pidOf[p] \in stoppedChildren}
  <2>1. /\ paused' = paused \ dead
        /\ currentAppPath' = currentAfter(dead) /\ visible' = visibleAfter(dead)
        /\ currentAppPath \notin dead => apps' = apps \ erased(dead, shouldRemove)
    BY <1>4 DEF updateStoppedApps
  <2>2. CASE visible'
    BY <2>2 DEF Hidden
  <2>3. CASE ~visible'
    <3>1. ~visible /\ currentAppPath \notin dead /\ currentAppPath' = currentAppPath
      BY <2>1, <2>3 DEF visibleAfter, currentAfter
    <3>2. currentAppPath \in apps' /\ currentAppPath \notin paused'
      BY <2>1, <3>1 DEF Hidden, hasCurrentApp, erased
    <3>. QED  BY <3>1, <3>2 DEF Hidden, hasCurrentApp
  <2>. QED  BY <2>2, <2>3
<1>. QED  BY <1>1, <1>2, <1>3, <1>4, AppSteps

\* If fork does not fail, the launcher is hidden only behind an app that is
\* running and not paused.
THEOREM LauncherHiddenBehindApp ==
  ASSUME ~ForkMayFail
  PROVE  Spec => []HiddenBehindApp
<1>1. Init => Hidden
  BY DEF Init, Hidden
<1>2. IInv /\ Hidden /\ [Next]_vars => Hidden'
  BY HiddenStep
<1>3. IInv /\ Hidden => HiddenBehindApp
  <2>. SUFFICES ASSUME IInv, Hidden, ~visible
                PROVE  hasCurrentApp /\ isRunning(currentAppPath) /\ ~isPaused(currentAppPath)
    BY DEF HiddenBehindApp
  <2>1. hasCurrentApp /\ currentAppPath \notin paused
    BY DEF Hidden
  <2>2. currentAppPath # NoPath
    BY <2>1, NamesAssumption DEF IInv, TypeOK, hasCurrentApp
  <2>. QED  BY <2>1, <2>2 DEF IInv, CurrentIsRunning, isPaused
<1>. QED  BY <1>1, <1>2, <1>3, LauncherInvariant, PTL DEF Spec

\* No App leaves the list, and no mark is lost, while the App has a process:
\* whatever drafts come and go, and whoever dies.
THEOREM LauncherRemovalDeferred == Spec => RemovalDeferred
<1>. DEFINE Deferred ==
       \A p \in Paths :
         /\ p \in apps /\ p \notin apps' => pidOf'[p] = NoPid
         /\ p \in shouldRemove \ shouldRemove' => pidOf'[p] = NoPid
<1>1. ASSUME IInv, [Next]_vars PROVE Deferred
  <2>1. CASE UNCHANGED <<apps, pidOf, paused, shouldRemove, currentAppPath, visible>>
    BY <2>1
  <2>2. ASSUME NEW p \in apps, switchApp(p) PROVE Deferred
    <3>1. p \in Paths /\ shouldRemove \subseteq running
      BY <1>1 DEF IInv, TypeOK, RunInfoInv
    <3>2. /\ apps' = apps
          /\ shouldRemove' = shouldRemove \/ (shouldRemove' = shouldRemove \ {p} /\ ~isRunning(p))
      BY <2>2 DEF switchApp, resume, launch, switchTo
    <3>. QED  BY <3>1, <3>2 DEF running
  <2>3. CASE show /\ ~visible
    <3>1. /\ apps' = readAppsKeep(apps, running) /\ pidOf' = pidOf
          /\ shouldRemove \subseteq shouldRemove'
      BY <2>3 DEF show
    <3>. QED  BY <3>1 DEF readAppsKeep, running, isRunning
  <2>4. CASE updateStoppedApps
    <3>. DEFINE dead == {p \in apps : pidOf[p] \in stoppedChildren}
    <3>1. /\ pidOf' = [p \in Paths |-> IF p \in dead THEN NoPid ELSE pidOf[p]]
          /\ dead \subseteq apps
      BY <2>4 DEF updateStoppedApps
    <3>2. CASE currentAppPath \notin dead \/ visible
      <4>1. apps' = apps \ erased(dead, shouldRemove) /\ shouldRemove' = shouldRemove \ dead
        BY <2>4, <3>2 DEF updateStoppedApps
      <4>. QED  BY <3>1, <4>1 DEF erased
    <3>3. CASE ~(currentAppPath \notin dead \/ visible)
      <4>1. PICK first \in SUBSET (dead \ {currentAppPath}) :
              LET early  == first \cup {currentAppPath}
                  kept   == apps \ erased(early, shouldRemove)
                  marked == shouldRemove \cup readAppsRemove(kept, running \ early)
              IN  /\ apps' = readAppsKeep(kept, running \ early) \ erased(dead \ early, marked)
                  /\ shouldRemove' = marked \ dead
        BY <2>4, <3>3 DEF updateStoppedApps
      <4>. DEFINE early == first \cup {currentAppPath}
      <4>2. early \subseteq dead
        BY <3>3
      <4>3. ASSUME NEW p \in Paths, p \in apps, p \notin apps', p \notin dead
            PROVE  p \notin running
        BY <4>1, <4>2, <4>3 DEF erased, readAppsKeep
      <4>. QED  BY <3>1, <4>1, <4>3 DEF running, isRunning
    <3>. QED  BY <3>2, <3>3
  <2>. QED  BY <1>1, <2>1, <2>2, <2>3, <2>4, AppSteps
<1>2. IInv /\ [Next]_vars => [Deferred]_vars
  BY <1>1
<1>. QED  BY <1>2, LauncherInvariant, PTL DEF Spec, RemovalDeferred

\* While the launcher is on the screen an App leaves the list only when its
\* draft had gone and it has died, and none is added: for any events in an
\* iteration, whatever drafts come and go, and whoever dies.
THEOREM LauncherListStands == Spec => ListStands
<1>. DEFINE Erased == /\ apps' \subseteq apps
                      /\ \A p \in apps \ apps' : p \in shouldRemove /\ pidOf[p] \in stoppedChildren
            Stands == visible /\ apps' # apps => Erased
<1>1. ASSUME IInv, [Next]_vars PROVE Stands
  <2>1. CASE UNCHANGED <<apps, pidOf, paused, shouldRemove, currentAppPath, visible>>
    BY <2>1
  <2>2. CASE \E p \in apps : switchApp(p)
    BY <2>2 DEF switchApp
  <2>3. CASE show /\ ~visible
    BY <2>3
  <2>4. CASE updateStoppedApps
    <3>. SUFFICES ASSUME visible PROVE Erased
      OBVIOUS
    <3>. DEFINE dead == {p \in apps : pidOf[p] \in stoppedChildren}
    <3>1. apps' = apps \ (dead \cap shouldRemove)
      BY <2>4 DEF updateStoppedApps, erased
    <3>. QED  BY <3>1
  <2>. QED  BY <1>1, <2>1, <2>2, <2>3, <2>4, AppSteps
<1>2. IInv /\ [Next]_vars => [Stands]_vars
  BY <1>1
<1>. QED  BY <1>2, LauncherInvariant, PTL DEF Spec, ListStands

-----------------------------------------------------------------------------
(* The countdown behind the launcher's back.                               *)

\* The countdown after one of the operations that set it, and what they make
\* of the screen.
LEMMA Countdowns ==
  /\ stopTimer => sleepCountdown' = -1
  /\ \A p : switchApp(p) \/ stop(p) => sleepCountdown' = -1
  /\ hide(FALSE) => sleepCountdown' = -1
  /\ hide(sleepCountdown <= 0) =>
       sleepCountdown' = -1 \/ (sleepCountdown' = 0 /\ visible' = visible /\ visible)
  /\ show => visible' = TRUE \/ (visible' = visible /\ visible)
<1>1. stopTimer => sleepCountdown' = -1
  BY DEF stopTimer
<1>2. \A p : switchApp(p) \/ stop(p) => sleepCountdown' = -1
  BY <1>1 DEF switchApp, stop
<1>. QED  BY <1>1, <1>2 DEF hide, startTimer, show, appVars

\* Every step but one keeps a countdown on the screen.
LEMMA SleepStep ==
  ASSUME IInv, CountsOnScreen, [Next]_vars, ~TapSleep
  PROVE  CountsOnScreen'
<1>. USE DEF CountsOnScreen
<1>1. sleepCountdown \in Int
  BY DEF IInv, TypeOK
<1>2. ASSUME sleepCountdown' = -1 PROVE CountsOnScreen'
  BY <1>2
\* The loop and the children: the launcher may be brought back.
<1>3. CASE DoAllLaters
  <2>1. sleepCountdown' = sleepCountdown /\ (visible => visible')
    BY <1>3 DEF DoAllLaters, sleepVars, updateStoppedApps, visibleAfter, appVars
  <2>. QED  BY <2>1
<1>4. ASSUME UNCHANGED <<visible, sleepCountdown>> PROVE CountsOnScreen'
  BY <1>4
<1>5. CASE Rebuild \/ WaitForInput \/ TimersChecked \/ InputHandled \/ Quit
  BY <1>4, <1>5 DEF Rebuild, WaitForInput, TimersChecked, InputHandled, Quit, appVars, sleepVars
<1>6. CASE Cleanup \/ Environment \/ UNCHANGED vars
  BY <1>4, <1>6
  DEF Cleanup, Environment, Exec, Exit, DraftChange, vars, appVars, sleepVars
\* The timers, any number of them.
<1>7. CASE CountTick
  <2>1. sleepCountdown' = sleepCountdown - 1 /\ visible' = visible
    BY <1>7 DEF CountTick, appVars
  <2>. QED  BY <1>1, <2>1
<1>8. ASSUME NEW woken \in BOOLEAN, SleepTick(woken)
      PROVE  CountsOnScreen'
  <2>1. /\ sleepCountdown = 0
        /\ hide(FALSE) \/ visible' = visible
    BY <1>8 DEF SleepTick, appVars
  <2>2. CASE hide(FALSE)
    BY <1>2, <2>2, Countdowns
  <2>3. CASE visible' = visible
    BY <2>1, <2>3
  <2>. QED  BY <2>1, <2>2, <2>3
<1>9. CASE InactivityTick
  <2>1. show \/ UNCHANGED <<visible, sleepCountdown>>
    BY <1>9 DEF InactivityTick, appVars, sleepVars
  <2>. QED  BY <1>4, <2>1, Countdowns
\* Input, any number of events.
<1>10. ASSUME NEW p, TapApp(p) \/ TapKill(p) PROVE CountsOnScreen'
  BY <1>2, <1>10, Countdowns DEF TapApp, TapKill
<1>11. CASE TapStop
  BY <1>2, <1>11, Countdowns DEF TapStop
<1>12. CASE OtherInput \/ TapStale
  BY <1>4, <1>12 DEF OtherInput, TapStale, appVars, sleepVars
<1>13. CASE PowerKey
  <2>1. hide(sleepCountdown <= 0) \/ show
    BY <1>13 DEF PowerKey, toggle
  <2>. QED  BY <1>2, <2>1, Countdowns
<1>. QED
  BY <1>3, <1>5, <1>6, <1>7, <1>8, <1>9, <1>10, <1>11, <1>12, <1>13
  DEF Next, Loop, User

\* Whatever starts a countdown shows the launcher, whatever hides it ends the
\* countdown: for any number of events in a batch and of timers alive, only the
\* Sleep button of an old tree counts down behind an app.
THEOREM LauncherSleepsFromLauncher == Spec => SleepFromLauncher
<1>. DEFINE Kept == CountsOnScreen => CountsOnScreen' \/ TapSleep
<1>1. IInv /\ [Next]_vars => [Kept]_vars
  BY SleepStep
<1>. QED  BY <1>1, LauncherInvariant, PTL DEF Spec, SleepFromLauncher
=============================================================================
