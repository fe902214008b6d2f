----------------------------- MODULE SignalLoop -----------------------------
(***************************************************************************)
(* The SIGCHLD handler of rocket (cleanup) against the code it interrupts: *)
(* the loop of AppContext::doAllLaters, the callback that swaps the vector *)
(* stoppedChildren out and clears the Apps of its pids (updateStoppedApps) *)
(* and the launch of a child.  Nothing blocks the signal while that code   *)
(* runs; the handler runs on the same thread, from its start to its end,   *)
(* between any two steps of it.                                            *)
(*                                                                         *)
(* The handler appends to two vectors the interrupted code may be using.   *)
(* Whether an append moves a vector to a new buffer, and frees the old     *)
(* one, is up to the vector's capacity; it is left open here.              *)
(***************************************************************************)
EXTENDS Naturals

CONSTANTS
  Pids,        \* process ids; one is forked at most once
  NoPid,
  MaxLaters,   \* bound: callbacks in doLaters when SIGCHLD is raised
  QuietLaters  \* environment: no SIGCHLD is delivered inside doAllLaters

ASSUME SignalLoopAssumption ==
  /\ NoPid \notin Pids
  /\ MaxLaters \in Nat
  /\ QuietLaters \in BOOLEAN

VARIABLES
  pc,         \* where the main thread stands
  laters,     \* length of the vector doLaters
  toCall,     \* callbacks left before the end that the loop has cached
  moved,      \* whether doLaters was moved since the loop began
  stopped,    \* pids in the vector stoppedChildren
  mine,       \* pids in the vector currentStoppedApps
  freed,      \* whether the buffer of currentStoppedApps was freed
  launching,  \* pid that fork returned and no App has yet
  owned,      \* pids in the runInfo of some App
  proc,       \* state of each process
  sigchld     \* whether SIGCHLD is pending

laterVars == <<laters, toCall, moved>>
childVars == <<stopped, mine, freed, launching, owned>>
vars      == <<pc, laterVars, childVars, proc, sigchld>>

\* Where the main thread may stand: inside doAllLaters, and there inside the
\* std::swap of updateStoppedApps, which has copied the fields of the vector
\* (taken) or is overwriting them one by one (torn); launching an app from
\* a timer's callback or from input.
InLaters == {"next", "swap", "taken", "torn", "scan"}
Points   == {"wait", "timers", "timer launch", "input", "input launch",
             "undefined"} \cup InLaters

ProcStates == {"none", "run", "zombie", "reaped"}

TypeOK ==
  /\ pc \in Points
  /\ laters \in 0..MaxLaters + 1
  /\ toCall \in 0..MaxLaters + 1
  /\ moved \in BOOLEAN
  /\ stopped \subseteq Pids
  /\ mine \subseteq Pids
  /\ freed \in BOOLEAN
  /\ launching \in Pids \cup {NoPid}
  /\ owned \subseteq Pids
  /\ proc \in [Pids -> ProcStates]
  /\ sigchld \in BOOLEAN

-----------------------------------------------------------------------------
(* The main thread.                                                        *)

At(from, to) == pc = from /\ pc' = to

\* select returns: input, a timer, or a signal.
Wait ==
  /\ At("wait", "timers")
  /\ UNCHANGED <<laterVars, childVars, proc, sigchld>>

\* Mutant: the end of the range is one short.
rangeShort == IF laters = 0 THEN 0 ELSE laters - 1

\* The callbacks between begin() and end() as the range-for reads them.
range == laters

BeginLaters ==
  /\ At("timers", "next")
  /\ toCall' = range
  /\ moved' = FALSE
  /\ UNCHANGED <<laters, childVars, proc, sigchld>>

\* The next callback; in a buffer that has been freed there is none.
CallNext ==
  /\ pc = "next" /\ toCall > 0
  /\ pc' = IF moved THEN "undefined" ELSE "swap"
  /\ toCall' = toCall - 1
  /\ UNCHANGED <<laters, moved, childVars, proc, sigchld>>

\* clear() drops whatever is in doLaters by now.
Clear ==
  /\ At("next", "input")
  /\ toCall = 0
  /\ laters' = 0
  /\ UNCHANGED <<toCall, moved, childVars, proc, sigchld>>

\* std::swap with the empty local vector copies the fields ...
SwapTake ==
  /\ At("swap", "taken")
  /\ mine' = stopped
  /\ freed' = FALSE
  /\ UNCHANGED <<laterVars, stopped, launching, owned, proc, sigchld>>

\* ... and overwrites them one after the other.
SwapTear ==
  /\ At("taken", "torn")
  /\ UNCHANGED <<laterVars, childVars, proc, sigchld>>

SwapReset ==
  /\ pc = "torn"
  /\ pc' = IF freed THEN "undefined" ELSE "scan"
  /\ stopped' = {}
  /\ UNCHANGED <<laterVars, mine, freed, launching, owned, proc, sigchld>>

\* Mutant: the first App that runs is taken, its pid is not compared.
foundAny(q) == {r \in owned : r = CHOOSE s \in owned : TRUE}

\* What the search for the App of pid q finds.
found(q) == owned \cap {q}

\* One pid of currentStoppedApps: its App, if there is one, loses its runInfo
\* or is erased.
Scan(q) ==
  /\ pc = "scan" /\ q \in mine
  /\ mine' = mine \ {q}
  /\ owned' = owned \ found(q)
  /\ UNCHANGED <<pc, laterVars, stopped, freed, launching, proc, sigchld>>

ScanDone ==
  /\ At("scan", "next")
  /\ mine = {}
  /\ UNCHANGED <<laterVars, childVars, proc, sigchld>>

\* App::launch, from a timer (the device wakes up, or falls asleep) or from
\* input: first fork ...
Fork(q) ==
  /\ At("timers", "timer launch") \/ At("input", "input launch")
  /\ proc[q] = "none"
  /\ proc' = [proc EXCEPT ![q] = "run"]
  /\ launching' = q
  /\ UNCHANGED <<laterVars, stopped, mine, freed, owned, sigchld>>

\* ... then the App gets its runInfo.
SetRunInfo ==
  /\ At("timer launch", "timers") \/ At("input launch", "input")
  /\ owned' = owned \cup {launching}
  /\ launching' = NoPid
  /\ UNCHANGED <<laterVars, stopped, mine, freed, proc, sigchld>>

InputDone ==
  /\ At("input", "wait")
  /\ UNCHANGED <<laterVars, childVars, proc, sigchld>>

-----------------------------------------------------------------------------
(* The handler.                                                            *)

\* Mutant: waitpid is called once, not in a loop.
reportedOne ==
  LET zombies == {q \in Pids : proc[q] = "zombie"}
  IN  {q \in zombies : q = CHOOSE r \in zombies : TRUE}

\* The pids waitpid returns until there is no zombie left.
reported == {q \in Pids : proc[q] = "zombie"}

\* push_back of the pids in S.  When the swap has copied the fields, the new
\* pids are not in the copy and the old buffer is the copy's.
PushStopped(S) ==
  /\ stopped' = stopped \cup S
  /\ \/ UNCHANGED freed
     \/ pc = "taken" /\ S # {} /\ mine # {} /\ freed' = TRUE

\* stopCallback: emplace_back.
DoLater ==
  /\ laters' = laters + 1
  /\ \/ UNCHANGED moved
     \/ pc \in InLaters /\ moved' = TRUE

Cleanup ==
  /\ sigchld
  /\ pc # "undefined"
  /\ QuietLaters => pc \notin InLaters
  /\ sigchld' = FALSE
  /\ proc' = [q \in Pids |-> IF q \in reported THEN "reaped" ELSE proc[q]]
  /\ PushStopped(reported)
  /\ pc' = IF pc = "torn" /\ reported # {} THEN "undefined" ELSE pc
  /\ DoLater
  /\ UNCHANGED <<toCall, mine, launching, owned>>

-----------------------------------------------------------------------------
(* The children.                                                           *)

Exit(q) ==
  /\ proc[q] = "run"
  /\ laters <= MaxLaters
  /\ proc' = [proc EXCEPT ![q] = "zombie"]
  /\ sigchld' = TRUE
  /\ UNCHANGED <<pc, laterVars, childVars>>

\* A child stops or continues, which raises SIGCHLD as well.
StopOrContinue(q) ==
  /\ proc[q] = "run"
  /\ laters <= MaxLaters
  /\ sigchld' = TRUE
  /\ UNCHANGED <<pc, laterVars, childVars, proc>>

-----------------------------------------------------------------------------
Init ==
  /\ pc = "wait"
  /\ laters = 0
  /\ toCall = 0
  /\ moved = FALSE
  /\ stopped = {}
  /\ mine = {}
  /\ freed = FALSE
  /\ launching = NoPid
  /\ owned = {}
  /\ proc = [q \in Pids |-> "none"]
  /\ sigchld = FALSE

Main ==
  \/ Wait \/ BeginLaters \/ CallNext \/ Clear
  \/ SwapTake \/ SwapTear \/ SwapReset
  \/ \E q \in Pids : Scan(q)
  \/ ScanDone \/ SetRunInfo \/ InputDone

Next ==
  \/ Main
  \/ Cleanup
  \/ \E q \in Pids : Fork(q) \/ Exit(q) \/ StopOrContinue(q)

\* The inactivity timer makes select return; a pending signal is delivered, in
\* a quiet environment when the loop is not in doAllLaters.
Fairness == WF_vars(Main) /\ SF_vars(Cleanup)

Spec == Init /\ [][Next]_vars

FairSpec == Spec /\ Fairness

-----------------------------------------------------------------------------
(* What becomes of a child, as the launcher sees it: it is noticed when no *)
(* App has its pid any more.                                               *)

fate(q) ==
  IF proc[q] = "none" THEN "none"
  ELSE IF proc[q] = "run" THEN "alive"
  ELSE IF q \in owned \/ q = launching THEN "dead"
  ELSE "noticed"

Promise == INSTANCE ChildNotice WITH child <- [q \in Pids |-> fate(q)]

\* Wherever the handler strikes, no App loses a child that lives, and none
\* gets back one whose death was noticed (updateStoppedApps, App::launch).
NoticedAfterDeath == Promise!Safe

\* If no signal falls into doAllLaters, every child that was reaped and that
\* an App has, or is about to get, is in one of the two vectors, and a
\* callback that will come to it is queued or running.
NoneForgotten ==
  \A q \in Pids :
    /\ proc[q] = "reaped"
    /\ q \in owned \/ q = launching
    => \/ q \in mine
       \/ /\ q \in stopped
          /\ \/ pc \notin InLaters /\ laters > 0
             \/ pc = "next" /\ toCall > 0
             \/ pc = "swap"

\* If no signal falls into doAllLaters, every death is noticed.
NoticesAll == Promise!Live

\* An App whose process exits loses its runInfo or is removed (the mark
\* shouldRemove defers that "until exit"), wherever SIGCHLD strikes.
ExitIsNoticed ==
  \A q \in Pids :
    fate(q) = "dead" ~> fate(q) = "noticed" \/ pc = "undefined"

-----------------------------------------------------------------------------
(* The inductive invariant behind NoticedAfterDeath.                       *)

Launching == {"timer launch", "input launch"}

\* The bound holds when the handler adds a callback; a living child is known,
\* and only dead ones are in the vectors.
SafeInv ==
  /\ TypeOK
  /\ sigchld => laters <= MaxLaters
  /\ pc \in Launching <=> launching # NoPid
  /\ launching \notin owned
  /\ \A q \in Pids :
       /\ proc[q] = "none" => q \notin owned /\ q # launching
       /\ proc[q] = "run"  => q \in owned \/ q = launching
       /\ q \in stopped \/ q \in mine => proc[q] = "reaped"

=============================================================================
