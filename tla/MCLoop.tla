-------------------------------- MODULE MCLoop --------------------------------
(* The event loops and what they call, for TLC, each part on its own as in *)
(* MCCalculator: the SIGCHLD handler of rocket in two environments (it     *)
(* strikes anywhere, or not inside doAllLaters), the timers, the pages of  *)
(* the calculator, and the main program of yaft.                           *)
EXTENDS SignalLoop, Timers, Pages, YaftMain

VARIABLE part   \* the part that works

Quiet == INSTANCE SignalLoop WITH QuietLaters <- TRUE

MCVars == <<part, vars, timersState, pagesVars, yaftVars>>

MCInit ==
  /\ part \in {"rocket", "quiet rocket", "timers", "pages", "yaft"}
  /\ Init /\ TimersInit /\ PagesInit /\ YaftInit
  /\ part # "pages" => ~rom

RocketWorks ==
  /\ part = "rocket" /\ Next
  /\ UNCHANGED <<part, timersState, pagesVars, yaftVars>>

QuietRocketWorks ==
  /\ part = "quiet rocket" /\ Quiet!Next
  /\ UNCHANGED <<part, timersState, pagesVars, yaftVars>>

TimersWork ==
  /\ part = "timers" /\ TimersNext
  /\ UNCHANGED <<part, vars, pagesVars, yaftVars>>

PagesWork ==
  /\ part = "pages" /\ PagesNext
  /\ UNCHANGED <<part, vars, timersState, yaftVars>>

YaftWorks ==
  /\ part = "yaft" /\ YaftNext
  /\ UNCHANGED <<part, vars, timersState, pagesVars>>

MCNext == RocketWorks \/ QuietRocketWorks \/ TimersWork \/ PagesWork \/ YaftWorks

\* Each part is fair where it works.
MCSpec ==
  /\ MCInit /\ [][MCNext]_MCVars
  /\ WF_vars(part \in {"rocket", "quiet rocket"} /\ Main)
  /\ SF_vars(\/ part = "rocket" /\ Cleanup
             \/ part = "quiet rocket" /\ Quiet!Cleanup)
  /\ WF_timersState(part = "timers" /\ CheckTimers)
  /\ WF_pagesVars(part = "pages" /\ RunApp)
  /\ WF_yaftVars(part = "yaft" /\ YaftLoop)
  /\ WF_yaftVars(part = "yaft" /\ (sig_handler \/ wait))

\* If no signal falls into doAllLaters, every death is noticed: rocket keeps
\* the promise of ChildNotice that module Launcher builds upon.
QuietNoticesAll == part = "quiet rocket" => NoticesAll
=============================================================================
