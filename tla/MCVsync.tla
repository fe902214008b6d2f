------------------------------ MODULE MCVsync ------------------------------
(* Vsync for TLC, in two environments: in one the constants are as the     *)
(* configuration gives them, in the other the display works and vsync is   *)
(* prompt.                                                                 *)
EXTENDS Vsync

VARIABLE working   \* the second environment

Working == INSTANCE Vsync WITH DisplayMayFail <- FALSE, PromptVsync <- TRUE

MCInit == Init /\ working \in BOOLEAN

MCNext == UNCHANGED working /\ (IF working THEN Working!Next ELSE Next)

MCSpec == MCInit /\ [][MCNext]_<<vars, working>>
          /\ WF_vars(VsyncRun) /\ WF_vars(TimeOut)
          /\ WF_vars(GeneratorRun) /\ WF_vars(ClientRun)

\* A display that works, with vsync back at its wait in time, shows what it is
\* given: the pan loop, which does not unblank, never pans a blanked display,
\* and the buffer on the screen is not cleared under it.
ScreenIsLeftAlone == [][working => LeavesScreenAlone]_vars
=============================================================================
