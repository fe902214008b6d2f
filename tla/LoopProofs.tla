----------------------------- MODULE LoopProofs -----------------------------
(***************************************************************************)
(* Proofs about what the event loops call back into (MCLoop):              *)
(*                                                                         *)
(* SignalLoop, for any number of children and callbacks: wherever the      *)
(* handler strikes, the code implements the safety part of ChildNotice;    *)
(* and if it does not strike inside doAllLaters, no child that was reaped  *)
(* is forgotten.                                                           *)
(*                                                                         *)
(* Timers, for any number of timers and handles and any durations, whether *)
(* or not handles are overwritten: the callbacks that run inside           *)
(* checkTimers do not upset the queue it works on.                         *)
(*                                                                         *)
(* Pages: whatever taps, lifts and timers come between two passes of       *)
(* runApp, a page is built only from a widget that exists, and a dialog's  *)
(* buttons follow no finger that is gone.  The entries of the navigator    *)
(* and the pages of the tree go apart for as long as the rest of a pass    *)
(* lasts; the invariant lists the ways in which they may.                  *)
(***************************************************************************)
EXTENDS SignalLoop, Timers, Pages, SequenceTheorems, TLAPS

-----------------------------------------------------------------------------
(* SignalLoop.                                                             *)

\* The parts of SafeInv: the numbers, the other types, and the children.
CountsInv ==
  /\ laters \in 0..MaxLaters + 1
  /\ toCall \in 0..MaxLaters + 1
  /\ sigchld => laters <= MaxLaters

SetsOK ==
  /\ pc \in Points
  /\ moved \in BOOLEAN
  /\ stopped \subseteq Pids
  /\ mine \subseteq Pids
  /\ freed \in BOOLEAN
  /\ launching \in Pids \cup {NoPid}
  /\ owned \subseteq Pids
  /\ proc \in [Pids -> ProcStates]
  /\ sigchld \in BOOLEAN

ChildrenInv ==
  /\ pc \in Launching <=> launching # NoPid
  /\ launching \notin owned
  /\ \A q \in Pids :
       /\ proc[q] = "none" => q \notin owned /\ q # launching
       /\ proc[q] = "run"  => q \in owned \/ q = launching
       /\ q \in stopped \/ q \in mine => proc[q] = "reaped"

\* The parts make up the invariant.
LEMMA SafeInvParts == SafeInv <=> CountsInv /\ SetsOK /\ ChildrenInv
BY DEF SafeInv, TypeOK, CountsInv, SetsOK, ChildrenInv

-----------------------------------------------------------------------------
(* The invariant, wherever the handler strikes.                            *)

\* The vector doLaters stays in its bound: SIGCHLD is raised only while it
\* holds MaxLaters callbacks at most, and one delivery adds one.
LEMMA CountsStep ==
  ASSUME CountsInv, [Next]_vars
  PROVE  CountsInv'
<1>1. MaxLaters \in Nat
  BY SignalLoopAssumption DEF SignalLoopAssumption
<1>2. CASE UNCHANGED <<laters, sigchld>> /\ UNCHANGED toCall
  BY <1>2 DEF CountsInv
<1>3. CASE BeginLaters
  <2>1. toCall' = laters /\ UNCHANGED <<laters, sigchld>>
    BY <1>3 DEF BeginLaters, range
  <2>. QED  BY <2>1 DEF CountsInv
<1>4. CASE CallNext
  <2>1. toCall > 0 /\ toCall' = toCall - 1
    BY <1>4 DEF CallNext
  <2>2. UNCHANGED <<laters, sigchld>>
    BY <1>4 DEF CallNext
  <2>3. toCall' \in 0..MaxLaters + 1
    BY <1>1, <2>1 DEF CountsInv
  <2>. QED  BY <2>2, <2>3 DEF CountsInv
<1>5. CASE Clear
  <2>1. laters' = 0 /\ UNCHANGED toCall
    BY <1>5 DEF Clear
  <2>2. laters' \in 0..MaxLaters + 1 /\ laters' <= MaxLaters
    BY <1>1, <2>1
  <2>. QED  BY <2>1, <2>2 DEF CountsInv
<1>6. CASE Cleanup
  <2>1. sigchld /\ sigchld' = FALSE /\ UNCHANGED toCall
    BY <1>6 DEF Cleanup
  <2>2. laters' = laters + 1
    BY <1>6 DEF Cleanup, DoLater
  <2>3. laters <= MaxLaters /\ laters \in 0..MaxLaters + 1
    BY <2>1 DEF CountsInv
  <2>4. laters' \in 0..MaxLaters + 1
    BY <1>1, <2>2, <2>3
  <2>. QED  BY <2>1, <2>4 DEF CountsInv
<1>7. ASSUME NEW q \in Pids, Exit(q) \/ StopOrContinue(q)
      PROVE  CountsInv'
  BY <1>7 DEF Exit, StopOrContinue, CountsInv, laterVars
<1>8. ASSUME NEW q \in Pids, Scan(q) \/ Fork(q)
      PROVE  UNCHANGED <<laters, toCall, sigchld>>
  BY <1>8 DEF Scan, Fork, laterVars
<1>9. CASE \/ Wait \/ SwapTake \/ SwapTear \/ SwapReset \/ ScanDone
           \/ SetRunInfo \/ InputDone \/ UNCHANGED vars
  <2>1. UNCHANGED <<laters, toCall, sigchld>>
    BY <1>9
    DEF Wait, SwapTake, SwapTear, SwapReset, ScanDone, SetRunInfo, InputDone,
        vars, laterVars
  <2>. QED  BY <1>2, <2>1
<1>. QED
  BY <1>2, <1>3, <1>4, <1>5, <1>6, <1>7, <1>8, <1>9 DEF Next, Main

\* No step of the code loses a living child, and none puts one into the
\* vectors; updateStoppedApps does not run while an App is being launched.
LEMMA ChildrenStep ==
  ASSUME SetsOK, ChildrenInv, [Next]_vars
  PROVE  SetsOK' /\ ChildrenInv'
<1> USE SignalLoopAssumption DEF SignalLoopAssumption
<1>1. CASE \/ Wait \/ BeginLaters \/ CallNext \/ Clear \/ SwapTear
           \/ ScanDone \/ InputDone
  <2>1. /\ UNCHANGED <<stopped, mine, freed, launching, owned, proc, sigchld>>
        /\ moved' \in BOOLEAN
        /\ pc \notin Launching /\ pc' \notin Launching /\ pc' \in Points
    BY <1>1
    DEF Wait, BeginLaters, CallNext, Clear, SwapTear, ScanDone, InputDone,
        At, laterVars, childVars, Launching, Points, InLaters, SetsOK
  <2>. QED  BY <2>1 DEF SetsOK, ChildrenInv
<1>2. CASE SwapTake
  <2>1. /\ UNCHANGED <<moved, stopped, launching, owned, proc, sigchld>>
        /\ mine' = stopped /\ freed' = FALSE
        /\ pc \notin Launching /\ pc' \notin Launching /\ pc' \in Points
    BY <1>2 DEF SwapTake, At, laterVars, Launching, Points, InLaters
  <2>. QED  BY <2>1 DEF SetsOK, ChildrenInv
<1>3. CASE SwapReset
  <2>1. /\ UNCHANGED <<moved, mine, freed, launching, owned, proc, sigchld>>
        /\ stopped' = {}
        /\ pc \notin Launching /\ pc' \notin Launching /\ pc' \in Points
    BY <1>3 DEF SwapReset, laterVars, Launching, Points, InLaters
  <2>. QED  BY <2>1 DEF SetsOK, ChildrenInv
<1>4. ASSUME NEW q \in Pids, Scan(q)
      PROVE  SetsOK' /\ ChildrenInv'
  <2>1. /\ UNCHANGED <<pc, moved, stopped, freed, launching, proc, sigchld>>
        /\ q \in mine
        /\ mine' = mine \ {q} /\ owned' = owned \ {q}
    BY <1>4 DEF Scan, found, laterVars
  <2>2. proc[q] = "reaped"
    BY <2>1 DEF ChildrenInv
  <2>. QED  BY <2>1, <2>2 DEF SetsOK, ChildrenInv
<1>5. CASE SetRunInfo
  <2>1. /\ UNCHANGED <<moved, stopped, mine, freed, proc, sigchld>>
        /\ owned' = owned \cup {launching} /\ launching' = NoPid
        /\ pc \in Launching /\ pc' \notin Launching /\ pc' \in Points
    BY <1>5 DEF SetRunInfo, At, laterVars, Launching, Points, InLaters
  <2>2. launching \in Pids
    BY <2>1 DEF SetsOK, ChildrenInv
  <2>. QED  BY <2>1, <2>2 DEF SetsOK, ChildrenInv
<1>6. CASE Cleanup
  <2>1. /\ UNCHANGED <<mine, launching, owned>>
        /\ sigchld' = FALSE
        /\ proc' = [q \in Pids |-> IF q \in reported THEN "reaped"
                                                     ELSE proc[q]]
        /\ stopped' = stopped \cup reported
        /\ freed' \in BOOLEAN /\ moved' \in BOOLEAN
        /\ pc' \in Points
        /\ pc' \in Launching <=> pc \in Launching
    BY <1>6
    DEF Cleanup, PushStopped, DoLater, Points, Launching, SetsOK
  <2>. QED
    BY <2>1 DEF SetsOK, ChildrenInv, reported, ProcStates
<1>7. ASSUME NEW q \in Pids, Fork(q)
      PROVE  SetsOK' /\ ChildrenInv'
  <2>1. /\ UNCHANGED <<moved, stopped, mine, freed, owned, sigchld>>
        /\ proc[q] = "none"
        /\ proc' = [proc EXCEPT ![q] = "run"]
        /\ launching' = q
        /\ pc \notin Launching /\ pc' \in Launching /\ pc' \in Points
    BY <1>7 DEF Fork, At, laterVars, Launching, Points, InLaters
  <2>. QED  BY <2>1 DEF SetsOK, ChildrenInv, ProcStates
<1>8. ASSUME NEW q \in Pids, Exit(q) \/ StopOrContinue(q)
      PROVE  SetsOK' /\ ChildrenInv'
  <2>1. /\ UNCHANGED <<pc, moved, stopped, mine, freed, launching, owned>>
        /\ sigchld' = TRUE
        /\ proc[q] = "run"
        /\ proc' \in {proc, [proc EXCEPT ![q] = "zombie"]}
    BY <1>8 DEF Exit, StopOrContinue, laterVars, childVars
  <2>. QED  BY <2>1 DEF SetsOK, ChildrenInv, ProcStates
<1>9. CASE UNCHANGED vars
  BY <1>9 DEF SetsOK, ChildrenInv, vars, laterVars, childVars
<1>. QED
  BY <1>1, <1>2, <1>3, <1>4, <1>5, <1>6, <1>7, <1>8, <1>9 DEF Next, Main

\* SafeInv is inductive.
THEOREM SignalSafeInv == Spec => []SafeInv
<1>1. Init => SafeInv
  <2> SUFFICES ASSUME Init PROVE SafeInv
    OBVIOUS
  <2>1. CountsInv
    <3>1. laters = 0 /\ toCall = 0
      BY DEF Init
    <3>2. 0 \in 0..MaxLaters + 1 /\ 0 <= MaxLaters
      BY SignalLoopAssumption DEF SignalLoopAssumption
    <3>. QED  BY <3>1, <3>2 DEF CountsInv
  <2>2. SetsOK /\ ChildrenInv
    BY SignalLoopAssumption
    DEF Init, SetsOK, ChildrenInv, Points, Launching, ProcStates,
        SignalLoopAssumption
  <2>. QED  BY <2>1, <2>2, SafeInvParts
<1>2. SafeInv /\ [Next]_vars => SafeInv'
  <2> SUFFICES ASSUME SafeInv, [Next]_vars PROVE SafeInv'
    OBVIOUS
  <2>1. CountsInv /\ SetsOK /\ ChildrenInv
    BY SafeInvParts
  <2>2. CountsInv' /\ SetsOK' /\ ChildrenInv'
    BY <2>1, CountsStep, ChildrenStep
  <2>. QED
    BY <2>2 DEF SafeInv, TypeOK, CountsInv, SetsOK, ChildrenInv
<1>. QED  BY <1>1, <1>2, PTL DEF Spec

-----------------------------------------------------------------------------
(* The code implements the safety part of ChildNotice.                     *)

\* What a step of the code does to what the launcher knows of the children.
fates == [q \in Pids |-> fate(q)]

\* Fork is Launch, Exit is Die, Scan of an App's pid is Notice; no other step
\* changes the fate of a child.
LEMMA StepNotices ==
  ASSUME SetsOK, ChildrenInv, [Next]_vars
  PROVE  [Promise!Next]_fates
<1> USE SignalLoopAssumption DEF SignalLoopAssumption
<1> SUFFICES (\E q \in Pids :
                Promise!Launch(q) \/ Promise!Die(q) \/ Promise!Notice(q))
               \/ fates' = fates
  BY DEF Promise!Next
<1>1. ASSUME NEW q \in Pids, NEW from, NEW to,
             fate(q) = from, fate(q)' = to,
             \A r \in Pids \ {q} : fate(r)' = fate(r)
      PROVE  Promise!Move(q, from, to)
  <2>1. [r \in Pids |-> fate(r)]' = [[r \in Pids |-> fate(r)] EXCEPT ![q] = to]
    BY <1>1
  <2>. QED  BY <1>1, <2>1 DEF Promise!Move
<1>2. ASSUME NEW q \in Pids, Fork(q)
      PROVE  Promise!Launch(q)
  <2>1. fate(q) = "none" /\ fate(q)' = "alive"
    BY <1>2 DEF Fork, fate, SetsOK
  <2>2. \A r \in Pids \ {q} : fate(r)' = fate(r)
    <3>1. launching = NoPid
      BY <1>2 DEF Fork, At, ChildrenInv, Launching
    <3>. QED  BY <1>2, <3>1 DEF Fork, fate, SetsOK
  <2>. QED  BY <1>1, <2>1, <2>2 DEF Promise!Launch
<1>3. ASSUME NEW q \in Pids, Exit(q)
      PROVE  Promise!Die(q)
  <2>1. fate(q) = "alive" /\ fate(q)' = "dead"
    BY <1>3 DEF Exit, fate, SetsOK, ChildrenInv, childVars
  <2>2. \A r \in Pids \ {q} : fate(r)' = fate(r)
    BY <1>3 DEF Exit, fate, SetsOK, childVars
  <2>. QED  BY <1>1, <2>1, <2>2 DEF Promise!Die
<1>4. ASSUME NEW q \in Pids, Scan(q)
      PROVE  Promise!Notice(q) \/ fates' = fates
  <2>1. /\ UNCHANGED <<launching, proc>> /\ owned' = owned \ {q}
        /\ proc[q] = "reaped" /\ launching = NoPid
    BY <1>4 DEF Scan, found, ChildrenInv, Launching
  <2>2. \A r \in Pids \ {q} : fate(r)' = fate(r)
    BY <2>1 DEF fate
  <2>3. fate(q)' = "noticed"
    BY <2>1 DEF fate
  <2>4. CASE q \in owned
    <3>1. fate(q) = "dead"
      BY <2>1, <2>4 DEF fate
    <3>. QED  BY <1>1, <2>2, <2>3, <3>1 DEF Promise!Notice
  <2>5. CASE q \notin owned
    <3>1. fate(q) = "noticed"
      BY <2>1, <2>5 DEF fate
    <3>. QED  BY <2>2, <2>3, <3>1 DEF fates
  <2>. QED  BY <2>4, <2>5
<1>5. CASE SetRunInfo
  <2>1. \A r \in Pids : fate(r)' = fate(r)
    BY <1>5 DEF SetRunInfo, fate
  <2>. QED  BY <2>1 DEF fates
<1>6. CASE Cleanup
  <2>1. \A r \in Pids : fate(r)' = fate(r)
    BY <1>6 DEF Cleanup, reported, fate, SetsOK
  <2>. QED  BY <2>1 DEF fates
<1>7. CASE UNCHANGED <<launching, owned, proc>>
  BY <1>7 DEF fates, fate
<1>8. CASE \/ Wait \/ BeginLaters \/ CallNext \/ Clear \/ SwapTake \/ SwapTear
           \/ SwapReset \/ ScanDone \/ InputDone \/ UNCHANGED vars
           \/ \E q \in Pids : StopOrContinue(q)
  <2>1. UNCHANGED <<launching, owned, proc>>
    BY <1>8
    DEF Wait, BeginLaters, CallNext, Clear, SwapTake, SwapTear, SwapReset,
        ScanDone, InputDone, StopOrContinue, vars, childVars
  <2>. QED  BY <1>7, <2>1
<1>. QED
  BY <1>2, <1>3, <1>4, <1>5, <1>6, <1>8 DEF Next, Main

\* Wherever SIGCHLD strikes, no living child is taken for dead and none whose
\* death was noticed comes back.
THEOREM SignalNoticedAfterDeath == Spec => NoticedAfterDeath
<1>1. Init => Promise!Init
  BY SignalLoopAssumption
  DEF Init, Promise!Init, fate, SignalLoopAssumption
<1>2. SafeInv /\ [Next]_vars => [Promise!Next]_fates
  BY SafeInvParts, StepNotices
<1>3. [Promise!Next]_fates => [Promise!Next]_[q \in Pids |-> fate(q)]
  BY DEF fates
<1>. QED
  BY <1>1, <1>2, <1>3, SignalSafeInv, PTL
  DEF Spec, NoticedAfterDeath, Promise!Safe

-----------------------------------------------------------------------------
(* In a quiet environment no child that was reaped is forgotten.           *)

\* The parts of QuietInv: the vectors, and who is in them.
QuietVectors ==
  /\ freed = FALSE /\ moved = FALSE
  /\ pc \notin {"taken", "torn", "scan"} => mine = {}
  /\ pc \in {"taken", "torn"} => stopped \subseteq mine
  /\ stopped # {} => \/ pc \notin InLaters /\ laters > 0
                     \/ pc = "next" /\ toCall > 0
                     \/ pc \in {"swap", "taken", "torn"}

QuietChildren ==
  \A q \in Pids :
    /\ proc[q] = "reaped"
    /\ q \in owned \/ q = launching
    => q \in stopped \/ q \in mine

\* No callback is dropped and no pid overwritten by a step of the loop.
LEMMA QuietVectorsStep ==
  ASSUME QuietLaters, laters \in Nat, QuietVectors, [Next]_vars
  PROVE  QuietVectors'
<1>1. CASE Wait \/ InputDone
  BY <1>1 DEF Wait, InputDone, At, QuietVectors, InLaters, laterVars, childVars
<1>2. CASE BeginLaters
  BY <1>2 DEF BeginLaters, range, At, QuietVectors, InLaters, childVars
<1>3. CASE CallNext
  BY <1>3 DEF CallNext, QuietVectors, InLaters, childVars
<1>4. CASE Clear
  <2>1. stopped = {}
    BY <1>4 DEF Clear, At, QuietVectors, InLaters
  <2>. QED  BY <1>4, <2>1 DEF Clear, At, QuietVectors, InLaters, childVars
<1>5. CASE SwapTake \/ SwapTear
  BY <1>5
  DEF SwapTake, SwapTear, At, QuietVectors, InLaters, laterVars, childVars
<1>6. CASE SwapReset
  BY <1>6 DEF SwapReset, QuietVectors, InLaters, laterVars
<1>7. ASSUME NEW q \in Pids, Scan(q)
      PROVE  QuietVectors'
  BY <1>7 DEF Scan, QuietVectors, InLaters, laterVars
<1>8. CASE ScanDone
  BY <1>8 DEF ScanDone, At, QuietVectors, InLaters, laterVars, childVars
<1>9. CASE SetRunInfo
  BY <1>9 DEF SetRunInfo, At, QuietVectors, InLaters, laterVars
<1>10. CASE Cleanup
  <2>1. /\ pc \notin InLaters /\ pc' = pc
        /\ UNCHANGED <<toCall, mine>>
    BY <1>10 DEF Cleanup, InLaters
  <2>2. laters' = laters + 1
    BY <1>10 DEF Cleanup, DoLater
  <2>3. laters' > 0
    BY <2>2
  <2>4. UNCHANGED <<freed, moved>>
    BY <1>10, <2>1 DEF Cleanup, PushStopped, DoLater, InLaters
  <2>. QED  BY <2>1, <2>3, <2>4 DEF QuietVectors, InLaters
<1>11. ASSUME NEW q \in Pids, Fork(q)
       PROVE  QuietVectors'
  BY <1>11 DEF Fork, At, QuietVectors, InLaters, laterVars
<1>12. ASSUME NEW q \in Pids, Exit(q) \/ StopOrContinue(q)
       PROVE  QuietVectors'
  BY <1>12
  DEF Exit, StopOrContinue, QuietVectors, InLaters, laterVars, childVars
<1>13. CASE UNCHANGED vars
  BY <1>13 DEF QuietVectors, InLaters, vars, laterVars, childVars
<1>. QED
  BY <1>1, <1>2, <1>3, <1>4, <1>5, <1>6, <1>7, <1>8, <1>9, <1>10, <1>11,
     <1>12, <1>13
  DEF Next, Main

\* A pid stays in the vectors until its App has been looked for.
LEMMA QuietChildrenStep ==
  ASSUME SetsOK, ChildrenInv, QuietVectors, QuietChildren, [Next]_vars
  PROVE  QuietChildren'
<1> USE SignalLoopAssumption DEF SignalLoopAssumption
<1>1. CASE \/ Wait \/ BeginLaters \/ CallNext \/ Clear \/ SwapTear
           \/ ScanDone \/ InputDone \/ UNCHANGED vars
  <2>1. UNCHANGED <<stopped, mine, launching, owned, proc>>
    BY <1>1
    DEF Wait, BeginLaters, CallNext, Clear, SwapTear, ScanDone, InputDone,
        vars, childVars
  <2>. QED  BY <2>1 DEF QuietChildren
<1>2. CASE SwapTake
  <2>1. mine = {}
    BY <1>2 DEF SwapTake, At, QuietVectors
  <2>. QED  BY <1>2, <2>1 DEF SwapTake, QuietChildren
<1>3. CASE SwapReset
  <2>1. stopped \subseteq mine
    BY <1>3 DEF SwapReset, QuietVectors
  <2>. QED  BY <1>3, <2>1 DEF SwapReset, QuietChildren
<1>4. ASSUME NEW q \in Pids, Scan(q)
      PROVE  QuietChildren'
  <2>1. launching = NoPid
    BY <1>4 DEF Scan, ChildrenInv, Launching
  <2>. QED  BY <1>4, <2>1 DEF Scan, found, QuietChildren
<1>5. CASE SetRunInfo
  BY <1>5 DEF SetRunInfo, QuietChildren
<1>6. CASE Cleanup
  BY <1>6 DEF Cleanup, PushStopped, reported, QuietChildren
<1>7. ASSUME NEW q \in Pids, Fork(q)
      PROVE  QuietChildren'
  BY <1>7 DEF Fork, QuietChildren, SetsOK
<1>8. ASSUME NEW q \in Pids, Exit(q) \/ StopOrContinue(q)
      PROVE  QuietChildren'
  BY <1>8 DEF Exit, StopOrContinue, QuietChildren, SetsOK, childVars
<1>. QED
  BY <1>1, <1>2, <1>3, <1>4, <1>5, <1>6, <1>7, <1>8 DEF Next, Main

\* If SIGCHLD does not strike inside doAllLaters, each child that was reaped
\* and has an App is in a vector that a callback queued or running will read.
THEOREM SignalNoneForgotten ==
  ASSUME QuietLaters
  PROVE  Spec => []NoneForgotten
<1>1. Init => QuietVectors /\ QuietChildren
  BY DEF Init, QuietVectors, QuietChildren, InLaters
<1>2. SafeInv /\ QuietVectors /\ QuietChildren /\ [Next]_vars
        => QuietVectors' /\ QuietChildren'
  <2> SUFFICES ASSUME SafeInv, QuietVectors, QuietChildren, [Next]_vars
               PROVE  QuietVectors' /\ QuietChildren'
    OBVIOUS
  <2>1. CountsInv /\ SetsOK /\ ChildrenInv
    BY SafeInvParts
  <2>2. laters \in Nat
    BY <2>1, SignalLoopAssumption DEF CountsInv, SignalLoopAssumption
  <2>3. QuietLaters
    OBVIOUS
  <2>. QED  BY <2>1, <2>2, <2>3, QuietVectorsStep, QuietChildrenStep
<1>3. QuietVectors /\ QuietChildren => NoneForgotten
  <2> SUFFICES ASSUME QuietVectors, QuietChildren,
                      NEW q \in Pids, proc[q] = "reaped",
                      q \in owned \/ q = launching, q \notin mine
               PROVE  /\ q \in stopped
                      /\ \/ pc \notin InLaters /\ laters > 0
                         \/ pc = "next" /\ toCall > 0
                         \/ pc = "swap"
    BY DEF NoneForgotten
  <2>1. q \in stopped
    BY DEF QuietChildren
  <2>. QED  BY <2>1 DEF QuietVectors
<1>. QED  BY <1>1, <1>2, <1>3, SignalSafeInv, PTL DEF Spec

-----------------------------------------------------------------------------
(* Timers.                                                                 *)

\* Times are numbers.
LEMMA Times ==
  ASSUME TimersTypeOK
  PROVE  /\ now \in Nat /\ Period \in Nat /\ Period > 0
         /\ \A t \in Timers : trigger[t] \in Nat /\ lastFired[t] \in Int
         /\ \A t \in Timers : lastFired[t] <= Horizon /\ lastFired[t] >= -1
BY TimersAssumption DEF TimersTypeOK, TimersAssumption

\* Adding a Timer that triggers at time keeps the front in its place, unless
\* the new Timer is earlier.
LEMMA PushFront ==
  ASSUME TimersTypeOK, FrontIsEarliest,
         NEW t \in Timers, t \notin queue, NEW time \in Nat, Push(t, time),
         trigger' = [trigger EXCEPT ![t] = time]
  PROVE  /\ FrontIsEarliest'
         /\ queue' = queue \cup {t}
         /\ front' \in queue'
         /\ queue # {} /\ trigger[front] <= time => front' = front
<1>1. /\ queue' = queue \cup {t}
      /\ front' = IF ahead(t, time) THEN t ELSE front
      /\ queue \subseteq Timers
  BY DEF Push, TimersTypeOK
<1>2. /\ trigger \in [Timers -> Nat] /\ trigger' \in [Timers -> Nat]
      /\ trigger'[t] = time
      /\ \A u \in queue : trigger'[u] = trigger[u] /\ trigger[u] \in Nat
  BY <1>1 DEF TimersTypeOK
<1>3. CASE queue = {}
  BY <1>1, <1>2, <1>3 DEF ahead, FrontIsEarliest
<1>4. CASE queue # {}
  <2>1. front \in queue /\ \A u \in queue : trigger[front] <= trigger[u]
    BY <1>4 DEF FrontIsEarliest
  <2>2. CASE time < trigger[front]
    <3>1. front' = t
      BY <1>1, <2>2 DEF ahead
    <3>2. \A u \in queue' : trigger'[t] <= trigger'[u]
      BY <1>1, <1>2, <2>1, <2>2
    <3>3. ~(trigger[front] <= time)
      BY <1>2, <2>1, <2>2
    <3>. QED  BY <1>1, <3>1, <3>2, <3>3 DEF FrontIsEarliest
  <2>3. CASE ~(time < trigger[front])
    <3>1. front' = front
      BY <1>1, <1>4, <2>3 DEF ahead
    <3>2. \A u \in queue' : trigger'[front] <= trigger'[u]
      BY <1>1, <1>2, <2>1, <2>3
    <3>. QED  BY <1>1, <2>1, <3>1, <3>2 DEF FrontIsEarliest
  <2>. QED  BY <2>2, <2>3
<1>. QED  BY <1>3, <1>4

\* addTimer.
LEMMA AddTimerInv ==
  ASSUME TInv, NEW h \in Handles, NEW t \in Timers, NEW d \in Durations,
         NEW repeat \in BOOLEAN, AddTimer(h, t, d, repeat)
  PROVE  TInv'
<1>1. /\ InApp /\ t \notin made
      /\ made' = made \cup {t}
      /\ trigger' = [trigger EXCEPT ![t] = now + d]
      /\ enabled' = enabled \cup {t}
      /\ repeats' = repeats \/ repeats' = repeats \cup {t}
      /\ held' = [held EXCEPT ![h] = t]
      /\ Push(t, now + d)
      /\ UNCHANGED <<now, stage, checked, lastFired>>
  BY DEF AddTimer
<1>2. TimersTypeOK /\ FrontIsEarliest /\ NoTimerLost /\ HandlingInv /\ PeriodInv
  BY DEF TInv
<1>3. now + d \in Nat /\ t \notin queue
  BY <1>1, <1>2, TimersAssumption DEF TimersTypeOK, TimersAssumption
<1>4. /\ FrontIsEarliest' /\ queue' = queue \cup {t} /\ front' \in queue'
      /\ queue # {} /\ trigger[front] <= now + d => front' = front
  BY <1>1, <1>2, <1>3, PushFront
<1>5. TimersTypeOK'
  BY <1>1, <1>2, <1>3, <1>4 DEF TimersTypeOK
<1>6. NoTimerLost'
  BY <1>1, <1>2, <1>4 DEF NoTimerLost
<1>7. HandlingInv'
  <2>1. CASE stage = "callback"
    <3>1. checked \in queue /\ front = checked /\ trigger[checked] <= now
      BY <1>2, <2>1 DEF HandlingInv
    <3>2. trigger[checked] \in Nat /\ checked # t
      BY <1>2, <1>3, <3>1 DEF TimersTypeOK
    <3>3. trigger[front] <= now + d
      BY <1>2, <3>1, <3>2, TimersAssumption DEF TimersTypeOK, TimersAssumption
    <3>4. front' = front
      BY <1>4, <3>1, <3>3
    <3>5. trigger'[checked] = trigger[checked]
      BY <1>1, <1>2, <3>1, <3>2 DEF TimersTypeOK
    <3>. QED
      BY <1>1, <1>2, <1>4, <2>1, <3>1, <3>2, <3>4, <3>5 DEF HandlingInv
  <2>2. CASE stage = "app"
    BY <1>1, <2>2 DEF HandlingInv
  <2>. QED  BY <1>1, <2>1, <2>2 DEF InApp
<1>8. PeriodInv'
  <2>1. lastFired[t] = -1
    BY <1>1, <1>2 DEF PeriodInv
  <2>2. \A u \in queue : trigger'[u] = trigger[u]
    BY <1>1, <1>2, <1>3 DEF TimersTypeOK
  <2>. QED
    BY <1>1, <1>2, <1>4, <2>1, <2>2 DEF PeriodInv, Handling
<1>. QED  BY <1>4, <1>5, <1>6, <1>7, <1>8 DEF TInv

\* A Timer of the queue fires.
LEMMA FireInv ==
  ASSUME TInv, Fire
  PROVE  TInv'
<1>1. /\ stage = "check" /\ stage' = "callback"
      /\ queue # {} /\ front \in enabled /\ now >= trigger[front]
      /\ checked' = front
      /\ lastFired' = [lastFired EXCEPT ![front] = now]
      /\ UNCHANGED <<now, queue, front, made, trigger, enabled, repeats, held>>
  BY DEF Fire, queueVars, timerVars
<1>2. TimersTypeOK /\ FrontIsEarliest /\ NoTimerLost /\ PeriodInv
  BY DEF TInv
<1>3. /\ front \in queue /\ front \in made /\ front \in Timers
      /\ now \in 0..Horizon /\ now # -1
      /\ trigger[front] \in Nat
  BY <1>1, <1>2, TimersAssumption
  DEF TimersTypeOK, FrontIsEarliest, TimersAssumption
<1>4. TimersTypeOK'
  <2>1. now \in -1..Horizon
    BY <1>3, TimersAssumption DEF TimersAssumption
  <2>. QED  BY <1>1, <1>2, <1>3, <2>1 DEF TimersTypeOK
<1>5. FrontIsEarliest' /\ NoTimerLost'
  BY <1>1, <1>2, <1>3 DEF FrontIsEarliest, NoTimerLost, TimersTypeOK
<1>6. HandlingInv'
  <2>1. lastFired'[front] # -1
    BY <1>1, <1>2, <1>3 DEF TimersTypeOK
  <2>2. trigger[front] <= now
    BY <1>1, <1>3
  <2>. QED  BY <1>1, <1>3, <2>1, <2>2 DEF HandlingInv
<1>7. PeriodInv'
  BY <1>1, <1>2, <1>3 DEF PeriodInv, Handling, TimersTypeOK
<1>. QED  BY <1>4, <1>5, <1>6, <1>7 DEF TInv

\* The Timer that was checked leaves the queue, and comes back if it repeats.
LEMMA PopInv ==
  ASSUME TInv, Pop
  PROVE  TInv'
<1>1. /\ stage = "pop" /\ stage' = "check"
      /\ trigger' = IF checked \in repeats
                      THEN [trigger EXCEPT ![checked] = now + Period]
                      ELSE trigger
      /\ queue' = (queue \ {front}) \cup ({checked} \cap repeats)
      /\ front' \in IF queue' = {} THEN {NoTimer} ELSE earliest(queue', trigger')
      /\ UNCHANGED <<now, made, enabled, repeats, held, checked, lastFired>>
  BY DEF Pop, reset
<1>2. TimersTypeOK /\ FrontIsEarliest /\ NoTimerLost /\ HandlingInv /\ PeriodInv
  BY DEF TInv
<1>3. /\ checked \in queue /\ front = checked /\ checked \in Timers
      /\ checked \in enabled => lastFired[checked] # -1
  BY <1>1, <1>2 DEF HandlingInv, TimersTypeOK
<1>4. trigger' \in [Timers -> Nat]
  BY <1>1, <1>2, <1>3, Times DEF TimersTypeOK
<1>5. queue' \subseteq queue
  BY <1>1, <1>3
<1>6. FrontIsEarliest' /\ front' \in queue' \cup {NoTimer}
  BY <1>1 DEF FrontIsEarliest, earliest
<1>7. TimersTypeOK'
  BY <1>1, <1>2, <1>4, <1>5, <1>6 DEF TimersTypeOK
<1>8. NoTimerLost'
  BY <1>1, <1>2, <1>3 DEF NoTimerLost, TimersTypeOK
<1>9. HandlingInv'
  BY <1>1 DEF HandlingInv
<1>10. PeriodInv'
  <2>1. /\ \A t \in Timers \ made' : lastFired'[t] = -1
        /\ \A t \in Timers : lastFired'[t] <= now'
    BY <1>1, <1>2 DEF PeriodInv
  <2>2. ASSUME NEW t \in queue', lastFired[t] # -1
        PROVE  trigger'[t] >= lastFired[t] + Period
    <3>1. CASE t = checked
      <4>1. t \in repeats
        BY <1>1, <1>3, <3>1
      <4>2. trigger'[t] = now + Period
        BY <1>1, <1>2, <1>3, <3>1, <4>1 DEF TimersTypeOK
      <4>3. lastFired[t] <= now
        BY <1>2, <1>3, <3>1 DEF PeriodInv
      <4>. QED  BY <1>2, <4>2, <4>3, Times, <1>3, <3>1
    <3>2. CASE t # checked
      <4>1. t \in queue /\ trigger'[t] = trigger[t]
        BY <1>1, <1>2, <1>3, <1>5, <3>2 DEF TimersTypeOK
      <4>. QED  BY <1>2, <2>2, <3>2, <4>1 DEF PeriodInv, Handling
    <3>. QED  BY <3>1, <3>2
  <2>. QED  BY <1>1, <2>1, <2>2 DEF PeriodInv
<1>. QED  BY <1>6, <1>7, <1>8, <1>9, <1>10 DEF TInv

\* The other steps leave the queue as it is.
LEMMA OtherStepInv ==
  ASSUME TInv, UNCHANGED <<queue, front, made, trigger, lastFired>>,
         \/ Begin \/ CheckDisabled \/ End \/ Return \/ Tick
         \/ UNCHANGED timersState
         \/ \E h \in Handles : Disable(h)
  PROVE  TInv'
<1>1. TimersTypeOK /\ FrontIsEarliest /\ NoTimerLost /\ HandlingInv /\ PeriodInv
  BY DEF TInv
<1>2. FrontIsEarliest'
  BY <1>1 DEF FrontIsEarliest
<1>3. CASE Begin \/ End \/ Return
  <2>1. /\ UNCHANGED <<now, enabled, repeats, held, checked>>
        /\ <<stage, stage'>> \in {<<"app", "check">>, <<"check", "app">>,
                           <<"callback", "pop">>}
    BY <1>3 DEF Begin, End, Return, timerVars
  <2>2. \A t \in queue : Handling(t)' <=> Handling(t)
    BY <2>1 DEF Handling
  <2>. QED
    BY <1>1, <1>2, <2>1, <2>2
    DEF TInv, TimersTypeOK, NoTimerLost, HandlingInv, PeriodInv
<1>4. CASE CheckDisabled
  <2>1. /\ UNCHANGED <<now, enabled, repeats, held>>
        /\ stage = "check" /\ stage' = "pop" /\ queue # {} /\ front \notin enabled
        /\ checked' = front
    BY <1>4 DEF CheckDisabled, timerVars
  <2>2. front \in queue
    BY <1>1, <2>1 DEF FrontIsEarliest
  <2>. QED
    BY <1>1, <1>2, <2>1, <2>2
    DEF TInv, TimersTypeOK, NoTimerLost, HandlingInv, PeriodInv, Handling
<1>5. CASE Tick
  <2>1. /\ UNCHANGED <<stage, enabled, repeats, held, checked>>
        /\ now < Horizon /\ now' = now + 1
    BY <1>5 DEF Tick, timerVars
  <2>2. now' \in 0..Horizon /\ now <= now'
    BY <1>1, <2>1, TimersAssumption DEF TimersTypeOK, TimersAssumption
  <2>3. TimersTypeOK' /\ NoTimerLost'
    BY <1>1, <2>1, <2>2 DEF TimersTypeOK, NoTimerLost
  <2>4. HandlingInv'
    <3>1. stage = "callback" => trigger[checked] \in Nat
      BY <1>1 DEF HandlingInv, TimersTypeOK
    <3>2. now \in Int /\ now' \in Int
      BY <1>1, <2>2 DEF TimersTypeOK
    <3>. QED  BY <1>1, <2>1, <2>2, <3>1, <3>2 DEF HandlingInv
  <2>5. PeriodInv'
    <3>1. \A t \in Timers : lastFired[t] <= now'
      BY <1>1, <2>1, Times DEF PeriodInv
    <3>. QED  BY <1>1, <2>1, <3>1 DEF PeriodInv, Handling
  <2>. QED  BY <1>2, <2>3, <2>4, <2>5 DEF TInv
<1>6. ASSUME NEW h \in Handles, Disable(h)
      PROVE  TInv'
  <2>1. /\ held[h] \in made
        /\ enabled' = enabled \ {held[h]} /\ repeats' = repeats \ {held[h]}
        /\ held' = [held EXCEPT ![h] = NoTimer]
        /\ UNCHANGED <<now, stage, checked>>
    BY <1>1, <1>6 DEF Disable, withoutTimer, TimersTypeOK
  <2>. QED
    BY <1>1, <1>2, <2>1
    DEF TInv, TimersTypeOK, NoTimerLost, HandlingInv, PeriodInv, Handling
<1>7. CASE UNCHANGED timersState
  BY <1>1, <1>2, <1>7
  DEF TInv, TimersTypeOK, NoTimerLost, HandlingInv, PeriodInv, Handling, timersState,
      timerVars
<1>. QED  BY <1>3, <1>4, <1>5, <1>6, <1>7

\* TInv is inductive.
LEMMA NextTInv == TInv /\ [TimersNext]_timersState => TInv'
<1> SUFFICES ASSUME TInv, [TimersNext]_timersState PROVE TInv'
  OBVIOUS
<1>1. CASE \/ Begin \/ CheckDisabled \/ End \/ Return \/ Tick
           \/ UNCHANGED timersState
           \/ \E h \in Handles : Disable(h)
  <2>1. UNCHANGED <<queue, front, made, trigger, lastFired>>
    BY <1>1
    DEF Begin, CheckDisabled, End, Return, Tick, Disable, timersState, timerVars,
        queueVars
  <2>. QED  BY <1>1, <2>1, OtherStepInv
<1>. QED  BY <1>1, AddTimerInv, FireInv, PopInv DEF TimersNext, CheckTimers

\* The invariant holds throughout.
THEOREM TimersInvariant == TimersSpec => []TInv
<1>1. TimersInit => TInv
  <2> SUFFICES ASSUME TimersInit PROVE TInv
    OBVIOUS
  <2>1. TimersTypeOK
    BY TimersAssumption DEF TimersInit, TimersTypeOK, TimersAssumption
  <2>2. FrontIsEarliest /\ NoTimerLost /\ HandlingInv
    BY DEF TimersInit, FrontIsEarliest, NoTimerLost, HandlingInv
  <2>3. PeriodInv
    BY DEF TimersInit, PeriodInv
  <2>. QED  BY <2>1, <2>2, <2>3 DEF TInv
<1>. QED  BY <1>1, NextTInv, PTL DEF TimersSpec

-----------------------------------------------------------------------------
\* checkTimers pops the Timer it has checked, whatever its callback did.
THEOREM TimersPopsWhatWasChecked == TimersSpec => []PopsWhatWasChecked
<1>1. TInv => PopsWhatWasChecked
  BY DEF TInv, HandlingInv, PopsWhatWasChecked
<1>. QED  BY <1>1, TimersInvariant, PTL

\* The front of the queue is the earliest Timer in it.
THEOREM TimersFrontIsEarliest == TimersSpec => []FrontIsEarliest
<1>1. TInv => FrontIsEarliest
  BY DEF TInv
<1>. QED  BY <1>1, TimersInvariant, PTL

\* No enabled Timer that is still to run is missing from the queue.
THEOREM TimersNoTimerLost == TimersSpec => []NoTimerLost
<1>1. TInv => NoTimerLost
  BY DEF TInv
<1>. QED  BY <1>1, TimersInvariant, PTL

\* A repeating Timer runs once in a period at most, however late it runs.
THEOREM TimersNoBurst == TimersSpec => NoBurst
<1>1. ASSUME TInv, [TimersNext]_timersState
      PROVE  \A t \in Timers :
               stage # "callback" /\ stage' = "callback" /\ checked' = t /\ lastFired[t] # -1
                 => now >= lastFired[t] + Period
  <2> SUFFICES ASSUME NEW t \in Timers,
                      stage # "callback", stage' = "callback", checked' = t,
                      lastFired[t] # -1
               PROVE  now >= lastFired[t] + Period
    OBVIOUS
  <2>1. Fire
    BY <1>1
    DEF TimersNext, CheckTimers, Begin, CheckDisabled, End, Return, Pop, Tick,
        Disable, AddTimer, timersState
  <2>2. TimersTypeOK /\ FrontIsEarliest /\ PeriodInv
    BY <1>1 DEF TInv
  <2>3. t = front /\ front \in queue /\ stage = "check" /\ now >= trigger[front]
    BY <2>1, <2>2 DEF Fire, FrontIsEarliest, TimersTypeOK
  <2>4. trigger[t] >= lastFired[t] + Period
    BY <2>2, <2>3 DEF PeriodInv, Handling
  <2>. QED  BY <2>2, <2>3, <2>4, Times
<1>2. TInv /\ [TimersNext]_timersState
        => [\A t \in Timers :
              stage # "callback" /\ stage' = "callback" /\ checked' = t /\ lastFired[t] # -1
                => now >= lastFired[t] + Period]_timersState
  BY <1>1
<1>. QED  BY <1>2, TimersInvariant, PTL DEF TimersSpec, NoBurst

-----------------------------------------------------------------------------
(* Pages.                                                                  *)

\* The three kinds of entries, by their age.
Calculator == [page |-> "calculator", then |-> "none", age |-> 0]
Error(age) == [page |-> "error", then |-> "push", age |-> age]
Downloads(age) == [page |-> "download", then |-> "init", age |-> age]

-----------------------------------------------------------------------------
(* The sequences that occur.                                               *)

\* Pushing to a single entry, and popping the second one.
LEMMA PushPop ==
  ASSUME NEW a, NEW b
  PROVE  /\ Append(<<a>>, b) = <<a, b>> /\ Front(<<a, b>>) = <<a>>
         /\ Last(<<a, b>>) = b /\ Last(<<a>>) = a
         /\ Len(<<a, b>>) = 2 /\ Len(<<a>>) = 1
         /\ <<a>> # << >> /\ <<a, b>> # << >>
         /\ DOMAIN <<a>> = {1} /\ DOMAIN <<a, b>> = {1, 2}
<1>. DEFINE S == {a, b}
<1>0. <<a>> \in Seq(S) /\ <<a, b>> \in Seq(S) /\ a \in S /\ b \in S
  OBVIOUS
<1>1. Append(<<a>>, b) = <<a, b>>
  <2>1. /\ Append(<<a>>, b) \in Seq(S) /\ Len(Append(<<a>>, b)) = 2
        /\ \A i \in 1..1 : Append(<<a>>, b)[i] = <<a>>[i]
        /\ Append(<<a>>, b)[2] = b
    BY <1>0, AppendProperties
  <2>. DEFINE s == Append(<<a>>, b)
  <2>2. s \in Seq(S) /\ Len(s) = 2 /\ s[1] = a /\ s[2] = b
    BY <2>1
  <2>. HIDE DEF s
  <2>3. Len(s) = Len(<<a, b>>) /\ \A i \in 1..Len(s) : s[i] = <<a, b>>[i]
    BY <2>2
  <2>. HIDE DEF S
  <2>4. s = <<a, b>>
    BY <1>0, <2>2, <2>3, SeqEqual
  <2>. QED  BY <2>4 DEF s
<1>2. Front(<<a, b>>) = <<a>>
  <2>1. Len(<<a, b>>) - 1 = 1
    OBVIOUS
  <2>2. SubSeq(<<a, b>>, 1, 1) = <<a>>
    <3>. DEFINE s == SubSeq(<<a, b>>, 1, 1)
    <3>1. \A i \in 1..1 : <<a, b>>[i] \in S
      OBVIOUS
    <3>2. /\ s \in Seq(S) /\ Len(s) = (IF 1 <= 1 THEN 1 - 1 + 1 ELSE 0)
          /\ \A i \in 1..1 - 1 + 1 : s[i] = <<a, b>>[1 + i - 1]
      BY <3>1, SubSeqProperties
    <3>. HIDE DEF s
    <3>3. Len(s) = Len(<<a>>) /\ \A i \in 1..Len(s) : s[i] = <<a>>[i]
      BY <3>2
    <3>. HIDE DEF S
    <3>4. s = <<a>>
      BY <1>0, <3>2, <3>3, SeqEqual
    <3>. QED  BY <3>4 DEF s
  <2>. QED  BY <2>1, <2>2 DEF Front
<1>3. Last(<<a, b>>) = b /\ Last(<<a>>) = a
  BY DEF Last
<1>. QED  BY <1>1, <1>2, <1>3

\* A function over the places of a short sequence is a sequence again.
LEMMA Mapped ==
  ASSUME NEW F(_)
  PROVE  /\ [i \in {1} |-> F(i)] = <<F(1)>>
         /\ [i \in {1, 2} |-> F(i)] = <<F(1), F(2)>>
OBVIOUS

\* Popping the only entry leaves none, of which nothing is built.
LEMMA PopLast ==
  ASSUME NEW a, NEW F(_)
  PROVE  /\ Front(<<a>>) = <<>> /\ DOMAIN <<>> = {} /\ Len(<<>>) = 0
         /\ [i \in {} |-> F(i)] = <<>>
<1>. DEFINE S == {a}
<1>1. Front(<<a>>) = <<>>
  <2>. DEFINE s == SubSeq(<<a>>, 1, 0)
  <2>1. <<a>> \in Seq(S) /\ Len(<<a>>) - 1 = 0
    OBVIOUS
  <2>2. s \in Seq(S) /\ Len(s) = 0
    BY <2>1, SubSeqProperties
  <2>. HIDE DEF s, S
  <2>3. s = <<>>
    BY <2>2, EmptySeq
  <2>. QED  BY <2>1, <2>3 DEF Front, s
<1>. QED  BY <1>1

-----------------------------------------------------------------------------
(* The ways in which entries and tree go apart.                            *)

\* Before the first pass nothing is shown.
NothingShown ==
  /\ shown = <<>> /\ entries = <<Calculator>> /\ marked
  /\ ~popupTimer /\ ~startTimer /\ place \in {"rebuild", "ended"}

\* The calculator is shown: nothing has changed, or the dialog was pushed.
CalculatorShown ==
  /\ shown = <<"calculator">> /\ ~startTimer
  /\ \/ entries = <<Calculator>> /\ ~marked /\ (popupTimer => place = "timers")
     \/ entries = <<Calculator, Error(0)>> /\ marked /\ ~popupTimer

\* The dialog is shown: nothing has changed, or it was tapped once, twice, or
\* three times.
ErrorShown ==
  /\ shown = <<"calculator", "error">> /\ ~startTimer
  /\ \/ entries = <<Calculator, Error(1)>> /\ ~marked /\ ~popupTimer
     \/ entries = <<Calculator, Downloads(1)>> /\ marked /\ ~popupTimer /\ place # "timers"
     \/ entries = <<Calculator>> /\ marked /\ place # "timers"
     \/ entries = <<>> /\ marked /\ place # "timers"

\* The download is shown: it is about to begin, or it is over, and the dialog
\* may be back.
DownloadShown ==
  /\ shown = <<"calculator", "download">>
  /\ \/ /\ entries = <<Calculator, Downloads(2)>> /\ ~marked
        /\ ~popupTimer /\ startTimer /\ place = "timers"
     \/ entries = <<Calculator>> /\ marked /\ ~startTimer /\ (popupTimer => place = "timers")
     \/ entries = <<Calculator, Error(0)>> /\ marked /\ ~popupTimer /\ ~startTimer

\* The calculator was popped, and nothing is shown any more.
NothingLeft ==
  shown = <<>> /\ entries = <<>> /\ ~marked /\ ~popupTimer /\ ~startTimer

Situations ==
  NothingShown \/ CalculatorShown \/ ErrorShown \/ DownloadShown \/ NothingLeft

\* A detector of the dialog follows a pointer only while the dialog is shown.
DetectorsFollow ==
  \A b \in {"Download", "Exit"} :
    currentId[b] # NoPointer => OnTop("error") /\ currentId[b] \in down

\* The variables that are no sequences have their types.
PagesTypes ==
  /\ place \in {"rebuild", "timers", "input", "ended", "undefined"}
  /\ stopping \in BOOLEAN /\ marked \in BOOLEAN
  /\ currentId \in [Buttons -> Pointers \cup {NoPointer}]
  /\ popupTimer \in BOOLEAN /\ startTimer \in BOOLEAN
  /\ mCalc \in BOOLEAN /\ rom \in BOOLEAN
  /\ down \subseteq Pointers /\ used \subseteq Fingers
  /\ handled \in 0..MaxEvents

PagesInv == PagesTypes /\ Situations /\ DetectorsFollow

-----------------------------------------------------------------------------
(* The steps.                                                              *)

\* The three kinds of entries are entries, and are told apart.
LEMMA Kinds ==
  /\ Calculator.page = "calculator" /\ Calculator.age = 0 /\ Calculator.then = "none"
  /\ Calculator \in Entry
  /\ \A age \in 0..2 :
       /\ Error(age).page = "error" /\ Error(age).age = age /\ Error(age).then = "push"
       /\ Downloads(age).page = "download" /\ Downloads(age).age = age
       /\ Downloads(age).then = "init"
       /\ Error(age) \in Entry /\ Downloads(age) \in Entry
BY DEF Calculator, Error, Downloads, Entry, PageNames, Continuations

\* Popping the dialog pushes the download; popping that loads the calculator;
\* popping the calculator leaves nothing.
LEMMA Popped ==
  ASSUME NEW loads, pop(loads), NEW age \in 0..2
  PROVE  /\ entries = <<Calculator, Error(age)>> =>
              /\ entries' = <<Calculator, Downloads(age)>>
              /\ marked' = TRUE /\ UNCHANGED calcVars
         /\ entries = <<Calculator, Downloads(age)>> =>
              entries' = <<Calculator>> /\ marked' = TRUE /\ popupTimer' = ~loads /\ mCalc' = loads
         /\ entries = <<Calculator>> =>
              entries' = <<>> /\ marked' = TRUE /\ UNCHANGED calcVars
         /\ entries # <<>>
<1>1. CASE entries = <<Calculator, Error(age)>>
  <2>1. Last(entries) = Error(age) /\ Front(entries) = <<Calculator>>
    BY <1>1, PushPop
  <2>2. entries' = Append(<<Calculator>>, Downloads(age)) /\ marked' = TRUE /\ UNCHANGED calcVars
    BY <2>1 DEF pop, push, withoutTop, Error, Downloads
  <2>3. Append(<<Calculator>>, Downloads(age)) = <<Calculator, Downloads(age)>>
    BY PushPop
  <2>4. <<Calculator, Error(age)>> # <<Calculator, Downloads(age)>>
    <3>1. Last(<<Calculator, Downloads(age)>>) = Downloads(age)
      BY PushPop
    <3>. QED  BY <1>1, <2>1, <3>1, Kinds
  <2>. QED  BY <1>1, <2>2, <2>3, <2>4, PushPop DEF pop
<1>2. CASE entries = <<Calculator, Downloads(age)>>
  <2>1. Last(entries) = Downloads(age) /\ Front(entries) = <<Calculator>>
    BY <1>2, PushPop
  <2>2. entries' = <<Calculator>> /\ marked' = TRUE /\ popupTimer' = ~loads /\ mCalc' = loads
    BY <2>1 DEF pop, init, withoutTop, Downloads
  <2>3. <<Calculator, Error(age)>> # <<Calculator, Downloads(age)>>
    <3>1. Last(<<Calculator, Error(age)>>) = Error(age)
      BY PushPop
    <3>. QED  BY <1>2, <2>1, <3>1, Kinds
  <2>. QED  BY <1>2, <2>2, <2>3, PushPop DEF pop
<1>3. CASE entries = <<Calculator>>
  <2>1. Last(entries) = Calculator /\ Front(entries) = <<>>
    BY <1>3, PushPop, PopLast
  <2>2. entries' = <<>> /\ marked' = TRUE /\ UNCHANGED calcVars
    BY <2>1, Kinds DEF pop, withoutTop
  <2>. QED  BY <1>3, <2>2, PushPop
<1>4. entries # <<>>
  BY DEF pop
<1>. QED  BY <1>1, <1>2, <1>3, <1>4

\* The entries that a rebuild can find.
LEMMA Marked ==
  ASSUME marked, Situations
  PROVE  \/ entries = <<Calculator>>
         \/ entries = <<Calculator, Error(0)>>
         \/ entries = <<Calculator, Downloads(1)>> /\ shown = <<"calculator", "error">>
         \/ entries = <<>>
BY DEF Situations, NothingShown, CalculatorShown, ErrorShown, DownloadShown,
      NothingLeft

\* What a rebuild makes of them.
LEMMA Rebuilt ==
  ASSUME Rebuild
  PROVE  /\ entries = <<Calculator>> => entries' = entries /\ shown' = <<"calculator">>
         /\ entries = <<Calculator, Error(0)>> =>
              entries' = <<Calculator, Error(1)>> /\ shown' = <<"calculator", "error">>
         /\ entries = <<Calculator, Downloads(1)>> =>
              entries' = <<Calculator, Downloads(2)>> /\ shown' = <<"calculator", "download">>
         /\ entries = <<>> => entries' = <<>> /\ shown' = <<>>
<1>. DEFINE Page(i) == entries[i].page
            Older(i) == IF entries[i].page = "calculator" \/ entries[i].age = 2 THEN entries[i]
                        ELSE [entries[i] EXCEPT !.age = @ + 1]
<1>1. /\ shown' = [i \in DOMAIN entries |-> Page(i)]
      /\ entries' = [i \in DOMAIN entries |-> Older(i)]
  BY DEF Rebuild
<1>2. DOMAIN entries = {1} => shown' = <<Page(1)>> /\ entries' = <<Older(1)>>
  <2>. HIDE DEF Page, Older
  <2>. QED  BY <1>1, Mapped
<1>3. DOMAIN entries = {1, 2} =>
        shown' = <<Page(1), Page(2)>> /\ entries' = <<Older(1), Older(2)>>
  <2>. HIDE DEF Page, Older
  <2>. QED  BY <1>1, Mapped
<1>4. ASSUME entries = <<Calculator>>
      PROVE  entries' = entries /\ shown' = <<"calculator">>
  BY <1>2, <1>4, PushPop DEF Calculator
<1>5. ASSUME entries = <<Calculator, Error(0)>>
      PROVE  entries' = <<Calculator, Error(1)>> /\ shown' = <<"calculator", "error">>
  BY <1>3, <1>5, PushPop DEF Calculator, Error
<1>6. ASSUME entries = <<Calculator, Downloads(1)>>
      PROVE  entries' = <<Calculator, Downloads(2)>> /\ shown' = <<"calculator", "download">>
  BY <1>3, <1>6, PushPop DEF Calculator, Downloads
<1>7. ASSUME entries = <<>> PROVE entries' = <<>> /\ shown' = <<>>
  <2>1. DOMAIN entries = {}
    BY <1>7, PopLast
  <2>. HIDE DEF Page, Older
  <2>. QED  BY <1>1, <2>1, PopLast
<1>. QED  BY <1>4, <1>5, <1>6, <1>7

\* A rebuild makes the tree that of the entries.
LEMMA RebuildKeeps == ASSUME PagesInv, Rebuild PROVE PagesInv'
<1>. USE DEF PagesInv
<1>1. /\ place' = "timers" /\ marked' = FALSE /\ marked
      /\ currentId' = [b \in Buttons |-> IF updated(pageOf(b)) THEN currentId[b] ELSE NoPointer]
      /\ startTimer' = (Built("download") /\ (updated("download") => startTimer))
      /\ Built("calculator") /\ updated("calculator") => UNCHANGED calcVars
      /\ Built("calculator") /\ ~updated("calculator") => popupTimer' = ~rom /\ mCalc' = rom
      /\ ~Built("calculator") => popupTimer' = FALSE /\ mCalc' = FALSE
      /\ UNCHANGED <<stopping, rom, down, used, handled>>
  BY DEF Rebuild, init, glass
<1>2. PagesTypes'
  <2>1. startTimer' \in BOOLEAN
    BY <1>1
  <2>2. popupTimer' \in BOOLEAN /\ mCalc' \in BOOLEAN
    BY <1>1 DEF PagesTypes, calcVars
  <2>. QED  BY <1>1, <2>1, <2>2 DEF PagesTypes
<1>3. CASE entries = <<Calculator>>
  <2>1. entries' = <<Calculator>> /\ shown' = <<"calculator">>
    BY <1>3, Rebuilt
  <2>2. ~Built("download") /\ ~Built("error")
    BY <1>3, PushPop, Kinds DEF Built
  <2>3. ~startTimer'
    BY <1>1, <2>2
  <2>4. CalculatorShown'
    BY <1>1, <2>1, <2>3 DEF CalculatorShown
  <2>5. ~updated("error")
    BY <2>2 DEF updated, Built
  <2>6. DetectorsFollow'
    BY <1>1, <2>5 DEF DetectorsFollow, pageOf, Buttons
  <2>. QED  BY <1>2, <2>4, <2>6 DEF Situations
<1>4. CASE entries = <<Calculator, Error(0)>>
  <2>1. entries' = <<Calculator, Error(1)>> /\ shown' = <<"calculator", "error">>
    BY <1>4, Rebuilt
  <2>2. ~Built("download")
    BY <1>4, PushPop, Kinds DEF Built
  <2>3. ~popupTimer /\ (shown = <<"calculator">> \/ shown = <<"calculator", "download">>)
    <3>1. entries # <<Calculator>> /\ entries # <<>>
      BY <1>4, PushPop
    <3>2. CASE CalculatorShown
      BY <3>1, <3>2, PushPop DEF CalculatorShown
    <3>3. ~ErrorShown
      BY <1>1, <1>4, <3>1, PushPop, Kinds DEF ErrorShown
    <3>4. CASE DownloadShown
      BY <1>1, <3>1, <3>4, PushPop DEF DownloadShown
    <3>. QED  BY <3>1, <3>2, <3>3, <3>4 DEF Situations, NothingShown, NothingLeft
  <2>8. Built("calculator") /\ updated("calculator")
    BY <1>4, <2>3, PushPop, Kinds DEF Built, updated
  <2>4. ErrorShown'
    <3>1. ~startTimer'
      BY <1>1, <2>2
    <3>2. popupTimer' = popupTimer
      BY <1>1, <2>8 DEF calcVars
    <3>. QED  BY <1>1, <2>1, <2>3, <3>1, <3>2 DEF ErrorShown
  <2>5. OnTop("error")'
    BY <2>1, PushPop DEF OnTop
  <2>6. \A b \in Buttons : currentId'[b] # NoPointer => currentId'[b] = currentId[b]
    BY <1>1
  <2>7. DetectorsFollow'
    BY <1>1, <2>5, <2>6 DEF DetectorsFollow, Buttons
  <2>. QED  BY <1>2, <2>4, <2>7 DEF Situations
<1>5. CASE entries = <<Calculator, Downloads(1)>> /\ shown = <<"calculator", "error">>
  <2>1. entries' = <<Calculator, Downloads(2)>> /\ shown' = <<"calculator", "download">>
    BY <1>5, Rebuilt
  <2>2. /\ Built("download") /\ ~updated("download") /\ ~updated("error")
        /\ Built("calculator") /\ updated("calculator")
    BY <1>5, PushPop, Kinds DEF Built, updated
  <2>3. ~popupTimer
    BY <1>1, <1>5, PushPop, Kinds DEF Situations, NothingShown, CalculatorShown, ErrorShown,
      DownloadShown, NothingLeft
  <2>4. DownloadShown'
    <3>1. startTimer'
      BY <1>1, <2>2
    <3>2. popupTimer' = popupTimer
      BY <1>1, <2>2 DEF calcVars
    <3>. QED  BY <1>1, <2>1, <2>3, <3>1, <3>2 DEF DownloadShown
  <2>5. DetectorsFollow'
    BY <1>1, <2>2 DEF DetectorsFollow, pageOf, Buttons
  <2>. QED  BY <1>2, <2>4, <2>5 DEF Situations
<1>6. CASE entries = <<>>
  <2>1. entries' = <<>> /\ shown' = <<>>
    BY <1>6, Rebuilt
  <2>2. ~Built("calculator") /\ ~Built("download") /\ ~updated("error")
    BY <1>6, PopLast DEF Built, updated
  <2>3. NothingLeft'
    BY <1>1, <2>1, <2>2 DEF NothingLeft
  <2>4. DetectorsFollow'
    BY <1>1, <2>2 DEF DetectorsFollow, pageOf, Buttons
  <2>. QED  BY <1>2, <2>3, <2>4 DEF Situations
<1>. QED  BY <1>1, <1>3, <1>4, <1>5, <1>6, Marked

\* The timers.
LEMMA TimersKeep ==
  ASSUME PagesInv, PopUp \/ (\E loads \in BOOLEAN : Download /\ rom' = loads)
  PROVE  PagesInv'
<1>. USE DEF PagesInv
<1>1. CASE PopUp
  <2>1. /\ place = "timers" /\ popupTimer /\ popupTimer' = FALSE /\ marked' = TRUE
        /\ entries' = Append(entries, Error(0))
        /\ UNCHANGED <<place, stopping, shown, currentId, startTimer, mCalc, rom, down, used, handled>>
    BY <1>1 DEF PopUp, push, Error, treeVars, glass
  <2>2. PagesTypes' /\ DetectorsFollow'
    BY <2>1 DEF PagesTypes, DetectorsFollow, OnTop
  <2>3. /\ entries = <<Calculator>> /\ ~startTimer
        /\ shown = <<"calculator">> \/ shown = <<"calculator", "download">>
    BY <2>1 DEF Situations, NothingShown, CalculatorShown, ErrorShown, DownloadShown,
      NothingLeft
  <2>4. entries' = <<Calculator, Error(0)>>
    BY <2>1, <2>3, PushPop
  <2>5. CalculatorShown' \/ DownloadShown'
    BY <2>1, <2>3, <2>4 DEF CalculatorShown, DownloadShown
  <2>. QED  BY <2>2, <2>5 DEF Situations
<1>2. ASSUME NEW loads \in BOOLEAN, Download, rom' = loads
      PROVE  PagesInv'
  <2>1. /\ place = "timers" /\ startTimer /\ startTimer' = FALSE /\ pop(loads)
        /\ UNCHANGED <<place, stopping, shown, currentId, down, used, handled>>
    BY <1>2 DEF Download, glass
  <2>2. entries = <<Calculator, Downloads(2)>> /\ shown = <<"calculator", "download">>
    BY <2>1 DEF Situations, NothingShown, CalculatorShown, ErrorShown, DownloadShown,
      NothingLeft
  <2>3. entries' = <<Calculator>> /\ marked' = TRUE /\ popupTimer' = ~loads /\ mCalc' = loads
    <3>1. 2 \in 0..2
      OBVIOUS
    <3>. QED  BY <2>1, <2>2, <3>1, Popped
  <2>4. PagesTypes' /\ DetectorsFollow'
    BY <1>2, <2>1, <2>3 DEF PagesTypes, DetectorsFollow, OnTop
  <2>5. DownloadShown'
    BY <2>1, <2>2, <2>3 DEF DownloadShown
  <2>. QED  BY <2>4, <2>5 DEF Situations
<1>. QED  BY <1>1, <1>2

\* The dialog is on top only when it is shown.
LEMMA ErrorOnTop ==
  /\ Situations /\ OnTop("error") => ErrorShown
  /\ ErrorShown => OnTop("error")
<1>1. /\ Last(<<"calculator">>) = "calculator"
      /\ Last(<<"calculator", "download">>) = "download"
      /\ Last(<<"calculator", "error">>) = "error"
      /\ <<"calculator", "error">> # <<>>
  BY PushPop
<1>2. ASSUME Situations, OnTop("error") PROVE ErrorShown
  BY <1>1, <1>2 DEF Situations, NothingShown, CalculatorShown, DownloadShown, NothingLeft, OnTop
<1>. QED  BY <1>1, <1>2 DEF ErrorShown, OnTop

\* Input.
LEMMA InputKeeps ==
  ASSUME PagesInv, NEW id \in Pointers,
         Lift(id) \/ (\E buttons \in SUBSET Buttons : Press(id, buttons))
  PROVE  PagesInv'
<1>. USE DEF PagesInv
<1>1. ASSUME NEW buttons, Press(id, buttons) PROVE PagesInv'
  <2>1. /\ handled < MaxEvents /\ handled' = handled + 1
        /\ down' = down \cup {id} /\ used' = used \cup ({id} \cap Fingers)
        /\ currentId' = [b \in Buttons |->
             IF b \in buttons /\ OnTop(pageOf(b)) /\ currentId[b] = NoPointer THEN id ELSE currentId[b]]
        /\ UNCHANGED <<place, stopping, entries, marked, shown, startTimer, popupTimer, mCalc, rom>>
    BY <1>1 DEF Press, calcVars
  <2>2. PagesTypes'
    BY <2>1, PagesAssumption DEF PagesAssumption, PagesTypes
  <2>3. Situations'
    BY <2>1 DEF Situations, NothingShown, CalculatorShown, ErrorShown, DownloadShown,
      NothingLeft
  <2>4. DetectorsFollow'
    BY <2>1 DEF DetectorsFollow, pageOf, Buttons, OnTop
  <2>. QED  BY <2>2, <2>3, <2>4
<1>2. CASE Lift(id)
  <2>1. /\ place = "input" /\ handled < MaxEvents /\ handled' = handled + 1
        /\ down' = down \ {id} /\ currentId' = released(id)
        /\ stopping' = (stopping \/ tapped(id) \cap {"X", "Exit"} # {})
        /\ IF "Download" \in tapped(id) THEN pop(rom)
           ELSE UNCHANGED <<entries, marked, popupTimer, mCalc>>
        /\ UNCHANGED <<place, shown, startTimer, rom, used>>
    BY <1>2 DEF Lift, calcVars
  <2>2. DetectorsFollow'
    BY <2>1 DEF DetectorsFollow, released, tapped, pageOf, Buttons, OnTop
  <2>3. /\ currentId' \in [Buttons -> Pointers \cup {NoPointer}] /\ stopping' \in BOOLEAN
        /\ handled' \in 0..MaxEvents
    BY <2>1, PagesAssumption DEF PagesAssumption, PagesTypes, released
  <2>4. ASSUME marked' \in BOOLEAN, popupTimer' \in BOOLEAN, mCalc' \in BOOLEAN
        PROVE  PagesTypes'
    BY <2>1, <2>3, <2>4 DEF PagesTypes
  <2>5. CASE "Download" \notin tapped(id)
    <3>1. PagesTypes'
      BY <2>1, <2>4, <2>5 DEF PagesTypes
    <3>2. Situations'
      BY <2>1, <2>5 DEF Situations, NothingShown, CalculatorShown, ErrorShown, DownloadShown,
      NothingLeft
    <3>. QED  BY <2>2, <3>1, <3>2
  <2>6. CASE "Download" \in tapped(id)
    <3>1. ErrorShown /\ pop(rom)
      BY <2>1, <2>6, ErrorOnTop DEF tapped, pageOf
    <3>2. 1 \in 0..2
      OBVIOUS
    <3>3. CASE entries = <<Calculator, Error(1)>> /\ ~popupTimer
      <4>1. entries' = <<Calculator, Downloads(1)>> /\ marked' = TRUE /\ UNCHANGED calcVars
        BY <3>1, <3>2, <3>3, Popped
      <4>2. popupTimer' = popupTimer /\ mCalc' = mCalc
        BY <4>1 DEF calcVars
      <4>3. PagesTypes'
        BY <2>4, <4>1, <4>2 DEF PagesTypes
      <4>4. ErrorShown'
        BY <2>1, <3>1, <3>3, <4>1, <4>2 DEF ErrorShown
      <4>. QED  BY <2>2, <4>3, <4>4 DEF Situations
    <3>4. CASE entries = <<Calculator, Downloads(1)>>
      <4>1. entries' = <<Calculator>> /\ marked' = TRUE /\ popupTimer' = ~rom /\ mCalc' = rom
        BY <3>1, <3>2, <3>4, Popped
      <4>2. PagesTypes'
        BY <2>4, <4>1 DEF PagesTypes
      <4>3. ErrorShown'
        BY <2>1, <3>1, <4>1 DEF ErrorShown
      <4>. QED  BY <2>2, <4>2, <4>3 DEF Situations
    <3>5. CASE entries = <<Calculator>>
      <4>1. entries' = <<>> /\ marked' = TRUE /\ UNCHANGED calcVars
        BY <3>1, <3>2, <3>5, Popped
      <4>2. popupTimer' \in BOOLEAN /\ mCalc' \in BOOLEAN
        BY <4>1 DEF calcVars, PagesTypes
      <4>3. PagesTypes'
        BY <2>4, <4>1, <4>2 DEF PagesTypes
      <4>4. ErrorShown'
        BY <2>1, <3>1, <4>1 DEF ErrorShown
      <4>. QED  BY <2>2, <4>3, <4>4 DEF Situations
    <3>6. entries # <<>>
      BY <3>1, <3>2, Popped
    <3>. QED  BY <3>1, <3>3, <3>4, <3>5, <3>6 DEF ErrorShown
  <2>. QED  BY <2>5, <2>6
<1>. QED  BY <1>1, <1>2

\* The other steps change neither entries nor tree.
LEMMA PagesStep == PagesInv /\ [PagesNext]_pagesVars => PagesInv'
<1>. SUFFICES ASSUME PagesInv, [PagesNext]_pagesVars PROVE PagesInv'
  OBVIOUS
<1>. DEFINE Same == UNCHANGED <<entries, marked, shown, currentId, startTimer, popupTimer, mCalc,
                                rom, down, used>>
<1>1. ASSUME Same, stopping' \in BOOLEAN, handled' \in 0..MaxEvents,
             \/ place' = place
             \/ place = "rebuild" /\ place' = "timers" /\ ~marked
             \/ place = "timers" /\ place' = "input" /\ ~popupTimer /\ ~startTimer
             \/ place = "input" /\ place' = "rebuild"
             \/ place = "rebuild" /\ place' = "ended"
             \/ place = "input" /\ place' = "undefined"
      PROVE  PagesInv'
  <2>1. PagesTypes' /\ DetectorsFollow'
    BY <1>1 DEF PagesInv, PagesTypes, DetectorsFollow, OnTop
  <2>2. Situations'
    BY <1>1 DEF PagesInv, Situations, NothingShown, CalculatorShown, ErrorShown, DownloadShown,
      NothingLeft
  <2>. QED  BY <2>1, <2>2 DEF PagesInv
<1>2. /\ 0 \in 0..MaxEvents /\ stopping \in BOOLEAN /\ handled \in 0..MaxEvents
  BY PagesAssumption DEF PagesAssumption, PagesInv, PagesTypes
<1>3. CASE NothingToRebuild
  BY <1>1, <1>2, <1>3 DEF NothingToRebuild, treeVars, calcVars, glass
<1>4. CASE TimersDone
  BY <1>1, <1>2, <1>4 DEF TimersDone, treeVars, calcVars, glass
<1>5. CASE InputHandled
  BY <1>1, <1>2, <1>5 DEF InputHandled, treeVars, calcVars, glass
<1>6. CASE Leave
  BY <1>1, <1>2, <1>6 DEF Leave, treeVars, calcVars, glass
<1>7. CASE stop
  BY <1>1, <1>2, <1>7 DEF stop, treeVars, calcVars, glass
<1>8. CASE UNCHANGED pagesVars
  BY <1>1, <1>2, <1>8 DEF pagesVars, treeVars, calcVars, glass
<1>9. CASE Download
  BY <1>9, TimersKeep DEF Download
<1>10. ASSUME NEW id \in Pointers,
              Lift(id) \/ (\E b \in Buttons : Press(id, {b})) \/ Press(id, {})
       PROVE  PagesInv'
  <2>1. ASSUME NEW b \in Buttons, Press(id, {b}) PROVE PagesInv'
    <3>1. {b} \in SUBSET Buttons
      OBVIOUS
    <3>. QED  BY <2>1, <3>1, InputKeeps
  <2>2. CASE Press(id, {})
    <3>1. {} \in SUBSET Buttons
      OBVIOUS
    <3>. QED  BY <2>2, <3>1, InputKeeps
  <2>. QED  BY <1>10, <2>1, <2>2, InputKeeps
<1>11. ASSUME NEW id \in Pointers, PopNothing(id) PROVE PagesInv'
  BY <1>1, <1>2, <1>11 DEF PopNothing, treeVars, calcVars, glass
<1>. QED  BY <1>3, <1>4, <1>5, <1>6, <1>7, <1>8, <1>9, <1>10, <1>11, RebuildKeeps, TimersKeep
     DEF PagesNext, RunApp

\* The calculator alone.
LEMMA PagesStart == PagesInit => PagesInv
<1>. SUFFICES ASSUME PagesInit PROVE PagesInv
  OBVIOUS
<1>1. NothingShown
  BY DEF PagesInit, NothingShown, Calculator
<1>2. currentId \in [Buttons -> Pointers \cup {NoPointer}] /\ DetectorsFollow
  BY DEF PagesInit, DetectorsFollow, Buttons
<1>3. PagesTypes
  <2>1. /\ place \in {"rebuild", "timers", "input", "ended", "undefined"}
        /\ down \subseteq Pointers /\ used \subseteq Fingers /\ handled \in 0..MaxEvents
    BY PagesAssumption DEF PagesAssumption, PagesInit
  <2>2. /\ stopping \in BOOLEAN /\ marked \in BOOLEAN /\ popupTimer \in BOOLEAN
        /\ startTimer \in BOOLEAN /\ mCalc \in BOOLEAN /\ rom \in BOOLEAN
    BY DEF PagesInit
  <2>. QED  BY <1>2, <2>1, <2>2 DEF PagesTypes
<1>. QED  BY <1>1, <1>2, <1>3 DEF PagesInv, Situations

\* The types of entries and tree, too.
LEMMA PagesTypesOK == PagesInv => PagesTypeOK
<1>. SUFFICES ASSUME PagesInv PROVE PagesTypeOK
  OBVIOUS
<1>1. Calculator \in Entry /\ \A age \in {0, 1, 2} : Error(age) \in Entry /\ Downloads(age) \in Entry
  BY Kinds
<1>2. \A entry \in Entry :
        <<>> \in Seq(Entry) /\ <<Calculator>> \in Seq(Entry) /\ <<Calculator, entry>> \in Seq(Entry)
  BY <1>1
<1>3. entries \in Seq(Entry)
  BY <1>1, <1>2 DEF PagesInv, Situations, NothingShown, CalculatorShown, ErrorShown, DownloadShown,
      NothingLeft
<1>4. shown \in Seq(PageNames)
  <2>1. /\ <<>> \in Seq(PageNames) /\ <<"calculator">> \in Seq(PageNames)
        /\ <<"calculator", "error">> \in Seq(PageNames)
        /\ <<"calculator", "download">> \in Seq(PageNames)
    BY DEF PageNames
  <2>. QED  BY <2>1 DEF PagesInv, Situations, NothingShown, CalculatorShown, ErrorShown,
      DownloadShown, NothingLeft
<1>. QED  BY <1>3, <1>4 DEF PagesInv, PagesTypes, PagesTypeOK

\* However taps, lifts, timers and downloads that fail follow each other, for
\* any fingers and any number of events in a pass, a page is built only while
\* the widget lives that its closure refers to.
THEOREM PagesReferToLiveWidgets == PagesSpec => [](PagesTypeOK /\ ClosuresReferToLiveWidgets)
<1>1. PagesInv => ClosuresReferToLiveWidgets
  <2>. SUFFICES ASSUME PagesInv, marked, NEW i \in DOMAIN entries PROVE entries[i].age <= 1
    BY DEF ClosuresReferToLiveWidgets
  <2>1. \/ entries = <<Calculator>>
        \/ entries = <<Calculator, Error(0)>>
        \/ entries = <<Calculator, Downloads(1)>>
        \/ entries = <<>>
    BY Marked DEF PagesInv
  <2>. QED  BY <2>1, PushPop, PopLast, Kinds
<1>. QED  BY <1>1, PagesStart, PagesStep, PagesTypesOK, PTL DEF PagesSpec

\* Every button of a dialog that is shown can be tapped: none follows a finger
\* that is gone, wherever that was lifted.
THEOREM PagesDialogsAnswer == PagesSpec => []DialogButtonsAnswer
<1>1. PagesInv => DialogButtonsAnswer
  BY DEF PagesInv, DetectorsFollow, DialogButtonsAnswer
<1>. QED  BY <1>1, PagesStart, PagesStep, PTL DEF PagesSpec

-----------------------------------------------------------------------------
(* Three taps.                                                             *)

\* At least n events were handled in this pass, and one more if the detector of
\* the Download button follows a pointer again.
Events(n) == handled >= n /\ (currentId["Download"] # NoPointer => handled >= n + 1)

\* While the tree shows the dialog, every page popped has cost events.
TapsCounted ==
  shown = <<"calculator", "error">> =>
    /\ entries = <<Calculator, Downloads(1)>> => Events(1)
    /\ entries = <<Calculator>> => Events(3)

\* A tap takes one page more.
LEMMA TapCounts ==
  ASSUME PagesInv, TapsCounted, NEW id \in Pointers, Lift(id)
  PROVE  TapsCounted' /\ (entries # <<>> /\ entries' = <<>> => handled' >= 5)
<1>1. /\ handled' = handled + 1 /\ currentId' = released(id) /\ shown' = shown
      /\ IF "Download" \in tapped(id) THEN pop(rom) ELSE entries' = entries
  BY DEF Lift
<1>2. handled \in Nat /\ id # NoPointer
  BY PagesAssumption DEF PagesInv, PagesTypes, PagesAssumption, Pointers
<1>3. CASE "Download" \notin tapped(id)
  <2>1. entries' = entries /\ currentId'["Download"] = currentId["Download"]
    BY <1>1, <1>3 DEF released, Buttons
  <2>. QED  BY <1>1, <1>2, <2>1 DEF TapsCounted, Events
<1>4. CASE "Download" \in tapped(id)
  <2>1. /\ ErrorShown /\ pop(rom) /\ currentId["Download"] = id
        /\ currentId'["Download"] = NoPointer
    BY <1>1, <1>4, ErrorOnTop DEF tapped, released, pageOf, Buttons, PagesInv
  <2>2. 1 \in 0..2 /\ shown = <<"calculator", "error">>
    BY <2>1 DEF ErrorShown
  <2>3. CASE entries = <<Calculator, Error(1)>>
    <3>1. entries' = <<Calculator, Downloads(1)>>
      BY <2>1, <2>2, <2>3, Popped
    <3>2. entries' # <<Calculator>> /\ entries' # <<>>
      BY <3>1, PushPop
    <3>3. Events(1)'
      BY <1>1, <1>2, <2>1 DEF Events
    <3>. QED  BY <3>2, <3>3 DEF TapsCounted
  <2>4. CASE entries = <<Calculator, Downloads(1)>>
    <3>1. entries' = <<Calculator>>
      BY <2>1, <2>2, <2>4, Popped
    <3>2. entries' # <<Calculator, Downloads(1)>> /\ entries' # <<>>
      BY <3>1, PushPop
    <3>3. handled >= 2
      BY <1>2, <2>1, <2>2, <2>4 DEF TapsCounted, Events
    <3>4. Events(3)'
      BY <1>1, <1>2, <2>1, <3>3 DEF Events
    <3>. QED  BY <3>2, <3>4 DEF TapsCounted
  <2>5. CASE entries = <<Calculator>>
    <3>1. entries' = <<>>
      BY <2>1, <2>2, <2>5, Popped
    <3>2. entries' # <<Calculator, Downloads(1)>> /\ entries' # <<Calculator>>
      BY <3>1, PushPop
    <3>3. handled >= 4
      BY <1>2, <2>1, <2>2, <2>5 DEF TapsCounted, Events
    <3>4. handled' >= 5
      BY <1>1, <1>2, <3>3
    <3>. QED  BY <3>2, <3>4 DEF TapsCounted
  <2>6. entries # <<>>
    BY <2>1, <2>2, Popped
  <2>. QED  BY <2>1, <2>3, <2>4, <2>5, <2>6 DEF ErrorShown
<1>. QED  BY <1>3, <1>4

\* No other step loses the calculator, or forgets an event before a rebuild.
LEMMA OthersCount ==
  ASSUME PagesInv, TapsCounted, [PagesNext]_pagesVars, \A id \in Pointers : ~Lift(id)
  PROVE  TapsCounted' /\ (entries # <<>> => entries' # <<>>)
<1>. USE DEF PagesInv
<1>1. handled \in Nat
  BY PagesAssumption DEF PagesTypes, PagesAssumption
<1>2. CASE Rebuild
  <2>1. /\ entries = <<Calculator>> => entries' = entries /\ shown' = <<"calculator">>
        /\ entries = <<Calculator, Error(0)>> => entries' = <<Calculator, Error(1)>>
        /\ entries = <<Calculator, Downloads(1)>> => entries' = <<Calculator, Downloads(2)>>
        /\ entries = <<>> => entries' = <<>>
    BY <1>2, Rebuilt
  <2>2. \/ entries = <<Calculator>> \/ entries = <<Calculator, Error(0)>>
        \/ entries = <<Calculator, Downloads(1)>> \/ entries = <<>>
    BY <1>2, Marked DEF Rebuild
  <2>3. /\ <<"calculator">> # <<"calculator", "error">>
        /\ \A e \in {Error(1), Downloads(2)} :
             /\ <<Calculator, e>> # <<Calculator>> /\ <<Calculator, e>> # <<>>
             /\ <<Calculator, e>> # <<Calculator, Downloads(1)>>
        /\ <<>> # <<Calculator>> /\ <<>> # <<Calculator, Downloads(1)>>
    <3>1. Error(1) # Downloads(1) /\ Downloads(2) # Downloads(1)
      BY Kinds
    <3>. HIDE DEF Calculator
    <3>. QED  BY <3>1, PushPop
  <2>. QED  BY <2>1, <2>2, <2>3 DEF TapsCounted
<1>3. CASE PopUp
  <2>1. entries = <<Calculator>> /\ entries' = Append(entries, Error(0)) /\ shown' = shown
    BY <1>3 DEF PopUp, push, Error, treeVars, Situations, NothingShown, CalculatorShown,
      ErrorShown, DownloadShown, NothingLeft
  <2>2. entries' = <<Calculator, Error(0)>>
    BY <2>1, PushPop
  <2>3. Error(0) # Downloads(1)
    BY Kinds
  <2>4. /\ entries' # <<Calculator>> /\ entries' # <<>>
        /\ entries' # <<Calculator, Downloads(1)>>
    BY <2>2, <2>3, PushPop
  <2>. QED  BY <2>4 DEF TapsCounted
<1>4. CASE Download
  <2>1. place = "timers" /\ startTimer /\ shown' = shown /\ \E loads : pop(loads)
    BY <1>4 DEF Download
  <2>2. entries = <<Calculator, Downloads(2)>> /\ shown = <<"calculator", "download">>
    BY <2>1 DEF Situations, NothingShown, CalculatorShown, ErrorShown, DownloadShown, NothingLeft
  <2>3. entries' = <<Calculator>>
    <3>1. 2 \in 0..2
      OBVIOUS
    <3>. QED  BY <2>1, <2>2, <3>1, Popped
  <2>4. shown' # <<"calculator", "error">> /\ entries' # <<>>
    BY <2>1, <2>2, <2>3, PushPop
  <2>. QED  BY <2>4 DEF TapsCounted
<1>5. CASE TimersDone
  <2>1. place = "timers" /\ UNCHANGED <<entries, shown>>
    BY <1>5 DEF TimersDone, treeVars
  <2>2. shown = <<"calculator", "error">> => entries = <<Calculator, Error(1)>>
    <3>. SUFFICES ASSUME shown = <<"calculator", "error">>
                  PROVE  entries = <<Calculator, Error(1)>>
      OBVIOUS
    <3>1. OnTop("error")
      BY PushPop DEF OnTop
    <3>. QED  BY <2>1, <3>1, ErrorOnTop DEF ErrorShown
  <2>3. Error(1) # Downloads(1)
    BY Kinds
  <2>4. /\ <<Calculator, Error(1)>> # <<Calculator>>
        /\ <<Calculator, Error(1)>> # <<Calculator, Downloads(1)>>
    BY <2>3, PushPop
  <2>. QED  BY <2>1, <2>2, <2>4 DEF TapsCounted
<1>6. ASSUME NEW id \in Pointers, NEW buttons, Press(id, buttons)
      PROVE  TapsCounted' /\ entries' = entries
  <2>1. /\ UNCHANGED <<entries, shown>> /\ handled' = handled + 1
    BY <1>6 DEF Press
  <2>. QED  BY <1>1, <2>1 DEF TapsCounted, Events
<1>7. ASSUME UNCHANGED <<entries, shown, currentId, handled>>
      PROVE  TapsCounted' /\ entries' = entries
  BY <1>7 DEF TapsCounted, Events
<1>8. CASE NothingToRebuild \/ InputHandled \/ Leave \/ stop \/ UNCHANGED pagesVars
  BY <1>7, <1>8 DEF NothingToRebuild, InputHandled, Leave, stop, pagesVars, treeVars
<1>9. ASSUME NEW id \in Pointers, PopNothing(id)
      PROVE  TapsCounted' /\ entries' = entries
  BY <1>7, <1>9 DEF PopNothing, treeVars
<1>. QED  BY <1>2, <1>3, <1>4, <1>5, <1>6, <1>8, <1>9 DEF PagesNext, RunApp

\* The calculator's page is lost only by a third tap in one pass: for any
\* fingers, and however taps, timers and downloads follow each other.
THEOREM PagesThreeTapsToLoseIt == PagesSpec => ThreeTapsToLoseIt
<1>. DEFINE Lost == entries # <<>> /\ entries' = <<>> => handled' >= 5
<1>1. PagesInit => TapsCounted
  BY PushPop DEF PagesInit, TapsCounted
<1>2. PagesInv /\ TapsCounted /\ [PagesNext]_pagesVars => TapsCounted' /\ [Lost]_pagesVars
  BY TapCounts, OthersCount
<1>. QED  BY <1>1, <1>2, PagesStart, PagesStep, PTL DEF PagesSpec, ThreeTapsToLoseIt
=============================================================================
