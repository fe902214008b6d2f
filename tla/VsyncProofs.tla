---------------------------- MODULE VsyncProofs ----------------------------
(***************************************************************************)
(* Proofs about Vsync for any number of pan buffers, phases and updates,   *)
(* prompt threads or not, a display that fails or not: the counters of the *)
(* vsync thread implement the ring of PanRing.                             *)
(***************************************************************************)
EXTENDS Vsync, TLAPS

\* What the counters say at each point of vsyncRoutine.  previousPanPhase is
\* the phase on the screen, or -1 once its buffer was given back; all buffers
\* before it were given back but, between the pan and the clear, that of the
\* phase before.
Counters ==
  /\ vsync # "clearOld" =>
       \/ previousPanPhase = -1 /\ dirtyClearCount = currentPanPhase
       \/ /\ previousPanPhase = currentPanPhase - 1 /\ previousPanPhase >= 0
          /\ dirtyClearCount = previousPanPhase
  /\ vsync = "clearOld" =>
       /\ previousPanPhase = currentPanPhase - 1 /\ previousPanPhase >= 0
       /\ \/ prevPhase = -1 /\ dirtyClearCount = previousPanPhase
          \/ /\ prevPhase = currentPanPhase - 2 /\ prevPhase >= 0
             /\ dirtyClearCount = prevPhase
  /\ vsync \in {"arm", "check", "sleep", "wait", "timedOut", "woken"} =>
       previousPanPhase = -1

\* The wait is left only when there is something to do, and that stays so.
WokenForSomething ==
  vsync = "woken" => ~nothingToShow \/ vsyncShutdownRequest \/ vsyncClearRequest

VInv == TypeOK /\ Counters /\ WokenForSomething

\* A phase has its place in the ring.
LEMMA NormPhase ==
  ASSUME NEW i \in Nat
  PROVE  normPhase(i) \in Slots
BY VsyncAssumption DEF normPhase, Slots, VsyncAssumption

\* A position in the ring or behind it is one the display knows.
LEMMA Positions ==
  ASSUME TypeOK, NEW p \in Slots \cup {Empty}, pan(p)
  PROVE  screen' \in Slots \cup {Empty}
BY DEF TypeOK, pan

\* The counters are numbers.
LEMMA Numbers ==
  ASSUME TypeOK
  PROVE  /\ currentPanPhase \in Nat /\ lastPanPhase \in Nat /\ dirtyClearCount \in Nat
         /\ previousPanPhase \in Int /\ prevPhase \in Int
         /\ currentPanPhase <= lastPanPhase
<1>1. lastPanPhase \in Nat /\ currentPanPhase \in 0..lastPanPhase
  BY DEF TypeOK
<1>2. currentPanPhase \in Nat /\ currentPanPhase <= lastPanPhase
  BY <1>1
<1>3. /\ previousPanPhase \in -1..currentPanPhase - 1
      /\ prevPhase \in -1..currentPanPhase - 1
      /\ dirtyClearCount \in 0..currentPanPhase
  BY DEF TypeOK
<1>. QED  BY <1>1, <1>2, <1>3

\* The first phases: nothing drawn, nothing shown.
LEMMA VInit == Init => VInv
<1>. SUFFICES ASSUME Init PROVE VInv
  OBVIOUS
<1>1. TypeOK
  <2>1. /\ buffer \in [Slots -> Nat \cup {Clean}]
        /\ screen \in Slots \cup {Empty}
    BY DEF Init
  <2>2. left \in 1..Phases /\ asked \in 0..MaxUpdates /\ updates \in 0..asked
    BY VsyncAssumption DEF Init, VsyncAssumption
  <2>3. /\ currentPanPhase \in 0..lastPanPhase /\ dirtyClearCount \in 0..currentPanPhase
        /\ previousPanPhase \in -1..currentPanPhase - 1
        /\ prevPhase \in -1..currentPanPhase - 1
    BY DEF Init
  <2>. QED  BY <2>1, <2>2, <2>3 DEF Init, TypeOK, VsyncPoints, ClientPoints
<1>2. Counters /\ WokenForSomething
  BY DEF Init, Counters, WokenForSomething
<1>. QED  BY <1>1, <1>2 DEF VInv

\* A notification moves vsync from its wait to the check of the condition.
LEMMA Notified ==
  ASSUME VInv, notifyVsyncThread,
         UNCHANGED <<currentPanPhase, previousPanPhase, prevPhase, lastPanPhase,
                     dirtyClearCount>>,
         vsyncClearRequest' = vsyncClearRequest,
         vsyncShutdownRequest' = vsyncShutdownRequest
  PROVE  Counters' /\ WokenForSomething' /\ vsync' \in VsyncPoints
BY DEF VInv, TypeOK, Counters, WokenForSomething, notifyVsyncThread, VsyncPoints,
   nothingToShow

\* Every step of the vsync thread keeps the counters in step.
LEMMA VsyncCounters ==
  ASSUME VInv, VsyncRun \/ TimeOut
  PROVE  Counters' /\ WokenForSomething'
<1>0. /\ currentPanPhase \in Nat /\ lastPanPhase \in Nat /\ dirtyClearCount \in Nat
      /\ previousPanPhase \in Int /\ prevPhase \in Int
  BY Numbers DEF VInv
<1>1. CASE PanNext
  <2>1. /\ vsync = "pan" /\ vsync' = "clearOld"
        /\ prevPhase' = previousPanPhase /\ previousPanPhase' = currentPanPhase
        /\ currentPanPhase' = currentPanPhase + 1 /\ dirtyClearCount' = dirtyClearCount
    BY <1>1 DEF PanNext, ringVars
  <2>. QED  BY <1>0, <2>1 DEF VInv, Counters, WokenForSomething
<1>2. CASE ClearOld
  <2>1. /\ vsync = "clearOld" /\ vsync' = "pan"
        /\ UNCHANGED <<previousPanPhase, currentPanPhase>>
    BY <1>2 DEF ClearOld
  <2>. QED  BY <1>0, <1>2, <2>1 DEF VInv, Counters, WokenForSomething, ClearOld,
              positive, giveBack
<1>3. CASE Settle
  BY <1>0, <1>3 DEF VInv, Counters, WokenForSomething, Settle, giveBack
<1>4. CASE Rest \/ Arm \/ Sleep \/ TimeOut \/ BlankNow \/ Leave \/ ExitOrRepeat
  BY <1>0, <1>4 DEF VInv, Counters, WokenForSomething, Rest, Arm, Sleep, TimeOut,
     BlankNow, Leave, ExitOrRepeat, ringVars
<1>5. CASE Check
  BY <1>0, <1>5 DEF VInv, Counters, WokenForSomething, Check, nothingToShow,
     ringVars, flagVars
<1>6. CASE Woken
  BY <1>0, <1>6 DEF VInv, Counters, WokenForSomething, Woken, ringVars, flagVars
<1>7. CASE ClearScreen
  BY <1>0, <1>7 DEF VInv, Counters, WokenForSomething, ClearScreen
<1>. QED  BY <1>1, <1>2, <1>3, <1>4, <1>5, <1>6, <1>7 DEF VsyncRun

\* The generator draws ahead of what is shown, and the client only asks.
LEMMA OtherCounters ==
  ASSUME VInv, \/ GeneratorRun \/ ClientRun \/ shutdown
               \/ \E fullRefresh \in BOOLEAN : actualUpdate(fullRefresh)
  PROVE  Counters' /\ WokenForSomething'
<1>0. /\ currentPanPhase \in Nat /\ lastPanPhase \in Nat /\ dirtyClearCount \in Nat
      /\ previousPanPhase \in Int /\ prevPhase \in Int
      /\ currentPanPhase <= lastPanPhase
  BY Numbers DEF VInv
<1>1. CASE Draw
  BY <1>0, <1>1 DEF VInv, Counters, WokenForSomething, Draw, vsyncVars, flagVars,
     nothingToShow
<1>2. CASE Wake \/ NoWork \/ Quit
  BY <1>2 DEF VInv, Counters, WokenForSomething, Wake, NoWork, Quit, vsyncVars,
     ringVars, flagVars, nothingToShow
<1>3. CASE TellVsync
  BY <1>3, Notified DEF TellVsync, ringVars, flagVars
<1>4. CASE NotifyClear
  BY <1>4, Notified DEF NotifyClear, ringVars, flagVars
<1>5. CASE NotifyShutdown
  BY <1>5, Notified DEF NotifyShutdown, ringVars, flagVars
<1>6. CASE clear
  BY <1>6 DEF VInv, Counters, WokenForSomething, clear, vsyncVars, ringVars, nothingToShow
<1>7. CASE JoinGenerator
  BY <1>7 DEF VInv, Counters, WokenForSomething, JoinGenerator, vsyncVars, ringVars,
     nothingToShow
<1>8. CASE Cleared \/ Updated \/ JoinVsync \/ shutdown
  BY <1>8 DEF VInv, Counters, WokenForSomething, Cleared, Updated, JoinVsync, shutdown,
     vsyncVars, ringVars, flagVars, nothingToShow
<1>9. CASE \E fullRefresh \in BOOLEAN : actualUpdate(fullRefresh)
  BY <1>9 DEF VInv, Counters, WokenForSomething, actualUpdate, vsyncVars, ringVars,
     flagVars, nothingToShow
<1>. QED  BY <1>1, <1>2, <1>3, <1>4, <1>5, <1>6, <1>7, <1>8, <1>9 DEF GeneratorRun, ClientRun

\* The types of what vsync changes.
LEMMA VsyncTypes ==
  ASSUME VInv, VsyncRun \/ TimeOut
  PROVE  TypeOK'
<1>0. /\ currentPanPhase \in Nat /\ lastPanPhase \in Nat /\ dirtyClearCount \in Nat
      /\ previousPanPhase \in Int /\ prevPhase \in Int
      /\ currentPanPhase <= lastPanPhase
  BY Numbers DEF VInv
<1>1. TypeOK
  BY DEF VInv
<1>2. CASE PanNext
  <2>1. screen' \in Slots \cup {Empty}
    BY <1>0, <1>1, <1>2, NormPhase, Positions DEF PanNext
  <2>2. /\ lastPanPhase' = lastPanPhase /\ dirtyClearCount' = dirtyClearCount
        /\ currentPanPhase' = currentPanPhase + 1 /\ currentPanPhase < lastPanPhase
        /\ previousPanPhase' = currentPanPhase /\ prevPhase' = previousPanPhase
    BY <1>0, <1>2 DEF PanNext, nothingToShow, ringVars
  <2>3. /\ currentPanPhase' \in 0..lastPanPhase'
        /\ previousPanPhase' \in -1..currentPanPhase' - 1
        /\ prevPhase' \in -1..currentPanPhase' - 1
        /\ dirtyClearCount' \in 0..currentPanPhase'
    BY <1>0, <1>1, <2>2 DEF TypeOK
  <2>. QED  BY <1>1, <1>2, <2>1, <2>3 DEF TypeOK, PanNext, VsyncPoints, ringVars, genVars,
              flagVars, clientVars
<1>3. CASE ClearOld
  <2>1. dirtyClearCount' \in 0..currentPanPhase /\ buffer' \in [Slots -> Nat \cup {Clean}]
    BY <1>0, <1>1, <1>3 DEF VInv, TypeOK, Counters, ClearOld, giveBack, clearDirtyBuffer,
       positive
  <2>. QED  BY <1>1, <1>3, <2>1 DEF TypeOK, ClearOld, VsyncPoints, notifyGeneratorThread,
              flagVars, clientVars
<1>4. CASE Settle
  <2>1. /\ dirtyClearCount' \in 0..currentPanPhase /\ buffer' \in [Slots -> Nat \cup {Clean}]
        /\ previousPanPhase' \in -1..currentPanPhase - 1
        /\ generatorNotified' \in BOOLEAN
    <3>1. CASE previousPanPhase >= 0
      <4>1. /\ buffer' = [buffer EXCEPT ![normPhase(previousPanPhase)] = Clean]
            /\ dirtyClearCount' = dirtyClearCount + 1 /\ previousPanPhase' = -1
            /\ generatorNotified'
        BY <1>4, <3>1 DEF Settle, giveBack, clearDirtyBuffer, notifyGeneratorThread
      <4>2. dirtyClearCount + 1 = currentPanPhase
        BY <1>0, <1>4, <3>1 DEF VInv, Counters, Settle
      <4>3. buffer' \in [Slots -> Nat \cup {Clean}]
        BY <1>1, <4>1 DEF TypeOK
      <4>4. generatorNotified' \in BOOLEAN
        BY <1>4, <3>1 DEF Settle, notifyGeneratorThread
      <4>. QED  BY <1>0, <4>1, <4>2, <4>3, <4>4
    <3>2. CASE ~(previousPanPhase >= 0)
      BY <1>1, <1>4, <3>2 DEF TypeOK, Settle
    <3>. QED  BY <3>1, <3>2
  <2>. QED  BY <1>1, <1>4, <2>1 DEF TypeOK, Settle, VsyncPoints, flagVars, clientVars
<1>5. CASE Rest \/ Leave
  <2>1. screen' \in Slots \cup {Empty}
    BY <1>1, <1>5, Positions DEF Rest, Leave, TypeOK
  <2>. QED  BY <1>1, <1>5, <2>1 DEF TypeOK, Rest, Leave, VsyncPoints, ringVars, genVars,
              flagVars, clientVars
<1>6. CASE Arm \/ Check \/ Sleep \/ TimeOut \/ BlankNow \/ ExitOrRepeat
  <2>1. vsync' \in VsyncPoints /\ shouldBlank' \in BOOLEAN /\ isBlanked' \in BOOLEAN
    BY <1>1, <1>6 DEF TypeOK, Arm, Check, Sleep, TimeOut, BlankNow, ExitOrRepeat, blank,
       VsyncPoints
  <2>2. UNCHANGED <<currentPanPhase, previousPanPhase, prevPhase, screen, ringVars, genVars,
                    flagVars, clientVars>>
    BY <1>6 DEF Arm, Check, Sleep, TimeOut, BlankNow, ExitOrRepeat
  <2>. QED  BY <1>1, <2>1, <2>2 DEF TypeOK, ringVars, genVars, flagVars, clientVars
<1>7. CASE Woken
  <2>1. isBlanked' \in BOOLEAN /\ screen' \in Slots \cup {Empty}
    BY <1>0, <1>1, <1>7, NormPhase DEF TypeOK, Woken, unblank
  <2>2. /\ currentPanPhase' \in 0..lastPanPhase
        /\ previousPanPhase' \in -1..currentPanPhase' - 1
        /\ prevPhase' \in -1..currentPanPhase' - 1
        /\ dirtyClearCount' \in 0..currentPanPhase'
    BY <1>0, <1>1, <1>7 DEF VInv, TypeOK, Woken, WokenForSomething, nothingToShow, ringVars
  <2>. QED  BY <1>1, <1>7, <2>1, <2>2 DEF TypeOK, Woken, VsyncPoints, ringVars, genVars,
              flagVars, clientVars
<1>8. CASE ClearScreen
  <2>1. /\ isBlanked' \in BOOLEAN /\ screen' \in Slots \cup {Empty}
        /\ buffer' \in [Slots -> Nat \cup {Clean}]
    BY <1>1, <1>8 DEF TypeOK, ClearScreen, blank
  <2>. QED  BY <1>1, <1>8, <2>1 DEF TypeOK, ClearScreen, VsyncPoints, genVars, clientVars
<1>. QED  BY <1>2, <1>3, <1>4, <1>5, <1>6, <1>7, <1>8 DEF VsyncRun

\* The types of what the generator and the client change.
LEMMA OtherTypes ==
  ASSUME VInv, \/ GeneratorRun \/ ClientRun \/ shutdown
               \/ \E fullRefresh \in BOOLEAN : actualUpdate(fullRefresh)
  PROVE  TypeOK'
<1>0. /\ currentPanPhase \in Nat /\ lastPanPhase \in Nat /\ dirtyClearCount \in Nat
      /\ previousPanPhase \in Int /\ prevPhase \in Int
      /\ currentPanPhase <= lastPanPhase
  BY Numbers DEF VInv
<1>1. TypeOK
  BY DEF VInv
<1>2. CASE Draw
  <2>1. buffer' \in [Slots -> Nat \cup {Clean}]
    BY <1>0, <1>1, <1>2 DEF TypeOK, Draw
  <2>2. left' \in 1..Phases /\ updates' \in 0..asked
    BY <1>1, <1>2, VsyncAssumption DEF VsyncAssumption, TypeOK, Draw
  <2>3. lastPanPhase' \in Nat /\ currentPanPhase \in 0..lastPanPhase'
    BY <1>0, <1>2 DEF Draw
  <2>. QED  BY <1>1, <1>2, <2>1, <2>2, <2>3 DEF TypeOK, Draw, vsyncVars, flagVars
<1>3. CASE Wake \/ NoWork \/ Quit
  BY <1>1, <1>3 DEF TypeOK, Wake, NoWork, Quit, vsyncVars, ringVars, flagVars, clientVars
<1>4. CASE TellVsync
  <2>1. vsync' \in VsyncPoints
    BY <1>1, <1>4 DEF TypeOK, TellVsync, notifyVsyncThread, VsyncPoints
  <2>. QED  BY <1>1, <1>4, <2>1 DEF TypeOK, TellVsync, ringVars, flagVars, clientVars
<1>5. CASE NotifyClear
  <2>1. vsync' \in VsyncPoints
    BY <1>1, <1>5 DEF TypeOK, NotifyClear, notifyVsyncThread, VsyncPoints
  <2>. QED  BY <1>1, <1>5, <2>1 DEF TypeOK, NotifyClear, ClientPoints, ringVars, genVars,
              flagVars
<1>6. CASE NotifyShutdown
  <2>1. vsync' \in VsyncPoints
    BY <1>1, <1>6 DEF TypeOK, NotifyShutdown, notifyVsyncThread, VsyncPoints
  <2>. QED  BY <1>1, <1>6, <2>1 DEF TypeOK, NotifyShutdown, ClientPoints, ringVars, genVars,
              flagVars
<1>7. CASE clear \/ JoinGenerator
  BY <1>1, <1>7 DEF TypeOK, clear, JoinGenerator, ClientPoints, vsyncVars, ringVars, genVars
<1>8. CASE Cleared \/ Updated \/ JoinVsync
  BY <1>1, <1>8 DEF TypeOK, Cleared, Updated, JoinVsync, ClientPoints, vsyncVars, ringVars,
     genVars, flagVars
<1>9. CASE shutdown
  BY <1>1, <1>9 DEF TypeOK, shutdown, notifyGeneratorThread, ClientPoints, vsyncVars, ringVars
<1>10. CASE \E fullRefresh \in BOOLEAN : actualUpdate(fullRefresh)
  <2>1. PICK fullRefresh \in BOOLEAN : actualUpdate(fullRefresh)
    BY <1>10
  <2>2. asked' \in 0..MaxUpdates /\ updates' \in 0..asked'
    BY <1>1, <2>1, VsyncAssumption DEF VsyncAssumption, TypeOK, actualUpdate
  <2>3. client' \in ClientPoints /\ generatorNotified' \in BOOLEAN
    BY <2>1 DEF actualUpdate, notifyGeneratorThread, ClientPoints
  <2>. QED  BY <1>1, <2>1, <2>2, <2>3 DEF TypeOK, actualUpdate, vsyncVars, ringVars, flagVars
<1>. QED  BY <1>1, <1>2, <1>3, <1>4, <1>5, <1>6, <1>7, <1>8, <1>9, <1>10
          DEF GeneratorRun, ClientRun

\* The invariant is kept by every step,
LEMMA VNext == VInv /\ [Next]_vars => VInv'
<1>. SUFFICES ASSUME VInv, [Next]_vars PROVE VInv'
  OBVIOUS
<1>1. CASE VsyncRun \/ TimeOut
  BY <1>1, VsyncCounters, VsyncTypes DEF VInv
<1>2. CASE \/ GeneratorRun \/ ClientRun \/ shutdown
           \/ \E fullRefresh \in BOOLEAN : actualUpdate(fullRefresh)
  BY <1>2, OtherCounters, OtherTypes DEF VInv
<1>3. CASE UNCHANGED vars
  <2>1. TypeOK'
    BY <1>3 DEF VInv, TypeOK, vars, vsyncVars, ringVars, genVars, flagVars, clientVars
  <2>2. Counters' /\ WokenForSomething'
    BY <1>3 DEF VInv, Counters, WokenForSomething, nothingToShow, vars, vsyncVars,
       ringVars, genVars, flagVars, clientVars
  <2>. QED  BY <2>1, <2>2 DEF VInv
<1>. QED  BY <1>1, <1>2, <1>3 DEF Next

\* so it holds throughout.
LEMMA VsyncInvariant == Spec => []VInv
<1>1. Init => VInv
  BY VInit
<1>2. VInv /\ [Next]_vars => VInv'
  BY VNext
<1>. QED  BY <1>1, <1>2, PTL DEF Spec

\* Type correctness: the counters of vsyncRoutine (Vsync.cpp) are numbers and
\* none runs ahead of the one it follows.
THEOREM VsyncTypeOK == Spec => []TypeOK
<1>1. VInv => TypeOK
  BY DEF VInv
<1>. QED  BY <1>1, VsyncInvariant, PTL

\* Each step shows a phase that was drawn, returns the buffer of one that was
\* shown, draws one into a free buffer, or leaves the ring alone.
LEMMA RingStep ==
  ASSUME VInv, [Next]_vars
  PROVE  [Ring!Draw \/ Ring!Show \/ Ring!Return]_Ring!ringVars
<1>0. /\ currentPanPhase \in Nat /\ lastPanPhase \in Nat /\ dirtyClearCount \in Nat
      /\ previousPanPhase \in Int /\ prevPhase \in Int
      /\ currentPanPhase <= lastPanPhase
  BY Numbers DEF VInv
<1>. USE DEF Ring!ringVars
<1>1. CASE PanNext
  BY <1>0, <1>1 DEF PanNext, nothingToShow, ringVars, Ring!Show
<1>2. CASE ClearOld
  <2>1. CASE positive
    <3>1. dirtyClearCount < currentPanPhase
      BY <1>0, <1>2, <2>1 DEF VInv, Counters, ClearOld, positive
    <3>. QED  BY <1>2, <2>1, <3>1 DEF ClearOld, giveBack, Ring!Return
  <2>2. CASE ~positive
    BY <1>2, <2>2 DEF ClearOld
  <2>. QED  BY <2>1, <2>2
<1>3. CASE Settle
  <2>1. CASE previousPanPhase >= 0
    <3>1. dirtyClearCount < currentPanPhase
      BY <1>0, <1>3, <2>1 DEF VInv, Counters, Settle
    <3>. QED  BY <1>3, <2>1, <3>1 DEF Settle, giveBack, Ring!Return
  <2>2. CASE ~(previousPanPhase >= 0)
    BY <1>3, <2>2 DEF Settle
  <2>. QED  BY <2>1, <2>2
<1>4. CASE Woken
  <2>1. CASE isBlanked /\ ~vsyncShutdownRequest /\ ~vsyncClearRequest
    <3>1. currentPanPhase < lastPanPhase
      BY <1>0, <1>4, <2>1 DEF VInv, WokenForSomething, Woken, nothingToShow
    <3>. QED  BY <1>4, <2>1, <3>1 DEF Woken, ringVars, Ring!Show
  <2>2. CASE ~(isBlanked /\ ~vsyncShutdownRequest /\ ~vsyncClearRequest)
    BY <1>4, <2>2 DEF Woken, ringVars
  <2>. QED  BY <2>1, <2>2
<1>5. CASE Rest \/ Arm \/ Check \/ Sleep \/ TimeOut \/ BlankNow \/ Leave \/ ClearScreen
           \/ ExitOrRepeat
  BY <1>5 DEF Rest, Arm, Check, Sleep, TimeOut, BlankNow, Leave, ClearScreen,
     ExitOrRepeat, ringVars
<1>6. CASE Draw
  BY <1>6 DEF Draw, freeBuffer, vsyncVars, Ring!Draw
<1>7. CASE Wake \/ TellVsync \/ NoWork \/ Quit
  BY <1>7 DEF Wake, TellVsync, NoWork, Quit, vsyncVars, ringVars
<1>8. CASE ClientRun \/ shutdown \/ \E fullRefresh \in BOOLEAN : actualUpdate(fullRefresh)
  BY <1>8 DEF ClientRun, clear, NotifyClear, Cleared, Updated, JoinGenerator,
     NotifyShutdown, JoinVsync, shutdown, actualUpdate, vsyncVars, ringVars
<1>9. CASE UNCHANGED vars
  BY <1>9 DEF vars, vsyncVars, ringVars
<1>. QED  BY <1>1, <1>2, <1>3, <1>4, <1>5, <1>6, <1>7, <1>8, <1>9
          DEF Next, VsyncRun, GeneratorRun

\* The threads implement the ring: vsyncRoutine shows each phase once, in
\* turn, after it was drawn, and returns each buffer once, after it was shown,
\* whatever it is notified of, blanks, clears, or fails to do to the display.
THEOREM VsyncRingSafe == Spec => RingSafe
<1>1. Init => Ring!Init
  BY DEF Init, Ring!Init
<1>2. VInv /\ [Next]_vars => [Ring!Draw \/ Ring!Show \/ Ring!Return]_Ring!ringVars
  BY RingStep
<1>. QED  BY <1>1, <1>2, VsyncInvariant, PTL DEF Spec, RingSafe, Ring!Safe

\* Giving back the buffer of the oldest phase in use leaves those in use.
LEMMA GiveBackInUse ==
  ASSUME VInv, BuffersInUse, giveBack(dirtyClearCount), lastPanPhase' = lastPanPhase
  PROVE  BuffersInUse'
<1>0. dirtyClearCount \in Nat /\ lastPanPhase \in Nat
  BY Numbers DEF VInv
<1>1. buffer \in [Slots -> Nat \cup {Clean}]
  BY DEF VInv, TypeOK
<1>. SUFFICES ASSUME NEW i \in Slots, buffer'[i] # Clean
              PROVE  /\ normPhase(buffer'[i]) = i
                     /\ buffer'[i] \in dirtyClearCount'..lastPanPhase' - 1
  BY DEF BuffersInUse, normPhase
<1>2. i # normPhase(dirtyClearCount) /\ buffer'[i] = buffer[i]
  BY <1>1 DEF giveBack, clearDirtyBuffer
<1>3. normPhase(buffer[i]) = i /\ buffer[i] \in dirtyClearCount..lastPanPhase - 1
  BY <1>2 DEF BuffersInUse
<1>4. buffer[i] # dirtyClearCount
  BY <1>2, <1>3
<1>. QED  BY <1>0, <1>2, <1>3, <1>4 DEF giveBack

\* Drawing the next phase puts it in its place.
LEMMA DrawInUse ==
  ASSUME VInv, BuffersInUse, Draw
  PROVE  BuffersInUse'
<1>0. /\ dirtyClearCount \in Nat /\ lastPanPhase \in Nat /\ currentPanPhase \in Nat
      /\ currentPanPhase <= lastPanPhase /\ dirtyClearCount <= currentPanPhase
  BY Numbers DEF VInv, TypeOK
<1>1. buffer \in [Slots -> Nat \cup {Clean}]
  BY DEF VInv, TypeOK
<1>2. /\ buffer' = [buffer EXCEPT ![normPhase(lastPanPhase)] = lastPanPhase]
      /\ lastPanPhase' = lastPanPhase + 1 /\ dirtyClearCount' = dirtyClearCount
  BY DEF Draw
<1>. SUFFICES ASSUME NEW i \in Slots, buffer'[i] # Clean
              PROVE  /\ normPhase(buffer'[i]) = i
                     /\ buffer'[i] \in dirtyClearCount'..lastPanPhase' - 1
  BY DEF BuffersInUse, normPhase
<1>3. CASE i = normPhase(lastPanPhase)
  <2>1. buffer'[i] = lastPanPhase
    BY <1>1, <1>2, <1>3
  <2>. QED  BY <1>0, <1>2, <1>3, <2>1
<1>4. CASE i # normPhase(lastPanPhase)
  <2>1. buffer'[i] = buffer[i]
    BY <1>1, <1>2, <1>4
  <2>2. normPhase(buffer[i]) = i /\ buffer[i] \in dirtyClearCount..lastPanPhase - 1
    BY <2>1 DEF BuffersInUse
  <2>. QED  BY <1>0, <1>2, <2>1, <2>2
<1>. QED  BY <1>3, <1>4

\* No other step fills a buffer or moves the phases in use.
LEMMA InUseNext ==
  ASSUME VInv, BuffersInUse, [Next]_vars
  PROVE  BuffersInUse'
<1>1. CASE Draw
  BY <1>1, DrawInUse
<1>2. CASE ClearOld
  <2>1. CASE positive
    <3>1. prevPhase = dirtyClearCount /\ lastPanPhase' = lastPanPhase
      BY <1>2, <2>1, Numbers DEF VInv, Counters, ClearOld, positive
    <3>. QED  BY <1>2, <2>1, <3>1, GiveBackInUse DEF ClearOld
  <2>2. CASE ~positive
    BY <1>2, <2>2 DEF ClearOld, BuffersInUse, normPhase
  <2>. QED  BY <2>1, <2>2
<1>3. CASE Settle
  <2>1. CASE previousPanPhase >= 0
    <3>1. previousPanPhase = dirtyClearCount /\ lastPanPhase' = lastPanPhase
      BY <1>3, <2>1, Numbers DEF VInv, Counters, Settle
    <3>. QED  BY <1>3, <2>1, <3>1, GiveBackInUse DEF Settle
  <2>2. CASE ~(previousPanPhase >= 0)
    BY <1>3, <2>2 DEF Settle, BuffersInUse, normPhase
  <2>. QED  BY <2>1, <2>2
<1>4. CASE ClearScreen
  <2>1. \A i \in Slots : buffer'[i] \in {buffer[i], Clean}
    BY <1>4 DEF ClearScreen, VInv, TypeOK
  <2>2. lastPanPhase' = lastPanPhase /\ dirtyClearCount' = dirtyClearCount
    BY <1>4 DEF ClearScreen
  <2>. QED  BY <2>1, <2>2 DEF BuffersInUse, normPhase
<1>5. CASE UNCHANGED ringVars
  BY <1>5 DEF ringVars, BuffersInUse, normPhase
<1>6. CASE UNCHANGED vars
  BY <1>6 DEF vars, ringVars, BuffersInUse, normPhase
<1>7. CASE ~(Draw \/ ClearOld \/ Settle \/ ClearScreen \/ UNCHANGED vars)
  <2>1. UNCHANGED ringVars
    BY <1>7 DEF Next, VsyncRun, GeneratorRun, ClientRun, PanNext, Rest, Arm, Check, Sleep,
       TimeOut, BlankNow, Woken, Leave, ExitOrRepeat, Wake, TellVsync, NoWork, Quit, clear,
       NotifyClear, Cleared, Updated, JoinGenerator, NotifyShutdown, JoinVsync, shutdown,
       actualUpdate
  <2>. QED  BY <1>5, <2>1
<1>. QED  BY <1>1, <1>2, <1>3, <1>4, <1>6, <1>7

\* Only the buffers of the phases drawn and not yet returned hold anything,
\* each the phase that belongs there: every buffer vsync counts in
\* dirtyClearCount has been cleared (Vsync.cpp).
THEOREM VsyncBuffersInUse == Spec => []BuffersInUse
<1>1. Init => BuffersInUse
  BY DEF Init, BuffersInUse
<1>2. VInv /\ BuffersInUse /\ [Next]_vars => BuffersInUse'
  BY InUseNext
<1>. QED  BY <1>1, <1>2, VsyncInvariant, PTL DEF Spec

-----------------------------------------------------------------------------
(* What the display shows.                                                 *)

\* A number is its quotient and its rest.
LEMMA DivMod ==
  \A n \in Nat \ {0} : \A a \in Nat : a = n * (a \div n) + (a % n) /\ a \div n \in Int
OBVIOUS

\* Products with a factor.
LEMMA Times ==
  \A n \in Nat \ {0} : \A j, k \in Int :
    /\ k >= 1 => n * k >= n
    /\ k <= 0 => n * k <= 0
    /\ n * (j - k) = n * j - n * k
OBVIOUS

\* Two phases less than one turn of the ring apart have different places.
LEMMA OneTurn ==
  ASSUME NEW p \in Nat, NEW q \in Nat, p < q, q - p < Buffers
  PROVE  normPhase(p) # normPhase(q)
<1>0. Buffers \in Nat \ {0}
  BY VsyncAssumption DEF VsyncAssumption
<1>. SUFFICES ASSUME p % Buffers = q % Buffers PROVE FALSE
  BY DEF normPhase
<1>. DEFINE turn(i) == i \div Buffers
<1>1. /\ p = Buffers * turn(p) + (p % Buffers) /\ turn(p) \in Int
      /\ q = Buffers * turn(q) + (q % Buffers) /\ turn(q) \in Int
  BY <1>0, DivMod
<1>2. Buffers * turn(p) \in Int /\ Buffers * turn(q) \in Int
  BY <1>0, <1>1
<1>3. p % Buffers \in Int
  BY <1>0
<1>. HIDE DEF turn
<1>4. q - p = Buffers * turn(q) - Buffers * turn(p)
  BY <1>1, <1>2, <1>3
<1>5. q - p = Buffers * (turn(q) - turn(p))
  BY <1>0, <1>1, <1>4, Times
<1>6. turn(q) - turn(p) \in Int
  BY <1>1
<1>7. CASE turn(q) - turn(p) >= 1
  BY <1>0, <1>5, <1>6, <1>7, Times
<1>8. CASE turn(q) - turn(p) <= 0
  BY <1>0, <1>5, <1>6, <1>8, Times
<1>. QED  BY <1>6, <1>7, <1>8

\* The screen is cleared before the first update: until it is, nothing is
\* drawn.
Clearing == client \in {"clear", "notifyClear", "awaitClear"}

ClearedFirst ==
  /\ vsyncClearRequest => client \in {"notifyClear", "awaitClear"}
  /\ Clearing => updates = 0 /\ lastPanPhase = 0

\* Every phase drawn and not yet returned is in its buffer.
InPlace == \A p \in dirtyClearCount..lastPanPhase - 1 : buffer[normPhase(p)] = p

ShowInv == VInv /\ BuffersInUse /\ ClearedFirst /\ InPlace

\* A clear that is asked for comes before the next phase is drawn: every step keeps that.
LEMMA ClearedFirstNext == VInv /\ ClearedFirst /\ [Next]_vars => ClearedFirst'
<1>. SUFFICES ASSUME VInv, ClearedFirst, [Next]_vars PROVE ClearedFirst'
  OBVIOUS
<1>. USE DEF ClearedFirst, Clearing
<1>1. CASE VsyncRun \/ TimeOut
  BY <1>1 DEF VsyncRun, PanNext, ClearOld, Rest, Settle, Arm, Check, Sleep, TimeOut,
     BlankNow, Woken, Leave, ClearScreen, ExitOrRepeat, giveBack, ringVars, genVars,
     flagVars, clientVars
<1>2. CASE GeneratorRun
  <2>1. CASE Draw
    BY <2>1 DEF Draw, flagVars
  <2>2. CASE Wake \/ TellVsync \/ NoWork \/ Quit
    BY <2>2 DEF Wake, TellVsync, NoWork, Quit, vsyncVars, ringVars, flagVars, clientVars
  <2>. QED  BY <1>2, <2>1, <2>2 DEF GeneratorRun
<1>3. CASE ClientRun \/ shutdown \/ \E fullRefresh \in BOOLEAN : actualUpdate(fullRefresh)
  BY <1>3 DEF ClientRun, clear, NotifyClear, Cleared, Updated, JoinGenerator,
     NotifyShutdown, JoinVsync, shutdown, actualUpdate, vsyncVars, ringVars, flagVars
<1>4. CASE UNCHANGED vars
  BY <1>4 DEF vars, vsyncVars, ringVars, genVars, flagVars, clientVars
<1>. QED  BY <1>1, <1>2, <1>3, <1>4 DEF Next

\* The counters, as numbers in their order.
LEMMA InOrder ==
  ASSUME VInv
  PROVE  /\ currentPanPhase \in Nat /\ lastPanPhase \in Nat /\ dirtyClearCount \in Nat
         /\ dirtyClearCount <= currentPanPhase /\ currentPanPhase <= lastPanPhase
         /\ buffer \in [Slots -> Nat \cup {Clean}]
BY Numbers DEF VInv, TypeOK

\* Giving back the oldest phase in use leaves the others in their buffers.
LEMMA GiveBackInPlace ==
  ASSUME VInv, InPlace, giveBack(dirtyClearCount), lastPanPhase' = lastPanPhase,
         dirtyClearCount < lastPanPhase
  PROVE  InPlace'
<1>1. dirtyClearCount' = dirtyClearCount + 1
      /\ buffer' = [buffer EXCEPT ![normPhase(dirtyClearCount)] = Clean]
  BY DEF giveBack, clearDirtyBuffer
<1>. SUFFICES ASSUME NEW p \in dirtyClearCount'..lastPanPhase - 1
              PROVE  buffer'[normPhase(p)] = p
  BY DEF InPlace, normPhase
<1>2. /\ p \in dirtyClearCount..lastPanPhase - 1 /\ p \in Nat /\ p # dirtyClearCount
      /\ dirtyClearCount \in dirtyClearCount..lastPanPhase - 1
  BY <1>1, InOrder
<1>3. buffer[normPhase(p)] = p /\ buffer[normPhase(dirtyClearCount)] = dirtyClearCount
  BY <1>2 DEF InPlace
<1>4. normPhase(p) # normPhase(dirtyClearCount) /\ normPhase(p) \in Slots
  BY <1>2, <1>3, NormPhase
<1>. QED  BY <1>1, <1>3, <1>4, InOrder

\* The next phase is drawn into a buffer that holds none of those in use.
LEMMA DrawnFresh ==
  ASSUME VInv, BuffersInUse, InPlace, Draw
  PROVE  /\ buffer[normPhase(lastPanPhase)] = Clean
         /\ InPlace'
<1>0. /\ buffer' = [buffer EXCEPT ![normPhase(lastPanPhase)] = lastPanPhase]
      /\ lastPanPhase' = lastPanPhase + 1 /\ dirtyClearCount' = dirtyClearCount
      /\ lastPanPhase - dirtyClearCount < Buffers
  BY DEF Draw, freeBuffer
<1>1. Buffers \in Nat \ {0} /\ normPhase(lastPanPhase) \in Slots
  BY VsyncAssumption, NormPhase, InOrder DEF VsyncAssumption
<1>2. ASSUME NEW p \in dirtyClearCount..lastPanPhase - 1
      PROVE  normPhase(p) # normPhase(lastPanPhase) /\ p \in Nat
  BY <1>0, <1>1, OneTurn, InOrder
<1>3. buffer[normPhase(lastPanPhase)] = Clean
  <2>. SUFFICES ASSUME buffer[normPhase(lastPanPhase)] # Clean PROVE FALSE
    OBVIOUS
  <2>1. /\ normPhase(buffer[normPhase(lastPanPhase)]) = normPhase(lastPanPhase)
        /\ buffer[normPhase(lastPanPhase)] \in dirtyClearCount..lastPanPhase - 1
    BY <1>1 DEF BuffersInUse
  <2>. QED  BY <1>2, <2>1
<1>4. InPlace'
  <2>. SUFFICES ASSUME NEW p \in dirtyClearCount..lastPanPhase
                PROVE  buffer'[normPhase(p)] = p
    BY <1>0, InOrder DEF InPlace, normPhase
  <2>1. CASE p = lastPanPhase
    BY <1>0, <1>1, <2>1, InOrder
  <2>2. CASE p # lastPanPhase
    <3>1. p \in dirtyClearCount..lastPanPhase - 1
      BY <2>2, InOrder
    <3>. QED  BY <1>0, <1>2, <3>1, InOrder DEF InPlace
  <2>. QED  BY <2>1, <2>2
<1>. QED  BY <1>3, <1>4

\* A clear finds nothing drawn.
LEMMA NothingToClear ==
  ASSUME VInv, BuffersInUse, ClearedFirst, ClearScreen
  PROVE  \A i \in Slots : buffer'[i] = buffer[i]
<1>1. CASE UNCHANGED buffer
  BY <1>1
<1>2. CASE vsyncClearRequest /\ ~UNCHANGED buffer
  <2>1. lastPanPhase = 0
    BY <1>2 DEF ClearedFirst, Clearing
  <2>2. \A i \in Slots : buffer[i] = Clean
    BY <2>1, InOrder DEF BuffersInUse
  <2>3. buffer' = [i \in Slots |-> IF i \in 0..2 THEN Clean ELSE buffer[i]]
    BY <1>2 DEF ClearScreen
  <2>. QED  BY <2>2, <2>3
<1>. QED  BY <1>1, <1>2 DEF ClearScreen

\* The steps that change the ring.
LEMMA RingSteps ==
  ASSUME VInv, [Next]_vars
  PROVE  \/ Draw
         \/ /\ ClearOld /\ positive /\ prevPhase = dirtyClearCount
            /\ dirtyClearCount < lastPanPhase /\ giveBack(dirtyClearCount)
            /\ lastPanPhase' = lastPanPhase
         \/ /\ Settle /\ previousPanPhase = dirtyClearCount
            /\ dirtyClearCount < lastPanPhase /\ giveBack(dirtyClearCount)
            /\ lastPanPhase' = lastPanPhase
         \/ ClearScreen
         \/ UNCHANGED ringVars
<1>1. CASE ClearOld
  BY <1>1, Numbers DEF VInv, Counters, ClearOld, positive, ringVars
<1>2. CASE Settle
  BY <1>2, Numbers DEF VInv, Counters, Settle, ringVars
<1>3. CASE UNCHANGED vars
  BY <1>3 DEF vars
<1>4. CASE ~(Draw \/ ClearOld \/ Settle \/ ClearScreen \/ UNCHANGED vars)
  BY <1>4 DEF Next, VsyncRun, GeneratorRun, ClientRun, PanNext, Rest, Arm, Check, Sleep,
     TimeOut, BlankNow, Woken, Leave, ExitOrRepeat, Wake, TellVsync, NoWork, Quit, clear,
     NotifyClear, Cleared, Updated, JoinGenerator, NotifyShutdown, JoinVsync, shutdown,
     actualUpdate
<1>. QED  BY <1>1, <1>2, <1>3, <1>4

\* The invariant for the display is kept by every step,
LEMMA ShowNext == ShowInv /\ [Next]_vars => ShowInv'
<1>. SUFFICES ASSUME ShowInv, [Next]_vars PROVE ShowInv'
  OBVIOUS
<1>1. VInv' /\ BuffersInUse' /\ ClearedFirst'
  BY VNext, InUseNext, ClearedFirstNext DEF ShowInv
<1>2. InPlace'
  <2>1. CASE Draw
    BY <2>1, DrawnFresh DEF ShowInv
  <2>2. CASE /\ dirtyClearCount < lastPanPhase /\ giveBack(dirtyClearCount)
             /\ lastPanPhase' = lastPanPhase
    BY <2>2, GiveBackInPlace DEF ShowInv
  <2>3. CASE ClearScreen
    <3>1. \A i \in Slots : buffer'[i] = buffer[i]
      BY <2>3, NothingToClear DEF ShowInv
    <3>2. lastPanPhase' = lastPanPhase /\ dirtyClearCount' = dirtyClearCount
      BY <2>3 DEF ClearScreen
    <3>3. \A p \in dirtyClearCount..lastPanPhase - 1 : normPhase(p) \in Slots
      BY NormPhase, InOrder DEF ShowInv
    <3>. QED  BY <3>1, <3>2, <3>3 DEF ShowInv, InPlace, normPhase
  <2>4. CASE UNCHANGED ringVars
    BY <2>4 DEF ShowInv, InPlace, normPhase, ringVars
  <2>. QED  BY <2>1, <2>2, <2>3, <2>4, RingSteps DEF ShowInv
<1>. QED  BY <1>1, <1>2 DEF ShowInv

\* so it holds throughout.
LEMMA ShowInvariant == Spec => []ShowInv
<1>1. Init => ShowInv
  <2>1. Init => VInv
    BY VInit
  <2>2. Init => BuffersInUse /\ ClearedFirst /\ InPlace
    BY DEF Init, BuffersInUse, ClearedFirst, InPlace
  <2>. QED  BY <2>1, <2>2 DEF ShowInv
<1>. QED  BY <1>1, ShowNext, PTL DEF Spec

\* What a step does to the buffers and to the screen.
LEMMA ShownSteps ==
  ASSUME ShowInv, [Next]_vars
  PROVE  /\ \A i \in Slots : buffer[i] # Clean => buffer'[i] \in {buffer[i], Clean}
         /\ screen' \in Slots /\ screen' # screen /\ currentPanPhase' # currentPanPhase
              => buffer[screen'] = currentPanPhase
<1>1. \A i \in Slots : buffer[i] # Clean => buffer'[i] \in {buffer[i], Clean}
  <2>1. CASE Draw
    BY <2>1, DrawnFresh, InOrder DEF ShowInv, Draw
  <2>2. CASE giveBack(dirtyClearCount)
    BY <2>2, InOrder DEF ShowInv, giveBack, clearDirtyBuffer
  <2>3. CASE ClearScreen
    BY <2>3, NothingToClear DEF ShowInv
  <2>4. CASE UNCHANGED ringVars
    BY <2>4 DEF ringVars
  <2>. QED  BY <2>1, <2>2, <2>3, <2>4, RingSteps DEF ShowInv
<1>2. ASSUME currentPanPhase' # currentPanPhase, screen' # screen
      PROVE  screen' = normPhase(currentPanPhase) /\ ~nothingToShow
  <2>1. CASE PanNext
    BY <1>2, <2>1 DEF PanNext, pan
  <2>2. CASE Woken
    BY <1>2, <2>2 DEF Woken, unblank, ShowInv, VInv, WokenForSomething
  <2>3. CASE ~(PanNext \/ Woken)
    <3>1. UNCHANGED currentPanPhase
      BY <2>3 DEF Next, VsyncRun, GeneratorRun, ClientRun, ClearOld, Rest, Settle, Arm,
         Check, Sleep, TimeOut, BlankNow, Leave, ClearScreen, ExitOrRepeat, Wake, Draw,
         TellVsync, NoWork, Quit, clear, NotifyClear, Cleared, Updated, JoinGenerator,
         NotifyShutdown, JoinVsync, shutdown, actualUpdate, vsyncVars, vars
    <3>. QED  BY <1>2, <3>1
  <2>. QED  BY <2>1, <2>2, <2>3
<1>3. ~nothingToShow => buffer[normPhase(currentPanPhase)] = currentPanPhase
  BY InOrder DEF ShowInv, InPlace, nothingToShow
<1>. QED  BY <1>1, <1>2, <1>3

\* No phase is drawn over one that was not given back, and the display moves
\* only to the phase whose turn it is, which lies drawn in the buffer it moves
\* to (vsyncRoutine and normPhase, Vsync.cpp), whether or not the display
\* fails and whichever thread is late.
THEOREM VsyncShowsWhatWasDrawn == Spec => ShowsWhatWasDrawn
<1>1. ShowInv /\ [Next]_vars =>
        [/\ \A i \in Slots : buffer[i] # Clean => buffer'[i] \in {buffer[i], Clean}
         /\ screen' \in Slots /\ screen' # screen /\ currentPanPhase' # currentPanPhase
              => buffer[screen'] = currentPanPhase]_vars
  BY ShownSteps
<1>. QED  BY <1>1, ShowInvariant, PTL DEF Spec, ShowsWhatWasDrawn

-----------------------------------------------------------------------------
(* A display that works and a prompt vsync thread.                         *)

\* Where vsync stands while it shows phases, and where the display moves on.
Panning == vsync \in {"pan", "clearOld"}
Leaving == vsync \in {"leave", "clearRequest", "exit"}

\* It pans a blanked display only while there is nothing to show, and what it
\* moves away from is no longer on the screen.
Lit ==
  /\ Panning /\ isBlanked => Clearing
  /\ Leaving /\ isBlanked => Clearing \/ vsyncShutdownRequest
  /\ vsync = "clearOld" => screen = normPhase(previousPanPhase)
  /\ vsync = "settle" => isBlanked \/ screen = Empty

LitInv == ShowInv /\ Lit

\* With a prompt vsync thread and a display that works, every step keeps that.
LEMMA LitStep ==
  ASSUME ~DisplayMayFail, PromptVsync, LitInv, [Next]_vars
  PROVE  Lit'
<1>. USE DEF Panning, Leaving
<1>0. ClearedFirst /\ Lit
  BY DEF LitInv, ShowInv
<1>1. CASE PanNext
  <2>1. ~isBlanked
    BY <1>0, <1>1, InOrder DEF LitInv, ShowInv, Lit, ClearedFirst, PanNext, nothingToShow
  <2>2. screen' = normPhase(currentPanPhase) /\ previousPanPhase' = currentPanPhase
    BY <1>1 DEF PanNext, pan
  <2>. QED  BY <1>1, <2>1, <2>2 DEF Lit, PanNext, normPhase
<1>2. CASE ClearOld \/ Rest \/ Settle \/ Arm \/ Check \/ Sleep \/ TimeOut \/ BlankNow \/ Leave
  BY <1>0, <1>2 DEF Lit, Clearing, ClearOld, Rest, Settle, Arm, Check, Sleep, TimeOut,
     BlankNow, Leave, pan, flagVars, clientVars
<1>3. CASE Woken
  BY <1>0, <1>3 DEF Lit, ClearedFirst, Clearing, Woken, unblank, flagVars, clientVars
<1>4. CASE ClearScreen
  BY <1>0, <1>4 DEF Lit, ClearedFirst, Clearing, ClearScreen, blank, clientVars
<1>5. CASE ExitOrRepeat
  BY <1>0, <1>5 DEF Lit, Clearing, ExitOrRepeat, flagVars, clientVars
<1>6. CASE GeneratorRun
  BY <1>0, <1>6 DEF Lit, Clearing, GeneratorRun, Wake, Draw, TellVsync, NoWork, Quit,
     notifyVsyncThread, normPhase, vsyncVars, flagVars, clientVars
<1>7. CASE Cleared
  BY <1>0, <1>7 DEF Lit, Clearing, Cleared, normPhase, vsyncVars
<1>8. CASE clear \/ NotifyClear \/ Updated \/ JoinGenerator \/ NotifyShutdown \/ JoinVsync
           \/ shutdown \/ \E fullRefresh \in BOOLEAN : actualUpdate(fullRefresh)
  BY <1>0, <1>8 DEF Lit, Clearing, clear, NotifyClear, Updated, JoinGenerator,
     NotifyShutdown, JoinVsync, shutdown, actualUpdate, notifyVsyncThread, normPhase,
     vsyncVars, flagVars
<1>9. CASE UNCHANGED vars
  BY <1>0, <1>9 DEF Lit, Clearing, normPhase, vars, vsyncVars, flagVars, clientVars
<1>. QED  BY <1>1, <1>2, <1>3, <1>4, <1>5, <1>6, <1>7, <1>8, <1>9
          DEF Next, VsyncRun, ClientRun

\* A phase was panned to, so something was drawn, and the screen is cleared.
LEMMA LitShown == ShowInv /\ Lit => ShownLit
<1>. SUFFICES ASSUME ShowInv, Lit, vsync = "clearOld", isBlanked PROVE FALSE
  BY DEF ShownLit
<1>1. lastPanPhase = 0
  BY DEF Lit, Panning, ShowInv, ClearedFirst
<1>2. currentPanPhase \in Nat /\ currentPanPhase <= lastPanPhase
  BY InOrder DEF ShowInv
<1>3. previousPanPhase = currentPanPhase - 1 /\ previousPanPhase >= 0
  BY DEF ShowInv, VInv, Counters
<1>. QED  BY <1>1, <1>2, <1>3

\* What is cleared is not on a lit screen.
LEMMA ClearedElsewhere ==
  ASSUME LitInv, [Next]_vars, NEW i \in Slots
  PROVE  ~ClearedOnScreen(i)
<1>. SUFFICES ASSUME buffer[i] # Clean, buffer'[i] = Clean, ~isBlanked, screen = i
              PROVE  FALSE
  BY DEF ClearedOnScreen
<1>0. ShowInv /\ VInv /\ Lit
  BY DEF LitInv, ShowInv
<1>1. CASE Draw
  BY <1>0, <1>1, InOrder DEF Draw, Clean
<1>2. CASE /\ ClearOld /\ positive /\ prevPhase = dirtyClearCount
           /\ dirtyClearCount < lastPanPhase /\ giveBack(dirtyClearCount)
  <2>1. i = normPhase(dirtyClearCount)
    BY <1>0, <1>2, InOrder DEF giveBack, clearDirtyBuffer
  <2>2. i = normPhase(previousPanPhase) /\ previousPanPhase = dirtyClearCount + 1
    BY <1>0, <1>2, InOrder, Numbers DEF Lit, VInv, Counters, ClearOld, positive
  <2>3. /\ dirtyClearCount \in dirtyClearCount..lastPanPhase - 1
        /\ previousPanPhase \in dirtyClearCount..lastPanPhase - 1
    BY <1>0, <1>2, <2>2, InOrder, Numbers DEF VInv, Counters, ClearOld, positive
  <2>4. /\ buffer[normPhase(dirtyClearCount)] = dirtyClearCount
        /\ buffer[normPhase(previousPanPhase)] = previousPanPhase
    BY <1>0, <2>3 DEF ShowInv, InPlace
  <2>. QED  BY <1>0, <2>1, <2>2, <2>4, InOrder
<1>3. CASE Settle
  <2>1. screen = Empty
    BY <1>0, <1>3 DEF Lit, Settle
  <2>. QED  BY <2>1, VsyncAssumption DEF VsyncAssumption, Empty, Slots
<1>4. CASE ClearScreen
  BY <1>0, <1>4, NothingToClear DEF ShowInv
<1>5. CASE UNCHANGED ringVars
  BY <1>5 DEF ringVars
<1>. QED  BY <1>0, <1>1, <1>2, <1>3, <1>4, <1>5, RingSteps

\* A display that works, with a vsync thread that is back at its wait when the
\* client sees its clear done, shows what it is given: the pan loop never pans
\* a blanked display, and no buffer is cleared while the display shows it
\* (vsyncRoutine, Vsync.cpp).
THEOREM VsyncLeavesScreenAlone ==
  ASSUME ~DisplayMayFail, PromptVsync
  PROVE  Spec => [][LeavesScreenAlone]_vars
<1>1. Init => Lit
  BY DEF Init, Lit, Panning, Leaving, Clearing
<1>2. ShowInv /\ Lit /\ [Next]_vars => Lit'
  BY LitStep DEF LitInv
<1>3. ShowInv /\ ShowInv' /\ Lit /\ Lit' /\ [Next]_vars => LeavesScreenAlone
  <2>. SUFFICES ASSUME ShowInv, ShowInv', Lit, Lit', [Next]_vars PROVE LeavesScreenAlone
    OBVIOUS
  <2>1. \A i \in Slots : ~ClearedOnScreen(i)
    BY ClearedElsewhere DEF LitInv
  <2>2. (ShowInv /\ Lit => ShownLit)'
    BY LitShown, PTL
  <2>. QED  BY <2>1, <2>2 DEF LeavesScreenAlone
<1>. QED  BY <1>1, <1>2, <1>3, ShowInvariant, PTL DEF Spec
=============================================================================
