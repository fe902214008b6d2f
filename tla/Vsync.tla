------------------------------- MODULE Vsync -------------------------------
(***************************************************************************)
(* The vsync thread of swtcon (vsyncRoutine), its clients (SwtconState) and *)
(* the generator thread, which is not in this repository: the program      *)
(* starts it at an address of the firmware's binary.                       *)
(*                                                                         *)
(* The generator draws the phases of an update into a ring of pan buffers  *)
(* and advances lastPanPhase; the vsync thread pans to them in turn,       *)
(* clears the buffer it panned away from, counts it in dirtyClearCount and *)
(* tells the generator.  When there is nothing to show it waits, blanks    *)
(* the display after a while, and unblanks it when there is work again.    *)
(* Requests to clear the screen and to shut down are flags that are set    *)
(* without the mutex of the condition the thread waits on.                 *)
(***************************************************************************)
EXTENDS Integers

CONSTANTS
  Buffers,          \* pan_buffers_count
  Phases,           \* phases of one update
  MaxUpdates,       \* bound: updates the client asks for
  DisplayMayFail,   \* environment: panning and unblanking may fail
  PromptVsync       \* environment: vsync, at real-time priority, is back at
                    \* its wait before the client's poll sees the cleared flag

ASSUME VsyncAssumption ==
  /\ Buffers \in Nat \ {0}
  /\ Phases \in Nat \ {0}
  /\ MaxUpdates \in Nat
  /\ DisplayMayFail \in BOOLEAN
  /\ PromptVsync \in BOOLEAN

VARIABLES
  \* vsync thread
  vsync,             \* where it stands
  currentPanPhase, previousPanPhase,
  prevPhase,         \* its local copy of previousPanPhase
  shouldBlank,       \* whether it waits with a time-out
  isBlanked,
  screen,            \* pan buffer the display shows
  \* shared with the generator
  buffer,            \* what each pan buffer holds
  lastPanPhase, dirtyClearCount,
  \* generator thread
  generator,         \* where it stands
  generatorNotified, \* generatorNotifyVar = 0
  left,              \* phases of the front update not yet drawn
  \* client
  client,            \* where it stands
  updates,           \* updates in globalMsgList2
  asked,             \* updates asked for so far
  vsyncClearRequest, vsyncShutdownRequest, generatorShutdownRequest

vsyncVars == <<vsync, currentPanPhase, previousPanPhase, prevPhase,
               shouldBlank, isBlanked, screen>>
ringVars  == <<buffer, lastPanPhase, dirtyClearCount>>
genVars   == <<generator, generatorNotified, left>>
flagVars  == <<vsyncClearRequest, vsyncShutdownRequest, generatorShutdownRequest>>
clientVars == <<client, updates, asked>>
vars == <<vsyncVars, ringVars, genVars, flagVars, clientVars>>

Clean    == -1                     \* content of a cleared pan buffer
Slots    == 0..Buffers - 1
Empty    == Buffers                \* the buffer behind the ring, pan 0x10
normPhase(i) == i % Buffers

VsyncPoints == {"pan", "clearOld", "rest", "settle", "arm", "check", "sleep",
                "wait", "timedOut", "woken", "leave", "clearRequest",
                "exit", "gone"}
ClientPoints == {"clear", "notifyClear", "awaitClear", "ready",
                 "awaitUpdate", "shutdown", "joinGenerator",
                 "notifyShutdown", "joinVsync", "done"}

\* The types, and that no counter runs ahead of the one it follows.
TypeOK ==
  /\ vsync \in VsyncPoints
  /\ lastPanPhase \in Nat
  /\ currentPanPhase \in 0..lastPanPhase
  /\ previousPanPhase \in -1..currentPanPhase - 1
  /\ prevPhase \in -1..currentPanPhase - 1
  /\ dirtyClearCount \in 0..currentPanPhase
  /\ shouldBlank \in BOOLEAN /\ isBlanked \in BOOLEAN
  /\ screen \in Slots \cup {Empty}
  /\ buffer \in [Slots -> Nat \cup {Clean}]
  /\ generator \in {"sleep", "work", "tellVsync", "gone"}
  /\ generatorNotified \in BOOLEAN
  /\ left \in 1..Phases
  /\ client \in ClientPoints
  /\ asked \in 0..MaxUpdates /\ updates \in 0..asked
  /\ vsyncClearRequest \in BOOLEAN
  /\ vsyncShutdownRequest \in BOOLEAN
  /\ generatorShutdownRequest \in BOOLEAN
----------------------------------------------------------------------------
\* vsyncMutex is held by the vsync thread from the top of its wait on, but
\* not while it waits; a notification needs it.
vsyncHoldsMutex == vsync \in {"check", "sleep", "timedOut"}

\* Mutant: the broadcast without the mutex.
notifyWithoutMutex == vsync' = IF vsync = "wait" THEN "check" ELSE vsync

notifyVsyncThread ==
  /\ ~vsyncHoldsMutex
  /\ vsync' = IF vsync = "wait" THEN "check" ELSE vsync

notifyGeneratorThread == generatorNotified' = TRUE

\* Mutant: clears the buffer after the one it is to clear.
clearNextBuffer(phase) == buffer' = [buffer EXCEPT ![normPhase(phase + 1)] = Clean]

clearDirtyBuffer(phase) == buffer' = [buffer EXCEPT ![normPhase(phase)] = Clean]

\* Clear the buffer of a phase and count it.
giveBack(phase) ==
  /\ clearDirtyBuffer(phase)
  /\ dirtyClearCount' = dirtyClearCount + 1

nothingToShow == currentPanPhase = lastPanPhase

\* Mutant: always.
alwaysPositive == TRUE

\* In the pan loop: whether a phase had been shown before.
positive == prevPhase >= 0

\* fb::pan; its failures are not looked at.
pan(position) ==
  screen' \in IF DisplayMayFail THEN {position, screen} ELSE {position}

\* fb::unblank of a blanked display.
unblank(position) ==
  \/ isBlanked' = FALSE /\ screen' = position
  \/ DisplayMayFail /\ UNCHANGED <<isBlanked, screen>>

\* Mutant: the display stays lit.
blankForgotten == UNCHANGED isBlanked

blank == isBlanked' = TRUE
----------------------------------------------------------------------------
(* The vsync thread. *)

\* The inner loop: pan to the next phase.
PanNext ==
  /\ vsync = "pan" /\ ~nothingToShow
  /\ pan(normPhase(currentPanPhase))
  /\ prevPhase' = previousPanPhase
  /\ previousPanPhase' = currentPanPhase
  /\ currentPanPhase' = currentPanPhase + 1
  /\ vsync' = "clearOld"
  /\ UNCHANGED <<shouldBlank, isBlanked, ringVars, genVars, flagVars, clientVars>>

\* The rest of that iteration: clear the buffer panned away from.
ClearOld ==
  /\ vsync = "clearOld"
  /\ IF positive THEN giveBack(prevPhase)
                 ELSE UNCHANGED <<buffer, dirtyClearCount>>
  /\ notifyGeneratorThread
  /\ vsync' = "pan"
  /\ UNCHANGED <<currentPanPhase, previousPanPhase, prevPhase, shouldBlank,
                 isBlanked, screen, lastPanPhase, generator, left, flagVars,
                 clientVars>>

\* Nothing left to show: move to the empty buffer.
Rest ==
  /\ vsync = "pan" /\ nothingToShow
  /\ IF isBlanked THEN UNCHANGED screen ELSE pan(Empty)
  /\ vsync' = "settle"
  /\ UNCHANGED <<currentPanPhase, previousPanPhase, prevPhase, shouldBlank,
                 isBlanked, ringVars, genVars, flagVars, clientVars>>

\* Clear the buffer of the last phase shown.
Settle ==
  /\ vsync = "settle"
  /\ IF previousPanPhase >= 0
     THEN /\ giveBack(previousPanPhase)
          /\ previousPanPhase' = -1
          /\ notifyGeneratorThread
     ELSE UNCHANGED <<buffer, dirtyClearCount, previousPanPhase, generatorNotified>>
  /\ vsync' = "arm"
  /\ UNCHANGED <<currentPanPhase, prevPhase, shouldBlank, isBlanked, screen,
                 lastPanPhase, generator, left, flagVars, clientVars>>

\* Take the mutex and set the time-out.  Without a delay (vsyncBlankDelay is 0
\* or the clock cannot be read) blank at once, and wait without a time-out.
Arm ==
  /\ vsync = "arm"
  /\ \/ shouldBlank' = TRUE  /\ UNCHANGED isBlanked
     \/ shouldBlank' = FALSE /\ blank
  /\ vsync' = "check"
  /\ UNCHANGED <<currentPanPhase, previousPanPhase, prevPhase, screen,
                 ringVars, genVars, flagVars, clientVars>>

\* The loop around the wait: leave it when there is something to do.
Check ==
  /\ vsync = "check"
  /\ vsync' = IF nothingToShow /\ ~vsyncShutdownRequest /\ ~vsyncClearRequest
              THEN "sleep" ELSE "woken"
  /\ UNCHANGED <<currentPanPhase, previousPanPhase, prevPhase, shouldBlank,
                 isBlanked, screen, ringVars, genVars, flagVars, clientVars>>

\* pthread_cond_wait, timed or not, gives the mutex up and waits.
Sleep ==
  /\ vsync = "sleep"
  /\ vsync' = "wait"
  /\ UNCHANGED <<currentPanPhase, previousPanPhase, prevPhase, shouldBlank,
                 isBlanked, screen, ringVars, genVars, flagVars, clientVars>>

\* The timed wait returns ETIMEDOUT, with the mutex.
TimeOut ==
  /\ vsync = "wait" /\ shouldBlank
  /\ vsync' = "timedOut"
  /\ UNCHANGED <<currentPanPhase, previousPanPhase, prevPhase, shouldBlank,
                 isBlanked, screen, ringVars, genVars, flagVars, clientVars>>

\* Blank, unless blanked already, and wait without a time-out from now on.
\* (hadClearReq is false here, only this thread takes the request back, and
\* so is wasBlanked where it is used.)
BlankNow ==
  /\ vsync = "timedOut"
  /\ shouldBlank' = FALSE
  /\ blank
  /\ vsync' = "check"
  /\ UNCHANGED <<currentPanPhase, previousPanPhase, prevPhase, screen,
                 ringVars, genVars, flagVars, clientVars>>

\* Show the next phase by unblanking, when blanked and nothing else is asked.
Woken ==
  /\ vsync = "woken"
  /\ IF isBlanked /\ ~vsyncShutdownRequest /\ ~vsyncClearRequest
     THEN /\ unblank(normPhase(currentPanPhase))
          /\ previousPanPhase' = currentPanPhase
          /\ currentPanPhase' = currentPanPhase + 1
     ELSE UNCHANGED <<isBlanked, screen, previousPanPhase, currentPanPhase>>
  /\ vsync' = "leave"
  /\ UNCHANGED <<prevPhase, shouldBlank, ringVars, genVars, flagVars, clientVars>>

\* Move to the empty buffer.
Leave ==
  /\ vsync = "leave"
  /\ IF isBlanked THEN UNCHANGED screen ELSE pan(Empty)
  /\ vsync' = "clearRequest"
  /\ UNCHANGED <<currentPanPhase, previousPanPhase, prevPhase, shouldBlank,
                 isBlanked, ringVars, genVars, flagVars, clientVars>>

\* Run the init waveform over the first three buffers, if there is one and
\* the device is open, blank, and zero the buffers; take the request back.
ClearScreen ==
  /\ vsync = "clearRequest"
  /\ vsyncClearRequest' = FALSE
  /\ \/ /\ vsyncClearRequest
        /\ blank
        /\ screen' \in IF DisplayMayFail THEN Slots \cup {Empty} ELSE {Empty}
        /\ buffer' = [i \in Slots |-> IF i \in 0..2 THEN Clean ELSE buffer[i]]
     \/ UNCHANGED <<isBlanked, screen, buffer>>
  /\ vsync' = "exit"
  /\ UNCHANGED <<currentPanPhase, previousPanPhase, prevPhase, shouldBlank,
                 lastPanPhase, dirtyClearCount, genVars, clientVars,
                 vsyncShutdownRequest, generatorShutdownRequest>>

\* The end of the outer loop.
ExitOrRepeat ==
  /\ vsync = "exit"
  /\ vsync' = IF vsyncShutdownRequest THEN "gone" ELSE "pan"
  /\ UNCHANGED <<currentPanPhase, previousPanPhase, prevPhase, shouldBlank,
                 isBlanked, screen, ringVars, genVars, flagVars, clientVars>>
----------------------------------------------------------------------------
(* The generator, external: what the code of this repository relies on. *)

\* It sleeps until it is notified ...
Wake ==
  /\ generator = "sleep" /\ generatorNotified
  /\ generatorNotified' = FALSE
  /\ generator' = "work"
  /\ UNCHANGED <<left, vsyncVars, ringVars, flagVars, clientVars>>

freeBuffer == lastPanPhase - dirtyClearCount < Buffers

\* ... draws the next phase of the first update into a free buffer, takes
\* the update off the list with its last phase ...
Draw ==
  /\ generator = "work" /\ updates > 0 /\ freeBuffer
  /\ buffer' = [buffer EXCEPT ![normPhase(lastPanPhase)] = lastPanPhase]
  /\ lastPanPhase' = lastPanPhase + 1
  /\ left' = IF left = 1 THEN Phases ELSE left - 1
  /\ updates' = IF left = 1 THEN updates - 1 ELSE updates
  /\ generator' = "tellVsync"
  /\ UNCHANGED <<dirtyClearCount, generatorNotified, vsyncVars, flagVars, client, asked>>

\* ... and tells the vsync thread.
TellVsync ==
  /\ generator = "tellVsync"
  /\ notifyVsyncThread
  /\ generator' = "work"
  /\ UNCHANGED <<currentPanPhase, previousPanPhase, prevPhase, shouldBlank,
                 isBlanked, screen, ringVars, generatorNotified, left,
                 flagVars, clientVars>>

\* Without work, or without a free buffer, it sleeps again.
NoWork ==
  /\ generator = "work" /\ ~(updates > 0 /\ freeBuffer)
  /\ ~generatorShutdownRequest
  /\ generator' = "sleep"
  /\ UNCHANGED <<generatorNotified, left, vsyncVars, ringVars, flagVars, clientVars>>

\* It ends when it is asked to, whatever is left to draw.
Quit ==
  /\ generator \in {"sleep", "work"} /\ generatorShutdownRequest
  /\ generator = "sleep" => generatorNotified
  /\ generator' = "gone"
  /\ UNCHANGED <<generatorNotified, left, vsyncVars, ringVars, flagVars, clientVars>>
----------------------------------------------------------------------------
(* The client: one thread calls swtcon_init, swtcon_update, swtcon_destroy. *)

clear ==
  /\ client = "clear"
  /\ vsyncClearRequest' = TRUE
  /\ client' = "notifyClear"
  /\ UNCHANGED <<vsyncShutdownRequest, generatorShutdownRequest, updates,
                 asked, vsyncVars, ringVars, genVars>>

NotifyClear ==
  /\ client = "notifyClear"
  /\ notifyVsyncThread
  /\ client' = "awaitClear"
  /\ UNCHANGED <<currentPanPhase, previousPanPhase, prevPhase, shouldBlank,
                 isBlanked, screen, ringVars, genVars, flagVars, updates, asked>>

Cleared ==
  /\ client = "awaitClear" /\ ~vsyncClearRequest
  /\ PromptVsync => vsync = "wait"
  /\ client' = "ready"
  /\ UNCHANGED <<updates, asked, vsyncVars, ringVars, genVars, flagVars>>

\* A full refresh waits until the list of updates is empty.
actualUpdate(fullRefresh) ==
  /\ client = "ready" /\ asked < MaxUpdates
  /\ updates' = updates + 1
  /\ asked' = asked + 1
  /\ notifyGeneratorThread
  /\ client' = IF fullRefresh THEN "awaitUpdate" ELSE "ready"
  /\ UNCHANGED <<generator, left, vsyncVars, ringVars, flagVars>>

Updated ==
  /\ client = "awaitUpdate" /\ updates = 0
  /\ client' = "ready"
  /\ UNCHANGED <<updates, asked, vsyncVars, ringVars, genVars, flagVars>>

shutdown ==
  /\ client = "ready"
  /\ generatorShutdownRequest' = TRUE
  /\ notifyGeneratorThread
  /\ client' = "joinGenerator"
  /\ UNCHANGED <<vsyncClearRequest, vsyncShutdownRequest, updates, asked,
                 generator, left, vsyncVars, ringVars>>

JoinGenerator ==
  /\ client = "joinGenerator" /\ generator = "gone"
  /\ vsyncShutdownRequest' = TRUE
  /\ client' = "notifyShutdown"
  /\ UNCHANGED <<vsyncClearRequest, generatorShutdownRequest, updates, asked,
                 vsyncVars, ringVars, genVars>>

NotifyShutdown ==
  /\ client = "notifyShutdown"
  /\ notifyVsyncThread
  /\ client' = "joinVsync"
  /\ UNCHANGED <<currentPanPhase, previousPanPhase, prevPhase, shouldBlank,
                 isBlanked, screen, ringVars, genVars, flagVars, updates, asked>>

JoinVsync ==
  /\ client = "joinVsync" /\ vsync = "gone"
  /\ client' = "done"
  /\ UNCHANGED <<updates, asked, vsyncVars, ringVars, genVars, flagVars>>
----------------------------------------------------------------------------
\* createThreads blanks the display and starts the threads; the first thing
\* the client does is clear.
Init ==
  /\ vsync = "pan"
  /\ currentPanPhase = 0 /\ previousPanPhase = -1 /\ prevPhase = -1
  /\ shouldBlank = FALSE /\ isBlanked = TRUE
  /\ screen = Empty
  /\ buffer = [i \in Slots |-> Clean]
  /\ lastPanPhase = 0 /\ dirtyClearCount = 0
  /\ generator = "sleep" /\ generatorNotified = FALSE
  /\ left = Phases
  /\ client = "clear"
  /\ updates = 0 /\ asked = 0
  /\ vsyncClearRequest = FALSE
  /\ vsyncShutdownRequest = FALSE
  /\ generatorShutdownRequest = FALSE

VsyncRun == PanNext \/ ClearOld \/ Rest \/ Settle \/ Arm \/ Check \/ Sleep
            \/ BlankNow \/ Woken \/ Leave \/ ClearScreen \/ ExitOrRepeat
GeneratorRun == Wake \/ Draw \/ TellVsync \/ NoWork \/ Quit
ClientRun == clear \/ NotifyClear \/ Cleared \/ Updated \/ JoinGenerator
             \/ NotifyShutdown \/ JoinVsync

Next == \/ VsyncRun \/ TimeOut
        \/ GeneratorRun
        \/ ClientRun \/ shutdown
        \/ \E fullRefresh \in BOOLEAN : actualUpdate(fullRefresh)

Spec == Init /\ [][Next]_vars

\* Three threads that run when they can, and a clock.  The client may leave
\* an update or the shutdown out.
FairSpec == Spec /\ WF_vars(VsyncRun) /\ WF_vars(TimeOut)
                 /\ WF_vars(GeneratorRun) /\ WF_vars(ClientRun)
----------------------------------------------------------------------------
(* Properties. *)

\* The ring the two threads promise each other.
Ring == INSTANCE PanRing WITH drawn <- lastPanPhase, shown <- currentPanPhase,
                              returned <- dirtyClearCount

\* The threads keep the promise of the ring: vsync, which advances the phase
\* shown in two places (the pan loop and after unblanking) and counts buffers
\* given back in two others, shows and returns every phase once, and none
\* that was not drawn or shown.
RingSafe == Ring!Safe

\* Every buffer is clean but those of the phases drawn and not yet returned.
BuffersInUse ==
  \A i \in Slots : buffer[i] # Clean =>
    /\ normPhase(buffer[i]) = i
    /\ buffer[i] \in dirtyClearCount..lastPanPhase - 1

\* No phase is drawn over one that was not given back (a buffer that holds a
\* phase only ever becomes clean), and when the display moves along the ring,
\* it is to the phase whose turn it is, and that was drawn.
ShowsWhatWasDrawn ==
  [][/\ \A i \in Slots : buffer[i] # Clean => buffer'[i] \in {buffer[i], Clean}
     /\ screen' \in Slots /\ screen' # screen /\ currentPanPhase' # currentPanPhase
          => buffer[screen'] = currentPanPhase]_vars

\* A buffer is cleared while the display, lit, shows it.
ClearedOnScreen(i) ==
  buffer[i] # Clean /\ buffer'[i] = Clean /\ ~isBlanked /\ screen = i

\* The pan loop never pans a blanked display, as it does not unblank: there
\* is nothing to show until vsync has unblanked.
ShownLit == vsync = "clearOld" => ~isBlanked

\* What a step of a display that works, with vsync back at its wait in time,
\* leaves alone: nothing is panned blanked, nothing cleared while it is shown.
LeavesScreenAlone == ShownLit' /\ \A i \in Slots : ~ClearedOnScreen(i)

\* Every phase drawn is shown and its buffer given back, unless vsync is told
\* to end before that.
AllFlushed == []<>(Ring!Flushed \/ vsyncShutdownRequest)

\* Nobody waits for ever: a clear returns although its request is set outside
\* the mutex; so does a full refresh, as the generator, which waits for free
\* buffers, and vsync, which waits for phases, do not wait for each other; the
\* shutdown joins both threads; and every phase is shown.
EveryCallReturns ==
  /\ client = "awaitClear" ~> client = "ready"
  /\ client = "awaitUpdate" ~> client = "ready"
  /\ client = "joinGenerator" ~> client = "done"
  /\ AllFlushed

\* A lit display is not left without anything to show: it is blanked after
\* the delay, whatever notifications came in the meantime.
BlanksWhenIdle == []<>(isBlanked \/ ~nothingToShow \/ vsync = "gone")
============================================================================
