-------------------------------- MODULE Pages --------------------------------
(***************************************************************************)
(* The pages of the calculator emulator (apps/tilem/main.cpp) in rMlib's   *)
(* Navigator: the calculator itself and, when its ROM cannot be loaded, a  *)
(* dialog that offers to download it.  A page is shown by pushing an entry *)
(* with a promise; popping it sets the promise, and what was given to then *)
(* of its future runs inside pop.  The tree that takes the input is the    *)
(* one of the last rebuild, and its gesture detectors remember which       *)
(* finger they follow.                                                     *)
(*                                                                         *)
(* Places are buttons, as layout and drawing are left out.  Moves, keys    *)
(* and the keypad's own input (module Keypad) do not matter to the pages.  *)
(***************************************************************************)
EXTENDS Naturals, SequencesExt

CONSTANTS Fingers,     \* ids of touches; the screen gives each once
          Pen,         \* the id of the pen, which is always the same
          NoPointer,   \* currentId when no finger is followed
          MaxEvents    \* bound: presses and lifts in one pass of the loop

ASSUME PagesAssumption ==
  /\ Pen \notin Fingers /\ NoPointer \notin Fingers \cup {Pen}
  /\ MaxEvents \in Nat

VARIABLES
  place,       \* where runApp stands
  stopping,    \* mShouldStop
  entries,     \* Navigator::State::entries
  marked,      \* whether the navigator needs to be rebuilt
  shown,       \* pages of the render objects, from the bottom to the top
  currentId,   \* the pointer that the detector of each button follows
  popupTimer,  \* whether it is pending
  startTimer,  \* whether the timer of the download dialog is pending
  mCalc,       \* whether the calculator was loaded
  rom,         \* whether there is a ROM that can be loaded
  down,        \* pointers on the glass
  used,        \* fingers so far
  handled      \* events in this pass

glass     == <<down, used>>
calcVars  == <<popupTimer, mCalc>>
treeVars  == <<shown, currentId, startTimer>>
pagesVars == <<place, stopping, entries, marked, treeVars, calcVars, rom, glass, handled>>

Pointers == Fingers \cup {Pen}
PageNames == {"calculator", "error", "download"}

\* The buttons, and the pages they are on.
Buttons == {"X", "Download", "Exit"}
pageOf(button) == IF button = "X" THEN "calculator" ELSE "error"

\* What happens when the promise of a page is set: nothing, the continuation
\* that pushes the download dialog, or the one that loads the calculator again.
Continuations == {"none", "push", "init"}

\* An entry's builder refers to the widget of the calculator that was current
\* when it was made; its age is the number of rebuilds since then.
Entry == [page : PageNames, then : Continuations, age : 0..2]

PagesTypeOK ==
  /\ place \in {"rebuild", "timers", "input", "ended", "undefined"}
  /\ stopping \in BOOLEAN /\ marked \in BOOLEAN
  /\ entries \in Seq(Entry) /\ shown \in Seq(PageNames)
  /\ currentId \in [Buttons -> Pointers \cup {NoPointer}]
  /\ popupTimer \in BOOLEAN /\ startTimer \in BOOLEAN
  /\ mCalc \in BOOLEAN /\ rom \in BOOLEAN
  /\ down \subseteq Pointers /\ used \subseteq Fingers
  /\ handled \in 0..MaxEvents

OnTop(page) == shown # <<>> /\ Last(shown) = page

-----------------------------------------------------------------------------
(* CalcState, and the navigator as it uses it.                             *)

\* CalcState::init loads the calculator, or has the error dialog popped up as
\* soon as timers are checked.
init(loads) == mCalc' = loads /\ popupTimer' = ~loads

\* Mutant: entries are changed behind the navigator's back.
pushUnmarked(base, page, then, age) ==
  /\ entries' = Append(base, [page |-> page, then |-> then, age |-> age])
  /\ UNCHANGED marked

\* push, and the then of the future it returns.
push(base, page, then, age) ==
  /\ entries' = Append(base, [page |-> page, then |-> then, age |-> age])
  /\ marked' = TRUE

\* Mutant: the entry is read and left where it is.
withTop == entries

withoutTop == Front(entries)

\* Mutant: the entries are popped behind the navigator's back.
popUnmarked(loads) ==
  LET back == Last(entries) IN
  /\ entries # <<>>
  /\ entries' = IF back.then = "push"
                  THEN Append(withoutTop, [page |-> "download", then |-> "init", age |-> back.age])
                  ELSE withoutTop
  /\ IF back.then = "init" THEN init(loads) ELSE UNCHANGED calcVars
  /\ UNCHANGED marked

\* pop takes the last of the entries, whatever the tree shows, and sets its
\* promise; the continuation may push the next page from inside.  The page of
\* the calculator, the first of the entries, is popped like any other.
pop(loads) ==
  LET back == Last(entries) IN
  /\ entries # <<>>
  /\ IF back.then = "push" THEN push(withoutTop, "download", "init", back.age)
     ELSE entries' = withoutTop /\ marked' = TRUE
  /\ IF back.then = "init" THEN init(loads) ELSE UNCHANGED calcVars

-----------------------------------------------------------------------------
(* One pass of runApp: rebuild, timers, input.                             *)

\* A child of the stack keeps its render object, and with it its state, if a
\* page of the same type is built at the same position.
updated(page) ==
  \E i \in DOMAIN shown \cap DOMAIN entries : shown[i] = page /\ entries[i].page = page

Built(page) == \E i \in DOMAIN entries : entries[i].page = page

\* The navigator builds all pages.  The state of a new one is initialised, the
\* state of one that is gone is destroyed, and its timer with it.  Of no entries
\* an empty stack is built, which is what is left when the calculator is gone.
Rebuild ==
  /\ place = "rebuild" /\ ~stopping /\ marked
  /\ place' = "timers" /\ marked' = FALSE
  /\ shown' = [i \in DOMAIN entries |-> entries[i].page]
  /\ currentId' = [b \in Buttons |-> IF updated(pageOf(b)) THEN currentId[b] ELSE NoPointer]
  /\ startTimer' = (Built("download") /\ (updated("download") => startTimer))
  /\ IF ~Built("calculator") THEN popupTimer' = FALSE /\ mCalc' = FALSE
     ELSE IF updated("calculator") THEN UNCHANGED calcVars ELSE init(rom)
  /\ entries' = [i \in DOMAIN entries |->
       IF entries[i].page = "calculator" \/ entries[i].age = 2 THEN entries[i]
       ELSE [entries[i] EXCEPT !.age = @ + 1]]
  /\ UNCHANGED <<stopping, rom, glass, handled>>

NothingToRebuild ==
  /\ place = "rebuild" /\ ~stopping /\ ~marked
  /\ place' = "timers"
  /\ UNCHANGED <<stopping, entries, marked, treeVars, calcVars, rom, glass, handled>>

\* The timer of CalcState::init.
PopUp ==
  /\ place = "timers" /\ popupTimer
  /\ popupTimer' = FALSE
  /\ push(entries, "error", "push", 0)
  /\ UNCHANGED <<place, stopping, treeVars, mCalc, rom, glass, handled>>

\* The timer of the download dialog.  wget leaves a ROM, or a file that cannot
\* be loaded, and the dialog is popped.
Download ==
  /\ place = "timers" /\ startTimer
  /\ startTimer' = FALSE
  /\ rom' \in BOOLEAN
  /\ pop(rom')
  /\ UNCHANGED <<place, stopping, shown, currentId, glass, handled>>

TimersDone ==
  /\ place = "timers" /\ ~popupTimer /\ ~startTimer
  /\ place' = "input" /\ handled' = 0
  /\ UNCHANGED <<stopping, entries, marked, treeVars, calcVars, rom, glass>>

InputHandled ==
  /\ place = "input"
  /\ place' = "rebuild"
  /\ UNCHANGED <<stopping, entries, marked, treeVars, calcVars, rom, glass, handled>>

Leave ==
  /\ place = "rebuild" /\ stopping
  /\ place' = "ended"
  /\ UNCHANGED <<stopping, entries, marked, treeVars, calcVars, rom, glass, handled>>

-----------------------------------------------------------------------------
(* Input goes to the page on top of the tree, and there to each detector.  *)

\* A detector that follows no pointer follows the one that goes down on it.
Press(id, buttons) ==
  /\ place = "input" /\ handled < MaxEvents
  /\ id \in Pointers \ (down \cup used)
  /\ down' = down \cup {id} /\ used' = used \cup ({id} \cap Fingers)
  /\ currentId' = [b \in Buttons |->
       IF b \in buttons /\ OnTop(pageOf(b)) /\ currentId[b] = NoPointer THEN id ELSE currentId[b]]
  /\ handled' = handled + 1
  /\ UNCHANGED <<place, stopping, entries, marked, shown, startTimer, calcVars, rom>>

\* The buttons that are tapped when pointer id is lifted, wherever that is.
tapped(id) == {b \in Buttons : OnTop(pageOf(b)) /\ currentId[b] = id}

\* Mutant: the detector goes on following the pointer.
followedOn(id) == currentId

released(id) ==
  [b \in Buttons |-> IF b \in tapped(id) THEN NoPointer ELSE currentId[b]]

Lift(id) ==
  /\ place = "input" /\ handled < MaxEvents
  /\ id \in down
  /\ down' = down \ {id}
  /\ currentId' = released(id)
  /\ stopping' = (stopping \/ tapped(id) \cap {"X", "Exit"} # {})
  /\ IF "Download" \in tapped(id) THEN pop(rom) ELSE UNCHANGED <<entries, marked, calcVars>>
  /\ handled' = handled + 1
  /\ UNCHANGED <<place, shown, startTimer, rom, used>>

\* A tap on "Download" when no entry is left: back() of an empty vector, from
\* which on the behaviour of the program is undefined.
PopNothing(id) ==
  /\ place = "input" /\ handled < MaxEvents
  /\ id \in down /\ "Download" \in tapped(id)
  /\ entries = <<>>
  /\ place' = "undefined"
  /\ UNCHANGED <<stopping, entries, marked, treeVars, calcVars, rom, glass, handled>>

\* SIGINT or SIGTERM.
stop ==
  /\ place \notin {"ended", "undefined"}
  /\ stopping' = TRUE
  /\ UNCHANGED <<place, entries, marked, treeVars, calcVars, rom, glass, handled>>

PagesInit ==
  /\ place = "rebuild" /\ stopping = FALSE /\ marked = TRUE
  /\ entries = <<[page |-> "calculator", then |-> "none", age |-> 0]>>
  /\ shown = <<>> /\ currentId = [b \in Buttons |-> NoPointer]
  /\ popupTimer = FALSE /\ startTimer = FALSE /\ mCalc = FALSE /\ rom \in BOOLEAN
  /\ down = {} /\ used = {} /\ handled = 0

RunApp ==
  \/ Rebuild \/ NothingToRebuild \/ PopUp \/ Download \/ TimersDone
  \/ InputHandled \/ Leave

PagesNext ==
  \/ RunApp \/ stop
  \/ \E id \in Pointers : Lift(id) \/ PopNothing(id) \/ \E b \in Buttons : Press(id, {b})
  \/ \E id \in Pointers : Press(id, {})

PagesSpec == PagesInit /\ [][PagesNext]_pagesVars

-----------------------------------------------------------------------------
\* A builder is run only while the widget it refers to exists: a stateful
\* widget keeps the widgets of two rebuilds (StatefulWidget.h), and a dialog
\* does not outlive a second rebuild of the pages, on whatever way it is
\* answered, although the last dialog was made from a closure of the first.
ClosuresReferToLiveWidgets ==
  marked => \A i \in DOMAIN entries : entries[i].age <= 1

\* The buttons of a dialog that is shown follow no pointer that is gone, so
\* that each of them can be tapped: a lift that went to another page took the
\* dialog's detectors with it.
DialogButtonsAnswer ==
  \A b \in {"Download", "Exit"} :
    OnTop(pageOf(b)) /\ currentId[b] # NoPointer => currentId[b] \in down

\* The page of the calculator itself, the last of the entries, is lost in one
\* way only: by a third tap on "Download" in one pass, the first of which may
\* have been pressed before.  Two taps, or any number of them with a rebuild in
\* between, leave it in place, although every pop takes what is last.
ThreeTapsToLoseIt ==
  [][entries # <<>> /\ entries' = <<>> => handled' >= 5]_pagesVars

\* The user is not left alone with a calculator that does not run: as long as
\* its ROM cannot be loaded the dialog is shown again, on every way through
\* downloads that fail and taps that are counted twice - unless a third tap in
\* one pass has popped the calculator's page, with all that could ask again.
DialogComesUp ==
  shown # <<>> /\ ~mCalc ~> (mCalc \/ OnTop("error") \/ stopping \/ entries = <<>>)
=============================================================================
