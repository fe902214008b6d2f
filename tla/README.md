# rM2-stuff: specifications, model checking and proofs

rM2-stuff is a collection of programs and libraries for the reMarkable 2
tablet: a user-interface library (`libs/rMlib`), a replacement for the
display driver of the firmware (`libs/swtcon`), an application launcher
(`apps/rocket`), a terminal emulator (`apps/yaft`) and a calculator emulator
(`apps/tilem`). This directory holds TLA+ models of its stateful parts, the
configurations TLC checks them with, and proofs for TLAPS.

Paths below are relative to the root of the sources; `UI/` stands for
`libs/rMlib/include/UI/`.

    tlc -config LauncherDrafts.cfg MCLauncher.tla    # one of the runs below
    tlapm LauncherProofs.tla                         # one of the proof modules

## 1. The system

### Components, their state and their operations

| component | source | state | operations | modelled by |
|---|---|---|---|---|
| launcher | `apps/rocket/main.cpp`, `App.cpp`, `App.h` | list of apps, `runInfo` of each (pid, paused, shouldRemove), current app, visibility, sleep and inactivity countdown | `switchApp`, `show`, `hide`, `toggle`, `tick`, `startTimer`, `stopTimer`, `readApps`, `updateStoppedApps`; `App::launch`, `stop`, `pause`, `resume` | `Launcher` |
| SIGCHLD handler and deferred callbacks | `apps/rocket/main.cpp` (`cleanup`), `UI/AppContext.h` | vectors `stoppedChildren` and `doLaters` | the handler; `doLater`, `doAllLaters`, the swap in `updateStoppedApps` | `SignalLoop`, `ChildNotice` |
| timers | `UI/Timer.h`, `UI/AppContext.h` | priority queue of timers, handles | `addTimer`, `checkTimers`, `TimerHandle::disable`, `reset` | `Timers` |
| event loop | `libs/rMlib/include/UI.h` (`runApp`) | the order rebuild, wait, timers, laters, input | one iteration | the phases of `Launcher`, `SignalLoop`, `Pages` |
| futures, navigator, dialogs of the calculator | `UI/Future.h`, `UI/Navigator.h`, `apps/tilem/main.cpp` | promises and continuations, stack of pages | `then`, `setValue`, `push`, `pop`; `CalcState::init` and the timers and buttons of the dialogs | `Pages` |
| gesture detector | `UI/Gesture.h` | the finger it follows | `handleInput` | `Pages` |
| render tree | `UI/RenderObject.h`, `StatefulWidget.h`, `DynamicWidget.h`, `Stack.h` | rebuild, layout and draw flags; state and widgets of a stateful widget | `markNeedsRebuild`, `rebuild`, `layout`, `draw`, `cleanup` | rebuilding, in `Pages`; the rest planned |
| vsync thread and its clients | `libs/swtcon/Vsync.cpp`, `SwtconState.cpp`, `fb.cpp` | phase counters, pan buffers, blanking, requests | `vsyncRoutine`; `clear`, `actualUpdate`, `shutdown` | `Vsync`, `PanRing` |
| input devices | `libs/rMlib/Input.cpp` | entries of the slots of the touch panel, of the pen | `handleEvent` of `TouchDevice` and `PenDevice` | `Touch` |
| gesture controller | `libs/rMlib/Gesture.cpp` | slots of a gesture | `handleTouchDown`, `handleTouchUp` | which slots are down, in `YaftKeyboard` |
| keyboard | `apps/yaft/keyboard.cpp` | keys under fingers, modifiers, mouse button, layout | `handleEvents`, `updateRepeat`, `hide`, `show` | `YaftKeyboard` |
| terminal | `apps/yaft/terminal.cpp`, `ctrlseq/` | cells, cursor, margins, modes, tab stops, lines to draw | one operation per control function; `term_resize`, `refresh` | `Terminal` |
| parser | `apps/yaft/parse.c` | escape and UTF-8 state | `parse` of one byte, `push_esc` | `Parser` |
| terminal's main loop | `apps/yaft/main.cpp` | `child_alive` | fork, select, the SIGCHLD handler | `YaftMain` |
| keypad | `apps/tilem/main.cpp`, `emu/keypad.c` | keys, key of each pointer | `handleInput`, press and release, the ON interrupt | `Keypad` |
| link port | `emu/link.c` | two lines, link assist, cables | port reads and writes, time-out | `LinkPort`, `ByteLink` |
| flash memory | `emu/flash.c`, `emu/x4/` | command state, busy, locks | reads and writes, delay timer | `Flash` |
| processor's timers | `emu/z80.c` | three lists of timers in an array | set, add, remove, change of speed, `check_timers` | `Z80Timers`, `Alarms` |
| user timers | `emu/timers.c` | frequency, mode, counter of each | three ports, expiry | `UserTimers` |
| LCD driver | `emu/lcd.c` | memory, position, mode | control, read, write | `Lcd` |
| arithmetic of the processor | `emu/z80cmds.h` | accumulator, pairs, flags | sums, differences, rotations, shifts, DAA | `Alu` |

(`emu/` stands for `apps/tilem/emu/`.) Left out for good: pixels and drawing
(`Canvas`, `FrameBuffer`, `Layout`, `Text`, glyphs), waveform files, the other
instructions of the Z80, file formats and the tables of calculators other than
the one used, manual test programs (`tools/`), vendored image and font code.
`PROJECT.json` lists every one of them with the reason.

### How they interact

* Everything in an application runs on one thread. `runApp` rebuilds the
  widgets, waits in `select` for input or for the earliest timer, calls the
  timers that are due, calls what was left with `doLater`, and then dispatches
  the input to the widgets built before.
* Widgets hold **references** into the state of their owner (rocket's `App`s)
  from the rebuild until the input of the same iteration.
* Rocket **forks** each app into a process group of its own and stops and
  continues the group with signals. Children die at any time. **SIGCHLD**
  interrupts the main thread anywhere; its handler reaps the children, appends
  their pids to a vector, and a callback to `doLaters`.
* swtcon runs a **vsync thread**, a **generator thread** (code of the firmware,
  started at a fixed address) and the client's thread. They share phase
  counters, a list of updates, and three request flags; the vsync thread waits
  on a condition with a time-out.
* The kernel reports fingers **slot by slot**; a device collects what changed
  and hands it on when the report is complete. Widgets and yaft's keyboard
  remember which finger, or which slot, pressed what, and where an event lands
  decides who gets it.
* A navigator's page is a **closure** that refers to the widget it was made in;
  popping a page sets a promise whose continuation may push another one or
  load the calculator again, all inside the handler of one tap.
* Yaft reads the shell's output from a pseudo terminal in pieces of any length,
  so characters and sequences are cut anywhere; SIGCHLD tells it of the end.
* The emulated hardware is driven by port and memory accesses of any program
  and by the **processor's timers**, which call back in the middle of a walk
  over the timer lists. Two calculators on a cable see each other's lines late.

### What is hard, and what makes each part correct

*Launcher.* Taps, the power key, two kinds of timers, dying children and
vanishing draft files come in any order. Correct: the current app is one that
runs; every living child has exactly one `App`; apps other than the current
one are stopped; the launcher is hidden only behind an app that runs; an app
whose draft has gone stays in the list until its process is dead; the list on
the screen, to which the widgets hold references, loses nothing but such an
app; whatever hides the launcher ends the countdown to sleep, and none starts
behind an app but by the Sleep button of an old tree; a countdown has a timer
and can be stopped; the assertions in `App::pause` and `App::stop` hold.

*Handler.* It appends to vectors the interrupted code may be iterating,
swapping or clearing. Correct: no living child is given up; a child's death is
noticed exactly once, and eventually.

*Timers.* Callbacks add timers to the queue and disable timers in it while
`checkTimers` is between `top()` and `pop()`. Correct: what is popped is what
was checked; no timer is lost; the front is the earliest; a late loop does not
run a timer in a burst; each timer can be disabled; a due timer runs.

*vsync.* Counters are read and advanced without a lock, requests are set
outside the mutex of the condition, a time-out races a notification. Correct:
each phase is shown once and in turn, its buffer is cleared after it has left
the screen and reused only then; nothing is shown on a blanked display; nobody
waits for ever; an idle display is blanked.

*Dialogs.* Taps on the same button may be handled twice before the tree is
rebuilt, and timers run in between. Correct: the dialog comes up again as long
as there is no ROM, unless the page of the calculator was popped, which takes
three taps in one pass; the dialog's buttons answer, and no closure is used
after the widget it refers to is gone.

*Touches and keys.* A touch begins in one place and ends in another, layouts
change under it, two pointers share a key. Correct: a key that is down has its
pointer on the glass; one touch changes the layout once; the mouse button is up
when its finger is.

*Terminal and parser.* Correct: what changed is drawn; scrolling moves lines
whole and in order; a character lands where the text had come to; wide cells
stay whole; bytes are shown as the text they encode, whatever was cut off
before.

*Yaft's loop.* A signal comes at any point. Correct: yaft ends when its shell
does.

*Calculator.* Correct: bytes cross the link once and in order, with an error
told when one is given up; memory changes only by complete commands and is
reported done only then; timers ring in time, in order, at their pace, and
their lists stay sound; a counter agrees with its registers; a six-pixel cell
spares its neighbours; results and flags are those of arithmetic.

## 2. The modules

### Launcher (MCLauncher, LauncherProofs)

A callback runs to completion on the only thread and is one action; the
handler, the children, the user and the file system move in between. `phase`
is the position of `runApp` in its iteration.

| TLA+ | code |
|---|---|
| `apps`, `pidOf`, `paused`, `shouldRemove`, `currentAppPath`, `visible` | fields of `LauncherState` and `App::RunInfo`; `pidOf[p] = NoPid` is a `runInfo` of `nullopt` |
| `sleepCountdown`, `sleepTimer`, `liveTimers` | the countdown, whether the handle holds a timer, how many timers with the callback `tick` are enabled in the queue |
| `ui` | what the widgets of the last rebuild refer to |
| `proc`, `term`, `unheard`, `sigchld`, `drafts` | the operating system: processes, who was sent SIGTERM, who missed a SIGSTOP, the pending signal, draft files |
| `failedAsserts` | assertions that were false (the shipped build compiles them out and runs on) |
| `TapApp`, `TapKill`, `TapStop`, `TapSleep`, `PowerKey` | the callbacks of the widgets and the key: `switchApp`, `App::stop` with `stopTimer`, `toggle` |
| `CountTick`, `SleepTick`, `InactivityTick` | `tick` and the callback of the inactivity timer |
| `Cleanup`, `DoAllLaters` | the handler; `updateStoppedApps` |
| `Rebuild`, `WaitForInput`, `TimersChecked`, `InputHandled`, `Quit` | the steps of `runApp` |

Details that are easy to miss and are kept: a child that has not reached
`setpgid` yet does not get the signals sent to its group (`unheard`);
assigning the timer handle drops a timer without disabling it (`startTimer`);
`show()` in the middle of `updateStoppedApps` re-reads the drafts, so the order
of the dead apps in the vector matters (`first`); `fork` may fail after the
launcher was hidden (`ForkMayFail`); a widget of an app that was erased since
the rebuild reads freed memory (`TapStale`, phase `undefined`), and when the
list was only changed, the reference is to another element (`referents`).

The code goes wrong on widgets that an earlier event of the same iteration has
left behind, and the properties say how far. Two taps, on an app and on Sleep,
start a countdown behind the app that runs, and the device sleeps over it
(`SleepFromLauncher` excuses the step `TapSleep` and no other). A kill button
or an app's tile may refer to an element that was erased when the app's death
was noticed, or moved when one event hid the launcher and the next showed it
and read the drafts again (`TapStale`); `ListStands` says that nothing else
moves the list on screen: no draft does, and no app that exits unmarked.

Abstracted: an `App` is its path; names, icons, saved framebuffers and drawing
are left out. Pids are not reused. The inside of the handler and of
`doAllLaters` is one action here and the subject of `SignalLoop`.

### SignalLoop and ChildNotice (LoopProofs)

`SignalLoop` takes the same handler apart against the code it interrupts: the
`range-for` of `doAllLaters` with its cached end, the `clear()` after it, and
the `std::swap` of `updateStoppedApps`, which copies the fields of a vector
and then overwrites them. The handler runs whole, between any two of these
steps; whether an append moves a vector depends on its capacity and is a
nondeterministic choice. `QuietLaters` states the environment in which no
signal falls into `doAllLaters`: with it TRUE, handler and `doAllLaters` are
atomic towards each other, which is how `Launcher` treats them.

`ChildNotice` is what rocket promises about a child: launched, dead, noticed,
in this order and once (`Safe`), and noticed in the end (`Live`). `SignalLoop`
refers to it through the mapping `fate` (`Promise == INSTANCE ... WITH`):
`NoticedAfterDeath` is `Promise!Safe` and holds wherever the handler strikes;
`NoticesAll` is `Promise!Live` and holds in the quiet environment only.

### Timers (LoopProofs)

The queue of `AppContext` on a discrete clock. `checkTimers` is taken apart
into `CheckDisabled`/`Fire`, the callback (`AddTimer` and `Disable` are
possible in it, its own timer included), `Return` and `Pop`, because the code
looks at `top()` before and pops after the callback. The heap is represented
by what the code may rely on: its front is an element no later than any other,
and one that is added goes ahead only if it is earlier. A handle may be
assigned while it holds a timer, which then runs on with no handle. A clock bounded by
`Horizon` is enough for every order of `Durations`; all repeating timers have
one `Period`.

`Launcher` counts each timer due once per pass over the queue; `NoBurst` is the
reason that is right.

### Vsync and PanRing (MCVsync, VsyncProofs)

`PanRing` is the abstract ring: phases are drawn, shown and their buffers given
back, each once and in turn. `Vsync` is the code of `vsyncRoutine` split where
another thread may see a difference, with its client (`clear`, `actualUpdate`,
`shutdown`) and the generator, which is external and modelled by what this code
relies on: it draws only while fewer than `Buffers` phases are unreturned,
notifies the vsync thread after each phase, sleeps when it can do neither, and
ends when it is asked to. `Ring == INSTANCE PanRing WITH drawn <- lastPanPhase,
shown <- currentPanPhase, returned <- dirtyClearCount` is the refinement.

| TLA+ | code |
|---|---|
| `PanNext`, `ClearOld` | one turn of the pan loop (`Vsync.cpp:59-75`) |
| `Rest`, `Settle` | the empty buffer, the last buffer given back (77-86) |
| `Arm`, `Check`, `Sleep`, `TimeOut`, `BlankNow` | the wait (97-145); `vsyncHoldsMutex` is where the mutex is held |
| `Woken`, `Leave`, `ClearScreen`, `ExitOrRepeat` | unblanking with the next phase, clear, exit (149-206) |
| `clear`, `NotifyClear`, `Cleared` | `clear()`: the flag, the notification, the poll |
| `actualUpdate`, `Updated`; `shutdown` ... `JoinVsync` | `SwtconState.cpp:134-142`, `245-259` |

Environments are constants: `DisplayMayFail` (the results of panning and
unblanking are ignored by the code) and `PromptVsync`; `MCVsync` explores both
values, by an instance of the module, in one state space. Whether there is a
blanking delay is left open each time. `PromptVsync` is a statement about time:
the vsync thread runs at real-time priority 99 and is back at its wait before the client,
which polls once a millisecond, sees that the clear is done. Without it, an
update drawn in that short stretch would be panned by the loop at line 59,
which does not unblank, and would not be seen. `ScreenIsLeftAlone` is
therefore stated of the second environment only; the rest is not.

Not modelled: spurious wake-ups of the condition (they lead to the same check
as a notification), the temperature, waveforms, the pixels of an update and
the columns of a buffer that are dirty. Counters are unbounded; the mask `& 0xf`
of `normPhase` is `% Buffers` for the numbers that reach it.

### Pages (LoopProofs)

`Pages` composes the navigator, the futures, the stack of render objects and
the gesture detectors as the calculator's program uses them: `place` is where
`runApp` stands; `entries` are the navigator's pages with the continuation of
their promise, `shown` the pages of the tree that takes the input, which lags
behind until the next `Rebuild`. `PopUp` and `Download` are the two timers,
`Lift` is `handleInput` of an up event with the `onTap` of each detector that
followed it (`tapped`), `pop` runs the continuation as `Promise::setValue`
does. Which tree is kept (`updated`) follows `updateChildren` and
`DynamicWidget::update`: same position and same type. `age` counts the
rebuilds since a closure was made, as a stateful widget keeps two of its
widgets.

A second tap on "Download" in one pass pops the download dialog that the first
has just pushed: nothing is downloaded, and the user is asked again. A third
pops the page of the calculator itself. That is well defined: nobody waits for
its promise, the next build makes an empty stack, the calculator's state goes
with its timer, and the screen is left empty, without a dialog
(`ThreeTapsToLoseIt` says that it takes no less, `DialogComesUp` excuses it).
Only a fourth, `back()` of an empty vector, is undefined, and the model ends
there (`PopNothing`). The close button's detector may
follow a finger that is lifted over the dialog and then answers no other
finger; `DialogButtonsAnswer` is stated for the dialog.

### YaftMain

`main` of yaft from the fork to the end, with `sig_handler` between any two
steps. `select` is two steps (`EnterSelect`, then one of `TimeOut`,
`SelectInput`, `SelectOutput`), since a signal after the look at `child_alive`
and before the sleep interrupts nothing. `wait(NULL)` of the handler blocks
while the shell is only stopped.

### Touch, Keypad, YaftKeyboard (TouchProofs)

`Touch` is the kernel (what fingers and pen do, slot by slot) and the two
devices of `Input.cpp`, entry by entry: `TouchBegin`, `TouchEnd`, `TouchMove`
are the events of one slot, `Report` is `SYN_REPORT`, which sends off what
changed. Slot 0's entry does not know its slot until the kernel names it
(`Unnamed`). `lost` is set when the end of a touch is overwritten before it is
sent. `Keypad` and `YaftKeyboard` both extend it and take the events one by
one.

| TLA+ | code |
|---|---|
| `keysdown`, `onkey`, `keyPointers` | `TilemKeypad`, `KeypadRenderObject::keyPointers` |
| `keys` (code, place, slot, held, sticky), `shown`, `hidden` | `Keyboard::keys` and the layout they were made from |
| `mouseSlot`, `active` | the mouse button, the slots `gestureCtrlr` counts |
| `handleEvent`, `handleKeyEvent`, `handleScreenEvent`, `updateRepeat`, `initKeyMap` | the functions of these names |

Places are few: a key, another key, the terminal. When a key is due to repeat
is chance, as time passes at will.

### Terminal and Parser (TerminalProofs)

`term` is `struct terminal_t` with cells of a character and a width. Each
control function is an operator of its name; one action is one call of `parse`
for a printable character, a control character, or a finished sequence, and
`refresh` and `term_resize` come between any two. `Parser` turns bytes into
those calls; of an escape sequence's buffer it keeps what the parser asks.
A scroll so long that it would leave the memory is undefined (`Defined` bars
it). What a reader may not expect and the model shows: an offset larger than
the region moves lines outside of the margins; after the screen has shrunk the
cursor may be below it; a fold in origin mode counts the margin twice; `ESC SP
[` leaves the parser inside the sequence; a string (OSC, DCS) is broken off by
any byte above 127 and its rest is shown.

### Alu (Z80Proofs)

Operands and results as numbers modulo 256 or 65536, flags from single bits as
the macros find them, `correction` the table of DAA. The undocumented flags are
left out.

### LinkPort and ByteLink (LinkPortProofs)

`port` holds the lines and the link assist of both ends, `blacklinkSetLines`
carries the state of the lines over the cable at any later time, and a GrayLink
exchanges whole bytes. `ByteLink` (written, taken, at most two under way, in order) is
the abstract channel; `LinkMovesBytes` is its refinement, `BytesArrive` its
liveness under fairness of the two ends (`LinkFairness`).

### Flash (CalculatorProofs)

`heard` follows, apart from the code, how
much of each command was spelled, and `OnlyCommandsChange` holds the memory
against it. Bytes are sets of bits. As in the code, a program that starts during
the erase's waiting time takes the place of the erase, and a reset of the
calculator does not clear the override of a sector group.

### Z80Timers, Alarms (Z80Proofs), UserTimers, Lcd (CalculatorProofs)

`Z80Timers` keeps the array with its two sorted lists and its free list, as
links, and `check_timers` as single steps, so that callbacks may set, add and
remove timers in the middle. `Alarms` knows no lists: an alarm has time left,
rings when that is over, in order, and keeps its pace; `TimersKeepTime` is the
refinement (`Promise == INSTANCE Alarms WITH ...`). An instruction takes fewer
clocks than the `Window` of 10000 by which the code tells a deadline that has
passed from one that lies ahead (`TimersAssumption`). A change of speed rounds
what is left of a time in microseconds, to nothing if the new speed is less
than half of the old one and a clock is left; at 15 and 6 MHz, as of the real
machines, this happens. Such a timer rings after the next instruction, which
is why `Alarms!Run` lets one instruction pass over it (`Waits`). `UserTimers` is one of the three equal
timers against a counter that counts; `Lcd` is the position and the writes of
bytes and of cells of six pixels.

### The composed MC modules

`MCCalculator`, `MCApps` and `MCLoop` extend several components that share no
state. Their variable `part` says which of them works in a behaviour while the
others stay at their initial state, so TLC explores the sum of the state spaces
and each property is checked on the part it is about. Fairness is asked of the
part that works. No behaviour of a component is lost: nothing is shared, and
liveness properties of a part that does not work hold of its initial state
trivially, as they do in the code before it starts.

## 3. What is model-checked

| run | module | question | bounds |
|---|---|---|---|
| `launcher_drafts` | MCLauncher | The launcher's book-keeping while draft files come and go and sleep timers pile up: its apps agree with the processes, it hides only behind a running app, its list stands while it is shown, and a countdown runs on the screen but for the Sleep button of an old tree. | 2 apps, 2 pids, two events per iteration, drafts change, 2 sleep timers, countdown from 1 |
| `launcher_switch` | MCLauncher | Only the current app runs, and a dead child is noticed in the end, two that die together included: with forks that fail and two events in one iteration (the second acts on widgets older than the first). | 2 apps, 2 pids, drafts fixed, one sleep timer |
| `launcher_wake`, `launcher_pause`, `launcher_stop` | MCLauncher | violations, see section 4 | 1 or 2 apps |
| `loop` | MCLoop | The handler of rocket anywhere (no death is noticed early or twice) and outside `doAllLaters` only (every death is noticed); the timer queue under callbacks that add and disable timers; taps on the calculator's dialogs; yaft ends with its shell. | 3 pids, 3 callbacks; 3 timers, 1 handle, 3 instants; 2 fingers and the pen, 8 events in one pass; 2 reads of output |
| `signal_lost` | SignalLoop | violation, see section 4 | 2 pids, 2 callbacks |
| `vsync` | MCVsync | The ring stays in order, the right phase is shown, no lost wake-up and no deadlock, idle means blanked; nothing shown on a blanked display or cleared on the screen when the display works and vsync is prompt. | 2 buffers, 3 updates of 3 phases |
| `calculator` | MCCalculator | The link moves bytes as `ByteLink` says and delivers them; flash memory; the timer lists implement `Alarms`; user timers; cells of the LCD. | 2 bytes of 2 bits; 2 sectors; 3 of 4 timers, speeds 1 and 3; a counter of 3 ticks; 2 by 2 bytes of LCD memory |
| `apps` | MCApps | Keypad, keyboard, terminal, parser and arithmetic. | 2 slots, 2 touches and the pen, 3 places; 3 by 3 cells, 4 operations; 26 bytes; 14 operands, 2 instructions |
| `mouse`, `yaft_exit` | MCApps, YaftMain | violations, see section 4 | as above; 1 read |

Why these bounds are enough for the interesting cases:

* *Two apps and two pids* give one current and one other app, a switch between
  them, two that die together, and one erased while the other lives; as a pid
  is used once, an app that is relaunched and one that is launched late are
  there too.
* *Two events in an iteration* are one that changes what is shown or listed and
  one that is handled by the widgets of before; a third is handled by the same
  ones. The proofs have no bound on them.
* *Countdowns* of 1 expire at the next tick; longer ones, and any number of
  timers, are in the proofs. *Two timers* are one that the handle owns and one
  beyond its reach, which drives a stopped countdown below zero (followed down
  to `-CountdownDepth`).
* *Speeds* 1 and 3 round what is left both ways, to nothing too; with 1 and 2,
  which differ by no more than the half that is added, that never happens.
* *Three callbacks* put one before, at and behind the cached end of the loop.
* *Three timers* allow the one that is checked, the one its callback adds and
  the one that would be overtaken. Period 1 and delays 0 and 1 give ties.
* *Two buffers and updates of three phases* make the ring full and make the
  generator wait, and the counter go around more than once.
* *Eight events in one pass* are four taps: three pop all pages, and the fourth
  finds none; two fingers and the pen let one pointer be held while another taps.
* *Two bits and two bytes* have a first and a last bit and a byte under way
  while the next is written; the time-out may strike at each of them. *Three of
  four timers* are one in front, one behind and one in the middle of a list.
* *Two touches and the pen* press one key twice, or two keys, in any order of
  lifting; a third finger only repeats one of them.
* *Three by three cells* have margins that leave out a line, wide characters
  that do not fit, and a column between the first and the last; *four
  operations* set margins or a mode, place the cursor, and do two things there.
* *Twenty-six bytes* are the ends of every range of values the parser and the
  reference decoder tell apart; the fourteen operands lie at the ends of the
  nibbles, of the signed and unsigned range, and among decimal numbers.

`CHECK_DEADLOCK FALSE` is set where the modelled system may stop: rocket and
yaft may quit, undefined behaviour ends what is modelled, both threads of
swtcon are joined in the end, and bounds on operations end what can happen.

Each property of a passing run is accompanied by a mutant: an operator of the
same module marked "Mutant", a plausible slip in the code, under which TLC
finds the property violated.

### Fairness

* `Launcher`: `WF(Loop)`. The inactivity timer repeats every minute, so
  `select` returns and the loop goes round; callbacks return. `WF(Cleanup)`: a
  pending signal is delivered. Users, children and files need do nothing.
* `SignalLoop`: `WF(Main)` for the same reason; `SF(Cleanup)`, as in the quiet
  environment delivery is disabled again and again, and the signal comes in
  between.
* `Timers`: `WF(CheckTimers)`: the loop waits no longer than until the front is
  due.
* `Pages`: `WF(RunApp)`: the loop goes round and callbacks return (`wget` ends).
  No tap is assumed.
* `YaftMain`: `WF` of the loop, whose `select` has a time-out, and of the
  handler. Neither input nor output is assumed, nor that the shell ends.
* `Vsync`: weak fairness of each thread (the scheduler runs a thread that can
  run), and of the time-out. Nothing is assumed of the client's choices.
* `LinkPort` (`LinkFairness`): the frontend carries changes of the lines, the
  time-out expires, software fetches a byte that has arrived, and the program
  behind a GrayLink asks again. That anything is sent is not assumed.

## 4. Where code and its own statements differ

Each is a run in which TLC finds a counterexample; the statement is a comment
or an assertion of the code.

* `launcher_wake`, `WakeStopsTimer`. `main.cpp:377` says of a wake-up by the
  user "stop the timer and return to the current app". `startTimer` overwrites
  the handle of a countdown that is running already; the timer behind it is not
  disabled and goes on ticking after the wake-up.
* `launcher_pause`, `PauseAssertHolds`. `App.cpp:145` asserts that an app that
  is paused is running and not paused. `switchApp` hides the launcher and
  pauses the current app before it launches the other one; if `fork` fails it
  returns, and the next `show()` pauses the paused app.
* `launcher_stop`, `StopAssertHolds`. `App.cpp:134` asserts that an app that
  is stopped is running. Deaths are handled after the rebuild and before the
  input, so a tap on the kill button of an app that has just died stops it
  without a `runInfo`.
* `signal_lost`, `ExitIsNoticed`. Comments promise that an app is removed when
  it exits (`main.cpp:528`, `App.h:15`). A signal inside `doAllLaters` can have
  its callback cleared uncalled, or its pid overwritten by the swap; the death
  is then not noticed, or only with some later SIGCHLD.
* `mouse`, `MouseUpAfterLift`. `apps/yaft/keyboard.cpp:686` says "Mouse up after
  finger lift". A finger that goes down on the terminal and is lifted over the
  keyboard is handed to `handleKeyEvent`, which knows no key of it: the mouse
  button stays down and the gesture controller goes on counting the finger.
* `yaft_exit`, `ChildAliveIsTrue`. `apps/yaft/main.cpp:31` says `child_alive`
  is whether the shell is alive. It is set after the fork; the handler of a
  shell that has ended by then has cleared it before, so it stays true and yaft
  never leaves its loop. (A shell that is only stopped clears it as well, and
  the handler then waits for the shell's end.) `EndsWithItsShell` is therefore
  promised from the loop on.

## 5. What is proved

For all values of the constants that satisfy the named assumptions (which say
no more than that placeholders are not members of the sets, that durations and
bounds are natural numbers, that switches are Boolean, that slots are below
`max_num_slots`, and that an instruction takes fewer clocks than the window of
the timers). A theorem that needs more says so in its ASSUME:

| theorem | statement |
|---|---|
| `LauncherTypeOK`, `LauncherCurrentIsRunning`, `LauncherEachChildHasOneApp`, `LauncherOnlyCurrentRuns`, `LauncherNoticeScheduled`, `LauncherCountdownHasTimer` | the invariants of `Launcher`, from `LauncherInvariant` (`NoticeScheduled` and `CountdownHasTimer` by proof only) |
| `LauncherRemovalDeferred` | `RemovalDeferred`: nothing is erased, and no mark lost, while it has a process |
| `LauncherHiddenBehindApp` | `HiddenBehindApp`, if `fork` does not fail (if it does, `launcher_pause` shows what happens) |
| `LauncherListStands` | `ListStands`: while the launcher is shown its list loses only an app whose death is being noticed, whatever drafts come and go and for any number of events in an iteration |
| `LauncherSleepsFromLauncher` | `SleepFromLauncher`, for any number of events in an iteration, of timers, and any time-outs |
| `SignalNoticedAfterDeath` | `SignalLoop` implements `ChildNotice!Safe`, from `SignalSafeInv` |
| `SignalNoneForgotten` | in the quiet environment no reaped child is forgotten |
| `TimersPopsWhatWasChecked`, `TimersFrontIsEarliest`, `TimersNoTimerLost`, `TimersNoBurst` | the properties of the queue |
| `VsyncTypeOK`, `VsyncRingSafe`, `VsyncBuffersInUse` | `Vsync` implements `PanRing!Safe`; a pan buffer holds something only while its phase is drawn and not returned |
| `VsyncShowsWhatWasDrawn` | `ShowsWhatWasDrawn`, whether or not the display fails |
| `VsyncLeavesScreenAlone` | `LeavesScreenAlone`, which `ScreenIsLeftAlone` asks of every step of the environment whose display works and whose vsync thread is prompt |
| `PagesReferToLiveWidgets`, `PagesDialogsAnswer` | the invariants of `Pages`, with its types |
| `PagesThreeTapsToLoseIt` | `ThreeTapsToLoseIt`, for any number of fingers and of events |
| `KeypadReleasesKeys`, `KeyboardFollowsFingers`, `KeyboardTogglesOnce` | `NoKeyStaysDown`, `KeyFollowsFinger`, `TogglesOncePerPress`, for any slots, keys and layouts |
| `UserTimerKeepsAgreeing` | `UserTimerAgrees` |
| `FlashPollingTellsTheTruth`, `OnlyCommandsChangeFlash` | `PollingTellsTheTruth`, `OnlyCommandsChange` |
| `LcdDrawsItsCell` | `DrawsItsCell`, for a screen of any size |
| `TerminalTypes`, `TerminalDrawsChanges`, `TerminalMovesLines`, `TerminalTextFlows` | the types of `Terminal`, `ChangesAreDrawn`, `LinesMoveTogether`, `TextFlows`, for a screen of any size and any parameters |
| `ParserTypes`, `ParserShowsText` | the types of `Parser` and `TextIsShown`, for all sequences of bytes |
| `NumbersComeOutRight`, `AluTypes` | `NumbersComeOut`, for all bytes, pairs and flags |
| `LinkTypes`, `LinkBusSettles` | the types of `LinkPort`; every update of the bus ends |
| `LinkSentMeansReceived` | `SentMeansReceived`, for bytes of any length, any modes and any delay of the wires |
| `LinkBytesMove` | `LinkPort` implements `ByteLink!ByteLinkSafe`, over a BlackLink and, in both directions, a GrayLink |
| `ProcessorListsAreSound` | `ListsAreSound`, for any number of timers |
| `ProcessorTimersKeepTime` | `Z80Timers` implements `Alarms!AlarmsSafe`, for any counts, periods and speeds |

The arguments:

* **Launcher.** `IInv` (end of `Launcher.tla`). "Only the current app runs"
  is not inductive: a process that runs must be traced to an `App`
  (`ProcessInv`), that app is marked paused or is current behind a hidden
  launcher, and a process marked paused was stopped, told to terminate, or
  missed the signal (`PausedInv`). Pids of distinct apps are distinct
  (`RunInfoInv`), else one signal would reach two apps. `TimersInv` says the
  handle owns one of the timers alive. The proof has one lemma per operation
  and one case per action.
* **SignalLoop.** `SafeInv`: what is in the vectors is reaped, a living child
  is owned or being launched. So a step that takes a pid from an `App` takes a
  dead one. For `NoneForgotten`, `QuietVectors` and `QuietChildren` say where
  in the round the pids are, and that a callback is still to come to them.
* **Timers.** `TInv`: while a timer is handled it is the front, it is due, and
  what its callback adds is not due before (`HandlingInv`); hence the front
  cannot be overtaken. `PeriodInv` gives `NoBurst`.
* **Vsync.** `VInv` (in `VsyncProofs.tla`): at each point of the loop, the
  number of buffers not given back is determined by `previousPanPhase`
  (`Counters`), and the wait is left only with something to do
  (`WokenForSomething`); that is why the phase shown after unblanking, which
  the code does not compare with `lastPanPhase` again, was drawn.

* **Launcher, the other four.** `Hidden`: the launcher is hidden only while
  there is a current app and it is not marked paused; from `launch` on, this
  needs `fork` to succeed. `AppSteps` says what each operation does to the list
  and to the screen: only `show` reads the drafts, and it does so while the
  launcher is hidden, so the list that is on screen already stands; what
  `updateStoppedApps` erases has died. `SleepStep` goes through the actions for
  the countdown: those that hide end it, those that start it show the launcher.
* **Vsync, what is shown.** `InPlace`: every phase drawn and not returned lies
  in its buffer; the ring being no longer than the buffers, no two of these
  phases share one. For the screen, `Lit` says where in the loop the display
  may be blanked, and `ClearedFirst` that a clear comes before any next phase.
* **Touch.** `TouchInv`: an entry speaks of the last finger in its slot
  (`EntriesFollow`, `PenFollows`), and a press that was handed over and not
  yet taken is of a finger that is still on the glass and the only press under
  way of it (`EventsAreFresh`). On it rest `PointersHold` and `KeysHold`: a
  pointer that holds a key is on the glass or its lift is under way, and no
  press of it is. While this was proved it came out that the arms of a CASE
  in `handleScreenEvent` overlapped; the model now follows the order of the code.
* **Pages.** The stack of pages is one of a few situations in each place of the
  loop, the empty stack included (`NothingLeft`), and detectors follow only
  fingers that are down or are about to be lifted. `TapsCounted` relates the
  stack to the events of the pass: each page popped and not built again has
  cost a lift, and each further one a press before it.
* **Flash, UserTimers, Lcd.** The decoder's state and the reading `heard` of
  what was written agree at each point of a command; the period of the timer
  is the one of the registers' mode; a write is compared with the cell, pixel
  by pixel, for cells in one byte and across two.
* **Terminal.** Every operation is a composition of few that change cells:
  `Kept` says of two screens that lines differ only where they are marked, and
  composes (`KeptTwice`). The loops of `scroll` are a fold over a sequence of
  line numbers; that the fold exists is shown from the well-foundedness of the
  natural numbers (`FoldExists`), and its turns are a sequence of screens
  (`SwapTurns`) for which `DownTo` and `UpTo` say, after `k` swaps, which lines
  are in place and which not touched yet. For `TextFlows` the state between two
  characters must tell where the first stands: the cursor is behind it, or at
  the last column with the wrap pending (`Stands`, `Printed`); `Ready` is what
  `addch` has found when it writes, `Broken` what a fold has done.
* **Parser.** The invariant `Under` relates the character under way to the
  bytes of text since its lead byte: how many there are, the code they make so
  far, and that it is invalid exactly if it is overlong; of five and six bytes,
  that a valid code is already too large for Unicode. So when the last byte
  comes, what the code decides from the number is what table 3-7 decides from
  the bytes (`Judges`, `Completes`): the surrogates are the numbers of `ED A0`
  and up, those beyond Unicode of `F4 90` and up. A text ends in one character
  at most, as no character starts with a continuing byte (`OneEnding`).
* **Alu.** The arithmetic is proved once for any weight `h` of the sign bit:
  `HighBits` and `Wrap` say where a sum or a wrapped difference of two numbers
  below `2h` lies, `FlagsTell` what the flags that are made of single bits mean
  then, `SumRight` and `DifferenceRight` that this is carry, sign and overflow.
  For the decimal adjustment the state must remember the operation before it:
  `FlagsKeepDigits` says that after a sum or difference of bytes the half carry
  is that of the lower digits and the direction is known; `SumAdjusted` and
  `DifferenceAdjusted` then go digit by digit.
* **Z80Timers.** `Z80Inv` says that there are three sequences of entries such
  that the links of the array are theirs (`Linked`: both ways for the sorted
  lists, onwards for the free one, without repetition and disjoint) and so
  are the deadlines (`Timed`: sorted, and not passed by a window). Each
  operation on the links is an operation on these sequences: `UnsetSound`,
  `InsertSound`, `FreeSound`, `TakeSound`, `GrowSound`, and `SetSound` of
  them. `ListedChain` shows that the walk along the links reads the
  sequence, by the well-foundedness of the natural numbers instead of an
  induction. Outside of `check_timers` nothing is overdue (`Waiting`),
  which is what `Alarms!Run` asks for; that the head of a sorted list is due first
  (`HeadIsFirst`) is what makes `Fire` a step of `Alarms!Ring`, and that
  division keeps the order of what it divides (`Rounded`) is why a change of
  speed leaves the lists sorted. The first attempt failed at `set_speed`: `Alarms`
  had promised that time left stays time left, which rounding does not keep,
  and only the speeds of the run had hidden that (see section 2).
* **LinkPort.** `LinkInv` says, until somebody disturbs, where the bits of a
  byte under way are: some are through, at most one is on the wires, the others
  are with the sender (`Cut`, `InFlight`, `Between`); and how many bytes are
  written and not taken (`Ledger`). For a BlackLink (`Black`) it also relates
  the wires of each end to what the other end has heard of them; these are four
  situations (`BlackRest`, `AtOffer`, `AtAnswer`, `AtFinish`), and what an end
  finds when it looks is one of them or on the way to the next (`SenderFinds`,
  `ReceiverFinds`). At a GrayLink a whole byte goes over within one call, by the
  loop of `dbus_update`, whose recursive function `settled` first has to be
  shown to exist (`SettledExists`, from the states that the loop goes through)
  and to end: each round but the last spends a bit or releases a wire (`Left`,
  `LeftFalls`). `LoopRule` then gives what the loop leaves from what one round
  does, and no induction over bits is needed: `ToGrayFinds` and `FromGrayFinds`
  are kept by each round. `BitEnds` is the point where both sides must agree on
  the count. Each operation hands the bus a port that it may find in one of
  these situations (`SenderWrites`, `ReceiverGives`, `FromSends`, ...), so each
  step keeps `LinkInv` and is a step of `ByteLink` or none (`LinkStep`).

Only model-checked, at the bounds above:

* everything under fairness: `DeathNoticed`, `QuietNoticesAll`,
  `DueTimerRuns`, `DialogComesUp`, `EndsWithItsShell`, `EveryCallReturns`,
  `BlanksWhenIdle`, `BytesArrive`; the provers do not handle liveness.

## 6. What is not modelled

Of the parts above: saved framebuffers and drawing in the launcher; a child
whose `exec` fails and that goes on as a second launcher (`App.cpp:30`); reuse
of a pid between its death and `updateStoppedApps`; the wrap-around of the
processor's clock (deadlines are kept as the clocks that are left); the reentrancy of `malloc`
and of streams called from the handlers (undefined wherever the program
allocates); a restart of rocket that finds the stopped apps of its predecessor;
the firmware's generator but for its use here; opening and hotplug of input
devices and key devices (an unplugged keyboard leaves its keys down); physical
keys, the codes written to the shell, gestures as movements; `LAZY_DRAW`
(`apps/yaft/main.cpp:283`: output that fills the buffer exactly is drawn when
more arrives); the splitting of parameters and the contents of OSC and DCS
strings; contrast and power of the LCD, its other kind of memory; decoding,
loads, jumps, block instructions and interrupts of the processor; layout and
draw flags.

About half of the lines of the repository are vendored image and font code,
generated tables (`glyph.h`, `color.h`, `skin.h`) and per-model tables and
memory maps of calculators; they have no state or are never used, so the share
of the lines that is modelled is bound to stay small. What remains of the
program's own lines is mostly drawing, layout, parsing of fixed formats and the
decoding of instructions, which a state machine would only repeat.

Seen while reading, and outside of what is modelled: `updateChildren` matches
the children of a `Wrap` by position and a gesture detector keeps its finger
through that, so a finger that rests on one app of the launcher while the list
changes is lifted on another; a `Flex` compares only the main axis of its
children when it decides what to draw, although a wider child moves the others
across it; a page of the navigator that takes the place of another (the
download dialog after the error dialog) leaves what it does not cover on the
screen. They belong to step 1 of the plan.

## 7. Plan

1. `RenderTree`: layout and draw flags and their caches; a change is on the
   screen at the end of the iteration.
2. The logic and block instructions in `Alu`; physical keys in `YaftKeyboard`.
