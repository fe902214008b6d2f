------------------------------ MODULE YaftMain ------------------------------
(***************************************************************************)
(* The main program of yaft (apps/yaft/main.cpp): it forks the shell, and  *)
(* reads what the shell writes until SIGCHLD tells of its end.  Keyboard,  *)
(* parser and terminal, which the loop calls, are in modules of their own. *)
(***************************************************************************)
EXTENDS Naturals

CONSTANT MaxOutput   \* bound: reads that the shell's output takes

ASSUME YaftAssumption == MaxOutput \in Nat

VARIABLES yaft,          \* where main stands, or "wait" in the handler
          resume,        \* where main goes on after the handler
          shell,         \* the child's process
          chld,          \* whether SIGCHLD is pending
          child_alive,
          output         \* what the shell wrote and yaft did not read, in reads

yaftVars == <<yaft, resume, shell, chld, child_alive, output>>

YaftTypeOK ==
  /\ {yaft, resume} \subseteq {"init", "forked", "ready", "check", "enter", "select",
                              "read", "wait", "ended"}
  /\ shell \in {"none", "running", "stopped", "dead", "reaped"}
  /\ chld \in BOOLEAN /\ child_alive \in BOOLEAN
  /\ output \in 0..MaxOutput

-----------------------------------------------------------------------------
fork_and_exec ==
  /\ yaft = "init"
  /\ \/ yaft' = "forked" /\ shell' = "running"
     \/ yaft' = "ended" /\ UNCHANGED shell
  /\ UNCHANGED <<resume, chld, child_alive, output>>

\* The flag is set after the fork, whatever has happened since.
SetAlive ==
  /\ yaft = "forked"
  /\ yaft' = "ready"
  /\ child_alive' = TRUE
  /\ UNCHANGED <<resume, shell, chld, output>>

\* Without a keyboard yaft gives up and leaves the shell to itself.
InitKeyboard ==
  /\ yaft = "ready"
  /\ yaft' \in {"check", "ended"}
  /\ UNCHANGED <<resume, shell, chld, child_alive, output>>

CheckAlive ==
  /\ yaft = "check"
  /\ yaft' = IF child_alive THEN "enter" ELSE "ended"
  /\ UNCHANGED <<resume, shell, chld, child_alive, output>>

\* waitForInput goes to sleep; a signal until now does not keep it from that.
EnterSelect ==
  /\ yaft = "enter"
  /\ yaft' = "select"
  /\ UNCHANGED <<resume, shell, chld, child_alive, output>>

\* Mutant: select waits for input only.
waitsForInput == FALSE

\* SELECT_TIMEOUT: select returns although nothing has happened.
timesOut == TRUE

TimeOut ==
  /\ yaft = "select" /\ timesOut
  /\ yaft' = "check"
  /\ UNCHANGED <<resume, shell, chld, child_alive, output>>

\* Keys are handled, and the shell's output is looked at afterwards.  It may
\* also be the end of the other side of the terminal, which is nothing to rely
\* on: programs that the shell has left behind keep it open.
SelectInput ==
  /\ yaft = "select"
  /\ yaft' = IF output > 0 THEN "read" ELSE "check"
  /\ UNCHANGED <<resume, shell, chld, child_alive, output>>

SelectOutput ==
  /\ yaft = "select" /\ output > 0
  /\ yaft' = "read"
  /\ UNCHANGED <<resume, shell, chld, child_alive, output>>

Read ==
  /\ yaft = "read"
  /\ yaft' = "check"
  /\ output' = output - 1
  /\ UNCHANGED <<resume, shell, chld, child_alive>>

\* The handler strikes anywhere.  It interrupts select, which is not started
\* again, and the error it returns takes the loop back to its condition.
sig_handler ==
  /\ chld /\ yaft \notin {"wait", "ended"}
  /\ chld' = FALSE
  /\ child_alive' = FALSE
  /\ resume' = IF yaft = "select" THEN "check" ELSE yaft
  /\ yaft' = "wait"
  /\ UNCHANGED <<shell, output>>

\* A stopped shell raises SIGCHLD as well, and wait returns when it has ended.
wait ==
  /\ yaft = "wait" /\ shell \in {"dead", "reaped"}
  /\ yaft' = resume
  /\ shell' = "reaped"
  /\ UNCHANGED <<resume, chld, child_alive, output>>

-----------------------------------------------------------------------------
ShellWrites ==
  /\ shell = "running" /\ output < MaxOutput
  /\ output' = output + 1
  /\ UNCHANGED <<yaft, resume, shell, chld, child_alive>>

ShellChanges(from, to) ==
  /\ shell \in from
  /\ shell' = to /\ chld' = TRUE
  /\ UNCHANGED <<yaft, resume, child_alive, output>>

YaftInit ==
  /\ yaft = "init" /\ resume = "init"
  /\ shell = "none" /\ chld = FALSE /\ child_alive = FALSE /\ output = 0

YaftLoop == CheckAlive \/ EnterSelect \/ TimeOut \/ SelectOutput \/ Read

YaftNext ==
  \/ fork_and_exec \/ SetAlive \/ InitKeyboard
  \/ YaftLoop \/ SelectInput \/ sig_handler \/ wait \/ ShellWrites
  \/ ShellChanges({"running"}, "stopped") \/ ShellChanges({"stopped"}, "running")
  \/ ShellChanges({"running", "stopped"}, "dead")

YaftSpec == YaftInit /\ [][YaftNext]_yaftVars

-----------------------------------------------------------------------------
InLoop == yaft \in {"check", "enter", "select", "read"}

\* Yaft ends when its shell does, if yaft had reached its loop: a signal that
\* comes between the look at child_alive and select interrupts nothing, and
\* is noticed when select times out.
EndsWithItsShell ==
  [](InLoop /\ shell = "running"
       => [](shell \in {"dead", "reaped"} => <>(yaft = "ended")))

\* child_alive says whether the shell is alive (main.cpp:31), at the latest
\* when the signal of its end has been handled.
ChildAliveIsTrue ==
  InLoop /\ ~chld => (child_alive <=> shell = "running")
=============================================================================
