---------------------------- MODULE ChildNotice ----------------------------
(***************************************************************************)
(* What rocket promises about a child process: it is launched, it dies,    *)
(* and then the launcher takes notice of its death, once, and only then.   *)
(* Module SignalLoop shows how much of this the code keeps when SIGCHLD    *)
(* may interrupt it anywhere.                                              *)
(***************************************************************************)
CONSTANT Pids

VARIABLE child

Fates == {"none", "alive", "dead", "noticed"}

Move(q, from, to) == child[q] = from /\ child' = [child EXCEPT ![q] = to]

Launch(q) == Move(q, "none", "alive")
Die(q)    == Move(q, "alive", "dead")
Notice(q) == Move(q, "dead", "noticed")

Init == child = [q \in Pids |-> "none"]

Next == \E q \in Pids : Launch(q) \/ Die(q) \/ Notice(q)

\* No child is noticed before it is dead, and none comes back.
Safe == Init /\ [][Next]_child

\* A dead child is noticed in the end.
Live == \A q \in Pids : child[q] = "dead" ~> child[q] = "noticed"

=============================================================================
