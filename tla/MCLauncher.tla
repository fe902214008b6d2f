----------------------------- MODULE MCLauncher -----------------------------
(* Instances of Launcher for TLC.                                          *)
EXTENDS Launcher, TLC

\* Pids are interchangeable, and so are draft paths: neither is compared but
\* for equality.
Symmetry == Permutations(Pids) \cup Permutations(Paths)

=============================================================================
