-------------------------- MODULE KernelEventsMC --------------------------
(* Small instances of KernelEvents for TLC: two threads, two arguments.    *)
EXTENDS KernelEvents, TLC

Symmetric == Permutations(Thread) \cup Permutations(Arg)
=============================================================================
