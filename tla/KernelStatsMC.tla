--------------------------- MODULE KernelStatsMC ---------------------------
(* Two processes: pa with the threads a1 and a2, pb with the thread b1.    *)
EXTENDS KernelStats, TLC

CONSTANTS pa, pb, a1, a2, b1, read, write

\* The two threads of pa are alike, and so are the two call numbers.
MCSymmetry == Permutations({a1, a2}) \cup Permutations({read, write})

MCOwner == [t \in {a1, a2, b1} |-> IF t = b1 THEN pb ELSE pa]
=============================================================================
