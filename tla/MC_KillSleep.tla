--------------------------- MODULE MC_KillSleep ----------------------------
(* Model-checking instance of KillSleep: two harts, three slots.          *)
EXTENDS KillSleep, TLC

CONSTANTS c1, c2

MC_CPUS == {c1, c2}

\* CPUs are interchangeable: only compared for equality.
CpuSymmetry == Permutations(MC_CPUS)
=============================================================================
