--------------------------- MODULE MC_ProcTable ---------------------------
(* Model-checking instance of ProcTable: two harts, three slots.          *)
EXTENDS ProcTable, TLC

CONSTANTS c1, c2

MC_CPUS == {c1, c2}

\* CPUs are interchangeable: only compared for equality.
CpuSymmetry == Permutations(MC_CPUS)
=============================================================================
