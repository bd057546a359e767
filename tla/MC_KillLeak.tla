---------------------------- MODULE MC_KillLeak ----------------------------
(* KillLeak with two CPUs as model values.                                *)
EXTENDS KillLeak, TLC

CONSTANTS c1, c2

MC_CPUS == {c1, c2}
CpuSymmetry == Permutations(MC_CPUS)
====
