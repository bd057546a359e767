----------------------------- MODULE ProcStates -----------------------------
(***************************************************************************)
(* The life of a process slot as the scheduler core promises it: the      *)
(* state-transition diagram of a proc (UNUSED, USED, RUNNABLE, RUNNING,    *)
(* SLEEPING, ZOMBIE) in which one slot moves along one edge at a time and  *)
(* no more processes are RUNNING than there are CPUs.  ProcTable refines   *)
(* it with st <- state.                                                    *)
(***************************************************************************)
EXTENDS Naturals, FiniteSets

CONSTANTS Slots, NCPU

VARIABLE st

Running == {q \in Slots : st[q] = "RUNNING"}

\* The edges; a slot takes one edge per step.
Edge(q, from, to) ==
  /\ st[q] = from
  /\ st' = [st EXCEPT ![q] = to]

Allocate(q) == Edge(q, "UNUSED", "USED")
MakeRunnable(q) == Edge(q, "USED", "RUNNABLE")
Run(q) == Cardinality(Running) < NCPU /\ Edge(q, "RUNNABLE", "RUNNING")
Yield(q) == Edge(q, "RUNNING", "RUNNABLE")
Sleep(q) == Edge(q, "RUNNING", "SLEEPING")
Wakeup(q) == Edge(q, "SLEEPING", "RUNNABLE")
Exit(q) == Edge(q, "RUNNING", "ZOMBIE")
Reap(q) == Edge(q, "ZOMBIE", "UNUSED")

Init == st \in [Slots -> {"UNUSED", "RUNNABLE"}]

Next ==
  \E q \in Slots :
    \/ Allocate(q) \/ MakeRunnable(q) \/ Run(q) \/ Yield(q)
    \/ Sleep(q) \/ Wakeup(q) \/ Exit(q) \/ Reap(q)

Spec == Init /\ [][Next]_st
=============================================================================
