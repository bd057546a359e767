\* Safety of the process table, with SIGKILL raised at any time, and its
\* refinement of ProcStates: 2 CPUs, 3 slots, pids up to 4, two exit
\* statuses.  Without kills the behaviours are those of ProcTable.
CONSTANTS
  c1 = c1
  c2 = c2
  CPUS <- MC_CPUS
  NPROC = 3
  MaxPid = 4
  Status = {0, 1}
  None = None

SPECIFICATION KSSpec
SYMMETRY CpuSymmetry

INVARIANT KSTypeOK
INVARIANT ExclusiveRun
INVARIANT SchedHandoff
INVARIANT ParentLive
INVARIANT UniquePids
INVARIANT UserModeHoldsNoLock
INVARIANT NoStaleKill
PROPERTY LifeCycle
