\* Liveness of the table: a wait() with a zombie child returns (no lost
\* wakeup), and every RUNNABLE process is eventually scheduled.  No
\* symmetry: it is unsound for liveness.
CONSTANTS
  c1 = c1
  c2 = c2
  CPUS <- MC_CPUS
  NPROC = 3
  MaxPid = 3
  Status = {0}
  None = None

SPECIFICATION Spec

PROPERTY WaitReturns
PROPERTY NoStarvation
