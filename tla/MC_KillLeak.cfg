\* kill's early return keeps the slot lock: 2 CPUs, 3 slots, pids up to 3.
CONSTANTS
  c1 = c1
  c2 = c2
  CPUS <- MC_CPUS
  NPROC = 3
  MaxPid = 3
  Status = {0}
  None = None

SPECIFICATION KillSpec
SYMMETRY CpuSymmetry

INVARIANT UserModeHoldsNoLock
