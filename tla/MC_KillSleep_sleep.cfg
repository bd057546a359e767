\* The spec says a SIGKILL makes a sleeper runnable: a process asleep in
\* wait() with a child that never exits, then SIGKILLed.  One CPU, three
\* slots (init, the victim and its child).
CONSTANTS
  c1 = c1
  c2 = c2
  CPUS = {c1}
  NPROC = 3
  MaxPid = 3
  Status = {0}
  None = None

SPECIFICATION KSSpec

PROPERTY KillTerminates
