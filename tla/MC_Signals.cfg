\* Safety of the signal subsystem and its refinement of SigDelivery: SIG_IGN,
\* SIGSTOP, SIGCONT, h1 (sigmask {6}) and h2 (empty sigmask) as sigaction
\* values, two kills.  sigaction on SIGCONT is left to MC_Signals_cont.cfg,
\* where the refinement fails.
CONSTANTS
  h1 = h1
  h2 = h2
  kaddr = kaddr
  Sig = {5, 6, 9, 17, 19}
  SIGKILL = 9
  SIGSTOP = 17
  SIGCONT = 19
  SIG_DFL = 0
  SIG_IGN = 1
  Descs <- MC_Descs2
  DescMask <- MC_DescMask2
  Masks <- MC_Masks
  KStackAddr = kaddr
  KillBudget = 2
  Flood = {}
  Acts <- MC_ActsIgn2
  Installable = {5, 6, 9, 17}
  ForkedInHandler = FALSE
SPECIFICATION Spec
INVARIANTS TypeOK NoNestedDispatch
PROPERTY SigretResumes
PROPERTY DeliveryRefined
CHECK_DEADLOCK FALSE
