CONSTANTS
  h1 = h1
  h2 = h2
  kaddr = kaddr
  Sig = {5, 6, 9, 17, 19}
  SIGKILL = 9
  SIGSTOP = 17
  SIGCONT = 19
  SIG_DFL = 0
  SIG_IGN = 1
  Descs <- MC_Descs
  DescMask <- MC_DescMask
  Masks <- MC_Masks
  KStackAddr = kaddr
  KillBudget = 2
  Flood = {}
  Acts <- MC_ActsLive
  Installable = {5, 6, 9, 17, 19}
  ForkedInHandler = FALSE
SPECIFICATION Spec
PROPERTY Delivered
PROPERTY StopCont
CHECK_DEADLOCK FALSE
