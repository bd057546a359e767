----------------------------- MODULE MC_Signals -----------------------------
(* Signals instantiated with five signal numbers: an ordinary signal 5,   *)
(* 6 (masked by the handler of 5), and SIGKILL 9, SIGSTOP 17, SIGCONT 19   *)
(* as in xv6's signal.h; SIG_DFL 0 and SIG_IGN 1; one user descriptor h1  *)
(* whose sigmask holds 6, and for the safety run a second one, h2, with  *)
(* an empty sigmask.                                                       *)
EXTENDS Signals, TLC

CONSTANTS h1, h2, kaddr

MC_Descs == {h1}
MC_DescMask == [d \in {h1} |-> {6}]
MC_Descs2 == {h1, h2}
MC_DescMask2 == (h1 :> {6}) @@ (h2 :> {})
MC_Masks == {{}, {6}, {6, 9}}
\* Pointer values the program passes to sigaction, with SIG_IGN ...
MC_ActsIgn == {0, 1, 17, 19, h1}
MC_ActsIgn2 == MC_ActsIgn \cup {h2}
\* ... and without it.
MC_Acts == {17, 19, h1}
\* A user handler and the SIGCONT action only.
MC_ActsLive == {19, h1}
====
