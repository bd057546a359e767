------------------------------ MODULE KillLeak ------------------------------
(***************************************************************************)
(* ProcTable with the kill(pid, signum) system call added.  kill scans    *)
(* proc[] taking each slot's lock; on the slot whose pid matches it ORs   *)
(* the signal bit into pending_signals (not modelled: ProcTable has no     *)
(* signal state) and releases the lock, but when that slot is killed, a   *)
(* ZOMBIE or UNUSED it returns -1 with the lock still held.  An UNUSED     *)
(* slot has pid 0, so kill(0, s) stops at the first free slot.  A killed  *)
(* slot is a slot on its way out of signalhandler into exit(); it is       *)
(* folded into the ZOMBIE case here.                                       *)
(***************************************************************************)
EXTENDS ProcTable

VARIABLE kpid          \* the pid argument of each process's kill call

killVars == <<vars, kpid>>

\* kill(pid, signum) with signum in range: start the scan at proc[0].
KillStart(p, c) ==
  /\ Running(p, c) /\ pc[p] = "user"
  /\ \E target \in 0 .. MaxPid : kpid' = [kpid EXCEPT ![p] = target]
  /\ pc' = [pc EXCEPT ![p] = "kill_scan"]
  /\ idx' = [idx EXCEPT ![p] = 0]
  /\ UNCHANGED <<procVars, lockVars, cpuVars, np, havekids>>

\* One slot: acquire(&q->lock); on a pid match either the early return
\* (lock kept) or the pending bit is set and the lock released; on a
\* mismatch release and go on; past the end, -1.
KillScan(p, c) ==
  LET q == idx[p] IN
  /\ Running(p, c) /\ pc[p] = "kill_scan"
  /\ IF q = NPROC
       THEN /\ pc' = [pc EXCEPT ![p] = "user"]
            /\ UNCHANGED <<plock, idx>>
       ELSE /\ plock[q] = None
            /\ IF pid[q] = kpid[p]
                 THEN /\ pc' = [pc EXCEPT ![p] = "user"]
                      /\ plock' = IF state[q] \in {"ZOMBIE", "UNUSED"}
                                    THEN [plock EXCEPT ![q] = c]
                                    ELSE plock
                      /\ UNCHANGED idx
                 ELSE /\ idx' = [idx EXCEPT ![p] = q + 1]
                      /\ UNCHANGED <<plock, pc>>
  /\ UNCHANGED <<procVars, waitLock, cpuVars, np, havekids, kpid>>

KillInit == Init /\ kpid = [q \in Procs |-> 0]

KillNext ==
  \/ Next /\ UNCHANGED kpid
  \/ \E p \in Procs, c \in CPUS : KillStart(p, c) \/ KillScan(p, c)

KillSpec == KillInit /\ [][KillNext]_killVars

====
