------------------------------ MODULE KillSleep ------------------------------
(***************************************************************************)
(* ProcTable composed with the SIGKILL path of the signal subsystem:      *)
(* kill(pid, SIGKILL) sets the pending bit of the target slot;             *)
(* signalhandler(), run by the target on its way back to user mode, finds *)
(* it pending with the default handler and calls sigkill_func(), which    *)
(* sets p->killed; usertrap's killed check then calls exit(-1).  Only the *)
(* SIGKILL bit of pending_signals is kept; the rest of the signal state   *)
(* is Signals' business.  kill's slot-by-slot scan, with its lock leak,   *)
(* is KillLeak's: here a successful kill is one step on the matching      *)
(* slot, under that slot's lock.  kill of initproc is left out (exit()    *)
(* panics for it).                                                         *)
(***************************************************************************)
EXTENDS ProcTable

VARIABLES
  sigkill,   \* sigkill[q]: the SIGKILL bit of proc[q].pending_signals
  killed,    \* killed[q]: proc[q].killed
  kpid,      \* kpid[q]: the pid the last kill of slot q was aimed at
  uncaught   \* uncaught[q]: the pending SIGKILL was raised while q ran user
             \* code, so q's next trap comes before signalhandler sees it

sigVars == <<sigkill, killed, kpid, uncaught>>

\* usertrap(): a process traps from user mode (a system call or a timer
\* tick) unless it is killed, which exits instead.  Every return to user
\* mode runs signalhandler, so a SIGKILL raised while p was in the kernel
\* is delivered before p runs user code again; one raised while p ran
\* user code is seen only on the way back from p's next trap.
MayTrap(p) == ~killed[p] /\ (~sigkill[p] \/ uncaught[p])

\* The trap itself: the next return to user mode runs signalhandler.
Trapped(p) == uncaught' = [uncaught EXCEPT ![p] = FALSE]
ksVars  == <<vars, sigVars>>

\* kill(pid, SIGKILL) by p, matching slot q: under q's lock, a killed,
\* ZOMBIE or UNUSED target is refused; otherwise the bit is ORed in.
kill(p, c, q) ==
  /\ Running(p, c) /\ pc[p] = "user" /\ MayTrap(p)
  /\ q # InitProc
  /\ plock[q] = None
  /\ ~killed[q] /\ state[q] \notin {"ZOMBIE", "UNUSED"}
  /\ sigkill' = [sigkill EXCEPT ![q] = TRUE]
  /\ kpid' = [kpid EXCEPT ![q] = pid[q]]
  /\ uncaught' = [uncaught EXCEPT ![p] = FALSE,
                   ![q] = IF sigkill[q] THEN @ ELSE pc[q] = "user"]
  /\ UNCHANGED <<vars, killed>>

\* sigkill_func(): acquire(&p->lock); killed = 1; a SLEEPING p would be
\* made RUNNABLE, but p is the caller and so RUNNING; release.
sigkill_func(p) ==
  /\ killed' = [killed EXCEPT ![p] = TRUE]
  /\ UNCHANGED state

DeliverKill(p, c) ==
  /\ Running(p, c) /\ pc[p] = "user" /\ sigkill[p] /\ ~killed[p]
  /\ plock[p] = None
  /\ sigkill_func(p)
  /\ sigkill' = [sigkill EXCEPT ![p] = FALSE]
  /\ UNCHANGED <<pid, parent, chan, xstate, nextpid, lockVars, cpuVars,
                 kVars, kpid, uncaught>>

\* usertrap(): if(killed(p)) exit(-1), at the next trap from user mode.
usertrap_exit(p, c) ==
  /\ killed[p]
  /\ ExitStart(p, c)
  /\ UNCHANGED sigVars

\* Mutant: allocproc leaves the old pending bits of a reused slot.
allocprocKeepPending(p) == UNCHANGED sigkill

\* allocproc(): a claimed slot starts with pending_signals = 0 (fork
\* sets it to 0 again).  Only ForkScan on an UNUSED slot claims one.
allocproc_pending(p) ==
  LET q == idx[p] IN
  sigkill' = IF pc[p] = "fork_scan" /\ q < NPROC /\ state[q] = "UNUSED"
               THEN [sigkill EXCEPT ![q] = FALSE] ELSE sigkill

\* freeproc(): killed = 0 on every slot that becomes UNUSED.
freeproc_killed ==
  killed' = [q \in Procs |-> killed[q] /\ state'[q] # "UNUSED"]

\* The effects of a ProcTable step of p on the signal state.
sigEffects(p) ==
  /\ allocproc_pending(p)
  /\ freeproc_killed
  /\ UNCHANGED kpid

\* A system call from user mode, or a timer tick's yield: a trap.
UserCall(p, c) == MayTrap(p) /\ UserStep(p, c) /\ sigEffects(p) /\ Trapped(p)

KernelCall(p, c) == KernelStep(p, c) /\ sigEffects(p) /\ UNCHANGED uncaught

\* A CPU's scheduler step.
Sched(c) == (SchedulerScan(c) \/ SchedulerReturn(c)) /\ UNCHANGED sigVars

KSInit ==
  /\ Init
  /\ sigkill = [q \in Procs |-> FALSE]
  /\ killed  = [q \in Procs |-> FALSE]
  /\ kpid    = [q \in Procs |-> 0]
  /\ uncaught = [q \in Procs |-> FALSE]

KSNext ==
  \/ \E c \in CPUS : Sched(c)
  \/ \E p \in Procs, c \in CPUS :
        \/ UserCall(p, c) \/ KernelCall(p, c)
        \/ DeliverKill(p, c)
        \/ usertrap_exit(p, c)
        \/ \E q \in Procs : kill(p, c, q)

\* ProcTable's fairness, with the timer tick widened: a process in user
\* mode traps at a tick; usertrap exits if it is killed, else it yields,
\* and the return to user mode runs signalhandler.
Tick(p, c) ==
  \/ MayTrap(p) /\ yield(p, c) /\ Trapped(p) /\ UNCHANGED <<sigkill, killed, kpid>>
  \/ DeliverKill(p, c) \/ usertrap_exit(p, c)

KSFairness ==
  /\ \A c \in CPUS : SF_ksVars(Sched(c))
  /\ \A p \in Procs :
        /\ SF_ksVars(\E c \in CPUS : KernelCall(p, c))
        /\ SF_ksVars(\E c \in CPUS : Tick(p, c))

KSSpec == KSInit /\ [][KSNext]_ksVars /\ KSFairness

-----------------------------------------------------------------------------
(* Properties.                                                             *)

KSTypeOK ==
  /\ TypeOK
  /\ sigkill \in [Procs -> BOOLEAN]
  /\ killed  \in [Procs -> BOOLEAN]
  /\ kpid    \in [Procs -> 0 .. MaxPid + NPROC]
  /\ uncaught \in [Procs -> BOOLEAN]

\* A pending SIGKILL of a live slot was aimed at the pid the slot holds
\* now: kill() racing exit(), wait()'s freeproc and a fork that reuses
\* the slot never hands the new process the old one's SIGKILL (allocproc
\* clears pending_signals).
NoStaleKill ==
  \A q \in Procs :
     sigkill[q] /\ state[q] # "UNUSED" => kpid[q] = pid[q]

Gone(q) == state[q] \in {"ZOMBIE", "UNUSED"}

\* A process with SIGKILL pending exits, or else blocks asleep in wait():
\* signalhandler on the return to user mode sets killed and the next trap
\* exits; a SIGKILL raised while the target ran user code lets it first
\* make one more system call, which may be a wait() that sleeps.
WaitAsleep(q) == InWait(q) /\ state[q] = "SLEEPING"

KillTerminates ==
  \A q \in Procs \ {InitProc} : sigkill[q] ~> Gone(q)

====
