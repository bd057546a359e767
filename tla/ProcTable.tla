----------------------------- MODULE ProcTable -----------------------------
(***************************************************************************)
(* The process table of src/kernel/proc.c with the per-CPU scheduler       *)
(* loops, sched/yield, sleep/wakeup, and the lifecycle calls fork, exit    *)
(* and wait (with allocproc, freeproc, allocpid and reparent).             *)
(*                                                                         *)
(* A spinlock is a variable holding the CPU that owns it (or None):        *)
(* acquire is a guard "owner = None", and because xv6 locks belong to a    *)
(* CPU (holding() compares with mycpu()), p->lock can be acquired by the   *)
(* scheduler and released by the process it switched to, and vice versa.   *)
(*                                                                         *)
(* A process executes only while some CPU is in mode "run" with           *)
(* cproc[c] = p; pc[p] is where its kernel thread is, and is frozen while  *)
(* the process is switched out.  A step is one critical section: code     *)
(* that runs entirely under a lock that every other reader of the same    *)
(* fields also takes is one atomic step, every loop that takes a lock per  *)
(* slot takes one step per slot.                                           *)
(***************************************************************************)
EXTENDS Naturals, FiniteSets

CONSTANTS
  NPROC,     \* number of slots of proc[]
  CPUS,      \* the harts, each running scheduler()
  MaxPid,    \* bound: fork is not started once nextpid > MaxPid (forks
             \* already under way may still take a pid each)
  Status,    \* exit statuses a process may pass to exit()
  None       \* a null pointer / unowned lock

ASSUME NPROC \in Nat \ {0} /\ MaxPid \in Nat \ {0} /\ Status # {}

Procs == 0 .. NPROC - 1
InitProc == 0          \* userinit() takes the first slot

VARIABLES
  state, pid, parent, chan, xstate,   \* fields of struct proc
  nextpid,                            \* allocpid() counter
  plock, waitLock,                    \* p->lock and wait_lock: owning CPU
  cproc, cmode, cidx,                 \* per CPU: c->proc, where it is, scan slot
  pc, idx, np, havekids               \* kernel thread of each process

procVars == <<state, pid, parent, chan, xstate, nextpid>>
lockVars == <<plock, waitLock>>
cpuVars  == <<cproc, cmode, cidx>>
kVars    == <<pc, idx, np, havekids>>
vars     == <<procVars, lockVars, cpuVars, kVars>>

States == {"UNUSED", "USED", "SLEEPING", "RUNNABLE", "RUNNING", "ZOMBIE"}
PCs == {"user", "forkret", "yield_ret", "fork_scan", "fork_parent",
        "fork_runnable", "exit_wake_init", "exit_wake_parent", "exit_final",
        "zombie", "wait_scan", "wait_woken", "wait_relock"}

-----------------------------------------------------------------------------
(* Helpers.                                                                *)

\* p is executing on c.
Running(p, c) == cproc[c] = p /\ cmode[c] = "run"

Goto(p, l) == pc' = [pc EXCEPT ![p] = l]

\* Mutants: the scan never wraps; the scan stops one slot short.
NextSlotNoWrap(i) == i + 1
NextSlotShort(i) == (i + 1) % (NPROC - 1)

\* The next slot of a round-robin scan.
NextSlot(i) == (i + 1) % NPROC

\* sched(): the process, holding p->lock, switches to c's scheduler.
sched(c) == cmode' = [cmode EXCEPT ![c] = "back"]

\* allocpid(): pid = nextpid; nextpid = nextpid + 1, under pid_lock.
\* Mutant: the increment is lost.
allocpidNoInc == UNCHANGED nextpid
allocpid == nextpid' = nextpid + 1

\* freeproc(q): clears a slot; caller holds q->lock.
freeproc(q) ==
  /\ state'  = [state  EXCEPT ![q] = "UNUSED"]
  /\ pid'    = [pid    EXCEPT ![q] = 0]
  /\ parent' = [parent EXCEPT ![q] = None]
  /\ chan'   = [chan   EXCEPT ![q] = None]
  /\ xstate' = [xstate EXCEPT ![q] = 0]

\* Mutant: zombie children are left with their exiting parent.
reparentLive(p) ==
  parent' = [q \in Procs |-> IF parent[q] = p /\ state[q] # "ZOMBIE"
                              THEN InitProc ELSE parent[q]]

\* reparent(p): children of p go to init; caller holds wait_lock.
reparent(p) ==
  parent' = [q \in Procs |-> IF parent[q] = p THEN InitProc ELSE parent[q]]

-----------------------------------------------------------------------------
(* scheduler(): one step per slot of the scan.                            *)

\* Lock slot cidx[c]; run it if RUNNABLE (keeping the lock across swtch),
\* otherwise release it and move on.
SchedulerScan(c) ==
  LET p == cidx[c] IN
  /\ cmode[c] = "scan"
  /\ plock[p] = None
  /\ IF state[p] = "RUNNABLE"
       THEN /\ state' = [state EXCEPT ![p] = "RUNNING"]
            /\ plock' = [plock EXCEPT ![p] = c]
            /\ cproc' = [cproc EXCEPT ![c] = p]
            /\ cmode' = [cmode EXCEPT ![c] = "run"]
            /\ UNCHANGED cidx
       ELSE /\ cidx' = [cidx EXCEPT ![c] = NextSlot(p)]
            /\ UNCHANGED <<state, plock, cproc, cmode>>
  /\ UNCHANGED <<pid, parent, chan, xstate, nextpid, waitLock, kVars>>

\* Mutant: c->proc is not cleared after swtch returns.
SchedulerReturnKeepProc(c) ==
  LET p == cproc[c] IN
  /\ cmode[c] = "back"
  /\ plock' = [plock EXCEPT ![p] = None]
  /\ cmode' = [cmode EXCEPT ![c] = "scan"]
  /\ cidx'  = [cidx EXCEPT ![c] = NextSlot(p)]
  /\ UNCHANGED <<procVars, waitLock, kVars, cproc>>

\* Back from swtch: c->proc = 0, release(&p->lock), next slot.
SchedulerReturn(c) ==
  LET p == cproc[c] IN
  /\ cmode[c] = "back"
  /\ plock' = [plock EXCEPT ![p] = None]
  /\ cproc' = [cproc EXCEPT ![c] = None]
  /\ cmode' = [cmode EXCEPT ![c] = "scan"]
  /\ cidx'  = [cidx EXCEPT ![c] = NextSlot(p)]
  /\ UNCHANGED <<procVars, waitLock, kVars>>

-----------------------------------------------------------------------------
(* Returning into a process after swtch: forkret and the tail of yield.   *)

\* forkret(): release the p->lock taken by the scheduler, go to user.
forkret(p, c) ==
  /\ Running(p, c) /\ pc[p] = "forkret"
  /\ plock' = [plock EXCEPT ![p] = None]
  /\ Goto(p, "user")
  /\ UNCHANGED <<procVars, waitLock, cpuVars, idx, np, havekids>>

\* yield(): p->state = RUNNABLE under p->lock, then sched().
yield(p, c) ==
  /\ Running(p, c) /\ pc[p] = "user"
  /\ plock[p] = None
  /\ plock' = [plock EXCEPT ![p] = c]
  /\ state' = [state EXCEPT ![p] = "RUNNABLE"]
  /\ sched(c)
  /\ Goto(p, "yield_ret")
  /\ UNCHANGED <<pid, parent, chan, xstate, nextpid, waitLock, cproc, cidx,
                 idx, np, havekids>>

\* The release(&p->lock) after sched() in yield().
YieldReturn(p, c) ==
  /\ Running(p, c) /\ pc[p] = "yield_ret"
  /\ plock' = [plock EXCEPT ![p] = None]
  /\ Goto(p, "user")
  /\ UNCHANGED <<procVars, waitLock, cpuVars, idx, np, havekids>>

-----------------------------------------------------------------------------
(* fork().                                                                 *)

ForkStart(p, c) ==
  /\ Running(p, c) /\ pc[p] = "user"
  /\ nextpid <= MaxPid
  /\ Goto(p, "fork_scan")
  /\ idx' = [idx EXCEPT ![p] = 0]
  /\ UNCHANGED <<procVars, lockVars, cpuVars, np, havekids>>

\* Mutant: a failed allocation does not return -1 but carries on with np.
ForkScanNoReturn(p, c) ==
  LET q == idx[p] IN
  /\ Running(p, c) /\ pc[p] = "fork_scan"
  /\ IF q = NPROC
       THEN /\ Goto(p, "user")
            /\ UNCHANGED <<procVars, plock, idx, np>>
       ELSE /\ plock[q] = None
            /\ IF state[q] # "UNUSED"
                 THEN /\ idx' = [idx EXCEPT ![p] = q + 1]
                      /\ UNCHANGED <<procVars, plock, pc, np>>
                 ELSE /\ allocpid
                      /\ np' = [np EXCEPT ![p] = q]
                      /\ \/ /\ freeproc(q)
                            /\ Goto(p, "fork_parent")
                         \/ /\ state' = [state EXCEPT ![q] = "USED"]
                            /\ pid' = [pid EXCEPT ![q] = nextpid]
                            /\ pc' = [pc EXCEPT ![q] = "forkret",
                                                ![p] = "fork_parent"]
                            /\ UNCHANGED <<parent, chan, xstate>>
                      /\ UNCHANGED <<plock, idx>>
  /\ UNCHANGED <<waitLock, cpuVars, havekids>>

\* allocproc(): one step per slot.  A slot found UNUSED is claimed and
\* built while its lock is held: allocpid(), state USED, a trapframe page
\* and a page table (either allocation may fail), then, back in fork(),
\* uvmcopy (may fail) and the copies of sz, handlers, trapframe and files,
\* then release(&np->lock).  Every failure is freeproc + release, -1.
ForkScan(p, c) ==
  LET q == idx[p] IN
  /\ Running(p, c) /\ pc[p] = "fork_scan"
  /\ IF q = NPROC
       THEN /\ Goto(p, "user")                     \* no free slot: -1
            /\ UNCHANGED <<procVars, plock, idx, np>>
       ELSE /\ plock[q] = None
            /\ IF state[q] # "UNUSED"
                 THEN /\ idx' = [idx EXCEPT ![p] = q + 1]
                      /\ UNCHANGED <<procVars, plock, pc, np>>
                 ELSE /\ allocpid
                      /\ \/ /\ freeproc(q)          \* kalloc/uvmcopy failed
                            /\ Goto(p, "user")
                            /\ UNCHANGED np
                         \/ /\ state' = [state EXCEPT ![q] = "USED"]
                            /\ pid' = [pid EXCEPT ![q] = nextpid]
                            /\ pc' = [pc EXCEPT ![q] = "forkret",
                                                ![p] = "fork_parent"]
                            /\ np' = [np EXCEPT ![p] = q]
                            /\ UNCHANGED <<parent, chan, xstate>>
                      /\ UNCHANGED <<plock, idx>>
  /\ UNCHANGED <<waitLock, cpuVars, havekids>>

\* acquire(&wait_lock); np->parent = p; release(&wait_lock).
ForkSetParent(p, c) ==
  /\ Running(p, c) /\ pc[p] = "fork_parent"
  /\ waitLock = None
  /\ parent' = [parent EXCEPT ![np[p]] = p]
  /\ Goto(p, "fork_runnable")
  /\ UNCHANGED <<state, pid, chan, xstate, nextpid, lockVars, cpuVars,
                 idx, np, havekids>>

\* acquire(&np->lock); np->state = RUNNABLE; release(&np->lock).
ForkRunnable(p, c) ==
  /\ Running(p, c) /\ pc[p] = "fork_runnable"
  /\ plock[np[p]] = None
  /\ state' = [state EXCEPT ![np[p]] = "RUNNABLE"]
  /\ Goto(p, "user")
  /\ UNCHANGED <<pid, parent, chan, xstate, nextpid, lockVars, cpuVars,
                 idx, np, havekids>>

-----------------------------------------------------------------------------
(* wakeup(ch): one step per slot other than the caller; each slot is      *)
(* locked, and made RUNNABLE if SLEEPING on ch.  Called by exit() with     *)
(* ch = initproc and then ch = p->parent; "after" is where exit goes on.  *)

\* Mutant: a slot whose lock is busy is skipped instead of waited for.
wakeupTryLock(p, c, ch, after) ==
  LET q == idx[p] IN
  \/ /\ q = NPROC
     /\ Goto(p, after)
     /\ idx' = [idx EXCEPT ![p] = 0]
     /\ UNCHANGED state
  \/ /\ q = p
     /\ idx' = [idx EXCEPT ![p] = q + 1]
     /\ UNCHANGED <<state, pc>>
  \/ /\ q < NPROC /\ q # p
     /\ state' = IF plock[q] = None /\ state[q] = "SLEEPING" /\ chan[q] = ch
                   THEN [state EXCEPT ![q] = "RUNNABLE"] ELSE state
     /\ idx' = [idx EXCEPT ![p] = q + 1]
     /\ UNCHANGED pc

wakeup(p, c, ch, after) ==
  LET q == idx[p] IN
  \/ /\ q = NPROC
     /\ Goto(p, after)
     /\ idx' = [idx EXCEPT ![p] = 0]
     /\ UNCHANGED state
  \/ /\ q = p
     /\ idx' = [idx EXCEPT ![p] = q + 1]
     /\ UNCHANGED <<state, pc>>
  \/ /\ q < NPROC /\ q # p
     /\ plock[q] = None
     /\ state' = IF state[q] = "SLEEPING" /\ chan[q] = ch
                   THEN [state EXCEPT ![q] = "RUNNABLE"] ELSE state
     /\ idx' = [idx EXCEPT ![p] = q + 1]
     /\ UNCHANGED pc

-----------------------------------------------------------------------------
(* exit(status).  initcode never exits (exit panics for initproc).        *)

\* Files are closed (outside the model); acquire(&wait_lock); reparent(p).
\* reparent calls wakeup(initproc) once per child; those calls collapse
\* into one: init can only sleep on initproc inside wait(), which needs
\* the wait_lock this exit holds, so only the first can wake it.
ExitStart(p, c) ==
  /\ Running(p, c) /\ pc[p] = "user" /\ p # InitProc
  /\ waitLock = None
  /\ waitLock' = c
  /\ reparent(p)
  /\ Goto(p, IF \E q \in Procs : parent[q] = p
               THEN "exit_wake_init" ELSE "exit_wake_parent")
  /\ idx' = [idx EXCEPT ![p] = 0]
  /\ UNCHANGED <<state, pid, chan, xstate, nextpid, plock, cpuVars, np,
                 havekids>>

ExitWakeInit(p, c) ==
  /\ Running(p, c) /\ pc[p] = "exit_wake_init"
  /\ wakeup(p, c, InitProc, "exit_wake_parent")
  /\ UNCHANGED <<pid, parent, chan, xstate, nextpid, lockVars, cpuVars, np,
                 havekids>>

\* wakeup(p->parent): the parent may be asleep in wait().
ExitWakeParent(p, c) ==
  /\ Running(p, c) /\ pc[p] = "exit_wake_parent"
  /\ wakeup(p, c, parent[p], "exit_final")
  /\ UNCHANGED <<pid, parent, chan, xstate, nextpid, lockVars, cpuVars, np,
                 havekids>>

\* Mutant: wait_lock released after sched(), i.e. never.
ExitFinalKeepWaitLock(p, c) ==
  /\ Running(p, c) /\ pc[p] = "exit_final"
  /\ plock[p] = None
  /\ \E s \in Status : xstate' = [xstate EXCEPT ![p] = s]
  /\ state' = [state EXCEPT ![p] = "ZOMBIE"]
  /\ plock' = [plock EXCEPT ![p] = c]
  /\ sched(c)
  /\ Goto(p, "zombie")
  /\ UNCHANGED <<pid, parent, chan, nextpid, cproc, cidx, idx, np, havekids,
                 waitLock>>

\* acquire(&p->lock); xstate; ZOMBIE; release(&wait_lock); sched().
ExitFinal(p, c) ==
  /\ Running(p, c) /\ pc[p] = "exit_final"
  /\ plock[p] = None
  /\ \E s \in Status : xstate' = [xstate EXCEPT ![p] = s]
  /\ state' = [state EXCEPT ![p] = "ZOMBIE"]
  /\ plock' = [plock EXCEPT ![p] = c]
  /\ waitLock' = None
  /\ sched(c)
  /\ Goto(p, "zombie")
  /\ UNCHANGED <<pid, parent, chan, nextpid, cproc, cidx, idx, np, havekids>>

-----------------------------------------------------------------------------
(* wait(addr).                                                             *)

\* acquire(&wait_lock); start the scan with havekids = 0.
WaitStart(p, c) ==
  /\ Running(p, c) /\ pc[p] = "user"
  /\ waitLock = None
  /\ waitLock' = c
  /\ Goto(p, "wait_scan")
  /\ idx' = [idx EXCEPT ![p] = 0]
  /\ havekids' = [havekids EXCEPT ![p] = FALSE]
  /\ UNCHANGED <<procVars, plock, cpuVars, np>>

\* Mutant: the copyout-failure return leaves wait_lock held.
WaitScanLeak(p, c) ==
  LET q == idx[p] IN
  /\ Running(p, c) /\ pc[p] = "wait_scan" /\ q < NPROC
  /\ IF parent[q] # p
       THEN /\ idx' = [idx EXCEPT ![p] = q + 1]
            /\ UNCHANGED <<procVars, waitLock, pc, havekids>>
       ELSE /\ plock[q] = None
            /\ havekids' = [havekids EXCEPT ![p] = TRUE]
            /\ IF state[q] = "ZOMBIE"
                 THEN /\ \/ freeproc(q) /\ waitLock' = None
                         \/ UNCHANGED <<state, pid, parent, chan, xstate,
                                        waitLock>>
                      /\ Goto(p, "user")
                      /\ UNCHANGED <<nextpid, idx>>
                 ELSE /\ idx' = [idx EXCEPT ![p] = q + 1]
                      /\ UNCHANGED <<procVars, waitLock, pc>>
  /\ UNCHANGED <<plock, cpuVars, np>>

\* One slot of the scan, under wait_lock.  A child is locked ("make sure
\* the child isn't still in exit() or swtch()"); a ZOMBIE child is freed
\* and its pid returned, unless copyout of xstate fails (-1, not freed).
WaitScan(p, c) ==
  LET q == idx[p] IN
  /\ Running(p, c) /\ pc[p] = "wait_scan" /\ q < NPROC
  /\ IF parent[q] # p
       THEN /\ idx' = [idx EXCEPT ![p] = q + 1]
            /\ UNCHANGED <<procVars, waitLock, pc, havekids>>
       ELSE /\ plock[q] = None
            /\ havekids' = [havekids EXCEPT ![p] = TRUE]
            /\ IF state[q] = "ZOMBIE"
                 THEN /\ \/ freeproc(q)                    \* return pid
                         \/ UNCHANGED <<state, pid, parent, chan, xstate>>
                      /\ waitLock' = None
                      /\ Goto(p, "user")
                      /\ UNCHANGED <<nextpid, idx>>
                 ELSE /\ idx' = [idx EXCEPT ![p] = q + 1]
                      /\ UNCHANGED <<procVars, waitLock, pc>>
  /\ UNCHANGED <<plock, cpuVars, np>>

\* End of the scan with no child: release(&wait_lock), return -1.  The
\* killed operand of the test is 0 here: a killed process traps into
\* exit before any system call (see KillSleep).
WaitNoKids(p, c) ==
  /\ Running(p, c) /\ pc[p] = "wait_scan" /\ idx[p] = NPROC
  /\ ~havekids[p]
  /\ waitLock' = None
  /\ Goto(p, "user")
  /\ UNCHANGED <<procVars, plock, cpuVars, idx, np, havekids>>

\* End of the scan with children: sleep(p, &wait_lock): acquire(&p->lock),
\* release(&wait_lock), chan = p, SLEEPING, sched().  The steps are one:
\* between them p holds p->lock, which wakeup needs.
WaitSleep(p, c) ==
  /\ Running(p, c) /\ pc[p] = "wait_scan" /\ idx[p] = NPROC
  /\ havekids[p]
  /\ plock[p] = None
  /\ plock' = [plock EXCEPT ![p] = c]
  /\ waitLock' = None
  /\ chan' = [chan EXCEPT ![p] = p]
  /\ state' = [state EXCEPT ![p] = "SLEEPING"]
  /\ sched(c)
  /\ Goto(p, "wait_woken")
  /\ UNCHANGED <<pid, parent, xstate, nextpid, cproc, cidx, idx, np,
                 havekids>>

\* Back from sched() in sleep(): chan = 0; release(&p->lock).
WaitWoken(p, c) ==
  /\ Running(p, c) /\ pc[p] = "wait_woken"
  /\ chan' = [chan EXCEPT ![p] = None]
  /\ plock' = [plock EXCEPT ![p] = None]
  /\ Goto(p, "wait_relock")
  /\ UNCHANGED <<state, pid, parent, xstate, nextpid, waitLock, cpuVars,
                 idx, np, havekids>>

\* acquire(lk) at the end of sleep(), then the for(;;) scans again.
WaitRelock(p, c) ==
  /\ Running(p, c) /\ pc[p] = "wait_relock"
  /\ waitLock = None
  /\ waitLock' = c
  /\ Goto(p, "wait_scan")
  /\ idx' = [idx EXCEPT ![p] = 0]
  /\ havekids' = [havekids EXCEPT ![p] = FALSE]
  /\ UNCHANGED <<procVars, plock, cpuVars, np>>

-----------------------------------------------------------------------------
(* The specification.                                                      *)

\* procinit(): initlock of pid_lock, wait_lock and every p->lock, so no
\* lock has an owner; each CPU then enters scheduler() at its first slot.
procinit ==
  /\ plock    = [q \in Procs |-> None]
  /\ waitLock = None
  /\ cproc    = [c \in CPUS |-> None]
  /\ cmode    = [c \in CPUS |-> "scan"]
  /\ cidx     = [c \in CPUS |-> 0]

\* After procinit() and userinit(): allocproc gave initproc slot 0 and pid
\* 1, and userinit made it RUNNABLE, to start at forkret; every other slot
\* is UNUSED.
Init ==
  /\ procinit
  /\ state    = [q \in Procs |-> IF q = InitProc THEN "RUNNABLE" ELSE "UNUSED"]
  /\ pid      = [q \in Procs |-> IF q = InitProc THEN 1 ELSE 0]
  /\ parent   = [q \in Procs |-> None]
  /\ chan     = [q \in Procs |-> None]
  /\ xstate   = [q \in Procs |-> 0]
  /\ nextpid  = 2
  /\ pc       = [q \in Procs |-> IF q = InitProc THEN "forkret" ELSE "zombie"]
  /\ idx      = [q \in Procs |-> 0]
  /\ np       = [q \in Procs |-> InitProc]
  /\ havekids = [q \in Procs |-> FALSE]

\* What a process in user mode does next: a system call, or yield() on a
\* timer interrupt.
UserStep(p, c) ==
  \/ yield(p, c) \/ ForkStart(p, c) \/ ExitStart(p, c) \/ WaitStart(p, c)

\* Kernel steps of a process that is running on c.
KernelStep(p, c) ==
  \/ forkret(p, c) \/ YieldReturn(p, c)
  \/ ForkScan(p, c) \/ ForkSetParent(p, c) \/ ForkRunnable(p, c)
  \/ ExitWakeInit(p, c) \/ ExitWakeParent(p, c) \/ ExitFinal(p, c)
  \/ WaitScan(p, c) \/ WaitNoKids(p, c) \/ WaitSleep(p, c)
  \/ WaitWoken(p, c) \/ WaitRelock(p, c)

Next ==
  \/ \E c \in CPUS : SchedulerScan(c) \/ SchedulerReturn(c)
  \/ \E p \in Procs, c \in CPUS : UserStep(p, c) \/ KernelStep(p, c)

\* Every CPU runs its scheduler loop, and the process on it, for ever.  A
\* spinning acquire sees an intermittently free lock, hence strong
\* fairness.  The timer interrupt makes a process yield whenever it is in
\* user mode at a tick, however many system calls it makes in between.
\* (A CPU's scan and return steps are never enabled together, so one
\* condition covers both.)
Fairness ==
  /\ \A c \in CPUS : SF_vars(SchedulerScan(c) \/ SchedulerReturn(c))
  /\ \A p \in Procs :
        /\ SF_vars(\E c \in CPUS : KernelStep(p, c))
        /\ SF_vars(\E c \in CPUS : yield(p, c))

Spec == Init /\ [][Next]_vars /\ Fairness

-----------------------------------------------------------------------------
(* Properties.                                                             *)

TypeOK ==
  /\ state \in [Procs -> States]
  /\ pid \in [Procs -> 0 .. MaxPid + NPROC]
  /\ parent \in [Procs -> Procs \cup {None}]
  /\ chan \in [Procs -> Procs \cup {None}]
  /\ xstate \in [Procs -> Status \cup {0}]
  /\ nextpid \in 2 .. MaxPid + NPROC
  /\ plock \in [Procs -> CPUS \cup {None}]
  /\ waitLock \in CPUS \cup {None}
  /\ cproc \in [CPUS -> Procs \cup {None}]
  /\ cmode \in [CPUS -> {"scan", "run", "back"}]
  /\ cidx \in [CPUS -> Procs]
  /\ pc \in [Procs -> PCs]
  /\ idx \in [Procs -> 0 .. NPROC]
  /\ np \in [Procs -> Procs]
  /\ havekids \in [Procs -> BOOLEAN]

\* A process is RUNNING exactly when one CPU is executing it, and no two
\* CPUs ever hold the same process, even in the window after it switched
\* back (c->proc still set) and before its scheduler released p->lock.
\* This is what holding p->lock across swtch in scheduler/sched buys.
ExclusiveRun ==
  /\ \A q \in Procs :
       state[q] = "RUNNING" <=> \E c \in CPUS : Running(q, c)
  /\ \A c, d \in CPUS : c # d /\ cproc[c] # None => cproc[c] # cproc[d]

\* sched()'s checks (lines 505-510) hold whenever a process has switched
\* back to its scheduler: it holds p->lock, holds no other lock (noff is
\* 1), and is no longer RUNNING.
SchedHandoff ==
  \A c \in CPUS : cmode[c] = "back" =>
     LET p == cproc[c] IN
     /\ plock[p] = c /\ state[p] # "RUNNING"
     /\ waitLock # c
     /\ \A q \in Procs \ {p} : plock[q] # c

\* A live process's parent pointer names a live, non-exited process: when
\* a parent exits its children (zombies included) are already init's, so
\* no pointer can outlive a slot that wait() frees and fork() reuses.
ParentLive ==
  \A q \in Procs :
     state[q] \notin {"UNUSED"} /\ parent[q] # None =>
        state[parent[q]] \notin {"UNUSED", "ZOMBIE"}

\* Pids of slots in use are distinct and below nextpid (allocpid under
\* pid_lock; never reused).
UniquePids ==
  /\ \A q \in Procs : state[q] # "UNUSED" => 0 < pid[q] /\ pid[q] < nextpid
  /\ \A q, r \in Procs :
       q # r /\ state[q] # "UNUSED" /\ state[r] # "UNUSED" => pid[q] # pid[r]

\* Every path back to user mode (forkret, yield, and each return of fork,
\* exit's callers, wait and kill) has released every lock it took: a
\* process running user code on c holds no p->lock and not wait_lock.
\* A lock kept would make every later acquire of it spin for ever.
UserModeHoldsNoLock ==
  \A p \in Procs, c \in CPUS :
     Running(p, c) /\ pc[p] = "user" =>
        /\ waitLock # c
        /\ \A q \in Procs : plock[q] # c

\* p is inside wait() (anywhere between acquiring wait_lock and return).
InWait(p) == pc[p] \in {"wait_scan", "wait_woken", "wait_relock"}

HasZombieChild(p) ==
  \E q \in Procs : parent[q] = p /\ state[q] = "ZOMBIE"

\* A wait() that has a ZOMBIE child eventually returns: the child's
\* exit() wakes a parent asleep on itself and no wakeup is lost between
\* the parent's scan and its sleep.
WaitReturns ==
  \A p \in Procs : (InWait(p) /\ HasZombieChild(p)) ~> ~InWait(p)

\* Every RUNNABLE process is eventually run by some CPU's round-robin scan.
NoStarvation ==
  \A p \in Procs : state[p] = "RUNNABLE" ~> state[p] = "RUNNING"

\* The table implements the slot life cycle of ProcStates: every step
\* moves at most one slot along an edge of the diagram (a failed fork
\* never makes a slot RUNNABLE), and at most one process per CPU runs.
Life == INSTANCE ProcStates WITH Slots <- Procs, NCPU <- Cardinality(CPUS),
                                 st <- state
LifeCycle == Life!Spec

=============================================================================
