------------------------------ MODULE Signals ------------------------------
(***************************************************************************)
(* The signal subsystem of src/kernel/proc.c for one process T: its       *)
(* pending set, mask and handler table; kill() from other processes;      *)
(* T's system calls sigprocmask, sigaction and sigret; and the delivery    *)
(* loop signalhandler() with search_cont_signals, turnoff_sigbit and       *)
(* usersignalhandler, run on every return to user mode.                    *)
(*                                                                         *)
(* A 32-bit word of signal bits is a set of signal numbers.  A handler    *)
(* value is what the code stores and compares: a small integer sentinel    *)
(* (SIG_DFL, SIG_IGN, SIGSTOP, SIGCONT, SIGKILL) or a user pointer to a    *)
(* struct sigaction, a model value of Descs whose sa_handler and sigmask   *)
(* are given by DescMask.  The user context in the trapframe is "main"     *)
(* (the interrupted program) or the entry of a handler.                    *)
(*                                                                         *)
(* Every critical section under T's lock is one step: only T writes its   *)
(* mask, handlers, stopped and handling, so T's unlocked reads of them    *)
(* are exact; a kill() that lands between an unlocked read of pending and  *)
(* the locked update that follows only ORs in a bit, so it is ordered     *)
(* before or after the pair.  The p->lock leak of kill() is the subject    *)
(* of KillLeak, not of this module.                                        *)
(***************************************************************************)
EXTENDS Naturals, FiniteSets, Sequences, SequencesExt

CONSTANTS
  Sig,                     \* signal numbers other processes raise at T
  SIGKILL, SIGSTOP, SIGCONT,
  SIG_DFL, SIG_IGN,        \* handler sentinels (signal.h)
  Descs,                   \* user struct sigaction pointers
  DescMask,                \* [Descs -> SUBSET Sig]: their sigmask fields
  Acts,                    \* pointer values T passes to sigaction
  Installable,             \* signal numbers T passes to sigaction
  Masks,                   \* masks T passes to sigprocmask
  KStackAddr,              \* &act: a kernel stack address
  ForkedInHandler,         \* T is a child forked while a handler ran
  KillBudget,              \* bound on the kill() calls aimed at T
  Flood                    \* signals a sender raises at T without bound

HValsIn == {SIG_DFL, SIG_IGN, SIGSTOP, SIGCONT, SIGKILL} \cup Descs

ASSUME
  /\ Sig \subseteq 0 .. 31 /\ {SIGKILL, SIGSTOP, SIGCONT} \subseteq Sig
  /\ DescMask \in [Descs -> SUBSET Sig]
  /\ Masks \subseteq SUBSET Sig
  /\ Acts \subseteq HValsIn \cup {0}
  /\ Installable \subseteq Sig
  /\ ForkedInHandler \in BOOLEAN
  /\ KillBudget \in Nat
  /\ Flood \subseteq Sig

NonMaskable == {SIGKILL, SIGSTOP}
Sentinels == {SIG_DFL, SIG_IGN, SIGSTOP, SIGCONT, SIGKILL}
HVals == Sentinels \cup Descs \cup {KStackAddr}
Ctx == {"main", "garbage"} \cup Descs

\* The for(i = 0; i < 32; i++) of signalhandler visits the numbers of Sig
\* and, for each run of numbers outside Sig, its first one: an iteration
\* for a number that is never pending only checks killed and stopped, and
\* two such iterations in a row do the same as one.
Pos == Sig \cup {g \in 0 .. 31 : g \notin Sig /\ (g = 0 \/ g - 1 \in Sig)}
NextPos(k) == LET later == {j \in Pos : j > k} IN
              IF later = {} THEN 32 ELSE Min(later)

VARIABLES
  pending, mask, handlers,   \* pending_signals, signals_mask, signal_handlers
  stopped, handling, killed, \* stopped, signal_handling, killed
  maskBackup,                \* signals_mask_backup
  tf,                        \* user context in T's trapframe
  saved,                     \* trapframe copy at user_tf_backup (None: 0)
  pc, i, tj,                 \* T's kernel thread: place, loop index, bit
  frames,                    \* history: <<context, mask>> per dispatch
  kills                      \* kill() calls that reached T so far

vars == <<pending, mask, handlers, stopped, handling, killed, maskBackup,
          tf, saved, pc, i, tj, frames, kills>>

None == "none"

-----------------------------------------------------------------------------
(* Helpers translated from the code.                                       *)

\* is_pending_and_not_masked(signum): SIGKILL and SIGSTOP ignore the mask.
PendingUnmasked(s) == s \in pending /\ s \notin (mask \ NonMaskable)

\* Mutant: the new mask is stored without clearing SIGKILL and SIGSTOP.
sigprocmaskKeepAll(m) == mask' = m

\* sigprocmask(m): the stored mask never has SIGKILL or SIGSTOP.
sigprocmask(m) == mask' = m \ NonMaskable

\* Return to user mode through usertrap/usertrapret: a killed process
\* exits (trap.c); otherwise signalhandler() runs, and returns at once
\* while a user handler is in flight.  It runs after the system call, so
\* it sees the signal_handling the call left (sigret clears it).
TrapReturn ==
  IF killed THEN /\ pc' = "dead" /\ UNCHANGED i
  ELSE IF handling' THEN /\ pc' = "user" /\ UNCHANGED i
  ELSE /\ pc' = "sh" /\ i' = Min(Pos)

\* After iteration k: the next one, or back to user mode.
Continue(k) ==
  IF NextPos(k) = 32 THEN /\ pc' = "user" /\ UNCHANGED i
  ELSE /\ pc' = "sh" /\ i' = NextPos(k)

\* sigkill_func: killed = 1 (its SLEEPING test is on myproc(), which is
\* RUNNING here, so it never fires).
sigkill_func == killed' = TRUE

\* sigstop_func() and sigcont_func(): p->stopped = 1 / 0, with no lock.
sigstop_func == stopped' = TRUE

sigcont_func == stopped' = FALSE

-----------------------------------------------------------------------------
(* The delivery loop.                                                      *)

\* The action a handler value stands for, once SIG_IGN is ruled out.
Action(k) ==
  LET h == handlers[k] IN
  IF h = SIG_DFL THEN (IF k = SIGSTOP THEN "stop"
                       ELSE IF k = SIGCONT THEN "cont" ELSE "kill")
  ELSE IF h = SIGSTOP THEN "stop"
  ELSE IF h = SIGCONT THEN "cont"
  ELSE IF h = SIGKILL THEN "kill"
  ELSE "user"

dispatchVars == <<stopped, killed, mask, maskBackup, handling, saved, tf,
                  frames>>

\* Mutant: signals_mask_backup read after the handler mask is installed.
usersignalhandlerLateBackup(k) ==
  LET h == handlers[k] IN
  /\ \E entry \in (IF h \in Descs THEN {h} ELSE {"garbage"}),
        hm \in (IF h \in Descs THEN {DescMask[h]} ELSE SUBSET Sig) :
        /\ sigprocmask(hm)
        /\ maskBackup' = hm \ NonMaskable
        /\ tf' = entry
  /\ handling' = TRUE
  /\ saved' = tf
  /\ frames' = Append(frames, <<tf, mask>>)
  /\ UNCHANGED <<stopped, killed>>

\* usersignalhandler(p, k): copy sa_handler and sigmask in from the user
\* struct (from a kernel address the copyin fails and both locals keep
\* whatever the stack held), sigprocmask(sigmask) with the old mask kept
\* in signals_mask_backup, signal_handling = 1, the trapframe copied out
\* below sp, epc = handler, sp and ra at the sigret stub, a0 = k.
usersignalhandler(k) ==
  LET h == handlers[k] IN
  /\ \E entry \in (IF h \in Descs THEN {h} ELSE {"garbage"}),
        hm \in (IF h \in Descs THEN {DescMask[h]} ELSE SUBSET Sig) :
        /\ sigprocmask(hm)
        /\ tf' = entry
  /\ maskBackup' = mask
  /\ handling' = TRUE
  /\ saved' = tf
  /\ frames' = Append(frames, <<tf, mask>>)
  /\ UNCHANGED <<stopped, killed>>

\* Mutant: the second signal_handling test (line 941) dropped.
CheckNoGuard(k) ==
  \/ /\ ~PendingUnmasked(k)
     /\ Continue(k)
     /\ UNCHANGED <<dispatchVars, tj>>
  \/ /\ PendingUnmasked(k) /\ handlers[k] = SIG_IGN
     /\ Continue(k)
     /\ UNCHANGED <<dispatchVars, tj>>
  \/ /\ PendingUnmasked(k) /\ handlers[k] # SIG_IGN
     /\ CASE Action(k) = "stop" -> /\ sigstop_func
                                   /\ UNCHANGED <<killed, mask, maskBackup,
                                        handling, saved, tf, frames>>
          [] Action(k) = "cont" -> /\ sigcont_func
                                   /\ UNCHANGED <<killed, mask, maskBackup,
                                        handling, saved, tf, frames>>
          [] Action(k) = "kill" -> /\ sigkill_func
                                   /\ UNCHANGED <<stopped, mask, maskBackup,
                                        handling, saved, tf, frames>>
          [] Action(k) = "user" -> usersignalhandler(k)
     /\ pc' = "turnoff" /\ tj' = k
     /\ UNCHANGED i

\* The body of iteration k after the killed and stopped tests: if k is
\* pending and unmasked, return if a handler is in flight, skip it if
\* SIG_IGN (with no turnoff_sigbit), else act and go to turnoff_sigbit.
Check(k) ==
  \/ /\ ~PendingUnmasked(k)
     /\ Continue(k)
     /\ UNCHANGED <<dispatchVars, tj>>
  \/ /\ PendingUnmasked(k) /\ handling
     /\ pc' = "user"
     /\ UNCHANGED <<dispatchVars, i, tj>>
  \/ /\ PendingUnmasked(k) /\ ~handling /\ handlers[k] = SIG_IGN
     /\ Continue(k)
     /\ UNCHANGED <<dispatchVars, tj>>
  \/ /\ PendingUnmasked(k) /\ ~handling /\ handlers[k] # SIG_IGN
     /\ CASE Action(k) = "stop" -> /\ sigstop_func
                                   /\ UNCHANGED <<killed, mask, maskBackup,
                                        handling, saved, tf, frames>>
          [] Action(k) = "cont" -> /\ sigcont_func
                                   /\ UNCHANGED <<killed, mask, maskBackup,
                                        handling, saved, tf, frames>>
          [] Action(k) = "kill" -> /\ sigkill_func
                                   /\ UNCHANGED <<stopped, mask, maskBackup,
                                        handling, saved, tf, frames>>
          [] Action(k) = "user" -> usersignalhandler(k)
     /\ pc' = "turnoff" /\ tj' = k
     /\ UNCHANGED i

\* Loop head at i: return if killed, wait while stopped, else the body.
SignalLoop ==
  /\ pc = "sh" /\ UNCHANGED kills
  /\ \/ /\ killed
        /\ pc' = "user"
        /\ UNCHANGED <<dispatchVars, i, tj>>
     \/ /\ ~killed /\ stopped
        /\ pc' = "stopwait"
        /\ UNCHANGED <<dispatchVars, i, tj>>
     \/ /\ ~killed /\ ~stopped
        /\ Check(i)
  /\ UNCHANGED <<pending, handlers>>

\* The body of iteration i after the stop-wait loop was left by break.
SignalCheck ==
  /\ pc = "sh_check" /\ UNCHANGED kills
  /\ Check(i)
  /\ UNCHANGED <<pending, handlers>>

\* Mutant: the SIGCONT branch of search_cont_signals turns the bit off
\* without calling sigcont_func.
StopWaitNoCont ==
  LET contLike == {j \in Sig : PendingUnmasked(j) /\ handlers[j] = SIGCONT}
  IN
  /\ pc = "stopwait" /\ UNCHANGED kills
  /\ \/ /\ PendingUnmasked(SIGCONT)
        /\ tj' = SIGCONT /\ UNCHANGED <<killed, stopped>>
     \/ /\ ~PendingUnmasked(SIGCONT) /\ PendingUnmasked(SIGKILL)
        /\ sigkill_func /\ tj' = SIGKILL /\ UNCHANGED stopped
     \/ /\ ~PendingUnmasked(SIGCONT) /\ ~PendingUnmasked(SIGKILL)
        /\ contLike # {}
        /\ sigcont_func /\ tj' = Min(contLike) /\ UNCHANGED killed
  /\ pc' = "turnoff_cont"
  /\ UNCHANGED <<pending, mask, handlers, handling, maskBackup, tf, saved,
                 i, frames>>

\* while(p->stopped): search_cont_signals() succeeds on a pending,
\* unmasked SIGCONT, else SIGKILL, else the first signal whose handler is
\* SIGCONT; each is applied and its bit turned off, then break.  When it
\* fails T yields, which leaves every variable as it is.
StopWait ==
  LET contLike == {j \in Sig : PendingUnmasked(j) /\ handlers[j] = SIGCONT}
  IN
  /\ pc = "stopwait" /\ UNCHANGED kills
  /\ \/ /\ PendingUnmasked(SIGCONT)
        /\ sigcont_func /\ tj' = SIGCONT /\ UNCHANGED killed
     \/ /\ ~PendingUnmasked(SIGCONT) /\ PendingUnmasked(SIGKILL)
        /\ sigkill_func /\ tj' = SIGKILL /\ UNCHANGED stopped
     \/ /\ ~PendingUnmasked(SIGCONT) /\ ~PendingUnmasked(SIGKILL)
        /\ contLike # {}
        /\ sigcont_func /\ tj' = Min(contLike) /\ UNCHANGED killed
  /\ pc' = "turnoff_cont"
  /\ UNCHANGED <<pending, mask, handlers, handling, maskBackup, tf, saved,
                 i, frames>>

\* Mutant: pending & (1 << i) for pending & ~(1 << i).
turnoff_sigbitKeepOnly ==
  /\ pc \in {"turnoff", "turnoff_cont"} /\ UNCHANGED kills
  /\ pending' = pending \cap {tj}
  /\ IF pc = "turnoff" THEN Continue(i)
     ELSE /\ pc' = "sh_check" /\ UNCHANGED i
  /\ UNCHANGED <<mask, handlers, stopped, handling, killed, maskBackup, tf,
                 saved, tj, frames>>

\* turnoff_sigbit(p, tj): clear the bit under p->lock, then go on.
turnoff_sigbit ==
  /\ pc \in {"turnoff", "turnoff_cont"} /\ UNCHANGED kills
  /\ pending' = pending \ {tj}
  /\ IF pc = "turnoff" THEN Continue(i)
     ELSE /\ pc' = "sh_check" /\ UNCHANGED i
  /\ UNCHANGED <<mask, handlers, stopped, handling, killed, maskBackup, tf,
                 saved, tj, frames>>

-----------------------------------------------------------------------------
(* T in user mode, and other processes.                                    *)

\* kill(pid, s) from another process: under T's lock, fail if T is killed
\* or a ZOMBIE, else OR bit s into pending_signals.  The calls that fail
\* change nothing and are stuttering steps.  A call raising a signal of
\* Flood is not counted against KillBudget.
Kill(s) ==
  /\ pc # "dead" /\ ~killed
  /\ \/ s \in Flood /\ UNCHANGED kills
     \/ s \notin Flood /\ kills < KillBudget /\ kills' = kills + 1
  /\ pending' = pending \cup {s}
  /\ UNCHANGED <<mask, handlers, stopped, handling, killed, maskBackup, tf,
                 saved, pc, i, tj, frames>>

\* Any trap from user mode that changes no signal state (the timer
\* interrupt, a page fault, another system call), then the return path.
Trap ==
  /\ pc = "user" /\ UNCHANGED kills
  /\ UNCHANGED <<pending, mask, handlers, stopped, handling, killed,
                 maskBackup, tf, saved, tj, frames>>
  /\ TrapReturn

\* The sigprocmask system call.
SysSigprocmask(m) ==
  /\ pc = "user" /\ UNCHANGED kills
  /\ sigprocmask(m)
  /\ UNCHANGED <<pending, handlers, stopped, handling, killed, maskBackup,
                 tf, saved, tj, frames>>
  /\ TrapReturn

\* sigaction(s, act, oldact): -1 for SIGKILL, SIGSTOP or a null act; if
\* act == SIG_DFL the entry becomes &act (an address on T's kernel
\* stack), else act itself.  The copy to oldact goes to a local only.
sigaction(s, a) ==
  handlers' = IF s \in NonMaskable \/ a = 0 THEN handlers
              ELSE [handlers EXCEPT ![s] = IF a = SIG_DFL THEN KStackAddr
                                                           ELSE a]

\* The sigaction system call.
SysSigaction(s, a) ==
  /\ pc = "user" /\ UNCHANGED kills
  /\ sigaction(s, a)
  /\ UNCHANGED <<pending, mask, stopped, handling, killed, maskBackup, tf,
                 saved, tj, frames>>
  /\ TrapReturn

\* sigret(): under T's lock copy the trapframe back in from
\* user_tf_backup (from user address 0, the program text, when it is 0),
\* restore signals_mask_backup, clear user_tf_backup and signal_handling.
sigret ==
  /\ tf' = IF saved = None THEN "garbage" ELSE saved
  /\ mask' = maskBackup
  /\ saved' = None
  /\ handling' = FALSE

\* The handler function returns into the stub on its stack, which makes
\* the sigret system call.
HandlerReturn ==
  /\ pc = "user" /\ tf \in Descs /\ UNCHANGED kills
  /\ sigret
  /\ frames' = IF frames = <<>> THEN <<>>
               ELSE SubSeq(frames, 1, Len(frames) - 1)
  /\ TrapReturn
  /\ UNCHANGED <<pending, handlers, stopped, killed, maskBackup, tj>>

\* sigret called by user code outside a handler.
SysSigret ==
  /\ pc = "user" /\ tf \notin Descs /\ UNCHANGED kills
  /\ sigret
  /\ TrapReturn
  /\ UNCHANGED <<pending, handlers, stopped, killed, maskBackup, tj, frames>>

-----------------------------------------------------------------------------

\* The child of a fork() made inside handler h of signal k, whose parent
\* had mask pm when the signal came: allocproc's resets (pending 0, not
\* stopped, not handling), then fork copies the handlers, the mask (the
\* handler's own) and the trapframe (pc at the handler entry).  Neither
\* user_tf_backup nor signals_mask_backup is reset.  frames holds the
\* context the parent's sigret resumes.
forkInHandler(k, h, pm) ==
  /\ handlers = [s \in Sig |-> IF s = k THEN h ELSE SIG_DFL]
  /\ mask = DescMask[h] \ NonMaskable
  /\ tf = h
  /\ frames = <<<<"main", pm \ NonMaskable>>>>

\* T as allocproc leaves it (all handlers SIG_DFL, mask, pending, stopped
\* and signal_handling 0), returning to user mode from userinit or fork.
\* signals_mask_backup and user_tf_backup are not reset and keep the
\* values of the slot's last occupant.  With ForkedInHandler, T is a
\* child forked inside a handler.
Init ==
  /\ pending = {}
  /\ stopped = FALSE /\ handling = FALSE /\ killed = FALSE
  /\ maskBackup \in SUBSET (Sig \ NonMaskable)
  /\ saved \in {None, "garbage"}
  /\ pc = "user" /\ i = 0 /\ tj = 0 /\ kills = 0
  /\ IF ForkedInHandler
       THEN \E k \in Sig \ NonMaskable, h \in Descs, pm \in Masks :
              forkInHandler(k, h, pm)
       ELSE /\ handlers = [s \in Sig |-> SIG_DFL]
            /\ mask = {}
            /\ tf = "main"
            /\ frames = <<>>

Next ==
  \/ SignalLoop \/ SignalCheck \/ StopWait \/ turnoff_sigbit
  \/ Trap \/ HandlerReturn \/ SysSigret
  \/ \E m \in Masks : SysSigprocmask(m)
  \/ \E s \in Installable, a \in Acts : SysSigaction(s, a)
  \/ \E s \in Sig : Kill(s)

\* T's kernel thread runs whenever it is scheduled (ProcTable's
\* NoStarvation); the timer interrupt traps T out of user mode; a user
\* handler that was entered returns into its stub.
Fairness ==
  /\ WF_vars(SignalLoop) /\ WF_vars(SignalCheck)
  /\ WF_vars(StopWait) /\ WF_vars(turnoff_sigbit)
  /\ WF_vars(Trap) /\ WF_vars(HandlerReturn)

Spec == Init /\ [][Next]_vars /\ Fairness

-----------------------------------------------------------------------------
(* Properties.                                                             *)

TypeOK ==
  /\ pending \subseteq Sig /\ mask \subseteq Sig \ NonMaskable
  /\ handlers \in [Sig -> HVals]
  /\ {stopped, handling, killed} \subseteq BOOLEAN
  /\ maskBackup \subseteq Sig
  /\ tf \in Ctx /\ saved \in Ctx \cup {None}
  /\ pc \in {"user", "sh", "sh_check", "stopwait", "turnoff", "turnoff_cont",
             "dead"}
  /\ i \in Pos /\ tj \in 0 .. 31
  /\ frames \in Seq(Ctx \X SUBSET Sig)
  /\ kills \in 0 .. KillBudget

\* signal_handling guards against reentry: the delivery loop never
\* dispatches a second user handler while one is in flight, so at most one
\* interrupted context waits on T's user stack (spec: "no second signal
\* may be dispatched into a user handler until the in-flight one returns").
NoNestedDispatch == Len(frames) <= 1

\* When a handler returns through its stub, sigret restores exactly the
\* user context and mask that usersignalhandler interrupted: the
\* trapframe copied out to user_tf_backup and signals_mask_backup.
SigretResumes ==
  [][HandlerReturn => /\ frames # <<>>
                      /\ tf' = Last(frames)[1]
                      /\ mask' = Last(frames)[2]]_vars

\* A signal that is pending and unmasked is eventually handled by the
\* delivery loop in signalhandler (its pending bit cleared by
\* turnoff_sigbit) or masked again, unless T is killed or stopped first.
Delivered ==
  \A k \in Sig :
     PendingUnmasked(k) ~> (~PendingUnmasked(k) \/ killed \/ stopped)

\* A pending SIGKILL is eventually acted on: T is marked killed.  The spec
\* applies the kill-class action at SIGKILL's turn of every delivery pass,
\* and lets the reentrancy guard hold back only a second dispatch into a
\* user handler.
KillTaken == SIGKILL \in pending ~> killed

\* A stopped process is continued: once a continue-class signal (SIGCONT
\* with its default action, or any signal whose handler is SIGCONT) is
\* pending and unmasked, or SIGKILL is pending, the while(p->stopped)
\* loop of signalhandler, through search_cont_signals, eventually clears
\* stopped or sets killed.
ContClass(j) ==
  PendingUnmasked(j) /\ (handlers[j] = SIGCONT \/
                         (j = SIGCONT /\ handlers[j] = SIG_DFL))

StopCont ==
  (stopped /\ ((\E j \in Sig : ContClass(j)) \/ SIGKILL \in pending))
    ~> (~stopped \/ killed)

\* Signals implements the atomic delivery of SigDelivery: the bit of the
\* signal at turnoff_sigbit counts as cleared once its action is applied,
\* and the frame sigret restores is what usersignalhandler saved in
\* user_tf_backup and signals_mask_backup while signal_handling is set.
\* So the loop over the 32 numbers, restarted at every trap, with its
\* stop-wait and its two signal_handling tests, takes only signals the
\* spec lets it take, with the spec's effect, and sigret resumes the
\* saved frame.
Abs == INSTANCE SigDelivery WITH
  pend     <- IF pc \in {"turnoff", "turnoff_cont"} THEN pending \ {tj}
                                                   ELSE pending,
  msk      <- mask,
  hnd      <- handlers,
  inflight <- handling,
  ctx      <- tf,
  resume   <- IF handling THEN <<saved, maskBackup>> ELSE None,
  NoFrame  <- None

DeliveryRefined == Abs!SafeSpec

=============================================================================
