----------------------------- MODULE SigDelivery -----------------------------
(***************************************************************************)
(* What the signal subsystem promises one process, as spec.md states it   *)
(* ("Signal Subsystem"), with delivery as one atomic step: raise sets a   *)
(* pending bit; the delivery loop takes a pending, unmasked signal, never *)
(* while a user handler is in flight nor once the process is killed,     *)
(* applies its action and clears the bit; a stopped process only takes    *)
(* a continue-class or kill-class signal; sigret restores the context and *)
(* mask that the dispatch saved.  The order in which pending signals are  *)
(* taken is left free.  Signals refines this module.                      *)
(***************************************************************************)
EXTENDS FiniteSets

CONSTANTS Sig, SIGKILL, SIGSTOP, SIGCONT, SIG_DFL, SIG_IGN, Descs, DescMask,
          HVals, Ctx, NoFrame

VARIABLES
  pend,       \* pending signals
  msk,        \* the mask
  hnd,        \* handler of each signal
  stopped, killed,
  inflight,   \* a user handler runs (the reentrancy guard)
  ctx,        \* the user context that runs
  resume      \* <<context, mask>> that sigret restores, or NoFrame

avars == <<pend, msk, hnd, stopped, killed, inflight, ctx, resume>>

NonMaskable == {SIGKILL, SIGSTOP}

Unmasked(k) == k \in pend /\ k \notin (msk \ NonMaskable)

\* The built-in effect a handler value stands for.
Effect(k) ==
  LET h == hnd[k] IN
  CASE h = SIG_DFL -> (IF k = SIGSTOP THEN "stop"
                       ELSE IF k = SIGCONT THEN "cont" ELSE "kill")
    [] h = SIGSTOP -> "stop"
    [] h = SIGCONT -> "cont"
    [] h = SIGKILL -> "kill"
    [] OTHER       -> "user"

\* Continue-class: the continue default or a handler mapped to continue.
ContinueClass(k) == Effect(k) = "cont"

Raise(s) ==
  /\ ~killed
  /\ pend' = pend \cup {s}
  /\ UNCHANGED <<msk, hnd, stopped, killed, inflight, ctx, resume>>

SetMask(m) ==
  /\ msk' = m \ NonMaskable
  /\ UNCHANGED <<pend, hnd, stopped, killed, inflight, ctx, resume>>

\* A handler is installed for a maskable signal.
Install(s, a) ==
  /\ s \notin NonMaskable
  /\ hnd' = [hnd EXCEPT ![s] = a]
  /\ UNCHANGED <<pend, msk, stopped, killed, inflight, ctx, resume>>

\* The effect of taking k; a user handler gets its entry and local mask
\* (from a pointer that is no descriptor, whatever the copy produced).
Apply(k) ==
  CASE Effect(k) = "stop" -> /\ stopped' = TRUE
                             /\ UNCHANGED <<killed, inflight, msk, ctx, resume>>
    [] Effect(k) = "cont" -> /\ stopped' = FALSE
                             /\ UNCHANGED <<killed, inflight, msk, ctx, resume>>
    [] Effect(k) = "kill" -> /\ killed' = TRUE
                             /\ UNCHANGED <<stopped, inflight, msk, ctx, resume>>
    [] Effect(k) = "user" ->
         /\ inflight' = TRUE
         /\ resume' = <<ctx, msk>>
         /\ \/ /\ hnd[k] \in Descs /\ ctx' = hnd[k]
               /\ msk' = DescMask[hnd[k]] \ NonMaskable
            \/ /\ hnd[k] \notin Descs /\ ctx' = "garbage"
               /\ msk' \in SUBSET (Sig \ NonMaskable)
         /\ UNCHANGED <<stopped, killed>>

\* The delivery loop takes k: pending bit cleared in every case.
Deliver(k) ==
  /\ ~killed /\ ~inflight /\ ~stopped
  /\ Unmasked(k) /\ hnd[k] # SIG_IGN
  /\ Apply(k)
  /\ pend' = pend \ {k}
  /\ UNCHANGED hnd

Ignore(k) ==
  /\ ~killed /\ ~inflight /\ ~stopped
  /\ Unmasked(k) /\ hnd[k] = SIG_IGN
  /\ pend' = pend \ {k}
  /\ UNCHANGED <<msk, hnd, stopped, killed, inflight, ctx, resume>>

\* The stop-wait: a continue-class or the kill signal ends it.
Resume(k) ==
  /\ ~killed /\ ~inflight /\ stopped
  /\ Unmasked(k) /\ (ContinueClass(k) \/ k = SIGKILL)
  /\ IF k = SIGKILL THEN /\ killed' = TRUE /\ UNCHANGED stopped
                    ELSE /\ stopped' = FALSE /\ UNCHANGED killed
  /\ pend' = pend \ {k}
  /\ UNCHANGED <<msk, hnd, inflight, ctx, resume>>

\* sigret from the handler's stub.
Return ==
  /\ inflight /\ ctx \in Descs
  /\ ctx' = resume[1] /\ msk' = resume[2]
  /\ inflight' = FALSE /\ resume' = NoFrame
  /\ UNCHANGED <<pend, hnd, stopped, killed>>

\* sigret outside a handler: the spec does not say what it restores.
StraySigret ==
  /\ ~inflight
  /\ ctx' \in Ctx /\ msk' \in SUBSET (Sig \ NonMaskable)
  /\ UNCHANGED <<pend, hnd, stopped, killed, inflight, resume>>

AInit ==
  /\ pend = {} /\ msk = {} /\ hnd = [s \in Sig |-> SIG_DFL]
  /\ stopped = FALSE /\ killed = FALSE /\ inflight = FALSE
  /\ ctx = "main" /\ resume = NoFrame

ANext ==
  \/ \E s \in Sig : Raise(s)
  \/ \E m \in SUBSET Sig : SetMask(m)
  \/ \E s \in Sig, a \in HVals : Install(s, a)
  \/ \E k \in Sig : Deliver(k) \/ Ignore(k) \/ Resume(k)
  \/ Return \/ StraySigret

SafeSpec == AInit /\ [][ANext]_avars

====
