---------------------------- MODULE WaitableEvent ----------------------------
(***************************************************************************)
(* base::WaitableEvent as implemented for POSIX in                         *)
(* base/synchronization/waitable_event_posix.cc.                           *)
(*                                                                         *)
(* Every event has a kernel: a lock, the signaled flag and a list of       *)
(* waiters.  A blocking wait allocates a SyncWaiter on its stack (a fired  *)
(* flag, the signaling event, a lock and a condition variable) and puts a  *)
(* pointer to it in the lists; there is one per thread, so the thread      *)
(* names its SyncWaiter.  A step of the model is what one thread does      *)
(* between two points where it can be made to wait for another: the        *)
(* acquisition of a kernel lock or of a SyncWaiter's lock, and the wait on *)
(* the condition variable.  Releases are folded into the step before them, *)
(* except the one that ends Signal, which the callers' right to delete the *)
(* event depends on.                                                       *)
(***************************************************************************)
EXTENDS Integers, Sequences

CONSTANTS Threads,      \* threads that signal and wait
          Events,       \* the events, named by their addresses
          ManualReset,  \* the events constructed with manual_reset = true
          NoThread,     \* the holder of a free lock
          NoEvent       \* a null WaitableEvent*

ASSUME ConstantsAssumption ==
  /\ Events \subseteq Nat
  /\ ManualReset \subseteq Events
  /\ NoThread \notin Threads
  /\ NoEvent \notin Events

VARIABLES
  signaled,   \* kernel_->signaled_
  waiters,    \* kernel_->waiters_
  lock,       \* the holder of kernel_->lock_
  fired,      \* SyncWaiter::fired_
  got,        \* SyncWaiter::signaling_event_; also set by a wait that does not block
  pc,         \* where each thread is
  op,         \* the call a thread is in
  waitables,  \* the events of the call
  todo,       \* of those, the ones still to be locked (EnqueueMany) or dequeued
  ret,        \* return_value of TimedWait: did the wait succeed?
  firing      \* history: the waiters fired by the Signal a thread is in

vars == <<signaled, waiters, lock, fired, got, pc, op, waitables, todo, ret, firing>>
kernel == <<signaled, waiters, lock>>
syncWaiter == <<fired, got>>
call == <<op, waitables, todo, ret>>

\* "signal", "unlock": inside Signal, holding the kernel lock.  "lock": inside
\* EnqueueMany.  "check": at the top of the waiting loop, holding the
\* SyncWaiter's lock.  "cv": in ConditionVariable::Wait; "woken": notified, and
\* about to retake the SyncWaiter's lock.  "dequeue": leaving the wait.
PC == {"idle", "signal", "unlock", "lock", "check", "cv", "woken", "dequeue"}

\* Wait is TimedWait with a negative max_time, which never times out.
Op == {"none", "Signal", "Wait", "TimedWait", "WaitMany"}

Types ==
  /\ signaled \in [Events -> BOOLEAN]
  /\ waiters \in [Events -> Seq(Threads)]
  /\ lock \in [Events -> Threads \union {NoThread}]
  /\ fired \in [Threads -> BOOLEAN]
  /\ got \in [Threads -> Events \union {NoEvent}]
  /\ pc \in [Threads -> PC]
  /\ op \in [Threads -> Op]
  /\ waitables \in [Threads -> SUBSET Events]
  /\ todo \in [Threads -> SUBSET Events]
  /\ ret \in [Threads -> BOOLEAN]
  /\ firing \in [Threads -> SUBSET Threads]
  /\ \A t \in Threads : pc[t] = "idle" <=> op[t] = "none"

\* The types; and a lock is held only inside Signal and EnqueueMany, so that no call
\* returns or sleeps with one.
TypeOK ==
  /\ Types
  /\ \A e \in Events : lock[e] # NoThread => pc[lock[e]] \in {"signal", "unlock", "lock"}

\* WaitableEvent::WaitableEvent: initially_signaled is the caller's choice.
Init ==
  /\ signaled \in [Events -> BOOLEAN]
  /\ waiters = [e \in Events |-> <<>>]
  /\ lock = [e \in Events |-> NoThread]
  /\ fired = [t \in Threads |-> FALSE]
  /\ got = [t \in Threads |-> NoEvent]
  /\ pc = [t \in Threads |-> "idle"]
  /\ op = [t \in Threads |-> "none"]
  /\ waitables = [t \in Threads |-> {}]
  /\ todo = [t \in Threads |-> {}]
  /\ ret = [t \in Threads |-> FALSE]
  /\ firing = [t \in Threads |-> {}]

------------------------------------------------------------------------------
(* Helpers *)

Free(e) == lock[e] = NoThread

Contains(q, t) == \E i \in 1..Len(q) : q[i] = t

DequeueForgets(q, t) == q

\* WaitableEventKernel::Dequeue: erase the first entry that is t, if any.
Dequeue(q, t) ==
  IF Contains(q, t)
  THEN LET k == CHOOSE i \in 1..Len(q) : q[i] = t /\ \A j \in 1..(i - 1) : q[j] # t
       IN  [i \in 1..(Len(q) - 1) |-> IF i < k THEN q[i] ELSE q[i + 1]]
  ELSE q

ConsumeForgets(e) == UNCHANGED signaled

\* A wait that finds e signaled takes the signal of an auto-reset event.
Consume(e) == signaled' = IF e \in ManualReset THEN signaled
                                               ELSE [signaled EXCEPT ![e] = FALSE]

DisableForgets(t) == UNCHANGED fired

\* SyncWaiter::Disable.
Disable(t) == fired' = [fired EXCEPT ![t] = TRUE]

BroadcastLost(w) == pc[w]

\* cv_.Broadcast() of the SyncWaiter w: where it leaves thread w.
Broadcast(w) == IF pc[w] = "cv" THEN "woken" ELSE pc[w]

\* finite_time in TimedWait.
FiniteTime(t) == op[t] = "TimedWait"

\* The call returns, and with it goes its stack frame: the SyncWaiter too.
Return(t) == /\ pc' = [pc EXCEPT ![t] = "idle"]
             /\ op' = [op EXCEPT ![t] = "none"]
             /\ waitables' = [waitables EXCEPT ![t] = {}]
             /\ todo' = [todo EXCEPT ![t] = {}]
             /\ ret' = [ret EXCEPT ![t] = FALSE]
             /\ fired' = [fired EXCEPT ![t] = FALSE]

------------------------------------------------------------------------------
(* Reset and IsSignaled *)

Reset(t, e) ==
  /\ pc[t] = "idle" /\ Free(e)
  /\ signaled' = [signaled EXCEPT ![e] = FALSE]
  /\ UNCHANGED <<waiters, lock, syncWaiter, pc, call, firing>>

IsSignaled(t, e) ==
  /\ pc[t] = "idle" /\ Free(e)
  /\ signaled[e]
  /\ Consume(e)
  /\ got' = [got EXCEPT ![t] = e]
  /\ UNCHANGED <<waiters, lock, fired, pc, call, firing>>

------------------------------------------------------------------------------
(* Signal.  On a signaled event it returns at once and changes nothing. *)

Signal(t, e) ==
  /\ pc[t] = "idle" /\ Free(e)
  /\ ~signaled[e]
  /\ lock' = [lock EXCEPT ![e] = t]
  /\ pc' = [pc EXCEPT ![t] = "signal"]
  /\ op' = [op EXCEPT ![t] = "Signal"]
  /\ waitables' = [waitables EXCEPT ![t] = {e}]
  /\ UNCHANGED <<signaled, waiters, syncWaiter, todo, ret, firing>>

StopsAtOneNever(e) == FALSE

\* Signal wakes one waiter of an auto-reset event, all of a manual-reset one.
StopsAtOne(e) == e \notin ManualReset

\* The loop of SignalOne and SignalAll: SyncWaiter::Fire on the first waiter,
\* whose lock must be free, and its removal from the list.  (SignalAll clears
\* the list after the loop; nobody else sees the list before the unlock.)  A
\* waiter that has already fired refuses, and the loop goes on; SignalOne
\* stops at the first one that accepts.
Fire(t, e) ==
  /\ pc[t] = "signal" /\ e \in waitables[t]
  /\ waiters[e] # <<>>
  /\ LET w == Head(waiters[e]) IN
       /\ pc[w] # "check"
       /\ waiters' = [waiters EXCEPT ![e] = Tail(@)]
       /\ \/ /\ fired[w]
             /\ UNCHANGED <<syncWaiter, pc, firing>>
          \/ /\ ~fired[w]
             /\ fired' = [fired EXCEPT ![w] = TRUE]
             /\ got' = [got EXCEPT ![w] = e]
             /\ firing' = [firing EXCEPT ![t] = @ \union {w}]
             /\ pc' = [x \in Threads |->
                         IF x = w THEN Broadcast(w)
                         ELSE IF x = t /\ StopsAtOne(e) THEN "unlock"
                         ELSE pc[x]]
  /\ UNCHANGED <<signaled, lock, call>>

\* Nobody left to wake: the event becomes signaled.
SignalRaise(t, e) ==
  /\ pc[t] = "signal" /\ e \in waitables[t]
  /\ waiters[e] = <<>>
  /\ signaled' = [signaled EXCEPT ![e] = TRUE]
  /\ pc' = [pc EXCEPT ![t] = "unlock"]
  /\ UNCHANGED <<waiters, lock, syncWaiter, call, firing>>

SignalReturn(t, e) ==
  /\ pc[t] = "unlock" /\ e \in waitables[t]
  /\ lock' = [lock EXCEPT ![e] = NoThread]
  /\ firing' = [firing EXCEPT ![t] = {}]
  /\ Return(t)
  /\ UNCHANGED <<signaled, waiters, got>>

------------------------------------------------------------------------------
(* Wait, TimedWait and WaitMany *)

EnqueueLastOnly(t, S) ==
  waiters' = [e \in Events |-> IF e \in S /\ \A x \in S : x <= e
                              THEN Append(waiters[e], t) ELSE waiters[e]]

Enqueue(t, S) ==
  waiters' = [e \in Events |-> IF e \in S THEN Append(waiters[e], t) ELSE waiters[e]]

\* A new SyncWaiter in the list of every event of the call, and the top of the
\* waiting loop with its lock held.
Block(t, S) ==
  /\ fired' = [fired EXCEPT ![t] = FALSE]
  /\ got' = [got EXCEPT ![t] = NoEvent]
  /\ Enqueue(t, S)
  /\ pc' = [pc EXCEPT ![t] = "check"]
  /\ todo' = [todo EXCEPT ![t] = S]

TimedWait(t, e, kind) ==
  /\ pc[t] = "idle" /\ Free(e)
  /\ \/ /\ signaled[e]
        /\ Consume(e)
        /\ got' = [got EXCEPT ![t] = e]
        /\ UNCHANGED <<waiters, fired, pc, call>>
     \/ /\ ~signaled[e]
        /\ Block(t, {e})
        /\ op' = [op EXCEPT ![t] = kind]
        /\ waitables' = [waitables EXCEPT ![t] = {e}]
        /\ UNCHANGED <<signaled, ret>>
  /\ UNCHANGED <<lock, firing>>

WaitMany(t, S) ==
  /\ pc[t] = "idle"
  /\ pc' = [pc EXCEPT ![t] = "lock"]
  /\ op' = [op EXCEPT ![t] = "WaitMany"]
  /\ waitables' = [waitables EXCEPT ![t] = S]
  /\ todo' = [todo EXCEPT ![t] = S]
  /\ UNCHANGED <<kernel, syncWaiter, ret, firing>>

UnwindKeeps(t) == UNCHANGED lock

\* EnqueueMany found a signaled event: its callers release what they have locked.
Unwind(t) == lock' = [x \in Events |-> IF lock[x] = t THEN NoThread ELSE lock[x]]

\* One level of EnqueueMany: lock e.  If it is signaled, take it and unwind,
\* releasing every lock; if it is the last, enqueue everywhere, then release.
EnqueueManyAt(t, e) ==
  /\ Free(e)
  /\ \/ /\ signaled[e]
        /\ Consume(e)
        /\ got' = [got EXCEPT ![t] = e]
        /\ Unwind(t)
        /\ Return(t)
        /\ UNCHANGED waiters
     \/ /\ ~signaled[e]
        /\ todo[t] # {e}
        /\ lock' = [lock EXCEPT ![e] = t]
        /\ todo' = [todo EXCEPT ![t] = @ \ {e}]
        /\ UNCHANGED <<signaled, waiters, syncWaiter, pc, op, waitables, ret>>
     \/ /\ ~signaled[e]
        /\ todo[t] = {e}
        /\ lock' = [x \in Events |-> IF lock[x] = t THEN NoThread ELSE lock[x]]
        /\ Block(t, waitables[t])
        /\ UNCHANGED <<signaled, op, waitables, ret>>
  /\ UNCHANGED firing

NextInAnyOrder(t, e) == e \in todo[t]

\* cmp_fst_addr: the locks are taken in the order of the events' addresses.
NextInOrder(t, e) == e \in todo[t] /\ \A x \in todo[t] : e <= x

EnqueueMany(t) ==
  /\ pc[t] = "lock"
  /\ \E e \in Events : NextInOrder(t, e) /\ EnqueueManyAt(t, e)

\* The three ways through the body of the waiting loop.
SeeFired(t) ==
  /\ pc[t] = "check" /\ fired[t]
  /\ ret' = [ret EXCEPT ![t] = TRUE]
  /\ pc' = [pc EXCEPT ![t] = "dequeue"]
  /\ UNCHANGED <<kernel, syncWaiter, op, waitables, todo, firing>>

TimeOut(t) ==
  /\ pc[t] = "check" /\ ~fired[t] /\ FiniteTime(t)
  /\ ret' = [ret EXCEPT ![t] = FALSE]
  /\ Disable(t)
  /\ pc' = [pc EXCEPT ![t] = "dequeue"]
  /\ UNCHANGED <<kernel, got, op, waitables, todo, firing>>

CvWait(t) ==
  /\ pc[t] = "check" /\ ~fired[t]
  /\ pc' = [pc EXCEPT ![t] = "cv"]
  /\ UNCHANGED <<kernel, syncWaiter, call, firing>>

\* The condition variable returns because of the broadcast in Fire ...
CvNotified(t) ==
  /\ pc[t] = "woken"
  /\ pc' = [pc EXCEPT ![t] = "check"]
  /\ UNCHANGED <<kernel, syncWaiter, call, firing>>

\* ... or because its time is up ...
CvExpired(t) ==
  /\ pc[t] = "cv" /\ FiniteTime(t)
  /\ pc' = [pc EXCEPT ![t] = "check"]
  /\ UNCHANGED <<kernel, syncWaiter, call, firing>>

\* ... or for no reason at all.
CvSpurious(t) ==
  /\ pc[t] = "cv" /\ ~FiniteTime(t)
  /\ pc' = [pc EXCEPT ![t] = "check"]
  /\ UNCHANGED <<kernel, syncWaiter, call, firing>>

SkipsSignaledLock(t, e) == Free(e) \/ (op[t] = "WaitMany" /\ e = got[t])

\* Every list is left under its event's lock, the signaling event's too.
LeaveLock(t, e) == Free(e)

\* Leave the list of e, under its lock.  WaitMany only takes and releases the
\* lock of the event that fired it; TimedWait calls Dequeue all the same.
LeaveList(t, e) ==
  /\ pc[t] = "dequeue" /\ e \in todo[t]
  /\ LeaveLock(t, e)
  /\ waiters' = [waiters EXCEPT ![e] =
                   IF op[t] = "WaitMany" /\ e = got[t] THEN @ ELSE Dequeue(@, t)]
  /\ \/ todo[t] = {e} /\ Return(t)
     \/ /\ todo[t] # {e}
        /\ todo' = [todo EXCEPT ![t] = @ \ {e}]
        /\ UNCHANGED <<fired, pc, op, waitables, ret>>
  /\ UNCHANGED <<signaled, lock, got, firing>>

------------------------------------------------------------------------------

ThreadStep(t) ==
  \/ \E e \in Events : Fire(t, e) \/ SignalRaise(t, e) \/ SignalReturn(t, e) \/ LeaveList(t, e)
  \/ EnqueueMany(t)
  \/ SeeFired(t) \/ TimeOut(t) \/ CvWait(t) \/ CvNotified(t) \/ CvExpired(t)

Next ==
  \E t \in Threads :
    \/ ThreadStep(t)
    \/ CvSpurious(t)
    \/ \E e \in Events : Reset(t, e) \/ IsSignaled(t, e) \/ Signal(t, e)
    \/ \E e \in Events, kind \in {"Wait", "TimedWait"} : TimedWait(t, e, kind)
    \/ \E S \in (SUBSET Events) \ {{}} : WaitMany(t, S)

Spec == Init /\ [][Next]_vars

\* Threads keep running, and a mutex that is released over and over is in the
\* end acquired by each thread that wants it.  TimeOut: the clock reaches
\* end_time although the loop may go round before that.  Nothing is assumed of
\* callers: no Signal need ever come, and spurious wake-ups need not happen.
Fairness ==
  \A t \in Threads :
    /\ WF_vars(ThreadStep(t))
    /\ SF_vars(TimeOut(t))
    /\ SF_vars(EnqueueMany(t))
    /\ SF_vars(\E e \in Events : Fire(t, e))
    /\ SF_vars(\E e \in Events : LeaveList(t, e))

FairSpec == Spec /\ Fairness

------------------------------------------------------------------------------
(* Properties *)

InWait(t) == pc[t] \in {"check", "cv", "woken", "dequeue"}
Asleep(t) == pc[t] \in {"check", "cv", "woken"} /\ ~fired[t]

\* TimedWait that returns false has absorbed no signal: the Disable() under the
\* SyncWaiter's lock closes the window between the time-out and Dequeue.
TimedOutWaitAbsorbsNothing ==
  \A t \in Threads : pc[t] = "dequeue" /\ ~ret[t] => got[t] = NoEvent

\* A wait list points only at SyncWaiters that still exist: the stack frame of a
\* wait is left only after the waiter is out of the list of every event.
NoDanglingWaiter ==
  \A e \in Events, t \in Threads :
    Contains(waiters[e], t) => InWait(t) /\ e \in todo[t]

\* No thread sleeps on an event that is signaled: neither the check in TimedWait
\* nor the lock-by-lock check of EnqueueMany can miss a concurrent Signal.
NoSleeperOnSignaledEvent ==
  \A e \in Events, t \in Threads :
    signaled[e] /\ Asleep(t) => e \notin waitables[t]

\* The guarantee that lets a waiter delete the event as soon as its wait returns:
\* no Signal that fired it is still inside the event.
SignalCompletesBeforeWaitReturns ==
  \A s \in Threads : \A w \in firing[s] : InWait(w) /\ fired[w]

\* Signal of an auto-reset event is spent once: one waiter fired, or none and the
\* event left signaled.
AutoResetSignalSpentOnce ==
  \A s \in Threads, e \in Events \ ManualReset :
    pc[s] = "unlock" /\ waitables[s] = {e} =>
      /\ \A v, w \in firing[s] : v = w
      /\ signaled[e] <=> firing[s] = {}

\* Concurrent WaitMany calls never lock each other out: no set of threads each
\* wants a kernel lock that another of the set holds.
NoCircularLockWait ==
  ~ \E S \in (SUBSET Threads) \ {{}} :
      \A t \in S : \E e \in waitables[t] : pc[t] = "lock" /\ NextInOrder(t, e) /\ lock[e] \in S

\* Every wait that is due to end does: one that was fired, and one with a finite
\* time-out, whatever the other threads do.
DueWaitsReturn ==
  \A t \in Threads :
    (InWait(t) /\ (fired[t] \/ FiniteTime(t))) ~> (pc[t] = "idle")

\* The kernel implements the contract of EventContract: signals are tokens that
\* are neither lost nor duplicated.
Contract == INSTANCE EventContract WITH
  avail <- {e \in Events : signaled[e]},
  waiting <- [t \in Threads |-> IF Asleep(t) THEN waitables[t] ELSE {}],
  got <- got

ImplementsContract == Contract!Spec
==============================================================================
