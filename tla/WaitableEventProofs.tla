------------------------ MODULE WaitableEventProofs ------------------------
(***************************************************************************)
(* Theorems about WaitableEvent, for any number of threads and events.     *)
(* The safety properties follow from the inductive invariant IInv.         *)
(***************************************************************************)
EXTENDS WaitableEvent, FiniteSets, TLAPS, SequenceTheorems, FiniteSetTheorems, WellFoundedInduction

----------------------------------------------------------------------------
(* The inductive invariant *)

\* No thread is twice in a list.
NoDup(q) == \A i, j \in 1..Len(q) : q[i] = q[j] => i = j

\* Signal holds the lock of its event; EnqueueMany holds the locks it has taken,
\* and their events have not been signaled since.
Locks ==
  \A t \in Threads :
    /\ pc[t] \in {"signal", "unlock"} => \E e \in Events : waitables[t] = {e} /\ lock[e] = t
    /\ pc[t] = "lock" =>
         /\ todo[t] \subseteq waitables[t]
         /\ \A e \in waitables[t] \ todo[t] : lock[e] = t /\ ~signaled[e]

\* What the stack frame of a call says.
Frames ==
  \A t \in Threads :
    /\ pc[t] \notin {"signal", "unlock"} => firing[t] = {}
    /\ pc[t] \in {"check", "cv", "woken"} => todo[t] = waitables[t]
    /\ pc[t] = "dequeue" => fired[t] /\ (~ret[t] => got[t] = NoEvent)
    /\ InWait(t) /\ ~fired[t] => got[t] = NoEvent

\* A list holds exactly the waiters that have still to leave it, and an unfired
\* waiter is in the list of each of its events, none of which is signaled.
Lists ==
  \A e \in Events :
    /\ NoDup(waiters[e])
    /\ \A t \in Threads :
         /\ Contains(waiters[e], t) => InWait(t) /\ e \in todo[t] /\ got[t] # e
         /\ Asleep(t) /\ e \in waitables[t] => Contains(waiters[e], t) /\ ~signaled[e]

\* The waiters a Signal fired cannot have left the event it holds.
Signals ==
  \A s \in Threads :
    /\ \A w \in firing[s] : InWait(w) /\ fired[w] /\ waitables[s] \subseteq todo[w]
    /\ \A e \in waitables[s] :
         /\ pc[s] = "signal" => ~signaled[e] /\ (e \notin ManualReset => firing[s] = {})
         /\ pc[s] = "unlock" /\ e \notin ManualReset =>
              /\ \A v, w \in firing[s] : v = w
              /\ signaled[e] <=> firing[s] = {}

IInv == Types /\ Locks /\ Frames /\ Lists /\ Signals

----------------------------------------------------------------------------
(* Lists of waiters *)

\* Erasing an entry of a list of threads leaves a list of threads.
LEMMA DequeueType ==
  ASSUME NEW q \in Seq(Threads), NEW t \in Threads
  PROVE  Dequeue(q, t) \in Seq(Threads)
<1>1. CASE ~Contains(q, t)
  BY <1>1 DEF Dequeue
<1>2. CASE Contains(q, t)
  <2> DEFINE P(i) == q[i] = t /\ \A j \in 1..(i - 1) : q[j] # t
             k == CHOOSE i \in 1..Len(q) : P(i)
  <2>1. Dequeue(q, t) = [i \in 1..(Len(q) - 1) |-> IF i < k THEN q[i] ELSE q[i + 1]]
    BY <1>2 DEF Dequeue
  <2>2. Len(q) \in Nat /\ Len(q) - 1 \in Nat
    BY <1>2 DEF Contains
  <2>3. \A i \in 1..(Len(q) - 1) : (IF i < k THEN q[i] ELSE q[i + 1]) \in Threads
    BY <2>2
  <2> QED
    BY <2>1, <2>2, <2>3
<1> QED
  BY <1>1, <1>2

\* Removing the head of a list without duplicates removes that thread.
LEMMA TailFacts ==
  ASSUME NEW q \in Seq(Threads), q # <<>>, NoDup(q)
  PROVE  /\ NoDup(Tail(q))
         /\ Contains(q, Head(q))
         /\ \A x : Contains(Tail(q), x) <=> Contains(q, x) /\ x # Head(q)
<1>1. Len(q) \in Nat \ {0} /\ Len(Tail(q)) = Len(q) - 1 /\ Head(q) = q[1]
  OBVIOUS
<1>2. \A i \in 1..(Len(q) - 1) : Tail(q)[i] = q[i + 1] /\ i + 1 \in 1..Len(q) /\ i + 1 # 1
  OBVIOUS
<1>3. NoDup(Tail(q))
  BY <1>1, <1>2 DEF NoDup
<1>4. Contains(q, Head(q))
  BY <1>1 DEF Contains
<1>5. ASSUME NEW x, Contains(Tail(q), x)
      PROVE  Contains(q, x) /\ x # Head(q)
  BY <1>1, <1>2, <1>5 DEF Contains, NoDup
<1>6. ASSUME NEW x, Contains(q, x), x # Head(q)
      PROVE  Contains(Tail(q), x)
  <2>1. PICK i \in 1..Len(q) : q[i] = x
    BY <1>6 DEF Contains
  <2>2. i - 1 \in 1..(Len(q) - 1) /\ (i - 1) + 1 = i
    BY <1>1, <1>6, <2>1
  <2> QED
    BY <1>1, <1>2, <2>1, <2>2 DEF Contains
<1> QED
  BY <1>3, <1>4, <1>5, <1>6

\* Appending a new thread adds it.
LEMMA AppendFacts ==
  ASSUME NEW q \in Seq(Threads), NEW t \in Threads, NoDup(q), ~Contains(q, t)
  PROVE  /\ NoDup(Append(q, t))
         /\ \A x : Contains(Append(q, t), x) <=> Contains(q, x) \/ x = t
<1>1. Len(Append(q, t)) = Len(q) + 1 /\ Len(q) \in Nat
  OBVIOUS
<1>2. /\ \A i \in 1..Len(q) : Append(q, t)[i] = q[i]
      /\ Append(q, t)[Len(q) + 1] = t
  OBVIOUS
<1>3. \A i \in 1..(Len(q) + 1) : i \in 1..Len(q) \/ i = Len(q) + 1
  BY <1>1
<1>4. NoDup(Append(q, t))
  BY <1>1, <1>2, <1>3 DEF NoDup, Contains
<1>5. ASSUME NEW x, Contains(Append(q, t), x)
      PROVE  Contains(q, x) \/ x = t
  BY <1>1, <1>2, <1>3, <1>5 DEF Contains
<1>6. ASSUME NEW x, Contains(q, x) \/ x = t
      PROVE  Contains(Append(q, t), x)
  BY <1>1, <1>2, <1>6 DEF Contains
<1> QED
  BY <1>4, <1>5, <1>6

\* Dequeue removes the thread and no other.
LEMMA DequeueFacts ==
  ASSUME NEW q \in Seq(Threads), NEW t \in Threads, NoDup(q)
  PROVE  /\ NoDup(Dequeue(q, t))
         /\ \A x : Contains(Dequeue(q, t), x) <=> Contains(q, x) /\ x # t
<1>1. CASE ~Contains(q, t)
  BY <1>1 DEF Dequeue
<1>2. CASE Contains(q, t)
  <2> DEFINE P(i) == q[i] = t /\ \A j \in 1..(i - 1) : q[j] # t
             k == CHOOSE i \in 1..Len(q) : P(i)
             d == Dequeue(q, t)
  <2>1. d = [i \in 1..(Len(q) - 1) |-> IF i < k THEN q[i] ELSE q[i + 1]]
    BY <1>2 DEF Dequeue
  <2>2. Len(q) \in Nat \ {0}
    BY <1>2 DEF Contains
  <2>3. k \in 1..Len(q) /\ q[k] = t
    <3>1. PICK i \in 1..Len(q) : q[i] = t
      BY <1>2 DEF Contains
    <3>2. \A j \in 1..(i - 1) : q[j] # t
      BY <2>2, <3>1 DEF NoDup
    <3>3. \E m \in 1..Len(q) : P(m)
      BY <3>1, <3>2
    <3> QED
      BY <3>3
  <2> HIDE DEF k, P
  <2>4. Len(d) = Len(q) - 1 /\ Len(d) \in Nat
    BY <2>1, <2>2
  <2>5. \A i \in 1..Len(d) : d[i] = IF i < k THEN q[i] ELSE q[i + 1]
    BY <2>1, <2>2, <2>4
  <2> HIDE DEF d
  <2>6. NoDup(d)
    BY <2>2, <2>3, <2>4, <2>5 DEF NoDup
  <2>7. ASSUME NEW x, Contains(d, x)
        PROVE  Contains(q, x) /\ x # t
    BY <2>2, <2>3, <2>4, <2>5, <2>7 DEF Contains, NoDup
  <2>8. ASSUME NEW x, Contains(q, x), x # t
        PROVE  Contains(d, x)
    <3>1. PICK i \in 1..Len(q) : q[i] = x
      BY <2>8 DEF Contains
    <3>2. i # k
      BY <2>3, <2>8, <3>1
    <3>3. CASE i < k
      <4>1. i \in 1..Len(d) /\ d[i] = x
        BY <2>2, <2>3, <2>4, <2>5, <3>1, <3>3
      <4> QED
        BY <4>1 DEF Contains
    <3>4. CASE i > k
      <4>1. i - 1 \in 1..Len(d) /\ ~(i - 1 < k) /\ (i - 1) + 1 = i
        BY <2>2, <2>3, <2>4, <3>1, <3>4
      <4>2. d[i - 1] = x
        BY <2>5, <3>1, <4>1
      <4> QED
        BY <4>1, <4>2 DEF Contains
    <3> QED
      BY <2>2, <2>3, <3>1, <3>2, <3>3, <3>4
  <2> QED
    BY <2>6, <2>7, <2>8 DEF d
<1> QED
  BY <1>1, <1>2

----------------------------------------------------------------------------
(* Types *)

\* Taking a signal leaves the flags Boolean.
LEMMA ConsumeType ==
  ASSUME signaled \in [Events -> BOOLEAN], NEW e \in Events, Consume(e)
  PROVE  signaled' \in [Events -> BOOLEAN]
BY DEF Consume

\* Every step of every operation keeps the types.
LEMMA TypeStep == Types /\ [Next]_vars => Types'
<1> SUFFICES ASSUME Types, [Next]_vars
             PROVE  Types'
  OBVIOUS
<1> USE ConstantsAssumption DEF Types, PC, Op, kernel, syncWaiter, call
<1>0. CASE UNCHANGED vars
  BY <1>0 DEF vars
<1>1. ASSUME NEW t \in Threads, NEW e \in Events, Fire(t, e)
      PROVE  Types'
  <2> DEFINE w == Head(waiters[e])
  <2>1. w \in Threads /\ Tail(waiters[e]) \in Seq(Threads)
    BY <1>1 DEF Fire
  <2>2. waiters' \in [Events -> Seq(Threads)]
    BY <1>1, <2>1 DEF Fire
  <2>3. pc' \in [Threads -> PC] /\ \A x \in Threads : pc'[x] = "idle" <=> pc[x] = "idle"
    BY <1>1, <2>1 DEF Fire, Broadcast, StopsAtOne
  <2>4. CASE fired[w]
    BY <1>1, <2>2, <2>3, <2>4 DEF Fire
  <2>5. CASE ~fired[w]
    <3>1. /\ fired' = [fired EXCEPT ![w] = TRUE]
          /\ got' = [got EXCEPT ![w] = e]
          /\ firing' = [firing EXCEPT ![t] = @ \union {w}]
          /\ UNCHANGED <<signaled, lock, call>>
      BY <1>1, <2>5 DEF Fire
    <3>2. firing' \in [Threads -> SUBSET Threads]
      BY <2>1, <3>1
    <3> QED
      BY <2>1, <2>2, <2>3, <3>1, <3>2
  <2> QED
    BY <2>4, <2>5
<1>2. ASSUME NEW t \in Threads, NEW e \in Events, SignalRaise(t, e)
      PROVE  Types'
  BY <1>2 DEF SignalRaise
<1>3. ASSUME NEW t \in Threads, NEW e \in Events, SignalReturn(t, e)
      PROVE  Types'
  BY <1>3 DEF SignalReturn, Return
<1>4. ASSUME NEW t \in Threads, NEW e \in Events, LeaveList(t, e)
      PROVE  Types'
  <2>1. waiters' \in [Events -> Seq(Threads)]
    BY <1>4, DequeueType DEF LeaveList
  <2>2. CASE Return(t)
    BY <1>4, <2>1, <2>2 DEF LeaveList, Return
  <2>3. CASE todo' = [todo EXCEPT ![t] = @ \ {e}] /\ UNCHANGED <<fired, pc, op, waitables, ret>>
    BY <1>4, <2>1, <2>3 DEF LeaveList
  <2> QED
    BY <1>4, <2>2, <2>3 DEF LeaveList
<1>5. ASSUME NEW t \in Threads, NEW S \in SUBSET Events, Block(t, S)
      PROVE  /\ fired' \in [Threads -> BOOLEAN]
             /\ got' \in [Threads -> Events \union {NoEvent}]
             /\ waiters' \in [Events -> Seq(Threads)]
             /\ pc' = [pc EXCEPT ![t] = "check"]
             /\ todo' \in [Threads -> SUBSET Events]
  <2>1. \A e \in Events : Append(waiters[e], t) \in Seq(Threads)
    OBVIOUS
  <2>2. waiters' \in [Events -> Seq(Threads)]
    BY <1>5, <2>1 DEF Block, Enqueue
  <2> QED
    BY <1>5, <2>2 DEF Block
<1>6. ASSUME NEW t \in Threads, NEW e \in Events, pc[t] = "lock", EnqueueManyAt(t, e)
      PROVE  Types'
  <2>1. lock' \in [Events -> Threads \union {NoThread}]
    BY <1>6 DEF EnqueueManyAt, Unwind
  <2>2. CASE Return(t) /\ Consume(e)
    <3>1. signaled' \in [Events -> BOOLEAN]
      BY <2>2, ConsumeType
    <3>2. CASE got' = [got EXCEPT ![t] = e] /\ UNCHANGED waiters
      BY <1>6, <2>1, <2>2, <3>1, <3>2 DEF EnqueueManyAt, Unwind, Return
    <3>3. CASE ~(got' = [got EXCEPT ![t] = e] /\ UNCHANGED waiters)
      BY <1>6, <2>2, <3>3 DEF EnqueueManyAt, Unwind, Return, Block
    <3> QED
      BY <3>2, <3>3
  <2>3. CASE todo' = [todo EXCEPT ![t] = @ \ {e}] /\ UNCHANGED <<signaled, waiters, syncWaiter, pc, op, waitables, ret>>
    BY <1>6, <2>1, <2>3 DEF EnqueueManyAt, Unwind
  <2>4. CASE Block(t, waitables[t]) /\ UNCHANGED <<signaled, op, waitables, ret>>
    <3>1. waitables[t] \in SUBSET Events
      OBVIOUS
    <3>2. UNCHANGED <<signaled, op, waitables, ret, firing>>
      BY <1>6, <2>4 DEF EnqueueManyAt, Unwind
    <3>3. Block(t, waitables[t])
      BY <2>4
    <3>4. /\ fired' \in [Threads -> BOOLEAN]
          /\ got' \in [Threads -> Events \union {NoEvent}]
          /\ waiters' \in [Events -> Seq(Threads)]
          /\ pc' = [pc EXCEPT ![t] = "check"]
          /\ todo' \in [Threads -> SUBSET Events]
      BY <1>5, <3>1, <3>3
    <3> QED
      BY <1>6, <2>1, <3>2, <3>4
  <2> QED
    BY <1>6, <2>2, <2>3, <2>4 DEF EnqueueManyAt, Unwind
<1>7. ASSUME NEW t \in Threads, SeeFired(t) \/ TimeOut(t) \/ CvWait(t) \/ CvNotified(t) \/ CvExpired(t) \/ CvSpurious(t)
      PROVE  Types'
  <2>1. CASE SeeFired(t)
    BY <2>1 DEF SeeFired
  <2>2. CASE TimeOut(t)
    BY <2>2 DEF TimeOut, Disable
  <2>3. CASE CvWait(t) \/ CvNotified(t) \/ CvExpired(t) \/ CvSpurious(t)
    BY <2>3 DEF CvWait, CvNotified, CvExpired, CvSpurious
  <2> QED
    BY <1>7, <2>1, <2>2, <2>3
<1>8. ASSUME NEW t \in Threads, NEW e \in Events, Reset(t, e) \/ IsSignaled(t, e)
      PROVE  Types'
  <2>1. CASE Reset(t, e)
    BY <2>1 DEF Reset
  <2>2. CASE IsSignaled(t, e)
    BY <2>2, ConsumeType DEF IsSignaled
  <2> QED
    BY <1>8, <2>1, <2>2
<1>9. ASSUME NEW t \in Threads, NEW e \in Events, Signal(t, e)
      PROVE  Types'
  BY <1>9 DEF Signal
<1>10. ASSUME NEW t \in Threads, NEW e \in Events, NEW kind \in {"Wait", "TimedWait"}, TimedWait(t, e, kind)
      PROVE  Types'
  <2>1. CASE signaled[e]
    BY <1>10, <2>1, ConsumeType DEF TimedWait
  <2>2. CASE ~signaled[e]
    <3>1. Block(t, {e}) /\ {e} \in SUBSET Events
      BY <1>10, <2>2 DEF TimedWait
    <3>2. /\ UNCHANGED <<signaled, ret, lock, firing>>
          /\ op' = [op EXCEPT ![t] = kind]
          /\ waitables' = [waitables EXCEPT ![t] = {e}]
      BY <1>10, <2>2 DEF TimedWait
    <3> QED
      BY <1>5, <1>10, <3>1, <3>2 DEF TimedWait
  <2> QED
    BY <2>1, <2>2
<1>11. ASSUME NEW t \in Threads, NEW S \in (SUBSET Events) \ {{}}, WaitMany(t, S)
      PROVE  Types'
  BY <1>11 DEF WaitMany
<1>12. ASSUME NEW t \in Threads, ThreadStep(t)
       PROVE  Types'
  BY <1>1, <1>2, <1>3, <1>4, <1>6, <1>7, <1>12 DEF ThreadStep, EnqueueMany
<1> HIDE DEF Types
<1> QED
  BY <1>0, <1>7, <1>8, <1>9, <1>10, <1>11, <1>12 DEF Next

----------------------------------------------------------------------------
(* The invariant is kept by every action *)

\* A call that only takes or clears the flag of an unlocked event.
LEMMA TakeStep ==
  ASSUME IInv, Types', NEW t \in Threads, NEW e \in Events,
         pc[t] = "idle", Free(e),
         signaled' = signaled \/ signaled' = [signaled EXCEPT ![e] = FALSE],
         got' = got \/ got' = [got EXCEPT ![t] = e],
         UNCHANGED <<waiters, lock, fired, pc, op, waitables, todo, ret, firing>>
  PROVE  IInv'
<1> USE ConstantsAssumption DEF IInv, Types, InWait, Asleep
<1>1. /\ \A x \in Events \ {e} : signaled'[x] = signaled[x]
      /\ \A x \in Events : signaled'[x] => signaled[x]
      /\ \A x \in Threads \ {t} : got'[x] = got[x]
  OBVIOUS
<1>2. Locks'
  BY <1>1 DEF Locks
<1>3. Frames'
  BY <1>1 DEF Frames
<1>4. Lists'
  BY <1>1 DEF Lists
<1>5. \A s \in Threads : pc[s] \in {"signal", "unlock"} => e \notin waitables[s]
  BY DEF Locks, Free
<1>6. Signals'
  BY <1>1, <1>5 DEF Signals
<1> QED
  BY <1>2, <1>3, <1>4, <1>6

\* Signal takes the lock of an unsignaled event.
LEMMA SignalStep ==
  ASSUME IInv, Types', NEW t \in Threads, NEW e \in Events, Signal(t, e)
  PROVE  IInv'
<1> USE ConstantsAssumption DEF IInv, Types, InWait, Asleep, syncWaiter, Signal
<1>1. Locks'
  BY DEF Locks, Free
<1>2. Frames'
  BY DEF Frames
<1>3. Lists'
  BY DEF Lists
<1>4. Signals'
  BY DEF Signals, Frames
<1> QED
  BY <1>1, <1>2, <1>3, <1>4

\* One turn of the loop of SignalOne and SignalAll.
LEMMA FireStep ==
  ASSUME IInv, Types', NEW t \in Threads, NEW e \in Events, Fire(t, e)
  PROVE  IInv'
<1> DEFINE w == Head(waiters[e])
<1> USE ConstantsAssumption DEF IInv, Types, InWait, Asleep
<1>1. /\ pc[t] = "signal" /\ e \in waitables[t]
      /\ waiters[e] # <<>> /\ waiters[e] \in Seq(Threads) /\ NoDup(waiters[e])
      /\ w \in Threads /\ pc[w] # "check"
  BY DEF Fire, Lists
<1>2. /\ waiters' = [waiters EXCEPT ![e] = Tail(waiters[e])]
      /\ UNCHANGED <<signaled, lock, op, waitables, todo, ret>>
  BY DEF Fire, call
<1>3. /\ Contains(waiters[e], w)
      /\ NoDup(waiters'[e])
      /\ \A x : Contains(waiters'[e], x) <=> Contains(waiters[e], x) /\ x # w
  BY <1>1, <1>2, TailFacts
<1>4. \A x \in Events \ {e} : waiters'[x] = waiters[x]
  BY <1>2
<1>5. /\ w # t /\ e \in todo[w] /\ got[w] # e
      /\ pc[w] \in {"cv", "woken", "dequeue"}
  BY <1>1, <1>3 DEF Lists
<1>6. waitables[t] = {e} /\ lock[e] = t
  BY <1>1 DEF Locks
<1>7. CASE fired[w]
  <2>1. UNCHANGED <<fired, got, pc, firing>>
    BY <1>7 DEF Fire, syncWaiter
  <2>2. Locks' /\ Frames' /\ Signals'
    BY <1>2, <2>1 DEF Locks, Frames, Signals
  <2>3. Lists'
    BY <1>2, <1>3, <1>4, <1>7, <2>1 DEF Lists
  <2> QED
    BY <2>2, <2>3
<1>8. CASE ~fired[w]
  <2>1. /\ fired' = [fired EXCEPT ![w] = TRUE]
        /\ got' = [got EXCEPT ![w] = e]
        /\ firing' = [firing EXCEPT ![t] = firing[t] \union {w}]
        /\ \A x \in Threads : pc'[x] = IF x = w THEN Broadcast(w)
                                      ELSE IF x = t /\ StopsAtOne(e) THEN "unlock" ELSE pc[x]
    BY <1>8 DEF Fire
  <2>2. /\ pc[w] \in {"cv", "woken"} /\ pc'[w] = "woken"
        /\ pc'[t] = IF e \notin ManualReset THEN "unlock" ELSE "signal"
        /\ \A x \in Threads \ {t, w} : pc'[x] = pc[x]
    BY <1>1, <1>5, <1>8, <2>1 DEF Broadcast, StopsAtOne, Frames
  <2> HIDE DEF w
  <2>3. /\ fired'[w] /\ got'[w] = e /\ firing'[t] = firing[t] \union {w}
        /\ \A x \in Threads \ {w} : fired'[x] = fired[x] /\ got'[x] = got[x]
        /\ \A x \in Threads \ {t} : firing'[x] = firing[x]
    <3>1. fired'[w] /\ \A x \in Threads \ {w} : fired'[x] = fired[x]
      BY <1>1, <2>1
    <3>2. got'[w] = e /\ \A x \in Threads \ {w} : got'[x] = got[x]
      BY <1>1, <2>1
    <3>3. firing'[t] = firing[t] \union {w} /\ \A x \in Threads \ {t} : firing'[x] = firing[x]
      BY <1>1, <2>1
    <3> QED
      BY <3>1, <3>2, <3>3
  <2> HIDE DEF Types
  <2>4. Locks'
    <3> SUFFICES ASSUME NEW x \in Threads
                 PROVE  /\ pc'[x] \in {"signal", "unlock"} =>
                             \E y \in Events : waitables'[x] = {y} /\ lock'[y] = x
                        /\ pc'[x] = "lock" =>
                             /\ todo'[x] \subseteq waitables'[x]
                             /\ \A y \in waitables'[x] \ todo'[x] : lock'[y] = x /\ ~signaled'[y]
      BY DEF Locks
    <3>1. CASE x = t
      BY <1>2, <1>6, <2>2, <3>1
    <3>2. CASE x = w
      BY <2>2, <3>2
    <3>3. CASE x \notin {t, w}
      BY <1>2, <2>2, <3>3 DEF Locks
    <3> QED
      BY <3>1, <3>2, <3>3
  <2>5. Frames'
    <3> SUFFICES ASSUME NEW x \in Threads
                 PROVE  /\ pc'[x] \notin {"signal", "unlock"} => firing'[x] = {}
                        /\ pc'[x] \in {"check", "cv", "woken"} => todo'[x] = waitables'[x]
                        /\ pc'[x] = "dequeue" => fired'[x] /\ (~ret'[x] => got'[x] = NoEvent)
                        /\ InWait(x)' /\ ~fired'[x] => got'[x] = NoEvent
      BY DEF Frames
    <3>1. CASE x = t
      BY <1>2, <1>5, <2>2, <2>3, <3>1
    <3>2. CASE x = w
      BY <1>1, <1>2, <1>5, <2>2, <2>3, <3>2 DEF Frames
    <3>3. CASE x \notin {t, w}
      BY <1>2, <2>2, <2>3, <3>3 DEF Frames
    <3> QED
      BY <3>1, <3>2, <3>3
  <2>6. Lists'
    <3>1. ASSUME NEW x \in Events
          PROVE  NoDup(waiters'[x])
      BY <1>3, <1>4 DEF Lists
    <3>2. ASSUME NEW x \in Events, NEW y \in Threads, Contains(waiters'[x], y)
          PROVE  InWait(y)' /\ x \in todo'[y] /\ got'[y] # x
      BY <1>1, <1>2, <1>3, <1>4, <1>5, <2>2, <2>3, <3>2 DEF Lists
    <3>3. ASSUME NEW x \in Events, NEW y \in Threads, Asleep(y)', x \in waitables'[y]
          PROVE  Contains(waiters'[x], y) /\ ~signaled'[x]
      BY <1>1, <1>2, <1>3, <1>4, <1>5, <2>2, <2>3, <3>3 DEF Lists
    <3> QED
      BY <3>1, <3>2, <3>3 DEF Lists
  <2>7. Signals'
    <3>0. \A s \in Threads : firing[s] \subseteq Threads
      BY DEF Types
    <3>1. ASSUME NEW s \in Threads, NEW v \in firing'[s]
          PROVE  InWait(v)' /\ fired'[v] /\ waitables'[s] \subseteq todo'[v]
      <4>1. CASE s = t /\ v = w
        BY <1>2, <1>5, <1>6, <2>2, <2>3, <4>1
      <4>2. CASE v \in firing[s]
        <5>1. v \in Threads /\ InWait(v) /\ fired[v] /\ waitables[s] \subseteq todo[v]
          BY <3>0, <4>2 DEF Signals
        <5>2. v # t /\ v # w
          BY <1>1, <1>8, <5>1
        <5> QED
          BY <1>2, <2>2, <2>3, <5>1, <5>2
      <4> QED
        BY <2>3, <3>1, <4>1, <4>2
    <3>2. ASSUME NEW s \in Threads \ {t}, NEW x \in waitables'[s]
          PROVE  /\ pc'[s] = "signal" => ~signaled'[x] /\ (x \notin ManualReset => firing'[s] = {})
                 /\ pc'[s] = "unlock" /\ x \notin ManualReset =>
                      /\ \A u, v \in firing'[s] : u = v
                      /\ signaled'[x] <=> firing'[s] = {}
      BY <1>1, <1>2, <1>5, <2>2, <2>3 DEF Signals
    <3>3. ASSUME NEW x \in waitables'[t]
          PROVE  /\ pc'[t] = "signal" => ~signaled'[x] /\ (x \notin ManualReset => firing'[t] = {})
                 /\ pc'[t] = "unlock" /\ x \notin ManualReset =>
                      /\ \A u, v \in firing'[t] : u = v
                      /\ signaled'[x] <=> firing'[t] = {}
      <4>1. x = e /\ ~signaled[e] /\ (e \notin ManualReset => firing[t] = {})
        BY <1>1, <1>2, <1>6, <3>3 DEF Signals
      <4> QED
        BY <1>2, <2>2, <2>3, <4>1
    <3> QED
      BY <3>1, <3>2, <3>3 DEF Signals
  <2> QED
    BY <2>4, <2>5, <2>6, <2>7
<1> QED
  BY <1>7, <1>8

\* Nobody left to wake: the event is raised, still locked.
LEMMA RaiseStep ==
  ASSUME IInv, Types', NEW t \in Threads, NEW e \in Events, SignalRaise(t, e)
  PROVE  IInv'
<1> USE ConstantsAssumption DEF IInv, Types, InWait, Asleep
<1>1. /\ pc[t] = "signal" /\ e \in waitables[t] /\ waiters[e] = <<>>
      /\ signaled' = [signaled EXCEPT ![e] = TRUE]
      /\ pc' = [pc EXCEPT ![t] = "unlock"]
      /\ UNCHANGED <<waiters, lock, fired, got, op, waitables, todo, ret, firing>>
  BY DEF SignalRaise, syncWaiter, call
<1>2. waitables[t] = {e} /\ lock[e] = t
  BY <1>1 DEF Locks
<1>3. \A x \in Threads : ~Contains(waiters[e], x)
  BY <1>1 DEF Contains
<1>4. \A s \in Threads \ {t} : pc[s] \in {"signal", "unlock"} => e \notin waitables[s]
  BY <1>2 DEF Locks
<1>5. Locks'
  BY <1>1, <1>2 DEF Locks
<1>6. Frames'
  BY <1>1 DEF Frames
<1>7. Lists'
  BY <1>1, <1>3 DEF Lists
<1>8. Signals'
  BY <1>1, <1>2, <1>4 DEF Signals
<1> QED
  BY <1>5, <1>6, <1>7, <1>8

\* Signal lets go of the lock and forgets whom it fired.
LEMMA SignalReturnStep ==
  ASSUME IInv, Types', NEW t \in Threads, NEW e \in Events, SignalReturn(t, e)
  PROVE  IInv'
<1> USE ConstantsAssumption DEF IInv, Types, InWait, Asleep
<1>1. /\ pc[t] = "unlock" /\ e \in waitables[t]
      /\ lock' = [lock EXCEPT ![e] = NoThread]
      /\ firing' = [firing EXCEPT ![t] = {}]
      /\ pc' = [pc EXCEPT ![t] = "idle"]
      /\ waitables' = [waitables EXCEPT ![t] = {}]
      /\ todo' = [todo EXCEPT ![t] = {}]
      /\ ret' = [ret EXCEPT ![t] = FALSE]
      /\ fired' = [fired EXCEPT ![t] = FALSE]
      /\ UNCHANGED <<signaled, waiters, got>>
  BY DEF SignalReturn, Return
<1>2. lock[e] = t
  BY <1>1 DEF Locks
<1>3. Locks'
  <2> SUFFICES ASSUME NEW x \in Threads
               PROVE  /\ pc'[x] \in {"signal", "unlock"} =>
                           \E y \in Events : waitables'[x] = {y} /\ lock'[y] = x
                      /\ pc'[x] = "lock" =>
                           /\ todo'[x] \subseteq waitables'[x]
                           /\ \A y \in waitables'[x] \ todo'[x] : lock'[y] = x /\ ~signaled'[y]
    BY DEF Locks
  <2>1. CASE x = t
    BY <1>1, <2>1
  <2>2. CASE x # t
    <3>1. /\ \A y \in Events : lock[y] = x => lock'[y] = x
          /\ pc'[x] = pc[x] /\ waitables'[x] = waitables[x] /\ todo'[x] = todo[x]
          /\ signaled' = signaled /\ waitables[x] \subseteq Events
      BY <1>1, <1>2, <2>2
    <3> HIDE DEF Types
    <3> QED
      BY <3>1 DEF Locks
  <2> QED
    BY <2>1, <2>2
<1>4. Frames'
  BY <1>1 DEF Frames
<1>5. Lists'
  BY <1>1 DEF Lists
<1>6. Signals'
  <2>1. \A s \in Threads : t \notin firing[s]
    BY <1>1 DEF Signals
  <2> QED
    BY <1>1, <2>1 DEF Signals
<1> QED
  BY <1>3, <1>4, <1>5, <1>6

\* A wait that blocks: the thread holds no lock it still needs, and every event
\* of the call is unsignaled when the waiter goes into its list.
LEMMA BlockStep ==
  ASSUME IInv, Types', NEW t \in Threads, NEW S \in SUBSET Events,
         pc[t] \in {"idle", "lock"}, Block(t, S), \A e \in S : ~signaled[e],
         waitables' = [waitables EXCEPT ![t] = S],
         \A e \in Events : lock[e] # t => lock'[e] = lock[e],
         UNCHANGED <<signaled, ret, firing>>
  PROVE  IInv'
<1> USE ConstantsAssumption DEF IInv, Types, InWait, Asleep
<1>1. /\ fired' = [fired EXCEPT ![t] = FALSE]
      /\ got' = [got EXCEPT ![t] = NoEvent]
      /\ \A e \in Events : waiters'[e] = IF e \in S THEN Append(waiters[e], t) ELSE waiters[e]
      /\ pc' = [pc EXCEPT ![t] = "check"]
      /\ todo' = [todo EXCEPT ![t] = S]
  BY DEF Block, Enqueue
<1>2. \A e \in Events : ~Contains(waiters[e], t)
  BY DEF Lists
<1>3. \A s \in Threads : t \notin firing[s]
  BY DEF Signals
<1>4. \A e \in S : /\ NoDup(waiters'[e])
                    /\ \A x : Contains(waiters'[e], x) <=> Contains(waiters[e], x) \/ x = t
  <2> SUFFICES ASSUME NEW e \in S
               PROVE  /\ NoDup(waiters'[e])
                      /\ \A x : Contains(waiters'[e], x) <=> Contains(waiters[e], x) \/ x = t
    OBVIOUS
  <2>1. /\ waiters[e] \in Seq(Threads) /\ NoDup(waiters[e]) /\ ~Contains(waiters[e], t)
        /\ waiters'[e] = Append(waiters[e], t)
    BY <1>1, <1>2 DEF Lists
  <2> HIDE DEF Types
  <2> QED
    BY <2>1, AppendFacts
<1>5. \A e \in Events \ S : waiters'[e] = waiters[e]
  BY <1>1
<1>6. Locks'
  <2> SUFFICES ASSUME NEW x \in Threads
               PROVE  /\ pc'[x] \in {"signal", "unlock"} =>
                           \E y \in Events : waitables'[x] = {y} /\ lock'[y] = x
                      /\ pc'[x] = "lock" =>
                           /\ todo'[x] \subseteq waitables'[x]
                           /\ \A y \in waitables'[x] \ todo'[x] : lock'[y] = x /\ ~signaled'[y]
    BY DEF Locks
  <2>1. CASE x = t
    BY <1>1, <2>1
  <2>2. CASE x # t
    BY <1>1, <2>2 DEF Locks
  <2> QED
    BY <2>1, <2>2
<1>7. Frames'
  BY <1>1 DEF Frames
<1>8. Lists'
  <2>1. ASSUME NEW x \in Events
        PROVE  NoDup(waiters'[x])
    BY <1>4, <1>5 DEF Lists
  <2>2. ASSUME NEW x \in Events, NEW y \in Threads, Contains(waiters'[x], y)
        PROVE  InWait(y)' /\ x \in todo'[y] /\ got'[y] # x
    <3>1. CASE y = t
      BY <1>1, <1>2, <1>5, <2>2, <3>1
    <3>2. CASE y # t
      <4>1. Contains(waiters[x], y)
        BY <1>4, <1>5, <2>2, <3>2
      <4> QED
        BY <1>1, <3>2, <4>1 DEF Lists
    <3> QED
      BY <3>1, <3>2
  <2>3. ASSUME NEW x \in Events, NEW y \in Threads, Asleep(y)', x \in waitables'[y]
        PROVE  Contains(waiters'[x], y) /\ ~signaled'[x]
    <3>1. CASE y = t
      BY <1>4, <2>3, <3>1
    <3>2. CASE y # t
      <4>0. Asleep(y) /\ x \in waitables[y]
        BY <1>1, <2>3, <3>2
      <4>1. Contains(waiters[x], y) /\ ~signaled[x]
        BY <4>0 DEF Lists
      <4> QED
        BY <1>4, <1>5, <4>1
    <3> QED
      BY <3>1, <3>2
  <2> QED
    BY <2>1, <2>2, <2>3 DEF Lists
<1>9. Signals'
  BY <1>1, <1>3 DEF Signals, Frames
<1> QED
  BY <1>6, <1>7, <1>8, <1>9

\* Wait and TimedWait.
LEMMA TimedWaitStep ==
  ASSUME IInv, Types', NEW t \in Threads, NEW e \in Events,
         NEW kind \in {"Wait", "TimedWait"}, TimedWait(t, e, kind)
  PROVE  IInv'
<1>1. CASE signaled[e]
  BY <1>1, TakeStep DEF TimedWait, Consume, call
<1>2. CASE ~signaled[e]
  <2>1. /\ pc[t] \in {"idle", "lock"} /\ Block(t, {e}) /\ {e} \in SUBSET Events
        /\ waitables' = [waitables EXCEPT ![t] = {e}]
        /\ UNCHANGED <<signaled, ret, firing, lock>>
    BY <1>2 DEF TimedWait
  <2> QED
    BY <1>2, <2>1, BlockStep
<1> QED
  BY <1>1, <1>2

\* WaitMany starts with no lock taken.
LEMMA WaitManyStep ==
  ASSUME IInv, Types', NEW t \in Threads, NEW S \in (SUBSET Events) \ {{}}, WaitMany(t, S)
  PROVE  IInv'
<1> USE ConstantsAssumption DEF IInv, Types, InWait, Asleep, WaitMany, kernel, syncWaiter
<1>1. Locks'
  BY DEF Locks
<1>2. Frames'
  BY DEF Frames
<1>3. Lists'
  BY DEF Lists
<1>4. Signals'
  <2>1. \A s \in Threads : t \notin firing[s]
    BY DEF Signals
  <2> QED
    BY <2>1 DEF Signals, Frames
<1> QED
  BY <1>1, <1>2, <1>3, <1>4

\* One level of EnqueueMany.
LEMMA EnqueueManyStep ==
  ASSUME IInv, Types', NEW t \in Threads, NEW e \in Events,
         pc[t] = "lock", e \in todo[t], EnqueueManyAt(t, e)
  PROVE  IInv'
<1> USE ConstantsAssumption DEF IInv, Types, InWait, Asleep
<1>0. lock[e] = NoThread /\ UNCHANGED firing
  BY DEF EnqueueManyAt, Unwind, Free
<1>1. \A s \in Threads : t \notin firing[s]
  BY DEF Signals
<1>2. \A x \in Events : ~Contains(waiters[x], t)
  BY DEF Lists
<1>3. \A s \in Threads : pc[s] \in {"signal", "unlock"} => e \notin waitables[s]
  BY <1>0 DEF Locks
<1>4. CASE signaled[e]
  <2>1. /\ Consume(e) /\ Return(t) /\ UNCHANGED waiters
        /\ got' = [got EXCEPT ![t] = e]
        /\ \A x \in Events : lock'[x] = IF lock[x] = t THEN NoThread ELSE lock[x]
    BY <1>4 DEF EnqueueManyAt, Unwind
  <2>2. /\ \A x \in Events \ {e} : signaled'[x] = signaled[x]
        /\ \A x \in Events : signaled'[x] => signaled[x]
    BY <2>1 DEF Consume
  <2>3. /\ pc'[t] = "idle"
        /\ \A x \in Threads \ {t} :
             /\ pc'[x] = pc[x] /\ waitables'[x] = waitables[x] /\ todo'[x] = todo[x]
             /\ ret'[x] = ret[x] /\ fired'[x] = fired[x] /\ got'[x] = got[x]
             /\ waitables[x] \subseteq Events
             /\ \A y \in Events : lock[y] = x => lock'[y] = x
    BY <2>1 DEF Return
  <2>4. waitables'[t] = {}
    BY <2>1 DEF Return
  <2> HIDE DEF Types
  <2>5. Locks'
    BY <2>2, <2>3 DEF Locks
  <2>6. Frames'
    BY <1>0, <2>3 DEF Frames
  <2>7. Lists'
    BY <1>2, <2>1, <2>2, <2>3 DEF Lists
  <2>8. Signals'
    <3>1. \A s \in Threads : firing[s] \subseteq Threads
      BY DEF Types
    <3> QED
      BY <1>0, <1>1, <1>3, <2>2, <2>3, <2>4, <3>1 DEF Signals
  <2> QED
    BY <2>5, <2>6, <2>7, <2>8
<1>5. CASE ~signaled[e] /\ todo[t] # {e}
  <2>1. /\ lock' = [lock EXCEPT ![e] = t]
        /\ todo' = [todo EXCEPT ![t] = todo[t] \ {e}]
        /\ UNCHANGED <<signaled, waiters, fired, got, pc, op, waitables, ret, firing>>
    BY <1>5 DEF EnqueueManyAt, Unwind, syncWaiter
  <2>2. Locks'
    <3> SUFFICES ASSUME NEW x \in Threads
                 PROVE  /\ pc'[x] \in {"signal", "unlock"} =>
                             \E y \in Events : waitables'[x] = {y} /\ lock'[y] = x
                        /\ pc'[x] = "lock" =>
                             /\ todo'[x] \subseteq waitables'[x]
                             /\ \A y \in waitables'[x] \ todo'[x] : lock'[y] = x /\ ~signaled'[y]
      BY DEF Locks
    <3>1. CASE x = t
      BY <1>5, <2>1, <3>1 DEF Locks
    <3>2. CASE x # t
      <4>1. /\ \A y \in Events : lock[y] = x => lock'[y] = x
            /\ todo'[x] = todo[x] /\ waitables[x] \subseteq Events
        BY <1>0, <2>1, <3>2
      <4> HIDE DEF Types
      <4> QED
        BY <2>1, <4>1 DEF Locks
    <3> QED
      BY <3>1, <3>2
  <2>3. Frames'
    BY <2>1 DEF Frames
  <2>4. Lists'
    BY <2>1 DEF Lists
  <2>5. Signals'
    BY <1>1, <2>1 DEF Signals
  <2> QED
    BY <2>2, <2>3, <2>4, <2>5
<1>6. CASE ~signaled[e] /\ todo[t] = {e}
  <2>1. /\ Block(t, waitables[t])
        /\ \A x \in Events : lock[x] # t => lock'[x] = lock[x]
        /\ UNCHANGED <<signaled, waitables, ret, firing>>
    BY <1>6 DEF EnqueueManyAt, Unwind
  <2>2. \A x \in waitables[t] : ~signaled[x]
    BY <1>6 DEF Locks
  <2>3. waitables' = [waitables EXCEPT ![t] = waitables[t]] /\ waitables[t] \in SUBSET Events
    BY <2>1
  <2> HIDE DEF Types, IInv
  <2> QED
    BY <2>1, <2>2, <2>3, BlockStep
<1> QED
  BY <1>4, <1>5, <1>6

\* The steps of the waiting loop, which touch nothing but the thread's own frame.
LEMMA LoopStep ==
  ASSUME IInv, Types', NEW t \in Threads,
         SeeFired(t) \/ TimeOut(t) \/ CvWait(t) \/ CvNotified(t) \/ CvExpired(t) \/ CvSpurious(t)
  PROVE  IInv'
<1> USE ConstantsAssumption DEF IInv, Types, InWait, Asleep
<1>1. /\ pc[t] \in {"check", "cv", "woken"}
      /\ pc'[t] \in {"check", "cv", "dequeue"}
      /\ \A x \in Threads \ {t} : pc'[x] = pc[x] /\ fired'[x] = fired[x] /\ ret'[x] = ret[x]
      /\ pc'[t] = "dequeue" => fired'[t] /\ (~ret'[t] => got[t] = NoEvent)
      /\ pc'[t] # "dequeue" => fired'[t] = fired[t]
      /\ fired[t] => fired'[t]
      /\ UNCHANGED <<signaled, waiters, lock, got, waitables, todo, firing>>
  <2> USE DEF kernel, syncWaiter, call
  <2>1. CASE SeeFired(t)
    BY <2>1 DEF SeeFired
  <2>2. CASE TimeOut(t)
    BY <2>2 DEF TimeOut, Disable, Frames
  <2>3. CASE CvWait(t)
    BY <2>3 DEF CvWait
  <2>4. CASE CvNotified(t)
    BY <2>4 DEF CvNotified
  <2>5. CASE CvExpired(t) \/ CvSpurious(t)
    BY <2>5 DEF CvExpired, CvSpurious
  <2> QED
    BY <2>1, <2>2, <2>3, <2>4, <2>5
<1>2. \A s \in Threads : firing[s] \subseteq Threads
  OBVIOUS
<1> HIDE DEF Types
<1>3. Locks'
  BY <1>1 DEF Locks
<1>4. Frames'
  BY <1>1 DEF Frames
<1>5. Lists'
  BY <1>1 DEF Lists
<1>6. Signals'
  BY <1>1, <1>2 DEF Signals
<1> QED
  BY <1>3, <1>4, <1>5, <1>6

\* A Signal that fired t still holds the lock of its event, which is therefore
\* not the one, unlocked, whose list t is leaving.
LEMMA FiredNotLeaving ==
  ASSUME IInv, NEW t \in Threads, NEW e \in Events, lock[e] = NoThread,
         NEW s \in Threads, t \in firing[s]
  PROVE  \E x \in todo[t] : x # e /\ e \notin waitables[s]
<1> USE ConstantsAssumption DEF IInv, Types
<1>1. pc[s] \in {"signal", "unlock"}
  BY DEF Frames
<1>2. PICK x \in Events : waitables[s] = {x} /\ lock[x] = s
  BY <1>1 DEF Locks
<1>3. x \in todo[t]
  BY <1>2 DEF Signals
<1> QED
  BY <1>2, <1>3

\* A waiter leaves a list.
LEMMA LeaveStep ==
  ASSUME IInv, Types', NEW t \in Threads, NEW e \in Events, LeaveList(t, e)
  PROVE  IInv'
<1> USE ConstantsAssumption DEF IInv, Types, InWait, Asleep
<1>1. /\ pc[t] = "dequeue" /\ e \in todo[t] /\ lock[e] = NoThread
      /\ fired[t] /\ waiters[e] \in Seq(Threads) /\ NoDup(waiters[e])
      /\ UNCHANGED <<signaled, lock, got, firing>>
  BY DEF LeaveList, LeaveLock, Free, Frames, Lists
<1>2. /\ NoDup(waiters'[e])
      /\ \A x : Contains(waiters'[e], x) <=> Contains(waiters[e], x) /\ x # t
  <2>1. CASE op[t] = "WaitMany" /\ e = got[t]
    <3>1. waiters'[e] = waiters[e] /\ ~Contains(waiters[e], t)
      BY <2>1 DEF LeaveList, Lists
    <3> QED
      BY <1>1, <3>1
  <2>2. CASE ~(op[t] = "WaitMany" /\ e = got[t])
    <3>1. waiters'[e] = Dequeue(waiters[e], t)
      BY <2>2 DEF LeaveList
    <3> HIDE DEF Types, IInv
    <3> QED
      BY <1>1, <3>1, DequeueFacts
  <2> QED
    BY <2>1, <2>2
<1>3. \A x \in Events \ {e} : waiters'[x] = waiters[x]
  BY DEF LeaveList
<1>4. \A x \in Threads \ {t} :
        /\ pc'[x] = pc[x] /\ waitables'[x] = waitables[x] /\ todo'[x] = todo[x]
        /\ ret'[x] = ret[x] /\ fired'[x] = fired[x]
  BY DEF LeaveList, Return
<1>5. CASE todo[t] = {e}
  <2>1. pc'[t] = "idle" /\ waitables'[t] = {}
    BY <1>1, <1>5 DEF LeaveList, Return
  <2> HIDE DEF Types
  <2>2. \A s \in Threads : t \notin firing[s]
    BY <1>1, <1>5, FiredNotLeaving
  <2>3. Locks'
    BY <1>1, <1>4, <2>1 DEF Locks
  <2>4. Frames'
    BY <1>1, <1>4, <2>1 DEF Frames
  <2>5. Lists'
    <3>1. ~\E x \in Events : Contains(waiters'[x], t)
      BY <1>1, <1>2, <1>3, <1>5 DEF Lists
    <3> QED
      BY <1>1, <1>2, <1>3, <1>4, <2>1, <3>1 DEF Lists
  <2>6. Signals'
    <3>1. \A s \in Threads : firing[s] \subseteq Threads
      BY DEF Types
    <3> QED
      BY <1>1, <1>4, <2>1, <2>2, <3>1 DEF Signals
  <2> QED
    BY <2>3, <2>4, <2>5, <2>6
<1>6. CASE todo[t] # {e}
  <2>1. /\ pc'[t] = "dequeue" /\ todo'[t] = todo[t] \ {e} /\ ret'[t] = ret[t]
        /\ fired'[t] = fired[t] /\ waitables'[t] = waitables[t]
    BY <1>1, <1>6 DEF LeaveList
  <2> HIDE DEF Types
  <2>2. ASSUME NEW s \in Threads, t \in firing[s]
        PROVE  waitables[s] \subseteq todo'[t]
    <3>1. e \notin waitables[s]
      BY <1>1, <2>2, FiredNotLeaving
    <3> QED
      BY <2>1, <2>2, <3>1 DEF Signals
  <2>3. Locks'
    BY <1>1, <1>4, <2>1 DEF Locks
  <2>4. Frames'
    <3> SUFFICES ASSUME NEW x \in Threads
                 PROVE  /\ pc'[x] \notin {"signal", "unlock"} => firing'[x] = {}
                        /\ pc'[x] \in {"check", "cv", "woken"} => todo'[x] = waitables'[x]
                        /\ pc'[x] = "dequeue" => fired'[x] /\ (~ret'[x] => got'[x] = NoEvent)
                        /\ InWait(x)' /\ ~fired'[x] => got'[x] = NoEvent
      BY DEF Frames
    <3>1. CASE x = t
      BY <1>1, <2>1, <3>1 DEF Frames
    <3>2. CASE x # t
      BY <1>1, <1>4, <3>2 DEF Frames
    <3> QED
      BY <3>1, <3>2
  <2>5. Lists'
    <3>1. ASSUME NEW x \in Events
          PROVE  NoDup(waiters'[x])
      BY <1>2, <1>3 DEF Lists
    <3>2. ASSUME NEW x \in Events, NEW y \in Threads, Contains(waiters'[x], y)
          PROVE  InWait(y)' /\ x \in todo'[y] /\ got'[y] # x
      <4>1. Contains(waiters[x], y) /\ (y = t => x # e)
        BY <1>2, <1>3, <3>2
      <4> QED
        BY <1>1, <1>4, <2>1, <4>1 DEF Lists
    <3>3. ASSUME NEW x \in Events, NEW y \in Threads, Asleep(y)', x \in waitables'[y]
          PROVE  Contains(waiters'[x], y) /\ ~signaled'[x]
      <4>1. y # t /\ Contains(waiters[x], y) /\ ~signaled[x]
        BY <1>4, <2>1, <3>3 DEF Lists
      <4> QED
        BY <1>1, <1>2, <1>3, <4>1
    <3> QED
      BY <3>1, <3>2, <3>3 DEF Lists
  <2>6. Signals'
    <3>1. \A s \in Threads : firing[s] \subseteq Threads
      BY DEF Types
    <3>2. ASSUME NEW s \in Threads, NEW w \in firing'[s]
          PROVE  InWait(w)' /\ fired'[w] /\ waitables'[s] \subseteq todo'[w]
      <4>1. w \in Threads /\ w \in firing[s] /\ waitables'[s] = waitables[s]
        BY <1>1, <1>4, <2>1, <3>1
      <4>2. CASE w = t
        BY <1>1, <2>1, <2>2, <4>1, <4>2
      <4>3. CASE w # t
        BY <1>4, <4>1, <4>3 DEF Signals
      <4> QED
        BY <4>2, <4>3
    <3>3. ASSUME NEW s \in Threads, NEW x \in waitables'[s]
          PROVE  /\ pc'[s] = "signal" => ~signaled'[x] /\ (x \notin ManualReset => firing'[s] = {})
                 /\ pc'[s] = "unlock" /\ x \notin ManualReset =>
                      /\ \A u, v \in firing'[s] : u = v
                      /\ signaled'[x] <=> firing'[s] = {}
      BY <1>1, <1>4, <2>1 DEF Signals
    <3> QED
      BY <3>2, <3>3 DEF Signals
  <2> QED
    BY <2>3, <2>4, <2>5, <2>6
<1> QED
  BY <1>5, <1>6

\* IInv is inductive.
LEMMA Inductive == IInv /\ [Next]_vars => IInv'
<1> SUFFICES ASSUME IInv, [Next]_vars
             PROVE  IInv'
  OBVIOUS
<1>1. Types'
  BY TypeStep DEF IInv
<1>2. CASE UNCHANGED vars
  BY <1>2 DEF vars, IInv, Types, Locks, Frames, Lists, Signals, InWait, Asleep
<1>3. ASSUME NEW t \in Threads, ThreadStep(t)
      PROVE  IInv'
  <2>1. CASE \E e \in Events : Fire(t, e) \/ SignalRaise(t, e) \/ SignalReturn(t, e) \/ LeaveList(t, e)
    BY <1>1, <2>1, FireStep, RaiseStep, SignalReturnStep, LeaveStep
  <2>2. CASE EnqueueMany(t)
    BY <1>1, <2>2, EnqueueManyStep DEF EnqueueMany, NextInOrder
  <2>3. CASE SeeFired(t) \/ TimeOut(t) \/ CvWait(t) \/ CvNotified(t) \/ CvExpired(t)
    BY <1>1, <2>3, LoopStep
  <2> QED
    BY <1>3, <2>1, <2>2, <2>3 DEF ThreadStep
<1>4. ASSUME NEW t \in Threads, NEW e \in Events, Reset(t, e) \/ IsSignaled(t, e)
      PROVE  IInv'
  <2>1. CASE Reset(t, e)
    BY <1>1, <2>1, TakeStep DEF Reset, syncWaiter, call
  <2>2. CASE IsSignaled(t, e)
    BY <1>1, <2>2, TakeStep DEF IsSignaled, Consume, call
  <2> QED
    BY <1>4, <2>1, <2>2
<1>5. ASSUME NEW t \in Threads, NEW e \in Events, Signal(t, e)
      PROVE  IInv'
  BY <1>1, <1>5, SignalStep
<1>6. ASSUME NEW t \in Threads, NEW e \in Events, NEW kind \in {"Wait", "TimedWait"},
             TimedWait(t, e, kind)
      PROVE  IInv'
  BY <1>1, <1>6, TimedWaitStep
<1>7. ASSUME NEW t \in Threads, NEW S \in (SUBSET Events) \ {{}}, WaitMany(t, S)
      PROVE  IInv'
  BY <1>1, <1>7, WaitManyStep
<1>8. ASSUME NEW t \in Threads, CvSpurious(t)
      PROVE  IInv'
  BY <1>1, <1>8, LoopStep
<1> QED
  BY <1>2, <1>3, <1>4, <1>5, <1>6, <1>7, <1>8 DEF Next

\* IInv holds in every reachable state.
THEOREM Invariance == Spec => []IInv
<1>1. Init => IInv
  <2> SUFFICES ASSUME Init
               PROVE  IInv
    OBVIOUS
  <2>1. Types
    BY ConstantsAssumption DEF Init, Types, PC, Op
  <2>2. Locks /\ Frames /\ Lists /\ Signals
    BY DEF Init, Locks, Frames, Lists, Signals, InWait, Asleep, NoDup, Contains
  <2> QED
    BY <2>1, <2>2 DEF IInv
<1> QED
  BY <1>1, Inductive, PTL DEF Spec

----------------------------------------------------------------------------
(* The safety properties *)

\* A wait that times out has absorbed no signal: Disable, under the SyncWaiter's
\* lock, makes a later Fire refuse.
THEOREM TimeOutAbsorbsNothing == Spec => []TimedOutWaitAbsorbsNothing
<1>1. IInv => TimedOutWaitAbsorbsNothing
  BY DEF IInv, Frames, TimedOutWaitAbsorbsNothing
<1> QED
  BY <1>1, Invariance, PTL

\* No list of any event ever points at a SyncWaiter whose stack frame is gone,
\* although the lists are left one lock at a time.
THEOREM WaitersExist == Spec => []NoDanglingWaiter
<1>1. IInv => NoDanglingWaiter
  BY DEF IInv, Lists, NoDanglingWaiter
<1> QED
  BY <1>1, Invariance, PTL

\* No thread sleeps on a signaled event, although EnqueueMany checks the events
\* one after the other: it keeps the locks of those it has checked.
THEOREM NoMissedSignal == Spec => []NoSleeperOnSignaledEvent
<1>1. IInv => NoSleeperOnSignaledEvent
  BY DEF IInv, Lists, NoSleeperOnSignaledEvent
<1> QED
  BY <1>1, Invariance, PTL

\* A wait returns only when every Signal that fired it has left the event, which
\* the caller may then delete.
THEOREM DeletionIsSafe == Spec => []SignalCompletesBeforeWaitReturns
<1>1. IInv => SignalCompletesBeforeWaitReturns
  BY DEF IInv, Signals, SignalCompletesBeforeWaitReturns
<1> QED
  BY <1>1, Invariance, PTL

\* A signal of an auto-reset event wakes one waiter or is kept, never both and
\* never neither.
THEOREM SignalSpentOnce == Spec => []AutoResetSignalSpentOnce
<1>1. IInv => AutoResetSignalSpentOnce
  BY DEF IInv, Signals, AutoResetSignalSpentOnce
<1> QED
  BY <1>1, Invariance, PTL

----------------------------------------------------------------------------
(* The order of the locks *)

\* Who holds a lock is in Signal or in EnqueueMany, which is past that event and has
\* only events with higher addresses to go; and only some threads are in a call.
LocksInOrder ==
  /\ \A t \in Threads, e \in Events : lock[e] = t =>
       /\ pc[t] \in {"signal", "unlock", "lock"} /\ e \in waitables[t]
       /\ pc[t] = "lock" => \A x \in todo[t] : e < x
  /\ IsFiniteSet({t \in Threads : pc[t] # "idle"})

\* Only the thread that takes the step begins a call.
LEMMA OneCallBegins ==
  ASSUME IInv, [Next]_vars
  PROVE  \E t : \A u \in Threads : u # t /\ pc[u] = "idle" => pc'[u] = "idle"
<1> USE DEF IInv, Types, kernel, syncWaiter, call
<1>1. CASE UNCHANGED vars
  BY <1>1 DEF vars
<1>2. ASSUME NEW t \in Threads, ThreadStep(t)
      PROVE  \A u \in Threads : u # t /\ pc[u] = "idle" => pc'[u] = "idle"
  <2>1. CASE \E e \in Events : Fire(t, e)
    BY <2>1 DEF Fire, Broadcast
  <2>2. CASE \E e \in Events : SignalRaise(t, e) \/ SignalReturn(t, e)
    BY <2>2 DEF SignalRaise, SignalReturn, Return
  <2>3. CASE \E e \in Events : LeaveList(t, e)
    BY <2>3 DEF LeaveList, Return
  <2>4. CASE EnqueueMany(t)
    BY <2>4 DEF EnqueueMany, EnqueueManyAt, Unwind, Return, Block
  <2>5. CASE SeeFired(t) \/ TimeOut(t) \/ CvWait(t) \/ CvNotified(t) \/ CvExpired(t)
    BY <2>5 DEF SeeFired, TimeOut, CvWait, CvNotified, CvExpired
  <2> QED
    BY <1>2, <2>1, <2>2, <2>3, <2>4, <2>5 DEF ThreadStep
<1>3. ASSUME NEW t \in Threads, \/ CvSpurious(t)
                                \/ \E e \in Events : Reset(t, e) \/ IsSignaled(t, e) \/ Signal(t, e)
                                \/ \E e \in Events, kind \in {"Wait", "TimedWait"} : TimedWait(t, e, kind)
                                \/ \E S \in (SUBSET Events) \ {{}} : WaitMany(t, S)
      PROVE  \A u \in Threads : u # t /\ pc[u] = "idle" => pc'[u] = "idle"
  BY <1>3 DEF CvSpurious, Reset, IsSignaled, Signal, TimedWait, Block, WaitMany
<1> QED
  BY <1>1, <1>2, <1>3 DEF Next

\* A step that takes and keeps no lock, of a thread that has none or stays where it is.
LEMMA NoLockTaken ==
  ASSUME IInv, LocksInOrder, lock' = lock,
         \A u \in Threads : \/ pc'[u] = pc[u] /\ waitables'[u] = waitables[u] /\ todo'[u] = todo[u]
                            \/ pc[u] \notin {"signal", "unlock", "lock"}
                            \/ pc'[u] \in {"signal", "unlock"} /\ waitables'[u] = waitables[u]
  PROVE  \A t \in Threads, e \in Events : lock'[e] = t =>
           /\ pc'[t] \in {"signal", "unlock", "lock"} /\ e \in waitables'[t]
           /\ pc'[t] = "lock" => \A x \in todo'[t] : e < x
BY DEF LocksInOrder

\* The locks are taken in the order of the addresses.
LEMMA LocksStep == IInv /\ LocksInOrder /\ [Next]_vars => LocksInOrder'
<1> SUFFICES ASSUME IInv, LocksInOrder, [Next]_vars
             PROVE  LocksInOrder'
  OBVIOUS
<1> DEFINE Ordered == \A t \in Threads, e \in Events : lock'[e] = t =>
                        /\ pc'[t] \in {"signal", "unlock", "lock"} /\ e \in waitables'[t]
                        /\ pc'[t] = "lock" => \A x \in todo'[t] : e < x
<1>1. IsFiniteSet({t \in Threads : pc'[t] # "idle"})
  <2> DEFINE B == {t \in Threads : pc[t] # "idle"}
             C == {t \in Threads : pc'[t] # "idle"}
  <2>1. PICK t : \A u \in Threads : u # t /\ pc[u] = "idle" => pc'[u] = "idle"
    BY OneCallBegins
  <2>2. C \subseteq B \union {t}
    BY <2>1
  <2>3. IsFiniteSet(B \union {t})
    BY FS_AddElement DEF LocksInOrder
  <2> QED
    BY <2>2, <2>3, FS_Subset
<1>2. CASE UNCHANGED vars
  BY <1>2, NoLockTaken DEF vars, LocksInOrder
<1> USE DEF kernel, syncWaiter, call
<1>3. ASSUME NEW t \in Threads, ThreadStep(t)
      PROVE  Ordered
  <2>1. CASE \E e \in Events : Fire(t, e)
    BY <2>1, NoLockTaken DEF Fire, Broadcast, IInv, Types
  <2>2. CASE \E e \in Events : SignalRaise(t, e)
    BY <2>2, NoLockTaken DEF SignalRaise, IInv, Types
  <2>3. CASE \E e \in Events : SignalReturn(t, e)
    <3>1. PICK e \in Events : SignalReturn(t, e)
      BY <2>3
    <3>2. waitables[t] = {e} /\ lock' = [lock EXCEPT ![e] = NoThread]
      BY <3>1 DEF SignalReturn, IInv, Locks
    <3>3. \A x \in Events : lock'[x] # t
      BY <3>2, ConstantsAssumption DEF LocksInOrder, IInv, Types
    <3>4. \A u \in Threads : u # t => pc'[u] = pc[u] /\ waitables'[u] = waitables[u] /\ todo'[u] = todo[u]
      BY <3>1 DEF SignalReturn, Return, IInv, Types
    <3>5. \A x \in Events, u \in Threads : lock'[x] = u => lock[x] = u
      BY <3>2, ConstantsAssumption DEF IInv, Types
    <3> QED
      BY <3>3, <3>4, <3>5 DEF LocksInOrder
  <2>4. CASE \E e \in Events : LeaveList(t, e)
    BY <2>4, NoLockTaken DEF LeaveList, Return, IInv, Types
  <2>5. CASE EnqueueMany(t)
    <3>1. PICK e \in Events : pc[t] = "lock" /\ NextInOrder(t, e) /\ EnqueueManyAt(t, e)
      BY <2>5 DEF EnqueueMany
    <3>2. CASE lock' = [x \in Events |-> IF lock[x] = t THEN NoThread ELSE lock[x]]
      <4>1. \A u \in Threads : u # t => pc'[u] = pc[u] /\ waitables'[u] = waitables[u] /\ todo'[u] = todo[u]
        BY <3>1 DEF EnqueueManyAt, Unwind, Return, Block, IInv, Types
      <4>2. \A x \in Events, u \in Threads : lock'[x] = u => lock[x] = u /\ u # t
        BY <3>2, ConstantsAssumption DEF IInv, Types
      <4> QED
        BY <4>1, <4>2 DEF LocksInOrder
    <3>3. CASE /\ lock' = [lock EXCEPT ![e] = t]
               /\ todo' = [todo EXCEPT ![t] = @ \ {e}]
               /\ UNCHANGED <<pc, waitables>>
      <4>1. e \in todo[t] /\ e \in waitables[t] /\ \A x \in todo[t] : e <= x
        BY <3>1 DEF NextInOrder, IInv, Locks
      <4>2. \A x \in todo'[t] : x \in todo[t] /\ x # e
        BY <3>3 DEF IInv, Types
      <4>3. \A x \in todo'[t] : e < x
        <5>1. \A x \in todo'[t] : x \in Nat /\ e \in Nat
          BY <4>2, ConstantsAssumption DEF IInv, Types
        <5>2. \A x \in todo'[t] : e <= x /\ x # e
          BY <4>1, <4>2
        <5> QED
          BY <5>1, <5>2
      <4>4. \A x \in Events, u \in Threads : lock'[x] = u => lock[x] = u \/ (x = e /\ u = t)
        BY <3>3 DEF IInv, Types
      <4>5. \A u \in Threads : todo'[u] \subseteq todo[u]
        BY <3>3 DEF IInv, Types
      <4> QED
        BY <3>1, <3>3, <4>1, <4>3, <4>4, <4>5 DEF LocksInOrder
    <3> QED
      BY <3>1, <3>2, <3>3 DEF EnqueueManyAt, Unwind
  <2>6. CASE SeeFired(t) \/ TimeOut(t) \/ CvWait(t) \/ CvNotified(t) \/ CvExpired(t)
    BY <2>6, NoLockTaken DEF SeeFired, TimeOut, CvWait, CvNotified, CvExpired, IInv, Types
  <2> QED
    BY <1>3, <2>1, <2>2, <2>3, <2>4, <2>5, <2>6 DEF ThreadStep
<1>4. ASSUME NEW t \in Threads, NEW e \in Events, Signal(t, e)
      PROVE  Ordered
  BY <1>4 DEF Signal, LocksInOrder, IInv, Types
<1>5. ASSUME NEW t \in Threads, \/ CvSpurious(t)
                                \/ \E e \in Events : Reset(t, e) \/ IsSignaled(t, e)
                                \/ \E e \in Events, kind \in {"Wait", "TimedWait"} : TimedWait(t, e, kind)
                                \/ \E S \in (SUBSET Events) \ {{}} : WaitMany(t, S)
      PROVE  Ordered
  <2>1. CASE CvSpurious(t)
    BY <2>1, NoLockTaken DEF CvSpurious, IInv, Types
  <2>2. CASE \E e \in Events : Reset(t, e) \/ IsSignaled(t, e)
    BY <2>2, NoLockTaken DEF Reset, IsSignaled
  <2>3. CASE \E e \in Events, kind \in {"Wait", "TimedWait"} : TimedWait(t, e, kind)
    BY <2>3, NoLockTaken DEF TimedWait, Block, IInv, Types
  <2>4. CASE \E S \in (SUBSET Events) \ {{}} : WaitMany(t, S)
    BY <2>4, NoLockTaken DEF WaitMany, IInv, Types
  <2> QED
    BY <1>5, <2>1, <2>2, <2>3, <2>4
<1>6. CASE Next
  BY <1>1, <1>3, <1>4, <1>5, <1>6 DEF Next, LocksInOrder
<1> QED
  BY <1>2, <1>6

\* A non-empty set of natural numbers has a smallest one.
LEMMA NatMin ==
  ASSUME NEW T, T \subseteq Nat, T # {}
  PROVE  \E x \in T : \A y \in T : x <= y
<1> DEFINE R == OpToRel(<, Nat)
<1>1. IsWellFoundedOn(R, Nat)
  BY NatLessThanWellFounded
<1>2. \A x, y \in Nat : y < x => <<y, x>> \in R
  BY DEF OpToRel
<1> HIDE DEF R
<1>3. PICK x \in T : \A y \in T : ~ (<<y, x>> \in R)
  BY <1>1, WFMin
<1>4. ASSUME NEW y \in T PROVE x <= y
  <2>1. x \in Nat /\ y \in Nat
    OBVIOUS
  <2>2. ~(y < x)
    BY <1>2, <1>3, <2>1
  <2> QED
    BY <2>1, <2>2
<1> QED
  BY <1>4

\* Numbers given to the members of a finite set are bounded.
LEMMA FiniteBounded ==
  ASSUME NEW S, IsFiniteSet(S), NEW f \in [S -> Nat]
  PROVE  \E n \in Nat : \A x \in S : f[x] <= n
<1> DEFINE Bounded(V) == \E n \in Nat : \A x \in V : f[x] <= n
           K == {Cardinality(V) : V \in {W \in SUBSET S : ~Bounded(W)}}
<1> SUFFICES ASSUME ~Bounded(S) PROVE FALSE
  OBVIOUS
<1> HIDE DEF Bounded
<1>1. K \subseteq Nat /\ K # {}
  BY FS_Subset, FS_CardinalityType
<1>2. PICK k \in K : \A y \in K : k <= y
  BY <1>1, NatMin
<1>3. PICK V \in SUBSET S : ~Bounded(V) /\ k = Cardinality(V)
  BY <1>2
<1>4. V # {}
  <2>1. Bounded({})
    BY DEF Bounded
  <2> QED
    BY <1>3, <2>1
<1>5. PICK v \in V : TRUE
  BY <1>4
<1>6. IsFiniteSet(V)
  BY FS_Subset
<1>7. Cardinality(V \ {v}) = k - 1 /\ k \in Nat
  BY <1>1, <1>2, <1>3, <1>6, FS_RemoveElement
<1>8. Bounded(V \ {v})
  <2> SUFFICES ASSUME ~Bounded(V \ {v}) PROVE FALSE
    OBVIOUS
  <2>1. k - 1 \in K
    BY <1>7
  <2> QED
    BY <1>2, <1>7, <2>1
<1>9. PICK n \in Nat : \A x \in V \ {v} : f[x] <= n
  BY <1>8 DEF Bounded
<1>10. f[v] \in Nat /\ \A x \in V : f[x] \in Nat
  OBVIOUS
<1>11. \A x \in V : f[x] <= n + f[v]
  BY <1>9, <1>10
<1>12. n + f[v] \in Nat
  BY <1>10
<1>13. Bounded(V)
  BY <1>11, <1>12 DEF Bounded
<1> QED
  BY <1>3, <1>13

\* So one of them has the largest.
LEMMA FiniteMax ==
  ASSUME NEW S, IsFiniteSet(S), S # {}, NEW f \in [S -> Nat]
  PROVE  \E x \in S : \A y \in S : f[y] <= f[x]
<1> DEFINE B == {n \in Nat : \A x \in S : f[x] <= n}
<1>1. PICK m \in B : \A n \in B : m <= n
  <2>1. B # {} /\ B \subseteq Nat
    BY FiniteBounded
  <2> QED
    BY <2>1, NatMin
<1>2. m \in Nat /\ \A x \in S : f[x] <= m /\ f[x] \in Nat
  OBVIOUS
<1>3. PICK x \in S : f[x] = m
  <2> SUFFICES ASSUME \A x \in S : f[x] # m PROVE FALSE
    OBVIOUS
  <2>1. \A x \in S : f[x] < m
    BY <1>2
  <2>2. m - 1 \in Nat
    BY <1>2, <2>1
  <2>3. \A x \in S : f[x] <= m - 1
    BY <1>2, <2>1
  <2>4. m - 1 \in B
    BY <2>2, <2>3
  <2> QED
    BY <1>1, <1>2, <2>4
<1> QED
  BY <1>2, <1>3

\* Locks are held in order in every state.
LEMMA LocksHeld == Spec => [](IInv /\ LocksInOrder)
<1>1. Init => LocksInOrder
  <2> SUFFICES ASSUME Init PROVE LocksInOrder
    OBVIOUS
  <2>1. {t \in Threads : pc[t] # "idle"} = {}
    BY DEF Init
  <2>2. \A t \in Threads, e \in Events : lock[e] # t
    BY ConstantsAssumption DEF Init
  <2> QED
    BY <2>1, <2>2, FS_EmptySet DEF LocksInOrder
<1> QED
  BY <1>1, LocksStep, Invariance, PTL DEF Spec

\* Concurrent WaitMany calls on any sets of events never wait for each other in a circle:
\* in such a circle one would want the highest event, and whoever holds that wants a
\* higher one.
THEOREM NoLockCycle == Spec => []NoCircularLockWait
<1>2. ASSUME IInv, LocksInOrder PROVE NoCircularLockWait
  <2> SUFFICES ASSUME NEW S \in (SUBSET Threads) \ {{}},
                      \A t \in S : \E e \in waitables[t] :
                         pc[t] = "lock" /\ NextInOrder(t, e) /\ lock[e] \in S
               PROVE  FALSE
    BY DEF NoCircularLockWait
  <2> DEFINE Wanted(t, e) == e \in Events /\ NextInOrder(t, e) /\ lock[e] \in S
             want == [t \in S |-> CHOOSE e : Wanted(t, e)]
  <2>1. \A t \in S : pc[t] = "lock" /\ \E e : Wanted(t, e)
    BY <1>2 DEF IInv, Types
  <2>2. \A t \in S : Wanted(t, want[t])
    <3> HIDE DEF Wanted
    <3> QED
      BY <2>1
  <2> HIDE DEF want
  <2>3. want \in [S -> Nat]
    BY <2>2, ConstantsAssumption DEF want
  <2>4. IsFiniteSet(S)
    <3>1. S \subseteq {t \in Threads : pc[t] # "idle"}
      BY <2>1
    <3> QED
      BY <1>2, <3>1, FS_Subset DEF LocksInOrder
  <2>5. PICK t \in S : \A u \in S : want[u] <= want[t]
    BY <2>3, <2>4, FiniteMax
  <2>6. PICK u \in S : lock[want[t]] = u
    BY <2>2
  <2>7. want[u] \in todo[u] /\ want[t] \in Events
    BY <2>2 DEF NextInOrder
  <2>8. want[t] < want[u]
    BY <1>2, <2>1, <2>6, <2>7 DEF LocksInOrder
  <2> QED
    BY <2>3, <2>5, <2>8
<1>3. IInv /\ LocksInOrder => NoCircularLockWait
  BY <1>2
<1> QED
  BY <1>3, LocksHeld, PTL

\* Every variable keeps its type, and no call returns or sleeps with a lock, whatever the
\* numbers of threads and events.
THEOREM TypeCorrect == Spec => []TypeOK
<1>1. IInv /\ LocksInOrder => TypeOK
  BY DEF IInv, Types, LocksInOrder, TypeOK
<1> QED
  BY <1>1, LocksHeld, PTL

----------------------------------------------------------------------------
(* The kernel implements EventContract *)

\* The events a thread is blocked on, as the contract sees it.
Blocked(t) == IF Asleep(t) THEN waitables[t] ELSE {}

\* A step that changes neither the flags, nor who was satisfied by what, nor who
\* is blocked, is invisible to the contract.
LEMMA Invisible ==
  ASSUME UNCHANGED <<signaled, got>>, \A x \in Threads : Blocked(x)' = Blocked(x)
  PROVE  UNCHANGED Contract!cvars
BY DEF Contract!cvars, Blocked

\* The contract's view of a step after which only t is blocked on other events.
LEMMA BlockedChange ==
  ASSUME NEW t \in Threads, NEW S, Blocked(t)' = S,
         \A x \in Threads \ {t} : Blocked(x)' = Blocked(x)
  PROVE  [x \in Threads |-> IF Asleep(x) THEN waitables[x] ELSE {}]'
           = [[x \in Threads |-> IF Asleep(x) THEN waitables[x] ELSE {}] EXCEPT ![t] = S]
BY DEF Blocked

\* A call that finds its event signaled is the contract's Take.
LEMMA TakeImplements ==
  ASSUME Types, NEW t \in Threads, NEW e \in Events, signaled[e], Consume(e),
         Blocked(t) = {}, got' = [got EXCEPT ![t] = e],
         \A x \in Threads : Blocked(x)' = Blocked(x)
  PROVE  Contract!Take(t, e)
<1>1. {x \in Events : signaled'[x]} = IF e \in ManualReset THEN {x \in Events : signaled[x]}
                                      ELSE {x \in Events : signaled[x]} \ {e}
  BY DEF Consume, Types
<1> QED
  BY <1>1 DEF Contract!Take, Blocked

\* A wait that blocks is the contract's Block.
LEMMA BlockImplements ==
  ASSUME Types, NEW t \in Threads, NEW S \in SUBSET Events, pc[t] \in {"idle", "lock"},
         Block(t, S), \A e \in S : ~signaled[e], UNCHANGED signaled,
         waitables' = [waitables EXCEPT ![t] = S]
  PROVE  Contract!Block(t, S)
<1>1. Blocked(t) = {} /\ Blocked(t)' = S
  BY DEF Blocked, Asleep, Block, Types
<1>2. \A x \in Threads \ {t} : Blocked(x)' = Blocked(x)
  BY DEF Blocked, Asleep, Block, Types
<1>3. got' = [got EXCEPT ![t] = NoEvent]
  BY DEF Block
<1> QED
  BY <1>1, <1>2, <1>3, BlockedChange DEF Contract!Block, Blocked

\* Every step of the kernel is a step of the contract or invisible to it.
LEMMA StepImplements ==
  ASSUME IInv, [Next]_vars
  PROVE  [Contract!Next]_(Contract!cvars)
<1> DEFINE Goal == [Contract!Next]_(Contract!cvars)
<1> USE ConstantsAssumption DEF IInv, Types
<1>1. ASSUME UNCHANGED vars
      PROVE  Goal
  BY <1>1, Invisible DEF vars, Blocked, Asleep
<1>2. ASSUME NEW t \in Threads, NEW e \in Events, Fire(t, e)
      PROVE  Goal
  <2>0. Head(waiters[e]) \in Threads
    BY <1>2 DEF Fire
  <2>1. PICK w \in Threads : /\ w = Head(waiters[e])
                             /\ Contains(waiters[e], w) /\ pc[t] = "signal" /\ e \in waitables[t]
    BY <1>2, <2>0, TailFacts DEF Fire, Lists
  <2>2. pc[w] \in {"cv", "woken", "dequeue"} /\ e \in todo[w] /\ w # t
    BY <1>2, <2>1 DEF Fire, Lists, InWait
  <2>3. CASE fired[w]
    BY <1>2, <2>1, <2>3, Invisible DEF Fire, syncWaiter, call, Blocked, Asleep
  <2>4. CASE ~fired[w]
    <3>1. /\ fired' = [fired EXCEPT ![w] = TRUE]
          /\ got' = [got EXCEPT ![w] = e]
          /\ UNCHANGED <<signaled, waitables>>
          /\ \A x \in Threads : pc'[x] = IF x = w THEN Broadcast(w)
                                        ELSE IF x = t /\ StopsAtOne(e) THEN "unlock" ELSE pc[x]
      BY <1>2, <2>1, <2>4 DEF Fire, call
    <3>2. e \in Blocked(w)
      BY <2>1, <2>2, <2>4 DEF Blocked, Asleep, Frames
    <3>3. Blocked(w)' = {}
      <4>1. fired'[w]
        BY <2>1, <3>1
      <4> QED
        BY <4>1 DEF Blocked, Asleep
    <3>4. \A x \in Threads \ {w} : Blocked(x)' = Blocked(x)
      BY <2>1, <3>1 DEF Blocked, Asleep
    <3>5. ~signaled[e]
      BY <2>1 DEF Signals
    <3>6. Contract!Release(e, w)
      <4>1. [x \in Threads |-> IF Asleep(x) THEN waitables[x] ELSE {}]'
             = [[x \in Threads |-> IF Asleep(x) THEN waitables[x] ELSE {}] EXCEPT ![w] = {}]
        BY <2>1, <3>3, <3>4, BlockedChange
      <4> HIDE DEF Types
      <4> QED
        BY <2>1, <3>1, <3>2, <3>5, <4>1 DEF Contract!Release, Blocked
    <3> HIDE DEF Types, IInv
    <3> QED
      BY <2>1, <3>6 DEF Contract!Next
  <2> QED
    BY <2>3, <2>4
<1>3. ASSUME NEW t \in Threads, NEW e \in Events, SignalRaise(t, e)
      PROVE  Goal
  <2>1. \A x \in Threads : e \notin Blocked(x)
    BY <1>3 DEF SignalRaise, Lists, Blocked, Contains
  <2>2. \A x \in Threads : Blocked(x)' = Blocked(x)
    BY <1>3 DEF SignalRaise, Blocked, Asleep, syncWaiter, call
  <2>3. {x \in Events : signaled'[x]} = {x \in Events : signaled[x]} \union {e}
    BY <1>3 DEF SignalRaise
  <2>4. Contract!Raise(e)
    BY <1>3, <2>1, <2>2, <2>3 DEF SignalRaise, syncWaiter, Contract!Raise, Blocked
  <2> QED
    BY <2>4 DEF Contract!Next
<1>4. ASSUME NEW t \in Threads, NEW e \in Events, SignalReturn(t, e) \/ LeaveList(t, e)
      PROVE  Goal
  <2>1. UNCHANGED <<signaled, got>>
    BY <1>4 DEF SignalReturn, LeaveList
  <2>2. \A x \in Threads : Blocked(x)' = Blocked(x)
    <3>1. CASE SignalReturn(t, e)
      BY <3>1 DEF SignalReturn, Return, Blocked, Asleep
    <3>2. CASE LeaveList(t, e) /\ Return(t)
      BY <3>2 DEF LeaveList, Return, Blocked, Asleep
    <3>3. CASE LeaveList(t, e) /\ ~Return(t)
      BY <3>3 DEF LeaveList, Blocked, Asleep
    <3> QED
      BY <1>4, <3>1, <3>2, <3>3
  <2> QED
    BY <2>1, <2>2, Invisible
<1>5. ASSUME NEW t \in Threads, NEW e \in Events, pc[t] = "lock", e \in todo[t], EnqueueManyAt(t, e)
      PROVE  Goal
  <2>1. CASE signaled[e]
    <3>1. Consume(e) /\ got' = [got EXCEPT ![t] = e] /\ Return(t)
      BY <1>5, <2>1 DEF EnqueueManyAt, Unwind
    <3>2. Blocked(t) = {} /\ \A x \in Threads : Blocked(x)' = Blocked(x)
      BY <1>5, <3>1 DEF Return, Blocked, Asleep
    <3>3. Contract!Take(t, e)
      BY <2>1, <3>1, <3>2, TakeImplements
    <3> QED
      BY <3>3 DEF Contract!Next
  <2>2. CASE ~signaled[e] /\ todo[t] # {e}
    BY <1>5, <2>2, Invisible DEF EnqueueManyAt, Unwind, syncWaiter, Blocked, Asleep
  <2>3. CASE ~signaled[e] /\ todo[t] = {e}
    <3>0. PICK S \in SUBSET Events : S = waitables[t]
      OBVIOUS
    <3>1. Block(t, S) /\ UNCHANGED <<signaled, waitables>>
      BY <1>5, <2>3, <3>0 DEF EnqueueManyAt, Unwind
    <3>2. \A x \in S : ~signaled[x]
      BY <1>5, <2>3, <3>0 DEF Locks
    <3>3. waitables' = [waitables EXCEPT ![t] = S]
      BY <3>0, <3>1
    <3> HIDE DEF Types
    <3>4. Contract!Block(t, S)
      BY <1>5, <3>1, <3>2, <3>3, BlockImplements
    <3> HIDE DEF IInv
    <3> QED
      BY <3>4 DEF Contract!Next
  <2> QED
    BY <2>1, <2>2, <2>3
<1>6. ASSUME NEW t \in Threads, TimeOut(t)
      PROVE  Goal
  <2>1. Blocked(t)' = {} /\ \A x \in Threads \ {t} : Blocked(x)' = Blocked(x)
    BY <1>6 DEF TimeOut, Disable, Blocked, Asleep
  <2>2. Contract!GiveUp(t)
    BY <1>6, <2>1, BlockedChange DEF TimeOut, kernel, Contract!GiveUp
  <2> QED
    BY <2>2 DEF Contract!Next
<1>7. ASSUME NEW t \in Threads, SeeFired(t) \/ CvWait(t) \/ CvNotified(t) \/ CvExpired(t) \/ CvSpurious(t)
      PROVE  Goal
  <2> USE DEF kernel, syncWaiter, call
  <2>1. UNCHANGED <<signaled, got>>
    BY <1>7 DEF SeeFired, CvWait, CvNotified, CvExpired, CvSpurious
  <2>2. \A x \in Threads : Blocked(x)' = Blocked(x)
    BY <1>7 DEF SeeFired, CvWait, CvNotified, CvExpired, CvSpurious, Blocked, Asleep
  <2> QED
    BY <2>1, <2>2, Invisible
<1>8. ASSUME NEW t \in Threads, NEW e \in Events, Reset(t, e)
      PROVE  Goal
  <2>1. {x \in Events : signaled'[x]} = {x \in Events : signaled[x]} \ {e}
    BY <1>8 DEF Reset
  <2>2. \A x \in Threads : Blocked(x)' = Blocked(x)
    BY <1>8 DEF Reset, syncWaiter, call, Blocked, Asleep
  <2>3. Contract!Lower(e)
    BY <1>8, <2>1, <2>2 DEF Reset, syncWaiter, Contract!Lower, Blocked
  <2> QED
    BY <2>3 DEF Contract!Next
<1>9. ASSUME NEW t \in Threads, NEW e \in Events, IsSignaled(t, e)
      PROVE  Goal
  <2>1. Blocked(t) = {} /\ \A x \in Threads : Blocked(x)' = Blocked(x)
    BY <1>9 DEF IsSignaled, call, Blocked, Asleep
  <2>2. Contract!Take(t, e)
    BY <1>9, <2>1, TakeImplements DEF IsSignaled
  <2> QED
    BY <2>2 DEF Contract!Next
<1>10. ASSUME NEW t \in Threads, NEW e \in Events, Signal(t, e)
       PROVE  Goal
  <2>1. UNCHANGED <<signaled, got>> /\ \A x \in Threads : Blocked(x)' = Blocked(x)
    BY <1>10 DEF Signal, syncWaiter, Blocked, Asleep
  <2> QED
    BY <2>1, Invisible
<1>11. ASSUME NEW t \in Threads, NEW e \in Events, NEW kind \in {"Wait", "TimedWait"}, TimedWait(t, e, kind)
       PROVE  Goal
  <2>1. CASE signaled[e]
    <3>1. Blocked(t) = {} /\ \A x \in Threads : Blocked(x)' = Blocked(x)
      BY <1>11, <2>1 DEF TimedWait, call, Blocked, Asleep
    <3>2. Contract!Take(t, e)
      BY <1>11, <2>1, <3>1, TakeImplements DEF TimedWait
    <3> QED
      BY <3>2 DEF Contract!Next
  <2>2. CASE ~signaled[e]
    <3>1. /\ pc[t] = "idle" /\ Block(t, {e}) /\ {e} \in SUBSET Events /\ UNCHANGED signaled
          /\ waitables' = [waitables EXCEPT ![t] = {e}]
      BY <1>11, <2>2 DEF TimedWait
    <3> HIDE DEF Types
    <3>2. Contract!Block(t, {e})
      BY <2>2, <3>1, BlockImplements
    <3> QED
      BY <3>1, <3>2 DEF Contract!Next
  <2> QED
    BY <2>1, <2>2
<1>12. ASSUME NEW t \in Threads, NEW S \in (SUBSET Events) \ {{}}, WaitMany(t, S)
       PROVE  Goal
  <2>1. UNCHANGED <<signaled, got>> /\ \A x \in Threads : Blocked(x)' = Blocked(x)
    BY <1>12 DEF WaitMany, kernel, syncWaiter, Blocked, Asleep
  <2> QED
    BY <2>1, Invisible
<1>13. ASSUME NEW t \in Threads, ThreadStep(t)
       PROVE  Goal
  BY <1>2, <1>3, <1>4, <1>5, <1>6, <1>7, <1>13 DEF ThreadStep, EnqueueMany, NextInOrder
<1> HIDE DEF Types, IInv, Goal
<1>14. Goal
  BY <1>1, <1>7, <1>8, <1>9, <1>10, <1>11, <1>12, <1>13 DEF Next
<1> QED
  BY <1>14 DEF Goal

\* The kernel, with its locks and lists, implements the token contract: signals
\* are neither lost nor duplicated.
THEOREM Refinement == Spec => ImplementsContract
<1>1. Init => Contract!Init
  BY DEF Init, Contract!Init, Asleep
<1>2. IInv /\ [Next]_vars => [Contract!Next]_(Contract!cvars)
  BY StepImplements
<1> QED
  BY <1>1, <1>2, Invariance, PTL DEF Spec, ImplementsContract, Contract!Spec

============================================================================
