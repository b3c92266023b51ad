-------------------------- MODULE WorkerPoolProofs --------------------------
(***************************************************************************)
(* Theorems about WorkerPool and the LazyInstance it lives in, for any     *)
(* number of posting threads, workers and tasks.  They follow from the     *)
(* inductive invariant IInv.                                               *)
(***************************************************************************)
EXTENDS WorkerPool, TLAPS, FiniteSetTheorems

----------------------------------------------------------------------------
(* The inductive invariant *)

Builds(t) == access[t] \in {"creates", "completes"}

\* One thread at a time builds the object, and only while private_instance_ says so;
\* nobody gets further before it is built, and nobody begins once the process exits.
Building ==
  /\ \A s, t \in Threads : Builds(s) /\ Builds(t) => s = t
  /\ \A t \in Threads :
       /\ Builds(t) => private_instance = "creating"
       /\ access[t] = "creates" => constructed = 0
       /\ access[t] = "completes" => constructed = 1
       /\ access[t] = "spins" => private_instance # "none"
       /\ access[t] \in {"registers", "has"} => private_instance = "created"
       /\ access[t] # "out" => exiting = "no" /\ posting[t] # NoTask
  /\ private_instance = "created" => constructed = 1
  /\ private_instance = "none" => constructed = 0 \/ exiting = "done"

\* How many workers are idle, and how many are on their way to a task.
Idle == Cardinality(Doing({"waiting", "woken"}))
Coming == Cardinality(Doing({"starting", "woken"}))

\* Every worker that waits, or has been woken and has not got lock_ yet, is counted.
IdleCount == num_idle_threads = Idle

Ending == terminated <=> exiting # "no"

IInv == TypeOK /\ InstanceIsBuiltOnce /\ Building /\ IdleCount /\ Ending /\ NobodySleeps

----------------------------------------------------------------------------
(* Counting the workers *)

WorkerType == worker \in [Workers -> {"none", "starting", "waiting", "woken", "running"}]

\* However many workers do something, they can be counted.
LEMMA DoingIsFinite ==
  ASSUME NEW what
  PROVE  /\ IsFiniteSet(Doing(what))
         /\ Cardinality(Doing(what)) \in 0..Cardinality(Workers)
<1>1. Doing(what) \in SUBSET Workers
  BY DEF Doing
<1>2. IsFiniteSet(Doing(what)) /\ Cardinality(Doing(what)) <= Cardinality(Workers)
  BY <1>1, FS_Subset, PoolAssumption
<1>3. Cardinality(Doing(what)) \in Nat /\ Cardinality(Workers) \in Nat
  BY <1>2, FS_CardinalityType, PoolAssumption
<1> QED
  BY <1>2, <1>3

\* A worker that gets from one state to another changes each count by what it leaves
\* and what it enters.
LEMMA DoingChanges ==
  ASSUME WorkerType, NEW w \in Workers, NEW to, NEW what, Becomes(w, to)
  PROVE  LET n    == Cardinality(Doing(what))
             next == Cardinality(Doing(what)')
         IN  /\ worker[w] \in what /\ to \in what => next = n
             /\ worker[w] \notin what /\ to \notin what => next = n
             /\ worker[w] \notin what /\ to \in what => next = n + 1
             /\ worker[w] \in what /\ to \notin what => next = n - 1
<1> DEFINE D == Doing(what)
<1>1. IsFiniteSet(D)
  BY DoingIsFinite
<1>2. w \in D <=> worker[w] \in what
  BY DEF Doing
<1>3. CASE to \in what
  <2>1. Doing(what)' = D \union {w}
    BY <1>3 DEF Doing, Becomes, WorkerType
  <2>2. Cardinality(D \union {w}) = IF w \in D THEN Cardinality(D) ELSE Cardinality(D) + 1
    BY <1>1, FS_AddElement
  <2> HIDE DEF D
  <2> QED
    BY <1>2, <1>3, <2>1, <2>2 DEF D
<1>4. CASE to \notin what
  <2>1. Doing(what)' = D \ {w}
    BY <1>4 DEF Doing, Becomes, WorkerType
  <2>2. Cardinality(D \ {w}) = IF w \in D THEN Cardinality(D) - 1 ELSE Cardinality(D)
    BY <1>1, FS_RemoveElement
  <2> HIDE DEF D
  <2> QED
    BY <1>2, <1>4, <2>1, <2>2 DEF D
<1> QED
  BY <1>3, <1>4

\* The two counts that matter are numbers ...
LEMMA CountsExist == Idle \in Nat /\ Coming \in Nat
BY DoingIsFinite, FS_CardinalityType DEF Idle, Coming

\* ... and change accordingly.
LEMMA CountsChange ==
  ASSUME WorkerType, NEW w \in Workers, NEW to, Becomes(w, to)
  PROVE  /\ Idle' = Idle - (IF worker[w] \in {"waiting", "woken"} THEN 1 ELSE 0)
                         + (IF to \in {"waiting", "woken"} THEN 1 ELSE 0)
         /\ Coming' = Coming - (IF worker[w] \in {"starting", "woken"} THEN 1 ELSE 0)
                             + (IF to \in {"starting", "woken"} THEN 1 ELSE 0)
<1> DEFINE I == {"waiting", "woken"}
           C == {"starting", "woken"}
           n(what) == Cardinality(Doing(what))
<1>1. n(I) \in Nat /\ n(C) \in Nat
  BY CountsExist DEF Idle, Coming
<1> HIDE DEF I, C
<1>2. n(I)' = n(I) - (IF worker[w] \in I THEN 1 ELSE 0) + (IF to \in I THEN 1 ELSE 0)
  BY <1>1, DoingChanges
<1>3. n(C)' = n(C) - (IF worker[w] \in C THEN 1 ELSE 0) + (IF to \in C THEN 1 ELSE 0)
  BY <1>1, DoingChanges
<1> QED
  BY <1>1, <1>2, <1>3 DEF Idle, Coming, I, C

\* The count of idle workers never exceeds the number of workers.
LEMMA IdleType ==
  ASSUME IdleCount'
  PROVE  num_idle_threads' \in 0..Cardinality(Workers)
<1>1. Doing({"waiting", "woken"})' \in SUBSET Workers
  BY DEF Doing
<1>2. /\ IsFiniteSet(Doing({"waiting", "woken"})')
      /\ Cardinality(Doing({"waiting", "woken"})') <= Cardinality(Workers)
  BY <1>1, FS_Subset, PoolAssumption
<1>3. Cardinality(Doing({"waiting", "woken"})') \in Nat /\ Cardinality(Workers) \in Nat
  BY <1>2, FS_CardinalityType, PoolAssumption
<1> QED
  BY <1>2, <1>3 DEF IdleCount, Idle

----------------------------------------------------------------------------
(* The steps *)

\* In the beginning there is no object, no worker and no task.
LEMMA InitInv == Init => IInv
<1> SUFFICES ASSUME Init PROVE IInv
  OBVIOUS
<1> USE DEF Init, LazyInit
<1>1. \A what : "none" \notin what => Doing(what) = {}
  BY DEF Doing
<1>2. Cardinality(Doing({"waiting", "woken"})) = 0 /\ Doing({"waiting"}) = {}
  BY <1>1, FS_EmptySet
<1>3. Cardinality(Doing({"starting", "woken"})) = 0
  BY <1>1, FS_EmptySet
<1>4. Cardinality(Workers) \in Nat
  BY FS_CardinalityType, PoolAssumption
<1>5. TypeOK
  <2>1. num_idle_threads \in 0..Cardinality(Workers) /\ posted \in 0..MaxTasks
    BY <1>4, PoolAssumption
  <2>2. pending_tasks \in Seq(Tasks)
    OBVIOUS
  <2>3. at_exit \in BOOLEAN
    OBVIOUS
  <2>4. LazyTypeOK
    BY <2>3 DEF LazyTypeOK, Accesses
  <2> QED
    BY <2>1, <2>2, <2>4 DEF TypeOK
<1>6. InstanceIsBuiltOnce /\ Building
  BY DEF InstanceIsBuiltOnce, Building, Builds
<1>7. IdleCount /\ Ending /\ NobodySleeps
  BY <1>2, <1>3 DEF IdleCount, Idle, Ending, NobodySleeps
<1> QED
  BY <1>5, <1>6, <1>7 DEF IInv

\* A thread that begins to post a task has one, and whatever it does next in
\* Pointer() leaves the others where they are.
LEMMA PostTaskInv ==
  ASSUME IInv, NEW t \in Threads, PostTask(t)
  PROVE  IInv'
<1> USE DEF IInv
<1>1. /\ UNCHANGED <<num_idle_threads, pending_tasks, terminated>>
      /\ UNCHANGED <<worker, running, exiting, started, failed>>
  BY DEF PostTask, poolVars
<1>2. IdleCount' /\ Ending' /\ NobodySleeps'
  BY <1>1 DEF IdleCount, Idle, Ending, NobodySleeps, Doing
<1>3. CASE /\ exiting = "no" /\ posting[t] = NoTask /\ posted < MaxTasks
           /\ posted' = posted + 1
           /\ posting' = [posting EXCEPT ![t] = posted + 1]
           /\ Pointer(t)
  <2>1. posted + 1 \in Tasks /\ posted + 1 # NoTask /\ posted' \in 0..MaxTasks
    BY <1>3, PoolAssumption DEF TypeOK, Tasks
  <2>2. TypeOK'
    BY <1>1, <1>3, <2>1 DEF TypeOK, LazyTypeOK, Accesses, Pointer, GoesTo
  <2>3. InstanceIsBuiltOnce'
    BY <1>1, <1>3 DEF InstanceIsBuiltOnce, Building, Pointer, GoesTo, TypeOK, LazyTypeOK
  <2>4. Building'
    BY <1>1, <1>3, <2>1 DEF Building, Builds, Pointer, GoesTo, TypeOK, LazyTypeOK
  <2> QED
    BY <1>2, <2>2, <2>3, <2>4
<1>4. CASE LazyStep(t) /\ UNCHANGED <<posted, posting>>
  <2> USE DEF LazyStep, NeedsLazyInstance, Claims, StopsSpinning, New,
              CompleteLazyInstance, RegisterCallback, GoesTo
  <2>1. LazyTypeOK'
    <3>1. at_exit' \in BOOLEAN
      BY <1>4 DEF TypeOK, LazyTypeOK
    <3> QED
      BY <1>4, <3>1 DEF TypeOK, LazyTypeOK, Accesses
  <2>2. TypeOK'
    BY <1>1, <1>4, <2>1 DEF TypeOK
  <2>3. InstanceIsBuiltOnce'
    BY <1>4, SMTT(30) DEF InstanceIsBuiltOnce, Building, Builds, TypeOK, LazyTypeOK, Accesses
  <2>4. Building'
    BY <1>1, <1>4 DEF Building, Builds, TypeOK, LazyTypeOK
  <2> QED
    BY <1>2, <2>2, <2>3, <2>4
<1> QED
  BY <1>3, <1>4 DEF PostTask


\* A task that is added gets a worker of its own: one that waits is woken, one is
\* created, or those that have been woken are as many as the tasks already.
LEMMA AddTaskInv ==
  ASSUME IInv, NEW t \in Threads, AddTask(t)
  PROVE  IInv'
<1> USE DEF IInv
<1>1. /\ UNCHANGED <<private_instance, constructed, at_exit>>
      /\ UNCHANGED <<num_idle_threads, terminated, running, exiting, posted, started>>
      /\ access[t] = "has" /\ access' = [access EXCEPT ![t] = "out"]
      /\ posting' = [posting EXCEPT ![t] = NoTask]
      /\ pending_tasks' = Append(pending_tasks, posting[t])
  BY DEF AddTask, Uses, GoesTo
<1>2. posting[t] \in Tasks
  BY <1>1 DEF Building, TypeOK
<1>3. InstanceIsBuiltOnce' /\ Building' /\ Ending'
  BY <1>1 DEF InstanceIsBuiltOnce, Building, Builds, Ending, TypeOK, LazyTypeOK
<1>4. /\ pending_tasks' \in Seq(Tasks)
      /\ Len(pending_tasks') = Len(pending_tasks) + 1 /\ Len(pending_tasks) \in Nat
  BY <1>1, <1>2 DEF TypeOK
<1>5. Idle \in Nat /\ Coming \in Nat /\ num_idle_threads = Idle
  BY CountsExist DEF IdleCount
<1>6. LazyTypeOK'
  BY <1>1 DEF TypeOK, LazyTypeOK, Accesses
<1>7. failed' \in BOOLEAN
  BY DEF AddTask, CreateNonJoinable, TypeOK
<1>8. WorkerType /\ exiting # "done"
  BY <1>1 DEF TypeOK, WorkerType, Building
<1>9. ASSUME NEW w \in Workers, worker[w] = "waiting", Becomes(w, "woken"), UNCHANGED failed
      PROVE  WorkerType' /\ IdleCount' /\ NobodySleeps'
  <2>1. Idle' = Idle
    BY <1>5, <1>8, <1>9, CountsChange
  <2>2. Coming' = Coming + 1
    BY <1>5, <1>8, <1>9, CountsChange
  <2>3. WorkerType'
    BY <1>8, <1>9 DEF Becomes, WorkerType
  <2> QED
    BY <1>1, <1>4, <1>5, <1>8, <1>9, <2>1, <2>2, <2>3 DEF IdleCount, NobodySleeps, Coming
<1>10. ASSUME NEW w \in Workers, worker[w] = "none", Becomes(w, "starting"), UNCHANGED failed
       PROVE  WorkerType' /\ IdleCount' /\ NobodySleeps'
  <2>1. Idle' = Idle
    BY <1>5, <1>8, <1>10, CountsChange
  <2>2. Coming' = Coming + 1
    BY <1>5, <1>8, <1>10, CountsChange
  <2>3. WorkerType'
    BY <1>8, <1>10 DEF Becomes, WorkerType
  <2> QED
    BY <1>1, <1>4, <1>5, <1>8, <1>10, <2>1, <2>2, <2>3 DEF IdleCount, NobodySleeps, Coming
<1>11. ASSUME failed' = TRUE, UNCHANGED worker
       PROVE  WorkerType' /\ IdleCount' /\ NobodySleeps'
  <2>1. \A what : Doing(what)' = Doing(what)
    BY <1>11 DEF Doing
  <2>2. IdleCount'
    BY <1>1, <2>1 DEF IdleCount, Idle
  <2>3. failed' /\ exiting' # "done"
    BY <1>1, <1>8, <1>11
  <2>4. WorkerType'
    BY <1>8, <1>11 DEF WorkerType
  <2> QED
    BY <2>2, <2>3, <2>4 DEF NobodySleeps
<1>12. ASSUME EnoughWorkers(pending_tasks'), UNCHANGED <<worker, failed>>,
              ~\E w \in Workers : worker[w] = "waiting"
       PROVE  WorkerType' /\ IdleCount' /\ NobodySleeps'
  <2>1. \A what : Doing(what)' = Doing(what)
    BY <1>12 DEF Doing
  <2>2. Doing({"waiting", "woken"}) \in SUBSET Doing({"starting", "woken"})
    BY <1>12 DEF Doing
  <2>3. Idle <= Coming
    BY <2>2, DoingIsFinite, FS_Subset DEF Idle, Coming
  <2>4. num_idle_threads >= Len(pending_tasks')
    BY <1>12 DEF EnoughWorkers
  <2>5. Len(pending_tasks') <= Coming
    BY <1>4, <1>5, <2>3, <2>4
  <2>6. WorkerType' /\ IdleCount'
    BY <1>1, <1>8, <1>12, <2>1 DEF IdleCount, Idle, WorkerType
  <2>7. NobodySleeps'
    BY <1>1, <1>8, <2>1, <2>5 DEF NobodySleeps, Coming
  <2> QED
    BY <2>6, <2>7
<1>13. WorkerType' /\ IdleCount' /\ NobodySleeps'
  <2>1. CASE EnoughWorkers(pending_tasks') /\ Signal /\ UNCHANGED failed
    <3>1. CASE \E w \in Workers : worker[w] = "waiting"
      BY <1>9, <2>1, <3>1 DEF Signal
    <3>2. CASE ~\E w \in Workers : worker[w] = "waiting"
      <4>1. UNCHANGED worker
        BY <2>1, <3>2 DEF Signal
      <4> QED
        BY <1>12, <2>1, <3>2, <4>1
    <3> QED
      BY <3>1, <3>2
  <2>2. CASE CreateNonJoinable
    BY <1>10, <1>11, <2>2 DEF CreateNonJoinable
  <2> QED
    BY <2>1, <2>2 DEF AddTask
<1>14. TypeOK'
  BY <1>1, <1>4, <1>6, <1>7, <1>13 DEF TypeOK, WorkerType
<1> QED
  BY <1>3, <1>13, <1>14

\* Taking the first task leaves one fewer, for one worker fewer.
LEMMA TakeTaskFacts ==
  ASSUME TypeOK, NEW w \in Workers, pending_tasks # <<>>, TakeTask(w)
  PROVE  /\ WorkerType' /\ Becomes(w, "running")
         /\ running' \in [Workers -> Tasks \union {NoTask}] /\ started' \subseteq Tasks
         /\ pending_tasks' \in Seq(Tasks)
         /\ Len(pending_tasks) \in Nat /\ Len(pending_tasks') = Len(pending_tasks) - 1
<1>1. Head(pending_tasks) \in Tasks /\ pending_tasks' \in Seq(Tasks)
  BY DEF TypeOK, TakeTask
<1>2. Len(pending_tasks) \in Nat /\ Len(pending_tasks') = Len(pending_tasks) - 1
  BY DEF TypeOK, TakeTask
<1>3. WorkerType' /\ Becomes(w, "running")
  BY DEF TypeOK, TakeTask, Becomes, WorkerType
<1> QED
  BY <1>1, <1>2, <1>3 DEF TypeOK, TakeTask

\* What the workers do does not concern the object.
LEMMA WorkersLeaveTheObject ==
  ASSUME IInv, UNCHANGED <<lazyVars, terminated, posting, exiting, posted, failed>>
  PROVE  InstanceIsBuiltOnce' /\ Building' /\ Ending' /\ LazyTypeOK'
BY DEF IInv, TypeOK, lazyVars, LazyTypeOK, InstanceIsBuiltOnce, Building, Builds, Ending

\* A new worker, or one whose task has ended, takes a task if there is one, waits only
\* if there is none and leaves only if the pool is terminated.
LEMMA WaitForTaskInv ==
  ASSUME IInv, NEW w \in Workers, worker[w] \in {"starting", "running"}, WaitForTask(w)
  PROVE  IInv'
<1> USE DEF IInv
<1>1. UNCHANGED <<lazyVars, terminated, posting, exiting, posted, failed>>
  BY DEF WaitForTask
<1>2. InstanceIsBuiltOnce' /\ Building' /\ Ending' /\ LazyTypeOK'
  BY <1>1, WorkersLeaveTheObject
<1>3. WorkerType /\ Idle \in Nat /\ Coming \in Nat /\ num_idle_threads = Idle
  BY CountsExist DEF IdleCount, TypeOK, WorkerType
<1>4. Len(pending_tasks) \in Nat
  BY DEF TypeOK
<1>5. CASE /\ terminated /\ Becomes(w, "none")
           /\ running' = [running EXCEPT ![w] = NoTask]
           /\ UNCHANGED <<num_idle_threads, pending_tasks, started>>
  <2>1. Idle' = Idle
    BY <1>3, <1>5, CountsChange
  <2>2. Doing({"waiting"})' \subseteq Doing({"waiting"})
    BY <1>3, <1>5 DEF Doing, Becomes, WorkerType
  <2>3. IdleCount' /\ NobodySleeps'
    BY <1>1, <1>3, <1>5, <2>1, <2>2 DEF IdleCount, NobodySleeps, Coming
  <2>4. TypeOK'
    BY <1>1, <1>2, <1>5 DEF TypeOK, Becomes
  <2> QED
    BY <1>2, <2>3, <2>4
<1>6. CASE /\ ~terminated /\ pending_tasks = <<>> /\ Becomes(w, "waiting")
           /\ running' = [running EXCEPT ![w] = NoTask]
           /\ num_idle_threads' = num_idle_threads + 1
           /\ UNCHANGED <<pending_tasks, started>>
  <2>1. Idle' = Idle + 1
    BY <1>3, <1>6, CountsChange
  <2>2. IdleCount'
    BY <1>3, <1>6, <2>1 DEF IdleCount
  <2>3. (Coming \in Nat)'
    BY CountsExist, PTL
  <2>4. NobodySleeps'
    <3>1. Len(pending_tasks') = 0 /\ exiting' = "no"
      BY <1>1, <1>6 DEF Ending
    <3> QED
      BY <2>3, <3>1 DEF NobodySleeps, Coming
  <2>5. TypeOK'
    BY <1>1, <1>2, <1>6, <2>2, IdleType DEF TypeOK, Becomes
  <2> QED
    BY <1>2, <2>2, <2>4, <2>5
<1>7. CASE ~terminated /\ pending_tasks # <<>> /\ TakeTask(w) /\ UNCHANGED num_idle_threads
  <2>1. Idle' = Idle
    BY <1>3, <1>7, CountsChange, TakeTaskFacts
  <2>2. Coming' \in {Coming, Coming - 1}
    BY <1>3, <1>7, CountsChange, TakeTaskFacts
  <2>3. IdleCount'
    BY <1>3, <1>7, <2>1 DEF IdleCount
  <2>4. Len(pending_tasks') = Len(pending_tasks) - 1 /\ exiting' = "no"
    BY <1>1, <1>7, TakeTaskFacts DEF Ending
  <2>5. NobodySleeps'
    BY <1>1, <1>3, <1>4, <1>7, <2>2, <2>4 DEF NobodySleeps, Coming
  <2>6. TypeOK'
    BY <1>1, <1>2, <1>7, <2>3, TakeTaskFacts, IdleType DEF TypeOK, WorkerType
  <2> QED
    BY <1>2, <2>3, <2>5, <2>6
<1> QED
  BY <1>5, <1>6, <1>7 DEF WaitForTask, Leaves, OneMoreIdle


\* A wait that times out, or ends for no reason, makes one idle worker a woken one.
LEMMA TimesOutInv ==
  ASSUME IInv, NEW w \in Workers, TimesOut(w)
  PROVE  IInv'
<1> USE DEF IInv
<1>1. /\ worker[w] = "waiting" /\ Becomes(w, "woken")
      /\ UNCHANGED <<lazyVars, terminated, posting, exiting, posted, failed>>
      /\ UNCHANGED <<num_idle_threads, pending_tasks, running, started>>
  BY DEF TimesOut, poolVars
<1>2. InstanceIsBuiltOnce' /\ Building' /\ Ending' /\ LazyTypeOK'
  BY <1>1, WorkersLeaveTheObject
<1>3. WorkerType
  BY DEF TypeOK, WorkerType
<1>4. Idle' = Idle /\ Coming' = Coming + 1 /\ Idle \in Nat /\ Coming \in Nat
  BY <1>1, <1>3, CountsChange, CountsExist
<1>5. Doing({"waiting"})' \subseteq Doing({"waiting"})
  BY <1>1, <1>3 DEF Doing, Becomes, WorkerType
<1>6. Len(pending_tasks) \in Nat
  BY DEF TypeOK
<1>7. IdleCount' /\ NobodySleeps'
  BY <1>1, <1>4, <1>5, <1>6 DEF IdleCount, NobodySleeps, Coming
<1>8. TypeOK'
  BY <1>1, <1>2 DEF TypeOK, Becomes
<1> QED
  BY <1>2, <1>7, <1>8

\* A woken worker leaves only if there is no task.
LEMMA WakesInv ==
  ASSUME IInv, NEW w \in Workers, Wakes(w)
  PROVE  IInv'
<1> USE DEF IInv
<1>1. /\ worker[w] = "woken" /\ num_idle_threads' = num_idle_threads - 1
      /\ UNCHANGED <<lazyVars, terminated, posting, exiting, posted, failed>>
  BY DEF Wakes
<1>2. InstanceIsBuiltOnce' /\ Building' /\ Ending' /\ LazyTypeOK'
  BY <1>1, WorkersLeaveTheObject
<1>3. WorkerType /\ num_idle_threads = Idle /\ Len(pending_tasks) \in Nat
  BY DEF TypeOK, WorkerType, IdleCount
<1>4. ASSUME NEW to \in {"none", "running"}, Becomes(w, to)
      PROVE  /\ Coming' = Coming - 1 /\ Coming \in Nat /\ Coming' \in Nat
             /\ IdleCount' /\ Doing({"waiting"})' \subseteq Doing({"waiting"})
  <2>1. Idle' = Idle - 1 /\ Coming' = Coming - 1 /\ Idle \in Nat /\ Coming \in Nat
    BY <1>1, <1>3, <1>4, CountsChange, CountsExist
  <2>2. w \in Doing({"starting", "woken"})
    BY <1>1 DEF Doing
  <2>3. Coming # 0
    BY <2>2, DoingIsFinite, FS_EmptySet DEF Coming
  <2>4. Doing({"waiting"})' \subseteq Doing({"waiting"})
    BY <1>3, <1>4 DEF Doing, Becomes, WorkerType
  <2> QED
    BY <1>1, <1>3, <2>1, <2>3, <2>4 DEF IdleCount
<1>5. CASE pending_tasks # <<>> /\ TakeTask(w)
  <2>1. /\ Becomes(w, "running") /\ Len(pending_tasks') = Len(pending_tasks) - 1
    BY <1>5, TakeTaskFacts
  <2>2. NobodySleeps'
    BY <1>1, <1>3, <1>4, <2>1 DEF NobodySleeps, Coming
  <2>3. IdleCount'
    BY <1>4, <2>1
  <2>4. TypeOK'
    BY <1>1, <1>2, <1>5, <2>3, TakeTaskFacts, IdleType DEF TypeOK, WorkerType
  <2> QED
    BY <1>2, <2>2, <2>3, <2>4
<1>6. CASE /\ pending_tasks = <<>> /\ Becomes(w, "none")
           /\ UNCHANGED <<pending_tasks, running, started>>
  <2>1. Len(pending_tasks') = 0
    BY <1>6
  <2>2. NobodySleeps'
    BY <1>1, <1>4, <1>6, <2>1 DEF NobodySleeps, Coming
  <2>3. IdleCount'
    BY <1>4, <1>6
  <2>4. TypeOK'
    BY <1>1, <1>2, <1>6, <2>3, IdleType DEF TypeOK, Becomes
  <2> QED
    BY <1>2, <2>2, <2>3, <2>4
<1> QED
  BY <1>5, <1>6 DEF Wakes

\* When the process exits nobody uses the object any more.
LEMMA TerminateInv == IInv /\ Terminate => IInv'
<1> SUFFICES ASSUME IInv, Terminate PROVE IInv'
  OBVIOUS
<1> USE DEF IInv, Terminate
<1>1. TypeOK'
  BY DEF TypeOK, lazyVars, LazyTypeOK
<1>2. InstanceIsBuiltOnce'
  BY DEF InstanceIsBuiltOnce, lazyVars
<1>3. Building'
  BY DEF MayExit, Building, Builds, lazyVars
<1>4. IdleCount'
  BY DEF IdleCount, Idle, Doing
<1>5. terminated' /\ exiting' = "broadcast"
  OBVIOUS
<1> QED
  BY <1>1, <1>2, <1>3, <1>4, <1>5 DEF Ending, NobodySleeps

\* Broadcast wakes every worker that waits, and nobody will wait again.
LEMMA BroadcastInv == IInv /\ Broadcast => IInv'
<1> SUFFICES ASSUME IInv, Broadcast PROVE IInv'
  OBVIOUS
<1> USE DEF IInv
<1>1. /\ exiting = "broadcast" /\ exiting' = "done" /\ terminated' = terminated
      /\ UNCHANGED <<access, constructed, num_idle_threads, pending_tasks>>
      /\ UNCHANGED <<running, posting, posted, started, failed>>
      /\ private_instance' = "none" /\ at_exit' = FALSE
      /\ worker' = [w \in Workers |-> IF worker[w] = "waiting" THEN "woken" ELSE worker[w]]
  BY DEF Broadcast, OnExit, poolVars
<1>2. \A t \in Threads : access[t] = "out"
  BY <1>1 DEF Building
<1>3. LazyTypeOK'
  <2>1. at_exit' \in BOOLEAN
    BY <1>1
  <2> QED
    BY <1>1, <2>1 DEF TypeOK, LazyTypeOK
<1>4. TypeOK'
  BY <1>1, <1>3 DEF TypeOK
<1>5. InstanceIsBuiltOnce' /\ Building'
  BY <1>1, <1>2 DEF InstanceIsBuiltOnce, Building, Builds
<1>6. Doing({"waiting", "woken"})' = Doing({"waiting", "woken"}) /\ Doing({"waiting"})' = {}
  BY <1>1 DEF Doing
<1>7. terminated'
  BY <1>1 DEF Ending
<1> QED
  BY <1>1, <1>4, <1>5, <1>6, <1>7 DEF IdleCount, Idle, Ending, NobodySleeps

\* Every step keeps the invariant.
LEMMA NextInv == IInv /\ [Next]_vars => IInv'
<1> SUFFICES ASSUME IInv, [Next]_vars PROVE IInv'
  OBVIOUS
<1>1. CASE UNCHANGED vars
  BY <1>1 DEF vars, lazyVars, poolVars, IInv, TypeOK, LazyTypeOK, InstanceIsBuiltOnce, Building,
              Builds, IdleCount, Idle, Ending, NobodySleeps, Doing
<1>2. CASE Next
  BY <1>2, PostTaskInv, AddTaskInv, WaitForTaskInv, TimesOutInv, WakesInv, TerminateInv,
     BroadcastInv DEF Next, ThreadMain, TaskEnds
<1> QED
  BY <1>1, <1>2

----------------------------------------------------------------------------
(* The theorems *)

\* The inductive invariant holds throughout: who builds the object, who is counted as
\* idle, and which worker is on its way to which task.
THEOREM Invariance == Spec => []IInv
<1> QED
  BY InitInv, NextInv, PTL DEF Spec

\* Every variable of the pool and of the LazyInstance keeps its type, and
\* num_idle_threads_ neither becomes negative nor exceeds the number of workers.
THEOREM TypeCorrect == Spec => []TypeOK
<1>1. IInv => TypeOK
  BY DEF IInv
<1> QED
  BY <1>1, Invariance, PTL

\* Of any number of threads that meet in Pointer() one constructs the object, and nobody
\* gets it before it is constructed (LazyInstance::Pointer, NeedsLazyInstance).
THEOREM BuiltOnce == Spec => []InstanceIsBuiltOnce
<1>1. IInv => InstanceIsBuiltOnce
  BY DEF IInv
<1> QED
  BY <1>1, Invariance, PTL

\* Whatever the timing of AddTask, TimedWait and Terminate, every pending task has a
\* worker on its way and nobody waits once the pool is terminated
\* (PosixDynamicThreadPool::AddTask, WaitForTask, Terminate).
THEOREM NoTaskIsStranded == Spec => []NobodySleeps
<1>1. IInv => NobodySleeps
  BY DEF IInv
<1> QED
  BY <1>1, Invariance, PTL
=============================================================================
