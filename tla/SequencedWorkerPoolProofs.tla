---------------------- MODULE SequencedWorkerPoolProofs ----------------------
(***************************************************************************)
(* The inductive invariant IInv of SequencedWorkerPool, and the lemmas     *)
(* about its workers: where each action sends them, what each has at hand, *)
(* how threads are created, and the counters of workers.  The tasks and    *)
(* the theorems are in SequencedWorkerPoolTaskProofs.                      *)
(***************************************************************************)
EXTENDS SequencedWorkerPool, FiniteSetTheorems, TLAPS

------------------------------------------------------------------------------
(* The inductive invariant *)

\* What a worker has at hand is a matter of where it is.
Frame(w) ==
  /\ task[w] # NoTask <=> pc[w] \in {"signal", "clear", "run"}
  /\ w \in threads <=> pc[w] \notin {"none", "starting"}
  /\ outside[w] # {} => pc[w] \in {"signal", "clear", "delete", "exitDelete"}
  /\ "create" \in outside[w] => pc[w] \in {"signal", "clear"}
  /\ post[w] # NoTask => pc[w] \in {"run", "clear", "delete", "exitDelete"}

Frames == \A w \in Workers : Frame(w)

\* Actor a is to create a thread, or is that thread on its way to ThreadLoop.
Makes(a) ==
  \/ a \in Workers /\ (pc[a] = "starting" \/ "create" \in outside[a])
  \/ post[a] # NoTask /\ post[a].stage = "create"

\* Threads are numbered as they are created, and thread_being_created says that there is
\* one, and only one, that is about to appear.
Creating ==
  /\ threads = 1..Cardinality(threads)
  /\ \A a, b \in Actors : Makes(a) /\ Makes(b) => a = b
  /\ \A w \in Workers : /\ pc[w] = "starting" => w = NewThread
                        /\ ~("create" \in outside[w] /\ post[w] # NoTask /\ post[w].stage = "create")
  /\ thread_being_created <=> \E a \in Actors : Makes(a)
  /\ thread_being_created => Cardinality(threads) < MaxThreads

Holders == {w \in Workers : task[w] # NoTask /\ HoldsShutdown(task[w])}
Waiters == {w \in Workers : pc[w] \in {"waiting", "woken"}}
Idlers == {w \in Workers : pc[w] \in {"idler", "cvIdler"}}

\* The counters count what they are named for.
TaskCounts ==
  /\ IsFiniteSet(pending_tasks) /\ Cardinality(pending_tasks) <= next_sequence_task_number
  /\ blocking_shutdown_pending_task_count = Cardinality(BlockingPending)
  /\ blocking_shutdown_thread_count = Cardinality(Holders)

WorkerCounts ==
  /\ waiting_thread_count = Cardinality(Waiters)
  /\ cleanup_idlers = Cardinality(Idlers)

\* The calls that have not reached the lock yet still fit the bound on tasks.
Posting ==
  next_sequence_task_number + Cardinality({a \in Actors : post[a] # NoTask /\ post[a].stage = "lock"})
    <= MaxTasks

\* What is posted with t was read from the clock before now; only tasks that are skipped
\* on shutdown are delayed.
Dated(t) ==
  /\ t.token \in Tokens \union bound
  /\ t.time <= now + t.delay
  /\ t.delay = 0 \/ t.behavior = "SKIP_ON_SHUTDOWN"

\* The tasks in the pool have numbers of their own, and a call that was made after a task
\* was accepted has read the clock after that task's call had.
Numbered ==
  /\ \A t \in pending_tasks : t.seq < next_sequence_task_number /\ t.after <= t.seq /\ Dated(t)
  /\ \A t, u \in pending_tasks : /\ t.seq = u.seq => t = u
                                 /\ t.seq < u.after => t.time + u.delay <= u.time + t.delay
  /\ \A w \in Busy : /\ task[w].seq < next_sequence_task_number
                     /\ task[w].token \in Tokens \union bound
                     /\ \A t \in pending_tasks : t.seq # task[w].seq
  /\ \A a \in Actors : post[a] # NoTask =>
       /\ post[a].after <= next_sequence_task_number /\ Dated(post[a])
       /\ \A t \in pending_tasks : t.seq < post[a].after => t.time + post[a].delay <= post[a].time + t.delay

\* One worker cleans up, while all the others are idle.
Cleaning ==
  /\ cleanup_state \in {"DONE", "REQUESTED"} => Idlers = {}
  /\ cleanup_state # "STARTING" => \A w \in Workers : pc[w] \notin {"starter", "cvStarter"}
  /\ cleanup_state = "RUNNING" =>
       ~thread_being_created /\ \A v, w \in threads \ Idlers : v = w
  /\ cleanup_state # "DONE" => ~shutdown_called /\ caller \in {"cvFlush", "flush"}

\* What FlushForTesting found in the pool is gone once the cleanup is over.
Flushing ==
  /\ \A n \in flushing : n < next_sequence_task_number
  /\ caller \in {"cvFlush", "flush"} /\ cleanup_state \in {"FINISHING", "DONE"} =>
       flushing \intersect InPool = {}

\* Where the calls of PostTask in progress come from.
Origins ==
  \A a \in Actors : post[a] # NoTask =>
    /\ post[a].origin = "task" => a \in Workers /\ pc[a] = "run"
    /\ shutdown_called /\ max_blocking_tasks_after_shutdown > 0 /\ post[a].stage = "lock" =>
         post[a].origin \in LatePosters

\* Whoever is let in after Shutdown was called is a running task: Shutdown() lets in
\* nobody, and Shutdown(n) those that LatePosters names.
OnlyTasksAreLate == LatePosters \subseteq {"task"} \/ MaxNewBlocking = 0

\* Once Shutdown has returned, nothing that it waits for comes back.
Closed ==
  /\ caller \in {"cvShutdown", "shutdown", "returned"} => shutdown_called
  /\ caller = "returned" /\ OnlyTasksAreLate =>
       BlockingPending = {} /\ Holders = {} /\ ~thread_being_created

IInv == /\ TypeOK /\ Frames /\ Creating /\ TaskCounts /\ WorkerCounts /\ Posting /\ Numbered /\ OneTaskPerToken
        /\ Cleaning /\ Flushing /\ Origins /\ Closed

------------------------------------------------------------------------------
(* Where the workers go *)

\* A condition variable wakes a worker that is in state x.
Wakes(x, y) ==
  \/ y = x
  \/ x = "waiting" /\ y = "woken"
  \/ x = "cvStarter" /\ y = "starter"
  \/ x = "cvIdler" /\ y = "idler"
  \/ x = "cvFinisher" /\ y = "finisher"

\* Worker w goes from one of the states in "from" to one of those in "to"; others may wake.
Goes(w, from, to) ==
  /\ pc' \in [Workers -> PC]
  /\ pc[w] \in from /\ pc'[w] \in to
  /\ \A v \in Workers \ {w} : Wakes(pc[v], pc'[v])

\* Nobody goes anywhere, but somebody may wake.
Stir == pc' \in [Workers -> PC] /\ \A v \in Workers : Wakes(pc[v], pc'[v])

LEMMA SignalFacts ==
  ASSUME NEW f \in [Workers -> PC], NEW g \in SignalHasWork(f)
  PROVE  /\ g \in [Workers -> PC]
         /\ \A v \in Workers : Wakes(f[v], g[v]) /\ (f[v] # "waiting" => g[v] = f[v])
<1>1. CASE g = f
  BY <1>1 DEF Wakes
<1>2. ASSUME NEW w \in Workers, f[w] = "waiting", g = [f EXCEPT ![w] = "woken"]
      PROVE  /\ g \in [Workers -> PC]
             /\ \A v \in Workers : Wakes(f[v], g[v]) /\ (f[v] # "waiting" => g[v] = f[v])
  <2>1. g \in [Workers -> PC]
    BY <1>2 DEF PC
  <2>2. \A v \in Workers : g[v] = IF v = w THEN "woken" ELSE f[v]
    BY <1>2
  <2> QED
    BY <1>2, <2>1, <2>2 DEF Wakes
<1> QED
  BY <1>1, <1>2 DEF SignalHasWork

LEMMA AwakeFacts ==
  /\ DOMAIN Awake = {"cvStarter", "cvIdler", "cvFinisher"}
  /\ Awake["cvStarter"] = "starter" /\ Awake["cvIdler"] = "idler" /\ Awake["cvFinisher"] = "finisher"
BY DEF Awake

LEMMA BroadcastFacts ==
  ASSUME NEW f \in [Workers -> PC]
  PROVE  /\ Broadcast(f) \in [Workers -> PC]
         /\ \A v \in Workers : Wakes(f[v], Broadcast(f)[v])
<1>1. ASSUME NEW v \in Workers
      PROVE  /\ (IF f[v] \in DOMAIN Awake THEN Awake[f[v]] ELSE f[v]) \in PC
             /\ Wakes(f[v], IF f[v] \in DOMAIN Awake THEN Awake[f[v]] ELSE f[v])
  <2>1. CASE f[v] \in DOMAIN Awake
    BY <2>1, AwakeFacts DEF PC, Wakes
  <2>2. CASE f[v] \notin DOMAIN Awake
    <3>1. f[v] \in PC
      OBVIOUS
    <3> QED
      BY <2>2, <3>1 DEF Wakes
  <2> QED
    BY <2>1, <2>2
<1> QED
  BY <1>1 DEF Broadcast

\* A step that sends w somewhere, and then wakes somebody.
LEMMA GoesAndSignals ==
  ASSUME TypeOK, NEW w \in Workers, NEW to \in PC \ {"waiting"},
         pc' \in SignalHasWork([pc EXCEPT ![w] = to])
  PROVE  Goes(w, {pc[w]}, {to})
<1> DEFINE f == [pc EXCEPT ![w] = to]
<1>1. f \in [Workers -> PC] /\ f[w] = to /\ \A v \in Workers \ {w} : f[v] = pc[v]
  BY DEF TypeOK
<1> HIDE DEF f
<1>2. pc' \in SignalHasWork(f)
  BY DEF f
<1>3. /\ pc' \in [Workers -> PC]
      /\ \A v \in Workers : Wakes(f[v], pc'[v]) /\ (f[v] # "waiting" => pc'[v] = f[v])
  BY <1>1, <1>2, SignalFacts
<1> QED
  BY <1>1, <1>3 DEF Goes

LEMMA GoesAndBroadcasts ==
  ASSUME TypeOK, NEW w \in Workers, NEW to \in PC, pc' = [Broadcast(pc) EXCEPT ![w] = to]
  PROVE  Goes(w, {pc[w]}, {to})
<1>1. Broadcast(pc) \in [Workers -> PC] /\ \A v \in Workers : Wakes(pc[v], Broadcast(pc)[v])
  BY BroadcastFacts DEF TypeOK
<1> QED
  BY <1>1 DEF Goes

LEMMA GoesAlone ==
  ASSUME TypeOK, NEW w \in Workers, NEW to \in PC, pc' = [pc EXCEPT ![w] = to]
  PROVE  Goes(w, {pc[w]}, {to}) /\ \A v \in Workers \ {w} : pc'[v] = pc[v]
BY DEF Goes, TypeOK, Wakes

LEMMA StirsNobody ==
  ASSUME TypeOK, UNCHANGED pc
  PROVE  Stir
BY DEF Stir, TypeOK, Wakes

LEMMA StirsOne ==
  ASSUME TypeOK, pc' \in SignalHasWork(pc)
  PROVE  Stir
BY SignalFacts DEF Stir, TypeOK

\* Where each action of ThreadLoop sends its worker.
LEMMA LoopPc ==
  ASSUME TypeOK, NEW w \in Workers
  PROVE  /\ StartThread(w) => Goes(w, {"starting"}, {"top"})
         /\ HandleCleanup(w) => Goes(w, {"top"}, {"get", "starter", "idler", "finisher"})
         /\ StarterLoop(w) => Goes(w, {"starter"}, {"cvStarter", "get"})
         /\ IdlerLoop(w) => Goes(w, {"idler"}, {"cvIdler", "get"})
         /\ FinisherLoop(w) => Goes(w, {"finisher"}, {"cvFinisher", "get"})
<1>0. {"top", "get", "starter", "idler", "finisher", "cvStarter", "cvIdler", "cvFinisher"} \subseteq PC \ {"waiting"}
  BY DEF PC
<1>1. ASSUME StartThread(w) PROVE Goes(w, {"starting"}, {"top"})
  <2>1. pc[w] = "starting" /\ pc' = [pc EXCEPT ![w] = "top"]
    BY <1>1 DEF StartThread
  <2> QED
    BY <1>0, <2>1, GoesAlone
<1>2. ASSUME HandleCleanup(w) PROVE Goes(w, {"top"}, {"get", "starter", "idler", "finisher"})
  <2>1. /\ pc[w] = "top"
        /\ \/ pc' = [pc EXCEPT ![w] = "get"] \/ pc' = [pc EXCEPT ![w] = "starter"]
           \/ pc' = [pc EXCEPT ![w] = "finisher"]
           \/ pc' = [Broadcast(pc) EXCEPT ![w] = "idler"]
    BY <1>2 DEF HandleCleanup
  <2>2. \/ Goes(w, {"top"}, {"get"}) \/ Goes(w, {"top"}, {"starter"}) \/ Goes(w, {"top"}, {"finisher"})
        \/ Goes(w, {"top"}, {"idler"})
    BY <1>0, <2>1, GoesAlone, GoesAndBroadcasts
  <2> QED
    BY <2>2 DEF Goes
<1>3. ASSUME StarterLoop(w) PROVE Goes(w, {"starter"}, {"cvStarter", "get"})
  <2>1. /\ pc[w] = "starter"
        /\ pc' = [pc EXCEPT ![w] = "get"] \/ pc' \in SignalHasWork([pc EXCEPT ![w] = "cvStarter"])
    BY <1>3 DEF StarterLoop
  <2>2. Goes(w, {"starter"}, {"get"}) \/ Goes(w, {"starter"}, {"cvStarter"})
    BY <1>0, <2>1, GoesAlone, GoesAndSignals
  <2> QED
    BY <2>2 DEF Goes
<1>4. ASSUME IdlerLoop(w) PROVE Goes(w, {"idler"}, {"cvIdler", "get"})
  <2>1. /\ pc[w] = "idler"
        /\ pc' = [pc EXCEPT ![w] = "cvIdler"] \/ pc' = [Broadcast(pc) EXCEPT ![w] = "get"]
    BY <1>4 DEF IdlerLoop
  <2>2. Goes(w, {"idler"}, {"get"}) \/ Goes(w, {"idler"}, {"cvIdler"})
    BY <1>0, <2>1, GoesAlone, GoesAndBroadcasts
  <2> QED
    BY <2>2 DEF Goes
<1>5. ASSUME FinisherLoop(w) PROVE Goes(w, {"finisher"}, {"cvFinisher", "get"})
  <2> DEFINE f == [pc EXCEPT ![w] = "get"]
  <2>1. pc[w] = "finisher"
    BY <1>5 DEF FinisherLoop
  <2>2. CASE pc' = [Broadcast(pc) EXCEPT ![w] = "cvFinisher"]
    <3>1. Goes(w, {"finisher"}, {"cvFinisher"})
      BY <1>0, <2>1, <2>2, GoesAndBroadcasts
    <3> QED
      BY <3>1 DEF Goes
  <2>3. CASE pc' = f
    <3>1. Goes(w, {"finisher"}, {"get"})
      BY <1>0, <2>1, <2>3, GoesAlone
    <3> QED
      BY <3>1 DEF Goes
  <2>4. f \in [Workers -> PC] /\ f[w] = "get" /\ \A v \in Workers \ {w} : f[v] = pc[v]
    BY <1>0 DEF TypeOK
  <2> HIDE DEF f
  <2>5. CASE CleanupSignal(f)
    <3>1. ASSUME NEW v \in Workers, f[v] \in DOMAIN Awake, pc' = [f EXCEPT ![v] = Awake[f[v]]]
          PROVE  Goes(w, {"finisher"}, {"get"})
      <4>1. v # w /\ pc[v] \in {"cvStarter", "cvIdler", "cvFinisher"} /\ f[v] = pc[v]
        BY <2>4, <3>1, AwakeFacts
      <4>2. Awake[pc[v]] \in PC /\ Wakes(pc[v], Awake[pc[v]])
        BY <4>1, AwakeFacts DEF PC, Wakes
      <4>3. pc' \in [Workers -> PC] /\ pc'[w] = "get" /\ pc'[v] = Awake[pc[v]]
            /\ \A u \in Workers \ {v, w} : pc'[u] = pc[u]
        BY <2>4, <3>1, <4>1, <4>2
      <4> QED
        BY <2>1, <4>2, <4>3 DEF Goes, Wakes
    <3>2. (\E v \in Workers : f[v] \in DOMAIN Awake /\ pc' = [f EXCEPT ![v] = Awake[f[v]]]) \/ pc' = f
      BY <2>5 DEF CleanupSignal
    <3>3. Goes(w, {"finisher"}, {"cvFinisher", "get"}) \/ pc' = f
      BY <3>1, <3>2 DEF Goes
    <3> QED
      BY <2>3, <3>3
  <2> QED
    BY <1>5, <2>2, <2>3, <2>5 DEF FinisherLoop, f
<1> QED
  BY <1>1, <1>2, <1>3, <1>4, <1>5

LEMMA WorkPc ==
  ASSUME TypeOK, NEW w \in Workers
  PROVE  /\ GetWorkFound(w) => Goes(w, {"get"}, {"signal"})
         /\ GetWorkCleans(w) => Goes(w, {"get"}, {"delete"})
         /\ GetWorkCleaned(w) => Goes(w, {"get"}, {"top"})
         /\ GetWorkNotFound(w) => Goes(w, {"get"}, {"exitDelete", "delete", "waiting"})
         /\ TimedOut(w) => Stir
         /\ Spurious(w) => Stir
         /\ Resume(w) => Goes(w, {"woken"}, {"top"})
<1>0. {"signal", "delete", "top", "exitDelete", "waiting", "woken"} \subseteq PC
  BY DEF PC
<1>1. ASSUME NEW from \in PC, NEW to \in PC, pc[w] = from, pc' = [pc EXCEPT ![w] = to]
      PROVE  Goes(w, {from}, {to})
  BY <1>1, GoesAlone
<1>2. GetWorkFound(w) => Goes(w, {"get"}, {"signal"})
  BY <1>0, GoesAlone DEF GetWorkFound
<1>3. GetWorkCleans(w) => Goes(w, {"get"}, {"delete"})
  BY <1>0, GoesAlone DEF GetWorkCleans
<1>4. GetWorkCleaned(w) => Goes(w, {"get"}, {"top"})
  BY <1>0, GoesAndBroadcasts DEF GetWorkCleaned
<1>5. ASSUME GetWorkNotFound(w) PROVE Goes(w, {"get"}, {"exitDelete", "delete", "waiting"})
  <2>1. /\ pc[w] = "get"
        /\ \/ pc' = [pc EXCEPT ![w] = "exitDelete"] \/ pc' = [pc EXCEPT ![w] = "delete"]
           \/ pc' = [pc EXCEPT ![w] = "waiting"]
    BY <1>5 DEF GetWorkNotFound
  <2>2. Goes(w, {"get"}, {"exitDelete"}) \/ Goes(w, {"get"}, {"delete"}) \/ Goes(w, {"get"}, {"waiting"})
    BY <1>0, <2>1, GoesAlone
  <2> QED
    BY <2>2 DEF Goes
<1>6. ASSUME NEW to \in PC, Wakes(pc[w], to), pc' = [pc EXCEPT ![w] = to] PROVE Stir
  BY <1>6 DEF Stir, Wakes, TypeOK
<1>7. TimedOut(w) => Stir
  BY <1>0, <1>6 DEF TimedOut, Wakes
<1>8. ASSUME Spurious(w) PROVE Stir
  <2>1. CASE pc[w] = "waiting" /\ pc' = [pc EXCEPT ![w] = "woken"]
    BY <1>0, <1>6, <2>1 DEF Wakes
  <2>2. CASE pc[w] \in DOMAIN Awake /\ pc' = [pc EXCEPT ![w] = Awake[pc[w]]]
    <3>1. Awake[pc[w]] \in PC /\ Wakes(pc[w], Awake[pc[w]])
      BY <2>2, AwakeFacts DEF PC, Wakes
    <3> QED
      BY <1>6, <2>2, <3>1
  <2> QED
    BY <1>8, <2>1, <2>2 DEF Spurious
<1>9. Resume(w) => Goes(w, {"woken"}, {"top"})
  BY <1>0, GoesAlone DEF Resume
<1> QED
  BY <1>2, <1>3, <1>4, <1>5, <1>7, <1>8, <1>9

LEMMA RunPc ==
  ASSUME TypeOK, NEW w \in Workers
  PROVE  /\ SignalOthers(w) => Goes(w, {"signal"}, {IF outside[w] # {} THEN "clear" ELSE "run"})
         /\ RunAfterClear(w) /\ "create" \notin outside[w] => Goes(w, {"clear"}, {"run"})
         /\ DidRun(w) => Goes(w, {"run"}, {"top"})
         /\ Deleted(w) => Goes(w, {"delete"}, {"top"})
         /\ ExitDeleted(w) => Goes(w, {"exitDelete"}, {"exit"})
         /\ ExitSignal(w) => Goes(w, {"exit"}, {"exit2"})
         /\ ExitUnblocksShutdown(w) => Goes(w, {"exit2"}, {"exited"})
<1>0. {"clear", "run", "top", "exit", "exit2", "exited"} \subseteq PC \ {"waiting"}
  BY DEF PC
<1>1. ASSUME SignalOthers(w) PROVE Goes(w, {"signal"}, {IF outside[w] # {} THEN "clear" ELSE "run"})
  BY <1>0, <1>1, GoesAndSignals DEF SignalOthers
<1>2. RunAfterClear(w) /\ "create" \notin outside[w] => Goes(w, {"clear"}, {"run"})
  BY <1>0, GoesAlone DEF RunAfterClear
<1>3. DidRun(w) => Goes(w, {"run"}, {"top"})
  BY <1>0, GoesAlone DEF DidRun
<1>4. Deleted(w) => Goes(w, {"delete"}, {"top"})
  BY <1>0, GoesAlone DEF Deleted
<1>5. ExitDeleted(w) => Goes(w, {"exitDelete"}, {"exit"})
  BY <1>0, GoesAlone DEF ExitDeleted
<1>6. ExitSignal(w) => Goes(w, {"exit"}, {"exit2"})
  BY <1>0, GoesAndSignals DEF ExitSignal, WakeNext
<1>7. ExitUnblocksShutdown(w) => Goes(w, {"exit2"}, {"exited"})
  BY <1>0, GoesAlone DEF ExitUnblocksShutdown
<1> QED
  BY <1>1, <1>2, <1>3, <1>4, <1>5, <1>6, <1>7

\* The thread that is about to be created is not there yet.
LEMMA NewThreadIsFree ==
  ASSUME TypeOK, Frames, Creating, NEW a \in Actors, Makes(a), ~(a \in Workers /\ pc[a] = "starting")
  PROVE  /\ NewThread \in Workers /\ NewThread \notin threads /\ pc[NewThread] = "none"
         /\ NewThread # a
         /\ task[NewThread] = NoTask /\ outside[NewThread] = {} /\ post[NewThread] = NoTask
<1> DEFINE n == Cardinality(threads)
<1>1. IsFiniteSet(threads) /\ n \in Nat
  <2>1. IsFiniteSet(Workers) /\ threads \in SUBSET Workers
    BY FS_Interval, PoolAssumption DEF Workers, TypeOK
  <2> QED
    BY <2>1, FS_Subset, FS_CardinalityType
<1>2. thread_being_created
  BY DEF Creating
<1>3. n < MaxThreads /\ threads = 1..n
  BY <1>2 DEF Creating
<1>4. NewThread \in Workers /\ NewThread \notin threads
  BY <1>1, <1>3, PoolAssumption DEF NewThread, Workers
<1>5. pc[NewThread] \in {"none", "starting"}
  BY <1>4 DEF Frames, Frame
<1>6. NewThread \in Actors
  BY <1>4 DEF Actors
<1>7. pc[NewThread] # "starting"
  <2>1. ASSUME pc[NewThread] = "starting" PROVE FALSE
    <3>1. Makes(NewThread)
      BY <1>4, <2>1 DEF Makes
    <3>2. a = NewThread
      BY <1>6, <3>1 DEF Creating
    <3> QED
      BY <1>4, <2>1, <3>2
  <2> QED
    BY <2>1
<1>8. pc[NewThread] = "none"
  BY <1>5, <1>7
<1>9. task[NewThread] = NoTask /\ outside[NewThread] = {} /\ post[NewThread] = NoTask
  BY <1>4, <1>8 DEF Frames, Frame
<1>10. NewThread # a
  <2>1. ASSUME NewThread = a PROVE FALSE
    BY <1>4, <1>7, <1>9, <2>1 DEF Makes
  <2> QED
    BY <2>1
<1> QED
  BY <1>4, <1>8, <1>9, <1>10

\* What a creation leaves.
LEMMA CreatedFacts ==
  ASSUME TypeOK, NewThread \in Workers, NEW f \in [Workers -> PC], pc' = Created(f)
  PROVE  /\ pc' \in [Workers -> PC] /\ pc'[NewThread] = "starting"
         /\ \A v \in Workers : v # NewThread => pc'[v] = f[v]
<1>1. "starting" \in PC
  BY DEF PC
<1> QED
  BY <1>1 DEF Created

------------------------------------------------------------------------------
(* Frames *)

\* A worker that at most wakes, and whose things are left alone.
LEMMA FrameKept ==
  ASSUME NEW v \in Workers, Frame(v), Wakes(pc[v], pc'[v]), task'[v] = task[v], outside'[v] = outside[v],
         post'[v] # NoTask => post[v] # NoTask, v \in threads' <=> v \in threads
  PROVE  Frame(v)'
<1>1. pc'[v] = pc[v] \/ pc[v] \in {"waiting", "cvStarter", "cvIdler", "cvFinisher"}
  BY DEF Wakes
<1>2. CASE pc'[v] = pc[v]
  BY <1>2 DEF Frame
<1>3. CASE pc[v] \in {"waiting", "cvStarter", "cvIdler", "cvFinisher"}
  <2>1. pc'[v] \in {"waiting", "cvStarter", "cvIdler", "cvFinisher", "woken", "starter", "idler", "finisher"}
    BY <1>3 DEF Wakes
  <2>2. task[v] = NoTask /\ v \in threads /\ outside[v] = {} /\ post[v] = NoTask
    BY <1>3 DEF Frame
  <2> QED
    BY <2>1, <2>2 DEF Frame
<1> QED
  BY <1>1, <1>2, <1>3

LEMMA FramesKept ==
  ASSUME Frames, Stir, UNCHANGED <<task, outside, threads>>, \A v \in Workers : post'[v] # NoTask => post[v] # NoTask
  PROVE  Frames'
BY FrameKept DEF Frames, Stir

\* The frames of a step of worker w: those of the others are kept.
LEMMA FramesOfOthers ==
  ASSUME Frames, NEW w \in Workers, Frame(w)', UNCHANGED post,
         \A v \in Workers \ {w} : /\ Wakes(pc[v], pc'[v]) /\ task'[v] = task[v] /\ outside'[v] = outside[v]
                                  /\ v \in threads' <=> v \in threads
  PROVE  Frames'
<1>1. ASSUME NEW v \in Workers, v # w PROVE Frame(v)'
  BY <1>1, FrameKept DEF Frames
<1> QED
  BY <1>1 DEF Frames

LEMMA FramesWorker ==
  ASSUME TypeOK, Frames, Creating, NEW w \in Workers, WorkerStep(w)
  PROVE  Frames'
<1> USE DEF poolVars, stateVars, workerVars, callVars
<1>1. Frame(w) /\ w \in Actors
  BY DEF Frames, Actors
<1>2. /\ task \in [Workers -> Task \union {NoTask}] /\ outside \in [Workers -> SUBSET {"delete", "create"}]
  BY DEF TypeOK
<1>3. ASSUME NEW from, NEW to, Goes(w, from, to), UNCHANGED <<task, outside, threads, post>>,
             \/ from \subseteq {"top", "starter", "idler", "finisher", "woken", "exit", "exit2", "get"}
                /\ to \subseteq {"get", "starter", "idler", "finisher", "cvStarter", "cvIdler", "cvFinisher", "top",
                                 "exit2", "exited"}
             \/ from = {"signal"} /\ to = {"clear"}
             \/ from = {"signal"} /\ to = {"run"} /\ outside[w] = {}
      PROVE  Frames'
  <2>1. pc[w] \in from /\ pc'[w] \in to /\ \A v \in Workers \ {w} : Wakes(pc[v], pc'[v])
    BY <1>3 DEF Goes
  <2>2. CASE /\ from \subseteq {"top", "starter", "idler", "finisher", "woken", "exit", "exit2", "get"}
             /\ to \subseteq {"get", "starter", "idler", "finisher", "cvStarter", "cvIdler", "cvFinisher", "top",
                                 "exit2", "exited"}
    <3>1. task[w] = NoTask /\ w \in threads /\ outside[w] = {} /\ post[w] = NoTask
      BY <1>1, <2>1, <2>2 DEF Frame
    <3>2. Frame(w)'
      BY <1>3, <2>1, <2>2, <3>1 DEF Frame
    <3> QED
      BY <1>3, <2>1, <3>2, FramesOfOthers
  <2>3. CASE from = {"signal"} /\ (to = {"clear"} \/ (to = {"run"} /\ outside[w] = {}))
    <3>1. task[w] # NoTask /\ w \in threads /\ post[w] = NoTask
      BY <1>1, <2>1, <2>3 DEF Frame
    <3>2. Frame(w)'
      BY <1>3, <2>1, <2>3, <3>1 DEF Frame
    <3> QED
      BY <1>3, <2>1, <3>2, FramesOfOthers
  <2> QED
    BY <1>3, <2>2, <2>3
<1>4. CASE HandleCleanup(w) \/ StarterLoop(w) \/ IdlerLoop(w) \/ FinisherLoop(w)
  <2>1. UNCHANGED <<task, outside, threads, post>>
    BY <1>4 DEF HandleCleanup, StarterLoop, IdlerLoop, FinisherLoop
  <2>2. \/ Goes(w, {"top"}, {"get", "starter", "idler", "finisher"})
        \/ Goes(w, {"starter"}, {"cvStarter", "get"})
        \/ Goes(w, {"idler"}, {"cvIdler", "get"})
        \/ Goes(w, {"finisher"}, {"cvFinisher", "get"})
    BY <1>4, LoopPc
  <2>3. Goes(w, {"top", "starter", "idler", "finisher"},
                {"get", "starter", "idler", "finisher", "cvStarter", "cvIdler", "cvFinisher"})
    BY <2>2 DEF Goes
  <2> QED
    BY <1>3, <2>1, <2>3
<1>5. CASE GetWorkCleaned(w) \/ Resume(w) \/ ExitSignal(w) \/ ExitUnblocksShutdown(w)
  <2>1. UNCHANGED <<task, outside, threads, post>>
    BY <1>5 DEF GetWorkCleaned, Resume, ExitSignal, ExitUnblocksShutdown
  <2>2. \/ Goes(w, {"get"}, {"top"}) \/ Goes(w, {"woken"}, {"top"})
        \/ Goes(w, {"exit"}, {"exit2"}) \/ Goes(w, {"exit2"}, {"exited"})
    BY <1>5, WorkPc, RunPc
  <2>3. Goes(w, {"get", "woken", "exit", "exit2"}, {"top", "exit2", "exited"})
    BY <2>2 DEF Goes
  <2> QED
    BY <1>3, <2>1, <2>3
<1>6. CASE SignalOthers(w)
  <2>1. UNCHANGED <<task, outside, threads, post>>
    BY <1>6 DEF SignalOthers
  <2>2. Goes(w, {"signal"}, {IF outside[w] # {} THEN "clear" ELSE "run"})
    BY <1>6, RunPc
  <2>3. CASE outside[w] # {}
    BY <1>3, <2>1, <2>2, <2>3
  <2>4. CASE outside[w] = {}
    BY <1>3, <2>1, <2>2, <2>4
  <2> QED
    BY <2>3, <2>4
<1>7. CASE TimedOut(w)
  <2>1. UNCHANGED <<task, outside, threads, post>> /\ Stir
    BY <1>7, WorkPc DEF TimedOut
  <2> QED
    BY <2>1, FramesKept
<1>8. CASE StartThread(w)
  <2>1. /\ Goes(w, {"starting"}, {"top"}) /\ UNCHANGED <<task, outside, post>>
        /\ threads' = threads \union {w}
    BY <1>8, LoopPc DEF StartThread
  <2>2. pc[w] = "starting" /\ pc'[w] = "top" /\ \A v \in Workers \ {w} : Wakes(pc[v], pc'[v])
    BY <2>1 DEF Goes
  <2>3. Frame(w)'
    BY <1>1, <2>1, <2>2 DEF Frame
  <2> QED
    BY <2>1, <2>2, <2>3, FramesOfOthers
<1>9. CASE GetWorkFound(w)
  <2>1. Goes(w, {"get"}, {"signal"}) /\ UNCHANGED <<threads, post>>
    BY <1>9, WorkPc DEF GetWorkFound
  <2>2. pc[w] = "get" /\ pc'[w] = "signal" /\ \A v \in Workers \ {w} : Wakes(pc[v], pc'[v])
    BY <2>1 DEF Goes
  <2>3. PICK t \in pending_tasks, b \in SUBSET {"delete", "create"} :
          task' = [task EXCEPT ![w] = t] /\ outside' = [outside EXCEPT ![w] = b]
    BY <1>9 DEF GetWorkFound, Todo
  <2>4. t \in Task /\ t # NoTask
    BY NoTaskAssumption DEF TypeOK
  <2>5. task'[w] = t /\ outside'[w] = b /\ \A v \in Workers \ {w} : task'[v] = task[v] /\ outside'[v] = outside[v]
    BY <1>2, <2>3
  <2>6. w \in threads /\ post[w] = NoTask
    BY <1>1, <2>2 DEF Frame
  <2>7. Frame(w)'
    BY <2>1, <2>2, <2>4, <2>5, <2>6 DEF Frame
  <2> QED
    BY <2>1, <2>2, <2>5, <2>7, FramesOfOthers
<1>10. CASE GetWorkCleans(w) \/ GetWorkNotFound(w)
  <2>1. /\ Goes(w, {"get"}, {"delete"}) \/ Goes(w, {"get"}, {"exitDelete", "delete", "waiting"})
        /\ UNCHANGED <<threads, post, task>>
    BY <1>10, WorkPc DEF GetWorkCleans, GetWorkNotFound
  <2>2. /\ pc[w] = "get" /\ pc'[w] \in {"exitDelete", "delete", "waiting"}
        /\ \A v \in Workers \ {w} : Wakes(pc[v], pc'[v])
    BY <2>1 DEF Goes
  <2>3. PICK b \in SUBSET {"delete"} : outside' = [outside EXCEPT ![w] = b] /\ (pc'[w] = "waiting" => b = {})
    <3>1. CASE GetWorkCleans(w)
      <4>1. pc'[w] = "delete"
        BY <3>1, WorkPc DEF Goes
      <4> QED
        BY <3>1, <4>1 DEF GetWorkCleans
    <3>2. CASE GetWorkNotFound(w)
      <4>1. outside' = [outside EXCEPT ![w] = Todo(Discarded # {}, FALSE)]
        BY <3>2 DEF GetWorkNotFound
      <4>2. Todo(Discarded # {}, FALSE) \in SUBSET {"delete"} /\ (Discarded = {} => Todo(Discarded # {}, FALSE) = {})
        BY DEF Todo
      <4>3. pc'[w] = "waiting" => Discarded = {}
        <5>1. ASSUME NEW to \in {"exitDelete", "delete"}, pc' = [pc EXCEPT ![w] = to] PROVE pc'[w] # "waiting"
          BY <5>1 DEF TypeOK
        <5> QED
          BY <3>2, <5>1 DEF GetWorkNotFound
      <4> QED
        BY <4>1, <4>2, <4>3
    <3> QED
      BY <1>10, <3>1, <3>2
  <2>4. outside'[w] = b /\ \A v \in Workers \ {w} : outside'[v] = outside[v]
    BY <1>2, <2>3
  <2>5. w \in threads /\ post[w] = NoTask /\ task[w] = NoTask
    BY <1>1, <2>2 DEF Frame
  <2>6. Frame(w)'
    <3>1. b # {} => pc'[w] \in {"delete", "exitDelete"}
      BY <2>2, <2>3
    <3>2. "create" \notin b
      BY <2>3
    <3> QED
      BY <2>1, <2>2, <2>4, <2>5, <3>1, <3>2 DEF Frame
  <2> QED
    BY <2>1, <2>2, <2>4, <2>6, FramesOfOthers
<1>11. CASE DidRun(w)
  <2>1. Goes(w, {"run"}, {"top"}) /\ UNCHANGED <<threads, post, outside>> /\ task' = [task EXCEPT ![w] = NoTask]
        /\ post[w] = NoTask
    BY <1>11, RunPc DEF DidRun
  <2>2. pc[w] = "run" /\ pc'[w] = "top" /\ \A v \in Workers \ {w} : Wakes(pc[v], pc'[v])
    BY <2>1 DEF Goes
  <2>3. task'[w] = NoTask /\ \A v \in Workers \ {w} : task'[v] = task[v]
    BY <1>2, <2>1
  <2>4. w \in threads /\ outside[w] = {}
    BY <1>1, <2>2 DEF Frame
  <2>5. Frame(w)'
    BY <2>1, <2>2, <2>3, <2>4 DEF Frame
  <2> QED
    BY <2>1, <2>2, <2>3, <2>5, FramesOfOthers
<1>12. CASE Deleted(w) \/ ExitDeleted(w)
  <2>1. /\ Goes(w, {"delete"}, {"top"}) \/ Goes(w, {"exitDelete"}, {"exit"})
        /\ UNCHANGED <<threads, post, task>> /\ outside' = [outside EXCEPT ![w] = {}] /\ post[w] = NoTask
    BY <1>12, RunPc DEF Deleted, ExitDeleted
  <2>2. pc[w] \in {"delete", "exitDelete"} /\ pc'[w] \in {"top", "exit"} /\ \A v \in Workers \ {w} : Wakes(pc[v], pc'[v])
    BY <2>1 DEF Goes
  <2>3. outside'[w] = {} /\ \A v \in Workers \ {w} : outside'[v] = outside[v]
    BY <1>2, <2>1
  <2>4. w \in threads /\ task[w] = NoTask
    BY <1>1, <2>2 DEF Frame
  <2>5. Frame(w)'
    BY <2>1, <2>2, <2>3, <2>4 DEF Frame
  <2> QED
    BY <2>1, <2>2, <2>3, <2>5, FramesOfOthers
<1>13. CASE RunAfterClear(w)
  <2>1. /\ UNCHANGED <<threads, post, task>> /\ outside' = [outside EXCEPT ![w] = {}] /\ post[w] = NoTask
        /\ pc[w] = "clear"
    BY <1>13 DEF RunAfterClear
  <2>2. outside'[w] = {} /\ \A v \in Workers \ {w} : outside'[v] = outside[v]
    BY <1>2, <2>1
  <2>3. w \in threads /\ task[w] # NoTask
    BY <1>1, <2>1 DEF Frame
  <2>4. ASSUME pc'[w] = "run" PROVE Frame(w)'
    BY <2>1, <2>2, <2>3, <2>4 DEF Frame
  <2>5. CASE "create" \notin outside[w]
    <3>1. pc'[w] = "run" /\ \A v \in Workers \ {w} : Wakes(pc[v], pc'[v])
      BY <1>13, <2>5, RunPc DEF Goes
    <3> QED
      BY <2>1, <2>2, <2>4, <3>1, FramesOfOthers
  <2>6. CASE "create" \in outside[w]
    <3> DEFINE f == [pc EXCEPT ![w] = "run"]
    <3>1. Makes(w) /\ pc[w] # "starting"
      BY <2>1, <2>6 DEF Makes
    <3>2. /\ NewThread \in Workers /\ NewThread \notin threads /\ pc[NewThread] = "none" /\ NewThread # w
          /\ task[NewThread] = NoTask /\ outside[NewThread] = {} /\ post[NewThread] = NoTask
      BY <1>1, <3>1, NewThreadIsFree
    <3>3. f \in [Workers -> PC] /\ f[w] = "run" /\ \A v \in Workers \ {w} : f[v] = pc[v]
      BY DEF TypeOK, PC
    <3>4. pc' = Created(f)
      BY <1>13, <2>6 DEF RunAfterClear
    <3> HIDE DEF f
    <3>5. pc'[NewThread] = "starting" /\ \A v \in Workers : v # NewThread => pc'[v] = f[v]
      BY <3>2, <3>3, <3>4, CreatedFacts
    <3>6. Frame(w)'
      BY <2>4, <3>2, <3>3, <3>5
    <3>7. PICK n \in Workers : n = NewThread
      BY <3>2
    <3>8. Frame(n)'
      <4>1. task'[n] = NoTask /\ outside'[n] = {} /\ post'[n] = NoTask /\ pc'[n] = "starting" /\ n \notin threads'
        BY <2>1, <2>2, <3>2, <3>5, <3>7
      <4> QED
        BY <4>1 DEF Frame
    <3>9. ASSUME NEW v \in Workers, v # w, v # n PROVE Frame(v)'
      <4>1. pc'[v] = pc[v] /\ Frame(v) /\ task'[v] = task[v] /\ outside'[v] = outside[v]
        BY <2>1, <2>2, <3>3, <3>5, <3>7, <3>9 DEF Frames
      <4> QED
        BY <2>1, <4>1, FrameKept DEF Wakes
    <3> QED
      BY <3>6, <3>8, <3>9 DEF Frames
  <2> QED
    BY <2>5, <2>6
<1> QED
  BY <1>4, <1>5, <1>6, <1>7, <1>8, <1>9, <1>10, <1>11, <1>12, <1>13 DEF WorkerStep

\* The steps that are not a worker's, and what they leave alone.
LEMMA OtherPc ==
  ASSUME TypeOK
  PROVE  /\ \A a \in Actors : PostSignal(a) => Stir
         /\ FlushForTesting => Stir
         /\ \A n \in 0..MaxNewBlocking : Shutdown(n) => Stir
<1>1. ASSUME NEW a \in Actors, PostSignal(a) PROVE Stir
  BY <1>1, StirsOne DEF PostSignal
<1>2. FlushForTesting => Stir
  BY StirsOne, StirsNobody DEF FlushForTesting
<1>3. ASSUME NEW n \in 0..MaxNewBlocking, Shutdown(n) PROVE Stir
  BY <1>3, StirsOne DEF Shutdown
<1> QED
  BY <1>1, <1>2, <1>3

LEMMA FramesStep == TypeOK /\ Frames /\ Creating /\ [Next]_vars => Frames'
<1> SUFFICES ASSUME TypeOK, Frames, Creating, [Next]_vars PROVE Frames'
  OBVIOUS
<1> USE DEF poolVars, stateVars, workerVars, callVars
<1>0. post \in [Actors -> Post \union {NoTask}] /\ Workers \subseteq Actors
  BY DEF TypeOK, Actors
<1>1. ASSUME Stir, UNCHANGED <<task, outside, threads>>,
             UNCHANGED post \/ \E a \in Actors : post' = [post EXCEPT ![a] = NoTask]
      PROVE  Frames'
  BY <1>0, <1>1, FramesKept
<1>2. CASE UNCHANGED vars \/ Tick \/ CallerStep
  <2>1. UNCHANGED <<pc, task, outside, threads, post>>
    BY <1>2 DEF vars, Tick, CallerStep, FlushLoop, ShutdownLoop
  <2> QED
    BY <1>1, <2>1, StirsNobody
<1>3. ASSUME NEW a \in Actors, NEW token, NEW behavior, NEW delay, PostTask(a, token, behavior, delay) PROVE Frames'
  <2>1. /\ UNCHANGED <<pc, task, outside, threads>> /\ \A v \in Workers : v # a => post'[v] = post[v]
        /\ a \in Workers => pc[a] \in {"run", "clear", "delete", "exitDelete"}
    BY <1>0, <1>3 DEF PostTask
  <2>2. ASSUME NEW v \in Workers PROVE Frame(v)'
    <3>1. CASE v # a
      BY <2>1, <3>1, FrameKept DEF Frames, Wakes
    <3>2. CASE v = a
      BY <2>1, <3>2 DEF Frames, Frame
    <3> QED
      BY <3>1, <3>2
  <2> QED
    BY <2>2 DEF Frames
<1>4. ASSUME NEW a \in Actors, PostRefused(a) PROVE Frames'
  <2>1. UNCHANGED <<pc, task, outside, threads>> /\ post' = [post EXCEPT ![a] = NoTask]
    BY <1>4 DEF PostRefused
  <2> QED
    BY <1>1, <2>1, StirsNobody
<1>5. ASSUME NEW a \in Actors, PostAccepted(a) PROVE Frames'
  <2>1. UNCHANGED <<pc, task, outside, threads>> /\ post[a] # NoTask /\ \A v \in Workers : v # a => post'[v] = post[v]
    BY <1>0, <1>5 DEF PostAccepted
  <2> QED
    BY <2>1, FramesKept, StirsNobody
<1>6. ASSUME NEW a \in Actors, PostSignal(a) PROVE Frames'
  <2>1. UNCHANGED <<task, outside, threads>> /\ post' = [post EXCEPT ![a] = NoTask] /\ Stir
    BY <1>6, OtherPc DEF PostSignal
  <2> QED
    BY <1>1, <2>1
<1>7. ASSUME NEW a \in Actors, PostCreate(a) PROVE Frames'
  <2>1. /\ UNCHANGED <<task, outside, threads>> /\ post' = [post EXCEPT ![a] = NoTask]
        /\ post[a] # NoTask /\ post[a].stage = "create" /\ pc' = Created(pc)
    BY <1>7 DEF PostCreate
  <2>2. Makes(a) /\ ~(a \in Workers /\ pc[a] = "starting")
    BY <2>1 DEF Makes, Frames, Frame
  <2>3. /\ NewThread \in Workers /\ NewThread \notin threads /\ pc[NewThread] = "none" /\ NewThread # a
        /\ task[NewThread] = NoTask /\ outside[NewThread] = {} /\ post[NewThread] = NoTask
    BY <2>2, NewThreadIsFree
  <2>4. pc'[NewThread] = "starting" /\ \A v \in Workers : v # NewThread => pc'[v] = pc[v]
    BY <2>1, <2>3, CreatedFacts DEF TypeOK
  <2>5. PICK n \in Workers : n = NewThread
    BY <2>3
  <2>6. \A v \in Workers : post'[v] # NoTask => post[v] # NoTask
    BY <1>0, <2>1
  <2>7. Frame(n)'
    <3>1. task'[n] = NoTask /\ outside'[n] = {} /\ post'[n] = NoTask /\ pc'[n] = "starting" /\ n \notin threads'
      BY <2>1, <2>3, <2>4, <2>5, <2>6
    <3> QED
      BY <3>1 DEF Frame
  <2>8. ASSUME NEW v \in Workers, v # n PROVE Frame(v)'
    <3>1. pc'[v] = pc[v] /\ Frame(v)
      BY <2>4, <2>5, <2>8 DEF Frames
    <3> QED
      BY <2>1, <2>6, <3>1, FrameKept DEF Wakes
  <2> QED
    BY <2>7, <2>8 DEF Frames
<1>8. ASSUME NEW w \in Workers, Spurious(w) PROVE Frames'
  <2>1. UNCHANGED <<task, outside, threads, post>> /\ Stir
    BY <1>8, WorkPc DEF Spurious
  <2> QED
    BY <1>1, <2>1
<1>9. ASSUME NEW w \in Workers, NEW token \in FreshTokens, BindToken(w, token) PROVE Frames'
  <2>1. /\ UNCHANGED <<pc, outside, threads, post>> /\ pc[w] = "run"
        /\ task' = [task EXCEPT ![w].token = token]
    BY <1>9 DEF BindToken
  <2>2. task[w] \in Task /\ token \in Nat
    BY <2>1, PoolAssumption DEF Frames, Frame, TypeOK
  <2>3. [task[w] EXCEPT !.token = token] \in Task
    BY <2>2 DEF Task
  <2>4. task'[w] # NoTask /\ \A v \in Workers \ {w} : task'[v] = task[v]
    BY <2>1, <2>3, NoTaskAssumption DEF TypeOK
  <2>5. Frame(w)'
    BY <2>1, <2>4 DEF Frames, Frame
  <2> QED
    BY <2>1, <2>4, <2>5, FramesOfOthers DEF Wakes
<1>10. CASE FlushForTesting
  BY <1>1, <1>10, OtherPc DEF FlushForTesting
<1>11. ASSUME NEW n \in 0..MaxNewBlocking, Shutdown(n) PROVE Frames'
  BY <1>1, <1>11, OtherPc DEF Shutdown
<1> QED
  BY <1>2, <1>3, <1>4, <1>5, <1>6, <1>7, <1>8, <1>9, <1>10, <1>11, FramesWorker DEF Next, PostStep

------------------------------------------------------------------------------
(* The creation of threads *)

LEMMA CreatingKept ==
  ASSUME Creating, UNCHANGED <<threads, thread_being_created>>,
         \A w \in Workers : /\ pc'[w] = "starting" <=> pc[w] = "starting"
                            /\ "create" \in outside'[w] <=> "create" \in outside[w],
         \A a \in Actors : post'[a] # NoTask /\ post'[a].stage = "create"
                           <=> post[a] # NoTask /\ post[a].stage = "create"
  PROVE  Creating'
<1>1. \A a \in Actors : Makes(a)' <=> Makes(a)
  BY DEF Makes
<1>2. NewThread' = NewThread
  BY DEF NewThread
<1>3. Workers \subseteq Actors
  BY DEF Actors
<1> QED
  BY <1>1, <1>2, <1>3 DEF Creating

\* Nobody is to create a thread while thread_being_created_ is not set.
LEMMA NobodyMakes ==
  ASSUME Creating, ~thread_being_created
  PROVE  /\ \A w \in Workers : pc[w] # "starting" /\ "create" \notin outside[w]
         /\ \A a \in Actors : post[a] # NoTask => post[a].stage # "create"
<1>1. \A a \in Actors : ~Makes(a)
  BY DEF Creating
<1>2. Workers \subseteq Actors
  BY DEF Actors
<1> QED
  BY <1>1, <1>2 DEF Makes

\* From nobody to exactly one.
LEMMA CreatingBegins ==
  ASSUME Creating, NEW a \in Actors, ~thread_being_created, thread_being_created', UNCHANGED threads,
         Cardinality(threads) < MaxThreads,
         \A w \in Workers : pc'[w] = "starting" => pc[w] = "starting",
         \A w \in Workers : "create" \in outside'[w] => w = a \/ "create" \in outside[w],
         \A b \in Actors : post'[b] # NoTask /\ post'[b].stage = "create" =>
                             b = a \/ (post[b] # NoTask /\ post[b].stage = "create"),
         Makes(a)',
         ~(a \in Workers /\ "create" \in outside'[a] /\ post'[a] # NoTask /\ post'[a].stage = "create")
  PROVE  Creating'
<1>1. /\ \A w \in Workers : pc[w] # "starting" /\ "create" \notin outside[w]
      /\ \A b \in Actors : post[b] # NoTask => post[b].stage # "create"
  BY NobodyMakes
<1>2. Workers \subseteq Actors
  BY DEF Actors
<1>3. \A b \in Actors : Makes(b)' => b = a
  BY <1>1 DEF Makes
<1>4. \A w \in Workers : pc'[w] # "starting"
  BY <1>1
<1>5. \A w \in Workers : ~("create" \in outside'[w] /\ post'[w] # NoTask /\ post'[w].stage = "create")
  BY <1>1, <1>2
<1>6. threads' = 1..Cardinality(threads')
  BY DEF Creating
<1> QED
  BY <1>3, <1>4, <1>5, <1>6 DEF Creating

\* The thread is created: from then on it is the thread itself that is on its way.
LEMMA CreatingHandsOver ==
  ASSUME TypeOK, Frames, Creating, NEW a \in Actors, NEW n \in Workers, n = NewThread, n # a, Makes(a),
         UNCHANGED <<threads, thread_being_created>>,
         pc'[n] = "starting",
         a \in Workers => pc'[a] # "starting" /\ "create" \notin outside'[a],
         post'[a] # NoTask => post'[a].stage # "create",
         \A w \in Workers \ {a, n} : pc'[w] = pc[w],
         \A w \in Workers \ {a} : outside'[w] = outside[w],
         \A b \in Actors \ {a} : post'[b] = post[b]
  PROVE  Creating'
<1>1. Workers \subseteq Actors /\ NewThread' = NewThread
  BY DEF Actors, NewThread
<1>2. \A b \in Actors : b # a => ~Makes(b)
  BY DEF Creating
<1>3. \A w \in Workers \ {a} : pc[w] # "starting" /\ "create" \notin outside[w] /\ ~(post[w] # NoTask /\ post[w].stage = "create")
  BY <1>1, <1>2 DEF Makes
<1>4. \A b \in Actors : Makes(b)' => b = n
  <2>1. ASSUME NEW b \in Actors, Makes(b)', b # n PROVE FALSE
    <3>1. CASE b = a
      BY <2>1, <3>1 DEF Makes
    <3>2. CASE b # a
      <4>1. ~Makes(b)
        BY <1>2, <3>2
      <4> QED
        BY <2>1, <3>2, <4>1 DEF Makes
    <3> QED
      BY <3>1, <3>2
  <2> QED
    BY <2>1
<1>5. Makes(n)'
  BY DEF Makes
<1>6. thread_being_created
  BY DEF Creating
<1>7. \A w \in Workers : pc'[w] = "starting" => w = NewThread'
  BY <1>1, <1>3
<1>8. \A w \in Workers : ~("create" \in outside'[w] /\ post'[w] # NoTask /\ post'[w].stage = "create")
  BY <1>1, <1>3
<1>9. threads' = 1..Cardinality(threads') /\ (thread_being_created' => Cardinality(threads') < MaxThreads)
  BY DEF Creating
<1>10. \A b, c \in Actors : Makes(b)' /\ Makes(c)' => b = c
  BY <1>4
<1>11. thread_being_created' <=> \E b \in Actors : Makes(b)'
  BY <1>1, <1>5, <1>6
<1> QED
  BY <1>7, <1>8, <1>9, <1>10, <1>11 DEF Creating

\* Waking has nothing to do with starting.
LEMMA NobodyStarts ==
  ASSUME NEW x, NEW y, Wakes(x, y)
  PROVE  y = "starting" <=> x = "starting"
BY DEF Wakes

LEMMA CreatingWorker ==
  ASSUME TypeOK, Frames, Creating, NEW w \in Workers, WorkerStep(w)
  PROVE  Creating'
<1> USE DEF poolVars, stateVars, workerVars, callVars
<1>0. /\ outside \in [Workers -> SUBSET {"delete", "create"}] /\ Frame(w) /\ w \in Actors /\ Workers \subseteq Actors
      /\ IsFiniteSet(threads) /\ Cardinality(threads) \in Nat
  <2>1. IsFiniteSet(Workers) /\ threads \in SUBSET Workers
    BY FS_Interval, PoolAssumption DEF Workers, TypeOK
  <2>2. IsFiniteSet(threads) /\ Cardinality(threads) \in Nat
    BY <2>1, FS_Subset, FS_CardinalityType
  <2> QED
    BY <2>2 DEF TypeOK, Frames, Actors
<1>1. ASSUME NEW from, NEW to, Goes(w, from, to), "starting" \notin from, "starting" \notin to,
             UNCHANGED <<threads, thread_being_created, post>>,
             \A v \in Workers : "create" \in outside'[v] <=> "create" \in outside[v]
      PROVE  Creating'
  <2>1. \A v \in Workers : pc'[v] = "starting" <=> pc[v] = "starting"
    <3>1. ASSUME NEW v \in Workers PROVE pc'[v] = "starting" <=> pc[v] = "starting"
      BY <1>1, NobodyStarts DEF Goes
    <3> QED
      BY <3>1
  <2> QED
    BY <1>1, <2>1, CreatingKept
<1>2. CASE HandleCleanup(w) \/ StarterLoop(w) \/ IdlerLoop(w) \/ FinisherLoop(w)
  <2>1. UNCHANGED <<outside, threads, thread_being_created, post>>
    BY <1>2 DEF HandleCleanup, StarterLoop, IdlerLoop, FinisherLoop
  <2>2. \/ Goes(w, {"top"}, {"get", "starter", "idler", "finisher"})
        \/ Goes(w, {"starter"}, {"cvStarter", "get"})
        \/ Goes(w, {"idler"}, {"cvIdler", "get"})
        \/ Goes(w, {"finisher"}, {"cvFinisher", "get"})
    BY <1>2, LoopPc
  <2> QED
    BY <1>1, <2>1, <2>2
<1>3. CASE GetWorkCleaned(w) \/ Resume(w) \/ ExitSignal(w) \/ ExitUnblocksShutdown(w) \/ DidRun(w) \/ SignalOthers(w)
  <2>1. UNCHANGED <<outside, threads, thread_being_created, post>>
    BY <1>3 DEF GetWorkCleaned, Resume, ExitSignal, ExitUnblocksShutdown, DidRun, SignalOthers
  <2>2. \/ Goes(w, {"get"}, {"top"}) \/ Goes(w, {"woken"}, {"top"})
        \/ Goes(w, {"exit"}, {"exit2"}) \/ Goes(w, {"exit2"}, {"exited"}) \/ Goes(w, {"run"}, {"top"})
        \/ Goes(w, {"signal"}, {IF outside[w] # {} THEN "clear" ELSE "run"})
    BY <1>3, WorkPc, RunPc
  <2>3. Goes(w, {"get", "woken", "exit", "exit2", "run", "signal"}, {"top", "exit2", "exited", "clear", "run"})
    BY <2>2 DEF Goes
  <2> QED
    BY <1>1, <2>1, <2>3
<1>4. CASE GetWorkCleans(w) \/ GetWorkNotFound(w) \/ Deleted(w) \/ ExitDeleted(w)
  <2>1. UNCHANGED <<threads, thread_being_created, post>>
    BY <1>4 DEF GetWorkCleans, GetWorkNotFound, Deleted, ExitDeleted
  <2>2. PICK b \in SUBSET {"delete"} : outside' = [outside EXCEPT ![w] = b]
    BY <1>4 DEF GetWorkCleans, GetWorkNotFound, Deleted, ExitDeleted, Todo
  <2>3. \/ Goes(w, {"get"}, {"delete"}) \/ Goes(w, {"get"}, {"exitDelete", "delete", "waiting"})
        \/ Goes(w, {"delete"}, {"top"}) \/ Goes(w, {"exitDelete"}, {"exit"})
    BY <1>4, WorkPc, RunPc
  <2>4. Goes(w, {"get", "delete", "exitDelete"}, {"top", "exitDelete", "delete", "waiting", "exit"})
    BY <2>3 DEF Goes
  <2>5. "create" \notin outside[w]
    BY <1>0, <2>4 DEF Goes, Frame
  <2>6. \A v \in Workers : "create" \in outside'[v] <=> "create" \in outside[v]
    BY <1>0, <2>2, <2>5
  <2> QED
    BY <1>1, <2>1, <2>4, <2>6
<1>5. CASE TimedOut(w)
  <2>1. UNCHANGED <<outside, threads, thread_being_created, post>> /\ Stir
    BY <1>5, WorkPc DEF TimedOut
  <2>2. \A v \in Workers : pc'[v] = "starting" <=> pc[v] = "starting"
    BY <2>1, NobodyStarts DEF Stir
  <2> QED
    BY <2>1, <2>2, CreatingKept
<1>6. CASE StartThread(w)
  <2> DEFINE n == Cardinality(threads)
  <2>1. /\ Goes(w, {"starting"}, {"top"}) /\ UNCHANGED <<outside, post>> /\ threads' = threads \union {w}
        /\ ~thread_being_created'
    BY <1>6, LoopPc DEF StartThread
  <2>2. pc[w] = "starting" /\ pc'[w] = "top" /\ \A v \in Workers \ {w} : Wakes(pc[v], pc'[v])
    BY <2>1 DEF Goes
  <2>3. Makes(w) /\ w = n + 1
    BY <2>2 DEF Makes, Creating, NewThread
  <2>4. \A b \in Actors : ~Makes(b)'
    <3>1. ASSUME NEW b \in Actors, b # w, Makes(b)' PROVE FALSE
      <4>1. ~Makes(b)
        BY <1>0, <2>3, <3>1 DEF Creating
      <4>2. b \in Workers => pc'[b] # "starting"
        BY <2>2, <3>1, <4>1, NobodyStarts DEF Makes
      <4> QED
        BY <2>1, <3>1, <4>1, <4>2 DEF Makes
    <3>2. ~Makes(w)'
      BY <1>0, <2>1, <2>2 DEF Makes, Frame
    <3> QED
      BY <3>1, <3>2
  <2>5. w \notin threads /\ threads = 1..n
    BY <1>0, <2>2 DEF Frame, Creating
  <2>6. Cardinality(threads') = n + 1
    BY <1>0, <2>1, <2>5, FS_AddElement
  <2>7. threads' = 1..(n + 1)
    BY <1>0, <2>1, <2>3, <2>5
  <2>8. threads' = 1..Cardinality(threads')
    BY <2>6, <2>7
  <2>9. \A v \in Workers : pc'[v] # "starting" /\ ~("create" \in outside'[v])
    BY <1>0, <2>4 DEF Makes
  <2> QED
    BY <2>1, <2>4, <2>8, <2>9 DEF Creating
<1>7. CASE GetWorkFound(w)
  <2>1. Goes(w, {"get"}, {"signal"}) /\ UNCHANGED <<threads, post>>
    BY <1>7, WorkPc DEF GetWorkFound
  <2>2. pc[w] = "get" /\ pc'[w] = "signal" /\ \A v \in Workers \ {w} : Wakes(pc[v], pc'[v])
    BY <2>1 DEF Goes
  <2> DEFINE helps == NewThreadHelps(pending_tasks', current_sequences')
  <2>3. thread_being_created' = (thread_being_created \/ helps)
        /\ \E b \in BOOLEAN : outside' = [outside EXCEPT ![w] = Todo(b, helps)]
    BY <1>7 DEF GetWorkFound
  <2>4. PICK b \in BOOLEAN : outside' = [outside EXCEPT ![w] = Todo(b, helps)]
    BY <2>3
  <2>5. Todo(b, helps) \subseteq {"delete", "create"} /\ ("create" \in Todo(b, helps) <=> helps)
    BY DEF Todo
  <2>6. helps => ~thread_being_created /\ Cardinality(threads) < MaxThreads
    BY DEF NewThreadHelps
  <2> HIDE DEF helps
  <2>7. ("create" \in outside'[w] <=> helps) /\ \A v \in Workers \ {w} : outside'[v] = outside[v]
    BY <1>0, <2>4, <2>5
  <2>8. "create" \notin outside[w] /\ post[w] = NoTask
    BY <1>0, <2>2 DEF Frame
  <2>9. CASE ~helps
    <3>1. thread_being_created' = thread_being_created
      BY <2>3, <2>9 DEF TypeOK
    <3>2. \A v \in Workers : "create" \in outside'[v] <=> "create" \in outside[v]
      BY <2>7, <2>8, <2>9
    <3> QED
      BY <1>1, <2>1, <3>1, <3>2
  <2>10. CASE helps
    <3>1. ~thread_being_created /\ Cardinality(threads) < MaxThreads
      BY <2>6, <2>10
    <3>2. thread_being_created'
      BY <2>3, <2>10
    <3>3. \A v \in Workers : pc'[v] = "starting" => pc[v] = "starting"
      BY <2>2, NobodyStarts
    <3>4. Makes(w)'
      BY <2>7, <2>10 DEF Makes
    <3>5. \A v \in Workers : "create" \in outside'[v] => v = w \/ "create" \in outside[v]
      BY <2>7
    <3> QED
      BY <1>0, <2>1, <2>8, <3>1, <3>2, <3>3, <3>4, <3>5, CreatingBegins
  <2> QED
    BY <2>9, <2>10
<1>8. CASE RunAfterClear(w)
  <2>1. /\ UNCHANGED <<threads, thread_being_created, post>> /\ outside' = [outside EXCEPT ![w] = {}]
        /\ pc[w] = "clear" /\ post[w] = NoTask
    BY <1>8 DEF RunAfterClear
  <2>2. outside'[w] = {} /\ \A v \in Workers \ {w} : outside'[v] = outside[v]
    BY <1>0, <2>1
  <2>3. CASE "create" \notin outside[w]
    <3>1. Goes(w, {"clear"}, {"run"})
      BY <1>8, <2>3, RunPc
    <3>2. \A v \in Workers : "create" \in outside'[v] <=> "create" \in outside[v]
      BY <2>2, <2>3
    <3> QED
      BY <1>1, <2>1, <3>1, <3>2
  <2>4. CASE "create" \in outside[w]
    <3> DEFINE f == [pc EXCEPT ![w] = "run"]
    <3>1. Makes(w) /\ pc[w] # "starting"
      BY <2>1, <2>4 DEF Makes
    <3>2. NewThread \in Workers /\ NewThread # w
      BY <1>0, <3>1, NewThreadIsFree
    <3>3. f \in [Workers -> PC] /\ f[w] = "run" /\ \A v \in Workers \ {w} : f[v] = pc[v]
      BY DEF TypeOK, PC
    <3>4. pc' = Created(f)
      BY <1>8, <2>4 DEF RunAfterClear
    <3> HIDE DEF f
    <3>5. pc'[NewThread] = "starting" /\ \A v \in Workers : v # NewThread => pc'[v] = f[v]
      BY <3>2, <3>3, <3>4, CreatedFacts
    <3>6. PICK n \in Workers : n = NewThread
      BY <3>2
    <3>7. pc'[n] = "starting" /\ pc'[w] # "starting" /\ \A v \in Workers \ {w, n} : pc'[v] = pc[v]
      BY <3>2, <3>3, <3>5, <3>6
    <3> QED
      BY <1>0, <2>1, <2>2, <3>1, <3>2, <3>6, <3>7, CreatingHandsOver
  <2> QED
    BY <2>3, <2>4
<1> QED
  BY <1>2, <1>3, <1>4, <1>5, <1>6, <1>7, <1>8 DEF WorkerStep

LEMMA CreatingStep == TypeOK /\ Frames /\ Creating /\ [Next]_vars => Creating'
<1> SUFFICES ASSUME TypeOK, Frames, Creating, [Next]_vars PROVE Creating'
  OBVIOUS
<1> USE DEF poolVars, stateVars, workerVars, callVars
<1>0. post \in [Actors -> Post \union {NoTask}] /\ Workers \subseteq Actors
  BY DEF TypeOK, Actors
<1>1. ASSUME Stir, UNCHANGED <<outside, threads, thread_being_created>>,
             \A a \in Actors : post'[a] # NoTask /\ post'[a].stage = "create"
                               <=> post[a] # NoTask /\ post[a].stage = "create"
      PROVE  Creating'
  <2>1. \A v \in Workers : pc'[v] = "starting" <=> pc[v] = "starting"
    BY <1>1, NobodyStarts DEF Stir
  <2> QED
    BY <1>1, <2>1, CreatingKept
<1>2. CASE UNCHANGED vars \/ Tick \/ CallerStep
  <2>1. UNCHANGED <<pc, outside, threads, thread_being_created, post>>
    BY <1>2 DEF vars, Tick, CallerStep, FlushLoop, ShutdownLoop
  <2> QED
    BY <1>1, <2>1, StirsNobody
<1>3. ASSUME NEW a \in Actors, NEW token, NEW behavior, NEW delay, PostTask(a, token, behavior, delay) PROVE Creating'
  <2>1. UNCHANGED <<pc, outside, threads, thread_being_created>> /\ post[a] = NoTask
    BY <1>3 DEF PostTask
  <2>2. post'[a].stage = "lock" /\ \A b \in Actors : b # a => post'[b] = post[b]
    BY <1>0, <1>3 DEF PostTask
  <2>3. \A b \in Actors : post'[b] # NoTask /\ post'[b].stage = "create"
                          <=> post[b] # NoTask /\ post[b].stage = "create"
    BY <2>1, <2>2
  <2> QED
    BY <1>1, <2>1, <2>3, StirsNobody
<1>4. ASSUME NEW a \in Actors, PostRefused(a) \/ PostSignal(a) PROVE Creating'
  <2>1. /\ UNCHANGED <<outside, threads, thread_being_created>> /\ Stir /\ post' = [post EXCEPT ![a] = NoTask]
        /\ post[a].stage # "create"
    BY <1>4, OtherPc, StirsNobody DEF PostRefused, PostSignal
  <2>2. \A b \in Actors : post'[b] # NoTask /\ post'[b].stage = "create"
                          <=> post[b] # NoTask /\ post[b].stage = "create"
    BY <1>0, <2>1
  <2> QED
    BY <1>1, <2>1, <2>2
<1>5. ASSUME NEW a \in Actors, PostAccepted(a) PROVE Creating'
  <2>1. UNCHANGED <<pc, outside, threads>> /\ post[a] # NoTask /\ post[a].stage = "lock"
    BY <1>5 DEF PostAccepted
  <2>2. post[a] \in Post
    BY <1>0, <2>1
  <2>3. \A b \in Actors : b # a => post'[b] = post[b]
    BY <1>0, <1>5 DEF PostAccepted
  <2>4. CASE post' = [post EXCEPT ![a].stage = "signal"] /\ UNCHANGED thread_being_created
    <3>1. post'[a].stage = "signal"
      BY <1>0, <2>2, <2>4 DEF Post
    <3>2. \A b \in Actors : post'[b] # NoTask /\ post'[b].stage = "create"
                            <=> post[b] # NoTask /\ post[b].stage = "create"
      BY <2>1, <2>3, <3>1
    <3> QED
      BY <1>1, <2>1, <2>4, <3>2, StirsNobody
  <2>5. CASE NewThreadHelps(pending_tasks', current_sequences) /\ thread_being_created' = TRUE
             /\ post' = [post EXCEPT ![a].stage = "create"]
    <3>1. ~thread_being_created /\ Cardinality(threads) < MaxThreads
      BY <2>5 DEF NewThreadHelps
    <3>2. post'[a].stage = "create" /\ post'[a] # NoTask
      <4>1. post'[a] = [post[a] EXCEPT !.stage = "create"]
        BY <1>0, <2>5
      <4>2. [post[a] EXCEPT !.stage = "create"] \in Post /\ [post[a] EXCEPT !.stage = "create"].stage = "create"
        BY <2>2 DEF Post
      <4> QED
        BY <4>1, <4>2, NoTaskAssumption
    <3>3. Makes(a)'
      BY <3>2 DEF Makes
    <3>4. \A w \in Workers : "create" \notin outside'[w]
      BY <2>1, <3>1, NobodyMakes
    <3>5. thread_being_created'
      BY <2>5
    <3>6. \A b \in Actors : post'[b] # NoTask /\ post'[b].stage = "create" =>
                              b = a \/ (post[b] # NoTask /\ post[b].stage = "create")
      BY <2>3
    <3> QED
      BY <2>1, <3>1, <3>3, <3>4, <3>5, <3>6, CreatingBegins
  <2> QED
    BY <1>5, <2>4, <2>5 DEF PostAccepted
<1>6. ASSUME NEW a \in Actors, PostCreate(a) PROVE Creating'
  <2>1. /\ UNCHANGED <<outside, threads, thread_being_created>> /\ post' = [post EXCEPT ![a] = NoTask]
        /\ post[a] # NoTask /\ post[a].stage = "create" /\ pc' = Created(pc)
    BY <1>6 DEF PostCreate
  <2>2. Makes(a) /\ ~(a \in Workers /\ pc[a] = "starting")
    BY <2>1 DEF Makes, Frames, Frame
  <2>3. NewThread \in Workers /\ NewThread # a
    BY <2>2, NewThreadIsFree
  <2>4. pc'[NewThread] = "starting" /\ \A v \in Workers : v # NewThread => pc'[v] = pc[v]
    BY <2>1, <2>3, CreatedFacts DEF TypeOK
  <2>5. PICK n \in Workers : n = NewThread
    BY <2>3
  <2>6. post'[a] = NoTask /\ \A b \in Actors \ {a} : post'[b] = post[b]
    BY <1>0, <2>1
  <2>7. a \in Workers => pc'[a] # "starting" /\ "create" \notin outside'[a]
    BY <2>1, <2>2, <2>3, <2>4 DEF Creating
  <2> QED
    BY <2>1, <2>2, <2>3, <2>4, <2>5, <2>6, <2>7, CreatingHandsOver
<1>7. ASSUME NEW w \in Workers, Spurious(w) PROVE Creating'
  <2>1. UNCHANGED <<outside, threads, post, thread_being_created>> /\ Stir
    BY <1>7, WorkPc DEF Spurious
  <2> QED
    BY <1>1, <2>1
<1>8. CASE FlushForTesting \/ (\E n \in 0..MaxNewBlocking : Shutdown(n))
           \/ (\E w \in Workers, token \in FreshTokens : BindToken(w, token))
  <2>1. UNCHANGED <<outside, threads, post, thread_being_created>> /\ Stir
    BY <1>8, OtherPc, StirsNobody DEF FlushForTesting, Shutdown, BindToken
  <2> QED
    BY <1>1, <2>1
<1> QED
  BY <1>2, <1>3, <1>4, <1>5, <1>6, <1>7, <1>8, CreatingWorker DEF Next, PostStep

------------------------------------------------------------------------------
(* Counting workers *)

\* Sets of workers can be counted.
LEMMA WorkersCount ==
  ASSUME NEW S \in SUBSET Workers
  PROVE  IsFiniteSet(S) /\ Cardinality(S) \in 0..MaxThreads
<1>1. IsFiniteSet(Workers) /\ Cardinality(Workers) = MaxThreads
  BY FS_Interval, PoolAssumption DEF Workers
<1>2. IsFiniteSet(S) /\ Cardinality(S) <= MaxThreads
  BY <1>1, FS_Subset
<1>3. Cardinality(S) \in Nat
  BY <1>2, FS_CardinalityType
<1> QED
  BY <1>2, <1>3, PoolAssumption

\* Waking changes neither who waits for work nor who is idle.
LEMMA WakesClass ==
  ASSUME NEW x, NEW y, Wakes(x, y)
  PROVE  /\ y \in {"waiting", "woken"} <=> x \in {"waiting", "woken"}
         /\ y \in {"idler", "cvIdler"} <=> x \in {"idler", "cvIdler"}
BY DEF Wakes

LEMMA StirClass ==
  ASSUME Stir
  PROVE  UNCHANGED <<Waiters, Idlers>>
BY WakesClass DEF Stir, Waiters, Idlers

LEMMA GoesClass ==
  ASSUME NEW w \in Workers, NEW from, NEW to, Goes(w, from, to)
  PROVE  /\ from \intersect {"waiting", "woken"} = {} /\ to \intersect {"waiting", "woken"} = {} => Waiters' = Waiters
         /\ from \intersect {"idler", "cvIdler"} = {} /\ to \intersect {"idler", "cvIdler"} = {} => Idlers' = Idlers
         /\ pc'[w] \in {"waiting", "woken"} => Waiters' = Waiters \union {w}
         /\ pc'[w] \notin {"waiting", "woken"} => Waiters' = Waiters \ {w}
         /\ pc'[w] \in {"idler", "cvIdler"} => Idlers' = Idlers \union {w}
         /\ pc'[w] \notin {"idler", "cvIdler"} => Idlers' = Idlers \ {w}
<1>1. \A v \in Workers \ {w} : /\ pc'[v] \in {"waiting", "woken"} <=> pc[v] \in {"waiting", "woken"}
                               /\ pc'[v] \in {"idler", "cvIdler"} <=> pc[v] \in {"idler", "cvIdler"}
  BY WakesClass DEF Goes
<1>2. pc[w] \in from /\ pc'[w] \in to
  BY DEF Goes
<1>3. /\ pc'[w] \in {"waiting", "woken"} => Waiters' = Waiters \union {w}
      /\ pc'[w] \notin {"waiting", "woken"} => Waiters' = Waiters \ {w}
  BY <1>1 DEF Waiters
<1>4. /\ pc'[w] \in {"idler", "cvIdler"} => Idlers' = Idlers \union {w}
      /\ pc'[w] \notin {"idler", "cvIdler"} => Idlers' = Idlers \ {w}
  BY <1>1 DEF Idlers
<1>5. from \intersect {"waiting", "woken"} = {} => w \notin Waiters
  BY <1>2 DEF Waiters
<1>6. from \intersect {"idler", "cvIdler"} = {} => w \notin Idlers
  BY <1>2 DEF Idlers
<1> QED
  BY <1>2, <1>3, <1>4, <1>5, <1>6

\* The creation of a thread changes neither.
LEMMA CreatedClass ==
  ASSUME TypeOK, NEW f \in [Workers -> PC], NewThread \in Workers, pc[NewThread] = "none", pc' = Created(f),
         \A v \in Workers : f[v] = pc[v] \/ (pc[v] = "clear" /\ f[v] = "run")
  PROVE  UNCHANGED <<Waiters, Idlers>>
<1>1. pc'[NewThread] = "starting" /\ \A v \in Workers : v # NewThread => pc'[v] = f[v]
  BY CreatedFacts
<1>2. \A v \in Workers : /\ pc'[v] \in {"waiting", "woken"} <=> pc[v] \in {"waiting", "woken"}
                         /\ pc'[v] \in {"idler", "cvIdler"} <=> pc[v] \in {"idler", "cvIdler"}
  BY <1>1
<1> QED
  BY <1>2 DEF Waiters, Idlers

\* Few actions change who waits and who is idle.
LEMMA ClassesStep ==
  ASSUME TypeOK, Frames, Creating, [Next]_vars
  PROVE  \/ \E w \in Workers : GetWorkNotFound(w) \/ Resume(w) \/ HandleCleanup(w) \/ IdlerLoop(w)
         \/ /\ UNCHANGED <<Waiters, Idlers, waiting_thread_count>>
            /\ UNCHANGED cleanup_idlers \/ FlushForTesting
<1> DEFINE Kept == /\ UNCHANGED <<Waiters, Idlers, waiting_thread_count>>
                   /\ UNCHANGED cleanup_idlers \/ FlushForTesting
<1> USE DEF poolVars, stateVars, workerVars, callVars
<1>1. CASE \/ UNCHANGED vars \/ Tick \/ CallerStep \/ (\E w \in Workers, token \in FreshTokens : BindToken(w, token))
           \/ (\E a \in Actors, token \in Tokens \union bound, behavior \in Behavior, delay \in Delays :
                 PostTask(a, token, behavior, delay))
           \/ \E a \in Actors : PostRefused(a) \/ PostAccepted(a)
  <2>1. UNCHANGED <<pc, waiting_thread_count, cleanup_idlers>>
    BY <1>1 DEF vars, Tick, CallerStep, FlushLoop, ShutdownLoop, BindToken, PostTask, PostRefused, PostAccepted
  <2> QED
    BY <2>1, StirsNobody, StirClass
<1>2. CASE \/ FlushForTesting \/ (\E n \in 0..MaxNewBlocking : Shutdown(n))
           \/ (\E a \in Actors : PostSignal(a)) \/ \E w \in Workers : TimedOut(w) \/ Spurious(w)
  <2>1. Stir /\ UNCHANGED waiting_thread_count /\ (UNCHANGED cleanup_idlers \/ FlushForTesting)
    BY <1>2, OtherPc, WorkPc DEF FlushForTesting, Shutdown, PostSignal, TimedOut, Spurious
  <2> QED
    BY <2>1, StirClass
<1>3. ASSUME NEW a \in Actors, PostCreate(a) PROVE Kept
  <2>1. post[a] # NoTask /\ post[a].stage = "create" /\ pc' = Created(pc) /\ UNCHANGED <<waiting_thread_count, cleanup_idlers>>
    BY <1>3 DEF PostCreate
  <2>2. Makes(a) /\ ~(a \in Workers /\ pc[a] = "starting")
    BY <2>1 DEF Makes, Frames, Frame
  <2>3. NewThread \in Workers /\ pc[NewThread] = "none" /\ pc \in [Workers -> PC]
    BY <2>2, NewThreadIsFree DEF TypeOK
  <2> QED
    BY <2>1, <2>3, CreatedClass
<1>4. ASSUME NEW w \in Workers, RunAfterClear(w) PROVE Kept
  <2>1. pc[w] = "clear" /\ UNCHANGED <<waiting_thread_count, cleanup_idlers>> /\ w \in Actors
    BY <1>4 DEF RunAfterClear, Actors
  <2>2. CASE "create" \notin outside[w]
    <3>1. Goes(w, {"clear"}, {"run"})
      BY <1>4, <2>2, RunPc
    <3> QED
      BY <2>1, <3>1, GoesClass
  <2>3. CASE "create" \in outside[w]
    <3> DEFINE f == [pc EXCEPT ![w] = "run"]
    <3>1. Makes(w) /\ pc[w] # "starting"
      BY <2>1, <2>3 DEF Makes
    <3>2. NewThread \in Workers /\ pc[NewThread] = "none"
      BY <2>1, <3>1, NewThreadIsFree
    <3>3. f \in [Workers -> PC] /\ \A v \in Workers : f[v] = pc[v] \/ (pc[v] = "clear" /\ f[v] = "run")
      BY <2>1 DEF TypeOK, PC
    <3>4. pc' = Created(f)
      BY <1>4, <2>3 DEF RunAfterClear
    <3> HIDE DEF f
    <3> QED
      BY <2>1, <3>2, <3>3, <3>4, CreatedClass
  <2> QED
    BY <2>2, <2>3
<1>5. ASSUME NEW w \in Workers,
             \/ StartThread(w) \/ StarterLoop(w) \/ FinisherLoop(w) \/ GetWorkFound(w) \/ GetWorkCleans(w)
             \/ GetWorkCleaned(w) \/ SignalOthers(w) \/ DidRun(w) \/ Deleted(w) \/ ExitDeleted(w)
             \/ ExitSignal(w) \/ ExitUnblocksShutdown(w)
      PROVE  Kept
  <2>1. UNCHANGED <<waiting_thread_count, cleanup_idlers>>
    BY <1>5 DEF StartThread, StarterLoop, FinisherLoop, GetWorkFound, GetWorkCleans, GetWorkCleaned, SignalOthers,
                DidRun, Deleted, ExitDeleted, ExitSignal, ExitUnblocksShutdown
  <2>2. \/ Goes(w, {"starting"}, {"top"}) \/ Goes(w, {"starter"}, {"cvStarter", "get"})
        \/ Goes(w, {"finisher"}, {"cvFinisher", "get"}) \/ Goes(w, {"get"}, {"signal"})
        \/ Goes(w, {"get"}, {"delete"}) \/ Goes(w, {"get"}, {"top"})
        \/ Goes(w, {"signal"}, {IF outside[w] # {} THEN "clear" ELSE "run"}) \/ Goes(w, {"run"}, {"top"})
        \/ Goes(w, {"delete"}, {"top"}) \/ Goes(w, {"exitDelete"}, {"exit"})
        \/ Goes(w, {"exit"}, {"exit2"}) \/ Goes(w, {"exit2"}, {"exited"})
    BY <1>5, LoopPc, WorkPc, RunPc
  <2>3. Goes(w, {"starting", "starter", "finisher", "get", "signal", "run", "delete", "exitDelete", "exit", "exit2"},
                {"top", "cvStarter", "get", "cvFinisher", "signal", "delete", "clear", "run", "exit", "exit2", "exited"})
    BY <2>2 DEF Goes
  <2> QED
    BY <2>1, <2>3, GoesClass
<1> QED
  BY <1>1, <1>2, <1>3, <1>4, <1>5 DEF Next, PostStep, WorkerStep

\* The counters of workers agree with the workers.
LEMMA WorkerCountsStep ==
  ASSUME TypeOK, Frames, Creating, WorkerCounts, Cleaning, [Next]_vars
  PROVE  WorkerCounts'
<1> USE DEF poolVars, stateVars, workerVars, callVars
<1>1. Waiters \in SUBSET Workers /\ Idlers \in SUBSET Workers
  BY DEF Waiters, Idlers
<1>2. /\ IsFiniteSet(Waiters) /\ Cardinality(Waiters) \in Nat
      /\ IsFiniteSet(Idlers) /\ Cardinality(Idlers) \in Nat
  BY <1>1, WorkersCount
<1>3. CASE /\ UNCHANGED <<Waiters, Idlers, waiting_thread_count>>
           /\ UNCHANGED cleanup_idlers \/ FlushForTesting
  <2>1. CASE UNCHANGED cleanup_idlers
    BY <1>3, <2>1 DEF WorkerCounts
  <2>2. CASE FlushForTesting
    <3>1. cleanup_state = "DONE" /\ cleanup_idlers' \in {0, cleanup_idlers}
      BY <2>2 DEF FlushForTesting
    <3>2. Idlers = {} /\ Cardinality(Idlers) = 0
      BY <3>1, FS_EmptySet DEF Cleaning
    <3> QED
      BY <1>3, <3>1, <3>2 DEF WorkerCounts
  <2> QED
    BY <1>3, <2>1, <2>2
<1>4. ASSUME NEW w \in Workers, GetWorkNotFound(w) PROVE WorkerCounts'
  <2>1. Goes(w, {"get"}, {"exitDelete", "delete", "waiting"}) /\ cleanup_idlers' = cleanup_idlers
    BY <1>4, WorkPc DEF GetWorkNotFound
  <2>2. Idlers' = Idlers
    BY <2>1, GoesClass
  <2>3. w \notin Waiters
    BY <2>1 DEF Goes, Waiters
  <2>4. CASE pc' = [pc EXCEPT ![w] = "waiting"] /\ waiting_thread_count' = waiting_thread_count + 1
    <3>1. pc'[w] = "waiting"
      BY <2>4 DEF TypeOK
    <3>2. Waiters' = Waiters \union {w}
      BY <2>1, <3>1, GoesClass
    <3>3. Cardinality(Waiters') = Cardinality(Waiters) + 1
      BY <1>2, <2>3, <3>2, FS_AddElement
    <3> QED
      BY <2>1, <2>2, <2>4, <3>3 DEF WorkerCounts
  <2>5. CASE (pc' = [pc EXCEPT ![w] = "exitDelete"] \/ pc' = [pc EXCEPT ![w] = "delete"])
             /\ waiting_thread_count' = waiting_thread_count
    <3>1. pc'[w] \notin {"waiting", "woken"}
      BY <2>5 DEF TypeOK
    <3>2. Waiters' = Waiters \ {w}
      BY <2>1, <3>1, GoesClass
    <3>3. Waiters' = Waiters
      BY <2>3, <3>2
    <3> QED
      BY <2>1, <2>2, <2>5, <3>3 DEF WorkerCounts
  <2> QED
    BY <1>4, <2>4, <2>5 DEF GetWorkNotFound
<1>5. ASSUME NEW w \in Workers, Resume(w) PROVE WorkerCounts'
  <2>1. Goes(w, {"woken"}, {"top"}) /\ cleanup_idlers' = cleanup_idlers /\ waiting_thread_count' = waiting_thread_count - 1
    BY <1>5, WorkPc DEF Resume
  <2>2. Idlers' = Idlers
    BY <2>1, GoesClass
  <2>3. w \in Waiters /\ pc'[w] = "top"
    BY <2>1 DEF Goes, Waiters
  <2>4. Waiters' = Waiters \ {w}
    BY <2>1, <2>3, GoesClass
  <2>5. Cardinality(Waiters') = Cardinality(Waiters) - 1
    BY <1>2, <2>3, <2>4, FS_RemoveElement
  <2> QED
    BY <2>1, <2>2, <2>5 DEF WorkerCounts
<1>6. ASSUME NEW w \in Workers, HandleCleanup(w) PROVE WorkerCounts'
  <2>1. Goes(w, {"top"}, {"get", "starter", "idler", "finisher"}) /\ waiting_thread_count' = waiting_thread_count
    BY <1>6, LoopPc DEF HandleCleanup
  <2>2. Waiters' = Waiters
    BY <2>1, GoesClass
  <2>3. w \notin Idlers /\ Broadcast(pc) \in [Workers -> PC]
    BY <2>1, BroadcastFacts DEF Goes, Idlers, TypeOK
  <2>4. CASE pc' = [Broadcast(pc) EXCEPT ![w] = "idler"] /\ cleanup_idlers' = cleanup_idlers + 1
    <3>1. pc'[w] = "idler"
      BY <2>3, <2>4
    <3>2. Idlers' = Idlers \union {w}
      BY <2>1, <3>1, GoesClass
    <3>3. Cardinality(Idlers') = Cardinality(Idlers) + 1
      BY <1>2, <2>3, <3>2, FS_AddElement
    <3> QED
      BY <2>1, <2>2, <2>4, <3>3 DEF WorkerCounts
  <2>5. CASE (\E to \in {"get", "starter", "finisher"} : pc' = [pc EXCEPT ![w] = to]) /\ cleanup_idlers' = cleanup_idlers
    <3>1. pc'[w] \notin {"idler", "cvIdler"}
      BY <2>5 DEF TypeOK
    <3>2. Idlers' = Idlers
      BY <2>1, <2>3, <3>1, GoesClass
    <3> QED
      BY <2>1, <2>2, <2>5, <3>2 DEF WorkerCounts
  <2> QED
    BY <1>6, <2>4, <2>5 DEF HandleCleanup
<1>7. ASSUME NEW w \in Workers, IdlerLoop(w) PROVE WorkerCounts'
  <2>1. Goes(w, {"idler"}, {"cvIdler", "get"}) /\ waiting_thread_count' = waiting_thread_count
    BY <1>7, LoopPc DEF IdlerLoop
  <2>2. Waiters' = Waiters
    BY <2>1, GoesClass
  <2>3. w \in Idlers /\ Broadcast(pc) \in [Workers -> PC]
    BY <2>1, BroadcastFacts DEF Goes, Idlers, TypeOK
  <2>4. CASE pc' = [Broadcast(pc) EXCEPT ![w] = "get"] /\ cleanup_idlers' = cleanup_idlers - 1
    <3>1. pc'[w] = "get"
      BY <2>3, <2>4
    <3>2. Idlers' = Idlers \ {w}
      BY <2>1, <3>1, GoesClass
    <3>3. Cardinality(Idlers') = Cardinality(Idlers) - 1
      BY <1>2, <2>3, <3>2, FS_RemoveElement
    <3> QED
      BY <2>1, <2>2, <2>4, <3>3 DEF WorkerCounts
  <2>5. CASE pc' = [pc EXCEPT ![w] = "cvIdler"] /\ cleanup_idlers' = cleanup_idlers
    <3>1. pc'[w] = "cvIdler"
      BY <2>5 DEF TypeOK
    <3>2. Idlers' = Idlers
      BY <2>1, <2>3, <3>1, GoesClass
    <3> QED
      BY <2>1, <2>2, <2>5, <3>2 DEF WorkerCounts
  <2> QED
    BY <1>7, <2>4, <2>5 DEF IdlerLoop
<1> QED
  BY <1>3, <1>4, <1>5, <1>6, <1>7, ClassesStep

==============================================================================
