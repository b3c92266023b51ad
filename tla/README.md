# A TLA+ model of libchrome's concurrent and fault-tolerant core

libchrome is Chromium's `base` library (with `dbus`, `crypto`, `sandbox` and
`components/timers`) as packaged for Android and Chrome OS. Most of it is
sequential: strings, files, JSON, time, processes. What the rest of the system
stands on, and what tests reach least, is the small amount of code that moves work
between threads (an event, a message loop, two worker pools, the D-Bus client) and the
code that must survive a crash (the writer of important files). This project models
that code, model-checks it with TLC and proves its safety properties with TLAPS.

`PROJECT.json` holds the machine-readable side: every component, every run, the
source lines each definition stands for, the hazards and the findings.

## 1. Inventory

### Modelled

**WaitableEvent** (`base/synchronization/waitable_event_posix.cc`).
*State*: per event a kernel with a lock, the `signaled_` flag and a list of waiters;
per blocking call a `SyncWaiter` on the caller's stack with `fired_`,
`signaling_event_`, its own lock and a condition variable. *Operations*: `Signal`,
`Reset`, `IsSignaled`, `Wait`, `TimedWait`, `WaitMany`. *Interaction*: `Signal` calls
`Fire` on waiters of other threads while it holds the kernel's lock; `WaitMany` holds
several kernel locks at once. *Hard*: a time-out that races with a signal, pointers
to other threads' stacks in the lists, lock order, an event that is deleted as soon
as a wait on it returns. *Correct if*: no signal of an auto-reset event is lost,
spent twice or spent on a wait that times out; no thread sleeps on a signaled event;
no list dangles; concurrent `WaitMany` calls do not deadlock; due waits return.

**MessageLoop** with **IncomingTaskQueue**, **MessageLoopTaskRunner**,
**MessagePumpDefault**, **RunLoop** and **PendingTask** (`base/message_loop/*`,
`base/run_loop.cc`, `base/pending_task.cc`). *State*: the incoming queue and its
`message_loop_scheduled_` flag under a lock; the loop thread's work, delayed and
deferred queues; the pump's event, `keep_running_` and `delayed_work_time_`; a stack
of nested RunLoops. *Operations*: post (immediate, delayed, nestable or not), `Run`,
`Quit`, `QuitWhenIdle`, `SetNestableTasksAllowed`, `DoWork`, `DoDelayedWork`,
`DoIdleWork`, construction, binding and destruction. *Interaction*: posters signal the
pump's WaitableEvent; tasks re-enter the loop. *Hard*: the wake-up decision is taken
from flags read under another lock at another time; one pump serves all nested loops;
tasks may do anything; the destructors of deleted tasks post again. *Correct if*: no
wake-up is lost, no delayed task is overslept, no task is lost, repeated or run out of
its promised order, loops end when and only when they are told.

**SequencedWorkerPool** (`base/threading/sequenced_worker_pool.cc`). *State*: the set
of pending tasks, the tokens in use, the workers and four counters under one lock,
three condition variables, the shutdown flags and the five-stage cleanup machine
behind `FlushForTesting`. *Operations*: `PostTask` (token, shutdown behaviour, delay),
`GetSequenceToken` and binding one to a running task, the workers' `ThreadLoop` with
`GetWork`, `HandleCleanup`, lazy thread creation, `FlushForTesting`, `Shutdown`.
*Interaction*: condition variables are signaled outside the lock; tasks and the
destructors of skipped tasks post. *Hard*: signals that wake one of many waiters,
decisions taken under the lock and carried out after it was released, counters that
decide whether a shutdown may return. *Correct if*: the tasks of one token run one at
a time and in order; `Shutdown` returns exactly when nothing that blocks it is left;
`FlushForTesting` returns and is complete; every accepted task is run or deleted.

**WorkerPool** in a **LazyInstance** (`base/threading/worker_pool_posix.cc`,
`base/lazy_instance.*`, `base/at_exit.cc`). *State*: one word with three states; under a
lock the pending tasks, the number of idle workers and the termination flag. *Operations*:
`PostTask`, which creates the pool on first use, a worker's `WaitForTask` with its
ten-minute time-out, `Terminate` at exit. *Interaction*: threads that race for the first
use spin on the word; a post either signals an idle worker or creates one. *Hard*: a worker
that has been woken or has timed out is still counted as idle until it gets the lock, and
a worker that becomes free takes the task another was woken for. *Correct if*: the pool is
created once and seen complete; every task gets a worker although others block for ever;
nobody sleeps through the termination.

**ImportantFileWriter** with **Timer** and **PostTaskAndReply**
(`base/files/important_file_writer.cc`, `base/timer/timer.cc`,
`base/threading/post_task_and_reply_impl.cc`). *State*: the serializer of a scheduled
write, the timer's posted task and its two times, the success callback; the queue of the
file thread; the temporary file and the target, in the cache and on the disk.
*Operations*: `WriteNow`, `ScheduleWrite`, `DoScheduledWrite`, the callback, the five steps
of `WriteFileAtomically` and their failures. *Interaction*: the timer runs in the owner's
loop; writes go to a task runner, whose replies come back. *Hard*: a crash or power loss
between any two steps, a scheduled write overtaken by an immediate one, a timer task that
is reused after `Stop`, a task runner that no longer accepts tasks. *Correct if*: the file
is always complete, never goes back, and each request ends in the file or in a failure.

**D-Bus Bus and ObjectProxy** (`dbus/bus.cc`, `dbus/object_proxy.cc`). *State*: the
connection, the table of proxies, match rules counted per rule, filters, per proxy its
rules, pending calls, waiting callbacks and the known owner of its service. *Operations*:
calls, `ConnectToSignal`, `WaitForServiceToBeAvailable`, `RemoveObjectProxy`, listening for
owner changes, shutdown. *Interaction*: the origin thread posts to the D-Bus thread, which
blocks on the daemon and posts answers back; libdbus holds raw pointers to proxies. *Hard*:
a service that comes and goes between the steps of connecting; rules shared by several
holders; removal and shutdown with requests under way; blocking calls that fail. *Correct
if*: only attached proxies are registered, the known owner is the real one once all signals
are handled, and no call or waiter is forgotten.

### Not modelled in this version

| component | state and operations | what is hard | plan |
|---|---|---|---|
| Thread | start event, message loop pointer, `Start`, `StopSoon`, `Stop` | the loop is published and destroyed by another thread | next |
| WaitableEventWatcher | AsyncWaiter, shared Flag, posted callback | StopWatching against a callback in flight | next |
| AlarmTimer | timerfd, delegate on another thread | a task that outlives its timer | planned |
| CancelableTaskTracker | task ids, cancellation flags | cancel against task and reply | planned |
| ObserverListThreadSafe, ObserverList | lists per thread, notification depth | removal during or before a notification | planned |
| DelegateSimpleThreadPool | queue, manual-reset event | join with work left | planned |
| MessagePumpLibevent | wake-up pipe, watchers | watchers deleted by their own callbacks | planned |
| ExportedObject, ObjectManager, the delivery of D-Bus signals | method tables, managed objects | results against shutdown, signals against owner changes | planned, over `DBus` |
| TraceLog, MemoryDumpManager | buffer chunks, thread-local chunks | chunks out of date after a flush | planned, last |
| Lock, ConditionVariable | wrappers of pthreads | none of their own | part of the models |
| GLib and Cocoa pumps, FilePathWatcher, processes, sandbox, crypto | bindings to external code | depend on code not in the repository | no |
| strings, values, JSON, pickles, numerics, time, metrics | sequential data conversion; deliberately racy statistics | within reach of unit tests | no |

The modelled parts are a small share of the repository by lines: most of it is tables of
system-call numbers, bindings, tests, tracing and sequential utilities, in which there are
no interleavings, failures or protocols for a model checker to explore.

## 2. Modules

| module | models | composed with |
|---|---|---|
| `EventContract` | what a WaitableEvent promises: signals are tokens | the abstract side of a refinement |
| `WaitableEvent` | `waitable_event_posix.cc` | implements `EventContract` |
| `MCWaitableEvent` | instances for TLC | |
| `WaitableEventProofs` | theorems about `WaitableEvent` | |
| `MessageLoop` | loop, queues, pump, RunLoops | uses the pump's event as the token of `EventContract` |
| `SequencedWorkerPool` | the pool | |
| `LazyInstance` | creation on first use, destruction at exit | extended by `WorkerPool` |
| `WorkerPool` | `PosixDynamicThreadPool` | over `LazyInstance` |
| `Timer` | `OneShotTimer` | extended by `ImportantFileWriter` |
| `ImportantFileWriter` | the writer, its file thread, the file system | over `Timer` |
| `DBus` | `Bus` and `ObjectProxy` on their two threads | |
| `MessageLoopProofs` | theorems about waking and quitting | over `MessageLoop` |
| `MessageLoopTaskProofs` | theorems about the loop's tasks | over `MessageLoopProofs` |
| `SequencedWorkerPoolProofs` | the pool's inductive invariant, lemmas about its workers | over `SequencedWorkerPool` |
| `SequencedWorkerPoolTaskProofs` | lemmas about its tasks, the theorems | over `SequencedWorkerPoolProofs` |
| `WorkerPoolProofs`, `ImportantFileWriterProofs`, `DBusProofs` | theorems about the module each is named after | |

**How steps are cut.** In each model a step is what one thread does between two
points at which it can be made to wait for, or be observed by, another thread.
`WaitableEvent` steps at every acquisition of a kernel's or a SyncWaiter's lock and at
the condition variable; releasing is part of the step before it, except at the end of
`Signal`, because the right to delete the event depends on when the signaler lets go.
`MessageLoop` steps once per delegate call (`DoWork`, `DoDelayedWork`, `DoIdleWork`)
and per thing a task does; each touches the shared incoming queue at most once.
`SequencedWorkerPool` steps once per critical section and once per call made outside
it: `PostTask` reads the clock, then takes the lock, then signals or creates a thread,
in three steps. `LazyInstance` steps at every atomic operation, `WorkerPool` at every
critical section. `ImportantFileWriter` steps once per call of the owner, per task of a
loop, and per system call. `DBus` cuts a task of the D-Bus thread before every call that
blocks on the daemon, where the service may change; tasks of the origin thread are one
step each.

**WaitableEvent.** `signaled`, `waiters` and `lock` are the kernels; `fired` and `got`
the SyncWaiters, one per thread since a thread is in one wait at a time; `pc`, `op`,
`waitables`, `todo`, `ret` the calls. `lock` is the holder between steps, so only
`Signal` and `EnqueueMany` are ever seen holding one. A SyncWaiter's lock is held
exactly at `pc = "check"`. Events are numbers, their addresses, because `WaitMany`
sorts by address. `firing` is a history variable. Callers are arbitrary: any idle
thread may make any call. A `Signal` of a signaled event and an `IsSignaled` of an
unsignaled one change nothing and are stuttering steps.

**MessageLoop.** Variables keep the members' names without the trailing underscore.
A RunLoop is named by its depth; `pc[d]` is where the pump of depth `d` is, `task[d]`
what it runs. The closures are arbitrary: while a task runs it may post, quit any
loop, allow nesting, run a nested loop, or return. `recent_time` is modelled, since
`DoDelayedWork` decides by it rather than by the clock. `asked`, `lost`, `inherited` and
`gone` are history variables. A nested loop that is run by a task which has quit its own
loop starts with `keep_running_` false: a debug build stops at the pump's DCHECK, a release
build leaves the nested loop at once, sets the flag again and goes on with the outer one.
The model is of the release build. `asked[d]` says that somebody asked the loop of depth
`d` to end, and nothing takes that back; `inherited` marks the nested loop that started
with the flag of another, `lost` the loops whose QuitNow was forgotten that way (finding
3). Not modelled: task and destruction
observers, `type()` and UI pumps, high-resolution timers, histograms, and the
roll-over of the `int` sequence numbers, which needs 2^31 posts.

**SequencedWorkerPool.** Variables again keep the members' names. `pc[w]` says where
in `ThreadLoop`, `GetWork` or `HandleCleanup` a worker is; `post[a]` is the `PostTask`
an actor is in; `caller` is the one outside thread that calls `FlushForTesting` and
`Shutdown`. Signaling a condition variable wakes any one waiter, and every wait may
end spuriously. Two conditions are on the environment, not in the code, and are operators
of their own. `MayPost`: while a `Shutdown(n)` still admits new blocking tasks, only
`LatePosters` begin to post, which may be running tasks (the header permits it),
destructors of tasks deleted unrun, and foreign threads; once no more are admitted anybody
may post, and is refused. `NoLatePost`: `Shutdown(n)` with `n > 0` is not called while
anybody else has begun to post and is before the lock, since the pool cannot tell that post
from one begun after the call; posts past the lock, and `Shutdown()` itself, are not
restricted. Not modelled: names of tokens (a map from strings to numbers), the testing observer,
`task_time_to_live` histograms, and `RunsTasksOnCurrentThread`, which changes nothing.

**WorkerPool.** A worker is `starting`, `waiting` in `TimedWait`, `woken` (signaled, timed
out or for no reason, but without the lock), `running` or does not exist.
`num_idle_threads` counts the waiting and the woken ones, as in the code. `access[t]` is
where a thread is in `LazyInstance::Pointer`. Tasks are numbered in the order in which
threads begin to post them. As the code demands, tasks of the pool do not post to it
(a worker is a non-joinable thread, for which `AssertSingletonAllowed` fails) and no
thread uses the pool while `AtExitManager` destroys it. A worker that cannot be created
sets `failed`.

**ImportantFileWriter.** The n-th request is about version n of the data, and a serializer
yields the version it was passed for. The timer's times are kept as the time left until
them. A temporary file and the target have contents, of which the disk has its own idea:
the kernel writes contents and names back when it likes, in any order, and a power loss
forgets the rest. Every system call may fail. `lost` is the newest version that failed or
was requested before a crash. The task runner may be closed, after which the owner writes
by itself; with `ClosesBusy = FALSE` it is closed only once it has drained (see the
limits in section 5). The owner calls `DoScheduledWrite` (`Commit`) only with a write
pending, as the header demands ("Serialize data pending to be saved"); the code does not
check it.

**DBus.** All proxies are for one object of one service, so that they share their two match
rules, that for `NameOwnerChanged` and that for the object's signals. `incoming` is what
libdbus has received and not dispatched: a blocking call leaves it there. A request may
fail at once (`CallMethodFails`), for want of a connection, or at the daemon, which may
refuse a rule, fail to remove one, or fail to answer who owns the name. `errors` records the
failures at the daemon and `overtaken` the proxies that asked for the owner while outdated
signals were queued; what is claimed only without them is said with each property, and what
the code then does in section 5. `filtering` is the bus's own filter function.
Requests are made with proxies that are neither removed nor shut down, as the header
demands, and those who listen for owner changes stop before the shutdown. Not modelled:
exported objects, owned names, object managers, watches and time-outs of libdbus (a call
that times out is answered with an error), the callbacks of `ConnectToSignal` and
`SetNameOwnerChangedCallback`, and a bus without a D-Bus thread. The bus is of type SYSTEM
or SESSION: one with a CUSTOM_ADDRESS whose `dbus_bus_register` fails returns false from
`Connect` with `connection_` set, so that the next `Connect` returns true for a connection
the daemon does not know (`bus.cc:432-443`); that state is not in the model.

## 3. What the runs check

Deadlock checking is off in all of them: a program in which every thread is idle, or
waits for a signal nobody is obliged to give, is legitimate, and finite bounds end
every behaviour. That something must happen is stated by the liveness properties.

| run | property | what it says |
|---|---|---|
| `event_safety` | `TypeOK` | the types, and that no call returns or sleeps with a kernel's lock held |
| | `TimedOutWaitAbsorbsNothing` | a TimedWait that returns false took no signal |
| | `NoDanglingWaiter` | a wait list names only live SyncWaiters |
| | `NoSleeperOnSignaledEvent` | no unfired waiter of a signaled event |
| | `SignalCompletesBeforeWaitReturns` | a wait returns after the Signal that fired it has left the event |
| | `AutoResetSignalSpentOnce` | one waiter or the flag, never both, never neither |
| | `NoCircularLockWait` | no cycle of kernel locks between WaitMany calls |
| | `ImplementsContract` | refinement of `EventContract` |
| `event_liveness` | `DueWaitsReturn` | a fired or timed wait returns |
| `loop_safety` | `NoLostWakeup` | a sleeping pump has nothing to do and wakes in time |
| | `EndsWhenAsked` | loops end only when asked, and do not sleep once they were, but for the two cases of finding 3 |
| | `TaskConservation` | each accepted task is in exactly one place |
| | `OrderUnlessDeferred` | the order of `sequenced_task_runner.h`, but for deferred tasks |
| | `StartsAreLegal` | not early, not nested unless nestable, not while forbidden |
| `loop_liveness` | `TasksAreServed`, `QuitEndsLoop` | accepted tasks are started, quits end loops |
| `loop_nested_quit` (violation) | `QuitHasNoBearing` | finding 3 |
| `pool_safety` | `OneTaskPerToken`, `TokenOrder` | one task of a token at a time, in the order posted |
| | `CountersAgree` | the counters count what they are named after |
| | `ShutdownIsFinal`, `NothingNewAfterShutdown` | what Shutdown promises, during and after |
| | `FlushIsComplete` | a flush leaves nothing behind that was there before |
| `pool_liveness` | `ShutdownCompletes`, `FlushReturns` | calls return, workers leave |
| | `PoolDrains` | with delayed tasks and timed waits every task leaves the pool |
| `pool_flush_twice` (violation) | `FlushReturns` | finding 1 |
| `worker_pool` | `InstanceIsBuiltOnce` | created once, seen complete, destroyed at exit |
| | `NobodySleeps` | each pending task has a worker on its way; nobody waits after Terminate |
| | `TasksStart` | a task starts even if no other ends |
| `file_writer` | `FileIsSafe` | a complete version at any crash or power loss; success reported only then |
| | `NeverGoesBack` | no write undoes a newer one |
| | `EveryRequestSettles` | each request ends in the file or in a failure |
| `writer_commit` (violation) | `SerializerIsSet` | finding 2 |
| `dbus` | `OnlyLiveProxiesAreRegistered` | filters, calls and rules belong to attached proxies; without failures at the daemon rules are counted exactly and are there as long as held |
| | `OwnerIsTracked` | the known owner, with the signals still queued, is the real one, without failures at the daemon |
| | `NobodyIsForgotten` | calls that are due an answer have it on its way, and so have waiters without failures at the daemon |

`event_safety`, `loop_safety`, `pool_safety`, `worker_pool`, `file_writer` and `dbus` also
check their module's `TypeOK`. Every property of a passing run
has a mutant in `PROJECT.json`: an operator, defined just before the one it replaces,
that a plausible slip in the code would produce, under which TLC finds the property
violated.

### Bounds, and why they are enough

* *Events*: three threads, one auto-reset event at the lower address and one
  manual-reset event at the higher one. Two waiters competing for one signaler is the
  smallest case in which a signal can be given to the wrong one, and two events the
  smallest for lock order. Calls are not bounded. The threads are symmetric;
  `event_liveness` uses two threads and no symmetry, which would be unsound there.
* *Loop*: `MaxTasks = 3` (a running task, one it is overtaken by, and one posted late),
  `MaxDepth = 2` (a loop and the one it was quit across), `MaxTime = 3`, delays 0 and 1: an immediate task and a delayed one, each of which can be due or
  not. `MaxPasses = 2` stands for the 100 passes of the destructor, so that both ways
  out of its loop occur.
* *Pool*: `MaxThreads = 2`, one outside poster, and `MaxNewBlocking = 1`, so that late
  tasks are both accepted and refused. `pool_safety` has three tasks, token 0 ("none"),
  token 1 and one fresh token a running task may be bound to, no delays and two
  flushes: two tasks of a token and one beside them is the least that can be reordered
  or overlap. `pool_liveness` has two tasks without a token, delays 0 and 1, one clock tick
  and one flush, `pool_flush_twice` two flushes. That tasks of a token stay in order when
  they are delayed is left to the theorem `TokensStartInOrder`.
* *Worker pool*: two threads that race for the first use, four tasks and four workers:
  since every creation is for a task, four tasks never need a fifth. Four are enough for
  a woken worker, a waiting one, one that times out and a running one that snatches a task.
* *File writer*: `Interval = 2`, so that a timer can be reset half-way and its posted task
  run early, and `MaxVersions = 3`: one in the file, one being written, one scheduled.
  Crashes and power losses are not bounded.
* *D-Bus*: two proxies that share their rules, one call, one unique name, three requests
  (connect, remove and connect again; listen, stop and connect) and two changes of the
  owner (gone and back). A removal counts as a request.

What these bounds leave out of the safety properties, the theorems of section 4 cover:
they are about every value of the constants. The bounds matter for the liveness
properties, for the mutants and for the three violations.

### Fairness

*Events*: weak fairness of each thread's own steps (threads are scheduled), strong
fairness where a step needs a mutex that others take and release over and over, and of
`TimeOut`, since the clock passes `end_time` even if the loop goes round before. No call
need ever be made; spurious wake-ups need not happen. *Loop*: weak fairness of the
clock, of the loop thread and of the destructor; strong fairness of a task's return,
because a task may run nested loops in between. *Pool*: strong fairness of every worker,
post and call in progress, since each of their steps needs the one lock; weak fairness
of the clock. The pthread mutex does not promise this by its specification, but the
futex-based implementations the code is built for do not starve a waiter forever once
contention pauses, and no property is meant to hold under a scheduler that does.
*Worker pool*: weak fairness of a thread that posts, and of workers that are new or woken.
No task need end and no idle worker time out: that tasks start must not depend on either.
*File writer*: weak fairness of the clock, of the timer's task in the owner's loop, and of
the file thread. Requests, crashes and the kernel's write-back are free. *D-Bus* has
safety properties only; that the queues `NobodyIsForgotten` speaks of are served is the
business of the message loop and of libdbus.

## 4. What is proved

Every invariant and every action property that a passing run checks, and the refinement
of `EventContract`, is a theorem for all values of the constants. The table names the
theorem for each; `TypeCorrect` states `TypeOK` and `Invariance` the inductive invariant
in each module.

| module | theorem | property |
|---|---|---|
| `WaitableEventProofs` | `NoMissedSignal` | `NoSleeperOnSignaledEvent` |
| | `WaitersExist` | `NoDanglingWaiter` |
| | `DeletionIsSafe` | `SignalCompletesBeforeWaitReturns` |
| | `TimeOutAbsorbsNothing` | `TimedOutWaitAbsorbsNothing` |
| | `SignalSpentOnce` | `AutoResetSignalSpentOnce` |
| | `NoLockCycle` | `NoCircularLockWait` |
| | `Refinement` | `ImplementsContract` |
| `MessageLoopProofs` | `NoWakeupIsLost` | `NoLostWakeup` |
| | `QuitsAreHeeded` | `EndsWhenAsked` |
| `MessageLoopTaskProofs` | `TasksAreConserved` | `TaskConservation` |
| | `LegalStarts` | `StartsAreLegal` |
| | `StartsInOrder` | `OrderUnlessDeferred` |
| `SequencedWorkerPoolTaskProofs` | `TokensExclude` | `OneTaskPerToken` |
| | `CountersAreRight` | `CountersAgree` |
| | `FlushCompletes` | `FlushIsComplete` |
| | `ShutdownReturnsLast` | `ShutdownIsFinal` |
| | `TokensStartInOrder` | `TokenOrder` |
| | `ShutdownStopsThePool` | `NothingNewAfterShutdown` |
| `WorkerPoolProofs` | `BuiltOnce` | `InstanceIsBuiltOnce` |
| | `NoTaskIsStranded` | `NobodySleeps` |
| `ImportantFileWriterProofs` | `NeverCorrupt` | the first part of `FileIsSafe` |
| | `FileStaysSafe` | `FileIsSafe` |
| | `WritesAreOrdered` | `NeverGoesBack` |
| `DBusProofs` | `RegistrationsAreLive` | `OnlyLiveProxiesAreRegistered` |
| | `OwnersAreTracked` | `OwnerIsTracked` |
| | `EverybodyIsTold` | `NobodyIsForgotten` |

**Assumptions.** Each module's named assumptions, which TLC evaluates in its runs, say
that bounds are natural numbers, that sets whose members are counted (workers, posters,
proxies) are finite, and that null values are none of the values they stand beside. Two
groups of theorems have a hypothesis of their own. `FileStaysSafe` and `WritesAreOrdered`
assume `~ClosesBusy`: the task runner refuses tasks only once it has none left. Without it
`NeverGoesBack` is false (section 5); `NeverCorrupt` needs no such hypothesis.
`ShutdownReturnsLast` assumes `OnlyTasksAreLate`: either `Shutdown` admits no new tasks
(`MaxNewBlocking = 0`, the call without an argument), and then whoever likes may try to post;
or, once it was called, only running tasks post. The second is needed because `Shutdown(n)`
counts the tasks it admits and does not ask when they come: a foreign thread's can be
accepted after it has returned.

None of the properties is inductive alone. The inductive invariants were checked with TLC
on the instances of the runs before they were proved; what they add is the following.

**WaitableEvent.** `IInv` adds four facts. `Locks`: a `Signal`
in progress holds the lock of its one event, and `EnqueueMany` still holds every lock
it has taken, whose events are therefore still unsignaled; this is what makes the
one-by-one check of `WaitMany` atomic. `Frames`: what each call's stack frame says at
each point; a waiter that has begun to leave has fired, so a later `Fire` refuses it.
`Lists`: no list holds a thread twice, each entry is a live waiter that has still to
leave that list and was not signaled by that event, and an unfired waiter is in the
list of each of its events, none of them signaled. `Signals`: the waiters a `Signal` has
fired are still in their wait and have still to pass through the lock the `Signal`
holds; this gives `SignalCompletesBeforeWaitReturns`, since the lock must be free for
the waiter to pass. The proof has one lemma per action, over lemmas on what `Append`,
`Tail` and `Dequeue` do to the members of a list.

`NoLockCycle` rests on a second inductive invariant, `LocksInOrder`: the locks a thread has
are of lower events than those it has still to take, and only finitely many threads are in a
call. In a circle of waits
each thread holds the lock another wants, so among the events they want, finitely many,
there is none that is highest. `TypeCorrect` uses both invariants: that a lock is held only
inside `Signal` and `EnqueueMany` needs that the latter has released all it took when it ends.

`Refinement` rests on the same invariant, and on what it says at three points. A `Fire`
that succeeds is the contract's hand-over of a signal, because the waiter it picks is
blocked on that event. A `Signal` that raises the flag finds nobody blocked, because the
list it has emptied or walked held every unfired waiter. The last step of `EnqueueMany`
is the contract's start of a wait, because the locks it holds kept every event it has
passed unsignaled. The steps of a wait that finds an event signaled, of a `Reset` and of a
time-out map to `Take`, `Lower` and `GiveUp` as they stand, and every other step changes
none of `avail`, `waiting` and `got`.

**MessageLoop.** `Nesting` says who runs inside whom. `Scheduling` says that
`message_loop_scheduled_` is set while the incoming queue is not empty, and that a pump
past its last `DoWork` has an empty work queue and, if the flag is set, an event that will
wake it; `DelayedWork` says the same of `delayed_work_time_` and the delayed tasks. Both
speak of pumps that may run tasks, which is why the condition on nestable tasks is in
them. `Quitting` says where a request to quit is kept: for the innermost loop in
`keep_running_` or its `quit_when_idle`, for the outer ones in their own flags, since the
one `keep_running_` is overwritten when a nested loop ends. It does so for the loops in
`Heard`, which were asked to end and are not in `lost`, and says of a cleared
`keep_running_` that the innermost loop is one of these or has inherited it.

`MessageLoopTaskProofs` proves first (`Movement`) that every step moves at most one task, or
one whole queue, from one place to another, and then that the moves keep the task
invariant: the six places partition the numbers given out (`Conserved`), what is further on
was posted before what is behind it (`InOrder`), and no delayed task should have come
before one that was put off (`PutOff`), because `DoDelayedWork` takes the earliest first.

**SequencedWorkerPool.** `Frames` ties what a worker has at hand to where it is. `Creating`
says that `thread_being_created_` is set exactly while one actor is to create a thread or
that thread is on its way: the decision is taken under the lock and carried out after it.
`TaskCounts` and `WorkerCounts` are the meaning of the counters as cardinalities. `Numbered`
carries the order: a call that began after a task was accepted has read the clock after
that task's call, so that the set of pending tasks, ordered by time and number, has the two
in the order of the calls. `Cleaning` says that while the state is `CLEANUP_RUNNING` there is
one worker that is not idle; from it follows that what a flush found in the pool is gone
when the cleanup ends (`Flushing`). `Closed` is what `Shutdown` leaves. Actions either
leave the tasks alone or are one of six that move one; each part of the invariant is proved
over these.

**WorkerPool.** `Building` says that one thread at a time is between the two atomic
operations of the creator. `NobodySleeps` is inductive together with `IdleCount`, which
says that `num_idle_threads_` counts the waiting and the woken workers: a post that
signals because the counter exceeds the pending tasks finds a worker that is really
waiting, and a worker that takes a task meant for another leaves that one on its way.

**ImportantFileWriter.** `Flushed` says that only complete and flushed files are renamed, so
that it does not matter which name the disk knows. `Order` lines up the versions: what is on
the disk, in the file, in the hands of the file thread, in the queue and requested last, each
no newer than the next; and the owner writes by itself only when the task runner has nothing
left. `NewestIsScheduled` is needed for the timer's write to be at the end of that line.

**DBus.** `Queued` says that a proxy a queued task uses is detached by a later task or by the
shutdown, which is last: so at every task its proxy is attached. `Turns` says that the tasks
for listening and for stopping alternate in the queue, so that the bus holds the rule for
owner changes at most once. With these, `Counting` holds: a rule is counted at least as often
as it is held, exactly as often if the daemon has not failed, and is then at the daemon
exactly while somebody holds it. `Told` says that whoever waits has a task under way or
has the rule for owner changes, and in the latter case the last queued signal names the
owner if there is one. `OwnerIsTracked` is inductive with the rest.

**Only model-checked.** Liveness under fairness is outside the reach of the prover:
`DueWaitsReturn`, `TasksAreServed`, `QuitEndsLoop`, `ShutdownCompletes`, `FlushReturns`,
`PoolDrains`, `TasksStart` and `EveryRequestSettles` stay with TLC, on the instances of
section 3. So do the three violations, which are facts about one behaviour. The refinement
theorem is about `EventContract`'s safety part, which is all that module states.

## 5. Findings

1. *A second flush may hang* (`pool_flush_twice`). A worker still in the last stage of one
   cleanup when the next one starts returns to wait for work without joining it, and
   the next cleanup waits for it for ever. `FlushForTesting` is for tests, and a single
   flush returns (`pool_liveness`).
2. *A timer without a serializer* (`writer_commit`). An owner that commits a pending write
   by calling `DoScheduledWrite`, whose serialization fails, leaves the timer running
   while the serializer is cleared; the timer then uses a null pointer.
3. *A quit that ends the wrong loop* (`loop_nested_quit`). `QuitNow` clears the pump's one
   `keep_running_`. A task that has called it and then runs a nested loop gives the flag to
   that loop: the nested loop, which nobody asked to end, ends at once, and the outer one,
   which was asked to, goes on. `run_loop.h` says of two nested RunLoops that quitting one
   has no bearing on the other; the pump has only a DCHECK, which a release build leaves out.

Limits met while modelling, which the properties state or excuse:

* Tasks that destructors post while `~MessageLoop` deletes the queues are deleted in up to
  100 passes; what is posted in the last of them, or by another thread after the last
  reload, stays in the incoming queue, which outlives the loop as long as somebody has its
  task runner. `TaskConservation` counts it as being there.
* A non-nestable task met in a nested loop waits in the deferred queue, which is served
  only when the work queue is empty; a later one may overtake it. `OrderUnlessDeferred`
  has that exception.
* The header lets running tasks post to a `SequencedWorkerPool` after `Shutdown` was called.
  A destructor of a deleted task may too, and its task may then find no worker left:
  `LatePosters` leaves destructors out of the runs.
* A task runner that refuses a write while older ones are still in its queue, as a
  `SequencedWorkerPool` may after `Shutdown`, lets those overwrite the newer one that the
  owner then makes itself: with `ClosesBusy = TRUE`, `NeverGoesBack` fails. The runs
  assume a runner that has drained.
* `Bus::AddMatch` counts a rule even if the daemon refused it. Nobody removes it then, and
  the next one to add the rule is told that it is there. If it was for a listener, the bus
  also keeps its filter function, since `Unlisten` finds no entry. So the DCHECKs of `~Bus`
  that no rule and no filter is left fail. A rule whose removal fails stays at the daemon
  but is no longer counted. `errors` excuses all this.
* If `GetNameOwner` fails, the service passes for absent (`object_proxy.cc:655`) and a waiter
  waits for a `NameOwnerChanged` that does not come as long as the service runs on, although
  `object_proxy.h` promises the callback "as soon as the service becomes available".
  `NobodyIsForgotten` speaks of waiters only without `errors`.
* A proxy that connects while a `NameOwnerChanged` from before the rule was dropped is still
  queued learns the owner from the daemon and then unlearns it from the outdated signal;
  it rejects the service's signals until the next change. `overtaken` excuses it.
* `WaitForTask` does not look at `terminated_` again after its wait: a worker woken before
  `Terminate` still takes a task after it, although the header says that `Terminate` "stops
  handing out tasks".
* A worker that `CreateNonJoinable` fails to create is not missed by `AddTask`; its task
  waits for another worker. `failed` excuses it.

## 6. Plan

1. `Thread` over `MessageLoop` (start event, stop, join), `WaitableEventWatcher` over
   `WaitableEvent` and a loop, `CancelableTaskTracker` over the relay.
2. The delivery of signals and `ExportedObject` in `DBus`; `ObserverListThreadSafe`;
   `MessagePumpLibevent`.
3. Proofs: the safety properties of the runs are proved. Left are abstract specifications
   of the other components, to be refined as `EventContract` is: the pool as an ordered set
   of tasks per token with a barrier at `Shutdown`, the file as a register that keeps the
   newest version written, the first use of an object as a single atomic step.
4. The project keeps to about a dozen runs: a new component takes the place of a run whose
   question a theorem has answered.
