---------------------- MODULE ImportantFileWriterProofs ----------------------
(***************************************************************************)
(* Theorems about ImportantFileWriter, for any commit interval and any     *)
(* number of requests, crashes and power losses.  They follow from the     *)
(* inductive invariant IInv.  What depends on the order of the writes is   *)
(* proved of a task runner that refuses tasks only once it has nothing     *)
(* left to do, as a thread does whose loop has ended.                      *)
(***************************************************************************)
EXTENDS ImportantFileWriter, TLAPS

------------------------------------------------------------------------------
(* The inductive invariant *)

Busy(a) == pc[a] # "idle"

\* Only a complete and flushed file is renamed, so that what a reader of path_ sees is
\* on the disk, whichever name the disk knows.
Flushed ==
  /\ target.data \in Versions /\ target.disk = target.data /\ disk \in Versions
  /\ \A a \in Actors : pc[a] = "rename" => tmp[a] = [data |-> job[a].version, disk |-> job[a].version]

\* While the timer runs serializer_ is the newest: a write made at once stops it.
NewestIsScheduled == is_running /\ serializer # Null => serializer = latest

\* From the disk to the request made last, everything on its way is in order, and the
\* owner writes the file itself only when nobody else does.
Order ==
  /\ disk <= target.data /\ target.data <= latest
  /\ \A i \in 1..Len(queue) : target.data <= queue[i].version /\ queue[i].version <= latest
  /\ \A i, j \in 1..Len(queue) : i <= j => queue[i].version <= queue[j].version
  /\ \A a \in Actors : Busy(a) => target.data <= job[a].version /\ job[a].version <= latest
  /\ Busy("file") => \A i \in 1..Len(queue) : job["file"].version <= queue[i].version
  /\ Busy("owner") => ~accepting
  /\ ~accepting => queue = <<>> /\ ~Busy("file")
  /\ \A i \in 1..Len(replies) : replies[i].result => target.data >= replies[i].version

IInv ==
  /\ TypeOK /\ Flushed /\ NewestIsScheduled
  /\ ~ClosesBusy => Order

------------------------------------------------------------------------------
(* Types *)

\* The types of what the file thread and the owner write with.
ThreadType ==
  /\ pc \in [Actors -> {"idle", "create", "open", "write", "flush", "rename"}]
  /\ job \in [Actors -> Job]
  /\ tmp \in [Actors -> File]

\* Handing over a version puts it in the queue or into the owner's hands.
LEMMA PostWriteTaskType ==
  ASSUME TypeOK, NEW v \in Versions, PostWriteTask(v)
  PROVE  queue' \in Seq(Job) /\ ThreadType'
<1>1. "owner" \in Actors
  BY DEF Actors
<1>2. \A b \in BOOLEAN : [version |-> v, reply |-> b] \in Job
  BY DEF Job
<1>3. CASE accepting
  <2>1. [version |-> v, reply |-> callback] \in Job
    BY <1>2 DEF TypeOK
  <2> QED
    BY <1>3, <2>1 DEF TypeOK, PostWriteTask, threadVars, ThreadType
<1>4. CASE ~accepting
  <2>1. queue' \in Seq(Job) /\ tmp' \in [Actors -> File]
    BY <1>4 DEF TypeOK, PostWriteTask
  <2>2. job' \in [Actors -> Job]
    BY <1>1, <1>2, <1>4 DEF TypeOK, PostWriteTask
  <2>3. pc' \in [Actors -> {"idle", "create", "open", "write", "flush", "rename"}]
    BY <1>1, <1>4 DEF TypeOK, PostWriteTask
  <2> QED
    BY <2>1, <2>2, <2>3 DEF ThreadType
<1> QED
  BY <1>3, <1>4

\* A version that was lost is a version.
LEMMA LoseType ==
  ASSUME TypeOK, NEW v \in Versions, Lose(v)
  PROVE  lost' \in Versions
BY DEF TypeOK, Lose

\* What a write leaves when it returns.
LEMMA ReturnsType ==
  ASSUME TypeOK, NEW a \in Actors, NEW result \in BOOLEAN, Returns(a, result)
  PROVE  /\ pc' \in [Actors -> {"idle", "create", "open", "write", "flush", "rename"}]
         /\ job' \in [Actors -> Job] /\ replies' \in Seq(Reply) /\ lost' \in Versions
<1>1. NoJob \in Job
  BY WriterAssumption DEF NoJob, Job, Versions
<1>2. job[a].version \in Versions
  BY DEF TypeOK, Job
<1>3. [version |-> job[a].version, result |-> result] \in Reply
  BY <1>2 DEF Reply
<1>4. replies' \in Seq(Reply)
  BY <1>3 DEF TypeOK, Returns
<1>5. lost' \in Versions
  BY <1>2, LoseType DEF TypeOK, Returns
<1>6. /\ pc' \in [Actors -> {"idle", "create", "open", "write", "flush", "rename"}]
      /\ job' \in [Actors -> Job]
  BY <1>1 DEF TypeOK, Returns, Goes
<1> QED
  BY <1>4, <1>5, <1>6

\* The timer keeps its types, whichever of its operations is called.
LEMMA TimerType ==
  ASSUME TimerTypeOK, Stop \/ Reset(Interval) \/ RunTooEarly \/ TimePasses \/ UNCHANGED timerVars
  PROVE  TimerTypeOK'
<1> USE DEF TimerTypeOK
<1>1. CASE Stop \/ UNCHANGED timerVars
  BY <1>1 DEF Stop, timerVars
<1>2. CASE Reset(Interval)
  <2>1. is_running' \in BOOLEAN /\ scheduled_task' \in BOOLEAN
    BY <1>2 DEF Reset, PostNewScheduledTask
  <2>2. scheduled_run_time' \in Nat /\ desired_run_time' \in Nat
    BY <1>2, WriterAssumption DEF Reset, PostNewScheduledTask
  <2> QED
    BY <2>1, <2>2
<1>3. CASE RunTooEarly
  <2>1. is_running' \in BOOLEAN /\ scheduled_task' \in BOOLEAN
    BY <1>3 DEF RunTooEarly, PostNewScheduledTask
  <2>2. scheduled_run_time' \in Nat /\ desired_run_time' \in Nat
    BY <1>3 DEF RunTooEarly, PostNewScheduledTask
  <2> QED
    BY <2>1, <2>2
<1>4. CASE TimePasses
  BY <1>4 DEF TimePasses
<1> QED
  BY <1>1, <1>2, <1>3, <1>4

\* Each operation of the owner keeps the types.
LEMMA OwnerType ==
  ASSUME TypeOK,
         \/ WriteNow \/ ScheduleWrite \/ CommitPendingWrite \/ DoScheduledWrite
         \/ RegisterOnNextSuccessfulWriteCallback \/ RunScheduledTaskEarly \/ RunReply
         \/ Destroy \/ Tick
  PROVE  TypeOK'
<1>1. CASE WriteNow
  <2>1. latest' \in Versions /\ PostWriteTask(latest')
    BY <1>1, WriterAssumption DEF TypeOK, WriteNow, Versions
  <2>2. queue' \in Seq(Job) /\ ThreadType'
    BY <2>1, PostWriteTaskType
  <2>3. TimerTypeOK'
    BY <1>1, TimerType DEF WriteNow, StopsTimer, TypeOK
  <2> QED
    BY <1>1, <2>1, <2>2, <2>3 DEF TypeOK, ThreadType, WriteNow, writerVars, fileVars
<1>2. CASE ScheduleWrite
  <2>1. latest' \in Versions /\ serializer' \in Versions
    BY <1>2, WriterAssumption DEF TypeOK, ScheduleWrite, Versions
  <2>2. TimerTypeOK'
    BY <1>2, TimerType DEF ScheduleWrite, TypeOK
  <2> QED
    BY <1>2, <2>1, <2>2 DEF TypeOK, ScheduleWrite, runnerVars, threadVars, fileVars
<1>3. CASE CommitPendingWrite
  <2>1. serializer \in Versions /\ serializer' = Null
    BY <1>3 DEF TypeOK, CommitPendingWrite
  <2>2. TimerTypeOK'
    BY <1>3, TimerType DEF CommitPendingWrite, StopsTimer, TypeOK
  <2>3. queue' \in Seq(Job) /\ ThreadType'
    BY <1>3, <2>1, PostWriteTaskType DEF CommitPendingWrite, SerializedData, threadVars, ThreadType, TypeOK
  <2>4. lost' \in Versions
    BY <1>3, <2>1, LoseType DEF CommitPendingWrite, SerializedData, TypeOK
  <2> QED
    BY <1>3, <2>1, <2>2, <2>3, <2>4 DEF TypeOK, ThreadType, CommitPendingWrite, fileVars
<1>4. CASE DoScheduledWrite
  <2>1. serializer \in Versions /\ serializer' = Null
    BY <1>4 DEF TypeOK, DoScheduledWrite
  <2>2. TimerTypeOK'
    BY <1>4 DEF DoScheduledWrite, TypeOK, TimerTypeOK
  <2>3. queue' \in Seq(Job) /\ ThreadType'
    BY <1>4, <2>1, PostWriteTaskType DEF DoScheduledWrite, SerializedData, threadVars, ThreadType, TypeOK
  <2>4. lost' \in Versions
    BY <1>4, <2>1, LoseType DEF DoScheduledWrite, SerializedData, TypeOK
  <2> QED
    BY <1>4, <2>1, <2>2, <2>3, <2>4 DEF TypeOK, ThreadType, DoScheduledWrite, fileVars
<1>5. CASE RegisterOnNextSuccessfulWriteCallback
  BY <1>5, TimerType DEF RegisterOnNextSuccessfulWriteCallback, TypeOK, runnerVars, threadVars, fileVars
<1>6. CASE RunScheduledTaskEarly
  BY <1>6, TimerType DEF RunScheduledTaskEarly, TypeOK, writerVars, runnerVars, threadVars, fileVars
<1>7. CASE RunReply
  <2>1. replies' \in Seq(Reply)
    BY <1>7 DEF RunReply, TypeOK
  <2>2. callback' \in BOOLEAN
    BY <1>7 DEF RunReply
  <2> QED
    BY <1>7, <2>1, <2>2, TimerType DEF RunReply, TypeOK, threadVars, fileVars
<1>8. CASE Destroy
  BY <1>8 DEF Destroy, TypeOK, TimerTypeOK, runnerVars, threadVars, fileVars
<1>9. CASE Tick
  BY <1>9, TimerType DEF Tick, TypeOK, writerVars, runnerVars, threadVars, fileVars
<1> QED
  BY <1>1, <1>2, <1>3, <1>4, <1>5, <1>6, <1>7, <1>8, <1>9

\* Each step of the task runner keeps the types.
LEMMA RunnerType ==
  ASSUME TypeOK, Close \/ TakeTask
  PROVE  TypeOK'
<1>1. CASE Close
  BY <1>1, TimerType DEF Close, TypeOK, writerVars, threadVars, fileVars
<1>2. CASE TakeTask
  <2>1. queue' \in Seq(Job) /\ Head(queue) \in Job /\ "file" \in Actors
    BY <1>2 DEF TakeTask, TypeOK, Actors
  <2>2. job' \in [Actors -> Job]
    BY <1>2, <2>1 DEF TakeTask, TypeOK
  <2>3. pc' \in [Actors -> {"idle", "create", "open", "write", "flush", "rename"}]
    BY <1>2, <2>1 DEF TakeTask, TypeOK
  <2> QED
    BY <1>2, <2>1, <2>2, <2>3, TimerType DEF TakeTask, TypeOK, writerVars, fileVars
<1> QED
  BY <1>1, <1>2

\* Each step of WriteFileAtomically, and the kernel's write-back, keeps the types.
LEMMA WriteType ==
  ASSUME TypeOK, NEW a \in Actors, WriteFileAtomically(a) \/ WriteBack(a)
  PROVE  TypeOK'
<1> DEFINE PcType == pc \in [Actors -> {"idle", "create", "open", "write", "flush", "rename"}]
           ReturnType == /\ PcType' /\ job' \in [Actors -> Job]
                         /\ replies' \in Seq(Reply) /\ lost' \in Versions
<1>1. NoFile \in File /\ job[a].version \in Contents /\ tmp[a] \in File
  BY DEF TypeOK, NoFile, File, Contents, Job
<1>2. ASSUME NEW where \in {"open", "write", "flush", "rename"}, Goes(a, where),
             UNCHANGED <<job, replies, lost>>
      PROVE  ReturnType
  BY <1>2 DEF Goes, TypeOK
<1>3. ASSUME NEW result \in BOOLEAN, Returns(a, result)
      PROVE  ReturnType
  BY <1>3, ReturnsType
<1>4. CASE Create(a)
  <2>1. ReturnType
    BY <1>2, <1>3, <1>4 DEF Create
  <2>2. tmp' \in [Actors -> File]
    BY <1>1, <1>4 DEF Create, TypeOK
  <2> QED
    BY <1>4, <2>1, <2>2, TimerType DEF Create, TypeOK, writerVars, fileVars
<1>5. CASE Open(a)
  <2>1. ReturnType
    BY <1>2, <1>3, <1>5 DEF Open
  <2> QED
    BY <1>5, <2>1, TimerType DEF Open, TypeOK, writerVars, fileVars
<1>6. CASE Write(a)
  <2>1. ReturnType
    BY <1>2, <1>6 DEF Write, runnerVars
  <2>2. PICK written \in Contents : tmp' = [tmp EXCEPT ![a].data = written]
    BY <1>1, <1>6 DEF Write, Contents
  <2>3. tmp' \in [Actors -> File]
    BY <1>1, <2>2 DEF TypeOK, File
  <2> QED
    BY <1>6, <2>1, <2>3, TimerType DEF Write, TypeOK, writerVars, runnerVars, fileVars
<1>7. CASE Flush(a)
  <2>1. ReturnType
    BY <1>2, <1>3, <1>7 DEF Flush
  <2>2. tmp' \in [Actors -> File]
    <3>1. PICK flushed \in BOOLEAN :
            \/ tmp' = [tmp EXCEPT ![a].disk = IF flushed THEN tmp[a].data ELSE @]
            \/ tmp' = [tmp EXCEPT ![a] = NoFile]
      BY <1>7 DEF Flush
    <3>2. tmp[a].data \in Contents /\ tmp[a].disk \in Contents
      BY <1>1 DEF File
    <3> QED
      BY <1>1, <3>1, <3>2 DEF TypeOK, File
  <2> QED
    BY <1>7, <2>1, <2>2, TimerType DEF Flush, TypeOK, writerVars, fileVars
<1>8. CASE Rename(a)
  <2>1. ReturnType
    BY <1>3, <1>8 DEF Rename
  <2>2. tmp' \in [Actors -> File] /\ target' \in File
    BY <1>1, <1>8 DEF Rename, TypeOK
  <2> QED
    BY <1>8, <2>1, <2>2, TimerType DEF Rename, TypeOK, writerVars
<1>9. CASE WriteBack(a)
  <2>1. tmp' \in [Actors -> File]
    BY <1>1, <1>9 DEF WriteBack, TypeOK, File
  <2> QED
    BY <1>9, <2>1, TimerType DEF WriteBack, TypeOK, writerVars, runnerVars, fileVars
<1> QED
  BY <1>4, <1>5, <1>6, <1>7, <1>8, <1>9 DEF WriteFileAtomically

\* A new process has nothing on its way.
LEMMA RestartFacts ==
  ASSUME TypeOK, Restart
  PROVE  /\ TimerTypeOK' /\ is_running' = FALSE /\ serializer' = Null
         /\ callback' \in BOOLEAN /\ exists' \in BOOLEAN /\ accepting' = TRUE
         /\ queue' = <<>> /\ replies' = <<>> /\ ThreadType'
         /\ \A a \in Actors : pc'[a] = "idle"
         /\ latest' = latest /\ lost' \in Versions
<1>1. NoJob \in Job /\ NoFile \in File
  BY WriterAssumption DEF NoJob, Job, Versions, NoFile, File, Contents
<1>2. TimerTypeOK' /\ is_running' = FALSE
  <2>1. is_running' = FALSE /\ is_running' \in BOOLEAN /\ scheduled_task' \in BOOLEAN
    BY DEF Restart
  <2>2. scheduled_run_time' \in Nat /\ desired_run_time' \in Nat
    BY DEF Restart
  <2> QED
    BY <2>1, <2>2 DEF TimerTypeOK
<1>3. ThreadType' /\ \A a \in Actors : pc'[a] = "idle"
  BY <1>1 DEF Restart, ThreadType
<1>4. callback' \in BOOLEAN /\ exists' \in BOOLEAN /\ accepting' = TRUE
  BY DEF Restart
<1> QED
  BY <1>2, <1>3, <1>4 DEF Restart, TypeOK

\* A crash, a power loss and a name that reaches the disk keep the types.
LEMMA CrashType ==
  ASSUME TypeOK, CommitName \/ Crash \/ NullSerializerCrash \/ PowerLoss
  PROVE  TypeOK'
<1>1. CASE CommitName
  <2>1. disk' \in Contents
    BY <1>1 DEF CommitName, TypeOK, File
  <2> QED
    BY <1>1, <2>1, TimerType DEF CommitName, TypeOK, writerVars, runnerVars, threadVars
<1>2. ASSUME Restart, target' \in File, disk' \in Contents
      PROVE  TypeOK'
  <2>1. queue' \in Seq(Job) /\ replies' \in Seq(Reply)
    BY <1>2, RestartFacts
  <2>2. accepting' \in BOOLEAN /\ serializer' \in Versions \union {Null}
    BY <1>2, RestartFacts
  <2> QED
    BY <1>2, <2>1, <2>2, RestartFacts DEF TypeOK, ThreadType
<1>3. CASE Crash \/ NullSerializerCrash
  <2>1. target' \in File /\ disk' \in Contents /\ Restart
    BY <1>3 DEF Crash, NullSerializerCrash, fileVars, TypeOK
  <2> QED
    BY <1>2, <2>1
<1>4. CASE PowerLoss
  <2>1. target' \in File /\ disk' \in Contents /\ Restart
    BY <1>4 DEF PowerLoss, TypeOK, File
  <2> QED
    BY <1>2, <2>1
<1> QED
  BY <1>1, <1>3, <1>4

\* Every step keeps the types.
LEMMA TypeStep == TypeOK /\ [Next]_vars => TypeOK'
<1> SUFFICES ASSUME TypeOK, [Next]_vars PROVE TypeOK'
  OBVIOUS
<1>1. CASE UNCHANGED vars
  BY <1>1 DEF vars, TypeOK, TimerTypeOK, timerVars, writerVars, runnerVars, threadVars, fileVars
<1> QED
  BY <1>1, OwnerType, RunnerType, WriteType, CrashType DEF Next

------------------------------------------------------------------------------
(* What is renamed is complete *)

\* Every step keeps Flushed, whatever the task runner does.
LEMMA FlushedStep == TypeOK /\ Flushed /\ [Next]_vars => Flushed'
<1> SUFFICES ASSUME TypeOK, Flushed, [Next]_vars PROVE Flushed'
  OBVIOUS
<1> DEFINE Saved(a) == pc[a] = "rename" => tmp[a] = [data |-> job[a].version, disk |-> job[a].version]
<1>1. ASSUME UNCHANGED <<pc, job, tmp, target, disk>>
      PROVE  Flushed'
  BY <1>1 DEF Flushed
<1>2. ASSUME NEW v, PostWriteTask(v), UNCHANGED fileVars, OwnerIsFree
      PROVE  Flushed'
  <2>1. ASSUME NEW a \in Actors PROVE Saved(a)'
    BY <1>2 DEF PostWriteTask, threadVars, Flushed, TypeOK, Actors
  <2> QED
    BY <1>2, <2>1 DEF Flushed, fileVars
<1>3. CASE \/ UNCHANGED vars \/ ScheduleWrite \/ RegisterOnNextSuccessfulWriteCallback
           \/ RunScheduledTaskEarly \/ RunReply \/ Destroy \/ Tick \/ Close
  BY <1>1, <1>3 DEF vars, ScheduleWrite, RegisterOnNextSuccessfulWriteCallback, RunScheduledTaskEarly,
                    RunReply, Destroy, Tick, Close, threadVars, fileVars
<1>4. CASE WriteNow \/ CommitPendingWrite \/ DoScheduledWrite
  BY <1>1, <1>2, <1>4 DEF WriteNow, CommitPendingWrite, DoScheduledWrite, threadVars, fileVars
<1>5. CASE TakeTask
  BY <1>5 DEF TakeTask, fileVars, Flushed, TypeOK, Actors
<1>6. ASSUME NEW a \in Actors, WriteFileAtomically(a) \/ WriteBack(a)
      PROVE  Flushed'
  <2>1. ASSUME NEW b \in Actors, b # a
        PROVE  UNCHANGED <<pc[b], job[b], tmp[b]>>
    BY <1>6, <2>1 DEF WriteFileAtomically, WriteBack, Create, Open, Write, Flush, Rename, Goes,
                      Returns, TypeOK, runnerVars
  <2>2. ASSUME Saved(a)', UNCHANGED fileVars
        PROVE  Flushed'
    BY <2>1, <2>2 DEF Flushed, fileVars
  <2>3. tmp[a] \in File /\ pc[a] \in {"idle", "create", "open", "write", "flush", "rename"}
    BY DEF TypeOK
  <2>4. CASE Create(a) \/ Open(a) \/ Write(a)
    <3>1. pc'[a] # "rename" /\ UNCHANGED fileVars
      BY <2>4 DEF Create, Open, Write, Goes, Returns, TypeOK
    <3> QED
      BY <2>2, <3>1
  <2>5. CASE Flush(a)
    <3>1. CASE pc'[a] # "rename"
      BY <2>2, <2>5, <3>1 DEF Flush
    <3>2. CASE pc'[a] = "rename"
      <4>1. PICK flushed \in BOOLEAN :
              /\ MayRename(a, flushed)
              /\ tmp' = [tmp EXCEPT ![a].disk = IF flushed THEN tmp[a].data ELSE @]
              /\ UNCHANGED job
        BY <2>5, <3>2 DEF Flush, Returns, Goes, TypeOK
      <4>2. tmp'[a].data = job[a].version /\ tmp'[a].disk = job[a].version /\ tmp'[a] \in File
        BY <2>3, <4>1 DEF MayRename, TypeOK, File
      <4>3. Saved(a)'
        BY <4>1, <4>2 DEF File
      <4> QED
        BY <2>2, <2>5, <4>3 DEF Flush
    <3> QED
      BY <3>1, <3>2
  <2>6. CASE Rename(a)
    <3>1. tmp[a] = [data |-> job[a].version, disk |-> job[a].version] /\ job[a].version \in Versions
      BY <2>6 DEF Rename, At, Flushed, TypeOK, Job
    <3>2. /\ target' \in {target, tmp[a]} /\ UNCHANGED disk
          /\ pc'[a] = "idle"
      BY <2>6 DEF Rename, Returns, Goes, TypeOK
    <3>3. target'.data \in Versions /\ target'.disk = target'.data
      BY <3>1, <3>2 DEF Flushed
    <3> QED
      BY <2>1, <3>2, <3>3 DEF Flushed
  <2>7. CASE WriteBack(a)
    <3>1. tmp' = [tmp EXCEPT ![a].disk = tmp[a].data] /\ UNCHANGED <<pc, job, target, disk>>
          /\ tmp[a].disk # tmp[a].data
      BY <2>7 DEF WriteBack, fileVars
    <3>2. pc[a] # "rename"
      <4>1. pc[a] = "rename" => tmp[a] = [data |-> job[a].version, disk |-> job[a].version]
        BY DEF Flushed
      <4>2. ASSUME tmp[a] = [data |-> job[a].version, disk |-> job[a].version]
            PROVE  tmp[a].disk = tmp[a].data
        BY <4>2
      <4> QED
        BY <3>1, <4>1, <4>2
    <3>3. Saved(a)'
      BY <3>1, <3>2
    <3> QED
      BY <2>2, <3>1, <3>3 DEF fileVars
  <2> QED
    BY <1>6, <2>4, <2>5, <2>6, <2>7 DEF WriteFileAtomically
<1>7. CASE CommitName
  BY <1>7 DEF CommitName, threadVars, Flushed
<1>8. CASE Crash \/ NullSerializerCrash \/ PowerLoss
  <2>1. Restart /\ disk' = disk /\ (UNCHANGED target \/ target' = [data |-> disk, disk |-> disk])
    BY <1>8 DEF Crash, NullSerializerCrash, PowerLoss, fileVars
  <2> QED
    BY <2>1, RestartFacts DEF Flushed
<1> QED
  BY <1>3, <1>4, <1>5, <1>6, <1>7, <1>8 DEF Next

------------------------------------------------------------------------------
(* The pending write is the newest request *)

\* Every step keeps NewestIsScheduled.
LEMMA NewestStep == TypeOK /\ NewestIsScheduled /\ [Next]_vars => NewestIsScheduled'
<1> SUFFICES ASSUME TypeOK, NewestIsScheduled, [Next]_vars PROVE NewestIsScheduled'
  OBVIOUS
<1> USE DEF NewestIsScheduled
<1>1. CASE UNCHANGED vars
  BY <1>1 DEF vars, timerVars, writerVars
<1>2. CASE WriteNow
  <2>1. ~is_running'
    BY <1>2 DEF WriteNow, StopsTimer, HasPendingWrite, Stop, timerVars
  <2> QED
    BY <2>1
<1>3. CASE ScheduleWrite
  BY <1>3 DEF ScheduleWrite
<1>4. CASE CommitPendingWrite \/ DoScheduledWrite
  BY <1>4 DEF CommitPendingWrite, DoScheduledWrite
<1>5. CASE RunScheduledTaskEarly
  <2>1. UNCHANGED <<is_running, serializer, latest>>
    <3>1. UNCHANGED <<serializer, latest>>
      BY <1>5 DEF RunScheduledTaskEarly, writerVars
    <3>2. CASE is_running
      BY <1>5, <3>1, <3>2 DEF RunScheduledTaskEarly, RunTooEarly, PostNewScheduledTask, TypeOK, TimerTypeOK
    <3>3. CASE ~is_running
      BY <1>5, <3>1, <3>3 DEF RunScheduledTaskEarly, RunTooEarly
    <3> QED
      BY <3>2, <3>3
  <2> QED
    BY <2>1
<1>6. CASE RegisterOnNextSuccessfulWriteCallback \/ RunReply \/ Destroy \/ Tick \/ Close \/ TakeTask \/ CommitName
  BY <1>6 DEF RegisterOnNextSuccessfulWriteCallback, RunReply, Destroy, Tick, TimePasses, Close,
              TakeTask, CommitName, timerVars, writerVars
<1>7. CASE \E a \in Actors : WriteFileAtomically(a) \/ WriteBack(a)
  BY <1>7 DEF WriteFileAtomically, WriteBack, Create, Open, Write, Flush, Rename, timerVars, writerVars
<1>8. CASE Crash \/ NullSerializerCrash \/ PowerLoss
  BY <1>8, RestartFacts DEF Crash, NullSerializerCrash, PowerLoss
<1> QED
  BY <1>1, <1>2, <1>3, <1>4, <1>5, <1>6, <1>7, <1>8 DEF Next

------------------------------------------------------------------------------
(* The order of the writes *)

\* The versions that the order is about are numbers.
LEMMA VersionTypes ==
  ASSUME TypeOK
  PROVE  /\ target.data \in Int /\ disk \in Int /\ latest \in Nat
         /\ \A i \in 1..Len(queue) : queue[i].version \in Nat
         /\ \A a \in Actors : job[a].version \in Nat
<1>1. target.data \in Int /\ disk \in Int /\ latest \in Nat
  BY DEF TypeOK, Versions, File, Contents, Partial
<1>2. \A i \in 1..Len(queue) : queue[i] \in Job
  BY DEF TypeOK
<1>3. \A j \in Job : j.version \in Nat
  BY DEF Job, Versions
<1> QED
  BY <1>1, <1>2, <1>3 DEF TypeOK

\* Handing over the newest version keeps the order: in the queue it comes last, and the
\* owner gets it only when the task runner has nothing left.
LEMMA PostWriteTaskOrder ==
  ASSUME TypeOK, Order, OwnerIsFree, PostWriteTask(latest'), latest' \in Versions, latest' >= latest,
         UNCHANGED <<accepting, replies, target, disk>>
  PROVE  Order'
<1> DEFINE new == latest'
<1>0. /\ target.data \in Int /\ disk \in Int /\ latest \in Nat /\ new \in Nat
      /\ \A i \in 1..Len(queue) : queue[i].version \in Nat
      /\ target.data <= new
  BY VersionTypes DEF Order, Versions
<1> DEFINE q == [version |-> new, reply |-> callback]
<1>1. CASE accepting
  <2>1. queue' = Append(queue, q) /\ UNCHANGED <<pc, job>> /\ q.version = new /\ Len(queue) \in Nat
    BY <1>1 DEF PostWriteTask, threadVars, TypeOK
  <2>2. /\ Len(queue') = Len(queue) + 1 /\ queue'[Len(queue) + 1] = q
        /\ \A i \in 1..Len(queue) : queue'[i] = queue[i]
    BY <2>1 DEF TypeOK
  <2>3. \A i \in 1..Len(queue') : i \in 1..Len(queue) \/ i = Len(queue) + 1
    BY <2>1, <2>2
  <2>4. \A i \in 1..Len(queue') : target.data <= queue'[i].version /\ queue'[i].version <= new
    BY <1>0, <2>1, <2>2, <2>3 DEF Order
  <2>5. \A i, j \in 1..Len(queue') : i <= j => queue'[i].version <= queue'[j].version
    BY <1>0, <2>1, <2>2, <2>3, <2>4 DEF Order
  <2>6. Busy("file") => \A i \in 1..Len(queue') : job["file"].version <= queue'[i].version
    <3>1. job["file"].version \in Nat /\ (Busy("file") => job["file"].version <= new)
      BY <1>0 DEF TypeOK, Job, Actors, Order, Versions
    <3> QED
      BY <2>1, <2>2, <2>3, <3>1 DEF Order
  <2>7. \A a \in Actors : Busy(a) => target.data <= job[a].version /\ job[a].version <= new
    BY <1>0 DEF Order, TypeOK, Job, Versions
  <2> QED
    BY <1>0, <1>1, <2>1, <2>4, <2>5, <2>6, <2>7 DEF Order, Busy
<1>2. CASE ~accepting
  <2>1. /\ pc' = [pc EXCEPT !["owner"] = "create"] /\ UNCHANGED queue
        /\ job' = [job EXCEPT !["owner"] = [version |-> new, reply |-> FALSE]]
        /\ queue = <<>> /\ Len(queue) = 0 /\ ~Busy("file")
    BY <1>2 DEF PostWriteTask, Order
  <2>2. job'["owner"].version = new /\ pc'["owner"] = "create" /\ UNCHANGED <<pc["file"], job["file"]>>
    BY <2>1 DEF TypeOK, Actors
  <2> QED
    BY <1>0, <1>2, <2>1, <2>2 DEF Order, Busy, Actors
<1> QED
  BY <1>1, <1>2

\* Each operation of the owner keeps the order.
LEMMA OwnerOrder ==
  ASSUME TypeOK, NewestIsScheduled, Order,
         \/ WriteNow \/ ScheduleWrite \/ CommitPendingWrite \/ DoScheduledWrite
         \/ RegisterOnNextSuccessfulWriteCallback \/ RunScheduledTaskEarly \/ RunReply
         \/ Destroy \/ Tick
  PROVE  Order'
<1>1. CASE WriteNow
  <2>1. latest' \in Versions /\ latest' >= latest
    BY <1>1, WriterAssumption DEF WriteNow, TypeOK, Versions
  <2> QED
    BY <1>1, <2>1, PostWriteTaskOrder DEF WriteNow, fileVars
<1>2. CASE ScheduleWrite
  <2>1. latest \in Nat /\ latest' = latest + 1 /\ UNCHANGED <<accepting, queue, replies, pc, job, target, disk>>
    BY <1>2 DEF ScheduleWrite, TypeOK, Versions, runnerVars, threadVars, fileVars
  <2> QED
    BY <2>1, VersionTypes DEF Order, Busy
<1>3. CASE CommitPendingWrite \/ DoScheduledWrite
  <2>1. /\ serializer = latest /\ latest' = latest /\ OwnerIsFree
        /\ UNCHANGED <<accepting, replies, target, disk>>
    BY <1>3 DEF CommitPendingWrite, DoScheduledWrite, HasPendingWrite, Fires, NewestIsScheduled, fileVars
  <2>2. CASE PostWriteTask(serializer)
    <3>1. latest' \in Versions /\ latest' >= latest /\ PostWriteTask(latest')
      BY <2>1, <2>2 DEF TypeOK, Versions
    <3> QED
      BY <2>1, <3>1, PostWriteTaskOrder
  <2>3. CASE UNCHANGED <<queue, threadVars>>
    BY <2>1, <2>3 DEF Order, Busy, threadVars
  <2> QED
    BY <1>3, <2>2, <2>3 DEF CommitPendingWrite, DoScheduledWrite, SerializedData
<1>4. CASE RegisterOnNextSuccessfulWriteCallback \/ RunScheduledTaskEarly \/ Destroy \/ Tick
  BY <1>4 DEF RegisterOnNextSuccessfulWriteCallback, RunScheduledTaskEarly, Destroy, Tick, Order, Busy,
              runnerVars, threadVars, fileVars
<1>5. CASE RunReply
  <2>1. replies' = Tail(replies) /\ replies # <<>> /\ UNCHANGED <<accepting, queue, pc, job, target, disk, latest>>
    BY <1>5 DEF RunReply, threadVars, fileVars
  <2>2. \A i \in 1..Len(replies') : replies'[i] = replies[i + 1] /\ i + 1 \in 1..Len(replies)
    BY <2>1 DEF TypeOK
  <2>3. \A i \in 1..Len(replies') : replies'[i].result => target.data >= replies'[i].version
    BY <2>2 DEF Order
  <2> QED
    BY <2>1, <2>3 DEF Order, Busy
<1> QED
  BY <1>1, <1>2, <1>3, <1>4, <1>5

\* The task runner takes its tasks first come, first served, and closes when it has
\* nothing left to do.
LEMMA RunnerOrder ==
  ASSUME TypeOK, Order, ~ClosesBusy, Close \/ TakeTask
  PROVE  Order'
<1>1. CASE Close
  BY <1>1 DEF Close, Order, Busy, threadVars, fileVars
<1>2. CASE TakeTask
  <2>1. /\ queue # <<>> /\ queue' = Tail(queue) /\ ~Busy("file")
        /\ job' = [job EXCEPT !["file"] = Head(queue)]
        /\ pc' = [pc EXCEPT !["file"] = "create"]
        /\ UNCHANGED <<accepting, replies, target, disk, latest>>
    BY <1>2 DEF TakeTask, Busy, fileVars
  <2>2. /\ Len(queue) \in Nat \ {0} /\ Head(queue) = queue[1] /\ Len(queue') = Len(queue) - 1
        /\ \A i \in 1..Len(queue') : queue'[i] = queue[i + 1] /\ i + 1 \in 1..Len(queue)
    BY <2>1 DEF TypeOK
  <2>3. accepting /\ ~Busy("owner")
    BY <2>1 DEF Order
  <2>4. job'["file"] = queue[1] /\ UNCHANGED <<pc["owner"], job["owner"]>>
    BY <2>1, <2>2 DEF TypeOK, Actors
  <2>5. \A i \in 1..Len(queue') : target.data <= queue'[i].version /\ queue'[i].version <= latest
    BY <2>2 DEF Order
  <2>6. \A i, j \in 1..Len(queue') : i <= j => queue'[i].version <= queue'[j].version
    BY <2>2 DEF Order
  <2>7. \A i \in 1..Len(queue') : queue[1].version <= queue'[i].version
    BY <2>2 DEF Order
  <2>8. target.data <= queue[1].version /\ queue[1].version <= latest
    BY <2>2 DEF Order
  <2>9. \A a \in Actors : Busy(a)' => target.data <= job'[a].version /\ job'[a].version <= latest
    BY <2>3, <2>4, <2>8 DEF Actors, Busy
  <2> QED
    BY <2>1, <2>3, <2>4, <2>5, <2>6, <2>7, <2>9 DEF Order, Busy
<1> QED
  BY <1>1, <1>2

\* A write only makes the file newer: its version is no older than the file, and if the
\* owner writes nobody else does.
LEMMA WriteOrder ==
  ASSUME TypeOK, Flushed, Order, NEW a \in Actors, WriteFileAtomically(a) \/ WriteBack(a)
  PROVE  Order'
<1>1. UNCHANGED <<accepting, queue, disk, latest>>
  BY DEF WriteFileAtomically, WriteBack, Create, Open, Write, Flush, Rename, runnerVars, fileVars
<1>2. \A b \in Actors : b # a => UNCHANGED <<pc[b], job[b]>>
  BY DEF WriteFileAtomically, WriteBack, Create, Open, Write, Flush, Rename, Goes, Returns, TypeOK
<1>3. \A b \in Actors : Busy(b)' => Busy(b) /\ job'[b] = job[b]
  BY <1>2 DEF WriteFileAtomically, WriteBack, Create, Open, Write, Flush, Rename, At, Goes, Returns,
              TypeOK, Busy
<1>4. ASSUME UNCHANGED <<target, replies>>
      PROVE  Order'
  BY <1>1, <1>3, <1>4 DEF Order, Actors
<1>5. ASSUME Returns(a, FALSE), UNCHANGED target
      PROVE  Order'
  <2>1. \/ UNCHANGED replies
        \/ replies' = Append(replies, [version |-> job[a].version, result |-> FALSE])
    BY <1>5 DEF Returns
  <2>2. CASE UNCHANGED replies
    BY <1>4, <1>5, <2>2
  <2>3. CASE replies' = Append(replies, [version |-> job[a].version, result |-> FALSE])
    <3>1. \A i \in 1..Len(replies') : replies'[i].result =>
            i \in 1..Len(replies) /\ replies'[i] = replies[i]
      <4>1. /\ Len(replies') = Len(replies) + 1 /\ Len(replies) \in Nat
            /\ replies'[Len(replies) + 1] = [version |-> job[a].version, result |-> FALSE]
            /\ \A i \in 1..Len(replies) : replies'[i] = replies[i]
        BY <2>3 DEF TypeOK
      <4>2. ~replies'[Len(replies) + 1].result
        BY <4>1
      <4> QED
        BY <4>1, <4>2
    <3>2. \A i \in 1..Len(replies') : replies'[i].result => target.data >= replies'[i].version
      BY <3>1 DEF Order
    <3> QED
      BY <1>1, <1>3, <1>5, <3>2 DEF Order, Actors
  <2> QED
    BY <2>1, <2>2, <2>3
<1>6. CASE Rename(a) /\ target' = tmp[a] /\ Returns(a, TRUE)
  <2> DEFINE v == job[a].version
  <2>1. /\ tmp[a] = [data |-> v, disk |-> v] /\ v \in Nat /\ target'.data = v
        /\ pc[a] = "rename" /\ ~Busy(a)'
    BY <1>6, VersionTypes DEF Rename, At, Flushed, Returns, Goes, TypeOK, Busy
  <2>2. target.data <= v /\ v <= latest
    BY <2>1 DEF Order, Busy
  <2>3. disk <= v /\ \A i \in 1..Len(queue) : v <= queue[i].version
    <3>1. disk <= v
      BY <2>1, <2>2, VersionTypes DEF Order
    <3>2. CASE a = "file"
      BY <2>1, <3>1, <3>2 DEF Order, Busy
    <3>3. CASE a = "owner"
      <4>1. queue = <<>>
        BY <2>1, <3>3 DEF Order, Busy
      <4> QED
        BY <3>1, <4>1
    <3> QED
      BY <3>2, <3>3 DEF Actors
  <2>4. \A b \in Actors : ~Busy(b)'
    <3>1. CASE a = "file"
      BY <1>3, <2>1, <3>1 DEF Order, Busy, Actors
    <3>2. CASE a = "owner"
      BY <1>3, <2>1, <3>2 DEF Order, Busy, Actors
    <3> QED
      BY <3>1, <3>2 DEF Actors
  <2>5. \A i \in 1..Len(replies') : replies'[i].result => v >= replies'[i].version
    <3>1. \A i \in 1..Len(replies) : replies[i].version \in Nat
      <4>1. \A i \in 1..Len(replies) : replies[i] \in Reply
        BY DEF TypeOK
      <4>2. \A r \in Reply : r.version \in Nat
        BY DEF Reply, Versions
      <4> QED
        BY <4>1, <4>2
    <3>2. \A i \in 1..Len(replies) : replies[i].result => v >= replies[i].version
      BY <2>1, <2>2, <3>1, VersionTypes DEF Order
    <3>3. CASE UNCHANGED replies
      BY <3>2, <3>3
    <3>4. CASE replies' = Append(replies, [version |-> v, result |-> TRUE])
      <4>1. /\ Len(replies') = Len(replies) + 1 /\ Len(replies) \in Nat
            /\ replies'[Len(replies) + 1] = [version |-> v, result |-> TRUE]
            /\ \A i \in 1..Len(replies) : replies'[i] = replies[i]
        BY <3>4 DEF TypeOK
      <4>2. replies'[Len(replies) + 1].version = v
        BY <4>1
      <4> QED
        BY <2>1, <3>2, <4>1, <4>2
    <3> QED
      BY <1>6, <3>3, <3>4 DEF Returns
  <2> QED
    BY <1>1, <2>1, <2>2, <2>3, <2>4, <2>5 DEF Order, Actors, Busy
<1>7. CASE Create(a) \/ Open(a) \/ Flush(a)
  BY <1>4, <1>5, <1>7 DEF Create, Open, Flush, fileVars
<1>8. CASE Write(a) \/ WriteBack(a)
  BY <1>4, <1>8 DEF Write, WriteBack, runnerVars, fileVars
<1> QED
  BY <1>5, <1>6, <1>7, <1>8 DEF WriteFileAtomically, Rename

\* Every step keeps the order.
LEMMA OrderStep ==
  TypeOK /\ Flushed /\ NewestIsScheduled /\ Order /\ ~ClosesBusy /\ [Next]_vars => Order'
<1> SUFFICES ASSUME TypeOK, Flushed, NewestIsScheduled, Order, ~ClosesBusy, [Next]_vars
             PROVE  Order'
  OBVIOUS
<1>1. CASE UNCHANGED vars
  BY <1>1 DEF vars, runnerVars, threadVars, fileVars, Order, Busy
<1>2. CASE CommitName
  BY <1>2 DEF CommitName, runnerVars, threadVars, Flushed, Order, Busy, Versions
<1>3. CASE Crash \/ NullSerializerCrash \/ PowerLoss
  <2>1. /\ Restart /\ disk' = disk
        /\ UNCHANGED target \/ target' = [data |-> disk, disk |-> disk]
    BY <1>3 DEF Crash, NullSerializerCrash, PowerLoss, fileVars
  <2>2. disk' <= target'.data /\ target'.data <= latest
    BY <2>1, VersionTypes DEF Order
  <2> QED
    BY <2>1, <2>2, RestartFacts DEF Order, Busy, Actors
<1> QED
  BY <1>1, <1>2, <1>3, OwnerOrder, RunnerOrder, WriteOrder DEF Next

------------------------------------------------------------------------------
(* The theorems *)

\* The first version is in the file and nothing is on its way.
LEMMA InitInv == Init => IInv
<1> SUFFICES ASSUME Init PROVE IInv
  OBVIOUS
<1> USE DEF Init
<1>1. 0 \in Versions /\ NoJob \in Job /\ NoFile \in File
  BY WriterAssumption DEF Versions, NoJob, Job, NoFile, File, Contents
<1>2. TimerTypeOK
  <2>1. is_running \in BOOLEAN /\ scheduled_task \in BOOLEAN
    BY DEF TimerInit
  <2> QED
    BY <2>1 DEF TimerInit, TimerTypeOK
<1>3. callback \in BOOLEAN /\ exists \in BOOLEAN /\ accepting \in BOOLEAN
  OBVIOUS
<1>4. target \in File /\ disk \in Contents
  BY <1>1 DEF File, Contents
<1>5. TypeOK
  BY <1>1, <1>2, <1>3, <1>4 DEF TypeOK
<1>6. Flushed /\ NewestIsScheduled
  BY <1>1 DEF Flushed, NewestIsScheduled
<1>7. Order
  BY DEF Order, Busy, Actors
<1> QED
  BY <1>5, <1>6, <1>7 DEF IInv

\* The inductive invariant holds throughout: a renamed file is complete and flushed, the
\* pending write is the newest request, and if the task runner is orderly the writes are.
THEOREM Invariance == Spec => []IInv
<1>1. IInv /\ [Next]_vars => IInv'
  BY TypeStep, FlushedStep, NewestStep, OrderStep DEF IInv
<1> QED
  BY <1>1, InitInv, PTL DEF Spec

\* Every variable of the writer, its timer, its task runner and its files keeps its type.
THEOREM TypeCorrect == Spec => []TypeOK
<1>1. IInv => TypeOK
  BY DEF IInv
<1> QED
  BY <1>1, Invariance, PTL

\* Whatever the task runner does, a crash or a power loss at any moment finds a complete
\* version at path_ (WriteFileAtomically).
THEOREM NeverCorrupt == Spec => [](target.data \in Versions /\ disk \in Versions)
<1>1. IInv => target.data \in Versions /\ disk \in Versions
  BY DEF IInv, Flushed
<1> QED
  BY <1>1, Invariance, PTL

\* With an orderly task runner a success that is reported is a success: the file holds
\* the version or a newer one until the owner has been told (ForwardSuccessfulWrite).
THEOREM FileStaysSafe ==
  ASSUME ~ClosesBusy
  PROVE  Spec => []FileIsSafe
<1>1. IInv => FileIsSafe
  BY DEF IInv, Flushed, Order, FileIsSafe
<1> QED
  BY <1>1, Invariance, PTL

\* With an orderly task runner the file gets older only when the power is lost, and then
\* is what it was on the disk, which never gets older.
THEOREM WritesAreOrdered ==
  ASSUME ~ClosesBusy
  PROVE  Spec => NeverGoesBack
<1> DEFINE A == disk' >= disk /\ (target'.data >= target.data \/ target'.data = disk)
<1>1. IInv /\ [Next]_vars => [A]_vars
  <2> SUFFICES ASSUME IInv, Next PROVE A
    BY DEF A
  <2>1. target.data \in Int /\ disk \in Int /\ target.disk = target.data /\ disk <= target.data
    BY VersionTypes DEF IInv, Flushed, Order
  <2>2. ASSUME UNCHANGED <<target, disk>>
        PROVE  A
    BY <2>1, <2>2
  <2>3. CASE CommitName
    BY <2>1, <2>3 DEF CommitName
  <2>4. CASE PowerLoss
    BY <2>1, <2>4 DEF PowerLoss
  <2>5. ASSUME NEW a \in Actors, Rename(a)
        PROVE  A
    <3>1. CASE UNCHANGED <<target, disk>>
      BY <2>2, <3>1
    <3>2. CASE target' = tmp[a] /\ UNCHANGED disk
      <4>1. tmp[a] = [data |-> job[a].version, disk |-> job[a].version] /\ pc[a] = "rename"
        BY <2>5 DEF IInv, Flushed, Rename, At
      <4>2. target.data <= job[a].version /\ job[a].version \in Nat
        BY <4>1, VersionTypes DEF IInv, Order, Busy
      <4> QED
        BY <2>1, <3>2, <4>1, <4>2
    <3> QED
      BY <2>5, <3>1, <3>2 DEF Rename
  <2>6. CASE \/ WriteNow \/ ScheduleWrite \/ CommitPendingWrite \/ DoScheduledWrite
             \/ RegisterOnNextSuccessfulWriteCallback \/ RunScheduledTaskEarly \/ RunReply
             \/ Destroy \/ Tick \/ Close \/ TakeTask \/ Crash \/ NullSerializerCrash
    BY <2>2, <2>6 DEF WriteNow, ScheduleWrite, CommitPendingWrite, DoScheduledWrite,
         RegisterOnNextSuccessfulWriteCallback, RunScheduledTaskEarly, RunReply, Destroy, Tick, Close,
         TakeTask, Crash, NullSerializerCrash, fileVars
  <2>7. ASSUME NEW a \in Actors, Create(a) \/ Open(a) \/ Write(a) \/ Flush(a) \/ WriteBack(a)
        PROVE  A
    BY <2>2, <2>7 DEF Create, Open, Write, Flush, WriteBack, fileVars
  <2> QED
    BY <2>3, <2>4, <2>5, <2>6, <2>7 DEF Next, WriteFileAtomically
<1> QED
  BY <1>1, Invariance, PTL DEF Spec, NeverGoesBack
==============================================================================
