----------------------------- MODULE DBusProofs -----------------------------
(***************************************************************************)
(* Theorems about DBus, for any number of proxies, calls, owners, requests *)
(* and changes of the owner.                                               *)
(***************************************************************************)
EXTENDS DBus, FiniteSetTheorems, TLAPS

------------------------------------------------------------------------------
(* The inductive invariant *)

\* The proxy p is detached after the i-th task of the queue: it is in the table, where
\* the shutdown finds it, or it was removed from there later.
DetachedAfter(i, p) ==
  \/ p \in object_proxy_table
  \/ \E j \in (i + 1)..Len(dbus_tasks) : dbus_tasks[j].kind = "remove" /\ dbus_tasks[j].proxy = p

\* Tasks use proxies that are detached after them, a proxy is detached once it is out of
\* the table, and the shutdown is the last task.
Queued ==
  /\ object_proxy_table \subseteq used
  /\ \A p \in Proxies : waiting[p] => p \in used
  /\ \A i \in 1..Len(dbus_tasks) :
       /\ dbus_tasks[i].kind \in {"call", "wait", "connect", "remove"} => dbus_tasks[i].proxy \in Proxies
       /\ dbus_tasks[i].kind = "call" => dbus_tasks[i].call \in Calls
       /\ dbus_tasks[i].kind \in {"call", "wait", "connect"} => DetachedAfter(i, dbus_tasks[i].proxy)
       /\ dbus_tasks[i].kind = "remove" => dbus_tasks[i].proxy \in used \ object_proxy_table
       /\ dbus_tasks[i].kind = "shutdown" => i = Len(dbus_tasks) /\ origin # "running"

\* The task the D-Bus thread is at has a connection, and a proxy that is not detached;
\* if the first rule was added it is still there.
AtTask ==
  current # None =>
    /\ connected /\ current.task.kind \in {"wait", "connect"}
    /\ current.task.proxy \in Proxies /\ current.task.proxy \in Attached
    /\ current.stage = "match" => current.task.kind = "connect"
    /\ current.stage = "query" /\ current.ok => "owner" \in match_rules[current.task.proxy]

\* When the task at i comes, nobody listens for owner changes.
Unlistened(i) ==
  \/ ~listening /\ \A k \in 1..(i - 1) : dbus_tasks[k].kind # "listen"
  \/ \E j \in 1..(i - 1) : /\ dbus_tasks[j].kind = "unlisten"
                           /\ \A k \in (j + 1)..(i - 1) : dbus_tasks[k].kind # "listen"

\* ListenForServiceOwnerChange and UnlistenForServiceOwnerChange take turns.
Turns ==
  /\ \A i \in 1..Len(dbus_tasks) : dbus_tasks[i].kind = "listen" => Unlistened(i)
  /\ ~wants => Unlistened(Len(dbus_tasks) + 1)
  /\ origin # "running" => ~wants

\* Who is registered where.
Registered ==
  /\ filter_functions_added \subseteq Attached
  /\ \A p \in Proxies :
       /\ pending_calls[p] # {} \/ match_rules[p] # {} => p \in Attached
       /\ "owner" \in match_rules[p] => p \in filter_functions_added
  /\ ~connected =>
       /\ filter_functions_added = {} /\ ~listening /\ rules = {}
       /\ \A p \in Proxies : pending_calls[p] = {} /\ match_rules[p] = {}

\* Those who hold a rule, and how often it is held.
Holders(r) == {p \in Proxies : r \in match_rules[p]}
Held(r) == Cardinality(Holders(r)) + (IF listening /\ r = "owner" THEN 1 ELSE 0)

\* The bus has its own filter as long as somebody listens.
Filtered == ~errors => (filtering <=> listening)

\* A rule is counted once for each that holds it, and also for those the daemon refused.
Counting ==
  /\ Filtered
  /\ \A r \in Rules :
       /\ match_rules_added[r] >= Held(r)
       /\ ~errors => match_rules_added[r] = Held(r) /\ (r \in rules <=> match_rules_added[r] > 0)

\* The answer to the call c is on its way, or the call itself.
CallUnderWay(c) ==
  \/ \E i \in 1..Len(dbus_tasks) : dbus_tasks[i].kind = "call" /\ dbus_tasks[i].call = c
  \/ \E p \in Attached : c \in pending_calls[p]
  \/ \E i \in 1..Len(origin_tasks) : origin_tasks[i].kind = "answer" /\ origin_tasks[i].call = c

\* WaitForServiceToBeAvailableInternal for p is still to be done, or its answer to be given.
WaitUnderWay(p) ==
  \/ \E i \in 1..Len(dbus_tasks) : dbus_tasks[i].kind = "wait" /\ dbus_tasks[i].proxy = p
  \/ current # None /\ current.task.kind = "wait" /\ current.task.proxy = p
  \/ \E i \in 1..Len(origin_tasks) : origin_tasks[i] = Available(p)

\* Everybody who waits will be told; who waits for a service that is not there has the
\* rule that brings its signal, and has the signal once it is there.
Told ==
  /\ \A c \in Calls : call[c] = "made" => CallUnderWay(c)
  /\ \A p \in object_proxy_table : waiting[p] /\ ~errors =>
       \/ WaitUnderWay(p)
       \/ /\ "owner" \in match_rules[p]
          /\ owner # None => incoming # <<>> /\ Last(incoming) = owner

IInv == TypeOK /\ Queued /\ AtTask /\ Turns /\ Registered /\ Counting /\ OwnerIsTracked /\ Told

------------------------------------------------------------------------------
(* Sequences *)

\* What Append does to a queue.
LEMMA AppendFacts ==
  ASSUME NEW S, NEW q \in Seq(S), NEW t \in S
  PROVE  /\ Append(q, t) \in Seq(S) /\ Len(q) \in Nat /\ Len(Append(q, t)) = Len(q) + 1
         /\ \A i \in 1..Len(q) : Append(q, t)[i] = q[i]
         /\ Append(q, t)[Len(q) + 1] = t
OBVIOUS

\* What taking the first element does.
LEMMA TailFacts ==
  ASSUME NEW S, NEW q \in Seq(S), q # <<>>
  PROVE  /\ Len(q) \in Nat \ {0} /\ Head(q) = q[1] /\ Head(q) \in S
         /\ Tail(q) \in Seq(S) /\ Len(Tail(q)) = Len(q) - 1
         /\ \A i \in 1..(Len(q) - 1) : Tail(q)[i] = q[i + 1]
OBVIOUS

\* What joining two queues does.
LEMMA ConcatFacts ==
  ASSUME NEW S, NEW q \in Seq(S), NEW r \in Seq(S)
  PROVE  /\ q \o r \in Seq(S) /\ Len(q) \in Nat /\ Len(r) \in Nat /\ Len(q \o r) = Len(q) + Len(r)
         /\ \A i \in 1..Len(q) : (q \o r)[i] = q[i]
         /\ \A i \in 1..Len(r) : (q \o r)[Len(q) + i] = r[i]
OBVIOUS

\* SetToSeq lists the members of a finite set.
LEMMA SetToSeqFacts ==
  ASSUME NEW S, IsFiniteSet(S)
  PROVE  /\ SetToSeq(S) \in Seq(S)
         /\ \A x \in S : \E i \in 1..Len(SetToSeq(S)) : SetToSeq(S)[i] = x
<1> DEFINE n == Cardinality(S)
           f == SetToSeq(S)
<1>1. n \in Nat /\ ExistsBijection(1..n, S)
  BY FS_CardinalityType
<1>2. \E g \in [1..n -> S] : IsInjective(g)
  BY <1>1 DEF ExistsBijection, Bijection, Injection
<1>3. f \in [1..n -> S] /\ IsInjective(f)
  BY <1>2 DEF SetToSeq
<1>4. f \in Surjection(1..n, S)
  <2>1. f \in Injection(1..n, S)
    BY <1>3 DEF Injection
  <2>2. Cardinality(1..n) = n
    BY <1>1, FS_Interval
  <2> QED
    BY <2>1, <2>2, FS_Injection
<1> HIDE DEF f, n
<1>5. \A x \in S : \E i \in 1..n : f[i] = x
  BY <1>4 DEF Surjection
<1>6. f \in Seq(S) /\ Len(f) = n
  BY <1>1, <1>3
<1> QED
  BY <1>5, <1>6 DEF f

------------------------------------------------------------------------------
(* The queue of the D-Bus thread *)

\* The proxies somebody still has to detach, before and after a step.
LEMMA AttachedIs ==
  /\ \A p : p \in Attached <=> DetachedAfter(0, p)
  /\ \A p : p \in Attached' <=>
       \/ p \in object_proxy_table'
       \/ \E j \in 1..Len(dbus_tasks') : dbus_tasks'[j].kind = "remove" /\ dbus_tasks'[j].proxy = p
<1>1. 0 + 1 = 1
  OBVIOUS
<1> QED
  BY <1>1 DEF Attached, DetachedAfter

\* PostTask to the D-Bus thread, with a proxy of the table or while one is removed from it.
LEMMA PostQueued ==
  ASSUME TypeOK, Queued, NEW t \in Task, dbus_tasks' = Append(dbus_tasks, t), used' = used,
         origin = "running", object_proxy_table' \subseteq object_proxy_table,
         \A p \in object_proxy_table \ object_proxy_table' : t.kind = "remove" /\ t.proxy = p,
         t.kind \in {"call", "wait", "connect"} => t.proxy \in object_proxy_table',
         t.kind = "remove" => t.proxy \in object_proxy_table \ object_proxy_table',
         t.kind = "call" => t.call \in Calls,
         t.kind = "shutdown" => origin' # "running",
         \A p \in Proxies : waiting'[p] => waiting[p] \/ p \in used
  PROVE  Queued' /\ Attached \subseteq Attached'
<1> DEFINE n == Len(dbus_tasks)
<1>1. /\ n \in Nat /\ Len(dbus_tasks') = n + 1
      /\ \A i \in 1..n : dbus_tasks'[i] = dbus_tasks[i]
      /\ dbus_tasks'[n + 1] = t
  BY AppendFacts DEF TypeOK
<1>2. ASSUME NEW i \in 0..n, NEW p, DetachedAfter(i, p)
      PROVE  \/ p \in object_proxy_table'
             \/ \E j \in (i + 1)..(n + 1) : dbus_tasks'[j].kind = "remove" /\ dbus_tasks'[j].proxy = p
  <2>1. CASE p \in object_proxy_table
    <3>1. n + 1 \in (i + 1)..(n + 1)
      BY <1>1
    <3> QED
      BY <1>1, <2>1, <3>1
  <2>2. CASE \E j \in (i + 1)..n : dbus_tasks[j].kind = "remove" /\ dbus_tasks[j].proxy = p
    <3>1. PICK j \in (i + 1)..n : dbus_tasks[j].kind = "remove" /\ dbus_tasks[j].proxy = p
      BY <2>2
    <3>2. j \in 1..n /\ j \in (i + 1)..(n + 1)
      BY <1>1
    <3> QED
      BY <1>1, <3>1, <3>2
  <2> QED
    BY <1>2, <2>1, <2>2 DEF DetachedAfter
<1>3. Attached \subseteq Attached'
  <2>1. \A p \in Attached : \/ p \in object_proxy_table'
                            \/ \E j \in (0 + 1)..(n + 1) : dbus_tasks'[j].kind = "remove" /\ dbus_tasks'[j].proxy = p
    BY <1>1, <1>2, AttachedIs
  <2>2. 0 + 1 = 1
    OBVIOUS
  <2> QED
    BY <1>1, <2>1, <2>2, AttachedIs
<1>4. ASSUME NEW i \in 1..n
      PROVE  /\ dbus_tasks[i].kind \in {"call", "wait", "connect", "remove"} => dbus_tasks[i].proxy \in Proxies
             /\ dbus_tasks[i].kind = "call" => dbus_tasks[i].call \in Calls
             /\ dbus_tasks[i].kind \in {"call", "wait", "connect"} => DetachedAfter(i, dbus_tasks[i].proxy)'
             /\ dbus_tasks[i].kind = "remove" => dbus_tasks[i].proxy \in used \ object_proxy_table'
             /\ dbus_tasks[i].kind # "shutdown"
  <2>1. dbus_tasks[i].kind \in {"call", "wait", "connect"} => DetachedAfter(i, dbus_tasks[i].proxy)
    BY DEF Queued
  <2>2. ASSUME DetachedAfter(i, dbus_tasks[i].proxy) PROVE DetachedAfter(i, dbus_tasks[i].proxy)'
    <3>1. i \in 0..n
      BY <1>1
    <3> QED
      BY <1>1, <1>2, <2>2, <3>1 DEF DetachedAfter
  <2>3. /\ dbus_tasks[i].kind \in {"call", "wait", "connect", "remove"} => dbus_tasks[i].proxy \in Proxies
        /\ dbus_tasks[i].kind = "call" => dbus_tasks[i].call \in Calls
        /\ dbus_tasks[i].kind = "remove" => dbus_tasks[i].proxy \in used \ object_proxy_table'
        /\ dbus_tasks[i].kind # "shutdown"
    BY DEF Queued
  <2> QED
    BY <2>1, <2>2, <2>3
<1>5. object_proxy_table' \subseteq used /\ \A p \in Proxies : waiting'[p] => p \in used
  BY DEF Queued
<1>6. ASSUME NEW i \in 1..(n + 1)
      PROVE  /\ dbus_tasks'[i].kind \in {"call", "wait", "connect", "remove"} => dbus_tasks'[i].proxy \in Proxies
             /\ dbus_tasks'[i].kind = "call" => dbus_tasks'[i].call \in Calls
             /\ dbus_tasks'[i].kind \in {"call", "wait", "connect"} => DetachedAfter(i, dbus_tasks[i].proxy)'
             /\ dbus_tasks'[i].kind = "remove" => dbus_tasks'[i].proxy \in used \ object_proxy_table'
             /\ dbus_tasks'[i].kind = "shutdown" => i = n + 1 /\ origin' # "running"
  <2>1. CASE i \in 1..n
    BY <1>1, <1>4, <2>1
  <2>2. CASE i = n + 1
    <3>1. object_proxy_table \subseteq Proxies /\ object_proxy_table \subseteq used
      BY DEF TypeOK, Queued
    <3>2. dbus_tasks'[i] = t
      BY <1>1, <2>2
    <3>3. t.proxy \in object_proxy_table' => DetachedAfter(i, dbus_tasks[i].proxy)'
      BY <3>2 DEF DetachedAfter
    <3> QED
      BY <2>2, <3>1, <3>2, <3>3
  <2> QED
    BY <1>1, <2>1, <2>2
<1> QED
  BY <1>1, <1>3, <1>5, <1>6 DEF Queued

\* The same for the turns of listening.
LEMMA PostTurns ==
  ASSUME TypeOK, Turns, NEW t \in Task, dbus_tasks' = Append(dbus_tasks, t), listening' = listening,
         origin = "running", t.kind = "listen" => ~wants /\ wants',
         t.kind \notin {"listen", "unlisten"} => wants' = wants,
         origin' # "running" => ~wants'
  PROVE  Turns'
<1>0. PICK n : n = Len(dbus_tasks)
  OBVIOUS
<1>1. /\ n \in Nat /\ Len(dbus_tasks') = n + 1
      /\ \A i \in 1..n : dbus_tasks'[i] = dbus_tasks[i]
      /\ dbus_tasks'[n + 1] = t
  BY <1>0, AppendFacts DEF TypeOK
<1>2. ASSUME NEW i \in 1..(n + 1), Unlistened(i) PROVE Unlistened(i)'
  <2>1. \A k \in 1..(i - 1) : dbus_tasks'[k] = dbus_tasks[k]
    BY <1>1
  <2>2. CASE ~listening /\ \A k \in 1..(i - 1) : dbus_tasks[k].kind # "listen"
    BY <2>1, <2>2 DEF Unlistened
  <2>3. CASE \E j \in 1..(i - 1) : /\ dbus_tasks[j].kind = "unlisten"
                                   /\ \A k \in (j + 1)..(i - 1) : dbus_tasks[k].kind # "listen"
    <3>1. PICK j \in 1..(i - 1) : /\ dbus_tasks[j].kind = "unlisten"
                                  /\ \A k \in (j + 1)..(i - 1) : dbus_tasks[k].kind # "listen"
      BY <2>3
    <3>2. \A k \in (j + 1)..(i - 1) : k \in 1..(i - 1)
      BY <1>1
    <3> QED
      BY <2>1, <3>1, <3>2 DEF Unlistened
  <2> QED
    BY <1>2, <2>2, <2>3 DEF Unlistened
<1>3. ASSUME NEW i \in 1..(n + 1), dbus_tasks'[i].kind = "listen" PROVE Unlistened(i)'
  <2>1. CASE i \in 1..n
    BY <1>1, <1>2, <1>3, <2>1, <1>0 DEF Turns
  <2>2. CASE i = n + 1
    BY <1>1, <1>2, <1>3, <2>2, <1>0 DEF Turns
  <2> QED
    BY <1>1, <2>1, <2>2
<1>4. ASSUME ~wants' PROVE Unlistened(Len(dbus_tasks) + 1)'
  <2>1. Len(dbus_tasks') + 1 - 1 = n + 1 /\ Len(dbus_tasks') + 1 = n + 2 /\ n + 1 \in 1..(n + 1)
    BY <1>1
  <2>2. CASE t.kind = "unlisten"
    <3>2. \A k \in (n + 1 + 1)..(n + 1) : FALSE
      BY <1>1
    <3>3. dbus_tasks'[n + 1].kind = "unlisten"
      BY <1>1, <2>2
    <3> QED
      BY <2>1, <3>2, <3>3 DEF Unlistened
  <2>3. CASE t.kind # "unlisten"
    <3>1. t.kind # "listen" /\ ~wants
      BY <1>4, <2>3
    <3>2. Unlistened(n + 1)'
      BY <1>2, <2>1, <3>1, <1>0 DEF Turns
    <3>3. (n + 1) - 1 = n /\ \A k : k \in 1..(n + 1) => k \in 1..n \/ k = n + 1
      BY <1>1
    <3>4. CASE ~listening' /\ \A k \in 1..n : dbus_tasks'[k].kind # "listen"
      <4>1. \A k \in 1..(n + 1) : dbus_tasks'[k].kind # "listen"
        BY <1>1, <3>1, <3>3, <3>4
      <4> QED
        BY <2>1, <3>4, <4>1 DEF Unlistened
    <3>5. CASE \E j \in 1..n : /\ dbus_tasks'[j].kind = "unlisten"
                               /\ \A k \in (j + 1)..n : dbus_tasks'[k].kind # "listen"
      <4>1. PICK j \in 1..n : /\ dbus_tasks'[j].kind = "unlisten"
                              /\ \A k \in (j + 1)..n : dbus_tasks'[k].kind # "listen"
        BY <3>5
      <4>2. j \in 1..(n + 1) /\ \A k \in (j + 1)..(n + 1) : k \in (j + 1)..n \/ k = n + 1
        BY <1>1
      <4>3. \A k \in (j + 1)..(n + 1) : dbus_tasks'[k].kind # "listen"
        BY <1>1, <3>1, <4>1, <4>2
      <4> QED
        BY <2>1, <4>1, <4>2, <4>3 DEF Unlistened
    <3>6. PICK m : m = n + 1
      OBVIOUS
    <3>7. Unlistened(m)' /\ m - 1 = n
      BY <3>2, <3>3, <3>6
    <3>8. \/ ~listening' /\ \A k \in 1..(m - 1) : dbus_tasks'[k].kind # "listen"
          \/ \E j \in 1..(m - 1) : /\ dbus_tasks'[j].kind = "unlisten"
                                   /\ \A k \in (j + 1)..(m - 1) : dbus_tasks'[k].kind # "listen"
      BY <3>7 DEF Unlistened
    <3> QED
      BY <3>4, <3>5, <3>7, <3>8
  <2> QED
    BY <2>2, <2>3
<1> QED
  BY <1>1, <1>3, <1>4 DEF Turns

\* The first task of the queue.
LEMMA TakesFacts ==
  ASSUME TypeOK, Queued, NEW kinds, Takes(kinds)
  PROVE  /\ current = None /\ dbus_tasks # <<>> /\ Head(dbus_tasks) \in Task
         /\ Len(dbus_tasks) \in Nat \ {0} /\ Head(dbus_tasks) = dbus_tasks[1] /\ dbus_tasks[1].kind \in kinds
         /\ dbus_tasks' \in Seq(Task) /\ Len(dbus_tasks') = Len(dbus_tasks) - 1
         /\ \A i \in 1..(Len(dbus_tasks) - 1) : dbus_tasks'[i] = dbus_tasks[i + 1]
         /\ dbus_tasks[1].kind \in {"call", "wait", "connect", "remove"} => dbus_tasks[1].proxy \in Proxies
         /\ dbus_tasks[1].kind = "call" => dbus_tasks[1].call \in Calls
<1>1. /\ current = None /\ dbus_tasks # <<>> /\ Head(dbus_tasks).kind \in kinds
      /\ dbus_tasks' = Tail(dbus_tasks)
  BY DEF Takes, Idle
<1>2. dbus_tasks \in Seq(Task)
  BY DEF TypeOK
<1>3. /\ Head(dbus_tasks) \in Task
      /\ Len(dbus_tasks) \in Nat \ {0} /\ Head(dbus_tasks) = dbus_tasks[1]
      /\ dbus_tasks' \in Seq(Task) /\ Len(dbus_tasks') = Len(dbus_tasks) - 1
      /\ \A i \in 1..(Len(dbus_tasks) - 1) : dbus_tasks'[i] = dbus_tasks[i + 1]
  BY <1>1, <1>2, TailFacts
<1>4. 1 \in 1..Len(dbus_tasks)
  BY <1>3
<1> QED
  BY <1>1, <1>3, <1>4 DEF Queued

\* The D-Bus thread takes a task that is not the shutdown: its proxy is attached, and
\* remains so unless the task removes it.
LEMMA TakeQueued ==
  ASSUME TypeOK, Queued, NEW kinds, Takes(kinds), dbus_tasks[1].kind # "shutdown",
         UNCHANGED <<object_proxy_table, used, waiting, origin>>
  PROVE  /\ Queued'
         /\ \A p \in Attached : p \in Attached' \/ (dbus_tasks[1].kind = "remove" /\ p = dbus_tasks[1].proxy)
         /\ dbus_tasks[1].kind \in {"call", "wait", "connect"} => dbus_tasks[1].proxy \in Attached'
<1>0. PICK n : n = Len(dbus_tasks)
  OBVIOUS
<1>1. /\ n \in Nat \ {0} /\ Len(dbus_tasks') = n - 1
      /\ \A i \in 1..(n - 1) : dbus_tasks'[i] = dbus_tasks[i + 1]
  BY <1>0, TakesFacts
<1>2. ASSUME NEW i \in 1..n, NEW p, DetachedAfter(i, p)
      PROVE  \/ p \in object_proxy_table'
             \/ \E j \in i..(n - 1) : dbus_tasks'[j].kind = "remove" /\ dbus_tasks'[j].proxy = p
  <2>1. CASE \E j \in (i + 1)..n : dbus_tasks[j].kind = "remove" /\ dbus_tasks[j].proxy = p
    <3>1. PICK j \in (i + 1)..n : dbus_tasks[j].kind = "remove" /\ dbus_tasks[j].proxy = p
      BY <2>1
    <3>2. j - 1 \in i..(n - 1) /\ j - 1 \in 1..(n - 1) /\ j - 1 + 1 = j
      BY <1>1
    <3>3. dbus_tasks'[j - 1] = dbus_tasks[j]
      BY <1>1, <3>2
    <3> QED
      BY <3>1, <3>2, <3>3
  <2> QED
    BY <1>0, <1>2, <2>1 DEF DetachedAfter
<1>3. \A p : DetachedAfter(1, p) => p \in Attached'
  <2>1. 1 \in 1..n
    BY <1>1
  <2> QED
    BY <1>1, <1>2, <2>1, AttachedIs
<1>4. \A p : DetachedAfter(0, p) => DetachedAfter(1, p) \/ (dbus_tasks[1].kind = "remove" /\ p = dbus_tasks[1].proxy)
  <2>1. \A j \in (0 + 1)..n : j = 1 \/ j \in (1 + 1)..n
    BY <1>1
  <2> QED
    BY <1>0, <2>1 DEF DetachedAfter
<1>5. dbus_tasks[1].kind \in {"call", "wait", "connect"} => DetachedAfter(1, dbus_tasks[1].proxy)
  <2>1. 1 \in 1..n
    BY <1>1
  <2> QED
    BY <1>0, <2>1 DEF Queued
<1>6. ASSUME NEW i \in 1..(n - 1)
      PROVE  /\ dbus_tasks'[i].kind \in {"call", "wait", "connect", "remove"} => dbus_tasks'[i].proxy \in Proxies
             /\ dbus_tasks'[i].kind = "call" => dbus_tasks'[i].call \in Calls
             /\ dbus_tasks'[i].kind \in {"call", "wait", "connect"} => DetachedAfter(i, dbus_tasks[i].proxy)'
             /\ dbus_tasks'[i].kind = "remove" => dbus_tasks'[i].proxy \in used \ object_proxy_table
             /\ dbus_tasks'[i].kind = "shutdown" => i = n - 1 /\ origin # "running"
  <2>1. i + 1 \in 1..n /\ dbus_tasks'[i] = dbus_tasks[i + 1] /\ (i + 1 = n => i = n - 1)
    BY <1>1
  <2>2. PICK t : t = dbus_tasks'[i]
    OBVIOUS
  <2>3. /\ t.kind \in {"call", "wait", "connect", "remove"} => t.proxy \in Proxies
        /\ t.kind = "call" => t.call \in Calls
        /\ t.kind \in {"call", "wait", "connect"} => DetachedAfter(i + 1, t.proxy)
        /\ t.kind = "remove" => t.proxy \in used \ object_proxy_table
        /\ t.kind = "shutdown" => i + 1 = n /\ origin # "running"
    BY <1>0, <2>1, <2>2 DEF Queued
  <2>4. ASSUME DetachedAfter(i + 1, t.proxy) PROVE DetachedAfter(i, t.proxy)'
    <3>1. \/ t.proxy \in object_proxy_table'
          \/ \E j \in (i + 1)..(n - 1) : dbus_tasks'[j].kind = "remove" /\ dbus_tasks'[j].proxy = t.proxy
      BY <1>2, <2>1, <2>4
    <3> QED
      BY <1>1, <3>1 DEF DetachedAfter
  <2>5. DetachedAfter(i, t.proxy)' => DetachedAfter(i, dbus_tasks[i].proxy)'
    BY <2>2
  <2> QED
    BY <2>1, <2>2, <2>3, <2>4, <2>5
<1>7. object_proxy_table' \subseteq used' /\ \A p \in Proxies : waiting'[p] => p \in used'
  BY DEF Queued
<1>8. Queued'
  BY <1>1, <1>6, <1>7 DEF Queued
<1> QED
  BY <1>3, <1>4, <1>5, <1>8, AttachedIs

\* The same for the turns of listening.
LEMMA TakeTurns ==
  ASSUME TypeOK, Queued, Turns, NEW kinds, Takes(kinds), UNCHANGED <<wants, origin>>,
         dbus_tasks[1].kind = "unlisten" => ~listening',
         dbus_tasks[1].kind # "listen" => (listening' => listening)
  PROVE  Turns'
<1>0. PICK n : n = Len(dbus_tasks)
  OBVIOUS
<1>1. /\ n \in Nat \ {0} /\ Len(dbus_tasks') = n - 1
      /\ \A i \in 1..(n - 1) : dbus_tasks'[i] = dbus_tasks[i + 1]
  BY <1>0, TakesFacts
<1>2. ASSUME NEW i \in 1..n, NEW h, h = i + 1, Unlistened(h) PROVE Unlistened(i)'
  <2>0. \A k \in 1..(i - 1) : k \in 1..(n - 1) /\ k + 1 \in 1..(h - 1) /\ k + 1 # 1
    BY <1>1, <1>2
  <2>1. CASE ~listening /\ \A k \in 1..(h - 1) : dbus_tasks[k].kind # "listen"
    <3>1. 1 \in 1..(h - 1)
      BY <1>1, <1>2
    <3>2. ~listening'
      BY <2>1, <3>1
    <3>3. \A k \in 1..(i - 1) : dbus_tasks'[k].kind # "listen"
      BY <1>1, <2>0, <2>1
    <3> QED
      BY <3>2, <3>3 DEF Unlistened
  <2>2. CASE \E j \in 1..(h - 1) : /\ dbus_tasks[j].kind = "unlisten"
                                   /\ \A k \in (j + 1)..(h - 1) : dbus_tasks[k].kind # "listen"
    <3>1. PICK j \in 1..(h - 1) : /\ dbus_tasks[j].kind = "unlisten"
                                  /\ \A k \in (j + 1)..(h - 1) : dbus_tasks[k].kind # "listen"
      BY <2>2
    <3>2. \A k \in j..(i - 1) : k \in 1..(i - 1) /\ k + 1 \in (j + 1)..(h - 1)
      BY <1>1, <1>2
    <3>3. \A k \in j..(i - 1) : dbus_tasks'[k].kind # "listen"
      BY <1>1, <2>0, <3>1, <3>2
    <3>4. CASE j = 1
      <4>1. ~listening'
        BY <3>1, <3>4
      <4> QED
        BY <3>3, <3>4, <4>1 DEF Unlistened
    <3>5. CASE j # 1
      <4>1. PICK l : l = j - 1
        OBVIOUS
      <4>2. l \in 1..(i - 1) /\ l + 1 = j
        BY <1>1, <1>2, <3>5, <4>1
      <4>3. dbus_tasks'[l] = dbus_tasks[j]
        BY <1>1, <2>0, <4>2
      <4> QED
        BY <3>1, <3>3, <4>2, <4>3 DEF Unlistened
    <3> QED
      BY <3>4, <3>5
  <2> QED
    BY <1>2, <2>1, <2>2 DEF Unlistened
<1>3. ASSUME NEW i \in 1..(n - 1), dbus_tasks'[i].kind = "listen" PROVE Unlistened(i)'
  <2>1. i + 1 \in 1..n /\ i \in 1..n /\ dbus_tasks[i + 1].kind = "listen"
    BY <1>1, <1>3
  <2> QED
    BY <1>0, <1>2, <2>1 DEF Turns
<1>4. ASSUME ~wants' PROVE Unlistened(Len(dbus_tasks) + 1)'
  <2>1. Unlistened(n + 1) /\ n \in 1..n
    BY <1>0, <1>1, <1>4 DEF Turns
  <2>2. Unlistened(n)'
    BY <1>2, <2>1
  <2>3. Len(dbus_tasks') + 1 = n
    BY <1>1
  <2> QED
    BY <2>2, <2>3
<1> QED
  BY <1>1, <1>3, <1>4 DEF Turns
------------------------------------------------------------------------------
(* Requests of the origin thread *)

\* A request only adds to the queue, and detaches nobody.
LEMMA RequestKeeps ==
  ASSUME IInv, Attached \subseteq Attached',
         UNCHANGED <<connected, filter_functions_added, match_rules_added, listening, filtering, proxyVars, origin_tasks,
                     current, daemonVars, errors, overtaken>>,
         \A i \in 1..Len(dbus_tasks) : i \in 1..Len(dbus_tasks') /\ dbus_tasks'[i] = dbus_tasks[i]
  PROVE  /\ AtTask' /\ Registered' /\ Counting' /\ OwnerIsTracked'
         /\ \A c : CallUnderWay(c) => CallUnderWay(c)'
         /\ \A p : WaitUnderWay(p) => WaitUnderWay(p)'
<1> USE DEF proxyVars, daemonVars
<1>1. AtTask'
  BY DEF IInv, AtTask
<1>2. Registered'
  BY DEF IInv, Registered
<1>3. Counting'
  <2>1. Counting
    BY DEF IInv
  <2>2. \A r : Held(r)' = Held(r)
    BY DEF Held, Holders
  <2> QED
    BY <2>1, <2>2 DEF Counting, Filtered
<1>4. OwnerIsTracked'
  BY DEF IInv, OwnerIsTracked
<1>5. ASSUME NEW c, CallUnderWay(c) PROVE CallUnderWay(c)'
  BY <1>5 DEF CallUnderWay
<1>6. ASSUME NEW p, WaitUnderWay(p) PROVE WaitUnderWay(p)'
  BY <1>6 DEF WaitUnderWay, Available
<1> QED
  BY <1>1, <1>2, <1>3, <1>4, <1>5, <1>6

\* What a request puts into the queue.
LEMMA PostFacts ==
  ASSUME TypeOK, NEW kind \in {"call", "wait", "connect", "remove", "listen", "unlisten", "shutdown"},
         NEW p \in Proxies \union {None}, NEW c \in Calls \union {None}, Post(kind, p, c)
  PROVE  \E t \in Task :
           /\ t.kind = kind /\ t.proxy = p /\ t.call = c
           /\ dbus_tasks' = Append(dbus_tasks, t) /\ dbus_tasks' \in Seq(Task)
           /\ Len(dbus_tasks) + 1 \in 1..Len(dbus_tasks') /\ dbus_tasks'[Len(dbus_tasks) + 1] = t
           /\ \A i \in 1..Len(dbus_tasks) : i \in 1..Len(dbus_tasks') /\ dbus_tasks'[i] = dbus_tasks[i]
<1> DEFINE t == [kind |-> kind, proxy |-> p, call |-> c]
<1>1. t \in Task /\ t.kind = kind /\ t.proxy = p /\ t.call = c
  BY DEF Task
<1>2. dbus_tasks' = Append(dbus_tasks, t)
  BY DEF Post
<1> HIDE DEF t
<1>3. /\ dbus_tasks' \in Seq(Task) /\ Len(dbus_tasks) \in Nat /\ Len(dbus_tasks') = Len(dbus_tasks) + 1
      /\ \A i \in 1..Len(dbus_tasks) : dbus_tasks'[i] = dbus_tasks[i]
      /\ dbus_tasks'[Len(dbus_tasks) + 1] = t
  BY <1>1, <1>2, AppendFacts DEF TypeOK
<1>4. Len(dbus_tasks) + 1 \in 1..Len(dbus_tasks') /\ \A i \in 1..Len(dbus_tasks) : i \in 1..Len(dbus_tasks')
  BY <1>3
<1> QED
  BY <1>1, <1>2, <1>3, <1>4

\* Requests are counted up to their bound.
LEMMA RequestFacts ==
  ASSUME TypeOK, Request
  PROVE  requests' \in 0..MaxRequests
BY BusAssumption DEF TypeOK, Request

\* GetObjectProxy: a new proxy that waits for nothing.
LEMMA GetObjectProxyStep == ASSUME IInv, NEW p \in Proxies, GetObjectProxy(p) PROVE IInv'
<1> USE DEF GetObjectProxy, proxyVars, threadVars, daemonVars
<1>1. TypeOK /\ Queued /\ Turns /\ Told
  BY DEF IInv
<1>2. TypeOK'
  BY <1>1 DEF TypeOK
<1>3. object_proxy_table' = object_proxy_table \union {p} /\ used' = used \union {p} /\ p \notin used
  OBVIOUS
<1>4. Queued'
  <2>1. \A i, q : DetachedAfter(i, q) => DetachedAfter(i, q)'
    BY <1>3 DEF DetachedAfter
  <2>2. object_proxy_table' \subseteq used' /\ \A q \in Proxies : waiting'[q] => q \in used'
    BY <1>1, <1>3 DEF Queued
  <2>3. ASSUME NEW i \in 1..Len(dbus_tasks')
        PROVE  /\ dbus_tasks'[i].kind \in {"call", "wait", "connect", "remove"} => dbus_tasks'[i].proxy \in Proxies
               /\ dbus_tasks'[i].kind = "call" => dbus_tasks'[i].call \in Calls
               /\ dbus_tasks'[i].kind \in {"call", "wait", "connect"} => DetachedAfter(i, dbus_tasks[i].proxy)'
               /\ dbus_tasks'[i].kind = "remove" => dbus_tasks'[i].proxy \in used' \ object_proxy_table'
               /\ dbus_tasks'[i].kind = "shutdown" => i = Len(dbus_tasks') /\ origin' # "running"
    <3>1. PICK t : t = dbus_tasks[i]
      OBVIOUS
    <3>2. /\ t.kind \in {"call", "wait", "connect", "remove"} => t.proxy \in Proxies
          /\ t.kind = "call" => t.call \in Calls
          /\ t.kind \in {"call", "wait", "connect"} => DetachedAfter(i, t.proxy)
          /\ t.kind = "remove" => t.proxy \in used \ object_proxy_table
          /\ t.kind = "shutdown" => i = Len(dbus_tasks) /\ origin # "running"
      BY <1>1, <3>1 DEF Queued
    <3>3. DetachedAfter(i, t.proxy)' => DetachedAfter(i, dbus_tasks[i].proxy)'
      BY <3>1
    <3>4. DetachedAfter(i, t.proxy) => DetachedAfter(i, t.proxy)'
      BY <2>1
    <3> QED
      BY <1>3, <3>1, <3>2, <3>3, <3>4
  <2> QED
    BY <2>2, <2>3 DEF Queued
<1>5. Turns'
  BY <1>1 DEF Turns, Unlistened
<1>6. Attached \subseteq Attached'
  BY <1>3 DEF Attached
<1>7. /\ AtTask' /\ Registered' /\ Counting' /\ OwnerIsTracked'
      /\ \A c : CallUnderWay(c) => CallUnderWay(c)'
      /\ \A q : WaitUnderWay(q) => WaitUnderWay(q)'
  BY <1>6, RequestKeeps
<1>8. Told'
  <2>1. ~waiting[p]
    BY <1>1, <1>3 DEF Queued
  <2> QED
    BY <1>1, <1>3, <1>7, <2>1 DEF Told
<1> QED
  BY <1>2, <1>4, <1>5, <1>7, <1>8 DEF IInv

\* CallMethod: the call is in the queue.
LEMMA CallMethodStep == ASSUME IInv, NEW p \in Proxies, NEW c \in Calls, CallMethod(p, c) PROVE IInv'
<1> USE DEF CallMethod, Request, busVars, proxyVars, daemonVars
<1>1. TypeOK /\ Queued /\ Turns /\ Told
  BY DEF IInv
<1>2. PICK t \in Task :
        /\ t.kind = "call" /\ t.proxy = p /\ t.call = c
        /\ dbus_tasks' = Append(dbus_tasks, t) /\ dbus_tasks' \in Seq(Task)
        /\ Len(dbus_tasks) + 1 \in 1..Len(dbus_tasks') /\ dbus_tasks'[Len(dbus_tasks) + 1] = t
        /\ \A i \in 1..Len(dbus_tasks) : i \in 1..Len(dbus_tasks') /\ dbus_tasks'[i] = dbus_tasks[i]
  BY <1>1, PostFacts
<1>3. TypeOK'
  <2>1. requests' \in 0..MaxRequests
    BY <1>1, RequestFacts
  <2> QED
    BY <1>1, <1>2, <2>1 DEF TypeOK
<1>4. Queued' /\ Attached \subseteq Attached'
  BY <1>1, <1>2, PostQueued
<1>5. Turns'
  BY <1>1, <1>2, PostTurns DEF Turns
<1>6. /\ AtTask' /\ Registered' /\ Counting' /\ OwnerIsTracked'
      /\ \A d : CallUnderWay(d) => CallUnderWay(d)'
      /\ \A q : WaitUnderWay(q) => WaitUnderWay(q)'
  BY <1>2, <1>4, RequestKeeps
<1>7. CallUnderWay(c)'
  BY <1>2 DEF CallUnderWay
<1>8. Told'
  BY <1>1, <1>6, <1>7 DEF Told, TypeOK
<1> QED
  BY <1>3, <1>4, <1>5, <1>6, <1>8 DEF IInv

\* WaitForServiceToBeAvailable: the wait is in the queue.
LEMMA WaitStep == ASSUME IInv, NEW p \in Proxies, WaitForServiceToBeAvailable(p) PROVE IInv'
<1> USE DEF WaitForServiceToBeAvailable, Request, busVars, proxyVars, daemonVars
<1>1. TypeOK /\ Queued /\ Turns /\ Told
  BY DEF IInv
<1>2. PICK t \in Task :
        /\ t.kind = "wait" /\ t.proxy = p /\ t.call = None
        /\ dbus_tasks' = Append(dbus_tasks, t) /\ dbus_tasks' \in Seq(Task)
        /\ Len(dbus_tasks) + 1 \in 1..Len(dbus_tasks') /\ dbus_tasks'[Len(dbus_tasks) + 1] = t
        /\ \A i \in 1..Len(dbus_tasks) : i \in 1..Len(dbus_tasks') /\ dbus_tasks'[i] = dbus_tasks[i]
  BY <1>1, PostFacts
<1>3. TypeOK'
  <2>1. requests' \in 0..MaxRequests
    BY <1>1, RequestFacts
  <2> QED
    BY <1>1, <1>2, <2>1 DEF TypeOK
<1>4. Queued' /\ Attached \subseteq Attached'
  <2>1. \A q \in Proxies : waiting'[q] => waiting[q] \/ q \in used
    BY <1>1 DEF TypeOK, Queued
  <2> QED
    BY <1>1, <1>2, <2>1, PostQueued
<1>5. Turns'
  BY <1>1, <1>2, PostTurns DEF Turns
<1>6. /\ AtTask' /\ Registered' /\ Counting' /\ OwnerIsTracked'
      /\ \A d : CallUnderWay(d) => CallUnderWay(d)'
      /\ \A q : WaitUnderWay(q) => WaitUnderWay(q)'
  BY <1>2, <1>4, RequestKeeps
<1>7. WaitUnderWay(p)'
  BY <1>2 DEF WaitUnderWay
<1>8. Told'
  BY <1>1, <1>6, <1>7 DEF Told, TypeOK
<1> QED
  BY <1>3, <1>4, <1>5, <1>6, <1>8 DEF IInv

\* A request that nobody is told of.
LEMMA PlainRequest ==
  ASSUME IInv, TypeOK', origin = "running",
         NEW kind \in {"connect", "remove", "listen", "unlisten", "shutdown"},
         NEW p \in Proxies \union {None}, Post(kind, p, None),
         UNCHANGED <<connected, filter_functions_added, match_rules_added, listening, filtering, proxyVars, origin_tasks,
                     current, daemonVars, errors, overtaken, used, waiting, call>>,
         object_proxy_table' = IF kind = "remove" THEN object_proxy_table \ {p} ELSE object_proxy_table,
         kind \in {"connect", "remove"} => p \in object_proxy_table,
         kind = "listen" => ~wants /\ wants',
         kind \notin {"listen", "unlisten"} => wants' = wants,
         kind = "shutdown" => ~wants /\ origin' # "running",
         kind # "shutdown" => origin' = origin
  PROVE  IInv'
<1>1. TypeOK /\ Queued /\ Turns /\ Told
  BY DEF IInv
<1>2. PICK t \in Task :
        /\ t.kind = kind /\ t.proxy = p /\ t.call = None
        /\ dbus_tasks' = Append(dbus_tasks, t) /\ dbus_tasks' \in Seq(Task)
        /\ Len(dbus_tasks) + 1 \in 1..Len(dbus_tasks') /\ dbus_tasks'[Len(dbus_tasks) + 1] = t
        /\ \A i \in 1..Len(dbus_tasks) : i \in 1..Len(dbus_tasks') /\ dbus_tasks'[i] = dbus_tasks[i]
  BY <1>1, PostFacts
<1>3. Queued' /\ Attached \subseteq Attached'
  <2>1. /\ object_proxy_table' \subseteq object_proxy_table
        /\ \A q \in object_proxy_table \ object_proxy_table' : t.kind = "remove" /\ t.proxy = q
        /\ t.kind = "connect" => t.proxy \in object_proxy_table'
        /\ t.kind = "remove" => t.proxy \in object_proxy_table \ object_proxy_table'
    BY <1>2
  <2>2. \A q \in Proxies : waiting'[q] => waiting[q] \/ q \in used
    OBVIOUS
  <2> QED
    BY <1>1, <1>2, <2>1, <2>2, PostQueued
<1>4. Turns'
  <2>1. origin' # "running" => ~wants'
    OBVIOUS
  <2> QED
    BY <1>1, <1>2, <2>1, PostTurns
<1>5. /\ AtTask' /\ Registered' /\ Counting' /\ OwnerIsTracked'
      /\ \A d : CallUnderWay(d) => CallUnderWay(d)'
      /\ \A q : WaitUnderWay(q) => WaitUnderWay(q)'
  BY <1>2, <1>3, RequestKeeps
<1>6. Told'
  <2>1. object_proxy_table' \subseteq object_proxy_table
    OBVIOUS
  <2> QED
    BY <1>1, <1>5, <2>1 DEF Told, proxyVars, daemonVars
<1> QED
  BY <1>3, <1>4, <1>5, <1>6 DEF IInv

\* ConnectToSignal, RemoveObjectProxy, listening and the shutdown post a task each.
LEMMA OtherRequestStep ==
  ASSUME IInv, \/ \E p \in Proxies : ConnectToSignal(p) \/ RemoveObjectProxy(p)
               \/ Listen \/ ShutdownOnDBusThreadAndBlock
  PROVE  IInv'
<1> USE DEF Request, busVars, proxyVars, daemonVars, countVars
<1>1. TypeOK
  BY DEF IInv
<1>2. ASSUME NEW kind \in {"connect", "remove", "listen", "unlisten", "shutdown"},
             NEW p \in Proxies \union {None}, Post(kind, p, None)
      PROVE  dbus_tasks' \in Seq(Task)
  BY <1>1, <1>2, PostFacts
<1>3. ASSUME NEW p \in Proxies, ConnectToSignal(p) PROVE IInv'
  <2>1. TypeOK'
    <3>1. requests' \in 0..MaxRequests
      BY <1>1, <1>3, RequestFacts DEF ConnectToSignal
    <3>2. dbus_tasks' \in Seq(Task)
      BY <1>2, <1>3 DEF ConnectToSignal
    <3> QED
      BY <1>1, <1>3, <3>1, <3>2 DEF ConnectToSignal, TypeOK
  <2> QED
    BY <1>3, <2>1, PlainRequest DEF ConnectToSignal
<1>4. ASSUME NEW p \in Proxies, RemoveObjectProxy(p) PROVE IInv'
  <2>1. TypeOK'
    <3>1. requests' \in 0..MaxRequests
      BY <1>1, <1>4, RequestFacts DEF RemoveObjectProxy
    <3>2. dbus_tasks' \in Seq(Task)
      BY <1>2, <1>4 DEF RemoveObjectProxy
    <3> QED
      BY <1>1, <1>4, <3>1, <3>2 DEF RemoveObjectProxy, TypeOK
  <2> QED
    BY <1>4, <2>1, PlainRequest DEF RemoveObjectProxy
<1>5. CASE Listen
  <2>1. PICK kind : kind = IF wants THEN "unlisten" ELSE "listen"
    OBVIOUS
  <2>2. kind \in {"listen", "unlisten"} /\ Post(kind, None, None)
    BY <1>5, <2>1 DEF Listen
  <2>3. TypeOK'
    <3>1. requests' \in 0..MaxRequests
      BY <1>1, <1>5, RequestFacts DEF Listen
    <3>2. dbus_tasks' \in Seq(Task)
      BY <1>2, <2>2
    <3>3. wants' \in BOOLEAN
      BY <1>5 DEF Listen
    <3> QED
      BY <1>1, <1>5, <3>1, <3>2, <3>3 DEF Listen, TypeOK
  <2>4. kind = "listen" => ~wants /\ wants'
    BY <1>1, <1>5, <2>1 DEF Listen
  <2> QED
    BY <1>5, <2>2, <2>3, <2>4, PlainRequest DEF Listen
<1>6. CASE ShutdownOnDBusThreadAndBlock
  <2>1. TypeOK'
    BY <1>1, <1>2, <1>6 DEF ShutdownOnDBusThreadAndBlock, TypeOK
  <2> QED
    BY <1>6, <2>1, PlainRequest DEF ShutdownOnDBusThreadAndBlock
<1> QED
  BY <1>3, <1>4, <1>5, <1>6

\* The origin thread returns from the shutdown.
LEMMA ShutdownReturnsStep == ASSUME IInv, ShutdownReturns PROVE IInv'
<1> USE DEF ShutdownReturns, proxyVars, daemonVars, countVars
<1>1. TypeOK /\ Queued /\ Turns /\ Told
  BY DEF IInv
<1>2. TypeOK'
  BY <1>1 DEF TypeOK
<1>3. Queued'
  BY <1>1 DEF Queued, DetachedAfter
<1>4. Turns'
  BY <1>1 DEF Turns, Unlistened
<1>5. Attached \subseteq Attached'
  BY DEF Attached
<1>6. /\ AtTask' /\ Registered' /\ Counting' /\ OwnerIsTracked'
      /\ \A d : CallUnderWay(d) => CallUnderWay(d)'
      /\ \A q : WaitUnderWay(q) => WaitUnderWay(q)'
  BY <1>5, RequestKeeps
<1>7. Told'
  BY <1>1, <1>6 DEF Told
<1> QED
  BY <1>2, <1>3, <1>4, <1>6, <1>7 DEF IInv
\* The origin thread gives an answer.
LEMMA RunOriginTaskStep == ASSUME IInv, RunOriginTask PROVE IInv'
<1> USE DEF busVars, proxyVars, daemonVars, countVars
<1>1. TypeOK /\ Queued /\ Turns /\ Told
  BY DEF IInv
<1>2. PICK t : /\ t = Head(origin_tasks) /\ origin_tasks # <<>> /\ origin_tasks' = Tail(origin_tasks)
               /\ \/ /\ t.kind = "answer" /\ call' = [call EXCEPT ![t.call] = "answered"] /\ waiting' = waiting
                  \/ /\ t.kind = "available" /\ waiting' = [waiting EXCEPT ![t.proxy] = FALSE] /\ call' = call
  BY DEF RunOriginTask
<1>3. /\ UNCHANGED <<busVars, proxyVars, dbus_tasks, current, origin, daemonVars, countVars, errors, overtaken>>
  BY DEF RunOriginTask
<1>4. /\ Len(origin_tasks) \in Nat \ {0} /\ t = origin_tasks[1] /\ t \in Task
      /\ origin_tasks' \in Seq(Task) /\ Len(origin_tasks') = Len(origin_tasks) - 1
      /\ \A i \in 1..(Len(origin_tasks) - 1) : origin_tasks'[i] = origin_tasks[i + 1]
  BY <1>1, <1>2, TailFacts DEF TypeOK
<1>5. TypeOK'
  <2>1. waiting' \in [Proxies -> BOOLEAN]
    BY <1>1, <1>2 DEF TypeOK
  <2>2. call' \in [Calls -> {"unused", "made", "answered", "cancelled"}]
    BY <1>1, <1>2 DEF TypeOK
  <2> QED
    BY <1>1, <1>3, <1>4, <2>1, <2>2 DEF TypeOK
<1>6. \A q \in Proxies : waiting'[q] => waiting[q]
  BY <1>1, <1>2 DEF TypeOK
<1>7. Queued'
  BY <1>1, <1>3, <1>6 DEF Queued, DetachedAfter
<1>8. Turns'
  BY <1>1, <1>3 DEF Turns, Unlistened
<1>9. Attached' = Attached
  BY <1>3 DEF Attached
<1>10. AtTask' /\ Registered' /\ OwnerIsTracked'
  BY <1>3, <1>9 DEF IInv, AtTask, Registered, OwnerIsTracked
<1>11. Counting'
  BY <1>3 DEF IInv, Counting, Filtered, Held, Holders
<1>12. ASSUME NEW i \in 1..Len(origin_tasks), origin_tasks[i] # t
       PROVE  i - 1 \in 1..Len(origin_tasks') /\ origin_tasks'[i - 1] = origin_tasks[i]
  <2>1. i # 1
    BY <1>4, <1>12
  <2>2. i - 1 \in 1..(Len(origin_tasks) - 1) /\ i - 1 + 1 = i
    BY <1>4, <2>1
  <2> QED
    BY <1>4, <2>2
<1>13. ASSUME NEW c \in Calls, call'[c] = "made" PROVE CallUnderWay(c)'
  <2>1. call[c] = "made" /\ ~(t.kind = "answer" /\ t.call = c)
    BY <1>1, <1>2, <1>13 DEF TypeOK
  <2>2. CallUnderWay(c)
    BY <1>1, <2>1 DEF Told
  <2>3. ASSUME NEW i \in 1..Len(origin_tasks), origin_tasks[i].kind = "answer" /\ origin_tasks[i].call = c
        PROVE  \E j \in 1..Len(origin_tasks') : origin_tasks'[j].kind = "answer" /\ origin_tasks'[j].call = c
    BY <1>12, <2>1, <2>3
  <2> QED
    BY <1>3, <1>9, <2>2, <2>3 DEF CallUnderWay
<1>14. ASSUME NEW p \in object_proxy_table, waiting'[p], WaitUnderWay(p) PROVE WaitUnderWay(p)'
  <2>1. p \in Proxies
    BY <1>1 DEF TypeOK
  <2>2. t # Available(p)
    <3>1. ~(t.kind = "available" /\ t.proxy = p)
      BY <1>1, <1>2, <1>14, <2>1 DEF TypeOK
    <3>2. Available(p).kind = "available" /\ Available(p).proxy = p
      BY DEF Available
    <3> QED
      BY <3>1, <3>2
  <2>3. ASSUME NEW i \in 1..Len(origin_tasks), origin_tasks[i] = Available(p)
        PROVE  \E j \in 1..Len(origin_tasks') : origin_tasks'[j] = Available(p)
    BY <1>12, <2>2, <2>3
  <2> QED
    BY <1>3, <1>14, <2>3 DEF WaitUnderWay, Available
<1>15. \A p \in object_proxy_table' : waiting'[p] => waiting[p] /\ p \in object_proxy_table
  BY <1>1, <1>3, <1>6 DEF TypeOK
<1>16. Told'
  BY <1>1, <1>3, <1>13, <1>14, <1>15 DEF Told
<1> QED
  BY <1>5, <1>7, <1>8, <1>10, <1>11, <1>16 DEF IInv

------------------------------------------------------------------------------
(* Match rules *)

\* A rule has finitely many holders.
LEMMA HoldersFinite ==
  ASSUME NEW r
  PROVE  IsFiniteSet(Holders(r)) /\ Cardinality(Holders(r)) \in Nat
<1>1. Holders(r) \in SUBSET Proxies
  BY DEF Holders
<1> QED
  BY <1>1, BusAssumption, FS_Subset, FS_CardinalityType

\* AddMatch by a holder that does not have the rule yet, or by one that has it.
LEMMA AddMatchRuleFacts ==
  ASSUME TypeOK, Counting, NEW p \in Proxies, NEW r \in Rules, NEW success \in BOOLEAN,
         AddMatchRule(p, r, success), listening' = listening, filtering' = filtering
  PROVE  /\ match_rules_added' \in [Rules -> Nat] /\ rules' \subseteq Rules
         /\ match_rules' \in [Proxies -> SUBSET Rules] /\ errors' \in BOOLEAN
         /\ Counting' /\ (errors => errors') /\ (~success => errors')
         /\ \A q \in Proxies : q # p => match_rules'[q] = match_rules[q]
         /\ match_rules[p] \subseteq match_rules'[p] /\ match_rules'[p] \subseteq match_rules[p] \union {r}
         /\ success => r \in match_rules'[p]
<1>0. /\ match_rules_added \in [Rules -> Nat] /\ rules \subseteq Rules /\ errors \in BOOLEAN
      /\ match_rules \in [Proxies -> SUBSET Rules]
  BY DEF TypeOK
<1>1. CASE r \in match_rules[p]
  <2>1. success /\ UNCHANGED <<match_rules_added, rules, match_rules, errors>>
    BY <1>1 DEF AddMatchRule
  <2>2. Counting'
    BY <2>1 DEF Counting, Filtered, Held, Holders
  <2> QED
    BY <1>0, <1>1, <2>1, <2>2
<1>2. CASE r \notin match_rules[p]
  <2>1. /\ match_rules_added[r] > 0 => success
        /\ match_rules_added' = [match_rules_added EXCEPT ![r] = match_rules_added[r] + 1]
        /\ rules' = IF success /\ match_rules_added[r] = 0 THEN rules \union {r} ELSE rules
        /\ errors' = (errors \/ ~success)
        /\ match_rules' = IF success THEN [match_rules EXCEPT ![p] = @ \union {r}] ELSE match_rules
    BY <1>2 DEF AddMatchRule, AddMatch, Counted
  <2>2. errors' \in BOOLEAN /\ (errors => errors') /\ (~success => errors')
    BY <2>1
  <2>3. /\ match_rules' \in [Proxies -> SUBSET Rules]
        /\ \A q \in Proxies : q # p => match_rules'[q] = match_rules[q]
        /\ match_rules[p] \subseteq match_rules'[p] /\ match_rules'[p] \subseteq match_rules[p] \union {r}
        /\ success => r \in match_rules'[p]
    BY <1>0, <2>1
  <2>4. /\ match_rules_added' \in [Rules -> Nat]
        /\ match_rules_added'[r] = match_rules_added[r] + 1
        /\ \A s \in Rules : s # r => match_rules_added'[s] = match_rules_added[s]
    BY <1>0, <2>1
  <2>5. rules' \subseteq Rules /\ \A s \in Rules : s # r => (s \in rules' <=> s \in rules)
    BY <1>0, <2>1
  <2>6. \A s \in Rules : s # r => Holders(s)' = Holders(s)
    BY <1>0, <2>3 DEF Holders
  <2>7. /\ ~success => Holders(r)' = Holders(r)
        /\ success => Holders(r)' = Holders(r) \union {p}
    BY <1>0, <2>1 DEF Holders
  <2>8. p \notin Holders(r)
    BY <1>2 DEF Holders
  <2>9. Held(r)' = IF success THEN Held(r) + 1 ELSE Held(r)
    <3>1. CASE success
      <4>1. Cardinality(Holders(r)') = Cardinality(Holders(r)) + 1
        BY <2>7, <2>8, <3>1, HoldersFinite, FS_AddElement
      <4> QED
        BY <3>1, <4>1, HoldersFinite DEF Held
    <3>2. CASE ~success
      BY <2>7, <3>2 DEF Held
    <3> QED
      BY <3>1, <3>2
  <2>10. \A s \in Rules : s # r => Held(s)' = Held(s)
    BY <2>6 DEF Held
  <2>11. Held(r) \in Nat
    BY HoldersFinite DEF Held
  <2>12. match_rules_added'[r] >= Held(r)'
    <3>1. match_rules_added[r] >= Held(r) /\ match_rules_added[r] \in Nat
      BY <1>0 DEF Counting
    <3> QED
      BY <2>4, <2>9, <2>11, <3>1
  <2>13. ASSUME ~errors'
         PROVE  match_rules_added'[r] = Held(r)' /\ (r \in rules' <=> match_rules_added'[r] > 0)
    <3>1. success /\ ~errors
      BY <2>1, <2>2, <2>13
    <3>2. match_rules_added[r] = Held(r) /\ (r \in rules <=> match_rules_added[r] > 0)
      BY <3>1 DEF Counting
    <3>3. match_rules_added'[r] = Held(r)'
      BY <2>4, <2>9, <3>1, <3>2
    <3>4. match_rules_added'[r] > 0
      BY <1>0, <2>4
    <3>5. match_rules_added[r] = 0 \/ match_rules_added[r] > 0
      BY <1>0
    <3>6. r \in rules'
      BY <2>1, <3>1, <3>2, <3>5
    <3> QED
      BY <3>3, <3>4, <3>6
  <2>14. ASSUME NEW s \in Rules, s # r
         PROVE  /\ match_rules_added'[s] >= Held(s)'
                /\ ~errors' => match_rules_added'[s] = Held(s)' /\ (s \in rules' <=> match_rules_added'[s] > 0)
    <3>1. Held(s)' = Held(s) /\ match_rules_added'[s] = match_rules_added[s] /\ (s \in rules' <=> s \in rules)
      BY <2>4, <2>5, <2>10, <2>14
    <3> QED
      BY <2>2, <3>1 DEF Counting
  <2>15. Filtered'
    BY <2>2 DEF Counting, Filtered
  <2>16. Counting'
    BY <2>12, <2>13, <2>14, <2>15 DEF Counting
  <2> QED
    BY <2>2, <2>3, <2>4, <2>5, <2>16
<1> QED
  BY <1>1, <1>2
\* How often a rule is held is a number, before and after a step.
LEMMA HeldType ==
  ASSUME NEW r
  PROVE  Held(r) \in Nat /\ Held(r)' \in Nat
<1>1. Cardinality(Holders(r)') \in Nat
  <2>1. Holders(r)' \in SUBSET Proxies
    BY DEF Holders
  <2> QED
    BY <2>1, BusAssumption, FS_Subset, FS_CardinalityType
<1> QED
  BY <1>1, HoldersFinite DEF Held

\* AddMatch for those who listen for owner changes.
LEMMA ListenFacts ==
  ASSUME TypeOK, Counting, NEW success \in BOOLEAN, AddMatch("owner", success),
         ~listening, listening' = success, filtering' = TRUE, match_rules' = match_rules
  PROVE  /\ match_rules_added' \in [Rules -> Nat] /\ rules' \subseteq Rules /\ errors' \in BOOLEAN
         /\ Counting' /\ (errors => errors')
<1>0. /\ match_rules_added \in [Rules -> Nat] /\ rules \subseteq Rules /\ errors \in BOOLEAN
      /\ "owner" \in Rules
  BY DEF TypeOK, Rules
<1>1. /\ match_rules_added["owner"] > 0 => success
      /\ match_rules_added' = [match_rules_added EXCEPT !["owner"] = match_rules_added["owner"] + 1]
      /\ rules' = IF success /\ match_rules_added["owner"] = 0 THEN rules \union {"owner"} ELSE rules
      /\ errors' = (errors \/ ~success)
  BY DEF AddMatch, Counted
<1>2. errors' \in BOOLEAN /\ (errors => errors') /\ (~errors' => success /\ ~errors)
  BY <1>1
<1>3. /\ match_rules_added' \in [Rules -> Nat]
      /\ match_rules_added'["owner"] = match_rules_added["owner"] + 1
      /\ \A s \in Rules : s # "owner" => match_rules_added'[s] = match_rules_added[s]
  BY <1>0, <1>1
<1>4. rules' \subseteq Rules /\ \A s \in Rules : s # "owner" => (s \in rules' <=> s \in rules)
  BY <1>0, <1>1
<1>5. \A s : Holders(s)' = Holders(s)
  BY DEF Holders
<1>6. Held("owner") = Cardinality(Holders("owner"))
  BY HoldersFinite DEF Held
<1>7. /\ success => Held("owner")' = Held("owner") + 1
      /\ ~success => Held("owner")' = Held("owner")
  <2>1. CASE success
    BY <1>5, <1>6, <2>1, HoldersFinite DEF Held
  <2>2. CASE ~success
    BY <1>5, <1>6, <2>2, HoldersFinite DEF Held
  <2> QED
    BY <2>1, <2>2
<1>8. match_rules_added'["owner"] >= Held("owner")'
  <2>1. match_rules_added["owner"] >= Held("owner") /\ match_rules_added["owner"] \in Nat
    BY <1>0 DEF Counting
  <2> QED
    BY <1>3, <1>7, <2>1, HeldType
<1>9. ASSUME ~errors'
      PROVE  match_rules_added'["owner"] = Held("owner")' /\ ("owner" \in rules' <=> match_rules_added'["owner"] > 0)
  <2>1. match_rules_added["owner"] = Held("owner") /\ ("owner" \in rules <=> match_rules_added["owner"] > 0)
    BY <1>0, <1>2, <1>9 DEF Counting
  <2>2. match_rules_added'["owner"] = Held("owner")'
    BY <1>2, <1>3, <1>7, <1>9, <2>1
  <2>3. match_rules_added'["owner"] > 0
    BY <1>0, <1>3
  <2>4. match_rules_added["owner"] = 0 \/ match_rules_added["owner"] > 0
    BY <1>0
  <2>5. "owner" \in rules'
    BY <1>1, <1>2, <1>9, <2>1, <2>4
  <2> QED
    BY <2>2, <2>3, <2>5
<1>10. ASSUME NEW s \in Rules, s # "owner"
       PROVE  /\ match_rules_added'[s] >= Held(s)'
              /\ ~errors' => match_rules_added'[s] = Held(s)' /\ (s \in rules' <=> match_rules_added'[s] > 0)
  <2>1. match_rules_added'[s] = match_rules_added[s] /\ (s \in rules' <=> s \in rules)
    BY <1>3, <1>4, <1>10
  <2>2. Held(s)' = Held(s)
    BY <1>5, <1>10 DEF Held
  <2> QED
    BY <1>2, <2>1, <2>2 DEF Counting
<1>11. Filtered'
  BY <1>2 DEF Filtered
<1>12. Counting'
  BY <1>8, <1>9, <1>10, <1>11 DEF Counting
<1> QED
  BY <1>2, <1>3, <1>4, <1>12

\* RemoveMatch by d[r] holders of each rule r; a rule whose removal fails stays at the
\* daemon, and is an error.
LEMMA RemoveMatchesFacts ==
  ASSUME TypeOK, Counting, NEW d \in [Rules -> Nat], Filtered',
         RemoveMatches([r \in Rules |-> match_rules_added[r] - d[r]]),
         \A r \in Rules : Held(r)' = Held(r) - d[r]
  PROVE  /\ match_rules_added' \in [Rules -> Nat] /\ rules' \subseteq rules /\ errors' \in BOOLEAN
         /\ Counting' /\ (errors => errors')
<1> DEFINE removed == [r \in Rules |-> match_rules_added[r] - d[r]]
           dropped == {r \in rules : removed[r] = 0 /\ match_rules_added[r] > 0}
<1>0. /\ match_rules_added \in [Rules -> Nat] /\ rules \subseteq Rules /\ errors \in BOOLEAN
  BY DEF TypeOK
<1>1. PICK kept \in SUBSET dropped : /\ match_rules_added' = removed
                                     /\ rules' = rules \ (dropped \ kept)
                                     /\ errors' = (errors \/ kept # {})
  BY DEF RemoveMatches
<1>e. errors' \in BOOLEAN /\ (errors => errors') /\ (~errors' => ~errors /\ kept = {})
  BY <1>0, <1>1
<1>2. ASSUME NEW r \in Rules
      PROVE  /\ match_rules_added'[r] \in Nat /\ match_rules_added'[r] = match_rules_added[r] - d[r]
             /\ match_rules_added'[r] >= Held(r)'
             /\ ~errors' => match_rules_added'[r] = Held(r)' /\ (r \in rules' <=> match_rules_added'[r] > 0)
  <2>1. match_rules_added'[r] = match_rules_added[r] - d[r] /\ removed[r] = match_rules_added[r] - d[r]
    BY <1>1
  <2>2. /\ match_rules_added[r] >= Held(r)
        /\ ~errors => match_rules_added[r] = Held(r) /\ (r \in rules <=> match_rules_added[r] > 0)
    BY DEF Counting
  <2>3. match_rules_added[r] \in Nat /\ d[r] \in Nat /\ Held(r) \in Nat /\ Held(r)' \in Nat
    BY <1>0, HeldType
  <2>4. Held(r)' = Held(r) - d[r]
    OBVIOUS
  <2>5. match_rules_added'[r] \in Nat /\ match_rules_added'[r] >= Held(r)'
    BY <2>1, <2>2, <2>3, <2>4
  <2>6. ASSUME ~errors'
        PROVE  match_rules_added'[r] = Held(r)' /\ (r \in rules' <=> match_rules_added'[r] > 0)
    <3>1. match_rules_added[r] = Held(r) /\ (r \in rules <=> match_rules_added[r] > 0)
      BY <1>e, <2>2, <2>6
    <3>2. match_rules_added'[r] = Held(r)'
      BY <2>1, <2>3, <2>4, <3>1
    <3>3. r \in rules' <=> r \in rules /\ ~(removed[r] = 0 /\ match_rules_added[r] > 0)
      BY <1>1, <1>e, <2>6
    <3>4. removed[r] > 0 => match_rules_added[r] > 0
      BY <2>1, <2>3
    <3>5. removed[r] > 0 \/ removed[r] = 0
      BY <2>1, <2>5
    <3>6. removed[r] > 0 => removed[r] # 0
      BY <2>1, <2>5
    <3> QED
      BY <2>1, <3>1, <3>2, <3>3, <3>4, <3>5, <3>6
  <2> QED
    BY <2>1, <2>5, <2>6
<1>3. match_rules_added' \in [Rules -> Nat]
  BY <1>1, <1>2
<1>4. rules' \subseteq rules
  BY <1>1
<1>5. Counting'
  BY <1>2 DEF Counting
<1> QED
  BY <1>3, <1>4, <1>5, <1>e

------------------------------------------------------------------------------
(* Tasks of the D-Bus thread *)

\* A step that neither touches rules nor what proxies know keeps the counters and owners.
LEMMA RulesKept ==
  ASSUME IInv, UNCHANGED <<match_rules_added, rules, match_rules, listening, filtering, errors>>
  PROVE  Counting'
<1>1. Counting
  BY DEF IInv
<1>2. \A r : Held(r)' = Held(r)
  BY DEF Held, Holders
<1> QED
  BY <1>1, <1>2 DEF Counting, Filtered

\* A task in the queue is still there when the first one is taken, unless it is that one.
LEMMA StillQueued ==
  ASSUME TypeOK, Queued, NEW kinds, Takes(kinds), NEW i \in 1..Len(dbus_tasks), dbus_tasks[i] # dbus_tasks[1]
  PROVE  \E j \in 1..Len(dbus_tasks') : dbus_tasks'[j] = dbus_tasks[i]
<1>1. /\ Len(dbus_tasks) \in Nat \ {0} /\ Len(dbus_tasks') = Len(dbus_tasks) - 1
      /\ \A k \in 1..(Len(dbus_tasks) - 1) : dbus_tasks'[k] = dbus_tasks[k + 1]
  BY TakesFacts
<1>2. i # 1
  OBVIOUS
<1>3. i - 1 \in 1..(Len(dbus_tasks) - 1) /\ i - 1 + 1 = i
  BY <1>1, <1>2
<1> QED
  BY <1>1, <1>3

\* Posting to the origin thread.
LEMMA PostedToOrigin ==
  ASSUME TypeOK, NEW t \in Task, origin_tasks' = Append(origin_tasks, t)
  PROVE  /\ origin_tasks' \in Seq(Task)
         /\ \A i \in 1..Len(origin_tasks) : i \in 1..Len(origin_tasks') /\ origin_tasks'[i] = origin_tasks[i]
         /\ \E i \in 1..Len(origin_tasks') : origin_tasks'[i] = t
<1>1. /\ origin_tasks' \in Seq(Task) /\ Len(origin_tasks) \in Nat /\ Len(origin_tasks') = Len(origin_tasks) + 1
      /\ \A i \in 1..Len(origin_tasks) : origin_tasks'[i] = origin_tasks[i]
      /\ origin_tasks'[Len(origin_tasks) + 1] = t
  BY AppendFacts DEF TypeOK
<1>2. /\ \A i \in 1..Len(origin_tasks) : i \in 1..Len(origin_tasks')
      /\ Len(origin_tasks) + 1 \in 1..Len(origin_tasks')
  BY <1>1
<1> QED
  BY <1>1, <1>2
\* Only proxies are attached.
LEMMA AttachedProxies ==
  ASSUME TypeOK, Queued
  PROVE  Attached \subseteq Proxies
BY DEF Attached, TypeOK, Queued

\* The answers that are posted.
LEMMA AnswerType ==
  ASSUME NEW p \in Proxies, NEW c \in Calls
  PROVE  /\ Answer(p, c) \in Task /\ Answer(p, c).kind = "answer" /\ Answer(p, c).call = c
         /\ Available(p) \in Task
BY DEF Answer, Available, Task

\* Who is told by something else than the first task still is when that is taken.
LEMMA TakeUnderWay ==
  ASSUME TypeOK, Queued, NEW kinds, Takes(kinds),
         \A i \in 1..Len(origin_tasks) : i \in 1..Len(origin_tasks') /\ origin_tasks'[i] = origin_tasks[i]
  PROVE  /\ \A c : /\ CallUnderWay(c)
                   /\ ~(dbus_tasks[1].kind = "call" /\ dbus_tasks[1].call = c)
                   /\ \A p \in Attached : c \in pending_calls[p] => p \in Attached' /\ c \in pending_calls'[p]
                   => CallUnderWay(c)'
         /\ \A p : /\ WaitUnderWay(p)
                   /\ ~(dbus_tasks[1].kind = "wait" /\ dbus_tasks[1].proxy = p)
                   => WaitUnderWay(p)'
<1>1. ASSUME NEW c, CallUnderWay(c), ~(dbus_tasks[1].kind = "call" /\ dbus_tasks[1].call = c),
             \A p \in Attached : c \in pending_calls[p] => p \in Attached' /\ c \in pending_calls'[p]
      PROVE  CallUnderWay(c)'
  <2>1. ASSUME NEW i \in 1..Len(dbus_tasks), dbus_tasks[i].kind = "call" /\ dbus_tasks[i].call = c
        PROVE  \E j \in 1..Len(dbus_tasks') : dbus_tasks'[j].kind = "call" /\ dbus_tasks'[j].call = c
    BY <1>1, <2>1, StillQueued
  <2> QED
    BY <1>1, <2>1 DEF CallUnderWay
<1>2. ASSUME NEW p, WaitUnderWay(p), ~(dbus_tasks[1].kind = "wait" /\ dbus_tasks[1].proxy = p)
      PROVE  WaitUnderWay(p)'
  <2>1. ASSUME NEW i \in 1..Len(dbus_tasks), dbus_tasks[i].kind = "wait" /\ dbus_tasks[i].proxy = p
        PROVE  \E j \in 1..Len(dbus_tasks') : dbus_tasks'[j].kind = "wait" /\ dbus_tasks'[j].proxy = p
    BY <1>2, <2>1, StillQueued
  <2>2. current = None
    BY DEF Takes, Idle
  <2> QED
    BY <1>2, <2>1, <2>2 DEF WaitUnderWay, Available
<1> QED
  BY <1>1, <1>2

\* StartAsyncMethodCall: the call is pending, or its answer is posted.
LEMMA StartAsyncMethodCallStep == ASSUME IInv, StartAsyncMethodCall PROVE IInv'
<1> USE DEF daemonVars, countVars
<1>1. TypeOK /\ Queued /\ AtTask /\ Turns /\ Registered /\ Told /\ Takes({"call"})
  BY DEF IInv, StartAsyncMethodCall
<1>2. /\ current = None /\ Head(dbus_tasks) = dbus_tasks[1] /\ dbus_tasks[1].kind = "call"
      /\ dbus_tasks[1].proxy \in Proxies /\ dbus_tasks[1].call \in Calls /\ dbus_tasks' \in Seq(Task)
  BY <1>1, TakesFacts
<1>3. PICK p \in Proxies, c \in Calls : p = dbus_tasks[1].proxy /\ c = dbus_tasks[1].call
  BY <1>2
<1>4. UNCHANGED <<shutdown_completed, on_shutdown, object_proxy_table, match_rules_added,
                  filter_functions_added, listening, filtering, match_rules, service_name_owner, waiting, current,
                  origin, daemonVars, countVars, call, errors, overtaken>>
  BY DEF StartAsyncMethodCall
<1>5. \/ /\ connected' = TRUE /\ pending_calls' = [pending_calls EXCEPT ![p] = @ \union {c}]
         /\ origin_tasks' = origin_tasks
      \/ /\ connected' = FALSE /\ connected = FALSE /\ origin_tasks' = Append(origin_tasks, Answer(p, c))
         /\ pending_calls' = pending_calls
  BY <1>1, <1>2, <1>3 DEF StartAsyncMethodCall, Connect, TypeOK
<1>6. Queued' /\ Attached \subseteq Attached' /\ p \in Attached'
  BY <1>1, <1>2, <1>3, <1>4, TakeQueued
<1>7. Turns'
  BY <1>1, <1>2, <1>4, TakeTurns
<1>8. Answer(p, c) \in Task /\ Answer(p, c).kind = "answer" /\ Answer(p, c).call = c
  BY AnswerType
<1>9. /\ origin_tasks' \in Seq(Task) /\ connected' \in BOOLEAN
      /\ \A i \in 1..Len(origin_tasks) : i \in 1..Len(origin_tasks') /\ origin_tasks'[i] = origin_tasks[i]
      /\ pending_calls' \in [Proxies -> SUBSET Calls]
      /\ \A q \in Proxies : pending_calls[q] \subseteq pending_calls'[q] /\ (q # p => pending_calls'[q] = pending_calls[q])
      /\ c \in pending_calls'[p] \/ \E i \in 1..Len(origin_tasks') : origin_tasks'[i] = Answer(p, c)
      /\ ~connected' => ~connected /\ pending_calls' = pending_calls
  <2>1. CASE /\ connected' = TRUE /\ pending_calls' = [pending_calls EXCEPT ![p] = @ \union {c}]
             /\ origin_tasks' = origin_tasks
    BY <1>1, <2>1 DEF TypeOK
  <2>2. CASE /\ connected' = FALSE /\ connected = FALSE /\ origin_tasks' = Append(origin_tasks, Answer(p, c))
             /\ pending_calls' = pending_calls
    <3>1. /\ origin_tasks' \in Seq(Task)
          /\ \A i \in 1..Len(origin_tasks) : i \in 1..Len(origin_tasks') /\ origin_tasks'[i] = origin_tasks[i]
          /\ \E i \in 1..Len(origin_tasks') : origin_tasks'[i] = Answer(p, c)
      BY <1>1, <1>8, <2>2, PostedToOrigin
    <3> QED
      BY <1>1, <2>2, <3>1 DEF TypeOK
  <2> QED
    BY <1>5, <2>1, <2>2
<1>10. TypeOK'
  BY <1>1, <1>2, <1>4, <1>9 DEF TypeOK
<1>11. AtTask'
  BY <1>2, <1>4 DEF AtTask
<1>12. Registered'
  <2>1. filter_functions_added' \subseteq Attached'
    BY <1>1, <1>4, <1>6 DEF Registered
  <2>2. ASSUME NEW q \in Proxies
        PROVE  /\ pending_calls'[q] # {} \/ match_rules'[q] # {} => q \in Attached'
               /\ "owner" \in match_rules'[q] => q \in filter_functions_added'
    <3>1. CASE q = p
      BY <1>1, <1>4, <1>6, <3>1 DEF Registered
    <3>2. CASE q # p
      BY <1>1, <1>4, <1>6, <1>9, <3>2 DEF Registered
    <3> QED
      BY <3>1, <3>2
  <2>3. ASSUME ~connected'
        PROVE  /\ filter_functions_added' = {} /\ ~listening' /\ rules' = {}
               /\ \A q \in Proxies : pending_calls'[q] = {} /\ match_rules'[q] = {}
    BY <1>1, <1>4, <1>9, <2>3 DEF Registered
  <2> QED
    BY <2>1, <2>2, <2>3 DEF Registered
<1>13. Counting'
  BY <1>4, RulesKept
<1>14. OwnerIsTracked'
  BY <1>4 DEF IInv, OwnerIsTracked
<1>15. Told'
  <2>1. ASSUME NEW d \in Calls, call'[d] = "made" PROVE CallUnderWay(d)'
    <3>1. CallUnderWay(d)
      BY <1>1, <1>4, <2>1 DEF Told
    <3>2. \A q \in Attached : d \in pending_calls[q] => q \in Attached' /\ d \in pending_calls'[q]
      <4>1. Attached \subseteq Proxies
        BY <1>1, AttachedProxies
      <4> QED
        BY <1>6, <1>9, <4>1
    <3>3. CASE d = c
      BY <1>6, <1>8, <1>9, <3>3 DEF CallUnderWay
    <3>4. CASE d # c
      BY <1>1, <1>3, <1>9, <3>1, <3>2, <3>4, TakeUnderWay
    <3> QED
      BY <3>3, <3>4
  <2>2. \A q : WaitUnderWay(q) => WaitUnderWay(q)'
    BY <1>1, <1>2, <1>9, TakeUnderWay
  <2> QED
    BY <1>1, <1>4, <2>1, <2>2 DEF Told
<1> QED
  BY <1>6, <1>7, <1>10, <1>11, <1>12, <1>13, <1>14, <1>15 DEF IInv
\* Without a connection ConnectToSignalInternal gives up, and a wait is answered.
LEMMA ConnectFailsStep == ASSUME IInv, ConnectFails PROVE IInv'
<1> USE DEF proxyVars, daemonVars, countVars
<1>1. TypeOK /\ Queued /\ AtTask /\ Turns /\ Registered /\ Told /\ Takes({"wait", "connect"})
  BY DEF IInv, ConnectFails
<1>2. /\ current = None /\ Head(dbus_tasks) = dbus_tasks[1] /\ dbus_tasks[1].kind \in {"wait", "connect"}
      /\ dbus_tasks[1].proxy \in Proxies /\ dbus_tasks' \in Seq(Task)
  BY <1>1, TakesFacts
<1>3. PICK p \in Proxies : p = dbus_tasks[1].proxy
  BY <1>2
<1>4. UNCHANGED <<shutdown_completed, on_shutdown, object_proxy_table, match_rules_added,
                  filter_functions_added, listening, filtering, proxyVars, waiting, current, origin, daemonVars,
                  countVars, call, errors, overtaken>>
  BY DEF ConnectFails
<1>5. connected' = FALSE /\ connected = FALSE
  BY <1>1 DEF ConnectFails, Connect, TypeOK
<1>6. origin_tasks' = IF dbus_tasks[1].kind = "wait" THEN Append(origin_tasks, Available(p)) ELSE origin_tasks
  BY <1>2, <1>3 DEF ConnectFails
<1>7. Queued' /\ Attached \subseteq Attached'
  BY <1>1, <1>2, <1>4, TakeQueued
<1>8. Turns'
  BY <1>1, <1>2, <1>4, TakeTurns
<1>9. /\ origin_tasks' \in Seq(Task)
      /\ \A i \in 1..Len(origin_tasks) : i \in 1..Len(origin_tasks') /\ origin_tasks'[i] = origin_tasks[i]
      /\ dbus_tasks[1].kind = "wait" => \E i \in 1..Len(origin_tasks') : origin_tasks'[i] = Available(p)
  <2>1. CASE dbus_tasks[1].kind = "wait"
    <3>1. Available(p) \in Task /\ origin_tasks' = Append(origin_tasks, Available(p))
      BY <1>6, <2>1 DEF Available, Task
    <3> QED
      BY <1>1, <3>1, PostedToOrigin
  <2>2. CASE dbus_tasks[1].kind # "wait"
    BY <1>1, <1>6, <2>2 DEF TypeOK
  <2> QED
    BY <2>1, <2>2
<1>10. TypeOK'
  BY <1>1, <1>2, <1>4, <1>5, <1>9 DEF TypeOK
<1>11. AtTask'
  BY <1>2, <1>4 DEF AtTask
<1>12. Registered'
  BY <1>1, <1>4, <1>5, <1>7 DEF Registered
<1>13. Counting'
  BY <1>4, RulesKept
<1>14. OwnerIsTracked'
  BY <1>4 DEF IInv, OwnerIsTracked
<1>15. Told'
  <2>1. ASSUME NEW d \in Calls, CallUnderWay(d) PROVE CallUnderWay(d)'
    BY <1>1, <1>2, <1>4, <1>7, <1>9, <2>1, TakeUnderWay
  <2>2. ASSUME NEW q, WaitUnderWay(q) PROVE WaitUnderWay(q)'
    <3>1. CASE dbus_tasks[1].kind = "wait" /\ dbus_tasks[1].proxy = q
      BY <1>3, <1>9, <3>1 DEF WaitUnderWay, Available
    <3>2. CASE ~(dbus_tasks[1].kind = "wait" /\ dbus_tasks[1].proxy = q)
      BY <1>1, <1>9, <2>2, <3>2, TakeUnderWay
    <3> QED
      BY <3>1, <3>2
  <2> QED
    BY <1>1, <1>4, <2>1, <2>2 DEF Told
<1> QED
  BY <1>7, <1>8, <1>10, <1>11, <1>12, <1>13, <1>14, <1>15 DEF IInv

\* ConnectToNameOwnerChangedSignal: the filter and the rule come before the question.
LEMMA ConnectStep == ASSUME IInv, ConnectToNameOwnerChangedSignal PROVE IInv'
<1> USE DEF countVars
<1>1. TypeOK /\ Queued /\ AtTask /\ Turns /\ Registered /\ Counting /\ OwnerIsTracked /\ Told
      /\ Takes({"wait", "connect"})
  BY DEF IInv, ConnectToNameOwnerChangedSignal
<1>2. /\ current = None /\ Head(dbus_tasks) = dbus_tasks[1] /\ dbus_tasks[1].kind \in {"wait", "connect"}
      /\ dbus_tasks[1] \in Task /\ dbus_tasks[1].proxy \in Proxies /\ dbus_tasks' \in Seq(Task)
  BY <1>1, TakesFacts
<1>3. PICK p \in Proxies, t \in Task : t = dbus_tasks[1] /\ p = t.proxy
  BY <1>2
<1>4. UNCHANGED <<shutdown_completed, on_shutdown, object_proxy_table, listening, filtering, service_name_owner,
                  pending_calls, waiting, origin_tasks, origin, owner, incoming, countVars, call, overtaken>>
  BY DEF ConnectToNameOwnerChangedSignal
<1>5. PICK success \in BOOLEAN :
        /\ AddMatchRule(p, "owner", success)
        /\ current' = [task |-> t, stage |-> "query", ok |-> success]
  BY <1>2, <1>3 DEF ConnectToNameOwnerChangedSignal
<1>6. connected' = TRUE /\ filter_functions_added' = filter_functions_added \union {p}
  BY <1>2, <1>3 DEF ConnectToNameOwnerChangedSignal, Connect
<1>7. Queued' /\ Attached \subseteq Attached' /\ p \in Attached'
  BY <1>1, <1>2, <1>3, <1>4, TakeQueued
<1>8. Turns'
  BY <1>1, <1>2, <1>4, TakeTurns
<1>9. /\ match_rules_added' \in [Rules -> Nat] /\ rules' \subseteq Rules
      /\ match_rules' \in [Proxies -> SUBSET Rules] /\ errors' \in BOOLEAN
      /\ Counting' /\ (errors => errors') /\ (~success => errors')
      /\ \A q \in Proxies : q # p => match_rules'[q] = match_rules[q]
      /\ match_rules[p] \subseteq match_rules'[p] /\ match_rules'[p] \subseteq match_rules[p] \union {"owner"}
      /\ success => "owner" \in match_rules'[p]
  BY <1>1, <1>4, <1>5, AddMatchRuleFacts DEF Rules
<1>10. /\ current' \in At /\ current' # None
       /\ current'.task = t /\ current'.stage = "query" /\ current'.ok = success
  BY <1>5, NoneAssumption DEF At
<1>11. TypeOK'
  BY <1>1, <1>2, <1>4, <1>6, <1>9, <1>10 DEF TypeOK
<1>12. AtTask'
  BY <1>2, <1>3, <1>6, <1>7, <1>9, <1>10 DEF AtTask
<1>13. Registered'
  <2>1. filter_functions_added' \subseteq Attached'
    BY <1>1, <1>6, <1>7 DEF Registered
  <2>2. ASSUME NEW q \in Proxies
        PROVE  /\ pending_calls'[q] # {} \/ match_rules'[q] # {} => q \in Attached'
               /\ "owner" \in match_rules'[q] => q \in filter_functions_added'
    <3>1. CASE q = p
      BY <1>6, <1>7, <3>1
    <3>2. CASE q # p
      BY <1>1, <1>4, <1>6, <1>7, <1>9, <3>2 DEF Registered
    <3> QED
      BY <3>1, <3>2
  <2> QED
    BY <1>6, <2>1, <2>2 DEF Registered
<1>14. OwnerIsTracked'
  <2> SUFFICES ASSUME NEW q \in Proxies \ overtaken', "owner" \in match_rules'[q], ~errors',
                      ~(current' # None /\ current'.task.proxy = q /\ current'.stage = "query")
               PROVE  owner' = IF incoming' = <<>> THEN service_name_owner'[q] ELSE incoming'[Len(incoming')]
    BY DEF OwnerIsTracked
  <2>1. q # p
    BY <1>3, <1>10
  <2>2. "owner" \in match_rules[q] /\ ~errors /\ q \in Proxies \ overtaken
    BY <1>4, <1>9, <2>1
  <2> QED
    BY <1>1, <1>2, <1>4, <2>2 DEF OwnerIsTracked
<1>15. Told'
  <2>1. ASSUME NEW d \in Calls, CallUnderWay(d) PROVE CallUnderWay(d)'
    BY <1>1, <1>2, <1>4, <1>7, <2>1, TakeUnderWay
  <2>2. ASSUME NEW q, WaitUnderWay(q) PROVE WaitUnderWay(q)'
    <3>1. CASE dbus_tasks[1].kind = "wait" /\ dbus_tasks[1].proxy = q
      BY <1>3, <1>10, <3>1 DEF WaitUnderWay
    <3>2. CASE ~(dbus_tasks[1].kind = "wait" /\ dbus_tasks[1].proxy = q)
      BY <1>1, <1>4, <2>2, <3>2, TakeUnderWay
    <3> QED
      BY <3>1, <3>2
  <2>3. \A q \in Proxies : match_rules[q] \subseteq match_rules'[q]
    BY <1>9
  <2>4. object_proxy_table \subseteq Proxies
    BY <1>1 DEF TypeOK
  <2> QED
    BY <1>1, <1>4, <1>9, <2>1, <2>2, <2>3, <2>4 DEF Told
<1> QED
  BY <1>7, <1>8, <1>9, <1>11, <1>12, <1>13, <1>14, <1>15 DEF IInv

\* ListenForServiceOwnerChangeInternal: nobody listened before.
LEMMA ListenStep == ASSUME IInv, ListenInternal PROVE IInv'
<1> USE DEF proxyVars, countVars
<1>1. TypeOK /\ Queued /\ AtTask /\ Turns /\ Registered /\ Counting /\ OwnerIsTracked /\ Told /\ Takes({"listen"})
  BY DEF IInv, ListenInternal
<1>2. /\ current = None /\ Len(dbus_tasks) \in Nat \ {0} /\ dbus_tasks[1].kind = "listen"
      /\ dbus_tasks' \in Seq(Task)
  BY <1>1, TakesFacts
<1>3. ~listening
  <2>1. 1 \in 1..Len(dbus_tasks) /\ \A j \in 1..(1 - 1) : FALSE
    BY <1>2
  <2>2. Unlistened(1)
    BY <1>1, <1>2, <2>1 DEF Turns
  <2> QED
    BY <2>1, <2>2 DEF Unlistened
<1>4. UNCHANGED <<shutdown_completed, on_shutdown, object_proxy_table, filter_functions_added, proxyVars,
                  waiting, origin_tasks, current, origin, owner, incoming, countVars, call, overtaken>>
  BY DEF ListenInternal
<1>5. \/ /\ connected' = FALSE /\ connected = FALSE /\ UNCHANGED <<match_rules_added, rules, errors, listening, filtering>>
      \/ /\ connected' = TRUE /\ filtering' = TRUE
         /\ \E success \in BOOLEAN : AddMatch("owner", success) /\ listening' = success
  BY <1>1 DEF ListenInternal, Connect, TypeOK
<1>6. Queued' /\ Attached \subseteq Attached'
  BY <1>1, <1>2, <1>4, TakeQueued
<1>7. Turns'
  BY <1>1, <1>2, <1>4, TakeTurns
<1>8. /\ match_rules_added' \in [Rules -> Nat] /\ rules' \subseteq Rules /\ errors' \in BOOLEAN
      /\ connected' \in BOOLEAN /\ listening' \in BOOLEAN /\ filtering' \in BOOLEAN
      /\ Counting' /\ (errors => errors') /\ (~connected' => ~listening' /\ ~connected /\ rules' = rules)
  <2>1. CASE /\ connected' = FALSE /\ connected = FALSE
             /\ UNCHANGED <<match_rules_added, rules, errors, listening, filtering>>
    <3>1. Counting'
      BY <1>4, <2>1, RulesKept
    <3> QED
      BY <1>1, <1>3, <2>1, <3>1 DEF TypeOK
  <2>2. CASE /\ connected' = TRUE /\ filtering' = TRUE
             /\ \E success \in BOOLEAN : AddMatch("owner", success) /\ listening' = success
    BY <1>1, <1>3, <1>4, <2>2, ListenFacts
  <2> QED
    BY <1>5, <2>1, <2>2
<1>9. TypeOK'
  BY <1>1, <1>2, <1>4, <1>8 DEF TypeOK
<1>10. AtTask'
  BY <1>2, <1>4 DEF AtTask
<1>11. Registered'
  BY <1>1, <1>4, <1>6, <1>8 DEF Registered
<1>12. OwnerIsTracked'
  BY <1>1, <1>4, <1>8 DEF OwnerIsTracked
<1>13. Told'
  <2>1. ASSUME NEW d \in Calls, CallUnderWay(d) PROVE CallUnderWay(d)'
    BY <1>1, <1>2, <1>4, <1>6, <2>1, TakeUnderWay
  <2>2. \A q : WaitUnderWay(q) => WaitUnderWay(q)'
    BY <1>1, <1>2, <1>4, TakeUnderWay
  <2> QED
    BY <1>1, <1>4, <1>8, <2>1, <2>2 DEF Told
<1> QED
  BY <1>6, <1>7, <1>8, <1>9, <1>10, <1>11, <1>12, <1>13 DEF IInv

\* UnlistenForServiceOwnerChangeInternal: the rule is given back if there was one.
LEMMA UnlistenStep == ASSUME IInv, UnlistenInternal PROVE IInv'
<1> USE DEF proxyVars, countVars
<1>1. TypeOK /\ Queued /\ AtTask /\ Turns /\ Registered /\ Counting /\ OwnerIsTracked /\ Told /\ Takes({"unlisten"})
  BY DEF IInv, UnlistenInternal
<1>2. current = None /\ dbus_tasks[1].kind = "unlisten" /\ dbus_tasks' \in Seq(Task)
  BY <1>1, TakesFacts
<1>3. UNCHANGED <<connected, shutdown_completed, on_shutdown, object_proxy_table, filter_functions_added,
                  proxyVars, waiting, origin_tasks, current, origin, owner, incoming, countVars, call, overtaken>>
  BY DEF UnlistenInternal
<1>4. /\ listening' = FALSE
      /\ IF listening
           THEN filtering' = FALSE /\ RemoveMatches([match_rules_added EXCEPT !["owner"] = @ - 1])
           ELSE UNCHANGED <<filtering, match_rules_added, rules, errors>>
  BY DEF UnlistenInternal
<1>5. Queued' /\ Attached \subseteq Attached'
  BY <1>1, <1>2, <1>3, TakeQueued
<1>6. Turns'
  BY <1>1, <1>2, <1>3, <1>4, TakeTurns
<1>7. /\ match_rules_added' \in [Rules -> Nat] /\ rules' \subseteq rules /\ errors' \in BOOLEAN
      /\ Counting' /\ (errors => errors') /\ filtering' \in BOOLEAN
  <2>1. CASE ~listening
    <3>1. listening' = listening /\ UNCHANGED <<filtering, match_rules_added, rules, errors>>
      BY <1>1, <1>4, <2>1 DEF TypeOK
    <3>2. Counting'
      BY <1>3, <3>1, RulesKept
    <3> QED
      BY <1>1, <3>1, <3>2 DEF TypeOK
  <2>2. CASE listening
    <3> DEFINE d == [r \in Rules |-> IF r = "owner" THEN 1 ELSE 0]
    <3>1. [match_rules_added EXCEPT !["owner"] = @ - 1] = [r \in Rules |-> match_rules_added[r] - d[r]]
      <4>1. match_rules_added \in [Rules -> Nat]
        BY <1>1 DEF TypeOK
      <4>2. \A r \in Rules : d[r] = IF r = "owner" THEN 1 ELSE 0
        OBVIOUS
      <4> HIDE DEF d
      <4>3. \A r \in Rules : [match_rules_added EXCEPT !["owner"] = @ - 1][r] = match_rules_added[r] - d[r]
        BY <4>1, <4>2
      <4> QED
        BY <4>1, <4>3
    <3>2. \A r \in Rules : Holders(r)' = Holders(r) /\ Cardinality(Holders(r)) \in Nat
      BY <1>3, HoldersFinite DEF Holders
    <3>3. \A r \in Rules : Held(r)' = Held(r) - d[r]
      BY <1>4, <2>2, <3>2 DEF Held
    <3>4. d \in [Rules -> Nat]
      OBVIOUS
    <3> HIDE DEF d
    <3>5. RemoveMatches([r \in Rules |-> match_rules_added[r] - d[r]])
      BY <1>4, <2>2, <3>1
    <3>6. filtering' = FALSE /\ Filtered'
      BY <1>4, <2>2 DEF Filtered
    <3>7. /\ match_rules_added' \in [Rules -> Nat] /\ rules' \subseteq rules /\ errors' \in BOOLEAN
          /\ Counting' /\ (errors => errors')
      BY <1>1, <3>3, <3>4, <3>5, <3>6, RemoveMatchesFacts
    <3> QED
      BY <3>6, <3>7
  <2> QED
    BY <2>1, <2>2
<1>8. TypeOK'
  BY <1>1, <1>2, <1>3, <1>4, <1>7 DEF TypeOK
<1>9. AtTask'
  BY <1>2, <1>3 DEF AtTask
<1>10. Registered'
  BY <1>1, <1>3, <1>4, <1>5, <1>7 DEF Registered
<1>11. OwnerIsTracked'
  BY <1>1, <1>3, <1>7 DEF OwnerIsTracked
<1>12. Told'
  <2>1. ASSUME NEW d \in Calls, CallUnderWay(d) PROVE CallUnderWay(d)'
    BY <1>1, <1>2, <1>3, <1>5, <2>1, TakeUnderWay
  <2>2. \A q : WaitUnderWay(q) => WaitUnderWay(q)'
    BY <1>1, <1>2, <1>3, TakeUnderWay
  <2> QED
    BY <1>1, <1>3, <1>7, <2>1, <2>2 DEF Told
<1> QED
  BY <1>5, <1>6, <1>7, <1>8, <1>9, <1>10, <1>11, <1>12 DEF IInv
\* RemoveObjectProxyInternal: everything that is registered for the proxy goes with it.
LEMMA RemoveStep == ASSUME IInv, RemoveObjectProxyInternal PROVE IInv'
<1> USE DEF countVars
<1>1. TypeOK /\ Queued /\ AtTask /\ Turns /\ Registered /\ Counting /\ OwnerIsTracked /\ Told /\ Takes({"remove"})
  BY DEF IInv, RemoveObjectProxyInternal
<1>2. /\ current = None /\ Head(dbus_tasks) = dbus_tasks[1] /\ dbus_tasks[1].kind = "remove"
      /\ Len(dbus_tasks) \in Nat \ {0} /\ dbus_tasks[1].proxy \in Proxies /\ dbus_tasks' \in Seq(Task)
  BY <1>1, TakesFacts
<1>3. PICK p \in Proxies : p = dbus_tasks[1].proxy
  BY <1>2
<1>4. p \notin object_proxy_table
  <2>1. 1 \in 1..Len(dbus_tasks)
    BY <1>2
  <2> QED
    BY <1>1, <1>2, <1>3, <2>1 DEF Queued
<1>5. UNCHANGED <<connected, shutdown_completed, on_shutdown, object_proxy_table, listening, filtering,
                  service_name_owner, waiting, origin_tasks, current, origin, owner, incoming, countVars,
                  overtaken>>
  BY DEF RemoveObjectProxyInternal
<1>6. Detach({p}) /\ RemoveMatches([r \in Rules |-> Removed({p}, r)])
  BY <1>2, <1>3 DEF RemoveObjectProxyInternal
<1>7. /\ match_rules' = [q \in Proxies |-> IF q \in {p} THEN {} ELSE match_rules[q]]
      /\ pending_calls' = [q \in Proxies |-> IF q \in {p} THEN {} ELSE pending_calls[q]]
      /\ call' = [c \in Calls |-> IF \E q \in {p} : c \in pending_calls[q] THEN "cancelled" ELSE call[c]]
      /\ filter_functions_added' = IF connected THEN filter_functions_added \ {p} ELSE filter_functions_added
  BY <1>6 DEF Detach
<1>8. /\ match_rules'[p] = {} /\ pending_calls'[p] = {}
      /\ \A q \in Proxies : q # p => match_rules'[q] = match_rules[q] /\ pending_calls'[q] = pending_calls[q]
      /\ \A c \in Calls : call'[c] = "made" => call[c] = "made" /\ c \notin pending_calls[p]
      /\ filter_functions_added' = filter_functions_added \ {p}
  BY <1>1, <1>7 DEF Registered
<1>9. Queued' /\ \A q \in Attached : q \in Attached' \/ q = p
  BY <1>1, <1>2, <1>3, <1>5, TakeQueued
<1>10. Turns'
  BY <1>1, <1>2, <1>5, TakeTurns
<1>11. /\ match_rules_added' \in [Rules -> Nat] /\ rules' \subseteq rules /\ errors' \in BOOLEAN
       /\ Counting' /\ (errors => errors')
  <2> DEFINE d == [r \in Rules |-> Cardinality({h \in {p} : r \in match_rules[h]})]
  <2>1. [r \in Rules |-> Removed({p}, r)] = [r \in Rules |-> match_rules_added[r] - d[r]]
    BY DEF Removed
  <2>2. ASSUME NEW r \in Rules PROVE d[r] = IF p \in Holders(r) THEN 1 ELSE 0
    <3>1. CASE r \in match_rules[p]
      <4>1. {h \in {p} : r \in match_rules[h]} = {p}
        BY <3>1
      <4>2. Cardinality({p}) = 1
        BY FS_Singleton
      <4> QED
        BY <3>1, <4>1, <4>2 DEF Holders
    <3>2. CASE r \notin match_rules[p]
      <4>1. {h \in {p} : r \in match_rules[h]} = {}
        BY <3>2
      <4>2. Cardinality({}) = 0
        BY FS_EmptySet
      <4> QED
        BY <3>2, <4>1, <4>2 DEF Holders
    <3> QED
      BY <3>1, <3>2
  <2>3. d \in [Rules -> Nat]
    <3> HIDE DEF Holders
    <3>1. \A r \in Rules : d[r] \in Nat
      BY <2>2
    <3> QED
      BY <3>1
  <2> HIDE DEF d
  <2>4. ASSUME NEW r \in Rules PROVE Held(r)' = Held(r) - d[r]
    <3>1. Holders(r)' = Holders(r) \ {p}
      BY <1>8 DEF Holders
    <3>2. Cardinality(Holders(r) \ {p}) = IF p \in Holders(r) THEN Cardinality(Holders(r)) - 1 ELSE Cardinality(Holders(r))
      BY HoldersFinite, FS_RemoveElement
    <3>3. Cardinality(Holders(r)) \in Nat
      BY HoldersFinite
    <3>4. Cardinality(Holders(r)') = Cardinality(Holders(r)) - d[r]
      BY <2>2, <3>1, <3>2, <3>3
    <3> QED
      BY <1>5, <2>2, <3>3, <3>4 DEF Held
  <2>5. RemoveMatches([r \in Rules |-> match_rules_added[r] - d[r]])
    BY <1>6, <2>1
  <2>6. errors => errors'
    BY <1>1, <1>6 DEF RemoveMatches, TypeOK
  <2>7. Filtered'
    BY <1>1, <1>5, <2>6 DEF Counting, Filtered
  <2> QED
    BY <1>1, <2>3, <2>4, <2>5, <2>7, RemoveMatchesFacts
<1>12. TypeOK'
  <2>1. match_rules' \in [Proxies -> SUBSET Rules] /\ pending_calls' \in [Proxies -> SUBSET Calls]
    BY <1>1, <1>7 DEF TypeOK
  <2>2. call' \in [Calls -> {"unused", "made", "answered", "cancelled"}]
    BY <1>1, <1>7 DEF TypeOK
  <2>3. filter_functions_added' \subseteq Proxies
    BY <1>1, <1>8 DEF TypeOK
  <2> QED
    BY <1>1, <1>2, <1>5, <1>11, <2>1, <2>2, <2>3 DEF TypeOK
<1>13. AtTask'
  BY <1>2, <1>5 DEF AtTask
<1>14. Registered'
  <2>1. filter_functions_added' \subseteq Attached'
    BY <1>1, <1>8, <1>9 DEF Registered
  <2>2. ASSUME NEW q \in Proxies
        PROVE  /\ pending_calls'[q] # {} \/ match_rules'[q] # {} => q \in Attached'
               /\ "owner" \in match_rules'[q] => q \in filter_functions_added'
    <3>1. CASE q = p
      BY <1>8, <3>1
    <3>2. CASE q # p
      BY <1>1, <1>8, <1>9, <3>2 DEF Registered
    <3> QED
      BY <3>1, <3>2
  <2>3. rules' \subseteq rules
    BY <1>11
  <2>4. ASSUME ~connected'
        PROVE  /\ filter_functions_added' = {} /\ ~listening' /\ rules' = {}
               /\ \A q \in Proxies : pending_calls'[q] = {} /\ match_rules'[q] = {}
    BY <1>1, <1>5, <1>8, <2>3, <2>4 DEF Registered
  <2> QED
    BY <2>1, <2>2, <2>4 DEF Registered
<1>15. OwnerIsTracked'
  <2>1. \A q \in Proxies : "owner" \in match_rules'[q] => "owner" \in match_rules[q]
    BY <1>8
  <2> QED
    BY <1>1, <1>5, <1>11, <2>1 DEF OwnerIsTracked
<1>16. Told'
  <2>1. ASSUME NEW c \in Calls, call'[c] = "made" PROVE CallUnderWay(c)'
    <3>1. CallUnderWay(c) /\ c \notin pending_calls[p]
      BY <1>1, <1>8, <2>1 DEF Told
    <3>2. Attached \subseteq Proxies
      BY <1>1, AttachedProxies
    <3>3. \A q \in Attached : c \in pending_calls[q] => q \in Attached' /\ c \in pending_calls'[q]
      BY <1>8, <1>9, <3>1, <3>2
    <3> QED
      BY <1>1, <1>2, <1>5, <3>1, <3>3, TakeUnderWay
  <2>2. \A q : WaitUnderWay(q) => WaitUnderWay(q)'
    BY <1>1, <1>2, <1>5, TakeUnderWay
  <2>3. \A q \in object_proxy_table : q # p /\ match_rules'[q] = match_rules[q]
    BY <1>1, <1>4, <1>8 DEF TypeOK
  <2> QED
    BY <1>1, <1>5, <1>11, <2>1, <2>2, <2>3 DEF Told
<1> QED
  BY <1>9, <1>10, <1>11, <1>12, <1>13, <1>14, <1>15, <1>16 DEF IInv

\* ShutdownAndBlock, the last task: nothing is left.
LEMMA ShutdownStep == ASSUME IInv, ShutdownAndBlock PROVE IInv'
<1> USE DEF countVars
<1>1. TypeOK /\ Queued /\ AtTask /\ Turns /\ Registered /\ Counting /\ OwnerIsTracked /\ Told /\ Takes({"shutdown"})
  BY DEF IInv, ShutdownAndBlock
<1>2. /\ current = None /\ dbus_tasks[1].kind = "shutdown" /\ Len(dbus_tasks) \in Nat \ {0}
      /\ dbus_tasks' \in Seq(Task) /\ Len(dbus_tasks') = Len(dbus_tasks) - 1
  BY <1>1, TakesFacts
<1>3. Len(dbus_tasks) = 1 /\ origin # "running" /\ Len(dbus_tasks') = 0
  <2>1. 1 \in 1..Len(dbus_tasks)
    BY <1>2
  <2>2. Len(dbus_tasks) = 1 /\ origin # "running"
    BY <1>1, <1>2, <2>1 DEF Queued
  <2> QED
    BY <1>2, <2>2
<1>4. UNCHANGED <<listening, filtering, service_name_owner, waiting, origin_tasks, current, origin, owner, countVars,
                  errors, overtaken>>
  BY DEF ShutdownAndBlock
<1>5. /\ object_proxy_table' = {} /\ connected' = FALSE /\ rules' = {} /\ incoming' = <<>>
      /\ shutdown_completed' = TRUE /\ on_shutdown' = TRUE
      /\ match_rules_added' = [r \in Rules |-> Removed(object_proxy_table, r)]
  BY DEF ShutdownAndBlock
<1>6. \A i \in 1..Len(dbus_tasks) : dbus_tasks[i].kind = "shutdown"
  <2>1. \A i \in 1..Len(dbus_tasks) : i = 1
    BY <1>3
  <2> QED
    BY <1>2, <2>1
<1>7. Attached = object_proxy_table
  BY <1>6 DEF Attached
<1>8. ~listening
  <2>1. Unlistened(Len(dbus_tasks) + 1)
    BY <1>1, <1>3 DEF Turns
  <2>2. \A j \in 1..(Len(dbus_tasks) + 1 - 1) : j \in 1..Len(dbus_tasks)
    BY <1>3
  <2> QED
    BY <1>6, <2>1, <2>2 DEF Unlistened
<1>9. /\ match_rules' = [p \in Proxies |-> IF p \in object_proxy_table THEN {} ELSE match_rules[p]]
      /\ pending_calls' = [p \in Proxies |-> IF p \in object_proxy_table THEN {} ELSE pending_calls[p]]
      /\ call' = [c \in Calls |-> IF \E p \in object_proxy_table : c \in pending_calls[p] THEN "cancelled" ELSE call[c]]
      /\ filter_functions_added' = IF connected THEN filter_functions_added \ object_proxy_table
                                                ELSE filter_functions_added
  BY DEF ShutdownAndBlock, Detach
<1>10. /\ filter_functions_added' = {}
       /\ \A p \in Proxies : match_rules'[p] = {} /\ pending_calls'[p] = {}
       /\ \A c \in Calls : call'[c] = "made" => call[c] = "made" /\ \A p \in object_proxy_table : c \notin pending_calls[p]
  BY <1>1, <1>7, <1>9 DEF Registered
<1>11. Queued'
  <2>1. \A i \in 1..Len(dbus_tasks') : FALSE
    BY <1>3
  <2> QED
    BY <1>1, <1>4, <1>5, <2>1 DEF Queued
<1>12. Turns'
  BY <1>1, <1>2, <1>4, TakeTurns
<1>13. ASSUME NEW r \in Rules
       PROVE  /\ match_rules_added'[r] \in Nat /\ Held(r)' = 0
              /\ ~errors => match_rules_added'[r] = 0
  <2>1. {h \in object_proxy_table : r \in match_rules[h]} = Holders(r)
    BY <1>1, <1>7 DEF Holders, Registered, TypeOK
  <2>2. match_rules_added'[r] = match_rules_added[r] - Cardinality(Holders(r))
    BY <1>5, <2>1 DEF Removed
  <2>3. Held(r) = Cardinality(Holders(r)) /\ Cardinality(Holders(r)) \in Nat
    BY <1>8, HoldersFinite DEF Held
  <2>4. Held(r)' = 0
    <3>1. Holders(r)' = {}
      BY <1>10 DEF Holders
    <3>2. Cardinality(Holders(r)') = 0 /\ ~listening'
      BY <1>4, <1>8, <3>1, FS_EmptySet
    <3> QED
      BY <3>2 DEF Held
  <2>5. match_rules_added[r] \in Nat /\ match_rules_added[r] >= Held(r)
    BY <1>1 DEF TypeOK, Counting
  <2>6. ~errors => match_rules_added[r] = Held(r)
    BY <1>1 DEF Counting
  <2> QED
    BY <2>2, <2>3, <2>4, <2>5, <2>6
<1>14. match_rules_added' \in [Rules -> Nat]
  BY <1>5, <1>13
<1>15. Counting'
  <2>1. \A r \in Rules : match_rules_added'[r] >= Held(r)'
    BY <1>13
  <2>2. \A r \in Rules : ~errors' => match_rules_added'[r] = Held(r)' /\ ~(match_rules_added'[r] > 0)
    BY <1>4, <1>13
  <2>3. Filtered'
    BY <1>1, <1>4 DEF Counting, Filtered
  <2> QED
    BY <1>5, <2>1, <2>2, <2>3 DEF Counting
<1>16. TypeOK'
  <2>1. match_rules' \in [Proxies -> SUBSET Rules] /\ pending_calls' \in [Proxies -> SUBSET Calls]
    BY <1>1, <1>9 DEF TypeOK
  <2>2. call' \in [Calls -> {"unused", "made", "answered", "cancelled"}]
    BY <1>1, <1>9 DEF TypeOK
  <2>3. incoming' \in Seq(Owners \union {None})
    BY <1>5
  <2> QED
    BY <1>1, <1>2, <1>4, <1>5, <1>10, <1>14, <2>1, <2>2, <2>3 DEF TypeOK
<1>17. AtTask'
  BY <1>2, <1>4 DEF AtTask
<1>18. Registered'
  BY <1>4, <1>5, <1>8, <1>10 DEF Registered
<1>19. OwnerIsTracked'
  BY <1>10 DEF OwnerIsTracked
<1>20. Told'
  <2>1. ASSUME NEW c \in Calls, call'[c] = "made" PROVE CallUnderWay(c)'
    <3>1. CallUnderWay(c) /\ \A p \in Attached : c \notin pending_calls[p]
      BY <1>1, <1>7, <1>10, <2>1 DEF Told
    <3> QED
      BY <1>4, <1>6, <3>1 DEF CallUnderWay
  <2> QED
    BY <1>5, <2>1 DEF Told
<1> QED
  BY <1>11, <1>12, <1>15, <1>16, <1>17, <1>18, <1>19, <1>20 DEF IInv
------------------------------------------------------------------------------
(* Between tasks *)

\* A step that leaves the queue of the D-Bus thread alone.
LEMMA QueueKept ==
  ASSUME IInv, UNCHANGED <<dbus_tasks, object_proxy_table, used, waiting, origin, wants, listening>>
  PROVE  Queued' /\ Turns' /\ Attached' = Attached
<1>1. Queued /\ Turns
  BY DEF IInv
<1>2. Queued'
  BY <1>1 DEF Queued, DetachedAfter
<1>3. Turns'
  BY <1>1 DEF Turns, Unlistened
<1> QED
  BY <1>2, <1>3 DEF Attached

\* As long as the daemon refused nothing it has the rule of whoever holds it.
LEMMA RuleAtDaemon ==
  ASSUME IInv, NEW p \in Proxies, "owner" \in match_rules[p], ~errors
  PROVE  "owner" \in rules
<1>1. "owner" \in Rules /\ Counting
  BY DEF IInv, Rules
<1>2. Holders("owner") # {}
  BY DEF Holders
<1>3. Cardinality(Holders("owner")) \in Nat \ {0}
  BY <1>2, HoldersFinite, FS_EmptySet
<1>4. Held("owner") > 0
  BY <1>3 DEF Held
<1> QED
  BY <1>1, <1>4 DEF Counting

\* UpdateNameOwnerAndBlock: the proxy knows the owner, and a wait is answered if there is one.
LEMMA UpdateStep == ASSUME IInv, UpdateNameOwnerAndBlock PROVE IInv'
<1> USE DEF busVars, daemonVars, countVars
<1>1. TypeOK /\ AtTask /\ Registered /\ OwnerIsTracked /\ Told
  BY DEF IInv
<1>2. current # None /\ current.stage = "query"
  BY DEF UpdateNameOwnerAndBlock
<1>3. PICK p \in Proxies : p = current.task.proxy
  BY <1>1, <1>2 DEF AtTask
<1>4. /\ current \in At /\ connected /\ current.task.kind \in {"wait", "connect"}
      /\ p \in Attached /\ (current.ok => "owner" \in match_rules[p])
  BY <1>1, <1>2, <1>3 DEF AtTask, TypeOK
<1>5. UNCHANGED <<busVars, match_rules, pending_calls, waiting, dbus_tasks, origin, daemonVars, countVars, call>>
  BY DEF UpdateNameOwnerAndBlock
<1>6. /\ \/ service_name_owner' = [service_name_owner EXCEPT ![p] = owner] /\ errors' = errors
         \/ service_name_owner' = [service_name_owner EXCEPT ![p] = None] /\ errors' = TRUE
      /\ overtaken' = IF incoming # <<>> /\ Last(incoming) # owner THEN overtaken \union {p} ELSE overtaken \ {p}
      /\ current' = IF current.task.kind = "connect" /\ current.ok
                      THEN [current EXCEPT !.stage = "match"] ELSE None
      /\ origin_tasks' = IF current.task.kind = "wait" /\ (~current.ok \/ service_name_owner'[p] # None)
                           THEN Append(origin_tasks, Available(p)) ELSE origin_tasks
  BY <1>3 DEF UpdateNameOwnerAndBlock, Owner, AnswersAtOnce
<1>7. Queued' /\ Turns' /\ Attached' = Attached
  BY <1>5, QueueKept
<1>8. /\ service_name_owner' \in [Proxies -> Owners \union {None}] /\ errors' \in BOOLEAN
      /\ \A q \in Proxies : q # p => service_name_owner'[q] = service_name_owner[q]
      /\ ~errors' => ~errors /\ service_name_owner'[p] = owner
  <2>1. CASE service_name_owner' = [service_name_owner EXCEPT ![p] = owner] /\ errors' = errors
    BY <1>1, <2>1 DEF TypeOK
  <2>2. CASE service_name_owner' = [service_name_owner EXCEPT ![p] = None] /\ errors' = TRUE
    BY <1>1, <2>2 DEF TypeOK
  <2> QED
    BY <1>6, <2>1, <2>2
<1>9. \/ current' = None
      \/ /\ current' \in At /\ current'.task = current.task /\ current'.stage = "match"
         /\ current.task.kind = "connect"
  BY <1>4, <1>6 DEF At
<1>10. /\ origin_tasks' \in Seq(Task)
       /\ \A i \in 1..Len(origin_tasks) : i \in 1..Len(origin_tasks') /\ origin_tasks'[i] = origin_tasks[i]
       /\ current.task.kind = "wait" /\ (~current.ok \/ service_name_owner'[p] # None)
            => \E i \in 1..Len(origin_tasks') : origin_tasks'[i] = Available(p)
  <2>1. CASE current.task.kind = "wait" /\ (~current.ok \/ service_name_owner'[p] # None)
    <3>1. Available(p) \in Task /\ origin_tasks' = Append(origin_tasks, Available(p))
      BY <1>6, <2>1 DEF Available, Task
    <3> QED
      BY <1>1, <3>1, PostedToOrigin
  <2>2. CASE ~(current.task.kind = "wait" /\ (~current.ok \/ service_name_owner'[p] # None))
    BY <1>1, <1>6, <2>2 DEF TypeOK
  <2> QED
    BY <2>1, <2>2
<1>11. TypeOK'
  <2>1. overtaken' \subseteq Proxies
    BY <1>1, <1>6 DEF TypeOK
  <2>2. current' \in At \union {None}
    BY <1>9
  <2> QED
    BY <1>1, <1>5, <1>8, <1>10, <2>1, <2>2 DEF TypeOK
<1>12. AtTask'
  BY <1>3, <1>4, <1>5, <1>7, <1>9 DEF AtTask
<1>13. Registered'
  BY <1>1, <1>5, <1>7 DEF Registered
<1>14. Counting'
  <2>1. Counting /\ \A r : Held(r)' = Held(r)
    BY <1>5 DEF IInv, Held, Holders
  <2> QED
    BY <1>5, <1>8, <2>1 DEF Counting, Filtered
<1>15. OwnerIsTracked'
  <2> SUFFICES ASSUME NEW q \in Proxies \ overtaken', "owner" \in match_rules'[q], ~errors',
                      ~(current' # None /\ current'.task.proxy = q /\ current'.stage = "query")
               PROVE  owner' = IF incoming' = <<>> THEN service_name_owner'[q] ELSE incoming'[Len(incoming')]
    BY DEF OwnerIsTracked
  <2>1. CASE q = p
    <3>1. incoming = <<>> \/ Last(incoming) = owner
      BY <1>6, <2>1
    <3> QED
      BY <1>5, <1>8, <2>1, <3>1 DEF Last
  <2>2. CASE q # p
    <3>1. q \in Proxies \ overtaken /\ "owner" \in match_rules[q] /\ ~errors
      BY <1>5, <1>6, <1>8, <2>2
    <3>2. owner = IF incoming = <<>> THEN service_name_owner[q] ELSE incoming[Len(incoming)]
      BY <1>1, <1>3, <2>2, <3>1 DEF OwnerIsTracked
    <3> QED
      BY <1>5, <1>8, <2>2, <3>2
  <2> QED
    BY <2>1, <2>2
<1>16. Told'
  <2>1. ASSUME NEW c \in Calls, CallUnderWay(c) PROVE CallUnderWay(c)'
    BY <1>5, <1>7, <1>10, <2>1 DEF CallUnderWay
  <2>2. ASSUME NEW q \in object_proxy_table, waiting[q], ~errors', WaitUnderWay(q)
        PROVE  \/ WaitUnderWay(q)'
               \/ "owner" \in match_rules[q] /\ owner = None
    <3>1. CASE current.task.kind = "wait" /\ current.task.proxy = q
      <4>1. CASE ~current.ok \/ service_name_owner'[p] # None
        BY <1>3, <1>10, <3>1, <4>1 DEF WaitUnderWay, Available
      <4>2. CASE current.ok /\ service_name_owner'[p] = None
        BY <1>3, <1>4, <1>8, <2>2, <3>1, <4>2
      <4> QED
        BY <4>1, <4>2
    <3>2. CASE ~(current.task.kind = "wait" /\ current.task.proxy = q)
      BY <1>5, <1>10, <2>2, <3>2 DEF WaitUnderWay, Available
    <3> QED
      BY <3>1, <3>2
  <2>3. ASSUME NEW q \in object_proxy_table, waiting[q], ~errors'
        PROVE  \/ WaitUnderWay(q)'
               \/ /\ "owner" \in match_rules[q]
                  /\ owner # None => incoming # <<>> /\ Last(incoming) = owner
    <3>1. ~errors
      BY <1>8, <2>3
    <3> QED
      BY <1>1, <2>2, <2>3, <3>1 DEF Told
  <2>4. \A c \in Calls : call'[c] = "made" => CallUnderWay(c)'
    BY <1>1, <1>5, <2>1 DEF Told
  <2> QED
    BY <1>5, <2>3, <2>4 DEF Told
<1> QED
  BY <1>7, <1>11, <1>12, <1>13, <1>14, <1>15, <1>16 DEF IInv

\* AddMatchRuleWithCallback: the rule for the object's signals.
LEMMA AddSignalRuleStep == ASSUME IInv, AddMatchRuleWithCallback PROVE IInv'
<1> USE DEF countVars
<1>1. TypeOK /\ AtTask /\ Registered /\ Counting /\ OwnerIsTracked /\ Told
  BY DEF IInv
<1>2. current # None /\ current.stage = "match" /\ current' = None
  BY DEF AddMatchRuleWithCallback
<1>3. PICK p \in Proxies : p = current.task.proxy
  BY <1>1, <1>2 DEF AtTask
<1>4. connected /\ p \in Attached /\ current.task.kind \in {"wait", "connect"}
  BY <1>1, <1>2, <1>3 DEF AtTask
<1>5. UNCHANGED <<connected, shutdown_completed, on_shutdown, object_proxy_table, filter_functions_added,
                  listening, filtering, service_name_owner, pending_calls, waiting, dbus_tasks, origin_tasks, origin,
                  owner, incoming, countVars, call, overtaken>>
  BY DEF AddMatchRuleWithCallback
<1>6. PICK success \in BOOLEAN : AddMatchRule(p, "signal", success)
  BY <1>3 DEF AddMatchRuleWithCallback
<1>7. /\ match_rules_added' \in [Rules -> Nat] /\ rules' \subseteq Rules
      /\ match_rules' \in [Proxies -> SUBSET Rules] /\ errors' \in BOOLEAN
      /\ Counting' /\ (errors => errors')
      /\ \A q \in Proxies : q # p => match_rules'[q] = match_rules[q]
      /\ match_rules[p] \subseteq match_rules'[p] /\ match_rules'[p] \subseteq match_rules[p] \union {"signal"}
  BY <1>1, <1>5, <1>6, AddMatchRuleFacts DEF Rules
<1>8. Queued' /\ Turns' /\ Attached' = Attached
  BY <1>5, QueueKept
<1>9. TypeOK'
  BY <1>1, <1>2, <1>5, <1>7 DEF TypeOK
<1>10. AtTask'
  BY <1>2 DEF AtTask
<1>11. \A q \in Proxies : ("owner" \in match_rules'[q] <=> "owner" \in match_rules[q]) /\ (q # p => match_rules'[q] = match_rules[q])
  BY <1>7
<1>12. Registered'
  BY <1>1, <1>4, <1>5, <1>8, <1>11 DEF Registered
<1>13. OwnerIsTracked'
  <2> SUFFICES ASSUME NEW q \in Proxies \ overtaken', "owner" \in match_rules'[q], ~errors'
               PROVE  owner' = IF incoming' = <<>> THEN service_name_owner'[q] ELSE incoming'[Len(incoming')]
    BY DEF OwnerIsTracked
  <2>1. q \in Proxies \ overtaken /\ "owner" \in match_rules[q] /\ ~errors
    BY <1>5, <1>7, <1>11
  <2> QED
    BY <1>1, <1>2, <1>5, <2>1 DEF OwnerIsTracked
<1>14. Told'
  <2>1. ASSUME NEW c \in Calls, CallUnderWay(c) PROVE CallUnderWay(c)'
    BY <1>5, <1>8, <2>1 DEF CallUnderWay
  <2>2. current.task.kind # "wait"
    BY <1>2, <1>1 DEF AtTask
  <2>3. ASSUME NEW q, WaitUnderWay(q) PROVE WaitUnderWay(q)'
    BY <1>5, <2>2, <2>3 DEF WaitUnderWay, Available
  <2>4. object_proxy_table \subseteq Proxies
    BY <1>1 DEF TypeOK
  <2>5. ASSUME NEW q \in object_proxy_table, waiting[q], ~errors'
        PROVE  \/ WaitUnderWay(q)'
               \/ /\ "owner" \in match_rules'[q]
                  /\ owner # None => incoming # <<>> /\ Last(incoming) = owner
    <3>1. ~errors
      BY <1>7, <2>5
    <3> QED
      BY <1>1, <1>11, <2>3, <2>4, <2>5, <3>1 DEF Told
  <2>6. \A c \in Calls : call'[c] = "made" => CallUnderWay(c)'
    BY <1>1, <1>5, <2>1 DEF Told
  <2> QED
    BY <1>5, <2>5, <2>6 DEF Told
<1> QED
  BY <1>7, <1>8, <1>9, <1>10, <1>12, <1>13, <1>14 DEF IInv

\* CallMethod that fails at once: the answer is posted.
LEMMA CallMethodFailsStep ==
  ASSUME IInv, NEW p \in Proxies, NEW c \in Calls, CallMethodFails(p, c)
  PROVE  IInv'
<1> USE DEF busVars, proxyVars, daemonVars
<1>1. TypeOK /\ AtTask /\ Registered /\ OwnerIsTracked /\ Told /\ Request
  BY DEF IInv, CallMethodFails
<1>2. /\ call' = [call EXCEPT ![c] = "made"]
      /\ origin_tasks' = Append(origin_tasks, Answer(p, c))
      /\ UNCHANGED <<busVars, proxyVars, waiting, dbus_tasks, current, origin, daemonVars, changes, used,
                     wants, errors, overtaken>>
  BY DEF CallMethodFails
<1>3. Queued' /\ Turns' /\ Attached' = Attached
  BY <1>2, QueueKept
<1>4. Answer(p, c) \in Task /\ Answer(p, c).kind = "answer" /\ Answer(p, c).call = c
  BY AnswerType
<1>5. /\ origin_tasks' \in Seq(Task)
      /\ \A i \in 1..Len(origin_tasks) : i \in 1..Len(origin_tasks') /\ origin_tasks'[i] = origin_tasks[i]
      /\ \E i \in 1..Len(origin_tasks') : origin_tasks'[i] = Answer(p, c)
  BY <1>1, <1>2, <1>4, PostedToOrigin
<1>6. TypeOK'
  <2>1. requests' \in 0..MaxRequests
    BY <1>1, RequestFacts
  <2> QED
    BY <1>1, <1>2, <1>5, <2>1 DEF TypeOK
<1>7. AtTask' /\ Registered' /\ OwnerIsTracked'
  BY <1>1, <1>2, <1>3 DEF AtTask, Registered, OwnerIsTracked
<1>8. Counting'
  BY <1>2, RulesKept
<1>9. Told'
  <2>1. ASSUME NEW d \in Calls, CallUnderWay(d) PROVE CallUnderWay(d)'
    BY <1>2, <1>3, <1>5, <2>1 DEF CallUnderWay
  <2>2. CallUnderWay(c)'
    BY <1>4, <1>5 DEF CallUnderWay
  <2>3. ASSUME NEW q, WaitUnderWay(q) PROVE WaitUnderWay(q)'
    BY <1>2, <1>5, <2>3 DEF WaitUnderWay, Available
  <2>4. \A d \in Calls : call'[d] = "made" => CallUnderWay(d)'
    BY <1>1, <1>2, <2>1, <2>2 DEF Told, TypeOK
  <2> QED
    BY <1>1, <1>2, <2>3, <2>4 DEF Told
<1> QED
  BY <1>3, <1>6, <1>7, <1>8, <1>9 DEF IInv

\* OnPendingCallIsComplete: the answer is posted.
LEMMA PendingCallStep ==
  ASSUME IInv, NEW p \in Proxies, NEW c \in Calls, OnPendingCallIsComplete(p, c)
  PROVE  IInv'
<1> USE DEF busVars, daemonVars, countVars
<1>1. TypeOK /\ Queued /\ AtTask /\ Registered /\ OwnerIsTracked /\ Told
  BY DEF IInv
<1>2. /\ current = None /\ connected
      /\ pending_calls' = [pending_calls EXCEPT ![p] = @ \ {c}]
      /\ origin_tasks' = Append(origin_tasks, Answer(p, c))
      /\ UNCHANGED <<busVars, match_rules, service_name_owner, waiting, dbus_tasks, current, origin,
                     daemonVars, countVars, call, errors, overtaken>>
  BY DEF OnPendingCallIsComplete, Idle
<1>3. Queued' /\ Turns' /\ Attached' = Attached
  BY <1>2, QueueKept
<1>4. Answer(p, c) \in Task /\ Answer(p, c).kind = "answer" /\ Answer(p, c).call = c
  BY AnswerType
<1>5. /\ origin_tasks' \in Seq(Task)
      /\ \A i \in 1..Len(origin_tasks) : i \in 1..Len(origin_tasks') /\ origin_tasks'[i] = origin_tasks[i]
      /\ \E i \in 1..Len(origin_tasks') : origin_tasks'[i] = Answer(p, c)
  BY <1>1, <1>2, <1>4, PostedToOrigin
<1>6. /\ pending_calls' \in [Proxies -> SUBSET Calls]
      /\ \A q \in Proxies : pending_calls'[q] \subseteq pending_calls[q]
      /\ \A q \in Proxies, d \in Calls : d \in pending_calls[q] /\ d # c => d \in pending_calls'[q]
  BY <1>1, <1>2 DEF TypeOK
<1>7. TypeOK'
  BY <1>1, <1>2, <1>5, <1>6 DEF TypeOK
<1>8. AtTask'
  BY <1>2 DEF AtTask
<1>9. Registered'
  <2>1. ASSUME NEW q \in Proxies
        PROVE  pending_calls'[q] # {} \/ match_rules'[q] # {} => q \in Attached'
    <3>1. pending_calls'[q] # {} => pending_calls[q] # {}
      BY <1>6
    <3> QED
      BY <1>1, <1>2, <1>3, <3>1 DEF Registered
  <2> QED
    BY <1>1, <1>2, <1>3, <2>1 DEF Registered
<1>10. Counting'
  BY <1>2, RulesKept
<1>11. OwnerIsTracked'
  BY <1>1, <1>2 DEF OwnerIsTracked
<1>12. Told'
  <2>1. ASSUME NEW d \in Calls, CallUnderWay(d) PROVE CallUnderWay(d)'
    <3>1. CASE d = c
      BY <1>4, <1>5, <3>1 DEF CallUnderWay
    <3>2. CASE d # c
      <4>1. Attached \subseteq Proxies
        BY <1>1, AttachedProxies
      <4> QED
        BY <1>2, <1>3, <1>5, <1>6, <2>1, <3>2, <4>1 DEF CallUnderWay
    <3> QED
      BY <3>1, <3>2
  <2>2. ASSUME NEW q, WaitUnderWay(q) PROVE WaitUnderWay(q)'
    BY <1>2, <1>5, <2>2 DEF WaitUnderWay, Available
  <2> QED
    BY <1>1, <1>2, <2>1, <2>2 DEF Told
<1> QED
  BY <1>3, <1>7, <1>8, <1>9, <1>10, <1>11, <1>12 DEF IInv

\* HandleNameOwnerChanged: the filters learn the owner, and their waits are answered.
LEMMA HandleStep == ASSUME IInv, HandleNameOwnerChanged PROVE IInv'
<1> USE DEF busVars, countVars
<1>1. TypeOK /\ Queued /\ AtTask /\ Registered /\ OwnerIsTracked /\ Told
  BY DEF IInv
<1>2. /\ current = None /\ connected /\ incoming # <<>> /\ incoming' = Tail(incoming)
      /\ service_name_owner' = [p \in Proxies |-> IF p \in filter_functions_added THEN Head(incoming)
                                                                               ELSE service_name_owner[p]]
      /\ origin_tasks' = IF Head(incoming) = None THEN origin_tasks
                         ELSE origin_tasks \o SetToSeq({Available(p) : p \in filter_functions_added})
      /\ UNCHANGED <<busVars, match_rules, pending_calls, waiting, dbus_tasks, current, origin, owner, rules,
                     countVars, call, errors, overtaken>>
  BY DEF HandleNameOwnerChanged, Idle
<1>3. Queued' /\ Turns' /\ Attached' = Attached
  BY <1>2, QueueKept
<1>4. PICK n : n = Len(incoming)
  OBVIOUS
<1>5. /\ n \in Nat \ {0} /\ Head(incoming) = incoming[1] /\ Head(incoming) \in Owners \union {None}
      /\ incoming' \in Seq(Owners \union {None}) /\ Len(incoming') = n - 1
      /\ \A i \in 1..(n - 1) : incoming'[i] = incoming[i + 1]
  BY <1>1, <1>2, <1>4, TailFacts DEF TypeOK
<1>6. /\ n = 1 => incoming' = <<>> /\ incoming[n] = Head(incoming)
      /\ n # 1 => incoming' # <<>> /\ incoming'[Len(incoming')] = incoming[n]
  <2>1. CASE n = 1
    BY <1>5, <2>1
  <2>2. CASE n # 1
    <3>1. n - 1 \in 1..(n - 1) /\ n - 1 + 1 = n /\ n - 1 # 0
      BY <1>5, <2>2
    <3>2. incoming'[n - 1] = incoming[n]
      BY <1>5, <3>1
    <3>3. incoming' # <<>>
      BY <1>5, <3>1
    <3> QED
      BY <1>5, <2>2, <3>2, <3>3
  <2> QED
    BY <2>1, <2>2
<1>7. /\ origin_tasks' \in Seq(Task)
      /\ \A i \in 1..Len(origin_tasks) : i \in 1..Len(origin_tasks') /\ origin_tasks'[i] = origin_tasks[i]
      /\ Head(incoming) # None => \A p \in filter_functions_added :
            \E i \in 1..Len(origin_tasks') : origin_tasks'[i] = Available(p)
  <2>1. CASE Head(incoming) = None
    BY <1>1, <1>2, <2>1 DEF TypeOK
  <2>2. CASE Head(incoming) # None
    <3> DEFINE S == {Available(p) : p \in filter_functions_added}
               s == SetToSeq(S)
    <3>1. IsFiniteSet(S)
      <4> DEFINE f == [p \in filter_functions_added |-> Available(p)]
      <4>1. f \in Surjection(filter_functions_added, S)
        BY DEF Surjection
      <4>2. IsFiniteSet(filter_functions_added)
        BY <1>1, BusAssumption, FS_Subset DEF TypeOK
      <4> QED
        BY <4>1, <4>2, FS_Surjection
    <3>2. S \subseteq Task
      BY <1>1 DEF TypeOK, Available, Task
    <3>3. \A p \in filter_functions_added : Available(p) \in S
      OBVIOUS
    <3> HIDE DEF S
    <3>4. s \in Seq(S) /\ \A x \in S : \E i \in 1..Len(s) : s[i] = x
      BY <3>1, SetToSeqFacts
    <3>5. origin_tasks' = origin_tasks \o s
      BY <1>2, <2>2 DEF S
    <3> HIDE DEF s
    <3>6. s \in Seq(Task) /\ origin_tasks \in Seq(Task)
      BY <1>1, <3>2, <3>4 DEF TypeOK
    <3>7. /\ origin_tasks' \in Seq(Task) /\ Len(origin_tasks) \in Nat /\ Len(s) \in Nat
          /\ Len(origin_tasks') = Len(origin_tasks) + Len(s)
          /\ \A i \in 1..Len(origin_tasks) : origin_tasks'[i] = origin_tasks[i]
          /\ \A i \in 1..Len(s) : origin_tasks'[Len(origin_tasks) + i] = s[i]
      BY <3>5, <3>6, ConcatFacts
    <3>8. /\ \A i \in 1..Len(origin_tasks) : i \in 1..Len(origin_tasks')
          /\ \A i \in 1..Len(s) : Len(origin_tasks) + i \in 1..Len(origin_tasks')
      BY <3>7
    <3>9. ASSUME NEW p \in filter_functions_added
          PROVE  \E i \in 1..Len(origin_tasks') : origin_tasks'[i] = Available(p)
      <4>1. PICK i \in 1..Len(s) : s[i] = Available(p)
        BY <3>3, <3>4
      <4> QED
        BY <3>7, <3>8, <4>1
    <3> QED
      BY <3>7, <3>8, <3>9
  <2> QED
    BY <2>1, <2>2
<1>8. TypeOK'
  <2>1. service_name_owner' \in [Proxies -> Owners \union {None}]
    BY <1>1, <1>2, <1>5 DEF TypeOK
  <2> QED
    BY <1>1, <1>2, <1>5, <1>7, <2>1 DEF TypeOK
<1>9. AtTask'
  BY <1>2 DEF AtTask
<1>10. Registered'
  BY <1>1, <1>2, <1>3 DEF Registered
<1>11. Counting'
  BY <1>2, RulesKept
<1>12. OwnerIsTracked'
  <2> SUFFICES ASSUME NEW q \in Proxies \ overtaken', "owner" \in match_rules'[q], ~errors'
               PROVE  owner' = IF incoming' = <<>> THEN service_name_owner'[q] ELSE incoming'[Len(incoming')]
    BY DEF OwnerIsTracked
  <2>1. owner = incoming[n] /\ q \in filter_functions_added
    BY <1>1, <1>2, <1>4 DEF OwnerIsTracked, Registered
  <2>2. service_name_owner'[q] = Head(incoming)
    BY <1>2, <2>1
  <2> QED
    BY <1>2, <1>6, <2>1, <2>2
<1>13. Told'
  <2>1. ASSUME NEW c \in Calls, CallUnderWay(c) PROVE CallUnderWay(c)'
    BY <1>2, <1>3, <1>7, <2>1 DEF CallUnderWay
  <2>2. ASSUME NEW q, WaitUnderWay(q) PROVE WaitUnderWay(q)'
    BY <1>2, <1>7, <2>2 DEF WaitUnderWay, Available
  <2>3. ASSUME NEW q \in object_proxy_table, "owner" \in match_rules[q],
               owner # None => incoming # <<>> /\ Last(incoming) = owner
        PROVE  \/ WaitUnderWay(q)'
               \/ owner # None => incoming' # <<>> /\ Last(incoming') = owner
    <3>1. q \in filter_functions_added
      BY <1>1, <2>3 DEF Registered, TypeOK
    <3>2. owner # None => incoming[n] = owner
      BY <1>4, <2>3 DEF Last
    <3>3. CASE n = 1 /\ owner # None
      BY <1>6, <1>7, <3>1, <3>2, <3>3 DEF WaitUnderWay, Available
    <3>4. CASE n # 1 /\ owner # None
      BY <1>6, <3>2, <3>4 DEF Last
    <3> QED
      BY <3>3, <3>4
  <2>4. \A c \in Calls : call'[c] = "made" => CallUnderWay(c)'
    BY <1>1, <1>2, <2>1 DEF Told
  <2>5. ASSUME NEW q \in object_proxy_table, waiting[q], ~errors
        PROVE  \/ WaitUnderWay(q)'
               \/ /\ "owner" \in match_rules[q]
                  /\ owner # None => incoming' # <<>> /\ Last(incoming') = owner
    BY <1>1, <2>2, <2>3, <2>5 DEF Told
  <2> QED
    BY <1>2, <2>4, <2>5 DEF Told
<1> QED
  BY <1>3, <1>8, <1>9, <1>10, <1>11, <1>12, <1>13 DEF IInv

\* The service changes: whoever has the rule gets the signal.
LEMMA ChangeOwnerStep == ASSUME IInv, NEW o \in Owners \union {None}, ChangeOwner(o) PROVE IInv'
<1> USE DEF busVars, proxyVars, threadVars
<1>1. TypeOK /\ AtTask /\ Registered /\ OwnerIsTracked /\ Told
  BY DEF IInv
<1>2. /\ changes < MaxChanges /\ changes' = changes + 1 /\ owner' = o
      /\ incoming' = IF "owner" \in rules THEN Append(incoming, o) ELSE incoming
      /\ UNCHANGED <<busVars, proxyVars, waiting, threadVars, rules, requests, used, wants, call, errors, overtaken>>
  BY DEF ChangeOwner
<1>3. Queued' /\ Turns' /\ Attached' = Attached
  BY <1>2, QueueKept
<1>4. changes' \in 0..MaxChanges
  BY <1>1, <1>2, BusAssumption DEF TypeOK
<1>5. incoming' \in Seq(Owners \union {None})
  BY <1>1, <1>2 DEF TypeOK
<1>6. "owner" \in rules => incoming' # <<>> /\ incoming'[Len(incoming')] = o
  <2>1. incoming \in Seq(Owners \union {None})
    BY <1>1 DEF TypeOK
  <2>2. ASSUME "owner" \in rules PROVE incoming' # <<>> /\ incoming'[Len(incoming')] = o
    <3>1. Len(incoming') = Len(incoming) + 1 /\ Len(incoming) \in Nat /\ incoming'[Len(incoming) + 1] = o
      BY <1>2, <2>1, <2>2, AppendFacts
    <3> QED
      BY <1>5, <3>1
  <2> QED
    BY <2>2
<1>7. TypeOK'
  BY <1>1, <1>2, <1>4, <1>5 DEF TypeOK
<1>8. AtTask'
  BY <1>1, <1>2, <1>3 DEF AtTask
<1>9. Registered'
  BY <1>1, <1>2, <1>3 DEF Registered
<1>10. Counting'
  BY <1>2, RulesKept
<1>11. \A q \in Proxies : "owner" \in match_rules[q] /\ ~errors => "owner" \in rules
  BY RuleAtDaemon
<1>12. OwnerIsTracked'
  BY <1>2, <1>6, <1>11 DEF OwnerIsTracked
<1>13. Told'
  <2>1. ASSUME NEW c \in Calls, CallUnderWay(c) PROVE CallUnderWay(c)'
    BY <1>2, <1>3, <2>1 DEF CallUnderWay
  <2>2. ASSUME NEW q, WaitUnderWay(q) PROVE WaitUnderWay(q)'
    BY <1>2, <2>2 DEF WaitUnderWay, Available
  <2>3. object_proxy_table \subseteq Proxies
    BY <1>1 DEF TypeOK
  <2>4. \A c \in Calls : call'[c] = "made" => CallUnderWay(c)'
    BY <1>1, <1>2, <2>1 DEF Told
  <2>5. ASSUME NEW q \in object_proxy_table, waiting[q], ~errors
        PROVE  \/ WaitUnderWay(q)'
               \/ "owner" \in match_rules[q] /\ incoming' # <<>> /\ Last(incoming') = owner'
    <3>1. WaitUnderWay(q) \/ "owner" \in match_rules[q]
      BY <1>1, <2>5 DEF Told
    <3> QED
      BY <1>2, <1>6, <1>11, <2>2, <2>3, <2>5, <3>1 DEF Last
  <2> QED
    BY <1>2, <2>4, <2>5 DEF Told
<1> QED
  BY <1>3, <1>7, <1>8, <1>9, <1>10, <1>12, <1>13 DEF IInv

------------------------------------------------------------------------------
(* The theorems *)

\* Every step keeps the invariant.
LEMMA Inductive == IInv /\ [Next]_vars => IInv'
<1> SUFFICES ASSUME IInv, [Next]_vars PROVE IInv'
  OBVIOUS
<1>1. CASE UNCHANGED vars
  <2> USE <1>1 DEF vars, busVars, proxyVars, threadVars, daemonVars, countVars
  <2>1. TypeOK'
    BY DEF IInv, TypeOK
  <2>2. Queued' /\ Turns' /\ Attached' = Attached
    BY QueueKept
  <2>3. AtTask' /\ Registered' /\ OwnerIsTracked'
    BY <2>2 DEF IInv, AtTask, Registered, OwnerIsTracked
  <2>4. Counting'
    BY RulesKept
  <2>5. Told'
    BY <2>2 DEF IInv, Told, CallUnderWay, WaitUnderWay, Available
  <2> QED
    BY <2>1, <2>2, <2>3, <2>4, <2>5 DEF IInv
<1>2. ASSUME NEW p \in Proxies, \/ GetObjectProxy(p) \/ WaitForServiceToBeAvailable(p)
                                \/ ConnectToSignal(p) \/ RemoveObjectProxy(p)
      PROVE  IInv'
  BY <1>2, GetObjectProxyStep, WaitStep, OtherRequestStep
<1>3. ASSUME NEW p \in Proxies, NEW c \in Calls,
             CallMethod(p, c) \/ CallMethodFails(p, c) \/ OnPendingCallIsComplete(p, c)
      PROVE  IInv'
  BY <1>3, CallMethodStep, CallMethodFailsStep, PendingCallStep
<1>4. CASE Listen \/ ShutdownOnDBusThreadAndBlock \/ ShutdownReturns \/ RunOriginTask
  BY <1>4, OtherRequestStep, ShutdownReturnsStep, RunOriginTaskStep
<1>5. CASE DBusThread
  <2>1. CASE StartAsyncMethodCall \/ ConnectFails \/ ConnectToNameOwnerChangedSignal
    BY <2>1, StartAsyncMethodCallStep, ConnectFailsStep, ConnectStep
  <2>2. CASE UpdateNameOwnerAndBlock \/ AddMatchRuleWithCallback
    BY <2>2, UpdateStep, AddSignalRuleStep
  <2>3. CASE ListenInternal \/ UnlistenInternal \/ RemoveObjectProxyInternal \/ ShutdownAndBlock
    BY <2>3, ListenStep, UnlistenStep, RemoveStep, ShutdownStep
  <2> QED
    BY <1>5, <2>1, <2>2, <2>3 DEF DBusThread
<1>6. CASE HandleNameOwnerChanged
  BY <1>6, HandleStep
<1>7. ASSUME NEW o \in Owners \union {None}, ChangeOwner(o) PROVE IInv'
  BY <1>7, ChangeOwnerStep
<1> QED
  BY <1>1, <1>2, <1>3, <1>4, <1>5, <1>6, <1>7 DEF Next

\* IInv holds in every reachable state.
THEOREM Invariance == Spec => []IInv
<1>1. Init => IInv
  <2> SUFFICES ASSUME Init PROVE IInv
    OBVIOUS
  <2>1. TypeOK
    <3>1. requests \in 0..MaxRequests /\ changes \in 0..MaxChanges
      BY BusAssumption DEF Init
    <3>2. match_rules_added \in [Rules -> Nat] /\ match_rules \in [Proxies -> SUBSET Rules]
      BY DEF Init
    <3>3. /\ service_name_owner \in [Proxies -> Owners \union {None}] /\ pending_calls \in [Proxies -> SUBSET Calls]
          /\ waiting \in [Proxies -> BOOLEAN]
          /\ call \in [Calls -> {"unused", "made", "answered", "cancelled"}]
      BY DEF Init
    <3>4. dbus_tasks \in Seq(Task) /\ origin_tasks \in Seq(Task) /\ incoming \in Seq(Owners \union {None})
      BY DEF Init
    <3> QED
      BY <3>1, <3>2, <3>3, <3>4 DEF Init, TypeOK
  <2>2. Len(dbus_tasks) = 0 /\ \A i \in 1..Len(dbus_tasks) : FALSE
    BY DEF Init
  <2>3. Queued /\ AtTask
    BY <2>2 DEF Init, Queued, AtTask
  <2>4. Turns
    <3>1. \A k \in 1..(Len(dbus_tasks) + 1 - 1) : FALSE
      BY <2>2
    <3> QED
      BY <2>2, <3>1 DEF Init, Turns, Unlistened
  <2>5. Registered /\ OwnerIsTracked
    BY DEF Init, Registered, OwnerIsTracked
  <2>6. Counting
    <3>1. ASSUME NEW r \in Rules PROVE Held(r) = 0 /\ match_rules_added[r] = 0 /\ r \notin rules
      <4>1. Holders(r) = {}
        BY DEF Init, Holders
      <4>2. Cardinality(Holders(r)) = 0
        BY <4>1, FS_EmptySet
      <4> QED
        BY <4>2 DEF Init, Held
    <3>2. \A r \in Rules : match_rules_added[r] >= Held(r) /\ ~(match_rules_added[r] > 0)
      BY <3>1
    <3>3. Filtered
      BY DEF Init, Filtered
    <3> QED
      BY <3>1, <3>2, <3>3 DEF Counting
  <2>7. Told
    BY DEF Init, Told
  <2> QED
    BY <2>1, <2>3, <2>4, <2>5, <2>6, <2>7 DEF IInv
<1> QED
  BY <1>1, Inductive, PTL DEF Spec

\* Every variable keeps its type; no counter of a rule becomes negative, although rules the
\* daemon refused are counted and never removed.
THEOREM TypeCorrect == Spec => []TypeOK
<1>1. IInv => TypeOK
  BY DEF IInv
<1> QED
  BY <1>1, Invariance, PTL

\* What libdbus and the bus hold of a proxy goes with it, and AddMatch and RemoveMatch keep
\* the daemon's rules as long as, and no longer than, somebody holds them, if no blocking
\* call has failed so far.
THEOREM RegistrationsAreLive == Spec => []OnlyLiveProxiesAreRegistered
<1>1. IInv => OnlyLiveProxiesAreRegistered
  <2> SUFFICES ASSUME IInv PROVE OnlyLiveProxiesAreRegistered
    OBVIOUS
  <2>1. Registered /\ Counting
    BY DEF IInv
  <2> QED
    BY <2>1 DEF OnlyLiveProxiesAreRegistered, Registered, Counting, Filtered, Held, Holders
<1> QED
  BY <1>1, Invariance, PTL

\* What a proxy knows of the owner, with the signals in the queue, is the truth, whenever
\* the service changes between the steps of connecting.
THEOREM OwnersAreTracked == Spec => []OwnerIsTracked
<1>1. IInv => OwnerIsTracked
  BY DEF IInv
<1> QED
  BY <1>1, Invariance, PTL

\* Every call is answered or cancelled or on its way, and whoever waits for a service that
\* is there is told, the latter if no blocking call has failed so far.
THEOREM EverybodyIsTold == Spec => []NobodyIsForgotten
<1>1. IInv => NobodyIsForgotten
  <2> SUFFICES ASSUME IInv PROVE NobodyIsForgotten
    OBVIOUS
  <2>1. Told /\ Registered /\ object_proxy_table \subseteq Proxies
    BY DEF IInv, TypeOK
  <2>2. \A c \in Calls : call[c] = "made" => CallUnderWay(c)
    BY <2>1 DEF Told
  <2>3. ASSUME NEW p \in object_proxy_table, waiting[p], owner # None, ~errors
        PROVE  WaitUnderWay(p) \/ (p \in filter_functions_added /\ incoming # <<>> /\ Last(incoming) = owner)
    BY <2>1, <2>3 DEF Told, Registered
  <2> QED
    BY <2>2, <2>3 DEF NobodyIsForgotten, CallUnderWay, WaitUnderWay
<1> QED
  BY <1>1, Invariance, PTL
==============================================================================
