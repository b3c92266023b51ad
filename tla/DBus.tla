-------------------------------- MODULE DBus --------------------------------
(***************************************************************************)
(* dbus::Bus and dbus::ObjectProxy (dbus/bus.cc, dbus/object_proxy.cc) of  *)
(* a bus with a D-Bus thread: the origin thread posts tasks to the D-Bus   *)
(* thread, which talks to the daemon and posts the answers back.           *)
(*                                                                         *)
(* All proxies are for one object of one service, with different options   *)
(* or created one after the other, so that they share their match rules.   *)
(* A step of the D-Bus thread is the part of a task up to the next call    *)
(* that blocks on the daemon; the daemon serves such a call at the         *)
(* beginning of the step.  In between the service may come and go.         *)
(*                                                                         *)
(* libdbus and the daemon are external.  A blocking call leaves the        *)
(* messages that arrived before its answer in the incoming queue.          *)
(***************************************************************************)
EXTENDS Integers, FiniteSets, Sequences, SequencesExt

CONSTANTS Proxies,     \* the ObjectProxy objects that may be created
          Calls,       \* the method calls that may be made
          Owners,      \* the unique names the service can have
          MaxRequests, \* bound on the requests of the origin thread
          MaxChanges,  \* bound on the changes of the service's owner
          None         \* no owner, no proxy, no task

ASSUME BusAssumption ==
  /\ IsFiniteSet(Proxies) /\ None \notin Proxies \union Calls \union Owners
  /\ MaxRequests \in Nat /\ MaxChanges \in Nat

\* The rule for NameOwnerChanged of the service, and the one for its signals.
Rules == {"owner", "signal"}

VARIABLES
  \* Bus
  connected,   \* connection_ is not null, and asynchronous operations are set up
  shutdown_completed, on_shutdown, object_proxy_table,
  match_rules_added,       \* the counter of each rule, 0 if it is not in the map
  filter_functions_added,  \* the proxies whose HandleMessage is a filter
  listening,               \* service_owner_changed_listener_map_ has an entry
  filtering,               \* OnServiceOwnerChangedFilter of the bus is a filter
  \* ObjectProxy
  match_rules, service_name_owner, pending_calls,
  waiting,     \* wait_for_service_to_be_available_callbacks_ is not empty
  \* the threads
  dbus_tasks, origin_tasks,
  current,     \* the task the D-Bus thread is at, and where
  origin,      \* "running", "blocked" in ShutdownOnDBusThreadAndBlock, "after" it
  \* the daemon and the connection
  owner,       \* who owns the service's name
  rules,       \* the match rules the daemon has for this connection
  incoming,    \* the new owners announced in the NameOwnerChanged signals received
  \* bounds and history
  requests, changes, used,
  call,        \* what became of each call
  wants,       \* the origin thread has asked to listen for owner changes
  errors,      \* a blocking call has failed
  overtaken    \* the proxies that asked for the owner with outdated signals ahead

busVars == <<connected, shutdown_completed, on_shutdown, object_proxy_table, match_rules_added,
             filter_functions_added, listening, filtering>>
proxyVars == <<match_rules, service_name_owner, pending_calls>>
threadVars == <<dbus_tasks, origin_tasks, current, origin>>
daemonVars == <<owner, rules, incoming>>
countVars == <<requests, changes, used, wants>>
vars == <<busVars, proxyVars, waiting, threadVars, daemonVars, countVars, call, errors, overtaken>>

Task == [kind : {"call", "wait", "connect", "remove", "listen", "unlisten", "shutdown", "answer", "available"},
         proxy : Proxies \union {None}, call : Calls \union {None}]
At == [task : Task, stage : {"query", "match"}, ok : BOOLEAN]

ASSUME NoneAssumption == None \notin At

TypeOK ==
  /\ connected \in BOOLEAN /\ shutdown_completed \in BOOLEAN /\ on_shutdown \in BOOLEAN
  /\ object_proxy_table \subseteq Proxies
  /\ match_rules_added \in [Rules -> Nat]
  /\ filter_functions_added \subseteq Proxies
  /\ listening \in BOOLEAN /\ filtering \in BOOLEAN
  /\ match_rules \in [Proxies -> SUBSET Rules]
  /\ service_name_owner \in [Proxies -> Owners \union {None}]
  /\ pending_calls \in [Proxies -> SUBSET Calls]
  /\ waiting \in [Proxies -> BOOLEAN]
  /\ dbus_tasks \in Seq(Task) /\ origin_tasks \in Seq(Task)
  /\ current \in At \union {None}
  /\ origin \in {"running", "blocked", "after"}
  /\ owner \in Owners \union {None} /\ rules \subseteq Rules
  /\ incoming \in Seq(Owners \union {None})
  /\ requests \in 0..MaxRequests /\ changes \in 0..MaxChanges /\ used \subseteq Proxies
  /\ call \in [Calls -> {"unused", "made", "answered", "cancelled"}]
  /\ wants \in BOOLEAN /\ errors \in BOOLEAN /\ overtaken \subseteq Proxies

Init ==
  /\ connected = FALSE /\ shutdown_completed = FALSE /\ on_shutdown = FALSE
  /\ object_proxy_table = {}
  /\ match_rules_added = [r \in Rules |-> 0]
  /\ filter_functions_added = {} /\ listening = FALSE /\ filtering = FALSE
  /\ match_rules = [p \in Proxies |-> {}]
  /\ service_name_owner = [p \in Proxies |-> None]
  /\ pending_calls = [p \in Proxies |-> {}]
  /\ waiting = [p \in Proxies |-> FALSE]
  /\ dbus_tasks = <<>> /\ origin_tasks = <<>> /\ current = None /\ origin = "running"
  /\ owner \in Owners \union {None}
  /\ rules = {} /\ incoming = <<>>
  /\ requests = 0 /\ changes = 0 /\ used = {}
  /\ call = [c \in Calls |-> "unused"]
  /\ wants = FALSE /\ errors = FALSE /\ overtaken = {}

------------------------------------------------------------------------------
(* Requests of the origin thread.  Pointers to a proxy are invalid once it is     *)
(* removed or the bus shut down, and no request is made with one.                  *)

Answer(p, c) == [kind |-> "answer", proxy |-> p, call |-> c]
Available(p) == [kind |-> "available", proxy |-> p, call |-> None]
Post(kind, p, c) == dbus_tasks' = Append(dbus_tasks, [kind |-> kind, proxy |-> p, call |-> c])

Request ==
  /\ origin = "running" /\ requests < MaxRequests
  /\ requests' = requests + 1

GetObjectProxy(p) ==
  /\ origin = "running" /\ p \notin used
  /\ used' = used \union {p}
  /\ object_proxy_table' = object_proxy_table \union {p}
  /\ UNCHANGED <<connected, shutdown_completed, on_shutdown, match_rules_added, filter_functions_added,
                 listening, filtering, proxyVars, waiting, threadVars, daemonVars, requests, changes, wants,
                 call, errors, overtaken>>

CallMethod(p, c) ==
  /\ Request /\ p \in object_proxy_table /\ call[c] = "unused"
  /\ call' = [call EXCEPT ![c] = "made"]
  /\ Post("call", p, c)
  /\ UNCHANGED <<busVars, proxyVars, waiting, origin_tasks, current, origin, daemonVars, changes, used,
                 wants, errors, overtaken>>

\* SetDestination or SetPath has failed: the callback gets NULL, but not at once.
CallMethodFails(p, c) ==
  /\ Request /\ p \in object_proxy_table /\ call[c] = "unused"
  /\ call' = [call EXCEPT ![c] = "made"]
  /\ origin_tasks' = Append(origin_tasks, Answer(p, c))
  /\ UNCHANGED <<busVars, proxyVars, waiting, dbus_tasks, current, origin, daemonVars, changes, used,
                 wants, errors, overtaken>>

WaitForServiceToBeAvailable(p) ==
  /\ Request /\ p \in object_proxy_table
  /\ waiting' = [waiting EXCEPT ![p] = TRUE]
  /\ Post("wait", p, None)
  /\ UNCHANGED <<busVars, proxyVars, origin_tasks, current, origin, daemonVars, changes, used, wants,
                 call, errors, overtaken>>

ConnectToSignal(p) ==
  /\ Request /\ p \in object_proxy_table
  /\ Post("connect", p, None)
  /\ UNCHANGED <<busVars, proxyVars, waiting, origin_tasks, current, origin, daemonVars, changes, used,
                 wants, call, errors, overtaken>>

RemoveObjectProxy(p) ==
  /\ Request /\ p \in object_proxy_table
  /\ object_proxy_table' = object_proxy_table \ {p}
  /\ Post("remove", p, None)
  /\ UNCHANGED <<connected, shutdown_completed, on_shutdown, match_rules_added, filter_functions_added,
                 listening, filtering, proxyVars, waiting, origin_tasks, current, origin, daemonVars, changes, used,
                 wants, call, errors, overtaken>>

\* ListenForServiceOwnerChange and UnlistenForServiceOwnerChange, with one callback.
Listen ==
  /\ Request
  /\ wants' = ~wants
  /\ Post(IF wants THEN "unlisten" ELSE "listen", None, None)
  /\ UNCHANGED <<busVars, proxyVars, waiting, origin_tasks, current, origin, daemonVars, changes, used,
                 call, errors, overtaken>>

\* Those who listen for owner changes have stopped before.
ShutdownOnDBusThreadAndBlock ==
  /\ origin = "running" /\ ~wants
  /\ origin' = "blocked"
  /\ Post("shutdown", None, None)
  /\ UNCHANGED <<busVars, proxyVars, waiting, origin_tasks, current, daemonVars, countVars, call, errors, overtaken>>

\* TimedWait ends, with the signal or without it after three seconds.
ShutdownReturns ==
  /\ origin = "blocked"
  /\ origin' = "after"
  /\ on_shutdown' = FALSE
  /\ UNCHANGED <<connected, shutdown_completed, object_proxy_table, match_rules_added,
                 filter_functions_added, listening, filtering, proxyVars, waiting, dbus_tasks, origin_tasks,
                 current, daemonVars, countVars, call, errors, overtaken>>

\* RunResponseCallback, and RunWaitForServiceToBeAvailableCallbacks, which runs and
\* clears all callbacks there are by then.
RunOriginTask ==
  /\ origin # "blocked" /\ origin_tasks # <<>>
  /\ LET t == Head(origin_tasks) IN
       \/ /\ t.kind = "answer"
          /\ call' = [call EXCEPT ![t.call] = "answered"]
          /\ UNCHANGED waiting
       \/ /\ t.kind = "available"
          /\ waiting' = [waiting EXCEPT ![t.proxy] = FALSE]
          /\ UNCHANGED call
  /\ origin_tasks' = Tail(origin_tasks)
  /\ UNCHANGED <<busVars, proxyVars, dbus_tasks, current, origin, daemonVars, countVars, errors, overtaken>>

------------------------------------------------------------------------------
(* The D-Bus thread *)

Idle == current = None

\* The next task is of one of these kinds, and is taken from the queue.
Takes(kinds) ==
  /\ Idle /\ dbus_tasks # <<>> /\ Head(dbus_tasks).kind \in kinds
  /\ dbus_tasks' = Tail(dbus_tasks)

\* Connect and SetUpAsyncOperations of a bus of type SYSTEM or SESSION: a failure leaves
\* the bus without a connection, and once connected they succeed.
Connect(success) ==
  /\ connected => success
  /\ connected' = success

\* The mutant of Counted: a rule that is already there is not counted again.
CountedOnce(r) == 1

Counted(r) == match_rules_added[r] + 1

\* Bus::AddMatch: the daemon is asked only for the first one, and may refuse; the
\* rule is counted nevertheless.
AddMatch(r, success) ==
  /\ match_rules_added[r] > 0 => success
  /\ match_rules_added' = [match_rules_added EXCEPT ![r] = Counted(r)]
  /\ rules' = IF success /\ match_rules_added[r] = 0 THEN rules \union {r} ELSE rules
  /\ errors' = (errors \/ ~success)

\* AddMatchRuleWithCallback and AddMatchRuleWithoutCallback
AddMatchRule(p, r, success) ==
  IF r \in match_rules[p]
    THEN success /\ UNCHANGED <<match_rules_added, rules, match_rules, errors>>
    ELSE /\ AddMatch(r, success)
         /\ match_rules' = IF success THEN [match_rules EXCEPT ![p] = @ \union {r}] ELSE match_rules

\* StartAsyncMethodCall; if there is no connection the callback gets NULL.
StartAsyncMethodCall ==
  /\ Takes({"call"})
  /\ LET t == Head(dbus_tasks) IN
       \/ /\ Connect(TRUE)
          /\ pending_calls' = [pending_calls EXCEPT ![t.proxy] = @ \union {t.call}]
          /\ UNCHANGED origin_tasks
       \/ /\ Connect(FALSE)
          /\ origin_tasks' = Append(origin_tasks, Answer(t.proxy, t.call))
          /\ UNCHANGED pending_calls
  /\ UNCHANGED <<shutdown_completed, on_shutdown, object_proxy_table, match_rules_added,
                 filter_functions_added, listening, filtering, match_rules, service_name_owner, waiting, current,
                 origin, daemonVars, countVars, call, errors, overtaken>>

\* OnPendingCallIsComplete: libdbus dispatches the reply, or its own error once the
\* call has timed out.
OnPendingCallIsComplete(p, c) ==
  /\ Idle /\ connected /\ c \in pending_calls[p]
  /\ pending_calls' = [pending_calls EXCEPT ![p] = @ \ {c}]
  /\ origin_tasks' = Append(origin_tasks, Answer(p, c))
  /\ UNCHANGED <<busVars, match_rules, service_name_owner, waiting, dbus_tasks, current, origin,
                 daemonVars, countVars, call, errors, overtaken>>

\* The first part of ConnectToSignalInternal and WaitForServiceToBeAvailableInternal:
\* ConnectToNameOwnerChangedSignal without a connection, whose failure is reported.
ConnectFails ==
  /\ Takes({"wait", "connect"})
  /\ Connect(FALSE)
  /\ LET t == Head(dbus_tasks) IN
       origin_tasks' = IF t.kind = "wait" THEN Append(origin_tasks, Available(t.proxy)) ELSE origin_tasks
  /\ UNCHANGED <<shutdown_completed, on_shutdown, object_proxy_table, match_rules_added,
                 filter_functions_added, listening, filtering, proxyVars, waiting, current, origin, daemonVars,
                 countVars, call, errors, overtaken>>

\* The same with a connection: the filter and the match rule are added.
ConnectToNameOwnerChangedSignal ==
  /\ Takes({"wait", "connect"})
  /\ Connect(TRUE)
  /\ LET t == Head(dbus_tasks) IN
       /\ filter_functions_added' = filter_functions_added \union {t.proxy}
       /\ \E success \in BOOLEAN :
            /\ AddMatchRule(t.proxy, "owner", success)
            /\ current' = [task |-> t, stage |-> "query", ok |-> success]
  /\ UNCHANGED <<shutdown_completed, on_shutdown, object_proxy_table, listening, filtering, service_name_owner,
                 pending_calls, waiting, origin_tasks, origin, owner, incoming, countVars, call, overtaken>>

\* The mutant of AnswersAtOnce: a wait is answered by NameOwnerChanged only.
NeverAnswersAtOnce(p) == FALSE

\* The service is already there.
AnswersAtOnce(p) == service_name_owner'[p] # None

\* The mutant of Owner: the owner is looked up only once there was a signal.
OwnerNotAsked(p) == service_name_owner[p]

\* What GetServiceOwnerAndBlock returns.
Owner(p) == owner

\* UpdateNameOwnerAndBlock, where an error passes for a service that is not running,
\* and then the end of the task, or the signal's match rule.
UpdateNameOwnerAndBlock ==
  /\ current # None /\ current.stage = "query"
  /\ LET p == current.task.proxy IN
       /\ \/ service_name_owner' = [service_name_owner EXCEPT ![p] = Owner(p)] /\ UNCHANGED errors
          \/ service_name_owner' = [service_name_owner EXCEPT ![p] = None] /\ errors' = TRUE
       /\ overtaken' = IF incoming # <<>> /\ Last(incoming) # owner THEN overtaken \union {p} ELSE overtaken \ {p}
       /\ current' = IF current.task.kind = "connect" /\ current.ok
                       THEN [current EXCEPT !.stage = "match"] ELSE None
       /\ origin_tasks' = IF current.task.kind = "wait" /\ (~current.ok \/ AnswersAtOnce(p))
                            THEN Append(origin_tasks, Available(p)) ELSE origin_tasks
  /\ UNCHANGED <<busVars, match_rules, pending_calls, waiting, dbus_tasks, origin, daemonVars, countVars,
                 call>>

\* The second part of ConnectToSignalInternal.
AddMatchRuleWithCallback ==
  /\ current # None /\ current.stage = "match"
  /\ \E success \in BOOLEAN : AddMatchRule(current.task.proxy, "signal", success)
  /\ current' = None
  /\ UNCHANGED <<connected, shutdown_completed, on_shutdown, object_proxy_table, filter_functions_added,
                 listening, filtering, service_name_owner, pending_calls, waiting, dbus_tasks, origin_tasks, origin,
                 owner, incoming, countVars, call, overtaken>>

\* HandleNameOwnerChanged of every proxy that is a filter.
HandleNameOwnerChanged ==
  /\ Idle /\ connected /\ incoming # <<>>
  /\ incoming' = Tail(incoming)
  /\ service_name_owner' = [p \in Proxies |-> IF p \in filter_functions_added THEN Head(incoming)
                                                                           ELSE service_name_owner[p]]
  /\ origin_tasks' = IF Head(incoming) = None THEN origin_tasks
                     ELSE origin_tasks \o SetToSeq({Available(p) : p \in filter_functions_added})
  /\ UNCHANGED <<busVars, match_rules, pending_calls, waiting, dbus_tasks, current, origin, owner, rules,
                 countVars, call, errors, overtaken>>

\* ListenForServiceOwnerChangeInternal.  The filter of the bus stays if the daemon then
\* refuses the rule: nobody listens, and Unlisten finds nothing to remove.
ListenInternal ==
  /\ Takes({"listen"})
  /\ \/ Connect(FALSE) /\ UNCHANGED <<match_rules_added, rules, errors, listening, filtering>>
     \/ /\ Connect(TRUE)
        /\ filtering' = TRUE
        /\ \E success \in BOOLEAN : AddMatch("owner", success) /\ listening' = success
  /\ UNCHANGED <<shutdown_completed, on_shutdown, object_proxy_table, filter_functions_added, proxyVars,
                 waiting, origin_tasks, current, origin, owner, incoming, countVars, call, overtaken>>

\* The mutant of Removed: every rule is removed, held or not, and RemoveMatch does not
\* look whether it knows the rule.
RemovedBlindly(holders, r) == match_rules_added[r] - 1

\* The counter of a rule once the holders, sets of rules, are gone.
Removed(holders, r) == match_rules_added[r] - Cardinality({h \in holders : r \in match_rules[h]})

\* RemoveMatch for all rules: the daemon is told of those nobody holds any more, and
\* keeps the ones whose removal fails; they are not counted any more all the same.
RemoveMatches(removed) ==
  /\ match_rules_added' = removed
  /\ LET dropped == {r \in rules : removed[r] = 0 /\ match_rules_added[r] > 0} IN
       \E kept \in SUBSET dropped :
         /\ rules' = rules \ (dropped \ kept)
         /\ errors' = (errors \/ kept # {})

\* UnlistenForServiceOwnerChangeInternal.
UnlistenInternal ==
  /\ Takes({"unlisten"})
  /\ listening' = FALSE
  /\ IF listening THEN filtering' = FALSE /\ RemoveMatches([match_rules_added EXCEPT !["owner"] = @ - 1])
                  ELSE UNCHANGED <<filtering, match_rules_added, rules, errors>>
  /\ UNCHANGED <<connected, shutdown_completed, on_shutdown, object_proxy_table, filter_functions_added,
                 proxyVars, waiting, origin_tasks, current, origin, owner, incoming, countVars, call, overtaken>>

\* ObjectProxy::Detach of some proxies.  Their calls are cancelled, and the callbacks
\* of those never run.
Detach(ps) ==
  /\ filter_functions_added' = IF connected THEN filter_functions_added \ ps ELSE filter_functions_added
  /\ match_rules' = [p \in Proxies |-> IF p \in ps THEN {} ELSE match_rules[p]]
  /\ pending_calls' = [p \in Proxies |-> IF p \in ps THEN {} ELSE pending_calls[p]]
  /\ call' = [c \in Calls |-> IF \E p \in ps : c \in pending_calls[p] THEN "cancelled" ELSE call[c]]

RemoveObjectProxyInternal ==
  /\ Takes({"remove"})
  /\ LET p == Head(dbus_tasks).proxy IN
       Detach({p}) /\ RemoveMatches([r \in Rules |-> Removed({p}, r)])
  /\ UNCHANGED <<connected, shutdown_completed, on_shutdown, object_proxy_table, listening, filtering,
                 service_name_owner, waiting, origin_tasks, current, origin, owner, incoming, countVars,
                 overtaken>>

\* ShutdownAndBlock on the D-Bus thread, and Signal.
ShutdownAndBlock ==
  /\ Takes({"shutdown"})
  /\ Detach(object_proxy_table)
  /\ match_rules_added' = [r \in Rules |-> Removed(object_proxy_table, r)]
  /\ object_proxy_table' = {}
  /\ connected' = FALSE /\ rules' = {} /\ incoming' = <<>>
  /\ shutdown_completed' = TRUE /\ on_shutdown' = TRUE
  /\ UNCHANGED <<listening, filtering, service_name_owner, waiting, origin_tasks, current, origin, owner, countVars,
                 errors, overtaken>>

------------------------------------------------------------------------------
(* The service *)

\* The service starts, ends or is replaced; the daemon announces it to those that
\* have the match rule.
ChangeOwner(o) ==
  /\ o # owner /\ changes < MaxChanges
  /\ changes' = changes + 1
  /\ owner' = o
  /\ incoming' = IF "owner" \in rules THEN Append(incoming, o) ELSE incoming
  /\ UNCHANGED <<busVars, proxyVars, waiting, threadVars, rules, requests, used, wants, call, errors, overtaken>>

------------------------------------------------------------------------------

DBusThread ==
  \/ StartAsyncMethodCall \/ ConnectFails \/ ConnectToNameOwnerChangedSignal
  \/ UpdateNameOwnerAndBlock \/ AddMatchRuleWithCallback
  \/ ListenInternal \/ UnlistenInternal \/ RemoveObjectProxyInternal \/ ShutdownAndBlock

Next ==
  \/ \E p \in Proxies : \/ GetObjectProxy(p) \/ WaitForServiceToBeAvailable(p)
                        \/ ConnectToSignal(p) \/ RemoveObjectProxy(p)
  \/ \E p \in Proxies, c \in Calls : \/ CallMethod(p, c) \/ CallMethodFails(p, c)
                                      \/ OnPendingCallIsComplete(p, c)
  \/ Listen \/ ShutdownOnDBusThreadAndBlock \/ ShutdownReturns \/ RunOriginTask
  \/ DBusThread \/ HandleNameOwnerChanged
  \/ \E o \in Owners \union {None} : ChangeOwner(o)

Spec == Init /\ [][Next]_vars

------------------------------------------------------------------------------
(* Properties *)

\* The proxies somebody still has to detach.
Attached ==
  object_proxy_table
    \union {dbus_tasks[i].proxy : i \in {j \in 1..Len(dbus_tasks) : dbus_tasks[j].kind = "remove"}}

\* What libdbus and the bus hold of a proxy, by raw pointers, goes away with it: the
\* filter and the pending calls are those of proxies that are still to be detached,
\* and a rule is counted once for each holder and is at the daemon as long as it is
\* counted; the bus has a filter of its own as long as somebody listens.  So after a
\* shutdown nothing is left, as the DCHECKs of ~Bus say.  What is said of the rules and
\* of the bus's filter is said only as long as no blocking call has failed: a refused
\* rule stays counted and leaves the filter, and a rule may outlive a failed removal.
OnlyLiveProxiesAreRegistered ==
  /\ filter_functions_added \subseteq Attached
  /\ \A p \in Proxies : pending_calls[p] # {} \/ match_rules[p] # {} => p \in Attached
  /\ ~errors => (filtering <=> listening)
  /\ ~errors => \A r \in Rules :
       /\ match_rules_added[r] = Cardinality({p \in Proxies : r \in match_rules[p]})
                                 + (IF listening /\ r = "owner" THEN 1 ELSE 0)
       /\ connected => (r \in rules <=> match_rules_added[r] > 0)

\* What a proxy knows of the owner of its service, brought up to date by the signals
\* it has still to handle, is the truth: no change falls between the match rule and
\* the question, and none is undone by the question overtaking the signals.  The
\* exception is a proxy that asked while signals were queued that had arrived before
\* the rule was dropped for a while.
OwnerIsTracked ==
  \A p \in Proxies \ overtaken :
    "owner" \in match_rules[p] /\ ~errors /\ ~(current # None /\ current.task.proxy = p /\ current.stage = "query")
      => owner = IF incoming = <<>> THEN service_name_owner[p] ELSE incoming[Len(incoming)]

\* A call that is neither answered nor cancelled is on its way to the daemon, pending
\* there, or its answer is on its way back; and whoever waits for a service that is
\* there, with a proxy that is not removed, will be told: the question is still to be
\* asked, a signal with the owner is still to be handled, or the answer is posted.  The
\* second holds only as long as no blocking call has failed: if the question fails, the
\* service passes for absent, and a waiter may wait for a signal that does not come.
NobodyIsForgotten ==
  /\ \A c \in Calls : call[c] = "made" =>
       \/ \E i \in 1..Len(dbus_tasks) : dbus_tasks[i].kind = "call" /\ dbus_tasks[i].call = c
       \/ \E p \in Attached : c \in pending_calls[p]
       \/ \E i \in 1..Len(origin_tasks) : origin_tasks[i].kind = "answer" /\ origin_tasks[i].call = c
  /\ \A p \in object_proxy_table : waiting[p] /\ owner # None /\ ~errors =>
       \/ \E i \in 1..Len(dbus_tasks) : dbus_tasks[i].kind = "wait" /\ dbus_tasks[i].proxy = p
       \/ current # None /\ current.task.kind = "wait" /\ current.task.proxy = p
       \/ p \in filter_functions_added /\ incoming # <<>> /\ Last(incoming) = owner
       \/ \E i \in 1..Len(origin_tasks) : origin_tasks[i] = Available(p)
==============================================================================
