----------------------------- MODULE Scheduler ------------------------------
(***************************************************************************)
(* One pipeline of the client's scheduler (client/module/scheduler.cpp):   *)
(* any thread registers tasks, one thread executes them pass after pass,   *)
(* and pre_destroy stops that thread and waits for it.                     *)
(*                                                                         *)
(* A pass holds the lock of callbacks_ from its begin to its end, a        *)
(* registration only that of new_callbacks_, so registrations interleave   *)
(* with every step of a pass, and come from the handlers it calls too.     *)
(***************************************************************************)
EXTENDS Integers, Sequences, FiniteSets, SequencesExt

CONSTANTS
    Task,        \* the tasks that can be registered
    Kind,        \* Kind[t]: the function it is registered with
    Interval     \* Interval[t]: its delay, in ticks

ASSUME TaskAssumption == /\ Kind \in [Task -> {"schedule", "loop", "once"}]
                         /\ Interval \in [Task -> Nat]

VARIABLES
    new,         \* new_callbacks_
    tasks,       \* callbacks_
    since,       \* since[t]: ticks since t's last_call, at most Interval[t]
    pc,          \* the executing thread: "idle", "pass", "calling" or "exited"
    i,           \* its iterator
    stop,        \* request_stop has been called on it
    joined,      \* pre_destroy has returned
    asked,       \* tasks whose callback returned cond_end when it last ran
    pass,        \* history: the tasks this pass found when it began
    visited      \* history: those it has dealt with, in order

vars == <<new, tasks, since, pc, i, stop, joined, asked, pass, visited>>
queues  == <<new, tasks>>
history == <<pass, visited>>

Init == /\ new = <<>>
        /\ tasks = <<>>
        /\ since = [t \in Task |-> 0]
        /\ pc = "idle"
        /\ i = 1
        /\ stop = FALSE
        /\ joined = FALSE
        /\ asked = {}
        /\ pass = <<>>
        /\ visited = <<>>

Alive == ToSet(tasks) \cup ToSet(new)

-----------------------------------------------------------------------------
\* schedule, loop and once: last_call is the time of the registration.
Add(t) ==
    /\ t \notin Alive
    /\ new' = Append(new, t)
    /\ since' = [since EXCEPT ![t] = 0]
    /\ asked' = asked \ {t}
    /\ UNCHANGED <<tasks, pc, i, stop, joined, history>>

\* mutation: the list of new tasks is copied and not emptied
BeginPassCopying ==
    /\ pc = "idle" /\ ~stop
    /\ tasks' = tasks \o new
    /\ pc' = "pass"
    /\ i' = 1
    /\ pass' = tasks'
    /\ visited' = <<>>
    /\ UNCHANGED <<new, since, stop, joined, asked>>

\* mutation: the thread does not end while new tasks wait
BeginPassDraining ==
    /\ pc = "idle" /\ (stop => new # <<>>)
    /\ tasks' = tasks \o new
    /\ new' = <<>>
    /\ pc' = "pass"
    /\ i' = 1
    /\ pass' = tasks'
    /\ visited' = <<>>
    /\ UNCHANGED <<since, stop, joined, asked>>

\* The thread sees no stop request and calls execute, which takes the lock and
\* merges the new tasks (merge_callbacks).
BeginPass ==
    /\ pc = "idle" /\ ~stop
    /\ tasks' = tasks \o new
    /\ new' = <<>>
    /\ pc' = "pass"
    /\ i' = 1
    /\ pass' = tasks'
    /\ visited' = <<>>
    /\ UNCHANGED <<since, stop, joined, asked>>

Due == since[tasks[i]] >= Interval[tasks[i]]

\* mutation: last_call is set before the interval is looked at
SkipRestarting ==
    /\ pc = "pass" /\ i <= Len(tasks) /\ ~Due
    /\ i' = i + 1
    /\ visited' = Append(visited, tasks[i])
    /\ since' = [since EXCEPT ![tasks[i]] = 0]
    /\ UNCHANGED <<queues, pc, stop, joined, asked, pass>>

\* Not due yet: ++i.
Skip ==
    /\ pc = "pass" /\ i <= Len(tasks) /\ ~Due
    /\ i' = i + 1
    /\ visited' = Append(visited, tasks[i])
    /\ UNCHANGED <<queues, since, pc, stop, joined, asked, pass>>

\* Due: last_call is set, then the handler is called.
Call ==
    /\ pc = "pass" /\ i <= Len(tasks) /\ Due
    /\ pc' = "calling"
    /\ since' = [since EXCEPT ![tasks[i]] = 0]
    /\ UNCHANGED <<queues, i, stop, joined, asked, history>>

\* What the handler returns when the callback it wraps returns r: loop drops
\* the value, once ignores it.
Ends(t, r) == CASE Kind[t] = "schedule" -> r
                [] Kind[t] = "loop"     -> FALSE
                [] Kind[t] = "once"     -> TRUE

\* mutation: the iterator is advanced after an erase too
ReturnSkipping(r) ==
    /\ pc = "calling"
    /\ pc' = "pass"
    /\ visited' = Append(visited, tasks[i])
    /\ asked' = IF r THEN asked \cup {tasks[i]} ELSE asked
    /\ tasks' = IF Ends(tasks[i], r) THEN RemoveAt(tasks, i) ELSE tasks
    /\ i' = i + 1
    /\ UNCHANGED <<new, since, stop, joined, pass>>

\* The handler returns: the task is erased, or the iterator moves on.
Return(r) ==
    /\ pc = "calling"
    /\ pc' = "pass"
    /\ visited' = Append(visited, tasks[i])
    /\ asked' = IF r THEN asked \cup {tasks[i]} ELSE asked
    /\ IF Ends(tasks[i], r)
       THEN tasks' = RemoveAt(tasks, i) /\ UNCHANGED i
       ELSE i' = i + 1 /\ UNCHANGED tasks
    /\ UNCHANGED <<new, since, stop, joined, pass>>

\* The lock is released and the thread sleeps for 10 ms.
EndPass ==
    /\ pc = "pass" /\ i > Len(tasks)
    /\ pc' = "idle"
    /\ UNCHANGED <<queues, since, i, stop, joined, asked, history>>

\* pre_destroy: request_stop, then join.
RequestStop ==
    /\ ~stop
    /\ stop' = TRUE
    /\ UNCHANGED <<queues, since, pc, i, joined, asked, history>>

ThreadExit ==
    /\ pc = "idle" /\ stop
    /\ pc' = "exited"
    /\ UNCHANGED <<queues, since, i, stop, joined, asked, history>>

Join ==
    /\ stop /\ pc = "exited" /\ ~joined
    /\ joined' = TRUE
    /\ UNCHANGED <<queues, since, pc, i, stop, asked, history>>

Tick ==
    /\ since' = [t \in Task |-> IF since[t] < Interval[t] THEN since[t] + 1 ELSE since[t]]
    /\ UNCHANGED <<queues, pc, i, stop, joined, asked, history>>

Execute == BeginPass \/ Skip \/ Call \/ EndPass \/ ThreadExit \/ \E r \in BOOLEAN : Return(r)

Next == \/ \E t \in Task : Add(t)
        \/ Execute
        \/ RequestStop
        \/ Join
        \/ Tick

Spec == Init /\ [][Next]_vars

\* The thread goes on (handlers return), time passes, and join returns when the
\* thread has ended.
Fairness == WF_vars(Execute) /\ WF_vars(Tick) /\ WF_vars(Join)

FairSpec == Spec /\ Fairness

-----------------------------------------------------------------------------
(* Properties                                                              *)

TypeOK == /\ new \in Seq(Task) /\ tasks \in Seq(Task)
          /\ \A t \in Task : since[t] \in 0 .. Interval[t]
          /\ pc \in {"idle", "pass", "calling", "exited"}
          /\ i \in 1 .. Len(tasks) + 1
          /\ stop \in BOOLEAN /\ joined \in BOOLEAN
          /\ asked \subseteq Task

\* A pass deals with every task it found when it began exactly once and in
\* order, although handlers are erased under its iterator while it runs
\* (tasks.erase in execute) and others are registered.
VisitsEachOnce ==
    pc \in {"pass", "calling"} => visited \o SubSeq(tasks, i, Len(tasks)) = pass

\* A task whose callback asked to end (cond_end) is gone. The callbacks of
\* splash.cpp:156-164 and window.cpp:38-46 return cond_end and are registered
\* with loop.
EndsWhenAsked == \A t \in asked : t \notin Alive

\* The pipeline is the list of tasks it promises to be: merging, erasing and
\* registering from inside a pass lose, repeat and reorder nothing.
Promise == INSTANCE Tasks WITH
               alive   <- tasks \o new,
               calling <- IF pc = "calling" THEN {tasks[i]} ELSE {},
               shut    <- joined

ImplementsTasks == Promise!Spec

\* Every registered task is called in the end, unless the thread is stopped.
EventuallyCalled ==
    \A t \in Task : t \in ToSet(new) ~> (stop \/ (pc = "calling" /\ tasks[i] = t))

\* pre_destroy returns, however busy the pipeline is kept by tasks that register
\* new ones: a pass does not see them.
StopReturns == stop ~> joined
=============================================================================
