------------------------------- MODULE Splash -------------------------------
(***************************************************************************)
(* The splash screen (client/module/splash.cpp): a window of the main      *)
(* thread that is to go when the game's window is there, by a task of the  *)
(* scheduler's thread, and at the latest when the components are           *)
(* destroyed, by whatever thread ends the process first.                   *)
(*                                                                         *)
(* window_ is read and cleared without a lock.  Only its own thread can    *)
(* destroy a window, and ShowWindow for another's returns when that thread *)
(* has handled the message, that is, when main next looks at its messages. *)
(***************************************************************************)
EXTENDS Naturals, Sequences

VARIABLES
    pc,         \* thread -> where it is
    field,      \* window_ names the window
    window,     \* the window itself
    taken,      \* thread -> destroy() has taken the window from the field
    order,      \* the components whose pre_destroy is still to be called
    owner,      \* the thread that runs pre_destroy, or None
    gameWindow  \* the game's window is there

vars == <<pc, field, window, taken, order, owner, gameWindow>>

None == "none"
Thread == {"main", "game", "async"}

Points == {"start", "load", "run", "idle", "exit", "next", "close", "hide", "join", "done"}

TypeOK ==
    /\ pc \in [Thread -> Points]
    /\ field \in BOOLEAN
    /\ window \in {"none", "shown", "hidden", "destroyed"}
    /\ taken \in [Thread -> BOOLEAN]
    /\ order \in {<<>>, <<"splash">>, <<"scheduler">>, <<"splash", "scheduler">>,
                  <<"scheduler", "splash">>}
    /\ owner \in Thread \cup {None}
    /\ gameWindow \in BOOLEAN

\* The components were registered in any order.
Init ==
    /\ pc = [t \in Thread |-> IF t = "main" THEN "start" ELSE "idle"]
    /\ field = FALSE
    /\ window = "none"
    /\ taken = [t \in Thread |-> FALSE]
    /\ order \in {<<"splash", "scheduler">>, <<"scheduler", "splash">>}
    /\ owner = None
    /\ gameWindow = FALSE

Goto(t, place) == pc' = [pc EXCEPT ![t] = place]

\* Main is where it handles the messages of its windows.
Pumping == pc["main"] = "run"

-----------------------------------------------------------------------------
(* The start *)

\* post_start: a window, or none when the image or the window could not be had.
Show ==
    /\ pc["main"] = "start"
    /\ Goto("main", "load")
    /\ \/ field' = TRUE /\ window' = "shown"
       \/ UNCHANGED <<field, window>>
    /\ UNCHANGED <<taken, order, owner, gameWindow>>

\* post_load starts the scheduler's thread; the game's other threads follow.
\* Bringing the splash screen to the front changes nothing here.
Load ==
    /\ pc["main"] = "load"
    /\ pc' = [main |-> "run", game |-> "run", async |-> "run"]
    /\ UNCHANGED <<field, window, taken, order, owner, gameWindow>>

GameWindow ==
    /\ Pumping
    /\ gameWindow' = ~gameWindow
    /\ UNCHANGED <<pc, field, window, taken, order, owner>>

-----------------------------------------------------------------------------
(* close *)

\* The task, which never ends: it closes again and again (module Scheduler).
Task ==
    /\ pc["async"] = "run"
    /\ \A t \in Thread : pc[t] # "join"
    /\ gameWindow
    /\ Goto("async", "close")
    /\ UNCHANGED <<field, window, taken, order, owner, gameWindow>>

\* The first half of destroy: another thread may come between the read and the
\* write, and both then have the window.
Take(t) ==
    /\ pc[t] = "close"
    /\ taken' = [taken EXCEPT ![t] = field]
    /\ \/ field' = FALSE
       \/ UNCHANGED field
    /\ Goto(t, "hide")
    /\ UNCHANGED <<window, order, owner, gameWindow>>

\* The write that was still to come, and IsWindow.
Returns(t) == IF t = "async" THEN "run" ELSE "next"

Valid == window \in {"shown", "hidden"}

NothingToHide(t) ==
    /\ pc[t] = "hide"
    /\ ~taken[t] \/ ~Valid
    /\ field' = FALSE
    /\ Goto(t, Returns(t))
    /\ taken' = [taken EXCEPT ![t] = FALSE]
    /\ UNCHANGED <<window, order, owner, gameWindow>>

\* mutation: the window is destroyed without being hidden before
HideNever(t) ==
    /\ pc[t] = "hide"
    /\ taken[t] /\ Valid
    /\ window' = IF t = "main" THEN "destroyed" ELSE window
    /\ field' = FALSE
    /\ Goto(t, Returns(t))
    /\ taken' = [taken EXCEPT ![t] = FALSE]
    /\ UNCHANGED <<order, owner, gameWindow>>

\* ShowWindow and DestroyWindow; the loop that follows ends at once, since the
\* window of this thread is gone and that of another is not returned.
Hide(t) ==
    /\ pc[t] = "hide"
    /\ taken[t] /\ Valid
    /\ t = "main" \/ Pumping
    /\ window' = IF t = "main" THEN "destroyed" ELSE "hidden"
    /\ field' = FALSE
    /\ Goto(t, Returns(t))
    /\ taken' = [taken EXCEPT ![t] = FALSE]
    /\ UNCHANGED <<order, owner, gameWindow>>

-----------------------------------------------------------------------------
(* The end: module Client has all of it *)

\* Main returns, also before anything is loaded, or a thread calls ExitProcess.
\* The first one runs pre_destroy; another waits for it there.
Exit(t) ==
    /\ t # "async"
    /\ pc[t] \in IF t = "main" THEN {"start", "load", "run"} ELSE {"run"}
    /\ Goto(t, "exit")
    /\ UNCHANGED <<field, window, taken, order, owner, gameWindow>>

Enter(t) ==
    /\ pc[t] = "exit"
    /\ owner = None
    /\ owner' = t
    /\ Goto(t, "next")
    /\ UNCHANGED <<field, window, taken, order, gameWindow>>

PreDestroy(t) ==
    /\ pc[t] = "next" /\ order # <<>>
    /\ Goto(t, IF Head(order) = "splash" THEN "close" ELSE "join")
    /\ order' = Tail(order)
    /\ UNCHANGED <<field, window, taken, owner, gameWindow>>

\* mutation: the scheduler's thread is ended wherever it is
JoinAtOnce(t) ==
    /\ pc[t] = "join"
    /\ pc' = [pc EXCEPT ![t] = "next", !["async"] = "done"]
    /\ UNCHANGED <<field, window, taken, order, owner, gameWindow>>

\* The scheduler's thread, if it was started, ends between two passes.
Join(t) ==
    /\ pc[t] = "join"
    /\ pc["async"] \in {"idle", "run"}
    /\ pc' = [pc EXCEPT ![t] = "next", !["async"] = "done"]
    /\ UNCHANGED <<field, window, taken, order, owner, gameWindow>>

\* The process, and every window with it, ends.
Ended(t) ==
    /\ pc[t] = "next" /\ order = <<>>
    /\ Goto(t, "done")
    /\ UNCHANGED <<field, window, taken, order, owner, gameWindow>>

Closing(t) == Take(t) \/ NothingToHide(t) \/ Hide(t)

Leaving(t) == Enter(t) \/ PreDestroy(t) \/ Join(t) \/ Ended(t)

Next ==
    \/ Show \/ Load \/ GameWindow \/ Task
    \/ \E t \in Thread : Closing(t) \/ Exit(t) \/ Leaving(t)

Spec == Init /\ [][Next]_vars

\* Threads run, the scheduler makes its passes, and a game that has opened its
\* window looks at its messages; nobody has to open one, or to exit.
FairSpec ==
    /\ Spec
    /\ WF_vars(Task)
    /\ \A t \in Thread : WF_vars(Closing(t)) /\ WF_vars(Leaving(t))

-----------------------------------------------------------------------------
(* Properties *)

Hidden == window # "shown"

Over == \E t \in Thread : owner = t /\ pc[t] = "done"

\* The destruction has dealt with the splash screen.
Dealt ==
    /\ owner # None /\ order \in {<<>>, <<"scheduler">>}
    /\ pc[owner] \notin {"close", "hide"}

\* Two threads may close the splash screen, and one can take the window from under
\* the other: then it is the other that goes on to the end.  Still, once the
\* destruction has dealt with the splash screen, window_ names nothing, the window is
\* gone or in the hands of the scheduler's thread, and the destruction does not end
\* before that one has let go of it (splash.cpp:124-143, 152-175; scheduler.cpp:130-133).
NotLeftBehind ==
    /\ Dealt => ~field /\ (Hidden \/ (pc["async"] = "hide" /\ taken["async"]))
    /\ Over => Hidden /\ pc["async"] = "done"

\* A thread waits in ShowWindow for main, which does not look at its messages any
\* more: it waits itself for the destruction.
StuckOnMain ==
    \E t \in Thread \ {"main"} :
       pc[t] = "hide" /\ taken[t] /\ pc["main"] \in {"exit", "join"} /\ owner # None

\* Whoever closes it, in whatever order and with whatever in between: a game that
\* has its window for good and looks at its messages gets rid of the splash screen
\* for good, unless it was never shown; once the destruction has begun the process
\* ends, and with no splash screen left, unless another thread than main has still
\* to hide it when main has begun to exit (splash.cpp:55-71, 124-143, 152-175).
SplashEnds ==
    /\ <>[](gameWindow /\ Pumping /\ owner = None) => <>[]Hidden
    /\ (owner # None) ~> ((Over /\ Hidden) \/ StuckOnMain)
=============================================================================
