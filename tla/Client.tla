------------------------------- MODULE Client -------------------------------
(***************************************************************************)
(* The life of the client's process: components register themselves before *)
(* main, are started, loaded with the game and destroyed at the end        *)
(* (client/main.cpp, client/loader/component_loader.cpp), and some own a   *)
(* thread.  The end comes from main, from an exception, or from any thread *)
(* of the game that calls ExitProcess, which is hooked.                    *)
(*                                                                         *)
(* Windows and their messages are the system's: the game's, and the splash *)
(* screen, which main shows and two other threads may be the ones to hide. *)
(***************************************************************************)
EXTENDS Integers, Sequences, FiniteSets, SequencesExt

CONSTANTS
    Component,     \* the components
    Priority,      \* Priority[c]: component_interface::priority
    Updater,       \* the one whose thread runs from its construction
    Scheduler,     \* the one whose thread runs the async pipeline
    Network,       \* the one whose thread dispatches packets
    Splash,        \* the one that shows the splash screen
    GameThread,    \* the threads of the game besides main
    WindowThread   \* the thread that owns the game's window

Owner  == {Updater, Scheduler, Network}
Thread == {"main"} \cup GameThread

ASSUME ClientAssumption == /\ Priority \in [Component -> Nat]
                           /\ Owner \subseteq Component /\ Updater \notin {Scheduler, Network}
                           /\ Splash \in Component \ Owner
                           /\ \A c \in Component \ {Updater} : Priority[c] < Priority[Updater]
                           /\ WindowThread \in Thread

VARIABLES
    process,     \* "alive", "terminated" (TerminateProcess) or "exited"
    components,  \* get_components()
    main,        \* where main is
    next,        \* main's iterator in post_start and post_load
    started,     \* components whose post_start has returned
    thread,      \* the thread of each owner: "none", "running", "ended", or "blocked"
                 \* or "hiding" while it waits for an answer of a window's thread
    asked,       \* owners whose thread has been asked to stop
    exit,        \* how far each thread is on its way out
    guard,       \* the static of pre_destroy: "unset", "running" or "done"
    destroyed,   \* history: the calls of pre_destroy on components, in order
    window,      \* the game's window: "none", "open" or "closed"
    splash       \* the splash screen: "none", "shown", "hidden" or "destroyed"

vars  == <<process, components, main, next, started, thread, asked, exit,
           guard, destroyed, window, splash>>
start == <<components, main, next, started>>
ending == <<exit, guard, destroyed>>
windows == <<window, splash>>

Init == /\ process = "alive"
        /\ components = <<>>
        /\ main = "register" /\ next = 1
        /\ started = {}
        /\ thread = [o \in Owner |-> "none"]
        /\ asked = {}
        /\ exit = [t \in Thread |-> "no"]
        /\ guard = "unset"
        /\ destroyed = <<>>
        /\ window = "none" /\ splash = "none"

-----------------------------------------------------------------------------
(* Start                                                                   *)

\* mutation: components are kept in the order they register in
SortedNever(s, c) == Append(s, c)

\* stable_sort by falling priority, of a sequence sorted but for its last, which
\* goes behind those it does not precede.
Sorted(s, c) == InsertAt(s, 1 + Cardinality({j \in DOMAIN s : Priority[s[j]] >= Priority[c]}), c)

\* Static initialisation constructs and registers them in whatever order the
\* program was linked in. The updater's constructor starts its thread.
Register(c) ==
    /\ process = "alive" /\ main = "register" /\ c \notin ToSet(components)
    /\ components' = Sorted(components, c)
    /\ main' = IF ToSet(components') = Component THEN "main" ELSE "register"
    /\ thread' = IF c = Updater THEN [thread EXCEPT ![c] = "running"] ELSE thread
    /\ UNCHANGED <<process, next, started, asked, ending, windows>>

\* main leaves: what it does not catch itself ends in pre_destroy, called by
\* the guard of its scope or by the destructor of the component vector.
Leave == /\ main' = "leaving"
         /\ exit' = [exit EXCEPT !.main = "guard"]

\* handle_process_runner (the process waits for its parent and is done) or
\* verify_tls sends main out at once, or it goes on.
Main == /\ process = "alive" /\ main = "main"
        /\ \/ main' = "post_start" /\ UNCHANGED exit
           \/ Leave
        /\ UNCHANGED <<process, components, next, started, thread, asked, guard, destroyed, windows>>

\* The updater's post_start and post_load join its thread.
Joined(c) == c = Updater => thread[c] = "ended"

\* One component's post_start, which may shut down prematurely (the launcher).
\* The splash screen is shown, if its image and a window are to be had.
PostStart ==
    /\ process = "alive" /\ main = "post_start" /\ next <= Len(components)
    /\ LET c == components[next]
       IN  /\ Joined(c)
           /\ \/ /\ started' = started \cup {c} /\ next' = next + 1
                 /\ splash' \in IF c = Splash THEN {"none", "shown"} ELSE {splash}
                 /\ UNCHANGED <<main, exit>>
              \/ Leave /\ UNCHANGED <<started, next, splash>>
    /\ UNCHANGED <<process, components, thread, asked, guard, destroyed, window>>

\* The game's image is loaded, or that throws.
LoadGame ==
    /\ process = "alive" /\ main = "post_start" /\ next > Len(components)
    /\ \/ main' = "post_load" /\ next' = 1 /\ UNCHANGED exit
       \/ Leave /\ UNCHANGED next
    /\ UNCHANGED <<process, components, started, thread, asked, guard, destroyed, windows>>

\* One component's post_load, which starts its thread, or throws.
PostLoad ==
    /\ process = "alive" /\ main = "post_load" /\ next <= Len(components)
    /\ LET c == components[next]
       IN  /\ Joined(c)
           /\ \/ /\ thread' = IF c \in {Scheduler, Network} THEN [thread EXCEPT ![c] = "running"] ELSE thread
                 /\ next' = next + 1
                 /\ UNCHANGED <<main, exit>>
              \/ Leave /\ UNCHANGED <<thread, next>>
    /\ UNCHANGED <<process, components, started, asked, guard, destroyed, windows>>

EnterGame == /\ process = "alive" /\ main = "post_load" /\ next > Len(components)
             /\ main' = "game"
             /\ UNCHANGED <<process, components, next, started, thread, asked, ending, windows>>

-----------------------------------------------------------------------------
(* The threads of the components                                           *)

\* The update ends: the game may start, or the process is terminated.
UpdateEnds ==
    /\ process = "alive" /\ thread[Updater] = "running"
    /\ thread' = [thread EXCEPT ![Updater] = "ended"]
    /\ process' \in {"alive", "terminated"}
    /\ UNCHANGED <<start, asked, ending, windows>>

\* The scheduler's and the network's thread see the stop request.
ThreadEnds(o) ==
    /\ process = "alive" /\ o \in asked /\ thread[o] = "running"
    /\ thread' = [thread EXCEPT ![o] = "ended"]
    /\ UNCHANGED <<process, start, asked, ending, windows>>

\* The task of window.cpp sets the title of the game's window: the message is
\* answered by the thread that owns the window.
SetTitle ==
    /\ process = "alive" /\ thread[Scheduler] = "running" /\ window = "open"
    /\ thread' = [thread EXCEPT ![Scheduler] = "blocked"]
    /\ UNCHANGED <<process, start, asked, ending, windows>>

\* That thread looks for messages while it is not on its way out.
TitleSet ==
    /\ process = "alive" /\ thread[Scheduler] = "blocked"
    /\ exit[WindowThread] = "no" \/ window = "closed"
    /\ thread' = [thread EXCEPT ![Scheduler] = "running"]
    /\ UNCHANGED <<process, start, asked, ending, windows>>

\* ShowWindow for a window of main returns when main, in the game, has handled
\* the message, or when the window is gone.
MainAnswers == (main = "game" /\ exit.main = "no") \/ splash = "destroyed"

\* The task of splash.cpp hides the splash screen once there is a game window;
\* window_ is cleared first ...
HideSplash ==
    /\ process = "alive" /\ thread[Scheduler] = "running"
    /\ window = "open" /\ splash = "shown"
    /\ thread' = [thread EXCEPT ![Scheduler] = "hiding"]
    /\ UNCHANGED <<process, start, asked, ending, windows>>

Hidden == IF splash = "shown" THEN "hidden" ELSE splash

\* ... and main's window is hidden: only main could destroy it.
SplashHidden ==
    /\ process = "alive" /\ thread[Scheduler] = "hiding" /\ MainAnswers
    /\ thread' = [thread EXCEPT ![Scheduler] = "running"]
    /\ splash' = Hidden
    /\ UNCHANGED <<process, start, asked, ending, window>>

-----------------------------------------------------------------------------
(* The end                                                                 *)

InGame(t) == process = "alive" /\ main = "game" /\ exit[t] = "no"

OpenWindow == /\ InGame(WindowThread) /\ window = "none"
              /\ window' = "open"
              /\ UNCHANGED <<process, start, thread, asked, ending, splash>>

CloseWindow == /\ InGame(WindowThread) /\ window = "open"
               /\ window' = "closed"
               /\ UNCHANGED <<process, start, thread, asked, ending, splash>>

\* A thread of the game calls ExitProcess: exit_hook.
ExitHook(t) == /\ InGame(t)
               /\ exit' = [exit EXCEPT ![t] = "guard"]
               /\ UNCHANGED <<process, start, thread, asked, guard, destroyed, windows>>

\* mutation: a flag is set where the static is, as in post_start
EnterGuardByFlag(t) ==
    /\ process = "alive" /\ exit[t] = "guard"
    /\ exit' = [exit EXCEPT ![t] = IF guard = "unset" THEN "destroy" ELSE "exit"]
    /\ guard' = IF guard = "unset" THEN "running" ELSE guard
    /\ UNCHANGED <<process, start, thread, asked, destroyed, windows>>

\* The static in pre_destroy lets one thread in and the others wait for it.
EnterGuard(t) ==
    /\ process = "alive" /\ exit[t] = "guard" /\ guard # "running"
    /\ exit' = [exit EXCEPT ![t] = IF guard = "unset" THEN "destroy" ELSE "exit"]
    /\ guard' = IF guard = "unset" THEN "running" ELSE guard
    /\ UNCHANGED <<process, start, thread, asked, destroyed, windows>>

Destroying == components[Len(destroyed) + 1]

\* mutation: threads are asked to stop by the hook only
AskToStopInGame(t) ==
    /\ process = "alive" /\ exit[t] = "destroy" /\ Len(destroyed) < Len(components)
    /\ Destroying \in {Scheduler, Network} \ asked /\ main = "game"
    /\ asked' = asked \cup {Destroying}
    /\ UNCHANGED <<process, start, thread, ending, windows>>

\* pre_destroy of an owner asks its thread to stop (not the updater) ...
AskToStop(t) ==
    /\ process = "alive" /\ exit[t] = "destroy" /\ Len(destroyed) < Len(components)
    /\ Destroying \in {Scheduler, Network} \ asked
    /\ asked' = asked \cup {Destroying}
    /\ UNCHANGED <<process, start, thread, ending, windows>>

\* mutation: the thread is not waited for
PreDestroyAtOnce(t) ==
    /\ process = "alive" /\ exit[t] = "destroy" /\ Len(destroyed) < Len(components)
    /\ destroyed' = Append(destroyed, Destroying)
    /\ UNCHANGED <<process, start, thread, asked, exit, guard, windows>>

\* ... and returns when it has ended. The splash screen's finds window_ empty,
\* the scheduler's thread having cleared it at the latest; others wait for
\* nothing.
PreDestroy(t) ==
    /\ process = "alive" /\ exit[t] = "destroy" /\ Len(destroyed) < Len(components)
    /\ Destroying \in Owner => /\ thread[Destroying] \in {"none", "ended"}
                               /\ Destroying \in asked \cup {Updater}
    /\ Destroying = Splash => splash # "shown" \/ thread[Scheduler] = "hiding"
    /\ destroyed' = Append(destroyed, Destroying)
    /\ UNCHANGED <<process, start, thread, asked, exit, guard, windows>>

\* Or it finds the splash screen, perhaps together with the scheduler's thread.
FindsSplash(t) == /\ process = "alive" /\ exit[t] = "destroy" /\ Len(destroyed) < Len(components)
                  /\ Destroying = Splash /\ splash = "shown"

\* Main destroys its window at once.
DestroySplash(t) ==
    /\ FindsSplash(t) /\ t = "main"
    /\ splash' = "destroyed"
    /\ destroyed' = Append(destroyed, Destroying)
    /\ UNCHANGED <<process, start, thread, asked, exit, guard, window>>

\* Another thread waits for main in ShowWindow ...
WaitForMain(t) ==
    /\ FindsSplash(t) /\ t # "main"
    /\ exit' = [exit EXCEPT ![t] = "hide"]
    /\ UNCHANGED <<process, start, thread, asked, guard, destroyed, windows>>

\* ... and the window, which it cannot destroy, is hidden.
MainAnswered(t) ==
    /\ process = "alive" /\ exit[t] = "hide" /\ MainAnswers
    /\ exit' = [exit EXCEPT ![t] = "destroy"]
    /\ splash' = Hidden
    /\ destroyed' = Append(destroyed, Destroying)
    /\ UNCHANGED <<process, start, thread, asked, guard, window>>

\* An exception out of a pre_destroy that joins nothing: TerminateProcess.
PreDestroyThrows(t) ==
    /\ process = "alive" /\ exit[t] = "destroy" /\ Len(destroyed) < Len(components)
    /\ Destroying \notin Owner \cup {Splash}
    /\ process' = "terminated"
    /\ UNCHANGED <<start, thread, asked, ending, windows>>

LeaveGuard(t) ==
    /\ process = "alive" /\ exit[t] = "destroy" /\ Len(destroyed) = Len(components)
    /\ guard' = "done"
    /\ exit' = [exit EXCEPT ![t] = "exit"]
    /\ UNCHANGED <<process, start, thread, asked, destroyed, windows>>

\* exit(code) runs the destructors of the statics; the component vector's calls
\* pre_destroy again, which has been done, and deletes the components.
Exit(t) == /\ process = "alive" /\ exit[t] = "exit"
           /\ process' = "exited"
           /\ UNCHANGED <<start, thread, asked, ending, windows>>

SplashGone(t) == DestroySplash(t) \/ WaitForMain(t) \/ MainAnswered(t)

WayOut(t) == \/ EnterGuard(t) \/ AskToStop(t) \/ PreDestroy(t)
             \/ SplashGone(t) \/ LeaveGuard(t) \/ Exit(t)

Gone == process # "alive" /\ UNCHANGED vars

Next == \/ \E c \in Component : Register(c)
        \/ Main \/ PostStart \/ LoadGame \/ PostLoad \/ EnterGame
        \/ UpdateEnds \/ SetTitle \/ TitleSet \/ HideSplash \/ SplashHidden
        \/ \E o \in {Scheduler, Network} : ThreadEnds(o)
        \/ OpenWindow \/ CloseWindow
        \/ \E t \in Thread : ExitHook(t) \/ WayOut(t) \/ PreDestroyThrows(t)
        \/ Gone

Spec == Init /\ [][Next]_vars

\* Every update ends, threads on their way out go on, the components' threads
\* look at the stop request and get their message answered if they can be. The
\* request is seen although the scheduler sets the title again and again: the
\* loop tests it between two passes.
Fairness == /\ WF_vars(UpdateEnds) /\ WF_vars(TitleSet) /\ WF_vars(SplashHidden)
            /\ \A o \in {Scheduler, Network} : SF_vars(ThreadEnds(o))
            /\ \A t \in Thread : WF_vars(WayOut(t))

FairSpec == Spec /\ Fairness
-----------------------------------------------------------------------------
(* Properties                                                              *)

TypeOK == /\ process \in {"alive", "terminated", "exited"}
          /\ IsInjective(components) /\ ToSet(components) \subseteq Component
          /\ next \in 1 .. Len(components) + 1
          /\ started \subseteq Component
          /\ thread \in [Owner -> {"none", "running", "blocked", "hiding", "ended"}]
          /\ asked \subseteq {Scheduler, Network}
          /\ exit \in [Thread -> {"no", "guard", "destroy", "hide", "exit"}]
          /\ guard \in {"unset", "running", "done"}
          /\ window \in {"none", "open", "closed"}
          /\ splash \in {"none", "shown", "hidden", "destroyed"}

\* The update is over before any other component starts, in whatever order
\* static initialisation registered them: the updater sorts first and joins
\* its thread. A process it terminates has shown and changed nothing.
UpdateFirst == started \subseteq {Updater} \/ thread[Updater] = "ended"

\* When a thread goes on to exit, every component has been destroyed, by
\* whichever thread came first and however the process came to its end.
ExitAfterDestroy == \A t \in Thread : exit[t] = "exit" => destroyed = components

\* The components are deleted with none of their threads running.
ThreadsJoined == process = "exited" => \A o \in Owner : thread[o] \in {"none", "ended"}

\* The scheduler's thread waits for the game's window to take its title, and the
\* thread that owns the window is on its way out itself.
StuckOnTitle == exit[WindowThread] # "no" /\ window = "open" /\ thread[Scheduler] = "blocked"

\* The scheduler's thread, or another one on its way out, waits in ShowWindow for
\* main, whose window the splash screen is, and main is on its way out itself.
StuckOnSplash ==
    /\ exit.main # "no" /\ splash \in {"shown", "hidden"}
    /\ \/ thread[Scheduler] = "hiding"
       \/ \E t \in Thread \ {"main"} : exit[t] = "hide"

\* A thread on its way out ends the process, or the process hangs for ever in one
\* of two ways: a thread waits for the thread of a window, and that one waits for
\* it, in the static of pre_destroy or in the join of the scheduler's thread
\* (component_loader.cpp:83-106, scheduler.cpp:182-189, window.cpp:41,
\* splash.cpp:126-145).
HangsOnlyOnWindow ==
    \A t \in Thread : exit[t] # "no" ~> (process # "alive" \/ [](StuckOnTitle \/ StuckOnSplash))
=============================================================================
