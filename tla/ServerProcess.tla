--------------------------- MODULE ServerProcess ----------------------------
(***************************************************************************)
(* The master server as a process: the main thread constructs the server,  *)
(* runs its frames and destroys it (server/main.cpp, server/server.cpp),   *)
(* the network dispatcher runs the packet handlers                         *)
(* (common/network/manager.cpp), and Ctrl+C runs a callback on a thread of *)
(* the system's (server/console.cpp).                                      *)
(*                                                                         *)
(* What a handler or a frame does to the clients is module Server; here it *)
(* is only the locks they hold and the objects they need.                  *)
(***************************************************************************)
EXTENDS Integers, FiniteSets

CONSTANTS
    Commands,    \* the commands the server registers handlers for
    Unknown,     \* a command it does not know
    Signals,     \* Ctrl+C, once for each member
    MaxInbox     \* bound on the datagrams waiting at the sockets

ASSUME ProcessAssumption == /\ Unknown \notin Commands
                            /\ MaxInbox \in Nat \ {0}

NoThread == "nobody"
Objects  == {"clients", "sockets", "callbacks"}

VARIABLES
    main,        \* where the main thread is
    dispatcher,  \* where the dispatcher is
    alive,       \* the members of server and manager that exist
    handlers,    \* callbacks_: the registered commands
    callbacksBy, \* the thread that holds the lock of callbacks_
    clientsBy,   \* the thread that holds the lock of clients_
    packet,      \* the command the dispatcher is working on
    inbox,       \* datagrams waiting
    stopRequest, \* the stop token of the dispatcher
    stop,        \* stop_
    callback,    \* get_signal_callback() holds a callback
    installed,   \* the system calls handler on Ctrl+C
    signal       \* how far each Ctrl+C is

vars == <<main, dispatcher, alive, handlers, callbacksBy, clientsBy, packet,
          inbox, stopRequest, stop, callback, installed, signal>>
locks    == <<callbacksBy, clientsBy>>
dispatch == <<dispatcher, packet, inbox>>
console  == <<callback, installed, signal>>

Init == /\ main = "bind"
        /\ dispatcher = "none"
        /\ alive = {"clients"}
        /\ handlers = {}
        /\ callbacksBy = NoThread /\ clientsBy = NoThread
        /\ packet = Unknown
        /\ inbox = 0
        /\ stopRequest = FALSE
        /\ stop = FALSE
        /\ callback = FALSE /\ installed = FALSE
        /\ signal = [s \in Signals |-> "none"]

-----------------------------------------------------------------------------
(* The main thread                                                         *)

\* manager(port) binds its sockets, or finds no free port and throws out of run.
Bind == /\ main = "bind"
        /\ \/ /\ main' = "thread"
              /\ alive' = alive \cup {"sockets", "callbacks"}
           \/ /\ main' = "ended"
              /\ alive' = {}
        /\ UNCHANGED <<dispatch, handlers, locks, stopRequest, stop, console>>

StartThread == /\ main = "thread"
               /\ main' = "on"
               /\ dispatcher' = "poll"
               /\ UNCHANGED <<alive, handlers, locks, packet, inbox, stopRequest, stop, console>>

\* One of the on() calls of server's constructor; packets already arrive.
On(c) == /\ main = "on" /\ c \notin handlers
         /\ callbacksBy = NoThread
         /\ handlers' = handlers \cup {c}
         /\ main' = IF handlers' = Commands THEN "install" ELSE "on"
         /\ UNCHANGED <<dispatch, alive, locks, stopRequest, stop, console>>

\* signal_handler's constructor: the callback first, then the system's handler.
SetCallback == /\ main = "install" /\ ~callback
               /\ callback' = TRUE
               /\ UNCHANGED <<main, dispatch, alive, handlers, locks, stopRequest, stop, installed, signal>>

Install == /\ main = "install" /\ callback
           /\ installed' = TRUE
           /\ main' = "reset"
           /\ UNCHANGED <<dispatch, alive, handlers, locks, stopRequest, stop, callback, signal>>

\* run() clears stop_ before its loop.
ResetStop == /\ main = "reset"
             /\ stop' = FALSE
             /\ main' = "test"
             /\ UNCHANGED <<dispatch, alive, handlers, locks, stopRequest, console>>

\* mutation: the condition of the loop is the wrong way round
TestInverted == /\ main = "test"
                /\ main' = IF stop THEN "frame" ELSE "uninstall"
                /\ UNCHANGED <<dispatch, alive, handlers, locks, stopRequest, stop, console>>

\* while (!stop_)
Test == /\ main = "test"
        /\ main' = IF stop THEN "uninstall" ELSE "frame"
        /\ UNCHANGED <<dispatch, alive, handlers, locks, stopRequest, stop, console>>

BeginFrame == /\ main = "frame" /\ clientsBy = NoThread
              /\ clientsBy' = "main"
              /\ main' = "inframe"
              /\ UNCHANGED <<dispatch, alive, handlers, callbacksBy, stopRequest, stop, console>>

EndFrame == /\ main = "inframe"
            /\ clientsBy' = NoThread
            /\ main' = "test"
            /\ UNCHANGED <<dispatch, alive, handlers, callbacksBy, stopRequest, stop, console>>

\* ~signal_handler: no more signals, then the callback is cleared.
Uninstall == /\ main = "uninstall"
             /\ installed' = FALSE
             /\ main' = "clear"
             /\ UNCHANGED <<dispatch, alive, handlers, locks, stopRequest, stop, callback, signal>>

ClearCallback == /\ main = "clear"
                 /\ callback' = FALSE
                 /\ main' = "request"
                 /\ UNCHANGED <<dispatch, alive, handlers, locks, stopRequest, stop, installed, signal>>

\* ~server destroys its members backwards: manager_ before clients_, and of
\* manager_ the thread first, which asks it to stop ...
RequestStop == /\ main = "request"
               /\ stopRequest' = TRUE
               /\ main' = "join"
               /\ UNCHANGED <<dispatch, alive, handlers, locks, stop, console>>

\* mutation: the thread is not waited for
JoinDetaching == /\ main = "join"
                 /\ main' = "destroy"
                 /\ UNCHANGED <<dispatch, alive, handlers, locks, stopRequest, stop, console>>

\* ... and waits for it.
Join == /\ main = "join" /\ dispatcher = "exited"
        /\ main' = "destroy"
        /\ UNCHANGED <<dispatch, alive, handlers, locks, stopRequest, stop, console>>

Destroy == /\ main = "destroy"
           /\ alive' = CASE "callbacks" \in alive -> alive \ {"callbacks"}
                         [] "sockets" \in alive   -> alive \ {"sockets"}
                         [] OTHER                 -> {}
           /\ main' = IF alive' = {} THEN "ended" ELSE "destroy"
           /\ UNCHANGED <<dispatch, handlers, locks, stopRequest, stop, console>>

MainThread == \/ Bind \/ StartThread \/ SetCallback \/ Install \/ ResetStop \/ Test
              \/ BeginFrame \/ EndFrame \/ Uninstall \/ ClearCallback
              \/ RequestStop \/ Join \/ Destroy
              \/ \E c \in Commands : On(c)

-----------------------------------------------------------------------------
(* The dispatcher                                                          *)

\* while (!stop_token.stop_requested())
Poll == /\ dispatcher = "poll"
        /\ dispatcher' = IF stopRequest THEN "exited" ELSE "receive"
        /\ UNCHANGED <<main, alive, handlers, locks, packet, inbox, stopRequest, stop, console>>

\* A datagram is taken from a socket: it names a command, or is not a packet.
Take(c) == /\ dispatcher = "receive" /\ inbox > 0
           /\ inbox' = inbox - 1
           /\ packet' = c
           /\ dispatcher' = "found"
           /\ UNCHANGED <<main, alive, handlers, locks, stopRequest, stop, console>>

NoPacket == /\ dispatcher = "found"
            /\ dispatcher' = "poll"
            /\ UNCHANGED <<main, alive, handlers, locks, packet, inbox, stopRequest, stop, console>>

\* dispatch_command looks the command up under the lock and keeps it.
Lookup == /\ dispatcher = "found" /\ callbacksBy = NoThread
          /\ callbacksBy' = "dispatcher"
          /\ dispatcher' = IF packet \in handlers THEN "call" ELSE "leave"
          /\ UNCHANGED <<main, alive, handlers, clientsBy, packet, inbox, stopRequest, stop, console>>

\* The callback of server::on takes the lock of clients_ and runs the handler.
Enter == /\ dispatcher = "call" /\ clientsBy = NoThread
         /\ clientsBy' = "dispatcher"
         /\ dispatcher' = "handle"
         /\ UNCHANGED <<main, alive, handlers, callbacksBy, packet, inbox, stopRequest, stop, console>>

\* The handler returns, or throws and is caught in dispatch_command.
Handled == /\ dispatcher = "handle"
           /\ clientsBy' = NoThread
           /\ dispatcher' = "leave"
           /\ UNCHANGED <<main, alive, handlers, callbacksBy, packet, inbox, stopRequest, stop, console>>

Leave == /\ dispatcher = "leave"
         /\ callbacksBy' = NoThread
         /\ dispatcher' = "poll"
         /\ UNCHANGED <<main, alive, handlers, clientsBy, packet, inbox, stopRequest, stop, console>>

NothingReceived == /\ dispatcher = "receive" /\ inbox = 0
                   /\ dispatcher' = "sleep"
                   /\ UNCHANGED <<main, alive, handlers, locks, packet, inbox, stopRequest, stop, console>>

\* mutation: poll waits for a datagram, however long it takes
WakeOnData == /\ dispatcher = "sleep" /\ inbox > 0
              /\ dispatcher' = "poll"
              /\ UNCHANGED <<main, alive, handlers, locks, packet, inbox, stopRequest, stop, console>>

\* sleep_sockets returns on data and after a second.
Wake == /\ dispatcher = "sleep"
        /\ dispatcher' = "poll"
        /\ UNCHANGED <<main, alive, handlers, locks, packet, inbox, stopRequest, stop, console>>

Dispatcher == \/ Poll \/ NoPacket \/ Lookup \/ Enter \/ Handled \/ Leave
              \/ NothingReceived \/ Wake
              \/ \E c \in Commands \cup {Unknown} : Take(c)

-----------------------------------------------------------------------------
(* The network and Ctrl+C                                                  *)

Arrive == /\ "sockets" \in alive /\ inbox < MaxInbox
          /\ inbox' = inbox + 1
          /\ UNCHANGED <<main, dispatcher, alive, handlers, locks, packet, stopRequest, stop, console>>

\* The system calls handler, which tests the callback.
Raise(s) == /\ installed /\ signal[s] = "none"
            /\ signal' = [signal EXCEPT ![s] = IF callback THEN "calling" ELSE "over"]
            /\ UNCHANGED <<main, dispatch, alive, handlers, locks, stopRequest, stop, callback, installed>>

\* The callback runs server::stop.
CallStop(s) == /\ signal[s] = "calling"
               /\ signal' = [signal EXCEPT ![s] = "over"]
               /\ stop' = TRUE
               /\ UNCHANGED <<main, dispatch, alive, handlers, locks, stopRequest, callback, installed>>

Ended == main = "ended" /\ UNCHANGED vars

Next == \/ MainThread
        \/ Dispatcher
        \/ Arrive
        \/ \E s \in Signals : Raise(s) \/ CallStop(s)
        \/ Ended

Spec == Init /\ [][Next]_vars

\* Threads that can go on do. The two locks are taken by turns: a frame is not
\* kept out for ever by a flood of packets, nor packets by frames.
Fairness == /\ WF_vars(MainThread) /\ WF_vars(Dispatcher)
            /\ SF_vars(BeginFrame) /\ SF_vars(Enter)
            /\ \A c \in Commands : SF_vars(On(c))
            /\ \A s \in Signals : WF_vars(CallStop(s))

FairSpec == Spec /\ Fairness

-----------------------------------------------------------------------------
(* Properties                                                              *)

TypeOK == /\ alive \subseteq Objects
          /\ handlers \subseteq Commands
          /\ {callbacksBy, clientsBy} \subseteq {NoThread, "main", "dispatcher"}
          /\ packet \in Commands \cup {Unknown}
          /\ inbox \in 0 .. MaxInbox
          /\ {stopRequest, stop, callback, installed} \subseteq BOOLEAN
          /\ signal \in [Signals -> {"none", "calling", "over"}]

\* No thread uses a member that is already destroyed: the order in which
\* server.hpp:24-27 and manager.hpp:39-44 declare them has the dispatcher end
\* before what its handlers use.
ObjectsOutliveThread ==
    /\ dispatcher \notin {"none", "exited"} => alive = Objects
    /\ main \in {"frame", "inframe"} => alive = Objects
    /\ clientsBy # NoThread => "clients" \in alive

\* A Ctrl+C that is the only one so far calls a callback and a server that
\* still exist when it calls them, although handler tests the callback without
\* a lock (console.cpp:52-57) and main destroys both: main is waiting for it.
FirstStopInTime ==
    \A s \in Signals :
        signal[s] = "calling" /\ (\A t \in Signals \ {s} : signal[t] = "none")
            => callback /\ "clients" \in alive

\* A Ctrl+C that calls stop once run() has begun ends the process, whatever
\* arrives at the sockets. Before that, stop_ = false loses it.
StopEnds ==
    \A s \in Signals :
        (signal[s] = "calling" /\ main \notin {"install", "reset"}) ~> main = "ended"
=============================================================================
