------------------------ MODULE ServerProcessProofs -------------------------
(***************************************************************************)
(* Proofs about the server as a process (module ServerProcess), for any    *)
(* commands, any number of Ctrl+C and any number of datagrams.             *)
(***************************************************************************)
EXTENDS ServerProcess, TLAPS

\* Where each thread can be.
Before  == {"bind", "thread", "on", "install"}
Serving == {"reset", "test", "frame", "inframe"}
Ending  == {"uninstall", "clear", "request", "join", "destroy"}

Located ==
    /\ main \in Before \cup Serving \cup Ending \cup {"ended"}
    /\ dispatcher \in {"none", "poll", "receive", "found", "call", "leave", "handle",
                       "sleep", "exited"}

\* The members exist from the constructor to the destructor; the dispatcher runs
\* only in between, for Join has waited for it.
Lifetimes ==
    /\ main \notin {"bind", "destroy", "ended"} => alive = Objects
    /\ main \in {"bind", "thread", "destroy", "ended"} => dispatcher \in {"none", "exited"}
    /\ main = "bind" => alive = {"clients"}

\* Each lock is held by who is where it is needed.
Locked ==
    /\ clientsBy \in {NoThread, "main", "dispatcher"}
    /\ clientsBy = "main" => main = "inframe"
    /\ clientsBy = "dispatcher" => dispatcher = "handle"

\* The main thread ends its loop only for a signal that has called stop, and
\* until then the callback is there; no signal is seen before it is.
Signalled ==
    /\ main \in Before => ~installed /\ \A s \in Signals : signal[s] = "none"
    /\ main \in Serving => callback
    /\ main \in Ending => stop
    /\ main = "ended" => stop \/ \A s \in Signals : signal[s] = "none"
    /\ installed => main \in Serving \cup {"uninstall"}
    /\ stop => \E s \in Signals : signal[s] = "over"

IInv == TypeOK /\ Located /\ Lifetimes /\ Locked /\ Signalled

LEMMA InitIInv == Init => IInv
<1> SUFFICES ASSUME Init PROVE IInv
  OBVIOUS
<1> USE DEF Init
<1>1. TypeOK
  <2>1. inbox \in 0 .. MaxInbox
    BY ProcessAssumption
  <2>2. QED
    BY <2>1 DEF TypeOK, Objects, NoThread
<1>2. Located
  BY DEF Located, Before
<1>3. Lifetimes /\ Locked
  BY DEF Lifetimes, Locked, NoThread
<1>4. Signalled
  BY DEF Signalled, Before, Serving, Ending
<1>5. QED
  BY <1>1, <1>2, <1>3, <1>4 DEF IInv

\* One step of any thread keeps the types.
LEMMA TypeStep == TypeOK /\ [Next]_vars => TypeOK'
<1> SUFFICES ASSUME TypeOK, [Next]_vars PROVE TypeOK'
  OBVIOUS
<1> USE DEF TypeOK, locks, dispatch, console, NoThread
<1>1. CASE MainThread
  <2>1. CASE \/ Bind \/ StartThread \/ SetCallback \/ Install \/ ResetStop \/ Test
             \/ BeginFrame \/ EndFrame
    BY <2>1 DEF Bind, StartThread, SetCallback, Install, ResetStop, Test, BeginFrame,
                EndFrame, Objects
  <2>2. CASE Uninstall \/ ClearCallback \/ RequestStop \/ Join \/ \E c \in Commands : On(c)
    BY <2>2 DEF Uninstall, ClearCallback, RequestStop, Join, On
  <2>3. CASE Destroy
    BY <2>3 DEF Destroy
  <2>4. QED
    BY <1>1, <2>1, <2>2, <2>3 DEF MainThread
<1>2. CASE Dispatcher
  <2>1. CASE \E c \in Commands \cup {Unknown} : Take(c)
    BY <2>1, ProcessAssumption DEF Take
  <2>2. QED
    BY <1>2, <2>1 DEF Dispatcher, Poll, NoPacket, Lookup, Enter, Handled, Leave,
                      NothingReceived, Wake
<1>3. CASE Arrive
  BY <1>3, ProcessAssumption DEF Arrive
<1>4. CASE \E s \in Signals : Raise(s) \/ CallStop(s)
  BY <1>4 DEF Raise, CallStop
<1>5. CASE UNCHANGED vars
  BY <1>5 DEF vars
<1>6. QED
  BY <1>1, <1>2, <1>3, <1>4, <1>5 DEF Next, Ended

\* The main thread.
LEMMA MainStep ==
  ASSUME IInv, MainThread
  PROVE  Located' /\ Lifetimes' /\ Locked' /\ Signalled'
<1> USE DEF IInv, Located, Lifetimes, Locked, Signalled, Before, Serving, Ending, locks,
            dispatch, console, NoThread
<1>1. CASE Bind
  BY <1>1 DEF Bind, Objects, TypeOK
<1>2. CASE StartThread
  BY <1>2 DEF StartThread
<1>3. CASE \E c \in Commands : On(c)
  BY <1>3 DEF On
<1>4. CASE SetCallback \/ Install
  BY <1>4 DEF SetCallback, Install
<1>5. CASE ResetStop
  BY <1>5 DEF ResetStop
<1>6. CASE Test
  BY <1>6 DEF Test
<1>7. CASE BeginFrame \/ EndFrame
  BY <1>7 DEF BeginFrame, EndFrame
<1>8. CASE Uninstall \/ ClearCallback \/ RequestStop
  BY <1>8 DEF Uninstall, ClearCallback, RequestStop
<1>9. CASE Join
  BY <1>9 DEF Join
<1>10. CASE Destroy
  BY <1>10 DEF Destroy
<1>11. QED
  BY <1>1, <1>2, <1>3, <1>4, <1>5, <1>6, <1>7, <1>8, <1>9, <1>10 DEF MainThread

\* The dispatcher, which exists only while the members do.
LEMMA DispatcherStep ==
  ASSUME IInv, Dispatcher
  PROVE  Located' /\ Lifetimes' /\ Locked' /\ Signalled'
<1> USE DEF IInv, Located, Lifetimes, Locked, Signalled, locks, console, NoThread
<1>1. CASE Poll \/ NoPacket \/ Lookup \/ Leave
  BY <1>1 DEF Poll, NoPacket, Lookup, Leave
<1>2. CASE Enter \/ Handled
  BY <1>2 DEF Enter, Handled
<1>3. CASE NothingReceived \/ Wake \/ \E c \in Commands \cup {Unknown} : Take(c)
  BY <1>3 DEF NothingReceived, Wake, Take
<1>4. QED
  BY <1>1, <1>2, <1>3 DEF Dispatcher

\* A Ctrl+C, which is seen only while a callback is or was there.
LEMMA SignalStep ==
  ASSUME IInv, NEW s \in Signals, Raise(s) \/ CallStop(s)
  PROVE  Located' /\ Lifetimes' /\ Locked' /\ Signalled'
<1> USE DEF IInv, Located, Lifetimes, Locked, Signalled, locks, dispatch, NoThread
<1>1. CASE Raise(s)
  <2>1. signal \in [Signals -> {"none", "calling", "over"}] /\ installed /\ signal[s] = "none"
    BY <1>1 DEF Raise, TypeOK
  <2>2. \A t \in Signals : t # s => signal'[t] = signal[t]
    BY <1>1, <2>1 DEF Raise
  <2>3. Located' /\ Lifetimes' /\ Locked'
    BY <1>1 DEF Raise
  <2>4. main \notin Before \cup {"ended"}
    BY <2>1 DEF Before, Serving
  <2>5. Signalled'
    BY <1>1, <2>1, <2>2, <2>4 DEF Raise
  <2>6. QED
    BY <2>3, <2>5
<1>2. CASE CallStop(s)
  <2>1. signal \in [Signals -> {"none", "calling", "over"}] /\ signal[s] = "calling"
    BY <1>2 DEF CallStop, TypeOK
  <2>2. signal'[s] = "over" /\ stop'
    BY <1>2, <2>1 DEF CallStop
  <2>3. Located' /\ Lifetimes' /\ Locked'
    BY <1>2 DEF CallStop
  <2>4. main \notin Before
    BY <2>1
  <2>5. Signalled'
    BY <1>2, <2>2, <2>4 DEF CallStop
  <2>6. QED
    BY <2>3, <2>5
<1>3. QED
  BY <1>1, <1>2

LEMMA IInvStep == IInv /\ [Next]_vars => IInv'
<1> SUFFICES ASSUME IInv, [Next]_vars PROVE IInv'
  OBVIOUS
<1>1. TypeOK'
  BY TypeStep DEF IInv
<1>2. CASE MainThread
  BY <1>1, <1>2, MainStep DEF IInv
<1>3. CASE Dispatcher
  BY <1>1, <1>3, DispatcherStep DEF IInv
<1>4. CASE \E s \in Signals : Raise(s) \/ CallStop(s)
  BY <1>1, <1>4, SignalStep DEF IInv
<1>5. CASE Arrive
  BY <1>1, <1>5 DEF Arrive, IInv, Located, Lifetimes, Locked, Signalled, locks, console
<1>6. CASE UNCHANGED vars
  BY <1>1, <1>6 DEF vars, IInv, Located, Lifetimes, Locked, Signalled
<1>7. QED
  BY <1>2, <1>3, <1>4, <1>5, <1>6 DEF Next, Ended

LEMMA Invariant == Spec => []IInv
  BY InitIInv, IInvStep, PTL DEF Spec

-----------------------------------------------------------------------------
\* Neither the dispatcher nor a frame ever touches a member that is destroyed,
\* whatever the order of packets, frames and signals (server.hpp:24-27).
THEOREM LifetimesCorrect == Spec => []ObjectsOutliveThread
<1>1. IInv => ObjectsOutliveThread
  BY DEF IInv, Located, Lifetimes, Locked, ObjectsOutliveThread, Objects, Before, Serving,
         Ending, NoThread
<1>2. QED
  BY <1>1, Invariant, PTL

\* For any number of signals: the first one that calls stop finds the callback
\* and the server (console.cpp:52-57).
THEOREM FirstStopCorrect == Spec => []FirstStopInTime
<1>1. IInv => FirstStopInTime
  <2> SUFFICES ASSUME IInv, NEW s \in Signals, signal[s] = "calling",
                      \A t \in Signals \ {s} : signal[t] = "none"
               PROVE  callback /\ "clients" \in alive
    BY DEF FirstStopInTime
  <2>1. ~stop
    BY DEF IInv, Signalled
  <2>2. main \in Serving
    BY <2>1 DEF IInv, Located, Signalled
  <2>3. QED
    BY <2>2 DEF IInv, Signalled, Lifetimes, Serving, Objects
<1>2. QED
  BY <1>1, Invariant, PTL
=============================================================================
