----------------------------- MODULE Handshake ------------------------------
(***************************************************************************)
(* The authentication handshake: the master server of module Server, the   *)
(* players' game processes (store_player_state and receive_auth_request of *)
(* scripting_experiments.cpp) and the UDP network between them, which may  *)
(* lose, repeat and reorder datagrams; the server and the processes may    *)
(* restart.                                                                *)
(*                                                                         *)
(* Losses, repetitions, restarts and long delays draw on one budget of     *)
(* MaxFaults, so that what must happen once they stop can be stated.       *)
(***************************************************************************)
EXTENDS Server

CONSTANTS
    Player,      \* people with the game installed
    KeyOf,       \* KeyOf[p]: the key utils::identity::get_key derives on p's machine
    GuidOf,      \* GuidOf[p]: what utils::identity::get_guid returns in p's process
    Ports,       \* Ports[p]: the endpoints p's sockets are bound to, now and after restarts
    MaxFaults    \* bound: losses, repetitions, restarts and long delays

ASSUME PlayersAssumption == /\ KeyOf \in [Player -> Key]
                            /\ GuidOf \in [Player -> Guid]
                            /\ Ports \in [Player -> SUBSET Address]
                            /\ \A p, q \in Player : p # q => Ports[p] \cap Ports[q] = {}
                            /\ MaxFaults \in Nat

VARIABLES
    addr,        \* addr[p]: the endpoint of p's running process
    net,         \* the datagrams under way
    faults       \* faults that have happened

hvars == <<clients, issued, sent, addr, net, faults>>

-----------------------------------------------------------------------------
StatePacket(a, g)    == [from |-> a, cmd |-> "state", guid |-> g]
AuthResponse(a, k, n) == [from |-> a, cmd |-> "authResponse", key |-> k, nonce |-> n]

Message ==   {StatePacket(a, g) : a \in Address, g \in Guid}
        \cup {AuthResponse(a, k, n) : a \in Address, k \in Key, n \in Nonce}
        \cup {AuthRequest(a, n) : a \in Address, n \in Nonce}

Fault   == faults < MaxFaults /\ faults' = faults + 1
NoFault == UNCHANGED faults

\* m is delivered and answered with the datagrams in out; a repeated one
\* stays under way to be delivered again.
Deliver(m, out) == /\ m \in net
                   /\ \/ NoFault /\ net' = (net \ {m}) \cup out
                      \/ Fault /\ net' = net \cup out

HInit == /\ Init
         /\ addr \in {f \in [Player -> Address] : \A p \in Player : f[p] \in Ports[p]}
         /\ net = {}
         /\ faults = 0

\* store_player_state, which the game script calls on every frame.
TransmitState(p) ==
    /\ net' = net \cup {StatePacket(addr[p], GuidOf[p])}
    /\ sent' = {}
    /\ UNCHANGED <<clients, issued, addr, faults>>

\* receive_auth_request: every challenge is signed, whichever session it is of.
ReceiveAuthRequest(p, m) ==
    /\ m.cmd = "authRequest" /\ m.to = addr[p]
    /\ Deliver(m, {AuthResponse(addr[p], KeyOf[p], m.nonce)})
    /\ sent' = {}
    /\ UNCHANGED <<clients, issued, addr>>

\* The dispatcher hands a datagram to the server's handler. The "states" the
\* server sends are left to module PlayerView.
ServerReceive(m) ==
    /\ \/ m.cmd = "state" /\ \E s \in State : HandlePlayerState(m.from, m.guid, s)
       \/ m.cmd = "authResponse" /\ HandleAuthResponse(m.from, m.key, m.nonce)
    /\ Deliver(m, {x \in sent' : x.cmd = "authRequest"})
    /\ UNCHANGED addr

Receive(m) == ServerReceive(m) \/ \E p \in Player : ReceiveAuthRequest(p, m)

\* A datagram for an endpoint nobody is bound to is lost without a fault.
Lose(m) == /\ m \in net
           /\ \/ m.cmd = "authRequest" /\ m.to \notin {addr[p] : p \in Player} /\ NoFault
              \/ Fault
           /\ net' = net \ {m}
           /\ sent' = {}
           /\ UNCHANGED <<clients, issued, addr>>

ServerFrame == RunFrame /\ UNCHANGED <<addr, net, faults>>

\* A running process sends every 30 ms, so 20 s do not pass without one of its
\* packets reaching the server, except when something is badly delayed.
Punctual == \A p \in Player : addr[p] \in Present => clients[addr[p]].idle < Timeout

ClockTick == /\ Tick
             /\ (Punctual /\ NoFault) \/ (~Punctual /\ Fault)
             /\ UNCHANGED <<addr, net>>

RestartServer == /\ Fault
                 /\ clients' = [a \in {} |-> NewClient]
                 /\ sent' = {}
                 /\ UNCHANGED <<issued, addr, net>>

RestartPlayer(p) == /\ Fault
                    /\ \E a \in Ports[p] \ {addr[p]} : addr' = [addr EXCEPT ![p] = a]
                    /\ sent' = {}
                    /\ UNCHANGED <<clients, issued, net>>

HNext == \/ \E p \in Player : TransmitState(p) \/ RestartPlayer(p)
         \/ \E m \in net : Receive(m) \/ Lose(m)
         \/ ServerFrame
         \/ ClockTick
         \/ RestartServer

HSpec == HInit /\ [][HNext]_hvars

\* Every process runs its script, the dispatcher reads its sockets, the server
\* runs its frames, time passes, and a datagram that is not lost arrives.
Fairness == /\ \A p \in Player : WF_hvars(TransmitState(p))
            /\ \A m \in Message : WF_hvars(Receive(m) /\ NoFault) /\ WF_hvars(Lose(m) /\ NoFault)
            /\ WF_hvars(ServerFrame)
            /\ WF_hvars(ClockTick /\ NoFault)

FairHSpec == HSpec /\ Fairness

-----------------------------------------------------------------------------
(* Properties                                                              *)

\* p's guid is the hash of p's key; not so in a second instance of the game on
\* one machine, whose get_guid draws a random guid.
Genuine(p) == GuidOf[p] = KeyGuid[KeyOf[p]]

\* An authenticated entry belongs to the player whose endpoint it is: it holds
\* that player's key and guid, and the key's hash is the guid. In particular a
\* second instance is never authenticated, and no delayed or repeated answer
\* authenticates anyone else.
AuthenticatedIsOwner ==
    \A a \in Authenticated :
        \E p \in Player : /\ a \in Ports[p] /\ Genuine(p)
                         /\ clients[a].key = KeyOf[p] /\ clients[a].guid = GuidOf[p]

\* A challenge that no entry holds any more (its session timed out or the
\* server restarted) is never held again: answers to it that are still under
\* way can no longer authenticate anybody.
Current == {clients[a].nonce : a \in Present}

DeadChallengesStayDead ==
    [][\A n \in 1 .. issued : n \notin Current => n \notin Current']_hvars

\* Once nothing goes wrong any more every genuine player is authenticated and
\* stays so, whatever was lost, repeated or restarted before.
EventuallyAuthenticated ==
    \A p \in Player : Genuine(p) =>
        <>[](addr[p] \in Present /\ clients[addr[p]].key = KeyOf[p])

\* The map does not keep what has gone: in the end it holds the endpoints of
\* the running processes and nothing else.
EventuallyOnlyRunning == <>[](Present = {addr[p] : p \in Player})
=============================================================================
