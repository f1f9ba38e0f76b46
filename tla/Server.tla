------------------------------- MODULE Server -------------------------------
(***************************************************************************)
(* The w3m master server (src/server): the map of clients it keeps, the    *)
(* handlers of the packets it understands, and the frame that drops silent *)
(* clients and broadcasts the players it knows.                            *)
(*                                                                         *)
(* Every handler runs entirely inside clients_.access (server.cpp:242-244) *)
(* and so does the frame (server.cpp:212), so each is one atomic action.   *)
(*                                                                         *)
(* The clock is abstracted to the time since a client's last_packet, in    *)
(* ticks that saturate one past the time-out: the only question the code   *)
(* asks of the clock is "more than 20 s ago?" (server.cpp:219).            *)
(***************************************************************************)
EXTENDS Integers, FiniteSets

CONSTANTS
    Address,     \* UDP endpoints a packet can come from
    Guid,        \* player identifiers
    Key,         \* public keys
    KeyGuid,     \* KeyGuid[k]: the hash of key k
    State,       \* what a "state" packet carries besides the guid
    NoKey,       \* public_key without a value
    NoGuid,      \* guid of a default-constructed client
    NoState,     \* current_state of a default-constructed client
    Timeout,     \* ticks that correspond to the 20 s of run_frame
    MaxNonce,    \* bound: challenges the server may draw
    MaxStateId   \* bound: larger values of an entry's state_id are not told apart

ASSUME KeyGuidType == KeyGuid \in [Key -> Guid]
ASSUME NoKeyAssumption == NoKey \notin Key
ASSUME NoGuidAssumption == NoGuid \notin Guid
ASSUME NoStateAssumption == NoState \notin State
ASSUME BoundsAssumption == /\ Timeout \in Nat
                           /\ MaxNonce \in Nat
                           /\ MaxStateId \in Nat \ {0}

VARIABLES
    clients,     \* the client_map: a function whose domain is the addresses in it
    issued,      \* number of challenges drawn so far; the next one is issued + 1
    sent         \* the datagrams the last step handed to manager_.send

vars == <<clients, issued, sent>>

-----------------------------------------------------------------------------
(* Challenges are random (get_challenge): no two are equal. They are       *)
(* numbered in the order they are drawn; 0 is the empty string.            *)
NoNonce == 0
Nonce   == 1 .. MaxNonce

\* A time point of which "now - last_packet > 20s" holds, the epoch included.
Expired == Timeout + 1

Client == [idle     : 0 .. Expired,
           guid     : Guid \cup {NoGuid},
           state    : State \cup {NoState},
           state_id : 0 .. MaxStateId,
           nonce    : Nonce \cup {NoNonce},
           key      : Key \cup {NoKey}]

\* What clients[source] inserts when source is not in the map.
NewClient == [idle |-> Expired, guid |-> NoGuid, state |-> NoState,
              state_id |-> 0, nonce |-> NoNonce, key |-> NoKey]

Present       == DOMAIN clients
Entry(a)      == IF a \in Present THEN clients[a] ELSE NewClient
Put(a, c)     == [x \in Present \cup {a} |-> IF x = a THEN c ELSE clients[x]]
Authenticated == {a \in Present : clients[a].key # NoKey}

\* game::player as send_state fills it.
AsPlayer(c) == [guid |-> c.guid, state |-> c.state, state_id |-> c.state_id]

\* Packets to the clients.
AuthRequest(a, n) == [to |-> a, cmd |-> "authRequest", nonce |-> n]
Killed(a, g)      == [to |-> a, cmd |-> "killed", guid |-> g]
States(a, ps)     == [to |-> a, cmd |-> "states", players |-> ps]

-----------------------------------------------------------------------------
Init == /\ clients = [a \in {} |-> NewClient]
        /\ issued = 0
        /\ sent = {}

\* mutation: get_challenge repeats itself
ChallengeReused(c) ==
    IF c.key = NoKey /\ c.nonce = NoNonce
    THEN IF issued = 0 THEN 1 ELSE issued
    ELSE c.nonce

\* send_authentication_request keeps a challenge that was already drawn.
Challenge(c) == IF c.key = NoKey /\ c.nonce = NoNonce THEN issued + 1 ELSE c.nonce

\* The 64-bit counter does not wrap in practice; the model stops it at a bound
\* instead of refusing packets, so that a client can go on sending for ever.
NextId(i) == IF i < MaxStateId THEN i + 1 ELSE i

\* mutation: an authenticated client's states are not numbered any more
StoredUnnumbered(c, g, s) ==
    [c EXCEPT !.idle = 0, !.guid = g, !.state = s, !.nonce = Challenge(c),
              !.state_id = IF c.key = NoKey THEN NextId(@) ELSE @]

\* What handle_player_state writes into the entry. The guid is taken from
\* every packet, also from those of an authenticated client.
Stored(c, g, s) == [c EXCEPT !.idle = 0, !.guid = g, !.state = s,
                             !.state_id = NextId(@), !.nonce = Challenge(c)]

\* mutation: the request is sent only when the challenge is drawn
RequestOnlyOnce(a, g, s) ==
    LET c == Entry(a)
        n == Challenge(c)
    IN  /\ n \in Nonce
        /\ clients' = Put(a, Stored(c, g, s))
        /\ issued' = IF n = c.nonce THEN issued ELSE n
        /\ sent' = IF n # c.nonce THEN {AuthRequest(a, n)} ELSE {}

\* handle_player_state: the state is stored, whoever sends it, and a client
\* that is not authenticated yet is sent its challenge, every time.
HandlePlayerState(a, g, s) ==
    LET c == Entry(a)
        n == Challenge(c)
    IN  /\ n \in Nonce
        /\ clients' = Put(a, Stored(c, g, s))
        /\ issued' = IF n = c.nonce THEN issued ELSE n
        /\ sent' = IF c.key = NoKey THEN {AuthRequest(a, n)} ELSE {}

\* mutation: the key is not compared with the guid
AcceptsAnyGuid(c, k, n) == c.nonce # NoNonce /\ n = c.nonce

\* The three checks of handle_authentication_response: k is the key in the
\* packet and n the challenge its signature was made over.
Accepts(c, k, n) == /\ c.nonce # NoNonce
                    /\ KeyGuid[k] = c.guid
                    /\ n = c.nonce

\* mutation: a refused packet counts as a sign of life
RefusalRefreshes(a, k, n) ==
    LET c == Entry(a)
    IN  /\ clients' = Put(a, IF Accepts(c, k, n)
                             THEN [c EXCEPT !.key = k, !.idle = 0]
                             ELSE [c EXCEPT !.idle = 0])
        /\ sent' = {}
        /\ UNCHANGED issued

\* A packet that is refused still leaves an entry for its sender in the map.
HandleAuthResponse(a, k, n) ==
    LET c == Entry(a)
    IN  /\ clients' = Put(a, IF Accepts(c, k, n)
                             THEN [c EXCEPT !.key = k, !.idle = 0]
                             ELSE c)
        /\ sent' = {}
        /\ UNCHANGED issued

\* The first authenticated client with the guid, in the order of the hash map.
Victims(g) == {v \in Authenticated : clients[v].guid = g}

HandlePlayerKill(a, g) ==
    LET killer == Entry(a)
    IN  /\ clients' = Put(a, killer)
        /\ UNCHANGED issued
        /\ IF killer.key = NoKey \/ Victims(g) = {}
           THEN sent' = {}
           ELSE \E v \in Victims(g) : sent' = {Killed(v, killer.guid)}

\* mutations: clients that are not authenticated are dropped at once, or never
SilentOrPending     == {a \in Present : clients[a].idle > Timeout \/ clients[a].key = NoKey}
SilentAuthenticated == {a \in Present : clients[a].idle > Timeout /\ clients[a].key # NoKey}

\* run_frame: first the silent clients are erased, then send_state tells
\* every authenticated client about every authenticated client.
Silent == {a \in Present : clients[a].idle > Timeout}

Snapshot(cs) ==
    [a \in {x \in DOMAIN cs : cs[x].key # NoKey} |-> AsPlayer(cs[a])]

Broadcast(cs) == {States(a, Snapshot(cs)) : a \in DOMAIN Snapshot(cs)}

\* mutation: the frame broadcasts before it erases
FrameBroadcastsFirst ==
    /\ clients' = [a \in Present \ Silent |-> clients[a]]
    /\ sent' = Broadcast(clients)
    /\ UNCHANGED issued

RunFrame ==
    LET kept == [a \in Present \ Silent |-> clients[a]]
    IN  /\ clients' = kept
        /\ sent' = Broadcast(kept)
        /\ UNCHANGED issued

\* Time passes.
Older(c) == [c EXCEPT !.idle = IF @ < Expired THEN @ + 1 ELSE Expired]

Tick == /\ \E a \in Present : clients[a].idle < Expired
        /\ clients' = [a \in Present |-> Older(clients[a])]
        /\ sent' = {}
        /\ UNCHANGED issued

Next == \/ \E a \in Address, g \in Guid, s \in State : HandlePlayerState(a, g, s)
        \/ \E a \in Address, k \in Key, n \in 1 .. issued : HandleAuthResponse(a, k, n)
        \/ \E a \in Address, g \in Guid : HandlePlayerKill(a, g)
        \/ RunFrame
        \/ Tick

Spec == Init /\ [][Next]_vars

-----------------------------------------------------------------------------
(* Properties                                                              *)

\* Every variable has its type; the map is a function on some addresses.
TypeOK == /\ Present \subseteq Address
          /\ clients \in [Present -> Client]
          /\ issued \in 0 .. MaxNonce
          /\ \A m \in sent : m.to \in Address

\* An entry that an "authResponse" or a "kill" inserted (clients[source] in
\* handle_authentication_response and handle_player_kill) is never anything
\* but the default-constructed one, which the next frame erases; as soon as a
\* state has been stored the entry has a challenge, a guid and a state.
WellFormed(c, drawn) ==
    IF c.state_id = 0
    THEN c = NewClient
    ELSE c.nonce \in 1 .. drawn /\ c.guid \in Guid /\ c.state \in State

EntriesWellFormed == \A a \in Present : WellFormed(clients[a], issued)

\* A challenge belongs to one entry: an answer to the challenge of one
\* address can never authenticate another, nor a later entry of the same one.
ChallengesDistinct ==
    \A a, b \in Present :
        a # b /\ clients[a].nonce # NoNonce => clients[a].nonce # clients[b].nonce

\* When send_state broadcasts, every authenticated client is sent the players and
\* nobody else is, and every copy tells of exactly the authenticated clients as
\* they are then, each heard from within the time-out and with a state stored: no
\* client is told of one that the same frame drops, nor left out.
BroadcastOnlyLive ==
    LET told == {m \in sent : m.cmd = "states"}
    IN  told # {} =>
           /\ {m.to : m \in told} = Authenticated
           /\ \A m \in told : m.players = [a \in Authenticated |-> AsPlayer(clients[a])]
           /\ \A a \in Authenticated : clients[a].idle <= Timeout /\ clients[a].state_id > 0

\* While an entry stays in the map its state_id never falls, and what is stored
\* never changes without a larger state_id: a client that compares ids 
\* (get_player_states) cannot miss a state.
StateIdsName ==
    [][\A a \in Present \cap Present' :
          /\ clients'[a].state_id >= clients[a].state_id
          /\ AsPlayer(clients[a]) # AsPlayer(clients'[a])
                => \/ clients'[a].state_id > clients[a].state_id
                   \/ clients[a].state_id = MaxStateId]_vars

-----------------------------------------------------------------------------
(* The server implements the sessions it promises.                         *)
EntryPhase(c) == IF c.key # NoKey THEN "authenticated"
                 ELSE IF c.state_id = 0 THEN "stray"
                 ELSE "pending"

Phases == [a \in Address |-> IF a \in Present THEN EntryPhase(clients[a]) ELSE "absent"]
Fresh  == {a \in Present : clients[a].idle <= Timeout}
Told   == UNION {DOMAIN m.players : m \in {x \in sent : x.cmd = "states"}}

Promise == INSTANCE Sessions WITH phase <- Phases, fresh <- Fresh, told <- Told

\* Every address goes through its sessions as module Sessions says, however
\* the handlers, the frame and the clock interleave.
ImplementsSessions == Promise!Spec
=============================================================================
