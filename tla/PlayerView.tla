----------------------------- MODULE PlayerView -----------------------------
(***************************************************************************)
(* What one player sees of the others: the snapshots the master server     *)
(* broadcasts, the list of players the client keeps of them                *)
(* (receive_player_states and get_player_states in                         *)
(* scripting_experiments.cpp) and the characters the game script moves     *)
(* (UpdateOtherPlayers in w3mp.ws).                                        *)
(*                                                                         *)
(* Of the server only the authenticated entries matter here (module        *)
(* Handshake says how one becomes authenticated): they are a sequence, the *)
(* order in which the server iterates over its hash map. The observer's    *)
(* own entry, which it leaves out of its list, is not among them.          *)
(*                                                                         *)
(* A behaviour is wild at first: packets are lost, repeated and reordered, *)
(* players come, go and return at another endpoint while their old entry   *)
(* lingers, the server restarts.  At some moment it may settle, and then   *)
(* goes round after round: every running player is heard, the server       *)
(* broadcasts, the snapshot arrives, the script runs a frame.              *)
(***************************************************************************)
EXTENDS Integers, Sequences, FiniteSets, SequencesExt, Functions, Subsequences

CONSTANTS
    Address,     \* endpoints
    GuidAt,      \* GuidAt[a]: the guid of the process at endpoint a
    OwnGuid,     \* the guid of the observer
    State,       \* positions, speeds and names: what a "state" packet carries
    Blank,       \* how a new character looks (CreateNewPlayerEntity)
    MaxId,       \* bound: state_id while wild
    MaxFlight,   \* bound: snapshots under way
    MaxRounds    \* bound: calm rounds

ASSUME ViewAssumption == /\ \A a \in Address : GuidAt[a] # OwnGuid
                         /\ Blank \notin State
                         /\ MaxId \in Nat \ {0} /\ MaxFlight \in Nat /\ MaxRounds \in Nat

VARIABLES
    room,        \* the server's authenticated entries, in iteration order
    flight,      \* the snapshots under way to the observer
    infos,       \* players.infos
    state_ids,   \* players.state_ids: guid -> id of the state last read
    npcs,        \* what the script's characters show
    stage,       \* "wild", or what a calm round does next
    live,        \* calm: the endpoints of the running processes
    heard,       \* calm: those heard in this round
    rounds       \* calm: rounds completed

vars == <<room, flight, infos, state_ids, npcs, stage, live, heard, rounds>>
view == <<infos, state_ids, npcs>>
calm == <<live, heard, rounds>>

-----------------------------------------------------------------------------
Guid     == {GuidAt[a] : a \in Address}
Guids(s) == {s[i].guid : i \in DOMAIN s}
In(a)    == \E i \in DOMAIN room : room[i].at = a

\* game::player as send_state fills it.
Info(e)  == [guid |-> e.guid, state |-> e.state, state_id |-> e.state_id]
Snapshot == [i \in DOMAIN room |-> Info(room[i])]

Init == /\ room = <<>>
        /\ flight = {}
        /\ infos = <<>>
        /\ state_ids = [g \in {} |-> 0]
        /\ npcs = <<>>
        /\ stage = "wild"
        /\ live = {}
        /\ heard = {}
        /\ rounds = 0

-----------------------------------------------------------------------------
(* The server's room                                                       *)

\* handle_player_state for an authenticated entry.
Update(a, s) ==
    /\ In(a)
    /\ room' = [i \in DOMAIN room |->
                   IF room[i].at = a
                   THEN [room[i] EXCEPT !.state = s, !.state_id = @ + 1]
                   ELSE room[i]]

\* An entry becomes authenticated after one or more states. Inserting it may
\* rehash the map: any order can result.
Join(a, s, id) ==
    /\ ~In(a)
    /\ LET e == [at |-> a, guid |-> GuidAt[a], state |-> s, state_id |-> id]
           all == ToSet(room) \cup {e}
       IN  room' \in Bijection(1 .. Len(room) + 1, all)

\* run_frame drops a silent entry; the others keep their order.
Drop(a) == \E i \in DOMAIN room : room[i].at = a /\ room' = RemoveAt(room, i)

\* send_state, as far as the observer is concerned.
Broadcast == flight' = flight \cup {Snapshot}

-----------------------------------------------------------------------------
(* The client                                                              *)

\* The players of a snapshot without the observer itself.
Others(ps) == Kept(ps, {i \in DOMAIN ps : ps[i].guid # OwnGuid})

\* receive_player_states: the list is replaced, and ids of players who are not in it
\* are forgotten.
Received(ps) ==
    /\ infos' = Others(ps)
    /\ state_ids' = Restrict(state_ids, DOMAIN state_ids \cap Guids(infos'))

\* get_player_states compares each player's id with the id its guid had when
\* it was last read, in this call too if the guid is in the list twice.
Earlier(i) == {j \in 1 .. i - 1 : infos[j].guid = infos[i].guid}

LastState(i) ==
    IF Earlier(i) # {} THEN infos[CHOOSE j \in Earlier(i) : \A k \in Earlier(i) : k <= j].state_id
    ELSE IF infos[i].guid \in DOMAIN state_ids THEN state_ids[infos[i].guid]
    ELSE 0

HasNewState(i) == infos[i].state_id > LastState(i)

\* mutation: the largest id ever read is remembered
ReadIdsLargest ==
    [g \in DOMAIN state_ids \cup Guids(infos) |->
        LET ids == {infos[i].state_id : i \in {j \in DOMAIN infos : infos[j].guid = g}}
                   \cup IF g \in DOMAIN state_ids THEN {state_ids[g]} ELSE {}
        IN  CHOOSE n \in ids : \A k \in ids : k <= n]

\* The last of the ids read for each guid is the one remembered.
ReadIds ==
    [g \in DOMAIN state_ids \cup Guids(infos) |->
        IF g \in Guids(infos)
        THEN LET mine == {i \in DOMAIN infos : infos[i].guid = g}
             IN  infos[CHOOSE i \in mine : \A k \in mine : k <= i].state_id
        ELSE state_ids[g]]

\* UpdateOtherPlayers: as many characters as players, created and destroyed at
\* the end of the list; the i-th shows the i-th player's state if it has one.
Looks(i) == [guid |-> infos[i].guid, state |-> infos[i].state]

ScriptFrame ==
    /\ npcs' = [i \in DOMAIN infos |->
                   IF HasNewState(i) THEN Looks(i)
                   ELSE IF i \in DOMAIN npcs THEN npcs[i]
                   ELSE [guid |-> OwnGuid, state |-> Blank]]
    /\ state_ids' = ReadIds
    /\ UNCHANGED infos

-----------------------------------------------------------------------------
(* The wild part                                                           *)

Wild == stage = "wild" /\ UNCHANGED <<stage, calm>>

Hear(a) == /\ Wild
           /\ \E s \in State :
                 \/ Update(a, s) /\ \A i \in DOMAIN room : room[i].at = a => room[i].state_id < MaxId
                 \/ \E id \in 1 .. MaxId : Join(a, s, id)
           /\ UNCHANGED <<flight, view>>

TimeOut(a) == Wild /\ Drop(a) /\ UNCHANGED <<flight, view>>

RestartServer == Wild /\ room' = <<>> /\ UNCHANGED <<flight, view>>

Frame == /\ Wild
         /\ Broadcast
         /\ Cardinality(flight') <= MaxFlight
         /\ UNCHANGED <<room, view>>

\* A snapshot arrives: in any order, and perhaps not for the last time. One
\* that is lost is one that Frame has never sent.
Receive(ps) == /\ Wild
               /\ Received(ps)
               /\ flight' \in {flight, flight \ {ps}}
               /\ UNCHANGED <<room, npcs>>

Script == Wild /\ ScriptFrame /\ UNCHANGED <<room, flight>>

\* From now on there is one process per guid; the other entries have timed out and
\* the snapshots that were under way have been lost.
Settle == /\ stage = "wild"
          /\ \E L \in SUBSET Address :
                /\ \A a, b \in L : a # b => GuidAt[a] # GuidAt[b]
                /\ \A i \in DOMAIN room : room[i].at \in L
                /\ live' = L
          /\ flight' = {}
          /\ stage' = "hear"
          /\ UNCHANGED <<room, view, heard, rounds>>

-----------------------------------------------------------------------------
(* The calm rounds                                                         *)

CalmHear(a) == /\ stage = "hear"
               /\ rounds < MaxRounds
               /\ \E s \in State : Update(a, s) \/ Join(a, s, 1)
               /\ heard' = heard \cup {a}
               /\ UNCHANGED <<flight, view, stage, live, rounds>>

CalmFrame == /\ stage = "hear" /\ heard = live /\ rounds < MaxRounds
             /\ Broadcast
             /\ stage' = "receive"
             /\ heard' = {}
             /\ UNCHANGED <<room, view, live, rounds>>

CalmReceive == /\ stage = "receive"
               /\ \E ps \in flight : Received(ps) /\ flight' = flight \ {ps}
               /\ stage' = "script"
               /\ UNCHANGED <<room, npcs, calm>>

CalmScript == /\ stage = "script"
              /\ ScriptFrame
              /\ stage' = "hear"
              /\ rounds' = rounds + 1
              /\ UNCHANGED <<room, flight, live, heard>>

Next == \/ \E a \in Address : Hear(a) \/ TimeOut(a)
        \/ RestartServer
        \/ Frame
        \/ \E ps \in flight : Receive(ps)
        \/ Script
        \/ Settle
        \/ \E a \in live \ heard : CalmHear(a)
        \/ CalmFrame
        \/ CalmReceive
        \/ CalmScript

Spec == Init /\ [][Next]_vars

-----------------------------------------------------------------------------
(* Properties                                                              *)

Ids   == Nat \ {0}
Entry == [at : Address, guid : Guid, state : State, state_id : Ids]
Known == [guid : Guid, state : State, state_id : Ids]

TypeOK == /\ room \in Seq(Entry)
          /\ IsInjective([i \in DOMAIN room |-> room[i].at])
          /\ \A i \in DOMAIN room : room[i].guid = GuidAt[room[i].at]
          /\ \A ps \in flight : ps \in Seq(Known)
          /\ infos \in Seq(Known)
          /\ \A g \in DOMAIN state_ids : state_ids[g] \in Ids
          /\ npcs \in Seq([guid : Guid \cup {OwnGuid}, state : State \cup {Blank}])
          /\ stage \in {"wild", "hear", "receive", "script"}
          /\ live \subseteq Address
          /\ heard \subseteq live
          /\ rounds \in 0 .. MaxRounds

\* However the wild part ended (ids that went back because the server
\* restarted, an old entry with a larger id, snapshots out of order, characters
\* that changed hands), two calm rounds later every character shows the player
\* at its place in the list, in that player's present state, and every running
\* player has its character.
Right == /\ Len(npcs) = Len(infos)
         /\ \A i \in DOMAIN infos : npcs[i] = Looks(i)
         /\ \A i \in DOMAIN room :
                \E j \in DOMAIN npcs : npcs[j] = [guid |-> room[i].guid, state |-> room[i].state]

TwoRoundsSuffice == stage = "hear" /\ heard = {} /\ rounds >= 2 => Right

\* The comment on W3mPlayer.playerState in w3mp.ws: "Always has 1 entry".
AlwaysOneEntry == \A i \in DOMAIN infos : HasNewState(i)
=============================================================================
