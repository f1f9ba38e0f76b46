---------------------------- MODULE ServerProofs ----------------------------
(***************************************************************************)
(* Proofs about the master server (module Server), for every set of        *)
(* addresses, keys and states and for every time-out and bound; and about  *)
(* the players that authenticate with it over an unreliable network        *)
(* (module Handshake), for every set of players, endpoints and faults.     *)
(***************************************************************************)
EXTENDS Handshake, TLAPS

\* Facts about the map that every step uses.
LEMMA NewClientType == NewClient \in Client
  BY BoundsAssumption DEF NewClient, Client, Expired, NoNonce

LEMMA EntryType ==
  ASSUME TypeOK, NEW a \in Address
  PROVE  Entry(a) \in Client
  BY NewClientType DEF TypeOK, Entry, Present

LEMMA PutFacts ==
  ASSUME TypeOK, NEW a \in Address, NEW c \in Client
  PROVE  /\ DOMAIN Put(a, c) = Present \cup {a}
         /\ Put(a, c) \in [Present \cup {a} -> Client]
         /\ Put(a, c)[a] = c
         /\ \A x \in Present : x # a => Put(a, c)[x] = clients[x]
  BY DEF TypeOK, Put, Present

LEMMA PutStep ==
  ASSUME TypeOK, NEW a \in Address, NEW c \in Client, clients' = Put(a, c)
  PROVE  /\ Present' = Present \cup {a}
         /\ Present' \subseteq Address
         /\ clients' \in [Present' -> Client]
         /\ clients'[a] = c
         /\ \A x \in Present : x # a => clients'[x] = clients[x]
<1>1. Present' = Present \cup {a}
  BY PutFacts DEF Present
<1>2. QED
  BY <1>1, PutFacts DEF TypeOK

LEMMA KeptStep ==
  ASSUME TypeOK, clients' = [a \in Present \ Silent |-> clients[a]]
  PROVE  /\ Present' = Present \ Silent
         /\ Present' \subseteq Address
         /\ clients' \in [Present' -> Client]
         /\ \A a \in Present' : clients'[a] = clients[a]
  BY DEF TypeOK, Present

\* The record handle_player_state stores, and its challenge.
LEMMA StoredFacts ==
  ASSUME TypeOK, NEW c \in Client, NEW g \in Guid, NEW s \in State,
         Challenge(c) \in Nonce
  PROVE  /\ Stored(c, g, s) \in Client
         /\ Stored(c, g, s).idle = 0
         /\ Stored(c, g, s).guid = g
         /\ Stored(c, g, s).state = s
         /\ Stored(c, g, s).state_id = NextId(c.state_id)
         /\ NextId(c.state_id) > 0
         /\ Stored(c, g, s).nonce = Challenge(c)
         /\ Stored(c, g, s).key = c.key
<1>1. /\ NextId(c.state_id) \in 0 .. MaxStateId /\ NextId(c.state_id) > 0
      /\ 0 \in 0 .. Expired
  BY BoundsAssumption DEF Client, Expired, NextId
<1> DEFINE n == Challenge(c)
<1>2. n \in Nonce \cup {NoNonce}
  OBVIOUS
<1> HIDE DEF n
<1>3. Stored(c, g, s) = [c EXCEPT !.idle = 0, !.guid = g, !.state = s,
                                  !.state_id = NextId(@), !.nonce = n]
  BY DEF Stored, n
<1>4. QED
  BY <1>1, <1>2, <1>3 DEF Client, n

LEMMA AcceptedFacts ==
  ASSUME TypeOK, NEW c \in Client, NEW k \in Key
  PROVE  LET d == [c EXCEPT !.key = k, !.idle = 0]
         IN  /\ d \in Client
             /\ d.key = k /\ d.idle = 0 /\ d.nonce = c.nonce
             /\ d.guid = c.guid /\ d.state = c.state /\ d.state_id = c.state_id
<1>1. 0 \in 0 .. Expired
  BY BoundsAssumption DEF Expired
<1>2. QED
  BY <1>1 DEF Client

LEMMA OlderFacts ==
  ASSUME NEW c \in Client
  PROVE  /\ Older(c) \in Client
         /\ Older(c).key = c.key /\ Older(c).nonce = c.nonce
         /\ Older(c).guid = c.guid /\ Older(c).state = c.state
         /\ Older(c).state_id = c.state_id
         /\ Older(c).idle >= c.idle
         /\ c = NewClient => Older(c) = NewClient
  BY BoundsAssumption DEF Older, Client, Expired, NewClient

LEMMA OlderStep ==
  ASSUME TypeOK, clients' = [a \in Present |-> Older(clients[a])]
  PROVE  /\ Present' = Present
         /\ clients' \in [Present' -> Client]
         /\ \A a \in Present : clients'[a] = Older(clients[a])
<1>1. \A a \in Present : Older(clients[a]) \in Client
  BY OlderFacts DEF TypeOK
<1>2. QED
  BY <1>1 DEF Present

-----------------------------------------------------------------------------
\* The two handlers keep the types, whatever the challenge in the answer.
LEMMA PlayerStateType ==
  ASSUME TypeOK, NEW a \in Address, NEW g \in Guid, NEW s \in State,
         HandlePlayerState(a, g, s)
  PROVE  TypeOK'
<1> DEFINE c == Entry(a)
<1>1. c \in Client
  BY EntryType
<1>2. Stored(c, g, s) \in Client
  BY <1>1, StoredFacts DEF HandlePlayerState
<1>3. clients' = Put(a, Stored(c, g, s))
  BY DEF HandlePlayerState
<1>4. issued' \in 0 .. MaxNonce
  BY DEF HandlePlayerState, TypeOK, Nonce
<1>5. \A m \in sent' : m.to \in Address
  BY DEF HandlePlayerState, AuthRequest
<1> HIDE DEF c
<1>6. QED
  BY <1>2, <1>3, <1>4, <1>5, PutStep DEF TypeOK

LEMMA AuthResponseType ==
  ASSUME TypeOK, NEW a \in Address, NEW k \in Key, NEW n,
         HandleAuthResponse(a, k, n)
  PROVE  TypeOK'
<1> DEFINE c == Entry(a)
           d == IF Accepts(c, k, n) THEN [c EXCEPT !.key = k, !.idle = 0] ELSE c
<1>1. d \in Client
  BY EntryType, AcceptedFacts
<1>2. clients' = Put(a, d) /\ issued' = issued /\ sent' = {}
  BY DEF HandleAuthResponse
<1> HIDE DEF d
<1>3. QED
  BY <1>1, <1>2, PutStep DEF TypeOK

\* Whatever packet is handled, and when the frame runs or time passes, the types
\* stay.
LEMMA TypeStep == TypeOK /\ [Next]_vars => TypeOK'
<1> SUFFICES ASSUME TypeOK, [Next]_vars PROVE TypeOK'
  OBVIOUS
<1>1. ASSUME NEW a \in Address, NEW g \in Guid, NEW s \in State,
             HandlePlayerState(a, g, s)
      PROVE  TypeOK'
  BY <1>1, PlayerStateType
<1>2. ASSUME NEW a \in Address, NEW k \in Key, NEW n \in 1 .. issued,
             HandleAuthResponse(a, k, n)
      PROVE  TypeOK'
  BY <1>2, AuthResponseType
<1>3. ASSUME NEW a \in Address, NEW g \in Guid, HandlePlayerKill(a, g)
      PROVE  TypeOK'
  <2>1. clients' = Put(a, Entry(a)) /\ issued' = issued
    BY <1>3 DEF HandlePlayerKill
  <2>2. \A m \in sent' : m.to \in Address
    BY <1>3 DEF HandlePlayerKill, Killed, Victims, Authenticated, TypeOK
  <2>3. QED
    BY <2>1, <2>2, EntryType, PutStep DEF TypeOK
<1>4. CASE RunFrame
  <2>1. clients' = [a \in Present \ Silent |-> clients[a]] /\ issued' = issued
    BY <1>4 DEF RunFrame
  <2>2. \A m \in sent' : m.to \in Present'
    <3> DEFINE kept == [a \in Present \ Silent |-> clients[a]]
    <3>1. sent' = Broadcast(kept)
      BY <1>4 DEF RunFrame
    <3>2. DOMAIN Snapshot(kept) \subseteq DOMAIN kept
      BY DEF Snapshot
    <3>3. clients' = kept
      BY <2>1
    <3> HIDE DEF kept
    <3>4. QED
      BY <3>1, <3>2, <3>3 DEF Broadcast, States, Present
  <2>3. QED
    BY <2>1, <2>2, KeptStep DEF TypeOK
<1>5. CASE Tick
  BY <1>5, OlderStep DEF Tick, TypeOK
<1>6. CASE UNCHANGED vars
  BY <1>6 DEF vars, TypeOK, Present
<1>7. QED
  BY <1>1, <1>2, <1>3, <1>4, <1>5, <1>6 DEF Next

\* Every state of the server has the types of module Server: the map stays a
\* function on addresses whatever packets arrive and whenever the frame runs.
THEOREM TypeCorrect == Spec => []TypeOK
<1>1. Init => TypeOK
  BY BoundsAssumption DEF Init, TypeOK, Present
<1>2. TypeOK /\ [Next]_vars => TypeOK'
  BY TypeStep
<1>3. QED
  BY <1>1, <1>2, PTL DEF Spec
-----------------------------------------------------------------------------
\* The inductive invariant: a challenge that is stored was drawn, so a new one
\* differs from all of them; this is what keeps challenges distinct.
IInv == TypeOK /\ EntriesWellFormed /\ ChallengesDistinct

LEMMA EntryWellFormed ==
  ASSUME IInv, NEW a \in Address
  PROVE  /\ Entry(a) \in Client
         /\ WellFormed(Entry(a), issued)
         /\ a \in Present => Entry(a) = clients[a]
         /\ a \notin Present => Entry(a) = NewClient
  BY EntryType DEF IInv, EntriesWellFormed, Entry, WellFormed, NewClient

\* A step that rewrites the entry of one address with a well-formed one whose
\* challenge is its own keeps the invariant's two parts about challenges.
LEMMA OneEntryStep ==
  ASSUME IInv, NEW a \in Address, NEW c \in Client, clients' = Put(a, c),
         issued' \in 0 .. MaxNonce, issued' >= issued, WellFormed(c, issued'),
         c.nonce # NoNonce => \A b \in Present \ {a} : c.nonce # clients[b].nonce
  PROVE  EntriesWellFormed' /\ ChallengesDistinct'
<1>1. /\ Present' = Present \cup {a}
      /\ clients'[a] = c
      /\ \A x \in Present : x # a => clients'[x] = clients[x]
  BY PutStep DEF IInv
<1>2. issued \in Nat /\ issued' \in Nat
  BY BoundsAssumption DEF IInv, TypeOK
<1>3. \A d : WellFormed(d, issued) => WellFormed(d, issued')
  BY <1>2 DEF WellFormed
<1>4. EntriesWellFormed'
  BY <1>1, <1>3 DEF IInv, EntriesWellFormed
<1>5. ChallengesDistinct'
  BY <1>1 DEF IInv, ChallengesDistinct
<1>6. QED
  BY <1>4, <1>5

LEMMA IInvStep == IInv /\ [Next]_vars /\ TypeOK' => IInv'
<1> SUFFICES ASSUME IInv, [Next]_vars, TypeOK'
             PROVE  EntriesWellFormed' /\ ChallengesDistinct'
  BY DEF IInv
<1> USE DEF IInv
<1>1. ASSUME NEW a \in Address, NEW g \in Guid, NEW s \in State,
             HandlePlayerState(a, g, s)
      PROVE  EntriesWellFormed' /\ ChallengesDistinct'
  <2> DEFINE c == Entry(a)
             d == Stored(c, g, s)
             n == Challenge(c)
  <2>1. c \in Client /\ WellFormed(c, issued)
    BY EntryWellFormed
  <2>2. /\ d \in Client /\ d.guid = g /\ d.state = s
        /\ d.state_id > 0 /\ d.nonce = n
    BY <1>1, <2>1, StoredFacts DEF HandlePlayerState
  <2>3. clients' = Put(a, d) /\ n \in Nonce
    BY <1>1 DEF HandlePlayerState
  <2>4. issued \in Nat /\ issued' = IF n = c.nonce THEN issued ELSE n
    BY <1>1, BoundsAssumption DEF HandlePlayerState, TypeOK
  <2>5. n = c.nonce \/ n = issued + 1
    BY DEF Challenge
  <2>6. n = c.nonce => n \in 1 .. issued /\ c.state_id # 0
    BY <2>1, <2>3 DEF WellFormed, NewClient, Nonce, NoNonce
  <2>7. issued' \in 0 .. MaxNonce /\ issued' >= issued /\ n \in 1 .. issued'
    BY <2>3, <2>4, <2>5, <2>6, BoundsAssumption DEF TypeOK, Nonce
  <2>8. d.state_id # 0
    BY <2>2
  <2>9. WellFormed(d, issued')
    BY <2>2, <2>7, <2>8 DEF WellFormed
  <2>10. \A b \in Present \ {a} : n # clients[b].nonce
    <3> SUFFICES ASSUME NEW b \in Present, b # a PROVE n # clients[b].nonce
      OBVIOUS
    <3>1. CASE n = c.nonce
      <4>1. a \in Present /\ c = clients[a] /\ n # NoNonce
        BY <2>3, <2>6, <3>1 DEF Entry, NewClient, Nonce, NoNonce
      <4>2. QED
        BY <3>1, <4>1 DEF ChallengesDistinct
    <3>2. CASE n = issued + 1
      <4>1. clients[b].nonce <= issued
        BY <2>4 DEF EntriesWellFormed, WellFormed, NewClient, NoNonce
      <4>2. clients[b].nonce \in Int
        BY DEF TypeOK, Client, Nonce, NoNonce
      <4>3. QED
        BY <2>4, <3>2, <4>1, <4>2
    <3>3. QED
      BY <2>5, <3>1, <3>2
  <2> HIDE DEF c, d, n
  <2>11. QED
    BY <2>2, <2>3, <2>7, <2>9, <2>10, OneEntryStep
<1>2. ASSUME NEW a \in Address, NEW k \in Key, NEW n \in 1 .. issued,
             HandleAuthResponse(a, k, n)
      PROVE  EntriesWellFormed' /\ ChallengesDistinct'
  <2> DEFINE c == Entry(a)
             d == IF Accepts(c, k, n) THEN [c EXCEPT !.key = k, !.idle = 0] ELSE c
  <2>1. c \in Client /\ WellFormed(c, issued)
    BY EntryWellFormed
  <2>2. d \in Client /\ d.nonce = c.nonce
    BY <2>1, AcceptedFacts
  <2>3. clients' = Put(a, d) /\ issued' = issued
    BY <1>2 DEF HandleAuthResponse
  <2>4. WellFormed(d, issued)
    <3>1. CASE Accepts(c, k, n)
      <4>1. c.state_id # 0
        BY <2>1, <3>1 DEF WellFormed, Accepts, NewClient
      <4>2. /\ d.state_id = c.state_id /\ d.guid = c.guid /\ d.state = c.state
        BY <2>1, <3>1, AcceptedFacts
      <4> HIDE DEF c, d
      <4>3. QED
        BY <2>1, <2>2, <4>1, <4>2 DEF WellFormed
    <3>2. CASE ~Accepts(c, k, n)
      BY <2>1, <3>2
    <3>3. QED
      BY <3>1, <3>2
  <2>5. c.nonce # NoNonce => \A b \in Present \ {a} : c.nonce # clients[b].nonce
    BY DEF Entry, NewClient, ChallengesDistinct
  <2> HIDE DEF c, d
  <2>6. WellFormed(d, issued')
    BY <2>3, <2>4 DEF WellFormed
  <2>7. issued' \in 0 .. MaxNonce /\ issued' >= issued
    BY <2>3 DEF TypeOK
  <2>8. QED
    BY <2>2, <2>3, <2>5, <2>6, <2>7, OneEntryStep
<1>3. ASSUME NEW a \in Address, NEW g \in Guid, HandlePlayerKill(a, g)
      PROVE  EntriesWellFormed' /\ ChallengesDistinct'
  <2> DEFINE c == Entry(a)
  <2>1. c \in Client /\ WellFormed(c, issued)
    BY EntryWellFormed
  <2>2. clients' = Put(a, c) /\ issued' = issued
    BY <1>3 DEF HandlePlayerKill
  <2>3. c.nonce # NoNonce => \A b \in Present \ {a} : c.nonce # clients[b].nonce
    BY DEF Entry, NewClient, ChallengesDistinct
  <2> HIDE DEF c
  <2>4. WellFormed(c, issued')
    BY <2>1, <2>2 DEF WellFormed
  <2>5. issued' \in 0 .. MaxNonce /\ issued' >= issued
    BY <2>2 DEF TypeOK
  <2>6. QED
    BY <2>1, <2>2, <2>3, <2>4, <2>5, OneEntryStep
<1>4. CASE RunFrame
  <2>1. clients' = [a \in Present \ Silent |-> clients[a]] /\ issued' = issued
    BY <1>4 DEF RunFrame
  <2>2. /\ Present' \subseteq Present
        /\ \A a \in Present' : clients'[a] = clients[a]
    BY <2>1, KeptStep
  <2>3. \A a \in Present' : WellFormed(clients'[a], issued')
    <3> SUFFICES ASSUME NEW a \in Present' PROVE WellFormed(clients'[a], issued')
      OBVIOUS
    <3>1. a \in Present /\ clients'[a] = clients[a] /\ issued' = issued
      BY <2>1, <2>2
    <3>2. WellFormed(clients[a], issued)
      BY <3>1 DEF EntriesWellFormed
    <3>3. QED
      BY <3>1, <3>2
  <2>4. EntriesWellFormed'
    BY <2>3 DEF EntriesWellFormed
  <2>5. ChallengesDistinct'
    <3> SUFFICES ASSUME NEW a \in Present', NEW b \in Present',
                        a # b, clients'[a].nonce # NoNonce
                 PROVE  clients'[a].nonce # clients'[b].nonce
      BY DEF ChallengesDistinct
    <3>1. /\ a \in Present /\ clients'[a] = clients[a]
          /\ b \in Present /\ clients'[b] = clients[b]
      BY <2>2
    <3>2. QED
      BY <3>1 DEF ChallengesDistinct
  <2>6. QED
    BY <2>4, <2>5
<1>5. CASE Tick
  <2>1. /\ Present' = Present /\ issued' = issued
        /\ \A a \in Present : clients'[a] = Older(clients[a])
    BY <1>5, OlderStep DEF Tick
  <2>2. \A a \in Present :
            LET o == Older(clients[a])
            IN  /\ o.nonce = clients[a].nonce /\ o.guid = clients[a].guid
                /\ o.state = clients[a].state /\ o.state_id = clients[a].state_id
                /\ clients[a] = NewClient => o = NewClient
    BY OlderFacts DEF TypeOK
  <2>3. EntriesWellFormed'
    BY <2>1, <2>2 DEF EntriesWellFormed, WellFormed
  <2>4. ChallengesDistinct'
    BY <2>1, <2>2 DEF ChallengesDistinct
  <2>5. QED
    BY <2>3, <2>4
<1>6. CASE UNCHANGED vars
  BY <1>6 DEF vars, EntriesWellFormed, WellFormed, ChallengesDistinct, Present
<1>7. QED
  BY <1>1, <1>2, <1>3, <1>4, <1>5, <1>6 DEF Next

\* Whatever packets arrive, in whatever order, every entry of the map is either
\* the default one a refused packet leaves or a session with its own challenge,
\* and no two sessions ever share a challenge.
THEOREM EntriesCorrect == Spec => [](EntriesWellFormed /\ ChallengesDistinct)
<1>1. Init => IInv
  BY BoundsAssumption DEF Init, IInv, TypeOK, EntriesWellFormed, ChallengesDistinct, Present
<1>2. Spec => []TypeOK
  BY TypeCorrect
<1>3. IInv /\ [Next]_vars /\ TypeOK' => IInv'
  BY IInvStep
<1>4. IInv => EntriesWellFormed /\ ChallengesDistinct
  BY DEF IInv
<1>5. QED
  BY <1>1, <1>2, <1>3, <1>4, PTL DEF Spec

\* The second half alone: an answer to the challenge of one address cannot
\* authenticate another one.
COROLLARY ChallengesCorrect == Spec => []ChallengesDistinct
  BY EntriesCorrect, PTL
-----------------------------------------------------------------------------
\* Only the frame broadcasts.
LEMMA OthersAreSilent ==
  ASSUME Next, ~RunFrame
  PROVE  \A m \in sent' : m.cmd # "states"
<1>1. ASSUME NEW a \in Address, NEW g \in Guid, NEW s \in State,
             HandlePlayerState(a, g, s)
      PROVE  \A m \in sent' : m.cmd # "states"
  BY <1>1 DEF HandlePlayerState, AuthRequest
<1>2. ASSUME NEW a \in Address, NEW k \in Key, NEW n \in 1 .. issued,
             HandleAuthResponse(a, k, n)
      PROVE  sent' = {}
  BY <1>2 DEF HandleAuthResponse
<1>3. ASSUME NEW a \in Address, NEW g \in Guid, HandlePlayerKill(a, g)
      PROVE  \A m \in sent' : m.cmd # "states"
  BY <1>3 DEF HandlePlayerKill, Killed
<1>4. CASE Tick
  BY <1>4 DEF Tick
<1>5. QED
  BY <1>1, <1>2, <1>3, <1>4 DEF Next

LEMMA FrameBroadcast ==
  ASSUME IInv, RunFrame
  PROVE  sent' = {States(a, [x \in Authenticated' |-> AsPlayer(clients'[x])]) : a \in Authenticated'}
<1> DEFINE kept == [a \in Present \ Silent |-> clients[a]]
<1>1. clients' = kept /\ sent' = Broadcast(kept)
  BY DEF RunFrame
<1> HIDE DEF kept
<1>2. Snapshot(kept) = [x \in Authenticated' |-> AsPlayer(clients'[x])]
  BY <1>1 DEF Snapshot, Authenticated, Present
<1>3. DOMAIN Snapshot(kept) = Authenticated'
  BY <1>2
<1>4. QED
  BY <1>1, <1>2, <1>3 DEF Broadcast

LEMMA AuthenticatedHasState ==
  ASSUME IInv, NEW a \in Present, clients[a].key # NoKey
  PROVE  clients[a].state_id > 0
<1>1. clients[a] # NewClient
  BY DEF NewClient
<1>2. clients[a].state_id # 0
  BY <1>1 DEF IInv, EntriesWellFormed, WellFormed
<1>3. QED
  BY <1>2, BoundsAssumption DEF IInv, TypeOK, Client

\* A frame broadcasts to those that are left, and the other steps do not.
LEMMA BroadcastStep ==
  ASSUME BroadcastOnlyLive, IInv, IInv', [Next]_vars
  PROVE  BroadcastOnlyLive'
<1>1. CASE RunFrame
  <2>1. clients' = [a \in Present \ Silent |-> clients[a]]
    BY <1>1 DEF RunFrame
  <2>2. \A a \in Authenticated' : clients'[a].idle <= Timeout
    <3> SUFFICES ASSUME NEW a \in Authenticated' PROVE clients'[a].idle <= Timeout
      OBVIOUS
    <3>1. a \in Present \ Silent /\ clients'[a] = clients[a]
      BY <2>1, KeptStep DEF Authenticated, IInv
    <3>2. clients[a].idle \in Int
      BY <3>1 DEF IInv, TypeOK, Client
    <3>3. QED
      BY <3>1, <3>2, BoundsAssumption DEF Silent
  <2>3. \A a \in Authenticated' : clients'[a].state_id > 0
    <3>1. \A a \in Authenticated : clients[a].state_id > 0
      BY AuthenticatedHasState DEF Authenticated
    <3>2. Authenticated' \subseteq Authenticated
          /\ \A a \in Authenticated' : clients'[a] = clients[a]
      BY <2>1, KeptStep DEF Authenticated, IInv
    <3>3. QED
      BY <3>1, <3>2
  <2> DEFINE all == [a \in Authenticated' |-> AsPlayer(clients'[a])]
  <2> HIDE DEF all
  <2>4. sent' = {States(a, all) : a \in Authenticated'}
    BY <1>1, FrameBroadcast DEF all
  <2>5. {m \in sent' : m.cmd = "states"} = sent'
    BY <2>4 DEF States
  <2>6. {m.to : m \in sent'} = Authenticated' /\ \A m \in sent' : m.players = all
    <3>1. \A a : States(a, all).to = a /\ States(a, all).players = all
      BY DEF States
    <3>2. \A m \in sent' : m.to \in Authenticated' /\ m.players = all
      BY <2>4, <3>1
    <3>3. \A a \in Authenticated' : States(a, all) \in sent' /\ States(a, all).to = a
      BY <2>4, <3>1
    <3>4. {m.to : m \in sent'} \subseteq Authenticated'
      BY <3>2
    <3>5. Authenticated' \subseteq {m.to : m \in sent'}
      BY <3>3
    <3>6. QED
      BY <3>2, <3>4, <3>5
  <2>7. QED
    BY <2>2, <2>3, <2>5, <2>6 DEF BroadcastOnlyLive, all
<1>2. CASE Next /\ ~RunFrame
  <2>1. \A m \in sent' : m.cmd # "states"
    BY <1>2, OthersAreSilent
  <2>2. QED
    BY <2>1 DEF BroadcastOnlyLive
<1>3. CASE UNCHANGED vars
  BY <1>3 DEF vars, BroadcastOnlyLive, Authenticated, Present
<1>4. QED
  BY <1>1, <1>2, <1>3

\* A broadcast (send_state in run_frame, server.cpp:170-240) goes to every
\* authenticated client and to nobody else, and tells each of them of exactly those
\* clients as they are, none of them silent, for any number of clients and any time-out.
THEOREM BroadcastCorrect == Spec => []BroadcastOnlyLive
<1>1. Init => BroadcastOnlyLive
  BY DEF Init, BroadcastOnlyLive
<1>2. BroadcastOnlyLive /\ IInv /\ IInv' /\ [Next]_vars => BroadcastOnlyLive'
  BY BroadcastStep
<1>3. Init => IInv
  BY BoundsAssumption DEF Init, IInv, TypeOK, EntriesWellFormed, ChallengesDistinct, Present
<1>4. IInv /\ [Next]_vars /\ TypeOK' => IInv'
  BY IInvStep
<1>5. QED
  BY <1>1, <1>2, <1>3, <1>4, TypeCorrect, PTL DEF Spec
-----------------------------------------------------------------------------
(* The refinement: each handler maps to the step of a session.             *)

\* What rewriting one entry does to the phases and to the fresh addresses.
LEMMA OneEntryPhase ==
  ASSUME IInv, NEW a \in Address, NEW c \in Client, clients' = Put(a, c)
  PROVE  /\ Phases' = [Phases EXCEPT ![a] = EntryPhase(c)]
         /\ Fresh' = IF c.idle <= Timeout THEN Fresh \cup {a} ELSE Fresh \ {a}
<1>1. /\ Present' = Present \cup {a} /\ clients'[a] = c
      /\ \A x \in Present : x # a => clients'[x] = clients[x]
  BY PutStep DEF IInv
<1>2. Phases' = [Phases EXCEPT ![a] = EntryPhase(c)]
  BY <1>1 DEF Phases
<1>3. Fresh' = IF c.idle <= Timeout THEN Fresh \cup {a} ELSE Fresh \ {a}
  BY <1>1 DEF Fresh
<1>4. QED
  BY <1>2, <1>3

LEMMA PhaseOfEntry ==
  ASSUME IInv, NEW a \in Address
  PROVE  /\ a \in Present => Phases[a] = EntryPhase(Entry(a))
         /\ a \notin Present => Phases[a] = "absent" /\ EntryPhase(Entry(a)) = "stray"
         /\ a \in Fresh <=> Entry(a).idle <= Timeout
<1>1. NewClient.key = NoKey /\ NewClient.state_id = 0 /\ ~(NewClient.idle <= Timeout)
  BY BoundsAssumption DEF NewClient, Expired
<1>2. QED
  BY <1>1 DEF Phases, Fresh, Entry, EntryPhase

LEMMA StrayStep ==
  ASSUME IInv, NEW a \in Address, clients' = Put(a, Entry(a)),
         \A m \in sent' : m.cmd # "states"
  PROVE  Promise!Stray(a)
<1>1. Entry(a) \in Client
  BY EntryWellFormed
<1>2. Phases' = [Phases EXCEPT ![a] = EntryPhase(Entry(a))]
      /\ Fresh' = IF Entry(a).idle <= Timeout THEN Fresh \cup {a} ELSE Fresh \ {a}
  BY <1>1, OneEntryPhase
<1>3. Fresh' = Fresh
  BY <1>2, PhaseOfEntry
<1>4. EntryPhase(Entry(a)) = IF Phases[a] = "absent" THEN "stray" ELSE Phases[a]
  BY PhaseOfEntry DEF EntryPhase
<1>5. Told' = {}
  BY DEF Told
<1>6. QED
  BY <1>2, <1>3, <1>4, <1>5 DEF Promise!Stray

\* Every step of the server is a step of the sessions it promises.
LEMMA SessionStep ==
  ASSUME IInv, IInv', BroadcastOnlyLive', [Next]_vars
  PROVE  [Promise!Next]_(Promise!vars)
<1>1. ASSUME NEW a \in Address, NEW g \in Guid, NEW s \in State,
             HandlePlayerState(a, g, s)
      PROVE  Promise!Hear(a)
  <2> DEFINE c == Entry(a)
             d == Stored(c, g, s)
  <2>1. c \in Client
    BY EntryWellFormed
  <2>2. /\ d \in Client /\ d.idle = 0 /\ d.key = c.key
        /\ d.state_id > 0 /\ clients' = Put(a, d)
    BY <1>1, <2>1, StoredFacts DEF HandlePlayerState, IInv
  <2>3. d.state_id # 0
    BY <2>2
  <2>4. EntryPhase(d) = IF Phases[a] = "authenticated" THEN Phases[a] ELSE "pending"
    BY <2>2, <2>3, PhaseOfEntry DEF EntryPhase
  <2>5. d.idle <= Timeout
    BY <2>2, BoundsAssumption
  <2> HIDE DEF c, d
  <2>6. /\ Phases' = [Phases EXCEPT ![a] = EntryPhase(d)]
        /\ Fresh' = Fresh \cup {a}
    BY <2>2, <2>5, OneEntryPhase
  <2>7. Told' = {}
    BY <1>1 DEF Told, HandlePlayerState, AuthRequest
  <2>8. QED
    BY <2>4, <2>6, <2>7 DEF Promise!Hear
<1>2. ASSUME NEW a \in Address, NEW k \in Key, NEW n \in 1 .. issued,
             HandleAuthResponse(a, k, n)
      PROVE  Promise!Stray(a) \/ Promise!Authenticate(a)
  <2> DEFINE c == Entry(a)
             d == [c EXCEPT !.key = k, !.idle = 0]
  <2>1. c \in Client /\ WellFormed(c, issued)
    BY EntryWellFormed
  <2>2. CASE Accepts(c, k, n)
    <3>1. /\ d \in Client /\ d.key = k /\ d.idle = 0 /\ clients' = Put(a, d)
      BY <1>2, <2>1, <2>2, AcceptedFacts DEF HandleAuthResponse, IInv
    <3>2. c.state_id # 0 /\ a \in Present
      BY <2>1, <2>2 DEF WellFormed, Accepts, Entry, NewClient
    <3>3. Phases[a] \in {"pending", "authenticated"}
      BY <3>2, PhaseOfEntry DEF EntryPhase
    <3>4. EntryPhase(d) = "authenticated" /\ d.idle <= Timeout
      BY <3>1, NoKeyAssumption, BoundsAssumption DEF EntryPhase
    <3> HIDE DEF c, d
    <3>5. /\ Phases' = [Phases EXCEPT ![a] = EntryPhase(d)]
          /\ Fresh' = Fresh \cup {a}
      BY <3>1, <3>4, OneEntryPhase
    <3>6. Told' = {}
      BY <1>2 DEF Told, HandleAuthResponse
    <3>7. QED
      BY <3>3, <3>4, <3>5, <3>6 DEF Promise!Authenticate
  <2>3. CASE ~Accepts(c, k, n)
    BY <1>2, <2>3, StrayStep DEF HandleAuthResponse
  <2>4. QED
    BY <2>2, <2>3
<1>3. ASSUME NEW a \in Address, NEW g \in Guid, HandlePlayerKill(a, g)
      PROVE  Promise!Stray(a)
  <2>1. clients' = Put(a, Entry(a)) /\ \A m \in sent' : m.cmd # "states"
    BY <1>3 DEF HandlePlayerKill, Killed
  <2>2. QED
    BY <2>1, StrayStep
<1>4. CASE RunFrame
  <2>1. /\ Present' = Present \ Silent
        /\ \A a \in Present' : clients'[a] = clients[a]
    BY <1>4, KeptStep DEF RunFrame, IInv
  <2>2. Present' = Fresh /\ Fresh \subseteq Present /\ Present \subseteq Address
    BY <2>1, BoundsAssumption DEF Silent, Fresh, IInv, TypeOK, Client, Expired
  <2>3. Phases' = [a \in Address |-> IF a \in Fresh THEN Phases[a] ELSE "absent"]
    BY <2>1, <2>2 DEF Phases
  <2>4. Fresh' = Fresh
    BY <2>1, <2>2 DEF Fresh
  <2>5. \A a \in Fresh : Phases[a] = "authenticated" <=> clients[a].key # NoKey
    BY <2>2 DEF Phases, EntryPhase
  <2>6. Authenticated' = {a \in Fresh : Phases[a] = "authenticated"}
    BY <2>1, <2>2, <2>5 DEF Authenticated
  <2>7. Told' = Authenticated'
    <3> DEFINE all == [a \in Authenticated' |-> AsPlayer(clients'[a])]
    <3>0. DOMAIN all = Authenticated'
      OBVIOUS
    <3> HIDE DEF all
    <3>1. sent' = {States(a, all) : a \in Authenticated'}
      BY <1>4, FrameBroadcast DEF all
    <3>2. (\A m \in sent' : m.cmd = "states" /\ DOMAIN m.players = Authenticated')
          /\ (sent' = {} => Authenticated' = {})
      <4>1. \A a : States(a, all).cmd = "states" /\ States(a, all).players = all
        BY DEF States
      <4>2. \A m \in sent' : m.cmd = "states" /\ m.players = all
        BY <3>1, <4>1
      <4>3. sent' = {} => Authenticated' = {}
        BY <3>1
      <4>4. QED
        BY <3>0, <4>2, <4>3
    <3>3. QED
      BY <3>2 DEF Told
  <2>8. QED
    BY <2>3, <2>4, <2>6, <2>7 DEF Promise!Sweep, Promise!Next
<1>5. CASE Tick
  <2>1. /\ Present' = Present
        /\ \A a \in Present : clients'[a] = Older(clients[a])
    BY <1>5, OlderStep DEF Tick, IInv
  <2>2. \A a \in Present : /\ Older(clients[a]).key = clients[a].key
                           /\ Older(clients[a]).state_id = clients[a].state_id
                           /\ Older(clients[a]).idle >= clients[a].idle
                           /\ Older(clients[a]).idle \in Int /\ clients[a].idle \in Int
    BY OlderFacts DEF IInv, TypeOK, Client
  <2>3. Phases' = Phases
    BY <2>1, <2>2 DEF Phases, EntryPhase
  <2>4. Fresh' \subseteq Fresh
    BY <2>1, <2>2, BoundsAssumption DEF Fresh
  <2>5. Told' = {}
    BY <1>5 DEF Tick, Told
  <2>6. QED
    BY <2>3, <2>4, <2>5 DEF Promise!Fade, Promise!Next
<1>6. CASE UNCHANGED vars
  BY <1>6 DEF vars, Promise!vars, Phases, Fresh, Told, Present
<1>7. QED
  BY <1>1, <1>2, <1>3, <1>4, <1>5, <1>6 DEF Next, Promise!Next

\* The server implements the sessions it promises: no packet, however late,
\* repeated or out of order, skips a phase, and only silence ends a session.
THEOREM Refinement == Spec => ImplementsSessions
<1>1. Init => Promise!Init
  BY DEF Init, Promise!Init, Phases, Fresh, Told, Present
<1>2. IInv /\ IInv' /\ BroadcastOnlyLive' /\ [Next]_vars => [Promise!Next]_(Promise!vars)
  BY SessionStep
<1>3. Init => IInv
  BY BoundsAssumption DEF Init, IInv, TypeOK, EntriesWellFormed, ChallengesDistinct, Present
<1>4. IInv /\ [Next]_vars /\ TypeOK' => IInv'
  BY IInvStep
<1>5. QED
  BY <1>1, <1>2, <1>3, <1>4, TypeCorrect, BroadcastCorrect, PTL
     DEF Spec, ImplementsSessions, Promise!Spec

-----------------------------------------------------------------------------
\* What may become of an entry: the same player, or another one with a larger id.
Renamed(c, d) ==
    /\ d.state_id >= c.state_id
    /\ AsPlayer(c) # AsPlayer(d) => d.state_id > c.state_id \/ c.state_id = MaxStateId

LEMMA RenamedItself ==
  ASSUME NEW c \in Client, NEW d \in Client,
         d.guid = c.guid, d.state = c.state, d.state_id = c.state_id
  PROVE  Renamed(c, d)
  BY BoundsAssumption DEF Renamed, AsPlayer, Client

LEMMA RenamedStored ==
  ASSUME TypeOK, NEW c \in Client, NEW g \in Guid, NEW s \in State,
         Challenge(c) \in Nonce
  PROVE  Renamed(c, Stored(c, g, s))
<1>1. Stored(c, g, s).state_id = NextId(c.state_id)
  BY StoredFacts
<1>2. c.state_id \in 0 .. MaxStateId /\ MaxStateId \in Nat
  BY BoundsAssumption DEF Client
<1>3. /\ NextId(c.state_id) >= c.state_id
      /\ NextId(c.state_id) > c.state_id \/ c.state_id = MaxStateId
  BY <1>2 DEF NextId
<1>4. QED
  BY <1>1, <1>3 DEF Renamed

\* One entry is written, the others stay.
LEMMA OneEntryRenamed ==
  ASSUME TypeOK, NEW a \in Address, NEW c \in Client, clients' = Put(a, c),
         a \in Present => Renamed(clients[a], c)
  PROVE  \A x \in Present \cap Present' : Renamed(clients[x], clients'[x])
<1>1. /\ clients'[a] = c
      /\ \A x \in Present : x # a => clients'[x] = clients[x]
  BY PutStep
<1>2. \A x \in Present : clients[x] \in Client
  BY DEF TypeOK, Present
<1>3. \A x \in Present : Renamed(clients[x], clients[x])
  BY <1>2, RenamedItself
<1>4. QED
  BY <1>1, <1>3

\* For any bound on the ids: while an entry lives, its id never falls, and what it
\* holds changes only with a larger id (server.cpp:121-135).
THEOREM IdsNameStates == Spec => StateIdsName
<1> DEFINE Names == \A x \in Present \cap Present' : Renamed(clients[x], clients'[x])
<1>1. TypeOK /\ [Next]_vars => [Names]_vars
  <2> SUFFICES ASSUME TypeOK, Next PROVE Names
    OBVIOUS
  <2>1. ASSUME NEW a \in Address, NEW g \in Guid, NEW s \in State,
               HandlePlayerState(a, g, s)
        PROVE  Names
    <3>1. Entry(a) \in Client /\ Challenge(Entry(a)) \in Nonce
      BY <2>1, EntryType DEF HandlePlayerState
    <3>2. clients' = Put(a, Stored(Entry(a), g, s))
      BY <2>1 DEF HandlePlayerState
    <3>3. /\ Stored(Entry(a), g, s) \in Client
          /\ Renamed(Entry(a), Stored(Entry(a), g, s))
      BY <3>1, StoredFacts, RenamedStored
    <3>4. a \in Present => Entry(a) = clients[a]
      BY DEF Entry
    <3>5. QED
      BY <3>2, <3>3, <3>4, OneEntryRenamed
  <2>2. ASSUME NEW a \in Address, NEW k \in Key, NEW n \in 1 .. issued,
               HandleAuthResponse(a, k, n)
        PROVE  Names
    <3> DEFINE c == Entry(a)
               d == IF Accepts(c, k, n) THEN [c EXCEPT !.key = k, !.idle = 0] ELSE c
    <3>1. c \in Client /\ clients' = Put(a, d)
      BY <2>2, EntryType DEF HandleAuthResponse
    <3>2. d \in Client /\ Renamed(c, d)
      <4>1. d \in Client /\ d.guid = c.guid /\ d.state = c.state /\ d.state_id = c.state_id
        BY <3>1, AcceptedFacts
      <4> HIDE DEF c, d
      <4>2. QED
        BY <3>1, <4>1, RenamedItself
    <3>3. a \in Present => c = clients[a]
      BY DEF Entry
    <3> HIDE DEF c, d
    <3>4. QED
      BY <3>1, <3>2, <3>3, OneEntryRenamed
  <2>3. ASSUME NEW a \in Address, NEW g \in Guid, HandlePlayerKill(a, g)
        PROVE  Names
    <3>1. Entry(a) \in Client /\ clients' = Put(a, Entry(a))
      BY <2>3, EntryType DEF HandlePlayerKill
    <3>2. Renamed(Entry(a), Entry(a))
      BY <3>1, RenamedItself
    <3>3. a \in Present => Entry(a) = clients[a]
      BY DEF Entry
    <3>4. QED
      BY <3>1, <3>2, <3>3, OneEntryRenamed
  <2>4. CASE RunFrame
    <3>1. \A x \in Present' : clients'[x] = clients[x]
      BY <2>4, KeptStep DEF RunFrame
    <3>2. \A x \in Present : clients[x] \in Client
      BY DEF TypeOK, Present
    <3>3. QED
      BY <3>1, <3>2, RenamedItself
  <2>5. CASE Tick
    <3>1. \A x \in Present : clients[x] \in Client /\ clients'[x] = Older(clients[x])
      BY <2>5, OlderStep DEF Tick, TypeOK, Present
    <3>2. QED
      BY <3>1, OlderFacts, RenamedItself
  <2>6. QED
    BY <2>1, <2>2, <2>3, <2>4, <2>5 DEF Next
<1>2. Names => \A a \in Present \cap Present' :
                  /\ clients'[a].state_id >= clients[a].state_id
                  /\ AsPlayer(clients[a]) # AsPlayer(clients'[a])
                        => \/ clients'[a].state_id > clients[a].state_id
                           \/ clients[a].state_id = MaxStateId
  BY DEF Renamed
<1> HIDE DEF Names
<1>3. QED
  BY <1>1, <1>2, TypeCorrect, PTL DEF Spec, StateIdsName

-----------------------------------------------------------------------------
(* The handshake, for any number of players, endpoints, keys and faults:   *)
(* who can be authenticated where, and that no challenge comes back.       *)

\* Every process sits at one of its player's endpoints.
Addressed == addr \in [Player -> Address] /\ \A p \in Player : addr[p] \in Ports[p]

\* What is under way was sent by a player's process, from an endpoint of that
\* player and with that player's guid or key.
FromPlayer(m) ==
    \/ m.cmd = "state" /\ \E p \in Player : m.from \in Ports[p] /\ m.guid = GuidOf[p]
    \/ m.cmd = "authResponse" /\ \E p \in Player : m.from \in Ports[p] /\ m.key = KeyOf[p]
    \/ m.cmd = "authRequest"

Honest == \A m \in net : FromPlayer(m)

\* What is stored about an endpoint is what its player has sent.
Owned(a, c) ==
    /\ c.nonce # NoNonce => \E p \in Player : a \in Ports[p] /\ c.guid = GuidOf[p]
    /\ c.key # NoKey =>
          /\ c.nonce # NoNonce
          /\ \E p \in Player : a \in Ports[p] /\ Genuine(p) /\ c.key = KeyOf[p]

EntriesOwned == \A a \in Present : Owned(a, clients[a])

HInv == TypeOK /\ Addressed /\ Honest /\ EntriesOwned
-----------------------------------------------------------------------------
\* An endpoint has one owner.
LEMMA OneOwner ==
  ASSUME NEW a, NEW p \in Player, NEW q \in Player, a \in Ports[p], a \in Ports[q]
  PROVE  p = q /\ a \in Address
  BY PlayersAssumption

LEMMA EntryOwned ==
  ASSUME EntriesOwned, NEW a
  PROVE  Owned(a, Entry(a))
  BY DEF EntriesOwned, Entry, Owned, NewClient

\* Rewriting one entry with an owned one keeps the entries owned.
LEMMA OwnedStep ==
  ASSUME TypeOK, EntriesOwned, NEW a \in Address, NEW c \in Client,
         clients' = Put(a, c), Owned(a, c)
  PROVE  EntriesOwned'
<1>1. /\ Present' = Present \cup {a}
      /\ clients'[a] = c
      /\ \A x \in Present : x # a => clients'[x] = clients[x]
  BY PutStep
<1>2. QED
  BY <1>1 DEF EntriesOwned, Owned

\* A state that a player sent keeps the entry that player's.
LEMMA StateOwned ==
  ASSUME TypeOK, EntriesOwned, NEW p \in Player, NEW a \in Ports[p], NEW s \in State,
         HandlePlayerState(a, GuidOf[p], s)
  PROVE  EntriesOwned'
<1> DEFINE c == Entry(a)
           d == Stored(c, GuidOf[p], s)
<1>1. a \in Address /\ GuidOf[p] \in Guid
  BY PlayersAssumption
<1>2. c \in Client /\ Challenge(c) \in Nonce /\ clients' = Put(a, d)
  BY <1>1, EntryType DEF HandlePlayerState
<1>3. d \in Client /\ d.guid = GuidOf[p] /\ d.nonce \in Nonce /\ d.key = c.key
  BY <1>1, <1>2, StoredFacts
<1>4. d.nonce # NoNonce
  BY <1>3 DEF Nonce, NoNonce
<1>5. Owned(a, c)
  BY EntryOwned
<1> HIDE DEF c, d
<1>6. Owned(a, d)
  BY <1>3, <1>4, <1>5 DEF Owned
<1>7. QED
  BY <1>1, <1>2, <1>3, <1>6, OwnedStep

\* An answer that is accepted is the one of the player whose guid is stored.
LEMMA ResponseOwned ==
  ASSUME TypeOK, EntriesOwned, NEW p \in Player, NEW a \in Ports[p], NEW n,
         HandleAuthResponse(a, KeyOf[p], n)
  PROVE  EntriesOwned'
<1> DEFINE c == Entry(a)
           d == IF Accepts(c, KeyOf[p], n) THEN [c EXCEPT !.key = KeyOf[p], !.idle = 0] ELSE c
<1>1. a \in Address /\ KeyOf[p] \in Key
  BY PlayersAssumption
<1>2. c \in Client /\ d \in Client
  BY <1>1, EntryType, AcceptedFacts
<1>3. clients' = Put(a, d)
  BY DEF HandleAuthResponse
<1>4. Owned(a, c)
  BY EntryOwned
<1>5. Owned(a, d)
  <2>1. CASE Accepts(c, KeyOf[p], n)
    <3>1. d.key = KeyOf[p] /\ d.nonce = c.nonce /\ d.guid = c.guid
      BY <1>1, <1>2, <2>1, AcceptedFacts
    <3>2. c.nonce # NoNonce /\ KeyGuid[KeyOf[p]] = c.guid
      BY <2>1 DEF Accepts
    <3>3. PICK q \in Player : a \in Ports[q] /\ c.guid = GuidOf[q]
      BY <1>4, <3>2 DEF Owned
    <3>4. q = p
      BY <3>3, OneOwner
    <3>5. Genuine(p)
      BY <3>2, <3>3, <3>4 DEF Genuine
    <3> HIDE DEF c, d
    <3>6. QED
      BY <1>4, <3>1, <3>2, <3>5 DEF Owned
  <2>2. CASE ~Accepts(c, KeyOf[p], n)
    BY <1>4, <2>2
  <2>3. QED
    BY <2>1, <2>2
<1> HIDE DEF c, d
<1>6. QED
  BY <1>1, <1>2, <1>3, <1>5, OwnedStep

-----------------------------------------------------------------------------
\* The invariant holds at the start, and whatever a player, the network, the
\* clock or the server does.
LEMMA HInit_HInv == HInit => HInv
  BY BoundsAssumption
  DEF HInit, Init, HInv, TypeOK, Addressed, Honest, EntriesOwned, Present

LEMMA HStep == HInv /\ [HNext]_hvars => HInv'
<1> SUFFICES ASSUME HInv, [HNext]_hvars PROVE HInv'
  OBVIOUS
<1> USE DEF HInv
<1>1. ASSUME NEW p \in Player, TransmitState(p) PROVE HInv'
  <2>1. UNCHANGED <<clients, issued, addr>> /\ sent' = {}
    BY <1>1 DEF TransmitState
  <2>2. Honest'
    BY <1>1 DEF TransmitState, Honest, FromPlayer, StatePacket, Addressed
  <2>3. QED
    BY <2>1, <2>2 DEF TypeOK, Present, Addressed, EntriesOwned
<1>2. ASSUME NEW p \in Player, RestartPlayer(p) PROVE HInv'
  <2>1. UNCHANGED <<clients, issued, net>> /\ sent' = {}
    BY <1>2 DEF RestartPlayer
  <2>2. PICK a \in Ports[p] : addr' = [addr EXCEPT ![p] = a]
    BY <1>2 DEF RestartPlayer
  <2>3. Addressed'
    BY <2>2, PlayersAssumption DEF Addressed
  <2>4. QED
    BY <2>1, <2>3 DEF TypeOK, Present, Honest, FromPlayer, EntriesOwned
<1>3. ASSUME NEW m \in net, ServerReceive(m) PROVE HInv'
  <2>1. UNCHANGED addr /\ net' \subseteq net \cup {x \in sent' : x.cmd = "authRequest"}
    BY <1>3 DEF ServerReceive, Deliver
  <2>2. Addressed' /\ Honest'
    BY <2>1 DEF Addressed, Honest, FromPlayer
  <2>3. FromPlayer(m)
    BY DEF Honest
  <2>4. TypeOK' /\ EntriesOwned'
    <3>1. ASSUME m.cmd = "state", NEW s \in State, HandlePlayerState(m.from, m.guid, s)
          PROVE  TypeOK' /\ EntriesOwned'
      <4>1. PICK p \in Player : m.from \in Ports[p] /\ m.guid = GuidOf[p]
        BY <2>3, <3>1 DEF FromPlayer
      <4>2. m.from \in Address /\ m.guid \in Guid
        BY <4>1, PlayersAssumption
      <4>3. QED
        BY <3>1, <4>1, <4>2, PlayerStateType, StateOwned
    <3>2. ASSUME m.cmd = "authResponse", HandleAuthResponse(m.from, m.key, m.nonce)
          PROVE  TypeOK' /\ EntriesOwned'
      <4>1. PICK p \in Player : m.from \in Ports[p] /\ m.key = KeyOf[p]
        BY <2>3, <3>2 DEF FromPlayer
      <4>2. m.from \in Address /\ m.key \in Key
        BY <4>1, PlayersAssumption
      <4>3. QED
        BY <3>2, <4>1, <4>2, AuthResponseType, ResponseOwned
    <3>3. QED
      BY <1>3, <3>1, <3>2 DEF ServerReceive
  <2>5. QED
    BY <2>2, <2>4
<1>4. ASSUME NEW m \in net, NEW p \in Player, ReceiveAuthRequest(p, m) PROVE HInv'
  <2>1. UNCHANGED <<clients, issued, addr>> /\ sent' = {}
    BY <1>4 DEF ReceiveAuthRequest
  <2>2. net' \subseteq net \cup {AuthResponse(addr[p], KeyOf[p], m.nonce)}
    BY <1>4 DEF ReceiveAuthRequest, Deliver
  <2>3. Honest'
    BY <2>2 DEF Honest, FromPlayer, AuthResponse, Addressed
  <2>4. QED
    BY <2>1, <2>3 DEF TypeOK, Present, Addressed, EntriesOwned
<1>5. ASSUME NEW m \in net, Lose(m) PROVE HInv'
  BY <1>5 DEF Lose, TypeOK, Present, Addressed, Honest, FromPlayer, EntriesOwned
<1>6. CASE ServerFrame
  <2>1. RunFrame /\ UNCHANGED <<addr, net>>
    BY <1>6 DEF ServerFrame
  <2>2. TypeOK'
    BY <2>1, TypeStep DEF Next
  <2>3. /\ Present' \subseteq Present
        /\ \A a \in Present' : clients'[a] = clients[a]
    BY <2>1, KeptStep DEF RunFrame
  <2>4. EntriesOwned'
    BY <2>3 DEF EntriesOwned, Owned
  <2>5. QED
    BY <2>1, <2>2, <2>4 DEF Addressed, Honest, FromPlayer
<1>7. CASE ClockTick
  <2>1. Tick /\ UNCHANGED <<addr, net>>
    BY <1>7 DEF ClockTick
  <2>2. TypeOK'
    BY <2>1, TypeStep DEF Next
  <2>3. /\ Present' = Present
        /\ \A a \in Present : clients[a] \in Client /\ clients'[a] = Older(clients[a])
    BY <2>1, OlderStep DEF Tick, TypeOK
  <2>4. \A a \in Present : Owned(a, clients'[a])
    <3> SUFFICES ASSUME NEW a \in Present PROVE Owned(a, clients'[a])
      OBVIOUS
    <3>1. /\ clients'[a].key = clients[a].key
          /\ clients'[a].nonce = clients[a].nonce
          /\ clients'[a].guid = clients[a].guid
      BY <2>3, OlderFacts
    <3>2. QED
      BY <3>1 DEF EntriesOwned, Owned
  <2>5. EntriesOwned'
    BY <2>3, <2>4 DEF EntriesOwned, Owned
  <2>6. QED
    BY <2>1, <2>2, <2>5 DEF Addressed, Honest, FromPlayer
<1>8. CASE RestartServer
  <2>1. Present' = {} /\ clients' \in [Present' -> Client]
    BY <1>8 DEF RestartServer, Present
  <2>2. QED
    BY <1>8, <2>1 DEF RestartServer, TypeOK, Addressed, Honest, FromPlayer, EntriesOwned
<1>9. CASE UNCHANGED hvars
  BY <1>9 DEF hvars, TypeOK, Present, Addressed, Honest, FromPlayer, EntriesOwned
<1>10. QED
  BY <1>1, <1>2, <1>3, <1>4, <1>5, <1>6, <1>7, <1>8, <1>9 DEF HNext, Receive

LEMMA HInvariant == HSpec => []HInv
  BY HInit_HInv, HStep, PTL DEF HSpec

-----------------------------------------------------------------------------
\* However many players there are, and whatever is lost, repeated, reordered or
\* restarted: whoever is authenticated is the owner of the endpoint, with the
\* key that the guid was made from (server.cpp:35-86).
THEOREM OwnersCorrect == HSpec => []AuthenticatedIsOwner
<1>1. HInv => AuthenticatedIsOwner
  <2> SUFFICES ASSUME HInv, NEW a \in Authenticated
               PROVE  \E p \in Player : /\ a \in Ports[p] /\ Genuine(p)
                                        /\ clients[a].key = KeyOf[p]
                                        /\ clients[a].guid = GuidOf[p]
    BY DEF AuthenticatedIsOwner
  <2>1. a \in Present /\ clients[a].key # NoKey
    BY DEF Authenticated
  <2>2. Owned(a, clients[a])
    BY <2>1 DEF HInv, EntriesOwned
  <2>3. PICK p \in Player : a \in Ports[p] /\ Genuine(p) /\ clients[a].key = KeyOf[p]
    BY <2>1, <2>2 DEF Owned
  <2>4. PICK q \in Player : a \in Ports[q] /\ clients[a].guid = GuidOf[q]
    BY <2>1, <2>2 DEF Owned
  <2>5. p = q
    BY <2>3, <2>4, OneOwner
  <2>6. QED
    BY <2>3, <2>4, <2>5
<1>2. QED
  BY <1>1, HInvariant, PTL

-----------------------------------------------------------------------------
\* A step that rewrites one entry brings back no challenge but that entry's.
LEMMA OneChallenge ==
  ASSUME TypeOK, NEW a \in Address, NEW c \in Client, clients' = Put(a, c),
         NEW n, c.nonce = n => n \in Current, n \in Current'
  PROVE  n \in Current
<1>1. PICK b \in Present' : clients'[b].nonce = n
  BY DEF Current
<1>2. /\ Present' = Present \cup {a}
      /\ clients'[a] = c
      /\ \A x \in Present : x # a => clients'[x] = clients[x]
  BY PutStep
<1>3. QED
  BY <1>1, <1>2 DEF Current

\* An entry holds a challenge that is in the map, or none.
LEMMA EntryChallenge ==
  ASSUME NEW a, NEW n \in 1 .. issued, Entry(a).nonce = n
  PROVE  n \in Current
  BY DEF Entry, NewClient, NoNonce, Current

LEMMA ReceivedChallenges ==
  ASSUME HInv, NEW m \in net, ServerReceive(m), NEW n \in 1 .. issued, n \in Current'
  PROVE  n \in Current
<1>1. TypeOK /\ FromPlayer(m)
  BY DEF HInv, Honest
<1>2. ASSUME m.cmd = "state", NEW s \in State, HandlePlayerState(m.from, m.guid, s)
      PROVE  n \in Current
  <2> DEFINE c == Entry(m.from)
             d == Stored(c, m.guid, s)
  <2>1. m.from \in Address /\ m.guid \in Guid
    BY <1>1, <1>2, PlayersAssumption DEF FromPlayer
  <2>2. c \in Client /\ clients' = Put(m.from, d) /\ Challenge(c) \in Nonce
    BY <1>1, <1>2, <2>1, EntryType DEF HandlePlayerState
  <2>3. d \in Client /\ d.nonce = Challenge(c)
    BY <1>1, <2>1, <2>2, StoredFacts
  <2>4. Challenge(c) = c.nonce \/ Challenge(c) = issued + 1
    BY DEF Challenge
  <2>5. d.nonce = n => c.nonce = n
    BY <1>1, <2>3, <2>4, BoundsAssumption DEF TypeOK
  <2>6. d.nonce = n => n \in Current
    BY <2>5, EntryChallenge
  <2> HIDE DEF c, d
  <2>7. QED
    BY <1>1, <2>1, <2>2, <2>3, <2>6, OneChallenge
<1>3. ASSUME m.cmd = "authResponse", HandleAuthResponse(m.from, m.key, m.nonce)
      PROVE  n \in Current
  <2> DEFINE c == Entry(m.from)
             d == IF Accepts(c, m.key, m.nonce) THEN [c EXCEPT !.key = m.key, !.idle = 0] ELSE c
  <2>1. m.from \in Address /\ m.key \in Key
    BY <1>1, <1>3, PlayersAssumption DEF FromPlayer
  <2>2. c \in Client /\ clients' = Put(m.from, d)
    BY <1>1, <1>3, <2>1, EntryType DEF HandleAuthResponse
  <2>3. d \in Client /\ d.nonce = c.nonce
    BY <1>1, <2>1, <2>2, AcceptedFacts
  <2>4. d.nonce = n => n \in Current
    BY <2>3, EntryChallenge
  <2> HIDE DEF c, d
  <2>5. QED
    BY <1>1, <2>1, <2>2, <2>3, <2>4, OneChallenge
<1>4. QED
  BY <1>2, <1>3 DEF ServerReceive

\* For every number of players and faults: a challenge that no entry holds any
\* more is never held again, so no answer outlives its session
\* (server.cpp:11-24, 35-86, 210-232).
THEOREM DeadStayDead == HSpec => DeadChallengesStayDead
<1> DEFINE Stays == \A n \in 1 .. issued : n \notin Current => n \notin Current'
<1>1. HInv /\ [HNext]_hvars => [Stays]_hvars
  <2> SUFFICES ASSUME HInv, [HNext]_hvars, NEW n \in 1 .. issued, n \in Current'
               PROVE  n \in Current
    OBVIOUS
  <2>1. CASE UNCHANGED clients
    BY <2>1 DEF Current, Present
  <2>2. ASSUME NEW m \in net, ServerReceive(m) PROVE n \in Current
    BY <2>2, ReceivedChallenges
  <2>3. CASE ServerFrame
    <3>1. TypeOK /\ clients' = [a \in Present \ Silent |-> clients[a]]
      BY <2>3 DEF ServerFrame, RunFrame, HInv
    <3>2. /\ Present' \subseteq Present
          /\ \A a \in Present' : clients'[a] = clients[a]
      BY <3>1, KeptStep
    <3>3. QED
      BY <3>2 DEF Current
  <2>4. CASE ClockTick
    <3>1. TypeOK /\ clients' = [a \in Present |-> Older(clients[a])]
      BY <2>4 DEF ClockTick, Tick, HInv
    <3>2. /\ Present' = Present
          /\ \A a \in Present : clients[a] \in Client /\ clients'[a] = Older(clients[a])
      BY <3>1, OlderStep DEF TypeOK
    <3>3. \A a \in Present : clients'[a].nonce = clients[a].nonce
      BY <3>2, OlderFacts
    <3>4. QED
      BY <3>2, <3>3 DEF Current
  <2>5. CASE RestartServer
    BY <2>5 DEF RestartServer, Current, Present
  <2>6. QED
    BY <2>1, <2>2, <2>3, <2>4, <2>5
    DEF HNext, Receive, TransmitState, RestartPlayer, ReceiveAuthRequest, Lose, hvars
<1>2. QED
  BY <1>1, HInvariant, PTL DEF HSpec, DeadChallengesStayDead

-----------------------------------------------------------------------------
(* The server keeps over the network what it promises by itself.           *)

\* Only challenges that were drawn are under way.
Drawn == \A m \in net : m.cmd \in {"authRequest", "authResponse"} => m.nonce \in 1 .. issued

NInv == HInv /\ IInv /\ Drawn

\* What the players and the network do is nothing to the server.
Elsewhere == UNCHANGED <<clients, issued>> /\ sent' = {}

\* So the server's steps are its own, but for its restarts.
LEMMA ServerSteps ==
  ASSUME HInv, Drawn, [HNext]_hvars
  PROVE  [Next]_vars \/ RestartServer \/ Elsewhere
<1>1. ASSUME NEW p \in Player, TransmitState(p) \/ RestartPlayer(p) PROVE Elsewhere
  BY <1>1 DEF TransmitState, RestartPlayer, Elsewhere
<1>2. ASSUME NEW m \in net, ServerReceive(m) PROVE Next
  <2>1. FromPlayer(m)
    BY DEF HInv, Honest
  <2>2. ASSUME m.cmd = "state", NEW s \in State, HandlePlayerState(m.from, m.guid, s) PROVE Next
    <3>1. m.from \in Address /\ m.guid \in Guid
      BY <2>1, <2>2, PlayersAssumption DEF FromPlayer
    <3>2. QED
      BY <2>2, <3>1 DEF Next
  <2>3. ASSUME m.cmd = "authResponse", HandleAuthResponse(m.from, m.key, m.nonce) PROVE Next
    <3>1. m.from \in Address /\ m.key \in Key /\ m.nonce \in 1 .. issued
      BY <2>1, <2>3, PlayersAssumption DEF FromPlayer, Drawn
    <3>2. QED
      BY <2>3, <3>1 DEF Next
  <2>4. QED
    BY <1>2, <2>2, <2>3 DEF ServerReceive
<1>3. ASSUME NEW m \in net, NEW p \in Player, ReceiveAuthRequest(p, m) PROVE Elsewhere
  BY <1>3 DEF ReceiveAuthRequest, Elsewhere
<1>4. ASSUME NEW m \in net, Lose(m) PROVE Elsewhere
  BY <1>4 DEF Lose, Elsewhere
<1>5. ServerFrame \/ ClockTick => Next
  BY DEF ServerFrame, ClockTick, Next
<1>6. UNCHANGED hvars => [Next]_vars
  BY DEF hvars, vars
<1>7. QED
  BY <1>1, <1>2, <1>3, <1>4, <1>5, <1>6 DEF HNext, Receive

\* A datagram is an answer to a challenge that was drawn before.
LEMMA DrawnStep ==
  ASSUME NInv, [HNext]_hvars
  PROVE  Drawn'
<1> USE DEF NInv
<1>1. issued \in Nat
  BY BoundsAssumption DEF IInv, TypeOK
<1>2. ASSUME issued' \in Nat, issued' >= issued,
             \A m \in net' : \/ m \in net
                             \/ m.cmd \in {"authRequest", "authResponse"} => m.nonce \in 1 .. issued'
      PROVE  Drawn'
  BY <1>1, <1>2 DEF Drawn
<1>3. ASSUME NEW p \in Player, TransmitState(p) \/ RestartPlayer(p) PROVE Drawn'
  <2>1. issued' = issued /\ \A m \in net' : m \in net \/ m.cmd = "state"
    BY <1>3 DEF TransmitState, RestartPlayer, StatePacket
  <2>2. QED
    BY <1>1, <1>2, <2>1
<1>4. ASSUME NEW m \in net, ServerReceive(m) PROVE Drawn'
  <2>1. \A x \in net' : x \in net \/ (x \in sent' /\ x.cmd = "authRequest")
    BY <1>4 DEF ServerReceive, Deliver
  <2>2. ASSUME m.cmd = "state", NEW s \in State, HandlePlayerState(m.from, m.guid, s) PROVE Drawn'
    <3> DEFINE c == Entry(m.from)
               n == Challenge(c)
    <3>1. m.from \in Address
      BY <2>2, PlayersAssumption DEF HInv, Honest, FromPlayer
    <3>2. c \in Client /\ WellFormed(c, issued)
      BY <3>1, EntryWellFormed
    <3>3. /\ issued' = IF n = c.nonce THEN issued ELSE n
          /\ sent' = IF c.key = NoKey THEN {AuthRequest(m.from, n)} ELSE {}
      BY <2>2 DEF HandlePlayerState
    <3> HIDE DEF c
    <3>4. c.nonce = NoNonce \/ c.nonce \in 1 .. issued
      <4>1. NewClient.nonce = NoNonce
        BY DEF NewClient
      <4>2. QED
        BY <3>2, <4>1 DEF WellFormed
    <3>5. n = IF c.key = NoKey /\ c.nonce = NoNonce THEN issued + 1 ELSE c.nonce
      BY DEF Challenge
    <3> HIDE DEF n
    <3>6. issued' \in Nat /\ issued' >= issued
      BY <1>1, <3>3, <3>5
    <3>7. c.key = NoKey => n \in 1 .. issued'
      BY <1>1, <3>3, <3>4, <3>5 DEF NoNonce
    <3>8. \A x \in sent' : x.nonce = n /\ c.key = NoKey
      BY <3>3 DEF AuthRequest
    <3>9. QED
      BY <1>2, <2>1, <3>6, <3>7, <3>8
  <2>3. ASSUME m.cmd = "authResponse", HandleAuthResponse(m.from, m.key, m.nonce) PROVE Drawn'
    <3>1. issued' = issued /\ sent' = {}
      BY <2>3 DEF HandleAuthResponse
    <3>2. QED
      BY <1>1, <1>2, <2>1, <3>1
  <2>4. QED
    BY <1>4, <2>2, <2>3 DEF ServerReceive
<1>5. ASSUME NEW m \in net, NEW p \in Player, ReceiveAuthRequest(p, m) PROVE Drawn'
  <2>1. issued' = issued /\ m.cmd = "authRequest"
        /\ \A x \in net' : x \in net \/ x = AuthResponse(addr[p], KeyOf[p], m.nonce)
    BY <1>5 DEF ReceiveAuthRequest, Deliver
  <2>2. AuthResponse(addr[p], KeyOf[p], m.nonce).nonce = m.nonce
    BY DEF AuthResponse
  <2>3. m.nonce \in 1 .. issued
    BY <2>1 DEF Drawn
  <2>4. QED
    BY <1>1, <1>2, <2>1, <2>2, <2>3
<1>6. ASSUME NEW m \in net, Lose(m) PROVE Drawn'
  BY <1>1, <1>2, <1>6 DEF Lose
<1>7. CASE ServerFrame \/ ClockTick \/ RestartServer \/ UNCHANGED hvars
  <2>1. issued' = issued /\ net' = net
    BY <1>7 DEF ServerFrame, RunFrame, ClockTick, Tick, RestartServer, hvars
  <2>2. QED
    BY <1>1, <1>2, <2>1
<1>8. QED
  BY <1>3, <1>4, <1>5, <1>6, <1>7 DEF HNext, Receive

LEMMA NetworkStep == NInv /\ [HNext]_hvars => NInv'
<1> SUFFICES ASSUME NInv, [HNext]_hvars PROVE NInv'
  OBVIOUS
<1>1. HInv' /\ Drawn'
  BY HStep, DrawnStep DEF NInv
<1>2. CASE [Next]_vars
  BY <1>1, <1>2, IInvStep DEF NInv, HInv
<1>3. CASE RestartServer
  <2>1. Present' = {}
    BY <1>3 DEF RestartServer, Present
  <2>2. EntriesWellFormed' /\ ChallengesDistinct'
    BY <2>1 DEF EntriesWellFormed, ChallengesDistinct
  <2>3. QED
    BY <1>1, <2>2 DEF NInv, HInv, IInv
<1>4. CASE Elsewhere
  BY <1>1, <1>4 DEF Elsewhere, NInv, HInv, IInv, EntriesWellFormed, ChallengesDistinct, Present
<1>5. QED
  BY <1>2, <1>3, <1>4, ServerSteps DEF NInv

LEMMA NetworkBroadcasts ==
  ASSUME NInv, NInv', BroadcastOnlyLive, [HNext]_hvars
  PROVE  BroadcastOnlyLive'
<1>1. CASE [Next]_vars
  BY <1>1, BroadcastStep DEF NInv
<1>2. CASE RestartServer \/ Elsewhere
  <2>1. sent' = {}
    BY <1>2 DEF RestartServer, Elsewhere
  <2>2. QED
    BY <2>1 DEF BroadcastOnlyLive
<1>3. QED
  BY <1>1, <1>2, ServerSteps DEF NInv

LEMMA NetworkInvariant == HSpec => [](NInv /\ BroadcastOnlyLive)
<1>1. HInit => NInv /\ BroadcastOnlyLive
  <2>1. HInit => IInv /\ Drawn /\ BroadcastOnlyLive
    BY BoundsAssumption
    DEF HInit, Init, IInv, TypeOK, EntriesWellFormed, ChallengesDistinct, Present, Drawn,
        BroadcastOnlyLive
  <2>2. QED
    BY <2>1, HInit_HInv DEF NInv
<1>2. NInv /\ BroadcastOnlyLive /\ [HNext]_hvars => (NInv /\ BroadcastOnlyLive)'
  BY NetworkStep, NetworkBroadcasts
<1>3. QED
  BY <1>1, <1>2, PTL DEF HSpec

\* Whatever is lost, repeated, delayed or restarted: the map's entries, the challenges
\* and the broadcasts are as they are when packets reach the server one by one
\* (server.cpp:35-86, 148-244).
THEOREM CorrectOverNetwork == HSpec => [](EntriesWellFormed /\ ChallengesDistinct /\ BroadcastOnlyLive)
<1>1. NInv => EntriesWellFormed /\ ChallengesDistinct
  BY DEF NInv, IInv
<1>2. QED
  BY <1>1, NetworkInvariant, PTL

\* Whatever the network does to the datagrams, and whoever sends them from where: but
\* for the restarts of the server, each address goes through the sessions that module
\* Sessions promises, and a restart forgets them all at once (server.cpp:209-244).
KeepsSessions == [][Promise!Next \/ RestartServer]_(Promise!vars)

\* The sessions of the server alone are those of the composition
\* (server.cpp:209-244).
THEOREM SessionsOverNetwork == HSpec => KeepsSessions
<1>1. NInv /\ NInv' /\ BroadcastOnlyLive' /\ [HNext]_hvars
        => [Promise!Next \/ RestartServer]_(Promise!vars)
  <2> SUFFICES ASSUME NInv, NInv', BroadcastOnlyLive', [HNext]_hvars
               PROVE  [Promise!Next \/ RestartServer]_(Promise!vars)
    OBVIOUS
  <2>1. CASE [Next]_vars
    BY <2>1, SessionStep DEF NInv
  <2>2. CASE Elsewhere
    <3>1. Phases' = Phases /\ Fresh' = Fresh /\ Told' = {}
      BY <2>2 DEF Elsewhere, Phases, Fresh, Told, Present
    <3>2. QED
      BY <3>1 DEF Promise!Fade, Promise!Next
  <2>3. QED
    BY <2>1, <2>2, ServerSteps DEF NInv
<1>2. QED
  BY <1>1, NetworkInvariant, PTL DEF HSpec, KeepsSessions
=============================================================================
