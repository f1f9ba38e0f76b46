-------------------------- MODULE PlayerViewProofs --------------------------
(***************************************************************************)
(* What a player sees of the others (module PlayerView) is right after two *)
(* calm rounds, for every set of players and endpoints, every state and    *)
(* however long the wild part was.                                         *)
(***************************************************************************)
EXTENDS PlayerView, SequenceTheorems, FiniteSetTheorems, WellFoundedInduction, TLAPS

\* One process per guid, whose entries alone are left; from the first complete
\* round on all of them are there.
Settled ==
    stage # "wild" =>
       /\ \A a, b \in live : a # b => GuidAt[a] # GuidAt[b]
       /\ \A i \in DOMAIN room : room[i].at \in live
       /\ \A a \in heard : In(a)
       /\ stage # "hear" \/ rounds >= 1 => \A a \in live : In(a)
       /\ stage # "hear" => heard = {}

Counted ==
    /\ stage = "wild" => live = {} /\ heard = {} /\ rounds = 0
    /\ stage \in {"receive", "script"} => rounds < MaxRounds

\* A round's snapshot, and no other, arrives.
Delivered ==
    /\ stage = "receive" => flight = {Snapshot}
    /\ stage \in {"hear", "script"} => flight = {}
    /\ stage = "script" => infos = Snapshot /\ \A g \in DOMAIN state_ids : g \in Guids(infos)

\* After one round no id that was read is larger than the server's, and each state
\* that is heard makes the server's larger.
Ahead ==
    stage # "wild" /\ rounds >= 1 =>
       \A i \in DOMAIN room : room[i].guid \in DOMAIN state_ids =>
          /\ state_ids[room[i].guid] <= room[i].state_id
          /\ stage # "hear" \/ room[i].at \in heard => state_ids[room[i].guid] < room[i].state_id

Calm == Settled /\ Counted /\ Delivered /\ Ahead /\ TwoRoundsSuffice

IInv == TypeOK /\ Calm

-----------------------------------------------------------------------------
(* Sequences and sets *)

\* A function on 1 .. n is a sequence of length n.
LEMMA IsSequence ==
    ASSUME NEW n \in Nat, NEW T, NEW f \in [1 .. n -> T]
    PROVE  f \in Seq(T) /\ Len(f) = n
<1>1. f \in Seq(T)
  BY SeqDef
<1>2. DOMAIN f = 1 .. n /\ DOMAIN f = 1 .. Len(f) /\ Len(f) \in Nat
  BY <1>1, LenProperties
<1> QED
  BY <1>1, <1>2

\* What follows the first n elements.
LEMMA Rest ==
    ASSUME NEW T, NEW s \in Seq(T), NEW n \in 0 .. Len(s)
    PROVE  /\ SubSeq(s, n + 1, Len(s)) \in Seq(T)
           /\ Len(SubSeq(s, n + 1, Len(s))) = Len(s) - n
           /\ \A i \in 1 .. Len(s) - n : SubSeq(s, n + 1, Len(s))[i] = s[n + i]
<1>1. Len(s) \in Nat /\ n \in Nat /\ n <= Len(s)
  BY LenProperties
<1> QED
  BY <1>1, SubSeqProperties

\* A set of places in a sequence has a last one.
LEMMA LastOne ==
    ASSUME NEW n \in Nat, NEW T \in SUBSET (1 .. n), T # {}
    PROVE  \E x \in T : \A y \in T : y <= x
<1>0. \A x \in T : x \in Nat /\ n - x \in Nat
  OBVIOUS
<1> DEFINE Below == OpToRel(<, Nat)
           Back == {n - x : x \in T}
<1>1. IsWellFoundedOn(Below, Nat)
  BY NatLessThanWellFounded, Zenon
<1>2. ASSUME NEW x \in Nat, NEW y \in Nat, y < x PROVE <<y, x>> \in Below
  <2>1. <<y, x>> \in Nat \X Nat /\ <<y, x>>[1] = y /\ <<y, x>>[2] = x
    OBVIOUS
  <2>2. <<y, x>>[1] < <<y, x>>[2]
    BY <1>2, <2>1
  <2> QED
    BY <2>1, <2>2, Zenon DEF OpToRel
<1> HIDE DEF Below
<1>3. Back \subseteq Nat /\ Back # {}
  BY <1>0
<1>4. PICK m \in Back : \A y \in Back : <<y, m>> \notin Below
  BY <1>1, <1>3, WFMin
<1>5. PICK x \in T : m = n - x
  OBVIOUS
<1>6. ASSUME NEW y \in T, x < y PROVE FALSE
  <2>1. n - y \in Back /\ n - y \in Nat /\ m \in Nat /\ n - y < m
    BY <1>5, <1>6
  <2> QED
    BY <1>2, <1>4, <2>1
<1>7. \A y \in T : y <= x
  <2> SUFFICES ASSUME NEW y \in T PROVE y <= x
    OBVIOUS
  <2>1. x \in Nat /\ y \in Nat
    BY <1>0
  <2> QED
    BY <1>6, <2>1
<1> QED
  BY <1>7

-----------------------------------------------------------------------------
(* The room *)

\* What TypeOK says of the entries.
RoomTyped(r) ==
    /\ r \in Seq(Entry)
    /\ \A i, j \in 1 .. Len(r) : r[i].at = r[j].at => i = j
    /\ \A i \in 1 .. Len(r) : r[i].guid = GuidAt[r[i].at]

LEMMA RoomIsTyped == TypeOK => RoomTyped(room)
<1> SUFFICES ASSUME TypeOK PROVE RoomTyped(room)
  OBVIOUS
<1>1. room \in Seq(Entry) /\ DOMAIN room = 1 .. Len(room)
  BY LenProperties DEF TypeOK
<1>2. \A i, j \in DOMAIN room : room[i].at = room[j].at => i = j
  BY DEF TypeOK, IsInjective
<1> QED
  BY <1>1, <1>2 DEF TypeOK, RoomTyped

LEMMA TypedRoom ==
    ASSUME RoomTyped(room')
    PROVE  /\ room' \in Seq(Entry)
           /\ IsInjective([i \in DOMAIN room' |-> room'[i].at])
           /\ \A i \in DOMAIN room' : room'[i].guid = GuidAt[room'[i].at]
<1>1. room' \in Seq(Entry) /\ DOMAIN room' = 1 .. Len(room')
  BY LenProperties DEF RoomTyped
<1> QED
  BY <1>1 DEF RoomTyped, IsInjective

LEMMA EntryFields ==
    ASSUME RoomTyped(room)
    PROVE  /\ DOMAIN room = 1 .. Len(room) /\ Len(room) \in Nat
           /\ \A i \in 1 .. Len(room) :
                 /\ room[i] \in Entry /\ room[i].at \in Address /\ room[i].guid \in Guid
                 /\ room[i].state \in State /\ room[i].state_id \in Nat /\ room[i].state_id >= 1
<1>1. DOMAIN room = 1 .. Len(room) /\ Len(room) \in Nat
      /\ \A i \in 1 .. Len(room) : room[i] \in Entry
  BY LenProperties, ElementOfSeq DEF RoomTyped
<1> QED
  BY <1>1 DEF Entry, Ids

\* An update changes the state of one entry, and its id.
LEMMA Updated ==
    ASSUME RoomTyped(room), NEW a \in Address, NEW s \in State, Update(a, s)
    PROVE  /\ RoomTyped(room') /\ Len(room') = Len(room) /\ DOMAIN room' = DOMAIN room
           /\ \A i \in 1 .. Len(room) :
                 /\ room'[i].at = room[i].at /\ room'[i].guid = room[i].guid
                 /\ room[i].at # a => room'[i] = room[i]
                 /\ room[i].at = a => room'[i].state_id = room[i].state_id + 1
<1>1. /\ DOMAIN room = 1 .. Len(room) /\ Len(room) \in Nat
      /\ \A i \in 1 .. Len(room) : room[i] \in Entry /\ room[i].state_id \in Nat
  BY EntryFields
<1> DEFINE changed(e) == [e EXCEPT !.state = s, !.state_id = @ + 1]
<1>2. room' = [i \in 1 .. Len(room) |-> IF room[i].at = a THEN changed(room[i]) ELSE room[i]]
  BY <1>1 DEF Update
<1>3. ASSUME NEW e \in Entry
      PROVE  /\ changed(e) \in Entry /\ changed(e).at = e.at /\ changed(e).guid = e.guid
             /\ changed(e).state_id = e.state_id + 1
  <2>1. e.at \in Address /\ e.guid \in Guid /\ e.state_id + 1 \in Ids
    BY DEF Entry, Ids
  <2> DEFINE m == e.state_id + 1
  <2>2. changed(e) = [e EXCEPT !.state = s, !.state_id = m]
    OBVIOUS
  <2> HIDE DEF m
  <2>3. changed(e) \in Entry
    BY <2>1, <2>2 DEF Entry, m
  <2>4. changed(e).at = e.at /\ changed(e).guid = e.guid /\ changed(e).state_id = m
    BY <2>2 DEF Entry
  <2> QED
    BY <2>3, <2>4 DEF m
<1> HIDE DEF changed
<1>4. room' \in [1 .. Len(room) -> Entry]
  BY <1>1, <1>2, <1>3
<1>5. room' \in Seq(Entry) /\ Len(room') = Len(room) /\ DOMAIN room' = DOMAIN room
  BY <1>1, <1>4, IsSequence
<1>6. \A i \in 1 .. Len(room) :
         /\ room'[i].at = room[i].at /\ room'[i].guid = room[i].guid
         /\ room[i].at # a => room'[i] = room[i]
         /\ room[i].at = a => room'[i].state_id = room[i].state_id + 1
  BY <1>1, <1>2, <1>3
<1> QED
  BY <1>5, <1>6 DEF RoomTyped

\* Who is new is there, and so is everyone who was.
LEMMA Joined ==
    ASSUME RoomTyped(room), NEW a \in Address, NEW s \in State, NEW id \in Ids, Join(a, s, id)
    PROVE  /\ RoomTyped(room')
           /\ \A i \in DOMAIN room' : room'[i].at = a \/ In(room'[i].at)
           /\ \A b \in Address : b = a \/ In(b) => In(b)'
<1> DEFINE new == [at |-> a, guid |-> GuidAt[a], state |-> s, state_id |-> id]
           all == ToSet(room) \cup {new}
           n == Len(room) + 1
<1>1. /\ DOMAIN room = 1 .. Len(room) /\ Len(room) \in Nat
      /\ \A i \in 1 .. Len(room) : room[i] \in Entry
  BY EntryFields
<1>2. room' \in Bijection(1 .. n, all) /\ ~In(a)
  BY DEF Join
<1>3. new \in Entry /\ new.at = a /\ new.guid = GuidAt[a]
  BY DEF Entry, Guid
<1> HIDE DEF new
<1>4. \A e \in all : e = new \/ \E i \in 1 .. Len(room) : e = room[i]
  BY <1>1 DEF ToSet
<1>5. \A e \in all : e \in Entry /\ e.guid = GuidAt[e.at]
  BY <1>1, <1>3, <1>4 DEF RoomTyped
<1>6. \A e, f \in all : e.at = f.at => e = f
  BY <1>1, <1>2, <1>3, <1>4 DEF RoomTyped, In
<1>7. new \in all /\ \A i \in 1 .. Len(room) : room[i] \in all
  BY <1>1 DEF ToSet
<1> HIDE DEF all
<1>8. /\ room' \in [1 .. n -> all]
      /\ \A i, j \in 1 .. n : room'[i] = room'[j] => i = j
      /\ \A e \in all : \E i \in 1 .. n : room'[i] = e
  BY <1>2 DEF Bijection, Injection, Surjection, IsInjective
<1>9. room' \in Seq(Entry) /\ Len(room') = n /\ DOMAIN room' = 1 .. n
  <2>1. n \in Nat /\ room' \in [1 .. n -> Entry]
    BY <1>1, <1>5, <1>8
  <2> QED
    BY <2>1, IsSequence
<1> HIDE DEF n
<1>10. RoomTyped(room')
  <2>1. \A i \in 1 .. n : room'[i] \in all
    BY <1>8
  <2>2. \A i, j \in 1 .. n : room'[i].at = room'[j].at => i = j
    BY <1>6, <1>8, <2>1
  <2>3. \A i \in 1 .. n : room'[i].guid = GuidAt[room'[i].at]
    BY <1>5, <2>1
  <2> QED
    BY <1>9, <2>2, <2>3 DEF RoomTyped
<1>11. \A i \in DOMAIN room' : room'[i].at = a \/ In(room'[i].at)
  BY <1>1, <1>3, <1>4, <1>8, <1>9 DEF In
<1>12. ASSUME NEW b \in Address, b = a \/ In(b) PROVE In(b)'
  <2>1. PICK e \in all : e.at = b
    BY <1>1, <1>3, <1>7, <1>12 DEF In
  <2> QED
    BY <1>8, <1>9, <2>1 DEF In
<1> QED
  BY <1>10, <1>11, <1>12

LEMMA Dropped ==
    ASSUME RoomTyped(room), NEW a \in Address, Drop(a)
    PROVE  RoomTyped(room')
<1>1. /\ DOMAIN room = 1 .. Len(room) /\ Len(room) \in Nat
      /\ \A i \in 1 .. Len(room) : room[i] \in Entry
      /\ room \in Seq(Entry)
  BY EntryFields DEF RoomTyped
<1>2. PICK i \in 1 .. Len(room) : room' = SubSeq(room, 1, i - 1) \o SubSeq(room, i + 1, Len(room))
  BY <1>1 DEF Drop, RemoveAt
<1> DEFINE k == Len(room)
           front == SubSeq(room, 1, i - 1)
           rest == SubSeq(room, i + 1, k)
<1>3. front \in Seq(Entry) /\ Len(front) = i - 1 /\ \A j \in 1 .. i - 1 : front[j] = room[j]
  <2>1. i - 1 \in 0 .. k
    BY <1>1
  <2> QED
    BY <1>1, <2>1, SubSeqProperties
<1>4. rest \in Seq(Entry) /\ Len(rest) = k - i /\ \A j \in 1 .. k - i : rest[j] = room[i + j]
  <2>1. i \in 0 .. Len(room)
    BY <1>1
  <2> QED
    BY <1>1, <2>1, Rest
<1>5. room' = front \o rest
  BY <1>2
<1> HIDE DEF front, rest, k
<1>6. /\ room' \in Seq(Entry) /\ Len(room') = k - 1
      /\ \A j \in 1 .. k - 1 : room'[j] = IF j <= i - 1 THEN front[j] ELSE rest[j - (i - 1)]
  <2>1. /\ room' \in Seq(Entry) /\ Len(room') = Len(front) + Len(rest)
        /\ \A j \in 1 .. Len(front) + Len(rest) :
              room'[j] = IF j <= Len(front) THEN front[j] ELSE rest[j - Len(front)]
    BY <1>3, <1>4, <1>5, ConcatProperties
  <2>2. Len(front) + Len(rest) = k - 1
    BY <1>1, <1>3, <1>4 DEF k
  <2> QED
    BY <1>3, <2>1, <2>2
<1> DEFINE from(j) == IF j < i THEN j ELSE j + 1
<1>7. \A j \in 1 .. k - 1 : from(j) \in 1 .. k /\ room'[j] = room[from(j)]
  <2> SUFFICES ASSUME NEW j \in 1 .. k - 1
               PROVE  from(j) \in 1 .. k /\ room'[j] = room[from(j)]
    OBVIOUS
  <2>1. k \in Nat /\ i \in 1 .. k
    BY <1>1 DEF k
  <2>2. CASE j < i
    BY <1>3, <1>6, <2>1, <2>2
  <2>3. CASE ~(j < i)
    <3>1. j - (i - 1) \in 1 .. k - i /\ i + (j - (i - 1)) = j + 1 /\ ~(j <= i - 1)
      BY <2>1, <2>3
    <3>2. room'[j] = rest[j - (i - 1)]
      BY <1>6, <3>1
    <3>3. rest[j - (i - 1)] = room[i + (j - (i - 1))]
      BY <1>4, <3>1
    <3>4. room'[j] = room[j + 1]
      BY <3>1, <3>2, <3>3
    <3> QED
      BY <2>1, <2>3, <3>4
  <2> QED
    BY <2>2, <2>3
<1>8. \A j, l \in 1 .. k - 1 : from(j) = from(l) => j = l
  BY <1>1 DEF k
<1> HIDE DEF from
<1> QED
  BY <1>6, <1>7, <1>8 DEF RoomTyped, k

-----------------------------------------------------------------------------
(* The client *)

LEMMA SnapshotTyped ==
    ASSUME RoomTyped(room)
    PROVE  /\ Snapshot \in Seq(Known) /\ Len(Snapshot) = Len(room)
           /\ DOMAIN Snapshot = 1 .. Len(room)
           /\ \A i \in 1 .. Len(room) : Snapshot[i] = Info(room[i])
<1>1. /\ DOMAIN room = 1 .. Len(room) /\ Len(room) \in Nat
      /\ \A i \in 1 .. Len(room) : room[i] \in Entry
  BY EntryFields
<1>2. \A e \in Entry : Info(e) \in Known
  BY DEF Info, Entry, Known
<1>3. Snapshot \in [1 .. Len(room) -> Known]
  BY <1>1, <1>2 DEF Snapshot
<1> QED
  BY <1>1, <1>3, IsSequence DEF Snapshot

\* The observer is in no snapshot: all of it is taken.
LEMMA OthersAreAll ==
    ASSUME NEW ps \in Seq(Known)
    PROVE  Others(ps) = ps
<1> DEFINE n == Len(ps)
           left == {i \in DOMAIN ps : ps[i].guid # OwnGuid}
           Nth(k) == CHOOSE i \in left : Cardinality({j \in left : j <= i}) = k
<1>1. n \in Nat /\ DOMAIN ps = 1 .. n /\ \A i \in 1 .. n : ps[i] \in Known
  BY LenProperties, ElementOfSeq
<1>2. \A i \in 1 .. n : ps[i].guid # OwnGuid
  BY <1>1, ViewAssumption DEF Known, Guid
<1>3. left = 1 .. n
  BY <1>1, <1>2
<1>4. \A i \in 1 .. n : Cardinality({j \in left : j <= i}) = i
  <2> SUFFICES ASSUME NEW i \in 1 .. n PROVE Cardinality({j \in left : j <= i}) = i
    OBVIOUS
  <2>1. {j \in left : j <= i} = 1 .. i
    BY <1>1, <1>3
  <2>2. Cardinality(1 .. i) = i
    BY <1>1, FS_Interval
  <2> QED
    BY <2>1, <2>2
<1>5. \A k \in 1 .. n : Nth(k) = k
  BY <1>3, <1>4
<1>7. Others(ps) = [k \in 1 .. Cardinality(left) |-> ps[Nth(k)]]
  BY DEF Others, Kept
<1> HIDE DEF left
<1>6. Cardinality(left) = n
  <2>1. Cardinality(1 .. n) = IF 1 > n THEN 0 ELSE n - 1 + 1
    BY <1>1, FS_Interval
  <2>2. Cardinality(1 .. n) = n
    BY <1>1, <2>1
  <2> QED
    BY <1>3, <2>2
<1> HIDE DEF Nth
<1>8. Others(ps) = [k \in 1 .. n |-> ps[k]]
  BY <1>5, <1>6, <1>7
<1> QED
  BY <1>1, <1>8

\* An id that is remembered is the one of the last entry with that guid.
LEMMA Remembered ==
    ASSUME TypeOK
    PROVE  /\ DOMAIN ReadIds = DOMAIN state_ids \cup Guids(infos)
           /\ \A g \in Guids(infos) : \E i \in DOMAIN infos :
                 infos[i].guid = g /\ ReadIds[g] = infos[i].state_id
           /\ \A g \in DOMAIN state_ids : g \notin Guids(infos) => ReadIds[g] = state_ids[g]
<1>1. DOMAIN infos = 1 .. Len(infos) /\ Len(infos) \in Nat
  BY LenProperties DEF TypeOK
<1>2. ASSUME NEW g \in Guids(infos)
      PROVE  \E i \in DOMAIN infos : infos[i].guid = g /\ ReadIds[g] = infos[i].state_id
  <2> DEFINE mine == {i \in DOMAIN infos : infos[i].guid = g}
  <2>1. mine \in SUBSET (1 .. Len(infos)) /\ mine # {}
    BY <1>1, <1>2 DEF Guids
  <2>2. \E i \in mine : \A k \in mine : k <= i
    BY <1>1, <2>1, LastOne
  <2>3. ReadIds[g] = infos[CHOOSE i \in mine : \A k \in mine : k <= i].state_id
    BY <1>2 DEF ReadIds
  <2>4. (CHOOSE i \in mine : \A k \in mine : k <= i) \in mine
    BY <2>2
  <2> QED
    BY <2>3, <2>4
<1> QED
  BY <1>2 DEF ReadIds

\* What the script shows and remembers.
LEMMA FrameTyped ==
    ASSUME TypeOK, ScriptFrame
    PROVE  /\ infos' \in Seq(Known)
           /\ \A g \in DOMAIN state_ids' : state_ids'[g] \in Ids
           /\ npcs' \in Seq([guid : Guid \cup {OwnGuid}, state : State \cup {Blank}])
<1> DEFINE Npc == [guid : Guid \cup {OwnGuid}, state : State \cup {Blank}]
<1>1. /\ DOMAIN infos = 1 .. Len(infos) /\ Len(infos) \in Nat
      /\ \A i \in 1 .. Len(infos) : infos[i] \in Known
  BY LenProperties, ElementOfSeq DEF TypeOK
<1>2. /\ npcs' = [i \in DOMAIN infos |->
                    IF HasNewState(i) THEN Looks(i)
                    ELSE IF i \in DOMAIN npcs THEN npcs[i]
                    ELSE [guid |-> OwnGuid, state |-> Blank]]
      /\ state_ids' = ReadIds /\ infos' = infos
  BY DEF ScriptFrame
<1>3. \A i \in 1 .. Len(infos) : Looks(i) \in Npc
  BY <1>1 DEF Looks, Known
<1>4. \A i \in DOMAIN npcs : npcs[i] \in Npc
  <2>1. npcs \in Seq(Npc)
    BY DEF TypeOK
  <2> HIDE DEF Npc
  <2> QED
    BY <2>1, LenProperties, ElementOfSeq
<1>5. [guid |-> OwnGuid, state |-> Blank] \in Npc
  OBVIOUS
<1>6. npcs' \in [1 .. Len(infos) -> Npc]
  BY <1>1, <1>2, <1>3, <1>4, <1>5
<1>7. npcs' \in Seq(Npc)
  BY <1>1, <1>6, IsSequence
<1>8. \A g \in DOMAIN state_ids' : state_ids'[g] \in Ids
  <2> SUFFICES ASSUME NEW g \in DOMAIN ReadIds PROVE ReadIds[g] \in Ids
    BY <1>2
  <2>1. CASE g \in Guids(infos)
    <3>1. PICK i \in DOMAIN infos : ReadIds[g] = infos[i].state_id
      BY <2>1, Remembered
    <3> QED
      BY <1>1, <3>1 DEF Known
  <2>2. CASE g \notin Guids(infos)
    BY <2>2, Remembered DEF TypeOK
  <2> QED
    BY <2>1, <2>2
<1> QED
  BY <1>2, <1>7, <1>8 DEF TypeOK

LEMMA ReceivedTyped ==
    ASSUME TypeOK, NEW ps \in Seq(Known), Received(ps)
    PROVE  /\ infos' = ps /\ infos' \in Seq(Known)
           /\ \A g \in DOMAIN state_ids' : /\ g \in Guids(ps) /\ g \in DOMAIN state_ids
                                           /\ state_ids'[g] = state_ids[g]
           /\ \A g \in DOMAIN state_ids' : state_ids'[g] \in Ids
<1>1. infos' = ps /\ state_ids' = [g \in DOMAIN state_ids \cap Guids(infos') |-> state_ids[g]]
  BY OthersAreAll DEF Received, Restrict
<1>2. Guids(infos') = Guids(ps)
  BY <1>1
<1> QED
  BY <1>1, <1>2 DEF TypeOK

-----------------------------------------------------------------------------
(* Types *)

LEMMA TypesInitially == Init => TypeOK
<1> SUFFICES ASSUME Init PROVE TypeOK
  OBVIOUS
<1>1. /\ room = <<>> /\ flight = {} /\ infos = <<>> /\ state_ids = [g \in {} |-> 0]
      /\ npcs = <<>> /\ stage = "wild" /\ live = {} /\ heard = {} /\ rounds = 0
  BY DEF Init
<1>2. IsInjective([i \in DOMAIN room |-> room[i].at])
  BY <1>1 DEF IsInjective
<1>3. MaxRounds \in Nat
  BY ViewAssumption
<1> QED
  BY <1>1, <1>2, <1>3 DEF TypeOK

\* The room's part of TypeOK, and the others'.
LEMMA TypedAgain ==
    ASSUME RoomTyped(room'), \A ps \in flight' : ps \in Seq(Known), infos' \in Seq(Known),
           \A g \in DOMAIN state_ids' : state_ids'[g] \in Ids,
           npcs' \in Seq([guid : Guid \cup {OwnGuid}, state : State \cup {Blank}]),
           stage' \in {"wild", "hear", "receive", "script"},
           live' \subseteq Address, heard' \subseteq live', rounds' \in 0 .. MaxRounds
    PROVE  TypeOK'
  BY TypedRoom DEF TypeOK

LEMMA TypesStep == TypeOK /\ Counted /\ [Next]_vars => TypeOK'
<1> SUFFICES ASSUME TypeOK, Counted, [Next]_vars PROVE TypeOK'
  OBVIOUS
<1>1. /\ RoomTyped(room)
      /\ \A ps \in flight : ps \in Seq(Known)
      /\ infos \in Seq(Known)
      /\ \A g \in DOMAIN state_ids : state_ids[g] \in Ids
      /\ npcs \in Seq([guid : Guid \cup {OwnGuid}, state : State \cup {Blank}])
      /\ stage \in {"wild", "hear", "receive", "script"}
      /\ live \subseteq Address /\ heard \subseteq live /\ rounds \in 0 .. MaxRounds
  BY RoomIsTyped DEF TypeOK
<1>2. MaxId \in Nat \ {0} /\ MaxRounds \in Nat
  BY ViewAssumption
<1>3. ASSUME NEW ps \in flight \cup {Snapshot} PROVE ps \in Seq(Known)
  BY <1>1, SnapshotTyped
<1>4. CASE UNCHANGED vars
  BY <1>1, <1>4, TypedAgain DEF vars
<1>5. ASSUME NEW a \in Address, Hear(a) PROVE TypeOK'
  <2>1. PICK s \in State : Update(a, s) \/ \E id \in 1 .. MaxId : Join(a, s, id)
    BY <1>5 DEF Hear
  <2>2. RoomTyped(room')
    <3>1. \A id \in 1 .. MaxId : id \in Ids
      BY <1>2 DEF Ids
    <3> QED
      BY <1>1, <2>1, <3>1, Updated, Joined
  <2> QED
    BY <1>1, <1>5, <2>2, TypedAgain DEF Hear, Wild, view, calm
<1>6. ASSUME NEW a \in Address, TimeOut(a) PROVE TypeOK'
  <2>1. RoomTyped(room')
    BY <1>1, <1>6, Dropped DEF TimeOut
  <2> QED
    BY <1>1, <1>6, <2>1, TypedAgain DEF TimeOut, Wild, view, calm
<1>7. CASE RestartServer
  <2>1. room' = <<>>
    BY <1>7 DEF RestartServer
  <2>2. RoomTyped(room')
    BY <2>1 DEF RoomTyped
  <2> QED
    BY <1>1, <1>7, <2>2, TypedAgain DEF RestartServer, Wild, view, calm
<1>8. CASE Frame
  BY <1>1, <1>3, <1>8, TypedAgain DEF Frame, Broadcast, Wild, view, calm
<1>9. ASSUME NEW ps \in flight, Receive(ps) PROVE TypeOK'
  <2>1. infos' \in Seq(Known) /\ \A g \in DOMAIN state_ids' : state_ids'[g] \in Ids
    BY <1>1, <1>9, ReceivedTyped DEF Receive
  <2> QED
    BY <1>1, <1>9, <2>1, TypedAgain DEF Receive, Wild, calm
<1>10. CASE Script
  BY <1>1, <1>10, FrameTyped, TypedAgain DEF Script, Wild, calm
<1>11. CASE Settle
  <2>1. heard' = {} /\ rounds' = rounds /\ live' \subseteq Address
    BY <1>11 DEF Settle, Counted
  <2> QED
    BY <1>1, <1>11, <2>1, TypedAgain DEF Settle, view
<1>12. ASSUME NEW a \in live \ heard, CalmHear(a) PROVE TypeOK'
  <2>1. PICK s \in State : Update(a, s) \/ Join(a, s, 1)
    BY <1>12 DEF CalmHear
  <2>2. RoomTyped(room')
    BY <1>1, <2>1, Updated, Joined DEF Ids
  <2> QED
    BY <1>1, <1>12, <2>2, TypedAgain DEF CalmHear, view
<1>13. CASE CalmFrame
  BY <1>1, <1>3, <1>13, TypedAgain DEF CalmFrame, Broadcast, view
<1>14. CASE CalmReceive
  <2>1. PICK ps \in flight : Received(ps) /\ flight' = flight \ {ps}
    BY <1>14 DEF CalmReceive
  <2>2. infos' \in Seq(Known) /\ \A g \in DOMAIN state_ids' : state_ids'[g] \in Ids
    BY <1>1, <2>1, ReceivedTyped
  <2> QED
    BY <1>1, <1>14, <2>1, <2>2, TypedAgain DEF CalmReceive, calm
<1>15. CASE CalmScript
  <2>1. rounds' \in 0 .. MaxRounds
    BY <1>1, <1>2, <1>15 DEF CalmScript, Counted
  <2>2. /\ infos' \in Seq(Known)
        /\ \A g \in DOMAIN state_ids' : state_ids'[g] \in Ids
        /\ npcs' \in Seq([guid : Guid \cup {OwnGuid}, state : State \cup {Blank}])
    BY <1>15, FrameTyped DEF CalmScript
  <2> QED
    BY <1>1, <1>15, <2>1, <2>2, TypedAgain DEF CalmScript
<1> QED
  BY <1>4, <1>5, <1>6, <1>7, <1>8, <1>9, <1>10, <1>11, <1>12, <1>13, <1>14, <1>15 DEF Next

-----------------------------------------------------------------------------
(* Calm rounds *)

LEMMA InAndTyped ==
    ASSUME TypeOK
    PROVE  /\ RoomTyped(room) /\ DOMAIN room = 1 .. Len(room) /\ Len(room) \in Nat
           /\ rounds \in Nat
           /\ \A a : In(a) <=> \E i \in 1 .. Len(room) : room[i].at = a
<1>1. RoomTyped(room) /\ DOMAIN room = 1 .. Len(room) /\ Len(room) \in Nat
  BY RoomIsTyped, EntryFields
<1>2. rounds \in Nat
  BY DEF TypeOK
<1> QED
  BY <1>1, <1>2 DEF In

\* With one process per guid there is one entry per guid.
LEMMA OneEntryEach ==
    ASSUME TypeOK, Settled, stage # "wild",
           NEW i \in DOMAIN room, NEW j \in DOMAIN room, room[i].guid = room[j].guid
    PROVE  i = j
<1>1. room[i].at \in live /\ room[j].at \in live
  BY DEF Settled
<1>2. room[i].guid = GuidAt[room[i].at] /\ room[j].guid = GuidAt[room[j].at]
  BY DEF TypeOK
<1>3. room[i].at = room[j].at
  BY <1>1, <1>2 DEF Settled
<1> QED
  BY <1>3, InAndTyped DEF RoomTyped

LEMMA CalmInitially == Init => Calm
<1> SUFFICES ASSUME Init PROVE Calm
  OBVIOUS
<1>1. stage = "wild" /\ live = {} /\ heard = {} /\ rounds = 0
  BY DEF Init
<1> QED
  BY <1>1 DEF Calm, Settled, Counted, Delivered, Ahead, TwoRoundsSuffice

LEMMA StillWild ==
    ASSUME IInv, Wild
    PROVE  Calm'
<1>1. stage' = "wild" /\ live' = {} /\ heard' = {} /\ rounds' = 0
  BY DEF IInv, Calm, Counted, Wild, calm
<1> QED
  BY <1>1 DEF Calm, Settled, Counted, Delivered, Ahead, TwoRoundsSuffice

LEMMA CalmBegins ==
    ASSUME IInv, Settle
    PROVE  Calm'
<1>1. /\ heard' = {} /\ rounds' = 0 /\ stage' = "hear" /\ flight' = {} /\ room' = room
      /\ \A a, b \in live' : a # b => GuidAt[a] # GuidAt[b]
      /\ \A i \in DOMAIN room : room[i].at \in live'
  BY DEF IInv, Calm, Counted, Settle
<1> QED
  BY <1>1 DEF Calm, Settled, Counted, Delivered, Ahead, TwoRoundsSuffice

\* What is heard makes the server's ids larger than those that were read.
LEMMA CalmHeard ==
    ASSUME IInv, NEW a \in live \ heard, CalmHear(a)
    PROVE  Calm'
<1>1. /\ stage = "hear" /\ stage' = "hear" /\ flight' = flight /\ live' = live
      /\ rounds' = rounds /\ rounds < MaxRounds /\ heard' = heard \cup {a}
      /\ state_ids' = state_ids
  BY DEF CalmHear, view
<1>2. PICK s \in State : Update(a, s) \/ Join(a, s, 1)
  BY DEF CalmHear
<1>3. /\ TypeOK /\ RoomTyped(room) /\ DOMAIN room = 1 .. Len(room) /\ Len(room) \in Nat
      /\ rounds \in Nat /\ a \in Address
  BY InAndTyped DEF IInv, TypeOK
<1>4. /\ \A b, c \in live : b # c => GuidAt[b] # GuidAt[c]
      /\ \A i \in DOMAIN room : room[i].at \in live
      /\ \A b \in heard : In(b) /\ b \in Address
      /\ rounds >= 1 => \A b \in live : In(b)
  BY <1>1, <1>3 DEF IInv, Calm, Settled, TypeOK
<1>5. Counted' /\ Delivered' /\ TwoRoundsSuffice'
  BY <1>1 DEF IInv, Calm, Counted, Delivered, TwoRoundsSuffice
<1>6. CASE Update(a, s)
  <2>1. /\ DOMAIN room' = DOMAIN room
        /\ \A i \in DOMAIN room :
              /\ room'[i].at = room[i].at /\ room'[i].guid = room[i].guid
              /\ room[i].at # a => room'[i] = room[i]
              /\ room[i].at = a => room'[i].state_id = room[i].state_id + 1
    BY <1>3, <1>6, Updated
  <2>2. \A b : In(b)' <=> In(b)
    BY <2>1 DEF In
  <2>3. In(a)
    BY <1>6 DEF Update
  <2>4. Settled'
    BY <1>1, <1>4, <2>1, <2>2, <2>3 DEF Settled
  <2>5. Ahead'
    <3> SUFFICES ASSUME rounds >= 1, NEW i \in DOMAIN room,
                        room[i].guid \in DOMAIN state_ids
                 PROVE  /\ state_ids[room[i].guid] <= room'[i].state_id
                        /\ room[i].at \in heard \cup {a} =>
                              state_ids[room[i].guid] < room'[i].state_id
      BY <1>1, <2>1 DEF Ahead
    <3>1. /\ state_ids[room[i].guid] <= room[i].state_id
          /\ room[i].at \in heard => state_ids[room[i].guid] < room[i].state_id
      BY <1>1 DEF IInv, Calm, Ahead
    <3>2. state_ids[room[i].guid] \in Nat /\ room[i].state_id \in Nat
      BY <1>3, EntryFields DEF TypeOK, Ids
    <3>3. CASE room[i].at = a
      BY <2>1, <3>1, <3>2, <3>3
    <3>4. CASE room[i].at # a
      BY <2>1, <3>1, <3>4
    <3> QED
      BY <3>3, <3>4
  <2> QED
    BY <1>5, <2>4, <2>5 DEF Calm
<1>7. CASE Join(a, s, 1)
  <2>1. ~In(a)
    BY <1>7 DEF Join
  <2>2. rounds = 0
    BY <1>3, <1>4, <2>1
  <2>3. /\ \A i \in DOMAIN room' : room'[i].at = a \/ In(room'[i].at)
        /\ \A b \in Address : b = a \/ In(b) => In(b)'
    BY <1>3, <1>7, Joined DEF Ids
  <2>4. \A b : In(b) => b \in live
    BY <1>4 DEF In
  <2>5. Settled'
    BY <1>1, <1>3, <1>4, <2>2, <2>3, <2>4 DEF Settled
  <2>6. Ahead'
    BY <1>1, <2>2 DEF Ahead
  <2> QED
    BY <1>5, <2>5, <2>6 DEF Calm
<1> QED
  BY <1>2, <1>6, <1>7

LEMMA CalmSent ==
    ASSUME IInv, CalmFrame
    PROVE  Calm'
<1>1. /\ stage = "hear" /\ stage' = "receive" /\ heard = live /\ heard' = {} /\ live' = live
      /\ rounds' = rounds /\ rounds < MaxRounds /\ flight' = flight \cup {Snapshot}
      /\ room' = room /\ state_ids' = state_ids
  BY DEF CalmFrame, Broadcast, view
<1>2. flight = {} /\ Snapshot' = Snapshot
  BY <1>1 DEF IInv, Calm, Delivered, Snapshot
<1>3. \A b : In(b)' <=> In(b)
  BY <1>1 DEF In
<1>4. Settled'
  BY <1>1, <1>3 DEF IInv, Calm, Settled
<1>5. Ahead'
  BY <1>1 DEF IInv, Calm, Ahead, Settled
<1> QED
  BY <1>1, <1>2, <1>4, <1>5 DEF Calm, Counted, Delivered, TwoRoundsSuffice

LEMMA CalmReceived ==
    ASSUME IInv, CalmReceive
    PROVE  Calm'
<1>1. /\ stage = "receive" /\ stage' = "script" /\ heard' = heard /\ live' = live
      /\ rounds' = rounds /\ room' = room
  BY DEF CalmReceive, calm
<1>2. flight = {Snapshot} /\ rounds < MaxRounds
  BY <1>1 DEF IInv, Calm, Delivered, Counted
<1>3. Received(Snapshot) /\ flight' = {}
  BY <1>2 DEF CalmReceive
<1>4. Snapshot \in Seq(Known)
  BY RoomIsTyped, SnapshotTyped DEF IInv
<1>5. /\ infos' = Snapshot
      /\ \A g \in DOMAIN state_ids' : /\ g \in Guids(Snapshot) /\ g \in DOMAIN state_ids
                                      /\ state_ids'[g] = state_ids[g]
  BY <1>3, <1>4, ReceivedTyped DEF IInv
<1>6. Snapshot' = Snapshot /\ Guids(infos') = Guids(Snapshot)
  BY <1>1, <1>5 DEF Snapshot
<1>7. \A b : In(b)' <=> In(b)
  BY <1>1 DEF In
<1>8. Settled'
  BY <1>1, <1>7 DEF IInv, Calm, Settled
<1>9. Ahead'
  BY <1>1, <1>5 DEF IInv, Calm, Ahead
<1> QED
  BY <1>1, <1>2, <1>3, <1>5, <1>6, <1>8, <1>9
     DEF Calm, Counted, Delivered, TwoRoundsSuffice

\* What the script then knows of each player is the server's, and after the second
\* round it has shown each of them.
LEMMA CalmShown ==
    ASSUME IInv, CalmScript
    PROVE  Calm'
<1>1. /\ stage = "script" /\ stage' = "hear" /\ heard' = heard /\ live' = live
      /\ rounds' = rounds + 1 /\ room' = room /\ flight' = flight /\ ScriptFrame
  BY DEF CalmScript
<1>2. /\ infos = Snapshot /\ flight = {} /\ heard = {}
      /\ \A g \in DOMAIN state_ids : g \in Guids(infos)
  BY <1>1 DEF IInv, Calm, Delivered, Settled
<1>3. /\ TypeOK /\ RoomTyped(room) /\ DOMAIN room = 1 .. Len(room) /\ Len(room) \in Nat
      /\ rounds \in Nat
  BY InAndTyped DEF IInv
<1>4. /\ DOMAIN infos = DOMAIN room /\ Len(infos) = Len(room)
      /\ \A i \in DOMAIN room : infos[i] = Info(room[i])
  BY <1>2, <1>3, SnapshotTyped
<1>5. \A i \in DOMAIN room : /\ infos[i].guid = room[i].guid /\ infos[i].state = room[i].state
                             /\ infos[i].state_id = room[i].state_id
  BY <1>4 DEF Info
<1>6. \A i, j \in DOMAIN room : room[i].guid = room[j].guid => i = j
  BY <1>1, <1>3, OneEntryEach DEF IInv, Calm
<1>7. \A b : In(b)' <=> In(b)
  BY <1>1 DEF In
<1>8. Settled'
  BY <1>1, <1>2, <1>7 DEF IInv, Calm, Settled
<1>9. state_ids' = ReadIds /\ infos' = infos
  BY <1>1 DEF ScriptFrame
<1>10. Ahead'
  <2> SUFFICES ASSUME NEW i \in DOMAIN room
               PROVE  state_ids'[room[i].guid] <= room[i].state_id
    BY <1>1, <1>2 DEF Ahead
  <2>1. room[i].guid \in Guids(infos)
    BY <1>4, <1>5 DEF Guids
  <2>2. PICK k \in DOMAIN infos : infos[k].guid = room[i].guid
                                  /\ ReadIds[room[i].guid] = infos[k].state_id
    BY <1>3, <2>1, Remembered
  <2>3. k = i
    BY <1>4, <1>5, <1>6, <2>2
  <2>4. room[i].state_id \in Nat
    BY <1>3, EntryFields
  <2> QED
    BY <1>5, <1>9, <2>2, <2>3, <2>4
<1>11. ASSUME rounds' >= 2 PROVE Right'
  <2>1. \A i \in DOMAIN infos : HasNewState(i)
    <3> SUFFICES ASSUME NEW i \in DOMAIN room PROVE HasNewState(i)
      BY <1>4
    <3>1. Earlier(i) = {}
      <4>1. \A j \in 1 .. i - 1 : j \in DOMAIN room /\ j # i
        BY <1>3
      <4> QED
        BY <1>5, <1>6, <4>1 DEF Earlier
    <3>2. room[i].state_id \in Nat /\ room[i].state_id >= 1
      BY <1>3, EntryFields
    <3>3. rounds >= 1
      BY <1>1, <1>3, <1>11
    <3>4. room[i].guid \in DOMAIN state_ids => state_ids[room[i].guid] < room[i].state_id
      BY <1>1, <3>3 DEF IInv, Calm, Ahead
    <3>5. LastState(i) = IF room[i].guid \in DOMAIN state_ids THEN state_ids[room[i].guid] ELSE 0
      BY <1>5, <3>1 DEF LastState
    <3>6. CASE room[i].guid \in DOMAIN state_ids
      BY <1>5, <3>4, <3>5, <3>6, <3>2, <1>3 DEF HasNewState, TypeOK, Ids
    <3>7. CASE room[i].guid \notin DOMAIN state_ids
      BY <1>5, <3>5, <3>7, <3>2 DEF HasNewState
    <3> QED
      BY <3>6, <3>7
  <2>2. npcs' = [i \in DOMAIN infos |-> Looks(i)]
    BY <1>1, <2>1 DEF ScriptFrame
  <2>3. Len(npcs') = Len(infos)
    <3>1. DOMAIN infos = 1 .. Len(infos) /\ Len(infos) \in Nat
      BY <1>3, <1>4
    <3>2. npcs' \in [1 .. Len(infos) -> {Looks(i) : i \in DOMAIN infos}]
      BY <2>2, <3>1
    <3> QED
      BY <3>1, <3>2, IsSequence
  <2>4. \A i \in DOMAIN infos : npcs'[i] = Looks(i) /\ Looks(i)' = Looks(i)
    BY <1>9, <2>2 DEF Looks
  <2>5. \A i \in DOMAIN room : i \in DOMAIN npcs'
                               /\ npcs'[i] = [guid |-> room[i].guid, state |-> room[i].state]
    BY <1>4, <1>5, <2>2 DEF Looks
  <2> QED
    BY <1>1, <1>9, <2>3, <2>4, <2>5 DEF Right
<1> QED
  BY <1>1, <1>2, <1>8, <1>10, <1>11 DEF Calm, Counted, Delivered, TwoRoundsSuffice

LEMMA CalmStep == IInv /\ [Next]_vars => Calm'
<1> SUFFICES ASSUME IInv, [Next]_vars PROVE Calm'
  OBVIOUS
<1>1. CASE UNCHANGED vars
  BY <1>1 DEF vars, IInv, Calm, Settled, Counted, Delivered, Ahead, TwoRoundsSuffice, In, Guids,
              Snapshot, Right, Looks
<1>2. ASSUME \/ \E a \in Address : Hear(a) \/ TimeOut(a)
             \/ RestartServer \/ Frame \/ Script
             \/ \E ps \in flight : Receive(ps)
      PROVE  Calm'
  <2>1. Wild
    BY <1>2 DEF Hear, TimeOut, RestartServer, Frame, Script, Receive
  <2> QED
    BY <2>1, StillWild
<1> QED
  BY <1>1, <1>2, CalmBegins, CalmHeard, CalmSent, CalmReceived, CalmShown DEF Next

-----------------------------------------------------------------------------
(* Theorem *)

\* However the wild part ended, and for any players, endpoints and states: after two calm
\* rounds every character shows the player at its place in the list, as the server has it,
\* and every running player has its character (server.cpp:141-172,
\* scripting_experiments.cpp:284-432, w3mp.ws:90-251).
THEOREM RightAfterTwoRounds == Spec => []TwoRoundsSuffice
<1>1. Init => IInv
  BY TypesInitially, CalmInitially DEF IInv
<1>2. IInv /\ [Next]_vars => IInv'
  BY TypesStep, CalmStep DEF IInv, Calm
<1>3. IInv => TwoRoundsSuffice
  BY DEF IInv, Calm
<1> QED
  BY <1>1, <1>2, <1>3, PTL DEF Spec
=============================================================================
