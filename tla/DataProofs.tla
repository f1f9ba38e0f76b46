----------------------------- MODULE DataProofs ------------------------------
EXTENDS Data, SequenceTheorems, FiniteSetTheorems, WellFoundedInduction, TLAPS

-----------------------------------------------------------------------------
(* Numbers and sequences *)

\* A set of numbers that is not empty has a least one.
LEMMA LeastOne ==
    ASSUME NEW P \in SUBSET Nat, P # {}
    PROVE  \E x \in P : \A y \in P : x <= y
<1> DEFINE Below == OpToRel(<, Nat)
<1>1. IsWellFoundedOn(Below, Nat)
  BY NatLessThanWellFounded, Zenon
<1>2. ASSUME NEW x \in Nat, NEW y \in Nat, y < x PROVE <<y, x>> \in Below
  <2>1. <<y, x>> \in Nat \X Nat /\ <<y, x>>[1] = y /\ <<y, x>>[2] = x
    OBVIOUS
  <2>2. <<y, x>>[1] < <<y, x>>[2]
    BY <1>2, <2>1
  <2> QED
    BY <2>1, <2>2, Zenon DEF OpToRel
<1> HIDE DEF Below
<1>3. PICK x \in P : \A y \in P : <<y, x>> \notin Below
  BY <1>1, WFMin
<1>4. \A y \in P : ~(y < x)
  BY <1>2, <1>3
<1> QED
  BY <1>4

\* What holds at 0, and at each number up to n if it does at the one before.
LEMMA Upwards ==
    ASSUME NEW n \in Nat, NEW S, 0 \in S, \A i \in 1 .. n : i - 1 \in S => i \in S
    PROVE  \A i \in 0 .. n : i \in S
<1> SUFFICES ASSUME {i \in 0 .. n : i \notin S} # {} PROVE FALSE
  OBVIOUS
<1>1. {i \in 0 .. n : i \notin S} \in SUBSET Nat
  OBVIOUS
<1>2. PICK i \in {i \in 0 .. n : i \notin S} : \A j \in {j \in 0 .. n : j \notin S} : i <= j
  BY <1>1, LeastOne
<1>3. i - 1 \in 0 .. n /\ i - 1 \in S /\ i \in 1 .. n
  BY <1>2
<1> QED
  BY <1>2, <1>3

\* What a sequence is that is as long as n and has elements of P.
LEMMA Elements ==
    ASSUME NEW P, NEW s \in Seq(P)
    PROVE  Len(s) \in Nat /\ DOMAIN s = 1 .. Len(s) /\ \A i \in 1 .. Len(s) : s[i] \in P
  BY LenProperties, ElementOfSeq

\* A part of a sequence, also an empty one.
LEMMA Part ==
    ASSUME NEW P, NEW s \in Seq(P), NEW m \in Nat, NEW n \in Nat, m >= 1, n <= Len(s)
    PROVE  /\ SubSeq(s, m, n) \in Seq(P)
           /\ Len(SubSeq(s, m, n)) = IF m <= n THEN n - m + 1 ELSE 0
           /\ \A i \in 1 .. n - m + 1 : SubSeq(s, m, n)[i] = s[m + i - 1]
<1>1. \A i \in m .. n : s[i] \in P
  BY Elements
<1> QED
  BY <1>1, SubSeqProperties

\* What is in front of another sequence.
LEMMA Prefixes ==
    ASSUME NEW P, NEW s \in Seq(P), NEW t \in Seq(P)
    PROVE  W!IsPrefix(s, t) <=> Len(s) <= Len(t) /\ \A i \in 1 .. Len(s) : s[i] = t[i]
<1>1. Len(s) \in Nat /\ Len(t) \in Nat
  BY Elements
<1>2. ASSUME Len(s) <= Len(t)
      PROVE  SubSeq(s, 1, Len(s)) = SubSeq(t, 1, Len(s)) <=> \A i \in 1 .. Len(s) : s[i] = t[i]
  <2>1. /\ SubSeq(s, 1, Len(s)) \in Seq(P) /\ SubSeq(t, 1, Len(s)) \in Seq(P)
        /\ Len(SubSeq(s, 1, Len(s))) = Len(s) /\ Len(SubSeq(t, 1, Len(s))) = Len(s)
        /\ \A i \in 1 .. Len(s) : SubSeq(s, 1, Len(s))[i] = s[i] /\ SubSeq(t, 1, Len(s))[i] = t[i]
    <3>1. Len(s) - 1 + 1 = Len(s) /\ (~(1 <= Len(s)) => Len(s) = 0) /\ \A i \in 1 .. Len(s) : 1 + i - 1 = i
      BY <1>1
    <3>2. /\ SubSeq(s, 1, Len(s)) \in Seq(P)
          /\ Len(SubSeq(s, 1, Len(s))) = IF 1 <= Len(s) THEN Len(s) - 1 + 1 ELSE 0
          /\ \A i \in 1 .. Len(s) - 1 + 1 : SubSeq(s, 1, Len(s))[i] = s[1 + i - 1]
      BY <1>1, Part
    <3>3. /\ SubSeq(t, 1, Len(s)) \in Seq(P)
          /\ Len(SubSeq(t, 1, Len(s))) = IF 1 <= Len(s) THEN Len(s) - 1 + 1 ELSE 0
          /\ \A i \in 1 .. Len(s) - 1 + 1 : SubSeq(t, 1, Len(s))[i] = t[1 + i - 1]
      BY <1>1, <1>2, Part
    <3> QED
      BY <3>1, <3>2, <3>3
  <2>2. ASSUME \A i \in 1 .. Len(s) : s[i] = t[i]
        PROVE  SubSeq(s, 1, Len(s)) = SubSeq(t, 1, Len(s))
    BY <2>1, <2>2, SeqEqual
  <2> QED
    BY <2>1, <2>2
<1> QED
  BY <1>2 DEF W!IsPrefix

-----------------------------------------------------------------------------
(* Packets *)

\* 4 + 7 + 4 + 4 + 176 * 46 bytes fit.
LEMMA SnapshotsFit ==
    ASSUME NEW n \in Nat
    PROVE  W!UpTo46(n)
  BY DEF W!UpTo46, W!SnapshotSize, W!Received, W!BufferSize

\* The first separator.
LEMMA FirstSeparator ==
    ASSUME NEW s \in Seq(Nat)
    PROVE  W!Divider(s) = {d \in 1 .. Len(s) : /\ s[d] \in {W!Space, W!Newline}
                                               /\ \A i \in 1 .. d - 1 : s[i] \notin {W!Space, W!Newline}}
<1> DEFINE I == {i \in 1 .. Len(s) : s[i] \in {W!Space, W!Newline}}
<1>1. Len(s) \in Nat
  BY Elements
<1>2. W!Divider(s) = {IF I # {} THEN W!Min(I) ELSE 0} \ {0}
  BY DEF W!Divider, W!SelectInSeq
<1>3. CASE I = {}
  BY <1>1, <1>2, <1>3
<1>4. CASE I # {}
  <2>1. \E x \in I : \A y \in I : x <= y
    <3>1. I \in SUBSET Nat
      OBVIOUS
    <3> QED
      BY <3>1, <1>4, LeastOne
  <2>2. W!Min(I) \in I /\ \A y \in I : W!Min(I) <= y
    BY <2>1 DEF W!Min
  <2>3. W!Divider(s) = {W!Min(I)}
    <3>1. W!Min(I) \in {W!Min(I)} /\ W!Min(I) # 0
      BY <2>2
    <3>2. W!Divider(s) = {W!Min(I)} \ {0}
      BY <1>2, <1>4
    <3> HIDE DEF I
    <3> QED
      BY <3>1, <3>2
  <2>4. \A i \in 1 .. W!Min(I) - 1 : i \in 1 .. Len(s) /\ i \notin I
    BY <1>1, <2>2
  <2>5. \A d \in I : (\A i \in 1 .. d - 1 : i \notin I) => d = W!Min(I)
    BY <1>1, <2>2
  <2> QED
    BY <2>2, <2>3, <2>4, <2>5
<1> QED
  BY <1>3, <1>4

Separators == {W!Space, W!Newline}

\* Where a packet is a command, a separator and data: the last place of the command.
Ends(packet) ==
    {k \in 5 .. Len(packet) - 1 : /\ W!IsPrefix(W!Magic, packet)
                                  /\ packet[k + 1] \in Separators
                                  /\ \A i \in 5 .. k : packet[i] \notin Separators}

\* What is found of a packet that is divided there.
Divided(packet, k) ==
    [command |-> W!Lower(SubSeq(packet, 5, k)), data |-> SubSeq(packet, k + 2, Len(packet))]

LEMMA FourMarks == W!Magic \in Seq(Nat) /\ Len(W!Magic) = 4
  BY DEF W!Magic, W!Mark

LEMMA HandledIs ==
    ASSUME NEW packet \in Seq(Nat)
    PROVE  W!Handled(packet) = {Divided(packet, k) : k \in Ends(packet)}
<1> DEFINE L == Len(packet)
           s == SubSeq(packet, 5, L)
<1>1. L \in Nat /\ \A i \in 1 .. L : packet[i] \in Nat
  BY Elements
<1>2. CASE L < 5 \/ ~W!IsPrefix(W!Magic, packet)
  <2>1. W!Handled(packet) = {}
    BY <1>2, FourMarks DEF W!Handled
  <2>2. Ends(packet) = {}
    BY <1>1, <1>2 DEF Ends
  <2> QED
    BY <2>1, <2>2
<1>3. CASE L >= 5 /\ W!IsPrefix(W!Magic, packet)
  <2>1. /\ s \in Seq(Nat) /\ Len(s) = L - 4
        /\ \A i \in 1 .. L - 4 : s[i] = packet[i + 4]
    <3>1. /\ s \in Seq(Nat) /\ Len(s) = IF 5 <= L THEN L - 5 + 1 ELSE 0
          /\ \A i \in 1 .. L - 5 + 1 : s[i] = packet[5 + i - 1]
      BY <1>1, Part
    <3> QED
      BY <1>1, <1>3, <3>1
  <2> HIDE DEF s
  <2>2. W!Divider(s) = {d \in 1 .. L - 4 : /\ packet[d + 4] \in Separators
                                           /\ \A i \in 1 .. d - 1 : packet[i + 4] \notin Separators}
    <3>1. W!Divider(s) = {d \in 1 .. Len(s) : /\ s[d] \in Separators
                                              /\ \A i \in 1 .. d - 1 : s[i] \notin Separators}
      BY <2>1, FirstSeparator DEF Separators
    <3>2. \A d \in 1 .. L - 4 : \A i \in 1 .. d - 1 : i \in 1 .. L - 4
      BY <1>1
    <3> QED
      BY <2>1, <3>1, <3>2
  <2>3. \A d \in W!Divider(s) \ {1} : d + 3 \in Ends(packet)
    <3> SUFFICES ASSUME NEW d \in W!Divider(s) \ {1} PROVE d + 3 \in Ends(packet)
      OBVIOUS
    <3>1. d \in 2 .. L - 4 /\ packet[d + 4] \in Separators
          /\ \A i \in 1 .. d - 1 : packet[i + 4] \notin Separators
      BY <1>1, <2>2
    <3>2. ASSUME NEW i \in 5 .. d + 3 PROVE packet[i] \notin Separators
      <4>1. i - 4 \in 1 .. d - 1 /\ (i - 4) + 4 = i
        BY <1>1, <3>1
      <4> QED
        BY <3>1, <4>1
    <3>3. d + 3 \in 5 .. L - 1 /\ (d + 3) + 1 = d + 4
      BY <1>1, <3>1
    <3> QED
      BY <1>3, <3>1, <3>2, <3>3 DEF Ends
  <2>4. \A k \in Ends(packet) : k - 3 \in W!Divider(s) \ {1} /\ (k - 3) + 3 = k
    <3> SUFFICES ASSUME NEW k \in Ends(packet) PROVE k - 3 \in W!Divider(s) \ {1} /\ (k - 3) + 3 = k
      OBVIOUS
    <3>1. k \in 5 .. L - 1 /\ packet[k + 1] \in Separators /\ \A i \in 5 .. k : packet[i] \notin Separators
      BY DEF Ends
    <3>2. k - 3 \in 2 .. L - 4 /\ (k - 3) + 4 = k + 1 /\ (k - 3) + 3 = k
      BY <1>1, <3>1
    <3>3. \A i \in 1 .. (k - 3) - 1 : i + 4 \in 5 .. k
      BY <1>1, <3>1
    <3> QED
      BY <2>2, <3>1, <3>2, <3>3
  <2>5. ASSUME NEW d \in W!Divider(s) \ {1}
        PROVE  /\ SubSeq(s, 1, d - 1) = SubSeq(packet, 5, d + 3)
               /\ SubSeq(s, d + 1, Len(s)) = SubSeq(packet, d + 5, L)
    <3>1. d \in 2 .. L - 4
      BY <1>1, <2>2
    <3>2. \A m, n \in 1 .. L - 4 : SubSeq(s, m, n) = SubSeq(packet, m + 4, n + 4)
      <4> SUFFICES ASSUME NEW m \in 1 .. L - 4, NEW n \in 1 .. L - 4
                   PROVE  SubSeq(s, m, n) = SubSeq(packet, m + 4, n + 4)
        OBVIOUS
      <4>1. 5 \in 1 .. L /\ L \in 1 .. L /\ m \in 1 .. L - 5 + 1 /\ n \in 1 .. L - 5 + 1
        BY <1>1, <1>3
      <4>2. SubSeq(s, m, n) = SubSeq(packet, 5 + m - 1, 5 + n - 1)
        BY <4>1, SubSeqOfSubSeq DEF s
      <4>3. 5 + m - 1 = m + 4 /\ 5 + n - 1 = n + 4
        BY <1>1
      <4> QED
        BY <4>2, <4>3
    <3>3. SubSeq(s, 1, d - 1) = SubSeq(packet, 5, d + 3)
      <4>1. 1 \in 1 .. L - 4 /\ d - 1 \in 1 .. L - 4 /\ 1 + 4 = 5 /\ (d - 1) + 4 = d + 3
        BY <1>1, <1>3, <3>1
      <4>2. SubSeq(s, 1, d - 1) = SubSeq(packet, 1 + 4, (d - 1) + 4)
        BY <3>2, <4>1
      <4> QED
        BY <4>1, <4>2
    <3>4. SubSeq(s, d + 1, L - 4) = SubSeq(packet, d + 5, L)
      <4>1. CASE d < L - 4
        <5>1. d + 1 \in 1 .. L - 4 /\ L - 4 \in 1 .. L - 4 /\ (d + 1) + 4 = d + 5 /\ (L - 4) + 4 = L
          BY <1>1, <1>3, <3>1, <4>1
        <5>2. SubSeq(s, d + 1, L - 4) = SubSeq(packet, (d + 1) + 4, (L - 4) + 4)
          BY <3>2, <5>1
        <5> QED
          BY <5>1, <5>2
      <4>2. CASE d = L - 4
        <5>1. d + 1 \in Int /\ L - 4 \in Int /\ L - 4 < d + 1 /\ d + 5 \in Int /\ L \in Int /\ L < d + 5
          BY <1>1, <3>1, <4>2
        <5> QED
          BY <5>1, SubSeqEmpty
      <4> QED
        BY <1>1, <3>1, <4>1, <4>2
    <3> QED
      BY <2>1, <3>3, <3>4
  <2>6. W!Handled(packet) =
           {[command |-> W!Lower(SubSeq(s, 1, d - 1)), data |-> SubSeq(s, d + 1, Len(s))] :
              d \in W!Divider(s) \ {1}}
    <3> DEFINE Found(b) == {[command |-> W!Lower(SubSeq(b, 1, d - 1)), data |-> SubSeq(b, d + 1, Len(b))] :
                               d \in W!Divider(b) \ {1}}
    <3>1. Len(W!Magic) + 1 = 5 /\ ~(L < Len(W!Magic) + 1)
      BY <1>1, <1>3, FourMarks
    <3>2. W!Handled(packet) = Found(SubSeq(packet, Len(W!Magic) + 1, L))
      BY <1>3, <3>1 DEF W!Handled
    <3> HIDE DEF Found
    <3>3. W!Handled(packet) = Found(s)
      BY <3>1, <3>2 DEF s
    <3> QED
      BY <3>3 DEF Found
  <2>7. ASSUME NEW d \in W!Divider(s) \ {1}
        PROVE  [command |-> W!Lower(SubSeq(s, 1, d - 1)), data |-> SubSeq(s, d + 1, Len(s))]
               = Divided(packet, d + 3)
    <3>1. d \in Nat /\ (d + 3) + 2 = d + 5
      BY <1>1, <2>2
    <3> QED
      BY <2>5, <3>1 DEF Divided
  <2> DEFINE Found(d) == [command |-> W!Lower(SubSeq(s, 1, d - 1)), data |-> SubSeq(s, d + 1, Len(s))]
             D == W!Divider(s) \ {1}
  <2>8. W!Handled(packet) = {Found(d) : d \in D} /\ \A d \in D : Found(d) = Divided(packet, d + 3)
    BY <2>6, <2>7
  <2> HIDE DEF Found, D
  <2>9. \A d \in D : Found(d) \in {Divided(packet, k) : k \in Ends(packet)}
    BY <2>3, <2>8 DEF D
  <2>10. ASSUME NEW k \in Ends(packet) PROVE Divided(packet, k) \in {Found(d) : d \in D}
    <3>1. k - 3 \in D /\ Found(k - 3) = Divided(packet, (k - 3) + 3)
      BY <2>4, <2>8 DEF D
    <3> QED
      BY <2>4, <3>1
  <2> QED
    BY <2>8, <2>9, <2>10
<1> QED
  BY <1>1, <1>2, <1>3

\* Commands have no separators, so there is one place to divide a packet at.
LEMMA OneEnd ==
    ASSUME NEW packet \in Seq(Nat), NEW k \in Ends(packet), NEW l \in Ends(packet)
    PROVE  k = l
<1>1. Len(packet) \in Nat
  BY Elements
<1>2. /\ k \in 5 .. Len(packet) - 1 /\ packet[k + 1] \in Separators
      /\ \A i \in 5 .. k : packet[i] \notin Separators
  BY DEF Ends
<1>3. /\ l \in 5 .. Len(packet) - 1 /\ packet[l + 1] \in Separators
      /\ \A i \in 5 .. l : packet[i] \notin Separators
  BY DEF Ends
<1>4. ~(k < l)
  <2> SUFFICES ASSUME k < l PROVE FALSE
    OBVIOUS
  <2>1. k + 1 \in 5 .. l
    BY <1>1, <1>2, <1>3
  <2>2. packet[k + 1] \notin Separators
    BY <1>3, <2>1
  <2> QED
    BY <1>2, <2>2
<1>5. ~(l < k)
  <2> SUFFICES ASSUME l < k PROVE FALSE
    OBVIOUS
  <2>1. l + 1 \in 5 .. k
    BY <1>1, <1>2, <1>3
  <2>2. packet[l + 1] \notin Separators
    BY <1>2, <2>1
  <2> QED
    BY <1>3, <2>2
<1> QED
  BY <1>1, <1>2, <1>3, <1>4, <1>5

\* Put together again it is the packet.
LEMMA FramedAgain ==
    ASSUME NEW packet \in Seq(Nat), NEW k \in 5 .. Len(packet) - 1, W!IsPrefix(W!Magic, packet)
    PROVE  packet = W!Framed(SubSeq(packet, 5, k), packet[k + 1], SubSeq(packet, k + 2, Len(packet)))
<1> DEFINE L == Len(packet)
<1>1. L \in Nat /\ k \in Nat /\ 5 <= k /\ k + 1 <= L /\ \A i \in 1 .. L : packet[i] \in Nat
  BY Elements
<1>2. W!Magic = SubSeq(packet, 1, 4)
  BY <1>1, FourMarks DEF W!IsPrefix, W!Magic
<1>3. SubSeq(packet, 1, 4) \o SubSeq(packet, 5, k) = SubSeq(packet, 1, k)
  <2>1. 1 \in 1 .. L + 1 /\ 4 \in 1 - 1 .. L /\ k \in 4 .. L /\ 4 + 1 = 5
    BY <1>1
  <2> QED
    BY <2>1, ConcatAdjacentSubSeq
<1>4. <<packet[k + 1]>> = SubSeq(packet, k + 1, k + 1)
  <2>1. k + 1 \in 1 .. L /\ k + 1 \in k + 1 .. L /\ (k + 1) + 1 \in Int /\ k + 1 \in Int /\ k + 1 < (k + 1) + 1
    BY <1>1
  <2>2. SubSeq(packet, k + 1, k + 1) = <<packet[k + 1]>> \o SubSeq(packet, (k + 1) + 1, k + 1)
    BY <2>1, SubSeqRecursiveFirst
  <2>3. SubSeq(packet, (k + 1) + 1, k + 1) = <<>>
    BY <2>1, SubSeqEmpty
  <2>4. <<packet[k + 1]>> \in Seq(Nat)
    BY <1>1, <2>1
  <2> QED
    BY <2>2, <2>3, <2>4, ConcatEmptySeq
<1>5. SubSeq(packet, 1, k) \o SubSeq(packet, k + 1, k + 1) = SubSeq(packet, 1, k + 1)
  <2>1. 1 \in 1 .. L + 1 /\ k \in 1 - 1 .. L /\ k + 1 \in k .. L
    BY <1>1
  <2> QED
    BY <2>1, ConcatAdjacentSubSeq
<1>6. SubSeq(packet, 1, k + 1) \o SubSeq(packet, k + 2, L) = SubSeq(packet, 1, L)
  <2>1. 1 \in 1 .. L + 1 /\ k + 1 \in 1 - 1 .. L /\ L \in k + 1 .. L /\ (k + 1) + 1 = k + 2
    BY <1>1
  <2> QED
    BY <2>1, ConcatAdjacentSubSeq
<1>7. SubSeq(packet, 1, L) = packet
  BY SubSeqFull
<1>8. W!Framed(SubSeq(packet, 5, k), packet[k + 1], SubSeq(packet, k + 2, L))
      = W!Magic \o SubSeq(packet, 5, k) \o <<packet[k + 1]>> \o SubSeq(packet, k + 2, L)
  BY DEF W!Framed
<1> QED
  BY <1>2, <1>3, <1>4, <1>5, <1>6, <1>7, <1>8, Zenon

\* The characters of a command.
LEMMA CommandIs ==
    ASSUME NEW packet \in Seq(Nat), NEW k \in 5 .. Len(packet) - 1
    PROVE  {W!Space, W!Newline} \cap W!ToSet(SubSeq(packet, 5, k)) = {}
           <=> \A i \in 5 .. k : packet[i] \notin Separators
<1> DEFINE c == SubSeq(packet, 5, k)
<1>1. Len(packet) \in Nat /\ k \in Nat
  BY Elements
<1>2. DOMAIN c = 1 .. k - 4 /\ \A i \in 1 .. k - 4 : c[i] = packet[i + 4]
  <2>1. /\ c \in Seq(Nat) /\ Len(c) = IF 5 <= k THEN k - 5 + 1 ELSE 0
        /\ \A i \in 1 .. k - 5 + 1 : c[i] = packet[5 + i - 1]
    BY <1>1, Part
  <2>2. DOMAIN c = 1 .. Len(c)
    BY <2>1, Elements
  <2> QED
    BY <1>1, <2>1, <2>2
<1>3. \A i \in 5 .. k : i - 4 \in 1 .. k - 4 /\ (i - 4) + 4 = i
  BY <1>1
<1>4. \A i \in 1 .. k - 4 : i + 4 \in 5 .. k
  BY <1>1
<1> HIDE DEF c
<1>5. W!ToSet(c) = {packet[i] : i \in 5 .. k}
  <2>1. W!ToSet(c) = {c[i] : i \in 1 .. k - 4}
    BY <1>2 DEF W!ToSet
  <2>2. \A i \in 1 .. k - 4 : c[i] \in {packet[j] : j \in 5 .. k}
    BY <1>2, <1>4
  <2>3. \A j \in 5 .. k : packet[j] \in {c[i] : i \in 1 .. k - 4}
    BY <1>2, <1>3
  <2> QED
    BY <2>1, <2>2, <2>3
<1> QED
  BY <1>5 DEF Separators, c

LEMMA CommandsAreFound ==
    ASSUME NEW packet \in Seq(Nat)
    PROVE  W!HandsOnExactly(packet)
<1> DEFINE L == Len(packet)
           Command(k) == SubSeq(packet, 5, k)
<1>1. L \in Nat
  BY Elements
<1>2. ASSUME NEW h \in W!Handled(packet)
      PROVE  \E k \in 1 .. L, s \in {W!Space, W!Newline} :
                /\ packet = W!Framed(Command(k), s, h.data)
                /\ h.command = W!Lower(Command(k))
                /\ {W!Space, W!Newline} \cap W!ToSet(Command(k)) = {}
  <2>1. PICK k \in Ends(packet) : h = Divided(packet, k)
    BY <1>2, HandledIs
  <2>2. /\ k \in 5 .. L - 1 /\ W!IsPrefix(W!Magic, packet) /\ packet[k + 1] \in Separators
        /\ \A i \in 5 .. k : packet[i] \notin Separators
    BY <2>1 DEF Ends
  <2>3. packet = W!Framed(Command(k), packet[k + 1], h.data)
    BY <2>1, <2>2, FramedAgain DEF Divided
  <2>4. h.command = W!Lower(Command(k))
    BY <2>1 DEF Divided
  <2>5. {W!Space, W!Newline} \cap W!ToSet(Command(k)) = {}
    BY <2>2, CommandIs
  <2>6. k \in 1 .. L
    BY <1>1, <2>2
  <2> HIDE DEF Command
  <2> QED
    BY <2>2, <2>3, <2>4, <2>5, <2>6 DEF Separators
<1>3. ASSUME NEW k \in 5 .. L - 1, W!IsPrefix(W!Magic, packet),
             {W!Space, W!Newline} \cap W!ToSet(Command(k)) = {},
             packet[k + 1] \in {W!Space, W!Newline}
      PROVE  W!Handled(packet) = {Divided(packet, k)}
  <2>1. k \in Ends(packet)
    BY <1>3, CommandIs DEF Ends, Separators
  <2>2. \A l \in Ends(packet) : l = k
    BY <2>1, OneEnd
  <2> QED
    BY <2>1, <2>2, HandledIs
<1>4. Len(W!Magic) + 1 = 5
  BY FourMarks
<1> QED
  BY <1>2, <1>3, <1>4 DEF W!HandsOnExactly, Divided

-----------------------------------------------------------------------------
(* Messages *)

\* A digit has no second digit.
LEMMA OneDigit ==
    ASSUME NEW base \in Nat, NEW x \in Nat, x < base
    PROVE  x % base = x
  OBVIOUS

\* A number that is written is read back.
LEMMA Digits ==
    ASSUME NEW n \in W!Sizes
    PROVE  /\ W!Encode(n) \in Seq(Nat) /\ Len(W!Encode(n)) = 2
           /\ W!Decode(W!Encode(n)) = n
<1>1. Base \in Nat /\ Base >= 2
  BY SizesAssumption DEF W!SizesAssumption
<1>2. n \in 0 .. Base * Base - 1 /\ n \in Nat
  BY <1>1 DEF W!Sizes
<1>3. n % Base \in Nat /\ n \div Base \in Nat /\ (n % Base) + (n \div Base) * Base = n
  BY <1>1, <1>2
<1>4. n \div Base < Base
  BY <1>1, <1>2
<1>5. (n \div Base) % Base = n \div Base
  BY <1>1, <1>3, <1>4, OneDigit
<1> QED
  BY <1>3, <1>5 DEF W!Encode, W!Decode

Readers == [buffer : Seq(Nat), offset : Nat, fields : Seq(Seq(Nat)), thrown : BOOLEAN]

\* The first n bytes of s are read: if they reach as far as the reader has got, it has
\* found the fields, else it has thrown.
Reading(r, s, n, offset, fields) ==
    /\ r \in Readers
    /\ r.buffer = SubSeq(s, 1, n)
    /\ offset <= n => ~r.thrown /\ r.offset = offset /\ r.fields = fields
    /\ n < offset => r.thrown

\* Where in s the bytes are.
StandsAt(w, s, offset) ==
    offset + Len(w) <= Len(s) /\ \A i \in 1 .. Len(w) : s[offset + i] = w[i]

\* What one read does.
LEMMA ReadOnce ==
    ASSUME NEW r \in Readers, NEW k \in Nat
    PROVE  /\ W!Read(r, k) \in Readers
           /\ W!Read(r, k).buffer = r.buffer
           /\ IF r.thrown \/ r.offset + k > Len(r.buffer)
              THEN W!Read(r, k).thrown
              ELSE /\ ~W!Read(r, k).thrown
                   /\ W!Read(r, k).offset = r.offset + k
                   /\ W!Read(r, k).fields =
                         Append(r.fields, SubSeq(r.buffer, r.offset + 1, r.offset + k))
<1>1. r.buffer \in Seq(Nat) /\ r.offset \in Nat /\ r.fields \in Seq(Seq(Nat)) /\ r.thrown \in BOOLEAN
  BY DEF Readers
<1>2. CASE r.thrown \/ r.offset + k > Len(r.buffer)
  <2>1. W!Read(r, k) = [r EXCEPT !.thrown = TRUE]
    BY <1>2 DEF W!Read, W!Thrown
  <2> QED
    BY <1>2, <2>1 DEF Readers
<1>3. CASE ~(r.thrown \/ r.offset + k > Len(r.buffer))
  <2> DEFINE found == SubSeq(r.buffer, r.offset + 1, r.offset + k)
  <2>1. W!Read(r, k) = [r EXCEPT !.offset = @ + k, !.fields = Append(@, found)]
    BY <1>3 DEF W!Read
  <2>2. found \in Seq(Nat)
    <3>1. r.offset + 1 \in Nat /\ r.offset + k \in Nat /\ r.offset + 1 >= 1
          /\ r.offset + k <= Len(r.buffer)
      <4>1. Len(r.buffer) \in Nat
        BY <1>1, Elements
      <4> QED
        BY <1>1, <1>3, <4>1
    <3> QED
      BY <1>1, <3>1, Part
  <2> HIDE DEF found
  <2>3. Append(r.fields, found) \in Seq(Seq(Nat)) /\ r.offset + k \in Nat
    BY <1>1, <2>2, AppendProperties
  <2>4. /\ W!Read(r, k).offset = r.offset + k
        /\ W!Read(r, k).fields = Append(r.fields, found)
        /\ W!Read(r, k).thrown = r.thrown
        /\ W!Read(r, k).buffer = r.buffer
    BY <2>1 DEF Readers
  <2>5. W!Read(r, k) \in Readers
    BY <2>1, <2>3 DEF Readers
  <2> QED
    BY <1>3, <2>4, <2>5 DEF found
<1> QED
  BY <1>2, <1>3

\* What was written is taken as it is, or the reader throws.
LEMMA Taken ==
    ASSUME NEW s \in Seq(Nat), NEW n \in 0 .. Len(s), NEW offset \in Nat,
           NEW fields \in Seq(Seq(Nat)), NEW r, Reading(r, s, n, offset, fields),
           NEW w \in Seq(Nat), StandsAt(w, s, offset)
    PROVE  Reading(W!Read(r, Len(w)), s, n, offset + Len(w), Append(fields, w))
<1>1. Len(s) \in Nat /\ Len(w) \in Nat /\ n \in Nat /\ n <= Len(s) /\ offset + Len(w) <= Len(s)
  BY Elements DEF StandsAt
<1> DEFINE b == SubSeq(s, 1, n)
<1>2. b \in Seq(Nat) /\ Len(b) = n /\ \A i \in 1 .. n : b[i] = s[i]
  <2>1. /\ b \in Seq(Nat) /\ Len(b) = IF 1 <= n THEN n - 1 + 1 ELSE 0
        /\ \A i \in 1 .. n - 1 + 1 : b[i] = s[1 + i - 1]
    BY <1>1, Part
  <2> QED
    BY <1>1, <2>1
<1>3. r \in Readers /\ r.buffer = b
  BY DEF Reading
<1> HIDE DEF b
<1>4. W!Read(r, Len(w)) \in Readers /\ W!Read(r, Len(w)).buffer = b
  BY <1>1, <1>3, ReadOnce
<1>5. ASSUME n < offset + Len(w) PROVE W!Read(r, Len(w)).thrown
  <2>1. CASE n < offset
    <3>1. r.thrown
      BY <2>1 DEF Reading
    <3> QED
      BY <1>1, <1>3, <3>1, ReadOnce
  <2>2. CASE offset <= n
    <3>1. r.offset = offset
      BY <2>2 DEF Reading
    <3>2. r.offset + Len(w) > Len(r.buffer)
      BY <1>2, <1>3, <1>5, <3>1
    <3> QED
      BY <1>1, <1>3, <3>2, ReadOnce
  <2> QED
    BY <1>1, <2>1, <2>2
<1>6. ASSUME offset + Len(w) <= n
      PROVE  /\ ~W!Read(r, Len(w)).thrown
             /\ W!Read(r, Len(w)).offset = offset + Len(w)
             /\ W!Read(r, Len(w)).fields = Append(fields, w)
  <2>1. offset <= n /\ ~r.thrown /\ r.offset = offset /\ r.fields = fields
    BY <1>1, <1>6 DEF Reading
  <2>2. ~(r.thrown \/ r.offset + Len(w) > Len(r.buffer))
    BY <1>1, <1>2, <1>3, <1>6, <2>1
  <2>3. /\ ~W!Read(r, Len(w)).thrown
        /\ W!Read(r, Len(w)).offset = offset + Len(w)
        /\ W!Read(r, Len(w)).fields = Append(fields, SubSeq(b, offset + 1, offset + Len(w)))
    BY <1>1, <1>3, <2>1, <2>2, ReadOnce
  <2>4. SubSeq(b, offset + 1, offset + Len(w)) = w
    <3> DEFINE first == offset + 1
               last == offset + Len(w)
               found == SubSeq(b, first, last)
    <3>1. first \in Nat /\ last \in Nat /\ first >= 1 /\ last <= Len(b) /\ last - first + 1 = Len(w)
      BY <1>1, <1>2, <1>6
    <3>2. /\ found \in Seq(Nat)
          /\ Len(found) = IF first <= last THEN last - first + 1 ELSE 0
          /\ \A i \in 1 .. last - first + 1 : found[i] = b[first + i - 1]
      <4>1. first \in Nat /\ last \in Nat /\ first >= 1 /\ last <= Len(b) /\ b \in Seq(Nat)
        BY <1>2, <3>1
      <4> HIDE DEF first, last
      <4> QED
        BY <4>1, Part
    <3> HIDE DEF found
    <3>3. Len(found) = Len(w)
      BY <1>1, <3>2
    <3>4. ASSUME NEW i \in 1 .. Len(w) PROVE found[i] = w[i]
      <4>1. i \in 1 .. last - first + 1 /\ first + i - 1 = offset + i /\ offset + i \in 1 .. n
        BY <1>1, <1>6
      <4>2. found[i] = b[offset + i]
        BY <3>2, <4>1
      <4> QED
        BY <1>2, <4>1, <4>2 DEF StandsAt
    <3> QED
      BY <3>2, <3>3, <3>4, SeqEqual DEF found
  <2> QED
    BY <2>3, <2>4
<1> QED
  BY <1>1, <1>4, <1>5, <1>6 DEF Reading, b

\* A part of something that stands somewhere stands somewhere.
LEMMA PartsStand ==
    ASSUME NEW s \in Seq(Nat), NEW offset \in Nat, NEW v \in Seq(Nat), NEW w \in Seq(Nat),
           StandsAt(v \o w, s, offset)
    PROVE  StandsAt(v, s, offset) /\ StandsAt(w, s, offset + Len(v)) /\ Len(v \o w) = Len(v) + Len(w)
<1>1. Len(v) \in Nat /\ Len(w) \in Nat /\ Len(s) \in Nat
  BY Elements
<1>2. /\ Len(v \o w) = Len(v) + Len(w)
      /\ \A i \in 1 .. Len(v) + Len(w) :
            (v \o w)[i] = IF i <= Len(v) THEN v[i] ELSE w[i - Len(v)]
  BY ConcatProperties
<1>3. /\ offset + (Len(v) + Len(w)) <= Len(s)
      /\ \A i \in 1 .. Len(v) + Len(w) : s[offset + i] = (v \o w)[i]
  BY <1>2 DEF StandsAt
<1>4. ASSUME NEW i \in 1 .. Len(v) PROVE s[offset + i] = v[i]
  <2>1. i \in 1 .. Len(v) + Len(w) /\ i <= Len(v)
    BY <1>1
  <2>2. s[offset + i] = (v \o w)[i] /\ (v \o w)[i] = v[i]
    BY <1>2, <1>3, <2>1
  <2> QED
    BY <2>2
<1>5. ASSUME NEW i \in 1 .. Len(w) PROVE s[offset + Len(v) + i] = w[i]
  <2>1. Len(v) + i \in 1 .. Len(v) + Len(w) /\ ~(Len(v) + i <= Len(v)) /\ (Len(v) + i) - Len(v) = i
        /\ offset + Len(v) + i = offset + (Len(v) + i)
    BY <1>1
  <2>2. s[offset + (Len(v) + i)] = w[(Len(v) + i) - Len(v)]
    BY <1>2, <1>3, <2>1
  <2> QED
    BY <2>1, <2>2
<1> QED
  BY <1>1, <1>2, <1>3, <1>4, <1>5 DEF StandsAt

Kinds == {"plain", "string", "vector"}

Bytes(kind, f) == W!Written(kind, f)

LEMMA WrittenIs ==
    ASSUME NEW kind \in Kinds, NEW f \in Seq(Nat), W!Fits(kind, f)
    PROVE  /\ Bytes(kind, f) \in Seq(Nat)
           /\ kind = "plain" => Bytes(kind, f) = f /\ Len(f) = Item
           /\ kind # "plain" =>
                 \E c \in W!Sizes :
                    /\ Bytes(kind, f) = W!Encode(c) \o f
                    /\ c * (IF kind = "string" THEN 1 ELSE Item) = Len(f)
<1>1. Len(f) \in Nat /\ Item \in Nat \ {0}
  BY Elements, SizesAssumption DEF W!SizesAssumption
<1>2. CASE kind = "plain"
  BY <1>2 DEF Bytes, W!Written, W!Fits
<1>3. CASE kind = "string"
  <2>1. Len(f) \in W!Sizes /\ Bytes(kind, f) = W!Encode(Len(f)) \o f /\ Len(f) * 1 = Len(f)
    BY <1>1, <1>3 DEF Bytes, W!Written, W!Fits
  <2>2. Bytes(kind, f) \in Seq(Nat)
    BY <2>1, Digits, ConcatProperties
  <2> QED
    BY <1>3, <2>1, <2>2
<1>4. CASE kind = "vector"
  <2>1. /\ Len(f) \div Item \in W!Sizes /\ Len(f) % Item = 0
        /\ Bytes(kind, f) = W!Encode(Len(f) \div Item) \o f
    BY <1>4 DEF Bytes, W!Written, W!Fits
  <2>2. (Len(f) \div Item) * Item = Len(f)
    BY <1>1, <2>1
  <2>3. Bytes(kind, f) \in Seq(Nat)
    BY <2>1, Digits, ConcatProperties
  <2> QED
    BY <1>4, <2>1, <2>2, <2>3
<1> QED
  BY <1>2, <1>3, <1>4 DEF Kinds

\* A count and what it counts.
LEMMA CountedTaken ==
    ASSUME NEW s \in Seq(Nat), NEW n \in 0 .. Len(s), NEW offset \in Nat,
           NEW fields \in Seq(Seq(Nat)), NEW r, Reading(r, s, n, offset, fields),
           NEW f \in Seq(Nat), NEW c \in W!Sizes, NEW unit \in Nat, c * unit = Len(f),
           StandsAt(W!Encode(c) \o f, s, offset)
    PROVE  Reading(W!ReadCounted(r, unit), s, n, offset + (2 + Len(f)), Append(fields, f))
<1> DEFINE e == W!Encode(c)
           count == W!Read(r, W!Word)
           again == [count EXCEPT !.fields = r.fields]
<1>1. e \in Seq(Nat) /\ Len(e) = 2 /\ W!Decode(e) = c /\ W!Word = 2
  BY Digits DEF W!Word
<1>2. StandsAt(e \o f, s, offset)
  OBVIOUS
<1> HIDE DEF e
<1>3. StandsAt(e, s, offset) /\ StandsAt(f, s, offset + 2)
  <2>1. StandsAt(e, s, offset) /\ StandsAt(f, s, offset + Len(e))
    BY <1>1, <1>2, PartsStand
  <2> QED
    BY <1>1, <2>1
<1>4. Reading(count, s, n, offset + 2, Append(fields, e))
  <2>1. Reading(W!Read(r, Len(e)), s, n, offset + Len(e), Append(fields, e))
    BY <1>1, <1>3, Taken
  <2> QED
    BY <1>1, <2>1
<1> HIDE DEF count
<1>5. Len(f) \in Nat /\ n \in Nat
  BY Elements
<1>6. CASE n < offset + 2
  <2>1. count.thrown /\ count \in Readers /\ count.buffer = SubSeq(s, 1, n)
    BY <1>4, <1>6 DEF Reading
  <2>2. W!ReadCounted(r, unit) = count
    BY <2>1 DEF W!ReadCounted, count
  <2> QED
    BY <1>5, <1>6, <2>1, <2>2 DEF Reading
<1>7. CASE ~(n < offset + 2)
  <2>1. /\ count \in Readers /\ count.buffer = SubSeq(s, 1, n) /\ ~count.thrown
        /\ count.offset = offset + 2 /\ count.fields = Append(fields, e)
    BY <1>4, <1>5, <1>7 DEF Reading
  <2>2. r.fields = fields
    BY <1>5, <1>7 DEF Reading
  <2>3. W!Last(count.fields) = e
    BY <1>1, <2>1, AppendProperties DEF W!Last
  <2>4. W!ReadCounted(r, unit) = W!Read(again, Len(f))
    BY <1>1, <2>1, <2>3 DEF W!ReadCounted, count
  <2>5. /\ again \in Readers /\ again.buffer = count.buffer /\ again.thrown = count.thrown
        /\ again.offset = count.offset /\ again.fields = fields
    BY <2>1, <2>2 DEF Readers
  <2>6. Reading(again, s, n, offset + 2, fields)
    BY <1>5, <1>7, <2>1, <2>5 DEF Reading
  <2> HIDE DEF again
  <2>7. Reading(W!Read(again, Len(f)), s, n, (offset + 2) + Len(f), Append(fields, f))
    BY <1>3, <2>6, Taken
  <2> QED
    BY <1>5, <2>4, <2>7
<1> QED
  BY <1>6, <1>7

\* A part of a message.
LEMMA KindTaken ==
    ASSUME NEW s \in Seq(Nat), NEW n \in 0 .. Len(s), NEW offset \in Nat,
           NEW fields \in Seq(Seq(Nat)), NEW r, Reading(r, s, n, offset, fields),
           NEW kind \in Kinds, NEW f \in Seq(Nat), W!Fits(kind, f),
           StandsAt(Bytes(kind, f), s, offset)
    PROVE  Reading(W!ReadKind(r, kind), s, n, offset + Len(Bytes(kind, f)), Append(fields, f))
<1>1. CASE kind = "plain"
  <2>1. Bytes(kind, f) = f /\ Len(f) = Item
    BY <1>1, WrittenIs
  <2>2. W!ReadKind(r, kind) = W!Read(r, Item)
    BY <1>1 DEF W!ReadKind
  <2>3. Reading(W!Read(r, Len(f)), s, n, offset + Len(f), Append(fields, f))
    BY <2>1, Taken
  <2> QED
    BY <2>1, <2>2, <2>3
<1>2. CASE kind # "plain"
  <2> DEFINE unit == IF kind = "string" THEN 1 ELSE Item
  <2>1. PICK c \in W!Sizes : Bytes(kind, f) = W!Encode(c) \o f /\ c * unit = Len(f)
    BY <1>2, WrittenIs
  <2>2. W!ReadKind(r, kind) = W!ReadCounted(r, unit)
    BY <1>2 DEF W!ReadKind, Kinds
  <2>3. unit \in Nat
    BY SizesAssumption DEF W!SizesAssumption
  <2> HIDE DEF unit
  <2>4. Reading(W!ReadCounted(r, unit), s, n, offset + (2 + Len(f)), Append(fields, f))
    BY <2>1, <2>3, CountedTaken
  <2>5. Len(Bytes(kind, f)) = 2 + Len(f)
    <3>1. W!Encode(c) \in Seq(Nat) /\ Len(W!Encode(c)) = 2
      BY Digits
    <3>2. Len(W!Encode(c) \o f) = Len(W!Encode(c)) + Len(f)
      BY <3>1, ConcatProperties
    <3> QED
      BY <2>1, <3>1, <3>2
  <2> QED
    BY <2>2, <2>4, <2>5
<1> QED
  BY <1>1, <1>2

\* Sequences of one, two and three elements.
LEMMA One ==
    ASSUME NEW P, NEW a \in P
    PROVE  <<a>> \in Seq(P) /\ Append(<<>>, a) = <<a>>
<1>1. <<>> \in Seq(P) /\ <<a>> \in Seq(P)
  OBVIOUS
<1>2. Append(<<>>, a) \in Seq(P) /\ Len(Append(<<>>, a)) = 1 /\ Append(<<>>, a)[1] = a
  BY <1>1, AppendProperties
<1> QED
  BY <1>1, <1>2, SeqEqual

LEMMA Two ==
    ASSUME NEW P, NEW a \in P, NEW b \in P
    PROVE  /\ <<a, b>> \in Seq(P) /\ Append(<<a>>, b) = <<a, b>>
           /\ Tail(<<a, b>>) = <<b>> /\ Head(<<a, b>>) = a
<1>1. <<a>> \in Seq(P) /\ <<a, b>> \in Seq(P)
  OBVIOUS
<1>2. Append(<<a>>, b) = <<a, b>>
  <2>1. Append(<<a>>, b) \in Seq(P) /\ Len(Append(<<a>>, b)) = 2
        /\ \A i \in 1 .. 2 : Append(<<a>>, b)[i] = <<a, b>>[i]
    BY <1>1, AppendProperties
  <2> QED
    BY <1>1, <2>1, SeqEqual
<1> QED
  BY <1>1, <1>2

LEMMA Three ==
    ASSUME NEW a \in Seq(Nat), NEW b \in Seq(Nat), NEW c \in Seq(Nat)
    PROVE  /\ <<a, b, c>> \in Seq(Seq(Nat)) /\ Append(<<a, b>>, c) = <<a, b, c>>
           /\ Tail(<<a, b, c>>) = <<b, c>> /\ Head(<<a, b, c>>) = a
<1>1. <<a, b>> \in Seq(Seq(Nat)) /\ <<a, b, c>> \in Seq(Seq(Nat))
  OBVIOUS
<1>2. Append(<<a, b>>, c) = <<a, b, c>>
  <2>1. Append(<<a, b>>, c) \in Seq(Seq(Nat)) /\ Len(Append(<<a, b>>, c)) = 3
        /\ \A i \in 1 .. 3 : Append(<<a, b>>, c)[i] = <<a, b, c>>[i]
    BY <1>1, AppendProperties
  <2> QED
    BY <1>1, <2>1, SeqEqual
<1> QED
  BY <1>1, <1>2

\* The six bytes in front of a message.
LEMMA SixBytes ==
    ASSUME NEW P, NEW a \in P, NEW b \in P, NEW c \in P
    PROVE  <<a, a, a, a>> \o <<b>> \o <<c>> = <<a, a, a, a, b, c>>
<1> DEFINE four == <<a, a, a, a>>
           five == <<a, a, a, a, b>>
           six == <<a, a, a, a, b, c>>
<1>1. four \in Seq(P) /\ five \in Seq(P) /\ six \in Seq(P) /\ Len(four) = 4 /\ Len(five) = 5 /\ Len(six) = 6
  OBVIOUS
<1>2. /\ \A i \in 1 .. 4 : four[i] = five[i]
      /\ \A i \in 1 .. 5 : five[i] = six[i]
      /\ five[5] = b /\ six[6] = c
  OBVIOUS
<1> HIDE DEF four, five, six
<1>3. Append(four, b) = five
  <2>1. /\ Append(four, b) \in Seq(P) /\ Len(Append(four, b)) = 5
        /\ \A i \in 1 .. 4 : Append(four, b)[i] = four[i]
        /\ Append(four, b)[5] = b
    <3>1. /\ Append(four, b) \in Seq(P) /\ Len(Append(four, b)) = Len(four) + 1
          /\ \A i \in 1 .. Len(four) : Append(four, b)[i] = four[i]
          /\ Append(four, b)[Len(four) + 1] = b
      <4>1. four \in Seq(P)
        BY <1>1
      <4> QED
        BY <4>1, AppendProperties
    <3> QED
      BY <1>1, <3>1
  <2>2. \A i \in 1 .. 5 : Append(four, b)[i] = five[i]
    BY <1>2, <2>1
  <2> QED
    BY <1>1, <2>1, <2>2, SeqEqual
<1>4. Append(five, c) = six
  <2>1. /\ Append(five, c) \in Seq(P) /\ Len(Append(five, c)) = 6
        /\ \A i \in 1 .. 5 : Append(five, c)[i] = five[i]
        /\ Append(five, c)[6] = c
    <3>1. /\ Append(five, c) \in Seq(P) /\ Len(Append(five, c)) = Len(five) + 1
          /\ \A i \in 1 .. Len(five) : Append(five, c)[i] = five[i]
          /\ Append(five, c)[Len(five) + 1] = c
      <4>1. five \in Seq(P)
        BY <1>1
      <4> QED
        BY <4>1, AppendProperties
    <3> QED
      BY <1>1, <3>1
  <2>2. \A i \in 1 .. 6 : Append(five, c)[i] = six[i]
    BY <1>2, <2>1
  <2> QED
    BY <1>1, <2>1, <2>2, SeqEqual
<1>5. four \o <<b>> \o <<c>> = six
  BY <1>1, <1>3, <1>4, AppendIsConcat
<1> QED
  BY <1>5 DEF four, six

\* What a message consists of.
LEMMA MessageIs ==
    ASSUME NEW m, W!IsMessage(m)
    PROVE  /\ m.protocol \in W!Sizes /\ m.fields \in Seq(Seq(Nat))
           /\ m.kind \in DOMAIN W!Layout
           /\ m = [kind |-> m.kind, protocol |-> m.protocol, fields |-> m.fields]
           /\ W!Layout[m.kind][1] \in Kinds /\ m.fields[1] \in Seq(Nat)
           /\ W!Fits(W!Layout[m.kind][1], m.fields[1])
           /\ IF Len(W!Layout[m.kind]) = 2
              THEN /\ W!Layout[m.kind][2] \in Kinds /\ m.fields[2] \in Seq(Nat)
                   /\ W!Fits(W!Layout[m.kind][2], m.fields[2])
                   /\ m.fields = <<m.fields[1], m.fields[2]>>
              ELSE m.fields = <<m.fields[1]>>
<1> DEFINE l == W!Layout[m.kind]
<1>1. /\ m.protocol \in W!Sizes /\ m.fields \in Seq(Seq(Nat)) /\ m.kind \in DOMAIN W!Layout
      /\ m = [kind |-> m.kind, protocol |-> m.protocol, fields |-> m.fields]
      /\ Len(m.fields) = Len(l)
      /\ \A i \in DOMAIN m.fields : W!Fits(l[i], m.fields[i])
  BY DEF W!IsMessage
<1>2. l \in {<<"plain">>, <<"vector">>, <<"string">>, <<"string", "string">>}
  BY <1>1 DEF W!Layout
<1> HIDE DEF l
<1>3. DOMAIN m.fields = 1 .. Len(l) /\ \A i \in 1 .. Len(l) : m.fields[i] \in Seq(Nat)
  BY <1>1, Elements
<1>4. CASE Len(l) = 2
  <2>1. l[1] \in Kinds /\ l[2] \in Kinds
    BY <1>2, <1>4 DEF Kinds
  <2>2. m.fields = <<m.fields[1], m.fields[2]>>
    <3>1. <<m.fields[1], m.fields[2]>> \in Seq(Seq(Nat)) /\ Len(<<m.fields[1], m.fields[2]>>) = 2
      BY <1>3, <1>4
    <3>2. \A i \in 1 .. 2 : m.fields[i] = <<m.fields[1], m.fields[2]>>[i]
      OBVIOUS
    <3> QED
      BY <1>1, <1>4, <3>1, <3>2, SeqEqual
  <2> QED
    BY <1>1, <1>3, <1>4, <2>1, <2>2 DEF l
<1>5. CASE Len(l) # 2
  <2>1. l[1] \in Kinds /\ Len(l) = 1
    BY <1>2, <1>5 DEF Kinds
  <2>2. m.fields = <<m.fields[1]>>
    <3>1. <<m.fields[1]>> \in Seq(Seq(Nat)) /\ Len(<<m.fields[1]>>) = 1
      BY <1>3, <2>1
    <3>2. \A i \in 1 .. 1 : m.fields[i] = <<m.fields[1]>>[i]
      OBVIOUS
    <3> QED
      BY <1>1, <2>1, <3>1, <3>2, SeqEqual
  <2> QED
    BY <1>1, <1>3, <1>5, <2>1, <2>2 DEF l
<1> QED
  BY <1>4, <1>5

\* What is written are bytes: the protocol and one or two parts.
LEMMA SerializedIs ==
    ASSUME NEW m, W!IsMessage(m)
    PROVE  W!Serialized(m) \in Seq(Nat) /\ Len(W!Serialized(m)) \in Nat
<1> DEFINE l == W!Layout[m.kind]
           b1 == Bytes(l[1], m.fields[1])
           b2 == IF Len(l) = 2 THEN Bytes(l[2], m.fields[2]) ELSE <<>>
<1>1. b1 \in Seq(Nat) /\ b2 \in Seq(Nat)
  BY MessageIs, WrittenIs
<1>2. W!Serialized(m) = (W!Encode(m.protocol) \o b1) \o b2
  BY DEF W!Serialized, Bytes
<1>3. W!Encode(m.protocol) \in Seq(Nat)
  BY MessageIs, Digits
<1> HIDE DEF b1, b2
<1>4. W!Serialized(m) \in Seq(Nat)
  BY <1>1, <1>2, <1>3, ConcatProperties
<1> QED
  BY <1>4, Elements

\* The bytes of a message, taken one part after the other.
LEMMA MessageTaken ==
    ASSUME NEW m, W!IsMessage(m), NEW n \in 0 .. Len(W!Serialized(m))
    PROVE  /\ W!Serialized(m) \in Seq(Nat)
           /\ W!Understood(m.kind, SubSeq(W!Serialized(m), 1, n))
              = IF n = Len(W!Serialized(m)) /\ m.protocol = W!Protocol THEN {m} ELSE {}
<1> DEFINE l == W!Layout[m.kind]
           ser == W!Serialized(m)
           p == W!Encode(m.protocol)
           f1 == m.fields[1]
           f2 == m.fields[2]
           b1 == Bytes(l[1], f1)
           b2 == IF Len(l) = 2 THEN Bytes(l[2], f2) ELSE <<>>
           r0 == W!Reader(SubSeq(ser, 1, n))
           r1 == W!Read(r0, W!Word)
           r2 == W!ReadKind(r1, l[1])
           r3 == IF Len(l) = 2 THEN W!ReadKind(r2, l[2]) ELSE r2
<1>1. /\ m.protocol \in W!Sizes /\ m.fields \in Seq(Seq(Nat))
      /\ m = [kind |-> m.kind, protocol |-> m.protocol, fields |-> m.fields]
      /\ l[1] \in Kinds /\ f1 \in Seq(Nat) /\ W!Fits(l[1], f1)
      /\ Len(l) = 2 => l[2] \in Kinds /\ f2 \in Seq(Nat) /\ W!Fits(l[2], f2)
      /\ m.fields = IF Len(l) = 2 THEN <<f1, f2>> ELSE <<f1>>
  BY MessageIs
<1>2. p \in Seq(Nat) /\ Len(p) = 2 /\ W!Decode(p) = m.protocol
  BY <1>1, Digits
<1>3. b1 \in Seq(Nat) /\ b2 \in Seq(Nat)
  BY <1>1, WrittenIs
<1>4. ser = (p \o b1) \o b2
  BY DEF W!Serialized, Bytes
<1>6. W!Understood(m.kind, SubSeq(ser, 1, n))
      = IF r3.thrown \/ W!Decode(Head(r3.fields)) # W!Protocol
        THEN {} ELSE {[kind |-> m.kind, protocol |-> W!Protocol, fields |-> Tail(r3.fields)]}
  BY DEF W!Understood
<1>7. n \in 0 .. Len(ser)
  OBVIOUS
<1> HIDE DEF ser, p, l, f1, f2, b1, b2
<1>5. p \o b1 \in Seq(Nat) /\ ser \in Seq(Nat) /\ Len(p \o b1) = 2 + Len(b1)
      /\ Len(ser) = 2 + Len(b1) + Len(b2)
  <2>1. p \o b1 \in Seq(Nat) /\ Len(p \o b1) = 2 + Len(b1)
    <3>1. p \o b1 \in Seq(Nat) /\ Len(p \o b1) = Len(p) + Len(b1)
      BY <1>2, <1>3, ConcatProperties
    <3> QED
      BY <1>2, <3>1
  <2>2. (p \o b1) \o b2 \in Seq(Nat) /\ Len((p \o b1) \o b2) = Len(p \o b1) + Len(b2)
    BY <1>3, <2>1, ConcatProperties
  <2> QED
    BY <1>4, <2>1, <2>2
<1>8. Reading(r0, ser, n, 0, <<>>)
  <2>1. n \in Nat /\ 1 \in Nat /\ n <= Len(ser)
    BY <1>5, <1>7, Elements
  <2>2. SubSeq(ser, 1, n) \in Seq(Nat)
    <3>1. ser \in Seq(Nat) /\ 1 \in Nat /\ 1 >= 1
      BY <1>5
    <3> QED
      BY <2>1, <3>1, Part
  <2>3. r0 = [buffer |-> SubSeq(ser, 1, n), offset |-> 0, fields |-> <<>>, thrown |-> FALSE]
    BY DEF W!Reader
  <2>4. <<>> \in Seq(Seq(Nat))
    OBVIOUS
  <2> HIDE DEF r0
  <2> QED
    BY <2>1, <2>2, <2>3, <2>4 DEF Reading, Readers
<1>9. StandsAt((p \o b1) \o b2, ser, 0)
  BY <1>4, <1>5, Elements DEF StandsAt
<1> HIDE DEF r0
<1>10. /\ StandsAt(p, ser, 0)
       /\ StandsAt(b1, ser, 2)
       /\ StandsAt(b2, ser, 2 + Len(b1))
  <2>1. StandsAt(p \o b1, ser, 0) /\ StandsAt(b2, ser, 0 + Len(p \o b1))
    BY <1>3, <1>5, <1>9, PartsStand
  <2>2. StandsAt(p, ser, 0) /\ StandsAt(b1, ser, 0 + Len(p))
    BY <1>2, <1>3, <1>5, <2>1, PartsStand
  <2>3. 0 + Len(p) = 2 /\ 0 + Len(p \o b1) = 2 + Len(b1)
    BY <1>2, <1>3, <1>5, Elements
  <2> QED
    BY <2>1, <2>2, <2>3
<1>11. Reading(r1, ser, n, 2, <<p>>)
  <2>1. <<>> \in Seq(Seq(Nat)) /\ Append(<<>>, p) = <<p>>
    BY <1>2, One
  <2>2. Reading(W!Read(r0, Len(p)), ser, n, 0 + Len(p), Append(<<>>, p))
    BY <1>2, <1>5, <1>7, <1>8, <1>10, <2>1, Taken
  <2> QED
    BY <1>2, <2>1, <2>2 DEF W!Word
<1> HIDE DEF r1
<1>12. Reading(r2, ser, n, 2 + Len(b1), <<p, f1>>)
  <2>1. <<p>> \in Seq(Seq(Nat)) /\ Append(<<p>>, f1) = <<p, f1>>
    <3>1. p \in Seq(Nat) /\ f1 \in Seq(Nat)
      BY <1>1, <1>2
    <3> QED
      BY <3>1, One, Two
  <2>2. StandsAt(Bytes(l[1], f1), ser, 2)
    BY <1>10 DEF b1
  <2> QED
    BY <1>1, <1>5, <1>7, <1>11, <2>1, <2>2, KindTaken DEF b1
<1> HIDE DEF r2
<1>13. Reading(r3, ser, n, Len(ser), IF Len(l) = 2 THEN <<p, f1, f2>> ELSE <<p, f1>>)
  <2>1. CASE Len(l) = 2
    <3>1. <<p, f1>> \in Seq(Seq(Nat)) /\ Append(<<p, f1>>, f2) = <<p, f1, f2>>
      <4>1. p \in Seq(Nat) /\ f1 \in Seq(Nat) /\ f2 \in Seq(Nat)
        BY <1>1, <1>2, <2>1
      <4> QED
        BY <4>1, Two, Three
    <3>2. b2 = Bytes(l[2], f2) /\ 2 + Len(b1) \in Nat
      BY <1>3, <2>1, Elements DEF b2
    <3>3. StandsAt(Bytes(l[2], f2), ser, 2 + Len(b1))
      BY <1>10, <3>2
    <3>4. Reading(W!ReadKind(r2, l[2]), ser, n, 2 + Len(b1) + Len(Bytes(l[2], f2)), Append(<<p, f1>>, f2))
      BY <1>1, <1>5, <1>7, <1>12, <2>1, <3>1, <3>2, <3>3, KindTaken
    <3> QED
      BY <1>1, <1>5, <2>1, <3>1, <3>2, <3>4
  <2>2. CASE Len(l) # 2
    <3>1. Len(b2) = 0
      BY <2>2, EmptySeq DEF b2
    <3>2. Len(ser) = 2 + Len(b1)
      BY <1>3, <1>5, <3>1, Elements
    <3> QED
      BY <1>1, <1>12, <2>2, <3>1, <3>2
  <2> QED
    BY <2>1, <2>2
<1> HIDE DEF r3
<1>14. n \in Nat /\ Len(ser) \in Nat /\ n <= Len(ser)
  BY <1>5, <1>7, Elements
<1>15. CASE n < Len(ser)
  <2>1. r3.thrown
    BY <1>13, <1>15 DEF Reading
  <2>2. W!Understood(m.kind, SubSeq(ser, 1, n)) = {}
    BY <1>6, <2>1
  <2>3. n # Len(ser)
    BY <1>14, <1>15
  <2> QED
    BY <1>5, <2>2, <2>3 DEF ser
<1>16. CASE n = Len(ser)
  <2>1. ~r3.thrown /\ r3.fields = IF Len(l) = 2 THEN <<p, f1, f2>> ELSE <<p, f1>>
    BY <1>13, <1>14, <1>16 DEF Reading
  <2>2. Head(r3.fields) = p /\ Tail(r3.fields) = m.fields
    <3>1. CASE Len(l) = 2
      BY <1>1, <1>2, <2>1, <3>1, Three
    <3>2. CASE Len(l) # 2
      BY <1>1, <1>2, <2>1, <3>2, Two
    <3> QED
      BY <3>1, <3>2
  <2>3. m.protocol = W!Protocol =>
           [kind |-> m.kind, protocol |-> W!Protocol, fields |-> Tail(r3.fields)] = m
    BY <1>1, <2>2
  <2>4. W!Decode(Head(r3.fields)) = m.protocol
    BY <1>2, <2>2
  <2>5. W!Understood(m.kind, SubSeq(ser, 1, n)) = IF m.protocol = W!Protocol THEN {m} ELSE {}
    BY <1>6, <2>1, <2>3, <2>4
  <2> QED
    BY <1>5, <1>16, <2>5 DEF ser
<1> QED
  BY <1>14, <1>15, <1>16

\* A datagram that was cut short is not understood, a whole one is what was sent.
LEMMA MessagesArrive ==
    ASSUME NEW m, W!IsMessage(m)
    PROVE  W!WholeOrNotAtAll(m)
<1> DEFINE ser == W!Serialized(m)
           packet == W!Framed(<<W!Small>>, W!Space, ser)
           L == Len(packet)
<1>1. ser \in Seq(Nat) /\ Len(ser) \in Nat
  BY SerializedIs
<1> HIDE DEF ser
<1>2. /\ packet \in Seq(Nat) /\ L = 6 + Len(ser)
      /\ packet[1] = W!Mark /\ packet[2] = W!Mark /\ packet[3] = W!Mark /\ packet[4] = W!Mark
      /\ packet[5] = W!Small /\ packet[6] = W!Space
      /\ \A i \in 1 .. Len(ser) : packet[6 + i] = ser[i]
  <2> DEFINE front == <<W!Mark, W!Mark, W!Mark, W!Mark, W!Small, W!Space>>
  <2>1. W!Magic \o <<W!Small>> \o <<W!Space>> = front
    <3>1. W!Mark \in Nat /\ W!Small \in Nat /\ W!Space \in Nat
      BY DEF W!Mark, W!Small, W!Space
    <3> QED
      BY <3>1, SixBytes DEF W!Magic
  <2>2. packet = front \o ser
    BY <2>1 DEF W!Framed
  <2>3. front \in Seq(Nat) /\ Len(front) = 6
    BY DEF W!Mark, W!Small, W!Space
  <2> HIDE DEF packet
  <2>4. /\ packet \in Seq(Nat) /\ Len(packet) = 6 + Len(ser)
        /\ \A i \in 1 .. 6 + Len(ser) : packet[i] = IF i <= 6 THEN front[i] ELSE ser[i - 6]
    <3> HIDE DEF front
    <3>1. /\ front \o ser \in Seq(Nat) /\ Len(front \o ser) = Len(front) + Len(ser)
          /\ \A i \in 1 .. Len(front) + Len(ser) :
                (front \o ser)[i] = IF i <= Len(front) THEN front[i] ELSE ser[i - Len(front)]
      BY <1>1, <2>3, ConcatProperties
    <3> QED
      BY <2>2, <2>3, <3>1
  <2>5. \A i \in 1 .. 6 : packet[i] = front[i]
    <3>1. \A i \in 1 .. 6 : i \in 1 .. 6 + Len(ser) /\ i <= 6
      BY <1>1
    <3> HIDE DEF front
    <3> QED
      BY <2>4, <3>1
  <2>6. ASSUME NEW i \in 1 .. Len(ser) PROVE packet[6 + i] = ser[i]
    <3>1. 6 + i \in 1 .. 6 + Len(ser) /\ ~(6 + i <= 6) /\ (6 + i) - 6 = i
      BY <1>1
    <3> QED
      BY <2>4, <3>1
  <2>7. /\ front[1] = W!Mark /\ front[2] = W!Mark /\ front[3] = W!Mark /\ front[4] = W!Mark
        /\ front[5] = W!Small /\ front[6] = W!Space
    OBVIOUS
  <2> HIDE DEF front
  <2>8. /\ packet[1] = W!Mark /\ packet[2] = W!Mark /\ packet[3] = W!Mark /\ packet[4] = W!Mark
        /\ packet[5] = W!Small /\ packet[6] = W!Space
    BY <2>5, <2>7
  <2> QED
    BY <2>4, <2>6, <2>8
<1> HIDE DEF packet
<1>3. ASSUME NEW length \in 0 .. L
      PROVE  UNION {W!Understood(m.kind, h.data) : h \in W!Handled(SubSeq(packet, 1, length))}
             = IF length = L /\ m.protocol = W!Protocol THEN {m} ELSE {}
  <2> DEFINE cut == SubSeq(packet, 1, length)
  <2>1. cut \in Seq(Nat) /\ Len(cut) = length /\ \A i \in 1 .. length : cut[i] = packet[i]
    <3>1. length \in Nat /\ 1 \in Nat /\ length <= L
      BY <1>1, <1>2
    <3>2. /\ cut \in Seq(Nat)
          /\ Len(cut) = IF 1 <= length THEN length - 1 + 1 ELSE 0
          /\ \A i \in 1 .. length - 1 + 1 : cut[i] = packet[1 + i - 1]
      BY <1>2, <3>1, Part
    <3> QED
      BY <3>1, <3>2
  <2>2. SubSeq(cut, 7, length) = SubSeq(ser, 1, length - 6)
    <3> DEFINE a == SubSeq(cut, 7, length)
               b == SubSeq(ser, 1, length - 6)
    <3>1. CASE length < 7
      <4>1. a = <<>> /\ b = <<>>
        BY <1>2, <3>1, SubSeqEmpty
      <4> QED
        BY <4>1
    <3>2. CASE length >= 7
      <4>1. length \in Nat /\ length - 6 \in Nat /\ length - 6 <= Len(ser)
        BY <1>1, <1>2, <3>2
      <4>2. /\ a \in Seq(Nat)
            /\ Len(a) = IF 7 <= length THEN length - 7 + 1 ELSE 0
            /\ \A i \in 1 .. length - 7 + 1 : a[i] = cut[7 + i - 1]
        BY <2>1, <4>1, Part
      <4>3. /\ b \in Seq(Nat)
            /\ Len(b) = IF 1 <= length - 6 THEN (length - 6) - 1 + 1 ELSE 0
            /\ \A i \in 1 .. (length - 6) - 1 + 1 : b[i] = ser[1 + i - 1]
        BY <1>1, <4>1, Part
      <4> HIDE DEF a, b
      <4>4. Len(a) = length - 6 /\ Len(b) = length - 6
        BY <3>2, <4>1, <4>2, <4>3
      <4>5. ASSUME NEW i \in 1 .. length - 6 PROVE a[i] = b[i]
        <5>1. i \in 1 .. length - 7 + 1 /\ 7 + i - 1 = 6 + i /\ 6 + i \in 1 .. length
              /\ i \in 1 .. (length - 6) - 1 + 1 /\ 1 + i - 1 = i /\ i \in 1 .. Len(ser)
          BY <4>1
        <5> QED
          BY <1>2, <2>1, <4>2, <4>3, <5>1
      <4> QED
        BY <4>2, <4>3, <4>4, <4>5, SeqEqual DEF a, b
    <3> QED
      BY <3>1, <3>2
  <2> HIDE DEF cut
  <2>3. CASE length < 6
    <3>1. Ends(cut) = {}
      <4> SUFFICES ASSUME NEW k \in Ends(cut) PROVE FALSE
        OBVIOUS
      <4>1. k \in 5 .. length - 1
        BY <2>1 DEF Ends
      <4> QED
        BY <2>3, <4>1
    <3>2. W!Handled(cut) = {}
      BY <2>1, <3>1, HandledIs
    <3> QED
      BY <1>1, <1>2, <2>3, <3>2 DEF cut
  <2>4. CASE length >= 6
    <3>1. length \in Nat /\ length - 6 \in 0 .. Len(ser) /\ 1 \in 1 .. length /\ 2 \in 1 .. length
          /\ 3 \in 1 .. length /\ 4 \in 1 .. length /\ 5 \in 1 .. length /\ 6 \in 1 .. length
      BY <1>1, <1>2, <2>4
    <3>2. 5 \in Ends(cut)
      <4>1. W!IsPrefix(W!Magic, cut)
        <5>1. \A i \in 1 .. 4 : W!Magic[i] = W!Mark /\ cut[i] = W!Mark
          BY <1>2, <2>1, <3>1 DEF W!Magic
        <5>2. W!Magic \in Seq(Nat) /\ Len(W!Magic) = 4 /\ Len(W!Magic) <= Len(cut)
              /\ \A i \in 1 .. Len(W!Magic) : W!Magic[i] = cut[i]
          BY <2>1, <2>4, <5>1, FourMarks
        <5> QED
          BY <2>1, <5>2, Prefixes
      <4>2. cut[5 + 1] \in Separators /\ \A i \in 5 .. 5 : cut[i] \notin Separators
        BY <1>2, <2>1, <3>1 DEF Separators, W!Small, W!Space, W!Newline
      <4>3. 5 \in 5 .. Len(cut) - 1
        BY <2>1, <2>4, <3>1
      <4> QED
        BY <4>1, <4>2, <4>3 DEF Ends
    <3>3. W!Handled(cut) = {Divided(cut, 5)}
      <4>1. \A k \in Ends(cut) : k = 5
        BY <2>1, <3>2, OneEnd
      <4> QED
        BY <2>1, <3>2, <4>1, HandledIs
    <3>4. Divided(cut, 5).data = SubSeq(ser, 1, length - 6)
      BY <2>1, <2>2 DEF Divided
    <3>5. UNION {W!Understood(m.kind, h.data) : h \in W!Handled(cut)}
          = W!Understood(m.kind, SubSeq(ser, 1, length - 6))
      BY <3>3, <3>4
    <3>6. W!Understood(m.kind, SubSeq(ser, 1, length - 6))
          = IF length - 6 = Len(ser) /\ m.protocol = W!Protocol THEN {m} ELSE {}
      BY <3>1, MessageTaken DEF ser
    <3>7. length - 6 = Len(ser) <=> length = L
      BY <1>1, <1>2, <3>1
    <3> QED
      BY <3>5, <3>6, <3>7 DEF cut
  <2>5. length < 6 \/ length >= 6
    BY <1>1, <1>2
  <2> QED
    BY <2>3, <2>4, <2>5
<1> QED
  BY <1>3 DEF W!WholeOrNotAtAll, packet, ser

-----------------------------------------------------------------------------
(* Addresses *)

\* The three kinds of addresses.
LEMMA AddressIs ==
    ASSUME NEW a, A!IsAddress(a)
    PROVE  /\ a.family \in {"v4", "v6", "unspec"}
           /\ a.family = "v4" => a.ip \in [1 .. 4 -> 0 .. 255] /\ a.scope = 0
           /\ a.family = "v6" => a.ip \in Seq(Words)
           /\ a.family # "unspec" => a.port \in A!Ports
<1> DEFINE I == [1 .. 4 -> 0 .. 255]
<1>1. CASE a = A!Unspecified
  <2>1. a.family = "unspec"
    BY <1>1 DEF A!Unspecified
  <2> QED
    BY <2>1
<1>2. CASE a \in [family : {"v4"}, ip : I, port : A!Ports, scope : {0}]
  <2> HIDE DEF I
  <2>1. a.family = "v4" /\ a.ip \in I /\ a.port \in A!Ports /\ a.scope = 0
    BY <1>2
  <2> QED
    BY <2>1 DEF I
<1>3. CASE a \in [family : {"v6"}, ip : Seq(Words), port : A!Ports, scope : Nat]
  <2>1. a.family = "v6" /\ a.ip \in Seq(Words) /\ a.port \in A!Ports
    BY <1>3
  <2> QED
    BY <2>1
<1> QED
  BY <1>1, <1>2, <1>3, Zenon DEF A!IsAddress

\* An address has four fields; with another scope or port it has the same others.
LEMMA Fields ==
    ASSUME NEW a, A!IsAddress(a)
    PROVE  a = [family |-> a.family, ip |-> a.ip, port |-> a.port, scope |-> a.scope]
<1> DEFINE I == [1 .. 4 -> 0 .. 255]
<1>1. CASE a = A!Unspecified
  BY <1>1 DEF A!Unspecified
<1>2. CASE a \in [family : {"v4"}, ip : I, port : A!Ports, scope : {0}]
  <2> HIDE DEF I
  <2> QED
    BY <1>2
<1>3. CASE a \in [family : {"v6"}, ip : Seq(Words), port : A!Ports, scope : Nat]
  BY <1>3
<1> QED
  BY <1>1, <1>2, <1>3, Zenon DEF A!IsAddress

LEMMA Moved ==
    ASSUME NEW a, A!IsAddress(a), NEW t
    PROVE  /\ [a EXCEPT !.scope = t] = [family |-> a.family, ip |-> a.ip, port |-> a.port, scope |-> t]
           /\ [a EXCEPT !.port = t] = [family |-> a.family, ip |-> a.ip, port |-> t, scope |-> a.scope]
  BY Fields

\* Senders are found again, whatever link they are heard on.
LEMMA SendersAreFound ==
    ASSUME NEW a, NEW b, NEW c, A!IsAddress(a), A!IsAddress(b), A!IsAddress(c)
    PROVE  A!SendersAreKeys(a, b, c)
<1>1. a.family \in {"v4", "v6", "unspec"}
  BY AddressIs
<1>2. A!Equal(a, [a EXCEPT !.scope = b.scope]) <=> A!IsSupported(a)
  <2> DEFINE moved == [a EXCEPT !.scope = b.scope]
  <2>1. moved.family = a.family /\ moved.ip = a.ip /\ moved.port = a.port
    <3>1. moved = [family |-> a.family, ip |-> a.ip, port |-> a.port, scope |-> b.scope]
      BY Moved, Zenon
    <3> QED
      BY <3>1
  <2> HIDE DEF moved
  <2> QED
    BY <2>1 DEF A!Equal, A!GetPort
<1>3. A!Equal(a, b) => A!Equal(b, a) /\ A!HashOf(a) = A!HashOf(b)
  BY DEF A!Equal, A!HashOf, A!IsSupported
<1>4. A!Equal(a, b) /\ A!Equal(b, c) => A!Equal(a, c)
  BY DEF A!Equal, A!IsSupported
<1>5. ~A!IsSupported(a) => ~A!Equal(a, b) /\ ~A!Equal(b, a)
  BY DEF A!Equal, A!IsSupported
<1>6. A!IsSupported(a) => A!Equal(a, a)
  BY DEF A!Equal
<1> QED
  BY <1>2, <1>3, <1>4, <1>5, <1>6 DEF A!SendersAreKeys

\* The bytes in front are the intervals.
LEMMA LocalNetworks ==
    ASSUME NEW a, A!IsAddress(a)
    PROVE  A!LocalIsPrivate(a)
<1> DEFINE n == A!Net(a.ip[1], a.ip[2], a.ip[3])
<1> SUFFICES ASSUME a.family = "v4"
             PROVE  A!IsLocal(a) <=> \/ A!Net(10, 0, 0) <= n /\ n <= A!Net(10, 255, 255)
                                     \/ A!Net(172, 16, 0) <= n /\ n <= A!Net(172, 31, 255)
                                     \/ A!Net(192, 168, 0) <= n /\ n <= A!Net(192, 168, 255)
                                     \/ n = A!Net(127, 0, 0) /\ a.ip[4] = 1
  BY SMT DEF A!LocalIsPrivate
<1>1. a.ip \in [1 .. 4 -> 0 .. 255]
  BY AddressIs
<1>2. a.ip[1] \in 0 .. 255 /\ a.ip[2] \in 0 .. 255 /\ a.ip[3] \in 0 .. 255 /\ a.ip[4] \in 0 .. 255
  BY <1>1
<1>3. a.ip = <<127, 0, 0, 1>> <=> a.ip[1] = 127 /\ a.ip[2] = 0 /\ a.ip[3] = 0 /\ a.ip[4] = 1
  <2>1. <<127, 0, 0, 1>> \in [1 .. 4 -> 0 .. 255]
    OBVIOUS
  <2>2. ASSUME a.ip[1] = 127, a.ip[2] = 0, a.ip[3] = 0, a.ip[4] = 1 PROVE a.ip = <<127, 0, 0, 1>>
    <3>1. \A i \in 1 .. 4 : a.ip[i] = <<127, 0, 0, 1>>[i]
      BY <2>2
    <3> QED
      BY <1>1, <2>1, <3>1
  <2> QED
    BY <2>2
<1>4. A!IsLocal(a) <=> \/ a.ip[1] = 10
                       \/ a.ip[1] = 192 /\ a.ip[2] = 168
                       \/ a.ip[1] = 172 /\ 16 <= a.ip[2] /\ a.ip[2] < 32
                       \/ a.ip[1] = 127 /\ a.ip[2] = 0 /\ a.ip[3] = 0 /\ a.ip[4] = 1
  BY <1>3 DEF A!IsLocal
<1>5. /\ a.ip[1] = 10 <=> A!Net(10, 0, 0) <= n /\ n <= A!Net(10, 255, 255)
      /\ a.ip[1] = 172 /\ 16 <= a.ip[2] /\ a.ip[2] < 32
         <=> A!Net(172, 16, 0) <= n /\ n <= A!Net(172, 31, 255)
      /\ a.ip[1] = 192 /\ a.ip[2] = 168
         <=> A!Net(192, 168, 0) <= n /\ n <= A!Net(192, 168, 255)
      /\ a.ip[1] = 127 /\ a.ip[2] = 0 /\ a.ip[3] = 0 <=> n = A!Net(127, 0, 0)
  <2> DEFINE x == a.ip[1]
             y == a.ip[2]
             z == a.ip[3]
  <2>1. x \in 0 .. 255 /\ y \in 0 .. 255 /\ z \in 0 .. 255 /\ n = A!Net(x, y, z)
    BY <1>2
  <2> HIDE DEF x, y, z, n
  <2>2. /\ x = 10 <=> A!Net(10, 0, 0) <= A!Net(x, y, z) /\ A!Net(x, y, z) <= A!Net(10, 255, 255)
        /\ x = 172 /\ 16 <= y /\ y < 32
           <=> A!Net(172, 16, 0) <= A!Net(x, y, z) /\ A!Net(x, y, z) <= A!Net(172, 31, 255)
        /\ x = 192 /\ y = 168
           <=> A!Net(192, 168, 0) <= A!Net(x, y, z) /\ A!Net(x, y, z) <= A!Net(192, 168, 255)
        /\ x = 127 /\ y = 0 /\ z = 0 <=> A!Net(x, y, z) = A!Net(127, 0, 0)
    BY <2>1, SMT DEF A!Net
  <2> QED
    BY <2>1, <2>2 DEF x, y, z
<1> HIDE DEF n
<1> QED
  BY <1>4, <1>5, SMT

\* The last element, and those in front of it.
LEMMA FrontAndLast ==
    ASSUME NEW P, NEW s \in Seq(P), NEW e \in P
    PROVE  /\ Len(s \o <<e>>) = Len(s) + 1
           /\ A!Last(s \o <<e>>) = e /\ T!Last(s \o <<e>>) = e
           /\ A!Front(s \o <<e>>) = s /\ T!Front(s \o <<e>>) = s
<1> DEFINE t == Append(s, e)
<1>1. s \o <<e>> = t
  BY AppendIsConcat
<1>2. /\ t \in Seq(P) /\ Len(t) = Len(s) + 1 /\ Len(s) \in Nat
      /\ \A i \in 1 .. Len(s) : t[i] = s[i]
      /\ t[Len(s) + 1] = e
  BY AppendProperties, Elements
<1> HIDE DEF t
<1>3. A!Last(t) = e /\ T!Last(t) = e
  BY <1>2 DEF A!Last, T!Last
<1>4. A!Front(t) = s /\ T!Front(t) = s
  <2> DEFINE f == SubSeq(t, 1, Len(s))
  <2>1. A!Front(t) = f /\ T!Front(t) = f
    <3>1. Len(t) - 1 = Len(s)
      BY <1>2
    <3> QED
      BY <3>1 DEF A!Front, T!Front
  <2>2. /\ f \in Seq(P) /\ Len(f) = IF 1 <= Len(s) THEN Len(s) - 1 + 1 ELSE 0
        /\ \A i \in 1 .. Len(s) - 1 + 1 : f[i] = t[1 + i - 1]
    <3>1. 1 \in Nat /\ Len(s) \in Nat /\ 1 >= 1 /\ Len(s) <= Len(t) /\ t \in Seq(P)
      BY <1>2
    <3> QED
      BY <3>1, Part
  <2> HIDE DEF f
  <2>3. Len(f) = Len(s) /\ \A i \in 1 .. Len(s) : f[i] = s[i]
    <3>1. Len(s) - 1 + 1 = Len(s) /\ \A i \in 1 .. Len(s) : 1 + i - 1 = i
      BY <1>2
    <3> QED
      BY <1>2, <2>2, <3>1
  <2> QED
    BY <2>1, <2>2, <2>3, SeqEqual
<1> QED
  BY <1>1, <1>2, <1>3, <1>4

\* A known host has these addresses, without a port.
LEMMA KnownAddress ==
    ASSUME NEW host \in DOMAIN Known, NEW families, NEW r \in A!FirstOf(Known[host], families)
    PROVE  A!IsAddress(r) /\ A!IsSupported(r) /\ r.port = 0
<1>1. \A i \in DOMAIN Known[host] :
         A!IsAddress(Known[host][i]) /\ A!IsSupported(Known[host][i]) /\ Known[host][i].port = 0
  BY HostsAssumption DEF A!HostsAssumption
<1>2. PICK i \in DOMAIN Known[host] : r = Known[host][i]
  BY DEF A!FirstOf
<1> QED
  BY <1>1, <1>2

\* A port is written in sixteen bits.
LEMMA PortKept ==
    ASSUME NEW n \in A!Ports
    PROVE  n % 65536 = n
<1>1. A!LastPort \in Nat
  BY DEF A!LastPort
<1>2. n \in Nat /\ n <= A!LastPort
  BY <1>1 DEF A!Ports
<1>3. n \in Nat /\ n < 65536
  BY <1>2 DEF A!LastPort
<1> QED
  BY <1>3

\* An address with a port.
LEMMA PortIs ==
    ASSUME NEW a, A!IsSupported(a), NEW n \in Nat
    PROVE  A!SetPort(a, n) = {[a EXCEPT !.port = n % 65536]}
<1>1. a.family # "unspec"
  BY DEF A!IsSupported
<1> QED
  BY <1>1, SMT DEF A!SetPort

\* What a host is resolved to is the first of its addresses.
LEMMA Resolved ==
    ASSUME NEW host \in DOMAIN Known, NEW families
    PROVE  A!Resolve(A!Unspecified, host, families) = A!FirstOf(Known[host], families)
<1> DEFINE F == A!FirstOf(Known[host], families)
           Found == UNION {A!SetAddress(r, A!GetSize(r)) : r \in F}
<1>1. A!GetPort(A!Unspecified) = 0
  BY DEF A!GetPort, A!Unspecified
<1>2. A!Resolve(A!Unspecified, host, families) = UNION {A!SetPort(f, 0) : f \in Found}
  BY <1>1 DEF A!Resolve, A!ResolveMultiple
<1>3. ASSUME NEW r \in F PROVE A!SetAddress(r, A!GetSize(r)) = {r} /\ A!SetPort(r, 0) = {r}
  <2>1. A!IsAddress(r) /\ A!IsSupported(r) /\ r.port = 0
    BY KnownAddress
  <2>2. A!SetAddress(r, A!GetSize(r)) = {r}
    BY <2>1 DEF A!SetAddress, A!GetSize, A!IsSupported
  <2>3. [r EXCEPT !.port = 0] = r
    <3>1. r = [family |-> r.family, ip |-> r.ip, port |-> 0, scope |-> r.scope]
      BY <2>1, Fields
    <3>2. [r EXCEPT !.port = 0] = [family |-> r.family, ip |-> r.ip, port |-> 0, scope |-> r.scope]
      BY <2>1, Moved
    <3> QED
      BY <3>1, <3>2
  <2>4. A!SetPort(r, 0) = {[r EXCEPT !.port = 0 % 65536]} /\ 0 % 65536 = 0
    BY <2>1, PortIs, SMT
  <2> QED
    BY <2>2, <2>3, <2>4, SMT
<1> HIDE DEF F
<1>4. Found = F
  <2>1. \A r \in F : A!SetAddress(r, A!GetSize(r)) = {r}
    BY <1>3
  <2> QED
    BY <2>1, SMT
<1> HIDE DEF Found
<1>5. UNION {A!SetPort(f, 0) : f \in F} = F
  <2>1. \A f \in F : A!SetPort(f, 0) = {f}
    BY <1>3
  <2> QED
    BY <2>1, SMT
<1> QED
  BY <1>2, <1>4, <1>5 DEF F

\* A host that is not known is nowhere.
LEMMA NotResolved ==
    ASSUME NEW host, host \notin DOMAIN Known, NEW families
    PROVE  A!Resolve(A!Unspecified, host, families) = {}
<1>1. A!FirstOf(<<>>, families) = {}
  BY DEF A!FirstOf
<1> QED
  BY <1>1 DEF A!Resolve, A!ResolveMultiple

\* A number that stands in a text is read as itself.
LEMMA NumberRead ==
    ASSUME NEW n \in Numbers
    PROVE  A!Atoi(Decimal[n]) = n /\ n \in Nat
<1>1. \A m \in Numbers : Decimal[m] = Decimal[n] => m = n
  BY HostsAssumption DEF A!HostsAssumption
<1>2. Numbers \subseteq Nat
  BY HostsAssumption DEF A!HostsAssumption
<1> QED
  BY <1>1, <1>2 DEF A!Atoi

\* A known host with a number behind it.
LEMMA Parsed ==
    ASSUME NEW host \in DOMAIN Known, NEW n \in Numbers, NEW families
    PROVE  A!Parse(host \o <<Decimal[n]>>, families)
           = {[r EXCEPT !.port = n % 65536] : r \in A!FirstOf(Known[host], families)}
<1> DEFINE text == host \o <<Decimal[n]>>
           F == A!FirstOf(Known[host], families)
<1>1. host \in Seq(Words) /\ host # <<>>
  BY HostsAssumption DEF A!HostsAssumption
<1>2. Len(text) # 1 /\ A!Last(text) = Decimal[n] /\ A!Front(text) = host
  <2> DEFINE P == Words \cup {Decimal[n]}
  <2>1. host \in Seq(P) /\ Decimal[n] \in P
    BY <1>1, SeqMonotonic
  <2> HIDE DEF P
  <2>2. Len(text) = Len(host) + 1 /\ A!Last(text) = Decimal[n] /\ A!Front(text) = host
    BY <2>1, FrontAndLast
  <2>3. Len(host) \in Nat /\ Len(host) # 0
    BY <1>1, EmptySeq, Elements
  <2> QED
    BY <2>2, <2>3
<1> HIDE DEF text
<1>3. A!Parse(text, families) = UNION {A!SetPort(r, n) : r \in F}
  <2>1. A!Parse(text, families)
        = UNION {A!SetPort(r, A!Atoi(A!Last(text))) : r \in A!Resolve(A!Unspecified, A!Front(text), families)}
    BY <1>2 DEF A!Parse
  <2> QED
    BY <1>2, <2>1, NumberRead, Resolved
<1>4. \A r \in F : A!SetPort(r, n) = {[r EXCEPT !.port = n % 65536]}
  BY KnownAddress, PortIs, NumberRead, SMT
<1> HIDE DEF F
<1>5. UNION {A!SetPort(r, n) : r \in F} = {[r EXCEPT !.port = n % 65536] : r \in F}
  BY <1>4, SMT
<1> QED
  BY <1>3, <1>5, SMT DEF text, F

LEMMA TextsNameAddresses ==
    ASSUME NEW a \in Endpoints, NEW families
    PROVE  A!TextsName(a, families)
<1>1. A!IsAddress(a) /\ (a.family = "v4" => a.ip \in DOMAIN Ipv4Text /\ a.port \in Numbers)
  BY EndpointsAssumption
<1>2. ASSUME a.family = "v4" PROVE A!Parse(A!TextOf(a), {"v4"}) = {a}
  <2> DEFINE host == <<Ipv4Text[a.ip]>>
  <2>1. host \in DOMAIN Known /\ A!FirstOf(Known[host], {"v4"}) = {A!SetIpv4(a.ip)}
    BY <1>1, <1>2, HostsAssumption DEF A!HostsAssumption
  <2>2. A!TextOf(a) = host \o <<Decimal[a.port]>>
    <3>1. A!TextOf(a) = <<Ipv4Text[a.ip], Decimal[a.port]>>
      BY <1>2 DEF A!TextOf, A!GetPort
    <3> DEFINE P == {Ipv4Text[a.ip], Decimal[a.port]}
    <3>2. Append(host, Decimal[a.port]) = <<Ipv4Text[a.ip], Decimal[a.port]>>
          /\ host \in Seq(P) /\ Decimal[a.port] \in P
      <4>1. Ipv4Text[a.ip] \in P /\ Decimal[a.port] \in P
        OBVIOUS
      <4> HIDE DEF P
      <4> QED
        BY <4>1, One, Two
    <3> QED
      BY <3>1, <3>2, AppendIsConcat
  <2> HIDE DEF host
  <2>3. A!Parse(A!TextOf(a), {"v4"}) = {[r EXCEPT !.port = a.port % 65536] : r \in {A!SetIpv4(a.ip)}}
    <3>1. a.port \in Numbers
      BY <1>1, <1>2
    <3>2. A!Parse(host \o <<Decimal[a.port]>>, {"v4"})
          = {[r EXCEPT !.port = a.port % 65536] : r \in A!FirstOf(Known[host], {"v4"})}
      BY <2>1, <3>1, Parsed, SMT
    <3> QED
      BY <2>1, <2>2, <3>2, SMT
  <2>4. [A!SetIpv4(a.ip) EXCEPT !.port = a.port % 65536] = a
    <3>1. a.port \in A!Ports /\ a.scope = 0
      BY <1>1, <1>2, AddressIs
    <3>2. a.port % 65536 = a.port
      BY <3>1, PortKept, SMT
    <3>3. A!SetIpv4(a.ip) = [family |-> "v4", ip |-> a.ip, port |-> 0, scope |-> 0]
      BY DEF A!SetIpv4
    <3>4. a = [family |-> "v4", ip |-> a.ip, port |-> a.port, scope |-> 0]
      <4>1. a = [family |-> a.family, ip |-> a.ip, port |-> a.port, scope |-> a.scope]
        BY <1>1, Fields
      <4> QED
        BY <1>2, <3>1, <4>1
    <3> QED
      BY <3>2, <3>3, <3>4, SMT
  <2> QED
    BY <2>3, <2>4, SMT
<1>3. ASSUME a.family = "v6" PROVE A!Parse(A!TextOf(a), {"v4", "v6"}) = {}
  <2> DEFINE P == Words \cup {"[", "]", Decimal[a.port]}
             front == <<"[">> \o a.ip \o <<"]">>
             text == front \o <<Decimal[a.port]>>
  <2>1. a.ip \in Seq(P) /\ <<"[">> \in Seq(P) /\ <<"]">> \in Seq(P) /\ Decimal[a.port] \in P
    <3>1. a.ip \in Seq(Words)
      BY <1>1, <1>3, AddressIs
    <3>2. a.ip \in Seq(P)
      BY <3>1, SeqMonotonic
    <3>3. "[" \in P /\ "]" \in P
      OBVIOUS
    <3> HIDE DEF P
    <3> QED
      BY <3>2, <3>3 DEF P
  <2>2. A!TextOf(a) = text
    <3>1. A!TextOf(a) = <<"[">> \o a.ip \o <<"]", Decimal[a.port]>>
      BY <1>3 DEF A!TextOf, A!GetPort
    <3>2. <<"]", Decimal[a.port]>> = <<"]">> \o <<Decimal[a.port]>>
      <4>1. "]" \in P /\ Decimal[a.port] \in P
        OBVIOUS
      <4> HIDE DEF P
      <4>2. Append(<<"]">>, Decimal[a.port]) = <<"]", Decimal[a.port]>> /\ <<"]">> \in Seq(P)
        BY <4>1, One, Two
      <4> QED
        BY <4>1, <4>2, AppendIsConcat
    <3>3. <<Decimal[a.port]>> \in Seq(P) /\ <<"[">> \o a.ip \in Seq(P)
      <4> HIDE DEF P
      <4> QED
        BY <2>1, ConcatProperties
    <3> HIDE DEF P
    <3>4. <<"]">> \in Seq(P) /\ <<Decimal[a.port]>> \in Seq(P)
      BY <2>1, <3>3
    <3>5. (<<"[">> \o a.ip) \o (<<"]">> \o <<Decimal[a.port]>>)
            = ((<<"[">> \o a.ip) \o <<"]">>) \o <<Decimal[a.port]>>
      BY <3>3, <3>4, ConcatAssociative
    <3> QED
      BY <3>1, <3>2, <3>5, Zenon
  <2> HIDE DEF P
  <2>3. front \in Seq(P) /\ front[1] = "[" /\ Len(front) >= 1
    <3>1. <<"[">> \o a.ip \in Seq(P) /\ Len(<<"[">> \o a.ip) = 1 + Len(a.ip) /\ (<<"[">> \o a.ip)[1] = "["
          /\ Len(a.ip) \in Nat
      BY <2>1, ConcatProperties, Elements
    <3>2. front \in Seq(P) /\ Len(front) = 1 + Len(a.ip) + 1 /\ front[1] = "["
      <4> DEFINE f == <<"[">> \o a.ip
      <4> HIDE DEF f
      <4> QED
        BY <2>1, <3>1, ConcatProperties DEF f
    <3> QED
      BY <3>1, <3>2
  <2> HIDE DEF front
  <2>4. Len(text) # 1 /\ A!Front(text) = front
    BY <2>1, <2>3, FrontAndLast
  <2>5. front \notin DOMAIN Known
    <3>1. ASSUME front \in Seq(Words) PROVE FALSE
      <4>1. front[1] \in Words
        BY <2>3, <3>1, Elements
      <4> QED
        BY <2>3, <4>1, HostsAssumption DEF A!HostsAssumption
    <3> QED
      BY <3>1, HostsAssumption DEF A!HostsAssumption
  <2> HIDE DEF text
  <2>6. A!Parse(text, {"v4", "v6"}) = {}
    BY <2>4, <2>5, NotResolved DEF A!Parse
  <2> QED
    BY <2>2, <2>6
<1>4. ASSUME NEW host \in DOMAIN Known, NEW n \in Numbers
      PROVE  A!Parse(host \o <<Decimal[n]>>, families)
             = {[r EXCEPT !.port = n % 65536] : r \in A!FirstOf(Known[host], families)}
  BY Parsed, SMT
<1> QED
  BY <1>2, <1>3, <1>4, SMT DEF A!TextsName

-----------------------------------------------------------------------------
(* Texts *)

\* Multiples of b leave nothing of themselves.
LEMMA RestOfSum ==
    ASSUME NEW b \in Nat, NEW q \in Nat, NEW r \in Nat, r < b
    PROVE  (q * b + r) % b = r
  OBVIOUS

LEMMA Multiple ==
    ASSUME NEW b \in Nat, NEW w \in Nat, b >= 1, w % b = 0
    PROVE  w = (w \div b) * b /\ w \div b \in Nat
  OBVIOUS

LEMMA OneLess ==
    ASSUME NEW b \in Nat, NEW q \in Nat, q >= 1, NEW c \in Nat
    PROVE  (q - 1) * b + c = c + q * b - b
  OBVIOUS

LEMMA RestBelowMultiple ==
    ASSUME NEW b \in Nat, NEW w \in Nat, NEW c \in Nat, b >= 1, w % b = 0, b < w, c < b
    PROVE  (c + w - b) % b = c /\ c + w - b \in Nat
<1>1. PICK q \in Nat : w = q * b
  BY Multiple
<1>2. q >= 1
  <2>1. q # 0
    BY <1>1
  <2> QED
    BY <2>1
<1>3. (q - 1) * b + c = c + w - b
  BY <1>1, <1>2, OneLess
<1>4. q - 1 \in Nat
  BY <1>2
<1>5. ((q - 1) * b + c) % b = c
  BY <1>4, RestOfSum
<1>6. c + w - b \in Nat
  OBVIOUS
<1> QED
  BY <1>3, <1>5, <1>6

\* The widths, and the half of the characters that are not negative.
LEMMA Widths ==
    /\ Byte \in Nat /\ Wide \in Nat /\ Size \in Nat /\ Byte >= 2 /\ Size >= 1 /\ Byte < Wide
    /\ Wide % Byte = 0
    /\ Byte \div 2 \in Nat /\ Byte = 2 * (Byte \div 2)
<1>1. /\ Byte \in Nat \ {0} /\ Wide \in Nat \ {0} /\ Size \in Nat \ {0}
      /\ Byte % 2 = 0 /\ Wide % Byte = 0 /\ Byte < Wide
  BY WidthsAssumption DEF T!WidthsAssumption
<1>2. Byte = 2 * (Byte \div 2) /\ Byte \div 2 \in Nat
  BY <1>1
<1> QED
  BY <1>1, <1>2

\* A char is the same after it was widened and narrowed.
LEMMA CharKept ==
    ASSUME NEW c \in 0 .. Byte - 1
    PROVE  T!Widened(c) \in 0 .. Wide - 1 /\ T!Widened(c) % Byte = c
<1>1. c \in Nat /\ c < Byte /\ c <= Byte - 1
  BY Widths
<1>2. CASE c < Byte \div 2
  <2>1. T!Widened(c) = c
    BY <1>2 DEF T!Widened
  <2>2. c % Byte = c
    BY <1>1, Widths, OneDigit
  <2>3. c \in 0 .. Wide - 1
    BY <1>1, Widths
  <2> QED
    BY <2>1, <2>2, <2>3
<1>3. CASE ~(c < Byte \div 2)
  <2>1. T!Widened(c) = c + Wide - Byte
    BY <1>3 DEF T!Widened
  <2>2. (c + Wide - Byte) % Byte = c /\ c + Wide - Byte \in Nat
    <3>1. Byte \in Nat /\ Wide \in Nat /\ Byte >= 1 /\ Wide % Byte = 0 /\ Byte < Wide
      BY Widths
    <3> QED
      BY <1>1, <3>1, RestBelowMultiple, Zenon
  <2>3. c + Wide - Byte <= Wide - 1
    BY <1>1, Widths
  <2> QED
    BY <2>1, <2>2, <2>3, Widths
<1> QED
  BY <1>2, <1>3

\* These characters, and no others, are the same after they were narrowed and widened.
LEMMA Survivors ==
    ASSUME NEW c \in 0 .. Wide - 1
    PROVE  /\ c % Byte \in 0 .. Byte - 1
           /\ c \in T!Surviving <=> c % Byte # 0 /\ T!Widened(c % Byte) = c
<1> DEFINE h == Byte \div 2
           d == c % Byte
<1>1. c \in Nat /\ c <= Wide - 1 /\ h \in Nat /\ Byte = 2 * h /\ h >= 1
  BY Widths
<1>2. d \in Nat /\ d < Byte
  BY <1>1, Widths
<1>3. T!Surviving = (1 .. h - 1) \cup (Wide - h .. Wide - 1)
  BY DEF T!Surviving
<1>4. T!Widened(d) = IF d < h THEN d ELSE d + Wide - Byte
  BY DEF T!Widened
<1>5. ASSUME c \in 1 .. h - 1 PROVE d = c
  <2>1. c < Byte
    BY <1>1, <1>5
  <2> QED
    BY <1>1, <2>1, Widths, OneDigit
<1>6. ASSUME c \in Wide - h .. Wide - 1 PROVE d = c + Byte - Wide
  <2> DEFINE e == c + Byte - Wide
  <2>1. e \in Nat /\ e < Byte /\ e + Wide - Byte = c
    BY <1>1, <1>6, Widths
  <2> HIDE DEF e
  <2>2. (e + Wide - Byte) % Byte = e
    <3>1. Byte \in Nat /\ Wide \in Nat /\ Byte >= 1 /\ Wide % Byte = 0 /\ Byte < Wide
      BY Widths
    <3> QED
      BY <2>1, <3>1, RestBelowMultiple, Zenon
  <2> QED
    BY <2>1, <2>2 DEF e
<1> HIDE DEF h, d
<1>7. ASSUME c \in T!Surviving PROVE d # 0 /\ T!Widened(d) = c
  BY <1>1, <1>2, <1>3, <1>4, <1>5, <1>6, <1>7, Widths
<1>8. ASSUME d # 0, T!Widened(d) = c PROVE c \in T!Surviving
  BY <1>1, <1>2, <1>3, <1>4, <1>8, Widths
<1>9. d \in 0 .. Byte - 1
  BY <1>2, Widths
<1> QED
  BY <1>7, <1>8, <1>9 DEF d

\* A string with its zero.
LEMMA StringIs ==
    ASSUME NEW text \in Seq(Nat)
    PROVE  /\ Len(T!OfView(text)) = Len(text) + 1 /\ T!OfView(text) # <<>>
           /\ T!Last(T!OfView(text)) = 0 /\ T!ToView(T!OfView(text)) = text
<1> DEFINE s == text \o <<0>>
<1>1. Len(s) = Len(text) + 1 /\ T!Last(s) = 0 /\ T!Front(s) = text
  BY FrontAndLast
<1>2. s # <<>>
  BY <1>1, EmptySeq, Elements
<1>3. T!OfView(text) = s
  BY DEF T!OfView
<1> HIDE DEF s
<1> QED
  BY <1>1, <1>2, <1>3 DEF T!ToView

\* Chars as wide characters.
LEMMA CharsAre ==
    ASSUME NEW chars \in Seq(0 .. Byte - 1)
    PROVE  LET wide == [i \in DOMAIN chars |-> T!Widened(chars[i])]
           IN  /\ wide \in Seq(Nat) /\ Len(wide) = Len(chars)
               /\ T!OfChars(chars) = T!OfView(wide)
<1> DEFINE wide == [i \in DOMAIN chars |-> T!Widened(chars[i])]
<1>1. Len(chars) \in Nat /\ DOMAIN chars = 1 .. Len(chars) /\ \A i \in 1 .. Len(chars) : chars[i] \in 0 .. Byte - 1
  BY Elements
<1>2. \A i \in 1 .. Len(chars) : T!Widened(chars[i]) \in Nat
  BY <1>1, CharKept
<1>3. wide \in [1 .. Len(chars) -> Nat]
  BY <1>1, <1>2
<1>4. wide \in Seq(Nat) /\ Len(wide) = Len(chars)
  <2>1. wide \in Seq(Nat)
    BY <1>1, <1>3, IsASeq
  <2>2. DOMAIN wide = 1 .. Len(chars)
    BY <1>3
  <2> HIDE DEF wide
  <2> QED
    BY <1>1, <2>1, <2>2, LenProperties
<1> QED
  BY <1>4 DEF T!OfChars, T!OfView

LEMMA StringsAreKept ==
    ASSUME NEW text \in Seq(0 .. Wide - 1), NEW other \in Seq(0 .. Wide - 1)
    PROVE  T!StringsKeep(text, other)
<1> DEFINE chars == [i \in DOMAIN text |-> text[i] % Byte]
<1>1. text \in Seq(Nat) /\ other \in Seq(Nat) /\ Len(text) \in Nat /\ Len(other) \in Nat
  <2>1. \A P : P \subseteq Nat => Seq(P) \subseteq Seq(Nat)
    BY SeqMonotonic
  <2>2. 0 .. Wide - 1 \subseteq Nat
    BY Widths
  <2> QED
    BY <2>1, <2>2, Elements
<1>2. T!ToView(T!OfView(text)) = text
  BY <1>1, StringIs
<1>3. T!EqualsView(T!OfView(text), other) <=> text = other
  BY <1>1, StringIs DEF T!EqualsView
<1>4. T!Equal(T!OfView(text), T!OfView(other)) <=> text = other
  <2>1. T!ToView(T!OfView(text)) = text /\ T!ToView(T!OfView(other)) = other
    BY <1>1, StringIs
  <2> QED
    BY <2>1 DEF T!Equal
<1>5. T!EqualsView(T!Default, text) <=> text = <<>>
  <2>1. Len(T!Default) = 0 /\ T!Default = <<>> /\ Len(text) + 1 # 0
    BY <1>1, EmptySeq DEF T!Default
  <2> QED
    BY <2>1 DEF T!EqualsView
<1>6. ~T!Equal(T!Default, T!OfView(text))
  BY <1>1, StringIs DEF T!Equal, T!Default
<1>7. chars \in Seq(0 .. Byte - 1) /\ Len(chars) = Len(text) /\ DOMAIN chars = 1 .. Len(text)
  <2>1. DOMAIN text = 1 .. Len(text) /\ \A i \in 1 .. Len(text) : text[i] \in 0 .. Wide - 1
    BY Elements
  <2>2. \A i \in 1 .. Len(text) : text[i] % Byte \in 0 .. Byte - 1
    BY <2>1, Survivors
  <2>3. chars \in [1 .. Len(text) -> 0 .. Byte - 1]
    BY <2>1, <2>2
  <2>4. chars \in Seq(0 .. Byte - 1)
    BY <1>1, <2>3, IsASeq
  <2>5. DOMAIN chars = 1 .. Len(text)
    BY <2>3
  <2> HIDE DEF chars
  <2> QED
    BY <1>1, <2>4, <2>5, LenProperties
<1> HIDE DEF chars
<1> DEFINE wide == [i \in DOMAIN chars |-> T!Widened(chars[i])]
<1>8. wide \in Seq(Nat) /\ Len(wide) = Len(chars) /\ T!OfChars(chars) = T!OfView(wide)
  BY <1>7, CharsAre
<1>9. T!EqualsChars(T!OfChars(chars), chars)
  <2>1. Len(T!OfView(wide)) = Len(chars) + 1 /\ T!Last(T!OfView(wide)) = 0
    BY <1>8, StringIs
  <2>2. \A i \in DOMAIN chars : T!OfView(wide)[i] = T!Widened(chars[i])
    <3>1. \A i \in DOMAIN chars : wide[i] = T!Widened(chars[i])
      OBVIOUS
    <3> HIDE DEF wide
    <3>2. <<0>> \in Seq(Nat) /\ Len(<<0>>) = 1
      OBVIOUS
    <3>3. \A i \in 1 .. Len(wide) + Len(<<0>>) :
             (wide \o <<0>>)[i] = IF i <= Len(wide) THEN wide[i] ELSE <<0>>[i - Len(wide)]
      BY <1>8, <3>2, ConcatProperties
    <3>4. \A i \in 1 .. Len(wide) : (wide \o <<0>>)[i] = wide[i]
      BY <1>1, <1>7, <1>8, <3>2, <3>3
    <3> QED
      BY <1>7, <1>8, <3>1, <3>4 DEF T!OfView
  <2> HIDE DEF wide
  <2> QED
    BY <1>8, <2>1, <2>2 DEF T!EqualsChars
<1>10. T!Narrowed(T!OfChars(chars)) = chars
  <2>1. T!ToView(T!OfChars(chars)) = wide
    BY <1>8, StringIs
  <2>2. T!Narrowed(T!OfChars(chars)) = [i \in DOMAIN wide |-> wide[i] % Byte]
    BY <2>1 DEF T!Narrowed
  <2>3. DOMAIN wide = DOMAIN chars /\ \A i \in DOMAIN chars : wide[i] = T!Widened(chars[i])
    OBVIOUS
  <2> HIDE DEF wide
  <2>4. \A i \in DOMAIN chars : wide[i] % Byte = chars[i]
    <3>1. \A i \in DOMAIN chars : chars[i] \in 0 .. Byte - 1
      BY <1>7, Elements
    <3> QED
      BY <2>3, <3>1, CharKept
  <2>5. chars = [i \in DOMAIN chars |-> chars[i]]
    BY <1>7, Elements
  <2> QED
    BY <2>2, <2>3, <2>4, <2>5
<1> QED
  BY <1>2, <1>3, <1>4, <1>5, <1>6, <1>9, <1>10 DEF T!StringsKeep, chars

\* What is in front of the first zero: all of it is not zero, and what follows is.
IsText(v, s) ==
    /\ v \in Seq(Nat) /\ Len(v) <= Len(s)
    /\ \A i \in 1 .. Len(v) : v[i] = s[i] /\ v[i] # 0
    /\ Len(v) < Len(s) => s[Len(v) + 1] = 0

LEMMA FirstZero ==
    ASSUME NEW s \in Seq(Nat)
    PROVE  IsText(T!UpToZero(s), s)
<1> DEFINE I == {i \in 1 .. Len(s) : s[i] = 0}
           zero == IF I # {} THEN T!Min(I) ELSE 0
<1>1. Len(s) \in Nat /\ \A i \in 1 .. Len(s) : s[i] \in Nat
  BY Elements
<1>2. T!UpToZero(s) = IF zero = 0 THEN s ELSE SubSeq(s, 1, zero - 1)
  BY DEF T!UpToZero, T!SelectInSeq
<1>3. CASE I = {}
  <2>1. T!UpToZero(s) = s
    BY <1>2, <1>3
  <2>2. \A i \in 1 .. Len(s) : s[i] # 0
    BY <1>3
  <2> HIDE DEF I
  <2> QED
    BY <1>1, <2>1, <2>2 DEF IsText
<1>4. CASE I # {}
  <2>1. \E x \in I : \A y \in I : x <= y
    <3>1. I \in SUBSET Nat
      OBVIOUS
    <3> QED
      BY <3>1, <1>4, LeastOne
  <2>2. T!Min(I) \in I /\ \A y \in I : T!Min(I) <= y
    BY <2>1 DEF T!Min
  <2> DEFINE z == T!Min(I)
             v == SubSeq(s, 1, z - 1)
  <2>3. z \in 1 .. Len(s) /\ s[z] = 0
    BY <2>2
  <2>4. \A i \in 1 .. z - 1 : i \in 1 .. Len(s) /\ s[i] # 0
    BY <1>1, <2>2
  <2>5. T!UpToZero(s) = v
    <3>1. zero = z /\ z # 0
      BY <1>4, <2>3
    <3> HIDE DEF zero, z
    <3> QED
      BY <1>2, <3>1
  <2> HIDE DEF I, z
  <2>6. /\ v \in Seq(Nat) /\ Len(v) = z - 1
        /\ \A i \in 1 .. z - 1 : v[i] = s[i]
    <3>1. 1 \in Nat /\ z - 1 \in Nat /\ 1 >= 1 /\ z - 1 <= Len(s)
      BY <1>1, <2>3
    <3>2. /\ v \in Seq(Nat) /\ Len(v) = IF 1 <= z - 1 THEN (z - 1) - 1 + 1 ELSE 0
          /\ \A i \in 1 .. (z - 1) - 1 + 1 : v[i] = s[1 + i - 1]
      BY <3>1, Part
    <3>3. (z - 1) - 1 + 1 = z - 1 /\ \A i \in 1 .. z - 1 : 1 + i - 1 = i
      BY <3>1
    <3> QED
      BY <3>1, <3>2, <3>3
  <2> HIDE DEF v
  <2>7. (z - 1) + 1 = z /\ z - 1 <= Len(s)
    BY <1>1, <2>3
  <2> QED
    BY <2>3, <2>4, <2>5, <2>6, <2>7 DEF IsText
<1> QED
  BY <1>3, <1>4

\* There is one such text.
LEMMA TextIs ==
    ASSUME NEW s \in Seq(Nat), NEW v, IsText(v, s)
    PROVE  T!UpToZero(s) = v
<1> DEFINE u == T!UpToZero(s)
<1>1. IsText(u, s)
  BY FirstZero
<1> HIDE DEF u
<1>2. Len(s) \in Nat /\ Len(u) \in Nat /\ Len(v) \in Nat /\ u \in Seq(Nat) /\ v \in Seq(Nat)
  BY <1>1, Elements DEF IsText
<1>3. ~(Len(u) < Len(v))
  <2> SUFFICES ASSUME Len(u) < Len(v) PROVE FALSE
    OBVIOUS
  <2>1. Len(u) < Len(s) /\ Len(u) + 1 \in 1 .. Len(v)
    BY <1>2 DEF IsText
  <2> QED
    BY <1>1, <2>1 DEF IsText
<1>4. ~(Len(v) < Len(u))
  <2> SUFFICES ASSUME Len(v) < Len(u) PROVE FALSE
    OBVIOUS
  <2>1. Len(v) < Len(s) /\ Len(v) + 1 \in 1 .. Len(u)
    BY <1>1, <1>2 DEF IsText
  <2> QED
    BY <1>1, <2>1 DEF IsText
<1>5. Len(u) = Len(v)
  BY <1>2, <1>3, <1>4
<1>6. \A i \in 1 .. Len(v) : u[i] = v[i]
  BY <1>1, <1>5 DEF IsText
<1>7. u = v
  BY <1>2, <1>5, <1>6, SeqEqual
<1> QED
  BY <1>7 DEF u

\* What an array of a packet holds is the text, cut to one less than its size.
LEMMA CopyHolds ==
    ASSUME NEW t \in Seq(Nat)
    PROVE  LET u == T!UpToZero(t)
               k == T!Smaller(Len(u), Size - 1)
               v == SubSeq(u, 1, k)
           IN  /\ T!Copied(t) \in Seq(Nat) /\ Len(T!Copied(t)) = Size
               /\ T!Copied(t)[Size] = 0
               /\ k \in Nat /\ k <= Size - 1 /\ k <= Len(u) /\ v \in Seq(Nat) /\ Len(v) = k
               /\ \A i \in 1 .. k : v[i] = u[i]
               /\ T!UpToZero(T!Copied(t)) = v
<1> DEFINE u == T!UpToZero(t)
           k == T!Smaller(Len(u), Size - 1)
           v == SubSeq(u, 1, k)
           array == [i \in 1 .. Size |-> IF i <= k THEN t[i] ELSE 0]
<1>1. Size \in Nat /\ Size >= 1 /\ Len(t) \in Nat /\ \A i \in 1 .. Len(t) : t[i] \in Nat
  BY Widths, Elements
<1>2. T!Copied(t) = array
  BY DEF T!Copied
<1>3. /\ u \in Seq(Nat) /\ Len(u) \in Nat /\ Len(u) <= Len(t)
      /\ \A i \in 1 .. Len(u) : u[i] = t[i] /\ u[i] # 0
  BY FirstZero, Elements DEF IsText
<1> HIDE DEF u
<1>4. k \in Nat /\ k <= Len(u) /\ k <= Size - 1
  BY <1>1, <1>3 DEF T!Smaller
<1> HIDE DEF k
<1>5. array \in Seq(Nat) /\ Len(array) = Size
  <2>1. \A i \in 1 .. Size : i <= k => t[i] \in Nat
    BY <1>1, <1>3, <1>4
  <2>2. array \in [1 .. Size -> Nat]
    BY <2>1
  <2>3. array \in Seq(Nat)
    BY <1>1, <2>2, IsASeq
  <2>4. DOMAIN array = 1 .. Size
    BY <2>2
  <2> HIDE DEF array
  <2> QED
    BY <1>1, <2>3, <2>4, LenProperties
<1>6. \A i \in 1 .. Size : array[i] = IF i <= k THEN t[i] ELSE 0
  OBVIOUS
<1>7. v \in Seq(Nat) /\ Len(v) = k /\ \A i \in 1 .. k : v[i] = u[i]
  <2>1. 1 \in Nat /\ 1 >= 1
    OBVIOUS
  <2>2. /\ v \in Seq(Nat) /\ Len(v) = IF 1 <= k THEN k - 1 + 1 ELSE 0
        /\ \A i \in 1 .. k - 1 + 1 : v[i] = u[1 + i - 1]
    BY <1>3, <1>4, <2>1, Part
  <2>3. k - 1 + 1 = k /\ \A i \in 1 .. k : 1 + i - 1 = i
    BY <1>4
  <2> QED
    BY <1>4, <2>2, <2>3
<1> HIDE DEF array, v
<1>8. IsText(v, array)
  <2>1. \A i \in 1 .. k : i \in 1 .. Size /\ i \in 1 .. Len(u) /\ i <= k
    BY <1>1, <1>3, <1>4
  <2>2. \A i \in 1 .. k : v[i] = array[i] /\ v[i] # 0
    BY <1>3, <1>6, <1>7, <2>1
  <2>3. k + 1 \in 1 .. Size /\ ~(k + 1 <= k) /\ k <= Size
    BY <1>1, <1>4
  <2>4. array[k + 1] = 0
    BY <1>6, <2>3
  <2> QED
    BY <1>5, <1>7, <2>2, <2>3, <2>4 DEF IsText
<1>9. T!UpToZero(array) = v
  BY <1>5, <1>8, TextIs
<1>10. array[Size] = 0
  BY <1>1, <1>4, <1>6
<1> QED
  BY <1>2, <1>4, <1>5, <1>7, <1>9, <1>10 DEF u, k, v

\* A text that fits is copied, and relayed, as it is.
LEMMA CopiesAgree ==
    ASSUME NEW t \in Seq(Nat)
    PROVE  /\ T!UpToZero(T!UpToZero(t)) = T!UpToZero(t)
           /\ T!Relayed(T!Copied(t)) = T!Copied(t)
<1> DEFINE u == T!UpToZero(t)
           k == T!Smaller(Len(u), Size - 1)
           v == SubSeq(u, 1, k)
<1>1. /\ u \in Seq(Nat) /\ Len(u) \in Nat /\ Len(u) <= Len(t)
      /\ \A i \in 1 .. Len(u) : u[i] = t[i] /\ u[i] # 0
  BY FirstZero, Elements DEF IsText
<1>2. ASSUME NEW w \in Seq(Nat), \A i \in 1 .. Len(w) : w[i] # 0
      PROVE  T!UpToZero(w) = w
  <2>1. Len(w) \in Nat
    BY Elements
  <2>2. IsText(w, w)
    BY <1>2, <2>1 DEF IsText
  <2> QED
    BY <2>2, TextIs
<1>3. T!UpToZero(u) = u
  BY <1>1, <1>2
<1>4. /\ k \in Nat /\ k <= Size - 1 /\ k <= Len(u) /\ v \in Seq(Nat) /\ Len(v) = k
      /\ \A i \in 1 .. k : v[i] = u[i]
      /\ T!UpToZero(T!Copied(t)) = v
  BY CopyHolds
<1>5. T!Copied(t) = [i \in 1 .. Size |-> IF i <= k THEN t[i] ELSE 0]
  BY DEF T!Copied
<1> HIDE DEF u, v
<1>6. T!UpToZero(v) = v
  <2>1. \A i \in 1 .. k : i \in 1 .. Len(u)
    BY <1>1, <1>4
  <2>2. \A i \in 1 .. Len(v) : v[i] # 0
    BY <1>1, <1>4, <2>1
  <2> QED
    BY <1>2, <1>4, <2>2
<1>7. T!Smaller(Len(v), Size - 1) = k
  BY <1>4, Widths DEF T!Smaller
<1> HIDE DEF k
<1>8. T!Copied(v) = [i \in 1 .. Size |-> IF i <= k THEN v[i] ELSE 0]
  BY <1>6, <1>7 DEF T!Copied
<1>9. \A i \in 1 .. Size : (IF i <= k THEN v[i] ELSE 0) = IF i <= k THEN t[i] ELSE 0
  <2> SUFFICES ASSUME NEW i \in 1 .. Size, i <= k PROVE v[i] = t[i]
    OBVIOUS
  <2>1. i \in 1 .. k /\ i \in 1 .. Len(u)
    BY <1>1, <1>4, Widths
  <2> QED
    BY <1>1, <1>4, <2>1
<1>10. T!Copied(v) = T!Copied(t)
  BY <1>5, <1>8, <1>9
<1>11. T!Relayed(T!Copied(t)) = T!Copied(v)
  BY <1>4 DEF T!Relayed
<1> QED
  BY <1>3, <1>10, <1>11 DEF u

\* What is relayed of any array is in front of what it held.
LEMMA RelayCutsOnly ==
    ASSUME NEW array \in [1 .. Size -> 0 .. Byte - 1]
    PROVE  /\ T!IsPrefix(T!UpToZero(T!Relayed(array)), T!UpToZero(array))
           /\ T!Last(T!Relayed(array)) = 0
<1> DEFINE u == T!UpToZero(array)
<1>1. array \in Seq(Nat)
  <2>1. Size \in Nat /\ \A i \in 1 .. Size : array[i] \in Nat
    BY Widths
  <2> QED
    BY <2>1, IsASeq
<1>2. u \in Seq(Nat) /\ T!UpToZero(u) = u /\ Len(u) \in Nat
  BY <1>1, FirstZero, CopiesAgree, Elements DEF IsText
<1> HIDE DEF u
<1> DEFINE k == T!Smaller(Len(u), Size - 1)
           v == SubSeq(u, 1, k)
<1>3. /\ T!Copied(u) \in Seq(Nat) /\ Len(T!Copied(u)) = Size /\ T!Copied(u)[Size] = 0
      /\ k \in Nat /\ k <= Len(u) /\ v \in Seq(Nat) /\ Len(v) = k
      /\ \A i \in 1 .. k : v[i] = u[i]
      /\ T!UpToZero(T!Copied(u)) = v
  BY <1>2, CopyHolds
<1> HIDE DEF k, v
<1>4. T!Relayed(array) = T!Copied(u)
  BY DEF T!Relayed, u
<1>5. T!IsPrefix(v, u)
  <2>1. W!IsPrefix(v, u)
    BY <1>2, <1>3, Prefixes
  <2> QED
    BY <2>1 DEF W!IsPrefix, T!IsPrefix
<1> QED
  BY <1>3, <1>4, <1>5 DEF u, T!Last

\* What the other players see of a name.
LEMMA ShownIs ==
    ASSUME NEW name \in Seq(0 .. Wide - 1)
    PROVE  LET array == T!Sent(T!OfView(name))
               shown == T!ToView(T!Shown(T!Relayed(array)))
               chars == [i \in DOMAIN name |-> name[i] % Byte]
               k == T!Smaller(Len(T!UpToZero(chars)), Size - 1)
           IN  /\ T!Relayed(array) = array
               /\ chars \in Seq(Nat) /\ Len(chars) = Len(name)
               /\ k \in Nat /\ k <= Len(name)
               /\ shown \in Seq(Nat) /\ Len(shown) = k
               /\ \A i \in 1 .. k : shown[i] = T!Widened(name[i] % Byte)
<1> DEFINE array == T!Sent(T!OfView(name))
           chars == [i \in DOMAIN name |-> name[i] % Byte]
           u == T!UpToZero(chars)
           k == T!Smaller(Len(u), Size - 1)
           v == SubSeq(u, 1, k)
           wide == [i \in DOMAIN v |-> T!Widened(v[i])]
<1>1. /\ Len(name) \in Nat /\ DOMAIN name = 1 .. Len(name)
      /\ \A i \in 1 .. Len(name) : name[i] \in 0 .. Wide - 1
  BY Elements
<1>2. name \in Seq(Nat)
  <2>1. \A P : P \subseteq Nat => Seq(P) \subseteq Seq(Nat)
    BY SeqMonotonic
  <2>2. 0 .. Wide - 1 \subseteq Nat
    BY Widths
  <2> QED
    BY <2>1, <2>2
<1>3. /\ chars \in Seq(Nat) /\ Len(chars) = Len(name)
      /\ \A i \in 1 .. Len(name) : chars[i] = name[i] % Byte /\ chars[i] \in 0 .. Byte - 1
  <2>1. \A i \in 1 .. Len(name) : name[i] % Byte \in 0 .. Byte - 1
    BY <1>1, Survivors
  <2>2. \A i \in 1 .. Len(name) : name[i] % Byte \in Nat
    BY <2>1, Widths
  <2>3. chars \in [1 .. Len(name) -> Nat]
    BY <1>1, <2>2
  <2>4. chars \in Seq(Nat)
    BY <1>1, <2>3, IsASeq
  <2>5. DOMAIN chars = 1 .. Len(name) /\ \A i \in 1 .. Len(name) : chars[i] = name[i] % Byte
    BY <1>1
  <2> HIDE DEF chars
  <2>6. Len(chars) = Len(name)
    BY <1>1, <2>4, <2>5, LenProperties
  <2> QED
    BY <2>1, <2>4, <2>5, <2>6
<1>4. T!Narrowed(T!OfView(name)) = chars
  BY <1>2, StringIs DEF T!Narrowed
<1> HIDE DEF chars
<1>5. array = T!Copied(chars)
  BY <1>4 DEF T!Sent
<1>6. T!Relayed(array) = array
  BY <1>3, <1>5, CopiesAgree
<1> HIDE DEF array
<1>7. /\ k \in Nat /\ k <= Len(u) /\ v \in Seq(Nat) /\ Len(v) = k
      /\ \A i \in 1 .. k : v[i] = u[i]
      /\ T!UpToZero(T!Copied(chars)) = v
  BY <1>3, CopyHolds
<1>8. /\ u \in Seq(Nat) /\ Len(u) \in Nat /\ Len(u) <= Len(name)
      /\ \A i \in 1 .. Len(u) : u[i] = chars[i]
  BY <1>3, FirstZero, Elements DEF IsText
<1> HIDE DEF u, k, v
<1>9. /\ v \in Seq(0 .. Byte - 1) /\ DOMAIN v = 1 .. k
      /\ \A i \in 1 .. k : v[i] = name[i] % Byte
  <2>1. \A i \in 1 .. k : i \in 1 .. Len(u) /\ i \in 1 .. Len(name)
    BY <1>1, <1>7, <1>8
  <2>2. \A i \in 1 .. k : v[i] = name[i] % Byte /\ v[i] \in 0 .. Byte - 1
    BY <1>3, <1>7, <1>8, <2>1
  <2>3. DOMAIN v = 1 .. k /\ v \in [1 .. k -> 0 .. Byte - 1]
    BY <1>7, <2>2, Elements
  <2>4. v \in Seq(0 .. Byte - 1)
    <3> DEFINE P == 0 .. Byte - 1
    <3> HIDE DEF P
    <3>1. k \in Nat /\ v \in [1 .. k -> P]
      BY <1>7, <2>3 DEF P
    <3>2. v \in Seq(P)
      BY <3>1, IsASeq
    <3> QED
      BY <3>2 DEF P
  <2> QED
    BY <2>2, <2>3, <2>4
<1>10. wide \in Seq(Nat) /\ Len(wide) = k /\ T!OfChars(v) = T!OfView(wide)
  BY <1>7, <1>9, CharsAre
<1>11. \A i \in 1 .. k : wide[i] = T!Widened(name[i] % Byte)
  BY <1>9
<1> HIDE DEF wide
<1>12. T!ToView(T!Shown(T!Relayed(array))) = wide
  <2>1. T!Shown(T!Relayed(array)) = T!OfView(wide)
    BY <1>5, <1>6, <1>7, <1>10 DEF T!Shown
  <2> QED
    BY <1>10, <2>1, StringIs
<1>13. k <= Len(name)
  BY <1>1, <1>7, <1>8
<1> QED
  BY <1>3, <1>6, <1>7, <1>10, <1>11, <1>12, <1>13 DEF array, chars, u, k

LEMMA NamesAreSeen ==
    ASSUME NEW name \in Seq(0 .. Wide - 1), NEW array \in [1 .. Size -> 0 .. Byte - 1]
    PROVE  T!NamesArrive(name, array)
<1> DEFINE shown == T!ToView(T!Shown(T!Relayed(T!Sent(T!OfView(name)))))
           chars == [i \in DOMAIN name |-> name[i] % Byte]
           u == T!UpToZero(chars)
           k == T!Smaller(Len(u), Size - 1)
           m == T!Smaller(Len(name), Size - 1)
<1>1. /\ T!Relayed(T!Sent(T!OfView(name))) = T!Sent(T!OfView(name))
      /\ chars \in Seq(Nat) /\ Len(chars) = Len(name)
      /\ k \in Nat /\ k <= Len(name)
      /\ shown \in Seq(Nat) /\ Len(shown) = k
      /\ \A i \in 1 .. k : shown[i] = T!Widened(name[i] % Byte)
  BY ShownIs
<1>2. /\ Len(name) \in Nat /\ DOMAIN name = 1 .. Len(name) /\ name \in Seq(0 .. Wide - 1)
      /\ \A i \in 1 .. Len(name) : name[i] \in 0 .. Wide - 1
  BY Elements
<1>3. \A i \in 1 .. Len(name) : chars[i] = name[i] % Byte
  BY <1>2
<1>4. T!ToSet(name) = {name[i] : i \in 1 .. Len(name)}
  BY <1>2 DEF T!ToSet
<1> HIDE DEF shown, chars
<1>5. IsText(u, chars)
  BY <1>1, FirstZero
<1>6. ASSUME \A i \in 1 .. Len(name) : name[i] \in T!Surviving
      PROVE  shown = SubSeq(name, 1, m)
  <2>1. \A i \in 1 .. Len(name) : name[i] % Byte # 0 /\ T!Widened(name[i] % Byte) = name[i]
    BY <1>2, <1>6, Survivors
  <2>2. IsText(chars, chars)
    BY <1>1, <1>2, <1>3, <2>1 DEF IsText
  <2>3. u = chars
    BY <1>1, <2>2, TextIs
  <2>4. k = m
    BY <1>1, <2>3
  <2> DEFINE cut == SubSeq(name, 1, m)
  <2> HIDE DEF k, m, u
  <2>5. /\ cut \in Seq(0 .. Wide - 1) /\ Len(cut) = k
        /\ \A i \in 1 .. k : cut[i] = name[i]
    <3>1. 1 \in Nat /\ 1 >= 1 /\ m \in Nat /\ m <= Len(name) /\ name \in Seq(0 .. Wide - 1)
      BY <1>1, <2>4
    <3> DEFINE P == 0 .. Wide - 1
    <3> HIDE DEF P
    <3>2. name \in Seq(P)
      BY <3>1 DEF P
    <3>3. /\ cut \in Seq(P) /\ Len(cut) = IF 1 <= m THEN m - 1 + 1 ELSE 0
          /\ \A i \in 1 .. m - 1 + 1 : cut[i] = name[1 + i - 1]
      BY <3>1, <3>2, Part DEF cut
    <3>4. /\ cut \in Seq(0 .. Wide - 1) /\ Len(cut) = IF 1 <= m THEN m - 1 + 1 ELSE 0
          /\ \A i \in 1 .. m - 1 + 1 : cut[i] = name[1 + i - 1]
      BY <3>3 DEF P
    <3>5. m - 1 + 1 = m /\ \A i \in 1 .. m : 1 + i - 1 = i
      BY <3>1
    <3> QED
      BY <2>4, <3>1, <3>4, <3>5
  <2> HIDE DEF cut
  <2>6. \A i \in 1 .. k : shown[i] = cut[i]
    <3>1. \A i \in 1 .. k : i \in 1 .. Len(name)
      BY <1>1, <1>2
    <3> QED
      BY <1>1, <2>1, <2>5, <3>1
  <2>7. cut \in Seq(Nat)
    <3>1. \A P : P \subseteq Nat => Seq(P) \subseteq Seq(Nat)
      BY SeqMonotonic
    <3>2. 0 .. Wide - 1 \subseteq Nat
      BY Widths
    <3> QED
      BY <2>5, <3>1, <3>2
  <2>8. shown = cut
    BY <1>1, <2>5, <2>6, <2>7, SeqEqual
  <2> QED
    BY <2>8 DEF cut
<1>7. ASSUME shown = name PROVE \A i \in 1 .. Len(name) : name[i] \in T!Surviving
  <2> SUFFICES ASSUME NEW i \in 1 .. Len(name) PROVE name[i] \in T!Surviving
    OBVIOUS
  <2>1. k = Len(name)
    BY <1>1, <1>7
  <2>2. Len(u) = Len(name)
    <3>1. Len(u) \in Nat /\ Len(u) <= Len(name)
      BY <1>1, <1>5, Elements DEF IsText
    <3>2. k <= Len(u)
      BY <3>1, Widths DEF T!Smaller
    <3> QED
      BY <1>2, <2>1, <3>1, <3>2
  <2>3. name[i] % Byte # 0
    BY <1>3, <1>5, <2>2 DEF IsText
  <2>4. T!Widened(name[i] % Byte) = name[i]
    BY <1>1, <1>7, <2>1
  <2> QED
    BY <1>2, <2>3, <2>4, Survivors
<1>8. IF T!ToSet(name) \subseteq T!Surviving THEN shown = SubSeq(name, 1, m) ELSE shown # name
  <2>1. T!ToSet(name) \subseteq T!Surviving <=> \A i \in 1 .. Len(name) : name[i] \in T!Surviving
    BY <1>4
  <2> HIDE DEF m
  <2> QED
    BY <1>6, <1>7, <2>1
<1>9. /\ T!IsPrefix(T!UpToZero(T!Relayed(array)), T!UpToZero(array))
      /\ T!Last(T!Relayed(array)) = 0
  BY RelayCutsOnly
<1> QED
  BY <1>1, <1>8, <1>9 DEF T!NamesArrive, shown, m

-----------------------------------------------------------------------------
(* Folders *)

\* One path below another.
LEMMA BelowIs ==
    ASSUME NEW P, NEW p \in Seq(P), NEW q \in Seq(P)
    PROVE  /\ C!Below(p, q) <=> Len(q) <= Len(p) /\ \A i \in 1 .. Len(q) : q[i] = p[i]
           /\ C!Below(p, q) => q = SubSeq(p, 1, Len(q))
<1>1. C!Below(p, q) <=> W!IsPrefix(q, p)
  BY DEF C!Below, C!IsPrefix, W!IsPrefix
<1>2. C!Below(p, q) => SubSeq(q, 1, Len(q)) = SubSeq(p, 1, Len(q))
  BY DEF C!Below, C!IsPrefix
<1> QED
  BY <1>1, <1>2, Prefixes, SubSeqFull

\* The first name of a path.
LEMMA FirstName ==
    ASSUME NEW P, NEW p \in Seq(P), p # <<>>
    PROVE  /\ Len(p) \in Nat /\ Len(p) >= 1 /\ Head(p) = p[1]
           /\ SubSeq(p, 1, 1) = <<p[1]>>
           /\ Len(p) = 1 => SubSeq(p, 1, 1) = p
<1>1. Len(p) \in Nat /\ Len(p) >= 1 /\ Head(p) = p[1]
  BY EmptySeq, Elements
<1>2. SubSeq(p, 1, 1) = <<p[1]>>
  <2>1. 1 \in 1 .. Len(p)
    BY <1>1
  <2>2. SubSeq(p, 1, 1) = <<p[1]>> \o SubSeq(p, 1 + 1, 1)
    BY <2>1, SubSeqRecursiveFirst
  <2>3. SubSeq(p, 1 + 1, 1) = <<>>
    BY SubSeqEmpty
  <2>4. p[1] \in P
    BY <2>1, Elements
  <2>5. <<p[1]>> \in Seq(P)
    BY <2>4, One
  <2> QED
    BY <2>2, <2>3, <2>5, ConcatEmptySeq
<1> QED
  BY <1>1, <1>2, SubSeqFull

\* What stands in a folder that can be cleaned up.
Cleanable(folder, listed) ==
    C!IsFolder(folder, FileNames) /\ C!IsList(listed, FileNames) /\ listed \cap folder.directories = {}

LEMMA FolderIs ==
    ASSUME NEW folder, NEW listed, Cleanable(folder, listed)
    PROVE  /\ folder.files \subseteq Seq(FileNames) /\ folder.directories \subseteq Seq(FileNames)
           /\ folder = [files |-> folder.files, directories |-> folder.directories]
           /\ C!Entries(folder) = folder.files \cup folder.directories
           /\ \A e \in C!Entries(folder) :
                 /\ e \in Seq(FileNames) /\ e # <<>>
                 /\ \A n \in 1 .. Len(e) - 1 : SubSeq(e, 1, n) \in folder.directories
           /\ folder.files \cap folder.directories = {}
           /\ listed \cap folder.directories = {}
<1>1. /\ folder \in [files : SUBSET Seq(FileNames), directories : SUBSET Seq(FileNames)]
      /\ <<>> \notin C!Entries(folder)
      /\ folder.files \cap folder.directories = {}
      /\ listed \cap folder.directories = {}
      /\ \A e \in C!Entries(folder) : \A n \in 1 .. Len(e) - 1 : SubSeq(e, 1, n) \in folder.directories
  BY DEF Cleanable, C!IsFolder
<1>2. C!Entries(folder) = folder.files \cup folder.directories
  BY DEF C!Entries
<1>3. /\ folder.files \subseteq Seq(FileNames) /\ folder.directories \subseteq Seq(FileNames)
      /\ folder = [files |-> folder.files, directories |-> folder.directories]
  BY <1>1
<1> QED
  BY <1>1, <1>2, <1>3

\* What goes from the root, and what goes from the folder data.
FromRoot(folder, listed) ==
    {e \in C!Entries(folder) : Len(e) = 1 /\ ~C!KeptAtRoot(folder, listed, e)}

FromData(folder, listed) ==
    {e \in C!Entries(folder) : /\ Len(e) > 1 /\ Head(e) = "data"
                               /\ ~C!KeptInData(folder, listed, e)}

LEMMA CleanupIs ==
    ASSUME NEW folder, NEW listed, listed # {}
    PROVE  LET rooted == C!WithoutAll(folder, FromRoot(folder, listed))
           IN  /\ C!CleanupDirectories(folder, listed) = C!WithoutAll(rooted, FromData(rooted, listed))
               /\ \A e : e \in rooted.files <=>
                     e \in folder.files /\ \A p \in FromRoot(folder, listed) : ~C!Below(e, p)
               /\ \A e : e \in rooted.directories <=>
                     e \in folder.directories /\ \A p \in FromRoot(folder, listed) : ~C!Below(e, p)
<1> DEFINE rooted == C!WithoutAll(folder, FromRoot(folder, listed))
<1>1. C!CleanupRoot(folder, listed) = rooted
  BY DEF C!CleanupRoot, FromRoot
<1>2. C!CleanupDirectories(folder, listed) = C!CleanupData(rooted, listed)
  BY <1>1 DEF C!CleanupDirectories
<1>3. C!CleanupData(rooted, listed) = C!WithoutAll(rooted, FromData(rooted, listed))
  BY DEF C!CleanupData, FromData
<1>4. /\ rooted.files = {e \in folder.files : \A p \in FromRoot(folder, listed) : ~C!Below(e, p)}
      /\ rooted.directories = {e \in folder.directories : \A p \in FromRoot(folder, listed) : ~C!Below(e, p)}
  BY DEF C!WithoutAll
<1> HIDE DEF rooted
<1>5. \A e : e \in rooted.files <=>
         e \in folder.files /\ \A p \in FromRoot(folder, listed) : ~C!Below(e, p)
  BY <1>4
<1>6. \A e : e \in rooted.directories <=>
         e \in folder.directories /\ \A p \in FromRoot(folder, listed) : ~C!Below(e, p)
  BY <1>4
<1> QED
  BY <1>2, <1>3, <1>5, <1>6 DEF rooted

\* An entry stays at the root if the name at the root that it is below stays.
LEMMA StaysAtRoot ==
    ASSUME NEW folder, NEW listed, Cleanable(folder, listed), NEW e \in C!Entries(folder)
    PROVE  /\ Len(e) = 1 =>
                 ((\A p \in FromRoot(folder, listed) : ~C!Below(e, p)) <=> C!KeptAtRoot(folder, listed, e))
           /\ Len(e) > 1 =>
                 ((\A p \in FromRoot(folder, listed) : ~C!Below(e, p)) <=> Head(e) \in {"user", "data"})
<1> DEFINE first == SubSeq(e, 1, 1)
<1>1. e \in Seq(FileNames) /\ e # <<>>
  BY FolderIs
<1>2. /\ Len(e) \in Nat /\ Len(e) >= 1 /\ Head(e) = e[1] /\ first = <<e[1]>>
      /\ Len(e) = 1 => first = e
  BY <1>1, FirstName
<1>3. Len(e) > 1 => first \in folder.directories
  <2>1. Len(e) > 1 => 1 \in 1 .. Len(e) - 1
    BY <1>2
  <2> QED
    BY <2>1, FolderIs
<1>4. first \in C!Entries(folder)
  <2> HIDE DEF first
  <2>1. Len(e) = 1 \/ Len(e) > 1
    <3>1. Len(e) \in Nat /\ Len(e) >= 1
      BY <1>2
    <3> QED
      BY <3>1
  <2>2. Len(e) = 1 => first \in C!Entries(folder)
    BY <1>2
  <2>3. folder.directories \subseteq C!Entries(folder)
    BY DEF C!Entries
  <2> QED
    BY <1>3, <2>1, <2>2, <2>3
<1>5. first \in Seq(FileNames) /\ Len(first) = 1 /\ first[1] = e[1]
  <2>1. first \in Seq(FileNames)
    BY <1>4, FolderIs
  <2>2. Len(<<e[1]>>) = 1 /\ <<e[1]>>[1] = e[1]
    OBVIOUS
  <2> QED
    BY <1>2, <2>1, <2>2
<1>6. C!Below(e, first)
  <2>1. first \in Seq(FileNames) /\ e \in Seq(FileNames)
    BY <1>1, <1>5
  <2>2. \A i \in 1 .. Len(first) : first[i] = e[i]
    BY <1>5
  <2>3. Len(first) <= Len(e)
    BY <1>2, <1>5
  <2> HIDE DEF first
  <2> QED
    BY <2>1, <2>2, <2>3, BelowIs
<1>7. ASSUME NEW p \in FromRoot(folder, listed), C!Below(e, p) PROVE p = first
  <2>1. p \in Seq(FileNames) /\ Len(p) = 1
    BY FolderIs DEF FromRoot
  <2> QED
    BY <1>1, <1>7, <2>1, BelowIs
<1>8. (\A p \in FromRoot(folder, listed) : ~C!Below(e, p)) <=> C!KeptAtRoot(folder, listed, first)
  <2>1. first \in FromRoot(folder, listed) <=> ~C!KeptAtRoot(folder, listed, first)
    BY <1>4, <1>5 DEF FromRoot
  <2> QED
    BY <1>6, <1>7, <2>1
<1>9. ASSUME Len(e) > 1
      PROVE  C!KeptAtRoot(folder, listed, first) <=> Head(e) \in {"user", "data"}
  <2>1. first \in folder.directories /\ first \notin listed
    BY <1>3, <1>9, FolderIs
  <2>2. first \in {<<"user">>, <<"data">>} <=> e[1] \in {"user", "data"}
    <3>1. first[1] = e[1] /\ first = <<e[1]>>
      BY <1>2, <1>5
    <3>2. <<"user">>[1] = "user" /\ <<"data">>[1] = "data"
      OBVIOUS
    <3> HIDE DEF first
    <3> QED
      BY <3>1, <3>2
  <2> QED
    BY <1>2, <2>1, <2>2 DEF C!KeptAtRoot
<1> QED
  BY <1>2, <1>8, <1>9

\* A file stays in data if the list names it; then all stays that it is below.
LEMMA StaysInData ==
    ASSUME NEW folder, NEW listed, Cleanable(folder, listed), listed # {},
           NEW f \in folder.files, Len(f) > 1, Head(f) = "data",
           NEW rooted, rooted = C!WithoutAll(folder, FromRoot(folder, listed))
    PROVE  (\A p \in FromData(rooted, listed) : ~C!Below(f, p)) <=> f \in listed
<1>1. /\ \A e : e \in rooted.files <=>
            e \in folder.files /\ \A p \in FromRoot(folder, listed) : ~C!Below(e, p)
      /\ \A e : e \in rooted.directories <=>
            e \in folder.directories /\ \A p \in FromRoot(folder, listed) : ~C!Below(e, p)
  BY CleanupIs
<1>2. f \in C!Entries(folder) /\ f \in Seq(FileNames) /\ f \notin folder.directories
  BY FolderIs
<1>3. f \in rooted.files /\ f \notin rooted.directories /\ f \in C!Entries(rooted)
  <2>1. f \in rooted.files
    BY <1>1, <1>2, StaysAtRoot
  <2> QED
    BY <1>1, <1>2, <2>1 DEF C!Entries
<1>4. f \in listed => f \in C!Legal(listed)
  BY FoldersAssumption DEF C!Legal
<1>5. ASSUME f \notin listed PROVE f \in FromData(rooted, listed) /\ C!Below(f, f)
  <2>1. f \notin C!Legal(listed)
    BY <1>5 DEF C!Legal
  <2>2. ~C!KeptInData(rooted, listed, f)
    BY <1>3, <2>1 DEF C!KeptInData
  <2>3. C!Below(f, f)
    <3>1. Len(f) \in Nat
      BY <1>2, Elements
    <3> QED
      BY <1>2, <3>1, BelowIs
  <2> QED
    BY <1>3, <2>2, <2>3 DEF FromData
<1>6. ASSUME f \in listed, NEW p \in FromData(rooted, listed), C!Below(f, p)
      PROVE  FALSE
  <2>1. p \in C!Entries(rooted) /\ ~C!KeptInData(rooted, listed, p)
    BY DEF FromData
  <2>2. p \in C!Entries(folder) /\ p \in Seq(FileNames) /\ p # <<>>
    <3>1. p \in C!Entries(folder)
      BY <1>1, <2>1 DEF C!Entries
    <3> QED
      BY <3>1, FolderIs
  <2>3. p = SubSeq(f, 1, Len(p)) /\ Len(p) <= Len(f) /\ Len(p) \in Nat /\ Len(p) >= 1 /\ Len(f) \in Nat
    BY <1>2, <1>6, <2>2, BelowIs, FirstName, Elements
  <2>4. CASE Len(p) = Len(f)
    <3>1. p = f
      BY <1>2, <2>3, <2>4, SubSeqFull
    <3> QED
      BY <1>3, <1>4, <1>6, <2>1, <3>1 DEF C!KeptInData
  <2>5. CASE Len(p) < Len(f)
    <3>1. Len(p) \in 1 .. Len(f) - 1
      BY <2>3, <2>5
    <3>2. p \in folder.directories
      <4>1. \A n \in 1 .. Len(f) - 1 : SubSeq(f, 1, n) \in folder.directories
        BY <1>2, FolderIs
      <4>2. SubSeq(f, 1, Len(p)) \in folder.directories
        BY <3>1, <4>1
      <4> QED
        BY <2>3, <4>2
    <3>3. p \in rooted.directories
      BY <1>1, <2>1, <3>2, FolderIs DEF C!Entries
    <3> QED
      BY <1>4, <1>6, <2>1, <3>3 DEF C!KeptInData
  <2> QED
    BY <2>3, <2>4, <2>5
<1> QED
  BY <1>5, <1>6

\* Without what is to go, nothing more is to go.
LEMMA NothingMore ==
    ASSUME NEW folder, NEW listed, Cleanable(folder, listed), listed # {}
    PROVE  LET left == C!CleanupDirectories(folder, listed)
           IN  C!CleanupDirectories(left, listed) = left
<1> DEFINE rooted == C!WithoutAll(folder, FromRoot(folder, listed))
           left == C!WithoutAll(rooted, FromData(rooted, listed))
<1>1. C!CleanupDirectories(folder, listed) = left
  BY CleanupIs
<1>2. /\ \A e : e \in rooted.files <=>
            e \in folder.files /\ \A p \in FromRoot(folder, listed) : ~C!Below(e, p)
      /\ \A e : e \in rooted.directories <=>
            e \in folder.directories /\ \A p \in FromRoot(folder, listed) : ~C!Below(e, p)
  BY CleanupIs
<1>3. /\ left.files = {e \in rooted.files : \A p \in FromData(rooted, listed) : ~C!Below(e, p)}
      /\ left.directories = {e \in rooted.directories : \A p \in FromData(rooted, listed) : ~C!Below(e, p)}
      /\ left = [files |-> left.files, directories |-> left.directories]
  BY DEF C!WithoutAll
<1> HIDE DEF left, rooted
<1>4. ASSUME NEW e \in C!Entries(left)
      PROVE  /\ e \in C!Entries(folder) /\ e \in C!Entries(rooted)
             /\ e \notin FromRoot(folder, listed) /\ e \notin FromData(rooted, listed)
             /\ e \in folder.directories => e \in left.directories /\ e \notin folder.files
             /\ e \in folder.files => e \in left.files /\ e \notin folder.directories
  <2>1. /\ e \in left.files => e \in rooted.files /\ e \in folder.files
        /\ e \in left.directories => e \in rooted.directories /\ e \in folder.directories
        /\ e \in left.files \/ e \in left.directories
    BY <1>2, <1>3, <1>4 DEF C!Entries
  <2>2. e \in C!Entries(folder) /\ e \in C!Entries(rooted)
    BY <2>1 DEF C!Entries
  <2>3. e \in Seq(FileNames) /\ C!Below(e, e)
    <3>1. e \in Seq(FileNames)
      BY <2>2, FolderIs
    <3>2. Len(e) \in Nat
      BY <3>1, Elements
    <3> QED
      BY <3>1, <3>2, BelowIs
  <2>4. e \notin FromRoot(folder, listed)
    BY <1>2, <2>1, <2>3
  <2>5. e \notin FromData(rooted, listed)
    BY <1>3, <2>1, <2>3
  <2>6. ~(e \in folder.files /\ e \in folder.directories)
    BY FolderIs
  <2> QED
    BY <2>1, <2>2, <2>4, <2>5, <2>6
<1>5. FromRoot(left, listed) = {}
  <2> SUFFICES ASSUME NEW e \in C!Entries(left), Len(e) = 1 PROVE C!KeptAtRoot(left, listed, e)
    BY DEF FromRoot
  <2>1. C!KeptAtRoot(folder, listed, e)
    BY <1>4 DEF FromRoot
  <2> QED
    BY <1>4, <2>1 DEF C!KeptAtRoot
<1>6. FromData(left, listed) = {}
  <2> SUFFICES ASSUME NEW e \in C!Entries(left), Len(e) > 1, Head(e) = "data"
               PROVE  C!KeptInData(left, listed, e)
    BY DEF FromData
  <2>1. C!KeptInData(rooted, listed, e)
    BY <1>4 DEF FromData
  <2>2. /\ e \in rooted.directories => e \in left.directories
        /\ e \in rooted.files => e \in left.files
    BY <1>2, <1>4
  <2> QED
    BY <2>1, <2>2 DEF C!KeptInData
<1>7. C!WithoutAll(left, {}) = left
  <2>1. C!WithoutAll(left, {}) = [files |-> left.files, directories |-> left.directories]
    BY DEF C!WithoutAll
  <2> QED
    BY <1>3, <2>1
<1>8. C!CleanupDirectories(left, listed)
      = C!WithoutAll(C!WithoutAll(left, FromRoot(left, listed)),
                     FromData(C!WithoutAll(left, FromRoot(left, listed)), listed))
  BY CleanupIs
<1>9. C!CleanupDirectories(left, listed) = left
  BY <1>5, <1>6, <1>7, <1>8
<1> QED
  BY <1>1, <1>9

LEMMA CleanupSpares ==
    ASSUME NEW folder, NEW listed, Cleanable(folder, listed)
    PROVE  C!SparesWhatItShould(folder, listed)
<1> DEFINE left == C!CleanupDirectories(folder, listed)
           placed == {l \in listed : Len(l) = 1 \/ Head(l) = "data"}
           rooted == C!WithoutAll(folder, FromRoot(folder, listed))
<1>1. ASSUME listed = {} PROVE left = folder
  BY <1>1 DEF C!CleanupDirectories
<1>2. ASSUME listed # {}
      PROVE  left.files = {f \in folder.files : \/ Head(f) = "user" /\ <<"user">> \in folder.directories
                                                \/ f \in placed}
  <2>1. left = C!WithoutAll(rooted, FromData(rooted, listed))
    BY <1>2, CleanupIs
  <2>2. \A f : f \in left.files <=>
           f \in rooted.files /\ \A p \in FromData(rooted, listed) : ~C!Below(f, p)
    BY <2>1 DEF C!WithoutAll
  <2>3. \A f : f \in rooted.files <=>
           f \in folder.files /\ \A p \in FromRoot(folder, listed) : ~C!Below(f, p)
    BY <1>2, CleanupIs
  <2>4. \A p \in FromData(rooted, listed) :
           p \in Seq(FileNames) /\ Len(p) \in Nat /\ Len(p) > 1 /\ Head(p) = "data" /\ Head(p) = p[1]
    <3> SUFFICES ASSUME NEW p \in FromData(rooted, listed)
                 PROVE  p \in Seq(FileNames) /\ Len(p) \in Nat /\ Len(p) > 1 /\ Head(p) = "data" /\ Head(p) = p[1]
      OBVIOUS
    <3>1. p \in C!Entries(rooted) /\ Len(p) > 1 /\ Head(p) = "data"
      BY DEF FromData
    <3>2. p \in C!Entries(folder)
      BY <1>2, <3>1, CleanupIs DEF C!Entries
    <3>3. p \in Seq(FileNames) /\ p # <<>>
      BY <3>2, FolderIs
    <3> QED
      BY <3>1, <3>3, FirstName
  <2> HIDE DEF left, rooted
  <2>5. ASSUME NEW f \in folder.files
        PROVE  f \in left.files <=> \/ Head(f) = "user" /\ <<"user">> \in folder.directories
                                    \/ f \in placed
    <3>1. f \in C!Entries(folder) /\ f \in Seq(FileNames) /\ f # <<>> /\ f \notin folder.directories
      BY FolderIs
    <3>2. Len(f) \in Nat /\ Len(f) >= 1 /\ Head(f) = f[1] /\ SubSeq(f, 1, 1) = <<f[1]>>
          /\ (Len(f) = 1 => SubSeq(f, 1, 1) = f)
      BY <3>1, FirstName
    <3>3. ASSUME NEW p \in FromData(rooted, listed), C!Below(f, p)
          PROVE  Len(f) > 1 /\ Head(f) = "data"
      <4>1. p \in Seq(FileNames) /\ Len(p) \in Nat /\ Len(p) > 1 /\ Head(p) = "data" /\ Head(p) = p[1]
        BY <2>4
      <4>2. Len(p) <= Len(f) /\ p[1] = f[1]
        BY <3>1, <3>3, <4>1, BelowIs
      <4> QED
        BY <3>2, <4>1, <4>2
    <3>4. CASE Len(f) = 1
      <4>1. f \in rooted.files <=> C!KeptAtRoot(folder, listed, f)
        BY <2>3, <3>1, <3>4, StaysAtRoot
      <4>2. f \in left.files <=> f \in listed
        BY <2>2, <3>1, <3>2, <3>3, <3>4, <4>1 DEF C!KeptAtRoot
      <4>3. Head(f) = "user" => <<"user">> \notin folder.directories
        BY <3>1, <3>2, <3>4
      <4> QED
        BY <3>4, <4>2, <4>3
    <3>5. CASE Len(f) > 1
      <4>1. f \in rooted.files <=> Head(f) \in {"user", "data"}
        BY <2>3, <3>1, <3>5, StaysAtRoot
      <4>2. CASE Head(f) = "data"
        <5>1. (\A p \in FromData(rooted, listed) : ~C!Below(f, p)) <=> f \in listed
          BY <1>2, <3>5, <4>2, StaysInData DEF rooted
        <5> QED
          BY <2>2, <4>1, <4>2, <5>1
      <4>3. CASE Head(f) = "user"
        <5>1. <<"user">> \in folder.directories
          <6>1. 1 \in 1 .. Len(f) - 1
            BY <3>2, <3>5
          <6>2. \A n \in 1 .. Len(f) - 1 : SubSeq(f, 1, n) \in folder.directories
            BY <3>1, FolderIs
          <6>3. SubSeq(f, 1, 1) \in folder.directories
            BY <6>1, <6>2
          <6>4. f[1] = "user"
            BY <3>2, <4>3
          <6> QED
            BY <3>2, <6>3, <6>4
        <5>2. f \in left.files
          BY <2>2, <3>3, <4>1, <4>3
        <5> QED
          BY <4>3, <5>1, <5>2
      <4>4. CASE Head(f) \notin {"user", "data"}
        BY <2>2, <3>2, <3>5, <4>1, <4>4
      <4> QED
        BY <4>2, <4>3, <4>4
    <3> QED
      BY <3>2, <3>4, <3>5
  <2> HIDE DEF placed
  <2>6. \A f \in left.files : f \in folder.files
    BY <2>2, <2>3
  <2> QED
    BY <2>5, <2>6
<1>3. C!CleanupDirectories(left, listed) = left
  <2>1. CASE listed = {}
    BY <2>1 DEF C!CleanupDirectories
  <2>2. CASE listed # {}
    BY <2>2, NothingMore
  <2> QED
    BY <2>1, <2>2
<1> HIDE DEF left, placed
<1>4. LET l == C!CleanupDirectories(folder, listed)
          q == {x \in listed : Len(x) = 1 \/ Head(x) = "data"}
      IN  l = left /\ q = placed
  BY DEF left, placed
<1> QED
  BY <1>1, <1>2, <1>3, <1>4 DEF C!SparesWhatItShould

-----------------------------------------------------------------------------
(* Scripts *)

\* The places up to the k-th are k.
LEMMA Ranks ==
    ASSUME NEW n \in Nat, NEW I \in SUBSET (1 .. n)
    PROVE  /\ Cardinality(I) \in Nat
           /\ \A i \in I : Cardinality({j \in I : j <= i}) \in 1 .. Cardinality(I)
           /\ \A i, k \in I : i < k => Cardinality({j \in I : j <= i}) < Cardinality({j \in I : j <= k})
           /\ \A k \in 1 .. Cardinality(I) : \E i \in I : Cardinality({j \in I : j <= i}) = k
<1> DEFINE UpTo(i) == {j \in I : j <= i}
           rank == [i \in I |-> Cardinality(UpTo(i))]
<1>1. IsFiniteSet(I)
  <2>1. IsFiniteSet(1 .. n)
    BY FS_Interval
  <2> QED
    BY <2>1, FS_Subset
<1>2. Cardinality(I) \in Nat
  BY <1>1, FS_CardinalityType
<1>3. \A i : /\ IsFiniteSet(UpTo(i)) /\ Cardinality(UpTo(i)) \in Nat
             /\ Cardinality(UpTo(i)) <= Cardinality(I)
  <2> TAKE i
  <2>1. UpTo(i) \in SUBSET I
    OBVIOUS
  <2> HIDE DEF UpTo
  <2>2. IsFiniteSet(UpTo(i)) /\ Cardinality(UpTo(i)) <= Cardinality(I)
    BY <1>1, <2>1, FS_Subset
  <2> QED
    BY <2>2, FS_CardinalityType
<1>4. ASSUME NEW i \in I PROVE Cardinality(UpTo(i)) >= 1
  <2>1. i \in UpTo(i)
    OBVIOUS
  <2> HIDE DEF UpTo
  <2>2. Cardinality(UpTo(i)) # 0
    BY <1>3, <2>1, FS_EmptySet
  <2> QED
    BY <1>3, <2>2
<1>5. ASSUME NEW i \in I, NEW k \in I, i < k
      PROVE  Cardinality(UpTo(i)) < Cardinality(UpTo(k))
  <2>1. UpTo(i) \in SUBSET UpTo(k) /\ k \in UpTo(k) /\ k \notin UpTo(i)
    <3>1. \A j \in I : j \in Nat /\ (j <= i => j <= k)
      BY <1>5
    <3>2. k <= k /\ ~(k <= i)
      BY <1>5, <3>1
    <3> QED
      BY <3>1, <3>2
  <2> HIDE DEF UpTo
  <2>2. Cardinality(UpTo(i)) <= Cardinality(UpTo(k)) /\ Cardinality(UpTo(i)) # Cardinality(UpTo(k))
    BY <1>3, <2>1, FS_Subset
  <2> QED
    BY <1>3, <2>2
<1>6. ASSUME NEW k \in 1 .. Cardinality(I), \A i \in I : Cardinality(UpTo(i)) # k
      PROVE  FALSE
  <2> DEFINE rest == (1 .. Cardinality(I)) \ {k}
  <2>1. IsFiniteSet(rest) /\ Cardinality(rest) < Cardinality(I)
    <3>1. IsFiniteSet(1 .. Cardinality(I)) /\ Cardinality(1 .. Cardinality(I)) = Cardinality(I)
      BY <1>2, FS_Interval
    <3>2. IsFiniteSet(rest) /\ Cardinality(rest) = Cardinality(1 .. Cardinality(I)) - 1
      BY <3>1, FS_RemoveElement
    <3> QED
      BY <1>2, <3>1, <3>2
  <2>2. rank \in [I -> rest]
    <3>1. \A i \in I : Cardinality(UpTo(i)) \in rest
      <4> HIDE DEF UpTo
      <4> QED
        BY <1>2, <1>3, <1>4, <1>6
    <3> HIDE DEF rest, UpTo
    <3> QED
      BY <3>1
  <2> HIDE DEF rest
  <2>3. PICK x, y \in I : x # y /\ rank[x] = rank[y]
    <3> HIDE DEF rank
    <3> QED
      BY <1>1, <2>1, <2>2, FS_PigeonHole
  <2>4. Cardinality(UpTo(x)) = Cardinality(UpTo(y))
    <3> HIDE DEF UpTo
    <3> QED
      BY <2>3
  <2>5. x < y \/ y < x
    BY <2>3
  <2> HIDE DEF UpTo
  <2> QED
    BY <1>3, <1>5, <2>4, <2>5
<1>7. /\ \A i \in I : Cardinality(UpTo(i)) \in 1 .. Cardinality(I)
      /\ \A i, k \in I : i < k => Cardinality(UpTo(i)) < Cardinality(UpTo(k))
      /\ \A k \in 1 .. Cardinality(I) : \E i \in I : Cardinality(UpTo(i)) = k
  <2> HIDE DEF UpTo
  <2> QED
    BY <1>2, <1>3, <1>4, <1>5, <1>6
<1> QED
  BY <1>2, <1>7

\* What is kept of a list is what stands at the places that are kept.
LEMMA KeptAre ==
    ASSUME NEW P, NEW s \in Seq(P), NEW I \in SUBSET DOMAIN s
    PROVE  /\ O!Kept(s, I) \in Seq(P)
           /\ \A x : x \in O!ToSet(O!Kept(s, I)) <=> \E i \in I : s[i] = x
<1> DEFINE rank(i) == O!Cardinality({j \in I : j <= i})
           Nth(k) == CHOOSE i \in I : O!Cardinality({j \in I : j <= i}) = k
<1>1. Len(s) \in Nat /\ DOMAIN s = 1 .. Len(s) /\ \A i \in 1 .. Len(s) : s[i] \in P
  BY Elements
<1>0. \A S : O!Cardinality(S) = Cardinality(S)
  BY DEF O!Cardinality, Cardinality
<1>2. /\ O!Cardinality(I) \in Nat
      /\ \A i \in I : rank(i) \in 1 .. O!Cardinality(I)
      /\ \A i, k \in I : i < k => rank(i) < rank(k)
      /\ \A k \in 1 .. O!Cardinality(I) : \E i \in I : rank(i) = k
  <2>1. I \in SUBSET (1 .. Len(s))
    BY <1>1
  <2>2. /\ Cardinality(I) \in Nat
        /\ \A i \in I : Cardinality({j \in I : j <= i}) \in 1 .. Cardinality(I)
        /\ \A i, k \in I : i < k => Cardinality({j \in I : j <= i}) < Cardinality({j \in I : j <= k})
        /\ \A k \in 1 .. Cardinality(I) : \E i \in I : Cardinality({j \in I : j <= i}) = k
    BY <1>1, <2>1, Ranks
  <2> HIDE DEF Nth
  <2> QED
    BY <1>0, <2>2
<1>3. O!Kept(s, I) = [k \in 1 .. O!Cardinality(I) |-> s[Nth(k)]]
  BY DEF O!Kept
<1>4. \A k \in 1 .. O!Cardinality(I) : Nth(k) \in I /\ rank(Nth(k)) = k
  BY <1>2
<1> HIDE DEF rank
<1>5. \A i \in I : Nth(rank(i)) = i
  <2> TAKE i \in I
  <2>1. rank(i) \in 1 .. O!Cardinality(I)
    BY <1>2
  <2>2. Nth(rank(i)) \in I /\ rank(Nth(rank(i))) = rank(i)
    BY <1>4, <2>1
  <2> HIDE DEF Nth
  <2>3. i \in Nat /\ Nth(rank(i)) \in Nat
    BY <1>1, <2>2
  <2>4. ~(i < Nth(rank(i))) /\ ~(Nth(rank(i)) < i)
    BY <1>2, <2>1, <2>2
  <2> QED
    BY <2>3, <2>4
<1> HIDE DEF Nth
<1>6. \A k \in 1 .. O!Cardinality(I) : s[Nth(k)] \in P
  BY <1>1, <1>4
<1>7. O!Kept(s, I) \in Seq(P)
  BY <1>2, <1>3, <1>6, IsASeq
<1>8. ASSUME NEW x
      PROVE  x \in O!ToSet(O!Kept(s, I)) <=> \E i \in I : s[i] = x
  <2>1. x \in O!ToSet(O!Kept(s, I)) <=> \E k \in 1 .. O!Cardinality(I) : s[Nth(k)] = x
    BY <1>3 DEF O!ToSet
  <2> QED
    BY <1>2, <1>4, <1>5, <2>1
<1> QED
  BY <1>7, <1>8

\* The elements of a list, and of two that stand one behind the other.
LEMMA ToSetIs ==
    ASSUME NEW P, NEW s \in Seq(P), NEW t \in Seq(P)
    PROVE  /\ \A x : x \in O!ToSet(s) <=> \E i \in 1 .. Len(s) : s[i] = x
           /\ s \o t \in Seq(P)
           /\ O!ToSet(s \o t) = O!ToSet(s) \cup O!ToSet(t)
<1>1. /\ Len(s) \in Nat /\ DOMAIN s = 1 .. Len(s)
      /\ Len(t) \in Nat /\ DOMAIN t = 1 .. Len(t)
  BY Elements
<1>2. /\ s \o t \in Seq(P) /\ Len(s \o t) = Len(s) + Len(t)
      /\ \A i \in 1 .. Len(s) + Len(t) : (s \o t)[i] = IF i <= Len(s) THEN s[i] ELSE t[i - Len(s)]
  BY ConcatProperties
<1>3. DOMAIN (s \o t) = 1 .. Len(s) + Len(t)
  BY <1>2, Elements
<1>4. /\ \A x : x \in O!ToSet(s) <=> \E i \in 1 .. Len(s) : s[i] = x
      /\ \A x : x \in O!ToSet(t) <=> \E i \in 1 .. Len(t) : t[i] = x
      /\ \A x : x \in O!ToSet(s \o t) <=> \E i \in 1 .. Len(s) + Len(t) : (s \o t)[i] = x
  BY <1>1, <1>3 DEF O!ToSet
<1>5. \A i \in 1 .. Len(s) : i \in 1 .. Len(s) + Len(t) /\ (s \o t)[i] = s[i]
  BY <1>1, <1>2
<1>6. \A i \in 1 .. Len(t) : Len(s) + i \in 1 .. Len(s) + Len(t) /\ (s \o t)[Len(s) + i] = t[i]
  <2> TAKE i \in 1 .. Len(t)
  <2>1. Len(s) + i \in 1 .. Len(s) + Len(t) /\ ~(Len(s) + i <= Len(s)) /\ Len(s) + i - Len(s) = i
    BY <1>1
  <2> QED
    BY <1>2, <2>1
<1>7. \A i \in 1 .. Len(s) + Len(t) :
         \/ i \in 1 .. Len(s) /\ (s \o t)[i] = s[i]
         \/ i - Len(s) \in 1 .. Len(t) /\ (s \o t)[i] = t[i - Len(s)]
  <2> TAKE i \in 1 .. Len(s) + Len(t)
  <2>1. i <= Len(s) => i \in 1 .. Len(s)
    OBVIOUS
  <2>2. ~(i <= Len(s)) => i - Len(s) \in 1 .. Len(t)
    BY <1>1
  <2>3. (s \o t)[i] = IF i <= Len(s) THEN s[i] ELSE t[i - Len(s)]
    BY <1>2
  <2> QED
    BY <2>1, <2>2, <2>3, Zenon
<1>8. ASSUME NEW x
      PROVE  x \in O!ToSet(s \o t) <=> x \in O!ToSet(s) \/ x \in O!ToSet(t)
  <2>1. ASSUME x \in O!ToSet(s \o t) PROVE x \in O!ToSet(s) \/ x \in O!ToSet(t)
    BY <1>4, <1>7, <2>1
  <2>2. ASSUME x \in O!ToSet(s) PROVE x \in O!ToSet(s \o t)
    BY <1>4, <1>5, <2>2
  <2>3. ASSUME x \in O!ToSet(t) PROVE x \in O!ToSet(s \o t)
    BY <1>4, <1>6, <2>3
  <2> QED
    BY <2>1, <2>2, <2>3
<1> QED
  BY <1>2, <1>4, <1>8

\* Where the folder of scripts is, by its three pieces.
LEMMA PiecesAt ==
    ASSUME NEW s \in Seq(Pieces)
    PROVE  \A i : i \in O!Positions(s) <=>
              /\ i \in 1 .. Len(s) - 2
              /\ s[i] = "/" /\ s[i + 1] = "scripts" /\ s[i + 2] = "/"
<1>1. Len(s) \in Nat /\ \A i \in 1 .. Len(s) : s[i] \in Pieces
  BY Elements
<1>2. /\ O!Separator = <<"/", "scripts", "/">> /\ Len(O!Separator) = 3
      /\ O!Separator[1] = "/" /\ O!Separator[2] = "scripts" /\ O!Separator[3] = "/"
  BY DEF O!Separator
<1>3. O!Separator \in Seq(Pieces)
  <2>1. \A i \in 1 .. 3 : O!Separator[i] \in Pieces
    BY ScriptsAssumption
  <2>2. "/" \in Pieces /\ "scripts" \in Pieces
    BY <1>2, <2>1
  <2> QED
    BY <1>2, <2>2
<1> SUFFICES ASSUME NEW i \in 1 .. Len(s) - 2
             PROVE  SubSeq(s, i, i + 2) = O!Separator <=>
                       s[i] = "/" /\ s[i + 1] = "scripts" /\ s[i + 2] = "/"
  BY DEF O!Positions
<1> DEFINE cut == SubSeq(s, i, i + 2)
<1>4. cut \in Seq(Pieces) /\ Len(cut) = 3 /\ cut[1] = s[i] /\ cut[2] = s[i + 1] /\ cut[3] = s[i + 2]
  <2>1. i \in Nat /\ i + 2 \in Nat /\ i >= 1 /\ i + 2 <= Len(s)
    BY <1>1
  <2>2. /\ cut \in Seq(Pieces)
        /\ Len(cut) = IF i <= i + 2 THEN i + 2 - i + 1 ELSE 0
        /\ \A k \in 1 .. i + 2 - i + 1 : cut[k] = s[i + k - 1]
    BY <2>1, Part
  <2>3. /\ i <= i + 2 /\ i + 2 - i + 1 = 3
        /\ i + 1 - 1 = i /\ i + 2 - 1 = i + 1 /\ i + 3 - 1 = i + 2
    BY <2>1
  <2>4. Len(cut) = 3 /\ \A k \in 1 .. 3 : cut[k] = s[i + k - 1]
    BY <2>2, <2>3
  <2> HIDE DEF cut
  <2> QED
    BY <2>2, <2>3, <2>4
<1> HIDE DEF cut
<1>5. cut = O!Separator <=> s[i] = "/" /\ s[i + 1] = "scripts" /\ s[i + 2] = "/"
  <2>1. ASSUME s[i] = "/", s[i + 1] = "scripts", s[i + 2] = "/"
        PROVE  cut = O!Separator
    <3>1. \A k \in 1 .. 3 : k = 1 \/ k = 2 \/ k = 3
      OBVIOUS
    <3>2. \A k \in 1 .. Len(cut) : cut[k] = O!Separator[k]
      BY <1>2, <1>4, <2>1, <3>1
    <3> QED
      BY <1>2, <1>3, <1>4, <3>2, SeqEqual
  <2> QED
    BY <1>2, <1>4, <2>1
<1> QED
  BY <1>5 DEF cut

\* A script in a folder of scripts is known by its name there.
LEMMA PartIs ==
    ASSUME NEW root \in Seq(Pieces), NEW name \in Seq(Pieces),
           O!Positions(Append(root, "/")) = {}
    PROVE  /\ root \o O!Separator \o name \in Seq(Pieces)
           /\ O!Part(root \o O!Separator \o name) = {name}
<1> DEFINE path == root \o O!Separator \o name
           sep == O!Separator
           r == Len(root)
<1>1. /\ sep \in Seq(Pieces) /\ Len(sep) = 3 /\ "/" \in Pieces
      /\ sep[1] = "/" /\ sep[2] = "scripts" /\ sep[3] = "/"
  <2>1. /\ sep = <<"/", "scripts", "/">> /\ Len(sep) = 3
        /\ sep[1] = "/" /\ sep[2] = "scripts" /\ sep[3] = "/"
    BY DEF O!Separator
  <2>2. \A i \in 1 .. 3 : sep[i] \in Pieces
    BY ScriptsAssumption
  <2>3. "/" \in Pieces /\ "scripts" \in Pieces
    BY <2>1, <2>2
  <2> QED
    BY <2>1, <2>3
<1>2. r \in Nat /\ Len(name) \in Nat
  BY Elements
<1> HIDE DEF sep, r
<1>3. /\ root \o sep \in Seq(Pieces) /\ Len(root \o sep) = r + 3
      /\ \A i \in 1 .. r + 3 : (root \o sep)[i] = IF i <= r THEN root[i] ELSE sep[i - r]
  <2>1. /\ root \o sep \in Seq(Pieces) /\ Len(root \o sep) = r + Len(sep)
        /\ \A i \in 1 .. r + Len(sep) : (root \o sep)[i] = IF i <= r THEN root[i] ELSE sep[i - r]
    BY <1>1, ConcatProperties DEF r
  <2> QED
    BY <1>1, <2>1
<1>4. /\ path \in Seq(Pieces) /\ Len(path) = r + 3 + Len(name)
      /\ \A i \in 1 .. r + 3 + Len(name) :
            path[i] = IF i <= r + 3 THEN (root \o sep)[i] ELSE name[i - (r + 3)]
  <2> DEFINE front == root \o sep
  <2>1. path = front \o name
    BY DEF sep
  <2>2. front \in Seq(Pieces) /\ Len(front) = r + 3
    BY <1>3
  <2> HIDE DEF front, path
  <2>3. /\ front \o name \in Seq(Pieces) /\ Len(front \o name) = Len(front) + Len(name)
        /\ \A i \in 1 .. Len(front) + Len(name) :
              (front \o name)[i] = IF i <= Len(front) THEN front[i] ELSE name[i - Len(front)]
    BY <2>2, ConcatProperties
  <2>4. /\ path \in Seq(Pieces) /\ Len(path) = r + 3 + Len(name)
        /\ \A i \in 1 .. r + 3 + Len(name) :
              path[i] = IF i <= r + 3 THEN front[i] ELSE name[i - (r + 3)]
    BY <2>1, <2>2, <2>3
  <2> QED
    BY <2>4 DEF front
<1> HIDE DEF path
<1>5. /\ \A i \in 1 .. r : path[i] = root[i]
      /\ path[r + 1] = "/" /\ path[r + 2] = "scripts" /\ path[r + 3] = "/"
      /\ \A i \in 1 .. Len(name) : path[r + 3 + i] = name[i]
  <2>1. \A i \in 1 .. r : path[i] = root[i]
    <3> TAKE i \in 1 .. r
    <3>1. i \in 1 .. r + 3 + Len(name) /\ i <= r + 3 /\ i \in 1 .. r + 3 /\ i <= r
      BY <1>2
    <3>2. path[i] = (root \o sep)[i] /\ (root \o sep)[i] = root[i]
      BY <1>3, <1>4, <3>1
    <3> QED
      BY <3>2
  <2>2. \A i \in 1 .. 3 : path[r + i] = sep[i]
    <3> TAKE i \in 1 .. 3
    <3> DEFINE k == r + i
    <3>1. k \in 1 .. r + 3 + Len(name) /\ k <= r + 3 /\ k \in 1 .. r + 3 /\ ~(k <= r) /\ k - r = i
      BY <1>2
    <3> HIDE DEF k
    <3>2. path[k] = (root \o sep)[k] /\ (root \o sep)[k] = sep[k - r]
      BY <1>3, <1>4, <3>1
    <3> QED
      BY <3>1, <3>2 DEF k
  <2>3. \A i \in 1 .. Len(name) : path[r + 3 + i] = name[i]
    <3> TAKE i \in 1 .. Len(name)
    <3> DEFINE k == r + 3 + i
    <3>1. k \in 1 .. r + 3 + Len(name) /\ ~(k <= r + 3) /\ k - (r + 3) = i
      BY <1>2
    <3> HIDE DEF k
    <3>2. path[k] = name[k - (r + 3)]
      BY <1>4, <3>1
    <3> QED
      BY <3>1, <3>2 DEF k
  <2> QED
    BY <1>1, <2>1, <2>2, <2>3
<1>6. r + 1 \in O!Positions(path)
  <2>1. r + 1 \in 1 .. Len(path) - 2 /\ r + 1 + 1 = r + 2 /\ r + 1 + 2 = r + 3
    BY <1>2, <1>4
  <2>2. path[r + 1] = "/" /\ path[r + 1 + 1] = "scripts" /\ path[r + 1 + 2] = "/"
    BY <1>5, <2>1
  <2>3. path \in Seq(Pieces)
    BY <1>4
  <2> QED
    BY <2>1, <2>2, <2>3, PiecesAt, Zenon
<1>7. ASSUME NEW j \in O!Positions(path), j < r + 1
      PROVE  FALSE
  <2>1. j \in 1 .. Len(path) - 2 /\ path[j] = "/" /\ path[j + 1] = "scripts" /\ path[j + 2] = "/"
    BY <1>4, PiecesAt
  <2>2. j \in Nat /\ j >= 1 /\ j <= r
    BY <1>2, <1>4, <1>7, <2>1
  <2>3. j # r
    BY <1>5, <2>1
  <2>4. j + 1 \in 1 .. r /\ j \in 1 .. r /\ (j + 2 \in 1 .. r \/ j + 2 = r + 1)
    BY <1>2, <2>2, <2>3
  <2> DEFINE ended == Append(root, "/")
  <2>5. /\ ended \in Seq(Pieces) /\ Len(ended) = r + 1
        /\ \A i \in 1 .. r : ended[i] = root[i]
        /\ ended[r + 1] = "/"
    BY <1>1, AppendProperties DEF r
  <2> HIDE DEF ended
  <2>6. ended[j] = "/" /\ ended[j + 1] = "scripts" /\ ended[j + 2] = "/"
    BY <1>5, <2>1, <2>4, <2>5
  <2>7. j \in 1 .. Len(ended) - 2
    BY <1>2, <2>2, <2>4, <2>5
  <2>8. j \in O!Positions(ended)
    BY <2>5, <2>6, <2>7, PiecesAt
  <2> QED
    BY <2>8 DEF ended
<1>8. O!Positions(path) \subseteq Nat
  <2>1. Len(path) \in Nat
    BY <1>4, Elements
  <2> QED
    BY <2>1 DEF O!Positions
<1>9. \A i : i \in O!FirstPosition(path) <=> i = r + 1
  <2>1. \A j \in O!Positions(path) : r + 1 <= j
    BY <1>2, <1>7, <1>8
  <2>2. \A i \in O!Positions(path) : (\A j \in O!Positions(path) : i <= j) <=> i = r + 1
    BY <1>2, <1>6, <1>8, <2>1
  <2> QED
    BY <1>6, <2>2 DEF O!FirstPosition
<1>10. SubSeq(path, r + 1 + 3, Len(path)) = name
  <2> DEFINE rest == SubSeq(path, r + 1 + 3, Len(path))
  <2>1. r + 1 + 3 \in Nat /\ r + 1 + 3 >= 1 /\ Len(path) \in Nat /\ Len(path) <= Len(path)
    BY <1>2, <1>4
  <2>2. /\ rest \in Seq(Pieces)
        /\ Len(rest) = IF r + 1 + 3 <= Len(path) THEN Len(path) - (r + 1 + 3) + 1 ELSE 0
        /\ \A i \in 1 .. Len(path) - (r + 1 + 3) + 1 : rest[i] = path[r + 1 + 3 + i - 1]
    BY <1>4, <2>1, Part
  <2> HIDE DEF rest
  <2>3. /\ Len(path) - (r + 1 + 3) + 1 = Len(name)
        /\ Len(rest) = Len(name)
    BY <1>2, <1>4, <2>2
  <2>4. \A i \in 1 .. Len(name) : rest[i] = name[i]
    <3> TAKE i \in 1 .. Len(name)
    <3>1. r + 1 + 3 + i - 1 = r + 3 + i
      BY <1>2
    <3>2. rest[i] = path[r + 1 + 3 + i - 1]
      BY <2>2, <2>3
    <3> QED
      BY <1>5, <3>1, <3>2
  <2>5. rest = name
    BY <2>2, <2>3, <2>4, SeqEqual
  <2> QED
    BY <2>5 DEF rest
<1>11. O!Part(path) = {name}
  <2>1. \A x : x \in O!Part(path) <=> x = name
    BY <1>9, <1>10 DEF O!Part
  <2> QED
    BY <2>1
<1> QED
  BY <1>4, <1>11 DEF path

\* The scripts of a folder.
InFolder(root, names) == [i \in DOMAIN names |-> root \o O!Separator \o names[i]]

\* What the scripts of a folder leave of those before them.
LEMMA AddedIs ==
    ASSUME NEW root \in Seq(Pieces), O!Positions(Append(root, "/")) = {},
           NEW base \in Seq(Seq(Pieces)), NEW names \in Seq(Seq(Pieces))
    PROVE  /\ O!AddScriptsFromFolder(base, InFolder(root, names)) \in Seq(Seq(Pieces))
           /\ \A x : x \in O!ToSet(O!AddScriptsFromFolder(base, InFolder(root, names))) <=>
                 \/ /\ x \in O!ToSet(base)
                    /\ \A n \in O!ToSet(names) : ~O!EndsWith(x, n)
                 \/ \E n \in O!ToSet(names) : x = root \o O!Separator \o n
<1> DEFINE custom == InFolder(root, names)
           In(n) == root \o O!Separator \o n
           Spared == {k \in DOMAIN base : \A i \in DOMAIN custom :
                                           \A part \in O!Part(custom[i]) : ~O!EndsWith(base[k], part)}
<1>1. /\ Len(names) \in Nat /\ DOMAIN names = 1 .. Len(names)
      /\ \A i \in 1 .. Len(names) : names[i] \in Seq(Pieces)
  BY Elements
<1>2. \A n \in Seq(Pieces) : In(n) \in Seq(Pieces) /\ O!Part(In(n)) = {n}
  BY PartIs
<1>3. custom = [i \in 1 .. Len(names) |-> In(names[i])]
  BY <1>1 DEF InFolder
<1> HIDE DEF In, custom
<1>4. \A i \in 1 .. Len(names) : In(names[i]) \in Seq(Pieces)
  BY <1>1, <1>2
<1>5. custom \in Seq(Seq(Pieces))
  <2>1. [i \in 1 .. Len(names) |-> In(names[i])] \in Seq(Seq(Pieces))
    BY <1>1, <1>4, IsASeq
  <2> QED
    BY <1>3, <2>1
<1>6. /\ Len(custom) = Len(names) /\ DOMAIN custom = 1 .. Len(names)
      /\ \A i \in 1 .. Len(names) : custom[i] = In(names[i])
  <2>1. DOMAIN custom = 1 .. Len(names) /\ \A i \in 1 .. Len(names) : custom[i] = In(names[i])
    BY <1>3
  <2>2. DOMAIN custom = 1 .. Len(custom) /\ Len(custom) \in Nat
    BY <1>5, Elements
  <2> QED
    BY <1>1, <2>1, <2>2
<1>7. \A x : x \in O!ToSet(custom) <=> \E n \in O!ToSet(names) : x = In(n)
  <2>1. \A x : x \in O!ToSet(custom) <=> \E i \in 1 .. Len(names) : custom[i] = x
    <3>1. \A x : x \in O!ToSet(custom) <=> \E i \in DOMAIN custom : custom[i] = x
      BY DEF O!ToSet
    <3> QED
      BY <1>6, <3>1
  <2>2. \A x : x \in O!ToSet(names) <=> \E i \in 1 .. Len(names) : names[i] = x
    BY ToSetIs
  <2>3. ASSUME NEW x, x \in O!ToSet(custom) PROVE \E n \in O!ToSet(names) : x = In(n)
    <3>1. PICK i \in 1 .. Len(names) : custom[i] = x
      BY <2>1, <2>3
    <3> QED
      BY <1>6, <2>2, <3>1
  <2>4. ASSUME NEW n \in O!ToSet(names) PROVE In(n) \in O!ToSet(custom)
    <3>1. PICK i \in 1 .. Len(names) : names[i] = n
      BY <2>2
    <3> QED
      BY <1>6, <2>1, <3>1
  <2> QED
    BY <2>3, <2>4
<1>8. \A k \in DOMAIN base : k \in Spared <=> \A n \in O!ToSet(names) : ~O!EndsWith(base[k], n)
  <2> TAKE k \in DOMAIN base
  <2>1. \A i \in 1 .. Len(names) : O!Part(custom[i]) = {names[i]}
    BY <1>1, <1>2, <1>6
  <2>2. k \in Spared <=> \A i \in 1 .. Len(names) : ~O!EndsWith(base[k], names[i])
    <3>1. k \in Spared <=> \A i \in DOMAIN custom : \A part \in O!Part(custom[i]) : ~O!EndsWith(base[k], part)
      OBVIOUS
    <3>2. \A i \in 1 .. Len(names) : \A part : part \in O!Part(custom[i]) <=> part = names[i]
      BY <2>1
    <3> HIDE DEF Spared
    <3> QED
      BY <1>6, <3>1, <3>2
  <2>3. \A x : x \in O!ToSet(names) <=> \E i \in 1 .. Len(names) : names[i] = x
    BY ToSetIs
  <2> HIDE DEF Spared
  <2> QED
    BY <2>2, <2>3
<1>9. Spared \in SUBSET DOMAIN base
  OBVIOUS
<1>10. O!RemoveOverridden(base, custom) = O!Kept(base, Spared)
  BY DEF O!RemoveOverridden
<1> HIDE DEF Spared
<1>11. /\ O!RemoveOverridden(base, custom) \in Seq(Seq(Pieces))
       /\ \A x : x \in O!ToSet(O!RemoveOverridden(base, custom)) <=>
             x \in O!ToSet(base) /\ \A n \in O!ToSet(names) : ~O!EndsWith(x, n)
  <2>1. /\ O!RemoveOverridden(base, custom) \in Seq(Seq(Pieces))
        /\ \A x : x \in O!ToSet(O!RemoveOverridden(base, custom)) <=> \E i \in Spared : base[i] = x
    <3>1. /\ O!Kept(base, Spared) \in Seq(Seq(Pieces))
          /\ \A x : x \in O!ToSet(O!Kept(base, Spared)) <=> \E i \in Spared : base[i] = x
      BY <1>9, KeptAre
    <3> QED
      BY <1>10, <3>1
  <2>2. \A x : x \in O!ToSet(base) <=> \E i \in DOMAIN base : base[i] = x
    BY DEF O!ToSet
  <2> QED
    BY <1>8, <1>9, <2>1, <2>2
<1>12. CASE custom = <<>>
  <2>1. O!AddScriptsFromFolder(base, custom) = base
    BY <1>12 DEF O!AddScriptsFromFolder
  <2>2. Len(names) = 0
    BY <1>6, <1>12
  <2>3. \A x : x \notin O!ToSet(names)
    BY <1>1, <2>2 DEF O!ToSet
  <2> QED
    BY <1>5, <2>1, <2>3 DEF custom
<1>13. CASE custom # <<>>
  <2>1. O!AddScriptsFromFolder(base, custom) = O!RemoveOverridden(base, custom) \o custom
    BY <1>13 DEF O!AddScriptsFromFolder
  <2>2. /\ O!RemoveOverridden(base, custom) \o custom \in Seq(Seq(Pieces))
        /\ O!ToSet(O!RemoveOverridden(base, custom) \o custom)
           = O!ToSet(O!RemoveOverridden(base, custom)) \cup O!ToSet(custom)
    BY <1>5, <1>11, ToSetIs
  <2>3. \A x : x \in O!ToSet(O!RemoveOverridden(base, custom) \o custom) <=>
               \/ x \in O!ToSet(base) /\ \A n \in O!ToSet(names) : ~O!EndsWith(x, n)
               \/ \E n \in O!ToSet(names) : x = In(n)
    BY <1>7, <1>11, <2>2
  <2> QED
    BY <2>1, <2>2, <2>3 DEF In, custom
<1> QED
  BY <1>12, <1>13

\* Each name is compiled once: the last one of its name.
LEMMA LastWins ==
    ASSUME NEW rootA \in Roots, NEW rootB \in Roots, NEW own \in Own,
           NEW appdata \in Custom, NEW beside \in Custom
    PROVE  O!LastOneWins(rootA, rootB, own, appdata, beside)
<1> DEFINE InA(name) == rootA \o O!Separator \o name
           InB(name) == rootB \o O!Separator \o name
           first == InFolder(rootA, appdata)
           second == InFolder(rootB, beside)
           base == O!AddScriptsFromFolder(own, first)
           collected == O!CollectScript(own, first, second)
           Beaten(path, names) == \E name \in names : O!EndsWith(path, name)
           expected == {s \in O!ToSet(own) : ~Beaten(s, O!ToSet(appdata) \cup O!ToSet(beside))}
                       \cup {InA(a) : a \in {a \in O!ToSet(appdata) : ~Beaten(InA(a), O!ToSet(beside))}}
                       \cup {InB(b) : b \in O!ToSet(beside)}
<1> SUFFICES ASSUME O!Positions(Append(rootA, "/")) = {}, O!Positions(Append(rootB, "/")) = {}
             PROVE  O!ToSet(collected) = expected
  BY DEF O!LastOneWins, InFolder
<1>1. /\ rootA \in Seq(Pieces) /\ rootB \in Seq(Pieces) /\ own \in Seq(Seq(Pieces))
      /\ appdata \in Seq(Seq(Pieces)) /\ beside \in Seq(Seq(Pieces))
  BY ScriptsAssumption
<1>2. /\ base \in Seq(Seq(Pieces))
      /\ \A x : x \in O!ToSet(base) <=>
            \/ x \in O!ToSet(own) /\ \A n \in O!ToSet(appdata) : ~O!EndsWith(x, n)
            \/ \E n \in O!ToSet(appdata) : x = InA(n)
  <2>1. /\ O!AddScriptsFromFolder(own, first) \in Seq(Seq(Pieces))
        /\ \A x : x \in O!ToSet(O!AddScriptsFromFolder(own, first)) <=>
              \/ /\ x \in O!ToSet(own)
                 /\ \A n \in O!ToSet(appdata) : ~O!EndsWith(x, n)
              \/ \E n \in O!ToSet(appdata) : x = rootA \o O!Separator \o n
    BY <1>1, AddedIs
  <2> QED
    BY <2>1
<1>3. collected = O!AddScriptsFromFolder(base, second)
  BY DEF O!CollectScript
<1> HIDE DEF base
<1>4. \A x : x \in O!ToSet(O!AddScriptsFromFolder(base, second)) <=>
         \/ x \in O!ToSet(base) /\ \A n \in O!ToSet(beside) : ~O!EndsWith(x, n)
         \/ \E n \in O!ToSet(beside) : x = InB(n)
  <2>1. \A x : x \in O!ToSet(O!AddScriptsFromFolder(base, second)) <=>
              \/ /\ x \in O!ToSet(base)
                 /\ \A n \in O!ToSet(beside) : ~O!EndsWith(x, n)
              \/ \E n \in O!ToSet(beside) : x = rootB \o O!Separator \o n
    <3>1. base \in Seq(Seq(Pieces)) /\ rootB \in Seq(Pieces) /\ beside \in Seq(Seq(Pieces))
      BY <1>1, <1>2
    <3> QED
      BY <3>1, AddedIs
  <2> QED
    BY <2>1
<1>5. \A x : x \in expected <=>
         \/ x \in O!ToSet(own) /\ \A n \in O!ToSet(appdata) \cup O!ToSet(beside) : ~O!EndsWith(x, n)
         \/ \E a \in O!ToSet(appdata) : x = InA(a) /\ \A n \in O!ToSet(beside) : ~O!EndsWith(InA(a), n)
         \/ \E b \in O!ToSet(beside) : x = InB(b)
  <2> HIDE DEF InA, InB, collected
  <2> QED
    OBVIOUS
<1> HIDE DEF InA, InB, collected, expected
<1>6. \A x : x \in O!ToSet(collected) <=> x \in expected
  BY <1>2, <1>3, <1>4, <1>5
<1> QED
  BY <1>6

-----------------------------------------------------------------------------
(* Stubs *)

\* The registers as they are pushed and popped.
LEMMA InOrder ==
    /\ Len(X!PushAq) = 17 /\ Len(X!PopAq) = 17
    /\ \A i \in 1 .. 17 : X!PopAq[i] = X!PushAq[18 - i]
    /\ X!PushAq[6] = "rsp"
    /\ \A i \in 1 .. 17 : X!PushAq[i] \in X!Registers
    /\ \A r \in X!Registers \ {"xmm"} : \E i \in 1 .. 17 : X!PushAq[i] = r
    /\ \A i \in 1 .. 17 : X!PushAq[i] # "xmm"
    /\ \A i, j \in 1 .. 17 : X!PushAq[i] = X!PushAq[j] => i = j
<1>1. Len(X!PushAq) = 17 /\ DOMAIN X!PushAq = 1 .. 17 /\ Len(X!PopAq) = 17
  BY DEF X!PushAq, X!PopAq
<1>2. X!PushAq[6] = "rsp"
  BY DEF X!PushAq
<1>3. \A i \in 1 .. 17 : X!PopAq[i] = X!PushAq[18 - i]
  BY DEF X!PushAq, X!PopAq
<1>4. \A i, j \in 1 .. 17 : X!PushAq[i] = X!PushAq[j] => i = j
  BY DEF X!PushAq
<1>5. \A i \in 1 .. 17 : X!PushAq[i] # "xmm"
  BY DEF X!PushAq
<1> QED
  BY <1>1, <1>2, <1>3, <1>4, <1>5 DEF X!Registers

\* What single instructions do to a machine.
LEMMA RspIs ==
    ASSUME NEW regs, NEW stack
    PROVE  /\ X!Rsp(X!Machine(regs, stack)) = regs["rsp"]
           /\ X!Machine(regs, stack).registers = regs
           /\ X!Machine(regs, stack).stack = stack
  BY DEF X!Machine, X!Rsp

LEMMA PutIs ==
    ASSUME NEW regs, NEW stack, NEW x, NEW v
    PROVE  X!Put(X!Machine(regs, stack), x, v) = X!Machine([regs EXCEPT ![x] = v], stack)
  BY DEF X!Machine, X!Put

LEMMA StoreIs ==
    ASSUME NEW regs, NEW stack, NEW x, NEW v
    PROVE  X!Store(X!Machine(regs, stack), x, v) = X!Machine(regs, [stack EXCEPT ![x] = v])
  BY DEF X!Machine, X!Store

LEMMA PushIs ==
    ASSUME NEW regs, NEW stack, NEW x
    PROVE  X!Push(X!Machine(regs, stack), x)
             = X!Machine([regs EXCEPT !["rsp"] = regs["rsp"] - 1],
                         [stack EXCEPT ![regs["rsp"] - 1] = regs[x]])
<1> DEFINE stored == [stack EXCEPT ![regs["rsp"] - 1] = regs[x]]
<1>1. X!Store(X!Machine(regs, stack), regs["rsp"] - 1, regs[x]) = X!Machine(regs, stored)
  BY StoreIs
<1>2. X!Put(X!Machine(regs, stored), "rsp", regs["rsp"] - 1)
        = X!Machine([regs EXCEPT !["rsp"] = regs["rsp"] - 1], stored)
  BY PutIs
<1>3. X!Push(X!Machine(regs, stack), x)
        = X!Put(X!Store(X!Machine(regs, stack), regs["rsp"] - 1, regs[x]),
                "rsp", regs["rsp"] - 1)
  BY RspIs, Zenon DEF X!Push
<1> QED
  BY <1>1, <1>2, <1>3, Zenon

LEMMA PopIs ==
    ASSUME NEW regs, NEW stack, NEW x
    PROVE  X!Pop(X!Machine(regs, stack), x)
             = X!Machine([[regs EXCEPT !["rsp"] = regs["rsp"] + 1] EXCEPT ![x] = stack[regs["rsp"]]],
                         stack)
<1> DEFINE raised == [regs EXCEPT !["rsp"] = regs["rsp"] + 1]
<1>1. X!Put(X!Machine(regs, stack), "rsp", regs["rsp"] + 1) = X!Machine(raised, stack)
  BY PutIs
<1>2. X!Put(X!Machine(raised, stack), x, stack[regs["rsp"]])
        = X!Machine([raised EXCEPT ![x] = stack[regs["rsp"]]], stack)
  <2> HIDE DEF raised
  <2> QED
    BY PutIs
<1>3. X!Pop(X!Machine(regs, stack), x)
        = X!Put(X!Put(X!Machine(regs, stack), "rsp", regs["rsp"] + 1), x, stack[regs["rsp"]])
  BY RspIs, Zenon DEF X!Pop
<1> QED
  BY <1>1, <1>2, <1>3, Zenon

\* The registers that are there, with a number in rsp.
HoldsRegisters(regs) ==
    /\ regs = [r \in X!Registers |-> regs[r]]
    /\ regs["rsp"] \in Int

LEMMA RspIsThere == "rsp" \in X!Registers /\ "flags" \in X!Registers /\ "rax" \in X!Registers
                     /\ "rcx" \in X!Registers /\ "rbx" \in X!Registers
<1>1. DOMAIN X!PushAq = 1 .. 17
  BY DEF X!PushAq
<1>2. /\ X!PushAq[1] = "flags" /\ X!PushAq[2] = "rax" /\ X!PushAq[3] = "rcx"
      /\ X!PushAq[5] = "rbx" /\ X!PushAq[6] = "rsp"
  BY DEF X!PushAq
<1> QED
  BY <1>1, <1>2 DEF X!Registers

\* Pushing all registers lays them down in order, rsp with its value before.
Laid(regs, stack, n) ==
    [a \in DOMAIN stack |->
       IF a \in regs["rsp"] - n .. regs["rsp"] - 1
       THEN LET r == X!PushAq[regs["rsp"] - a] IN IF r = "rsp" THEN a + 1 ELSE regs[r]
       ELSE stack[a]]

LEMMA PushedIs ==
    ASSUME NEW regs, NEW stack, HoldsRegisters(regs),
           stack = [a \in DOMAIN stack |-> stack[a]], DOMAIN stack \subseteq Nat,
           regs["rsp"] - 17 .. regs["rsp"] - 1 \subseteq DOMAIN stack
    PROVE  X!Pushed(X!Machine(regs, stack))
             = X!Machine([regs EXCEPT !["rsp"] = regs["rsp"] - 17], Laid(regs, stack, 17))
<1> DEFINE sp == regs["rsp"]
           m == X!Machine(regs, stack)
           After(n) == X!Machine([regs EXCEPT !["rsp"] = sp - n], Laid(regs, stack, n))
           Pushes(f) == f = [n \in 0 .. Len(X!PushAq) |->
                               IF n = 0 THEN m ELSE X!Push(f[n - 1], X!PushAq[n])]
           g == [n \in 0 .. 17 |-> After(n)]
           f == CHOOSE f : Pushes(f)
<1>1. sp \in Int
  BY DEF HoldsRegisters
<1>2. After(0) = m
  <2>1. [regs EXCEPT !["rsp"] = sp - 0] = regs
    BY <1>1, RspIsThere DEF HoldsRegisters
  <2>2. Laid(regs, stack, 0) = stack
    <3>1. \A a : a \notin sp - 0 .. sp - 1
      BY <1>1
    <3>2. Laid(regs, stack, 0) = [a \in DOMAIN stack |-> stack[a]]
      BY <3>1 DEF Laid
    <3> QED
      BY <3>2
  <2> QED
    BY <2>1, <2>2
<1>3. ASSUME NEW n \in 1 .. 17 PROVE After(n) = X!Push(After(n - 1), X!PushAq[n])
  <2> DEFINE old == [regs EXCEPT !["rsp"] = sp - (n - 1)]
             x == X!PushAq[n]
  <2>1. old["rsp"] = sp - (n - 1) /\ old["rsp"] - 1 = sp - n
    BY <1>1, RspIsThere DEF HoldsRegisters
  <2>2. X!Push(After(n - 1), x)
          = X!Machine([old EXCEPT !["rsp"] = old["rsp"] - 1],
                      [Laid(regs, stack, n - 1) EXCEPT ![old["rsp"] - 1] = old[x]])
    BY PushIs
  <2>3. [old EXCEPT !["rsp"] = old["rsp"] - 1] = [regs EXCEPT !["rsp"] = sp - n]
    BY <2>1, RspIsThere DEF HoldsRegisters
  <2>4. Laid(regs, stack, n) = [Laid(regs, stack, n - 1) EXCEPT ![sp - n] = old[x]]
    <3>1. old[x] = IF x = "rsp" THEN sp - n + 1 ELSE regs[x]
      BY <1>1, <2>1, InOrder DEF HoldsRegisters
    <3>2. sp - (sp - n) = n
      BY <1>1
    <3>3. ASSUME NEW a \in DOMAIN stack
          PROVE  Laid(regs, stack, n)[a]
                   = IF a = sp - n THEN old[x] ELSE Laid(regs, stack, n - 1)[a]
      <4>1. a \in Nat
        OBVIOUS
      <4>2. CASE a = sp - n
        <5>1. a \in sp - n .. sp - 1 /\ sp - a = n
          BY <1>1, <4>2
        <5> QED
          BY <3>1, <4>2, <5>1 DEF Laid
      <4>3. CASE a # sp - n
        <5>1. a \in sp - n .. sp - 1 <=> a \in sp - (n - 1) .. sp - 1
          BY <1>1, <4>1, <4>3
        <5> QED
          BY <4>3, <5>1 DEF Laid
      <4> QED
        BY <4>2, <4>3
    <3> QED
      BY <3>3 DEF Laid
  <2> HIDE DEF old, x
  <2> QED
    BY <2>1, <2>2, <2>3, <2>4 DEF x
<1>4. Pushes(g)
  <2> HIDE DEF m, After
  <2>1. ASSUME NEW n \in 0 .. 17
        PROVE  g[n] = IF n = 0 THEN m ELSE X!Push(g[n - 1], X!PushAq[n])
    <3>1. CASE n = 0
      BY <1>2, <3>1
    <3>2. CASE n # 0
      <4>1. n \in 1 .. 17 /\ n - 1 \in 0 .. 17
        BY <3>2
      <4> QED
        BY <1>3, <3>2, <4>1
    <3> QED
      BY <3>1, <3>2
  <2> QED
    BY <2>1, InOrder
<1>5. Pushes(f)
  <2> HIDE DEF g, Pushes
  <2> QED
    BY <1>4 DEF f
<1>6. f[17] = g[17]
  <2> HIDE DEF f, g
  <2>1. \A n \in 0 .. 17 : f[n] = IF n = 0 THEN m ELSE X!Push(f[n - 1], X!PushAq[n])
    BY <1>5, InOrder, Zenon DEF Pushes
  <2>2. \A n \in 0 .. 17 : g[n] = IF n = 0 THEN m ELSE X!Push(g[n - 1], X!PushAq[n])
    BY <1>4, InOrder, Zenon DEF Pushes
  <2> HIDE DEF m
  <2> DEFINE S == {n \in 0 .. 17 : f[n] = g[n]}
  <2>3. 0 \in S
    BY <2>1, <2>2
  <2>4. \A n \in 1 .. 17 : n - 1 \in S => n \in S
    BY <2>1, <2>2
  <2> HIDE DEF S
  <2>5. 17 \in S
    BY <2>3, <2>4, Upwards
  <2> QED
    BY <2>5 DEF S
<1>7. X!Pushed(m) = f[Len(X!PushAq)]
  BY Zenon DEF X!Pushed
<1> QED
  BY <1>6, <1>7, InOrder

\* Popping all registers takes up what was laid down; the others stay.
LEMMA PoppedIs ==
    ASSUME NEW regs, NEW stack, NEW saved, HoldsRegisters(regs), HoldsRegisters(saved),
           saved["rsp"] = regs["rsp"] + 17, saved["xmm"] = regs["xmm"],
           \A i \in 1 .. 17 :
              stack[regs["rsp"] + i - 1]
                = IF X!PopAq[i] = "rsp" THEN regs["rsp"] + i ELSE saved[X!PopAq[i]]
    PROVE  X!Popped(X!Machine(regs, stack)) = X!Machine(saved, stack)
<1> DEFINE sp == regs["rsp"]
           m == X!Machine(regs, stack)
           Back(n) == [r \in X!Registers |->
                         IF r = "rsp" THEN sp + n
                         ELSE IF \E j \in 1 .. n : X!PopAq[j] = r THEN saved[r] ELSE regs[r]]
           After(n) == X!Machine(Back(n), stack)
           Pops(f) == f = [n \in 0 .. Len(X!PopAq) |->
                              IF n = 0 THEN m ELSE X!Pop(f[n - 1], X!PopAq[n])]
           g == [n \in 0 .. 17 |-> After(n)]
           f == CHOOSE f : Pops(f)
<1>1. sp \in Int
  BY DEF HoldsRegisters
<1>2. /\ \A i \in 1 .. 17 : X!PopAq[i] \in X!Registers
      /\ \A r \in X!Registers \ {"xmm"} : \E i \in 1 .. 17 : X!PopAq[i] = r
  <2>1. \A i \in 1 .. 17 : 18 - i \in 1 .. 17 /\ 18 - (18 - i) = i
    OBVIOUS
  <2> QED
    BY <2>1, InOrder
<1>3. After(0) = m
  <2>1. Back(0) = [r \in X!Registers |-> regs[r]]
    BY <1>1
  <2> QED
    BY <2>1 DEF HoldsRegisters
<1>4. Back(17) = saved
  <2>1. Back(17) = [r \in X!Registers |-> saved[r]]
    BY <1>2
  <2> QED
    BY <2>1 DEF HoldsRegisters
<1>5. ASSUME NEW n \in 1 .. 17 PROVE After(n) = X!Pop(After(n - 1), X!PopAq[n])
  <2> DEFINE old == Back(n - 1)
             x == X!PopAq[n]
             raised == [old EXCEPT !["rsp"] = old["rsp"] + 1]
  <2>1. old["rsp"] = sp + (n - 1) /\ old["rsp"] + 1 = sp + n
    BY <1>1, RspIsThere
  <2>2. X!Pop(X!Machine(old, stack), x)
          = X!Machine([raised EXCEPT ![x] = stack[old["rsp"]]], stack)
    BY PopIs
  <2>3. stack[old["rsp"]] = IF x = "rsp" THEN sp + n ELSE saved[x]
    <3>1. sp + (n - 1) = sp + n - 1
      BY <1>1
    <3> QED
      BY <2>1, <3>1
  <2>4. x \in X!Registers
    BY <1>2
  <2>5. [raised EXCEPT ![x] = stack[old["rsp"]]] = Back(n)
    <3>1. ASSUME NEW r \in X!Registers
          PROVE  Back(n)[r] = IF r = x THEN stack[old["rsp"]]
                              ELSE IF r = "rsp" THEN sp + n ELSE old[r]
      <4>1. CASE r = "rsp"
        BY <2>3, <4>1
      <4>2. CASE r # "rsp" /\ r = x
        BY <2>3, <4>2
      <4>3. CASE r # "rsp" /\ r # x
        <5>1. (\E j \in 1 .. n : X!PopAq[j] = r) <=> (\E j \in 1 .. n - 1 : X!PopAq[j] = r)
          <6>1. \A j \in 1 .. n : j = n \/ j \in 1 .. n - 1
            OBVIOUS
          <6>2. \A j \in 1 .. n - 1 : j \in 1 .. n
            OBVIOUS
          <6> QED
            BY <4>3, <6>1, <6>2
        <5> QED
          BY <4>3, <5>1
      <4> QED
        BY <4>1, <4>2, <4>3
    <3>2. raised = [r \in X!Registers |-> IF r = "rsp" THEN sp + n ELSE old[r]]
      BY <2>1
    <3>3. Back(n) = [r \in X!Registers |-> Back(n)[r]]
      OBVIOUS
    <3> HIDE DEF Back, old, raised, x
    <3>4. [raised EXCEPT ![x] = stack[old["rsp"]]]
            = [r \in X!Registers |-> IF r = x THEN stack[old["rsp"]]
                                     ELSE IF r = "rsp" THEN sp + n ELSE old[r]]
      BY <2>4, <3>2
    <3> QED
      BY <3>1, <3>3, <3>4
  <2> QED
    BY <2>2, <2>5, Zenon
<1>6. Pops(g)
  <2> HIDE DEF m, After
  <2>1. ASSUME NEW n \in 0 .. 17
        PROVE  g[n] = IF n = 0 THEN m ELSE X!Pop(g[n - 1], X!PopAq[n])
    <3>1. CASE n = 0
      BY <1>3, <3>1
    <3>2. CASE n # 0
      <4>1. n \in 1 .. 17 /\ n - 1 \in 0 .. 17
        BY <3>2
      <4> QED
        BY <1>5, <3>2, <4>1
    <3> QED
      BY <3>1, <3>2
  <2> QED
    BY <2>1, InOrder
<1>7. Pops(f)
  <2> HIDE DEF g, Pops
  <2> QED
    BY <1>6 DEF f
<1>8. f[17] = g[17]
  <2> HIDE DEF f, g
  <2>1. \A n \in 0 .. 17 : f[n] = IF n = 0 THEN m ELSE X!Pop(f[n - 1], X!PopAq[n])
    BY <1>7, InOrder, Zenon DEF Pops
  <2>2. \A n \in 0 .. 17 : g[n] = IF n = 0 THEN m ELSE X!Pop(g[n - 1], X!PopAq[n])
    BY <1>6, InOrder, Zenon DEF Pops
  <2> HIDE DEF m
  <2> DEFINE S == {n \in 0 .. 17 : f[n] = g[n]}
  <2>3. 0 \in S
    BY <2>1, <2>2
  <2>4. \A n \in 1 .. 17 : n - 1 \in S => n \in S
    BY <2>1, <2>2
  <2> HIDE DEF S
  <2>5. 17 \in S
    BY <2>3, <2>4, Upwards
  <2> QED
    BY <2>5 DEF S
<1>9. X!Popped(m) = f[Len(X!PopAq)]
  BY Zenon DEF X!Popped
<1>10. g[17] = X!Machine(saved, stack)
  <2> HIDE DEF Back
  <2> QED
    BY <1>4
<1> HIDE DEF f, g
<1> QED
  BY <1>8, <1>9, <1>10, InOrder, Zenon

LEMMA TestIs ==
    ASSUME NEW regs, NEW stack
    PROVE  X!Test(X!Machine(regs, stack)) = X!Machine([regs EXCEPT !["flags"] = 0], stack)
  BY PutIs DEF X!Test, X!Junk

LEMMA SubIs ==
    ASSUME NEW regs, NEW stack, NEW x, NEW words
    PROVE  X!Sub(X!Machine(regs, stack), x, words)
             = X!Machine([[regs EXCEPT !["flags"] = 0] EXCEPT ![x] = regs[x] - words], stack)
<1> DEFINE tested == [regs EXCEPT !["flags"] = 0]
<1>1. X!Put(X!Machine(tested, stack), x, regs[x] - words)
        = X!Machine([tested EXCEPT ![x] = regs[x] - words], stack)
  <2> HIDE DEF tested
  <2> QED
    BY PutIs
<1>2. X!Machine(regs, stack).registers = regs
  BY RspIs
<1> QED
  BY <1>1, <1>2, TestIs DEF X!Sub

LEMMA AddIs ==
    ASSUME NEW regs, NEW stack, NEW x, NEW words
    PROVE  X!Add(X!Machine(regs, stack), x, words)
             = X!Machine([[regs EXCEPT !["flags"] = 0] EXCEPT ![x] = regs[x] + words], stack)
<1> DEFINE tested == [regs EXCEPT !["flags"] = 0]
<1>1. X!Put(X!Machine(tested, stack), x, regs[x] + words)
        = X!Machine([tested EXCEPT ![x] = regs[x] + words], stack)
  <2> HIDE DEF tested
  <2> QED
    BY PutIs
<1>2. X!Machine(regs, stack).registers = regs
  BY RspIs
<1> QED
  BY <1>1, <1>2, TestIs DEF X!Add

LEMMA LeaIs ==
    ASSUME NEW regs, NEW stack, NEW words
    PROVE  X!Lea(X!Machine(regs, stack), words)
             = X!Machine([regs EXCEPT !["rsp"] = regs["rsp"] + words], stack)
<1>1. X!Rsp(X!Machine(regs, stack)) = regs["rsp"]
  BY RspIs
<1> QED
  BY <1>1, PutIs DEF X!Lea

\* The registers in front of a call: what they were but for the flags and rsp.
Ready(regs, sp) ==
    [r \in X!Registers |-> CASE r = "flags" -> 0 [] r = "rsp" -> sp [] OTHER -> regs[r]]

LEMMA ReadyIs ==
    ASSUME NEW regs, NEW sp, HoldsRegisters(regs), sp \in Int
    PROVE  /\ HoldsRegisters(Ready(regs, sp))
           /\ Ready(regs, sp)["rsp"] = sp
           /\ [[regs EXCEPT !["flags"] = 0] EXCEPT !["rsp"] = sp] = Ready(regs, sp)
           /\ [Ready(regs, sp) EXCEPT !["flags"] = 0] = Ready(regs, sp)
           /\ \A q \in Int : [Ready(regs, sp) EXCEPT !["rsp"] = q] = Ready(regs, q)
           /\ Ready(regs, sp)["rax"] = regs["rax"]
<1>1. "flags" # "rsp" /\ "rax" # "rsp" /\ "rax" # "flags"
  OBVIOUS
<1>2. HoldsRegisters(Ready(regs, sp)) /\ Ready(regs, sp)["rsp"] = sp
  BY <1>1, RspIsThere DEF HoldsRegisters, Ready
<1>3. [[regs EXCEPT !["flags"] = 0] EXCEPT !["rsp"] = sp] = Ready(regs, sp)
  <2>1. \A r \in X!Registers :
           [[regs EXCEPT !["flags"] = 0] EXCEPT !["rsp"] = sp][r] = Ready(regs, sp)[r]
    BY <1>1, RspIsThere DEF HoldsRegisters, Ready
  <2> QED
    BY <2>1 DEF HoldsRegisters, Ready
<1>4. [Ready(regs, sp) EXCEPT !["flags"] = 0] = Ready(regs, sp)
  BY <1>1, RspIsThere DEF Ready
<1>5. ASSUME NEW q \in Int
      PROVE  [Ready(regs, sp) EXCEPT !["rsp"] = q] = Ready(regs, q)
  BY <1>1, RspIsThere DEF Ready
<1>6. Ready(regs, sp)["rax"] = regs["rax"]
  BY <1>1, RspIsThere DEF Ready
<1> QED
  BY <1>2, <1>3, <1>4, <1>5, <1>6

\* The preparation of a call: the pointer of before is kept, eight words above the
\* one for the call, which is even.
Prepared(regs, stack, m) ==
    \E sp, kept :
       /\ sp \in Int
       /\ m = X!Machine(Ready(regs, sp), kept)
       /\ sp % 2 = 0 /\ sp + 8 < regs["rsp"]
       /\ sp + 8 \in DOMAIN stack
       /\ kept = [a \in DOMAIN stack |-> kept[a]]
       /\ kept[sp + 8] = regs["rsp"]
       /\ \A a \in DOMAIN stack : a >= regs["rsp"] => kept[a] = stack[a]

LEMMA PreparedFrom ==
    ASSUME NEW regs, NEW stack, NEW sp \in Int, NEW kept,
           sp % 2 = 0, sp + 8 < regs["rsp"], sp + 8 \in DOMAIN stack,
           kept = [a \in DOMAIN stack |-> kept[a]],
           kept[sp + 8] = regs["rsp"],
           \A a \in DOMAIN stack : a >= regs["rsp"] => kept[a] = stack[a]
    PROVE  Prepared(regs, stack, X!Machine(Ready(regs, sp), kept))
  BY DEF Prepared

LEMMA PreparedUnaligned ==
    ASSUME NEW regs, NEW stack, HoldsRegisters(regs),
           stack = [a \in DOMAIN stack |-> stack[a]], DOMAIN stack \subseteq Nat,
           regs["rsp"] - 1 \in DOMAIN stack,
           regs["rsp"] % 2 # 0
    PROVE  Prepared(regs, stack, X!PrepareStackForCall(X!Machine(regs, stack)))
<1> DEFINE q == regs["rsp"]
           kept == [stack EXCEPT ![q - 1] = q]
           tested == [regs EXCEPT !["flags"] = 0]
<1>1. q \in Int /\ q - 1 \in Int /\ q - 9 \in Int /\ (q - 1) - 8 = q - 9
  BY DEF HoldsRegisters
<1>2. tested["rsp"] = q /\ tested = Ready(regs, q)
  <2>1. tested["rsp"] = q
    BY RspIsThere DEF HoldsRegisters
  <2>2. [tested EXCEPT !["rsp"] = q] = tested
    BY <2>1, RspIsThere DEF HoldsRegisters
  <2> QED
    BY <1>1, <2>1, <2>2, ReadyIs
<1>3. X!Push(X!Machine(tested, stack), "rsp") = X!Machine(Ready(regs, q - 1), kept)
  <2>1. X!Push(X!Machine(tested, stack), "rsp")
          = X!Machine([tested EXCEPT !["rsp"] = tested["rsp"] - 1],
                      [stack EXCEPT ![tested["rsp"] - 1] = tested["rsp"]])
    BY PushIs
  <2>2. [tested EXCEPT !["rsp"] = q - 1] = Ready(regs, q - 1)
    BY <1>1, ReadyIs
  <2> QED
    BY <1>2, <2>1, <2>2
<1>4. X!Sub(X!Machine(Ready(regs, q - 1), kept), "rsp", 8) = X!Machine(Ready(regs, q - 9), kept)
  <2>1. X!Sub(X!Machine(Ready(regs, q - 1), kept), "rsp", 8)
          = X!Machine([[Ready(regs, q - 1) EXCEPT !["flags"] = 0]
                          EXCEPT !["rsp"] = Ready(regs, q - 1)["rsp"] - 8], kept)
    BY SubIs
  <2>2. /\ [Ready(regs, q - 1) EXCEPT !["flags"] = 0] = Ready(regs, q - 1)
        /\ Ready(regs, q - 1)["rsp"] - 8 = q - 9
        /\ [Ready(regs, q - 1) EXCEPT !["rsp"] = q - 9] = Ready(regs, q - 9)
    BY <1>1, ReadyIs
  <2> QED
    BY <2>1, <2>2
<1>5. X!PrepareStackForCall(X!Machine(regs, stack)) = X!Machine(Ready(regs, q - 9), kept)
  <2>1. X!Test(X!Machine(regs, stack)) = X!Machine(tested, stack)
    BY TestIs
  <2>2. X!Rsp(X!Machine(regs, stack)) = q
    BY RspIs
  <2> HIDE DEF q, kept, tested
  <2> QED
    BY <1>3, <1>4, <2>1, <2>2 DEF X!PrepareStackForCall, q
<1>6. /\ (q - 9) % 2 = 0 /\ (q - 9) + 8 = q - 1 /\ q - 1 < q
      /\ kept = [a \in DOMAIN stack |-> kept[a]]
      /\ kept[q - 1] = q
      /\ \A a \in DOMAIN stack : a >= q => kept[a] = stack[a]
  <2>1. (q - 9) % 2 = 0
    BY <1>1
  <2>2. \A a \in DOMAIN stack : a >= q => a # q - 1
    BY <1>1
  <2> QED
    BY <1>1, <2>1, <2>2
<1> HIDE DEF kept
<1>7. Prepared(regs, stack, X!Machine(Ready(regs, q - 9), kept))
  BY <1>1, <1>6, PreparedFrom
<1> QED
  BY <1>5, <1>7, Zenon

LEMMA PreparedAligned ==
    ASSUME NEW regs, NEW stack, HoldsRegisters(regs),
           stack = [a \in DOMAIN stack |-> stack[a]], DOMAIN stack \subseteq Nat,
           regs["rsp"] - 3 .. regs["rsp"] - 1 \subseteq DOMAIN stack,
           regs["rsp"] % 2 = 0
    PROVE  Prepared(regs, stack, X!PrepareStackForCall(X!Machine(regs, stack)))
<1> DEFINE q == regs["rsp"]
           tested == [regs EXCEPT !["flags"] = 0]
           once == [stack EXCEPT ![q - 2] = q - 1]
           twice == [once EXCEPT ![q - 3] = regs["rax"]]
           kept == [twice EXCEPT ![q - 2] = q]
<1>1. /\ q \in Int /\ q - 1 \in Int /\ q - 2 \in Int /\ q - 3 \in Int /\ q - 10 \in Int
      /\ (q - 1) - 1 = q - 2 /\ (q - 2) - 1 = q - 3 /\ (q - 3) + 1 = q - 2 /\ (q - 1) + 1 = q
      /\ (q - 2) - 8 = q - 10 /\ q - 2 # q - 3
  BY DEF HoldsRegisters
<1>2. q - 2 \in DOMAIN stack /\ q - 3 \in DOMAIN stack
  BY <1>1
<1>3. tested["rsp"] = q /\ tested = Ready(regs, q)
  <2>1. tested["rsp"] = q
    BY RspIsThere DEF HoldsRegisters
  <2>2. [tested EXCEPT !["rsp"] = q] = tested
    BY <2>1, RspIsThere DEF HoldsRegisters
  <2> QED
    BY <1>1, <2>1, <2>2, ReadyIs
<1>4. X!Sub(X!Machine(tested, stack), "rsp", 1) = X!Machine(Ready(regs, q - 1), stack)
  <2>1. X!Sub(X!Machine(tested, stack), "rsp", 1)
          = X!Machine([[tested EXCEPT !["flags"] = 0] EXCEPT !["rsp"] = tested["rsp"] - 1], stack)
    <3> HIDE DEF tested
    <3> QED
      BY SubIs
  <2>2. [tested EXCEPT !["flags"] = 0] = tested
    BY <1>1, <1>3, ReadyIs
  <2>3. [tested EXCEPT !["rsp"] = q - 1] = Ready(regs, q - 1)
    <3>1. [Ready(regs, q) EXCEPT !["rsp"] = q - 1] = Ready(regs, q - 1)
      BY <1>1, ReadyIs
    <3> QED
      BY <1>3, <3>1
  <2> HIDE DEF tested
  <2> QED
    BY <1>3, <2>1, <2>2, <2>3
<1>5. X!Push(X!Machine(Ready(regs, q - 1), stack), "rsp") = X!Machine(Ready(regs, q - 2), once)
  <2>1. X!Push(X!Machine(Ready(regs, q - 1), stack), "rsp")
          = X!Machine([Ready(regs, q - 1) EXCEPT !["rsp"] = Ready(regs, q - 1)["rsp"] - 1],
                      [stack EXCEPT ![Ready(regs, q - 1)["rsp"] - 1] = Ready(regs, q - 1)["rsp"]])
    BY PushIs
  <2>2. Ready(regs, q - 1)["rsp"] = q - 1
    BY <1>1, ReadyIs
  <2>3. [Ready(regs, q - 1) EXCEPT !["rsp"] = q - 2] = Ready(regs, q - 2)
    BY <1>1, ReadyIs
  <2> QED
    BY <1>1, <2>1, <2>2, <2>3
<1>6. X!Push(X!Machine(Ready(regs, q - 2), once), "rax") = X!Machine(Ready(regs, q - 3), twice)
  <2>1. X!Push(X!Machine(Ready(regs, q - 2), once), "rax")
          = X!Machine([Ready(regs, q - 2) EXCEPT !["rsp"] = Ready(regs, q - 2)["rsp"] - 1],
                      [once EXCEPT ![Ready(regs, q - 2)["rsp"] - 1] = Ready(regs, q - 2)["rax"]])
    BY PushIs
  <2>2. Ready(regs, q - 2)["rsp"] = q - 2 /\ Ready(regs, q - 2)["rax"] = regs["rax"]
    BY <1>1, ReadyIs
  <2>3. [Ready(regs, q - 2) EXCEPT !["rsp"] = q - 3] = Ready(regs, q - 3)
    BY <1>1, ReadyIs
  <2> QED
    BY <1>1, <2>1, <2>2, <2>3
<1> DEFINE laden == [[[Ready(regs, q - 3) EXCEPT !["rax"] = q - 1] EXCEPT !["flags"] = 0]
                        EXCEPT !["rax"] = q]
<1>7. /\ once = [a \in DOMAIN stack |-> IF a = q - 2 THEN q - 1 ELSE stack[a]]
      /\ twice = [a \in DOMAIN stack |-> IF a = q - 3 THEN regs["rax"]
                                         ELSE IF a = q - 2 THEN q - 1 ELSE stack[a]]
      /\ kept = [a \in DOMAIN stack |-> IF a = q - 2 THEN q
                                        ELSE IF a = q - 3 THEN regs["rax"] ELSE stack[a]]
  BY <1>1, <1>2
<1>8. /\ laden = [r \in X!Registers |-> IF r = "rax" THEN q ELSE Ready(regs, q - 3)[r]]
      /\ laden["rax"] = q /\ laden["rsp"] = q - 3
  <2>1. Ready(regs, q - 3) = [r \in X!Registers |-> Ready(regs, q - 3)[r]]
    BY DEF Ready
  <2>2. Ready(regs, q - 3)["flags"] = 0 /\ Ready(regs, q - 3)["rsp"] = q - 3
    BY RspIsThere DEF Ready
  <2>3. "rax" # "flags" /\ "rax" # "rsp"
    OBVIOUS
  <2>4. laden = [r \in X!Registers |-> IF r = "rax" THEN q ELSE Ready(regs, q - 3)[r]]
    BY <2>1, <2>2, <2>3, RspIsThere
  <2> QED
    BY <2>2, <2>3, <2>4, RspIsThere
<1>9. X!Add(X!Put(X!Machine(Ready(regs, q - 3), twice), "rax", twice[q - 2]), "rax", 1)
        = X!Machine(laden, twice)
  <2>1. twice[q - 2] = q - 1
    BY <1>1, <1>2, <1>7
  <2> DEFINE put == [Ready(regs, q - 3) EXCEPT !["rax"] = q - 1]
  <2>2. X!Put(X!Machine(Ready(regs, q - 3), twice), "rax", q - 1) = X!Machine(put, twice)
    BY PutIs
  <2>3. X!Add(X!Machine(put, twice), "rax", 1)
          = X!Machine([[put EXCEPT !["flags"] = 0] EXCEPT !["rax"] = put["rax"] + 1], twice)
    BY AddIs
  <2>4. put["rax"] + 1 = q
    BY <1>1, RspIsThere DEF Ready
  <2> HIDE DEF twice
  <2> QED
    BY <2>1, <2>2, <2>3, <2>4
<1>10. X!Saved(X!Machine(tested, stack)) = X!Machine(laden, kept)
  <2> DEFINE pushed == X!Machine(Ready(regs, q - 3), twice)
             loaded == X!Machine(laden, twice)
  <2>1. pushed.stack = twice /\ X!Rsp(pushed) + 1 = q - 2
    BY <1>1, RspIs, ReadyIs
  <2>2. loaded.registers = laden /\ X!Rsp(loaded) + 1 = q - 2
    BY <1>1, <1>8, RspIs
  <2>3. X!Store(loaded, q - 2, q) = X!Machine(laden, kept)
    <3> HIDE DEF laden, twice
    <3> QED
      BY StoreIs
  <2>4. pushed = X!Push(X!Push(X!Sub(X!Machine(tested, stack), "rsp", 1), "rsp"), "rax")
    BY <1>4, <1>5, <1>6, Zenon
  <2>5. loaded = X!Add(X!Put(pushed, "rax", pushed.stack[X!Rsp(pushed) + 1]), "rax", 1)
    BY <1>9, <2>1, Zenon
  <2>6. laden["rax"] = q
    BY <1>8
  <2> HIDE DEF pushed, loaded, laden, kept, twice, tested
  <2> QED
    BY <2>2, <2>3, <2>4, <2>5, <2>6, Zenon DEF X!Saved
<1>11. X!Pop(X!Machine(laden, kept), "rax") = X!Machine(Ready(regs, q - 2), kept)
  <2>1. X!Pop(X!Machine(laden, kept), "rax")
          = X!Machine([[laden EXCEPT !["rsp"] = laden["rsp"] + 1]
                          EXCEPT !["rax"] = kept[laden["rsp"]]], kept)
    BY PopIs
  <2>2. kept[q - 3] = regs["rax"]
    BY <1>1, <1>2, <1>7
  <2> HIDE DEF laden, kept
  <2>3. [[laden EXCEPT !["rsp"] = q - 2] EXCEPT !["rax"] = regs["rax"]] = Ready(regs, q - 2)
    BY <1>1, <1>8, RspIsThere DEF Ready
  <2> QED
    BY <1>1, <1>8, <2>1, <2>2, <2>3
<1>12. X!Sub(X!Machine(Ready(regs, q - 2), kept), "rsp", 8) = X!Machine(Ready(regs, q - 10), kept)
  <2>1. X!Sub(X!Machine(Ready(regs, q - 2), kept), "rsp", 8)
          = X!Machine([[Ready(regs, q - 2) EXCEPT !["flags"] = 0]
                          EXCEPT !["rsp"] = Ready(regs, q - 2)["rsp"] - 8], kept)
    BY SubIs
  <2>2. /\ [Ready(regs, q - 2) EXCEPT !["flags"] = 0] = Ready(regs, q - 2)
        /\ Ready(regs, q - 2)["rsp"] - 8 = q - 10
        /\ [Ready(regs, q - 2) EXCEPT !["rsp"] = q - 10] = Ready(regs, q - 10)
    BY <1>1, ReadyIs
  <2> QED
    BY <2>1, <2>2
<1>13. X!PrepareStackForCall(X!Machine(regs, stack)) = X!Machine(Ready(regs, q - 10), kept)
  <2>1. X!Test(X!Machine(regs, stack)) = X!Machine(tested, stack)
    BY TestIs
  <2>2. X!Rsp(X!Machine(regs, stack)) = q
    BY RspIs
  <2> HIDE DEF q, kept, tested, laden
  <2> QED
    BY <1>10, <1>11, <1>12, <2>1, <2>2 DEF X!PrepareStackForCall, q
<1>14. /\ (q - 10) % 2 = 0 /\ (q - 10) + 8 = q - 2 /\ q - 2 < q
       /\ kept = [a \in DOMAIN stack |-> kept[a]]
       /\ kept[q - 2] = q
       /\ \A a \in DOMAIN stack : a >= q => kept[a] = stack[a]
  <2>1. (q - 10) % 2 = 0
    BY <1>1
  <2>2. \A a \in DOMAIN stack : a >= q => a # q - 2 /\ a # q - 3
    BY <1>1
  <2> HIDE DEF kept
  <2> QED
    BY <1>1, <1>2, <1>7, <2>1, <2>2
<1> HIDE DEF kept
<1>15. Prepared(regs, stack, X!Machine(Ready(regs, q - 10), kept))
  BY <1>1, <1>2, <1>14, PreparedFrom
<1> QED
  BY <1>13, <1>15, Zenon

\* Whatever a function that was called changes of what it may, the pointer of before
\* is found, and what was on the stack then; what it does not change stays.
LEMMA RestoredIs ==
    ASSUME NEW regs, NEW stack, NEW m, HoldsRegisters(regs),
           DOMAIN stack \subseteq Nat, Prepared(regs, stack, m),
           NEW changed \in SUBSET X!Volatile, NEW scribbles \in BOOLEAN
    PROVE  \E after, left :
              /\ X!RestoreStackAfterCall(X!Call(m, changed, scribbles)) = X!Machine(after, left)
              /\ HoldsRegisters(after) /\ after["rsp"] = regs["rsp"]
              /\ "xmm" \notin changed => after["xmm"] = regs["xmm"]
              /\ DOMAIN left = DOMAIN stack
              /\ \A a \in DOMAIN stack : a >= regs["rsp"] => left[a] = stack[a]
<1>1. PICK sp, kept :
         /\ sp \in Int
         /\ m = X!Machine(Ready(regs, sp), kept)
         /\ sp % 2 = 0 /\ sp + 8 < regs["rsp"]
         /\ sp + 8 \in DOMAIN stack
         /\ kept = [a \in DOMAIN stack |-> kept[a]]
         /\ kept[sp + 8] = regs["rsp"]
         /\ \A a \in DOMAIN stack : a >= regs["rsp"] => kept[a] = stack[a]
  BY DEF Prepared
<1> DEFINE called == [r \in X!Registers |-> IF r \in changed THEN 0 ELSE Ready(regs, sp)[r]]
           left == [a \in DOMAIN stack |->
                      IF a < sp \/ (scribbles /\ a < sp + 4) THEN 0 ELSE kept[a]]
           after == [[[called EXCEPT !["rsp"] = sp + 8] EXCEPT !["rsp"] = (sp + 8) + 1]
                        EXCEPT !["rsp"] = left[sp + 8]]
<1>2. Ready(regs, sp)["rsp"] = sp /\ regs["rsp"] \in Int
  BY <1>1, ReadyIs DEF HoldsRegisters
<1>3. X!Call(m, changed, scribbles) = X!Machine(called, left)
  <2>1. m.registers = Ready(regs, sp) /\ m.stack = kept /\ X!Rsp(m) = sp
    BY <1>1, <1>2, RspIs
  <2>2. DOMAIN m.stack = DOMAIN stack
    BY <1>1, <2>1
  <2>3. X!Call(m, changed, scribbles)
          = [registers |-> [r \in X!Registers |-> IF r \in changed THEN 0 ELSE m.registers[r]],
             stack |-> [a \in DOMAIN m.stack |->
                          IF a < X!Rsp(m) \/ (scribbles /\ a < X!Rsp(m) + 4)
                          THEN 0 ELSE m.stack[a]]]
    BY Zenon DEF X!Call, X!Junk
  <2> QED
    BY <2>1, <2>2, <2>3, Zenon DEF X!Machine
<1>4. called["rsp"] = sp
  <2>1. "rsp" \notin changed
    BY DEF X!Volatile
  <2> QED
    BY <1>2, <2>1, RspIsThere
<1>5. left[sp + 8] = regs["rsp"]
  BY <1>1
<1>6. X!RestoreStackAfterCall(X!Machine(called, left)) = X!Machine(after, left)
  <2> DEFINE up == [called EXCEPT !["rsp"] = sp + 8]
  <2> HIDE DEF left, called
  <2>1. X!Lea(X!Machine(called, left), 8) = X!Machine(up, left)
    BY <1>4, LeaIs
  <2>2. X!Pop(X!Machine(up, left), "rsp")
          = X!Machine([[up EXCEPT !["rsp"] = up["rsp"] + 1] EXCEPT !["rsp"] = left[up["rsp"]]], left)
    <3> HIDE DEF up
    <3> QED
      BY PopIs
  <2>3. up["rsp"] = sp + 8
    BY RspIsThere DEF called
  <2> HIDE DEF up
  <2> QED
    BY <2>1, <2>2, <2>3 DEF X!RestoreStackAfterCall, up
<1>7. HoldsRegisters(after) /\ after["rsp"] = regs["rsp"]
  <2> HIDE DEF left
  <2>1. after = [r \in X!Registers |-> IF r = "rsp" THEN regs["rsp"] ELSE called[r]]
    BY <1>5, RspIsThere
  <2> HIDE DEF after, called
  <2> QED
    BY <1>2, <2>1, RspIsThere DEF HoldsRegisters
<1>8. \A a \in DOMAIN stack : a >= regs["rsp"] => left[a] = stack[a]
  <2> SUFFICES ASSUME NEW a \in DOMAIN stack, a >= regs["rsp"] PROVE left[a] = stack[a]
    OBVIOUS
  <2>1. a \in Int /\ ~(a < sp) /\ ~(a < sp + 4)
    BY <1>1, <1>2
  <2> QED
    BY <1>1, <2>1
<1>9. DOMAIN left = DOMAIN stack
  OBVIOUS
<1>10. "xmm" \notin changed => after["xmm"] = regs["xmm"]
  <2> HIDE DEF left
  <2>1. after = [r \in X!Registers |-> IF r = "rsp" THEN regs["rsp"] ELSE called[r]]
    BY <1>5, RspIsThere
  <2>2. "xmm" \in X!Registers /\ "xmm" # "rsp" /\ "xmm" # "flags"
    BY DEF X!Registers
  <2>3. Ready(regs, sp)["xmm"] = regs["xmm"]
    BY <2>2 DEF Ready
  <2> HIDE DEF after
  <2> QED
    BY <2>1, <2>2, <2>3
<1> HIDE DEF left, after, called
<1> QED
  BY <1>3, <1>6, <1>7, <1>8, <1>9, <1>10

LEMMA StubsAreUnnoticed ==
    ASSUME NEW m, X!IsMachine(m), NEW changed \in SUBSET X!Volatile, NEW scribbles \in BOOLEAN
    PROVE  X!Unnoticed(m, changed, scribbles)
<1> DEFINE regs == m.registers
           stack == m.stack
           sp == regs["rsp"]
           laid == Laid(regs, stack, 17)
           pushed == [Ready(regs, sp - 18) EXCEPT !["rcx"] = regs["rbx"]]
           before == X!Before(m)
<1>1. /\ m = X!Machine(regs, stack)
      /\ HoldsRegisters(regs)
      /\ stack = [a \in DOMAIN stack |-> stack[a]] /\ DOMAIN stack \subseteq Nat
      /\ sp \in Nat /\ sp - 21 .. sp - 1 \subseteq DOMAIN stack
  <2>1. m = X!Machine([r \in X!Registers |-> regs[r]], [a \in DOMAIN stack |-> stack[a]])
    BY DEF X!IsMachine
  <2>2. regs = [r \in X!Registers |-> regs[r]] /\ stack = [a \in DOMAIN stack |-> stack[a]]
    BY <2>1 DEF X!Machine
  <2> QED
    BY <2>1, <2>2 DEF X!IsMachine, X!Rsp, X!Depth, HoldsRegisters
<1> HIDE DEF regs, stack
<1>2. X!Pushaq(m) = X!Machine(Ready(regs, sp - 18), laid)
  <2> DEFINE down == [regs EXCEPT !["rsp"] = sp - 17]
  <2>1. sp - 17 .. sp - 1 \subseteq DOMAIN stack
    BY <1>1
  <2>2. X!Pushed(m) = X!Machine(down, laid)
    BY <1>1, <2>1, PushedIs
  <2>3. X!Sub(X!Machine(down, laid), "rsp", 1)
          = X!Machine([[down EXCEPT !["flags"] = 0] EXCEPT !["rsp"] = down["rsp"] - 1], laid)
    <3> HIDE DEF down, laid
    <3> QED
      BY SubIs
  <2>4. [[down EXCEPT !["flags"] = 0] EXCEPT !["rsp"] = down["rsp"] - 1] = Ready(regs, sp - 18)
    <3>1. down["rsp"] - 1 = sp - 18 /\ "flags" # "rsp"
      BY <1>1, RspIsThere DEF HoldsRegisters
    <3>2. [[down EXCEPT !["flags"] = 0] EXCEPT !["rsp"] = sp - 18]
            = [[regs EXCEPT !["flags"] = 0] EXCEPT !["rsp"] = sp - 18]
      BY <3>1, RspIsThere DEF HoldsRegisters
    <3>3. sp - 18 \in Int
      BY <1>1
    <3> QED
      BY <1>1, <3>1, <3>2, <3>3, ReadyIs
  <2> QED
    BY <2>2, <2>3, <2>4 DEF X!Pushaq
<1>3. X!Put(X!Pushaq(m), "rcx", regs["rbx"]) = X!Machine(pushed, laid)
  BY <1>2, PutIs
<1>4. HoldsRegisters(pushed) /\ pushed["rsp"] = sp - 18 /\ pushed["rcx"] = regs["rbx"]
  <2>1. sp - 18 \in Int /\ "rcx" # "rsp" /\ "rcx" # "flags"
    BY <1>1
  <2>2. pushed = [r \in X!Registers |-> IF r = "rcx" THEN regs["rbx"] ELSE Ready(regs, sp - 18)[r]]
    BY RspIsThere DEF Ready
  <2>3. Ready(regs, sp - 18)["rsp"] = sp - 18
    BY <1>1, <2>1, ReadyIs
  <2> HIDE DEF pushed
  <2> QED
    BY <2>1, <2>2, <2>3, RspIsThere DEF HoldsRegisters
<1>5. /\ laid = [a \in DOMAIN laid |-> laid[a]] /\ DOMAIN laid = DOMAIN stack
  BY DEF Laid
<1>6. before = X!PrepareStackForCall(X!Machine(pushed, laid))
  <2>1. m.registers["rbx"] = regs["rbx"]
    BY DEF regs
  <2> QED
    BY <1>3, <2>1 DEF X!Before
<1>7. Prepared(pushed, laid, before)
  <2> HIDE DEF pushed, laid
  <2>1. /\ pushed["rsp"] - 3 .. pushed["rsp"] - 1 \subseteq DOMAIN laid
        /\ pushed["rsp"] - 1 \in DOMAIN laid
    BY <1>1, <1>4, <1>5
  <2>2. DOMAIN laid \subseteq Nat
    BY <1>1, <1>5
  <2>3. CASE pushed["rsp"] % 2 = 0
    BY <1>4, <1>5, <1>6, <2>1, <2>2, <2>3, PreparedAligned
  <2>4. CASE pushed["rsp"] % 2 # 0
    BY <1>4, <1>5, <1>6, <2>1, <2>2, <2>4, PreparedUnaligned
  <2> QED
    BY <2>3, <2>4
<1>8. X!Rsp(before) % 2 = 0 /\ before.registers["rcx"] = regs["rbx"]
  <2> HIDE DEF pushed, laid, before
  <2>1. PICK q, kept :
             q \in Int /\ before = X!Machine(Ready(pushed, q), kept) /\ q % 2 = 0
    BY <1>7 DEF Prepared
  <2>2. Ready(pushed, q)["rsp"] = q
    BY <1>4, <2>1, ReadyIs
  <2>3. Ready(pushed, q)["rcx"] = regs["rbx"]
    BY <1>4, RspIsThere DEF Ready
  <2>4. before.registers = Ready(pushed, q) /\ X!Rsp(before) = q
    BY <2>1, <2>2, RspIs
  <2> QED
    BY <2>1, <2>3, <2>4
<1>9. PICK after, left :
         /\ X!RestoreStackAfterCall(X!Call(before, changed, scribbles)) = X!Machine(after, left)
         /\ HoldsRegisters(after) /\ after["rsp"] = sp - 18
         /\ "xmm" \notin changed => after["xmm"] = regs["xmm"]
         /\ DOMAIN left = DOMAIN stack
         /\ \A a \in DOMAIN stack : a >= sp - 18 => left[a] = laid[a]
  <2> HIDE DEF pushed, laid, before
  <2>1. DOMAIN laid \subseteq Nat
    BY <1>1, <1>5
  <2>2. pushed["xmm"] = regs["xmm"]
    <3>1. "xmm" \in X!Registers /\ "xmm" # "rsp" /\ "xmm" # "flags" /\ "xmm" # "rcx"
      BY DEF X!Registers
    <3> QED
      BY <3>1 DEF pushed, Ready
  <2> QED
    BY <1>4, <1>5, <1>7, <2>1, <2>2, RestoredIs
<1> DEFINE resumed == [regs EXCEPT !["xmm"] = after["xmm"]]
<1>10. /\ HoldsRegisters(resumed)
       /\ \A r \in X!Registers : r # "xmm" => resumed[r] = regs[r]
       /\ resumed["xmm"] = after["xmm"]
  <2>1. "xmm" \in X!Registers /\ "xmm" # "rsp"
    BY DEF X!Registers
  <2> QED
    BY <1>1, <2>1, RspIsThere DEF HoldsRegisters
<1>11. X!Stub(m, changed, scribbles) = X!Machine(resumed, left)
  <2> DEFINE up == [[after EXCEPT !["flags"] = 0] EXCEPT !["rsp"] = sp - 17]
  <2>1. X!Add(X!Machine(after, left), "rsp", 1) = X!Machine(up, left)
    <3>1. X!Add(X!Machine(after, left), "rsp", 1)
            = X!Machine([[after EXCEPT !["flags"] = 0] EXCEPT !["rsp"] = after["rsp"] + 1], left)
      BY AddIs
    <3>2. after["rsp"] + 1 = sp - 17
      BY <1>1, <1>9
    <3> QED
      BY <3>1, <3>2
  <2>2. HoldsRegisters(up) /\ up["rsp"] = sp - 17
    <3>1. up = Ready(after, sp - 17) /\ sp - 17 \in Int
      BY <1>1, <1>9, ReadyIs
    <3> QED
      BY <1>9, <3>1, ReadyIs
  <2>3. ASSUME NEW i \in 1 .. 17
        PROVE  left[up["rsp"] + i - 1]
                 = IF X!PopAq[i] = "rsp" THEN up["rsp"] + i ELSE resumed[X!PopAq[i]]
    <3> DEFINE a == sp - 18 + i
    <3>1. /\ a = up["rsp"] + i - 1 /\ a + 1 = up["rsp"] + i
          /\ a \in sp - 17 .. sp - 1 /\ a >= sp - 18
          /\ sp - a = 18 - i /\ a \in sp - 21 .. sp - 1
      BY <1>1, <2>2
    <3>2. a \in DOMAIN stack
      BY <1>1, <3>1
    <3>3. left[a] = laid[a]
      BY <1>9, <3>1, <3>2
    <3>4. laid[a] = IF X!PushAq[sp - a] = "rsp" THEN a + 1 ELSE regs[X!PushAq[sp - a]]
      <4> HIDE DEF a
      <4> QED
        BY <3>1, <3>2 DEF Laid
    <3>5. X!PushAq[sp - a] = X!PopAq[i] /\ resumed[X!PopAq[i]] = regs[X!PopAq[i]]
      <4>1. /\ X!PushAq[sp - a] = X!PopAq[i] /\ sp - a \in 1 .. 17
            /\ X!PushAq[sp - a] \in X!Registers /\ X!PushAq[sp - a] # "xmm"
        BY <3>1, InOrder
      <4> QED
        BY <1>10, <4>1
    <3> HIDE DEF a, up, laid, resumed
    <3> QED
      BY <3>1, <3>3, <3>4, <3>5
  <2>4. resumed["rsp"] = up["rsp"] + 17 /\ resumed["xmm"] = up["xmm"]
    <3>1. resumed["rsp"] = sp /\ sp = up["rsp"] + 17
      BY <1>1, <1>10, <2>2, RspIsThere
    <3>2. up["xmm"] = after["xmm"]
      <4>1. "xmm" # "flags" /\ "xmm" # "rsp" /\ "xmm" \in X!Registers
        BY DEF X!Registers
      <4> QED
        BY <1>9, <4>1 DEF HoldsRegisters
    <3> HIDE DEF up, resumed
    <3> QED
      BY <1>10, <3>1, <3>2
  <2>5. X!Popped(X!Machine(up, left)) = X!Machine(resumed, left)
    <3> HIDE DEF up, resumed
    <3> QED
      BY <1>10, <2>2, <2>3, <2>4, PoppedIs
  <2> HIDE DEF up
  <2> QED
    BY <1>9, <2>1, <2>5 DEF X!Stub, X!Popaq
<1>12. \A a \in DOMAIN stack : a >= sp => left[a] = stack[a]
  <2> SUFFICES ASSUME NEW a \in DOMAIN stack, a >= sp PROVE left[a] = stack[a]
    OBVIOUS
  <2>1. a >= sp - 18 /\ a \notin sp - 17 .. sp - 1
    BY <1>1
  <2>2. laid[a] = stack[a]
    BY <2>1 DEF Laid
  <2> QED
    BY <1>9, <2>1, <2>2
<1>13. /\ X!Machine(resumed, left).registers = resumed
       /\ X!Machine(resumed, left).stack = left
       /\ X!Rsp(m) = sp
  BY <1>1, RspIs
<1>14. \A r \in X!Registers \ (changed \cap {"xmm"}) : resumed[r] = regs[r]
  BY <1>9, <1>10
<1> HIDE DEF laid, pushed, resumed
<1> QED
  BY <1>8, <1>11, <1>12, <1>13, <1>14 DEF X!Unnoticed, regs, stack

-----------------------------------------------------------------------------
(* Signatures *)

\* A number and what is left of it.
LEMMA Halves ==
    ASSUME NEW t \in Nat, NEW b \in Nat, b >= 1
    PROVE  t % b \in 0 .. b - 1 /\ t \div b \in Nat /\ (t % b) + (t \div b) * b = t
<1>1. t \div b \in Nat
  OBVIOUS
<1>2. t % b \in 0 .. b - 1
  OBVIOUS
<1>3. (t % b) + (t \div b) * b = t
  OBVIOUS
<1> QED
  BY <1>1, <1>2, <1>3

\* The bytes of a text and what they are read as.
LEMMA DigitsOf ==
    ASSUME NEW t \in G!Token, t # G!Wild
    PROVE  /\ t \div Radix \in 0 .. Radix - 1 /\ t % Radix \in 0 .. Radix - 1
           /\ (t \div Radix) * Radix + (t % Radix) = t
<1>1. Radix \in Nat /\ Radix >= 1 /\ t \in 0 .. Radix * Radix - 1
  BY SearchAssumption DEF G!SearchAssumption, G!Token
<1>2. t % Radix \in 0 .. Radix - 1 /\ t \div Radix \in Nat /\ (t % Radix) + (t \div Radix) * Radix = t
  <2>1. t \in Nat
    BY <1>1
  <2> QED
    BY <1>1, <2>1, Halves
<1>3. t \div Radix < Radix
  <2> SUFFICES ASSUME t \div Radix >= Radix PROVE FALSE
    BY <1>1, <1>2
  <2> DEFINE q == t \div Radix
  <2>1. q * Radix <= t /\ t < Radix * Radix
    BY <1>1, <1>2
  <2>2. q \in Nat /\ q >= Radix
    BY <1>2
  <2> HIDE DEF q
  <2>3. q * Radix >= Radix * Radix
    <3>1. PICK d \in Nat : q = Radix + d
      BY <1>1, <2>2
    <3>2. q * Radix = Radix * Radix + d * Radix /\ d * Radix \in Nat
      BY <1>1, <3>1
    <3> QED
      BY <1>1, <3>2
  <2> QED
    BY <1>1, <2>1, <2>2, <2>3
<1>4. (t \div Radix) * Radix + (t % Radix) = t
  <2> DEFINE q == t \div Radix
             p == q * Radix
             d == t % Radix
  <2>1. q \in Nat /\ d \in Nat /\ d + p = t
    BY <1>1, <1>2
  <2> HIDE DEF q
  <2>2. p \in Nat
    BY <1>1, <2>1
  <2> HIDE DEF p, d
  <2>3. p + d = t
    BY <2>1, <2>2
  <2> QED
    BY <2>3, Zenon DEF p, q, d
<1> QED
  BY <1>1, <1>2, <1>3, <1>4

\* r is what a text is read as, up to each of its first n characters.
IsReadAs(r, text, n) ==
    /\ r[0] = G!Begun
    /\ \A k \in 1 .. n : r[k] = G!ReadCharacter(r[k - 1], text[k])

\* Each text can be read.
LEMMA ReadingExists ==
    ASSUME NEW n \in Nat, NEW text
    PROVE  \E r : r = [k \in 0 .. n |->
                          IF k = 0 THEN G!Begun ELSE G!ReadCharacter(r[k - 1], text[k])]
<1> DEFINE Is(r, m) == r = [k \in 0 .. m |->
                               IF k = 0 THEN G!Begun ELSE G!ReadCharacter(r[k - 1], text[k])]
           S == {m \in 0 .. n : \E r : Is(r, m)}
<1>1. 0 \in S
  <2> DEFINE r == [k \in 0 .. 0 |-> G!Begun]
  <2>1. \A k \in 0 .. 0 : k = 0
    OBVIOUS
  <2>2. r = [k \in 0 .. 0 |-> IF k = 0 THEN G!Begun ELSE G!ReadCharacter(r[k - 1], text[k])]
    BY <2>1
  <2>3. Is(r, 0)
    BY <2>2
  <2> HIDE DEF r, Is
  <2> QED
    BY <2>3
<1>2. ASSUME NEW m \in 1 .. n, m - 1 \in S PROVE m \in S
  <2>1. PICK r : Is(r, m - 1)
    BY <1>2
  <2> DEFINE s == [k \in 0 .. m |-> IF k = m THEN G!ReadCharacter(r[m - 1], text[m]) ELSE r[k]]
  <2>2. \A k \in 0 .. m - 1 : k \in 0 .. m /\ k # m
    OBVIOUS
  <2>3. \A k \in 0 .. m - 1 : s[k] = r[k]
    BY <2>2
  <2>4. ASSUME NEW k \in 0 .. m
        PROVE  s[k] = IF k = 0 THEN G!Begun ELSE G!ReadCharacter(s[k - 1], text[k])
    <3>1. CASE k = m
      <4>1. k # 0 /\ k - 1 = m - 1 /\ k - 1 \in 0 .. m - 1
        BY <3>1
      <4> QED
        BY <3>1, <4>1, <2>3
    <3>2. CASE k # m
      <4>1. k \in 0 .. m - 1 /\ (k # 0 => k - 1 \in 0 .. m - 1)
        BY <3>2
      <4>2. r[k] = IF k = 0 THEN G!Begun ELSE G!ReadCharacter(r[k - 1], text[k])
        BY <2>1, <4>1
      <4> QED
        BY <4>1, <4>2, <2>3
    <3> QED
      BY <3>1, <3>2
  <2>5. Is(s, m)
    <3>1. s = [k \in 0 .. m |-> s[k]]
      OBVIOUS
    <3> HIDE DEF s
    <3> QED
      BY <3>1, <2>4
  <2> HIDE DEF Is, s
  <2> QED
    BY <2>5
<1> HIDE DEF Is
<1>3. \A m \in 0 .. n : m \in S
  <2> HIDE DEF S
  <2> QED
    BY <1>1, <1>2, Upwards
<1>4. \E r : Is(r, n)
  BY <1>3
<1> QED
  BY <1>4 DEF Is

\* What becomes of a text is what it is read as.
LEMMA LoadPatternIs ==
    ASSUME NEW text \in Seq(Int)
    PROVE  \E r : /\ IsReadAs(r, text, Len(text))
                  /\ G!LoadPattern(text)
                       = IF /\ \A i \in DOMAIN text : text[i] \in {G!Wild, G!Space} \cup 0 .. Radix - 1
                            /\ r[Len(text)].nibble = <<>>
                         THEN {G!Trimmed(r[Len(text)].pattern)}
                         ELSE {}
<1> DEFINE Is(r) == r = [n \in 0 .. Len(text) |->
                            IF n = 0 THEN G!Begun ELSE G!ReadCharacter(r[n - 1], text[n])]
           f == CHOOSE r : Is(r)
<1>1. Len(text) \in Nat
  BY Elements
<1>2. Is(f)
  <2>1. \E r : Is(r)
    BY <1>1, ReadingExists
  <2> HIDE DEF Is
  <2> QED
    BY <2>1
<1>3. IsReadAs(f, text, Len(text))
  <2> HIDE DEF f
  <2>1. f[0] = G!Begun
    BY <1>1, <1>2
  <2>2. ASSUME NEW k \in 1 .. Len(text) PROVE f[k] = G!ReadCharacter(f[k - 1], text[k])
    <3>1. k \in 0 .. Len(text) /\ k # 0
      BY <1>1
    <3> QED
      BY <1>2, <3>1
  <2> QED
    BY <2>1, <2>2 DEF IsReadAs
<1>4. G!LoadPattern(text)
        = IF /\ \A i \in DOMAIN text : text[i] \in {G!Wild, G!Space} \cup 0 .. Radix - 1
             /\ f[Len(text)].nibble = <<>>
          THEN {G!Trimmed(f[Len(text)].pattern)}
          ELSE {}
  BY Zenon DEF G!LoadPattern
<1> HIDE DEF f
<1> QED
  BY <1>3, <1>4

\* Tokens are spelled one after the other.
LEMMA OneAfterTheOther ==
    ASSUME NEW text, NEW tokens \in Seq(G!Token), NEW first, NEW last,
           Len(text) \in Nat, DOMAIN text = 1 .. Len(text),
           G!Spells(text, tokens, first, last)
    PROVE  /\ \A i \in 1 .. Len(tokens) :
                 first[i] \in 1 .. Len(text) /\ last[i] \in 1 .. Len(text) /\ first[i] <= last[i]
           /\ \A i, j \in 1 .. Len(tokens) : i < j => last[i] < first[j]
<1>1. Len(tokens) \in Nat /\ DOMAIN tokens = 1 .. Len(tokens)
  BY Elements
<1>2. ASSUME NEW i \in 1 .. Len(tokens)
      PROVE  first[i] \in 1 .. Len(text) /\ last[i] \in 1 .. Len(text) /\ first[i] <= last[i]
  <2>1. first[i] \in 1 .. Len(text) /\ last[i] \in 1 .. Len(text)
    BY <1>1 DEF G!Spells
  <2> QED
    BY <1>1, <2>1 DEF G!Spells
<1>3. ASSUME NEW i \in 2 .. Len(tokens) PROVE last[i - 1] < first[i]
  BY <1>1, <1>3 DEF G!Spells
<1> DEFINE S == {j \in 0 .. Len(tokens) : \A i \in 1 .. j : i < j => last[i] < first[j]}
<1>4. 0 \in S
  BY <1>1
<1>5. ASSUME NEW j \in 1 .. Len(tokens), j - 1 \in S PROVE j \in S
  <2>1. ASSUME NEW i \in 1 .. j, i < j PROVE last[i] < first[j]
    <3>1. j \in 2 .. Len(tokens) /\ j - 1 \in 1 .. Len(tokens) /\ i \in 1 .. j - 1 /\ i \in 1 .. Len(tokens)
      BY <1>1, <2>1
    <3>2. last[j - 1] < first[j]
      BY <1>3, <3>1
    <3>3. CASE i = j - 1
      BY <3>2, <3>3
    <3>4. CASE i # j - 1
      <4>1. i < j - 1
        BY <3>1, <3>4
      <4>2. last[i] < first[j - 1]
        BY <1>5, <3>1, <4>1
      <4>3. /\ first[j - 1] \in 1 .. Len(text) /\ first[j] \in 1 .. Len(text)
            /\ last[i] \in 1 .. Len(text) /\ last[j - 1] \in 1 .. Len(text)
            /\ first[j - 1] <= last[j - 1]
        BY <1>2, <3>1
      <4> QED
        BY <3>2, <4>2, <4>3
    <3> QED
      BY <3>3, <3>4
  <2> QED
    BY <1>1, <2>1
<1>6. \A j \in 0 .. Len(tokens) : j \in S
  <2> HIDE DEF S
  <2> QED
    BY <1>1, <1>4, <1>5, Upwards
<1>7. ASSUME NEW i \in 1 .. Len(tokens), NEW j \in 1 .. Len(tokens), i < j
      PROVE  last[i] < first[j]
  <2>1. j \in S /\ i \in 1 .. j
    BY <1>1, <1>6, <1>7
  <2> QED
    BY <1>7, <2>1
<1> QED
  BY <1>2, <1>7

\* The first i of a sequence.
LEMMA FirstOnes ==
    ASSUME NEW P, NEW s \in Seq(P)
    PROVE  /\ SubSeq(s, 1, 0) = <<>>
           /\ SubSeq(s, 1, Len(s)) = s
           /\ \A i \in 1 .. Len(s) : SubSeq(s, 1, i) = Append(SubSeq(s, 1, i - 1), s[i])
<1>1. Len(s) \in Nat /\ DOMAIN s = 1 .. Len(s) /\ \A i \in 1 .. Len(s) : s[i] \in P
  BY Elements
<1>2. SubSeq(s, 1, 0) = <<>>
  <2>1. SubSeq(s, 1, 0) \in Seq(P) /\ Len(SubSeq(s, 1, 0)) = 0
    BY <1>1, Part
  <2> QED
    BY <2>1, EmptySeq
<1>3. SubSeq(s, 1, Len(s)) = s
  <2>1. /\ SubSeq(s, 1, Len(s)) \in Seq(P) /\ Len(SubSeq(s, 1, Len(s))) = Len(s)
        /\ \A i \in 1 .. Len(s) : SubSeq(s, 1, Len(s))[i] = s[i]
    <3>1. Len(s) <= Len(s) /\ Len(s) - 1 + 1 = Len(s) /\ (~(1 <= Len(s)) => Len(s) = 0)
          /\ \A i \in 1 .. Len(s) : 1 + i - 1 = i
      BY <1>1
    <3>2. /\ SubSeq(s, 1, Len(s)) \in Seq(P)
          /\ Len(SubSeq(s, 1, Len(s))) = IF 1 <= Len(s) THEN Len(s) - 1 + 1 ELSE 0
          /\ \A i \in 1 .. Len(s) - 1 + 1 : SubSeq(s, 1, Len(s))[i] = s[1 + i - 1]
      BY <1>1, <3>1, Part
    <3> QED
      BY <3>1, <3>2
  <2> QED
    BY <1>1, <2>1, SeqEqual
<1>4. ASSUME NEW i \in 1 .. Len(s) PROVE SubSeq(s, 1, i) = Append(SubSeq(s, 1, i - 1), s[i])
  <2> DEFINE a == SubSeq(s, 1, i)
             b == SubSeq(s, 1, i - 1)
  <2>1. i \in Nat /\ i - 1 \in Nat /\ i <= Len(s) /\ i - 1 <= Len(s) /\ 1 <= i
        /\ (~(1 <= i - 1) => i - 1 = 0)
    BY <1>1
  <2>2. a \in Seq(P) /\ Len(a) = i /\ \A k \in 1 .. i : a[k] = s[k]
    <3>1. /\ a \in Seq(P) /\ Len(a) = IF 1 <= i THEN i - 1 + 1 ELSE 0
          /\ \A k \in 1 .. i - 1 + 1 : a[k] = s[1 + k - 1]
      BY <2>1, Part
    <3> HIDE DEF a
    <3> QED
      BY <2>1, <3>1
  <2>3. b \in Seq(P) /\ Len(b) = i - 1 /\ \A k \in 1 .. i - 1 : b[k] = s[k]
    <3>1. /\ b \in Seq(P) /\ Len(b) = IF 1 <= i - 1 THEN i - 1 - 1 + 1 ELSE 0
          /\ \A k \in 1 .. i - 1 - 1 + 1 : b[k] = s[1 + k - 1]
      BY <2>1, Part
    <3> HIDE DEF b
    <3> QED
      BY <2>1, <3>1
  <2> HIDE DEF a, b
  <2>4. /\ Append(b, s[i]) \in Seq(P) /\ Len(Append(b, s[i])) = Len(b) + 1
        /\ \A k \in 1 .. Len(b) : Append(b, s[i])[k] = b[k]
        /\ Append(b, s[i])[Len(b) + 1] = s[i]
    BY <1>1, <2>3, AppendProperties
  <2>5. Len(Append(b, s[i])) = Len(a)
    BY <2>1, <2>2, <2>3, <2>4
  <2>6. ASSUME NEW k \in 1 .. Len(a) PROVE Append(b, s[i])[k] = a[k]
    <3>1. CASE k = i
      <4>1. k = Len(b) + 1
        BY <2>1, <2>3, <3>1
      <4> QED
        BY <2>2, <2>4, <3>1, <4>1
    <3>2. CASE k # i
      <4>1. k \in 1 .. i - 1 /\ k \in 1 .. i
        BY <2>1, <2>2, <3>2
      <4> QED
        BY <2>2, <2>3, <2>4, <4>1
    <3> QED
      BY <3>1, <3>2
  <2>7. a = Append(b, s[i])
    BY <2>2, <2>4, <2>5, <2>6, SeqEqual
  <2> QED
    BY <2>7 DEF a, b
<1> QED
  BY <1>2, <1>3, <1>4

\* What has been read: the first i tokens, and perhaps half a byte more.
Read(tokens, i, nibble) == [pattern |-> SubSeq(tokens, 1, i), nibble |-> nibble]

\* A character in a place of the text where it may be.
LEMMA CharacterIs ==
    ASSUME NEW tokens \in Seq(G!Token), NEW i \in 0 .. Len(tokens)
    PROVE  /\ \A nibble : G!ReadCharacter(Read(tokens, i, nibble), G!Space) = Read(tokens, i, nibble)
           /\ i + 1 \in 1 .. Len(tokens) =>
                 /\ tokens[i + 1] = G!Wild =>
                       G!ReadCharacter(Read(tokens, i, <<>>), G!Wild) = Read(tokens, i + 1, <<>>)
                 /\ tokens[i + 1] # G!Wild =>
                       /\ G!ReadCharacter(Read(tokens, i, <<>>), tokens[i + 1] \div Radix)
                            = Read(tokens, i, <<tokens[i + 1] \div Radix>>)
                       /\ G!ReadCharacter(Read(tokens, i, <<tokens[i + 1] \div Radix>>),
                                          tokens[i + 1] % Radix)
                            = Read(tokens, i + 1, <<>>)
<1>1. Len(tokens) \in Nat /\ Radix \in Nat
  BY Elements, SearchAssumption DEF G!SearchAssumption
<1>2. ASSUME NEW nibble
      PROVE  G!ReadCharacter(Read(tokens, i, nibble), G!Space) = Read(tokens, i, nibble)
  BY DEF G!ReadCharacter, G!Wild, G!Space
<1>3. ASSUME i + 1 \in 1 .. Len(tokens)
      PROVE  /\ tokens[i + 1] \in G!Token
             /\ SubSeq(tokens, 1, i + 1) = Append(SubSeq(tokens, 1, i), tokens[i + 1])
  <2>1. tokens[i + 1] \in G!Token
    BY <1>3, Elements
  <2>2. SubSeq(tokens, 1, i + 1) = Append(SubSeq(tokens, 1, i + 1 - 1), tokens[i + 1])
    BY <1>3, FirstOnes
  <2>3. i + 1 - 1 = i
    BY <1>1
  <2> QED
    BY <2>1, <2>2, <2>3
<1>4. ASSUME i + 1 \in 1 .. Len(tokens), tokens[i + 1] = G!Wild
      PROVE  G!ReadCharacter(Read(tokens, i, <<>>), G!Wild) = Read(tokens, i + 1, <<>>)
  <2>1. SubSeq(tokens, 1, i + 1) = Append(SubSeq(tokens, 1, i), G!Wild)
    BY <1>3, <1>4
  <2>2. G!Wild # G!Space
    BY DEF G!Wild, G!Space
  <2>3. G!ReadCharacter(Read(tokens, i, <<>>), G!Wild)
          = [Read(tokens, i, <<>>) EXCEPT !.pattern = Append(@, G!Wild)]
    BY <2>2 DEF G!ReadCharacter
  <2> QED
    BY <2>1, <2>3 DEF Read
<1>5. ASSUME i + 1 \in 1 .. Len(tokens), tokens[i + 1] # G!Wild
      PROVE  /\ G!ReadCharacter(Read(tokens, i, <<>>), tokens[i + 1] \div Radix)
                  = Read(tokens, i, <<tokens[i + 1] \div Radix>>)
             /\ G!ReadCharacter(Read(tokens, i, <<tokens[i + 1] \div Radix>>),
                                tokens[i + 1] % Radix)
                  = Read(tokens, i + 1, <<>>)
  <2> DEFINE t == tokens[i + 1]
             q == t \div Radix
             d == t % Radix
  <2>1. q \in 0 .. Radix - 1 /\ d \in 0 .. Radix - 1 /\ q * Radix + d = t
    BY <1>3, <1>5, DigitsOf
  <2>2. SubSeq(tokens, 1, i + 1) = Append(SubSeq(tokens, 1, i), t)
    BY <1>3, <1>5
  <2> HIDE DEF t, q, d
  <2>3. q # G!Wild /\ q # G!Space /\ d # G!Wild /\ d # G!Space
    BY <1>1, <2>1 DEF G!Wild, G!Space
  <2>4. G!ReadCharacter(Read(tokens, i, <<>>), q) = Read(tokens, i, <<q>>)
    <3>1. Read(tokens, i, <<>>).nibble = <<>>
      BY DEF Read
    <3>2. G!ReadCharacter(Read(tokens, i, <<>>), q) = [Read(tokens, i, <<>>) EXCEPT !.nibble = <<q>>]
      BY <2>3, <3>1 DEF G!ReadCharacter
    <3> QED
      BY <3>2 DEF Read
  <2>5. G!ReadCharacter(Read(tokens, i, <<q>>), d) = Read(tokens, i + 1, <<>>)
    <3>1. /\ Read(tokens, i, <<q>>).nibble # <<>>
          /\ Read(tokens, i, <<q>>).nibble[1] = q
          /\ Read(tokens, i, <<q>>).pattern = SubSeq(tokens, 1, i)
      BY DEF Read
    <3>2. G!ReadCharacter(Read(tokens, i, <<q>>), d)
            = [pattern |-> Append(Read(tokens, i, <<q>>).pattern,
                                  Read(tokens, i, <<q>>).nibble[1] * Radix + d),
               nibble |-> <<>>]
      BY <2>3, <3>1 DEF G!ReadCharacter
    <3> QED
      BY <2>1, <2>2, <3>1, <3>2 DEF Read
  <2> QED
    BY <2>4, <2>5 DEF q, d, t
<1> QED
  BY <1>2, <1>4, <1>5

\* After k characters of the text, the first i tokens are behind, and the next one has
\* not begun or is half read.
IsAfter(r, tokens, first, last, k, i) ==
    /\ i >= 1 => last[i] <= k
    /\ \/ r[k] = Read(tokens, i, <<>>) /\ (i < Len(tokens) => k < first[i + 1])
       \/ /\ r[k] = Read(tokens, i, <<tokens[i + 1] \div Radix>>)
          /\ i < Len(tokens) /\ tokens[i + 1] # G!Wild
          /\ first[i + 1] <= k /\ k < last[i + 1]

\* A character leads from each of these places to the next.
LEMMA OneCharacter ==
    ASSUME NEW text, NEW tokens \in Seq(G!Token), NEW first, NEW last,
           Len(text) \in Nat, DOMAIN text = 1 .. Len(text),
           G!Spells(text, tokens, first, last),
           NEW r, IsReadAs(r, text, Len(text)),
           NEW k \in 1 .. Len(text), NEW i \in 0 .. Len(tokens),
           IsAfter(r, tokens, first, last, k - 1, i)
    PROVE  \E n \in 0 .. Len(tokens) : IsAfter(r, tokens, first, last, k, n)
<1>1. Len(tokens) \in Nat /\ DOMAIN tokens = 1 .. Len(tokens) /\ Radix \in Nat
  BY Elements, SearchAssumption DEF G!SearchAssumption
<1>2. /\ \A j \in 1 .. Len(tokens) :
            first[j] \in 1 .. Len(text) /\ last[j] \in 1 .. Len(text) /\ first[j] <= last[j]
      /\ \A a, b \in 1 .. Len(tokens) : a < b => last[a] < first[b]
  BY OneAfterTheOther
<1>3. r[k] = G!ReadCharacter(r[k - 1], text[k])
  BY DEF IsReadAs
<1>4. ASSUME NEW j \in 1 .. Len(tokens)
      PROVE  /\ tokens[j] = G!Wild => first[j] = last[j] /\ text[first[j]] = G!Wild
             /\ tokens[j] # G!Wild =>
                   /\ first[j] < last[j]
                   /\ text[first[j]] = tokens[j] \div Radix /\ text[last[j]] = tokens[j] % Radix
                   /\ tokens[j] \div Radix # G!Space /\ tokens[j] % Radix # G!Space
  <2>1. tokens[j] \in G!Token
    BY Elements
  <2>2. ASSUME tokens[j] # G!Wild
        PROVE  tokens[j] \div Radix \in 0 .. Radix - 1 /\ tokens[j] % Radix \in 0 .. Radix - 1
    BY <2>1, <2>2, DigitsOf
  <2>3. ASSUME tokens[j] # G!Wild
        PROVE  tokens[j] \div Radix # G!Space /\ tokens[j] % Radix # G!Space
    <3> DEFINE q == tokens[j] \div Radix
               d == tokens[j] % Radix
    <3>1. q \in 0 .. Radix - 1 /\ d \in 0 .. Radix - 1
      BY <2>2, <2>3
    <3> HIDE DEF q, d
    <3>2. q # G!Space /\ d # G!Space
      BY <1>1, <3>1 DEF G!Space
    <3> QED
      BY <3>2 DEF q, d
  <2>4. /\ tokens[j] = G!Wild => first[j] = last[j] /\ text[first[j]] = G!Wild
        /\ tokens[j] # G!Wild =>
              /\ first[j] < last[j]
              /\ text[first[j]] = tokens[j] \div Radix /\ text[last[j]] = tokens[j] % Radix
    BY <1>1, Zenon DEF G!Spells
  <2> QED
    BY <2>3, <2>4, Zenon
<1>5. text[k] = G!Space \/ \E j \in 1 .. Len(tokens) : k = first[j] \/ k = last[j]
  BY <1>1 DEF G!Spells
<1>6. CASE text[k] = G!Space
  <2>1. ASSUME NEW j \in 1 .. Len(tokens) PROVE k # first[j] /\ k # last[j]
    <3>1. G!Wild # G!Space
      BY DEF G!Wild, G!Space
    <3> QED
      BY <1>4, <1>6, <3>1, Zenon
  <2>2. \A nibble : r[k - 1] = Read(tokens, i, nibble) => r[k] = r[k - 1]
    BY <1>3, <1>6, CharacterIs
  <2>3. i >= 1 => last[i] <= k
    <3>1. i >= 1 => i \in 1 .. Len(tokens)
      BY <1>1
    <3> QED
      BY <1>2, <3>1 DEF IsAfter
  <2>4. i < Len(tokens) => i + 1 \in 1 .. Len(tokens)
    BY <1>1
  <2>5. CASE r[k - 1] = Read(tokens, i, <<>>) /\ (i < Len(tokens) => k - 1 < first[i + 1])
    <3>1. r[k] = Read(tokens, i, <<>>)
      BY <2>2, <2>5
    <3>2. i < Len(tokens) => k < first[i + 1]
      BY <1>2, <2>1, <2>4, <2>5
    <3> QED
      BY <2>3, <3>1, <3>2 DEF IsAfter
  <2>6. CASE /\ r[k - 1] = Read(tokens, i, <<tokens[i + 1] \div Radix>>)
             /\ i < Len(tokens) /\ tokens[i + 1] # G!Wild
             /\ first[i + 1] <= k - 1 /\ k - 1 < last[i + 1]
    <3>1. r[k] = Read(tokens, i, <<tokens[i + 1] \div Radix>>)
      BY <2>2, <2>6
    <3>2. first[i + 1] <= k /\ k < last[i + 1]
      BY <1>2, <2>1, <2>4, <2>6
    <3> QED
      BY <2>3, <2>6, <3>1, <3>2 DEF IsAfter
  <2> QED
    BY <2>5, <2>6 DEF IsAfter
<1>7. ASSUME NEW j \in 1 .. Len(tokens), k = first[j] \/ k = last[j]
      PROVE  \E n \in 0 .. Len(tokens) : IsAfter(r, tokens, first, last, k, n)
  <2>1. j > i
    <3> SUFFICES ASSUME j <= i PROVE FALSE
      BY <1>1
    <3>1. i \in 1 .. Len(tokens) /\ last[i] <= k - 1
      BY <1>1 DEF IsAfter
    <3>2. last[j] <= last[i]
      <4>1. CASE j = i
        BY <1>2, <3>1, <4>1
      <4>2. CASE j < i
        BY <1>2, <3>1, <4>2
      <4> QED
        BY <1>1, <4>1, <4>2
    <3> QED
      BY <1>2, <1>7, <3>1, <3>2
  <2>2. i + 1 \in 1 .. Len(tokens) /\ i < Len(tokens) /\ i + 1 \in 0 .. Len(tokens) /\ i + 1 >= 1
    BY <1>1, <2>1
  <2>3. j > i + 1 => last[i + 1] < first[j]
    BY <1>2, <2>2
  <2>4. /\ first[i + 1] \in 1 .. Len(text) /\ last[i + 1] \in 1 .. Len(text)
        /\ first[i + 1] <= last[i + 1]
        /\ first[j] \in 1 .. Len(text) /\ last[j] \in 1 .. Len(text) /\ first[j] <= last[j]
    BY <1>2, <2>2
  <2>5. ASSUME i + 1 < Len(tokens) PROVE last[i + 1] < first[i + 1 + 1]
    <3>1. i + 1 + 1 \in 1 .. Len(tokens) /\ i + 1 < i + 1 + 1
      BY <1>1, <2>2, <2>5
    <3> QED
      BY <1>2, <2>2, <3>1
  <2>6. CASE r[k - 1] = Read(tokens, i, <<>>) /\ (i < Len(tokens) => k - 1 < first[i + 1])
    <3>1. k = first[i + 1]
      <4>1. j = i + 1 \/ j > i + 1
        BY <1>1, <2>1
      <4> QED
        BY <1>7, <2>2, <2>3, <2>4, <2>6, <4>1
    <3>2. CASE tokens[i + 1] = G!Wild
      <4>1. text[k] = G!Wild /\ last[i + 1] = k
        BY <1>4, <2>2, <3>1, <3>2
      <4>2. r[k] = Read(tokens, i + 1, <<>>)
        BY <1>3, <2>2, <2>6, <3>2, <4>1, CharacterIs
      <4>3. IsAfter(r, tokens, first, last, k, i + 1)
        BY <2>5, <4>1, <4>2 DEF IsAfter
      <4> QED
        BY <2>2, <4>3
    <3>3. CASE tokens[i + 1] # G!Wild
      <4>1. text[k] = tokens[i + 1] \div Radix /\ k < last[i + 1]
        BY <1>4, <2>2, <3>1, <3>3
      <4>2. r[k] = Read(tokens, i, <<tokens[i + 1] \div Radix>>)
        BY <1>3, <2>2, <2>6, <3>3, <4>1, CharacterIs
      <4>3. i >= 1 => last[i] <= k
        <5>1. i >= 1 => i \in 1 .. Len(tokens)
          BY <1>1
        <5> QED
          BY <1>2, <5>1 DEF IsAfter
      <4>4. IsAfter(r, tokens, first, last, k, i)
        BY <2>2, <2>4, <3>1, <3>3, <4>1, <4>2, <4>3 DEF IsAfter
      <4> QED
        BY <4>4
    <3> QED
      BY <3>2, <3>3
  <2>7. CASE /\ r[k - 1] = Read(tokens, i, <<tokens[i + 1] \div Radix>>)
             /\ i < Len(tokens) /\ tokens[i + 1] # G!Wild
             /\ first[i + 1] <= k - 1 /\ k - 1 < last[i + 1]
    <3>1. k = last[i + 1]
      <4>1. j = i + 1 \/ j > i + 1
        BY <1>1, <2>1
      <4> QED
        BY <1>7, <2>2, <2>3, <2>4, <2>7, <4>1
    <3>2. text[k] = tokens[i + 1] % Radix
      BY <1>4, <2>2, <2>7, <3>1
    <3>3. r[k] = Read(tokens, i + 1, <<>>)
      BY <1>3, <2>2, <2>7, <3>2, CharacterIs
    <3>4. IsAfter(r, tokens, first, last, k, i + 1)
      BY <2>4, <2>5, <3>1, <3>3 DEF IsAfter
    <3> QED
      BY <2>2, <3>4
  <2> QED
    BY <2>6, <2>7 DEF IsAfter
<1> QED
  BY <1>5, <1>6, <1>7

\* A text is read as the tokens that it spells, and no character is left.
LEMMA SpelledIs ==
    ASSUME NEW text, NEW tokens \in Seq(G!Token), NEW first, NEW last,
           Len(text) \in Nat, DOMAIN text = 1 .. Len(text),
           G!Spells(text, tokens, first, last),
           NEW r, IsReadAs(r, text, Len(text))
    PROVE  r[Len(text)] = [pattern |-> tokens, nibble |-> <<>>]
<1> DEFINE S == {k \in 0 .. Len(text) :
                    \E i \in 0 .. Len(tokens) : IsAfter(r, tokens, first, last, k, i)}
<1>1. Len(tokens) \in Nat
  BY Elements
<1>2. \A j \in 1 .. Len(tokens) :
         first[j] \in 1 .. Len(text) /\ last[j] \in 1 .. Len(text) /\ first[j] <= last[j]
  BY OneAfterTheOther
<1>3. 0 \in S
  <2>1. r[0] = Read(tokens, 0, <<>>)
    BY FirstOnes DEF IsReadAs, Read, G!Begun
  <2>2. ASSUME 0 < Len(tokens) PROVE 0 < first[0 + 1]
    <3>1. 1 \in 1 .. Len(tokens) /\ 0 + 1 = 1
      BY <1>1, <2>2
    <3> QED
      BY <1>2, <3>1
  <2>3. IsAfter(r, tokens, first, last, 0, 0)
    BY <2>1, <2>2 DEF IsAfter
  <2> QED
    BY <1>1, <2>3
<1>4. ASSUME NEW k \in 1 .. Len(text), k - 1 \in S PROVE k \in S
  <2>1. PICK i \in 0 .. Len(tokens) : IsAfter(r, tokens, first, last, k - 1, i)
    BY <1>4
  <2>2. \E n \in 0 .. Len(tokens) : IsAfter(r, tokens, first, last, k, n)
    BY <2>1, OneCharacter
  <2> QED
    BY <2>2
<1>5. \A k \in 0 .. Len(text) : k \in S
  <2> HIDE DEF S
  <2> QED
    BY <1>3, <1>4, Upwards
<1>6. PICK i \in 0 .. Len(tokens) : IsAfter(r, tokens, first, last, Len(text), i)
  BY <1>5
<1>7. i = Len(tokens) /\ r[Len(text)] = Read(tokens, i, <<>>)
  <2>1. ASSUME i < Len(tokens) PROVE FALSE
    <3>1. i + 1 \in 1 .. Len(tokens)
      BY <1>1, <2>1
    <3>2. first[i + 1] \in 1 .. Len(text) /\ last[i + 1] \in 1 .. Len(text)
      BY <1>2, <3>1
    <3> QED
      BY <1>6, <2>1, <3>2 DEF IsAfter
  <2> QED
    BY <1>1, <1>6, <2>1 DEF IsAfter
<1> QED
  BY <1>7, FirstOnes DEF Read

\* The last number of a set that has a bound.
LEMMA LastOne ==
    ASSUME NEW n \in Nat, NEW S \in SUBSET (0 .. n), S # {}
    PROVE  G!Max(S) \in S /\ \A x \in S : G!Max(S) >= x
<1>1. \E x \in S : \A y \in S : x >= y
  <2> DEFINE B == {b \in 0 .. n : \A y \in S : b >= y}
  <2>1. n \in B
    OBVIOUS
  <2>2. PICK b \in B : \A c \in B : b <= c
    <3>1. B \in SUBSET Nat /\ B # {}
      BY <2>1
    <3> HIDE DEF B
    <3> QED
      BY <3>1, LeastOne
  <2>3. b \in S
    <3> SUFFICES ASSUME b \notin S PROVE FALSE
      OBVIOUS
    <3>1. \A y \in S : b - 1 >= y
      BY <2>2
    <3>2. b - 1 \in B
      <4>1. PICK y \in S : TRUE
        OBVIOUS
      <4>2. y \in Nat /\ b - 1 >= y
        BY <3>1
      <4> QED
        BY <2>2, <3>1, <4>2
    <3> QED
      BY <2>2, <3>2
  <2> QED
    BY <2>2, <2>3
<1> QED
  BY <1>1 DEF G!Max

\* What is trimmed from the end is wild.
LEMMA TrimmedIs ==
    ASSUME NEW tokens \in Seq(G!Token)
    PROVE  /\ G!Trimmed(tokens) \in Seq(G!Token)
           /\ Len(G!Trimmed(tokens)) <= Len(tokens)
           /\ \A j \in 1 .. Len(G!Trimmed(tokens)) : G!Trimmed(tokens)[j] = tokens[j]
           /\ \A j \in 1 .. Len(tokens) :
                 j > Len(G!Trimmed(tokens)) => tokens[j] = G!Wild
           /\ Len(G!Trimmed(tokens)) > 0 => tokens[Len(G!Trimmed(tokens))] # G!Wild
<1> DEFINE S == {0} \cup {i \in DOMAIN tokens : tokens[i] # G!Wild}
           m == G!Max(S)
<1>1. Len(tokens) \in Nat /\ DOMAIN tokens = 1 .. Len(tokens)
  BY Elements
<1>2. m \in S /\ \A x \in S : m >= x
  <2>1. S \in SUBSET (0 .. Len(tokens)) /\ S # {}
    BY <1>1
  <2> HIDE DEF S
  <2> QED
    BY <1>1, <2>1, LastOne
<1>3. m \in 0 .. Len(tokens)
  BY <1>1, <1>2
<1>4. \A j \in 1 .. Len(tokens) : j > m => tokens[j] = G!Wild
  <2> SUFFICES ASSUME NEW j \in 1 .. Len(tokens), j > m, tokens[j] # G!Wild PROVE FALSE
    OBVIOUS
  <2>1. j \in S
    BY <1>1
  <2>2. m >= j
    BY <1>2, <2>1
  <2> HIDE DEF m
  <2> QED
    BY <1>1, <1>3, <2>2
<1>5. m > 0 => tokens[m] # G!Wild
  BY <1>2
<1>6. G!Trimmed(tokens) = SubSeq(tokens, 1, m)
  BY DEF G!Trimmed
<1> HIDE DEF m
<1>7. /\ SubSeq(tokens, 1, m) \in Seq(G!Token) /\ Len(SubSeq(tokens, 1, m)) = m
      /\ \A j \in 1 .. m : SubSeq(tokens, 1, m)[j] = tokens[j]
  <2>1. m \in Nat /\ m <= Len(tokens) /\ m - 1 + 1 = m /\ (~(1 <= m) => m = 0)
        /\ \A j \in 1 .. m : 1 + j - 1 = j
    BY <1>1, <1>3
  <2>2. /\ SubSeq(tokens, 1, m) \in Seq(G!Token)
        /\ Len(SubSeq(tokens, 1, m)) = IF 1 <= m THEN m - 1 + 1 ELSE 0
        /\ \A j \in 1 .. m - 1 + 1 : SubSeq(tokens, 1, m)[j] = tokens[1 + j - 1]
    BY <2>1, Part
  <2> QED
    BY <2>1, <2>2
<1> QED
  BY <1>1, <1>3, <1>4, <1>5, <1>6, <1>7

\* A match of the trimmed tokens is one of all of them.
LEMMA MatchesAre ==
    ASSUME NEW tokens \in Seq(G!Token), NEW image \in Seq(Nat), NEW p \in Nat
    PROVE  G!Matches(G!Trimmed(tokens), image, p)
             <=> \A j \in DOMAIN tokens : tokens[j] # G!Wild => image[p + j] = tokens[j]
<1> DEFINE s == G!Trimmed(tokens)
<1>1. Len(tokens) \in Nat /\ DOMAIN tokens = 1 .. Len(tokens)
  BY Elements
<1>2. /\ s \in Seq(G!Token) /\ Len(s) <= Len(tokens)
      /\ \A j \in 1 .. Len(s) : s[j] = tokens[j]
      /\ \A j \in 1 .. Len(tokens) : j > Len(s) => tokens[j] = G!Wild
  BY TrimmedIs
<1>3. Len(s) \in Nat /\ DOMAIN s = 1 .. Len(s)
  BY <1>2, Elements
<1> HIDE DEF s
<1>4. G!Matches(s, image, p)
        <=> \A j \in 1 .. Len(s) : tokens[j] # G!Wild => image[p + j] = tokens[j]
  BY <1>2, <1>3 DEF G!Matches
<1>5. \A j \in 1 .. Len(tokens) : tokens[j] # G!Wild => j \in 1 .. Len(s)
  BY <1>1, <1>2, <1>3
<1>6. \A j \in 1 .. Len(s) : j \in 1 .. Len(tokens)
  BY <1>1, <1>2, <1>3
<1> QED
  BY <1>1, <1>4, <1>5, <1>6 DEF s

\* The positions that n threads share.
Share(range, n, i) == (range \div n) * (i - 1) .. (range \div n) * (i - 1) + G!Length(range, n, i - 1) - 1

\* Each position is some thread's, and no other one's.
LEMMA SharesAre ==
    ASSUME NEW range \in Nat, NEW n \in Nat, n >= 1
    PROVE  /\ \A i \in 1 .. n : Share(range, n, i) \subseteq 0 .. range - 1
           /\ \A p \in 0 .. range - 1 : \E i \in 1 .. n : p \in Share(range, n, i)
           /\ \A i, j \in 1 .. n : i # j => Share(range, n, i) \cap Share(range, n, j) = {}
<1> DEFINE g == range \div n
<1>1. g \in Nat /\ g * n <= range
  <2>1. range % n \in 0 .. n - 1 /\ g \in Nat /\ (range % n) + g * n = range
    BY Halves
  <2> DEFINE a == range % n
             b == g * n
  <2> HIDE DEF g
  <2>2. b \in Nat
    BY <2>1
  <2>3. a \in Nat /\ a + b = range
    BY <2>1
  <2> HIDE DEF a, b
  <2>4. b <= range
    BY <2>2, <2>3
  <2> QED
    BY <2>1, <2>4 DEF b
<1>2. \A i \in 1 .. n :
         Share(range, n, i) = g * (i - 1) .. (IF i = n THEN range - 1 ELSE g * (i - 1) + g - 1)
  <2> SUFFICES ASSUME NEW i \in 1 .. n
               PROVE  Share(range, n, i)
                        = g * (i - 1) .. (IF i = n THEN range - 1 ELSE g * (i - 1) + g - 1)
    OBVIOUS
  <2>1. i - 1 = n - 1 <=> i = n
    OBVIOUS
  <2>2. Share(range, n, i)
          = g * (i - 1) .. g * (i - 1) + (IF i = n THEN range - g * (i - 1) ELSE g) - 1
    BY <2>1 DEF Share, G!Length
  <2> HIDE DEF g
  <2>3. g * (i - 1) \in Nat
    BY <1>1
  <2> DEFINE a == g * (i - 1)
  <2> HIDE DEF a
  <2>4. a \in Nat
    BY <2>3 DEF a
  <2>5. Share(range, n, i) = a .. a + (IF i = n THEN range - a ELSE g) - 1
    BY <2>2 DEF a
  <2>6. a + (range - a) - 1 = range - 1
    BY <2>4
  <2>7. Share(range, n, i) = a .. (IF i = n THEN range - 1 ELSE a + g - 1)
    BY <2>5, <2>6
  <2> QED
    BY <2>7 DEF a
<1> HIDE DEF g
<1>3. \A i \in 1 .. n : \A j \in 1 .. n : i < j => g * (i - 1) + g <= g * (j - 1) /\ g * (j - 1) <= g * n
  <2> SUFFICES ASSUME NEW i \in 1 .. n, NEW j \in 1 .. n, i < j
               PROVE  g * (i - 1) + g <= g * (j - 1) /\ g * (j - 1) <= g * n
    OBVIOUS
  <2>1. PICK d \in Nat : j - 1 = i + d
    <3>1. j - 1 - i \in Nat /\ j - 1 = i + (j - 1 - i)
      OBVIOUS
    <3> QED
      BY <3>1
  <2>2. PICK e \in Nat : n = (j - 1) + e
    <3>1. n - (j - 1) \in Nat /\ n = (j - 1) + (n - (j - 1))
      OBVIOUS
    <3> QED
      BY <3>1
  <2>3. g * (i + d) = g * (i - 1) + g + g * d /\ g * d \in Nat /\ g * (i - 1) \in Nat
    BY <1>1
  <2>4. g * ((j - 1) + e) = g * (j - 1) + g * e /\ g * e \in Nat /\ g * (j - 1) \in Nat
    BY <1>1
  <2>5. g * (j - 1) = g * (i - 1) + g + g * d /\ g * n = g * (j - 1) + g * e
    BY <2>1, <2>2, <2>3, <2>4
  <2> DEFINE u == g * (i - 1)
             v == g * (j - 1)
             w == g * n
             x == g * d
             y == g * e
  <2>6. u \in Nat /\ v \in Nat /\ x \in Nat /\ y \in Nat /\ v = u + g + x /\ w = v + y
    BY <2>3, <2>4, <2>5
  <2> HIDE DEF u, v, w, x, y
  <2>7. u + g <= v /\ v <= w
    BY <1>1, <2>6
  <2> QED
    BY <2>7 DEF u, v, w
<1> DEFINE Start(i) == g * (i - 1)
           Behind(i) == IF i = n THEN range - 1 ELSE Start(i) + g - 1
<1>4. /\ \A i \in 1 .. n : Start(i) \in Nat /\ Start(i) <= range
      /\ \A i \in 1 .. n : \A j \in 1 .. n : i < j => Start(i) + g <= Start(j)
      /\ \A i \in 1 .. n : i # n => Start(i) + g <= range
      /\ Start(1) = 0
  <2>1. \A i \in 1 .. n : Start(i) \in Nat
    BY <1>1
  <2>2. \A i \in 1 .. n : \A j \in 1 .. n : i < j => Start(i) + g <= Start(j)
    BY <1>3
  <2>3. Start(1) = 0
    BY <1>1
  <2>4. Start(n) <= range /\ n \in 1 .. n
    <3>1. CASE n = 1
      BY <2>3, <3>1
    <3>2. CASE n # 1
      <4>1. 1 \in 1 .. n /\ n \in 1 .. n /\ 1 < n
        BY <3>2
      <4>2. Start(n) <= g * n
        BY <1>3, <4>1
      <4>3. g * n \in Nat /\ Start(n) \in Nat
        BY <1>1, <2>1, <4>1
      <4> DEFINE w == g * n
      <4>4. w \in Nat /\ Start(n) \in Nat /\ Start(n) <= w /\ w <= range
        BY <1>1, <4>2, <4>3
      <4> HIDE DEF w, Start
      <4> QED
        BY <4>1, <4>4
    <3> QED
      BY <3>1, <3>2
  <2> HIDE DEF Start
  <2>5. ASSUME NEW i \in 1 .. n, i # n PROVE Start(i) + g <= range
    <3>1. i < n /\ Start(i) \in Nat /\ Start(n) \in Nat
      BY <2>1, <2>4, <2>5
    <3>2. Start(i) + g <= Start(n)
      BY <2>2, <2>4, <3>1
    <3> QED
      BY <1>1, <2>4, <3>1, <3>2
  <2>6. ASSUME NEW i \in 1 .. n PROVE Start(i) <= range
    BY <1>1, <2>1, <2>4, <2>5
  <2> QED
    BY <2>1, <2>2, <2>3, <2>5, <2>6
<1>5. \A i \in 1 .. n : Share(range, n, i) = Start(i) .. Behind(i)
  BY <1>2
<1> HIDE DEF Start
<1>6. \A i \in 1 .. n : Share(range, n, i) \subseteq 0 .. range - 1
  BY <1>1, <1>4, <1>5
<1>7. ASSUME NEW p \in 0 .. range - 1 PROVE \E i \in 1 .. n : p \in Share(range, n, i)
  <2> DEFINE Shared == {i \in 0 .. n - 1 : p < Start(i + 1) => \E x \in 1 .. i : p \in Share(range, n, x)}
  <2>1. 0 \in Shared
    <3>1. 0 + 1 = 1
      OBVIOUS
    <3> QED
      BY <1>4, <3>1
  <2>2. ASSUME NEW i \in 1 .. n - 1, i - 1 \in Shared PROVE i \in Shared
    <3>1. i - 1 + 1 = i /\ i \in 1 .. n /\ i # n /\ i + 1 \in 1 .. n /\ i \in 1 .. i /\ i \in 0 .. n - 1
          /\ \A x \in 1 .. i - 1 : x \in 1 .. i
      OBVIOUS
    <3>2. CASE p < Start(i)
      BY <2>2, <3>1, <3>2
    <3>3. CASE ~(p < Start(i)) /\ p < Start(i + 1)
      <4>1. Start(i + 1) = Start(i) + g
        <5>1. g * (i + 1 - 1) = g * (i - 1) + g
          BY <1>1
        <5> QED
          BY <5>1 DEF Start
      <4>2. p \in Start(i) .. Start(i) + g - 1
        BY <1>1, <1>4, <3>1, <3>3, <4>1
      <4>3. p \in Share(range, n, i)
        BY <1>5, <3>1, <4>2
      <4> QED
        BY <3>1, <4>3
    <3> QED
      BY <3>1, <3>2, <3>3
  <2>3. \A i \in 0 .. n - 1 : i \in Shared
    <3>1. n - 1 \in Nat
      OBVIOUS
    <3> HIDE DEF Shared
    <3> QED
      BY <2>1, <2>2, <3>1, Upwards
  <2>4. CASE p < Start(n)
    <3>1. n - 1 \in Shared /\ n - 1 + 1 = n /\ \A x \in 1 .. n - 1 : x \in 1 .. n
      BY <2>3
    <3> QED
      BY <2>4, <3>1
  <2>5. CASE ~(p < Start(n))
    <3>1. n \in 1 .. n /\ p \in Start(n) .. range - 1
      BY <1>4, <2>5
    <3>2. p \in Share(range, n, n)
      BY <1>5, <3>1
    <3> QED
      BY <3>1, <3>2
  <2> QED
    BY <2>4, <2>5
<1>8. ASSUME NEW i \in 1 .. n, NEW j \in 1 .. n, i # j
      PROVE  Share(range, n, i) \cap Share(range, n, j) = {}
  <2>1. ASSUME NEW a \in 1 .. n, NEW b \in 1 .. n, a < b
        PROVE  Share(range, n, a) \cap Share(range, n, b) = {}
    <3>1. Start(a) \in Nat /\ Start(b) \in Nat /\ a # n /\ Start(a) + g <= Start(b)
      BY <1>4, <2>1
    <3>2. Share(range, n, a) = Start(a) .. Start(a) + g - 1 /\ Share(range, n, b) = Start(b) .. Behind(b)
      BY <1>5, <3>1
    <3> QED
      BY <1>1, <3>1, <3>2
  <2>2. i < j \/ j < i
    BY <1>8
  <2> QED
    BY <2>1, <2>2
<1> QED
  BY <1>6, <1>7, <1>8

\* Whoever looks at a position, what is found is what matches.
FindsMatches(pattern, image, cpu, cores) ==
    LET found == G!Process(pattern, image, cpu, cores)
        reads == G!Reads(pattern, cpu)
    IN  /\ UNION {found[i] : i \in DOMAIN found}
             = {p \in 0 .. Len(image) - reads - 1 : G!Matches(pattern, image, p)}
        /\ \A i, j \in DOMAIN found : i # j => found[i] \cap found[j] = {}

LEMMA FoundAre ==
    ASSUME NEW pattern \in Seq(G!Token), NEW image \in Seq(Nat), NEW cpu \in BOOLEAN,
           NEW cores \in Nat \ {0}, Len(image) >= G!Reads(pattern, cpu)
    PROVE  FindsMatches(pattern, image, cpu, cores)
<1> DEFINE range == Len(image) - G!Reads(pattern, cpu)
           M == {p \in 0 .. range - 1 : G!Matches(pattern, image, p)}
           f == G!Process(pattern, image, cpu, cores)
<1>1. range \in Nat
  <2>1. Len(image) \in Nat /\ Len(pattern) \in Nat
    BY Elements
  <2>2. G!Reads(pattern, cpu) \in Nat
    BY <2>1, SearchAssumption DEF G!Reads, G!SearchAssumption
  <2> QED
    BY <2>1, <2>2
<1>2. CASE Len(image) - Len(pattern) <= cores * Enough
  <2>1. f = <<G!ProcessRange(pattern, image, 0, range)>>
    BY <1>2 DEF G!Process, G!ProcessSerial
  <2> HIDE DEF range
  <2>2. 0 + range - 1 = range - 1
    BY <1>1
  <2>3. G!ProcessRange(pattern, image, 0, range) = M
    BY <2>2 DEF G!ProcessRange
  <2>4. f = <<M>>
    BY <2>1, <2>3
  <2> HIDE DEF f, M
  <2>5. DOMAIN f = {1} /\ f[1] = M
    BY <2>4
  <2>6. UNION {f[i] : i \in DOMAIN f} = M
    BY <2>5
  <2>7. \A i, j \in DOMAIN f : i # j => f[i] \cap f[j] = {}
    BY <2>5
  <2> QED
    BY <2>6, <2>7, Zenon DEF f, M, range, FindsMatches
<1>3. CASE ~(Len(image) - Len(pattern) <= cores * Enough)
  <2> DEFINE n == G!Threads(cores)
             P(i) == {p \in Share(range, n, i) : G!Matches(pattern, image, p)}
  <2>1. n \in Nat /\ n >= 1
    <3>1. cores \div 2 \in Nat
      <4>1. cores \in Nat
        OBVIOUS
      <4> QED
        BY <4>1
    <3> QED
      BY <3>1 DEF G!Threads, G!Larger
  <2>2. f = [i \in 1 .. n |->
               G!ProcessRange(pattern, image, (range \div n) * (i - 1), G!Length(range, n, i - 1))]
    BY <1>3, Zenon DEF G!Process, G!ProcessParallel
  <2> HIDE DEF n, range
  <2>3. f = [i \in 1 .. n |-> P(i)]
    BY <2>2, Zenon DEF G!ProcessRange, Share
  <2> HIDE DEF f
  <2>4. DOMAIN f = 1 .. n /\ \A i \in 1 .. n : f[i] = P(i)
    BY <2>3, Zenon
  <2>5. /\ \A i \in 1 .. n : Share(range, n, i) \subseteq 0 .. range - 1
        /\ \A p \in 0 .. range - 1 : \E i \in 1 .. n : p \in Share(range, n, i)
        /\ \A i, j \in 1 .. n : i # j => Share(range, n, i) \cap Share(range, n, j) = {}
    BY <1>1, <2>1, SharesAre
  <2>6. UNION {f[i] : i \in DOMAIN f} = M
    <3>1. \A p : (\E i \in 1 .. n : p \in P(i)) <=> p \in M
      BY <2>5
    <3>2. \A p : p \in UNION {f[i] : i \in DOMAIN f} <=> \E i \in 1 .. n : p \in P(i)
      <4> HIDE DEF P
      <4> QED
        BY <2>4
    <3> QED
      BY <3>1, <3>2, Zenon
  <2>7. \A i, j \in DOMAIN f : i # j => f[i] \cap f[j] = {}
    <3> SUFFICES ASSUME NEW i \in DOMAIN f, NEW j \in DOMAIN f, i # j PROVE f[i] \cap f[j] = {}
      BY Zenon
    <3>1. f[i] = P(i) /\ f[j] = P(j) /\ Share(range, n, i) \cap Share(range, n, j) = {}
      BY <2>4, <2>5
    <3> QED
      BY <3>1
  <2> HIDE DEF M
  <2> QED
    BY <2>6, <2>7, Zenon DEF f, M, range, FindsMatches
<1> QED
  BY <1>2, <1>3

\* However a text spells its tokens, it is loaded as them, without those at the end
\* that say nothing, and half a byte more is refused.
LEMMA TextsAreLoaded ==
    ASSUME NEW text \in Seq(Int), NEW tokens \in Seq(G!Token), NEW first, NEW last,
           G!Spells(text, tokens, first, last)
    PROVE  /\ G!LoadPattern(text) = {G!Trimmed(tokens)}
           /\ G!LoadPattern(Append(text, 0)) = {}
<1>1. /\ Len(text) \in Nat /\ DOMAIN text = 1 .. Len(text)
      /\ DOMAIN tokens = 1 .. Len(tokens) /\ Radix \in Nat
  BY Elements, SearchAssumption DEF G!SearchAssumption
<1>2. G!LoadPattern(text) = {G!Trimmed(tokens)}
  <2>1. PICK r : /\ IsReadAs(r, text, Len(text))
                 /\ G!LoadPattern(text)
                      = IF /\ \A k \in DOMAIN text : text[k] \in {G!Wild, G!Space} \cup 0 .. Radix - 1
                           /\ r[Len(text)].nibble = <<>>
                        THEN {G!Trimmed(r[Len(text)].pattern)}
                        ELSE {}
    BY LoadPatternIs
  <2>2. r[Len(text)] = [pattern |-> tokens, nibble |-> <<>>]
    BY <1>1, <2>1, SpelledIs
  <2>3. ASSUME NEW k \in DOMAIN text
        PROVE  text[k] \in {G!Wild, G!Space} \cup 0 .. Radix - 1
    <3>1. CASE text[k] = G!Space
      BY <3>1
    <3>2. ASSUME NEW i \in DOMAIN tokens, k = first[i] \/ k = last[i]
          PROVE  text[k] \in {G!Wild, G!Space} \cup 0 .. Radix - 1
      <4>1. tokens[i] \in G!Token
        BY <1>1, Elements
      <4>2. CASE tokens[i] = G!Wild
        BY <3>2, <4>2 DEF G!Spells
      <4>3. CASE tokens[i] # G!Wild
        <5>1. tokens[i] \div Radix \in 0 .. Radix - 1 /\ tokens[i] % Radix \in 0 .. Radix - 1
          BY <4>1, <4>3, DigitsOf
        <5>2. text[k] = tokens[i] \div Radix \/ text[k] = tokens[i] % Radix
          BY <3>2, <4>3, Zenon DEF G!Spells
        <5>3. text[k] \in 0 .. Radix - 1
          BY <5>1, <5>2, Zenon
        <5> QED
          BY <5>3
      <4> QED
        BY <4>2, <4>3
    <3>3. text[k] = G!Space \/ \E i \in DOMAIN tokens : k = first[i] \/ k = last[i]
      BY DEF G!Spells
    <3> QED
      BY <3>1, <3>2, <3>3
  <2> QED
    BY <2>1, <2>2, <2>3
<1>3. G!LoadPattern(Append(text, 0)) = {}
  <2> DEFINE more == Append(text, 0)
             n == Len(text)
  <2>1. more \in Seq(Int) /\ Len(more) = n + 1 /\ more[n + 1] = 0 /\ \A k \in 1 .. n : more[k] = text[k]
    BY AppendProperties
  <2> HIDE DEF more
  <2>2. PICK r : /\ IsReadAs(r, more, Len(more))
                 /\ G!LoadPattern(more)
                      = IF /\ \A k \in DOMAIN more : more[k] \in {G!Wild, G!Space} \cup 0 .. Radix - 1
                           /\ r[Len(more)].nibble = <<>>
                        THEN {G!Trimmed(r[Len(more)].pattern)}
                        ELSE {}
    BY <2>1, LoadPatternIs
  <2>3. IsReadAs(r, text, n)
    <3>1. \A k \in 1 .. n : k \in 1 .. Len(more)
      BY <1>1, <2>1
    <3> QED
      BY <2>1, <2>2, <3>1 DEF IsReadAs
  <2>4. r[n] = [pattern |-> tokens, nibble |-> <<>>]
    BY <1>1, <2>3, SpelledIs
  <2>5. r[n + 1] = G!ReadCharacter(r[n], 0)
    <3>1. n + 1 \in 1 .. Len(more) /\ n + 1 - 1 = n
      BY <1>1, <2>1
    <3>2. r[n + 1] = G!ReadCharacter(r[n + 1 - 1], more[n + 1])
      BY <2>2, <3>1 DEF IsReadAs
    <3> QED
      BY <2>1, <3>1, <3>2
  <2>6. r[n + 1].nibble = <<0>>
    <3>1. 0 # G!Wild /\ 0 # G!Space
      BY DEF G!Wild, G!Space
    <3>2. r[n].nibble = <<>> /\ r[n] = [pattern |-> tokens, nibble |-> <<>>]
      BY <2>4
    <3>3. r[n + 1] = [r[n] EXCEPT !.nibble = <<0>>]
      BY <2>5, <3>1, <3>2 DEF G!ReadCharacter
    <3> QED
      BY <3>2, <3>3
  <2>7. r[Len(more)].nibble # <<>>
    BY <2>1, <2>6
  <2>8. G!LoadPattern(more) = {}
    BY <2>2, <2>7
  <2> QED
    BY <2>8 DEF more
<1> QED
  BY <1>2, <1>3

\* The positions that are looked at, seen from what the text names.
LEMMA LookedAt ==
    ASSUME NEW tokens \in Seq(G!Token), NEW image \in Seq(Nat), NEW cpu \in BOOLEAN,
           NEW p \in 0 .. Len(image) - 1,
           Len(image) >= G!Reads(G!Trimmed(tokens), cpu)
    PROVE  /\ p <= Len(image) - G!Reads(G!Trimmed(tokens), cpu) - 1 =>
                 \A j \in DOMAIN tokens : tokens[j] # G!Wild => p + j < Len(image)
           /\ /\ \A j \in DOMAIN tokens :
                    tokens[j] # G!Wild => p + j <= Len(image) /\ p + j # Len(image)
              /\ cpu => p + Lane < Len(image)
              => p <= Len(image) - G!Reads(G!Trimmed(tokens), cpu) - 1
<1> DEFINE s == G!Trimmed(tokens)
           reads == G!Reads(s, cpu)
           n == Len(image)
           l == Len(s)
<1>1. /\ Len(tokens) \in Nat /\ DOMAIN tokens = 1 .. Len(tokens) /\ n \in Nat
      /\ s \in Seq(G!Token) /\ l <= Len(tokens)
      /\ \A j \in 1 .. Len(tokens) : j > l => tokens[j] = G!Wild
      /\ l > 0 => tokens[l] # G!Wild
  BY TrimmedIs, Elements
<1>2. l \in Nat /\ Lane \in Nat /\ reads = (IF l <= Lane /\ cpu THEN Lane ELSE l)
  BY <1>1, Elements, SearchAssumption
  DEF G!Reads, G!HasSseSupport, G!SearchAssumption
<1>3. reads \in Nat /\ reads >= l /\ (~cpu => reads = l) /\ (reads # l => reads = Lane)
  BY <1>2
<1> HIDE DEF s, reads, n, l
<1>4. ASSUME p <= n - reads - 1, NEW j \in 1 .. Len(tokens), tokens[j] # G!Wild
      PROVE  p + j < n
  <2>1. j <= l
    BY <1>1, <1>2, <1>4
  <2> QED
    BY <1>1, <1>2, <1>3, <1>4, <2>1
<1>5. ASSUME \A j \in 1 .. Len(tokens) : tokens[j] # G!Wild => p + j <= n /\ p + j # n,
             cpu => p + Lane < n
      PROVE  p <= n - reads - 1
  <2>1. p + l < n
    <3>1. CASE l = 0
      BY <1>1, <3>1 DEF n
    <3>2. CASE l # 0
      <4>1. l \in 1 .. Len(tokens) /\ tokens[l] # G!Wild
        BY <1>1, <1>2, <3>2
      <4> QED
        BY <1>1, <1>2, <1>5, <4>1
    <3> QED
      BY <3>1, <3>2
  <2>2. p + reads < n
    BY <1>2, <1>3, <1>5, <2>1
  <2> QED
    BY <1>1, <1>3, <2>2
<1> QED
  BY <1>1, <1>4, <1>5 DEF s, reads, n, l

\* A search finds what its text names, once, but for the end of the image.
LEMMA SearchFinds ==
    ASSUME NEW search, G!IsSearch(search), NEW cores \in Nat \ {0}
    PROVE  G!FindsEach(search.text, search.tokens, search.image, cores)
<1> DEFINE text == search.text
           tokens == search.tokens
           image == search.image
           named == {j \in DOMAIN tokens : tokens[j] # G!Wild}
           sought == {p \in 0 .. Len(image) - 1 :
                         \A j \in named : p + j <= Len(image) /\ image[p + j] = tokens[j]}
           inside == {p \in sought : \A j \in named : p + j # Len(image)}
           Found(pattern, cpu) == G!Process(pattern, image, cpu, cores)
           All(pattern, cpu) == UNION {Found(pattern, cpu)[i] : i \in DOMAIN Found(pattern, cpu)}
<1>1. /\ text \in Seq(Int) /\ tokens \in Seq(G!Token) /\ image \in Seq(Nat)
      /\ G!Spells(text, tokens, search.first, search.last)
  BY DEF G!IsSearch
<1> HIDE DEF text, tokens, image
<1>2. G!LoadPattern(text) = {G!Trimmed(tokens)} /\ G!LoadPattern(Append(text, 0)) = {}
  BY <1>1, TextsAreLoaded
<1>3. ASSUME NEW pattern \in G!LoadPattern(text), NEW cpu \in BOOLEAN,
             Len(image) >= G!Reads(pattern, cpu)
      PROVE  /\ All(pattern, cpu) \subseteq inside
             /\ \A p \in inside : (cpu => p + Lane < Len(image)) => p \in All(pattern, cpu)
             /\ \A i, j \in DOMAIN Found(pattern, cpu) :
                   i # j => Found(pattern, cpu)[i] \cap Found(pattern, cpu)[j] = {}
  <2> DEFINE last == Len(image) - G!Reads(pattern, cpu) - 1
             Names(p) == \A j \in named : image[p + j] = tokens[j]
  <2>1. pattern = G!Trimmed(tokens)
    BY <1>2
  <2>2. pattern \in Seq(G!Token) /\ Len(image) \in Nat /\ Len(pattern) \in Nat
    BY <1>1, <2>1, TrimmedIs, Elements
  <2>3. G!Reads(pattern, cpu) \in Nat /\ last \in Int
    BY <2>2, SearchAssumption DEF G!Reads, G!SearchAssumption
  <2>4. \A p \in Nat : G!Matches(pattern, image, p) <=> Names(p)
    BY <1>1, <2>1, MatchesAre
  <2>5. FindsMatches(pattern, image, cpu, cores)
    BY <1>1, <1>3, <2>2, FoundAre
  <2>6. /\ All(pattern, cpu) = {p \in 0 .. last : G!Matches(pattern, image, p)}
        /\ \A i, j \in DOMAIN Found(pattern, cpu) :
              i # j => Found(pattern, cpu)[i] \cap Found(pattern, cpu)[j] = {}
    BY <2>5, Zenon DEF FindsMatches
  <2>7. \A p \in 0 .. Len(image) - 1 :
           /\ p <= last => \A j \in named : p + j < Len(image)
           /\ /\ \A j \in named : p + j <= Len(image) /\ p + j # Len(image)
              /\ cpu => p + Lane < Len(image)
              => p <= last
    BY <1>1, <1>3, <2>1, LookedAt
  <2> HIDE DEF last, Found, All
  <2>8. ASSUME NEW p \in 0 .. last, G!Matches(pattern, image, p) PROVE p \in inside
    <3>1. p \in 0 .. Len(image) - 1 /\ p \in Nat /\ p <= last
      BY <2>2, <2>3, <2>8 DEF last
    <3>2. \A j \in named : j \in Nat /\ p + j < Len(image)
      BY <1>1, <2>7, <3>1, Elements
    <3>3. \A j \in named : p + j <= Len(image) /\ p + j # Len(image)
      BY <2>2, <3>1, <3>2
    <3> QED
      BY <2>4, <2>8, <3>1, <3>3
  <2>9. ASSUME NEW p \in inside, cpu => p + Lane < Len(image)
        PROVE  p \in 0 .. last /\ G!Matches(pattern, image, p)
    <3>1. p \in 0 .. Len(image) - 1 /\ p \in Nat /\ Names(p)
          /\ \A j \in named : p + j <= Len(image) /\ p + j # Len(image)
      OBVIOUS
    <3>2. p <= last
      BY <2>7, <2>9, <3>1
    <3> QED
      BY <2>3, <2>4, <3>1, <3>2
  <2> HIDE DEF inside, sought, Names
  <2> QED
    BY <2>6, <2>8, <2>9
<1> HIDE DEF sought, named
<1> QED
  BY <1>2, <1>3 DEF G!FindsEach, text, tokens, image, sought, named

-----------------------------------------------------------------------------
(* Every input the algorithms are asked for *)

\* The inputs of one kind.
LEMMA Inputs ==
    ASSUME Init
    PROVE  /\ input.of = "message" => input.x \in Messages
           /\ input.of = "line" => input.x \in Lines
           /\ input.of = "players" => input.x \in Players
           /\ input.of = "senders" => input.x \in Endpoints \X Endpoints \X Endpoints
           /\ input.of = "named" => input.x \in Endpoints \X Families
           /\ input.of = "somewhere" => input.x \in Somewhere
           /\ input.of = "strings" => input.x \in Strings \X Strings
           /\ input.of = "names" => input.x \in WideNames \X Arrays
           /\ input.of = "folder" => input.x \in Cleaned
           /\ input.of = "scripts" => input.x \in Scripts
           /\ input.of = "search" => input.x \in Searches \X Cores
           /\ input.of = "stub" => input.x \in Machines \X (SUBSET X!Volatile) \X BOOLEAN
<1>1. \A of, xs : From(of, xs) => input.of = of /\ input.x \in xs
  BY DEF From
<1>2. \/ input.of = "message" /\ input.x \in Messages
      \/ input.of = "line" /\ input.x \in Lines
      \/ input.of = "players" /\ input.x \in Players
      \/ input.of = "senders" /\ input.x \in Endpoints \X Endpoints \X Endpoints
      \/ input.of = "named" /\ input.x \in Endpoints \X Families
      \/ input.of = "somewhere" /\ input.x \in Somewhere
      \/ input.of = "strings" /\ input.x \in Strings \X Strings
      \/ input.of = "names" /\ input.x \in WideNames \X Arrays
      \/ input.of = "folder" /\ input.x \in Cleaned
      \/ input.of = "scripts" /\ input.x \in Scripts
      \/ input.of = "search" /\ input.x \in Searches \X Cores
      \/ input.of = "stub" /\ input.x \in Machines \X (SUBSET X!Volatile) \X BOOLEAN
  BY <1>1 DEF Init
<1> QED
  BY <1>2

\* However long its list, and whatever its fields hold, a message arrives as it was
\* sent or not at all; a command is handed on with what follows its separator,
\* wherever that stands; and a snapshot of all players arrives up to 46 of them
\* (byte_buffer.hpp:32-97, manager.cpp:69-97, socket.cpp:85-98).
THEOREM PacketsArrive == Spec => []ArrivesExactly
<1>1. ASSUME Init PROVE ArrivesExactly
  <2>1. ASSUME input.of = "message" PROVE W!WholeOrNotAtAll(input.x)
    BY <1>1, <2>1, Inputs, PacketsAssumption, MessagesArrive
  <2>2. ASSUME input.of = "line" PROVE W!HandsOnExactly(input.x)
    BY <1>1, <2>2, Inputs, PacketsAssumption, CommandsAreFound
  <2>3. ASSUME input.of = "players" PROVE W!UpTo46(input.x)
    BY <1>1, <2>3, Inputs, PacketsAssumption, SnapshotsFit
  <2> QED
    BY <2>1, <2>2, <2>3 DEF ArrivesExactly
<1>2. ASSUME ArrivesExactly, [Next]_input PROVE ArrivesExactly'
  BY <1>2 DEF ArrivesExactly, Next
<1> QED
  BY <1>1, <1>2, PTL DEF Spec

\* Whatever link it is heard on, a sender is the key it was before and no other, and
\* an address that was never filled in is none; what is printed of an IPv4 address is
\* parsed as the same one and a name gives what is known of it; and an address is
\* local exactly in the private networks and as the loopback address
\* (address.cpp:77-99, 159-375).
THEOREM AddressesKept == Spec => []AddressesHold
<1>1. ASSUME Init PROVE AddressesHold
  <2>1. ASSUME input.of = "senders"
        PROVE  A!SendersAreKeys(input.x[1], input.x[2], input.x[3])
    <3>1. input.x \in Endpoints \X Endpoints \X Endpoints
      BY <1>1, <2>1, Inputs
    <3>2. A!IsAddress(input.x[1]) /\ A!IsAddress(input.x[2]) /\ A!IsAddress(input.x[3])
      BY <3>1, EndpointsAssumption
    <3> QED
      BY <3>2, SendersAreFound
  <2>2. ASSUME input.of = "named" PROVE A!TextsName(input.x[1], input.x[2])
    <3>1. input.x \in Endpoints \X Families
      BY <1>1, <2>2, Inputs
    <3> QED
      BY <3>1, TextsNameAddresses
  <2>3. ASSUME input.of = "somewhere" PROVE A!LocalIsPrivate(input.x)
    BY <1>1, <2>3, Inputs, EndpointsAssumption, LocalNetworks
  <2> QED
    BY <2>1, <2>2, <2>3 DEF AddressesHold
<1>2. ASSUME AddressesHold, [Next]_input PROVE AddressesHold'
  BY <1>2 DEF AddressesHold, Next
<1> QED
  BY <1>1, <1>2, PTL DEF Spec

\* However long they are and however wide their characters, strings keep what they
\* hold through both conversions, and of a name the others see what fits into the
\* array, up to its first character without a low byte, whatever the array held
\* before (scripting.cpp:104-246, string.cpp:197-281).
THEOREM NamesKept == Spec => []NamesSurvive
<1>1. ASSUME Init PROVE NamesSurvive
  <2>1. ASSUME input.of = "strings" PROVE T!StringsKeep(input.x[1], input.x[2])
    <3>1. input.x[1] \in Strings /\ input.x[2] \in Strings
      BY <1>1, <2>1, Inputs
    <3>2. input.x[1] \in Seq(0 .. Wide - 1) /\ input.x[2] \in Seq(0 .. Wide - 1)
      BY <3>1, StringsAssumption
    <3> QED
      BY <3>2, StringsAreKept
  <2>2. ASSUME input.of = "names" PROVE T!NamesArrive(input.x[1], input.x[2])
    <3>1. input.x[1] \in WideNames /\ input.x[2] \in Arrays
      BY <1>1, <2>2, Inputs
    <3>2. input.x[1] \in Seq(0 .. Wide - 1) /\ input.x[2] \in [1 .. Size -> 0 .. Byte - 1]
      BY <3>1, StringsAssumption
    <3> QED
      BY <3>2, NamesAreSeen
  <2> QED
    BY <2>1, <2>2 DEF NamesSurvive
<1>2. ASSUME NamesSurvive, [Next]_input PROVE NamesSurvive'
  BY <1>2 DEF NamesSurvive, Next
<1> QED
  BY <1>1, <1>2, PTL DEF Spec

\* Whatever the folder and the list of the server hold, the cleanup leaves what the
\* user has, what the list names at the root and in data, and nothing else, and a
\* second cleanup finds nothing to do; and whatever scripts there are, a name is
\* compiled from the last place that has it (file_updater.cpp:325-411,
\* scripting_filesystem.cpp:70-123).
THEOREM FilesKept == Spec => []FilesChosen
<1>1. ASSUME Init PROVE FilesChosen
  <2>1. ASSUME input.of = "folder" PROVE C!SparesWhatItShould(input.x[1], input.x[2])
    <3>1. input.x \in Cleaned
      BY <1>1, <2>1, Inputs
    <3>2. /\ input.x[1] \in Folders /\ input.x[2] \in Lists
          /\ input.x[2] \cap input.x[1].directories = {}
      BY <3>1 DEF Cleaned
    <3>3. Cleanable(input.x[1], input.x[2])
      BY <3>2, FoldersAssumption DEF Cleanable
    <3> QED
      BY <3>3, CleanupSpares
  <2>2. ASSUME input.of = "scripts"
        PROVE  O!LastOneWins(input.x.rootA, input.x.rootB, input.x.own, input.x.appdata, input.x.beside)
    <3>1. input.x \in Scripts
      BY <1>1, <2>2, Inputs
    <3>2. /\ input.x.rootA \in Roots /\ input.x.rootB \in Roots /\ input.x.own \in Own
          /\ input.x.appdata \in Custom /\ input.x.beside \in Custom
      BY <3>1 DEF Scripts
    <3> QED
      BY <3>2, LastWins
  <2> QED
    BY <2>1, <2>2 DEF FilesChosen
<1>2. ASSUME FilesChosen, [Next]_input PROVE FilesChosen'
  BY <1>2 DEF FilesChosen, Next
<1> QED
  BY <1>1, <1>2, PTL DEF Spec

\* Wherever the game's stack is and whatever the function it calls changes of what it
\* may, a stub calls it with an aligned stack and its argument, and gives the game
\* its part of the stack, the flags and the registers back, but for xmm0 to xmm5 if
\* the function changes them (hook.cpp:174-254, renderer.cpp:69-76).
THEOREM GameGoesOn == Spec => []GameUnaware
<1>1. ASSUME Init PROVE GameUnaware
  <2>1. ASSUME input.of = "stub" PROVE X!Unnoticed(input.x[1], input.x[2], input.x[3])
    <3>1. input.x \in Machines \X (SUBSET X!Volatile) \X BOOLEAN
      BY <1>1, <2>1, Inputs
    <3>2. /\ input.x[1] \in Machines /\ input.x[2] \in SUBSET X!Volatile
          /\ input.x[3] \in BOOLEAN
      BY <3>1
    <3>3. X!IsMachine(input.x[1])
      BY <3>2, MachinesAssumption
    <3> QED
      BY <3>2, <3>3, StubsAreUnnoticed
  <2> QED
    BY <2>1 DEF GameUnaware
<1>2. ASSUME GameUnaware, [Next]_input PROVE GameUnaware'
  BY <1>2 DEF GameUnaware, Next
<1> QED
  BY <1>1, <1>2, PTL DEF Spec

\* Whatever the text and the number of cores, and for every image that is not shorter
\* than one look, a search finds nothing but what the text names, each place once.
\* It misses none byte by byte but that at which the image's last byte would be named,
\* and none 16 bytes at a time from which a lane and more are left; and a text with
\* half a byte more is refused (signature.cpp:12-203).
THEOREM MatchesFound == Spec => []PatternsFound
<1>1. ASSUME Init PROVE PatternsFound
  <2>1. ASSUME input.of = "search"
        PROVE  G!FindsEach(input.x[1].text, input.x[1].tokens, input.x[1].image, input.x[2])
    <3>1. input.x \in Searches \X Cores
      BY <1>1, <2>1, Inputs
    <3>2. G!IsSearch(input.x[1]) /\ input.x[2] \in Nat \ {0}
      BY <3>1, SearchesAssumption
    <3> QED
      BY <3>2, SearchFinds
  <2> QED
    BY <2>1 DEF PatternsFound
<1>2. ASSUME PatternsFound, [Next]_input PROVE PatternsFound'
  BY <1>2 DEF PatternsFound, Next
<1> QED
  BY <1>1, <1>2, PTL DEF Spec

\* Both at once, with the exceptions of both: the end of the image, and xmm0 to xmm5
\* (signature.cpp:12-203, hook.cpp:174-254).
COROLLARY ToolsCorrect == Spec => []ToolsWork
<1>1. PatternsFound /\ GameUnaware => ToolsWork
  BY DEF ToolsWork
<1> QED
  BY <1>1, MatchesFound, GameGoesOn, PTL
=============================================================================
