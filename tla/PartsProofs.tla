----------------------------- MODULE PartsProofs -----------------------------
(***************************************************************************)
(* For any size of each part of module Parts: a request to a web server is *)
(* answered as a whole or stopped, a setting is kept, what an object owns  *)
(* is given back once, the arrays of the scripts own their blocks, detours *)
(* leave the game's code as it was, and in whatever order the threads that *)
(* close the splash screen come, it is gone at the end.  For all places,   *)
(* functions, sizes and grids of module Branches: the branches arrive, the *)
(* trampolines do not overlap, and a place is refused only for want of     *)
(* memory.  Each part has an inductive invariant of its own.               *)
(***************************************************************************)
EXTENDS Branches, Parts, SequenceTheorems, FiniteSetTheorems, WellFoundedInduction, TLAPS

-----------------------------------------------------------------------------
(* Requests *)

HTyped ==
    /\ attempt \in Nat
    /\ buffer \in Seq(Nat)

\* The buffer is never emptied, but a transfer that is repeated has put nothing
\* into it: what is there came with this attempt, and with an answer.
OneSource ==
    /\ \A k \in DOMAIN buffer : buffer[k] = attempt
    /\ buffer # <<>> => code = "answer"
    /\ pc = "loop" => buffer = <<>>

Whole == pc = "ok" /\ code = "answer" => Len(buffer) = Body

\* What was thrown is on its way to the caller, or has got there.
Carried == exception => pc = "failed" \/ (pc = "done" /\ result = "user's exception")

Concluded ==
    /\ result # "pending" => pc = "done"
    /\ result = "data" => Len(buffer) = Body

HInv == HTyped /\ OneSource /\ Whole /\ Carried /\ Concluded

\* As long as everything came with this attempt, all of it counts.
LEMMA AllReceived ==
    ASSUME HTyped, OneSource
    PROVE  H!Received = Len(buffer)
<1>1. Len(buffer) \in Nat /\ DOMAIN buffer = 1 .. Len(buffer)
  BY DEF HTyped
<1>2. {k \in DOMAIN buffer : buffer[k] = attempt} = 1 .. Len(buffer)
  BY <1>1 DEF OneSource
<1>3. Cardinality(1 .. Len(buffer)) = Len(buffer)
  <2>1. Cardinality(1 .. Len(buffer)) =
           IF 1 > Len(buffer) THEN 0 ELSE Len(buffer) - 1 + 1
    BY <1>1, FS_Interval
  <2> QED
    BY <1>1, <2>1
<1>4. \A T : H!Cardinality(T) = Cardinality(T)
  <2> TAKE T
  <2> QED
    BY DEF H!Cardinality, Cardinality
<1> QED
  BY <1>2, <1>3, <1>4 DEF H!Received

\* A chunk comes behind what is there.
LEMMA OneMore ==
    ASSUME NEW s \in Seq(Nat), NEW a \in Nat
    PROVE  /\ Append(s, a) \in Seq(Nat)
           /\ \A k \in DOMAIN Append(s, a) :
                 \/ k \in DOMAIN s /\ Append(s, a)[k] = s[k]
                 \/ Append(s, a)[k] = a
OBVIOUS

LEMMA RequestInitially == H!Init => HInv
<1> SUFFICES ASSUME H!Init PROVE HInv
  OBVIOUS
<1>1. buffer = <<>> /\ DOMAIN buffer = {} /\ attempt = 0 /\ exception = FALSE
      /\ pc = "loop" /\ result = "pending"
  BY DEF H!Init
<1>2. HTyped
  BY <1>1 DEF HTyped
<1> QED
  BY <1>1, <1>2 DEF HInv, OneSource, Whole, Carried, Concluded

\* Steps of curl, up to the end of a transfer.
LEMMA Transfer ==
    ASSUME HInv,
           H!Perform \/ H!Header \/ H!Write \/ H!ProgressThrows \/ H!Break \/ H!Complete \/ H!Stop
    PROVE  HInv'
<1> USE DEF HInv, HTyped, OneSource, Whole, Carried, Concluded
<1>1. CASE H!Perform
  BY <1>1 DEF H!Perform
<1>2. CASE H!Header
  BY <1>2 DEF H!Header, H!Codes
<1>3. CASE H!Write
  <2>1. /\ pc = "transfer" /\ code = "answer"
        /\ buffer' = Append(buffer, attempt)
        /\ UNCHANGED <<pc, attempt, code, stopping, exception, result>>
    BY <1>3 DEF H!Write
  <2>2. /\ buffer' \in Seq(Nat)
        /\ \A k \in DOMAIN buffer' : buffer'[k] = attempt
    BY <2>1, OneMore
  <2>3. result = "pending"
    BY <2>1
  <2> QED
    BY <2>1, <2>2, <2>3
<1>4. CASE H!ProgressThrows
  BY <1>4 DEF H!ProgressThrows
<1>5. CASE H!Break
  BY <1>5 DEF H!Break
<1>6. CASE H!Complete
  <2>1. H!Received = Len(buffer)
    BY AllReceived
  <2> QED
    BY <1>6, <2>1 DEF H!Complete
<1>7. CASE H!Stop
  BY <1>7 DEF H!Stop
<1> QED
  BY <1>1, <1>2, <1>3, <1>4, <1>5, <1>6, <1>7

\* What perform_request makes of it.
LEMMA Conclusion ==
    ASSUME HInv,
           H!Accept \/ H!Reject \/ H!Rethrow \/ H!GiveUp \/ H!Retry \/ H!Exhausted
    PROVE  HInv'
<1> USE DEF HInv, HTyped, OneSource, Whole, Carried, Concluded
<1>1. CASE H!Accept
  BY <1>1 DEF H!Accept, H!Finish
<1>2. CASE H!Reject
  BY <1>2 DEF H!Reject, H!Finish
<1>3. CASE H!Rethrow
  BY <1>3 DEF H!Rethrow, H!Finish
<1>4. CASE H!GiveUp
  BY <1>4 DEF H!GiveUp, H!Finish
<1>5. CASE H!Retry
  <2>1. code = "none" /\ buffer = <<>> /\ DOMAIN buffer = {}
    BY <1>5 DEF H!Retry, H!Answered
  <2> QED
    BY <1>5, <2>1 DEF H!Retry
<1>6. CASE H!Exhausted
  BY <1>6 DEF H!Exhausted, H!Finish
<1> QED
  BY <1>1, <1>2, <1>3, <1>4, <1>5, <1>6

LEMMA RequestStep == HInv /\ [H!Next]_(H!vars) => HInv'
<1>1. ASSUME HInv, UNCHANGED H!vars PROVE HInv'
  BY <1>1 DEF HInv, HTyped, OneSource, Whole, Carried, Concluded, H!vars
<1> QED
  BY <1>1, Transfer, Conclusion DEF H!Next, H!Own

LEMMA RequestInvariant == H!Spec => []HInv
BY RequestInitially, RequestStep, PTL DEF H!Spec

\* perform_request: for any number of retries and chunks, what the caller gets as data is
\* one complete answer, although no attempt empties the buffer; and whatever way a transfer
\* ends, what the caller's callback threw reaches the caller (http.cpp:29-122).
THEOREM RequestsConclude == H!Spec => []AnsweredOrStopped
<1>1. HInv => H!OneAnswer
  <2> SUFFICES ASSUME HInv, result = "data"
               PROVE  buffer = [i \in 1 .. Body |-> attempt]
    BY DEF H!OneAnswer
  <2>1. /\ buffer \in Seq(Nat) /\ Len(buffer) = Body
        /\ \A k \in DOMAIN buffer : buffer[k] = attempt
    BY DEF HInv, HTyped, OneSource, Concluded
  <2>2. DOMAIN buffer = 1 .. Body /\ buffer = [k \in DOMAIN buffer |-> buffer[k]]
    BY <2>1
  <2> QED
    BY <2>1, <2>2
<1>2. HInv => H!StopIsHeard
  BY DEF HInv, Carried, H!StopIsHeard
<1>3. HInv => AnsweredOrStopped
  BY <1>1, <1>2 DEF AnsweredOrStopped
<1> QED
  BY <1>3, RequestInvariant, PTL

-----------------------------------------------------------------------------
(* Settings *)

\* What a process has not set is read as it was last set, whatever the rest reads as.
FUntouched ==
    phase # "off" =>
       \A n \in F!Names \ (here \cup lost) :
          \A read \in F!Readings(document) : F!Get(read, n) = meant[n]

FInv == F!TypeOK /\ SettingsKept /\ FUntouched

\* A set of numbers that is not empty has a smallest one.
LEMMA SmallestOne ==
    ASSUME NEW T \in SUBSET Nat, T # {}
    PROVE  F!Min(T) \in T /\ \A y \in T : F!Min(T) <= y
<1> DEFINE Below == OpToRel(<, Nat)
<1>1. IsWellFoundedOn(Below, Nat)
  BY NatLessThanWellFounded, Zenon
<1>2. ASSUME NEW x \in Nat, NEW y \in Nat, y < x PROVE <<y, x>> \in Below
  <2>1. <<y, x>> \in Nat \X Nat /\ <<y, x>>[1] = y /\ <<y, x>>[2] = x
    OBVIOUS
  <2>2. <<y, x>>[1] < <<y, x>>[2]
    BY <1>2, <2>1
  <2> QED
    BY <2>1, <2>2, Zenon DEF OpToRel
<1> HIDE DEF Below
<1>3. PICK x \in T : \A y \in T : <<y, x>> \notin Below
  BY <1>1, WFMin
<1>4. \A y \in T : ~(y < x)
  BY <1>2, <1>3
<1>5. \A y \in T : x <= y
  BY <1>4
<1> QED
  BY <1>5 DEF F!Min

\* FindMember finds the first one.
LEMMA FindFirst ==
    ASSUME NEW read \in Seq(F!Member), NEW name
    PROVE  /\ F!Find(read, name) = 0 => \A i \in 1 .. Len(read) : read[i].name # name
           /\ F!Find(read, name) # 0 =>
                 /\ F!Find(read, name) \in 1 .. Len(read)
                 /\ read[F!Find(read, name)].name = name
                 /\ \A i \in 1 .. Len(read) : read[i].name = name => F!Find(read, name) <= i
<1> DEFINE T == {i \in 1 .. Len(read) : read[i].name = name}
<1>1. F!Find(read, name) = IF T # {} THEN F!Min(T) ELSE 0
  BY DEF F!Find, F!SelectInSeq
<1>2. T \in SUBSET Nat
  OBVIOUS
<1>3. CASE T = {}
  BY <1>1, <1>3
<1>4. CASE T # {}
  <2>1. F!Find(read, name) \in T /\ \A i \in T : F!Find(read, name) <= i
    BY <1>1, <1>2, <1>4, SmallestOne
  <2> QED
    BY <2>1
<1> QED
  BY <1>3, <1>4

\* The first one is what is found.
LEMMA FoundFirst ==
    ASSUME NEW read \in Seq(F!Member), NEW name, NEW k \in 1 .. Len(read),
           read[k].name = name,
           \A i \in 1 .. Len(read) : read[i].name = name => k <= i
    PROVE  F!Find(read, name) = k
<1>1. F!Find(read, name) # 0
  BY FindFirst
<1>2. F!Find(read, name) \in 1 .. Len(read) /\ read[F!Find(read, name)].name = name
      /\ F!Find(read, name) <= k
  BY <1>1, FindFirst
<1> QED
  BY <1>2

LEMMA NothingFound ==
    ASSUME NEW read \in Seq(F!Member), NEW name,
           \A i \in 1 .. Len(read) : read[i].name # name
    PROVE  F!Find(read, name) = 0
  BY FindFirst

\* Where the names are the same, the same is found.
LEMMA FoundAlike ==
    ASSUME NEW read \in Seq(F!Member), NEW written \in Seq(F!Member), NEW name,
           Len(written) = Len(read),
           \A i \in 1 .. Len(read) : read[i].name = written[i].name
    PROVE  F!Find(written, name) = F!Find(read, name)
<1>1. CASE F!Find(read, name) = 0
  BY <1>1, FindFirst, NothingFound
<1>2. CASE F!Find(read, name) # 0
  <2>1. F!Find(read, name) \in 1 .. Len(written)
        /\ written[F!Find(read, name)].name = name
        /\ \A i \in 1 .. Len(written) : written[i].name = name => F!Find(read, name) <= i
    BY <1>2, FindFirst
  <2> QED
    BY <2>1, FoundFirst
<1> QED
  BY <1>1, <1>2

\* A member that has another name, or that differs under another name, makes no
\* difference to what is found.
LEMMA OneMoreMember ==
    ASSUME NEW read \in Seq(F!Member), NEW m \in F!Member, NEW n \in F!Names, m.name # n
    PROVE  F!Get(Append(read, m), n) = F!Get(read, n)
<1> DEFINE more == Append(read, m)
<1>1. Len(read) \in Nat /\ \A j \in 1 .. Len(read) : read[j] \in F!Member
  BY LenProperties, ElementOfSeq
<1>2. /\ more \in Seq(F!Member) /\ Len(more) = Len(read) + 1
      /\ \A j \in 1 .. Len(read) : more[j] = read[j]
      /\ more[Len(read) + 1] = m
  BY AppendProperties
<1> HIDE DEF more
<1>3. CASE F!Find(read, n) = 0
  <2>1. \A j \in 1 .. Len(more) : more[j].name # n
    BY <1>1, <1>2, <1>3, FindFirst
  <2>2. F!Find(more, n) = 0
    BY <1>2, <2>1, NothingFound
  <2> QED
    BY <1>3, <2>2 DEF F!Get, more
<1>4. CASE F!Find(read, n) # 0
  <2> DEFINE k == F!Find(read, n)
  <2>1. k \in 1 .. Len(read) /\ read[k].name = n
        /\ \A j \in 1 .. Len(read) : read[j].name = n => k <= j
    BY <1>4, FindFirst
  <2> HIDE DEF k
  <2>2. k \in 1 .. Len(more) /\ more[k].name = n
    BY <1>1, <1>2, <2>1
  <2>3. ASSUME NEW j \in 1 .. Len(more), more[j].name = n PROVE k <= j
    <3>1. j \in 1 .. Len(read)
      BY <1>1, <1>2, <2>3
    <3> QED
      BY <1>2, <2>1, <2>3, <3>1
  <2>4. F!Find(more, n) = k
    BY <1>2, <2>2, <2>3, FoundFirst
  <2> QED
    BY <1>2, <1>4, <2>1, <2>4 DEF F!Get, k, more
<1> QED
  BY <1>3, <1>4

LEMMA OtherMember ==
    ASSUME NEW read \in Seq(F!Member), NEW other \in Seq(F!Member), NEW n \in F!Names,
           Len(other) = Len(read),
           \A j \in 1 .. Len(read) : /\ read[j].name = other[j].name
                                     /\ read[j].name = n => read[j].text = other[j].text
    PROVE  F!Get(other, n) = F!Get(read, n)
<1>1. F!Find(other, n) = F!Find(read, n)
  BY FoundAlike
<1>2. F!Find(read, n) # 0 =>
         F!Find(read, n) \in 1 .. Len(read) /\ read[F!Find(read, n)].name = n
  BY FindFirst
<1> QED
  BY <1>1, <1>2 DEF F!Get

\* What is read of a document is a sequence as long, and of one that borrows
\* nothing it is what the file has.
LEMMA WhatIsRead ==
    ASSUME NEW doc \in Seq(F!Held), NEW read \in F!Readings(doc)
    PROVE  /\ read \in Seq(F!Member) /\ Len(read) = Len(doc) /\ Len(doc) \in Nat
           /\ DOMAIN doc = 1 .. Len(doc) /\ read \in [1 .. Len(doc) -> F!Member]
<1>1. DOMAIN doc = 1 .. Len(doc) /\ Len(doc) \in Nat
  BY LenProperties
<1>2. read \in [1 .. Len(doc) -> F!Member]
  BY <1>1 DEF F!Readings
<1>3. read \in Seq(F!Member)
  BY <1>1, <1>2, SeqDef
<1>4. DOMAIN read = 1 .. Len(doc) /\ DOMAIN read = 1 .. Len(read) /\ Len(read) \in Nat
  BY <1>2, <1>3, LenProperties
<1> QED
  BY <1>1, <1>2, <1>3, <1>4

LEMMA LoadedIsRead ==
    ASSUME NEW members \in Seq(F!Member), NEW read \in F!Readings(F!Load(members))
    PROVE  read = members
<1> DEFINE doc == F!Load(members)
<1>1. members \in Seq(F!Member) /\ DOMAIN members = 1 .. Len(members) /\ Len(members) \in Nat
      /\ \A j \in 1 .. Len(members) : members[j] \in F!Member
  BY LenProperties, ElementOfSeq
<1>2. DOMAIN doc = DOMAIN members
      /\ \A j \in DOMAIN members : doc[j] = [name |-> members[j].name, text |-> members[j].text,
                                             key |-> "own", value |-> "own"]
  BY DEF F!Load
<1> HIDE DEF doc
<1>3. read \in F!Readings(doc)
  BY DEF doc
<1>4. read \in [DOMAIN members -> F!Member]
  BY <1>2, <1>3 DEF F!Readings
<1>5. \A j \in DOMAIN members : read[j].name = members[j].name /\ read[j].text = members[j].text
  <2> SUFFICES ASSUME NEW j \in DOMAIN members
               PROVE  read[j].name = members[j].name /\ read[j].text = members[j].text
    OBVIOUS
  <2>1. j \in DOMAIN doc /\ doc[j].key = "own" /\ doc[j].value = "own"
        /\ doc[j].name = members[j].name /\ doc[j].text = members[j].text
    BY <1>2
  <2> QED
    BY <1>3, <2>1 DEF F!Readings
<1>6. \A j \in DOMAIN members : read[j] = members[j]
  BY <1>1, <1>4, <1>5 DEF F!Member
<1> QED
  BY <1>1, <1>4, <1>6

\* What set leaves in the file: the setting, and every other one as it was read.
LEMMA PutKeeps ==
    ASSUME NEW read \in Seq(F!Member), document \in Seq(F!Held), Len(read) = Len(document),
           NEW name \in F!Names, NEW text \in Texts
    PROVE  /\ F!Put(read, name, text).saved \in Seq(F!Member)
           /\ F!Put(read, name, text).document \in Seq(F!Held)
           /\ F!Get(F!Put(read, name, text).saved, name) = text
           /\ \A n \in F!Names : n # name =>
                 F!Get(F!Put(read, name, text).saved, n) = F!Get(read, n)
<1> DEFINE i == F!Find(read, name)
           member == [name |-> name, text |-> text]
           kept == [name |-> name, text |-> text, key |-> "borrowed", value |-> "borrowed"]
           saved == F!Put(read, name, text).saved
<1>1. member \in F!Member /\ kept \in F!Held
  BY DEF F!Member, F!Held
<1>2. Len(read) \in Nat /\ \A j \in 1 .. Len(read) : read[j] \in F!Member
  BY LenProperties, ElementOfSeq
<1>3. CASE i = 0
  <2>1. saved = Append(read, member) /\ F!Put(read, name, text).document = Append(document, kept)
    BY <1>3 DEF F!Put
  <2>2. /\ saved \in Seq(F!Member) /\ Len(saved) = Len(read) + 1
        /\ \A j \in 1 .. Len(read) : saved[j] = read[j]
        /\ saved[Len(read) + 1] = member
        /\ F!Put(read, name, text).document \in Seq(F!Held)
    BY <1>1, <2>1, AppendProperties
  <2> HIDE DEF saved
  <2>3. F!Get(saved, name) = text
    <3>1. \A j \in 1 .. Len(saved) : saved[j].name = name => Len(read) + 1 <= j
      <4>1. ASSUME NEW j \in 1 .. Len(read) PROVE saved[j].name # name
        BY <1>3, <2>2, FindFirst
      <4> QED
        BY <1>2, <2>2, <4>1
    <3>2. Len(read) + 1 \in 1 .. Len(saved) /\ saved[Len(read) + 1].name = name
      BY <1>2, <2>2
    <3>3. F!Find(saved, name) = Len(read) + 1
      BY <2>2, <3>1, <3>2, FoundFirst
    <3> QED
      BY <1>2, <2>2, <3>3 DEF F!Get
  <2>4. \A n \in F!Names : n # name => F!Get(saved, n) = F!Get(read, n)
    BY <1>1, <2>1, OneMoreMember
  <2> QED
    BY <2>2, <2>3, <2>4 DEF saved
<1>4. CASE i # 0
  <2>1. /\ saved = [read EXCEPT ![i].text = text]
        /\ F!Put(read, name, text).document
              = [document EXCEPT ![i].text = text, ![i].value = "borrowed"]
    BY <1>4 DEF F!Put
  <2>2. i \in 1 .. Len(read) /\ read[i].name = name
    BY <1>4, FindFirst
  <2>3. /\ [read[i] EXCEPT !.text = text] \in F!Member
        /\ [read[i] EXCEPT !.text = text].text = text
        /\ [read[i] EXCEPT !.text = text].name = read[i].name
    BY <1>2, <2>2 DEF F!Member
  <2>4. saved = [read EXCEPT ![i] = [read[i] EXCEPT !.text = text]]
    BY <2>1
  <2> HIDE DEF i, saved
  <2>5. /\ saved \in Seq(F!Member) /\ Len(saved) = Len(read)
        /\ \A j \in 1 .. Len(read) :
              saved[j] = IF j = i THEN [read[i] EXCEPT !.text = text] ELSE read[j]
    BY <2>2, <2>3, <2>4, ExceptSeq
  <2>6. F!Put(read, name, text).document \in Seq(F!Held)
    <3>1. document[i] \in F!Held
      BY <2>2, ElementOfSeq
    <3>2. [document[i] EXCEPT !.text = text, !.value = "borrowed"] \in F!Held
      BY <3>1 DEF F!Held
    <3>3. F!Put(read, name, text).document
             = [document EXCEPT ![i] = [document[i] EXCEPT !.text = text, !.value = "borrowed"]]
      BY <2>1
    <3> QED
      BY <2>2, <3>2, <3>3, ExceptSeq
  <2>7. \A j \in 1 .. Len(read) : read[j].name = saved[j].name
    BY <2>3, <2>5
  <2>8. F!Find(saved, name) = F!Find(read, name)
    BY <2>5, <2>7, FoundAlike
  <2>9. F!Get(saved, name) = text
    BY <1>4, <2>2, <2>3, <2>5, <2>8 DEF F!Get, i
  <2>10. \A n \in F!Names : n # name => F!Get(saved, n) = F!Get(read, n)
    BY <2>2, <2>5, <2>7, OtherMember
  <2> QED
    BY <2>5, <2>6, <2>9, <2>10 DEF saved
<1> QED
  BY <1>3, <1>4

\* What set leaves in memory: every other setting is read as it was to be read before.
LEMMA PutTouchesOne ==
    ASSUME document \in Seq(F!Held), NEW read \in F!Readings(document),
           NEW name \in F!Names, NEW text \in Texts, NEW n \in F!Names, n # name,
           NEW now \in F!Readings(F!Put(read, name, text).document)
    PROVE  \E before \in F!Readings(document) : F!Get(now, n) = F!Get(before, n)
<1> DEFINE i == F!Find(read, name)
           kept == [name |-> name, text |-> text, key |-> "borrowed", value |-> "borrowed"]
           doc == F!Put(read, name, text).document
<1>1. /\ read \in Seq(F!Member) /\ Len(read) = Len(document) /\ Len(document) \in Nat
      /\ DOMAIN document = 1 .. Len(document) /\ read \in [1 .. Len(document) -> F!Member]
      /\ \A j \in 1 .. Len(document) : document[j] \in F!Held
  BY WhatIsRead, ElementOfSeq
<1>2. doc \in Seq(F!Held)
  BY <1>1, PutKeeps
<1>3. /\ now \in Seq(F!Member) /\ Len(now) = Len(doc) /\ DOMAIN doc = 1 .. Len(doc)
      /\ now \in [1 .. Len(doc) -> F!Member]
  BY <1>2, WhatIsRead
<1>4. F!Other \notin F!Names
  BY DEF F!Other, F!Names
<1>5. CASE i = 0
  <2>1. doc = Append(document, kept)
    BY <1>5 DEF F!Put
  <2>2. kept \in F!Held
    BY DEF F!Held
  <2>3. /\ Len(doc) = Len(document) + 1 /\ doc[Len(document) + 1] = kept
        /\ \A j \in 1 .. Len(document) : doc[j] = document[j]
    BY <2>1, <2>2, AppendProperties
  <2> DEFINE before == [j \in 1 .. Len(document) |-> now[j]]
             last == now[Len(document) + 1]
  <2>4. before \in [1 .. Len(document) -> F!Member] /\ last \in F!Member
    BY <1>1, <1>3, <2>3
  <2>5. before \in Seq(F!Member) /\ Len(before) = Len(document)
    BY <1>1, <2>4, SeqDef, LenProperties
  <2>6. now = Append(before, last)
    <3>1. /\ Append(before, last) \in Seq(F!Member) /\ Len(Append(before, last)) = Len(document) + 1
          /\ \A j \in 1 .. Len(document) : Append(before, last)[j] = now[j]
          /\ Append(before, last)[Len(document) + 1] = now[Len(document) + 1]
      BY <2>4, <2>5, AppendProperties
    <3>2. \A j \in 1 .. Len(document) + 1 : Append(before, last)[j] = now[j]
      BY <1>1, <3>1
    <3> HIDE DEF before, last
    <3> QED
      BY <1>3, <2>3, <3>1, <3>2, SeqEqual
  <2>7. last.name \in {name, F!Other}
    <3>1. Len(document) + 1 \in DOMAIN doc
      BY <1>1, <1>3, <2>3
    <3>2. doc[Len(document) + 1].key = "borrowed" /\ doc[Len(document) + 1].name = name
      BY <2>3
    <3> QED
      BY <3>1, <3>2 DEF F!Readings
  <2>8. before \in F!Readings(document)
    <3>1. \A j \in 1 .. Len(document) : j \in DOMAIN doc /\ doc[j] = document[j] /\ before[j] = now[j]
      BY <1>1, <1>3, <2>3
    <3> HIDE DEF before, doc
    <3> QED
      BY <1>1, <2>4, <3>1 DEF F!Readings, doc
  <2>9. F!Get(now, n) = F!Get(before, n)
    <3>1. last.name # n
      BY <1>4, <2>7
    <3> HIDE DEF before, last
    <3> QED
      BY <2>4, <2>5, <2>6, <3>1, OneMoreMember
  <2> QED
    BY <2>8, <2>9
<1>6. CASE i # 0
  <2>1. doc = [document EXCEPT ![i].text = text, ![i].value = "borrowed"]
    BY <1>6 DEF F!Put
  <2>2. i \in 1 .. Len(document) /\ read[i].name = name
    BY <1>1, <1>6, FindFirst
  <2> HIDE DEF i
  <2>3. DOMAIN doc = DOMAIN document /\ Len(doc) = Len(document)
        /\ \A j \in DOMAIN document : j # i => doc[j] = document[j]
    <3>1. DOMAIN doc = DOMAIN document /\ \A j \in DOMAIN document : j # i => doc[j] = document[j]
      BY <2>1
    <3> HIDE DEF doc
    <3>2. Len(doc) \in Nat
      BY <1>2, LenProperties
    <3>3. 1 .. Len(doc) = 1 .. Len(document)
      BY <1>1, <1>3, <3>1
    <3>4. Len(doc) = Len(document)
      BY <1>1, <3>2, <3>3
    <3> QED
      BY <3>1, <3>4
  <2>4. doc[i].name = document[i].name /\ doc[i].key = document[i].key
    <3>1. document[i] \in F!Held /\ i \in DOMAIN document
      BY <1>1, <2>2
    <3>2. doc[i] = [document[i] EXCEPT !.text = text, !.value = "borrowed"]
      BY <2>1, <3>1
    <3> QED
      BY <3>1, <3>2 DEF F!Held
  <2>5. document[i].name = name
    <3>1. read[i].name \in {document[i].name, F!Other}
      BY <1>1, <2>2 DEF F!Readings
    <3> QED
      BY <1>4, <2>2, <3>1
  <2> HIDE DEF doc
  <2>6. now[i].name \in {name, F!Other}
    BY <1>1, <2>2, <2>3, <2>4, <2>5 DEF F!Readings, doc
  <2> DEFINE changed == [name |-> now[i].name, text |-> read[i].text]
             before == [j \in 1 .. Len(document) |-> IF j = i THEN changed ELSE now[j]]
  <2>7. changed \in F!Member
    BY <1>1, <1>3, <2>2, <2>3 DEF F!Member
  <2>8. before \in [1 .. Len(document) -> F!Member]
    BY <1>3, <2>3, <2>7
  <2>9. before \in Seq(F!Member) /\ Len(before) = Len(document)
    BY <1>1, <2>8, SeqDef, LenProperties
  <2>10. before \in F!Readings(document)
    <3> SUFFICES ASSUME NEW j \in DOMAIN document
                 PROVE  /\ before[j].name \in (IF document[j].key = "own" THEN {document[j].name}
                                                ELSE {document[j].name, F!Other})
                        /\ before[j].text \in (IF document[j].value = "own" THEN {document[j].text}
                                                ELSE {document[j].text, F!Other})
      BY <1>1, <2>8 DEF F!Readings
    <3>1. j \in DOMAIN doc /\ j \in 1 .. Len(document)
      BY <1>1, <2>3
    <3>2. CASE j = i
      <4>1. before[j].name = now[i].name /\ before[j].text = read[i].text
        BY <3>1, <3>2
      <4>2. now[i].name \in (IF doc[i].key = "own" THEN {doc[i].name} ELSE {doc[i].name, F!Other})
        BY <3>1, <3>2 DEF F!Readings, doc
      <4>3. read[i].text \in (IF document[i].value = "own" THEN {document[i].text}
                              ELSE {document[i].text, F!Other})
        BY <3>2 DEF F!Readings
      <4> QED
        BY <2>4, <3>2, <4>1, <4>2, <4>3
    <3>3. CASE j # i
      <4>1. before[j] = now[j] /\ doc[j] = document[j]
        BY <2>3, <3>1, <3>3
      <4>2. /\ now[j].name \in (IF doc[j].key = "own" THEN {doc[j].name} ELSE {doc[j].name, F!Other})
            /\ now[j].text \in (IF doc[j].value = "own" THEN {doc[j].text} ELSE {doc[j].text, F!Other})
        BY <3>1 DEF F!Readings, doc
      <4> QED
        BY <4>1, <4>2
    <3> QED
      BY <3>2, <3>3
  <2>11. \A j \in 1 .. Len(document) :
            /\ before[j].name = now[j].name
            /\ before[j].name = n => before[j].text = now[j].text
    BY <1>4, <2>6
  <2>12. F!Get(now, n) = F!Get(before, n)
    <3> HIDE DEF before
    <3> QED
      BY <1>3, <2>3, <2>9, <2>11, OtherMember
  <2> QED
    BY <2>10, <2>12
<1> QED
  BY <1>5, <1>6

LEMMA LoadIsDocument ==
    ASSUME NEW members \in Seq(F!Member)
    PROVE  F!Load(members) \in Seq(F!Held)
<1>1. DOMAIN members = 1 .. Len(members) /\ Len(members) \in Nat
      /\ \A j \in 1 .. Len(members) : members[j] \in F!Member
  BY LenProperties, ElementOfSeq
<1>2. F!Load(members) \in [1 .. Len(members) -> F!Held]
  BY <1>1 DEF F!Load, F!Member, F!Held
<1> QED
  BY <1>1, <1>2, SeqDef

LEMMA PathsAreTexts == Working \subseteq Texts
  BY TextAssumption DEF F!TextAssumption

\* What is not lost by a set was set by it, or was not lost before; and if the file was
\* written, this process had not set it.
LEMMA NotLost ==
    ASSUME F!TypeOK, NEW name \in F!Names, NEW outcome \in F!Outcomes,
           NEW n \in F!Names, n \notin F!NowLost(name, outcome)
    PROVE  /\ outcome \in {"written", "refused"}
           /\ n # name => n \notin lost
           /\ outcome = "refused" => n # name
           /\ outcome = "written" /\ n # name => n \notin here
<1>1. CASE outcome = "written"
  BY <1>1 DEF F!NowLost
<1>2. CASE outcome = "refused"
  BY <1>2 DEF F!NowLost
<1>3. CASE outcome \in {"short", "ended"}
  BY <1>3 DEF F!NowLost
<1> QED
  BY <1>1, <1>2, <1>3 DEF F!Outcomes

LEMMA SetKeeps ==
    ASSUME FInv, NEW name \in F!Names, NEW text \in Texts, phase # "off", F!Set(name, text)
    PROVE  FInv'
<1>1. PICK read \in F!Readings(document), outcome \in F!Outcomes :
         /\ document' = IF outcome = "ended" THEN <<>> ELSE F!Put(read, name, text).document
         /\ file' = CASE outcome = "written" -> F!Put(read, name, text).saved
                      [] outcome = "refused" -> file
                      [] OTHER -> <<>>
         /\ phase' = IF outcome = "ended" THEN "off" ELSE "run"
         /\ lost' = F!NowLost(name, outcome)
  BY DEF F!Set
<1>2. meant' = [meant EXCEPT ![name] = text] /\ here' = here \cup {name}
  BY DEF F!Set
<1>3. F!TypeOK
  BY DEF FInv
<1>4. read \in Seq(F!Member) /\ Len(read) = Len(document) /\ document \in Seq(F!Held)
  BY <1>3, WhatIsRead DEF F!TypeOK
<1> DEFINE saved == F!Put(read, name, text).saved
           doc == F!Put(read, name, text).document
<1>5. /\ saved \in Seq(F!Member) /\ doc \in Seq(F!Held)
      /\ F!Get(saved, name) = text
      /\ \A n \in F!Names : n # name => F!Get(saved, n) = F!Get(read, n)
  BY <1>4, PutKeeps
<1>6. \A n \in F!Names : n # name =>
         \A now \in F!Readings(doc) :
            \E before \in F!Readings(document) : F!Get(now, n) = F!Get(before, n)
  BY <1>4, PutTouchesOne
<1> HIDE DEF saved, doc
<1>7. /\ meant' \in [F!Names -> Texts \cup {F!None}] /\ meant'[name] = text
      /\ \A n \in F!Names : n # name => meant'[n] = meant[n]
  BY <1>2, <1>3 DEF F!TypeOK
<1>8. /\ outcome = "written" => file' = saved
      /\ outcome = "refused" => file' = file
      /\ file' \in {saved, file, <<>>}
  BY <1>1 DEF saved, F!Outcomes
<1>9. document' \in {doc, <<>>} /\ (outcome # "ended" => document' = doc)
  BY <1>1 DEF doc
<1>10. F!TypeOK'
  <2>1. <<>> \in Seq(F!Member) /\ <<>> \in Seq(F!Held)
    OBVIOUS
  <2>2. file' \in Seq(F!Member) /\ document' \in Seq(F!Held)
    BY <1>3, <1>5, <1>8, <1>9, <2>1 DEF F!TypeOK
  <2>3. phase' \in {"off", "start", "run"}
    BY <1>1
  <2>4. lost' \subseteq F!Names /\ here' \subseteq F!Names
    <3>1. lost \subseteq F!Names /\ here \subseteq F!Names
      BY <1>3 DEF F!TypeOK
    <3>2. here' \subseteq F!Names
      BY <1>2, <3>1
    <3>3. CASE outcome = "written"
      BY <1>1, <3>1, <3>2, <3>3 DEF F!NowLost
    <3>4. CASE outcome = "refused"
      BY <1>1, <3>1, <3>2, <3>4 DEF F!NowLost
    <3>5. CASE outcome \in {"short", "ended"}
      BY <1>1, <3>2, <3>5 DEF F!NowLost
    <3> QED
      BY <3>3, <3>4, <3>5 DEF F!Outcomes
  <2> QED
    BY <1>7, <2>2, <2>3, <2>4 DEF F!TypeOK
<1>11. ASSUME NEW n \in F!Names, n \notin lost' PROVE F!Get(file', n) = meant'[n]
  <2>1. /\ outcome \in {"written", "refused"}
        /\ n # name => n \notin lost
        /\ outcome = "refused" => n # name
        /\ outcome = "written" /\ n # name => n \notin here
    BY <1>1, <1>3, <1>11, NotLost
  <2>2. CASE outcome = "refused"
    <3>1. F!Get(file, n) = meant[n]
      BY <2>1, <2>2 DEF FInv, SettingsKept, F!SettingsKept
    <3> QED
      BY <1>7, <1>8, <2>1, <2>2, <3>1
  <2>3. CASE outcome = "written" /\ n = name
    BY <1>5, <1>7, <1>8, <2>3
  <2>4. CASE outcome = "written" /\ n # name
    <3>1. F!Get(read, n) = meant[n]
      BY <2>1, <2>4 DEF FInv, FUntouched
    <3> QED
      BY <1>5, <1>7, <1>8, <2>4, <3>1
  <2> QED
    BY <2>1, <2>2, <2>3, <2>4
<1>12. SettingsKept'
  BY <1>11 DEF SettingsKept, F!SettingsKept, F!Get, F!Find, F!SelectInSeq
<1>13. ASSUME phase' # "off", NEW n \in F!Names, n \notin here', n \notin lost',
              NEW now \in F!Readings(document')
       PROVE  F!Get(now, n) = meant'[n]
  <2>1. outcome # "ended" /\ n # name /\ n \notin here /\ n \notin lost
    BY <1>1, <1>2, <1>3, <1>13, NotLost
  <2>2. now \in F!Readings(doc)
    BY <1>9, <1>13, <2>1
  <2>3. PICK before \in F!Readings(document) : F!Get(now, n) = F!Get(before, n)
    BY <1>6, <2>1, <2>2
  <2> QED
    BY <1>7, <2>1, <2>3 DEF FInv, FUntouched
<1>14. FUntouched'
  BY <1>13 DEF FUntouched, F!Readings, F!Get, F!Find, F!SelectInSeq
<1> QED
  BY <1>10, <1>12, <1>14 DEF FInv

LEMMA SettingsInitially == F!Init => FInv
<1> SUFFICES ASSUME F!Init PROVE FInv
  OBVIOUS
<1>1. /\ file = <<>> /\ document = <<>> /\ phase = "off" /\ here = {} /\ lost = {}
      /\ meant = [n \in F!Names |-> F!None]
  BY DEF F!Init
<1>2. F!TypeOK
  <2>1. file \in Seq(F!Member) /\ document \in Seq(F!Held)
    BY <1>1
  <2>2. meant \in [F!Names -> Texts \cup {F!None}]
    BY <1>1
  <2> QED
    BY <1>1, <2>1, <2>2 DEF F!TypeOK
<1>3. file \in Seq(F!Member) /\ Len(file) = 0
  BY <1>1
<1>4. ASSUME NEW n \in F!Names PROVE F!Find(file, n) = 0
  <2>1. \A i \in 1 .. Len(file) : file[i].name # n
    BY <1>3
  <2> QED
    BY <1>3, <2>1, NothingFound
<1>5. SettingsKept
  BY <1>1, <1>4 DEF SettingsKept, F!SettingsKept, F!Get
<1> QED
  BY <1>1, <1>2, <1>5 DEF FInv, FUntouched

LEMMA SettingsStep == FInv /\ [F!Next]_(F!vars) => FInv'
<1> SUFFICES ASSUME FInv, [F!Next]_(F!vars) PROVE FInv'
  OBVIOUS
<1>1. ASSUME UNCHANGED <<file, meant, lost>>
      PROVE  SettingsKept'
  BY <1>1 DEF FInv, SettingsKept, F!SettingsKept, F!Get, F!Find, F!SelectInSeq
<1>2. ASSUME UNCHANGED <<document, meant, here, lost>>, phase # "off"
      PROVE  FUntouched'
  <2>1. ASSUME NEW n \in F!Names, n \notin here' \cup lost', NEW read \in F!Readings(document')
        PROVE  F!Get(read, n) = meant'[n]
    BY <1>2, <2>1 DEF FInv, FUntouched
  <2> QED
    BY <2>1 DEF FUntouched, F!Readings, F!Get, F!Find, F!SelectInSeq
<1>3. CASE UNCHANGED F!vars
  <2>1. UNCHANGED <<file, document, phase, meant, here, lost>>
    BY <1>3 DEF F!vars
  <2>2. FUntouched'
    BY <1>2, <2>1 DEF FUntouched
  <2> QED
    BY <1>1, <2>1, <2>2 DEF FInv, F!TypeOK
<1>4. CASE F!StartProcess
  <2>1. /\ \/ document' = F!Load(file) /\ here' = {}
           \/ document' = F!Load(<<>>) /\ here' = F!Names
        /\ phase' = "start"
        /\ UNCHANGED <<file, meant, lost>>
    BY <1>4 DEF F!StartProcess
  <2>2. F!TypeOK'
    <3>1. file \in Seq(F!Member) /\ <<>> \in Seq(F!Member)
      BY DEF FInv, F!TypeOK
    <3>2. F!Load(file) \in Seq(F!Held) /\ F!Load(<<>>) \in Seq(F!Held)
      BY <3>1, LoadIsDocument
    <3>3. document' \in Seq(F!Held) /\ here' \subseteq F!Names
      BY <2>1, <3>2
    <3> QED
      BY <2>1, <3>3 DEF FInv, F!TypeOK
  <2>3. ASSUME NEW n \in F!Names, n \notin here' \cup lost', NEW read \in F!Readings(document')
        PROVE  F!Get(read, n) = meant'[n]
    <3>1. document' = F!Load(file)
      BY <2>1, <2>3
    <3>2. read = file
      BY <2>3, <3>1, LoadedIsRead DEF FInv, F!TypeOK
    <3> QED
      BY <2>1, <2>3, <3>2 DEF FInv, SettingsKept, F!SettingsKept
  <2>4. FUntouched'
    BY <2>3 DEF FUntouched, F!Readings, F!Get, F!Find, F!SelectInSeq
  <2> QED
    BY <1>1, <2>1, <2>2, <2>4 DEF FInv
<1>5. CASE F!PathKnown
  BY <1>1, <1>2, <1>5 DEF F!PathKnown, FInv, F!TypeOK
<1>6. CASE F!End
  <2>1. F!TypeOK' /\ UNCHANGED <<file, meant, lost>> /\ phase' = "off"
    BY <1>6 DEF F!End, FInv, F!TypeOK
  <2> QED
    BY <1>1, <2>1 DEF FInv, FUntouched
<1>7. CASE F!AskForPath
  BY <1>7, PathsAreTexts, SetKeeps DEF F!AskForPath, F!Names
<1>8. CASE F!NameDefault
  BY <1>8, SetKeeps DEF F!NameDefault, F!Names
<1>9. CASE F!Rename
  BY <1>9, SetKeeps DEF F!Rename, F!Names
<1> QED
  BY <1>3, <1>4, <1>5, <1>6, <1>7, <1>8, <1>9 DEF F!Next

\* properties.json, for any texts and any number of members: what a process has set is found
\* in the file until that process sets something else, a write comes short, or a process
\* that could not read the file sets something. Any other set that is written spoils no
\* setting, however often it is made, and a refused write none but its own
\* (properties.cpp:11-44, 108-117; io.cpp:28-45).
THEOREM LastSetIsKept == F!Spec => []SettingsKept
<1>1. FInv => SettingsKept
  BY DEF FInv
<1> QED
  BY <1>1, SettingsInitially, SettingsStep, PTL DEF F!Spec

-----------------------------------------------------------------------------
(* Owners *)

OInv == O!TypeOK /\ OwnedOnce

\* Only a key is replaced without being given back first.
LEMMA OnlyKeysReplace ==
    ASSUME NEW o \in Object, O!Class(o).assigns = "replaces"
    PROVE  ClassOf[o] = "key"
<1>1. ClassOf[o] \in O!ClassNames
  BY ClassAssumption DEF O!ClassAssumption
<1> QED
  BY <1>1 DEF O!ClassNames, O!Class, O!Handle, O!RegistryKey, O!Key, O!Socket,
              O!FinalAction, O!Allocator

LEMMA Named == ASSUME NEW o \in Object
               PROVE  ClassOf[o] \in O!ClassNames /\ ClassOf[o] # O!None
  BY ClassAssumption DEF O!ClassAssumption, O!ClassNames, O!None

\* An object that holds none of what it gives back, nothing of the others', and
\* nothing new but what it has just been given.
LEMMA ObjectChanges ==
    ASSUME OInv, NEW o \in Object, NEW R, NEW new \in SUBSET O!Fresh,
           R \subseteq held[o] \cup new, new \subseteq R,
           O!Becomes(o, R, held[o] \ R),
           given' = [r \in Resource |-> IF r \in new THEN ClassOf[o] ELSE given[r]],
           UNCHANGED overwritten,
           alive' \subseteq Object, alive' \ {o} = alive \ {o}, o \in alive' \/ R = {}
    PROVE  OInv'
<1> USE DEF OInv
<1>1. /\ held' = [held EXCEPT ![o] = R]
      /\ released' = [r \in Resource |-> IF r \in held[o] \ R /\ released[r] < 2
                                         THEN released[r] + 1 ELSE released[r]]
  BY DEF O!Becomes, O!Released
<1>2. /\ held \in [Object -> SUBSET Resource] /\ held[o] \subseteq Resource
      /\ R \subseteq Resource
      /\ held'[o] = R /\ \A p \in Object : p # o => held'[p] = held[p]
      /\ held' \in [Object -> SUBSET Resource]
  BY <1>1 DEF O!TypeOK, O!Fresh
<1>3. \A r \in Resource : r \in new =>
         given[r] = O!None /\ \A p \in Object : r \notin held[p]
  BY Named DEF O!Fresh, OwnedOnce, O!OwnedOnce
<1>4. O!TypeOK'
  BY <1>1, <1>2, Named DEF O!TypeOK
<1>5. \A p \in Object \ alive' : held'[p] = {}
  BY <1>2 DEF OwnedOnce, O!OwnedOnce
<1>6. \A p, q \in Object : p # q => held'[p] \cap held'[q] = {}
  BY <1>2, <1>3 DEF OwnedOnce, O!OwnedOnce
<1>7. \A r \in overwritten : given[r] = "key" /\ r \in Resource /\ r \notin new
  BY <1>3 DEF O!TypeOK, OwnedOnce, O!OwnedOnce, O!None
<1>8. \A p \in Object : \A r \in held'[p] : given'[r] = ClassOf[p] /\ r \notin overwritten'
  <2> SUFFICES ASSUME NEW p \in Object, NEW r \in held'[p]
               PROVE  given'[r] = ClassOf[p] /\ r \notin overwritten'
    OBVIOUS
  <2>1. r \in Resource
    BY <1>2
  <2>2. CASE r \in new
    BY <1>2, <1>3, <1>7, <2>1, <2>2
  <2>3. CASE r \notin new
    BY <1>2, <2>1, <2>3 DEF OwnedOnce, O!OwnedOnce
  <2> QED
    BY <2>2, <2>3
<1>9. \A r \in overwritten' : given'[r] = "key"
  BY <1>7
<1>10. ASSUME NEW r \in Resource
       PROVE  released'[r] =
                 IF given'[r] = O!None \/ r \in overwritten' \/ \E p \in Object : r \in held'[p]
                 THEN 0 ELSE 1
  <2>1. released[r] =
           IF given[r] = O!None \/ r \in overwritten \/ \E p \in Object : r \in held[p]
           THEN 0 ELSE 1
    BY DEF OwnedOnce, O!OwnedOnce
  <2>2. CASE r \in new
    BY <1>1, <1>2, <1>3, <2>1, <2>2
  <2>3. CASE r \in held[o] \ R
    <3>1. released[r] = 0 /\ given[r] = ClassOf[o] /\ r \notin overwritten /\ r \notin new
      BY <1>3, <2>1, <2>3 DEF OwnedOnce, O!OwnedOnce
    <3>2. \A p \in Object : r \notin held'[p]
      BY <1>2, <2>3 DEF OwnedOnce, O!OwnedOnce
    <3> QED
      BY <1>1, <2>3, <3>1, <3>2, Named
  <2>4. CASE r \notin new /\ r \notin held[o] \ R
    <3>1. \A p \in Object : r \in held'[p] <=> r \in held[p]
      BY <1>2, <2>4
    <3> QED
      BY <1>1, <2>1, <2>4, <3>1
  <2> QED
    BY <2>2, <2>3, <2>4
<1> QED
  BY <1>4, <1>5, <1>6, <1>8, <1>9, <1>10 DEF OwnedOnce, O!OwnedOnce

\* What one object held, another one of its class holds; what that one held is
\* given back, or a key and lost.
LEMMA ObjectsMove ==
    ASSUME OInv, NEW to \in Object, NEW from \in Object, to # from,
           ClassOf[to] = ClassOf[from], O!Moved(to, from), UNCHANGED given,
           alive' \in {alive, alive \cup {to}}, from \in alive, to \in alive',
           \/ released' = O!Released(held[to]) /\ UNCHANGED overwritten
           \/ /\ overwritten' = overwritten \cup held[to] /\ UNCHANGED released
              /\ held[to] # {} => ClassOf[to] = "key"
    PROVE  OInv'
<1> USE DEF OInv
<1>1. held' = [held EXCEPT ![to] = held[from], ![from] = {}]
  BY DEF O!Moved
<1>2. /\ held \in [Object -> SUBSET Resource]
      /\ held'[to] = held[from] /\ held'[from] = {}
      /\ \A p \in Object : p # to /\ p # from => held'[p] = held[p]
      /\ held' \in [Object -> SUBSET Resource]
  BY <1>1 DEF O!TypeOK
<1>3. /\ \A o \in Object \ alive : held[o] = {}
      /\ \A o, p \in Object : o # p => held[o] \cap held[p] = {}
      /\ \A o \in Object : \A r \in held[o] : given[r] = ClassOf[o] /\ r \notin overwritten
      /\ \A r \in overwritten : given[r] = "key"
  BY DEF OwnedOnce, O!OwnedOnce
<1>4. O!TypeOK'
  <2>1. released' \in [Resource -> 0 .. 2] /\ overwritten' \subseteq Resource
    BY <1>2 DEF O!TypeOK, O!Released
  <2> QED
    BY <1>2, <2>1 DEF O!TypeOK
<1>5. \A p \in Object \ alive' : held'[p] = {}
  BY <1>2, <1>3
<1>6. \A p, q \in Object : p # q => held'[p] \cap held'[q] = {}
  BY <1>2, <1>3
<1>7. \A p \in Object : \A r \in held'[p] : r \notin held[to] /\ r \notin overwritten
  BY <1>2, <1>3
<1>8. \A p \in Object : \A r \in held'[p] : given'[r] = ClassOf[p] /\ r \notin overwritten'
  BY <1>2, <1>3, <1>7
<1>9. \A r \in overwritten' : given'[r] = "key"
  BY <1>2, <1>3
<1>10. ASSUME NEW r \in Resource
       PROVE  released'[r] =
                 IF given'[r] = O!None \/ r \in overwritten' \/ \E p \in Object : r \in held'[p]
                 THEN 0 ELSE 1
  <2>1. released[r] =
           IF given[r] = O!None \/ r \in overwritten \/ \E p \in Object : r \in held[p]
           THEN 0 ELSE 1
    BY DEF OwnedOnce, O!OwnedOnce
  <2>2. CASE r \in held[to]
    <3>1. released[r] = 0 /\ given[r] # O!None /\ r \notin overwritten
      BY <1>3, <2>1, <2>2, Named
    <3>2. \A p \in Object : r \notin held'[p]
      BY <1>7, <2>2
    <3> QED
      BY <2>2, <3>1, <3>2 DEF O!Released
  <2>3. CASE r \notin held[to]
    <3>1. (\E p \in Object : r \in held'[p]) <=> (\E p \in Object : r \in held[p])
      BY <1>2, <2>3
    <3>2. released'[r] = released[r] /\ (r \in overwritten' <=> r \in overwritten)
      BY <2>3 DEF O!Released, O!TypeOK
    <3> QED
      BY <2>1, <3>1, <3>2
  <2> QED
    BY <2>2, <2>3
<1> QED
  BY <1>4, <1>5, <1>6, <1>8, <1>9, <1>10 DEF OwnedOnce, O!OwnedOnce

LEMMA OwnersInitially == O!Init => OInv
  BY DEF O!Init, OInv, O!TypeOK, OwnedOnce, O!OwnedOnce, O!None

\* A new resource goes to an object of a class.
LEMMA Given ==
    ASSUME NEW o \in Object, NEW r \in O!Fresh, O!TypeOK, O!GiveTo(o, r)
    PROVE  /\ {r} \in SUBSET O!Fresh
           /\ given' = [q \in Resource |-> IF q \in {r} THEN ClassOf[o] ELSE given[q]]
  BY DEF O!TypeOK, O!GiveTo, O!Fresh

\* Nothing new, and given is as before.
LEMMA NothingGiven ==
    ASSUME O!TypeOK, UNCHANGED given, NEW o \in Object
    PROVE  /\ {} \in SUBSET O!Fresh
           /\ given' = [q \in Resource |-> IF q \in {} THEN ClassOf[o] ELSE given[q]]
  BY DEF O!TypeOK

LEMMA OwnersStep == OInv /\ O!Next => OInv'
<1> SUFFICES ASSUME OInv, O!Next PROVE OInv'
  OBVIOUS
<1>t. O!TypeOK /\ alive \subseteq Object
  BY DEF OInv, O!TypeOK
<1> PICK o \in Object :
       \/ O!Construct(o) \/ O!Obtain(o) \/ O!Destroy(o) \/ O!Renew(o) \/ O!Cancel(o)
       \/ O!Allocate(o) \/ O!Free(o) \/ O!Clear(o)
       \/ \E from \in Object : O!MoveConstruct(o, from) \/ O!MoveAssign(o, from)
  BY DEF O!Next
<1>e. o \notin alive => held[o] = {}
  BY DEF OInv, OwnedOnce, O!OwnedOnce
<1>1. CASE O!Construct(o)
  <2>1. /\ alive' = alive \cup {o} /\ UNCHANGED <<held, given, released, overwritten>>
    BY <1>1 DEF O!Construct
  <2> QED
    BY <2>1, <1>t DEF OInv, O!TypeOK, OwnedOnce, O!OwnedOnce
<1>2. CASE O!Obtain(o)
  <2>1. PICK r \in O!Fresh : O!Becomes(o, {r}, {}) /\ O!GiveTo(o, r)
    BY <1>2 DEF O!Obtain
  <2>2. o \notin alive /\ alive' = alive \cup {o} /\ UNCHANGED overwritten
    BY <1>2 DEF O!Obtain
  <2>3. held[o] \ {r} = {}
    BY <1>e, <2>2
  <2> QED
    BY <1>t, <2>1, <2>2, <2>3, Given, ObjectChanges
<1>3. CASE O!Destroy(o)
  <2>1. /\ O!Becomes(o, {}, held[o] \ {}) /\ alive' = alive \ {o}
        /\ UNCHANGED <<given, overwritten>>
    BY <1>3 DEF O!Destroy
  <2> QED
    BY <1>t, <2>1, NothingGiven, ObjectChanges
<1>4. CASE O!Renew(o)
  <2>1. o \in alive /\ UNCHANGED <<alive, overwritten>>
    BY <1>4 DEF O!Renew
  <2>2. CASE O!Becomes(o, {}, held[o]) /\ UNCHANGED given
    <3>1. held[o] \ {} = held[o]
      OBVIOUS
    <3> QED
      BY <1>t, <2>1, <2>2, <3>1, NothingGiven, ObjectChanges
  <2>3. ASSUME NEW r \in O!Fresh, O!Becomes(o, {r}, held[o]), O!GiveTo(o, r)
        PROVE  OInv'
    <3>1. held[o] \ {r} = held[o]
      BY <2>3, Named DEF OInv, OwnedOnce, O!OwnedOnce, O!Fresh
    <3> QED
      BY <1>t, <2>1, <2>3, <3>1, Given, ObjectChanges
  <2> QED
    BY <1>4, <2>2, <2>3 DEF O!Renew
<1>5. CASE O!Cancel(o)
  <2>1. /\ O!Becomes(o, {}, held[o] \ {}) /\ o \in alive
        /\ UNCHANGED <<alive, given, overwritten>>
    BY <1>5 DEF O!Cancel
  <2> QED
    BY <1>t, <2>1, NothingGiven, ObjectChanges
<1>6. CASE O!Allocate(o)
  <2>1. PICK r \in O!Fresh : O!Becomes(o, held[o] \cup {r}, {}) /\ O!GiveTo(o, r)
    BY <1>6 DEF O!Allocate
  <2>2. o \in alive /\ UNCHANGED <<alive, overwritten>>
    BY <1>6 DEF O!Allocate
  <2> DEFINE R == held[o] \cup {r}
  <2>3. held[o] \ R = {} /\ R \subseteq held[o] \cup {r} /\ {r} \subseteq R
    OBVIOUS
  <2>4. O!Becomes(o, R, held[o] \ R)
    BY <2>1, <2>3
  <2> HIDE DEF R
  <2>5. /\ {r} \in SUBSET O!Fresh
        /\ given' = [q \in Resource |-> IF q \in {r} THEN ClassOf[o] ELSE given[q]]
    BY <1>t, <2>1, Given
  <2> QED
    BY <1>t, <2>2, <2>3, <2>4, <2>5, ObjectChanges
<1>7. CASE O!Free(o)
  <2>1. PICK r \in Resource \ O!Fresh : O!Becomes(o, held[o] \ {r}, held[o] \cap {r})
    BY <1>7 DEF O!Free
  <2>2. o \in alive /\ UNCHANGED <<alive, given, overwritten>>
    BY <1>7 DEF O!Free
  <2> DEFINE R == held[o] \ {r}
  <2>3. held[o] \ R = held[o] \cap {r} /\ R \subseteq held[o] \cup {}
    OBVIOUS
  <2>4. O!Becomes(o, R, held[o] \ R)
    BY <2>1, <2>3
  <2> HIDE DEF R
  <2> QED
    BY <1>t, <2>2, <2>3, <2>4, NothingGiven, ObjectChanges
<1>8. CASE O!Clear(o)
  <2>1. /\ O!Becomes(o, {}, held[o] \ {}) /\ o \in alive
        /\ UNCHANGED <<alive, given, overwritten>>
    BY <1>8 DEF O!Clear
  <2> QED
    BY <1>t, <2>1, NothingGiven, ObjectChanges
<1>9. ASSUME NEW from \in Object, O!MoveConstruct(o, from) PROVE OInv'
  <2>1. /\ o \notin alive /\ from \in alive /\ ClassOf[o] = ClassOf[from]
        /\ O!Moved(o, from) /\ alive' = alive \cup {o}
        /\ UNCHANGED <<given, released, overwritten>>
    BY <1>9 DEF O!MoveConstruct
  <2>2. overwritten' = overwritten \cup held[o] /\ held[o] = {}
    BY <1>e, <2>1
  <2> QED
    BY <2>1, <2>2, ObjectsMove
<1>10. ASSUME NEW from \in Object, O!MoveAssign(o, from) PROVE OInv'
  <2>1. /\ o \in alive /\ from \in alive /\ o # from /\ ClassOf[o] = ClassOf[from]
        /\ O!Moved(o, from) /\ UNCHANGED <<alive, given>>
    BY <1>10 DEF O!MoveAssign
  <2>2. CASE released' = O!Released(held[o]) /\ UNCHANGED overwritten
    BY <2>1, <2>2, ObjectsMove
  <2>3. CASE /\ O!Class(o).assigns = "replaces"
             /\ overwritten' = overwritten \cup held[o] /\ UNCHANGED released
    BY <2>1, <2>3, OnlyKeysReplace, ObjectsMove
  <2> QED
    BY <1>10, <2>2, <2>3 DEF O!MoveAssign
<1> QED
  BY <1>1, <1>2, <1>3, <1>4, <1>5, <1>6, <1>7, <1>8, <1>9, <1>10

\* Whatever objects there are and however often one is moved onto another: what
\* was given is held by one object or was given back once, but for the keys that
\* others were moved onto (nt.hpp, cryptography.cpp:166-175, socket.cpp,
\* finally.hpp, memory.cpp).
THEOREM HeldOrReturned == O!Spec => []OwnedOnce
<1>1. OInv /\ UNCHANGED O!vars => OInv'
  BY DEF OInv, O!vars, O!TypeOK, OwnedOnce, O!OwnedOnce, O!None
<1>2. OInv => OwnedOnce
  BY DEF OInv
<1> QED
  BY OwnersInitially, OwnersStep, <1>1, <1>2, PTL DEF O!Spec

-----------------------------------------------------------------------------
(* Arrays *)

AInv == A!TypeOK /\ BlocksOwned

Free == (1 .. MaxBlock) \ live

\* The module's counting is that of the theorems about finite sets.
LEMMA SameCardinality == \A T : A!Cardinality(T) = Cardinality(T)
<1> TAKE T
<1> QED
  BY DEF A!Cardinality, Cardinality

LEMMA BlocksAreNumbers == MaxBlock \in Nat /\ MaxLength \in Nat
  BY BlockAssumption DEF A!BlockAssumption

LEMMA FreeIsFinite ==
    IsFiniteSet(Free) /\ Cardinality(Free) \in Nat
<1>2. IsFiniteSet(1 .. MaxBlock) /\ Free \in SUBSET (1 .. MaxBlock)
  BY BlocksAreNumbers, FS_Interval DEF Free
<1> QED
  BY <1>2, FS_Subset, FS_CardinalityType

\* A finite set has a subset of any size up to its own.
LEMMA SubsetOfSize ==
    ASSUME NEW T, IsFiniteSet(T), NEW n \in Nat, n <= Cardinality(T)
    PROVE  A!kSubset(n, T) # {}
<1>1. PICK f \in Bijection(1 .. Cardinality(T), T) : TRUE
  BY FS_CardinalityType DEF ExistsBijection
<1>2. Cardinality(T) \in Nat
  BY FS_CardinalityType
<1> DEFINE U == {f[i] : i \in 1 .. n}
           g == [i \in 1 .. n |-> f[i]]
<1>3. f \in [1 .. Cardinality(T) -> T] /\ \A i, j \in 1 .. Cardinality(T) : f[i] = f[j] => i = j
  BY <1>1 DEF Bijection, Injection, IsInjective
<1>4. U \in SUBSET T
  BY <1>2, <1>3
<1>5. g \in Bijection(1 .. n, U)
  BY <1>2, <1>3 DEF Bijection, Injection, Surjection, IsInjective
<1>6. ExistsBijection(1 .. n, U)
  BY <1>5 DEF ExistsBijection
<1>7. IsFiniteSet(1 .. n) /\ Cardinality(1 .. n) = n
  BY FS_Interval
<1>8. Cardinality(U) = n
  BY <1>6, <1>7, FS_Bijection
<1> QED
  BY <1>4, <1>8, SameCardinality DEF A!kSubset

\* A finite set can be put in a sequence.
LEMMA SequenceOfSet ==
    ASSUME NEW T, IsFiniteSet(T)
    PROVE  /\ A!SetToSeq(T) \in [1 .. Cardinality(T) -> T]
           /\ \A i, j \in 1 .. Cardinality(T) : A!SetToSeq(T)[i] = A!SetToSeq(T)[j] => i = j
<1>1. PICK f \in Bijection(1 .. Cardinality(T), T) : TRUE
  BY FS_CardinalityType DEF ExistsBijection
<1>2. f \in [1 .. Cardinality(T) -> T] /\ A!IsInjective(f)
  BY <1>1 DEF Bijection, Injection, IsInjective, A!IsInjective
<1> QED
  <2>1. A!SetToSeq(T) = CHOOSE h \in [1 .. Cardinality(T) -> T] : A!IsInjective(h)
    BY SameCardinality DEF A!SetToSeq
  <2>2. A!SetToSeq(T) \in [1 .. Cardinality(T) -> T] /\ A!IsInjective(A!SetToSeq(T))
    BY <1>2, <2>1
  <2> QED
    BY <2>2 DEF A!IsInjective

\* allocate_memory returns different blocks, none of which is in use.
LEMMA NewBlocks ==
    ASSUME NEW n \in Nat, NEW new \in A!New(n)
    PROVE  /\ new \in Seq(A!String) /\ Len(new) = n
           /\ \A i \in 1 .. n : new[i] \in 1 .. MaxBlock /\ new[i] \notin live
           /\ \A i, j \in 1 .. n : new[i] = new[j] => i = j
<1> DEFINE T == CHOOSE U \in A!kSubset(n, Free) : TRUE
<1>1. n <= Cardinality(Free) /\ new = A!SetToSeq(T)
  <2>1. A!New(n) = IF Cardinality(Free) < n THEN {} ELSE {A!SetToSeq(T)}
    BY SameCardinality DEF A!New, Free
  <2> QED
    BY <2>1, FreeIsFinite
<1>2. T \in SUBSET Free /\ Cardinality(T) = n
  <2>1. T \in A!kSubset(n, Free)
    BY <1>1, FreeIsFinite, SubsetOfSize
  <2> QED
    BY <2>1, SameCardinality DEF A!kSubset
<1> HIDE DEF T
<1>3. IsFiniteSet(T)
  BY <1>2, FreeIsFinite, FS_Subset
<1>4. new \in [1 .. n -> T] /\ \A i, j \in 1 .. n : new[i] = new[j] => i = j
  BY <1>1, <1>2, <1>3, SequenceOfSet
<1>5. \A i \in 1 .. n : new[i] \in 1 .. MaxBlock /\ new[i] \notin live
  BY <1>2, <1>4 DEF Free
<1>6. new \in [1 .. n -> A!String]
  BY <1>4, <1>5 DEF A!String
<1>7. new \in Seq(A!String) /\ Len(new) = n
  <2>1. new \in Seq(A!String)
    BY <1>6, SeqDef
  <2>2. DOMAIN new = 1 .. n /\ DOMAIN new = 1 .. Len(new) /\ Len(new) \in Nat
    BY <1>6, <2>1, LenProperties
  <2> QED
    BY <2>1, <2>2
<1> QED
  BY <1>4, <1>5, <1>7

\* Who holds what, as the steps need it.
LEMMA Holdings ==
    ASSUME AInv
    PROVE  /\ \A a \in Name : /\ arrays[a].values \in A!String /\ A!Items(a) \in Seq(A!String)
                              /\ A!Once(A!Items(a))
                              /\ arrays[a].values \in A!ToSet(A!Items(a)) => arrays[a].values = 0
           /\ vector \in Seq(A!String) /\ A!Once(vector)
           /\ \A a, b \in Name : a # b => A!Contents(a) \cap A!Contents(b) \subseteq {0}
           /\ \A a \in Name : A!Contents(a) \cap A!ToSet(vector) \subseteq {0}
           /\ 0 \notin live
           /\ \A x : x # 0 => (x \in live <=> \/ \E a \in Name : x \in A!Contents(a)
                                              \/ x \in A!ToSet(vector))
<1>1. \A a \in Name : arrays[a].values \in A!String /\ A!Items(a) \in Seq(A!String)
  BY DEF AInv, A!TypeOK, A!String, A!Items
<1>2. live = (A!ToSet(vector) \cup UNION {A!Contents(a) : a \in Name}) \ {0}
  BY DEF AInv, BlocksOwned, A!BlocksOwned
<1>3. \A x : x # 0 => (x \in live <=> \/ \E a \in Name : x \in A!Contents(a)
                                      \/ x \in A!ToSet(vector))
  BY <1>2
<1>4. 0 \notin live
  BY <1>2
<1> QED
  BY <1>1, <1>3, <1>4 DEF AInv, A!TypeOK, A!String, BlocksOwned, A!BlocksOwned

\* The invariant from its parts.
LEMMA Reassembled ==
    ASSUME arrays' \in [Name -> [values : A!String, items : Seq(A!String)]],
           vector' \in Seq(A!String), live' \subseteq 1 .. MaxBlock,
           \A a \in Name : /\ A!Once(A!Items(a)')
                           /\ arrays'[a].values \in A!ToSet(A!Items(a)') => arrays'[a].values = 0,
           A!Once(vector'),
           \A a, b \in Name : a # b => A!Contents(a)' \cap A!Contents(b)' \subseteq {0},
           \A a \in Name : A!Contents(a)' \cap A!ToSet(vector') \subseteq {0},
           0 \notin live',
           \A x : x # 0 => (x \in live' <=> \/ \E a \in Name : x \in A!Contents(a)'
                                            \/ x \in A!ToSet(vector'))
    PROVE  AInv'
<1>1. A!TypeOK'
  BY DEF A!TypeOK, A!String
<1>2. live' = (A!ToSet(vector') \cup UNION {A!Contents(a)' : a \in Name}) \ {0}
  OBVIOUS
<1>3. A!BlocksOwned'
  BY <1>2 DEF A!BlocksOwned, A!ToSet, A!Once
<1> QED
  BY <1>1, <1>3 DEF AInv, BlocksOwned

LEMMA StillBlocks ==
    ASSUME live \subseteq 1 .. MaxBlock,
           NEW allocated \in SUBSET A!String, NEW freed, A!Change(allocated, freed)
    PROVE  live' \subseteq 1 .. MaxBlock /\ 0 \notin live'
<1>1. \A x \in live' : x # 0 /\ (x \in 1 .. MaxBlock \/ x \in 0 .. MaxBlock)
  BY DEF A!Change, A!String
<1>2. \A x \in 0 .. MaxBlock : x # 0 => x \in 1 .. MaxBlock
  BY BlocksAreNumbers
<1> QED
  BY <1>1, <1>2

\* What was referred to or is new is in one of two places, or freed; what is no
\* block is of no account.
HandedOver(old, first, second, freed) ==
    /\ first \cup second \cup freed \subseteq old \cup {0}
    /\ old \subseteq first \cup second \cup freed \cup {0}
    /\ first \cap second \subseteq {0}
    /\ (first \cup second) \cap freed \subseteq {0}

\* One array and the vector change: they take up what is allocated, hand blocks to
\* each other, and what neither refers to any longer is freed.
LEMMA Exchanged ==
    ASSUME AInv, NEW a \in Name,
           NEW v \in A!String, NEW s \in Seq(A!String), NEW t \in Seq(A!String),
           A!Once(s), v \in A!ToSet(s) => v = 0, A!Once(t),
           arrays' = [arrays EXCEPT ![a] = [values |-> v, items |-> s]], vector' = t,
           NEW allocated \in SUBSET A!String, allocated \cap live = {},
           NEW freed, A!Change(allocated, freed),
           HandedOver(A!Contents(a) \cup A!ToSet(vector) \cup allocated,
                      A!ToSet(s) \cup {v}, A!ToSet(t), freed)
    PROVE  AInv'
<1>1. /\ arrays' \in [Name -> [values : A!String, items : Seq(A!String)]]
      /\ arrays'[a].values = v /\ A!Items(a)' = s
      /\ \A b \in Name : b # a => arrays'[b] = arrays[b]
  BY DEF AInv, A!TypeOK, A!Items, A!String
<1>2. A!Contents(a)' = A!ToSet(s) \cup {v}
  BY <1>1 DEF A!Contents, A!ToSet
<1>3. \A b \in Name : b # a => A!Contents(b)' = A!Contents(b) /\ A!Items(b)' = A!Items(b)
  BY <1>1 DEF A!Contents, A!Items, A!ToSet
<1>4. live' = ((live \cup allocated) \ freed) \ {0}
  BY DEF A!Change
<1>5. live' \subseteq 1 .. MaxBlock /\ 0 \notin live'
  BY StillBlocks DEF AInv, A!TypeOK
<1>6. \A b \in Name : /\ A!Once(A!Items(b)')
                      /\ arrays'[b].values \in A!ToSet(A!Items(b)') => arrays'[b].values = 0
  BY <1>1, <1>3, Holdings
<1>7. ASSUME NEW b \in Name, b # a, NEW x, x # 0, x \in A!Contents(b)
      PROVE  /\ x \notin A!Contents(a) \cup A!ToSet(vector) \cup allocated
             /\ x \in live
  BY <1>7, Holdings
<1>8. \A b, c \in Name : b # c => A!Contents(b)' \cap A!Contents(c)' \subseteq {0}
  <2> SUFFICES ASSUME NEW b \in Name, NEW c \in Name, b # c,
                      NEW x, x # 0, x \in A!Contents(b)', x \in A!Contents(c)'
               PROVE  FALSE
    OBVIOUS
  <2>1. CASE b = a
    BY <1>2, <1>3, <1>7, <2>1 DEF HandedOver
  <2>2. CASE c = a
    BY <1>2, <1>3, <1>7, <2>2 DEF HandedOver
  <2>3. CASE b # a /\ c # a
    BY <1>3, <2>3, Holdings
  <2> QED
    BY <2>1, <2>2, <2>3
<1>9. \A b \in Name : A!Contents(b)' \cap A!ToSet(vector') \subseteq {0}
  BY <1>2, <1>3, <1>7 DEF HandedOver
<1>10. ASSUME NEW x, x # 0
       PROVE  x \in live' <=> \/ \E b \in Name : x \in A!Contents(b)'
                              \/ x \in A!ToSet(vector')
  <2>1. CASE \E b \in Name : b # a /\ x \in A!Contents(b)
    BY <1>3, <1>4, <1>7, <1>10, <2>1 DEF HandedOver
  <2>2. CASE ~\E b \in Name : b # a /\ x \in A!Contents(b)
    <3>1. x \in live <=> x \in A!Contents(a) \cup A!ToSet(vector)
      BY <1>10, <2>2, Holdings
    <3>2. (\E b \in Name : x \in A!Contents(b)') <=> x \in A!ToSet(s) \cup {v}
      BY <1>2, <1>3, <2>2
    <3> QED
      BY <1>4, <1>10, <3>1, <3>2 DEF HandedOver
  <2> QED
    BY <2>1, <2>2
<1> QED
  BY <1>1, <1>5, <1>6, <1>8, <1>9, <1>10, Reassembled

\* The blocks a sequence refers to.
LEMMA Members ==
    ASSUME NEW T, NEW s \in Seq(T)
    PROVE  \A x : x \in A!ToSet(s) <=> \E i \in 1 .. Len(s) : s[i] = x
  BY LenProperties DEF A!ToSet

LEMMA OnceOf ==
    ASSUME NEW T, NEW s \in Seq(T)
    PROVE  A!Once(s) <=> \A i, j \in 1 .. Len(s) : s[i] = s[j] /\ i # j => s[i] = 0
  BY LenProperties DEF A!Once

LEMMA NothingHeld ==
    A!ToSet(<<>>) = {} /\ A!Once(<<>>) /\ <<>> \in Seq(A!String)
  BY DEF A!ToSet, A!Once

\* A beginning and the rest of a sequence without repetitions.
LEMMA Divided ==
    ASSUME NEW T, NEW s \in Seq(T), NEW n \in 0 .. Len(s), A!Once(s)
    PROVE  /\ SubSeq(s, 1, n) \in Seq(T) /\ SubSeq(s, n + 1, Len(s)) \in Seq(T)
           /\ A!Once(SubSeq(s, 1, n))
           /\ A!ToSet(s) = A!ToSet(SubSeq(s, 1, n)) \cup A!ToSet(SubSeq(s, n + 1, Len(s)))
           /\ A!ToSet(SubSeq(s, 1, n)) \cap A!ToSet(SubSeq(s, n + 1, Len(s))) \subseteq {0}
<1> DEFINE front == SubSeq(s, 1, n)
           rest == SubSeq(s, n + 1, Len(s))
<1>1. /\ Len(s) \in Nat /\ n \in Nat /\ n <= Len(s)
      /\ \A i \in 1 .. Len(s) : s[i] \in T
  BY LenProperties
<1>2. front \in Seq(T) /\ Len(front) = n /\ \A i \in 1 .. n : front[i] = s[i]
  BY <1>1, SubSeqProperties
<1>3. /\ rest \in Seq(T) /\ Len(rest) = Len(s) - n
      /\ \A i \in 1 .. Len(s) - n : rest[i] = s[n + i]
  BY <1>1, SubSeqProperties
<1> HIDE DEF front, rest
<1>4. A!Once(front)
  BY <1>1, <1>2, OnceOf
<1>5. A!ToSet(s) \subseteq A!ToSet(front) \cup A!ToSet(rest)
  <2> SUFFICES ASSUME NEW i \in 1 .. Len(s)
               PROVE  s[i] \in A!ToSet(front) \cup A!ToSet(rest)
    BY Members
  <2>1. CASE i <= n
    BY <1>1, <1>2, <2>1, Members
  <2>2. CASE i > n
    <3>1. i - n \in 1 .. Len(rest) /\ rest[i - n] = s[i]
      BY <1>1, <1>3, <2>2
    <3> QED
      BY <1>3, <3>1, Members
  <2> QED
    BY <1>1, <2>1, <2>2
<1>6. A!ToSet(front) \cup A!ToSet(rest) \subseteq A!ToSet(s)
  <2>1. ASSUME NEW i \in 1 .. n PROVE front[i] \in A!ToSet(s)
    BY <1>1, <1>2, Members
  <2>2. ASSUME NEW i \in 1 .. Len(s) - n PROVE rest[i] \in A!ToSet(s)
    <3>1. n + i \in 1 .. Len(s) /\ rest[i] = s[n + i]
      BY <1>1, <1>3
    <3> QED
      BY <3>1, Members
  <2>3. \A x \in A!ToSet(front) : \E i \in 1 .. n : x = front[i]
    BY <1>2, Members
  <2>4. \A x \in A!ToSet(rest) : \E i \in 1 .. Len(s) - n : x = rest[i]
    BY <1>3, Members
  <2> QED
    BY <2>1, <2>2, <2>3, <2>4
<1>7. A!ToSet(front) \cap A!ToSet(rest) \subseteq {0}
  <2> SUFFICES ASSUME NEW i \in 1 .. n, NEW j \in 1 .. Len(s) - n, front[i] = rest[j]
               PROVE  front[i] = 0
    <3>1. \A x \in A!ToSet(front) : \E i \in 1 .. n : x = front[i]
      BY <1>2, Members
    <3>2. \A x \in A!ToSet(rest) : \E j \in 1 .. Len(s) - n : x = rest[j]
      BY <1>3, Members
    <3>3. ASSUME NEW x \in A!ToSet(front), x \in A!ToSet(rest) PROVE x = 0
      <4>1. PICK i \in 1 .. n : x = front[i]
        BY <3>1
      <4>2. PICK j \in 1 .. Len(s) - n : x = rest[j]
        BY <3>2, <3>3
      <4> QED
        BY <4>1, <4>2
    <3> QED
      BY <3>3
  <2>1. s[i] = s[n + j] /\ i \in 1 .. Len(s) /\ n + j \in 1 .. Len(s) /\ i # n + j
    BY <1>1, <1>2, <1>3
  <2> QED
    BY <1>2, <2>1, OnceOf
<1> QED
  BY <1>2, <1>3, <1>4, <1>5, <1>6, <1>7 DEF front, rest

\* Only the items of an array are others.
LEMMA ItemsSet ==
    ASSUME A!TypeOK, NEW a \in Name, NEW s
    PROVE  [arrays EXCEPT ![a].items = s]
              = [arrays EXCEPT ![a] = [values |-> arrays[a].values, items |-> s]]
<1>1. arrays[a] \in [values : 0 .. MaxBlock, items : Seq(A!String)]
  BY DEF A!TypeOK
<1>2. [arrays[a] EXCEPT !.items = s] = [values |-> arrays[a].values, items |-> s]
  BY <1>1
<1> QED
  BY <1>2

\* An array keeps its first n items, and frees the others.
LEMMA Shortened ==
    ASSUME AInv, NEW a \in Name, NEW n \in 0 .. A!Size(a),
           arrays' = [arrays EXCEPT ![a].items = SubSeq(A!Items(a), 1, n)],
           A!Change({}, A!ToSet(SubSeq(A!Items(a), n + 1, A!Size(a)))),
           UNCHANGED vector
    PROVE  AInv'
<1> DEFINE v == arrays[a].values
           s == SubSeq(A!Items(a), 1, n)
           freed == A!ToSet(SubSeq(A!Items(a), n + 1, A!Size(a)))
<1>1. /\ v \in A!String /\ s \in Seq(A!String) /\ A!Once(s)
      /\ A!ToSet(A!Items(a)) = A!ToSet(s) \cup freed
      /\ A!ToSet(s) \cap freed \subseteq {0}
      /\ v \in A!ToSet(A!Items(a)) => v = 0
  BY Holdings, Divided DEF A!Size
<1>2. arrays' = [arrays EXCEPT ![a] = [values |-> v, items |-> s]]
  BY ItemsSet DEF AInv
<1>3. A!Change({}, freed) /\ vector' = vector
  OBVIOUS
<1> HIDE DEF v, s, freed
<1>4. A!Contents(a) = A!ToSet(s) \cup freed \cup {v}
  BY <1>1 DEF A!Contents, v
<1>5. /\ vector \in Seq(A!String) /\ A!Once(vector)
      /\ A!Contents(a) \cap A!ToSet(vector) \subseteq {0}
  BY Holdings
<1>6. HandedOver(A!Contents(a) \cup A!ToSet(vector) \cup {}, A!ToSet(s) \cup {v},
                 A!ToSet(vector), freed)
  BY <1>1, <1>4, <1>5 DEF HandedOver
<1> QED
  BY <1>1, <1>2, <1>3, <1>5, <1>6, Exchanged

LEMMA PoppedBack ==
    ASSUME AInv, NEW a \in Name, A!PopBack(a)
    PROVE  AInv'
<1>1. /\ A!Size(a) > 0
      /\ arrays' = [arrays EXCEPT ![a].items = A!Front(@)]
      /\ A!Change({}, {A!Last(A!Items(a))}) /\ UNCHANGED vector
  BY DEF A!PopBack
<1>2. A!Items(a) \in Seq(A!String) /\ A!Size(a) \in Nat
  BY Holdings DEF A!Size
<1> DEFINE n == A!Size(a) - 1
           rest == SubSeq(A!Items(a), n + 1, A!Size(a))
<1>3. n \in 0 .. A!Size(a) /\ n + 1 = A!Size(a)
  BY <1>1, <1>2
<1>4. arrays' = [arrays EXCEPT ![a].items = SubSeq(A!Items(a), 1, n)]
  BY <1>1 DEF A!Front, A!Size, A!Items
<1>5. A!ToSet(rest) = {A!Last(A!Items(a))}
  <2>1. /\ Len(rest) = 1 /\ rest \in Seq(A!String)
        /\ rest[1] = A!Items(a)[A!Size(a)]
    BY <1>1, <1>2, <1>3, SubSeqProperties, ElementOfSeq DEF A!Size
  <2>2. \A x : x \in A!ToSet(rest) <=> \E i \in 1 .. Len(rest) : rest[i] = x
    BY <2>1, Members
  <2> HIDE DEF rest
  <2> QED
    BY <2>1, <2>2 DEF A!Last, A!Size
<1> QED
  BY <1>1, <1>3, <1>4, <1>5, Shortened

LEMMA Shrunk ==
    ASSUME AInv, NEW a \in Name, A!Shrink(a)
    PROVE  AInv'
<1>1. PICK n \in 0 .. A!Size(a) :
         /\ arrays' = [arrays EXCEPT ![a].items = SubSeq(A!Items(a), 1, n)]
         /\ A!Change({}, A!ToSet(SubSeq(A!Items(a), n + 1, A!Size(a))))
  BY DEF A!Shrink, A!Items
<1>2. UNCHANGED vector
  BY DEF A!Shrink
<1> QED
  BY <1>1, <1>2, Shortened

LEMMA Cleared ==
    ASSUME AInv, NEW a \in Name, A!Clear(a)
    PROVE  AInv'
<1>1. /\ arrays' = [arrays EXCEPT ![a] = [values |-> 0, items |-> <<>>]]
      /\ A!Change({}, A!Contents(a)) /\ vector' = vector
  BY DEF A!Clear, A!Empty
<1>2. /\ vector \in Seq(A!String) /\ A!Once(vector)
      /\ A!Contents(a) \cap A!ToSet(vector) \subseteq {0}
  BY Holdings
<1>3. 0 \in A!String
  BY BlocksAreNumbers DEF A!String
<1>4. HandedOver(A!Contents(a) \cup A!ToSet(vector) \cup {}, A!ToSet(<<>>) \cup {0},
                 A!ToSet(vector), A!Contents(a))
  BY <1>2, NothingHeld DEF HandedOver
<1> QED
  BY <1>1, <1>2, <1>3, <1>4, NothingHeld, Exchanged

\* What allocate_memory returns for an array: the last block is its own, the others
\* are for copies of its strings.
LEMMA NewParts ==
    ASSUME NEW m \in Nat, NEW new \in A!New(m + 1)
    PROVE  /\ new \in Seq(A!String) /\ Len(new) = m + 1
           /\ A!Front(new) \in Seq(A!String) /\ A!Once(A!Front(new))
           /\ A!Last(new) \in A!String /\ A!Last(new) \notin A!ToSet(A!Front(new))
           /\ A!ToSet(new) = A!ToSet(A!Front(new)) \cup {A!Last(new)}
           /\ A!ToSet(new) \in SUBSET A!String /\ A!ToSet(new) \cap live = {}
<1>1. /\ new \in Seq(A!String) /\ Len(new) = m + 1
      /\ \A i \in 1 .. m + 1 : new[i] \in 1 .. MaxBlock /\ new[i] \notin live
      /\ \A i, j \in 1 .. m + 1 : new[i] = new[j] => i = j
  BY NewBlocks
<1>3. /\ A!Front(new) \in Seq(A!String) /\ Len(A!Front(new)) = m
      /\ \A i \in 1 .. m : A!Front(new)[i] = new[i]
  BY <1>1, SubSeqProperties, ElementOfSeq DEF A!Front
<1>4. A!Once(A!Front(new))
  BY <1>1, <1>3, OnceOf
<1>5. A!Last(new) = new[m + 1] /\ m + 1 \in 1 .. m + 1
  BY <1>1 DEF A!Last
<1>6. A!Last(new) \in A!String
  BY <1>1, <1>5, ElementOfSeq
<1>7. A!Last(new) \notin A!ToSet(A!Front(new))
  BY <1>1, <1>3, <1>5, Members
<1>8. A!ToSet(new) = A!ToSet(A!Front(new)) \cup {A!Last(new)}
  <2>1. \A x : x \in A!ToSet(new) <=> \E i \in 1 .. m + 1 : new[i] = x
    BY <1>1, Members
  <2>2. \A x : x \in A!ToSet(A!Front(new)) <=> \E i \in 1 .. m : new[i] = x
    BY <1>3, Members
  <2>3. \A i \in 1 .. m + 1 : i \in 1 .. m \/ i = m + 1
    OBVIOUS
  <2>4. 1 .. m \subseteq 1 .. m + 1
    OBVIOUS
  <2> QED
    BY <2>1, <2>2, <2>3, <2>4, <1>5
<1>9. A!ToSet(new) \in SUBSET A!String /\ A!ToSet(new) \cap live = {}
  BY <1>1, Members DEF A!String
<1> QED
  BY <1>1, <1>3, <1>4, <1>6, <1>7, <1>8, <1>9

LEMMA CopyAssigned ==
    ASSUME AInv, NEW a \in Name, NEW b \in Name, A!CopyAssign(a, b)
    PROVE  AInv'
<1>1. A!Size(b) \in Nat
  BY Holdings DEF A!Size
<1>2. PICK new \in A!New(A!Size(b) + 1) :
         /\ arrays' = [arrays EXCEPT ![a] = [values |-> A!Last(new), items |-> A!Front(new)]]
         /\ A!Change(A!ToSet(new), A!Contents(a))
  BY DEF A!CopyAssign
<1>3. vector' = vector
  BY DEF A!CopyAssign
<1>4. /\ A!Front(new) \in Seq(A!String) /\ A!Once(A!Front(new))
      /\ A!Last(new) \in A!String /\ A!Last(new) \notin A!ToSet(A!Front(new))
      /\ A!ToSet(new) = A!ToSet(A!Front(new)) \cup {A!Last(new)}
      /\ A!ToSet(new) \in SUBSET A!String /\ A!ToSet(new) \cap live = {}
  BY <1>1, NewParts
<1>5. /\ vector \in Seq(A!String) /\ A!Once(vector)
      /\ A!Contents(a) \cap A!ToSet(vector) \subseteq {0}
      /\ \A x : x # 0 /\ (x \in A!Contents(a) \/ x \in A!ToSet(vector)) => x \in live
  BY Holdings
<1>6. HandedOver(A!Contents(a) \cup A!ToSet(vector) \cup A!ToSet(new),
                 A!ToSet(A!Front(new)) \cup {A!Last(new)}, A!ToSet(vector), A!Contents(a))
  BY <1>4, <1>5 DEF HandedOver
<1> QED
  BY <1>2, <1>3, <1>4, <1>5, <1>6, Exchanged

LEMMA MovedToVector ==
    ASSUME AInv, NEW a \in Name, A!MoveToVector(a)
    PROVE  AInv'
<1>1. /\ arrays' = [arrays EXCEPT ![a] = [values |-> 0, items |-> <<>>]]
      /\ A!Change({}, {arrays[a].values} \cup A!ToSet(vector)) /\ vector' = A!Items(a)
  BY DEF A!MoveToVector, A!Empty
<1>2. /\ A!Items(a) \in Seq(A!String) /\ A!Once(A!Items(a))
      /\ arrays[a].values \in A!ToSet(A!Items(a)) => arrays[a].values = 0
      /\ A!Contents(a) \cap A!ToSet(vector) \subseteq {0}
  BY Holdings
<1>3. 0 \in A!String
  BY BlocksAreNumbers DEF A!String
<1>4. A!Contents(a) = A!ToSet(A!Items(a)) \cup {arrays[a].values}
  BY DEF A!Contents
<1>5. HandedOver(A!Contents(a) \cup A!ToSet(vector) \cup {}, A!ToSet(<<>>) \cup {0},
                 A!ToSet(A!Items(a)), {arrays[a].values} \cup A!ToSet(vector))
  BY <1>2, <1>4, NothingHeld DEF HandedOver
<1> QED
  BY <1>1, <1>2, <1>3, <1>5, NothingHeld, Exchanged

LEMMA CopiedToVector ==
    ASSUME AInv, NEW a \in Name, A!ToVector(a)
    PROVE  AInv'
<1>1. A!Size(a) \in Nat
  BY Holdings DEF A!Size
<1>2. PICK new \in A!New(A!Size(a)) :
         vector' = new /\ A!Change(A!ToSet(new), A!ToSet(vector)) /\ UNCHANGED arrays
  BY DEF A!ToVector
<1> DEFINE v == arrays[a].values
           s == A!Items(a)
<1>3. arrays' = [arrays EXCEPT ![a] = [values |-> v, items |-> s]]
  BY <1>2 DEF AInv, A!TypeOK, A!Items
<1>4. /\ v \in A!String /\ s \in Seq(A!String) /\ A!Once(s)
      /\ v \in A!ToSet(s) => v = 0
      /\ A!Contents(a) \cap A!ToSet(vector) \subseteq {0}
      /\ \A x : x # 0 /\ (x \in A!Contents(a) \/ x \in A!ToSet(vector)) => x \in live
  BY Holdings
<1>5. A!Contents(a) = A!ToSet(s) \cup {v}
  BY DEF A!Contents
<1> HIDE DEF v, s
<1>6. /\ new \in Seq(A!String) /\ Len(new) = A!Size(a)
      /\ \A i \in 1 .. A!Size(a) : new[i] \in 1 .. MaxBlock /\ new[i] \notin live
      /\ \A i, j \in 1 .. A!Size(a) : new[i] = new[j] => i = j
  BY <1>1, NewBlocks
<1>7. A!Once(new)
  BY <1>6, OnceOf
<1>8. A!ToSet(new) \in SUBSET A!String /\ A!ToSet(new) \cap live = {}
  BY <1>6, Members DEF A!String
<1>9. HandedOver(A!Contents(a) \cup A!ToSet(vector) \cup A!ToSet(new), A!ToSet(s) \cup {v},
                 A!ToSet(new), A!ToSet(vector))
  BY <1>4, <1>5, <1>8 DEF HandedOver
<1> QED
  BY <1>2, <1>3, <1>4, <1>6, <1>7, <1>8, <1>9, Exchanged

\* A single new block.
LEMMA NewBlock ==
    ASSUME NEW new \in A!New(1)
    PROVE  new[1] \in A!String /\ new[1] # 0 /\ new[1] \notin live
  BY NewBlocks DEF A!String

LEMMA TakenFromVector ==
    ASSUME AInv, NEW a \in Name, A!FromVector(a)
    PROVE  AInv'
<1>1. PICK new \in A!New(1) :
         /\ arrays' = [arrays EXCEPT ![a] = [values |-> new[1], items |-> vector]]
         /\ vector' = <<>> /\ A!Change({new[1]}, A!Contents(a))
  BY DEF A!FromVector
<1>2. new[1] \in A!String /\ new[1] # 0 /\ new[1] \notin live
  BY NewBlock
<1>3. /\ vector \in Seq(A!String) /\ A!Once(vector)
      /\ A!Contents(a) \cap A!ToSet(vector) \subseteq {0}
      /\ \A x : x # 0 /\ (x \in A!Contents(a) \/ x \in A!ToSet(vector)) => x \in live
  BY Holdings
<1>4. {new[1]} \in SUBSET A!String /\ {new[1]} \cap live = {}
  BY <1>2
<1>5. HandedOver(A!Contents(a) \cup A!ToSet(vector) \cup {new[1]},
                 A!ToSet(vector) \cup {new[1]}, A!ToSet(<<>>), A!Contents(a))
  BY <1>2, <1>3, NothingHeld DEF HandedOver
<1>6. new[1] \in A!ToSet(vector) => new[1] = 0
  BY <1>2, <1>3
<1> QED
  BY <1>1, <1>2, <1>3, <1>4, <1>5, <1>6, NothingHeld, Exchanged

\* at(i) = string: the new string's block comes in place of the old one's.
LEMMA Replaced ==
    ASSUME AInv, NEW a \in Name, A!Replace(a)
    PROVE  AInv'
<1>1. PICK i \in DOMAIN A!Items(a), new \in A!New(1) :
         /\ arrays' = [arrays EXCEPT ![a].items[i] = new[1]]
         /\ A!Change({new[1]}, {A!Items(a)[i]})
  BY DEF A!Replace
<1>2. vector' = vector
  BY DEF A!Replace
<1>3. new[1] \in A!String /\ new[1] # 0 /\ new[1] \notin live
  BY NewBlock
<1> DEFINE v == arrays[a].values
           s == [A!Items(a) EXCEPT ![i] = new[1]]
<1>4. arrays' = [arrays EXCEPT ![a] = [values |-> v, items |-> s]]
  <2>1. [arrays EXCEPT ![a].items[i] = new[1]] = [arrays EXCEPT ![a].items = s]
    BY DEF A!Items
  <2> QED
    BY <1>1, <2>1, ItemsSet DEF AInv
<1>5. /\ A!Items(a) \in Seq(A!String) /\ i \in 1 .. Len(A!Items(a)) /\ A!Once(A!Items(a))
      /\ v \in A!String
      /\ v \in A!ToSet(A!Items(a)) => v = 0
      /\ vector \in Seq(A!String) /\ A!Once(vector)
      /\ A!Contents(a) \cap A!ToSet(vector) \subseteq {0}
      /\ \A x : x # 0 /\ (x \in A!Contents(a) \/ x \in A!ToSet(vector)) => x \in live
  BY Holdings, LenProperties
<1>6. /\ s \in Seq(A!String) /\ Len(s) = Len(A!Items(a))
      /\ \A j \in 1 .. Len(s) : s[j] = IF j = i THEN new[1] ELSE A!Items(a)[j]
  BY <1>3, <1>5, ExceptSeq
<1>7. A!Contents(a) = A!ToSet(A!Items(a)) \cup {v}
  BY DEF A!Contents
<1> HIDE DEF v, s
<1>8. \A x : x \in A!ToSet(A!Items(a)) <=> \E j \in 1 .. Len(s) : A!Items(a)[j] = x
  BY <1>5, <1>6, Members
<1>9. \A x : x \in A!ToSet(s) <=> \E j \in 1 .. Len(s) : s[j] = x
  BY <1>6, Members
<1>10. A!ToSet(s) \subseteq A!ToSet(A!Items(a)) \cup {new[1]}
  BY <1>6, <1>8, <1>9
<1>11. A!ToSet(A!Items(a)) \subseteq A!ToSet(s) \cup {A!Items(a)[i]}
  BY <1>6, <1>8, <1>9
<1>12. new[1] \notin A!Contents(a) /\ new[1] \in A!ToSet(s)
       /\ A!Items(a)[i] \in A!ToSet(A!Items(a))
  BY <1>3, <1>5, <1>6, <1>8, <1>9
<1>13. A!Once(s)
  <2>1. \A j \in 1 .. Len(s) : A!Items(a)[j] # new[1]
    BY <1>7, <1>8, <1>12
  <2> QED
    BY <1>5, <1>6, <2>1, OnceOf
<1>14. v \in A!ToSet(s) => v = 0
  BY <1>5, <1>7, <1>10, <1>12
<1>15. A!Items(a)[i] \in A!ToSet(s) => A!Items(a)[i] = 0
  <2> SUFFICES ASSUME NEW j \in 1 .. Len(s), s[j] = A!Items(a)[i]
               PROVE  A!Items(a)[i] = 0
    BY <1>9
  <2>1. j # i
    BY <1>6, <1>7, <1>12
  <2>2. A!Items(a)[j] = A!Items(a)[i]
    BY <1>6, <2>1
  <2> QED
    BY <1>5, <1>6, <2>1, <2>2, OnceOf
<1>16. HandedOver(A!Contents(a) \cup A!ToSet(vector) \cup {new[1]}, A!ToSet(s) \cup {v},
                  A!ToSet(vector), {A!Items(a)[i]})
  BY <1>3, <1>5, <1>7, <1>10, <1>11, <1>12, <1>15 DEF HandedOver
<1>17. {new[1]} \in SUBSET A!String /\ {new[1]} \cap live = {}
  BY <1>3
<1> QED
  BY <1>1, <1>2, <1>4, <1>5, <1>6, <1>13, <1>14, <1>16, <1>17, Exchanged

\* operator=(array&&): the target has what the source had, the source nothing.
LEMMA MoveAssigned ==
    ASSUME AInv, NEW a \in Name, NEW b \in Name, A!MoveAssign(a, b)
    PROVE  AInv'
<1>1. /\ a # b /\ vector' = vector
      /\ arrays' = [arrays EXCEPT ![a] = arrays[b], ![b] = [values |-> 0, items |-> <<>>]]
      /\ live' = (live \ A!Contents(a)) \ {0}
  BY DEF A!MoveAssign, A!Empty, A!Change
<1>2. 0 \in A!String
  BY BlocksAreNumbers DEF A!String
<1>3. [values |-> 0, items |-> <<>>] \in [values : A!String, items : Seq(A!String)]
  BY <1>2, NothingHeld
<1>4. /\ arrays' \in [Name -> [values : A!String, items : Seq(A!String)]]
      /\ arrays'[a] = arrays[b] /\ arrays'[b] = [values |-> 0, items |-> <<>>]
      /\ \A c \in Name : c # a /\ c # b => arrays'[c] = arrays[c]
  BY <1>1, <1>3 DEF AInv, A!TypeOK, A!String
<1>5. /\ A!Contents(a)' = A!Contents(b) /\ A!Contents(b)' = {0}
      /\ A!Items(a)' = A!Items(b) /\ A!Items(b)' = <<>>
      /\ \A c \in Name : c # a /\ c # b => /\ A!Contents(c)' = A!Contents(c)
                                           /\ A!Items(c)' = A!Items(c)
  BY <1>4, NothingHeld DEF A!Contents, A!Items, A!ToSet
<1>6. \A c \in Name : /\ A!Once(A!Items(c)')
                      /\ arrays'[c].values \in A!ToSet(A!Items(c)') => arrays'[c].values = 0
  <2> SUFFICES ASSUME NEW c \in Name
               PROVE  /\ A!Once(A!Items(c)')
                      /\ arrays'[c].values \in A!ToSet(A!Items(c)') => arrays'[c].values = 0
    OBVIOUS
  <2>1. CASE c = a
    BY <1>4, <1>5, <2>1, Holdings
  <2>2. CASE c = b
    BY <1>4, <1>5, <2>2, NothingHeld
  <2>3. CASE c # a /\ c # b
    <3>1. arrays'[c] = arrays[c] /\ A!Items(c)' = A!Items(c)
      BY <1>4, <1>5, <2>3
    <3>2. /\ A!Once(A!Items(c))
          /\ arrays[c].values \in A!ToSet(A!Items(c)) => arrays[c].values = 0
      BY Holdings
    <3> QED
      BY <3>1, <3>2
  <2> QED
    BY <2>1, <2>2, <2>3
<1>7. \A c, d \in Name : c # d => A!Contents(c)' \cap A!Contents(d)' \subseteq {0}
  <2> SUFFICES ASSUME NEW c \in Name, NEW d \in Name, c # d
               PROVE  A!Contents(c)' \cap A!Contents(d)' \subseteq {0}
    OBVIOUS
  <2>1. CASE c = b \/ d = b
    BY <1>5, <2>1
  <2>2. CASE c = a /\ d # b
    BY <1>5, <2>2, Holdings
  <2>3. CASE d = a /\ c # b
    BY <1>5, <2>3, Holdings
  <2>4. CASE c # a /\ c # b /\ d # a /\ d # b
    BY <1>5, <2>4, Holdings
  <2> QED
    BY <2>1, <2>2, <2>3, <2>4
<1>8. \A c \in Name : A!Contents(c)' \cap A!ToSet(vector') \subseteq {0}
  BY <1>1, <1>5, Holdings
<1>9. ASSUME NEW x, x # 0
      PROVE  x \in live' <=> \/ \E c \in Name : x \in A!Contents(c)'
                             \/ x \in A!ToSet(vector')
  <2>1. x \in live' <=> x \in live /\ x \notin A!Contents(a)
    BY <1>1, <1>9
  <2>2. x \in live <=> \/ \E c \in Name : x \in A!Contents(c)
                       \/ x \in A!ToSet(vector)
    BY <1>9, Holdings
  <2>3. (\E c \in Name : x \in A!Contents(c)')
           <=> \E c \in Name : c # a /\ x \in A!Contents(c)
    <3>1. ASSUME NEW c \in Name, x \in A!Contents(c)'
          PROVE  \E d \in Name : d # a /\ x \in A!Contents(d)
      BY <1>1, <1>5, <1>9, <3>1
    <3>2. ASSUME NEW c \in Name, c # a, x \in A!Contents(c)
          PROVE  \E d \in Name : x \in A!Contents(d)'
      <4>1. CASE c = b
        BY <1>5, <3>2, <4>1
      <4>2. CASE c # b
        BY <1>5, <3>2, <4>2
      <4> QED
        BY <4>1, <4>2
    <3> QED
      BY <3>1, <3>2
  <2>4. \A c \in Name : c # a /\ x \in A!Contents(c) => x \notin A!Contents(a)
    BY <1>9, Holdings
  <2>5. x \in A!ToSet(vector) => x \notin A!Contents(a)
    BY <1>9, Holdings
  <2> QED
    BY <1>1, <2>1, <2>2, <2>3, <2>4, <2>5
<1>10. 0 \notin live' /\ live' \subseteq 1 .. MaxBlock
  BY <1>1 DEF AInv, A!TypeOK
<1>11. vector' \in Seq(A!String) /\ A!Once(vector')
  BY <1>1, Holdings
<1> QED
  BY <1>4, <1>6, <1>7, <1>8, <1>9, <1>10, <1>11, Reassembled

\* The items of a sequence, one that is new or none, and new ones.
LEMMA Longer ==
    ASSUME NEW s \in Seq(A!String), NEW first \in A!String, NEW copies \in Seq(A!String),
           A!Once(s), A!Once(copies),
           first # 0 => first \notin A!ToSet(s) /\ first \notin A!ToSet(copies),
           A!ToSet(s) \cap A!ToSet(copies) \subseteq {0}
    PROVE  /\ s \o <<first>> \o copies \in Seq(A!String)
           /\ A!Once(s \o <<first>> \o copies)
           /\ A!ToSet(s \o <<first>> \o copies) = A!ToSet(s) \cup {first} \cup A!ToSet(copies)
<1> DEFINE k == Len(s)
           m == Len(copies)
           u == s \o <<first>>
           t == u \o copies
<1>1. /\ k \in Nat /\ m \in Nat
      /\ <<first>> \in Seq(A!String) /\ Len(<<first>>) = 1 /\ <<first>>[1] = first
  BY LenProperties
<1>2. /\ u \in Seq(A!String) /\ Len(u) = k + 1
      /\ \A i \in 1 .. k + 1 : u[i] = IF i <= k THEN s[i] ELSE <<first>>[i - k]
  BY <1>1, ConcatProperties
<1>3. \A i \in 1 .. k + 1 : u[i] = IF i <= k THEN s[i] ELSE first
  <2> SUFFICES ASSUME NEW i \in 1 .. k + 1 PROVE u[i] = IF i <= k THEN s[i] ELSE first
    OBVIOUS
  <2>1. CASE i <= k
    BY <1>2, <2>1
  <2>2. CASE ~(i <= k)
    BY <1>1, <1>2, <2>2
  <2> QED
    BY <2>1, <2>2
<1> HIDE DEF u
<1>4. /\ t \in Seq(A!String) /\ Len(t) = k + 1 + m
      /\ \A i \in 1 .. k + 1 + m : t[i] = IF i <= k + 1 THEN u[i] ELSE copies[i - (k + 1)]
  <2>1. /\ t \in Seq(A!String) /\ Len(t) = Len(u) + Len(copies)
        /\ \A i \in 1 .. Len(u) + Len(copies) :
              t[i] = IF i <= Len(u) THEN u[i] ELSE copies[i - Len(u)]
    BY <1>2, ConcatProperties
  <2> HIDE DEF t
  <2>2. Len(u) = k + 1
    BY <1>2
  <2> QED
    BY <2>1, <2>2
<1>5. \A i \in 1 .. k : t[i] = s[i]
  BY <1>1, <1>3, <1>4
<1>6. t[k + 1] = first
  BY <1>1, <1>3, <1>4
<1>7. \A i \in 1 .. m : t[k + 1 + i] = copies[i]
  BY <1>1, <1>4
<1> HIDE DEF t, k, m
<1>8. \A i \in 1 .. k + 1 + m : \/ i \in 1 .. k
                                \/ i = k + 1
                                \/ \E j \in 1 .. m : i = k + 1 + j
  <2> SUFFICES ASSUME NEW i \in 1 .. k + 1 + m, i \notin 1 .. k, i # k + 1
               PROVE  \E j \in 1 .. m : i = k + 1 + j
    OBVIOUS
  <2>1. i - (k + 1) \in 1 .. m /\ i = k + 1 + (i - (k + 1))
    BY <1>1
  <2> QED
    BY <2>1
<1>9. \A x : x \in A!ToSet(t) <=> \E i \in 1 .. k + 1 + m : t[i] = x
  BY <1>4, Members
<1>10. /\ \A x : x \in A!ToSet(s) <=> \E i \in 1 .. k : s[i] = x
       /\ \A x : x \in A!ToSet(copies) <=> \E i \in 1 .. m : copies[i] = x
  BY Members DEF k, m
<1>11. A!ToSet(t) \subseteq A!ToSet(s) \cup {first} \cup A!ToSet(copies)
  BY <1>5, <1>6, <1>7, <1>8, <1>9, <1>10
<1>12. A!ToSet(s) \cup {first} \cup A!ToSet(copies) \subseteq A!ToSet(t)
  <2>1. /\ \A i \in 1 .. k : i \in 1 .. k + 1 + m
        /\ k + 1 \in 1 .. k + 1 + m
        /\ \A i \in 1 .. m : k + 1 + i \in 1 .. k + 1 + m
    BY <1>1
  <2> QED
    BY <1>5, <1>6, <1>7, <1>9, <1>10, <2>1
<1>13. \A i, j \in 1 .. k + 1 + m : t[i] = t[j] /\ i # j => t[i] = 0
  <2> SUFFICES ASSUME NEW i \in 1 .. k + 1 + m, NEW j \in 1 .. k + 1 + m,
                      t[i] = t[j], i # j, t[i] # 0
               PROVE  FALSE
    OBVIOUS
  <2>1. \A h, l \in 1 .. k : s[h] = s[l] /\ h # l => s[h] = 0
    BY OnceOf DEF k
  <2>2. \A h, l \in 1 .. m : copies[h] = copies[l] /\ h # l => copies[h] = 0
    BY OnceOf DEF m
  <2>3. CASE i \in 1 .. k /\ j \in 1 .. k
    BY <1>5, <2>1, <2>3
  <2>4. CASE (i \in 1 .. k /\ j = k + 1) \/ (j \in 1 .. k /\ i = k + 1)
    BY <1>5, <1>6, <1>10, <2>4
  <2>5. ASSUME NEW l \in 1 .. m, (i = k + 1 + l /\ j \in 1 .. k) \/ (j = k + 1 + l /\ i \in 1 .. k)
        PROVE  FALSE
    <3>1. copies[l] # 0 /\ copies[l] \in A!ToSet(s) /\ copies[l] \in A!ToSet(copies)
      BY <1>5, <1>7, <1>10, <2>5
    <3> QED
      BY <3>1
  <2>6. ASSUME NEW l \in 1 .. m, (i = k + 1 + l /\ j = k + 1) \/ (j = k + 1 + l /\ i = k + 1)
        PROVE  FALSE
    BY <1>6, <1>7, <1>10, <2>6
  <2>7. ASSUME NEW h \in 1 .. m, NEW l \in 1 .. m, i = k + 1 + h, j = k + 1 + l
        PROVE  FALSE
    BY <1>7, <2>2, <2>7
  <2> QED
    BY <1>8, <2>3, <2>4, <2>5, <2>6, <2>7
<1>14. A!Once(t)
  BY <1>4, <1>13, OnceOf
<1> QED
  BY <1>4, <1>11, <1>12, <1>14 DEF t, u

\* resize and push_back: the items move into a new block, the argument or nothing
\* follows, and then copies of it.
LEMMA Grown ==
    ASSUME AInv, NEW a \in Name, A!Grow(a)
    PROVE  AInv'
<1> DEFINE k == A!Size(a)
           s == A!Items(a)
           v == arrays[a].values
<1>1. PICK n \in k + 1 .. MaxLength : \E new \in A!New(n - k + 1) : \E first \in {0, new[1]} :
         /\ arrays' = [arrays EXCEPT ![a] = [values |-> A!Last(new),
                          items |-> arrays[a].items \o <<first>> \o SubSeq(new, 2, n - k)]]
         /\ A!Change({first, A!Last(new)} \cup A!ToSet(SubSeq(new, 2, n - k)), {v})
  BY DEF A!Grow, A!Argument
<1>20. PICK new \in A!New(n - k + 1) : \E first \in {0, new[1]} :
         /\ arrays' = [arrays EXCEPT ![a] = [values |-> A!Last(new),
                          items |-> arrays[a].items \o <<first>> \o SubSeq(new, 2, n - k)]]
         /\ A!Change({first, A!Last(new)} \cup A!ToSet(SubSeq(new, 2, n - k)), {v})
  BY <1>1
<1>2. PICK first \in {0, new[1]} :
         /\ arrays' = [arrays EXCEPT ![a] = [values |-> A!Last(new),
                          items |-> arrays[a].items \o <<first>> \o SubSeq(new, 2, n - k)]]
         /\ A!Change({first, A!Last(new)} \cup A!ToSet(SubSeq(new, 2, n - k)), {v})
  BY <1>20
<1>3. vector' = vector
  BY DEF A!Grow
<1>4. /\ v \in A!String /\ s \in Seq(A!String) /\ A!Once(s)
      /\ v \in A!ToSet(s) => v = 0
      /\ vector \in Seq(A!String) /\ A!Once(vector)
      /\ A!Contents(a) \cap A!ToSet(vector) \subseteq {0}
      /\ \A x : x # 0 /\ (x \in A!Contents(a) \/ x \in A!ToSet(vector)) => x \in live
  BY Holdings
<1>5. k \in Nat
  BY <1>4 DEF A!Size
<1> DEFINE m == n - k
           copies == SubSeq(new, 2, m)
           last == A!Last(new)
           t == s \o <<first>> \o copies
<1>6. /\ arrays' = [arrays EXCEPT ![a] = [values |-> last, items |-> t]]
      /\ A!Change({first, last} \cup A!ToSet(copies), {v})
  BY <1>2 DEF A!Items
<1>7. m \in Nat /\ m >= 1
  <2>1. n \in Int /\ n >= k + 1
    BY <1>5, BlocksAreNumbers
  <2> QED
    BY <1>5, <2>1
<1>8. A!Contents(a) = A!ToSet(s) \cup {v}
  BY DEF A!Contents
<1> HIDE DEF k, s, v, m
<1>9. /\ new \in Seq(A!String) /\ Len(new) = m + 1
      /\ \A i \in 1 .. m + 1 : new[i] \in 1 .. MaxBlock /\ new[i] \notin live
      /\ \A i, j \in 1 .. m + 1 : new[i] = new[j] => i = j
  <2>1. m + 1 \in Nat /\ new \in A!New(m + 1)
    BY <1>2, <1>7 DEF m
  <2> QED
    BY <2>1, NewBlocks
<1>10. /\ copies \in Seq(A!String) /\ Len(copies) = m - 1
       /\ \A i \in 1 .. m - 1 : copies[i] = new[i + 1]
  <2>1. SubSeq(new, 2, m) \in Seq(A!String)
    BY <1>7, <1>9, SubSeqProperties
  <2>2. Len(SubSeq(new, 2, m)) = m - 1
    BY <1>7, <1>9, SubSeqProperties
  <2>3. \A i \in 1 .. m - 1 : SubSeq(new, 2, m)[i] = new[i + 1]
    BY <1>7, <1>9, <2>2, SubSeqProperties
  <2> QED
    BY <2>1, <2>2, <2>3
<1>11. last = new[m + 1]
  BY <1>9 DEF A!Last
<1> HIDE DEF copies, last
<1>12. \A x : x \in A!ToSet(copies) <=> \E i \in 1 .. m - 1 : copies[i] = x
  BY <1>10, Members
<1>13. /\ \A x \in A!ToSet(copies) : x \in A!String /\ x # 0 /\ x \notin live
       /\ first \notin A!ToSet(copies) \/ first = 0
       /\ last \notin A!ToSet(copies)
  <2>1. \A i \in 1 .. m - 1 : i + 1 \in 1 .. m + 1 /\ i + 1 # 1 /\ i + 1 # m + 1
    BY <1>7
  <2>2. 1 \in 1 .. m + 1 /\ m + 1 \in 1 .. m + 1
    BY <1>7
  <2>3. \A x \in 1 .. MaxBlock : x \in A!String /\ x # 0
    BY BlocksAreNumbers DEF A!String
  <2> QED
    BY <1>2, <1>9, <1>10, <1>11, <1>12, <2>1, <2>2, <2>3
<1>14. /\ last \in A!String /\ last # 0 /\ last \notin live
       /\ first \in A!String /\ first # last /\ first \notin live
  <2>1. 1 \in 1 .. m + 1 /\ m + 1 \in 1 .. m + 1 /\ 1 # m + 1
    BY <1>7
  <2>2. \A x \in 1 .. MaxBlock : x \in A!String /\ x # 0
    BY BlocksAreNumbers DEF A!String
  <2>3. 0 \in A!String /\ 0 \notin live
    BY BlocksAreNumbers, Holdings DEF A!String
  <2>4. /\ new[m + 1] \in A!String /\ new[m + 1] # 0 /\ new[m + 1] \notin live
        /\ new[1] \in A!String /\ new[1] # 0 /\ new[1] \notin live
        /\ new[1] # new[m + 1]
    BY <1>9, <2>1, <2>2
  <2> QED
    BY <1>2, <1>11, <2>3, <2>4
<1>15. A!Once(copies)
  <2>1. \A i, j \in 1 .. m - 1 : copies[i] = copies[j] => i = j
    <3>1. ASSUME NEW i \in 1 .. m - 1, NEW j \in 1 .. m - 1, copies[i] = copies[j]
          PROVE  i = j
      <4>1. i + 1 \in 1 .. m + 1 /\ j + 1 \in 1 .. m + 1 /\ new[i + 1] = new[j + 1]
        BY <1>7, <1>10, <3>1
      <4>2. i + 1 = j + 1
        BY <1>9, <4>1
      <4> QED
        BY <4>2
    <3> QED
      BY <3>1
  <2> QED
    BY <1>10, <2>1, OnceOf
<1>16. /\ t \in Seq(A!String) /\ A!Once(t)
       /\ A!ToSet(t) = A!ToSet(s) \cup {first} \cup A!ToSet(copies)
  <2>1. first # 0 => first \notin A!ToSet(s) /\ first \notin A!ToSet(copies)
    BY <1>4, <1>8, <1>13, <1>14
  <2>2. A!ToSet(s) \cap A!ToSet(copies) \subseteq {0}
    BY <1>4, <1>8, <1>13
  <2> QED
    BY <1>4, <1>10, <1>14, <1>15, <2>1, <2>2, Longer
<1> HIDE DEF t
<1>17. last \in A!ToSet(t) => last = 0
  BY <1>4, <1>8, <1>13, <1>14, <1>16
<1> DEFINE allocated == {first, last} \cup A!ToSet(copies)
<1>18. allocated \in SUBSET A!String /\ allocated \cap live = {}
  BY <1>13, <1>14
<1>19. HandedOver(A!Contents(a) \cup A!ToSet(vector) \cup allocated, A!ToSet(t) \cup {last},
                  A!ToSet(vector), {v})
  <2>1. v # 0 => v \notin A!ToSet(t) \cup {last} /\ v \notin A!ToSet(vector)
    BY <1>4, <1>8, <1>13, <1>14, <1>16
  <2>2. (A!ToSet(t) \cup {last}) \cap A!ToSet(vector) \subseteq {0}
    BY <1>4, <1>8, <1>13, <1>14, <1>16
  <2> QED
    BY <1>8, <1>16, <2>1, <2>2 DEF HandedOver
<1> QED
  BY <1>3, <1>4, <1>6, <1>14, <1>16, <1>17, <1>18, <1>19, Exchanged

LEMMA ArraysInitially == A!Init => AInv
<1> SUFFICES ASSUME A!Init PROVE AInv
  OBVIOUS
<1>1. 0 \in A!String
  BY BlocksAreNumbers DEF A!String
<1>2. arrays = [a \in Name |-> [values |-> 0, items |-> <<>>]] /\ vector = <<>> /\ live = {}
  BY DEF A!Init, A!Empty
<1>3. A!TypeOK
  BY <1>1, <1>2, NothingHeld DEF A!TypeOK, A!String
<1>4. \A a \in Name : arrays[a].values = 0 /\ A!Items(a) = <<>> /\ A!Contents(a) = {0}
  BY <1>2, NothingHeld DEF A!Items, A!Contents
<1>5. live = (A!ToSet(vector) \cup UNION {A!Contents(a) : a \in Name}) \ {0}
  BY <1>2, <1>4, NothingHeld
<1>6. A!BlocksOwned
  BY <1>2, <1>4, <1>5, NothingHeld DEF A!BlocksOwned
<1> QED
  BY <1>3, <1>6 DEF AInv, BlocksOwned

LEMMA ArraysStep == AInv /\ [A!Next]_(A!vars) => AInv'
<1> SUFFICES ASSUME AInv, [A!Next]_(A!vars) PROVE AInv'
  OBVIOUS
<1>1. CASE UNCHANGED A!vars
  <2>1. arrays' = arrays /\ vector' = vector /\ live' = live
    BY <1>1 DEF A!vars
  <2>2. \A a \in Name : A!Items(a)' = A!Items(a) /\ A!Contents(a)' = A!Contents(a)
    BY <2>1 DEF A!Items, A!Contents, A!ToSet
  <2>3. /\ arrays \in [Name -> [values : A!String, items : Seq(A!String)]]
        /\ live \subseteq 1 .. MaxBlock
    BY DEF AInv, A!TypeOK, A!String
  <2> QED
    BY <2>1, <2>2, <2>3, Holdings, Reassembled
<1>2. ASSUME NEW a \in Name,
             \/ A!PopBack(a) \/ A!Clear(a) \/ A!Shrink(a) \/ A!Grow(a) \/ A!Replace(a)
             \/ A!MoveToVector(a) \/ A!ToVector(a) \/ A!FromVector(a)
             \/ \E b \in Name : A!CopyAssign(a, b) \/ A!MoveAssign(a, b)
      PROVE  AInv'
  BY <1>2, PoppedBack, Cleared, Shrunk, Grown, Replaced, MovedToVector, CopiedToVector,
     TakenFromVector, CopyAssigned, MoveAssigned
<1> QED
  BY <1>1, <1>2 DEF A!Next

\* scripting::array: in every sequence of operations each block of the game's memory has
\* one owner, and nothing refers to a block that was freed, however many arrays there are
\* and however long they become (scripting.hpp:59-305).
THEOREM BlocksHaveOneOwner == A!Spec => []BlocksOwned
<1>1. AInv => BlocksOwned
  BY DEF AInv
<1> QED
  BY <1>1, ArraysInitially, ArraysStep, PTL DEF A!Spec

-----------------------------------------------------------------------------
(* Detours *)

\* What holds at a place that no use has broken.
Sound(p) ==
    /\ bytes[p] = "game" <=> hook[p] # "enabled"
    /\ bytes[p] # "torn"
    /\ hook[p] # D!None <=> \E d \in Detour \ refused : place[d] = p
    /\ \A d, e \in Detour \ refused : place[d] = p /\ place[e] = p => d = e

\* Saved bytes, and a create that failed, belong to an object that has a place,
\* and so does every hook.
Held ==
    /\ \A d \in Detour : moved[d] \/ d \in refused => place[d] # D!None
    /\ \A p \in Place : hook[p] # D!None => \E d \in Detour : place[d] = p

DInv == D!TypeOK /\ Held /\ \A p \in Place \ harmed : Sound(p)

LEMMA SoundIsRestored == DInv => PlacesRestored
BY DEF DInv, Held, Sound, PlacesRestored, D!PlacesRestored

LEMMA NoneIsNoPlace == D!None \notin Place
  BY PlaceAssumption DEF D!PlaceAssumption

LEMMA DetoursInitially == D!Init => DInv
<1> SUFFICES ASSUME D!Init PROVE DInv
  OBVIOUS
<1>1. D!TypeOK
  BY DEF D!Init, D!TypeOK, D!None
<1>2. Held
  BY DEF D!Init, Held
<1>3. \A p \in Place : Sound(p)
  BY NoneIsNoPlace DEF D!Init, Sound, D!None
<1> QED
  BY <1>1, <1>2, <1>3 DEF DInv

\* A hook that is given up, at a place where none of the three uses broke anything,
\* leaves the game's code.
LEMMA GivenUp ==
    ASSUME DInv, NEW d \in Detour, NEW p \in Place \ harmed,
           p \notin D!Tears(d, {p}), p \notin D!Rewrites(d), hook[p] = "enabled"
    PROVE  D!Restored(D!UnMoved(d, p)) = "game"
<1>1. bytes[p] \in {"jump", "moved"}
  BY DEF DInv, D!TypeOK, Sound
<1>2. bytes[p] = "moved" => moved[d]
  BY <1>1 DEF D!Tears
<1> QED
  BY <1>1, <1>2 DEF D!Restored, D!UnMoved

LEMMA DetourDestroyed ==
    ASSUME DInv, NEW d \in Detour, D!Destroy(d)
    PROVE  DInv'
<1>1. /\ place[d] # D!None
      /\ hook' = [p \in Place |-> IF p = place[d] THEN D!None ELSE hook[p]]
      /\ bytes' = [p \in Place |->
                    IF p # place[d] THEN bytes[p]
                    ELSE IF hook[p] = "enabled" THEN D!Restored(D!UnMoved(d, p))
                    ELSE D!UnMoved(d, p)]
      /\ place' = [place EXCEPT ![d] = D!None]
      /\ moved' = [moved EXCEPT ![d] = FALSE]
      /\ refused' = refused \ {d}
      /\ harmed' = harmed \cup D!Rewrites(d) \cup D!Tears(d, {place[d]}) \cup D!Robs(d)
  BY DEF D!Destroy, D!Clear
<1>2. place[d] \in Place
  BY <1>1 DEF DInv, D!TypeOK
<1>3. D!TypeOK'
  <2>1. /\ place' \in [Detour -> Place \cup {D!None}] /\ moved' \in [Detour -> BOOLEAN]
        /\ refused' \subseteq Detour
    BY <1>1 DEF DInv, D!TypeOK
  <2>2. hook' \in [Place -> {D!None, "disabled", "enabled"}]
    BY <1>1 DEF DInv, D!TypeOK
  <2>3. bytes' \in [Place -> {"game", "jump", "moved", "torn"}]
    BY <1>1 DEF DInv, D!TypeOK, D!Restored, D!UnMoved
  <2>4. harmed' \subseteq Place
    BY <1>1, <1>2 DEF DInv, D!TypeOK, D!Rewrites, D!Tears, D!Robs
  <2> QED
    BY <2>1, <2>2, <2>3, <2>4 DEF D!TypeOK
<1>4. /\ place'[d] = D!None /\ ~moved'[d] /\ d \notin refused'
      /\ \A e \in Detour : e # d => /\ place'[e] = place[e] /\ moved'[e] = moved[e]
                                    /\ e \in refused' <=> e \in refused
  BY <1>1 DEF DInv, D!TypeOK
<1>5. /\ hook'[place[d]] = D!None
      /\ \A p \in Place : p # place[d] => hook'[p] = hook[p] /\ bytes'[p] = bytes[p]
  BY <1>1, <1>2
<1>6. Held'
  <2>1. \A e \in Detour : moved'[e] \/ e \in refused' => place'[e] # D!None
    BY <1>4 DEF DInv, Held
  <2>2. ASSUME NEW p \in Place, hook'[p] # D!None
        PROVE  \E e \in Detour : place'[e] = p
    <3>1. p # place[d] /\ hook[p] # D!None
      BY <1>5, <2>2
    <3>2. PICK e \in Detour : place[e] = p
      BY <3>1 DEF DInv, Held
    <3> QED
      BY <1>4, <3>1, <3>2
  <2> QED
    BY <2>1, <2>2 DEF Held
<1>7. ASSUME NEW p \in Place \ harmed', p = place[d] PROVE Sound(p)'
  <2>1. p \in Place \ harmed /\ p \notin D!Rewrites(d) /\ p \notin D!Tears(d, {p}) /\ p \notin D!Robs(d)
    BY <1>1, <1>7
  <2>2. bytes'[p] = "game"
    <3>1. CASE hook[p] = "enabled"
      BY <1>1, <1>7, <2>1, <3>1, GivenUp
    <3>2. CASE hook[p] # "enabled"
      <4>1. bytes[p] = "game"
        BY <2>1, <3>2 DEF DInv, Sound
      <4>2. ~moved[d]
        BY <1>7, <2>1, <3>2 DEF D!Rewrites
      <4> QED
        BY <1>1, <1>7, <3>2, <4>1, <4>2 DEF D!UnMoved
    <3> QED
      BY <3>1, <3>2
  <2>3. \A e \in Detour \ refused' : place'[e] # p
    <3> SUFFICES ASSUME NEW e \in Detour \ refused', place'[e] = p PROVE FALSE
      OBVIOUS
    <3>1. e # d
      BY <1>1, <1>4, <1>7
    <3>2. e \notin refused /\ place[e] = p
      BY <1>4, <3>1
    <3> QED
      BY <1>7, <2>1, <3>1, <3>2 DEF D!Robs
  <2>4. hook'[p] = D!None
    BY <1>5, <1>7
  <2> QED
    BY <2>2, <2>3, <2>4 DEF Sound, D!None
<1>8. ASSUME NEW p \in Place \ harmed', p # place[d] PROVE Sound(p)'
  <2>1. Sound(p) /\ hook'[p] = hook[p] /\ bytes'[p] = bytes[p]
    BY <1>1, <1>5, <1>8 DEF DInv
  <2>2. \A e \in Detour : e \in Detour \ refused' /\ place'[e] = p
                          <=> e \in Detour \ refused /\ place[e] = p
    BY <1>4, <1>8, NoneIsNoPlace
  <2> QED
    BY <2>1, <2>2 DEF Sound
<1> QED
  BY <1>3, <1>6, <1>7, <1>8 DEF DInv

\* A step that gives no object another place.
LEMMA PlacesKept ==
    ASSUME DInv, UNCHANGED <<place, refused>>, D!TypeOK', harmed \subseteq harmed',
           \A e \in Detour : moved'[e] => place[e] # D!None,
           \A p \in Place : hook'[p] = D!None <=> hook[p] = D!None,
           \A p \in Place \ harmed' : /\ bytes'[p] = "game" <=> hook'[p] # "enabled"
                                      /\ bytes'[p] # "torn"
    PROVE  DInv'
<1>1. Held'
  BY DEF DInv, Held
<1>2. \A p \in Place \ harmed' : Sound(p)'
  BY DEF DInv, Sound
<1> QED
  BY <1>1, <1>2 DEF DInv

LEMMA DetourMoved ==
    ASSUME DInv, NEW d \in Detour, D!Move(d)
    PROVE  DInv'
<1>1. /\ place[d] # D!None /\ bytes[place[d]] = "jump"
      /\ bytes' = [bytes EXCEPT ![place[d]] = "moved"]
      /\ moved' = [moved EXCEPT ![d] = TRUE]
      /\ UNCHANGED <<place, hook, refused, harmed>>
  BY DEF D!Move
<1>2. D!TypeOK'
  BY <1>1 DEF DInv, D!TypeOK
<1>3. \A e \in Detour : moved'[e] => place[e] # D!None
  BY <1>1 DEF DInv, D!TypeOK, Held
<1>4. ASSUME NEW p \in Place \ harmed'
      PROVE  (bytes'[p] = "game" <=> hook'[p] # "enabled") /\ bytes'[p] # "torn"
  <2>1. /\ bytes[p] = "game" <=> hook[p] # "enabled"
        /\ bytes[p] # "torn"
    BY <1>1 DEF DInv, Sound
  <2>2. bytes'[p] = IF p = place[d] THEN "moved" ELSE bytes[p]
    BY <1>1 DEF DInv, D!TypeOK
  <2> QED
    BY <1>1, <2>1, <2>2
<1> QED
  BY <1>1, <1>2, <1>3, <1>4, PlacesKept

LEMMA DetourEnabled ==
    ASSUME DInv, NEW d \in Detour, D!Enable(d)
    PROVE  DInv'
<1>1. /\ hook' = [p \in Place |-> IF p \in D!Enabled(d) THEN "enabled" ELSE hook[p]]
      /\ bytes' = [p \in Place |-> IF p \notin D!Enabled(d) THEN bytes[p]
                                   ELSE IF moved[d] THEN "moved" ELSE "jump"]
      /\ UNCHANGED <<place, moved, refused, harmed>>
  BY DEF D!Enable
<1>2. D!TypeOK'
  BY <1>1 DEF DInv, D!TypeOK
<1>3. \A p \in D!Enabled(d) : hook[p] = "disabled"
  BY DEF D!Enabled
<1>4. \A p \in Place : hook'[p] = D!None <=> hook[p] = D!None
  BY <1>1, <1>3 DEF D!None
<1>5. ASSUME NEW p \in Place \ harmed'
      PROVE  (bytes'[p] = "game" <=> hook'[p] # "enabled") /\ bytes'[p] # "torn"
  BY <1>1 DEF DInv, Sound
<1>6. \A e \in Detour : moved'[e] => place[e] # D!None
  BY <1>1 DEF DInv, Held
<1> QED
  BY <1>1, <1>2, <1>4, <1>5, <1>6, PlacesKept

LEMMA DetourDisabled ==
    ASSUME DInv, NEW d \in Detour, D!Disable(d)
    PROVE  DInv'
<1>1. /\ hook' = [p \in Place |-> IF p \in D!Disabled(d) THEN "disabled" ELSE hook[p]]
      /\ bytes' = [p \in Place |->
                     IF p \in D!Disabled(d) THEN D!Restored(D!UnMoved(d, p))
                     ELSE IF p = place[d] THEN D!UnMoved(d, p)
                     ELSE bytes[p]]
      /\ harmed' = harmed \cup (IF place[d] = D!None THEN {} ELSE D!Rewrites(d))
                          \cup D!Tears(d, D!Meant(d))
      /\ UNCHANGED <<place, moved, refused>>
  BY DEF D!Disable
<1>2. /\ \A p \in Place : p \in D!Disabled(d) <=> p \in D!Meant(d) /\ hook[p] = "enabled"
      /\ D!Meant(d) \subseteq Place
  BY DEF D!Disabled, D!Meant, DInv, D!TypeOK
<1>3. D!TypeOK'
  <2>1. hook' \in [Place -> {D!None, "disabled", "enabled"}]
    BY <1>1 DEF DInv, D!TypeOK
  <2>2. bytes' \in [Place -> {"game", "jump", "moved", "torn"}]
    BY <1>1 DEF DInv, D!TypeOK, D!Restored, D!UnMoved
  <2>3. harmed' \subseteq Place
    BY <1>1, <1>2 DEF DInv, D!TypeOK, D!Rewrites, D!Tears
  <2> QED
    BY <1>1, <2>1, <2>2, <2>3 DEF DInv, D!TypeOK
<1>4. \A p \in Place : hook'[p] = D!None <=> hook[p] = D!None
  BY <1>1, <1>2 DEF D!None
<1>5. ASSUME NEW p \in Place \ harmed'
      PROVE  (bytes'[p] = "game" <=> hook'[p] # "enabled") /\ bytes'[p] # "torn"
  <2>1. /\ p \in Place \ harmed
        /\ bytes[p] = "game" <=> hook[p] # "enabled"
        /\ bytes[p] # "torn"
    BY <1>1 DEF DInv, Sound
  <2>2. p \notin D!Rewrites(d)
    BY <1>1, NoneIsNoPlace DEF D!Rewrites
  <2>3. CASE p \in D!Disabled(d)
    <3>1. p \notin D!Tears(d, {p})
      BY <1>1, <1>2, <2>3 DEF D!Tears
    <3>2. D!Restored(D!UnMoved(d, p)) = "game"
      BY <1>2, <2>1, <2>2, <2>3, <3>1, GivenUp
    <3> QED
      BY <1>1, <2>3, <3>2
  <2>4. CASE p \notin D!Disabled(d)
    <3>1. hook'[p] = hook[p]
      BY <1>1, <2>4
    <3>2. bytes'[p] = bytes[p]
      <4>1. CASE p # place[d]
        BY <1>1, <2>4, <4>1
      <4>2. CASE p = place[d]
        <5>1. hook[p] # "enabled"
          BY <1>2, <2>4, <4>2 DEF D!Meant
        <5>2. ~moved[d]
          BY <2>2, <4>2, <5>1 DEF D!Rewrites
        <5> QED
          BY <1>1, <2>4, <5>2 DEF D!UnMoved
      <4> QED
        BY <4>1, <4>2
    <3> QED
      BY <2>1, <3>1, <3>2
  <2> QED
    BY <2>3, <2>4
<1>6. \A e \in Detour : moved'[e] => place[e] # D!None
  BY <1>1 DEF DInv, Held
<1>7. harmed \subseteq harmed'
  BY <1>1
<1> QED
  BY <1>1, <1>3, <1>4, <1>5, <1>6, <1>7, PlacesKept

LEMMA DetourCreated ==
    ASSUME DInv, NEW d \in Detour, NEW p \in Place, D!Create(d, p)
    PROVE  DInv'
<1>1. /\ place[d] = D!None /\ hook[p] = D!None
      /\ place' = [place EXCEPT ![d] = p]
      /\ hook' = [hook EXCEPT ![p] = "enabled"]
      /\ bytes' = [bytes EXCEPT ![p] = "jump"]
      /\ UNCHANGED <<moved, refused, harmed>>
  BY DEF D!Create
<1>2. D!TypeOK'
  BY <1>1 DEF DInv, D!TypeOK
<1>3. /\ hook'[p] = "enabled" /\ bytes'[p] = "jump"
      /\ \A q \in Place : q # p => hook'[q] = hook[q] /\ bytes'[q] = bytes[q]
  BY <1>1 DEF DInv, D!TypeOK
<1>4. place'[d] = p /\ \A e \in Detour : e # d => place'[e] = place[e]
  BY <1>1 DEF DInv, D!TypeOK
<1>5. ~moved[d] /\ d \notin refused
  BY <1>1 DEF DInv, Held
<1>6. Held'
  <2>1. \A e \in Detour : moved'[e] \/ e \in refused' => place'[e] # D!None
    BY <1>1, <1>4, <1>5 DEF DInv, Held
  <2>2. ASSUME NEW q \in Place, hook'[q] # D!None
        PROVE  \E e \in Detour : place'[e] = q
    <3>1. CASE q = p
      BY <1>4, <3>1
    <3>2. CASE q # p
      <4>1. PICK e \in Detour : place[e] = q
        BY <1>3, <2>2, <3>2 DEF DInv, Held
      <4> QED
        BY <1>1, <1>4, <4>1, NoneIsNoPlace
    <3> QED
      BY <3>1, <3>2
  <2> QED
    BY <2>1, <2>2 DEF Held
<1>7. ASSUME NEW q \in Place \ harmed' PROVE Sound(q)'
  <2>1. Sound(q)
    BY <1>1 DEF DInv
  <2>2. CASE q = p
    <3>1. \A e \in Detour \ refused : place[e] # p
      BY <1>1, <2>1, <2>2 DEF Sound
    <3>2. \A e \in Detour \ refused' : place'[e] = p <=> e = d
      BY <1>1, <1>4, <3>1
    <3> QED
      BY <1>1, <1>3, <1>5, <2>2, <3>2 DEF Sound, D!None
  <2>3. CASE q # p
    <3>1. \A e \in Detour \ refused' : place'[e] = q <=> place[e] = q
      BY <1>1, <1>4, <2>3, NoneIsNoPlace
    <3> QED
      BY <1>1, <1>3, <2>1, <2>3, <3>1 DEF Sound
  <2> QED
    BY <2>2, <2>3
<1> QED
  BY <1>2, <1>6, <1>7 DEF DInv

LEMMA DetourRefused ==
    ASSUME DInv, NEW d \in Detour, NEW p \in Place, D!CreateRefused(d, p)
    PROVE  DInv'
<1>1. /\ place[d] = D!None
      /\ place' = [place EXCEPT ![d] = p]
      /\ refused' = refused \cup {d}
      /\ UNCHANGED <<moved, hook, bytes, harmed>>
  BY DEF D!CreateRefused
<1>2. D!TypeOK'
  BY <1>1 DEF DInv, D!TypeOK
<1>3. place'[d] = p /\ \A e \in Detour : e # d => place'[e] = place[e]
  BY <1>1 DEF DInv, D!TypeOK
<1>4. Held'
  <2>1. \A e \in Detour : moved'[e] \/ e \in refused' => place'[e] # D!None
    BY <1>1, <1>3, NoneIsNoPlace DEF DInv, Held
  <2>2. ASSUME NEW q \in Place, hook'[q] # D!None
        PROVE  \E e \in Detour : place'[e] = q
    <3>1. PICK e \in Detour : place[e] = q
      BY <1>1, <2>2 DEF DInv, Held
    <3> QED
      BY <1>1, <1>3, <3>1, NoneIsNoPlace
  <2> QED
    BY <2>1, <2>2 DEF Held
<1>5. ASSUME NEW q \in Place \ harmed' PROVE Sound(q)'
  <2>1. Sound(q)
    BY <1>1 DEF DInv
  <2>2. \A e \in Detour : e \in Detour \ refused' /\ place'[e] = q
                          <=> e \in Detour \ refused /\ place[e] = q
    BY <1>1, <1>3, NoneIsNoPlace
  <2> QED
    BY <1>1, <2>1, <2>2 DEF Sound
<1> QED
  BY <1>2, <1>4, <1>5 DEF DInv

LEMMA DetourAssigned ==
    ASSUME DInv, NEW to \in Detour, NEW from \in Detour, D!MoveAssign(to, from)
    PROVE  DInv'
<1>1. /\ to # from /\ place[to] = D!None
      /\ place' = [place EXCEPT ![to] = place[from], ![from] = D!None]
      /\ moved' = [moved EXCEPT ![to] = moved[from], ![from] = FALSE]
      /\ refused' = (refused \ {to, from}) \cup {e \in {to} : from \in refused}
      /\ UNCHANGED <<hook, bytes, harmed>>
  BY DEF D!MoveAssign
<1>2. D!TypeOK'
  BY <1>1 DEF DInv, D!TypeOK
<1>3. /\ place'[to] = place[from] /\ place'[from] = D!None
      /\ moved'[to] = moved[from] /\ moved'[from] = FALSE
      /\ \A e \in Detour : e # to /\ e # from => place'[e] = place[e] /\ moved'[e] = moved[e]
  BY <1>1 DEF DInv, D!TypeOK
<1>4. /\ to \in refused' <=> from \in refused
      /\ from \notin refused'
      /\ \A e \in Detour : e # to /\ e # from => (e \in refused' <=> e \in refused)
  BY <1>1
<1>5. Held'
  <2>1. ASSUME NEW e \in Detour, moved'[e] \/ e \in refused'
        PROVE  place'[e] # D!None
    <3>1. CASE e = to
      BY <1>3, <1>4, <2>1, <3>1 DEF DInv, Held
    <3>2. CASE e = from
      BY <1>3, <1>4, <2>1, <3>2
    <3>3. CASE e # to /\ e # from
      BY <1>3, <1>4, <2>1, <3>3 DEF DInv, Held
    <3> QED
      BY <3>1, <3>2, <3>3
  <2>2. ASSUME NEW q \in Place, hook'[q] # D!None
        PROVE  \E e \in Detour : place'[e] = q
    <3>1. PICK e \in Detour : place[e] = q
      BY <1>1, <2>2 DEF DInv, Held
    <3>2. e # to
      BY <1>1, <3>1, NoneIsNoPlace
    <3> QED
      BY <1>3, <3>1, <3>2
  <2> QED
    BY <2>1, <2>2 DEF Held
<1>6. ASSUME NEW q \in Place \ harmed' PROVE Sound(q)'
  <2>1. Sound(q)
    BY <1>1 DEF DInv
  <2>2. /\ place[to] # q /\ place'[from] # q
        /\ to \in Detour \ refused' /\ place'[to] = q
           <=> from \in Detour \ refused /\ place[from] = q
        /\ \A e \in Detour : e # to /\ e # from =>
              (e \in Detour \ refused' /\ place'[e] = q <=> e \in Detour \ refused /\ place[e] = q)
    BY <1>1, <1>3, <1>4, NoneIsNoPlace
  <2>3. (\E e \in Detour \ refused' : place'[e] = q)
          <=> (\E e \in Detour \ refused : place[e] = q)
    BY <2>2
  <2>4. ASSUME NEW e \in Detour \ refused', NEW f \in Detour \ refused',
               place'[e] = q, place'[f] = q
        PROVE  e = f
    <3>1. \A g, h \in Detour \ refused : place[g] = q /\ place[h] = q => g = h
      BY <2>1 DEF Sound
    <3>2. e # from /\ f # from
      BY <2>2, <2>4
    <3>3. CASE e = to /\ f # to
      BY <2>2, <2>4, <3>1, <3>2, <3>3
    <3>4. CASE e # to /\ f = to
      BY <2>2, <2>4, <3>1, <3>2, <3>4
    <3>5. CASE e # to /\ f # to
      BY <2>2, <2>4, <3>1, <3>2, <3>5
    <3> QED
      BY <3>3, <3>4, <3>5
  <2> QED
    BY <1>1, <2>1, <2>3, <2>4 DEF Sound
<1> QED
  BY <1>2, <1>5, <1>6 DEF DInv

LEMMA DetoursStep == DInv /\ D!Next => DInv'
BY DetourDestroyed, DetourMoved, DetourEnabled, DetourDisabled, DetourCreated, DetourRefused,
   DetourAssigned
DEF D!Next

\* For any number of detours and places, in every sequence of operations: no hook
\* outlives the objects that have its place, and where none of three uses has come
\* before, the game's code stands, to the last byte, wherever no hook is enabled,
\* and a hook lasts as long as the one object whose create made it. The three, each
\* of which breaks its own place and no other: giving up a moved detour that is not
\* enabled, one whose jump another object has moved, and one whose create failed
\* because the place was another's (hook.cpp:266-355).
THEOREM CodeRestored == D!Spec => []PlacesRestored
<1>1. DInv /\ UNCHANGED D!vars => DInv'
  BY DEF DInv, D!vars, D!TypeOK, Held, Sound
<1> QED
  BY DetoursInitially, DetoursStep, SoundIsRestored, <1>1, PTL DEF D!Spec

-----------------------------------------------------------------------------
(* The splash screen *)

Untouched == {<<"splash", "scheduler">>, <<"scheduler", "splash">>}

\* Who runs when, and what is left to be destroyed.
SOrder ==
    /\ owner # S!None => owner # "async" /\ where[owner] \in {"next", "close", "hide", "join", "done"}
    /\ \A t \in {"main", "game"} :
          where[t] \in {"next", "close", "hide", "join", "done"} => owner = t
    /\ where["async"] \in {"idle", "run", "close", "hide", "done"}
    /\ where["main"] \in {"start", "load"} =>
          owner = S!None /\ where["game"] = "idle" /\ where["async"] = "idle"
    /\ owner = S!None => order \in Untouched
    /\ \A t \in {"main", "game"} :
          /\ where[t] \in {"close", "hide"} => order \in {<<>>, <<"scheduler">>}
          /\ where[t] = "done" => order = <<>>
    /\ owner # S!None /\ order \in {<<>>, <<"splash">>} /\ where[owner] # "join" =>
          where["async"] = "done"

\* The window is named by the field or in somebody's hands, and a thread that has
\* found the field empty will not find it set any more.
InHand ==
    /\ window = "shown" => field \/ \E t \in S!Thread : where[t] = "hide" /\ taken[t]
    /\ \A t \in S!Thread : where[t] = "hide" /\ ~taken[t] => ~field
    /\ S!Dealt => ~field

SInv == S!TypeOK /\ SOrder /\ InHand

\* What is left of the components when one of them is dealt with.
LEMMA Destroyed ==
    /\ Untouched \cap {<<>>, <<"splash">>, <<"scheduler">>} = {}
    /\ <<"splash">> # <<"scheduler">> /\ <<>> # <<"splash">> /\ <<>> # <<"scheduler">>
    /\ \A c \in {"splash", "scheduler"} : Head(<<c>>) = c /\ Tail(<<c>>) = <<>>
    /\ \A c, d \in {"splash", "scheduler"} : Head(<<c, d>>) = c /\ Tail(<<c, d>>) = <<d>>
<1>1. Untouched \cap {<<>>, <<"splash">>, <<"scheduler">>} = {}
  <2>1. ASSUME NEW o \in Untouched PROVE Len(o) = 2
    BY DEF Untouched
  <2>2. Len(<<>>) = 0 /\ Len(<<"splash">>) = 1 /\ Len(<<"scheduler">>) = 1
    OBVIOUS
  <2> QED
    BY <2>1, <2>2
<1>2. <<"splash">> # <<"scheduler">> /\ <<>> # <<"splash">> /\ <<>> # <<"scheduler">>
  OBVIOUS
<1>3. \A c \in {"splash", "scheduler"} : Head(<<c>>) = c /\ Tail(<<c>>) = <<>>
  OBVIOUS
<1>4. \A c, d \in {"splash", "scheduler"} : Head(<<c, d>>) = c /\ Tail(<<c, d>>) = <<d>>
  OBVIOUS
<1> QED
  BY <1>1, <1>2, <1>3, <1>4

LEMMA SplashInitially == S!Init => SInv
  BY Destroyed DEF S!Init, SInv, S!TypeOK, SOrder, InHand, S!Thread, S!Points, S!None, S!Dealt,
         Untouched

\* The steps before and beside the closing.
LEMMA SplashStarts ==
    ASSUME SInv, S!Show \/ S!Load \/ S!GameWindow \/ S!Task
    PROVE  SInv'
<1> USE DEF SInv, S!TypeOK, SOrder, InHand, S!Dealt, S!Thread, S!Points, S!None, S!Goto
<1>1. CASE S!Show
  BY <1>1 DEF S!Show
<1>2. CASE S!Load
  BY <1>2 DEF S!Load
<1>3. CASE S!GameWindow
  BY <1>3 DEF S!GameWindow
<1>4. CASE S!Task
  BY <1>4 DEF S!Task
<1> QED
  BY <1>1, <1>2, <1>3, <1>4

\* A thread lets go of what it took, and the field with it: a window that is still
\* shown was none that this thread had.
LEMMA SplashLetsGo ==
    ASSUME SInv, NEW t \in S!Thread, where[t] = "hide",
           where' = [where EXCEPT ![t] = S!Returns(t)],
           taken' = [taken EXCEPT ![t] = FALSE], field' = FALSE,
           order' = order, owner' = owner, gameWindow' = gameWindow,
           \/ window' = window /\ (window = "shown" => ~taken[t])
           \/ window' \in {"hidden", "destroyed"}
    PROVE  SInv'
<1>1. /\ where \in [S!Thread -> S!Points] /\ taken \in [S!Thread -> BOOLEAN]
      /\ owner \in S!Thread \cup {S!None} /\ S!Returns(t) \in {"run", "next"}
      /\ S!Returns(t) = "run" <=> t = "async"
  BY DEF SInv, S!TypeOK, S!Returns
<1>2. /\ where'[t] = S!Returns(t) /\ taken'[t] = FALSE
      /\ \A s \in S!Thread : s # t => where'[s] = where[s] /\ taken'[s] = taken[s]
  BY <1>1
<1>3. S!TypeOK'
  <2>1. where' \in [S!Thread -> S!Points] /\ taken' \in [S!Thread -> BOOLEAN]
    BY <1>1 DEF S!Points
  <2>2. window' \in {"none", "shown", "hidden", "destroyed"}
    BY DEF SInv, S!TypeOK
  <2> QED
    BY <2>1, <2>2 DEF SInv, S!TypeOK
<1>4. owner # S!None \/ t = "async"
  BY DEF SInv, SOrder, S!Thread, S!None
<1>5. SOrder'
  <2>1. (owner # S!None => owner # "async"
                           /\ where[owner] \in {"next", "close", "hide", "join", "done"})'
    BY <1>1, <1>2 DEF SInv, SOrder, S!None
  <2>2. (\A s \in {"main", "game"} :
            where[s] \in {"next", "close", "hide", "join", "done"} => owner = s)'
    BY <1>2 DEF SInv, SOrder, S!Thread
  <2>3. (where["async"] \in {"idle", "run", "close", "hide", "done"})'
    BY <1>1, <1>2 DEF SInv, SOrder, S!Thread
  <2>4. (where["main"] \in {"start", "load"} =>
            owner = S!None /\ where["game"] = "idle" /\ where["async"] = "idle")'
    BY <1>1, <1>2 DEF SInv, SOrder, S!Thread
  <2>5. (owner = S!None => order \in Untouched)'
    BY DEF SInv, SOrder
  <2>6. (\A s \in {"main", "game"} :
            /\ where[s] \in {"close", "hide"} => order \in {<<>>, <<"scheduler">>}
            /\ where[s] = "done" => order = <<>>)'
    BY <1>1, <1>2 DEF SInv, SOrder, S!Thread
  <2>7. (owner # S!None /\ order \in {<<>>, <<"splash">>} /\ where[owner] # "join" =>
            where["async"] = "done")'
    <3> SUFFICES ASSUME owner # S!None, order \in {<<>>, <<"splash">>}, where'[owner] # "join"
                 PROVE  where'["async"] = "done"
      OBVIOUS
    <3>1. where[owner] # "join"
      BY <1>1, <1>2
    <3>2. where["async"] = "done"
      BY <3>1 DEF SInv, SOrder
    <3> QED
      BY <1>2, <3>2 DEF S!Thread
  <2> QED
    BY <2>1, <2>2, <2>3, <2>4, <2>5, <2>6, <2>7 DEF SOrder
<1>6. InHand'
  <2>1. ASSUME window' = "shown" PROVE \E s \in S!Thread : where'[s] = "hide" /\ taken'[s]
    <3>1. window = "shown" /\ ~taken[t]
      BY <2>1
    <3>2. PICK s \in S!Thread : where[s] = "hide" /\ taken[s]
      BY <3>1 DEF SInv, InHand
    <3> QED
      BY <1>2, <3>1, <3>2
  <2> QED
    BY <2>1 DEF InHand
<1> QED
  BY <1>3, <1>5, <1>6 DEF SInv

LEMMA SplashCloses ==
    ASSUME SInv, NEW t \in S!Thread, S!Closing(t)
    PROVE  SInv'
<1> USE DEF SInv, S!TypeOK, SOrder, InHand, S!Dealt, S!Thread, S!Points, S!None, S!Goto
<1>1. CASE S!Take(t)
  <2>0. /\ where[t] = "close" /\ where' = [where EXCEPT ![t] = "hide"]
        /\ taken' = [taken EXCEPT ![t] = field] /\ field' \in {FALSE, field}
        /\ UNCHANGED <<window, order, owner, gameWindow>>
    <3>1. field' = FALSE \/ field' = field
      BY <1>1 DEF S!Take
    <3> QED
      BY <1>1, <3>1 DEF S!Take
  <2>1. /\ where[t] = "close" /\ where' = [where EXCEPT ![t] = "hide"]
        /\ taken' = [taken EXCEPT ![t] = field] /\ field' \in BOOLEAN /\ (field' => field)
        /\ (~field' => ~field \/ (where'[t] = "hide" /\ taken'[t]))
        /\ UNCHANGED <<window, order, owner, gameWindow>>
    <3>1. where'[t] = "hide" /\ taken'[t] = field
      BY <2>0
    <3>2. CASE field' = FALSE
      BY <2>0, <3>1, <3>2, Zenon
    <3>3. CASE field' = field
      BY <2>0, <3>1, <3>3, Zenon
    <3> QED
      BY <2>0, <3>2, <3>3
  <2>2. S!TypeOK'
    BY <2>1
  <2>3. SOrder'
    BY <2>1
  <2>4. InHand'
    <3>1. (window = "shown" => field \/ \E s \in S!Thread : where[s] = "hide" /\ taken[s])'
      BY <2>1
    <3>2. (\A s \in S!Thread : where[s] = "hide" /\ ~taken[s] => ~field)'
      BY <2>1
    <3>3. (S!Dealt => ~field)'
      BY <2>1
    <3> QED
      BY <3>1, <3>2, <3>3
  <2> QED
    BY <2>2, <2>3, <2>4
<1>2. CASE S!NothingToHide(t)
  <2>1. /\ where[t] = "hide" /\ where' = [where EXCEPT ![t] = S!Returns(t)]
        /\ taken' = [taken EXCEPT ![t] = FALSE] /\ field' = FALSE
        /\ order' = order /\ owner' = owner /\ gameWindow' = gameWindow
        /\ window' = window /\ (window = "shown" => ~taken[t])
    BY <1>2 DEF S!NothingToHide, S!Valid
  <2> QED
    BY <2>1, SplashLetsGo
<1>3. CASE S!Hide(t)
  <2>1. /\ where[t] = "hide" /\ where' = [where EXCEPT ![t] = S!Returns(t)]
        /\ taken' = [taken EXCEPT ![t] = FALSE] /\ field' = FALSE
        /\ order' = order /\ owner' = owner /\ gameWindow' = gameWindow
        /\ window' \in {"hidden", "destroyed"}
    BY <1>3 DEF S!Hide
  <2> QED
    BY <2>1, SplashLetsGo
<1> QED
  BY <1>1, <1>2, <1>3 DEF S!Closing

LEMMA SplashLeaves ==
    ASSUME SInv, NEW t \in S!Thread, S!Exit(t) \/ S!Leaving(t)
    PROVE  SInv'
<1> USE DEF SInv, S!TypeOK, SOrder, InHand, S!Dealt, S!Thread, S!Points, S!None, S!Goto
<1>1. CASE S!Exit(t)
  BY <1>1 DEF S!Exit
<1>2. CASE S!Enter(t)
  <2>1. /\ where[t] = "exit" /\ t # "async" /\ owner = S!None /\ owner' = t
        /\ where' = [where EXCEPT ![t] = "next"] /\ order \in Untouched
        /\ UNCHANGED <<field, window, taken, order, gameWindow>>
    BY <1>2 DEF S!Enter
  <2>2. order \notin {<<>>, <<"splash">>, <<"scheduler">>}
    BY <2>1, Destroyed
  <2>3. S!TypeOK'
    BY <2>1
  <2>4. SOrder'
    BY <2>1, <2>2
  <2>5. InHand'
    BY <2>1, <2>2
  <2> QED
    BY <2>3, <2>4, <2>5
<1>3. CASE S!PreDestroy(t)
  <2>1. /\ where[t] = "next" /\ t # "async" /\ owner = t /\ owner # S!None /\ order # <<>>
        /\ where' = [where EXCEPT ![t] = IF Head(order) = "splash" THEN "close" ELSE "join"]
        /\ order' = Tail(order)
        /\ UNCHANGED <<field, window, taken, owner, gameWindow>>
    BY <1>3 DEF S!PreDestroy
  <2>2. \/ Head(order) = "splash" /\ order' = <<"scheduler">> /\ order = <<"splash", "scheduler">>
        \/ Head(order) = "splash" /\ order' = <<>> /\ order = <<"splash">>
        \/ Head(order) = "scheduler" /\ order' = <<"splash">> /\ order = <<"scheduler", "splash">>
        \/ Head(order) = "scheduler" /\ order' = <<>> /\ order = <<"scheduler">>
    BY <2>1, Destroyed
  <2>3. S!TypeOK'
    BY <2>1, <2>2
  <2>4. SOrder'
    BY <2>1, <2>2, Destroyed
  <2>5. InHand'
    BY <2>1, <2>2, Destroyed
  <2> QED
    BY <2>3, <2>4, <2>5
<1>4. CASE S!Join(t)
  BY <1>4 DEF S!Join
<1>5. CASE S!Ended(t)
  BY <1>5 DEF S!Ended
<1> QED
  BY <1>1, <1>2, <1>3, <1>4, <1>5 DEF S!Leaving

LEMMA SplashStep == SInv /\ [S!Next]_(S!vars) => SInv'
<1>1. SInv /\ S!Next => SInv'
  BY SplashStarts, SplashCloses, SplashLeaves DEF S!Next
<1>2. SInv /\ UNCHANGED S!vars => SInv'
  BY DEF SInv, S!TypeOK, SOrder, InHand, S!Dealt, S!vars
<1> QED
  BY <1>1, <1>2

\* Whichever thread closes the splash screen, and whichever takes the window from
\* under the other, the end of the process does not leave it behind: the destruction
\* waits for the scheduler's thread, and that one gives nothing up that it has taken
\* (splash.cpp:124-143, 152-175).
THEOREM SplashNotLeft == S!Spec => []NotLeftBehind
<1>1. SInv => NotLeftBehind
  <2> SUFFICES ASSUME SInv PROVE NotLeftBehind
    OBVIOUS
  <2>1. ASSUME S!Dealt
        PROVE  ~field /\ (S!Hidden \/ (where["async"] = "hide" /\ taken["async"]))
    BY <2>1 DEF SInv, InHand, SOrder, S!Dealt, S!Hidden, S!Thread, S!None
  <2>2. ASSUME S!Over PROVE S!Hidden /\ where["async"] = "done"
    <3>1. S!Dealt /\ where["async"] = "done"
      BY <2>2 DEF SInv, SOrder, S!Over, S!Dealt, S!Thread, S!None
    <3> QED
      BY <2>1, <3>1
  <2> QED
    BY <2>1, <2>2 DEF NotLeftBehind, S!NotLeftBehind
<1> QED
  BY <1>1, SplashInitially, SplashStep, PTL DEF S!Spec

-----------------------------------------------------------------------------
(* Patches *)

\* What TypeOK says, without the range of a displacement, which the proofs do
\* not need.
Typed ==
    /\ blocks \in Seq(Block)
    /\ \A p \in DOMAIN near : near[p] \in Int
    /\ \A s \in DOMAIN far : s \in Nat
    /\ DOMAIN near \subseteq Places
    /\ DOMAIN wanted = DOMAIN near
    /\ \A p \in DOMAIN wanted : wanted[p] \in Targets

\* Stronger than "inside a block": inside the part of it that is handed out, so
\* that what is handed out next is behind it.
Inside ==
    \A s \in DOMAIN far :
       \E i \in DOMAIN blocks :
          blocks[i].base <= s /\ s + Slot <= GetPtr(blocks[i])

Apart == \A s, t \in DOMAIN far : s < t => s + Slot <= t

BlocksOwn ==
    /\ Owned \cap foreign = {}
    /\ \A i, j \in DOMAIN blocks : i # j => blocks[i].base # blocks[j].base

IInv == Typed /\ Inside /\ Apart /\ BlocksOwn /\ BranchesArrive

-----------------------------------------------------------------------------
(* Lemmas *)

\* What the proofs use of the assumptions: alignment is not needed.
LEMMA Sizes ==
    /\ Reach \in Nat /\ Granule \in Nat /\ Slot \in Nat /\ Width \in Nat
    /\ 0 < Slot /\ Slot <= Granule
    /\ Places \subseteq Nat /\ Targets \subseteq Nat /\ Grid \subseteq Nat
    /\ \A g, h \in Grid : g < h => g + Granule <= h
    /\ \A g \in Grid, t \in Targets : t < g \/ g + Granule <= t
<1>1. {Reach, Granule, Slot, Width} \subseteq Nat \ {0} /\ Slot <= Granule
  BY SizesAssumption
<1>2. /\ Places \subseteq Nat /\ Targets \subseteq Nat /\ Grid \subseteq Nat
      /\ \A g, h \in Grid : g < h => g + Granule <= h
      /\ \A g \in Grid, t \in Targets : t < g \/ g + Granule <= t
  BY AddressesAssumption
<1>3. /\ Reach \in Nat /\ Granule \in Nat /\ Slot \in Nat /\ Width \in Nat
      /\ 0 < Slot
  BY <1>1
<1> QED
  BY <1>1, <1>2, <1>3

\* A block is a number that is a base and a part of Granule that is used.
LEMMA BlockFacts ==
    ASSUME Typed, NEW k \in DOMAIN blocks
    PROVE  /\ blocks[k] \in Block
           /\ blocks[k].base \in Grid /\ blocks[k].base \in Nat
           /\ blocks[k].used \in 0 .. Granule /\ blocks[k].used \in Nat
           /\ GetPtr(blocks[k]) = blocks[k].base + blocks[k].used
<1>1. blocks[k] \in Block
  BY DEF Typed
<1>2. blocks[k].base \in Grid /\ blocks[k].used \in 0 .. Granule
  BY <1>1 DEF Block
<1>3. Granule \in Nat /\ Grid \subseteq Nat
  BY Sizes
<1>4. blocks[k].used \in Nat /\ blocks[k].base \in Nat
  <2>1. blocks[k].base \in Nat
    BY <1>2, <1>3
  <2>2. \A u \in 0 .. Granule : u \in Nat
    BY <1>3
  <2> QED
    BY <1>2, <2>1, <2>2
<1>5. GetPtr(blocks[k]) = blocks[k].base + blocks[k].used
  BY DEF GetPtr
<1> QED
  BY <1>1, <1>2, <1>4, <1>5

\* Two blocks of a different base do not overlap.
LEMMA BlocksDisjoint ==
    ASSUME NEW g \in Grid, NEW h \in Grid, g # h
    PROVE  g + Granule <= h \/ h + Granule <= g
<1>1. g \in Nat /\ h \in Nat
  BY Sizes
<1>2. g < h \/ h < g
  BY <1>1
<1> QED
  BY <1>2, Sizes

\* What a displacement is when nothing of the distance is lost.
LEMMA NearDisplacement ==
    ASSUME NEW p, NEW d, ~IsRelativelyFar(p, d)
    PROVE  Displacement(p, d) = d - (p + Width)
BY DEF IsRelativelyFar

\* get_memory_near returns a slot that is within reach, inside the granted part
\* of a block, and clear of everything that was handed out before.
SlotIsFree(site, got) ==
    /\ got.slot \in Nat
    /\ ~IsRelativelyFar(site, got.slot)
    /\ got.blocks \in Seq(Block)
    /\ \A i \in DOMAIN blocks :
          /\ i \in DOMAIN got.blocks
          /\ got.blocks[i].base = blocks[i].base
          /\ blocks[i].used <= got.blocks[i].used
    /\ \E i \in DOMAIN got.blocks :
          /\ got.blocks[i].base <= got.slot
          /\ got.slot + Slot <= GetPtr(got.blocks[i])
    /\ \A i \in DOMAIN blocks :
          \/ GetPtr(blocks[i]) <= got.slot
          \/ got.slot + Slot <= blocks[i].base
    /\ \E g \in Grid : g <= got.slot /\ got.slot + Slot <= g + Granule
    /\ {got.blocks[i].base : i \in DOMAIN got.blocks} \cap foreign = {}
    /\ \A i, j \in DOMAIN got.blocks :
          i # j => got.blocks[i].base # got.blocks[j].base

\* What a block looks like after more of it has been handed out.
LEMMA MoreUsed ==
    ASSUME NEW b \in Block, NEW u \in 0 .. Granule
    PROVE  /\ [b EXCEPT !.used = u] \in Block
           /\ [b EXCEPT !.used = u].base = b.base
           /\ [b EXCEPT !.used = u].used = u
BY DEF Block

\* What a sequence of blocks looks like after one was replaced.
LEMMA BlockReplaced ==
    ASSUME NEW seq \in Seq(Block), NEW i \in DOMAIN seq, NEW b \in Block
    PROVE  /\ [seq EXCEPT ![i] = b] \in Seq(Block)
           /\ DOMAIN [seq EXCEPT ![i] = b] = DOMAIN seq
           /\ [seq EXCEPT ![i] = b][i] = b
           /\ \A k \in DOMAIN seq : k # i => [seq EXCEPT ![i] = b][k] = seq[k]
OBVIOUS

LEMMA TakenIsFree ==
    ASSUME IInv, NEW site \in Places, NEW i \in Usable(site, Slot)
    PROVE  SlotIsFree(site, Taken(i, Slot))
<1> DEFINE got == Taken(i, Slot)
<1> USE Sizes
<1>1. /\ blocks \in Seq(Block)
      /\ i \in DOMAIN blocks
      /\ ~IsRelativelyFar(site, GetPtr(blocks[i]))
      /\ blocks[i].used + Slot <= Granule
  BY DEF IInv, Typed, Usable, Fits
<1>2. \A k \in DOMAIN blocks :
         /\ blocks[k].base \in Grid /\ blocks[k].base \in Nat
         /\ blocks[k].used \in 0 .. Granule
  BY BlockFacts DEF IInv
<1>3. got.slot = blocks[i].base + blocks[i].used
  BY DEF Taken, GetPtr
<1>4. /\ got.blocks \in Seq(Block)
      /\ DOMAIN got.blocks = DOMAIN blocks
      /\ got.blocks[i].used = blocks[i].used + Slot
      /\ \A k \in DOMAIN blocks : got.blocks[k].base = blocks[k].base
      /\ \A k \in DOMAIN blocks : k # i => got.blocks[k] = blocks[k]
  <2> DEFINE b == [blocks[i] EXCEPT !.used = blocks[i].used + Slot]
  <2>1. got.blocks = [blocks EXCEPT ![i] = b]
    BY <1>1 DEF Taken
  <2>2. blocks[i] \in Block
    BY <1>1, BlockFacts DEF IInv
  <2>3. blocks[i].used + Slot \in 0 .. Granule
    BY <1>1, <1>2
  <2>4. b \in Block /\ b.base = blocks[i].base /\ b.used = blocks[i].used + Slot
    BY <2>2, <2>3, MoreUsed
  <2> HIDE DEF got, b
  <2>5. /\ got.blocks \in Seq(Block)
        /\ DOMAIN got.blocks = DOMAIN blocks
        /\ got.blocks[i] = b
        /\ \A k \in DOMAIN blocks : k # i => got.blocks[k] = blocks[k]
    BY <1>1, <2>1, <2>4, BlockReplaced
  <2> QED
    BY <2>4, <2>5
<1>5. \A k \in DOMAIN blocks :
         k # i => \/ blocks[k].base + Granule <= blocks[i].base
                  \/ blocks[i].base + Granule <= blocks[k].base
  BY <1>1, <1>2, BlocksDisjoint DEF IInv, BlocksOwn
<1>6. \A k \in DOMAIN blocks : blocks[k].base \notin foreign
  BY DEF IInv, BlocksOwn, Owned
<1> HIDE DEF got
<1>7. ~IsRelativelyFar(site, got.slot)
  BY <1>1, <1>3 DEF GetPtr
<1>8. got.slot \in Nat
  BY <1>1, <1>2, <1>3
<1>14. ASSUME NEW k \in DOMAIN blocks
       PROVE  /\ k \in DOMAIN got.blocks
              /\ got.blocks[k].base = blocks[k].base
              /\ blocks[k].used <= got.blocks[k].used
  <2>1. CASE k = i
    BY <2>1, <1>2, <1>4
  <2>2. CASE k # i
    BY <2>2, <1>2, <1>4
  <2> QED
    BY <2>1, <2>2
<1>9. /\ got.blocks[i].base <= got.slot
      /\ got.slot + Slot <= GetPtr(got.blocks[i])
  BY <1>1, <1>2, <1>3, <1>4 DEF GetPtr
<1>10. ASSUME NEW k \in DOMAIN blocks
       PROVE  \/ GetPtr(blocks[k]) <= got.slot
              \/ got.slot + Slot <= blocks[k].base
  <2>1. GetPtr(blocks[k]) = blocks[k].base + blocks[k].used
    BY BlockFacts DEF IInv
  <2>2. CASE k = i
    BY <2>1, <2>2, <1>2, <1>3
  <2>3. CASE k # i
    <3>1. \/ blocks[k].base + Granule <= blocks[i].base
          \/ blocks[i].base + Granule <= blocks[k].base
      BY <2>3, <1>5
    <3>2. /\ blocks[k].base \in Nat /\ blocks[k].used \in 0 .. Granule
          /\ blocks[i].base \in Nat /\ blocks[i].used \in 0 .. Granule
          /\ blocks[i].used + Slot <= Granule
      BY <1>1, <1>2
    <3> QED
      BY <2>1, <3>1, <3>2, <1>3, Sizes
  <2> QED
    BY <2>2, <2>3
<1>11. /\ blocks[i].base <= got.slot
       /\ got.slot + Slot <= blocks[i].base + Granule
  BY <1>1, <1>2, <1>3
<1>12. {got.blocks[k].base : k \in DOMAIN got.blocks} \cap foreign = {}
  BY <1>4, <1>6
<1>13. \A k, l \in DOMAIN got.blocks :
          k # l => got.blocks[k].base # got.blocks[l].base
  BY <1>4 DEF IInv, BlocksOwn
<1> QED
  BY <1>1, <1>2, <1>4, <1>7, <1>8, <1>9, <1>10, <1>11, <1>12, <1>13, <1>14
  DEF SlotIsFree, got

LEMMA FreshIsFree ==
    ASSUME IInv, NEW site \in Places, NEW g \in Candidates(site)
    PROVE  SlotIsFree(site, Fresh(g, Slot))
<1> DEFINE got == Fresh(g, Slot)
           b == [base |-> g, used |-> Slot]
           n == Len(blocks) + 1
<1> USE Sizes
<1>1. /\ blocks \in Seq(Block)
      /\ g \in Grid /\ g \in Nat /\ g \notin foreign /\ g \notin Owned
      /\ ~IsRelativelyFar(site, g)
  BY DEF IInv, Typed, Candidates
<1>2. b \in Block /\ b.base = g /\ b.used = Slot
  BY <1>1 DEF Block
<1>3. got.slot = g /\ got.blocks = Append(blocks, b)
  BY DEF Fresh
<1> HIDE DEF got, b
<1>4. /\ got.blocks \in Seq(Block)
      /\ DOMAIN got.blocks = 1 .. n
      /\ DOMAIN blocks = 1 .. n - 1
      /\ got.blocks[n] = b
      /\ \A k \in DOMAIN blocks : got.blocks[k] = blocks[k]
  BY <1>1, <1>2, <1>3
<1>5. \A k \in DOMAIN blocks : blocks[k].base # g
  BY <1>1 DEF Owned
<1>6. n \in Nat /\ n > 0
  BY <1>1
<1> HIDE DEF n
<1>7. ~IsRelativelyFar(site, got.slot) /\ got.slot \in Nat
  BY <1>1, <1>3
<1>8. ASSUME NEW k \in DOMAIN blocks
      PROVE  /\ k \in DOMAIN got.blocks
             /\ got.blocks[k].base = blocks[k].base
             /\ blocks[k].used <= got.blocks[k].used
  <2>1. k \in DOMAIN got.blocks /\ got.blocks[k] = blocks[k]
    BY <1>4, <1>6
  <2>2. blocks[k].used \in Nat
    BY BlockFacts DEF IInv
  <2> QED
    BY <2>1, <2>2
<1>9. /\ n \in DOMAIN got.blocks
      /\ got.blocks[n].base <= got.slot
      /\ got.slot + Slot <= GetPtr(got.blocks[n])
  BY <1>1, <1>2, <1>3, <1>4, <1>6 DEF GetPtr
<1>10. ASSUME NEW k \in DOMAIN blocks
       PROVE  \/ GetPtr(blocks[k]) <= got.slot
              \/ got.slot + Slot <= blocks[k].base
  <2>1. /\ blocks[k].base \in Grid /\ blocks[k].base \in Nat
        /\ blocks[k].used \in 0 .. Granule
        /\ GetPtr(blocks[k]) = blocks[k].base + blocks[k].used
    BY BlockFacts DEF IInv
  <2>2. blocks[k].base + Granule <= g \/ g + Granule <= blocks[k].base
    BY <1>1, <1>5, <2>1, BlocksDisjoint
  <2> QED
    BY <1>1, <1>3, <2>1, <2>2
<1>11. g <= got.slot /\ got.slot + Slot <= g + Granule
  BY <1>1, <1>3
<1>12. {got.blocks[k].base : k \in DOMAIN got.blocks} \cap foreign = {}
  <2>1. ASSUME NEW k \in DOMAIN got.blocks
        PROVE  got.blocks[k].base \notin foreign
    <3>1. CASE k = n
      BY <3>1, <1>1, <1>2, <1>4
    <3>2. CASE k \in DOMAIN blocks
      BY <3>2, <1>4 DEF IInv, BlocksOwn, Owned
    <3> QED
      BY <3>1, <3>2, <1>4, <1>6
  <2> QED
    BY <2>1
<1>13. ASSUME NEW k \in DOMAIN got.blocks, NEW l \in DOMAIN got.blocks, k # l
       PROVE  got.blocks[k].base # got.blocks[l].base
  <2>1. CASE k = n
    BY <2>1, <1>2, <1>4, <1>5, <1>6, <1>13
  <2>2. CASE l = n
    BY <2>2, <1>2, <1>4, <1>5, <1>6, <1>13
  <2>3. CASE k \in DOMAIN blocks /\ l \in DOMAIN blocks
    BY <2>3, <1>4, <1>13 DEF IInv, BlocksOwn
  <2> QED
    BY <2>1, <2>2, <2>3, <1>4, <1>6
<1> QED
  BY <1>1, <1>4, <1>7, <1>8, <1>9, <1>10, <1>11, <1>12, <1>13
  DEF SlotIsFree, got

LEMMA MemoryIsFree ==
    ASSUME IInv, NEW site \in Places, NEW got \in GetMemoryNear(site, Slot)
    PROVE  SlotIsFree(site, got)
<1>1. CASE Usable(site, Slot) # {}
  <2>1. PICK i \in Usable(site, Slot) : got = Taken(i, Slot)
    BY <1>1 DEF GetMemoryNear, Least
  <2> QED
    BY <2>1, TakenIsFree
<1>2. CASE Usable(site, Slot) = {}
  <2>1. PICK g \in Candidates(site) : got = Fresh(g, Slot)
    BY <1>2 DEF GetMemoryNear, Least
  <2> QED
    BY <2>1, FreshIsFree
<1> QED
  BY <1>1, <1>2

-----------------------------------------------------------------------------
(* The invariant *)

LEMMA Initially == Init => IInv
<1> SUFFICES ASSUME Init PROVE IInv
  OBVIOUS
<1>1. /\ blocks = <<>> /\ near = <<>> /\ far = <<>> /\ wanted = <<>>
      /\ DOMAIN blocks = {} /\ DOMAIN near = {} /\ DOMAIN far = {}
      /\ DOMAIN wanted = {}
  BY DEF Init
<1>2. Typed
  BY <1>1 DEF Typed
<1> QED
  BY <1>1, <1>2 DEF IInv, Inside, Apart, BlocksOwn, Owned, BranchesArrive

LEMMA NearStep ==
    ASSUME IInv, NEW site \in Places, NEW target \in Targets,
           PatchNear(site, target)
    PROVE  IInv'
<1> DEFINE d == target - (site + Width)
<1>1. /\ near' = Put(near, site, d) /\ d \in Int
      /\ wanted' = Put(wanted, site, target)
      /\ UNCHANGED <<blocks, foreign, far>>
  BY NearDisplacement, Sizes DEF PatchNear
<1> HIDE DEF d
<1>2. /\ DOMAIN near' = DOMAIN near \cup {site}
      /\ near'[site] = d
      /\ \A p \in DOMAIN near : p # site => near'[p] = near[p]
  BY <1>1 DEF Put
<1>3. /\ DOMAIN wanted' = DOMAIN wanted \cup {site}
      /\ wanted'[site] = target
      /\ \A p \in DOMAIN wanted : p # site => wanted'[p] = wanted[p]
  BY <1>1 DEF Put
<1>4. Typed'
  BY <1>1, <1>2, <1>3 DEF IInv, Typed
<1>5. Inside' /\ Apart' /\ BlocksOwn'
  BY <1>1 DEF IInv, Inside, Apart, BlocksOwn, Owned
<1>6. target \notin DOMAIN far
  <2>1. SUFFICES ASSUME target \in DOMAIN far PROVE FALSE
    OBVIOUS
  <2>2. PICK i \in DOMAIN blocks :
           blocks[i].base <= target /\ target + Slot <= GetPtr(blocks[i])
    BY <2>1 DEF IInv, Inside
  <2>3. /\ blocks[i].base \in Grid /\ blocks[i].base \in Nat
        /\ blocks[i].used \in 0 .. Granule
        /\ GetPtr(blocks[i]) = blocks[i].base + blocks[i].used
    BY BlockFacts DEF IInv
  <2>4. target < blocks[i].base \/ blocks[i].base + Granule <= target
    BY <2>3, Sizes
  <2> QED
    BY <2>2, <2>3, <2>4, Sizes
<1>7. BranchesArrive'
  <2>1. ASSUME NEW p \in DOMAIN wanted'
        PROVE  Arrival(p)' = wanted'[p]
    <3>1. CASE p = site
      <4>1. p + Width + d = target
        BY <3>1, Sizes DEF d
      <4> QED
        BY <3>1, <4>1, <1>1, <1>2, <1>3, <1>6 DEF Arrival
    <3>2. CASE p # site
      <4>1. p \in DOMAIN wanted /\ p \in DOMAIN near
        BY <3>2, <1>3 DEF IInv, Typed
      <4>2. Arrival(p) = wanted[p]
        BY <4>1 DEF IInv, BranchesArrive
      <4> QED
        BY <3>2, <4>1, <4>2, <1>1, <1>2, <1>3 DEF Arrival
    <3> QED
      BY <3>1, <3>2
  <2> QED
    BY <2>1 DEF BranchesArrive
<1> QED
  BY <1>4, <1>5, <1>7 DEF IInv

LEMMA FarStep ==
    ASSUME IInv, NEW site \in Places, NEW target \in Targets,
           PatchFar(site, target)
    PROVE  IInv'
<1>1. PICK got \in GetMemoryNear(site, Slot) :
         /\ blocks' = got.blocks
         /\ near' = Put(near, site, Displacement(site, got.slot))
         /\ far' = Put(far, got.slot, target)
  BY DEF PatchFar
<1> DEFINE slot == got.slot
           d == slot - (site + Width)
<1>2. SlotIsFree(site, got)
  BY MemoryIsFree
<1>3. wanted' = Put(wanted, site, target) /\ foreign' = foreign
  BY DEF PatchFar
<1>4. slot \in Nat /\ d \in Int /\ near' = Put(near, site, d)
  BY <1>1, <1>2, NearDisplacement, Sizes DEF SlotIsFree
<1>5. far' = Put(far, slot, target)
  BY <1>1
<1> HIDE DEF slot, d
<1>6. /\ DOMAIN near' = DOMAIN near \cup {site}
      /\ near'[site] = d
      /\ \A p \in DOMAIN near : p # site => near'[p] = near[p]
  BY <1>4 DEF Put
<1>7. /\ DOMAIN wanted' = DOMAIN wanted \cup {site}
      /\ wanted'[site] = target
      /\ \A p \in DOMAIN wanted : p # site => wanted'[p] = wanted[p]
  BY <1>3 DEF Put
<1>8. /\ DOMAIN far' = DOMAIN far \cup {slot}
      /\ far'[slot] = target
      /\ \A s \in DOMAIN far : s # slot => far'[s] = far[s]
  BY <1>5 DEF Put
<1>9. \A s \in DOMAIN far : s + Slot <= slot \/ slot + Slot <= s
  <2>1. ASSUME NEW s \in DOMAIN far
        PROVE  s + Slot <= slot \/ slot + Slot <= s
    <3>1. PICK i \in DOMAIN blocks :
             blocks[i].base <= s /\ s + Slot <= GetPtr(blocks[i])
      BY DEF IInv, Inside
    <3>2. GetPtr(blocks[i]) <= slot \/ slot + Slot <= blocks[i].base
      BY <1>2 DEF SlotIsFree, slot
    <3>3. /\ blocks[i].base \in Nat /\ GetPtr(blocks[i]) \in Nat
          /\ s \in Nat
      BY BlockFacts DEF IInv, Typed
    <3> QED
      BY <3>1, <3>2, <3>3, <1>4, Sizes
  <2> QED
    BY <2>1
<1>10. slot \notin DOMAIN far
  BY <1>4, <1>9, Sizes
<1>11. Typed'
  BY <1>1, <1>2, <1>4, <1>6, <1>7, <1>8 DEF IInv, Typed, SlotIsFree
<1>12. Inside'
  <2>1. ASSUME NEW s \in DOMAIN far'
        PROVE  \E i \in DOMAIN blocks' :
                  blocks'[i].base <= s /\ s + Slot <= GetPtr(blocks'[i])
    <3>1. CASE s = slot
      BY <3>1, <1>1, <1>2 DEF SlotIsFree, slot
    <3>2. CASE s \in DOMAIN far
      <4>1. PICK i \in DOMAIN blocks :
               blocks[i].base <= s /\ s + Slot <= GetPtr(blocks[i])
        BY <3>2 DEF IInv, Inside
      <4>2. /\ i \in DOMAIN blocks'
            /\ blocks'[i].base = blocks[i].base
            /\ blocks[i].used <= blocks'[i].used
        BY <1>1, <1>2 DEF SlotIsFree
      <4>3. /\ blocks[i].base \in Nat /\ blocks[i].used \in Nat
            /\ GetPtr(blocks[i]) = blocks[i].base + blocks[i].used
            /\ s \in Nat
        BY <3>2, BlockFacts DEF IInv, Typed
      <4>4. /\ blocks'[i].used \in Nat
            /\ GetPtr(blocks'[i]) = blocks'[i].base + blocks'[i].used
        <5>1. blocks'[i] \in Block
          BY <4>2, <1>11 DEF Typed
        <5>2. blocks'[i].used \in 0 .. Granule
          BY <5>1 DEF Block
        <5>3. \A u \in 0 .. Granule : u \in Nat
          BY Sizes
        <5> QED
          BY <5>2, <5>3 DEF GetPtr
      <4>5. blocks'[i].base <= s /\ s + Slot <= GetPtr(blocks'[i])
        BY <4>1, <4>2, <4>3, <4>4, Sizes
      <4> QED
        BY <4>2, <4>5
    <3> QED
      BY <3>1, <3>2, <1>8
  <2> QED
    BY <2>1 DEF Inside, GetPtr
<1>13. Apart'
  <2>1. ASSUME NEW s \in DOMAIN far', NEW t \in DOMAIN far', s < t
        PROVE  s + Slot <= t
    <3>1. CASE s \in DOMAIN far /\ t \in DOMAIN far
      BY <2>1, <3>1 DEF IInv, Apart
    <3>2. CASE s = slot /\ t \in DOMAIN far
      BY <2>1, <3>2, <1>4, <1>9, Sizes DEF IInv, Typed
    <3>3. CASE s \in DOMAIN far /\ t = slot
      BY <2>1, <3>3, <1>4, <1>9, Sizes DEF IInv, Typed
    <3>4. CASE s = slot /\ t = slot
      BY <2>1, <3>4, <1>4
    <3> QED
      BY <3>1, <3>2, <3>3, <3>4, <1>8
  <2> QED
    BY <2>1 DEF Apart
<1>14. BlocksOwn'
  BY <1>1, <1>2, <1>3 DEF SlotIsFree, BlocksOwn, Owned
<1>15. BranchesArrive'
  <2>1. ASSUME NEW p \in DOMAIN wanted'
        PROVE  Arrival(p)' = wanted'[p]
    <3>1. CASE p = site
      <4>1. p + Width + d = slot
        BY <3>1, <1>4, Sizes DEF d
      <4> QED
        BY <3>1, <4>1, <1>6, <1>7, <1>8 DEF Arrival
    <3>2. CASE p # site
      <4> DEFINE at == p + Width + near[p]
      <4>1. p \in DOMAIN wanted /\ p \in DOMAIN near
        BY <3>2, <1>7 DEF IInv, Typed
      <4>2. at # slot
        <5>1. SUFFICES ASSUME at = slot PROVE FALSE
          OBVIOUS
        <5>2. wanted[p] = slot /\ slot \in Targets
          BY <4>1, <5>1, <1>10 DEF IInv, Typed, BranchesArrive, Arrival
        <5>3. PICK g \in Grid : g <= slot /\ slot + Slot <= g + Granule
          BY <1>2 DEF SlotIsFree, slot
        <5>4. slot < g \/ g + Granule <= slot
          BY <5>2, <5>3, Sizes
        <5> QED
          BY <5>3, <5>4, <1>4, Sizes
      <4>3. near'[p] = near[p] /\ wanted'[p] = wanted[p]
        BY <3>2, <4>1, <1>6, <1>7
      <4>4. Arrival(p) = wanted[p]
        BY <4>1 DEF IInv, BranchesArrive
      <4>5. /\ at \in DOMAIN far' <=> at \in DOMAIN far
            /\ at \in DOMAIN far => far'[at] = far[at]
        BY <4>2, <1>8
      <4> QED
        BY <4>3, <4>4, <4>5 DEF Arrival
    <3> QED
      BY <3>1, <3>2
  <2> QED
    BY <2>1 DEF BranchesArrive
<1> QED
  BY <1>11, <1>12, <1>13, <1>14, <1>15 DEF IInv

LEMMA OtherSteps ==
    ASSUME IInv,
           \/ \E site \in Places, target \in Targets : PatchFails(site, target)
           \/ Others
           \/ UNCHANGED vars
    PROVE  IInv'
<1>1. UNCHANGED <<blocks, near, far, wanted>>
  BY DEF PatchFails, Others, vars
<1>2. Typed' /\ Inside' /\ Apart' /\ BranchesArrive'
  BY <1>1 DEF IInv, Typed, Inside, Apart, BranchesArrive, Arrival
<1>3. Owned \cap foreign' = {}
  BY DEF IInv, BlocksOwn, PatchFails, Others, vars
<1>4. BlocksOwn'
  BY <1>1, <1>3 DEF IInv, BlocksOwn, Owned
<1> QED
  BY <1>2, <1>4 DEF IInv

LEMMA Inductive == IInv /\ [Next]_vars => IInv'
BY NearStep, FarStep, OtherSteps DEF Next

LEMMA Invariance == Spec => []IInv
BY Initially, Inductive, PTL DEF Spec

-----------------------------------------------------------------------------
(* The search for memory *)

\* Division with a remainder.
LEMMA DivMod ==
    ASSUME NEW x \in Int, NEW m \in Nat \ {0}
    PROVE  /\ x \div m \in Int /\ x % m \in 0 .. m - 1
           /\ x = ((x \div m) * m) + (x % m)
OBVIOUS

LEMMA ModSmall ==
    ASSUME NEW m \in Nat \ {0}, NEW x \in 0 .. m - 1
    PROVE  x % m = x
OBVIOUS

\* Between two multiples lies a whole step.
LEMMA Multiples ==
    ASSUME NEW a \in Int, NEW b \in Int, NEW m \in Nat \ {0}
    PROVE  /\ a * m \in Int
           /\ a * m < b * m => (a * m) + m <= b * m
           /\ a <= b => a * m <= b * m
OBVIOUS

LEMMA MultipleOf ==
    ASSUME NEW x \in Int, NEW m \in Nat \ {0}, x % m = 0
    PROVE  \E n \in Int : x = n * m
<1> DEFINE n == x \div m
<1>1. n \in Int /\ x = (n * m) + (x % m)
  BY DivMod
<1>2. n * m \in Int
  BY <1>1, Multiples
<1> HIDE DEF n
<1>3. x = n * m
  BY <1>1, <1>2
<1> QED
  BY <1>1, <1>3

LEMMA DivUnique ==
    ASSUME NEW x \in Int, NEW m \in Nat \ {0}, NEW d \in Int, NEW c \in 0 .. m - 1,
           x = (d * m) + c
    PROVE  (x \div m) * m = d * m
<1>1. PICK e \in Int, b \in 0 .. m - 1 : e = x \div m /\ x = (e * m) + b
  BY DivMod
<1>2. /\ e * m \in Int /\ d * m \in Int
      /\ e * m < d * m => (e * m) + m <= d * m
      /\ d * m < e * m => (d * m) + m <= e * m
  BY Multiples
<1>3. \/ e * m < d * m
      \/ d * m < e * m
      \/ e * m = d * m
  BY <1>2
<1>4. ~(e * m < d * m) /\ ~(d * m < e * m)
  BY <1>1, <1>2
<1> QED
  BY <1>1, <1>3, <1>4

\* The order of Nat as a set of pairs, for the theorems on well-foundedness.
Below == OpToRel(<, Nat)

LEMMA BelowDef ==
    ASSUME NEW x \in Nat, NEW y \in Nat, y < x
    PROVE  <<y, x>> \in Below
<1>1. <<y, x>> \in Nat \X Nat /\ <<y, x>>[1] = y /\ <<y, x>>[2] = x
  OBVIOUS
<1>2. <<y, x>>[1] < <<y, x>>[2]
  BY <1>1
<1> QED
  BY <1>1, <1>2, Zenon DEF Below, OpToRel

\* What is not empty has a least element: the search finds what there is.
LEMMA LeastExists ==
    ASSUME NEW T \in SUBSET Nat, T # {}
    PROVE  Least(T) # {}
<1>1. IsWellFoundedOn(Below, Nat)
  BY NatLessThanWellFounded, Zenon DEF Below
<1>2. PICK x \in T : \A y \in T : <<y, x>> \notin Below
  BY <1>1, WFMin
<1>3. \A y \in T : ~(y < x)
  BY <1>2, BelowDef
<1>4. \A y \in T : x <= y
  BY <1>3
<1> QED
  BY <1>4 DEF Least

\* "Far" is "out of the signed range".
LEMMA InReach ==
    ASSUME NEW p \in Nat, NEW x \in Int
    PROVE  ~IsRelativelyFar(p, x)
           <=> -Reach <= x - (p + Width) /\ x - (p + Width) < Reach
<1> DEFINE d == x - (p + Width)
<1>1. d \in Int /\ Reach \in Nat \ {0} /\ 2 * Reach \in Nat \ {0}
  BY Sizes, SizesAssumption
<1>2. ~IsRelativelyFar(p, x) <=> d = ((d + Reach) % (2 * Reach)) - Reach
  BY DEF IsRelativelyFar, Displacement
<1> HIDE DEF d
<1>3. (d + Reach) % (2 * Reach) \in 0 .. (2 * Reach) - 1
  BY <1>1, DivMod
<1>4. ASSUME d = ((d + Reach) % (2 * Reach)) - Reach
      PROVE  -Reach <= d /\ d < Reach
  <2> DEFINE r == (d + Reach) % (2 * Reach)
  <2>1. r \in 0 .. (2 * Reach) - 1 /\ d = r - Reach
    BY <1>3, <1>4
  <2> HIDE DEF r
  <2> QED
    BY <1>1, <2>1
<1>5. ASSUME -Reach <= d, d < Reach
      PROVE  d = ((d + Reach) % (2 * Reach)) - Reach
  <2>1. d + Reach \in 0 .. (2 * Reach) - 1
    BY <1>1, <1>5
  <2>2. (d + Reach) % (2 * Reach) = d + Reach
    BY <1>1, <2>1, ModSmall
  <2> QED
    BY <1>1, <2>2
<1> QED
  BY <1>2, <1>4, <1>5 DEF d

\* Reach is a multiple of Granule: the first address that is tried.
LEMMA FirstIs ==
    ASSUME NEW p \in Nat
    PROVE  /\ FirstCandidate(p) = p - (p % Granule) - Reach + Granule
           /\ p % Granule \in 0 .. Granule - 1
           /\ \E n \in Int : FirstCandidate(p) = (n * Granule) + Granule
           /\ Granule <= Reach
<1>1. Granule \in Nat \ {0} /\ Reach \in Nat \ {0} /\ Reach % Granule = 0
  BY Sizes, SizesAssumption
<1>2. PICK q \in Int, a \in 0 .. Granule - 1 :
         a = p % Granule /\ p = (q * Granule) + a
  <2>1. /\ p \div Granule \in Int /\ p % Granule \in 0 .. Granule - 1
        /\ p = ((p \div Granule) * Granule) + (p % Granule)
    BY <1>1, DivMod
  <2> QED
    BY <2>1, Zenon
<1>3. PICK r \in Int : Reach = r * Granule
  BY <1>1, MultipleOf
<1>4. /\ q - r \in Int
      /\ (q - r) * Granule = (q * Granule) - (r * Granule)
      /\ q * Granule \in Int /\ r * Granule \in Int
  BY <1>1
<1>5. p - Reach \in Int /\ p - Reach = ((q - r) * Granule) + a
  BY <1>1, <1>2, <1>3, <1>4
<1>6. ((p - Reach) \div Granule) * Granule = (q - r) * Granule
  BY <1>1, <1>4, <1>5, DivUnique
<1>7. FirstCandidate(p) = ((q - r) * Granule) + Granule
  BY <1>6 DEF FirstCandidate
<1>8. Granule <= Reach
  <2>1. 0 * Granule = 0
    BY <1>1
  <2>2. 0 * Granule < r * Granule => (0 * Granule) + Granule <= r * Granule
    BY <1>1, Multiples
  <2> QED
    BY <1>1, <1>3, <2>1, <2>2
<1>9. FirstCandidate(p) = p - a - Reach + Granule
  <2> DEFINE u == q * Granule
             v == r * Granule
             w == (q - r) * Granule
  <2>1. /\ u \in Int /\ v \in Int /\ w = u - v /\ p = u + a /\ Reach = v
        /\ FirstCandidate(p) = w + Granule
    BY <1>2, <1>3, <1>4, <1>7
  <2> HIDE DEF u, v, w
  <2> QED
    BY <1>1, <1>2, <2>1
<1>10. /\ FirstCandidate(p) = p - (p % Granule) - Reach + Granule
       /\ p % Granule \in 0 .. Granule - 1
  BY <1>2, <1>9
<1> QED
  BY <1>4, <1>7, <1>8, <1>10, Zenon

\* Free memory within reach is among what the search tries, unless the place is
\* in the last bytes before a multiple of Granule.
LEMMA SearchFinds ==
    ASSUME NEW p \in Places, p % Granule <= Granule - Width,
           NEW g \in Grid \ (foreign \cup Owned), ~IsRelativelyFar(p, g)
    PROVE  g \in Candidates(p)
<1> DEFINE first == FirstCandidate(p)
<1>1. /\ Granule \in Nat \ {0} /\ Reach \in Nat \ {0} /\ Width \in Nat \ {0}
      /\ p \in Nat /\ g \in Nat /\ g % Granule = 0
  BY Sizes, SizesAssumption, AddressesAssumption
<1>2. -Reach <= g - (p + Width) /\ g - (p + Width) < Reach
  BY <1>1, InReach
<1>3. /\ first = p - (p % Granule) - Reach + Granule
      /\ p % Granule \in 0 .. Granule - 1
      /\ Granule <= Reach
  BY <1>1, FirstIs
<1>4. PICK n \in Int : first = (n * Granule) + Granule
  BY <1>1, FirstIs
<1> HIDE DEF first
<1>5. first \in Int
  BY <1>1, <1>3
<1>6. first <= g
  <2>1. PICK m \in Int : g = m * Granule
    <3>1. g \in Int /\ Granule \in Nat \ {0} /\ g % Granule = 0
      BY <1>1
    <3> QED
      BY <3>1, MultipleOf
  <2>2. /\ n * Granule \in Int
        /\ n * Granule < m * Granule => (n * Granule) + Granule <= m * Granule
    BY <1>1, Multiples
  <2>3. n * Granule = p - (p % Granule) - Reach
    BY <1>1, <1>3, <1>4, <2>2
  <2>4. n * Granule < g
    BY <1>1, <1>2, <1>3, <2>3
  <2> QED
    BY <1>4, <2>1, <2>2, <2>4
<1>7. ASSUME NEW k \in 0 .. (g - first) \div Granule
      PROVE  ~IsRelativelyFar(p, first + k * Granule)
  <2> DEFINE n2 == (g - first) \div Granule
             x == first + k * Granule
             z == g - first
  <2>1. /\ n2 \in Int /\ z \in Int
        /\ z % Granule \in 0 .. Granule - 1
        /\ z = (n2 * Granule) + (z % Granule)
    <3>1. z \in Int
      BY <1>1, <1>5
    <3> HIDE DEF z
    <3>2. n2 = z \div Granule
      BY DEF z
    <3> QED
      BY <1>1, <3>1, <3>2, DivMod
  <2>2. k \in Int /\ 0 <= k /\ k <= n2
    BY <2>1
  <2> HIDE DEF n2
  <2>3. /\ k * Granule \in Int /\ n2 * Granule \in Int
        /\ k * Granule <= n2 * Granule
        /\ 0 * Granule <= k * Granule /\ 0 * Granule = 0
    BY <1>1, <2>1, <2>2, Multiples
  <2>4. x \in Int /\ first <= x /\ x <= g
    <3> DEFINE c == z % Granule
               i == k * Granule
               j == n2 * Granule
    <3>1. /\ i \in Int /\ j \in Int /\ i <= j /\ 0 <= i
          /\ c \in 0 .. Granule - 1 /\ g - first = j + c
          /\ x = first + i
      BY <2>1, <2>3 DEF z
    <3> HIDE DEF c, i, j, x
    <3> QED
      BY <1>1, <1>5, <3>1
  <2> HIDE DEF x
  <2>5. -Reach <= x - (p + Width) /\ x - (p + Width) < Reach
    BY <1>1, <1>2, <1>3, <1>5, <2>4
  <2> QED
    BY <1>1, <2>4, <2>5, InReach DEF x
<1> QED
  BY <1>1, <1>5, <1>6, <1>7 DEF Candidates, first

\* A place that is refused had nothing to be found, in the blocks or outside.
LEMMA Needed ==
    ASSUME IInv, FailsOnlyWhenFull, [Next]_vars
    PROVE  FailsOnlyWhenFull'
<1>1. CASE needless' = needless
  BY <1>1 DEF FailsOnlyWhenFull
<1>2. ASSUME NEW p \in Places, NEW t \in Targets, PatchFails(p, t)
      PROVE  FailsOnlyWhenFull'
  <2>1. ASSUME NEW g \in Grid \ (foreign \cup Owned), ~IsRelativelyFar(p, g)
        PROVE  p % Granule > Granule - Width
    <3>1. SUFFICES ASSUME p % Granule <= Granule - Width PROVE FALSE
      <4>1. p \in Nat /\ Granule \in Nat \ {0} /\ Width \in Nat
        BY Sizes, SizesAssumption
      <4>2. p % Granule \in 0 .. Granule - 1
        BY <4>1, DivMod
      <4> QED
        BY <4>1, <4>2
    <3>2. g \in Candidates(p)
      BY <2>1, <3>1, SearchFinds
    <3>3. Candidates(p) \in SUBSET Nat
      BY Sizes DEF Candidates
    <3>4. PICK h \in Least(Candidates(p)) : TRUE
      BY <3>2, <3>3, LeastExists
    <3>5. PICK b \in {Fresh(c, Slot) : c \in Least(Candidates(p))} : TRUE
      BY <3>4
    <3>6. CASE Usable(p, Slot) = {}
      BY <1>2, <3>5, <3>6 DEF PatchFails, GetMemoryNear
    <3>7. CASE Usable(p, Slot) # {}
      <4>1. Usable(p, Slot) \in SUBSET Nat
        BY DEF Usable, IInv, Typed
      <4>2. PICK i \in Least(Usable(p, Slot)) : TRUE
        BY <3>7, <4>1, LeastExists
      <4> QED
        BY <1>2, <3>7, <4>2 DEF PatchFails, GetMemoryNear
    <3> QED
      BY <3>6, <3>7
  <2>2. ASSUME NEW q \in needless'
        PROVE  q % Granule > Granule - Width
    <3>1. CASE q \in needless
      BY <3>1 DEF FailsOnlyWhenFull
    <3>2. CASE q \notin needless
      <4>1. q = p /\ \E g \in Grid \ (foreign \cup Owned) : ~IsRelativelyFar(p, g)
        BY <1>2, <2>2, <3>2 DEF PatchFails
      <4> QED
        BY <2>1, <4>1
    <3> QED
      BY <3>1, <3>2
  <2> QED
    BY <2>2 DEF FailsOnlyWhenFull
<1> QED
  BY <1>1, <1>2 DEF Next, PatchNear, PatchFar, Others, vars

-----------------------------------------------------------------------------
(* Theorems *)

\* Whatever the sizes and distances, and however many places are patched in
\* whatever order, every patched place leads to the function it was last given
\* (hook.cpp:430-511).
THEOREM PatchesWork == Spec => []BranchesArrive
<1>1. IInv => BranchesArrive
  BY DEF IInv
<1> QED
  BY <1>1, Invariance, PTL

\* No trampoline overlaps another, leaves its block, or lies in memory that
\* belongs to somebody else (hook.cpp:102-149).
THEOREM TrampolinesSafe == Spec => []TrampolinesApart
<1>1. IInv => TrampolinesApart
  <2> SUFFICES ASSUME IInv PROVE TrampolinesApart
    OBVIOUS
  <2>1. ASSUME NEW s \in DOMAIN far
        PROVE  \E i \in DOMAIN blocks :
                  blocks[i].base <= s /\ s + Slot <= blocks[i].base + Granule
    <3>1. PICK i \in DOMAIN blocks :
             blocks[i].base <= s /\ s + Slot <= GetPtr(blocks[i])
      BY DEF IInv, Inside
    <3>2. /\ blocks[i].base \in Nat /\ blocks[i].used \in 0 .. Granule
          /\ GetPtr(blocks[i]) = blocks[i].base + blocks[i].used
          /\ s \in Nat
      BY BlockFacts DEF IInv, Typed
    <3>3. s + Slot <= blocks[i].base + Granule
      BY <3>1, <3>2, Sizes
    <3> QED
      BY <3>1, <3>3
  <2> QED
    BY <2>1 DEF IInv, TrampolinesApart, Apart, BlocksOwn
<1> QED
  BY <1>1, Invariance, PTL

\* Both at once: what is patched leads where it should, by trampolines that are its
\* own (hook.cpp:102-149, 430-511).
COROLLARY PatchesCorrect == Spec => []PatchesHold
<1>1. BranchesArrive /\ TrampolinesApart => PatchesHold
  BY DEF PatchesHold
<1> QED
  BY <1>1, PatchesWork, TrampolinesSafe, PTL

\* A patch is refused only for want of memory within reach: the search tries
\* every free multiple of Granule there is (hook.cpp:24-51).
THEOREM RefusalsJustified == Spec => []FailsOnlyWhenFull
<1>1. Init => FailsOnlyWhenFull
  BY DEF Init, FailsOnlyWhenFull
<1>2. IInv /\ FailsOnlyWhenFull /\ [Next]_vars => FailsOnlyWhenFull'
  BY Needed
<1> QED
  BY <1>1, <1>2, Invariance, PTL DEF Spec
=============================================================================
