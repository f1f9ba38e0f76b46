--------------------------- MODULE SchedulerProofs --------------------------
(***************************************************************************)
(* Proofs about a pipeline of the scheduler (module Scheduler), for any    *)
(* set of tasks, kinds and delays: a pass visits what it found, and the    *)
(* pipeline implements the list of tasks of module Tasks.                  *)
(***************************************************************************)
EXTENDS Scheduler, SequenceTheorems, TLAPS

\* The inductive invariant. The iterator stands on a task while a handler is
\* called, and nothing is called after the join.
IInv == /\ TypeOK
        /\ visited \in Seq(Task)
        /\ pc = "calling" => i <= Len(tasks)
        /\ joined => pc = "exited"
        /\ VisitsEachOnce

-----------------------------------------------------------------------------
(* Sequences                                                               *)

\* Erasing the k-th element moves the later ones up by one.
LEMMA Erased ==
  ASSUME NEW S, NEW s \in Seq(S), NEW k \in 1 .. Len(s)
  PROVE  /\ RemoveAt(s, k) \in Seq(S)
         /\ Len(RemoveAt(s, k)) = Len(s) - 1
         /\ \A j \in 1 .. Len(s) - 1 :
               RemoveAt(s, k)[j] = IF j < k THEN s[j] ELSE s[j + 1]
<1> DEFINE L == SubSeq(s, 1, k - 1)
           R == SubSeq(s, k + 1, Len(s))
<1>1. Len(s) \in Nat /\ \A j \in 1 .. Len(s) : s[j] \in S
  BY LenProperties, ElementOfSeq
<1>2. L \in Seq(S) /\ Len(L) = k - 1 /\ \A j \in 1 .. k - 1 : L[j] = s[j]
  BY <1>1, SubSeqProperties
<1>3. R \in Seq(S) /\ Len(R) = Len(s) - k /\ \A j \in 1 .. Len(s) - k : R[j] = s[j + k]
  <2>1. \A j \in k + 1 .. Len(s) : s[j] \in S
    BY <1>1
  <2>2. /\ R \in Seq(S)
        /\ Len(R) = IF k + 1 <= Len(s) THEN Len(s) - (k + 1) + 1 ELSE 0
        /\ \A j \in 1 .. Len(s) - (k + 1) + 1 : R[j] = s[k + 1 + j - 1]
    BY <1>1, <2>1, SubSeqProperties
  <2>3. QED
    BY <1>1, <2>2
<1> HIDE DEF L, R
<1>4. /\ L \o R \in Seq(S)
      /\ Len(L \o R) = Len(s) - 1
      /\ \A j \in 1 .. Len(s) - 1 : (L \o R)[j] = IF j < k THEN s[j] ELSE s[j + 1]
  <2>1. /\ L \o R \in Seq(S)
        /\ Len(L \o R) = Len(L) + Len(R)
        /\ \A j \in 1 .. Len(L) + Len(R) :
              (L \o R)[j] = IF j <= Len(L) THEN L[j] ELSE R[j - Len(L)]
    BY <1>2, <1>3, ConcatProperties
  <2>2. Len(L \o R) = Len(s) - 1
    BY <1>1, <1>2, <1>3, <2>1
  <2>3. ASSUME NEW j \in 1 .. Len(s) - 1
        PROVE  (L \o R)[j] = IF j < k THEN s[j] ELSE s[j + 1]
    <3>1. CASE j < k
      BY <1>1, <1>2, <1>3, <2>1, <3>1
    <3>2. CASE j >= k
      <4>1. (L \o R)[j] = R[j - (k - 1)] /\ j - (k - 1) \in 1 .. Len(s) - k
        BY <1>1, <1>2, <1>3, <2>1, <3>2
      <4>2. R[j - (k - 1)] = s[j - (k - 1) + k]
        BY <1>3, <4>1
      <4>3. j - (k - 1) + k = j + 1
        BY <1>1
      <4>4. QED
        BY <3>2, <4>1, <4>2, <4>3
    <3>3. j < k \/ j >= k
      BY <1>1
    <3>4. QED
      BY <3>1, <3>2, <3>3
  <2>4. QED
    BY <2>1, <2>2, <2>3
<1>5. QED
  BY <1>4 DEF RemoveAt, L, R

\* What is left of a pass once the task under the iterator has been dealt with,
\* whether it stays ...
LEMMA MovedOn ==
  ASSUME NEW S, NEW v \in Seq(S), NEW s \in Seq(S), NEW k \in 1 .. Len(s)
  PROVE  Append(v, s[k]) \o SubSeq(s, k + 1, Len(s)) = v \o SubSeq(s, k, Len(s))
<1> DEFINE R == SubSeq(s, k + 1, Len(s))
<1>1. Len(s) \in Nat /\ \A j \in 1 .. Len(s) : s[j] \in S
  BY LenProperties, ElementOfSeq
<1>2. R \in Seq(S) /\ <<s[k]>> \in Seq(S)
  BY <1>1, SubSeqProperties
<1>3. SubSeq(s, k, Len(s)) = <<s[k]>> \o R
  BY <1>1, SubSeqRecursiveFirst
<1>4. Append(v, s[k]) = v \o <<s[k]>>
  BY <1>1, AppendIsConcat
<1> HIDE DEF R
<1>5. (v \o <<s[k]>>) \o R = v \o (<<s[k]>> \o R)
  BY <1>2, ConcatAssociative
<1>6. QED
  BY <1>3, <1>4, <1>5 DEF R

\* ... or is erased and the next one is under the iterator.
LEMMA ErasedRest ==
  ASSUME NEW S, NEW s \in Seq(S), NEW k \in 1 .. Len(s)
  PROVE  SubSeq(RemoveAt(s, k), k, Len(RemoveAt(s, k))) = SubSeq(s, k + 1, Len(s))
<1> DEFINE E == RemoveAt(s, k)
           A == SubSeq(E, k, Len(s) - 1)
           B == SubSeq(s, k + 1, Len(s))
<1>1. Len(s) \in Nat /\ \A j \in 1 .. Len(s) : s[j] \in S
  BY LenProperties, ElementOfSeq
<1>2. /\ E \in Seq(S) /\ Len(E) = Len(s) - 1
      /\ \A j \in 1 .. Len(s) - 1 : E[j] = IF j < k THEN s[j] ELSE s[j + 1]
  BY Erased
<1> HIDE DEF E
<1>3. /\ A \in Seq(S)
      /\ Len(A) = IF k <= Len(s) - 1 THEN Len(s) - 1 - k + 1 ELSE 0
      /\ \A j \in 1 .. Len(s) - 1 - k + 1 : A[j] = E[k + j - 1]
  <2>1. \A j \in k .. Len(s) - 1 : E[j] \in S
    BY <1>1, <1>2
  <2>2. QED
    BY <1>1, <2>1, SubSeqProperties
<1>4. /\ B \in Seq(S)
      /\ Len(B) = IF k + 1 <= Len(s) THEN Len(s) - (k + 1) + 1 ELSE 0
      /\ \A j \in 1 .. Len(s) - (k + 1) + 1 : B[j] = s[k + 1 + j - 1]
  <2>1. \A j \in k + 1 .. Len(s) : s[j] \in S
    BY <1>1
  <2>2. QED
    BY <1>1, <2>1, SubSeqProperties
<1> HIDE DEF A, B
<1>5. Len(A) = Len(B)
  BY <1>1, <1>3, <1>4
<1>6. ASSUME NEW j \in 1 .. Len(A) PROVE A[j] = B[j]
  <2>1. j \in 1 .. Len(s) - k /\ k + j - 1 \in 1 .. Len(s) - 1
    BY <1>1, <1>3
  <2>2. A[j] = E[k + j - 1]
    BY <1>1, <1>3, <2>1
  <2>3. E[k + j - 1] = s[k + j - 1 + 1]
    BY <1>1, <1>2, <2>1
  <2>4. B[j] = s[k + 1 + j - 1]
    BY <1>1, <1>4, <2>1
  <2>5. k + j - 1 + 1 = k + 1 + j - 1
    BY <1>1, <2>1
  <2>6. QED
    BY <2>2, <2>3, <2>4, <2>5
<1>7. A = B
  BY <1>3, <1>4, <1>5, <1>6, SeqEqual
<1>8. QED
  BY <1>2, <1>7 DEF A, B, E

\* Erasing from a list erases from a longer one.
LEMMA ErasedOfConcat ==
  ASSUME NEW S, NEW s \in Seq(S), NEW t \in Seq(S), NEW k \in 1 .. Len(s)
  PROVE  RemoveAt(s, k) \o t = RemoveAt(s \o t, k)
<1> DEFINE E == RemoveAt(s, k)
           C == s \o t
           A == E \o t
           B == RemoveAt(C, k)
<1>1. Len(s) \in Nat /\ Len(t) \in Nat
  BY LenProperties
<1>2. /\ C \in Seq(S) /\ Len(C) = Len(s) + Len(t)
      /\ \A j \in 1 .. Len(s) + Len(t) : C[j] = IF j <= Len(s) THEN s[j] ELSE t[j - Len(s)]
  BY ConcatProperties
<1>3. /\ E \in Seq(S) /\ Len(E) = Len(s) - 1
      /\ \A j \in 1 .. Len(s) - 1 : E[j] = IF j < k THEN s[j] ELSE s[j + 1]
  BY Erased
<1> HIDE DEF E, C
<1>4. /\ A \in Seq(S) /\ Len(A) = Len(E) + Len(t)
      /\ \A j \in 1 .. Len(E) + Len(t) : A[j] = IF j <= Len(E) THEN E[j] ELSE t[j - Len(E)]
  BY <1>3, ConcatProperties
<1>5. /\ B \in Seq(S) /\ Len(B) = Len(C) - 1
      /\ \A j \in 1 .. Len(C) - 1 : B[j] = IF j < k THEN C[j] ELSE C[j + 1]
  <2>1. k \in 1 .. Len(C)
    BY <1>1, <1>2
  <2>2. QED
    BY <1>2, <2>1, Erased
<1> HIDE DEF A, B
<1>6. Len(A) = Len(B)
  BY <1>1, <1>2, <1>3, <1>4, <1>5
<1>7. ASSUME NEW j \in 1 .. Len(A) PROVE A[j] = B[j]
  <2>1. j \in 1 .. Len(s) + Len(t) - 1
    BY <1>1, <1>3, <1>4
  <2>2. CASE j < k
    <3>1. A[j] = E[j] /\ E[j] = s[j]
      BY <1>1, <1>3, <1>4, <2>1, <2>2
    <3>2. B[j] = C[j] /\ C[j] = s[j]
      BY <1>1, <1>2, <1>5, <2>1, <2>2
    <3>3. QED
      BY <3>1, <3>2
  <2>3. CASE j >= k /\ j <= Len(s) - 1
    <3>1. A[j] = E[j] /\ E[j] = s[j + 1]
      <4>1. j <= Len(E) /\ j \in 1 .. Len(s) - 1 /\ j \in 1 .. Len(E) + Len(t) /\ ~(j < k)
        BY <1>1, <1>3, <2>1, <2>3
      <4>2. A[j] = E[j]
        BY <1>4, <4>1
      <4>3. E[j] = s[j + 1]
        BY <1>3, <4>1
      <4>4. QED
        BY <4>2, <4>3
    <3>2. B[j] = C[j + 1] /\ C[j + 1] = s[j + 1]
      BY <1>1, <1>2, <1>5, <2>1, <2>3
    <3>3. QED
      BY <3>1, <3>2
  <2>4. CASE j >= Len(s)
    <3>1. A[j] = t[j - (Len(s) - 1)]
      <4>1. ~(j <= Len(E)) /\ j \in 1 .. Len(E) + Len(t)
        BY <1>1, <1>3, <2>1, <2>4
      <4>2. A[j] = t[j - Len(E)]
        BY <1>4, <4>1
      <4>3. QED
        BY <1>3, <4>2
    <3>2. B[j] = C[j + 1]
      <4>1. ~(j < k) /\ j \in 1 .. Len(C) - 1
        BY <1>1, <1>2, <2>1, <2>4
      <4>2. QED
        BY <1>5, <4>1
    <3>3. C[j + 1] = t[j + 1 - Len(s)]
      BY <1>1, <1>2, <2>1, <2>4
    <3>4. j + 1 - Len(s) = j - (Len(s) - 1)
      BY <1>1, <2>1
    <3>5. QED
      BY <3>1, <3>2, <3>3, <3>4
  <2>5. QED
    BY <1>1, <2>1, <2>2, <2>3, <2>4
<1>8. A = B
  BY <1>4, <1>5, <1>6, <1>7, SeqEqual
<1>9. QED
  BY <1>8 DEF A, B, C, E
-----------------------------------------------------------------------------
(* The pass                                                                *)

LEMMA InitIInv == Init => IInv
<1> SUFFICES ASSUME Init PROVE IInv
  OBVIOUS
<1>1. <<>> \in Seq(Task) /\ Len(<<>>) = 0
  BY EmptySeq
<1>2. \A t \in Task : Interval[t] \in Nat
  BY TaskAssumption
<1>3. TypeOK
  <2>1. \A t \in Task : since[t] \in 0 .. Interval[t]
    BY <1>2 DEF Init
  <2>2. i \in 1 .. Len(tasks) + 1
    BY <1>1 DEF Init
  <2>3. QED
    BY <1>1, <2>1, <2>2 DEF Init, TypeOK
<1>4. QED
  BY <1>1, <1>3 DEF Init, IInv, VisitsEachOnce

\* A task is registered: only the new ones change.
LEMMA AddStep == ASSUME IInv, NEW t \in Task, Add(t) PROVE IInv'
<1> USE DEF IInv, TypeOK, Add, history
<1>1. Append(new, t) \in Seq(Task)
  BY AppendProperties
<1>2. \A u \in Task : since'[u] \in 0 .. Interval[u]
  BY TaskAssumption
<1>3. QED
  BY <1>1, <1>2 DEF VisitsEachOnce

\* A pass begins with everything still to visit.
LEMMA BeginStep == ASSUME IInv, BeginPass PROVE IInv'
<1> USE DEF IInv, TypeOK, BeginPass
<1>1. /\ tasks' \in Seq(Task) /\ new' \in Seq(Task) /\ visited' \in Seq(Task)
      /\ Len(tasks') \in Nat
  BY ConcatProperties, EmptySeq, LenProperties
<1>2. TypeOK'
  BY <1>1
<1>3. visited' \o SubSeq(tasks', i', Len(tasks')) = pass'
  BY <1>1, SubSeqFull, ConcatEmptySeq
<1>4. QED
  BY <1>1, <1>2, <1>3 DEF VisitsEachOnce

\* The task under the iterator is not due, and stays.
LEMMA SkipStep == ASSUME IInv, Skip PROVE IInv'
<1> USE DEF IInv, TypeOK, Skip, queues
<1>1. i \in 1 .. Len(tasks) /\ Len(tasks) \in Nat /\ tasks[i] \in Task
  BY LenProperties, ElementOfSeq
<1>2. visited' \in Seq(Task)
  BY <1>1, AppendProperties
<1>3. visited' \o SubSeq(tasks', i', Len(tasks')) = pass'
  BY <1>1, MovedOn DEF VisitsEachOnce
<1>4. TypeOK'
  BY <1>1
<1>5. QED
  BY <1>2, <1>3, <1>4 DEF VisitsEachOnce

\* Its handler has returned: it stays or is erased.
LEMMA ReturnStep == ASSUME IInv, NEW r \in BOOLEAN, Return(r) PROVE IInv'
<1> USE DEF IInv, TypeOK, Return
<1>1. i \in 1 .. Len(tasks) /\ Len(tasks) \in Nat /\ tasks[i] \in Task
  BY LenProperties, ElementOfSeq
<1>2. visited' \in Seq(Task) /\ asked' \subseteq Task
  BY <1>1, AppendProperties
<1>3. visited \o SubSeq(tasks, i, Len(tasks)) = pass
  BY DEF VisitsEachOnce
<1>4. visited' \o SubSeq(tasks, i + 1, Len(tasks)) = pass
  BY <1>1, <1>3, MovedOn
<1>5. CASE Ends(tasks[i], r)
  <2>1. tasks' = RemoveAt(tasks, i) /\ i' = i
    BY <1>5
  <2>2. tasks' \in Seq(Task) /\ Len(tasks') = Len(tasks) - 1
    BY <1>1, <2>1, Erased
  <2>3. SubSeq(tasks', i', Len(tasks')) = SubSeq(tasks, i + 1, Len(tasks))
    BY <1>1, <2>1, ErasedRest
  <2>4. TypeOK'
    BY <1>1, <1>2, <2>1, <2>2
  <2>5. QED
    BY <1>2, <1>4, <2>3, <2>4 DEF VisitsEachOnce
<1>6. CASE ~Ends(tasks[i], r)
  <2>1. tasks' = tasks /\ i' = i + 1
    BY <1>6
  <2>2. TypeOK'
    BY <1>1, <1>2, <2>1
  <2>3. QED
    BY <1>2, <1>4, <2>1, <2>2 DEF VisitsEachOnce
<1>7. QED
  BY <1>5, <1>6

\* Every step keeps the invariant.
LEMMA NextIInv == IInv /\ [Next]_vars => IInv'
<1> SUFFICES ASSUME IInv, [Next]_vars PROVE IInv'
  OBVIOUS
<1>1. CASE \E t \in Task : Add(t)
  BY <1>1, AddStep
<1>2. CASE BeginPass \/ Skip
  BY <1>2, BeginStep, SkipStep
<1>3. CASE \E r \in BOOLEAN : Return(r)
  BY <1>3, ReturnStep
<1>4. CASE Call
  <2>1. i <= Len(tasks) /\ pc = "pass" /\ UNCHANGED <<new, tasks, i, visited, pass, stop, joined, asked>>
    BY <1>4 DEF Call, queues, history
  <2>2. \A u \in Task : since'[u] \in 0 .. Interval[u]
    BY <1>4, TaskAssumption DEF Call, IInv, TypeOK
  <2>3. TypeOK'
    BY <1>4, <2>1, <2>2 DEF Call, IInv, TypeOK
  <2>4. VisitsEachOnce'
    BY <2>1 DEF IInv, VisitsEachOnce
  <2>5. QED
    BY <1>4, <2>1, <2>3, <2>4 DEF Call, IInv
<1>5. CASE EndPass \/ RequestStop \/ ThreadExit \/ Join
  <2>1. UNCHANGED <<new, tasks, since, i, visited, pass, asked>>
    BY <1>5 DEF EndPass, RequestStop, ThreadExit, Join, queues, history
  <2>2. TypeOK'
    BY <1>5, <2>1 DEF EndPass, RequestStop, ThreadExit, Join, IInv, TypeOK
  <2>3. VisitsEachOnce'
    BY <1>5, <2>1 DEF EndPass, RequestStop, ThreadExit, Join, IInv, VisitsEachOnce
  <2>4. QED
    BY <1>5, <2>1, <2>2, <2>3 DEF EndPass, RequestStop, ThreadExit, Join, IInv
<1>6. CASE Tick
  <2>1. \A u \in Task : since'[u] \in 0 .. Interval[u]
    BY <1>6, TaskAssumption DEF Tick, IInv, TypeOK
  <2>2. QED
    BY <1>6, <2>1 DEF Tick, IInv, TypeOK, VisitsEachOnce, queues, history
<1>7. CASE UNCHANGED vars
  BY <1>7 DEF vars, IInv, TypeOK, VisitsEachOnce
<1>8. QED
  BY <1>1, <1>2, <1>3, <1>4, <1>5, <1>6, <1>7 DEF Next, Execute

\* The inductive invariant holds.
LEMMA Invariant == Spec => []IInv
  BY InitIInv, NextIInv, PTL DEF Spec

\* scheduler.cpp: a pass deals with every task it found exactly once and in
\* order, whatever is erased under its iterator and registered meanwhile.
THEOREM PassesCorrect == Spec => []VisitsEachOnce
<1>1. IInv => VisitsEachOnce
  BY DEF IInv
<1>2. QED
  BY <1>1, Invariant, PTL

-----------------------------------------------------------------------------
(* The list of tasks                                                       *)

\* Registering, merging, calling, erasing and shutting down are what module
\* Tasks allows; everything else it does not see.
LEMMA StepRefines ==
  ASSUME IInv, [Next]_vars
  PROVE  [Promise!Next]_(Promise!vars)
<1> USE DEF IInv, TypeOK, Promise!vars
<1>1. Len(tasks) \in Nat /\ tasks \o new \in Seq(Task)
  BY LenProperties, ConcatProperties
<1>2. ASSUME NEW t \in Task, Add(t) PROVE Promise!Register(t)
  <2>1. ToSet(tasks \o new) \subseteq ToSet(tasks) \cup ToSet(new)
    <3>1. SUFFICES ASSUME NEW k \in DOMAIN (tasks \o new)
                   PROVE  (tasks \o new)[k] \in ToSet(tasks) \cup ToSet(new)
      BY DEF ToSet
    <3>2. Len(new) \in Nat /\ DOMAIN tasks = 1 .. Len(tasks) /\ DOMAIN new = 1 .. Len(new)
      BY LenProperties
    <3>3. k \in 1 .. Len(tasks) + Len(new)
      BY <1>1, LenProperties, ConcatProperties
    <3>4. (tasks \o new)[k] = IF k <= Len(tasks) THEN tasks[k] ELSE new[k - Len(tasks)]
      BY <3>3, ConcatProperties
    <3>5. CASE k <= Len(tasks)
      BY <1>1, <3>2, <3>3, <3>4, <3>5 DEF ToSet
    <3>6. CASE k > Len(tasks)
      <4>1. k - Len(tasks) \in 1 .. Len(new)
        BY <1>1, <3>2, <3>3, <3>6
      <4>2. QED
        BY <1>1, <3>2, <3>3, <3>4, <3>6, <4>1 DEF ToSet
    <3>7. QED
      BY <1>1, <3>3, <3>5, <3>6
  <2>2. tasks' \o new' = Append(tasks \o new, t)
    <3>1. tasks' = tasks /\ new' = Append(new, t) /\ <<t>> \in Seq(Task)
      BY <1>2 DEF Add
    <3>2. Append(new, t) = new \o <<t>> /\ Append(tasks \o new, t) = (tasks \o new) \o <<t>>
      BY <1>1, AppendIsConcat
    <3>3. (tasks \o new) \o <<t>> = tasks \o (new \o <<t>>)
      BY <3>1, ConcatAssociative
    <3>4. QED
      BY <3>1, <3>2, <3>3
  <2>3. QED
    BY <1>2, <2>1, <2>2 DEF Add, Alive, ToSet, Promise!ToSet, Promise!Register
<1>3. ASSUME BeginPass PROVE UNCHANGED Promise!vars
  <2>1. tasks' \o new' = tasks \o new
    BY <1>1, <1>3, ConcatEmptySeq DEF BeginPass
  <2>2. QED
    BY <1>3, <2>1 DEF BeginPass
<1>4. ASSUME Skip \/ EndPass \/ RequestStop \/ ThreadExit \/ Tick \/ UNCHANGED vars
      PROVE  UNCHANGED Promise!vars
  BY <1>4 DEF Skip, EndPass, RequestStop, ThreadExit, Tick, queues, history, vars
<1>5. pc = "calling" \/ Call => /\ i \in 1 .. Len(tasks) /\ tasks[i] \in Task
                               /\ i \in DOMAIN (tasks \o new)
                               /\ (tasks \o new)[i] = tasks[i]
  <2>1. SUFFICES ASSUME i <= Len(tasks)
                 PROVE  /\ i \in 1 .. Len(tasks) /\ tasks[i] \in Task
                        /\ i \in DOMAIN (tasks \o new)
                        /\ (tasks \o new)[i] = tasks[i]
    BY DEF Call
  <2>2. Len(new) \in Nat /\ i \in 1 .. Len(tasks) /\ i \in 1 .. Len(tasks) + Len(new)
    BY <1>1, <2>1, LenProperties
  <2>3. DOMAIN (tasks \o new) = 1 .. Len(tasks) + Len(new) /\ (tasks \o new)[i] = tasks[i]
    BY <1>1, <2>2, ConcatProperties, LenProperties
  <2>4. QED
    BY <2>2, <2>3, ElementOfSeq
<1>6. ASSUME Call PROVE Promise!Call(tasks[i])
  BY <1>5, <1>6 DEF Call, queues, Promise!Call, Promise!ToSet
<1>7. ASSUME NEW r \in BOOLEAN, Return(r) PROVE Promise!Return(tasks[i])
  <2>1. pc = "calling" /\ pc' = "pass" /\ new' = new /\ joined' = joined
    BY <1>7 DEF Return
  <2>2. \/ tasks' \o new' = tasks \o new
        \/ tasks' \o new' = RemoveAt(tasks \o new, i)
    BY <1>5, <1>7, <2>1, ErasedOfConcat DEF Return
  <2>3. QED
    BY <1>5, <2>1, <2>2 DEF Promise!Return, RemoveAt, Promise!RemoveAt
<1>8. ASSUME Join PROVE Promise!ShutDown
  BY <1>8 DEF Join, queues, Promise!ShutDown
<1>9. QED
  <2>1. CASE \E t \in Task : Add(t)
    BY <1>2, <2>1 DEF Promise!Next
  <2>2. CASE Call
    BY <1>5, <1>6, <2>2 DEF Promise!Next
  <2>3. CASE \E r \in BOOLEAN : Return(r)
    <3>1. tasks[i] \in Task
      BY <1>5, <2>3 DEF Return
    <3>2. QED
      BY <1>7, <2>3, <3>1 DEF Promise!Next
  <2>4. CASE Join
    BY <1>8, <2>4 DEF Promise!Next
  <2>5. QED
    BY <1>3, <1>4, <2>1, <2>2, <2>3, <2>4 DEF Next, Execute

\* scheduler.cpp implements the list of tasks: nothing registered is lost,
\* repeated or reordered, and nothing is called after pre_destroy.
THEOREM Refinement == Spec => ImplementsTasks
<1>1. Init => Promise!Init
  BY EmptySeq, ConcatEmptySeq DEF Init, Promise!Init
<1>2. IInv /\ [Next]_vars => [Promise!Next]_(Promise!vars)
  BY StepRefines
<1>3. QED
  BY <1>1, <1>2, Invariant, PTL DEF Spec, ImplementsTasks, Promise!Spec
=============================================================================
